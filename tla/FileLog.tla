------------------------------ MODULE FileLog ------------------------------
(***************************************************************************)
(* The diagnostic log: Logger and FileLogAppender of common/log/log.{h,    *)
(* cpp}, with the std::ofstream and the files under it.                    *)
(*                                                                         *)
(* Several threads log through one Logger.  Logger::log() holds the        *)
(* Logger's m_mutex while it calls one appender after the other, and each  *)
(* appender holds its own m_mutex.  InitLogger() may run again: it makes   *)
(* one more appender on the same file name, in the constructor without any *)
(* lock, and adds it.  reopen() is called from outside.                    *)
(*                                                                         *)
(* An open(2) may fail, and so may a write.  log() of an appender whose    *)
(* file is not open calls reopen(), which locks m_mutex again: for a       *)
(* std::mutex over glibc the thread waits for itself ("stuck").            *)
(*                                                                         *)
(* Time is counted in days, m_currentSize in units of a line.              *)
(***************************************************************************)
EXTENDS Integers, Sequences, FiniteSets, SequencesExt

CONSTANTS
    Thread,
    Appender,   \* the appenders InitLogger() makes, in this order: 1, 2, ..
    MaxEvent,   \* bound: events logged
    LowEvent,   \* the events below the appenders' m_level
    LineSize,   \* of each event
    MaxSize,    \* m_maxSize
    MaxDay,     \* bound: midnights
    MaxFaults,  \* bound: opens and writes that fail
    MaxReopens  \* bound: calls of reopen() from outside

Event == 1 .. MaxEvent

ASSUME BoundAssumption    == {MaxEvent, MaxDay, MaxFaults, MaxReopens, Appender} \subseteq Nat
ASSUME SizeAssumption     == MaxSize \in Nat \ {0}
ASSUME LineSizeAssumption == LineSize \in [Event -> Nat \ {0}]
ASSUME LowEventAssumption == LowEvent \subseteq Event

(* File names: m_filename itself, or with the index or day at its end.     *)
Bare == -1
None == -2      \* no file
FileName == Nat \cup {Bare}

VARIABLES
    rotate,      \* "size" | "time": m_rotate
    files,       \* the files there are, and the lines in each
    stream,      \* m_filestream of each appender: the open file, and failbit
    m_currentSize,
    m_lastRotateTime,
    m_appenders, \* of the Logger
    pc,          \* of each thread
    call,        \* its call: event (0: InitLogger), appender, file, day it began
    day,         \* the clock
    events,      \* events logged so far (bound)
    made,        \* appenders made so far (bound)
    got,         \* the events each appender has accepted (history)
    faulty,      \* the appenders a fault has hit (history)
    faults,      \* how many faults (history)
    shared,      \* the files two appenders have opened (history)
    reopened,    \* the appenders reopen() was called for from outside (history)
    reopens,     \* how often (history)
    straddled    \* the appenders made across midnight (history)

ap_vars   == <<stream, m_currentSize, m_lastRotateTime>>
history_vars == <<got, faulty, faults, shared, reopened, reopens, straddled>>
count_vars == <<events, made>>
vars == <<rotate, files, ap_vars, m_appenders, pc, call, day, count_vars, history_vars>>

Ids    == 1 .. Appender
Line   == [by : Ids, event : Event, from : 0 .. MaxDay, to : 0 .. MaxDay]
Stream == [file : FileName \cup {None}, fail : BOOLEAN]
Call   == [event : 0 .. MaxEvent, ap : 0 .. Appender, k : 0 .. Appender,
           file : FileName \cup {None}, from : 0 .. MaxDay]
NoCall == [event |-> 0, ap |-> 0, k |-> 0, file |-> None, from |-> 0]

exists == DOMAIN files

TypeOK ==
    /\ rotate \in {"size", "time"}
    /\ files \in [exists -> Seq(Line)]
    /\ exists \subseteq FileName /\ IsFiniteSet(exists)
    /\ stream \in [Ids -> Stream]
    /\ m_currentSize \in [Ids -> Nat]
    /\ m_lastRotateTime \in [Ids -> 0 .. MaxDay]
    /\ m_appenders \in Seq(Ids) /\ IsInjective(m_appenders)
    /\ pc \in [Thread -> {"idle", "next", "pick", "open", "write", "stuck", "time", "add"}]
    /\ call \in [Thread -> Call]
    /\ day \in 0 .. MaxDay /\ events \in 0 .. MaxEvent /\ made \in 0 .. Appender
    /\ got \in [Ids -> Seq(Event)]
    /\ faulty \subseteq Ids /\ faults \in 0 .. MaxFaults
    /\ shared \subseteq FileName /\ straddled \subseteq Ids
    /\ reopened \subseteq Ids /\ reopens \in 0 .. MaxReopens

Init ==
    /\ rotate \in {"size", "time"}
    /\ files = <<>>
    /\ stream = [a \in Ids |-> [file |-> None, fail |-> FALSE]]
    /\ m_currentSize = [a \in Ids |-> 0]
    /\ m_lastRotateTime = [a \in Ids |-> 0]
    /\ m_appenders = <<>>
    /\ pc = [t \in Thread |-> "idle"]
    /\ call = [t \in Thread |-> NoCall]
    /\ day = 0 /\ events = 0 /\ made = 0
    /\ got = [a \in Ids |-> <<>>]
    /\ faulty = {} /\ faults = 0 /\ shared = {} /\ straddled = {}
    /\ reopened = {} /\ reopens = 0

(* Mutant: InitLogger() holds the Logger's m_mutex.                        *)
LoggerFreeOfAll == \A t \in Thread : pc[t] = "idle"

(* The Logger's m_mutex is held during a whole Logger::log(), an           *)
(* appender's from checkRotate() on.                                       *)
LoggerFree      == \A t \in Thread : call[t].event = 0
AppenderFree(a) == \A t \in Thread : pc[t] = "idle" \/ call[t].ap # a

Goto(t, label, c) ==
    /\ pc' = [pc EXCEPT ![t] = label]
    /\ call' = [call EXCEPT ![t] = c]

-----------------------------------------------------------------------------
(* std::ofstream.  close() of what is not open fails.                      *)
Closed(s) ==
    IF s.file = None THEN [s EXCEPT !.fail = TRUE] ELSE [s EXCEPT !.file = None]

(* Mutant: the file stays open.                                            *)
CloseNever(s) == s

(* `if (m_filestream) m_filestream.close();`                               *)
CloseIfGood(s) == IF s.fail THEN s ELSE Closed(s)

(* open(): fails when a file is open already or the file cannot be opened. *)
Opened(s, name, ok) ==
    IF s.file = None /\ ok THEN [file |-> name, fail |-> FALSE] ELSE [s EXCEPT !.fail = TRUE]

(* What open(name) of appender a does to its stream, the disk and history. *)
OpenStream(a, s, name, ok) ==
    /\ stream' = [stream EXCEPT ![a] = Opened(s, name, ok)]
    /\ IF s.file = None /\ ok
       THEN /\ files' = [n \in exists \cup {name} |-> IF n \in exists THEN files[n] ELSE <<>>]
            /\ shared' = IF name \in exists THEN shared \cup {name} ELSE shared
       ELSE UNCHANGED <<files, shared>>
    /\ IF ok THEN UNCHANGED <<faulty, faults>>
       ELSE /\ faults < MaxFaults
            /\ faults' = faults + 1
            /\ faulty' = faulty \cup {a}

-----------------------------------------------------------------------------
(* Mutant: a later call adds the first appender again.                     *)
InitLoggerAgain(t) ==
    /\ pc[t] = "idle" /\ made < Appender
    /\ made' = made + 1
    /\ Goto(t, "pick", [NoCall EXCEPT !.ap = 1])
    /\ UNCHANGED <<rotate, files, ap_vars, m_appenders, day, events, history_vars>>

(* InitLogger() makes a FileLogAppender: createNewFile() and the second    *)
(* assignment of m_lastRotateTime, then addAppender().                     *)
InitLogger(t) ==
    /\ pc[t] = "idle" /\ made < Appender
    /\ made' = made + 1
    /\ Goto(t, "pick", [NoCall EXCEPT !.ap = made + 1])
    /\ UNCHANGED <<rotate, files, ap_vars, m_appenders, day, events, history_vars>>

SetRotateTime(t) ==
    /\ pc[t] = "time"
    /\ LET a == call[t].ap
       IN  /\ m_lastRotateTime' = [m_lastRotateTime EXCEPT ![a] = day]
           /\ straddled' =
                 IF rotate = "time" /\ m_lastRotateTime[a] # day THEN straddled \cup {a} ELSE straddled
    /\ Goto(t, "add", call[t])
    /\ UNCHANGED <<rotate, files, stream, m_currentSize, m_appenders, day, count_vars, got,
                   faulty, faults, shared, reopened, reopens>>

AddAppender(t) ==
    /\ pc[t] = "add" /\ LoggerFree
    /\ m_appenders' = Append(m_appenders, call[t].ap)
    /\ Goto(t, "idle", NoCall)
    /\ UNCHANGED <<rotate, files, ap_vars, day, count_vars, history_vars>>

(* delAppender(); clearAppenders() does it for each.  The appender is      *)
(* destroyed, and its stream with it.                                      *)
DelAppender(t, a) ==
    /\ pc[t] = "idle" /\ LoggerFree
    /\ \E i \in DOMAIN m_appenders :
          /\ m_appenders[i] = a
          /\ m_appenders' = RemoveAt(m_appenders, i)
    /\ stream' = [stream EXCEPT ![a] = [file |-> None, fail |-> FALSE]]
    /\ UNCHANGED <<rotate, files, m_currentSize, m_lastRotateTime, pc, call, day, count_vars,
                   history_vars>>

-----------------------------------------------------------------------------
(* Logger::log() takes the lock.  Without appenders it does nothing.       *)
Log(t) ==
    /\ pc[t] = "idle" /\ LoggerFree
    /\ events < MaxEvent /\ events + 1 \notin LowEvent
    /\ m_appenders # <<>>
    /\ events' = events + 1
    /\ Goto(t, "next", [NoCall EXCEPT !.event = events + 1, !.k = 1])
    /\ UNCHANGED <<rotate, files, ap_vars, m_appenders, day, made, history_vars>>

(* Every appender returns at once from an event below its m_level.         *)
LogLow(t) ==
    /\ pc[t] = "idle" /\ LoggerFree
    /\ events < MaxEvent /\ events + 1 \in LowEvent
    /\ events' = events + 1
    /\ UNCHANGED <<rotate, files, ap_vars, m_appenders, pc, call, day, made, history_vars>>

(* This appender has had the event: on to the next, or log() returns.      *)
LogNext(t) ==
    IF call[t].k = Len(m_appenders)
    THEN Goto(t, "idle", NoCall)
    ELSE Goto(t, "next", [NoCall EXCEPT !.event = call[t].event, !.k = call[t].k + 1])

(* Mutant: a file is left when it has grown beyond its limit.              *)
CheckRotateBeyond(a) ==
    \/ rotate = "size" /\ m_currentSize[a] > MaxSize
    \/ rotate = "time" /\ day # m_lastRotateTime[a]

(* Mutant: the day of the last rotation is not looked at.                  *)
CheckRotateSize(a) == rotate = "size" /\ m_currentSize[a] >= MaxSize

checkRotate(a) ==
    \/ rotate = "size" /\ m_currentSize[a] >= MaxSize
    \/ rotate = "time" /\ day # m_lastRotateTime[a]

(* FileLogAppender::log() takes m_mutex and asks checkRotate().            *)
LogCheck(t) ==
    /\ pc[t] = "next"
    /\ LET a == m_appenders[call[t].k]
       IN  /\ AppenderFree(a)
           /\ got' = [got EXCEPT ![a] = Append(@, call[t].event)]
           /\ Goto(t, IF checkRotate(a) THEN "pick" ELSE "write",
                   [call[t] EXCEPT !.ap = a, !.from = day])
    /\ UNCHANGED <<rotate, files, ap_vars, m_appenders, day, count_vars, faulty, faults,
                   shared, reopened, reopens, straddled>>

-----------------------------------------------------------------------------
(* The first index no file has.                                            *)
FreeIndex ==
    CHOOSE n \in 0 .. Cardinality(exists) : n \notin exists /\ \A m \in 0 .. n - 1 : m \in exists

(* createNewFile() closes the file and chooses the name of the next.       *)
PickFile(t) ==
    /\ pc[t] = "pick"
    /\ LET a == call[t].ap
       IN  /\ stream' = [stream EXCEPT ![a] = CloseIfGood(@)]
           /\ m_lastRotateTime' = [m_lastRotateTime EXCEPT ![a] = IF rotate = "time" THEN day ELSE @]
           /\ Goto(t, "open", [call[t] EXCEPT !.file = IF rotate = "time" THEN day ELSE FreeIndex])
    /\ UNCHANGED <<rotate, files, m_currentSize, m_appenders, day, count_vars, history_vars>>

(* createNewFile() opens it.                                               *)
OpenFile(t, ok) ==
    /\ pc[t] = "open"
    /\ LET a == call[t].ap
       IN  /\ OpenStream(a, stream[a], call[t].file, ok)
           /\ m_currentSize' = [m_currentSize EXCEPT ![a] = 0]
    /\ Goto(t, IF call[t].event = 0 THEN "time" ELSE "write", call[t])
    /\ UNCHANGED <<rotate, m_lastRotateTime, m_appenders, day, count_vars, got, reopened,
                   reopens, straddled>>

-----------------------------------------------------------------------------
(* No file is open: reopen() locks m_mutex a second time.                  *)
LogStuck(t) ==
    /\ pc[t] = "write" /\ stream[call[t].ap].file = None
    /\ Goto(t, "stuck", call[t])
    /\ UNCHANGED <<rotate, files, ap_vars, m_appenders, day, count_vars, history_vars>>

(* The line is written to the stream, and counted whatever came of it.  A  *)
(* stream with failbit writes nothing.                                     *)
LogWrite(t) ==
    /\ pc[t] = "write" /\ stream[call[t].ap].file # None
    /\ LET a == call[t].ap
           line == [by |-> a, event |-> call[t].event, from |-> call[t].from, to |-> day]
       IN  /\ files' = IF stream[a].fail THEN files
                       ELSE [files EXCEPT ![stream[a].file] = Append(@, line)]
           /\ m_currentSize' = [m_currentSize EXCEPT ![a] = @ + LineSize[call[t].event]]
    /\ LogNext(t)
    /\ UNCHANGED <<rotate, stream, m_lastRotateTime, m_appenders, day, count_vars,
                   history_vars>>

(* The disk is full: badbit, the file stays open.                          *)
LogWriteFails(t) ==
    /\ pc[t] = "write" /\ stream[call[t].ap].file # None
    /\ faults < MaxFaults
    /\ LET a == call[t].ap
       IN  /\ stream' = [stream EXCEPT ![a].fail = TRUE]
           /\ m_currentSize' = [m_currentSize EXCEPT ![a] = @ + LineSize[call[t].event]]
           /\ faulty' = faulty \cup {a} /\ faults' = faults + 1
    /\ LogNext(t)
    /\ UNCHANGED <<rotate, files, m_lastRotateTime, m_appenders, day, count_vars, got, shared,
                   reopened, reopens, straddled>>

(* reopen() from outside.  It opens m_filename itself, not a rotated file. *)
Reopen(a, ok) ==
    /\ a \in ToSet(m_appenders) /\ AppenderFree(a)
    /\ reopens < MaxReopens
    /\ OpenStream(a, CloseIfGood(stream[a]), Bare, ok)
    /\ reopens' = reopens + 1 /\ reopened' = reopened \cup {a}
    /\ UNCHANGED <<rotate, m_currentSize, m_lastRotateTime, m_appenders, pc, call, day,
                   count_vars, got, straddled>>

Midnight ==
    /\ day < MaxDay
    /\ day' = day + 1
    /\ UNCHANGED <<rotate, files, ap_vars, m_appenders, pc, call, count_vars, history_vars>>

-----------------------------------------------------------------------------
(* The steps of a call that is under way.                                  *)
Step(t) ==
    \/ SetRotateTime(t) \/ AddAppender(t)
    \/ LogCheck(t) \/ PickFile(t)
    \/ \E ok \in BOOLEAN : OpenFile(t, ok)
    \/ LogStuck(t) \/ LogWrite(t) \/ LogWriteFails(t)

Next ==
    \/ \E t \in Thread :
          \/ InitLogger(t) \/ Log(t) \/ LogLow(t) \/ Step(t)
          \/ \E a \in Ids : DelAppender(t, a)
    \/ \E a \in Ids, ok \in BOOLEAN : Reopen(a, ok)
    \/ Midnight

(* A thread that has begun a call is scheduled again.  There are finitely  *)
(* many calls, so one that waits for a lock gets it.                       *)
Spec == Init /\ [][Next]_vars /\ \A t \in Thread : WF_vars(Step(t))

-----------------------------------------------------------------------------
(* The lines of a file that appender a wrote, and their events.            *)
OwnLines(a, n) == {i \in DOMAIN files[n] : files[n][i].by = a}
EventsIn(a, n) == {files[n][i].event : i \in OwnLines(a, n)}

(* The events a has to have written: a call that still is at it has not.   *)
Due(a) ==
    IF \E t \in Thread : call[t].ap = a /\ call[t].event # 0 THEN Front(got[a]) ELSE got[a]

(* No line is lost, doubled or put out of order, whatever threads log,     *)
(* rotate, reopen and add appenders: the events an appender accepted are   *)
(* each in one of its files, once, in their order, as long as no open or   *)
(* write of this appender failed; those of the others may                  *)
(* (FileLogAppender::log(), createNewFile(), reopen()).                    *)
LinesKept ==
    \A a \in Ids \ faulty :
        /\ \A n \in exists : \A i, j \in OwnLines(a, n) :
              i < j => files[n][i].event < files[n][j].event
        /\ UNION {EventsIn(a, n) : n \in exists} = ToSet(Due(a))
        /\ \A m, n \in exists : m # n => EventsIn(a, m) \cap EventsIn(a, n) = {}
        /\ a \notin reopened => \A m, n \in exists : m < n =>
              \A i \in EventsIn(a, m), j \in EventsIn(a, n) : i < j

SizeOf(lines) == FoldLeft(LAMBDA sum, l : sum + LineSize[l.event], 0, lines)

(* Rotation by size keeps files small: a rotated file takes no line once   *)
(* it has reached m_maxSize, unless two appenders found its name free at   *)
(* the same time and share it (checkRotate(), createNewFile()).            *)
SizeLimit ==
    rotate = "size" => \A n \in exists \ ({Bare} \cup shared) :
        files[n] # <<>> => SizeOf(Front(files[n])) < MaxSize

(* Rotation by day: a line stands in the file of a day that its log() call *)
(* ran in.  Not so in an appender that was made across midnight: its       *)
(* constructor notes the new day for the old day's file.                   *)
DayFile ==
    rotate = "time" => \A n \in exists \ {Bare} : \A i \in DOMAIN files[n] :
        files[n][i].by \notin straddled \cup faulty =>
            files[n][i].from <= n /\ n <= files[n][i].to

(* Every log() and InitLogger() returns, through two levels of locks and   *)
(* whatever writes fail, unless a thread waits for itself in an appender   *)
(* whose file could not be opened (FileLogAppender::log(), Logger::log()). *)
SelfBlocked(u) == pc[u] = "stuck" /\ call[u].ap \in faulty

CallsReturn ==
    \A t \in Thread : pc[t] # "idle" ~> pc[t] = "idle" \/ \E u \in Thread : SelfBlocked(u)

-----------------------------------------------------------------------------
(* What the comments say and the code does not do.                         *)

(* "check whether the file is open, and try to open it again if it is not" *)
(* (log.cpp:174): log() comes back from the attempt, whatever came of it.  *)
LogReturns ==
    \A t \in Thread : pc[t] # "idle" /\ call[t].event # 0 ~> pc[t] = "idle"
=============================================================================
