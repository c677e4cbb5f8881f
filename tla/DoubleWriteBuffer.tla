------------------------- MODULE DoubleWriteBuffer -------------------------
(***************************************************************************)
(* DiskDoubleWriteBuffer of storage/buffer/double_write_buffer.{h,cpp}: a  *)
(* page is written to the buffer's own file first and to its place in a    *)
(* data file only when the buffer is flushed, so that one of the two is    *)
(* whole whenever the system stops.                                        *)
(*                                                                         *)
(* The class has no lock: one thread uses it.  write_page(),               *)
(* write_page_internal() and recover() are declared and not written; what  *)
(* they do is taken from their callers: the first writes the page to its   *)
(* data file, the second writes it with its key to the slot page_index of  *)
(* the buffer's file, where load_pages() reads it, and the last flushes    *)
(* what load_pages() found.  As the caller does, recover() comes before    *)
(* the first add_page().                                                   *)
(*                                                                         *)
(* A page's contents are its version, or Torn when its checksum is wrong.  *)
(* Writes reach the disk in the order they are made and a crash may tear   *)
(* the one under way; a write may also fail and leave its target as it was *)
(* or torn.  (What a power failure makes of writes that wait in the        *)
(* operating system's cache is not modelled.)                              *)
(*                                                                         *)
(* load_pages() verifies with crc32(), so pages are taken to be stamped    *)
(* with it; it refuses those that Page::calc_checksum() has stamped        *)
(* (StampsDiffer of MCCommon), as if their slots were Torn.            *)
(***************************************************************************)
EXTENDS Integers, Sequences, FiniteSets

CONSTANTS
    Key,        \* [buffer_pool_id, page_num]
    NoKey,
    MaxPages,   \* max_pages_
    MaxVersion, \* bound: versions of a page
    MaxFaults   \* bound: writes that fail

ASSUME KeyAssumption   == IsFiniteSet(Key) /\ NoKey \notin Key
ASSUME PagesAssumption == MaxPages \in Nat \ {0}
ASSUME BoundAssumption == MaxVersion \in Nat /\ MaxFaults \in Nat

VARIABLES
    dblwr_pages_, \* function from the keys in memory to their DoubleWritePage
    page_cnt,     \* header_.page_cnt in memory
    header,       \* page_cnt in the file
    slot,         \* the slots of the file
    data,         \* the pages in their data files
    asked,        \* the newest version of each page given to add_page()
    pc,
    key,          \* the page a write is under way for
    todo,         \* flush_page(): the pages of the loop that are left
    recovering,   \* recover() is under way
    failed,       \* pages hit by a failed write (history)
    cut,          \* pages whose slot a crash tore (history)
    twice,        \* pages load_pages() found in two slots (history)
    faults        \* writes that failed (history)

disk_vars == <<header, slot, data>>
memory_vars == <<dblwr_pages_, page_cnt>>
history_vars == <<failed, cut, twice, faults>>
vars == <<memory_vars, disk_vars, asked, pc, key, todo, recovering, history_vars>>

Torn    == -1
Version == 0 .. MaxVersion
Index   == 0 .. Cardinality(Key) - 1
SlotPage == [key : Key \cup {NoKey}, version : Version \cup {Torn}]
Unwritten == [key |-> NoKey, version |-> Torn]

(* freed: deleted by flush_page() and still in dblwr_pages_.               *)
DoubleWritePage == [page_index : Index, version : Version, freed : BOOLEAN]

TypeOK ==
    /\ DOMAIN dblwr_pages_ \subseteq Key
    /\ \A k \in DOMAIN dblwr_pages_ : dblwr_pages_[k] \in DoubleWritePage
    /\ page_cnt \in 0 .. Cardinality(Key) /\ header \in 0 .. Cardinality(Key)
    /\ slot \in [Index -> SlotPage]
    /\ data \in [Key -> Version \cup {Torn}]
    /\ asked \in [Key -> Version]
    /\ pc \in {"idle", "rewrite", "slot", "header", "flush", "data", "mark", "down", "undefined"}
    /\ key \in Key \cup {NoKey}
    /\ todo \subseteq Key /\ recovering \in BOOLEAN
    /\ failed \subseteq Key /\ cut \subseteq Key /\ twice \subseteq Key /\ faults \in 0 .. MaxFaults

Empty == [k \in {} |-> {}]

Init ==
    /\ dblwr_pages_ = Empty /\ page_cnt = 0
    /\ header = 0
    /\ slot = [i \in Index |-> Unwritten]
    /\ data = [k \in Key |-> 0]
    /\ asked = [k \in Key |-> 0]
    /\ pc = "idle" /\ key = NoKey /\ todo = {} /\ recovering = FALSE
    /\ failed = {} /\ cut = {} /\ twice = {} /\ faults = 0

Goto(label, k) == pc' = label /\ key' = k
Buffered(k) == k \in DOMAIN dblwr_pages_
SlotOf(k)   == [key |-> k, version |-> dblwr_pages_[k].version]

Fault(pages) ==
    /\ faults < MaxFaults
    /\ faults' = faults + 1
    /\ failed' = failed \cup pages
    /\ UNCHANGED <<cut, twice>>

-----------------------------------------------------------------------------
(* add_page() of a page that is buffered: the entry gets the new contents. *)
AddHit(k) ==
    /\ pc = "idle" /\ Buffered(k) /\ ~dblwr_pages_[k].freed
    /\ asked[k] < MaxVersion
    /\ asked' = [asked EXCEPT ![k] = @ + 1]
    /\ dblwr_pages_' = [dblwr_pages_ EXCEPT ![k].version = asked[k] + 1]
    /\ Goto("rewrite", k)
    /\ UNCHANGED <<recovering, page_cnt, disk_vars, todo, history_vars>>

(* Another page gets the slot behind those that are taken.                 *)
AddMiss(k) ==
    /\ pc = "idle" /\ ~Buffered(k)
    /\ asked[k] < MaxVersion
    /\ asked' = [asked EXCEPT ![k] = @ + 1]
    /\ dblwr_pages_' = [j \in DOMAIN dblwr_pages_ \cup {k} |->
          IF j = k THEN [page_index |-> Cardinality(DOMAIN dblwr_pages_),
                         version |-> asked[k] + 1, freed |-> FALSE]
                   ELSE dblwr_pages_[j]]
    /\ Goto("slot", k)
    /\ UNCHANGED <<recovering, page_cnt, disk_vars, todo, history_vars>>

(* write_page_internal().                                                  *)
WriteSlot(k) == slot' = [slot EXCEPT ![dblwr_pages_[k].page_index] = SlotOf(k)]
TearSlot(k)  == slot' = [slot EXCEPT ![dblwr_pages_[k].page_index].version = Torn]

(* What is in memory is lost.                                              *)
Stop ==
    /\ dblwr_pages_' = Empty /\ page_cnt' = 0 /\ todo' = {} /\ recovering' = FALSE
    /\ Goto("down", NoKey)

(* flush_page() begins, after sync().                                      *)
FlushBegin == Goto("flush", NoKey) /\ todo' = DOMAIN dblwr_pages_

(* The end of add_page(): a full buffer is flushed.                        *)
AddEnds ==
    IF Cardinality(DOMAIN dblwr_pages_) >= MaxPages
    THEN FlushBegin
    ELSE Goto("idle", NoKey) /\ UNCHANGED todo

AddRewrite ==
    /\ pc = "rewrite"
    /\ WriteSlot(key)
    /\ Goto("idle", NoKey)
    /\ UNCHANGED <<recovering, memory_vars, header, data, asked, todo, history_vars>>

(* Mutant: the new page_cnt is not written to the file.                    *)
AddSlotHeaderLater ==
    /\ pc = "slot"
    /\ WriteSlot(key)
    /\ page_cnt' = IF dblwr_pages_[key].page_index + 1 > page_cnt
                   THEN dblwr_pages_[key].page_index + 1 ELSE page_cnt
    /\ AddEnds
    /\ UNCHANGED <<recovering, dblwr_pages_, header, data, asked, history_vars>>

(* The slot is written; the header is next if page_cnt grows.              *)
AddSlot ==
    /\ pc = "slot"
    /\ WriteSlot(key)
    /\ LET cnt == dblwr_pages_[key].page_index + 1
       IN  IF cnt > page_cnt
           THEN page_cnt' = cnt /\ Goto("header", key) /\ UNCHANGED todo
           ELSE AddEnds /\ UNCHANGED page_cnt
    /\ UNCHANGED <<recovering, dblwr_pages_, header, data, asked, history_vars>>

(* The slot cannot be written: add_page() returns, the entry stays, and    *)
(* the page that was in the slot may be counted by the next header.        *)
AddSlotFails ==
    /\ pc \in {"slot", "rewrite"}
    /\ \/ TearSlot(key) /\ Fault({key})
       \/ UNCHANGED slot /\ Fault({key, slot[dblwr_pages_[key].page_index].key} \ {NoKey})
    /\ Goto("idle", NoKey)
    /\ UNCHANGED <<recovering, memory_vars, header, data, asked, todo>>

(* Mutant: the header counts one page too many.                            *)
AddHeaderMore ==
    /\ pc = "header"
    /\ header' = page_cnt + 1
    /\ AddEnds
    /\ UNCHANGED <<recovering, memory_vars, slot, data, asked, history_vars>>

AddHeader ==
    /\ pc = "header"
    /\ header' = page_cnt
    /\ AddEnds
    /\ UNCHANGED <<recovering, memory_vars, slot, data, asked, history_vars>>

(* The header cannot be written.  Nobody writes it again before page_cnt   *)
(* grows further: no slot is worth its trust.                              *)
AddHeaderFails ==
    /\ pc = "header"
    /\ Fault(Key)
    /\ Goto("idle", NoKey)
    /\ UNCHANGED <<recovering, memory_vars, disk_vars, asked, todo>>

-----------------------------------------------------------------------------
(* flush_page() called from outside.                                       *)
Flush ==
    /\ pc = "idle"
    /\ FlushBegin
    /\ UNCHANGED <<recovering, memory_vars, disk_vars, asked, history_vars>>

(* Mutant: the slot is cleared before the page is written.                 *)
FlushTakeClears(k) ==
    /\ pc = "flush" /\ k \in todo /\ ~dblwr_pages_[k].freed
    /\ TearSlot(k)
    /\ Goto("data", k)
    /\ UNCHANGED <<recovering, memory_vars, header, data, asked, todo, history_vars>>

(* write_page(): the page goes to its data file.                           *)
FlushTake(k) ==
    /\ pc = "flush" /\ k \in todo /\ ~dblwr_pages_[k].freed
    /\ Goto("data", k)
    /\ UNCHANGED <<recovering, memory_vars, disk_vars, asked, todo, history_vars>>

FlushData ==
    /\ pc = "data"
    /\ data' = [data EXCEPT ![key] = dblwr_pages_[key].version]
    /\ Goto("mark", key)
    /\ UNCHANGED <<recovering, memory_vars, header, slot, asked, todo, history_vars>>

(* It cannot be written: flush_page() returns; the entries it has deleted  *)
(* are still in dblwr_pages_.  If recover() fails, the system does not     *)
(* start.                                                                  *)
FlushDataFails ==
    /\ pc = "data"
    /\ \/ data' = [data EXCEPT ![key] = Torn]
       \/ UNCHANGED data
    /\ Fault({key})
    /\ IF recovering THEN Stop ELSE Goto("idle", NoKey) /\ todo' = {} /\ UNCHANGED <<memory_vars, recovering>>
    /\ UNCHANGED <<header, slot, asked>>

(* valid = false is written to the slot, which load_pages() does not look  *)
(* at, and the entry is deleted.  A failure here is ignored.               *)
Mark ==
    /\ dblwr_pages_' = [dblwr_pages_ EXCEPT ![key].freed = TRUE]
    /\ todo' = todo \ {key}
    /\ Goto("flush", NoKey)

FlushMark ==
    /\ pc = "mark"
    /\ WriteSlot(key) /\ Mark
    /\ UNCHANGED <<recovering, page_cnt, header, data, asked, history_vars>>

FlushMarkFails ==
    /\ pc = "mark"
    /\ TearSlot(key) /\ Mark
    /\ Fault({})
    /\ UNCHANGED <<recovering, page_cnt, header, data, asked>>

(* Mutant: the header in memory keeps its count.                           *)
FlushEndCountKept ==
    /\ pc = "flush" /\ todo = {}
    /\ dblwr_pages_' = Empty
    /\ Goto("idle", NoKey) /\ recovering' = FALSE
    /\ UNCHANGED <<page_cnt, disk_vars, asked, todo, history_vars>>

FlushEnd ==
    /\ pc = "flush" /\ todo = {}
    /\ dblwr_pages_' = Empty
    /\ page_cnt' = 0
    /\ Goto("idle", NoKey) /\ recovering' = FALSE
    /\ UNCHANGED <<disk_vars, asked, todo, history_vars>>

(* What add_page() and flush_page() do with a deleted entry is undefined.  *)
UseFreed(k) ==
    /\ \/ pc = "idle" /\ Buffered(k) /\ asked[k] < MaxVersion
       \/ pc = "flush" /\ k \in todo
    /\ dblwr_pages_[k].freed
    /\ Goto("undefined", NoKey)
    /\ UNCHANGED <<recovering, memory_vars, disk_vars, asked, todo, history_vars>>

-----------------------------------------------------------------------------
(* The system stops.  The write under way is made, not made, or torn; the  *)
(* first is a crash after the next step.                                   *)
Crash ==
    /\ pc \notin {"down", "undefined"}
    /\ \/ UNCHANGED <<slot, data, cut>>
       \/ /\ pc \in {"slot", "rewrite", "mark"}
          /\ TearSlot(key)
          /\ cut' = IF pc = "mark" THEN cut ELSE cut \cup {key}
          /\ UNCHANGED data
       \/ /\ pc = "data"
          /\ data' = [data EXCEPT ![key] = Torn]
          /\ UNCHANGED <<slot, cut>>
    /\ Stop
    /\ UNCHANGED <<header, asked, failed, twice, faults>>

(* The slots load_pages() accepts; of several for one page, the first.     *)
Accepted == {i \in Index : i < header /\ slot[i].version # Torn}
Copy(k)  == {i \in Accepted : slot[i].key = k /\ \A j \in Accepted : slot[j].key = k => i <= j}

(* open_file(): load_pages(), then recover().                              *)
Load ==
    /\ pc = "down"
    /\ page_cnt' = header
    /\ dblwr_pages_' = [k \in {j \in Key : Copy(j) # {}} |->
          LET i == CHOOSE n \in Copy(k) : TRUE
          IN  [page_index |-> i, version |-> slot[i].version, freed |-> FALSE]]
    /\ Goto("flush", NoKey) /\ todo' = DOMAIN dblwr_pages_' /\ recovering' = TRUE
    /\ twice' = twice \cup
          {k \in Key : \E i, j \in Accepted : i # j /\ slot[i].key = k /\ slot[j].key = k}
    /\ UNCHANGED <<disk_vars, asked, failed, cut, faults>>

-----------------------------------------------------------------------------
Next ==
    \/ \E k \in Key : AddHit(k) \/ AddMiss(k) \/ FlushTake(k) \/ UseFreed(k)
    \/ AddRewrite \/ AddSlot \/ AddSlotFails \/ AddHeader \/ AddHeaderFails
    \/ Flush \/ FlushData \/ FlushDataFails \/ FlushMark \/ FlushMarkFails \/ FlushEnd
    \/ Crash \/ Load

Spec == Init /\ [][Next]_vars

-----------------------------------------------------------------------------
(* The version of a page that a crash now would leave.                     *)
Recovered(k) ==
    IF Copy(k) # {} THEN slot[CHOOSE i \in Copy(k) : TRUE].version ELSE data[k]

(* Wherever the system stops, also while it recovers, every page is whole  *)
(* in the buffer's file or in its data file; a write that failed endangers *)
(* no page but the one it was for and the one whose old slot it left,      *)
(* unless it was the header's (add_page(), flush_page(), load_pages()).    *)
IntactCopy == \A k \in Key \ failed : Recovered(k) # Torn

(* A page that add_page() took survives in the version it was taken in,    *)
(* and no older slot that is still in the file takes the place of what is  *)
(* in its data file.  Pages that load_pages() once found in two slots are  *)
(* excepted (add_page(), flush_page(), load_pages()).                      *)
TakenSurvives ==
    \A k \in Key \ (failed \cup twice) :
        /\ Recovered(k) >= data[k]
        /\ Buffered(k) /\ ~(pc \in {"slot", "rewrite", "header"} /\ key = k) =>
              Recovered(k) = dblwr_pages_[k].version

(* The buffer, its file and the data files implement PageStore.  Here also *)
(* the pages are excepted whose slot a crash tore: a rewrite in place that *)
(* is cut off takes the page back to what is in its data file.             *)
Store == INSTANCE PageStore WITH
    stored <- [k \in Key |-> Recovered(k)],
    exempt <- failed \cup cut \cup twice

ImplementsStore == Store!Spec

(* "Crash recovery" is among what the storage engine's README promises     *)
(* (README.md:388): recovery puts no older version in the place of a page  *)
(* that is in its data file.  It does when one crash leaves a page in two  *)
(* slots, before the header is rewritten, and a second one damages or      *)
(* replaces the newer slot.                                                *)
RecoveryNeverAges == failed = {} => \A k \in Key : Recovered(k) >= data[k]
=============================================================================
