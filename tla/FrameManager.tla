---------------------------- MODULE FrameManager ----------------------------
(***************************************************************************)
(* The frames that hold pages in memory: class FrameManager of             *)
(* storage/buffer/buffer_pool.{h,cpp} with its LruCache (lru_cache.h), its *)
(* fixed pool of frames (MemPoolSimple of common/mem/mem_pool.h, which     *)
(* init() sets up without extension) and Frame (frame.{h,cpp}).            *)
(*                                                                         *)
(* Several threads use one manager.  Its methods hold mutex_ from their    *)
(* first to their last access, so each is one step, except for             *)
(* purge_frames(): while it runs the callback, other threads cannot enter  *)
(* the manager but can unpin() their frames, which takes no lock.          *)
(*                                                                         *)
(* ASSERT() only evaluates its condition unless DEBUG is defined, which no *)
(* build file does: the code goes on behind a condition that is false.     *)
(*                                                                         *)
(* BufferPool, the user of the manager, is only declared in the            *)
(* repository.  The threads here do what the interface is made for: look a *)
(* page up, allocate a frame for a page that is not there, unpin or free   *)
(* what they got.                                                          *)
(*                                                                         *)
(* Two things go wrong in this code: a purged frame stays in the cache,    *)
(* and two threads may allocate one page.  purged and doubled remember     *)
(* that it happened, so that the invariants can say what holds without.    *)
(***************************************************************************)
EXTENDS LruCache, Integers, FiniteSets

CONSTANTS
    Thread,
    Frame,         \* the frames of allocator_
    NoFrame,       \* nullptr
    PageId,        \* the pages asked for: [buffer_pool_id, page_num]
    PurgeCount,    \* values of count in purge_frames()
    MaxPurges      \* bound: how often the callback lets a frame go

FrameId == [buffer_pool_id : Int, page_num : Int]

ASSUME FrameAssumption  == IsFiniteSet(Frame) /\ NoFrame \notin Frame
ASSUME PageAssumption   == PageId \subseteq [buffer_pool_id : Nat, page_num : Nat]
ASSUME CountAssumption  == PurgeCount \subseteq Nat \ {0}
ASSUME PurgesAssumption == MaxPurges \in Nat

VARIABLES
    frames_,    \* LruCache of frames by FrameId
    used,       \* allocator_.used_
    frees,      \* allocator_.frees_
    pin_count,  \* of each frame
    frame_id,   \* of each frame
    page_num,   \* page_.header.page_num of each frame
    pc,         \* of each thread: "idle" | "miss" | "unpin" | "purge"
    arg,        \* what the thread's call is about: page and frame
    victims,    \* can_purge_frame: the frames still to be purged
    holds,      \* what each thread has pinned: page and frame
    purged,     \* history: how many frames were purged
    doubled     \* history: the pages that were allocated while in a frame

frame_vars == <<pin_count, frame_id, page_num>>
pool_vars  == <<used, frees>>
history == <<purged, doubled>>
vars == <<frames_, used, frees, pin_count, frame_id, page_num, pc, arg, victims, holds,
          purged, doubled>>

Handle == [id : PageId, frame : Frame \cup {NoFrame}]
NoId   == [buffer_pool_id |-> -1, page_num |-> -1]
NoCall == [id |-> NoId, frame |-> NoFrame]

TypeOK ==
    /\ frames_ \in Seq([key : PageId, value : Frame])
    /\ used \subseteq Frame
    /\ frees \in Seq(Frame)
    /\ pin_count \in [Frame -> Int]
    /\ frame_id \in [Frame -> FrameId]
    /\ page_num \in [Frame -> Int]
    /\ pc \in [Thread -> {"idle", "miss", "unpin", "purge"}]
    /\ arg \in [Thread -> Handle \cup {NoCall}]
    /\ victims \in Seq(Frame)
    /\ holds \in [Thread -> SUBSET [id : PageId, frame : Frame]]
    /\ purged \in 0 .. MaxPurges
    /\ doubled \subseteq PageId

(* init(): one frame per pool of allocator_.                               *)
Init ==
    /\ frames_ = <<>>
    /\ used = {}
    /\ frees = SetToSeq(Frame)
    /\ pin_count = [f \in Frame |-> 0]
    /\ frame_id = [f \in Frame |-> NoId]
    /\ page_num = [f \in Frame |-> -1]
    /\ pc = [t \in Thread |-> "idle"]
    /\ arg = [t \in Thread |-> NoCall]
    /\ victims = <<>>
    /\ holds = [t \in Thread |-> {}]
    /\ purged = 0
    /\ doubled = {}

(* mutex_ is held over several steps by purge_frames() alone.              *)
MutexFree == \A t \in Thread : pc[t] # "purge"

Ready(t) == pc[t] = "idle" /\ MutexFree
Goto(t, label, call) ==
    /\ pc' = [pc EXCEPT ![t] = label]
    /\ arg' = [arg EXCEPT ![t] = call]

-----------------------------------------------------------------------------
(* The caller's rules.  A thread holds a page once, and frees only what    *)
(* nobody else holds.                                                      *)
Holds(t, id)  == \E h \in holds[t] : h.id = id
MayAsk(t, id) == ~Holds(t, id)
MayFree(t, h) ==
    /\ h \in holds[t]
    /\ \A u \in Thread \ {t} : ~Holds(u, h.id) /\ ~(pc[u] = "miss" /\ arg[u].id = h.id)

-----------------------------------------------------------------------------
(* get() of a page that is in a frame.                                     *)
GetHit(t, id) ==
    /\ Ready(t) /\ MayAsk(t, id)
    /\ Found(frames_, id)
    /\ LET f == ValueOf(frames_, id)
       IN  /\ pin_count' = [pin_count EXCEPT ![f] = @ + 1]
           /\ holds' = [holds EXCEPT ![t] = @ \cup {[id |-> id, frame |-> f]}]
    /\ frames_' = LruGet(frames_, id)
    /\ UNCHANGED <<pool_vars, frame_id, page_num, pc, arg, victims, history>>

(* get() returns nullptr; the thread goes on to alloc().                   *)
GetMiss(t, id) ==
    /\ Ready(t) /\ MayAsk(t, id)
    /\ ~Found(frames_, id)
    /\ Goto(t, "miss", [id |-> id, frame |-> NoFrame])
    /\ UNCHANGED <<frames_, pool_vars, frame_vars, victims, holds, history>>

(* alloc(): MemPoolSimple::alloc() with reinit() of the frame, then the    *)
(* settings and put(), which takes the place of an entry that is there.    *)
(* The FrameId of the frame gets the pool; its page_num stays -1.          *)
Alloc(t) ==
    /\ pc[t] = "miss" /\ MutexFree
    /\ frees # <<>>
    /\ LET f == Head(frees)
           id == arg[t].id
       IN  /\ used' = used \cup {f}
           /\ pin_count' = [pin_count EXCEPT ![f] = 1]
           /\ frame_id' = [frame_id EXCEPT ![f] = [NoId EXCEPT !.buffer_pool_id = id.buffer_pool_id]]
           /\ page_num' = [page_num EXCEPT ![f] = id.page_num]
           /\ frames_' = LruPut(frames_, id, f)
           /\ holds' = [holds EXCEPT ![t] = @ \cup {[id |-> id, frame |-> f]}]
           /\ doubled' = IF Found(frames_, id) THEN doubled \cup {id} ELSE doubled
    /\ frees' = Tail(frees)
    /\ Goto(t, "idle", NoCall)
    /\ UNCHANGED <<victims, purged>>

(* Mutant: nullptr is taken for a frame.                                   *)
AllocNoneHeld(t) ==
    /\ pc[t] = "miss" /\ MutexFree
    /\ frees = <<>>
    /\ holds' = [holds EXCEPT ![t] = @ \cup {arg[t]}]
    /\ Goto(t, "idle", NoCall)
    /\ UNCHANGED <<frames_, pool_vars, frame_vars, victims, history>>

(* alloc(): all frames are in use, the thread gets nullptr.                *)
AllocNone(t) ==
    /\ pc[t] = "miss" /\ MutexFree
    /\ frees = <<>>
    /\ Goto(t, "idle", NoCall)
    /\ UNCHANGED <<frames_, pool_vars, frame_vars, victims, holds, history>>

(* find_list(): pins the frames of one pool.                               *)
FindList(t, pool) ==
    /\ Ready(t) /\ holds[t] = {}
    /\ LET hits == {i \in 1 .. Len(frames_) : frame_id[frames_[i].value].buffer_pool_id = pool}
       IN  /\ hits # {}
           /\ pin_count' = [f \in Frame |->
                 pin_count[f] + Cardinality({i \in hits : frames_[i].value = f})]
           /\ holds' = [holds EXCEPT ![t] =
                 {[id |-> frames_[i].key, frame |-> frames_[i].value] : i \in hits}]
    /\ UNCHANGED <<frames_, pool_vars, frame_id, page_num, pc, arg, victims, history>>

-----------------------------------------------------------------------------
(* Mutant: what is freed is not looked for in used_.                       *)
PoolFreeAlways(f) == used' = used \ {f} /\ frees' = Append(frees, f)

(* MemPoolSimple::free(): a frame that is not in use is not put back.      *)
PoolFree(f) ==
    IF f \in used
    THEN used' = used \ {f} /\ frees' = Append(frees, f)
    ELSE UNCHANGED pool_vars

(* Mutant: the entry of the cache stays.                                   *)
FreeInternalKeepsEntry(id, f) ==
    /\ pin_count' = [pin_count EXCEPT ![f] = 0]
    /\ frame_id' = [frame_id EXCEPT ![f] = NoId]
    /\ page_num' = [page_num EXCEPT ![f] = -1]
    /\ PoolFree(f)
    /\ UNCHANGED frames_

(* Mutant: the entry is gone, the frame stays out of the pool.             *)
FreeInternalLeaks(id, f) ==
    /\ frames_' = LruRemove(frames_, id)
    /\ pin_count' = [pin_count EXCEPT ![f] = 0]
    /\ frame_id' = [frame_id EXCEPT ![f] = NoId]
    /\ page_num' = [page_num EXCEPT ![f] = -1]
    /\ UNCHANGED pool_vars

(* free_internal(): the frame is put back whatever frames_.get() found,    *)
(* reset() has cleared it.                                                 *)
FreeInternal(id, f) ==
    /\ frames_' = LruRemove(frames_, id)
    /\ pin_count' = [pin_count EXCEPT ![f] = 0]
    /\ frame_id' = [frame_id EXCEPT ![f] = NoId]
    /\ page_num' = [page_num EXCEPT ![f] = -1]
    /\ PoolFree(f)

(* free().                                                                 *)
Free(t, h) ==
    /\ Ready(t) /\ MayFree(t, h)
    /\ FreeInternal(h.id, h.frame)
    /\ holds' = [holds EXCEPT ![t] = @ \ {h}]
    /\ UNCHANGED <<pc, arg, victims, history>>

(* Frame::unpin(): the count is compared with 0 and then decremented.      *)
UnpinCheck(t, h) ==
    /\ pc[t] = "idle" /\ h \in holds[t]
    /\ pin_count[h.frame] > 0
    /\ Goto(t, "unpin", h)
    /\ UNCHANGED <<frames_, pool_vars, frame_vars, victims, holds, history>>

UnpinNothing(t, h) ==
    /\ pc[t] = "idle" /\ h \in holds[t]
    /\ pin_count[h.frame] <= 0
    /\ holds' = [holds EXCEPT ![t] = @ \ {h}]
    /\ UNCHANGED <<frames_, pool_vars, frame_vars, pc, arg, victims, history>>

UnpinDecrement(t) ==
    /\ pc[t] = "unpin"
    /\ pin_count' = [pin_count EXCEPT ![arg[t].frame] = @ - 1]
    /\ holds' = [holds EXCEPT ![t] = @ \ {arg[t]}]
    /\ Goto(t, "idle", NoCall)
    /\ UNCHANGED <<frames_, pool_vars, frame_id, page_num, victims, history>>

-----------------------------------------------------------------------------
(* Where the search of purge_frames() finds a frame nobody has pinned: the *)
(* first place from the back, since it pins what it finds.                 *)
Purgeable ==
    {i \in 1 .. Len(frames_) :
        /\ pin_count[frames_[i].value] = 0
        /\ \A j \in i + 1 .. Len(frames_) : frames_[j].value # frames_[i].value}

Chosen(count) == {i \in Purgeable : Cardinality({j \in Purgeable : j > i}) < count}

(* purge_frames(): pins up to count frames, the least recently used first. *)
PurgeFind(t, count) ==
    /\ Ready(t)
    /\ LET chosen == Chosen(count)
       IN  /\ \E places \in [1 .. Cardinality(chosen) -> chosen] :
                 /\ \A m, n \in DOMAIN places : m < n => places[m] > places[n]
                 /\ victims' = [n \in DOMAIN places |-> frames_[places[n]].value]
           /\ pin_count' = [f \in Frame |->
                 pin_count[f] + Cardinality({i \in chosen : frames_[i].value = f})]
    /\ Goto(t, "purge", NoCall)
    /\ UNCHANGED <<frames_, pool_vars, frame_id, page_num, holds, history>>

(* The callback lets the frame go; the key is the frame's own frame_id().  *)
PurgeOne(t) ==
    /\ pc[t] = "purge" /\ victims # <<>>
    /\ purged < MaxPurges
    /\ purged' = purged + 1
    /\ FreeInternal(frame_id[Head(victims)], Head(victims))
    /\ victims' = Tail(victims)
    /\ UNCHANGED <<pc, arg, holds, doubled>>

(* Mutant: the frame stays pinned when the callback refuses.               *)
PurgeRefusedPinned(t) ==
    /\ pc[t] = "purge" /\ victims # <<>>
    /\ victims' = Tail(victims)
    /\ UNCHANGED <<frames_, pool_vars, frame_vars, pc, arg, holds, history>>

(* The callback refuses: the frame stays.                                  *)
PurgeRefused(t) ==
    /\ pc[t] = "purge" /\ victims # <<>>
    /\ LET f == Head(victims)
       IN  pin_count' = [pin_count EXCEPT ![f] = IF @ > 0 THEN @ - 1 ELSE @]
    /\ victims' = Tail(victims)
    /\ UNCHANGED <<frames_, pool_vars, frame_id, page_num, pc, arg, holds, history>>

PurgeDone(t) ==
    /\ pc[t] = "purge" /\ victims = <<>>
    /\ Goto(t, "idle", NoCall)
    /\ UNCHANGED <<frames_, pool_vars, frame_vars, victims, holds, history>>

-----------------------------------------------------------------------------
Next ==
    \E t \in Thread :
        \/ \E id \in PageId : GetHit(t, id) \/ GetMiss(t, id) \/ FindList(t, id.buffer_pool_id)
        \/ \E h \in holds[t] : Free(t, h) \/ UnpinCheck(t, h) \/ UnpinNothing(t, h)
        \/ \E count \in PurgeCount : PurgeFind(t, count)
        \/ Alloc(t) \/ AllocNone(t) \/ UnpinDecrement(t)
        \/ PurgeOne(t) \/ PurgeRefused(t) \/ PurgeDone(t)

Spec == Init /\ [][Next]_vars

-----------------------------------------------------------------------------
Handles == UNION {{<<t, h>> : h \in holds[t]} : t \in Thread}

(* Every pin has an owner: the count of a frame is the number of handles   *)
(* to it, and one for a purge_frames() that has chosen it, however unpin() *)
(* and the manager's methods interleave.                                   *)
PinsAreHandles ==
    purged = 0 => \A f \in Frame :
        pin_count[f] = Cardinality({x \in Handles : x[2].frame = f})
                       + Cardinality({n \in 1 .. Len(victims) : victims[n] = f})

(* As long as a thread holds a frame, the frame belongs to the page it was *)
(* asked for: it is in use, carries the page's number, and everybody else  *)
(* who gets that page gets the same frame (get(), alloc(), free(), purge). *)
HandleIsPage ==
    purged = 0 => \A x \in Handles :
        LET h == x[2]
        IN  /\ h.frame \in used
            /\ page_num[h.frame] = h.id.page_num
            /\ frame_id[h.frame].buffer_pool_id = h.id.buffer_pool_id
            /\ h.id \notin doubled =>
                  Found(frames_, h.id) /\ ValueOf(frames_, h.id) = h.frame

(* No frame leaks: what allocator_ counts as used is what the cache can    *)
(* find, so it can be purged again (alloc(), free_internal()).             *)
UsedAreFound ==
    purged = 0 /\ doubled = {} => used = {frames_[i].value : i \in 1 .. Len(frames_)}

(* allocator_ loses no frame and hands none out twice, even when callers   *)
(* free what is already free (MemPoolSimple::alloc(), free()).             *)
PoolPartition ==
    /\ \A f \in Frame : f \in used <=> ~\E i \in 1 .. Len(frees) : frees[i] = f
    /\ \A i, j \in 1 .. Len(frees) : frees[i] = frees[j] => i = j

-----------------------------------------------------------------------------
(* What the comments say and the code does not do.                         *)

(* "some frames must be driven out of memory" (buffer_pool.h:25): a page   *)
(* that purge_frames() has driven out is not found in a frame any more.    *)
EvictedIsGone == \A i \in 1 .. Len(frames_) : frames_[i].value \in used

(* "identifies a frame in the buffer pool uniquely" (frame.h:14): nobody   *)
(* works on another frame for the same page.                               *)
OneFramePerPage ==
    \A x, y \in Handles : x[2].id = y[2].id => x[2].frame = y[2].frame
=============================================================================
