------------------------------ MODULE MemPool ------------------------------
(***************************************************************************)
(* The pools of equal items of common/mem/mem_pool.{h,cpp}: MemPoolSimple  *)
(* (objects of a class) and MemPoolItem (raw memory).  The two are written *)
(* alike; kind says which one a behaviour is about.                        *)
(*                                                                         *)
(* mutex_ is held for part of a call only: alloc() clears the item after   *)
(* it let the lock go, and MemPoolSimple::free() clears it before it takes *)
(* the lock and looks whether the item is in use.  These are steps of      *)
(* their own here; what happens under the lock is one step.                *)
(*                                                                         *)
(* Two methods take mutex_ while they hold it: alloc() of a pool that may  *)
(* grow, by way of extend(), and MemPoolItem::cleanup(), whose free(pool)  *)
(* is MemPoolItem::free() and not the C library's.  Relocking a            *)
(* std::shared_mutex is undefined; libstdc++ over glibc sees it, throws    *)
(* std::system_error, and unwinding unlocks.  That is what is modelled.    *)
(*                                                                         *)
(* The callers: init() and cleanup() run while no other call is under way  *)
(* and nothing is handed out.  A caller may free what is not its own any   *)
(* more, which the code expects and warns of; clobbered remembers the      *)
(* items this took from under somebody else.                               *)
(***************************************************************************)
EXTENDS Integers, Sequences, FiniteSets, SequencesExt

CONSTANTS
    Thread,
    PoolNum,    \* values of pool_num in init()
    ItemNum,    \* item_num_per_pool
    MaxPools,   \* bound: pools at a time
    MaxStray    \* bound: calls of free() for what is not the caller's

ASSUME PoolNumAssumption  == PoolNum \subseteq Int
ASSUME ItemNumAssumption  == ItemNum \in Nat \ {0}
ASSUME MaxPoolsAssumption == MaxPools \in Nat
ASSUME MaxStrayAssumption == MaxStray \in Nat

VARIABLES
    kind,       \* "simple" | "item": the class
    dynamic_,
    pools_,     \* how many pools there are: 1 .. pools_
    used_,
    frees_,
    size_,
    content,    \* of each item: "raw", "clean", or the thread that wrote it
    pc,         \* of each thread
    arg,        \* the item its call is about
    holds,      \* the items each thread has been given
    clobbered,  \* items that a stray free() took from their owner (history)
    strays      \* stray calls of free() so far (history)

pool_vars    == <<dynamic_, pools_, used_, frees_, size_>>
thread_vars  == <<pc, arg, holds>>
history_vars == <<clobbered, strays>>
vars == <<kind, pool_vars, content, thread_vars, history_vars>>

Item   == (1 .. MaxPools) \X (1 .. ItemNum)
NoItem == <<0, 0>>

(* How many items the pools in use can have at most.                       *)
Capacity == MaxPools * ItemNum

TypeOK ==
    /\ kind \in {"simple", "item"}
    /\ dynamic_ \in BOOLEAN
    /\ pools_ \in 0 .. MaxPools
    /\ used_ \subseteq Item
    /\ frees_ \in Seq(Item)
    /\ size_ \in 0 .. Capacity
    /\ content \in [Item -> {"raw", "clean"} \cup Thread]
    /\ pc \in [Thread -> {"idle", "wipe", "put", "stray", "null", "throw"}]
    /\ arg \in [Thread -> Item \cup {NoItem}]
    /\ holds \in [Thread -> SUBSET Item]
    /\ clobbered \subseteq Item
    /\ strays \in 0 .. MaxStray

Init ==
    /\ kind \in {"simple", "item"}
    /\ dynamic_ = FALSE
    /\ pools_ = 0 /\ used_ = {} /\ frees_ = <<>> /\ size_ = 0
    /\ content = [i \in Item |-> "raw"]
    /\ pc = [t \in Thread |-> "idle"]
    /\ arg = [t \in Thread |-> NoItem]
    /\ holds = [t \in Thread |-> {}]
    /\ clobbered = {} /\ strays = 0

Goto(t, label, item) ==
    /\ pc' = [pc EXCEPT ![t] = label]
    /\ arg' = [arg EXCEPT ![t] = item]

(* The items a thread has, the one on its way to it or back included.      *)
Owned(t) == holds[t] \cup (IF pc[t] \in {"wipe", "put"} THEN {arg[t]} ELSE {})
AllOwned == UNION {Owned(t) : t \in Thread}
Quiet    == AllOwned = {} /\ \A t \in Thread : pc[t] = "idle"

-----------------------------------------------------------------------------
(* extend(), n times: each pool is allocated and its items are appended to *)
(* frees_.  Objects are constructed, raw memory is not cleared.            *)
NewPools(n) ==
    /\ pools_ + n <= MaxPools
    /\ pools_' = pools_ + n
    /\ size_' = size_ + n * ItemNum
    /\ frees_' = frees_ \o [k \in 1 .. n * ItemNum |->
          <<pools_ + 1 + ((k - 1) \div ItemNum), 1 + ((k - 1) % ItemNum)>>]
    /\ content' = [i \in Item |->
          IF i[1] \in pools_ + 1 .. pools_ + n /\ kind = "simple" THEN "clean" ELSE content[i]]

(* init() of a pool that has none yet; with arguments that are not         *)
(* positive it returns -1 and changes nothing.                             *)
InitPool(n, dynamic) ==
    /\ Quiet
    /\ pools_ = 0 /\ n > 0
    /\ dynamic_' = dynamic
    /\ NewPools(n)
    /\ UNCHANGED <<kind, used_, thread_vars, history_vars>>

(* extend() called from outside.                                           *)
Extend(t) ==
    /\ pc[t] = "idle"
    /\ dynamic_
    /\ NewPools(1)
    /\ UNCHANGED <<kind, dynamic_, used_, thread_vars, history_vars>>

-----------------------------------------------------------------------------
(* Mutant: the item stays at the front of frees_.                          *)
TakeFrontOnly ==
    /\ frees_ # <<>>
    /\ used_' = used_ \cup {Head(frees_)}
    /\ UNCHANGED frees_

(* The front of frees_ goes to used_.                                      *)
TakeFront ==
    /\ frees_ # <<>>
    /\ used_' = used_ \cup {Head(frees_)}
    /\ frees_' = Tail(frees_)

(* alloc() under the lock.                                                 *)
AllocTake(t) ==
    /\ pc[t] = "idle"
    /\ TakeFront
    /\ Goto(t, "wipe", Head(frees_))
    /\ UNCHANGED <<kind, dynamic_, pools_, size_, content, holds, history_vars>>

(* alloc() of an empty pool: nullptr, or, if it may grow, extend() finds   *)
(* the lock taken by its own caller and throws.                            *)
AllocDry(t) ==
    /\ pc[t] = "idle"
    /\ frees_ = <<>>
    /\ Goto(t, IF dynamic_ THEN "throw" ELSE "null", NoItem)
    /\ UNCHANGED <<kind, pool_vars, content, holds, history_vars>>

AllocFails(t) ==
    /\ pc[t] \in {"null", "throw"}
    /\ Goto(t, "idle", NoItem)
    /\ UNCHANGED <<kind, pool_vars, content, holds, history_vars>>

(* alloc() without the lock: reinit(), or memset() to 0.                   *)
AllocWipe(t) ==
    /\ pc[t] = "wipe"
    /\ content' = [content EXCEPT ![arg[t]] = "clean"]
    /\ holds' = [holds EXCEPT ![t] = @ \cup {arg[t]}]
    /\ Goto(t, "idle", NoItem)
    /\ UNCHANGED <<kind, pool_vars, history_vars>>

(* The owner writes to its item.                                           *)
Write(t, i) ==
    /\ pc[t] = "idle" /\ i \in holds[t]
    /\ content' = [content EXCEPT ![i] = t]
    /\ UNCHANGED <<kind, pool_vars, thread_vars, history_vars>>

-----------------------------------------------------------------------------
(* MemPoolSimple::free() clears the item first, whoever it belongs to.     *)
Reset(i) ==
    content' = IF kind = "simple" THEN [content EXCEPT ![i] = "clean"] ELSE content

(* free(), or the deleter of alloc_unique_ptr(), before the lock.          *)
FreeReset(t, i) ==
    /\ pc[t] = "idle" /\ i \in holds[t]
    /\ Reset(i)
    /\ holds' = [holds EXCEPT ![t] = @ \ {i}]
    /\ Goto(t, "put", i)
    /\ UNCHANGED <<kind, pool_vars, history_vars>>

(* free() of an item that the caller does not own (any more).              *)
FreeStray(t, i) ==
    /\ pc[t] = "idle" /\ i \notin holds[t] /\ i[1] <= pools_
    /\ strays < MaxStray
    /\ strays' = strays + 1
    /\ Reset(i)
    /\ clobbered' = IF kind = "simple" /\ i \in AllOwned THEN clobbered \cup {i} ELSE clobbered
    /\ Goto(t, "stray", i)
    /\ UNCHANGED <<kind, pool_vars, holds>>

(* Mutant: an item that is not in use is put back all the same.            *)
PutBackUnchecked(i) ==
    /\ used_' = used_ \ {i}
    /\ frees_' = Append(frees_, i)

(* Mutant: the item leaves used_ and does not get back to frees_.          *)
PutBackLost(i) ==
    /\ used_' = used_ \ {i}
    /\ UNCHANGED frees_

(* free() under the lock.                                                  *)
PutBack(i) ==
    IF i \in used_
    THEN used_' = used_ \ {i} /\ frees_' = Append(frees_, i)
    ELSE UNCHANGED <<used_, frees_>>

FreePut(t) ==
    /\ pc[t] \in {"put", "stray"}
    /\ PutBack(arg[t])
    /\ clobbered' =
          IF pc[t] = "stray" /\ arg[t] \in used_ THEN clobbered \cup {arg[t]} ELSE clobbered
    /\ Goto(t, "idle", NoItem)
    /\ UNCHANGED <<kind, dynamic_, pools_, size_, content, holds, strays>>

-----------------------------------------------------------------------------
(* Mutant: size_ is not set back.                                          *)
ClearSizeKept ==
    /\ used_' = {} /\ frees_' = <<>> /\ clobbered' = {}
    /\ UNCHANGED size_

(* What both cleanup() methods do first.                                   *)
Clear == used_' = {} /\ frees_' = <<>> /\ size_' = 0 /\ clobbered' = {}

(* MemPoolSimple::cleanup().                                               *)
Cleanup ==
    /\ kind = "simple"
    /\ Quiet /\ pools_ > 0
    /\ Clear
    /\ pools_' = 0
    /\ UNCHANGED <<kind, dynamic_, content, thread_vars, strays>>

(* MemPoolItem::cleanup() throws at the first pool: nothing is released,   *)
(* pools_ stays, and init() will take the pool for initialised.            *)
CleanupThrows ==
    /\ kind = "item"
    /\ Quiet /\ pools_ > 0
    /\ Clear
    /\ UNCHANGED <<kind, dynamic_, pools_, content, thread_vars, strays>>

-----------------------------------------------------------------------------
Next ==
    \/ \E n \in PoolNum, dynamic \in BOOLEAN : InitPool(n, dynamic)
    \/ Cleanup \/ CleanupThrows
    \/ \E t \in Thread :
          \/ Extend(t) \/ AllocTake(t) \/ AllocDry(t) \/ AllocFails(t) \/ AllocWipe(t)
          \/ \E i \in Item : Write(t, i) \/ FreeReset(t, i) \/ FreeStray(t, i)
          \/ FreePut(t)

Spec == Init /\ [][Next]_vars

-----------------------------------------------------------------------------
(* The items that used_ and frees_ keep account of, and those of the pools *)
(* that CleanupThrows left behind, which are in neither for ever.          *)
Pooled    == {i \in Item : i[1] <= pools_}
Accounted == used_ \cup ToSet(frees_)
Abandoned ==
    {i \in Pooled : kind = "item" /\ \A j \in Item : j[1] = i[1] => j \notin Accounted}

(* No call of free(), stray or not and however it races alloc(), makes the *)
(* pool lose an item or hand it out twice: each is in use or free, not     *)
(* both, free once, and size_ counts them; only a whole pool that          *)
(* cleanup() failed to release is missing (alloc(), free(), extend()).     *)
PoolsWhole ==
    /\ Accounted = Pooled \ Abandoned
    /\ used_ \cap ToSet(frees_) = {}
    /\ IsInjective(frees_)
    /\ size_ = Cardinality(Accounted)

(* Clearing an item outside the lock is safe: what a thread has been given *)
(* is its own and holds nothing but what it wrote itself, unless a stray   *)
(* free() hit it (alloc(), free()).                                        *)
OwnContent ==
    \A t \in Thread : \A i \in holds[t] \ clobbered :
        /\ i \in used_
        /\ content[i] \in {"clean", t}
        /\ \A u \in Thread \ {t} : i \notin Owned(u)

(* alloc() fails only when every item is with somebody: nothing leaks, and *)
(* no thread is refused while another one's items lie unused (alloc(),     *)
(* free()).                                                                *)
FailsOnlyDry ==
    [][\A t \in Thread :
          pc[t] = "idle" /\ pc'[t] \in {"null", "throw"} =>
              Pooled \subseteq AllOwned \cup clobbered \cup Abandoned]_vars
=============================================================================
