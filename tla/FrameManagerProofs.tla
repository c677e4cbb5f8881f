------------------------- MODULE FrameManagerProofs -------------------------
(***************************************************************************)
(* What holds of FrameManager for any threads, finite set of frames, pages *)
(* and counts to purge, and any number of purges.                          *)
(*                                                                         *)
(* Three invariants, each of which needs those before it.                  *)
(*                                                                         *)
(* WInv holds always, also with stale entries in the cache and with frames *)
(* that are freed twice: the cache has a page once, the pool has a frame   *)
(* once, a thread that is between two steps still has what it works on,    *)
(* and nothing waits to be purged while the manager is not locked.  The    *)
(* handles are finitely many, though nothing bounds the threads.           *)
(*                                                                         *)
(* EInv holds until a frame is purged.  HandleIsPage speaks of what is     *)
(* held only; that get() hands out the right frame needs that every entry  *)
(* of the cache is a frame in use that carries the page (Entered), and     *)
(* that free() takes a frame from no other thread needs that a frame       *)
(* carries one page at a time (OnePage).                                   *)
(*                                                                         *)
(* CInv counts the pins.  alloc() and free() set a count instead of        *)
(* changing it, so they need from EInv that nobody has the frame then.     *)
(***************************************************************************)
EXTENDS FrameManager, FunctionTheorems, DataLemmas

-----------------------------------------------------------------------------
(* The cache, as the set of its entries.                                   *)

Pair(k, v)  == [key |-> k, value |-> v]
Pairs(K, V) == [key : K, value : V]

(* What an entry of the cache consists of.                                 *)
LEMMA PairFields ==
    ASSUME NEW K, NEW V
    PROVE  /\ \A k, v : Pair(k, v).key = k /\ Pair(k, v).value = v
           /\ \A k \in K, v \in V : Pair(k, v) \in Pairs(K, V)
           /\ \A e \in Pairs(K, V) : /\ e.key \in K /\ e.value \in V
                                      /\ e = Pair(e.key, e.value)
  BY DEF Pair, Pairs

(* No two entries have the same key.                                       *)
KeysOnce(items) ==
    \A i, j \in 1 .. Len(items) : items[i].key = items[j].key => i = j

(* Where lookup_ leads.                                                    *)
LEMMA CacheLookup ==
    ASSUME NEW s, NEW k
    PROVE  /\ Found(s, k) <=> \E i \in 1 .. Len(s) : s[i].key = k
           /\ Found(s, k) => Lookup(s, k) \in 1 .. Len(s) /\ s[Lookup(s, k)].key = k
  BY DEF Found, PlaceOf, Lookup

(* What is found under a key.                                              *)
LEMMA CacheFound ==
    ASSUME NEW K, NEW V, NEW s \in Seq(Pairs(K, V)), KeysOnce(s)
    PROVE  /\ \A k : Found(s, k) <=> \E e \in ToSet(s) : e.key = k
           /\ \A k : Found(s, k) => /\ k \in K /\ ValueOf(s, k) \in V
                                    /\ Pair(k, ValueOf(s, k)) \in ToSet(s)
           /\ \A k, v : Pair(k, v) \in ToSet(s) =>
                            Found(s, k) /\ ValueOf(s, k) = v
           /\ \A e \in ToSet(s) : e.key \in K /\ e.value \in V
           /\ \A e \in ToSet(s) : e = Pair(e.key, e.value)
           /\ \A e, g \in ToSet(s) : e.key = g.key => e = g
<1>1. \A x : x \in ToSet(s) <=> \E i \in 1 .. Len(s) : s[i] = x
  BY InSeq
<1>2. \A i \in 1 .. Len(s) : /\ s[i].key \in K /\ s[i].value \in V
                             /\ s[i] = Pair(s[i].key, s[i].value)
  <2>1. \A e \in Pairs(K, V) : /\ e.key \in K /\ e.value \in V
                               /\ e = Pair(e.key, e.value)
    BY PairFields
  <2>2. \A i \in 1 .. Len(s) : s[i] \in Pairs(K, V)
    OBVIOUS
  <2>. QED
    BY <2>1, <2>2
<1>3. \A k : Found(s, k) <=> \E i \in 1 .. Len(s) : s[i].key = k
  BY CacheLookup
<1>4. \A k : Found(s, k) => Lookup(s, k) \in 1 .. Len(s) /\ s[Lookup(s, k)].key = k
  BY CacheLookup
<1>5. \A i, j \in 1 .. Len(s) : s[i].key = s[j].key => i = j
  BY DEF KeysOnce
<1>6. \A k : Found(s, k) <=> \E e \in ToSet(s) : e.key = k
  BY <1>1, <1>3
<1>7. ASSUME NEW k, Found(s, k)
      PROVE  /\ k \in K /\ ValueOf(s, k) \in V
             /\ Pair(k, ValueOf(s, k)) \in ToSet(s)
  BY <1>1, <1>2, <1>4, <1>7 DEF ValueOf
<1>8. ASSUME NEW k, NEW v, Pair(k, v) \in ToSet(s)
      PROVE  Found(s, k) /\ ValueOf(s, k) = v
  <2>1. PICK i \in 1 .. Len(s) : s[i] = Pair(k, v)
    BY <1>1, <1>8
  <2>2. s[i].key = k /\ s[i].value = v
    BY <2>1, PairFields
  <2>3. Found(s, k)
    BY <1>3, <2>2
  <2>4. Lookup(s, k) = i
    BY <1>4, <1>5, <2>2, <2>3
  <2>. QED
    BY <2>2, <2>3, <2>4 DEF ValueOf
<1>9. ASSUME NEW e \in ToSet(s)
      PROVE  /\ e.key \in K /\ e.value \in V /\ e = Pair(e.key, e.value)
             /\ \A g \in ToSet(s) : e.key = g.key => e = g
  BY <1>1, <1>2, <1>5
<1>. QED
  BY <1>6, <1>7, <1>8, <1>9

(* remove() takes out the entry of the key.                                *)
LEMMA CacheRemove ==
    ASSUME NEW K, NEW V, NEW s \in Seq(Pairs(K, V)), KeysOnce(s), NEW k
    PROVE  /\ LruRemove(s, k) \in Seq(Pairs(K, V))
           /\ KeysOnce(LruRemove(s, k))
           /\ \A e : e \in ToSet(LruRemove(s, k)) <=> e \in ToSet(s) /\ e.key # k
<1>. DEFINE S == Pairs(K, V)
<1>1. CASE ~Found(s, k)
  BY <1>1, CacheFound DEF LruRemove
<1>2. CASE Found(s, k)
  <2>. DEFINE i == Lookup(s, k)
              r == RemoveAt(s, i)
  <2>1. i \in 1 .. Len(s) /\ s[i].key = k
    BY <1>2, CacheLookup
  <2>2. LruRemove(s, k) = r
    BY <1>2 DEF LruRemove
  <2>. HIDE DEF i
  <2>3. /\ r \in Seq(S) /\ Len(r) = Len(s) - 1
        /\ \A j \in 1 .. Len(s) - 1 : r[j] = IF j < i THEN s[j] ELSE s[j + 1]
    BY <2>1, RemoveAtPlaces
  <2>. HIDE DEF S, r
  <2>n. Len(s) \in Nat /\ i \in Nat
    BY <2>1
  <2>4. \A j, l \in 1 .. Len(s) : s[j].key = s[l].key => j = l
    BY DEF KeysOnce
  <2>5. \A j \in 1 .. Len(r) : \E l \in 1 .. Len(s) :
            l # i /\ r[j] = s[l] /\ l = (IF j < i THEN j ELSE j + 1)
    BY <2>3, <2>n
  <2>6. \A l \in 1 .. Len(s) : l # i => \E j \in 1 .. Len(r) : r[j] = s[l]
    <3>. SUFFICES ASSUME NEW l \in 1 .. Len(s), l # i
                  PROVE  \E j \in 1 .. Len(r) : r[j] = s[l]
      OBVIOUS
    <3>1. CASE l < i
      BY <2>1, <2>3, <2>n, <3>1
    <3>2. CASE l > i
      <4>1. l - 1 \in 1 .. Len(r) /\ ~(l - 1 < i) /\ (l - 1) + 1 = l
        BY <2>1, <2>3, <2>n, <3>2
      <4>. QED
        BY <2>3, <4>1
    <3>. QED
      BY <2>n, <3>1, <3>2
  <2>7. KeysOnce(r)
    <3>. SUFFICES ASSUME NEW j \in 1 .. Len(r), NEW l \in 1 .. Len(r), r[j].key = r[l].key
                  PROVE  j = l
      BY DEF KeysOnce
    <3>1. (IF j < i THEN j ELSE j + 1) = (IF l < i THEN l ELSE l + 1)
      BY <2>4, <2>5
    <3>. QED
      BY <2>n, <3>1
  <2>8. \A e : e \in ToSet(s) <=> \E j \in 1 .. Len(s) : s[j] = e
    BY InSeq
  <2>9. \A e : e \in ToSet(r) <=> \E j \in 1 .. Len(r) : r[j] = e
    BY <2>3, InSeq
  <2>10. ASSUME NEW e \in ToSet(r) PROVE e \in ToSet(s) /\ e.key # k
    <3>1. PICK l \in 1 .. Len(s) : l # i /\ e = s[l]
      BY <2>5, <2>9
    <3>. QED
      BY <2>1, <2>4, <2>8, <3>1
  <2>11. ASSUME NEW e \in ToSet(s), e.key # k PROVE e \in ToSet(r)
    <3>1. PICK l \in 1 .. Len(s) : e = s[l]
      BY <2>8
    <3>2. l # i
      BY <2>1, <2>11, <3>1
    <3>. QED
      BY <2>6, <2>9, <3>1, <3>2
  <2>. QED
    BY <2>2, <2>3, <2>7, <2>10, <2>11 DEF S
<1>. QED
  BY <1>1, <1>2

(* put() replaces the entry of the key.                                    *)
LEMMA CachePut ==
    ASSUME NEW K, NEW V, NEW s \in Seq(Pairs(K, V)), KeysOnce(s),
           NEW k \in K, NEW v \in V
    PROVE  /\ LruPut(s, k, v) \in Seq(Pairs(K, V))
           /\ KeysOnce(LruPut(s, k, v))
           /\ \A e : e \in ToSet(LruPut(s, k, v)) <=>
                        \/ e = Pair(k, v)
                        \/ e \in ToSet(s) /\ e.key # k
<1>. DEFINE S == Pairs(K, V)
            x == Pair(k, v)
            r == LruRemove(s, k)
            p == LruPut(s, k, v)
<1>1. /\ r \in Seq(S) /\ KeysOnce(r)
      /\ \A e : e \in ToSet(r) <=> e \in ToSet(s) /\ e.key # k
  BY CacheRemove
<1>2. x \in S /\ x.key = k /\ p = <<x>> \o r
  BY PairFields DEF LruPut, Pair
<1>. HIDE DEF S, x, r, p
<1>3. /\ <<x>> \in Seq(S) /\ Len(<<x>>) = 1 /\ <<x>>[1] = x
      /\ p \in Seq(S) /\ Len(p) = Len(r) + 1
      /\ p[1] = x /\ \A j \in 1 .. Len(r) : p[j + 1] = r[j]
      /\ Len(r) \in Nat
  BY <1>1, <1>2
<1>4. ToSet(<<x>>) = {x}
  <2>1. \A e : e \in ToSet(<<x>>) <=> \E j \in 1 .. 1 : <<x>>[j] = e
    BY <1>3, InSeq
  <2>. QED
    BY <1>3, <2>1
<1>5. \A e : e \in ToSet(p) <=> e = x \/ e \in ToSet(r)
  <2>. DEFINE o == <<x>>
  <2>0. o \in Seq(S)
    BY <1>3
  <2>1. ToSet(o \o r) = ToSet(o) \cup ToSet(r)
    <3>. HIDE DEF o
    <3>. QED
      BY <1>1, <2>0, SetOfConcat
  <2>. QED
    BY <1>2, <1>4, <2>1
<1>6. KeysOnce(p)
  <2>1. \A j \in 1 .. Len(r) : r[j] \in ToSet(r) /\ r[j].key # k
    BY <1>1, InSeq
  <2>2. \A j \in 1 .. Len(p) : j = 1 \/ (j - 1 \in 1 .. Len(r) /\ p[j] = r[j - 1])
    BY <1>3
  <2>3. \A j, l \in 1 .. Len(r) : r[j].key = r[l].key => j = l
    BY <1>1 DEF KeysOnce
  <2>. SUFFICES ASSUME NEW j \in 1 .. Len(p), NEW l \in 1 .. Len(p), p[j].key = p[l].key
                PROVE  j = l
    BY DEF KeysOnce
  <2>4. CASE j = 1 \/ l = 1
    BY <1>2, <1>3, <2>1, <2>2, <2>4
  <2>5. CASE j # 1 /\ l # 1
    <3>1. j - 1 = l - 1
      BY <2>2, <2>3, <2>5
    <3>. QED
      BY <1>3, <3>1
  <2>. QED
    BY <2>4, <2>5
<1>. QED
  BY <1>1, <1>3, <1>5, <1>6 DEF S, x, p

(* get() only changes the order.                                           *)
LEMMA CacheGet ==
    ASSUME NEW K, NEW V, NEW s \in Seq(Pairs(K, V)), KeysOnce(s), NEW k
    PROVE  /\ LruGet(s, k) \in Seq(Pairs(K, V))
           /\ KeysOnce(LruGet(s, k))
           /\ ToSet(LruGet(s, k)) = ToSet(s)
<1>1. CASE ~Found(s, k)
  BY <1>1 DEF LruGet
<1>2. CASE Found(s, k)
  <2>. DEFINE v == ValueOf(s, k)
  <2>1. LruGet(s, k) = LruPut(s, k, v)
    BY <1>2 DEF LruGet
  <2>2. k \in K /\ v \in V /\ Pair(k, v) \in ToSet(s)
    BY <1>2, CacheFound
  <2>. HIDE DEF v
  <2>3. \A e, g \in ToSet(s) : e.key = g.key => e = g
    BY CacheFound
  <2>4. /\ LruPut(s, k, v) \in Seq(Pairs(K, V))
        /\ KeysOnce(LruPut(s, k, v))
        /\ \A e : e \in ToSet(LruPut(s, k, v)) <=>
                     \/ e = Pair(k, v)
                     \/ e \in ToSet(s) /\ e.key # k
    BY <2>2, CachePut
  <2>5. \A e : e \in ToSet(LruPut(s, k, v)) <=> e \in ToSet(s)
    BY <2>2, <2>3, <2>4, PairFields
  <2>. QED
    BY <2>1, <2>4, <2>5
<1>. QED
  BY <1>1, <1>2

-----------------------------------------------------------------------------
(* The frames of the pool, the handles and the threads.                    *)

(* What the program counters tell.  While the manager is not locked over   *)
(* several steps, nothing waits to be purged.                              *)
Control ==
    /\ \A t \in Thread : pc[t] = "miss" => arg[t].id \in PageId /\ ~Holds(t, arg[t].id)
    /\ \A t \in Thread : pc[t] = "unpin" => arg[t] \in holds[t]
    /\ MutexFree => victims = <<>>

(* allocator_ has every frame once, in used_ or in frees_.                 *)
PoolWhole ==
    /\ used \cap ToSet(frees) = {}
    /\ used \cup ToSet(frees) = Frame
    /\ IsInjective(frees)

(* A thread holds a page once.                                             *)
HeldOnce == \A t \in Thread : \A g, h \in holds[t] : g.id = h.id => g = h

WInv == /\ TypeOK /\ Control /\ PoolWhole /\ HeldOnce
        /\ KeysOnce(frames_) /\ IsFiniteSet(Handles)

Hold(id, f) == [id |-> id, frame |-> f]
HoldSet     == [id : PageId, frame : Frame]

(* What a handle consists of.                                              *)
LEMMA HoldFields ==
    /\ \A id, f : Hold(id, f).id = id /\ Hold(id, f).frame = f
    /\ \A id \in PageId, f \in Frame : Hold(id, f) \in HoldSet
    /\ \A h \in HoldSet : h.id \in PageId /\ h.frame \in Frame /\ h = Hold(h.id, h.frame)
    /\ HoldSet \subseteq Handle
  BY DEF Hold, HoldSet, Handle

(* The pairs of thread and handle.                                         *)
LEMMA HandlesAre ==
    /\ \A t, h : <<t, h>> \in Handles <=> t \in Thread /\ h \in holds[t]
    /\ \A x \in Handles : \E t \in Thread : \E h \in holds[t] : x = <<t, h>>
<1>1. \A x : x \in Handles <=> \E t \in Thread : \E h \in holds[t] : x = <<t, h>>
  BY DEF Handles
<1>. QED
  BY <1>1

(* Places in the cache can be counted.                                     *)
LEMMA PlacesFinite ==
    ASSUME NEW S, NEW s \in Seq(S), NEW T \in SUBSET (1 .. Len(s))
    PROVE  IsFiniteSet(T) /\ Cardinality(T) \in Nat
<1>1. Len(s) \in Nat
  OBVIOUS
<1>2. 0 \in Int /\ 1 \in Int /\ Len(s) \in Int
  BY <1>1
<1>3. IsFiniteSet(1 .. Len(s))
  BY <1>2, FS_Interval
<1>4. IsFiniteSet(T)
  BY <1>3, FS_Subset
<1>. QED
  BY <1>4, FS_CardinalityType

(* The places among these where the cache has a frame.                     *)
At(places, f) == {i \in places : frames_[i].value = f}

(* The parts of TypeOK, with the entries of the cache and the handles      *)
(* under the names they have here.                                         *)
LEMMA Types ==
    ASSUME TypeOK
    PROVE  /\ frames_ \in Seq(Pairs(PageId, Frame))
           /\ used \subseteq Frame /\ frees \in Seq(Frame) /\ victims \in Seq(Frame)
           /\ pin_count \in [Frame -> Int] /\ page_num \in [Frame -> Int]
           /\ frame_id \in [Frame -> FrameId]
           /\ holds \in [Thread -> SUBSET HoldSet]
           /\ \A t \in Thread : pc[t] \in {"idle", "miss", "unpin", "purge"}
           /\ \A t \in Thread : \A h \in holds[t] :
                  h \in HoldSet /\ h.id \in PageId /\ h.frame \in Frame
           /\ IsFiniteSet(Frame)
           /\ purged \in Nat
<1>1. /\ frames_ \in Seq(Pairs(PageId, Frame))
      /\ holds \in [Thread -> SUBSET HoldSet]
  BY DEF TypeOK, Pairs, HoldSet
<1>2. \A t \in Thread : \A h \in holds[t] :
         h \in HoldSet /\ h.id \in PageId /\ h.frame \in Frame
  BY <1>1, HoldFields
<1>. QED
  BY <1>1, <1>2, FrameAssumption, PurgesAssumption DEF TypeOK

(* What happens to the handles.                                            *)
LEMMA HandleAdded ==
    ASSUME TypeOK, NEW t \in Thread, NEW h, holds' = [holds EXCEPT ![t] = @ \cup {h}]
    PROVE  /\ Handles' = Handles \cup {<<t, h>>}
           /\ holds'[t] = holds[t] \cup {h}
           /\ \A u \in Thread \ {t} : holds'[u] = holds[u]
<1>1. /\ holds'[t] = holds[t] \cup {h}
      /\ \A u \in Thread \ {t} : holds'[u] = holds[u]
  BY DEF TypeOK
<1>2. Handles' \subseteq Handles \cup {<<t, h>>}
  BY <1>1 DEF Handles
<1>3. Handles \cup {<<t, h>>} \subseteq Handles'
  BY <1>1 DEF Handles
<1>. QED
  BY <1>1, <1>2, <1>3

(* A thread lets one handle go.                                            *)
LEMMA HandleDropped ==
    ASSUME TypeOK, NEW t \in Thread, NEW h, holds' = [holds EXCEPT ![t] = @ \ {h}]
    PROVE  /\ Handles' = Handles \ {<<t, h>>}
           /\ holds'[t] = holds[t] \ {h}
           /\ \A u \in Thread \ {t} : holds'[u] = holds[u]
<1>1. /\ holds'[t] = holds[t] \ {h}
      /\ \A u \in Thread \ {t} : holds'[u] = holds[u]
  BY DEF TypeOK
<1>2. Handles' \subseteq Handles \ {<<t, h>>}
  BY <1>1 DEF Handles
<1>3. Handles \ {<<t, h>>} \subseteq Handles'
  BY <1>1 DEF Handles
<1>. QED
  BY <1>1, <1>2, <1>3

(* find_list() gives its thread the frames at the places it hits.          *)
LEMMA HandlesGiven ==
    ASSUME TypeOK, NEW t \in Thread, NEW new, holds[t] = {},
           holds' = [holds EXCEPT ![t] = new]
    PROVE  /\ Handles' = Handles \cup {<<t, h>> : h \in new}
           /\ holds'[t] = new
           /\ \A u \in Thread \ {t} : holds'[u] = holds[u]
<1>1. /\ holds'[t] = new
      /\ \A u \in Thread \ {t} : holds'[u] = holds[u]
  BY DEF TypeOK
<1>2. Handles' \subseteq Handles \cup {<<t, h>> : h \in new}
  BY <1>1 DEF Handles
<1>3. Handles \cup {<<t, h>> : h \in new} \subseteq Handles'
  BY <1>1 DEF Handles
<1>. QED
  BY <1>1, <1>2, <1>3

(* What a step does not touch keeps what is said about it.                 *)
LEMMA SameHolds ==
    ASSUME UNCHANGED holds
    PROVE  Handles' = Handles /\ (HeldOnce => HeldOnce')
  BY DEF Handles, HeldOnce

(* The same for the pool of frames.                                        *)
LEMMA SamePool ==
    ASSUME UNCHANGED pool_vars
    PROVE  /\ PoolWhole => PoolWhole'
           /\ used' = used /\ frees' = frees
  BY DEF pool_vars, PoolWhole

(* The same for the cache.                                                 *)
LEMMA SameCache ==
    ASSUME UNCHANGED frames_
    PROVE  KeysOnce(frames_) => KeysOnce(frames_')
  OBVIOUS

-----------------------------------------------------------------------------
(* What holds also after a frame was purged.                               *)
LEMMA InitWInv == Init => WInv
<1>. SUFFICES ASSUME Init PROVE WInv
  OBVIOUS
<1>1. frees \in Seq(Frame) /\ IsInjective(frees) /\ ToSet(frees) = Frame
  BY FrameAssumption, SeqOfSet DEF Init
<1>2. TypeOK
  BY <1>1, PurgesAssumption DEF Init, TypeOK, FrameId, NoId
<1>3. PoolWhole
  BY <1>1 DEF Init, PoolWhole
<1>4. Control /\ HeldOnce
  BY DEF Init, Control, HeldOnce
<1>5. Handles = {}
  BY DEF Init, Handles
<1>6. Len(frames_) = 0
  BY DEF Init
<1>7. KeysOnce(frames_)
  BY <1>6 DEF KeysOnce
<1>. QED
  BY <1>2, <1>3, <1>4, <1>5, <1>7, FS_EmptySet DEF WInv

(* free_internal() keeps the cache and the pool in order.                  *)
LEMMA FreeInternalKeeps ==
    ASSUME TypeOK, PoolWhole, KeysOnce(frames_), NEW id, NEW f \in Frame, FreeInternal(id, f)
    PROVE  /\ frames_' \in Seq(Pairs(PageId, Frame)) /\ KeysOnce(frames_')
           /\ \A e : e \in ToSet(frames_') <=> e \in ToSet(frames_) /\ e.key # id
           /\ used' \subseteq Frame /\ frees' \in Seq(Frame) /\ PoolWhole'
           /\ used' = used \ {f}
           /\ pin_count' \in [Frame -> Int]
           /\ frame_id' \in [Frame -> FrameId]
           /\ page_num' \in [Frame -> Int]
<1>1. frames_ \in Seq(Pairs(PageId, Frame)) /\ frees \in Seq(Frame) /\ used \subseteq Frame
  BY Types
<1>2. frames_' = LruRemove(frames_, id)
  BY DEF FreeInternal
<1>3. /\ frames_' \in Seq(Pairs(PageId, Frame)) /\ KeysOnce(frames_')
      /\ \A e : e \in ToSet(frames_') <=> e \in ToSet(frames_) /\ e.key # id
  BY <1>1, <1>2, CacheRemove
<1>4. /\ pin_count' \in [Frame -> Int]
      /\ frame_id' \in [Frame -> FrameId]
      /\ page_num' \in [Frame -> Int]
  BY DEF FreeInternal, TypeOK, FrameId, NoId
<1>5. CASE f \in used
  <2>1. used' = used \ {f} /\ frees' = Append(frees, f)
    BY <1>5 DEF FreeInternal, PoolFree
  <2>2. f \notin ToSet(frees)
    BY <1>5 DEF PoolWhole
  <2>3. frees' \in Seq(Frame) /\ ToSet(frees') = ToSet(frees) \cup {f} /\ IsInjective(frees')
    BY <1>1, <2>1, <2>2, SetOfAppend, InjectiveAppend DEF PoolWhole
  <2>4. PoolWhole'
    BY <1>5, <2>1, <2>3 DEF PoolWhole
  <2>. QED
    BY <1>1, <1>3, <1>4, <2>1, <2>3, <2>4
<1>6. CASE f \notin used
  <2>1. UNCHANGED pool_vars
    BY <1>6 DEF FreeInternal, PoolFree
  <2>. QED
    BY <1>1, <1>3, <1>4, <1>6, <2>1, SamePool
<1>. QED
  BY <1>5, <1>6

(* Every method of the manager, and every step of unpin() and              *)
(* purge_frames(), keeps cache, pool and threads in order.                 *)
LEMMA StepWInv == WInv /\ [Next]_vars => WInv'
<1>. SUFFICES ASSUME WInv, [Next]_vars PROVE WInv'
  OBVIOUS
<1>0. /\ TypeOK /\ Control /\ PoolWhole /\ HeldOnce
      /\ KeysOnce(frames_) /\ IsFiniteSet(Handles)
  BY DEF WInv
<1>t. /\ frames_ \in Seq(Pairs(PageId, Frame))
      /\ used \subseteq Frame /\ frees \in Seq(Frame) /\ victims \in Seq(Frame)
      /\ pin_count \in [Frame -> Int] /\ page_num \in [Frame -> Int]
      /\ frame_id \in [Frame -> FrameId]
      /\ holds \in [Thread -> SUBSET HoldSet]
      /\ \A t \in Thread : pc[t] \in {"idle", "miss", "unpin", "purge"}
      /\ \A t \in Thread : \A h \in holds[t] :
             h \in HoldSet /\ h.id \in PageId /\ h.frame \in Frame
      /\ IsFiniteSet(Frame)
  BY <1>0, Types
<1>1. ASSUME NEW t \in Thread, NEW id \in PageId, GetHit(t, id)
      PROVE  WInv'
  <2>. DEFINE f == ValueOf(frames_, id)
  <2>1. Found(frames_, id) /\ f \in Frame
    BY <1>0, <1>1, <1>t, CacheFound DEF GetHit
  <2>2. /\ pin_count' = [pin_count EXCEPT ![f] = @ + 1]
        /\ holds' = [holds EXCEPT ![t] = @ \cup {Hold(id, f)}]
        /\ frames_' = LruGet(frames_, id)
        /\ UNCHANGED <<pool_vars, frame_id, page_num, pc, arg, victims, history>>
        /\ ~Holds(t, id) /\ pc[t] = "idle"
    BY <1>1 DEF GetHit, Hold, MayAsk, Ready
  <2>. HIDE DEF f
  <2>3. frames_' \in Seq(Pairs(PageId, Frame)) /\ KeysOnce(frames_')
    BY <1>0, <1>t, <2>2, CacheGet
  <2>4. /\ Handles' = Handles \cup {<<t, Hold(id, f)>>}
        /\ holds'[t] = holds[t] \cup {Hold(id, f)}
        /\ \A u \in Thread \ {t} : holds'[u] = holds[u]
    BY <1>0, <2>2, HandleAdded
  <2>5. Hold(id, f) \in HoldSet /\ Hold(id, f).id = id
    BY <2>1, HoldFields
  <2>6. holds' \in [Thread -> SUBSET HoldSet]
    BY <1>t, <2>2, <2>5
  <2>7. pin_count' \in [Frame -> Int]
    BY <1>t, <2>1, <2>2
  <2>8. TypeOK'
    BY <1>0, <2>2, <2>3, <2>6, <2>7 DEF TypeOK, pool_vars, history, Pairs, HoldSet
  <2>9. HeldOnce'
    BY <1>0, <2>2, <2>4, <2>5 DEF HeldOnce, Holds
  <2>10. Control'
    BY <1>0, <2>2, <2>4 DEF Control, Holds, MutexFree
  <2>. QED
    BY <1>0, <2>2, <2>3, <2>4, <2>8, <2>9, <2>10, SamePool, FS_AddElement DEF WInv
<1>2. ASSUME NEW t \in Thread, NEW id \in PageId, GetMiss(t, id)
      PROVE  WInv'
  <2>1. /\ pc' = [pc EXCEPT ![t] = "miss"]
        /\ arg' = [arg EXCEPT ![t] = [id |-> id, frame |-> NoFrame]]
        /\ UNCHANGED <<frames_, pool_vars, frame_vars, victims, holds, history>>
        /\ ~Holds(t, id) /\ MutexFree
    BY <1>2 DEF GetMiss, Goto, MayAsk, Ready
  <2>2. TypeOK'
    BY <1>0, <2>1 DEF TypeOK, pool_vars, frame_vars, history, Handle
  <2>3. Control'
    BY <1>0, <1>t, <2>1, <2>2 DEF Control, Holds, MutexFree, TypeOK
  <2>. QED
    BY <1>0, <2>1, <2>2, <2>3, SamePool, SameHolds DEF WInv
<1>3. ASSUME NEW t \in Thread, Alloc(t)
      PROVE  WInv'
  <2>. DEFINE f == Head(frees)
              id == arg[t].id
  <2>1. /\ pc[t] = "miss" /\ MutexFree /\ frees # <<>>
        /\ used' = used \cup {f} /\ frees' = Tail(frees)
        /\ pin_count' = [pin_count EXCEPT ![f] = 1]
        /\ frame_id' = [frame_id EXCEPT ![f] = [NoId EXCEPT !.buffer_pool_id = id.buffer_pool_id]]
        /\ page_num' = [page_num EXCEPT ![f] = id.page_num]
        /\ frames_' = LruPut(frames_, id, f)
        /\ holds' = [holds EXCEPT ![t] = @ \cup {Hold(id, f)}]
        /\ doubled' = (IF Found(frames_, id) THEN doubled \cup {id} ELSE doubled)
        /\ pc' = [pc EXCEPT ![t] = "idle"] /\ arg' = [arg EXCEPT ![t] = NoCall]
        /\ UNCHANGED <<victims, purged>>
    BY <1>3 DEF Alloc, Goto, Hold
  <2>2. id \in PageId /\ ~Holds(t, id)
    BY <1>0, <2>1 DEF Control
  <2>3. /\ f \in Frame /\ Tail(frees) \in Seq(Frame)
        /\ ToSet(frees) = ToSet(Tail(frees)) \cup {f}
        /\ IsInjective(Tail(frees)) /\ f \notin ToSet(Tail(frees))
    BY <1>0, <1>t, <2>1, TailPlaces, SetOfTail, InjectiveTail DEF PoolWhole
  <2>n. id.buffer_pool_id \in Int /\ id.page_num \in Int
    BY <2>2, PageAssumption
  <2>. HIDE DEF f, id
  <2>4. PoolWhole'
    BY <1>0, <2>1, <2>3 DEF PoolWhole
  <2>5. frames_' \in Seq(Pairs(PageId, Frame)) /\ KeysOnce(frames_')
    BY <1>0, <1>t, <2>1, <2>2, <2>3, CachePut
  <2>6. /\ Handles' = Handles \cup {<<t, Hold(id, f)>>}
        /\ holds'[t] = holds[t] \cup {Hold(id, f)}
        /\ \A u \in Thread \ {t} : holds'[u] = holds[u]
    BY <1>0, <2>1, HandleAdded
  <2>7. Hold(id, f) \in HoldSet /\ Hold(id, f).id = id
    BY <2>2, <2>3, HoldFields
  <2>8. holds' \in [Thread -> SUBSET HoldSet]
    BY <1>t, <2>1, <2>7
  <2>9. /\ pin_count' \in [Frame -> Int] /\ page_num' \in [Frame -> Int]
        /\ frame_id' \in [Frame -> FrameId]
    <3>1. [NoId EXCEPT !.buffer_pool_id = id.buffer_pool_id] \in FrameId
      BY <2>n DEF FrameId, NoId
    <3>2. frame_id' \in [Frame -> FrameId]
      BY <1>t, <2>1, <2>3, <3>1
    <3>3. pin_count' \in [Frame -> Int]
      BY <1>t, <2>1, <2>3
    <3>4. page_num' \in [Frame -> Int]
      BY <1>t, <2>1, <2>3, <2>n
    <3>. QED
      BY <3>2, <3>3, <3>4
  <2>10. /\ pc' \in [Thread -> {"idle", "miss", "unpin", "purge"}]
         /\ arg' \in [Thread -> Handle \cup {NoCall}]
         /\ doubled' \subseteq PageId
    BY <1>0, <2>1, <2>2 DEF TypeOK
  <2>11. TypeOK'
    BY <1>0, <1>t, <2>1, <2>3, <2>5, <2>8, <2>9, <2>10 DEF TypeOK, Pairs, HoldSet
  <2>12. HeldOnce'
    BY <1>0, <2>2, <2>6, <2>7 DEF HeldOnce, Holds
  <2>13. \A u \in Thread : u # t => pc'[u] = pc[u] /\ arg'[u] = arg[u] /\ holds'[u] = holds[u]
    BY <1>0, <2>1, <2>6 DEF TypeOK
  <2>14. pc'[t] = "idle" /\ victims' = <<>>
    BY <1>0, <2>1 DEF TypeOK, Control
  <2>15. Control'
    BY <1>0, <2>13, <2>14 DEF Control, Holds, MutexFree
  <2>. QED
    BY <1>0, <2>4, <2>5, <2>6, <2>11, <2>12, <2>15, FS_AddElement DEF WInv
<1>4. ASSUME NEW t \in Thread, AllocNone(t)
      PROVE  WInv'
  <2>1. /\ pc' = [pc EXCEPT ![t] = "idle"]
        /\ arg' = [arg EXCEPT ![t] = NoCall]
        /\ UNCHANGED <<frames_, pool_vars, frame_vars, victims, holds, history>>
        /\ MutexFree
    BY <1>4 DEF AllocNone, Goto
  <2>2. TypeOK'
    BY <1>0, <2>1 DEF TypeOK, pool_vars, frame_vars, history
  <2>3. Control'
    BY <1>0, <1>t, <2>1, <2>2 DEF Control, Holds, MutexFree, TypeOK
  <2>. QED
    BY <1>0, <2>1, <2>2, <2>3, SamePool, SameHolds DEF WInv
<1>5. ASSUME NEW t \in Thread, NEW pool, FindList(t, pool)
      PROVE  WInv'
  <2>. DEFINE hits == {i \in 1 .. Len(frames_) :
                          frame_id[frames_[i].value].buffer_pool_id = pool}
              new  == {Hold(frames_[i].key, frames_[i].value) : i \in hits}
  <2>1. /\ pc[t] = "idle" /\ MutexFree /\ holds[t] = {}
        /\ pin_count' = [f \in Frame |->
              pin_count[f] + Cardinality(At(hits, f))]
        /\ holds' = [holds EXCEPT ![t] = new]
        /\ UNCHANGED <<frames_, pool_vars, frame_id, page_num, pc, arg, victims, history>>
    BY <1>5 DEF FindList, Ready, Hold, At
  <2>2. \A i \in 1 .. Len(frames_) : frames_[i].key \in PageId /\ frames_[i].value \in Frame
    <3>1. \A i \in 1 .. Len(frames_) : frames_[i] \in Pairs(PageId, Frame)
      BY <1>t
    <3>. QED
      BY <3>1, PairFields
  <2>3. \A f : Cardinality(At(hits, f)) \in Nat
    <3>1. \A f : At(hits, f) \in SUBSET (1 .. Len(frames_))
      BY DEF At
    <3>. QED
      BY <1>t, <3>1, PlacesFinite
  <2>4. IsFiniteSet(hits)
    BY <1>t, PlacesFinite
  <2>5. new \subseteq HoldSet
    BY <2>2, HoldFields
  <2>6. \A g, h \in new : g.id = h.id => g = h
    BY <1>0, HoldFields DEF KeysOnce
  <2>7. IsFiniteSet({<<t, h>> : h \in new})
    <3>. DEFINE F == [i \in hits |-> <<t, Hold(frames_[i].key, frames_[i].value)>>]
                P == {<<t, h>> : h \in new}
    <3>1. F \in [hits -> P] /\ \A x \in P : \E i \in hits : F[i] = x
      OBVIOUS
    <3>. HIDE DEF F, P, hits, new
    <3>2. F \in Surjection(hits, P)
      BY <3>1 DEF Surjection
    <3>3. IsFiniteSet(P)
      BY <2>4, <3>2, FS_Surjection
    <3>. QED
      BY <3>3 DEF P
  <2>. HIDE DEF hits, new
  <2>8. /\ Handles' = Handles \cup {<<t, h>> : h \in new}
        /\ holds'[t] = new
        /\ \A u \in Thread \ {t} : holds'[u] = holds[u]
    BY <1>0, <2>1, HandlesGiven
  <2>9. holds' \in [Thread -> SUBSET HoldSet]
    BY <1>t, <2>1, <2>5
  <2>10. pin_count' \in [Frame -> Int]
    BY <1>t, <2>1, <2>3
  <2>11. TypeOK'
    BY <1>0, <2>1, <2>9, <2>10 DEF TypeOK, pool_vars, history, HoldSet
  <2>12. HeldOnce'
    BY <1>0, <2>6, <2>8 DEF HeldOnce
  <2>13. Control'
    BY <1>0, <2>1, <2>8 DEF Control, Holds, MutexFree
  <2>14. IsFiniteSet(Handles')
    BY <1>0, <2>7, <2>8, FS_Union
  <2>. QED
    BY <1>0, <2>1, <2>11, <2>12, <2>13, <2>14, SamePool DEF WInv
<1>6. ASSUME NEW t \in Thread, NEW h \in holds[t], Free(t, h)
      PROVE  WInv'
  <2>1. /\ FreeInternal(h.id, h.frame)
        /\ holds' = [holds EXCEPT ![t] = @ \ {h}]
        /\ UNCHANGED <<pc, arg, victims, history>>
        /\ pc[t] = "idle" /\ MutexFree
    BY <1>6 DEF Free, Ready
  <2>2. h.frame \in Frame
    BY <1>t
  <2>3. /\ frames_' \in Seq(Pairs(PageId, Frame)) /\ KeysOnce(frames_')
        /\ used' \subseteq Frame /\ frees' \in Seq(Frame) /\ PoolWhole'
        /\ pin_count' \in [Frame -> Int]
        /\ frame_id' \in [Frame -> FrameId]
        /\ page_num' \in [Frame -> Int]
    BY <1>0, <2>1, <2>2, FreeInternalKeeps
  <2>4. /\ Handles' = Handles \ {<<t, h>>}
        /\ holds'[t] = holds[t] \ {h}
        /\ \A u \in Thread \ {t} : holds'[u] = holds[u]
    BY <1>0, <2>1, HandleDropped
  <2>5. holds' \in [Thread -> SUBSET HoldSet]
    BY <1>t, <2>1
  <2>6. TypeOK'
    BY <1>0, <2>1, <2>3, <2>5 DEF TypeOK, history, Pairs, HoldSet
  <2>7. HeldOnce'
    BY <1>0, <2>4 DEF HeldOnce
  <2>8. Control'
    BY <1>0, <2>1, <2>4 DEF Control, Holds, MutexFree
  <2>. QED
    BY <1>0, <2>3, <2>4, <2>6, <2>7, <2>8, FS_RemoveElement DEF WInv
<1>7. ASSUME NEW t \in Thread, NEW h \in holds[t], UnpinCheck(t, h)
      PROVE  WInv'
  <2>1. /\ pc' = [pc EXCEPT ![t] = "unpin"] /\ arg' = [arg EXCEPT ![t] = h]
        /\ UNCHANGED <<frames_, pool_vars, frame_vars, victims, holds, history>>
        /\ pc[t] = "idle"
    BY <1>7 DEF UnpinCheck, Goto
  <2>2. h \in Handle
    BY <1>t, HoldFields
  <2>3. TypeOK'
    BY <1>0, <2>1, <2>2 DEF TypeOK, pool_vars, frame_vars, history
  <2>4. \A u \in Thread : pc'[u] = "purge" <=> pc[u] = "purge"
    BY <1>0, <2>1 DEF TypeOK
  <2>5. Control'
    BY <1>0, <1>t, <2>1, <2>3, <2>4 DEF Control, Holds, MutexFree, TypeOK
  <2>. QED
    BY <1>0, <2>1, <2>3, <2>5, SamePool, SameHolds DEF WInv
<1>8. ASSUME NEW t \in Thread, NEW h \in holds[t], UnpinNothing(t, h)
      PROVE  WInv'
  <2>1. /\ holds' = [holds EXCEPT ![t] = @ \ {h}]
        /\ UNCHANGED <<frames_, pool_vars, frame_vars, pc, arg, victims, history>>
        /\ pc[t] = "idle"
    BY <1>8 DEF UnpinNothing
  <2>2. /\ Handles' = Handles \ {<<t, h>>}
        /\ holds'[t] = holds[t] \ {h}
        /\ \A u \in Thread \ {t} : holds'[u] = holds[u]
    BY <1>0, <2>1, HandleDropped
  <2>3. holds' \in [Thread -> SUBSET HoldSet]
    BY <1>t, <2>1
  <2>4. TypeOK'
    BY <1>0, <2>1, <2>3 DEF TypeOK, pool_vars, frame_vars, history, HoldSet
  <2>5. HeldOnce'
    BY <1>0, <2>2 DEF HeldOnce
  <2>6. Control'
    BY <1>0, <2>1, <2>2 DEF Control, Holds, MutexFree
  <2>. QED
    BY <1>0, <2>1, <2>2, <2>4, <2>5, <2>6, SamePool, FS_RemoveElement DEF WInv
<1>9. ASSUME NEW t \in Thread, UnpinDecrement(t)
      PROVE  WInv'
  <2>. DEFINE h == arg[t]
  <2>1. /\ pin_count' = [pin_count EXCEPT ![h.frame] = @ - 1]
        /\ holds' = [holds EXCEPT ![t] = @ \ {h}]
        /\ pc' = [pc EXCEPT ![t] = "idle"] /\ arg' = [arg EXCEPT ![t] = NoCall]
        /\ UNCHANGED <<frames_, pool_vars, frame_id, page_num, victims, history>>
        /\ pc[t] = "unpin"
    BY <1>9 DEF UnpinDecrement, Goto
  <2>2. h \in holds[t] /\ h.frame \in Frame
    BY <1>0, <1>t, <2>1 DEF Control
  <2>. HIDE DEF h
  <2>3. /\ Handles' = Handles \ {<<t, h>>}
        /\ holds'[t] = holds[t] \ {h}
        /\ \A u \in Thread \ {t} : holds'[u] = holds[u]
    BY <1>0, <2>1, HandleDropped
  <2>4. holds' \in [Thread -> SUBSET HoldSet]
    BY <1>t, <2>1
  <2>5. pin_count' \in [Frame -> Int]
    BY <1>t, <2>1, <2>2
  <2>6. TypeOK'
    BY <1>0, <2>1, <2>4, <2>5 DEF TypeOK, pool_vars, history, HoldSet
  <2>7. HeldOnce'
    BY <1>0, <2>3 DEF HeldOnce
  <2>8. /\ \A u \in Thread : u # t => pc'[u] = pc[u] /\ arg'[u] = arg[u]
        /\ pc'[t] = "idle"
    BY <1>0, <2>1 DEF TypeOK
  <2>9. MutexFree' => MutexFree
    BY <2>1, <2>8 DEF MutexFree
  <2>10. Control'
    BY <1>0, <2>1, <2>3, <2>8, <2>9 DEF Control, Holds
  <2>. QED
    BY <1>0, <2>1, <2>3, <2>6, <2>7, <2>10, SamePool, FS_RemoveElement DEF WInv
<1>10. ASSUME NEW t \in Thread, NEW count \in PurgeCount, PurgeFind(t, count)
       PROVE  WInv'
  <2>. DEFINE chosen == Chosen(count)
  <2>1. /\ \E places \in [1 .. Cardinality(chosen) -> chosen] :
              victims' = [n \in DOMAIN places |-> frames_[places[n]].value]
        /\ pin_count' = [f \in Frame |->
              pin_count[f] + Cardinality(At(chosen, f))]
        /\ pc' = [pc EXCEPT ![t] = "purge"] /\ arg' = [arg EXCEPT ![t] = NoCall]
        /\ UNCHANGED <<frames_, pool_vars, frame_id, page_num, holds, history>>
        /\ pc[t] = "idle" /\ MutexFree
    BY <1>10 DEF PurgeFind, Ready, Goto, At
  <2>2. chosen \subseteq 1 .. Len(frames_)
    BY DEF Chosen, Purgeable
  <2>. HIDE DEF chosen
  <2>3. \A i \in chosen : frames_[i].value \in Frame
    <3>1. \A i \in 1 .. Len(frames_) : frames_[i] \in Pairs(PageId, Frame)
      BY <1>t
    <3>. QED
      BY <2>2, <3>1, PairFields
  <2>4. Cardinality(chosen) \in Nat
    BY <1>t, <2>2, PlacesFinite
  <2>5. \A f : Cardinality(At(chosen, f)) \in Nat
    <3>1. \A f : At(chosen, f) \in SUBSET (1 .. Len(frames_))
      BY <2>2 DEF At
    <3>. QED
      BY <1>t, <3>1, PlacesFinite
  <2>6. victims' \in Seq(Frame)
    <3>1. PICK places \in [1 .. Cardinality(chosen) -> chosen] :
              victims' = [n \in DOMAIN places |-> frames_[places[n]].value]
      BY <2>1
    <3>2. victims' = [n \in 1 .. Cardinality(chosen) |-> frames_[places[n]].value]
      BY <3>1
    <3>3. \A n \in 1 .. Cardinality(chosen) : frames_[places[n]].value \in Frame
      BY <2>3
    <3>. QED
      BY <2>4, <3>2, <3>3
  <2>7. pin_count' \in [Frame -> Int]
    BY <1>t, <2>1, <2>5
  <2>8. TypeOK'
    BY <1>0, <2>1, <2>6, <2>7 DEF TypeOK, pool_vars, history
  <2>9. /\ \A u \in Thread : u # t => pc'[u] = pc[u] /\ arg'[u] = arg[u]
        /\ pc'[t] = "purge"
    BY <1>0, <2>1 DEF TypeOK
  <2>10. Control'
    BY <1>0, <2>1, <2>9 DEF Control, Holds, MutexFree
  <2>. QED
    BY <1>0, <2>1, <2>8, <2>10, SamePool, SameHolds DEF WInv
<1>11. ASSUME NEW t \in Thread, PurgeOne(t)
       PROVE  WInv'
  <2>. DEFINE f == Head(victims)
  <2>1. /\ pc[t] = "purge" /\ victims # <<>> /\ purged < MaxPurges
        /\ purged' = purged + 1 /\ victims' = Tail(victims)
        /\ FreeInternal(frame_id[f], f)
        /\ UNCHANGED <<pc, arg, holds, doubled>>
    BY <1>11 DEF PurgeOne
  <2>2. f \in Frame /\ Tail(victims) \in Seq(Frame)
    BY <1>t, <2>1, TailPlaces
  <2>. HIDE DEF f
  <2>3. /\ frames_' \in Seq(Pairs(PageId, Frame)) /\ KeysOnce(frames_')
        /\ used' \subseteq Frame /\ frees' \in Seq(Frame) /\ PoolWhole'
        /\ pin_count' \in [Frame -> Int]
        /\ frame_id' \in [Frame -> FrameId]
        /\ page_num' \in [Frame -> Int]
    BY <1>0, <2>1, <2>2, FreeInternalKeeps
  <2>4. purged' \in 0 .. MaxPurges
    BY <1>0, <2>1, PurgesAssumption DEF TypeOK
  <2>5. TypeOK'
    BY <1>0, <2>1, <2>2, <2>3, <2>4 DEF TypeOK, Pairs
  <2>6. Control'
    BY <1>0, <2>1 DEF Control, Holds, MutexFree
  <2>. QED
    BY <1>0, <2>1, <2>3, <2>5, <2>6, SameHolds DEF WInv
<1>12. ASSUME NEW t \in Thread, PurgeRefused(t)
       PROVE  WInv'
  <2>. DEFINE f == Head(victims)
  <2>1. /\ pc[t] = "purge" /\ victims # <<>> /\ victims' = Tail(victims)
        /\ pin_count' = [pin_count EXCEPT ![f] = IF @ > 0 THEN @ - 1 ELSE @]
        /\ UNCHANGED <<frames_, pool_vars, frame_id, page_num, pc, arg, holds, history>>
    BY <1>12 DEF PurgeRefused
  <2>2. f \in Frame /\ Tail(victims) \in Seq(Frame)
    BY <1>t, <2>1, TailPlaces
  <2>. HIDE DEF f
  <2>3. pin_count' \in [Frame -> Int]
    BY <1>t, <2>1, <2>2
  <2>4. TypeOK'
    BY <1>0, <2>1, <2>2, <2>3 DEF TypeOK, pool_vars, history
  <2>5. Control'
    BY <1>0, <2>1 DEF Control, Holds, MutexFree
  <2>. QED
    BY <1>0, <2>1, <2>4, <2>5, SamePool, SameHolds DEF WInv
<1>13. ASSUME NEW t \in Thread, PurgeDone(t)
       PROVE  WInv'
  <2>1. /\ pc' = [pc EXCEPT ![t] = "idle"] /\ arg' = [arg EXCEPT ![t] = NoCall]
        /\ UNCHANGED <<frames_, pool_vars, frame_vars, victims, holds, history>>
        /\ victims = <<>>
    BY <1>13 DEF PurgeDone, Goto
  <2>2. TypeOK'
    BY <1>0, <2>1 DEF TypeOK, pool_vars, frame_vars, history
  <2>3. Control'
    BY <1>0, <1>t, <2>1, <2>2 DEF Control, Holds, MutexFree, TypeOK
  <2>. QED
    BY <1>0, <2>1, <2>2, <2>3, SamePool, SameHolds DEF WInv
<1>14. CASE UNCHANGED vars
  <2>1. UNCHANGED <<frames_, used, frees, pin_count, frame_id, page_num, pc, arg, victims,
                    holds, purged, doubled, pool_vars>>
    BY <1>14 DEF vars, pool_vars
  <2>2. TypeOK'
    BY <1>0, <2>1 DEF TypeOK
  <2>3. Control'
    BY <1>0, <2>1 DEF Control, Holds, MutexFree
  <2>. QED
    BY <1>0, <2>1, <2>2, <2>3, SamePool, SameHolds DEF WInv
<1>. QED
  BY <1>1, <1>2, <1>3, <1>4, <1>5, <1>6, <1>7, <1>8, <1>9, <1>10, <1>11, <1>12, <1>13, <1>14
     DEF Next

-----------------------------------------------------------------------------
(* Pages, frames and handles as long as no frame was purged.               *)

(* The frame carries the page.                                             *)
PageOf(f, id) ==
    /\ page_num[f] = id.page_num
    /\ frame_id[f].buffer_pool_id = id.buffer_pool_id

(* The same after the step.                                                *)
PageNow(f, id) ==
    /\ page_num'[f] = id.page_num
    /\ frame_id'[f].buffer_pool_id = id.buffer_pool_id

(* What the cache finds is in use and carries the page it is found for.    *)
Entered == \A e \in ToSet(frames_) : e.value \in used /\ PageOf(e.value, e.key)

(* So does what a thread holds, and the cache finds it, unless another     *)
(* thread allocated the page as well.                                      *)
Handled ==
    \A t \in Thread : \A h \in holds[t] :
        /\ h.frame \in used /\ PageOf(h.frame, h.id)
        /\ h.id \notin doubled => Pair(h.id, h.frame) \in ToSet(frames_)

(* What is in use is found.                                                *)
Kept == doubled = {} => \A f \in used : \E e \in ToSet(frames_) : e.value = f

EInv == purged = 0 => Entered /\ Handled /\ Kept

(* A frame carries one page at a time.                                     *)
LEMMA OnePage ==
    ASSUME NEW f, NEW i \in PageId, NEW j \in PageId, PageOf(f, i), PageOf(f, j)
    PROVE  i = j
<1>1. \A k \in [buffer_pool_id : Nat, page_num : Nat] :
         k = [buffer_pool_id |-> k.buffer_pool_id, page_num |-> k.page_num]
  OBVIOUS
<1>2. /\ i = [buffer_pool_id |-> i.buffer_pool_id, page_num |-> i.page_num]
      /\ j = [buffer_pool_id |-> j.buffer_pool_id, page_num |-> j.page_num]
  BY <1>1, PageAssumption
<1>3. i.page_num = j.page_num /\ i.buffer_pool_id = j.buffer_pool_id
  BY DEF PageOf
<1>. QED
  BY <1>2, <1>3

(* There is no page in a frame at first.                                   *)
LEMMA InitEInv == Init => EInv
<1>. SUFFICES ASSUME Init PROVE EInv
  OBVIOUS
<1>1. frames_ = <<>> /\ used = {} /\ \A t \in Thread : holds[t] = {}
  BY DEF Init
<1>2. ToSet(frames_) = {}
  <2>1. frames_ \in Seq(PageId)
    BY <1>1
  <2>. QED
    BY <1>1, <2>1, InSeq
<1>. QED
  BY <1>1, <1>2 DEF EInv, Entered, Handled, Kept

(* A step that at most drops handles.                                      *)
LEMMA OnlyDrops ==
    ASSUME EInv, UNCHANGED <<frames_, used, frame_id, page_num, doubled, purged>>,
           \A t \in Thread : holds'[t] \subseteq holds[t]
    PROVE  EInv'
  BY DEF EInv, Entered, Handled, Kept, PageOf

(* Until a frame is purged, every step keeps cache, frames and handles in  *)
(* agreement.                                                              *)
LEMMA StepEInv == WInv /\ EInv /\ [Next]_vars => EInv'
<1>. SUFFICES ASSUME WInv, EInv, [Next]_vars PROVE EInv'
  OBVIOUS
<1>0. /\ TypeOK /\ Control /\ PoolWhole /\ HeldOnce
      /\ KeysOnce(frames_) /\ IsFiniteSet(Handles)
  BY DEF WInv
<1>t. /\ frames_ \in Seq(Pairs(PageId, Frame))
      /\ used \subseteq Frame /\ frees \in Seq(Frame) /\ victims \in Seq(Frame)
      /\ frame_id \in [Frame -> FrameId] /\ page_num \in [Frame -> Int]
      /\ holds \in [Thread -> SUBSET HoldSet]
      /\ \A t \in Thread : \A h \in holds[t] :
             h \in HoldSet /\ h.id \in PageId /\ h.frame \in Frame
      /\ purged \in Nat
  BY <1>0, Types
<1>c. /\ \A e \in ToSet(frames_) : e.key \in PageId /\ e.value \in Frame
      /\ \A e \in ToSet(frames_) : e = Pair(e.key, e.value)
      /\ \A e, g \in ToSet(frames_) : e.key = g.key => e = g
      /\ \A k, v : Pair(k, v).key = k /\ Pair(k, v).value = v
      /\ \A k : Found(frames_, k) <=> \E e \in ToSet(frames_) : e.key = k
  BY <1>0, <1>t, CacheFound, PairFields
<1>1. ASSUME NEW t \in Thread, NEW id \in PageId, GetHit(t, id)
      PROVE  EInv'
  <2>. DEFINE f == ValueOf(frames_, id)
  <2>1. Pair(id, f) \in ToSet(frames_)
    BY <1>0, <1>1, <1>t, CacheFound DEF GetHit
  <2>2. /\ holds' = [holds EXCEPT ![t] = @ \cup {Hold(id, f)}]
        /\ frames_' = LruGet(frames_, id)
        /\ UNCHANGED <<used, frame_id, page_num, purged, doubled>>
    BY <1>1 DEF GetHit, Hold, pool_vars, history
  <2>. HIDE DEF f
  <2>3. ToSet(frames_') = ToSet(frames_)
    BY <1>0, <1>t, <2>2, CacheGet
  <2>4. /\ holds'[t] = holds[t] \cup {Hold(id, f)}
        /\ \A u \in Thread \ {t} : holds'[u] = holds[u]
        /\ Hold(id, f).id = id /\ Hold(id, f).frame = f
    BY <1>0, <2>2, HandleAdded, HoldFields
  <2>. SUFFICES ASSUME purged = 0 PROVE (Entered /\ Handled /\ Kept)'
    BY <2>2 DEF EInv
  <2>5. Entered /\ Handled /\ Kept
    BY DEF EInv
  <2>6. Entered' /\ Kept'
    BY <2>2, <2>3, <2>5 DEF Entered, Kept, PageOf
  <2>7. f \in used /\ PageOf(f, id)
    BY <1>c, <2>1, <2>5 DEF Entered
  <2>8. Handled'
    BY <2>1, <2>2, <2>3, <2>4, <2>5, <2>7 DEF Handled, PageOf
  <2>. QED
    BY <2>6, <2>8
<1>2. ASSUME NEW t \in Thread, NEW id \in PageId, GetMiss(t, id)
      PROVE  EInv'
  BY <1>2, OnlyDrops DEF GetMiss, pool_vars, frame_vars, history
<1>3. ASSUME NEW t \in Thread, Alloc(t)
      PROVE  EInv'
  <2>. DEFINE f == Head(frees)
              id == arg[t].id
  <2>1. /\ pc[t] = "miss" /\ frees # <<>>
        /\ used' = used \cup {f}
        /\ frame_id' = [frame_id EXCEPT ![f] = [NoId EXCEPT !.buffer_pool_id = id.buffer_pool_id]]
        /\ page_num' = [page_num EXCEPT ![f] = id.page_num]
        /\ frames_' = LruPut(frames_, id, f)
        /\ holds' = [holds EXCEPT ![t] = @ \cup {Hold(id, f)}]
        /\ doubled' = (IF Found(frames_, id) THEN doubled \cup {id} ELSE doubled)
        /\ UNCHANGED purged
    BY <1>3 DEF Alloc, Hold
  <2>2. id \in PageId
    BY <1>0, <2>1 DEF Control
  <2>3. f \in Frame /\ f \notin used
    BY <1>0, <1>t, <2>1, TailPlaces, SetOfTail DEF PoolWhole
  <2>. HIDE DEF f, id
  <2>4. \A e : e \in ToSet(frames_') <=>
                  \/ e = Pair(id, f)
                  \/ e \in ToSet(frames_) /\ e.key # id
    <3>1. \A e : e \in ToSet(LruPut(frames_, id, f)) <=>
                    \/ e = Pair(id, f)
                    \/ e \in ToSet(frames_) /\ e.key # id
      BY <1>0, <1>t, <2>2, <2>3, CachePut
    <3>2. frames_' = LruPut(frames_, id, f)
      BY <2>1
    <3>. QED
      BY <3>1, <3>2
  <2>5. /\ holds'[t] = holds[t] \cup {Hold(id, f)}
        /\ \A u \in Thread \ {t} : holds'[u] = holds[u]
        /\ Hold(id, f).id = id /\ Hold(id, f).frame = f
    BY <1>0, <2>1, HandleAdded, HoldFields
  <2>6. /\ PageNow(f, id)
        /\ \A g \in Frame : \A i : g # f => (PageNow(g, i) <=> PageOf(g, i))
    <3>1. [NoId EXCEPT !.buffer_pool_id = id.buffer_pool_id].buffer_pool_id = id.buffer_pool_id
      BY DEF NoId
    <3>2. /\ page_num'[f] = id.page_num
          /\ frame_id'[f].buffer_pool_id = id.buffer_pool_id
      BY <1>t, <2>1, <2>3, <3>1
    <3>3. \A g \in Frame : g # f => page_num'[g] = page_num[g] /\ frame_id'[g] = frame_id[g]
      BY <1>t, <2>1
    <3>. QED
      BY <3>2, <3>3 DEF PageOf, PageNow
  <2>. SUFFICES ASSUME purged = 0 PROVE (Entered /\ Handled /\ Kept)'
    BY <2>1 DEF EInv
  <2>7. Entered /\ Handled /\ Kept
    BY DEF EInv
  <2>8. Entered'
    <3>1. ASSUME NEW e \in ToSet(frames_') PROVE e.value \in used' /\ PageNow(e.value, e.key)
      <4>1. CASE e = Pair(id, f)
        BY <1>c, <2>1, <2>6, <4>1
      <4>2. CASE e \in ToSet(frames_) /\ e.key # id
        BY <1>t, <1>c, <2>1, <2>3, <2>6, <2>7, <4>2 DEF Entered
      <4>. QED
        BY <2>4, <4>1, <4>2
    <3>. QED
      BY <3>1 DEF Entered, PageOf, PageNow
  <2>9. Handled'
    <3>1. ASSUME NEW u \in Thread, NEW h \in holds'[u]
          PROVE  /\ h.frame \in used' /\ PageNow(h.frame, h.id)
                 /\ h.id \notin doubled' => Pair(h.id, h.frame) \in ToSet(frames_')
      <4>1. CASE h = Hold(id, f)
        BY <2>1, <2>4, <2>5, <2>6, <4>1
      <4>2. CASE h \in holds[u]
        <5>1. h.frame \in Frame /\ h.frame \in used /\ PageOf(h.frame, h.id)
          BY <1>t, <2>7, <4>2 DEF Handled
        <5>2. h.id \notin doubled' => Pair(h.id, h.frame) \in ToSet(frames_') 
          BY <1>c, <2>1, <2>4, <2>7, <4>2 DEF Handled
        <5>. QED
          BY <2>1, <2>3, <2>6, <5>1, <5>2
      <4>. QED
        BY <2>5, <4>1, <4>2
    <3>. QED
      BY <3>1 DEF Handled, PageOf, PageNow
  <2>10. Kept'
    <3>. SUFFICES ASSUME doubled' = {}, NEW g \in used' PROVE \E e \in ToSet(frames_') : e.value = g
      BY DEF Kept
    <3>1. ~Found(frames_, id) /\ doubled = {}
      BY <2>1
    <3>2. CASE g = f
      BY <1>c, <2>4, <3>2
    <3>3. CASE g \in used
      BY <1>c, <2>4, <2>7, <3>1, <3>3 DEF Kept
    <3>. QED
      BY <2>1, <3>2, <3>3
  <2>. QED
    BY <2>8, <2>9, <2>10
<1>4. ASSUME NEW t \in Thread, AllocNone(t)
      PROVE  EInv'
  BY <1>4, OnlyDrops DEF AllocNone, pool_vars, frame_vars, history
<1>5. ASSUME NEW t \in Thread, NEW pool, FindList(t, pool)
      PROVE  EInv'
  <2>. DEFINE hits == {i \in 1 .. Len(frames_) :
                          frame_id[frames_[i].value].buffer_pool_id = pool}
              new  == {Hold(frames_[i].key, frames_[i].value) : i \in hits}
  <2>1. /\ holds[t] = {}
        /\ holds' = [holds EXCEPT ![t] = new]
        /\ UNCHANGED <<frames_, used, frame_id, page_num, purged, doubled>>
    BY <1>5 DEF FindList, Hold, pool_vars, history
  <2>2. \A h \in new : \E e \in ToSet(frames_) : h.id = e.key /\ h.frame = e.value
    <3>1. \A i \in 1 .. Len(frames_) : frames_[i] \in ToSet(frames_)
      BY <1>t, InSeq
    <3>. QED
      BY <3>1, HoldFields
  <2>. HIDE DEF hits, new
  <2>3. /\ holds'[t] = new
        /\ \A u \in Thread \ {t} : holds'[u] = holds[u]
    BY <1>0, <2>1, HandlesGiven
  <2>. SUFFICES ASSUME purged = 0 PROVE (Entered /\ Handled /\ Kept)'
    BY <2>1 DEF EInv
  <2>4. Entered /\ Handled /\ Kept
    BY DEF EInv
  <2>5. Entered' /\ Kept'
    BY <2>1, <2>4 DEF Entered, Kept, PageOf
  <2>6. \A h \in new : /\ h.frame \in used /\ PageOf(h.frame, h.id)
                       /\ Pair(h.id, h.frame) \in ToSet(frames_)
    BY <1>c, <2>2, <2>4 DEF Entered
  <2>7. Handled'
    BY <2>1, <2>3, <2>4, <2>6 DEF Handled, PageOf
  <2>. QED
    BY <2>5, <2>7
<1>6. ASSUME NEW t \in Thread, NEW h \in holds[t], Free(t, h)
      PROVE  EInv'
  <2>1. /\ FreeInternal(h.id, h.frame) /\ MayFree(t, h)
        /\ holds' = [holds EXCEPT ![t] = @ \ {h}]
        /\ UNCHANGED <<purged, doubled>>
    BY <1>6 DEF Free, history
  <2>2. h.frame \in Frame /\ h.id \in PageId
    BY <1>t
  <2>3. /\ \A e : e \in ToSet(frames_') <=> e \in ToSet(frames_) /\ e.key # h.id
        /\ used' = used \ {h.frame}
    BY <1>0, <2>1, <2>2, FreeInternalKeeps
  <2>4. /\ holds'[t] = holds[t] \ {h}
        /\ \A u \in Thread \ {t} : holds'[u] = holds[u]
    BY <1>0, <2>1, HandleDropped
  <2>5. \A u \in Thread : \A g \in holds'[u] : g \in holds[u] /\ g.id # h.id
    BY <1>0, <2>1, <2>4 DEF MayFree, Holds, HeldOnce
  <2>6. \A g \in Frame : \A i : g # h.frame => (PageNow(g, i) <=> PageOf(g, i))
    BY <1>t, <2>1 DEF FreeInternal, PageOf, PageNow
  <2>. SUFFICES ASSUME purged = 0 PROVE (Entered /\ Handled /\ Kept)'
    BY <2>1 DEF EInv
  <2>7. Entered /\ Handled /\ Kept
    BY DEF EInv
  <2>8. PageOf(h.frame, h.id)
    BY <2>7 DEF Handled
  <2>9. Entered'
    <3>1. ASSUME NEW e \in ToSet(frames_') PROVE e.value \in used' /\ PageNow(e.value, e.key)
      <4>1. e \in ToSet(frames_) /\ e.key # h.id /\ e.key \in PageId /\ e.value \in Frame
        BY <1>c, <2>3
      <4>2. e.value \in used /\ PageOf(e.value, e.key)
        BY <2>7, <4>1 DEF Entered
      <4>3. e.value # h.frame
        BY <2>2, <2>8, <4>1, <4>2, OnePage
      <4>. QED
        BY <2>3, <2>6, <4>1, <4>2, <4>3
    <3>. QED
      BY <3>1 DEF Entered, PageOf, PageNow
  <2>10. Handled'
    <3>1. ASSUME NEW u \in Thread, NEW g \in holds'[u]
          PROVE  /\ g.frame \in used' /\ PageNow(g.frame, g.id)
                 /\ g.id \notin doubled' => Pair(g.id, g.frame) \in ToSet(frames_')
      <4>1. g \in holds[u] /\ g.id # h.id /\ g.id \in PageId /\ g.frame \in Frame
        BY <1>t, <2>5
      <4>2. /\ g.frame \in used /\ PageOf(g.frame, g.id)
            /\ g.id \notin doubled => Pair(g.id, g.frame) \in ToSet(frames_)
        BY <2>7, <4>1 DEF Handled
      <4>3. g.frame # h.frame
        BY <2>2, <2>8, <4>1, <4>2, OnePage
      <4>. QED
        BY <1>c, <2>1, <2>3, <2>6, <4>1, <4>2, <4>3
    <3>. QED
      BY <3>1 DEF Handled, PageOf, PageNow
  <2>11. Kept'
    <3>. SUFFICES ASSUME doubled' = {}, NEW g \in used' PROVE \E e \in ToSet(frames_') : e.value = g
      BY DEF Kept
    <3>1. PICK e \in ToSet(frames_) : e.value = g
      BY <2>1, <2>3, <2>7 DEF Kept
    <3>2. Pair(h.id, h.frame) \in ToSet(frames_)
      BY <2>1, <2>7 DEF Handled
    <3>3. g # h.frame
      BY <2>3
    <3>4. e.key # h.id
      BY <1>c, <3>1, <3>2, <3>3
    <3>. QED
      BY <2>3, <3>1, <3>4
  <2>. QED
    BY <2>9, <2>10, <2>11
<1>7. ASSUME NEW t \in Thread, NEW h \in holds[t], UnpinCheck(t, h)
      PROVE  EInv'
  BY <1>7, OnlyDrops DEF UnpinCheck, pool_vars, frame_vars, history
<1>8. ASSUME NEW t \in Thread, NEW h \in holds[t], UnpinNothing(t, h)
      PROVE  EInv'
  BY <1>0, <1>8, HandleDropped, OnlyDrops DEF UnpinNothing, pool_vars, frame_vars, history
<1>9. ASSUME NEW t \in Thread, UnpinDecrement(t)
      PROVE  EInv'
  BY <1>0, <1>9, HandleDropped, OnlyDrops DEF UnpinDecrement, pool_vars, history
<1>10. ASSUME NEW t \in Thread, NEW count \in PurgeCount, PurgeFind(t, count)
       PROVE  EInv'
  BY <1>10, OnlyDrops DEF PurgeFind, pool_vars, history
<1>11. ASSUME NEW t \in Thread, PurgeOne(t)
       PROVE  EInv'
  BY <1>t, <1>11 DEF PurgeOne, EInv
<1>12. ASSUME NEW t \in Thread, PurgeRefused(t)
       PROVE  EInv'
  BY <1>12, OnlyDrops DEF PurgeRefused, pool_vars, history
<1>13. ASSUME NEW t \in Thread, PurgeDone(t)
       PROVE  EInv'
  BY <1>13, OnlyDrops DEF PurgeDone, pool_vars, frame_vars, history
<1>14. CASE UNCHANGED vars
  BY <1>14, OnlyDrops DEF vars
<1>. QED
  BY <1>1, <1>2, <1>3, <1>4, <1>5, <1>6, <1>7, <1>8, <1>9, <1>10, <1>11, <1>12, <1>13, <1>14
     DEF Next

-----------------------------------------------------------------------------
(* The counts.                                                             *)

(* The handles to a frame, and its places in a list of frames.             *)
To(handles, f)  == {x \in handles : x[2].frame = f}
In(list, f)     == {n \in 1 .. Len(list) : list[n] = f}

Pinned ==
    \A f \in Frame :
        pin_count[f] = Cardinality(To(Handles, f)) + Cardinality(In(victims, f))

CInv == purged = 0 => Pinned

(* The handles to a frame can be counted, and one more or less counts.     *)
LEMMA ToCount ==
    ASSUME NEW H, IsFiniteSet(H), NEW f
    PROVE  IsFiniteSet(To(H, f)) /\ Cardinality(To(H, f)) \in Nat
<1>1. To(H, f) \subseteq H
  BY DEF To
<1>2. IsFiniteSet(To(H, f))
  BY <1>1, FS_Subset
<1>. QED
  BY <1>2, FS_CardinalityType

(* One handle more counts for its frame.                                   *)
LEMMA ToAdd ==
    ASSUME NEW H, IsFiniteSet(H), NEW t, NEW h, <<t, h>> \notin H, NEW f
    PROVE  Cardinality(To(H \cup {<<t, h>>}, f)) =
             Cardinality(To(H, f)) + (IF h.frame = f THEN 1 ELSE 0)
<1>1. IsFiniteSet(To(H, f)) /\ Cardinality(To(H, f)) \in Nat
  BY ToCount
<1>2. CASE h.frame = f
  <2>1. To(H \cup {<<t, h>>}, f) = To(H, f) \cup {<<t, h>>} /\ <<t, h>> \notin To(H, f)
    BY <1>2 DEF To
  <2>. QED
    BY <1>1, <1>2, <2>1, FS_AddElement
<1>3. CASE h.frame # f
  <2>1. To(H \cup {<<t, h>>}, f) = To(H, f)
    BY <1>3 DEF To
  <2>. QED
    BY <1>1, <1>3, <2>1
<1>. QED
  BY <1>2, <1>3

(* One handle less counts for its frame.                                   *)
LEMMA ToDrop ==
    ASSUME NEW H, IsFiniteSet(H), NEW t, NEW h, <<t, h>> \in H, NEW f
    PROVE  Cardinality(To(H \ {<<t, h>>}, f)) =
             Cardinality(To(H, f)) - (IF h.frame = f THEN 1 ELSE 0)
<1>1. IsFiniteSet(H \ {<<t, h>>}) /\ <<t, h>> \notin H \ {<<t, h>>}
  BY FS_RemoveElement
<1>2. (H \ {<<t, h>>}) \cup {<<t, h>>} = H
  OBVIOUS
<1>3. Cardinality(To(H, f)) =
        Cardinality(To(H \ {<<t, h>>}, f)) + (IF h.frame = f THEN 1 ELSE 0)
  <2>. DEFINE G == H \ {<<t, h>>}
  <2>1. IsFiniteSet(G) /\ <<t, h>> \notin G /\ G \cup {<<t, h>>} = H
    BY <1>1, <1>2
  <2>. HIDE DEF G
  <2>2. Cardinality(To(G \cup {<<t, h>>}, f)) =
          Cardinality(To(G, f)) + (IF h.frame = f THEN 1 ELSE 0)
    BY <2>1, ToAdd
  <2>. QED
    BY <2>1, <2>2 DEF G
<1>4. Cardinality(To(H \ {<<t, h>>}, f)) \in Nat
  BY <1>1, ToCount
<1>. QED
  BY <1>3, <1>4

(* Places in a list.                                                       *)
LEMMA InCount ==
    ASSUME NEW S, NEW list \in Seq(S), NEW f
    PROVE  IsFiniteSet(In(list, f)) /\ Cardinality(In(list, f)) \in Nat
<1>1. In(list, f) \in SUBSET (1 .. Len(list))
  BY DEF In
<1>. QED
  BY <1>1, PlacesFinite

(* There is no frame in the empty list.                                    *)
LEMMA InEmpty ==
    ASSUME NEW f
    PROVE  In(<<>>, f) = {} /\ Cardinality(In(<<>>, f)) = 0
<1>1. Len(<<>>) = 0
  OBVIOUS
<1>2. In(<<>>, f) = {}
  BY <1>1 DEF In
<1>. QED
  BY <1>2, FS_EmptySet

(* The first of the list is one of its places.                             *)
LEMMA InTailCount ==
    ASSUME NEW S, NEW list \in Seq(S), list # <<>>, NEW f
    PROVE  Cardinality(In(list, f)) =
             Cardinality(In(Tail(list), f)) + (IF Head(list) = f THEN 1 ELSE 0)
<1>. DEFINE A == In(Tail(list), f)
            B == In(list, f) \ {1}
            F == [n \in A |-> n + 1]
<1>1. /\ Head(list) = list[1] /\ Tail(list) \in Seq(S)
      /\ Len(list) \in Nat \ {0} /\ Len(Tail(list)) = Len(list) - 1
      /\ \A i \in 1 .. Len(list) - 1 : Tail(list)[i] = list[i + 1]
  BY TailPlaces
<1>2. /\ A \subseteq Nat
      /\ \A n \in A : n + 1 \in B
      /\ \A n \in B : n - 1 \in A /\ n \in Nat
  <2>1. ASSUME NEW n \in A PROVE n \in Nat /\ n + 1 \in B
    BY <1>1, <2>1 DEF In
  <2>2. ASSUME NEW n \in B PROVE n - 1 \in A /\ n \in Nat
    <3>1. n \in 1 .. Len(list) /\ n # 1 /\ list[n] = f
      BY <2>2 DEF In
    <3>2. n - 1 \in 1 .. Len(list) - 1 /\ (n - 1) + 1 = n
      BY <1>1, <3>1
    <3>. QED
      BY <1>1, <3>1, <3>2 DEF In
  <2>. QED
    BY <2>1, <2>2
<1>3. IsFiniteSet(A) /\ IsFiniteSet(In(list, f)) /\ Cardinality(A) \in Nat
      /\ Cardinality(In(list, f)) \in Nat
  BY <1>1, InCount
<1>4. 1 \in In(list, f) <=> Head(list) = f
  BY <1>1 DEF In
<1>. HIDE DEF A, B
<1>5. F \in [A -> B] /\ \A n, m \in A : F[n] = F[m] => n = m
  BY <1>2
<1>6. Cardinality(B) = Cardinality(A)
  <2>1. \A n \in B : \E m \in A : F[m] = n
    BY <1>2
  <2>. HIDE DEF F
  <2>. QED
    BY <1>3, <1>5, <2>1, SameCount
<1>7. Cardinality(B) = IF 1 \in In(list, f) THEN Cardinality(In(list, f)) - 1
                       ELSE Cardinality(In(list, f))
  BY <1>3, FS_RemoveElement DEF B
<1>. QED
  BY <1>3, <1>4, <1>6, <1>7 DEF A

(* P are the handles that find_list() gives to thread t for the places it  *)
(* hits, and t has no handle among those of H.                             *)
Given(t, hits, P) ==
    \A x : x \in P <=> \E i \in hits : x = <<t, Hold(frames_[i].key, frames_[i].value)>>
Without(H, t)     == \A h : <<t, h>> \notin H

(* The frames at the places that find_list() hits: each a handle more.     *)
LEMMA ToGiven ==
    ASSUME NEW S, frames_ \in Seq(S), KeysOnce(frames_), NEW H, IsFiniteSet(H), NEW t,
           Without(H, t),
           NEW hits \in SUBSET (1 .. Len(frames_)), NEW f, NEW P,
           Given(t, hits, P)
    PROVE  Cardinality(To(H \cup P, f)) =
             Cardinality(To(H, f)) + Cardinality(At(hits, f))
<1>. DEFINE A == At(hits, f)
            B == To(P, f)
            F == [i \in A |-> <<t, Hold(frames_[i].key, f)>>]
<1>1. IsFiniteSet(A) /\ Cardinality(A) \in Nat
  <2>1. A \in SUBSET (1 .. Len(frames_))
    BY DEF At
  <2>. QED
    BY <2>1, PlacesFinite
<1>2. \A i, j \in hits : frames_[i].key = frames_[j].key => i = j
  BY DEF KeysOnce
<1>3. \A x : x \in B <=> \E i \in A : x = <<t, Hold(frames_[i].key, f)>>
  BY HoldFields DEF To, At, Given
<1>4. \A i \in A : i \in hits
  BY DEF At
<1>5. \A x \in B : x \notin To(H, f)
  BY <1>3 DEF To, Without
<1>6. To(H \cup P, f) = To(H, f) \cup B
  BY DEF To
<1>. HIDE DEF A, B
<1>7. F \in [A -> B] /\ \A x \in B : \E i \in A : F[i] = x
  BY <1>3
<1>8. IsFiniteSet(B) /\ Cardinality(B) = Cardinality(A)
  <2>1. \A i, j \in A : F[i] = F[j] => i = j
    <3>. SUFFICES ASSUME NEW i \in A, NEW j \in A, F[i] = F[j] PROVE i = j
      OBVIOUS
    <3>1. Hold(frames_[i].key, f) = Hold(frames_[j].key, f)
      OBVIOUS
    <3>2. frames_[i].key = frames_[j].key
      BY <3>1, HoldFields
    <3>. QED
      BY <1>2, <1>4, <3>2
  <2>. HIDE DEF F
  <2>. QED
    BY <1>1, <1>7, <2>1, SameCount
<1>9. IsFiniteSet(To(H, f)) /\ Cardinality(To(H, f)) \in Nat
  BY ToCount
<1>10. To(H, f) \cap B = {}
  BY <1>5
<1>11. Cardinality(To(H, f) \cup B) = Cardinality(To(H, f)) + Cardinality(B) - Cardinality({})
  BY <1>8, <1>9, <1>10, FS_Union
<1>12. Cardinality(To(H \cup P, f)) = Cardinality(To(H, f)) + Cardinality(A)
  <2>1. Cardinality({}) = 0
    BY FS_EmptySet
  <2>2. Cardinality(To(H \cup P, f)) = Cardinality(To(H, f) \cup B)
    BY <1>6
  <2>. QED
    BY <1>1, <1>8, <1>9, <1>11, <2>1, <2>2
<1>. QED
  BY <1>12 DEF A

(* The frames at the places that purge_frames() chose.                     *)
LEMMA InChosen ==
    ASSUME NEW S, frames_ \in Seq(S), NEW chosen \in SUBSET (1 .. Len(frames_)),
           NEW places \in [1 .. Cardinality(chosen) -> chosen],
           \A m, n \in 1 .. Cardinality(chosen) : m < n => places[m] > places[n],
           NEW list \in Seq(Frame),
           list = [n \in 1 .. Cardinality(chosen) |-> frames_[places[n]].value],
           NEW f
    PROVE  Cardinality(In(list, f)) = Cardinality(At(chosen, f))
<1>. DEFINE k == Cardinality(chosen)
            A == In(list, f)
            B == At(chosen, f)
            F == [n \in A |-> places[n]]
<1>1. IsFiniteSet(chosen) /\ k \in Nat
  BY PlacesFinite
<1>2. \A m, n \in 1 .. k : m # n => places[m] # places[n]
  <2>1. \A m \in 1 .. k : places[m] \in Nat
    <3>1. chosen \subseteq Nat
      OBVIOUS
    <3>. QED
      BY <3>1
  <2>2. \A m, n \in 1 .. k : m < n => places[m] > places[n]
    OBVIOUS
  <2>. HIDE DEF k
  <2>. SUFFICES ASSUME NEW m \in 1 .. k, NEW n \in 1 .. k, m # n
                PROVE  places[m] # places[n]
    OBVIOUS
  <2>3. m < n \/ n < m
    BY <1>1
  <2>. QED
    BY <2>1, <2>2, <2>3
<1>3. places \in Injection(1 .. k, chosen)
  BY <1>2 DEF Injection, IsInjective
<1>4. Cardinality(1 .. k) = k
  <2>. HIDE DEF k
  <2>1. 0 \in Int /\ 1 \in Int /\ k \in Int
    BY <1>1
  <2>2. Cardinality(1 .. k) = IF 1 > k THEN 0 ELSE k - 1 + 1
    BY <2>1, FS_Interval
  <2>. QED
    BY <1>1, <2>2
<1>5. places \in Surjection(1 .. k, chosen)
  BY <1>1, <1>3, <1>4, FS_Injection
<1>6. \A i \in chosen : \E n \in 1 .. k : places[n] = i
  BY <1>5 DEF Surjection
<1>7. Len(list) = k /\ \A n \in 1 .. k : list[n] = frames_[places[n]].value
  <2>. HIDE DEF k
  <2>1. list = [n \in 1 .. k |-> frames_[places[n]].value]
    BY DEF k
  <2>2. DOMAIN list = 1 .. k
    BY <2>1
  <2>3. Len(list) = k
    BY <1>1, <2>2, LenOfFunction
  <2>. QED
    BY <2>1, <2>3
<1>8. \A n : n \in A <=> n \in 1 .. k /\ frames_[places[n]].value = f
  BY <1>7 DEF In
<1>9. \A i : i \in B <=> i \in chosen /\ frames_[i].value = f
  BY DEF At
<1>10. \A n \in 1 .. k : places[n] \in chosen
  OBVIOUS
<1>11. IsFiniteSet(A)
  BY InCount
<1>. HIDE DEF A, B, k
<1>12. Cardinality(B) = Cardinality(A)
  <2>1. F \in [A -> B]
    BY <1>8, <1>9, <1>10
  <2>2. \A m, n \in A : F[m] = F[n] => m = n
    BY <1>2, <1>8
  <2>3. \A i \in B : \E n \in A : F[n] = i
    BY <1>6, <1>8, <1>9
  <2>. HIDE DEF F
  <2>. QED
    BY <1>11, <2>1, <2>2, <2>3, SameCount
<1>. QED
  BY <1>12 DEF A, B

(* Nothing is pinned at first.                                             *)
LEMMA InitCInv == Init => CInv
<1>. SUFFICES ASSUME Init PROVE CInv
  OBVIOUS
<1>1. \A f \in Frame : pin_count[f] = 0
  BY DEF Init
<1>2. Handles = {} /\ victims = <<>>
  BY DEF Init, Handles
<1>3. \A f : To({}, f) = {}
  BY DEF To
<1>4. \A f : Cardinality(To(Handles, f)) = 0 /\ Cardinality(In(victims, f)) = 0
  BY <1>2, <1>3, InEmpty, FS_EmptySet
<1>. QED
  BY <1>1, <1>4 DEF CInv, Pinned

(* A step that changes no pins, no handles and no victims.                 *)
LEMMA SamePins ==
    ASSUME CInv, UNCHANGED <<pin_count, holds, victims, purged>>
    PROVE  CInv'
<1>1. Handles' = Handles
  BY SameHolds
<1>. QED
  BY <1>1 DEF CInv, Pinned, In

(* Until a frame is purged, every step changes the pins of a frame as it   *)
(* changes its owners. That unpin() reads the count and changes it in two  *)
(* steps does no harm, since the handle that is given up keeps the count   *)
(* up, and since nobody frees a frame another thread holds.                *)
LEMMA StepCInv == WInv /\ EInv /\ EInv' /\ CInv /\ [Next]_vars => CInv'
<1>. SUFFICES ASSUME WInv, EInv, EInv', CInv, [Next]_vars PROVE CInv'
  OBVIOUS
<1>0. /\ TypeOK /\ Control /\ PoolWhole /\ HeldOnce
      /\ KeysOnce(frames_) /\ IsFiniteSet(Handles)
  BY DEF WInv
<1>t. /\ frames_ \in Seq(Pairs(PageId, Frame))
      /\ frees \in Seq(Frame) /\ victims \in Seq(Frame)
      /\ pin_count \in [Frame -> Int]
      /\ holds \in [Thread -> SUBSET HoldSet]
      /\ \A t \in Thread : \A h \in holds[t] : h.id \in PageId /\ h.frame \in Frame
      /\ purged \in Nat
  BY <1>0, Types
<1>n. \A f : /\ Cardinality(To(Handles, f)) \in Nat
             /\ Cardinality(In(victims, f)) \in Nat
  BY <1>0, <1>t, ToCount, InCount
<1>1. ASSUME NEW t \in Thread, NEW id \in PageId, GetHit(t, id)
      PROVE  CInv'
  <2>. DEFINE f == ValueOf(frames_, id)
              h == Hold(id, f)
  <2>1. f \in Frame
    BY <1>0, <1>1, <1>t, CacheFound DEF GetHit
  <2>2. /\ pin_count' = [pin_count EXCEPT ![f] = @ + 1]
        /\ holds' = [holds EXCEPT ![t] = @ \cup {h}]
        /\ victims' = victims /\ purged' = purged /\ ~Holds(t, id)
    BY <1>1 DEF GetHit, Hold, MayAsk, history
  <2>3. h.id = id /\ h.frame = f
    BY HoldFields
  <2>. HIDE DEF f, h
  <2>4. Handles' = Handles \cup {<<t, h>>} /\ <<t, h>> \notin Handles
    BY <1>0, <2>2, <2>3, HandleAdded, HandlesAre DEF Holds
  <2>5. \A g : Cardinality(To(Handles', g)) =
                  Cardinality(To(Handles, g)) + (IF f = g THEN 1 ELSE 0)
    BY <1>0, <2>3, <2>4, ToAdd
  <2>6. \A g \in Frame : pin_count'[g] = pin_count[g] + (IF f = g THEN 1 ELSE 0)
    BY <1>t, <2>1, <2>2
  <2>. QED
    BY <1>t, <1>n, <2>2, <2>5, <2>6 DEF CInv, Pinned
<1>2. ASSUME NEW t \in Thread, NEW id \in PageId, GetMiss(t, id)
      PROVE  CInv'
  BY <1>2, SamePins DEF GetMiss, frame_vars, history
<1>3. ASSUME NEW t \in Thread, Alloc(t)
      PROVE  CInv'
  <2>. DEFINE f == Head(frees)
              h == Hold(arg[t].id, f)
  <2>1. /\ pc[t] = "miss" /\ MutexFree /\ frees # <<>>
        /\ pin_count' = [pin_count EXCEPT ![f] = 1]
        /\ holds' = [holds EXCEPT ![t] = @ \cup {h}]
        /\ victims' = victims /\ purged' = purged
    BY <1>3 DEF Alloc, Hold
  <2>2. f \in Frame /\ f \notin used
    BY <1>0, <1>t, <2>1, TailPlaces, SetOfTail DEF PoolWhole
  <2>3. h.frame = f /\ h.id = arg[t].id
    BY HoldFields
  <2>4. ~Holds(t, arg[t].id) /\ victims = <<>>
    BY <1>0, <2>1 DEF Control
  <2>. HIDE DEF f, h
  <2>5. Handles' = Handles \cup {<<t, h>>} /\ <<t, h>> \notin Handles
    BY <1>0, <2>1, <2>3, <2>4, HandleAdded, HandlesAre DEF Holds
  <2>6. \A g : Cardinality(To(Handles', g)) =
                  Cardinality(To(Handles, g)) + (IF f = g THEN 1 ELSE 0)
    BY <1>0, <2>3, <2>5, ToAdd
  <2>7. \A g \in Frame : pin_count'[g] = IF f = g THEN 1 ELSE pin_count[g]
    BY <1>t, <2>2, <2>1
  <2>. SUFFICES ASSUME purged = 0 PROVE Pinned'
    BY <2>1 DEF CInv
  <2>8. To(Handles, f) = {}
    <3>1. \A u \in Thread : \A g \in holds[u] : g.frame # f
      BY <2>2 DEF EInv, Handled
    <3>. QED
      BY <3>1, HandlesAre DEF To
  <2>9. Cardinality(To(Handles, f)) = 0
    BY <2>8, FS_EmptySet
  <2>10. \A g : Cardinality(In(victims, g)) = 0
    BY <2>4, InEmpty
  <2>. QED
    BY <1>t, <1>n, <2>1, <2>6, <2>7, <2>9, <2>10 DEF CInv, Pinned
<1>4. ASSUME NEW t \in Thread, AllocNone(t)
      PROVE  CInv'
  BY <1>4, SamePins DEF AllocNone, frame_vars, history
<1>5. ASSUME NEW t \in Thread, NEW pool, FindList(t, pool)
      PROVE  CInv'
  <2>. DEFINE hits == {i \in 1 .. Len(frames_) :
                          frame_id[frames_[i].value].buffer_pool_id = pool}
              new  == {Hold(frames_[i].key, frames_[i].value) : i \in hits}
  <2>1. /\ holds[t] = {} /\ victims' = victims /\ purged' = purged
        /\ holds' = [holds EXCEPT ![t] = new]
        /\ pin_count' = [f \in Frame |-> pin_count[f] + Cardinality(At(hits, f))]
    BY <1>5 DEF FindList, Hold, history, At
  <2>2. Handles' = Handles \cup {<<t, h>> : h \in new}
    BY <1>0, <2>1, HandlesGiven
  <2>3. Without(Handles, t)
    BY <2>1, HandlesAre DEF Without
  <2>4. hits \in SUBSET (1 .. Len(frames_))
    OBVIOUS
  <2>. DEFINE P == {<<t, h>> : h \in new}
  <2>. HIDE DEF hits
  <2>g. Given(t, hits, P)
    BY DEF Given
  <2>p. Handles' = Handles \cup P
    BY <2>2
  <2>. HIDE DEF P
  <2>5. \A f : Cardinality(To(Handles', f)) =
                  Cardinality(To(Handles, f)) + Cardinality(At(hits, f))
    <3>. SUFFICES ASSUME NEW f
                  PROVE  Cardinality(To(Handles', f)) =
                             Cardinality(To(Handles, f)) + Cardinality(At(hits, f))
      OBVIOUS
    <3>1. KeysOnce(frames_) /\ IsFiniteSet(Handles)
      BY <1>0
    <3>2. Cardinality(To(Handles \cup P, f)) =
              Cardinality(To(Handles, f)) + Cardinality(At(hits, f))
      BY <1>t, <2>3, <2>4, <2>g, <3>1, ToGiven
    <3>. QED
      BY <2>p, <3>2
  <2>6. \A f : Cardinality(At(hits, f)) \in Nat
    <3>1. \A f : At(hits, f) \in SUBSET (1 .. Len(frames_))
      BY <2>4 DEF At
    <3>. QED
      BY <1>t, <3>1, PlacesFinite
  <2>. HIDE DEF new
  <2>7. \A f \in Frame : pin_count'[f] = pin_count[f] + Cardinality(At(hits, f))
    BY <2>1
  <2>. QED
    BY <1>t, <1>n, <2>1, <2>5, <2>6, <2>7 DEF CInv, Pinned
<1>6. ASSUME NEW t \in Thread, NEW h \in holds[t], Free(t, h)
      PROVE  CInv'
  <2>1. /\ FreeInternal(h.id, h.frame) /\ MutexFree
        /\ holds' = [holds EXCEPT ![t] = @ \ {h}]
        /\ victims' = victims /\ purged' = purged
    BY <1>6 DEF Free, Ready, history
  <2>2. h.frame \in Frame /\ <<t, h>> \in Handles
    BY <1>t, HandlesAre
  <2>3. Handles' = Handles \ {<<t, h>>}
    BY <1>0, <2>1, HandleDropped
  <2>4. \A g : Cardinality(To(Handles', g)) =
                  Cardinality(To(Handles, g)) - (IF h.frame = g THEN 1 ELSE 0)
    BY <1>0, <2>2, <2>3, ToDrop
  <2>5. \A g \in Frame : pin_count'[g] = IF h.frame = g THEN 0 ELSE pin_count[g]
    BY <1>t, <2>1, <2>2 DEF FreeInternal
  <2>. SUFFICES ASSUME purged = 0 PROVE Pinned'
    BY <2>1 DEF CInv
  <2>6. used' = used \ {h.frame}
    BY <1>0, <2>1, <2>2, FreeInternalKeeps
  <2>7. To(Handles', h.frame) = {}
    <3>1. \A u \in Thread : \A g \in holds'[u] : g.frame \in used'
      BY <2>1 DEF EInv, Handled
    <3>2. \A x \in Handles' : x[2].frame \in used'
      BY <3>1 DEF Handles
    <3>. QED
      BY <2>6, <3>2 DEF To
  <2>8. Cardinality(To(Handles', h.frame)) = 0
    BY <2>7, FS_EmptySet
  <2>9. victims = <<>>
    BY <1>0, <2>1 DEF Control
  <2>10. \A g : Cardinality(In(victims, g)) = 0
    BY <2>9, InEmpty
  <2>11. ASSUME NEW g \in Frame
         PROVE  pin_count'[g] = Cardinality(To(Handles', g)) + Cardinality(In(victims', g))
    <3>1. pin_count[g] = Cardinality(To(Handles, g)) + Cardinality(In(victims, g))
      BY DEF CInv, Pinned
    <3>2. Cardinality(In(victims', g)) = 0 /\ Cardinality(In(victims, g)) = 0
      BY <2>1, <2>10
    <3>3. CASE h.frame = g
      BY <2>5, <2>8, <3>2, <3>3
    <3>4. CASE h.frame # g
      BY <1>n, <1>t, <2>4, <2>5, <3>1, <3>2, <3>4
    <3>. QED
      BY <3>3, <3>4
  <2>. QED
    BY <2>11 DEF Pinned
<1>7. ASSUME NEW t \in Thread, NEW h \in holds[t], UnpinCheck(t, h)
      PROVE  CInv'
  BY <1>7, SamePins DEF UnpinCheck, frame_vars, history
<1>8. ASSUME NEW t \in Thread, NEW h \in holds[t], UnpinNothing(t, h)
      PROVE  CInv'
  <2>1. /\ purged' = purged /\ pin_count[h.frame] <= 0
    BY <1>8 DEF UnpinNothing, history
  <2>2. h.frame \in Frame /\ <<t, h>> \in Handles
    BY <1>t, HandlesAre
  <2>. SUFFICES ASSUME purged = 0 PROVE FALSE
    BY <2>1 DEF CInv
  <2>3. To(Handles, h.frame) # {}
    BY <2>2 DEF To
  <2>4. Cardinality(To(Handles, h.frame)) # 0
    BY <1>0, <2>3, ToCount, FS_EmptySet
  <2>. QED
    BY <1>t, <1>n, <2>1, <2>2, <2>4 DEF CInv, Pinned
<1>9. ASSUME NEW t \in Thread, UnpinDecrement(t)
      PROVE  CInv'
  <2>. DEFINE h == arg[t]
  <2>1. /\ pin_count' = [pin_count EXCEPT ![h.frame] = @ - 1]
        /\ holds' = [holds EXCEPT ![t] = @ \ {h}]
        /\ victims' = victims /\ purged' = purged /\ pc[t] = "unpin"
    BY <1>9 DEF UnpinDecrement, history
  <2>2. h \in holds[t]
    BY <1>0, <2>1 DEF Control
  <2>. HIDE DEF h
  <2>3. h.frame \in Frame /\ <<t, h>> \in Handles
    BY <1>t, <2>2, HandlesAre
  <2>4. Handles' = Handles \ {<<t, h>>}
    BY <1>0, <2>1, HandleDropped
  <2>5. \A g : Cardinality(To(Handles', g)) =
                  Cardinality(To(Handles, g)) - (IF h.frame = g THEN 1 ELSE 0)
    BY <1>0, <2>3, <2>4, ToDrop
  <2>6. \A g \in Frame : pin_count'[g] = pin_count[g] - (IF h.frame = g THEN 1 ELSE 0)
    BY <1>t, <2>1, <2>3
  <2>. QED
    BY <1>t, <1>n, <2>1, <2>5, <2>6 DEF CInv, Pinned
<1>10. ASSUME NEW t \in Thread, NEW count \in PurgeCount, PurgeFind(t, count)
       PROVE  CInv'
  <2>. DEFINE chosen == Chosen(count)
  <2>1. /\ \E places \in [1 .. Cardinality(chosen) -> chosen] :
              /\ \A m, n \in DOMAIN places : m < n => places[m] > places[n]
              /\ victims' = [n \in DOMAIN places |-> frames_[places[n]].value]
        /\ pin_count' = [f \in Frame |-> pin_count[f] + Cardinality(At(chosen, f))]
        /\ holds' = holds /\ purged' = purged /\ MutexFree
    BY <1>10 DEF PurgeFind, Ready, history, At
  <2>2. chosen \in SUBSET (1 .. Len(frames_))
    BY DEF Chosen, Purgeable
  <2>. HIDE DEF chosen
  <2>3. victims' \in Seq(Frame)
    BY StepWInv DEF WInv, TypeOK
  <2>4. PICK places \in [1 .. Cardinality(chosen) -> chosen] :
            /\ \A m, n \in 1 .. Cardinality(chosen) : m < n => places[m] > places[n]
            /\ victims' = [n \in 1 .. Cardinality(chosen) |-> frames_[places[n]].value]
    BY <2>1
  <2>5. \A f : Cardinality(In(victims', f)) = Cardinality(At(chosen, f))
    BY <1>t, <2>2, <2>3, <2>4, InChosen
  <2>6. victims = <<>>
    BY <1>0, <2>1 DEF Control
  <2>7. \A f : Cardinality(In(victims, f)) = 0
    BY <2>6, InEmpty
  <2>8. Handles' = Handles
    BY <2>1, SameHolds
  <2>9. \A f \in Frame : pin_count'[f] = pin_count[f] + Cardinality(At(chosen, f))
    BY <2>1
  <2>. SUFFICES ASSUME purged = 0 PROVE Pinned'
    BY <2>1 DEF CInv
  <2>10. ASSUME NEW g \in Frame
         PROVE  pin_count'[g] = Cardinality(To(Handles', g)) + Cardinality(In(victims', g))
    <3>1. pin_count[g] = Cardinality(To(Handles, g)) + Cardinality(In(victims, g))
      BY DEF CInv, Pinned
    <3>2. pin_count[g] = Cardinality(To(Handles, g))
      BY <1>n, <2>7, <3>1
    <3>3. pin_count'[g] = Cardinality(To(Handles, g)) + Cardinality(In(victims', g))
      BY <2>5, <2>9, <3>2
    <3>. QED
      BY <2>8, <3>3
  <2>. QED
    BY <2>10 DEF Pinned
<1>11. ASSUME NEW t \in Thread, PurgeOne(t)
       PROVE  CInv'
  BY <1>t, <1>11 DEF PurgeOne, CInv
<1>12. ASSUME NEW t \in Thread, PurgeRefused(t)
       PROVE  CInv'
  <2>. DEFINE f == Head(victims)
  <2>1. /\ victims # <<>> /\ victims' = Tail(victims)
        /\ pin_count' = [pin_count EXCEPT ![f] = IF @ > 0 THEN @ - 1 ELSE @]
        /\ holds' = holds /\ purged' = purged
    BY <1>12 DEF PurgeRefused, history
  <2>2. f \in Frame /\ victims' \in Seq(Frame)
    BY <1>t, <2>1, TailPlaces
  <2>3. \A g : Cardinality(In(victims, g)) =
                  Cardinality(In(victims', g)) + (IF f = g THEN 1 ELSE 0)
    BY <1>t, <2>1, InTailCount
  <2>. HIDE DEF f
  <2>4. \A g : Cardinality(In(victims', g)) \in Nat
    BY <2>2, InCount
  <2>5. Handles' = Handles
    BY <2>1, SameHolds
  <2>. SUFFICES ASSUME purged = 0 PROVE Pinned'
    BY <2>1 DEF CInv
  <2>6. pin_count[f] > 0
    BY <1>t, <1>n, <2>2, <2>3, <2>4 DEF CInv, Pinned
  <2>7. \A g \in Frame : pin_count'[g] = pin_count[g] - (IF f = g THEN 1 ELSE 0)
    BY <1>t, <2>1, <2>2, <2>6
  <2>8. ASSUME NEW g \in Frame
        PROVE  pin_count'[g] = Cardinality(To(Handles', g)) + Cardinality(In(victims', g))
    <3>1. pin_count[g] = Cardinality(To(Handles, g)) + Cardinality(In(victims, g))
      BY DEF CInv, Pinned
    <3>2. pin_count'[g] = Cardinality(To(Handles, g)) + Cardinality(In(victims', g))
      BY <1>n, <2>3, <2>4, <2>7, <3>1
    <3>. QED
      BY <2>5, <3>2
  <2>. QED
    BY <2>8 DEF Pinned
<1>13. ASSUME NEW t \in Thread, PurgeDone(t)
       PROVE  CInv'
  BY <1>13, SamePins DEF PurgeDone, frame_vars, history
<1>14. CASE UNCHANGED vars
  BY <1>14, SamePins DEF vars
<1>. QED
  BY <1>1, <1>2, <1>3, <1>4, <1>5, <1>6, <1>7, <1>8, <1>9, <1>10, <1>11, <1>12, <1>13, <1>14
     DEF Next

-----------------------------------------------------------------------------
(* So all of it holds of every behaviour.                                  *)
LEMMA InvAlways == Spec => [](WInv /\ EInv /\ CInv)
<1>1. Init => WInv /\ EInv /\ CInv
  BY InitWInv, InitEInv, InitCInv
<1>2. (WInv /\ EInv /\ CInv) /\ [Next]_vars => (WInv /\ EInv /\ CInv)'
  BY StepWInv, StepEInv, StepCInv
<1>. QED
  BY <1>1, <1>2, PTL DEF Spec

(* Type correctness: the page numbers and pin counts stay numbers, and     *)
(* nobody holds nullptr, also after a purged frame stayed in the cache.    *)
THEOREM TypesKept == Spec => []TypeOK
<1>1. WInv => TypeOK
  BY DEF WInv
<1>. QED
  BY <1>1, InvAlways, PTL

(* allocator_ loses no frame and hands none out twice.                     *)
THEOREM PoolStaysWhole == Spec => []PoolPartition
<1>1. ASSUME WInv PROVE PoolPartition
  <2>1. TypeOK /\ PoolWhole
    BY <1>1 DEF WInv
  <2>2. frees \in Seq(Frame)
    BY <2>1, Types
  <2>3. \A f : f \in ToSet(frees) <=> \E i \in 1 .. Len(frees) : frees[i] = f
    BY <2>2, InSeq
  <2>4. \A i, j \in 1 .. Len(frees) : frees[i] = frees[j] => i = j
    BY <2>1, <2>2, InjectiveSeq DEF PoolWhole
  <2>. QED
    BY <2>1, <2>3, <2>4 DEF PoolPartition, PoolWhole
<1>2. WInv => PoolPartition
  BY <1>1
<1>. QED
  BY <1>2, InvAlways, PTL

(* Every pin has an owner, however unpin() and the methods interleave.     *)
THEOREM PinsHaveOwners == Spec => []PinsAreHandles
<1>1. CInv => PinsAreHandles
  BY DEF CInv, Pinned, PinsAreHandles, To, In
<1>. QED
  BY <1>1, InvAlways, PTL

(* As long as a thread holds a frame, the frame belongs to its page.       *)
THEOREM HeldFramesKeepPages == Spec => []HandleIsPage
<1>1. ASSUME WInv, EInv PROVE HandleIsPage
  <2>. SUFFICES ASSUME purged = 0, NEW x \in Handles
                PROVE  LET h == x[2]
                       IN  /\ h.frame \in used
                           /\ page_num[h.frame] = h.id.page_num
                           /\ frame_id[h.frame].buffer_pool_id = h.id.buffer_pool_id
                           /\ h.id \notin doubled =>
                                 Found(frames_, h.id) /\ ValueOf(frames_, h.id) = h.frame
    BY DEF HandleIsPage
  <2>0. PICK t \in Thread : \E h \in holds[t] : x = <<t, h>>
    BY HandlesAre
  <2>1. PICK h \in holds[t] : x = <<t, h>>
    BY <2>0
  <2>2. /\ h.frame \in used /\ PageOf(h.frame, h.id)
        /\ h.id \notin doubled => Pair(h.id, h.frame) \in ToSet(frames_)
    BY <1>1 DEF EInv, Handled
  <2>3. frames_ \in Seq(Pairs(PageId, Frame)) /\ KeysOnce(frames_)
    BY <1>1, Types DEF WInv
  <2>4. h.id \notin doubled => Found(frames_, h.id) /\ ValueOf(frames_, h.id) = h.frame
    BY <2>2, <2>3, CacheFound
  <2>5. x[2] = h
    BY <2>1
  <2>. QED
    BY <2>2, <2>4, <2>5 DEF PageOf
<1>2. WInv /\ EInv => HandleIsPage
  BY <1>1
<1>. QED
  BY <1>2, InvAlways, PTL

(* What allocator_ counts as used is what the cache can find.              *)
THEOREM NoFrameLeaks == Spec => []UsedAreFound
<1>1. ASSUME WInv, EInv PROVE UsedAreFound
  <2>. SUFFICES ASSUME purged = 0, doubled = {}
                PROVE  used = {frames_[i].value : i \in 1 .. Len(frames_)}
    BY DEF UsedAreFound
  <2>1. frames_ \in Seq(Pairs(PageId, Frame))
    BY <1>1, Types DEF WInv
  <2>2. \A e : e \in ToSet(frames_) <=> \E i \in 1 .. Len(frames_) : frames_[i] = e
    BY <2>1, InSeq
  <2>3. \A f : f \in used <=> \E e \in ToSet(frames_) : e.value = f
    BY <1>1 DEF EInv, Entered, Kept
  <2>4. \A f : f \in used <=> \E i \in 1 .. Len(frames_) : frames_[i].value = f
    BY <2>2, <2>3
  <2>. QED
    BY <2>4
<1>2. WInv /\ EInv => UsedAreFound
  BY <1>1
<1>. QED
  BY <1>2, InvAlways, PTL
=============================================================================
