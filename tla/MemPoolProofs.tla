--------------------------- MODULE MemPoolProofs ---------------------------
(***************************************************************************)
(* What holds of MemPool for any number of threads, pools, items per pool  *)
(* and stray calls of free().                                              *)
(*                                                                         *)
(* PoolsWhole is inductive in the form of WholePools, with the types and   *)
(* what a call's item may be (ArgTyped).  OwnContent speaks of the items a *)
(* thread has in hand; it needs the same of the item that is on its way to *)
(* a thread or back (OwnedAlone), and that no item is in hand and on its   *)
(* way at once (InHand).                                                   *)
(* FailsOnlyDry needs that whatever is in use is somebody's or clobbered.  *)
(***************************************************************************)
EXTENDS MemPool, DataLemmas

ArgTyped == \A t \in Thread : pc[t] \in {"wipe", "put", "stray"} => arg[t] \in Item

(* PoolsWhole, with Abandoned said pool by pool.                           *)
WholePools ==
    /\ Accounted \subseteq Pooled
    /\ \A i \in Accounted : \A j \in Item : j[1] = i[1] => j \in Accounted
    /\ kind = "simple" => Pooled \subseteq Accounted
    /\ used_ \cap ToSet(frees_) = {}
    /\ IsInjective(frees_)
    /\ size_ = Cardinality(Accounted)

WInv == TypeOK /\ ArgTyped /\ WholePools

-----------------------------------------------------------------------------
(* The items that n further pools append to frees_.                        *)
NewList(p, n) ==
    [k \in 1 .. n * ItemNum |-> <<p + 1 + ((k - 1) \div ItemNum), 1 + ((k - 1) % ItemNum)>>]
NewItems(p, n) == (p + 1 .. p + n) \X (1 .. ItemNum)

(* Every item of the new pools is in the list, once.                       *)
LEMMA NewListItems ==
    ASSUME NEW p \in Nat, NEW n \in Nat, p + n <= MaxPools
    PROVE  /\ NewList(p, n) \in Seq(Item)
           /\ IsInjective(NewList(p, n))
           /\ ToSet(NewList(p, n)) = NewItems(p, n)
<1>. DEFINE L == NewList(p, n)
<1>. USE ItemNumAssumption
<1>0. n * ItemNum \in Nat
  OBVIOUS
<1>1. \A k \in 1 .. n * ItemNum :
         \E a \in 0 .. n - 1, b \in 0 .. ItemNum - 1 :
            k = a * ItemNum + b + 1 /\ L[k] = <<p + 1 + a, 1 + b>>
  <2>. SUFFICES ASSUME NEW k \in 1 .. n * ItemNum
                PROVE  \E a \in 0 .. n - 1, b \in 0 .. ItemNum - 1 :
                          k = a * ItemNum + b + 1 /\ L[k] = <<p + 1 + a, 1 + b>>
    OBVIOUS
  <2>. DEFINE a == (k - 1) \div ItemNum
              b == (k - 1) % ItemNum
  <2>1. k - 1 \in Nat /\ k - 1 < n * ItemNum
    BY <1>0
  <2>2. a \in Nat /\ b \in 0 .. ItemNum - 1 /\ k - 1 = a * ItemNum + b
    BY <2>1, RowAndPlace
  <2>3. a < n
    BY <2>1, RowsBelow
  <2>4. L[k] = <<p + 1 + a, 1 + b>>
    BY DEF NewList
  <2>. HIDE DEF a, b, L
  <2>5. a * ItemNum \in Nat
    BY <2>2
  <2>6. a \in 0 .. n - 1 /\ k = a * ItemNum + b + 1
    BY <2>1, <2>2, <2>3, <2>5
  <2>. QED
    BY <2>2, <2>4, <2>6
<1>2. \A a \in 0 .. n - 1, b \in 0 .. ItemNum - 1 :
         /\ a * ItemNum + b + 1 \in 1 .. n * ItemNum
         /\ L[a * ItemNum + b + 1] = <<p + 1 + a, 1 + b>>
  <2>. SUFFICES ASSUME NEW a \in 0 .. n - 1, NEW b \in 0 .. ItemNum - 1
                PROVE  /\ a * ItemNum + b + 1 \in 1 .. n * ItemNum
                       /\ L[a * ItemNum + b + 1] = <<p + 1 + a, 1 + b>>
    OBVIOUS
  <2>. DEFINE k == a * ItemNum + b
  <2>0. a \in Nat
    OBVIOUS
  <2>1. k \in Nat /\ k \div ItemNum = a /\ k % ItemNum = b
    BY <2>0, RowAndPlace
  <2>. HIDE DEF k
  <2>2. k < n * ItemNum
    BY <2>1, RowsBelow
  <2>3. k + 1 \in 1 .. n * ItemNum /\ (k + 1) - 1 = k
    BY <1>0, <2>1, <2>2
  <2>4. L[k + 1] = <<p + 1 + a, 1 + b>>
    BY <2>1, <2>3 DEF NewList
  <2>. QED
    BY <2>3, <2>4 DEF k
<1>3. L \in [1 .. n * ItemNum -> Item]
  <2>. SUFFICES ASSUME NEW k \in 1 .. n * ItemNum PROVE L[k] \in Item
    BY DEF NewList
  <2>1. PICK a \in 0 .. n - 1, b \in 0 .. ItemNum - 1 : L[k] = <<p + 1 + a, 1 + b>>
    BY <1>1
  <2>2. p + 1 + a \in 1 .. MaxPools /\ 1 + b \in 1 .. ItemNum
    BY MaxPoolsAssumption
  <2>. QED
    BY <2>1, <2>2 DEF Item
<1>4. Len(L) = n * ItemNum /\ L \in Seq(Item)
  <2>. HIDE DEF L
  <2>. QED
    BY <1>0, <1>3
<1>. HIDE DEF L
<1>5. IsInjective(L)
  <2>. SUFFICES ASSUME NEW i \in 1 .. n * ItemNum, NEW j \in 1 .. n * ItemNum, L[i] = L[j]
                PROVE  i = j
    BY <1>4, InjectiveSeq
  <2>1. PICK a \in 0 .. n - 1, b \in 0 .. ItemNum - 1 :
              i = a * ItemNum + b + 1 /\ L[i] = <<p + 1 + a, 1 + b>>
    BY <1>1
  <2>2. PICK c \in 0 .. n - 1, d \in 0 .. ItemNum - 1 :
              j = c * ItemNum + d + 1 /\ L[j] = <<p + 1 + c, 1 + d>>
    BY <1>1
  <2>3. p + 1 + a = p + 1 + c /\ 1 + b = 1 + d
    BY <2>1, <2>2
  <2>4. a = c /\ b = d
    BY <2>3
  <2>. QED
    BY <2>1, <2>2, <2>4
<1>6. \A x : x \in ToSet(L) <=> \E k \in 1 .. n * ItemNum : L[k] = x
  BY <1>4, InSeq
<1>7. ASSUME NEW x \in ToSet(L) PROVE x \in NewItems(p, n)
  <2>0. PICK k \in 1 .. n * ItemNum : L[k] = x
    BY <1>6
  <2>1. PICK a \in 0 .. n - 1, b \in 0 .. ItemNum - 1 : x = <<p + 1 + a, 1 + b>>
    BY <1>1, <2>0
  <2>2. p + 1 + a \in p + 1 .. p + n /\ 1 + b \in 1 .. ItemNum
    OBVIOUS
  <2>. QED
    BY <2>1, <2>2 DEF NewItems
<1>8. ASSUME NEW u \in p + 1 .. p + n, NEW v \in 1 .. ItemNum PROVE <<u, v>> \in ToSet(L)
  <2>1. u - p - 1 \in 0 .. n - 1 /\ v - 1 \in 0 .. ItemNum - 1
        /\ p + 1 + (u - p - 1) = u /\ 1 + (v - 1) = v
    OBVIOUS
  <2>2. L[(u - p - 1) * ItemNum + (v - 1) + 1] = <<u, v>>
    BY <1>2, <2>1
  <2>. QED
    BY <1>2, <1>6, <2>1, <2>2
<1>9. ToSet(L) = NewItems(p, n)
  BY <1>7, <1>8 DEF NewItems
<1>. QED
  BY <1>4, <1>5, <1>9 DEF L

(* There are n * ItemNum of them.                                          *)
LEMMA NewItemsCount ==
    ASSUME NEW p \in Nat, NEW n \in Nat
    PROVE  IsFiniteSet(NewItems(p, n)) /\ Cardinality(NewItems(p, n)) = n * ItemNum
<1>. DEFINE A == p + 1 .. p + n
            B == 1 .. ItemNum
<1>1. /\ IsFiniteSet(A) /\ Cardinality(A) = n
      /\ IsFiniteSet(B) /\ Cardinality(B) = ItemNum
  BY FS_Interval, ItemNumAssumption
<1>2. NewItems(p, n) = A \X B
  BY DEF NewItems
<1>. HIDE DEF A, B
<1>. QED
  BY <1>1, <1>2, FS_Product

(* No set of items of the pools in use has more than Capacity elements.    *)
LEMMA ItemCount ==
    ASSUME NEW S \in SUBSET Item
    PROVE  IsFiniteSet(S) /\ Cardinality(S) \in 0 .. Capacity
<1>1. /\ IsFiniteSet(1 .. MaxPools) /\ Cardinality(1 .. MaxPools) = MaxPools
      /\ IsFiniteSet(1 .. ItemNum) /\ Cardinality(1 .. ItemNum) = ItemNum
  BY FS_Interval, ItemNumAssumption, MaxPoolsAssumption
<1>2. IsFiniteSet(Item) /\ Cardinality(Item) = Capacity
  BY <1>1, FS_Product DEF Item, Capacity
<1>3. IsFiniteSet(S) /\ Cardinality(S) <= Cardinality(Item)
  BY <1>2, FS_Subset
<1>. QED
  BY <1>2, <1>3, FS_CardinalityType

-----------------------------------------------------------------------------
(* The three ways in which used_ and frees_ change.                        *)

(* What the account is made of.                                            *)
Books == <<used_, frees_, pools_, size_, kind>>

(* A step that touches neither keeps the account.                          *)
LEMMA SameBooks ==
    ASSUME WholePools, UNCHANGED Books
    PROVE  WholePools'
  BY DEF WholePools, Books, Accounted, Pooled

(* alloc(): the front of frees_ was not in use, and is accounted for still.*)
LEMMA TakeFrontKeeps ==
    ASSUME TypeOK, WholePools, TakeFront, UNCHANGED <<pools_, size_, kind>>
    PROVE  /\ used_' \subseteq Item /\ frees_' \in Seq(Item)
           /\ Head(frees_) \in Item /\ Head(frees_) \notin used_
           /\ Accounted' = Accounted
           /\ WholePools'
<1>1. frees_ \in Seq(Item) /\ frees_ # <<>> /\ used_ \subseteq Item
      /\ frees_' = Tail(frees_) /\ used_' = used_ \cup {Head(frees_)}
  BY DEF TypeOK, TakeFront
<1>2. /\ Head(frees_) \in Item /\ Tail(frees_) \in Seq(Item)
      /\ ToSet(frees_) = ToSet(Tail(frees_)) \cup {Head(frees_)}
  BY <1>1, TailPlaces, SetOfTail
<1>3. IsInjective(Tail(frees_)) /\ Head(frees_) \notin ToSet(Tail(frees_))
  BY <1>1, InjectiveTail DEF WholePools
<1>4. Accounted' = Accounted
  BY <1>1, <1>2 DEF Accounted
<1>5. used_' \cap ToSet(frees_') = {} /\ IsInjective(frees_') /\ Head(frees_) \notin used_
  BY <1>1, <1>2, <1>3 DEF WholePools
<1>6. Pooled' = Pooled
  BY DEF Pooled
<1>. QED
  BY <1>1, <1>2, <1>4, <1>5, <1>6 DEF WholePools

(* free(): what was in use gets free, what was not stays as it is.         *)
LEMMA PutBackKeeps ==
    ASSUME TypeOK, WholePools, NEW i, PutBack(i), UNCHANGED <<pools_, size_, kind>>
    PROVE  /\ used_' = used_ \ {i} /\ frees_' \in Seq(Item)
           /\ Accounted' = Accounted
           /\ WholePools'
<1>1. CASE i \notin used_
  <2>1. UNCHANGED <<used_, frees_>>
    BY <1>1 DEF PutBack
  <2>. QED
    BY <1>1, <2>1, SameBooks DEF Books, Accounted, TypeOK
<1>2. CASE i \in used_
  <2>1. frees_ \in Seq(Item) /\ i \in Item /\ used_ \subseteq Item
        /\ frees_' = Append(frees_, i) /\ used_' = used_ \ {i}
        /\ i \notin ToSet(frees_)
    BY <1>2 DEF TypeOK, PutBack, WholePools
  <2>2. frees_' \in Seq(Item) /\ ToSet(frees_') = ToSet(frees_) \cup {i}
    BY <2>1, SetOfAppend
  <2>3. IsInjective(frees_')
    BY <2>1, InjectiveAppend DEF WholePools
  <2>4. Accounted' = Accounted
    BY <1>2, <2>1, <2>2 DEF Accounted
  <2>5. used_' \cap ToSet(frees_') = {}
    BY <2>1, <2>2 DEF WholePools
  <2>6. Pooled' = Pooled
    BY DEF Pooled
  <2>. QED
    BY <2>1, <2>2, <2>3, <2>4, <2>5, <2>6 DEF WholePools
<1>. QED
  BY <1>1, <1>2

(* extend(): the new items are free, and what was there is not touched.    *)
LEMMA NewPoolsKeep ==
    ASSUME TypeOK, WholePools, NEW n \in Nat, NewPools(n), UNCHANGED <<used_, kind>>
    PROVE  /\ pools_' \in 0 .. MaxPools /\ pools_ <= pools_'
           /\ frees_' \in Seq(Item) /\ size_' \in 0 .. Capacity
           /\ content' \in [Item -> {"raw", "clean"} \cup Thread]
           /\ \A i \in Pooled : content'[i] = content[i]
           /\ WholePools'
<1>. DEFINE L == NewList(pools_, n)
            New == NewItems(pools_, n)
<1>1. pools_ \in Nat /\ pools_ + n <= MaxPools /\ pools_' = pools_ + n
      /\ size_' = size_ + n * ItemNum /\ frees_' = frees_ \o L
      /\ frees_ \in Seq(Item) /\ used_ \subseteq Item /\ used_' = used_ /\ kind' = kind
  BY DEF TypeOK, NewPools, NewList
<1>2. L \in Seq(Item) /\ IsInjective(L) /\ ToSet(L) = New
  BY <1>1, NewListItems
<1>3. IsFiniteSet(New) /\ Cardinality(New) = n * ItemNum
  BY <1>1, NewItemsCount
<1>4. New = {i \in Item : i[1] > pools_ /\ i[1] <= pools_ + n}
  BY <1>1, MaxPoolsAssumption DEF NewItems, Item
<1>. HIDE DEF L, New
<1>5. frees_' \in Seq(Item) /\ ToSet(frees_') = ToSet(frees_) \cup New
  BY <1>1, <1>2, SetOfConcat
<1>6. Accounted' = Accounted \cup New
  BY <1>1, <1>5 DEF Accounted
<1>7. Accounted \subseteq Item /\ Accounted \cap New = {}
  BY <1>1, <1>4 DEF WholePools, Pooled, Item
<1>8. IsInjective(frees_')
  <2>1. ToSet(frees_) \cap ToSet(L) = {}
    BY <1>2, <1>7 DEF Accounted
  <2>. QED
    BY <1>1, <1>2, <2>1, InjectiveConcat DEF WholePools
<1>9. used_' \cap ToSet(frees_') = {}
  BY <1>1, <1>5, <1>7 DEF WholePools, Accounted
<1>10. size_' = Cardinality(Accounted')
  <2>1. IsFiniteSet(Accounted) /\ Cardinality(Accounted) \in Nat
    BY <1>7, ItemCount
  <2>2. Cardinality(Accounted \cup New) = Cardinality(Accounted) + Cardinality(New) - Cardinality({})
    BY <1>3, <1>7, <2>1, FS_Union
  <2>3. Cardinality({}) = 0 /\ n * ItemNum \in Nat
    BY FS_EmptySet, ItemNumAssumption
  <2>. QED
    BY <1>1, <1>3, <1>6, <2>1, <2>2, <2>3 DEF WholePools
<1>11. size_' \in 0 .. Capacity
  <2>1. Accounted' \in SUBSET Item
    BY <1>4, <1>6, <1>7
  <2>. QED
    BY <1>10, <2>1, ItemCount
<1>12. Pooled' = Pooled \cup New
  BY <1>1, <1>4 DEF Pooled, Item
<1>13. \A i \in Accounted' : \A j \in Item : j[1] = i[1] => j \in Accounted'
  BY <1>4, <1>6 DEF WholePools
<1>14. kind' = "simple" => Pooled' \subseteq Accounted'
  BY <1>1, <1>6, <1>12 DEF WholePools
<1>15. Accounted' \subseteq Pooled'
  BY <1>6, <1>12 DEF WholePools
<1>16. /\ content' \in [Item -> {"raw", "clean"} \cup Thread]
       /\ \A i \in Pooled : content'[i] = content[i]
  <2>1. content' = [i \in Item |->
          IF i[1] \in pools_ + 1 .. pools_ + n /\ kind = "simple" THEN "clean" ELSE content[i]]
    BY DEF NewPools
  <2>2. \A i \in Pooled : i \in Item /\ ~(i[1] \in pools_ + 1 .. pools_ + n)
    BY <1>1 DEF Pooled, Item
  <2>. QED
    BY <2>1, <2>2 DEF TypeOK
<1>17. WholePools'
  BY <1>8, <1>9, <1>10, <1>13, <1>14, <1>15 DEF WholePools
<1>. QED
  BY <1>1, <1>5, <1>11, <1>16, <1>17

-----------------------------------------------------------------------------
(* Types, and the account of the items.                                    *)

(* It holds before init().                                                 *)
LEMMA InitWInv == Init => WInv
<1>. SUFFICES ASSUME Init PROVE WInv
  OBVIOUS
<1>0. Capacity \in Nat
  BY ItemNumAssumption, MaxPoolsAssumption DEF Capacity
<1>1. TypeOK
  <2>1. <<>> \in Seq(Item) /\ 0 \in 0 .. Capacity /\ 0 \in 0 .. MaxPools /\ 0 \in 0 .. MaxStray
    BY <1>0, MaxPoolsAssumption, MaxStrayAssumption
  <2>2. /\ content \in [Item -> {"raw", "clean"} \cup Thread]
        /\ pc \in [Thread -> {"idle", "wipe", "put", "stray", "null", "throw"}]
        /\ arg \in [Thread -> Item \cup {NoItem}]
        /\ holds \in [Thread -> SUBSET Item]
    BY DEF Init
  <2>3. /\ kind \in {"simple", "item"} /\ dynamic_ \in BOOLEAN
        /\ used_ \subseteq Item /\ clobbered \subseteq Item
        /\ pools_ = 0 /\ frees_ = <<>> /\ size_ = 0 /\ strays = 0
    BY DEF Init
  <2>. QED
    BY <2>1, <2>2, <2>3 DEF TypeOK
<1>2. ArgTyped
  BY DEF Init, ArgTyped
<1>3. ToSet(frees_) = {} /\ IsInjective(frees_)
  <2>1. frees_ = <<>> /\ frees_ \in Seq(Item)
    BY DEF Init
  <2>. QED
    BY <2>1, InSeq, InjectiveSeq
<1>4. Accounted = {} /\ Pooled = {}
  BY <1>3 DEF Init, Accounted, Pooled, Item
<1>5. WholePools
  BY <1>3, <1>4, FS_EmptySet DEF Init, WholePools
<1>. QED
  BY <1>1, <1>2, <1>5 DEF WInv

(* One step: each action with what it does to the account.                 *)
LEMMA StepWInv == WInv /\ [Next]_vars => WInv'
<1>. SUFFICES ASSUME WInv, [Next]_vars PROVE WInv'
  OBVIOUS
<1>0. TypeOK /\ ArgTyped /\ WholePools
  BY DEF WInv
<1>1. ASSUME NEW n \in PoolNum, NEW dynamic \in BOOLEAN, InitPool(n, dynamic)
      PROVE  WInv'
  <2>1. n \in Nat
    BY <1>1, PoolNumAssumption DEF InitPool
  <2>2. /\ pools_' \in 0 .. MaxPools /\ frees_' \in Seq(Item) /\ size_' \in 0 .. Capacity
        /\ content' \in [Item -> {"raw", "clean"} \cup Thread]
        /\ WholePools'
    BY <1>0, <1>1, <2>1, NewPoolsKeep DEF InitPool
  <2>3. TypeOK' /\ ArgTyped'
    BY <1>0, <1>1, <2>2 DEF InitPool, TypeOK, ArgTyped, thread_vars, history_vars
  <2>. QED
    BY <2>2, <2>3 DEF WInv
<1>2. ASSUME NEW t \in Thread, Extend(t)
      PROVE  WInv'
  <2>1. /\ pools_' \in 0 .. MaxPools /\ frees_' \in Seq(Item) /\ size_' \in 0 .. Capacity
        /\ content' \in [Item -> {"raw", "clean"} \cup Thread]
        /\ WholePools'
    BY <1>0, <1>2, NewPoolsKeep DEF Extend
  <2>2. TypeOK' /\ ArgTyped'
    BY <1>0, <1>2, <2>1 DEF Extend, TypeOK, ArgTyped, thread_vars, history_vars
  <2>. QED
    BY <2>1, <2>2 DEF WInv
<1>3. ASSUME NEW t \in Thread, AllocTake(t)
      PROVE  WInv'
  <2>1. used_' \subseteq Item /\ frees_' \in Seq(Item) /\ Head(frees_) \in Item /\ WholePools'
    BY <1>0, <1>3, TakeFrontKeeps DEF AllocTake
  <2>2. TypeOK' /\ ArgTyped'
    BY <1>0, <1>3, <2>1 DEF AllocTake, TypeOK, ArgTyped, Goto, history_vars
  <2>. QED
    BY <2>1, <2>2 DEF WInv
<1>4. ASSUME NEW t \in Thread, AllocDry(t)
      PROVE  WInv'
  <2>1. WholePools'
    BY <1>0, <1>4, SameBooks DEF AllocDry, Books, pool_vars
  <2>2. TypeOK' /\ ArgTyped'
    BY <1>0, <1>4 DEF AllocDry, TypeOK, ArgTyped, Goto, pool_vars, history_vars
  <2>. QED
    BY <2>1, <2>2 DEF WInv
<1>5. ASSUME NEW t \in Thread, AllocFails(t)
      PROVE  WInv'
  <2>1. WholePools'
    BY <1>0, <1>5, SameBooks DEF AllocFails, Books, pool_vars
  <2>2. TypeOK' /\ ArgTyped'
    BY <1>0, <1>5 DEF AllocFails, TypeOK, ArgTyped, Goto, pool_vars, history_vars
  <2>. QED
    BY <2>1, <2>2 DEF WInv
<1>6. ASSUME NEW t \in Thread, AllocWipe(t)
      PROVE  WInv'
  <2>1. WholePools'
    BY <1>0, <1>6, SameBooks DEF AllocWipe, Books, pool_vars
  <2>2. arg[t] \in Item
    BY <1>0, <1>6 DEF AllocWipe, ArgTyped
  <2>3. TypeOK' /\ ArgTyped'
    BY <1>0, <1>6, <2>2 DEF AllocWipe, TypeOK, ArgTyped, Goto, pool_vars, history_vars
  <2>. QED
    BY <2>1, <2>3 DEF WInv
<1>7. ASSUME NEW t \in Thread, NEW i \in Item, Write(t, i)
      PROVE  WInv'
  <2>1. WholePools'
    BY <1>0, <1>7, SameBooks DEF Write, Books, pool_vars
  <2>2. TypeOK' /\ ArgTyped'
    BY <1>0, <1>7 DEF Write, TypeOK, ArgTyped, pool_vars, thread_vars, history_vars
  <2>. QED
    BY <2>1, <2>2 DEF WInv
<1>8. ASSUME NEW t \in Thread, NEW i \in Item, FreeReset(t, i)
      PROVE  WInv'
  <2>1. WholePools'
    BY <1>0, <1>8, SameBooks DEF FreeReset, Books, pool_vars
  <2>2. TypeOK' /\ ArgTyped'
    BY <1>0, <1>8 DEF FreeReset, Reset, TypeOK, ArgTyped, Goto, pool_vars, history_vars
  <2>. QED
    BY <2>1, <2>2 DEF WInv
<1>9. ASSUME NEW t \in Thread, NEW i \in Item, FreeStray(t, i)
      PROVE  WInv'
  <2>1. WholePools'
    BY <1>0, <1>9, SameBooks DEF FreeStray, Books, pool_vars
  <2>2. strays' \in 0 .. MaxStray /\ clobbered' \subseteq Item
    BY <1>0, <1>9, MaxStrayAssumption DEF FreeStray, TypeOK
  <2>3. TypeOK' /\ ArgTyped'
    BY <1>0, <1>9, <2>2 DEF FreeStray, Reset, TypeOK, ArgTyped, Goto, pool_vars
  <2>. QED
    BY <2>1, <2>3 DEF WInv
<1>10. ASSUME NEW t \in Thread, FreePut(t)
       PROVE  WInv'
  <2>1. used_' = used_ \ {arg[t]} /\ frees_' \in Seq(Item) /\ WholePools'
    BY <1>0, <1>10, PutBackKeeps DEF FreePut
  <2>2. arg[t] \in Item
    BY <1>0, <1>10 DEF FreePut, ArgTyped
  <2>3. TypeOK' /\ ArgTyped'
    BY <1>0, <1>10, <2>1, <2>2 DEF FreePut, TypeOK, ArgTyped, Goto
  <2>. QED
    BY <2>1, <2>3 DEF WInv
<1>11. ASSUME Clear, UNCHANGED <<kind, dynamic_, content, thread_vars, strays>>,
              \/ kind = "simple" /\ pools_' = 0
              \/ kind = "item" /\ pools_' = pools_
       PROVE  WInv'
  <2>1. frees_' \in Seq(Item) /\ frees_' = <<>> /\ used_' = {} /\ size_' = 0 /\ clobbered' = {}
    BY <1>11 DEF Clear
  <2>2. ToSet(frees_') = {} /\ IsInjective(frees_')
    BY <2>1, InSeq, InjectiveSeq
  <2>3. Accounted' = {}
    BY <2>1, <2>2 DEF Accounted
  <2>4. kind' = "simple" => Pooled' = {}
    BY <1>11 DEF Pooled, Item
  <2>5. WholePools'
    BY <2>1, <2>2, <2>3, <2>4, FS_EmptySet DEF WholePools
  <2>6. pools_' \in 0 .. MaxPools /\ size_' \in 0 .. Capacity
    BY <1>0, <1>11, <2>1, ItemNumAssumption, MaxPoolsAssumption DEF TypeOK, Capacity
  <2>7. TypeOK' /\ ArgTyped'
    BY <1>0, <1>11, <2>1, <2>6 DEF TypeOK, ArgTyped, thread_vars
  <2>. QED
    BY <2>5, <2>7 DEF WInv
<1>12. CASE UNCHANGED vars
  <2>1. WholePools'
    BY <1>0, <1>12, SameBooks DEF vars, Books, pool_vars
  <2>2. TypeOK' /\ ArgTyped'
    BY <1>0, <1>12 DEF vars, TypeOK, ArgTyped, pool_vars, thread_vars, history_vars
  <2>. QED
    BY <2>1, <2>2 DEF WInv
<1>. QED
  BY <1>1, <1>2, <1>3, <1>4, <1>5, <1>6, <1>7, <1>8, <1>9, <1>10, <1>11, <1>12
     DEF Next, Cleanup, CleanupThrows

-----------------------------------------------------------------------------
(* Who has what.                                                           *)

(* An item in hand or on its way, unless a stray free() took it, is in use *)
(* and nobody else's.                                                      *)
OwnedAlone ==
    \A t \in Thread : \A i \in Owned(t) \ clobbered :
        i \in used_ /\ \A u \in Thread \ {t} : i \notin Owned(u)

(* What is in hand was written by its owner, and is not on its way.        *)
InHand ==
    \A t \in Thread : \A i \in holds[t] \ clobbered :
        /\ content[i] \in {"clean", t}
        /\ pc[t] \in {"wipe", "put"} => arg[t] # i

(* Nothing leaks: what is in use is somebody's, or was clobbered.          *)
UsedIsOwned == used_ \subseteq AllOwned \cup clobbered

OInv == OwnedAlone /\ InHand /\ UsedIsOwned

(* It holds before init().                                                 *)
LEMMA InitOInv == Init => OInv
  BY DEF Init, OInv, OwnedAlone, InHand, UsedIsOwned, Owned

(* Nothing of it depends on anything else.                                 *)
OwnVars == <<used_, content, pc, arg, holds, clobbered>>

(* A step that touches neither items nor threads keeps the owners.         *)
LEMMA SameOwners ==
    ASSUME OInv, UNCHANGED OwnVars
    PROVE  OInv'
  BY DEF OInv, OwnedAlone, InHand, UsedIsOwned, Owned, AllOwned, OwnVars

(* x is somebody's.                                                        *)
LEMMA InAllOwned == \A x : x \in AllOwned <=> \E t \in Thread : x \in Owned(t)
  BY DEF AllOwned

(* One step of any actor leaves every item with one owner at most.         *)
LEMMA StepOInv == WInv /\ OInv /\ [Next]_vars => OInv'
<1>. SUFFICES ASSUME WInv, OInv, [Next]_vars PROVE OInv'
  OBVIOUS
<1>0. TypeOK /\ ArgTyped /\ WholePools /\ OwnedAlone /\ InHand /\ UsedIsOwned
  BY DEF WInv, OInv
<1>1. ASSUME Quiet, UNCHANGED thread_vars, used_' \subseteq clobbered'
      PROVE  OInv'
  <2>1. \A t \in Thread : Owned(t) = {} /\ holds[t] = {}
    BY <1>1, InAllOwned DEF Quiet, Owned
  <2>2. \A t \in Thread : Owned(t)' = {} /\ holds'[t] = {}
    BY <1>1, <2>1 DEF Owned, thread_vars
  <2>. QED
    BY <1>1, <2>2 DEF OInv, OwnedAlone, InHand, UsedIsOwned
<1>2. ASSUME NEW n \in PoolNum, NEW dynamic \in BOOLEAN, InitPool(n, dynamic)
      PROVE  OInv'
  <2>1. used_ \subseteq clobbered
    BY <1>0, <1>2 DEF InitPool, Quiet, UsedIsOwned
  <2>. QED
    BY <1>1, <1>2, <2>1 DEF InitPool, history_vars
<1>3. CASE Cleanup \/ CleanupThrows
  BY <1>1, <1>3 DEF Cleanup, CleanupThrows, Clear
<1>4. ASSUME NEW t \in Thread, Extend(t)
      PROVE  OInv'
  <2>1. /\ \A i \in Pooled : content'[i] = content[i]
        /\ UNCHANGED <<used_, pc, arg, holds, clobbered>>
    BY <1>0, <1>4, NewPoolsKeep DEF Extend, thread_vars, history_vars
  <2>2. used_ \subseteq Pooled
    BY <1>0 DEF WholePools, Accounted
  <2>3. \A u \in Thread : Owned(u)' = Owned(u)
    BY <2>1 DEF Owned
  <2>4. AllOwned' = AllOwned
    BY <2>3 DEF AllOwned
  <2>5. OwnedAlone'
    BY <1>0, <2>1, <2>3 DEF OwnedAlone
  <2>6. \A u \in Thread : \A i \in holds[u] \ clobbered : content'[i] = content[i]
    BY <1>0, <2>1, <2>2 DEF OwnedAlone, Owned
  <2>7. InHand'
    BY <1>0, <2>1, <2>6 DEF InHand
  <2>. QED
    BY <1>0, <2>1, <2>4, <2>5, <2>7 DEF OInv, UsedIsOwned
<1>5. ASSUME NEW t \in Thread, AllocTake(t)
      PROVE  OInv'
  <2>. DEFINE h == Head(frees_)
  <2>1. h \in Item /\ h \notin used_ /\ used_' = used_ \cup {h}
        /\ pc[t] = "idle" /\ UNCHANGED <<content, holds, clobbered>>
        /\ Goto(t, "wipe", h)
    BY <1>0, <1>5, TakeFrontKeeps DEF AllocTake, TakeFront, history_vars
  <2>. HIDE DEF h
  <2>2. Owned(t)' = Owned(t) \cup {h} /\ pc'[t] = "wipe" /\ arg'[t] = h
    BY <1>0, <2>1 DEF TypeOK, Goto, Owned
  <2>3. \A u \in Thread \ {t} : Owned(u)' = Owned(u) /\ pc'[u] = pc[u] /\ arg'[u] = arg[u]
    BY <1>0, <2>1 DEF TypeOK, Goto, Owned
  <2>4. \A u \in Thread : h \in Owned(u) => h \in clobbered
    BY <1>0, <2>1 DEF OwnedAlone
  <2>5. OwnedAlone'
    BY <1>0, <2>1, <2>2, <2>3, <2>4 DEF OwnedAlone
  <2>6. InHand'
    <3>1. \A u \in Thread : h \in holds[u] => h \in clobbered
      BY <2>4 DEF Owned
    <3>. QED
      BY <1>0, <2>1, <2>2, <2>3, <3>1 DEF InHand
  <2>7. UsedIsOwned'
    <3>1. AllOwned' = AllOwned \cup {h}
      BY <2>2, <2>3 DEF AllOwned
    <3>. QED
      BY <1>0, <2>1, <3>1 DEF UsedIsOwned
  <2>. QED
    BY <2>5, <2>6, <2>7 DEF OInv
<1>6. ASSUME NEW t \in Thread, AllocDry(t) \/ AllocFails(t)
      PROVE  OInv'
  <2>1. /\ UNCHANGED <<used_, content, holds, clobbered>>
        /\ pc[t] \notin {"wipe", "put"} /\ pc'[t] \notin {"wipe", "put"}
        /\ \A u \in Thread \ {t} : pc'[u] = pc[u] /\ arg'[u] = arg[u]
    BY <1>0, <1>6 DEF AllocDry, AllocFails, Goto, TypeOK, pool_vars, history_vars
  <2>2. \A u \in Thread : Owned(u)' = Owned(u)
    BY <2>1 DEF Owned
  <2>3. AllOwned' = AllOwned
    BY <2>2 DEF AllOwned
  <2>4. OwnedAlone'
    BY <1>0, <2>1, <2>2 DEF OwnedAlone
  <2>5. InHand'
    BY <1>0, <2>1 DEF InHand
  <2>. QED
    BY <1>0, <2>1, <2>3, <2>4, <2>5 DEF OInv, UsedIsOwned
<1>7. ASSUME NEW t \in Thread, AllocWipe(t)
      PROVE  OInv'
  <2>1. /\ pc[t] = "wipe" /\ arg[t] \in Item /\ arg[t] \in Owned(t)
        /\ UNCHANGED <<used_, clobbered>>
        /\ content' = [content EXCEPT ![arg[t]] = "clean"]
    BY <1>0, <1>7 DEF AllocWipe, ArgTyped, Owned, pool_vars, history_vars
  <2>2. /\ holds'[t] = holds[t] \cup {arg[t]} /\ pc'[t] = "idle"
        /\ \A u \in Thread \ {t} : holds'[u] = holds[u] /\ pc'[u] = pc[u] /\ arg'[u] = arg[u]
    BY <1>0, <1>7 DEF AllocWipe, Goto, TypeOK
  <2>3. \A u \in Thread : Owned(u)' = Owned(u)
    BY <2>1, <2>2 DEF Owned
  <2>4. AllOwned' = AllOwned
    BY <2>3 DEF AllOwned
  <2>5. OwnedAlone'
    BY <1>0, <2>1, <2>3 DEF OwnedAlone
  <2>6. \A i \in Item : content'[i] \in {content[i], "clean"}
    BY <1>0, <2>1 DEF TypeOK
  <2>7. content'[arg[t]] = "clean"
    BY <1>0, <2>1 DEF TypeOK
  <2>8. \A u \in Thread : holds[u] \subseteq Item
    BY <1>0 DEF TypeOK
  <2>9. InHand'
    BY <1>0, <2>1, <2>2, <2>6, <2>7, <2>8 DEF InHand
  <2>. QED
    BY <1>0, <2>1, <2>4, <2>5, <2>9 DEF OInv, UsedIsOwned
<1>8. ASSUME NEW t \in Thread, NEW i \in Item, Write(t, i)
      PROVE  OInv'
  <2>1. /\ i \in holds[t] /\ content' = [content EXCEPT ![i] = t]
        /\ UNCHANGED <<used_, pc, arg, holds, clobbered>>
    BY <1>8 DEF Write, pool_vars, thread_vars, history_vars
  <2>2. \A u \in Thread : Owned(u)' = Owned(u)
    BY <2>1 DEF Owned
  <2>3. AllOwned' = AllOwned
    BY <2>2 DEF AllOwned
  <2>4. OwnedAlone'
    BY <1>0, <2>1, <2>2 DEF OwnedAlone
  <2>5. content'[i] = t /\ \A j \in Item \ {i} : content'[j] = content[j]
    BY <1>0, <2>1 DEF TypeOK
  <2>6. \A u \in Thread \ {t} : i \in holds[u] => i \in clobbered
    BY <1>0, <2>1 DEF OwnedAlone, Owned
  <2>7. \A u \in Thread : holds[u] \subseteq Item
    BY <1>0 DEF TypeOK
  <2>8. InHand'
    BY <1>0, <2>1, <2>5, <2>6, <2>7 DEF InHand
  <2>. QED
    BY <1>0, <2>1, <2>3, <2>4, <2>8 DEF OInv, UsedIsOwned
<1>9. ASSUME NEW t \in Thread, NEW i \in Item, FreeReset(t, i)
      PROVE  OInv'
  <2>1. /\ pc[t] = "idle" /\ i \in holds[t] /\ UNCHANGED <<used_, clobbered>>
        /\ \A j \in Item : content'[j] \in {content[j], "clean"}
    BY <1>0, <1>9 DEF FreeReset, Reset, TypeOK, pool_vars, history_vars
  <2>2. /\ holds'[t] = holds[t] \ {i} /\ pc'[t] = "put" /\ arg'[t] = i
        /\ \A u \in Thread \ {t} : holds'[u] = holds[u] /\ pc'[u] = pc[u] /\ arg'[u] = arg[u]
    BY <1>0, <1>9 DEF FreeReset, Goto, TypeOK
  <2>3. \A u \in Thread : Owned(u)' = Owned(u)
    BY <2>1, <2>2 DEF Owned
  <2>4. AllOwned' = AllOwned
    BY <2>3 DEF AllOwned
  <2>5. OwnedAlone'
    BY <1>0, <2>1, <2>3 DEF OwnedAlone
  <2>6. \A u \in Thread : holds[u] \subseteq Item
    BY <1>0 DEF TypeOK
  <2>7. InHand'
    BY <1>0, <2>1, <2>2, <2>6 DEF InHand
  <2>. QED
    BY <1>0, <2>1, <2>4, <2>5, <2>7 DEF OInv, UsedIsOwned
<1>10. ASSUME NEW t \in Thread, NEW i \in Item, FreeStray(t, i)
       PROVE  OInv'
  <2>1. /\ pc[t] = "idle" /\ UNCHANGED <<used_, holds>> /\ clobbered \subseteq clobbered'
        /\ \A j \in Item : content'[j] \in {content[j], "clean"}
    BY <1>0, <1>10 DEF FreeStray, Reset, TypeOK, pool_vars
  <2>2. /\ pc'[t] = "stray"
        /\ \A u \in Thread \ {t} : pc'[u] = pc[u] /\ arg'[u] = arg[u]
    BY <1>0, <1>10 DEF FreeStray, Goto, TypeOK
  <2>3. \A u \in Thread : Owned(u)' = Owned(u)
    BY <2>1, <2>2 DEF Owned
  <2>4. AllOwned' = AllOwned
    BY <2>3 DEF AllOwned
  <2>5. OwnedAlone'
    BY <1>0, <2>1, <2>3 DEF OwnedAlone
  <2>6. \A u \in Thread : holds[u] \subseteq Item
    BY <1>0 DEF TypeOK
  <2>7. InHand'
    BY <1>0, <2>1, <2>2, <2>6 DEF InHand
  <2>. QED
    BY <1>0, <2>1, <2>4, <2>5, <2>7 DEF OInv, UsedIsOwned
<1>11. ASSUME NEW t \in Thread, FreePut(t)
       PROVE  OInv'
  <2>. DEFINE a == arg[t]
  <2>1. /\ used_' = used_ \ {a} /\ UNCHANGED <<content, holds>>
        /\ clobbered \subseteq clobbered'
    BY <1>0, <1>11, PutBackKeeps DEF FreePut
  <2>2. /\ pc'[t] = "idle"
        /\ \A u \in Thread \ {t} : pc'[u] = pc[u] /\ arg'[u] = arg[u]
    BY <1>0, <1>11 DEF FreePut, Goto, TypeOK
  <2>3. \A u \in Thread \ {t} : Owned(u)' = Owned(u)
    BY <2>1, <2>2 DEF Owned
  <2>4. Owned(t)' = holds[t] /\ Owned(t) \subseteq holds[t] \cup {a}
    BY <2>1, <2>2 DEF Owned
  <2>5. \A u \in Thread : a \in Owned(u)' => a \in clobbered'
    <3>1. CASE pc[t] = "stray"
      <4>1. a \in used_ => a \in clobbered'
        BY <1>11, <3>1 DEF FreePut
      <4>2. \A u \in Thread : a \in Owned(u) => a \in used_ \/ a \in clobbered
        BY <1>0 DEF OwnedAlone
      <4>. QED
        BY <2>1, <2>3, <2>4, <4>1, <4>2 DEF Owned
    <3>2. CASE pc[t] = "put"
      <4>1. a \in Owned(t)
        BY <3>2 DEF Owned
      <4>2. a \notin clobbered => \A u \in Thread \ {t} : a \notin Owned(u)
        BY <1>0, <4>1 DEF OwnedAlone
      <4>3. a \notin clobbered => a \notin holds[t]
        BY <1>0, <3>2 DEF InHand
      <4>. QED
        BY <2>1, <2>3, <2>4, <4>2, <4>3
    <3>. QED
      BY <1>11, <3>1, <3>2 DEF FreePut
  <2>. HIDE DEF a
  <2>6. \A u \in Thread : Owned(u)' \subseteq Owned(u)
    BY <2>3, <2>4 DEF Owned
  <2>7. OwnedAlone'
    BY <1>0, <2>1, <2>5, <2>6 DEF OwnedAlone
  <2>8. InHand'
    BY <1>0, <2>1, <2>2 DEF InHand
  <2>9. \A x \in AllOwned : x # a => x \in AllOwned'
    BY <2>3, <2>4, InAllOwned DEF AllOwned
  <2>10. UsedIsOwned'
    BY <1>0, <2>1, <2>9 DEF UsedIsOwned
  <2>. QED
    BY <2>7, <2>8, <2>10 DEF OInv
<1>12. CASE UNCHANGED vars
  BY <1>12, SameOwners DEF vars, OwnVars, pool_vars, thread_vars, history_vars
<1>. QED
  BY <1>2, <1>3, <1>4, <1>5, <1>6, <1>7, <1>8, <1>9, <1>10, <1>11, <1>12 DEF Next

-----------------------------------------------------------------------------
(* What is proved.                                                         *)

Inv == WInv /\ OInv

(* The inductive invariant holds.                                          *)
LEMMA InvHolds == Spec => []Inv
<1>1. Init => Inv
  BY InitWInv, InitOInv DEF Inv
<1>2. Inv /\ [Next]_vars => Inv'
  BY StepWInv, StepOInv DEF Inv
<1>. QED
  BY <1>1, <1>2, PTL DEF Spec

(* Every variable of the pools keeps its type: no step writes to an item   *)
(* that does not exist, and size_ stays within what the pools can hold     *)
(* (init(), extend(), alloc(), free(), cleanup()).                         *)
THEOREM TypesKept == Spec => []TypeOK
<1>1. Inv => TypeOK
  BY DEF Inv, WInv
<1>. QED
  BY <1>1, InvHolds, PTL

(* An item of a pool is accounted for together with its whole pool.        *)
LEMMA WholeIsWhole == TypeOK /\ WholePools => PoolsWhole
<1>. SUFFICES ASSUME TypeOK, WholePools PROVE Accounted = Pooled \ Abandoned
  BY DEF WholePools, PoolsWhole
<1>1. ASSUME NEW i \in Accounted PROVE i \in Pooled \ Abandoned
  <2>1. i \in Pooled /\ i \in Item
    BY DEF WholePools, Pooled
  <2>. QED
    BY <2>1 DEF Abandoned
<1>2. ASSUME NEW i \in Pooled \ Abandoned PROVE i \in Accounted
  <2>1. CASE kind = "simple"
    BY <2>1 DEF WholePools
  <2>2. CASE kind = "item"
    <3>1. PICK j \in Item : j[1] = i[1] /\ j \in Accounted
      BY <2>2 DEF Abandoned
    <3>. QED
      BY <3>1 DEF WholePools, Pooled
  <2>. QED
    BY <2>1, <2>2 DEF TypeOK
<1>. QED
  BY <1>1, <1>2

(* No interleaving of alloc(), free(), extend() and stray calls of free()  *)
(* loses an item or counts it twice: every item of a pool that cleanup()   *)
(* did not leave behind is in use or free, not both, free once, and size_  *)
(* is their number.                                                        *)
THEOREM PoolsStayWhole == Spec => []PoolsWhole
<1>1. Inv => PoolsWhole
  BY WholeIsWhole DEF Inv, WInv
<1>. QED
  BY <1>1, InvHolds, PTL

(* Although alloc() and free() clear an item without holding mutex_, what  *)
(* a thread has been given is in use, its own alone, and holds nothing but *)
(* what it wrote itself, unless a stray free() hit it.                     *)
THEOREM OwnContentKept == Spec => []OwnContent
<1>1. Inv => OwnContent
  <2>. SUFFICES ASSUME Inv, NEW t \in Thread, NEW i \in holds[t] \ clobbered
                PROVE  /\ i \in used_
                       /\ content[i] \in {"clean", t}
                       /\ \A u \in Thread \ {t} : i \notin Owned(u)
    BY DEF OwnContent
  <2>1. i \in Owned(t) \ clobbered
    BY DEF Owned
  <2>. QED
    BY <2>1 DEF Inv, OInv, OwnedAlone, InHand
<1>. QED
  BY <1>1, InvHolds, PTL

(* alloc() returns nullptr or throws only when every item of the pools is  *)
(* in somebody's hands, clobbered or left behind by cleanup(): no item     *)
(* leaks, whatever the interleaving.                                       *)
THEOREM FailsOnlyWhenDry == Spec => FailsOnlyDry
<1>. DEFINE Dry == \A t \in Thread :
                      pc[t] = "idle" /\ pc'[t] \in {"null", "throw"} =>
                          Pooled \subseteq AllOwned \cup clobbered \cup Abandoned
<1>1. ASSUME Inv, [Next]_vars PROVE [Dry]_vars
  <2>. SUFFICES ASSUME NEW t \in Thread, Next, pc[t] = "idle", pc'[t] \in {"null", "throw"}
                PROVE  Pooled \subseteq AllOwned \cup clobbered \cup Abandoned
    BY <1>1
  <2>1. frees_ = <<>>
    <3>1. TypeOK
      BY <1>1 DEF Inv, WInv
    <3>. QED
      BY <3>1 DEF Next, InitPool, Cleanup, CleanupThrows, Extend, AllocTake, AllocDry, AllocFails,
                  AllocWipe, Write, FreeReset, FreeStray, FreePut, Goto, TypeOK, thread_vars
  <2>2. ToSet(frees_) = {}
    <3>1. frees_ \in Seq(Item)
      BY <1>1 DEF Inv, WInv, TypeOK
    <3>. QED
      BY <2>1, <3>1, InSeq
  <2>3. Accounted = Pooled \ Abandoned
    BY <1>1, WholeIsWhole DEF Inv, WInv, PoolsWhole
  <2>. QED
    BY <1>1, <2>2, <2>3 DEF Accounted, Inv, OInv, UsedIsOwned
<1>. QED
  BY <1>1, InvHolds, PTL DEF Spec, FailsOnlyDry
=============================================================================
