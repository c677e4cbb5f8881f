---------------------------- MODULE CommonProofs ----------------------------
(***************************************************************************)
(* Theorems about the classes of common/ and the page checksum: Bitmap,    *)
(* Page, Value and, last, the diagnostic log.                              *)
(*                                                                         *)
(* The log's properties are proved with LogInv, which says of a thread     *)
(* where its call is (CallShape, CallsApart), of a stream what is open     *)
(* (StreamsWhole), of the names which are taken (NamesUsed), of            *)
(* m_lastRotateTime and m_currentSize that they tell the day and the size  *)
(* of the file (DayInv, SizeInv), and that events and files go forward     *)
(* (EventsInOrder, FilesForward).                                          *)
(***************************************************************************)
EXTENDS Bitmap, PageChecksum, Value, FileLog, DataLemmas

-----------------------------------------------------------------------------
(* Bitmap.  The bits below size_ are the members, and every index has a    *)
(* byte.                                                                   *)
BitmapInv ==
    /\ size_ \in Nat
    /\ bitmap_ \in [0 .. bytes(size_) - 1 -> SUBSET Bit]
    /\ members = {i \in 0 .. size_ - 1 : get(i)}

LEMMA LeastOfSet ==
    ASSUME NEW S \in SUBSET Nat
    PROVE  /\ S = {} => LeastOrNone(S) = -1
           /\ S # {} => LeastOrNone(S) \in S /\ \A j \in S : LeastOrNone(S) <= j
           /\ \A i \in S : (\A j \in S : i <= j) => LeastOrNone(S) = i
<1>1. S # {} => \E i \in S : \A j \in S : i <= j
  BY LeastNumber
<1>2. S # {} => Least(S) \in S /\ \A j \in S : Least(S) <= j
  BY <1>1 DEF Least
<1>3. S # {} => LeastOrNone(S) = Least(S)
  BY DEF LeastOrNone
<1>4. S = {} => LeastOrNone(S) = -1
  BY DEF LeastOrNone
<1>5. ASSUME NEW i \in S, \A j \in S : i <= j PROVE LeastOrNone(S) = i
  <2>1. Least(S) \in S /\ Least(S) <= i /\ i <= Least(S)
    BY <1>2, <1>5
  <2>2. Least(S) \in Nat /\ i \in Nat
    BY <2>1
  <2>3. Least(S) = i
    BY <2>1, <2>2
  <2>. QED
    BY <1>3, <2>3
<1>. QED
  BY <1>2, <1>3, <1>4, <1>5

(* The bytes hold size bits, and the last of them one at least.            *)
LEMMA BytesHold ==
    ASSUME NEW size \in Nat
    PROVE  /\ bytes(size) \in Nat
           /\ size <= bytes(size) * ByteBits
           /\ \A i \in Nat : i < bytes(size) * ByteBits <=> i \div ByteBits < bytes(size)
           /\ \A i \in 0 .. size - 1 : i \div ByteBits \in 0 .. bytes(size) - 1
<1>. USE ByteBitsAssumption
<1>. DEFINE k == size + ByteBits - 1
            n == k \div ByteBits
<1>1. k \in Nat
  OBVIOUS
<1>2. n \in Nat /\ k % ByteBits \in 0 .. ByteBits - 1 /\ k = n * ByteBits + (k % ByteBits)
  BY <1>1, RowAndPlace
<1>3. bytes(size) = n
  BY DEF bytes
<1>4. n * ByteBits \in Nat
  BY <1>2
<1>5. size <= n * ByteBits
  BY <1>2, <1>4
<1>. HIDE DEF n, k
<1>6. \A i \in Nat : i < n * ByteBits <=> i \div ByteBits < n
  BY <1>2, RowsBelow
<1>7. \A i \in 0 .. size - 1 : i \div ByteBits \in 0 .. n - 1
  <2>. SUFFICES ASSUME NEW i \in 0 .. size - 1 PROVE i \div ByteBits \in 0 .. n - 1
    OBVIOUS
  <2>1. i \in Nat /\ i < n * ByteBits
    BY <1>4, <1>5
  <2>2. i \div ByteBits \in Nat
    BY <2>1, RowAndPlace
  <2>. QED
    BY <1>2, <1>6, <2>1, <2>2
<1>. QED
  BY <1>2, <1>3, <1>5, <1>6, <1>7

(* Two indexes with the same byte and bit are the same.                    *)
LEMMA BitOfIndex ==
    ASSUME NEW i \in Nat, NEW j \in Nat, i # j
    PROVE  i \div ByteBits # j \div ByteBits \/ i % ByteBits # j % ByteBits
<1>1. i = (i \div ByteBits) * ByteBits + (i % ByteBits)
  BY ByteBitsAssumption, RowAndPlace
<1>2. j = (j \div ByteBits) * ByteBits + (j % ByteBits)
  BY ByteBitsAssumption, RowAndPlace
<1>. QED
  BY <1>1, <1>2

(* The search visits the indexes in their order: it finds the first bit at *)
(* or behind start that is as it should be, unless that is a spare one.    *)
LEMMA SearchFindsFirst ==
    ASSUME BitmapInv, NEW one \in BOOLEAN, NEW start \in 0 .. size_
    PROVE  next_bit(one, start) = LeastOrNone({i \in start .. size_ - 1 : get(i) = one})
<1>. USE ByteBitsAssumption
<1>. DEFINE n == bytes(size_)
            a == start \div ByteBits
            found(iter) == find_first(one, bitmap_[iter], start_in_byte(iter, start))
            hits == {iter \in a .. n - 1 : found(iter) >= 0}
            ret == IF hits = {} THEN -1 ELSE Least(hits) * ByteBits + found(Least(hits))
            W == {i \in start .. size_ - 1 : get(i) = one}
            First(iter) == {b \in start_in_byte(iter, start) .. ByteBits - 1 :
                              (b \in bitmap_[iter]) = one}
<1>1. next_bit(one, start) = IF ret >= size_ THEN -1 ELSE ret
  BY DEF next_bit
<1>2. \A iter : found(iter) = LeastOrNone(First(iter))
  BY DEF find_first
<1>3. /\ size_ \in Nat /\ start \in Nat /\ n \in Nat
      /\ a \in Nat /\ start % ByteBits \in 0 .. ByteBits - 1
      /\ start = a * ByteBits + (start % ByteBits)
  <2>1. size_ \in Nat
    BY DEF BitmapInv
  <2>2. start \in Nat /\ n \in Nat
    BY <2>1, BytesHold
  <2>. QED
    BY <2>1, <2>2, RowAndPlace
<1>4. \A iter \in Nat : start_in_byte(iter, start) \in 0 .. ByteBits - 1
  BY <1>3 DEF start_in_byte
<1>5. \A iter \in Nat : First(iter) \in SUBSET (0 .. ByteBits - 1)
  BY <1>4
<1>6. \A iter \in Nat : /\ First(iter) = {} => found(iter) = -1
                        /\ First(iter) # {} =>
                             found(iter) \in First(iter) /\ \A b \in First(iter) : found(iter) <= b
  <2>. SUFFICES ASSUME NEW iter \in Nat
                PROVE  /\ First(iter) = {} => found(iter) = -1
                       /\ First(iter) # {} => /\ found(iter) \in First(iter)
                                              /\ \A b \in First(iter) : found(iter) <= b
    OBVIOUS
  <2>1. First(iter) \in SUBSET Nat
    BY <1>5
  <2>. HIDE DEF First, found
  <2>. QED
    BY <1>2, <2>1, LeastOfSet
(* An index at or behind start is a bit that some byte's search looks at,  *)
(* and the other way round.                                                *)
<1>7. ASSUME NEW i \in Nat, start <= i, i < n * ByteBits, (i % ByteBits \in bitmap_[i \div ByteBits]) = one
      PROVE  i \div ByteBits \in a .. n - 1 /\ i % ByteBits \in First(i \div ByteBits)
  <2>1. /\ i \div ByteBits \in Nat /\ i % ByteBits \in 0 .. ByteBits - 1
        /\ i = (i \div ByteBits) * ByteBits + (i % ByteBits)
    BY RowAndPlace
  <2>2. i \div ByteBits < n
    BY <1>3, <1>7, BytesHold
  <2>3. a <= i \div ByteBits
    <3>. SUFFICES ASSUME i \div ByteBits < a PROVE FALSE
      BY <1>3, <2>1
    <3>1. i < a * ByteBits
      BY <1>3, RowsBelow
    <3>2. a * ByteBits \in Nat
      BY <1>3
    <3>. QED
      BY <1>3, <1>7, <3>1, <3>2
  <2>4. start_in_byte(i \div ByteBits, start) <= i % ByteBits
    <3>1. CASE i \div ByteBits = a
      <4>1. a * ByteBits \in Nat
        BY <1>3
      <4>2. i = a * ByteBits + (i % ByteBits)
        BY <2>1, <3>1
      <4>3. start % ByteBits <= i % ByteBits
        BY <1>3, <1>7, <2>1, <4>1, <4>2
      <4>. QED
        BY <3>1, <4>3 DEF start_in_byte
    <3>2. CASE i \div ByteBits # a
      BY <2>1, <3>2 DEF start_in_byte
    <3>. QED
      BY <3>1, <3>2
  <2>5. start_in_byte(i \div ByteBits, start) \in Nat
    BY <1>4, <2>1
  <2>6. i % ByteBits \in start_in_byte(i \div ByteBits, start) .. ByteBits - 1
    BY <2>1, <2>4, <2>5
  <2>. QED
    BY <1>3, <1>7, <2>1, <2>2, <2>3, <2>6
<1>8. ASSUME NEW iter \in a .. n - 1, NEW b \in First(iter)
      PROVE  LET i == iter * ByteBits + b
             IN  /\ i \in Nat /\ start <= i
                 /\ i \div ByteBits = iter /\ i % ByteBits = b
  <2>. DEFINE i == iter * ByteBits + b
  <2>1. iter \in Nat /\ b \in 0 .. ByteBits - 1 /\ start_in_byte(iter, start) <= b
    BY <1>3, <1>5
  <2>2. i \in Nat /\ i \div ByteBits = iter /\ i % ByteBits = b
    BY <2>1, RowAndPlace
  <2>3. start <= i
    <3>1. CASE iter = a
      <4>1. start % ByteBits <= b
        BY <2>1, <3>1 DEF start_in_byte
      <4>2. a * ByteBits \in Nat /\ iter * ByteBits = a * ByteBits
        BY <1>3, <3>1
      <4>. QED
        BY <1>3, <2>1, <4>1, <4>2
    <3>2. CASE iter # a
      <4>1. ~ (i \div ByteBits < a + 1)
        BY <1>3, <2>1, <2>2, <3>2
      <4>2. start \div ByteBits < a + 1
        BY <1>3
      <4>3. start < (a + 1) * ByteBits /\ ~ (i < (a + 1) * ByteBits)
        <5>1. a + 1 \in Nat /\ i \in Nat
          BY <1>3, <2>2
        <5>. HIDE DEF i, a
        <5>. QED
          BY <1>3, <4>1, <4>2, <5>1, RowsBelow
      <4>4. (a + 1) * ByteBits \in Nat
        BY <1>3
      <4>. HIDE DEF i
      <4>. QED
        BY <1>3, <2>2, <4>3, <4>4
    <3>. QED
      BY <3>1, <3>2
  <2>. QED
    BY <2>2, <2>3
<1>9. \A i \in 0 .. size_ - 1 : i \in Nat /\ i < n * ByteBits
  <2>1. n * ByteBits \in Nat /\ size_ <= n * ByteBits
    BY <1>3, BytesHold
  <2>. QED
    BY <1>3, <2>1
<1>10. W \in SUBSET Nat
  BY <1>3
<1>11. hits \in SUBSET Nat
  BY <1>3
<1>12. \A iter \in Nat : found(iter) >= 0 <=> First(iter) # {}
  <2>. SUFFICES ASSUME NEW iter \in Nat PROVE found(iter) >= 0 <=> First(iter) # {}
    OBVIOUS
  <2>1. First(iter) \in SUBSET (0 .. ByteBits - 1)
    BY <1>5
  <2>2. /\ First(iter) = {} => found(iter) = -1
        /\ First(iter) # {} => found(iter) \in First(iter)
    BY <1>6
  <2>. HIDE DEF First, found
  <2>. QED
    BY <2>1, <2>2
<1>13. \A i \in W : i \div ByteBits \in hits /\ i % ByteBits \in First(i \div ByteBits)
  <2>. SUFFICES ASSUME NEW i \in W
                PROVE  i \div ByteBits \in hits /\ i % ByteBits \in First(i \div ByteBits)
    OBVIOUS
  <2>1. i \in Nat /\ start <= i /\ i \in 0 .. size_ - 1 /\ get(i) = one
    BY <1>3
  <2>2. i < n * ByteBits
    BY <1>9, <2>1
  <2>3. (i % ByteBits \in bitmap_[i \div ByteBits]) = one
    BY <2>1 DEF get
  <2>4. i \div ByteBits \in a .. n - 1 /\ i % ByteBits \in First(i \div ByteBits)
    BY <1>7, <2>1, <2>2, <2>3
  <2>5. i \div ByteBits \in Nat
    BY <1>3, <2>4
  <2>. HIDE DEF First, found, W
  <2>. QED
    BY <1>12, <2>4, <2>5
<1>14. CASE hits = {}
  <2>1. W = {}
    <3>. HIDE DEF hits, W
    <3>. QED
      BY <1>13, <1>14
  <2>2. ret = -1
    BY <1>14
  <2>3. LeastOrNone(W) = -1
    BY <2>1, LeastOfSet
  <2>. HIDE DEF ret, W
  <2>. QED
    BY <1>1, <1>3, <2>2, <2>3 DEF W
<1>15. CASE hits # {}
  <2>. DEFINE f == Least(hits)
  <2>1. f \in hits /\ \A iter \in hits : f <= iter
    <3>. HIDE DEF hits
    <3>1. LeastOrNone(hits) = Least(hits)
      BY <1>15 DEF LeastOrNone
    <3>. QED
      BY <1>11, <1>15, <3>1, LeastOfSet
  <2>2. f \in a .. n - 1 /\ f \in Nat /\ found(f) >= 0
    BY <1>3, <2>1
  <2>. HIDE DEF f
  <2>3. First(f) # {}
    BY <1>12, <2>2
  <2>4. /\ found(f) \in First(f) /\ \A b \in First(f) : found(f) <= b
        /\ found(f) \in 0 .. ByteBits - 1
    <3>1. First(f) \in SUBSET (0 .. ByteBits - 1)
      BY <1>5, <2>2
    <3>2. found(f) \in First(f) /\ \A b \in First(f) : found(f) <= b
      BY <1>6, <2>2, <2>3
    <3>. HIDE DEF First, found
    <3>. QED
      BY <3>1, <3>2
  <2>5. ret = f * ByteBits + found(f)
    BY <1>15 DEF f
  <2>6. /\ ret \in Nat /\ start <= ret
        /\ ret \div ByteBits = f /\ ret % ByteBits = found(f)
    BY <1>8, <2>2, <2>4, <2>5
  <2>7. (found(f) \in bitmap_[f]) = one
    <3>1. \A b \in First(f) : (b \in bitmap_[f]) = one
      OBVIOUS
    <3>. HIDE DEF First, found
    <3>. QED
      BY <2>4, <3>1
  <2>8. get(ret) = one
    <3>. HIDE DEF ret, found
    <3>. QED
      BY <2>6, <2>7 DEF get
  <2>9. \A i \in W : ret <= i
    <3>. SUFFICES ASSUME NEW i \in W PROVE ret <= i
      OBVIOUS
    <3>1. i \in Nat /\ i \div ByteBits \in hits /\ i % ByteBits \in First(i \div ByteBits)
      BY <1>10, <1>13
    <3>2. f <= i \div ByteBits
      BY <2>1, <3>1 DEF f
    <3>3. CASE i \div ByteBits = f
      <4>1. found(f) <= i % ByteBits
        <5>. HIDE DEF First, found, hits
        <5>. QED
          BY <2>4, <3>1, <3>3
      <4>2. i = f * ByteBits + (i % ByteBits) /\ i % ByteBits \in 0 .. ByteBits - 1
        BY <3>1, <3>3, RowAndPlace
      <4>3. f * ByteBits \in Nat
        BY <2>2
      <4>. HIDE DEF First, found, hits, W, ret
      <4>. QED
        BY <2>4, <2>5, <4>1, <4>2, <4>3
    <3>4. CASE i \div ByteBits # f
      <4>0. i \div ByteBits \in Nat
        BY <3>1, RowAndPlace
      <4>1. ~ (i \div ByteBits < f + 1)
        BY <2>2, <3>2, <3>4, <4>0
      <4>. HIDE DEF First, found, hits, W, ret
      <4>2. ret \div ByteBits < f + 1
        BY <2>2, <2>6
      <4>3. ret < (f + 1) * ByteBits /\ ~ (i < (f + 1) * ByteBits)
        <5>1. f + 1 \in Nat /\ ret \in Nat
          BY <2>2, <2>6
        <5>. QED
          BY <3>1, <4>1, <4>2, <5>1, RowsBelow
      <4>4. (f + 1) * ByteBits \in Nat
        BY <2>2
      <4>. QED
        BY <2>6, <3>1, <4>3, <4>4
    <3>. QED
      BY <3>3, <3>4
  <2>. HIDE DEF found, hits, ret, First
  <2>10. CASE ret >= size_
    <3>1. W = {}
      <4>1. \A i \in W : i < size_
        BY <1>3
      <4>. HIDE DEF W
      <4>. QED
        BY <1>3, <1>10, <2>6, <2>9, <2>10, <4>1
    <3>2. LeastOrNone(W) = -1
      BY <3>1, LeastOfSet
    <3>. QED
      BY <1>1, <2>10, <3>2
  <2>11. CASE ~ (ret >= size_)
    <3>1. ret \in W
      BY <1>3, <2>6, <2>8, <2>11
    <3>2. LeastOrNone(W) = ret
      <4>. HIDE DEF W
      <4>. QED
        BY <1>10, <2>9, <3>1, LeastOfSet
    <3>. QED
      BY <1>1, <2>11, <3>2
  <2>. QED
    BY <2>10, <2>11
<1>. QED
  BY <1>14, <1>15

(* set() and clear() of an index leave the bits of all others alone.       *)
LEMMA BitmapStep ==
    ASSUME BitmapInv, [BitmapNext]_bitmap_vars
    PROVE  BitmapInv'
<1>. USE DEF BitmapInv
<1>1. CASE UNCHANGED bitmap_vars
  BY <1>1 DEF bitmap_vars, get
<1>2. ASSUME NEW index \in 0 .. size_ - 1, NEW one \in BOOLEAN,
             IF one THEN set(index) ELSE clear(index)
      PROVE  BitmapInv'
  <2>. DEFINE a == index \div ByteBits
              b == index % ByteBits
  <2>1. /\ index \in Nat /\ a \in 0 .. bytes(size_) - 1 /\ b \in Bit
        /\ \A i \in 0 .. size_ - 1 : i \div ByteBits \in 0 .. bytes(size_) - 1 /\ i \in Nat
    <3>1. \A i \in 0 .. size_ - 1 : i \div ByteBits \in 0 .. bytes(size_) - 1 /\ i \in Nat
      <4>1. size_ \in Nat
        OBVIOUS
      <4>2. \A i \in 0 .. size_ - 1 : i \div ByteBits \in 0 .. bytes(size_) - 1
        BY <4>1, BytesHold
      <4>3. \A i \in 0 .. size_ - 1 : i \in Nat
        BY <4>1
      <4>. QED
        BY <4>2, <4>3
    <3>2. index \in Nat
      OBVIOUS
    <3>3. b \in 0 .. ByteBits - 1
      BY <3>2, ByteBitsAssumption, RowAndPlace
    <3>. QED
      BY <3>1, <3>2, <3>3 DEF Bit
  <2>2. size_' = size_ /\ members' = IF one THEN members \cup {index} ELSE members \ {index}
    BY <1>2 DEF set, clear
  <2>3. bitmap_' = [bitmap_ EXCEPT ![a] = IF one THEN bitmap_[a] \cup {b} ELSE bitmap_[a] \ {b}]
    BY <1>2 DEF set, clear
  <2>. HIDE DEF a, b
  <2>4. bitmap_' \in [0 .. bytes(size_) - 1 -> SUBSET Bit]
    BY <2>1, <2>3
  <2>5. ASSUME NEW i \in 0 .. size_ - 1
        PROVE  get(i)' <=> IF i = index THEN one ELSE get(i)
    <3>1. CASE i = index
      BY <2>1, <2>3, <3>1 DEF get, a, b
    <3>2. CASE i # index
      <4>1. i \div ByteBits # a \/ i % ByteBits # b
        BY <2>1, <3>2, BitOfIndex DEF a, b
      <4>2. i \div ByteBits \in 0 .. bytes(size_) - 1
        BY <2>1
      <4>. QED
        BY <2>1, <2>3, <3>2, <4>1, <4>2 DEF get
    <3>. QED
      BY <3>1, <3>2
  <2>6. members' = {i \in 0 .. size_ - 1 : get(i)'}
    BY <2>2, <2>5
  <2>. QED
    BY <2>2, <2>4, <2>6
<1>3. CASE BitmapNext
  <2>1. PICK index \in 0 .. size_ - 1 : set(index) \/ clear(index)
    BY <1>3 DEF BitmapNext
  <2>2. CASE set(index)
    BY <1>2, <2>2
  <2>3. CASE clear(index)
    BY <1>2, <2>3
  <2>. QED
    BY <2>1, <2>2, <2>3
<1>. QED
  BY <1>1, <1>3

LEMMA SearchFromInv ==
    ASSUME BitmapInv
    PROVE  BitmapSearch
<1>0. size_ \in Nat /\ members = {i \in 0 .. size_ - 1 : get(i)}
  BY DEF BitmapInv
<1>1. \A i \in 0 .. size_ - 1 : get(i) <=> i \in members
  BY <1>0
<1>2. ASSUME NEW start \in 0 .. size_
      PROVE  /\ next_bit(TRUE, start) = LeastOrNone({i \in members : i >= start})
             /\ next_bit(FALSE, start) = LeastOrNone((start .. size_ - 1) \ members)
  <2>1. {i \in start .. size_ - 1 : get(i) = TRUE} = {i \in members : i >= start}
    BY <1>0 DEF get
  <2>2. {i \in start .. size_ - 1 : get(i) = FALSE} = (start .. size_ - 1) \ members
    BY <1>0 DEF get
  <2>3. /\ next_bit(TRUE, start) = LeastOrNone({i \in start .. size_ - 1 : get(i) = TRUE})
        /\ next_bit(FALSE, start) = LeastOrNone({i \in start .. size_ - 1 : get(i) = FALSE})
    BY SearchFindsFirst
  <2>. QED
    BY <2>1, <2>2, <2>3
<1>. QED
  BY <1>1, <1>2 DEF BitmapSearch

(* For every size and every number of bits in a byte: the searches find    *)
(* the first member or gap from any start, across bytes and into a last    *)
(* byte with spare bits, and set() and clear() touch no other index        *)
(* (set(), clear(), get(), next_zero_bit(), next_one_bit()).               *)
THEOREM BitmapSearches == BitmapSpec => []BitmapSearch
<1>1. BitmapInit => BitmapInv
  BY MaxBitsAssumption DEF BitmapInit, BitmapInv
<1>2. BitmapInv /\ [BitmapNext]_bitmap_vars => BitmapInv'
  BY BitmapStep
<1>3. BitmapInv => BitmapSearch
  BY SearchFromInv
<1>. QED
  BY <1>1, <1>2, <1>3, PTL DEF BitmapSpec

-----------------------------------------------------------------------------
(* PageChecksum.  A page that was damaged or edited since the last stamp   *)
(* may have the checksum of the stamped one: there are more pages than     *)
(* checksums.  What is stamped, and what never was.                        *)
NoCollision == calc_checksum(data) = calc_checksum(stamped) => data = stamped
Sum == calc_checksum(stamped)

Inside(t) == at[t] # "out"

PageTypes ==
    /\ raced \in BOOLEAN
    /\ old_checksum = [t \in Verifier |-> old_checksum[t]]
    /\ valid = [t \in Verifier |-> valid[t]]
    /\ at \in [Verifier -> {"out", "calc", "compare", "restore"}]

(* The page is as it was stamped: whatever threads are inside              *)
(* verify_checksum(), they all store the same checksum.                    *)
Whole ==
    data = stamped => /\ check_sum = Sum
                      /\ \A t \in Verifier : Inside(t) => old_checksum[t] = Sum

(* It is not: one thread at most is inside, and it alone knows the stamp   *)
(* while the checksum of the data is in the page.                          *)
Damaged ==
    data # stamped =>
        /\ \A t, u \in Verifier : Inside(t) /\ Inside(u) => t = u
        /\ NobodyVerifies => check_sum = Sum
        /\ \A t \in Verifier :
              /\ Inside(t) => old_checksum[t] = Sum
              /\ at[t] = "calc" => check_sum = Sum
              /\ at[t] = "compare" => check_sum = calc_checksum(data)

(* What was found is what the checksums say.                               *)
Found ==
    \A t \in Verifier : /\ valid[t] = "yes" => calc_checksum(data) = Sum
                        /\ valid[t] = "no" => calc_checksum(data) # Sum

PageInv == PageTypes /\ (~raced => Whole /\ Damaged /\ Found)

(* The checksum of nothing is that of a page that was never stamped.       *)
LEMMA EmptyChecksum == calc_checksum(<<>>) = {}
<1>. DEFINE F(f) == [s \in SUBSET {} |->
                       IF s = {} THEN Ones
                       ELSE LET x == Max(s) IN Update(f[s \ {x}], <<>>[x])]
            g    == CHOOSE f : f = F(f)
<1>1. DOMAIN <<>> = {}
  OBVIOUS
<1>2. FoldLeft(Update, Ones, <<>>) = g[{}]
  BY <1>1 DEF FoldLeft, MapThenFoldSet
<1>3. \E f : f = F(f)
  <2>. DEFINE h == [s \in SUBSET {} |-> Ones]
  <2>1. \A s \in SUBSET {} : s = {}
    OBVIOUS
  <2>2. h = F(h)
    BY <2>1
  <2>. QED
    BY <2>2
<1>4. \A f : f = F(f) => f[{}] = Ones
  OBVIOUS
<1>. HIDE DEF F
<1>5. g = F(g)
  BY <1>3
<1>6. g[{}] = Ones
  <2>. HIDE DEF g
  <2>. QED
    BY <1>4, <1>5
<1>7. Xor(Ones, Ones) = {}
  BY DEF Xor
<1>. HIDE DEF g
<1>. QED
  BY <1>2, <1>6, <1>7 DEF calc_checksum

LEMMA PageInvInit == PageInit => PageInv
<1>. SUFFICES ASSUME PageInit PROVE PageInv
  OBVIOUS
<1>1. check_sum = Sum
  BY EmptyChecksum DEF PageInit, Sum
<1>. QED
  BY <1>1 DEF PageInit, PageInv, PageTypes, Whole, Damaged, Found, Inside, NobodyVerifies

LEMMA PageStep ==
    ASSUME PageInv, [PageNext]_page_vars
    PROVE  PageInv'
<1>. USE DEF PageInv, PageTypes
<1>1. CASE UNCHANGED page_vars
  BY <1>1 DEF page_vars, Whole, Damaged, Found, Inside, NobodyVerifies, Sum
<1>2. ASSUME NEW i \in 1 .. DataSize, NEW byte \in ByteValue, PageWrite(i, byte)
      PROVE  PageInv'
  <2>1. /\ \A t \in Verifier : ~Inside(t) /\ ~Inside(t)' /\ valid'[t] = "unknown"
        /\ NobodyVerifies /\ UNCHANGED <<check_sum, stamped, raced, at, old_checksum>> /\ Sum' = Sum
    BY <1>2 DEF PageWrite, NobodyVerifies, Inside, Sum
  <2>2. ~raced => check_sum = Sum
    BY <2>1 DEF Whole, Damaged
  <2>3. PageTypes'
    BY <1>2 DEF PageWrite
  <2>4. ~raced' => Whole' /\ Found'
    BY <2>1, <2>2 DEF Whole, Found
  <2>5. ~raced' => Damaged'
    BY <2>1, <2>2 DEF Damaged, Inside
  <2>. QED
    BY <2>3, <2>4, <2>5
<1>3. CASE PageStamp
  <2>1. /\ data' = stamped' /\ check_sum' = Sum'
        /\ \A t \in Verifier : ~Inside(t)' /\ valid'[t] = "unknown"
    BY <1>3 DEF PageStamp, NobodyVerifies, Inside, Sum
  <2>2. Whole' /\ Damaged' /\ Found'
    BY <2>1 DEF Whole, Damaged, Found
  <2>. QED
    BY <1>3, <2>2 DEF PageStamp
<1>4. ASSUME NEW t \in Verifier, VerifyBegin(t) PROVE PageInv'
  <2>. USE <1>4 DEF VerifyBegin
  <2>1. Sum' = Sum
    BY DEF Sum
  <2>2. PageTypes'
    OBVIOUS
  <2>. SUFFICES ASSUME ~raced' PROVE Whole' /\ Damaged' /\ Found'
    BY <2>2
  <2>3. ~raced /\ (data = stamped \/ NobodyVerifies)
    OBVIOUS
  <2>4. check_sum = Sum
    BY <2>3 DEF Whole, Damaged
  <2>5. Whole' /\ Found'
    BY <2>1, <2>3, <2>4 DEF Whole, Found, Inside
  <2>6. Damaged'
    BY <2>1, <2>3, <2>4 DEF Damaged, Inside, NobodyVerifies
  <2>. QED
    BY <2>5, <2>6
<1>5. ASSUME NEW t \in Verifier, VerifyCalc(t) PROVE PageInv'
  <2>. USE <1>5 DEF VerifyCalc
  <2>1. Sum' = Sum
    BY DEF Sum
  <2>2. PageTypes'
    OBVIOUS
  <2>. SUFFICES ASSUME ~raced PROVE Whole' /\ Damaged' /\ Found'
    BY <2>2
  <2>3. Whole' /\ Found'
    BY <2>1 DEF Whole, Found, Inside, Sum
  <2>4. Damaged'
    BY <2>1 DEF Damaged, Inside, NobodyVerifies
  <2>. QED
    BY <2>3, <2>4
<1>6. ASSUME NEW t \in Verifier, VerifyCompare(t) PROVE PageInv'
  <2>. USE <1>6 DEF VerifyCompare
  <2>1. Sum' = Sum
    BY DEF Sum
  <2>2. PageTypes'
    OBVIOUS
  <2>. SUFFICES ASSUME ~raced PROVE Whole' /\ Damaged' /\ Found'
    BY <2>2
  <2>3. Whole'
    BY <2>1 DEF Whole, Inside
  <2>4. Damaged'
    BY <2>1 DEF Damaged, Inside, NobodyVerifies
  <2>5. old_checksum[t] = Sum /\ check_sum = calc_checksum(data)
    BY DEF Whole, Damaged, Inside, Sum
  <2>6. Found'
    BY <2>1, <2>5 DEF Found
  <2>. QED
    BY <2>3, <2>4, <2>6
<1>7. ASSUME NEW t \in Verifier, VerifyRestore(t) PROVE PageInv'
  <2>. USE <1>7 DEF VerifyRestore
  <2>1. Sum' = Sum
    BY DEF Sum
  <2>2. PageTypes'
    OBVIOUS
  <2>. SUFFICES ASSUME ~raced PROVE Whole' /\ Damaged' /\ Found'
    BY <2>2
  <2>3. old_checksum[t] = Sum
    BY DEF Whole, Damaged, Inside
  <2>4. Whole' /\ Found'
    BY <2>1, <2>3 DEF Whole, Found, Inside
  <2>5. Damaged'
    BY <2>1, <2>3 DEF Damaged, Inside, NobodyVerifies
  <2>. QED
    BY <2>4, <2>5
<1>. QED
  BY <1>1, <1>2, <1>3, <1>4, <1>5, <1>6, <1>7 DEF PageNext

LEMMA TellsFromInv == PageInv => (NoCollision => VerifyTells)
<1>. SUFFICES ASSUME PageInv, NoCollision PROVE VerifyTells
  OBVIOUS
<1>1. ASSUME ~raced, NobodyVerifies PROVE check_sum = calc_checksum(stamped)
  BY <1>1 DEF PageInv, Whole, Damaged, Sum
<1>2. ASSUME ~raced, NEW t \in Verifier
      PROVE  (valid[t] = "yes" => data = stamped) /\ (valid[t] = "no" => data # stamped)
  BY <1>2 DEF PageInv, Found, NoCollision, Sum
<1>. QED
  BY <1>1, <1>2 DEF VerifyTells

(* For every page size and any number of threads that verify side by side: *)
(* what verify_checksum() answers is whether the data have the checksum of *)
(* the data that were stamped, and it leaves the stamp as it was, unless   *)
(* two have verified a damaged page at once.  So it tells a page from all  *)
(* but those the checksum cannot tell from it (calc_checksum(),            *)
(* verify_checksum()).                                                     *)
THEOREM PageVerifies == PageSpec => [](NoCollision => VerifyTells)
<1>1. PageInv /\ [PageNext]_page_vars => PageInv'
  BY PageStep
<1>. QED
  BY <1>1, PageInvInit, TellsFromInv, PTL DEF PageSpec

-----------------------------------------------------------------------------
(* Value.                                                                  *)
Types == ToSet(ArrrType)
AValue == {v \in [type : Types \cup {"UNDEFINED"}, is_null : BOOLEAN, holds : Types,
                  value : UNION {Contents(h) : h \in Types}] : v.value \in Contents(v.holds)}

LEMMA ValueSet ==
    ASSUME NEW v
    PROVE  IsValue(v) <=> v \in AValue
  BY DEF IsValue, AValue, Types

(* The six types have places of their own in both lists; UNDEFINED has 0.  *)
LEMMA Six ==
    ASSUME NEW s \in {ArrrType, Data}
    PROVE  /\ DOMAIN s = 1 .. 6
           /\ ToSet(s) = {"INTEGER", "FLOAT", "VARCHAR", "BOOLEAN", "TIMESTAMP", "CHAR"}
<1>1. /\ DOMAIN s = 1 .. 6
      /\ {s[1], s[2], s[3], s[4], s[5], s[6]} =
            {"INTEGER", "FLOAT", "VARCHAR", "BOOLEAN", "TIMESTAMP", "CHAR"}
  BY DEF ArrrType, Data
<1>2. 1 .. 6 = {1, 2, 3, 4, 5, 6}
  OBVIOUS
<1>3. ToSet(s) = {s[i] : i \in {1, 2, 3, 4, 5, 6}}
  BY <1>1, <1>2 DEF ToSet
<1>4. {s[i] : i \in {1, 2, 3, 4, 5, 6}} = {s[1], s[2], s[3], s[4], s[5], s[6]}
  OBVIOUS
<1>. QED
  BY <1>1, <1>3, <1>4

LEMMA Places ==
    ASSUME NEW s \in {ArrrType, Data}
    PROVE  /\ \A x \in Types : Place(s, x) \in 1 .. 6
           /\ "UNDEFINED" \notin Types /\ Place(s, "UNDEFINED") = 0
           /\ \A x, y \in Types \cup {"UNDEFINED"} : Place(s, x) = Place(s, y) => x = y
           /\ \A x \in Types \cup {"UNDEFINED"} : Place(s, x) \in 0 .. 6
<1>1. DOMAIN s = 1 .. 6 /\ ToSet(s) = Types
  BY Six DEF Types
<1>2. Types = {"INTEGER", "FLOAT", "VARCHAR", "BOOLEAN", "TIMESTAMP", "CHAR"}
  BY Six DEF Types
<1>3. "UNDEFINED" \notin Types
  BY <1>2
<1>. HIDE DEF Types
<1>4. \A x \in Types : Place(s, x) \in 1 .. 6 /\ s[Place(s, x)] = x
  <2>. SUFFICES ASSUME NEW x \in Types PROVE Place(s, x) \in 1 .. 6 /\ s[Place(s, x)] = x
    OBVIOUS
  <2>1. \E i \in 1 .. 6 : s[i] = x
    BY <1>1 DEF ToSet
  <2>2. Place(s, x) = CHOOSE i \in 1 .. 6 : s[i] = x
    BY <1>1, <2>1 DEF Place
  <2>. QED
    BY <2>1, <2>2
<1>5. Place(s, "UNDEFINED") = 0
  <2>1. ~ \E i \in DOMAIN s : s[i] = "UNDEFINED"
    BY <1>1, <1>3 DEF ToSet
  <2>. QED
    BY <2>1 DEF Place
<1>6. ASSUME NEW x \in Types \cup {"UNDEFINED"}, NEW y \in Types \cup {"UNDEFINED"},
             Place(s, x) = Place(s, y)
      PROVE  x = y
  <2>1. CASE x \in Types /\ y \in Types
    BY <1>4, <1>6, <2>1
  <2>2. CASE x = "UNDEFINED" /\ y \in Types
    BY <1>4, <1>5, <1>6, <2>2
  <2>3. CASE x \in Types /\ y = "UNDEFINED"
    BY <1>4, <1>5, <1>6, <2>3
  <2>. QED
    BY <2>1, <2>2, <2>3
<1>7. \A x \in Types \cup {"UNDEFINED"} : Place(s, x) \in 0 .. 6
  BY <1>4, <1>5
<1>. QED
  BY <1>3, <1>4, <1>5, <1>6, <1>7

(* What a value holds: a string of octets or a small number.               *)
LEMMA ContentsAre ==
    ASSUME NEW h
    PROVE  /\ Chars(h) => Contents(h) = {s \in Seq(Octet) : Len(s) < Limit}
           /\ h = "BOOLEAN" => Contents(h) = {0, 1}
           /\ ~Chars(h) => Contents(h) \in SUBSET (-Limit .. Limit - 1)
           /\ Limit \in Nat
<1>0. Limit \in Nat /\ 1 < Limit
  BY DEF Limit
<1>1. Limit \in Nat /\ {0, 1} \in SUBSET (-Limit .. Limit - 1)
  BY <1>0
<1>2. h = "BOOLEAN" => ~Chars(h)
  BY DEF Chars
<1>. QED
  BY <1>1, <1>2 DEF Contents

LEMMA Octets ==
    ASSUME NEW s \in Seq(Octet)
    PROVE  Len(s) \in Nat /\ \A i \in 1 .. Len(s) : s[i] \in Octet /\ s[i] \in Nat
<1>1. Len(s) \in Nat /\ \A i \in 1 .. Len(s) : s[i] \in Octet
  OBVIOUS
<1>2. Octet \in SUBSET Nat
  BY DEF Octet
<1>. QED
  BY <1>1, <1>2

-----------------------------------------------------------------------------
(* What CharString compares is a string again.                             *)
LEMMA TrimmedIs ==
    ASSUME NEW s \in Seq(Octet)
    PROVE  Trimmed(s) \in Seq(Octet)
<1>. DEFINE Fits(end) == /\ \A i \in end + 1 .. Len(s) : s[i] = Space
                         /\ end = 0 \/ s[end] # Space
            S == {i \in 1 .. Len(s) : s[i] # Space}
<1>1. Len(s) \in Nat /\ S \in SUBSET Nat
  OBVIOUS
<1>2. \E end \in 0 .. Len(s) : Fits(end)
  <2>1. CASE S = {}
    <3>1. \A i \in 1 .. Len(s) : s[i] = Space
      BY <2>1
    <3>2. 0 \in 0 .. Len(s) /\ 0 + 1 = 1
      BY <1>1
    <3>3. Fits(0)
      BY <3>1, <3>2
    <3>. QED
      BY <3>2, <3>3
  <2>2. CASE S # {}
    <3>1. \A i \in S : i <= Len(s)
      OBVIOUS
    <3>2. PICK end \in S : \A i \in S : i <= end
      BY <1>1, <2>2, <3>1, LargestNumber
    <3>3. end \in 0 .. Len(s) /\ s[end] # Space
      BY <3>2
    <3>4. \A i \in end + 1 .. Len(s) : i \in 1 .. Len(s) /\ ~ (i <= end)
      BY <3>3
    <3>5. Fits(end)
      BY <3>2, <3>3, <3>4
    <3>. QED
      BY <3>3, <3>5
  <2>. QED
    BY <2>1, <2>2
<1>. DEFINE e == CHOOSE end \in 0 .. Len(s) : Fits(end)
<1>3. e \in 0 .. Len(s)
  <2>. HIDE DEF Fits
  <2>. QED
    BY <1>2
<1>4. Trimmed(s) = SubSeq(s, 1, e)
  BY DEF Trimmed
<1>. HIDE DEF e
<1>. QED
  BY <1>1, <1>3, <1>4

(* Before() orders strings as dictionaries do: the first place in which    *)
(* they differ decides.                                                    *)
LEMMA BeforeTotal ==
    ASSUME NEW s \in Seq(Octet), NEW t \in Seq(Octet), s # t
    PROVE  Before(s, t) \/ Before(t, s)
<1>. DEFINE D == {i \in Nat \ {0} : i > Len(s) \/ i > Len(t) \/ s[i] # t[i]}
<1>0. /\ Len(s) \in Nat /\ Len(t) \in Nat
      /\ \A i \in 1 .. Len(s) : s[i] \in Nat
      /\ \A i \in 1 .. Len(t) : t[i] \in Nat
  BY Octets
<1>1. D \in SUBSET Nat /\ Len(s) + 1 \in D
  BY <1>0
<1>2. PICK i \in D : \A j \in D : i <= j
  BY <1>1, LeastNumber
<1>3. /\ i \in Nat \ {0} /\ (i > Len(s) \/ i > Len(t) \/ s[i] # t[i])
      /\ \A j \in 1 .. i - 1 : j <= Len(s) /\ j <= Len(t) /\ s[j] = t[j]
  <2>1. i \in Nat \ {0} /\ (i > Len(s) \/ i > Len(t) \/ s[i] # t[i])
    OBVIOUS
  <2>2. ASSUME NEW j \in 1 .. i - 1 PROVE j <= Len(s) /\ j <= Len(t) /\ s[j] = t[j]
    <3>1. j \in Nat \ {0} /\ ~ (i <= j)
      BY <2>1
    <3>2. j \notin D
      BY <1>2, <3>1
    <3>. QED
      BY <1>0, <3>1, <3>2
  <2>. QED
    BY <2>1, <2>2
<1>. HIDE DEF D
<1>4. i <= Len(s) + 1 /\ i <= Len(t) + 1
  <2>1. CASE i = 1
    BY <1>0, <2>1
  <2>2. CASE i # 1
    <3>1. i - 1 \in 1 .. i - 1
      BY <1>3, <2>2
    <3>. QED
      BY <1>0, <1>3, <3>1
  <2>. QED
    BY <2>1, <2>2
<1>5. CASE i > Len(s) /\ i <= Len(t)
  BY <1>0, <1>3, <1>4, <1>5 DEF Before
<1>6. CASE i > Len(t) /\ i <= Len(s)
  BY <1>0, <1>3, <1>4, <1>6 DEF Before
<1>7. CASE i <= Len(s) /\ i <= Len(t)
  <2>1. s[i] \in Nat /\ t[i] \in Nat /\ s[i] # t[i]
    BY <1>0, <1>3, <1>7
  <2>2. CASE s[i] < t[i]
    BY <1>0, <1>3, <1>7, <2>2 DEF Before
  <2>3. CASE t[i] < s[i]
    BY <1>0, <1>3, <1>7, <2>3 DEF Before
  <2>. QED
    BY <2>1, <2>2, <2>3
<1>8. CASE i > Len(s) /\ i > Len(t)
  <2>1. Len(s) = Len(t) /\ i - 1 = Len(s)
    BY <1>0, <1>3, <1>4, <1>8
  <2>2. \A j \in 1 .. Len(s) : s[j] = t[j]
    BY <1>3, <2>1
  <2>. QED
    BY <2>1, <2>2
<1>. QED
  BY <1>0, <1>3, <1>5, <1>6, <1>7, <1>8

LEMMA BeforeStrict ==
    ASSUME NEW s \in Seq(Octet), NEW t \in Seq(Octet), Before(s, t)
    PROVE  ~Before(t, s) /\ s # t
<1>0. /\ Len(s) \in Nat /\ Len(t) \in Nat
      /\ \A i \in 1 .. Len(s) : s[i] \in Nat
      /\ \A i \in 1 .. Len(t) : t[i] \in Nat
  BY Octets
<1>1. PICK i \in 1 .. Len(t) :
         /\ \A j \in 1 .. i - 1 : j <= Len(s) /\ s[j] = t[j]
         /\ IF i > Len(s) THEN i = Len(s) + 1 ELSE s[i] < t[i]
  BY DEF Before
<1>2. ASSUME Before(t, s) PROVE FALSE
  <2>1. PICK k \in 1 .. Len(s) :
           /\ \A j \in 1 .. k - 1 : j <= Len(t) /\ t[j] = s[j]
           /\ IF k > Len(t) THEN k = Len(t) + 1 ELSE t[k] < s[k]
    BY <1>2 DEF Before
  <2>2. CASE i < k
    <3>1. i \in 1 .. k - 1 /\ i \in 1 .. Len(s)
      BY <1>0, <2>2
    <3>2. t[i] = s[i]
      BY <2>1, <3>1
    <3>. QED
      BY <1>0, <1>1, <3>1, <3>2
  <2>3. CASE k < i
    <3>1. k \in 1 .. i - 1 /\ k \in 1 .. Len(t)
      BY <1>0, <2>3
    <3>2. t[k] = s[k]
      BY <1>1, <3>1
    <3>. QED
      BY <1>0, <2>1, <3>1, <3>2
  <2>4. CASE i = k
    <3>1. i \in 1 .. Len(s) /\ i \in 1 .. Len(t)
      BY <2>4
    <3>2. s[i] \in Nat /\ t[i] \in Nat /\ ~ (i > Len(s)) /\ ~ (i > Len(t))
      BY <1>0, <3>1
    <3>3. s[i] < t[i] /\ t[i] < s[i]
      BY <1>1, <2>1, <2>4, <3>2
    <3>. QED
      BY <3>2, <3>3
  <2>5. i \in Nat /\ k \in Nat
    BY <1>0
  <2>. QED
    BY <2>2, <2>3, <2>4, <2>5
<1>3. ASSUME s = t PROVE FALSE
  BY <1>0, <1>1, <1>3
<1>. QED
  BY <1>2, <1>3

LEMMA BeforeChain ==
    ASSUME NEW s \in Seq(Octet), NEW t \in Seq(Octet), NEW u \in Seq(Octet),
           Before(s, t), Before(t, u)
    PROVE  Before(s, u)
<1>0. /\ Len(s) \in Nat /\ Len(t) \in Nat /\ Len(u) \in Nat
      /\ \A i \in 1 .. Len(s) : s[i] \in Nat
      /\ \A i \in 1 .. Len(t) : t[i] \in Nat
      /\ \A i \in 1 .. Len(u) : u[i] \in Nat
  BY Octets
<1>1. PICK i \in 1 .. Len(t) :
         /\ \A j \in 1 .. i - 1 : j <= Len(s) /\ s[j] = t[j]
         /\ IF i > Len(s) THEN i = Len(s) + 1 ELSE s[i] < t[i]
  BY DEF Before
<1>2. PICK k \in 1 .. Len(u) :
         /\ \A j \in 1 .. k - 1 : j <= Len(t) /\ t[j] = u[j]
         /\ IF k > Len(t) THEN k = Len(t) + 1 ELSE t[k] < u[k]
  BY DEF Before
<1>3. CASE i < k
  <2>1. i \in 1 .. Len(u) /\ i \in 1 .. k - 1
    BY <1>0, <1>3
  <2>2. t[i] = u[i] /\ \A j \in 1 .. i - 1 : j \in 1 .. k - 1
    BY <1>0, <1>2, <1>3, <2>1
  <2>3. \A j \in 1 .. i - 1 : j <= Len(s) /\ s[j] = u[j]
    BY <1>1, <1>2, <2>2
  <2>4. IF i > Len(s) THEN i = Len(s) + 1 ELSE s[i] < u[i]
    BY <1>1, <2>2
  <2>. QED
    BY <2>1, <2>3, <2>4 DEF Before
<1>4. CASE i = k
  <2>1. \A j \in 1 .. k - 1 : j <= Len(s) /\ s[j] = u[j]
    BY <1>1, <1>2, <1>4
  <2>2. t[k] < u[k]
    BY <1>0, <1>2, <1>4
  <2>3. IF k > Len(s) THEN k = Len(s) + 1 ELSE s[k] < u[k]
    <3>1. CASE k > Len(s)
      BY <1>1, <1>4, <3>1
    <3>2. CASE ~ (k > Len(s))
      <4>1. s[k] < t[k] /\ s[k] \in Nat /\ t[k] \in Nat /\ u[k] \in Nat
        BY <1>0, <1>1, <1>4, <3>2
      <4>2. s[k] < u[k]
        BY <2>2, <4>1
      <4>. QED
        BY <3>2, <4>2
    <3>. QED
      BY <3>1, <3>2
  <2>. QED
    BY <2>1, <2>3 DEF Before
<1>5. CASE k < i
  <2>1. k \in 1 .. i - 1 /\ \A j \in 1 .. k - 1 : j \in 1 .. i - 1
    BY <1>0, <1>5
  <2>2. k <= Len(s) /\ s[k] = t[k] /\ k <= Len(t)
    BY <1>0, <1>1, <1>5, <2>1
  <2>3. t[k] < u[k]
    BY <1>0, <1>2, <2>2
  <2>4. \A j \in 1 .. k - 1 : j <= Len(s) /\ s[j] = u[j]
    BY <1>1, <1>2, <2>1
  <2>5. IF k > Len(s) THEN k = Len(s) + 1 ELSE s[k] < u[k]
    BY <1>0, <2>2, <2>3
  <2>. QED
    BY <2>4, <2>5 DEF Before
<1>. QED
  BY <1>0, <1>3, <1>4, <1>5

(* What two values that hold the same alternative are compared by.         *)
ContentLess(v, w) ==
    IF Chars(v.holds) THEN Before(Compared(v), Compared(w)) ELSE v.value < w.value

LEMMA ContentOrder ==
    ASSUME NEW v \in AValue, NEW w \in AValue, v.holds = w.holds
    PROVE  /\ ContentLess(v, w) => ~ContentLess(w, v) /\ Compared(v) # Compared(w)
           /\ ContentLess(v, w) \/ ContentLess(w, v) \/ Compared(v) = Compared(w)
           /\ \A x \in AValue : x.holds = w.holds =>
                 /\ ContentLess(v, w) /\ ContentLess(w, x) => ContentLess(v, x)
                 /\ Compared(v) = Compared(w) =>
                       /\ ContentLess(v, x) <=> ContentLess(w, x)
                       /\ ContentLess(x, v) <=> ContentLess(x, w)
<1>1. \A x \in AValue : Chars(x.holds) => Compared(x) \in Seq(Octet)
  <2>. SUFFICES ASSUME NEW x \in AValue, Chars(x.holds) PROVE Compared(x) \in Seq(Octet)
    OBVIOUS
  <2>1. x.value \in Seq(Octet)
    <3>1. x.value \in Contents(x.holds)
      BY DEF AValue
    <3>. QED
      BY <3>1, ContentsAre
  <2>. QED
    BY <2>1, TrimmedIs DEF Compared
<1>2. \A x \in AValue : ~Chars(x.holds) => x.value \in Int /\ Compared(x) = x.value
  <2>. SUFFICES ASSUME NEW x \in AValue, ~Chars(x.holds)
                PROVE  x.value \in Int /\ Compared(x) = x.value
    OBVIOUS
  <2>1. x.value \in Contents(x.holds)
    BY DEF AValue
  <2>2. x.value \in Int
    BY <2>1, ContentsAre
  <2>3. x.holds # "CHAR"
    BY DEF Chars
  <2>. QED
    BY <2>2, <2>3 DEF Compared
<1>3. CASE Chars(v.holds)
  <2>1. \A x, y \in AValue : x.holds = v.holds /\ y.holds = v.holds =>
           /\ Compared(x) \in Seq(Octet) /\ Compared(y) \in Seq(Octet)
           /\ ContentLess(x, y) <=> Before(Compared(x), Compared(y))
    BY <1>1, <1>3 DEF ContentLess
  <2>2. ContentLess(v, w) => ~ContentLess(w, v) /\ Compared(v) # Compared(w)
    BY <2>1, BeforeStrict
  <2>3. ContentLess(v, w) \/ ContentLess(w, v) \/ Compared(v) = Compared(w)
    BY <2>1, BeforeTotal
  <2>4. ASSUME NEW x \in AValue, x.holds = w.holds
        PROVE  /\ ContentLess(v, w) /\ ContentLess(w, x) => ContentLess(v, x)
               /\ Compared(v) = Compared(w) =>
                     /\ ContentLess(v, x) <=> ContentLess(w, x)
                     /\ ContentLess(x, v) <=> ContentLess(x, w)
    BY <2>1, <2>4, BeforeChain
  <2>. QED
    BY <2>2, <2>3, <2>4
<1>4. CASE ~Chars(v.holds)
  <2>1. \A x, y \in AValue : x.holds = v.holds /\ y.holds = v.holds =>
           /\ x.value \in Int /\ Compared(x) = x.value
           /\ y.value \in Int /\ Compared(y) = y.value
           /\ ContentLess(x, y) <=> x.value < y.value
    BY <1>2, <1>4 DEF ContentLess
  <2>2. ContentLess(v, w) => ~ContentLess(w, v) /\ Compared(v) # Compared(w)
    BY <2>1
  <2>3. ContentLess(v, w) \/ ContentLess(w, v) \/ Compared(v) = Compared(w)
    BY <2>1
  <2>4. ASSUME NEW x \in AValue, x.holds = w.holds
        PROVE  /\ ContentLess(v, w) /\ ContentLess(w, x) => ContentLess(v, x)
               /\ Compared(v) = Compared(w) =>
                     /\ ContentLess(v, x) <=> ContentLess(w, x)
                     /\ ContentLess(x, v) <=> ContentLess(x, w)
    BY <2>1, <2>4
  <2>. QED
    BY <2>2, <2>3, <2>4
<1>. QED
  BY <1>3, <1>4

(* The four things a comparison looks at, one after the other.             *)
LEMMA LessIs ==
    ASSUME NEW v \in AValue, NEW w \in AValue
    PROVE  Less(v, w) <=>
              \/ Place(ArrrType, v.type) < Place(ArrrType, w.type)
              \/ v.type = w.type /\ ~v.is_null /\ w.is_null
              \/ v.type = w.type /\ ~v.is_null /\ ~w.is_null /\ Place(Data, v.holds) < Place(Data, w.holds)
              \/ v.type = w.type /\ ~v.is_null /\ ~w.is_null /\ v.holds = w.holds /\ ContentLess(v, w)
<1>1. /\ v.type \in Types \cup {"UNDEFINED"} /\ w.type \in Types \cup {"UNDEFINED"}
      /\ v.holds \in Types /\ w.holds \in Types
      /\ v.is_null \in BOOLEAN /\ w.is_null \in BOOLEAN
  BY DEF AValue
<1>2. /\ Place(ArrrType, v.type) \in Int /\ Place(ArrrType, w.type) \in Int
      /\ Place(Data, v.holds) \in Int /\ Place(Data, w.holds) \in Int
  BY <1>1, Places
<1>. QED
  BY <1>1, <1>2 DEF Less, ContentLess

LEMMA OrderOfValues ==
    ASSUME NEW v \in AValue, NEW w \in AValue
    PROVE  /\ Less(v, w) => ~Less(w, v) /\ ~Equal(v, w)
           /\ Less(v, w) \/ Less(w, v) \/ Equal(v, w)
           /\ \A x \in AValue :
                 /\ Less(v, w) /\ Less(w, x) => Less(v, x)
                 /\ Equal(v, w) => (Less(v, x) <=> Less(w, x)) /\ (Equal(v, x) <=> Equal(w, x))
<1>. DEFINE P(x) == Place(ArrrType, x.type)
            H(x) == Place(Data, x.holds)
<1>1. \A x \in AValue : P(x) \in Int /\ H(x) \in Int /\ x.is_null \in BOOLEAN
  <2>. SUFFICES ASSUME NEW x \in AValue PROVE P(x) \in Int /\ H(x) \in Int /\ x.is_null \in BOOLEAN
    OBVIOUS
  <2>1. x.type \in Types \cup {"UNDEFINED"} /\ x.holds \in Types /\ x.is_null \in BOOLEAN
    BY DEF AValue
  <2>. QED
    BY <2>1, Places
<1>2. \A x, y \in AValue : (P(x) = P(y) <=> x.type = y.type) /\ (H(x) = H(y) <=> x.holds = y.holds)
  <2>. SUFFICES ASSUME NEW x \in AValue, NEW y \in AValue
                PROVE  (P(x) = P(y) <=> x.type = y.type) /\ (H(x) = H(y) <=> x.holds = y.holds)
    OBVIOUS
  <2>1. /\ x.type \in Types \cup {"UNDEFINED"} /\ x.holds \in Types
        /\ y.type \in Types \cup {"UNDEFINED"} /\ y.holds \in Types
    BY DEF AValue
  <2>. QED
    BY <2>1, Places
<1>3. \A x, y \in AValue :
         Less(x, y) <=> \/ P(x) < P(y)
                        \/ P(x) = P(y) /\ ~x.is_null /\ y.is_null
                        \/ P(x) = P(y) /\ ~x.is_null /\ ~y.is_null /\ H(x) < H(y)
                        \/ P(x) = P(y) /\ ~x.is_null /\ ~y.is_null /\ H(x) = H(y) /\ ContentLess(x, y)
  BY <1>2, LessIs
<1>4. \A x, y \in AValue :
         Equal(x, y) <=> /\ P(x) = P(y) /\ x.is_null = y.is_null
                         /\ x.is_null \/ (H(x) = H(y) /\ Compared(x) = Compared(y))
  BY <1>2 DEF Equal
<1>. HIDE DEF P, H
<1>5. H(v) = H(w) =>
         /\ ContentLess(v, w) => ~ContentLess(w, v) /\ Compared(v) # Compared(w)
         /\ ContentLess(v, w) \/ ContentLess(w, v) \/ Compared(v) = Compared(w)
         /\ \A x \in AValue : H(x) = H(w) =>
               /\ ContentLess(v, w) /\ ContentLess(w, x) => ContentLess(v, x)
               /\ Compared(v) = Compared(w) =>
                     /\ ContentLess(v, x) <=> ContentLess(w, x)
                     /\ ContentLess(x, v) <=> ContentLess(x, w)
  BY <1>2, ContentOrder
<1>6. Less(v, w) => ~Less(w, v) /\ ~Equal(v, w)
  BY <1>1, <1>3, <1>4, <1>5
<1>7. Less(v, w) \/ Less(w, v) \/ Equal(v, w)
  BY <1>1, <1>3, <1>4, <1>5
<1>8. ASSUME NEW x \in AValue, Less(v, w), Less(w, x) PROVE Less(v, x)
  BY <1>1, <1>3, <1>5, <1>8
<1>9. ASSUME NEW x \in AValue, Equal(v, w) PROVE Less(v, x) <=> Less(w, x)
  BY <1>1, <1>3, <1>4, <1>5, <1>9
<1>10. ASSUME NEW x \in AValue, Equal(v, w) PROVE Equal(v, x) <=> Equal(w, x)
  BY <1>1, <1>4, <1>10
<1>. QED
  BY <1>6, <1>7, <1>8, <1>9, <1>10

-----------------------------------------------------------------------------
(* The bytes of a number.                                                  *)
LEMMA Powers ==
    /\ Power[1] = 1 /\ Power[2] = 256 /\ Power[3] = 256 * 256 /\ Power[4] = 256 * (256 * 256)
    /\ Power[4] \in Nat \ {0} /\ Power[3] \in Nat \ {0} /\ Power[4] = 2 * Limit
  BY DEF Power, Limit

LEMMA BytesType ==
    ASSUME NEW num \in Int, NEW width \in Nat
    PROVE  /\ Bytes(num, width) \in Seq(Octet) /\ Len(Bytes(num, width)) = width
           /\ \A i \in 1 .. width : Bytes(num, width)[i] = (num \div Power[IF i > 3 THEN 4 ELSE i]) % 256
<1>1. \A i \in 1 .. width : (num \div Power[IF i > 3 THEN 4 ELSE i]) % 256 \in Octet
  <2>. SUFFICES ASSUME NEW i \in 1 .. width
                PROVE  (num \div Power[IF i > 3 THEN 4 ELSE i]) % 256 \in Octet
    OBVIOUS
  <2>1. Power[IF i > 3 THEN 4 ELSE i] \in Nat \ {0}
    <3>1. i \in 1 .. 3 \/ i > 3
      OBVIOUS
    <3>2. i \in 1 .. 3 => i = 1 \/ i = 2 \/ i = 3
      OBVIOUS
    <3>. QED
      BY <3>1, <3>2, Powers
  <2>2. num \div Power[IF i > 3 THEN 4 ELSE i] \in Int
    BY <2>1
  <2>. QED
    BY <2>2 DEF Octet
<1>2. Bytes(num, width) \in [1 .. width -> Octet]
  BY <1>1 DEF Bytes
<1>3. Bytes(num, width) \in Seq(Octet)
  BY <1>2
<1>4. Len(Bytes(num, width)) = width
  BY <1>2, <1>3, LenOfFunction
<1>. QED
  BY <1>3, <1>4 DEF Bytes

(* Two's complement: from 4 or 8 bytes the number comes back.              *)
LEMMA NumberOfBytes ==
    ASSUME NEW n \in -Limit .. Limit - 1, NEW w \in {4, 8}
    PROVE  Number(Bytes(n, w)) = n
<1>. DEFINE b == Bytes(n, w)
            q == ((n \div 256) \div 256) \div 256
            r == (n % 256)
                    + (Power[2] * ((n \div 256) % 256) + Power[3] * (((n \div 256) \div 256) % 256))
<1>1. n \in Int /\ w \in Nat /\ 4 \in 1 .. w /\ w > 3 /\ w \in 1 .. w /\ Limit \in Nat
  BY ContentsAre
<1>2. /\ Len(b) = w
      /\ b[1] = (n \div 1) % 256 /\ b[2] = (n \div 256) % 256
      /\ b[3] = (n \div (256 * 256)) % 256 /\ b[w] = (n \div Power[4]) % 256
  <2>1. 1 \in 1 .. w /\ 2 \in 1 .. w /\ 3 \in 1 .. w
    BY <1>1
  <2>2. /\ b[1] = (n \div Power[1]) % 256 /\ b[2] = (n \div Power[2]) % 256
        /\ b[3] = (n \div Power[3]) % 256 /\ b[w] = (n \div Power[4]) % 256
    BY <1>1, <2>1, BytesType
  <2>3. Len(b) = w
    BY <1>1, BytesType
  <2>. HIDE DEF b
  <2>. QED
    BY <2>2, <2>3, Powers
<1>3. n \div 1 = n /\ n \div (256 * 256) = (n \div 256) \div 256
  BY <1>1
<1>4. n \div Power[4] = q
  BY <1>1 DEF Power
<1>5. n = Power[4] * q + r /\ r \in 0 .. Power[4] - 1 /\ q \in Int
  <2>1. \A m \in Int : m % 256 \in 0 .. 255 /\ m \div 256 \in Int /\ m = 256 * (m \div 256) + (m % 256)
    OBVIOUS
  <2>2. /\ n % 256 \in 0 .. 255 /\ (n \div 256) % 256 \in 0 .. 255
        /\ ((n \div 256) \div 256) % 256 \in 0 .. 255 /\ q \in Int
        /\ n \div 256 \in Int /\ (n \div 256) \div 256 \in Int
    BY <1>1, <2>1
  <2>3. n = 256 * (n \div 256) + (n % 256)
    BY <1>1, <2>1
  <2>4. n \div 256 = 256 * ((n \div 256) \div 256) + ((n \div 256) % 256)
    BY <2>1, <2>2
  <2>5. (n \div 256) \div 256 = 256 * q + (((n \div 256) \div 256) % 256)
    BY <2>1, <2>2
  <2>. DEFINE n1 == n \div 256
              n2 == n1 \div 256
              d0 == n % 256
              d1 == n1 % 256
              d2 == n2 % 256
  <2>6. /\ n1 \in Int /\ n2 \in Int /\ q \in Int
        /\ d0 \in 0 .. 255 /\ d1 \in 0 .. 255 /\ d2 \in 0 .. 255
        /\ n = 256 * n1 + d0 /\ n1 = 256 * n2 + d1 /\ n2 = 256 * q + d2
    BY <2>2, <2>3, <2>4, <2>5
  <2>7. r = d0 + (Power[2] * d1 + Power[3] * d2)
    OBVIOUS
  <2>. HIDE DEF q, n1, n2, d0, d1, d2, r
  <2>8. Power[2] = 256 /\ Power[3] = 256 * 256 /\ Power[4] = 256 * (256 * 256)
    BY Powers
  <2>9. n = (256 * (256 * 256)) * q + (d0 + (256 * d1 + (256 * 256) * d2))
    BY <1>1, <2>6
  <2>10. d0 + (256 * d1 + (256 * 256) * d2) <= (256 * (256 * 256)) - 1
    BY <2>6
  <2>11. d0 + (256 * d1 + (256 * 256) * d2) \in Nat
    BY <2>6
  <2>12. /\ \A u \in Nat, z \in Int : u <= z - 1 => u \in 0 .. z - 1
         /\ 256 * (256 * 256) \in Int
    OBVIOUS
  <2>. QED
    <3>1. r = d0 + (256 * d1 + (256 * 256) * d2)
      BY Zenon, <2>7, <2>8
    <3>2. n = (256 * (256 * 256)) * q + r
      BY Zenon, <2>9, <3>1
    <3>3. r \in 0 .. (256 * (256 * 256)) - 1
      BY Zenon, <2>10, <2>11, <2>12, <3>1
    <3>. QED
      BY Zenon, <2>6, <2>8, <3>2, <3>3
<1>. HIDE DEF q
<1>6. q = 0 \/ q = -1
  <2>. DEFINE P == Power[4]
  <2>1. P \in Nat \ {0} /\ P = 2 * Limit /\ r \in 0 .. P - 1 /\ n = P * q + r
    BY <1>5, Powers
  <2>. HIDE DEF r, P
  <2>2. ~ (q >= 1)
    <3>. SUFFICES ASSUME q >= 1 PROVE FALSE
      OBVIOUS
    <3>1. P * q >= P
      BY <1>5, <2>1
    <3>. QED
      BY <1>1, <1>5, <2>1, <3>1
  <2>3. ~ (q <= -2)
    <3>. SUFFICES ASSUME q <= -2 PROVE FALSE
      OBVIOUS
    <3>1. P * q <= P * (-2)
      BY <1>5, <2>1
    <3>. QED
      BY <1>1, <1>5, <2>1, <3>1
  <2>. QED
    BY <1>5, <2>2, <2>3
<1>7. q % 256 = IF q = 0 THEN 0 ELSE 255
  BY <1>6
<1>8. Number(b) = IF q % 256 > 127 THEN r - Power[4] ELSE r
  <2>1. b[1] + (Power[2] * b[2] + Power[3] * b[3]) = r
    BY <1>2, <1>3, Powers
  <2>2. Len(b) > 2 /\ b[Len(b)] = q % 256
    BY <1>1, <1>2, <1>4
  <2>. HIDE DEF b, r
  <2>. QED
    BY <2>1, <2>2 DEF Number
<1>. HIDE DEF r, b
<1>9. CASE q = 0
  <2>1. Number(b) = r
    BY <1>7, <1>8, <1>9
  <2>2. Power[4] * q = 0
    BY <1>9, Powers
  <2>. QED
    BY <1>1, <1>5, <2>1, <2>2 DEF b
<1>10. CASE q = -1
  <2>1. Number(b) = r - Power[4]
    BY <1>7, <1>8, <1>10
  <2>2. Power[4] * q = -Power[4]
    BY <1>10, Powers
  <2>. QED
    <3>1. Power[4] \in Int
      BY Powers
    <3>2. Number(b) = n
      BY <1>5, <2>1, <2>2, <3>1
    <3>. QED
      BY <3>2 DEF b
<1>. QED
  BY <1>6, <1>9, <1>10 DEF b

LEMMA OneByte ==
    ASSUME NEW n \in Int
    PROVE  Len(Bytes(n, 1)) = 1 /\ Bytes(n, 1)[1] = (n \div 1) % 256
<1>1. 1 \in Nat /\ 1 \in 1 .. 1 /\ ~ (1 > 3)
  OBVIOUS
<1>2. Len(Bytes(n, 1)) = 1
  BY BytesType
<1>4. Bytes(n, 1)[1] = (n \div Power[1]) % 256
  BY <1>1 DEF Bytes
<1>3. Power[1] = 1
  BY Powers
<1>. QED
  BY <1>2, <1>3, <1>4

(* A type's place needs one byte, and of a boolean there is one.           *)
LEMMA NumberOfSmall ==
    /\ \A n \in 0 .. 6 : Number(Bytes(n, 4)) = n /\ Bytes(n, 4)[2] = 0
    /\ \A n \in {0, 1} : Number(Bytes(n, 1)) = n
<1>0. Limit \in Nat /\ 6 < Limit
  BY DEF Limit
<1>1. \A n \in 0 .. 6 : n \in -Limit .. Limit - 1
  BY <1>0
<1>2. ASSUME NEW n \in 0 .. 6 PROVE Number(Bytes(n, 4)) = n /\ Bytes(n, 4)[2] = 0
  <2>1. Number(Bytes(n, 4)) = n
    BY <1>1, NumberOfBytes
  <2>2. Bytes(n, 4)[2] = (n \div 256) % 256
    <3>1. n \in Int /\ 4 \in Nat /\ 2 \in 1 .. 4 /\ ~ (2 > 3)
      OBVIOUS
    <3>2. Bytes(n, 4)[2] = (n \div Power[2]) % 256
      BY <3>1, BytesType
    <3>. QED
      BY <3>2, Powers
  <2>3. n \div 256 = 0
    OBVIOUS
  <2>4. 0 % 256 = 0
    OBVIOUS
  <2>. QED
    BY <2>1, <2>2, <2>3, <2>4
<1>3. ASSUME NEW n \in {0, 1} PROVE Number(Bytes(n, 1)) = n
  <2>2. Len(Bytes(n, 1)) = 1 /\ Bytes(n, 1)[1] = (n \div 1) % 256
    BY OneByte
  <2>3. (n \div 1) % 256 = n
    OBVIOUS
  <2>. QED
    BY <2>2, <2>3 DEF Number
<1>. QED
  BY <1>2, <1>3

-----------------------------------------------------------------------------
(* What can be written: what std::get<>() does not throw at.               *)
Stored == {v \in AValue : ~GetThrows(v)}

LEMMA StoredIs ==
    ASSUME NEW v \in Stored
    PROVE  /\ v \in AValue /\ v.is_null \in BOOLEAN /\ v.type \in Types \cup {"UNDEFINED"}
           /\ v = [type |-> v.type, is_null |-> v.is_null, holds |-> v.holds, value |-> v.value]
           /\ ~v.is_null /\ v.type # "UNDEFINED" => v.holds = v.type /\ v.type \in Types
           /\ ~v.is_null /\ Chars(v.type) => v.value \in Seq(Octet) /\ Len(v.value) \in 0 .. Limit - 1
           /\ ~v.is_null /\ v.type = "BOOLEAN" => v.value \in {0, 1}
           /\ ~v.is_null /\ v.type \in Types /\ ~Chars(v.type) => v.value \in -Limit .. Limit - 1
<1>1. /\ v \in AValue /\ v.is_null \in BOOLEAN /\ v.type \in Types \cup {"UNDEFINED"}
      /\ v.value \in Contents(v.holds) /\ ~GetThrows(v)
      /\ v = [type |-> v.type, is_null |-> v.is_null, holds |-> v.holds, value |-> v.value]
  BY DEF Stored, AValue
<1>2. ~v.is_null /\ v.type # "UNDEFINED" => v.holds = v.type /\ v.type \in Types
  BY <1>1 DEF GetThrows
<1>3. Chars(v.type) \/ v.type = "BOOLEAN" => v.type # "UNDEFINED"
  BY DEF Chars
<1>4. ~v.is_null /\ v.type # "UNDEFINED" => v.value \in Contents(v.type)
  BY <1>1, <1>2
<1>5. "UNDEFINED" \notin Types
  BY Places
<1>6. ASSUME ~v.is_null, Chars(v.type)
      PROVE  v.value \in Seq(Octet) /\ Len(v.value) \in 0 .. Limit - 1
  <2>1. v.value \in {s \in Seq(Octet) : Len(s) < Limit} /\ Limit \in Nat
    BY <1>3, <1>4, <1>6, ContentsAre
  <2>2. v.value \in Seq(Octet) /\ Len(v.value) < Limit
    BY <2>1
  <2>3. Len(v.value) \in Nat
    BY <2>2
  <2>. QED
    BY <2>1, <2>2, <2>3
<1>7. ~v.is_null /\ v.type = "BOOLEAN" => v.value \in {0, 1}
  BY <1>3, <1>4, ContentsAre
<1>8. ~v.is_null /\ v.type \in Types /\ ~Chars(v.type) => v.value \in -Limit .. Limit - 1
  BY <1>4, <1>5, ContentsAre
<1>. QED
  BY <1>1, <1>2, <1>6, <1>7, <1>8

(* One string of octets behind the other.                                  *)
LEMMA Joined ==
    ASSUME NEW s \in Seq(Octet), NEW t \in Seq(Octet)
    PROVE  /\ s \o t \in Seq(Octet) /\ Len(s \o t) = Len(s) + Len(t)
           /\ Len(s) \in Nat /\ Len(t) \in Nat
           /\ \A j \in 1 .. Len(s) : (s \o t)[j] = s[j]
           /\ \A j \in 1 .. Len(t) : (s \o t)[Len(s) + j] = t[j]
<1>1. /\ s \o t \in Seq(Octet) /\ Len(s \o t) = Len(s) + Len(t)
      /\ Len(s) \in Nat /\ Len(t) \in Nat
  OBVIOUS
<1>2. ASSUME NEW j \in 1 .. Len(s) PROVE (s \o t)[j] = s[j]
  BY <1>1
<1>3. ASSUME NEW j \in 1 .. Len(t) PROVE (s \o t)[Len(s) + j] = t[j]
  <2>1. Len(s) + j \in 1 .. Len(s) + Len(t) /\ ~ (Len(s) + j <= Len(s)) /\ (Len(s) + j) - Len(s) = j
    BY <1>1
  <2>. DEFINE i == Len(s) + j
  <2>2. i \in 1 .. Len(s) + Len(t) /\ ~ (i <= Len(s)) /\ i - Len(s) = j
    BY <2>1
  <2>. HIDE DEF i
  <2>3. (s \o t)[i] = t[i - Len(s)]
    BY <1>1, <2>2
  <2>. QED
    BY <2>2, <2>3 DEF i
<1>. QED
  BY <1>1, <1>2, <1>3

(* What stands behind the type and the null mark.                          *)
LEMMA PayloadIs ==
    ASSUME NEW v \in Stored
    PROVE  /\ Payload(v) \in Seq(Octet)
           /\ 5 + Len(Payload(v)) = get_serialized_size(v)
           /\ v.is_null \/ v.type = "UNDEFINED" => Len(Payload(v)) = 0
           /\ ~v.is_null /\ Chars(v.type) =>
                 /\ Len(Payload(v)) = 4 + Len(v.value)
                 /\ \A j \in 1 .. 4 : Payload(v)[j] = Bytes(Len(v.value), 4)[j]
                 /\ \A j \in 1 .. Len(v.value) : Payload(v)[4 + j] = v.value[j]
           /\ ~v.is_null /\ v.type \in Types /\ ~Chars(v.type) =>
                 Payload(v) = Bytes(v.value, Width(v.type)) /\ Len(Payload(v)) = Width(v.type)
<1>1. CASE v.is_null \/ v.type = "UNDEFINED"
  <2>1. Payload(v) = <<>> /\ get_serialized_size(v) = 5 + 0
    BY <1>1 DEF Payload, get_serialized_size
  <2>2. "UNDEFINED" \notin Types /\ ~Chars("UNDEFINED")
    BY Places DEF Chars
  <2>3. <<>> \in Seq(Octet) /\ Len(<<>>) = 0
    OBVIOUS
  <2>. QED
    BY <1>1, <2>1, <2>2, <2>3
<1>2. CASE ~v.is_null /\ Chars(v.type)
  <2>. DEFINE b == Bytes(Len(v.value), 4)
              z == v.value
  <2>1. v.type # "UNDEFINED"
    BY <1>2 DEF Chars
  <2>2. Payload(v) = b \o z /\ get_serialized_size(v) = 5 + (4 + Len(z))
    BY <1>2, <2>1 DEF Payload, get_serialized_size
  <2>3. z \in Seq(Octet) /\ Len(z) \in Nat
    BY <1>2, StoredIs
  <2>4. b \in Seq(Octet) /\ Len(b) = 4
    <3>1. Len(z) \in Int /\ 4 \in Nat
      BY <2>3
    <3>. QED
      BY <3>1, BytesType
  <2>5. \A i \in 1 .. Len(z) : i \in Nat
    BY <2>3
  <2>. HIDE DEF b, z
  <2>6. /\ b \o z \in Seq(Octet) /\ Len(b \o z) = 4 + Len(z)
        /\ \A j \in 1 .. 4 : (b \o z)[j] = b[j]
        /\ \A j \in 1 .. Len(z) : (b \o z)[4 + j] = z[j]
    <3>1. /\ b \o z \in Seq(Octet) /\ Len(b \o z) = Len(b) + Len(z)
          /\ \A j \in 1 .. Len(b) : (b \o z)[j] = b[j]
          /\ \A j \in 1 .. Len(z) : (b \o z)[Len(b) + j] = z[j]
      BY <2>3, <2>4, Joined
    <3>. QED
      BY <2>4, <3>1
  <2>7. 5 + (4 + Len(z)) = get_serialized_size(v)
    BY <2>2
  <2>. QED
    BY <1>2, <2>1, <2>2, <2>6, <2>7 DEF b, z
<1>3. CASE ~v.is_null /\ v.type # "UNDEFINED" /\ ~Chars(v.type)
  <2>1. v.type \in Types /\ v.value \in Int
    <3>1. v.type \in Types
      BY <1>3, StoredIs
    <3>2. v.value \in -Limit .. Limit - 1 /\ Limit \in Nat
      BY <1>3, <3>1, StoredIs, ContentsAre
    <3>. QED
      BY <3>1, <3>2
  <2>2. /\ Payload(v) = Bytes(v.value, Width(v.type))
        /\ get_serialized_size(v) = 5 + Width(v.type)
    BY <1>3 DEF Payload, get_serialized_size
  <2>3. Width(v.type) \in Nat
    BY DEF Width
  <2>4. Bytes(v.value, Width(v.type)) \in Seq(Octet) /\ Len(Bytes(v.value, Width(v.type))) = Width(v.type)
    BY <2>1, <2>3, BytesType
  <2>. QED
    BY <1>3, <2>2, <2>4
<1>4. v.is_null \in BOOLEAN
  BY StoredIs
<1>. QED
  BY <1>1, <1>2, <1>3, <1>4

LEMMA SerializedIs ==
    ASSUME NEW v \in Stored
    PROVE  LET s == serialize_to(v)
           IN  /\ s \in Seq(Octet) /\ Len(s) = get_serialized_size(v)
               /\ Len(s) \in Nat /\ Len(s) >= 5 /\ Len(s) = 5 + Len(Payload(v))
               /\ \A j \in 1 .. 4 : s[j] = Bytes(Place(ArrrType, v.type), 4)[j]
               /\ s[2] = 0
               /\ s[5] = IF v.is_null THEN 1 ELSE 0
               /\ \A j \in 1 .. Len(Payload(v)) : s[5 + j] = Payload(v)[j]
<1>. DEFINE h == Bytes(Place(ArrrType, v.type), 4)
            m == <<IF v.is_null THEN 1 ELSE 0>>
            p == Payload(v)
<1>1. Place(ArrrType, v.type) \in 0 .. 6
  BY StoredIs, Places
<1>2. h \in Seq(Octet) /\ Len(h) = 4 /\ h[2] = 0
  <2>1. Place(ArrrType, v.type) \in Int /\ 4 \in Nat
    BY <1>1
  <2>2. h \in Seq(Octet) /\ Len(h) = 4
    BY <2>1, BytesType
  <2>3. h[2] = 0
    BY <1>1, NumberOfSmall
  <2>. QED
    BY <2>2, <2>3
<1>3. m \in Seq(Octet) /\ Len(m) = 1 /\ m[1] = IF v.is_null THEN 1 ELSE 0
  <2>1. (IF v.is_null THEN 1 ELSE 0) \in Octet
    BY DEF Octet
  <2>. QED
    BY <2>1
<1>4. p \in Seq(Octet) /\ 5 + Len(p) = get_serialized_size(v) /\ Len(p) \in Nat
  <2>1. p \in Seq(Octet) /\ 5 + Len(p) = get_serialized_size(v)
    BY PayloadIs
  <2>. QED
    BY <2>1
<1>5. serialize_to(v) = (h \o m) \o p
  BY DEF serialize_to
<1>. HIDE DEF h, m, p
<1>6. /\ h \o m \in Seq(Octet) /\ Len(h \o m) = 5
      /\ \A j \in 1 .. 4 : (h \o m)[j] = h[j]
      /\ (h \o m)[5] = m[1]
  <2>1. /\ h \o m \in Seq(Octet) /\ Len(h \o m) = 4 + 1
        /\ \A j \in 1 .. 4 : (h \o m)[j] = h[j]
        /\ \A j \in 1 .. 1 : (h \o m)[4 + j] = m[j]
    <3>1. /\ h \o m \in Seq(Octet) /\ Len(h \o m) = Len(h) + Len(m)
          /\ \A j \in 1 .. Len(h) : (h \o m)[j] = h[j]
          /\ \A j \in 1 .. Len(m) : (h \o m)[Len(h) + j] = m[j]
      BY <1>2, <1>3, Joined
    <3>. QED
      BY <1>2, <1>3, <3>1
  <2>2. (h \o m)[4 + 1] = m[1]
    BY <2>1
  <2>. QED
    BY <2>1, <2>2
<1>. DEFINE g == h \o m
<1>7. /\ g \in Seq(Octet) /\ Len(g) = 5 /\ \A j \in 1 .. 4 : g[j] = h[j]
      /\ g[5] = m[1]
  BY <1>6
<1>. HIDE DEF g
<1>8. /\ g \o p \in Seq(Octet) /\ Len(g \o p) = 5 + Len(p)
      /\ \A j \in 1 .. 5 : (g \o p)[j] = g[j]
      /\ \A j \in 1 .. Len(p) : (g \o p)[5 + j] = p[j]
  <2>1. /\ g \o p \in Seq(Octet) /\ Len(g \o p) = Len(g) + Len(p)
        /\ \A j \in 1 .. Len(g) : (g \o p)[j] = g[j]
        /\ \A j \in 1 .. Len(p) : (g \o p)[Len(g) + j] = p[j]
    BY <1>4, <1>7, Joined
  <2>. QED
    BY <1>7, <2>1
<1>9. serialize_to(v) = g \o p
  BY <1>5 DEF g
<1>10. 2 \in 1 .. 4 /\ 5 \in 1 .. 5 /\ \A j \in 1 .. 4 : j \in 1 .. 5
  OBVIOUS
<1>11. Len(g \o p) >= 5 /\ Len(g \o p) \in Nat
  BY <1>4, <1>8
<1>. QED
  BY <1>2, <1>3, <1>4, <1>7, <1>8, <1>9, <1>10, <1>11 DEF h, p

-----------------------------------------------------------------------------
LEMMA SubSeqIs ==
    ASSUME NEW S, NEW s \in Seq(S), NEW t \in Seq(S), NEW k \in Nat,
           k + Len(t) <= Len(s), \A j \in 1 .. Len(t) : s[k + j] = t[j]
    PROVE  SubSeq(s, k + 1, k + Len(t)) = t
<1>1. Len(t) \in Nat /\ Len(s) \in Nat
  OBVIOUS
<1>2. /\ SubSeq(s, k + 1, k + Len(t)) \in Seq(S)
      /\ Len(SubSeq(s, k + 1, k + Len(t))) = Len(t)
      /\ \A j \in 1 .. Len(t) : SubSeq(s, k + 1, k + Len(t))[j] = s[k + j]
  BY <1>1
<1>. QED
  BY <1>1, <1>2

(* strlen() counts the octets before the first NUL, or before the end.     *)
LEMMA StrlenIs ==
    ASSUME NEW s \in Seq(Octet), NEW i \in 1 .. Len(s) + 1
    PROVE  /\ strlen(s, i) \in Nat
           /\ \A j \in Nat : j <= strlen(s, i) <=>
                 \A m \in 1 .. j : i + m - 1 <= Len(s) /\ s[i + m - 1] # 0
<1>1. Len(s) \in Nat /\ i \in Nat /\ Nuls(s, i) \in SUBSET Nat
  BY DEF Nuls
<1>2. CASE Nuls(s, i) = {}
  <2>1. strlen(s, i) = Len(s) + 1 - i
    BY <1>2 DEF strlen
  <2>2. \A k \in i .. Len(s) : s[k] # 0
    BY <1>2 DEF Nuls
  <2>3. ASSUME NEW j \in Nat, j <= strlen(s, i), NEW m \in 1 .. j
        PROVE  i + m - 1 <= Len(s) /\ s[i + m - 1] # 0
    <3>1. i + m - 1 \in i .. Len(s)
      BY <1>1, <2>1, <2>3
    <3>. QED
      BY <2>2, <3>1
  <2>4. ASSUME NEW j \in Nat, ~ (j <= strlen(s, i))
        PROVE  \E m \in 1 .. j : ~ (i + m - 1 <= Len(s))
    <3>1. j \in 1 .. j /\ ~ (i + j - 1 <= Len(s))
      BY <1>1, <2>1, <2>4
    <3>. QED
      BY <3>1
  <2>5. strlen(s, i) \in Nat
    BY <1>1, <2>1
  <2>. QED
    BY <2>3, <2>4, <2>5
<1>3. CASE Nuls(s, i) # {}
  <2>. DEFINE z == CHOOSE k \in Nuls(s, i) : \A m \in Nuls(s, i) : k <= m
  <2>1. z \in Nuls(s, i) /\ \A m \in Nuls(s, i) : z <= m
    BY <1>1, <1>3, LeastNumber
  <2>2. strlen(s, i) = z - i
    BY <1>3 DEF strlen
  <2>. HIDE DEF z
  <2>3. z \in i .. Len(s) /\ s[z] = 0
    BY <2>1 DEF Nuls
  <2>4. ASSUME NEW j \in Nat, j <= strlen(s, i), NEW m \in 1 .. j
        PROVE  i + m - 1 <= Len(s) /\ s[i + m - 1] # 0
    <3>1. i + m - 1 \in i .. Len(s) /\ ~ (z <= i + m - 1)
      BY <1>1, <2>2, <2>3, <2>4
    <3>2. i + m - 1 \notin Nuls(s, i)
      BY <2>1, <3>1
    <3>. QED
      BY <3>1, <3>2 DEF Nuls
  <2>5. ASSUME NEW j \in Nat, ~ (j <= strlen(s, i))
        PROVE  \E m \in 1 .. j : ~ (s[i + m - 1] # 0)
    <3>1. z - i + 1 \in 1 .. j /\ i + (z - i + 1) - 1 = z
      BY <1>1, <2>2, <2>3, <2>5
    <3>. QED
      BY <2>3, <3>1
  <2>6. strlen(s, i) \in Nat
    BY <1>1, <2>2, <2>3
  <2>. QED
    BY <2>4, <2>5, <2>6
<1>. QED
  BY <1>2, <1>3

(* CharString() of octets anywhere in a buffer is what it is of the octets *)
(* alone.                                                                  *)
LEMMA CharStringIs ==
    ASSUME NEW t \in Seq(Octet)
    PROVE  /\ CharString(t, 1, Len(t)) \in Seq(Octet) /\ Len(CharString(t, 1, Len(t))) = Len(t)
           /\ \A s \in Seq(Octet), k \in Nat :
                 k + Len(t) <= Len(s) /\ (\A j \in 1 .. Len(t) : s[k + j] = t[j]) =>
                    CharString(s, k + 1, Len(t)) = CharString(t, 1, Len(t))
<1>0. Len(t) \in Nat /\ 1 \in 1 .. Len(t) + 1
  OBVIOUS
<1>. DEFINE n == Len(t)
            Upto(s, i) == IF n < strlen(s, i) THEN n ELSE strlen(s, i)
            Cut(s, i) == [j \in 1 .. n |-> IF j <= Upto(s, i) THEN s[i + j - 1] ELSE Space]
<1>1. \A s, i : CharString(s, i, n) = Cut(s, i)
  BY DEF CharString
<1>2. /\ strlen(t, 1) \in Nat
      /\ \A j \in Nat : j <= strlen(t, 1) <=> \A m \in 1 .. j : 1 + m - 1 <= n /\ t[1 + m - 1] # 0
  BY <1>0, StrlenIs
<1>3. CharString(t, 1, n) \in Seq(Octet) /\ Len(CharString(t, 1, n)) = n
  <2>1. \A j \in 1 .. n : t[1 + j - 1] \in Octet
    <3>1. \A j \in 1 .. n : 1 + j - 1 \in 1 .. n
      BY <1>0
    <3>. QED
      BY <3>1
  <2>2. Space \in Octet
    BY DEF Space, Octet
  <2>3. Cut(t, 1) \in [1 .. n -> Octet]
    BY <2>1, <2>2
  <2>. HIDE DEF Cut
  <2>4. Cut(t, 1) \in Seq(Octet)
    BY <1>0, <2>3
  <2>5. Len(Cut(t, 1)) = n
    BY <1>0, <2>3, <2>4, LenOfFunction
  <2>. QED
    BY <1>1, <2>4, <2>5
<1>4. ASSUME NEW s \in Seq(Octet), NEW k \in Nat,
             k + n <= Len(s), \A j \in 1 .. n : s[k + j] = t[j]
      PROVE  CharString(s, k + 1, n) = CharString(t, 1, n)
  <2>1. k + 1 \in 1 .. Len(s) + 1 /\ Len(s) \in Nat
    BY <1>0, <1>4
  <2>2. /\ strlen(s, k + 1) \in Nat
        /\ \A j \in Nat : j <= strlen(s, k + 1) <=>
              \A m \in 1 .. j : (k + 1) + m - 1 <= Len(s) /\ s[(k + 1) + m - 1] # 0
    BY <2>1, StrlenIs
  <2>3. \A m \in 1 .. n : /\ (k + 1) + m - 1 = k + m /\ k + m <= Len(s) /\ 1 + m - 1 = m /\ m <= n
                          /\ s[k + m] = t[m] /\ m \in Nat
    BY <1>0, <1>4, <2>1
  <2>4. ASSUME NEW j \in 1 .. n PROVE j <= strlen(s, k + 1) <=> j <= strlen(t, 1)
    <3>1. j \in Nat /\ \A m \in 1 .. j : m \in 1 .. n
      BY <1>0
    <3>2. (\A m \in 1 .. j : (k + 1) + m - 1 <= Len(s) /\ s[(k + 1) + m - 1] # 0)
             <=> (\A m \in 1 .. j : 1 + m - 1 <= n /\ t[1 + m - 1] # 0)
      BY <2>3, <3>1
    <3>. QED
      BY <1>2, <2>2, <3>1, <3>2
  <2>5. \A j \in 1 .. n : (j <= Upto(s, k + 1) <=> j <= Upto(t, 1)) /\ s[(k + 1) + j - 1] = t[1 + j - 1]
    <3>. SUFFICES ASSUME NEW j \in 1 .. n
                  PROVE  /\ j <= Upto(s, k + 1) <=> j <= Upto(t, 1)
                         /\ s[(k + 1) + j - 1] = t[1 + j - 1]
      OBVIOUS
    <3>1. j <= strlen(s, k + 1) <=> j <= strlen(t, 1)
      BY <2>4
    <3>2. s[(k + 1) + j - 1] = t[1 + j - 1]
      BY <2>3
    <3>. QED
      BY <1>0, <1>2, <2>2, <3>1, <3>2
  <2>. HIDE DEF Upto
  <2>6. Cut(s, k + 1) = Cut(t, 1)
    BY <2>5
  <2>. HIDE DEF Cut
  <2>. QED
    BY <1>1, <2>6
<1>. QED
  BY <1>3, <1>4

-----------------------------------------------------------------------------
(* What was written at k is read back there, whatever stands around it.    *)
Stands(s, k, v) ==
    /\ k + Len(serialize_to(v)) <= Len(s)
    /\ \A j \in 1 .. Len(serialize_to(v)) : s[k + j] = serialize_to(v)[j]

LEMMA KeptIs ==
    ASSUME NEW v \in Stored
    PROVE  /\ Kept(v) \in AValue
           /\ v.type # "UNDEFINED" \/ v.is_null =>
                 get_serialized_size(Kept(v)) = Len(serialize_to(v))
<1>1. Len(serialize_to(v)) = get_serialized_size(v)
  BY SerializedIs
<1>2. /\ v \in AValue /\ v.is_null \in BOOLEAN /\ v.type \in Types \cup {"UNDEFINED"}
      /\ ~v.is_null /\ v.type # "UNDEFINED" => v.holds = v.type /\ v.type \in Types
  BY StoredIs
<1>3. CASE v.is_null
  <2>1. Kept(v) = Null(v.type)
    BY <1>3 DEF Kept
  <2>2. /\ Null(v.type).is_null /\ Null(v.type).type = v.type
        /\ Null(v.type) = [type |-> v.type, is_null |-> TRUE, holds |-> "INTEGER", value |-> 0]
    BY DEF Null
  <2>3. "INTEGER" \in Types /\ 0 \in Contents("INTEGER")
    <3>1. "INTEGER" \in Types
      BY Six DEF Types
    <3>2. Contents("INTEGER") = -Limit .. Limit - 1
      BY DEF Contents, Chars
    <3>3. Limit \in Nat /\ 0 < Limit
      BY DEF Limit
    <3>. QED
      BY <3>1, <3>2, <3>3
  <2>4. Null(v.type) \in AValue
    BY <1>2, <2>2, <2>3 DEF AValue
  <2>5. get_serialized_size(Null(v.type)) = 5 + 0 /\ get_serialized_size(v) = 5 + 0
    BY <1>3, <2>2 DEF get_serialized_size
  <2>. QED
    BY <1>1, <2>1, <2>4, <2>5
<1>4. CASE ~v.is_null /\ v.type = "CHAR"
  <2>. DEFINE c == CharString(v.value, 1, Len(v.value))
  <2>1. v.value \in Seq(Octet) /\ Len(v.value) \in 0 .. Limit - 1
    BY <1>4, StoredIs DEF Chars
  <2>2. c \in Seq(Octet) /\ Len(c) = Len(v.value)
    BY <2>1, CharStringIs
  <2>. HIDE DEF c
  <2>3. Kept(v) = [type |-> "CHAR", is_null |-> FALSE, holds |-> "CHAR", value |-> c]
    BY <1>4 DEF Kept, Holding, c
  <2>4. "CHAR" \in Types
    BY Six DEF Types
  <2>5. Limit \in Nat /\ Contents("CHAR") = {s \in Seq(Octet) : Len(s) < Limit}
    BY ContentsAre DEF Chars
  <2>6. c \in Contents("CHAR")
    BY <2>1, <2>2, <2>5
  <2>7. Kept(v) \in AValue
    BY <2>3, <2>4, <2>6 DEF AValue
  <2>8. get_serialized_size(Kept(v)) = 5 + (4 + Len(c)) /\ get_serialized_size(v) = 5 + (4 + Len(v.value))
    BY <1>4, <2>3 DEF get_serialized_size, Chars
  <2>. QED
    BY <1>1, <2>2, <2>7, <2>8
<1>5. CASE ~v.is_null /\ v.type # "CHAR"
  BY <1>1, <1>2, <1>5 DEF Kept
<1>. QED
  BY <1>2, <1>3, <1>4, <1>5

LEMMA ReadBack ==
    ASSUME NEW v \in Stored, NEW s \in Seq(Octet), NEW k \in Nat, Stands(s, k, v),
           NEW type \in Types \cup {"UNDEFINED"}, ~DeserializeThrows(s, k, type)
    PROVE  /\ type = v.type /\ (v.type # "UNDEFINED" \/ v.is_null)
           /\ deserialize_from(s, k, type) = Kept(v)
           /\ stored_null(s, k) <=> v.is_null
<1>. DEFINE w == serialize_to(v)
            h == Bytes(Place(ArrrType, v.type), 4)
            z == Payload(v)
<1>0. /\ v.is_null \in BOOLEAN /\ v.type \in Types \cup {"UNDEFINED"}
      /\ v = [type |-> v.type, is_null |-> v.is_null, holds |-> v.holds, value |-> v.value]
      /\ ~v.is_null /\ v.type # "UNDEFINED" => v.holds = v.type /\ v.type \in Types
  BY StoredIs
<1>1. /\ w \in Seq(Octet) /\ Len(w) \in Nat /\ Len(w) >= 5
      /\ Len(w) = 5 + Len(z)
      /\ \A j \in 1 .. 4 : w[j] = h[j]
      /\ w[5] = IF v.is_null THEN 1 ELSE 0
      /\ \A j \in 1 .. Len(z) : w[5 + j] = z[j]
  BY SerializedIs
<1>2. Len(s) \in Nat /\ k + Len(w) <= Len(s) /\ \A j \in 1 .. Len(w) : s[k + j] = w[j]
  BY DEF Stands
<1>3. z \in Seq(Octet) /\ Len(z) \in Nat
  BY PayloadIs
<1>4. Place(ArrrType, v.type) \in 0 .. 6 /\ h \in Seq(Octet) /\ Len(h) = 4
  <2>1. Place(ArrrType, v.type) \in 0 .. 6
    BY <1>0, Places
  <2>2. Place(ArrrType, v.type) \in Int /\ 4 \in Nat
    BY <2>1
  <2>. QED
    BY <2>1, <2>2, BytesType
<1>5. Number(h) = Place(ArrrType, v.type)
  BY <1>4, NumberOfSmall
<1>. HIDE DEF h, w, z
<1>6. \A j \in 1 .. Len(z) : s[(k + 5) + j] = z[j]
  <2>. SUFFICES ASSUME NEW j \in 1 .. Len(z) PROVE s[(k + 5) + j] = z[j]
    OBVIOUS
  <2>1. 5 + j \in 1 .. Len(w) /\ k + (5 + j) = (k + 5) + j
    BY <1>1, <1>3
  <2>. QED
    BY <1>1, <1>2, <2>1
<1>7. stored_type(s, k) = Place(ArrrType, v.type)
  <2>1. \A j \in 1 .. 4 : s[k + j] = h[j]
    <3>1. \A j \in 1 .. 4 : j \in 1 .. Len(w)
      BY <1>1
    <3>. QED
      BY <1>1, <1>2, <3>1
  <2>2. k + 4 <= Len(s)
    BY <1>1, <1>2
  <2>3. SubSeq(s, k + 1, k + Len(h)) = h
    BY <1>4, <2>1, <2>2, SubSeqIs
  <2>. QED
    BY <1>4, <1>5, <2>3 DEF stored_type
<1>8. stored_null(s, k) <=> v.is_null
  <2>1. 5 \in 1 .. Len(w)
    BY <1>1
  <2>2. s[k + 5] = IF v.is_null THEN 1 ELSE 0
    BY <1>1, <1>2, <2>1
  <2>. QED
    BY <2>2 DEF stored_null
<1>9. type = v.type
  <2>1. Place(ArrrType, type) = Place(ArrrType, v.type)
    BY <1>7 DEF DeserializeThrows
  <2>. QED
    BY <1>0, <2>1, Places
<1>10. v.type # "UNDEFINED" \/ v.is_null
  BY <1>8, <1>9 DEF DeserializeThrows
<1>11. CASE v.is_null
  <2>1. deserialize_from(s, k, type) = Null(type)
    BY <1>8, <1>11 DEF deserialize_from
  <2>. QED
    BY <1>8, <1>9, <1>11, <2>1 DEF Kept
<1>12. ASSUME ~v.is_null, Chars(v.type)
       PROVE  /\ Number(SubSeq(s, k + 6, k + 9)) = Len(v.value)
              /\ (k + 9) + Len(v.value) <= Len(s)
              /\ \A j \in 1 .. Len(v.value) : s[(k + 9) + j] = v.value[j]
  <2>. DEFINE b == Bytes(Len(v.value), 4)
  <2>1. v.value \in Seq(Octet) /\ Len(v.value) \in 0 .. Limit - 1
    BY <1>12, StoredIs
  <2>2. /\ Len(z) = 4 + Len(v.value)
        /\ \A j \in 1 .. 4 : z[j] = b[j]
        /\ \A j \in 1 .. Len(v.value) : z[4 + j] = v.value[j]
    BY <1>12, PayloadIs DEF z
  <2>3. Len(v.value) \in Nat /\ Len(v.value) \in -Limit .. Limit - 1
    <3>1. Limit \in Nat
      BY ContentsAre
    <3>. QED
      BY <2>1, <3>1
  <2>. DEFINE n == Len(v.value)
  <2>n. n \in Int /\ n \in -Limit .. Limit - 1 /\ n \in Nat
    BY <2>3
  <2>4. b \in Seq(Octet) /\ Len(b) = 4
    <3>. HIDE DEF n
    <3>1. 4 \in Nat
      OBVIOUS
    <3>2. Bytes(n, 4) \in Seq(Octet) /\ Len(Bytes(n, 4)) = 4
      BY <2>n, <3>1, BytesType
    <3>. QED
      BY <3>2 DEF n
  <2>5. Number(b) = Len(v.value)
    BY <2>3, NumberOfBytes
  <2>. HIDE DEF b
  <2>6. (k + 5) + 4 <= Len(s) /\ \A j \in 1 .. 4 : s[(k + 5) + j] = b[j]
    <3>1. \A j \in 1 .. 4 : j \in 1 .. Len(z)
      BY <2>2, <2>3
    <3>2. (k + 5) + 4 <= Len(s)
      BY <1>1, <1>2, <2>2, <2>3
    <3>. QED
      BY <1>6, <2>2, <3>1, <3>2
  <2>7. SubSeq(s, (k + 5) + 1, (k + 5) + Len(b)) = b
    <3>1. k + 5 \in Nat
      OBVIOUS
    <3>. QED
      BY <2>4, <2>6, <3>1, SubSeqIs
  <2>8. (k + 5) + 1 = k + 6 /\ (k + 5) + 4 = k + 9
    OBVIOUS
  <2>9. Number(SubSeq(s, k + 6, k + 9)) = Len(v.value)
    BY <2>4, <2>5, <2>7, <2>8
  <2>10. (k + 9) + Len(v.value) <= Len(s)
    <3>1. k + (5 + (4 + n)) <= Len(s)
      BY <1>1, <1>2, <2>2
    <3>. HIDE DEF n
    <3>2. (k + 9) + n <= Len(s)
      BY <1>2, <2>n, <3>1
    <3>. QED
      BY <3>2 DEF n
  <2>11. ASSUME NEW j \in 1 .. Len(v.value) PROVE s[(k + 9) + j] = v.value[j]
    <3>1. 4 + j \in 1 .. Len(z) /\ (k + 5) + (4 + j) = (k + 9) + j
      BY <2>2, <2>3
    <3>. QED
      BY <1>6, <2>2, <3>1
  <2>. QED
    BY <2>9, <2>10, <2>11
<1>13. (k + 9) + 1 = k + 10 /\ k + 9 \in Nat
  OBVIOUS
<1>14. CASE ~v.is_null /\ v.type = "VARCHAR"
  <2>1. v.value \in Seq(Octet) /\ Chars(v.type)
    BY <1>14, StoredIs DEF Chars
  <2>2. SubSeq(s, k + 10, (k + 9) + Len(v.value)) = v.value
    BY <1>12, <1>13, <1>14, <2>1, SubSeqIs
  <2>3. deserialize_from(s, k, type) = Holding("VARCHAR", v.value)
    BY <1>8, <1>9, <1>12, <1>14, <2>1, <2>2 DEF deserialize_from
  <2>4. Holding("VARCHAR", v.value) = v
    BY <1>0, <1>14 DEF Holding
  <2>. QED
    BY <1>8, <1>9, <1>14, <2>3, <2>4 DEF Kept
<1>15. CASE ~v.is_null /\ v.type = "CHAR"
  <2>1. v.value \in Seq(Octet) /\ Chars(v.type)
    BY <1>15, StoredIs DEF Chars
  <2>2. CharString(s, (k + 9) + 1, Len(v.value)) = CharString(v.value, 1, Len(v.value))
    BY <1>12, <1>13, <1>15, <2>1, CharStringIs
  <2>3. deserialize_from(s, k, type) = Holding("CHAR", CharString(s, k + 10, Len(v.value)))
    BY <1>8, <1>9, <1>12, <1>15, <2>1 DEF deserialize_from
  <2>. QED
    BY <1>8, <1>9, <1>13, <1>15, <2>2, <2>3 DEF Kept
<1>16. CASE ~v.is_null /\ ~Chars(v.type)
  <2>1. v.type \in Types /\ v.type # "UNDEFINED"
    BY <1>0, <1>10, <1>16
  <2>. DEFINE b == Bytes(v.value, Width(v.type))
  <2>2. z = b /\ Len(z) = Width(v.type)
    BY <1>16, <2>1, PayloadIs DEF z
  <2>3. Number(b) = v.value
    <3>1. CASE v.type = "BOOLEAN"
      BY <1>16, <3>1, StoredIs, NumberOfSmall DEF Width
    <3>2. CASE v.type # "BOOLEAN"
      <4>1. Width(v.type) \in {4, 8}
        BY <3>2 DEF Width
      <4>2. v.value \in -Limit .. Limit - 1
        BY <1>16, <2>1, StoredIs
      <4>. QED
        BY <4>1, <4>2, NumberOfBytes
    <3>. QED
      BY <3>1, <3>2
  <2>. HIDE DEF b
  <2>4. SubSeq(s, (k + 5) + 1, (k + 5) + Len(z)) = z
    <3>1. k + 5 \in Nat /\ (k + 5) + Len(z) <= Len(s)
      BY <1>1, <1>2, <1>3
    <3>. QED
      BY <1>3, <1>6, <3>1, SubSeqIs
  <2>5. (k + 5) + 1 = k + 6
    OBVIOUS
  <2>6. Number(SubSeq(s, k + 6, k + 5 + Width(v.type))) = v.value
    BY <2>2, <2>3, <2>4, <2>5
  <2>7. v.type # "CHAR" /\ v.type # "VARCHAR"
    BY <1>16 DEF Chars
  <2>8. deserialize_from(s, k, type) = Holding(v.type, v.value)
    BY <1>8, <1>9, <1>16, <2>6, <2>7 DEF deserialize_from
  <2>9. Holding(v.type, v.value) = v
    BY <1>0, <1>16, <2>1 DEF Holding
  <2>. QED
    BY <1>8, <1>9, <1>10, <1>16, <2>7, <2>8, <2>9 DEF Kept
<1>17. Chars(v.type) => v.type = "VARCHAR" \/ v.type = "CHAR"
  BY DEF Chars
<1>. QED
  BY <1>0, <1>8, <1>9, <1>10, <1>11, <1>14, <1>15, <1>16, <1>17

-----------------------------------------------------------------------------
(* Where the values of a row stand: the sums of the bytes before them.     *)
Lens(list) == [i \in 1 .. Len(list) |-> Len(serialize_to(list[i]))]
From(i)    == RowBytes(SubSeq(row, 1, i))

LEMMA LenFold ==
    ASSUME NEW list \in Seq(Stored)
    PROVE  /\ Len(list) \in Nat
           /\ \A i \in 1 .. Len(list) : Lens(list)[i] = Len(serialize_to(list[i]))
           /\ AllNumbers(Lens(list), Len(list))
           /\ \E f : IsFold(Lens(list), Len(list), f) /\ RowBytes(list) = f[1 .. Len(list)]
<1>1. Len(list) \in Nat /\ DOMAIN list = 1 .. Len(list)
  OBVIOUS
<1>2. \A i \in 1 .. Len(list) : Lens(list)[i] = Len(serialize_to(list[i])) /\ Lens(list)[i] \in Int
  <2>1. \A i \in 1 .. Len(list) : list[i] \in Stored
    OBVIOUS
  <2>2. \A i \in 1 .. Len(list) : Len(serialize_to(list[i])) \in Nat
    BY <2>1, SerializedIs
  <2>. QED
    BY <2>2 DEF Lens
<1>. DEFINE F(f) == [s \in SUBSET (1 .. Len(list)) |->
                       IF s = {} THEN 0
                       ELSE LET x == Max(s) IN f[s \ {x}] + Len(serialize_to(list[x]))]
            g    == CHOOSE f : f = F(f)
<1>3. RowBytes(list) = g[1 .. Len(list)]
  BY <1>1 DEF RowBytes, FoldLeft, MapThenFoldSet
<1>4. ASSUME NEW f PROVE f = F(f) <=> IsFold(Lens(list), Len(list), f)
  <2>1. ASSUME NEW s \in SUBSET (1 .. Len(list)), s # {}
        PROVE  Len(serialize_to(list[Max(s)])) = Lens(list)[Max(s)]
    BY <1>1, <1>2, <2>1, MaxPlace
  <2>. DEFINE G == [s \in SUBSET (1 .. Len(list)) |->
                      IF s = {} THEN 0
                      ELSE LET x == Max(s) IN f[s \ {x}] + Lens(list)[x]]
  <2>2. F(f) = G
    BY <2>1
  <2>. QED
    BY <2>2 DEF IsFold
<1>5. \E f : f = F(f)
  <2>1. PICK f : IsFold(Lens(list), Len(list), f)
    BY <1>1, FoldExists
  <2>2. f = F(f)
    BY <1>4, <2>1
  <2>. QED
    BY <2>2
<1>. HIDE DEF F
<1>6. g = F(g)
  BY <1>5
<1>7. IsFold(Lens(list), Len(list), g)
  <2>. HIDE DEF g
  <2>. QED
    BY <1>4, <1>6
<1>. HIDE DEF g
<1>. QED
  BY <1>1, <1>2, <1>3, <1>7 DEF AllNumbers

(* One value more takes its bytes more, and none takes none.               *)
LEMMA RowBytesPush ==
    ASSUME NEW list \in Seq(Stored), NEW v \in Stored
    PROVE  /\ RowBytes(<<>>) = 0
           /\ RowBytes(list) \in Int
           /\ RowBytes(Append(list, v)) = RowBytes(list) + Len(serialize_to(v))
<1>. DEFINE n == Len(list)
            more == Append(list, v)
<1>1. /\ n \in Nat /\ more \in Seq(Stored) /\ Len(more) = n + 1
      /\ \A i \in 1 .. n : more[i] = list[i]
      /\ more[n + 1] = v /\ n + 1 \in 1 .. n + 1 /\ \A i \in 1 .. n : i \in 1 .. n + 1 /\ i + 0 = i
      /\ n \in 0 .. n
  OBVIOUS
<1>2. RowBytes(<<>>) = 0
  <2>1. <<>> \in Seq(Stored) /\ Len(<<>>) = 0
    OBVIOUS
  <2>2. PICK f : IsFold(Lens(<<>>), 0, f) /\ RowBytes(<<>>) = f[1 .. 0]
    BY <2>1, LenFold
  <2>. QED
    BY <2>2, FoldSteps
<1>. HIDE DEF n, more
<1>3. PICK f : IsFold(Lens(list), n, f) /\ RowBytes(list) = f[1 .. n]
  BY LenFold DEF n
<1>4. PICK g : IsFold(Lens(more), n + 1, g) /\ RowBytes(more) = g[1 .. n + 1]
  BY <1>1, LenFold
<1>5. /\ \A i \in 1 .. n : Lens(list)[i] = Len(serialize_to(list[i]))
      /\ AllNumbers(Lens(list), n)
  BY LenFold DEF n
<1>6. /\ \A i \in 1 .. n + 1 : Lens(more)[i] = Len(serialize_to(more[i]))
      /\ AllNumbers(Lens(more), n + 1)
  BY <1>1, LenFold
<1>7. Shifted(Lens(list), Lens(more), n, 0) /\ Lens(more)[n + 1] = Len(serialize_to(v))
  BY <1>1, <1>5, <1>6 DEF Shifted
<1>8. g[1 .. n + 1] = f[1 .. n] + Lens(more)[n + 1]
  BY <1>1, <1>3, <1>4, <1>6, <1>7, FoldPush
<1>9. f[1 .. n] \in Int
  BY <1>1, <1>3, <1>5, FoldType
<1>. QED
  BY <1>2, <1>3, <1>4, <1>7, <1>8, <1>9 DEF more

LEMMA FromNext ==
    ASSUME row \in Seq(Stored)
    PROVE  /\ From(0) = 0
           /\ \A i \in 1 .. Len(row) : /\ From(i) = From(i - 1) + Len(serialize_to(row[i]))
                                       /\ From(i - 1) \in Nat /\ From(i) \in Nat
<1>0. Len(row) \in Nat /\ SubSeq(row, 1, 0) = <<>>
  OBVIOUS
<1>1. ASSUME NEW i \in 1 .. Len(row)
      PROVE  From(i) = From(i - 1) + Len(serialize_to(row[i])) /\ row[i] \in Stored
  <2>. DEFINE list == SubSeq(row, 1, i - 1)
              v    == row[i]
  <2>1. list \in Seq(Stored) /\ v \in Stored /\ SubSeq(row, 1, i) = Append(list, v)
    BY <1>0
  <2>. HIDE DEF list, v
  <2>2. RowBytes(Append(list, v)) = RowBytes(list) + Len(serialize_to(v))
    BY <2>1, RowBytesPush
  <2>. QED
    BY <2>1, <2>2 DEF From, list, v
<1>2. From(0) = 0
  <2>1. CASE Len(row) = 0
    <3>1. PICK f : IsFold(Lens(<<>>), 0, f) /\ RowBytes(<<>>) = f[1 .. 0]
      <4>1. <<>> \in Seq(Stored) /\ Len(<<>>) = 0
        OBVIOUS
      <4>. QED
        BY <4>1, LenFold
    <3>2. RowBytes(<<>>) = 0
      BY <3>1, FoldSteps
    <3>. QED
      BY <1>0, <3>2 DEF From
  <2>2. CASE Len(row) # 0
    <3>1. 1 \in 1 .. Len(row)
      BY <1>0, <2>2
    <3>2. row[1] \in Stored
      BY <3>1
    <3>3. RowBytes(<<>>) = 0
      BY <3>2, RowBytesPush
    <3>. QED
      BY <1>0, <3>3 DEF From
  <2>. QED
    BY <2>1, <2>2
<1>. DEFINE S == {i \in Nat : i <= Len(row) => From(i) \in Nat}
<1>3. 0 \in S
  BY <1>2
<1>4. ASSUME NEW i \in Nat, i \in S PROVE i + 1 \in S
  <2>. SUFFICES ASSUME i + 1 <= Len(row) PROVE From(i + 1) \in Nat
    OBVIOUS
  <2>1. i + 1 \in 1 .. Len(row) /\ (i + 1) - 1 = i /\ i <= Len(row)
    BY <1>0
  <2>2. From(i + 1) = From(i) + Len(serialize_to(row[i + 1])) /\ row[i + 1] \in Stored
    BY <1>1, <2>1
  <2>3. Len(serialize_to(row[i + 1])) \in Nat
    BY <2>2, SerializedIs
  <2>4. From(i) \in Nat
    BY <1>4, <2>1
  <2>. QED
    BY <2>2, <2>3, <2>4
<1>. HIDE DEF S
<1>5. Nat \subseteq S
  BY <1>3, <1>4, Induction
<1>6. \A i \in Nat : i <= Len(row) => From(i) \in Nat
  BY <1>5 DEF S
<1>7. \A i \in 1 .. Len(row) : i \in Nat /\ i - 1 \in Nat /\ i <= Len(row) /\ i - 1 <= Len(row)
  BY <1>0
<1>. QED
  BY <1>1, <1>2, <1>6, <1>7

(* The buffer is the row's values back to back; those that were read are   *)
(* the first of them.                                                      *)
RowInv ==
    /\ row \in Seq(Stored) /\ out \in Seq(AValue)
    /\ buf \in Seq(Octet) /\ tail \in Seq(Octet)
    /\ Len(buf) = From(Len(row))
    /\ \A i \in 1 .. Len(row) : Stands(buf, From(i - 1), row[i])
    /\ Len(out) <= Len(row) /\ \A i \in 1 .. Len(out) : out[i] = Kept(row[i])
    /\ pos = From(Len(out))
    /\ row_state = "overread" =>
          row # <<>> /\ row[Len(row)].type = "CHAR" /\ 0 \notin ToSet(tail)

LEMMA RowInvInit == ValueInit => RowInv
<1>. SUFFICES ASSUME ValueInit PROVE RowInv
  OBVIOUS
<1>1. /\ row = <<>> /\ buf = <<>> /\ out = <<>> /\ pos = 0 /\ row_state = "open"
      /\ tail \in Seq(Octet)
  BY TailsAssumption DEF ValueInit
<1>2. /\ row \in Seq(Stored) /\ out \in Seq(AValue) /\ buf \in Seq(Octet)
      /\ Len(row) = 0 /\ Len(buf) = 0 /\ Len(out) = 0
  BY <1>1
<1>3. From(0) = 0
  BY <1>2, FromNext
<1>. QED
  BY <1>1, <1>2, <1>3 DEF RowInv

LEMMA WriteStep ==
    ASSUME RowInv, NEW v \in AValue, Write(v)
    PROVE  RowInv'
<1>0. /\ row \in Seq(Stored) /\ out \in Seq(AValue) /\ buf \in Seq(Octet) /\ tail \in Seq(Octet)
      /\ Len(buf) = From(Len(row)) /\ \A i \in 1 .. Len(row) : Stands(buf, From(i - 1), row[i])
      /\ Len(out) <= Len(row) /\ \A i \in 1 .. Len(out) : out[i] = Kept(row[i])
      /\ pos = From(Len(out)) /\ row_state = "open"
      /\ out' = out /\ pos' = pos /\ tail' = tail
  BY DEF RowInv, Write
<1>1. CASE GetThrows(v)
  <2>1. row' = row /\ buf' = buf /\ row_state' = "thrown"
    BY <1>1 DEF Write
  <2>2. \A i : From(i)' = From(i)
    BY <2>1 DEF From
  <2>. QED
    BY <1>0, <2>1, <2>2 DEF RowInv, Stands
<1>2. CASE ~GetThrows(v)
  <2>1. v \in Stored
    BY <1>2 DEF Stored
  <2>0. PICK n : n = Len(row)
    OBVIOUS
  <2>. DEFINE w == serialize_to(v)
  <2>2. row' = Append(row, v) /\ buf' = buf \o w /\ row_state' = row_state
    BY <1>2 DEF Write
  <2>3. /\ n \in Nat /\ row' \in Seq(Stored) /\ Len(row') = n + 1 /\ n + 1 \in Nat
        /\ \A i \in 1 .. n : row'[i] = row[i]
        /\ row'[n + 1] = v
        /\ \A i \in 0 .. n : SubSeq(row', 1, i) = SubSeq(row, 1, i)
        /\ Len(out) \in 0 .. n
    BY <1>0, <2>0, <2>1, <2>2
  <2>4. \A i \in 0 .. n : From(i)' = From(i)
    BY <2>3 DEF From
  <2>5. w \in Seq(Octet) /\ Len(w) \in Nat
    BY <2>1, SerializedIs
  <2>6. /\ buf' \in Seq(Octet) /\ Len(buf') = Len(buf) + Len(w)
        /\ Len(buf) \in Nat
        /\ \A j \in 1 .. Len(buf) : buf'[j] = buf[j]
        /\ \A j \in 1 .. Len(w) : buf'[Len(buf) + j] = w[j]
    BY <1>0, <2>2, <2>5, Joined
  <2>7. From(n + 1)' = From(n) + Len(w)
    <3>1. SubSeq(row', 1, n + 1) = Append(SubSeq(row, 1, n), v) /\ SubSeq(row, 1, n) \in Seq(Stored)
      BY <1>0, <2>0, <2>1, <2>2, <2>3
    <3>2. RowBytes(Append(SubSeq(row, 1, n), v)) = RowBytes(SubSeq(row, 1, n)) + Len(w)
      BY <2>1, <3>1, RowBytesPush
    <3>. QED
      BY <3>1, <3>2 DEF From
  <2>8. \A i \in 1 .. n : From(i - 1) \in Nat
    BY <1>0, <2>0, FromNext
  <2>. HIDE DEF w
  <2>9. ASSUME NEW i \in 1 .. n + 1 PROVE Stands(buf', From(i - 1)', row'[i])
    <3>1. CASE i = n + 1
      <4>1. i - 1 = n /\ n \in 0 .. n /\ Len(buf) = From(n)
        BY <1>0, <2>0, <2>3, <3>1
      <4>2. From(i - 1)' = Len(buf) /\ row'[i] = v
        BY <2>3, <2>4, <3>1, <4>1
      <4>3. Len(buf) + Len(w) <= Len(buf')
        BY <2>5, <2>6
      <4>. QED
        BY <2>6, <4>2, <4>3 DEF Stands, w
    <3>2. CASE i # n + 1
      <4>1. i \in 1 .. n /\ i - 1 \in 0 .. n
        BY <2>3, <3>2
      <4>. DEFINE k == From(i - 1)
                  u == row[i]
      <4>2. Stands(buf, k, u) /\ k \in Nat /\ From(i - 1)' = k /\ row'[i] = u
        BY <1>0, <2>0, <2>3, <2>4, <2>8, <4>1
      <4>3. u \in Stored
        BY <1>0, <2>0, <4>1
      <4>. HIDE DEF k, u
      <4>4. Len(serialize_to(u)) \in Nat
        BY <4>3, SerializedIs
      <4>5. /\ k + Len(serialize_to(u)) <= Len(buf)
            /\ \A j \in 1 .. Len(serialize_to(u)) : buf[k + j] = serialize_to(u)[j]
        BY <4>2 DEF Stands
      <4>6. \A j \in 1 .. Len(serialize_to(u)) : k + j \in 1 .. Len(buf)
        BY <2>6, <4>2, <4>4, <4>5
      <4>7. k + Len(serialize_to(u)) <= Len(buf')
        BY <2>5, <2>6, <4>2, <4>4, <4>5
      <4>. QED
        BY <2>6, <4>2, <4>5, <4>6, <4>7 DEF Stands
    <3>. QED
      BY <3>1, <3>2
  <2>10. ASSUME NEW i \in 1 .. Len(out) PROVE out[i] = Kept(row'[i])
    <3>1. i \in 1 .. n
      BY <2>3
    <3>. QED
      BY <1>0, <2>3, <3>1
  <2>11. Len(buf') = From(Len(row))' /\ pos' = From(Len(out))' /\ Len(out) <= n + 1
    <3>1. From(Len(row))' = From(n + 1)'
      BY <2>3 DEF From
    <3>2. Len(buf) = From(n) /\ n \in 0 .. n
      BY <1>0, <2>0, <2>3
    <3>3. From(Len(out))' = From(Len(out))
      BY <1>0, <2>3 DEF From
    <3>. QED
      BY <1>0, <2>3, <2>6, <2>7, <3>1, <3>2, <3>3
  <2>12. \A i \in 1 .. Len(row') : Stands(buf', From(i - 1)', row'[i])
    BY <2>3, <2>9
  <2>. QED
    BY <1>0, <2>2, <2>3, <2>6, <2>10, <2>11, <2>12 DEF RowInv
<1>. QED
  BY <1>1, <1>2

LEMMA ReadStep ==
    ASSUME RowInv, NEW type \in Types \cup {"UNDEFINED"}, Read(type)
    PROVE  RowInv'
<1>0. /\ row \in Seq(Stored) /\ out \in Seq(AValue) /\ buf \in Seq(Octet) /\ tail \in Seq(Octet)
      /\ Len(buf) = From(Len(row)) /\ \A i \in 1 .. Len(row) : Stands(buf, From(i - 1), row[i])
      /\ Len(out) < Len(row) /\ \A i \in 1 .. Len(out) : out[i] = Kept(row[i])
      /\ pos = From(Len(out)) /\ row_state = "open"
      /\ row' = row /\ buf' = buf /\ tail' = tail
      /\ Len(out) \in Nat /\ Len(row) \in Nat
  BY DEF RowInv, Read
<1>1. \A i : From(i)' = From(i)
  BY <1>0 DEF From
<1>. DEFINE s == buf \o tail
<1>2. CASE DeserializeThrows(s, pos, type)
  <2>1. out' = out /\ pos' = pos /\ row_state' = "thrown"
    BY <1>2 DEF Read
  <2>2. Len(out) <= Len(row)
    BY <1>0
  <2>. QED
    BY <1>0, <1>1, <2>1, <2>2 DEF RowInv, Stands
<1>3. CASE ~DeserializeThrows(s, pos, type)
  <2>. DEFINE n == Len(out)
              v == row[n + 1]
              u == deserialize_from(s, pos, type)
  <2>1. /\ out' = Append(out, u) /\ pos' = pos + get_serialized_size(u)
        /\ row_state' = IF Overreads(s, pos, type) THEN "overread" ELSE "open"
    BY <1>3 DEF Read
  <2>2. n + 1 \in 1 .. Len(row) /\ (n + 1) - 1 = n /\ n \in Nat
    BY <1>0
  <2>3. v \in Stored
    BY <1>0, <2>2
  <2>4. /\ s \in Seq(Octet) /\ Len(s) = Len(buf) + Len(tail)
        /\ Len(buf) \in Nat /\ Len(tail) \in Nat
        /\ \A j \in 1 .. Len(buf) : s[j] = buf[j]
        /\ \A j \in 1 .. Len(tail) : s[Len(buf) + j] = tail[j]
    BY <1>0, Joined
  <2>5. /\ pos \in Nat /\ From(n + 1) = pos + Len(serialize_to(v))
    BY <1>0, <2>2, FromNext
  <2>6. Stands(buf, pos, v)
    BY <1>0, <2>2
  <2>7. Len(serialize_to(v)) \in Nat /\ Len(serialize_to(v)) >= 5
    BY <2>3, SerializedIs
  <2>. HIDE DEF s, n, v, u
  <2>8. Stands(s, pos, v)
    <3>1. /\ pos + Len(serialize_to(v)) <= Len(buf)
          /\ \A j \in 1 .. Len(serialize_to(v)) : buf[pos + j] = serialize_to(v)[j]
      BY <2>6 DEF Stands
    <3>2. \A j \in 1 .. Len(serialize_to(v)) : pos + j \in 1 .. Len(buf)
      BY <2>4, <2>5, <2>7, <3>1
    <3>3. pos + Len(serialize_to(v)) <= Len(s)
      BY <2>4, <2>5, <2>7, <3>1
    <3>. QED
      BY <2>4, <3>1, <3>2, <3>3 DEF Stands
  <2>9. /\ type = v.type /\ (v.type # "UNDEFINED" \/ v.is_null)
        /\ u = Kept(v) /\ (stored_null(s, pos) <=> v.is_null)
    BY <1>3, <2>3, <2>4, <2>5, <2>8, ReadBack DEF u
  <2>10. u \in AValue /\ get_serialized_size(u) = Len(serialize_to(v))
    BY <2>3, <2>9, KeptIs
  <2>11. /\ out' \in Seq(AValue) /\ Len(out') = n + 1
         /\ \A i \in 1 .. n : out'[i] = out[i]
         /\ out'[n + 1] = u
    BY <1>0, <2>1, <2>10 DEF n
  <2>12. pos' = From(Len(out'))
    BY <2>1, <2>5, <2>10, <2>11
  <2>13. ASSUME NEW i \in 1 .. n + 1 PROVE out'[i] = Kept(row[i])
    <3>1. i \in 1 .. n \/ i = n + 1
      BY <2>2
    <3>. QED
      BY <1>0, <2>9, <2>11, <3>1 DEF n, v
  <2>14. ASSUME Overreads(s, pos, type)
         PROVE  row # <<>> /\ row[Len(row)].type = "CHAR" /\ 0 \notin ToSet(tail)
    <3>1. v.type = "CHAR" /\ ~v.is_null /\ Nuls(s, pos + 10) = {}
      BY <2>9, <2>14 DEF Overreads
    <3>2. \A i \in Nat : pos + 10 <= i /\ i <= Len(s) => s[i] # 0
      <4>. SUFFICES ASSUME NEW i \in Nat, pos + 10 <= i, i <= Len(s) PROVE s[i] # 0
        OBVIOUS
      <4>1. i \in pos + 10 .. Len(s)
        BY <2>4, <2>5
      <4>. QED
        BY <3>1, <4>1 DEF Nuls
    <3>3. Len(serialize_to(v)) >= 9
      <4>1. /\ Len(serialize_to(v)) = 5 + Len(Payload(v))
            /\ Len(Payload(v)) = 4 + Len(v.value) /\ v.value \in Seq(Octet)
        BY <2>3, <3>1, SerializedIs, PayloadIs, StoredIs DEF Chars
      <4>2. Len(v.value) \in Nat
        BY <4>1
      <4>. QED
        BY <4>1, <4>2
    <3>4. n + 1 = Len(row)
      <4>. SUFFICES ASSUME n + 1 < Len(row) PROVE FALSE
        BY <1>0, <2>2
      <4>. DEFINE m == n + 2
                  x == row[m]
      <4>1. m \in 1 .. Len(row) /\ m - 1 = n + 1
        BY <1>0, <2>2
      <4>2. Stands(buf, From(n + 1), x)
        BY <1>0, <4>1
      <4>3. x \in Stored
        BY <1>0, <4>1
      <4>. HIDE DEF x, m
      <4>4. Len(serialize_to(x)) \in Nat /\ Len(serialize_to(x)) >= 5 /\ serialize_to(x)[2] = 0
        BY <4>3, SerializedIs
      <4>5. From(n + 1) + Len(serialize_to(x)) <= Len(buf) /\ 2 \in 1 .. Len(serialize_to(x))
        BY <4>2, <4>4 DEF Stands
      <4>6. buf[From(n + 1) + 2] = 0
        BY <4>2, <4>4, <4>5 DEF Stands
      <4>7. From(n + 1) \in Nat /\ From(n + 1) >= pos + 9
        BY <2>5, <2>7, <3>3
      <4>8. From(n + 1) + 2 \in 1 .. Len(buf)
        BY <2>4, <4>4, <4>5, <4>7
      <4>9. s[From(n + 1) + 2] = 0
        BY <2>4, <4>6, <4>8
      <4>10. From(n + 1) + 2 \in Nat /\ pos + 10 <= From(n + 1) + 2 /\ From(n + 1) + 2 <= Len(s)
        BY <2>4, <2>5, <4>7, <4>8
      <4>. QED
        BY <3>2, <4>9, <4>10
    <3>5. ASSUME 0 \in ToSet(tail) PROVE FALSE
      <4>1. PICK j \in 1 .. Len(tail) : tail[j] = 0
        BY <1>0, <3>5, InSeq
      <4>2. s[Len(buf) + j] = 0
        BY <2>4, <4>1
      <4>3. Len(buf) >= pos + 9
        BY <1>0, <2>4, <2>5, <2>7, <3>3, <3>4
      <4>4. Len(buf) + j \in Nat /\ pos + 10 <= Len(buf) + j /\ Len(buf) + j <= Len(s)
        BY <2>4, <2>5, <4>3
      <4>. QED
        BY <3>2, <4>2, <4>4
    <3>6. row # <<>>
      BY <1>0, <2>2
    <3>. QED
      BY <3>1, <3>4, <3>5, <3>6 DEF v
  <2>15. Len(out') <= Len(row') /\ \A i \in 1 .. Len(out') : out'[i] = Kept(row'[i])
    BY <1>0, <2>2, <2>11, <2>13
  <2>16. row_state' = "overread" =>
            row' # <<>> /\ row'[Len(row')].type = "CHAR" /\ 0 \notin ToSet(tail')
    BY <1>0, <2>1, <2>14
  <2>17. pos' = From(Len(out))'
    BY <1>1, <2>12
  <2>. QED
    BY <1>0, <1>1, <2>11, <2>15, <2>16, <2>17 DEF RowInv, Stands
<1>. QED
  BY <1>2, <1>3

LEMMA RowStep ==
    ASSUME RowInv, [ValueNext]_value_vars
    PROVE  RowInv'
<1>1. CASE UNCHANGED value_vars
  <2>1. \A i : From(i)' = From(i)
    BY <1>1 DEF value_vars, From
  <2>. QED
    BY <1>1, <2>1 DEF RowInv, value_vars, Stands
<1>2. ASSUME NEW v \in Values, Write(v) PROVE RowInv'
  <2>1. v \in AValue
    BY ValuesAssumption, ValueSet
  <2>. QED
    BY <1>2, <2>1, WriteStep
<1>3. ASSUME NEW i \in 1 .. Len(out), NEW null \in BOOLEAN, WriteBack(i, null) PROVE RowInv'
  <2>1. out[i] \in AValue
    BY DEF RowInv
  <2>2. set_null(out[i], null) \in AValue
    BY <2>1 DEF AValue, set_null
  <2>. QED
    BY <1>3, <2>2, WriteStep DEF WriteBack
<1>4. ASSUME NEW type \in Types \cup {"UNDEFINED"}, Read(type) PROVE RowInv'
  BY <1>4, ReadStep
<1>. QED
  BY <1>1, <1>2, <1>3, <1>4 DEF ValueNext, Types

LEMMA RoundTripFromInv == RowInv => RowRoundTrip
<1>. SUFFICES ASSUME RowInv PROVE RowRoundTrip
  OBVIOUS
<1>1. DOMAIN out = 1 .. Len(out)
  BY DEF RowInv
<1>2. \A i \in DOMAIN out : out[i] = Kept(row[i])
  BY <1>1 DEF RowInv
<1>3. pos = RowBytes(SubSeq(row, 1, Len(out)))
  BY DEF RowInv, From
<1>4. row_state = "overread" => Last(row).type = "CHAR" /\ 0 \notin ToSet(tail)
  BY DEF RowInv, Last
<1>. QED
  BY <1>2, <1>3, <1>4 DEF RowRoundTrip

LEMMA OrderFromInv == RowInv => ValueOrder
<1>. SUFFICES ASSUME RowInv PROVE ValueOrder
  OBVIOUS
<1>. DEFINE all == ToSet(row) \cup {set_null(out[i], null) : i \in DOMAIN out, null \in BOOLEAN}
<1>1. \A v \in all : v \in AValue
  <2>1. row \in Seq(Stored) /\ out \in Seq(AValue)
    BY DEF RowInv
  <2>2. \A v \in ToSet(row) : v \in Stored
    BY <2>1, InSeq
  <2>3. \A i \in DOMAIN out : out[i] \in AValue
    BY <2>1
  <2>4. \A v \in AValue, null \in BOOLEAN : set_null(v, null) \in AValue
    BY DEF AValue, set_null
  <2>. QED
    BY <2>2, <2>3, <2>4 DEF Stored
<1>. HIDE DEF all
<1>2. \A v, w \in all :
         /\ Less(v, w) => ~Less(w, v) /\ ~Equal(v, w)
         /\ Less(v, w) \/ Less(w, v) \/ Equal(v, w)
         /\ \A x \in all :
               /\ Less(v, w) /\ Less(w, x) => Less(v, x)
               /\ Equal(v, w) => (Less(v, x) <=> Less(w, x)) /\ (Equal(v, x) <=> Equal(w, x))
  BY <1>1, OrderOfValues
<1>3. \A v, w : Equal(v, w) <=> Equal(w, v)
  BY DEF Equal
<1>4. \A v, w \in all : /\ LessOrEqual(v, w) <=> ~Less(w, v)
                        /\ Greater(v, w) <=> Less(w, v)
                        /\ GreaterOrEqual(v, w) <=> LessOrEqual(w, v)
  BY <1>2, <1>3 DEF LessOrEqual, Greater, GreaterOrEqual
<1>. QED
  BY <1>2, <1>4 DEF ValueOrder, all

(* For every set of values and rows of any length: a row comes back value  *)
(* by value, no value reads bytes of another, and only a CHAR at the end   *)
(* of the buffer makes strlen() run out of it (serialize_to(),             *)
(* deserialize_from(), get_serialized_size(), CharString()).               *)
THEOREM RowsComeBack == ValueSpec => []RowRoundTrip
<1>1. RowInv /\ [ValueNext]_value_vars => RowInv'
  BY RowStep
<1>. QED
  BY <1>1, RowInvInit, RoundTripFromInv, PTL DEF ValueSpec

(* For all values written or read: operator< is a strict total order up to *)
(* operator==, nulls last, and the other comparisons agree with it         *)
(* (operator<, operator==, operator<=, operator>, operator>=).             *)
THEOREM ValuesOrdered == ValueSpec => []ValueOrder
<1>1. RowInv /\ [ValueNext]_value_vars => RowInv'
  BY RowStep
<1>. QED
  BY <1>1, RowInvInit, OrderFromInv, PTL DEF ValueSpec

-----------------------------------------------------------------------------
(* The diagnostic log.                                                     *)

(* A thread is idle, or logs an event through one appender after the       *)
(* other, or makes an appender that is not the Logger's yet.               *)
Logs(t) ==
    /\ call[t].event = events
    /\ call[t].k \in 1 .. Len(m_appenders)
    /\ \/ pc[t] = "next" /\ call[t].ap = 0
       \/ pc[t] \in {"pick", "open", "write", "stuck"} /\ call[t].ap = m_appenders[call[t].k]

Makes(t) ==
    /\ pc[t] \in {"pick", "open", "time", "add"}
    /\ call[t].event = 0
    /\ call[t].ap \in 1 .. made
    /\ \A i \in 1 .. Len(m_appenders) : m_appenders[i] # call[t].ap

Shape(t) ==
    \/ pc[t] = "idle" /\ call[t] = NoCall
    \/ pc[t] # "idle" /\ call[t].event # 0 /\ Logs(t)
    \/ Makes(t)

CallShape ==
    /\ \A t \in Thread : Shape(t) /\ call[t].from <= day
    /\ \A i \in 1 .. Len(m_appenders) : m_appenders[i] <= made

(* One thread logs, and no two work on the same appender.                  *)
CallsApart ==
    \A t, u \in Thread : t # u =>
        /\ call[t].event # 0 => call[u].event = 0
        /\ call[t].ap # 0 => call[u].ap # call[t].ap

(* What is open is a file, of one appender if it is not shared; the stream *)
(* of an appender that no fault has hit is good, and closed while another  *)
(* file is opened.                                                         *)
Opening(a) == \E t \in Thread : pc[t] = "open" /\ call[t].ap = a

StreamsWhole ==
    /\ \A a \in Ids : stream[a].file # None => stream[a].file \in exists
    /\ \A a, b \in Ids :
          a # b /\ stream[a].file # None /\ stream[a].file = stream[b].file =>
              stream[a].file \in shared
    /\ \A a \in Ids \ faulty :
          IF Opening(a) THEN stream[a].file = None ELSE ~stream[a].fail

(* Indexes are used from 0 on without a gap, days up to the present one.   *)
NamesUsed ==
    /\ rotate = "size" => \E n \in 0 .. Cardinality(exists) :
          /\ exists \ {Bare} = 0 .. n - 1
          /\ \A t \in Thread : pc[t] = "open" => call[t].file \in 0 .. n
    /\ rotate = "time" =>
          /\ \A n \in exists : n <= day
          /\ \A t \in Thread : pc[t] = "open" => call[t].file \in 0 .. day

(* The file of a day is the file that m_lastRotateTime stands for.         *)
DayInv ==
    rotate = "time" =>
        /\ \A a \in Ids \ (straddled \cup faulty) :
              stream[a].file \in {None, Bare, m_lastRotateTime[a]}
        /\ \A t \in Thread : pc[t] = "open" =>
              /\ call[t].file = m_lastRotateTime[call[t].ap]
              /\ call[t].from <= call[t].file
        /\ \A t \in Thread :
              LET a == call[t].ap
              IN  /\ pc[t] = "write" /\ a \notin straddled \cup faulty
                  /\ stream[a].file \notin {None, Bare}
                  => call[t].from <= stream[a].file

(* m_currentSize counts what is in the file at least, if the appender has  *)
(* it for itself, and is below the limit where a line is written.          *)
SizeInv ==
    rotate = "size" =>
        /\ \A a \in Ids :
              ~stream[a].fail /\ stream[a].file \in exists \ ({Bare} \cup shared) =>
                  SizeOf(files[stream[a].file]) <= m_currentSize[a]
        /\ \A t \in Thread : pc[t] = "write" => m_currentSize[call[t].ap] < MaxSize

(* An appender has had the events in their order, the present one last; an *)
(* appender further on in the Logger's list has not had it yet.            *)
EventsInOrder ==
    /\ \A a \in Ids : \A i \in 1 .. Len(got[a]) :
          /\ got[a][i] <= events
          /\ \A j \in 1 .. Len(got[a]) : i < j => got[a][i] < got[a][j]
    /\ \A t \in Thread : call[t].event # 0 =>
          /\ pc[t] # "next" =>
                got[call[t].ap] # <<>> /\ Last(got[call[t].ap]) = events
          /\ \A k \in 1 .. Len(m_appenders) :
                (k > call[t].k \/ (k = call[t].k /\ pc[t] = "next")) =>
                    \A i \in 1 .. Len(got[m_appenders[k]]) : got[m_appenders[k]][i] < events

(* Rotation goes on to later files.                                        *)
FilesForward ==
    \A a \in Ids \ (faulty \cup reopened) : \A n \in exists :
        EventsIn(a, n) # {} =>
            /\ stream[a].file # None => n <= stream[a].file
            /\ \A t \in Thread : pc[t] = "open" /\ call[t].ap = a => n <= call[t].file

LogInv ==
    /\ TypeOK /\ CallShape /\ CallsApart /\ StreamsWhole /\ NamesUsed
    /\ DayInv /\ DayFile /\ SizeInv /\ SizeLimit
    /\ EventsInOrder /\ FilesForward /\ LinesKept

-----------------------------------------------------------------------------
(* The lines of a file, added up.                                          *)
Sizes(list) == [i \in 1 .. Len(list) |-> LineSize[list[i].event]]

LEMMA SizesFold ==
    ASSUME NEW list \in Seq(Line)
    PROVE  /\ Len(list) \in Nat
           /\ \A i \in 1 .. Len(list) : Sizes(list)[i] = LineSize[list[i].event]
           /\ AllNumbers(Sizes(list), Len(list))
           /\ \E f : IsFold(Sizes(list), Len(list), f) /\ SizeOf(list) = f[1 .. Len(list)]
<1>1. Len(list) \in Nat /\ DOMAIN list = 1 .. Len(list)
  OBVIOUS
<1>2. \A i \in 1 .. Len(list) :
         Sizes(list)[i] = LineSize[list[i].event] /\ Sizes(list)[i] \in Int
  <2>1. \A i \in 1 .. Len(list) : list[i] \in Line
    OBVIOUS
  <2>2. \A i \in 1 .. Len(list) : list[i].event \in Event
    BY <2>1 DEF Line
  <2>3. \A i \in 1 .. Len(list) : LineSize[list[i].event] \in Nat
    BY <2>2, LineSizeAssumption
  <2>. QED
    BY <2>3 DEF Sizes
<1>. DEFINE F(f) == [s \in SUBSET (1 .. Len(list)) |->
                       IF s = {} THEN 0
                       ELSE LET x == Max(s) IN f[s \ {x}] + LineSize[list[x].event]]
            g    == CHOOSE f : f = F(f)
<1>3. SizeOf(list) = g[1 .. Len(list)]
  BY <1>1 DEF SizeOf, FoldLeft, MapThenFoldSet
<1>4. ASSUME NEW f PROVE f = F(f) <=> IsFold(Sizes(list), Len(list), f)
  <2>1. ASSUME NEW s \in SUBSET (1 .. Len(list)), s # {}
        PROVE  LineSize[list[Max(s)].event] = Sizes(list)[Max(s)]
    BY <1>1, <1>2, <2>1, MaxPlace
  <2>. DEFINE G == [s \in SUBSET (1 .. Len(list)) |->
                      IF s = {} THEN 0
                      ELSE LET x == Max(s) IN f[s \ {x}] + Sizes(list)[x]]
  <2>2. F(f) = G
    BY <2>1
  <2>. QED
    BY <2>2 DEF IsFold
<1>5. \E f : f = F(f)
  <2>1. PICK f : IsFold(Sizes(list), Len(list), f)
    BY <1>1, FoldExists
  <2>2. f = F(f)
    BY <1>4, <2>1
  <2>. QED
    BY <2>2
<1>. HIDE DEF F
<1>6. g = F(g)
  BY <1>5
<1>7. IsFold(Sizes(list), Len(list), g)
  BY <1>4, <1>6
<1>. QED
  BY <1>1, <1>2, <1>3, <1>7 DEF AllNumbers

LEMMA SizeOfNothing == SizeOf(<<>>) = 0
<1>1. <<>> \in Seq(Line) /\ Len(<<>>) = 0
  OBVIOUS
<1>2. PICK f : IsFold(Sizes(<<>>), 0, f) /\ SizeOf(<<>>) = f[1 .. 0]
  BY <1>1, SizesFold
<1>. QED
  BY <1>2, FoldSteps

(* A line more, its size more.                                             *)
LEMMA SizeOfAppend ==
    ASSUME NEW list \in Seq(Line), NEW l \in Line
    PROVE  /\ SizeOf(list) \in Int
           /\ SizeOf(Append(list, l)) = SizeOf(list) + LineSize[l.event]
<1>. DEFINE n == Len(list)
            more == Append(list, l)
<1>1. /\ n \in Nat /\ more \in Seq(Line) /\ Len(more) = n + 1
      /\ \A i \in 1 .. n : more[i] = list[i]
      /\ more[n + 1] = l /\ n + 1 \in 1 .. n + 1 /\ \A i \in 1 .. n : i \in 1 .. n + 1 /\ i + 0 = i
      /\ n \in 0 .. n
  OBVIOUS
<1>. HIDE DEF n, more
<1>3. PICK f : IsFold(Sizes(list), n, f) /\ SizeOf(list) = f[1 .. n]
  BY SizesFold DEF n
<1>4. PICK g : IsFold(Sizes(more), n + 1, g) /\ SizeOf(more) = g[1 .. n + 1]
  BY <1>1, SizesFold
<1>5. /\ \A i \in 1 .. n : Sizes(list)[i] = LineSize[list[i].event]
      /\ AllNumbers(Sizes(list), n)
  BY SizesFold DEF n
<1>6. /\ \A i \in 1 .. n + 1 : Sizes(more)[i] = LineSize[more[i].event]
      /\ AllNumbers(Sizes(more), n + 1)
  BY <1>1, SizesFold
<1>7. Shifted(Sizes(list), Sizes(more), n, 0) /\ Sizes(more)[n + 1] = LineSize[l.event]
  BY <1>1, <1>5, <1>6 DEF Shifted
<1>8. g[1 .. n + 1] = f[1 .. n] + Sizes(more)[n + 1]
  BY <1>1, <1>3, <1>4, <1>6, <1>7, FoldPush
<1>9. f[1 .. n] \in Int
  BY <1>1, <1>3, <1>5, FoldType
<1>. QED
  BY <1>3, <1>4, <1>7, <1>8, <1>9 DEF more

(* The Logger has no more appenders than were made.                        *)
LEMMA AppendersFit ==
    ASSUME TypeOK
    PROVE  /\ Len(m_appenders) \in 0 .. Appender
           /\ DOMAIN m_appenders = 1 .. Len(m_appenders)
           /\ \A i \in 1 .. Len(m_appenders) : m_appenders[i] \in Ids
           /\ \A i, j \in 1 .. Len(m_appenders) : m_appenders[i] = m_appenders[j] => i = j
<1>. DEFINE n == Len(m_appenders)
<1>1. m_appenders \in Seq(Ids) /\ IsInjective(m_appenders) /\ Appender \in Nat
  BY BoundAssumption DEF TypeOK
<1>2. /\ n \in Nat /\ DOMAIN m_appenders = 1 .. n /\ \A i \in 1 .. n : m_appenders[i] \in Ids
      /\ m_appenders \in [1 .. n -> Ids]
  BY <1>1
<1>3. \A i, j \in 1 .. n : m_appenders[i] = m_appenders[j] => i = j
  BY <1>1, InjectiveSeq
<1>4. n <= Appender
  <2>1. m_appenders \in Injection(1 .. n, 1 .. Appender)
    BY <1>1, <1>2 DEF Injection, Ids
  <2>2. /\ IsFiniteSet(1 .. Appender) /\ Cardinality(1 .. Appender) = Appender
        /\ Cardinality(1 .. n) = n
    BY <1>1, <1>2, FS_Interval
  <2>3. Cardinality(1 .. n) <= Cardinality(1 .. Appender)
    BY <2>1, <2>2, FS_Injection
  <2>. QED
    BY <2>2, <2>3
<1>. QED
  BY <1>1, <1>2, <1>3, <1>4

(* The calls the steps make.                                               *)
LEMMA CallsMade ==
    /\ NoCall \in Call
    /\ NoCall.event = 0 /\ NoCall.ap = 0 /\ NoCall.k = 0 /\ NoCall.from = 0 /\ NoCall.file = None
    /\ \A a \in 0 .. Appender :
          LET c == [NoCall EXCEPT !.ap = a]
          IN  c \in Call /\ c.event = 0 /\ c.ap = a /\ c.from = 0
    /\ \A e \in 0 .. MaxEvent, k \in 0 .. Appender :
          LET c == [NoCall EXCEPT !.event = e, !.k = k]
          IN  c \in Call /\ c.event = e /\ c.ap = 0 /\ c.k = k /\ c.from = 0
    /\ \A d \in Call, f \in FileName :
          LET c == [d EXCEPT !.file = f]
          IN  /\ c \in Call /\ c.event = d.event /\ c.ap = d.ap /\ c.k = d.k
              /\ c.from = d.from /\ c.file = f
<1>1. MaxEvent \in Nat /\ Appender \in Nat /\ MaxDay \in Nat
  BY BoundAssumption
<1>2. /\ NoCall \in Call
      /\ NoCall.event = 0 /\ NoCall.ap = 0 /\ NoCall.k = 0 /\ NoCall.from = 0 /\ NoCall.file = None
  BY <1>1 DEF NoCall, Call
<1>3. ASSUME NEW a \in 0 .. Appender
      PROVE  LET c == [NoCall EXCEPT !.ap = a]
             IN  c \in Call /\ c.event = 0 /\ c.ap = a /\ c.from = 0
  <2>1. [NoCall EXCEPT !.ap = a] =
           [event |-> 0, ap |-> a, k |-> 0, file |-> None, from |-> 0]
    BY DEF NoCall
  <2>. QED
    BY <1>1, <2>1 DEF Call
<1>4. ASSUME NEW e \in 0 .. MaxEvent, NEW k \in 0 .. Appender
      PROVE  LET c == [NoCall EXCEPT !.event = e, !.k = k]
             IN  c \in Call /\ c.event = e /\ c.ap = 0 /\ c.k = k /\ c.from = 0
  <2>1. ASSUME NEW d \in Call
        PROVE  LET c == [d EXCEPT !.event = e, !.k = k]
               IN  c \in Call /\ c.event = e /\ c.ap = d.ap /\ c.k = k /\ c.from = d.from
    BY <1>1 DEF Call
  <2>. QED
    BY <1>2, <2>1
<1>5. ASSUME NEW d \in Call, NEW f \in FileName
      PROVE  LET c == [d EXCEPT !.file = f]
             IN  /\ c \in Call /\ c.event = d.event /\ c.ap = d.ap /\ c.k = d.k
                 /\ c.from = d.from /\ c.file = f
  BY <1>1 DEF Call
<1>. QED
  BY <1>2, <1>3, <1>4, <1>5

(* What Goto() does to the threads.                                        *)
Label == {"idle", "next", "pick", "open", "write", "stuck", "time", "add"}

LEMMA GotoDoes ==
    ASSUME TypeOK, NEW t \in Thread, NEW l \in Label, NEW c \in Call, Goto(t, l, c)
    PROVE  /\ pc' \in [Thread -> Label] /\ call' \in [Thread -> Call]
           /\ pc'[t] = l /\ call'[t] = c
           /\ \A u \in Thread \ {t} : pc'[u] = pc[u] /\ call'[u] = call[u]
  BY DEF Goto, TypeOK, Label

(* The streams.                                                            *)
LEMMA CloseDoes ==
    ASSUME NEW s \in Stream
    PROVE  LET c == CloseIfGood(s)
           IN  /\ c \in Stream
               /\ c.file \in {None, s.file}
               /\ ~s.fail => c.file = None
               /\ s.fail => c = s
               /\ ~c.fail => c.file = None
  BY DEF CloseIfGood, Closed, Stream

LEMMA OpenedIs ==
    ASSUME NEW s \in Stream, NEW name \in FileName, NEW ok \in BOOLEAN
    PROVE  LET o == Opened(s, name, ok)
           IN  /\ o \in Stream
               /\ s.file = None /\ ok => o.file = name /\ ~o.fail
               /\ ~(s.file = None /\ ok) => o.file = s.file /\ o.fail
  BY DEF Opened, Stream

LEMMA OpenDoes ==
    ASSUME TypeOK, NEW a \in Ids, NEW s \in Stream, NEW name \in FileName, NEW ok \in BOOLEAN,
           OpenStream(a, s, name, ok)
    PROVE  /\ stream' \in [Ids -> Stream] /\ stream'[a] = Opened(s, name, ok)
           /\ \A b \in Ids \ {a} : stream'[b] = stream[b]
           /\ files' \in [exists' -> Seq(Line)]
           /\ exists' \subseteq FileName /\ IsFiniteSet(exists')
           /\ exists' = IF s.file = None /\ ok THEN exists \cup {name} ELSE exists
           /\ \A n \in exists : files'[n] = files[n]
           /\ \A n \in exists' \ exists : files'[n] = <<>>
           /\ shared' = IF s.file = None /\ ok /\ name \in exists
                        THEN shared \cup {name} ELSE shared
           /\ ok => faulty' = faulty /\ faults' = faults
           /\ ~ok => faulty' = faulty \cup {a} /\ faults < MaxFaults /\ faults' = faults + 1
<1>0. /\ stream \in [Ids -> Stream] /\ files \in [exists -> Seq(Line)]
      /\ exists \subseteq FileName /\ IsFiniteSet(exists)
  BY DEF TypeOK
<1>1. stream' = [stream EXCEPT ![a] = Opened(s, name, ok)] /\ Opened(s, name, ok) \in Stream
  BY OpenedIs DEF OpenStream
<1>2. /\ ok => faulty' = faulty /\ faults' = faults
      /\ ~ok => faulty' = faulty \cup {a} /\ faults < MaxFaults /\ faults' = faults + 1
  BY DEF OpenStream
<1>3. CASE s.file = None /\ ok
  <2>. DEFINE grown == [n \in exists \cup {name} |-> IF n \in exists THEN files[n] ELSE <<>>]
  <2>1. /\ files' = grown
        /\ shared' = IF name \in exists THEN shared \cup {name} ELSE shared
    BY <1>3 DEF OpenStream
  <2>2. exists' = exists \cup {name}
    BY <2>1 DEF exists
  <2>3. grown \in [exists \cup {name} -> Seq(Line)]
    <3>1. <<>> \in Seq(Line)
      OBVIOUS
    <3>. QED
      BY <1>0, <3>1
  <2>4. \A n \in exists : files'[n] = files[n]
    BY <2>1
  <2>5. \A n \in exists' \ exists : files'[n] = <<>>
    BY <2>1, <2>2
  <2>6. IsFiniteSet(exists \cup {name})
    BY <1>0, FS_AddElement
  <2>7. exists' = IF s.file = None /\ ok THEN exists \cup {name} ELSE exists
    BY <1>3, <2>2
  <2>. HIDE DEF grown
  <2>8. files' \in [exists' -> Seq(Line)]
    BY <2>1, <2>2, <2>3
  <2>9. shared' = IF s.file = None /\ ok /\ name \in exists
                  THEN shared \cup {name} ELSE shared
    BY <1>3, <2>1
  <2>10. exists' \subseteq FileName /\ IsFiniteSet(exists')
    BY <1>0, <2>2, <2>6
  <2>. QED
    BY <1>0, <1>1, <1>2, <2>4, <2>5, <2>7, <2>8, <2>9, <2>10
<1>4. CASE ~(s.file = None /\ ok)
  <2>1. files' = files /\ shared' = shared
    BY <1>4 DEF OpenStream
  <2>2. exists' = exists
    BY <2>1 DEF exists
  <2>. QED
    BY <1>0, <1>1, <1>2, <1>4, <2>1, <2>2
<1>. QED
  BY <1>3, <1>4

(* The first index that is free follows the last that is used.             *)
LEMMA FreeIndexIs ==
    ASSUME TypeOK, NEW n \in 0 .. Cardinality(exists), exists \ {Bare} = 0 .. n - 1
    PROVE  FreeIndex = n
<1>0. Cardinality(exists) \in Nat
  BY FS_CardinalityType DEF TypeOK
<1>1. n \in Nat /\ n # Bare
  BY <1>0 DEF Bare
<1>2. \A m \in 0 .. n - 1 : m \in exists
  OBVIOUS
<1>3. n \notin exists
  BY <1>1
<1>4. ASSUME NEW k \in 0 .. Cardinality(exists), k \notin exists, \A m \in 0 .. k - 1 : m \in exists
      PROVE  k = n
  <2>1. ~(k < n)
    BY <1>0, <1>1, <1>2, <1>4
  <2>2. ~(n < k)
    BY <1>0, <1>1, <1>3, <1>4
  <2>. QED
    BY <1>0, <1>1, <2>1, <2>2
<1>. QED
  BY <1>2, <1>3, <1>4 DEF FreeIndex

(* LogNext(): the next appender, or the end of log().                      *)
LEMMA LogNextDoes ==
    ASSUME TypeOK, NEW t \in Thread, LogNext(t), call[t].event # 0,
           call[t].k \in 1 .. Len(m_appenders)
    PROVE  /\ pc' \in [Thread -> Label] /\ call' \in [Thread -> Call]
           /\ \A u \in Thread \ {t} : pc'[u] = pc[u] /\ call'[u] = call[u]
           /\ call'[t].ap = 0 /\ call'[t].from = 0
           /\ \/ /\ call[t].k = Len(m_appenders)
                 /\ pc'[t] = "idle" /\ call'[t] = NoCall
              \/ /\ call[t].k < Len(m_appenders)
                 /\ pc'[t] = "next" /\ call'[t].event = call[t].event
                 /\ call'[t].k = call[t].k + 1
<1>1. CASE call[t].k = Len(m_appenders)
  <2>1. Goto(t, "idle", NoCall)
    BY <1>1 DEF LogNext
  <2>2. "idle" \in Label /\ NoCall \in Call
    BY CallsMade DEF Label
  <2>3. /\ pc' \in [Thread -> Label] /\ call' \in [Thread -> Call]
        /\ pc'[t] = "idle" /\ call'[t] = NoCall
        /\ \A u \in Thread \ {t} : pc'[u] = pc[u] /\ call'[u] = call[u]
    BY <2>1, <2>2, GotoDoes
  <2>. QED
    BY <1>1, <2>3, CallsMade
<1>2. CASE call[t].k # Len(m_appenders)
  <2>. DEFINE e == call[t].event
              k == call[t].k + 1
              c == [NoCall EXCEPT !.event = e, !.k = k]
  <2>1. Goto(t, "next", c)
    BY <1>2 DEF LogNext
  <2>2. e \in 0 .. MaxEvent /\ k \in 0 .. Appender /\ call[t].k < Len(m_appenders)
    <3>1. call[t] \in Call
      BY DEF TypeOK
    <3>2. Len(m_appenders) \in 0 .. Appender /\ Appender \in Nat
      BY AppendersFit, BoundAssumption
    <3>3. call[t].event \in 0 .. MaxEvent
      BY <3>1 DEF Call
    <3>. QED
      BY <1>2, <3>2, <3>3
  <2>. HIDE DEF e, k
  <2>3. "next" \in Label /\ c \in Call /\ c.event = e /\ c.k = k /\ c.ap = 0 /\ c.from = 0
    BY <2>2, CallsMade DEF Label
  <2>. HIDE DEF c
  <2>4. /\ pc' \in [Thread -> Label] /\ call' \in [Thread -> Call]
        /\ pc'[t] = "next" /\ call'[t] = c
        /\ \A u \in Thread \ {t} : pc'[u] = pc[u] /\ call'[u] = call[u]
    BY <2>1, <2>3, GotoDoes
  <2>. QED
    BY <2>2, <2>3, <2>4 DEF e, k
<1>. QED
  BY <1>1, <1>2

LEMMA TypeInit == Init => TypeOK
<1>. SUFFICES ASSUME Init PROVE TypeOK
  OBVIOUS
<1>1. /\ MaxDay \in Nat /\ MaxEvent \in Nat /\ Appender \in Nat /\ MaxFaults \in Nat
      /\ MaxReopens \in Nat
  BY BoundAssumption
<1>2. exists = {} /\ files \in [exists -> Seq(Line)] /\ IsFiniteSet(exists)
  BY FS_EmptySet DEF Init, exists
<1>3. stream \in [Ids -> Stream]
  BY DEF Init, Stream, None
<1>4. m_appenders \in Seq(Ids) /\ IsInjective(m_appenders)
  BY DEF Init, IsInjective
<1>5. pc \in [Thread -> {"idle", "next", "pick", "open", "write", "stuck", "time", "add"}]
  BY DEF Init
<1>6. call \in [Thread -> Call]
  BY CallsMade DEF Init
<1>7. got \in [Ids -> Seq(Event)]
  <2>1. <<>> \in Seq(Event)
    OBVIOUS
  <2>. QED
    BY <2>1 DEF Init
<1>8. m_currentSize \in [Ids -> Nat] /\ m_lastRotateTime \in [Ids -> 0 .. MaxDay]
  BY <1>1 DEF Init
<1>9. /\ rotate \in {"size", "time"} /\ exists \subseteq FileName
      /\ day \in 0 .. MaxDay /\ events \in 0 .. MaxEvent /\ made \in 0 .. Appender
      /\ faults \in 0 .. MaxFaults /\ reopens \in 0 .. MaxReopens
      /\ faulty = {} /\ shared = {} /\ straddled = {} /\ reopened = {}
  BY <1>1, <1>2 DEF Init
<1>. QED
  BY <1>2, <1>3, <1>4, <1>5, <1>6, <1>7, <1>8, <1>9 DEF TypeOK

(* RemoveAt() takes one appender out.                                      *)
LEMMA DelDoes ==
    ASSUME TypeOK, NEW i \in DOMAIN m_appenders, m_appenders' = RemoveAt(m_appenders, i)
    PROVE  /\ m_appenders' \in Seq(Ids) /\ IsInjective(m_appenders')
           /\ Len(m_appenders') = Len(m_appenders) - 1
           /\ \A j \in 1 .. Len(m_appenders') : \E k \in 1 .. Len(m_appenders) :
                 m_appenders'[j] = m_appenders[k]
<1>0. m_appenders \in Seq(Ids) /\ IsInjective(m_appenders)
  BY DEF TypeOK
<1>1. i \in 1 .. Len(m_appenders) /\ Len(m_appenders) \in Nat
  BY <1>0
<1>. DEFINE r == RemoveAt(m_appenders, i)
<1>2. /\ r \in Seq(Ids) /\ Len(r) = Len(m_appenders) - 1
      /\ \A j \in 1 .. Len(m_appenders) - 1 :
            r[j] = IF j < i THEN m_appenders[j] ELSE m_appenders[j + 1]
  BY <1>0, <1>1, RemoveAtPlaces
<1>. HIDE DEF r
<1>3. \A j, k \in 1 .. Len(m_appenders) : m_appenders[j] = m_appenders[k] => j = k
  BY <1>0, InjectiveSeq
<1>4. \A j \in 1 .. Len(r) :
         LET k == IF j < i THEN j ELSE j + 1
         IN  k \in 1 .. Len(m_appenders) /\ r[j] = m_appenders[k]
  BY <1>1, <1>2
<1>5. \A j, k \in 1 .. Len(r) : r[j] = r[k] => j = k
  <2>. SUFFICES ASSUME NEW j \in 1 .. Len(r), NEW k \in 1 .. Len(r), r[j] = r[k] PROVE j = k
    OBVIOUS
  <2>1. (IF j < i THEN j ELSE j + 1) = (IF k < i THEN k ELSE k + 1)
    BY <1>3, <1>4
  <2>. QED
    BY <1>1, <1>2, <2>1
<1>6. IsInjective(r)
  BY <1>2, <1>5, InjectiveSeq
<1>7. \A j \in 1 .. Len(r) : \E k \in 1 .. Len(m_appenders) : r[j] = m_appenders[k]
  BY <1>4
<1>8. m_appenders' = r
  BY DEF r
<1>. QED
  BY <1>2, <1>6, <1>7, <1>8

(* What the place of a thread says about its call.                         *)
LEMMA AtWork ==
    ASSUME TypeOK, CallShape, NEW t \in Thread
    PROVE  /\ pc[t] = "idle" <=> call[t] = NoCall
           /\ call[t].event # 0 \/ pc[t] = "next" \/ pc[t] = "write" \/ pc[t] = "stuck" =>
                 call[t].event # 0 /\ Logs(t) /\ call[t].event = events
           /\ pc[t] \in {"time", "add"} => Makes(t)
           /\ pc[t] # "idle" /\ call[t].event = 0 => Makes(t)
           /\ pc[t] \notin {"idle", "next"} => call[t].ap \in Ids /\ call[t].ap <= made
           /\ pc[t] \in {"idle", "next"} <=> call[t].ap = 0
           /\ pc[t] = "next" => m_appenders[call[t].k] \in Ids
<1>0. \/ pc[t] = "idle" /\ call[t] = NoCall
      \/ pc[t] # "idle" /\ call[t].event # 0 /\ Logs(t)
      \/ Makes(t)
  BY DEF CallShape, Shape
<1>1. /\ made \in 0 .. Appender /\ Appender \in Nat
      /\ \A i \in 1 .. Len(m_appenders) : m_appenders[i] \in Ids /\ m_appenders[i] <= made
  BY AppendersFit, BoundAssumption DEF TypeOK, CallShape
<1>n. NoCall.event = 0 /\ NoCall.ap = 0
  BY CallsMade
<1>2. CASE pc[t] = "idle" /\ call[t] = NoCall
  BY <1>2, <1>n
<1>3. CASE pc[t] # "idle" /\ call[t].event # 0 /\ Logs(t)
  <2>1. \/ pc[t] = "next" /\ call[t].ap = 0 /\ m_appenders[call[t].k] \in Ids
        \/ /\ pc[t] \in {"pick", "open", "write", "stuck"}
           /\ call[t].ap \in Ids /\ call[t].ap <= made
    BY <1>1, <1>3 DEF Logs
  <2>2. call[t].event = events /\ 0 \notin Ids
    BY <1>1, <1>3 DEF Logs, Ids
  <2>3. call[t] # NoCall
    BY <1>3, <1>n
  <2>. QED
    BY <1>3, <2>1, <2>2, <2>3
<1>4. CASE Makes(t)
  <2>1. /\ pc[t] \in {"pick", "open", "time", "add"} /\ call[t].event = 0
        /\ call[t].ap \in Ids /\ call[t].ap <= made /\ call[t].ap # 0
    BY <1>1, <1>4 DEF Makes, Ids
  <2>2. call[t] # NoCall
    BY <2>1, <1>n
  <2>. QED
    BY <1>4, <2>1, <2>2
<1>. QED
  BY <1>0, <1>2, <1>3, <1>4

(* What the steps that rotate do.                                          *)
LEMMA CheckDoes ==
    ASSUME TypeOK, CallShape, NEW t \in Thread, LogCheck(t)
    PROVE  LET a == m_appenders[call[t].k]
           IN  /\ a \in Ids /\ a # 0 /\ pc[t] = "next" /\ Logs(t)
               /\ call[t].event \in Event /\ call[t].event = events
               /\ pc' \in [Thread -> Label] /\ call' \in [Thread -> Call]
               /\ pc'[t] = IF checkRotate(a) THEN "pick" ELSE "write"
               /\ call'[t].event = call[t].event /\ call'[t].ap = a /\ call'[t].k = call[t].k
               /\ call'[t].from = day
               /\ \A u \in Thread \ {t} : pc'[u] = pc[u] /\ call'[u] = call[u]
               /\ \A u \in Thread \ {t} : call[u].ap # a
               /\ got' \in [Ids -> Seq(Event)] /\ got'[a] = Append(got[a], events)
               /\ \A b \in Ids \ {a} : got'[b] = got[b]
<1>. DEFINE a == m_appenders[call[t].k]
            l == IF checkRotate(a) THEN "pick" ELSE "write"
            c == [call[t] EXCEPT !.ap = a, !.from = day]
<1>0. /\ MaxEvent \in Nat /\ Appender \in Nat /\ call \in [Thread -> Call]
      /\ got \in [Ids -> Seq(Event)] /\ day \in 0 .. MaxDay
  BY BoundAssumption DEF TypeOK
<1>1. /\ pc[t] = "next" /\ AppenderFree(a) /\ Goto(t, l, c)
      /\ got' = [got EXCEPT ![a] = Append(@, call[t].event)]
  BY DEF LogCheck
<1>2. a \in Ids /\ call[t] \in Call /\ call[t].event # 0 /\ Logs(t)
  BY <1>0, <1>1, AtWork
<1>3. call[t].event \in Event /\ call[t].event = events
  BY <1>0, <1>2 DEF Call, Event, Logs
<1>4. a \in 0 .. Appender /\ a # 0
  BY <1>0, <1>2 DEF Ids
<1>. HIDE DEF a
<1>5. c \in Call /\ c.event = call[t].event /\ c.ap = a /\ c.k = call[t].k /\ c.from = day
  <2>1. ASSUME NEW d \in Call
        PROVE  LET c1 == [d EXCEPT !.ap = a, !.from = day]
               IN  /\ c1 \in Call /\ c1.event = d.event /\ c1.ap = a /\ c1.k = d.k
                   /\ c1.from = day
    BY <1>0, <1>4 DEF Call
  <2>. QED
    BY <1>2, <2>1
<1>6. l \in Label
  BY DEF Label
<1>. HIDE DEF c, l
<1>7. /\ pc' \in [Thread -> Label] /\ call' \in [Thread -> Call]
      /\ pc'[t] = l /\ call'[t] = c
      /\ \A u \in Thread \ {t} : pc'[u] = pc[u] /\ call'[u] = call[u]
  BY <1>1, <1>5, <1>6, GotoDoes
<1>8. \A u \in Thread : call[u].ap # a
  <2>1. \A u \in Thread : pc[u] = "idle" => call[u].ap = 0
    BY AtWork
  <2>. QED
    BY <1>1, <1>4, <2>1 DEF AppenderFree
<1>9. /\ got' \in [Ids -> Seq(Event)] /\ got'[a] = Append(got[a], events)
      /\ \A b \in Ids \ {a} : got'[b] = got[b]
  BY <1>0, <1>1, <1>2, <1>3
<1>. QED
  BY <1>1, <1>2, <1>3, <1>4, <1>5, <1>7, <1>8, <1>9 DEF a, l

LEMMA PickDoes ==
    ASSUME TypeOK, CallShape, NamesUsed, NEW t \in Thread, PickFile(t)
    PROVE  LET a    == call[t].ap
               name == call'[t].file
           IN  /\ a \in Ids /\ pc[t] = "pick"
               /\ name \in FileName
               /\ rotate = "time" => name = day
               /\ rotate = "size" => /\ name \in 0 .. Cardinality(exists)
                                     /\ exists \ {Bare} = 0 .. name - 1
               /\ pc' \in [Thread -> Label] /\ call' \in [Thread -> Call]
               /\ pc'[t] = "open"
               /\ call'[t].event = call[t].event /\ call'[t].ap = a
               /\ call'[t].k = call[t].k /\ call'[t].from = call[t].from
               /\ \A u \in Thread \ {t} : pc'[u] = pc[u] /\ call'[u] = call[u]
               /\ stream' \in [Ids -> Stream] /\ stream'[a] = CloseIfGood(stream[a])
               /\ \A b \in Ids \ {a} : stream'[b] = stream[b]
               /\ m_lastRotateTime' \in [Ids -> 0 .. MaxDay]
               /\ rotate = "time" => m_lastRotateTime'[a] = day
               /\ \A b \in Ids \ {a} : m_lastRotateTime'[b] = m_lastRotateTime[b]
<1>. DEFINE a == call[t].ap
            name == IF rotate = "time" THEN day ELSE FreeIndex
            c == [call[t] EXCEPT !.file = name]
<1>0. /\ day \in 0 .. MaxDay /\ MaxDay \in Nat /\ call \in [Thread -> Call]
      /\ rotate \in {"size", "time"} /\ stream \in [Ids -> Stream]
      /\ m_lastRotateTime \in [Ids -> 0 .. MaxDay]
  BY BoundAssumption DEF TypeOK
<1>1. /\ stream' = [stream EXCEPT ![a] = CloseIfGood(stream[a])]
      /\ m_lastRotateTime' = [m_lastRotateTime EXCEPT ![a] = IF rotate = "time" THEN day ELSE @]
      /\ Goto(t, "open", c) /\ pc[t] = "pick"
  BY DEF PickFile
<1>2. a \in Ids /\ call[t] \in Call /\ stream[a] \in Stream
  BY <1>0, <1>1, AtWork
<1>3. /\ rotate = "time" => name = day /\ name \in FileName
      /\ rotate = "size" => /\ name \in 0 .. Cardinality(exists) /\ name \in FileName
                            /\ exists \ {Bare} = 0 .. name - 1
  <2>1. CASE rotate = "time"
    BY <1>0, <2>1 DEF FileName
  <2>2. CASE rotate = "size"
    <3>1. Cardinality(exists) \in Nat
      BY FS_CardinalityType DEF TypeOK
    <3>2. PICK n \in 0 .. Cardinality(exists) : exists \ {Bare} = 0 .. n - 1
      BY <2>2 DEF NamesUsed
    <3>3. FreeIndex = n
      BY <3>2, FreeIndexIs
    <3>. QED
      BY <2>2, <3>1, <3>2, <3>3 DEF FileName
  <2>. QED
    BY <1>0, <2>1, <2>2
<1>. HIDE DEF name
<1>4. name \in FileName
  BY <1>0, <1>3
<1>5. /\ c \in Call /\ c.event = call[t].event /\ c.ap = a /\ c.k = call[t].k
      /\ c.from = call[t].from /\ c.file = name
  BY <1>2, <1>4, CallsMade
<1>6. CloseIfGood(stream[a]) \in Stream
  BY <1>2, CloseDoes
<1>. HIDE DEF c
<1>7. /\ pc' \in [Thread -> Label] /\ call' \in [Thread -> Call]
      /\ pc'[t] = "open" /\ call'[t] = c
      /\ \A u \in Thread \ {t} : pc'[u] = pc[u] /\ call'[u] = call[u]
  BY <1>1, <1>5, GotoDoes DEF Label
<1>8. /\ stream' \in [Ids -> Stream] /\ stream'[a] = CloseIfGood(stream[a])
      /\ \A b \in Ids \ {a} : stream'[b] = stream[b]
  BY <1>0, <1>1, <1>2, <1>6
<1>9. /\ m_lastRotateTime' \in [Ids -> 0 .. MaxDay]
      /\ rotate = "time" => m_lastRotateTime'[a] = day
      /\ \A b \in Ids \ {a} : m_lastRotateTime'[b] = m_lastRotateTime[b]
  BY <1>0, <1>1, <1>2
<1>. HIDE DEF a
<1>10. call'[t].file = name
  BY <1>5, <1>7
<1>. QED
  BY <1>1, <1>2, <1>3, <1>4, <1>5, <1>7, <1>8, <1>9, <1>10 DEF a

LEMMA OpenFileDoes ==
    ASSUME TypeOK, CallShape, NamesUsed, NEW t \in Thread, NEW ok \in BOOLEAN, OpenFile(t, ok)
    PROVE  LET a == call[t].ap
           IN  /\ a \in Ids /\ pc[t] = "open" /\ call[t].file \in Nat
               /\ stream[a] \in Stream
               /\ OpenStream(a, stream[a], call[t].file, ok)
               /\ pc' \in [Thread -> Label] /\ call' = call
               /\ pc'[t] = IF call[t].event = 0 THEN "time" ELSE "write"
               /\ \A u \in Thread \ {t} : pc'[u] = pc[u]
               /\ m_currentSize' \in [Ids -> Nat] /\ m_currentSize'[a] = 0
               /\ \A b \in Ids \ {a} : m_currentSize'[b] = m_currentSize[b]
<1>. DEFINE a == call[t].ap
<1>0. /\ pc \in [Thread -> Label] /\ call \in [Thread -> Call] /\ stream \in [Ids -> Stream]
      /\ rotate \in {"size", "time"} /\ m_currentSize \in [Ids -> Nat]
  BY DEF TypeOK, Label
<1>1. /\ pc[t] = "open" /\ OpenStream(a, stream[a], call[t].file, ok)
      /\ Goto(t, IF call[t].event = 0 THEN "time" ELSE "write", call[t])
      /\ m_currentSize' = [m_currentSize EXCEPT ![a] = 0]
  BY DEF OpenFile
<1>2. a \in Ids /\ call[t] \in Call
  BY <1>0, <1>1, AtWork
<1>3. call[t].file \in Nat
  BY <1>0, <1>1 DEF NamesUsed
<1>4. /\ pc' = [pc EXCEPT ![t] = IF call[t].event = 0 THEN "time" ELSE "write"]
      /\ call' = call
  BY <1>0, <1>1 DEF Goto
<1>5. /\ pc' \in [Thread -> Label]
      /\ pc'[t] = IF call[t].event = 0 THEN "time" ELSE "write"
      /\ \A u \in Thread \ {t} : pc'[u] = pc[u]
  BY <1>0, <1>4 DEF Label
<1>6. /\ m_currentSize' \in [Ids -> Nat] /\ m_currentSize'[a] = 0
      /\ \A b \in Ids \ {a} : m_currentSize'[b] = m_currentSize[b]
  BY <1>0, <1>1, <1>2
<1>. QED
  BY <1>0, <1>1, <1>2, <1>3, <1>4, <1>5, <1>6

LEMMA TypeStep ==
    ASSUME TypeOK, CallShape, StreamsWhole, NamesUsed, Next
    PROVE  TypeOK'
<1>0. /\ MaxDay \in Nat /\ MaxEvent \in Nat /\ Appender \in Nat /\ MaxFaults \in Nat
      /\ MaxReopens \in Nat
  BY BoundAssumption
<1>1. /\ rotate \in {"size", "time"}
      /\ files \in [exists -> Seq(Line)]
      /\ exists \subseteq FileName /\ IsFiniteSet(exists)
      /\ stream \in [Ids -> Stream]
      /\ m_currentSize \in [Ids -> Nat]
      /\ m_lastRotateTime \in [Ids -> 0 .. MaxDay]
      /\ m_appenders \in Seq(Ids) /\ IsInjective(m_appenders)
      /\ pc \in [Thread -> Label] /\ call \in [Thread -> Call]
      /\ day \in 0 .. MaxDay /\ events \in 0 .. MaxEvent /\ made \in 0 .. Appender
      /\ got \in [Ids -> Seq(Event)]
      /\ faulty \subseteq Ids /\ faults \in 0 .. MaxFaults
      /\ shared \subseteq FileName /\ straddled \subseteq Ids
      /\ reopened \subseteq Ids /\ reopens \in 0 .. MaxReopens
  BY DEF TypeOK, Label
<1>e. files' = files => exists' = exists
  BY DEF exists
<1>2. ASSUME NEW t \in Thread, InitLogger(t) PROVE TypeOK'
  <2>1. made + 1 \in 0 .. Appender /\ made' = made + 1
    BY <1>0, <1>1, <1>2 DEF InitLogger
  <2>2. pc' \in [Thread -> Label] /\ call' \in [Thread -> Call]
    BY <1>2, <2>1, CallsMade, GotoDoes DEF InitLogger, Label
  <2>. QED
    BY <1>1, <1>2, <1>e, <2>1, <2>2 DEF TypeOK, InitLogger, ap_vars, history_vars, Label
<1>3. ASSUME NEW t \in Thread, SetRotateTime(t) PROVE TypeOK'
  <2>1. call[t].ap \in Ids /\ call[t] \in Call
    BY <1>1, <1>3, AtWork DEF SetRotateTime
  <2>2. pc' \in [Thread -> Label] /\ call' \in [Thread -> Call]
    BY <1>3, <2>1, GotoDoes DEF SetRotateTime, Label
  <2>3. m_lastRotateTime' \in [Ids -> 0 .. MaxDay] /\ straddled' \subseteq Ids
    BY <1>1, <1>3, <2>1 DEF SetRotateTime
  <2>. QED
    BY <1>1, <1>3, <1>e, <2>2, <2>3 DEF TypeOK, SetRotateTime, count_vars, Label
<1>4. ASSUME NEW t \in Thread, AddAppender(t) PROVE TypeOK'
  <2>1. Makes(t) /\ call[t].ap \in Ids
    BY <1>4, AtWork DEF AddAppender
  <2>2. pc' \in [Thread -> Label] /\ call' \in [Thread -> Call]
    BY <1>4, CallsMade, GotoDoes DEF AddAppender, Label
  <2>3. call[t].ap \notin ToSet(m_appenders)
    <3>1. \A x : x \in ToSet(m_appenders) <=> \E i \in 1 .. Len(m_appenders) : m_appenders[i] = x
      BY <1>1, InSeq
    <3>. QED
      BY <2>1, <3>1 DEF Makes
  <2>4. m_appenders' \in Seq(Ids) /\ IsInjective(m_appenders')
    <3>1. m_appenders' = Append(m_appenders, call[t].ap)
      BY <1>4 DEF AddAppender
    <3>. QED
      BY <1>1, <2>1, <2>3, <3>1, InjectiveAppend
  <2>. QED
    BY <1>1, <1>4, <1>e, <2>2, <2>4 DEF TypeOK, AddAppender, ap_vars, count_vars, history_vars, Label
<1>5. ASSUME NEW t \in Thread, NEW a \in Ids, DelAppender(t, a) PROVE TypeOK'
  <2>1. m_appenders' \in Seq(Ids) /\ IsInjective(m_appenders')
    BY <1>5, DelDoes DEF DelAppender
  <2>2. stream' \in [Ids -> Stream]
    <3>1. [file |-> None, fail |-> FALSE] \in Stream
      BY DEF Stream
    <3>. QED
      BY <1>1, <1>5, <3>1 DEF DelAppender
  <2>. QED
    BY <1>1, <1>5, <1>e, <2>1, <2>2 DEF TypeOK, DelAppender, count_vars, history_vars, Label
<1>6. ASSUME NEW t \in Thread, Log(t) PROVE TypeOK'
  <2>1. events + 1 \in 0 .. MaxEvent /\ events' = events + 1
    <3>1. events < MaxEvent /\ events' = events + 1
      BY <1>6 DEF Log
    <3>. QED
      BY <1>0, <1>1, <3>1
  <2>2. 1 \in 0 .. Appender
    <3>1. Len(m_appenders) \in 1 .. Appender
      BY <1>1, <1>6, AppendersFit DEF Log
    <3>. QED
      BY <1>0, <3>1
  <2>3. [NoCall EXCEPT !.event = events + 1, !.k = 1] \in Call
    BY <2>1, <2>2, CallsMade
  <2>4. pc' \in [Thread -> Label] /\ call' \in [Thread -> Call]
    BY <1>6, <2>3, GotoDoes DEF Log, Label
  <2>. QED
    BY <1>1, <1>6, <1>e, <2>1, <2>4 DEF TypeOK, Log, ap_vars, history_vars, Label
<1>7. ASSUME NEW t \in Thread, LogLow(t) PROVE TypeOK'
  <2>1. events + 1 \in 0 .. MaxEvent /\ events' = events + 1
    BY <1>0, <1>1, <1>7 DEF LogLow
  <2>. QED
    BY <1>1, <1>7, <1>e, <2>1 DEF TypeOK, LogLow, ap_vars, history_vars, Label
<1>8. ASSUME NEW t \in Thread, LogCheck(t) PROVE TypeOK'
  <2>1. /\ pc' \in [Thread -> Label] /\ call' \in [Thread -> Call]
        /\ got' \in [Ids -> Seq(Event)]
    BY <1>8, CheckDoes
  <2>. QED
    BY <1>1, <1>8, <1>e, <2>1 DEF TypeOK, LogCheck, ap_vars, count_vars, Label
<1>9. ASSUME NEW t \in Thread, PickFile(t) PROVE TypeOK'
  <2>1. /\ pc' \in [Thread -> Label] /\ call' \in [Thread -> Call]
        /\ stream' \in [Ids -> Stream] /\ m_lastRotateTime' \in [Ids -> 0 .. MaxDay]
    BY <1>9, PickDoes
  <2>. QED
    BY <1>1, <1>9, <1>e, <2>1 DEF TypeOK, PickFile, count_vars, history_vars, Label
<1>10. ASSUME NEW t \in Thread, NEW ok \in BOOLEAN, OpenFile(t, ok) PROVE TypeOK'
  <2>. DEFINE a == call[t].ap
  <2>1. /\ a \in Ids /\ call[t].file \in FileName /\ stream[a] \in Stream
        /\ OpenStream(a, stream[a], call[t].file, ok)
        /\ pc' \in [Thread -> Label] /\ call' = call /\ m_currentSize' \in [Ids -> Nat]
    BY <1>10, OpenFileDoes DEF FileName
  <2>. HIDE DEF a
  <2>2. /\ stream' \in [Ids -> Stream] /\ files' \in [exists' -> Seq(Line)]
        /\ exists' \subseteq FileName /\ IsFiniteSet(exists')
    BY <2>1, OpenDoes
  <2>3. /\ shared' = shared \/ shared' = shared \cup {call[t].file}
        /\ ok => faulty' = faulty /\ faults' = faults
        /\ ~ok => faulty' = faulty \cup {a} /\ faults < MaxFaults /\ faults' = faults + 1
    BY <2>1 DEF OpenStream
  <2>4. shared' \subseteq FileName /\ faulty' \subseteq Ids /\ faults' \in 0 .. MaxFaults
    BY <1>0, <1>1, <2>1, <2>3
  <2>. QED
    BY <1>1, <1>10, <2>1, <2>2, <2>4 DEF TypeOK, OpenFile, count_vars, Label
<1>11. ASSUME NEW t \in Thread, LogStuck(t) PROVE TypeOK'
  <2>1. call[t] \in Call
    BY <1>1
  <2>2. pc' \in [Thread -> Label] /\ call' \in [Thread -> Call]
    BY <1>11, <2>1, GotoDoes DEF LogStuck, Label
  <2>. QED
    BY <1>1, <1>11, <1>e, <2>2 DEF TypeOK, LogStuck, ap_vars, count_vars, history_vars, Label
<1>w. ASSUME NEW t \in Thread, pc[t] = "write"
      PROVE  /\ call[t].ap \in Ids /\ call[t] \in Call /\ call[t].event # 0
             /\ call[t].event \in Event /\ LineSize[call[t].event] \in Nat
             /\ call[t].k \in 1 .. Len(m_appenders)
             /\ stream[call[t].ap].file # None => stream[call[t].ap].file \in FileName
  <2>1. call[t].ap \in Ids /\ call[t] \in Call /\ call[t].event # 0 /\ Logs(t)
    BY <1>1, <1>w, AtWork
  <2>2. call[t].event \in Event
    BY <1>0, <2>1 DEF Call, Event
  <2>3. LineSize[call[t].event] \in Nat
    BY <2>2, LineSizeAssumption
  <2>. QED
    BY <1>1, <2>1, <2>2, <2>3 DEF Logs, Stream
<1>12. ASSUME NEW t \in Thread, LogWrite(t) PROVE TypeOK'
  <2>. DEFINE a == call[t].ap
              n == stream[a].file
              line == [by |-> a, event |-> call[t].event, from |-> call[t].from, to |-> day]
  <2>1. /\ pc[t] = "write" /\ n # None /\ LogNext(t)
        /\ files' = IF stream[a].fail THEN files
                    ELSE [files EXCEPT ![n] = Append(@, line)]
        /\ m_currentSize' = [m_currentSize EXCEPT ![a] = @ + LineSize[call[t].event]]
    BY <1>12 DEF LogWrite
  <2>2. line \in Line
    BY <1>1, <1>w, <2>1 DEF Line, Call
  <2>3. a \in Ids /\ LineSize[call[t].event] \in Nat
    BY <1>w, <2>1
  <2>4. n \in exists
    BY <2>1, <2>3 DEF StreamsWhole
  <2>5. pc' \in [Thread -> Label] /\ call' \in [Thread -> Call]
    BY <1>w, <2>1, LogNextDoes
  <2>. HIDE DEF line, n, a
  <2>6. m_currentSize' \in [Ids -> Nat]
    BY <1>1, <2>1, <2>3
  <2>7. /\ files' \in [exists -> Seq(Line)] /\ exists' = exists
    BY <1>1, <2>1, <2>2, <2>4 DEF exists
  <2>. QED
    BY <1>1, <1>12, <2>5, <2>6, <2>7 DEF TypeOK, LogWrite, count_vars, history_vars, Label
<1>13. ASSUME NEW t \in Thread, LogWriteFails(t) PROVE TypeOK'
  <2>. DEFINE a == call[t].ap
  <2>1. /\ pc[t] = "write" /\ LogNext(t) /\ faults < MaxFaults
        /\ stream' = [stream EXCEPT ![a].fail = TRUE]
        /\ m_currentSize' = [m_currentSize EXCEPT ![a] = @ + LineSize[call[t].event]]
        /\ faulty' = faulty \cup {a} /\ faults' = faults + 1
    BY <1>13 DEF LogWriteFails
  <2>3. a \in Ids /\ LineSize[call[t].event] \in Nat
    BY <1>w, <2>1
  <2>5. pc' \in [Thread -> Label] /\ call' \in [Thread -> Call]
    BY <1>w, <2>1, LogNextDoes
  <2>. HIDE DEF a
  <2>6. m_currentSize' \in [Ids -> Nat]
    BY <1>1, <2>1, <2>3
  <2>7. stream' \in [Ids -> Stream]
    BY <1>1, <2>1, <2>3 DEF Stream
  <2>8. faulty' \subseteq Ids /\ faults' \in 0 .. MaxFaults
    <3>1. faults < MaxFaults /\ faults' = faults + 1
      BY <2>1
    <3>2. faults' \in 0 .. MaxFaults
      BY <1>0, <1>1, <3>1
    <3>. QED
      BY <1>1, <2>1, <2>3, <3>2
  <2>. QED
    BY <1>1, <1>13, <1>e, <2>5, <2>6, <2>7, <2>8 DEF TypeOK, LogWriteFails, count_vars, Label
<1>14. ASSUME NEW a \in Ids, NEW ok \in BOOLEAN, Reopen(a, ok) PROVE TypeOK'
  <2>1. stream[a] \in Stream /\ Bare \in FileName
    BY <1>1 DEF FileName
  <2>2. CloseIfGood(stream[a]) \in Stream
    BY <2>1, CloseDoes
  <2>3. OpenStream(a, CloseIfGood(stream[a]), Bare, ok)
    BY <1>14 DEF Reopen
  <2>7. /\ stream' \in [Ids -> Stream] /\ files' \in [exists' -> Seq(Line)]
        /\ exists' \subseteq FileName /\ IsFiniteSet(exists')
    BY <2>1, <2>2, <2>3, OpenDoes
  <2>o. /\ shared' = shared \/ shared' = shared \cup {Bare}
        /\ ok => faulty' = faulty /\ faults' = faults
        /\ ~ok => faulty' = faulty \cup {a} /\ faults < MaxFaults /\ faults' = faults + 1
    BY <2>3 DEF OpenStream
  <2>8. shared' \subseteq FileName /\ faulty' \subseteq Ids /\ faults' \in 0 .. MaxFaults
    BY <1>0, <1>1, <2>1, <2>o
  <2>9. reopened' \subseteq Ids /\ reopens' \in 0 .. MaxReopens
    BY <1>0, <1>1, <1>14 DEF Reopen
  <2>. QED
    BY <1>1, <1>14, <2>7, <2>8, <2>9 DEF TypeOK, Reopen, count_vars, Label
<1>15. ASSUME Midnight PROVE TypeOK'
  <2>1. day' \in 0 .. MaxDay
    BY <1>0, <1>1, <1>15 DEF Midnight
  <2>. QED
    BY <1>1, <1>15, <1>e, <2>1 DEF TypeOK, Midnight, ap_vars, count_vars, history_vars, Label
<1>. QED
  BY <1>2, <1>3, <1>4, <1>5, <1>6, <1>7, <1>8, <1>9, <1>10, <1>11, <1>12, <1>13, <1>14, <1>15
     DEF Next, Step

(* The threads that a step does not move.                                  *)
LEMMA OthersStay ==
    ASSUME TypeOK, CallShape, NEW t,
           \A u \in Thread \ {t} : pc'[u] = pc[u] /\ call'[u] = call[u],
           LoggerFree \/ (events' = events /\ m_appenders' = m_appenders),
           made' = made \/ made' = made + 1, day' = day \/ day' = day + 1,
           \A u \in Thread \ {t} : Makes(u) =>
               \A i \in 1 .. Len(m_appenders') : m_appenders'[i] # call[u].ap
    PROVE  \A u \in Thread \ {t} : Shape(u)' /\ call'[u].from <= day'
<1>. SUFFICES ASSUME NEW u \in Thread \ {t} PROVE Shape(u)' /\ call'[u].from <= day'
  OBVIOUS
<1>0. /\ made \in Nat /\ day \in Nat /\ call[u] \in Call /\ call[u].from <= day
      /\ call[u].from \in Nat
  BY BoundAssumption DEF TypeOK, CallShape, Call
<1>1. pc'[u] = pc[u] /\ call'[u] = call[u]
  OBVIOUS
<1>2. call'[u].from <= day'
  BY <1>0, <1>1
<1>3. CASE pc[u] = "idle" /\ call[u] = NoCall
  BY <1>1, <1>2, <1>3 DEF Shape
<1>4. CASE pc[u] # "idle" /\ call[u].event # 0 /\ Logs(u)
  <2>1. events' = events /\ m_appenders' = m_appenders
    BY <1>4 DEF LoggerFree
  <2>2. Logs(u)'
    BY <1>1, <1>4, <2>1 DEF Logs
  <2>. QED
    BY <1>1, <1>2, <1>4, <2>2 DEF Shape
<1>5. CASE Makes(u)
  <2>1. call[u].ap \in 1 .. made'
    BY <1>0, <1>5 DEF Makes
  <2>2. \A i \in 1 .. Len(m_appenders') : m_appenders'[i] # call[u].ap
    BY <1>5
  <2>3. pc[u] \in {"pick", "open", "time", "add"} /\ call[u].event = 0
    BY <1>5 DEF Makes
  <2>4. Makes(u)'
    BY <1>1, <2>1, <2>2, <2>3 DEF Makes
  <2>. QED
    BY <1>2, <2>4 DEF Shape
<1>. QED
  BY <1>3, <1>4, <1>5 DEF CallShape, Shape

LEMMA ApartStays ==
    ASSUME CallsApart, NEW t \in Thread, \A u \in Thread \ {t} : call'[u] = call[u],
           call'[t].event # 0 => \A u \in Thread \ {t} : call[u].event = 0,
           call'[t].ap # 0 => \A u \in Thread \ {t} : call[u].ap # call'[t].ap
    PROVE  CallsApart'
<1>. SUFFICES ASSUME NEW u \in Thread, NEW w \in Thread, u # w
              PROVE  /\ call'[u].event # 0 => call'[w].event = 0
                     /\ call'[u].ap # 0 => call'[w].ap # call'[u].ap
  BY DEF CallsApart
<1>1. CASE u = t
  BY <1>1
<1>2. CASE w = t
  BY <1>2
<1>3. CASE u # t /\ w # t
  BY <1>3 DEF CallsApart
<1>. QED
  BY <1>1, <1>2, <1>3

LEMMA CallStep ==
    ASSUME TypeOK, CallShape, CallsApart, NamesUsed, Next
    PROVE  CallShape' /\ CallsApart'
<1>0. /\ made \in Nat /\ day \in Nat /\ Appender \in Nat /\ events \in Nat
      /\ pc \in [Thread -> Label] /\ call \in [Thread -> Call]
      /\ m_appenders \in Seq(Ids)
      /\ \A i \in 1 .. Len(m_appenders) : m_appenders[i] \in Ids /\ m_appenders[i] <= made
      /\ Len(m_appenders) \in 0 .. Appender
  <2>1. Len(m_appenders) \in 0 .. Appender /\ Appender \in Nat /\ MaxDay \in Nat /\ MaxEvent \in Nat
    BY AppendersFit, BoundAssumption
  <2>2. \A i \in 1 .. Len(m_appenders) : m_appenders[i] \in Ids
    BY AppendersFit
  <2>3. /\ pc \in [Thread -> Label] /\ call \in [Thread -> Call] /\ m_appenders \in Seq(Ids)
        /\ made \in Nat /\ day \in Nat /\ events \in Nat
    BY <2>1 DEF TypeOK, Label
  <2>. QED
    BY <2>1, <2>2, <2>3 DEF CallShape
<1>m. /\ \A u \in Thread : Shape(u) /\ call[u].from <= day
      /\ \A u \in Thread : Makes(u) =>
            \A i \in 1 .. Len(m_appenders) : m_appenders[i] # call[u].ap
  BY DEF CallShape, Makes
<1>n. NoCall.event = 0 /\ NoCall.ap = 0 /\ NoCall.from = 0 /\ NoCall \in Call
  BY CallsMade
<1>l. Label = {"idle", "next", "pick", "open", "write", "stuck", "time", "add"}
  BY DEF Label
<1>1. ASSUME NEW t \in Thread, InitLogger(t) PROVE CallShape' /\ CallsApart'
  <2>. DEFINE a == made + 1
              c == [NoCall EXCEPT !.ap = a]
  <2>1. /\ Goto(t, "pick", c) /\ made' = a /\ pc[t] = "idle" /\ a \in 0 .. Appender
        /\ day' = day /\ events' = events /\ m_appenders' = m_appenders
    BY <1>0, <1>1 DEF InitLogger
  <2>. HIDE DEF a
  <2>2. c \in Call /\ c.event = 0 /\ c.ap = a /\ c.from = 0
    BY <2>1, CallsMade
  <2>. HIDE DEF c
  <2>3. /\ pc'[t] = "pick" /\ call'[t] = c
        /\ \A u \in Thread \ {t} : pc'[u] = pc[u] /\ call'[u] = call[u]
    BY <1>l, <2>1, <2>2, GotoDoes
  <2>4. \A u \in Thread \ {t} : Shape(u)' /\ call'[u].from <= day'
    BY <1>m, <2>1, <2>3, OthersStay DEF a
  <2>5. /\ a \in 1 .. a /\ a # 0 /\ \A u \in Thread : call[u].ap # a
        /\ \A i \in 1 .. Len(m_appenders) : m_appenders[i] # a /\ m_appenders[i] <= a
    <3>1. \A u \in Thread : call[u].ap = 0 \/ call[u].ap <= made
      BY AtWork
    <3>2. \A u \in Thread : call[u].ap \in Nat
      BY <1>0 DEF Call
    <3>3. \A i \in 1 .. Len(m_appenders) : m_appenders[i] \in Nat
      BY <1>0 DEF Ids
    <3>. QED
      BY <1>0, <3>1, <3>2, <3>3 DEF a
  <2>6. Makes(t)'
    BY <2>1, <2>2, <2>3, <2>5 DEF Makes
  <2>7. Shape(t)' /\ call'[t].from <= day'
    BY <1>0, <2>1, <2>2, <2>3, <2>6 DEF Shape
  <2>8. CallShape'
    BY <2>1, <2>4, <2>5, <2>7 DEF CallShape
  <2>9. CallsApart'
    BY <2>2, <2>3, <2>5, ApartStays
  <2>. QED
    BY <2>8, <2>9
<1>2. ASSUME NEW t \in Thread, SetRotateTime(t) PROVE CallShape' /\ CallsApart'
  <2>1. /\ Goto(t, "add", call[t]) /\ pc[t] = "time"
        /\ made' = made /\ day' = day /\ events' = events /\ m_appenders' = m_appenders
    BY <1>2 DEF SetRotateTime, count_vars
  <2>2. Makes(t)
    BY <2>1, AtWork
  <2>3. /\ pc'[t] = "add" /\ call'[t] = call[t]
        /\ \A u \in Thread \ {t} : pc'[u] = pc[u] /\ call'[u] = call[u]
    BY <1>0, <1>l, <2>1, GotoDoes
  <2>4. \A u \in Thread \ {t} : Shape(u)' /\ call'[u].from <= day'
    BY <1>m, <2>1, <2>3, OthersStay
  <2>5. Makes(t)'
    BY <2>1, <2>2, <2>3 DEF Makes
  <2>6. Shape(t)' /\ call'[t].from <= day'
    BY <1>m, <2>1, <2>3, <2>5 DEF Shape
  <2>7. CallShape'
    BY <1>0, <2>1, <2>4, <2>6 DEF CallShape
  <2>8. CallsApart'
    BY <2>3, ApartStays DEF CallsApart
  <2>. QED
    BY <2>7, <2>8
<1>3. ASSUME NEW t \in Thread, AddAppender(t) PROVE CallShape' /\ CallsApart'
  <2>1. /\ Goto(t, "idle", NoCall) /\ pc[t] = "add" /\ LoggerFree
        /\ made' = made /\ day' = day /\ m_appenders' = Append(m_appenders, call[t].ap)
    BY <1>3 DEF AddAppender, count_vars
  <2>2. Makes(t) /\ call[t].ap \in Ids /\ call[t].ap <= made /\ call[t].ap # 0
    BY <2>1, AtWork
  <2>3. /\ pc'[t] = "idle" /\ call'[t] = NoCall
        /\ \A u \in Thread \ {t} : pc'[u] = pc[u] /\ call'[u] = call[u]
    BY <1>l, <1>n, <2>1, GotoDoes
  <2>4. /\ Len(m_appenders') = Len(m_appenders) + 1
        /\ \A i \in 1 .. Len(m_appenders') :
              m_appenders'[i] = IF i <= Len(m_appenders) THEN m_appenders[i] ELSE call[t].ap
    BY <1>0, <2>1, <2>2
  <2>5. \A i \in 1 .. Len(m_appenders') : i <= Len(m_appenders) => i \in 1 .. Len(m_appenders)
    BY <1>0, <2>4
  <2>6. \A u \in Thread \ {t} : Makes(u) =>
           \A i \in 1 .. Len(m_appenders') : m_appenders'[i] # call[u].ap
    <3>1. \A u \in Thread \ {t} : call[u].ap # call[t].ap
      BY <2>2 DEF CallsApart
    <3>. QED
      BY <1>m, <2>4, <2>5, <3>1
  <2>7. \A u \in Thread \ {t} : Shape(u)' /\ call'[u].from <= day'
    BY <2>1, <2>3, <2>6, OthersStay
  <2>8. Shape(t)' /\ call'[t].from <= day'
    BY <1>0, <1>n, <2>1, <2>3 DEF Shape
  <2>9. \A i \in 1 .. Len(m_appenders') : m_appenders'[i] <= made'
    BY <1>0, <2>1, <2>2, <2>4, <2>5
  <2>10. CallShape'
    BY <2>7, <2>8, <2>9 DEF CallShape
  <2>11. CallsApart'
    BY <1>n, <2>3, ApartStays
  <2>. QED
    BY <2>10, <2>11
<1>4. ASSUME NEW t \in Thread, NEW a \in Ids, DelAppender(t, a) PROVE CallShape' /\ CallsApart'
  <2>1. /\ pc' = pc /\ call' = call /\ LoggerFree /\ made' = made /\ day' = day
        /\ pc[t] = "idle"
    BY <1>4 DEF DelAppender, count_vars
  <2>2. \A j \in 1 .. Len(m_appenders') : \E k \in 1 .. Len(m_appenders) :
           m_appenders'[j] = m_appenders[k]
    BY <1>4, DelDoes DEF DelAppender
  <2>3. \A u \in Thread \ {t} : Shape(u)' /\ call'[u].from <= day'
    BY <1>m, <2>1, <2>2, OthersStay
  <2>4. Shape(t)' /\ call'[t].from <= day'
    <3>1. call[t] = NoCall
      BY <2>1, AtWork
    <3>. QED
      BY <1>0, <1>n, <2>1, <3>1 DEF Shape
  <2>5. CallShape'
    BY <1>0, <2>1, <2>2, <2>3, <2>4 DEF CallShape
  <2>. QED
    BY <2>1, <2>5 DEF CallsApart
<1>5. ASSUME NEW t \in Thread, Log(t) PROVE CallShape' /\ CallsApart'
  <2>. DEFINE e == events + 1
              k == 1
              c == [NoCall EXCEPT !.event = e, !.k = k]
  <2>1. /\ Goto(t, "next", c) /\ LoggerFree /\ e \in 0 .. MaxEvent /\ events' = e /\ e # 0
        /\ made' = made /\ day' = day /\ m_appenders' = m_appenders /\ m_appenders # <<>>
    BY <1>0, <1>5, BoundAssumption DEF Log
  <2>2. k \in 0 .. Appender /\ k \in 1 .. Len(m_appenders)
    BY <1>0, <2>1
  <2>. HIDE DEF e, k
  <2>3. c \in Call /\ c.event = e /\ c.k = k /\ c.ap = 0 /\ c.from = 0
    BY <2>1, <2>2, CallsMade
  <2>. HIDE DEF c
  <2>4. /\ pc'[t] = "next" /\ call'[t] = c
        /\ \A u \in Thread \ {t} : pc'[u] = pc[u] /\ call'[u] = call[u]
    BY <1>l, <2>1, <2>3, GotoDoes
  <2>5. \A u \in Thread \ {t} : Shape(u)' /\ call'[u].from <= day'
    BY <1>m, <2>1, <2>4, OthersStay
  <2>6. Logs(t)'
    BY <2>1, <2>2, <2>3, <2>4 DEF Logs
  <2>7. Shape(t)' /\ call'[t].from <= day'
    BY <1>0, <2>1, <2>3, <2>4, <2>6 DEF Shape
  <2>8. CallShape'
    BY <1>0, <2>1, <2>5, <2>7 DEF CallShape
  <2>9. CallsApart'
    BY <2>1, <2>3, <2>4, ApartStays DEF LoggerFree
  <2>. QED
    BY <2>8, <2>9
<1>6. ASSUME NEW t \in Thread, LogLow(t) PROVE CallShape' /\ CallsApart'
  <2>1. /\ pc' = pc /\ call' = call /\ LoggerFree /\ made' = made /\ day' = day
        /\ pc[t] = "idle" /\ m_appenders' = m_appenders
    BY <1>6 DEF LogLow
  <2>3. \A u \in Thread \ {t} : Shape(u)' /\ call'[u].from <= day'
    BY <1>m, <2>1, OthersStay
  <2>4. Shape(t)' /\ call'[t].from <= day'
    <3>1. call[t] = NoCall
      BY <2>1, AtWork
    <3>. QED
      BY <1>0, <1>n, <2>1, <3>1 DEF Shape
  <2>5. CallShape'
    BY <1>0, <2>1, <2>3, <2>4 DEF CallShape
  <2>. QED
    BY <2>1, <2>5 DEF CallsApart
<1>7. ASSUME NEW t \in Thread, LogCheck(t) PROVE CallShape' /\ CallsApart'
  <2>. DEFINE a == m_appenders[call[t].k]
  <2>1. /\ events' = events /\ made' = made /\ day' = day /\ m_appenders' = m_appenders
    BY <1>7 DEF LogCheck, count_vars
  <2>2. /\ a # 0 /\ Logs(t) /\ call[t].event # 0
        /\ pc'[t] \in {"pick", "write"}
        /\ call'[t].event = call[t].event /\ call'[t].ap = a /\ call'[t].k = call[t].k
        /\ call'[t].from = day
        /\ \A u \in Thread \ {t} : pc'[u] = pc[u] /\ call'[u] = call[u]
        /\ \A u \in Thread \ {t} : call[u].ap # a
    BY <1>7, CheckDoes DEF Event
  <2>3. \A u \in Thread \ {t} : Shape(u)' /\ call'[u].from <= day'
    BY <1>m, <2>1, <2>2, OthersStay
  <2>4. Logs(t)'
    BY <2>1, <2>2 DEF Logs
  <2>5. Shape(t)' /\ call'[t].from <= day'
    BY <1>0, <2>1, <2>2, <2>4 DEF Shape
  <2>6. CallShape'
    BY <1>0, <2>1, <2>3, <2>5 DEF CallShape
  <2>7. \A u \in Thread \ {t} : call[u].event = 0
    BY <2>2 DEF CallsApart
  <2>8. CallsApart'
    BY <2>2, <2>7, ApartStays
  <2>. QED
    BY <2>6, <2>8
<1>k. ASSUME NEW t \in Thread,
             \A u \in Thread \ {t} : pc'[u] = pc[u] /\ call'[u] = call[u],
             call'[t].event = call[t].event, call'[t].ap = call[t].ap, call'[t].k = call[t].k,
             call'[t].from = call[t].from,
             made' = made, day' = day, events' = events, m_appenders' = m_appenders,
             pc[t] # "idle", pc[t] # "next",
             \/ pc'[t] = "open"
             \/ pc'[t] \in {"write", "stuck"} /\ call[t].event # 0
             \/ pc'[t] = "time" /\ call[t].event = 0
      PROVE  CallShape' /\ CallsApart'
  <2>2. \A u \in Thread \ {t} : Shape(u)' /\ call'[u].from <= day'
    BY <1>k, <1>m, OthersStay
  <2>3. Shape(t)'
    <3>1. CASE call[t].event # 0
      <4>1. Logs(t)
        BY <3>1, AtWork
      <4>2. Logs(t)' /\ pc'[t] # "idle"
        BY <1>k, <3>1, <4>1 DEF Logs, Makes
      <4>. QED
        BY <1>k, <3>1, <4>2 DEF Shape
    <3>2. CASE call[t].event = 0
      <4>1. Makes(t)
        BY <1>k, <3>2, AtWork
      <4>2. Makes(t)'
        BY <1>k, <3>2, <4>1 DEF Makes
      <4>. QED
        BY <4>2 DEF Shape
    <3>. QED
      BY <3>1, <3>2
  <2>4. call'[t].from <= day'
    BY <1>k, <1>m
  <2>5. CallShape'
    BY <1>0, <1>k, <2>2, <2>3, <2>4 DEF CallShape
  <2>6. CallsApart'
    BY <1>k, ApartStays DEF CallsApart
  <2>. QED
    BY <2>5, <2>6
<1>8. ASSUME NEW t \in Thread, PickFile(t) PROVE CallShape' /\ CallsApart'
  <2>1. events' = events /\ made' = made /\ day' = day /\ m_appenders' = m_appenders
    BY <1>8 DEF PickFile, count_vars
  <2>2. /\ pc[t] = "pick" /\ pc'[t] = "open"
        /\ call'[t].event = call[t].event /\ call'[t].ap = call[t].ap
        /\ call'[t].k = call[t].k /\ call'[t].from = call[t].from
        /\ \A u \in Thread \ {t} : pc'[u] = pc[u] /\ call'[u] = call[u]
    BY <1>8, PickDoes
  <2>. QED
    BY <1>k, <2>1, <2>2
<1>9. ASSUME NEW t \in Thread, NEW ok \in BOOLEAN, OpenFile(t, ok)
      PROVE  CallShape' /\ CallsApart'
  <2>1. events' = events /\ made' = made /\ day' = day /\ m_appenders' = m_appenders
    BY <1>9 DEF OpenFile, count_vars
  <2>2. /\ pc[t] = "open" /\ pc'[t] = IF call[t].event = 0 THEN "time" ELSE "write"
        /\ call' = call /\ \A u \in Thread \ {t} : pc'[u] = pc[u]
    BY <1>9, OpenFileDoes
  <2>. QED
    BY <1>k, <2>1, <2>2
<1>10. ASSUME NEW t \in Thread, LogStuck(t) PROVE CallShape' /\ CallsApart'
  <2>1. /\ events' = events /\ made' = made /\ day' = day /\ m_appenders' = m_appenders
        /\ pc[t] = "write" /\ Goto(t, "stuck", call[t])
    BY <1>10 DEF LogStuck, count_vars
  <2>2. /\ pc'[t] = "stuck" /\ call'[t] = call[t]
        /\ \A u \in Thread \ {t} : pc'[u] = pc[u] /\ call'[u] = call[u]
    BY <1>0, <1>l, <2>1, GotoDoes
  <2>3. call[t].event # 0
    BY <2>1, AtWork
  <2>. QED
    BY <1>k, <2>1, <2>2, <2>3
<1>11. ASSUME NEW t \in Thread, LogWrite(t) \/ LogWriteFails(t) PROVE CallShape' /\ CallsApart'
  <2>1. /\ events' = events /\ made' = made /\ day' = day /\ m_appenders' = m_appenders
        /\ pc[t] = "write" /\ LogNext(t)
    BY <1>11 DEF LogWrite, LogWriteFails, count_vars
  <2>2. call[t].event # 0 /\ Logs(t) /\ call[t].k \in 1 .. Len(m_appenders)
    BY <2>1, AtWork DEF Logs
  <2>3. /\ call'[t].ap = 0 /\ call'[t].from = 0
        /\ \A u \in Thread \ {t} : pc'[u] = pc[u] /\ call'[u] = call[u]
    BY <2>1, <2>2, LogNextDoes
  <2>4. \/ pc'[t] = "idle" /\ call'[t] = NoCall
        \/ /\ call[t].k < Len(m_appenders)
           /\ pc'[t] = "next" /\ call'[t].event = call[t].event
           /\ call'[t].k = call[t].k + 1
    BY <2>1, <2>2, LogNextDoes
  <2>5. \A u \in Thread \ {t} : Shape(u)' /\ call'[u].from <= day'
    BY <1>m, <2>1, <2>3, OthersStay
  <2>6. Shape(t)'
    <3>1. CASE pc'[t] = "idle" /\ call'[t] = NoCall
      BY <3>1 DEF Shape
    <3>2. CASE ~(pc'[t] = "idle" /\ call'[t] = NoCall)
      <4>1. Logs(t)'
        <5>1. call'[t].k \in 1 .. Len(m_appenders')
          BY <1>0, <2>1, <2>2, <2>4, <3>2
        <5>. QED
          BY <2>1, <2>2, <2>3, <2>4, <3>2, <5>1 DEF Logs
      <4>. QED
        BY <2>2, <2>4, <3>2, <4>1 DEF Shape
    <3>. QED
      BY <3>1, <3>2
  <2>7. call'[t].from <= day'
    BY <1>0, <2>1, <2>3
  <2>8. CallShape'
    BY <1>0, <2>1, <2>5, <2>6, <2>7 DEF CallShape
  <2>9. \A u \in Thread \ {t} : call[u].event = 0
    BY <2>2 DEF CallsApart
  <2>10. CallsApart'
    BY <2>3, <2>9, ApartStays
  <2>. QED
    BY <2>8, <2>10
<1>12. ASSUME NEW a \in Ids, NEW ok \in BOOLEAN, Reopen(a, ok) PROVE CallShape' /\ CallsApart'
  <2>1. UNCHANGED <<pc, call, m_appenders, day, made, events>>
    BY <1>12 DEF Reopen, count_vars
  <2>. QED
    BY <2>1 DEF CallShape, CallsApart, Shape, Logs, Makes
<1>13. ASSUME Midnight PROVE CallShape' /\ CallsApart'
  <2>1. /\ UNCHANGED <<pc, call, m_appenders, made, events>> /\ day' = day + 1
    BY <1>13 DEF Midnight, count_vars
  <2>2. \A u \in Thread : Shape(u)'
    BY <1>m, <2>1 DEF Shape, Logs, Makes
  <2>3. \A u \in Thread : call'[u].from <= day'
    <3>1. \A u \in Thread : call[u].from \in Nat
      BY <1>0 DEF Call
    <3>. QED
      BY <1>0, <1>m, <2>1, <3>1
  <2>. QED
    BY <1>0, <2>1, <2>2, <2>3 DEF CallShape, CallsApart
<1>. QED
  BY <1>1, <1>2, <1>3, <1>4, <1>5, <1>6, <1>7, <1>8, <1>9, <1>10, <1>11, <1>12, <1>13
     DEF Next, Step

(* The steps of a thread before and after it opens a file.                 *)
Plain(t) ==
    \/ InitLogger(t) \/ SetRotateTime(t) \/ AddAppender(t) \/ \E a \in Ids : DelAppender(t, a)
    \/ Log(t) \/ LogLow(t) \/ LogCheck(t) \/ LogStuck(t) \/ LogWrite(t) \/ LogWriteFails(t)

LEMMA PlainGoes ==
    ASSUME NEW t \in Thread, Plain(t)
    PROVE  /\ pc[t] # "open"
           /\ \/ \E l, c : l # "open" /\ (l = "write" => LogCheck(t)) /\ Goto(t, l, c)
              \/ pc' = pc /\ call' = call
<1>1. pc[t] # "open"
  BY DEF Plain, InitLogger, SetRotateTime, AddAppender, DelAppender, Log, LogLow, LogCheck,
         LogStuck, LogWrite, LogWriteFails
<1>. DEFINE Goes == \E l, c : l # "open" /\ (l = "write" => LogCheck(t)) /\ Goto(t, l, c)
<1>2. ASSUME LogCheck(t) PROVE Goes
  <2>. DEFINE l == IF checkRotate(m_appenders[call[t].k]) THEN "pick" ELSE "write"
              c == [call[t] EXCEPT !.ap = m_appenders[call[t].k], !.from = day]
  <2>1. Goto(t, l, c)
    BY <1>2 DEF LogCheck
  <2>2. l # "open"
    OBVIOUS
  <2>. HIDE DEF l, c
  <2>. QED
    BY <1>2, <2>1, <2>2
<1>3. ASSUME LogWrite(t) \/ LogWriteFails(t) PROVE Goes
  <2>1. LogNext(t)
    BY <1>3 DEF LogWrite, LogWriteFails
  <2>2. CASE call[t].k = Len(m_appenders)
    BY <2>1, <2>2 DEF LogNext
  <2>3. CASE call[t].k # Len(m_appenders)
    <3>. DEFINE c == [NoCall EXCEPT !.event = call[t].event, !.k = call[t].k + 1]
    <3>1. Goto(t, "next", c)
      BY <2>1, <2>3 DEF LogNext
    <3>. HIDE DEF c
    <3>. QED
      BY <3>1
  <2>. QED
    BY <2>2, <2>3
<1>4. ASSUME InitLogger(t) PROVE Goes
  <2>. DEFINE c == [NoCall EXCEPT !.ap = made + 1]
  <2>1. Goto(t, "pick", c)
    BY <1>4 DEF InitLogger
  <2>. HIDE DEF c
  <2>. QED
    BY <2>1
<1>5. ASSUME Log(t) PROVE Goes
  <2>. DEFINE c == [NoCall EXCEPT !.event = events + 1, !.k = 1]
  <2>1. Goto(t, "next", c)
    BY <1>5 DEF Log
  <2>. HIDE DEF c
  <2>. QED
    BY <2>1
<1>6. ASSUME SetRotateTime(t) \/ LogStuck(t) PROVE Goes
  <2>. DEFINE c == call[t]
  <2>1. Goto(t, "add", c) \/ Goto(t, "stuck", c)
    BY <1>6 DEF SetRotateTime, LogStuck
  <2>. HIDE DEF c
  <2>. QED
    BY <2>1
<1>7. ASSUME AddAppender(t) PROVE Goes
  BY <1>7 DEF AddAppender
<1>8. ASSUME LogLow(t) \/ \E a \in Ids : DelAppender(t, a) PROVE pc' = pc /\ call' = call
  BY <1>8 DEF LogLow, DelAppender
<1>. QED
  BY <1>1, <1>2, <1>3, <1>4, <1>5, <1>6, <1>7, <1>8 DEF Plain

LEMMA OpeningStays ==
    ASSUME TypeOK, NEW t \in Thread, Plain(t)
    PROVE  /\ \A u \in Thread : pc'[u] = "open" <=> pc[u] = "open"
           /\ \A u \in Thread : pc[u] = "open" => call'[u] = call[u]
           /\ \A a : Opening(a)' <=> Opening(a)
           /\ exists' = exists /\ shared' = shared /\ rotate' = rotate /\ day' = day
<1>0. pc \in [Thread -> Label] /\ call \in [Thread -> Call]
  BY DEF TypeOK, Label
<1>1. pc[t] # "open"
  BY PlainGoes
<1>2. ASSUME NEW l, l # "open", NEW c, Goto(t, l, c)
      PROVE  \A u \in Thread : /\ pc'[u] = "open" <=> pc[u] = "open"
                               /\ pc[u] = "open" => call'[u] = call[u]
  BY <1>0, <1>1, <1>2 DEF Goto
<1>3. \/ \E l, c : l # "open" /\ Goto(t, l, c)
      \/ pc' = pc /\ call' = call
  BY PlainGoes
<1>4. \A u \in Thread : /\ pc'[u] = "open" <=> pc[u] = "open"
                        /\ pc[u] = "open" => call'[u] = call[u]
  BY <1>2, <1>3
<1>5. exists' = exists
  <2>1. CASE files' = files
    BY <2>1 DEF exists
  <2>2. CASE files' # files
    <3>1. LogWrite(t)
      BY <2>2 DEF Plain, InitLogger, SetRotateTime, AddAppender, DelAppender, Log, LogLow, LogCheck,
                  LogStuck, LogWriteFails
    <3>. DEFINE n == stream[call[t].ap].file
                line == [by |-> call[t].ap, event |-> call[t].event, from |-> call[t].from,
                         to |-> day]
    <3>2. files' = [files EXCEPT ![n] = Append(@, line)]
      BY <2>2, <3>1 DEF LogWrite
    <3>. QED
      BY <3>2 DEF exists
  <2>. QED
    BY <2>1, <2>2
<1>6. shared' = shared /\ rotate' = rotate /\ day' = day
  BY DEF Plain, InitLogger, SetRotateTime, AddAppender, DelAppender, Log, LogLow, LogCheck,
         LogStuck, LogWrite, LogWriteFails, history_vars
<1>7. \A a : Opening(a)' <=> Opening(a)
  BY <1>4 DEF Opening
<1>. QED
  BY <1>4, <1>5, <1>6, <1>7

(* A thread comes to write from LogCheck() and OpenFile() only.            *)
LEMMA WritingStays ==
    ASSUME TypeOK, NEW t \in Thread, Plain(t), ~LogCheck(t)
    PROVE  \A u \in Thread : pc'[u] = "write" => pc[u] = "write" /\ call'[u] = call[u]
<1>1. pc \in [Thread -> Label] /\ call \in [Thread -> Call]
  BY DEF TypeOK, Label
<1>2. CASE pc' = pc /\ call' = call
  BY <1>2
<1>3. ASSUME NEW l, l # "write", NEW c, Goto(t, l, c)
      PROVE  \A u \in Thread : pc'[u] = "write" => pc[u] = "write" /\ call'[u] = call[u]
  BY <1>1, <1>3 DEF Goto
<1>. QED
  BY <1>2, <1>3, PlainGoes

LEMMA NamesStep ==
    ASSUME TypeOK, CallShape, NamesUsed, Next
    PROVE  NamesUsed'
<1>0. /\ day \in Nat /\ IsFiniteSet(exists) /\ Cardinality(exists) \in Nat
      /\ rotate \in {"size", "time"} /\ exists \subseteq FileName
  BY BoundAssumption, FS_CardinalityType DEF TypeOK
<1>1. ASSUME NEW t \in Thread, Plain(t) PROVE NamesUsed'
  <2>1. /\ \A u \in Thread : pc'[u] = "open" => pc[u] = "open" /\ call'[u] = call[u]
        /\ exists' = exists /\ rotate' = rotate /\ day' = day
    BY <1>1, OpeningStays
  <2>. QED
    BY <2>1 DEF NamesUsed
<1>2. ASSUME NEW t \in Thread, PickFile(t) PROVE NamesUsed'
  <2>. DEFINE name == call'[t].file
  <2>1. /\ rotate' = rotate /\ day' = day /\ exists' = exists
    BY <1>2 DEF PickFile, exists
  <2>2. /\ rotate = "time" => name = day
        /\ rotate = "size" => name \in 0 .. Cardinality(exists) /\ exists \ {Bare} = 0 .. name - 1
        /\ \A u \in Thread \ {t} : pc'[u] = pc[u] /\ call'[u] = call[u]
    BY <1>2, PickDoes
  <2>3. CASE rotate = "size"
    <3>1. PICK n \in 0 .. Cardinality(exists) :
             /\ exists \ {Bare} = 0 .. n - 1
             /\ \A u \in Thread : pc[u] = "open" => call[u].file \in 0 .. n
      BY <2>3 DEF NamesUsed
    <3>2. name \in 0 .. n
      <4>. HIDE DEF name
      <4>1. name \in Nat /\ n \in Nat /\ 0 .. name - 1 = 0 .. n - 1
        BY <1>0, <2>2, <2>3, <3>1
      <4>2. ~(n < name)
        <5>. SUFFICES ASSUME n < name PROVE FALSE
          OBVIOUS
        <5>1. n \in 0 .. name - 1 /\ n \notin 0 .. n - 1
          BY <4>1
        <5>. QED
          BY <4>1, <5>1
      <4>. QED
        BY <4>1, <4>2
    <3>3. \A u \in Thread : pc'[u] = "open" => call'[u].file \in 0 .. n
      BY <2>2, <3>1, <3>2
    <3>. QED
      BY <2>1, <2>3, <3>1, <3>3 DEF NamesUsed
  <2>4. CASE rotate = "time"
    <3>1. name \in 0 .. day
      BY <1>0, <2>2, <2>4
    <3>2. \A u \in Thread : pc'[u] = "open" => call'[u].file \in 0 .. day
      BY <2>2, <2>4, <3>1 DEF NamesUsed
    <3>. QED
      BY <2>1, <2>4, <3>2 DEF NamesUsed
  <2>. QED
    BY <1>0, <2>3, <2>4
<1>3. ASSUME NEW name \in FileName, exists' \in {exists, exists \cup {name}},
             rotate' = rotate, day' = day,
             rotate = "time" => name <= day,
             rotate = "size" => \A n \in Nat :
                 (\A u \in Thread : pc[u] = "open" => call[u].file \in 0 .. n)
                   => name = Bare \/ name \in 0 .. n,
             \A u \in Thread : pc'[u] = "open" => pc[u] = "open" /\ call'[u] = call[u]
      PROVE  NamesUsed'
  <2>1. CASE exists' = exists
    BY <1>3, <2>1 DEF NamesUsed
  <2>2. CASE exists' = exists \cup {name} /\ rotate = "time"
    <3>1. \A n \in exists' : n <= day'
      BY <1>3, <2>2 DEF NamesUsed
    <3>. QED
      BY <1>3, <2>2, <3>1 DEF NamesUsed
  <2>3. CASE exists' = exists \cup {name} /\ rotate = "size" /\ name \notin exists
    <3>1. PICK n \in 0 .. Cardinality(exists) :
             /\ exists \ {Bare} = 0 .. n - 1
             /\ \A u \in Thread : pc[u] = "open" => call[u].file \in 0 .. n
      BY <2>3 DEF NamesUsed
    <3>2. Cardinality(exists') = Cardinality(exists) + 1
      BY <1>0, <2>3, FS_AddElement
    <3>3. n \in Nat /\ n \in 0 .. Cardinality(exists') /\ n + 1 \in 0 .. Cardinality(exists')
      BY <1>0, <3>1, <3>2
    <3>4. CASE name = Bare
      <4>1. exists' \ {Bare} = 0 .. n - 1
        BY <2>3, <3>1, <3>4
      <4>2. \A u \in Thread : pc'[u] = "open" => call'[u].file \in 0 .. n
        BY <1>3, <3>1
      <4>. QED
        BY <1>3, <2>3, <3>3, <4>1, <4>2 DEF NamesUsed
    <3>5. CASE name # Bare
      <4>1. name \in 0 .. n
        BY <1>3, <2>3, <3>1, <3>3, <3>5
      <4>2. name \notin 0 .. n - 1
        BY <2>3, <3>1
      <4>3. name = n
        BY <3>3, <4>1, <4>2
      <4>4. exists' \ {Bare} = 0 .. (n + 1) - 1
        <5>1. exists' \ {Bare} = (exists \ {Bare}) \cup {n}
          BY <2>3, <3>5, <4>3
        <5>2. (0 .. n - 1) \cup {n} = 0 .. (n + 1) - 1
          BY <3>3
        <5>. QED
          BY <3>1, <5>1, <5>2
      <4>5. \A u \in Thread : pc'[u] = "open" => call'[u].file \in 0 .. n + 1
        BY <1>3, <3>1, <3>3
      <4>. QED
        BY <1>3, <2>3, <3>3, <4>4, <4>5 DEF NamesUsed
    <3>. QED
      BY <3>4, <3>5
  <2>4. CASE exists' = exists \cup {name} /\ name \in exists
    <3>1. exists' = exists
      BY <2>4
    <3>. QED
      BY <2>1, <3>1
  <2>. QED
    BY <1>0, <1>3, <2>1, <2>2, <2>3, <2>4
<1>4. ASSUME NEW t \in Thread, NEW ok \in BOOLEAN, OpenFile(t, ok) PROVE NamesUsed'
  <2>. DEFINE a == call[t].ap
              name == call[t].file
  <2>1. /\ pc[t] = "open" /\ name \in Nat /\ a \in Ids /\ stream[a] \in Stream
        /\ OpenStream(a, stream[a], name, ok)
        /\ call' = call /\ pc'[t] = IF call[t].event = 0 THEN "time" ELSE "write"
        /\ \A u \in Thread \ {t} : pc'[u] = pc[u]
    BY <1>4, OpenFileDoes
  <2>2. rotate' = rotate /\ day' = day
    BY <1>4 DEF OpenFile
  <2>3. /\ rotate = "time" => name <= day
        /\ \A n \in Nat :
              (\A u \in Thread : pc[u] = "open" => call[u].file \in 0 .. n) => name \in 0 .. n
    BY <1>0, <2>1 DEF NamesUsed
  <2>. HIDE DEF name, a
  <2>4. name \in FileName
    BY <2>1 DEF FileName
  <2>5. exists' \in {exists, exists \cup {name}}
    <3>1. exists' = IF stream[a].file = None /\ ok THEN exists \cup {name} ELSE exists
      BY <2>1, <2>4, OpenDoes
    <3>. QED
      BY <3>1
  <2>6. \A u \in Thread : pc'[u] = "open" => pc[u] = "open" /\ call'[u] = call[u]
    BY <2>1
  <2>. QED
    BY <1>3, <2>2, <2>3, <2>4, <2>5, <2>6
<1>5. ASSUME NEW a \in Ids, NEW ok \in BOOLEAN, Reopen(a, ok) PROVE NamesUsed'
  <2>. DEFINE s == CloseIfGood(stream[a])
  <2>1. /\ OpenStream(a, s, Bare, ok) /\ s \in Stream
        /\ rotate' = rotate /\ day' = day /\ pc' = pc /\ call' = call
    BY <1>5, CloseDoes DEF Reopen, TypeOK
  <2>. HIDE DEF s
  <2>2. Bare \in FileName /\ Bare <= day
    BY <1>0 DEF FileName, Bare
  <2>3. exists' \in {exists, exists \cup {Bare}}
    <3>1. exists' = IF s.file = None /\ ok THEN exists \cup {Bare} ELSE exists
      BY <2>1, <2>2, OpenDoes
    <3>. QED
      BY <3>1
  <2>. QED
    BY <1>3, <2>1, <2>2, <2>3
<1>6. ASSUME Midnight PROVE NamesUsed'
  <2>1. /\ day' = day + 1 /\ rotate' = rotate /\ exists' = exists /\ pc' = pc /\ call' = call
    BY <1>6 DEF Midnight, exists
  <2>2. ASSUME rotate = "time"
        PROVE  /\ \A n \in exists : n <= day + 1
               /\ \A t \in Thread : pc[t] = "open" => call[t].file \in 0 .. day + 1
    <3>1. \A n \in exists : n \in Int
      BY <1>0 DEF FileName, Bare
    <3>2. /\ \A n \in exists : n <= day
          /\ \A t \in Thread : pc[t] = "open" => call[t].file \in 0 .. day
      BY <2>2 DEF NamesUsed
    <3>. QED
      BY <1>0, <3>1, <3>2
  <2>. QED
    BY <2>1, <2>2 DEF NamesUsed
<1>. QED
  BY <1>1, <1>2, <1>4, <1>5, <1>6 DEF Next, Step, Plain

(* Opening a file leaves every open file the file of one appender, or      *)
(* shared.                                                                 *)
LEMMA OpenKeeps ==
    ASSUME TypeOK, StreamsWhole, NEW a \in Ids, NEW s \in Stream, s.file \in {None, stream[a].file},
           NEW name \in FileName, NEW ok \in BOOLEAN, OpenStream(a, s, name, ok)
    PROVE  /\ \A b \in Ids : stream'[b].file # None => stream'[b].file \in exists'
           /\ \A b, c \in Ids :
                 b # c /\ stream'[b].file # None /\ stream'[b].file = stream'[c].file =>
                     stream'[b].file \in shared'
<1>1. /\ stream'[a] = Opened(s, name, ok)
      /\ \A b \in Ids \ {a} : stream'[b] = stream[b]
      /\ exists' = IF s.file = None /\ ok THEN exists \cup {name} ELSE exists
      /\ shared' = IF s.file = None /\ ok /\ name \in exists
                   THEN shared \cup {name} ELSE shared
  BY OpenDoes
<1>2. /\ \A b \in Ids : stream[b].file # None => stream[b].file \in exists
      /\ \A b, c \in Ids :
            b # c /\ stream[b].file # None /\ stream[b].file = stream[c].file =>
                stream[b].file \in shared
  BY DEF StreamsWhole
<1>3. CASE s.file = None /\ ok
  <2>1. stream'[a].file = name
    <3>1. Opened(s, name, ok).file = name
      BY <1>3, OpenedIs
    <3>. QED
      BY <1>1, <3>1
  <2>2. exists' = exists \cup {name} /\ shared \subseteq shared' /\ (name \in exists => name \in shared')
    BY <1>1, <1>3
  <2>3. ASSUME NEW b \in Ids, stream'[b].file # None PROVE stream'[b].file \in exists'
    BY <1>1, <1>2, <2>1, <2>2, <2>3
  <2>4. ASSUME NEW b \in Ids \ {a}, stream'[b].file # None, stream'[b].file = name
        PROVE  name \in shared'
    BY <1>1, <1>2, <2>2, <2>4
  <2>5. ASSUME NEW b \in Ids, NEW c \in Ids,
               b # c, stream'[b].file # None, stream'[b].file = stream'[c].file
        PROVE  stream'[b].file \in shared'
    <3>1. CASE b = a
      BY <2>1, <2>4, <2>5, <3>1
    <3>2. CASE c = a
      BY <2>1, <2>4, <2>5, <3>2
    <3>3. CASE b # a /\ c # a
      BY <1>1, <1>2, <2>2, <2>5, <3>3
    <3>. QED
      BY <3>1, <3>2, <3>3
  <2>. QED
    BY <2>3, <2>5
<1>4. CASE ~(s.file = None /\ ok)
  <2>1. stream'[a].file = s.file
    BY <1>1, <1>4, OpenedIs
  <2>2. exists' = exists /\ shared' = shared
    BY <1>1, <1>4
  <2>3. \A b \in Ids : stream'[b].file \in {None, stream[b].file}
    BY <1>1, <2>1
  <2>. QED
    BY <1>2, <2>2, <2>3
<1>. QED
  BY <1>3, <1>4

LEMMA StreamsStep ==
    ASSUME TypeOK, CallShape, CallsApart, StreamsWhole, NamesUsed, Next
    PROVE  StreamsWhole'
<1>0. /\ stream \in [Ids -> Stream] /\ faulty \subseteq Ids /\ shared \subseteq FileName
      /\ pc \in [Thread -> Label]
  BY DEF TypeOK, Label
<1>1. /\ \A b \in Ids : stream[b].file # None => stream[b].file \in exists
      /\ \A b, c \in Ids :
            b # c /\ stream[b].file # None /\ stream[b].file = stream[c].file =>
                stream[b].file \in shared
      /\ \A b \in Ids \ faulty :
            IF Opening(b) THEN stream[b].file = None ELSE ~stream[b].fail
  BY DEF StreamsWhole
<1>2. ASSUME NEW t \in Thread, Plain(t) PROVE StreamsWhole'
  <2>1. /\ \A b : Opening(b)' <=> Opening(b)
        /\ exists' = exists /\ shared' = shared
    BY <1>2, OpeningStays
  <2>2. \/ stream' = stream /\ faulty' = faulty
        \/ \E a \in Ids : DelAppender(t, a)
        \/ LogWriteFails(t)
    BY <1>2 DEF Plain, InitLogger, SetRotateTime, AddAppender, Log, LogLow, LogCheck, LogStuck,
                LogWrite, ap_vars, history_vars
  <2>3. CASE stream' = stream /\ faulty' = faulty
    BY <1>1, <2>1, <2>3 DEF StreamsWhole
  <2>4. ASSUME NEW a \in Ids, DelAppender(t, a) PROVE StreamsWhole'
    <3>1. /\ faulty' = faulty /\ stream'[a].file = None /\ ~stream'[a].fail
          /\ \A b \in Ids \ {a} : stream'[b] = stream[b]
      BY <1>0, <2>4 DEF DelAppender, history_vars
    <3>2. \A b \in Ids : stream'[b].file \in {None, stream[b].file}
      BY <3>1
    <3>3. \A b \in Ids \ faulty : IF Opening(b)' THEN stream'[b].file = None ELSE ~stream'[b].fail
      BY <1>1, <2>1, <3>1
    <3>. QED
      BY <1>1, <2>1, <3>1, <3>2, <3>3 DEF StreamsWhole
  <2>5. CASE LogWriteFails(t)
    <3>. DEFINE a == call[t].ap
    <3>1. /\ faulty' = faulty \cup {a} /\ stream' = [stream EXCEPT ![a].fail = TRUE]
      BY <2>5 DEF LogWriteFails
    <3>. HIDE DEF a
    <3>2. \A b \in Ids : /\ stream'[b].file = stream[b].file
                         /\ b # a => stream'[b] = stream[b]
      BY <1>0, <3>1 DEF Stream
    <3>3. \A b \in Ids \ faulty' :
             IF Opening(b)' THEN stream'[b].file = None ELSE ~stream'[b].fail
      BY <1>1, <2>1, <3>1, <3>2
    <3>. QED
      BY <1>1, <2>1, <3>2, <3>3 DEF StreamsWhole
  <2>. QED
    BY <2>2, <2>3, <2>4, <2>5
<1>3. ASSUME NEW t \in Thread, PickFile(t) PROVE StreamsWhole'
  <2>0. PICK a : a = call[t].ap
    OBVIOUS
  <2>1. /\ exists' = exists /\ shared' = shared /\ faulty' = faulty
    BY <1>3 DEF PickFile, exists, history_vars
  <2>2. /\ a \in Ids /\ pc[t] = "pick" /\ pc'[t] = "open" /\ call'[t].ap = a
        /\ \A u \in Thread \ {t} : pc'[u] = pc[u] /\ call'[u] = call[u]
        /\ stream'[a] = CloseIfGood(stream[a]) /\ \A b \in Ids \ {a} : stream'[b] = stream[b]
    BY <1>3, <2>0, PickDoes
  <2>3. a # 0 /\ stream[a] \in Stream
    BY <1>0, <2>0, <2>2, AtWork
  <2>4. ~Opening(a)
    BY <2>0, <2>2, <2>3 DEF Opening, CallsApart
  <2>5. /\ stream'[a].file \in {None, stream[a].file}
        /\ ~stream[a].fail => stream'[a].file = None
    BY <2>2, <2>3, CloseDoes
  <2>6. /\ Opening(a)'
        /\ \A b : b # a => (Opening(b)' <=> Opening(b))
    <3>1. Opening(a)'
      BY <2>2 DEF Opening
    <3>2. ASSUME NEW b, b # a PROVE Opening(b)' <=> Opening(b)
      BY <2>0, <2>2, <3>2 DEF Opening
    <3>. QED
      BY <3>1, <3>2
  <2>7. \A b \in Ids : stream'[b].file \in {None, stream[b].file}
    BY <2>2, <2>5
  <2>8. ASSUME NEW b \in Ids \ faulty'
        PROVE  IF Opening(b)' THEN stream'[b].file = None ELSE ~stream'[b].fail
    <3>1. CASE b = a
      BY <1>1, <2>1, <2>4, <2>5, <2>6, <3>1
    <3>2. CASE b # a
      BY <1>1, <2>1, <2>2, <2>6, <3>2
    <3>. QED
      BY <3>1, <3>2
  <2>. QED
    BY <1>1, <2>1, <2>7, <2>8 DEF StreamsWhole
<1>4. ASSUME NEW t \in Thread, NEW ok \in BOOLEAN, OpenFile(t, ok) PROVE StreamsWhole'
  <2>0. PICK a, name, s : a = call[t].ap /\ name = call[t].file /\ s = stream[a]
    OBVIOUS
  <2>1. /\ pc[t] = "open" /\ name \in FileName /\ a \in Ids /\ s \in Stream
        /\ OpenStream(a, s, name, ok)
        /\ call' = call /\ pc'[t] # "open"
        /\ \A u \in Thread \ {t} : pc'[u] = pc[u]
    BY <1>4, <2>0, OpenFileDoes DEF FileName
  <2>2. a # 0 /\ Opening(a)
    BY <2>0, <2>1, AtWork DEF Opening
  <2>3. ~Opening(a)' /\ \A b : b # a => (Opening(b)' <=> Opening(b))
    <3>1. \A u \in Thread \ {t} : call[u].ap # a
      BY <2>0, <2>2 DEF CallsApart
    <3>. QED
      BY <2>0, <2>1, <3>1 DEF Opening
  <2>5. /\ \A b \in Ids : stream'[b].file # None => stream'[b].file \in exists'
        /\ \A b, c \in Ids :
              b # c /\ stream'[b].file # None /\ stream'[b].file = stream'[c].file =>
                  stream'[b].file \in shared'
    BY <2>1, <2>0, OpenKeeps
  <2>6. /\ stream'[a] = Opened(s, name, ok) /\ \A b \in Ids \ {a} : stream'[b] = stream[b]
        /\ ok => faulty' = faulty
        /\ ~ok => faulty' = faulty \cup {a}
    BY <2>1, OpenDoes
  <2>7. ASSUME a \notin faulty' PROVE ~stream'[a].fail
    <3>1. ok /\ a \notin faulty
      BY <2>6, <2>7
    <3>2. s.file = None
      BY <1>1, <2>1, <2>2, <2>0, <3>1
    <3>. QED
      BY <2>1, <2>6, <3>1, <3>2, OpenedIs
  <2>8. ASSUME NEW b \in Ids \ faulty'
        PROVE  IF Opening(b)' THEN stream'[b].file = None ELSE ~stream'[b].fail
    <3>1. CASE b = a
      BY <2>3, <2>7, <2>8, <3>1
    <3>2. CASE b # a
      BY <1>1, <2>3, <2>6, <2>8, <3>2
    <3>. QED
      BY <3>1, <3>2
  <2>. QED
    BY <2>5, <2>8 DEF StreamsWhole
<1>5. ASSUME NEW a \in Ids, NEW ok \in BOOLEAN, Reopen(a, ok) PROVE StreamsWhole'
  <2>. DEFINE s == CloseIfGood(stream[a])
  <2>1. /\ OpenStream(a, s, Bare, ok) /\ Bare \in FileName /\ AppenderFree(a)
        /\ pc' = pc /\ call' = call
    BY <1>5 DEF Reopen, FileName
  <2>2. s \in Stream /\ s.file \in {None, stream[a].file} /\ (~stream[a].fail => s.file = None)
    BY <1>0, CloseDoes
  <2>3. ~Opening(a)
    BY <2>1 DEF Opening, AppenderFree
  <2>4. \A b : Opening(b)' <=> Opening(b)
    BY <2>1 DEF Opening
  <2>. HIDE DEF s
  <2>5. /\ \A b \in Ids : stream'[b].file # None => stream'[b].file \in exists'
        /\ \A b, c \in Ids :
              b # c /\ stream'[b].file # None /\ stream'[b].file = stream'[c].file =>
                  stream'[b].file \in shared'
    BY <2>1, <2>2, OpenKeeps
  <2>6. /\ stream'[a] = Opened(s, Bare, ok) /\ \A b \in Ids \ {a} : stream'[b] = stream[b]
        /\ ok => faulty' = faulty
        /\ ~ok => faulty' = faulty \cup {a}
    BY <2>1, <2>2, OpenDoes
  <2>7. ASSUME a \notin faulty' PROVE ~stream'[a].fail
    <3>1. ok /\ a \notin faulty
      BY <2>6, <2>7
    <3>2. s.file = None
      BY <1>1, <2>2, <2>3, <3>1
    <3>. QED
      BY <2>1, <2>2, <2>6, <3>1, <3>2, OpenedIs
  <2>8. \A b \in Ids \ faulty' :
           IF Opening(b)' THEN stream'[b].file = None ELSE ~stream'[b].fail
    BY <1>1, <2>3, <2>4, <2>6, <2>7
  <2>. QED
    BY <2>5, <2>8 DEF StreamsWhole
<1>6. ASSUME Midnight PROVE StreamsWhole'
  <2>1. UNCHANGED <<stream, exists, shared, faulty, pc, call>>
    BY <1>6 DEF Midnight, ap_vars, history_vars, exists
  <2>. QED
    BY <2>1 DEF StreamsWhole, Opening
<1>. QED
  BY <1>2, <1>3, <1>4, <1>5, <1>6 DEF Next, Step, Plain

(* What a write does.                                                      *)
LEMMA WriteDoes ==
    ASSUME TypeOK, CallShape, CallsApart, StreamsWhole, NEW t \in Thread,
           LogWrite(t) \/ LogWriteFails(t)
    PROVE  LET a == call[t].ap
               e == call[t].event
               n == stream[a].file
           IN  /\ a \in Ids /\ a # 0 /\ e \in Event /\ e = events /\ pc[t] = "write"
               /\ call[t].k \in 1 .. Len(m_appenders) /\ a = m_appenders[call[t].k]
               /\ n \in exists /\ n # None
               /\ exists' = exists
               /\ LineSize[e] \in Nat
               /\ m_currentSize'[a] = m_currentSize[a] + LineSize[e]
               /\ \A b \in Ids \ {a} : m_currentSize'[b] = m_currentSize[b]
               /\ \A u \in Thread \ {t} : /\ pc'[u] = pc[u] /\ call'[u] = call[u]
                                          /\ call[u].event = 0 /\ pc[u] # "write"
                                          /\ call[u].ap # a
               /\ pc'[t] \in {"idle", "next"} /\ call'[t].ap = 0
<1>. DEFINE a == call[t].ap
            e == call[t].event
            n == stream[a].file
<1>0. /\ MaxEvent \in Nat /\ call \in [Thread -> Call] /\ m_currentSize \in [Ids -> Nat]
      /\ LineSize \in [Event -> Nat \ {0}]
  BY BoundAssumption, LineSizeAssumption DEF TypeOK
<1>1. /\ pc[t] = "write" /\ n # None /\ LogNext(t)
      /\ m_currentSize' = [m_currentSize EXCEPT ![a] = @ + LineSize[e]]
  BY DEF LogWrite, LogWriteFails
<1>2. a \in Ids /\ Logs(t) /\ e # 0 /\ e = events /\ a # 0
  BY <1>1, AtWork
<1>3. e \in Event /\ LineSize[e] \in Nat
  <2>1. call[t] \in Call
    BY <1>0
  <2>2. e \in Event
    BY <1>0, <1>2, <2>1 DEF Call, Event
  <2>. QED
    BY <1>0, <2>2
<1>4. call[t].k \in 1 .. Len(m_appenders) /\ a = m_appenders[call[t].k]
  BY <1>1, <1>2 DEF Logs
<1>5. n \in exists
  BY <1>1, <1>2 DEF StreamsWhole
<1>6. exists' = exists
  BY OpeningStays DEF Plain
<1>7. /\ m_currentSize'[a] = m_currentSize[a] + LineSize[e]
      /\ \A b \in Ids \ {a} : m_currentSize'[b] = m_currentSize[b]
  BY <1>0, <1>1, <1>2
<1>8. /\ \A u \in Thread \ {t} : pc'[u] = pc[u] /\ call'[u] = call[u]
      /\ pc'[t] \in {"idle", "next"} /\ call'[t].ap = 0
  BY <1>1, <1>2, <1>4, LogNextDoes
<1>9. \A u \in Thread \ {t} : call[u].event = 0 /\ pc[u] # "write" /\ call[u].ap # a
  <2>1. \A u \in Thread \ {t} : call[u].event = 0 /\ call[u].ap # a
    BY <1>2 DEF CallsApart
  <2>2. \A u \in Thread : pc[u] = "write" => call[u].event # 0
    BY AtWork
  <2>. QED
    BY <2>1, <2>2
<1>. QED
  BY <1>1, <1>2, <1>3, <1>4, <1>5, <1>6, <1>7, <1>8, <1>9

LEMMA LineWritten ==
    ASSUME TypeOK, CallShape, CallsApart, StreamsWhole, NEW t \in Thread, LogWrite(t),
           ~stream[call[t].ap].fail
    PROVE  LET a    == call[t].ap
               n    == stream[a].file
               line == [by |-> a, event |-> call[t].event, from |-> call[t].from, to |-> day]
           IN  /\ line \in Line
               /\ files[n] \in Seq(Line)
               /\ files'[n] = Append(files[n], line)
               /\ \A m \in exists \ {n} : files'[m] = files[m]
<1>. DEFINE a    == call[t].ap
            n    == stream[a].file
            line == [by |-> a, event |-> call[t].event, from |-> call[t].from, to |-> day]
<1>0. /\ call[t] \in Call /\ day \in 0 .. MaxDay /\ files \in [exists -> Seq(Line)]
  BY DEF TypeOK
<1>1. a \in Ids /\ call[t].event \in Event /\ n \in exists
  BY WriteDoes
<1>2. line \in Line
  BY <1>0, <1>1 DEF Line, Call
<1>3. files' = [files EXCEPT ![n] = Append(@, line)]
  BY DEF LogWrite
<1>. HIDE DEF line, n, a
<1>4. files'[n] = Append(files[n], line) /\ \A m \in exists \ {n} : files'[m] = files[m]
  BY <1>0, <1>1, <1>3
<1>. QED
  BY <1>0, <1>1, <1>2, <1>4 DEF line, n, a

LEMMA SizeStep ==
    ASSUME TypeOK, CallShape, CallsApart, StreamsWhole, NamesUsed, SizeInv, SizeLimit, Next
    PROVE  SizeInv' /\ SizeLimit'
<1>a. rotate' = rotate
  BY DEF Next, Step, InitLogger, SetRotateTime, AddAppender, DelAppender, Log, LogLow, LogCheck,
         LogStuck, LogWrite, LogWriteFails, PickFile, OpenFile, Reopen, Midnight
<1>. SUFFICES ASSUME rotate = "size"
              PROVE  /\ \A a \in Ids :
                           ~stream'[a].fail /\ stream'[a].file \in exists' \ ({Bare} \cup shared') =>
                               SizeOf(files'[stream'[a].file]) <= m_currentSize'[a]
                     /\ \A t \in Thread : pc'[t] = "write" => m_currentSize'[call'[t].ap] < MaxSize
                     /\ \A n \in exists' \ ({Bare} \cup shared') :
                           files'[n] # <<>> => SizeOf(Front(files'[n])) < MaxSize
  BY <1>a DEF SizeInv, SizeLimit
<1>. DEFINE Fits == \A a \in Ids :
               ~stream'[a].fail /\ stream'[a].file \in exists' \ ({Bare} \cup shared') =>
                   SizeOf(files'[stream'[a].file]) <= m_currentSize'[a]
            Writes == \A t \in Thread : pc'[t] = "write" => m_currentSize'[call'[t].ap] < MaxSize
            Limits == \A n \in exists' \ ({Bare} \cup shared') :
               files'[n] # <<>> => SizeOf(Front(files'[n])) < MaxSize
<1>0. /\ stream \in [Ids -> Stream] /\ m_currentSize \in [Ids -> Nat] /\ MaxSize \in Nat \ {0}
      /\ exists \subseteq FileName /\ files \in [exists -> Seq(Line)] /\ None \notin exists
  BY SizeAssumption DEF TypeOK, FileName, None, Bare
<1>1. /\ \A a \in Ids :
            ~stream[a].fail /\ stream[a].file \in exists \ ({Bare} \cup shared) =>
                SizeOf(files[stream[a].file]) <= m_currentSize[a]
      /\ \A t \in Thread : pc[t] = "write" => m_currentSize[call[t].ap] < MaxSize
      /\ \A n \in exists \ ({Bare} \cup shared) :
            files[n] # <<>> => SizeOf(Front(files[n])) < MaxSize
  BY DEF SizeInv, SizeLimit
<1>2. ASSUME files' = files, shared' = shared, m_currentSize' = m_currentSize,
             \A a \in Ids : stream'[a] = stream[a] \/ stream'[a].file = None \/ stream'[a].fail,
             \A t \in Thread : pc'[t] = "write" => pc[t] = "write" /\ call'[t] = call[t]
      PROVE  Fits /\ Writes /\ Limits
  <2>1. exists' = exists
    BY <1>2 DEF exists
  <2>. QED
    BY <1>0, <1>1, <1>2, <2>1
<1>3. ASSUME NEW t \in Thread, Plain(t), ~LogCheck(t), ~LogWrite(t), ~LogWriteFails(t)
      PROVE  Fits /\ Writes /\ Limits
  <2>1. \A u \in Thread : pc'[u] = "write" => pc[u] = "write" /\ call'[u] = call[u]
    BY <1>3, WritingStays
  <2>2. files' = files /\ shared' = shared /\ m_currentSize' = m_currentSize
    BY <1>3 DEF Plain, InitLogger, SetRotateTime, AddAppender, DelAppender, Log, LogLow, LogStuck,
                ap_vars, history_vars
  <2>3. \A a \in Ids : stream'[a] = stream[a] \/ stream'[a].file = None
    <3>1. CASE stream' = stream
      BY <3>1
    <3>2. ASSUME NEW a \in Ids, DelAppender(t, a)
          PROVE  \A b \in Ids : stream'[b] = stream[b] \/ stream'[b].file = None
      BY <1>0, <3>2 DEF DelAppender
    <3>. QED
      BY <1>3, <3>1, <3>2 DEF Plain, InitLogger, SetRotateTime, AddAppender, Log, LogLow, LogStuck,
                              ap_vars
  <2>. HIDE DEF Fits, Writes, Limits
  <2>. QED
    BY <1>2, <2>1, <2>2, <2>3
<1>4. ASSUME NEW t \in Thread, LogCheck(t) PROVE Fits /\ Writes /\ Limits
  <2>0. PICK a : a = m_appenders[call[t].k]
    OBVIOUS
  <2>1. files' = files /\ shared' = shared /\ m_currentSize' = m_currentSize /\ stream' = stream
    BY <1>4 DEF LogCheck, ap_vars
  <2>2. /\ a \in Ids /\ pc'[t] = IF checkRotate(a) THEN "pick" ELSE "write"
        /\ call'[t].ap = a
        /\ \A u \in Thread \ {t} : pc'[u] = pc[u] /\ call'[u] = call[u]
    BY <1>4, <2>0, CheckDoes
  <2>3. ASSUME pc'[t] = "write" PROVE m_currentSize[a] < MaxSize
    <3>1. ~(m_currentSize[a] >= MaxSize)
      BY <2>2, <2>3 DEF checkRotate
    <3>. QED
      BY <1>0, <2>2, <3>1
  <2>4. Writes
    BY <1>1, <2>1, <2>2, <2>3
  <2>5. exists' = exists
    BY <2>1 DEF exists
  <2>. QED
    BY <1>1, <2>1, <2>4, <2>5
<1>5. ASSUME NEW t \in Thread, LogWrite(t) \/ LogWriteFails(t) PROVE Fits /\ Writes /\ Limits
  <2>0. PICK a, n, e : a = call[t].ap /\ n = stream[a].file /\ e = call[t].event
    OBVIOUS
  <2>1. /\ a \in Ids /\ e \in Event /\ pc[t] = "write" /\ n \in exists /\ exists' = exists
        /\ LineSize[e] \in Nat
        /\ m_currentSize'[a] = m_currentSize[a] + LineSize[e]
        /\ \A b \in Ids \ {a} : m_currentSize'[b] = m_currentSize[b]
        /\ \A u \in Thread : pc'[u] # "write"
    BY <1>5, <2>0, WriteDoes
  <2>2. shared' = shared
    BY <1>5 DEF LogWrite, LogWriteFails, history_vars
  <2>3. \A b \in Ids : m_currentSize[b] \in Nat
    BY <1>0
  <2>4. \A m \in exists : SizeOf(files[m]) \in Int
    <3>1. \A m \in exists : files[m] \in Seq(Line)
      BY <1>0
    <3>2. PICK l : l \in Line
      <4>1. [by |-> a, event |-> e, from |-> 0, to |-> 0] \in Line
        BY <2>1, BoundAssumption DEF Line
      <4>. QED
        BY <4>1
    <3>. QED
      BY <3>1, <3>2, SizeOfAppend
  <2>5. ASSUME files' = files, \A b \in Ids : stream'[b] = stream[b] \/ stream'[b].fail
        PROVE  Fits /\ Limits
    <3>1. ASSUME NEW b \in Ids, ~stream'[b].fail, stream'[b].file \in exists \ ({Bare} \cup shared)
          PROVE  SizeOf(files[stream'[b].file]) <= m_currentSize'[b]
      <4>1. SizeOf(files[stream[b].file]) <= m_currentSize[b] /\ stream'[b] = stream[b]
        BY <1>1, <2>5, <3>1
      <4>2. SizeOf(files[stream[b].file]) \in Int
        BY <2>4, <3>1, <4>1
      <4>3. m_currentSize'[b] >= m_currentSize[b] /\ m_currentSize'[b] \in Nat
        BY <2>1, <2>3
      <4>. QED
        BY <2>3, <4>1, <4>2, <4>3
    <3>. QED
      BY <1>1, <2>1, <2>2, <2>5, <3>1
  <2>6. CASE LogWriteFails(t)
    <3>1. files' = files /\ stream' = [stream EXCEPT ![a].fail = TRUE]
      BY <2>0, <2>6 DEF LogWriteFails
    <3>2. \A b \in Ids : stream'[b] = stream[b] \/ stream'[b].fail
      BY <1>0, <2>1, <3>1 DEF Stream
    <3>. QED
      BY <2>1, <2>5, <3>1, <3>2
  <2>7. CASE LogWrite(t) /\ stream[a].fail
    <3>1. files' = files /\ stream' = stream
      BY <2>0, <2>7 DEF LogWrite
    <3>. QED
      BY <2>1, <2>5, <3>1
  <2>8. CASE LogWrite(t) /\ ~stream[a].fail
    <3>1. stream' = stream
      BY <2>8 DEF LogWrite
    <3>2. PICK l \in Line : /\ l.event = e /\ files[n] \in Seq(Line)
                            /\ files'[n] = Append(files[n], l)
                            /\ \A m \in exists \ {n} : files'[m] = files[m]
      BY <2>0, <2>8, LineWritten
    <3>3. SizeOf(files'[n]) = SizeOf(files[n]) + LineSize[e] /\ SizeOf(files[n]) \in Int
      BY <3>2, SizeOfAppend
    <3>4. Front(files'[n]) = files[n]
      BY <3>2 DEF Front
    <3>5. ASSUME n \notin {Bare} \cup shared
          PROVE  SizeOf(files[n]) <= m_currentSize[a] /\ SizeOf(files[n]) < MaxSize
      <4>1. SizeOf(files[n]) <= m_currentSize[a]
        BY <1>1, <2>0, <2>1, <2>8, <3>5
      <4>2. m_currentSize[a] < MaxSize
        BY <1>1, <2>0, <2>1
      <4>. QED
        BY <1>0, <2>1, <2>3, <3>3, <4>1, <4>2
    <3>6. ASSUME NEW b \in Ids, ~stream'[b].fail, stream'[b].file \in exists' \ ({Bare} \cup shared')
          PROVE  SizeOf(files'[stream'[b].file]) <= m_currentSize'[b]
      <4>1. CASE b = a
        <5>1. stream'[b].file = n /\ n \notin {Bare} \cup shared
          BY <2>0, <2>2, <3>1, <3>6, <4>1
        <5>. QED
          BY <2>1, <2>3, <3>3, <3>5, <4>1, <5>1
      <4>2. CASE b # a
        <5>1. stream[b].file # None
          BY <1>0, <2>1, <3>1, <3>6
        <5>2. stream[b].file # n
          BY <2>0, <2>1, <2>2, <3>1, <3>6, <4>2, <5>1 DEF StreamsWhole
        <5>3. files'[stream[b].file] = files[stream[b].file]
          BY <2>1, <3>1, <3>2, <3>6, <5>2
        <5>. QED
          BY <1>1, <2>1, <2>2, <3>1, <3>6, <4>2, <5>3
      <4>. QED
        BY <4>1, <4>2
    <3>7. ASSUME NEW m \in exists' \ ({Bare} \cup shared'), files'[m] # <<>>
          PROVE  SizeOf(Front(files'[m])) < MaxSize
      <4>1. CASE m = n
        BY <2>2, <3>4, <3>5, <3>7, <4>1
      <4>2. CASE m # n
        BY <1>1, <2>1, <2>2, <3>2, <3>7, <4>2
      <4>. QED
        BY <4>1, <4>2
    <3>. QED
      BY <2>1, <3>6, <3>7
  <2>. QED
    BY <1>5, <2>1, <2>6, <2>7, <2>8
<1>6. ASSUME NEW t \in Thread, PickFile(t) PROVE Fits /\ Writes /\ Limits
  <2>0. PICK a : a = call[t].ap
    OBVIOUS
  <2>1. files' = files /\ shared' = shared /\ m_currentSize' = m_currentSize
    BY <1>6 DEF PickFile, history_vars
  <2>2. /\ a \in Ids /\ pc'[t] = "open"
        /\ \A u \in Thread \ {t} : pc'[u] = pc[u] /\ call'[u] = call[u]
        /\ stream'[a] = CloseIfGood(stream[a]) /\ \A b \in Ids \ {a} : stream'[b] = stream[b]
    BY <1>6, <2>0, PickDoes
  <2>3. stream'[a].file = None \/ stream'[a].fail
    <3>1. stream[a] \in Stream
      BY <1>0, <2>2
    <3>2. LET c == CloseIfGood(stream[a]) IN c \in Stream /\ (~c.fail => c.file = None)
      BY <3>1, CloseDoes
    <3>. QED
      BY <2>2, <3>2
  <2>4. \A u \in Thread : pc'[u] = "write" => pc[u] = "write" /\ call'[u] = call[u]
    BY <2>2
  <2>. HIDE DEF Fits, Writes, Limits
  <2>. QED
    BY <1>2, <2>1, <2>2, <2>3, <2>4
<1>7. ASSUME NEW a \in Ids, NEW s \in Stream, NEW name \in FileName, NEW ok \in BOOLEAN,
             OpenStream(a, s, name, ok),
             name = Bare \/ m_currentSize'[a] = 0,
             \A b \in Ids \ {a} : m_currentSize'[b] = m_currentSize[b]
      PROVE  Fits /\ Limits
  <2>1. /\ stream'[a] = Opened(s, name, ok) /\ \A b \in Ids \ {a} : stream'[b] = stream[b]
        /\ exists' = IF s.file = None /\ ok THEN exists \cup {name} ELSE exists
        /\ \A n \in exists : files'[n] = files[n]
        /\ \A n \in exists' \ exists : files'[n] = <<>>
        /\ shared' = IF s.file = None /\ ok /\ name \in exists
                     THEN shared \cup {name} ELSE shared
    BY <1>7, OpenDoes
  <2>2. shared \subseteq shared' /\ exists \subseteq exists'
    BY <2>1
  <2>3. ASSUME NEW b \in Ids \ {a}, ~stream'[b].fail,
               stream'[b].file \in exists' \ ({Bare} \cup shared')
        PROVE  SizeOf(files'[stream'[b].file]) <= m_currentSize'[b]
    <3>1. stream'[b] = stream[b] /\ stream[b].file # None
      BY <1>0, <1>7, <2>1, <2>3 DEF FileName, None, Bare
    <3>2. stream[b].file \in exists \ ({Bare} \cup shared)
      BY <2>2, <2>3, <3>1 DEF StreamsWhole
    <3>. QED
      BY <1>1, <1>7, <2>1, <2>3, <3>1, <3>2
  <2>4. ASSUME ~stream'[a].fail, stream'[a].file \in exists' \ ({Bare} \cup shared')
        PROVE  SizeOf(files'[stream'[a].file]) <= m_currentSize'[a]
    <3>1. s.file = None /\ ok /\ Opened(s, name, ok).file = name
      BY <1>7, <2>1, <2>4, OpenedIs
    <3>2. stream'[a].file = name /\ name # Bare /\ name \notin shared'
      BY <2>1, <2>4, <3>1
    <3>3. name \in exists' \ exists
      BY <2>1, <2>4, <3>1, <3>2
    <3>4. files'[name] = <<>> /\ m_currentSize'[a] = 0
      BY <1>7, <2>1, <3>2, <3>3
    <3>. QED
      BY <3>2, <3>4, SizeOfNothing
  <2>5. Fits
    BY <2>3, <2>4
  <2>6. ASSUME NEW n \in exists' \ ({Bare} \cup shared'), files'[n] # <<>>
        PROVE  SizeOf(Front(files'[n])) < MaxSize
    BY <1>1, <2>1, <2>2, <2>6
  <2>. QED
    BY <2>5, <2>6
<1>8. ASSUME NEW t \in Thread, NEW ok \in BOOLEAN, OpenFile(t, ok)
      PROVE  Fits /\ Writes /\ Limits
  <2>0. PICK a, name, s : a = call[t].ap /\ name = call[t].file /\ s = stream[a]
    OBVIOUS
  <2>1. /\ name \in FileName /\ a \in Ids /\ s \in Stream
        /\ OpenStream(a, s, name, ok)
        /\ call' = call /\ \A u \in Thread \ {t} : pc'[u] = pc[u]
        /\ m_currentSize'[a] = 0 /\ \A b \in Ids \ {a} : m_currentSize'[b] = m_currentSize[b]
    BY <1>8, <2>0, OpenFileDoes DEF FileName
  <2>2. Fits /\ Limits
    <3>. HIDE DEF Fits, Limits
    <3>. QED
      BY <1>7, <2>1
  <2>3. ASSUME NEW u \in Thread, pc'[u] = "write" PROVE m_currentSize'[call'[u].ap] < MaxSize
    <3>1. CASE call[u].ap = a
      BY <1>0, <2>1, <3>1
    <3>2. CASE call[u].ap # a
      <4>1. u # t /\ pc[u] = "write"
        BY <2>0, <2>1, <2>3, <3>2
      <4>2. call[u].ap \in Ids
        BY <4>1, AtWork
      <4>. QED
        BY <1>1, <2>1, <3>2, <4>1, <4>2
    <3>. QED
      BY <3>1, <3>2
  <2>. QED
    BY <2>2, <2>3
<1>9. ASSUME NEW a \in Ids, NEW ok \in BOOLEAN, Reopen(a, ok) PROVE Fits /\ Writes /\ Limits
  <2>. DEFINE s == CloseIfGood(stream[a])
  <2>1. /\ OpenStream(a, s, Bare, ok) /\ Bare \in FileName
        /\ pc' = pc /\ call' = call /\ m_currentSize' = m_currentSize
    BY <1>9 DEF Reopen, FileName
  <2>2. s \in Stream
    BY <1>0, CloseDoes
  <2>. HIDE DEF s
  <2>3. Fits /\ Limits
    <3>. HIDE DEF Fits, Limits
    <3>. QED
      BY <1>7, <2>1, <2>2
  <2>. QED
    BY <1>1, <2>1, <2>3
<1>10. ASSUME Midnight PROVE Fits /\ Writes /\ Limits
  <2>1. UNCHANGED <<files, shared, m_currentSize, stream, pc, call>>
    BY <1>10 DEF Midnight, ap_vars, history_vars
  <2>. HIDE DEF Fits, Writes, Limits
  <2>. QED
    BY <1>2, <2>1
<1>. HIDE DEF Fits, Writes, Limits
<1>11. Fits /\ Writes /\ Limits
  BY <1>3, <1>4, <1>5, <1>6, <1>8, <1>9, <1>10 DEF Next, Step, Plain
<1>. QED
  BY <1>11 DEF Fits, Writes, Limits

(* A thread that works on an appender has it for itself.                   *)
LEMMA Alone ==
    ASSUME TypeOK, CallShape, CallsApart, NEW t \in Thread, pc[t] \notin {"idle", "next"}
    PROVE  /\ call[t].ap \in Ids /\ call[t].ap # 0
           /\ \A u \in Thread \ {t} : call[u].ap # call[t].ap
           /\ pc[t] # "open" => ~Opening(call[t].ap)
<1>1. call[t].ap \in Ids /\ call[t].ap # 0
  BY AtWork
<1>2. \A u \in Thread \ {t} : call[u].ap # call[t].ap
  BY <1>1 DEF CallsApart
<1>. QED
  BY <1>1, <1>2 DEF Opening

LEMMA DayStep ==
    ASSUME TypeOK, CallShape, CallsApart, StreamsWhole, NamesUsed, DayInv, DayFile, Next
    PROVE  DayInv' /\ DayFile'
<1>a. rotate' = rotate
  BY DEF Next, Step, InitLogger, SetRotateTime, AddAppender, DelAppender, Log, LogLow, LogCheck,
         LogStuck, LogWrite, LogWriteFails, PickFile, OpenFile, Reopen, Midnight
<1>. DEFINE Named == \A a \in Ids \ (straddled' \cup faulty') :
                        stream'[a].file \in {None, Bare, m_lastRotateTime'[a]}
            Opens == \A t \in Thread : pc'[t] = "open" =>
                        /\ call'[t].file = m_lastRotateTime'[call'[t].ap]
                        /\ call'[t].from <= call'[t].file
            Writes == \A t \in Thread :
                        /\ pc'[t] = "write" /\ call'[t].ap \notin straddled' \cup faulty'
                        /\ stream'[call'[t].ap].file \notin {None, Bare}
                        => call'[t].from <= stream'[call'[t].ap].file
            Lines == \A n \in exists' \ {Bare} : \A i \in DOMAIN files'[n] :
                        files'[n][i].by \notin straddled' \cup faulty' =>
                            files'[n][i].from <= n /\ n <= files'[n][i].to
<1>. SUFFICES ASSUME rotate = "time" PROVE Named /\ Opens /\ Writes /\ Lines
  BY <1>a DEF DayInv, DayFile
<1>0. /\ stream \in [Ids -> Stream] /\ m_lastRotateTime \in [Ids -> 0 .. MaxDay]
      /\ exists \subseteq FileName /\ files \in [exists -> Seq(Line)] /\ None \notin exists
      /\ day \in 0 .. MaxDay
  BY DEF TypeOK, FileName, None, Bare
<1>1. /\ \A a \in Ids \ (straddled \cup faulty) :
            stream[a].file \in {None, Bare, m_lastRotateTime[a]}
      /\ \A t \in Thread : pc[t] = "open" =>
            call[t].file = m_lastRotateTime[call[t].ap] /\ call[t].from <= call[t].file
      /\ \A t \in Thread :
            /\ pc[t] = "write" /\ call[t].ap \notin straddled \cup faulty
            /\ stream[call[t].ap].file \notin {None, Bare}
            => call[t].from <= stream[call[t].ap].file
      /\ \A n \in exists \ {Bare} : \A i \in DOMAIN files[n] :
            files[n][i].by \notin straddled \cup faulty =>
                files[n][i].from <= n /\ n <= files[n][i].to
  BY DEF DayInv, DayFile
<1>m. \A u \in Thread : pc[u] \in {"open", "write"} => call[u].ap \in Ids
  BY Alone
<1>2. ASSUME files' = files, straddled \subseteq straddled', faulty \subseteq faulty'
      PROVE  Lines
  <2>1. exists' = exists
    BY <1>2 DEF exists
  <2>. QED
    BY <1>1, <1>2, <2>1
<1>3. ASSUME straddled' = straddled, faulty \subseteq faulty', m_lastRotateTime' = m_lastRotateTime,
             \A a \in Ids : stream'[a].file \in {None, stream[a].file},
             \A u \in Thread : pc'[u] \in {"open", "write"} => pc'[u] = pc[u] /\ call'[u] = call[u]
      PROVE  Named /\ Opens /\ Writes
  BY <1>1, <1>3, <1>m
<1>4. ASSUME NEW t \in Thread, Plain(t), ~LogCheck(t), ~SetRotateTime(t)
      PROVE  Named /\ Opens /\ Writes /\ Lines
  <2>1. \A u \in Thread : pc'[u] \in {"open", "write"} => pc'[u] = pc[u] /\ call'[u] = call[u]
    BY <1>4, OpeningStays, WritingStays
  <2>2. /\ straddled' = straddled /\ m_lastRotateTime' = m_lastRotateTime
        /\ faulty \subseteq faulty'
    BY <1>4 DEF Plain, InitLogger, AddAppender, DelAppender, Log, LogLow, LogStuck, LogWrite,
                LogWriteFails, ap_vars, history_vars
  <2>3. \A a \in Ids : stream'[a].file \in {None, stream[a].file}
    <3>1. CASE stream' = stream
      BY <3>1
    <3>2. ASSUME NEW a \in Ids, DelAppender(t, a) PROVE stream'[a].file = None
                                           /\ \A b \in Ids \ {a} : stream'[b] = stream[b]
      BY <1>0, <3>2 DEF DelAppender
    <3>3. CASE LogWriteFails(t)
      <4>1. PICK a : stream' = [stream EXCEPT ![a].fail = TRUE]
        BY <3>3 DEF LogWriteFails
      <4>. QED
        BY <1>0, <4>1 DEF Stream
    <3>4. \/ stream' = stream \/ LogWriteFails(t)
          \/ \E a \in Ids : DelAppender(t, a)
      BY <1>4 DEF Plain, InitLogger, AddAppender, Log, LogLow, LogStuck, LogWrite, ap_vars
    <3>. QED
      BY <3>1, <3>2, <3>3, <3>4
  <2>4. Named /\ Opens /\ Writes
    <3>. HIDE DEF Named, Opens, Writes
    <3>. QED
      BY <1>3, <2>1, <2>2, <2>3
  <2>5. Lines
    <3>1. CASE files' = files
      <4>. HIDE DEF Lines
      <4>. QED
        BY <1>2, <2>2, <3>1
    <3>2. CASE files' # files
      <4>0. PICK a, n : a = call[t].ap /\ n = stream[a].file
        OBVIOUS
      <4>1. LogWrite(t)
        BY <1>4, <3>2 DEF Plain, InitLogger, AddAppender, DelAppender, Log, LogLow, LogStuck,
                          LogWriteFails
      <4>2. ~stream[a].fail /\ faulty' = faulty
        BY <3>2, <4>0, <4>1 DEF LogWrite, history_vars
      <4>3. PICK l \in Line : /\ l.by = a /\ l.from = call[t].from /\ l.to = day
                              /\ files[n] \in Seq(Line)
                              /\ files'[n] = Append(files[n], l)
                              /\ \A m \in exists \ {n} : files'[m] = files[m]
        BY <4>0, <4>1, <4>2, LineWritten
      <4>4. a \in Ids /\ pc[t] = "write" /\ n \in exists /\ n # None /\ exists' = exists
        BY <4>0, <4>1, WriteDoes
      <4>5. ASSUME a \notin straddled \cup faulty, n # Bare
            PROVE  l.from <= n /\ n <= l.to
        <5>1. call[t].from <= n
          BY <1>1, <4>0, <4>4, <4>5
        <5>2. n <= day
          BY <4>4 DEF NamesUsed
        <5>. QED
          BY <4>3, <5>1, <5>2
      <4>6. ASSUME NEW m \in exists \ {Bare}, NEW i \in DOMAIN files'[m],
                   files'[m][i].by \notin straddled \cup faulty
            PROVE  files'[m][i].from <= m /\ m <= files'[m][i].to
        <5>1. CASE m # n
          BY <1>1, <4>3, <4>6, <5>1
        <5>2. CASE m = n
          <6>1. \/ i \in DOMAIN files[n] /\ files'[n][i] = files[n][i]
                \/ files'[n][i] = l
            BY <4>3, <4>6, <5>2
          <6>. QED
            BY <1>1, <4>3, <4>4, <4>5, <4>6, <5>2, <6>1
        <5>. QED
          BY <5>1, <5>2
      <4>. QED
        BY <2>2, <4>2, <4>4, <4>6
    <3>. QED
      BY <3>1, <3>2
  <2>. QED
    BY <2>4, <2>5
<1>5. ASSUME NEW t \in Thread, LogCheck(t) PROVE Named /\ Opens /\ Writes /\ Lines
  <2>0. PICK a : a = m_appenders[call[t].k]
    OBVIOUS
  <2>1. /\ files' = files /\ stream' = stream /\ m_lastRotateTime' = m_lastRotateTime
        /\ straddled' = straddled /\ faulty' = faulty
    BY <1>5 DEF LogCheck, ap_vars
  <2>2. /\ a \in Ids /\ pc'[t] = IF checkRotate(a) THEN "pick" ELSE "write"
        /\ call'[t].ap = a /\ call'[t].from = day
        /\ \A u \in Thread \ {t} : pc'[u] = pc[u] /\ call'[u] = call[u]
    BY <1>5, <2>0, CheckDoes
  <2>3. ASSUME pc'[t] = "write" PROVE day = m_lastRotateTime[a]
    BY <2>2, <2>3 DEF checkRotate
  <2>4. Named
    BY <1>1, <2>1
  <2>5. Opens
    BY <1>1, <2>1, <2>2
  <2>6. ASSUME NEW u \in Thread, pc'[u] = "write", call'[u].ap \notin straddled' \cup faulty',
               stream'[call'[u].ap].file \notin {None, Bare}
        PROVE  call'[u].from <= stream'[call'[u].ap].file
    <3>1. CASE u = t
      <4>1. stream[a].file = day
        BY <1>1, <2>1, <2>2, <2>3, <2>6, <3>1
      <4>. QED
        BY <1>0, <2>1, <2>2, <3>1, <4>1
    <3>2. CASE u # t
      BY <1>1, <2>1, <2>2, <2>6, <3>2
    <3>. QED
      BY <3>1, <3>2
  <2>7. Lines
    <3>. HIDE DEF Lines
    <3>. QED
      BY <1>2, <2>1
  <2>. QED
    BY <2>4, <2>5, <2>6, <2>7
<1>6. ASSUME NEW t \in Thread, SetRotateTime(t) PROVE Named /\ Opens /\ Writes /\ Lines
  <2>0. PICK a : a = call[t].ap
    OBVIOUS
  <2>1. /\ files' = files /\ stream' = stream /\ faulty' = faulty /\ pc[t] = "time"
        /\ m_lastRotateTime' = [m_lastRotateTime EXCEPT ![a] = day]
        /\ straddled' = IF m_lastRotateTime[a] # day THEN straddled \cup {a} ELSE straddled
    BY <1>6, <2>0 DEF SetRotateTime
  <2>2. a \in Ids /\ \A u \in Thread \ {t} : call[u].ap # a
    BY <2>0, <2>1, Alone
  <2>3. \A u \in Thread : pc'[u] \in {"open", "write"} =>
           u # t /\ pc'[u] = pc[u] /\ call'[u] = call[u]
    <3>1. Plain(t) /\ ~LogCheck(t)
      BY <1>6, <2>1 DEF Plain, LogCheck
    <3>2. \A u \in Thread : pc'[u] \in {"open", "write"} => pc'[u] = pc[u] /\ call'[u] = call[u]
      BY <3>1, OpeningStays, WritingStays
    <3>. QED
      BY <2>1, <3>2
  <2>4. \A b \in Ids \ straddled' : m_lastRotateTime'[b] = m_lastRotateTime[b]
    BY <1>0, <2>1, <2>2
  <2>5. \A b \in Ids \ {a} : m_lastRotateTime'[b] = m_lastRotateTime[b]
    BY <1>0, <2>1
  <2>6. straddled \subseteq straddled'
    BY <2>1
  <2>7. Named
    BY <1>1, <2>1, <2>4, <2>6
  <2>8. Opens
    BY <1>1, <1>m, <2>2, <2>3, <2>5
  <2>9. Writes
    BY <1>1, <2>1, <2>3, <2>6
  <2>10. Lines
    <3>. HIDE DEF Lines
    <3>. QED
      BY <1>2, <2>1, <2>6
  <2>. QED
    BY <2>7, <2>8, <2>9, <2>10
<1>7. ASSUME NEW t \in Thread, PickFile(t) PROVE Named /\ Opens /\ Writes /\ Lines
  <2>0. PICK a : a = call[t].ap
    OBVIOUS
  <2>1. files' = files /\ straddled' = straddled /\ faulty' = faulty
    BY <1>7 DEF PickFile, history_vars
  <2>2. /\ a \in Ids /\ pc[t] = "pick" /\ pc'[t] = "open"
        /\ call'[t].file = day /\ call'[t].ap = a /\ call'[t].from = call[t].from
        /\ \A u \in Thread \ {t} : pc'[u] = pc[u] /\ call'[u] = call[u]
        /\ stream'[a] = CloseIfGood(stream[a]) /\ \A b \in Ids \ {a} : stream'[b] = stream[b]
        /\ m_lastRotateTime'[a] = day
        /\ \A b \in Ids \ {a} : m_lastRotateTime'[b] = m_lastRotateTime[b]
    BY <1>7, <2>0, PickDoes
  <2>3. (\A u \in Thread \ {t} : call[u].ap # a) /\ ~Opening(a)
    BY <2>0, <2>2, Alone
  <2>4. ASSUME a \notin faulty PROVE stream'[a].file = None
    <3>1. ~stream[a].fail /\ stream[a] \in Stream
      BY <1>0, <2>2, <2>3, <2>4 DEF StreamsWhole
    <3>. QED
      BY <2>2, <3>1, CloseDoes
  <2>5. Named
    BY <1>1, <2>1, <2>2, <2>4
  <2>6. ASSUME NEW u \in Thread, pc'[u] = "open"
        PROVE  call'[u].file = m_lastRotateTime'[call'[u].ap] /\ call'[u].from <= call'[u].file
    <3>1. CASE u = t
      BY <2>0, <2>2, <3>1 DEF CallShape
    <3>2. CASE u # t
      <4>1. call[u].ap \in Ids \ {a}
        BY <1>m, <2>2, <2>3, <2>6, <3>2
      <4>. QED
        BY <1>1, <2>2, <2>6, <3>2, <4>1
    <3>. QED
      BY <3>1, <3>2
  <2>7. ASSUME NEW u \in Thread, pc'[u] = "write", call'[u].ap \notin straddled' \cup faulty',
               stream'[call'[u].ap].file \notin {None, Bare}
        PROVE  call'[u].from <= stream'[call'[u].ap].file
    <3>1. u # t /\ pc[u] = "write" /\ call'[u] = call[u]
      BY <2>2, <2>7
    <3>2. call[u].ap \in Ids \ {a}
      BY <1>m, <2>3, <3>1
    <3>. QED
      BY <1>1, <2>1, <2>2, <2>7, <3>1, <3>2
  <2>8. Lines
    <3>. HIDE DEF Lines
    <3>. QED
      BY <1>2, <2>1
  <2>. QED
    BY <2>5, <2>6, <2>7, <2>8
<1>8. ASSUME NEW a \in Ids, NEW s \in Stream, NEW name \in FileName, NEW ok \in BOOLEAN,
             OpenStream(a, s, name, ok), straddled' = straddled
      PROVE  /\ Lines
             /\ a \notin faulty' => ok
             /\ stream'[a].file \in {s.file, name}
             /\ s.file = None /\ ok => stream'[a].file = name
             /\ \A b \in Ids \ {a} : stream'[b] = stream[b]
             /\ faulty \subseteq faulty'
  <2>1. /\ stream'[a] = Opened(s, name, ok) /\ \A b \in Ids \ {a} : stream'[b] = stream[b]
        /\ \A n \in exists : files'[n] = files[n]
        /\ \A n \in exists' \ exists : files'[n] = <<>>
        /\ ok => faulty' = faulty
        /\ ~ok => faulty' = faulty \cup {a}
    BY <1>8, OpenDoes
  <2>2. /\ stream'[a].file \in {s.file, name}
        /\ s.file = None /\ ok => stream'[a].file = name
    BY <2>1, OpenedIs
  <2>3. ASSUME NEW n \in exists' \ {Bare}, NEW i \in DOMAIN files'[n],
               files'[n][i].by \notin straddled' \cup faulty'
        PROVE  files'[n][i].from <= n /\ n <= files'[n][i].to
    <3>1. n \in exists
      <4>1. DOMAIN <<>> = {}
        OBVIOUS
      <4>. QED
        BY <2>1, <2>3, <4>1
    <3>2. files'[n] = files[n] /\ faulty \subseteq faulty'
      BY <2>1, <3>1
    <3>. QED
      BY <1>1, <1>8, <2>3, <3>1, <3>2
  <2>. QED
    BY <2>1, <2>2, <2>3
<1>9. ASSUME NEW t \in Thread, NEW ok \in BOOLEAN, OpenFile(t, ok)
      PROVE  Named /\ Opens /\ Writes /\ Lines
  <2>0. PICK a, name, s : a = call[t].ap /\ name = call[t].file /\ s = stream[a]
    OBVIOUS
  <2>1. /\ name \in FileName /\ a \in Ids /\ s \in Stream /\ pc[t] = "open"
        /\ OpenStream(a, s, name, ok)
        /\ call' = call /\ pc'[t] # "open" /\ \A u \in Thread \ {t} : pc'[u] = pc[u]
    BY <1>9, <2>0, OpenFileDoes DEF FileName
  <2>2. straddled' = straddled /\ m_lastRotateTime' = m_lastRotateTime
    BY <1>9 DEF OpenFile
  <2>3. /\ Lines
        /\ a \notin faulty' => ok
        /\ s.file = None /\ ok => stream'[a].file = name
        /\ \A b \in Ids \ {a} : stream'[b] = stream[b]
        /\ faulty \subseteq faulty'
    <3>. HIDE DEF Lines
    <3>. QED
      BY <1>8, <2>1, <2>2
  <2>4. ASSUME a \notin faulty' PROVE stream'[a].file = name
    <3>1. Opening(a)
      BY <2>0, <2>1 DEF Opening
    <3>2. s.file = None
      BY <2>0, <2>1, <2>3, <2>4, <3>1 DEF StreamsWhole
    <3>. QED
      BY <2>3, <2>4, <3>2
  <2>5. name = m_lastRotateTime[a] /\ call[t].from <= name
    BY <1>1, <2>0, <2>1
  <2>6. \A u \in Thread \ {t} : call[u].ap # a
    BY <2>0, <2>1, Alone
  <2>7. Named
    BY <1>1, <2>2, <2>3, <2>4, <2>5
  <2>8. Opens
    BY <1>1, <2>1, <2>2
  <2>9. ASSUME NEW u \in Thread, pc'[u] = "write", call'[u].ap \notin straddled' \cup faulty',
               stream'[call'[u].ap].file \notin {None, Bare}
        PROVE  call'[u].from <= stream'[call'[u].ap].file
    <3>1. CASE u = t
      BY <2>0, <2>1, <2>4, <2>5, <2>9, <3>1
    <3>2. CASE u # t
      <4>1. call[u].ap \in Ids \ {a} /\ pc[u] = "write"
        BY <1>m, <2>1, <2>6, <2>9, <3>2
      <4>. QED
        BY <1>1, <2>1, <2>2, <2>3, <2>9, <3>2, <4>1
    <3>. QED
      BY <3>1, <3>2
  <2>. QED
    BY <2>3, <2>7, <2>8, <2>9
<1>10. ASSUME NEW a \in Ids, NEW ok \in BOOLEAN, Reopen(a, ok)
       PROVE  Named /\ Opens /\ Writes /\ Lines
  <2>. DEFINE s == CloseIfGood(stream[a])
  <2>1. /\ OpenStream(a, s, Bare, ok) /\ Bare \in FileName /\ AppenderFree(a)
        /\ pc' = pc /\ call' = call /\ m_lastRotateTime' = m_lastRotateTime
        /\ straddled' = straddled
    BY <1>10 DEF Reopen, FileName
  <2>2. s \in Stream /\ s.file \in {None, stream[a].file}
    BY <1>0, CloseDoes
  <2>. HIDE DEF s
  <2>3. /\ Lines
        /\ stream'[a].file \in {s.file, Bare}
        /\ \A b \in Ids \ {a} : stream'[b] = stream[b]
        /\ faulty \subseteq faulty'
    <3>. HIDE DEF Lines
    <3>. QED
      BY <1>8, <2>1, <2>2
  <2>4. Named
    BY <1>1, <2>1, <2>2, <2>3
  <2>5. Opens
    BY <1>1, <2>1
  <2>6. ASSUME NEW u \in Thread, pc'[u] = "write", call'[u].ap \notin straddled' \cup faulty',
               stream'[call'[u].ap].file \notin {None, Bare}
        PROVE  call'[u].from <= stream'[call'[u].ap].file
    <3>1. call[u].ap \in Ids \ {a}
      BY <1>m, <2>1, <2>6 DEF AppenderFree
    <3>. QED
      BY <1>1, <2>1, <2>3, <2>6, <3>1
  <2>. QED
    BY <2>3, <2>4, <2>5, <2>6
<1>11. ASSUME Midnight PROVE Named /\ Opens /\ Writes /\ Lines
  <2>1. UNCHANGED <<files, stream, m_lastRotateTime, straddled, faulty, pc, call>>
    BY <1>11 DEF Midnight, ap_vars, history_vars
  <2>2. Named /\ Opens /\ Writes
    BY <1>1, <2>1
  <2>3. Lines
    <3>. HIDE DEF Lines
    <3>. QED
      BY <1>2, <2>1
  <2>. QED
    BY <2>2, <2>3
<1>. HIDE DEF Named, Opens, Writes, Lines
<1>. QED
  BY <1>4, <1>5, <1>6, <1>7, <1>9, <1>10, <1>11 DEF Next, Step, Plain

LEMMA EventsStep ==
    ASSUME TypeOK, CallShape, CallsApart, StreamsWhole, NamesUsed, EventsInOrder, Next
    PROVE  EventsInOrder'
<1>. DEFINE Ordered == \A a \in Ids : \A i \in 1 .. Len(got'[a]) :
                          /\ got'[a][i] <= events'
                          /\ \A j \in 1 .. Len(got'[a]) : i < j => got'[a][i] < got'[a][j]
            Present == \A t \in Thread : call'[t].event # 0 =>
                          /\ pc'[t] # "next" =>
                                got'[call'[t].ap] # <<>> /\ Last(got'[call'[t].ap]) = events'
                          /\ \A k \in 1 .. Len(m_appenders') :
                                (k > call'[t].k \/ (k = call'[t].k /\ pc'[t] = "next")) =>
                                    \A i \in 1 .. Len(got'[m_appenders'[k]]) :
                                        got'[m_appenders'[k]][i] < events'
<1>. SUFFICES Ordered /\ Present
  BY DEF EventsInOrder
<1>0. /\ got \in [Ids -> Seq(Event)] /\ events \in Nat /\ call \in [Thread -> Call]
      /\ pc \in [Thread -> Label] /\ m_appenders \in Seq(Ids)
      /\ \A a \in Ids : \A i \in 1 .. Len(got[a]) : got[a][i] \in Nat
  <2>1. MaxEvent \in Nat
    BY BoundAssumption
  <2>2. got \in [Ids -> Seq(Event)] /\ events \in 0 .. MaxEvent
    BY DEF TypeOK
  <2>3. \A a \in Ids : \A i \in 1 .. Len(got[a]) : got[a][i] \in Event
    BY <2>2
  <2>4. \A e \in Event : e \in Nat
    BY <2>1 DEF Event
  <2>. QED
    BY <2>1, <2>2, <2>3, <2>4 DEF TypeOK, Label
<1>1. /\ \A a \in Ids : \A i \in 1 .. Len(got[a]) :
            /\ got[a][i] <= events
            /\ \A j \in 1 .. Len(got[a]) : i < j => got[a][i] < got[a][j]
      /\ \A t \in Thread : call[t].event # 0 =>
            /\ pc[t] # "next" => got[call[t].ap] # <<>> /\ Last(got[call[t].ap]) = events
            /\ \A k \in 1 .. Len(m_appenders) :
                  (k > call[t].k \/ (k = call[t].k /\ pc[t] = "next")) =>
                      \A i \in 1 .. Len(got[m_appenders[k]]) : got[m_appenders[k]][i] < events
  BY DEF EventsInOrder
<1>2. ASSUME got' = got, events' = events, m_appenders' = m_appenders,
             \A u \in Thread : call'[u].event # 0 =>
                 /\ call[u].event # 0
                 /\ pc'[u] # "next" => /\ pc[u] # "next" /\ call'[u].ap = call[u].ap
                                       /\ call'[u].k = call[u].k
                 /\ pc'[u] = "next" => \/ pc[u] = "next" /\ call'[u].k = call[u].k
                                       \/ call'[u].k = call[u].k + 1
      PROVE  Ordered /\ Present
  <2>1. Ordered
    BY <1>1, <1>2
  <2>2. ASSUME NEW u \in Thread, call'[u].event # 0
        PROVE  /\ pc'[u] # "next" =>
                      got'[call'[u].ap] # <<>> /\ Last(got'[call'[u].ap]) = events'
               /\ \A k \in 1 .. Len(m_appenders') :
                      (k > call'[u].k \/ (k = call'[u].k /\ pc'[u] = "next")) =>
                          k > call[u].k \/ (k = call[u].k /\ pc[u] = "next")
    <3>1. CASE pc'[u] # "next"
      BY <1>1, <1>2, <2>2, <3>1
    <3>2. CASE pc'[u] = "next" /\ pc[u] = "next" /\ call'[u].k = call[u].k
      BY <3>2
    <3>3. CASE pc'[u] = "next" /\ call'[u].k = call[u].k + 1
      <4>1. call[u].k \in Int /\ call[u].event # 0
        BY <1>0, <1>2, <2>2, BoundAssumption DEF Call
      <4>2. \A k \in 1 .. Len(m_appenders) : k \in Int
        OBVIOUS
      <4>. QED
        BY <1>2, <3>3, <4>1, <4>2
    <3>. QED
      BY <1>2, <2>2, <3>1, <3>2, <3>3
  <2>3. ASSUME NEW u \in Thread, call'[u].event # 0, NEW k \in 1 .. Len(m_appenders'),
               k > call'[u].k \/ (k = call'[u].k /\ pc'[u] = "next")
        PROVE  \A i \in 1 .. Len(got'[m_appenders'[k]]) : got'[m_appenders'[k]][i] < events'
    <3>1. call[u].event # 0 /\ (k > call[u].k \/ (k = call[u].k /\ pc[u] = "next"))
      BY <1>2, <2>2, <2>3
    <3>2. k \in 1 .. Len(m_appenders)
      BY <1>2, <2>3
    <3>3. \A i \in 1 .. Len(got[m_appenders[k]]) : got[m_appenders[k]][i] < events
      BY <1>1, <3>1, <3>2
    <3>. QED
      BY <1>2, <3>3
  <2>4. Present
    BY <2>2, <2>3
  <2>. QED
    BY <2>1, <2>4
<1>3. ASSUME got' = got, events' \in {events, events + 1},
             \A u \in Thread : call'[u].event = 0
      PROVE  Ordered /\ Present
  <2>1. Ordered
    BY <1>0, <1>1, <1>3
  <2>2. Present
    BY <1>3
  <2>. QED
    BY <2>1, <2>2
<1>4. ASSUME NEW t \in Thread, InitLogger(t) PROVE Ordered /\ Present
  <2>1. /\ got' = got /\ events' = events /\ m_appenders' = m_appenders
        /\ Goto(t, "pick", [NoCall EXCEPT !.ap = made + 1]) /\ made + 1 \in 0 .. Appender
    BY <1>4, BoundAssumption DEF InitLogger, history_vars, TypeOK
  <2>2. [NoCall EXCEPT !.ap = made + 1].event = 0
    BY DEF NoCall
  <2>3. /\ call'[t].event = 0
        /\ \A u \in Thread \ {t} : pc'[u] = pc[u] /\ call'[u] = call[u]
    BY <1>0, <2>1, <2>2 DEF Goto
  <2>. HIDE DEF Ordered, Present
  <2>. QED
    BY <1>2, <2>1, <2>3
<1>5. ASSUME NEW t \in Thread, SetRotateTime(t) PROVE Ordered /\ Present
  <2>1. /\ got' = got /\ events' = events /\ m_appenders' = m_appenders
        /\ Goto(t, "add", call[t]) /\ pc[t] = "time"
    BY <1>5 DEF SetRotateTime, count_vars
  <2>2. call[t].event = 0
    BY <2>1, AtWork DEF Makes
  <2>3. /\ call'[t].event = 0
        /\ \A u \in Thread \ {t} : pc'[u] = pc[u] /\ call'[u] = call[u]
    BY <1>0, <2>1, <2>2 DEF Goto
  <2>. HIDE DEF Ordered, Present
  <2>. QED
    BY <1>2, <2>1, <2>3
<1>6. ASSUME NEW t \in Thread, AddAppender(t) PROVE Ordered /\ Present
  <2>1. got' = got /\ events' = events /\ LoggerFree /\ Goto(t, "idle", NoCall)
    BY <1>6 DEF AddAppender, history_vars, count_vars
  <2>2. \A u \in Thread : call'[u].event = 0
    BY <1>0, <2>1, CallsMade DEF Goto, LoggerFree
  <2>. HIDE DEF Ordered, Present
  <2>. QED
    BY <1>3, <2>1, <2>2
<1>7. ASSUME NEW t \in Thread, NEW a \in Ids, DelAppender(t, a) PROVE Ordered /\ Present
  <2>1. got' = got /\ events' = events /\ LoggerFree /\ call' = call
    BY <1>7 DEF DelAppender, history_vars, count_vars
  <2>2. \A u \in Thread : call'[u].event = 0
    BY <2>1 DEF LoggerFree
  <2>. HIDE DEF Ordered, Present
  <2>. QED
    BY <1>3, <2>1, <2>2
<1>8. ASSUME NEW t \in Thread, LogLow(t) PROVE Ordered /\ Present
  <2>1. got' = got /\ events' = events + 1 /\ LoggerFree /\ call' = call
    BY <1>8 DEF LogLow, history_vars
  <2>2. \A u \in Thread : call'[u].event = 0
    BY <2>1 DEF LoggerFree
  <2>. HIDE DEF Ordered, Present
  <2>. QED
    BY <1>3, <2>1, <2>2
<1>9. ASSUME NEW t \in Thread, Log(t) PROVE Ordered /\ Present
  <2>. DEFINE c == [NoCall EXCEPT !.event = events + 1, !.k = 1]
  <2>1. /\ got' = got /\ events' = events + 1 /\ LoggerFree /\ m_appenders' = m_appenders
        /\ Goto(t, "next", c)
    BY <1>9 DEF Log, history_vars
  <2>. HIDE DEF c
  <2>2. pc'[t] = "next" /\ \A u \in Thread \ {t} : call'[u].event = 0
    BY <1>0, <2>1 DEF Goto, LoggerFree
  <2>3. \A a \in Ids : \A i \in 1 .. Len(got[a]) : got[a][i] < events + 1
    BY <1>0, <1>1
  <2>4. \A k \in 1 .. Len(m_appenders) : m_appenders[k] \in Ids
    BY AppendersFit
  <2>5. Ordered
    <3>1. \A a \in Ids : \A i \in 1 .. Len(got[a]) : got[a][i] <= events + 1
      <4>1. \A g \in Nat : g <= events => g <= events + 1
        BY <1>0
      <4>. QED
        BY <1>0, <1>1, <4>1
    <3>. QED
      BY <1>1, <2>1, <3>1
  <2>6. Present
    BY <2>1, <2>2, <2>3, <2>4
  <2>. QED
    BY <2>5, <2>6
<1>10. ASSUME NEW t \in Thread, LogCheck(t) PROVE Ordered /\ Present
  <2>0. PICK a : a = m_appenders[call[t].k]
    OBVIOUS
  <2>1. m_appenders' = m_appenders /\ events' = events
    BY <1>10 DEF LogCheck, count_vars
  <2>2. /\ a \in Ids /\ pc[t] = "next" /\ Logs(t) /\ call[t].event = events
        /\ events \in Event
        /\ pc'[t] # "next" /\ call'[t].ap = a /\ call'[t].k = call[t].k
        /\ \A u \in Thread \ {t} : pc'[u] = pc[u] /\ call'[u] = call[u]
        /\ got'[a] = Append(got[a], events)
        /\ \A b \in Ids \ {a} : got'[b] = got[b]
    BY <1>10, <2>0, CheckDoes
  <2>3. call[t].event # 0 /\ call[t].k \in 1 .. Len(m_appenders)
    BY <2>2, AtWork DEF Logs
  <2>4. \A i \in 1 .. Len(got[a]) : got[a][i] < events
    BY <1>1, <2>0, <2>2, <2>3
  <2>5. PICK s : s = got[a] /\ s \in Seq(Event) /\ got'[a] = Append(s, events)
    BY <1>0, <2>2
  <2>6. /\ Len(Append(s, events)) = Len(s) + 1 /\ Len(s) \in Nat
        /\ \A i \in 1 .. Len(s) : Append(s, events)[i] = s[i]
        /\ Append(s, events)[Len(s) + 1] = events
    BY <2>2, <2>5
  <2>7. PICK r : r = Append(s, events)
    OBVIOUS
  <2>8. ASSUME NEW i \in 1 .. Len(r)
        PROVE  /\ r[i] <= events
               /\ \A j \in 1 .. Len(r) : i < j => r[i] < r[j]
    <3>1. \A j \in 1 .. Len(r) : j \in 1 .. Len(s) \/ j = Len(s) + 1
      BY <2>6, <2>7
    <3>2. \A j \in 1 .. Len(s) : r[j] = s[j] /\ s[j] < events /\ s[j] \in Nat
      BY <1>0, <2>2, <2>4, <2>5, <2>6, <2>7
    <3>3. r[Len(s) + 1] = events
      BY <2>6, <2>7
    <3>4. \A j, k \in 1 .. Len(s) : j < k => s[j] < s[k]
      BY <1>1, <2>2, <2>5
    <3>5. CASE i = Len(s) + 1
      <4>1. \A j \in 1 .. Len(r) : ~(i < j)
        BY <2>6, <2>7, <3>5
      <4>. QED
        BY <1>0, <3>3, <3>5, <4>1
    <3>6. CASE i \in 1 .. Len(s)
      <4>1. r[i] < events /\ r[i] \in Nat
        BY <3>2, <3>6
      <4>2. ASSUME NEW j \in 1 .. Len(r), i < j PROVE r[i] < r[j]
        <5>1. CASE j \in 1 .. Len(s)
          BY <3>2, <3>4, <3>6, <4>2, <5>1
        <5>2. CASE j = Len(s) + 1
          BY <3>3, <4>1, <5>2
        <5>. QED
          BY <3>1, <5>1, <5>2
      <4>. QED
        BY <1>0, <4>1, <4>2
    <3>. QED
      BY <3>1, <3>5, <3>6
  <2>9. Ordered
    <3>1. ASSUME NEW b \in Ids, NEW i \in 1 .. Len(got'[b])
          PROVE  /\ got'[b][i] <= events'
                 /\ \A j \in 1 .. Len(got'[b]) : i < j => got'[b][i] < got'[b][j]
      <4>1. CASE b = a
        BY <2>1, <2>5, <2>7, <2>8, <3>1, <4>1
      <4>2. CASE b # a
        BY <1>1, <2>1, <2>2, <3>1, <4>2
      <4>. QED
        BY <4>1, <4>2
    <3>. QED
      BY <3>1
  <2>10. Append(s, events) # <<>> /\ Last(Append(s, events)) = events
    BY <2>2, <2>5, <2>6 DEF Last
  <2>11. \A u \in Thread \ {t} : call'[u].event = 0
    BY <2>2, <2>3 DEF CallsApart
  <2>12. ASSUME NEW k \in 1 .. Len(m_appenders), k > call[t].k, NEW i \in 1 .. Len(got'[m_appenders[k]])
         PROVE  got'[m_appenders[k]][i] < events
    <3>1. m_appenders[k] \in Ids /\ m_appenders[k] # a
      <4>1. k # call[t].k
        BY <2>3, <2>12
      <4>. QED
        BY <2>0, <2>3, <4>1, AppendersFit
    <3>2. got'[m_appenders[k]] = got[m_appenders[k]]
      BY <2>2, <3>1
    <3>. QED
      BY <1>1, <2>3, <2>12, <3>2
  <2>13. Present
    BY <2>1, <2>2, <2>5, <2>10, <2>11, <2>12
  <2>. QED
    BY <2>9, <2>13
<1>11. ASSUME NEW t \in Thread, PickFile(t) PROVE Ordered /\ Present
  <2>1. /\ got' = got /\ events' = events /\ m_appenders' = m_appenders
    BY <1>11 DEF PickFile, count_vars, history_vars
  <2>2. /\ pc[t] = "pick" /\ pc'[t] = "open"
        /\ call'[t].event = call[t].event /\ call'[t].ap = call[t].ap /\ call'[t].k = call[t].k
        /\ \A u \in Thread \ {t} : pc'[u] = pc[u] /\ call'[u] = call[u]
    BY <1>11, PickDoes
  <2>. HIDE DEF Ordered, Present
  <2>. QED
    BY <1>2, <2>1, <2>2
<1>12. ASSUME NEW t \in Thread, NEW ok \in BOOLEAN, OpenFile(t, ok) PROVE Ordered /\ Present
  <2>1. /\ got' = got /\ events' = events /\ m_appenders' = m_appenders
    BY <1>12 DEF OpenFile, count_vars
  <2>2. /\ pc[t] = "open" /\ pc'[t] # "next" /\ call' = call
        /\ \A u \in Thread \ {t} : pc'[u] = pc[u]
    BY <1>12, OpenFileDoes
  <2>. HIDE DEF Ordered, Present
  <2>. QED
    BY <1>2, <2>1, <2>2
<1>13. ASSUME NEW t \in Thread, LogStuck(t) PROVE Ordered /\ Present
  <2>1. /\ got' = got /\ events' = events /\ m_appenders' = m_appenders
        /\ pc[t] = "write" /\ Goto(t, "stuck", call[t])
    BY <1>13 DEF LogStuck, count_vars, history_vars
  <2>2. /\ pc'[t] = "stuck" /\ call'[t] = call[t]
        /\ \A u \in Thread \ {t} : pc'[u] = pc[u] /\ call'[u] = call[u]
    BY <1>0, <2>1 DEF Goto
  <2>. HIDE DEF Ordered, Present
  <2>. QED
    BY <1>2, <2>1, <2>2
<1>14. ASSUME NEW t \in Thread, LogWrite(t) \/ LogWriteFails(t) PROVE Ordered /\ Present
  <2>1. /\ got' = got /\ events' = events /\ m_appenders' = m_appenders
        /\ pc[t] = "write" /\ LogNext(t)
    BY <1>14 DEF LogWrite, LogWriteFails, count_vars, history_vars
  <2>2. call[t].event # 0 /\ call[t].k \in 1 .. Len(m_appenders)
    BY <2>1, AtWork DEF Logs
  <2>3. /\ \A u \in Thread \ {t} : pc'[u] = pc[u] /\ call'[u] = call[u]
        /\ \/ call'[t] = NoCall
           \/ pc'[t] = "next" /\ call'[t].k = call[t].k + 1
    BY <2>1, <2>2, LogNextDoes
  <2>5. \/ call'[t].event = 0
        \/ pc'[t] = "next" /\ call'[t].k = call[t].k + 1
    BY <2>3, CallsMade
  <2>. HIDE DEF Ordered, Present
  <2>. QED
    BY <1>2, <2>1, <2>2, <2>3, <2>5
<1>15. ASSUME (\E a \in Ids, ok \in BOOLEAN : Reopen(a, ok)) \/ Midnight PROVE Ordered /\ Present
  <2>1. UNCHANGED <<got, events, m_appenders, pc, call>>
    BY <1>15 DEF Reopen, Midnight, count_vars, history_vars
  <2>. HIDE DEF Ordered, Present
  <2>. QED
    BY <1>2, <2>1
<1>. HIDE DEF Ordered, Present
<1>. QED
  BY <1>4, <1>5, <1>6, <1>7, <1>8, <1>9, <1>10, <1>11, <1>12, <1>13, <1>14, <1>15 DEF Next, Step

(* New files are empty: the lines of every appender stay as they are.      *)
LEMMA LinesStay ==
    ASSUME \A n \in exists : n \in exists' /\ files'[n] = files[n],
           \A n \in exists' \ exists : files'[n] = <<>>,
           NEW a
    PROVE  /\ \A n \in exists : OwnLines(a, n)' = OwnLines(a, n) /\ EventsIn(a, n)' = EventsIn(a, n)
           /\ \A n \in exists' \ exists : OwnLines(a, n)' = {} /\ EventsIn(a, n)' = {}
<1>1. \A n \in exists : OwnLines(a, n)' = OwnLines(a, n) /\ EventsIn(a, n)' = EventsIn(a, n)
  BY DEF OwnLines, EventsIn
<1>2. DOMAIN <<>> = {}
  OBVIOUS
<1>3. \A n \in exists' \ exists : OwnLines(a, n)' = {} /\ EventsIn(a, n)' = {}
  BY <1>2 DEF OwnLines, EventsIn
<1>. QED
  BY <1>1, <1>3

(* A line more of one appender: the lines of the others stay, and those in *)
(* other files.                                                            *)
LEMMA LineOfAnother ==
    ASSUME NEW n \in exists, NEW l \in Line, NEW a, l.by = a, files[n] \in Seq(Line),
           files'[n] = Append(files[n], l), \A m \in exists \ {n} : files'[m] = files[m]
    PROVE  \A b, m : (b # a /\ m \in exists) \/ m \in exists \ {n} =>
              /\ OwnLines(b, m)' = OwnLines(b, m) /\ EventsIn(b, m)' = EventsIn(b, m)
              /\ \A i \in OwnLines(b, m) : files'[m][i] = files[m][i]
<1>1. ASSUME NEW b, NEW m \in exists \ {n}
      PROVE  /\ OwnLines(b, m)' = OwnLines(b, m) /\ EventsIn(b, m)' = EventsIn(b, m)
             /\ \A i \in OwnLines(b, m) : files'[m][i] = files[m][i]
  BY DEF EventsIn, OwnLines
<1>2. ASSUME NEW b, b # a
      PROVE  /\ OwnLines(b, n)' = OwnLines(b, n) /\ EventsIn(b, n)' = EventsIn(b, n)
             /\ \A i \in OwnLines(b, n) : files'[n][i] = files[n][i]
  <2>. DEFINE z == Len(files[n]) + 1
  <2>1. /\ Len(files[n]) \in Nat /\ DOMAIN files[n] = 1 .. Len(files[n])
        /\ DOMAIN files'[n] = 1 .. z
        /\ \A i \in 1 .. Len(files[n]) : files'[n][i] = files[n][i]
        /\ files'[n][z] = l
    OBVIOUS
  <2>2. 1 .. z = 1 .. Len(files[n]) \cup {z}
    BY <2>1
  <2>. HIDE DEF z
  <2>3. OwnLines(b, n)' = OwnLines(b, n)
    BY <1>2, <2>1, <2>2 DEF OwnLines
  <2>4. \A i \in OwnLines(b, n) : files'[n][i] = files[n][i]
    BY <2>1 DEF OwnLines
  <2>5. EventsIn(b, n)' = EventsIn(b, n)
    BY <2>3, <2>4 DEF EventsIn
  <2>. QED
    BY <2>3, <2>4, <2>5
<1>. QED
  BY <1>1, <1>2

(* Every step but a write leaves the lines that there are.                 *)
LEMMA FilesStay ==
    ASSUME TypeOK, CallShape, NamesUsed, Next, \A t \in Thread : ~LogWrite(t)
    PROVE  /\ \A n \in exists : n \in exists' /\ files'[n] = files[n]
           /\ \A n \in exists' \ exists : files'[n] = <<>>
<1>1. ASSUME NEW a \in Ids, NEW s \in Stream, NEW name \in FileName, NEW ok \in BOOLEAN,
             OpenStream(a, s, name, ok)
      PROVE  /\ \A n \in exists : n \in exists' /\ files'[n] = files[n]
             /\ \A n \in exists' \ exists : files'[n] = <<>>
  BY <1>1, OpenDoes
<1>2. ASSUME NEW t \in Thread, NEW ok \in BOOLEAN, OpenFile(t, ok)
      PROVE  \E a \in Ids, s \in Stream, name \in FileName : OpenStream(a, s, name, ok)
  BY <1>2, OpenFileDoes DEF FileName
<1>3. ASSUME NEW a \in Ids, NEW ok \in BOOLEAN, Reopen(a, ok)
      PROVE  \E s \in Stream, name \in FileName : OpenStream(a, s, name, ok)
  <2>1. stream[a] \in Stream /\ Bare \in FileName
    BY DEF TypeOK, FileName
  <2>2. CloseIfGood(stream[a]) \in Stream
    BY <2>1, CloseDoes
  <2>3. OpenStream(a, CloseIfGood(stream[a]), Bare, ok)
    BY <1>3 DEF Reopen
  <2>. QED
    BY <2>1, <2>2, <2>3
<1>4. CASE files' = files
  <2>1. exists' = exists
    BY <1>4 DEF exists
  <2>. QED
    BY <1>4, <2>1
<1>5. CASE files' # files
  <2>1. \/ \E t \in Thread, ok \in BOOLEAN : OpenFile(t, ok)
        \/ \E a \in Ids, ok \in BOOLEAN : Reopen(a, ok)
    BY <1>5 DEF Next, Step, InitLogger, SetRotateTime, AddAppender, DelAppender, Log, LogLow,
                LogCheck, LogStuck, LogWriteFails, PickFile, Midnight
  <2>. QED
    BY <1>1, <1>2, <1>3, <2>1
<1>. QED
  BY <1>4, <1>5

(* A line that is written.                                                 *)
LEMMA GoodWrite ==
    ASSUME TypeOK, CallShape, CallsApart, StreamsWhole, NEW t \in Thread, LogWrite(t),
           NEW a, a = call[t].ap, ~stream[a].fail
    PROVE  \E n \in exists, l \in Line :
              /\ n = stream[a].file /\ n # None /\ l.by = a /\ l.event = events /\ events \in Event
              /\ files[n] \in Seq(Line)
              /\ files'[n] = Append(files[n], l)
              /\ \A m \in exists \ {n} : files'[m] = files[m]
<1>1. /\ a \in Ids /\ pc[t] = "write" /\ stream[a].file \in exists /\ stream[a].file # None
      /\ call[t].event = events /\ events \in Event
  BY WriteDoes
<1>. QED
  BY <1>1, LineWritten

LEMMA ForwardStep ==
    ASSUME TypeOK, CallShape, CallsApart, StreamsWhole, NamesUsed, FilesForward, Next
    PROVE  FilesForward'
<1>. DEFINE Forward(a) == \A n \in exists' :
                EventsIn(a, n)' # {} =>
                    /\ stream'[a].file # None => n <= stream'[a].file
                    /\ \A u \in Thread : pc'[u] = "open" /\ call'[u].ap = a => n <= call'[u].file
<1>. SUFFICES ASSUME NEW a \in Ids, a \notin faulty', a \notin reopened' PROVE Forward(a)
  BY DEF FilesForward
<1>0. /\ stream \in [Ids -> Stream] /\ exists \subseteq FileName /\ day \in 0 .. MaxDay
      /\ rotate \in {"size", "time"}
  BY DEF TypeOK
<1>a. faulty \subseteq faulty' /\ reopened \subseteq reopened'
  BY DEF Next, Step, InitLogger, SetRotateTime, AddAppender, DelAppender, Log, LogLow, LogCheck,
         LogStuck, LogWrite, LogWriteFails, PickFile, OpenFile, Reopen, Midnight, OpenStream,
         history_vars
<1>1. \A n \in exists : EventsIn(a, n) # {} =>
         /\ stream[a].file # None => n <= stream[a].file
         /\ \A u \in Thread : pc[u] = "open" /\ call[u].ap = a => n <= call[u].file
  BY <1>a DEF FilesForward
<1>2. ASSUME \A t \in Thread : ~LogWrite(t)
      PROVE  \A n \in exists' : EventsIn(a, n)' # {} => n \in exists /\ EventsIn(a, n) # {}
  <2>1. /\ \A n \in exists : n \in exists' /\ files'[n] = files[n]
        /\ \A n \in exists' \ exists : files'[n] = <<>>
    BY <1>2, FilesStay
  <2>. QED
    BY <2>1, LinesStay
<1>3. ASSUME NEW t \in Thread, Plain(t) PROVE Forward(a)
  <2>1. \A u \in Thread : pc'[u] = "open" => pc[u] = "open" /\ call'[u] = call[u]
    BY <1>3, OpeningStays
  <2>2. stream'[a].file \in {None, stream[a].file}
    <3>1. CASE stream' = stream
      BY <3>1
    <3>2. ASSUME NEW b \in Ids, DelAppender(t, b) PROVE stream'[a].file \in {None, stream[a].file}
      BY <1>0, <3>2 DEF DelAppender
    <3>3. CASE LogWriteFails(t)
      <4>1. PICK b : stream' = [stream EXCEPT ![b].fail = TRUE]
        BY <3>3 DEF LogWriteFails
      <4>. QED
        BY <1>0, <4>1 DEF Stream
    <3>4. \/ stream' = stream \/ LogWriteFails(t)
          \/ \E b \in Ids : DelAppender(t, b)
      BY <1>3 DEF Plain, InitLogger, SetRotateTime, AddAppender, Log, LogLow, LogCheck, LogStuck,
                  LogWrite, ap_vars
    <3>. QED
      BY <3>1, <3>2, <3>3, <3>4
  <2>3. CASE \A u \in Thread : ~LogWrite(u)
    BY <1>1, <1>2, <2>1, <2>2, <2>3
  <2>4. ASSUME NEW u \in Thread, LogWrite(u) PROVE Forward(a)
    <3>0. PICK b : b = call[u].ap
      OBVIOUS
    <3>1. stream' = stream /\ exists' = exists
      BY <2>4, WriteDoes DEF LogWrite
    <3>2. b \in Ids /\ pc[u] = "write" /\ (\A v \in Thread : pc[v] = "open" => call[v].ap # b)
      BY <2>4, <3>0, WriteDoes
    <3>3. CASE stream[b].fail
      <4>1. files' = files
        BY <2>4, <3>0, <3>3 DEF LogWrite
      <4>2. \A n \in exists : EventsIn(a, n)' = EventsIn(a, n)
        BY <3>1, <4>1, LinesStay
      <4>. QED
        BY <1>1, <2>1, <3>1, <4>2
    <3>4. CASE ~stream[b].fail
      <4>1. PICK n \in exists, l \in Line :
               /\ n = stream[b].file /\ l.by = b
               /\ files[n] \in Seq(Line)
               /\ files'[n] = Append(files[n], l)
               /\ \A m \in exists \ {n} : files'[m] = files[m]
        BY <2>4, <3>0, <3>4, GoodWrite
      <4>2. /\ \A m \in exists \ {n} : EventsIn(b, m)' = EventsIn(b, m)
            /\ \A c \in Ids \ {b}, m \in exists : EventsIn(c, m)' = EventsIn(c, m)
        BY <4>1, LineOfAnother
      <4>3. CASE a # b
        BY <1>1, <2>1, <3>1, <4>2, <4>3
      <4>4. CASE a = b
        <5>1. n <= n
          BY <1>0, <4>1 DEF FileName, Bare
        <5>2. ASSUME NEW m \in exists, EventsIn(a, m)' # {}, stream[a].file # None
              PROVE  m <= stream[a].file
          BY <1>1, <4>1, <4>2, <4>4, <5>1, <5>2
        <5>. QED
          BY <2>1, <3>1, <3>2, <4>4, <5>2
      <4>. QED
        BY <4>3, <4>4
    <3>. QED
      BY <3>3, <3>4
  <2>. QED
    BY <2>3, <2>4
<1>4. ASSUME NEW t \in Thread, PickFile(t) PROVE Forward(a)
  <2>0. PICK b, name : b = call[t].ap /\ name = call'[t].file
    OBVIOUS
  <2>1. /\ b \in Ids /\ pc[t] = "pick" /\ pc'[t] = "open" /\ call'[t].ap = b
        /\ rotate = "time" => name = day
        /\ rotate = "size" => name \in 0 .. Cardinality(exists) /\ exists \ {Bare} = 0 .. name - 1
        /\ \A u \in Thread \ {t} : pc'[u] = pc[u] /\ call'[u] = call[u]
        /\ stream'[b] = CloseIfGood(stream[b]) /\ \A c \in Ids \ {b} : stream'[c] = stream[c]
    BY <1>4, <2>0, PickDoes
  <2>2. \A n \in exists' : EventsIn(a, n)' # {} => n \in exists /\ EventsIn(a, n) # {}
    <3>1. files' = files /\ exists' = exists
      BY <1>4 DEF PickFile, exists
    <3>. QED
      BY <3>1 DEF EventsIn, OwnLines
  <2>3. stream'[a].file \in {None, stream[a].file}
    <3>1. stream[b] \in Stream
      BY <1>0, <2>1
    <3>2. stream'[b].file \in {None, stream[b].file}
      BY <2>1, <3>1, CloseDoes
    <3>. QED
      BY <2>1, <3>2
  <2>4. \A n \in exists : n <= name
    <3>1. CASE rotate = "time"
      BY <2>1, <3>1 DEF NamesUsed
    <3>2. CASE rotate = "size"
      <4>0. Cardinality(exists) \in Nat
        BY FS_CardinalityType DEF TypeOK
      <4>1. name \in Nat /\ exists \ {Bare} = 0 .. name - 1
        BY <2>1, <3>2, <4>0
      <4>2. Bare <= name
        BY <4>1 DEF Bare
      <4>. QED
        BY <4>1, <4>2
    <3>. QED
      BY <1>0, <3>1, <3>2
  <2>5. ASSUME NEW n \in exists', EventsIn(a, n)' # {},
               NEW u \in Thread, pc'[u] = "open", call'[u].ap = a
        PROVE  n <= call'[u].file
    BY <1>1, <2>0, <2>1, <2>2, <2>4, <2>5
  <2>. QED
    BY <1>1, <2>2, <2>3, <2>5
<1>5. ASSUME NEW t \in Thread, NEW ok \in BOOLEAN, OpenFile(t, ok) PROVE Forward(a)
  <2>0. PICK b, name, s : b = call[t].ap /\ name = call[t].file /\ s = stream[b]
    OBVIOUS
  <2>1. /\ name \in FileName /\ b \in Ids /\ s \in Stream /\ pc[t] = "open"
        /\ OpenStream(b, s, name, ok)
        /\ call' = call /\ pc'[t] # "open" /\ \A u \in Thread \ {t} : pc'[u] = pc[u]
    BY <1>5, <2>0, OpenFileDoes DEF FileName
  <2>2. \A n \in exists' : EventsIn(a, n)' # {} => n \in exists /\ EventsIn(a, n) # {}
    <3>1. /\ \A n \in exists : n \in exists' /\ files'[n] = files[n]
          /\ \A n \in exists' \ exists : files'[n] = <<>>
      BY <2>1, OpenDoes
    <3>. QED
      BY <3>1, LinesStay
  <2>3. /\ stream'[b] = Opened(s, name, ok) /\ \A c \in Ids \ {b} : stream'[c] = stream[c]
    BY <2>1, OpenDoes
  <2>4. CASE a = b
    <3>1. stream'[b].file \in {s.file, name}
      BY <2>1, <2>3, OpenedIs
    <3>2. \A n \in exists : EventsIn(a, n) # {} =>
             n <= name /\ (stream[a].file # None => n <= stream[a].file)
      BY <1>1, <2>0, <2>1, <2>4
    <3>. QED
      BY <1>1, <2>0, <2>1, <2>2, <2>4, <3>1, <3>2
  <2>5. CASE a # b
    BY <1>1, <2>1, <2>2, <2>3, <2>5
  <2>. QED
    BY <2>4, <2>5
<1>6. ASSUME NEW b \in Ids, NEW ok \in BOOLEAN, Reopen(b, ok) PROVE Forward(a)
  <2>1. /\ a # b /\ pc' = pc /\ call' = call
    BY <1>6 DEF Reopen
  <2>2. stream' = [stream EXCEPT ![b] = Opened(CloseIfGood(stream[b]), Bare, ok)]
    BY <1>6 DEF Reopen, OpenStream
  <2>3. stream'[a] = stream[a]
    BY <1>0, <2>1, <2>2
  <2>4. \A n \in exists' : EventsIn(a, n)' # {} => n \in exists /\ EventsIn(a, n) # {}
    <3>0. stream[b] \in Stream /\ Bare \in FileName
      BY <1>0 DEF FileName
    <3>1. CloseIfGood(stream[b]) \in Stream /\ OpenStream(b, CloseIfGood(stream[b]), Bare, ok)
      BY <1>6, <3>0, CloseDoes DEF Reopen
    <3>2. /\ \A n \in exists : n \in exists' /\ files'[n] = files[n]
          /\ \A n \in exists' \ exists : files'[n] = <<>>
      BY <3>0, <3>1, OpenDoes
    <3>. QED
      BY <3>2, LinesStay
  <2>. QED
    BY <1>1, <2>1, <2>3, <2>4
<1>7. ASSUME Midnight PROVE Forward(a)
  <2>1. UNCHANGED <<files, exists, stream, pc, call>>
    BY <1>7 DEF Midnight, ap_vars, exists
  <2>. QED
    BY <1>1, <2>1 DEF EventsIn, OwnLines
<1>. HIDE DEF Forward
<1>. QED
  BY <1>3, <1>4, <1>5, <1>6, <1>7 DEF Next, Step, Plain

(* The events of a sequence without the last.                              *)
LEMMA FrontAndLast ==
    ASSUME NEW S, NEW s \in Seq(S)
    PROVE  /\ \A e \in S : Front(Append(s, e)) = s
           /\ s # <<>> => /\ ToSet(s) = ToSet(Front(s)) \cup {Last(s)}
                          /\ Front(s) \in Seq(S) /\ Len(Front(s)) = Len(s) - 1
                          /\ \A i \in 1 .. Len(s) - 1 : Front(s)[i] = s[i]
<1>1. \A e \in S : Front(Append(s, e)) = s
  BY DEF Front
<1>2. ASSUME s # <<>>
      PROVE  \E f \in Seq(S), e \in S :
                /\ f = Front(s) /\ e = Last(s) /\ s = Append(f, e) /\ Len(f) = Len(s) - 1
                /\ \A i \in 1 .. Len(s) - 1 : f[i] = s[i]
  <2>1. Len(s) \in Nat \ {0} /\ DOMAIN s = 1 .. Len(s)
    BY <1>2
  <2>2. PICK n \in Nat : Len(s) = n + 1
    <3>1. Len(s) - 1 \in Nat /\ Len(s) = (Len(s) - 1) + 1
      BY <2>1
    <3>. QED
      BY <3>1
  <2>3. PICK f, e : f = Front(s) /\ e = Last(s)
    OBVIOUS
  <2>4. f = SubSeq(s, 1, n) /\ e = s[n + 1]
    BY <2>2, <2>3 DEF Front, Last
  <2>5. f \in Seq(S) /\ Len(f) = n /\ \A i \in 1 .. n : f[i] = s[i]
    BY <2>2, <2>4
  <2>6. e \in S
    BY <2>2, <2>4
  <2>7. s = Append(f, e)
    <3>1. Append(f, e) \in Seq(S) /\ Len(Append(f, e)) = n + 1
      BY <2>5, <2>6
    <3>2. \A i \in 1 .. n + 1 : Append(f, e)[i] = s[i]
      BY <2>2, <2>4, <2>5, <2>6
    <3>. QED
      BY <2>2, <3>1, <3>2
  <2>. QED
    BY <2>2, <2>3, <2>5, <2>6, <2>7
<1>3. ASSUME s # <<>>
      PROVE  /\ ToSet(s) = ToSet(Front(s)) \cup {Last(s)}
             /\ Front(s) \in Seq(S) /\ Len(Front(s)) = Len(s) - 1
             /\ \A i \in 1 .. Len(s) - 1 : Front(s)[i] = s[i]
  <2>1. PICK f \in Seq(S), e \in S :
           /\ f = Front(s) /\ e = Last(s) /\ s = Append(f, e) /\ Len(f) = Len(s) - 1
           /\ \A i \in 1 .. Len(s) - 1 : f[i] = s[i]
    BY <1>2, <1>3
  <2>2. ToSet(Append(f, e)) = ToSet(f) \cup {e}
    BY SetOfAppend
  <2>. QED
    BY <2>1, <2>2
<1>. QED
  BY <1>1, <1>3

(* Who is at a call of log() with an appender changes where the call takes *)
(* the appender and where it leaves it.                                    *)
Busy(a) == \E t \in Thread : call[t].ap = a /\ call[t].event # 0

LEMMA BusyStays ==
    ASSUME TypeOK, CallShape, NamesUsed, Next,
           \A t \in Thread : ~LogCheck(t) /\ ~LogWrite(t) /\ ~LogWriteFails(t), NEW a \in Ids
    PROVE  got' = got /\ (Busy(a)' <=> Busy(a))
<1>0. call \in [Thread -> Call] /\ pc \in [Thread -> Label] /\ a # 0
  BY BoundAssumption DEF TypeOK, Label, Ids
<1>1. got' = got
  BY DEF Next, Step, InitLogger, SetRotateTime, AddAppender, DelAppender, Log, LogLow, LogStuck,
         PickFile, OpenFile, Reopen, Midnight, history_vars
<1>2. ASSUME \A u \in Thread :
                (call'[u].ap = a /\ call'[u].event # 0) <=> (call[u].ap = a /\ call[u].event # 0)
      PROVE  Busy(a)' <=> Busy(a)
  BY <1>2 DEF Busy
<1>3. ASSUME NEW t \in Thread, NEW l, NEW c, Goto(t, l, c),
             (c.ap = a /\ c.event # 0) <=> (call[t].ap = a /\ call[t].event # 0)
      PROVE  Busy(a)' <=> Busy(a)
  <2>1. call'[t] = c /\ \A u \in Thread \ {t} : call'[u] = call[u]
    BY <1>0, <1>3 DEF Goto
  <2>. QED
    BY <1>2, <1>3, <2>1
<1>4. ASSUME NEW t \in Thread, InitLogger(t) PROVE Busy(a)' <=> Busy(a)
  <2>. DEFINE c == [NoCall EXCEPT !.ap = made + 1]
  <2>1. Goto(t, "pick", c) /\ c.event = 0
    BY <1>4 DEF InitLogger, NoCall
  <2>2. call[t].event = 0
    BY <1>4, AtWork, CallsMade DEF InitLogger
  <2>. HIDE DEF c
  <2>. QED
    BY <1>3, <2>1, <2>2
<1>5. ASSUME NEW t \in Thread, SetRotateTime(t) \/ LogStuck(t) PROVE Busy(a)' <=> Busy(a)
  <2>1. \E l : Goto(t, l, call[t])
    BY <1>5 DEF SetRotateTime, LogStuck
  <2>. QED
    BY <1>3, <2>1
<1>6. ASSUME NEW t \in Thread, AddAppender(t) PROVE Busy(a)' <=> Busy(a)
  <2>1. Goto(t, "idle", NoCall) /\ call[t].event = 0
    BY <1>6 DEF AddAppender, LoggerFree
  <2>. QED
    BY <1>3, <2>1, CallsMade
<1>7. ASSUME NEW t \in Thread, Log(t) PROVE Busy(a)' <=> Busy(a)
  <2>. DEFINE c == [NoCall EXCEPT !.event = events + 1, !.k = 1]
  <2>1. Goto(t, "next", c) /\ c.ap = 0 /\ call[t].event = 0
    BY <1>7 DEF Log, LoggerFree, NoCall
  <2>. HIDE DEF c
  <2>. QED
    BY <1>0, <1>3, <2>1
<1>8. ASSUME NEW t \in Thread, PickFile(t) PROVE Busy(a)' <=> Busy(a)
  <2>1. /\ call'[t].event = call[t].event /\ call'[t].ap = call[t].ap
        /\ \A u \in Thread \ {t} : call'[u] = call[u]
    BY <1>8, PickDoes
  <2>. QED
    BY <1>2, <2>1
<1>9. ASSUME NEW t \in Thread, NEW ok \in BOOLEAN, OpenFile(t, ok) PROVE Busy(a)' <=> Busy(a)
  <2>1. call' = call
    BY <1>9, OpenFileDoes
  <2>. QED
    BY <1>2, <2>1
<1>10. ASSUME call' = call PROVE Busy(a)' <=> Busy(a)
  BY <1>2, <1>10
<1>11. \/ \E t \in Thread : \/ InitLogger(t) \/ SetRotateTime(t) \/ LogStuck(t) \/ AddAppender(t)
                            \/ Log(t) \/ PickFile(t) \/ \E ok \in BOOLEAN : OpenFile(t, ok)
       \/ call' = call
  BY DEF Next, Step, DelAppender, LogLow, Reopen, Midnight
<1>. QED
  BY <1>1, <1>4, <1>5, <1>6, <1>7, <1>8, <1>9, <1>10, <1>11

(* What LinesKept says of one appender.                                    *)
KeptOf(a) ==
    /\ \A n \in exists : \A i, j \in OwnLines(a, n) :
          i < j => files[n][i].event < files[n][j].event
    /\ UNION {EventsIn(a, n) : n \in exists} = ToSet(Due(a))
    /\ \A m, n \in exists : m # n => EventsIn(a, m) \cap EventsIn(a, n) = {}
    /\ a \notin reopened => \A m, n \in exists : m < n =>
          \A i \in EventsIn(a, m), j \in EventsIn(a, n) : i < j

(* It stays as it is while the lines of the appender do.                   *)
LEMMA KeptStays ==
    ASSUME NEW a, KeptOf(a), exists \subseteq exists',
           \A n \in exists : /\ OwnLines(a, n)' = OwnLines(a, n)
                             /\ EventsIn(a, n)' = EventsIn(a, n)
                             /\ \A i \in OwnLines(a, n) : files'[n][i] = files[n][i],
           \A n \in exists' \ exists : OwnLines(a, n)' = {} /\ EventsIn(a, n)' = {},
           Due(a)' = Due(a), reopened \subseteq reopened'
    PROVE  KeptOf(a)'
<1>2. \A n \in exists' : \A i, j \in OwnLines(a, n)' :
         i < j => files'[n][i].event < files'[n][j].event
  <2>. SUFFICES ASSUME NEW n \in exists', NEW i \in OwnLines(a, n)', NEW j \in OwnLines(a, n)',
                       i < j
                PROVE  files'[n][i].event < files'[n][j].event
    OBVIOUS
  <2>1. n \in exists
    OBVIOUS
  <2>. QED
    BY <2>1 DEF KeptOf
<1>3. UNION {EventsIn(a, n)' : n \in exists'} = UNION {EventsIn(a, n) : n \in exists}
  OBVIOUS
<1>4. \A m, n \in exists' : m # n => EventsIn(a, m)' \cap EventsIn(a, n)' = {}
  BY DEF KeptOf
<1>5. a \notin reopened' => \A m, n \in exists' : m < n =>
         \A i \in EventsIn(a, m)', j \in EventsIn(a, n)' : i < j
  <2>. SUFFICES ASSUME a \notin reopened', NEW m \in exists', NEW n \in exists', m < n,
                       NEW i \in EventsIn(a, m)', NEW j \in EventsIn(a, n)'
                PROVE  i < j
    OBVIOUS
  <2>1. m \in exists /\ n \in exists
    OBVIOUS
  <2>. QED
    BY <2>1 DEF KeptOf
<1>6. UNION {EventsIn(a, n) : n \in exists} = ToSet(Due(a))
  BY DEF KeptOf
<1>. QED
  BY <1>2, <1>3, <1>4, <1>5, <1>6 DEF KeptOf

(* It stays so when the appender writes the event that it has to write.    *)
LEMMA KeptWrite ==
    ASSUME NEW a, KeptOf(a), got[a] \in Seq(Event), got[a] # <<>>,
           Due(a) = Front(got[a]), Due(a)' = got[a],
           \A i, j \in 1 .. Len(got[a]) : i < j => got[a][i] < got[a][j],
           exists \subseteq FileName, exists' = exists, reopened' = reopened,
           NEW n \in exists, NEW z \in Nat, NEW e \in Nat, e = Last(got[a]),
           OwnLines(a, n)' = OwnLines(a, n) \cup {z}, EventsIn(a, n)' = EventsIn(a, n) \cup {e},
           files'[n][z].event = e,
           \A i \in OwnLines(a, n) : /\ i \in 1 .. z - 1 /\ files'[n][i] = files[n][i]
                                     /\ files[n][i].event \in EventsIn(a, n),
           \A m \in exists \ {n} : /\ files'[m] = files[m]
                                   /\ OwnLines(a, m)' = OwnLines(a, m)
                                   /\ EventsIn(a, m)' = EventsIn(a, m),
           a \notin reopened => \A m \in exists : EventsIn(a, m) # {} => m <= n
    PROVE  KeptOf(a)'
<1>3. ToSet(got[a]) = ToSet(Front(got[a])) \cup {e}
  BY FrontAndLast
<1>4. \A m \in exists : \A d \in EventsIn(a, m) : d < e
  <2>. SUFFICES ASSUME NEW m \in exists, NEW d \in EventsIn(a, m) PROVE d < e
    OBVIOUS
  <2>1. d \in ToSet(Front(got[a]))
    BY DEF KeptOf
  <2>2. PICK s, k : s = got[a] /\ k = Len(s)
    OBVIOUS
  <2>3. /\ Front(s) \in Seq(Event) /\ Len(Front(s)) = k - 1
        /\ \A i \in 1 .. k - 1 : Front(s)[i] = s[i]
    BY <2>2, FrontAndLast
  <2>4. PICK i \in 1 .. k - 1 : Front(s)[i] = d
    BY <2>1, <2>2, <2>3, InSeq
  <2>5. k \in Nat /\ i \in 1 .. k /\ k \in 1 .. k /\ i < k
    BY <2>2, <2>4
  <2>6. s[i] < s[k]
    BY <2>2, <2>5
  <2>. QED
    BY <2>2, <2>3, <2>4, <2>6 DEF Last
<1>y. ~(z < z) /\ \A i \in 1 .. z - 1 : ~(z < i)
  OBVIOUS
<1>5. \A m \in exists : \A i, j \in OwnLines(a, m)' :
         i < j => files'[m][i].event < files'[m][j].event
  <2>. SUFFICES ASSUME NEW m \in exists, NEW i \in OwnLines(a, m)', NEW j \in OwnLines(a, m)',
                       i < j
                PROVE  files'[m][i].event < files'[m][j].event
    OBVIOUS
  <2>1. CASE m # n
    BY <2>1 DEF KeptOf
  <2>2. CASE m = n /\ j # z
    <3>1. j \in OwnLines(a, n) /\ i \in OwnLines(a, n)
      BY <1>y, <2>2
    <3>. QED
      BY <2>2, <3>1 DEF KeptOf
  <2>3. CASE m = n /\ j = z
    <3>1. i \in OwnLines(a, n)
      BY <1>y, <2>3
    <3>. QED
      BY <1>4, <2>3, <3>1
  <2>. QED
    BY <2>1, <2>2, <2>3
<1>6. UNION {EventsIn(a, m)' : m \in exists} = ToSet(got[a])
  <2>1. UNION {EventsIn(a, m) : m \in exists} = ToSet(Front(got[a]))
    BY DEF KeptOf
  <2>2. UNION {EventsIn(a, m)' : m \in exists}
           = (UNION {EventsIn(a, m) : m \in exists}) \cup {e}
    <3>1. ASSUME NEW d
          PROVE  (\E m \in exists : d \in EventsIn(a, m)')
                    <=> d = e \/ (\E m \in exists : d \in EventsIn(a, m))
      OBVIOUS
    <3>2. \A d : d \in UNION {EventsIn(a, m)' : m \in exists}
                    <=> \E m \in exists : d \in EventsIn(a, m)'
      OBVIOUS
    <3>3. \A d : d \in UNION {EventsIn(a, m) : m \in exists}
                    <=> \E m \in exists : d \in EventsIn(a, m)
      OBVIOUS
    <3>. QED
      BY <3>1, <3>2, <3>3
  <2>. QED
    BY <1>3, <2>1, <2>2
<1>7. \A m, k \in exists : m # k => EventsIn(a, m)' \cap EventsIn(a, k)' = {}
  <2>1. \A m \in exists : e \notin EventsIn(a, m)
    <3>2. ~(e < e)
      OBVIOUS
    <3>. QED
      BY <1>4, <3>2
  <2>. QED
    BY <2>1 DEF KeptOf
<1>8. a \notin reopened => \A m, k \in exists : m < k =>
         \A i \in EventsIn(a, m)', j \in EventsIn(a, k)' : i < j
  <2>. SUFFICES ASSUME a \notin reopened, NEW m \in exists, NEW k \in exists, m < k,
                       NEW i \in EventsIn(a, m)', NEW j \in EventsIn(a, k)'
                PROVE  i < j
    OBVIOUS
  <2>1. m \in Int /\ k \in Int
    BY DEF FileName, Bare
  <2>2. CASE k = n
    <3>1. m # n /\ i \in EventsIn(a, m)
      BY <2>1, <2>2
    <3>2. CASE j \in EventsIn(a, n)
      BY <2>2, <3>1, <3>2 DEF KeptOf
    <3>3. CASE j = e
      BY <1>4, <3>1, <3>3
    <3>. QED
      BY <2>2, <3>2, <3>3
  <2>3. CASE k # n
    <3>1. j \in EventsIn(a, k)
      BY <2>3
    <3>2. k <= n
      BY <3>1
    <3>3. m # n
      BY <2>1, <2>3, <3>2
    <3>4. i \in EventsIn(a, m)
      BY <3>3
    <3>. QED
      BY <3>1, <3>4 DEF KeptOf
  <2>. QED
    BY <2>2, <2>3
<1>. QED
  BY <1>5, <1>6, <1>7, <1>8 DEF KeptOf

LEMMA KeptStep ==
    ASSUME TypeOK, CallShape, CallsApart, StreamsWhole, NamesUsed, EventsInOrder, FilesForward,
           LinesKept, Next
    PROVE  LinesKept'
<1>. SUFFICES ASSUME NEW a \in Ids, a \notin faulty' PROVE KeptOf(a)'
  BY DEF LinesKept, KeptOf
<1>a. faulty \subseteq faulty' /\ reopened \subseteq reopened'
  BY DEF Next, Step, InitLogger, SetRotateTime, AddAppender, DelAppender, Log, LogLow, LogCheck,
         LogStuck, LogWrite, LogWriteFails, PickFile, OpenFile, Reopen, Midnight, OpenStream,
         history_vars
<1>0. /\ KeptOf(a) /\ got[a] \in Seq(Event) /\ a # 0 /\ a \notin faulty
      /\ \A e \in Event : e \in Nat
  <2>1. a \notin faulty
    BY <1>a
  <2>2. KeptOf(a)
    BY <2>1 DEF LinesKept, KeptOf
  <2>3. got[a] \in Seq(Event)
    BY DEF TypeOK
  <2>4. a # 0 /\ \A e \in Event : e \in Nat
    BY BoundAssumption DEF Ids, Event
  <2>. QED
    BY <2>1, <2>2, <2>3, <2>4
<1>d. Due(a) = IF Busy(a) THEN Front(got[a]) ELSE got[a]
  BY DEF Due, Busy
<1>e. Due(a)' = IF Busy(a)' THEN Front(got'[a]) ELSE got'[a]
  BY DEF Due, Busy
<1>1. ASSUME \A n \in exists : n \in exists' /\ files'[n] = files[n],
             \A n \in exists' \ exists : files'[n] = <<>>, Due(a)' = Due(a)
      PROVE  KeptOf(a)'
  <2>1. /\ \A n \in exists : OwnLines(a, n)' = OwnLines(a, n) /\ EventsIn(a, n)' = EventsIn(a, n)
        /\ \A n \in exists' \ exists : OwnLines(a, n)' = {} /\ EventsIn(a, n)' = {}
    BY <1>1, LinesStay
  <2>. QED
    BY <1>0, <1>1, <1>a, <2>1, KeptStays
<1>2. CASE \A t \in Thread : ~LogCheck(t) /\ ~LogWrite(t) /\ ~LogWriteFails(t)
  <2>1. got' = got /\ (Busy(a)' <=> Busy(a))
    BY <1>2, BusyStays
  <2>2. Due(a)' = Due(a)
    BY <1>d, <1>e, <2>1
  <2>3. /\ \A n \in exists : n \in exists' /\ files'[n] = files[n]
        /\ \A n \in exists' \ exists : files'[n] = <<>>
    BY <1>2, FilesStay
  <2>. QED
    BY <1>1, <2>2, <2>3
<1>3. ASSUME NEW t \in Thread, LogCheck(t) PROVE KeptOf(a)'
  <2>0. PICK b : b = m_appenders[call[t].k]
    OBVIOUS
  <2>1. /\ b \in Ids /\ pc[t] = "next" /\ call[t].event = events /\ events \in Event
        /\ call'[t].event = events /\ call'[t].ap = b
        /\ \A u \in Thread \ {t} : call'[u] = call[u]
        /\ \A u \in Thread \ {t} : call[u].ap # b
        /\ got'[b] = Append(got[b], events)
        /\ \A c \in Ids \ {b} : got'[c] = got[c]
    BY <1>3, <2>0, CheckDoes
  <2>2. call[t].ap = 0 /\ events # 0
    BY <2>1, AtWork
  <2>3. Due(a)' = Due(a)
    <3>1. CASE a = b
      <4>1. ~Busy(a) /\ Busy(a)'
        BY <1>0, <2>1, <2>2, <3>1 DEF Busy
      <4>2. Front(got'[a]) = got[a]
        <5>1. PICK s \in Seq(Event) : s = got[a] /\ got'[a] = Append(s, events)
          BY <1>0, <2>1, <3>1
        <5>2. Front(Append(s, events)) = s
          BY <2>1, <5>1 DEF Front
        <5>. QED
          BY <5>1, <5>2
      <4>. QED
        BY <1>d, <1>e, <4>1, <4>2
    <3>2. CASE a # b
      <4>1. Busy(a)' <=> Busy(a)
        BY <1>0, <2>1, <2>2, <3>2 DEF Busy
      <4>. QED
        BY <1>d, <1>e, <2>1, <3>2, <4>1
    <3>. QED
      BY <3>1, <3>2
  <2>4. files' = files /\ exists' = exists
    BY <1>3 DEF LogCheck, exists
  <2>. QED
    BY <1>1, <2>3, <2>4
<1>4. ASSUME NEW t \in Thread, LogWrite(t) \/ LogWriteFails(t) PROVE KeptOf(a)'
  <2>0. PICK b : b = call[t].ap
    OBVIOUS
  <2>1. /\ b \in Ids /\ pc[t] = "write" /\ call[t].event \in Event /\ exists' = exists
        /\ call'[t].ap = 0
        /\ \A u \in Thread \ {t} : call'[u] = call[u] /\ call[u].ap # b
    BY <1>4, <2>0, WriteDoes
  <2>2. got' = got /\ reopened' = reopened
    BY <1>4 DEF LogWrite, LogWriteFails, history_vars
  <2>3. call[t].event # 0
    BY <2>1, AtWork
  <2>4. CASE a # b
    <3>1. Busy(a)' <=> Busy(a)
      BY <1>0, <2>0, <2>1, <2>4 DEF Busy
    <3>2. Due(a)' = Due(a)
      BY <1>d, <1>e, <2>2, <3>1
    <3>3. CASE files' = files
      BY <1>1, <2>1, <3>2, <3>3
    <3>4. CASE files' # files
      <4>1. LogWrite(t) /\ ~stream[b].fail
        BY <1>4, <2>0, <3>4 DEF LogWrite, LogWriteFails
      <4>2. PICK n \in exists, l \in Line :
               /\ l.by = b /\ files[n] \in Seq(Line) /\ files'[n] = Append(files[n], l)
               /\ \A m \in exists \ {n} : files'[m] = files[m]
        BY <2>0, <4>1, GoodWrite
      <4>3. \A m \in exists : /\ OwnLines(a, m)' = OwnLines(a, m)
                               /\ EventsIn(a, m)' = EventsIn(a, m)
                               /\ \A i \in OwnLines(a, m) : files'[m][i] = files[m][i]
        BY <2>4, <4>2, LineOfAnother
      <4>. QED
        BY <1>0, <2>1, <2>2, <3>2, <4>3, KeptStays
    <3>. QED
      BY <3>3, <3>4
  <2>5. CASE a = b
    <3>1. LogWrite(t)
      BY <1>4, <2>0, <2>5 DEF LogWriteFails
    <3>2. ~Opening(a)
      BY <2>0, <2>1, <2>5, Alone
    <3>3. ~stream[a].fail
      BY <1>0, <3>2 DEF StreamsWhole
    <3>4. PICK n \in exists, l \in Line :
             /\ n = stream[a].file /\ n # None /\ l.by = a /\ l.event = events
             /\ events \in Event
             /\ files[n] \in Seq(Line) /\ files'[n] = Append(files[n], l)
             /\ \A m \in exists \ {n} : files'[m] = files[m]
      BY <2>0, <2>5, <3>1, <3>3, GoodWrite
    <3>5. PICK z \in Nat : /\ z # 0 /\ DOMAIN files[n] = 1 .. z - 1 /\ DOMAIN files'[n] = 1 .. z
                           /\ \A i \in 1 .. z - 1 : files'[n][i] = files[n][i]
                           /\ files'[n][z] = l
      <4>. DEFINE z == Len(files[n]) + 1
      <4>1. /\ z \in Nat /\ z # 0 /\ DOMAIN files[n] = 1 .. z - 1 /\ DOMAIN files'[n] = 1 .. z
            /\ \A i \in 1 .. z - 1 : files'[n][i] = files[n][i]
            /\ files'[n][z] = l
        BY <3>4
      <4>. HIDE DEF z
      <4>. QED
        BY <4>1
    <3>6. /\ OwnLines(a, n)' = OwnLines(a, n) \cup {z}
          /\ EventsIn(a, n)' = EventsIn(a, n) \cup {events}
          /\ \A i \in OwnLines(a, n) :
                /\ i \in 1 .. z - 1 /\ files'[n][i] = files[n][i]
                /\ files[n][i].event \in EventsIn(a, n)
      <4>1. files'[n][z].by = a /\ files'[n][z].event = events
        BY <3>4, <3>5
      <4>2. 1 .. z = 1 .. z - 1 \cup {z} /\ z \notin 1 .. z - 1
        BY <3>5
      <4>3. OwnLines(a, n)' = OwnLines(a, n) \cup {z}
        BY <3>5, <4>1, <4>2 DEF OwnLines
      <4>4. \A i \in OwnLines(a, n) :
               /\ i \in 1 .. z - 1 /\ files'[n][i] = files[n][i]
               /\ files[n][i].event \in EventsIn(a, n)
        BY <3>5 DEF OwnLines, EventsIn
      <4>5. EventsIn(a, n)' = EventsIn(a, n) \cup {events}
        <5>1. EventsIn(a, n)' = {files'[n][i].event : i \in OwnLines(a, n) \cup {z}}
          BY <4>3 DEF EventsIn
        <5>2. EventsIn(a, n) = {files'[n][i].event : i \in OwnLines(a, n)}
          BY <4>4 DEF EventsIn
        <5>. QED
          BY <4>1, <5>1, <5>2
      <4>. QED
        BY <4>3, <4>4, <4>5
    <3>7. \A m \in exists \ {n} : /\ files'[m] = files[m]
                                  /\ OwnLines(a, m)' = OwnLines(a, m)
                                  /\ EventsIn(a, m)' = EventsIn(a, m)
      BY <3>4, LineOfAnother
    <3>8. Busy(a) /\ ~Busy(a)'
      BY <1>0, <2>0, <2>1, <2>3, <2>5 DEF Busy
    <3>9. Due(a) = Front(got[a]) /\ Due(a)' = got[a]
      BY <1>d, <1>e, <2>2, <3>8
    <3>10. /\ got[a] # <<>> /\ Last(got[a]) = events
           /\ \A i, j \in 1 .. Len(got[a]) : i < j => got[a][i] < got[a][j]
      BY <2>0, <2>1, <2>3, <2>5 DEF EventsInOrder
    <3>11. a \notin reopened => \A m \in exists : EventsIn(a, m) # {} => m <= n
      BY <1>0, <3>4 DEF FilesForward
    <3>12. events \in Nat /\ files'[n][z].event = events /\ exists \subseteq FileName
      BY <1>0, <3>4, <3>5 DEF TypeOK
    <3>. QED
      BY <1>0, <2>1, <2>2, <3>5, <3>6, <3>7, <3>9, <3>10, <3>11, <3>12, KeptWrite
  <2>. QED
    BY <2>4, <2>5
<1>. QED
  BY <1>2, <1>3, <1>4

LEMMA LogInit == Init => LogInv
<1>. SUFFICES ASSUME Init PROVE LogInv
  OBVIOUS
<1>1. /\ exists = {} /\ Cardinality(exists) = 0 /\ day = 0 /\ m_appenders = <<>>
      /\ \A t \in Thread : pc[t] = "idle" /\ call[t] = NoCall
      /\ \A a \in Ids : /\ stream[a] = [file |-> None, fail |-> FALSE] /\ got[a] = <<>>
      /\ reopened = {}
  BY FS_EmptySet DEF Init, exists
<1>2. TypeOK
  BY TypeInit
<1>3. /\ \A t \in Thread : call[t].event = 0 /\ call[t].ap = 0 /\ call[t].from = 0
      /\ \A a \in Ids : stream[a].file = None /\ ~stream[a].fail
      /\ Len(m_appenders) = 0 /\ 1 .. 0 = {}
  <2>1. \A t \in Thread : call[t].event = 0 /\ call[t].ap = 0 /\ call[t].from = 0
    BY <1>1, CallsMade
  <2>2. \A a \in Ids : stream[a].file = None /\ ~stream[a].fail
    BY <1>1
  <2>3. Len(m_appenders) = 0 /\ 1 .. 0 = {}
    BY <1>1
  <2>. QED
    BY <2>1, <2>2, <2>3
<1>4. CallShape /\ CallsApart
  BY <1>1, <1>3 DEF CallShape, CallsApart, Shape
<1>5. StreamsWhole
  BY <1>1, <1>3 DEF StreamsWhole, Opening
<1>6. NamesUsed
  <2>1. 0 \in 0 .. Cardinality(exists) /\ exists \ {Bare} = 0 .. 0 - 1
    BY <1>1
  <2>. QED
    BY <1>1, <2>1 DEF NamesUsed
<1>7. DayInv /\ DayFile
  BY <1>1, <1>3 DEF DayInv, DayFile
<1>8. SizeInv /\ SizeLimit
  BY <1>1, <1>3 DEF SizeInv, SizeLimit
<1>9. EventsInOrder
  <2>1. \A a \in Ids : 1 .. Len(got[a]) = {}
    BY <1>1
  <2>. QED
    BY <1>3, <2>1 DEF EventsInOrder
<1>10. FilesForward
  BY <1>1 DEF FilesForward
<1>11. LinesKept
  <2>1. ASSUME NEW a \in Ids PROVE ToSet(Due(a)) = {}
    <3>1. Due(a) = <<>>
      BY <1>1, <1>3 DEF Due
    <3>2. ToSet(<<>>) = {}
      BY DEF ToSet
    <3>. QED
      BY <3>1, <3>2
  <2>. QED
    BY <1>1, <2>1 DEF LinesKept
<1>. QED
  BY <1>2, <1>4, <1>5, <1>6, <1>7, <1>8, <1>9, <1>10, <1>11 DEF LogInv

LEMMA LogStep == LogInv /\ [Next]_vars => LogInv'
<1>. SUFFICES ASSUME LogInv, [Next]_vars PROVE LogInv'
  OBVIOUS
<1>1. /\ TypeOK /\ CallShape /\ CallsApart /\ StreamsWhole /\ NamesUsed
      /\ DayInv /\ DayFile /\ SizeInv /\ SizeLimit
      /\ EventsInOrder /\ FilesForward /\ LinesKept
  BY DEF LogInv
<1>2. CASE Next
  <2>1. TypeOK'
    BY <1>1, <1>2, TypeStep
  <2>2. CallShape' /\ CallsApart'
    BY <1>1, <1>2, CallStep
  <2>3. StreamsWhole' /\ NamesUsed'
    BY <1>1, <1>2, StreamsStep, NamesStep
  <2>4. DayInv' /\ DayFile'
    BY <1>1, <1>2, DayStep
  <2>5. SizeInv' /\ SizeLimit'
    BY <1>1, <1>2, SizeStep
  <2>6. EventsInOrder'
    BY <1>1, <1>2, EventsStep
  <2>7. FilesForward'
    BY <1>1, <1>2, ForwardStep
  <2>8. LinesKept'
    BY <1>1, <1>2, KeptStep
  <2>. QED
    BY <2>1, <2>2, <2>3, <2>4, <2>5, <2>6, <2>7, <2>8 DEF LogInv
<1>3. CASE UNCHANGED vars
  <2>1. UNCHANGED <<rotate, files, stream, m_currentSize, m_lastRotateTime, m_appenders, pc, call,
                    day, events, made, got, faulty, faults, shared, reopened, reopens,
                    straddled, exists>>
    BY <1>3 DEF vars, ap_vars, count_vars, history_vars, exists
  <2>2. TypeOK'
    BY <1>1, <2>1 DEF TypeOK
  <2>3. CallShape' /\ CallsApart'
    BY <1>1, <2>1 DEF CallShape, CallsApart, Shape, Logs, Makes
  <2>4. StreamsWhole' /\ NamesUsed'
    BY <1>1, <2>1 DEF StreamsWhole, NamesUsed, Opening
  <2>5. DayInv' /\ DayFile'
    BY <1>1, <2>1 DEF DayInv, DayFile
  <2>6. SizeInv' /\ SizeLimit'
    BY <1>1, <2>1 DEF SizeInv, SizeLimit
  <2>7. EventsInOrder'
    BY <1>1, <2>1 DEF EventsInOrder
  <2>8. \A a, n : OwnLines(a, n)' = OwnLines(a, n) /\ EventsIn(a, n)' = EventsIn(a, n)
    BY <2>1 DEF EventsIn, OwnLines
  <2>9. \A a : Due(a)' = Due(a)
    BY <2>1 DEF Due
  <2>10. FilesForward'
    BY <1>1, <2>1, <2>8 DEF FilesForward
  <2>11. LinesKept'
    BY <1>1, <2>1, <2>8, <2>9 DEF LinesKept
  <2>. QED
    BY <2>2, <2>3, <2>4, <2>5, <2>6, <2>7, <2>10, <2>11 DEF LogInv
<1>. QED
  BY <1>2, <1>3

(* The inductive invariant, from which the four properties follow          *)
(* (Logger::log(), FileLogAppender::log(), createNewFile(), reopen()).     *)
THEOREM LogInvariant == Spec => []LogInv
<1>. QED
  BY LogInit, LogStep, PTL DEF Spec

(* Whatever threads log, open and make appenders, the state keeps its      *)
(* form; no appender is in the Logger's list twice, so that no event goes  *)
(* to one twice (Logger::addAppender(), delAppender(), log()).             *)
THEOREM LogTypes == Spec => []TypeOK
<1>1. LogInv => TypeOK
  BY DEF LogInv
<1>. QED
  BY <1>1, LogInvariant, PTL

(* A file that rotation by size made takes no line once it has reached     *)
(* m_maxSize, unless two appenders have opened it                          *)
(* (FileLogAppender::checkRotate(), createNewFile()).                      *)
THEOREM SmallFiles == Spec => []SizeLimit
<1>1. LogInv => SizeLimit
  BY DEF LogInv
<1>. QED
  BY <1>1, LogInvariant, PTL

(* With rotation by time a line stands in the file of a day that its       *)
(* log() call ran in, unless its appender was made across midnight or a    *)
(* fault has hit it (FileLogAppender::checkRotate(), createNewFile()).     *)
THEOREM DayFiles == Spec => []DayFile
<1>1. LogInv => DayFile
  BY DEF LogInv
<1>. QED
  BY <1>1, LogInvariant, PTL

(* An appender that no failed open or write has hit has each event it      *)
(* accepted in one of its files, once and in order, but the one a thread   *)
(* is about to write (FileLogAppender::log(), reopen(), Logger::log()).    *)
THEOREM NoLineLost == Spec => []LinesKept
<1>1. LogInv => LinesKept
  BY DEF LogInv
<1>. QED
  BY <1>1, LogInvariant, PTL
=============================================================================
