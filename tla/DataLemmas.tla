----------------------------- MODULE DataLemmas -----------------------------
(***************************************************************************)
(* Facts about numbers, finite sets and sequences that the proofs of       *)
(* several components need.  Induction is stated with sets in the place of *)
(* predicates: what is to be shown for every n is that Nat is a subset of  *)
(* the set of the numbers it holds for.                                    *)
(***************************************************************************)
EXTENDS Integers, Sequences, FiniteSets, SequencesExt, FiniteSetTheorems,
        WellFoundedInduction, TLAPS

(* Every set of natural numbers has a least element.                       *)
LEMMA LeastNumber ==
    ASSUME NEW S \in SUBSET Nat, S # {}
    PROVE  \E n \in S : \A m \in S : n <= m
<1>1. PICK n \in S : \A m \in S : ~ (<<m, n>> \in OpToRel(<, Nat))
  BY NatLessThanWellFounded, WFMin
<1>2. \A m \in S : ~ (m < n)
  BY <1>1 DEF OpToRel
<1>. QED
  BY <1>2

(* A set of numbers with an upper bound has a largest element.             *)
LEMMA LargestNumber ==
    ASSUME NEW S \in SUBSET Nat, S # {}, NEW b \in Nat, \A n \in S : n <= b
    PROVE  \E n \in S : \A m \in S : m <= n
<1>. DEFINE Bounds == {n \in Nat : \A m \in S : m <= n}
<1>1. Bounds \in SUBSET Nat /\ Bounds # {}
  OBVIOUS
<1>2. PICK n \in Bounds : \A m \in Bounds : n <= m
  <2>. HIDE DEF Bounds
  <2>. QED
    BY <1>1, LeastNumber
<1>3. CASE n \in S
  BY <1>2, <1>3
<1>4. CASE n \notin S
  <2>0. PICK m \in S : TRUE
    OBVIOUS
  <2>1. n # 0
    BY <1>2, <1>4, <2>0
  <2>2. n - 1 \in Bounds
    BY <1>2, <1>4, <2>1
  <2>. QED
    BY <1>2, <2>1, <2>2
<1>. QED
  BY <1>3, <1>4

(* Induction over the natural numbers.                                     *)
LEMMA Induction ==
    ASSUME NEW S, 0 \in S, \A n \in Nat : n \in S => n + 1 \in S
    PROVE  Nat \subseteq S
<1>. SUFFICES ASSUME Nat \ S # {} PROVE FALSE
  OBVIOUS
<1>1. PICK n \in Nat \ S : \A m \in Nat \ S : n <= m
  BY LeastNumber
<1>2. n # 0
  BY <1>1
<1>3. n - 1 \in Nat /\ n - 1 \in S
  BY <1>1, <1>2
<1>4. (n - 1) + 1 \in S
  BY <1>3
<1>. QED
  BY <1>1, <1>4

-----------------------------------------------------------------------------
(* Places in rows of m: a number is its row and its place in the row.      *)
LEMMA RowAndPlace ==
    ASSUME NEW m \in Nat \ {0}
    PROVE  /\ \A k \in Nat : /\ k \div m \in Nat /\ k % m \in 0 .. m - 1
                             /\ k = (k \div m) * m + (k % m)
           /\ \A a \in Nat, b \in 0 .. m - 1 :
                 /\ a * m + b \in Nat
                 /\ (a * m + b) \div m = a
                 /\ (a * m + b) % m = b
  OBVIOUS

(* n rows of m: the numbers below n * m are those with a row below n.      *)
LEMMA RowsBelow ==
    ASSUME NEW m \in Nat \ {0}, NEW n \in Nat, NEW k \in Nat
    PROVE  k < n * m <=> k \div m < n
<1>. DEFINE a == k \div m
            b == k % m
<1>1. a \in Nat /\ b \in 0 .. m - 1 /\ k = a * m + b
  BY RowAndPlace
<1>. HIDE DEF a, b
<1>2. a < n => a * m + b < n * m
  <2>. SUFFICES ASSUME a < n PROVE a * m + b < n * m
    OBVIOUS
  <2>1. PICK d \in Nat : n = a + 1 + d
    <3>1. n - a - 1 \in Nat /\ n = a + 1 + (n - a - 1)
      BY <1>1
    <3>. QED
      BY <3>1
  <2>2. n * m = a * m + m + d * m /\ d * m \in Nat /\ a * m \in Nat
    BY <1>1, <2>1
  <2>. QED
    BY <1>1, <2>2
<1>3. n <= a => n * m <= a * m + b
  <2>. SUFFICES ASSUME n <= a PROVE n * m <= a * m + b
    OBVIOUS
  <2>1. PICK d \in Nat : a = n + d
    <3>1. a - n \in Nat /\ a = n + (a - n)
      BY <1>1
    <3>. QED
      BY <3>1
  <2>2. a * m = n * m + d * m /\ d * m \in Nat /\ n * m \in Nat
    BY <1>1, <2>1
  <2>. QED
    BY <1>1, <2>2
<1>4. a * m + b \in Int /\ n * m \in Int
  BY <1>1
<1>. QED
  BY <1>1, <1>2, <1>3, <1>4 DEF a

-----------------------------------------------------------------------------
(* The elements of a sequence.                                             *)
LEMMA InSeq ==
    ASSUME NEW S, NEW s \in Seq(S)
    PROVE  /\ \A x : x \in ToSet(s) <=> \E i \in 1 .. Len(s) : s[i] = x
           /\ ToSet(s) \in SUBSET S
           /\ s = <<>> <=> ToSet(s) = {}
<1>1. DOMAIN s = 1 .. Len(s) /\ Len(s) \in Nat
  OBVIOUS
<1>2. \A x : x \in ToSet(s) <=> \E i \in 1 .. Len(s) : s[i] = x
  BY <1>1 DEF ToSet
<1>3. \A i \in 1 .. Len(s) : s[i] \in S
  OBVIOUS
<1>4. s = <<>> => ToSet(s) = {}
  <2>. SUFFICES ASSUME s = <<>>, NEW x \in ToSet(s) PROVE FALSE
    OBVIOUS
  <2>1. Len(s) = 0
    OBVIOUS
  <2>. QED
    BY <1>2, <2>1
<1>5. s # <<>> => s[1] \in ToSet(s)
  <2>1. s # <<>> => Len(s) # 0
    OBVIOUS
  <2>. QED
    BY <1>1, <1>2, <2>1
<1>. QED
  BY <1>2, <1>3, <1>4, <1>5

(* Appending adds one element.                                             *)
LEMMA SetOfAppend ==
    ASSUME NEW S, NEW s \in Seq(S), NEW e \in S
    PROVE  /\ Append(s, e) \in Seq(S)
           /\ ToSet(Append(s, e)) = ToSet(s) \cup {e}
<1>1. /\ Append(s, e) \in Seq(S) /\ Len(Append(s, e)) = Len(s) + 1
      /\ \A i \in 1 .. Len(s) : Append(s, e)[i] = s[i]
      /\ Append(s, e)[Len(s) + 1] = e
      /\ Len(s) \in Nat
  OBVIOUS
<1>2. \A i \in 1 .. Len(s) : i \in 1 .. Len(s) + 1
  BY <1>1
<1>3. \A i \in 1 .. Len(s) + 1 : i \in 1 .. Len(s) \/ i = Len(s) + 1
  BY <1>1
<1>4. Len(s) + 1 \in 1 .. Len(s) + 1
  BY <1>1
<1>5. \A x : x \in ToSet(s) <=> \E i \in 1 .. Len(s) : s[i] = x
  BY InSeq
<1>6. \A x : x \in ToSet(Append(s, e)) <=> \E i \in 1 .. Len(s) + 1 : Append(s, e)[i] = x
  BY <1>1, InSeq
<1>7. \A x : x \in ToSet(Append(s, e)) <=> x \in ToSet(s) \/ x = e
  BY <1>1, <1>2, <1>3, <1>4, <1>5, <1>6
<1>. QED
  BY <1>1, <1>7

(* What stands where in a concatenation.                                   *)
LEMMA ConcatPlaces ==
    ASSUME NEW S, NEW s \in Seq(S), NEW t \in Seq(S)
    PROVE  /\ s \o t \in Seq(S)
           /\ Len(s \o t) = Len(s) + Len(t)
           /\ Len(s) \in Nat /\ Len(t) \in Nat
           /\ \A i \in 1 .. Len(s) + Len(t) :
                 (s \o t)[i] = IF i <= Len(s) THEN s[i] ELSE t[i - Len(s)]
  OBVIOUS

(* What is in two sequences one behind the other is in one of them.        *)
LEMMA SetOfConcat ==
    ASSUME NEW S, NEW s \in Seq(S), NEW t \in Seq(S)
    PROVE  /\ s \o t \in Seq(S)
           /\ ToSet(s \o t) = ToSet(s) \cup ToSet(t)
<1>1. /\ s \o t \in Seq(S)
      /\ Len(s \o t) = Len(s) + Len(t)
      /\ Len(s) \in Nat /\ Len(t) \in Nat
      /\ \A i \in 1 .. Len(s) + Len(t) :
            (s \o t)[i] = IF i <= Len(s) THEN s[i] ELSE t[i - Len(s)]
  BY ConcatPlaces
<1>2. \A i \in 1 .. Len(s) : i \in 1 .. Len(s) + Len(t) /\ (s \o t)[i] = s[i]
  BY <1>1
<1>3. \A i \in 1 .. Len(t) :
         i + Len(s) \in 1 .. Len(s) + Len(t) /\ (s \o t)[i + Len(s)] = t[i]
  BY <1>1
<1>4. \A i \in 1 .. Len(s) + Len(t) :
         \/ i \in 1 .. Len(s) /\ (s \o t)[i] = s[i]
         \/ i - Len(s) \in 1 .. Len(t) /\ (s \o t)[i] = t[i - Len(s)]
  BY <1>1
<1>5. \A x : x \in ToSet(s \o t) <=> \E i \in 1 .. Len(s) + Len(t) : (s \o t)[i] = x
  BY <1>1, InSeq
<1>6. \A x : x \in ToSet(s) <=> \E i \in 1 .. Len(s) : s[i] = x
  BY InSeq
<1>7. \A x : x \in ToSet(t) <=> \E i \in 1 .. Len(t) : t[i] = x
  BY InSeq
<1>8. \A x : x \in ToSet(s \o t) <=> x \in ToSet(s) \/ x \in ToSet(t)
  BY <1>2, <1>3, <1>4, <1>5, <1>6, <1>7
<1>. QED
  BY <1>1, <1>8

(* What stands where in Head and Tail.                                     *)
LEMMA TailPlaces ==
    ASSUME NEW S, NEW s \in Seq(S), s # <<>>
    PROVE  /\ Head(s) \in S /\ Head(s) = s[1] /\ Tail(s) \in Seq(S)
           /\ Len(s) \in Nat \ {0} /\ Len(Tail(s)) = Len(s) - 1
           /\ \A i \in 1 .. Len(s) - 1 : Tail(s)[i] = s[i + 1]
  OBVIOUS

(* What is in the tail, by its place there.                                *)
LEMMA InTail ==
    ASSUME NEW S, NEW s \in Seq(S), s # <<>>
    PROVE  \A x : x \in ToSet(Tail(s)) <=> \E i \in 1 .. Len(s) - 1 : Tail(s)[i] = x
<1>1. Tail(s) \in Seq(S) /\ Len(Tail(s)) = Len(s) - 1
  BY TailPlaces
<1>. QED
  BY <1>1, InSeq

(* A sequence holds its head and what its tail holds.                      *)
LEMMA SetOfTail ==
    ASSUME NEW S, NEW s \in Seq(S), s # <<>>
    PROVE  ToSet(s) = ToSet(Tail(s)) \cup {Head(s)}
<1>1. \A i \in 1 .. Len(s) : i = 1 \/ (i - 1 \in 1 .. Len(s) - 1 /\ s[i] = Tail(s)[i - 1])
  BY TailPlaces
<1>2. \A i \in 1 .. Len(s) - 1 : i + 1 \in 1 .. Len(s) /\ Tail(s)[i] = s[i + 1]
  BY TailPlaces
<1>3. 1 \in 1 .. Len(s) /\ s[1] = Head(s)
  BY TailPlaces
<1>4. \A x : x \in ToSet(Tail(s)) <=> \E i \in 1 .. Len(s) - 1 : Tail(s)[i] = x
  BY InTail
<1>5. \A x : x \in ToSet(s) <=> \E i \in 1 .. Len(s) : s[i] = x
  BY InSeq
<1>6. \A x : x \in ToSet(s) <=> x \in ToSet(Tail(s)) \/ x = Head(s)
  BY <1>1, <1>2, <1>3, <1>4, <1>5
<1>. QED
  BY <1>6

(* Sequences without repetition.                                           *)
LEMMA InjectiveSeq ==
    ASSUME NEW S, NEW s \in Seq(S)
    PROVE  IsInjective(s) <=> \A i, j \in 1 .. Len(s) : s[i] = s[j] => i = j
<1>1. DOMAIN s = 1 .. Len(s)
  OBVIOUS
<1>. QED
  BY <1>1 DEF IsInjective

(* A new element does not repeat one.                                      *)
LEMMA InjectiveAppend ==
    ASSUME NEW S, NEW s \in Seq(S), IsInjective(s), NEW e \in S, e \notin ToSet(s)
    PROVE  IsInjective(Append(s, e))
<1>1. /\ Append(s, e) \in Seq(S) /\ Len(Append(s, e)) = Len(s) + 1
      /\ \A i \in 1 .. Len(s) : Append(s, e)[i] = s[i]
      /\ Append(s, e)[Len(s) + 1] = e
      /\ Len(s) \in Nat
  OBVIOUS
<1>2. \A i \in 1 .. Len(s) + 1 : i \in 1 .. Len(s) \/ i = Len(s) + 1
  BY <1>1
<1>3. \A i \in 1 .. Len(s) : s[i] # e
  BY InSeq
<1>4. \A i, j \in 1 .. Len(s) : s[i] = s[j] => i = j
  BY InjectiveSeq
<1>5. \A i, j \in 1 .. Len(s) + 1 : Append(s, e)[i] = Append(s, e)[j] => i = j
  BY <1>1, <1>2, <1>3, <1>4
<1>. QED
  BY <1>1, <1>5, InjectiveSeq

(* The tail of a sequence without repetition has none, and not the head.   *)
LEMMA InjectiveTail ==
    ASSUME NEW S, NEW s \in Seq(S), IsInjective(s), s # <<>>
    PROVE  IsInjective(Tail(s)) /\ Head(s) \notin ToSet(Tail(s))
<1>1. \A i, j \in 1 .. Len(s) : s[i] = s[j] => i = j
  BY InjectiveSeq
<1>2. \A i \in 1 .. Len(s) - 1 :
         i + 1 \in 1 .. Len(s) /\ i + 1 # 1 /\ 1 \in 1 .. Len(s) /\ Tail(s)[i] = s[i + 1]
  BY TailPlaces
<1>3. \A i, j \in 1 .. Len(s) - 1 : Tail(s)[i] = Tail(s)[j] => i = j
  <2>. SUFFICES ASSUME NEW i \in 1 .. Len(s) - 1, NEW j \in 1 .. Len(s) - 1,
                       Tail(s)[i] = Tail(s)[j]
                PROVE  i = j
    OBVIOUS
  <2>1. i + 1 = j + 1
    BY <1>1, <1>2
  <2>. QED
    BY <2>1
<1>4. IsInjective(Tail(s))
  BY <1>3, TailPlaces, InjectiveSeq
<1>5. \A x : x \in ToSet(Tail(s)) <=> \E i \in 1 .. Len(s) - 1 : Tail(s)[i] = x
  BY InTail
<1>6. Head(s) \notin ToSet(Tail(s))
  BY <1>1, <1>2, <1>5, TailPlaces
<1>. QED
  BY <1>4, <1>6

(* An entry that is taken out leaves the others in their order.            *)
LEMMA RemoveAtPlaces ==
    ASSUME NEW S, NEW s \in Seq(S), NEW i \in 1 .. Len(s)
    PROVE  /\ RemoveAt(s, i) \in Seq(S)
           /\ Len(RemoveAt(s, i)) = Len(s) - 1
           /\ \A j \in 1 .. Len(s) - 1 :
                 RemoveAt(s, i)[j] = IF j < i THEN s[j] ELSE s[j + 1]
<1>. DEFINE a == SubSeq(s, 1, i - 1)
            b == SubSeq(s, i + 1, Len(s))
<1>1. /\ a \in Seq(S) /\ Len(a) = i - 1
      /\ \A j \in 1 .. i - 1 : a[j] = s[j]
  OBVIOUS
<1>2. /\ b \in Seq(S) /\ Len(b) = Len(s) - i
      /\ \A j \in 1 .. Len(s) - i : b[j] = s[j + i]
  OBVIOUS
<1>3. RemoveAt(s, i) = a \o b
  BY DEF RemoveAt
<1>4. Len(s) \in Nat /\ i \in Nat
  OBVIOUS
<1>. HIDE DEF a, b
<1>5. /\ a \o b \in Seq(S) /\ Len(a \o b) = Len(a) + Len(b)
      /\ \A j \in 1 .. Len(a) + Len(b) :
            (a \o b)[j] = IF j <= Len(a) THEN a[j] ELSE b[j - Len(a)]
  BY <1>1, <1>2, ConcatPlaces
<1>6. ASSUME NEW j \in 1 .. Len(s) - 1
      PROVE  (a \o b)[j] = IF j < i THEN s[j] ELSE s[j + 1]
  <2>1. CASE j < i
    BY <1>1, <1>2, <1>4, <1>5, <2>1
  <2>2. CASE ~(j < i)
    <3>1. j - (i - 1) \in 1 .. Len(s) - i /\ (j - (i - 1)) + i = j + 1
      BY <1>4, <2>2
    <3>2. b[j - (i - 1)] = s[j + 1]
      BY <1>2, <3>1
    <3>3. (a \o b)[j] = b[j - (i - 1)]
      BY <1>1, <1>2, <1>4, <1>5, <2>2
    <3>. QED
      BY <2>2, <3>2, <3>3
  <2>. QED
    BY <2>1, <2>2
<1>. QED
  BY <1>1, <1>2, <1>3, <1>4, <1>5, <1>6

(* Two sequences without repetition that share nothing.                    *)
LEMMA InjectiveConcat ==
    ASSUME NEW S, NEW s \in Seq(S), NEW t \in Seq(S), IsInjective(s), IsInjective(t),
           ToSet(s) \cap ToSet(t) = {}
    PROVE  IsInjective(s \o t)
<1>1. /\ s \o t \in Seq(S)
      /\ Len(s \o t) = Len(s) + Len(t)
      /\ Len(s) \in Nat /\ Len(t) \in Nat
      /\ \A i \in 1 .. Len(s) + Len(t) :
            \/ i \in 1 .. Len(s) /\ (s \o t)[i] = s[i]
            \/ i - Len(s) \in 1 .. Len(t) /\ (s \o t)[i] = t[i - Len(s)]
  OBVIOUS
<1>2. \A i \in 1 .. Len(s) : s[i] \in ToSet(s)
  BY InSeq
<1>3. \A i \in 1 .. Len(t) : t[i] \in ToSet(t)
  BY InSeq
<1>4. \A i, j \in 1 .. Len(s) : s[i] = s[j] => i = j
  BY InjectiveSeq
<1>5. \A i, j \in 1 .. Len(t) : t[i] = t[j] => i = j
  BY InjectiveSeq
<1>6. \A i, j \in 1 .. Len(s) + Len(t) : (s \o t)[i] = (s \o t)[j] => i = j
  <2>. SUFFICES ASSUME NEW i \in 1 .. Len(s) + Len(t), NEW j \in 1 .. Len(s) + Len(t),
                       (s \o t)[i] = (s \o t)[j]
                PROVE  i = j
    OBVIOUS
  <2>1. CASE i \in 1 .. Len(s) /\ j \in 1 .. Len(s)
    BY <1>1, <1>4, <2>1
  <2>2. CASE i - Len(s) \in 1 .. Len(t) /\ j - Len(s) \in 1 .. Len(t)
    <3>1. i - Len(s) = j - Len(s)
      BY <1>1, <1>5, <2>2
    <3>. QED
      BY <1>1, <3>1
  <2>. QED
    BY <1>1, <1>2, <1>3, <2>1, <2>2
<1>. QED
  BY <1>1, <1>6, InjectiveSeq

(* Sets whose elements correspond to each other have equally many.         *)
LEMMA SameCount ==
    ASSUME NEW A, NEW B, IsFiniteSet(A), NEW F \in [A -> B],
           \A x, y \in A : F[x] = F[y] => x = y,
           \A z \in B : \E x \in A : F[x] = z
    PROVE  IsFiniteSet(B) /\ Cardinality(B) = Cardinality(A)
<1>1. F \in Injection(A, B)
  BY DEF Injection, IsInjective
<1>2. F \in Surjection(A, B)
  BY DEF Surjection
<1>3. ExistsBijection(A, B)
  BY <1>1, <1>2 DEF ExistsBijection, Bijection
<1>. QED
  BY <1>3, FS_Bijection

(* A sequence that is given as a function.                                 *)
LEMMA LenOfFunction ==
    ASSUME NEW k \in Nat, NEW S, NEW s \in Seq(S), DOMAIN s = 1 .. k
    PROVE  Len(s) = k
<1>1. Len(s) \in Nat /\ 1 .. Len(s) = 1 .. k
  OBVIOUS
<1>2. ~(Len(s) < k)
  <2>. SUFFICES ASSUME Len(s) < k PROVE FALSE
    OBVIOUS
  <2>1. k \in 1 .. k /\ k \notin 1 .. Len(s)
    BY <1>1
  <2>. QED
    BY <1>1, <2>1
<1>3. ~(k < Len(s))
  <2>. SUFFICES ASSUME k < Len(s) PROVE FALSE
    OBVIOUS
  <2>1. Len(s) \in 1 .. Len(s) /\ Len(s) \notin 1 .. k
    BY <1>1
  <2>. QED
    BY <1>1, <2>1
<1>. QED
  BY <1>1, <1>2, <1>3

(* SetToSeq() of a finite set has its elements, each once.                 *)
LEMMA SeqOfSet ==
    ASSUME NEW S, IsFiniteSet(S)
    PROVE  /\ SetToSeq(S) \in Seq(S)
           /\ IsInjective(SetToSeq(S))
           /\ ToSet(SetToSeq(S)) = S
<1>. DEFINE n == Cardinality(S)
            q == SetToSeq(S)
<1>1. n \in Nat /\ ExistsBijection(1 .. n, S)
  BY FS_CardinalityType
<1>2. \E f \in [1 .. n -> S] : IsInjective(f)
  BY <1>1 DEF ExistsBijection, Bijection, Injection, IsInjective
<1>3. q \in [1 .. n -> S] /\ IsInjective(q)
  BY <1>2 DEF SetToSeq
<1>4. q \in Injection(1 .. n, S)
  BY <1>3 DEF Injection, IsInjective
<1>5. IsFiniteSet(1 .. n) /\ Cardinality(1 .. n) = n
  BY <1>1, FS_Interval
<1>. HIDE DEF q
<1>6. q \in Surjection(1 .. n, S)
  BY <1>4, <1>5, FS_Injection
<1>7. ToSet(q) = S
  BY <1>3, <1>6 DEF Surjection, ToSet
<1>. HIDE DEF n
<1>8. q \in Seq(S)
  BY <1>1, <1>3
<1>. QED
  BY <1>3, <1>7, <1>8 DEF q
-----------------------------------------------------------------------------
(* Sums over sequences, which are folds from the left: MapThenFoldSet      *)
(* takes the largest place first.                                          *)

(* f is the function of which the fold of the first n numbers of w is the  *)
(* value at 1 .. n.                                                        *)
IsFold(w, n, f) ==
    f = [s \in SUBSET (1 .. n) |->
           IF s = {} THEN 0 ELSE LET x == Max(s) IN f[s \ {x}] + w[x]]

(* The first n of w are numbers; v is w from behind its first d on.        *)
AllNumbers(w, n)       == \A i \in 1 .. n : w[i] \in Int
Shifted(v, w, m, d) == \A i \in 1 .. m : v[i] = w[i + d]

(* The largest of a set of places.                                         *)
LEMMA MaxPlace ==
    ASSUME NEW n \in Nat, NEW s \in SUBSET (1 .. n), s # {}
    PROVE  /\ Max(s) \in s
           /\ n \in s => Max(s) = n
<1>1. \E x \in s : \A y \in s : x >= y
  <2>1. s \in SUBSET Nat /\ \A y \in s : y <= n
    OBVIOUS
  <2>2. \E x \in s : \A y \in s : y <= x
    BY <2>1, LargestNumber
  <2>. QED
    BY <2>1, <2>2
<1>2. Max(s) \in s /\ \A y \in s : Max(s) >= y
  BY <1>1 DEF Max
<1>3. ASSUME n \in s PROVE Max(s) = n
  <2>1. Max(s) \in 1 .. n /\ Max(s) >= n
    BY <1>2, <1>3
  <2>. QED
    BY <2>1
<1>. QED
  BY <1>2, <1>3

(* The recursion of a fold has a solution.                                 *)
LEMMA FoldExists ==
    ASSUME NEW w, NEW n \in Nat
    PROVE  \E f : IsFold(w, n, f)
<1>. DEFINE S == {k \in Nat : \E f : IsFold(w, k, f)}
<1>1. 0 \in S
  <2>1. 1 .. 0 = {}
    OBVIOUS
  <2>2. IsFold(w, 0, [s \in SUBSET {} |-> 0])
    BY <2>1 DEF IsFold
  <2>. QED
    BY <2>2
<1>2. ASSUME NEW k \in Nat, k \in S PROVE k + 1 \in S
  <2>1. PICK f : IsFold(w, k, f)
    BY <1>2
  <2>. DEFINE g == [s \in SUBSET (1 .. k + 1) |->
                      IF s \subseteq 1 .. k THEN f[s] ELSE f[s \ {k + 1}] + w[k + 1]]
              h == [s \in SUBSET (1 .. k + 1) |->
                      IF s = {} THEN 0 ELSE LET x == Max(s) IN g[s \ {x}] + w[x]]
  <2>2. \A s \in SUBSET (1 .. k) :
           f[s] = IF s = {} THEN 0 ELSE f[s \ {Max(s)}] + w[Max(s)]
    BY <2>1 DEF IsFold
  <2>3. ASSUME NEW s \in SUBSET (1 .. k + 1) PROVE g[s] = h[s]
    <3>0. h[s] = IF s = {} THEN 0 ELSE g[s \ {Max(s)}] + w[Max(s)]
      OBVIOUS
    <3>1. CASE s = {}
      <4>1. g[s] = f[s]
        BY <3>1
      <4>2. f[s] = 0
        BY <2>2, <3>1
      <4>. QED
        BY <3>0, <3>1, <4>1, <4>2
    <3>2. CASE s # {} /\ s \subseteq 1 .. k
      <4>1. s \ {Max(s)} \subseteq 1 .. k /\ s \ {Max(s)} \in SUBSET (1 .. k + 1)
        BY <3>2
      <4>2. g[s \ {Max(s)}] = f[s \ {Max(s)}] /\ g[s] = f[s]
        BY <3>2, <4>1
      <4>. HIDE DEF g, h
      <4>. QED
        BY <2>2, <3>0, <3>2, <4>2
    <3>3. CASE ~(s \subseteq 1 .. k)
      <4>1. k + 1 \in s
        BY <3>3
      <4>2. Max(s) = k + 1
        BY <4>1, MaxPlace
      <4>3. s \ {k + 1} \subseteq 1 .. k /\ s \ {k + 1} \in SUBSET (1 .. k + 1)
        OBVIOUS
      <4>4. g[s \ {k + 1}] = f[s \ {k + 1}] /\ g[s] = f[s \ {k + 1}] + w[k + 1]
        BY <3>3, <4>3
      <4>. HIDE DEF g, h
      <4>. QED
        BY <3>0, <4>1, <4>2, <4>4
    <3>. QED
      BY <3>1, <3>2, <3>3
  <2>4. g = h
    BY <2>3
  <2>5. IsFold(w, k + 1, g)
    <3>. HIDE DEF g
    <3>. QED
      BY <2>4 DEF IsFold
  <2>. HIDE DEF g, h
  <2>. QED
    BY <2>5
<1>. HIDE DEF S
<1>3. Nat \subseteq S
  BY <1>1, <1>2, Induction
<1>. QED
  BY <1>3 DEF S

(* It adds one number after the other.                                     *)
LEMMA FoldSteps ==
    ASSUME NEW w, NEW n \in Nat, NEW f, IsFold(w, n, f)
    PROVE  /\ f[1 .. 0] = 0
           /\ \A k \in 1 .. n : f[1 .. k] = f[1 .. k - 1] + w[k]
<1>1. \A s \in SUBSET (1 .. n) :
         f[s] = IF s = {} THEN 0 ELSE f[s \ {Max(s)}] + w[Max(s)]
  BY DEF IsFold
<1>2. f[1 .. 0] = 0
  <2>1. 1 .. 0 = {} /\ {} \in SUBSET (1 .. n)
    OBVIOUS
  <2>. QED
    BY <1>1, <2>1
<1>3. ASSUME NEW k \in 1 .. n PROVE f[1 .. k] = f[1 .. k - 1] + w[k]
  <2>1. k \in Nat /\ k \in 1 .. k /\ 1 .. k \in SUBSET (1 .. n) /\ 1 .. k # {}
    OBVIOUS
  <2>2. Max(1 .. k) = k
    <3>1. 1 .. k \in SUBSET (1 .. k)
      OBVIOUS
    <3>. QED
      BY <2>1, <3>1, MaxPlace
  <2>3. (1 .. k) \ {k} = 1 .. k - 1
    OBVIOUS
  <2>. QED
    BY <1>1, <2>1, <2>2, <2>3
<1>. QED
  BY <1>2, <1>3

(* So what it adds up is a number.                                         *)
LEMMA FoldType ==
    ASSUME NEW n \in Nat, NEW w, AllNumbers(w, n), NEW f, IsFold(w, n, f)
    PROVE  \A k \in 0 .. n : f[1 .. k] \in Int
<1>. DEFINE S == {k \in Nat : k <= n => f[1 .. k] \in Int}
<1>0. f[1 .. 0] = 0
  BY FoldSteps
<1>1. 0 \in S
  BY <1>0
<1>2. ASSUME NEW k \in Nat, k \in S PROVE k + 1 \in S
  <2>. SUFFICES ASSUME k + 1 <= n PROVE f[1 .. k + 1] \in Int
    OBVIOUS
  <2>1. k + 1 \in 1 .. n /\ k <= n /\ (k + 1) - 1 = k
    OBVIOUS
  <2>2. f[1 .. k + 1] = f[1 .. (k + 1) - 1] + w[k + 1]
    BY <2>1, FoldSteps
  <2>3. f[1 .. k + 1] = f[1 .. k] + w[k + 1]
    BY <2>1, <2>2
  <2>4. f[1 .. k] \in Int
    BY <1>2, <2>1
  <2>. QED
    BY <2>1, <2>3, <2>4 DEF AllNumbers
<1>. HIDE DEF S
<1>3. Nat \subseteq S
  BY <1>1, <1>2, Induction
<1>. QED
  BY <1>3 DEF S

(* The sums of the numbers behind the first d are those of all numbers,    *)
(* less that of the first d.                                               *)
LEMMA FoldShift ==
    ASSUME NEW d \in Nat, NEW m \in Nat, NEW n \in Nat, d + m <= n,
           NEW w, AllNumbers(w, n), NEW v, Shifted(v, w, m, d),
           NEW f, IsFold(w, n, f), NEW g, IsFold(v, m, g)
    PROVE  \A k \in 0 .. m : g[1 .. k] = f[1 .. k + d] - f[1 .. d]
<1>. DEFINE S == {k \in Nat : k <= m => g[1 .. k] = f[1 .. k + d] - f[1 .. d]}
<1>0. \A k \in 0 .. n : f[1 .. k] \in Int
  BY FoldType
<1>1. 0 \in S
  <2>0. g[1 .. 0] = 0
    BY FoldSteps
  <2>1. g[1 .. 0] = 0 /\ 0 + d = d /\ d \in 0 .. n
    BY <2>0
  <2>2. f[1 .. d] \in Int
    BY <1>0, <2>1
  <2>3. f[1 .. d] - f[1 .. d] = 0
    BY <2>2
  <2>. QED
    BY <2>1, <2>3
<1>2. ASSUME NEW k \in Nat, k \in S PROVE k + 1 \in S
  <2>. SUFFICES ASSUME k + 1 <= m PROVE g[1 .. k + 1] = f[1 .. (k + 1) + d] - f[1 .. d]
    OBVIOUS
  <2>1. /\ k + 1 \in 1 .. m /\ k <= m /\ (k + 1) - 1 = k
        /\ (k + 1) + d \in 1 .. n /\ ((k + 1) + d) - 1 = k + d
        /\ d \in 0 .. n /\ k + d \in 0 .. n
    OBVIOUS
  <2>2. g[1 .. k + 1] = g[1 .. (k + 1) - 1] + v[k + 1]
    BY <2>1, FoldSteps
  <2>3. f[1 .. (k + 1) + d] = f[1 .. ((k + 1) + d) - 1] + w[(k + 1) + d]
    BY <2>1, FoldSteps
  <2>4. g[1 .. k] = f[1 .. k + d] - f[1 .. d]
    BY <1>2, <2>1
  <2>5. f[1 .. k + d] \in Int /\ f[1 .. d] \in Int /\ w[(k + 1) + d] \in Int
    BY <1>0, <2>1 DEF AllNumbers
  <2>6. v[k + 1] = w[(k + 1) + d]
    BY <2>1 DEF Shifted
  <2>7. /\ g[1 .. k + 1] = (f[1 .. k + d] - f[1 .. d]) + w[(k + 1) + d]
        /\ f[1 .. (k + 1) + d] = f[1 .. k + d] + w[(k + 1) + d]
    BY <2>1, <2>2, <2>3, <2>4, <2>6
  <2>. QED
    BY <2>5, <2>7
<1>. HIDE DEF S
<1>3. Nat \subseteq S
  BY <1>1, <1>2, Induction
<1>. QED
  BY <1>3 DEF S
(* One number more at the end.                                             *)
LEMMA FoldPush ==
    ASSUME NEW n \in Nat, NEW w, AllNumbers(w, n + 1), NEW v, Shifted(v, w, n, 0),
           NEW f, IsFold(v, n, f), NEW g, IsFold(w, n + 1, g)
    PROVE  g[1 .. n + 1] = f[1 .. n] + w[n + 1]
<1>1. n + 1 \in Nat /\ 0 + n <= n + 1 /\ n \in 0 .. n /\ n \in 0 .. n + 1
      /\ n + 1 \in 1 .. n + 1 /\ (n + 1) - 1 = n /\ n + 0 = n /\ 0 \in Nat
  OBVIOUS
<1>. DEFINE m == n + 1
<1>m. m = n + 1
  OBVIOUS
<1>. HIDE DEF m
<1>2. /\ m \in Nat /\ 0 + n <= m /\ n \in 0 .. m /\ m \in 1 .. m /\ m - 1 = n
      /\ AllNumbers(w, m) /\ IsFold(w, m, g)
  BY <1>1, <1>m
<1>3. \A k \in 0 .. n : f[1 .. k] = g[1 .. k + 0] - g[1 .. 0]
  BY <1>1, <1>2, FoldShift
<1>4. g[1 .. 0] = 0 /\ \A k \in 1 .. m : g[1 .. k] = g[1 .. k - 1] + w[k]
  BY <1>2, FoldSteps
<1>5. \A k \in 0 .. m : g[1 .. k] \in Int
  BY <1>2, FoldType
<1>6. f[1 .. n] = g[1 .. n]
  <2>1. f[1 .. n] = g[1 .. n + 0] - g[1 .. 0]
    BY <1>1, <1>3
  <2>2. g[1 .. n] \in Int
    BY <1>2, <1>5
  <2>. QED
    BY <1>1, <1>4, <2>1, <2>2
<1>7. g[1 .. m] = g[1 .. m - 1] + w[m]
  BY <1>2, <1>4
<1>. QED
  BY <1>2, <1>6, <1>7, <1>m

(* One number less at the front.                                           *)
LEMMA FoldPop ==
    ASSUME NEW n \in Nat \ {0}, NEW w, AllNumbers(w, n), NEW v, Shifted(v, w, n - 1, 1),
           NEW f, IsFold(w, n, f), NEW g, IsFold(v, n - 1, g)
    PROVE  g[1 .. n - 1] = f[1 .. n] - w[1]
<1>. DEFINE m == n - 1
<1>m. m = n - 1
  OBVIOUS
<1>. HIDE DEF m
<1>1. /\ n \in Nat /\ m \in Nat /\ 1 + m <= n /\ m \in 0 .. m /\ m + 1 = n
      /\ 1 \in 1 .. n /\ 1 \in Nat /\ 1 - 1 = 0
      /\ Shifted(v, w, m, 1) /\ IsFold(v, m, g)
  BY <1>m
<1>2. \A k \in 0 .. m : g[1 .. k] = f[1 .. k + 1] - f[1 .. 1]
  <2>. DEFINE d == 1
  <2>1. d \in Nat /\ d + m <= n /\ Shifted(v, w, m, d)
    BY <1>1
  <2>. HIDE DEF d
  <2>2. \A k \in 0 .. m : g[1 .. k] = f[1 .. k + d] - f[1 .. d]
    BY <1>1, <2>1, FoldShift
  <2>. QED
    BY <2>2 DEF d
<1>3. f[1 .. 0] = 0 /\ \A k \in 1 .. n : f[1 .. k] = f[1 .. k - 1] + w[k]
  BY <1>1, FoldSteps
<1>4. f[1 .. 1] = w[1]
  <2>1. f[1 .. 1] = f[1 .. 1 - 1] + w[1]
    BY <1>1, <1>3
  <2>2. w[1] \in Int
    BY <1>1 DEF AllNumbers
  <2>. QED
    BY <1>1, <1>3, <2>1, <2>2
<1>5. g[1 .. m] = f[1 .. m + 1] - f[1 .. 1]
  BY <1>1, <1>2
<1>. QED
  BY <1>1, <1>4, <1>5, <1>m
=============================================================================
