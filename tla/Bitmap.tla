------------------------------- MODULE Bitmap -------------------------------
(***************************************************************************)
(* class Bitmap of common/bitmap/bitmap.{h,cpp}: a set of indexes below    *)
(* size_ in an array of bytes that the caller owns and initialises.        *)
(*                                                                         *)
(* A byte is the set of its bits that are 1; the code's 8 bits to a byte   *)
(* are ByteBits here.                                                      *)
(***************************************************************************)
EXTENDS Integers, FiniteSets

CONSTANTS
    ByteBits,   \* 8 in the code
    MaxBits     \* bound: size_

ASSUME ByteBitsAssumption == ByteBits \in Nat \ {0}
ASSUME MaxBitsAssumption  == MaxBits \in Nat

VARIABLES
    bitmap_,
    size_,
    members    \* history: what was set and not cleared since init()

bitmap_vars == <<bitmap_, size_, members>>

Bit == 0 .. ByteBits - 1
bytes(size) == (size + ByteBits - 1) \div ByteBits

get(index) == index % ByteBits \in bitmap_[index \div ByteBits]

(* init() over any array.                                                  *)
BitmapInit ==
    /\ size_ \in 0 .. MaxBits
    /\ bitmap_ \in [0 .. bytes(size_) - 1 -> SUBSET Bit]
    /\ members = {i \in 0 .. size_ - 1 : get(i)}

set(index) ==
    /\ bitmap_' = [bitmap_ EXCEPT ![index \div ByteBits] = @ \cup {index % ByteBits}]
    /\ members' = members \cup {index}
    /\ UNCHANGED size_

clear(index) ==
    /\ bitmap_' = [bitmap_ EXCEPT ![index \div ByteBits] = @ \ {index % ByteBits}]
    /\ members' = members \ {index}
    /\ UNCHANGED size_

BitmapNext == \E index \in 0 .. size_ - 1 : set(index) \/ clear(index)

BitmapSpec == BitmapInit /\ [][BitmapNext]_bitmap_vars

-----------------------------------------------------------------------------
Least(s) == CHOOSE i \in s : \A j \in s : i <= j
LeastOrNone(s) == IF s = {} THEN -1 ELSE Least(s)

(* find_first_zero() and find_first_one().                                 *)
find_first(one, byte, start) == LeastOrNone({i \in start .. ByteBits - 1 : (i \in byte) = one})

(* Mutant: the place in the first byte is kept for the bytes behind it.    *)
start_in_every_byte(iter, start) == start % ByteBits

(* Where the search begins in byte iter.                                   *)
start_in_byte(iter, start) == IF iter = start \div ByteBits THEN start % ByteBits ELSE 0

(* next_zero_bit() and next_one_bit(): the first byte in which             *)
(* find_first() finds a bit.  One behind size_ is not one.                 *)
next_bit(one, start) ==
    LET found(iter) == find_first(one, bitmap_[iter], start_in_byte(iter, start))
        hits == {iter \in start \div ByteBits .. bytes(size_) - 1 : found(iter) >= 0}
        ret  == IF hits = {} THEN -1 ELSE Least(hits) * ByteBits + found(Least(hits))
    IN  IF ret >= size_ THEN -1 ELSE ret

-----------------------------------------------------------------------------
(* The searches across bytes, from any start, also into a last byte with   *)
(* spare bits, find the first member or gap at or behind start, and no     *)
(* set() or clear() touches another index (set(), clear(), get(),          *)
(* next_zero_bit(), next_one_bit()).                                       *)
BitmapSearch ==
    /\ \A i \in 0 .. size_ - 1 : get(i) <=> i \in members
    /\ \A start \in 0 .. size_ :
          /\ next_bit(TRUE, start) = LeastOrNone({i \in members : i >= start})
          /\ next_bit(FALSE, start) = LeastOrNone((start .. size_ - 1) \ members)
=============================================================================
