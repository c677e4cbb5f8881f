------------------------------- MODULE Value -------------------------------
(***************************************************************************)
(* Value and CharString of common/value.{h,cpp}: values of a column's      *)
(* type, their order, and their bytes.                                     *)
(*                                                                         *)
(* A row writes its values back to back into one buffer and reads each at  *)
(* the place behind the one before, as get_serialized_size() of what was   *)
(* read says.  (Rows have no code yet; this is what the three functions    *)
(* are for.)  A throw ends the row.                                        *)
(*                                                                         *)
(* A number is below 2^23 in size; a float is one whose bits are those of  *)
(* the integer, and no NaN.  A string is a sequence of bytes.              *)
(***************************************************************************)
EXTENDS Integers, Sequences, SequencesExt

CONSTANTS
    Values,   \* the values that are written
    Tails,    \* what the buffer holds behind the row
    MaxRow    \* bound: values in a row

ASSUME MaxRowAssumption == MaxRow \in Nat

VARIABLES
    row,      \* the values written
    buf,
    out,      \* the values read
    pos,      \* bytes read
    tail,
    row_state \* "open", "overread" or "thrown"

value_vars == <<row, buf, out, pos, tail, row_state>>

-----------------------------------------------------------------------------
(* ArrrType, from 1 on; 0 is UNDEFINED.  Data lists its alternatives in    *)
(* another order.                                                          *)
ArrrType == <<"INTEGER", "FLOAT", "VARCHAR", "BOOLEAN", "TIMESTAMP", "CHAR">>
Data == <<"INTEGER", "FLOAT", "BOOLEAN", "VARCHAR", "TIMESTAMP", "CHAR">>
Place(s, x) == IF \E i \in DOMAIN s : s[i] = x THEN CHOOSE i \in DOMAIN s : s[i] = x ELSE 0

(* A value that holds alternative type; and Value(), or a null that was    *)
(* read, whose data are those of Value().                                  *)
Holding(type, val) == [type |-> type, is_null |-> FALSE, holds |-> type, value |-> val]
Null(type) == [type |-> type, is_null |-> TRUE, holds |-> "INTEGER", value |-> 0]
set_null(v, null) == [v EXCEPT !.is_null = null]

Space == 32
Chars(type) == type \in {"VARCHAR", "CHAR"}
Width(type) == CASE type = "TIMESTAMP" -> 8 [] type = "BOOLEAN" -> 1 [] OTHER -> 4

(* What an alternative can be.  Numbers and lengths are below Limit, 2^23. *)
Octet == 0 .. 255
Limit == 128 * 256 * 256
Contents(type) ==
    IF Chars(type) THEN {s \in Seq(Octet) : Len(s) < Limit}
    ELSE IF type = "BOOLEAN" THEN {0, 1} ELSE -Limit .. Limit - 1

IsValue(v) ==
    /\ v = [type |-> v.type, is_null |-> v.is_null, holds |-> v.holds, value |-> v.value]
    /\ v.type \in ToSet(ArrrType) \cup {"UNDEFINED"} /\ v.is_null \in BOOLEAN
    /\ v.holds \in ToSet(ArrrType) /\ v.value \in Contents(v.holds)

ASSUME ValuesAssumption == \A v \in Values : IsValue(v)
ASSUME TailsAssumption  == Tails \subseteq Seq(Octet)

(* The bytes of a number, the lowest first, in two's complement.           *)
Power == <<1, 256, 256 * 256, 256 * 256 * 256>>
Bytes(n, width) == [i \in 1 .. width |-> (n \div Power[IF i > 3 THEN 4 ELSE i]) % 256]
Number(b) ==
    LET low == b[1] + IF Len(b) > 2 THEN Power[2] * b[2] + Power[3] * b[3] ELSE 0
    IN  IF b[Len(b)] > 127 THEN low - Power[4] ELSE low

(* strlen() from place i on; where no NUL follows it runs out of bytes.    *)
Nuls(bytes, i) == {j \in i .. Len(bytes) : bytes[j] = 0}
strlen(bytes, i) ==
    (IF Nuls(bytes, i) = {} THEN Len(bytes) + 1
     ELSE CHOOSE j \in Nuls(bytes, i) : \A k \in Nuls(bytes, i) : j <= k) - i

(* CharString(str, size).                                                  *)
CharString(bytes, i, size) ==
    LET copyLen == IF size < strlen(bytes, i) THEN size ELSE strlen(bytes, i)
    IN  [j \in 1 .. size |-> IF j <= copyLen THEN bytes[i + j - 1] ELSE Space]

-----------------------------------------------------------------------------
(* Order.  Trimmed: the characters CharString compares.                    *)
Trimmed(s) ==
    SubSeq(s, 1, CHOOSE end \in 0 .. Len(s) :
                    /\ \A i \in end + 1 .. Len(s) : s[i] = Space
                    /\ end = 0 \/ s[end] # Space)

Before(s, t) ==
    \E i \in 1 .. Len(t) :
        /\ \A j \in 1 .. i - 1 : j <= Len(s) /\ s[j] = t[j]
        /\ IF i > Len(s) THEN i = Len(s) + 1 ELSE s[i] < t[i]

(* What the alternatives of two values that hold the same one are compared *)
(* by.                                                                     *)
Compared(v) == IF v.holds = "CHAR" THEN Trimmed(v.value) ELSE v.value

Equal(v, w) ==
    /\ v.type = w.type /\ v.is_null = w.is_null
    /\ v.is_null \/ (v.holds = w.holds /\ Compared(v) = Compared(w))

(* Mutant: a null comes before another null.                               *)
LessNulls(v, w) ==
    IF v.type # w.type THEN Place(ArrrType, v.type) < Place(ArrrType, w.type)
    ELSE IF v.is_null \/ w.is_null THEN w.is_null
    ELSE IF v.holds # w.holds THEN Place(Data, v.holds) < Place(Data, w.holds)
    ELSE IF Chars(v.holds) THEN Before(Compared(v), Compared(w))
    ELSE v.value < w.value

Less(v, w) ==
    IF v.type # w.type THEN Place(ArrrType, v.type) < Place(ArrrType, w.type)
    ELSE IF v.is_null \/ w.is_null THEN ~v.is_null /\ w.is_null
    ELSE IF v.holds # w.holds THEN Place(Data, v.holds) < Place(Data, w.holds)
    ELSE IF Chars(v.holds) THEN Before(Compared(v), Compared(w))
    ELSE v.value < w.value

LessOrEqual(v, w) == Less(v, w) \/ Equal(v, w)
Greater(v, w) == ~LessOrEqual(v, w)
GreaterOrEqual(v, w) == ~Less(v, w)

-----------------------------------------------------------------------------
(* std::get<>() of another alternative throws.                             *)
GetThrows(v) == ~v.is_null /\ v.type # "UNDEFINED" /\ v.holds # v.type

Payload(v) ==
    IF v.is_null \/ v.type = "UNDEFINED" THEN <<>>
    ELSE IF Chars(v.type) THEN Bytes(Len(v.value), 4) \o v.value
    ELSE Bytes(v.value, Width(v.type))

serialize_to(v) ==
    Bytes(Place(ArrrType, v.type), 4) \o <<IF v.is_null THEN 1 ELSE 0>> \o Payload(v)

(* Mutant: the length in front of a string is forgotten.                   *)
SerializedSizeBare(v) ==
    5 + IF v.is_null \/ v.type = "UNDEFINED" THEN 0
        ELSE IF Chars(v.type) THEN Len(v.value) ELSE Width(v.type)

get_serialized_size(v) ==
    5 + IF v.is_null \/ v.type = "UNDEFINED" THEN 0
        ELSE IF Chars(v.type) THEN 4 + Len(v.value) ELSE Width(v.type)

(* deserialize_from(bytes + i, type), where it does not throw.             *)
stored_type(bytes, i) == Number(SubSeq(bytes, i + 1, i + 4))
stored_null(bytes, i) == bytes[i + 5] # 0

DeserializeThrows(bytes, i, type) ==
    \/ stored_type(bytes, i) # Place(ArrrType, type)
    \/ type = "UNDEFINED" /\ ~stored_null(bytes, i)

deserialize_from(bytes, i, type) ==
    LET len == Number(SubSeq(bytes, i + 6, i + 9))
    IN  CASE stored_null(bytes, i) -> Null(type)
          [] ~stored_null(bytes, i) /\ type = "VARCHAR" ->
                 Holding(type, SubSeq(bytes, i + 10, i + 9 + len))
          [] ~stored_null(bytes, i) /\ type = "CHAR" ->
                 Holding(type, CharString(bytes, i + 10, len))
          [] OTHER -> Holding(type, Number(SubSeq(bytes, i + 6, i + 5 + Width(type))))

(* It runs out of the buffer: a CHAR behind which no NUL follows.          *)
Overreads(bytes, i, type) ==
    type = "CHAR" /\ ~stored_null(bytes, i) /\ Nuls(bytes, i + 10) = {}

-----------------------------------------------------------------------------
ValueInit ==
    /\ row = <<>> /\ buf = <<>> /\ out = <<>> /\ pos = 0
    /\ tail \in Tails
    /\ row_state = "open"

Write(v) ==
    /\ row_state = "open" /\ Len(row) < MaxRow
    /\ IF GetThrows(v)
       THEN row_state' = "thrown" /\ UNCHANGED <<row, buf>>
       ELSE /\ row' = Append(row, v)
            /\ buf' = buf \o serialize_to(v)
            /\ UNCHANGED row_state
    /\ UNCHANGED <<out, pos, tail>>

(* A value that was read is written again, null or not null.               *)
WriteBack(i, null) == Write(set_null(out[i], null))

Read(type) ==
    /\ row_state = "open" /\ Len(out) < Len(row)
    /\ IF DeserializeThrows(buf \o tail, pos, type)
       THEN row_state' = "thrown" /\ UNCHANGED <<out, pos>>
       ELSE LET v == deserialize_from(buf \o tail, pos, type)
            IN  /\ out' = Append(out, v)
                /\ pos' = pos + get_serialized_size(v)
                /\ row_state' = IF Overreads(buf \o tail, pos, type) THEN "overread" ELSE "open"
    /\ UNCHANGED <<row, buf, tail>>

ValueNext ==
    \/ \E v \in Values : Write(v)
    \/ \E i \in 1 .. Len(out), null \in BOOLEAN : WriteBack(i, null)
    \/ \E type \in ToSet(ArrrType) \cup {"UNDEFINED"} : Read(type)

ValueSpec == ValueInit /\ [][ValueNext]_value_vars

-----------------------------------------------------------------------------
(* Of a CHAR, deserialize_from() keeps what is before its first NUL.       *)
Kept(v) ==
    IF v.is_null THEN Null(v.type)
    ELSE IF v.type = "CHAR" THEN Holding("CHAR", CharString(v.value, 1, Len(v.value)))
    ELSE v

(* The bytes that values take, one behind the other.                       *)
RowBytes(values) == FoldLeft(LAMBDA n, v : n + Len(serialize_to(v)), 0, values)

(* A row comes back value by value: no value shifts the place of those     *)
(* behind it, whatever nulls and strings it has, none reads bytes of       *)
(* another, and only a CHAR at the very end of the buffer makes strlen()   *)
(* run out of it.  What was read can be written and read again, unless its *)
(* null mark was taken off (serialize_to(), deserialize_from(),            *)
(* get_serialized_size(), CharString()).                                   *)
RowRoundTrip ==
    /\ \A i \in DOMAIN out : out[i] = Kept(row[i])
    /\ pos = RowBytes(SubSeq(row, 1, Len(out)))
    /\ row_state = "overread" => Last(row).type = "CHAR" /\ 0 \notin ToSet(tail)

(* operator< orders the values of a row strictly and totally up to         *)
(* operator==, nulls last, also those that hold another alternative than   *)
(* their type says, and the other comparisons agree with the two           *)
(* (operator<, operator==, operator<=, operator>, operator>=).             *)
ValueOrder ==
    LET all == ToSet(row) \cup {set_null(out[i], null) : i \in DOMAIN out, null \in BOOLEAN}
    IN  \A v, w \in all :
            /\ Less(v, w) => ~Less(w, v) /\ ~Equal(v, w)
            /\ Less(v, w) \/ Less(w, v) \/ Equal(v, w)
            /\ LessOrEqual(v, w) <=> ~Less(w, v)
            /\ Greater(v, w) <=> Less(w, v)
            /\ GreaterOrEqual(v, w) <=> LessOrEqual(w, v)
            /\ \A x \in all :
                  /\ Less(v, w) /\ Less(w, x) => Less(v, x)
                  /\ Equal(v, w) => (Less(v, x) <=> Less(w, x)) /\ (Equal(v, x) <=> Equal(w, x))
=============================================================================
