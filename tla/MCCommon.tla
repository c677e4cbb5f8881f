------------------------------ MODULE MCCommon ------------------------------
(* The small classes of common/ and the page checksum, one in each         *)
(* behaviour: subject is the one that moves, the others stay as they are   *)
(* initialised.                                                            *)
EXTENDS Bitmap, PageChecksum, Value

VARIABLE subject

vars == <<subject, bitmap_vars, page_vars, value_vars>>

MCBytes == {{}, {1, 7}}
MCValues == {
    Holding("INTEGER", -2), Holding("BOOLEAN", 1), Holding("TIMESTAMP", 70000),
    Holding("VARCHAR", <<97>>), Holding("CHAR", <<98, 32>>), Holding("CHAR", <<97, 0, 97>>),
    set_null(Holding("FLOAT", 1), TRUE), Null("VARCHAR"), Null("UNDEFINED")}
MCTails == {<<>>, <<7>>, <<7, 0>>}

Init ==
    /\ subject \in {"bitmap", "page", "value"}
    /\ BitmapInit /\ PageInit /\ ValueInit
    /\ subject # "bitmap" => size_ = 0
    /\ subject # "value" => tail = <<>>

Next ==
    \/ subject = "bitmap" /\ BitmapNext /\ UNCHANGED <<subject, page_vars, value_vars>>
    \/ subject = "page" /\ PageNext /\ UNCHANGED <<subject, bitmap_vars, value_vars>>
    \/ subject = "value" /\ ValueNext /\ UNCHANGED <<subject, bitmap_vars, page_vars>>

Spec == Init /\ [][Next]_vars

(* Behaviours are not followed beyond two threads that verify a damaged    *)
(* page at once: nothing is said of what comes then.                       *)
Followed == ~raced

VerifierSymmetry == Permutations(Verifier)

(* The double write buffer looks for crc32(), which is another function:   *)
(* load_pages() refuses the pages that calc_checksum() has stamped.        *)
ASSUME StampsDiffer == \A d \in [1 .. DataSize -> ByteValue] : calc_checksum(d) # crc32(d)
=============================================================================
