-------------------------- MODULE MCLogFileReader --------------------------
(* LogFileReader on small files.                                           *)
EXTENDS LogFileReader

(* The files a writer may leave: up to three items, ascending LSNs with a  *)
(* gap, payloads up to the largest one, the last item torn or a torn one   *)
(* followed by the entry written again.                                    *)
Intact(lsn) == {[lsn |-> lsn, size |-> s, put |-> HEAD_SIZE + s] : s \in 0 .. max_payload_size}
Cut(lsn)    == UNION {{[lsn |-> lsn, size |-> s, put |-> p] : p \in 1 .. HEAD_SIZE + s - 1}
                        : s \in 0 .. max_payload_size}

MCContents ==
    {<<>>}
    \cup {<<x>> : x \in Intact(1) \cup Cut(1)}
    \cup {<<x, y>> : x \in Intact(1), y \in Intact(2) \cup Cut(2)}
    \cup {<<x, y, z>> : x \in Intact(1), y \in Intact(2), z \in Intact(4) \cup Cut(4)}
    \cup {<<x, y, z>> : x \in Intact(1), y \in Cut(2), z \in Intact(2)}

MCIntact == {f \in MCContents : \A i \in DOMAIN f : Whole(f[i])}

MCGarbage == [lsn : {0, 9}, size : {-1, 1, max_payload_size + 1}]
=============================================================================
