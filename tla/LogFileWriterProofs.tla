------------------------- MODULE LogFileWriterProofs -------------------------
(***************************************************************************)
(* What the operations of the log file writer do to the files, for every   *)
(* set of file names and every number of failing writes: the lemmas that   *)
(* the proofs about LogBuffer and LogFileManager share.                    *)
(***************************************************************************)
EXTENDS LogFileWriter, TLAPS

(* No LSN is stored in full twice, and within a file they ascend.          *)
Ascending(fs) ==
    \A n, m \in FileName :
        \A i \in 1 .. Len(fs[n]), j \in 1 .. Len(fs[m]) :
            Whole(fs[n][i]) /\ Whole(fs[m][j]) =>
                /\ fs[n][i].lsn = fs[m][j].lsn => n = m /\ i = j
                /\ n = m /\ i < j => fs[n][i].lsn < fs[m][j].lsn

-----------------------------------------------------------------------------
(* Types.                                                                  *)

(* An item added to one file leaves the files well-typed.                  *)
LEMMA AddItemType ==
    ASSUME NEW fs \in [FileName -> Seq(Item)], NEW n \in FileName, NEW item \in Item
    PROVE  [fs EXCEPT ![n] = Append(@, item)] \in [FileName -> Seq(Item)]
  OBVIOUS

(* What reaches the file is an item.                                       *)
LEMMA ItemType ==
    ASSUME NEW e \in Entry, NEW n \in Nat
    PROVE  ItemOf(e, n) \in Item
  BY DEF Entry, ItemOf, Item

(* An entry has a header at least.                                         *)
LEMMA TotalSizeType ==
    ASSUME NEW e \in Entry
    PROVE  total_size(e) \in Nat \ {0}
  BY HeadSizeAssumption DEF Entry, total_size

(* The operations of the writer keep its types.                            *)
LEMMA WriterTypes ==
    ASSUME WriterTypeOK, NEW e \in Entry,
           \/ UNCHANGED writer_vars
           \/ WriteDone(e)
           \/ WriteFails(e)
           \/ \E name \in FileName, end_lsn \in Int : Open(name, end_lsn)
           \/ Close
    PROVE  WriterTypeOK'
<1>1. CASE UNCHANGED writer_vars
  BY <1>1 DEF WriterTypeOK, writer_vars, Writer
<1>2. CASE WriteDone(e)
  <2>1. writer.file \in FileName
    BY <1>2 DEF WriterTypeOK, Writer, WriteDone, Refuses, is_open
  <2>2. ItemOf(e, total_size(e)) \in Item
    BY ItemType, TotalSizeType
  <2>3. files' \in [FileName -> Seq(Item)]
    BY <1>2, <2>1, <2>2, AddItemType DEF WriterTypeOK, WriteDone
  <2>4. writer' \in Writer
    BY <1>2, <2>1 DEF WriterTypeOK, Writer, WriteDone, Entry
  <2>. QED
    BY <1>2, <2>3, <2>4 DEF WriterTypeOK, WriteDone
<1>3. CASE WriteRefused(e)
  BY <1>3 DEF WriterTypeOK, WriteRefused, writer_vars, Writer
<1>4. CASE WriteTorn(e)
  <2>1. writer.file \in FileName
    BY <1>4 DEF WriterTypeOK, Writer, WriteTorn, Refuses, is_open
  <2>2. PICK n \in 0 .. total_size(e) - 1 :
            files' = IF n = 0 THEN files
                     ELSE [files EXCEPT ![writer.file] = Append(@, ItemOf(e, n))]
    BY <1>4 DEF WriteTorn
  <2>3. ItemOf(e, n) \in Item
    BY ItemType, TotalSizeType
  <2>4. files' \in [FileName -> Seq(Item)]
    BY <2>1, <2>2, <2>3, AddItemType DEF WriterTypeOK
  <2>5. io_errors' \in 0 .. MaxIoErrors
    BY <1>4, IoErrorsAssumption DEF WriterTypeOK, WriteTorn
  <2>. QED
    BY <1>4, <2>4, <2>5 DEF WriterTypeOK, WriteTorn
<1>5. ASSUME NEW name \in FileName, NEW end_lsn \in Int, Open(name, end_lsn)
      PROVE  WriterTypeOK'
  BY <1>5 DEF WriterTypeOK, Writer, Open
<1>6. CASE Close
  BY <1>6 DEF WriterTypeOK, Writer, Close
<1>. QED
  BY <1>1, <1>2, <1>3, <1>4, <1>5, <1>6 DEF WriteFails


-----------------------------------------------------------------------------
(* What is on disk.                                                        *)

(* Membership in StoredIn, spelled out.                                    *)
LEMMA StoredMember ==
    ASSUME NEW fs, NEW x
    PROVE  x \in StoredIn(fs) <=>
             \E n \in FileName : \E i \in 1 .. Len(fs[n]) :
                 Whole(fs[n][i]) /\ fs[n][i].lsn = x
  BY DEF StoredIn

(* A file gets an item at its end; every other item stays in its place.    *)
LEMMA Places ==
    ASSUME NEW fs \in [FileName -> Seq(Item)], NEW n \in FileName, NEW item \in Item,
           NEW gs, gs = [fs EXCEPT ![n] = Append(@, item)]
    PROVE  /\ \A m \in FileName : Len(fs[m]) \in Nat
           /\ Len(fs[n]) + 1 \in 1 .. Len(gs[n]) /\ gs[n][Len(fs[n]) + 1] = item
           /\ \A m \in FileName : \A i \in 1 .. Len(fs[m]) :
                 i \in 1 .. Len(gs[m]) /\ gs[m][i] = fs[m][i]
           /\ \A m \in FileName : \A i \in 1 .. Len(gs[m]) :
                 \/ i \in 1 .. Len(fs[m]) /\ gs[m][i] = fs[m][i]
                 \/ m = n /\ i = Len(fs[n]) + 1 /\ gs[m][i] = item
<1>1. /\ \A m \in FileName : Len(fs[m]) \in Nat
      /\ \A m \in FileName \ {n} : gs[m] = fs[m]
      /\ Len(gs[n]) = Len(fs[n]) + 1
      /\ \A i \in 1 .. Len(fs[n]) : gs[n][i] = fs[n][i]
      /\ gs[n][Len(fs[n]) + 1] = item
  OBVIOUS
<1>2. ASSUME NEW m \in FileName, NEW i \in 1 .. Len(fs[m])
      PROVE  i \in 1 .. Len(gs[m]) /\ gs[m][i] = fs[m][i]
  <2>1. CASE m = n
    BY <1>1, <2>1
  <2>2. CASE m # n
    BY <1>1, <2>2
  <2>. QED
    BY <2>1, <2>2
<1>3. ASSUME NEW m \in FileName, NEW i \in 1 .. Len(gs[m])
      PROVE  \/ i \in 1 .. Len(fs[m]) /\ gs[m][i] = fs[m][i]
             \/ m = n /\ i = Len(fs[n]) + 1 /\ gs[m][i] = item
  <2>1. CASE m = n
    BY <1>1, <2>1
  <2>2. CASE m # n
    BY <1>1, <2>2
  <2>. QED
    BY <2>1, <2>2
<1>. QED
  BY <1>1, <1>2, <1>3

(* An item added to a file is stored when it is whole, and takes nothing   *)
(* away.                                                                   *)
LEMMA StoredAdd ==
    ASSUME NEW fs \in [FileName -> Seq(Item)], NEW n \in FileName, NEW item \in Item
    PROVE  StoredIn([fs EXCEPT ![n] = Append(@, item)]) =
             StoredIn(fs) \cup (IF Whole(item) THEN {item.lsn} ELSE {})
<1>. DEFINE gs == [fs EXCEPT ![n] = Append(@, item)]
<1>1. /\ Len(fs[n]) + 1 \in 1 .. Len(gs[n]) /\ gs[n][Len(fs[n]) + 1] = item
      /\ \A m \in FileName : \A i \in 1 .. Len(fs[m]) :
            i \in 1 .. Len(gs[m]) /\ gs[m][i] = fs[m][i]
      /\ \A m \in FileName : \A i \in 1 .. Len(gs[m]) :
            \/ i \in 1 .. Len(fs[m]) /\ gs[m][i] = fs[m][i]
            \/ m = n /\ i = Len(fs[n]) + 1 /\ gs[m][i] = item
  <2>. HIDE DEF gs
  <2>. QED
    BY Places DEF gs
<1>. HIDE DEF gs
<1>2. ASSUME NEW x \in StoredIn(gs)
      PROVE  x \in StoredIn(fs) \/ (Whole(item) /\ x = item.lsn)
  <2>0. PICK m \in FileName :
            \E i \in 1 .. Len(gs[m]) : Whole(gs[m][i]) /\ gs[m][i].lsn = x
    BY <1>2, StoredMember
  <2>1. PICK i \in 1 .. Len(gs[m]) : Whole(gs[m][i]) /\ gs[m][i].lsn = x
    BY <2>0
  <2>2. CASE i \in 1 .. Len(fs[m]) /\ gs[m][i] = fs[m][i]
    BY <2>1, <2>2, StoredMember
  <2>. QED
    BY <1>1, <2>1, <2>2
<1>3. ASSUME NEW x \in StoredIn(fs)
      PROVE  x \in StoredIn(gs)
  <2>0. PICK m \in FileName :
            \E i \in 1 .. Len(fs[m]) : Whole(fs[m][i]) /\ fs[m][i].lsn = x
    BY <1>3, StoredMember
  <2>1. PICK i \in 1 .. Len(fs[m]) : Whole(fs[m][i]) /\ fs[m][i].lsn = x
    BY <2>0
  <2>. QED
    BY <1>1, <2>1, StoredMember
<1>4. Whole(item) => item.lsn \in StoredIn(gs)
  BY <1>1, StoredMember
<1>. QED
  BY <1>2, <1>3, <1>4 DEF gs

(* A completed write stores its entry.                                     *)
LEMMA StoredDone ==
    ASSUME WriterTypeOK, NEW e \in Entry, WriteDone(e)
    PROVE  Stored' = Stored \cup {e.lsn}
<1>. DEFINE item == ItemOf(e, total_size(e))
<1>1. writer.file \in FileName
  BY DEF WriterTypeOK, Writer, WriteDone, Refuses, is_open
<1>2. item \in Item /\ Whole(item) /\ item.lsn = e.lsn
  BY ItemType, TotalSizeType DEF Whole, ItemOf, total_size
<1>3. files' = [files EXCEPT ![writer.file] = Append(@, item)]
  BY DEF WriteDone
<1>. HIDE DEF item
<1>. QED
  BY <1>1, <1>2, <1>3, StoredAdd DEF Stored, WriterTypeOK

(* A write that fails stores nothing.                                      *)
LEMMA StoredKept ==
    ASSUME WriterTypeOK, NEW e \in Entry, WriteFails(e)
    PROVE  Stored' = Stored
<1>1. CASE WriteRefused(e)
  BY <1>1 DEF WriteRefused, writer_vars, Stored
<1>2. CASE WriteTorn(e)
  <2>1. writer.file \in FileName
    BY <1>2 DEF WriterTypeOK, Writer, WriteTorn, Refuses, is_open
  <2>2. PICK n \in 0 .. total_size(e) - 1 :
            files' = IF n = 0 THEN files
                     ELSE [files EXCEPT ![writer.file] = Append(@, ItemOf(e, n))]
    BY <1>2 DEF WriteTorn
  <2>3. ItemOf(e, n) \in Item /\ ~Whole(ItemOf(e, n))
    BY ItemType, TotalSizeType DEF Whole, ItemOf, total_size
  <2>. QED
    BY <2>1, <2>2, <2>3, StoredAdd DEF Stored, WriterTypeOK
<1>. QED
  BY <1>1, <1>2 DEF WriteFails

(* An item behind the others of its file keeps the order, when it is torn  *)
(* or has an LSN above all that are stored.                                *)
LEMMA OrderAdd ==
    ASSUME NEW fs \in [FileName -> Seq(Item)], NEW n \in FileName, NEW item \in Item,
           Ascending(fs), Whole(item) => \A x \in StoredIn(fs) : x < item.lsn
    PROVE  Ascending([fs EXCEPT ![n] = Append(@, item)])
<1>. DEFINE gs == [fs EXCEPT ![n] = Append(@, item)]
<1>1. /\ \A m \in FileName : Len(fs[m]) \in Nat
      /\ \A m \in FileName : \A i \in 1 .. Len(gs[m]) :
            \/ i \in 1 .. Len(fs[m]) /\ gs[m][i] = fs[m][i]
            \/ m = n /\ i = Len(fs[n]) + 1 /\ gs[m][i] = item
  <2>. HIDE DEF gs
  <2>. QED
    BY Places DEF gs
<1>. HIDE DEF gs
<1>2. /\ \A m \in FileName : \A i \in 1 .. Len(fs[m]) : fs[m][i].lsn \in Int
      /\ item.lsn \in Int
  <2>1. \A it \in Item : it.lsn \in Int
    BY DEF Item
  <2>2. \A m \in FileName : \A i \in 1 .. Len(fs[m]) : fs[m][i] \in Item
    OBVIOUS
  <2>. QED
    BY <2>1, <2>2
<1>3. ASSUME Whole(item), NEW m \in FileName, NEW i \in 1 .. Len(fs[m]),
             Whole(fs[m][i])
      PROVE  fs[m][i].lsn < item.lsn
  BY <1>3, StoredMember
<1>4. SUFFICES ASSUME NEW m \in FileName, NEW k \in FileName,
                      NEW i \in 1 .. Len(gs[m]), NEW j \in 1 .. Len(gs[k]),
                      Whole(gs[m][i]), Whole(gs[k][j])
               PROVE  /\ gs[m][i].lsn = gs[k][j].lsn => m = k /\ i = j
                      /\ m = k /\ i < j => gs[m][i].lsn < gs[k][j].lsn
  BY DEF Ascending, gs
<1>5. CASE /\ i \in 1 .. Len(fs[m]) /\ gs[m][i] = fs[m][i]
           /\ j \in 1 .. Len(fs[k]) /\ gs[k][j] = fs[k][j]
  BY <1>4, <1>5 DEF Ascending
<1>6. CASE /\ i \in 1 .. Len(fs[m]) /\ gs[m][i] = fs[m][i]
           /\ k = n /\ j = Len(fs[n]) + 1 /\ gs[k][j] = item
  <2>1. fs[m][i].lsn < item.lsn
    BY <1>3, <1>4, <1>6
  <2>. QED
    BY <1>2, <1>6, <2>1
<1>7. CASE /\ m = n /\ i = Len(fs[n]) + 1 /\ gs[m][i] = item
           /\ j \in 1 .. Len(fs[k]) /\ gs[k][j] = fs[k][j]
  <2>1. fs[k][j].lsn < item.lsn
    BY <1>3, <1>4, <1>7
  <2>. QED
    BY <1>1, <1>2, <1>7, <2>1
<1>8. CASE /\ m = n /\ i = Len(fs[n]) + 1
           /\ k = n /\ j = Len(fs[n]) + 1
  BY <1>1, <1>8
<1>. QED
  BY <1>1, <1>5, <1>6, <1>7, <1>8

(* An entry above all that is stored keeps the order.                      *)
LEMMA OrderDone ==
    ASSUME WriterTypeOK, Ascending(files), NEW e \in Entry, WriteDone(e),
           \A x \in Stored : x < e.lsn
    PROVE  Ascending(files')
<1>. DEFINE item == ItemOf(e, total_size(e))
<1>1. writer.file \in FileName
  BY DEF WriterTypeOK, Writer, WriteDone, Refuses, is_open
<1>2. item \in Item /\ item.lsn = e.lsn
  BY ItemType, TotalSizeType DEF ItemOf
<1>3. files' = [files EXCEPT ![writer.file] = Append(@, item)]
  BY DEF WriteDone
<1>. HIDE DEF item
<1>. QED
  BY <1>1, <1>2, <1>3, OrderAdd DEF WriterTypeOK, Stored

(* A write that fails keeps the order.                                     *)
LEMMA OrderKept ==
    ASSUME WriterTypeOK, Ascending(files), NEW e \in Entry, WriteFails(e)
    PROVE  Ascending(files')
<1>1. CASE UNCHANGED files
  BY <1>1
<1>2. CASE WriteTorn(e) /\ ~UNCHANGED files
  <2>1. writer.file \in FileName
    BY <1>2 DEF WriterTypeOK, Writer, WriteTorn, Refuses, is_open
  <2>2. PICK n \in 0 .. total_size(e) - 1 :
            files' = IF n = 0 THEN files
                     ELSE [files EXCEPT ![writer.file] = Append(@, ItemOf(e, n))]
    BY <1>2 DEF WriteTorn
  <2>3. ItemOf(e, n) \in Item /\ ~Whole(ItemOf(e, n))
    BY ItemType, TotalSizeType DEF Whole, ItemOf, total_size
  <2>. QED
    BY <1>2, <2>1, <2>2, <2>3, OrderAdd DEF WriterTypeOK
<1>. QED
  BY <1>1, <1>2 DEF WriteFails, WriteRefused, writer_vars

-----------------------------------------------------------------------------
(* What a reader may count on.                                             *)

(* Every file is one that writes leave, and has no LSN above x.            *)
LeftUpTo(fs, x) ==
    \A n \in FileName : /\ LeftByWriter(fs[n])
                        /\ \A i \in 1 .. Len(fs[n]) : fs[n][i].lsn <= x

(* An item of the highest LSN is added at the end of a file.               *)
LEMMA LeftAdd ==
    ASSUME NEW fs \in [FileName -> Seq(Item)], NEW n \in FileName, NEW item \in Item,
           LeftUpTo(fs, item.lsn), Fits(item.size), item.put \in 1 .. total_size(item)
    PROVE  LeftUpTo([fs EXCEPT ![n] = Append(@, item)], item.lsn)
<1>. DEFINE gs == [fs EXCEPT ![n] = Append(@, item)]
<1>1. /\ \A m \in FileName : Len(fs[m]) \in Nat
      /\ \A m \in FileName : \A i \in 1 .. Len(gs[m]) :
            \/ i \in 1 .. Len(fs[m]) /\ gs[m][i] = fs[m][i]
            \/ m = n /\ i = Len(fs[n]) + 1 /\ gs[m][i] = item
  <2>. HIDE DEF gs
  <2>. QED
    BY Places DEF gs
<1>. HIDE DEF gs
<1>2. item.lsn \in Int
  BY DEF Item
<1>3. ASSUME NEW m \in FileName
      PROVE  /\ LeftByWriter(gs[m])
             /\ \A i \in 1 .. Len(gs[m]) : gs[m][i].lsn <= item.lsn
  <2>1. /\ \A i \in 1 .. Len(fs[m]) : /\ Fits(fs[m][i].size)
                                      /\ fs[m][i].put \in 1 .. total_size(fs[m][i])
                                      /\ fs[m][i].lsn <= item.lsn
        /\ \A i, j \in 1 .. Len(fs[m]) : i < j => fs[m][i].lsn <= fs[m][j].lsn
    BY DEF LeftUpTo, LeftByWriter
  <2>2. \A i \in 1 .. Len(gs[m]) : /\ Fits(gs[m][i].size)
                                   /\ gs[m][i].put \in 1 .. total_size(gs[m][i])
                                   /\ gs[m][i].lsn <= item.lsn
    <3>1. Fits(item.size) /\ item.put \in 1 .. total_size(item) /\ item.lsn <= item.lsn
      BY <1>2
    <3>. QED
      BY <1>1, <2>1, <3>1
  <2>3. ASSUME NEW i \in 1 .. Len(gs[m]), NEW j \in 1 .. Len(gs[m]), i < j
        PROVE  gs[m][i].lsn <= gs[m][j].lsn
    <3>1. CASE j \in 1 .. Len(fs[m]) /\ gs[m][j] = fs[m][j]
      <4>1. i \in 1 .. Len(fs[m]) /\ gs[m][i] = fs[m][i]
        BY <1>1, <2>3, <3>1
      <4>. QED
        BY <2>1, <2>3, <3>1, <4>1
    <3>2. CASE gs[m][j] = item
      BY <2>2, <3>2
    <3>. QED
      BY <1>1, <3>1, <3>2
  <2>. QED
    BY <2>2, <2>3 DEF LeftByWriter
<1>. QED
  BY <1>3 DEF LeftUpTo, gs

(* Whatever becomes of a write of the highest LSN.                         *)
LEMMA LeftWrites ==
    ASSUME WriterTypeOK, NEW e \in Entry, Fits(e.size), LeftUpTo(files, e.lsn),
           WriteDone(e) \/ WriteFails(e)
    PROVE  LeftUpTo(files', e.lsn)
<1>0. total_size(e) \in Nat \ {0}
  BY TotalSizeType
<1>1. ASSUME NEW n \in 1 .. total_size(e), writer.file \in FileName,
             files' = [files EXCEPT ![writer.file] = Append(@, ItemOf(e, n))]
      PROVE  LeftUpTo(files', e.lsn)
  <2>. DEFINE item == ItemOf(e, n)
  <2>1. item \in Item /\ item.lsn = e.lsn /\ Fits(item.size) /\ item.put \in 1 .. total_size(item)
    BY <1>0, ItemType DEF ItemOf, total_size
  <2>2. files' = [files EXCEPT ![writer.file] = Append(@, item)]
    BY <1>1
  <2>. HIDE DEF item
  <2>. QED
    <3>1. files \in [FileName -> Seq(Item)] /\ LeftUpTo(files, item.lsn)
      BY <2>1 DEF WriterTypeOK
    <3>2. LeftUpTo([files EXCEPT ![writer.file] = Append(@, item)], item.lsn)
      BY <1>1, <2>1, <3>1, LeftAdd
    <3>. QED
      BY <2>1, <2>2, <3>2
<1>2. ~Refuses(e) => writer.file \in FileName
  BY DEF WriterTypeOK, Writer, Refuses, is_open
<1>3. CASE WriteDone(e)
  <2>1. total_size(e) \in 1 .. total_size(e)
    BY <1>0
  <2>2. /\ writer.file \in FileName
        /\ files' = [files EXCEPT ![writer.file] = Append(@, ItemOf(e, total_size(e)))]
    BY <1>2, <1>3 DEF WriteDone
  <2>. QED
    BY <1>1, <2>1, <2>2
<1>4. CASE UNCHANGED files
  BY <1>4
<1>5. CASE WriteTorn(e) /\ ~UNCHANGED files
  <2>1. PICK n \in 0 .. total_size(e) - 1 :
            files' = IF n = 0 THEN files
                     ELSE [files EXCEPT ![writer.file] = Append(@, ItemOf(e, n))]
    BY <1>5 DEF WriteTorn
  <2>2. n \in 1 .. total_size(e)
    BY <1>0, <1>5, <2>1
  <2>. QED
    BY <1>1, <1>2, <1>5, <2>1, <2>2 DEF WriteTorn
<1>. QED
  BY <1>3, <1>4, <1>5 DEF WriteFails, WriteRefused, writer_vars
=============================================================================
