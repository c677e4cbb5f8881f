---------------------- MODULE DoubleWriteBufferProofs ----------------------
(***************************************************************************)
(* What holds of DoubleWriteBuffer for any pages, capacity, versions and   *)
(* number of failed writes.                                                *)
(*                                                                         *)
(* The inductive invariant relates an entry in memory to its slot.  While  *)
(* the buffer is used, the entries take the slots 0 .. Count - 1, one      *)
(* each (Places); below Count a slot holds its own entry's page or that of *)
(* a write that failed (Slots); the slots of the last round that the       *)
(* header still counts hold what is in the data files (OwnOnly).  While    *)
(* the buffer recovers, the entries are what load_pages() found.           *)
(***************************************************************************)
EXTENDS DoubleWriteBuffer, DataLemmas

Entries  == DOMAIN dblwr_pages_
Count    == Cardinality(Entries)
Place(k) == dblwr_pages_[k].page_index
Taken(k) == dblwr_pages_[k].version
Freed(k) == dblwr_pages_[k].freed
Trusted  == Key \ (failed \cup twice)

(* What the program counter says of the entries.                           *)
Control ==
    /\ pc \in {"rewrite", "slot", "header", "data", "mark"} => key \in Entries /\ ~Freed(key)
    /\ pc \in {"idle", "rewrite", "slot", "header", "down"} => ~recovering
    /\ pc = "down" => Entries = {}
    /\ todo \subseteq Entries
    /\ pc \in {"flush", "data", "mark"} => \A k \in Entries : Freed(k) \/ k \in todo
    /\ recovering => \A k \in todo : ~Freed(k)

(* The slots the entries have.                                             *)
Places ==
    /\ \A j, k \in Entries : Place(j) = Place(k) => j = k
    /\ ~recovering => \A k \in Entries : Place(k) < Count
    /\ ~recovering => \A i \in Index : i < Count => \E k \in Entries : Place(k) = i
    /\ ~recovering => page_cnt <= Count
    /\ pc \in {"slot", "header"} => Place(key) = Count - 1
    /\ pc = "slot" => page_cnt <= Place(key)
    /\ pc = "header" => page_cnt = Place(key) + 1

(* Nothing is newer than what add_page() was given.                        *)
Versions ==
    /\ \A k \in Key : data[k] <= asked[k]
    /\ \A k \in Entries : Taken(k) <= asked[k]
    /\ ~recovering => \A k \in Entries : Taken(k) = asked[k]
    /\ \A i \in Index : slot[i].version # Torn =>
          slot[i].key \in Key /\ slot[i].version <= asked[slot[i].key]

(* The slot of the entry k holds its page.                                 *)
InSlot(k) == slot[Place(k)].key = k /\ slot[Place(k)].version = Taken(k)

(* A slot below Count holds its own entry's page, unless a write failed.   *)
SlotsOwned ==
    \A k \in Entries : ~(pc = "slot" /\ key = k) /\ slot[Place(k)].version # Torn =>
        slot[Place(k)].key = k \/ slot[Place(k)].key \in failed

(* What is in the slot of an entry, from add_page() to flush_page().       *)
SlotsHold ==
    \A k \in Entries \ failed :
        /\ ~Freed(k) /\ ~(pc \in {"slot", "rewrite", "header"} /\ key = k) =>
              Place(k) < header /\ InSlot(k)
        /\ pc = "header" /\ key = k => InSlot(k)
        /\ pc = "rewrite" /\ key = k =>
              Place(k) < header /\ slot[Place(k)].key = k /\ slot[Place(k)].version # Torn
        /\ Freed(k) => data[k] = Taken(k) /\ (slot[Place(k)].version = Torn \/ slot[Place(k)].version = data[k])
        /\ pc = "mark" /\ key = k => data[k] = Taken(k)

(* A page is torn in its data file only while it is about to be recovered. *)
NotTorn ==
    \A k \in Key \ failed : data[k] = Torn =>
        \/ pc = "down" /\ \E i \in Accepted : slot[i].key = k
        \/ recovering /\ k \in todo

(* No slot that load_pages() would take is older than the data file.       *)
Newer ==
    /\ \A i \in Accepted : slot[i].key \in Trusted => slot[i].version >= data[slot[i].key]
    /\ \A k \in Entries \cap Trusted : Taken(k) >= data[k]

(* Of a page with an entry only the entry's slot is left; what else is in  *)
(* the file is in the data files as well.                                  *)
OwnOnly ==
    pc # "down" => \A i \in Accepted : slot[i].key \in Trusted =>
        \/ slot[i].key \in Entries /\ i = Place(slot[i].key)
        \/ /\ slot[i].key \in Entries => pc \in {"slot", "header"} /\ key = slot[i].key
           /\ slot[i].version = data[slot[i].key]

DInv == /\ TypeOK /\ Control /\ Places /\ Versions /\ SlotsOwned /\ SlotsHold
        /\ NotTorn /\ Newer /\ OwnOnly

-----------------------------------------------------------------------------
(* Facts about the parts.                                                  *)

(* The entries and the slots are numbered.                                 *)
LEMMA Numbers ==
    ASSUME TypeOK
    PROVE  /\ Cardinality(Key) \in Nat /\ Index \subseteq Nat
           /\ Entries \subseteq Key /\ IsFiniteSet(Entries) /\ Count \in 0 .. Cardinality(Key)
           /\ \A k \in Entries : Place(k) \in Index /\ Taken(k) \in Version /\ Freed(k) \in BOOLEAN
           /\ \A i \in Index : /\ slot[i].key \in Key \/ slot[i].key = NoKey
                               /\ slot[i].version \in Version \/ slot[i].version = Torn
           /\ Torn = -1 /\ \A v \in Version : v \in Nat
           /\ \A k \in Key : asked[k] \in Nat /\ data[k] \in Int
<1>1. Cardinality(Key) \in Nat
  BY KeyAssumption, FS_CardinalityType
<1>2. Entries \subseteq Key
  BY DEF TypeOK, Entries
<1>3. IsFiniteSet(Entries) /\ Count \in 0 .. Cardinality(Key)
  BY <1>1, <1>2, KeyAssumption, FS_Subset, FS_CardinalityType DEF Count
<1>4. \A k \in Entries : Place(k) \in Index /\ Taken(k) \in Version /\ Freed(k) \in BOOLEAN
  BY DEF TypeOK, Entries, Place, Taken, Freed, DoubleWritePage
<1>5. \A i \in Index : /\ slot[i].key \in Key \/ slot[i].key = NoKey
                       /\ slot[i].version \in Version \/ slot[i].version = Torn
  BY DEF TypeOK, SlotPage
<1>6. Torn = -1 /\ \A v \in Version : v \in Nat
  BY DEF Version, Torn
<1>7. \A k \in Key : asked[k] \in Version /\ (data[k] \in Version \/ data[k] = Torn)
  BY DEF TypeOK
<1>8. \A k \in Key : asked[k] \in Nat /\ data[k] \in Int
  BY <1>6, <1>7
<1>. QED
  BY <1>1, <1>2, <1>3, <1>4, <1>5, <1>6, <1>8 DEF Index

(* A step that leaves the memory alone leaves what is said of it.          *)
KeepEntries ==
    /\ dblwr_pages_' = dblwr_pages_ /\ Entries' = Entries /\ Count' = Count
    /\ \A k \in Entries : Place(k)' = Place(k) /\ Taken(k)' = Taken(k) /\ (Freed(k)' <=> Freed(k))

(* It is enough to look at dblwr_pages_.                                   *)
LEMMA SameEntries ==
    ASSUME UNCHANGED dblwr_pages_
    PROVE  KeepEntries
  BY DEF KeepEntries, Entries, Count, Place, Taken, Freed

(* The slot of k is written.                                               *)
LEMMA Written ==
    ASSUME TypeOK, NEW k \in Entries, WriteSlot(k)
    PROVE  /\ slot' \in [Index -> SlotPage]
           /\ slot'[Place(k)].key = k /\ slot'[Place(k)].version = Taken(k)
           /\ \A i \in Index : i # Place(k) => slot'[i] = slot[i]
<1>1. Place(k) \in Index /\ Taken(k) \in Version /\ k \in Key
  BY Numbers
<1>2. slot' = [slot EXCEPT ![Place(k)] = SlotOf(k)]
  BY DEF WriteSlot, Place
<1>3. SlotOf(k) \in SlotPage /\ SlotOf(k).key = k /\ SlotOf(k).version = Taken(k)
  BY <1>1 DEF SlotOf, SlotPage, Taken
<1>. QED
  BY <1>1, <1>2, <1>3 DEF TypeOK

(* The slot of k is torn.                                                  *)
LEMMA TornApart ==
    ASSUME TypeOK, NEW k \in Entries, TearSlot(k)
    PROVE  /\ slot' \in [Index -> SlotPage]
           /\ slot'[Place(k)].version = Torn
           /\ slot'[Place(k)].key = slot[Place(k)].key
           /\ \A i \in Index : i # Place(k) => slot'[i] = slot[i]
<1>1. Place(k) \in Index
  BY Numbers
<1>2. slot' = [slot EXCEPT ![Place(k)].version = Torn]
  BY DEF TearSlot, Place
<1>. QED
  BY <1>1, <1>2 DEF TypeOK, SlotPage

(* The first of the slots of k among A, if it has one.                     *)
FirstIn(A, s, k) == {i \in A : s[i].key = k /\ \A j \in A : s[j].key = k => i <= j}

(* It is one slot, and there is one as soon as some slot holds k.          *)
LEMMA FirstCopy ==
    ASSUME NEW A \in SUBSET Nat, NEW s, NEW k
    PROVE  \/ FirstIn(A, s, k) = {} /\ \A i \in A : s[i].key # k
           \/ /\ FirstIn(A, s, k) # {}
              /\ (CHOOSE n \in FirstIn(A, s, k) : TRUE) \in FirstIn(A, s, k)
<1>. DEFINE C == FirstIn(A, s, k)
<1>1. CASE C # {}
  BY <1>1
<1>2. ASSUME C = {}, NEW n \in A, s[n].key = k PROVE FALSE
  <2>. DEFINE S == {i \in A : s[i].key = k}
  <2>1. S \in SUBSET Nat /\ S # {}
    BY <1>2
  <2>2. PICK i \in S : \A j \in S : i <= j
    <3>. HIDE DEF S
    <3>. QED
      BY <2>1, LeastNumber
  <2>3. i \in C
    BY <2>2 DEF FirstIn
  <2>. QED
    BY <1>2, <2>3
<1>. QED
  BY <1>1, <1>2

(* An entry that waits to be flushed has its copy in the file.             *)
LEMMA HasCopy ==
    ASSUME TypeOK, SlotsHold, NEW j \in Entries \ failed, ~Freed(j),
           ~(pc \in {"slot", "rewrite", "header"} /\ key = j)
    PROVE  /\ Place(j) \in Accepted
           /\ slot[Place(j)].key = j /\ slot[Place(j)].version = Taken(j)
<1>1. Place(j) < header /\ slot[Place(j)].key = j /\ slot[Place(j)].version = Taken(j)
  BY DEF SlotsHold, InSlot
<1>2. Place(j) \in Index /\ Taken(j) # Torn
  BY Numbers
<1>. QED
  BY <1>1, <1>2 DEF Accepted

(* One step.                                                               *)
LEMMA StepDInv == DInv /\ [Next]_vars => DInv'
<1>. SUFFICES ASSUME DInv, [Next]_vars PROVE DInv'
  OBVIOUS
<1>0. TypeOK /\ Control /\ Places /\ Versions /\ SlotsOwned /\ SlotsHold /\ NotTorn /\ Newer /\ OwnOnly
  BY DEF DInv
<1>n. /\ Cardinality(Key) \in Nat /\ Index \subseteq Nat
      /\ Entries \subseteq Key /\ IsFiniteSet(Entries) /\ Count \in 0 .. Cardinality(Key)
      /\ \A k \in Entries : Place(k) \in Index /\ Taken(k) \in Version /\ Freed(k) \in BOOLEAN
      /\ \A i \in Index : /\ slot[i].key \in Key \/ slot[i].key = NoKey
                          /\ slot[i].version \in Version \/ slot[i].version = Torn
      /\ Torn = -1 /\ \A v \in Version : v \in Nat
      /\ \A k \in Key : asked[k] \in Nat /\ data[k] \in Int
      /\ NoKey \notin Key
  BY <1>0, Numbers, KeyAssumption
<1>1. ASSUME NEW k \in Key, AddHit(k)
      PROVE  DInv'
  <2>1. pc = "idle" /\ k \in Entries /\ ~Freed(k) /\ pc' = "rewrite" /\ key' = k
        /\ UNCHANGED <<page_cnt, header, slot, data, todo, recovering, failed, twice, cut, faults>>
    BY <1>0, <1>1 DEF AddHit, Goto, Buffered, Entries, Freed, disk_vars, history_vars
  <2>2. asked[k] + 1 \in Version /\ asked' = [asked EXCEPT ![k] = asked[k] + 1]
    BY <1>0, <1>1, BoundAssumption DEF AddHit, TypeOK, Version
  <2>3. Entries' = Entries /\ Count' = Count
        /\ \A j \in Entries : Place(j)' = Place(j) /\ (Freed(j)' <=> Freed(j)) /\ (j # k => Taken(j)' = Taken(j))
    BY <1>0, <1>1 DEF AddHit, Buffered, Entries, Count, Place, Taken, Freed
  <2>4. asked'[k] = asked[k] + 1 /\ \A j \in Key : j # k => asked'[j] = asked[j]
    BY <1>0, <2>2 DEF TypeOK
  <2>5. Taken(k)' = asked[k] + 1
    BY <1>0, <2>1, <1>1 DEF AddHit, Taken, Entries, TypeOK, DoubleWritePage
  <2>6. DOMAIN dblwr_pages_' \subseteq Key /\ \A j \in DOMAIN dblwr_pages_' : dblwr_pages_'[j] \in DoubleWritePage
    BY <1>0, <2>1, <2>2, <1>1 DEF AddHit, TypeOK, Entries, DoubleWritePage
  <2>7. TypeOK'
    BY <1>0, <1>n, <2>1, <2>2, <2>3, <2>4, <2>5, <2>6 DEF TypeOK
  <2>8. Control'
    BY <1>0, <1>n, <2>1, <2>2, <2>3, <2>4, <2>5, <2>6 DEF Control
  <2>9. Places'
    BY <1>0, <1>n, <2>1, <2>2, <2>3, <2>4, <2>5, <2>6 DEF Places, Control
  <2>10. Versions'
    <3>1. \A j \in Key : asked[j] <= asked'[j] /\ asked'[j] \in Nat
      BY <1>n, <2>1, <2>2, <2>3, <2>4, <2>5, <2>6
    <3>2. \A j \in Key : data'[j] <= asked'[j]
      BY <1>0, <1>n, <2>1, <3>1 DEF Versions
    <3>3. \A j \in Entries' : Taken(j)' <= asked'[j] /\ Taken(j)' = asked'[j]
      BY <1>0, <1>n, <2>1, <2>2, <2>3, <2>4, <2>5, <2>6 DEF Versions, Control
    <3>4. ASSUME NEW i \in Index, slot[i].version # Torn
          PROVE  slot[i].key \in Key /\ slot[i].version <= asked'[slot[i].key]
      <4>1. slot[i].key \in Key /\ slot[i].version <= asked[slot[i].key] /\ slot[i].version \in Nat
        BY <1>0, <1>n, <3>4 DEF Versions
      <4>. QED
        BY <1>n, <3>1, <4>1
    <3>. QED
      BY <2>1, <3>2, <3>3, <3>4 DEF Versions
  <2>11. SlotsOwned'
    BY <1>0, <1>n, <2>1, <2>2, <2>3, <2>4, <2>5, <2>6 DEF SlotsOwned, Control, Places
  <2>12. SlotsHold'
    <3>1. ASSUME NEW j \in Entries \ failed, j # k
          PROVE  InSlot(j)' <=> InSlot(j)
      BY <2>1, <2>2, <2>3, <2>4, <2>5, <2>6, <3>1 DEF InSlot
    <3>2. k \notin failed => Place(k) < header /\ InSlot(k) /\ Taken(k) \in Nat
      BY <1>0, <1>n, <2>1 DEF SlotsHold
    <3>3. k \notin failed => slot[Place(k)].key = k /\ slot[Place(k)].version # Torn
      BY <1>n, <3>2 DEF InSlot
    <3>. QED
      BY <1>0, <2>1, <2>2, <2>3, <2>4, <2>5, <2>6, <3>1, <3>2, <3>3 DEF SlotsHold
  <2>13. NotTorn'
    BY <1>0, <1>n, <2>1, <2>2, <2>3, <2>4, <2>5, <2>6 DEF NotTorn, SlotsHold, InSlot, Control, Accepted
  <2>14. Newer'
    <3>1. \A j \in Entries' \cap Trusted' : Taken(j)' >= data'[j]
      BY <1>0, <1>n, <2>1, <2>2, <2>3, <2>4, <2>5, <2>6 DEF Newer, Trusted, Versions
    <3>2. \A i \in Accepted' : slot'[i].key \in Trusted' => slot'[i].version >= data'[slot'[i].key]
      BY <1>0, <2>1 DEF Newer, Trusted, Accepted
    <3>. QED
      BY <3>1, <3>2 DEF Newer
  <2>15. OwnOnly'
    BY <1>0, <1>n, <2>1, <2>2, <2>3, <2>4, <2>5, <2>6 DEF OwnOnly, Trusted, Accepted, Control, SlotsHold, SlotsOwned, InSlot, Places, Newer
  <2>. QED
    BY <2>7, <2>8, <2>9, <2>10, <2>11, <2>12, <2>13, <2>14, <2>15 DEF DInv
<1>2. ASSUME NEW k \in Key, AddMiss(k)
      PROVE  DInv'
  <2>1. pc = "idle" /\ k \notin Entries /\ pc' = "slot" /\ key' = k
        /\ UNCHANGED <<page_cnt, header, slot, data, todo, recovering, failed, twice, cut, faults>>
    BY <1>0, <1>2 DEF AddMiss, Goto, Buffered, Entries, disk_vars, history_vars
  <2>2. asked[k] + 1 \in Version /\ asked' = [asked EXCEPT ![k] = asked[k] + 1]
    BY <1>0, <1>2, BoundAssumption DEF AddMiss, TypeOK, Version
  <2>3. asked'[k] = asked[k] + 1 /\ \A j \in Key : j # k => asked'[j] = asked[j]
    BY <1>0, <1>2 DEF AddMiss, TypeOK
  <2>4. Entries' = Entries \cup {k}
        /\ (\A j \in Entries : Place(j)' = Place(j) /\ Taken(j)' = Taken(j) /\ (Freed(j)' <=> Freed(j)))
        /\ Place(k)' = Count /\ Taken(k)' = asked[k] + 1 /\ ~Freed(k)'
    BY <1>0, <1>2 DEF AddMiss, Buffered, Entries, Count, Place, Taken, Freed
  <2>5. Count' = Count + 1 /\ Count + 1 \in 0 .. Cardinality(Key) /\ Count \in Index
    <3>1. Cardinality(Entries') = Cardinality(Entries) + 1
      BY <1>n, <2>1, <2>4, FS_AddElement
    <3>2. Entries' \subseteq Key
      BY <1>n, <2>4
    <3>3. Cardinality(Entries') <= Cardinality(Key)
      BY <3>2, KeyAssumption, FS_Subset
    <3>4. Count' = Count + 1 /\ Count + 1 <= Cardinality(Key)
      BY <3>1, <3>3 DEF Count
    <3>. QED
      BY <1>n, <3>4 DEF Index
  <2>6. DOMAIN dblwr_pages_' \subseteq Key /\ \A j \in DOMAIN dblwr_pages_' : dblwr_pages_'[j] \in DoubleWritePage
    BY <1>0, <2>2, <2>5, <1>2 DEF AddMiss, TypeOK, Buffered, Entries, Count, DoubleWritePage
  <2>7. TypeOK'
    BY <1>0, <1>n, <2>1, <2>2, <2>3, <2>4, <2>5, <2>6 DEF TypeOK
  <2>8. Control'
    BY <1>0, <1>n, <2>1, <2>2, <2>3, <2>4, <2>5, <2>6 DEF Control
  <2>9. Places'
    <3>1. \A i, j \in Entries' : Place(i)' = Place(j)' => i = j
      BY <1>0, <1>n, <2>1, <2>2, <2>3, <2>4, <2>5, <2>6 DEF Places, Control
    <3>2. \A j \in Entries' : Place(j)' < Count'
      <4>1. \A j \in Entries : Place(j) < Count /\ Place(j) \in Nat
        BY <1>0, <1>n, <2>1 DEF Places, Control
      <4>2. Count \in Nat
        BY <1>n
      <4>. QED
        BY <2>4, <2>5, <4>1, <4>2
    <3>3. ASSUME NEW i \in Index, i < Count' PROVE \E j \in Entries' : Place(j)' = i
      BY <1>0, <1>n, <2>1, <2>2, <2>3, <2>4, <2>5, <2>6, <3>3 DEF Places, Control
    <3>4. page_cnt' <= Count' /\ Place(k)' = Count' - 1 /\ page_cnt' <= Place(k)'
      BY <1>0, <1>n, <2>1, <2>2, <2>3, <2>4, <2>5, <2>6 DEF Places, Control, TypeOK
    <3>5. Place(key)' = Place(k)'
      BY <2>1 DEF Place
    <3>. QED
      BY <2>1, <3>1, <3>2, <3>3, <3>4, <3>5 DEF Places
  <2>10. Versions'
    <3>1. \A j \in Key : asked[j] <= asked'[j] /\ asked'[j] \in Nat
      BY <1>n, <2>1, <2>2, <2>3, <2>4, <2>5, <2>6
    <3>2. \A j \in Key : data'[j] <= asked'[j]
      BY <1>0, <1>n, <2>1, <3>1 DEF Versions
    <3>3. \A j \in Entries' : Taken(j)' <= asked'[j] /\ Taken(j)' = asked'[j]
      BY <1>0, <1>n, <2>1, <2>2, <2>3, <2>4, <2>5, <2>6 DEF Versions, Control
    <3>4. ASSUME NEW i \in Index, slot[i].version # Torn
          PROVE  slot[i].key \in Key /\ slot[i].version <= asked'[slot[i].key]
      <4>1. slot[i].key \in Key /\ slot[i].version <= asked[slot[i].key] /\ slot[i].version \in Nat
        BY <1>0, <1>n, <3>4 DEF Versions
      <4>. QED
        BY <1>n, <3>1, <4>1
    <3>. QED
      BY <2>1, <3>2, <3>3, <3>4 DEF Versions
  <2>11. SlotsOwned'
    BY <1>0, <1>n, <2>1, <2>2, <2>3, <2>4, <2>5, <2>6 DEF SlotsOwned, Control, Places
  <2>12. SlotsHold'
    BY <1>0, <1>n, <2>1, <2>2, <2>3, <2>4, <2>5, <2>6 DEF SlotsHold, InSlot, Control, Places
  <2>13. NotTorn'
    BY <1>0, <1>n, <2>1, <2>2, <2>3, <2>4, <2>5, <2>6 DEF NotTorn, SlotsHold, InSlot, Control, Accepted
  <2>14. Newer'
    <3>1. \A j \in Entries' \cap Trusted' : Taken(j)' >= data'[j]
      BY <1>0, <1>n, <2>1, <2>2, <2>3, <2>4, <2>5, <2>6 DEF Newer, Trusted, Versions
    <3>2. \A i \in Accepted' : slot'[i].key \in Trusted' => slot'[i].version >= data'[slot'[i].key]
      BY <1>0, <2>1 DEF Newer, Trusted, Accepted
    <3>. QED
      BY <3>1, <3>2 DEF Newer
  <2>15. OwnOnly'
    BY <1>0, <1>n, <2>1, <2>2, <2>3, <2>4, <2>5, <2>6 DEF OwnOnly, Trusted, Accepted, Control, SlotsHold, SlotsOwned, InSlot, Places, Newer
  <2>. QED
    BY <2>7, <2>8, <2>9, <2>10, <2>11, <2>12, <2>13, <2>14, <2>15 DEF DInv
<1>3. ASSUME AddRewrite
      PROVE  DInv'
  <2>1. pc = "rewrite" /\ WriteSlot(key) /\ pc' = "idle" /\ key' = NoKey
        /\ UNCHANGED <<page_cnt, header, data, asked, todo, recovering, failed, twice, cut, faults>>
    BY <1>0, <1>3 DEF AddRewrite, Goto, memory_vars, history_vars, Entries, Freed
  <2>2. KeepEntries
    BY <1>3, SameEntries DEF AddRewrite, memory_vars
  <2>3. slot' \in [Index -> SlotPage]
        /\ slot'[Place(key)].key = key /\ slot'[Place(key)].version = Taken(key)
        /\ \A i \in Index : i # Place(key) => slot'[i] = slot[i]
    BY <1>0, <2>1, Written DEF Control
  <2>4. \A j \in Entries : j # key => slot'[Place(j)] = slot[Place(j)]
    BY <1>0, <1>n, <2>1, <2>3 DEF Places, Control
  <2>5. TypeOK'
    BY <1>0, <1>n, <2>1, <2>2, <2>3, <2>4 DEF TypeOK, KeepEntries
  <2>6. Control'
    BY <1>0, <1>n, <2>1, <2>2, <2>3, <2>4 DEF Control, KeepEntries
  <2>7. Places'
    BY <1>0, <1>n, <2>1, <2>2, <2>3, <2>4 DEF Places, Control, KeepEntries
  <2>8. Versions'
    BY <1>0, <1>n, <2>1, <2>2, <2>3, <2>4 DEF Versions, Control, Places, KeepEntries
  <2>9. SlotsOwned'
    BY <1>0, <1>n, <2>1, <2>2, <2>3, <2>4 DEF SlotsOwned, Control, Places, KeepEntries
  <2>10. SlotsHold'
    BY <1>0, <1>n, <2>1, <2>2, <2>3, <2>4 DEF SlotsHold, InSlot, Control, Places, KeepEntries
  <2>11. NotTorn'
    BY <1>0, <1>n, <2>1, <2>2, <2>3, <2>4 DEF NotTorn, SlotsHold, InSlot, Control, Accepted, KeepEntries
  <2>12. Newer'
    BY <1>0, <1>n, <2>1, <2>2, <2>3, <2>4 DEF Newer, Trusted, Accepted, Control, SlotsHold, InSlot, OwnOnly, Versions, KeepEntries
  <2>13. OwnOnly'
    <3>. SUFFICES ASSUME NEW i \in Accepted', slot'[i].key \in Trusted
                  PROVE  \/ slot'[i].key \in Entries /\ i = Place(slot'[i].key)
                         \/ slot'[i].key \notin Entries /\ slot'[i].version = data[slot'[i].key]
      BY <2>1, <2>2, <2>3, <2>4 DEF OwnOnly, KeepEntries, Trusted
    <3>0. key \in Entries
      BY <1>0, <2>1 DEF Control
    <3>1. CASE i = Place(key)
      BY <2>3, <3>0, <3>1
    <3>2. CASE i # Place(key)
      <4>1. i \in Accepted /\ slot'[i] = slot[i]
        BY <2>1, <2>3, <3>2 DEF Accepted
      <4>. QED
        BY <1>0, <2>1, <4>1 DEF OwnOnly
    <3>. QED
      BY <3>1, <3>2
  <2>. QED
    BY <2>5, <2>6, <2>7, <2>8, <2>9, <2>10, <2>11, <2>12, <2>13 DEF DInv
<1>4. ASSUME AddSlot
      PROVE  DInv'
  <2>1. pc = "slot" /\ WriteSlot(key)
        /\ UNCHANGED <<header, data, asked, recovering, failed, twice, cut, faults>>
    BY <1>0, <1>4 DEF AddSlot, Goto, history_vars, Entries, Freed
  <2>2. KeepEntries
    BY <1>4, SameEntries DEF AddSlot, memory_vars
  <2>3. slot' \in [Index -> SlotPage]
        /\ slot'[Place(key)].key = key /\ slot'[Place(key)].version = Taken(key)
        /\ \A i \in Index : i # Place(key) => slot'[i] = slot[i]
    BY <1>0, <2>1, Written DEF Control
  <2>4. \A j \in Entries : j # key => slot'[Place(j)] = slot[Place(j)]
    BY <1>0, <1>n, <2>1, <2>3 DEF Places, Control
  <2>5. pc' = "header" /\ key' = key /\ page_cnt' = Place(key) + 1 /\ todo' = todo
    BY <1>0, <1>n, <1>4, <2>1 DEF AddSlot, Goto, Place, Places, Control, TypeOK
  <2>6. page_cnt' \in 0 .. Cardinality(Key)
    BY <1>0, <1>n, <2>1, <2>5 DEF Places, Control
  <2>7. TypeOK'
    BY <1>0, <1>n, <2>1, <2>2, <2>3, <2>4, <2>5, <2>6 DEF TypeOK, KeepEntries
  <2>8. Control'
    BY <1>0, <1>n, <2>1, <2>2, <2>3, <2>4, <2>5, <2>6 DEF Control, KeepEntries
  <2>9. Places'
    BY <1>0, <1>n, <2>1, <2>2, <2>3, <2>4, <2>5, <2>6 DEF Places, Control, KeepEntries
  <2>10. Versions'
    BY <1>0, <1>n, <2>1, <2>2, <2>3, <2>4, <2>5, <2>6 DEF Versions, Control, Places, KeepEntries
  <2>11. SlotsOwned'
    BY <1>0, <1>n, <2>1, <2>2, <2>3, <2>4, <2>5, <2>6 DEF SlotsOwned, Control, Places, KeepEntries
  <2>12. SlotsHold'
    BY <1>0, <1>n, <2>1, <2>2, <2>3, <2>4, <2>5, <2>6 DEF SlotsHold, InSlot, Control, Places, KeepEntries
  <2>13. NotTorn'
    BY <1>0, <1>n, <2>1, <2>2, <2>3, <2>4, <2>5, <2>6 DEF NotTorn, SlotsHold, InSlot, Control, Accepted, KeepEntries
  <2>14. Newer'
    BY <1>0, <1>n, <2>1, <2>2, <2>3, <2>4, <2>5, <2>6 DEF Newer, Trusted, Accepted, Control, SlotsHold, InSlot, OwnOnly, Versions, KeepEntries
  <2>15. OwnOnly'
    <3>1. Trusted' = Trusted /\ header' = header /\ data' = data
      BY <2>1 DEF Trusted
    <3>2. Entries' = Entries /\ key \in Entries /\ \A j \in Entries : Place(j)' = Place(j) /\ Place(j) \in Index
      BY <1>0, <1>n, <2>1, <2>2 DEF KeepEntries, Control
    <3>3. pc' = "header" /\ key' = key /\ pc # "down"
      BY <2>1, <2>5
    <3>4. SUFFICES ASSUME NEW i \in Accepted', NEW k \in Trusted, slot'[i].key = k
                   PROVE  \/ k \in Entries /\ i = Place(k)
                          \/ (k \in Entries => key = k) /\ slot'[i].version = data[k]
      BY <3>1, <3>2, <3>3 DEF OwnOnly
    <3>5. CASE i = Place(key)
      BY <2>3, <3>2, <3>4, <3>5
    <3>6. CASE i # Place(key)
      <4>1. i \in Index /\ i < header /\ slot'[i] = slot[i] /\ slot'[i].version # Torn
        BY <2>3, <3>1, <3>6 DEF Accepted
      <4>2. i \in Accepted /\ slot[i].key = k
        BY <3>4, <4>1 DEF Accepted
      <4>. QED
        BY <1>0, <3>3, <3>4, <4>1, <4>2 DEF OwnOnly
    <3>. QED
      BY <3>5, <3>6
  <2>. QED
    BY <2>7, <2>8, <2>9, <2>10, <2>11, <2>12, <2>13, <2>14, <2>15 DEF DInv
<1>5. ASSUME AddSlotFails
      PROVE  DInv'
  <2>1. pc \in {"slot", "rewrite"} /\ key \in Entries /\ key \in Key /\ Place(key) \in Index
        /\ (slot[Place(key)].key \in Key \/ slot[Place(key)].key = NoKey)
    BY <1>0, <1>n, <1>5 DEF AddSlotFails, Control
  <2>2. pc' = "idle" /\ key' = NoKey /\ faults' = faults + 1 /\ faults < MaxFaults
        /\ UNCHANGED <<page_cnt, header, data, asked, todo, recovering, twice, cut>>
    BY <1>5 DEF AddSlotFails, Goto, memory_vars, Fault
  <2>3. KeepEntries
    BY <1>5, SameEntries DEF AddSlotFails, memory_vars
  <2>4. \/ TearSlot(key) /\ failed' = failed \cup {key}
        \/ slot' = slot /\ failed' = failed \cup ({key, slot[Place(key)].key} \ {NoKey})
    BY <1>5 DEF AddSlotFails, Fault, Place
  <2>5. key \in failed' /\ failed \subseteq failed' /\ failed' \subseteq Key /\ faults' \in 0 .. MaxFaults
    BY <1>0, <1>n, <2>1, <2>2, <2>4, BoundAssumption DEF TypeOK
  <2>6. slot' \in [Index -> SlotPage]
        /\ (\A i \in Index : slot'[i].version # Torn => slot'[i] = slot[i])
        /\ (\A i \in Index : i # Place(key) => slot'[i] = slot[i])
        /\ (slot'[Place(key)].version # Torn => slot[Place(key)].key \in failed')
    BY <1>0, <1>n, <2>1, <2>4, TornApart DEF Versions, TypeOK
  <2>7. \A j \in Entries : j # key => slot'[Place(j)] = slot[Place(j)]
    BY <1>0, <1>n, <2>1, <2>6 DEF Places
  <2>8. TypeOK'
    BY <1>0, <1>n, <2>1, <2>2, <2>3, <2>4, <2>5, <2>6, <2>7 DEF TypeOK, KeepEntries
  <2>9. Control'
    BY <1>0, <1>n, <2>1, <2>2, <2>3, <2>4, <2>5, <2>6, <2>7 DEF Control, KeepEntries
  <2>10. Places'
    BY <1>0, <1>n, <2>1, <2>2, <2>3, <2>4, <2>5, <2>6, <2>7 DEF Places, Control, KeepEntries
  <2>11. Versions'
    BY <1>0, <1>n, <2>1, <2>2, <2>3, <2>4, <2>5, <2>6, <2>7 DEF Versions, Control, Places, KeepEntries
  <2>12. SlotsOwned'
    <3>. SUFFICES ASSUME NEW j \in Entries, slot'[Place(j)].version # Torn
                  PROVE  slot'[Place(j)].key = j \/ slot'[Place(j)].key \in failed'
      BY <2>3 DEF SlotsOwned, KeepEntries
    <3>1. CASE j = key
      BY <2>1, <2>6, <3>1
    <3>2. CASE j # key
      BY <1>0, <2>5, <2>7, <3>2 DEF SlotsOwned
    <3>. QED
      BY <3>1, <3>2
  <2>13. SlotsHold'
    BY <1>0, <1>n, <2>1, <2>2, <2>3, <2>4, <2>5, <2>6, <2>7 DEF SlotsHold, InSlot, Control, Places, KeepEntries
  <2>14. NotTorn'
    BY <1>0, <1>n, <2>1, <2>2, <2>3, <2>4, <2>5, <2>6, <2>7 DEF NotTorn, SlotsHold, InSlot, Control, Accepted, KeepEntries
  <2>15. Newer'
    BY <1>0, <1>n, <2>1, <2>2, <2>3, <2>4, <2>5, <2>6, <2>7 DEF Newer, Trusted, Accepted, Control, SlotsHold, InSlot, OwnOnly, Versions, KeepEntries
  <2>16. OwnOnly'
    BY <1>0, <1>n, <2>1, <2>2, <2>3, <2>4, <2>5, <2>6, <2>7 DEF OwnOnly, Trusted, Accepted, Control, SlotsHold, SlotsOwned, InSlot, Places, Newer, KeepEntries
  <2>. QED
    BY <2>8, <2>9, <2>10, <2>11, <2>12, <2>13, <2>14, <2>15, <2>16 DEF DInv
<1>6. ASSUME AddHeader
      PROVE  DInv'
  <2>1. pc = "header" /\ header' = page_cnt
        /\ UNCHANGED <<page_cnt, slot, data, asked, recovering, failed, twice, cut, faults>>
    BY <1>0, <1>6 DEF AddHeader, memory_vars, history_vars, Entries, Freed
  <2>2. KeepEntries
    BY <1>6, SameEntries DEF AddHeader, memory_vars
  <2>3. \/ pc' = "flush" /\ key' = NoKey /\ todo' = Entries
        \/ pc' = "idle" /\ key' = NoKey /\ todo' = todo
    BY <1>6 DEF AddHeader, AddEnds, FlushBegin, Goto, Entries
  <2>4. TypeOK'
    BY <1>0, <1>n, <2>1, <2>2, <2>3 DEF TypeOK, KeepEntries
  <2>5. Control'
    BY <1>0, <1>n, <2>1, <2>2, <2>3 DEF Control, KeepEntries
  <2>6. Places'
    BY <1>0, <1>n, <2>1, <2>2, <2>3 DEF Places, Control, KeepEntries
  <2>7. Versions'
    BY <1>0, <1>n, <2>1, <2>2, <2>3 DEF Versions, Control, Places, KeepEntries
  <2>8. SlotsOwned'
    BY <1>0, <1>n, <2>1, <2>2, <2>3 DEF SlotsOwned, Control, Places, KeepEntries
  <2>9. SlotsHold'
    BY <1>0, <1>n, <2>1, <2>2, <2>3 DEF SlotsHold, InSlot, Control, Places, KeepEntries
  <2>10. NotTorn'
    BY <1>0, <1>n, <2>1, <2>2, <2>3 DEF NotTorn, SlotsHold, InSlot, Control, Accepted, KeepEntries
  <2>11. Newer'
    <3>1. ASSUME NEW i \in Accepted', slot[i].key \in Trusted
          PROVE  slot[i].version >= data[slot[i].key]
      <4>1. i \in Index /\ i < Count /\ slot[i].version # Torn
        BY <1>0, <1>n, <2>1, <3>1 DEF Accepted, Places, Control
      <4>2. PICK j \in Entries : Place(j) = i
        BY <1>0, <2>1, <4>1 DEF Places, Control
      <4>3. slot[i].key = j /\ j \in Entries \cap Trusted /\ j \notin failed
        BY <1>0, <2>1, <3>1, <4>1, <4>2 DEF SlotsOwned, Trusted
      <4>4. slot[i].version = Taken(j) \/ slot[i].version = data[j]
        BY <1>0, <2>1, <4>1, <4>2, <4>3 DEF SlotsHold, InSlot
      <4>. QED
        BY <1>0, <1>n, <4>3, <4>4 DEF Newer, Trusted
    <3>2. \A j \in Entries \cap Trusted : Taken(j) >= data[j]
      BY <1>0 DEF Newer
    <3>. QED
      BY <2>1, <2>2, <3>1, <3>2 DEF Newer, Trusted, KeepEntries
  <2>12. OwnOnly'
    BY <1>0, <1>n, <2>1, <2>2, <2>3 DEF OwnOnly, Trusted, Accepted, Control, SlotsHold, SlotsOwned, InSlot, Places, Newer, KeepEntries
  <2>. QED
    BY <2>4, <2>5, <2>6, <2>7, <2>8, <2>9, <2>10, <2>11, <2>12 DEF DInv
<1>7. ASSUME AddHeaderFails
      PROVE  DInv'
  <2>1. pc = "header" /\ pc' = "idle" /\ key' = NoKey /\ faults' = faults + 1 /\ faults < MaxFaults
        /\ UNCHANGED <<page_cnt, header, slot, data, asked, todo, recovering, twice, cut>>
    BY <1>7 DEF AddHeaderFails, Goto, memory_vars, disk_vars, Fault
  <2>2. KeepEntries
    BY <1>7, SameEntries DEF AddHeaderFails, memory_vars
  <2>3. failed' = Key /\ faults' \in 0 .. MaxFaults
    BY <1>0, <2>1, <1>7, BoundAssumption DEF AddHeaderFails, Fault, TypeOK
  <2>4. TypeOK'
    BY <1>0, <1>n, <2>1, <2>2, <2>3 DEF TypeOK, KeepEntries
  <2>5. Control'
    BY <1>0, <1>n, <2>1, <2>2, <2>3 DEF Control, KeepEntries
  <2>6. Places'
    BY <1>0, <1>n, <2>1, <2>2, <2>3 DEF Places, Control, KeepEntries
  <2>7. Versions'
    BY <1>0, <1>n, <2>1, <2>2, <2>3 DEF Versions, Control, Places, KeepEntries
  <2>8. SlotsOwned'
    BY <1>0, <1>n, <2>1, <2>2, <2>3 DEF SlotsOwned, Versions, KeepEntries
  <2>9. SlotsHold'
    BY <1>0, <1>n, <2>1, <2>2, <2>3 DEF SlotsHold, InSlot, Control, Places, KeepEntries
  <2>10. NotTorn'
    BY <1>0, <1>n, <2>1, <2>2, <2>3 DEF NotTorn, SlotsHold, InSlot, Control, Accepted, KeepEntries
  <2>11. Newer'
    BY <1>0, <1>n, <2>1, <2>2, <2>3 DEF Newer, Trusted, Accepted, Control, SlotsHold, InSlot, OwnOnly, Versions, KeepEntries
  <2>12. OwnOnly'
    BY <1>0, <1>n, <2>1, <2>2, <2>3 DEF OwnOnly, Trusted, Accepted, Control, SlotsHold, SlotsOwned, InSlot, Places, Newer, KeepEntries
  <2>. QED
    BY <2>4, <2>5, <2>6, <2>7, <2>8, <2>9, <2>10, <2>11, <2>12 DEF DInv
<1>8. ASSUME Flush
      PROVE  DInv'
  <2>1. pc = "idle" /\ pc' = "flush" /\ key' = NoKey /\ todo' = Entries
        /\ UNCHANGED <<page_cnt, header, slot, data, asked, recovering, failed, twice, cut, faults>>
    BY <1>0, <1>8 DEF Flush, FlushBegin, Goto, memory_vars, disk_vars, history_vars, Entries, Freed
  <2>2. KeepEntries
    BY <1>8, SameEntries DEF Flush, memory_vars
  <2>3. TypeOK'
    BY <1>0, <1>n, <2>1, <2>2 DEF TypeOK, KeepEntries
  <2>4. Control'
    BY <1>0, <1>n, <2>1, <2>2 DEF Control, KeepEntries
  <2>5. Places'
    BY <1>0, <1>n, <2>1, <2>2 DEF Places, Control, KeepEntries
  <2>6. Versions'
    BY <1>0, <1>n, <2>1, <2>2 DEF Versions, Control, Places, KeepEntries
  <2>7. SlotsOwned'
    BY <1>0, <1>n, <2>1, <2>2 DEF SlotsOwned, Control, Places, KeepEntries
  <2>8. SlotsHold'
    BY <1>0, <1>n, <2>1, <2>2 DEF SlotsHold, InSlot, Control, Places, KeepEntries
  <2>9. NotTorn'
    BY <1>0, <1>n, <2>1, <2>2 DEF NotTorn, SlotsHold, InSlot, Control, Accepted, KeepEntries
  <2>10. Newer'
    BY <1>0, <1>n, <2>1, <2>2 DEF Newer, Trusted, Accepted, Control, SlotsHold, InSlot, OwnOnly, Versions, KeepEntries
  <2>11. OwnOnly'
    BY <1>0, <1>n, <2>1, <2>2 DEF OwnOnly, Trusted, Accepted, Control, SlotsHold, SlotsOwned, InSlot, Places, Newer, KeepEntries
  <2>. QED
    BY <2>3, <2>4, <2>5, <2>6, <2>7, <2>8, <2>9, <2>10, <2>11 DEF DInv
<1>9. ASSUME NEW k \in Key, FlushTake(k)
      PROVE  DInv'
  <2>1. pc = "flush" /\ k \in todo /\ pc' = "data" /\ key' = k
        /\ UNCHANGED <<page_cnt, header, slot, data, asked, todo, recovering, failed, twice, cut, faults>>
    BY <1>0, <1>9 DEF FlushTake, Goto, memory_vars, disk_vars, history_vars, Entries, Freed
  <2>2. KeepEntries
    BY <1>9, SameEntries DEF FlushTake, memory_vars
  <2>3. ~Freed(k)
    BY <1>9 DEF FlushTake, Freed
  <2>4. TypeOK'
    BY <1>0, <1>n, <2>1, <2>2, <2>3 DEF TypeOK, KeepEntries
  <2>5. Control'
    BY <1>0, <1>n, <2>1, <2>2, <2>3 DEF Control, KeepEntries
  <2>6. Places'
    BY <1>0, <1>n, <2>1, <2>2, <2>3 DEF Places, Control, KeepEntries
  <2>7. Versions'
    BY <1>0, <1>n, <2>1, <2>2, <2>3 DEF Versions, Control, Places, KeepEntries
  <2>8. SlotsOwned'
    BY <1>0, <1>n, <2>1, <2>2, <2>3 DEF SlotsOwned, Control, Places, KeepEntries
  <2>9. SlotsHold'
    BY <1>0, <1>n, <2>1, <2>2, <2>3 DEF SlotsHold, InSlot, Control, Places, KeepEntries
  <2>10. NotTorn'
    BY <1>0, <1>n, <2>1, <2>2, <2>3 DEF NotTorn, SlotsHold, InSlot, Control, Accepted, KeepEntries
  <2>11. Newer'
    BY <1>0, <1>n, <2>1, <2>2, <2>3 DEF Newer, Trusted, Accepted, Control, SlotsHold, InSlot, OwnOnly, Versions, KeepEntries
  <2>12. OwnOnly'
    BY <1>0, <1>n, <2>1, <2>2, <2>3 DEF OwnOnly, Trusted, Accepted, Control, SlotsHold, SlotsOwned, InSlot, Places, Newer, KeepEntries
  <2>. QED
    BY <2>4, <2>5, <2>6, <2>7, <2>8, <2>9, <2>10, <2>11, <2>12 DEF DInv
<1>10. ASSUME FlushData
      PROVE  DInv'
  <2>1. pc = "data" /\ pc' = "mark" /\ key' = key
        /\ UNCHANGED <<page_cnt, header, slot, asked, todo, recovering, failed, twice, cut, faults>>
    BY <1>0, <1>10 DEF FlushData, Goto, memory_vars, history_vars, Entries, Freed
  <2>2. KeepEntries
    BY <1>10, SameEntries DEF FlushData, memory_vars
  <2>3. key \in Key /\ key \in Entries /\ data' = [data EXCEPT ![key] = Taken(key)]
    BY <1>0, <1>10, <2>1, Numbers DEF FlushData, Control, Taken
  <2>4. data'[key] = Taken(key) /\ Taken(key) \in Version /\ \A j \in Key : j # key => data'[j] = data[j]
    BY <1>0, <2>3, Numbers DEF TypeOK
  <2>5. TypeOK'
    BY <1>0, <1>n, <2>1, <2>2, <2>3, <2>4 DEF TypeOK, KeepEntries
  <2>6. Control'
    BY <1>0, <1>n, <2>1, <2>2, <2>3, <2>4 DEF Control, KeepEntries
  <2>7. Places'
    BY <1>0, <1>n, <2>1, <2>2, <2>3, <2>4 DEF Places, Control, KeepEntries
  <2>8. Versions'
    BY <1>0, <1>n, <2>1, <2>2, <2>3, <2>4 DEF Versions, Control, Places, KeepEntries
  <2>9. SlotsOwned'
    BY <1>0, <1>n, <2>1, <2>2, <2>3, <2>4 DEF SlotsOwned, Control, Places, KeepEntries
  <2>10. SlotsHold'
    BY <1>0, <1>n, <2>1, <2>2, <2>3, <2>4 DEF SlotsHold, InSlot, Control, Places, KeepEntries
  <2>11. NotTorn'
    BY <1>0, <1>n, <2>1, <2>2, <2>3, <2>4 DEF NotTorn, SlotsHold, InSlot, Control, Accepted, KeepEntries
  <2>12. Newer'
    BY <1>0, <1>n, <2>1, <2>2, <2>3, <2>4 DEF Newer, Trusted, Accepted, Control, SlotsHold, InSlot, OwnOnly, Versions, KeepEntries
  <2>13. OwnOnly'
    <3>. SUFFICES ASSUME NEW i \in Accepted, slot[i].key \in Trusted
                  PROVE  \/ slot[i].key \in Entries /\ i = Place(slot[i].key)
                         \/ slot[i].key \notin Entries /\ slot[i].version = data'[slot[i].key]
      BY <2>1, <2>2, <2>3, <2>4 DEF OwnOnly, KeepEntries, Trusted, Accepted
    <3>1. \/ slot[i].key \in Entries /\ i = Place(slot[i].key)
          \/ slot[i].key \notin Entries /\ slot[i].version = data[slot[i].key]
      BY <1>0, <2>1 DEF OwnOnly
    <3>. QED
      BY <2>3, <2>4, <3>1 DEF Trusted
  <2>. QED
    BY <2>5, <2>6, <2>7, <2>8, <2>9, <2>10, <2>11, <2>12, <2>13 DEF DInv
<1>11. ASSUME recovering, FlushDataFails
      PROVE  DInv'
  <2>1. pc = "data" /\ key \in Entries /\ key \in Key /\ failed' = failed \cup {key} /\ faults' = faults + 1 /\ faults < MaxFaults
        /\ UNCHANGED <<header, slot, asked, twice, cut>>
    BY <1>0, <1>n, <1>11 DEF FlushDataFails, Fault, Control
  <2>2. failed' \subseteq Key /\ faults' \in 0 .. MaxFaults
    BY <1>0, <2>1, BoundAssumption DEF TypeOK
  <2>3. data' \in [Key -> Version \cup {Torn}] /\ (data'[key] = Torn \/ data'[key] = data[key])
        /\ \A j \in Key : j # key => data'[j] = data[j]
    BY <1>0, <1>11, <2>1 DEF FlushDataFails, TypeOK
  <2>4. pc' = "down" /\ key' = NoKey /\ page_cnt' = 0 /\ todo' = {} /\ recovering' = FALSE /\ Entries' = {}
    BY <1>11 DEF FlushDataFails, Stop, Goto, Empty, Entries
  <2>5. recovering
    BY <1>11
  <2>6. Count' = 0 /\ DOMAIN dblwr_pages_' = {}
    BY <2>4, FS_EmptySet DEF Count, Entries
  <2>7. TypeOK'
    <3>1. page_cnt' \in 0 .. Cardinality(Key)
      BY <1>n, <2>1, <2>2, <2>3, <2>4, <2>5, <2>6
    <3>. QED
      BY <1>0, <2>1, <2>2, <2>3, <2>4, <2>5, <2>6, <3>1 DEF TypeOK
  <2>8. Control'
    BY <1>0, <1>n, <2>1, <2>2, <2>3, <2>4, <2>5, <2>6 DEF Control
  <2>9. Places'
    BY <1>0, <1>n, <2>1, <2>2, <2>3, <2>4, <2>5, <2>6 DEF Places, Control
  <2>10. Versions'
    BY <1>0, <1>n, <2>1, <2>2, <2>3, <2>4, <2>5, <2>6 DEF Versions, Control, Places
  <2>11. SlotsOwned'
    BY <1>0, <1>n, <2>1, <2>2, <2>3, <2>4, <2>5, <2>6 DEF SlotsOwned, Control, Places
  <2>12. SlotsHold'
    BY <1>0, <1>n, <2>1, <2>2, <2>3, <2>4, <2>5, <2>6 DEF SlotsHold, InSlot, Control, Places
  <2>13. NotTorn'
    <3>. SUFFICES ASSUME NEW j \in Key \ failed, j # key, data[j] = Torn
                  PROVE  \E i \in Accepted : slot[i].key = j
      BY <2>1, <2>2, <2>3, <2>4, <2>5, <2>6 DEF NotTorn, Accepted
    <3>1. j \in Entries \ failed /\ ~Freed(j) /\ pc = "data"
      BY <1>0, <2>1, <2>2, <2>3, <2>4, <2>5, <2>6 DEF NotTorn, Control
    <3>. QED
      BY <1>0, <3>1, HasCopy
  <2>14. Newer'
    BY <1>0, <1>n, <2>1, <2>2, <2>3, <2>4, <2>5, <2>6 DEF Newer, Trusted, Accepted, Control, SlotsHold, InSlot, OwnOnly, Versions
  <2>15. OwnOnly'
    BY <1>0, <1>n, <2>1, <2>2, <2>3, <2>4, <2>5, <2>6 DEF OwnOnly, Trusted, Accepted, Control, SlotsHold, SlotsOwned, InSlot, Places, Newer
  <2>. QED
    BY <2>7, <2>8, <2>9, <2>10, <2>11, <2>12, <2>13, <2>14, <2>15 DEF DInv
<1>12. ASSUME ~recovering, FlushDataFails
      PROVE  DInv'
  <2>1. pc = "data" /\ key \in Entries /\ key \in Key /\ failed' = failed \cup {key} /\ faults' = faults + 1 /\ faults < MaxFaults
        /\ UNCHANGED <<header, slot, asked, twice, cut>>
    BY <1>0, <1>n, <1>12 DEF FlushDataFails, Fault, Control
  <2>2. failed' \subseteq Key /\ faults' \in 0 .. MaxFaults
    BY <1>0, <2>1, BoundAssumption DEF TypeOK
  <2>3. data' \in [Key -> Version \cup {Torn}] /\ (data'[key] = Torn \/ data'[key] = data[key])
        /\ \A j \in Key : j # key => data'[j] = data[j]
    BY <1>0, <1>12, <2>1 DEF FlushDataFails, TypeOK
  <2>4. pc' = "idle" /\ key' = NoKey /\ todo' = {} /\ ~recovering /\ UNCHANGED <<page_cnt, recovering>>
    BY <1>12 DEF FlushDataFails, Goto, memory_vars
  <2>5. KeepEntries
    BY <1>12, SameEntries DEF FlushDataFails, memory_vars
  <2>6. TypeOK'
    BY <1>0, <1>n, <2>1, <2>2, <2>3, <2>4, <2>5 DEF TypeOK, KeepEntries
  <2>7. Control'
    BY <1>0, <1>n, <2>1, <2>2, <2>3, <2>4, <2>5 DEF Control, KeepEntries
  <2>8. Places'
    BY <1>0, <1>n, <2>1, <2>2, <2>3, <2>4, <2>5 DEF Places, Control, KeepEntries
  <2>9. Versions'
    BY <1>0, <1>n, <2>1, <2>2, <2>3, <2>4, <2>5 DEF Versions, Control, Places, KeepEntries
  <2>10. SlotsOwned'
    BY <1>0, <1>n, <2>1, <2>2, <2>3, <2>4, <2>5 DEF SlotsOwned, Control, Places, KeepEntries
  <2>11. SlotsHold'
    BY <1>0, <1>n, <2>1, <2>2, <2>3, <2>4, <2>5 DEF SlotsHold, InSlot, Control, Places, KeepEntries
  <2>12. NotTorn'
    BY <1>0, <1>n, <2>1, <2>2, <2>3, <2>4, <2>5 DEF NotTorn, SlotsHold, InSlot, Control, Accepted, KeepEntries
  <2>13. Newer'
    BY <1>0, <1>n, <2>1, <2>2, <2>3, <2>4, <2>5 DEF Newer, Trusted, Accepted, Control, SlotsHold, InSlot, OwnOnly, Versions, KeepEntries
  <2>14. OwnOnly'
    BY <1>0, <1>n, <2>1, <2>2, <2>3, <2>4, <2>5 DEF OwnOnly, Trusted, Accepted, Control, SlotsHold, SlotsOwned, InSlot, Places, Newer, KeepEntries
  <2>. QED
    BY <2>6, <2>7, <2>8, <2>9, <2>10, <2>11, <2>12, <2>13, <2>14 DEF DInv
<1>13. ASSUME FlushMark
      PROVE  DInv'
  <2>1. pc = "mark" /\ key \in Entries /\ key \in Key /\ pc' = "flush" /\ key' = NoKey /\ todo' = todo \ {key}
        /\ (faults' = faults \/ (faults' = faults + 1 /\ faults < MaxFaults)) /\ failed' = failed
        /\ UNCHANGED <<page_cnt, header, data, asked, recovering, twice, cut>>
    BY <1>0, <1>n, <1>13 DEF FlushMark, Mark, Goto, Fault, history_vars, Control
  <2>2. dblwr_pages_' = [dblwr_pages_ EXCEPT ![key].freed = TRUE] /\ DOMAIN dblwr_pages_' \subseteq Key
        /\ \A j \in DOMAIN dblwr_pages_' : dblwr_pages_'[j] \in DoubleWritePage
    BY <1>0, <1>13, <2>1 DEF FlushMark, Mark, TypeOK, DoubleWritePage
  <2>3. Entries' = Entries /\ Count' = Count
        /\ \A j \in Entries : Place(j)' = Place(j) /\ Taken(j)' = Taken(j)
    BY <1>0, <2>2 DEF Entries, Count, Place, Taken
  <2>4. dblwr_pages_'[key].freed = TRUE /\ \A j \in Entries : j # key => dblwr_pages_'[j] = dblwr_pages_[j]
    BY <1>0, <2>1, <2>2 DEF TypeOK, Entries, DoubleWritePage
  <2>5. \A j \in Entries : IF j = key THEN Freed(j)' ELSE (Freed(j)' <=> Freed(j))
    BY <2>1, <2>4 DEF Freed
  <2>6. slot' \in [Index -> SlotPage]
        /\ (\A i \in Index : i # Place(key) => slot'[i] = slot[i])
        /\ (slot'[Place(key)].version # Torn => slot'[Place(key)].key = key /\ slot'[Place(key)].version = Taken(key))
    BY <1>0, <1>13, <2>1, Written, TornApart DEF FlushMark
  <2>7. \A j \in Entries : j # key => slot'[Place(j)] = slot[Place(j)]
    BY <1>0, <1>n, <2>1, <2>6 DEF Places, Control
  <2>8. faults' \in 0 .. MaxFaults
    BY <1>0, <2>1, BoundAssumption DEF TypeOK
  <2>9. TypeOK'
    BY <1>0, <1>n, <2>1, <2>2, <2>3, <2>4, <2>5, <2>6, <2>7, <2>8 DEF TypeOK
  <2>10. Control'
    BY <1>0, <1>n, <2>1, <2>2, <2>3, <2>4, <2>5, <2>6, <2>7, <2>8 DEF Control
  <2>11. Places'
    BY <1>0, <1>n, <2>1, <2>2, <2>3, <2>4, <2>5, <2>6, <2>7, <2>8 DEF Places, Control
  <2>12. Versions'
    BY <1>0, <1>n, <2>1, <2>2, <2>3, <2>4, <2>5, <2>6, <2>7, <2>8 DEF Versions, Control, Places
  <2>13. SlotsOwned'
    BY <1>0, <1>n, <2>1, <2>2, <2>3, <2>4, <2>5, <2>6, <2>7, <2>8 DEF SlotsOwned, Control, Places
  <2>14. SlotsHold'
    BY <1>0, <1>n, <2>1, <2>2, <2>3, <2>4, <2>5, <2>6, <2>7, <2>8 DEF SlotsHold, InSlot, Control, Places
  <2>15. NotTorn'
    BY <1>0, <1>n, <2>1, <2>2, <2>3, <2>4, <2>5, <2>6, <2>7, <2>8 DEF NotTorn, SlotsHold, InSlot, Control, Accepted
  <2>16. Newer'
    BY <1>0, <1>n, <2>1, <2>2, <2>3, <2>4, <2>5, <2>6, <2>7, <2>8 DEF Newer, Trusted, Accepted, Control, SlotsHold, InSlot, OwnOnly, Versions
  <2>17. OwnOnly'
    BY <1>0, <1>n, <2>1, <2>2, <2>3, <2>4, <2>5, <2>6, <2>7, <2>8 DEF OwnOnly, Trusted, Accepted, Control, SlotsHold, SlotsOwned, InSlot, Places, Newer
  <2>. QED
    BY <2>9, <2>10, <2>11, <2>12, <2>13, <2>14, <2>15, <2>16, <2>17 DEF DInv
<1>14. ASSUME FlushMarkFails
      PROVE  DInv'
  <2>1. pc = "mark" /\ key \in Entries /\ key \in Key /\ pc' = "flush" /\ key' = NoKey /\ todo' = todo \ {key}
        /\ (faults' = faults \/ (faults' = faults + 1 /\ faults < MaxFaults)) /\ failed' = failed
        /\ UNCHANGED <<page_cnt, header, data, asked, recovering, twice, cut>>
    BY <1>0, <1>n, <1>14 DEF FlushMarkFails, Mark, Goto, Fault, history_vars, Control
  <2>2. dblwr_pages_' = [dblwr_pages_ EXCEPT ![key].freed = TRUE] /\ DOMAIN dblwr_pages_' \subseteq Key
        /\ \A j \in DOMAIN dblwr_pages_' : dblwr_pages_'[j] \in DoubleWritePage
    BY <1>0, <1>14, <2>1 DEF FlushMarkFails, Mark, TypeOK, DoubleWritePage
  <2>3. Entries' = Entries /\ Count' = Count
        /\ \A j \in Entries : Place(j)' = Place(j) /\ Taken(j)' = Taken(j)
    BY <1>0, <2>2 DEF Entries, Count, Place, Taken
  <2>4. dblwr_pages_'[key].freed = TRUE /\ \A j \in Entries : j # key => dblwr_pages_'[j] = dblwr_pages_[j]
    BY <1>0, <2>1, <2>2 DEF TypeOK, Entries, DoubleWritePage
  <2>5. \A j \in Entries : IF j = key THEN Freed(j)' ELSE (Freed(j)' <=> Freed(j))
    BY <2>1, <2>4 DEF Freed
  <2>6. slot' \in [Index -> SlotPage]
        /\ (\A i \in Index : i # Place(key) => slot'[i] = slot[i])
        /\ (slot'[Place(key)].version # Torn => slot'[Place(key)].key = key /\ slot'[Place(key)].version = Taken(key))
    BY <1>0, <1>14, <2>1, Written, TornApart DEF FlushMarkFails
  <2>7. \A j \in Entries : j # key => slot'[Place(j)] = slot[Place(j)]
    BY <1>0, <1>n, <2>1, <2>6 DEF Places, Control
  <2>8. faults' \in 0 .. MaxFaults
    BY <1>0, <2>1, BoundAssumption DEF TypeOK
  <2>9. TypeOK'
    BY <1>0, <1>n, <2>1, <2>2, <2>3, <2>4, <2>5, <2>6, <2>7, <2>8 DEF TypeOK
  <2>10. Control'
    BY <1>0, <1>n, <2>1, <2>2, <2>3, <2>4, <2>5, <2>6, <2>7, <2>8 DEF Control
  <2>11. Places'
    BY <1>0, <1>n, <2>1, <2>2, <2>3, <2>4, <2>5, <2>6, <2>7, <2>8 DEF Places, Control
  <2>12. Versions'
    BY <1>0, <1>n, <2>1, <2>2, <2>3, <2>4, <2>5, <2>6, <2>7, <2>8 DEF Versions, Control, Places
  <2>13. SlotsOwned'
    BY <1>0, <1>n, <2>1, <2>2, <2>3, <2>4, <2>5, <2>6, <2>7, <2>8 DEF SlotsOwned, Control, Places
  <2>14. SlotsHold'
    BY <1>0, <1>n, <2>1, <2>2, <2>3, <2>4, <2>5, <2>6, <2>7, <2>8 DEF SlotsHold, InSlot, Control, Places
  <2>15. NotTorn'
    BY <1>0, <1>n, <2>1, <2>2, <2>3, <2>4, <2>5, <2>6, <2>7, <2>8 DEF NotTorn, SlotsHold, InSlot, Control, Accepted
  <2>16. Newer'
    BY <1>0, <1>n, <2>1, <2>2, <2>3, <2>4, <2>5, <2>6, <2>7, <2>8 DEF Newer, Trusted, Accepted, Control, SlotsHold, InSlot, OwnOnly, Versions
  <2>17. OwnOnly'
    BY <1>0, <1>n, <2>1, <2>2, <2>3, <2>4, <2>5, <2>6, <2>7, <2>8 DEF OwnOnly, Trusted, Accepted, Control, SlotsHold, SlotsOwned, InSlot, Places, Newer
  <2>. QED
    BY <2>9, <2>10, <2>11, <2>12, <2>13, <2>14, <2>15, <2>16, <2>17 DEF DInv
<1>15. ASSUME FlushEnd
      PROVE  DInv'
  <2>1. pc = "flush" /\ todo = {} /\ pc' = "idle" /\ key' = NoKey /\ page_cnt' = 0 /\ recovering' = FALSE /\ Entries' = {}
        /\ UNCHANGED <<header, slot, data, asked, todo, failed, twice, cut, faults>>
    BY <1>15 DEF FlushEnd, Goto, Empty, Entries, disk_vars, history_vars
  <2>2. DOMAIN dblwr_pages_' = {}
    BY <2>1 DEF Entries
  <2>3. Count' = 0
    BY <2>1, FS_EmptySet DEF Count
  <2>4. TypeOK'
    <3>1. page_cnt' \in 0 .. Cardinality(Key)
      BY <1>n, <2>1
    <3>. QED
      BY <1>0, <2>1, <2>2, <2>3, <3>1 DEF TypeOK
  <2>5. Control'
    BY <1>0, <1>n, <2>1, <2>2, <2>3 DEF Control
  <2>6. Places'
    BY <1>0, <1>n, <2>1, <2>2, <2>3 DEF Places, Control
  <2>7. Versions'
    BY <1>0, <1>n, <2>1, <2>2, <2>3 DEF Versions, Control, Places
  <2>8. SlotsOwned'
    BY <1>0, <1>n, <2>1, <2>2, <2>3 DEF SlotsOwned, Control, Places
  <2>9. SlotsHold'
    BY <1>0, <1>n, <2>1, <2>2, <2>3 DEF SlotsHold, InSlot, Control, Places
  <2>10. NotTorn'
    BY <1>0, <1>n, <2>1, <2>2, <2>3 DEF NotTorn, SlotsHold, InSlot, Control, Accepted
  <2>11. Newer'
    BY <1>0, <1>n, <2>1, <2>2, <2>3 DEF Newer, Trusted, Accepted, Control, SlotsHold, InSlot, OwnOnly, Versions
  <2>12. OwnOnly'
    BY <1>0, <1>n, <2>1, <2>2, <2>3 DEF OwnOnly, Trusted, Accepted, Control, SlotsHold, SlotsOwned, InSlot, Places, Newer
  <2>. QED
    BY <2>4, <2>5, <2>6, <2>7, <2>8, <2>9, <2>10, <2>11, <2>12 DEF DInv
<1>16. ASSUME NEW k \in Key, UseFreed(k)
      PROVE  DInv'
  <2>1. pc \in {"idle", "flush"} /\ pc' = "undefined" /\ key' = NoKey
        /\ UNCHANGED <<page_cnt, header, slot, data, asked, todo, recovering, failed, twice, cut, faults>>
    BY <1>0, <1>16 DEF UseFreed, Goto, memory_vars, disk_vars, history_vars, Entries, Freed
  <2>2. KeepEntries
    BY <1>16, SameEntries DEF UseFreed, memory_vars
  <2>3. TypeOK'
    BY <1>0, <1>n, <2>1, <2>2 DEF TypeOK, KeepEntries
  <2>4. Control'
    BY <1>0, <1>n, <2>1, <2>2 DEF Control, KeepEntries
  <2>5. Places'
    BY <1>0, <1>n, <2>1, <2>2 DEF Places, Control, KeepEntries
  <2>6. Versions'
    BY <1>0, <1>n, <2>1, <2>2 DEF Versions, Control, Places, KeepEntries
  <2>7. SlotsOwned'
    BY <1>0, <1>n, <2>1, <2>2 DEF SlotsOwned, Control, Places, KeepEntries
  <2>8. SlotsHold'
    BY <1>0, <1>n, <2>1, <2>2 DEF SlotsHold, InSlot, Control, Places, KeepEntries
  <2>9. NotTorn'
    BY <1>0, <1>n, <2>1, <2>2 DEF NotTorn, SlotsHold, InSlot, Control, Accepted, KeepEntries
  <2>10. Newer'
    BY <1>0, <1>n, <2>1, <2>2 DEF Newer, Trusted, Accepted, Control, SlotsHold, InSlot, OwnOnly, Versions, KeepEntries
  <2>11. OwnOnly'
    BY <1>0, <1>n, <2>1, <2>2 DEF OwnOnly, Trusted, Accepted, Control, SlotsHold, SlotsOwned, InSlot, Places, Newer, KeepEntries
  <2>. QED
    BY <2>3, <2>4, <2>5, <2>6, <2>7, <2>8, <2>9, <2>10, <2>11 DEF DInv
<1>17. ASSUME Crash
      PROVE  DInv'
  <2>1. pc # "down" /\ pc' = "down" /\ key' = NoKey /\ page_cnt' = 0 /\ todo' = {} /\ recovering' = FALSE /\ Entries' = {}
        /\ UNCHANGED <<header, asked, failed, twice, faults>>
    BY <1>17 DEF Crash, Stop, Goto, Empty, Entries
  <2>2. DOMAIN dblwr_pages_' = {}
    BY <2>1 DEF Entries
  <2>3. Count' = 0
    BY <2>1, FS_EmptySet DEF Count
  <2>4. \/ UNCHANGED <<slot, data, cut>>
        \/ /\ pc \in {"slot", "rewrite", "mark"} /\ key \in Entries /\ TearSlot(key) /\ UNCHANGED data
           /\ cut' \subseteq cut \cup {key}
        \/ /\ pc = "data" /\ key \in Entries /\ data' = [data EXCEPT ![key] = Torn] /\ UNCHANGED <<slot, cut>>
    BY <1>0, <1>17 DEF Crash, Control
  <2>5. slot' \in [Index -> SlotPage] /\ data' \in [Key -> Version \cup {Torn}] /\ cut' \subseteq Key
        /\ (\A i \in Index : slot'[i].version # Torn => slot'[i] = slot[i])
        /\ (\A j \in Key : data'[j] # Torn => data'[j] = data[j])
    BY <1>0, <1>n, <2>4, TornApart DEF TypeOK
  <2>6. TypeOK'
    <3>1. page_cnt' \in 0 .. Cardinality(Key)
      BY <1>n, <2>1
    <3>. QED
      BY <1>0, <2>1, <2>2, <2>3, <2>4, <2>5, <3>1 DEF TypeOK
  <2>7. Control'
    BY <1>0, <1>n, <2>1, <2>2, <2>3, <2>4, <2>5 DEF Control
  <2>8. Places'
    BY <1>0, <1>n, <2>1, <2>2, <2>3, <2>4, <2>5 DEF Places, Control
  <2>9. Versions'
    <3>1. \A j \in Key : data'[j] <= asked'[j]
      BY <1>0, <1>n, <2>1, <2>5 DEF Versions
    <3>2. \A i \in Index : slot'[i].version # Torn =>
             slot'[i].key \in Key /\ slot'[i].version <= asked'[slot'[i].key]
      BY <1>0, <2>1, <2>5 DEF Versions
    <3>. QED
      BY <2>1, <3>1, <3>2 DEF Versions
  <2>10. SlotsOwned'
    BY <1>0, <1>n, <2>1, <2>2, <2>3, <2>4, <2>5 DEF SlotsOwned, Control, Places
  <2>11. SlotsHold'
    BY <1>0, <1>n, <2>1, <2>2, <2>3, <2>4, <2>5 DEF SlotsHold, InSlot, Control, Places
  <2>12. NotTorn'
    <3>. SUFFICES ASSUME NEW j \in Key \ failed, data'[j] = Torn
                  PROVE  \E i \in Accepted' : slot'[i].key = j
      BY <2>1 DEF NotTorn
    <3>1. data[j] = Torn => j \in Entries /\ ~Freed(j) /\ pc \notin {"slot", "rewrite", "header"}
      BY <1>0, <2>1 DEF NotTorn, Control
    <3>2. /\ j \in Entries \ failed /\ ~Freed(j) /\ pc \notin {"slot", "rewrite", "header"}
          /\ slot'[Place(j)] = slot[Place(j)]
      <4>1. CASE UNCHANGED <<slot, data, cut>>
        BY <3>1, <4>1
      <4>2. CASE pc \in {"slot", "rewrite", "mark"} /\ key \in Entries /\ TearSlot(key) /\ UNCHANGED data
        <5>1. pc = "mark" /\ j \in Entries /\ ~Freed(j)
          BY <3>1, <4>2
        <5>2. j # key
          BY <1>0, <1>n, <4>2, <5>1 DEF SlotsHold
        <5>3. Place(j) # Place(key)
          BY <1>0, <4>2, <5>1, <5>2 DEF Places
        <5>. QED
          BY <1>0, <1>n, <4>2, <5>1, <5>3, TornApart
      <4>3. CASE pc = "data" /\ key \in Entries /\ data' = [data EXCEPT ![key] = Torn] /\ UNCHANGED <<slot, cut>>
        <5>1. ~Freed(key)
          BY <1>0, <4>3 DEF Control
        <5>2. j = key \/ data[j] = Torn
          BY <1>0, <1>n, <4>3 DEF TypeOK
        <5>. QED
          BY <3>1, <4>3, <5>1, <5>2
      <4>. QED
        BY <2>4, <4>1, <4>2, <4>3
    <3>3. Place(j) \in Accepted /\ slot[Place(j)].key = j
      BY <1>0, <3>2, HasCopy
    <3>. QED
      BY <2>1, <3>2, <3>3 DEF Accepted
  <2>13. Newer'
    <3>1. ASSUME NEW i \in Accepted', slot'[i].key \in Trusted
          PROVE  slot'[i].version >= data'[slot'[i].key]
      <4>1. i \in Accepted /\ slot'[i] = slot[i] /\ i \in Index
        BY <2>1, <2>5, <3>1 DEF Accepted
      <4>2. slot[i].version >= data[slot[i].key] /\ slot[i].version \in Nat /\ slot[i].key \in Key
        BY <1>0, <1>n, <3>1, <4>1 DEF Newer, Accepted, Trusted
      <4>. QED
        BY <1>n, <2>5, <4>1, <4>2
    <3>. QED
      BY <2>1, <3>1 DEF Newer, Trusted
  <2>14. OwnOnly'
    BY <1>0, <1>n, <2>1, <2>2, <2>3, <2>4, <2>5 DEF OwnOnly, Trusted, Accepted, Control, SlotsHold, SlotsOwned, InSlot, Places, Newer
  <2>. QED
    BY <2>6, <2>7, <2>8, <2>9, <2>10, <2>11, <2>12, <2>13, <2>14 DEF DInv
<1>18. ASSUME Load
      PROVE  DInv'
  <2>1. pc = "down" /\ pc' = "flush" /\ key' = NoKey /\ page_cnt' = header /\ todo' = Entries' /\ recovering' = TRUE
        /\ UNCHANGED <<header, slot, data, asked, failed, cut, faults>>
    BY <1>18 DEF Load, Goto, Entries, disk_vars
  <2>2. Accepted' = Accepted /\ Accepted \subseteq Index /\ Accepted \subseteq Nat
    BY <1>n, <2>1 DEF Accepted
  <2>3. \A j \in Key : \/ Copy(j) = {} /\ \A i \in Accepted : slot[i].key # j
                       \/ Copy(j) # {} /\ (CHOOSE i \in Copy(j) : TRUE) \in Copy(j)
    <3>. SUFFICES ASSUME NEW j \in Key
                  PROVE  \/ Copy(j) = {} /\ \A i \in Accepted : slot[i].key # j
                         \/ Copy(j) # {} /\ (CHOOSE i \in Copy(j) : TRUE) \in Copy(j)
      OBVIOUS
    <3>1. Copy(j) = FirstIn(Accepted, slot, j)
      BY DEF Copy, FirstIn
    <3>2. Accepted \in SUBSET Nat
      BY <2>2
    <3>. QED
      BY <3>1, <3>2, FirstCopy
  <2>4. Entries' = {j \in Key : Copy(j) # {}}
        /\ \A j \in Entries' : /\ Place(j)' = (CHOOSE i \in Copy(j) : TRUE)
                               /\ Taken(j)' = slot[Place(j)'].version /\ Freed(j)' = FALSE
    BY <1>18 DEF Load, Entries, Place, Taken, Freed
  <2>5. \A j \in Entries' : /\ j \in Key /\ Place(j)' \in Accepted /\ slot[Place(j)'].key = j
                            /\ \A i \in Accepted : slot[i].key = j => Place(j)' <= i
    BY <2>3, <2>4 DEF Copy
  <2>6. \A i \in Accepted : slot[i].version # Torn /\ slot[i].version \in Version /\ slot[i].key \in Entries' /\ i < header
    BY <1>0, <1>n, <2>3, <2>4 DEF Accepted, Versions
  <2>7. twice' \subseteq Key /\ Trusted' \subseteq Trusted
        /\ \A i, j \in Accepted : slot[i].key = slot[j].key /\ slot[i].key \in Trusted' => i = j
    BY <1>0, <1>18 DEF Load, Trusted, TypeOK
  <2>8. DOMAIN dblwr_pages_' \subseteq Key /\ \A j \in DOMAIN dblwr_pages_' : dblwr_pages_'[j] \in DoubleWritePage
    BY <1>18, <2>2, <2>3, <2>6 DEF Load, Copy, DoubleWritePage
  <2>9. TypeOK'
    BY <1>0, <1>n, <2>1, <2>2, <2>3, <2>4, <2>5, <2>6, <2>7, <2>8 DEF TypeOK
  <2>10. Control'
    BY <1>0, <1>n, <2>1, <2>2, <2>3, <2>4, <2>5, <2>6, <2>7, <2>8 DEF Control
  <2>11. Places'
    BY <1>0, <1>n, <2>1, <2>2, <2>3, <2>4, <2>5, <2>6, <2>7, <2>8 DEF Places, Control
  <2>12. Versions'
    <3>1. ASSUME NEW j \in Entries' PROVE Taken(j)' <= asked[j]
      <4>1. Place(j)' \in Index /\ slot[Place(j)'].key = j /\ slot[Place(j)'].version # Torn
            /\ Taken(j)' = slot[Place(j)'].version
        BY <2>2, <2>4, <2>5, <2>6
      <4>. QED
        BY <1>0, <4>1 DEF Versions
    <3>2. /\ \A j \in Key : data[j] <= asked[j]
          /\ \A i \in Index : slot[i].version # Torn =>
                slot[i].key \in Key /\ slot[i].version <= asked[slot[i].key]
      BY <1>0 DEF Versions
    <3>. QED
      BY <2>1, <3>1, <3>2 DEF Versions
  <2>13. SlotsOwned'
    BY <1>0, <1>n, <2>1, <2>2, <2>3, <2>4, <2>5, <2>6, <2>7, <2>8 DEF SlotsOwned, Control, Places
  <2>14. SlotsHold'
    BY <1>0, <1>n, <2>1, <2>2, <2>3, <2>4, <2>5, <2>6, <2>7, <2>8 DEF SlotsHold, InSlot, Control, Places
  <2>15. NotTorn'
    BY <1>0, <1>n, <2>1, <2>2, <2>3, <2>4, <2>5, <2>6, <2>7, <2>8 DEF NotTorn, SlotsHold, InSlot, Control, Accepted
  <2>16. Newer'
    BY <1>0, <1>n, <2>1, <2>2, <2>3, <2>4, <2>5, <2>6, <2>7, <2>8 DEF Newer, Trusted, Accepted, Control, SlotsHold, InSlot, OwnOnly, Versions
  <2>17. OwnOnly'
    BY <1>0, <1>n, <2>1, <2>2, <2>3, <2>4, <2>5, <2>6, <2>7, <2>8 DEF OwnOnly, Trusted, Accepted, Control, SlotsHold, SlotsOwned, InSlot, Places, Newer
  <2>. QED
    BY <2>9, <2>10, <2>11, <2>12, <2>13, <2>14, <2>15, <2>16, <2>17 DEF DInv
<1>19. ASSUME UNCHANGED vars
      PROVE  DInv'
  <2>1. UNCHANGED <<dblwr_pages_, pc, key, page_cnt, header, slot, data, asked, todo, recovering, failed, twice, cut, faults>>
    BY <1>19 DEF vars, memory_vars, disk_vars, history_vars
  <2>2. TypeOK'
    BY <1>0, <2>1 DEF TypeOK
  <2>3. Control'
    BY <1>0, <2>1 DEF Control, Entries, Freed
  <2>4. Places'
    BY <1>0, <2>1 DEF Places, Entries, Place, Count
  <2>5. Versions'
    BY <1>0, <2>1 DEF Versions, Entries, Taken
  <2>6. SlotsOwned'
    BY <1>0, <2>1 DEF SlotsOwned, Entries, Place
  <2>7. SlotsHold'
    BY <1>0, <2>1 DEF SlotsHold, InSlot, Entries, Place, Taken, Freed
  <2>8. NotTorn'
    BY <1>0, <2>1 DEF NotTorn, Accepted
  <2>9. Newer'
    BY <1>0, <2>1 DEF Newer, Accepted, Trusted, Entries, Taken
  <2>10. OwnOnly'
    BY <1>0, <2>1 DEF OwnOnly, Accepted, Trusted, Entries, Place
  <2>. QED
    BY <2>2, <2>3, <2>4, <2>5, <2>6, <2>7, <2>8, <2>9, <2>10 DEF DInv
<1>. QED
  BY <1>1, <1>2, <1>3, <1>4, <1>5, <1>6, <1>7, <1>8, <1>9, <1>10, <1>11, <1>12, <1>13, <1>14, <1>15, <1>16, <1>17, <1>18, <1>19 DEF Next

-----------------------------------------------------------------------------
(* It holds before the first page is added.                                *)
LEMMA InitDInv == Init => DInv
<1>. SUFFICES ASSUME Init PROVE DInv
  OBVIOUS
<1>0. Cardinality(Key) \in Nat /\ 0 \in Version /\ NoKey \notin Key
  BY KeyAssumption, BoundAssumption, FS_CardinalityType DEF Version
<1>1. TypeOK
  <2>1. slot \in [Index -> SlotPage]
    BY DEF Init, Unwritten, SlotPage
  <2>2. data \in [Key -> Version \cup {Torn}] /\ asked \in [Key -> Version]
    BY <1>0 DEF Init
  <2>3. DOMAIN dblwr_pages_ = {} /\ page_cnt = 0 /\ header = 0 /\ faults = 0 /\ recovering = FALSE
        /\ todo = {} /\ failed = {} /\ cut = {} /\ twice = {} /\ pc = "idle" /\ key = NoKey
    BY DEF Init, Empty
  <2>4. 0 \in 0 .. Cardinality(Key) /\ 0 \in 0 .. MaxFaults
    BY <1>0, BoundAssumption
  <2>. QED
    BY <2>1, <2>2, <2>3, <2>4 DEF TypeOK
<1>2. Entries = {} /\ Count = 0 /\ Accepted = {}
  BY FS_EmptySet DEF Init, Empty, Entries, Count, Accepted, Index
<1>3. Control /\ SlotsOwned /\ SlotsHold /\ OwnOnly
  BY <1>2 DEF Init, Control, SlotsOwned, SlotsHold, OwnOnly
<1>4. Places
  BY <1>2 DEF Init, Places, Index
<1>5. Versions /\ NotTorn /\ Newer
  <2>1. \A k \in Key : data[k] = 0 /\ asked[k] = 0
    BY DEF Init
  <2>2. \A i \in Index : slot[i].version = Torn
    BY DEF Init, Unwritten
  <2>. QED
    BY <1>2, <2>1, <2>2 DEF Versions, NotTorn, Newer, Torn
<1>. QED
  BY <1>1, <1>3, <1>4, <1>5 DEF DInv

(* The inductive invariant holds.                                          *)
LEMMA DInvHolds == Spec => []DInv
  BY InitDInv, StepDInv, PTL DEF Spec

(* Memory, the file and the data files keep their types: no entry has a    *)
(* slot beyond the pages there are, and the header counts no more          *)
(* (add_page(), flush_page(), load_pages()).                               *)
THEOREM TypesKept == Spec => []TypeOK
<1>1. DInv => TypeOK
  BY DEF DInv
<1>. QED
  BY <1>1, DInvHolds, PTL

-----------------------------------------------------------------------------
(* What a crash would leave, as a function of the slots and the data.      *)
RecoveredIn(A, s, d, k) ==
    IF FirstIn(A, s, k) # {} THEN s[CHOOSE i \in FirstIn(A, s, k) : TRUE].version ELSE d[k]

(* v is what the first slot of k holds, or what is in the data file.       *)
FirstVersion(A, s, d, k, v) ==
    \/ (\A i \in A : s[i].key # k) /\ v = d[k]
    \/ \E i \in A : s[i].key = k /\ v = s[i].version /\ \A j \in A : s[j].key = k => i <= j

(* That is what a crash would leave.                                       *)
LEMMA RecoveredFrom ==
    ASSUME NEW A \in SUBSET Nat, NEW s, NEW d, NEW k
    PROVE  FirstVersion(A, s, d, k, RecoveredIn(A, s, d, k))
<1>1. CASE FirstIn(A, s, k) = {} /\ \A i \in A : s[i].key # k
  BY <1>1 DEF RecoveredIn, FirstVersion
<1>2. CASE FirstIn(A, s, k) # {} /\ (CHOOSE n \in FirstIn(A, s, k) : TRUE) \in FirstIn(A, s, k)
  <2>. DEFINE i == CHOOSE n \in FirstIn(A, s, k) : TRUE
  <2>1. RecoveredIn(A, s, d, k) = s[i].version
    BY <1>2 DEF RecoveredIn
  <2>2. i \in A /\ s[i].key = k /\ \A j \in A : s[j].key = k => i <= j
    BY <1>2 DEF FirstIn
  <2>. QED
    BY <2>1, <2>2 DEF FirstVersion
<1>. QED
  BY <1>1, <1>2, FirstCopy

(* It depends on nothing but the slots of k and, without one, the data.    *)
LEMMA SameRecovered ==
    ASSUME NEW A \in SUBSET Nat, NEW s, NEW d, NEW B \in SUBSET Nat, NEW t, NEW e, NEW k,
           \A i \in A : s[i].key = k => i \in B /\ t[i].key = k /\ t[i].version = s[i].version,
           \A i \in B : t[i].key = k => i \in A /\ s[i].key = k,
           d[k] = e[k] \/ \E i \in A : s[i].key = k
    PROVE  RecoveredIn(A, s, d, k) = RecoveredIn(B, t, e, k)
<1>1. /\ FirstVersion(A, s, d, k, RecoveredIn(A, s, d, k))
      /\ FirstVersion(B, t, e, k, RecoveredIn(B, t, e, k))
  BY RecoveredFrom
<1>3. CASE \A i \in A : s[i].key # k
  BY <1>1, <1>3 DEF FirstVersion
<1>4. CASE \E i \in A : s[i].key = k
  <2>1. PICK i \in A : /\ s[i].key = k /\ RecoveredIn(A, s, d, k) = s[i].version
                       /\ \A j \in A : s[j].key = k => i <= j
    BY <1>1, <1>4 DEF FirstVersion
  <2>2. PICK n \in B : /\ t[n].key = k /\ RecoveredIn(B, t, e, k) = t[n].version
                       /\ \A j \in B : t[j].key = k => n <= j
    BY <1>1, <2>1 DEF FirstVersion
  <2>3. i = n
    BY <2>1, <2>2
  <2>. QED
    BY <2>1, <2>2, <2>3
<1>. QED
  BY <1>3, <1>4

(* The operator of the specification is this one.                          *)
LEMMA RecoveredHere ==
    \A k : Recovered(k) = RecoveredIn(Accepted, slot, data, k)
  BY DEF Recovered, Copy, RecoveredIn, FirstIn

(* What the invariant says of a page's copies.                             *)
LEMMA WhatIsRecovered ==
    ASSUME DInv, NEW k \in Key
    PROVE  /\ Accepted \in SUBSET Nat
           /\ Recovered(k) \in Int /\ Recovered(k) <= asked[k]
           /\ k \notin failed => Recovered(k) # Torn
           /\ k \in Trusted => Recovered(k) >= data[k]
           /\ k \in Trusted /\ k \in Entries /\ ~(pc \in {"slot", "rewrite", "header"} /\ key = k) =>
                 Recovered(k) = Taken(k)
           /\ k \in Trusted /\ k \notin Entries /\ pc # "down" => Recovered(k) = data[k]
<1>0. TypeOK /\ Control /\ Places /\ Versions /\ SlotsOwned /\ SlotsHold /\ NotTorn /\ Newer /\ OwnOnly
  BY DEF DInv
<1>1. /\ Accepted \in SUBSET Nat /\ Accepted \subseteq Index
      /\ \A i \in Accepted : slot[i].version \in Nat /\ slot[i].version # Torn
      /\ Torn = -1 /\ asked[k] \in Nat /\ data[k] \in Int
  BY <1>0, Numbers DEF Accepted
<1>2. \/ (\A i \in Accepted : slot[i].key # k) /\ Recovered(k) = data[k]
      \/ \E i \in Accepted : slot[i].key = k /\ Recovered(k) = slot[i].version
  <2>1. FirstVersion(Accepted, slot, data, k, RecoveredIn(Accepted, slot, data, k))
    BY <1>1, RecoveredFrom
  <2>. QED
    BY <2>1, RecoveredHere DEF FirstVersion
<1>3. Recovered(k) \in Int /\ Recovered(k) <= asked[k]
  BY <1>0, <1>1, <1>2 DEF Versions
<1>4. ASSUME k \notin failed PROVE Recovered(k) # Torn
  <2>1. CASE \A i \in Accepted : slot[i].key # k
    <3>1. ASSUME data[k] = Torn PROVE FALSE
      <4>1. k \in Entries \ failed /\ ~Freed(k) /\ pc \notin {"slot", "rewrite", "header"}
        BY <1>0, <1>4, <2>1, <3>1 DEF NotTorn, Control
      <4>. QED
        BY <1>0, <2>1, <4>1, HasCopy
    <3>. QED
      BY <1>2, <2>1, <3>1
  <2>2. CASE \E i \in Accepted : slot[i].key = k /\ Recovered(k) = slot[i].version
    BY <1>1, <2>2
  <2>. QED
    BY <1>2, <2>1, <2>2
<1>5. k \in Trusted => Recovered(k) >= data[k]
  BY <1>0, <1>1, <1>2 DEF Newer
<1>6. ASSUME k \in Trusted, k \in Entries, ~(pc \in {"slot", "rewrite", "header"} /\ key = k)
      PROVE  Recovered(k) = Taken(k)
  <2>1. pc # "down" /\ k \in Entries \ failed
    BY <1>0, <1>6 DEF Control, Trusted
  <2>2. \A i \in Accepted : slot[i].key = k => i = Place(k)
    BY <1>0, <1>6, <2>1 DEF OwnOnly
  <2>3. CASE Freed(k)
    BY <1>0, <1>1, <1>2, <2>1, <2>2, <2>3 DEF SlotsHold
  <2>4. CASE ~Freed(k)
    <3>1. Place(k) \in Accepted /\ slot[Place(k)].key = k /\ slot[Place(k)].version = Taken(k)
      BY <1>0, <1>6, <2>1, <2>4, HasCopy
    <3>. QED
      BY <1>2, <2>2, <3>1
  <2>. QED
    BY <2>3, <2>4
<1>7. ASSUME k \in Trusted, k \notin Entries, pc # "down" PROVE Recovered(k) = data[k]
  BY <1>0, <1>2, <1>7 DEF OwnOnly
<1>. QED
  BY <1>1, <1>3, <1>4, <1>5, <1>6, <1>7

(* Wherever the system stops, also while it recovers, every page is whole  *)
(* in the buffer's file or in its data file, but for those a failed write  *)
(* has hit (add_page(), flush_page(), load_pages()).                       *)
THEOREM EveryPageWhole == Spec => []IntactCopy
<1>1. DInv => IntactCopy
  BY WhatIsRecovered DEF IntactCopy
<1>. QED
  BY <1>1, DInvHolds, PTL

(* A page that add_page() took is recovered in the version it was taken    *)
(* in, and no older slot takes the place of what is in the data file,      *)
(* unless a write of the page failed or one crash left it in two slots     *)
(* (add_page(), flush_page(), load_pages()).                               *)
THEOREM TakenIsRecovered == Spec => []TakenSurvives
<1>1. DInv => TakenSurvives
  <2>. SUFFICES ASSUME DInv, NEW k \in Key \ (failed \cup twice)
                PROVE  /\ Recovered(k) >= data[k]
                       /\ k \in Entries /\ ~(pc \in {"slot", "rewrite", "header"} /\ key = k) =>
                             Recovered(k) = Taken(k)
    BY DEF TakenSurvives, Entries, Taken, Buffered
  <2>1. k \in Trusted
    BY DEF Trusted
  <2>. QED
    BY <2>1, WhatIsRecovered
<1>. QED
  BY <1>1, DInvHolds, PTL

-----------------------------------------------------------------------------
(* The refinement.                                                         *)

(* The facts above, as a state predicate.                                  *)
Facts ==
    /\ Accepted \in SUBSET Nat
    /\ \A k \in Key :
          /\ Recovered(k) \in Int /\ Recovered(k) <= asked[k]
          /\ k \in Trusted => Recovered(k) >= data[k]
          /\ k \in Trusted /\ k \in Entries /\ ~(pc \in {"slot", "rewrite", "header"} /\ key = k) =>
                Recovered(k) = Taken(k)
          /\ k \in Trusted /\ k \notin Entries /\ pc # "down" => Recovered(k) = data[k]

(* They follow from the invariant.                                         *)
LEMMA FactsHold == DInv => Facts
<1>. SUFFICES ASSUME DInv PROVE Facts
  OBVIOUS
<1>1. Accepted \in SUBSET Nat
  BY Numbers DEF DInv, Accepted
<1>. QED
  BY <1>1, WhatIsRecovered DEF Facts

(* A step that touches neither a copy of k nor its data changes nothing.   *)
LEMMA SameCopies ==
    ASSUME Facts, Facts', NEW k \in Key, UNCHANGED header,
           \A i \in Index : slot[i].key = k \/ slot'[i].key = k =>
               slot'[i].key = slot[i].key /\ slot'[i].version = slot[i].version,
           data'[k] = data[k] \/ \E i \in Accepted : slot[i].key = k
    PROVE  Recovered(k)' = Recovered(k)
<1>1. Accepted \in SUBSET Nat /\ Accepted' \in SUBSET Nat
  BY DEF Facts
<1>2. /\ Recovered(k) = RecoveredIn(Accepted, slot, data, k)
      /\ Recovered(k)' = RecoveredIn(Accepted', slot', data', k)
  BY DEF Recovered, Copy, RecoveredIn, FirstIn
<1>3. /\ \A i \in Accepted : slot[i].key = k =>
             i \in Accepted' /\ slot'[i].key = k /\ slot'[i].version = slot[i].version
      /\ \A i \in Accepted' : slot'[i].key = k => i \in Accepted /\ slot[i].key = k
  BY DEF Accepted
<1>4. data[k] = data'[k] \/ \E i \in Accepted : slot[i].key = k
  OBVIOUS
<1>. QED
  BY <1>1, <1>2, <1>3, <1>4, SameRecovered

(* A page once given up stays so.                                          *)
LEMMA ExemptGrows ==
    [Next]_vars => failed \subseteq failed' /\ cut \subseteq cut' /\ twice \subseteq twice'
  BY DEF Next, vars, AddHit, AddMiss, FlushTake, UseFreed, AddRewrite, AddSlot, AddSlotFails,
         AddHeader, AddHeaderFails, Flush, FlushData, FlushDataFails, FlushMark, FlushMarkFails,
         FlushEnd, Crash, Load, Fault, history_vars

(* No step loses what is safe.                                             *)
LEMMA NoOlder ==
    ASSUME DInv, Facts, Facts', [Next]_vars, UNCHANGED asked,
           NEW k \in Key, k \notin failed' \cup cut' \cup twice'
    PROVE  Recovered(k) <= Recovered(k)'
<1>0. TypeOK /\ Control /\ Places /\ Versions /\ SlotsOwned /\ SlotsHold /\ NotTorn /\ Newer /\ OwnOnly
  BY DEF DInv
<1>1. k \in Trusted /\ k \in Trusted' /\ k \notin failed
  BY ExemptGrows DEF Trusted
<1>2. /\ Recovered(k) \in Int /\ Recovered(k) <= asked[k]
      /\ Recovered(k)' \in Int /\ Recovered(k)' >= data'[k]
      /\ asked[k] \in Nat /\ NoKey \notin Key
  BY <1>0, <1>1, Numbers, KeyAssumption DEF Facts
<1>3. ASSUME Recovered(k)' = Recovered(k) PROVE Recovered(k) <= Recovered(k)'
  BY <1>2, <1>3
<1>4. ASSUME UNCHANGED <<header, slot, data>> PROVE Recovered(k)' = Recovered(k)
  BY <1>4 DEF Recovered, Copy, Accepted
<1>5. ASSUME k \in Entries, k \in Entries', Taken(k)' = Taken(k),
             ~(pc \in {"slot", "rewrite", "header"} /\ key = k),
             ~(pc' \in {"slot", "rewrite", "header"} /\ key' = k)
      PROVE  Recovered(k)' = Recovered(k)
  BY <1>1, <1>5 DEF Facts
<1>6. ASSUME k \notin Entries, k \notin Entries', pc # "down", pc' # "down", data'[k] = data[k]
      PROVE  Recovered(k)' = Recovered(k)
  BY <1>1, <1>6 DEF Facts
<1>7. ASSUME KeepEntries, pc' \in {"idle", "flush", "mark"}, pc # "down", key # k, data'[k] = data[k]
      PROVE  Recovered(k)' = Recovered(k)
  <2>1. CASE k \in Entries
    BY <1>5, <1>7, <2>1 DEF KeepEntries
  <2>2. CASE k \notin Entries
    BY <1>6, <1>7, <2>2 DEF KeepEntries
  <2>. QED
    BY <2>1, <2>2
<1>8. CASE AddRewrite \/ AddHeader
  <2>1. /\ pc \in {"rewrite", "header"} /\ pc' \in {"idle", "flush"} /\ key' = NoKey /\ UNCHANGED data
        /\ KeepEntries
    BY <1>8, SameEntries DEF AddRewrite, AddHeader, AddEnds, FlushBegin, Goto, memory_vars
  <2>2. CASE k = key
    <3>1. k \in Entries /\ Taken(k) = asked[k]
      BY <1>0, <2>1, <2>2 DEF Control, Versions
    <3>2. Recovered(k)' = Taken(k)
      BY <1>1, <2>1, <3>1 DEF Facts, KeepEntries
    <3>. QED
      BY <1>2, <3>1, <3>2
  <2>3. CASE k # key
    BY <1>3, <1>7, <2>1, <2>3
  <2>. QED
    BY <2>2, <2>3
<1>9. CASE AddSlot
  <2>1. /\ pc = "slot" /\ key \in Entries /\ WriteSlot(key) /\ UNCHANGED <<header, data>> /\ KeepEntries
        /\ pc' \in {"header", "idle", "flush"} /\ (key' = key \/ key' = NoKey)
    BY <1>0, <1>9, SameEntries DEF AddSlot, AddEnds, FlushBegin, Goto, Control
  <2>2. /\ slot'[Place(key)].key = key /\ slot'[Place(key)].version = Taken(key)
        /\ \A i \in Index : i # Place(key) => slot'[i] = slot[i]
    BY <1>0, <2>1, Written
  <2>3. CASE k # key
    <3>1. CASE k \in Entries
      BY <1>2, <1>3, <1>5, <2>1, <2>3, <3>1 DEF KeepEntries
    <3>2. CASE k \notin Entries
      BY <1>3, <1>6, <2>1, <3>2 DEF KeepEntries
    <3>. QED
      BY <3>1, <3>2
  <2>4. CASE k = key /\ Place(k) \notin Accepted'
    <3>1. Place(k) \in Index /\ Taken(k) # Torn
      BY <1>0, <2>1, <2>4, Numbers
    <3>2. ~(Place(k) < header)
      BY <2>1, <2>2, <2>4, <3>1 DEF Accepted
    <3>3. Accepted' = Accepted /\ \A i \in Accepted : slot'[i] = slot[i]
      BY <2>1, <2>2, <2>4, <3>2 DEF Accepted
    <3>4. Recovered(k)' = Recovered(k)
      <4>1. /\ Recovered(k) = RecoveredIn(Accepted, slot, data, k)
            /\ Recovered(k)' = RecoveredIn(Accepted', slot', data', k)
        BY DEF Recovered, Copy, RecoveredIn, FirstIn
      <4>2. Accepted \in SUBSET Nat
        BY DEF Facts
      <4>. QED
        BY <2>1, <3>3, <4>1, <4>2, SameRecovered
    <3>. QED
      BY <1>3, <3>4
  <2>5. CASE k = key /\ Place(k) \in Accepted'
    <3>1. Place(k) = Count - 1 /\ Count \in Nat /\ Place(k) \in Nat /\ Taken(k) = asked[k] /\ ~recovering
          /\ Index \subseteq Nat
      BY <1>0, <2>1, <2>5, Numbers DEF Places, Control, Versions
    <3>2. ASSUME NEW i \in Accepted', slot'[i].key = k PROVE Place(k) <= i
      <4>1. SUFFICES ASSUME i < Place(k) PROVE FALSE
        BY <3>1 DEF Accepted
      <4>2. i \in Index /\ slot'[i] = slot[i] /\ slot[i].version # Torn
        BY <2>2, <2>5, <3>1, <4>1 DEF Accepted
      <4>3. PICK j \in Entries : Place(j) = i
        BY <1>0, <3>1, <4>1, <4>2 DEF Places
      <4>4. j # key
        BY <2>5, <3>1, <4>1, <4>3
      <4>. QED
        BY <1>0, <1>1, <2>5, <3>2, <4>2, <4>3, <4>4 DEF SlotsOwned
    <3>3. FirstVersion(Accepted', slot', data', k, Recovered(k)')
      <4>1. Recovered(k)' = RecoveredIn(Accepted', slot', data', k)
        BY DEF Recovered, Copy, RecoveredIn, FirstIn
      <4>2. Accepted' \in SUBSET Nat
        BY DEF Facts
      <4>. QED
        BY <4>1, <4>2, RecoveredFrom
    <3>4. Recovered(k)' = Taken(k)
      <4>1. PICK i \in Accepted' : /\ slot'[i].key = k /\ Recovered(k)' = slot'[i].version
                                   /\ \A j \in Accepted' : slot'[j].key = k => i <= j
        BY <2>2, <2>5, <3>3 DEF FirstVersion
      <4>2. i <= Place(k) /\ Place(k) <= i /\ i \in Nat
        BY <2>2, <2>5, <3>2, <4>1 DEF Facts
      <4>3. i = Place(k)
        BY <3>1, <4>2
      <4>. QED
        BY <2>2, <2>5, <4>1, <4>3
    <3>. QED
      BY <1>2, <3>1, <3>4
  <2>. QED
    BY <2>3, <2>4, <2>5
<1>10. CASE AddSlotFails
  <2>1. pc \in {"slot", "rewrite"} /\ pc' = "idle" /\ UNCHANGED data /\ KeepEntries /\ key \in failed'
    BY <1>0, <1>2, <1>10, SameEntries, KeyAssumption, Numbers
       DEF AddSlotFails, Goto, Fault, memory_vars, Control
  <2>. QED
    BY <1>1, <1>3, <1>7, <2>1 DEF Trusted
<1>11. CASE FlushData \/ FlushMark \/ FlushMarkFails
  <2>1. /\ pc \in {"data", "mark"} /\ pc' \in {"mark", "flush"} /\ key \in Entries
        /\ Entries' = Entries /\ \A j \in Entries : Taken(j)' = Taken(j)
    BY <1>0, <1>11 DEF FlushData, FlushMark, FlushMarkFails, Mark, Goto, memory_vars, Control,
                       Entries, Taken, TypeOK, DoubleWritePage
  <2>2. k # key => data'[k] = data[k]
    BY <1>0, <1>11 DEF FlushData, FlushMark, FlushMarkFails, TypeOK
  <2>3. CASE k \in Entries
    BY <1>3, <1>5, <2>1, <2>3
  <2>4. CASE k \notin Entries
    BY <1>3, <1>6, <2>1, <2>2, <2>4
  <2>. QED
    BY <2>3, <2>4
<1>12. CASE FlushDataFails
  <2>1. UNCHANGED <<header, slot>> /\ key \in failed'
    BY <1>12 DEF FlushDataFails, Fault
  <2>2. key # k
    BY <1>1, <2>1 DEF Trusted
  <2>3. data'[k] = data[k]
    BY <1>0, <1>12, <2>2 DEF FlushDataFails, TypeOK
  <2>. QED
    BY <1>3, <2>1, <2>3, SameCopies
<1>13. CASE Crash
  <2>1. UNCHANGED header
    BY <1>13 DEF Crash
  <2>2. CASE UNCHANGED <<slot, data>>
    BY <1>3, <1>4, <2>1, <2>2
  <2>3. CASE pc = "data" /\ key \in Entries /\ data' = [data EXCEPT ![key] = Torn] /\ UNCHANGED slot
    <3>1. k # key => data'[k] = data[k]
      BY <1>0, <2>3 DEF TypeOK
    <3>2. k = key => \E i \in Accepted : slot[i].key = k
      <4>. SUFFICES ASSUME k = key PROVE \E i \in Accepted : slot[i].key = k
        OBVIOUS
      <4>1. k \in Entries \ failed /\ ~Freed(k)
        BY <1>0, <1>1, <2>3 DEF Control
      <4>. QED
        BY <1>0, <2>3, <4>1, HasCopy
    <3>. QED
      BY <1>3, <2>1, <2>3, <3>1, <3>2, SameCopies
  <2>4. CASE pc = "mark" /\ key = k /\ key \in Entries /\ UNCHANGED data
    <3>1. Recovered(k) = Taken(k) /\ data[k] = Taken(k)
      BY <1>0, <1>1, <2>4 DEF Facts, SlotsHold
    <3>. QED
      BY <1>2, <2>4, <3>1
  <2>5. CASE pc \in {"slot", "rewrite", "mark"} /\ key # k /\ key \in Entries /\ TearSlot(key) /\ UNCHANGED data
    <3>1. CASE k \notin Entries
      <4>1. Recovered(k) = data[k]
        BY <1>1, <2>5, <3>1 DEF Facts
      <4>. QED
        BY <1>2, <2>5, <4>1
    <3>2. CASE k \in Entries
      <4>1. Place(k) # Place(key) /\ Place(key) \in Index
        BY <1>0, <2>5, <3>2, Numbers DEF Places
      <4>2. Place(key) \in Accepted => slot[Place(key)].key # k
        BY <1>0, <1>1, <2>5, <3>2, <4>1 DEF OwnOnly
      <4>3. /\ slot'[Place(key)].version = Torn /\ slot'[Place(key)].key = slot[Place(key)].key
            /\ \A i \in Index : i # Place(key) => slot'[i] = slot[i]
        BY <1>0, <2>5, TornApart
      <4>4. /\ \A i \in Accepted : slot[i].key = k =>
                   i \in Accepted' /\ slot'[i].key = k /\ slot'[i].version = slot[i].version
            /\ \A i \in Accepted' : slot'[i].key = k => i \in Accepted /\ slot[i].key = k
        BY <2>1, <4>1, <4>2, <4>3 DEF Accepted
      <4>5. /\ Recovered(k) = RecoveredIn(Accepted, slot, data, k)
            /\ Recovered(k)' = RecoveredIn(Accepted', slot', data', k)
            /\ Accepted \in SUBSET Nat /\ Accepted' \in SUBSET Nat
        BY DEF Recovered, Copy, RecoveredIn, FirstIn, Facts
      <4>6. Recovered(k)' = Recovered(k)
        BY <2>5, <4>4, <4>5, SameRecovered
      <4>. QED
        BY <1>3, <4>6
    <3>. QED
      BY <3>1, <3>2
  <2>. QED
    BY <1>0, <1>1, <1>13, <2>2, <2>3, <2>4, <2>5 DEF Crash, Control
<1>14. CASE \/ \E j \in Key : AddHit(j) \/ AddMiss(j) \/ FlushTake(j) \/ UseFreed(j)
            \/ AddHeaderFails \/ Flush \/ FlushEnd \/ Load \/ UNCHANGED vars
  <2>1. UNCHANGED <<header, slot, data>>
    BY <1>14 DEF AddHit, AddMiss, FlushTake, UseFreed, AddHeaderFails, Flush, FlushEnd, Load, vars, disk_vars
  <2>. QED
    BY <1>3, <1>4, <2>1
<1>. QED
  BY <1>8, <1>9, <1>10, <1>11, <1>12, <1>13, <1>14 DEF Next

(* The double write buffer implements PageStore: a crash at any moment, a  *)
(* second one during recovery included, leaves every page in a version     *)
(* that add_page() was given and that is not older than what it would have *)
(* left before, unless a write of the page failed, a crash tore its slot   *)
(* or load_pages() found it in two slots.                                  *)
THEOREM BufferImplementsStore == Spec => ImplementsStore
<1>1. Init => Store!Init
  <2>. SUFFICES ASSUME Init PROVE Store!Init
    OBVIOUS
  <2>0. header = 0 /\ \A i \in Index : i \in Nat
    BY KeyAssumption, FS_CardinalityType DEF Init, Index
  <2>1. Accepted = {}
    BY <2>0 DEF Accepted
  <2>2. \A k \in Key : Recovered(k) = data[k]
    BY <2>1 DEF Recovered, Copy
  <2>3. [k \in Key |-> Recovered(k)] = [k \in Key |-> 0]
    BY <2>2 DEF Init
  <2>. QED
    BY <2>3 DEF Init, Store!Init
<1>2. DInv /\ DInv' /\ Facts /\ Facts' /\ [Next]_vars => [Store!Next]_(Store!vars)
  <2>. SUFFICES ASSUME DInv, DInv', Facts, Facts', [Next]_vars PROVE Store!Next
    OBVIOUS
  <2>1. ASSUME NEW k \in Key, AddHit(k) \/ AddMiss(k) PROVE Store!Ask
    <3>1. asked' = [asked EXCEPT ![k] = @ + 1] /\ UNCHANGED <<header, slot, data, failed, cut, twice>>
      BY <2>1 DEF AddHit, AddMiss, disk_vars, history_vars
    <3>2. \A j : Recovered(j)' = Recovered(j)
      BY <3>1 DEF Recovered, Copy, Accepted
    <3>. QED
      BY <3>1, <3>2 DEF Store!Ask
  <2>2. ASSUME UNCHANGED asked PROVE Store!Advance
    <3>1. \A k \in Key \ (failed' \cup cut' \cup twice') :
             Recovered(k) <= Recovered(k)' /\ Recovered(k)' <= asked[k]
      BY <2>2, NoOlder DEF Facts
    <3>. QED
      BY <2>2, <3>1, ExemptGrows DEF Store!Advance
  <2>3. (\E k \in Key : AddHit(k) \/ AddMiss(k)) \/ UNCHANGED asked
    BY DEF Next, vars, FlushTake, UseFreed, AddRewrite, AddSlot, AddSlotFails, AddHeader, AddHeaderFails,
           Flush, FlushData, FlushDataFails, FlushMark, FlushMarkFails, FlushEnd, Crash, Load
  <2>. QED
    BY <2>1, <2>2, <2>3 DEF Store!Next
<1>. QED
  BY <1>1, <1>2, DInvHolds, FactsHold, PTL DEF Spec, ImplementsStore, Store!Spec
=============================================================================
