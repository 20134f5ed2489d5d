-------------------------- MODULE HyperionLogProofs --------------------------
(***************************************************************************)
(* Proofs about the log of hyperion_stream (HyperionLog), for any keys,    *)
(* sizes of records and of segments, and any bounds.                       *)
(*                                                                         *)
(* A file has the whole of a record or none of it, and the disk has what   *)
(* the operating system has or nothing, slot by slot.  So it is enough to  *)
(* follow which files have a record, wherever they have it.                *)
(*                                                                         *)
(* Sequence ids are compared as a reader unpacks them, so what struct does *)
(* to a number is proved too, byte by byte.  The induction theorems of the *)
(* library take an operator, so an induction over numbers is made with the *)
(* least counterexample (Least), and a recursive function is what its      *)
(* equation says once some function is shown to solve it (Recursion).      *)
(***************************************************************************)
EXTENDS HyperionLog, FiniteSetTheorems, SequenceTheorems, WellFoundedInduction, TLAPS

\* The sizes and times that entries have; what is said of their metadata is said
\* of SeqId and of Records below.
Types ==
    /\ up \in BOOLEAN /\ broken \in BOOLEAN
    /\ mem \in [Key -> 0 .. MaxWrites]
    /\ lastTime \in 0 .. MaxTime /\ segment \in 0 .. lastTime
    /\ up => segment = lastTime /\ segment \in Time
    /\ cursor \in 0 .. SegmentSize
    /\ written \in 0 .. MaxWrites /\ booted \in 0 .. written
    /\ os \in [Time -> [Slot -> 0 .. written]]
    /\ disk \in [Time -> [Slot -> 0 .. written]]
    /\ DOMAIN entry = Entry
    /\ \A r \in 1 .. written : entry[r].size \in Size
    /\ acked \in SUBSET (1 .. written) /\ aged \in SUBSET (1 .. written)
    /\ sequenceId \in Nat /\ errors \in 0 .. MaxErrors

Slots(file, r) == {i \in Slot : file[i] = r}

Has(file, r) == Slots(file, r) # {}

\* No file has a part of a record only.
Entire(files) ==
    \A t \in Time : \A r \in 1 .. written :
        Has(files[t], r) => Cardinality(Slots(files[t], r)) = entry[r].size

\* The disk is never ahead of the operating system.
DiskBehind == \A t \in Time : \A i \in Slot : disk[t][i] \in {0, os[t][i]}

\* What lies ahead of the cursor, and in segments to come, is free.
Free ==
    /\ \A t \in Time : t > lastTime => \A i \in Slot : os[t][i] = 0
    /\ up => \A i \in Slot : i > cursor => os[segment][i] = 0

\* Acknowledged records are in a file; those that a tick has seen, on the disk.
Logged == \A r \in acked : \E t \in Time : Has(os[t], r)
Flushed == \A r \in aged : \E t \in Time : Has(disk[t], r)

\* What the process has acknowledged is on the disk, or in the open segment that
\* the next tick syncs.
NextTick ==
    up => \A r \in Mine :
        \/ \E t \in Time : Has(disk[t], r)
        \/ ~broken /\ Has(os[segment], r)

\* The inductive invariant.
Inv ==
    /\ Types
    /\ Entire(os) /\ Entire(disk)
    /\ DiskBehind
    /\ Free
    /\ Logged /\ Flushed /\ NextTick
    /\ ReadsLastAcked

-----------------------------------------------------------------------------
(* Records and files. *)

LEMMA Bounds ==
    /\ SegmentSize \in Nat /\ MaxTime \in Nat /\ MaxWrites \in Nat /\ MaxErrors \in Nat
    /\ \A size \in Size : size \in Nat /\ size > 0 /\ size <= SegmentSize
BY ConstantsOK DEF ConstantsOK

LEMMA IntervalSize ==
    ASSUME NEW c \in Nat, NEW size \in Nat, size > 0
    PROVE  Cardinality(c + 1 .. c + size) = size
<1>. DEFINE a == c + 1  b == c + size
<1>1. a \in Int /\ b \in Int /\ ~ (a > b) /\ b - a + 1 = size
    OBVIOUS
<1>. HIDE DEF a, b
<1>2. Cardinality(a .. b) = size
    BY <1>1, FS_Interval
<1>. QED
    BY <1>2 DEF a, b

\* A file has the whole of a record if it has any of it.
LEMMA WholeIffHas ==
    ASSUME Types, NEW files, Entire(files), NEW r \in 1 .. written
    PROVE  Whole(files, r) <=> \E t \in Time : Has(files[t], r)
<1>1. entry[r].size \in Nat /\ entry[r].size > 0
    BY Bounds DEF Types
<1>2. ASSUME NEW t \in Time
      PROVE  Cardinality(Slots(files[t], r)) = entry[r].size <=> Has(files[t], r)
  <2>1. CASE Slots(files[t], r) = {}
    <3>1. Cardinality(Slots(files[t], r)) = 0
        BY <2>1, FS_EmptySet
    <3>. QED
        BY <1>1, <2>1, <3>1 DEF Has
  <2>2. CASE Slots(files[t], r) # {}
      BY <2>2 DEF Has, Entire
  <2>. QED
      BY <2>1, <2>2
<1>3. Whole(files, r) <=> \E t \in Time : Cardinality(Slots(files[t], r)) = entry[r].size
    BY DEF Whole, Slots
<1>. QED
    BY <1>2, <1>3

\* What the disk has, the operating system has.
LEMMA DiskHas ==
    ASSUME Types, DiskBehind, NEW t \in Time, NEW r \in 1 .. written, Has(disk[t], r)
    PROVE  Has(os[t], r)
BY DEF Types, DiskBehind, Has, Slots

LEMMA InvInit == Init => Inv
<1>. SUFFICES ASSUME Init PROVE Inv
    OBVIOUS
<1>1. Types
  <2>1. written \in 0 .. MaxWrites /\ booted \in 0 .. written /\ 0 \in 0 .. written
        /\ cursor \in 0 .. SegmentSize /\ lastTime \in 0 .. MaxTime
        /\ segment \in 0 .. lastTime /\ errors \in 0 .. MaxErrors /\ sequenceId \in Nat
      BY Bounds DEF Init
  <2>2. NoFile \in [Slot -> 0 .. written]
      BY <2>1 DEF NoFile
  <2>3. os \in [Time -> [Slot -> 0 .. written]] /\ disk \in [Time -> [Slot -> 0 .. written]]
      BY <2>2 DEF Init
  <2>4. mem \in [Key -> 0 .. MaxWrites]
      BY Bounds DEF Init
  <2>5. \A r \in 1 .. written : FALSE
      BY DEF Init
  <2>. QED
      BY <2>1, <2>3, <2>4, <2>5 DEF Init, Types
<1>2. Entire(os) /\ Entire(disk)
    BY DEF Init, Entire
<1>3. DiskBehind /\ Free
    BY DEF Init, DiskBehind, Free, NoFile
<1>4. Logged /\ Flushed /\ NextTick /\ ReadsLastAcked
    BY DEF Init, Logged, Flushed, NextTick, ReadsLastAcked
<1>. QED
    BY <1>1, <1>2, <1>3, <1>4 DEF Inv

-----------------------------------------------------------------------------
(* A record is written. *)

\* The segment t and the cursor c that a record goes to: the open segment or, once
\* that is synced, a new one.
Place(t, c, size) ==
    /\ t \in Time /\ lastTime <= t /\ lastTime' = t
    /\ c \in Nat /\ c + size <= SegmentSize
    /\ \A i \in Slot : i > c => os[t][i] = 0
    /\ \/ t = segment /\ disk' = disk
       \/ disk' = Synced /\ t > lastTime

LEMMA Placed ==
    ASSUME Inv, NEW k \in Key, NEW size \in Size, LogEntry(k, size)
    PROVE  \E t \in Time, c \in Nat : Place(t, c, size) /\ Log(k, size, t, c)
<1>1. size \in Nat /\ size > 0 /\ size <= SegmentSize /\ SegmentSize \in Nat
    BY Bounds
<1>2. up /\ segment = lastTime /\ segment \in Time /\ cursor \in Nat /\ lastTime \in Nat
    BY Bounds DEF LogEntry, Inv, Types
<1>3. CASE HasRoom(size) /\ Log(k, size, segment, cursor) /\ UNCHANGED <<disk, lastTime>>
  <2>1. Place(segment, cursor, size)
      BY <1>1, <1>2, <1>3 DEF Place, HasRoom, Inv, Free
  <2>. QED
      BY <1>2, <1>3, <2>1
<1>4. ASSUME disk' = Closed, NEW t \in Time, NewName(t), lastTime' = t, Log(k, size, t, 0)
      PROVE  Place(t, 0, size) /\ 0 \in Nat
  <2>1. t > lastTime /\ t \in Nat /\ lastTime <= t
      BY <1>2, <1>4, Bounds DEF NewName, Time
  <2>2. \A i \in Slot : os[t][i] = 0
      BY <2>1 DEF Inv, Free
  <2>. QED
      BY <1>1, <1>4, <2>1, <2>2 DEF Place, Closed
<1>. QED
    BY <1>3, <1>4 DEF LogEntry

\* The files after the record: what was in them, and the record as a whole.
LEMMA FilesAfter ==
    ASSUME Inv, NEW k \in Key, NEW size \in Size, NEW t \in Time, NEW c \in Nat,
           Place(t, c, size), Log(k, size, t, c)
    PROVE  /\ os' \in [Time -> [Slot -> 0 .. written']]
           /\ \A u \in Time : \A i \in Slot :
                 os'[u][i] = IF u = t /\ i \in c + 1 .. c + size
                             THEN written + 1 ELSE os[u][i]
           /\ \A u \in Time : \A r \in 1 .. written :
                 Slots(os'[u], r) = Slots(os[u], r)
           /\ Slots(os'[t], written + 1) = c + 1 .. c + size
           /\ Cardinality(Slots(os'[t], written + 1)) = size
           /\ \A u \in Time : u # t => Slots(os'[u], written + 1) = {}
<1>1. size \in Nat /\ size > 0 /\ SegmentSize \in Nat /\ MaxWrites \in Nat
    BY Bounds
<1>2. written \in Nat /\ written' = written + 1
    BY <1>1 DEF Inv, Types, Log
<1>3. c + size <= SegmentSize /\ \A i \in Slot : i > c => os[t][i] = 0
    BY DEF Place
<1>4. c + 1 .. c + size \subseteq Slot
    BY <1>1, <1>3 DEF Slot
<1>5. ASSUME NEW u \in Time, NEW i \in Slot
      PROVE  os'[u][i] = IF u = t /\ i \in c + 1 .. c + size
                         THEN written + 1 ELSE os[u][i]
    BY DEF Log, Appended, Inv, Types
<1>6. os' \in [Time -> [Slot -> 0 .. written']]
  <2>1. os' = [u \in Time |-> os'[u]]
      BY DEF Log, Inv, Types
  <2>2. ASSUME NEW u \in Time PROVE os'[u] = [i \in Slot |-> os'[u][i]]
      BY DEF Log, Inv, Types, Appended
  <2>3. ASSUME NEW u \in Time, NEW i \in Slot PROVE os'[u][i] \in 0 .. written'
    <3>1. os[u][i] \in 0 .. written
        BY DEF Inv, Types
    <3>. QED
        BY <1>2, <1>5, <3>1
  <2>4. \A u \in Time : os'[u] \in [Slot -> 0 .. written']
      BY <2>2, <2>3
  <2>. QED
      BY <2>1, <2>4
<1>7. \A u \in Time : \A i \in Slot : os[u][i] \in 0 .. written
    BY DEF Inv, Types
<1>8. ASSUME NEW u \in Time, NEW r \in 1 .. written
      PROVE  Slots(os'[u], r) = Slots(os[u], r)
  <2>1. ASSUME NEW i \in Slot PROVE os'[u][i] = r <=> os[u][i] = r
    <3>1. CASE u = t /\ i \in c + 1 .. c + size
      <4>1. os[u][i] = 0
          BY <1>3, <3>1
      <4>. QED
          BY <1>2, <1>5, <3>1, <4>1
    <3>2. CASE ~ (u = t /\ i \in c + 1 .. c + size)
        BY <1>5, <3>2
    <3>. QED
        BY <3>1, <3>2
  <2>. QED
      BY <2>1 DEF Slots
<1>9. Slots(os'[t], written + 1) = c + 1 .. c + size
  <2>1. ASSUME NEW i \in Slot PROVE os'[t][i] = written + 1 <=> i \in c + 1 .. c + size
      BY <1>2, <1>5, <1>7
  <2>. QED
      BY <1>4, <2>1 DEF Slots
<1>10. Cardinality(c + 1 .. c + size) = size
    BY <1>1, IntervalSize
<1>11. \A u \in Time : u # t => Slots(os'[u], written + 1) = {}
    BY <1>2, <1>5, <1>7 DEF Slots
<1>. QED
    BY <1>5, <1>6, <1>8, <1>9, <1>10, <1>11

\* A record keeps every part of the invariant that is not about who wrote it.
LEMMA LogKeeps ==
    ASSUME Inv, NEW k \in Key, NEW size \in Size, LogEntry(k, size)
    PROVE  /\ Entire(os)' /\ Entire(disk)' /\ DiskBehind' /\ Flushed'
           /\ \A t \in Time : \A r \in 1 .. written :
                 /\ Has(os[t], r) => Has(os'[t], r)
                 /\ Has(disk[t], r) => Has(disk'[t], r)
           /\ \A r \in 1 .. written :
                 Has(os[segment], r) =>
                    Has(os'[segment'], r) \/ \E t \in Time : Has(disk'[t], r)
           /\ segment' \in Time /\ Has(os'[segment'], written + 1)
<1>1. PICK t \in Time, c \in Nat : Place(t, c, size) /\ Log(k, size, t, c)
    BY Placed
<1>2. /\ os' \in [Time -> [Slot -> 0 .. written']]
      /\ \A u \in Time : \A i \in Slot :
            os'[u][i] = IF u = t /\ i \in c + 1 .. c + size THEN written + 1 ELSE os[u][i]
      /\ \A u \in Time : \A r \in 1 .. written : Slots(os'[u], r) = Slots(os[u], r)
      /\ Slots(os'[t], written + 1) = c + 1 .. c + size
      /\ Cardinality(Slots(os'[t], written + 1)) = size
      /\ \A u \in Time : u # t => Slots(os'[u], written + 1) = {}
    BY <1>1, FilesAfter, ZenonT(60)
<1>3. /\ written \in Nat /\ written' = written + 1 /\ segment' = t
      /\ aged' = aged /\ lastTime \in Nat
      /\ size \in Nat /\ size > 0
    BY <1>1, Bounds DEF Log, Inv, Types
<1>4. \A r \in 1 .. written' : r \in 1 .. written \/ r = written + 1
    BY <1>3
<1>5. /\ \A r \in 1 .. written : entry'[r].size = entry[r].size
      /\ entry'[written + 1].size = size
  <2>1. written + 1 \in Entry /\ 1 .. written \subseteq Entry
      BY <1>1, <1>3, Bounds DEF Log, Entry
  <2>. QED
      BY <1>1, <1>3, <2>1 DEF Log, Inv, Types
<1>6. disk' = disk \/ disk' = Synced
    BY <1>1 DEF Place
<1>7. up /\ segment = lastTime /\ segment \in Time
    BY DEF LogEntry, Inv, Types
<1>8. \A u \in Time : disk'[u] = disk[u] \/ (u = segment /\ disk'[u] = os[u])
    BY <1>6, <1>7 DEF Synced, Inv, Types
<1>9. \A u \in Time : \A r \in 1 .. written :
          /\ Has(os[u], r) => Has(os'[u], r)
          /\ Has(disk[u], r) => Has(disk'[u], r)
  <2>1. ASSUME NEW u \in Time, NEW r \in 1 .. written, Has(os[u], r)
        PROVE  Has(os'[u], r)
      BY <1>2, <2>1 DEF Has
  <2>2. ASSUME NEW u \in Time, NEW r \in 1 .. written, Has(disk[u], r)
        PROVE  Has(disk'[u], r)
    <3>1. Has(os[u], r)
        BY <2>2, DiskHas DEF Inv
    <3>. QED
        BY <1>8, <2>2, <3>1
  <2>. QED
      BY <2>1, <2>2
<1>10. Entire(os)'
  <2>1. ASSUME NEW u \in Time, NEW r \in 1 .. written', Has(os'[u], r)
        PROVE  Cardinality(Slots(os'[u], r)) = entry'[r].size
    <3>1. CASE r \in 1 .. written
      <4>1. Slots(os'[u], r) = Slots(os[u], r) /\ entry'[r].size = entry[r].size
          BY <1>2, <1>5, <3>1
      <4>2. Cardinality(Slots(os[u], r)) = entry[r].size
          BY <2>1, <3>1, <4>1 DEF Inv, Entire, Has
      <4>. QED
          BY <4>1, <4>2
    <3>2. CASE r = written + 1
        BY <1>2, <1>5, <2>1, <3>2 DEF Has
    <3>. QED
        BY <1>4, <3>1, <3>2
  <2>. QED
      BY <2>1 DEF Entire
<1>11. \A u \in Time : \A i \in Slot : disk'[u][i] \in 0 .. written
    BY <1>8 DEF Inv, Types
<1>12. Entire(disk)'
  <2>1. ASSUME NEW u \in Time, NEW r \in 1 .. written', Has(disk'[u], r)
        PROVE  Cardinality(Slots(disk'[u], r)) = entry'[r].size
    <3>1. r \in 1 .. written
        BY <1>3, <1>4, <1>11, <2>1 DEF Has, Slots
    <3>2. Cardinality(Slots(disk'[u], r)) = entry[r].size
        BY <1>8, <2>1, <3>1 DEF Inv, Entire
    <3>. QED
        BY <1>5, <3>1, <3>2
  <2>. QED
      BY <2>1 DEF Entire
<1>13. DiskBehind'
  <2>1. ASSUME NEW u \in Time, NEW i \in Slot PROVE disk'[u][i] \in {0, os'[u][i]}
    <3>1. disk'[u][i] \in {0, os[u][i]}
        BY <1>8 DEF Inv, DiskBehind
    <3>2. CASE u = t /\ i \in c + 1 .. c + size
      <4>1. os[u][i] = 0
          BY <1>1, <1>3, <3>2 DEF Place
      <4>. QED
          BY <3>1, <4>1
    <3>3. CASE ~ (u = t /\ i \in c + 1 .. c + size)
        BY <1>2, <3>1, <3>3
    <3>. QED
        BY <3>2, <3>3
  <2>. QED
      BY <2>1 DEF DiskBehind
<1>14. Flushed'
    BY <1>3, <1>9 DEF Inv, Flushed, Types
<1>15. ASSUME NEW r \in 1 .. written, Has(os[segment], r)
       PROVE  Has(os'[segment'], r) \/ \E u \in Time : Has(disk'[u], r)
  <2>1. CASE t = segment
      BY <1>3, <1>9, <1>15, <2>1
  <2>2. CASE disk' = Synced
    <3>1. disk'[segment] = os[segment]
        BY <1>7, <2>2 DEF Synced, Inv, Types
    <3>. QED
        BY <1>7, <1>15, <3>1
  <2>. QED
      BY <1>1, <2>1, <2>2 DEF Place
<1>16. Has(os'[t], written + 1)
  <2>1. c + 1 \in c + 1 .. c + size
      BY <1>3
  <2>. QED
      BY <1>2, <2>1 DEF Has
<1>. QED
    BY <1>3, <1>9, <1>10, <1>12, <1>13, <1>14, <1>15, <1>16

\* The types after a record, those of up, mem and acked apart.
LEMMA LogTypes ==
    ASSUME Inv, NEW k \in Key, NEW size \in Size, LogEntry(k, size)
    PROVE  /\ lastTime' \in 0 .. MaxTime /\ segment' = lastTime' /\ segment' \in Time
           /\ cursor' \in 0 .. SegmentSize /\ sequenceId' \in Nat
           /\ written' = written + 1 /\ written' \in 0 .. MaxWrites
           /\ written' \in Entry /\ written \in Nat
           /\ os' \in [Time -> [Slot -> 0 .. written']]
           /\ disk' \in [Time -> [Slot -> 0 .. written']]
           /\ DOMAIN entry' = Entry
           /\ \A r \in 1 .. written' : entry'[r].size \in Size
           /\ \A r \in 1 .. written : entry'[r] = entry[r]
           /\ entry'[written'].key = k
           /\ UNCHANGED <<broken, aged, booted, errors>>
           /\ up /\ ~broken
           /\ Free'
<1>1. PICK t \in Time, c \in Nat : Place(t, c, size) /\ Log(k, size, t, c)
    BY Placed
<1>2. /\ os' \in [Time -> [Slot -> 0 .. written']]
      /\ \A u \in Time : \A i \in Slot :
            os'[u][i] = IF u = t /\ i \in c + 1 .. c + size THEN written + 1 ELSE os[u][i]
    BY <1>1, FilesAfter
<1>3. /\ size \in Nat /\ size > 0 /\ SegmentSize \in Nat /\ MaxWrites \in Nat
      /\ MaxTime \in Nat
    BY Bounds
<1>4. /\ written \in Nat /\ written' = written + 1 /\ written' \in 0 .. MaxWrites
      /\ written' \in Entry /\ 1 .. written \subseteq Entry /\ written' \notin 1 .. written
      /\ written < MaxWrites
    BY <1>1, <1>3 DEF Log, Inv, Types, Entry
<1>5. /\ lastTime' = t /\ segment' = t /\ lastTime' \in 0 .. MaxTime
      /\ lastTime <= t /\ lastTime \in Nat /\ t \in Nat
    BY <1>1, <1>3 DEF Log, Place, Inv, Types, Time
<1>6. /\ cursor' = c + size /\ cursor' \in 0 .. SegmentSize /\ sequenceId' \in Nat
    BY <1>1, <1>3 DEF Log, Place, Inv, Types
<1>7. /\ DOMAIN entry' = Entry
      /\ \A r \in 1 .. written : entry'[r] = entry[r]
      /\ entry'[written'].key = k /\ entry'[written'].size = size
    BY <1>1, <1>4 DEF Log, Inv, Types
<1>8. \A r \in 1 .. written' : entry'[r].size \in Size
    BY <1>4, <1>7 DEF Inv, Types
<1>9. disk' \in [Time -> [Slot -> 0 .. written']]
  <2>1. segment \in Time /\ (disk' = disk \/ disk' = Synced)
      BY <1>1 DEF Place, LogEntry, Inv, Types
  <2>2. disk' \in [Time -> [Slot -> 0 .. written]]
      BY <2>1 DEF Synced, Inv, Types
  <2>3. \A u \in Time : disk'[u] \in [Slot -> 0 .. written']
    <3>1. ASSUME NEW u \in Time PROVE disk'[u] \in [Slot -> 0 .. written']
      <4>1. disk'[u] \in [Slot -> 0 .. written] /\ 0 .. written \subseteq 0 .. written'
          BY <1>4, <2>2
      <4>. QED
          BY <4>1
    <3>. QED
        BY <3>1
  <2>. QED
      BY <2>2, <2>3
<1>10. Free'
  <2>1. ASSUME NEW u \in Time, u > lastTime', NEW i \in Slot PROVE os'[u][i] = 0
    <3>1. u # t /\ u > lastTime
        BY <1>5, <2>1 DEF Time
    <3>. QED
        BY <1>2, <3>1 DEF Inv, Free
  <2>2. ASSUME NEW i \in Slot, i > cursor' PROVE os'[segment'][i] = 0
    <3>1. i > c /\ i \notin c + 1 .. c + size
        BY <1>3, <1>6, <2>2 DEF Slot
    <3>2. os[t][i] = 0
        BY <1>1, <3>1 DEF Place
    <3>. QED
        BY <1>2, <1>5, <3>1, <3>2
  <2>. QED
      BY <2>1, <2>2 DEF Free
<1>11. UNCHANGED <<broken, aged, booted, errors>> /\ up /\ ~broken
    BY <1>1 DEF Log, LogEntry
<1>. QED
    BY <1>2, <1>4, <1>5, <1>6, <1>7, <1>8, <1>9, <1>10, <1>11

\* A SET adds its record to those of its process.
LEMMA WriteInv ==
    ASSUME Inv, NEW k \in Key, NEW size \in Size, Write(k, size)
    PROVE  Inv'
<1>1. LogEntry(k, size) /\ up' = up /\ mem' = [mem EXCEPT ![k] = written + 1]
      /\ acked' = acked \cup {written + 1}
    BY DEF Write
<1>2. /\ lastTime' \in 0 .. MaxTime /\ segment' = lastTime' /\ segment' \in Time
      /\ cursor' \in 0 .. SegmentSize /\ sequenceId' \in Nat
      /\ written' = written + 1 /\ written' \in 0 .. MaxWrites
      /\ written \in Nat
      /\ os' \in [Time -> [Slot -> 0 .. written']]
      /\ disk' \in [Time -> [Slot -> 0 .. written']]
      /\ DOMAIN entry' = Entry
      /\ \A r \in 1 .. written' : entry'[r].size \in Size
      /\ \A r \in 1 .. written : entry'[r] = entry[r]
      /\ entry'[written'].key = k
      /\ UNCHANGED <<broken, aged, booted, errors>>
      /\ up /\ ~broken
      /\ Free'
    BY <1>1, LogTypes
<1>3. /\ Entire(os)' /\ Entire(disk)' /\ DiskBehind' /\ Flushed'
      /\ \A t \in Time : \A r \in 1 .. written :
            /\ Has(os[t], r) => Has(os'[t], r)
            /\ Has(disk[t], r) => Has(disk'[t], r)
      /\ \A r \in 1 .. written :
            Has(os[segment], r) =>
               Has(os'[segment'], r) \/ \E t \in Time : Has(disk'[t], r)
      /\ segment' \in Time /\ Has(os'[segment'], written + 1)
    BY <1>1, LogKeeps
<1>4. /\ acked' \in SUBSET (1 .. written') /\ aged' \in SUBSET (1 .. written')
      /\ booted' \in 0 .. written' /\ booted' = booted /\ booted < written + 1
      /\ acked \subseteq 1 .. written
    BY <1>1, <1>2 DEF Inv, Types
<1>5. Types'
  <2>1. mem' \in [Key -> 0 .. MaxWrites]
      BY <1>1, <1>2 DEF Inv, Types
  <2>2. segment' \in 0 .. lastTime'
      BY <1>2
  <2>3. up' \in BOOLEAN /\ broken' \in BOOLEAN /\ errors' \in 0 .. MaxErrors
      BY <1>1, <1>2 DEF Inv, Types
  <2>. QED
      BY <1>2, <1>4, <2>1, <2>2, <2>3 DEF Types
<1>6. Logged'
  <2>1. ASSUME NEW r \in acked' PROVE \E t \in Time : Has(os'[t], r)
    <3>1. CASE r \in acked
        BY <1>3, <1>4, <3>1 DEF Inv, Logged
    <3>2. CASE r = written + 1
        BY <1>3, <3>2
    <3>. QED
        BY <1>1, <2>1, <3>1, <3>2
  <2>. QED
      BY <2>1 DEF Logged
<1>7. NextTick'
  <2>1. ASSUME NEW r \in acked', r > booted'
        PROVE  \/ \E t \in Time : Has(disk'[t], r)
               \/ ~broken' /\ Has(os'[segment'], r)
    <3>1. CASE r = written + 1
        BY <1>2, <1>3, <3>1
    <3>2. CASE r \in acked
      <4>1. \/ \E t \in Time : Has(disk[t], r)
            \/ Has(os[segment], r)
          BY <1>2, <1>4, <2>1, <3>2 DEF Inv, NextTick, Mine
      <4>. QED
          BY <1>2, <1>3, <1>4, <3>2, <4>1
    <3>. QED
        BY <1>1, <2>1, <3>1, <3>2
  <2>. QED
      BY <2>1 DEF NextTick, Mine
<1>8. ReadsLastAcked'
  <2>. DEFINE mine(j) == {r \in Mine : entry[r].key = j}
  <2>1. \A j \in Key : /\ mem[j] = 0 <=> mine(j) = {}
                       /\ mine(j) # {} => /\ mem[j] \in mine(j)
                                          /\ \A r \in mine(j) : r <= mem[j]
      BY <1>2 DEF Inv, ReadsLastAcked
  <2>2. Mine' = Mine \cup {written + 1} /\ Mine \subseteq 1 .. written
      BY <1>1, <1>2, <1>4 DEF Mine
  <2>3. \A j \in Key : mine(j)' = IF j = k THEN mine(j) \cup {written + 1} ELSE mine(j)
      BY <1>2, <2>2
  <2>4. \A j \in Key : mem'[j] = IF j = k THEN written + 1 ELSE mem[j]
      BY <1>1 DEF Inv, Types
  <2>5. \A j \in Key : mine(j) \subseteq 1 .. written
      BY <2>2
  <2>. HIDE DEF mine
  <2>6. ASSUME NEW j \in Key
        PROVE  /\ mem'[j] = 0 <=> mine(j)' = {}
               /\ mine(j)' # {} => /\ mem'[j] \in mine(j)'
                                   /\ \A r \in mine(j)' : r <= mem'[j]
    <3>1. CASE j = k
        BY <1>2, <2>3, <2>4, <2>5, <3>1
    <3>2. CASE j # k
        BY <2>1, <2>3, <2>4, <3>2
    <3>. QED
        BY <3>1, <3>2
  <2>. QED
      BY <2>6 DEF ReadsLastAcked, mine
<1>. QED
    BY <1>2, <1>3, <1>5, <1>6, <1>7, <1>8 DEF Inv

\* A kill between the append and the answer leaves a record that nobody knows of.
LEMMA KilledInWriteInv ==
    ASSUME Inv, NEW k \in Key, NEW size \in Size, KilledInWrite(k, size)
    PROVE  Inv'
<1>1. LogEntry(k, size) /\ up' = FALSE /\ mem' = mem /\ acked' = acked
    BY DEF KilledInWrite
<1>2. /\ lastTime' \in 0 .. MaxTime /\ segment' = lastTime' /\ segment' \in Time
      /\ cursor' \in 0 .. SegmentSize /\ sequenceId' \in Nat
      /\ written' = written + 1 /\ written' \in 0 .. MaxWrites
      /\ written \in Nat
      /\ os' \in [Time -> [Slot -> 0 .. written']]
      /\ disk' \in [Time -> [Slot -> 0 .. written']]
      /\ DOMAIN entry' = Entry
      /\ \A r \in 1 .. written' : entry'[r].size \in Size
      /\ UNCHANGED <<broken, aged, booted, errors>>
      /\ Free'
    BY <1>1, LogTypes
<1>3. /\ Entire(os)' /\ Entire(disk)' /\ DiskBehind' /\ Flushed'
      /\ \A t \in Time : \A r \in 1 .. written : Has(os[t], r) => Has(os'[t], r)
    BY <1>1, LogKeeps
<1>4. Types'
  <2>1. /\ acked' \in SUBSET (1 .. written') /\ aged' \in SUBSET (1 .. written')
        /\ booted' \in 0 .. written'
      BY <1>1, <1>2 DEF Inv, Types
  <2>2. mem' \in [Key -> 0 .. MaxWrites] /\ errors' \in 0 .. MaxErrors
        /\ broken' \in BOOLEAN /\ segment' \in 0 .. lastTime'
      BY <1>1, <1>2 DEF Inv, Types
  <2>. QED
      BY <1>1, <1>2, <2>1, <2>2 DEF Types
<1>5. Logged'
    BY <1>1, <1>3 DEF Inv, Logged, Types
<1>6. NextTick' /\ ReadsLastAcked'
    BY <1>1 DEF NextTick, ReadsLastAcked
<1>. QED
    BY <1>2, <1>3, <1>4, <1>5, <1>6 DEF Inv

-----------------------------------------------------------------------------
(* Everything else. *)

\* Files of the operating system reach the disk, whole.
LEMMA DiskCatchesUp ==
    ASSUME Inv, disk' \in [Time -> [Slot -> 0 .. written]],
           \A t \in Time : disk'[t] = disk[t] \/ disk'[t] = os[t],
           UNCHANGED <<os, written, entry>>
    PROVE  /\ Entire(os)' /\ Entire(disk)' /\ DiskBehind'
           /\ \A t \in Time : \A r \in 1 .. written : Has(disk[t], r) => Has(disk'[t], r)
<1>1. Entire(os)' /\ Entire(disk)'
    BY DEF Inv, Entire
<1>2. DiskBehind'
    BY DEF Inv, DiskBehind
<1>3. ASSUME NEW t \in Time, NEW r \in 1 .. written, Has(disk[t], r)
      PROVE  Has(disk'[t], r)
  <2>1. Has(os[t], r)
      BY <1>3, DiskHas DEF Inv
  <2>. QED
      BY <1>3, <2>1
<1>. QED
    BY <1>1, <1>2, <1>3

LEMMA SyncedDisk ==
    ASSUME Inv, segment \in Time
    PROVE  /\ Synced \in [Time -> [Slot -> 0 .. written]]
           /\ \A t \in Time : Synced[t] = IF t = segment THEN os[t] ELSE disk[t]
BY DEF Inv, Types, Synced

LEMMA StartInv == Inv /\ Start => Inv'
<1>. SUFFICES ASSUME Inv, Start PROVE Inv'
    OBVIOUS
<1>1. PICK t \in Time : t > lastTime /\ segment' = t /\ lastTime' = t
    BY DEF Start, NewName
<1>2. /\ up' = TRUE /\ mem' = [k \in Key |-> 0] /\ sequenceId' = 0 /\ cursor' = 0
      /\ broken' = FALSE /\ booted' = written
      /\ UNCHANGED <<os, disk, written, entry, acked, aged, errors>>
    BY DEF Start
<1>3. t \in Nat /\ t > 0 /\ t <= MaxTime /\ lastTime \in Nat /\ written \in Nat
    BY Bounds DEF Inv, Types, Time
<1>4. Types'
  <2>1. mem' \in [Key -> 0 .. MaxWrites]
      BY <1>2, Bounds
  <2>2. lastTime' \in 0 .. MaxTime /\ segment' \in 0 .. lastTime'
        /\ (up' => segment' = lastTime' /\ segment' \in Time)
      BY <1>1, <1>3, Bounds
  <2>3. cursor' \in 0 .. SegmentSize /\ booted' \in 0 .. written' /\ sequenceId' \in Nat
      BY <1>2, <1>3, Bounds
  <2>. QED
      BY <1>2, <2>1, <2>2, <2>3 DEF Inv, Types
<1>5. Entire(os)' /\ Entire(disk)' /\ DiskBehind' /\ Logged' /\ Flushed'
    BY <1>2 DEF Inv, Entire, DiskBehind, Logged, Flushed
<1>6. Free'
  <2>1. ASSUME NEW u \in Time, u >= t, NEW i \in Slot PROVE os[u][i] = 0
    <3>1. u > lastTime
        BY <1>1, <1>3, <2>1 DEF Time
    <3>. QED
        BY <3>1 DEF Inv, Free
  <2>2. t \in Time /\ t >= t
      BY <1>1, <1>3
  <2>3. ASSUME NEW u \in Time, u > t, NEW i \in Slot PROVE os'[u][i] = 0
    <3>1. u >= t
        BY <1>3, <2>3 DEF Time
    <3>. QED
        BY <1>2, <2>1, <3>1
  <2>4. ASSUME NEW i \in Slot PROVE os'[t][i] = 0
      BY <1>2, <2>1, <2>2
  <2>5. \A u \in Time : u > lastTime' => \A i \in Slot : os'[u][i] = 0
      BY <1>1, <2>3
  <2>6. \A i \in Slot : os'[segment'][i] = 0
      BY <1>1, <2>4
  <2>. QED
      BY <2>5, <2>6 DEF Free
<1>7. Mine' = {}
  <2>1. \A r \in acked : r \in Nat /\ ~ (r > written)
      BY <1>3, Bounds DEF Inv, Types
  <2>. QED
      BY <1>2, <2>1 DEF Mine
<1>8. NextTick'
    BY <1>7 DEF NextTick
<1>9. ReadsLastAcked'
    BY <1>2, <1>7 DEF ReadsLastAcked
<1>. QED
    BY <1>4, <1>5, <1>6, <1>8, <1>9 DEF Inv

\* A SET that raises changes neither keys nor records.
LEMMA FailTypes ==
    ASSUME Inv, NEW k \in Key, Fail(k), disk' \in [Time -> [Slot -> 0 .. written]],
           broken' \in BOOLEAN
    PROVE  /\ Types' /\ Free' /\ ReadsLastAcked' /\ Logged'
           /\ UNCHANGED <<up, mem, os, segment, written, entry, acked, aged, booted>>
<1>1. /\ errors < MaxErrors /\ errors' = errors + 1 /\ sequenceId' = sequenceId + 1
      /\ UNCHANGED <<up, mem, segment, cursor, os, lastTime, written, entry, acked, aged,
                     booted>>
    BY DEF Fail, Unput, history
<1>2. errors' \in 0 .. MaxErrors /\ sequenceId' \in Nat
    BY <1>1, Bounds DEF Inv, Types
<1>3. Types'
  <2>1. /\ up' \in BOOLEAN /\ mem' \in [Key -> 0 .. MaxWrites]
        /\ lastTime' \in 0 .. MaxTime /\ segment' \in 0 .. lastTime'
        /\ (up' => segment' = lastTime' /\ segment' \in Time)
        /\ cursor' \in 0 .. SegmentSize
        /\ written' \in 0 .. MaxWrites /\ booted' \in 0 .. written'
      BY <1>1 DEF Inv, Types
  <2>2. /\ os' \in [Time -> [Slot -> 0 .. written']]
        /\ disk' \in [Time -> [Slot -> 0 .. written']]
      BY <1>1 DEF Inv, Types
  <2>3. /\ DOMAIN entry' = Entry /\ (\A r \in 1 .. written' : entry'[r].size \in Size)
        /\ acked' \in SUBSET (1 .. written') /\ aged' \in SUBSET (1 .. written')
      BY <1>1 DEF Inv, Types
  <2>. QED
      BY <1>2, <2>1, <2>2, <2>3 DEF Types
<1>4. Free' /\ Logged'
    BY <1>1 DEF Inv, Free, Logged
<1>5. ReadsLastAcked'
    BY <1>1 DEF Inv, ReadsLastAcked, Mine
<1>. QED
    BY <1>1, <1>3, <1>4, <1>5

LEMMA RotateFailsInv ==
    ASSUME Inv, NEW k \in Key, NEW size \in Size, RotateFails(k, size)
    PROVE  Inv'
<1>1. up /\ ~broken /\ Fail(k) /\ disk' = Synced /\ broken' = TRUE
    BY DEF RotateFails, Closed
<1>2. segment \in Time
    BY <1>1 DEF Inv, Types
<1>3. /\ disk' \in [Time -> [Slot -> 0 .. written]]
      /\ \A t \in Time : disk'[t] = IF t = segment THEN os[t] ELSE disk[t]
    BY <1>1, <1>2, SyncedDisk
<1>4. /\ Types' /\ Free' /\ ReadsLastAcked' /\ Logged'
      /\ UNCHANGED <<up, mem, os, segment, written, entry, acked, aged, booted>>
    BY <1>1, <1>3, FailTypes
<1>5. /\ Entire(os)' /\ Entire(disk)' /\ DiskBehind'
      /\ \A t \in Time : \A r \in 1 .. written : Has(disk[t], r) => Has(disk'[t], r)
    BY <1>3, <1>4, DiskCatchesUp
<1>6. Flushed'
    BY <1>4, <1>5 DEF Inv, Flushed, Types
<1>7. NextTick'
  <2>1. ASSUME NEW r \in acked, r > booted PROVE \E t \in Time : Has(disk'[t], r)
    <3>1. r \in 1 .. written
        BY DEF Inv, Types
    <3>2. (\E t \in Time : Has(disk[t], r)) \/ Has(os[segment], r)
        BY <1>1, <2>1 DEF Inv, NextTick, Mine
    <3>3. disk'[segment] = os[segment]
        BY <1>2, <1>3
    <3>. QED
        BY <1>2, <1>5, <3>1, <3>2, <3>3
  <2>. QED
      BY <1>4, <2>1 DEF NextTick, Mine
<1>. QED
    BY <1>4, <1>5, <1>6, <1>7 DEF Inv

LEMMA WriteBrokenInv ==
    ASSUME Inv, NEW k \in Key, WriteBroken(k)
    PROVE  Inv'
<1>1. Fail(k) /\ UNCHANGED <<disk, broken>>
    BY DEF WriteBroken
<1>2. disk' \in [Time -> [Slot -> 0 .. written]] /\ broken' \in BOOLEAN
    BY <1>1 DEF Inv, Types
<1>3. /\ Types' /\ Free' /\ ReadsLastAcked' /\ Logged'
      /\ UNCHANGED <<up, mem, os, segment, written, entry, acked, aged, booted>>
    BY <1>1, <1>2, FailTypes
<1>4. Entire(os)' /\ Entire(disk)' /\ DiskBehind' /\ Flushed' /\ NextTick'
    BY <1>1, <1>3 DEF Inv, Entire, DiskBehind, Flushed, NextTick, Mine
<1>. QED
    BY <1>3, <1>4 DEF Inv

\* A tick of the daemon, or the end of a process that can still sync.
LEMMA Ticked ==
    ASSUME Inv, up, ~broken, disk' = Synced, aged' = aged \cup Mine,
           UNCHANGED <<process, os, lastTime, written, entry, acked, booted, errors>>,
           up' \in {up, FALSE}
    PROVE  Inv'
<1>1. UNCHANGED <<mem, sequenceId, segment, cursor, broken, os, lastTime, written, entry,
                  acked, booted, errors>>
    BY DEF process
<1>2. segment \in Time /\ Mine \subseteq 1 .. written
    BY DEF Inv, Types, Mine
<1>3. /\ disk' \in [Time -> [Slot -> 0 .. written]]
      /\ \A t \in Time : disk'[t] = IF t = segment THEN os[t] ELSE disk[t]
    BY <1>2, SyncedDisk
<1>4. /\ Entire(os)' /\ Entire(disk)' /\ DiskBehind'
      /\ \A t \in Time : \A r \in 1 .. written : Has(disk[t], r) => Has(disk'[t], r)
    BY <1>1, <1>3, DiskCatchesUp
<1>5. ASSUME NEW r \in Mine PROVE \E t \in Time : Has(disk'[t], r)
  <2>1. (\E t \in Time : Has(disk[t], r)) \/ Has(os[segment], r)
      BY DEF Inv, NextTick
  <2>2. disk'[segment] = os[segment]
      BY <1>2, <1>3
  <2>. QED
      BY <1>2, <1>4, <2>1, <2>2
<1>6. Types'
  <2>1. up' \in BOOLEAN /\ (up' => segment' = lastTime' /\ segment' \in Time)
        /\ aged' \in SUBSET (1 .. written')
      BY <1>1, <1>2 DEF Inv, Types
  <2>. QED
      BY <1>1, <1>3, <2>1 DEF Inv, Types
<1>7. Free' /\ Logged'
    BY <1>1 DEF Inv, Free, Logged
<1>8. Flushed'
    BY <1>4, <1>5 DEF Inv, Flushed, Types
<1>9. Mine' = Mine
    BY <1>1 DEF Mine
<1>10. NextTick' /\ ReadsLastAcked'
    BY <1>1, <1>5, <1>9 DEF Inv, NextTick, ReadsLastAcked
<1>. QED
    BY <1>4, <1>6, <1>7, <1>8, <1>10 DEF Inv

\* A process that ends leaves the files alone.
LEMMA Ended ==
    ASSUME Inv, up' = FALSE, aged' = aged,
           UNCHANGED <<process, os, disk, lastTime, written, entry, acked, booted, errors>>
    PROVE  Inv'
<1>1. UNCHANGED <<mem, sequenceId, segment, cursor, broken>>
    BY DEF process
<1>2. Types'
    BY <1>1 DEF Inv, Types
<1>3. Entire(os)' /\ Entire(disk)' /\ DiskBehind' /\ Free' /\ Logged' /\ Flushed'
    BY <1>1 DEF Inv, Entire, DiskBehind, Free, Logged, Flushed
<1>4. NextTick' /\ ReadsLastAcked'
    BY DEF NextTick, ReadsLastAcked
<1>. QED
    BY <1>2, <1>3, <1>4 DEF Inv

LEMMA StopInv == Inv /\ Stop => Inv'
<1>. SUFFICES ASSUME Inv, Stop PROVE Inv'
    OBVIOUS
<1>1. /\ up /\ up' = FALSE /\ disk' = (IF broken THEN disk ELSE Synced)
      /\ aged' = aged \cup Mine
      /\ UNCHANGED <<process, os, lastTime, written, entry, acked, booted, errors>>
    BY DEF Stop
<1>2. CASE ~broken
    BY <1>1, <1>2, Ticked
<1>3. CASE broken
  <2>1. disk' = disk
      BY <1>1, <1>3
  <2>2. UNCHANGED <<mem, sequenceId, segment, cursor, broken, os, lastTime, written, entry,
                    acked, booted, errors>>
      BY <1>1 DEF process
  <2>3. \A r \in Mine : \E t \in Time : Has(disk[t], r)
      BY <1>1, <1>3 DEF Inv, NextTick
  <2>4. Mine \subseteq 1 .. written
      BY DEF Inv, Types, Mine
  <2>5. Types'
      BY <1>1, <2>1, <2>2, <2>4 DEF Inv, Types
  <2>6. Entire(os)' /\ Entire(disk)' /\ DiskBehind' /\ Free' /\ Logged'
      BY <1>1, <2>1, <2>2 DEF Inv, Entire, DiskBehind, Free, Logged
  <2>7. Flushed'
      BY <1>1, <2>1, <2>3 DEF Inv, Flushed
  <2>8. NextTick' /\ ReadsLastAcked'
      BY <1>1 DEF NextTick, ReadsLastAcked
  <2>. QED
      BY <2>5, <2>6, <2>7, <2>8 DEF Inv
<1>. QED
    BY <1>2, <1>3

\* After a power failure the acknowledged records are those that the disk has.
LEMMA PowerFailureInv == Inv /\ PowerFailure => Inv'
<1>. SUFFICES ASSUME Inv, PowerFailure PROVE Inv'
    OBVIOUS
<1>1. /\ up' = FALSE /\ os' = disk /\ acked' = {r \in acked : Whole(disk, r)}
      /\ UNCHANGED <<mem, sequenceId, segment, cursor, broken, disk, lastTime, written,
                     entry, aged, booted, errors>>
    BY DEF PowerFailure, process
<1>2. Types'
    BY <1>1 DEF Inv, Types
<1>3. Entire(os)' /\ Entire(disk)' /\ DiskBehind' /\ Flushed'
    BY <1>1 DEF Inv, Entire, DiskBehind, Flushed
<1>4. Free'
    BY <1>1 DEF Inv, Free, DiskBehind
<1>5. Logged'
  <2>1. ASSUME NEW r \in acked' PROVE \E t \in Time : Has(disk[t], r)
    <3>1. r \in 1 .. written /\ Whole(disk, r)
        BY <1>1 DEF Inv, Types
    <3>. QED
        BY <3>1, WholeIffHas DEF Inv
  <2>. QED
      BY <1>1, <2>1 DEF Logged
<1>6. NextTick' /\ ReadsLastAcked'
    BY <1>1 DEF NextTick, ReadsLastAcked
<1>. QED
    BY <1>2, <1>3, <1>4, <1>5, <1>6 DEF Inv

LEMMA WriteBackInv ==
    ASSUME Inv, NEW u \in Time, WriteBack(u)
    PROVE  Inv'
<1>1. /\ disk' = [disk EXCEPT ![u] = os[u]]
      /\ UNCHANGED <<up, mem, sequenceId, segment, cursor, broken, os, lastTime, written,
                     entry, acked, aged, booted, errors>>
    BY DEF WriteBack, process, history
<1>2. /\ disk' \in [Time -> [Slot -> 0 .. written]]
      /\ \A t \in Time : disk'[t] = disk[t] \/ disk'[t] = os[t]
    BY <1>1 DEF Inv, Types
<1>3. /\ Entire(os)' /\ Entire(disk)' /\ DiskBehind'
      /\ \A t \in Time : \A r \in 1 .. written : Has(disk[t], r) => Has(disk'[t], r)
    BY <1>1, <1>2, DiskCatchesUp
<1>4. Types'
    BY <1>1, <1>2 DEF Inv, Types
<1>5. Free' /\ Logged' /\ Flushed'
    BY <1>1, <1>3 DEF Inv, Types, Free, Logged, Flushed
<1>6. Mine' = Mine /\ Mine \subseteq 1 .. written
    BY <1>1 DEF Inv, Types, Mine
<1>7. NextTick' /\ ReadsLastAcked'
    BY <1>1, <1>3, <1>6 DEF Inv, NextTick, ReadsLastAcked
<1>. QED
    BY <1>3, <1>4, <1>5, <1>7 DEF Inv

-----------------------------------------------------------------------------

LEMMA InvNext == Inv /\ [Next]_vars => Inv'
<1>. SUFFICES ASSUME Inv, [Next]_vars PROVE Inv'
    OBVIOUS
<1>1. CASE Start
    BY <1>1, StartInv
<1>2. CASE Flush
    BY <1>2, Ticked DEF Flush
<1>3. CASE Stop
    BY <1>3, StopInv
<1>4. CASE Kill
    BY <1>4, Ended DEF Kill, history
<1>5. CASE PowerFailure
    BY <1>5, PowerFailureInv
<1>6. ASSUME NEW k \in Key, WriteBroken(k) PROVE Inv'
    BY <1>6, WriteBrokenInv
<1>7. ASSUME NEW k \in Key, NEW size \in Size,
             Write(k, size) \/ KilledInWrite(k, size) \/ RotateFails(k, size)
      PROVE  Inv'
    BY <1>7, WriteInv, KilledInWriteInv, RotateFailsInv
<1>8. ASSUME NEW t \in Time, WriteBack(t) PROVE Inv'
    BY <1>8, WriteBackInv
<1>9. CASE UNCHANGED vars
  <2>1. UNCHANGED <<up, mem, sequenceId, segment, cursor, broken, os, disk, lastTime,
                    written, entry, acked, aged, booted, errors>>
      BY <1>9 DEF vars, process, history
  <2>2. Mine' = Mine
      BY <2>1 DEF Mine
  <2>3. Types' /\ Entire(os)' /\ Entire(disk)' /\ DiskBehind' /\ Free'
      BY <2>1 DEF Inv, Types, Entire, DiskBehind, Free
  <2>4. Logged' /\ Flushed' /\ NextTick' /\ ReadsLastAcked'
      BY <2>1, <2>2 DEF Inv, Logged, Flushed, NextTick, ReadsLastAcked
  <2>. QED
      BY <2>3, <2>4 DEF Inv
<1>. QED
    BY <1>1, <1>2, <1>3, <1>4, <1>5, <1>6, <1>7, <1>8, <1>9 DEF Next

LEMMA InvHolds == Spec => []Inv
<1>1. Init => Inv
    BY InvInit
<1>2. Inv /\ [Next]_vars => Inv'
    BY InvNext
<1>. QED
    BY <1>1, <1>2, PTL DEF Spec

\* Rotations that sync and rotations that fail, kills between append and answer and
\* restarts lose no acknowledged record: the files of the operating system have each
\* of them whole (wal.py, _rotate_segment and append).
THEOREM AckedAreLogged == Spec => []AckedLogged
<1>1. Inv => AckedLogged
  <2>. SUFFICES ASSUME Inv, NEW r \in acked PROVE Whole(os, r)
      BY DEF AckedLogged
  <2>1. r \in 1 .. written
      BY DEF Inv, Types
  <2>. QED
      BY <2>1, WholeIffHas DEF Inv, Logged
<1>. QED
    BY <1>1, InvHolds, PTL

\* A power failure takes nothing that was acknowledged before the last tick of the
\* daemon, or before a graceful end: those records are whole on the disk, in
\* whatever segment they are (wal.py, flush and close; engine.py, the daemon).
THEOREM LossIsBounded == Spec => []LossBounded
<1>1. Inv => LossBounded
  <2>. SUFFICES ASSUME Inv, NEW r \in aged PROVE Whole(disk, r)
      BY DEF LossBounded
  <2>1. r \in 1 .. written
      BY DEF Inv, Types
  <2>. QED
      BY <2>1, WholeIffHas DEF Inv, Flushed
<1>. QED
    BY <1>1, InvHolds, PTL

\* A shard answers with the last acknowledged SET of its key in the life of the
\* process, whatever SETs raised between (engine.py, write: log, then put).
THEOREM ReadsSeeLastAcked == Spec => []ReadsLastAcked
<1>1. Inv => ReadsLastAcked
    BY DEF Inv
<1>. QED
    BY <1>1, InvHolds, PTL

-----------------------------------------------------------------------------
(* Recursion and division. *)

\* A set of numbers that is not empty has a least one.
LEMMA Least ==
    ASSUME NEW T \in SUBSET Nat, T # {}
    PROVE  \E x \in T : \A y \in T : x <= y
<1>. DEFINE R == {p \in Nat \X Nat : p[1] < p[2]}
<1>1. IsWellFoundedOn(R, Nat)
    BY NatLessThanWellFounded DEF OpToRel
<1>2. PICK x \in T : \A y \in T : <<y, x>> \notin R
    BY <1>1, WFMin, Zenon
<1>3. \A y \in T : <<y, x>> \in R <=> y < x
    OBVIOUS
<1>4. x \in Nat /\ \A y \in T : y \in Nat
    OBVIOUS
<1>5. ASSUME NEW y \in T PROVE x <= y
  <2>1. ~ (y < x) /\ x \in Nat /\ y \in Nat
      BY <1>2, <1>3, <1>4
  <2>. QED
      BY <2>1
<1>. QED
    BY <1>5

\* What step makes of base in i steps, for i up to n.
Iterates(f, n, base, step) ==
    f = [i \in 0 .. n |-> IF i = 0 THEN base ELSE step[<<i, f[i - 1]>>]]

\* A recursion along the numbers up to n has a solution.
LEMMA Recursion ==
    ASSUME NEW n \in Nat, NEW base, NEW step
    PROVE  \E f : Iterates(f, n, base, step)
<1>. DEFINE T == {m \in Nat : ~ \E f : Iterates(f, m, base, step)}
<1>. SUFFICES ASSUME T # {} PROVE FALSE
    OBVIOUS
<1>1. PICK m \in T : \A k \in T : m <= k
    BY Least
<1>2. CASE m = 0
  <2>. DEFINE f == [i \in 0 .. 0 |-> base]
  <2>1. Iterates(f, 0, base, step)
      BY DEF Iterates
  <2>. QED
      BY <1>1, <1>2, <2>1
<1>3. CASE m # 0
  <2>1. m - 1 \in Nat /\ m - 1 \notin T /\ m \in Nat
      BY <1>1, <1>3
  <2>2. PICK g : Iterates(g, m - 1, base, step)
      BY <2>1
  <2>. DEFINE f == [i \in 0 .. m |-> IF i = m THEN step[<<m, g[m - 1]>>] ELSE g[i]]
  <2>3. \A i \in 0 .. m - 1 : g[i] = IF i = 0 THEN base ELSE step[<<i, g[i - 1]>>]
      BY <2>2 DEF Iterates
  <2>4. ASSUME NEW i \in 0 .. m
        PROVE  f[i] = IF i = 0 THEN base ELSE step[<<i, f[i - 1]>>]
    <3>1. CASE i = m
      <4>1. i # 0 /\ m - 1 \in 0 .. m /\ m - 1 # m
          BY <1>3, <2>1, <3>1
      <4>2. f[i] = step[<<m, g[m - 1]>>] /\ f[m - 1] = g[m - 1]
          BY <3>1, <4>1
      <4>. HIDE DEF f
      <4>. QED
          BY <3>1, <4>1, <4>2
    <3>2. CASE i # m
      <4>1. i \in 0 .. m - 1 /\ f[i] = g[i]
          BY <2>1, <3>2
      <4>2. CASE i = 0
          BY <2>3, <4>1, <4>2
      <4>3. CASE i # 0
        <5>1. i - 1 \in 0 .. m /\ i - 1 # m
            BY <2>1, <4>1, <4>3
        <5>2. f[i - 1] = g[i - 1]
            BY <5>1
        <5>. HIDE DEF f
        <5>. QED
            BY <2>3, <4>1, <4>3, <5>2
      <4>. QED
          BY <4>2, <4>3
    <3>. QED
        BY <3>1, <3>2
  <2>5. f = [i \in 0 .. m |-> f[i]]
      OBVIOUS
  <2>. HIDE DEF f
  <2>6. Iterates(f, m, base, step)
      BY <2>4, <2>5 DEF Iterates
  <2>. QED
      BY <1>1, <2>6
<1>. QED
    BY <1>2, <1>3

\* A quotient and its remainder.
LEMMA Divided ==
    ASSUME NEW a \in Int, NEW c \in Nat, c > 0
    PROVE  /\ a \div c \in Int /\ a % c \in Nat /\ a % c < c
           /\ a = c * (a \div c) + (a % c)
<1>. DEFINE q == a \div c  r == a % c
<1>1. q \in Int /\ r \in Int
    OBVIOUS
<1>2. a = c * q + r /\ 0 <= r /\ r < c
    BY <1>1
<1>. QED
    BY <1>1, <1>2

LEMMA Quotient ==
    ASSUME NEW a \in Int, NEW c \in Nat, c > 0, NEW p \in Int, NEW t \in Nat,
           a = c * p + t, t < c
    PROVE  a \div c = p
OBVIOUS

LEMMA SmallQuotient ==
    ASSUME NEW v \in Nat, NEW c \in Nat, v < c
    PROVE  v \div c = 0 /\ v % c = v
<1>1. c > 0 /\ v = c * 0 + v /\ 0 \in Int /\ v \in Int
    OBVIOUS
<1>2. v \div c = 0
    BY <1>1, Quotient
<1>3. v = c * (v \div c) + (v % c) /\ v % c \in Int
    BY <1>1, Divided
<1>. QED
    BY <1>2, <1>3

LEMMA HalfQuotient ==
    ASSUME NEW c \in Nat, NEW b \in Nat, NEW x \in Int, NEW r \in Nat,
           2 * (c * x + r) < c * b
    PROVE  2 * x < b
<1>. SUFFICES ASSUME 2 * x >= b PROVE FALSE
    OBVIOUS
<1>1. c * (2 * x) >= c * b
    OBVIOUS
<1>2. 2 * (c * x + r) = c * (2 * x) + 2 * r
    OBVIOUS
<1>. QED
    BY <1>1, <1>2

LEMMA DividedTwice ==
    ASSUME NEW v \in Int, NEW m \in Nat, m > 0, NEW b \in Nat, b > 0
    PROVE  (v \div m) \div b = v \div (m * b)
<1>1. PICK q \in Int, r \in Nat : q = v \div m /\ v = m * q + r /\ r < m
    BY Divided
<1>2. PICK p \in Int, s \in Nat : p = q \div b /\ q = b * p + s /\ s < b
    BY <1>1, Divided
<1>3. v = (m * b) * p + (m * s + r)
    BY <1>1, <1>2
<1>4. m * s + r \in Nat /\ m * b \in Nat /\ m * b > 0
    BY <1>1, <1>2
<1>5. m * s + r < m * b
  <2>1. s + 1 <= b
      BY <1>2
  <2>2. m * (s + 1) <= m * b
      BY <1>2, <2>1
  <2>. QED
      BY <1>1, <1>2, <2>2
<1>6. v \div (m * b) = p
  <2>. DEFINE c == m * b  t == m * s + r
  <2>1. c \in Nat /\ c > 0 /\ t \in Nat /\ t < c /\ v = c * p + t
      BY <1>3, <1>4, <1>5
  <2>. HIDE DEF c, t
  <2>2. v \div c = p
      BY <2>1, <1>2, Quotient
  <2>. QED
      BY <2>2 DEF c
<1>. QED
    BY <1>1, <1>2, <1>6

-----------------------------------------------------------------------------
(* Numbers and their bytes. *)

Byte == 0 .. Base - 1

LEMMA Powers ==
    /\ Power[0] = 1
    /\ \A n \in 1 .. 8 : Power[n] = Power[n - 1] * Base
    /\ \A n \in 0 .. 8 : Power[n] \in Nat /\ Power[n] > 0
<1>. DEFINE step == [p \in (1 .. 8) \X Nat |-> p[2] * Base]
<1>1. Base \in Nat /\ Base > 1
    BY BaseOK
<1>2. \E f : f = [n \in 0 .. 8 |-> IF n = 0 THEN 1 ELSE f[n - 1] * Base]
  <2>1. PICK f : Iterates(f, 8, 1, step)
      BY Recursion
  <2>2. \A i \in 0 .. 8 : f[i] = IF i = 0 THEN 1 ELSE step[<<i, f[i - 1]>>]
      BY <2>1 DEF Iterates
  <2>. DEFINE T == {i \in 0 .. 8 : f[i] \notin Nat}
  <2>3. T = {}
    <3>. SUFFICES ASSUME T # {} PROVE FALSE
        OBVIOUS
    <3>1. PICK m \in T : \A k \in T : m <= k
      <4>1. T \in SUBSET Nat
          OBVIOUS
      <4>. HIDE DEF T
      <4>. QED
          BY <4>1, Least
    <3>2. m \in 0 .. 8 /\ f[m] \notin Nat
        OBVIOUS
    <3>3. m # 0
        BY <2>2, <3>2
    <3>4. m \in 1 .. 8 /\ m - 1 \in 0 .. 8 /\ f[m - 1] \in Nat
        BY <3>1, <3>2, <3>3
    <3>5. f[m] = f[m - 1] * Base
        BY <2>2, <3>2, <3>3, <3>4
    <3>. QED
        BY <1>1, <3>2, <3>4, <3>5
  <2>4. \A i \in 0 .. 8 : f[i] = IF i = 0 THEN 1 ELSE f[i - 1] * Base
    <3>1. ASSUME NEW i \in 0 .. 8, i # 0 PROVE f[i] = f[i - 1] * Base
      <4>1. i \in 1 .. 8 /\ i - 1 \in 0 .. 8
          BY <3>1
      <4>2. <<i, f[i - 1]>> \in (1 .. 8) \X Nat
          BY <2>3, <4>1
      <4>. QED
          BY <2>2, <3>1, <4>2
    <3>. QED
        BY <2>2, <3>1
  <2>5. f = [i \in 0 .. 8 |-> IF i = 0 THEN 1 ELSE f[i - 1] * Base]
      BY <2>1, <2>4 DEF Iterates
  <2>. QED
      BY <2>5
<1>3. Power = [n \in 0 .. 8 |-> IF n = 0 THEN 1 ELSE Power[n - 1] * Base]
    BY <1>2, Zenon DEF Power
<1>. DEFINE P == Power
<1>4. /\ P[0] = 1
      /\ \A n \in 1 .. 8 : P[n] = P[n - 1] * Base
  <2>1. \A n \in 0 .. 8 : P[n] = IF n = 0 THEN 1 ELSE P[n - 1] * Base
      BY <1>3
  <2>. HIDE DEF P
  <2>. QED
      BY <2>1
<1>. HIDE DEF P
<1>5. P[0] \in Nat /\ P[0] > 0
    BY <1>4
<1>6. ASSUME NEW n \in 1 .. 8, P[n - 1] \in Nat, P[n - 1] > 0
      PROVE  P[n] \in Nat /\ P[n] > 0
    BY <1>1, <1>4, <1>6
<1>7. /\ P[1] \in Nat /\ P[1] > 0 /\ P[2] \in Nat /\ P[2] > 0
      /\ P[3] \in Nat /\ P[3] > 0 /\ P[4] \in Nat /\ P[4] > 0
  <2>1. P[1] \in Nat /\ P[1] > 0
      BY <1>5, <1>6
  <2>2. P[2] \in Nat /\ P[2] > 0
      BY <2>1, <1>6
  <2>3. P[3] \in Nat /\ P[3] > 0
      BY <2>2, <1>6
  <2>4. P[4] \in Nat /\ P[4] > 0
      BY <2>3, <1>6
  <2>. QED
      BY <2>1, <2>2, <2>3, <2>4
<1>8. /\ P[5] \in Nat /\ P[5] > 0 /\ P[6] \in Nat /\ P[6] > 0
      /\ P[7] \in Nat /\ P[7] > 0 /\ P[8] \in Nat /\ P[8] > 0
  <2>1. P[5] \in Nat /\ P[5] > 0
      BY <1>7, <1>6
  <2>2. P[6] \in Nat /\ P[6] > 0
      BY <2>1, <1>6
  <2>3. P[7] \in Nat /\ P[7] > 0
      BY <2>2, <1>6
  <2>4. P[8] \in Nat /\ P[8] > 0
      BY <2>3, <1>6
  <2>. QED
      BY <2>1, <2>2, <2>3, <2>4
<1>9. \A n \in 0 .. 8 : n \in {0, 1, 2, 3, 4, 5, 6, 7, 8}
    OBVIOUS
<1>10. \A n \in 0 .. 8 : P[n] \in Nat /\ P[n] > 0
    BY <1>5, <1>7, <1>8, <1>9
<1>. QED
    BY <1>4, <1>10 DEF P

\* The digits of a number are bytes.
LEMMA DigitsAreBytes ==
    ASSUME NEW v \in Int, NEW w \in 0 .. 8
    PROVE  /\ BigEndian(v, w) \in Seq(Byte) /\ Len(BigEndian(v, w)) = w
           /\ \A i \in 1 .. w : BigEndian(v, w)[i] = (v \div Power[w - i]) % Base
<1>1. Base \in Nat /\ Base > 1
    BY BaseOK
<1>2. ASSUME NEW i \in 1 .. w PROVE (v \div Power[w - i]) % Base \in Byte
  <2>1. PICK m : m = Power[w - i]
      OBVIOUS
  <2>2. m \in Nat /\ m > 0
    <3>1. w - i \in 0 .. 8
        OBVIOUS
    <3>. QED
        BY <2>1, <3>1, Powers
  <2>3. v \div m \in Int
      BY <2>2, Divided
  <2>4. (v \div m) % Base \in Nat /\ (v \div m) % Base < Base
      BY <1>1, <2>3, Divided
  <2>. QED
      BY <1>1, <2>1, <2>4 DEF Byte
<1>3. BigEndian(v, w) \in [1 .. w -> Byte]
    BY <1>2 DEF BigEndian
<1>. QED
    BY <1>3 DEF BigEndian

\* The value of a sequence of bytes is built up digit by digit.
LEMMA UnsignedSteps ==
    ASSUME NEW s \in Seq(Byte)
    PROVE  \E f : /\ f[0] = 0
                  /\ \A i \in 1 .. Len(s) : f[i] = f[i - 1] * Base + s[i]
                  /\ Unsigned(s) = f[Len(s)]
<1>. DEFINE n == Len(s)
            step == [p \in (1 .. n) \X Nat |-> p[2] * Base + s[p[1]]]
<1>1. n \in Nat /\ Base \in Nat /\ \A i \in 1 .. n : s[i] \in Nat
    BY BaseOK DEF Byte
<1>. HIDE DEF n
<1>2. PICK f : Iterates(f, n, 0, step)
    BY <1>1, Recursion
<1>3. \A i \in 0 .. n : f[i] = IF i = 0 THEN 0 ELSE step[<<i, f[i - 1]>>]
    BY <1>2 DEF Iterates
<1>0. f[0] = 0
  <2>1. 0 \in 0 .. n
      BY <1>1
  <2>. HIDE DEF step
  <2>. QED
      BY <1>3, <2>1
<1>. DEFINE T == {i \in 0 .. n : f[i] \notin Nat}
<1>4. ASSUME NEW i \in 0 .. n, i # 0, f[i - 1] \in Nat
      PROVE  f[i] = f[i - 1] * Base + s[i] /\ f[i] \in Nat
  <2>1. <<i, f[i - 1]>> \in (1 .. n) \X Nat /\ i \in 1 .. n
      BY <1>1, <1>4
  <2>2. f[i] = f[i - 1] * Base + s[i]
      BY <1>3, <1>4, <2>1
  <2>3. PICK a \in Nat, b \in Nat : a = f[i - 1] /\ b = s[i]
      BY <1>1, <1>4, <2>1
  <2>4. a * Base + b \in Nat
      BY <1>1
  <2>. QED
      BY <2>2, <2>3, <2>4
<1>. HIDE DEF step
<1>5. T = {}
  <2>. SUFFICES ASSUME T # {} PROVE FALSE
      OBVIOUS
  <2>1. PICK m \in T : \A k \in T : m <= k
    <3>1. T \in SUBSET Nat
        BY <1>1
    <3>. HIDE DEF T
    <3>. QED
        BY <3>1, Least
  <2>2. m \in 0 .. n /\ f[m] \notin Nat
      OBVIOUS
  <2>3. m # 0
      BY <1>0, <2>2
  <2>4. m - 1 \in 0 .. n /\ ~ (m <= m - 1)
      BY <1>1, <2>2, <2>3
  <2>5. f[m - 1] \in Nat
      BY <2>1, <2>4
  <2>. QED
      BY <1>4, <2>2, <2>3, <2>5
<1>6. \A i \in 0 .. n : f[i] = IF i = 0 THEN 0 ELSE f[i - 1] * Base + s[i]
  <2>1. ASSUME NEW i \in 0 .. n, i # 0 PROVE f[i] = f[i - 1] * Base + s[i]
    <3>1. i - 1 \in 0 .. n
        BY <1>1, <2>1
    <3>2. f[i - 1] \in Nat
        BY <1>5, <3>1
    <3>. QED
        BY <1>4, <2>1, <3>2
  <2>. QED
      BY <1>3, <2>1
<1>7. f = [i \in 0 .. n |-> IF i = 0 THEN 0 ELSE f[i - 1] * Base + s[i]]
    BY <1>2, <1>6 DEF Iterates
<1>. DEFINE IsValue(g) == g = [i \in 0 .. n |-> IF i = 0 THEN 0 ELSE g[i - 1] * Base + s[i]]
            g == CHOOSE g : IsValue(g)
<1>8. IsValue(g)
    BY <1>7, Zenon
<1>9. Unsigned(s) = g[n]
    BY Zenon DEF Unsigned, n
<1>. HIDE DEF g
<1>10. g[0] = 0 /\ \A i \in 1 .. n : g[i] = g[i - 1] * Base + s[i]
    BY <1>1, <1>8
<1>. QED
    BY <1>9, <1>10 DEF n

\* The digits of a number that fits give the number back.
LEMMA DigitsGiveNumber ==
    ASSUME NEW w \in 0 .. 8, NEW v \in Nat, v < Power[w]
    PROVE  Unsigned(BigEndian(v, w)) = v
<1>. DEFINE s == BigEndian(v, w)
<1>1. /\ s \in Seq(Byte) /\ Len(s) = w /\ w \in Nat /\ Base \in Nat /\ Base > 1
      /\ \A i \in 1 .. w : s[i] = (v \div Power[w - i]) % Base
  <2>1. v \in Int /\ w \in Nat
      OBVIOUS
  <2>2. /\ s \in Seq(Byte) /\ Len(s) = w
        /\ \A i \in 1 .. w : s[i] = (v \div Power[w - i]) % Base
      BY <2>1, DigitsAreBytes, Zenon
  <2>. QED
      BY <2>1, <2>2, BaseOK
<1>. HIDE DEF s
<1>2. PICK f : /\ f[0] = 0
               /\ \A i \in 1 .. w : f[i] = f[i - 1] * Base + s[i]
               /\ Unsigned(s) = f[w]
    BY <1>1, UnsignedSteps
<1>. DEFINE T == {i \in 0 .. w : f[i] # v \div Power[w - i]}
<1>3. T = {}
  <2>. SUFFICES ASSUME T # {} PROVE FALSE
      OBVIOUS
  <2>1. PICK m \in T : \A k \in T : m <= k
    <3>1. T \in SUBSET Nat
        OBVIOUS
    <3>. HIDE DEF T
    <3>. QED
        BY <3>1, Least
  <2>2. m \in 0 .. w /\ f[m] # v \div Power[w - m]
      OBVIOUS
  <2>3. CASE m = 0
    <3>1. Power[w] \in Nat
        BY Powers
    <3>2. PICK c : c = Power[w]
        OBVIOUS
    <3>3. v \div c = 0
        BY <3>1, <3>2, SmallQuotient
    <3>4. w - m = w
        BY <1>1, <2>3
    <3>. QED
        BY <1>2, <2>2, <2>3, <3>2, <3>3, <3>4
  <2>4. CASE m # 0
    <3>1. m \in 1 .. w /\ m - 1 \in 0 .. w /\ ~ (m <= m - 1) /\ w - (m - 1) \in 1 .. 8
          /\ (w - (m - 1)) - 1 = w - m /\ w - m \in 0 .. 8
        BY <1>1, <2>2, <2>4
    <3>2. f[m - 1] = v \div Power[w - (m - 1)]
        BY <2>1, <3>1
    <3>3. PICK c \in Nat : c = Power[w - m] /\ c > 0 /\ Power[w - (m - 1)] = c * Base
        BY <3>1, Powers
    <3>4. PICK x \in Int : x = v \div c
        BY <3>3, Divided
    <3>5. x \div Base = v \div (c * Base)
      <4>1. v \in Int /\ Base \in Nat /\ Base > 0
          BY <1>1
      <4>. QED
          BY <3>3, <3>4, <4>1, DividedTwice, Zenon
    <3>6. x = Base * (x \div Base) + (x % Base) /\ x \div Base \in Int /\ x % Base \in Int
        BY <1>1, Divided
    <3>7. f[m] = f[m - 1] * Base + (x % Base)
        BY <1>1, <1>2, <3>1, <3>3, <3>4
    <3>8. f[m - 1] = x \div Base
        BY <3>2, <3>3, <3>5
    <3>9. f[m] = x
        BY <1>1, <3>6, <3>7, <3>8
    <3>. QED
        BY <2>2, <3>3, <3>4, <3>9
  <2>. QED
      BY <2>3, <2>4
<1>4. f[w] = v \div Power[0]
  <2>1. w \in 0 .. w /\ w - w = 0
      BY <1>1
  <2>. QED
      BY <1>3, <2>1
<1>5. v \div 1 = v
  <2>1. v = 1 * v + 0
      OBVIOUS
  <2>. QED
      BY <2>1, Quotient
<1>. QED
    BY <1>2, <1>4, <1>5, Powers DEF s

\* So does the two's complement, for a number whose sign is not set.
LEMMA LongReadBack ==
    ASSUME NEW v \in Nat, 2 * v < Power[8]
    PROVE  Number(BigEndian(v, 8), "q") = v
<1>. DEFINE s == BigEndian(v, 8)
<1>1. /\ s \in Seq(Byte) /\ Len(s) = 8 /\ Base \in Nat /\ Base > 1
      /\ s[1] = (v \div Power[8 - 1]) % Base
  <2>1. v \in Int /\ 8 \in 0 .. 8 /\ 1 \in 1 .. 8
      OBVIOUS
  <2>2. /\ s \in Seq(Byte) /\ Len(s) = 8
        /\ \A i \in 1 .. 8 : s[i] = (v \div Power[8 - i]) % Base
      BY <2>1, DigitsAreBytes, Zenon
  <2>. QED
      BY <2>1, <2>2, BaseOK
<1>2. PICK c \in Nat : c = Power[7] /\ c > 0 /\ Power[8] = c * Base
    BY Powers
<1>3. PICK x \in Int : x = v \div c
    BY <1>2, Divided
<1>4. PICK r \in Nat : v = c * x + r /\ r < c
  <2>1. v \in Int
      OBVIOUS
  <2>. QED
      BY <1>2, <1>3, <2>1, Divided, Zenon
<1>5. x >= 0
  <2>. SUFFICES ASSUME x <= -1 PROVE FALSE
      BY <1>3
  <2>1. c * x <= c * (-1)
      BY <1>2
  <2>. QED
      BY <1>2, <1>3, <1>4, <2>1
<1>6. 2 * x < Base
  <2>1. 2 * (c * x + r) < c * Base
      BY <1>2, <1>4
  <2>2. Base \in Nat
      BY <1>1
  <2>. QED
      BY <2>1, <2>2, HalfQuotient
<1>7. x % Base = x
  <2>1. x \in Nat /\ x < Base /\ Base \in Nat
    <3>1. Base \in Nat
        BY <1>1
    <3>. QED
        BY <1>5, <1>6, <3>1
  <2>. QED
      BY <2>1, SmallQuotient
<1>8. s[1] = x /\ 8 - 1 = 7
    BY <1>1, <1>2, <1>3, <1>7
<1>9. Unsigned(s) = v
  <2>1. v < Power[8] /\ 8 \in 0 .. 8
      BY Powers
  <2>. QED
      BY <2>1, DigitsGiveNumber
<1>. HIDE DEF s
<1>10. Head(s) = x
    BY <1>1, <1>8
<1>11. ~ (2 * Head(s) >= Base)
    BY <1>1, <1>6, <1>10
<1>12. Number(s, "q") = v
    BY <1>9, <1>11 DEF Number
<1>. QED
    BY <1>12 DEF s

-----------------------------------------------------------------------------
(* The header of a record. *)

LEMMA OneMore ==
    ASSUME NEW S, NEW x, IsFiniteSet(S), x \notin S
    PROVE  IsFiniteSet(S \cup {x}) /\ Cardinality(S \cup {x}) = Cardinality(S) + 1
BY FS_AddElement

\* Fields come in the order of their numbers.
LEMMA InOrder ==
    ASSUME NEW a, NEW b, NEW c, NEW d,
           a.order = 1, b.order = 2, c.order = 3, d.order = 4
    PROVE  Layout({a, b, c, d}) = <<a, b, c, d>>
<1>. DEFINE F == {a, b, c, d}
            Before(f) == {g \in F : g.order < f.order}
<1>1. a # b /\ a # c /\ a # d /\ b # c /\ b # d /\ c # d
    OBVIOUS
<1>2. /\ Before(a) = {} /\ Before(b) = {} \cup {a}
      /\ Before(c) = {a} \cup {b} /\ Before(d) = {a, b} \cup {c}
    OBVIOUS
<1>3. Cardinality({}) = 0 /\ IsFiniteSet({})
    BY FS_EmptySet
<1>4. Cardinality({} \cup {a}) = 1 /\ IsFiniteSet({} \cup {a})
    BY <1>3, FS_AddElement
<1>5. {} \cup {a} = {a}
    OBVIOUS
<1>6. Cardinality({a} \cup {b}) = 2 /\ IsFiniteSet({a} \cup {b})
  <2>1. Cardinality({a}) = 1 /\ IsFiniteSet({a}) /\ b \notin {a}
      BY <1>1, <1>4, <1>5
  <2>2. Cardinality({a} \cup {b}) = Cardinality({a}) + 1 /\ IsFiniteSet({a} \cup {b})
      BY <2>1, OneMore, Zenon
  <2>. QED
      BY <2>1, <2>2
<1>7. Cardinality({a, b} \cup {c}) = 3 /\ IsFiniteSet({a, b} \cup {c})
  <2>1. {a} \cup {b} = {a, b} /\ c \notin {a, b}
      BY <1>1
  <2>2. Cardinality({a, b}) = 2 /\ IsFiniteSet({a, b})
      BY <1>6, <2>1, Zenon
  <2>3. /\ Cardinality({a, b} \cup {c}) = Cardinality({a, b}) + 1
        /\ IsFiniteSet({a, b} \cup {c})
      BY <2>1, <2>2, OneMore, Zenon
  <2>. QED
      BY <2>2, <2>3
<1>8. Cardinality(F) = 4
  <2>1. {a, b} \cup {c} = {a, b, c} /\ F = {a, b, c} \cup {d} /\ d \notin {a, b, c}
      BY <1>1
  <2>2. Cardinality({a, b, c}) = 3 /\ IsFiniteSet({a, b, c})
      BY <1>7, <2>1, Zenon
  <2>3. Cardinality({a, b, c} \cup {d}) = Cardinality({a, b, c}) + 1
      BY <2>1, <2>2, OneMore, Zenon
  <2>. QED
      BY <2>1, <2>2, <2>3
<1>9. /\ Cardinality(Before(a)) = 0 /\ Cardinality(Before(b)) = 1
      /\ Cardinality(Before(c)) = 2 /\ Cardinality(Before(d)) = 3
    BY <1>2, <1>3, <1>4, <1>6, <1>7
<1>. HIDE DEF Before
<1>10. /\ (CHOOSE f \in F : Cardinality(Before(f)) = 1 - 1) = a
       /\ (CHOOSE f \in F : Cardinality(Before(f)) = 2 - 1) = b
       /\ (CHOOSE f \in F : Cardinality(Before(f)) = 3 - 1) = c
       /\ (CHOOSE f \in F : Cardinality(Before(f)) = 4 - 1) = d
    BY <1>9
<1>11. Layout(F) = [k \in 1 .. 4 |-> CHOOSE f \in F : Cardinality(Before(f)) = k - 1]
    BY <1>8 DEF Layout, Before
<1>12. \A k \in 1 .. 4 : k = 1 \/ k = 2 \/ k = 3 \/ k = 4
    OBVIOUS
<1>13. Layout(F) = [k \in 1 .. 4 |-> <<a, b, c, d>>[k]]
  <2>1. ASSUME NEW k \in 1 .. 4
        PROVE  (CHOOSE f \in F : Cardinality(Before(f)) = k - 1) = <<a, b, c, d>>[k]
      BY <1>10, <1>12
  <2>. HIDE DEF F
  <2>. QED
      BY <1>11, <2>1
<1>14. <<a, b, c, d>> = [k \in 1 .. 4 |-> <<a, b, c, d>>[k]]
    OBVIOUS
<1>. QED
    BY <1>13, <1>14

LEMMA Header ==
    /\ DOMAIN LogEntryMeta = 1 .. 4
    /\ LogEntryMeta[1].name = "timestamp" /\ LogEntryMeta[1].code = "d"
    /\ LogEntryMeta[2].name = "seq_id" /\ LogEntryMeta[2].code = "q"
    /\ LogEntryMeta[3].name = "partition_id" /\ LogEntryMeta[3].code = "i"
    /\ LogEntryMeta[4].name = "crc32" /\ LogEntryMeta[4].code = "I"
<1>1. PICK a : a = Field("timestamp", 1, "d")
    OBVIOUS
<1>2. PICK b : b = Field("seq_id", 2, "q")
    OBVIOUS
<1>3. PICK c : c = Field("partition_id", 3, "i")
    OBVIOUS
<1>4. PICK d : d = Field("crc32", 4, "I")
    OBVIOUS
<1>5. /\ a.order = 1 /\ a.name = "timestamp" /\ a.code = "d"
      /\ b.order = 2 /\ b.name = "seq_id" /\ b.code = "q"
      /\ c.order = 3 /\ c.name = "partition_id" /\ c.code = "i"
      /\ d.order = 4 /\ d.name = "crc32" /\ d.code = "I"
    BY <1>1, <1>2, <1>3, <1>4 DEF Field
<1>6. LogEntryMeta = Layout({a, b, c, d})
    BY <1>1, <1>2, <1>3, <1>4, Zenon DEF LogEntryMeta
<1>7. LogEntryMeta = <<a, b, c, d>>
    BY <1>5, <1>6, InOrder
<1>. QED
    BY <1>5, <1>7

\* The sequence id is behind the timestamp.
LEMMA Offsets == Offset(LogEntryMeta, 2) = 8 /\ Offset(LogEntryMeta, 3) = 16
<1>. DEFINE w(i) == Width[LogEntryMeta[i].code]
<1>1. w(1) = 8 /\ w(2) = 8
    BY Header DEF Width
<1>. HIDE DEF w
<1>. DEFINE Solves(f, k) == f = [i \in 1 .. k |-> IF i = 1 THEN 0 ELSE f[i - 1] + w(i - 1)]
            f2 == CHOOSE f : Solves(f, 2)
            f3 == CHOOSE f : Solves(f, 3)
<1>2. Solves(f2, 2)
  <2>. DEFINE g == [i \in 1 .. 2 |-> IF i = 1 THEN 0 ELSE 8]
  <2>1. g[1] = 0 /\ \A i \in 1 .. 2 : i # 1 => i - 1 = 1
      OBVIOUS
  <2>2. \A i \in 1 .. 2 : g[i] = IF i = 1 THEN 0 ELSE g[i - 1] + w(i - 1)
      BY <1>1, <2>1
  <2>3. Solves(g, 2)
      BY <2>2
  <2>. QED
      BY <2>3, Zenon
<1>3. Solves(f3, 3)
  <2>. DEFINE g == [i \in 1 .. 3 |-> IF i = 1 THEN 0 ELSE IF i = 2 THEN 8 ELSE 16]
  <2>1. g[1] = 0 /\ g[2] = 8 /\ g[3] = 16 /\ \A i \in 1 .. 3 : i = 1 \/ i = 2 \/ i = 3
      OBVIOUS
  <2>. HIDE DEF g
  <2>2. \A i \in 1 .. 3 : g[i] = IF i = 1 THEN 0 ELSE g[i - 1] + w(i - 1)
      BY <1>1, <2>1
  <2>3. g = [i \in 1 .. 3 |-> g[i]]
      BY DEF g
  <2>4. Solves(g, 3)
      BY <2>2, <2>3
  <2>. QED
      BY <2>4, Zenon
<1>4. Offset(LogEntryMeta, 2) = f2[2] /\ Offset(LogEntryMeta, 3) = f3[3]
    BY Zenon DEF Offset, w
<1>. HIDE DEF f2, f3
<1>5. f2[1] = 0 /\ f2[2] = f2[1] + w(1)
  <2>1. 1 \in 1 .. 2 /\ 2 \in 1 .. 2 /\ 2 # 1 /\ 2 - 1 = 1
      OBVIOUS
  <2>. QED
      BY <1>2, <2>1
<1>6. f3[1] = 0 /\ f3[2] = f3[1] + w(1) /\ f3[3] = f3[2] + w(2)
  <2>1. 1 \in 1 .. 3 /\ 2 \in 1 .. 3 /\ 3 \in 1 .. 3 /\ 2 # 1 /\ 3 # 1 /\ 2 - 1 = 1 /\ 3 - 1 = 2
      OBVIOUS
  <2>. QED
      BY <1>3, <2>1
<1>7. f2[2] = 8 /\ f3[3] = 16
    BY <1>1, <1>5, <1>6
<1>. QED
    BY <1>4, <1>7

\* Four fields one behind the other.
LEMMA FourInARow ==
    ASSUME NEW s, s = [k \in 1 .. 4 |-> s[k]]
    PROVE  FlattenSeq(s) = ((s[1] \o s[2]) \o s[3]) \o s[4]
<1>1. Len(s) = 4
    OBVIOUS
<1>. DEFINE Solves(f) == f = [i \in 1 .. 4 |-> IF i = 1 THEN s[i] ELSE f[i - 1] \o s[i]]
            h == CHOOSE f : Solves(f)
<1>2. Solves(h)
  <2>1. PICK x : x = s[1] \o s[2]
      OBVIOUS
  <2>2. PICK y : y = x \o s[3]
      OBVIOUS
  <2>3. PICK z : z = y \o s[4]
      OBVIOUS
  <2>. DEFINE g == [i \in 1 .. 4 |-> IF i = 1 THEN s[1] ELSE IF i = 2 THEN x
                                     ELSE IF i = 3 THEN y ELSE z]
  <2>4. /\ g[1] = s[1] /\ g[2] = x /\ g[3] = y /\ g[4] = z
        /\ \A i \in 1 .. 4 : i = 1 \/ i = 2 \/ i = 3 \/ i = 4
      OBVIOUS
  <2>. HIDE DEF g
  <2>5. ASSUME NEW i \in 1 .. 4
        PROVE  g[i] = IF i = 1 THEN s[i] ELSE g[i - 1] \o s[i]
    <3>1. CASE i = 1
        BY <2>4, <3>1
    <3>2. CASE i = 2
      <4>1. i # 1 /\ i - 1 = 1
          BY <3>2
      <4>. QED
          BY <2>1, <2>4, <3>2, <4>1
    <3>3. CASE i = 3
      <4>1. i # 1 /\ i - 1 = 2
          BY <3>3
      <4>. QED
          BY <2>2, <2>4, <3>3, <4>1
    <3>4. CASE i = 4
      <4>1. i # 1 /\ i - 1 = 3
          BY <3>4
      <4>. QED
          BY <2>3, <2>4, <3>4, <4>1
    <3>. QED
        BY <2>4, <3>1, <3>2, <3>3, <3>4
  <2>6. g = [i \in 1 .. 4 |-> g[i]]
      BY DEF g
  <2>7. Solves(g)
      BY <2>5, <2>6
  <2>. QED
      BY <2>7, Zenon
<1>3. FlattenSeq(s) = h[4]
  <2>1. Len(s) # 0
      BY <1>1
  <2>. QED
      BY <1>1, <2>1, Zenon DEF FlattenSeq
<1>. HIDE DEF h
<1>4. ASSUME NEW i \in 1 .. 4 PROVE h[i] = IF i = 1 THEN s[i] ELSE h[i - 1] \o s[i]
    BY <1>2
<1>. HIDE DEF Solves
<1>5. h[1] = s[1]
    BY <1>4
<1>6. h[2] = h[1] \o s[2]
  <2>1. 2 \in 1 .. 4 /\ 2 # 1 /\ 2 - 1 = 1
      OBVIOUS
  <2>. QED
      BY <1>4, <2>1
<1>7. h[3] = h[2] \o s[3]
  <2>1. 3 \in 1 .. 4 /\ 3 # 1 /\ 3 - 1 = 2
      OBVIOUS
  <2>. QED
      BY <1>4, <2>1
<1>8. h[4] = h[3] \o s[4]
  <2>1. 4 \in 1 .. 4 /\ 4 # 1 /\ 4 - 1 = 3
      OBVIOUS
  <2>. QED
      BY <1>4, <2>1
<1>. QED
    BY <1>3, <1>5, <1>6, <1>7, <1>8, Zenon

\* Metadata are bytes, and a reader unpacks the sequence id that was packed, if it
\* has a place in a 64-bit integer.
LEMMA MetaReadBack ==
    ASSUME NEW time \in Nat, NEW id \in Nat
    PROVE  /\ Meta(time, id) \in Seq(Byte)
           /\ 2 * id < Power[8] => IdIn(Meta(time, id)) = id
<1>. DEFINE values == [timestamp |-> time, seq_id |-> id, partition_id |-> 0,
                       crc32 |-> Power[4] - 1]
            s == [k \in DOMAIN LogEntryMeta |->
                    BigEndian(values[LogEntryMeta[k].name], Width[LogEntryMeta[k].code])]
<1>1. PICK crc \in Int : crc = Power[4] - 1
    BY Powers
<1>2. PICK a \in Seq(Byte) : a = BigEndian(time, 8) /\ Len(a) = 8
  <2>1. time \in Int /\ 8 \in 0 .. 8
      OBVIOUS
  <2>. QED
      BY <2>1, DigitsAreBytes, Zenon
<1>3. PICK b \in Seq(Byte) : b = BigEndian(id, 8) /\ Len(b) = 8
  <2>1. id \in Int /\ 8 \in 0 .. 8
      OBVIOUS
  <2>. QED
      BY <2>1, DigitsAreBytes, Zenon
<1>4. PICK c \in Seq(Byte) : c = BigEndian(0, 4)
    BY DigitsAreBytes
<1>5. PICK d \in Seq(Byte) : d = BigEndian(crc, 4)
    BY DigitsAreBytes
<1>6. s = [k \in 1 .. 4 |-> s[k]] /\ s[1] = a /\ s[2] = b /\ s[3] = c /\ s[4] = d
  <2>1. /\ values["timestamp"] = time /\ values["seq_id"] = id
        /\ values["partition_id"] = 0 /\ values["crc32"] = crc
      BY <1>1
  <2>2. Width["d"] = 8 /\ Width["q"] = 8 /\ Width["i"] = 4 /\ Width["I"] = 4
      BY DEF Width
  <2>. HIDE DEF values
  <2>3. s[1] = BigEndian(time, 8)
      BY <2>1, <2>2, Header
  <2>4. s[2] = BigEndian(id, 8)
      BY <2>1, <2>2, Header
  <2>5. s[3] = BigEndian(0, 4)
      BY <2>1, <2>2, Header
  <2>6. s[4] = BigEndian(crc, 4)
      BY <2>1, <2>2, Header
  <2>7. s = [k \in 1 .. 4 |-> s[k]]
      BY Header
  <2>. QED
      BY <1>2, <1>3, <1>4, <1>5, <2>3, <2>4, <2>5, <2>6, <2>7
<1>7. Meta(time, id) = FlattenSeq(s)
    BY Zenon DEF Meta, Packed
<1>. HIDE DEF s
<1>8. Meta(time, id) = ((a \o b) \o c) \o d
    BY <1>6, <1>7, FourInARow
<1>9. Len(a) = 8 /\ Len(b) = 8
    BY <1>2, <1>3
<1>10. a \o b \in Seq(Byte) /\ Len(a \o b) = 16
  <2>1. a \o b \in Seq(Byte) /\ Len(a \o b) = Len(a) + Len(b)
      BY ConcatProperties, Zenon
  <2>. QED
      BY <1>9, <2>1
<1>11. (a \o b) \o c \in Seq(Byte) /\ Len((a \o b) \o c) >= 16
    BY <1>10, ConcatProperties
<1>12. ((a \o b) \o c) \o d \in Seq(Byte)
    BY <1>11, ConcatProperties
<1>13. SubSeq(Meta(time, id), 9, 16) = b
  <2>1. PICK i \in Nat, j \in Nat : i = 9 /\ j = 16
      OBVIOUS
  <2>2. SubSeq(((a \o b) \o c) \o d, i, j) = SubSeq((a \o b) \o c, i, j)
    <3>1. i \in 1 .. Len((a \o b) \o c) /\ j \in 1 .. Len((a \o b) \o c)
        BY <1>11, <2>1
    <3>. QED
        BY <1>11, <3>1, SubSeqOfConcat1, Zenon
  <2>3. SubSeq((a \o b) \o c, i, j) = SubSeq(a \o b, i, j)
    <3>1. i \in 1 .. Len(a \o b) /\ j \in 1 .. Len(a \o b)
        BY <1>10, <2>1
    <3>. QED
        BY <1>10, <3>1, SubSeqOfConcat1, Zenon
  <2>4. SubSeq(a \o b, i, j) = SubSeq(b, i - Len(a), j - Len(a))
    <3>1. /\ i \in Len(a) + 1 .. Len(a) + Len(b)
          /\ j \in Len(a) + 1 .. Len(a) + Len(b)
        BY <1>9, <2>1
    <3>. QED
        BY <3>1, SubSeqOfConcat2, Zenon
  <2>5. SubSeq(b, 1, Len(b)) = b
      BY SubSeqFull, Zenon
  <2>6. i - Len(a) = 1 /\ j - Len(a) = Len(b)
      BY <1>9, <2>1
  <2>. QED
      BY <1>8, <2>1, <2>2, <2>3, <2>4, <2>5, <2>6, Zenon
<1>14. PICK m \in Seq(Byte) : m = Meta(time, id) /\ SubSeq(m, 9, 16) = b
    BY <1>8, <1>12, <1>13
<1>15. ASSUME 2 * id < Power[8] PROVE IdIn(m) = id
  <2>. DEFINE At(k) == SubSeq(m, Offset(LogEntryMeta, k) + 1, Offset(LogEntryMeta, k + 1))
              Pos(n) == CHOOSE k \in DOMAIN LogEntryMeta : LogEntryMeta[k].name = n
              Names == {LogEntryMeta[k].name : k \in DOMAIN LogEntryMeta}
  <2>1. Pos("seq_id") = 2 /\ "seq_id" \in Names
    <3>1. \A k \in 1 .. 4 : LogEntryMeta[k].name = "seq_id" <=> k = 2
      <4>1. \A k \in 1 .. 4 : k = 1 \/ k = 2 \/ k = 3 \/ k = 4
          OBVIOUS
      <4>. QED
          BY <4>1, Header
    <3>. QED
        BY <3>1, Header
  <2>2. At(2) = b
    <3>1. 8 + 1 = 9 /\ 2 + 1 = 3
        OBVIOUS
    <3>. QED
        BY <1>14, <3>1, Offsets
  <2>. HIDE DEF At, Pos, Names
  <2>3. IdIn(m) = [n \in Names |-> Number(At(Pos(n)), LogEntryMeta[Pos(n)].code)].seq_id
      BY Zenon DEF IdIn, Unpacked, At, Pos, Names
  <2>4. IdIn(m) = Number(b, "q")
      BY <2>1, <2>2, <2>3, Header
  <2>. QED
      BY <1>3, <1>15, <2>4, LongReadBack
<1>. QED
    BY <1>14, <1>15

-----------------------------------------------------------------------------
(* The sequence ids of a segment. *)

\* An id was taken by a record or by an error; every record has a number for one.
Numbered ==
    /\ sequenceId <= written + errors
    /\ \A r \in 1 .. written : SeqId(r) \in Nat

\* No record of the open segment is ahead of the counter.
CounterAhead ==
    up => \A i \in Slot : os[segment][i] # 0 => SeqId(os[segment][i]) <= sequenceId

Ordered == Numbered /\ CounterAhead /\ SequenceIncreases

\* The next record gets the next id, and no other changes its own.
LEMMA NextId ==
    ASSUME Inv, Numbered, NEW k \in Key, NEW size \in Size, LogEntry(k, size),
           NEW n, n = written + 1
    PROVE  /\ Numbered' /\ sequenceId' = sequenceId + 1 /\ sequenceId \in Nat
           /\ written' = written + 1 /\ written \in Nat
           /\ SeqId(n)' = sequenceId + 1
           /\ \A r \in 1 .. written : SeqId(r)' = SeqId(r) /\ SeqId(r) \in Nat
<1>1. PICK t \in Time, c \in Nat : Place(t, c, size) /\ Log(k, size, t, c)
    BY Placed
<1>2. /\ written < MaxWrites /\ written' = written + 1 /\ sequenceId' = sequenceId + 1
      /\ entry' = [entry EXCEPT ![written + 1] =
                      [key |-> k, size |-> size, meta |-> Meta(lastTime, sequenceId + 1)]]
      /\ errors' = errors
    BY <1>1 DEF Log
<1>3. /\ written \in Nat /\ sequenceId \in Nat /\ errors \in Nat /\ errors <= MaxErrors
      /\ MaxWrites \in Nat /\ MaxErrors \in Nat /\ lastTime \in 0 .. MaxTime
      /\ DOMAIN entry = 1 .. MaxWrites /\ sequenceId <= written + errors
    BY Bounds DEF Inv, Types, Entry, Numbered
<1>4. entry'[written + 1].meta = Meta(lastTime, sequenceId + 1)
      /\ \A r \in 1 .. written : entry'[r] = entry[r]
    BY <1>2, <1>3
<1>5. sequenceId + 1 \in 1 .. MaxWrites + MaxErrors /\ sequenceId' <= written' + errors'
    BY <1>2, <1>3
<1>6. IdIn(Meta(lastTime, sequenceId + 1)) = sequenceId + 1
  <2>1. PICK time \in Nat, id \in Nat : time = lastTime /\ id = sequenceId + 1
      BY <1>3
  <2>2. 2 * id < Power[8]
      BY <1>3, <1>5, <2>1, IdsFit, Powers
  <2>. QED
      BY <2>1, <2>2, MetaReadBack
<1>7. SeqId(n)' = sequenceId + 1
  <2>1. IdIn(entry'[n].meta) = sequenceId + 1
      BY <1>4, <1>6
  <2>. QED
      BY <2>1 DEF SeqId
<1>8. \A r \in 1 .. written : SeqId(r)' = SeqId(r) /\ SeqId(r) \in Nat
    BY <1>4 DEF SeqId, Numbered
<1>9. Numbered'
  <2>1. \A r \in 1 .. written' : r \in 1 .. written \/ r = n
      BY <1>2, <1>3
  <2>2. sequenceId + 1 \in Nat
      BY <1>3
  <2>3. \A r \in 1 .. written' : SeqId(r)' \in Nat
      BY <1>7, <1>8, <2>1, <2>2
  <2>. QED
      BY <1>5, <2>3 DEF Numbered
<1>. QED
    BY <1>2, <1>3, <1>7, <1>8, <1>9

\* It goes behind every record of its segment.
LEMMA NextBehind ==
    ASSUME Inv, Ordered, NEW k \in Key, NEW size \in Size, LogEntry(k, size)
    PROVE  Ordered'
<1>1. PICK t \in Time, c \in Nat : Place(t, c, size) /\ Log(k, size, t, c)
    BY Placed
<1>0. PICK n : n = written + 1
    OBVIOUS
<1>2. /\ Numbered' /\ sequenceId' = sequenceId + 1 /\ sequenceId \in Nat
      /\ written \in Nat
      /\ SeqId(n)' = sequenceId + 1
      /\ \A r \in 1 .. written : SeqId(r)' = SeqId(r) /\ SeqId(r) \in Nat
    BY <1>0, NextId DEF Ordered
<1>3. \A u \in Time : \A i \in Slot :
          os'[u][i] = IF u = t /\ i \in c + 1 .. c + size THEN n ELSE os[u][i]
    BY <1>1, <1>0, FilesAfter
<1>4. /\ \A u \in Time : \A i \in Slot : os[u][i] \in 0 .. written
      /\ size \in Nat /\ \A i \in Slot : i \in Nat
      /\ \A i \in Slot : i > c => os[t][i] = 0
      /\ segment' = t /\ up
  <2>1. \A u \in Time : \A i \in Slot : os[u][i] \in 0 .. written
      BY DEF Inv, Types
  <2>2. size \in Nat /\ \A i \in Slot : i \in Nat
      BY Bounds DEF Slot
  <2>3. /\ \A i \in Slot : i > c => os[t][i] = 0
        /\ segment' = t /\ up
      BY <1>1 DEF Place, Log, LogEntry
  <2>. QED
      BY <2>1, <2>2, <2>3
<1>5. ASSUME NEW i \in Slot, os[t][i] # 0 PROVE SeqId(os[t][i]) <= sequenceId
  <2>1. CASE t = segment
      BY <1>4, <1>5, <2>1 DEF Ordered, CounterAhead
  <2>2. CASE t > lastTime
      BY <1>5, <2>2 DEF Inv, Free
  <2>. QED
      BY <1>1, <2>1, <2>2 DEF Place
<1>6. SequenceIncreases'
  <2>1. ASSUME NEW u \in Time, NEW i \in Slot, NEW j \in Slot, i < j,
               os'[u][i] # 0, os'[u][j] # 0, os'[u][j] # os'[u][i]
        PROVE  (SeqId(os[u][i]) < SeqId(os[u][j]))'
    <3>1. PICK q : q = os'[u][i]
        OBVIOUS
    <3>2. PICK r : r = os'[u][j]
        OBVIOUS
    <3>3. SeqId(q)' < SeqId(r)'
      <4>1. CASE u = t /\ i \in c + 1 .. c + size
        <5>1. j > c /\ os[t][j] = 0
            BY <1>4, <2>1, <4>1
        <5>. QED
            BY <1>3, <2>1, <4>1, <5>1
      <4>2. CASE u = t /\ j \in c + 1 .. c + size /\ i \notin c + 1 .. c + size
        <5>1. q = os[t][i] /\ r = n
            BY <1>3, <3>1, <3>2, <4>2
        <5>2. q \in 1 .. written /\ SeqId(q) <= sequenceId
            BY <1>2, <1>4, <1>5, <2>1, <3>1, <5>1
        <5>3. SeqId(q)' = SeqId(q) /\ SeqId(q) \in Nat /\ SeqId(r)' = sequenceId + 1
            BY <1>2, <5>1, <5>2
        <5>. QED
            BY <1>2, <5>2, <5>3
      <4>3. CASE u # t \/ (i \notin c + 1 .. c + size /\ j \notin c + 1 .. c + size)
        <5>1. q = os[u][i] /\ r = os[u][j]
            BY <1>3, <3>1, <3>2, <4>3
        <5>2. q \in 1 .. written /\ r \in 1 .. written
            BY <1>2, <1>4, <2>1, <3>1, <3>2, <5>1
        <5>3. SeqId(q) < SeqId(r)
            BY <2>1, <3>1, <3>2, <5>1 DEF Ordered, SequenceIncreases
        <5>. QED
            BY <1>2, <5>2, <5>3
      <4>. QED
          BY <4>1, <4>2, <4>3
    <3>. QED
        BY <3>1, <3>2, <3>3 DEF SeqId
  <2>. QED
      BY <2>1 DEF SequenceIncreases
<1>7. CounterAhead'
  <2>1. ASSUME NEW i \in Slot, os'[t][i] # 0 PROVE SeqId(os[t][i])' <= sequenceId'
    <3>1. PICK q : q = os'[t][i]
        OBVIOUS
    <3>2. SeqId(q)' <= sequenceId'
      <4>1. CASE i \in c + 1 .. c + size
        <5>1. q = n
            BY <1>3, <3>1, <4>1
        <5>. QED
            BY <1>2, <5>1
      <4>2. CASE i \notin c + 1 .. c + size
        <5>1. q = os[t][i]
            BY <1>3, <3>1, <4>2
        <5>2. q \in 1 .. written /\ SeqId(q) <= sequenceId
            BY <1>2, <1>4, <1>5, <2>1, <3>1, <5>1
        <5>. QED
            BY <1>2, <5>2
      <4>. QED
          BY <4>1, <4>2
    <3>. QED
        BY <3>1, <3>2 DEF SeqId
  <2>. QED
      BY <1>4, <2>1 DEF CounterAhead
<1>. QED
    BY <1>2, <1>6, <1>7 DEF Ordered

\* Nothing else writes: files stay, or come back from the disk, which is behind.
LEMMA SameOrder ==
    ASSUME Inv, Ordered, UNCHANGED <<written, entry>>,
           os' = os \/ (os' = disk /\ ~up'),
           sequenceId' <= written + errors',
           up' => \/ up /\ segment' = segment /\ sequenceId <= sequenceId'
                  \/ \A i \in Slot : os'[segment'][i] = 0,
           sequenceId' \in Nat
    PROVE  Ordered'
<1>1. /\ \A r \in Nat : SeqId(r)' = SeqId(r)
      /\ written \in Nat
      /\ \A u \in Time : \A i \in Slot : os[u][i] \in 0 .. written
    BY Bounds DEF SeqId, Inv, Types
<1>2. Numbered'
  <2>1. \A r \in 1 .. written : SeqId(r)' \in Nat
      BY <1>1 DEF Ordered, Numbered
  <2>. QED
      BY <2>1 DEF Numbered
<1>3. \A u \in Time : \A i \in Slot : os'[u][i] \in {0, os[u][i]}
    BY DEF Inv, DiskBehind
<1>4. SequenceIncreases'
  <2>1. ASSUME NEW u \in Time, NEW i \in Slot, NEW j \in Slot, i < j,
               os'[u][i] # 0, os'[u][j] # 0, os'[u][j] # os'[u][i]
        PROVE  (SeqId(os[u][i]) < SeqId(os[u][j]))'
    <3>1. os'[u][i] = os[u][i] /\ os'[u][j] = os[u][j]
        BY <1>3, <2>1
    <3>2. SeqId(os[u][i]) < SeqId(os[u][j])
        BY <2>1, <3>1 DEF Ordered, SequenceIncreases
    <3>. QED
        BY <3>1, <3>2 DEF SeqId
  <2>. QED
      BY <2>1 DEF SequenceIncreases
<1>5. CounterAhead'
  <2>1. ASSUME up', NEW i \in Slot, os'[segment'][i] # 0
        PROVE  (SeqId(os[segment][i]) <= sequenceId)'
    <3>1. up /\ segment' = segment /\ sequenceId <= sequenceId' /\ os' = os
        BY <2>1
    <3>2. segment \in Time /\ os[segment][i] \in 1 .. written /\ sequenceId \in Nat
        BY <1>1, <2>1, <3>1 DEF Inv, Types
    <3>3. SeqId(os[segment][i]) <= sequenceId /\ SeqId(os[segment][i]) \in Nat
        BY <2>1, <3>1, <3>2 DEF Ordered, CounterAhead, Numbered
    <3>4. SeqId(os[segment][i]) <= sequenceId'
        BY <3>1, <3>2, <3>3
    <3>. QED
        BY <3>1, <3>4 DEF SeqId
  <2>. QED
      BY <2>1 DEF CounterAhead
<1>. QED
    BY <1>2, <1>4, <1>5 DEF Ordered

LEMMA OrderedNext == ASSUME Inv, Ordered, [Next]_vars PROVE Ordered'
<1>1. /\ sequenceId \in Nat /\ written \in Nat /\ errors \in Nat
      /\ sequenceId <= written + errors
    BY Bounds DEF Inv, Types, Ordered, Numbered
<1>2. ASSUME NEW k \in Key, NEW size \in Size, Write(k, size) \/ KilledInWrite(k, size)
      PROVE  Ordered'
    BY <1>2, NextBehind DEF Write, KilledInWrite
<1>3. ASSUME NEW k \in Key, Fail(k) PROVE Ordered'
  <2>1. /\ UNCHANGED <<up, segment, os, written, entry>>
        /\ sequenceId' = sequenceId + 1 /\ errors' = errors + 1
      BY <1>3 DEF Fail, history
  <2>2. /\ sequenceId' <= written + errors' /\ sequenceId' \in Nat
        /\ sequenceId <= sequenceId'
      BY <1>1, <2>1
  <2>. QED
      BY <2>1, <2>2, SameOrder
<1>4. CASE Start
  <2>1. PICK t \in Time : NewName(t) /\ segment' = t
      BY <1>4 DEF Start
  <2>2. UNCHANGED <<os, written, entry, errors>> /\ sequenceId' = 0
      BY <1>4 DEF Start
  <2>3. \A i \in Slot : os'[segment'][i] = 0
      BY <2>1, <2>2 DEF NewName, Inv, Free
  <2>4. sequenceId' <= written + errors' /\ sequenceId' \in Nat
      BY <1>1, <2>2
  <2>. QED
      BY <2>2, <2>3, <2>4, SameOrder
<1>5. CASE PowerFailure
  <2>1. UNCHANGED <<sequenceId, written, entry, errors>> /\ os' = disk /\ ~up'
      BY <1>5 DEF PowerFailure, process
  <2>. QED
      BY <1>1, <2>1, SameOrder
<1>6. ASSUME UNCHANGED <<sequenceId, segment, os, written, entry, errors>>, up' => up
      PROVE  Ordered'
  <2>1. sequenceId <= sequenceId'
      BY <1>1, <1>6
  <2>. QED
      BY <1>1, <1>6, <2>1, SameOrder
<1>7. CASE Flush \/ Stop \/ Kill \/ \E t \in Time : WriteBack(t)
    BY <1>6, <1>7 DEF Flush, Stop, Kill, WriteBack, process, history
<1>8. CASE UNCHANGED vars
    BY <1>6, <1>8 DEF vars, process, history
<1>. QED
    BY <1>2, <1>3, <1>4, <1>5, <1>7, <1>8 DEF Next, WriteBroken, RotateFails

\* The ids that readers unpack increase within a segment, whatever SETs raised, and
\* whatever was killed or lost between (wal.py, write_entry and append: "w ramach
\* segmentu"), as long as they have a place in the 64 bits that struct gives them.
THEOREM SequencesIncrease == Spec => []SequenceIncreases
<1>1. Init => Ordered
    BY Bounds DEF Init, NoFile, Ordered, Numbered, CounterAhead, SequenceIncreases
<1>2. Inv /\ Ordered /\ [Next]_vars => Ordered'
    BY OrderedNext
<1>3. Ordered => SequenceIncreases
    BY DEF Ordered
<1>. QED
    BY <1>1, <1>2, <1>3, InvHolds, PTL DEF Spec

-----------------------------------------------------------------------------
(* Types: the packed headers are bytes. *)

Record == [key : Key, size : 0 .. SegmentSize, meta : Seq(Byte)]

Records == entry \in [Entry -> Record]

LEMMA RecordsInit == Init => Records
<1>. SUFFICES ASSUME Init PROVE Records
    OBVIOUS
<1>1. (CHOOSE k \in Key : TRUE) \in Key
    BY ConstantsOK DEF ConstantsOK
<1>2. << >> \in Seq(Byte) /\ 0 \in 0 .. SegmentSize
    BY Bounds
<1>3. NoEntry \in Record
    BY <1>1, <1>2 DEF NoEntry, Record
<1>. QED
    BY <1>3 DEF Init, Records

LEMMA RecordsNext == ASSUME Inv, Records, [Next]_vars PROVE Records'
<1>1. ASSUME NEW k \in Key, NEW size \in Size, LogEntry(k, size) PROVE Records'
  <2>1. PICK t \in Time, c \in Nat : Place(t, c, size) /\ Log(k, size, t, c)
      BY <1>1, Placed
  <2>2. lastTime \in Nat /\ sequenceId + 1 \in Nat /\ size \in 0 .. SegmentSize
      BY Bounds DEF Inv, Types
  <2>3. PICK m \in Seq(Byte) : m = Meta(lastTime, sequenceId + 1)
    <3>1. PICK time \in Nat, id \in Nat : time = lastTime /\ id = sequenceId + 1
        BY <2>2
    <3>. QED
        BY <3>1, MetaReadBack
  <2>4. PICK e \in Record : e = [key |-> k, size |-> size, meta |-> m]
      BY <2>2 DEF Record
  <2>5. entry' = [entry EXCEPT ![written + 1] = e]
      BY <2>1, <2>3, <2>4 DEF Log
  <2>. QED
      BY <2>5 DEF Records
<1>2. ASSUME entry' = entry PROVE Records'
    BY <1>2 DEF Records
<1>3. CASE UNCHANGED vars
    BY <1>2, <1>3 DEF vars, history
<1>4. CASE Start \/ Flush \/ Stop \/ Kill \/ PowerFailure \/ \E t \in Time : WriteBack(t)
    BY <1>2, <1>4 DEF Start, Flush, Stop, Kill, PowerFailure, WriteBack, history
<1>5. ASSUME NEW k \in Key, WriteBroken(k) PROVE Records'
    BY <1>2, <1>5 DEF WriteBroken, Fail, history
<1>6. ASSUME NEW k \in Key, NEW size \in Size, RotateFails(k, size) PROVE Records'
    BY <1>2, <1>6 DEF RotateFails, Fail, history
<1>7. ASSUME NEW k \in Key, NEW size \in Size, Write(k, size) \/ KilledInWrite(k, size)
      PROVE  Records'
    BY <1>1, <1>7 DEF Write, KilledInWrite
<1>. QED
    BY <1>3, <1>4, <1>5, <1>6, <1>7 DEF Next

\* The cursor never leaves its segment, and what is packed is bytes, whatever is
\* written, fails, is killed and restarted (wal.py, append and BinaryMeta.pack).
THEOREM LogTypeCorrect == Spec => []TypeOK
<1>1. Init => Records
    BY RecordsInit
<1>2. Inv /\ Records /\ [Next]_vars => Records'
    BY RecordsNext
<1>3. Inv /\ Records => TypeOK
  <2>. SUFFICES ASSUME Inv, Records PROVE TypeOK
      OBVIOUS
  <2>1. /\ written \in Nat /\ written <= MaxWrites /\ MaxWrites \in Nat
        /\ lastTime \in Nat /\ lastTime <= MaxTime /\ MaxTime \in Nat
      BY Bounds DEF Inv, Types
  <2>2. 0 .. written \subseteq 0 .. MaxWrites /\ 1 .. written \subseteq Entry
      BY <2>1 DEF Entry
  <2>3. /\ os \in [Time -> [Slot -> 0 .. MaxWrites]]
        /\ disk \in [Time -> [Slot -> 0 .. MaxWrites]]
    <3>1. [Slot -> 0 .. written] \subseteq [Slot -> 0 .. MaxWrites]
        BY <2>2
    <3>. QED
        BY <3>1 DEF Inv, Types
  <2>4. entry \in [Entry -> [key : Key, size : 0 .. SegmentSize, meta : Seq(0 .. Base - 1)]]
      BY DEF Records, Record, Byte
  <2>5. /\ segment \in 0 .. MaxTime /\ lastTime \in 0 .. MaxTime
        /\ booted \in 0 .. MaxWrites /\ written \in 0 .. MaxWrites
      BY <2>1 DEF Inv, Types
  <2>6. acked \in SUBSET Entry /\ aged \in SUBSET Entry
      BY <2>2 DEF Inv, Types
  <2>. QED
      BY <2>3, <2>4, <2>5, <2>6 DEF Inv, Types, TypeOK
<1>. QED
    BY <1>1, <1>2, <1>3, InvHolds, PTL DEF Spec

=============================================================================
