----------------------------- MODULE HyperionLog -----------------------------
(***************************************************************************)
(* The write path of hyperion_stream: HyperionEngine.write                 *)
(* (storage/engine.py) over the memory-mapped segments of the write-ahead  *)
(* log (storage/wal.py), through rotations, kills, power failures and      *)
(* restarts.  The lock of a shard is never held across an await, so        *)
(* nobody ever waits for it and a request runs in one step.                *)
(*                                                                         *)
(* A segment is a number of slots and a record fills one or more of them;  *)
(* the i-th record written is the number i, and 0 is a slot never written. *)
(* What the operating system has of a file and what the disk has are kept  *)
(* apart: a mapped write is the former's at once and the latter's when     *)
(* somebody syncs it.                                                      *)
(***************************************************************************)
EXTENDS HyperionProtocol

CONSTANTS
    Key,
    Size,         \* sizes a record may have, in slots
    SegmentSize,  \* SEGMENT_SIZE, in slots
    MaxTime,      \* bound: the timestamps that name segments
    MaxWrites,    \* bound: records written, of all processes together
    MaxErrors     \* bound: SETs answered with an error

\* The largest packet is half a segment: a record always fits an empty one.
ASSUME ConstantsOK ==
    /\ {SegmentSize, MaxTime, MaxWrites, MaxErrors} \subseteq Nat
    /\ Size \subseteq 1 .. SegmentSize
    /\ Key # {}

\* A sequence id has a place in the 64 bits of a 'q': from 2^63 on, struct raises.
ASSUME IdsFit == 2 * (MaxWrites + MaxErrors) < Power[8]

Time   == 1 .. MaxTime
Slot   == 1 .. SegmentSize
Entry  == 1 .. MaxWrites

VARIABLES
    up,         \* whether there is a process
    mem,        \* the record that each key has in its shard, 0 for none
    sequenceId,
    segment,    \* the timestamp in the name of current_segment
    cursor,     \* _write_cursor
    broken,     \* whether current_segment is a closed one
    os, disk,   \* the slots of each file
    lastTime,   \* the latest timestamp given to a segment
    written,    \* history: records written so far
    entry,      \* history: key, size and packed LogEntryMeta of each
    acked,      \* history: records whose SET was answered with OK_SET, but for
                \* those that a power failure took
    aged,       \* history: records answered before a tick of the daemon of the
                \* same process, or before it stopped
    booted,     \* history: records written when the process started
    errors

process == <<mem, sequenceId, segment, cursor, broken>>
history == <<written, entry, acked, aged, booted>>
vars    == <<up, process, os, disk, lastTime, history, errors>>

NoFile   == [i \in Slot |-> 0]
NoEntry  == [key |-> CHOOSE k \in Key : TRUE, size |-> 0, meta |-> << >>]

Init ==
    /\ up = FALSE
    /\ mem = [k \in Key |-> 0] /\ sequenceId = 0
    /\ segment = 0 /\ cursor = 0 /\ broken = FALSE
    /\ os = [t \in Time |-> NoFile] /\ disk = [t \in Time |-> NoFile]
    /\ lastTime = 0
    /\ written = 0 /\ entry = [r \in Entry |-> NoEntry]
    /\ acked = {} /\ aged = {} /\ booted = 0
    /\ errors = 0

-----------------------------------------------------------------------------

\* (An operator that precedes another and is not used is a plausible bug of the
\* next one, put in its place to test the properties.)
SameSecond(t) == t >= lastTime

\* The name of a new segment: the clock does not go back, and neither a segment
\* fills nor a process starts within a millisecond.
NewName(t) == t > lastTime

\* The file f with record r at the cursor c.
Appended(f, c, r, size) == [i \in Slot |-> IF i \in c + 1 .. c + size THEN r ELSE f[i]]

\* The disk after msync of the current segment.
Synced == [disk EXCEPT ![segment] = os[segment]]

\* The disk after a rotation has synced and closed the current segment.
ClosedUnsynced == disk
Closed == Synced

\* Whether record r is whole in one of the files.
Whole(files, r) ==
    \E t \in Time : Cardinality({i \in Slot : files[t][i] = r}) = entry[r].size

\* A process starts: it begins a new segment, and replays none.
Start ==
    /\ ~up
    /\ \E t \in Time :
          /\ NewName(t)
          /\ segment' = t /\ lastTime' = t
    /\ up' = TRUE
    /\ mem' = [k \in Key |-> 0]
    /\ sequenceId' = 0
    /\ cursor' = 0
    /\ broken' = FALSE
    /\ booted' = written
    /\ UNCHANGED <<os, disk, written, entry, acked, aged, errors>>

\* The bound check of append.
StartsInside(size) == cursor < SegmentSize
HasRoom(size) == cursor + size <= SegmentSize

\* The metadata of a record: any number does for its checksum.
Meta(time, id) == Packed(LogEntryMeta,
    [timestamp |-> time, seq_id |-> id, partition_id |-> 0, crc32 |-> Power[4] - 1])

\* append of the next record, to segment t at c.
Log(k, size, t, c) ==
    /\ written < MaxWrites
    /\ written' = written + 1
    /\ sequenceId' = sequenceId + 1
    /\ entry' = [entry EXCEPT ![written + 1] =
                    [key |-> k, size |-> size, meta |-> Meta(lastTime, sequenceId + 1)]]
    /\ os' = [os EXCEPT ![t] = Appended(@, c, written + 1, size)]
    /\ segment' = t
    /\ cursor' = c + size
    /\ UNCHANGED <<broken, aged, booted, errors>>

\* write_entry: append, or rotate and append.
LogEntry(k, size) ==
    /\ up /\ ~broken
    /\ \/ /\ HasRoom(size)
          /\ Log(k, size, segment, cursor)
          /\ UNCHANGED <<disk, lastTime>>
       \/ /\ ~HasRoom(size)
          /\ disk' = Closed
          /\ \E t \in Time : NewName(t) /\ lastTime' = t /\ Log(k, size, t, 0)

\* A SET: log, put, answer.
Write(k, size) ==
    /\ LogEntry(k, size)
    /\ mem' = [mem EXCEPT ![k] = written + 1]
    /\ acked' = acked \cup {written + 1}
    /\ UNCHANGED up

\* The process is killed after the append and before the answer.
KilledInWrite(k, size) ==
    /\ LogEntry(k, size)
    /\ up' = FALSE
    /\ UNCHANGED <<mem, acked>>

PutFirst(k) == [mem EXCEPT ![k] = written + 1]
Unput(k) == mem

\* A SET that raises: sequence_id has been incremented, nothing was put.
Fail(k) ==
    /\ errors < MaxErrors
    /\ errors' = errors + 1
    /\ sequenceId' = sequenceId + 1
    /\ mem' = Unput(k)
    /\ UNCHANGED <<up, segment, cursor, os, lastTime, history>>

\* The new segment of a rotation cannot be made: the old one is synced and
\* closed by then, and stays current_segment.
RotateFails(k, size) ==
    /\ up /\ ~broken
    /\ ~HasRoom(size)
    /\ Fail(k)
    /\ disk' = Closed
    /\ broken' = TRUE

\* From then on every write raises: append and sync both touch a closed mapping.
WriteBroken(k) ==
    /\ up /\ broken
    /\ Fail(k)
    /\ UNCHANGED <<disk, broken>>

\* What this process has acknowledged.
Mine == {r \in acked : r > booted}

\* A tick of flush_daemon.  (On a closed segment it raises, which ends the
\* daemon: nothing is written any more that it could flush.)
Flush ==
    /\ up /\ ~broken
    /\ disk' = Synced
    /\ aged' = aged \cup Mine
    /\ UNCHANGED <<up, process, os, lastTime, written, entry, acked, booted, errors>>

\* Graceful shutdown.
Stop ==
    /\ up
    /\ up' = FALSE
    /\ disk' = IF broken THEN disk ELSE Synced
    /\ aged' = aged \cup Mine
    /\ UNCHANGED <<process, os, lastTime, written, entry, acked, booted, errors>>

Kill ==
    /\ up
    /\ up' = FALSE
    /\ UNCHANGED <<process, os, disk, lastTime, history, errors>>

\* The machine stops and starts again from the disk.
PowerFailure ==
    /\ up' = FALSE
    /\ os' = disk
    /\ acked' = {r \in acked : Whole(disk, r)}
    /\ UNCHANGED <<process, disk, lastTime, written, entry, aged, booted, errors>>

\* The operating system writes a file back.
WriteBack(t) ==
    /\ disk' = [disk EXCEPT ![t] = os[t]]
    /\ UNCHANGED <<up, process, os, lastTime, history, errors>>

Next ==
    \/ Start \/ Flush \/ Stop \/ Kill \/ PowerFailure
    \/ \E k \in Key :
          \/ WriteBroken(k)
          \/ \E size \in Size :
                Write(k, size) \/ KilledInWrite(k, size) \/ RotateFails(k, size)
    \/ \E t \in Time : WriteBack(t)

Spec == Init /\ [][Next]_vars

\* The daemon keeps ticking as long as the process is there.
FairSpec == Spec /\ WF_vars(Flush)

-----------------------------------------------------------------------------

\* Every variable has its type: the cursor never leaves the segment.
TypeOK ==
    /\ up \in BOOLEAN /\ broken \in BOOLEAN
    /\ mem \in [Key -> 0 .. MaxWrites]
    /\ segment \in 0 .. MaxTime /\ lastTime \in 0 .. MaxTime
    /\ cursor \in 0 .. SegmentSize
    /\ os \in [Time -> [Slot -> 0 .. MaxWrites]]
    /\ disk \in [Time -> [Slot -> 0 .. MaxWrites]]
    /\ written \in 0 .. MaxWrites /\ booted \in 0 .. MaxWrites
    /\ entry \in [Entry -> [key : Key, size : 0 .. SegmentSize, meta : Seq(0 .. Base - 1)]]
    /\ acked \in SUBSET Entry /\ aged \in SUBSET Entry
    /\ sequenceId \in Nat /\ errors \in 0 .. MaxErrors

\* No acknowledged record is lost or overwritten by rotations, failed rotations,
\* kills and restarts: the log has them all (while the power stays on).
AckedLogged == \A r \in acked : Whole(os, r)

\* What a power failure may take was not yet acknowledged at the last tick of the
\* daemon of its process: the rest is on the disk, in closed segments as well.
LossBounded == \A r \in aged : Whole(disk, r)

\* A GET answers with the last acknowledged SET of the key in the life of the
\* process, and that value is in the log: a SET that raised leaves no trace.
ReadsLastAcked ==
    up => \A k \in Key :
        LET mine == {r \in Mine : entry[r].key = k}
        IN  /\ mem[k] = 0 <=> mine = {}
            /\ mine # {} => /\ mem[k] \in mine
                            /\ \A r \in mine : r <= mem[k]

IdIn(meta) == Unpacked(LogEntryMeta, meta).seq_id

SeqId(r) == IdIn(entry[r].meta)

\* Within a segment the sequence ids that a reader unpacks increase ("w ramach
\* segmentu"), whatever SETs raised and processes restarted.
SequenceIncreases ==
    \A t \in Time : \A i, j \in Slot :
        LET q == os[t][i]
            r == os[t][j]
        IN  i < j /\ q # 0 /\ r \notin {0, q} => SeqId(q) < SeqId(r)

\* Every acknowledged record reaches the disk, whatever segment it is in, if its
\* process lives.
EventuallyDurable ==
    \A r \in Entry : up /\ r \in Mine ~> Whole(disk, r) \/ ~up

=============================================================================
