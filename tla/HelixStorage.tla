---------------------------- MODULE HelixStorage ----------------------------
(***************************************************************************)
(* The state file of one Helix node (helix/storage.py), system call by     *)
(* system call, with what the operating system serves and what the disk    *)
(* holds kept apart: a killed process loses its memory only, a power       *)
(* failure also loses what the disk does not hold.                         *)
(*                                                                         *)
(* The i-th record that the node saves is the number i, and so is the file *)
(* it is written to; 0 is no file, which load_state reads as (0, None).    *)
(***************************************************************************)
EXTENDS Naturals

CONSTANTS
    MaxSaves,    \* bound: records the node saves
    MaxCrashes   \* bound: kills and power failures together

ASSUME BoundsNat == MaxSaves \in Nat /\ MaxCrashes \in Nat

VARIABLES
    pc,       \* how far save_state is, or "down": there is no process
    record,   \* the record being saved, or saved last
    acked,    \* history: the record of the last save_state that returned, or
              \* loaded, since the machine started
    name,     \* the file that self.path names for the operating system
    nameDisk, \* and on the disk
    whole,    \* the files whose bytes the operating system has
    synced,   \* and the disk
    crashes

storageVars == <<pc, record, acked, name, nameDisk, whole, synced, crashes>>

files == <<name, nameDisk, whole, synced>>

StorageInit ==
    /\ pc = "idle"
    /\ record = 0 /\ acked = 0
    /\ name = 0 /\ nameDisk = 0
    /\ whole = {} /\ synced = {}
    /\ crashes = 0

\* save_state opens a temporary file, truncated: it has no bytes yet.
Open ==
    /\ pc = "idle" /\ record < MaxSaves
    /\ pc' = "opened"
    /\ record' = record + 1
    /\ UNCHANGED <<acked, files, crashes>>

\* json.dump and f.flush.
Write ==
    /\ pc = "opened"
    /\ pc' = "written"
    /\ whole' = whole \cup {record}
    /\ UNCHANGED <<record, acked, name, nameDisk, synced, crashes>>

NoFsync ==
    /\ pc = "written"
    /\ pc' = "synced"
    /\ UNCHANGED <<record, acked, files, crashes>>

\* os.fsync of the temporary file.
Fsync ==
    /\ pc = "written"
    /\ pc' = "synced"
    /\ synced' = synced \cup {record}
    /\ UNCHANGED <<record, acked, name, nameDisk, whole, crashes>>

RemoveThenReplace ==
    \/ /\ pc = "synced" /\ name # 0
       /\ name' = 0
       /\ UNCHANGED <<pc, record, acked, nameDisk, whole, synced, crashes>>
    \/ /\ pc = "synced" /\ name = 0
       /\ pc' = "replaced"
       /\ name' = record
       /\ UNCHANGED <<record, acked, nameDisk, whole, synced, crashes>>

\* os.replace.  Nothing syncs the directory: the disk learns the new name
\* later (FlushDirectory).
Replace ==
    /\ pc = "synced"
    /\ pc' = "replaced"
    /\ name' = record
    /\ UNCHANGED <<record, acked, nameDisk, whole, synced, crashes>>

\* save_state returns, and the node acts on what it saved.
Return ==
    /\ pc = "replaced"
    /\ pc' = "idle"
    /\ acked' = record
    /\ UNCHANGED <<record, files, crashes>>

\* A system call of save_state raises OSError.
Raise ==
    /\ pc \in {"opened", "written", "synced"}
    /\ pc' = "idle"
    /\ UNCHANGED <<record, acked, files, crashes>>

\* The operating system writes the directory back.
FlushDirectory ==
    /\ nameDisk # name
    /\ nameDisk' = name
    /\ UNCHANGED <<pc, record, acked, name, whole, synced, crashes>>

Die == pc' = "down" /\ crashes < MaxCrashes /\ crashes' = crashes + 1

\* The process is killed.
Kill ==
    /\ pc # "down"
    /\ Die
    /\ UNCHANGED <<record, acked, files>>

\* The machine stops: the operating system starts again from the disk.
PowerFailure ==
    /\ Die
    /\ name' = nameDisk
    /\ whole' = synced
    /\ acked' = 0
    /\ UNCHANGED <<record, nameDisk, synced>>

\* load_state: a missing file and a file that is not JSON are both (0, None).
Loaded == IF name \in whole THEN name ELSE 0

\* A new process begins with load_state.
Start ==
    /\ pc = "down"
    /\ pc' = "idle"
    /\ acked' = Loaded
    /\ UNCHANGED <<record, files, crashes>>

StorageNext ==
    \/ Open \/ Write \/ Fsync \/ Replace \/ Return \/ Raise
    \/ FlushDirectory \/ Kill \/ PowerFailure \/ Start

StorageSpec == StorageInit /\ [][StorageNext]_storageVars

-----------------------------------------------------------------------------

\* Every variable has its type.
StorageTypeOK ==
    /\ pc \in {"idle", "opened", "written", "synced", "replaced", "down"}
    /\ {record, acked, name, nameDisk, crashes} \subseteq Nat
    /\ whole \in SUBSET Nat /\ synced \in SUBSET Nat

\* The state file is an old one or the new one, never a damaged one, after a
\* kill or a power failure at any point ("plik albo jest stary, albo nowy").
NeverTorn == (name # 0 => name \in whole) /\ (nameDisk # 0 => nameDisk \in synced)

\* Whatever a restarted node would load is at least as new as what the node has
\* acted on since the machine started: no kill makes it vote again in a term in
\* which it has voted.
SavedVoteSurvives == Loaded >= acked

=============================================================================
