# Specifications of the python-portfolio systems

The repository holds five independent systems in pure Python. This directory
keeps TLA+ specifications of them, the TLC configurations that check the
specifications on small instances, and TLAPS proofs of theorems about them for
every instance. `PROJECT.json` maps every definition to the lines it models and
lists runs, findings, hazards and theorems.

To parse, check or prove a module:

    tlasany HelixRaft.tla
    tlc -workers 2 -config helix_elect.cfg MCHelixRaft
    tlapm HelixRaftProofs.tla

## 1. Inventory

| System | Component | State | Operations | What is hard |
|---|---|---|---|---|
| Helix | Raft node, `helix/node.py` | role, term, vote, votes received, leader, deadline | election timeout, three datagram handlers, heartbeats | UDP loss, duplication and delay; a crash or a raising save inside a handler; several leaders |
| | state file, `helix/storage.py` | one JSON file, a temporary one | `save_state`, `load_state` | crash and power failure between system calls |
| | datagrams, `helix/rpc.py` | none | `pack`, `unpack` | truncated and foreign datagrams |
| Nebula | graph store, `core/storage.py` | nodes, edges, two adjacency maps, two counters | add and delete nodes, add edges, iterators | consistency of four structures through cascades; readers without the lock |
| | property index, `index/inverted.py` | value to set of ids, per property | create, drop, hook, search | kept by its callers, in calls of their own |
| | execution, `main.py` | candidates of a query | search, scan, fetch | runs between other threads' writes, over a dictionary that moves its entries; two ways to answer |
| | parser, `query/parser.py` | tokens, position | tokenise, parse | what is refused, what is ignored |
| | traversals, `core/algorithms.py` | queue, costs, predecessors | `bfs`, Dijkstra (the depth-first search of its docstring does not exist) | negative weights, live iterators |
| | cluster node, `cluster/raft.py` | role, term, leader, deadline | main loop, `on_message` | never elected with peers; stale messages |
| Hyperion | engine, `storage/engine.py` | shards, sequence id | start, stop, write, read | restart, a SET that raises |
| | write-ahead log, `storage/wal.py` | mapped segment, cursor | append, rotate, sync, daemon | what is on the disk when; a failed rotation; names of segments |
| | server, `network/server.py` | connections by peer name | framing, SET, GET, STATS | frames in pieces, connections that end anywhere, slow readers, one name twice |
| | protocol, `core/protocol.py` | compiled layouts | pack, unpack | field order and widths |
| | telemetry, `utils/telemetry.py` | counters, gauges | increment, render | one lock, nothing hard |
| Ouroboros | compiler, `ouroboros/compiler.py` | code, constants, names, labels, jumps | tokenise, generate, fix jumps | which branch an instruction takes; 16-bit arguments |
| | virtual machine, `ouroboros/vm.py` | stack, globals, ip | one step per instruction | stack underflow, jumps |
| Synapse | tensors, `synapse/tensor.py` | data, gradient, graph | operations, `backward` | order of the topological sort; reuse of a graph; a `backward` that is not on a loss, or raises half-way |
| | optimiser, `synapse/optim.py` | parameters | step, zero_grad | what is reset and what is not |

Interaction. Helix nodes share nothing but datagrams; a node calls its storage
synchronously and acts on the vote once the call returns. In Nebula the caller
of the store tells the index, the engine reads both, and only the store and
each index have locks. In Hyperion the server awaits the engine, which appends
to the log and then puts into a shard; the flush daemon is a task of the same
event loop. The other parts are called and return.

What makes each component correct: one leader per term, elected by a majority,
and votes that survive restarts (Helix); adjacency maps that mirror the edges,
no dangling edge, the capacity (store); distances and shortest paths, also when
the store changes under the reader (traversals); complete and right answers
(queries); a leader of its own terms only (cluster node); acknowledged records
that stay in the log and reach the disk, reads of the last acknowledged value,
an answer to every request and to the right one (Hyperion); code that does what
the source says (Ouroboros); and gradients that do not depend on the order of evaluation
(Synapse).

## 2. Modules

| Module | Models | Role |
|---|---|---|
| `TermVoting` | the promise of a leader election | abstract specification |
| `HelixRaft` | `node.py` | all callbacks of all nodes, the network, crashes; implements `TermVoting` |
| `HelixRaftInv` | | the inductive invariants of `HelixRaft` |
| `HelixStorage` | `helix/storage.py` | the saves of one node, by system call |
| `PropertyGraph` | the promise of a graph store | abstract specification |
| `NebulaGraph` | `core/storage.py` | implements `PropertyGraph` |
| `NebulaScan` | `bfs` of `algorithms.py`, `iter_out_edges` | extends `NebulaGraph` by a reader that takes no lock |
| `NebulaPaths` | Dijkstra of `algorithms.py` | operators on the stores that `NebulaScan` reaches |
| `NebulaParser` | `query/parser.py` | operators: tokens to trees |
| `NebulaQuery` | `index/inverted.py`, `execute` of `main.py` | extends `NebulaParser`; readers and writers interleaved |
| `NebulaRaft` | `cluster/raft.py` | one node and the messages that reach it; implements `TermVoting` |
| `HyperionProtocol` | `core/protocol.py` | operators: layouts, packing |
| `HyperionLog` | `wal.py`, `engine.py` | extends `HyperionProtocol`; processes that start, write, rotate, flush and die |
| `HyperionServer` | `network/server.py` | connections, clients and commands over the engine |
| `HyperionFrames` | frames as `core/protocol.py` documents them | extends `HyperionServer` by clients that send a checksum too; the run of the server is of it |
| `Ouroboros` | `compiler.py`, `vm.py`, `opcodes.py` | compilation as operators, the machine as actions |
| `Synapse` | `tensor.py`, `linalg.py`, `optim.py` | graphs, `backward` step by step, the optimiser |
| `MC...` | | constants and symmetry for TLC |
| `HelixRaftProofs` (with `TermVoting` and `HelixStorage`), `NebulaGraphProofs` (with `NebulaScan` and `NebulaPaths`), `NebulaQueryProofs` (with `NebulaParser`), `NebulaRaftProofs`, `HyperionLogProofs`, `HyperionServerProofs`, `OuroborosProofs`, `SynapseProofs` | | theorems |

In several modules an operator precedes another one, has the same parameters
and is not used. It is what a plausible bug would make of its neighbour, and is
put in the neighbour's place to see that a property notices.

### Helix

*State.* The fields of `RaftNode` are functions from nodes; `loop` and `hbTask`
say whether the two asyncio tasks of a node are there. `file` is the state file,
`net` the datagrams in flight. `votes` and `elected` are history: votes cast
and elections won.

*Actions.* One event loop runs each node and no handler awaits between two
changes of state, so a callback is one action: `BecomeCandidate`, `Heartbeat`,
`FirstHeartbeat` (the task that a new leader creates) and six outcomes of
`handle_message`. Each outcome contains the adoption of a newer term that comes
first. A save that raises ends the callback where it is called
(`CandidateSaveFails`, `StepDownSaveFails`, `GrantSaveFails`), and a crash
either falls between two callbacks (`Restart`), which covers a crash after the
last save of a handler since an unsent answer is a lost one, or between the two
saves of a vote in a new term (`CrashInHandler`).

*Network.* `net` is a set; `Deliver` may keep the datagram (a duplicate, at most
`MaxDuplicate` times) and `Lose` drops one. A datagram may stay in flight for
ever, so delay and reordering need no action. Deadlines may pass at any moment.

`HelixStorage` opens up the save that `HelixRaft` takes as one step: opening,
writing, syncing and renaming are actions, and what the operating system has is
kept apart from what the disk has. It justifies the crash actions of `HelixRaft`
for killed processes (`SavedVoteSurvives`); a power failure starts the account
of what the node has acted on anew.

### Nebula

`NebulaGraph` has the four structures and the two counters of `GraphStorage`.
Every writer holds the lock throughout, so an operation is one action;
`DeleteCascade` follows the two loops of `delete_node` in their order, the
second one over lists that the first one has shortened already (self-loops). A
list is the set of its edges: edges are appended with increasing ids and never
moved. Whether a map *has a key* is state of its own, since `delete_node`
decides by it.

`NebulaScan` adds a reader to it. `bfs` is a generator, so its consumer may hold
it at every `yield` while others write, and inside it `iter_out_edges` walks the
list of a node without the lock. A list iterator is a position: `Write` is any
step of `NebulaGraph`, and moves the list under it. When a list loses its key in
`_out_edges` the reader keeps the object, which is as it was if the node was
deleted (the key is removed first) and empty if its last edge was (`live`).
`NebulaPaths` writes the loop of Dijkstra as a recursive function of the number
of turns; the reference, `Walks`, collects what walks cost, which grow by one edge at a
time, and knows nothing of a heap.

`NebulaParser` goes from tokens to the tree, or to a `SyntaxError`. `NebulaQuery`
runs the trees: a query searches, scans and fetches in steps of its own, while
others add nodes, call the hook, delete, create and drop the index. The dictionary
of nodes is modelled as CPython has it: a sequence of entries, of which `place` says
where each node is and `filled` how many there are. A deletion leaves an empty entry,
and an addition may find the entries used up and lay all out anew without the empty
ones (`Packed`); since the size of a table is CPython's affair, any addition may. The
iterator of the scan is a position in the entries. It looks at the length of the
dictionary and at how many nodes it has given, and at nothing else: if either is wrong
it raises (`ScanRaises`), but an addition that hides a deletion and moves the entries
makes it pass over nodes that were there all the time. `skipped` remembers them, and
`cut` that a node was deleted under the scan.

`NebulaRaft` is one node: the class sends nothing, so messages are any that other
software could send. The main loop is cut at its two sleeps (`pc`), and the one in
the middle of a candidacy is where a message of a newer term gets in.

### Hyperion

A record fills slots of a segment. `os` is what the page cache has, `disk` what
a sync or a write-back has put there. A SET is one action since the shard locks
are never contended; it appends, or syncs and closes the segment, opens the next
one and appends. A rotation that fails leaves the closed segment in place
(`broken`): every later SET raises until a restart. `acked` and `aged` are
history: records acknowledged, and acknowledged before a tick of the daemon of
the same process. A power failure takes what it destroys out of `acked`, and
`LossBounded` says that nothing of `aged` is ever among it.

The header of a record is the bytes that `LogEntryMeta.pack` makes, with the
widths of the code and bytes of two values in the run (`Base`); its sequence id is
read back from them. The time in it is the name of its segment.

`HyperionServer` is on top: a coroutine per connection that waits in `readexactly`
for a header or a payload, in `drain`, or for its connection to be closed. Nothing
in `process_command` really waits, so a command is part of the step that reads its
payload. Clients are modelled by what they can do to the stream: send the bytes of
a frame in pieces, begin on the next frame before they read an answer, close,
reset, and let answers lie in the write buffer. `data` and `entry` are the engine,
reduced to what a read finds; a write may raise after it has taken its sequence
id, as `HyperionLog` shows in detail. Two connections may have one peer name: a
client port bound once can reach the server at two of its addresses. A frame is a
header and a payload, as the server reads it. `HyperionFrames` has clients that end
their frames with a CRC32, as `protocol.py` says; nothing in the repository sends one.

### Ouroboros

`Compiled` is the whole of `compile`, one iteration of `_generate` at a time;
`Init` compiles a program and loads it, and each action executes one kind of
instruction, `Raise` standing for every exception. Bytes are numbers, so an
opcode can be read as an argument and the other way round, which is what happens
after a jump. The tokeniser's words are looked up in the opcodes in upper case
(`Word`): a variable `add` behind a `LOAD` is told from the instruction by its place
only. `Meaning` is the reference: what the statements of a program say,
without bytes, tables or an instruction pointer. The machine does not know `DIV`,
`CALL` and `RET`, though the documentation has them; nothing is claimed of programs with
them (`Implemented`).

### Synapse

Tensors are numbered as they are made. The recursion of `build_topo` is a
stack, `path`, and `Visit` takes any parent that is left, since the parents are
a Python set; `Return` ends a call, and the outermost one gives the tensor of
the call the gradient `[[1.0]]`. That may be any tensor: a parameter, a row, a
matrix. `Propagate` runs one closure. From a tensor that has more than one entry
closures meet gradients that are too small for them. They then add what there is, or
raise (`Fits`, `Raise`), with the gradients of both parents made and that of the
first perhaps added to; and `step` raises at the first parameter whose gradient is
too small (`Misfits`), those before it being changed. The program goes on after an
exception. The reference, `Derivative`, computes the derivative forwards, with an
independent set of rules. `clean` is history and no guard: it says whether the
program has kept, since the last `zero_grad`, to what the framework relies on and
nowhere checks: `backward` is called on results of one entry (`Loss`), and goes
through tensors that no other has been through and that were computed after the last
`step`. Operands of `+` and `*` have one shape (of a larger second operand the code
drops what is outside the first), and the recursion has no limit.

## 3. Runs

All runs say `CHECK_DEADLOCK FALSE`: the bounds on terms, ids, records, frames
and messages let every instance come to rest.

| Run | Instance | Shows |
|---|---|---|
| `helix_elect` | 3 nodes, 2 campaign and may be exchanged (symmetry), 2 terms, 1 restart, 1 duplicate, 1 raising save; no files, or files as those in `src/data` that vote for either | `TypeOK`, `OneLeaderPerTerm`, `LeaderHasMajority`, `VoteRemembered`, `LeaderIsElected`, `FileForward` |
| `helix_split` | 3 nodes, 2 campaign, loss | `SplitBrainHeals`, and `ElectionImplemented`: the cluster implements `TermVoting` |
| `helix_dup` | 4 nodes, one duplicate | **violates** `LeaderHasMajority` |
| `helix_file` | 4 saves, 3 kills or power failures | `NeverTorn`, `SavedVoteSurvives` |
| `nebula_graph` | capacity 3, 4 node ids, 3 edge ids of weights 2, 0 and 1, depth 2, 3 writes during a traversal | `ListsMatchEdges`, `KeysMatchLists`, `GraphImplemented` (the store implements `PropertyGraph`, so no edge dangles), `DepthsAscend`, `DepthsAreDistances`, `MissesOnlyShifted`, `PathsAreShortest` |
| `nebula_query` | 1 reader, 3 nodes, a dictionary that may be laid out anew at each addition, 2 labels, 2 values; every sentence of the grammar and its variants with a token missing, doubled, changed over, illegal or added | `FindsWhatIndexKnows`, `AnswersFitValue`, `UnderstoodAsWritten` |
| `nebula_raft` | a node with a peer or none, 4 messages of terms up to 3 | `LeadsOwnTerm`, `LoneNodeLeads`, and `ElectionImplemented`: the node implements `TermVoting` |
| `hyperion_log` | 3 records of 1 or 2 slots, segments of 3, 3 segments, kills, power failures, 2 raising SETs | `TypeOK`, `AckedLogged`, `LossBounded`, `ReadsLastAcked`, `SequenceIncreases`, `EventuallyDurable` |
| `hyperion_server` | 2 connections of one name, 2 of 10 kinds of frame and of two of them with a CRC32, pieces of 4 bytes, 1 raising write | `TypeOK`, `AnswersMatch`, `ReadsAreFresh`, `BufferBounded`, `NothingAfterChecksum`, `EventuallyAnswered` |
| `obs_run` | all programs of up to 3 of 14 statements, all of up to 5 that begin with a PUSH, and two with jumps | `TypeOK`, `StraightLineAsMeant` |
| `obs_jump` | `example_script.obs` | **violates** `ProgramAsMeant` |
| `synapse` | a row and a column of two; 3 operations and 2 calls, 2 and 3, or 1 and 4 | `GradientReady`, `NothingRaises`, `GradientsExact` |

*Bounds.* Two campaigning nodes and two terms give competing elections, an
election that outdates another and answers to an older candidacy; three nodes
make a quorum that one answer fills, so that one wrong count elects. The
duplicate needs a quorum of three, hence the four nodes of `helix_dup`. Three
edges over four nodes give self-loops, parallel edges and a cascade that
touches both maps of a neighbour, a detour that is cheaper than an edge (0 and 1
against 2), and a list that shifts under its reader with an edge before and one
after the position; ids beyond the capacity of three make deletions free places.
Depth 2 is where the order of the queue shows. Three nodes are what a late index
needs: one it has missed, one it has, and one more to change the store during a
query; they are also what the dictionary needs to skip a node: the first is scanned
and deleted, the second moves into its place, the third hides the deletion. Four messages are enough to break off a candidacy, put off a deadline twice
and name another leader. Two frames let a second one be sent before the first is
answered, on the same connection or the other; a header has three numbers, so that
pieces of four cut headers and payloads apart at every place; the high-water mark
of 0 makes the buffer stop a handler after each answer, and the longest acceptable
payload, `|` in a value and an empty value occur. Records of
one and two slots in segments of three leave a gap, fill a segment exactly and
force a rotation; three segments leave room for a process after a rotation and
a kill. Five statements let a value be pushed, stored, loaded, combined and
printed, with a variable that is named like an opcode; the two programs with
jumps are there to run the jump instructions. Three operations make a tensor
with two consumers of which one uses the other (the shape that a wrong order
breaks), a product of a tensor with itself, and all matrix shapes of a row and a
column, with two calls of `backward` that share parameters. Three and four calls on
smaller graphs make a `backward` that leaves a gradient of a wrong shape, or raises, then a `zero_grad`,
a `backward` of another graph and a `step`.

*Fairness.* `FairSpec` of `HelixRaft` asks that a node's loop keeps running
(weak fairness; asyncio runs what is due) and that, of the datagrams that keep
coming from one node to another, some are handled (strong fairness per link:
loss is allowed, a link that is dead for ever is not). Nothing forces an
election to be won: two candidates may outdate each other for ever, which the
randomised deadlines make unlikely and not impossible, so the liveness
property is one that does not depend on luck. `FairSpec` of `HyperionLog`
asks that the daemon keeps ticking, which its loop does while the process is up.
That of `HyperionFrames` asks that the event loop resumes handlers that can go on,
that a client finishes a frame it has begun and that it takes answers that are
there, unless it closes or resets; nothing makes a client send. That of
`NebulaRaft` is that time passes and sleeps end; its messages are bounded, so they
end as well, and `LoneNodeLeads` says what is left afterwards.

## 4. Findings

Shown by a run:

1. **Votes are counted by datagram** (`node.py:169`): the sender of a
   `VOTE_RESP` is not looked at, so a duplicate elects a leader without a
   quorum in clusters of four or more (`helix_dup`).
2. **Jumps have no target** (`compiler.py:96`): the shipped example raises after
   its first line of output (`obs_jump`).

Seen while modelling, in the model as in the code, without a run:

3. `DIV` is unknown to the machine (`vm.py:100`), though `opcodes.py:11` lists it as
   arithmetic. The same holds of `CALL` and `RET` (`opcodes.py:14`): there is no call
   stack, which `vm.py:7` and `ouroboros_vm/README.md:22` speak of. A program with one of
   them raises there, and `StraightLineAsMeant` leaves it out.
4. The documented checksum of a frame is not read (`server.py:105`; `protocol.py:16`):
   the server takes it for the beginning of the next header, so it answers the first
   documented frame of a connection and closes the connection at the second.
   `EventuallyAnswered` has the exception, and `NothingAfterChecksum` says that no
   answer goes astray.
5. A SET is acknowledged before it is on the disk (`engine.py:162`), which
   `README.md:15` of the repository calls strict durability. What holds is `LossBounded`.
6. A gradient has not always the shape of its data (`tensor.py:194`), as `tensor.py:37`
   says it has: `backward` gives any tensor `[[1.0]]`.
7. An index made late hides nodes (`inverted.py:85`): it starts empty, and a query
   trusts it once it has a hit. `FindsWhatIndexKnows` says which nodes are missed.
8. A query that scans passes over nodes, without a sound, when a node was deleted and
   another added under it and the dictionary has closed the gap (`main.py:81`,
   `core/storage.py:150`); otherwise it raises `RuntimeError`. `FindsWhatIndexKnows`
   says that nothing else makes it miss nodes.
9. The directory is not synced after the rename of the state file
   (`helix/storage.py:46`): a power failure may bring back an earlier vote.
10. The index is not told of deletions, so a later query seeks a deleted node and
    raises (`main.py:100`); and its hits are not compared with the label of the
    query (`main.py:70`).
11. The parser stops after the variable of `RETURN` (`parser.py:149`): an `AND`
    and all that follows is ignored, and so is a variable that is not that of
    `MATCH`. A `WHERE` about another variable keeps the index out of the plan and is
    applied by the scan all the same (`main.py:88`). The comment of `parser.py:42`
    lists `<`, which the lexer refuses as illegal.
12. `iter_out_edges` skips an edge when an earlier one of the same list is deleted
    (`core/storage.py:164`), and `bfs` yields nodes that are gone.
    `MissesOnlyShifted` says that nothing else is missed.
13. With negative weights the chain of predecessors of Dijkstra may be a cycle,
    which the reconstruction never leaves (`algorithms.py:77`).
14. A cluster node with peers that times out stays a candidate until a newer term
    comes (`raft.py:109`): it asks nobody for votes. An `APPEND_REQ` of an older term
    puts the deadline off and names a leader, also to a leader (`raft.py:137`).
15. The tail of a killed process's segment is nobody's (`wal.py:186`): ticks of
    later processes do not sync it, so the bound of `wal.py:243` on what a power
    failure takes holds within the life of a process only.
16. Nothing is replayed at the start (`engine.py:122`); `README.md:15` of the repository
    speaks of crash recovery.
17. The classes that `BinaryMeta` makes are called by the name of their last
    field: the loop of `protocol.py:171` reuses `name`.
18. Of two connections with one peer name, the first to end takes the entry of the
    other, whose handler ends with a `KeyError` (`server.py:141`). An empty value is
    stored and then answered as `ERR_NOT_FOUND` (`server.py:173`).
19. A second `backward` through a graph starts from the inner gradients of the
    first (`optim.py:39` resets parameters only) and counts it again.
20. A `backward` on a result of several entries may raise half-way
    (`tensor.py:198`), with gradients behind it that stay, or may give a part of the
    entries their due only. `NothingRaises` says that a `zero_grad` is enough to be
    rid of them.
21. A text with spaces is cut up by the tokeniser (`compiler.py:64`). The index of a
    constant or a name beyond 65535 is cut to two bytes (`compiler.py:158`), so the
    program runs with another one; the theorems assume smaller tables.

Read in the code, and outside of the models:

22. `algorithms.py:51` names `EdgeID` in an annotation and line 20 does not import it:
    where annotations are evaluated at once, importing the module raises `NameError`.
23. `server.py:10` speaks of timeouts against slow clients, and `server.py:11` of hard
    limits on connections; there are neither. In the model a client may take for ever
    over a frame, as in the code.
24. `README.md:48` of the repository speaks of higher-order derivatives, and `:50` of
    broadcasting. Gradients are plain lists without a graph, and `linalg.py` has no
    broadcasting.
25. `build_topo` calls itself (`tensor.py:187`), so a chain of about a thousand
    operations ends in a `RecursionError`.
26. The directory entry of a new segment is never synced (`wal.py:78`): a power failure
    may take the file with all that was synced to it. `HyperionLog` takes names for
    durable.

## 5. Proofs

*TermVoting*, for a finite cluster and any terms that are numbers (the section of
`HelixRaftProofs` on the abstract election by itself). `OneLeader`: two majorities of
a finite set share a voter (`MajoritiesMeet`, from the cardinality of a union), that
voter cast one vote in the term, so there is one leader. The invariant adds that votes
are unique and that every leader has a majority. The lemmas on majorities are those
that `ElectionSafety` of the cluster uses.

*HelixRaft*, for every cluster, set of initial files and bounds. `Durable`
(module `HelixRaftInv`) is inductive with no assumption on the network or on
failing saves. Its core is `MemoryAhead`: a node's memory is never behind its
disk, and where the terms are equal the disk holds the vote of the memory or
none. Without it a grant could overwrite a saved vote after a failed save; with
it `VoteRemembered`, `FileForward` and the uniqueness of votes follow.
`LeadersWon` says that whatever speaks for a leader has won its term, from which
`LeaderIsElected` follows.

`Tally` is inductive on top of `Durable` if no datagram is delivered twice
(`ASSUME MaxDuplicate = 0`; `helix_dup` shows that the assumption is needed).
`TallyHonest` bounds the count of a candidate by the voters whose answers have
left the network, which needs that a request still in flight is unanswered
(`RequestsOpen`) and that no vote is ahead of its candidate's disk
(`CandidatesSaved`), or a restarted candidate could take a late answer for one
to its new request. From `Tally`: `LeadersHaveMajorities`, `ElectionSafety` and
`ImplementsElection`, the step-by-step refinement of `TermVoting`.

*HelixStorage* (the last section of `HelixRaftProofs`). `FileNeverTorn` and `KillsForgetNothing`, for any number of
saves, kills and power failures: names never get ahead of bytes (`Written`), nor
the node ahead of the name (`NameAhead`).

*NebulaGraph.* `Inv` joins the two mirrors, the keys, the absence of dangling
edges and the freshness of ids. The lemma `CascadeEffect` computes what the two
loops of `delete_node` leave; everything else, the refinement of `PropertyGraph`
included, follows from it.

*NebulaQuery*, for any readers and texts whose labels and values are of the
instance (`TextsOK`), and any bound on nodes. Two facts join the index to the store:
an index lists a node only under the node's own value (`ItemsRight`), and lists
every node that neither waits for its hook nor was missed (`Indexed`). With them a
query that the index answers starts with all that it owes but what was missed;
a query that scans has each node that it owes in hand, among those skipped, or in an
entry still ahead of it (`InSight`), because each node has an entry to itself (`Placed`)
and a dictionary laid out anew keeps their order (`Ranked`); and what it has in hand
keeps its value, because nodes never change theirs (`InHand`). That skipped nodes take a
deletion is a matter of lengths (`Grows`): without one the dictionary only grows, a node
skipped means that it has grown, and then the iterator raises. `IndexedFound` and
`AnswersRight` follow, whatever the writers do, and whenever the dictionary is laid out
anew.
`ParsesWhatIsWritten` is about the texts alone, of any length and over any tokens that
the lexer tells apart (`TokensOK`; `TextsOK` says that a text has its sentence and what
follows it, `MaxNodeOK` that ids are numbers): the parser accepts a text exactly when it
has no illegal character and begins with a sentence of the syntax, and its tree is that
of the sentence.

*NebulaRaft*, for any bounds and any peers. `Inv` joins the types, `LeadsOwnTerm`
and what bounds the terms: only a follower begins a candidacy, and a follower is of
a term that it has heard of, so terms end one above `MaxTerm`; and no candidacy was
of a later term than the present one, so a new one is of a new term.
`ImplementsElection` maps a candidacy to a vote for oneself, which is a majority of
one.

*NebulaScan*, for any store, any `MaxDepth` and any writes. `ScanInv` has two cores.
`Breadth`: what is queued is at the depth of the current node or one below, in rising
order, and a node is yielded or queued once; `DepthsAlwaysAscend` follows, and needs
nothing of the store but that lists hold edges. For `OnlyShiftedMissed` the iterator
has to be followed through a list that changes under it. `Walking` says, of the
current node and as long as none of its edges is gone, that the list still has all
edges there were at the call and that the ends of those before the position have been
visited. The position of an edge is the number of edges with smaller ids (`Rank`), and
a write that deletes none of them leaves all positions as they were, since new ids are
beyond all (`Grown`). `Exhaust` makes of it that the node is settled (`LeftBehind`).
`DepthsAlwaysDistances` says of a traversal that nobody has disturbed that each node is
yielded at its distance: a node in hand is reached by a walk of its depth and by none that is
shorter, because the nodes of each depth are complete before the next begins.

*NebulaPaths*, for any store that writes lead to, any two of its nodes and any weights
that are not negative. `Priced` is the invariant of the loop: a node found that has not
been popped is in the heap at its cost, nothing in the heap costs less than what has been
popped, and each edge out of a node popped has been relaxed. So an edge that improves
never leads to a node popped (`RelaxPrices`), and a walk that ends beyond the nodes popped
costs no less than the top (`WalksBounded`): the target costs what the cheapest walk does
when it comes to the top. `Led` says that the predecessors lead back to the start, at
costs that add up and in fewer steps than there are nodes, so `Backtracked` ends at the
start and its edges cost just that (`WayFound`). `Left` counts pairs in the heap and edges
still to relax; each turn makes it less, so the number of turns in `ShortestPath` is
enough (`Searching`). `PathsAlwaysShortest` joins them.

*HyperionLog*, for any keys, sizes of records and segments, and any bounds. A file has
the whole of a record or nothing of it (`Entire`), the disk is never ahead of the
operating system (`DiskBehind`), and what lies behind the cursor or in segments to
come is free (`Free`); so it is enough to follow which files have a record.
`NextTick` is the strengthening that `LossIsBounded` needs: what a process has
acknowledged is on the disk already, or in the one segment that the next tick syncs,
because a rotation syncs what it closes. `SequencesIncrease` is about the ids that a
reader unpacks from the bytes of a header. What the layout does is computed field by
field; that the bytes of a number give back the number (`MetaReadBack`) is an induction
over its digits, for any base of at least two and any number below the power of the base
that the field has room for. `IdsFit` says that the ids do have room: the counter is
advanced by SETs and by raising SETs only. The theorem adds that the counter stays ahead
of every record of the open segment (`CounterAhead`), whatever SETs raise and processes
restart. `LogTypeCorrect` types the packed headers with the rest of the state.

*HyperionServer*, for any connections, peer names, frames, pieces and marks. Its
constants are those of the code but for what the model leaves open: the separator is
in no key, and is neither the byte of a SET without one nor the byte that no text has
(`ConstantsOK`). `InStep` is about the bytes of a connection: what the handler has not
run (a header that it has read already, put back in front of what has arrived and of
what its client still sends) starts with the frames after the last answered one, whole
and in their order. A piece that arrives and each `readexactly` move a cut and no
byte; a frame sent ahead goes to the end. `AnswersAlwaysMatch` is then a matter of one
frame, whose payload is decoded and cut at its first separator. `ReadsAlwaysFresh`
needs that the engine has, for each key, the newest of all values ever answered for
(`Newest`), and therefore of what any client knew when it asked (`KnownHeld`).
`NamesAlwaysLive` is inductive once an entry is known to be of a connection of that
name (`Named`), and `BufferAlwaysBounded` once a handler that reads is known not to be
paused (`Buffered`).

*Ouroboros*, for any programs without jumps. `RunsAsMeant` is the correctness of compiler
and machine together: a program of any number of statements ends with the output, the
values and variables, and the kind of ending that its statements mean. It has two parts.
`CodeLies` is about the compiler: the tokens of a program lie one statement after the other
(`Laid`); behind the tokens of a statement the compiler has emitted its instruction where
the code ended (`Lies`), with an index at which the table has its argument; and since code
and tables only grow (`GoesOn`), it lies there in the end as well. Indices are cut to two
bytes, so the tables may have no more entries than that (`TablesFit`; the comment of
`_emit_arg` says as much). `Steps` is about the machine: it is where the reference is
behind some number of statements (`On`; of programs that are `Implemented`), what it decodes there is that statement
(`Decodes`), and its step is that of the reference or ends as the reference does. Labels
emit nothing, so the machine is at the last of all such places (`Rests`). `TypeCorrect`
is the same invariant read differently: the machine is always where an instruction
begins. Programs with jumps are those of `obs_jump`, and are not what they mean.

*Synapse*, for any parameters and any program. Parameters are matrices of whole numbers
of at least one row and column (`ConstantsOK`) whose rows are as long as the first
(`LeavesAreMatrices`: `Linalg` takes the number of columns from `a[0]`). The program may
call `backward` on any tensor, and go on after an exception. Shapes come first: `MadeIn`
says of every tensor that its parents are earlier and that its shape follows from
theirs, and `Shaped` that a gradient has the shape of its tensor or one entry; what is
added to a gradient does not change its shape (`HeldOn`), also if `backward` ends there
(`RaiseInv`), so `TypesHold`.
For `GradientsReady`, `Descends` says that the calls of `build_topo` under way go from
tensors to parents, so a parent found on the path would be earlier than itself and
`Unvisited = {}` means that all parents are sorted; `Sorted`, that every tensor of `topo`
comes once and after its parents, so nothing that waits adds to the last one; and
`Awaited`, that a tensor of `topo` without a gradient has a child that still waits, so
the last one has its gradient. Nothing depends on the order in which a set gives the
parents of a tensor.

`GradientsAlwaysExact` (`GradientsExact`) compares derivatives taken in two directions:
forwards from each entry of a parameter to all tensors (`Forward`), and backwards by the
closures. What connects them is `Dot`, the sum of the products of two matrices entry by
entry. For every operation, what the closure gives the parents makes, by `Dot`, of the
forward derivatives of the parents what the tensor's own gradient makes of its own
(`Adjoint`); for a matrix product that is the exchange of two sums (`TotalSwap`) on either
side (`DotLeft`, `DotRight`). The invariant, `Exact`, says of each entry of a parameter
that what is owed to it is, between calls, there; while `backward` sorts, there but for
the derivative of the loss; and while it propagates, the sum over the tensors that wait
and the parameters of `Dot` of gradient and derivative (`Still`). A closure does not
change that sum (`HandedOn`; what it computes is whole numbers, `HandedWhole`): its parents' parts grow by as much as its own takes away
(`StillGiven`, `StillTaken`), also when both parents are one tensor. With nothing left to
wait, the derivative of one parameter by an entry of another being zero, the sum is the
gradient of the entry (`StillParams`). For the sum to start right (`StillStarts`) nothing
that the loss is made of may have a gradient but the parameters, which is what `clean`
is for: `Reached` says that only what a `backward` went through has one. For `Dot` to be
right, the gradients that wait have to be of the shapes of their tensors: `Fitting`, as
long as the program is `clean`. It is what a closure and `step` need in order not to
raise (`AllFits`), so `NeverRaises` comes from the same invariant. Gradients of
other shapes, which a `backward` on something else than a loss leaves, stay on tensors
that no `clean` graph goes through.

*Recursion in the proofs.* The reference definitions, the sums and the compiler are
recursive functions on numbers. The induction theorems of the library take an operator as a
parameter, so the modules that need induction prove it over a set instead: a set of
numbers that is not empty has a least one (`Least`, from the well-foundedness of `<`),
hence a set with 0 and with the successor of each of its numbers has all of them
(`Induction`), and a function that is defined by its previous value exists
(`Recursion`). With them a fact about a recursive function is proved along the numbers.

*Only model-checked*:

- the liveness properties (`SplitBrainHeals`, `EventuallyDurable`,
  `EventuallyAnswered`, `LoneNodeLeads`), which TLAPS does not do under fairness;
- `NothingAfterChecksum`, and the invariants of the server with clients that send a
  checksum (the theorems are about `HyperionServer`).

Every other invariant and every action property of a passing run is a theorem. `NamesAreLive`
and the types of `NebulaRaft` and `Synapse` are proved and in no run.

## 6. Not modelled

The byte layout of `rpc.py`, the regular expressions of the lexer, logging, metrics,
timers as numbers, the limit of Python's recursion, the directory entries of new
segments, node properties beyond one, edge types, MVCC versions (never
read), a Dijkstra under which others write, `validate` and the message types
without a user, read-only segments and `read_at` (no caller), texts in Ouroboros
programs, floating point, operands of different shapes, demos and tests. A process
killed in the middle of copying a record is not modelled either: nothing reads
records. Connections of `HyperionServer` do not outlive a process; `HyperionLog` has
the restarts.

## 7. Plan

In this order:

1. An abstract log (a sequence of acknowledged records that a power failure cuts) that
   `HyperionLog` implements.
2. The layout of `rpc.py`; texts in Ouroboros programs.
