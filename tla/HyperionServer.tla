---------------------------- MODULE HyperionServer ----------------------------
(***************************************************************************)
(* The TCP server of hyperion_stream (network/server.py): one coroutine    *)
(* per connection reads frames, runs their commands on the engine and      *)
(* answers.  Clients send frames in pieces, several before they read an    *)
(* answer, close their side or reset the connection whenever they like.    *)
(* They send frames as the server reads them, which is without the CRC32   *)
(* that core/protocol.py documents: that one is in HyperionFrames.         *)
(*                                                                         *)
(* process_command never really waits (the locks of the shards are free    *)
(* whenever anybody asks, see HyperionLog), so a command runs in the step  *)
(* that reads its payload.  A handler stops for bytes, for the buffer to   *)
(* drain and, when it ends, for the connection to be closed.               *)
(*                                                                         *)
(* Bytes are numbers; the fields of a header that the server looks at      *)
(* (magic, type, length) are one number each.                              *)
(***************************************************************************)
EXTENDS Integers, Sequences, SequencesExt

CONSTANTS
    Conn,       \* connections; each is made at most once
    Peer,       \* the peer name of each: equal for two of one client port that
                \* reached the server on two of its addresses
    None,       \* no connection
    Frame,      \* what clients send: kind of command, key and value
    Separator,  \* the byte that ends the key of a SET
    BadByte,    \* a byte that no UTF-8 text has
    MaxPacket,  \* MAX_PACKET_SIZE
    Piece,      \* bytes that arrive at once
    High, Low,  \* answers in the write buffer that stop and restart a handler
    MaxFrames,  \* bound: frames sent, by all clients together
    MaxErrors   \* bound: writes of the engine that raise

\* NOISE has a wrong magic number, HUGE announces more than MAX_PACKET_SIZE; the
\* payload of an UNSEPARATED SET is the byte 1; only a SET and a GET have keys and
\* only a SET has a value.
Ops == {"SET", "GET", "STATS", "UNKNOWN", "UNSEPARATED", "NOISE", "HUGE"}

ASSUME ConstantsOK ==
    /\ Frame \subseteq [op : Ops, key : Seq(Nat), value : Seq(Nat)]
    /\ \A f \in Frame : Separator \notin ToSet(f.key)
    /\ Separator \in Nat \ {1, BadByte}
    /\ None \notin Conn
    /\ {MaxPacket, Piece, High, Low, MaxFrames, MaxErrors} \subseteq Nat
    /\ Low <= High /\ Piece > 0

VARIABLES
    pc,        \* where the coroutine of each connection waits
    head,      \* the header of the frame that it reads
    registry,  \* _active_connections: the connection entered under each name
    paused,    \* whether the transport has told drain to wait
    data,      \* the engine: the sequence id of the value of each key
    entry,     \* history: key and value of each sequence id taken so far
    errors,    \* writes that the engine has refused
    side,      \* of each client: "open", "shut" (it sends no more) or "reset"
    unsent,    \* the bytes that a client still has of the frame it sends
    wire,      \* bytes that have arrived and were not read
    asked,     \* history: frames sent, each with the last SET of its key whose
               \* answer had reached anybody by then
    answers,   \* answers written
    taken      \* how many of them have left the buffer for the client

engine  == <<data, entry, errors>>
client  == <<side, unsent, asked, taken>>
handler == <<pc, head, registry, answers>>
vars    == <<handler, paused, engine, client, wire>>

Names == {Peer[c] : c \in Conn}
NoHead == [type |-> 0, length |-> 0]

Init ==
    /\ pc = [c \in Conn |-> "new"]
    /\ head = [c \in Conn |-> NoHead]
    /\ registry = [a \in Names |-> None]
    /\ paused = [c \in Conn |-> FALSE]
    /\ data = << >> /\ entry = << >> /\ errors = 0
    /\ side = [c \in Conn |-> "open"]
    /\ unsent = [c \in Conn |-> << >>] /\ wire = [c \in Conn |-> << >>]
    /\ asked = [c \in Conn |-> << >>] /\ answers = [c \in Conn |-> << >>]
    /\ taken = [c \in Conn |-> 0]

-----------------------------------------------------------------------------
(* Clients and the network. *)

Magic == 7  \* stands for HPRS
HeaderSize == 3

Payload(f) ==
    CASE f.op = "SET" -> f.key \o <<Separator>> \o f.value
      [] f.op = "GET" -> f.key
      [] f.op = "UNSEPARATED" -> <<1>>
      [] OTHER -> << >>

TypeOf(f) ==
    CASE f.op \in {"SET", "UNSEPARATED"} -> 1
      [] f.op = "GET" -> 2
      [] f.op = "STATS" -> 99
      [] OTHER -> 3

FrameBytes(f) ==
    <<IF f.op = "NOISE" THEN Magic + 1 ELSE Magic, TypeOf(f),
      IF f.op = "HUGE" THEN MaxPacket + 1 ELSE Len(Payload(f))>> \o Payload(f)

\* The last SET of key k whose answer has reached a client, 0 if there is none.
Heard(k) ==
    LET ids == UNION {{answers[c][j].id : j \in 1 .. taken[c]} : c \in Conn}
    IN  Max({0} \cup {id \in ids \ {0} : entry[id].key = k})

Sent == FoldFunction(LAMBDA s, n : Len(s) + n, 0, asked)

\* A client starts on its next frame, whether or not it has read all answers.
\* (What it sends once its handler has stopped reading changes nothing.)
SendBytes(c, f, bytes) ==
    /\ pc[c] \in {"header", "payload", "drain"}
    /\ side[c] = "open"
    /\ unsent[c] = << >>
    /\ Sent < MaxFrames
    /\ unsent' = [unsent EXCEPT ![c] = bytes]
    /\ asked' = [asked EXCEPT ![c] = Append(@, [frame |-> f, known |-> Heard(f.key)])]
    /\ UNCHANGED <<handler, paused, engine, side, taken, wire>>

Send(c, f) == SendBytes(c, f, FrameBytes(f))

\* The next piece of a frame arrives.
Transmit(c) ==
    /\ side[c] = "open"
    /\ unsent[c] # << >>
    /\ wire' = [wire EXCEPT ![c] = @ \o SubSeq(unsent[c], 1, Min({Piece, Len(unsent[c])}))]
    /\ unsent' = [unsent EXCEPT ![c] = SubSeq(@, Piece + 1, Len(@))]
    /\ UNCHANGED <<handler, paused, engine, side, asked, taken>>

\* The client closes its side, in the middle of a frame too, or resets the
\* connection: what has arrived and was not read is then gone.
End(c) ==
    /\ pc[c] # "new"
    /\ \/ /\ side[c] = "open"
          /\ side' = [side EXCEPT ![c] = "shut"]
          /\ UNCHANGED <<unsent, wire>>
       \/ /\ side[c] # "reset"
          /\ side' = [side EXCEPT ![c] = "reset"]
          /\ unsent' = [unsent EXCEPT ![c] = << >>]
          /\ wire' = [wire EXCEPT ![c] = << >>]
    /\ UNCHANGED <<handler, paused, engine, asked, taken>>

InBuffer(c) == Len(answers[c]) - taken[c]

\* An answer leaves the write buffer.
Take(c) ==
    /\ InBuffer(c) > 0 /\ side[c] # "reset"
    /\ taken' = [taken EXCEPT ![c] = @ + 1]
    /\ paused' = [paused EXCEPT ![c] = @ /\ InBuffer(c) - 1 > Low]
    /\ UNCHANGED <<handler, engine, side, unsent, asked, wire>>

-----------------------------------------------------------------------------
(* handle_client. *)

Wait(c, where) == pc' = [pc EXCEPT ![c] = where]

Accept(c) ==
    /\ pc[c] = "new"
    /\ Wait(c, "header")
    /\ registry' = [registry EXCEPT ![Peer[c]] = c]
    /\ UNCHANGED <<head, answers, paused, engine, client, wire>>

\* readexactly: n bytes, or none.
Read(c, n) ==
    /\ side[c] # "reset"
    /\ Len(wire[c]) >= n
    /\ wire' = [wire EXCEPT ![c] = SubSeq(@, n + 1, Len(@))]

\* (An operator that precedes another and is not used is a plausible bug of the
\* next one, put in its place to test the properties.)
AcceptsLess(h) == h[1] = Magic /\ h[3] < MaxPacket
AcceptsAnyLength(h) == h[1] = Magic
AcceptsAnyMagic(h) == h[3] <= MaxPacket
Acceptable(h) == h[1] = Magic /\ h[3] <= MaxPacket

ReadHeader(c) ==
    /\ pc[c] = "header"
    /\ Read(c, HeaderSize)
    /\ IF Acceptable(wire[c])
       THEN /\ Wait(c, "payload")
            /\ head' = [head EXCEPT ![c] = [type |-> wire[c][2], length |-> wire[c][3]]]
       ELSE Wait(c, "closing") /\ UNCHANGED head
    /\ UNCHANGED <<registry, answers, paused, engine, client>>

Needed(c) == IF pc[c] = "header" THEN HeaderSize ELSE head[c].length

\* The bytes end in the middle of a header or a payload, or between two frames;
\* or the connection is reset, which raises wherever the handler waits.
Stop(c) ==
    /\ pc[c] \in {"header", "payload", "drain"}
    /\ \/ side[c] = "reset"
       \/ side[c] = "shut" /\ pc[c] # "drain" /\ Len(wire[c]) < Needed(c)
    /\ Wait(c, "closing")
    /\ UNCHANGED <<head, registry, answers, paused, engine, client, wire>>

\* The handler goes on to the next frame once the buffer has room.
Drained(c) ==
    /\ pc[c] = "drain"
    /\ ~paused[c] /\ side[c] # "reset"
    /\ Wait(c, "header")
    /\ UNCHANGED <<head, registry, answers, paused, engine, client, wire>>

\* The entry of the name goes, whosever it is; if there is none, the KeyError
\* ends the coroutine all the same.
Forgotten(c) == [registry EXCEPT ![Peer[c]] = None]

\* The finally clause, once the last answers have left the buffer.
Finish(c) ==
    /\ pc[c] = "closing"
    /\ InBuffer(c) = 0 \/ side[c] = "reset"
    /\ Wait(c, "closed")
    /\ registry' = Forgotten(c)
    /\ UNCHANGED <<head, answers, paused, engine, client, wire>>

-----------------------------------------------------------------------------
(* process_command. *)

\* id is that of the value written, read (history) that of the value found.
Answer(kind, id, read, value) ==
    [kind |-> kind, id |-> id, read |-> read, value |-> value]

Plain(kind) == Answer(kind, 0, 0, << >>)

Decodes(bytes) == BadByte \notin ToSet(bytes)

LastSeparator(bytes) == SelectLastInSeq(bytes, LAMBDA b : b = Separator)
FirstSeparator(bytes) == SelectInSeq(bytes, LAMBDA b : b = Separator)

NoWait == "header"
AfterWrite == "drain"

\* The answer is written, and the handler drains.
Reply(c, answer) ==
    /\ answers' = [answers EXCEPT ![c] = Append(@, answer)]
    /\ paused' = [paused EXCEPT ![c] = @ \/ InBuffer(c) + 1 > High]
    /\ Wait(c, AfterWrite)

NotStored(key, id) == data
Stored(key, id) == [k \in {key} \cup DOMAIN data |-> IF k = key THEN id ELSE data[k]]

\* engine.write; the log may refuse the record, once the id has been taken.
Write(c, key, value) ==
    LET id == Len(entry) + 1
    IN  /\ entry' = Append(entry, [key |-> key, value |-> value])
        /\ \/ /\ data' = Stored(key, id)
              /\ Reply(c, Answer("OK_SET", id, 0, << >>))
              /\ UNCHANGED errors
           \/ /\ errors < MaxErrors
              /\ errors' = errors + 1
              /\ Reply(c, Plain("ERR_SET"))
              /\ UNCHANGED data

Set(c, payload) ==
    LET at  == FirstSeparator(payload)
        key == SubSeq(payload, 1, at - 1)
    IN  IF at > 0 /\ Decodes(key)
        THEN Write(c, key, SubSeq(payload, at + 1, Len(payload)))
        ELSE /\ Reply(c, Plain(IF at = 0 THEN "ERR_FORMAT" ELSE "ERR_SET"))
             /\ UNCHANGED engine

\* An empty value is taken for none.
Get(c, key) ==
    LET id    == IF key \in DOMAIN data THEN data[key] ELSE 0
        value == IF id = 0 THEN << >> ELSE entry[id].value
    IN  /\ Reply(c, IF Decodes(key)
                    THEN Answer(IF value = << >> THEN "ERR_NOT_FOUND" ELSE "VALUE",
                                0, id, value)
                    ELSE Plain("ERR_INTERNAL"))
        /\ UNCHANGED engine

\* The payload has arrived: the command runs, and is answered.
Process(c) ==
    /\ pc[c] = "payload"
    /\ Read(c, head[c].length)
    /\ LET payload == SubSeq(wire[c], 1, head[c].length)
       IN  CASE head[c].type = 1 -> Set(c, payload)
             [] head[c].type = 2 -> Get(c, payload)
             [] head[c].type = 99 -> Reply(c, Plain("STATS")) /\ UNCHANGED engine
             [] OTHER -> Reply(c, Plain("ERR_UNKNOWN_CMD")) /\ UNCHANGED engine
    /\ head' = [head EXCEPT ![c] = NoHead]
    /\ UNCHANGED <<registry, client>>

HandleClient(c) ==
    ReadHeader(c) \/ Process(c) \/ Drained(c) \/ Stop(c) \/ Finish(c)

Next ==
    \E c \in Conn :
        \/ Accept(c) \/ HandleClient(c)
        \/ \E f \in Frame : Send(c, f)
        \/ Transmit(c) \/ End(c) \/ Take(c)

Spec == Init /\ [][Next]_vars

-----------------------------------------------------------------------------

\* Every variable has its type.
TypeOK ==
    /\ pc \in [Conn -> {"new", "header", "payload", "drain", "closing", "closed"}]
    /\ head \in [Conn -> [type : Nat, length : 0 .. MaxPacket]]
    /\ registry \in [Names -> Conn \cup {None}]
    /\ paused \in [Conn -> BOOLEAN] /\ side \in [Conn -> {"open", "shut", "reset"}]
    /\ Range(data) \subseteq DOMAIN entry /\ errors \in 0 .. MaxErrors
    /\ {unsent, wire} \subseteq [Conn -> Seq(Nat)]
    /\ \A c \in Conn : taken[c] \in 0 .. Len(answers[c])

\* Whether answer a is one that frame f may get.
Matches(f, a) ==
    CASE f.op = "SET" ->
            IF a.kind = "OK_SET"
            THEN entry[a.id] = [key |-> f.key, value |-> f.value]
            ELSE a.kind = "ERR_SET" /\ (errors > 0 \/ ~Decodes(f.key))
      [] f.op = "GET" ->
            IF Decodes(f.key)
            THEN /\ a.read # 0 => entry[a.read] = [key |-> f.key, value |-> a.value]
                 /\ a.kind = IF a.value = << >> THEN "ERR_NOT_FOUND" ELSE "VALUE"
            ELSE a.kind = "ERR_INTERNAL"
      [] f.op = "STATS" -> a.kind = "STATS"
      [] f.op = "UNKNOWN" -> a.kind = "ERR_UNKNOWN_CMD"
      [] f.op = "UNSEPARATED" -> a.kind = "ERR_FORMAT"
      [] OTHER -> FALSE

\* The i-th answer of a connection is one to the i-th frame sent on it, whatever
\* pieces it came in and wherever the connection ended: the stream never slips,
\* a frame that is cut off or malformed is not run, and nothing after it is.
AnswersMatch ==
    \A c \in Conn :
        /\ Len(answers[c]) <= Len(asked[c])
        /\ \A i \in DOMAIN answers[c] : Matches(asked[c][i].frame, answers[c][i])

\* A GET sent after the answer to a SET has arrived anywhere finds that value or
\* a later one, over all connections.
ReadsAreFresh ==
    \A c \in Conn : \A i \in DOMAIN answers[c] :
        LET q == asked[c][i]
        IN  q.frame.op = "GET" /\ Decodes(q.frame.key) => answers[c][i].read >= q.known

\* A client that does not read its answers stops its handler: the buffer never
\* holds more than the high-water mark and one answer.
BufferBounded == \A c \in Conn : InBuffer(c) <= High + 1

\* _active_connections names live connections only, even when two of them have
\* one name and either of them ends first.
NamesAreLive ==
    \A a \in Names : registry[a] # None => pc[registry[a]] \notin {"new", "closed"}

=============================================================================
