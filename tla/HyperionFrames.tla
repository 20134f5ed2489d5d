---------------------------- MODULE HyperionFrames ----------------------------
(***************************************************************************)
(* The server of hyperion_stream (HyperionServer) with clients of both     *)
(* sorts: those that send frames as the server reads them, a header and a  *)
(* payload, and those that send them as core/protocol.py documents them,   *)
(* with a CRC32 behind the payload.  The server knows of no CRC32: it      *)
(* takes it for the beginning of the next header.  (That it happens to be  *)
(* the magic number of a header is left out.)                              *)
(***************************************************************************)
EXTENDS HyperionServer

CONSTANTS
    Documented,  \* frames that a client may also send with a CRC32
    Crc          \* the CRC32 of a frame: one number, as the other fields are

ASSUME FramesOK == Documented \subseteq Frame /\ Crc \in Nat \ {Magic}

VARIABLE
    summed  \* history: of each client, how many frames it had sent when the first
            \* one with a CRC32 was among them, 0 if none is

FramesInit == Init /\ summed = [c \in Conn |-> 0]

DocumentedBytes(f) == FrameBytes(f) \o <<Crc>>

SendDocumented(c, f) ==
    /\ SendBytes(c, f, DocumentedBytes(f))
    /\ summed' = [summed EXCEPT ![c] = IF @ = 0 THEN Len(asked'[c]) ELSE @]

FramesNext ==
    \/ Next /\ UNCHANGED summed
    \/ \E c \in Conn, f \in Documented : SendDocumented(c, f)

FramesSpec == FramesInit /\ [][FramesNext]_<<vars, summed>>

\* The event loop runs every handler that can go on; a client goes on sending what
\* it has begun and takes the answers that are there.
FairSpec ==
    /\ FramesSpec
    /\ \A c \in Conn :
          WF_vars(HandleClient(c)) /\ WF_vars(Transmit(c)) /\ WF_vars(Take(c))

-----------------------------------------------------------------------------

\* Whether the first i frames were sent whole and are well-formed, and the server
\* can tell where each of them begins.
WellSent(c, i) ==
    /\ i <= Len(asked[c])
    /\ i = Len(asked[c]) => unsent[c] = << >>
    /\ \A j \in 1 .. i : asked[c][j].frame.op \notin {"NOISE", "HUGE"}
    /\ summed[c] \notin 1 .. i - 1

\* Every well-formed frame is answered, and the answer leaves, unless the client
\* resets the connection: no handler waits for ever in drain, and a client that
\* has closed its side still gets what it asked for.  The exception are frames
\* behind one with the documented CRC32, which the server does not read
\* (server.py:105 against protocol.py:16).
EventuallyAnswered ==
    \A c \in Conn : \A i \in 1 .. MaxFrames :
        WellSent(c, i) ~> (taken[c] >= i \/ side[c] = "reset")

\* A client that sends the documented CRC32 behind a frame gets an answer to that
\* frame at most, and none to anything after it: the stream has slipped, and no
\* number that has slipped is run as a command.
NothingAfterChecksum == \A c \in Conn : summed[c] # 0 => Len(answers[c]) <= summed[c]

=============================================================================
