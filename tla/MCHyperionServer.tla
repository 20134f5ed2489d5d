--------------------------- MODULE MCHyperionServer ---------------------------
(***************************************************************************)
(* An instance of HyperionFrames for TLC: two connections from one client  *)
(* port; frames of every kind, with the bytes that matter.                 *)
(***************************************************************************)
EXTENDS HyperionFrames

CONSTANTS c1, c2, a1

OneName == [c \in {c1, c2} |-> a1]

\* Byte 8 separates, byte 9 is in no UTF-8 text.
F(op, key, value) == [op |-> op, key |-> key, value |-> value]

Frames ==
    {F("SET", <<1>>, v) : v \in {<<8>>, << >>}}
        \cup {F("GET", <<1>>, << >>), F("SET", <<9>>, << >>), F("GET", <<9>>, << >>)}
        \cup {F(op, << >>, << >>) : op \in Ops \ {"SET", "GET"}}

\* Frames that are also sent as documented.
Checked == {F("GET", <<1>>, << >>), F("STATS", << >>, << >>)}

=============================================================================
