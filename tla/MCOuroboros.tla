----------------------------- MODULE MCOuroboros -----------------------------
(***************************************************************************)
(* Instances of Ouroboros for TLC.                                         *)
(***************************************************************************)
EXTENDS Ouroboros, TLC

CONSTANT MaxLength  \* bound: statements of a program without jumps

UpperCase ==
    "a" :> "A" @@ "add" :> "ADD" @@ "b" :> "B" @@ "c" :> "C"
        @@ "end" :> "END" @@ "skip" :> "SKIP" @@ "x" :> "X"

S(o, a) == [op |-> o, arg |-> a]

Statements ==
    {S("PUSH", 0), S("PUSH", 1), S("label", "x")}
        \cup [op : {"STORE", "LOAD"}, arg : {"x", "add"}]
        \cup [op : {"ADD", "SUB", "MUL", "EQ", "DIV", "PRINT", "HALT"}, arg : {None}]

\* Short programs of any statements, and longer ones that begin with a PUSH: most
\* others raise at their first statement.
StraightLine ==
    UNION {[1 .. n -> Statements] : n \in 0 .. MaxLength - 2}
        \cup {<<s>> \o rest : s \in {S("PUSH", 0), S("PUSH", 1)},
                             rest \in [1 .. MaxLength - 1 -> Statements]}

\* example_script.obs, with 1 and 2 for its texts.
Example == <<
    S("PUSH", 10), S("STORE", "a"), S("PUSH", 20), S("STORE", "b"),
    S("LOAD", "a"), S("LOAD", "b"), S("ADD", None), S("STORE", "c"),
    S("LOAD", "c"), S("PRINT", None),
    S("LOAD", "c"), S("PUSH", 30), S("EQ", None), S("JMP_IF_FALSE", "skip"),
    S("PUSH", 1), S("PRINT", None),
    S("label", "skip"), S("PUSH", 2), S("PRINT", None), S("HALT", None)>>

\* PUSH 1 and PRINT are jumped over.
JumpOver == <<
    S("JMP", "end"), S("PUSH", 1), S("PRINT", None), S("label", "end"), S("HALT", None)>>

Shipped == {Example}
AllPrograms == StraightLine \cup {Example, JumpOver}

=============================================================================
