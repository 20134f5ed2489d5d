------------------------------ MODULE Ouroboros ------------------------------
(***************************************************************************)
(* Ouroboros: a program is compiled to bytes (compiler.py) and the virtual *)
(* machine runs the bytes (vm.py).                                         *)
(*                                                                         *)
(* A program is a sequence of statements [op, arg].  Literals are whole    *)
(* numbers; texts, spaces and comments are left out, and so is the case in *)
(* which an instruction is written.  True and False are the numbers 1 and  *)
(* 0, which they are to Python's arithmetic.                               *)
(***************************************************************************)
EXTENDS Integers, Sequences, SequencesExt

CONSTANTS
    Programs,  \* the programs that are compiled and run
    Upper,     \* str.upper of the names of variables and labels
    None       \* no argument

Name == DOMAIN Upper

VARIABLES
    program,
    code, consts, names,  \* the CodeObject
    starts,               \* history: where in code instructions begin
    ip, stack, globals,   \* the VirtualMachine
    output,               \* history: what PRINT has printed
    status                \* "running", "finished", or "raised" an exception

co   == <<program, code, consts, names, starts>>
vars == <<co, ip, stack, globals, output, status>>

-----------------------------------------------------------------------------
(* The compiler. *)

OpCode ==
    [LOAD_CONST |-> 1, LOAD_NAME |-> 2, STORE_NAME |-> 3,
     ADD |-> 16, SUB |-> 17, MUL |-> 18, DIV |-> 19, EQ |-> 20,
     JMP |-> 32, JMP_IF_FALSE |-> 33, CALL |-> 48, RET |-> 49,
     PRINT |-> 64, HALT |-> 255]

\* The statements of the language.  A jump to a label that is named like an
\* instruction is left out: the compiler takes the name for that instruction.
Mnemonics == DOMAIN OpCode \cup {"PUSH", "STORE", "LOAD"}

Word(v) == IF v \in Name THEN Upper[v] ELSE v

Statement ==
    [op : {"PUSH"}, arg : Nat]
    \cup [op : {"STORE", "LOAD", "label"}, arg : Name]
    \cup [op : {"JMP", "JMP_IF_FALSE"}, arg : {n \in Name : Upper[n] \notin Mnemonics}]
    \cup [op : {"ADD", "SUB", "MUL", "DIV", "EQ", "CALL", "RET", "PRINT", "HALT"},
          arg : {None}]

ASSUME ProgramsOK ==
    /\ None \notin Name \cup Nat /\ Programs \subseteq Seq(Statement)
    /\ \A w \in Name \cap Mnemonics : Upper[w] = w

\* _tokenize: a label is an identifier and a colon.
Tokens(s) ==
    CASE s.op = "label" -> <<[typ |-> "ID", val |-> s.arg], [typ |-> "SYM", val |-> ":"]>>
      [] s.op = "PUSH"  -> <<[typ |-> "ID", val |-> s.op], [typ |-> "NUM", val |-> s.arg]>>
      [] s.arg = None   -> <<[typ |-> "ID", val |-> s.op]>>
      [] OTHER          -> <<[typ |-> "ID", val |-> s.op], [typ |-> "ID", val |-> s.arg]>>

\* (An operator that precedes another and is not used is a plausible bug of the
\* next one, put in its place to test the properties.)
LittleEndian(n) == <<n % 256, (n \div 256) % 256>>
\* _emit_arg: what does not fit in 16 bits is cut off.
Arg16(n) == <<(n \div 256) % 256, n % 256>>

\* _add_const and _add_name: the table with v in it, and the index of v there.
Table(table, v) == IF Contains(table, v) THEN table ELSE Append(table, v)
IndexIn(table, v) == SelectInSeq(table, LAMBDA w : w = v) - 1

\* The compiler with the instruction bytes emitted, n tokens further on.
Emit(g, bytes, n) ==
    [g EXCEPT !.code = @ \o bytes, !.starts = @ \cup {Len(g.code)}, !.i = @ + n]

EmitPush(g, v) ==
    LET table == Table(g.consts, v)
    IN  [Emit(g, <<OpCode.LOAD_CONST>> \o Arg16(IndexIn(table, v)), 2)
            EXCEPT !.consts = table]

EmitNameByte(g, op, v) ==
    LET table == Table(g.names, v)
    IN  [Emit(g, <<op, IndexIn(table, v)>>, 2) EXCEPT !.names = table]
EmitName(g, op, v) ==
    LET table == Table(g.names, v)
    IN  [Emit(g, <<op>> \o Arg16(IndexIn(table, v)), 2) EXCEPT !.names = table]

\* One iteration of _generate.  JMP and JMP_IF_FALSE are names of opcodes, so
\* they are emitted without an argument, before the branch that would emit one
\* is tried; the name of their label is the next token, an instruction unknown.
\* No jump is left for _fix_jumps to fix, which is all that labels are for.
Generate(g, tokens) ==
    LET t == tokens[g.i]  word == Word(t.val)
    IN  IF g.i < Len(tokens) /\ tokens[g.i + 1].typ = "SYM" THEN [g EXCEPT !.i = @ + 2]
        ELSE IF t.typ # "ID" THEN [g EXCEPT !.i = @ + 1]
        ELSE CASE word \in DOMAIN OpCode -> Emit(g, <<OpCode[word]>>, 1)
               [] word = "PUSH"  -> EmitPush(g, tokens[g.i + 1].val)
               [] word = "STORE" -> EmitName(g, OpCode.STORE_NAME, tokens[g.i + 1].val)
               [] word = "LOAD"  -> EmitName(g, OpCode.LOAD_NAME, tokens[g.i + 1].val)
               [] OTHER          -> [g EXCEPT !.i = @ + 1]

\* compile.
Compiled(p) ==
    LET tokens == FlattenSeq([i \in DOMAIN p |-> Tokens(p[i])])
        Start  == [i |-> 1, code |-> <<>>, consts |-> <<>>, names |-> <<>>, starts |-> {}]
        After[n \in 0 .. Len(tokens)] ==
            IF n = 0 THEN Start
            ELSE LET g == After[n - 1]
                 IN  IF g.i > Len(tokens) THEN g ELSE Generate(g, tokens)
    IN  After[Len(tokens)]

\* No table has more entries than an argument can name, which is a limit that
\* compiler.py names and does not check.
MaxEntries == 65536
ASSUME TablesFit ==
    \A p \in Programs :
        Len(Compiled(p).consts) <= MaxEntries /\ Len(Compiled(p).names) <= MaxEntries

Init ==
    /\ program \in Programs
    /\ LET c == Compiled(program)
       IN  code = c.code /\ consts = c.consts /\ names = c.names /\ starts = c.starts
    /\ ip = 0
    /\ stack = <<>>
    /\ globals = [n \in {} |-> 0]
    /\ output = <<>>
    /\ status = "running"

-----------------------------------------------------------------------------
(* The virtual machine: an action per kind of instruction. *)

\* The instruction at ip is one of ops.
Executes(ops) ==
    /\ status = "running"
    /\ ip < Len(code)
    /\ \E op \in ops : code[ip + 1] = OpCode[op]

\* _read_arg.
HasArg == ip + 3 <= Len(code)
Arg == code[ip + 2] * 256 + code[ip + 3]

\* The values on top of the stack, and the stack without them.
Top == stack[Len(stack)]
Next2 == stack[Len(stack) - 1]
Popped(n) == SubSeq(stack, 1, Len(stack) - n)

Known(table) == HasArg /\ Arg < Len(table)

LoadConst ==
    /\ Executes({"LOAD_CONST"}) /\ Known(consts)
    /\ stack' = Append(stack, consts[Arg + 1])
    /\ ip' = ip + 3
    /\ UNCHANGED <<co, globals, output, status>>

LoadName ==
    /\ Executes({"LOAD_NAME"}) /\ Known(names)
    /\ names[Arg + 1] \in DOMAIN globals
    /\ stack' = Append(stack, globals[names[Arg + 1]])
    /\ ip' = ip + 3
    /\ UNCHANGED <<co, globals, output, status>>

StoreName ==
    /\ Executes({"STORE_NAME"}) /\ Known(names)
    /\ stack # <<>>
    /\ globals' = [n \in DOMAIN globals \cup {names[Arg + 1]} |->
                      IF n = names[Arg + 1] THEN Top ELSE globals[n]]
    /\ stack' = Popped(1)
    /\ ip' = ip + 3
    /\ UNCHANGED <<co, output, status>>

Bit(b) == IF b THEN 1 ELSE 0

Computed(op, a, b) ==
    CASE op = "ADD" -> a + b
      [] op = "SUB" -> a - b
      [] op = "MUL" -> a * b
      [] op = "EQ"  -> Bit(a = b)

Binary == {"ADD", "SUB", "MUL", "EQ"}

Calculate ==
    \E op \in Binary :
        /\ Executes({op})
        /\ Len(stack) >= 2
        /\ stack' = Append(Popped(2), Computed(op, Next2, Top))
        /\ ip' = ip + 1
        /\ UNCHANGED <<co, globals, output, status>>

PrintTop ==
    /\ Executes({"PRINT"})
    /\ stack # <<>>
    /\ output' = Append(output, Top)
    /\ stack' = Popped(1)
    /\ ip' = ip + 1
    /\ UNCHANGED <<co, globals, status>>

Jump ==
    /\ Executes({"JMP"}) /\ HasArg
    /\ ip' = Arg
    /\ UNCHANGED <<co, stack, globals, output, status>>

JumpIfFalse ==
    /\ Executes({"JMP_IF_FALSE"}) /\ HasArg
    /\ stack # <<>>
    /\ ip' = IF Top = 0 THEN Arg ELSE ip + 3
    /\ stack' = Popped(1)
    /\ UNCHANGED <<co, globals, output, status>>

\* HALT, or the end of the code.
Finish ==
    /\ status = "running"
    /\ Executes({"HALT"}) \/ ip >= Len(code)
    /\ status' = "finished"
    /\ UNCHANGED <<co, ip, stack, globals, output>>

\* An instruction raises: it lacks its argument, its entry in a table, a value
\* for the name or a value on the stack, or it is none that the machine knows
\* (DIV, CALL and RET among them).  Where ip stands then is not read again.
Raise ==
    /\ status = "running" /\ ip < Len(code)
    /\ ~ \/ Executes({"LOAD_CONST"}) /\ Known(consts)
         \/ Executes({"LOAD_NAME"}) /\ Known(names) /\ names[Arg + 1] \in DOMAIN globals
         \/ Executes({"STORE_NAME"}) /\ Known(names) /\ stack # <<>>
         \/ Executes(Binary) /\ Len(stack) >= 2
         \/ Executes({"PRINT"}) /\ stack # <<>>
         \/ Executes({"JMP"}) /\ HasArg
         \/ Executes({"JMP_IF_FALSE"}) /\ HasArg /\ stack # <<>>
         \/ Executes({"HALT"})
    /\ status' = "raised"
    /\ stack' = IF Executes(Binary) THEN <<>> ELSE stack
    /\ UNCHANGED <<co, ip, globals, output>>

Next ==
    \/ LoadConst \/ LoadName \/ StoreName \/ Calculate \/ PrintTop
    \/ Jump \/ JumpIfFalse \/ Finish \/ Raise

Spec == Init /\ [][Next]_vars

-----------------------------------------------------------------------------
(* What a program means, statement by statement, without bytes and tables. *)

Assign(g, n, v) == [m \in DOMAIN g \cup {n} |-> IF m = n THEN v ELSE g[m]]

\* The statement after label l in program p.
Target(p, l) == CHOOSE i \in DOMAIN p : p[i].op = "label" /\ p[i].arg = l

\* The statements whose meaning the machine knows.
Implemented == \A i \in DOMAIN program : program[i].op \notin {"DIV", "CALL", "RET"}

\* The state s of a run of p after the statement at s.at.  (Nothing is said of what
\* DIV, CALL and RET mean: a run that comes to one ends there.)
Executed(p, s) ==
    LET st   == p[s.at]
        n    == Len(s.stack)
        top  == s.stack[n]
        pop1 == SubSeq(s.stack, 1, n - 1)
        next == [s EXCEPT !.at = @ + 1]
        fail == [s EXCEPT !.status = "raised"]
    IN  CASE st.op = "label" -> next
          [] st.op = "PUSH"  -> [next EXCEPT !.stack = Append(@, st.arg)]
          [] st.op = "LOAD"  -> IF st.arg \in DOMAIN s.globals
                                THEN [next EXCEPT !.stack = Append(@, s.globals[st.arg])]
                                ELSE fail
          [] st.op = "JMP"   -> [s EXCEPT !.at = Target(p, st.arg)]
          [] st.op = "HALT"  -> [s EXCEPT !.status = "finished"]
          [] st.op \in Binary ->
                IF n < 2 THEN [fail EXCEPT !.stack = <<>>]
                ELSE [next EXCEPT !.stack =
                        Append(SubSeq(@, 1, n - 2), Computed(st.op, s.stack[n - 1], top))]
          [] st.op \in {"STORE", "PRINT", "JMP_IF_FALSE"} ->
                IF n = 0 THEN fail
                ELSE IF st.op = "STORE"
                THEN [next EXCEPT !.stack = pop1, !.globals = Assign(@, st.arg, top)]
                ELSE IF st.op = "PRINT"
                THEN [next EXCEPT !.stack = pop1, !.output = Append(@, top)]
                ELSE [s EXCEPT !.stack = pop1,
                               !.at = IF top = 0 THEN Target(p, st.arg) ELSE @ + 1]
          [] st.op \in {"DIV", "CALL", "RET"} -> fail

\* The outcome of a program whose jumps go forward.
Meaning(p) ==
    LET Start == [at |-> 1, stack |-> <<>>, globals |-> [n \in {} |-> 0],
                  output |-> <<>>, status |-> "running"]
        After[k \in 0 .. Len(p) + 1] ==
            IF k = 0 THEN Start
            ELSE LET s == After[k - 1]
                 IN  IF s.status # "running" THEN s
                     ELSE IF s.at > Len(p) THEN [s EXCEPT !.status = "finished"]
                     ELSE Executed(p, s)
    IN  After[Len(p) + 1]

Jumps == \E i \in DOMAIN program : program[i].op \in {"JMP", "JMP_IF_FALSE"}

AsMeant ==
    LET m == Meaning(program)
    IN  /\ status = m.status /\ output = m.output
        /\ stack = m.stack /\ globals = m.globals

\* Every variable has its type; a program that does not jump never executes a
\* byte of an argument as an instruction.
TypeOK ==
    /\ \A i \in DOMAIN code : code[i] \in 0 .. 255
    /\ \A i \in DOMAIN stack : stack[i] \in Int
    /\ \A n \in DOMAIN globals : globals[n] \in Int
    /\ status \in {"running", "finished", "raised"}
    /\ Jumps \/ ip \in starts \cup {Len(code)}

\* A program that does not jump ends as its statements say: with the same
\* output, values and variables, or with a failure at the same statement, whatever
\* tables and bytes it went through.  Nothing is claimed of programs with DIV, CALL or
\* RET, which opcodes.py lists and the machine raises at.
StraightLineAsMeant == status # "running" /\ ~Jumps /\ Implemented => AsMeant

\* So does a program with jumps.
ProgramAsMeant == status # "running" /\ Implemented => AsMeant

=============================================================================
