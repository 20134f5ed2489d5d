--------------------------- MODULE OuroborosProofs ---------------------------
(***************************************************************************)
(* A program without jumps runs as its statements mean, for programs of    *)
(* any length.                                                             *)
(***************************************************************************)
EXTENDS Ouroboros, SequenceTheorems, WellFoundedInduction, TLAPS

(* Induction and recursion along the numbers up to n. *)

\* A set of numbers that is not empty has a least one.
LEMMA Least ==
    ASSUME NEW T \in SUBSET Nat, T # {}
    PROVE  \E x \in T : \A y \in T : x <= y
<1>. DEFINE R == {p \in Nat \X Nat : p[1] < p[2]}
<1>1. IsWellFoundedOn(R, Nat)
    BY NatLessThanWellFounded DEF OpToRel
<1>2. PICK x \in T : \A y \in T : <<y, x>> \notin R
    BY <1>1, WFMin, Zenon
<1>3. \A y \in T : <<y, x>> \in R <=> y < x
    OBVIOUS
<1>4. x \in Nat /\ \A y \in T : y \in Nat
    OBVIOUS
<1>5. ASSUME NEW y \in T PROVE x <= y
  <2>1. ~ (y < x) /\ x \in Nat /\ y \in Nat
      BY <1>2, <1>3, <1>4
  <2>. QED
      BY <2>1
<1>. QED
    BY <1>5

\* A set with 0 and with the successor of each of its numbers has all numbers.
LEMMA Induction ==
    ASSUME NEW n \in Nat, NEW H, 0 \in H, \A k \in 0 .. n - 1 : k \in H => k + 1 \in H
    PROVE  \A k \in 0 .. n : k \in H
<1>. DEFINE T == {k \in 0 .. n : k \notin H}
<1>. SUFFICES ASSUME T # {} PROVE FALSE
    OBVIOUS
<1>1. PICK m \in T : \A k \in T : m <= k
  <2>1. T \in SUBSET Nat
      OBVIOUS
  <2>. HIDE DEF T
  <2>. QED
      BY <2>1, Least
<1>2. m \in Nat /\ m # 0 /\ m <= n
    BY <1>1
<1>3. m - 1 \in 0 .. n - 1 /\ m - 1 \notin T /\ m - 1 + 1 = m
    BY <1>1, <1>2
<1>4. m - 1 \in H
    BY <1>3
<1>. QED
    BY <1>1, <1>3, <1>4

\* A set of some of the numbers up to n has a greatest one.
LEMMA Greatest ==
    ASSUME NEW n \in Nat, NEW T \in SUBSET (0 .. n), T # {}
    PROVE  \E x \in T : \A y \in T : y <= x
<1>. DEFINE U == {u \in 0 .. n : n - u \in T}
<1>1. PICK t \in T : t \in 0 .. n
    OBVIOUS
<1>2. n - t \in U
    BY <1>1
<1>3. PICK u \in U : \A w \in U : u <= w
  <2>1. U \in SUBSET Nat /\ U # {}
      BY <1>2
  <2>. HIDE DEF U
  <2>. QED
      BY <2>1, Least
<1>4. ASSUME NEW y \in T PROVE y <= n - u
  <2>1. y \in 0 .. n
      OBVIOUS
  <2>2. n - y \in U
      BY <2>1
  <2>3. u <= n - y /\ u \in 0 .. n
      BY <1>3, <2>2
  <2>. QED
      BY <2>1, <2>3
<1>. QED
    BY <1>3, <1>4

-----------------------------------------------------------------------------
(* The loops of the model, turn by turn. *)

\* The sentences of a program, one behind the other; the instructions of its
\* tokens; the statements that it executes; and a sum.
Turn(w, i, x) ==
    CASE w.of = "tokens" -> x \o w.parts[i]
      [] w.of = "code"   -> IF x.i > Len(w.tokens) THEN x ELSE Generate(x, w.tokens)
      [] w.of = "run"    -> IF x.status # "running" THEN x
                            ELSE IF x.at > Len(w.program) THEN [x EXCEPT !.status = "finished"]
                            ELSE Executed(w.program, x)
      [] w.of = "sum"    -> x + w.terms[i]

Iterates(f, w, n, base) ==
    f = [i \in 0 .. n |-> IF i = 0 THEN base ELSE Turn(w, i, f[i - 1])]

\* Any number of turns has an outcome.
LEMMA Recursion ==
    ASSUME NEW n \in Nat, NEW w, NEW base
    PROVE  \E f : Iterates(f, w, n, base)
<1>. DEFINE H == {m \in 0 .. n : \E f : Iterates(f, w, m, base)}
<1>1. 0 \in H
  <2>. DEFINE f == [i \in 0 .. 0 |-> base]
  <2>1. Iterates(f, w, 0, base)
      BY DEF Iterates
  <2>. QED
      BY <2>1
<1>2. ASSUME NEW k \in 0 .. n - 1, k \in H PROVE k + 1 \in H
  <2>. DEFINE m == k + 1
  <2>1. PICK g : Iterates(g, w, k, base)
      BY <1>2
  <2>2. m \in Nat /\ m # 0 /\ m - 1 = k /\ m \in 0 .. n
      OBVIOUS
  <2>. HIDE DEF m
  <2>. DEFINE f == [i \in 0 .. m |-> IF i = m THEN Turn(w, m, g[m - 1]) ELSE g[i]]
  <2>3. \A i \in 0 .. k : g[i] = IF i = 0 THEN base ELSE Turn(w, i, g[i - 1])
      BY <2>1, Zenon DEF Iterates
  <2>4. ASSUME NEW i \in 0 .. m
        PROVE  f[i] = IF i = 0 THEN base ELSE Turn(w, i, f[i - 1])
    <3>1. CASE i = m
      <4>1. i # 0 /\ m - 1 \in 0 .. m /\ m - 1 # m
          BY <2>2, <3>1
      <4>2. f[i] = Turn(w, m, g[m - 1]) /\ f[m - 1] = g[m - 1]
          BY <3>1, <4>1
      <4>. HIDE DEF f
      <4>. QED
          BY <3>1, <4>1, <4>2
    <3>2. CASE i # m
      <4>1. i \in 0 .. k /\ f[i] = g[i]
          BY <2>2, <3>2
      <4>2. CASE i = 0
          BY <2>3, <4>1, <4>2
      <4>3. CASE i # 0
        <5>1. i - 1 \in 0 .. m /\ i - 1 # m
            BY <2>2, <4>1, <4>3
        <5>2. f[i - 1] = g[i - 1]
            BY <5>1
        <5>. HIDE DEF f
        <5>. QED
            BY <2>3, <4>1, <4>3, <5>2
      <4>. QED
          BY <4>2, <4>3
    <3>. QED
        BY <3>1, <3>2
  <2>5. f = [i \in 0 .. m |-> f[i]]
      OBVIOUS
  <2>. HIDE DEF f
  <2>6. Iterates(f, w, m, base)
      BY <2>4, <2>5 DEF Iterates
  <2>. QED
      BY <2>2, <2>6 DEF m
<1>3. n \in 0 .. n
    OBVIOUS
<1>. HIDE DEF H
<1>4. n \in H
    BY <1>1, <1>2, <1>3, Induction
<1>. QED
    BY <1>4 DEF H

\* The outcomes before the first turn and after each.
LEMMA Turns ==
    ASSUME NEW n \in Nat, NEW w, NEW base, NEW f, Iterates(f, w, n, base)
    PROVE  f[0] = base /\ \A k \in 1 .. n : f[k] = Turn(w, k, f[k - 1])
<1>1. \A i \in 0 .. n : f[i] = IF i = 0 THEN base ELSE Turn(w, i, f[i - 1])
    BY Zenon DEF Iterates
<1>2. 0 \in 0 .. n
    OBVIOUS
<1>3. ASSUME NEW k \in 1 .. n PROVE f[k] = Turn(w, k, f[k - 1])
  <2>1. k \in 0 .. n /\ k # 0
      OBVIOUS
  <2>. QED
      BY <1>1, <2>1, Zenon
<1>. QED
    BY <1>1, <1>2, <1>3

\* The sums of the first numbers of a sequence.
LEMMA Sums ==
    ASSUME NEW n \in Nat, NEW terms \in [1 .. n -> Nat]
    PROVE  \E f \in [0 .. n -> Nat] :
              /\ f[0] = 0
              /\ \A k \in 1 .. n : f[k] = f[k - 1] + terms[k]
<1>. DEFINE w == [of |-> "sum", terms |-> terms]
<1>1. PICK f : Iterates(f, w, n, 0)
    BY Recursion, Zenon
<1>2. f[0] = 0 /\ \A k \in 1 .. n : f[k] = Turn(w, k, f[k - 1])
    BY <1>1, Turns
<1>3. \A k, x : Turn(w, k, x) = x + terms[k]
    BY DEF Turn
<1>. HIDE DEF w
<1>4. \A k \in 1 .. n : f[k] = f[k - 1] + terms[k]
    BY <1>2, <1>3
<1>. DEFINE H == {k \in 0 .. n : f[k] \in Nat}
<1>5. 0 \in H
    BY <1>2
<1>6. ASSUME NEW k \in 0 .. n - 1, k \in H PROVE k + 1 \in H
  <2>1. k + 1 \in 1 .. n /\ k + 1 \in 0 .. n /\ k + 1 - 1 = k /\ f[k] \in Nat
      BY <1>6
  <2>2. f[k + 1] = f[k] + terms[k + 1]
      BY <1>4, <2>1
  <2>. QED
      BY <2>1, <2>2
<1>. HIDE DEF H
<1>7. \A k \in 0 .. n : k \in H
    BY <1>5, <1>6, Induction
<1>8. \A k \in 0 .. n : f[k] \in Nat
    BY <1>7 DEF H
<1>9. f = [i \in 0 .. n |-> f[i]]
  <2>1. f = [i \in 0 .. n |-> IF i = 0 THEN 0 ELSE Turn(w, i, f[i - 1])]
      BY <1>1, Zenon DEF Iterates
  <2>. QED
      BY <2>1
<1>10. f \in [0 .. n -> Nat]
    BY <1>8, <1>9, Zenon
<1>. QED
    BY <1>2, <1>4, <1>10

-----------------------------------------------------------------------------
(* The tokens of a program. *)

Words == [typ : {"ID", "NUM", "SYM"}, val : Nat \cup Name \cup Mnemonics \cup {":"}]

Plain == {"ADD", "SUB", "MUL", "DIV", "EQ", "CALL", "RET", "PRINT", "HALT"}

\* The tokens of a statement of each kind.
LEMMA TokensOf ==
    ASSUME NEW s \in Statement
    PROVE  /\ \/ s.op = "label" /\ s.arg \in Name
              \/ s.op = "PUSH" /\ s.arg \in Nat
              \/ s.op \in {"STORE", "LOAD"} /\ s.arg \in Name
              \/ s.op \in {"JMP", "JMP_IF_FALSE"} /\ s.arg \in Name /\ Upper[s.arg] \notin Mnemonics
              \/ s.op \in Plain /\ s.arg = None
           /\ s.op \in Plain \cup {"JMP", "JMP_IF_FALSE"} <=> s.op \in DOMAIN OpCode
           /\ Tokens(s) = CASE s.op = "label" -> <<[typ |-> "ID", val |-> s.arg], [typ |-> "SYM", val |-> ":"]>>
                            [] s.op = "PUSH"  -> <<[typ |-> "ID", val |-> s.op], [typ |-> "NUM", val |-> s.arg]>>
                            [] s.op \in Plain -> <<[typ |-> "ID", val |-> s.op]>>
                            [] OTHER -> <<[typ |-> "ID", val |-> s.op], [typ |-> "ID", val |-> s.arg]>>
<1>1. \/ s.op = "label" /\ s.arg \in Name
      \/ s.op = "PUSH" /\ s.arg \in Nat
      \/ s.op \in {"STORE", "LOAD"} /\ s.arg \in Name
      \/ s.op \in {"JMP", "JMP_IF_FALSE"} /\ s.arg \in Name /\ Upper[s.arg] \notin Mnemonics
      \/ s.op \in Plain /\ s.arg = None
    BY DEF Statement, Plain
<1>2. s.op \in Plain \cup {"JMP", "JMP_IF_FALSE"} <=> s.op \in DOMAIN OpCode
    BY <1>1 DEF Plain, OpCode
<1>3. s.arg = None <=> s.op \in Plain \/ (s.op = "PUSH" /\ s.arg = None)
    BY <1>1, ProgramsOK DEF ProgramsOK, Plain
<1>. QED
    BY <1>1, <1>2, <1>3 DEF Tokens, Plain

\* Two sequences, one behind the other.
LEMMA TwoParts ==
    ASSUME NEW S, NEW a \in Seq(S), NEW b \in Seq(S)
    PROVE  /\ a \o b \in Seq(S) /\ Len(a \o b) = Len(a) + Len(b)
           /\ \A i \in 1 .. Len(a) : (a \o b)[i] = a[i]
           /\ \A i \in 1 .. Len(b) : (a \o b)[Len(a) + i] = b[i]
<1>1. /\ a \o b \in Seq(S) /\ Len(a \o b) = Len(a) + Len(b)
      /\ \A i \in 1 .. Len(a) + Len(b) :
            (a \o b)[i] = IF i <= Len(a) THEN a[i] ELSE b[i - Len(a)]
    BY ConcatProperties, Zenon
<1>2. PICK w : w = a \o b
    OBVIOUS
<1>3. PICK m \in Nat, n \in Nat : m = Len(a) /\ n = Len(b)
    OBVIOUS
<1>4. \A i \in 1 .. m + n : w[i] = IF i <= m THEN a[i] ELSE b[i - m]
    BY <1>1, <1>2, <1>3, Zenon
<1>5. \A i \in 1 .. m : w[i] = a[i]
    BY <1>4
<1>6. ASSUME NEW i \in 1 .. n PROVE w[m + i] = b[i]
  <2>1. m + i \in 1 .. m + n /\ ~ (m + i <= m) /\ (m + i) - m = i
      OBVIOUS
  <2>2. w[m + i] = b[(m + i) - m]
      BY <1>4, <2>1, Zenon
  <2>. QED
      BY <2>1, <2>2
<1>. QED
    BY <1>1, <1>2, <1>3, <1>5, <1>6, Zenon

\* The parts of a sequence lie in tokens one behind the other, up to T[k] the first k.
Laid(parts, tokens, T) ==
    /\ T \in [0 .. Len(parts) -> Nat] /\ T[0] = 0
    /\ tokens \in Seq(Words) /\ Len(tokens) = T[Len(parts)]
    /\ \A k \in 1 .. Len(parts) :
          /\ T[k] = T[k - 1] + Len(parts[k]) /\ T[k] <= Len(tokens)
          /\ \A j \in 1 .. Len(parts[k]) : tokens[T[k - 1] + j] = parts[k][j]

LEMMA Flat ==
    ASSUME NEW parts \in Seq(Seq(Words))
    PROVE  \E T : Laid(parts, FlattenSeq(parts), T)
<1>1. PICK n \in Nat : n = Len(parts)
    OBVIOUS
<1>2. \A i \in 1 .. n : parts[i] \in Seq(Words) /\ Len(parts[i]) \in Nat
    BY <1>1
<1>3. PICK T \in [0 .. n -> Nat] :
          T[0] = 0 /\ \A k \in 1 .. n : T[k] = T[k - 1] + Len(parts[k])
  <2>. DEFINE terms == [i \in 1 .. n |-> Len(parts[i])]
  <2>1. terms \in [1 .. n -> Nat] /\ \A k \in 1 .. n : terms[k] = Len(parts[k])
      BY <1>2
  <2>. HIDE DEF terms
  <2>. QED
      BY <2>1, Sums
<1>4. CASE n = 0
  <2>1. FlattenSeq(parts) = << >> /\ << >> \in Seq(Words) /\ Len(<< >>) = 0
    <3>1. Len(parts) = 0 /\ parts = << >>
        BY <1>1, <1>4, EmptySeq
    <3>2. FlattenSeq(parts) = parts
        BY <3>1, Zenon DEF FlattenSeq
    <3>. QED
        BY <3>1, <3>2
  <2>2. Laid(parts, << >>, T)
      BY <1>1, <1>3, <1>4, <2>1 DEF Laid
  <2>. QED
      BY <2>1, <2>2
<1>5. CASE n # 0
  <2>. DEFINE Solves(h) ==
          h = [i \in 1 .. n |-> IF i = 1 THEN parts[i] ELSE h[i - 1] \o parts[i]]
  <2>1. \E h : Solves(h)
    <3>1. PICK w : \A k, x : Turn(w, k, x) = x \o parts[k]
      <4>1. \A k, x : Turn([of |-> "tokens", parts |-> parts], k, x) = x \o parts[k]
          BY DEF Turn
      <4>. QED
          BY <4>1, Zenon
    <3>2. PICK f : Iterates(f, w, n, << >>)
        BY Recursion, Zenon
    <3>3. f[0] = << >> /\ \A k \in 1 .. n : f[k] = Turn(w, k, f[k - 1])
      <4>. HIDE <3>1
      <4>. HIDE DEF Solves
      <4>. QED
          BY <3>2, Turns
    <3>. DEFINE h == [i \in 1 .. n |-> f[i]]
    <3>4. ASSUME NEW i \in 1 .. n
          PROVE  f[i] = IF i = 1 THEN parts[i] ELSE h[i - 1] \o parts[i]
      <4>1. f[i] = f[i - 1] \o parts[i]
          BY <3>3, <3>1
      <4>2. CASE i = 1
        <5>1. f[i - 1] = << >> /\ << >> \o parts[i] = parts[i]
            BY <1>2, <3>3, <4>2
        <5>. QED
            BY <4>1, <4>2, <5>1
      <4>3. CASE i # 1
        <5>1. h[i - 1] = f[i - 1]
            BY <4>3
        <5>. QED
            BY <4>1, <4>3, <5>1
      <4>. QED
          BY <4>2, <4>3
    <3>5. Solves(h)
        BY <3>4, Zenon
    <3>. QED
        BY <3>5
  <2>2. PICK h : Solves(h) /\ FlattenSeq(parts) = h[n]
      BY <1>1, <1>5, <2>1, Zenon DEF FlattenSeq
  <2>3. /\ h[1] = parts[1]
        /\ \A k \in 1 .. n - 1 : h[k + 1] = h[k] \o parts[k + 1]
    <3>1. \A i \in 1 .. n : h[i] = IF i = 1 THEN parts[i] ELSE h[i - 1] \o parts[i]
        BY <2>2, Zenon
    <3>2. ASSUME NEW k \in 1 .. n - 1 PROVE h[k + 1] = h[k] \o parts[k + 1]
      <4>1. PICK i \in 1 .. n : i = k + 1 /\ i # 1 /\ i - 1 = k
          OBVIOUS
      <4>2. h[i] = h[i - 1] \o parts[i]
          BY <3>1, <4>1, Zenon
      <4>. QED
          BY <4>1, <4>2, Zenon
    <3>3. 1 \in 1 .. n
        BY <1>5
    <3>. QED
        BY <3>1, <3>2, <3>3
  <2>. DEFINE Ends(m) == /\ h[m] \in Seq(Words) /\ Len(h[m]) = T[m]
                         /\ \A k \in 1 .. m : T[k] <= T[m]
                         /\ \A k \in 1 .. m : \A j \in 1 .. Len(parts[k]) :
                                h[m][T[k - 1] + j] = parts[k][j]
              H == {m \in 0 .. n : m = 0 \/ Ends(m)}
  <2>4. 0 \in H
      OBVIOUS
  <2>5. ASSUME NEW m \in 0 .. n - 1, m \in H PROVE m + 1 \in H
    <3>1. m + 1 \in 1 .. n /\ m + 1 - 1 = m /\ parts[m + 1] \in Seq(Words)
        BY <1>2
    <3>2. T[m + 1] = T[m] + Len(parts[m + 1])
        BY <1>3, <3>1
    <3>3. CASE m = 0
      <4>1. h[1] = parts[1] /\ T[0] = 0 /\ T[1] = Len(parts[1])
        <5>1. m + 1 = 1 /\ 1 \in 1 .. n
            BY <3>1, <3>3
        <5>2. T[0] = 0 /\ T[1] = 0 + Len(parts[1]) /\ h[1] = parts[1]
            BY <1>3, <2>3, <3>2, <3>3, <5>1, Zenon
        <5>. QED
            BY <1>2, <5>1, <5>2
      <4>2. Ends(1)
          BY <1>2, <3>1, <3>3, <4>1
      <4>3. m + 1 = 1 /\ 1 \in 0 .. n
          BY <3>1, <3>3
      <4>. HIDE DEF Ends
      <4>. QED
          BY <4>2, <4>3
    <3>4. CASE m # 0
      <4>1. Ends(m) /\ m \in 1 .. n - 1
          BY <2>5, <3>4
      <4>2. PICK a \in Seq(Words) : a = h[m]
          BY <4>1
      <4>3. PICK b \in Seq(Words) : b = parts[m + 1]
          BY <3>1
      <4>4. h[m + 1] = a \o b
          BY <2>3, <4>1, <4>2, <4>3, Zenon
      <4>5. PICK c \in Seq(Words) : c = h[m + 1] /\ c = a \o b
        <5>1. a \o b \in Seq(Words)
            OBVIOUS
        <5>. QED
            BY <4>4, <5>1, Zenon
      <4>6. /\ Len(c) = Len(a) + Len(b)
            /\ \A i \in 1 .. Len(a) : c[i] = a[i]
            /\ \A i \in 1 .. Len(b) : c[Len(a) + i] = b[i]
          BY <4>5, TwoParts
      <4>7. Len(a) = T[m] /\ T[m] \in Nat /\ T[m + 1] \in Nat /\ Len(b) \in Nat
          BY <1>3, <3>1, <4>1, <4>2
      <4>8. Len(c) = T[m + 1] /\ T[m] <= T[m + 1]
          BY <3>2, <4>3, <4>6, <4>7
      <4>9. ASSUME NEW k \in 1 .. m + 1 PROVE T[k] <= T[m + 1]
        <5>1. k \in 1 .. m \/ k = m + 1
            OBVIOUS
        <5>2. k \in 0 .. n /\ T[k] \in Nat
            BY <1>3
        <5>. QED
            BY <4>1, <4>7, <4>8, <5>1, <5>2
      <4>10. ASSUME NEW k \in 1 .. m + 1, NEW j \in 1 .. Len(parts[k])
             PROVE  c[T[k - 1] + j] = parts[k][j]
        <5>1. CASE k = m + 1
            BY <4>3, <4>6, <4>7, <5>1
        <5>2. CASE k # m + 1
          <6>1. k \in 1 .. m /\ k \in 1 .. n /\ k - 1 \in 0 .. n
              BY <5>2
          <6>2. a[T[k - 1] + j] = parts[k][j] /\ T[k] <= T[m]
              BY <4>1, <4>2, <6>1
          <6>3. T[k] = T[k - 1] + Len(parts[k]) /\ T[k - 1] \in Nat /\ Len(parts[k]) \in Nat
              BY <1>2, <1>3, <6>1
          <6>4. T[k - 1] + j \in 1 .. Len(a)
            <7>1. PICK q \in Nat, l \in Nat, d \in Nat :
                      q = T[k - 1] /\ l = Len(parts[k]) /\ d = Len(a)
                BY <6>3
            <7>2. q + l <= d
                BY <4>7, <6>2, <6>3, <7>1
            <7>3. j \in 1 .. l
                BY <7>1
            <7>4. q + j \in 1 .. d
                BY <7>2, <7>3
            <7>. QED
                BY <7>1, <7>4, Zenon
          <6>. QED
              BY <4>6, <6>2, <6>4
        <5>. QED
            BY <5>1, <5>2
      <4>11. Ends(m + 1)
          BY <4>5, <4>8, <4>9, <4>10
      <4>. QED
          BY <3>1, <4>11
    <3>. QED
        BY <3>3, <3>4
  <2>. HIDE DEF H
  <2>6. \A m \in 0 .. n : m \in H
      BY <2>4, <2>5, Induction
  <2>7. Ends(n)
    <3>1. n \in H
        BY <2>6
    <3>. HIDE DEF Ends
    <3>. QED
        BY <1>5, <3>1 DEF H
  <2>8. Laid(parts, h[n], T)
      BY <1>1, <1>3, <2>7 DEF Laid
  <2>. QED
      BY <2>2, <2>8
<1>. QED
    BY <1>4, <1>5

Parts(p) == [k \in DOMAIN p |-> Tokens(p[k])]

\* The token that a statement begins with, and the other one that most have.
First(s) == [typ |-> "ID", val |-> IF s.op = "label" THEN s.arg ELSE s.op]
Second(s) ==
    [typ |-> IF s.op = "label" THEN "SYM" ELSE IF s.op = "PUSH" THEN "NUM" ELSE "ID",
     val |-> IF s.op = "label" THEN ":" ELSE s.arg]

LEMMA Spelled ==
    ASSUME NEW s \in Statement
    PROVE  /\ Tokens(s) \in Seq(Words)
           /\ Len(Tokens(s)) = IF s.op \in Plain THEN 1 ELSE 2
           /\ Tokens(s)[1] = First(s)
           /\ s.op \notin Plain => Tokens(s)[2] = Second(s)
<1>1. /\ First(s) \in Words
      /\ s.op \notin Plain => Second(s) \in Words
  <2>1. s.op \in Mnemonics \/ s.op = "label"
      BY TokensOf DEF Mnemonics
  <2>2. s.op \notin Plain => s.arg \in Nat \cup Name
      BY TokensOf
  <2>3. s.op = "label" => s.arg \in Name
      BY TokensOf DEF Plain
  <2>. QED
      BY <2>1, <2>2, <2>3 DEF Words, First, Second
<1>2. CASE s.op \in Plain
  <2>1. Tokens(s) = <<First(s)>>
      BY <1>2, TokensOf DEF Plain, First
  <2>. QED
      BY <1>1, <1>2, <2>1
<1>3. CASE s.op \notin Plain
  <2>1. Tokens(s) = <<First(s), Second(s)>>
      BY <1>3, TokensOf DEF Plain, First, Second
  <2>. QED
      BY <1>1, <1>3, <2>1
<1>. QED
    BY <1>2, <1>3

LEMMA PartsOf ==
    ASSUME NEW p \in Seq(Statement)
    PROVE  /\ Parts(p) \in Seq(Seq(Words)) /\ Len(Parts(p)) = Len(p)
           /\ \A k \in 1 .. Len(p) : Parts(p)[k] = Tokens(p[k]) /\ p[k] \in Statement
<1>1. PICK n \in Nat : n = Len(p) /\ DOMAIN p = 1 .. n
    OBVIOUS
<1>2. \A k \in 1 .. n : p[k] \in Statement
    BY <1>1
<1>3. Parts(p) = [k \in 1 .. n |-> Tokens(p[k])]
    BY <1>1, Zenon DEF Parts
<1>4. \A k \in 1 .. n : Parts(p)[k] = Tokens(p[k])
    BY <1>3
<1>5. \A k \in 1 .. n : Tokens(p[k]) \in Seq(Words)
    BY <1>2, Spelled
<1>6. Parts(p) \in Seq(Seq(Words)) /\ Len(Parts(p)) = n
    BY <1>3, <1>5
<1>. QED
    BY <1>1, <1>2, <1>4, <1>6

\* The tokens of the k-th statement, and the one behind them, from position i on.
Begins(T, k, i) == i = T[k - 1] + 1

Spells(s) == IF s.op \in Plain THEN 1 ELSE 2

\* tokens has the tokens of s from i to e.
Stands(s, tokens, i, e) ==
    /\ e \in Nat /\ e <= Len(tokens) /\ Len(tokens) \in Nat
    /\ e + 1 = i + Spells(s)
    /\ tokens[i] = First(s)
    /\ s.op \notin Plain => tokens[i + 1] = Second(s)
    /\ e < Len(tokens) => tokens[e + 1].typ = "ID"

LEMMA TokensAt ==
    ASSUME NEW p \in Seq(Statement), NEW tokens, NEW T, Laid(Parts(p), tokens, T),
           NEW k \in 1 .. Len(p), NEW i \in Nat, Begins(T, k, i)
    PROVE  Stands(p[k], tokens, i, T[k])
<1>0. i = T[k - 1] + 1
    BY DEF Begins
<1>1. PICK n \in Nat : n = Len(p)
    OBVIOUS
<1>2. PICK parts \in Seq(Seq(Words)) : parts = Parts(p) /\ Len(parts) = n
    BY <1>1, PartsOf
<1>3. \A m \in 1 .. n : parts[m] = Tokens(p[m]) /\ p[m] \in Statement
    BY <1>1, <1>2, PartsOf
<1>4. /\ T \in [0 .. n -> Nat] /\ tokens \in Seq(Words) /\ Len(tokens) = T[n]
      /\ \A m \in 1 .. n :
          /\ T[m] = T[m - 1] + Len(parts[m]) /\ T[m] <= Len(tokens)
          /\ \A j \in 1 .. Len(parts[m]) : tokens[T[m - 1] + j] = parts[m][j]
    BY <1>2 DEF Laid
<1>5. ASSUME NEW m \in 1 .. n
      PROVE  /\ p[m] \in Statement /\ T[m] \in Nat /\ T[m - 1] \in Nat
             /\ T[m] = T[m - 1] + IF p[m].op \in Plain THEN 1 ELSE 2
             /\ tokens[T[m - 1] + 1] = First(p[m])
             /\ p[m].op \notin Plain => tokens[T[m - 1] + 2] = Second(p[m])
  <2>1. p[m] \in Statement /\ T[m] \in Nat /\ T[m - 1] \in Nat
    <3>1. m \in 0 .. n /\ m - 1 \in 0 .. n
        OBVIOUS
    <3>2. p[m] \in Statement
        BY <1>3, Zenon
    <3>. QED
        BY <1>4, <3>1, <3>2, Zenon
  <2>2. /\ Len(parts[m]) = IF p[m].op \in Plain THEN 1 ELSE 2
        /\ parts[m][1] = First(p[m]) /\ (p[m].op \notin Plain => parts[m][2] = Second(p[m]))
      BY <1>3, <2>1, Spelled
  <2>3. 1 \in 1 .. Len(parts[m]) /\ (p[m].op \notin Plain => 2 \in 1 .. Len(parts[m]))
      BY <2>2
  <2>4. T[m] = T[m - 1] + Len(parts[m])
      BY <1>4
  <2>5. \A j \in 1 .. Len(parts[m]) : tokens[T[m - 1] + j] = parts[m][j]
      BY <1>4, Zenon
  <2>6. tokens[T[m - 1] + 1] = parts[m][1]
      BY <2>3, <2>5, Zenon
  <2>7. p[m].op \notin Plain => tokens[T[m - 1] + 2] = parts[m][2]
      BY <2>3, <2>5, Zenon
  <2>. QED
      BY <2>1, <2>2, <2>4, <2>6, <2>7
<1>6. k \in 1 .. n
    BY <1>1
<1>7. i + 1 = T[k - 1] + 2 /\ T[k] <= Len(tokens) /\ Len(tokens) \in Nat
    BY <1>0, <1>4, <1>5, <1>6
<1>8. T[k] < Len(tokens) => tokens[T[k] + 1].typ = "ID"
  <2>. SUFFICES ASSUME T[k] < Len(tokens) PROVE tokens[T[k] + 1].typ = "ID"
      OBVIOUS
  <2>1. k # n
      BY <1>4, <1>7
  <2>2. PICK m \in 1 .. n : m = k + 1 /\ m - 1 = k
      BY <1>6, <2>1
  <2>3. tokens[T[k] + 1] = First(p[m])
      BY <1>5, <2>2, Zenon
  <2>. QED
      BY <2>3 DEF First
<1>9. T[k] + 1 = i + Spells(p[k])
    BY <1>0, <1>5, <1>6 DEF Spells
<1>10. tokens[i + 1] = tokens[T[k - 1] + 2] /\ tokens[i] = tokens[T[k - 1] + 1]
    BY <1>0, <1>7
<1>11. T[k] \in Nat /\ tokens[i] = First(p[k]) /\ (p[k].op \notin Plain => tokens[i + 1] = Second(p[k]))
    BY <1>5, <1>6, <1>10, Zenon
<1>. QED
    BY <1>7, <1>8, <1>9, <1>11 DEF Stands

-----------------------------------------------------------------------------
(* The compiler, statement by statement. *)

Byte == 0 .. 255

\* The number that two bytes make.
Wide(hi, lo) == hi * 256 + lo

Compiler ==
    [i : Nat, code : Seq(Byte), consts : Seq(Nat), names : Seq(Name), starts : SUBSET Nat]

IsPrefixOf(a, b) == Len(a) <= Len(b) /\ \A i \in 1 .. Len(a) : b[i] = a[i]

\* The compiler g has gone on to h.
GoesOn(g, h) ==
    /\ IsPrefixOf(g.code, h.code) /\ IsPrefixOf(g.consts, h.consts)
    /\ IsPrefixOf(g.names, h.names) /\ g.starts \subseteq h.starts

\* A table has v at n.
Has(table, v, n) == n \in 0 .. Len(table) - 1 /\ table[n + 1] = v

\* An instruction op at a in bytes has the argument v of a table.
Refers(bytes, a, op, table, v) ==
    /\ a + 3 <= Len(bytes) /\ bytes[a + 1] = OpCode[op]
    /\ Has(table, v, Wide(bytes[a + 2], bytes[a + 3]))

\* The bytes of statement s are at a.
Lies(s, a, g) ==
    /\ s.op # "label" => a \in g.starts
    /\ s.op = "PUSH"  => Refers(g.code, a, "LOAD_CONST", g.consts, s.arg)
    /\ s.op = "STORE" => Refers(g.code, a, "STORE_NAME", g.names, s.arg)
    /\ s.op = "LOAD"  => Refers(g.code, a, "LOAD_NAME", g.names, s.arg)
    /\ s.op \in DOMAIN OpCode => a + 1 <= Len(g.code) /\ g.code[a + 1] = OpCode[s.op]

\* How many they are.
Size(s) == IF s.op = "label" THEN 0 ELSE IF s.op \in {"PUSH", "STORE", "LOAD"} THEN 3 ELSE 1

\* An instruction keeps its argument when code and table grow.
LEMMA StillRefers ==
    ASSUME NEW S, NEW bytes \in Seq(Byte), NEW more \in Seq(Byte), IsPrefixOf(bytes, more),
           NEW table \in Seq(S), NEW longer \in Seq(S), IsPrefixOf(table, longer),
           NEW a \in Nat, NEW op, NEW v, Refers(bytes, a, op, table, v)
    PROVE  Refers(more, a, op, longer, v)
<1>. DEFINE n == Wide(bytes[a + 2], bytes[a + 3])
<1>1. /\ a + 3 <= Len(bytes) /\ bytes[a + 1] = OpCode[op]
      /\ Has(table, v, n)
    BY DEF Refers
<1>2. a + 1 \in 1 .. Len(bytes) /\ a + 2 \in 1 .. Len(bytes) /\ a + 3 \in 1 .. Len(bytes)
    BY <1>1
<1>3. /\ more[a + 1] = bytes[a + 1] /\ more[a + 2] = bytes[a + 2] /\ more[a + 3] = bytes[a + 3]
      /\ Len(bytes) <= Len(more)
    BY <1>2, Zenon DEF IsPrefixOf
<1>4. Wide(more[a + 2], more[a + 3]) = n
    BY <1>3
<1>. HIDE DEF n
<1>5. Has(longer, v, n)
  <2>1. n + 1 \in 1 .. Len(table)
      BY <1>1 DEF Has
  <2>2. longer[n + 1] = table[n + 1] /\ Len(table) <= Len(longer)
      BY <2>1, Zenon DEF IsPrefixOf
  <2>. QED
      BY <1>1, <2>2 DEF Has
<1>6. a + 3 <= Len(more)
    BY <1>1, <1>3
<1>. QED
    BY <1>1, <1>3, <1>4, <1>5, <1>6 DEF Refers

LEMMA StillLies ==
    ASSUME NEW g \in Compiler, NEW h \in Compiler, GoesOn(g, h), NEW a \in Nat, NEW s, Lies(s, a, g)
    PROVE  Lies(s, a, h)
<1>1. /\ g.code \in Seq(Byte) /\ g.consts \in Seq(Nat) /\ g.names \in Seq(Name)
      /\ h.code \in Seq(Byte) /\ h.consts \in Seq(Nat) /\ h.names \in Seq(Name)
    BY DEF Compiler
<1>2. \A op, v : Refers(g.code, a, op, g.consts, v) => Refers(h.code, a, op, h.consts, v)
    BY <1>1, StillRefers DEF GoesOn
<1>3. \A op, v : Refers(g.code, a, op, g.names, v) => Refers(h.code, a, op, h.names, v)
    BY <1>1, StillRefers DEF GoesOn
<1>4. a + 1 <= Len(g.code) => a + 1 <= Len(h.code) /\ h.code[a + 1] = g.code[a + 1]
    BY <1>1 DEF GoesOn, IsPrefixOf
<1>. QED
    BY <1>2, <1>3, <1>4 DEF Lies, GoesOn

\* The table with v in it, and where v is.
LEMMA InTable ==
    ASSUME NEW S, NEW table \in Seq(S), NEW v \in S, NEW t, t = Table(table, v)
    PROVE  /\ t \in Seq(S) /\ IsPrefixOf(table, t)
           /\ Has(t, v, IndexIn(t, v))
<1>. DEFINE I == {i \in 1 .. Len(t) : t[i] = v}
<1>1. t \in Seq(S) /\ IsPrefixOf(table, t) /\ \E i \in 1 .. Len(t) : t[i] = v
  <2>1. CASE Contains(table, v)
      BY <2>1 DEF Table, Contains, IsPrefixOf
  <2>2. CASE ~ Contains(table, v)
    <3>1. t = Append(table, v)
        BY <2>2 DEF Table
    <3>2. /\ Append(table, v) \in Seq(S) /\ Len(Append(table, v)) = Len(table) + 1
          /\ Append(table, v)[Len(table) + 1] = v
          /\ \A i \in 1 .. Len(table) : Append(table, v)[i] = table[i]
        OBVIOUS
    <3>. QED
        BY <3>1, <3>2 DEF IsPrefixOf
  <2>. QED
      BY <2>1, <2>2
<1>2. I \in SUBSET Nat /\ I # {}
    BY <1>1
<1>3. PICK m \in I : \A i \in I : m <= i
  <2>. HIDE DEF I
  <2>. QED
      BY <1>2, Least
<1>4. Min(I) \in I
    BY <1>3, Zenon DEF Min
<1>5. IndexIn(t, v) = Min(I) - 1
    BY <1>2, Zenon DEF IndexIn, SelectInSeq
<1>6. Has(t, v, IndexIn(t, v))
    BY <1>1, <1>4, <1>5 DEF Has
<1>. QED
    BY <1>1, <1>6

\* An argument of 16 bits.
LEMMA Argument ==
    ASSUME NEW n \in Nat
    PROVE  /\ Arg16(n) \in Seq(Byte) /\ Len(Arg16(n)) = 2
           /\ n < MaxEntries => Wide(Arg16(n)[1], Arg16(n)[2]) = n
<1>. DEFINE hi == (n \div 256) % 256
            lo == n % 256
<1>1. /\ hi \in Byte /\ lo \in Byte
      /\ n < MaxEntries => Wide(hi, lo) = n
    BY DEF Byte, Wide, MaxEntries
<1>2. Arg16(n) = <<hi, lo>>
    BY DEF Arg16
<1>. HIDE DEF hi, lo
<1>3. <<hi, lo>> \in Seq(Byte) /\ Len(<<hi, lo>>) = 2 /\ <<hi, lo>>[1] = hi /\ <<hi, lo>>[2] = lo
    BY <1>1
<1>. QED
    BY <1>1, <1>2, <1>3, Zenon

LEMMA OpCodes ==
    ASSUME NEW op \in DOMAIN OpCode
    PROVE  /\ OpCode[op] \in Byte
           /\ <<OpCode[op]>> \in Seq(Byte) /\ Len(<<OpCode[op]>>) = 1 /\ <<OpCode[op]>>[1] = OpCode[op]
<1>1. OpCode[op] \in Byte
    BY DEF OpCode, Byte
<1>2. PICK c \in Byte : c = OpCode[op]
    BY <1>1
<1>3. <<c>> \in Seq(Byte) /\ Len(<<c>>) = 1 /\ <<c>>[1] = c
    OBVIOUS
<1>. QED
    BY <1>1, <1>2, <1>3, Zenon

\* An instruction with an argument, behind other bytes.
WithArg(op, n) == <<OpCode[op]>> \o Arg16(n)

LEMMA Instruction ==
    ASSUME NEW S, NEW t \in Seq(S), NEW v \in S, NEW n, Has(t, v, n),
           NEW bytes \in Seq(Byte), NEW op \in DOMAIN OpCode
    PROVE  /\ bytes \o WithArg(op, n) \in Seq(Byte) /\ IsPrefixOf(bytes, bytes \o WithArg(op, n))
           /\ Len(bytes \o WithArg(op, n)) = Len(bytes) + 3
           /\ Len(t) <= MaxEntries => Refers(bytes \o WithArg(op, n), Len(bytes), op, t, v)
<1>. DEFINE more == bytes \o WithArg(op, n)
<1>1. n \in Nat
    BY DEF Has
<1>3. PICK x \in Seq(Byte) : x = <<OpCode[op]>> /\ Len(x) = 1 /\ x[1] = OpCode[op]
    BY OpCodes, Zenon
<1>4. PICK y \in Seq(Byte) :
          y = Arg16(n) /\ Len(y) = 2 /\ (n < MaxEntries => Wide(y[1], y[2]) = n)
    BY <1>1, Argument, Zenon
<1>5. PICK z \in Seq(Byte) :
          /\ z = x \o y /\ Len(z) = Len(x) + Len(y)
          /\ \A i \in 1 .. Len(x) : z[i] = x[i]
          /\ \A i \in 1 .. Len(y) : z[Len(x) + i] = y[i]
  <2>1. /\ x \o y \in Seq(Byte) /\ Len(x \o y) = Len(x) + Len(y)
        /\ \A i \in 1 .. Len(x) : (x \o y)[i] = x[i]
        /\ \A i \in 1 .. Len(y) : (x \o y)[Len(x) + i] = y[i]
      BY TwoParts
  <2>. QED
      BY <2>1, Zenon
<1>6. more = bytes \o z
    BY <1>3, <1>4, <1>5, Zenon DEF WithArg
<1>7. /\ more \in Seq(Byte) /\ Len(more) = Len(bytes) + Len(z)
      /\ \A i \in 1 .. Len(bytes) : more[i] = bytes[i]
      /\ \A i \in 1 .. Len(z) : more[Len(bytes) + i] = z[i]
  <2>1. /\ bytes \o z \in Seq(Byte) /\ Len(bytes \o z) = Len(bytes) + Len(z)
        /\ \A i \in 1 .. Len(bytes) : (bytes \o z)[i] = bytes[i]
        /\ \A i \in 1 .. Len(z) : (bytes \o z)[Len(bytes) + i] = z[i]
      BY TwoParts
  <2>. QED
      BY <1>6, <2>1, Zenon
<1>. HIDE DEF more
<1>8. PICK w \in Seq(Byte) : w = more
    BY <1>7
<1>9. PICK a \in Nat : a = Len(bytes)
    OBVIOUS
<1>10. Len(z) = 3 /\ z[1] = OpCode[op] /\ z[2] = y[1] /\ z[3] = y[2]
  <2>. HIDE <1>6
  <2>1. 1 \in 1 .. Len(x) /\ 1 \in 1 .. Len(y) /\ 2 \in 1 .. Len(y)
      BY <1>3, <1>4
  <2>2. z[1] = x[1] /\ z[Len(x) + 1] = y[1] /\ z[Len(x) + 2] = y[2]
      BY <1>5, <2>1, Zenon
  <2>. QED
      BY <1>3, <1>4, <1>5, <2>2
<1>11. Len(w) = a + 3 /\ w[a + 1] = OpCode[op] /\ w[a + 2] = y[1] /\ w[a + 3] = y[2]
  <2>1. 1 \in 1 .. Len(z) /\ 2 \in 1 .. Len(z) /\ 3 \in 1 .. Len(z)
      BY <1>10
  <2>2. w[a + 1] = z[1] /\ w[a + 2] = z[2] /\ w[a + 3] = z[3] /\ Len(w) = a + Len(z)
      BY <1>7, <1>8, <1>9, <2>1, Zenon
  <2>. QED
      BY <1>10, <2>2
<1>12. IsPrefixOf(bytes, w)
  <2>1. \A i \in 1 .. Len(bytes) : w[i] = bytes[i]
      BY <1>7, <1>8, Zenon
  <2>2. Len(bytes) <= Len(w)
      BY <1>9, <1>11
  <2>. QED
      BY <2>1, <2>2, Zenon DEF IsPrefixOf
<1>13. ASSUME Len(t) <= MaxEntries PROVE Refers(w, a, op, t, v)
  <2>1. n < MaxEntries
      BY <1>13 DEF Has, MaxEntries
  <2>2. Wide(y[1], y[2]) = n
      BY <1>4, <2>1, Zenon
  <2>3. Wide(w[a + 2], w[a + 3]) = n
      BY <1>11, <2>2
  <2>. QED
      BY <1>11, <2>3 DEF Refers
<1>. QED
    BY <1>7, <1>8, <1>9, <1>11, <1>12, <1>13, Zenon DEF more

\* An instruction that refers to v, which goes into the table if it is not there.
LEMMA Referring ==
    ASSUME NEW S, NEW table \in Seq(S), NEW v \in S, NEW bytes \in Seq(Byte),
           NEW op \in DOMAIN OpCode
    PROVE  \E t \in Seq(S), b \in Seq(Byte) :
              /\ t = Table(table, v) /\ IsPrefixOf(table, t)
              /\ b = bytes \o WithArg(op, IndexIn(t, v))
              /\ IsPrefixOf(bytes, b) /\ Len(b) = Len(bytes) + 3
              /\ Len(t) <= MaxEntries => Refers(b, Len(bytes), op, t, v)
<1>1. PICK t : t = Table(table, v)
    OBVIOUS
<1>2. t \in Seq(S) /\ IsPrefixOf(table, t) /\ Has(t, v, IndexIn(t, v))
    BY <1>1, InTable, Zenon
<1>3. PICK b : b = bytes \o WithArg(op, IndexIn(t, v))
    OBVIOUS
<1>4. /\ b \in Seq(Byte) /\ IsPrefixOf(bytes, b) /\ Len(b) = Len(bytes) + 3
      /\ Len(t) <= MaxEntries => Refers(b, Len(bytes), op, t, v)
  <2>1. /\ bytes \o WithArg(op, IndexIn(t, v)) \in Seq(Byte)
        /\ IsPrefixOf(bytes, bytes \o WithArg(op, IndexIn(t, v)))
        /\ Len(bytes \o WithArg(op, IndexIn(t, v))) = Len(bytes) + 3
        /\ Len(t) <= MaxEntries
              => Refers(bytes \o WithArg(op, IndexIn(t, v)), Len(bytes), op, t, v)
      BY <1>2, Instruction, Zenon
  <2>. QED
      BY <1>3, <2>1, Zenon
<1>. QED
    BY <1>1, <1>2, <1>3, <1>4, Zenon

Fits(g) == Len(g.consts) <= MaxEntries /\ Len(g.names) <= MaxEntries

\* The compiler has gone on from g to h over statement s.
Compiles(s, g, h) ==
    /\ h \in Compiler /\ GoesOn(g, h)
    /\ Len(h.code) = Len(g.code) + Size(s)
    /\ Fits(h) => Lies(s, Len(g.code), h)

Compiling(i, b, c, w, a) == [i |-> i, code |-> b, consts |-> c, names |-> w, starts |-> a]

\* The parts of a compiler.
LEMMA PartsOfCompiler ==
    ASSUME NEW g \in Compiler
    PROVE  /\ g.i \in Nat /\ g.code \in Seq(Byte) /\ g.consts \in Seq(Nat) /\ g.names \in Seq(Name)
           /\ g.starts \in SUBSET Nat
           /\ g = Compiling(g.i, g.code, g.consts, g.names, g.starts)
BY DEF Compiler, Compiling

LEMMA CompilerOf ==
    ASSUME NEW i \in Nat, NEW bytes \in Seq(Byte), NEW numbers \in Seq(Nat), NEW words \in Seq(Name),
           NEW places \in SUBSET Nat
    PROVE  Compiling(i, bytes, numbers, words, places) \in Compiler
BY DEF Compiler, Compiling

\* The compiler after an instruction.
LEMMA Emitted ==
    ASSUME NEW g \in Compiler, NEW bytes, NEW n
    PROVE  Emit(g, bytes, n)
             = Compiling(g.i + n, g.code \o bytes, g.consts, g.names, g.starts \cup {Len(g.code)})
<1>1. PICK i, b, c, w, a : i = g.i /\ b = g.code /\ c = g.consts /\ w = g.names /\ a = g.starts
    OBVIOUS
<1>. DEFINE r == Compiling(i, b, c, w, a)
            e == Emit(r, bytes, n)
<1>2. g = r
    BY <1>1, PartsOfCompiler, Zenon
<1>3. /\ e.i = i + n /\ e.code = b \o bytes /\ e.consts = c /\ e.names = w
      /\ e.starts = a \cup {Len(b)}
    BY DEF Emit, Compiling
<1>4. DOMAIN e = {"i", "code", "consts", "names", "starts"} /\ e = [x \in DOMAIN e |-> e[x]]
    BY DEF Emit, Compiling
<1>. HIDE DEF r, e
<1>5. e = Compiling(e.i, e.code, e.consts, e.names, e.starts)
    BY <1>4 DEF Compiling
<1>6. Emit(g, bytes, n) = e
    BY <1>2, Zenon DEF e
<1>7. e = Compiling(i + n, b \o bytes, c, w, a \cup {Len(b)})
    BY <1>3, <1>5, Zenon
<1>. QED
    BY <1>1, <1>6, <1>7, Zenon

LEMMA PushCompiles ==
    ASSUME NEW g \in Compiler, NEW s, s.op = "PUSH", s.arg \in Nat
    PROVE  Compiles(s, g, EmitPush(g, s.arg)) /\ EmitPush(g, s.arg).i = g.i + 2
<1>1. /\ g.code \in Seq(Byte) /\ g.consts \in Seq(Nat) /\ g.names \in Seq(Name)
      /\ g.i \in Nat /\ g.starts \in SUBSET Nat
    BY PartsOfCompiler
<1>2. "LOAD_CONST" \in DOMAIN OpCode /\ OpCode.LOAD_CONST = OpCode["LOAD_CONST"]
    BY DEF OpCode
<1>3. PICK t \in Seq(Nat), b \in Seq(Byte) :
          /\ t = Table(g.consts, s.arg) /\ IsPrefixOf(g.consts, t)
          /\ b = g.code \o WithArg("LOAD_CONST", IndexIn(t, s.arg))
          /\ IsPrefixOf(g.code, b) /\ Len(b) = Len(g.code) + 3
          /\ Len(t) <= MaxEntries => Refers(b, Len(g.code), "LOAD_CONST", t, s.arg)
    BY <1>1, <1>2, Referring, Zenon
<1>4. PICK h : h = Compiling(g.i + 2, b, t, g.names, g.starts \cup {Len(g.code)})
    OBVIOUS
<1>5. EmitPush(g, s.arg) = h
  <2>1. PICK e : e = Emit(g, WithArg("LOAD_CONST", IndexIn(t, s.arg)), 2)
      OBVIOUS
  <2>2. e = Compiling(g.i + 2, b, g.consts, g.names, g.starts \cup {Len(g.code)})
      BY <1>3, <2>1, Emitted, Zenon
  <2>3. [Compiling(g.i + 2, b, g.consts, g.names, g.starts \cup {Len(g.code)}) EXCEPT !.consts = t]
            = Compiling(g.i + 2, b, t, g.names, g.starts \cup {Len(g.code)})
    <3>1. PICK i, c, w, a : i = g.i + 2 /\ c = g.consts /\ w = g.names /\ a = g.starts \cup {Len(g.code)}
        OBVIOUS
    <3>2. [Compiling(i, b, c, w, a) EXCEPT !.consts = t] = Compiling(i, b, t, w, a)
        BY DEF Compiling
    <3>. QED
        BY <3>1, <3>2, Zenon
  <2>4. [e EXCEPT !.consts = t] = h
      BY <1>4, <2>2, <2>3, Zenon
  <2>. QED
      BY <1>2, <1>3, <2>1, <2>4, Zenon DEF EmitPush, WithArg
<1>6. /\ h.i = g.i + 2 /\ h.code = b /\ h.consts = t /\ h.names = g.names
      /\ h.starts = g.starts \cup {Len(g.code)}
    BY <1>4 DEF Compiling
<1>7. h \in Compiler
  <2>1. g.i + 2 \in Nat /\ g.starts \cup {Len(g.code)} \in SUBSET Nat
      BY <1>1
  <2>. QED
      BY <1>1, <1>4, <2>1, CompilerOf, Zenon
<1>8. GoesOn(g, h)
  <2>1. IsPrefixOf(g.names, g.names)
      BY <1>1 DEF IsPrefixOf
  <2>2. g.starts \subseteq g.starts \cup {Len(g.code)}
      OBVIOUS
  <2>. QED
      BY <1>3, <1>6, <2>1, <2>2, Zenon DEF GoesOn
<1>9. Fits(h) => Lies(s, Len(g.code), h)
  <2>1. s.op \notin DOMAIN OpCode /\ s.op # "STORE" /\ s.op # "LOAD"
      BY DEF OpCode
  <2>2. Len(g.code) \in g.starts \cup {Len(g.code)}
      OBVIOUS
  <2>. QED
      BY <1>3, <1>6, <2>1, <2>2, Zenon DEF Fits, Lies
<1>10. Len(h.code) = Len(g.code) + Size(s)
  <2>1. Size(s) = 3
      BY DEF Size
  <2>. QED
      BY <1>3, <1>6, <2>1, Zenon
<1>. QED
    BY <1>5, <1>6, <1>7, <1>8, <1>9, <1>10, Zenon DEF Compiles

Accesses(s, op) ==
    \/ s.op = "STORE" /\ op = "STORE_NAME"
    \/ s.op = "LOAD" /\ op = "LOAD_NAME"

LEMMA NameCompiles ==
    ASSUME NEW g \in Compiler, NEW s, s.arg \in Name, NEW op, Accesses(s, op)
    PROVE  /\ Compiles(s, g, EmitName(g, OpCode[op], s.arg))
           /\ EmitName(g, OpCode[op], s.arg).i = g.i + 2
<1>1. /\ g.code \in Seq(Byte) /\ g.consts \in Seq(Nat) /\ g.names \in Seq(Name)
      /\ g.i \in Nat /\ g.starts \in SUBSET Nat
    BY PartsOfCompiler
<1>2. op \in DOMAIN OpCode
    BY DEF OpCode, Accesses
<1>3. PICK t \in Seq(Name), b \in Seq(Byte) :
          /\ t = Table(g.names, s.arg) /\ IsPrefixOf(g.names, t)
          /\ b = g.code \o WithArg(op, IndexIn(t, s.arg))
          /\ IsPrefixOf(g.code, b) /\ Len(b) = Len(g.code) + 3
          /\ Len(t) <= MaxEntries => Refers(b, Len(g.code), op, t, s.arg)
    BY <1>1, <1>2, Referring
<1>4. PICK h : h = Compiling(g.i + 2, b, g.consts, t, g.starts \cup {Len(g.code)})
    OBVIOUS
<1>5. EmitName(g, OpCode[op], s.arg) = h
  <2>1. PICK e : e = Emit(g, WithArg(op, IndexIn(t, s.arg)), 2)
      OBVIOUS
  <2>2. e = Compiling(g.i + 2, b, g.consts, g.names, g.starts \cup {Len(g.code)})
      BY <1>3, <2>1, Emitted, Zenon
  <2>3. [Compiling(g.i + 2, b, g.consts, g.names, g.starts \cup {Len(g.code)}) EXCEPT !.names = t]
            = Compiling(g.i + 2, b, g.consts, t, g.starts \cup {Len(g.code)})
    <3>1. PICK i, c, w, a : i = g.i + 2 /\ c = g.consts /\ w = g.names /\ a = g.starts \cup {Len(g.code)}
        OBVIOUS
    <3>2. [Compiling(i, b, c, w, a) EXCEPT !.names = t] = Compiling(i, b, c, t, a)
        BY DEF Compiling
    <3>. QED
        BY <3>1, <3>2, Zenon
  <2>4. [e EXCEPT !.names = t] = h
      BY <1>4, <2>2, <2>3, Zenon
  <2>. QED
      BY <1>3, <2>1, <2>4, Zenon DEF EmitName, WithArg
<1>6. /\ h.i = g.i + 2 /\ h.code = b /\ h.consts = g.consts /\ h.names = t
      /\ h.starts = g.starts \cup {Len(g.code)}
    BY <1>4 DEF Compiling
<1>7. h \in Compiler
  <2>1. g.i + 2 \in Nat /\ g.starts \cup {Len(g.code)} \in SUBSET Nat
      BY <1>1
  <2>. QED
      BY <1>1, <1>4, <2>1, CompilerOf, Zenon
<1>8. GoesOn(g, h)
  <2>1. IsPrefixOf(g.consts, g.consts)
      BY <1>1 DEF IsPrefixOf
  <2>2. g.starts \subseteq g.starts \cup {Len(g.code)}
      OBVIOUS
  <2>. QED
      BY <1>3, <1>6, <2>1, <2>2, Zenon DEF GoesOn
<1>9. Fits(h) => Lies(s, Len(g.code), h)
  <2>1. s.op \notin DOMAIN OpCode /\ s.op # "PUSH"
      BY DEF OpCode, Accesses
  <2>2. Len(g.code) \in g.starts \cup {Len(g.code)}
      OBVIOUS
  <2>3. \/ s.op = "STORE" /\ s.op # "LOAD" /\ op = "STORE_NAME"
        \/ s.op = "LOAD" /\ s.op # "STORE" /\ op = "LOAD_NAME"
      BY DEF Accesses
  <2>. QED
      BY <1>3, <1>6, <2>1, <2>2, <2>3, Zenon DEF Fits, Lies
<1>10. Len(h.code) = Len(g.code) + Size(s)
  <2>1. Size(s) = 3
      BY DEF Size, Accesses
  <2>. QED
      BY <1>3, <1>6, <2>1, Zenon
<1>. QED
    BY <1>5, <1>6, <1>7, <1>8, <1>9, <1>10, Zenon DEF Compiles

\* An instruction without an argument.
LEMMA PlainCompiles ==
    ASSUME NEW g \in Compiler, NEW s, s.op \in Plain \cup {"JMP", "JMP_IF_FALSE"}, NEW n \in Nat
    PROVE  Compiles(s, g, Compiling(g.i + n, g.code \o <<OpCode[s.op]>>, g.consts, g.names,
                                    g.starts \cup {Len(g.code)}))
<1>0. PICK h : h = Compiling(g.i + n, g.code \o <<OpCode[s.op]>>, g.consts, g.names,
                             g.starts \cup {Len(g.code)})
    OBVIOUS
<1>1. /\ g.code \in Seq(Byte) /\ g.consts \in Seq(Nat) /\ g.names \in Seq(Name)
      /\ g.i \in Nat /\ g.starts \in SUBSET Nat
    BY PartsOfCompiler
<1>2. s.op \in DOMAIN OpCode /\ s.op # "label" /\ s.op \notin {"PUSH", "STORE", "LOAD"}
    BY DEF Plain, OpCode
<1>3. PICK b \in Seq(Byte) : b = <<OpCode[s.op]>> /\ Len(b) = 1 /\ b[1] = OpCode[s.op]
    BY <1>2, OpCodes, Zenon
<1>4. PICK more \in Seq(Byte) :
          /\ more = g.code \o b /\ Len(more) = Len(g.code) + Len(b)
          /\ \A i \in 1 .. Len(g.code) : more[i] = g.code[i]
          /\ \A i \in 1 .. Len(b) : more[Len(g.code) + i] = b[i]
  <2>1. PICK c \in Seq(Byte) : c = g.code
      BY <1>1
  <2>2. /\ c \o b \in Seq(Byte) /\ Len(c \o b) = Len(c) + Len(b)
        /\ \A i \in 1 .. Len(c) : (c \o b)[i] = c[i]
        /\ \A i \in 1 .. Len(b) : (c \o b)[Len(c) + i] = b[i]
      BY TwoParts
  <2>. QED
      BY <2>1, <2>2, Zenon
<1>5. h = Compiling(g.i + n, more, g.consts, g.names, g.starts \cup {Len(g.code)})
    BY <1>0, <1>3, <1>4, Zenon
<1>6. /\ h.i = g.i + n /\ h.code = more /\ h.consts = g.consts /\ h.names = g.names
      /\ h.starts = g.starts \cup {Len(g.code)}
    BY <1>5 DEF Compiling
<1>7. h \in Compiler
  <2>1. g.i + n \in Nat /\ g.starts \cup {Len(g.code)} \in SUBSET Nat
      BY <1>1
  <2>. QED
    <3>1. Compiling(g.i + n, more, g.consts, g.names, g.starts \cup {Len(g.code)}) \in Compiler
        BY <1>1, <2>1, CompilerOf, Zenon
    <3>. QED
        BY <1>5, <3>1, Zenon
<1>8. PICK l \in Nat, m \in Nat : l = Len(g.code) /\ m = Len(more) /\ m = l + 1 /\ more[l + 1] = OpCode[s.op]
  <2>1. Len(more) = Len(g.code) + 1 /\ Len(g.code) \in Nat /\ 1 \in 1 .. Len(b)
      BY <1>1, <1>3, <1>4
  <2>2. more[Len(g.code) + 1] = OpCode[s.op]
      BY <1>3, <1>4, <2>1, Zenon
  <2>. QED
      BY <2>1, <2>2
<1>9. GoesOn(g, h)
  <2>1. IsPrefixOf(g.consts, g.consts) /\ IsPrefixOf(g.names, g.names)
      BY <1>1 DEF IsPrefixOf
  <2>2. g.starts \subseteq g.starts \cup {Len(g.code)} /\ l <= m
      BY <1>8
  <2>3. IsPrefixOf(g.code, more)
      BY <1>4, <1>8, <2>2, Zenon DEF IsPrefixOf
  <2>. QED
      BY <1>6, <2>1, <2>2, <2>3, Zenon DEF GoesOn
<1>10. Lies(s, Len(g.code), h)
  <2>1. l \in g.starts \cup {l} /\ l + 1 <= m
      BY <1>8
  <2>2. s.op # "PUSH" /\ s.op # "STORE" /\ s.op # "LOAD"
      BY <1>2
  <2>. QED
      BY <1>6, <1>8, <2>1, <2>2, Zenon DEF Lies
<1>11. Len(h.code) = Len(g.code) + Size(s)
  <2>1. Size(s) = 1
      BY <1>2 DEF Size
  <2>. QED
      BY <1>6, <1>8, <2>1, Zenon
<1>. QED
    BY <1>0, <1>7, <1>9, <1>10, <1>11, Zenon DEF Compiles

\* What an identifier v with no colon behind it is taken for.
Reads(g, tokens, v) ==
    /\ ~ (g.i < Len(tokens) /\ tokens[g.i + 1].typ = "SYM")
    /\ tokens[g.i].typ = "ID" /\ Word(tokens[g.i].val) = v

LEMMA Branches ==
    ASSUME NEW g, NEW tokens, NEW v, Reads(g, tokens, v)
    PROVE  /\ v \in DOMAIN OpCode => Generate(g, tokens) = Emit(g, <<OpCode[v]>>, 1)
           /\ v = "PUSH" => Generate(g, tokens) = EmitPush(g, tokens[g.i + 1].val)
           /\ v = "STORE" => Generate(g, tokens) = EmitName(g, OpCode["STORE_NAME"], tokens[g.i + 1].val)
           /\ v = "LOAD" => Generate(g, tokens) = EmitName(g, OpCode["LOAD_NAME"], tokens[g.i + 1].val)
           /\ v \notin Mnemonics => Generate(g, tokens) = [g EXCEPT !.i = g.i + 1]
<1>1. /\ "PUSH" \notin DOMAIN OpCode /\ "STORE" \notin DOMAIN OpCode /\ "LOAD" \notin DOMAIN OpCode
      /\ OpCode.STORE_NAME = OpCode["STORE_NAME"] /\ OpCode.LOAD_NAME = OpCode["LOAD_NAME"]
    BY DEF OpCode
<1>2. Generate(g, tokens) =
        CASE v \in DOMAIN OpCode -> Emit(g, <<OpCode[v]>>, 1)
          [] v = "PUSH"  -> EmitPush(g, tokens[g.i + 1].val)
          [] v = "STORE" -> EmitName(g, OpCode.STORE_NAME, tokens[g.i + 1].val)
          [] v = "LOAD"  -> EmitName(g, OpCode.LOAD_NAME, tokens[g.i + 1].val)
          [] OTHER       -> [g EXCEPT !.i = g.i + 1]
    BY Zenon DEF Generate, Reads
<1>. QED
    BY <1>1, <1>2 DEF Mnemonics

\* A label emits nothing.
LEMMA LabelCompiles ==
    ASSUME NEW g \in Compiler, NEW s, s.op = "label"
    PROVE  Compiles(s, g, [g EXCEPT !.i = g.i + 2]) /\ [g EXCEPT !.i = g.i + 2].i = g.i + 2
<1>1. /\ g.code \in Seq(Byte) /\ g.consts \in Seq(Nat) /\ g.names \in Seq(Name)
      /\ g.i \in Nat /\ g.starts \in SUBSET Nat
    BY PartsOfCompiler
<1>2. PICK h : h = [g EXCEPT !.i = g.i + 2]
    OBVIOUS
<1>3. h.i = g.i + 2 /\ h.code = g.code /\ h.consts = g.consts /\ h.names = g.names /\ h.starts = g.starts
    BY <1>2 DEF Compiler
<1>4. h \in Compiler
  <2>1. DOMAIN h = {"i", "code", "consts", "names", "starts"} /\ h = [x \in DOMAIN h |-> h[x]]
      BY <1>2 DEF Compiler
  <2>2. h = Compiling(h.i, h.code, h.consts, h.names, h.starts)
    <3>. HIDE <1>2, <1>3
    <3>. QED
        BY <2>1 DEF Compiling
  <2>3. h.i \in Nat
      BY <1>1, <1>3
  <2>4. Compiling(h.i, h.code, h.consts, h.names, h.starts) \in Compiler
      BY <1>1, <1>3, <2>3, CompilerOf
  <2>. QED
      BY <2>2, <2>4, Zenon
<1>5. GoesOn(g, h)
    BY <1>1, <1>3 DEF GoesOn, IsPrefixOf
<1>6. Lies(s, Len(g.code), h)
    BY DEF Lies, OpCode
<1>7. Len(h.code) = Len(g.code) + Size(s)
    BY <1>1, <1>3 DEF Size
<1>. QED
    BY <1>2, <1>3, <1>4, <1>5, <1>6, <1>7, Zenon DEF Compiles

\* The turns over the tokens of a statement.
Makes(s, g, tokens, end, h) ==
    /\ Compiles(s, g, h) /\ h.i = end + 1
    /\ g.i <= Len(tokens) /\ g.i <= end
    /\ \/ h = Generate(g, tokens)
       \/ /\ h = Generate(Generate(g, tokens), tokens)
          /\ ~ (Generate(g, tokens).i > Len(tokens)) /\ g.i + 1 <= end

LEMMA Generates ==
    ASSUME NEW p \in Seq(Statement), NEW tokens, NEW T, Laid(Parts(p), tokens, T),
           NEW k \in 1 .. Len(p), NEW g \in Compiler, Begins(T, k, g.i)
    PROVE  \E h \in Compiler : Makes(p[k], g, tokens, T[k], h)
<1>. SUFFICES \E h \in Compiler :
              /\ Compiles(p[k], g, h) /\ h.i = T[k] + 1
              /\ g.i <= Len(tokens) /\ g.i <= T[k]
              /\ \/ h = Generate(g, tokens)
                 \/ /\ h = Generate(Generate(g, tokens), tokens)
                    /\ ~ (Generate(g, tokens).i > Len(tokens)) /\ g.i + 1 <= T[k]
    BY Zenon DEF Makes
<1>1. PICK s \in Statement : s = p[k]
    OBVIOUS
<1>2. PICK i \in Nat : i = g.i /\ Begins(T, k, i)
    BY PartsOfCompiler
<1>3. PICK d \in Nat, e \in Nat :
          /\ d = Len(tokens) /\ e = T[k] /\ e <= d
          /\ e + 1 = i + Spells(s)
          /\ tokens[i] = First(s)
          /\ s.op \notin Plain => tokens[i + 1] = Second(s)
          /\ e < d => tokens[e + 1].typ = "ID"
  <2>1. Stands(p[k], tokens, i, T[k])
      BY <1>2, TokensAt, Zenon
  <2>. QED
      BY <1>1, <2>1, Zenon DEF Stands
<1>4. i <= d /\ i <= e
    BY <1>3 DEF Spells
<1>5. CASE s.op = "label"
  <2>1. s.op \notin Plain /\ i < d
      BY <1>3, <1>5 DEF Plain, Spells
  <2>2. tokens[i + 1].typ = "SYM"
      BY <1>3, <1>5, <2>1 DEF Second
  <2>3. Generate(g, tokens) = [g EXCEPT !.i = g.i + 2]
      BY <1>2, <1>3, <2>1, <2>2, Zenon DEF Generate
  <2>4. Compiles(s, g, Generate(g, tokens)) /\ Generate(g, tokens).i = i + 2
      BY <1>2, <1>5, <2>3, LabelCompiles, Zenon
  <2>5. i + 2 = e + 1
      BY <1>3, <2>1 DEF Spells
  <2>. QED
      BY <1>1, <1>2, <1>3, <1>4, <2>4, <2>5, Zenon DEF Compiles
<1>6. CASE s.op # "label"
  <2>1. tokens[i].typ = "ID" /\ tokens[i].val = s.op
      BY <1>3, <1>6 DEF First
  <2>2. ~ (i < d /\ tokens[i + 1].typ = "SYM")
    <3>1. CASE s.op \in Plain
        BY <1>3, <3>1 DEF Spells
    <3>2. CASE s.op \notin Plain
        BY <1>3, <1>6, <3>2 DEF Second
    <3>. QED
        BY <3>1, <3>2
  <2>3. Reads(g, tokens, s.op)
    <3>1. s.op \in Mnemonics
        BY <1>6, TokensOf DEF Mnemonics
    <3>2. Word(s.op) = s.op
        BY <3>1, ProgramsOK, Zenon DEF ProgramsOK, Word
    <3>. QED
        BY <1>2, <1>3, <2>1, <2>2, <3>2, Zenon DEF Reads
  <2>4. CASE s.op = "PUSH"
    <3>1. s.op \notin Plain /\ s.arg \in Nat
        BY <2>4, TokensOf DEF Plain
    <3>2. tokens[g.i + 1].val = s.arg /\ i + 2 = e + 1
        BY <1>2, <1>3, <1>6, <3>1 DEF Second, Spells
    <3>3. Generate(g, tokens) = EmitPush(g, s.arg)
      <4>1. s.op = "PUSH" => Generate(g, tokens) = EmitPush(g, tokens[g.i + 1].val)
          BY <2>3, Branches, Zenon
      <4>. QED
          BY <2>4, <3>2, <4>1, Zenon
    <3>4. Compiles(s, g, Generate(g, tokens)) /\ Generate(g, tokens).i = i + 2
        BY <1>2, <2>4, <3>1, <3>3, PushCompiles, Zenon
    <3>. QED
        BY <1>1, <1>2, <1>3, <1>4, <3>2, <3>4, Zenon DEF Compiles
  <2>5. CASE s.op \in {"STORE", "LOAD"}
    <3>1. s.op \notin Plain /\ s.arg \in Name
        BY <2>5, TokensOf DEF Plain
    <3>2. tokens[g.i + 1].val = s.arg /\ i + 2 = e + 1
        BY <1>2, <1>3, <1>6, <3>1 DEF Second, Spells
    <3>3. PICK op : Accesses(s, op)
      <4>1. s.op = "STORE" \/ s.op = "LOAD"
          BY <2>5
      <4>. QED
          BY <4>1, Zenon DEF Accesses
    <3>4. Generate(g, tokens) = EmitName(g, OpCode[op], s.arg)
      <4>1. /\ s.op = "STORE"
                  => Generate(g, tokens) = EmitName(g, OpCode["STORE_NAME"], tokens[g.i + 1].val)
            /\ s.op = "LOAD"
                  => Generate(g, tokens) = EmitName(g, OpCode["LOAD_NAME"], tokens[g.i + 1].val)
        <5>. HIDE <2>5
        <5>. QED
            BY <2>3, Branches, Zenon
      <4>. QED
          BY <3>2, <3>3, <4>1, Zenon DEF Accesses
    <3>5. Compiles(s, g, Generate(g, tokens)) /\ Generate(g, tokens).i = i + 2
      <4>1. /\ Compiles(s, g, EmitName(g, OpCode[op], s.arg))
            /\ EmitName(g, OpCode[op], s.arg).i = g.i + 2
          BY <3>1, <3>3, NameCompiles, Zenon
      <4>. QED
          BY <1>2, <3>4, <4>1, Zenon
    <3>. QED
        BY <1>1, <1>2, <1>3, <1>4, <3>2, <3>5, Zenon DEF Compiles
  <2>6. CASE s.op \in Plain \cup {"JMP", "JMP_IF_FALSE"}
    <3>1. s.op \in DOMAIN OpCode
        BY <2>6, TokensOf
    <3>2. Generate(g, tokens) = Emit(g, <<OpCode[s.op]>>, 1)
        BY <2>3, <3>1, Branches, Zenon
    <3>3. PICK a : a = Generate(g, tokens)
        OBVIOUS
    <3>4. a = Compiling(g.i + 1, g.code \o <<OpCode[s.op]>>, g.consts, g.names, g.starts \cup {Len(g.code)})
        BY <3>2, <3>3, Emitted, Zenon
    <3>5. CASE s.op \in Plain
      <4>1. Compiles(s, g, a) /\ a.i = g.i + 1
        <5>1. 1 \in Nat /\ g.i + 1 = a.i
            BY <3>4 DEF Compiling
        <5>2. Compiles(s, g, Compiling(g.i + 1, g.code \o <<OpCode[s.op]>>, g.consts, g.names,
                                       g.starts \cup {Len(g.code)}))
            BY <2>6, <5>1, PlainCompiles, Zenon
        <5>. QED
            BY <3>4, <5>1, <5>2, Zenon
      <4>2. i + 1 = e + 1
          BY <1>3, <3>5 DEF Spells
      <4>. QED
          BY <1>1, <1>2, <1>3, <1>4, <3>3, <4>1, <4>2, Zenon DEF Compiles
    <3>6. CASE s.op \notin Plain
      <4>1. s.op \in {"JMP", "JMP_IF_FALSE"} /\ s.op # "PUSH"
          BY <2>6, <3>6
      <4>2. s.arg \in Name /\ Upper[s.arg] \notin Mnemonics
          BY <4>1, TokensOf DEF Plain
      <4>3. a.i = g.i + 1 /\ g.i + 1 = i + 1 /\ i + 1 = e /\ e \in Nat
        <5>1. i + 1 = e
            BY <1>3, <3>6 DEF Spells
        <5>. QED
            BY <1>2, <1>3, <3>4, <5>1 DEF Compiling
      <4>4. tokens[a.i].typ = "ID" /\ tokens[a.i].val = s.arg
          BY <1>3, <1>6, <3>6, <4>1, <4>3 DEF Second
      <4>5. ~ (a.i < Len(tokens) /\ tokens[a.i + 1].typ = "SYM")
          BY <1>2, <1>3, <4>3
      <4>6. Generate(a, tokens) = [a EXCEPT !.i = a.i + 1]
        <5>1. Word(s.arg) = Upper[s.arg]
            BY <4>2, Zenon DEF Word
        <5>2. Reads(a, tokens, Upper[s.arg])
            BY <4>4, <4>5, <5>1, Zenon DEF Reads
        <5>. QED
            BY <4>2, <5>2, Branches, Zenon
      <4>7. Generate(a, tokens)
              = Compiling(g.i + 2, g.code \o <<OpCode[s.op]>>, g.consts, g.names, g.starts \cup {Len(g.code)})
        <5>1. PICK m, n, b, c, w, x : m = g.i + 1 /\ n = m + 1 /\ b = g.code \o <<OpCode[s.op]>> /\ c = g.consts
                                  /\ w = g.names /\ x = g.starts \cup {Len(g.code)}
            OBVIOUS
        <5>2. [Compiling(m, b, c, w, x) EXCEPT !.i = n] = Compiling(n, b, c, w, x)
            BY DEF Compiling
        <5>3. a = Compiling(m, b, c, w, x) /\ a.i = m /\ n = a.i + 1
            BY <3>4, <4>3, <5>1, Zenon
        <5>4. n = g.i + 2
            BY <1>2, <5>1
        <5>. QED
            BY <4>6, <5>1, <5>2, <5>3, <5>4, Zenon
      <4>8. Compiles(s, g, Generate(a, tokens)) /\ Generate(a, tokens).i = g.i + 2
        <5>1. 2 \in Nat /\ g.i + 2 = Generate(a, tokens).i
            BY <4>7 DEF Compiling
        <5>2. Compiles(s, g, Compiling(g.i + 2, g.code \o <<OpCode[s.op]>>, g.consts, g.names,
                                       g.starts \cup {Len(g.code)}))
            BY <2>6, <5>1, PlainCompiles, Zenon
        <5>. QED
            BY <4>7, <5>1, <5>2, Zenon
      <4>9. g.i + 2 = e + 1 /\ ~ (a.i > Len(tokens)) /\ g.i + 1 <= e
          BY <1>2, <1>3, <4>3
      <4>. QED
          BY <1>1, <1>2, <1>3, <1>4, <3>3, <4>8, <4>9, Zenon DEF Compiles
    <3>. QED
        BY <3>5, <3>6
  <2>7. s.op \in {"PUSH"} \cup {"STORE", "LOAD"} \cup (Plain \cup {"JMP", "JMP_IF_FALSE"})
      BY <1>6, TokensOf
  <2>. QED
      BY <2>4, <2>5, <2>6, <2>7
<1>. QED
    BY <1>5, <1>6

Empty == [i |-> 1, code |-> << >>, consts |-> << >>, names |-> << >>, starts |-> {}]

\* The compiler is iterated over the tokens.
LEMMA IsIterated ==
    ASSUME NEW p \in Seq(Statement)
    PROVE  LET tokens == FlattenSeq(Parts(p))
           IN  Len(tokens) \in Nat
                 => \E f : /\ Iterates(f, [of |-> "code", tokens |-> tokens], Len(tokens), Empty)
                           /\ Compiled(p) = f[Len(tokens)]
<1>1. PICK tokens : tokens = FlattenSeq(Parts(p))
    OBVIOUS
<1>. SUFFICES ASSUME Len(tokens) \in Nat
              PROVE  \E f : /\ Iterates(f, [of |-> "code", tokens |-> tokens], Len(tokens), Empty)
                            /\ Compiled(p) = f[Len(tokens)]
    BY <1>1, Zenon
<1>. DEFINE w == [of |-> "code", tokens |-> tokens]
            Solves(f) ==
               f = [n \in 0 .. Len(tokens) |->
                      IF n = 0 THEN Empty
                      ELSE IF f[n - 1].i > Len(tokens) THEN f[n - 1] ELSE Generate(f[n - 1], tokens)]
<1>2. \A k, x : Turn(w, k, x) = IF x.i > Len(tokens) THEN x ELSE Generate(x, tokens)
    BY DEF Turn
<1>. HIDE DEF w
<1>3. \A f : Iterates(f, w, Len(tokens), Empty) <=> Solves(f)
    BY <1>2, ZenonT(40) DEF Iterates
<1>4. \E f : Solves(f)
    BY <1>3, Recursion, Zenon
<1>5. \E f : Solves(f) /\ Compiled(p) = f[Len(tokens)]
    BY <1>1, <1>4, Zenon DEF Compiled, Parts, Empty
<1>. QED
    BY <1>3, <1>5, Zenon DEF w

\* Where the instructions of the statements of p begin in the code of c.
Placed(p, off, c) ==
    /\ c \in Compiler /\ off \in [0 .. Len(p) -> Nat]
    /\ off[0] = 0 /\ Len(c.code) = off[Len(p)]
    /\ \A k \in 1 .. Len(p) : off[k] = off[k - 1] + Size(p[k]) /\ Lies(p[k], off[k - 1], c)

\* After some turns m the compiler is behind the first k statements.
Reached(p, T, off, f, N, k, m) ==
    /\ m \in 0 .. N /\ m <= T[k]
    /\ f[m] \in Compiler /\ f[m].i = T[k] + 1 /\ Len(f[m].code) = off[k]
    /\ Fits(f[m]) => \A j \in 1 .. k : Lies(p[j], off[j - 1], f[m])

LEMMA CodeLies ==
    ASSUME NEW p \in Programs
    PROVE  \E off : Placed(p, off, Compiled(p))
<1>1. p \in Seq(Statement)
    BY ProgramsOK DEF ProgramsOK
<1>2. PICK n \in Nat : n = Len(p)
    BY <1>1
<1>3. PICK tokens : tokens = FlattenSeq(Parts(p))
    OBVIOUS
<1>4. PICK T : Laid(Parts(p), tokens, T)
    BY <1>1, <1>3, PartsOf, Flat, Zenon
<1>5. /\ T \in [0 .. n -> Nat] /\ T[0] = 0 /\ Len(tokens) = T[n] /\ Len(tokens) \in Nat
      /\ \A k \in 1 .. n : T[k] <= Len(tokens)
    BY <1>1, <1>2, <1>4, PartsOf DEF Laid
<1>6. PICK N \in Nat : N = Len(tokens)
    BY <1>5
<1>7. PICK f : /\ Iterates(f, [of |-> "code", tokens |-> tokens], Len(tokens), Empty)
               /\ Compiled(p) = f[Len(tokens)]
    BY <1>1, <1>3, <1>5, IsIterated, Zenon
<1>8. /\ f[0] = Empty
      /\ \A m \in 1 .. N : f[m] = IF f[m - 1].i > N THEN f[m - 1] ELSE Generate(f[m - 1], tokens)
  <2>. DEFINE w == [of |-> "code", tokens |-> tokens]
  <2>1. \A k, x : Turn(w, k, x) = IF x.i > N THEN x ELSE Generate(x, tokens)
      BY <1>6 DEF Turn
  <2>. HIDE DEF w
  <2>2. Iterates(f, w, N, Empty)
      BY <1>6, <1>7, Zenon DEF w
  <2>3. f[0] = Empty /\ \A k \in 1 .. N : f[k] = Turn(w, k, f[k - 1])
      BY <2>2, Turns
  <2>. QED
      BY <2>1, <2>3, Zenon
<1>9. PICK off \in [0 .. n -> Nat] :
          off[0] = 0 /\ \A k \in 1 .. n : off[k] = off[k - 1] + Size(p[k])
  <2>. DEFINE terms == [k \in 1 .. n |-> Size(p[k])]
  <2>1. \A s : Size(s) \in Nat
      BY DEF Size
  <2>2. terms \in [1 .. n -> Nat] /\ \A k \in 1 .. n : terms[k] = Size(p[k])
      BY <2>1
  <2>. HIDE DEF terms
  <2>. QED
      BY <2>2, Sums
<1>. DEFINE H == {k \in 0 .. n : \E m : Reached(p, T, off, f, N, k, m)}
<1>10. 0 \in H
  <2>1. Empty \in Compiler /\ Empty.i = 1 /\ Len(Empty.code) = 0
      BY DEF Empty, Compiler
  <2>2. Reached(p, T, off, f, N, 0, 0)
      BY <1>5, <1>8, <1>9, <2>1 DEF Reached
  <2>. QED
      BY <2>2
<1>11. ASSUME NEW k \in 0 .. n - 1, k \in H PROVE k + 1 \in H
  <2>1. PICK q \in 1 .. n : q = k + 1 /\ q - 1 = k
      OBVIOUS
  <2>2. PICK m : Reached(p, T, off, f, N, k, m)
      BY <1>11
  <2>3. PICK g \in Compiler : g = f[m]
      BY <2>2 DEF Reached
  <2>4. /\ m \in 0 .. N /\ m <= T[k] /\ g.i = T[k] + 1 /\ Len(g.code) = off[k]
        /\ Fits(g) => \A j \in 1 .. k : Lies(p[j], off[j - 1], g)
      BY <2>2, <2>3, Zenon DEF Reached
  <2>5. Begins(T, q, g.i) /\ q \in 1 .. Len(p)
      BY <1>2, <2>1, <2>4 DEF Begins
  <2>6. PICK h \in Compiler :
            /\ Compiles(p[q], g, h) /\ h.i = T[q] + 1
            /\ g.i <= Len(tokens) /\ g.i <= T[q]
            /\ \/ h = Generate(g, tokens)
               \/ /\ h = Generate(Generate(g, tokens), tokens)
                  /\ ~ (Generate(g, tokens).i > Len(tokens)) /\ g.i + 1 <= T[q]
    <3>1. PICK h \in Compiler : Makes(p[q], g, tokens, T[q], h)
        BY <1>1, <1>4, <2>5, Generates, Zenon
    <3>. QED
        BY <3>1, Zenon DEF Makes
  <2>7. PICK a \in Nat, b \in Nat : a = T[k] /\ b = T[q] /\ b <= N
      BY <1>5, <1>6
  <2>8. PICK r : r \in 0 .. N /\ r <= b /\ f[r] = h
    <3>1. m \in 0 .. N /\ m <= a /\ g.i = a + 1 /\ g.i <= N /\ a + 1 <= b
      <4>1. m \in 0 .. N /\ m <= a /\ g.i = a + 1 /\ g.i <= N /\ g.i <= b
          BY <1>6, <2>4, <2>6, <2>7, Zenon
      <4>. QED
          BY <4>1, Zenon
    <3>2. PICK u \in 1 .. N : u = m + 1 /\ u - 1 = m /\ u <= b
      <4>1. PICK c : c = a + 1 /\ c \in Nat /\ c <= N /\ c <= b
          BY <3>1
      <4>2. m + 1 \in 1 .. N /\ m + 1 <= b /\ (m + 1) - 1 = m
          BY <3>1, <4>1
      <4>. QED
          BY <4>2, Zenon
    <3>3. ~ (g.i > N)
        BY <3>1, <2>7
    <3>4. f[u] = Generate(g, tokens)
        BY <1>8, <2>3, <3>2, <3>3, Zenon
    <3>5. CASE h = Generate(g, tokens)
        BY <3>2, <3>4, <3>5
    <3>6. CASE /\ h = Generate(Generate(g, tokens), tokens)
               /\ ~ (Generate(g, tokens).i > Len(tokens)) /\ g.i + 1 <= T[q]
      <4>1. PICK e : e = Generate(g, tokens)
          OBVIOUS
      <4>2. PICK v \in 1 .. N : v = u + 1 /\ v - 1 = u /\ v <= b
        <5>1. g.i + 1 <= b
            BY <2>7, <3>6, Zenon
        <5>2. m \in 0 .. N /\ m <= a /\ a + 2 <= b /\ b <= N
            BY <2>7, <3>1, <5>1
        <5>3. u + 1 <= b /\ u = m + 1
            BY <3>2, <5>2
        <5>. QED
            BY <5>2, <5>3
      <4>3. ~ (e.i > N) /\ f[u] = e
          BY <1>6, <3>4, <3>6, <4>1, Zenon
      <4>4. f[v] = IF e.i > N THEN e ELSE Generate(e, tokens)
          BY <1>8, <4>2, <4>3, Zenon
      <4>5. f[v] = h
          BY <3>6, <4>1, <4>3, <4>4, Zenon
      <4>. QED
          BY <4>2, <4>5
    <3>. QED
        BY <2>6, <3>5, <3>6
  <2>9. GoesOn(g, h) /\ Len(h.code) = off[q] /\ (Fits(h) => Lies(p[q], off[k], h))
    <3>1. off[q] = off[k] + Size(p[q])
        BY <1>9, <2>1, Zenon
    <3>. QED
        BY <2>4, <2>6, <3>1, Zenon DEF Compiles
  <2>10. ASSUME Fits(h) PROVE \A j \in 1 .. q : Lies(p[j], off[j - 1], h)
    <3>1. Fits(g)
      <4>1. /\ Len(g.consts) <= Len(h.consts) /\ Len(g.names) <= Len(h.names)
            /\ Len(g.consts) \in Nat /\ Len(h.consts) \in Nat /\ Len(g.names) \in Nat /\ Len(h.names) \in Nat
          BY <2>9, PartsOfCompiler DEF GoesOn, IsPrefixOf
      <4>2. MaxEntries \in Nat
          BY DEF MaxEntries
      <4>3. /\ Fits(h) <=> Len(h.consts) <= MaxEntries /\ Len(h.names) <= MaxEntries
            /\ Fits(g) <=> Len(g.consts) <= MaxEntries /\ Len(g.names) <= MaxEntries
          BY Zenon DEF Fits
      <4>. QED
          BY <2>10, <4>1, <4>2, <4>3
    <3>2. ASSUME NEW j \in 1 .. q PROVE Lies(p[j], off[j - 1], h)
      <4>1. CASE j = q
          BY <2>1, <2>9, <2>10, <4>1, Zenon
      <4>2. CASE j # q
        <5>1. j \in 1 .. k /\ j - 1 \in 0 .. n
            BY <2>1, <4>2
        <5>2. Lies(p[j], off[j - 1], g) /\ off[j - 1] \in Nat
            BY <1>9, <2>4, <3>1, <5>1, Zenon
        <5>. QED
            BY <2>9, <5>2, StillLies, Zenon
      <4>. QED
          BY <4>1, <4>2
    <3>. QED
        BY <3>2
  <2>11. Reached(p, T, off, f, N, q, r)
      BY <2>6, <2>7, <2>8, <2>9, <2>10, Zenon DEF Reached
  <2>. QED
      BY <2>1, <2>11
<1>12. n \in 0 .. n
    OBVIOUS
<1>13. PICK m : Reached(p, T, off, f, N, n, m)
  <2>. HIDE DEF H
  <2>1. n \in H
      BY <1>10, <1>11, <1>12, Induction
  <2>. QED
      BY <2>1 DEF H
<1>14. m \in 0 .. N /\ f[m].i > N
    BY <1>5, <1>6, <1>13 DEF Reached
<1>15. f[N] = f[m]
  <2>. DEFINE G == {j \in 0 .. N : j >= m => f[j] = f[m]}
  <2>1. 0 \in G
      BY <1>14
  <2>2. ASSUME NEW j \in 0 .. N - 1, j \in G PROVE j + 1 \in G
    <3>1. PICK q \in 1 .. N : q = j + 1 /\ q - 1 = j
        OBVIOUS
    <3>2. CASE q <= m
      <4>1. q >= m => q = m
          BY <1>14, <3>2
      <4>. QED
          BY <3>1, <4>1
    <3>3. CASE ~ (q <= m)
      <4>1. j >= m
          BY <1>14, <3>1, <3>3
      <4>2. f[j] = f[m]
          BY <2>2, <4>1
      <4>3. f[q] = f[m]
          BY <1>8, <1>14, <3>1, <4>2, Zenon
      <4>. QED
          BY <3>1, <4>3
    <3>. QED
        BY <3>2, <3>3
  <2>3. N \in 0 .. N
      OBVIOUS
  <2>. HIDE DEF G
  <2>4. N \in G
      BY <2>1, <2>2, <2>3, Induction
  <2>. QED
      BY <1>14, <2>4 DEF G
<1>16. PICK c : c = Compiled(p)
    OBVIOUS
<1>17. c = f[m] /\ Fits(c)
    BY <1>6, <1>7, <1>15, <1>16, TablesFit, Zenon DEF TablesFit, Fits
<1>18. c \in Compiler /\ Len(c.code) = off[n] /\ \A j \in 1 .. n : Lies(p[j], off[j - 1], c)
    BY <1>13, <1>17, Zenon DEF Reached
<1>19. Placed(p, off, c)
    BY <1>2, <1>9, <1>18, Zenon DEF Placed
<1>. QED
    BY <1>16, <1>19, Zenon

-----------------------------------------------------------------------------
(* The meaning of a program, statement by statement. *)

Sem(at, st, gl, out, how) ==
    [at |-> at, stack |-> st, globals |-> gl, output |-> out, status |-> how]

\* A state with two fields changed.
LEMMA Semantics ==
    ASSUME NEW e, DOMAIN e = {"at", "stack", "globals", "output", "status"},
           e = [x \in DOMAIN e |-> e[x]]
    PROVE  e = Sem(e.at, e.stack, e.globals, e.output, e.status)
BY DEF Sem

\* What each statement does.
LEMMA Effects ==
    ASSUME NEW p, NEW at \in Nat, NEW st, NEW gl, NEW out, NEW x, NEW s, s = p[at],
           x = Executed(p, Sem(at, st, gl, out, "running"))
    PROVE  /\ s.op = "label" => x = Sem(at + 1, st, gl, out, "running")
           /\ s.op = "PUSH" => x = Sem(at + 1, Append(st, s.arg), gl, out, "running")
           /\ s.op = "LOAD" =>
                 x = IF s.arg \in DOMAIN gl THEN Sem(at + 1, Append(st, gl[s.arg]), gl, out, "running")
                     ELSE Sem(at, st, gl, out, "raised")
           /\ s.op = "STORE" =>
                 x = IF Len(st) = 0 THEN Sem(at, st, gl, out, "raised")
                     ELSE Sem(at + 1, SubSeq(st, 1, Len(st) - 1), Assign(gl, s.arg, st[Len(st)]), out, "running")
           /\ s.op = "PRINT" =>
                 x = IF Len(st) = 0 THEN Sem(at, st, gl, out, "raised")
                     ELSE Sem(at + 1, SubSeq(st, 1, Len(st) - 1), gl, Append(out, st[Len(st)]), "running")
           /\ s.op \in Binary =>
                 x = IF Len(st) < 2 THEN Sem(at, << >>, gl, out, "raised")
                     ELSE Sem(at + 1, Append(SubSeq(st, 1, Len(st) - 2),
                                             Computed(s.op, st[Len(st) - 1], st[Len(st)])),
                              gl, out, "running")
           /\ s.op = "HALT" => x = Sem(at, st, gl, out, "finished")
           /\ s.op \in {"DIV", "CALL", "RET"} => x = Sem(at, st, gl, out, "raised")
<1>. DEFINE r == Sem(at, st, gl, out, "running")
            next == Sem(at + 1, st, gl, out, "running")
            fail == Sem(at, st, gl, out, "raised")
<1>1. r.at = at /\ r.stack = st /\ r.globals = gl /\ r.output = out /\ r.status = "running"
    BY DEF Sem
<1>2. /\ [r EXCEPT !.at = r.at + 1] = next /\ [r EXCEPT !.status = "raised"] = fail
      /\ [r EXCEPT !.status = "finished"] = Sem(at, st, gl, out, "finished")
    BY DEF Sem
<1>3. /\ \A a : [next EXCEPT !.stack = a] = Sem(at + 1, a, gl, out, "running")
      /\ \A a : [fail EXCEPT !.stack = a] = Sem(at, a, gl, out, "raised")
      /\ next.stack = st /\ next.globals = gl /\ next.output = out
  <2>1. next.stack = st /\ next.globals = gl /\ next.output = out
      BY DEF Sem
  <2>. QED
      BY <2>1 DEF Sem
<1>4. /\ \A a, b : [next EXCEPT !.stack = a, !.globals = b] = Sem(at + 1, a, b, out, "running")
      /\ \A a, b : [next EXCEPT !.stack = a, !.output = b] = Sem(at + 1, a, gl, b, "running")
  <2>1. ASSUME NEW a, NEW b
        PROVE  [next EXCEPT !.stack = a, !.globals = b] = Sem(at + 1, a, b, out, "running")
    <3>. DEFINE e == [next EXCEPT !.stack = a, !.globals = b]
    <3>1. /\ e.at = at + 1 /\ e.stack = a /\ e.globals = b /\ e.output = out
          /\ e.status = "running"
          /\ DOMAIN e = {"at", "stack", "globals", "output", "status"}
          /\ e = [z \in DOMAIN e |-> e[z]]
        BY DEF Sem
    <3>. HIDE DEF e
    <3>2. e = Sem(e.at, e.stack, e.globals, e.output, e.status)
        BY <3>1, Semantics, Zenon
    <3>. QED
        BY <3>1, <3>2, Zenon DEF e
  <2>2. ASSUME NEW a, NEW b
        PROVE  [next EXCEPT !.stack = a, !.output = b] = Sem(at + 1, a, gl, b, "running")
    <3>. DEFINE e == [next EXCEPT !.stack = a, !.output = b]
    <3>1. /\ e.at = at + 1 /\ e.stack = a /\ e.globals = gl /\ e.output = b
          /\ e.status = "running"
          /\ DOMAIN e = {"at", "stack", "globals", "output", "status"}
          /\ e = [z \in DOMAIN e |-> e[z]]
        BY DEF Sem
    <3>. HIDE DEF e
    <3>2. e = Sem(e.at, e.stack, e.globals, e.output, e.status)
        BY <3>1, Semantics, Zenon
    <3>. QED
        BY <3>1, <3>2, Zenon DEF e
  <2>. QED
      BY <2>1, <2>2, Zenon
<1>. HIDE DEF r, next, fail
<1>5. x = Executed(p, r)
    BY DEF r
<1>6. CASE s.op = "label"
  <2>1. x = [r EXCEPT !.at = r.at + 1]
      BY <1>1, <1>5, <1>6 DEF Executed, Binary
  <2>. QED
      BY <1>2, <1>6, <2>1 DEF next, Binary
<1>7. CASE s.op = "PUSH"
  <2>1. x = [[r EXCEPT !.at = r.at + 1] EXCEPT !.stack = Append([r EXCEPT !.at = r.at + 1].stack, s.arg)]
      BY <1>1, <1>5, <1>7 DEF Executed, Binary
  <2>. QED
      BY <1>2, <1>3, <1>7, <2>1 DEF Binary
<1>8. CASE s.op = "LOAD"
  <2>1. x = IF s.arg \in DOMAIN r.globals
            THEN [[r EXCEPT !.at = r.at + 1] EXCEPT
                    !.stack = Append([r EXCEPT !.at = r.at + 1].stack, r.globals[s.arg])]
            ELSE [r EXCEPT !.status = "raised"]
      BY <1>1, <1>5, <1>8 DEF Executed, Binary
  <2>. QED
      BY <1>1, <1>2, <1>3, <1>8, <2>1 DEF fail, Binary
<1>9. CASE s.op = "STORE"
  <2>1. x = IF Len(r.stack) = 0 THEN [r EXCEPT !.status = "raised"]
            ELSE [[r EXCEPT !.at = r.at + 1] EXCEPT
                    !.stack = SubSeq(r.stack, 1, Len(r.stack) - 1),
                    !.globals = Assign([r EXCEPT !.at = r.at + 1].globals, s.arg, r.stack[Len(r.stack)])]
      BY <1>1, <1>5, <1>9 DEF Executed, Binary
  <2>. QED
    <3>1. x = IF Len(st) = 0 THEN fail
              ELSE [next EXCEPT !.stack = SubSeq(st, 1, Len(st) - 1),
                                !.globals = Assign(gl, s.arg, st[Len(st)])]
        BY <1>1, <1>2, <1>3, <2>1, Zenon
    <3>2. [next EXCEPT !.stack = SubSeq(st, 1, Len(st) - 1), !.globals = Assign(gl, s.arg, st[Len(st)])]
            = Sem(at + 1, SubSeq(st, 1, Len(st) - 1), Assign(gl, s.arg, st[Len(st)]), out, "running")
        BY <1>4, Zenon
    <3>3. /\ s.op # "label" /\ s.op # "PUSH" /\ s.op # "LOAD" /\ s.op # "PRINT" /\ s.op # "HALT"
          /\ s.op \notin Binary /\ s.op \notin {"DIV", "CALL", "RET"}
        BY <1>9 DEF Binary
    <3>. QED
        BY <3>1, <3>2, <3>3, Zenon DEF fail
<1>10. CASE s.op = "PRINT"
  <2>1. x = IF Len(r.stack) = 0 THEN [r EXCEPT !.status = "raised"]
            ELSE [[r EXCEPT !.at = r.at + 1] EXCEPT
                    !.stack = SubSeq(r.stack, 1, Len(r.stack) - 1),
                    !.output = Append([r EXCEPT !.at = r.at + 1].output, r.stack[Len(r.stack)])]
      BY <1>1, <1>5, <1>10 DEF Executed, Binary
  <2>. QED
    <3>1. x = IF Len(st) = 0 THEN fail
              ELSE [next EXCEPT !.stack = SubSeq(st, 1, Len(st) - 1), !.output = Append(out, st[Len(st)])]
        BY <1>1, <1>2, <1>3, <2>1, Zenon
    <3>2. [next EXCEPT !.stack = SubSeq(st, 1, Len(st) - 1), !.output = Append(out, st[Len(st)])]
            = Sem(at + 1, SubSeq(st, 1, Len(st) - 1), gl, Append(out, st[Len(st)]), "running")
        BY <1>4, Zenon
    <3>3. /\ s.op # "label" /\ s.op # "PUSH" /\ s.op # "LOAD" /\ s.op # "STORE" /\ s.op # "HALT"
          /\ s.op \notin Binary /\ s.op \notin {"DIV", "CALL", "RET"}
        BY <1>10 DEF Binary
    <3>. QED
        BY <3>1, <3>2, <3>3, Zenon DEF fail
<1>11. CASE s.op \in Binary
  <2>1. x = IF Len(r.stack) < 2 THEN [[r EXCEPT !.status = "raised"] EXCEPT !.stack = << >>]
            ELSE [[r EXCEPT !.at = r.at + 1] EXCEPT
                    !.stack = Append(SubSeq([r EXCEPT !.at = r.at + 1].stack, 1, Len(r.stack) - 2),
                                     Computed(s.op, r.stack[Len(r.stack) - 1], r.stack[Len(r.stack)]))]
      BY <1>1, <1>5, <1>11 DEF Executed, Binary
  <2>2. /\ s.op # "label" /\ s.op # "PUSH" /\ s.op # "LOAD" /\ s.op # "STORE" /\ s.op # "PRINT"
        /\ s.op # "HALT" /\ s.op \notin {"DIV", "CALL", "RET"}
      BY <1>11 DEF Binary
  <2>3. x = IF Len(st) < 2 THEN [fail EXCEPT !.stack = << >>]
            ELSE [next EXCEPT !.stack = Append(SubSeq(st, 1, Len(st) - 2),
                                              Computed(s.op, st[Len(st) - 1], st[Len(st)]))]
      BY <1>1, <1>2, <1>3, <2>1, Zenon
  <2>4. x = IF Len(st) < 2 THEN Sem(at, << >>, gl, out, "raised")
            ELSE Sem(at + 1, Append(SubSeq(st, 1, Len(st) - 2),
                                    Computed(s.op, st[Len(st) - 1], st[Len(st)])),
                     gl, out, "running")
      BY <1>3, <2>3, Zenon
  <2>. QED
      BY <2>2, <2>4, Zenon
<1>12. CASE s.op = "HALT"
  <2>1. x = [r EXCEPT !.status = "finished"]
      BY <1>1, <1>5, <1>12 DEF Executed, Binary
  <2>. QED
      BY <1>2, <1>12, <2>1 DEF Binary
<1>13. CASE s.op \in {"DIV", "CALL", "RET"}
  <2>1. x = [r EXCEPT !.status = "raised"]
      BY <1>1, <1>5, <1>13 DEF Executed, Binary
  <2>. QED
      BY <1>2, <1>13, <2>1 DEF fail, Binary
<1>. QED
    BY <1>6, <1>7, <1>8, <1>9, <1>10, <1>11, <1>12, <1>13, Zenon

\* The run of a program.
Later(p, x) ==
    IF x.status # "running" THEN x
    ELSE IF x.at > Len(p) THEN [x EXCEPT !.status = "finished"] ELSE Executed(p, x)

Begun == [at |-> 1, stack |-> << >>, globals |-> [n \in {} |-> 0], output |-> << >>,
          status |-> "running"]

Runs(p, run) ==
    /\ run[0] = Begun
    /\ \A k \in 1 .. Len(p) + 1 : run[k] = Later(p, run[k - 1])
    /\ Meaning(p) = run[Len(p) + 1]

LEMMA HasRun ==
    ASSUME NEW p \in Seq(Statement)
    PROVE  \E run : Runs(p, run)
<1>. DEFINE w == [of |-> "run", program |-> p]
            Solves(f) ==
               f = [k \in 0 .. Len(p) + 1 |->
                      IF k = 0 THEN Begun ELSE Later(p, f[k - 1])]
<1>1. \A k, x : Turn(w, k, x) = Later(p, x)
    BY DEF Turn, Later
<1>2. Len(p) + 1 \in Nat
    OBVIOUS
<1>. HIDE DEF w
<1>3. \A f : Iterates(f, w, Len(p) + 1, Begun) <=> Solves(f)
    BY <1>1, ZenonT(40) DEF Iterates
<1>4. \E f : Solves(f)
    BY <1>2, <1>3, Recursion, Zenon
<1>5. PICK f : Solves(f) /\ Meaning(p) = f[Len(p) + 1]
    BY <1>4, Zenon DEF Meaning, Begun, Later
<1>6. Iterates(f, w, Len(p) + 1, Begun)
    BY <1>3, <1>5, Zenon
<1>7. f[0] = Begun /\ \A k \in 1 .. Len(p) + 1 : f[k] = Turn(w, k, f[k - 1])
    BY <1>2, <1>6, Turns
<1>8. Runs(p, f)
    BY <1>1, <1>5, <1>7, Zenon DEF Runs
<1>. QED
    BY <1>8, Zenon

\* The machine is where the run is behind k statements.
On(p, off, run, k, i, st, gl, out) ==
    k \in 0 .. Len(p) /\ i = off[k] /\ run[k] = Sem(k + 1, st, gl, out, "running")

\* The next statement of the run.
LEMMA Onward ==
    ASSUME NEW p \in Seq(Statement), NEW off, NEW c, Placed(p, off, c), NEW run, Runs(p, run),
           NEW m, NEW i, NEW st, NEW gl, NEW out, On(p, off, run, m, i, st, gl, out)
    PROVE  /\ m = Len(p) => i = Len(c.code)
                            /\ Meaning(p) = Sem(m + 1, st, gl, out, "finished")
           /\ m # Len(p) =>
                 /\ m + 1 \in 1 .. Len(p) /\ p[m + 1] \in Statement /\ i \in Nat
                 /\ Lies(p[m + 1], i, c) /\ off[m + 1] = i + Size(p[m + 1])
                 /\ run[m + 1] = Executed(p, Sem(m + 1, st, gl, out, "running"))
<1>1. PICK n \in Nat : n = Len(p)
    OBVIOUS
<1>2. /\ off \in [0 .. n -> Nat] /\ Len(c.code) = off[n]
      /\ \A k \in 1 .. n : off[k] = off[k - 1] + Size(p[k]) /\ Lies(p[k], off[k - 1], c)
    BY <1>1, Zenon DEF Placed
<1>3. /\ \A k \in 1 .. n + 1 : run[k] = Later(p, run[k - 1])
      /\ Meaning(p) = run[n + 1]
    BY <1>1, Zenon DEF Runs
<1>4. m \in 0 .. n /\ i = off[m] /\ run[m] = Sem(m + 1, st, gl, out, "running")
    BY <1>1, Zenon DEF On
<1>5. PICK q \in 1 .. n + 1 : q = m + 1 /\ q - 1 = m
    BY <1>4
<1>6. PICK r : r = Sem(q, st, gl, out, "running")
    OBVIOUS
<1>7. r.at = q /\ r.status = "running"
    BY <1>6 DEF Sem
<1>8. run[q] = IF q > n THEN [r EXCEPT !.status = "finished"] ELSE Executed(p, r)
  <2>1. run[q] = Later(p, r)
      BY <1>3, <1>4, <1>5, <1>6, Zenon
  <2>. QED
      BY <1>1, <1>7, <2>1, Zenon DEF Later
<1>9. CASE m = n
  <2>1. q > n /\ q = n + 1
      BY <1>5, <1>9
  <2>2. [r EXCEPT !.status = "finished"] = Sem(q, st, gl, out, "finished")
      BY <1>6 DEF Sem
  <2>3. Meaning(p) = Sem(m + 1, st, gl, out, "finished") /\ i = Len(c.code)
      BY <1>2, <1>3, <1>4, <1>5, <1>8, <1>9, <2>1, <2>2, Zenon
  <2>. QED
      BY <1>1, <1>9, <2>3, Zenon
<1>10. CASE m # n
  <2>1. q \in 1 .. n /\ ~ (q > n) /\ m \in 0 .. n
      BY <1>4, <1>5, <1>10
  <2>2. p[q] \in Statement
      BY <1>1, <2>1
  <2>3. Lies(p[q], i, c) /\ off[q] = i + Size(p[q]) /\ i \in Nat
      BY <1>2, <1>4, <1>5, <2>1, Zenon
  <2>. QED
      BY <1>1, <1>5, <1>6, <1>8, <1>10, <2>1, <2>2, <2>3, Zenon
<1>. QED
    BY <1>9, <1>10

\* What one statement makes of machine and run.
LEMMA Outcome ==
    ASSUME NEW p \in Seq(Statement), NEW off, NEW run, Runs(p, run),
           NEW m \in Nat, m + 1 \in 1 .. Len(p), NEW at, NEW st, NEW gl, NEW out, NEW how,
           run[m + 1] = Sem(at, st, gl, out, how)
    PROVE  /\ how # "running" => Meaning(p) = Sem(at, st, gl, out, how)
           /\ how = "running" /\ at = m + 2
                 => On(p, off, run, m + 1, off[m + 1], st, gl, out)
<1>1. PICK n \in Nat : n = Len(p)
    OBVIOUS
<1>2. PICK q \in 1 .. n : q = m + 1 /\ q + 1 = m + 2
    BY <1>1
<1>3. /\ \A k \in 1 .. n + 1 : run[k] = Later(p, run[k - 1])
      /\ Meaning(p) = run[n + 1]
    BY <1>1, Zenon DEF Runs
<1>4. PICK r : r = Sem(at, st, gl, out, how) /\ r.status = how
    BY DEF Sem
<1>5. run[q] = r
    BY <1>2, <1>4, Zenon
<1>6. ASSUME how # "running" PROVE Meaning(p) = r
  <2>. DEFINE H == {k \in 0 .. n + 1 : k >= q => run[k] = r}
  <2>1. 0 \in H
      OBVIOUS
  <2>2. ASSUME NEW k \in 0 .. (n + 1) - 1, k \in H PROVE k + 1 \in H
    <3>1. PICK l \in 1 .. n + 1 : l = k + 1 /\ l - 1 = k /\ l \in 0 .. n + 1
        OBVIOUS
    <3>2. CASE l < q
        BY <3>1, <3>2
    <3>3. CASE l = q
        BY <1>5, <3>1, <3>3
    <3>4. CASE l > q
      <4>1. k >= q
          BY <3>1, <3>4
      <4>2. run[k] = r
          BY <2>2, <4>1
      <4>3. run[l] = r
          BY <1>3, <1>4, <1>6, <3>1, <4>2, Zenon DEF Later
      <4>. QED
          BY <3>1, <4>3
    <3>. QED
        BY <3>1, <3>2, <3>3, <3>4
  <2>3. n + 1 \in Nat /\ n + 1 \in 0 .. n + 1 /\ n + 1 >= q
      OBVIOUS
  <2>4. n + 1 \in H
    <3>. HIDE DEF H
    <3>. QED
        BY <2>1, <2>2, <2>3, Induction
  <2>5. run[n + 1] = r
      BY <2>3, <2>4
  <2>. QED
      BY <1>3, <2>5
<1>7. ASSUME how = "running", at = m + 2 PROVE On(p, off, run, m + 1, off[m + 1], st, gl, out)
  <2>1. q \in 0 .. n
      OBVIOUS
  <2>2. run[q] = Sem(q + 1, st, gl, out, "running")
      BY <1>2, <1>7, Zenon
  <2>3. On(p, off, run, q, off[q], st, gl, out)
      BY <1>1, <2>1, <2>2, Zenon DEF On
  <2>. QED
      BY <1>2, <2>3, Zenon
<1>. QED
    BY <1>4, <1>6, <1>7

\* Labels are passed without a step of the machine.
LEMMA Rests ==
    ASSUME NEW p \in Seq(Statement), NEW off, NEW c, Placed(p, off, c), NEW run, Runs(p, run),
           NEW k, NEW i, NEW st, NEW gl, NEW out, On(p, off, run, k, i, st, gl, out)
    PROVE  \E m : On(p, off, run, m, i, st, gl, out) /\ (m # Len(p) => p[m + 1].op # "label")
<1>1. PICK n \in Nat : n = Len(p)
    OBVIOUS
<1>. DEFINE M == {m \in 0 .. n : On(p, off, run, m, i, st, gl, out)}
<1>2. k \in M
    BY <1>1 DEF On
<1>3. PICK m \in M : \A l \in M : l <= m
  <2>1. M \in SUBSET (0 .. n) /\ M # {}
      BY <1>2
  <2>. HIDE DEF M
  <2>. QED
      BY <2>1, Greatest
<1>4. m \in 0 .. n /\ On(p, off, run, m, i, st, gl, out)
    BY <1>3
<1>5. ASSUME m # n, p[m + 1].op = "label" PROVE FALSE
  <2>1. /\ m + 1 \in 1 .. Len(p) /\ i \in Nat
        /\ off[m + 1] = i + Size(p[m + 1])
        /\ run[m + 1] = Executed(p, Sem(m + 1, st, gl, out, "running"))
      BY <1>1, <1>4, <1>5, Onward
  <2>2. Size(p[m + 1]) = 0 /\ m \in Nat /\ m + 1 \in Nat /\ (m + 1) + 1 = m + 2
      BY <1>4, <1>5 DEF Size
  <2>3. off[m + 1] = i
      BY <2>1, <2>2
  <2>4. run[m + 1] = Sem((m + 1) + 1, st, gl, out, "running")
      BY <1>5, <2>1, <2>2, Effects
  <2>5. run[m + 1] = Sem(m + 2, st, gl, out, "running")
      BY <2>2, <2>4, Zenon
  <2>6. On(p, off, run, m + 1, off[m + 1], st, gl, out)
      BY <2>1, <2>2, <2>5, Outcome
  <2>7. m + 1 \in M
      BY <1>1, <2>1, <2>3, <2>6
  <2>. QED
      BY <1>3, <1>4, <2>7
<1>. QED
    BY <1>1, <1>4, <1>5, Zenon

-----------------------------------------------------------------------------
(* The machine. *)

\* The types of the machine, whose code is the compiled program.
Typed ==
    /\ program \in Programs
    /\ code = Compiled(program).code /\ consts = Compiled(program).consts
    /\ names = Compiled(program).names /\ starts = Compiled(program).starts
    /\ ip \in Nat /\ stack \in Seq(Int)
    /\ \A n \in DOMAIN globals : globals[n] \in Int
    /\ status \in {"running", "finished", "raised"}

LEMMA Code ==
    ASSUME Typed
    PROVE  /\ code \in Seq(Byte) /\ consts \in Seq(Nat) /\ names \in Seq(Name)
           /\ program \in Seq(Statement)
<1>1. PICK off : Placed(program, off, Compiled(program))
    BY CodeLies, Zenon DEF Typed
<1>2. PICK c \in Compiler : c = Compiled(program)
    BY <1>1, Zenon DEF Placed
<1>3. code = c.code /\ consts = c.consts /\ names = c.names
    BY <1>2, Zenon DEF Typed
<1>4. program \in Seq(Statement)
    BY ProgramsOK DEF ProgramsOK, Typed
<1>. QED
    BY <1>3, <1>4, PartsOfCompiler, Zenon

\* An argument is a number.
LEMMA ArgIsNat ==
    ASSUME Typed, HasArg
    PROVE  Arg \in Nat
<1>1. PICK b \in Seq(Byte) : b = code
    BY Code
<1>2. PICK a \in Nat : a = ip
    BY DEF Typed
<1>3. a + 3 <= Len(b)
    BY <1>1, <1>2 DEF HasArg
<1>4. PICK hi \in Byte, lo \in Byte : hi = b[a + 2] /\ lo = b[a + 3]
    BY <1>3
<1>5. hi * 256 + lo \in Nat
    BY DEF Byte
<1>. QED
    BY <1>1, <1>2, <1>4, <1>5, Zenon DEF Arg

LEMMA TypedInitially ==
    Init => Typed
<1>1. << >> \in Seq(Int) /\ \A n \in DOMAIN [m \in {} |-> 0] : [m \in {} |-> 0][n] \in Int
    OBVIOUS
<1>. QED
    BY <1>1 DEF Init, Typed

\* The values on the stack without its top ones.
LEMMA Pops ==
    ASSUME NEW s \in Seq(Int)
    PROVE  /\ s # << >> => /\ s[Len(s)] \in Int /\ SubSeq(s, 1, Len(s) - 1) \in Seq(Int)
                           /\ Len(s) # 0 /\ Len(s) >= 1
           /\ Len(s) >= 2 => s[Len(s) - 1] \in Int /\ SubSeq(s, 1, Len(s) - 2) \in Seq(Int) /\ s # << >>
<1>1. ASSUME s # << >> PROVE Len(s) # 0 /\ Len(s) >= 1
    BY <1>1, EmptySeq
<1>2. ASSUME s # << >> PROVE s[Len(s)] \in Int /\ SubSeq(s, 1, Len(s) - 1) \in Seq(Int)
  <2>1. Len(s) \in 1 .. Len(s) /\ \A i \in 1 .. Len(s) - 1 : s[i] \in Int
      BY <1>1, <1>2
  <2>. QED
      BY <2>1
<1>3. ASSUME Len(s) >= 2
      PROVE  s[Len(s) - 1] \in Int /\ SubSeq(s, 1, Len(s) - 2) \in Seq(Int) /\ s # << >>
  <2>1. Len(s) - 1 \in 1 .. Len(s) /\ \A i \in 1 .. Len(s) - 2 : s[i] \in Int
      BY <1>3
  <2>2. Len(s) # 0
      BY <1>3
  <2>. QED
      BY <2>1, <2>2
<1>. QED
    BY <1>1, <1>2, <1>3

LEMMA TypedNext ==
    Typed /\ [Next]_vars => Typed'
<1>. SUFFICES ASSUME Typed, [Next]_vars PROVE Typed'
    OBVIOUS
<1>. USE DEF co
<1>1. CASE LoadConst
  <2>1. Arg + 1 \in 1 .. Len(consts)
    <3>1. Arg \in Nat /\ Arg < Len(consts) /\ Len(consts) \in Nat
        BY <1>1, ArgIsNat, Code DEF LoadConst, Known
    <3>. QED
        BY <3>1
  <2>2. consts[Arg + 1] \in Int
      BY <2>1, Code
  <2>3. Append(stack, consts[Arg + 1]) \in Seq(Int) /\ ip + 3 \in Nat
      BY <2>2 DEF Typed
  <2>. QED
      BY <1>1, <2>3 DEF LoadConst, Typed
<1>2. CASE LoadName
  <2>1. Append(stack, globals[names[Arg + 1]]) \in Seq(Int) /\ ip + 3 \in Nat
      BY <1>2 DEF LoadName, Typed
  <2>. QED
      BY <1>2, <2>1 DEF LoadName, Typed
<1>3. CASE StoreName
  <2>1. Top \in Int /\ Popped(1) \in Seq(Int) /\ ip + 3 \in Nat
      BY <1>3, Pops DEF StoreName, Typed, Top, Popped
  <2>2. \A n \in DOMAIN globals' : globals'[n] \in Int
      BY <1>3, <2>1 DEF StoreName, Typed
  <2>. QED
      BY <1>3, <2>1, <2>2 DEF StoreName, Typed
<1>4. CASE Calculate
  <2>1. PICK op \in Binary :
            /\ Len(stack) >= 2
            /\ stack' = Append(Popped(2), Computed(op, Next2, Top))
            /\ ip' = ip + 1
            /\ UNCHANGED <<co, globals, output, status>>
      BY <1>4 DEF Calculate
  <2>2. Top \in Int /\ Next2 \in Int /\ Popped(2) \in Seq(Int)
      BY <2>1, Pops DEF Typed, Top, Next2, Popped
  <2>3. Computed(op, Next2, Top) \in Int
      BY <2>2 DEF Computed, Binary, Bit
  <2>4. Append(Popped(2), Computed(op, Next2, Top)) \in Seq(Int) /\ ip + 1 \in Nat
      BY <2>2, <2>3 DEF Typed
  <2>. QED
      BY <2>1, <2>4 DEF Typed
<1>5. CASE PrintTop
  <2>1. Popped(1) \in Seq(Int) /\ ip + 1 \in Nat
      BY <1>5, Pops DEF PrintTop, Typed, Popped
  <2>. QED
      BY <1>5, <2>1 DEF PrintTop, Typed
<1>6. CASE Jump
    BY <1>6, ArgIsNat DEF Jump, Typed
<1>7. CASE JumpIfFalse
  <2>1. Popped(1) \in Seq(Int) /\ ip' \in Nat
      BY <1>7, Pops, ArgIsNat DEF JumpIfFalse, Typed, Popped
  <2>. QED
      BY <1>7, <2>1 DEF JumpIfFalse, Typed
<1>8. CASE Finish
    BY <1>8 DEF Finish, Typed
<1>9. CASE Raise
  <2>1. stack' \in Seq(Int)
      BY <1>9 DEF Raise, Typed
  <2>. QED
      BY <1>9, <2>1 DEF Raise, Typed
<1>10. CASE UNCHANGED vars
    BY <1>10 DEF vars, Typed
<1>. QED
    BY <1>1, <1>2, <1>3, <1>4, <1>5, <1>6, <1>7, <1>8, <1>9, <1>10 DEF Next

\* The instruction that a statement is compiled to.
Opc(s) == IF s.op = "PUSH" THEN "LOAD_CONST"
          ELSE IF s.op = "STORE" THEN "STORE_NAME"
          ELSE IF s.op = "LOAD" THEN "LOAD_NAME" ELSE s.op

LEMMA OpCodesDiffer ==
    \A x, y \in DOMAIN OpCode : OpCode[x] = OpCode[y] => x = y
BY DEF OpCode

\* What the machine finds where a statement lies.
LEMMA Decodes ==
    ASSUME Typed, NEW s \in Statement, s.op # "label", Lies(s, ip, Compiled(program)),
           status = "running"
    PROVE  /\ ip < Len(code) /\ ip \in starts
           /\ Opc(s) \in DOMAIN OpCode
           /\ \A ops : ops \subseteq DOMAIN OpCode => (Executes(ops) <=> Opc(s) \in ops)
           /\ s.op = "PUSH" => Known(consts) /\ consts[Arg + 1] = s.arg
           /\ s.op \in {"STORE", "LOAD"} => Known(names) /\ names[Arg + 1] = s.arg
<1>1. PICK a \in Nat, b \in Seq(Byte) : a = ip /\ b = code
    BY Code DEF Typed
<1>2. /\ a \in starts
      /\ s.op = "PUSH"  => Refers(b, a, "LOAD_CONST", consts, s.arg)
      /\ s.op = "STORE" => Refers(b, a, "STORE_NAME", names, s.arg)
      /\ s.op = "LOAD"  => Refers(b, a, "LOAD_NAME", names, s.arg)
      /\ s.op \in DOMAIN OpCode => a + 1 <= Len(b) /\ b[a + 1] = OpCode[s.op]
    BY <1>1, Zenon DEF Lies, Typed
<1>3. \A table, v, op : Refers(b, a, op, table, v) =>
         a + 3 <= Len(b) /\ b[a + 1] = OpCode[op] /\ Has(table, v, Arg)
  <2>1. Arg = Wide(b[a + 2], b[a + 3])
      BY <1>1, Zenon DEF Arg, Wide
  <2>. QED
      BY <2>1, Zenon DEF Refers
<1>4. Opc(s) \in DOMAIN OpCode
  <2>1. \/ s.op \in {"PUSH", "STORE", "LOAD"}
        \/ s.op \in DOMAIN OpCode /\ s.op \notin {"PUSH", "STORE", "LOAD"}
    <3>1. s.op \in {"PUSH", "STORE", "LOAD"} \/ s.op \in Plain \cup {"JMP", "JMP_IF_FALSE"}
        BY TokensOf
    <3>. QED
        BY <3>1 DEF Plain, OpCode
  <2>2. {"LOAD_CONST", "STORE_NAME", "LOAD_NAME"} \subseteq DOMAIN OpCode
      BY DEF OpCode
  <2>. QED
      BY <2>1, <2>2 DEF Opc
<1>5. a + 1 <= Len(b) /\ b[a + 1] = OpCode[Opc(s)]
  <2>1. CASE s.op \in {"PUSH", "STORE", "LOAD"}
    <3>1. a + 3 <= Len(b) /\ b[a + 1] = OpCode[Opc(s)]
      <4>1. CASE s.op = "PUSH"
          BY <1>2, <1>3, <4>1, Zenon DEF Opc
      <4>2. CASE s.op = "STORE"
        <5>1. Opc(s) = "STORE_NAME"
            BY <4>2 DEF Opc
        <5>. QED
            BY <1>2, <1>3, <4>2, <5>1, Zenon
      <4>3. CASE s.op = "LOAD"
        <5>1. Opc(s) = "LOAD_NAME"
            BY <4>3 DEF Opc
        <5>. QED
            BY <1>2, <1>3, <4>3, <5>1, Zenon
      <4>. QED
          BY <2>1, <4>1, <4>2, <4>3
    <3>. QED
        BY <3>1
  <2>2. CASE s.op \notin {"PUSH", "STORE", "LOAD"}
    <3>1. Opc(s) = s.op
        BY <2>2 DEF Opc
    <3>. QED
        BY <1>2, <1>4, <3>1, Zenon
  <2>. QED
      BY <2>1, <2>2
<1>6. ip < Len(code)
    BY <1>1, <1>5
<1>7. ASSUME NEW ops, ops \subseteq DOMAIN OpCode PROVE Executes(ops) <=> Opc(s) \in ops
  <2>1. code[ip + 1] = OpCode[Opc(s)]
      BY <1>1, <1>5, Zenon
  <2>2. Executes(ops) <=> \E op \in ops : OpCode[Opc(s)] = OpCode[op]
      BY <1>6, <2>1, Zenon DEF Executes
  <2>3. \A op \in ops : OpCode[Opc(s)] = OpCode[op] => op = Opc(s)
      BY <1>4, <1>7, OpCodesDiffer, Zenon
  <2>. QED
      BY <2>2, <2>3, Zenon
<1>8. ASSUME NEW table, NEW v, NEW op, Refers(b, a, op, table, v)
      PROVE  HasArg /\ (Len(table) \in Nat => Known(table)) /\ table[Arg + 1] = v
  <2>1. HasArg /\ Has(table, v, Arg)
      BY <1>1, <1>3, <1>8, Zenon DEF HasArg
  <2>. QED
      BY <2>1 DEF Has, Known
<1>9. Len(consts) \in Nat /\ Len(names) \in Nat
    BY Code
<1>10. s.op = "PUSH" => Known(consts) /\ consts[Arg + 1] = s.arg
    BY <1>2, <1>8, <1>9, Zenon
<1>11. s.op \in {"STORE", "LOAD"} => Known(names) /\ names[Arg + 1] = s.arg
  <2>1. s.op \in {"STORE", "LOAD"}
           => Refers(b, a, "STORE_NAME", names, s.arg) \/ Refers(b, a, "LOAD_NAME", names, s.arg)
      BY <1>2
  <2>. QED
      BY <1>8, <1>9, <2>1, Zenon
<1>. QED
    BY <1>1, <1>2, <1>4, <1>6, <1>7, <1>10, <1>11, Zenon

\* A step of the machine in a program without jumps is a step of its run.
LEMMA Steps ==
    ASSUME Typed, ~ Jumps, status = "running", Next, NEW off, NEW run,
           Placed(program, off, Compiled(program)), Runs(program, run),
           NEW k, On(program, off, run, k, ip, stack, globals, output)
    PROVE  /\ status' = "running" => \E m : On(program, off, run, m, ip', stack', globals', output')
           /\ status' # "running"
                => ip' = ip /\ \E at : Meaning(program) = Sem(at, stack', globals', output', status')
<1>1. program \in Seq(Statement)
    BY Code
<1>2. PICK m : /\ On(program, off, run, m, ip, stack, globals, output)
               /\ m # Len(program) => program[m + 1].op # "label"
    BY <1>1, Rests, Zenon
<1>3. CASE m = Len(program)
  <2>1. ip = Len(code) /\ Meaning(program) = Sem(m + 1, stack, globals, output, "finished")
    <3>1. m = Len(program)
             => ip = Len(Compiled(program).code)
                /\ Meaning(program) = Sem(m + 1, stack, globals, output, "finished")
        BY <1>1, <1>2, Onward
    <3>. QED
        BY <1>3, <3>1, Zenon DEF Typed
  <2>2. ~ (ip < Len(code)) /\ \A ops : ~ Executes(ops)
      BY <2>1, Code DEF Executes
  <2>3. Finish
      BY <2>2, Zenon DEF Next, LoadConst, LoadName, StoreName, Calculate, PrintTop, Jump, JumpIfFalse, Raise
  <2>. QED
      BY <2>1, <2>3 DEF Finish
<1>4. CASE m # Len(program)
  <2>1. /\ m + 1 \in 1 .. Len(program) /\ program[m + 1] \in Statement
        /\ Lies(program[m + 1], ip, Compiled(program)) /\ off[m + 1] = ip + Size(program[m + 1])
        /\ run[m + 1] = Executed(program, Sem(m + 1, stack, globals, output, "running"))
    <3>. HIDE <1>4
    <3>. QED
        BY <1>1, <1>2, <1>4, Onward
  <2>2. PICK q \in 1 .. Len(program), s \in Statement : q = m + 1 /\ s = program[q]
      BY <2>1, Zenon
  <2>3. m \in Nat /\ q + 1 = m + 2 /\ q \in Nat
      BY <1>2, <2>2, Code DEF On
  <2>4. ASSUME NEW st, NEW gl, NEW out, run[q] = Sem(q + 1, st, gl, out, "running")
        PROVE  On(program, off, run, q, off[q], st, gl, out)
    <3>1. m + 1 \in 1 .. Len(program) /\ run[m + 1] = Sem(m + 2, st, gl, out, "running")
        BY <2>2, <2>3, <2>4, Zenon
    <3>2. On(program, off, run, m + 1, off[m + 1], st, gl, out)
        BY <1>1, <2>3, <3>1, Outcome
    <3>. QED
        BY <2>2, <3>2, Zenon
  <2>5. ASSUME NEW at, NEW st, NEW gl, NEW out, NEW how, run[q] = Sem(at, st, gl, out, how), how # "running"
        PROVE  Meaning(program) = Sem(at, st, gl, out, how)
    <3>1. m + 1 \in 1 .. Len(program) /\ run[m + 1] = Sem(at, st, gl, out, how)
        BY <2>2, <2>5, Zenon
    <3>. QED
        BY <1>1, <2>3, <2>5, <3>1, Outcome
  <2>6. /\ Lies(s, ip, Compiled(program)) /\ off[q] = ip + Size(s) /\ s.op # "label"
        /\ run[q] = Executed(program, Sem(q, stack, globals, output, "running"))
      BY <1>2, <1>4, <2>1, <2>2, Zenon
  <2>7. /\ ip < Len(code)
        /\ \A ops : ops \subseteq DOMAIN OpCode => (Executes(ops) <=> Opc(s) \in ops)
        /\ s.op = "PUSH" => Known(consts) /\ consts[Arg + 1] = s.arg
        /\ s.op \in {"STORE", "LOAD"} => Known(names) /\ names[Arg + 1] = s.arg
      BY <2>6, Decodes, Zenon
  <2>8. s.op \in {"PUSH", "STORE", "LOAD"} \cup Plain
    <3>1. s.op \notin {"JMP", "JMP_IF_FALSE"}
        BY <1>1, <2>2 DEF Jumps
    <3>. QED
        BY <2>6, <3>1, TokensOf
  <2>9. /\ s.op = "PUSH" => run[q] = Sem(q + 1, Append(stack, s.arg), globals, output, "running")
        /\ s.op = "LOAD" =>
              run[q] = IF s.arg \in DOMAIN globals
                       THEN Sem(q + 1, Append(stack, globals[s.arg]), globals, output, "running")
                       ELSE Sem(q, stack, globals, output, "raised")
        /\ s.op = "STORE" =>
              run[q] = IF Len(stack) = 0 THEN Sem(q, stack, globals, output, "raised")
                       ELSE Sem(q + 1, SubSeq(stack, 1, Len(stack) - 1),
                                Assign(globals, s.arg, stack[Len(stack)]), output, "running")
        /\ s.op = "PRINT" =>
              run[q] = IF Len(stack) = 0 THEN Sem(q, stack, globals, output, "raised")
                       ELSE Sem(q + 1, SubSeq(stack, 1, Len(stack) - 1), globals,
                                Append(output, stack[Len(stack)]), "running")
        /\ s.op \in Binary =>
              run[q] = IF Len(stack) < 2 THEN Sem(q, << >>, globals, output, "raised")
                       ELSE Sem(q + 1, Append(SubSeq(stack, 1, Len(stack) - 2),
                                              Computed(s.op, stack[Len(stack) - 1], stack[Len(stack)])),
                                globals, output, "running")
        /\ s.op = "HALT" => run[q] = Sem(q, stack, globals, output, "finished")
        /\ s.op \in {"DIV", "CALL", "RET"} => run[q] = Sem(q, stack, globals, output, "raised")
      BY <2>2, <2>3, <2>6, Effects
  <2>10. /\ stack = << >> <=> Len(stack) = 0
         /\ Len(stack) >= 2 <=> ~ (Len(stack) < 2)
    <3>1. stack \in Seq(Int)
        BY DEF Typed
    <3>. QED
        BY <3>1, EmptySeq
  <2>11. /\ Size(s) = IF s.op \in {"PUSH", "STORE", "LOAD"} THEN 3 ELSE 1
      BY <2>6 DEF Size
  <2>12. /\ Executes({"LOAD_CONST"}) <=> s.op = "PUSH"
         /\ Executes({"LOAD_NAME"}) <=> s.op = "LOAD"
         /\ Executes({"STORE_NAME"}) <=> s.op = "STORE"
         /\ Executes({"PRINT"}) <=> s.op = "PRINT"
         /\ Executes({"HALT"}) <=> s.op = "HALT"
         /\ ~ Executes({"JMP"}) /\ ~ Executes({"JMP_IF_FALSE"})
         /\ Executes(Binary) <=> s.op \in Binary
         /\ \A op \in Binary : Executes({op}) <=> s.op = op
    <3>1. \A op \in DOMAIN OpCode : Executes({op}) <=> Opc(s) = op
      <4>1. ASSUME NEW op \in DOMAIN OpCode PROVE Executes({op}) <=> Opc(s) \in {op}
        <5>1. {op} \subseteq DOMAIN OpCode
            OBVIOUS
        <5>. QED
            BY <2>7, <5>1, Zenon
      <4>. QED
          BY <4>1
    <3>2. Binary \subseteq DOMAIN OpCode
          /\ {"LOAD_CONST", "LOAD_NAME", "STORE_NAME", "PRINT", "HALT", "JMP", "JMP_IF_FALSE"}
                \subseteq DOMAIN OpCode
        BY DEF Binary, OpCode
    <3>3. Executes(Binary) <=> Opc(s) \in Binary
        BY <2>7, <3>2, Zenon
    <3>4. /\ Opc(s) = "LOAD_CONST" <=> s.op = "PUSH"
          /\ Opc(s) = "LOAD_NAME" <=> s.op = "LOAD"
          /\ Opc(s) = "STORE_NAME" <=> s.op = "STORE"
          /\ Opc(s) = "PRINT" <=> s.op = "PRINT"
          /\ Opc(s) = "HALT" <=> s.op = "HALT"
          /\ Opc(s) # "JMP" /\ Opc(s) # "JMP_IF_FALSE"
        BY <2>8 DEF Opc, Plain
    <3>5. \A op \in Binary : Opc(s) = op <=> s.op = op
        BY <2>8 DEF Opc, Plain, Binary
    <3>6. Opc(s) \in Binary <=> s.op \in Binary
        BY <3>5, <2>8 DEF Opc, Plain, Binary
    <3>7. \A op \in Binary : Executes({op}) <=> s.op = op
        BY <3>1, <3>2, <3>5
    <3>8. /\ Executes({"LOAD_CONST"}) <=> Opc(s) = "LOAD_CONST"
          /\ Executes({"LOAD_NAME"}) <=> Opc(s) = "LOAD_NAME"
          /\ Executes({"STORE_NAME"}) <=> Opc(s) = "STORE_NAME"
          /\ Executes({"PRINT"}) <=> Opc(s) = "PRINT"
          /\ Executes({"HALT"}) <=> Opc(s) = "HALT"
          /\ Executes({"JMP"}) <=> Opc(s) = "JMP"
          /\ Executes({"JMP_IF_FALSE"}) <=> Opc(s) = "JMP_IF_FALSE"
        BY <3>1, <3>2
    <3>. QED
        BY <3>3, <3>4, <3>6, <3>7, <3>8, Zenon
  <2>13. /\ s.op \in {"PUSH", "STORE", "LOAD"} => off[q] = ip + 3
         /\ s.op = "PRINT" \/ s.op \in Binary => off[q] = ip + 1
      BY <2>6, <2>11 DEF Binary
  <2>14. CASE LoadConst
    <3>1. /\ s.op = "PUSH" /\ stack' = Append(stack, s.arg) /\ ip' = ip + 3
          /\ UNCHANGED <<globals, output, status>>
        BY <2>7, <2>12, <2>14, Zenon DEF LoadConst
    <3>2. run[q] = Sem(q + 1, Append(stack, s.arg), globals, output, "running")
        BY <2>9, <3>1, Zenon
    <3>3. On(program, off, run, q, ip', stack', globals', output')
        BY <2>4, <2>13, <3>1, <3>2
    <3>. QED
        BY <3>1, <3>3, Zenon
  <2>15. CASE LoadName
    <3>1. /\ s.op = "LOAD" /\ s.arg \in DOMAIN globals
          /\ stack' = Append(stack, globals[s.arg]) /\ ip' = ip + 3
          /\ UNCHANGED <<globals, output, status>>
        BY <2>7, <2>12, <2>15 DEF LoadName
    <3>2. run[q] = Sem(q + 1, Append(stack, globals[s.arg]), globals, output, "running")
        BY <2>9, <3>1, Zenon
    <3>3. On(program, off, run, q, ip', stack', globals', output')
        BY <2>4, <2>13, <3>1, <3>2
    <3>. QED
        BY <3>1, <3>3, Zenon
  <2>16. CASE StoreName
    <3>1. /\ s.op = "STORE" /\ Len(stack) # 0
          /\ stack' = SubSeq(stack, 1, Len(stack) - 1)
          /\ globals' = Assign(globals, s.arg, stack[Len(stack)])
          /\ ip' = ip + 3 /\ UNCHANGED <<output, status>>
      <4>1. s.op = "STORE" /\ names[Arg + 1] = s.arg
          BY <2>7, <2>12, <2>16, Zenon DEF StoreName
      <4>. QED
          BY <2>10, <2>16, <4>1 DEF StoreName, Popped, Top, Assign
    <3>2. run[q] = Sem(q + 1, SubSeq(stack, 1, Len(stack) - 1),
                       Assign(globals, s.arg, stack[Len(stack)]), output, "running")
        BY <2>9, <3>1, Zenon
    <3>3. On(program, off, run, q, ip', stack', globals', output')
        BY <2>4, <2>13, <3>1, <3>2
    <3>. QED
        BY <3>1, <3>3, Zenon
  <2>17. CASE Calculate
    <3>1. /\ s.op \in Binary /\ ~ (Len(stack) < 2)
          /\ stack' = Append(SubSeq(stack, 1, Len(stack) - 2),
                             Computed(s.op, stack[Len(stack) - 1], stack[Len(stack)]))
          /\ ip' = ip + 1 /\ UNCHANGED <<globals, output, status>>
        BY <2>10, <2>12, <2>17, Zenon DEF Calculate, Popped, Next2, Top
    <3>2. run[q] = Sem(q + 1, Append(SubSeq(stack, 1, Len(stack) - 2),
                              Computed(s.op, stack[Len(stack) - 1], stack[Len(stack)])),
                       globals, output, "running")
        BY <2>9, <3>1, Zenon
    <3>3. On(program, off, run, q, ip', stack', globals', output')
        BY <2>4, <2>13, <3>1, <3>2
    <3>. QED
        BY <3>1, <3>3, Zenon
  <2>18. CASE PrintTop
    <3>1. /\ s.op = "PRINT" /\ Len(stack) # 0
          /\ stack' = SubSeq(stack, 1, Len(stack) - 1)
          /\ output' = Append(output, stack[Len(stack)])
          /\ ip' = ip + 1 /\ UNCHANGED <<globals, status>>
        BY <2>10, <2>12, <2>18, Zenon DEF PrintTop, Popped, Top
    <3>2. run[q] = Sem(q + 1, SubSeq(stack, 1, Len(stack) - 1), globals,
                       Append(output, stack[Len(stack)]), "running")
        BY <2>9, <3>1, Zenon
    <3>3. On(program, off, run, q, ip', stack', globals', output')
        BY <2>4, <2>13, <3>1, <3>2
    <3>. QED
        BY <3>1, <3>3, Zenon
  <2>19. CASE Jump \/ JumpIfFalse
      BY <2>12, <2>19, Zenon DEF Jump, JumpIfFalse
  <2>20. CASE Finish
    <3>1. ~ (ip >= Len(code))
      <4>1. ip \in Nat /\ Len(code) \in Nat
          BY Code DEF Typed
      <4>. QED
          BY <2>7, <4>1
    <3>2. /\ s.op = "HALT" /\ status' = "finished"
          /\ UNCHANGED <<ip, stack, globals, output>>
        BY <2>12, <2>20, <3>1, Zenon DEF Finish
    <3>3. Meaning(program) = Sem(q, stack, globals, output, "finished")
      <4>1. run[q] = Sem(q, stack, globals, output, "finished") /\ "finished" # "running"
          BY <2>9, <3>2
      <4>. QED
          BY <2>5, <4>1, Zenon
    <3>. QED
        BY <3>2, <3>3
  <2>21. CASE Raise
    <3>1. /\ status' = "raised" /\ UNCHANGED <<ip, globals, output>>
          /\ stack' = IF s.op \in Binary THEN << >> ELSE stack
        BY <2>12, <2>21, Zenon DEF Raise
    <3>2. /\ s.op # "PUSH" /\ s.op # "HALT"
          /\ s.op = "LOAD" => s.arg \notin DOMAIN globals
          /\ s.op \in {"STORE", "PRINT"} => Len(stack) = 0
          /\ s.op \in Binary => Len(stack) < 2
      <4>1. /\ ~ (s.op = "PUSH" /\ Known(consts)) /\ s.op # "HALT"
            /\ ~ (s.op = "LOAD" /\ Known(names) /\ names[Arg + 1] \in DOMAIN globals)
            /\ ~ (s.op = "STORE" /\ Known(names) /\ stack # << >>)
            /\ ~ (s.op = "PRINT" /\ stack # << >>)
            /\ ~ (s.op \in Binary /\ Len(stack) >= 2)
          BY <2>12, <2>21, Zenon DEF Raise
      <4>2. /\ s.op = "PUSH" => Known(consts)
            /\ s.op = "LOAD" => Known(names) /\ names[Arg + 1] = s.arg
            /\ s.op = "STORE" => Known(names)
          BY <2>7
      <4>. QED
          BY <2>10, <4>1, <4>2
    <3>3. run[q] = Sem(q, stack', globals', output', "raised")
      <4>1. CASE s.op \in {"LOAD", "STORE", "PRINT", "DIV", "CALL", "RET"}
        <5>1. s.op \notin Binary
            BY <4>1 DEF Binary
        <5>2. run[q] = Sem(q, stack, globals, output, "raised")
            BY <2>9, <3>2, <4>1
        <5>. QED
            BY <3>1, <5>1, <5>2, Zenon
      <4>2. CASE s.op \in Binary
          BY <2>9, <3>1, <3>2, <4>2, Zenon
      <4>. QED
          BY <2>8, <3>2, <4>1, <4>2 DEF Plain, Binary
    <3>4. Meaning(program) = Sem(q, stack', globals', output', "raised")
      <4>1. "raised" # "running"
          OBVIOUS
      <4>. QED
          BY <2>5, <3>3, <4>1, Zenon
    <3>. QED
        BY <3>1, <3>4
  <2>. QED
      BY <2>14, <2>15, <2>16, <2>17, <2>18, <2>19, <2>20, <2>21, Zenon DEF Next
<1>. QED
    BY <1>3, <1>4

\* Between two statements the machine is where an instruction begins, or at the end.
LEMMA Between ==
    ASSUME NEW p \in Seq(Statement), NEW off, NEW c, Placed(p, off, c), NEW run, Runs(p, run),
           NEW k, NEW i, NEW st, NEW gl, NEW out, On(p, off, run, k, i, st, gl, out)
    PROVE  i \in c.starts \cup {Len(c.code)}
<1>1. PICK m : /\ On(p, off, run, m, i, st, gl, out)
               /\ m # Len(p) => p[m + 1].op # "label"
    BY Rests, Zenon
<1>2. /\ m = Len(p) => i = Len(c.code)
      /\ m # Len(p) => Lies(p[m + 1], i, c)
    BY <1>1, Onward
<1>. QED
    BY <1>1, <1>2 DEF Lies

\* The machine is at a statement of the run of its program, or has its outcome.
Follows ==
    \E off, run :
        /\ Placed(program, off, Compiled(program)) /\ Runs(program, run)
        /\ status = "running" => \E k : On(program, off, run, k, ip, stack, globals, output)
        /\ status # "running" => AsMeant /\ ip \in starts \cup {Len(code)}

LEMMA FollowsInitially ==
    Init => Follows
<1>. SUFFICES ASSUME Init PROVE Follows
    OBVIOUS
<1>1. program \in Programs /\ program \in Seq(Statement)
    BY ProgramsOK DEF ProgramsOK, Init
<1>2. PICK off : Placed(program, off, Compiled(program))
    BY <1>1, CodeLies, Zenon
<1>3. PICK run : Runs(program, run)
    BY <1>1, HasRun, Zenon
<1>4. run[0] = Begun /\ off[0] = 0 /\ 0 \in 0 .. Len(program)
    BY <1>1, <1>2, <1>3 DEF Runs, Placed
<1>5. Begun = Sem(0 + 1, << >>, [n \in {} |-> 0], << >>, "running")
    BY DEF Begun, Sem
<1>6. /\ ip = 0 /\ stack = << >> /\ globals = [n \in {} |-> 0] /\ output = << >>
      /\ status = "running"
    BY DEF Init
<1>7. On(program, off, run, 0, ip, stack, globals, output)
    BY <1>4, <1>5, <1>6, Zenon DEF On
<1>. QED
    BY <1>2, <1>3, <1>6, <1>7, Zenon DEF Follows

LEMMA FollowsNext ==
    Typed /\ Follows /\ ~ Jumps /\ [Next]_vars => Follows'
<1>. SUFFICES ASSUME Typed, Follows, ~ Jumps, [Next]_vars PROVE Follows'
    OBVIOUS
<1>1. UNCHANGED co
    BY DEF Next, LoadConst, LoadName, StoreName, Calculate, PrintTop, Jump, JumpIfFalse,
           Finish, Raise, vars
<1>2. PICK off, run :
        /\ Placed(program, off, Compiled(program)) /\ Runs(program, run)
        /\ status = "running" => \E k : On(program, off, run, k, ip, stack, globals, output)
        /\ status # "running" => AsMeant /\ ip \in starts \cup {Len(code)}
    BY Zenon DEF Follows
<1>3. Placed(program', off, Compiled(program')) /\ Runs(program', run)
    BY <1>1, <1>2, Zenon DEF co
<1>4. CASE UNCHANGED vars
  <2>1. /\ status' = status /\ ip' = ip /\ stack' = stack /\ globals' = globals
        /\ output' = output /\ program' = program /\ starts' = starts /\ code' = code
      BY <1>4 DEF vars, co
  <2>2. AsMeant' <=> AsMeant
      BY <2>1, Zenon DEF AsMeant
  <2>3. status' = "running" => \E k : On(program', off, run, k, ip', stack', globals', output')
      BY <1>2, <2>1, Zenon
  <2>4. status' # "running" => AsMeant' /\ ip' \in starts' \cup {Len(code')}
      BY <1>2, <2>1, <2>2, Zenon
  <2>. QED
      BY <1>3, <2>3, <2>4, Zenon DEF Follows
<1>5. CASE Next
  <2>1. status = "running"
      BY <1>5 DEF Next, LoadConst, LoadName, StoreName, Calculate, PrintTop, Jump, JumpIfFalse,
                  Finish, Raise, Executes
  <2>2. PICK k : On(program, off, run, k, ip, stack, globals, output)
      BY <1>2, <2>1, Zenon
  <2>3. /\ status' = "running" => \E m : On(program, off, run, m, ip', stack', globals', output')
        /\ status' # "running"
              => ip' = ip /\ \E at : Meaning(program) = Sem(at, stack', globals', output', status')
      BY <1>2, <1>5, <2>1, <2>2, Steps, Zenon
  <2>4. /\ program' = program /\ starts' = starts /\ code' = code
      BY <1>1 DEF co
  <2>5. status' = "running" => \E m : On(program', off, run, m, ip', stack', globals', output')
      BY <2>3, <2>4, Zenon
  <2>6. ASSUME status' # "running" PROVE AsMeant' /\ ip' \in starts' \cup {Len(code')}
    <3>1. ip \in starts \cup {Len(code)}
      <4>1. ip \in Compiled(program).starts \cup {Len(Compiled(program).code)}
          BY <1>2, <2>2, Code, Between, Zenon
      <4>. QED
          BY <4>1, Zenon DEF Typed
    <3>2. PICK at : Meaning(program') = Sem(at, stack', globals', output', status')
        BY <2>3, <2>4, <2>6, Zenon
    <3>3. AsMeant'
        BY <3>2 DEF AsMeant, Sem
    <3>. QED
        BY <2>3, <2>4, <2>6, <3>1, <3>3, Zenon
  <2>. QED
      BY <1>3, <2>5, <2>6, Zenon DEF Follows
<1>. QED
    BY <1>4, <1>5

\* What holds in every state.
Inv == Typed /\ (Jumps \/ Follows)

LEMMA Invariance ==
    Spec => []Inv
<1>1. Init => Inv
    BY TypedInitially, FollowsInitially DEF Inv
<1>2. Inv /\ [Next]_vars => Inv'
  <2>. SUFFICES ASSUME Inv, [Next]_vars PROVE Inv'
      OBVIOUS
  <2>1. Typed'
      BY TypedNext, Zenon DEF Inv
  <2>2. program' = program
      BY DEF Next, LoadConst, LoadName, StoreName, Calculate, PrintTop, Jump, JumpIfFalse,
             Finish, Raise, vars, co
  <2>3. Jumps' <=> Jumps
      BY <2>2, Zenon DEF Jumps
  <2>. QED
      BY <2>1, <2>3, FollowsNext, Zenon DEF Inv
<1>. QED
    BY <1>1, <1>2, PTL DEF Spec

-----------------------------------------------------------------------------
(* The theorems. *)

\* Bytes are bytes, values are numbers, and a program that does not jump never
\* takes a byte of an argument for an instruction: ip always stands where the
\* compiler began to emit one, or behind the last.
THEOREM TypeCorrect ==
    Spec => []TypeOK
<1>1. Inv => TypeOK
  <2>. SUFFICES ASSUME Inv PROVE TypeOK
      OBVIOUS
  <2>1. \A i \in DOMAIN code : code[i] \in 0 .. 255
    <3>1. code \in Seq(Byte)
        BY Code DEF Inv
    <3>2. \A i \in DOMAIN code : code[i] \in Byte
        BY <3>1
    <3>. QED
        BY <3>2, Zenon DEF Byte
  <2>2. /\ \A i \in DOMAIN stack : stack[i] \in Int
        /\ \A n \in DOMAIN globals : globals[n] \in Int
        /\ status \in {"running", "finished", "raised"}
      BY DEF Inv, Typed
  <2>3. ASSUME ~ Jumps PROVE ip \in starts \cup {Len(code)}
    <3>1. PICK off, run :
            /\ Placed(program, off, Compiled(program)) /\ Runs(program, run)
            /\ status = "running" => \E k : On(program, off, run, k, ip, stack, globals, output)
            /\ status # "running" => AsMeant /\ ip \in starts \cup {Len(code)}
        BY <2>3, Zenon DEF Inv, Follows
    <3>2. CASE status = "running"
      <4>1. PICK k : On(program, off, run, k, ip, stack, globals, output)
          BY <3>1, <3>2, Zenon
      <4>2. ip \in Compiled(program).starts \cup {Len(Compiled(program).code)}
          BY <3>1, <4>1, Code, Between, Zenon DEF Inv
      <4>. QED
          BY <4>2, Zenon DEF Inv, Typed
    <3>. QED
        BY <3>1, <3>2, Zenon
  <2>. QED
      BY <2>1, <2>2, <2>3, Zenon DEF TypeOK
<1>. QED
    BY <1>1, Invariance, PTL

\* A program of instructions that the machine implements, none of them a jump, ends
\* as its statements say: with the same output, values and variables, or with a
\* failure at the same statement (Compiler.compile, VirtualMachine.run).  It may have any
\* number of statements, as long as its tables have no more entries than the two
\* bytes of an argument can name.
THEOREM RunsAsMeant ==
    Spec => []StraightLineAsMeant
<1>1. Inv => StraightLineAsMeant
    BY Zenon DEF Inv, Follows, StraightLineAsMeant
<1>. QED
    BY <1>1, Invariance, PTL

=============================================================================
