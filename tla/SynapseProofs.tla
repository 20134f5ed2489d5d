---------------------------- MODULE SynapseProofs ----------------------------
(***************************************************************************)
(* Proofs about backward of synapse (Synapse), for any parameters and any  *)
(* program: the shapes that gradients take, that the closures run in an    *)
(* order in which each has its gradient whole, that after zero_grad losses *)
(* with graphs of their own make nothing raise, and that what a parameter  *)
(* ends up with is the sum of the derivatives of the losses.               *)
(***************************************************************************)
EXTENDS Synapse, SequenceTheorems, WellFoundedInduction, TLAPS

-----------------------------------------------------------------------------
(* Sequences. *)

LEMMA Constants ==
    /\ Rate \in Nat /\ MaxTensor \in Nat /\ MaxCalls \in Nat
    /\ Leaves \in Seq(Seq(Seq(Int)))
    /\ \A p \in DOMAIN Leaves : Leaves[p] # << >> /\ Leaves[p][1] # << >>
BY ConstantsOK DEF ConstantsOK

LEMMA LenIs ==
    ASSUME NEW n \in Nat, NEW s, s = [i \in 1 .. n |-> s[i]]
    PROVE  Len(s) = n /\ s \in Seq({s[i] : i \in 1 .. n}) /\ DOMAIN s = 1 .. n
<1>. DEFINE S == {s[i] : i \in 1 .. n}
<1>1. s \in [1 .. n -> S] /\ DOMAIN s = 1 .. n
    OBVIOUS
<1>2. s \in Seq(S)
    BY <1>1
<1>3. Len(s) \in Nat /\ DOMAIN s = 1 .. Len(s)
    BY <1>2
<1>. HIDE DEF S
<1>4. Len(s) = n
    BY <1>1, <1>3
<1>. QED
    BY <1>1, <1>2, <1>4 DEF S

LEMMA Members ==
    ASSUME NEW S, NEW s \in Seq(S)
    PROVE  /\ ToSet(s) = {s[i] : i \in 1 .. Len(s)} /\ Len(s) \in Nat
           /\ ToSet(s) \subseteq S
           /\ \A x : x \in ToSet(s) <=> \E i \in 1 .. Len(s) : s[i] = x
BY DEF ToSet

LEMMA Prefix ==
    ASSUME NEW S, NEW s, NEW n \in Nat, \A i \in 1 .. n : s[i] \in S
    PROVE  /\ SubSeq(s, 1, n) \in Seq(S) /\ Len(SubSeq(s, 1, n)) = n
           /\ \A i \in 1 .. n : SubSeq(s, 1, n)[i] = s[i]
<1>1. 1 \in Int /\ n \in Int
    OBVIOUS
<1>2. /\ SubSeq(s, 1, n) \in Seq(S)
      /\ Len(SubSeq(s, 1, n)) = IF 1 <= n THEN n - 1 + 1 ELSE 0
      /\ \A i \in 1 .. n - 1 + 1 : SubSeq(s, 1, n)[i] = s[1 + i - 1]
    BY <1>1, SubSeqProperties
<1>. QED
    BY <1>2

LEMMA Ends ==
    ASSUME NEW S, NEW s \in Seq(S), s # << >>
    PROVE  /\ Len(s) \in Nat /\ Len(s) > 0 /\ Last(s) = s[Len(s)] /\ Last(s) \in S
           /\ Last(s) \in ToSet(s)
           /\ Front(s) \in Seq(S) /\ Len(Front(s)) = Len(s) - 1
           /\ \A i \in 1 .. Len(s) - 1 : Front(s)[i] = s[i]
           /\ ToSet(s) = ToSet(Front(s)) \cup {Last(s)}
<1>1. /\ Len(s) \in Nat /\ Len(s) > 0 /\ Last(s) = s[Len(s)] /\ Last(s) \in S
    BY DEF Last
<1>2. /\ Front(s) \in Seq(S) /\ Len(Front(s)) = Len(s) - 1
      /\ \A i \in 1 .. Len(s) - 1 : Front(s)[i] = s[i]
  <2>. DEFINE n == Len(s) - 1
  <2>1. n \in Int /\ n >= 0 /\ 1 \in Int /\ \A i \in 1 .. n : s[i] \in S
      BY <1>1
  <2>. HIDE DEF n
  <2>2. /\ SubSeq(s, 1, n) \in Seq(S) /\ Len(SubSeq(s, 1, n)) = n
        /\ \A i \in 1 .. n : SubSeq(s, 1, n)[i] = s[i]
      BY <2>1, Prefix
  <2>. QED
      BY <2>2 DEF Front, n
<1>3. Last(s) \in ToSet(s)
    BY <1>1, Members
<1>4. ASSUME NEW x PROVE x \in ToSet(s) <=> x \in ToSet(Front(s)) \/ x = Last(s)
  <2>1. /\ x \in ToSet(s) <=> \E i \in 1 .. Len(s) : s[i] = x
        /\ x \in ToSet(Front(s)) <=> \E i \in 1 .. Len(Front(s)) : Front(s)[i] = x
      BY <1>2, Members, Zenon
  <2>. QED
      BY <1>1, <1>2, <2>1
<1>. QED
    BY <1>1, <1>2, <1>3, <1>4

LEMMA Appends ==
    ASSUME NEW S, NEW s \in Seq(S), NEW x \in S
    PROVE  /\ Append(s, x) \in Seq(S) /\ Len(Append(s, x)) = Len(s) + 1
           /\ \A i \in 1 .. Len(s) : Append(s, x)[i] = s[i]
           /\ Append(s, x)[Len(s) + 1] = x
           /\ ToSet(Append(s, x)) = ToSet(s) \cup {x}
           /\ Append(s, x) # << >>
<1>. DEFINE t == Append(s, x)
<1>1. /\ t \in Seq(S) /\ Len(t) = Len(s) + 1 /\ Len(s) \in Nat /\ t # << >>
      /\ \A i \in 1 .. Len(s) : t[i] = s[i]
      /\ t[Len(s) + 1] = x
    OBVIOUS
<1>. HIDE DEF t
<1>2. ASSUME NEW y PROVE y \in ToSet(t) <=> y \in ToSet(s) \/ y = x
  <2>1. /\ y \in ToSet(s) <=> \E i \in 1 .. Len(s) : s[i] = y
        /\ y \in ToSet(t) <=> \E i \in 1 .. Len(t) : t[i] = y
      BY <1>1, Members, Zenon
  <2>. QED
      BY <1>1, <2>1
<1>. QED
    BY <1>1, <1>2 DEF t

-----------------------------------------------------------------------------
(* Shapes. *)

\* A matrix has rows and columns.
Filling(a) == Len(a) \in Nat \ {0} /\ Len(a[1]) \in Nat \ {0}

LEMMA Shapes ==
    ASSUME NEW a, NEW r \in Nat \ {0}, NEW c \in Nat \ {0},
           a = [i \in 1 .. r |-> a[i]], a[1] = [j \in 1 .. c |-> a[1][j]]
    PROVE  Filling(a) /\ Len(a) = r /\ Len(a[1]) = c
<1>1. Len(a) = r
    BY LenIs
<1>2. Len(a[1]) = c
  <2>. DEFINE b == a[1]
  <2>1. b = [j \in 1 .. c |-> b[j]]
      OBVIOUS
  <2>. HIDE DEF b
  <2>2. Len(b) = c
      BY <2>1, LenIs
  <2>. QED
      BY <2>2 DEF b
<1>. QED
    BY <1>1, <1>2 DEF Filling

\* What has a gradient has that of a shape.
LEMMA SomeGradient == ASSUME NEW a, Filling(a) PROVE a # None
BY DEF Filling, None

\* Alike(m, a): m is a matrix of the shape of a.
Alike(m, a) == Filling(m) /\ Len(m) = Len(a) /\ Len(m[1]) = Len(a[1])

LEMMA SameShapes ==
    ASSUME NEW a, Filling(a), NEW b, NEW x
    PROVE  /\ Alike(Zeros(a), a) /\ Alike(Filled(a, x), a) /\ Alike(Plus(a, b), a)
           /\ Alike(Minus(a, b), a) /\ Alike(Times(a, b), a)
           /\ Alike(ReLU(a), a) /\ Alike(DReLU(a), a)
<1>. DEFINE r == Len(a)  c == Len(a[1])
<1>0. r \in Nat \ {0} /\ c \in Nat \ {0} /\ 1 \in 1 .. r /\ Rows(a) = 1 .. r /\ Cols(a) = 1 .. c
    BY DEF Filling, Rows, Cols
<1>. HIDE DEF r, c
<1>z. ASSUME NEW m, m = [i \in 1 .. r |-> m[i]], m[1] = [j \in 1 .. c |-> m[1][j]]
      PROVE  Alike(m, a)
    BY <1>0, <1>z, Shapes DEF Alike, r, c
<1>1. Alike(Zeros(a), a)
    BY <1>0, <1>z DEF Zeros
<1>2. Alike(Filled(a, x), a)
    BY <1>0, <1>z DEF Filled
<1>3. Alike(Plus(a, b), a)
    BY <1>0, <1>z DEF Plus
<1>4. Alike(Minus(a, b), a)
    BY <1>0, <1>z DEF Minus
<1>5. Alike(Times(a, b), a)
    BY <1>0, <1>z DEF Times
<1>6. Alike(ReLU(a), a)
    BY <1>0, <1>z DEF ReLU
<1>7. Alike(DReLU(a), a)
    BY <1>0, <1>z DEF DReLU
<1>. QED
    BY <1>1, <1>2, <1>3, <1>4, <1>5, <1>6, <1>7

LEMMA OtherShapes ==
    ASSUME NEW a, Filling(a), NEW b, Filling(b)
    PROVE  /\ Filling(Transpose(a)) /\ Len(Transpose(a)) = Len(a[1])
           /\ Len(Transpose(a)[1]) = Len(a)
           /\ Filling(MatMul(a, b)) /\ Len(MatMul(a, b)) = Len(a)
           /\ Len(MatMul(a, b)[1]) = Len(b[1])
<1>. DEFINE r == Len(a)  c == Len(a[1])  d == Len(b[1])
<1>0. /\ r \in Nat \ {0} /\ c \in Nat \ {0} /\ d \in Nat \ {0}
      /\ 1 \in 1 .. r /\ 1 \in 1 .. c
      /\ Rows(a) = 1 .. r /\ Cols(a) = 1 .. c /\ Cols(b) = 1 .. d
    BY DEF Filling, Rows, Cols
<1>. HIDE DEF r, c, d
<1>1. Filling(Transpose(a)) /\ Len(Transpose(a)) = c /\ Len(Transpose(a)[1]) = r
  <2>1. /\ Transpose(a) = [i \in 1 .. c |-> Transpose(a)[i]]
        /\ Transpose(a)[1] = [j \in 1 .. r |-> Transpose(a)[1][j]]
      BY <1>0 DEF Transpose
  <2>. QED
      BY <1>0, <2>1, Shapes
<1>2. Filling(MatMul(a, b)) /\ Len(MatMul(a, b)) = r /\ Len(MatMul(a, b)[1]) = d
  <2>. DEFINE m == MatMul(a, b)
  <2>1. /\ m = [i \in 1 .. r |-> m[i]]
        /\ m[1] = [j \in 1 .. d |-> m[1][j]]
      BY <1>0 DEF MatMul
  <2>. HIDE DEF m
  <2>2. Filling(m) /\ Len(m) = r /\ Len(m[1]) = d
      BY <1>0, <2>1, Shapes, SMTT(30)
  <2>. QED
      BY <2>2 DEF m
<1>. QED
    BY <1>1, <1>2 DEF r, c, d

LEMMA Singles ==
    ASSUME NEW x PROVE Filling(<<<<x>>>>) /\ Len(<<<<x>>>>) = 1 /\ Len(<<<<x>>>>[1]) = 1
BY DEF Filling

-----------------------------------------------------------------------------
(* The graph. *)

Sequence(s) == Len(s) \in Nat /\ s = [i \in 1 .. Len(s) |-> s[i]]

Parents(n) == ToSet(tensor[n].prev)

\* Tensor n of T was made by an operation on earlier ones, and its shape by theirs.
MadeIn(T, n) ==
    LET t == T[n]
        A == T[t.prev[1]].data
        B == T[t.prev[2]].data
    IN  /\ t.prev \in Seq(1 .. n - 1)
        /\ Filling(t.data)
        /\ \/ t.op = "leaf" /\ Len(t.prev) = 0
           \/ /\ t.op \in {"+", "*"} /\ Len(t.prev) = 2
              /\ Alike(A, t.data) /\ Alike(B, t.data)
           \/ /\ t.op = "@" /\ Len(t.prev) = 2
              /\ Filling(A) /\ Filling(B) /\ Len(A[1]) = Len(B)
              /\ Len(t.data) = Len(A) /\ Len(t.data[1]) = Len(B[1])
           \/ t.op = "ReLU" /\ Len(t.prev) = 1 /\ Alike(A, t.data)
           \/ /\ t.op = "Sum" /\ Len(t.prev) = 1 /\ Filling(A)
              /\ Len(t.data) = 1 /\ Len(t.data[1]) = 1

\* What does not change shapes leaves tensors as they were made.
LEMMA MadeStays ==
    ASSUME NEW T, NEW U, NEW n \in Nat, n > 0, MadeIn(T, n),
           \A k \in 1 .. n : /\ U[k].op = T[k].op /\ U[k].prev = T[k].prev
                             /\ Filling(T[k].data) => Alike(U[k].data, T[k].data)
    PROVE  MadeIn(U, n)
<1>. DEFINE prev == T[n].prev
<1>1. /\ prev \in Seq(1 .. n - 1) /\ U[n].prev = prev /\ U[n].op = T[n].op
      /\ Filling(T[n].data) /\ Alike(U[n].data, T[n].data)
    BY DEF MadeIn
<1>2. ASSUME NEW i \in 1 .. Len(prev), Filling(T[prev[i]].data)
      PROVE  Alike(U[prev[i]].data, T[prev[i]].data)
  <2>1. prev[i] \in 1 .. n
      BY <1>1
  <2>. QED
      BY <1>2, <2>1
<1>3. Len(prev) >= 1 /\ Len(prev) \in Nat => 1 \in 1 .. Len(prev)
    OBVIOUS
<1>4. Len(prev) = 2 => 2 \in 1 .. Len(prev) /\ 1 \in 1 .. Len(prev)
    OBVIOUS
<1>. DEFINE A == T[prev[1]].data  B == T[prev[2]].data
            C == U[prev[1]].data  D == U[prev[2]].data  op == T[n].op
<1>5. \/ op = "leaf" /\ Len(prev) = 0
      \/ /\ op \in {"+", "*"} /\ Len(prev) = 2
         /\ Alike(A, T[n].data) /\ Alike(B, T[n].data)
      \/ /\ op = "@" /\ Len(prev) = 2
         /\ Filling(A) /\ Filling(B) /\ Len(A[1]) = Len(B)
         /\ Len(T[n].data) = Len(A) /\ Len(T[n].data[1]) = Len(B[1])
      \/ op = "ReLU" /\ Len(prev) = 1 /\ Alike(A, T[n].data)
      \/ /\ op = "Sum" /\ Len(prev) = 1 /\ Filling(A)
         /\ Len(T[n].data) = 1 /\ Len(T[n].data[1]) = 1
    BY DEF MadeIn
<1>6. /\ Len(prev) \in {1, 2} /\ Filling(A) => Alike(C, A)
      /\ Len(prev) = 2 /\ Filling(B) => Alike(D, B)
    BY <1>2, <1>3, <1>4
<1>7. /\ prev \in Seq(1 .. n - 1) /\ U[n].prev = prev /\ U[n].op = op
      /\ Alike(U[n].data, T[n].data)
    BY <1>1
<1>8. \/ op = "leaf" /\ Len(prev) = 0
      \/ /\ op \in {"+", "*"} /\ Len(prev) = 2
         /\ Alike(C, U[n].data) /\ Alike(D, U[n].data)
      \/ /\ op = "@" /\ Len(prev) = 2
         /\ Filling(C) /\ Filling(D) /\ Len(C[1]) = Len(D)
         /\ Len(U[n].data) = Len(C) /\ Len(U[n].data[1]) = Len(D[1])
      \/ op = "ReLU" /\ Len(prev) = 1 /\ Alike(C, U[n].data)
      \/ /\ op = "Sum" /\ Len(prev) = 1 /\ Filling(C)
         /\ Len(U[n].data) = 1 /\ Len(U[n].data[1]) = 1
  <2>. HIDE DEF prev, A, B, C, D, op
  <2>. QED
      BY <1>5, <1>6, <1>7, SMTT(30) DEF Alike
<1>. QED
    BY <1>7, <1>8 DEF MadeIn, Alike

\* Whatever its gradient, the closure of a tensor has something for each parent.
LEMMA PassedTo ==
    ASSUME NEW n, MadeIn(tensor, n), NEW g
    PROVE  DOMAIN Passed(n, g) = 1 .. Len(tensor[n].prev)
<1>. DEFINE t == tensor[n]
<1>1. CASE t.op = "leaf" /\ Len(t.prev) = 0
    BY <1>1 DEF Passed
<1>2. CASE t.op = "+" /\ Len(t.prev) = 2
    BY <1>2 DEF Passed
<1>3. CASE t.op = "*" /\ Len(t.prev) = 2
    BY <1>3 DEF Passed
<1>4. CASE t.op = "@" /\ Len(t.prev) = 2
    BY <1>4 DEF Passed
<1>5. CASE t.op = "ReLU" /\ Len(t.prev) = 1
    BY <1>5 DEF Passed
<1>6. CASE t.op = "Sum" /\ Len(t.prev) = 1
    BY <1>6 DEF Passed
<1>. QED
    BY <1>1, <1>2, <1>3, <1>4, <1>5, <1>6 DEF MadeIn

LEMMA Appended ==
    ASSUME NEW s, Sequence(s), NEW x
    PROVE  /\ Sequence(Append(s, x)) /\ Len(Append(s, x)) = Len(s) + 1
           /\ \A i \in 1 .. Len(s) : Append(s, x)[i] = s[i]
           /\ Append(s, x)[Len(s) + 1] = x
<1>. DEFINE n == Len(s)  S == {s[i] : i \in 1 .. n} \cup {x}  t == Append(s, x)
<1>1. n \in Nat /\ s = [i \in 1 .. n |-> s[i]]
    BY DEF Sequence
<1>2. s \in [1 .. n -> S] /\ x \in S
    BY <1>1
<1>. HIDE DEF S
<1>3. s \in Seq(S)
    BY <1>1, <1>2
<1>4. /\ t \in Seq(S) /\ Len(t) = n + 1
      /\ \A i \in 1 .. n : t[i] = s[i]
      /\ t[n + 1] = x
    BY <1>2, <1>3, Appends
<1>. HIDE DEF t
<1>5. Sequence(t)
    BY <1>4, LenProperties DEF Sequence
<1>. QED
    BY <1>4, <1>5 DEF t, n

LEMMA AccumulatedShapes ==
    ASSUME NEW g, Sequence(g), NEW m \in 1 .. Len(g), NEW d, Filling(GradOf(g, m))
    PROVE  /\ Sequence(Accumulated(g, m, d)) /\ Len(Accumulated(g, m, d)) = Len(g)
           /\ \A k \in 1 .. Len(g) : k # m => Accumulated(g, m, d)[k] = g[k]
           /\ Alike(Accumulated(g, m, d)[m], GradOf(g, m))
<1>. DEFINE n == Len(g)
            sum == Plus(GradOf(g, m), d)
            h == Accumulated(g, m, d)
<1>1. n \in Nat /\ g = [i \in 1 .. n |-> g[i]]
    BY DEF Sequence
<1>2. Alike(sum, GradOf(g, m))
    BY SameShapes
<1>. HIDE DEF sum
<1>3. h = [g EXCEPT ![m] = sum]
    BY DEF Accumulated, sum
<1>4. h = [i \in 1 .. n |-> h[i]] /\ h[m] = sum /\ \A k \in 1 .. n : k # m => h[k] = g[k]
    BY <1>1, <1>3
<1>. HIDE DEF h
<1>5. Len(h) = n
    BY <1>1, <1>4, LenIs
<1>6. Sequence(h)
    BY <1>1, <1>4, <1>5 DEF Sequence
<1>. QED
    BY <1>2, <1>4, <1>5, <1>6 DEF h, n

-----------------------------------------------------------------------------
(* The invariant. *)

\* A gradient of tensor n has its shape, or the one entry that backward gave it.
Shaped(b, n) == Alike(b, Data(n)) \/ Alike(b, << << 1 >> >>)

Tensor(t) == t = [op |-> t.op, prev |-> t.prev, data |-> t.data]

Graphs ==
    /\ Sequence(tensor) /\ Sequence(grad) /\ Len(grad) = Len(tensor)
    /\ \A n \in Tensors : Tensor(tensor[n])
    /\ \A n \in Tensors : MadeIn(tensor, n)
    /\ \A n \in Tensors : grad[n] = None \/ Shaped(grad[n], n)
    /\ used \subseteq Tensors
    /\ calls \in 0 .. MaxCalls

\* The calls of build_topo go from tensors to their parents.
Descends ==
    /\ path \in Seq(Tensors)
    /\ \A i, j \in 1 .. Len(path) : i < j => path[j] < path[i]
    /\ \A i \in 1 .. Len(path) - 1 : path[i + 1] \in Parents(path[i])

\* Every tensor of topo is there once, after its parents.
Sorted ==
    /\ topo \in Seq(Tensors)
    /\ \A i, j \in 1 .. Len(topo) : i < j => topo[i] # topo[j]
    /\ \A i \in 1 .. Len(topo) : topo[i] \notin ToSet(path)
    /\ \A i \in 1 .. Len(topo) : \A m \in Parents(topo[i]) :
          \E j \in 1 .. i - 1 : topo[j] = m

\* A tensor that waits for its turn has its gradient, or a child that waits too.
Awaited ==
    /\ phase = "sort" =>
          \A m \in ToSet(topo) : \E n \in ToSet(path) \cup ToSet(topo) : m \in Parents(n)
    /\ phase = "propagate" =>
          \A m \in ToSet(topo) : grad[m] # None \/ \E n \in ToSet(topo) : m \in Parents(n)

Phases ==
    \/ phase = "idle" /\ path = << >> /\ topo = << >>
    \/ phase = "sort" /\ path # << >>
    \/ phase = "propagate" /\ path = << >> /\ topo # << >>

Inv == Graphs /\ Descends /\ Sorted /\ Awaited /\ Phases

\* Between calls nothing is being sorted.
LEMMA Idle ==
    ASSUME phase' = "idle", path' = << >>, topo' = << >>
    PROVE  Descends' /\ Sorted' /\ Awaited' /\ Phases'
<1>1. ToSet(topo)' = {} /\ ToSet(path)' = {}
    BY DEF ToSet
<1>2. path' \in Seq(Tensors') /\ topo' \in Seq(Tensors') /\ Len(path') = 0 /\ Len(topo') = 0
    OBVIOUS
<1>. QED
    BY <1>1, <1>2 DEF Descends, Sorted, Awaited, Phases

LEMMA InvInit == Init => Inv
<1>. SUFFICES ASSUME Init PROVE Inv
    OBVIOUS
<1>. DEFINE k == Len(Leaves)
<1>1. k \in Nat /\ DOMAIN Leaves = 1 .. k /\ Params = 1 .. k
    BY Constants DEF Params
<1>. HIDE DEF k
<1>2. /\ tensor = [i \in 1 .. k |-> tensor[i]] /\ grad = [i \in 1 .. k |-> grad[i]]
      /\ \A p \in 1 .. k : /\ tensor[p] = [op |-> "leaf", prev |-> << >>, data |-> Leaves[p]]
                           /\ grad[p] = None
    BY <1>1 DEF Init
<1>3. Sequence(tensor) /\ Sequence(grad) /\ Len(tensor) = k /\ Len(grad) = k
    BY <1>1, <1>2, LenIs DEF Sequence
<1>4. \A p \in 1 .. k : Filling(Leaves[p])
  <2>1. ASSUME NEW p \in 1 .. k PROVE Filling(Leaves[p])
    <3>1. Leaves[p] \in Seq(Seq(Int)) /\ Leaves[p] # << >> /\ Leaves[p][1] # << >>
      <4>1. p \in DOMAIN Leaves /\ p \in 1 .. Len(Leaves)
          BY <1>1 DEF k
      <4>. QED
          BY <4>1, Constants, ElementOfSeq
    <3>2. Len(Leaves[p]) \in Nat \ {0} /\ Leaves[p][1] \in Seq(Int)
        BY <3>1, EmptySeq
    <3>. QED
        BY <3>1, <3>2, EmptySeq DEF Filling
  <2>. QED
      BY <2>1
<1>5. ASSUME NEW p \in 1 .. k PROVE MadeIn(tensor, p)
  <2>1. /\ tensor[p].op = "leaf" /\ tensor[p].prev = << >> /\ Filling(tensor[p].data)
      BY <1>2, <1>4
  <2>2. << >> \in Seq(1 .. p - 1) /\ Len(<< >>) = 0
      OBVIOUS
  <2>. QED
      BY <2>1, <2>2 DEF MadeIn
<1>6. Graphs
    BY <1>2, <1>3, <1>5, Constants DEF Graphs, Tensor, Tensors, Init
<1>7. Descends /\ Sorted /\ Awaited /\ Phases
  <2>1. phase = "idle" /\ path = << >> /\ topo = << >>
      BY DEF Init
  <2>2. ToSet(topo) = {} /\ ToSet(path) = {} /\ Len(path) = 0 /\ Len(topo) = 0
      BY <2>1 DEF ToSet
  <2>. QED
      BY <2>1, <2>2 DEF Descends, Sorted, Awaited, Phases
<1>. QED
    BY <1>6, <1>7 DEF Inv

-----------------------------------------------------------------------------
(* Making tensors. *)

\* Tensors and gradients that stay as they are, but for data of their shape.
LEMMA GraphsStay ==
    ASSUME Graphs, Sequence(tensor'), Len(tensor') = Len(tensor),
           Sequence(grad'), Len(grad') = Len(tensor),
           \A n \in Tensors : /\ Tensor(tensor'[n])
                              /\ tensor'[n].op = tensor[n].op
                              /\ tensor'[n].prev = tensor[n].prev
                              /\ Alike(tensor'[n].data, Data(n))
                              /\ grad'[n] = None \/ Shaped(grad'[n], n),
           used' \subseteq Tensors, calls' \in 0 .. MaxCalls
    PROVE  Graphs'
<1>1. Tensors' = Tensors /\ Tensors \subseteq Nat \ {0} /\ Tensors = 1 .. Len(tensor)
      /\ Len(tensor) \in Nat
    BY DEF Tensors, Graphs, Sequence
<1>2. ASSUME NEW n \in Tensors PROVE MadeIn(tensor', n)
  <2>1. MadeIn(tensor, n) /\ n \in Nat /\ n > 0
      BY <1>1 DEF Graphs
  <2>2. \A k \in 1 .. n : k \in Tensors
      BY <1>1
  <2>3. \A k \in 1 .. n : /\ tensor'[k].op = tensor[k].op /\ tensor'[k].prev = tensor[k].prev
                          /\ Alike(tensor'[k].data, tensor[k].data)
      BY <2>2 DEF Data
  <2>. QED
      BY <2>1, <2>3, MadeStays
<1>3. ASSUME NEW n \in Tensors
      PROVE  \/ grad'[n] = None
             \/ Alike(grad'[n], tensor'[n].data) \/ Alike(grad'[n], << << 1 >> >>)
    BY DEF Shaped, Alike
<1>. QED
    BY <1>1, <1>2, <1>3 DEF Graphs, Shaped, Data

LEMMA NewInv ==
    ASSUME Inv, NEW op, NEW prev, NEW data, New(op, prev, data),
           MadeIn(tensor', Len(tensor) + 1)
    PROVE  Inv'
<1>. DEFINE k == Len(tensor) + 1
<1>1. /\ tensor' = Append(tensor, [op |-> op, prev |-> prev, data |-> data])
      /\ grad' = Append(grad, None)
      /\ UNCHANGED <<phase, path, topo, calls, used>> /\ phase = "idle"
    BY DEF New
<1>2. /\ Sequence(tensor) /\ Sequence(grad) /\ Len(grad) = Len(tensor)
      /\ Len(tensor) \in Nat /\ Tensors = 1 .. Len(tensor)
    BY DEF Inv, Graphs, Sequence, Tensors
<1>3. /\ Sequence(tensor') /\ Len(tensor') = k
      /\ \A n \in Tensors : tensor'[n] = tensor[n]
    BY <1>1, <1>2, Appended
<1>4. /\ Sequence(grad') /\ Len(grad') = k /\ grad'[k] = None
      /\ \A n \in Tensors : grad'[n] = grad[n]
    BY <1>1, <1>2, Appended
<1>5. Tensors' = Tensors \cup {k}
    BY <1>2, <1>3 DEF Tensors
<1>6. ASSUME NEW n \in Tensors PROVE MadeIn(tensor', n)
  <2>1. MadeIn(tensor, n) /\ n \in Nat /\ n > 0
      BY <1>2 DEF Inv, Graphs
  <2>2. \A i \in 1 .. n : tensor'[i] = tensor[i]
      BY <1>2, <1>3
  <2>3. \A i \in 1 .. n : Filling(tensor[i].data) => Alike(tensor'[i].data, tensor[i].data)
      BY <2>2 DEF Alike
  <2>. QED
      BY <2>1, <2>2, <2>3, MadeStays
<1>7. ASSUME NEW n \in Tensors
      PROVE  \/ grad'[n] = None
             \/ Alike(grad'[n], tensor'[n].data) \/ Alike(grad'[n], << << 1 >> >>)
    BY <1>3, <1>4 DEF Inv, Graphs, Shaped, Data
<1>8. \A n \in Tensors' : Tensor(tensor'[n])
  <2>1. tensor'[k] = [op |-> op, prev |-> prev, data |-> data]
      BY <1>1, <1>2, Appended
  <2>2. Tensor(tensor'[k])
      BY <2>1 DEF Tensor
  <2>. HIDE DEF k
  <2>. QED
      BY <1>3, <1>5, <2>2 DEF Inv, Graphs
<1>9. Graphs'
    BY <1>1, <1>3, <1>4, <1>5, <1>6, <1>7, <1>8 DEF Inv, Graphs, Shaped, Data
<1>. QED
    BY <1>1, <1>9, Idle DEF Inv, Phases

\* What operations make.
LEMMA Makes ==
    ASSUME NEW T, NEW n \in Nat, NEW a \in 1 .. n - 1, NEW b \in 1 .. n - 1,
           NEW op, NEW prev, NEW data, Filling(data),
           T[n] = [op |-> op, prev |-> prev, data |-> data]
    PROVE  /\ /\ op \in {"+", "*"} /\ prev = <<a, b>>
              /\ Alike(T[a].data, data) /\ Alike(T[b].data, data)
              => MadeIn(T, n)
           /\ /\ op = "@" /\ prev = <<a, b>> /\ Filling(T[a].data) /\ Filling(T[b].data)
              /\ Len(T[a].data[1]) = Len(T[b].data)
              /\ Len(data) = Len(T[a].data) /\ Len(data[1]) = Len(T[b].data[1])
              => MadeIn(T, n)
           /\ op = "ReLU" /\ prev = <<a>> /\ Alike(T[a].data, data) => MadeIn(T, n)
           /\ /\ op = "Sum" /\ prev = <<a>> /\ Filling(T[a].data)
              /\ Len(data) = 1 /\ Len(data[1]) = 1
              => MadeIn(T, n)
<1>1. T[n].op = op /\ T[n].prev = prev /\ T[n].data = data
    OBVIOUS
<1>2. ASSUME prev = <<a, b>>
      PROVE  prev \in Seq(1 .. n - 1) /\ Len(prev) = 2 /\ prev[1] = a /\ prev[2] = b
    BY <1>2
<1>3. ASSUME prev = <<a>>
      PROVE  prev \in Seq(1 .. n - 1) /\ Len(prev) = 1 /\ prev[1] = a
    BY <1>3
<1>4. ASSUME op \in {"+", "*"}, prev = <<a, b>>, Alike(T[a].data, data), Alike(T[b].data, data)
      PROVE  MadeIn(T, n)
    BY <1>1, <1>2, <1>4 DEF MadeIn
<1>5. ASSUME op = "@", prev = <<a, b>>, Filling(T[a].data), Filling(T[b].data),
             Len(T[a].data[1]) = Len(T[b].data),
             Len(data) = Len(T[a].data), Len(data[1]) = Len(T[b].data[1])
      PROVE  MadeIn(T, n)
    BY <1>1, <1>2, <1>5 DEF MadeIn
<1>6. ASSUME op = "ReLU", prev = <<a>>, Alike(T[a].data, data) PROVE MadeIn(T, n)
    BY <1>1, <1>3, <1>6 DEF MadeIn
<1>7. ASSUME op = "Sum", prev = <<a>>, Filling(T[a].data), Len(data) = 1, Len(data[1]) = 1
      PROVE  MadeIn(T, n)
    BY <1>1, <1>3, <1>7 DEF MadeIn
<1>. QED
    BY <1>4, <1>5, <1>6, <1>7

LEMMA OperationInv ==
    ASSUME Inv, NEW a \in Tensors, NEW b \in Tensors,
           \/ AddTensors(a, b) \/ MulTensors(a, b) \/ MatMulTensors(a, b)
           \/ ReLUTensor(a) \/ SumTensor(a)
    PROVE  Inv'
<1>. DEFINE k == Len(tensor) + 1  A == Data(a)  B == Data(b)
<1>1. /\ Sequence(tensor) /\ Len(tensor) \in Nat /\ Tensors = 1 .. Len(tensor)
      /\ Filling(A) /\ Filling(B)
    BY DEF Inv, Graphs, Sequence, Tensors, MadeIn, Data
<1>2. PICK T : T = tensor'
    OBVIOUS
<1>3. ASSUME NEW op, NEW prev, NEW data, New(op, prev, data)
      PROVE  T[k] = [op |-> op, prev |-> prev, data |-> data] /\ T[a].data = A /\ T[b].data = B
    BY <1>1, <1>2, <1>3, Appended DEF New, Data
<1>4. k \in Nat /\ a \in 1 .. k - 1 /\ b \in 1 .. k - 1
    BY <1>1
<1>5. ASSUME NEW op, NEW prev, NEW data, New(op, prev, data), MadeIn(T, k) PROVE Inv'
    BY <1>2, <1>5, NewInv DEF k
<1>. HIDE DEF A, B, k
<1>6. CASE AddTensors(a, b)
  <2>1. Shape(A) = Shape(B) /\ New("+", <<a, b>>, Plus(A, B))
      BY <1>6 DEF AddTensors, A, B
  <2>2. Filling(Plus(A, B)) /\ Alike(A, Plus(A, B)) /\ Alike(B, Plus(A, B))
    <3>1. Len(A) = Len(B) /\ Len(A[1]) = Len(B[1])
        BY <2>1 DEF Shape
    <3>2. Alike(Plus(A, B), A)
        BY <1>1, SameShapes, Zenon
    <3>. QED
        BY <1>1, <3>1, <3>2 DEF Alike
  <2>3. /\ T[k] = [op |-> "+", prev |-> <<a, b>>, data |-> Plus(A, B)]
        /\ T[a].data = A /\ T[b].data = B
      BY <1>3, <2>1
  <2>4. MadeIn(T, k)
      BY <1>4, <2>2, <2>3, Makes
  <2>. QED
      BY <1>5, <2>1, <2>4
<1>7. CASE MulTensors(a, b)
  <2>1. Shape(A) = Shape(B) /\ New("*", <<a, b>>, Times(A, B))
      BY <1>7 DEF MulTensors, A, B
  <2>2. Filling(Times(A, B)) /\ Alike(A, Times(A, B)) /\ Alike(B, Times(A, B))
    <3>1. Len(A) = Len(B) /\ Len(A[1]) = Len(B[1])
        BY <2>1 DEF Shape
    <3>2. Alike(Times(A, B), A)
        BY <1>1, SameShapes, Zenon
    <3>. QED
        BY <1>1, <3>1, <3>2 DEF Alike
  <2>3. /\ T[k] = [op |-> "*", prev |-> <<a, b>>, data |-> Times(A, B)]
        /\ T[a].data = A /\ T[b].data = B
      BY <1>3, <2>1
  <2>4. MadeIn(T, k)
      BY <1>4, <2>2, <2>3, Makes
  <2>. QED
      BY <1>5, <2>1, <2>4
<1>8. CASE MatMulTensors(a, b)
  <2>1. Cols(A) = Rows(B) /\ New("@", <<a, b>>, MatMul(A, B))
      BY <1>8 DEF MatMulTensors, A, B
  <2>2. Len(A[1]) = Len(B)
      BY <1>1, <2>1 DEF Cols, Rows, Filling
  <2>3. Filling(MatMul(A, B)) /\ Len(MatMul(A, B)) = Len(A) /\ Len(MatMul(A, B)[1]) = Len(B[1])
      BY <1>1, OtherShapes
  <2>4. /\ T[k] = [op |-> "@", prev |-> <<a, b>>, data |-> MatMul(A, B)]
        /\ T[a].data = A /\ T[b].data = B
      BY <1>3, <2>1
  <2>5. MadeIn(T, k)
      BY <1>1, <1>4, <2>2, <2>3, <2>4, Makes
  <2>. QED
      BY <1>5, <2>1, <2>5
<1>9. CASE ReLUTensor(a)
  <2>1. New("ReLU", <<a>>, ReLU(A))
      BY <1>9 DEF ReLUTensor, A
  <2>2. Filling(ReLU(A)) /\ Alike(A, ReLU(A))
    <3>1. Alike(ReLU(A), A)
        BY <1>1, SameShapes, Zenon
    <3>. QED
        BY <1>1, <3>1 DEF Alike
  <2>3. T[k] = [op |-> "ReLU", prev |-> <<a>>, data |-> ReLU(A)] /\ T[a].data = A
      BY <1>3, <2>1
  <2>4. MadeIn(T, k)
      BY <1>4, <2>2, <2>3, Makes
  <2>. QED
      BY <1>5, <2>1, <2>4
<1>10. CASE SumTensor(a)
  <2>. DEFINE d == <<<<SumMatrix(A)>>>>
  <2>1. New("Sum", <<a>>, d)
      BY <1>10 DEF SumTensor, A
  <2>2. Filling(d) /\ Len(d) = 1 /\ Len(d[1]) = 1
      BY Singles
  <2>. HIDE DEF d
  <2>3. T[k] = [op |-> "Sum", prev |-> <<a>>, data |-> d] /\ T[a].data = A
      BY <1>3, <2>1
  <2>4. MadeIn(T, k)
      BY <1>1, <1>4, <2>2, <2>3, Makes
  <2>. QED
      BY <1>5, <2>1, <2>4
<1>. QED
    BY <1>6, <1>7, <1>8, <1>9, <1>10

-----------------------------------------------------------------------------
(* Sorting. *)

\* What a tensor is made of is earlier.
LEMMA Earlier ==
    ASSUME Graphs, NEW n \in Tensors
    PROVE  /\ n \in Nat /\ Len(tensor) \in Nat /\ Tensors = 1 .. Len(tensor)
           /\ Parents(n) \subseteq Tensors /\ \A m \in Parents(n) : m < n
<1>1. Len(tensor) \in Nat /\ Tensors = 1 .. Len(tensor) /\ n \in Nat
    BY DEF Graphs, Sequence, Tensors
<1>2. tensor[n].prev \in Seq(1 .. n - 1)
    BY DEF Graphs, MadeIn
<1>3. Parents(n) \subseteq 1 .. n - 1
    BY <1>2, Members DEF Parents
<1>. QED
    BY <1>1, <1>3

LEMMA BackwardInv ==
    ASSUME Inv, NEW n \in Tensors, Backward(n)
    PROVE  Inv'
<1>1. /\ UNCHANGED <<tensor, grad>> /\ phase' = "sort" /\ path' = <<n>>
      /\ topo = << >> /\ topo' = << >>
    BY DEF Inv, Phases, Backward, Call
<1>3. used' \subseteq Tensors
  <2>1. used' = used \cup (Graph(n) \ Params) /\ Graph(n) \subseteq Tensors
      BY DEF Backward, Graph
  <2>. QED
      BY <2>1 DEF Inv, Graphs
<1>4. calls' \in 0 .. MaxCalls
    BY Constants DEF Inv, Graphs, Backward, Call
<1>5. Graphs'
    BY <1>1, <1>3, <1>4 DEF Inv, Graphs, Shaped, Tensors, Data
<1>6. Tensors' = Tensors /\ path' \in Seq(Tensors) /\ Len(path') = 1 /\ path'[1] = n
    BY <1>1 DEF Tensors
<1>7. topo' \in Seq(Tensors) /\ Len(topo') = 0 /\ ToSet(topo)' = {}
    BY <1>1 DEF ToSet
<1>8. Descends'
    BY <1>6 DEF Descends
<1>9. Sorted' /\ Awaited'
    BY <1>1, <1>6, <1>7 DEF Sorted, Awaited
<1>10. Phases'
    BY <1>1 DEF Phases
<1>. QED
    BY <1>5, <1>8, <1>9, <1>10 DEF Inv

LEMMA VisitInv ==
    ASSUME Inv, Visit
    PROVE  Inv'
<1>. DEFINE n == Last(path)  k == Len(path)
<1>1. PICK m \in Unvisited : path' = Append(path, m)
    BY DEF Visit
<1>2. /\ UNCHANGED <<tensor, grad, phase, topo, calls, used>>
      /\ phase = "sort" /\ path # << >>
    BY DEF Visit
<1>3. path \in Seq(Tensors) /\ k \in Nat /\ k > 0 /\ n = path[k] /\ n \in Tensors
    BY <1>2, Ends DEF Inv, Descends
<1>4. m \in Parents(n) /\ m \notin ToSet(topo) /\ m \notin ToSet(path)
    BY <1>1 DEF Unvisited, Parents
<1>5. m \in Tensors /\ m < n /\ Tensors \subseteq Nat
    BY <1>3, <1>4, Earlier DEF Inv
<1>6. /\ path' \in Seq(Tensors) /\ Len(path') = k + 1 /\ path'[k + 1] = m
      /\ \A i \in 1 .. k : path'[i] = path[i]
      /\ ToSet(path)' = ToSet(path) \cup {m} /\ path' # << >>
    BY <1>1, <1>3, <1>5, Appends
<1>7. Graphs' /\ Tensors' = Tensors
    BY <1>2 DEF Inv, Graphs, Shaped, Tensors, Data
<1>8. Descends'
  <2>1. ASSUME NEW i \in 1 .. k + 1, NEW j \in 1 .. k + 1, i < j
        PROVE  path'[j] < path'[i]
    <3>0. \A x, y \in 1 .. k : x < y => path[y] < path[x]
        BY DEF Inv, Descends
    <3>1. CASE j \in 1 .. k
        BY <1>3, <1>6, <2>1, <3>0, <3>1
    <3>2. CASE j = k + 1
      <4>1. i \in 1 .. k /\ path'[j] = m /\ path'[i] = path[i]
          BY <1>3, <1>6, <2>1, <3>2
      <4>2. path[i] \in Nat /\ n \in Nat /\ m \in Nat
        <5>1. path[i] \in Tensors
            BY <1>3, <4>1
        <5>. HIDE DEF n
        <5>. QED
            BY <1>3, <1>5, <5>1
      <4>3. i = k \/ path[k] < path[i]
          BY <1>3, <3>0, <4>1
      <4>. QED
          BY <1>3, <1>5, <4>1, <4>2, <4>3
    <3>. QED
        BY <1>3, <3>1, <3>2
  <2>2. ASSUME NEW i \in 1 .. k
        PROVE  path'[i + 1] \in ToSet(tensor'[path'[i]].prev)
    <3>1. CASE i = k
        BY <1>2, <1>3, <1>4, <1>6, <3>1 DEF Parents
    <3>2. CASE i \in 1 .. k - 1
      <4>1. path[i + 1] \in Parents(path[i])
          BY <3>2 DEF Inv, Descends
      <4>. QED
          BY <1>2, <1>3, <1>6, <3>2, <4>1 DEF Parents
    <3>. QED
        BY <1>3, <3>1, <3>2
  <2>3. Len(path') - 1 = k
      BY <1>3, <1>6
  <2>. HIDE DEF k, n
  <2>4. \A i, j \in 1 .. Len(path') : i < j => path'[j] < path'[i]
      BY <1>6, <2>1
  <2>5. \A i \in 1 .. Len(path') - 1 : path'[i + 1] \in ToSet(tensor'[path'[i]].prev)
      BY <2>2, <2>3, Zenon
  <2>. QED
      BY <1>6, <1>7, <2>4, <2>5 DEF Descends, Parents
<1>9. Sorted'
  <2>1. \A i \in 1 .. Len(topo) : topo[i] \in ToSet(topo)
      BY Members DEF Inv, Sorted
  <2>2. \A i \in 1 .. Len(topo) : topo[i] \notin ToSet(path)'
      BY <1>4, <1>6, <2>1 DEF Inv, Sorted
  <2>. QED
      BY <1>2, <1>7, <2>2 DEF Inv, Sorted, Parents
<1>10. Awaited' /\ Phases'
  <2>1. path'[1] = path[1]
      BY <1>3, <1>6
  <2>. QED
      BY <1>2, <1>6, <2>1 DEF Inv, Awaited, Phases, Parents, Data
<1>. QED
    BY <1>7, <1>8, <1>9, <1>10 DEF Inv

LEMMA ReturnInv ==
    ASSUME Inv, Return
    PROVE  Inv'
<1>. DEFINE k == Len(path)  l == Len(topo)
<1>1. PICK n : n = Last(path)
    OBVIOUS
<1>2. /\ UNCHANGED <<tensor, calls, used>> /\ phase = "sort" /\ path # << >>
      /\ path' = Front(path) /\ topo' = Append(topo, n)
    BY <1>1 DEF Return, ParentsFirst
<1>3. path \in Seq(Tensors) /\ topo \in Seq(Tensors) /\ l \in Nat
    BY DEF Inv, Descends, Sorted
<1>4. /\ k \in Nat /\ k > 0 /\ n = path[k] /\ n \in Tensors /\ n \in ToSet(path)
      /\ path' \in Seq(Tensors) /\ Len(path') = k - 1
      /\ \A i \in 1 .. k - 1 : path'[i] = path[i]
      /\ ToSet(path) = ToSet(path)' \cup {n}
    BY <1>1, <1>2, <1>3, Ends
<1>5. /\ topo' \in Seq(Tensors) /\ Len(topo') = l + 1 /\ topo'[l + 1] = n
      /\ \A i \in 1 .. l : topo'[i] = topo[i]
      /\ ToSet(topo)' = ToSet(topo) \cup {n} /\ topo' # << >>
    BY <1>2, <1>3, <1>4, Appends
<1>6. Tensors' = Tensors /\ Tensors \subseteq Nat
    BY <1>2, <1>4, Earlier DEF Inv, Tensors
<1>7. \A i \in 1 .. k - 1 : n < path[i]
    BY <1>4 DEF Inv, Descends
<1>8. Parents(n) \subseteq ToSet(topo)
  <2>1. ASSUME NEW m \in Parents(n), m \in ToSet(path) PROVE FALSE
    <3>1. PICK i \in 1 .. k : path[i] = m
        BY <1>3, <2>1, Members
    <3>2. m < n /\ m \in Nat /\ n \in Nat
        BY <1>4, <1>6, Earlier DEF Inv
    <3>3. i = k \/ i \in 1 .. k - 1
        BY <1>4
    <3>. HIDE DEF k
    <3>. QED
        BY <1>4, <1>7, <3>1, <3>2, <3>3
  <2>2. Parents(n) \subseteq ToSet(topo) \cup ToSet(path)
      BY <1>1 DEF Return, Unvisited, Parents
  <2>. QED
      BY <2>1, <2>2
<1>9. n \notin ToSet(path)'
  <2>1. ASSUME n \in ToSet(path') PROVE FALSE
    <3>1. PICK i \in 1 .. k - 1 : path'[i] = n
        BY <1>4, <2>1, Members
    <3>. QED
        BY <1>4, <1>6, <1>7, <3>1
  <2>. QED
      BY <2>1
<1>10. Descends'
  <2>1. \A i, j \in 1 .. Len(path') : i < j => path'[j] < path'[i]
    <3>1. \A i, j \in 1 .. k : i < j => path[j] < path[i]
        BY DEF Inv, Descends
    <3>. QED
        BY <1>4, <3>1
  <2>2. ASSUME NEW i \in 1 .. Len(path') - 1
        PROVE  path'[i + 1] \in ToSet(tensor'[path'[i]].prev)
    <3>1. i \in 1 .. k - 1 /\ i + 1 \in 1 .. k - 1
        BY <1>4
    <3>2. path[i + 1] \in Parents(path[i])
        BY <3>1 DEF Inv, Descends
    <3>. QED
        BY <1>2, <1>4, <3>1, <3>2 DEF Parents
  <2>. QED
      BY <1>4, <1>6, <2>1, <2>2 DEF Descends, Parents
<1>11. Sorted'
  <2>1. \A i \in 1 .. l : topo[i] \in ToSet(topo) /\ topo[i] \notin ToSet(path)
      BY <1>3, Members DEF Inv, Sorted
  <2>2. \A i, j \in 1 .. Len(topo') : i < j => topo'[i] # topo'[j]
    <3>1. \A i, j \in 1 .. l : i < j => topo[i] # topo[j]
        BY DEF Inv, Sorted
    <3>2. \A i \in 1 .. l : topo[i] # n
        BY <1>4, <2>1
    <3>3. ASSUME NEW i \in 1 .. l + 1, NEW j \in 1 .. l + 1, i < j PROVE topo'[i] # topo'[j]
      <4>1. i \in 1 .. l /\ (j \in 1 .. l \/ j = l + 1)
          BY <1>3, <3>3
      <4>. HIDE DEF l
      <4>. QED
          BY <1>5, <3>1, <3>2, <3>3, <4>1
    <3>. QED
        BY <1>5, <3>3
  <2>3. \A i \in 1 .. Len(topo') : topo'[i] \notin ToSet(path)'
    <3>1. ASSUME NEW i \in 1 .. l + 1 PROVE topo'[i] \notin ToSet(path)'
      <4>1. i \in 1 .. l \/ i = l + 1
          BY <1>3
      <4>. HIDE DEF l
      <4>. QED
          BY <1>4, <1>5, <1>9, <2>1, <4>1
    <3>. QED
        BY <1>5, <3>1
  <2>4. ASSUME NEW i \in 1 .. l + 1, NEW m \in ToSet(tensor'[topo'[i]].prev)
        PROVE  \E j \in 1 .. i - 1 : topo'[j] = m
    <3>1. CASE i \in 1 .. l
      <4>1. m \in Parents(topo[i])
          BY <1>2, <1>5, <2>4, <3>1 DEF Parents
      <4>2. PICK j \in 1 .. i - 1 : topo[j] = m
          BY <3>1, <4>1 DEF Inv, Sorted
      <4>. QED
          BY <1>5, <3>1, <4>2
    <3>2. CASE i = l + 1
      <4>1. m \in ToSet(topo)
          BY <1>2, <1>5, <1>8, <2>4, <3>2 DEF Parents
      <4>2. PICK j \in 1 .. l : topo[j] = m
          BY <1>3, <4>1, Members
      <4>. QED
          BY <1>3, <1>5, <3>2, <4>2
    <3>. QED
        BY <1>3, <3>1, <3>2
  <2>. HIDE DEF l
  <2>5. \A i \in 1 .. Len(topo') : \A m \in ToSet(tensor'[topo'[i]].prev) :
           \E j \in 1 .. i - 1 : topo'[j] = m
      BY <1>5, <2>4
  <2>. QED
      BY <1>5, <1>6, <2>2, <2>3, <2>5 DEF Sorted, Parents
\* Whoever waited for a tensor waits for it still.
<1>12. ASSUME NEW m \in ToSet(topo)
       PROVE  \E c \in ToSet(path)' \cup ToSet(topo)' : m \in Parents(c)
    BY <1>2, <1>4, <1>5 DEF Inv, Awaited
<1>13. CASE path' # << >>
  <2>1. UNCHANGED <<phase, grad>>
      BY <1>13 DEF Return
  <2>2. k - 1 > 0 /\ k - 1 \in 1 .. Len(path') /\ path'[k - 1] = path[k - 1] /\ path'[1] = path[1]
    <3>1. Len(path') # 0 /\ Len(path') \in Nat
        BY <1>4, <1>13, EmptySeq
    <3>. QED
        BY <1>4, <3>1
  <2>3. n \in Parents(path[k - 1])
    <3>1. k - 1 \in 1 .. Len(path) - 1 /\ k - 1 + 1 = k
        BY <1>4, <2>2
    <3>2. path[k - 1 + 1] \in Parents(path[k - 1])
        BY <3>1 DEF Inv, Descends
    <3>. QED
        BY <1>4, <3>1, <3>2
  <2>4. path[k - 1] \in ToSet(path)'
      BY <1>4, <2>2, Members
  <2>5. ASSUME NEW m \in ToSet(topo)'
        PROVE  \E c \in ToSet(path)' \cup ToSet(topo)' : m \in Parents(c)
    <3>. HIDE DEF k
    <3>. QED
        BY <1>5, <1>12, <2>3, <2>4
  <2>6. Graphs'
      BY <1>2, <2>1 DEF Inv, Graphs, Shaped, Tensors, Data
  <2>7. Awaited'
      BY <1>2, <2>1, <2>5 DEF Awaited, Parents
  <2>8. Phases'
      BY <1>2, <1>13, <2>1, <2>2 DEF Inv, Phases, Data
  <2>. QED
      BY <1>10, <1>11, <2>6, <2>7, <2>8 DEF Inv
<1>14. CASE path' = << >>
  <2>1. phase' = "propagate" /\ grad' = [grad EXCEPT ![n] = <<<<1>>>>]
      BY <1>1, <1>14 DEF Return
  <2>2. k = 1 /\ ToSet(path)' = {}
    <3>1. Len(path') = 0
        BY <1>14
    <3>. QED
        BY <1>4, <1>14, <3>1 DEF ToSet
  <2>3. Alike(<< << 1 >> >>, << << 1 >> >>)
      BY Singles DEF Alike
  <2>4. Sequence(grad) /\ Len(grad) = Len(tensor) /\ Len(tensor) \in Nat /\ Tensors = 1 .. Len(tensor)
      BY DEF Inv, Graphs, Sequence, Tensors
  <2>5. /\ grad' = [i \in 1 .. Len(tensor) |-> grad'[i]] /\ grad'[n] = <<<<1>>>>
        /\ \A i \in Tensors : i # n => grad'[i] = grad[i]
      BY <1>4, <2>1, <2>4 DEF Sequence
  <2>6. Sequence(grad') /\ Len(grad') = Len(tensor)
      BY <2>4, <2>5, LenIs DEF Sequence
  <2>7. \A i \in Tensors : grad'[i] = None \/ Shaped(grad'[i], i)
      BY <2>3, <2>5 DEF Inv, Graphs, Shaped
  <2>8. Graphs'
      BY <1>2, <2>6, <2>7, <1>6 DEF Inv, Graphs, Shaped, Tensors, Data
  <2>9. grad'[n] # None
      BY <2>5, Singles, SomeGradient
  <2>10. Awaited'
      BY <1>2, <1>5, <1>12, <2>1, <2>2, <2>9 DEF Awaited, Parents
  <2>11. Phases'
      BY <1>5, <1>14, <2>1 DEF Phases
  <2>. QED
      BY <1>10, <1>11, <2>8, <2>10, <2>11 DEF Inv
<1>. QED
    BY <1>13, <1>14

-----------------------------------------------------------------------------
(* Propagating. *)

\* Gradients g have shapes that gradients take.
Held(g) ==
    /\ Sequence(g) /\ Len(g) = Len(tensor)
    /\ \A n \in Tensors : g[n] = None \/ Shaped(g[n], n)

LEMMA GradShaped ==
    ASSUME Graphs, NEW g, Held(g), NEW m \in Tensors
    PROVE  Shaped(GradOf(g, m), m) /\ Filling(GradOf(g, m))
<1>1. Filling(Data(m))
    BY DEF Graphs, MadeIn, Data
<1>2. Alike(Zeros(Data(m)), Data(m))
    BY <1>1, SameShapes
<1>. QED
    BY <1>2 DEF GradOf, Held, Shaped, Alike

\* A gradient that is added to keeps its shape, and nobody's is taken away.
LEMMA HeldOn ==
    ASSUME Graphs, NEW g, Held(g), NEW m \in Tensors, NEW d
    PROVE  /\ Held(Accumulated(g, m, d))
           /\ \A k \in Tensors : g[k] # None => Accumulated(g, m, d)[k] # None
           /\ Accumulated(g, m, d)[m] # None
<1>1. PICK h : h = Accumulated(g, m, d)
    OBVIOUS
<1>2. Len(g) = Len(tensor) /\ Tensors = 1 .. Len(tensor) /\ Sequence(g)
    BY DEF Held, Tensors
<1>3. Shaped(GradOf(g, m), m) /\ Filling(GradOf(g, m))
    BY GradShaped
<1>4. /\ Sequence(h) /\ Len(h) = Len(g) /\ \A k \in 1 .. Len(g) : k # m => h[k] = g[k]
      /\ Alike(h[m], GradOf(g, m))
    BY <1>1, <1>2, <1>3, AccumulatedShapes
<1>5. Shaped(h[m], m) /\ h[m] # None
    BY <1>3, <1>4, SomeGradient DEF Shaped, Alike
<1>6. Held(h)
    BY <1>2, <1>4, <1>5 DEF Held
<1>. QED
    BY <1>1, <1>2, <1>4, <1>5, <1>6

\* The i-th parent of n is given a gradient.
LEMMA GivenHeld ==
    ASSUME Graphs, NEW n \in Tensors, NEW e,
           NEW d, d = Passed(n, e), NEW g, Held(g), NEW i \in {1, 2},
           NEW h, h = IF i \in DOMAIN d THEN Accumulated(g, tensor[n].prev[i], d[i]) ELSE g
    PROVE  /\ Held(h)
           /\ \A m \in Tensors : g[m] # None => h[m] # None
           /\ i \in 1 .. Len(tensor[n].prev) => h[tensor[n].prev[i]] # None
<1>. DEFINE prev == tensor[n].prev
<1>1. Len(tensor) \in Nat /\ Tensors = 1 .. Len(tensor) /\ n \in Nat /\ MadeIn(tensor, n)
    BY Earlier DEF Graphs
<1>2. DOMAIN d = 1 .. Len(prev)
    BY <1>1, PassedTo
<1>3. CASE i \notin 1 .. Len(prev)
    BY <1>2, <1>3
<1>4. CASE i \in 1 .. Len(prev)
  <2>1. PICK m : m = prev[i]
      OBVIOUS
  <2>2. m \in Tensors
    <3>1. prev \in Seq(1 .. n - 1)
        BY <1>1 DEF MadeIn
    <3>. HIDE DEF prev
    <3>2. prev[i] \in 1 .. n - 1
        BY <1>4, <3>1, ElementOfSeq
    <3>. QED
        BY <1>1, <2>1, <3>2
  <2>3. PICK x : x = d[i]
      OBVIOUS
  <2>4. h = Accumulated(g, m, x)
      BY <1>2, <1>4, <2>1, <2>3
  <2>. QED
      BY <2>1, <2>2, <2>4, HeldOn
<1>. QED
    BY <1>3, <1>4

\* The tensor whose turn it is has its gradient, and none that waits was made of it.
LEMMA Ready ==
    ASSUME Inv, phase = "propagate"
    PROVE  /\ topo \in Seq(Tensors) /\ topo # << >> /\ Last(topo) \in Tensors
           /\ grad[Last(topo)] # None
           /\ \A n \in ToSet(topo) : Last(topo) \notin Parents(n)
<1>. DEFINE l == Len(topo)
<1>1. PICK n : n = Last(topo)
    OBVIOUS
<1>2. topo # << >> /\ topo \in Seq(Tensors)
    BY DEF Inv, Phases, Sorted
<1>3. l \in Nat /\ l > 0 /\ n = topo[l] /\ n \in Tensors /\ n \in ToSet(topo)
    BY <1>1, <1>2, Ends
<1>4. ASSUME NEW c \in ToSet(topo), n \in Parents(c) PROVE FALSE
  <2>1. PICK i \in 1 .. l : topo[i] = c
      BY <1>2, Members
  <2>2. PICK j \in 1 .. i - 1 : topo[j] = n
      BY <1>4, <2>1 DEF Inv, Sorted
  <2>3. j \in 1 .. l /\ l \in 1 .. l /\ j < l
      BY <1>3, <2>1, <2>2
  <2>4. topo[j] # topo[l]
      BY <2>3 DEF Inv, Sorted
  <2>. QED
      BY <1>3, <2>2, <2>4
<1>5. grad[n] # None
    BY <1>3, <1>4 DEF Inv, Awaited
<1>. QED
    BY <1>1, <1>2, <1>3, <1>4, <1>5

LEMMA PropagateInv ==
    ASSUME Inv, Propagate
    PROVE  Inv'
<1>. DEFINE l == Len(topo)
<1>1. PICK n : n = Last(topo)
    OBVIOUS
<1>2. PICK d : d = Passed(n, grad[n])
    OBVIOUS
<1>3. PICK g : g = IF 1 \in DOMAIN d THEN Accumulated(grad, tensor[n].prev[1], d[1]) ELSE grad
    OBVIOUS
<1>4. PICK h : h = IF 2 \in DOMAIN d THEN Accumulated(g, tensor[n].prev[2], d[2]) ELSE g
    OBVIOUS
<1>5. /\ UNCHANGED <<tensor, path, calls, used>> /\ phase = "propagate"
      /\ grad' = h /\ topo' = Front(topo)
      /\ phase' = IF topo' = << >> THEN "idle" ELSE phase
    BY <1>1, <1>2, <1>3, <1>4 DEF Propagate
<1>6. path = << >>
    BY <1>5 DEF Inv, Phases
<1>7. topo \in Seq(Tensors) /\ n \in Tensors /\ grad[n] # None /\ topo # << >>
    BY <1>1, <1>5, Ready
<1>8. Held(grad) /\ Graphs
    BY DEF Inv, Graphs, Held
<1>9. /\ Held(g) /\ \A m \in Tensors : grad[m] # None => g[m] # None
      /\ 1 \in 1 .. Len(tensor[n].prev) => g[tensor[n].prev[1]] # None
    BY <1>2, <1>3, <1>7, <1>8, GivenHeld
<1>10. /\ Held(h) /\ \A m \in Tensors : g[m] # None => h[m] # None
       /\ 2 \in 1 .. Len(tensor[n].prev) => h[tensor[n].prev[2]] # None
    BY <1>2, <1>4, <1>7, <1>8, <1>9, GivenHeld
<1>11. ASSUME NEW m \in Parents(n) PROVE h[m] # None
  <2>1. MadeIn(tensor, n) /\ m \in Tensors
      BY <1>7, <1>8, Earlier DEF Graphs
  <2>2. tensor[n].prev \in Seq(1 .. n - 1) /\ Len(tensor[n].prev) \in {0, 1, 2}
      BY <2>1 DEF MadeIn
  <2>3. PICK i \in 1 .. Len(tensor[n].prev) : tensor[n].prev[i] = m
      BY <2>2, Members DEF Parents
  <2>4. i \in {1, 2}
      BY <2>2, <2>3
  <2>. QED
      BY <1>9, <1>10, <2>1, <2>3, <2>4
<1>12. Graphs' /\ Tensors' = Tensors
    BY <1>5, <1>8, <1>10 DEF Graphs, Held, Shaped, Tensors, Data
<1>13. /\ l \in Nat /\ l > 0 /\ n = topo[l]
       /\ topo' \in Seq(Tensors) /\ Len(topo') = l - 1
       /\ \A i \in 1 .. l - 1 : topo'[i] = topo[i]
       /\ ToSet(topo) = ToSet(topo)' \cup {n}
    BY <1>1, <1>5, <1>7, Ends
<1>14. Descends'
    BY <1>5, <1>12 DEF Inv, Descends, Parents
<1>15. Sorted'
  <2>1. \A i, j \in 1 .. l - 1 : i < j => topo'[i] # topo'[j]
      BY <1>13 DEF Inv, Sorted
  <2>2. \A i \in 1 .. l - 1 : topo'[i] \notin ToSet(path)'
      BY <1>5, <1>13 DEF Inv, Sorted
  <2>3. ASSUME NEW i \in 1 .. l - 1, NEW m \in ToSet(tensor'[topo'[i]].prev)
        PROVE  \E j \in 1 .. i - 1 : topo'[j] = m
    <3>1. m \in Parents(topo[i]) /\ i \in 1 .. l
        BY <1>5, <1>13, <2>3 DEF Parents
    <3>2. PICK j \in 1 .. i - 1 : topo[j] = m
        BY <3>1 DEF Inv, Sorted
    <3>. HIDE DEF l
    <3>3. l \in Nat /\ j \in 1 .. l - 1
        BY <1>13, <3>2
    <3>4. topo'[j] = topo[j]
        BY <1>13, <3>3
    <3>. QED
        BY <3>2, <3>4
  <2>. HIDE DEF l
  <2>4. \A i, j \in 1 .. Len(topo') : i < j => topo'[i] # topo'[j]
      BY <1>13, <2>1
  <2>5. \A i \in 1 .. Len(topo') : topo'[i] \notin ToSet(path)'
      BY <1>13, <2>2
  <2>6. \A i \in 1 .. Len(topo') : \A m \in ToSet(tensor'[topo'[i]].prev) :
           \E j \in 1 .. i - 1 : topo'[j] = m
      BY <1>13, <2>3
  <2>. QED
      BY <1>12, <1>13, <2>4, <2>5, <2>6 DEF Sorted, Parents
<1>16. ASSUME NEW m \in ToSet(topo)'
       PROVE  h[m] # None \/ \E c \in ToSet(topo)' : m \in Parents(c)
  <2>1. m \in ToSet(topo) /\ m \in Tensors
      BY <1>7, <1>13, Members
  <2>2. grad[m] # None \/ \E c \in ToSet(topo) : m \in Parents(c)
      BY <1>5, <2>1 DEF Inv, Awaited
  <2>3. grad[m] # None => h[m] # None
      BY <1>9, <1>10, <2>1
  <2>. QED
      BY <1>11, <1>13, <2>2, <2>3
<1>17. Awaited'
    BY <1>5, <1>16 DEF Awaited, Parents
<1>18. Phases'
    BY <1>5, <1>6 DEF Phases
<1>. QED
    BY <1>12, <1>14, <1>15, <1>17, <1>18 DEF Inv

\* A closure that raises has a parent to give to.
LEMMA Raiser ==
    ASSUME Graphs, NEW n \in Tensors, ~Fits(n)
    PROVE  /\ 1 \in 1 .. Len(tensor[n].prev)
           /\ tensor[n].prev[1] \in Tensors /\ tensor[n].prev[1] \in Parents(n)
<1>1. MadeIn(tensor, n) /\ n \in Nat /\ Len(tensor) \in Nat /\ Tensors = 1 .. Len(tensor)
    BY Earlier DEF Graphs
<1>2. ASSUME Len(tensor[n].prev) = 0 PROVE FALSE
  <2>1. tensor[n].op = "leaf"
      BY <1>1, <1>2 DEF MadeIn
  <2>2. DOMAIN Passed(n, grad[n]) = 1 .. 0
      BY <1>1, <1>2, PassedTo
  <2>3. Fits(n)
      BY <2>1, <2>2 DEF Fits, Computes
  <2>. QED
      BY <2>3
<1>3. PICK s : s = tensor[n].prev
    OBVIOUS
<1>4. Len(s) \in Nat /\ s \in Seq(1 .. n - 1)
    BY <1>1, <1>3 DEF MadeIn
<1>5. 1 \in 1 .. Len(s)
    BY <1>2, <1>3, <1>4
<1>6. s[1] \in 1 .. n - 1
    BY <1>4, <1>5, ElementOfSeq
<1>7. s[1] \in ToSet(s)
    BY <1>4, <1>5, Members
<1>. QED
    BY <1>1, <1>3, <1>5, <1>6, <1>7 DEF Parents

\* Parents that have a gradient by now.
LEMMA BegunHeld ==
    ASSUME Graphs, NEW n \in Tensors, NEW b,
           b = [m \in Tensors |-> IF m \in Parents(n) THEN GradOf(grad, m) ELSE grad[m]]
    PROVE  Held(b)
<1>1. Held(grad) /\ Len(tensor) \in Nat /\ Tensors = 1 .. Len(tensor)
    BY Earlier DEF Graphs, Held
<1>2. b = [m \in 1 .. Len(tensor) |-> b[m]]
    BY <1>1
<1>3. Sequence(b) /\ Len(b) = Len(tensor)
    BY <1>1, <1>2, LenIs DEF Sequence
<1>4. ASSUME NEW m \in Tensors PROVE b[m] = None \/ Shaped(b[m], m)
  <2>1. b[m] = GradOf(grad, m) \/ b[m] = grad[m]
      OBVIOUS
  <2>. QED
      BY <1>1, <2>1, GradShaped DEF Held
<1>. QED
    BY <1>3, <1>4 DEF Held

\* backward ends where a closure raises.
LEMMA RaiseInv ==
    ASSUME Inv, Raise
    PROVE  Inv'
<1>1. PICK n : n = Last(topo)
    OBVIOUS
<1>2. PICK q, x : q = tensor[n].prev[1] /\ x = Passed(n, grad[n])[1]
    OBVIOUS
<1>3. PICK b : b = [m \in Tensors |-> IF m \in Parents(n) THEN GradOf(grad, m) ELSE grad[m]]
    OBVIOUS
<1>4. /\ UNCHANGED <<tensor, path, calls, used>> /\ phase = "propagate" /\ ~Fits(n)
      /\ phase' = "idle" /\ topo' = << >>
      /\ grad' = Accumulated(b, q, x) \/ grad' = b
    BY <1>1, <1>2, <1>3 DEF Raise, Parents
<1>5. path = << >> /\ n \in Tensors /\ Graphs /\ MadeIn(tensor, n)
    BY <1>1, <1>4, Ready DEF Inv, Phases, Graphs
<1>6. Len(tensor) \in Nat /\ Tensors = 1 .. Len(tensor) /\ n \in Nat
    BY <1>5, Earlier
<1>7. q \in Tensors
    BY <1>2, <1>4, <1>5, Raiser
<1>9. Held(b)
    BY <1>3, <1>5, BegunHeld
<1>10. Held(grad')
  <2>1. Held(Accumulated(b, q, x))
      BY <1>5, <1>7, <1>9, HeldOn
  <2>. QED
      BY <1>4, <1>9, <2>1
<1>11. Graphs'
  <2>1. PICK h : h = grad'
      OBVIOUS
  <2>2. Sequence(h) /\ Len(h) = Len(tensor) /\ \A m \in Tensors : h[m] = None \/ Shaped(h[m], m)
      BY <1>10, <2>1 DEF Held
  <2>. QED
      BY <1>4, <1>5, <2>1, <2>2 DEF Graphs, Shaped, Tensors, Data
<1>. QED
    BY <1>4, <1>5, <1>11, Idle DEF Inv

-----------------------------------------------------------------------------
(* The optimiser. *)

LEMMA StepInv ==
    ASSUME Inv, Step
    PROVE  Inv'
<1>. DEFINE k == Len(tensor)
<1>1. /\ UNCHANGED <<grad, phase, path, topo>> /\ phase = "idle"
      /\ used' = Tensors \ Params /\ calls < MaxCalls /\ calls' = calls + 1
    BY DEF Step, Call
<1>2. Sequence(tensor) /\ Sequence(grad) /\ Len(grad) = k /\ k \in Nat /\ Tensors = 1 .. k
    BY DEF Inv, Graphs, Sequence, Tensors
<1>3. ASSUME NEW n \in Tensors
      PROVE  /\ Tensor(tensor'[n])
             /\ tensor'[n].op = tensor[n].op
             /\ tensor'[n].prev = tensor[n].prev
             /\ Alike(tensor'[n].data, Data(n))
  <2>1. Alike(Data(n), Data(n)) /\ Filling(Data(n)) /\ Tensor(tensor[n])
      BY DEF Inv, Graphs, MadeIn, Alike, Data
  <2>2. CASE n \in Params /\ grad[n] # None /\ 1 .. n \cap Misfits = {}
    <3>1. tensor'[n] = [tensor[n] EXCEPT !.data = Minus(@, Scaled(grad[n], Rate))]
        BY <2>2 DEF Step
    <3>. DEFINE d == Minus(Data(n), Scaled(grad[n], Rate))
    <3>2. Alike(d, Data(n))
        BY <2>1, SameShapes
    <3>3. tensor'[n] = [tensor[n] EXCEPT !.data = d]
        BY <3>1 DEF Data
    <3>. HIDE DEF d
    <3>4. tensor'[n] = [op |-> tensor[n].op, prev |-> tensor[n].prev, data |-> d]
        BY <2>1, <3>3 DEF Tensor
    <3>. QED
        BY <3>2, <3>4 DEF Tensor
  <2>3. CASE ~(n \in Params /\ grad[n] # None /\ 1 .. n \cap Misfits = {})
    <3>1. tensor'[n] = tensor[n]
        BY <2>3 DEF Step
    <3>. QED
        BY <2>1, <3>1 DEF Data
  <2>. QED
      BY <2>2, <2>3
<1>4. tensor' = [n \in 1 .. k |-> tensor'[n]]
    BY <1>2 DEF Step
<1>5. Sequence(tensor') /\ Len(tensor') = k
    BY <1>2, <1>4, LenIs DEF Sequence
<1>6. calls' \in 0 .. MaxCalls /\ used' \subseteq Tensors
    BY <1>1, Constants DEF Inv, Graphs
<1>7. \A n \in Tensors : grad'[n] = None \/ Shaped(grad'[n], n)
    BY <1>1 DEF Inv, Graphs
<1>8. Graphs'
    BY <1>1, <1>2, <1>3, <1>5, <1>6, <1>7, GraphsStay DEF Inv
<1>. QED
    BY <1>1, <1>8, Idle DEF Inv, Phases

LEMMA ZeroGradInv ==
    ASSUME Inv, ZeroGrad
    PROVE  Inv'
<1>. DEFINE k == Len(tensor)
<1>1. /\ UNCHANGED <<tensor, phase, path, topo, used>> /\ phase = "idle"
      /\ calls < MaxCalls /\ calls' = calls + 1
    BY DEF ZeroGrad, Call
<1>2. Sequence(tensor) /\ k \in Nat /\ Tensors = 1 .. k
    BY DEF Inv, Graphs, Sequence, Tensors
<1>3. grad' = [n \in 1 .. k |-> grad'[n]]
    BY <1>2 DEF ZeroGrad
<1>4. Sequence(grad') /\ Len(grad') = k
    BY <1>2, <1>3, LenIs DEF Sequence
<1>5. \A n \in Tensors : grad'[n] = None \/ Shaped(grad'[n], n)
    BY DEF ZeroGrad, Inv, Graphs
<1>6. calls' \in 0 .. MaxCalls /\ used' \subseteq Tensors
    BY <1>1, Constants DEF Inv, Graphs
<1>7. Graphs'
    BY <1>1, <1>2, <1>4, <1>5, <1>6 DEF Inv, Graphs, Shaped, Tensors, Data
<1>. QED
    BY <1>1, <1>7, Idle DEF Inv, Phases

-----------------------------------------------------------------------------

LEMMA InvNext == Inv /\ [Next]_vars => Inv'
<1>. SUFFICES ASSUME Inv, [Next]_vars PROVE Inv'
    OBVIOUS
<1>1. CASE \E a, b \in Tensors : AddTensors(a, b) \/ MulTensors(a, b) \/ MatMulTensors(a, b)
    BY <1>1, OperationInv
<1>2. CASE \E a \in Tensors : ReLUTensor(a) \/ SumTensor(a) \/ Backward(a)
    BY <1>2, OperationInv, BackwardInv
<1>3. CASE Visit
    BY <1>3, VisitInv
<1>4. CASE Return
    BY <1>4, ReturnInv
<1>5. CASE Propagate
    BY <1>5, PropagateInv
<1>9. CASE Raise
    BY <1>9, RaiseInv
<1>6. CASE Step
    BY <1>6, StepInv
<1>7. CASE ZeroGrad
    BY <1>7, ZeroGradInv
<1>8. CASE UNCHANGED vars
    BY <1>8 DEF vars, Inv, Graphs, Shaped, Descends, Sorted, Awaited, Phases, Tensors, Data, Parents
<1>. QED
    BY <1>1, <1>2, <1>3, <1>4, <1>5, <1>6, <1>7, <1>8, <1>9 DEF Next

LEMMA InvHolds == Spec => []Inv
BY InvInit, InvNext, PTL DEF Spec

\* Every variable has its type, whatever is called in whatever order and raises: a
\* gradient has the shape of its tensor, or is the [[1.0]] that backward gave it.
THEOREM TypesHold == Spec => []TypeOK
<1>1. ASSUME Inv PROVE TypeOK
  <2>1. ASSUME NEW n \in Tensors
        PROVE  grad[n] = None \/ Shape(grad[n]) \in {Shape(Data(n)), <<1, 1>>}
    <3>1. Len(<< << 1 >> >>) = 1 /\ Len(<< << 1 >> >>[1]) = 1
        BY Singles
    <3>. QED
        BY <1>1, <3>1 DEF Inv, Graphs, Shaped, Alike, Shape
  <2>2. ToSet(path) \subseteq Tensors /\ ToSet(topo) \subseteq Tensors
      BY <1>1, Members DEF Inv, Descends, Sorted
  <2>. QED
      BY <1>1, <2>1, <2>2 DEF TypeOK, Inv, Graphs, Phases
<1>. QED
    BY <1>1, InvHolds, PTL

\* The closures run in an order in which each has its gradient whole.
THEOREM GradientsReady == Spec => []GradientReady
<1>1. ASSUME Inv PROVE GradientReady
    BY <1>1, Ready DEF GradientReady, Parents
<1>. QED
    BY <1>1, InvHolds, PTL

-----------------------------------------------------------------------------
(* Sums. *)

\* A set of numbers has a least one.
LEMMA Least ==
    ASSUME NEW T \in SUBSET Nat, T # {}
    PROVE  \E x \in T : \A y \in T : x <= y
<1>. DEFINE R == {p \in Nat \X Nat : p[1] < p[2]}
<1>1. IsWellFoundedOn(R, Nat)
    BY NatLessThanWellFounded DEF OpToRel
<1>2. PICK x \in T : \A y \in T : <<y, x>> \notin R
    BY <1>1, WFMin, Zenon
<1>3. \A y \in T : <<y, x>> \in R <=> y < x
    OBVIOUS
<1>4. x \in Nat /\ \A y \in T : y \in Nat
    OBVIOUS
<1>5. ASSUME NEW y \in T PROVE x <= y
  <2>1. ~ (y < x) /\ x \in Nat /\ y \in Nat
      BY <1>2, <1>3, <1>4
  <2>. QED
      BY <2>1
<1>. QED
    BY <1>5

\* A set with 0 and with the successor of each of its numbers has all numbers.
LEMMA Induction ==
    ASSUME NEW n \in Nat, NEW H, 0 \in H, \A k \in 0 .. n - 1 : k \in H => k + 1 \in H
    PROVE  \A k \in 0 .. n : k \in H
<1>. DEFINE T == {k \in 0 .. n : k \notin H}
<1>. SUFFICES ASSUME T # {} PROVE FALSE
    OBVIOUS
<1>1. PICK m \in T : \A k \in T : m <= k
  <2>1. T \in SUBSET Nat
      OBVIOUS
  <2>. HIDE DEF T
  <2>. QED
      BY <2>1, Least
<1>2. m \in Nat /\ m # 0 /\ m <= n
    BY <1>1
<1>3. m - 1 \in 0 .. n - 1 /\ m - 1 \notin T /\ m - 1 + 1 = m
    BY <1>1, <1>2
<1>4. m - 1 \in H
    BY <1>3
<1>. QED
    BY <1>1, <1>3, <1>4

\* What the recursion of Total makes of the first n numbers of s.
IsSums(f, n, s) == f = [i \in 0 .. n |-> IF i = 0 THEN 0 ELSE f[i - 1] + s[i]]

LEMMA SumsIn ==
    ASSUME NEW n \in Nat, NEW s
    PROVE  \E f : IsSums(f, n, s)
<1>. DEFINE H == {m \in 0 .. n : \E f : IsSums(f, m, s)}
<1>1. 0 \in H
  <2>. DEFINE f == [i \in 0 .. 0 |-> 0]
  <2>1. IsSums(f, 0, s)
      BY DEF IsSums
  <2>. QED
      BY <2>1
<1>2. ASSUME NEW k \in 0 .. n - 1, k \in H PROVE k + 1 \in H
  <2>. DEFINE m == k + 1
  <2>1. PICK g : IsSums(g, k, s)
      BY <1>2
  <2>2. m \in Nat /\ m # 0 /\ m - 1 = k /\ m \in 0 .. n
      OBVIOUS
  <2>. HIDE DEF m
  <2>. DEFINE f == [i \in 0 .. m |-> IF i = m THEN g[m - 1] + s[m] ELSE g[i]]
  <2>3. \A i \in 0 .. k : g[i] = IF i = 0 THEN 0 ELSE g[i - 1] + s[i]
      BY <2>1, Zenon DEF IsSums
  <2>4. ASSUME NEW i \in 0 .. m
        PROVE  f[i] = IF i = 0 THEN 0 ELSE f[i - 1] + s[i]
    <3>1. CASE i = m
      <4>1. i # 0 /\ m - 1 \in 0 .. m /\ m - 1 # m
          BY <2>2, <3>1
      <4>2. f[i] = g[m - 1] + s[m] /\ f[m - 1] = g[m - 1]
          BY <3>1, <4>1
      <4>. HIDE DEF f
      <4>. QED
          BY <3>1, <4>1, <4>2
    <3>2. CASE i # m
      <4>1. i \in 0 .. k /\ f[i] = g[i]
          BY <2>2, <3>2
      <4>2. CASE i = 0
          BY <2>3, <4>1, <4>2
      <4>3. CASE i # 0
        <5>1. i - 1 \in 0 .. m /\ i - 1 # m
            BY <2>2, <4>1, <4>3
        <5>2. f[i - 1] = g[i - 1]
            BY <5>1
        <5>. HIDE DEF f
        <5>. QED
            BY <2>3, <4>1, <4>3, <5>2
      <4>. QED
          BY <4>2, <4>3
    <3>. QED
        BY <3>1, <3>2
  <2>5. f = [i \in 0 .. m |-> f[i]]
      OBVIOUS
  <2>. HIDE DEF f
  <2>6. IsSums(f, m, s)
      BY <2>4, <2>5 DEF IsSums
  <2>. QED
      BY <2>2, <2>6 DEF m
<1>3. n \in 0 .. n
    OBVIOUS
<1>. HIDE DEF H
<1>4. n \in H
    BY <1>1, <1>2, <1>3, Induction
<1>. QED
    BY <1>4 DEF H

\* The sums f of the first numbers of s.
Sums(f, n, s) ==
    /\ f[0] = 0
    /\ \A k \in 1 .. n : f[k] = f[k - 1] + s[k]
    /\ \A k \in 0 .. n : f[k] \in Int
    /\ Total(s) = f[n]

LEMMA SumsOf ==
    ASSUME NEW n \in Nat, NEW s \in [1 .. n -> Int]
    PROVE  \E f : Sums(f, n, s)
<1>1. Len(s) = n
    BY LenIs
<1>2. \E f : f = [i \in 0 .. Len(s) |-> IF i = 0 THEN 0 ELSE f[i - 1] + s[i]]
    BY <1>1, SumsIn, Zenon DEF IsSums
<1>3. PICK f : /\ f = [i \in 0 .. Len(s) |-> IF i = 0 THEN 0 ELSE f[i - 1] + s[i]]
               /\ Total(s) = f[Len(s)]
    BY <1>2, Zenon DEF Total
<1>4. \A i \in 0 .. n : f[i] = IF i = 0 THEN 0 ELSE f[i - 1] + s[i]
    BY <1>1, <1>3, Zenon
<1>5. f[0] = 0
    BY <1>4
<1>6. ASSUME NEW k \in 1 .. n PROVE f[k] = f[k - 1] + s[k]
  <2>1. k \in 0 .. n /\ k # 0
      OBVIOUS
  <2>. QED
      BY <1>4, <2>1, Zenon
<1>. DEFINE H == {k \in 0 .. n : f[k] \in Int}
<1>7. 0 \in H
    BY <1>5
<1>8. ASSUME NEW k \in 0 .. n - 1, k \in H PROVE k + 1 \in H
  <2>1. PICK j : j = k + 1 /\ j - 1 = k /\ j \in 1 .. n
      OBVIOUS
  <2>2. f[j] = f[k] + s[j] /\ f[k] \in Int
      BY <1>6, <1>8, <2>1
  <2>3. f[j] \in Int
      BY <2>1, <2>2
  <2>. QED
      BY <2>1, <2>3
<1>9. \A k \in 0 .. n : k \in H
  <2>. HIDE DEF H
  <2>. QED
      BY <1>7, <1>8, Induction
<1>10. \A k \in 0 .. n : f[k] \in Int
    BY <1>9
<1>11. Sums(f, n, s)
    BY <1>1, <1>3, <1>5, <1>6, <1>10 DEF Sums
<1>. QED
    BY <1>11

LEMMA TotalIsInt ==
    ASSUME NEW n \in Nat, NEW s \in [1 .. n -> Int]
    PROVE  Total(s) \in Int
<1>1. PICK f : Sums(f, n, s)
    BY SumsOf
<1>. QED
    BY <1>1 DEF Sums

\* The total of a sum is the sum of the totals.
AddsUp(n, z, x, y) == \A k \in 1 .. n : z[k] = x[k] + y[k]

LEMMA TotalPlus ==
    ASSUME NEW n \in Nat, NEW x \in [1 .. n -> Int], NEW y \in [1 .. n -> Int],
           NEW z \in [1 .. n -> Int], AddsUp(n, z, x, y)
    PROVE  Total(z) = Total(x) + Total(y)
<1>1. PICK f : Sums(f, n, x)
    BY SumsOf
<1>2. PICK g : Sums(g, n, y)
    BY SumsOf
<1>3. PICK h : Sums(h, n, z)
    BY SumsOf
<1>. DEFINE H == {k \in 0 .. n : h[k] = f[k] + g[k]}
<1>4. 0 \in H
    BY <1>1, <1>2, <1>3 DEF Sums
<1>5. ASSUME NEW k \in 0 .. n - 1, k \in H PROVE k + 1 \in H
  <2>1. PICK j : j = k + 1 /\ j - 1 = k /\ j \in 1 .. n /\ k \in 0 .. n
      OBVIOUS
  <2>2. /\ f[j] = f[k] + x[j] /\ g[j] = g[k] + y[j] /\ h[j] = h[k] + z[j]
        /\ f[k] \in Int /\ g[k] \in Int /\ h[k] \in Int
      BY <1>1, <1>2, <1>3, <2>1 DEF Sums
  <2>3. h[k] = f[k] + g[k] /\ z[j] = x[j] + y[j] /\ x[j] \in Int /\ y[j] \in Int
      BY <1>5, <2>1 DEF AddsUp
  <2>4. h[j] = f[j] + g[j]
      BY <2>2, <2>3
  <2>. QED
      BY <2>1, <2>4
<1>6. \A k \in 0 .. n : k \in H
  <2>. HIDE DEF H
  <2>. QED
      BY <1>4, <1>5, Induction
<1>7. h[n] = f[n] + g[n]
    BY <1>6
<1>. QED
    BY <1>1, <1>2, <1>3, <1>7 DEF Sums

LEMMA Distributes ==
    ASSUME NEW a \in Int, NEW b \in Int, NEW c \in Int
    PROVE  c * (a + b) = c * a + c * b /\ (a + b) * c = a * c + b * c
OBVIOUS

LEMMA Commutes ==
    ASSUME NEW a \in Int, NEW b \in Int, NEW c \in Int
    PROVE  a * b = b * a /\ a * (b * c) = (a * b) * c /\ a * b \in Int
OBVIOUS

\* The total of a multiple is that multiple of the total.
Multiple(n, z, c, x) == \A k \in 1 .. n : z[k] = c * x[k]

LEMMA TotalScaled ==
    ASSUME NEW n \in Nat, NEW c \in Int, NEW x \in [1 .. n -> Int],
           NEW z \in [1 .. n -> Int], Multiple(n, z, c, x)
    PROVE  Total(z) = c * Total(x)
<1>1. PICK f : Sums(f, n, x)
    BY SumsOf
<1>2. PICK h : Sums(h, n, z)
    BY SumsOf
<1>. DEFINE H == {k \in 0 .. n : h[k] = c * f[k]}
<1>3. 0 \in H
    BY <1>1, <1>2 DEF Sums
<1>4. ASSUME NEW k \in 0 .. n - 1, k \in H PROVE k + 1 \in H
  <2>1. PICK j : j = k + 1 /\ j - 1 = k /\ j \in 1 .. n /\ k \in 0 .. n
      OBVIOUS
  <2>2. /\ f[j] = f[k] + x[j] /\ h[j] = h[k] + z[j] /\ f[k] \in Int
      BY <1>1, <1>2, <2>1 DEF Sums
  <2>3. h[k] = c * f[k] /\ z[j] = c * x[j] /\ x[j] \in Int
      BY <1>4, <2>1 DEF Multiple
  <2>4. c * (f[k] + x[j]) = c * f[k] + c * x[j]
      BY <2>2, <2>3, Distributes
  <2>5. h[j] = c * f[j]
      BY <2>2, <2>3, <2>4
  <2>. QED
      BY <2>1, <2>5
<1>5. \A k \in 0 .. n : k \in H
  <2>. HIDE DEF H
  <2>. QED
      BY <1>3, <1>4, Induction
<1>6. h[n] = c * f[n]
    BY <1>5
<1>. QED
    BY <1>1, <1>2, <1>6 DEF Sums

\* One number more or less.
LEMMA TotalChanges ==
    ASSUME NEW n \in Nat, NEW m \in 1 .. n, NEW x \in [1 .. n -> Int], NEW y \in [1 .. n -> Int],
           \A k \in 1 .. n : k # m => y[k] = x[k]
    PROVE  Total(y) = Total(x) + (y[m] - x[m])
<1>1. PICK f : Sums(f, n, x)
    BY SumsOf
<1>2. PICK g : Sums(g, n, y)
    BY SumsOf
<1>. DEFINE d == y[m] - x[m]
            H == {k \in 0 .. n : g[k] = IF k < m THEN f[k] ELSE f[k] + d}
<1>3. d \in Int
    OBVIOUS
<1>4. 0 \in H
    BY <1>1, <1>2 DEF Sums
<1>5. ASSUME NEW k \in 0 .. n - 1, k \in H PROVE k + 1 \in H
  <2>1. PICK j : j = k + 1 /\ j - 1 = k /\ j \in 1 .. n /\ k \in 0 .. n
      OBVIOUS
  <2>2. /\ f[j] = f[k] + x[j] /\ g[j] = g[k] + y[j]
        /\ f[k] \in Int /\ g[k] \in Int /\ x[j] \in Int /\ y[j] \in Int
      BY <1>1, <1>2, <2>1 DEF Sums
  <2>3. g[k] = IF k < m THEN f[k] ELSE f[k] + d
      BY <1>5
  <2>4. CASE j < m
    <3>1. k < m /\ y[j] = x[j]
        BY <2>1, <2>4
    <3>. QED
        BY <2>1, <2>2, <2>3, <2>4, <3>1
  <2>5. CASE j = m
    <3>1. k < m /\ ~ (j < m) /\ y[j] = x[j] + d
        BY <2>1, <2>2, <2>5
    <3>. HIDE DEF d
    <3>. QED
        BY <1>3, <2>1, <2>2, <2>3, <3>1
  <2>6. CASE j > m
    <3>1. ~ (k < m) /\ ~ (j < m) /\ y[j] = x[j]
        BY <2>1, <2>6
    <3>. HIDE DEF d
    <3>. QED
        BY <1>3, <2>1, <2>2, <2>3, <3>1
  <2>. QED
      BY <2>1, <2>4, <2>5, <2>6
<1>6. \A k \in 0 .. n : k \in H
  <2>. HIDE DEF H
  <2>. QED
      BY <1>4, <1>5, Induction
<1>7. g[n] = f[n] + d
  <2>1. ~ (n < m) /\ n \in H
      BY <1>6
  <2>. QED
      BY <2>1
<1>. QED
    BY <1>1, <1>2, <1>7 DEF Sums

LEMMA TotalZero ==
    ASSUME NEW n \in Nat, NEW x \in [1 .. n -> Int], \A k \in 1 .. n : x[k] = 0
    PROVE  Total(x) = 0
<1>1. PICK c \in Int : c = 0
    OBVIOUS
<1>2. Multiple(n, x, c, x)
    BY <1>1 DEF Multiple
<1>3. Total(x) = c * Total(x)
    BY <1>2, TotalScaled
<1>. QED
    BY <1>1, <1>3, TotalIsInt

\* The total of one number among zeros.
LEMMA TotalOnly ==
    ASSUME NEW n \in Nat, NEW m \in 1 .. n, NEW x \in [1 .. n -> Int],
           \A k \in 1 .. n : k # m => x[k] = 0
    PROVE  Total(x) = x[m]
<1>. DEFINE o == [k \in 1 .. n |-> 0]
<1>1. o \in [1 .. n -> Int] /\ \A k \in 1 .. n : o[k] = 0
    OBVIOUS
<1>. HIDE DEF o
<1>2. Total(o) = 0
    BY <1>1, TotalZero
<1>3. \A k \in 1 .. n : k # m => x[k] = o[k]
    BY <1>1
<1>4. Total(x) = Total(o) + (x[m] - o[m])
    BY <1>1, <1>3, TotalChanges
<1>. QED
    BY <1>1, <1>2, <1>4

-----------------------------------------------------------------------------

\* A total of totals can be taken the other way round.
LEMMA TotalSwap ==
    ASSUME NEW r \in Nat, NEW c \in Nat, NEW m \in [1 .. r -> [1 .. c -> Int]]
    PROVE  Total([i \in 1 .. r |-> Total(m[i])])
              = Total([j \in 1 .. c |-> Total([i \in 1 .. r |-> m[i][j]])])
<1>. DEFINE R == [i \in 1 .. r |-> Total(m[i])]
            Col(j) == [i \in 1 .. r |-> m[i][j]]
            C == [j \in 1 .. c |-> Total(Col(j))]
            G == [j \in 1 .. c |-> CHOOSE g : Sums(g, r, Col(j))]
            At(k) == [j \in 1 .. c |-> G[j][k]]
<1>1. ASSUME NEW i \in 1 .. r PROVE m[i] \in [1 .. c -> Int] /\ R[i] = Total(m[i]) /\ R[i] \in Int
  <2>1. m[i] \in [1 .. c -> Int]
      OBVIOUS
  <2>. QED
      BY <2>1, TotalIsInt
<1>2. R \in [1 .. r -> Int]
    BY <1>1
<1>3. ASSUME NEW j \in 1 .. c
      PROVE  /\ Col(j) \in [1 .. r -> Int] /\ \A i \in 1 .. r : Col(j)[i] = m[i][j]
             /\ Sums(G[j], r, Col(j))
  <2>1. Col(j) \in [1 .. r -> Int] /\ \A i \in 1 .. r : Col(j)[i] = m[i][j]
      BY <1>1
  <2>. HIDE DEF Col
  <2>2. \E g : Sums(g, r, Col(j))
      BY <2>1, SumsOf
  <2>. QED
      BY <2>1, <2>2
<1>4. PICK f : Sums(f, r, R)
  <2>. HIDE DEF R
  <2>. QED
      BY <1>2, SumsOf
<1>5. ASSUME NEW k \in 0 .. r PROVE At(k) \in [1 .. c -> Int] /\ \A j \in 1 .. c : At(k)[j] = G[j][k]
  <2>. HIDE DEF Col, G
  <2>. QED
      BY <1>3 DEF Sums
<1>. HIDE DEF Col, G, R, At
<1>. DEFINE H == {k \in 0 .. r : f[k] = Total(At(k))}
<1>6. 0 \in H
  <2>0. 0 \in 0 .. r
      OBVIOUS
  <2>1. ASSUME NEW j \in 1 .. c PROVE At(0)[j] = 0
    <3>1. At(0)[j] = G[j][0]
        BY <1>5, <2>0, Zenon
    <3>2. G[j][0] = 0
        BY <1>3, Zenon DEF Sums
    <3>. QED
        BY <3>1, <3>2
  <2>2. At(0) \in [1 .. c -> Int]
      BY <1>5
  <2>3. Total(At(0)) = 0
      BY <2>1, <2>2, TotalZero
  <2>. QED
      BY <1>4, <2>3 DEF Sums
<1>7. ASSUME NEW k \in 0 .. r - 1, k \in H PROVE k + 1 \in H
  <2>1. PICK i : i = k + 1 /\ i - 1 = k /\ i \in 1 .. r /\ i \in 0 .. r /\ k \in 0 .. r
      OBVIOUS
  <2>2. f[i] = f[k] + R[i]
      BY <1>4, <2>1 DEF Sums
  <2>3. /\ At(i) \in [1 .. c -> Int] /\ At(k) \in [1 .. c -> Int] /\ m[i] \in [1 .. c -> Int]
        /\ R[i] = Total(m[i])
      BY <1>1, <1>5, <2>1
  <2>4. AddsUp(c, At(i), At(k), m[i])
    <3>. SUFFICES ASSUME NEW j \in 1 .. c PROVE At(i)[j] = At(k)[j] + m[i][j]
        BY DEF AddsUp
    <3>1. G[j][i] = G[j][k] + Col(j)[i]
        BY <1>3, <2>1 DEF Sums
    <3>. QED
        BY <1>3, <1>5, <2>1, <3>1
  <2>5. Total(At(i)) = Total(At(k)) + Total(m[i])
      BY <2>3, <2>4, TotalPlus
  <2>6. f[i] = Total(At(i))
      BY <1>7, <2>2, <2>3, <2>5
  <2>. QED
      BY <2>1, <2>6
<1>8. \A k \in 0 .. r : k \in H
  <2>. HIDE DEF H
  <2>. QED
      BY <1>6, <1>7, Induction
<1>9. f[r] = Total(At(r))
    BY <1>8
<1>10. At(r) = C
  <2>1. \A j \in 1 .. c : G[j][r] = Total(Col(j))
      BY <1>3 DEF Sums
  <2>. QED
      BY <2>1 DEF At
<1>11. Total(R) = Total(C)
    BY <1>4, <1>9, <1>10 DEF Sums
<1>. QED
    BY <1>11 DEF R, Col

-----------------------------------------------------------------------------
(* Matrices of whole numbers. *)

Size == Nat \ {0}
Mat(r, c) == [1 .. r -> [1 .. c -> Int]]

LEMMA MatIs ==
    ASSUME NEW r \in Size, NEW c \in Size, NEW a \in Mat(r, c)
    PROVE  /\ Len(a) = r /\ Len(a[1]) = c /\ Rows(a) = 1 .. r /\ Cols(a) = 1 .. c
           /\ Filling(a)
           /\ \A i \in 1 .. r : /\ a[i] \in [1 .. c -> Int]
                                /\ \A j \in 1 .. c : a[i][j] \in Int
<1>1. \A i \in 1 .. r : a[i] \in [1 .. c -> Int] /\ \A j \in 1 .. c : a[i][j] \in Int
    BY DEF Mat
<1>2. a = [i \in 1 .. r |-> a[i]] /\ a[1] = [j \in 1 .. c |-> a[1][j]]
    BY <1>1 DEF Mat, Size
<1>3. Filling(a) /\ Len(a) = r /\ Len(a[1]) = c
    BY <1>2, Shapes DEF Size
<1>. QED
    BY <1>1, <1>3 DEF Rows, Cols

LEMMA MatSame ==
    ASSUME NEW r \in Nat, NEW c \in Nat, NEW a \in Mat(r, c), NEW b \in Mat(r, c),
           \A i \in 1 .. r : \A j \in 1 .. c : a[i][j] = b[i][j]
    PROVE  a = b
<1>1. ASSUME NEW i \in 1 .. r PROVE a[i] = b[i]
  <2>1. a[i] \in [1 .. c -> Int] /\ b[i] \in [1 .. c -> Int]
      BY DEF Mat
  <2>. QED
      BY <2>1
<1>. QED
    BY <1>1 DEF Mat

\* The operations on matrices of one shape.
IsPlus(r, c, z, a, b) ==
    z \in Mat(r, c) /\ \A i \in 1 .. r : \A j \in 1 .. c : z[i][j] = a[i][j] + b[i][j]
IsTimes(r, c, z, a, b) ==
    z \in Mat(r, c) /\ \A i \in 1 .. r : \A j \in 1 .. c : z[i][j] = a[i][j] * b[i][j]
IsScaled(r, c, z, x, a) ==
    z \in Mat(r, c) /\ \A i \in 1 .. r : \A j \in 1 .. c : z[i][j] = x * a[i][j]

LEMMA MatPlus ==
    ASSUME NEW r \in Size, NEW c \in Size, NEW a \in Mat(r, c), NEW b \in Mat(r, c)
    PROVE  IsPlus(r, c, Plus(a, b), a, b)
<1>1. Rows(a) = 1 .. r /\ Cols(a) = 1 .. c
    BY MatIs
<1>2. \A i \in 1 .. r : \A j \in 1 .. c : a[i][j] \in Int /\ b[i][j] \in Int
    BY DEF Mat
<1>3. \A i \in 1 .. r : \A j \in 1 .. c : a[i][j] + b[i][j] \in Int
  <2>1. \A m, n \in Int : m + n \in Int
      OBVIOUS
  <2>. QED
      BY <1>2, <2>1, Zenon
<1>. QED
    BY <1>1, <1>3 DEF Plus, Mat, IsPlus

LEMMA MatTimes ==
    ASSUME NEW r \in Size, NEW c \in Size, NEW a \in Mat(r, c), NEW b \in Mat(r, c)
    PROVE  IsTimes(r, c, Times(a, b), a, b)
<1>1. Rows(a) = 1 .. r /\ Cols(a) = 1 .. c
    BY MatIs
<1>2. \A i \in 1 .. r : \A j \in 1 .. c : a[i][j] \in Int /\ b[i][j] \in Int
    BY DEF Mat
<1>3. \A i \in 1 .. r : \A j \in 1 .. c : a[i][j] * b[i][j] \in Int
  <2>1. \A m, n \in Int : m * n \in Int
      OBVIOUS
  <2>. QED
      BY <1>2, <2>1, Zenon
<1>. QED
    BY <1>1, <1>3 DEF Times, Mat, IsTimes

LEMMA MatOps ==
    ASSUME NEW r \in Size, NEW c \in Size, NEW a \in Mat(r, c), NEW b \in Mat(r, c)
    PROVE  /\ Plus(a, b) \in Mat(r, c) /\ Minus(a, b) \in Mat(r, c) /\ Times(a, b) \in Mat(r, c)
           /\ Zeros(a) \in Mat(r, c) /\ ReLU(a) \in Mat(r, c) /\ DReLU(a) \in Mat(r, c)
           /\ \A i \in 1 .. r : \A j \in 1 .. c : Zeros(a)[i][j] = 0
<1>1. Rows(a) = 1 .. r /\ Cols(a) = 1 .. c
    BY MatIs
<1>2. \A i \in 1 .. r : \A j \in 1 .. c : a[i][j] \in Int /\ b[i][j] \in Int
    BY DEF Mat
<1>3. \A i \in 1 .. r : \A j \in 1 .. c : a[i][j] - b[i][j] \in Int
  <2>1. \A m, n \in Int : m - n \in Int
      OBVIOUS
  <2>. QED
      BY <1>2, <2>1, Zenon
<1>4. Minus(a, b) \in Mat(r, c)
    BY <1>1, <1>3 DEF Minus, Mat
<1>5. Plus(a, b) \in Mat(r, c) /\ Times(a, b) \in Mat(r, c)
    BY MatPlus, MatTimes, Zenon DEF IsPlus, IsTimes
<1>6. Zeros(a) \in Mat(r, c) /\ \A i \in 1 .. r : \A j \in 1 .. c : Zeros(a)[i][j] = 0
    BY <1>1 DEF Zeros, Mat
<1>7. ReLU(a) \in Mat(r, c)
    BY <1>1, <1>2 DEF ReLU, Mat
<1>8. DReLU(a) \in Mat(r, c)
    BY <1>1 DEF DReLU, Mat
<1>. QED
    BY <1>4, <1>5, <1>6, <1>7, <1>8

LEMMA MatFilled ==
    ASSUME NEW r \in Size, NEW c \in Size, NEW a \in Mat(r, c), NEW x \in Int
    PROVE  /\ Filled(a, x) \in Mat(r, c) /\ Scaled(a, x) \in Mat(r, c)
           /\ \A i \in 1 .. r : \A j \in 1 .. c : Filled(a, x)[i][j] = x
<1>1. Rows(a) = 1 .. r /\ Cols(a) = 1 .. c
    BY MatIs
<1>2. \A i \in 1 .. r : \A j \in 1 .. c : a[i][j] \in Int
    BY DEF Mat
<1>3. Filled(a, x) \in Mat(r, c) /\ \A i \in 1 .. r : \A j \in 1 .. c : Filled(a, x)[i][j] = x
    BY <1>1 DEF Filled, Mat
<1>4. Scaled(a, x) \in Mat(r, c)
    BY <1>1, <1>2, Commutes DEF Scaled, Mat
<1>. QED
    BY <1>3, <1>4

LEMMA MatTranspose ==
    ASSUME NEW r \in Size, NEW c \in Size, NEW a \in Mat(r, c)
    PROVE  /\ Transpose(a) \in Mat(c, r)
           /\ \A i \in 1 .. c : \A j \in 1 .. r : Transpose(a)[i][j] = a[j][i]
<1>1. Rows(a) = 1 .. r /\ Cols(a) = 1 .. c
    BY MatIs
<1>2. \A i \in 1 .. r : \A j \in 1 .. c : a[i][j] \in Int
    BY DEF Mat
<1>. QED
    BY <1>1, <1>2 DEF Transpose, Mat

\* A number of a product: that of a row and a column.
RowCol(k, a, b, i, j) == [l \in 1 .. k |-> a[i][l] * b[l][j]]

LEMMA MatProduct ==
    ASSUME NEW r \in Size, NEW k \in Size, NEW c \in Size,
           NEW a \in Mat(r, k), NEW b \in Mat(k, c)
    PROVE  /\ MatMul(a, b) \in Mat(r, c)
           /\ \A i \in 1 .. r : \A j \in 1 .. c : MatMul(a, b)[i][j] = Total(RowCol(k, a, b, i, j))
<1>1. Rows(a) = 1 .. r /\ Cols(a) = 1 .. k /\ Cols(b) = 1 .. c
    BY MatIs
<1>2. ASSUME NEW i \in 1 .. r, NEW j \in 1 .. c PROVE Total(RowCol(k, a, b, i, j)) \in Int
  <2>1. \A l \in 1 .. k : a[i][l] \in Int /\ b[l][j] \in Int
      BY DEF Mat
  <2>2. RowCol(k, a, b, i, j) \in [1 .. k -> Int]
      BY <2>1, Commutes DEF RowCol
  <2>. QED
      BY <2>2, TotalIsInt DEF Size
<1>3. MatMul(a, b) = [i \in 1 .. r |-> [j \in 1 .. c |-> Total(RowCol(k, a, b, i, j))]]
    BY <1>1 DEF MatMul, RowCol
<1>. QED
    BY <1>2, <1>3 DEF Mat

-----------------------------------------------------------------------------
(* What one matrix makes of another: the sum of the products. *)

LEMMA SumMatrixIs ==
    ASSUME NEW r \in Size, NEW c \in Size, NEW a \in Mat(r, c)
    PROVE  /\ SumMatrix(a) = Total([i \in 1 .. r |-> Total(a[i])])
           /\ SumMatrix(a) \in Int
           /\ [i \in 1 .. r |-> Total(a[i])] \in [1 .. r -> Int]
           /\ \A i \in 1 .. r : Total(a[i]) \in Int
<1>1. r \in Nat /\ c \in Nat /\ Rows(a) = 1 .. r /\ \A i \in 1 .. r : a[i] \in [1 .. c -> Int]
    BY MatIs DEF Size
<1>2. ASSUME NEW i \in 1 .. r PROVE Total(a[i]) \in Int
    BY <1>1, TotalIsInt
<1>3. [i \in 1 .. r |-> Total(a[i])] \in [1 .. r -> Int]
    BY <1>2
<1>4. SumMatrix(a) = Total([i \in 1 .. r |-> Total(a[i])])
    BY <1>1 DEF SumMatrix
<1>5. SumMatrix(a) \in Int
    BY <1>1, <1>3, <1>4, TotalIsInt
<1>. QED
    BY <1>2, <1>3, <1>4, <1>5

LEMMA SumPlus ==
    ASSUME NEW r \in Size, NEW c \in Size, NEW a \in Mat(r, c), NEW b \in Mat(r, c)
    PROVE  SumMatrix(Plus(a, b)) = SumMatrix(a) + SumMatrix(b)
<1>1. PICK z : z = Plus(a, b)
    OBVIOUS
<1>0. r \in Nat /\ c \in Nat
    BY DEF Size
<1>2. IsPlus(r, c, z, a, b)
    BY <1>1, MatPlus, Zenon
<1>z. z \in Mat(r, c)
    BY <1>2 DEF IsPlus
<1>. DEFINE A == [i \in 1 .. r |-> Total(a[i])]
            B == [i \in 1 .. r |-> Total(b[i])]
            Z == [i \in 1 .. r |-> Total(z[i])]
<1>3. ASSUME NEW i \in 1 .. r PROVE Total(z[i]) = Total(a[i]) + Total(b[i])
  <2>1. a[i] \in [1 .. c -> Int] /\ b[i] \in [1 .. c -> Int] /\ z[i] \in [1 .. c -> Int]
      BY <1>z, MatIs
  <2>2. AddsUp(c, z[i], a[i], b[i])
      BY <1>2 DEF IsPlus, AddsUp
  <2>. QED
      BY <1>0, <2>1, <2>2, TotalPlus, Zenon
<1>4. AddsUp(r, Z, A, B)
    BY <1>3 DEF AddsUp
<1>5. /\ A \in [1 .. r -> Int] /\ SumMatrix(a) = Total(A)
      /\ B \in [1 .. r -> Int] /\ SumMatrix(b) = Total(B)
      /\ Z \in [1 .. r -> Int] /\ SumMatrix(z) = Total(Z)
    BY <1>z, SumMatrixIs
<1>. HIDE DEF A, B, Z
<1>6. Total(Z) = Total(A) + Total(B)
    BY <1>0, <1>4, <1>5, TotalPlus
<1>. QED
    BY <1>1, <1>5, <1>6

LEMMA SumScaled ==
    ASSUME NEW r \in Size, NEW c \in Size, NEW a \in Mat(r, c), NEW z \in Mat(r, c),
           NEW x \in Int, IsScaled(r, c, z, x, a)
    PROVE  SumMatrix(z) = x * SumMatrix(a)
<1>. DEFINE A == [i \in 1 .. r |-> Total(a[i])]
            Z == [i \in 1 .. r |-> Total(z[i])]
<1>0. r \in Nat /\ c \in Nat
    BY DEF Size
<1>1. ASSUME NEW i \in 1 .. r PROVE Total(z[i]) = x * Total(a[i])
  <2>1. a[i] \in [1 .. c -> Int] /\ z[i] \in [1 .. c -> Int]
      BY MatIs
  <2>2. Multiple(c, z[i], x, a[i])
      BY DEF IsScaled, Multiple
  <2>. QED
      BY <1>0, <2>1, <2>2, TotalScaled
<1>2. Multiple(r, Z, x, A)
    BY <1>1 DEF Multiple
<1>3. /\ A \in [1 .. r -> Int] /\ SumMatrix(a) = Total(A)
      /\ Z \in [1 .. r -> Int] /\ SumMatrix(z) = Total(Z)
    BY SumMatrixIs
<1>. HIDE DEF A, Z
<1>4. Total(Z) = x * Total(A)
    BY <1>0, <1>2, <1>3, TotalScaled
<1>. QED
    BY <1>3, <1>4

LEMMA SumOnly ==
    ASSUME NEW r \in Size, NEW c \in Size, NEW a \in Mat(r, c),
           NEW k \in 1 .. r, NEW l \in 1 .. c,
           \A i \in 1 .. r : \A j \in 1 .. c : (i = k /\ j = l) \/ a[i][j] = 0
    PROVE  SumMatrix(a) = a[k][l]
<1>. DEFINE A == [i \in 1 .. r |-> Total(a[i])]
<1>1. r \in Nat /\ c \in Nat /\ \A i \in 1 .. r : a[i] \in [1 .. c -> Int]
    BY MatIs DEF Size
<1>2. ASSUME NEW i \in 1 .. r, i # k PROVE A[i] = 0
    BY <1>1, <1>2, TotalZero
<1>3. A[k] = a[k][l]
  <2>1. a[k] \in [1 .. c -> Int] /\ \A j \in 1 .. c : j # l => a[k][j] = 0
      BY <1>1
  <2>. QED
      BY <1>1, <2>1, TotalOnly
<1>4. A \in [1 .. r -> Int] /\ SumMatrix(a) = Total(A)
    BY SumMatrixIs
<1>. HIDE DEF A
<1>5. Total(A) = A[k]
    BY <1>1, <1>2, <1>4, TotalOnly
<1>. QED
    BY <1>3, <1>4, <1>5

LEMMA SumZero ==
    ASSUME NEW r \in Size, NEW c \in Size, NEW a \in Mat(r, c),
           \A i \in 1 .. r : \A j \in 1 .. c : a[i][j] = 0
    PROVE  SumMatrix(a) = 0
<1>1. 1 \in 1 .. r /\ 1 \in 1 .. c
    BY DEF Size
<1>2. SumMatrix(a) = a[1][1]
    BY <1>1, SumOnly
<1>. QED
    BY <1>1, <1>2

\* The product of two matrices as vectors.
Dot(a, b) == SumMatrix(Times(a, b))

LEMMA DotIs ==
    ASSUME NEW r \in Size, NEW c \in Size, NEW a \in Mat(r, c), NEW b \in Mat(r, c)
    PROVE  Dot(a, b) \in Int
<1>1. Times(a, b) \in Mat(r, c)
    BY MatOps
<1>. QED
    BY <1>1, SumMatrixIs DEF Dot

LEMMA DotPlusRight ==
    ASSUME NEW r \in Size, NEW c \in Size,
           NEW g \in Mat(r, c), NEW x \in Mat(r, c), NEW y \in Mat(r, c)
    PROVE  Dot(g, Plus(x, y)) = Dot(g, x) + Dot(g, y)
<1>1. PICK s, u, v, w, z : /\ s = Plus(x, y) /\ u = Times(g, s)
                           /\ v = Times(g, x) /\ w = Times(g, y) /\ z = Plus(v, w)
    OBVIOUS
<1>2. IsPlus(r, c, s, x, y)
    BY <1>1, MatPlus, Zenon
<1>3. IsTimes(r, c, v, g, x)
    BY <1>1, MatTimes, Zenon
<1>4. IsTimes(r, c, w, g, y)
    BY <1>1, MatTimes, Zenon
<1>5. s \in Mat(r, c) /\ v \in Mat(r, c) /\ w \in Mat(r, c)
    BY <1>2, <1>3, <1>4 DEF IsPlus, IsTimes
<1>6. IsTimes(r, c, u, g, s)
    BY <1>1, <1>5, MatTimes, Zenon
<1>7. IsPlus(r, c, z, v, w)
    BY <1>1, <1>5, MatPlus, Zenon
<1>8. ASSUME NEW i \in 1 .. r, NEW j \in 1 .. c PROVE u[i][j] = z[i][j]
  <2>1. PICK m \in Int, n \in Int, p \in Int : m = g[i][j] /\ n = x[i][j] /\ p = y[i][j]
      BY MatIs
  <2>2. m * (n + p) = m * n + m * p
      BY Distributes
  <2>3. u[i][j] = m * (n + p) /\ z[i][j] = m * n + m * p
      BY <1>2, <1>3, <1>4, <1>6, <1>7, <2>1, Zenon DEF IsPlus, IsTimes
  <2>. QED
      BY <2>2, <2>3, Zenon
<1>9. u = z
  <2>1. r \in Nat /\ c \in Nat /\ u \in Mat(r, c) /\ z \in Mat(r, c)
      BY <1>6, <1>7 DEF IsPlus, IsTimes, Size
  <2>. QED
      BY <1>8, <2>1, MatSame, Zenon
<1>10. SumMatrix(Plus(v, w)) = SumMatrix(v) + SumMatrix(w)
    BY <1>5, SumPlus
<1>. QED
    BY <1>1, <1>9, <1>10, Zenon DEF Dot

LEMMA DotPlusLeft ==
    ASSUME NEW r \in Size, NEW c \in Size,
           NEW g \in Mat(r, c), NEW x \in Mat(r, c), NEW y \in Mat(r, c)
    PROVE  Dot(Plus(x, y), g) = Dot(x, g) + Dot(y, g)
<1>1. PICK s, u, v, w, z : /\ s = Plus(x, y) /\ u = Times(s, g)
                           /\ v = Times(x, g) /\ w = Times(y, g) /\ z = Plus(v, w)
    OBVIOUS
<1>2. IsPlus(r, c, s, x, y)
    BY <1>1, MatPlus, Zenon
<1>3. IsTimes(r, c, v, x, g)
    BY <1>1, MatTimes, Zenon
<1>4. IsTimes(r, c, w, y, g)
    BY <1>1, MatTimes, Zenon
<1>5. s \in Mat(r, c) /\ v \in Mat(r, c) /\ w \in Mat(r, c)
    BY <1>2, <1>3, <1>4 DEF IsPlus, IsTimes
<1>6. IsTimes(r, c, u, s, g)
    BY <1>1, <1>5, MatTimes, Zenon
<1>7. IsPlus(r, c, z, v, w)
    BY <1>1, <1>5, MatPlus, Zenon
<1>8. ASSUME NEW i \in 1 .. r, NEW j \in 1 .. c PROVE u[i][j] = z[i][j]
  <2>1. PICK m \in Int, n \in Int, p \in Int : m = g[i][j] /\ n = x[i][j] /\ p = y[i][j]
      BY MatIs
  <2>2. (n + p) * m = n * m + p * m
      BY Distributes
  <2>3. u[i][j] = (n + p) * m /\ z[i][j] = n * m + p * m
      BY <1>2, <1>3, <1>4, <1>6, <1>7, <2>1, Zenon DEF IsPlus, IsTimes
  <2>. QED
      BY <2>2, <2>3, Zenon
<1>9. u = z
  <2>1. r \in Nat /\ c \in Nat /\ u \in Mat(r, c) /\ z \in Mat(r, c)
      BY <1>6, <1>7 DEF IsPlus, IsTimes, Size
  <2>. QED
      BY <1>8, <2>1, MatSame, Zenon
<1>10. SumMatrix(Plus(v, w)) = SumMatrix(v) + SumMatrix(w)
    BY <1>5, SumPlus
<1>. QED
    BY <1>1, <1>9, <1>10, Zenon DEF Dot

\* A factor goes to the other side.
LEMMA DotTimes ==
    ASSUME NEW r \in Size, NEW c \in Size,
           NEW g \in Mat(r, c), NEW a \in Mat(r, c), NEW x \in Mat(r, c)
    PROVE  /\ Dot(g, Times(a, x)) = Dot(Times(a, g), x)
           /\ Dot(g, Times(x, a)) = Dot(Times(a, g), x)
<1>1. PICK s, t, q, u, v, w : /\ s = Times(a, x) /\ t = Times(x, a) /\ q = Times(a, g)
                              /\ u = Times(g, s) /\ v = Times(g, t) /\ w = Times(q, x)
    OBVIOUS
<1>2. IsTimes(r, c, s, a, x)
    BY <1>1, MatTimes, Zenon
<1>3. IsTimes(r, c, t, x, a)
    BY <1>1, MatTimes, Zenon
<1>4. IsTimes(r, c, q, a, g)
    BY <1>1, MatTimes, Zenon
<1>5. s \in Mat(r, c) /\ t \in Mat(r, c) /\ q \in Mat(r, c)
    BY <1>2, <1>3, <1>4 DEF IsTimes
<1>6. IsTimes(r, c, u, g, s)
    BY <1>1, <1>5, MatTimes, Zenon
<1>7. IsTimes(r, c, v, g, t)
    BY <1>1, <1>5, MatTimes, Zenon
<1>8. IsTimes(r, c, w, q, x)
    BY <1>1, <1>5, MatTimes, Zenon
<1>9. ASSUME NEW i \in 1 .. r, NEW j \in 1 .. c PROVE u[i][j] = w[i][j] /\ v[i][j] = w[i][j]
  <2>1. PICK m \in Int, n \in Int, p \in Int : m = g[i][j] /\ n = x[i][j] /\ p = a[i][j]
      BY MatIs
  <2>2. m * (p * n) = (p * m) * n /\ m * (n * p) = (p * m) * n
      BY Commutes
  <2>3. u[i][j] = m * (p * n)
      BY <1>2, <1>6, <2>1, Zenon DEF IsTimes
  <2>4. v[i][j] = m * (n * p)
      BY <1>3, <1>7, <2>1, Zenon DEF IsTimes
  <2>5. w[i][j] = (p * m) * n
      BY <1>4, <1>8, <2>1, Zenon DEF IsTimes
  <2>. QED
      BY <2>2, <2>3, <2>4, <2>5, Zenon
<1>10. \A i \in 1 .. r : \A j \in 1 .. c : u[i][j] = w[i][j]
    BY <1>9, Zenon
<1>11. \A i \in 1 .. r : \A j \in 1 .. c : v[i][j] = w[i][j]
    BY <1>9, Zenon
<1>12. r \in Nat /\ c \in Nat /\ u \in Mat(r, c) /\ v \in Mat(r, c) /\ w \in Mat(r, c)
    BY <1>6, <1>7, <1>8 DEF IsTimes, Size
<1>13. u = w
    BY <1>10, <1>12, MatSame, Zenon
<1>14. v = w
    BY <1>11, <1>12, MatSame, Zenon
<1>. QED
    BY <1>1, <1>13, <1>14, Zenon DEF Dot

\* The number in a matrix of one.
LEMMA SumSingle ==
    ASSUME NEW a \in Mat(1, 1)
    PROVE  SumMatrix(a) = a[1][1]
<1>1. /\ 1 \in Size /\ 1 \in 1 .. 1
      /\ \A i \in 1 .. 1 : \A j \in 1 .. 1 : (i = 1 /\ j = 1) \/ a[i][j] = 0
    BY DEF Size
<1>. QED
    BY <1>1, SumOnly

LEMMA DotSum ==
    ASSUME NEW r \in Size, NEW c \in Size,
           NEW a \in Mat(r, c), NEW x \in Mat(r, c), NEW g \in Mat(1, 1)
    PROVE  /\ <<<<SumMatrix(x)>>>> \in Mat(1, 1)
           /\ Dot(g, <<<<SumMatrix(x)>>>>) = Dot(Filled(a, g[1][1]), x)
<1>1. PICK s : s = SumMatrix(x)
    OBVIOUS
<1>2. s \in Int
    BY <1>1, SumMatrixIs
<1>3. PICK y : y = <<<<s>>>>
    OBVIOUS
<1>4. y \in Mat(1, 1) /\ y[1][1] = s
    BY <1>2, <1>3 DEF Mat
<1>5. PICK n : n = g[1][1]
    OBVIOUS
<1>6. n \in Int
    BY <1>5 DEF Mat
<1>7. Dot(g, y) = n * s
  <2>1. PICK t : t = Times(g, y)
      OBVIOUS
  <2>2. 1 \in Size /\ 1 \in 1 .. 1
      BY DEF Size
  <2>3. IsTimes(1, 1, t, g, y)
    <3>1. y \in Mat(1, 1) /\ 1 \in Size
        BY <1>4 DEF Size
    <3>. QED
        BY <2>1, <3>1, MatTimes, Zenon
  <2>4. SumMatrix(t) = t[1][1] /\ t[1][1] = g[1][1] * y[1][1]
      BY <2>2, <2>3, SumSingle DEF IsTimes
  <2>. QED
      BY <1>4, <1>5, <2>1, <2>3, <2>4 DEF Dot
<1>8. PICK f, z : f = Filled(a, n) /\ z = Times(f, x)
    OBVIOUS
<1>9. f \in Mat(r, c) /\ \A i \in 1 .. r : \A j \in 1 .. c : f[i][j] = n
  <2>1. /\ Filled(a, n) \in Mat(r, c)
        /\ \A i \in 1 .. r : \A j \in 1 .. c : Filled(a, n)[i][j] = n
      BY <1>6, MatFilled
  <2>. QED
      BY <1>8, <2>1
<1>10. IsScaled(r, c, z, n, x)
  <2>1. f \in Mat(r, c)
      BY <1>9
  <2>2. IsTimes(r, c, z, f, x)
      BY <1>8, <2>1, MatTimes, Zenon
  <2>. QED
      BY <1>9, <2>2 DEF IsTimes, IsScaled
<1>11. SumMatrix(z) = n * s
  <2>1. z \in Mat(r, c)
      BY <1>10 DEF IsScaled
  <2>. QED
      BY <1>1, <1>6, <1>10, <2>1, SumScaled
<1>. QED
    BY <1>1, <1>3, <1>4, <1>5, <1>7, <1>8, <1>11 DEF Dot

-----------------------------------------------------------------------------
(* A product of matrices can be applied to either side. *)

\* The products of row i of M with v, and of column l with u.
Across(k, M, i, v) == [l \in 1 .. k |-> M[i][l] * v[l]]
Down(r, M, l, u)   == [i \in 1 .. r |-> M[i][l] * u[i]]

\* A matrix between two vectors can be applied to either.
LEMMA Between ==
    ASSUME NEW r \in Nat, NEW k \in Nat, NEW M \in Mat(r, k),
           NEW u \in [1 .. r -> Int], NEW v \in [1 .. k -> Int]
    PROVE  Total([i \in 1 .. r |-> u[i] * Total(Across(k, M, i, v))])
              = Total([l \in 1 .. k |-> Total(Down(r, M, l, u)) * v[l]])
<1>. DEFINE N == [i \in 1 .. r |-> [l \in 1 .. k |-> u[i] * (M[i][l] * v[l])]]
            C(l) == [i \in 1 .. r |-> N[i][l]]
<1>0. \A m, n \in Int : m * n \in Int
    OBVIOUS
<1>1. \A i \in 1 .. r : \A l \in 1 .. k : M[i][l] \in Int /\ u[i] \in Int /\ v[l] \in Int
    BY DEF Mat
<1>2. \A i \in 1 .. r : \A l \in 1 .. k : M[i][l] * v[l] \in Int /\ M[i][l] * u[i] \in Int
    BY <1>0, <1>1, Zenon
<1>3. \A i \in 1 .. r : \A l \in 1 .. k : u[i] * (M[i][l] * v[l]) \in Int
    BY <1>0, <1>1, <1>2, Zenon
<1>4. N \in [1 .. r -> [1 .. k -> Int]] /\ \A i \in 1 .. r : \A l \in 1 .. k : N[i][l] = u[i] * (M[i][l] * v[l])
    BY <1>3
<1>. HIDE DEF N
<1>5. ASSUME NEW i \in 1 .. r PROVE Total(N[i]) = u[i] * Total(Across(k, M, i, v))
  <2>1. PICK A, B, c : A = Across(k, M, i, v) /\ B = N[i] /\ c = u[i]
      OBVIOUS
  <2>2. A \in [1 .. k -> Int] /\ B \in [1 .. k -> Int] /\ c \in Int
      BY <1>2, <1>4, <2>1 DEF Across
  <2>3. Multiple(k, B, c, A)
      BY <1>4, <2>1 DEF Multiple, Across
  <2>4. Total(B) = c * Total(A)
      BY <2>2, <2>3, TotalScaled
  <2>. QED
      BY <2>1, <2>4
<1>6. ASSUME NEW l \in 1 .. k PROVE Total(C(l)) = Total(Down(r, M, l, u)) * v[l]
  <2>. DEFINE D == Down(r, M, l, u)
  <2>1. D \in [1 .. r -> Int] /\ C(l) \in [1 .. r -> Int] /\ v[l] \in Int
      BY <1>2, <1>4 DEF Down
  <2>2. Multiple(r, C(l), v[l], D)
    <3>. SUFFICES ASSUME NEW i \in 1 .. r PROVE N[i][l] = v[l] * (M[i][l] * u[i])
        BY DEF Multiple, Down
    <3>1. PICK m \in Int, n \in Int, p \in Int : m = M[i][l] /\ n = u[i] /\ p = v[l]
        BY <1>1
    <3>2. N[i][l] = n * (m * p)
        BY <1>4, <3>1, Zenon
    <3>3. n * (m * p) = (n * m) * p /\ n * m = m * n /\ m * n \in Int
        BY Commutes
    <3>4. (m * n) * p = p * (m * n)
        BY <3>3, Commutes
    <3>. QED
        BY <3>1, <3>2, <3>3, <3>4, Zenon
  <2>. HIDE DEF D, C
  <2>3. Total(C(l)) = v[l] * Total(D)
      BY <2>1, <2>2, TotalScaled
  <2>4. PICK m \in Int, n \in Int : m = Total(D) /\ n = v[l]
      BY <2>1, TotalIsInt
  <2>5. n * m = m * n
      BY Commutes
  <2>. QED
      BY <2>3, <2>4, <2>5, Zenon DEF D
<1>7. Total([i \in 1 .. r |-> Total(N[i])]) = Total([l \in 1 .. k |-> Total(C(l))])
    BY <1>4, TotalSwap
<1>8. [i \in 1 .. r |-> Total(N[i])] = [i \in 1 .. r |-> u[i] * Total(Across(k, M, i, v))]
    BY <1>5
<1>9. [l \in 1 .. k |-> Total(C(l))] = [l \in 1 .. k |-> Total(Down(r, M, l, u)) * v[l]]
    BY <1>6
<1>. QED
    BY <1>7, <1>8, <1>9, Zenon

\* A matrix multiplied from the right goes to the other side transposed.
LEMMA DotRight ==
    ASSUME NEW r \in Size, NEW k \in Size, NEW c \in Size,
           NEW g \in Mat(r, c), NEW x \in Mat(r, k), NEW b \in Mat(k, c)
    PROVE  Dot(g, MatMul(x, b)) = Dot(MatMul(g, Transpose(b)), x)
<1>0. r \in Nat /\ k \in Nat /\ c \in Nat
    BY DEF Size
<1>1. PICK t : t = Transpose(b)
    OBVIOUS
<1>2. t \in Mat(c, k) /\ \A j \in 1 .. c : \A l \in 1 .. k : t[j][l] = b[l][j]
    BY <1>1, MatTranspose
<1>3. PICK p, q : p = MatMul(x, b) /\ q = MatMul(g, t)
    OBVIOUS
<1>4. p \in Mat(r, c) /\ \A i \in 1 .. r : \A j \in 1 .. c : p[i][j] = Total(RowCol(k, x, b, i, j))
    BY <1>3, MatProduct
<1>5. q \in Mat(r, k) /\ \A i \in 1 .. r : \A l \in 1 .. k : q[i][l] = Total(RowCol(c, g, t, i, l))
    BY <1>2, <1>3, MatProduct
<1>6. PICK y, z : y = Times(g, p) /\ z = Times(q, x)
    OBVIOUS
<1>7. IsTimes(r, c, y, g, p)
    BY <1>4, <1>6, MatTimes, Zenon
<1>8. IsTimes(r, k, z, q, x)
    BY <1>5, <1>6, MatTimes, Zenon
<1>9. ASSUME NEW i \in 1 .. r PROVE Total(y[i]) = Total(z[i])
  <2>1. g[i] \in [1 .. c -> Int] /\ x[i] \in [1 .. k -> Int]
      BY MatIs
  <2>2. Total([j \in 1 .. c |-> g[i][j] * Total(Across(k, t, j, x[i]))])
           = Total([l \in 1 .. k |-> Total(Down(c, t, l, g[i])) * x[i][l]])
      BY <1>0, <1>2, <2>1, Between
  <2>3. \A m, n \in Int : m * n = n * m
      OBVIOUS
  <2>4. ASSUME NEW j \in 1 .. c PROVE Across(k, t, j, x[i]) = RowCol(k, x, b, i, j)
    <3>1. ASSUME NEW l \in 1 .. k PROVE t[j][l] * x[i][l] = x[i][l] * b[l][j]
      <4>1. t[j][l] = b[l][j] /\ b[l][j] \in Int /\ x[i][l] \in Int
          BY <1>2, MatIs
      <4>. QED
          BY <2>3, <4>1, Zenon
    <3>. QED
        BY <3>1, Zenon DEF Across, RowCol
  <2>5. ASSUME NEW l \in 1 .. k PROVE Down(c, t, l, g[i]) = RowCol(c, g, t, i, l)
    <3>1. ASSUME NEW j \in 1 .. c PROVE t[j][l] * g[i][j] = g[i][j] * t[j][l]
      <4>1. t[j][l] \in Int /\ g[i][j] \in Int
          BY <1>2, MatIs
      <4>. QED
          BY <2>3, <4>1, Zenon
    <3>. QED
        BY <3>1, Zenon DEF Down, RowCol
  <2>6. y[i] = [j \in 1 .. c |-> g[i][j] * Total(Across(k, t, j, x[i]))]
    <3>1. y[i] = [j \in 1 .. c |-> y[i][j]]
      <4>1. y[i] \in [1 .. c -> Int]
          BY <1>7 DEF IsTimes, Mat
      <4>. QED
          BY <4>1
    <3>2. ASSUME NEW j \in 1 .. c PROVE y[i][j] = g[i][j] * Total(Across(k, t, j, x[i]))
        BY <1>4, <1>7, <2>4, Zenon DEF IsTimes
    <3>. QED
        BY <3>1, <3>2, Zenon
  <2>7. z[i] = [l \in 1 .. k |-> Total(Down(c, t, l, g[i])) * x[i][l]]
    <3>1. z[i] = [l \in 1 .. k |-> z[i][l]]
      <4>1. z[i] \in [1 .. k -> Int]
          BY <1>8 DEF IsTimes, Mat
      <4>. QED
          BY <4>1
    <3>2. ASSUME NEW l \in 1 .. k PROVE z[i][l] = Total(Down(c, t, l, g[i])) * x[i][l]
        BY <1>5, <1>8, <2>5, Zenon DEF IsTimes
    <3>. QED
        BY <3>1, <3>2, Zenon
  <2>. QED
      BY <2>2, <2>6, <2>7, Zenon
<1>10. SumMatrix(y) = Total([i \in 1 .. r |-> Total(y[i])])
    BY <1>7, SumMatrixIs DEF IsTimes
<1>11. SumMatrix(z) = Total([i \in 1 .. r |-> Total(z[i])])
    BY <1>8, SumMatrixIs DEF IsTimes
<1>12. SumMatrix(y) = SumMatrix(z)
    BY <1>9, <1>10, <1>11
<1>. QED
    BY <1>1, <1>3, <1>6, <1>12, Zenon DEF Dot

\* One from the left, too.
LEMMA DotLeft ==
    ASSUME NEW r \in Size, NEW k \in Size, NEW c \in Size,
           NEW g \in Mat(r, c), NEW a \in Mat(r, k), NEW x \in Mat(k, c)
    PROVE  Dot(g, MatMul(a, x)) = Dot(MatMul(Transpose(a), g), x)
<1>0. r \in Nat /\ k \in Nat /\ c \in Nat
    BY DEF Size
<1>1. PICK t : t = Transpose(a)
    OBVIOUS
<1>2. t \in Mat(k, r) /\ \A l \in 1 .. k : \A i \in 1 .. r : t[l][i] = a[i][l]
    BY <1>1, MatTranspose
<1>3. PICK p, q : p = MatMul(a, x) /\ q = MatMul(t, g)
    OBVIOUS
<1>4. p \in Mat(r, c) /\ \A i \in 1 .. r : \A j \in 1 .. c : p[i][j] = Total(RowCol(k, a, x, i, j))
    BY <1>3, MatProduct
<1>5. q \in Mat(k, c) /\ \A l \in 1 .. k : \A j \in 1 .. c : q[l][j] = Total(RowCol(r, t, g, l, j))
    BY <1>2, <1>3, MatProduct
<1>6. PICK y, z : y = Times(g, p) /\ z = Times(q, x)
    OBVIOUS
<1>7. IsTimes(r, c, y, g, p)
    BY <1>4, <1>6, MatTimes, Zenon
<1>8. IsTimes(k, c, z, q, x)
    BY <1>5, <1>6, MatTimes, Zenon
<1>. DEFINE Y(j) == [i \in 1 .. r |-> y[i][j]]
            Z(j) == [l \in 1 .. k |-> z[l][j]]
<1>9. ASSUME NEW j \in 1 .. c PROVE Total(Y(j)) = Total(Z(j))
  <2>1. PICK u, v : u = [i \in 1 .. r |-> g[i][j]] /\ v = [l \in 1 .. k |-> x[l][j]]
      OBVIOUS
  <2>2. u \in [1 .. r -> Int] /\ v \in [1 .. k -> Int]
    <3>1. \A i \in 1 .. r : g[i][j] \in Int
        BY DEF Mat
    <3>2. \A l \in 1 .. k : x[l][j] \in Int
        BY DEF Mat
    <3>. QED
        BY <2>1, <3>1, <3>2
  <2>3. Total([i \in 1 .. r |-> u[i] * Total(Across(k, a, i, v))])
           = Total([l \in 1 .. k |-> Total(Down(r, a, l, u)) * v[l]])
      BY <1>0, <2>2, Between
  <2>4. ASSUME NEW i \in 1 .. r PROVE Across(k, a, i, v) = RowCol(k, a, x, i, j)
      BY <2>1, Zenon DEF Across, RowCol
  <2>5. ASSUME NEW l \in 1 .. k PROVE Down(r, a, l, u) = RowCol(r, t, g, l, j)
    <3>1. \A i \in 1 .. r : a[i][l] * u[i] = t[l][i] * g[i][j]
        BY <1>2, <2>1, Zenon
    <3>. QED
        BY <3>1, Zenon DEF Down, RowCol
  <2>6. ASSUME NEW i \in 1 .. r PROVE y[i][j] = u[i] * Total(Across(k, a, i, v))
      BY <1>4, <1>7, <2>1, <2>4, Zenon DEF IsTimes
  <2>7. ASSUME NEW l \in 1 .. k PROVE z[l][j] = Total(Down(r, a, l, u)) * v[l]
      BY <1>5, <1>8, <2>1, <2>5, Zenon DEF IsTimes
  <2>. QED
      BY <2>3, <2>6, <2>7, Zenon
<1>10. SumMatrix(y) = Total([i \in 1 .. r |-> Total(y[i])])
    BY <1>7, SumMatrixIs DEF IsTimes
<1>11. SumMatrix(z) = Total([l \in 1 .. k |-> Total(z[l])])
    BY <1>8, SumMatrixIs DEF IsTimes
<1>12. y \in [1 .. r -> [1 .. c -> Int]] /\ z \in [1 .. k -> [1 .. c -> Int]]
    BY <1>7, <1>8 DEF IsTimes, Mat
<1>13. SumMatrix(y) = Total([j \in 1 .. c |-> Total(Y(j))])
    BY <1>0, <1>10, <1>12, TotalSwap
<1>14. SumMatrix(z) = Total([j \in 1 .. c |-> Total(Z(j))])
    BY <1>0, <1>11, <1>12, TotalSwap
<1>15. SumMatrix(y) = SumMatrix(z)
    BY <1>9, <1>13, <1>14, Zenon
<1>. QED
    BY <1>1, <1>3, <1>6, <1>15, Zenon DEF Dot

-----------------------------------------------------------------------------
(* Derivatives, forwards and backwards. *)

\* A matrix of whole numbers of the shape of a.
Like(m, a) == m \in Mat(Len(a), Len(a[1]))

\* A matrix of whole numbers.
Whole(m) == \E r, c \in Size : m \in Mat(r, c)

\* Data and gradients are matrices of whole numbers.
Numbers ==
    \A n \in Tensors : /\ Like(Data(n), Data(n))
                       /\ grad[n] = None \/ Whole(grad[n])

LEMMA Sizes ==
    ASSUME NEW a, Filling(a)
    PROVE  Len(a) \in Size /\ Len(a[1]) \in Size
BY DEF Filling, Size

\* The tensors that tensor n is made of, and their shapes.
Kinds(n) ==
    LET t == tensor[n]
        A == Data(t.prev[1])
        B == Data(t.prev[2])
    IN  \/ t.op = "leaf" /\ Len(t.prev) = 0
        \/ /\ t.op \in {"+", "*"} /\ Len(t.prev) = 2
           /\ \E r, c \in Size : A \in Mat(r, c) /\ B \in Mat(r, c) /\ t.data \in Mat(r, c)
        \/ /\ t.op = "@" /\ Len(t.prev) = 2
           /\ \E r, k, c \in Size : A \in Mat(r, k) /\ B \in Mat(k, c) /\ t.data \in Mat(r, c)
        \/ /\ t.op = "ReLU" /\ Len(t.prev) = 1
           /\ \E r, c \in Size : A \in Mat(r, c) /\ t.data \in Mat(r, c)
        \/ /\ t.op = "Sum" /\ Len(t.prev) = 1
           /\ \E r, c \in Size : A \in Mat(r, c) /\ t.data \in Mat(1, 1)

LEMMA ParentsAre ==
    ASSUME Graphs, NEW n \in Tensors
    PROVE  /\ n \in Nat /\ n > 0 /\ Len(tensor) \in Nat /\ Tensors = 1 .. Len(tensor)
           /\ Len(tensor[n].prev) \in {0, 1, 2}
           /\ \A i \in 1 .. Len(tensor[n].prev) :
                 /\ tensor[n].prev[i] \in Tensors /\ tensor[n].prev[i] < n
                 /\ tensor[n].prev[i] \in Nat /\ tensor[n].prev[i] \in Parents(n)
           /\ Parents(n) = {tensor[n].prev[i] : i \in 1 .. Len(tensor[n].prev)}
<1>1. Len(tensor) \in Nat /\ Tensors = 1 .. Len(tensor) /\ n \in Nat /\ n > 0
    BY DEF Graphs, Sequence, Tensors
<1>2. MadeIn(tensor, n)
    BY DEF Graphs
<1>3. tensor[n].prev \in Seq(1 .. n - 1) /\ Len(tensor[n].prev) \in {0, 1, 2}
    BY <1>2 DEF MadeIn
<1>4. Parents(n) = {tensor[n].prev[i] : i \in 1 .. Len(tensor[n].prev)}
    BY <1>3, Members DEF Parents
<1>5. ASSUME NEW i \in 1 .. Len(tensor[n].prev)
      PROVE  /\ tensor[n].prev[i] \in Tensors /\ tensor[n].prev[i] < n
             /\ tensor[n].prev[i] \in Nat
  <2>1. tensor[n].prev[i] \in 1 .. n - 1
      BY <1>3, ElementOfSeq
  <2>. QED
      BY <1>1, <2>1
<1>. QED
    BY <1>1, <1>3, <1>4, <1>5

LEMMA KindsAre ==
    ASSUME Graphs, Numbers, NEW n \in Tensors
    PROVE  Kinds(n)
<1>. DEFINE t == tensor[n]
            A == Data(t.prev[1])
            B == Data(t.prev[2])
<1>1. MadeIn(tensor, n)
    BY DEF Graphs
<1>2. Filling(t.data) /\ Like(t.data, t.data)
    BY <1>1 DEF MadeIn, Numbers, Data
<1>3. ASSUME NEW i \in 1 .. Len(t.prev) PROVE Like(Data(t.prev[i]), Data(t.prev[i]))
    BY ParentsAre DEF Numbers
<1>4. /\ Len(t.prev) \in {1, 2} => Like(A, A)
      /\ Len(t.prev) = 2 => Like(B, B)
  <2>1. \A l \in {1, 2} : 1 \in 1 .. l
      OBVIOUS
  <2>2. 2 \in 1 .. 2
      OBVIOUS
  <2>. QED
      BY <1>3, <2>1, <2>2
<1>5. PICK r, c : r = Len(t.data) /\ c = Len(t.data[1])
    OBVIOUS
<1>6. r \in Size /\ c \in Size /\ t.data \in Mat(r, c)
    BY <1>2, <1>5, Sizes DEF Like
<1>7. PICK d, op : d = t.data /\ op = t.op
    OBVIOUS
<1>8. \/ op = "leaf" /\ Len(t.prev) = 0
      \/ /\ op \in {"+", "*"} /\ Len(t.prev) = 2
         /\ Alike(A, d) /\ Alike(B, d)
      \/ /\ op = "@" /\ Len(t.prev) = 2
         /\ Filling(A) /\ Filling(B) /\ Len(A[1]) = Len(B)
         /\ Len(d) = Len(A) /\ Len(d[1]) = Len(B[1])
      \/ op = "ReLU" /\ Len(t.prev) = 1 /\ Alike(A, d)
      \/ /\ op = "Sum" /\ Len(t.prev) = 1 /\ Filling(A)
         /\ Len(d) = 1 /\ Len(d[1]) = 1
    BY <1>1, <1>7 DEF MadeIn, Data
<1>9. \/ op = "leaf" /\ Len(t.prev) = 0
      \/ /\ op \in {"+", "*"} /\ Len(t.prev) = 2
         /\ \E q, s \in Size : A \in Mat(q, s) /\ B \in Mat(q, s) /\ d \in Mat(q, s)
      \/ /\ op = "@" /\ Len(t.prev) = 2
         /\ \E q, k, s \in Size : A \in Mat(q, k) /\ B \in Mat(k, s) /\ d \in Mat(q, s)
      \/ /\ op = "ReLU" /\ Len(t.prev) = 1
         /\ \E q, s \in Size : A \in Mat(q, s) /\ d \in Mat(q, s)
      \/ /\ op = "Sum" /\ Len(t.prev) = 1
         /\ \E q, s \in Size : A \in Mat(q, s) /\ d \in Mat(1, 1)
  <2>. HIDE DEF A, B, t
  <2>0. r = Len(d) /\ c = Len(d[1]) /\ r \in Size /\ c \in Size /\ d \in Mat(r, c)
      BY <1>5, <1>6, <1>7
  <2>1. CASE op = "leaf" /\ Len(t.prev) = 0
      BY <2>1
  <2>2. ASSUME op \in {"+", "*"}, Len(t.prev) = 2, Alike(A, d), Alike(B, d)
        PROVE  A \in Mat(r, c) /\ B \in Mat(r, c)
      BY <1>4, <2>0, <2>2 DEF Alike, Like
  <2>3. ASSUME op = "@", Len(t.prev) = 2,
               Filling(A), Filling(B), Len(A[1]) = Len(B),
               Len(d) = Len(A), Len(d[1]) = Len(B[1])
        PROVE  Len(B) \in Size /\ A \in Mat(r, Len(B)) /\ B \in Mat(Len(B), c)
      BY <1>4, <2>0, <2>3, Sizes DEF Like
  <2>4. ASSUME op = "ReLU", Len(t.prev) = 1, Alike(A, d)
        PROVE  A \in Mat(r, c)
      BY <1>4, <2>0, <2>4 DEF Alike, Like
  <2>5. ASSUME op = "Sum", Len(t.prev) = 1, Filling(A), Len(d) = 1, Len(d[1]) = 1
        PROVE  /\ Len(A) \in Size /\ Len(A[1]) \in Size /\ A \in Mat(Len(A), Len(A[1]))
               /\ d \in Mat(1, 1)
      BY <1>4, <2>0, <2>5, Sizes DEF Like
  <2>. QED
      BY <1>8, <2>0, <2>1, <2>2, <2>3, <2>4, <2>5
<1>. QED
    BY <1>7, <1>9 DEF Kinds

LEMMA TimesSwap ==
    ASSUME NEW r \in Size, NEW c \in Size, NEW a \in Mat(r, c), NEW b \in Mat(r, c)
    PROVE  Times(a, b) = Times(b, a)
<1>1. PICK x, y : x = Times(a, b) /\ y = Times(b, a)
    OBVIOUS
<1>2. IsTimes(r, c, x, a, b)
    BY <1>1, MatTimes, Zenon
<1>3. IsTimes(r, c, y, b, a)
    BY <1>1, MatTimes, Zenon
<1>4. ASSUME NEW i \in 1 .. r, NEW j \in 1 .. c PROVE x[i][j] = y[i][j]
  <2>1. PICK m \in Int, n \in Int : m = a[i][j] /\ n = b[i][j]
      BY MatIs
  <2>2. m * n = n * m
      BY Commutes
  <2>3. x[i][j] = m * n /\ y[i][j] = n * m
      BY <1>2, <1>3, <2>1, Zenon DEF IsTimes
  <2>. QED
      BY <2>2, <2>3, Zenon
<1>5. r \in Nat /\ c \in Nat /\ x \in Mat(r, c) /\ y \in Mat(r, c)
    BY <1>2, <1>3 DEF IsTimes, Size
<1>6. x = y
    BY <1>4, <1>5, MatSame, Zenon
<1>. QED
    BY <1>1, <1>6

\* What n gives its parents, d, makes of their derivatives, X and Y, what its gradient g
\* makes of its own, s.
HandsOn(n, d, g, s, X, Y) ==
    /\ Like(s, Data(n))
    /\ \A i \in 1 .. Len(tensor[n].prev) : Like(d[i], Data(tensor[n].prev[i]))
    /\ Len(tensor[n].prev) = 1 => Dot(g, s) = Dot(d[1], X)
    /\ Len(tensor[n].prev) = 2 => Dot(g, s) = Dot(d[1], X) + Dot(d[2], Y)

LEMMA Adjoint ==
    ASSUME NEW n, Kinds(n), NEW e, NEW g, Like(g, Data(n)), NEW X, NEW Y,
           1 \in 1 .. Len(tensor[n].prev) => Like(X, Data(tensor[n].prev[1])),
           2 \in 1 .. Len(tensor[n].prev) => Like(Y, Data(tensor[n].prev[2])),
           tensor[n].op # "leaf"
    PROVE  HandsOn(n, Passed(n, g), g, Slope(n, X, Y, e), X, Y)
<1>. DEFINE t == tensor[n]
            A == Data(t.prev[1])
            B == Data(t.prev[2])
            d == Passed(n, g)
            s == Slope(n, X, Y, e)
<1>0. \A r, c \in Size : \A m \in Mat(r, c) : Len(m) = r /\ Len(m[1]) = c
    BY MatIs
<1>p. /\ Len(t.prev) = 1 => Like(X, A)
      /\ Len(t.prev) = 2 => Like(X, A) /\ Like(Y, B)
      /\ Like(g, t.data)
  <2>1. 1 \in 1 .. 1 /\ 1 \in 1 .. 2 /\ 2 \in 1 .. 2
      OBVIOUS
  <2>. QED
      BY <2>1 DEF Data
<1>1. ASSUME t.op \in {"+", "*"}, Len(t.prev) = 2,
             NEW r \in Size, NEW c \in Size, A \in Mat(r, c), B \in Mat(r, c), t.data \in Mat(r, c)
      PROVE  /\ s \in Mat(r, c) /\ d[1] \in Mat(r, c) /\ d[2] \in Mat(r, c)
             /\ Dot(g, s) = Dot(d[1], X) + Dot(d[2], Y)
  <2>. HIDE DEF A, B
  <2>1. X \in Mat(r, c) /\ Y \in Mat(r, c) /\ g \in Mat(r, c)
      BY <1>0, <1>1, <1>p DEF Like
  <2>2. CASE t.op = "+"
    <3>1. s = Plus(X, Y) /\ d[1] = g /\ d[2] = g
        BY <2>2 DEF Slope, Passed
    <3>2. Plus(X, Y) \in Mat(r, c) /\ Dot(g, Plus(X, Y)) = Dot(g, X) + Dot(g, Y)
        BY <2>1, MatOps, DotPlusRight
    <3>. QED
        BY <2>1, <3>1, <3>2, Zenon
  <2>3. CASE t.op = "*"
    <3>0. s = Plus(Times(X, B), Times(A, Y)) /\ d[1] = Times(g, B) /\ d[2] = Times(g, A)
        BY <2>3 DEF Slope, Passed, A, B
    <3>9. Times(g, B) = Times(B, g) /\ Times(g, A) = Times(A, g)
        BY <1>1, <2>1, TimesSwap
    <3>1. s = Plus(Times(X, B), Times(A, Y)) /\ d[1] = Times(B, g) /\ d[2] = Times(A, g)
        BY <3>0, <3>9, Zenon
    <3>2. PICK x, y : x = Times(X, B) /\ y = Times(A, Y)
        OBVIOUS
    <3>3. x \in Mat(r, c) /\ y \in Mat(r, c)
        BY <1>1, <2>1, <3>2, MatOps
    <3>4. Dot(g, Plus(x, y)) = Dot(g, x) + Dot(g, y)
        BY <2>1, <3>3, DotPlusRight
    <3>5. Dot(g, Times(X, B)) = Dot(Times(B, g), X)
        BY <1>1, <2>1, DotTimes
    <3>6. Dot(g, Times(A, Y)) = Dot(Times(A, g), Y)
        BY <1>1, <2>1, DotTimes
    <3>7. Plus(x, y) \in Mat(r, c)
        BY <3>3, MatOps
    <3>8. Times(B, g) \in Mat(r, c) /\ Times(A, g) \in Mat(r, c)
        BY <1>1, <2>1, MatOps
    <3>. QED
        BY <3>1, <3>2, <3>4, <3>5, <3>6, <3>7, <3>8, Zenon
  <2>. QED
      BY <1>1, <2>2, <2>3
<1>2. ASSUME t.op = "@", Len(t.prev) = 2,
             NEW r \in Size, NEW k \in Size, NEW c \in Size,
             A \in Mat(r, k), B \in Mat(k, c), t.data \in Mat(r, c)
      PROVE  /\ s \in Mat(r, c) /\ d[1] \in Mat(r, k) /\ d[2] \in Mat(k, c)
             /\ Dot(g, s) = Dot(d[1], X) + Dot(d[2], Y)
  <2>1. X \in Mat(r, k) /\ Y \in Mat(k, c) /\ g \in Mat(r, c)
      BY <1>0, <1>2, <1>p DEF Like
  <2>2. /\ s = Plus(MatMul(X, B), MatMul(A, Y))
        /\ d[1] = MatMul(g, Transpose(B)) /\ d[2] = MatMul(Transpose(A), g)
      BY <1>2 DEF Slope, Passed
  <2>. HIDE DEF A, B
  <2>3. PICK x, y : x = MatMul(X, B) /\ y = MatMul(A, Y)
      OBVIOUS
  <2>4. x \in Mat(r, c)
      BY <1>2, <2>1, <2>3, MatProduct
  <2>5. y \in Mat(r, c)
      BY <1>2, <2>1, <2>3, MatProduct
  <2>6. Dot(g, Plus(x, y)) = Dot(g, x) + Dot(g, y)
      BY <2>1, <2>4, <2>5, DotPlusRight
  <2>7. Plus(x, y) \in Mat(r, c)
      BY <2>4, <2>5, MatOps
  <2>8. Dot(g, MatMul(X, B)) = Dot(MatMul(g, Transpose(B)), X)
      BY <1>2, <2>1, DotRight
  <2>9. Dot(g, MatMul(A, Y)) = Dot(MatMul(Transpose(A), g), Y)
      BY <1>2, <2>1, DotLeft
  <2>10. Transpose(A) \in Mat(k, r) /\ Transpose(B) \in Mat(c, k)
      BY <1>2, MatTranspose
  <2>11. MatMul(g, Transpose(B)) \in Mat(r, k)
      BY <1>2, <2>1, <2>10, MatProduct
  <2>12. MatMul(Transpose(A), g) \in Mat(k, c)
      BY <1>2, <2>1, <2>10, MatProduct
  <2>. QED
      BY <2>2, <2>3, <2>6, <2>7, <2>8, <2>9, <2>11, <2>12, Zenon
<1>3. ASSUME t.op = "ReLU", Len(t.prev) = 1,
             NEW r \in Size, NEW c \in Size, A \in Mat(r, c), t.data \in Mat(r, c)
      PROVE  s \in Mat(r, c) /\ d[1] \in Mat(r, c) /\ Dot(g, s) = Dot(d[1], X)
  <2>1. X \in Mat(r, c) /\ g \in Mat(r, c)
      BY <1>0, <1>3, <1>p DEF Like
  <2>2. s = Times(DReLU(A), X) /\ d[1] = Times(DReLU(A), g)
      BY <1>3 DEF Slope, Passed
  <2>. HIDE DEF A, B
  <2>3. PICK a : a = DReLU(A)
      OBVIOUS
  <2>4. a \in Mat(r, c)
      BY <1>3, <2>3, MatOps
  <2>5. Times(a, X) \in Mat(r, c) /\ Times(a, g) \in Mat(r, c)
      BY <2>1, <2>4, MatOps
  <2>6. Dot(g, Times(a, X)) = Dot(Times(a, g), X)
      BY <2>1, <2>4, DotTimes
  <2>. QED
      BY <2>2, <2>3, <2>5, <2>6, Zenon
<1>4. ASSUME t.op = "Sum", Len(t.prev) = 1,
             NEW r \in Size, NEW c \in Size, A \in Mat(r, c), t.data \in Mat(1, 1)
      PROVE  s \in Mat(1, 1) /\ d[1] \in Mat(r, c) /\ Dot(g, s) = Dot(d[1], X)
  <2>0. 1 \in Size
      BY DEF Size
  <2>1. X \in Mat(r, c) /\ g \in Mat(1, 1)
      BY <1>0, <1>4, <1>p, <2>0 DEF Like
  <2>2. s = <<<<SumMatrix(X)>>>> /\ d[1] = Filled(A, g[1][1])
      BY <1>4 DEF Slope, Passed
  <2>. HIDE DEF A, B
  <2>3. PICK m : m = g[1][1]
      OBVIOUS
  <2>4. m \in Int
      BY <2>1, <2>3 DEF Mat
  <2>5. Filled(A, m) \in Mat(r, c)
      BY <1>4, <2>4, MatFilled
  <2>6. /\ <<<<SumMatrix(X)>>>> \in Mat(1, 1)
        /\ Dot(g, <<<<SumMatrix(X)>>>>) = Dot(Filled(A, g[1][1]), X)
      BY <1>4, <2>1, DotSum
  <2>. QED
      BY <2>2, <2>3, <2>5, <2>6, Zenon
<1>5. \A k \in {1, 2} : \A i \in 1 .. k : i = 1 \/ (i = 2 /\ k = 2)
    OBVIOUS
<1>6. 1 \in Size
    BY DEF Size
<1>. HIDE DEF d, s, t
<1>7. /\ Like(s, t.data)
      /\ \A i \in 1 .. Len(t.prev) : Like(d[i], Data(t.prev[i]))
      /\ Len(t.prev) = 1 => Dot(g, s) = Dot(d[1], X)
      /\ Len(t.prev) = 2 => Dot(g, s) = Dot(d[1], X) + Dot(d[2], Y)
  <2>1. CASE /\ t.op \in {"+", "*"} /\ Len(t.prev) = 2
             /\ \E r, c \in Size : A \in Mat(r, c) /\ B \in Mat(r, c) /\ t.data \in Mat(r, c)
      BY <1>0, <1>1, <1>5, <2>1 DEF Like
  <2>2. CASE /\ t.op = "@" /\ Len(t.prev) = 2
             /\ \E r, k, c \in Size : A \in Mat(r, k) /\ B \in Mat(k, c) /\ t.data \in Mat(r, c)
      BY <1>0, <1>2, <1>5, <2>2 DEF Like
  <2>3. CASE /\ t.op = "ReLU" /\ Len(t.prev) = 1
             /\ \E r, c \in Size : A \in Mat(r, c) /\ t.data \in Mat(r, c)
      BY <1>0, <1>3, <1>5, <2>3 DEF Like
  <2>4. CASE /\ t.op = "Sum" /\ Len(t.prev) = 1
             /\ \E r, c \in Size : A \in Mat(r, c) /\ t.data \in Mat(1, 1)
      BY <1>0, <1>4, <1>5, <1>6, <2>4 DEF Like
  <2>. QED
      BY <2>1, <2>2, <2>3, <2>4 DEF Kinds, t
<1>. QED
    BY <1>7, Zenon DEF HandsOn, d, s, t, Data

-----------------------------------------------------------------------------
(* The derivatives of all tensors. *)

\* A derivative is made of those of the parents, and of no others.
LEMMA SlopeOfParents ==
    ASSUME Graphs, NEW n \in Tensors, NEW e, NEW X, NEW Y, NEW U, NEW V,
           1 \in 1 .. Len(tensor[n].prev) => X = U,
           2 \in 1 .. Len(tensor[n].prev) => Y = V
    PROVE  Slope(n, X, Y, e) = Slope(n, U, V, e)
<1>1. MadeIn(tensor, n)
    BY DEF Graphs
<1>2. 1 \in 1 .. 1 /\ 1 \in 1 .. 2 /\ 2 \in 1 .. 2
    OBVIOUS
<1>3. CASE tensor[n].op = "leaf"
    BY <1>3 DEF Slope
<1>4. CASE tensor[n].op \in {"+", "*", "@"}
  <2>1. X = U /\ Y = V
      BY <1>1, <1>2, <1>4 DEF MadeIn
  <2>. QED
      BY <2>1
<1>5. CASE tensor[n].op \in {"ReLU", "Sum"}
  <2>1. X = U
      BY <1>1, <1>2, <1>5 DEF MadeIn
  <2>. QED
      BY <1>5, <2>1 DEF Slope
<1>. QED
    BY <1>1, <1>3, <1>4, <1>5 DEF MadeIn

\* What the recursion of Forward makes of the first k tensors.
IsForward(D, k, e) ==
    D = [n \in 1 .. k |-> Slope(n, D[tensor[n].prev[1]], D[tensor[n].prev[2]], e)]

LEMMA ForwardIn ==
    ASSUME Graphs, NEW e
    PROVE  \E D : IsForward(D, Len(tensor), e)
<1>. DEFINE N == Len(tensor)
            H == {k \in 0 .. N : \E D : IsForward(D, k, e)}
<1>0. N \in Nat /\ Tensors = 1 .. N
    BY DEF Graphs, Sequence, Tensors
<1>1. 0 \in H
  <2>. DEFINE D == [n \in 1 .. 0 |-> 0]
  <2>1. D = [n \in 1 .. 0 |-> Slope(n, D[tensor[n].prev[1]], D[tensor[n].prev[2]], e)]
    <3>1. 1 .. 0 = {}
        OBVIOUS
    <3>. QED
        BY <3>1
  <2>2. IsForward(D, 0, e)
      BY <2>1, Zenon DEF IsForward
  <2>. QED
      BY <1>0, <2>2
<1>2. ASSUME NEW k \in 0 .. N - 1, k \in H PROVE k + 1 \in H
  <2>1. PICK m : m = k + 1
      OBVIOUS
  <2>2. PICK D : IsForward(D, k, e)
      BY <1>2
  <2>3. m \in Tensors /\ m \in 1 .. m /\ m \in Nat /\ m \in 0 .. N /\ k \in Nat
      BY <1>0, <2>1
  <2>. DEFINE F(n) == Slope(n, D[tensor[n].prev[1]], D[tensor[n].prev[2]], e)
              E == [n \in 1 .. m |-> IF n = m THEN F(m) ELSE D[n]]
  <2>4. ASSUME NEW n \in 1 .. m PROVE E[n] = F(n)
    <3>1. CASE n = m
        BY <3>1
    <3>2. CASE n # m
      <4>1. n \in 1 .. k
          BY <2>1, <2>3, <3>2
      <4>2. D[n] = F(n)
          BY <2>2, <4>1, Zenon DEF IsForward
      <4>3. E[n] = D[n]
          BY <3>2
      <4>. QED
          BY <4>2, <4>3, Zenon
    <3>. QED
        BY <3>1, <3>2
  <2>5. ASSUME NEW n \in 1 .. m, NEW i \in 1 .. Len(tensor[n].prev)
        PROVE  E[tensor[n].prev[i]] = D[tensor[n].prev[i]]
    <3>1. n \in Tensors
        BY <1>0, <2>1, <2>3
    <3>2. PICK q : q = tensor[n].prev[i]
        OBVIOUS
    <3>3. q \in Tensors /\ q < n /\ q \in Nat
        BY <3>1, <3>2, ParentsAre
    <3>4. q \in 1 .. m /\ q # m
        BY <1>0, <2>3, <3>3
    <3>5. E[q] = D[q]
        BY <3>4
    <3>. QED
        BY <3>2, <3>5, Zenon
  <2>6. ASSUME NEW n \in 1 .. m
        PROVE  E[n] = Slope(n, E[tensor[n].prev[1]], E[tensor[n].prev[2]], e)
    <3>1. n \in Tensors
        BY <1>0, <2>1, <2>3
    <3>. HIDE DEF E
    <3>2. Slope(n, D[tensor[n].prev[1]], D[tensor[n].prev[2]], e)
             = Slope(n, E[tensor[n].prev[1]], E[tensor[n].prev[2]], e)
        BY <2>5, <3>1, SlopeOfParents
    <3>. QED
        BY <2>4, <3>2
  <2>7. E = [n \in 1 .. m |-> E[n]]
      OBVIOUS
  <2>. HIDE DEF E
  <2>8. IsForward(E, m, e)
      BY <2>6, <2>7, Zenon DEF IsForward
  <2>. QED
      BY <2>1, <2>3, <2>8
<1>3. N \in 0 .. N
    BY <1>0
<1>. HIDE DEF H
<1>4. N \in H
    BY <1>0, <1>1, <1>2, <1>3, Induction
<1>. QED
    BY <1>4 DEF H

LEMMA ForwardIs ==
    ASSUME Graphs, NEW e
    PROVE  \A n \in Tensors :
              Forward(e)[n] = Slope(n, Forward(e)[tensor[n].prev[1]], Forward(e)[tensor[n].prev[2]], e)
<1>1. \E D : D = [n \in Tensors |-> Slope(n, D[tensor[n].prev[1]], D[tensor[n].prev[2]], e)]
    BY ForwardIn, Zenon DEF IsForward, Tensors
<1>2. PICK D : /\ D = [n \in Tensors |-> Slope(n, D[tensor[n].prev[1]], D[tensor[n].prev[2]], e)]
               /\ Forward(e) = D
    BY <1>1, Zenon DEF Forward
<1>. QED
    BY <1>2, Zenon

\* Every derivative has the shape of its tensor.
LEMMA ForwardLike ==
    ASSUME Graphs, Numbers, NEW e
    PROVE  \A n \in Tensors : Like(Forward(e)[n], Data(n))
<1>. DEFINE N == Len(tensor)
            H == {k \in 0 .. N : \A n \in 1 .. k : Like(Forward(e)[n], Data(n))}
<1>0. N \in Nat /\ Tensors = 1 .. N
    BY DEF Graphs, Sequence, Tensors
<1>1. 0 \in H
    BY <1>0
<1>2. ASSUME NEW k \in 0 .. N - 1, k \in H PROVE k + 1 \in H
  <2>1. PICK m : m = k + 1
      OBVIOUS
  <2>2. m \in Tensors /\ m \in 0 .. N /\ k \in Nat
      BY <1>0, <2>1
  <2>3. PICK D : D = Forward(e)
      OBVIOUS
  <2>4. D[m] = Slope(m, D[tensor[m].prev[1]], D[tensor[m].prev[2]], e)
      BY <2>2, <2>3, ForwardIs, Zenon
  <2>5. ASSUME NEW i \in 1 .. Len(tensor[m].prev)
        PROVE  Like(D[tensor[m].prev[i]], Data(tensor[m].prev[i]))
    <3>1. PICK q : q = tensor[m].prev[i]
        OBVIOUS
    <3>2. q \in Tensors /\ q < m /\ q \in Nat
        BY <2>2, <3>1, ParentsAre
    <3>3. q \in 1 .. k
        BY <1>0, <2>1, <2>2, <3>2
    <3>. QED
        BY <1>2, <2>3, <3>1, <3>3
  <2>6. Kinds(m)
      BY <2>2, KindsAre
  <2>7. Like(Data(m), Data(m))
      BY <2>2 DEF Numbers
  <2>8. Like(D[m], Data(m))
    <3>1. CASE tensor[m].op = "leaf"
      <4>1. PICK a, r, c : a = Data(m) /\ r = Len(a) /\ c = Len(a[1])
          OBVIOUS
      <4>2. D[m] = [x \in 1 .. r |-> [y \in 1 .. c |-> IF <<m, x, y>> = e THEN 1 ELSE 0]]
          BY <2>4, <3>1, <4>1 DEF Slope, Rows, Cols, Data
      <4>3. D[m] \in Mat(r, c)
          BY <4>2 DEF Mat
      <4>. QED
          BY <4>1, <4>3 DEF Like
    <3>2. CASE tensor[m].op # "leaf"
      <4>1. PICK X, Y : X = D[tensor[m].prev[1]] /\ Y = D[tensor[m].prev[2]]
          OBVIOUS
      <4>2. /\ 1 \in 1 .. Len(tensor[m].prev) => Like(X, Data(tensor[m].prev[1]))
            /\ 2 \in 1 .. Len(tensor[m].prev) => Like(Y, Data(tensor[m].prev[2]))
          BY <2>5, <4>1, Zenon
      <4>3. Like(Slope(m, X, Y, e), Data(m))
          BY <2>6, <2>7, <3>2, <4>2, Adjoint DEF HandsOn
      <4>. QED
          BY <2>4, <4>1, <4>3, Zenon
    <3>. QED
        BY <3>1, <3>2
  <2>9. ASSUME NEW n \in 1 .. m PROVE Like(D[n], Data(n))
    <3>1. n \in 1 .. k \/ n = m
        BY <2>1, <2>2
    <3>. QED
        BY <1>2, <2>3, <2>8, <3>1
  <2>. QED
      BY <2>1, <2>2, <2>3, <2>9
<1>3. N \in 0 .. N
    BY <1>0
<1>. HIDE DEF H
<1>4. N \in H
    BY <1>0, <1>1, <1>2, <1>3, Induction
<1>. QED
    BY <1>0, <1>4 DEF H

-----------------------------------------------------------------------------
(* What is still to be handed on. *)

\* What the gradients of the tensors of S come to, D being their derivatives.
Terms(g, S, D) == [m \in Tensors |-> IF m \in S THEN Dot(GradOf(g, m), D[m]) ELSE 0]
Still(g, S, D) == Total(Terms(g, S, D))

\* The gradients g of the tensors of S have the shapes of these.
Good(g, S) == \A m \in S : g[m] = None \/ Like(g[m], Data(m))

LEMMA LeavesAre ==
    ASSUME NEW p \in Params
    PROVE  Filling(Leaves[p]) /\ Like(Leaves[p], Leaves[p])
<1>1. p \in DOMAIN Leaves /\ p \in 1 .. Len(Leaves)
  <2>1. Leaves \in Seq(Seq(Seq(Int)))
      BY Constants
  <2>. QED
      BY <2>1 DEF Params
<1>2. PICK a : a = Leaves[p]
    OBVIOUS
<1>3. a \in Seq(Seq(Int)) /\ a # << >> /\ a[1] # << >>
    BY <1>1, <1>2, Constants, ElementOfSeq
<1>4. PICK r, c : r = Len(a) /\ c = Len(a[1])
    OBVIOUS
<1>5. /\ r \in Nat \ {0} /\ DOMAIN a = 1 .. r /\ a = [i \in 1 .. r |-> a[i]]
      /\ \A i \in 1 .. r : a[i] \in Seq(Int)
    BY <1>3, <1>4, EmptySeq
<1>6. c \in Nat \ {0}
    BY <1>3, <1>4, <1>5, EmptySeq
<1>7. \A i \in 1 .. r : Len(a[i]) = c
    BY <1>1, <1>2, <1>4, <1>5, LeavesAreMatrices DEF LeavesAreMatrices
<1>8. \A i \in 1 .. r : a[i] \in [1 .. c -> Int]
    BY <1>5, <1>7
<1>9. a \in Mat(r, c)
    BY <1>5, <1>8 DEF Mat
<1>. QED
    BY <1>2, <1>4, <1>5, <1>6, <1>9 DEF Filling, Like

\* Two matrices of one shape.
LEMMA Both ==
    ASSUME NEW a, Filling(a), NEW b, Like(b, a)
    PROVE  /\ Len(b) = Len(a) /\ Len(b[1]) = Len(a[1]) /\ Filling(b) /\ Alike(b, a)
           /\ Like(b, b) /\ b \in Mat(Len(a), Len(a[1]))
<1>1. PICK r, c : r = Len(a) /\ c = Len(a[1])
    OBVIOUS
<1>2. r \in Size /\ c \in Size /\ b \in Mat(r, c)
    BY <1>1, Sizes DEF Like
<1>3. Len(b) = r /\ Len(b[1]) = c /\ Filling(b)
    BY <1>2, MatIs
<1>. QED
    BY <1>1, <1>2, <1>3 DEF Alike, Like

LEMMA DataAre ==
    ASSUME Graphs, Numbers, NEW m \in Tensors
    PROVE  Filling(Data(m)) /\ Like(Data(m), Data(m))
BY DEF Graphs, MadeIn, Data, Numbers

LEMMA GradIs ==
    ASSUME Graphs, Numbers, NEW g, NEW S, Good(g, S), NEW m \in Tensors, m \in S
    PROVE  /\ Like(GradOf(g, m), Data(m))
           /\ g[m] = None => \A i \in 1 .. Len(Data(m)) : \A j \in 1 .. Len(Data(m)[1]) :
                                GradOf(g, m)[i][j] = 0
<1>1. PICK a, r, c : a = Data(m) /\ r = Len(a) /\ c = Len(a[1])
    OBVIOUS
<1>2. r \in Size /\ c \in Size /\ a \in Mat(r, c)
    BY <1>1, DataAre, Sizes DEF Like
<1>3. /\ Zeros(a) \in Mat(r, c)
      /\ \A i \in 1 .. r : \A j \in 1 .. c : Zeros(a)[i][j] = 0
    BY <1>2, MatOps
<1>4. g[m] = None \/ g[m] \in Mat(r, c)
    BY <1>1 DEF Good, Like
<1>. QED
    BY <1>1, <1>3, <1>4 DEF GradOf, Like

LEMMA DotLike ==
    ASSUME NEW a, Filling(a), NEW x, Like(x, a), NEW y, Like(y, a)
    PROVE  Dot(x, y) \in Int
<1>1. Len(a) \in Size /\ Len(a[1]) \in Size
    BY Sizes
<1>2. PICK r \in Size, c \in Size : r = Len(a) /\ c = Len(a[1])
    BY <1>1
<1>3. x \in Mat(r, c) /\ y \in Mat(r, c)
    BY <1>2 DEF Like
<1>. QED
    BY <1>3, DotIs

\* One summand for each tensor.
AreTerms(z, g, S, e) ==
    /\ z \in [1 .. Len(tensor) -> Int]
    /\ \A m \in Tensors : z[m] = IF m \in S THEN Dot(GradOf(g, m), Forward(e)[m]) ELSE 0
    /\ Still(g, S, Forward(e)) = Total(z) /\ Total(z) \in Int

LEMMA StillIs ==
    ASSUME Graphs, Numbers, NEW g, NEW S, Good(g, S), NEW e
    PROVE  /\ Len(tensor) \in Nat /\ Tensors = 1 .. Len(tensor)
           /\ AreTerms(Terms(g, S, Forward(e)), g, S, e)
<1>1. Len(tensor) \in Nat /\ Tensors = 1 .. Len(tensor)
    BY DEF Graphs, Sequence, Tensors
<1>. DEFINE z == Terms(g, S, Forward(e))
<1>2. \A m \in Tensors : z[m] = IF m \in S THEN Dot(GradOf(g, m), Forward(e)[m]) ELSE 0
    BY Zenon DEF Terms
<1>3. ASSUME NEW m \in Tensors, m \in S PROVE Dot(GradOf(g, m), Forward(e)[m]) \in Int
  <2>1. Filling(Data(m)) /\ Like(GradOf(g, m), Data(m)) /\ Like(Forward(e)[m], Data(m))
      BY <1>3, DataAre, GradIs, ForwardLike
  <2>. QED
      BY <2>1, DotLike, Zenon
<1>5. z = [m \in Tensors |-> z[m]]
    BY Zenon DEF Terms
<1>. HIDE DEF z
<1>4. \A m \in Tensors : z[m] \in Int
    BY <1>2, <1>3
<1>6. z \in [1 .. Len(tensor) -> Int]
    BY <1>1, <1>4, <1>5
<1>7. Still(g, S, Forward(e)) = Total(z)
    BY Zenon DEF Still, z
<1>8. Total(z) \in Int
    BY <1>1, <1>6, TotalIsInt
<1>. QED
    BY <1>1, <1>2, <1>6, <1>7, <1>8, Zenon DEF AreTerms, z

\* Parameters are leaves, and the only ones.
Grown ==
    /\ \A p \in Params : /\ p \in Tensors /\ tensor[p].op = "leaf" /\ Len(tensor[p].prev) = 0
                         /\ Like(Data(p), Leaves[p])
    /\ \A n \in Tensors : tensor[n].op = "leaf" => n \in Params
    /\ \A p \in Params : Like(owed[p], Leaves[p])

\* An entry of a parameter.
Entry(p, i, j) == p \in Params /\ i \in 1 .. Len(Leaves[p]) /\ j \in 1 .. Len(Leaves[p][1])

\* What a gradient of a parameter makes of the derivative of a parameter by an entry.
LEMMA DotOfLeaf ==
    ASSUME Graphs, Numbers, Grown, NEW p, NEW i, NEW j, Entry(p, i, j), NEW q \in Params,
           NEW b, Like(b, Data(q))
    PROVE  Dot(b, Forward(<<p, i, j>>)[q]) = IF q = p THEN b[i][j] ELSE 0
<1>1. PICK a, r, c, D : a = Data(q) /\ r = Len(a) /\ c = Len(a[1]) /\ D = Forward(<<p, i, j>>)[q]
    OBVIOUS
<1>2. q \in Tensors /\ tensor[q].op = "leaf"
    BY DEF Grown
<1>3. r \in Size /\ c \in Size /\ b \in Mat(r, c)
    BY <1>1, <1>2, DataAre, Sizes DEF Like
<1>4. D = [x \in 1 .. r |-> [y \in 1 .. c |-> IF <<q, x, y>> = <<p, i, j>> THEN 1 ELSE 0]]
  <2>1. \E X, Y : D = Slope(q, X, Y, <<p, i, j>>)
      BY <1>1, <1>2, ForwardIs, Zenon
  <2>. QED
      BY <1>1, <1>2, <2>1 DEF Slope, Rows, Cols, Data
<1>5. D \in Mat(r, c)
    BY <1>4 DEF Mat
<1>6. PICK z : z = Times(b, D)
    OBVIOUS
<1>7. IsTimes(r, c, z, b, D)
    BY <1>3, <1>5, <1>6, MatTimes, Zenon
<1>8. z \in Mat(r, c)
    BY <1>7 DEF IsTimes
<1>9. \A x \in 1 .. r : \A y \in 1 .. c :
         /\ z[x][y] = b[x][y] * D[x][y] /\ b[x][y] \in Int
         /\ D[x][y] = IF <<q, x, y>> = <<p, i, j>> THEN 1 ELSE 0
    BY <1>3, <1>4, <1>7 DEF IsTimes, Mat
<1>10. CASE q # p
  <2>1. \A x \in 1 .. r : \A y \in 1 .. c : z[x][y] = 0
      BY <1>9, <1>10
  <2>2. SumMatrix(z) = 0
      BY <1>3, <1>8, <2>1, SumZero
  <2>. QED
      BY <1>1, <1>6, <1>10, <2>2 DEF Dot
<1>11. CASE q = p
  <2>1. i \in 1 .. r /\ j \in 1 .. c
    <3>1. Filling(Leaves[p]) /\ Like(a, Leaves[p])
        BY <1>1, <1>11, LeavesAre DEF Entry, Grown
    <3>2. Len(a) = Len(Leaves[p]) /\ Len(a[1]) = Len(Leaves[p][1])
        BY <3>1, Both, Zenon
    <3>. QED
        BY <1>1, <3>2 DEF Entry
  <2>2. \A x \in 1 .. r : \A y \in 1 .. c : (x = i /\ y = j) \/ z[x][y] = 0
      BY <1>9
  <2>3. SumMatrix(z) = z[i][j]
      BY <1>3, <1>8, <2>1, <2>2, SumOnly
  <2>4. z[i][j] = b[i][j]
      BY <1>9, <1>11, <2>1
  <2>. QED
      BY <1>1, <1>6, <1>11, <2>3, <2>4 DEF Dot
<1>. QED
    BY <1>10, <1>11

\* With nothing left but the parameters, it is the entry's own gradient.
LEMMA StillParams ==
    ASSUME Graphs, Numbers, Grown, NEW p, NEW i, NEW j, Entry(p, i, j), NEW g, Good(g, Params)
    PROVE  Still(g, Params, Forward(<<p, i, j>>)) = GradOf(g, p)[i][j]
<1>1. PICK e, N : e = <<p, i, j>> /\ N = Len(tensor)
    OBVIOUS
<1>2. /\ Len(tensor) \in Nat /\ Tensors = 1 .. Len(tensor)
      /\ \E z : AreTerms(z, g, Params, e)
    BY StillIs, Zenon
<1>z. PICK z : AreTerms(z, g, Params, e)
    BY <1>2
<1>3. /\ N \in Nat /\ Tensors = 1 .. N /\ z \in [1 .. N -> Int]
      /\ \A m \in Tensors : z[m] = IF m \in Params THEN Dot(GradOf(g, m), Forward(e)[m]) ELSE 0
      /\ Still(g, Params, Forward(e)) = Total(z)
    BY <1>1, <1>2, <1>z, Zenon DEF AreTerms
<1>4. p \in Params /\ p \in Tensors
    BY DEF Entry, Grown
<1>5. ASSUME NEW m \in Params
      PROVE  Dot(GradOf(g, m), Forward(e)[m]) = IF m = p THEN GradOf(g, m)[i][j] ELSE 0
  <2>1. PICK b : b = GradOf(g, m)
      OBVIOUS
  <2>2. Like(b, Data(m))
      BY <2>1, GradIs DEF Grown
  <2>3. Dot(b, Forward(<<p, i, j>>)[m]) = IF m = p THEN b[i][j] ELSE 0
      BY <2>2, DotOfLeaf
  <2>. QED
      BY <1>1, <2>1, <2>3
<1>6. \A m \in 1 .. N : m # p => z[m] = 0
    BY <1>3, <1>5
<1>7. z[p] = GradOf(g, p)[i][j]
    BY <1>3, <1>4, <1>5
<1>8. Total(z) = z[p]
    BY <1>3, <1>4, <1>6, TotalOnly
<1>. QED
    BY <1>1, <1>3, <1>7, <1>8

-----------------------------------------------------------------------------
(* How what is still to be handed on changes. *)

\* When backward starts to propagate, there is a one for the loss besides.
LEMMA StillStarts ==
    ASSUME Graphs, Numbers, Grown, NEW p, NEW i, NEW j, Entry(p, i, j), NEW g,
           NEW S, S \subseteq Tensors, Good(g, S \cup Params), NEW n \in S, n \notin Params,
           g[n] = << << 1 >> >>, Len(Data(n)) = 1, Len(Data(n)[1]) = 1,
           \A m \in S : m = n \/ m \in Params \/ g[m] = None
    PROVE  Still(g, S \cup Params, Forward(<<p, i, j>>))
              = GradOf(g, p)[i][j] + Forward(<<p, i, j>>)[n][1][1]
<1>1. PICK e, N, U : e = <<p, i, j>> /\ N = Len(tensor) /\ U = S \cup Params
    OBVIOUS
<1>. DEFINE T(m) == Dot(GradOf(g, m), Forward(e)[m])
<1>a. Good(g, U) /\ Good(g, Params)
    BY <1>1 DEF Good
<1>2. PICK z : AreTerms(z, g, U, e)
    BY <1>a, StillIs, Zenon
<1>3. PICK y : AreTerms(y, g, Params, e)
    BY <1>a, StillIs, Zenon
<1>0. N \in Nat /\ Tensors = 1 .. N
    BY <1>1 DEF Graphs, Sequence, Tensors
<1>4. /\ N \in Nat /\ Tensors = 1 .. N /\ z \in [1 .. N -> Int]
      /\ \A m \in Tensors : z[m] = IF m \in U THEN T(m) ELSE 0
      /\ Still(g, U, Forward(e)) = Total(z)
    BY <1>0, <1>1, <1>2, Zenon DEF AreTerms
<1>5. /\ y \in [1 .. N -> Int]
      /\ \A m \in Tensors : y[m] = IF m \in Params THEN T(m) ELSE 0
      /\ Still(g, Params, Forward(e)) = Total(y) /\ Total(y) \in Int
    BY <1>1, <1>3, Zenon DEF AreTerms
<1>. HIDE DEF T
<1>6. Total(y) = GradOf(g, p)[i][j]
    BY <1>1, <1>5, <1>a, StillParams
<1>7. n \in Tensors /\ n \in U
    BY <1>1
<1>8. T(n) = Forward(e)[n][1][1]
  <2>1. PICK D, b, t : D = Forward(e)[n] /\ b = g[n] /\ t = Times(b, D)
      OBVIOUS
  <2>2. 1 \in Size /\ 1 \in 1 .. 1
      BY DEF Size
  <2>3. D \in Mat(1, 1)
      BY <1>7, <2>1, ForwardLike DEF Like
  <2>4. b = <<<<1>>>> /\ b \in Mat(1, 1) /\ b[1][1] = 1 /\ b # None
      BY <2>1 DEF Mat, None
  <2>5. IsTimes(1, 1, t, b, D)
      BY <2>1, <2>2, <2>3, <2>4, MatTimes, Zenon
  <2>6. t \in Mat(1, 1) /\ t[1][1] = b[1][1] * D[1][1]
      BY <2>2, <2>5 DEF IsTimes
  <2>7. D[1][1] \in Int
      BY <2>2, <2>3 DEF Mat
  <2>8. SumMatrix(t) = D[1][1]
      BY <2>4, <2>6, <2>7, SumSingle
  <2>9. GradOf(g, n) = b
      BY <2>1, <2>4 DEF GradOf
  <2>. QED
      BY <2>1, <2>8, <2>9 DEF T, Dot
<1>9. ASSUME NEW m \in 1 .. N, m # n PROVE z[m] = y[m]
  <2>1. CASE m \in Params \/ m \notin U
      BY <1>1, <1>4, <1>5, <2>1
  <2>2. CASE m \in S /\ m \notin Params
    <3>1. m \in Tensors /\ m \in U /\ g[m] = None
        BY <1>1, <1>4, <1>9, <2>2
    <3>2. PICK a, r, c, G, D : /\ a = Data(m) /\ r = Len(a) /\ c = Len(a[1])
                               /\ G = GradOf(g, m) /\ D = Forward(e)[m]
        OBVIOUS
    <3>3. r \in Size /\ c \in Size /\ G \in Mat(r, c) /\ D \in Mat(r, c)
        BY <1>a, <3>1, <3>2, DataAre, Sizes, GradIs, ForwardLike DEF Like
    <3>4. \A k \in 1 .. r : \A l \in 1 .. c : G[k][l] = 0
        BY <1>a, <3>1, <3>2, GradIs
    <3>5. PICK t : t = Times(G, D)
        OBVIOUS
    <3>6. IsTimes(r, c, t, G, D)
        BY <3>3, <3>5, MatTimes, Zenon
    <3>7. ASSUME NEW k \in 1 .. r, NEW l \in 1 .. c PROVE t[k][l] = 0
      <4>1. G[k][l] = 0 /\ t[k][l] = G[k][l] * D[k][l]
          BY <3>4, <3>6 DEF IsTimes
      <4>2. D[k][l] \in Int
          BY <3>3 DEF Mat
      <4>. QED
          BY <4>1, <4>2
    <3>8. SumMatrix(t) = 0
        BY <3>3, <3>6, <3>7, SumZero DEF IsTimes
    <3>9. T(m) = 0
        BY <3>2, <3>5, <3>8 DEF T, Dot
    <3>. QED
        BY <1>4, <1>5, <2>2, <3>1, <3>9
  <2>. QED
      BY <1>1, <2>1, <2>2
<1>10. y[n] = 0 /\ z[n] = T(n)
    BY <1>4, <1>5, <1>7
<1>11. n \in 1 .. N
    BY <1>4, <1>7
<1>12. Total(z) = Total(y) + (z[n] - y[n])
  <2>1. N \in Nat /\ y \in [1 .. N -> Int] /\ z \in [1 .. N -> Int]
      BY <1>4, <1>5
  <2>2. \A m \in 1 .. N : m # n => z[m] = y[m]
      BY <1>9
  <2>. QED
      BY <1>11, <2>1, <2>2, TotalChanges
<1>13. z[n] \in Int
    BY <1>4, <1>11
<1>. QED
    BY <1>1, <1>4, <1>5, <1>6, <1>8, <1>10, <1>12, <1>13

\* A tensor that is given d adds what d makes of its derivative.
LEMMA StillGiven ==
    ASSUME Graphs, Numbers, NEW e, NEW g, NEW S, S \subseteq Tensors, Good(g, S),
           Sequence(g), Len(g) = Len(tensor), NEW m \in S, NEW d, Like(d, Data(m))
    PROVE  /\ Good(Accumulated(g, m, d), S)
           /\ Still(Accumulated(g, m, d), S, Forward(e))
                 = Still(g, S, Forward(e)) + Dot(d, Forward(e)[m])
           /\ \A k \in Tensors : k # m => Accumulated(g, m, d)[k] = g[k]
<1>1. PICK h, N : h = Accumulated(g, m, d) /\ N = Len(tensor)
    OBVIOUS
<1>2. PICK G, D, a, r, c : /\ G = GradOf(g, m) /\ D = Forward(e)[m]
                           /\ a = Data(m) /\ r = Len(a) /\ c = Len(a[1])
    OBVIOUS
<1>4. m \in Tensors
    OBVIOUS
<1>3. r \in Size /\ c \in Size /\ a \in Mat(r, c) /\ d \in Mat(r, c) /\ G \in Mat(r, c) /\ D \in Mat(r, c)
    BY <1>2, <1>4, DataAre, Sizes, GradIs, ForwardLike DEF Like
<1>5. N \in Nat /\ Tensors = 1 .. N /\ g = [k \in 1 .. N |-> g[k]]
    BY <1>1 DEF Graphs, Sequence, Tensors
<1>6. h = [g EXCEPT ![m] = Plus(G, d)]
    BY <1>1, <1>2 DEF Accumulated
<1>7. h[m] = Plus(G, d) /\ \A k \in Tensors : k # m => h[k] = g[k]
    BY <1>4, <1>5, <1>6
<1>8. Plus(G, d) \in Mat(r, c)
    BY <1>3, MatOps
<1>9. Good(h, S)
    BY <1>2, <1>7, <1>8 DEF Good, Like
<1>10. GradOf(h, m) = Plus(G, d)
  <2>1. Plus(G, d) # None
    <3>1. Filling(Plus(G, d))
        BY <1>3, <1>8, MatIs
    <3>. QED
        BY <3>1, SomeGradient
  <2>. QED
      BY <1>7, <2>1 DEF GradOf
<1>11. Dot(Plus(G, d), D) = Dot(G, D) + Dot(d, D) /\ Dot(G, D) \in Int /\ Dot(d, D) \in Int
    BY <1>3, DotPlusLeft, DotIs
<1>12. PICK y : AreTerms(y, g, S, e)
    BY StillIs, Zenon
<1>13. PICK z : AreTerms(z, h, S, e)
    BY <1>9, StillIs, Zenon
<1>14. /\ y \in [1 .. N -> Int]
       /\ \A k \in Tensors : y[k] = IF k \in S THEN Dot(GradOf(g, k), Forward(e)[k]) ELSE 0
       /\ Still(g, S, Forward(e)) = Total(y) /\ Total(y) \in Int
    BY <1>1, <1>12, Zenon DEF AreTerms
<1>15. /\ z \in [1 .. N -> Int]
       /\ \A k \in Tensors : z[k] = IF k \in S THEN Dot(GradOf(h, k), Forward(e)[k]) ELSE 0
       /\ Still(h, S, Forward(e)) = Total(z)
    BY <1>1, <1>13, Zenon DEF AreTerms
<1>16. y[m] = Dot(G, D) /\ z[m] = Dot(Plus(G, d), D)
    BY <1>2, <1>4, <1>10, <1>14, <1>15
<1>17. \A k \in 1 .. N : k # m => z[k] = y[k]
    BY <1>5, <1>7, <1>14, <1>15 DEF GradOf
<1>18. Total(z) = Total(y) + (z[m] - y[m])
    BY <1>4, <1>5, <1>14, <1>15, <1>17, TotalChanges
<1>19. Still(h, S, Forward(e)) = Still(g, S, Forward(e)) + Dot(d, D)
    BY <1>11, <1>14, <1>15, <1>16, <1>18
<1>. QED
    BY <1>1, <1>2, <1>7, <1>9, <1>19

\* A tensor that is through takes away what its gradient makes of its derivative.
LEMMA StillTaken ==
    ASSUME Graphs, Numbers, NEW e, NEW g, NEW S, Good(g, S), NEW n \in Tensors, n \in S
    PROVE  /\ Still(g, S \ {n}, Forward(e)) = Still(g, S, Forward(e)) - Dot(GradOf(g, n), Forward(e)[n])
           /\ Still(g, S, Forward(e)) \in Int /\ Dot(GradOf(g, n), Forward(e)[n]) \in Int
<1>. DEFINE T(m) == Dot(GradOf(g, m), Forward(e)[m])
<1>1. PICK N, R : N = Len(tensor) /\ R = S \ {n}
    OBVIOUS
<1>2. PICK y : AreTerms(y, g, S, e)
    BY StillIs, Zenon
<1>a. Good(g, R)
    BY <1>1 DEF Good
<1>3. PICK z : AreTerms(z, g, R, e)
    BY <1>a, StillIs, Zenon
<1>0. N \in Nat /\ Tensors = 1 .. N
    BY <1>1 DEF Graphs, Sequence, Tensors
<1>4. /\ N \in Nat /\ Tensors = 1 .. N /\ y \in [1 .. N -> Int]
      /\ \A m \in Tensors : y[m] = IF m \in S THEN T(m) ELSE 0
      /\ Still(g, S, Forward(e)) = Total(y) /\ Total(y) \in Int
    BY <1>0, <1>1, <1>2, Zenon DEF AreTerms
<1>5. /\ z \in [1 .. N -> Int]
      /\ \A m \in Tensors : z[m] = IF m \in R THEN T(m) ELSE 0
      /\ Still(g, R, Forward(e)) = Total(z)
    BY <1>1, <1>3, Zenon DEF AreTerms
<1>. HIDE DEF T
<1>6. y[n] = T(n) /\ z[n] = 0 /\ \A m \in 1 .. N : m # n => z[m] = y[m]
    BY <1>1, <1>4, <1>5
<1>7. Total(z) = Total(y) + (z[n] - y[n])
    BY <1>4, <1>5, <1>6, TotalChanges
<1>8. y[n] \in Int
    BY <1>4
<1>. QED
    BY <1>1, <1>4, <1>5, <1>6, <1>7, <1>8 DEF T

-----------------------------------------------------------------------------
(* Whole numbers stay whole, also where shapes differ. *)

LEMMA WholeIs ==
    ASSUME NEW a, Whole(a)
    PROVE  \E r, c \in Size :
              /\ a \in Mat(r, c) /\ r = Len(a) /\ c = Len(a[1])
              /\ Rows(a) = 1 .. r /\ Cols(a) = 1 .. c /\ Filling(a)
<1>1. PICK r \in Size, c \in Size : a \in Mat(r, c)
    BY DEF Whole
<1>2. Len(a) = r /\ Len(a[1]) = c /\ Rows(a) = 1 .. r /\ Cols(a) = 1 .. c /\ Filling(a)
    BY <1>1, MatIs
<1>. QED
    BY <1>1, <1>2

LEMMA LikeIsWhole ==
    ASSUME NEW a, Filling(a), NEW b, Like(b, a)
    PROVE  Whole(b)
BY Sizes DEF Like, Whole

\* What operates on each place of a and that place of b.
LEMMA WholeOps ==
    ASSUME NEW a, Whole(a), NEW b, Whole(b), Covers(b, a)
    PROVE  /\ Like(Plus(a, b), a) /\ Like(Minus(a, b), a) /\ Like(Times(a, b), a)
           /\ Whole(Plus(a, b)) /\ Whole(Minus(a, b)) /\ Whole(Times(a, b))
<1>1. PICK r \in Size, c \in Size : /\ a \in Mat(r, c) /\ r = Len(a) /\ c = Len(a[1])
                                    /\ Rows(a) = 1 .. r /\ Cols(a) = 1 .. c /\ Filling(a)
    BY WholeIs
<1>2. PICK q \in Size, d \in Size : b \in Mat(q, d) /\ Rows(b) = 1 .. q /\ Cols(b) = 1 .. d
    BY WholeIs
<1>3. \A i \in 1 .. r : i \in 1 .. q /\ \A j \in 1 .. c : j \in 1 .. d
    BY <1>1, <1>2 DEF Covers
<1>4. \A i \in 1 .. r : \A j \in 1 .. c : a[i][j] \in Int
    BY <1>1 DEF Mat
<1>5. \A i \in 1 .. r : \A j \in 1 .. c : b[i][j] \in Int
    BY <1>2, <1>3 DEF Mat
<1>6. \A m, n \in Int : m + n \in Int /\ m - n \in Int /\ m * n \in Int
    OBVIOUS
<1>7. \A i \in 1 .. r : \A j \in 1 .. c : a[i][j] + b[i][j] \in Int
    BY <1>4, <1>5, <1>6, Zenon
<1>8. \A i \in 1 .. r : \A j \in 1 .. c : a[i][j] - b[i][j] \in Int
    BY <1>4, <1>5, <1>6, Zenon
<1>9. \A i \in 1 .. r : \A j \in 1 .. c : a[i][j] * b[i][j] \in Int
    BY <1>4, <1>5, <1>6, Zenon
<1>10. Plus(a, b) \in Mat(r, c)
    BY <1>1, <1>7 DEF Plus, Mat
<1>11. Minus(a, b) \in Mat(r, c)
    BY <1>1, <1>8 DEF Minus, Mat
<1>12. Times(a, b) \in Mat(r, c)
    BY <1>1, <1>9 DEF Times, Mat
<1>. QED
    BY <1>1, <1>10, <1>11, <1>12 DEF Like, Whole

LEMMA WholeScaled ==
    ASSUME NEW a, Whole(a), NEW x \in Int
    PROVE  Whole(Scaled(a, x)) /\ Rows(Scaled(a, x)) = Rows(a) /\ Cols(Scaled(a, x)) = Cols(a)
<1>1. PICK r \in Size, c \in Size : a \in Mat(r, c) /\ Rows(a) = 1 .. r /\ Cols(a) = 1 .. c
    BY WholeIs
<1>2. Scaled(a, x) \in Mat(r, c)
    BY <1>1, MatFilled
<1>3. Rows(Scaled(a, x)) = 1 .. r /\ Cols(Scaled(a, x)) = 1 .. c
    BY <1>2, MatIs
<1>. QED
    BY <1>1, <1>2, <1>3 DEF Whole

\* Of a gradient of the shape of its tensor, the closure makes what has the shapes of
\* the parents.
LEMMA LikePassed ==
    ASSUME Graphs, Numbers, NEW n \in Tensors, NEW g, Like(g, Data(n))
    PROVE  \A i \in 1 .. Len(tensor[n].prev) : Like(Passed(n, g)[i], Data(tensor[n].prev[i]))
<1>1. Kinds(n)
    BY KindsAre
<1>2. CASE tensor[n].op = "leaf"
  <2>1. Len(tensor[n].prev) = 0
      BY <1>1, <1>2 DEF Kinds
  <2>. QED
      BY <2>1
<1>3. CASE tensor[n].op # "leaf"
  <2>1. PICK X, Y, e : X = Data(tensor[n].prev[1]) /\ Y = Data(tensor[n].prev[2]) /\ e = 0
      OBVIOUS
  <2>2. /\ 1 \in 1 .. Len(tensor[n].prev) => Like(X, Data(tensor[n].prev[1]))
        /\ 2 \in 1 .. Len(tensor[n].prev) => Like(Y, Data(tensor[n].prev[2]))
      BY <2>1, ParentsAre DEF Numbers
  <2>3. HandsOn(n, Passed(n, g), g, Slope(n, X, Y, e), X, Y)
      BY <1>1, <1>3, <2>2, Adjoint, Zenon
  <2>. QED
      BY <2>3 DEF HandsOn
<1>. QED
    BY <1>2, <1>3

\* What the closure makes of any gradient, where it does not raise.
LEMMA WholePassed ==
    ASSUME Graphs, Numbers, NEW n \in Tensors, NEW g, Whole(g), Shaped(g, n), Computes(n, g),
           NEW i \in 1 .. Len(tensor[n].prev)
    PROVE  Whole(Passed(n, g)[i])
<1>. DEFINE t == tensor[n]
            A == Data(t.prev[1])
            B == Data(t.prev[2])
<1>0. \A k \in {0, 1, 2} : \A j \in 1 .. k : j \in {1, 2} /\ (k = 1 => j = 1)
    OBVIOUS
<1>1. /\ Kinds(n) /\ Len(t.prev) \in {0, 1, 2}
      /\ i \in {1, 2} /\ (Len(t.prev) = 1 => i = 1)
  <2>1. Kinds(n) /\ Len(t.prev) \in {0, 1, 2}
      BY KindsAre, ParentsAre
  <2>. QED
      BY <1>0, <2>1
<1>2. Filling(Data(n)) /\ Like(Data(n), Data(n))
    BY DataAre
<1>3. PICK r \in Size, c \in Size : /\ g \in Mat(r, c) /\ r = Len(g) /\ c = Len(g[1])
                                    /\ Rows(g) = 1 .. r /\ Cols(g) = 1 .. c
    BY WholeIs
<1>4. ASSUME Like(g, Data(n)) PROVE Whole(Passed(n, g)[i])
  <2>1. Like(Passed(n, g)[i], Data(t.prev[i])) /\ t.prev[i] \in Tensors
      BY <1>4, LikePassed, ParentsAre
  <2>. QED
      BY <2>1, DataAre, LikeIsWhole
<1>5. CASE t.op \in {"@", "ReLU"}
  <2>1. Shape(g) = Shape(Data(n))
      BY <1>5 DEF Computes
  <2>2. Like(g, Data(n))
      BY <1>3, <2>1 DEF Shape, Like
  <2>. QED
      BY <1>4, <2>2
<1>6. CASE t.op = "+"
  <2>1. Passed(n, g) = <<g, g>>
      BY <1>6 DEF Passed
  <2>. QED
      BY <1>1, <2>1
<1>7. CASE t.op = "*"
  <2>1. Passed(n, g) = <<Times(g, B), Times(g, A)>>
      BY <1>7 DEF Passed
  <2>2. Whole(A) /\ Whole(B) /\ Alike(A, Data(n)) /\ Alike(B, Data(n))
    <3>1. PICK x \in Size, y \in Size : A \in Mat(x, y) /\ B \in Mat(x, y) /\ t.data \in Mat(x, y)
        BY <1>1, <1>7 DEF Kinds
    <3>2. /\ Len(A) = x /\ Len(A[1]) = y /\ Filling(A) /\ Len(B) = x /\ Len(B[1]) = y /\ Filling(B)
          /\ Len(t.data) = x /\ Len(t.data[1]) = y
        BY <3>1, MatIs
    <3>. QED
        BY <3>1, <3>2 DEF Whole, Alike, Data
  <2>3. ASSUME NEW m, Alike(m, Data(n)) PROVE Covers(m, g)
    <3>1. Len(m) \in Nat \ {0} /\ Len(m[1]) \in Nat \ {0}
        BY <2>3 DEF Alike, Filling
    <3>2. Len(<< << 1 >> >>) = 1 /\ Len(<< << 1 >> >>[1]) = 1
        BY Singles
    <3>3. (Len(m) = r /\ Len(m[1]) = c) \/ (r = 1 /\ c = 1)
        BY <1>3, <2>3, <3>2 DEF Shaped, Alike
    <3>4. 1 .. r \subseteq 1 .. Len(m) /\ 1 .. c \subseteq 1 .. Len(m[1])
        BY <3>1, <3>3
    <3>. QED
        BY <1>3, <3>4 DEF Covers, Rows, Cols
  <2>4. Covers(A, g) /\ Covers(B, g)
      BY <2>2, <2>3
  <2>5. Whole(Times(g, A))
      BY <2>2, <2>4, WholeOps
  <2>6. Whole(Times(g, B))
      BY <2>2, <2>4, WholeOps
  <2>. QED
      BY <1>1, <2>1, <2>5, <2>6
<1>8. CASE t.op = "Sum"
  <2>0. Len(t.prev) = 1
      BY <1>1, <1>8 DEF Kinds
  <2>1. Passed(n, g) = <<Filled(A, g[1][1])>> /\ i = 1
      BY <1>1, <1>8, <2>0 DEF Passed
  <2>2. PICK x \in Size, y \in Size : A \in Mat(x, y)
      BY <1>1, <1>8 DEF Kinds
  <2>3. PICK z : z = g[1][1]
      OBVIOUS
  <2>4. z \in Int
    <3>1. 1 \in 1 .. r /\ 1 \in 1 .. c
        BY DEF Size
    <3>. QED
        BY <1>3, <2>3, <3>1 DEF Mat
  <2>5. Filled(A, z) \in Mat(x, y)
      BY <2>2, <2>4, MatFilled
  <2>. QED
      BY <2>1, <2>2, <2>3, <2>5 DEF Whole
<1>9. CASE t.op = "leaf"
    BY <1>1, <1>9 DEF Kinds
<1>. QED
    BY <1>1, <1>5, <1>6, <1>7, <1>8, <1>9 DEF Kinds

\* Gradients g of whole numbers.
AllWhole(g) == \A m \in Tensors : g[m] = None \/ Whole(g[m])

LEMMA GradWhole ==
    ASSUME Graphs, Numbers, NEW g, AllWhole(g), NEW m \in Tensors
    PROVE  Whole(GradOf(g, m))
<1>1. PICK a : a = Data(m)
    OBVIOUS
<1>2. Len(a) \in Size /\ Len(a[1]) \in Size /\ a \in Mat(Len(a), Len(a[1]))
    BY <1>1, DataAre, Sizes DEF Like
<1>3. Zeros(a) \in Mat(Len(a), Len(a[1]))
    BY <1>2, MatOps
<1>. QED
    BY <1>1, <1>2, <1>3 DEF GradOf, AllWhole, Whole

LEMMA AddedWhole ==
    ASSUME Graphs, Numbers, NEW g, Held(g), AllWhole(g), NEW m \in Tensors,
           NEW d, Whole(d), Covers(d, GradOf(g, m))
    PROVE  /\ AllWhole(Accumulated(g, m, d))
           /\ \A k \in Tensors : k # m => Accumulated(g, m, d)[k] = g[k]
           /\ \A k \in Tensors : /\ Rows(GradOf(Accumulated(g, m, d), k)) = Rows(GradOf(g, k))
                                 /\ Cols(GradOf(Accumulated(g, m, d), k)) = Cols(GradOf(g, k))
<1>1. PICK h, G : h = Accumulated(g, m, d) /\ G = GradOf(g, m)
    OBVIOUS
<1>2. Whole(G) /\ Covers(d, G) /\ Filling(G)
    BY <1>1, GradWhole, GradShaped
<1>3. Whole(Plus(G, d))
    BY <1>2, WholeOps
<1>4. /\ Sequence(g) /\ Len(g) = Len(tensor) /\ Tensors = 1 .. Len(tensor)
      /\ g = [k \in Tensors |-> g[k]]
    BY DEF Held, Sequence, Tensors
<1>5. h = [g EXCEPT ![m] = Plus(G, d)]
    BY <1>1 DEF Accumulated
<1>6. h[m] = Plus(G, d) /\ \A k \in Tensors : k # m => h[k] = g[k]
    BY <1>4, <1>5
<1>7. AllWhole(h)
    BY <1>3, <1>6 DEF AllWhole
<1>8. ASSUME NEW k \in Tensors
      PROVE  Rows(GradOf(h, k)) = Rows(GradOf(g, k)) /\ Cols(GradOf(h, k)) = Cols(GradOf(g, k))
  <2>1. CASE k # m
      BY <1>6, <2>1 DEF GradOf
  <2>2. CASE k = m
    <3>1. Alike(Plus(G, d), G)
        BY <1>2, SameShapes
    <3>2. Plus(G, d) # None
        BY <3>1, SomeGradient DEF Alike
    <3>3. GradOf(h, m) = Plus(G, d)
        BY <1>6, <3>2 DEF GradOf
    <3>. QED
        BY <1>1, <2>2, <3>1, <3>3 DEF Alike, Rows, Cols
  <2>. QED
      BY <2>1, <2>2
<1>. QED
    BY <1>1, <1>6, <1>7, <1>8

-----------------------------------------------------------------------------
(* Gradients are exact. *)

\* Only what a backward went through has a gradient, and what one on a loss with a
\* graph of its own goes through has none yet.
Reached ==
    /\ \A m \in Tensors : grad[m] = None \/ m \in used \cup Params
    /\ phase = "sort" =>
          /\ ToSet(path) \cup ToSet(topo) \subseteq Graph(path[1])
          /\ Graph(path[1]) \subseteq used \cup Params
          /\ clean =>
                /\ \A m \in Graph(path[1]) : m \in Params \/ grad[m] = None
                /\ path[1] \notin Params
                /\ Len(Data(path[1])) = 1 /\ Len(Data(path[1])[1]) = 1
    /\ phase = "propagate" => ToSet(topo) \subseteq used \cup Params

\* The gradients that matter have the shapes of their tensors.
Fitting == clean => Good(grad, ToSet(topo) \cup Params)

\* What is owed to an entry of a parameter is there, or still to be handed on.
ExactAt(p, i, j) ==
    /\ phase = "idle" => owed[p][i][j] = GradOf(grad, p)[i][j]
    /\ phase = "sort" =>
          owed[p][i][j] = GradOf(grad, p)[i][j] + Forward(<<p, i, j>>)[path[1]][1][1]
    /\ phase = "propagate" =>
          owed[p][i][j] = Still(grad, ToSet(topo) \cup Params, Forward(<<p, i, j>>))
Exact ==
    clean => \A p \in Params : \A i \in 1 .. Len(Leaves[p]) : \A j \in 1 .. Len(Leaves[p][1]) :
                ExactAt(p, i, j)

Faithful == Numbers /\ Grown /\ Reached /\ Fitting /\ Exact

LEMMA SameGraph ==
    ASSUME tensor' = tensor
    PROVE  Tensors' = Tensors /\ \A m : Data(m)' = Data(m)
BY DEF Tensors, Data

LEMMA SameReach == ASSUME tensor' = tensor, NEW n PROVE Graph(n)' = Graph(n)
BY DEF Graph, Closed, Tensors

LEMMA SameForward == ASSUME tensor' = tensor, NEW e PROVE Forward(e)' = Forward(e)
BY SMT DEF Forward, Slope, Tensors, Data

LEMMA SameStill ==
    ASSUME tensor' = tensor, NEW g, NEW S, NEW e
    PROVE  /\ \A m : GradOf(g, m)' = GradOf(g, m)
           /\ Still(g, S, Forward(e))' = Still(g, S, Forward(e))
<1>1. ASSUME NEW m PROVE GradOf(g, m)' = GradOf(g, m)
    BY DEF GradOf, Data
<1>2. Forward(e)' = Forward(e)
    BY SameForward
<1>3. Tensors' = Tensors
    BY SameGraph
<1>4. PICK D : D = Forward(e)
    OBVIOUS
<1>5. Terms(g, S, D)' = Terms(g, S, D)
    BY <1>1, <1>3, Zenon DEF Terms
<1>. QED
    BY <1>1, <1>2, <1>4, <1>5, Zenon DEF Still

\* Numbers where tensors do not change.
LEMMA NumbersStay ==
    ASSUME Numbers, tensor' = tensor, NEW g, g = grad', AllWhole(g)
    PROVE  Numbers'
<1>1. \A n \in Tensors : Like(Data(n), Data(n)) /\ (g[n] = None \/ Whole(g[n]))
    BY DEF Numbers, AllWhole
<1>. QED
    BY <1>1, SameGraph DEF Numbers

LEMMA NumbersWhole == Numbers => AllWhole(grad)
BY DEF Numbers, AllWhole

\* Shapes where tensors do not change.
LEMMA FittingStay ==
    ASSUME tensor' = tensor, NEW g, g = grad', NEW S, S = ToSet(topo') \cup Params,
           clean' => Good(g, S)
    PROVE  Fitting'
BY SameGraph DEF Fitting, Good

LEMMA GrownStay ==
    ASSUME Grown, tensor' = tensor, \A p \in Params : Like(owed'[p], Leaves[p])
    PROVE  Grown'
BY SameGraph DEF Grown

\* A tensor is of its own graph, and so are the parents of what is.
LEMMA GraphIs ==
    ASSUME Graphs, NEW n \in Tensors
    PROVE  /\ n \in Graph(n) /\ Graph(n) \subseteq Tensors
           /\ \A m \in Graph(n) : Parents(m) \subseteq Graph(n)
<1>1. n \in Graph(n) /\ Graph(n) \subseteq Tensors
    BY DEF Graph
<1>2. ASSUME NEW m \in Graph(n), NEW q \in Parents(m) PROVE q \in Graph(n)
  <2>1. q \in Tensors
      BY <1>1, <1>2, Earlier
  <2>2. ASSUME NEW S \in SUBSET Tensors, n \in S, Closed(S) PROVE q \in S
    <3>1. m \in S
        BY <1>2, <2>2 DEF Graph
    <3>. QED
        BY <1>2, <2>2, <3>1 DEF Closed, Parents
  <2>. QED
      BY <2>1, <2>2 DEF Graph
<1>. QED
    BY <1>1, <1>2

LEMMA FaithfulInit == ASSUME Init PROVE Faithful
<1>1. Inv
    BY InvInit
<1>2. /\ \A p \in Params : /\ tensor[p].op = "leaf" /\ tensor[p].prev = << >>
                           /\ tensor[p].data = Leaves[p] /\ grad[p] = None
                           /\ owed[p] = Zeros(Leaves[p])
      /\ phase = "idle" /\ topo = << >> /\ tensor = [p \in Params |-> tensor[p]]
    BY DEF Init
<1>3. Len(Leaves) \in Nat /\ Params = 1 .. Len(Leaves)
    BY Constants DEF Params
<1>4. Tensors = Params
    BY <1>2, <1>3, LenIs DEF Tensors
<1>5. \A p \in Params : Filling(Leaves[p]) /\ Like(Leaves[p], Leaves[p])
    BY LeavesAre
<1>6. Numbers
    BY <1>2, <1>4, <1>5 DEF Numbers, Data
<1>7. Grown
  <2>1. ASSUME NEW p \in Params PROVE Like(owed[p], Leaves[p])
    <3>1. PICK r, c : r = Len(Leaves[p]) /\ c = Len(Leaves[p][1])
        OBVIOUS
    <3>2. r \in Size /\ c \in Size /\ Leaves[p] \in Mat(r, c)
        BY <1>5, <3>1, Sizes DEF Like
    <3>3. Zeros(Leaves[p]) \in Mat(r, c)
        BY <3>2, MatOps
    <3>. QED
        BY <1>2, <3>1, <3>3 DEF Like
  <2>2. Len(<< >>) = 0
      OBVIOUS
  <2>. QED
      BY <1>2, <1>4, <1>5, <2>1, <2>2 DEF Grown, Data
<1>8. Reached
    BY <1>2, <1>4 DEF Reached
<1>9. Exact
    BY <1>2 DEF Exact, ExactAt, GradOf, Data
<1>10. Fitting
    BY <1>2 DEF Fitting, Good, ToSet
<1>. QED
    BY <1>6, <1>7, <1>8, <1>9, <1>10 DEF Faithful

\* A new tensor has no gradient and is nobody's parent.
LEMMA NewFaithful ==
    ASSUME Inv, Faithful, NEW op, NEW prev, NEW data, New(op, prev, data),
           op # "leaf", Like(data, data)
    PROVE  Faithful'
<1>. DEFINE k == Len(tensor) + 1
<1>1. /\ tensor' = Append(tensor, [op |-> op, prev |-> prev, data |-> data])
      /\ grad' = Append(grad, None)
      /\ UNCHANGED <<phase, used, clean, owed>> /\ phase = "idle" /\ topo = << >> /\ topo' = << >>
    BY DEF New, Inv, Phases
<1>2. /\ Sequence(tensor) /\ Sequence(grad) /\ Len(grad) = Len(tensor)
      /\ Len(tensor) \in Nat /\ Tensors = 1 .. Len(tensor)
    BY DEF Inv, Graphs, Sequence, Tensors
<1>3. /\ Len(tensor') = k /\ tensor'[k] = [op |-> op, prev |-> prev, data |-> data]
      /\ \A n \in Tensors : tensor'[n] = tensor[n]
    BY <1>1, <1>2, Appended
<1>4. /\ grad'[k] = None
      /\ \A n \in Tensors : grad'[n] = grad[n]
    BY <1>1, <1>2, Appended
<1>5. Tensors' = Tensors \cup {k}
    BY <1>2, <1>3 DEF Tensors
<1>6. tensor'[k].op = op /\ tensor'[k].data = data
    BY <1>3
<1>. HIDE DEF k
<1>7. Numbers'
  <2>1. \A n \in Tensors : Like(tensor'[n].data, tensor'[n].data)
                           /\ (grad'[n] = None \/ Whole(grad'[n]))
      BY <1>3, <1>4 DEF Faithful, Numbers, Data
  <2>. QED
      BY <1>4, <1>5, <1>6, <2>1 DEF Numbers, Data
<1>8. Grown'
  <2>1. \A p \in Params : p \in Tensors /\ tensor'[p] = tensor[p]
      BY <1>3 DEF Faithful, Grown
  <2>2. \A n \in Tensors' : tensor'[n].op = "leaf" => n \in Params
      BY <1>3, <1>5, <1>6 DEF Faithful, Grown
  <2>. QED
      BY <1>1, <1>5, <2>1, <2>2 DEF Faithful, Grown, Data
<1>9. Reached'
    BY <1>1, <1>4, <1>5 DEF Faithful, Reached
<1>10. Exact'
  <2>1. \A p \in Params : tensor'[p] = tensor[p] /\ grad'[p] = grad[p]
      BY <1>3, <1>4 DEF Faithful, Grown
  <2>2. \A p \in Params : GradOf(grad, p)' = GradOf(grad, p)
      BY <2>1 DEF GradOf, Data
  <2>3. phase' = "idle" /\ phase = "idle" /\ owed' = owed /\ (clean' <=> clean)
      BY <1>1
  <2>. QED
      BY <2>2, <2>3, Zenon DEF Faithful, Exact, ExactAt
<1>11. Fitting'
  <2>1. \A p \in Params : tensor'[p] = tensor[p] /\ grad'[p] = grad[p]
      BY <1>3, <1>4 DEF Faithful, Grown
  <2>2. ToSet(topo) \cup Params = Params /\ ToSet(topo') \cup Params = Params
      BY <1>1 DEF ToSet
  <2>3. clean => \A p \in Params : grad[p] = None \/ Like(grad[p], tensor[p].data)
      BY <2>2 DEF Faithful, Fitting, Good, Data
  <2>4. clean' => \A p \in Params : grad'[p] = None \/ Like(grad'[p], tensor'[p].data)
      BY <1>1, <2>1, <2>3
  <2>. QED
      BY <2>2, <2>4 DEF Fitting, Good, Data
<1>. QED
    BY <1>7, <1>8, <1>9, <1>10, <1>11 DEF Faithful

LEMMA OperationFaithful ==
    ASSUME Inv, Faithful, NEW a \in Tensors, NEW b \in Tensors,
           \/ AddTensors(a, b) \/ MulTensors(a, b) \/ MatMulTensors(a, b)
           \/ ReLUTensor(a) \/ SumTensor(a)
    PROVE  Faithful'
<1>. DEFINE A == Data(a)  B == Data(b)
<1>1. Filling(A) /\ Filling(B) /\ Like(A, A) /\ Like(B, B)
    BY DataAre DEF Inv, Faithful
<1>2. PICK r, c, s, t : r = Len(A) /\ c = Len(A[1]) /\ s = Len(B) /\ t = Len(B[1])
    OBVIOUS
<1>3. /\ r \in Size /\ c \in Size /\ A \in Mat(r, c)
      /\ s \in Size /\ t \in Size /\ B \in Mat(s, t)
    BY <1>1, <1>2, Sizes DEF Like
<1>4. ASSUME NEW x \in Size, NEW y \in Size, NEW m \in Mat(x, y) PROVE Like(m, m)
    BY MatIs DEF Like
<1>5. CASE AddTensors(a, b) \/ MulTensors(a, b)
  <2>1. r = s /\ c = t
      BY <1>2, <1>5 DEF AddTensors, MulTensors, Shape
  <2>2. Plus(A, B) \in Mat(r, c) /\ Times(A, B) \in Mat(r, c)
      BY <1>3, <2>1, MatOps
  <2>3. Like(Plus(A, B), Plus(A, B)) /\ Like(Times(A, B), Times(A, B))
      BY <1>3, <1>4, <2>2
  <2>. QED
      BY <1>5, <2>3, NewFaithful DEF AddTensors, MulTensors
<1>6. CASE MatMulTensors(a, b)
  <2>1. c = s
    <3>1. 1 .. c = 1 .. s
        BY <1>2, <1>6 DEF MatMulTensors, Cols, Rows
    <3>. QED
        BY <1>3, <3>1 DEF Size
  <2>2. MatMul(A, B) \in Mat(r, t)
      BY <1>3, <2>1, MatProduct
  <2>. QED
      BY <1>3, <1>4, <1>6, <2>2, NewFaithful DEF MatMulTensors
<1>7. CASE ReLUTensor(a)
  <2>1. ReLU(A) \in Mat(r, c)
      BY <1>3, MatOps
  <2>. QED
      BY <1>3, <1>4, <1>7, <2>1, NewFaithful DEF ReLUTensor
<1>8. CASE SumTensor(a)
  <2>1. 1 \in Size
      BY DEF Size
  <2>2. SumMatrix(A) \in Int
      BY <1>3, SumMatrixIs
  <2>3. <<<<SumMatrix(A)>>>> \in Mat(1, 1)
      BY <2>2 DEF Mat
  <2>. QED
      BY <1>4, <1>8, <2>1, <2>3, NewFaithful DEF SumTensor
<1>. QED
    BY <1>5, <1>6, <1>7, <1>8

LEMMA BackwardFaithful ==
    ASSUME Inv, Faithful, NEW n \in Tensors, Backward(n)
    PROVE  Faithful'
<1>1. /\ tensor' = tensor /\ grad' = grad /\ phase = "idle" /\ phase' = "sort" /\ path' = <<n>>
      /\ used' = used \cup (Graph(n) \ Params)
      /\ clean' = (clean /\ Loss(n) /\ Graph(n) \cap used = {})
      /\ owed' = [p \in Params |-> IF clean' THEN Plus(owed[p], Derivative(n, p)) ELSE owed[p]]
      /\ topo' = << >> /\ topo = << >>
    BY DEF Inv, Phases, Backward, Call
<1>2. path'[1] = n /\ ToSet(path') = {n} /\ ToSet(topo') = {}
    BY <1>1 DEF ToSet
<1>3. n \in Graph(n) /\ Graph(n) \subseteq Tensors
    BY GraphIs DEF Inv
<1>4. ASSUME NEW p \in Params
      PROVE  /\ Like(owed'[p], Leaves[p])
             /\ clean' =>
                  \A i \in 1 .. Len(Leaves[p]) : \A j \in 1 .. Len(Leaves[p][1]) :
                      owed'[p][i][j] = owed[p][i][j] + Forward(<<p, i, j>>)[n][1][1]
  <2>1. PICK r, c, a, d : /\ r = Len(Leaves[p]) /\ c = Len(Leaves[p][1])
                          /\ a = owed[p] /\ d = Derivative(n, p)
      OBVIOUS
  <2>2. r \in Size /\ c \in Size
      BY <2>1, LeavesAre, Sizes
  <2>3. a \in Mat(r, c)
      BY <2>1 DEF Faithful, Grown, Like
  <2>4. d = [i \in 1 .. r |-> [j \in 1 .. c |-> Forward(<<p, i, j>>)[n][1][1]]]
      BY <2>1 DEF Derivative, Rows, Cols
  <2>5. ASSUME NEW e PROVE Forward(e)[n][1][1] \in Int
    <3>1. Like(Forward(e)[n], Data(n))
        BY ForwardLike DEF Inv, Faithful
    <3>2. Len(Data(n)) \in Nat \ {0} /\ Len(Data(n)[1]) \in Nat \ {0}
        BY DataAre DEF Inv, Faithful, Filling
    <3>3. 1 \in 1 .. Len(Data(n)) /\ 1 \in 1 .. Len(Data(n)[1])
        BY <3>2
    <3>. QED
        BY <3>1, <3>3 DEF Like, Mat
  <2>6. d \in Mat(r, c)
      BY <2>4, <2>5 DEF Mat
  <2>7. PICK z : z = Plus(a, d)
      OBVIOUS
  <2>8. IsPlus(r, c, z, a, d)
      BY <2>2, <2>3, <2>6, <2>7, MatPlus, Zenon
  <2>9. owed'[p] = IF clean' THEN z ELSE a
      BY <1>1, <2>1, <2>7
  <2>10. z \in Mat(r, c) /\ \A i \in 1 .. r : \A j \in 1 .. c : z[i][j] = a[i][j] + d[i][j]
      BY <2>8, Zenon DEF IsPlus
  <2>11. \A i \in 1 .. r : \A j \in 1 .. c : d[i][j] = Forward(<<p, i, j>>)[n][1][1]
      BY <2>4
  <2>12. clean' => \A i \in 1 .. r : \A j \in 1 .. c :
            owed'[p][i][j] = owed[p][i][j] + Forward(<<p, i, j>>)[n][1][1]
      BY <2>1, <2>9, <2>10, <2>11
  <2>13. owed'[p] \in Mat(r, c)
      BY <2>3, <2>9, <2>10
  <2>. QED
      BY <2>1, <2>12, <2>13, Zenon DEF Like
<1>5. Numbers'
    BY <1>1, SameGraph DEF Faithful, Numbers
<1>6. Grown'
    BY <1>1, <1>4, GrownStay DEF Faithful
<1>7. Reached'
  <2>1. \A m \in Tensors : grad[m] = None \/ m \in used \cup Params
      BY DEF Faithful, Reached
  <2>2. clean' => /\ \A m \in Graph(n) : m \in Params \/ grad[m] = None
                  /\ n \notin Params /\ Len(Data(n)) = 1 /\ Len(Data(n)[1]) = 1
      BY <1>1, <1>3, <2>1 DEF Loss, Shape
  <2>3. Graph(n)' = Graph(n) /\ Tensors' = Tensors /\ Data(n)' = Data(n)
      BY <1>1, SameGraph, SameReach
  <2>. QED
      BY <1>1, <1>2, <1>3, <2>1, <2>2, <2>3 DEF Reached
<1>8. Exact'
  <2>1. ASSUME clean', NEW p \in Params, NEW i \in 1 .. Len(Leaves[p]), NEW j \in 1 .. Len(Leaves[p][1])
        PROVE  ExactAt(p, i, j)'
    <3>1. owed[p][i][j] = GradOf(grad, p)[i][j]
        BY <1>1, <2>1 DEF Faithful, Exact, ExactAt
    <3>2. GradOf(grad, p)' = GradOf(grad, p)
        BY <1>1 DEF GradOf, Data
    <3>3. PICK e : e = <<p, i, j>>
        OBVIOUS
    <3>4. Forward(e)' = Forward(e)
        BY <1>1, SameForward
    <3>. QED
        BY <1>1, <1>2, <1>4, <2>1, <3>1, <3>2, <3>3, <3>4 DEF ExactAt
  <2>. QED
      BY <1>1, <2>1 DEF Exact
<1>9. Fitting'
  <2>1. PICK S : S = ToSet(topo') \cup Params
      OBVIOUS
  <2>2. clean' => Good(grad, S)
      BY <1>1, <2>1 DEF Faithful, Fitting
  <2>. QED
      BY <1>1, <2>1, <2>2, FittingStay
<1>. QED
    BY <1>5, <1>6, <1>7, <1>8, <1>9 DEF Faithful

LEMMA VisitFaithful ==
    ASSUME Inv, Faithful, Visit
    PROVE  Faithful'
<1>1. PICK m \in Unvisited : path' = Append(path, m)
    BY DEF Visit
<1>2. /\ tensor' = tensor /\ grad' = grad /\ owed' = owed /\ used' = used /\ clean' = clean
      /\ phase' = "sort" /\ topo' = topo /\ phase = "sort" /\ path # << >>
    BY DEF Visit
<1>3. path \in Seq(Tensors) /\ Last(path) \in ToSet(path)
    BY <1>2, Ends DEF Inv, Descends
<1>4. /\ ToSet(path) \cup ToSet(topo) \subseteq Graph(path[1]) /\ path[1] \in Tensors
      /\ Len(path) \in Nat /\ Len(path) > 0
    BY <1>2, <1>3, Ends DEF Faithful, Reached
<1>5. m \in Graph(path[1])
    BY <1>1, <1>3, <1>4, GraphIs DEF Inv, Unvisited, Parents
<1>6. m \in Tensors
    BY <1>4, <1>5, GraphIs DEF Inv
<1>7. path'[1] = path[1] /\ ToSet(path') = ToSet(path) \cup {m}
    BY <1>1, <1>3, <1>4, <1>6, Appends
<1>8. Numbers'
    BY <1>2, SameGraph DEF Faithful, Numbers
<1>9. Grown'
    BY <1>2, GrownStay DEF Faithful, Grown
<1>10. Reached'
  <2>1. PICK n : n = path[1]
      OBVIOUS
  <2>2. Graph(n)' = Graph(n) /\ Tensors' = Tensors /\ Data(n)' = Data(n)
      BY <1>2, SameGraph, SameReach
  <2>. QED
      BY <1>2, <1>4, <1>5, <1>7, <2>1, <2>2 DEF Faithful, Reached
<1>11. Exact'
  <2>1. ASSUME clean, NEW p \in Params, NEW i \in 1 .. Len(Leaves[p]), NEW j \in 1 .. Len(Leaves[p][1])
        PROVE  ExactAt(p, i, j)'
    <3>1. GradOf(grad, p)' = GradOf(grad, p)
        BY <1>2 DEF GradOf, Data
    <3>2. PICK e : e = <<p, i, j>>
        OBVIOUS
    <3>3. Forward(e)' = Forward(e)
        BY <1>2, SameForward
    <3>. QED
        BY <1>2, <1>7, <2>1, <3>1, <3>2, <3>3 DEF Faithful, Exact, ExactAt
  <2>. QED
      BY <1>2, <2>1 DEF Exact
<1>12. Fitting'
  <2>1. PICK S : S = ToSet(topo') \cup Params
      OBVIOUS
  <2>2. clean' => Good(grad, S)
      BY <1>2, <2>1 DEF Faithful, Fitting
  <2>. QED
      BY <1>2, <2>1, <2>2, FittingStay
<1>. QED
    BY <1>8, <1>9, <1>10, <1>11, <1>12 DEF Faithful

LEMMA ReturnFaithful ==
    ASSUME Inv, Faithful, Return
    PROVE  Faithful'
<1>1. PICK m : m = Last(path)
    OBVIOUS
<1>2. /\ tensor' = tensor /\ owed' = owed /\ used' = used /\ clean' = clean
      /\ path' = Front(path) /\ topo' = Append(topo, m) /\ phase = "sort" /\ path # << >>
    BY <1>1 DEF Return, ParentsFirst
<1>3. /\ path \in Seq(Tensors) /\ Len(path) \in Nat /\ Len(path) > 0
      /\ m = path[Len(path)] /\ m \in ToSet(path) /\ m \in Tensors
      /\ Len(path') = Len(path) - 1 /\ \A i \in 1 .. Len(path) - 1 : path'[i] = path[i]
      /\ ToSet(path') \subseteq ToSet(path) /\ path' \in Seq(Tensors)
    BY <1>1, <1>2, Ends DEF Inv, Descends
<1>4. topo \in Seq(Tensors) /\ ToSet(topo') = ToSet(topo) \cup {m}
    BY <1>2, <1>3, Appends DEF Inv, Sorted
<1>5. PICK n : n = path[1]
    OBVIOUS
<1>6. /\ n \in Tensors
      /\ ToSet(path) \cup ToSet(topo) \subseteq Graph(n) /\ Graph(n) \subseteq used \cup Params
      /\ clean => /\ \A q \in Graph(n) : q \in Params \/ grad[q] = None
                  /\ n \notin Params /\ Len(Data(n)) = 1 /\ Len(Data(n)[1]) = 1
      /\ \A q \in Tensors : grad[q] = None \/ q \in used \cup Params
    BY <1>2, <1>3, <1>5 DEF Faithful, Reached
<1>7. Graph(n)' = Graph(n) /\ Tensors' = Tensors /\ Data(n)' = Data(n)
    BY <1>2, SameGraph, SameReach
<1>a. PICK g, S : g = grad' /\ S = ToSet(topo')
    OBVIOUS
<1>8. Grown'
    BY <1>2, GrownStay DEF Faithful, Grown
<1>9. CASE path' # << >>
  <2>1. grad' = grad /\ phase' = "sort"
      BY <1>2, <1>9 DEF Return
  <2>2. path'[1] = n
    <3>1. Len(path') # 0 /\ Len(path') \in Nat
        BY <1>3, <1>9, EmptySeq
    <3>. QED
        BY <1>3, <1>5, <3>1
  <2>3. Numbers'
      BY <1>2, <2>1, SameGraph DEF Faithful, Numbers
  <2>4. Reached'
      BY <1>2, <1>3, <1>4, <1>6, <1>7, <2>1, <2>2 DEF Reached
  <2>5. ASSUME clean, NEW p \in Params, NEW i \in 1 .. Len(Leaves[p]), NEW j \in 1 .. Len(Leaves[p][1])
        PROVE  ExactAt(p, i, j)'
    <3>1. GradOf(grad, p)' = GradOf(grad, p)
        BY <1>2, <2>1 DEF GradOf, Data
    <3>2. PICK e : e = <<p, i, j>>
        OBVIOUS
    <3>3. Forward(e)' = Forward(e)
        BY <1>2, SameForward
    <3>. QED
        BY <1>2, <1>5, <2>1, <2>2, <2>5, <3>1, <3>2, <3>3 DEF Faithful, Exact, ExactAt
  <2>6. clean => Good(g, S \cup Params)
      BY <1>3, <1>4, <1>6, <1>a, <2>1 DEF Faithful, Fitting, Good
  <2>7. Fitting'
      BY <1>2, <1>a, <2>6, FittingStay
  <2>. QED
      BY <1>2, <1>8, <2>3, <2>4, <2>5, <2>7 DEF Faithful, Exact
<1>10. CASE path' = << >>
  <2>1. phase' = "propagate" /\ grad' = [grad EXCEPT ![m] = <<<<1>>>>]
      BY <1>1, <1>10 DEF Return
  <2>2. m = n
    <3>1. Len(path') = 0
        BY <1>10
    <3>2. Len(path) = 1
        BY <1>3, <3>1
    <3>. QED
        BY <1>3, <1>5, <3>2
  <2>4. g[n] = <<<<1>>>> /\ \A q \in Tensors : q # n => g[q] = grad[q]
    <3>1. Len(grad) = Len(tensor) /\ Sequence(grad)
        BY DEF Inv, Graphs
    <3>2. grad = [q \in Tensors |-> grad[q]]
        BY <3>1 DEF Sequence, Tensors
    <3>. QED
        BY <1>6, <1>a, <2>1, <2>2, <3>2
  <2>5. g[n] \in Mat(1, 1) /\ 1 \in Size
      BY <2>4 DEF Mat, Size
  <2>6. ASSUME clean PROVE Good(g, S \cup Params)
    <3>1. Like(g[n], Data(n))
        BY <1>6, <2>5, <2>6 DEF Like
    <3>2. \A q \in S \cup Params : q \in Tensors /\ (q \in Params \/ grad[q] = None)
        BY <1>3, <1>4, <1>6, <1>a, <2>6, GraphIs DEF Inv, Faithful, Grown
    <3>3. \A q \in Params : grad[q] = None \/ Like(grad[q], Data(q))
        BY <2>6 DEF Faithful, Fitting, Good
    <3>. QED
        BY <2>4, <3>1, <3>2, <3>3 DEF Good
  <2>7. Numbers'
    <3>1. AllWhole(g)
        BY <2>4, <2>5 DEF AllWhole, Whole, Faithful, Numbers
    <3>. QED
        BY <1>2, <1>a, <3>1, NumbersStay DEF Faithful
  <2>11. Fitting'
      BY <1>2, <1>a, <2>6, FittingStay
  <2>8. S \subseteq Graph(n) /\ n \in S /\ S \subseteq Tensors
      BY <1>3, <1>4, <1>6, <1>a, <2>2, GraphIs DEF Inv
  <2>9. Reached'
      BY <1>2, <1>6, <1>7, <1>a, <2>1, <2>4, <2>8 DEF Reached
  <2>10. ASSUME clean, NEW p \in Params, NEW i \in 1 .. Len(Leaves[p]), NEW j \in 1 .. Len(Leaves[p][1])
         PROVE  ExactAt(p, i, j)'
    <3>1. Graphs /\ Numbers /\ Grown /\ Entry(p, i, j)
        BY DEF Inv, Faithful, Entry
    <3>2. \A q \in S : q = n \/ q \in Params \/ g[q] = None
        BY <1>6, <2>4, <2>8, <2>10
    <3>3. Still(g, S \cup Params, Forward(<<p, i, j>>))
             = GradOf(g, p)[i][j] + Forward(<<p, i, j>>)[n][1][1]
        BY <1>6, <2>4, <2>6, <2>8, <2>10, <3>1, <3>2, StillStarts
    <3>4. GradOf(g, p) = GradOf(grad, p)
        BY <1>6, <2>4, <2>10, <3>1 DEF GradOf, Grown
    <3>5. owed[p][i][j] = GradOf(grad, p)[i][j] + Forward(<<p, i, j>>)[n][1][1]
        BY <1>2, <1>5, <2>10 DEF Faithful, Exact, ExactAt
    <3>6. PICK e, T : e = <<p, i, j>> /\ T = S \cup Params
        OBVIOUS
    <3>7. Still(g, T, Forward(e))' = Still(g, T, Forward(e))
        BY <1>2, SameStill
    <3>8. Still(grad', ToSet(topo') \cup Params, Forward(<<p, i, j>>)') = Still(g, T, Forward(e)')
        BY <1>a, <3>6
    <3>. QED
        BY <1>2, <1>a, <2>1, <3>3, <3>4, <3>5, <3>6, <3>7 DEF ExactAt
  <2>. QED
      BY <1>2, <1>8, <2>7, <2>9, <2>10, <2>11 DEF Faithful, Exact
<1>. QED
    BY <1>9, <1>10

\* The next tensor n gives d to its parents: gradients g after the first, h after both.
Handing(n, d, g, h) ==
    /\ n = Last(topo) /\ d = Passed(n, grad[n])
    /\ g = IF 1 \in DOMAIN d THEN Accumulated(grad, tensor[n].prev[1], d[1]) ELSE grad
    /\ h = IF 2 \in DOMAIN d THEN Accumulated(g, tensor[n].prev[2], d[2]) ELSE g

\* The parents of the tensor whose turn it is wait for theirs.
LEMMA ParentsWait ==
    ASSUME Inv, phase = "propagate", NEW n, n = Last(topo)
    PROVE  /\ n \in ToSet(topo) /\ ToSet(Front(topo)) \subseteq ToSet(topo)
           /\ ToSet(topo) \subseteq Tensors
           /\ \A i \in 1 .. Len(tensor[n].prev) : tensor[n].prev[i] \in ToSet(Front(topo))
<1>. DEFINE prev == tensor[n].prev
<1>1. topo \in Seq(Tensors) /\ topo # << >> /\ n \in Tensors
    BY Ready
<1>2. /\ Len(topo) \in Nat /\ Len(topo) > 0 /\ n = topo[Len(topo)]
      /\ Front(topo) \in Seq(Tensors) /\ Len(Front(topo)) = Len(topo) - 1
      /\ \A i \in 1 .. Len(topo) - 1 : Front(topo)[i] = topo[i]
      /\ ToSet(topo) = ToSet(Front(topo)) \cup {n}
    BY <1>1, Ends
<1>3. ToSet(topo) \subseteq Tensors
    BY <1>1, Members
<1>4. ASSUME NEW i \in 1 .. Len(prev) PROVE prev[i] \in ToSet(Front(topo))
  <2>1. \E j \in 1 .. Len(topo) - 1 : topo[j] = prev[i]
    <3>1. Len(topo) \in 1 .. Len(topo) /\ prev[i] \in Parents(topo[Len(topo)])
        BY <1>1, <1>2, ParentsAre DEF Inv
    <3>2. \A k \in 1 .. Len(topo) : \A m \in Parents(topo[k]) : \E j \in 1 .. k - 1 : topo[j] = m
        BY DEF Inv, Sorted
    <3>. HIDE DEF prev
    <3>. QED
        BY <3>1, <3>2
  <2>. QED
      BY <1>2, <2>1, Members
<1>. QED
    BY <1>2, <1>3, <1>4

\* Where nothing raises, what is handed on is whole numbers, and it is given to
\* tensors that wait.
LEMMA HandedWhole ==
    ASSUME Inv, Numbers, phase = "propagate", Fits(Last(topo)),
           NEW n, NEW d, NEW g, NEW h, Handing(n, d, g, h)
    PROVE  AllWhole(h) /\ \A m \in Tensors : h[m] = grad[m] \/ m \in ToSet(topo)
<1>. DEFINE prev == tensor[n].prev
<1>1. /\ n = Last(topo) /\ d = Passed(n, grad[n])
      /\ g = IF 1 \in DOMAIN d THEN Accumulated(grad, prev[1], d[1]) ELSE grad
      /\ h = IF 2 \in DOMAIN d THEN Accumulated(g, prev[2], d[2]) ELSE g
    BY DEF Handing
<1>2. n \in Tensors /\ grad[n] # None /\ Graphs /\ MadeIn(tensor, n)
    BY <1>1, Ready DEF Inv, Graphs
<1>3. Whole(grad[n]) /\ Shaped(grad[n], n) /\ Computes(n, grad[n]) /\ Fits(n)
    BY <1>1, <1>2 DEF Numbers, Graphs, Fits
<1>4. DOMAIN d = 1 .. Len(prev)
    BY <1>1, <1>2, PassedTo, ParentsAre
<1>5. ASSUME NEW i \in 1 .. Len(prev)
      PROVE  /\ Whole(d[i]) /\ Covers(d[i], GradOf(grad, prev[i]))
             /\ prev[i] \in Tensors /\ prev[i] \in ToSet(topo)
  <2>1. prev[i] \in ToSet(topo) /\ prev[i] \in Tensors
      BY <1>1, ParentsWait
  <2>2. Whole(d[i])
      BY <1>1, <1>2, <1>3, WholePassed
  <2>3. Covers(d[i], GradOf(grad, prev[i]))
      BY <1>1, <1>3, <1>4 DEF Fits
  <2>. QED
      BY <2>1, <2>2, <2>3
<1>6. Held(grad) /\ AllWhole(grad)
    BY <1>2, NumbersWhole DEF Graphs, Held
<1>7. Len(prev) \in {0, 1, 2} /\ \A k \in {1, 2} : 1 \in 1 .. k
    BY <1>2, ParentsAre
<1>8. CASE Len(prev) = 0
  <2>1. h = grad
      BY <1>1, <1>4, <1>8
  <2>. QED
      BY <1>6, <2>1
<1>9. CASE Len(prev) \in {1, 2}
  <2>1. PICK q, u : q = prev[1] /\ u = d[1]
      OBVIOUS
  <2>2. /\ q \in Tensors /\ q \in ToSet(topo)
        /\ Whole(u) /\ Covers(u, GradOf(grad, q)) /\ g = Accumulated(grad, q, u)
      BY <1>1, <1>4, <1>5, <1>7, <1>9, <2>1
  <2>3. /\ AllWhole(g) /\ Held(g) /\ \A m \in Tensors : m # q => g[m] = grad[m]
        /\ \A m \in Tensors : /\ Rows(GradOf(g, m)) = Rows(GradOf(grad, m))
                              /\ Cols(GradOf(g, m)) = Cols(GradOf(grad, m))
      BY <1>2, <1>6, <2>2, AddedWhole, HeldOn
  <2>4. CASE Len(prev) = 1
    <3>1. h = g
        BY <1>1, <1>4, <2>4
    <3>. QED
        BY <2>2, <2>3, <3>1
  <2>5. CASE Len(prev) = 2
    <3>1. PICK w, y : w = prev[2] /\ y = d[2]
        OBVIOUS
    <3>2. /\ w \in Tensors /\ w \in ToSet(topo)
          /\ Whole(y) /\ Covers(y, GradOf(grad, w)) /\ h = Accumulated(g, w, y)
        BY <1>1, <1>4, <1>5, <2>5, <3>1
    <3>3. Covers(y, GradOf(g, w))
        BY <2>3, <3>2 DEF Covers
    <3>4. AllWhole(h) /\ \A m \in Tensors : m # w => h[m] = g[m]
        BY <1>2, <2>3, <3>2, <3>3, AddedWhole
    <3>. QED
        BY <2>2, <2>3, <3>2, <3>4
  <2>. QED
      BY <1>9, <2>4, <2>5
<1>. QED
    BY <1>7, <1>8, <1>9

\* Handing on takes nothing away and adds nothing, whatever the entry.
LEMMA HandedOn ==
    ASSUME Inv, Faithful, phase = "propagate", clean,
           NEW n, NEW d, NEW g, NEW h, Handing(n, d, g, h)
    PROVE  /\ Good(h, ToSet(topo) \cup Params)
           /\ \A e : Still(h, ToSet(Front(topo)) \cup Params, Forward(e))
                        = Still(grad, ToSet(topo) \cup Params, Forward(e))
<1>. DEFINE prev == tensor[n].prev
<1>a. /\ n = Last(topo) /\ d = Passed(n, grad[n])
      /\ g = IF 1 \in DOMAIN d THEN Accumulated(grad, prev[1], d[1]) ELSE grad
      /\ h = IF 2 \in DOMAIN d THEN Accumulated(g, prev[2], d[2]) ELSE g
    BY DEF Handing
<1>b. PICK R, Q : R = ToSet(topo) \cup Params /\ Q = ToSet(Front(topo)) \cup Params
    OBVIOUS
<1>1. /\ topo \in Seq(Tensors) /\ topo # << >> /\ n \in Tensors /\ grad[n] # None
    BY <1>a, Ready
<1>2. /\ Graphs /\ Numbers /\ Grown /\ Good(grad, R)
      /\ R \subseteq Tensors /\ n \in ToSet(topo) /\ n \in R
    BY <1>1, <1>a, <1>b, ParentsWait DEF Inv, Faithful, Fitting, Grown
<1>3. Kinds(n) /\ Like(grad[n], Data(n))
    BY <1>1, <1>2, KindsAre DEF Good
<1>4. /\ Len(prev) \in {0, 1, 2} /\ n \in Nat
      /\ \A i \in 1 .. Len(prev) : prev[i] \in Tensors /\ prev[i] # n /\ prev[i] \in Parents(n)
    BY <1>1, <1>2, ParentsAre
<1>5. DOMAIN d = 1 .. Len(prev)
  <2>1. MadeIn(tensor, n)
      BY <1>1 DEF Inv, Graphs
  <2>. QED
      BY <1>a, <2>1, PassedTo
<1>6. /\ Len(topo) \in Nat /\ Len(topo) > 0 /\ n = topo[Len(topo)]
      /\ Front(topo) \in Seq(Tensors) /\ Len(Front(topo)) = Len(topo) - 1
      /\ \A i \in 1 .. Len(topo) - 1 : Front(topo)[i] = topo[i]
      /\ ToSet(topo) = ToSet(Front(topo)) \cup {n}
    BY <1>1, <1>a, Ends
<1>7. CASE n \in Params
  <2>1. Len(prev) = 0
      BY <1>2, <1>7 DEF Grown
  <2>2. 1 \notin DOMAIN d /\ 2 \notin DOMAIN d
      BY <1>5, <2>1
  <2>3. h = grad /\ R = Q
      BY <1>6, <1>7, <1>a, <1>b, <2>2
  <2>. QED
      BY <1>2, <1>b, <2>3
<1>8. CASE n \notin Params
  <2>1. tensor[n].op # "leaf"
      BY <1>1, <1>2, <1>8 DEF Grown
  <2>2. Len(prev) \in {1, 2}
      BY <1>3, <2>1 DEF Kinds
  <2>3. n \in R /\ Q = R \ {n}
    <3>1. ASSUME n \in ToSet(Front(topo)) PROVE FALSE
      <4>1. PICK i \in 1 .. Len(topo) - 1 : topo[i] = n
          BY <1>6, <3>1, Members
      <4>2. i \in 1 .. Len(topo) /\ Len(topo) \in 1 .. Len(topo) /\ i < Len(topo)
          BY <1>6
      <4>. QED
          BY <1>6, <4>1, <4>2 DEF Inv, Sorted
    <3>. QED
        BY <1>6, <1>8, <1>b, <3>1
  <2>4. ASSUME NEW i \in 1 .. Len(prev) PROVE prev[i] \in R
      BY <1>2, <1>a, <1>b, ParentsWait
  <2>5. PICK q, u : q = prev[1] /\ u = d[1]
      OBVIOUS
  <2>6. PICK w, y : w = prev[2] /\ y = d[2]
      OBVIOUS
  <2>7. 1 \in 1 .. Len(prev)
    <3>1. \A k \in {1, 2} : 1 \in 1 .. k
        OBVIOUS
    <3>. QED
        BY <2>2, <3>1, Zenon
  <2>8. q \in Tensors /\ q # n /\ q \in R
      BY <1>4, <2>4, <2>5, <2>7
  <2>9. Len(prev) = 2 => 2 \in 1 .. Len(prev) /\ w \in Tensors /\ w # n /\ w \in R
      BY <1>4, <2>4, <2>6
  <2>10. ASSUME NEW e
         PROVE  /\ \A i \in 1 .. Len(prev) : Like(d[i], Data(prev[i]))
                /\ Len(prev) = 1 => Dot(grad[n], Forward(e)[n]) = Dot(u, Forward(e)[q])
                /\ Len(prev) = 2 => Dot(grad[n], Forward(e)[n])
                                       = Dot(u, Forward(e)[q]) + Dot(y, Forward(e)[w])
    <3>1. PICK X, Y, s : X = Forward(e)[q] /\ Y = Forward(e)[w] /\ s = Slope(n, X, Y, e)
        OBVIOUS
    <3>2. Forward(e)[n] = s
        BY <1>1, <1>2, <2>5, <2>6, <3>1, ForwardIs
    <3>3. /\ 1 \in 1 .. Len(prev) => Like(X, Data(prev[1]))
          /\ 2 \in 1 .. Len(prev) => Like(Y, Data(prev[2]))
      <4>1. 2 \in 1 .. Len(prev) => Len(prev) = 2
        <5>1. \A k \in {1, 2} : 2 \in 1 .. k => k = 2
            OBVIOUS
        <5>. QED
            BY <2>2, <5>1, Zenon
      <4>2. \A m \in Tensors : Like(Forward(e)[m], Data(m))
          BY <1>2, ForwardLike
      <4>3. Like(X, Data(q))
          BY <2>8, <3>1, <4>2
      <4>4. 2 \in 1 .. Len(prev) => Like(Y, Data(w))
          BY <2>9, <3>1, <4>1, <4>2
      <4>. QED
          BY <2>5, <2>6, <4>3, <4>4
    <3>4. /\ \A i \in 1 .. Len(prev) : Like(d[i], Data(prev[i]))
          /\ Len(prev) = 1 => Dot(grad[n], s) = Dot(d[1], X)
          /\ Len(prev) = 2 => Dot(grad[n], s) = Dot(d[1], X) + Dot(d[2], Y)
      <4>1. PICK b : b = grad[n]
          OBVIOUS
      <4>2. HandsOn(n, Passed(n, b), b, Slope(n, X, Y, e), X, Y)
        <5>1. Kinds(n) /\ Like(b, Data(n)) /\ tensor[n].op # "leaf"
            BY <1>3, <2>1, <4>1
        <5>. QED
            BY <3>3, <5>1, Adjoint, Zenon
      <4>. QED
          BY <1>a, <3>1, <4>1, <4>2, Zenon DEF HandsOn
    <3>. QED
        BY <2>5, <2>6, <3>1, <3>2, <3>4
  <2>11. Sequence(grad) /\ Len(grad) = Len(tensor) /\ Held(grad)
      BY DEF Inv, Graphs, Held
  <2>12. Like(u, Data(q)) /\ (Len(prev) = 2 => Like(y, Data(w)))
      BY <2>5, <2>6, <2>7, <2>9, <2>10
  <2>13. g = Accumulated(grad, q, u)
      BY <1>5, <1>a, <2>5, <2>7
  <2>14. Held(g)
    <3>1. 1 \in {1, 2}
        OBVIOUS
    <3>. QED
        BY <1>1, <1>2, <1>a, <2>11, <3>1, GivenHeld
  <2>15. Sequence(g) /\ Len(g) = Len(tensor)
      BY <2>14 DEF Held
  <2>16. /\ Good(g, R) /\ \A k \in Tensors : k # q => g[k] = grad[k]
         /\ \A e : Still(g, R, Forward(e)) = Still(grad, R, Forward(e)) + Dot(u, Forward(e)[q])
      BY <1>2, <2>8, <2>11, <2>12, <2>13, StillGiven
  <2>17. /\ Good(h, R) /\ h[n] = grad[n]
         /\ \A e : Still(h, R, Forward(e)) = Still(grad, R, Forward(e)) + Dot(grad[n], Forward(e)[n])
    <3>1. CASE Len(prev) = 1
      <4>1. h = g
          BY <1>5, <1>a, <3>1
      <4>2. \A e : Still(h, R, Forward(e)) = Still(grad, R, Forward(e)) + Dot(grad[n], Forward(e)[n])
          BY <2>10, <2>16, <3>1, <4>1
      <4>3. Good(h, R) /\ h[n] = grad[n]
          BY <1>1, <2>8, <2>16, <4>1
      <4>. QED
          BY <4>2, <4>3
    <3>2. CASE Len(prev) = 2
      <4>0. w \in Tensors /\ w \in R /\ Like(y, Data(w))
          BY <2>9, <2>12, <3>2
      <4>1. h = Accumulated(g, w, y)
          BY <1>5, <1>a, <2>6, <2>9, <3>2
      <4>2. /\ Good(h, R) /\ \A k \in Tensors : k # w => h[k] = g[k]
            /\ \A e : Still(h, R, Forward(e)) = Still(g, R, Forward(e)) + Dot(y, Forward(e)[w])
        <5>1. Good(g, R) /\ Sequence(g) /\ Len(g) = Len(tensor)
            BY <2>15, <2>16
        <5>. QED
            BY <1>2, <4>0, <4>1, <5>1, StillGiven
      <4>3. ASSUME NEW e
            PROVE  Still(h, R, Forward(e)) = Still(grad, R, Forward(e)) + Dot(grad[n], Forward(e)[n])
        <5>1. PICK r, a, b : /\ r = Still(grad, R, Forward(e)) /\ a = Dot(u, Forward(e)[q])
                             /\ b = Dot(y, Forward(e)[w])
            OBVIOUS
        <5>2. r \in Int /\ a \in Int /\ b \in Int
          <6>1. r \in Int
              BY <1>1, <1>2, <2>3, <5>1, StillTaken
          <6>2. Like(Forward(e)[q], Data(q)) /\ Like(Forward(e)[w], Data(w))
              BY <1>2, <2>8, <2>9, <3>2, ForwardLike
          <6>3. Filling(Data(q)) /\ Filling(Data(w))
              BY <1>2, <2>8, <2>9, <3>2, DataAre
          <6>4. Dot(u, Forward(e)[q]) \in Int
              BY <2>12, <6>2, <6>3, DotLike, Zenon
          <6>5. Dot(y, Forward(e)[w]) \in Int
              BY <2>12, <3>2, <6>2, <6>3, DotLike, Zenon
          <6>. QED
              BY <5>1, <6>1, <6>4, <6>5
        <5>3. /\ Still(g, R, Forward(e)) = r + a
              /\ Still(h, R, Forward(e)) = Still(g, R, Forward(e)) + b
              /\ Dot(grad[n], Forward(e)[n]) = a + b
            BY <2>10, <2>16, <3>2, <4>2, <5>1
        <5>. QED
            BY <5>1, <5>2, <5>3
      <4>. QED
          BY <1>1, <2>8, <2>9, <2>16, <3>2, <4>2, <4>3
    <3>. QED
        BY <2>2, <3>1, <3>2
  <2>18. GradOf(h, n) = grad[n] /\ GradOf(grad, n) = grad[n]
      BY <1>1, <2>17 DEF GradOf
  <2>19. ASSUME NEW e PROVE Still(h, Q, Forward(e)) = Still(grad, R, Forward(e))
    <3>1. PICK r, x, b : /\ r = Still(grad, R, Forward(e)) /\ x = Still(h, R, Forward(e))
                         /\ b = Dot(grad[n], Forward(e)[n])
        OBVIOUS
    <3>2. r \in Int /\ b \in Int
        BY <1>1, <1>2, <2>3, <2>18, <3>1, StillTaken
    <3>3. Still(h, Q, Forward(e)) = x - b
      <4>1. Still(h, R \ {n}, Forward(e)) = Still(h, R, Forward(e)) - Dot(GradOf(h, n), Forward(e)[n])
          BY <1>1, <1>2, <2>3, <2>17, StillTaken
      <4>. QED
          BY <2>3, <2>18, <3>1, <4>1
    <3>4. x = r + b
        BY <2>17, <3>1
    <3>. QED
        BY <3>1, <3>2, <3>3, <3>4
  <2>. QED
      BY <1>b, <2>17, <2>19
<1>. QED
    BY <1>7, <1>8

\* Between zero_grad and what is not a loss with a graph of its own, step and the
\* closures find gradients of the shapes that they need.
LEMMA AllFits ==
    ASSUME Inv, Faithful, clean
    PROVE  Misfits = {} /\ (phase = "propagate" => Fits(Last(topo)))
<1>1. Graphs /\ Numbers /\ Grown /\ Good(grad, ToSet(topo) \cup Params)
    BY DEF Inv, Faithful, Fitting
<1>2. ASSUME NEW m \in Tensors, NEW x, Like(x, Data(m)), NEW y, Like(y, Data(m))
      PROVE  Covers(x, y)
    BY <1>1, <1>2, DataAre, Both DEF Covers, Rows, Cols
<1>3. ASSUME NEW p \in Params, grad[p] # None PROVE Covers(grad[p], Data(p))
    BY <1>1, <1>2, <1>3, DataAre DEF Good, Grown
<1>4. ASSUME phase = "propagate" PROVE Fits(Last(topo))
  <2>1. PICK n, d : n = Last(topo) /\ d = Passed(n, grad[n])
      OBVIOUS
  <2>2. n \in Tensors /\ grad[n] # None /\ MadeIn(tensor, n)
      BY <1>1, <1>4, <2>1, Ready DEF Graphs
  <2>3. Like(grad[n], Data(n)) /\ Filling(Data(n))
      BY <1>1, <1>4, <2>1, <2>2, ParentsWait, DataAre DEF Good
  <2>4. DOMAIN d = 1 .. Len(tensor[n].prev)
      BY <2>1, <2>2, PassedTo
  <2>5. ASSUME NEW i \in 1 .. Len(tensor[n].prev)
        PROVE  Covers(d[i], GradOf(grad, tensor[n].prev[i]))
    <3>1. PICK m : m = tensor[n].prev[i]
        OBVIOUS
    <3>2. m \in ToSet(topo) /\ m \in Tensors
        BY <1>4, <2>1, <3>1, ParentsWait
    <3>3. Like(d[i], Data(m))
        BY <1>1, <2>1, <2>2, <2>3, <3>1, LikePassed
    <3>4. Like(GradOf(grad, m), Data(m))
        BY <1>1, <3>2, GradIs
    <3>. QED
        BY <1>2, <3>1, <3>2, <3>3, <3>4
  <2>6. Computes(n, grad[n])
      BY <2>3, Both DEF Computes, Shape
  <2>. QED
      BY <2>1, <2>4, <2>5, <2>6 DEF Fits
<1>. QED
    BY <1>3, <1>4 DEF Misfits

LEMMA PropagateFaithful ==
    ASSUME Inv, Faithful, Propagate
    PROVE  Faithful'
<1>1. PICK n : n = Last(topo)
    OBVIOUS
<1>2. PICK d : d = Passed(n, grad[n])
    OBVIOUS
<1>3. PICK g : g = IF 1 \in DOMAIN d THEN Accumulated(grad, tensor[n].prev[1], d[1]) ELSE grad
    OBVIOUS
<1>4. PICK h : h = IF 2 \in DOMAIN d THEN Accumulated(g, tensor[n].prev[2], d[2]) ELSE g
    OBVIOUS
<1>5. /\ tensor' = tensor /\ owed' = owed /\ used' = used /\ clean' = clean
      /\ phase = "propagate" /\ grad' = h /\ topo' = Front(topo)
      /\ phase' = IF topo' = << >> THEN "idle" ELSE "propagate"
    BY <1>1, <1>2, <1>3, <1>4 DEF Propagate
<1>6. PICK R, Q : R = ToSet(topo) \cup Params /\ Q = ToSet(Front(topo)) \cup Params
    OBVIOUS
<1>a. Handing(n, d, g, h)
    BY <1>1, <1>2, <1>3, <1>4, Zenon DEF Handing
<1>b. AllWhole(h) /\ \A m \in Tensors : h[m] = grad[m] \/ m \in ToSet(topo)
    BY <1>5, <1>a, HandedWhole DEF Propagate, Faithful
<1>7. ASSUME clean
      PROVE  /\ Good(h, R)
             /\ \A e : Still(h, Q, Forward(e)) = Still(grad, R, Forward(e))
    BY <1>5, <1>6, <1>7, <1>a, HandedOn
<1>8. Numbers' /\ Grown' /\ Tensors' = Tensors
    BY <1>5, <1>b, NumbersStay, GrownStay, SameGraph DEF Faithful, Grown
<1>c. ToSet(topo') \subseteq ToSet(topo)
    BY <1>5, ParentsWait
<1>9. Reached'
    BY <1>5, <1>b, <1>8, <1>c DEF Faithful, Reached
<1>11. Fitting'
  <2>1. clean' => Good(h, ToSet(topo') \cup Params)
      BY <1>5, <1>6, <1>7, <1>c DEF Good
  <2>. QED
      BY <1>5, <2>1, FittingStay
<1>10. ASSUME clean, NEW p \in Params, NEW i \in 1 .. Len(Leaves[p]), NEW j \in 1 .. Len(Leaves[p][1])
       PROVE  ExactAt(p, i, j)'
  <2>1. PICK e : e = <<p, i, j>>
      OBVIOUS
  <2>2. owed[p][i][j] = Still(h, Q, Forward(e))
      BY <1>5, <1>6, <1>7, <1>10, <2>1 DEF Faithful, Exact, ExactAt
  <2>3. CASE topo' = << >>
    <3>1. Q = Params
        BY <1>5, <1>6, <2>3 DEF ToSet
    <3>2. Graphs /\ Numbers /\ Grown /\ Entry(p, i, j)
        BY DEF Inv, Faithful, Entry
    <3>3. owed[p][i][j] = GradOf(h, p)[i][j]
      <4>1. Good(h, Params) /\ owed[p][i][j] = Still(h, Params, Forward(<<p, i, j>>))
          BY <1>6, <1>7, <1>10, <2>1, <2>2, <3>1 DEF Good
      <4>. QED
          BY <3>2, <4>1, StillParams
    <3>4. GradOf(h, p)' = GradOf(h, p)
        BY <1>5, SameStill
    <3>. QED
        BY <1>5, <2>3, <3>3, <3>4 DEF ExactAt
  <2>4. CASE topo' # << >>
    <3>1. Still(h, Q, Forward(e))' = Still(h, Q, Forward(e))
        BY <1>5, SameStill
    <3>2. ToSet(topo') \cup Params = Q
        BY <1>5, <1>6
    <3>. QED
        BY <1>5, <2>1, <2>2, <2>4, <3>1, <3>2 DEF ExactAt
  <2>. QED
      BY <2>3, <2>4
<1>. QED
    BY <1>5, <1>8, <1>9, <1>10, <1>11 DEF Faithful, Exact

\* What raises is not a loss with a graph of its own: only numbers matter then.
LEMMA RaiseFaithful ==
    ASSUME Inv, Faithful, Raise
    PROVE  Faithful'
<1>1. PICK n : n = Last(topo)
    OBVIOUS
<1>2. PICK q, x : q = tensor[n].prev[1] /\ x = Passed(n, grad[n])[1]
    OBVIOUS
<1>3. PICK b : b = [m \in Tensors |-> IF m \in Parents(n) THEN GradOf(grad, m) ELSE grad[m]]
    OBVIOUS
<1>4. PICK h : h = grad'
    OBVIOUS
<1>5. /\ tensor' = tensor /\ owed' = owed /\ used' = used /\ clean' = clean
      /\ phase = "propagate" /\ ~Fits(n) /\ phase' = "idle"
      /\ h = IF Computes(n, grad[n]) /\ Covers(x, b[q]) THEN Accumulated(b, q, x) ELSE b
    BY <1>1, <1>2, <1>3, <1>4 DEF Raise, Parents
<1>6. ~clean
    BY <1>1, <1>5, AllFits
<1>7. n \in Tensors /\ grad[n] # None /\ Graphs /\ Numbers
    BY <1>1, <1>5, Ready DEF Inv, Faithful
<1>8. Parents(n) \subseteq ToSet(topo)
    BY <1>1, <1>5, <1>7, ParentsWait, ParentsAre
<1>9. 1 \in 1 .. Len(tensor[n].prev) /\ q \in Tensors /\ q \in Parents(n)
    BY <1>2, <1>5, <1>7, Raiser
<1>10. /\ Held(grad) /\ Held(b)
       /\ \A m \in Tensors : b[m] = grad[m] \/ m \in ToSet(topo)
    BY <1>3, <1>7, <1>8, BegunHeld DEF Graphs, Held
<1>11. AllWhole(b)
    BY <1>3, <1>7, NumbersWhole, GradWhole DEF AllWhole
<1>12. AllWhole(h) /\ \A m \in Tensors : h[m] = grad[m] \/ m \in ToSet(topo)
  <2>1. CASE Computes(n, grad[n]) /\ Covers(x, b[q])
    <3>1. h = Accumulated(b, q, x)
        BY <1>5, <2>1
    <3>2. b[q] # None
        BY <1>3, <1>7, <1>9, <1>10, GradShaped, SomeGradient
    <3>3. Covers(x, GradOf(b, q))
        BY <2>1, <3>2 DEF GradOf
    <3>4. Whole(grad[n]) /\ Shaped(grad[n], n)
        BY <1>7 DEF Numbers, Graphs
    <3>5. Whole(x)
        BY <1>2, <1>7, <1>9, <2>1, <3>4, WholePassed
    <3>6. AllWhole(h) /\ \A m \in Tensors : m # q => h[m] = b[m]
        BY <1>7, <1>9, <1>10, <1>11, <3>1, <3>3, <3>5, AddedWhole
    <3>. QED
        BY <1>8, <1>9, <1>10, <3>6
  <2>2. CASE ~(Computes(n, grad[n]) /\ Covers(x, b[q]))
    <3>1. h = b
        BY <1>5, <2>2
    <3>. QED
        BY <1>10, <1>11, <3>1
  <2>. QED
      BY <2>1, <2>2
<1>13. Numbers' /\ Grown' /\ Tensors' = Tensors
    BY <1>4, <1>5, <1>12, NumbersStay, GrownStay, SameGraph DEF Faithful, Grown
<1>14. Reached'
    BY <1>4, <1>5, <1>12, <1>13 DEF Faithful, Reached
<1>15. Fitting' /\ Exact'
    BY <1>5, <1>6 DEF Fitting, Exact
<1>. QED
    BY <1>13, <1>14, <1>15 DEF Faithful

LEMMA StepFaithful ==
    ASSUME Inv, Faithful, Step
    PROVE  Faithful'
<1>1. /\ grad' = grad /\ owed' = owed /\ clean' = clean /\ phase = "idle" /\ phase' = "idle"
      /\ used' = Tensors \ Params
    BY DEF Step, Call
<1>2. Sequence(tensor) /\ Len(tensor) \in Nat /\ Tensors = 1 .. Len(tensor)
    BY DEF Inv, Graphs, Sequence, Tensors
<1>3. tensor' = [m \in 1 .. Len(tensor) |-> tensor'[m]]
    BY <1>2 DEF Step
<1>4. Tensors' = Tensors
    BY <1>2, <1>3, LenIs DEF Tensors
<1>5. ASSUME NEW m \in Tensors
      PROVE  /\ tensor'[m].op = tensor[m].op /\ tensor'[m].prev = tensor[m].prev
             /\ Like(tensor'[m].data, Data(m))
  <2>1. Like(Data(m), Data(m)) /\ Filling(Data(m)) /\ Tensor(tensor[m])
      BY DataAre DEF Inv, Faithful, Graphs
  <2>2. CASE m \in Params /\ grad[m] # None /\ 1 .. m \cap Misfits = {}
    <3>1. PICK a, s, z : a = Data(m) /\ s = Scaled(grad[m], Rate) /\ z = Minus(a, s)
        OBVIOUS
    <3>2. Whole(a) /\ Whole(grad[m]) /\ Rate \in Int
        BY <2>1, <2>2, <3>1, LikeIsWhole, Constants DEF Faithful, Numbers
    <3>3. Covers(grad[m], a)
      <4>1. m \in 1 .. m
          BY <1>2
      <4>. QED
          BY <2>2, <3>1, <4>1 DEF Misfits
    <3>4. Whole(s) /\ Covers(s, a)
        BY <3>1, <3>2, <3>3, WholeScaled DEF Covers
    <3>6. Like(z, a)
        BY <3>1, <3>2, <3>4, WholeOps
    <3>7. tensor'[m] = [tensor[m] EXCEPT !.data = z]
        BY <2>2, <3>1 DEF Step, Data
    <3>8. tensor'[m] = [op |-> tensor[m].op, prev |-> tensor[m].prev, data |-> z]
        BY <2>1, <3>7 DEF Tensor
    <3>. QED
        BY <3>1, <3>6, <3>8
  <2>3. CASE ~(m \in Params /\ grad[m] # None /\ 1 .. m \cap Misfits = {})
    <3>1. tensor'[m] = tensor[m]
        BY <2>3 DEF Step
    <3>. QED
        BY <2>1, <3>1 DEF Data
  <2>. QED
      BY <2>2, <2>3
<1>6. ASSUME NEW m \in Tensors
      PROVE  /\ Like(tensor'[m].data, tensor'[m].data)
             /\ Len(tensor'[m].data) = Len(Data(m)) /\ Len(tensor'[m].data[1]) = Len(Data(m)[1])
  <2>1. PICK a, b : a = Data(m) /\ b = tensor'[m].data
      OBVIOUS
  <2>2. Filling(a) /\ Like(b, a)
      BY <1>5, <2>1, DataAre DEF Inv, Faithful
  <2>. QED
      BY <2>1, <2>2, Both
<1>7. Numbers'
    BY <1>1, <1>4, <1>6 DEF Faithful, Numbers, Data, Like
<1>8. Grown'
  <2>1. ASSUME NEW p \in Params PROVE Like(tensor'[p].data, Leaves[p])
    <3>1. p \in Tensors /\ Like(Data(p), Leaves[p]) /\ Filling(Leaves[p])
        BY LeavesAre DEF Faithful, Grown
    <3>2. Len(Data(p)) = Len(Leaves[p]) /\ Len(Data(p)[1]) = Len(Leaves[p][1])
        BY <3>1, Both
    <3>. QED
        BY <1>5, <3>1, <3>2 DEF Like
  <2>. QED
      BY <1>1, <1>4, <1>5, <2>1 DEF Faithful, Grown, Data
<1>11. Fitting'
  <2>1. topo = << >> /\ topo' = topo
      BY <1>1 DEF Step, Inv, Phases
  <2>2. clean => Good(grad, ToSet(topo) \cup Params) /\ ToSet(topo) = {} /\ Params \subseteq Tensors
      BY <2>1 DEF Faithful, Fitting, Grown, ToSet
  <2>. QED
      BY <1>1, <1>6, <2>1, <2>2 DEF Fitting, Good, Like, Data
<1>9. Reached'
    BY <1>1, <1>4 DEF Reached
<1>10. Exact'
  <2>1. ASSUME NEW p \in Params PROVE GradOf(grad, p)' = GradOf(grad, p)
    <3>1. p \in Tensors
        BY DEF Faithful, Grown
    <3>2. Zeros(tensor'[p].data) = Zeros(Data(p))
        BY <1>6, <3>1 DEF Zeros, Rows, Cols
    <3>. QED
        BY <1>1, <3>2 DEF GradOf, Data
  <2>. QED
      BY <1>1, <2>1, Zenon DEF Faithful, Exact, ExactAt
<1>. QED
    BY <1>7, <1>8, <1>9, <1>10, <1>11 DEF Faithful

LEMMA ZeroGradFaithful ==
    ASSUME Inv, Faithful, ZeroGrad
    PROVE  Faithful'
<1>1. /\ tensor' = tensor /\ used' = used /\ phase' = "idle"
      /\ grad' = [m \in Tensors |-> IF m \in Params THEN None ELSE grad[m]]
      /\ owed' = [p \in Params |-> Zeros(Leaves[p])]
    BY DEF ZeroGrad, Call
<1>2. PICK g : g = grad'
    OBVIOUS
<1>3. \A m \in Tensors : g[m] = None \/ g[m] = grad[m]
    BY <1>1, <1>2
<1>4. Numbers' /\ Tensors' = Tensors
  <2>1. AllWhole(g)
      BY <1>3, NumbersWhole DEF AllWhole, Faithful
  <2>. QED
      BY <1>1, <1>2, <2>1, NumbersStay, SameGraph DEF Faithful
<1>5. ASSUME NEW p \in Params
      PROVE  /\ Like(owed'[p], Leaves[p])
             /\ owed'[p] = GradOf(grad, p)'
  <2>1. PICK r, c : r = Len(Leaves[p]) /\ c = Len(Leaves[p][1])
      OBVIOUS
  <2>2. r \in Size /\ c \in Size /\ Filling(Leaves[p]) /\ Leaves[p] \in Mat(r, c)
      BY <2>1, LeavesAre, Sizes DEF Like
  <2>3. Zeros(Leaves[p]) \in Mat(r, c)
      BY <2>2, MatOps
  <2>4. p \in Tensors /\ Like(Data(p), Leaves[p])
      BY DEF Faithful, Grown
  <2>5. Len(Data(p)) = r /\ Len(Data(p)[1]) = c
      BY <2>1, <2>2, <2>4, Both
  <2>6. Zeros(Data(p)) = Zeros(Leaves[p])
      BY <2>1, <2>5 DEF Zeros, Rows, Cols
  <2>7. grad'[p] = None
      BY <1>1, <2>4
  <2>. QED
      BY <1>1, <2>1, <2>3, <2>6, <2>7 DEF Like, GradOf, Data
<1>6. Grown'
    BY <1>1, <1>5, GrownStay DEF Faithful
<1>7. Reached'
    BY <1>1, <1>2, <1>3, <1>4 DEF Faithful, Reached
<1>8. Exact'
    BY <1>1, <1>5, Zenon DEF Exact, ExactAt
<1>9. Fitting'
  <2>1. topo' = << >>
      BY DEF ZeroGrad, Call, Inv, Phases
  <2>2. Good(g, ToSet(topo') \cup Params)
      BY <1>1, <1>2, <2>1 DEF Good, ToSet, Faithful, Grown
  <2>. QED
      BY <1>1, <1>2, <2>2, FittingStay
<1>. QED
    BY <1>4, <1>6, <1>7, <1>8, <1>9 DEF Faithful

LEMMA FaithfulStutters ==
    ASSUME Faithful, UNCHANGED vars
    PROVE  Faithful'
<1>1. /\ tensor' = tensor /\ grad' = grad /\ phase' = phase /\ path' = path /\ topo' = topo
      /\ used' = used /\ clean' = clean /\ owed' = owed
    BY DEF vars
<1>2. Numbers' /\ Grown' /\ Tensors' = Tensors
    BY <1>1, SameGraph DEF Faithful, Numbers, Grown
<1>3. Reached'
  <2>1. PICK n : n = path[1]
      OBVIOUS
  <2>2. Graph(n)' = Graph(n) /\ Data(n)' = Data(n)
      BY <1>1, SameReach, SameGraph
  <2>. QED
      BY <1>1, <1>2, <2>1, <2>2 DEF Faithful, Reached
<1>4. ASSUME NEW p, NEW i, NEW j PROVE ExactAt(p, i, j)' <=> ExactAt(p, i, j)
  <2>1. PICK g, S, e : g = grad /\ S = ToSet(topo) \cup Params /\ e = <<p, i, j>>
      OBVIOUS
  <2>2. /\ GradOf(g, p)' = GradOf(g, p) /\ Forward(e)' = Forward(e)
        /\ Still(g, S, Forward(e))' = Still(g, S, Forward(e))
      BY <1>1, SameStill, SameForward
  <2>. QED
      BY <1>1, <2>1, <2>2 DEF ExactAt
<1>5. Exact'
    BY <1>1, <1>4 DEF Faithful, Exact
<1>6. Fitting'
  <2>1. PICK g, S : g = grad' /\ S = ToSet(topo') \cup Params
      OBVIOUS
  <2>2. clean' => Good(g, S)
      BY <1>1, <2>1 DEF Faithful, Fitting
  <2>. QED
      BY <1>1, <2>1, <2>2, FittingStay
<1>. QED
    BY <1>2, <1>3, <1>5, <1>6 DEF Faithful

LEMMA FaithfulNext == Inv /\ Faithful /\ [Next]_vars => Faithful'
<1>. SUFFICES ASSUME Inv, Faithful, [Next]_vars PROVE Faithful'
    OBVIOUS
<1>1. CASE \E a, b \in Tensors : AddTensors(a, b) \/ MulTensors(a, b) \/ MatMulTensors(a, b)
    BY <1>1, OperationFaithful
<1>2. CASE \E a \in Tensors : ReLUTensor(a) \/ SumTensor(a) \/ Backward(a)
    BY <1>2, OperationFaithful, BackwardFaithful
<1>3. CASE Visit
    BY <1>3, VisitFaithful
<1>4. CASE Return
    BY <1>4, ReturnFaithful
<1>5. CASE Propagate
    BY <1>5, PropagateFaithful
<1>6. CASE Step
    BY <1>6, StepFaithful
<1>7. CASE ZeroGrad
    BY <1>7, ZeroGradFaithful
<1>8. CASE Raise
    BY <1>8, RaiseFaithful
<1>9. CASE UNCHANGED vars
    BY <1>9, FaithfulStutters
<1>. QED
    BY <1>1, <1>2, <1>3, <1>4, <1>5, <1>6, <1>7, <1>8, <1>9 DEF Next

LEMMA FaithfulHolds == Spec => [](Inv /\ Faithful)
<1>1. Init => Inv /\ Faithful
    BY InvInit, FaithfulInit
<1>2. Inv /\ Faithful /\ [Next]_vars => (Inv /\ Faithful)'
    BY InvNext, FaithfulNext
<1>. QED
    BY <1>1, <1>2, PTL DEF Spec

\* After a zero_grad neither backward on losses with graphs of their own nor step
\* comes upon a gradient of a wrong shape, whatever was called and raised before.
THEOREM NeverRaises == Spec => []NothingRaises
<1>1. Inv /\ Faithful => NothingRaises
    BY AllFits DEF NothingRaises
<1>. QED
    BY <1>1, FaithfulHolds, PTL

\* The gradient of a parameter is the sum of the derivatives of all losses since
\* the last zero_grad, whatever tensors the losses share and in whatever order
\* parents come.
THEOREM GradientsAlwaysExact == Spec => []GradientsExact
<1>1. ASSUME Inv, Faithful PROVE GradientsExact
  <2>1. ASSUME phase = "idle", clean, NEW p \in Params
        PROVE  IF grad[p] = None THEN owed[p] = Zeros(owed[p]) ELSE grad[p] = owed[p]
    <3>1. PICK r, c, a, o : /\ r = Len(Leaves[p]) /\ c = Len(Leaves[p][1])
                            /\ a = GradOf(grad, p) /\ o = owed[p]
        OBVIOUS
    <3>2. r \in Size /\ c \in Size /\ r \in Nat /\ c \in Nat /\ o \in Mat(r, c)
        BY <1>1, <3>1, LeavesAre, Sizes DEF Faithful, Grown, Like, Size
    <3>3. p \in Tensors /\ Like(Data(p), Leaves[p]) /\ Filling(Leaves[p])
        BY <1>1, LeavesAre DEF Faithful, Grown
    <3>4. Len(Data(p)) = r /\ Len(Data(p)[1]) = c
        BY <3>1, <3>3, Both
    <3>5. Good(grad, Params) /\ Graphs /\ Numbers
        BY <1>1, <2>1 DEF Inv, Faithful, Fitting, Good
    <3>6. a \in Mat(r, c)
        BY <3>1, <3>3, <3>4, <3>5, GradIs DEF Like
    <3>7. \A i \in 1 .. r : \A j \in 1 .. c : o[i][j] = a[i][j]
        BY <1>1, <2>1, <3>1 DEF Faithful, Exact, ExactAt
    <3>8. o = a
        BY <3>2, <3>6, <3>7, MatSame
    <3>9. CASE grad[p] = None
      <4>1. PICK z : z = Zeros(o)
          OBVIOUS
      <4>2. z \in Mat(r, c) /\ \A i \in 1 .. r : \A j \in 1 .. c : z[i][j] = 0
          BY <3>2, <4>1, MatOps
      <4>3. \A i \in 1 .. r : \A j \in 1 .. c : a[i][j] = 0
          BY <3>1, <3>3, <3>4, <3>5, <3>9, GradIs
      <4>4. z = a
          BY <3>2, <3>6, <4>2, <4>3, MatSame
      <4>. QED
          BY <3>1, <3>8, <3>9, <4>1, <4>4
    <3>10. CASE grad[p] # None
        BY <3>1, <3>8, <3>10 DEF GradOf
    <3>. QED
        BY <3>9, <3>10
  <2>. QED
      BY <2>1 DEF GradientsExact
<1>. QED
    BY <1>1, FaithfulHolds, PTL

=============================================================================
