------------------------------- MODULE Synapse -------------------------------
(***************************************************************************)
(* Reverse-mode differentiation of synapse (tensor.py, linalg.py) and its  *)
(* optimiser (optim.py): a program builds tensors out of tensors, calls    *)
(* backward on any of them, step and zero_grad, in any order, and goes on  *)
(* after an exception.  Numbers are whole.                                 *)
(*                                                                         *)
(* A tensor is named by the order of its creation.  backward is opened up: *)
(* the set _prev may give the parents of a tensor in any order.            *)
(***************************************************************************)
EXTENDS Integers, SequencesExt

CONSTANTS
    Leaves,     \* matrices of the first tensors, the parameters of the optimiser
    Rate,       \* lr
    MaxTensor,  \* bound: tensors
    MaxCalls,   \* bound: calls of backward, step and zero_grad
    MaxBoth     \* bound: tensors and calls together

ASSUME ConstantsOK ==
    /\ {Rate, MaxTensor, MaxCalls, MaxBoth} \subseteq Nat
    /\ Leaves \in Seq(Seq(Seq(Int)))
    /\ \A p \in DOMAIN Leaves : Leaves[p] # << >> /\ Leaves[p][1] # << >>

\* The rows of a matrix are of one length, that of the first.
ASSUME LeavesAreMatrices ==
    \A p \in DOMAIN Leaves : \A i \in DOMAIN Leaves[p] : Len(Leaves[p][i]) = Len(Leaves[p][1])

None == << >>  \* no gradient: a matrix has rows

VARIABLES
    tensor,  \* op, parents and data of each tensor
    grad,    \* its gradient
    phase,   \* "idle", or where backward is: "sort" or "propagate"
    path,    \* the calls of build_topo under way
    topo,    \* topo; in "propagate", what is left of it
    calls,
    used,    \* history: tensors that a backward has been through, or that were
             \* computed before a step
    clean,   \* history: since the last zero_grad backward was called on losses
             \* only, and went through none of these tensors
    owed     \* history: for each parameter, the sum of the gradients asked for
             \* since the last zero_grad, as long as clean

vars == <<tensor, grad, phase, path, topo, calls, used, clean, owed>>

-----------------------------------------------------------------------------
(* Linalg.  A matrix is a sequence of rows.  (Here and below, an operator    *)
(* that precedes another and is not used is a plausible bug of the next one, *)
(* put in its place to test the properties.)                                 *)

Rows(a) == 1 .. Len(a)
Cols(a) == 1 .. Len(a[1])
Shape(a) == <<Len(a), Len(a[1])>>

Total(s) ==
    LET sum[i \in 0 .. Len(s)] == IF i = 0 THEN 0 ELSE sum[i - 1] + s[i]
    IN  sum[Len(s)]

Zeros(a)         == [i \in Rows(a) |-> [j \in Cols(a) |-> 0]]
Filled(a, x)     == [i \in Rows(a) |-> [j \in Cols(a) |-> x]]
Plus(a, b)       == [i \in Rows(a) |-> [j \in Cols(a) |-> a[i][j] + b[i][j]]]
Minus(a, b)      == [i \in Rows(a) |-> [j \in Cols(a) |-> a[i][j] - b[i][j]]]
Scaled(a, x)     == [i \in Rows(a) |-> [j \in Cols(a) |-> a[i][j] * x]]
Times(a, b)      == [i \in Rows(a) |-> [j \in Cols(a) |-> a[i][j] * b[i][j]]]
Transpose(a)     == [i \in Cols(a) |-> [j \in Rows(a) |-> a[j][i]]]
ReLU(a)          == [i \in Rows(a) |-> [j \in Cols(a) |-> IF a[i][j] > 0 THEN a[i][j] ELSE 0]]
DReLU(a)         == [i \in Rows(a) |-> [j \in Cols(a) |-> IF a[i][j] > 0 THEN 1 ELSE 0]]
SumMatrix(a)     == Total([i \in Rows(a) |-> Total(a[i])])
MatMul(a, b)     == [i \in Rows(a) |-> [j \in Cols(b) |->
                        Total([k \in Cols(a) |-> a[i][k] * b[k][j]])]]

-----------------------------------------------------------------------------
(* Building the graph. *)

Tensors == 1 .. Len(tensor)
Params  == 1 .. Len(Leaves)
Data(n) == tensor[n].data

Init ==
    /\ tensor = [p \in Params |-> [op |-> "leaf", prev |-> <<>>, data |-> Leaves[p]]]
    /\ grad = [p \in Params |-> None]
    /\ phase = "idle" /\ path = <<>> /\ topo = <<>>
    /\ calls = 0
    /\ used = {} /\ clean = TRUE
    /\ owed = [p \in Params |-> Zeros(Leaves[p])]

New(op, prev, data) ==
    /\ phase = "idle"
    /\ Len(tensor) < MaxTensor /\ Len(tensor) + calls < MaxBoth
    /\ tensor' = Append(tensor, [op |-> op, prev |-> prev, data |-> data])
    /\ grad' = Append(grad, None)
    /\ UNCHANGED <<phase, path, topo, calls, used, clean, owed>>

\* __add__ and __mul__, of tensors of one shape.
AddTensors(a, b) ==
    /\ Shape(Data(a)) = Shape(Data(b))
    /\ New("+", <<a, b>>, Plus(Data(a), Data(b)))

MulTensors(a, b) ==
    /\ Shape(Data(a)) = Shape(Data(b))
    /\ New("*", <<a, b>>, Times(Data(a), Data(b)))

\* matmul; other shapes raise ValueError.
MatMulTensors(a, b) ==
    /\ Cols(Data(a)) = Rows(Data(b))
    /\ New("@", <<a, b>>, MatMul(Data(a), Data(b)))

ReLUTensor(a) == New("ReLU", <<a>>, ReLU(Data(a)))

SumTensor(a) == New("Sum", <<a>>, <<<<SumMatrix(Data(a))>>>>)

-----------------------------------------------------------------------------
(* backward. *)

\* What the closure _backward of tensor n adds to the gradient of each parent,
\* g being the gradient of n.
Passed(n, g) ==
    LET t == tensor[n]
        A == Data(t.prev[1])
        B == Data(t.prev[2])
    IN  CASE t.op = "leaf" -> <<>>
          [] t.op = "+"    -> <<g, g>>
          [] t.op = "*"    -> <<Times(g, B), Times(g, A)>>
          [] t.op = "@"    -> <<MatMul(g, Transpose(B)), MatMul(Transpose(A), g)>>
          [] t.op = "ReLU" -> <<Times(DReLU(A), g)>>
          [] t.op = "Sum"  -> <<Filled(A, g[1][1])>>

\* The gradient of n in g; where there is none, _init_grad makes one of zeros.
GradOf(g, n) == IF g[n] = None THEN Zeros(Data(n)) ELSE g[n]

Replaced(g, n, d) == [g EXCEPT ![n] = d]
\* The gradients g after d was added to that of n.
Accumulated(g, n, d) == [g EXCEPT ![n] = Plus(GradOf(g, n), d)]

\* add(a, b) and sub(a, b) raise IndexError unless b has every place of a.
Covers(b, a) == Rows(a) \subseteq Rows(b) /\ Cols(a) \subseteq Cols(b)

\* The closure of n computes what it hands on: of a gradient g of another shape
\* matmul makes a ValueError and relu an IndexError.
Computes(n, g) == tensor[n].op \in {"@", "ReLU"} => Shape(g) = Shape(Data(n))

\* The closure of n does not raise.
Fits(n) ==
    /\ Computes(n, grad[n])
    /\ LET d == Passed(n, grad[n])
       IN  \A i \in DOMAIN d : Covers(d[i], GradOf(grad, tensor[n].prev[i]))

\* The tensors that n is computed from, and n.
Closed(S) == \A m \in S : ToSet(tensor[m].prev) \subseteq S
Graph(n) == {m \in Tensors : \A S \in SUBSET Tensors : n \in S /\ Closed(S) => m \in S}

\* The derivative of tensor n by the entry e of a parameter, X and Y being those
\* of its parents.
Slope(n, X, Y, e) ==
    LET t == tensor[n]
        A == Data(t.prev[1])
        B == Data(t.prev[2])
    IN  CASE t.op = "leaf" -> [x \in Rows(t.data) |-> [y \in Cols(t.data) |->
                                  IF <<n, x, y>> = e THEN 1 ELSE 0]]
          [] t.op = "+"    -> Plus(X, Y)
          [] t.op = "*"    -> Plus(Times(X, B), Times(A, Y))
          [] t.op = "@"    -> Plus(MatMul(X, B), MatMul(A, Y))
          [] t.op = "ReLU" -> Times(DReLU(A), X)
          [] t.op = "Sum"  -> <<<<SumMatrix(X)>>>>

\* The derivatives of all tensors by the entry e, each from those before it.
Forward(e) ==
    LET D[n \in Tensors] == Slope(n, D[tensor[n].prev[1]], D[tensor[n].prev[2]], e)
    IN  D

\* The derivative of the loss n by parameter p.
Derivative(n, p) ==
    [i \in Rows(Leaves[p]) |-> [j \in Cols(Leaves[p]) |-> Forward(<<p, i, j>>)[n][1][1]]]

Call ==
    /\ phase = "idle"
    /\ calls < MaxCalls /\ Len(tensor) + calls < MaxBoth
    /\ calls' = calls + 1

\* A result of one entry.  backward takes any tensor and gives it the gradient
\* [[1.0]], which is a derivative only here.
Loss(n) == n \notin Params /\ Shape(Data(n)) = <<1, 1>>

Backward(n) ==
    /\ Call
    /\ phase' = "sort"
    /\ path' = <<n>>
    /\ used' = used \cup (Graph(n) \ Params)
    /\ clean' = (clean /\ Loss(n) /\ Graph(n) \cap used = {})
    /\ owed' = [p \in Params |->
                    IF clean' THEN Plus(owed[p], Derivative(n, p)) ELSE owed[p]]
    /\ UNCHANGED <<tensor, grad, topo>>

Unvisited == ToSet(tensor[Last(path)].prev) \ (ToSet(topo) \cup ToSet(path))

\* build_topo calls itself on a parent.
Visit ==
    /\ phase = "sort" /\ path # <<>>
    /\ \E m \in Unvisited : path' = Append(path, m)
    /\ UNCHANGED <<tensor, grad, phase, topo, calls, used, clean, owed>>

ParentsLast(n) == <<n>> \o topo
ParentsFirst(n) == Append(topo, n)

\* build_topo returns; the outermost call is followed by the gradient of the
\* tensor that backward was called on.
Return ==
    /\ phase = "sort" /\ path # <<>>
    /\ Unvisited = {}
    /\ path' = Front(path)
    /\ topo' = ParentsFirst(Last(path))
    /\ IF path' = <<>>
       THEN phase' = "propagate" /\ grad' = [grad EXCEPT ![Last(path)] = <<<<1>>>>]
       ELSE UNCHANGED <<phase, grad>>
    /\ UNCHANGED <<tensor, calls, used, clean, owed>>

\* _ctx of the next tensor.
Propagate ==
    /\ phase = "propagate"
    /\ Fits(Last(topo))
    /\ LET n == Last(topo)
           d == Passed(n, grad[n])
           Given(g, i) == IF i \in DOMAIN d THEN Accumulated(g, tensor[n].prev[i], d[i]) ELSE g
       IN  grad' = Given(Given(grad, 1), 2)
    /\ topo' = Front(topo)
    /\ phase' = IF topo' = <<>> THEN "idle" ELSE phase
    /\ UNCHANGED <<tensor, path, calls, used, clean, owed>>

\* _ctx of the next tensor raises, and with it backward: both parents have a
\* gradient by then, and the first may have got its share.
Raise ==
    /\ phase = "propagate"
    /\ LET n == Last(topo)
           first == tensor[n].prev[1]
           d == Passed(n, grad[n])
           begun == [m \in Tensors |->
                        IF m \in ToSet(tensor[n].prev) THEN GradOf(grad, m) ELSE grad[m]]
       IN  /\ ~Fits(n)
           /\ grad' = IF Computes(n, grad[n]) /\ Covers(d[1], begun[first])
                      THEN Accumulated(begun, first, d[1])
                      ELSE begun
    /\ phase' = "idle" /\ topo' = <<>>
    /\ UNCHANGED <<tensor, path, calls, used, clean, owed>>

-----------------------------------------------------------------------------
(* SGD. *)

Misfits == {p \in Params : grad[p] # None /\ ~Covers(grad[p], Data(p))}

\* step raises at the first parameter whose gradient is too small for it, those
\* before it being changed.  Tensors computed before are outdated: no backward
\* should go through them any more.
Step ==
    /\ Call
    /\ tensor' = [n \in Tensors |->
            IF n \in Params /\ grad[n] # None /\ 1 .. n \cap Misfits = {}
            THEN [tensor[n] EXCEPT !.data = Minus(@, Scaled(grad[n], Rate))]
            ELSE tensor[n]]
    /\ used' = Tensors \ Params
    /\ UNCHANGED <<grad, phase, path, topo, clean, owed>>

ZeroGradInPlace ==
    /\ Call
    /\ grad' = [n \in Tensors |-> IF n \in Params /\ grad[n] # None THEN Zeros(grad[n]) ELSE grad[n]]
    /\ clean' = TRUE
    /\ owed' = [p \in Params |-> Zeros(Leaves[p])]
    /\ UNCHANGED <<tensor, phase, path, topo, used>>

ZeroGrad ==
    /\ Call
    /\ grad' = [n \in Tensors |-> IF n \in Params THEN None ELSE grad[n]]
    /\ clean' = TRUE
    /\ owed' = [p \in Params |-> Zeros(Leaves[p])]
    /\ UNCHANGED <<tensor, phase, path, topo, used>>

Next ==
    \/ \E a, b \in Tensors : AddTensors(a, b) \/ MulTensors(a, b) \/ MatMulTensors(a, b)
    \/ \E a \in Tensors : ReLUTensor(a) \/ SumTensor(a) \/ Backward(a)
    \/ Visit \/ Return \/ Propagate \/ Raise
    \/ Step \/ ZeroGrad

Spec == Init /\ [][Next]_vars

-----------------------------------------------------------------------------

\* Every variable has its type: a gradient has the shape of its tensor, or is the
\* [[1.0]] that backward gave it.
TypeOK ==
    /\ phase \in {"idle", "sort", "propagate"}
    /\ Len(grad) = Len(tensor)
    /\ \A n \in Tensors : grad[n] = None \/ Shape(grad[n]) \in {Shape(Data(n)), <<1, 1>>}
    /\ ToSet(path) \cup ToSet(topo) \cup used \subseteq Tensors
    /\ calls \in 0 .. MaxCalls

\* When backward runs the step of a tensor, the tensor has its gradient, and
\* nothing that is still to run would add to it.
GradientReady ==
    phase = "propagate" =>
        /\ grad[Last(topo)] # None
        /\ \A n \in ToSet(topo) : Last(topo) \notin ToSet(tensor[n].prev)

\* Whatever was called and raised before a zero_grad, after it neither backward on
\* losses with graphs of their own nor step comes upon a gradient of a wrong shape:
\* what a mistaken backward leaves on a tensor does not reach another graph.
NothingRaises ==
    clean => Misfits = {} /\ (phase = "propagate" => Fits(Last(topo)))

\* The gradient of a parameter is the sum of the derivatives of all losses since
\* the last zero_grad, whatever tensors the losses share with each other through
\* the parameters or within themselves, and in whatever order parents come.
GradientsExact ==
    phase = "idle" /\ clean =>
        \A p \in Params :
            IF grad[p] = None THEN owed[p] = Zeros(owed[p]) ELSE grad[p] = owed[p]

=============================================================================
