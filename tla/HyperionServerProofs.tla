------------------------- MODULE HyperionServerProofs -------------------------
(***************************************************************************)
(* The server of hyperion_stream answers every frame in its turn, for any  *)
(* connections, frames, pieces and bounds.                                 *)
(***************************************************************************)
EXTENDS HyperionServer, SequenceTheorems, WellFoundedInduction, TLAPS

Bytes == Seq(Nat)

-----------------------------------------------------------------------------
(* Numbers and sequences. *)

\* A set of numbers that is not empty has a least one.
LEMMA Least ==
    ASSUME NEW T \in SUBSET Nat, T # {}
    PROVE  \E x \in T : \A y \in T : x <= y
<1>. DEFINE R == {p \in Nat \X Nat : p[1] < p[2]}
<1>1. IsWellFoundedOn(R, Nat)
    BY NatLessThanWellFounded DEF OpToRel
<1>2. PICK x \in T : \A y \in T : <<y, x>> \notin R
    BY <1>1, WFMin, Zenon
<1>3. \A y \in T : <<y, x>> \in R <=> y < x
    OBVIOUS
<1>4. x \in Nat /\ \A y \in T : y \in Nat
    OBVIOUS
<1>5. ASSUME NEW y \in T PROVE x <= y
  <2>1. ~ (y < x) /\ x \in Nat /\ y \in Nat
      BY <1>2, <1>3, <1>4
  <2>. QED
      BY <2>1
<1>. QED
    BY <1>5

\* A set of numbers up to n has a greatest one, and Max gives it.
LEMMA Greatest ==
    ASSUME NEW n \in Nat, NEW T \in SUBSET (0 .. n), T # {}
    PROVE  Max(T) \in T /\ \A y \in T : Max(T) >= y
<1>. DEFINE U == {k \in Nat : \A y \in T : k >= y}
<1>1. n \in U
    OBVIOUS
<1>2. PICK k \in U : \A j \in U : k <= j
    BY <1>1, Least
<1>3. k \in T
  <2>. SUFFICES ASSUME k \notin T PROVE FALSE
      OBVIOUS
  <2>1. \A y \in T : k > y /\ y \in Nat
      BY <1>2
  <2>2. k \in Nat /\ k # 0 /\ k - 1 \in Nat
    <3>1. PICK y \in T : TRUE
        OBVIOUS
    <3>. QED
        BY <2>1, <3>1
  <2>3. k - 1 \in U
      BY <2>1, <2>2
  <2>. HIDE DEF U
  <2>. QED
      BY <1>2, <2>2, <2>3
<1>. QED
    BY <1>2, <1>3 DEF Max

LEMMA FirstIs ==
    ASSUME NEW bytes \in Bytes, NEW at \in 1 .. Len(bytes), bytes[at] = Separator,
           \A i \in 1 .. at - 1 : bytes[i] # Separator
    PROVE  FirstSeparator(bytes) = at
<1>. DEFINE I == {i \in 1 .. Len(bytes) : bytes[i] = Separator}
<1>0. Len(bytes) \in Nat
    BY DEF Bytes
<1>1. at \in I /\ I \subseteq Int /\ \A j \in I : at <= j
    BY <1>0
<1>2. FirstSeparator(bytes) = IF I # {} THEN Min(I) ELSE 0
    BY DEF FirstSeparator, SelectInSeq
<1>. HIDE DEF I
<1>3. Min(I) \in I /\ \A j \in I : Min(I) <= j
    BY <1>1 DEF Min
<1>4. Min(I) \in Int /\ at \in Int /\ Min(I) <= at /\ at <= Min(I)
    BY <1>1, <1>3
<1>. QED
    BY <1>1, <1>2, <1>4

LEMMA NoneIs ==
    ASSUME NEW bytes \in Bytes, \A i \in 1 .. Len(bytes) : bytes[i] # Separator
    PROVE  FirstSeparator(bytes) = 0
BY DEF FirstSeparator, SelectInSeq

\* One sequence after another; what is left of one at either end; when two are one.
LEMMA Joined ==
    ASSUME NEW s \in Bytes, NEW t \in Bytes, NEW n \in Nat, Len(s) + Len(t) = n
    PROVE  /\ s \o t \in Bytes /\ Len(s \o t) = n
           /\ \A i \in 1 .. n : (s \o t)[i] = IF i <= Len(s) THEN s[i] ELSE t[i - Len(s)]
BY DEF Bytes

LEMMA Tailed ==
    ASSUME NEW s \in Bytes, NEW m \in Nat, m <= Len(s)
    PROVE  /\ SubSeq(s, m + 1, Len(s)) \in Bytes
           /\ Len(SubSeq(s, m + 1, Len(s))) = Len(s) - m
           /\ \A i \in 1 .. Len(s) - m : SubSeq(s, m + 1, Len(s))[i] = s[i + m]
BY DEF Bytes

LEMMA Headed ==
    ASSUME NEW s \in Bytes, NEW m \in Nat, m <= Len(s)
    PROVE  /\ SubSeq(s, 1, m) \in Bytes /\ Len(SubSeq(s, 1, m)) = m
           /\ \A i \in 1 .. m : SubSeq(s, 1, m)[i] = s[i]
BY DEF Bytes

LEMMA Same ==
    ASSUME NEW s \in Bytes, NEW t \in Bytes, Len(s) = Len(t), \A i \in 1 .. Len(s) : s[i] = t[i]
    PROVE s = t
BY SeqEqual, Zenon DEF Bytes

LEMMA Concat ==
    ASSUME NEW s \in Bytes, NEW t \in Bytes
    PROVE  /\ s \o t \in Bytes
           /\ s \o << >> = s /\ << >> \o s = s
           /\ << >> \in Bytes
BY DEF Bytes

LEMMA Regroup ==
    ASSUME NEW s \in Bytes, NEW t \in Bytes, NEW u \in Bytes
    PROVE  (s \o t) \o u = s \o (t \o u)
BY ConcatAssociative, SMTT(30) DEF Bytes

\* Of two ways to write a sequence the shorter front is cut off.
LEMMA CutOff ==
    ASSUME NEW s \in Bytes, NEW t \in Bytes, NEW u \in Bytes, NEW w \in Bytes,
           s \o t = u \o w, Len(s) >= Len(u)
    PROVE  /\ SubSeq(s, 1, Len(u)) = u
           /\ SubSeq(s, Len(u) + 1, Len(s)) \o t = w
<1>. DEFINE b == SubSeq(s, Len(u) + 1, Len(s))
<1>0. Len(s) \in Nat /\ Len(t) \in Nat /\ Len(u) \in Nat /\ Len(w) \in Nat
    BY DEF Bytes
<1>1. SubSeq(s, 1, Len(u)) = u
    BY DEF Bytes
<1>2. /\ b \in Bytes /\ Len(b) = Len(s) - Len(u)
      /\ \A i \in 1 .. Len(s) - Len(u) : b[i] = s[i + Len(u)]
    BY <1>0, Tailed
<1>. HIDE DEF b
<1>3. Len(b) + Len(t) = Len(w)
  <2>1. \A x, y \in Bytes : Len(x \o y) = Len(x) + Len(y)
      BY ConcatProperties, Zenon DEF Bytes
  <2>2. Len(s \o t) = Len(s) + Len(t) /\ Len(u \o w) = Len(u) + Len(w)
      BY <2>1
  <2>. QED
      BY <1>0, <1>2, <2>2
<1>4. /\ b \o t \in Bytes /\ Len(b \o t) = Len(w)
      /\ \A i \in 1 .. Len(w) : (b \o t)[i] = IF i <= Len(b) THEN b[i] ELSE t[i - Len(b)]
  <2>1. b \in Bytes /\ Len(w) \in Nat
      BY <1>0, <1>2
  <2>. QED
      BY <1>3, <2>1, Joined, ZenonT(40)
<1>5. ASSUME NEW i \in 1 .. Len(w) PROVE (b \o t)[i] = w[i]
  <2>. DEFINE j == i + Len(u)
  <2>1. /\ j \in 1 .. Len(s) + Len(t) /\ ~ (j <= Len(u)) /\ j - Len(u) = i
        /\ (j <= Len(s) <=> i <= Len(b)) /\ j - Len(s) = i - Len(b)
        /\ Len(u) + Len(w) = Len(s) + Len(t)
    <3>1. i \in Nat /\ 1 <= i /\ i <= Len(w) /\ Len(b) = Len(s) - Len(u)
        BY <1>0, <1>2
    <3>. QED
        BY <1>0, <1>3, <3>1
  <2>. HIDE DEF j
  <2>c. \A x, y \in Bytes : \A k \in 1 .. Len(x) + Len(y) :
            (x \o y)[k] = IF k <= Len(x) THEN x[k] ELSE y[k - Len(x)]
      BY ConcatProperties, Zenon DEF Bytes
  <2>2. (s \o t)[j] = IF j <= Len(s) THEN s[j] ELSE t[j - Len(s)]
      BY <2>1, <2>c
  <2>3. (u \o w)[j] = w[i]
      BY <2>1, <2>c
  <2>4. i <= Len(b) => b[i] = s[j]
      BY <1>0, <1>2 DEF j
  <2>. QED
      BY <1>4, <2>1, <2>2, <2>3, <2>4
<1>6. b \o t = w
    BY <1>4, <1>5, Same
<1>. QED
    BY <1>1, <1>2, <1>6 DEF b

LEMMA Cancel ==
    ASSUME NEW s \in Bytes, NEW t \in Bytes, NEW u \in Bytes, s \o t = s \o u
    PROVE  t = u
<1>1. Len(s) \in Nat /\ Len(s) >= Len(s)
    BY DEF Bytes
<1>2. SubSeq(s, Len(s) + 1, Len(s)) = << >>
    BY <1>1 DEF Bytes
<1>3. SubSeq(s, Len(s) + 1, Len(s)) \o t = u
    BY <1>1, CutOff
<1>4. << >> \o t = t
    BY DEF Bytes
<1>. QED
    BY <1>2, <1>3, <1>4

\* The next piece of a sequence and what follows it.
LEMMA Piecewise ==
    ASSUME NEW s \in Bytes, NEW n \in Nat, n > 0
    PROVE  LET m == Min({n, Len(s)})
           IN  /\ SubSeq(s, 1, m) \in Bytes
               /\ SubSeq(s, n + 1, Len(s)) \in Bytes
               /\ SubSeq(s, 1, m) \o SubSeq(s, n + 1, Len(s)) = s
<1>. DEFINE m == Min({n, Len(s)})
            a == SubSeq(s, 1, m)
            b == SubSeq(s, n + 1, Len(s))
<1>1. Len(s) \in Nat
    BY DEF Bytes
<1>2. m = IF n <= Len(s) THEN n ELSE Len(s)
    BY <1>1 DEF Min
<1>. HIDE DEF m
<1>3. m \in Nat /\ m <= Len(s)
    BY <1>1, <1>2
<1>4. a \in Bytes /\ Len(a) = m /\ \A i \in 1 .. m : a[i] = s[i]
    BY <1>3, Headed
<1>5. /\ b \in Bytes /\ Len(b) = Len(s) - m
      /\ \A i \in 1 .. Len(s) - m : b[i] = s[i + m]
  <2>1. CASE n <= Len(s)
      BY <1>2, <2>1, Tailed
  <2>2. CASE ~ (n <= Len(s))
    <3>1. b = << >>
        BY <1>1, <2>2 DEF Bytes
    <3>. QED
        BY <1>1, <1>2, <2>2, <3>1 DEF Bytes
  <2>. QED
      BY <2>1, <2>2
<1>. HIDE DEF a, b
<1>6. Len(a) + Len(b) = Len(s)
    BY <1>1, <1>3, <1>4, <1>5
<1>7. /\ a \o b \in Bytes /\ Len(a \o b) = Len(s)
      /\ \A i \in 1 .. Len(s) : (a \o b)[i] = IF i <= Len(a) THEN a[i] ELSE b[i - Len(a)]
    BY <1>1, <1>4, <1>5, <1>6, Joined
<1>8. ASSUME NEW i \in 1 .. Len(s) PROVE (a \o b)[i] = s[i]
  <2>1. CASE i <= m
    <3>1. i \in 1 .. m
        BY <1>3, <2>1
    <3>. QED
        BY <1>4, <1>7, <2>1, <3>1
  <2>2. CASE ~ (i <= m)
    <3>1. i - m \in 1 .. Len(s) - m /\ (i - m) + m = i
        BY <1>1, <1>3, <2>2
    <3>. QED
        BY <1>4, <1>5, <1>7, <2>2, <3>1
  <2>. QED
      BY <2>1, <2>2
<1>9. a \o b = s
    BY <1>7, <1>8, Same
<1>. QED
    BY <1>4, <1>5, <1>9 DEF a, b, m

\* The three numbers of a header, and what follows them.
LEMMA Rejoined ==
    ASSUME NEW s \in Bytes, Len(s) >= 3
    PROVE  /\ SubSeq(s, 4, Len(s)) \in Bytes
           /\ <<s[1], s[2], s[3]>> \in Bytes
           /\ <<s[1], s[2], s[3]>> \o SubSeq(s, 4, Len(s)) = s
<1>. DEFINE a == <<s[1], s[2], s[3]>>
            b == SubSeq(s, 4, Len(s))
<1>1. Len(s) \in Nat /\ \A i \in 1 .. Len(s) : s[i] \in Nat
    BY DEF Bytes
<1>2. a \in Bytes /\ Len(a) = 3 /\ a[1] = s[1] /\ a[2] = s[2] /\ a[3] = s[3]
    BY <1>1 DEF Bytes
<1>3. b \in Bytes /\ Len(b) = Len(s) - 3 /\ \A i \in 1 .. Len(s) - 3 : b[i] = s[i + 3]
  <2>. DEFINE m == 3
  <2>1. m \in Nat /\ m <= Len(s) /\ m + 1 = 4
      BY <1>1
  <2>. HIDE DEF m
  <2>2. /\ SubSeq(s, m + 1, Len(s)) \in Bytes
        /\ Len(SubSeq(s, m + 1, Len(s))) = Len(s) - m
        /\ \A i \in 1 .. Len(s) - m : SubSeq(s, m + 1, Len(s))[i] = s[i + m]
      BY <2>1, Tailed
  <2>3. b = SubSeq(s, m + 1, Len(s))
      BY <2>1
  <2>. QED
      BY <2>2, <2>3 DEF m
<1>. HIDE DEF a, b
<1>4. /\ a \o b \in Bytes /\ Len(a \o b) = Len(s)
      /\ \A i \in 1 .. Len(s) : (a \o b)[i] = IF i <= 3 THEN a[i] ELSE b[i - 3]
  <2>1. Len(a) + Len(b) = Len(s)
      BY <1>1, <1>2, <1>3
  <2>2. /\ a \o b \in Bytes /\ Len(a \o b) = Len(s)
        /\ \A i \in 1 .. Len(s) : (a \o b)[i] = IF i <= Len(a) THEN a[i] ELSE b[i - Len(a)]
      BY <1>1, <1>2, <1>3, <2>1, Joined, ZenonT(40)
  <2>. QED
      BY <1>2, <2>2, Zenon
<1>5. ASSUME NEW i \in 1 .. Len(s) PROVE (a \o b)[i] = s[i]
  <2>1. CASE i <= 3
    <3>1. i = 1 \/ i = 2 \/ i = 3
        BY <1>1, <2>1
    <3>. QED
        BY <1>2, <1>4, <2>1, <3>1
  <2>2. CASE ~ (i <= 3)
    <3>1. i - 3 \in 1 .. Len(s) - 3 /\ (i - 3) + 3 = i
        BY <1>1, <2>2
    <3>. QED
        BY <1>3, <1>4, <2>2, <3>1
  <2>. QED
      BY <2>1, <2>2
<1>6. a \o b = s
    BY <1>4, <1>5, Same
<1>. QED
    BY <1>2, <1>3, <1>6 DEF a, b
-----------------------------------------------------------------------------
(* Frames and the streams they make. *)

\* What the server reads before it knows the payload.
Header(f) ==
    <<IF f.op = "NOISE" THEN Magic + 1 ELSE Magic, TypeOf(f),
      IF f.op = "HUGE" THEN MaxPacket + 1 ELSE Len(Payload(f))>>

\* Stream s is made of the frames of sequence fs after the p-th: cut[j] is what is
\* left of it when the j-th has been read.
Framed(s, fs, p) ==
    /\ p <= Len(fs)
    /\ \E cut \in [p .. Len(fs) -> Bytes] :
          /\ cut[p] = s /\ cut[Len(fs)] = << >>
          /\ \A j \in p + 1 .. Len(fs) : cut[j - 1] = FrameBytes(fs[j].frame) \o cut[j]

Question == [frame : Frame, known : Nat]

\* What the engine knows of a record.
Text == [key : Bytes, value : Bytes]

LEMMA Constants ==
    /\ Separator \in Nat /\ Separator # 1 /\ Separator # BadByte
    /\ MaxPacket \in Nat /\ Piece \in Nat /\ Piece > 0 /\ MaxErrors \in Nat
    /\ High \in Nat /\ Low \in Nat /\ Low <= High
    /\ None \notin Conn
    /\ \A f \in Frame : /\ f.op \in Ops /\ f.key \in Bytes /\ f.value \in Bytes
                        /\ Separator \notin ToSet(f.key)
BY ConstantsOK DEF ConstantsOK, Bytes

LEMMA FrameFacts ==
    ASSUME NEW f \in Frame
    PROVE  /\ Payload(f) \in Bytes
           /\ Header(f) \in Bytes /\ Len(Header(f)) = 3
           /\ FrameBytes(f) = Header(f) \o Payload(f)
           /\ FrameBytes(f) \in Bytes
<1>1. f.key \in Bytes /\ f.value \in Bytes /\ Separator \in Nat
    BY Constants
<1>2. f.key \o <<Separator>> \o f.value \in Bytes /\ <<1>> \in Bytes /\ << >> \in Bytes
    BY <1>1 DEF Bytes
<1>3. Payload(f) \in Bytes
    BY <1>1, <1>2 DEF Payload
<1>4. Len(Payload(f)) \in Nat /\ TypeOf(f) \in Nat /\ MaxPacket + 1 \in Nat
    BY <1>3, Constants DEF Bytes, TypeOf
<1>5. Header(f) \in Bytes /\ Len(Header(f)) = 3
    BY <1>4 DEF Header, Bytes, Magic
<1>6. FrameBytes(f) = Header(f) \o Payload(f)
    BY DEF FrameBytes, Header
<1>. QED
    BY <1>3, <1>5, <1>6, Concat

\* A stream that has bytes begins with the next frame.
LEMMA NextFrame ==
    ASSUME NEW fs \in Seq(Question), NEW p \in Nat, NEW s \in Bytes, Framed(s, fs, p),
           s # << >>
    PROVE  /\ p + 1 \in 1 .. Len(fs)
           /\ \E rest \in Bytes : /\ s = FrameBytes(fs[p + 1].frame) \o rest
                                  /\ Framed(rest, fs, p + 1)
<1>1. Len(fs) \in Nat /\ p <= Len(fs)
    BY DEF Framed
<1>2. PICK cut \in [p .. Len(fs) -> Bytes] :
          /\ cut[p] = s /\ cut[Len(fs)] = << >>
          /\ \A j \in p + 1 .. Len(fs) : cut[j - 1] = FrameBytes(fs[j].frame) \o cut[j]
    BY DEF Framed
<1>3. p + 1 \in 1 .. Len(fs) /\ p + 1 <= Len(fs)
    BY <1>1, <1>2
<1>4. s = FrameBytes(fs[p + 1].frame) \o cut[p + 1]
  <2>1. p + 1 \in p + 1 .. Len(fs) /\ (p + 1) - 1 = p
      BY <1>1, <1>3
  <2>. QED
      BY <1>2, <2>1
<1>5. Framed(cut[p + 1], fs, p + 1)
  <2>. DEFINE rest == [j \in p + 1 .. Len(fs) |-> cut[j]]
  <2>1. /\ rest \in [p + 1 .. Len(fs) -> Bytes]
        /\ rest[p + 1] = cut[p + 1] /\ rest[Len(fs)] = << >>
      BY <1>1, <1>2, <1>3
  <2>2. ASSUME NEW j \in (p + 1) + 1 .. Len(fs)
        PROVE  rest[j - 1] = FrameBytes(fs[j].frame) \o rest[j]
    <3>1. j \in p + 1 .. Len(fs) /\ j - 1 \in p + 1 .. Len(fs)
        BY <1>1, <2>2
    <3>. QED
        BY <1>2, <3>1
  <2>. HIDE DEF rest
  <2>. QED
      BY <1>3, <2>1, <2>2 DEF Framed
<1>6. cut[p + 1] \in Bytes
    BY <1>1, <1>3
<1>. QED
    BY <1>3, <1>4, <1>5, <1>6

\* A frame that is sent lengthens the stream.
LEMMA OneMore ==
    ASSUME NEW fs \in Seq(Question), NEW p \in Nat, NEW s \in Bytes, Framed(s, fs, p),
           NEW q \in Question
    PROVE  Framed(s \o FrameBytes(q.frame), Append(fs, q), p)
<1>. DEFINE n == Len(fs)
            g == FrameBytes(q.frame)
            gs == Append(fs, q)
<1>1. n \in Nat /\ p <= n /\ Len(gs) = n + 1 /\ gs[n + 1] = q
      /\ \A j \in 1 .. n : gs[j] = fs[j] /\ fs[j].frame \in Frame
  <2>1. n \in Nat /\ p <= n
      BY DEF Framed
  <2>2. Len(gs) = n + 1 /\ gs[n + 1] = q /\ \A j \in 1 .. n : gs[j] = fs[j]
      OBVIOUS
  <2>3. \A j \in 1 .. n : fs[j] \in Question
      OBVIOUS
  <2>. QED
      BY <2>1, <2>2, <2>3 DEF Question
<1>2. g \in Bytes /\ \A j \in 1 .. n : FrameBytes(fs[j].frame) \in Bytes
    BY <1>1, FrameFacts DEF Question
<1>3. PICK cut \in [p .. n -> Bytes] :
          /\ cut[p] = s /\ cut[n] = << >>
          /\ \A j \in p + 1 .. n : cut[j - 1] = FrameBytes(fs[j].frame) \o cut[j]
    BY DEF Framed
<1>. HIDE DEF n, g, gs
<1>. DEFINE longer == [j \in p .. n + 1 |-> IF j = n + 1 THEN << >> ELSE cut[j] \o g]
<1>4. /\ longer \in [p .. n + 1 -> Bytes] /\ longer[p] = s \o g /\ longer[n + 1] = << >>
      /\ longer[n] = g
  <2>1. \A j \in p .. n : cut[j] \o g \in Bytes
      BY <1>2, <1>3, Concat
  <2>2. \A j \in p .. n + 1 : j # n + 1 => j \in p .. n
      BY <1>1
  <2>3. p \in p .. n + 1 /\ n \in p .. n + 1 /\ n + 1 \in p .. n + 1 /\ p # n + 1 /\ n # n + 1
      BY <1>1
  <2>4. << >> \in Bytes /\ << >> \o g = g
      BY <1>2, Concat
  <2>. QED
      BY <1>3, <2>1, <2>2, <2>3, <2>4
<1>5. ASSUME NEW j \in p + 1 .. n + 1
      PROVE  longer[j - 1] = FrameBytes(gs[j].frame) \o longer[j]
  <2>1. CASE j = n + 1
    <3>1. longer[j - 1] = g /\ FrameBytes(gs[j].frame) = g
        BY <1>1, <1>4, <2>1 DEF g
    <3>2. g \o << >> = g
        BY <1>2, Concat
    <3>. HIDE DEF longer
    <3>. QED
        BY <1>4, <2>1, <3>1, <3>2
  <2>2. CASE j # n + 1
    <3>1. j \in 1 .. n /\ j \in p + 1 .. n /\ j \in p .. n /\ j - 1 \in p .. n
          /\ j \in p .. n + 1 /\ j - 1 \in p .. n + 1 /\ j - 1 # n + 1
        BY <1>1, <2>2
    <3>2. longer[j] = cut[j] \o g /\ longer[j - 1] = cut[j - 1] \o g
        BY <2>2, <3>1
    <3>3. cut[j - 1] = FrameBytes(fs[j].frame) \o cut[j] /\ cut[j] \in Bytes
        BY <1>3, <3>1
    <3>4. gs[j] = fs[j] /\ FrameBytes(fs[j].frame) \in Bytes
        BY <1>1, <1>2, <3>1
    <3>. DEFINE front == FrameBytes(fs[j].frame)
                rest == cut[j]
    <3>5. front \in Bytes /\ rest \in Bytes /\ g \in Bytes
        BY <1>2, <3>3, <3>4
    <3>. HIDE DEF longer, front, rest
    <3>6. (front \o rest) \o g = front \o (rest \o g)
        BY <3>5, Regroup, ZenonT(40)
    <3>. QED
        BY <3>2, <3>3, <3>4, <3>6, Zenon DEF front, rest
  <2>. QED
      BY <2>1, <2>2
<1>. HIDE DEF longer
<1>6. Framed(s \o g, gs, p)
  <2>1. p <= Len(gs)
      BY <1>1
  <2>2. /\ longer \in [p .. Len(gs) -> Bytes]
        /\ longer[p] = s \o g /\ longer[Len(gs)] = << >>
        /\ \A j \in p + 1 .. Len(gs) :
              longer[j - 1] = FrameBytes(gs[j].frame) \o longer[j]
      BY <1>1, <1>4, <1>5
  <2>. QED
      BY <2>1, <2>2 DEF Framed
<1>. QED
    BY <1>6 DEF g, gs

LEMMA Nothing == ASSUME NEW fs, Len(fs) = 0 PROVE Framed(<< >>, fs, 0)
<1>. DEFINE cut == [j \in 0 .. 0 |-> << >>]
<1>1. cut \in [0 .. 0 -> Bytes] /\ cut[0] = << >> /\ 0 + 1 .. 0 = {}
    BY DEF Bytes
<1>. HIDE DEF cut
<1>. QED
    BY <1>1 DEF Framed

-----------------------------------------------------------------------------
(* The inductive invariant. *)

Kinds == {"OK_SET", "ERR_SET", "ERR_FORMAT", "VALUE", "ERR_NOT_FOUND", "ERR_INTERNAL",
          "STATS", "ERR_UNKNOWN_CMD"}
Response == [kind : Kinds, id : Nat, read : Nat, value : Bytes]

Reading == {"header", "payload", "drain"}

Types ==
    /\ pc \in [Conn -> Reading \cup {"new", "closing", "closed"}]
    /\ head \in [Conn -> [type : Nat, length : 0 .. MaxPacket]]
    /\ registry \in [Names -> Conn \cup {None}]
    /\ paused \in [Conn -> BOOLEAN]
    /\ side \in [Conn -> {"open", "shut", "reset"}]
    /\ unsent \in [Conn -> Bytes] /\ wire \in [Conn -> Bytes]
    /\ asked \in [Conn -> Seq(Question)] /\ answers \in [Conn -> Seq(Response)]
    /\ taken \in [Conn -> Nat] /\ \A c \in Conn : taken[c] <= Len(answers[c])
    /\ entry \in Seq(Text) /\ errors \in 0 .. MaxErrors

\* A connection that was not accepted has seen nothing.
Unborn(c) ==
    pc[c] = "new" =>
        /\ wire[c] = << >> /\ unsent[c] = << >>
        /\ asked[c] = << >> /\ answers[c] = << >>

\* A name is entered for a connection that has it.
Named ==
    \A a \in Names : registry[a] # None =>
        Peer[registry[a]] = a /\ pc[registry[a]] \notin {"new", "closed"}

\* A handler that reads is not paused, one that is not paused has room.
Buffered(c) ==
    /\ InBuffer(c) <= High + 1
    /\ ~paused[c] => InBuffer(c) <= High
    /\ pc[c] \in {"new", "header", "payload"} => ~paused[c]

\* What was sent on a connection and has not been run.
Stream(c) ==
    (IF pc[c] = "payload" THEN <<Magic, head[c].type, head[c].length>> ELSE << >>)
        \o (wire[c] \o unsent[c])

\* It starts with the frame after the last answered one.
InStep(c) ==
    /\ Len(answers[c]) <= Len(asked[c])
    /\ pc[c] \in Reading /\ side[c] # "reset" =>
          Framed(Stream(c), asked[c], Len(answers[c]))

\* The engine has the value of each key, and the newest of those acknowledged.
Mapped == \A k \in DOMAIN data : data[k] \in 1 .. Len(entry) /\ entry[data[k]].key = k

Holds(k, id) == k \in DOMAIN data /\ id <= data[k]

Newest ==
    \A c \in Conn : \A i \in 1 .. Len(answers[c]) :
        LET a == answers[c][i]
        IN  /\ a.id \in 0 .. Len(entry) /\ a.read \in 0 .. Len(entry)
            /\ a.kind = "OK_SET" => a.id # 0
            /\ a.id # 0 => Holds(entry[a.id].key, a.id)

\* What a client knew when it asked, the engine still has.
KnownHeld ==
    \A c \in Conn : \A i \in 1 .. Len(asked[c]) :
        LET q == asked[c][i]
        IN  q.known # 0 => Holds(q.frame.key, q.known)

Matched ==
    \A c \in Conn : \A i \in 1 .. Len(answers[c]) :
        Matches(asked[c][i].frame, answers[c][i])

Recent ==
    \A c \in Conn : \A i \in 1 .. Len(answers[c]) :
        LET q == asked[c][i]
        IN  q.frame.op = "GET" /\ Decodes(q.frame.key) => answers[c][i].read >= q.known

History == Mapped /\ Newest /\ KnownHeld /\ Matched /\ Recent

Handled(c) == Unborn(c) /\ Buffered(c) /\ InStep(c)

Inv == Types /\ Named /\ (\A c \in Conn : Handled(c)) /\ History

LEMMA InvInit == Init => Inv
<1>. SUFFICES ASSUME Init PROVE Inv
    OBVIOUS
<1>1. /\ pc = [c \in Conn |-> "new"] /\ head = [c \in Conn |-> NoHead]
      /\ registry = [a \in Names |-> None] /\ paused = [c \in Conn |-> FALSE]
      /\ data = << >> /\ entry = << >> /\ errors = 0
      /\ side = [c \in Conn |-> "open"]
      /\ unsent = [c \in Conn |-> << >>] /\ wire = [c \in Conn |-> << >>]
      /\ asked = [c \in Conn |-> << >>] /\ answers = [c \in Conn |-> << >>]
      /\ taken = [c \in Conn |-> 0]
    BY DEF Init
<1>2. Types
  <2>1. NoHead \in [type : Nat, length : 0 .. MaxPacket] /\ 0 \in 0 .. MaxErrors
      BY Constants DEF NoHead
  <2>2. << >> \in Bytes /\ << >> \in Seq(Question) /\ << >> \in Seq(Response)
        /\ << >> \in Seq(Text)
      BY DEF Bytes
  <2>3. \A c \in Conn : taken[c] <= Len(answers[c])
      BY <1>1
  <2>. QED
      BY <1>1, <2>1, <2>2, <2>3 DEF Types
<1>3. Named
    BY <1>1 DEF Named
<1>4. ASSUME NEW c \in Conn PROVE Unborn(c) /\ Buffered(c)
    BY <1>1, Constants DEF Unborn, Buffered, InBuffer
<1>5. ASSUME NEW c \in Conn PROVE InStep(c)
    BY <1>1 DEF InStep, Reading
<1>6. History
    BY <1>1 DEF History, Mapped, Newest, KnownHeld, Matched, Recent
<1>. QED
    BY <1>2, <1>3, <1>4, <1>5, <1>6 DEF Inv, Handled

\* The history stays as it is where nobody asks and nobody answers.
LEMMA SameHistory ==
    ASSUME History, UNCHANGED <<engine, asked, answers>>
    PROVE  History'
<1>1. UNCHANGED <<data, entry, errors, asked, answers>>
    BY DEF engine
<1>2. Mapped' /\ Newest' /\ KnownHeld'
    BY <1>1 DEF History, Mapped, Newest, KnownHeld, Holds
<1>3. Matched' /\ Recent'
    BY <1>1 DEF History, Matched, Recent, Matches
<1>. QED
    BY <1>2, <1>3 DEF History

LEMMA TypesNow ==
    ASSUME Types, NEW c \in Conn
    PROVE  /\ wire[c] \in Bytes /\ unsent[c] \in Bytes
           /\ asked[c] \in Seq(Question) /\ answers[c] \in Seq(Response)
           /\ Len(asked[c]) \in Nat /\ Len(answers[c]) \in Nat
           /\ Len(wire[c]) \in Nat /\ Len(unsent[c]) \in Nat
           /\ taken[c] \in Nat /\ taken[c] <= Len(answers[c])
           /\ InBuffer(c) \in Nat
           /\ head[c].type \in Nat /\ head[c].length \in 0 .. MaxPacket
           /\ Len(entry) \in Nat
<1>1. /\ wire[c] \in Bytes /\ unsent[c] \in Bytes
      /\ asked[c] \in Seq(Question) /\ answers[c] \in Seq(Response)
      /\ taken[c] \in Nat /\ taken[c] <= Len(answers[c])
      /\ head[c] \in [type : Nat, length : 0 .. MaxPacket]
      /\ entry \in Seq(Text)
    BY DEF Types
<1>2. Len(asked[c]) \in Nat /\ Len(answers[c]) \in Nat /\ Len(entry) \in Nat
      /\ Len(wire[c]) \in Nat /\ Len(unsent[c]) \in Nat
    BY <1>1 DEF Bytes
<1>. QED
    BY <1>1, <1>2 DEF InBuffer

-----------------------------------------------------------------------------
(* Steps of the clients and of the handlers, which keep the history. *)

\* A step of one connection keeps what holds of the others.
LEMMA OneAtATime ==
    ASSUME Inv, NEW c \in Conn, Types', Handled(c)', Named', History',
           \A d \in Conn \ {c} :
              /\ pc'[d] = pc[d] /\ head'[d] = head[d] /\ paused'[d] = paused[d]
              /\ side'[d] = side[d] /\ unsent'[d] = unsent[d] /\ wire'[d] = wire[d]
              /\ asked'[d] = asked[d] /\ answers'[d] = answers[d] /\ taken'[d] = taken[d]
    PROVE  Inv'
<1>1. ASSUME NEW d \in Conn, d # c PROVE Handled(d)'
  <2>1. Handled(d)
      BY DEF Inv
  <2>. QED
      BY <1>1, <2>1 DEF Handled, Unborn, Buffered, InBuffer, InStep, Stream
<1>. QED
    BY <1>1 DEF Inv

LEMMA AcceptInv == ASSUME Inv, NEW c \in Conn, Accept(c) PROVE Inv'
<1>1. /\ pc[c] = "new" /\ pc' = [pc EXCEPT ![c] = "header"]
      /\ registry' = [registry EXCEPT ![Peer[c]] = c]
      /\ UNCHANGED <<head, answers, paused, engine, side, unsent, asked, taken, wire>>
    BY DEF Accept, Wait, client
<1>2. Types /\ Handled(c) /\ Named /\ History
    BY DEF Inv
<1>3. Types'
    BY <1>1, <1>2 DEF Types, Reading, engine, Names
<1>4. pc'[c] = "header" /\ \A d \in Conn \ {c} : pc'[d] = pc[d]
    BY <1>1, <1>2 DEF Types
<1>5. Named'
  <2>1. registry'[Peer[c]] = c /\ \A a \in Names \ {Peer[c]} : registry'[a] = registry[a]
      BY <1>1, <1>2 DEF Types, Names
  <2>2. \A a \in Names : registry[a] \in Conn \cup {None}
      BY <1>2 DEF Types
  <2>. QED
      BY <1>2, <1>4, <2>1, <2>2 DEF Named
<1>6. Handled(c)'
  <2>1. Stream(c)' = << >> /\ asked'[c] = << >> /\ Len(answers'[c]) = 0
      BY <1>1, <1>2, <1>4 DEF Stream, Handled, Unborn
  <2>2. InStep(c)'
      BY <2>1, Nothing DEF InStep
  <2>. QED
      BY <1>1, <1>2, <1>4, <2>2 DEF Handled, Unborn, Buffered, InBuffer
<1>7. History'
    BY <1>1, <1>2, SameHistory
<1>. QED
    BY <1>1, <1>3, <1>4, <1>5, <1>6, <1>7, OneAtATime

\* The header that has arrived is the first three bytes of the stream.
LEMMA ReadHeaderInv == ASSUME Inv, NEW c \in Conn, ReadHeader(c) PROVE Inv'
<1>. DEFINE h == [type |-> wire[c][2], length |-> wire[c][3]]
            left == SubSeq(wire[c], 4, Len(wire[c]))
<1>1. /\ pc[c] = "header" /\ side[c] # "reset" /\ Len(wire[c]) >= 3
      /\ wire' = [wire EXCEPT ![c] = left]
      /\ \/ /\ wire[c][1] = Magic /\ wire[c][3] <= MaxPacket
            /\ pc' = [pc EXCEPT ![c] = "payload"] /\ head' = [head EXCEPT ![c] = h]
         \/ pc' = [pc EXCEPT ![c] = "closing"] /\ head' = head
      /\ UNCHANGED <<registry, answers, paused, engine, side, unsent, asked, taken>>
    BY DEF ReadHeader, Read, HeaderSize, Acceptable, Wait, client
<1>2. Types /\ Handled(c) /\ Named /\ History
    BY DEF Inv
<1>3. wire[c] \in Bytes /\ unsent[c] \in Bytes
    BY <1>2, TypesNow
<1>4. /\ left \in Bytes /\ <<wire[c][1], wire[c][2], wire[c][3]>> \in Bytes
      /\ <<wire[c][1], wire[c][2], wire[c][3]>> \o left = wire[c]
      /\ wire[c][2] \in Nat /\ wire[c][3] \in Nat
  <2>1. wire[c][2] \in Nat /\ wire[c][3] \in Nat
    <3>1. 2 \in 1 .. Len(wire[c]) /\ 3 \in 1 .. Len(wire[c])
        BY <1>1, <1>2, TypesNow
    <3>2. wire[c] \in [1 .. Len(wire[c]) -> Nat]
        BY <1>3, LenProperties, Zenon DEF Bytes
    <3>. QED
        BY <3>1, <3>2, Zenon
  <2>. QED
      BY <1>1, <1>3, <2>1, Rejoined
<1>. HIDE DEF left
<1>5. Types'
  <2>1. wire[c][3] <= MaxPacket => h \in [type : Nat, length : 0 .. MaxPacket]
      BY <1>4
  <2>. HIDE DEF h
  <2>2. head' \in [Conn -> [type : Nat, length : 0 .. MaxPacket]]
      BY <1>1, <1>2, <2>1 DEF Types
  <2>. QED
      BY <1>1, <1>2, <1>4, <2>2 DEF Types, Reading, engine
<1>6. pc'[c] \in {"payload", "closing"} /\ \A d \in Conn \ {c} : pc'[d] = pc[d]
    BY <1>1, <1>2 DEF Types
<1>7. Named'
    BY <1>1, <1>2, <1>6 DEF Named, Types
<1>8. InStep(c)'
  <2>1. CASE pc'[c] = "closing"
      BY <1>1, <1>2, <2>1 DEF InStep, Handled, Reading
  <2>2. CASE pc'[c] = "payload"
    <3>1. wire[c][1] = Magic /\ head'[c] = h /\ wire'[c] = left
        BY <1>1, <1>2, <2>2 DEF Types
    <3>. DEFINE front == <<wire[c][1], wire[c][2], wire[c][3]>>
    <3>2. Stream(c)' = front \o (left \o unsent[c])
      <4>1. <<Magic, head'[c].type, head'[c].length>> = front
          BY <3>1
      <4>2. unsent'[c] = unsent[c]
          BY <1>1
      <4>. HIDE DEF front
      <4>. QED
          BY <2>2, <3>1, <4>1, <4>2 DEF Stream
    <3>3. Stream(c)' = wire[c] \o unsent[c]
      <4>1. front \in Bytes /\ left \in Bytes /\ unsent[c] \in Bytes /\ front \o left = wire[c]
          BY <1>3, <1>4
      <4>. HIDE DEF front
      <4>2. (front \o left) \o unsent[c] = front \o (left \o unsent[c])
          BY <4>1, Regroup
      <4>. QED
          BY <3>2, <4>1, <4>2
    <3>4. Stream(c) = wire[c] \o unsent[c]
      <4>1. wire[c] \o unsent[c] \in Bytes
          BY <1>3, Concat
      <4>. QED
          BY <1>1, <4>1, Concat DEF Stream
    <3>. QED
        BY <1>1, <1>2, <3>3, <3>4 DEF InStep, Handled, Reading
  <2>. QED
      BY <1>6, <2>1, <2>2
<1>9. Handled(c)'
    BY <1>1, <1>2, <1>6, <1>8 DEF Handled, Unborn, Buffered, InBuffer
<1>10. History'
    BY <1>1, <1>2, SameHistory
<1>11. \A d \in Conn \ {c} : head'[d] = head[d] /\ wire'[d] = wire[d]
    BY <1>1, <1>2 DEF Types
<1>. QED
    BY <1>1, <1>5, <1>6, <1>7, <1>9, <1>10, <1>11, OneAtATime

\* The handler goes on or gives up.
LEMMA MovesOnInv == ASSUME Inv, NEW c \in Conn, Drained(c) \/ Stop(c) PROVE Inv'
<1>1. /\ pc[c] \in Reading
      /\ \/ pc[c] = "drain" /\ ~paused[c] /\ pc' = [pc EXCEPT ![c] = "header"]
         \/ pc' = [pc EXCEPT ![c] = "closing"]
      /\ UNCHANGED <<head, registry, answers, paused, engine, side, unsent, asked, taken,
                     wire>>
    BY DEF Drained, Stop, Wait, client, Reading
<1>2. Types /\ Handled(c) /\ Named /\ History
    BY DEF Inv
<1>3. Types'
    BY <1>1, <1>2 DEF Types, Reading, engine
<1>4. /\ pc'[c] \in {"header", "closing"} /\ \A d \in Conn \ {c} : pc'[d] = pc[d]
      /\ pc'[c] = "header" => pc[c] = "drain" /\ ~paused[c]
    BY <1>1, <1>2 DEF Types
<1>5. Named'
    BY <1>1, <1>2, <1>4 DEF Named, Types
<1>6. InStep(c)'
    BY <1>1, <1>2, <1>4 DEF InStep, Handled, Reading, Stream
<1>7. Handled(c)'
    BY <1>1, <1>2, <1>4, <1>6 DEF Handled, Unborn, Buffered, InBuffer
<1>8. History'
    BY <1>1, <1>2, SameHistory
<1>. QED
    BY <1>1, <1>3, <1>4, <1>5, <1>7, <1>8, OneAtATime

LEMMA FinishInv == ASSUME Inv, NEW c \in Conn, Finish(c) PROVE Inv'
<1>1. /\ pc[c] = "closing" /\ pc' = [pc EXCEPT ![c] = "closed"]
      /\ registry' = [registry EXCEPT ![Peer[c]] = None]
      /\ UNCHANGED <<head, answers, paused, engine, side, unsent, asked, taken, wire>>
    BY DEF Finish, Forgotten, Wait, client
<1>2. Types /\ Handled(c) /\ Named /\ History
    BY DEF Inv
<1>3. Types'
    BY <1>1, <1>2 DEF Types, Reading, engine, Names
<1>4. pc'[c] = "closed" /\ \A d \in Conn \ {c} : pc'[d] = pc[d]
    BY <1>1, <1>2 DEF Types
<1>5. Named'
  <2>1. registry'[Peer[c]] = None /\ \A a \in Names \ {Peer[c]} : registry'[a] = registry[a]
      BY <1>1, <1>2 DEF Types, Names
  <2>2. \A a \in Names : registry[a] \in Conn \cup {None}
      BY <1>2 DEF Types
  <2>3. \A a \in Names : registry'[a] # None =>
            registry'[a] = registry[a] /\ registry[a] \in Conn /\ registry[a] # c
      BY <1>2, <2>1, <2>2 DEF Named
  <2>. QED
      BY <1>2, <1>4, <2>3 DEF Named
<1>6. Handled(c)'
    BY <1>1, <1>2, <1>4 DEF Handled, Unborn, Buffered, InBuffer, InStep, Reading
<1>7. History'
    BY <1>1, <1>2, SameHistory
<1>. QED
    BY <1>1, <1>3, <1>4, <1>5, <1>6, <1>7, OneAtATime

\* A piece arrives: the bytes on their way are the same.
LEMMA TransmitInv == ASSUME Inv, NEW c \in Conn, Transmit(c) PROVE Inv'
<1>. DEFINE m == Min({Piece, Len(unsent[c])})
            piece == SubSeq(unsent[c], 1, m)
            left == SubSeq(unsent[c], Piece + 1, Len(unsent[c]))
<1>1. /\ side[c] = "open" /\ unsent[c] # << >>
      /\ wire' = [wire EXCEPT ![c] = wire[c] \o piece]
      /\ unsent' = [unsent EXCEPT ![c] = left]
      /\ UNCHANGED <<pc, head, registry, answers, paused, engine, side, asked, taken>>
    BY DEF Transmit, handler, Inv, Types
<1>2. Types /\ Handled(c) /\ Named /\ History
    BY DEF Inv
<1>3. wire[c] \in Bytes /\ unsent[c] \in Bytes /\ Len(unsent[c]) \in Nat
    BY <1>2, TypesNow
<1>4. piece \in Bytes /\ left \in Bytes /\ piece \o left = unsent[c]
    BY <1>3, Piecewise, Constants
<1>. HIDE DEF m, piece, left
<1>5. wire[c] \o piece \in Bytes /\ (wire[c] \o piece) \o left = wire[c] \o unsent[c]
  <2>1. wire[c] \o piece \in Bytes
      BY <1>3, <1>4, Concat
  <2>2. (wire[c] \o piece) \o left = wire[c] \o (piece \o left)
      BY <1>3, <1>4, Regroup
  <2>. QED
      BY <1>4, <2>1, <2>2
<1>6. Types'
    BY <1>1, <1>2, <1>4, <1>5 DEF Types, engine
<1>7. /\ wire'[c] \o unsent'[c] = wire[c] \o unsent[c]
      /\ \A d \in Conn \ {c} : wire'[d] = wire[d] /\ unsent'[d] = unsent[d]
    BY <1>1, <1>2, <1>5 DEF Types
<1>8. Named'
    BY <1>1, <1>2 DEF Named
<1>9. InStep(c)'
  <2>1. Stream(c)' = Stream(c)
      BY <1>1, <1>7 DEF Stream
  <2>. QED
      BY <1>1, <1>2, <2>1 DEF InStep, Handled
<1>10. Handled(c)'
    BY <1>1, <1>2, <1>9 DEF Handled, Unborn, Buffered, InBuffer
<1>11. History'
    BY <1>1, <1>2, SameHistory
<1>. QED
    BY <1>1, <1>6, <1>7, <1>8, <1>10, <1>11, OneAtATime

LEMMA EndInv == ASSUME Inv, NEW c \in Conn, End(c) PROVE Inv'
<1>1. /\ pc[c] # "new"
      /\ \/ side' = [side EXCEPT ![c] = "shut"] /\ side[c] = "open"
            /\ unsent' = unsent /\ wire' = wire
         \/ /\ side' = [side EXCEPT ![c] = "reset"]
            /\ unsent' = [unsent EXCEPT ![c] = << >>] /\ wire' = [wire EXCEPT ![c] = << >>]
      /\ UNCHANGED <<pc, head, registry, answers, paused, engine, asked, taken>>
    BY DEF End, handler
<1>2. Types /\ Handled(c) /\ Named /\ History
    BY DEF Inv
<1>3. << >> \in Bytes
    BY DEF Bytes
<1>4. Types'
  <2>1. side' \in [Conn -> {"open", "shut", "reset"}]
      BY <1>1, <1>2 DEF Types
  <2>2. \A f \in [Conn -> Bytes], x \in Bytes : [f EXCEPT ![c] = x] \in [Conn -> Bytes]
      OBVIOUS
  <2>3. unsent \in [Conn -> Bytes] /\ wire \in [Conn -> Bytes]
      BY <1>2 DEF Types
  <2>4. unsent' \in [Conn -> Bytes] /\ wire' \in [Conn -> Bytes]
    <3>1. \/ unsent' = unsent /\ wire' = wire
          \/ \E x, y \in Bytes : /\ unsent' = [unsent EXCEPT ![c] = x]
                               /\ wire' = [wire EXCEPT ![c] = y]
        BY <1>1, <1>3, Zenon
    <3>. QED
        BY <2>2, <2>3, <3>1, Zenon
  <2>. QED
      BY <1>1, <1>2, <2>1, <2>4 DEF Types, engine
<1>5. /\ side'[c] = "reset" \/ (side[c] = "open" /\ unsent' = unsent /\ wire' = wire)
      /\ \A d \in Conn \ {c} :
            side'[d] = side[d] /\ wire'[d] = wire[d] /\ unsent'[d] = unsent[d]
  <2>1. /\ DOMAIN side = Conn /\ DOMAIN unsent = Conn /\ DOMAIN wire = Conn
      BY <1>2 DEF Types
  <2>. QED
      BY <1>1, <2>1
<1>6. Named'
    BY <1>1, <1>2 DEF Named
<1>7. Handled(c)'
    BY <1>1, <1>2, <1>5 DEF Handled, Unborn, Buffered, InBuffer, InStep, Stream
<1>8. History'
    BY <1>1, <1>2, SameHistory
<1>. QED
    BY <1>1, <1>4, <1>5, <1>6, <1>7, <1>8, OneAtATime

\* An answer leaves: drain goes on once Low are left, which is room enough.
LEMMA TakeInv == ASSUME Inv, NEW c \in Conn, Take(c) PROVE Inv'
<1>1. /\ InBuffer(c) > 0
      /\ taken' = [taken EXCEPT ![c] = taken[c] + 1]
      /\ paused' = [paused EXCEPT ![c] = paused[c] /\ InBuffer(c) - 1 > Low]
      /\ UNCHANGED <<pc, head, registry, answers, engine, side, unsent, asked, wire>>
    BY DEF Take, handler, Inv, Types
<1>2. Types /\ Handled(c) /\ Named /\ History
    BY DEF Inv
<1>3. /\ InBuffer(c) \in Nat /\ taken[c] \in Nat /\ Len(answers[c]) \in Nat
      /\ InBuffer(c) = Len(answers[c]) - taken[c]
    BY <1>2, TypesNow DEF InBuffer
<1>4. /\ taken'[c] = taken[c] + 1 /\ paused'[c] = (paused[c] /\ InBuffer(c) - 1 > Low)
      /\ \A d \in Conn \ {c} : taken'[d] = taken[d] /\ paused'[d] = paused[d]
    BY <1>1, <1>2 DEF Types
<1>5. Types'
  <2>1. \A d \in Conn : taken'[d] <= Len(answers'[d])
    <3>1. taken[c] + 1 <= Len(answers[c])
        BY <1>1, <1>3
    <3>. QED
        BY <1>1, <1>2, <1>4, <3>1 DEF Types
  <2>2. taken' \in [Conn -> Nat] /\ paused' \in [Conn -> BOOLEAN]
      BY <1>1, <1>2, <1>3 DEF Types
  <2>. QED
      BY <1>1, <1>2, <2>1, <2>2 DEF Types, engine
<1>6. Named'
    BY <1>1, <1>2 DEF Named
<1>7. Buffered(c)'
  <2>1. InBuffer(c)' = InBuffer(c) - 1
      BY <1>1, <1>3, <1>4 DEF InBuffer
  <2>2. Buffered(c)
      BY <1>2 DEF Handled
  <2>3. ~paused'[c] => InBuffer(c) - 1 <= High
      BY <1>3, <1>4, <2>2, Constants DEF Buffered
  <2>4. InBuffer(c) - 1 <= High + 1
      BY <1>3, <2>2, Constants DEF Buffered
  <2>5. ~paused[c] => ~paused'[c]
      BY <1>4
  <2>. QED
      BY <1>1, <2>1, <2>2, <2>3, <2>4, <2>5 DEF Buffered
<1>8. Handled(c)'
    BY <1>1, <1>2, <1>7 DEF Handled, Unborn, InStep, Stream
<1>9. History'
    BY <1>1, <1>2, SameHistory
<1>. QED
    BY <1>1, <1>4, <1>5, <1>6, <1>8, <1>9, OneAtATime

-----------------------------------------------------------------------------
(* A client asks. *)

\* What a client has heard of a key, the engine holds.
LEMMA HeardFacts ==
    ASSUME Inv, NEW k
    PROVE  Heard(k) \in Nat /\ (Heard(k) # 0 => Holds(k, Heard(k)))
<1>. DEFINE ids == UNION {{answers[c][j].id : j \in 1 .. taken[c]} : c \in Conn}
            mine == {id \in ids \ {0} : entry[id].key = k}
            T == {0} \cup mine
<1>1. Len(entry) \in Nat
    BY DEF Inv, Types
<1>2. ASSUME NEW id \in mine PROVE id \in 0 .. Len(entry) /\ Holds(k, id)
  <2>0. PICK c \in Conn : \E j \in 1 .. taken[c] : id = answers[c][j].id
      OBVIOUS
  <2>1. PICK j \in 1 .. taken[c] : id = answers[c][j].id
      BY <2>0
  <2>2. j \in 1 .. Len(answers[c])
      BY TypesNow DEF Inv
  <2>3. /\ answers[c][j].id \in 0 .. Len(entry)
        /\ answers[c][j].id # 0 => Holds(entry[answers[c][j].id].key, answers[c][j].id)
      BY <2>2 DEF Inv, History, Newest
  <2>. QED
      BY <2>1, <2>3
<1>3. Heard(k) = Max(T)
    BY DEF Heard
<1>. HIDE DEF mine
<1>4. T \in SUBSET (0 .. Len(entry)) /\ T # {}
    BY <1>1, <1>2
<1>5. Max(T) \in T
    BY <1>1, <1>4, Greatest
<1>. QED
    BY <1>2, <1>3, <1>4, <1>5

LEMMA SendInv == ASSUME Inv, NEW c \in Conn, NEW f \in Frame, Send(c, f) PROVE Inv'
<1>. DEFINE q == [frame |-> f, known |-> Heard(f.key)]
            n == Len(asked[c]) + 1
<1>1. /\ pc[c] \in Reading /\ side[c] = "open" /\ unsent[c] = << >>
      /\ unsent' = [unsent EXCEPT ![c] = FrameBytes(f)]
      /\ asked' = [asked EXCEPT ![c] = Append(asked[c], q)]
      /\ UNCHANGED <<pc, head, registry, answers, paused, engine, side, taken, wire>>
    BY DEF Send, SendBytes, handler, Reading, Inv, Types
<1>2. Types /\ Handled(c) /\ Named /\ History
    BY DEF Inv
<1>3. /\ q \in Question /\ q.frame = f /\ q.known = Heard(f.key)
      /\ q.known # 0 => Holds(f.key, q.known)
    BY HeardFacts DEF Question
<1>. HIDE DEF q
<1>4. FrameBytes(f) \in Bytes /\ wire[c] \in Bytes /\ << >> \in Bytes
    BY <1>2, FrameFacts, TypesNow, Concat
<1>5. /\ asked[c] \in Seq(Question) /\ Len(asked[c]) \in Nat /\ Len(answers[c]) \in Nat
      /\ Len(answers[c]) <= Len(asked[c])
    BY <1>2, TypesNow DEF Handled, InStep
<1>6. /\ Append(asked[c], q) \in Seq(Question) /\ Len(Append(asked[c], q)) = n
      /\ Append(asked[c], q)[n] = q
      /\ \A i \in 1 .. Len(asked[c]) : Append(asked[c], q)[i] = asked[c][i]
    BY <1>3, <1>5
<1>7. /\ asked'[c] = Append(asked[c], q) /\ unsent'[c] = FrameBytes(f)
      /\ \A d \in Conn \ {c} : asked'[d] = asked[d] /\ unsent'[d] = unsent[d]
    BY <1>1, <1>2 DEF Types
<1>8. Types'
  <2>1. unsent' \in [Conn -> Bytes]
      BY <1>1, <1>2, <1>4 DEF Types
  <2>2. asked' \in [Conn -> Seq(Question)]
      BY <1>1, <1>2, <1>6 DEF Types
  <2>. QED
      BY <1>1, <1>2, <2>1, <2>2 DEF Types, engine
<1>9. Named'
    BY <1>1, <1>2 DEF Named
<1>10. InStep(c)'
  <2>. DEFINE front == IF pc[c] = "payload" THEN <<Magic, head[c].type, head[c].length>>
                       ELSE << >>
  <2>1. front \in Bytes
    <3>1. head[c].type \in Nat /\ head[c].length \in Nat
        BY <1>2, TypesNow, Constants
    <3>. QED
        BY <1>4, <3>1 DEF Bytes, Magic
  <2>2. Stream(c) = front \o (wire[c] \o << >>)
        /\ Stream(c)' = front \o (wire[c] \o FrameBytes(f))
      BY <1>1, <1>7 DEF Stream
  <2>. HIDE DEF front
  <2>3. Stream(c) = front \o wire[c] /\ Stream(c) \in Bytes
      BY <1>4, <2>1, <2>2, Concat
  <2>4. (front \o wire[c]) \o FrameBytes(f) = front \o (wire[c] \o FrameBytes(f))
      BY <1>4, <2>1, Regroup
  <2>5. Framed(Stream(c), asked[c], Len(answers[c]))
      BY <1>1, <1>2 DEF Handled, InStep
  <2>6. Framed(Stream(c) \o FrameBytes(f), Append(asked[c], q), Len(answers[c]))
      BY <1>3, <1>5, <2>3, <2>5, OneMore
  <2>7. Stream(c)' = Stream(c) \o FrameBytes(f)
      BY <2>2, <2>3, <2>4
  <2>8. Len(answers[c]) <= Len(Append(asked[c], q))
      BY <1>5, <1>6
  <2>. QED
      BY <1>1, <1>7, <2>6, <2>7, <2>8 DEF InStep
<1>11. Handled(c)'
    BY <1>1, <1>2, <1>10 DEF Handled, Unborn, Buffered, InBuffer, Reading
<1>12. History'
  <2>1. UNCHANGED <<data, entry, errors, answers>>
      BY <1>1 DEF engine
  <2>2. Mapped' /\ Newest'
      BY <1>2, <2>1 DEF History, Mapped, Newest, Holds
  <2>3. KnownHeld'
    <3>1. ASSUME NEW d \in Conn, NEW i \in 1 .. Len(asked'[d]), asked'[d][i].known # 0
          PROVE  Holds(asked'[d][i].frame.key, asked'[d][i].known)
      <4>1. CASE d = c /\ i = n
          BY <1>3, <1>6, <1>7, <3>1, <4>1
      <4>2. CASE ~ (d = c /\ i = n)
        <5>1. i \in 1 .. Len(asked[d]) /\ asked'[d][i] = asked[d][i]
          <6>1. CASE d = c
            <7>1. i \in 1 .. n /\ i # n
                BY <1>6, <1>7, <4>2, <6>1
            <7>2. i \in 1 .. Len(asked[c])
                BY <1>5, <7>1 DEF n
            <7>. QED
                BY <1>6, <1>7, <6>1, <7>2
          <6>2. CASE d # c
              BY <1>7, <6>2
          <6>. QED
              BY <6>1, <6>2
        <5>. QED
            BY <1>2, <3>1, <5>1 DEF History, KnownHeld
      <4>. QED
          BY <4>1, <4>2
    <3>. QED
        BY <2>1, <3>1 DEF KnownHeld, Holds
  <2>4. ASSUME NEW d \in Conn, NEW i \in 1 .. Len(answers[d])
        PROVE  asked'[d][i] = asked[d][i]
    <3>1. CASE d = c
      <4>1. i \in 1 .. Len(asked[c])
          BY <1>5, <3>1
      <4>. QED
          BY <1>6, <1>7, <3>1, <4>1
    <3>2. CASE d # c
        BY <1>7, <3>2
    <3>. QED
        BY <3>1, <3>2
  <2>5. Matched'
      BY <1>2, <2>1, <2>4 DEF History, Matched, Matches
  <2>6. Recent'
      BY <1>2, <2>1, <2>4 DEF History, Recent
  <2>. QED
      BY <2>2, <2>3, <2>5, <2>6 DEF History
<1>. QED
    BY <1>1, <1>7, <1>8, <1>9, <1>11, <1>12, OneAtATime

-----------------------------------------------------------------------------
(* A command runs. *)

\* The payload that is read is that of the next frame sent.
LEMMA ProcessReads ==
    ASSUME Inv, NEW c \in Conn, Process(c)
    PROVE  LET n == Len(answers[c]) + 1
               f == asked[c][n].frame
               left == SubSeq(wire[c], head[c].length + 1, Len(wire[c]))
           IN  /\ n \in 1 .. Len(asked[c]) /\ f \in Frame
               /\ f.op \notin {"NOISE", "HUGE"}
               /\ head[c].type = TypeOf(f)
               /\ SubSeq(wire[c], 1, head[c].length) = Payload(f)
               /\ left \in Bytes
               /\ Framed(left \o unsent[c], asked[c], n)
<1>. DEFINE p == Len(answers[c])
            fs == asked[c]
            f == asked[c][p + 1].frame
            h == <<Magic, head[c].type, head[c].length>>
            s == wire[c]
            t == unsent[c]
<1>1. pc[c] = "payload" /\ side[c] # "reset" /\ Len(s) >= head[c].length
    BY DEF Process, Read
<1>2. Types /\ Handled(c)
    BY DEF Inv
<1>3. /\ s \in Bytes /\ t \in Bytes /\ fs \in Seq(Question) /\ p \in Nat
      /\ head[c].type \in Nat /\ head[c].length \in Nat /\ head[c].length <= MaxPacket
    BY <1>2, TypesNow, Constants
<1>4. /\ h \in Bytes /\ Len(h) = 3 /\ h # << >>
      /\ h[1] = Magic /\ h[2] = head[c].type /\ h[3] = head[c].length
    BY <1>3 DEF Bytes, Magic
<1>5. Stream(c) = h \o (s \o t) /\ Framed(Stream(c), fs, p)
    BY <1>1, <1>2 DEF Stream, Handled, InStep, Reading
<1>. HIDE DEF h
<1>6. s \o t \in Bytes /\ Stream(c) \in Bytes
    BY <1>3, <1>4, <1>5, Concat
<1>7. Stream(c) # << >>
    BY <1>4, <1>5, <1>6 DEF Bytes
<1>. HIDE DEF p, fs, s, t
<1>8. /\ p + 1 \in 1 .. Len(fs)
      /\ \E rest \in Bytes : /\ Stream(c) = FrameBytes(fs[p + 1].frame) \o rest
                             /\ Framed(rest, fs, p + 1)
    BY <1>3, <1>5, <1>6, <1>7, NextFrame
<1>9. PICK rest \in Bytes : /\ Stream(c) = FrameBytes(f) \o rest
                            /\ Framed(rest, fs, p + 1)
    BY <1>8 DEF fs
<1>10. f \in Frame
  <2>1. fs[p + 1] \in Question
      BY <1>3, <1>8
  <2>. QED
      BY <2>1 DEF Question, fs
<1>. HIDE DEF f
<1>11. /\ Payload(f) \in Bytes /\ Header(f) \in Bytes /\ Len(Header(f)) = 3
       /\ FrameBytes(f) = Header(f) \o Payload(f)
    BY <1>10, FrameFacts
<1>12. Payload(f) \o rest \in Bytes
       /\ h \o (s \o t) = Header(f) \o (Payload(f) \o rest)
  <2>1. (Header(f) \o Payload(f)) \o rest = Header(f) \o (Payload(f) \o rest)
      BY <1>9, <1>11, Regroup
  <2>. QED
      BY <1>5, <1>9, <1>11, <2>1, Concat
<1>13. h = Header(f)
  <2>. DEFINE u == Header(f)
              w == Payload(f) \o rest
              st == s \o t
  <2>0. u \in Bytes /\ w \in Bytes /\ st \in Bytes /\ h \o st = u \o w /\ Len(h) >= Len(u)
      BY <1>4, <1>6, <1>11, <1>12
  <2>1. SubSeq(h, 1, Len(Header(f))) = Header(f)
    <3>. HIDE DEF u, w, st
    <3>1. SubSeq(h, 1, Len(u)) = u
        BY <1>4, <2>0, CutOff
    <3>. QED
        BY <3>1 DEF u
  <2>2. SubSeq(h, 1, Len(Header(f))) = h
      BY <1>4, <1>11 DEF Bytes
  <2>. QED
      BY <2>1, <2>2
<1>14. s \o t = Payload(f) \o rest
    BY <1>4, <1>6, <1>12, <1>13, Cancel
<1>15. /\ Magic = IF f.op = "NOISE" THEN Magic + 1 ELSE Magic
       /\ head[c].type = TypeOf(f)
       /\ head[c].length = IF f.op = "HUGE" THEN MaxPacket + 1 ELSE Len(Payload(f))
    BY <1>4, <1>13 DEF Header
<1>16. f.op \notin {"NOISE", "HUGE"} /\ head[c].length = Len(Payload(f))
  <2>1. Magic # Magic + 1
      BY DEF Magic
  <2>2. head[c].length # MaxPacket + 1
      BY <1>3, Constants
  <2>. QED
      BY <1>15, <2>1, <2>2
<1>17. /\ SubSeq(s, 1, head[c].length) = Payload(f)
       /\ SubSeq(s, head[c].length + 1, Len(s)) \in Bytes
       /\ SubSeq(s, head[c].length + 1, Len(s)) \o t = rest
  <2>1. Len(s) >= Len(Payload(f))
      BY <1>1, <1>16 DEF s
  <2>. DEFINE u == Payload(f)
  <2>2. u \in Bytes /\ s \o t = u \o rest /\ Len(s) >= Len(u) /\ head[c].length = Len(u)
      BY <1>11, <1>14, <1>16, <2>1
  <2>. HIDE DEF u
  <2>3. /\ SubSeq(s, 1, Len(u)) = u
        /\ SubSeq(s, Len(u) + 1, Len(s)) \o t = rest
      BY <1>3, <1>9, <2>2, CutOff
  <2>4. Len(u) \in Nat /\ Len(u) <= Len(s)
      BY <1>3, <2>2 DEF Bytes
  <2>5. SubSeq(s, Len(u) + 1, Len(s)) \in Bytes
      BY <1>3, <2>4, Tailed
  <2>. QED
      BY <2>2, <2>3, <2>5 DEF u
<1>. QED
    BY <1>8, <1>9, <1>10, <1>15, <1>16, <1>17, Zenon DEF p, fs, f, s, t

\* The payload of a SET falls apart into its key and its value, that of one with
\* no separator does not.
LEMMA SetPayload ==
    ASSUME NEW f \in Frame, f.op = "SET"
    PROVE  LET p == Payload(f)
           IN  /\ FirstSeparator(p) = Len(f.key) + 1
               /\ SubSeq(p, 1, Len(f.key)) = f.key
               /\ SubSeq(p, Len(f.key) + 2, Len(p)) = f.value
<1>. DEFINE k == f.key
            v == f.value
            x == <<Separator>>
            p == Payload(f)
<1>1. /\ k \in Bytes /\ v \in Bytes /\ x \in Bytes /\ Len(x) = 1 /\ x[1] = Separator
      /\ Len(k) \in Nat /\ Len(v) \in Nat /\ Separator \notin ToSet(k)
  <2>1. k \in Bytes /\ v \in Bytes /\ Separator \in Nat /\ Separator \notin ToSet(k)
      BY Constants
  <2>. QED
      BY <2>1 DEF Bytes
<1>2. p = (k \o x) \o v
    BY DEF Payload
<1>3. \A i \in 1 .. Len(k) : k[i] # Separator
    BY <1>1 DEF ToSet, Bytes
<1>. HIDE DEF k, v, x, p
<1>4. /\ k \o x \in Bytes /\ Len(k \o x) = Len(k) + 1 /\ (k \o x)[Len(k) + 1] = Separator
      /\ \A i \in 1 .. Len(k) : (k \o x)[i] = k[i]
  <2>1. Len(k) + 1 \in Nat /\ Len(k) + Len(x) = Len(k) + 1
      BY <1>1
  <2>2. /\ k \o x \in Bytes /\ Len(k \o x) = Len(k) + 1
        /\ \A i \in 1 .. Len(k) + 1 :
              (k \o x)[i] = IF i <= Len(k) THEN k[i] ELSE x[i - Len(k)]
    <3>1. k \in Bytes /\ x \in Bytes
        BY <1>1
    <3>. QED
        BY <2>1, <3>1, Joined, Zenon
  <2>3. /\ Len(k) + 1 \in 1 .. Len(k) + 1 /\ ~ (Len(k) + 1 <= Len(k))
        /\ (Len(k) + 1) - Len(k) = 1
        /\ \A i \in 1 .. Len(k) : i \in 1 .. Len(k) + 1 /\ i <= Len(k)
      BY <1>1
  <2>4. (k \o x)[Len(k) + 1] = x[1]
      BY <2>2, <2>3, Zenon
  <2>5. \A i \in 1 .. Len(k) : (k \o x)[i] = k[i]
      BY <2>2, <2>3, Zenon
  <2>. QED
      BY <1>1, <2>2, <2>4, <2>5, Zenon
<1>. DEFINE u == k \o x
            m == Len(k) + 1
<1>5. u \in Bytes /\ Len(u) = m /\ m \in Nat /\ p = u \o v
    BY <1>1, <1>2, <1>4
<1>6. u[m] = Separator /\ \A i \in 1 .. m - 1 : u[i] # Separator
    BY <1>1, <1>3, <1>4
<1>. HIDE DEF u
<1>7. /\ p \in Bytes /\ Len(p) = m + Len(v)
      /\ \A i \in 1 .. m : p[i] = u[i]
  <2>. DEFINE n == m + Len(v)
  <2>1. n \in Nat /\ Len(u) + Len(v) = n /\ \A i \in 1 .. m : i \in 1 .. n /\ i <= Len(u)
      BY <1>1, <1>5
  <2>. HIDE DEF m, n
  <2>2. /\ u \o v \in Bytes /\ Len(u \o v) = n
        /\ \A i \in 1 .. n : (u \o v)[i] = IF i <= Len(u) THEN u[i] ELSE v[i - Len(u)]
      BY <1>1, <1>5, <2>1, Joined
  <2>. QED
      BY <1>5, <2>1, <2>2 DEF n
<1>8. FirstSeparator(p) = m
  <2>1. m \in 1 .. Len(p) /\ m \in 1 .. m /\ \A i \in 1 .. m - 1 : i \in 1 .. m
      BY <1>1, <1>7
  <2>2. p[m] = Separator /\ \A i \in 1 .. m - 1 : p[i] # Separator
      BY <1>6, <1>7, <2>1
  <2>. HIDE DEF m
  <2>. QED
      BY <1>7, <2>1, <2>2, FirstIs
<1>9. SubSeq(p, 1, Len(k)) = k
  <2>1. /\ Len(k) <= Len(p)
        /\ \A i \in 1 .. Len(k) : i \in 1 .. m
      BY <1>1, <1>7
  <2>2. /\ SubSeq(p, 1, Len(k)) \in Bytes /\ Len(SubSeq(p, 1, Len(k))) = Len(k)
        /\ \A i \in 1 .. Len(k) : SubSeq(p, 1, Len(k))[i] = p[i]
      BY <1>1, <1>7, <2>1, Headed
  <2>3. \A i \in 1 .. Len(k) : p[i] = k[i]
      BY <1>4, <1>7, <2>1 DEF u
  <2>. HIDE DEF m
  <2>. QED
      BY <1>1, <2>2, <2>3, Same
<1>10. SubSeq(p, Len(k) + 2, Len(p)) = v
  <2>. DEFINE z == << >>
  <2>1. /\ p \in Bytes /\ z \in Bytes /\ u \in Bytes /\ v \in Bytes
        /\ p \o z = u \o v /\ Len(p) >= Len(u)
      BY <1>1, <1>5, <1>7, Concat
  <2>2. SubSeq(p, Len(u) + 1, Len(p)) \o z = v
    <3>. HIDE DEF z, m
    <3>. QED
        BY <2>1, CutOff
  <2>3. Len(u) \in Nat /\ Len(u) <= Len(p)
      BY <1>1, <1>5, <1>7
  <2>4. SubSeq(p, Len(u) + 1, Len(p)) \in Bytes
      BY <1>7, <2>3, Tailed
  <2>5. SubSeq(p, Len(u) + 1, Len(p)) = v
      BY <2>2, <2>4, Concat
  <2>6. Len(u) + 1 = Len(k) + 2
      BY <1>1, <1>5
  <2>. QED
      BY <2>5, <2>6
<1>. QED
    BY <1>8, <1>9, <1>10 DEF k, v, p

LEMMA UnseparatedPayload ==
    ASSUME NEW f \in Frame, f.op = "UNSEPARATED"
    PROVE  FirstSeparator(Payload(f)) = 0
<1>1. Payload(f) = <<1>> /\ <<1>> \in Bytes
    BY DEF Payload, Bytes
<1>2. \A i \in 1 .. Len(<<1>>) : <<1>>[i] # Separator
    BY Constants
<1>. QED
    BY <1>1, <1>2, NoneIs

\* What running frame f does to the engine, with the answer a that it gives.
Effect(f, a) ==
    /\ a.read \in 0 .. Len(entry)
    /\ \/ UNCHANGED <<data, entry, errors>> /\ a.id = 0 /\ a.kind # "OK_SET"
       \/ /\ entry' = Append(entry, [key |-> f.key, value |-> f.value])
          /\ \/ data' = Stored(f.key, Len(entry) + 1) /\ errors' = errors
                /\ a.id = Len(entry) + 1
             \/ data' = data /\ errors' = errors + 1 /\ errors' \in 0 .. MaxErrors
                /\ a.id = 0 /\ a.kind # "OK_SET"
    /\ f.op = "GET" /\ Decodes(f.key) =>
          a.read = IF f.key \in DOMAIN data THEN data[f.key] ELSE 0

Run(c, f, a) ==
    /\ answers' = [answers EXCEPT ![c] = Append(answers[c], a)]
    /\ paused' = [paused EXCEPT ![c] = paused[c] \/ InBuffer(c) + 1 > High]
    /\ pc' = [pc EXCEPT ![c] = "drain"]
    /\ Effect(f, a)
    /\ Matches(f, a)'

LEMMA ReplyFacts ==
    ASSUME Types, NEW c \in Conn, NEW a, Reply(c, a)
    PROVE  /\ answers' = [answers EXCEPT ![c] = Append(answers[c], a)]
           /\ paused' = [paused EXCEPT ![c] = paused[c] \/ InBuffer(c) + 1 > High]
           /\ pc' = [pc EXCEPT ![c] = "drain"]
BY DEF Reply, Wait, AfterWrite, Types

LEMMA InResponse ==
    ASSUME NEW kind \in Kinds, NEW id \in Nat, NEW read \in Nat, NEW value \in Bytes
    PROVE  Answer(kind, id, read, value) \in Response
BY DEF Answer, Response

LEMMA PlainInResponse ==
    ASSUME NEW kind \in Kinds
    PROVE  Plain(kind) \in Response
<1>1. << >> \in Bytes
    BY DEF Bytes
<1>. QED
    BY <1>1, InResponse DEF Plain

LEMMA SetRuns ==
    ASSUME Inv, NEW c \in Conn, NEW f \in Frame, f.op = "SET", Set(c, Payload(f))
    PROVE  \E a \in Response : Run(c, f, a)
<1>. DEFINE id == Len(entry) + 1
            e == [key |-> f.key, value |-> f.value]
            err == Plain("ERR_SET")
<1>1. Types
    BY DEF Inv
<1>2. Len(entry) \in Nat /\ 0 \in 0 .. Len(entry) /\ << >> \in Bytes
    BY <1>1 DEF Types, Bytes
<1>3. PICK ok \in Response : ok = Answer("OK_SET", id, 0, << >>)
  <2>1. id \in Nat /\ 0 \in Nat /\ "OK_SET" \in Kinds
      BY <1>2 DEF Kinds
  <2>. HIDE DEF id
  <2>. QED
      BY <1>2, <2>1, InResponse
<1>4. ok.kind = "OK_SET" /\ ok.id = id /\ ok.read = 0
    BY <1>3 DEF Answer
<1>5. err \in Response
  <2>1. "ERR_SET" \in Kinds
      BY DEF Kinds
  <2>. QED
      BY <2>1, PlainInResponse
<1>6. err.kind = "ERR_SET" /\ err.id = 0 /\ err.read = 0
    BY DEF Answer, Plain
<1>. HIDE DEF err
<1>7. Len(f.key) \in Nat /\ Len(f.key) + 1 > 0 /\ Len(f.key) + 1 # 0
      /\ (Len(f.key) + 1) - 1 = Len(f.key) /\ (Len(f.key) + 1) + 1 = Len(f.key) + 2
  <2>1. f.key \in Bytes
      BY Constants
  <2>. QED
      BY <2>1 DEF Bytes
<1>8. IF Decodes(f.key) THEN Write(c, f.key, f.value) ELSE Reply(c, err) /\ UNCHANGED engine
  <2>1. FirstSeparator(Payload(f)) = Len(f.key) + 1
      BY SetPayload
  <2>2. SubSeq(Payload(f), 1, Len(f.key)) = f.key
      BY SetPayload
  <2>3. SubSeq(Payload(f), Len(f.key) + 2, Len(Payload(f))) = f.value
      BY SetPayload
  <2>. QED
      BY <1>7, <2>1, <2>2, <2>3 DEF Set, err
<1>9. CASE ~Decodes(f.key)
  <2>1. Reply(c, err) /\ UNCHANGED <<data, entry, errors>>
      BY <1>8, <1>9 DEF engine
  <2>2. Effect(f, err)
      BY <1>2, <1>6, <2>1 DEF Effect
  <2>3. Matches(f, err)'
      BY <1>6, <1>9 DEF Matches, Plain, err
  <2>. QED
      BY <1>1, <1>5, <2>1, <2>2, <2>3, ReplyFacts DEF Run
<1>10. CASE Decodes(f.key)
  <2>1. /\ entry' = Append(entry, e)
        /\ \/ data' = Stored(f.key, id) /\ Reply(c, ok) /\ UNCHANGED errors
           \/ /\ errors < MaxErrors /\ errors' = errors + 1 /\ Reply(c, err)
              /\ data' = data
      BY <1>3, <1>8, <1>10 DEF Write, err
  <2>2. e \in Text /\ entry \in Seq(Text)
      BY <1>1, Constants DEF Types, Text
  <2>3. entry'[id] = e
    <3>. HIDE DEF e
    <3>. QED
        BY <2>1, <2>2
  <2>4. CASE data' = Stored(f.key, id) /\ Reply(c, ok) /\ UNCHANGED errors
    <3>1. Effect(f, ok)
        BY <1>2, <1>4, <2>1, <2>4 DEF Effect
    <3>2. Matches(f, ok)'
        BY <1>4, <2>3 DEF Matches
    <3>. QED
        BY <1>1, <2>4, <3>1, <3>2, ReplyFacts DEF Run
  <2>5. CASE errors < MaxErrors /\ errors' = errors + 1 /\ Reply(c, err) /\ data' = data
    <3>1. errors \in 0 .. MaxErrors /\ MaxErrors \in Nat
        BY <1>1, Constants DEF Types
    <3>2. errors' \in 0 .. MaxErrors /\ errors' > 0
        BY <2>5, <3>1
    <3>3. Effect(f, err)
        BY <1>2, <1>6, <2>1, <2>5, <3>2 DEF Effect
    <3>4. Matches(f, err)'
        BY <1>6, <3>2 DEF Matches, err, Plain
    <3>. QED
        BY <1>1, <1>5, <2>5, <3>3, <3>4, ReplyFacts DEF Run
  <2>. QED
      BY <2>1, <2>4, <2>5
<1>. QED
    BY <1>9, <1>10

LEMMA GetRuns ==
    ASSUME Inv, NEW c \in Conn, NEW f \in Frame, f.op = "GET", Get(c, Payload(f))
    PROVE  \E a \in Response : Run(c, f, a)
<1>. DEFINE key == f.key
            id == IF key \in DOMAIN data THEN data[key] ELSE 0
            value == IF id = 0 THEN << >> ELSE entry[id].value
            kind == IF value = << >> THEN "ERR_NOT_FOUND" ELSE "VALUE"
            reply == IF Decodes(key) THEN Answer(kind, 0, id, value)
                     ELSE Plain("ERR_INTERNAL")
<1>1. Types /\ Mapped
    BY DEF Inv, History
<1>2. Len(entry) \in Nat /\ entry \in Seq(Text) /\ << >> \in Bytes
    BY <1>1 DEF Types, Bytes
<1>3. id \in 0 .. Len(entry) /\ id \in Nat
    BY <1>1, <1>2 DEF Mapped
<1>4. id # 0 => /\ entry[id] \in Text /\ entry[id].key = key
  <2>1. \A i \in 1 .. Len(entry) : entry[i] \in Text
      BY <1>2
  <2>2. id # 0 => id \in 1 .. Len(entry) /\ entry[id].key = key
      BY <1>1, <1>2 DEF Mapped
  <2>. QED
      BY <2>1, <2>2
<1>5. value \in Bytes
    BY <1>2, <1>4 DEF Text
<1>6. id # 0 => entry[id] = [key |-> key, value |-> value]
    BY <1>4 DEF Text
<1>7. Reply(c, reply) /\ UNCHANGED engine
    BY DEF Get, Payload
<1>. HIDE DEF id, value
<1>8. kind \in Kinds /\ "ERR_INTERNAL" \in Kinds /\ 0 \in Nat
    BY DEF Kinds
<1>. HIDE DEF kind
<1>9. Answer(kind, 0, id, value) \in Response /\ Plain("ERR_INTERNAL") \in Response
    BY <1>3, <1>5, <1>8, InResponse, PlainInResponse
<1>10. PICK a \in Response : a = reply
    BY <1>9
<1>11. Reply(c, a) /\ UNCHANGED <<data, entry, errors>>
    BY <1>7, <1>10 DEF engine
<1>. HIDE DEF reply
<1>12. CASE Decodes(key)
  <2>1. a.kind = kind /\ a.id = 0 /\ a.read = id /\ a.value = value
      BY <1>10, <1>12 DEF Answer, reply
  <2>2. kind # "OK_SET"
      BY DEF kind
  <2>3. Effect(f, a)
      BY <1>3, <1>11, <2>1, <2>2 DEF Effect, id
  <2>4. a.read # 0 => entry'[a.read] = [key |-> f.key, value |-> a.value]
      BY <1>6, <1>11, <2>1
  <2>5. a.kind = IF a.value = << >> THEN "ERR_NOT_FOUND" ELSE "VALUE"
      BY <2>1 DEF kind
  <2>6. Matches(f, a)'
      BY <1>12, <2>4, <2>5 DEF Matches
  <2>. QED
      BY <1>1, <1>11, <2>3, <2>6, ReplyFacts DEF Run
<1>13. CASE ~Decodes(key)
  <2>1. a.kind = "ERR_INTERNAL" /\ a.id = 0 /\ a.read = 0
      BY <1>10, <1>13 DEF Plain, Answer, reply
  <2>2. Effect(f, a)
      BY <1>2, <1>11, <1>13, <2>1 DEF Effect
  <2>3. Matches(f, a)'
      BY <1>13, <2>1 DEF Matches
  <2>. QED
      BY <1>1, <1>11, <2>2, <2>3, ReplyFacts DEF Run
<1>. QED
    BY <1>12, <1>13

\* The other commands leave the engine alone.
LEMMA PlainRuns ==
    ASSUME Inv, NEW c \in Conn, NEW f \in Frame, NEW kind \in Kinds,
           Reply(c, Plain(kind)), UNCHANGED engine,
           \/ f.op = "STATS" /\ kind = "STATS"
           \/ f.op = "UNKNOWN" /\ kind = "ERR_UNKNOWN_CMD"
           \/ f.op = "UNSEPARATED" /\ kind = "ERR_FORMAT"
    PROVE  \E a \in Response : Run(c, f, a)
<1>1. Types
    BY DEF Inv
<1>2. 0 \in 0 .. Len(entry)
    BY <1>1 DEF Types
<1>3. PICK a \in Response : a = Plain(kind)
    BY PlainInResponse
<1>4. a.kind = kind /\ a.id = 0 /\ a.read = 0
    BY <1>3 DEF Plain, Answer
<1>5. Effect(f, a)
    BY <1>2, <1>4 DEF Effect, engine
<1>6. Matches(f, a)'
    BY <1>4 DEF Matches
<1>7. Reply(c, a)
    BY <1>3
<1>. QED
    BY <1>1, <1>5, <1>6, <1>7, ReplyFacts DEF Run

LEMMA ProcessRuns ==
    ASSUME Inv, NEW c \in Conn, Process(c),
           NEW f, f = asked[c][Len(answers[c]) + 1].frame
    PROVE  \E a \in Response : Run(c, f, a)
<1>1. /\ f \in Frame /\ f.op \notin {"NOISE", "HUGE"}
      /\ head[c].type = TypeOf(f)
      /\ SubSeq(wire[c], 1, head[c].length) = Payload(f)
    BY ProcessReads
<1>2. (CASE TypeOf(f) = 1 -> Set(c, Payload(f))
         [] TypeOf(f) = 2 -> Get(c, Payload(f))
         [] TypeOf(f) = 99 -> Reply(c, Plain("STATS")) /\ UNCHANGED engine
         [] OTHER -> Reply(c, Plain("ERR_UNKNOWN_CMD")) /\ UNCHANGED engine)
    BY <1>1 DEF Process
<1>3. f.op \in {"SET", "GET", "STATS", "UNKNOWN", "UNSEPARATED"}
    BY <1>1, Constants DEF Ops
<1>4. \E a \in Response : Run(c, f, a)
  <2>1. CASE f.op = "SET"
    <3>1. Set(c, Payload(f))
        BY <1>2, <2>1 DEF TypeOf
    <3>. QED
        BY <1>1, <2>1, <3>1, SetRuns
  <2>2. CASE f.op = "GET"
    <3>1. Get(c, Payload(f))
        BY <1>2, <2>2 DEF TypeOf
    <3>. QED
        BY <1>1, <2>2, <3>1, GetRuns
  <2>3. CASE f.op = "STATS"
    <3>1. Reply(c, Plain("STATS")) /\ UNCHANGED engine /\ "STATS" \in Kinds
        BY <1>2, <2>3 DEF TypeOf, Kinds
    <3>. QED
        BY <1>1, <2>3, <3>1, PlainRuns
  <2>4. CASE f.op = "UNKNOWN"
    <3>1. /\ Reply(c, Plain("ERR_UNKNOWN_CMD")) /\ UNCHANGED engine
          /\ "ERR_UNKNOWN_CMD" \in Kinds
        BY <1>2, <2>4 DEF TypeOf, Kinds
    <3>. QED
        BY <1>1, <2>4, <3>1, PlainRuns
  <2>5. CASE f.op = "UNSEPARATED"
    <3>1. Set(c, Payload(f)) /\ FirstSeparator(Payload(f)) = 0
        BY <1>1, <1>2, <2>5, UnseparatedPayload DEF TypeOf
    <3>2. Reply(c, Plain("ERR_FORMAT")) /\ UNCHANGED engine /\ "ERR_FORMAT" \in Kinds
        BY <3>1 DEF Set, Kinds
    <3>. QED
        BY <1>1, <2>5, <3>2, PlainRuns
  <2>. QED
      BY <1>3, <2>1, <2>2, <2>3, <2>4, <2>5
<1>. QED
    BY <1>4

LEMMA ProcessTypes ==
    ASSUME Inv, NEW c \in Conn, Process(c), NEW f \in Frame, NEW a \in Response,
           Run(c, f, a), wire'[c] \in Bytes
    PROVE  /\ Types' /\ pc'[c] = "drain" /\ answers'[c] = Append(answers[c], a)
           /\ paused'[c] = (paused[c] \/ InBuffer(c) + 1 > High)
           /\ \A d \in Conn \ {c} :
                 /\ pc'[d] = pc[d] /\ head'[d] = head[d] /\ paused'[d] = paused[d]
                 /\ wire'[d] = wire[d] /\ answers'[d] = answers[d]
           /\ UNCHANGED <<registry, side, unsent, asked, taken>>
<1>1. /\ wire' = [wire EXCEPT ![c] = wire'[c]] /\ head' = [head EXCEPT ![c] = NoHead]
      /\ UNCHANGED <<registry, side, unsent, asked, taken>>
  <2>1. DOMAIN wire = Conn
      BY DEF Inv, Types
  <2>. QED
      BY <2>1 DEF Process, Read, client
<1>2. Types
    BY DEF Inv
<1>3. /\ answers' = [answers EXCEPT ![c] = Append(answers[c], a)]
      /\ paused' = [paused EXCEPT ![c] = paused[c] \/ InBuffer(c) + 1 > High]
      /\ pc' = [pc EXCEPT ![c] = "drain"]
    BY DEF Run
<1>4. /\ pc'[c] = "drain" /\ answers'[c] = Append(answers[c], a)
      /\ paused'[c] = (paused[c] \/ InBuffer(c) + 1 > High)
      /\ \A d \in Conn \ {c} :
            /\ pc'[d] = pc[d] /\ head'[d] = head[d] /\ paused'[d] = paused[d]
            /\ wire'[d] = wire[d] /\ answers'[d] = answers[d]
    BY <1>1, <1>2, <1>3 DEF Types
<1>5. entry' \in Seq(Text) /\ errors' \in 0 .. MaxErrors
  <2>1. [key |-> f.key, value |-> f.value] \in Text
      BY Constants DEF Text
  <2>2. \/ entry' = entry
        \/ entry' = Append(entry, [key |-> f.key, value |-> f.value])
      BY DEF Run, Effect
  <2>3. \A e \in Text :
            Append(entry, e) \in Seq(Text)
      BY <1>2 DEF Types
  <2>4. errors' = errors \/ errors' \in 0 .. MaxErrors
      BY DEF Run, Effect
  <2>. QED
      BY <1>2, <2>1, <2>2, <2>3, <2>4 DEF Types
<1>6. answers[c] \in Seq(Response) /\ Append(answers[c], a) \in Seq(Response)
      /\ Len(Append(answers[c], a)) = Len(answers[c]) + 1
      /\ Len(answers[c]) \in Nat /\ taken[c] <= Len(answers[c]) /\ taken[c] \in Nat
    BY <1>2, TypesNow
<1>7. Types'
  <2>1. pc' \in [Conn -> Reading \cup {"new", "closing", "closed"}]
      BY <1>2, <1>3 DEF Types, Reading
  <2>2. NoHead \in [type : Nat, length : 0 .. MaxPacket]
      BY Constants DEF NoHead
  <2>3. head' \in [Conn -> [type : Nat, length : 0 .. MaxPacket]]
      BY <1>1, <1>2, <2>2 DEF Types
  <2>4. paused' \in [Conn -> BOOLEAN] /\ wire' \in [Conn -> Bytes]
      BY <1>1, <1>2, <1>3 DEF Types
  <2>5. answers' \in [Conn -> Seq(Response)]
      BY <1>2, <1>3, <1>6 DEF Types
  <2>6. \A d \in Conn : taken'[d] <= Len(answers'[d])
    <3>1. ASSUME NEW d \in Conn, d # c PROVE taken'[d] <= Len(answers'[d])
        BY <1>1, <1>2, <1>4, <3>1 DEF Types
    <3>2. taken'[c] <= Len(answers'[c])
        BY <1>1, <1>4, <1>6
    <3>. QED
        BY <3>1, <3>2
  <2>7. /\ registry' \in [Names -> Conn \cup {None}]
        /\ side' \in [Conn -> {"open", "shut", "reset"}] /\ unsent' \in [Conn -> Bytes]
        /\ asked' \in [Conn -> Seq(Question)] /\ taken' \in [Conn -> Nat]
      BY <1>1, <1>2 DEF Types
  <2>. QED
      BY <1>5, <2>1, <2>3, <2>4, <2>5, <2>6, <2>7 DEF Types
<1>. QED
    BY <1>1, <1>4, <1>7

\* Records stay, values only get newer.
LEMMA EngineGrows ==
    ASSUME Inv, NEW f \in Frame, NEW a \in Response, Effect(f, a)
    PROVE  /\ Len(entry) \in Nat /\ Len(entry') \in Nat /\ Len(entry) <= Len(entry')
           /\ \A id \in 1 .. Len(entry) : entry'[id] = entry[id]
           /\ \A k, id : Holds(k, id) /\ id \in Nat => Holds(k, id)'
           /\ Mapped' /\ errors \in Nat /\ errors <= errors' /\ errors' \in Nat
           /\ a.id \in 0 .. Len(entry') /\ a.read \in 0 .. Len(entry')
           /\ a.kind = "OK_SET" => a.id # 0
           /\ a.id # 0 => Holds(entry[a.id].key, a.id)'
<1>. DEFINE e == [key |-> f.key, value |-> f.value]
            n == Len(entry) + 1
<1>1. Types /\ Mapped
    BY DEF Inv, History
<1>2. /\ Len(entry) \in Nat /\ entry \in Seq(Text)
      /\ errors \in Nat /\ MaxErrors \in Nat
      /\ e \in Text /\ e.key = f.key
    BY <1>1, Constants DEF Types, Text
<1>3. a.read \in 0 .. Len(entry)
    BY DEF Effect
<1>4. CASE UNCHANGED <<data, entry, errors>> /\ a.id = 0 /\ a.kind # "OK_SET"
  <2>1. Mapped' /\ \A k, id : Holds(k, id) => Holds(k, id)'
      BY <1>1, <1>4 DEF Mapped, Holds
  <2>. QED
      BY <1>2, <1>3, <1>4, <2>1
<1>5. CASE entry' = Append(entry, e) /\ \/ data' = Stored(f.key, n) /\ errors' = errors
                                           /\ a.id = n
                                        \/ data' = data /\ errors' = errors + 1
                                           /\ a.id = 0 /\ a.kind # "OK_SET"
  <2>. HIDE DEF e
  <2>1. /\ Len(entry') = n /\ entry'[n] = e
        /\ \A id \in 1 .. Len(entry) : entry'[id] = entry[id]
      BY <1>2, <1>5
  <2>2. CASE data' = data /\ errors' = errors + 1 /\ a.id = 0 /\ a.kind # "OK_SET"
    <3>1. Mapped' /\ \A k, id : Holds(k, id) => Holds(k, id)'
        BY <1>1, <1>2, <2>1, <2>2 DEF Mapped, Holds
    <3>. QED
        BY <1>2, <1>3, <2>1, <2>2, <3>1
  <2>3. CASE data' = Stored(f.key, n) /\ errors' = errors /\ a.id = n
    <3>1. /\ DOMAIN data' = DOMAIN data \cup {f.key} /\ data'[f.key] = n
          /\ \A k \in DOMAIN data : k # f.key => data'[k] = data[k]
        BY <2>3 DEF Stored
    <3>2. Mapped'
        BY <1>1, <1>2, <2>1, <3>1 DEF Mapped
    <3>3. ASSUME NEW k, NEW id \in Nat, Holds(k, id) PROVE Holds(k, id)'
      <4>1. k \in DOMAIN data /\ id <= data[k] /\ data[k] \in 1 .. Len(entry)
          BY <1>1, <3>3 DEF Holds, Mapped
      <4>. QED
          BY <1>2, <3>1, <4>1 DEF Holds
    <3>4. n \in Nat /\ a.id # 0 /\ a.id \in 0 .. Len(entry')
        BY <1>2, <2>1, <2>3
    <3>5. entry'[a.id].key = f.key
        BY <1>2, <2>1, <2>3
    <3>6. Holds(f.key, a.id)'
      <4>1. f.key \in DOMAIN data' /\ a.id <= data'[f.key]
          BY <1>2, <2>3, <3>1
      <4>. QED
          BY <4>1 DEF Holds
    <3>7. a.read \in 0 .. Len(entry')
        BY <1>2, <1>3, <2>1
    <3>8. Holds(entry[a.id].key, a.id)'
        BY <3>5, <3>6 DEF Holds
    <3>. QED
        BY <1>2, <2>1, <2>3, <3>2, <3>3, <3>4, <3>7, <3>8
  <2>. QED
      BY <1>5, <2>2, <2>3
<1>. QED
    BY <1>4, <1>5 DEF Effect

\* An answer that matched still does.
LEMMA StillMatches ==
    ASSUME NEW f, NEW a, Matches(f, a),
           Len(entry) \in Nat, errors \in Nat, errors' \in Nat, errors <= errors',
           \A id \in 1 .. Len(entry) : entry'[id] = entry[id],
           a.id \in 0 .. Len(entry), a.read \in 0 .. Len(entry), a.kind = "OK_SET" => a.id # 0
    PROVE  Matches(f, a)'
<1>1. a.kind = "OK_SET" => entry'[a.id] = entry[a.id]
    OBVIOUS
<1>2. a.read # 0 => entry'[a.read] = entry[a.read]
    OBVIOUS
<1>3. errors > 0 => errors' > 0
    OBVIOUS
<1>. QED
    BY <1>1, <1>2, <1>3 DEF Matches

LEMMA ProcessHistory ==
    ASSUME Inv, NEW c \in Conn, Process(c), NEW a \in Response,
           NEW f, f = asked[c][Len(answers[c]) + 1].frame, Run(c, f, a), asked' = asked,
           answers'[c] = Append(answers[c], a),
           \A d \in Conn \ {c} : answers'[d] = answers[d]
    PROVE  History'
<1>. DEFINE n == Len(answers[c]) + 1
<1>1. Types /\ Mapped /\ Newest /\ KnownHeld /\ Matched /\ Recent
    BY DEF Inv, History
<1>2. f \in Frame /\ n \in 1 .. Len(asked[c])
    BY ProcessReads
<1>3. /\ Len(answers[c]) \in Nat /\ answers[c] \in Seq(Response) /\ n \in Nat
      /\ Len(answers'[c]) = n /\ answers'[c][n] = a
      /\ \A i \in 1 .. Len(answers[c]) : answers'[c][i] = answers[c][i]
    BY <1>1, TypesNow
<1>4. ASSUME NEW d \in Conn, NEW i \in 1 .. Len(answers'[d]), ~ (d = c /\ i = n)
      PROVE  i \in 1 .. Len(answers[d]) /\ answers'[d][i] = answers[d][i]
  <2>1. CASE d = c
    <3>1. i \in 1 .. Len(answers[c])
        BY <1>3, <1>4, <2>1 DEF n
    <3>. QED
        BY <1>3, <2>1, <3>1
  <2>2. CASE d # c
      BY <2>2
  <2>. QED
      BY <2>1, <2>2
<1>5. Effect(f, a) /\ Matches(f, a)'
    BY DEF Run
<1>6. \A d \in Conn : \A i \in 1 .. Len(answers'[d]) :
          d = c /\ i = n => answers'[d][i] = a /\ asked'[d][i].frame = f
    BY <1>3
<1>. HIDE DEF n
<1>7. /\ Len(entry) \in Nat /\ Len(entry') \in Nat /\ Len(entry) <= Len(entry')
      /\ \A id \in 1 .. Len(entry) : entry'[id] = entry[id]
      /\ \A k, id : Holds(k, id) /\ id \in Nat => Holds(k, id)'
      /\ Mapped' /\ errors \in Nat /\ errors <= errors' /\ errors' \in Nat
      /\ a.id \in 0 .. Len(entry') /\ a.read \in 0 .. Len(entry')
      /\ a.kind = "OK_SET" => a.id # 0
      /\ a.id # 0 => Holds(entry[a.id].key, a.id)'
    BY <1>2, <1>5, EngineGrows
<1>8. Newest'
  <2>1. ASSUME NEW d \in Conn, NEW i \in 1 .. Len(answers'[d])
        PROVE  LET b == answers'[d][i]
               IN  /\ b.id \in 0 .. Len(entry') /\ b.read \in 0 .. Len(entry')
                   /\ b.kind = "OK_SET" => b.id # 0
                   /\ b.id # 0 => /\ entry'[b.id].key \in DOMAIN data'
                                  /\ b.id <= data'[entry'[b.id].key]
    <3>1. CASE d = c /\ i = n
      <4>1. answers'[d][i] = a
          BY <1>6, <3>1
      <4>. QED
          BY <1>7, <4>1 DEF Holds
    <3>2. CASE ~ (d = c /\ i = n)
      <4>. DEFINE b == answers[d][i]
      <4>1. answers'[d][i] = b /\ i \in 1 .. Len(answers[d])
          BY <1>4, <3>2
      <4>2. /\ b.id \in 0 .. Len(entry) /\ b.read \in 0 .. Len(entry)
            /\ b.kind = "OK_SET" => b.id # 0
            /\ b.id # 0 => Holds(entry[b.id].key, b.id)
          BY <1>1, <4>1 DEF Newest
      <4>. HIDE DEF b
      <4>3. b.id # 0 => entry'[b.id] = entry[b.id] /\ b.id \in Nat
          BY <1>7, <4>2
      <4>4. \A k, id : Holds(k, id) /\ id \in Nat => k \in DOMAIN data' /\ id <= data'[k]
          BY <1>7 DEF Holds
      <4>5. b.id # 0 => /\ entry'[b.id].key \in DOMAIN data'
                        /\ b.id <= data'[entry'[b.id].key]
          BY <4>2, <4>3, <4>4
      <4>. QED
          BY <1>7, <4>1, <4>2, <4>5
    <3>. QED
        BY <3>1, <3>2
  <2>. QED
      BY <2>1 DEF Newest, Holds
<1>9. KnownHeld'
  <2>1. ASSUME NEW d \in Conn, NEW i \in 1 .. Len(asked[d]), asked[d][i].known # 0
        PROVE  Holds(asked[d][i].frame.key, asked[d][i].known)'
    <3>1. Holds(asked[d][i].frame.key, asked[d][i].known) /\ asked[d][i].known \in Nat
      <4>1. asked[d][i] \in Question
          BY <1>1, TypesNow
      <4>. QED
          BY <1>1, <2>1, <4>1 DEF KnownHeld, Question
    <3>2. asked'[d][i] = asked[d][i]
        OBVIOUS
    <3>3. \A k, id : Holds(k, id) /\ id \in Nat => k \in DOMAIN data' /\ id <= data'[k]
        BY <1>7, SMTT(30) DEF Holds
    <3>. QED
        BY <3>1, <3>2, <3>3 DEF Holds
  <2>. QED
      BY <2>1 DEF KnownHeld
<1>10. Matched'
  <2>1. ASSUME NEW d \in Conn, NEW i \in 1 .. Len(answers'[d])
        PROVE  Matches(asked[d][i].frame, answers[d][i])'
    <3>1. CASE d = c /\ i = n
      <4>1. answers'[d][i] = a /\ asked'[d][i].frame = f
          BY <1>6, <3>1
      <4>2. PICK g : g = f
          OBVIOUS
      <4>3. Matches(g, a)'
          BY <1>5, <4>2
      <4>. QED
          BY <4>1, <4>2, <4>3 DEF Matches
    <3>2. CASE ~ (d = c /\ i = n)
      <4>1. PICK b : b = answers[d][i]
          OBVIOUS
      <4>2. PICK g : g = asked[d][i].frame
          OBVIOUS
      <4>3. answers'[d][i] = b /\ asked'[d][i].frame = g /\ i \in 1 .. Len(answers[d])
          BY <1>4, <3>2, <4>1, <4>2
      <4>4. /\ b.id \in 0 .. Len(entry) /\ b.read \in 0 .. Len(entry)
            /\ b.kind = "OK_SET" => b.id # 0
          BY <1>1, <4>1, <4>3 DEF Newest
      <4>5. Matches(g, b)
          BY <1>1, <4>1, <4>2, <4>3 DEF Matched
      <4>6. Matches(g, b)'
          BY <1>7, <4>4, <4>5, StillMatches
      <4>. QED
          BY <4>3, <4>6 DEF Matches
    <3>. QED
        BY <3>1, <3>2
  <2>. QED
      BY <2>1 DEF Matched
<1>11. Recent'
  <2>1. ASSUME NEW d \in Conn, NEW i \in 1 .. Len(answers'[d]),
               asked[d][i].frame.op = "GET", Decodes(asked[d][i].frame.key)
        PROVE  answers'[d][i].read >= asked[d][i].known
    <3>1. CASE d = c /\ i = n
      <4>1. f.op = "GET" /\ Decodes(f.key) /\ answers'[d][i] = a
          BY <1>6, <2>1, <3>1
      <4>2. a.read = IF f.key \in DOMAIN data THEN data[f.key] ELSE 0
          BY <1>5, <4>1 DEF Effect
      <4>3. asked[c][n].known # 0 =>
                f.key \in DOMAIN data /\ asked[c][n].known <= data[f.key]
          BY <1>1, <1>2 DEF KnownHeld, Holds, n
      <4>4. asked[c][n].known \in Nat
        <5>1. asked[c][n] \in Question
            BY <1>1, <1>2, TypesNow
        <5>. QED
            BY <5>1 DEF Question
      <4>5. f.key \in DOMAIN data => data[f.key] \in Nat
          BY <1>1, <1>7 DEF Mapped
      <4>. QED
          BY <3>1, <4>1, <4>2, <4>3, <4>4, <4>5
    <3>2. CASE ~ (d = c /\ i = n)
      <4>1. i \in 1 .. Len(answers[d]) /\ answers'[d][i] = answers[d][i]
          BY <1>4, <2>1, <3>2
      <4>2. Recent
          BY <1>1
      <4>3. answers[d][i].read >= asked[d][i].known
          BY <2>1, <4>1, <4>2 DEF Recent
      <4>. QED
          BY <4>1, <4>3
    <3>. QED
        BY <3>1, <3>2
  <2>. QED
      BY <2>1 DEF Recent, Decodes
<1>. QED
    BY <1>7, <1>8, <1>9, <1>10, <1>11 DEF History

LEMMA ProcessInv == ASSUME Inv, NEW c \in Conn, Process(c) PROVE Inv'
<1>. PICK f : f = asked[c][Len(answers[c]) + 1].frame
    OBVIOUS
<1>. DEFINE n == Len(answers[c]) + 1
            left == SubSeq(wire[c], head[c].length + 1, Len(wire[c]))
<1>1. /\ pc[c] = "payload" /\ side[c] # "reset"
      /\ wire' = [wire EXCEPT ![c] = left]
    BY DEF Process, Read
<1>2. Types /\ Named /\ Handled(c)
    BY DEF Inv
<1>3. /\ n \in 1 .. Len(asked[c]) /\ f \in Frame /\ left \in Bytes
      /\ Framed(left \o unsent[c], asked[c], n)
    BY ProcessReads
<1>4. wire'[c] = left
    BY <1>1, <1>2 DEF Types
<1>. HIDE DEF left
<1>5. PICK a \in Response : Run(c, f, a)
    BY ProcessRuns
<1>6. /\ Types' /\ pc'[c] = "drain" /\ answers'[c] = Append(answers[c], a)
      /\ paused'[c] = (paused[c] \/ InBuffer(c) + 1 > High)
      /\ \A d \in Conn \ {c} :
            /\ pc'[d] = pc[d] /\ head'[d] = head[d] /\ paused'[d] = paused[d]
            /\ wire'[d] = wire[d] /\ answers'[d] = answers[d]
      /\ UNCHANGED <<registry, side, unsent, asked, taken>>
  <2>1. f \in Frame /\ wire'[c] \in Bytes
      BY <1>3, <1>4
  <2>. QED
      BY <1>5, <2>1, ProcessTypes, Zenon
<1>7. History'
  <2>1. /\ asked' = asked /\ answers'[c] = Append(answers[c], a)
        /\ \A d \in Conn \ {c} : answers'[d] = answers[d]
      BY <1>6
  <2>. QED
      BY <1>5, <2>1, ProcessHistory, Zenon
<1>8. Named'
  <2>1. /\ registry' = registry /\ pc[c] = "payload" /\ pc'[c] = "drain"
        /\ \A d \in Conn \ {c} : pc'[d] = pc[d]
      BY <1>1, <1>6
  <2>2. \A b \in Names : registry[b] \in Conn \cup {None}
      BY <1>2 DEF Types
  <2>. QED
      BY <1>2, <2>1, <2>2 DEF Named
<1>9. /\ Len(answers'[c]) = n /\ n \in Nat /\ Len(answers[c]) \in Nat
      /\ InBuffer(c) \in Nat /\ InBuffer(c) = Len(answers[c]) - taken[c]
      /\ taken[c] \in Nat /\ Len(asked[c]) \in Nat
    BY <1>2, <1>6, TypesNow DEF InBuffer
<1>10. InStep(c)'
  <2>1. left \o unsent[c] \in Bytes
    <3>1. unsent[c] \in Bytes
        BY <1>2, TypesNow
    <3>. QED
        BY <1>3, <3>1, Concat
  <2>2. Stream(c)' = << >> \o (left \o unsent[c])
      BY <1>4, <1>6 DEF Stream
  <2>3. Stream(c)' = left \o unsent[c]
      BY <2>1, <2>2, Concat
  <2>4. Framed(Stream(c)', asked'[c], Len(answers'[c]))
      BY <1>3, <1>6, <1>9, <2>3
  <2>5. Len(answers'[c]) <= Len(asked'[c])
      BY <1>3, <1>6, <1>9
  <2>. QED
      BY <2>4, <2>5 DEF InStep
<1>11. Buffered(c)'
  <2>1. InBuffer(c)' = InBuffer(c) + 1
      BY <1>6, <1>9 DEF InBuffer
  <2>2. InBuffer(c) <= High
      BY <1>1, <1>2 DEF Handled, Buffered
  <2>3. High \in Nat
      BY Constants
  <2>4. ~paused'[c] => InBuffer(c) + 1 <= High
    <3>1. ~paused'[c] => ~ (InBuffer(c) + 1 > High)
        BY <1>6, Zenon
    <3>. QED
        BY <1>9, <2>3, <3>1
  <2>. QED
      BY <1>6, <1>9, <2>1, <2>2, <2>3, <2>4 DEF Buffered
<1>12. Handled(c)'
    BY <1>6, <1>10, <1>11 DEF Handled, Unborn
<1>. QED
    BY <1>6, <1>7, <1>8, <1>12, OneAtATime

-----------------------------------------------------------------------------

LEMMA InvNext == Inv /\ [Next]_vars => Inv'
<1>. SUFFICES ASSUME Inv, [Next]_vars PROVE Inv'
    OBVIOUS
<1>1. ASSUME NEW c \in Conn, Accept(c) PROVE Inv'
    BY <1>1, AcceptInv
<1>2. ASSUME NEW c \in Conn, HandleClient(c) PROVE Inv'
    BY <1>2, ReadHeaderInv, ProcessInv, MovesOnInv, FinishInv DEF HandleClient
<1>3. ASSUME NEW c \in Conn, NEW f \in Frame, Send(c, f) PROVE Inv'
    BY <1>3, SendInv
<1>4. ASSUME NEW c \in Conn, Transmit(c) \/ End(c) \/ Take(c) PROVE Inv'
    BY <1>4, TransmitInv, EndInv, TakeInv
<1>5. CASE UNCHANGED vars
  <2>1. UNCHANGED <<pc, head, registry, answers, paused, engine, side, unsent, asked,
                    taken, wire>>
      BY <1>5 DEF vars, handler, client
  <2>2. Types /\ Named /\ History /\ \A c \in Conn : Handled(c)
      BY DEF Inv
  <2>3. History'
      BY <2>1, <2>2, SameHistory
  <2>4. Types' /\ Named'
      BY <2>1, <2>2 DEF Types, Named, engine
  <2>5. \A c \in Conn : Handled(c)'
      BY <2>1, <2>2 DEF Handled, Unborn, Buffered, InBuffer, InStep, Stream
  <2>. QED
      BY <2>3, <2>4, <2>5 DEF Inv
<1>. QED
    BY <1>1, <1>2, <1>3, <1>4, <1>5 DEF Next

LEMMA InvHolds == Spec => []Inv
<1>1. Init => Inv
    BY InvInit
<1>2. Inv /\ [Next]_vars => Inv'
    BY InvNext
<1>. QED
    BY <1>1, <1>2, PTL DEF Spec

\* The variables keep their types: no header with an excessive length is ever acted
\* upon, every key of the engine has a record (network/server.py, storage/engine.py).
THEOREM TypesHold == Spec => []TypeOK
<1>1. Inv => TypeOK
  <2>. SUFFICES ASSUME Inv PROVE TypeOK
      OBVIOUS
  <2>1. Types /\ Mapped
      BY DEF Inv, History
  <2>2. Range(data) \subseteq DOMAIN entry
    <3>1. DOMAIN entry = 1 .. Len(entry)
        BY <2>1 DEF Types
    <3>. QED
        BY <2>1, <3>1 DEF Mapped, Range
  <2>3. \A c \in Conn : taken[c] \in 0 .. Len(answers[c])
      BY <2>1, TypesNow
  <2>. QED
      BY <2>1, <2>2, <2>3 DEF Types, TypeOK, Reading, Bytes
<1>. QED
    BY <1>1, InvHolds, PTL

\* The stream of a connection never slips, whatever pieces its frames come in and
\* wherever it ends: the i-th answer is one to the i-th frame (handle_client and
\* process_command of network/server.py).
THEOREM AnswersAlwaysMatch == Spec => []AnswersMatch
<1>1. Inv => AnswersMatch
  <2>. SUFFICES ASSUME Inv, NEW c \in Conn
                PROVE  /\ Len(answers[c]) <= Len(asked[c])
                       /\ \A i \in DOMAIN answers[c] :
                             Matches(asked[c][i].frame, answers[c][i])
      BY DEF AnswersMatch
  <2>1. Len(answers[c]) <= Len(asked[c])
      BY DEF Inv, Handled, InStep
  <2>2. DOMAIN answers[c] = 1 .. Len(answers[c])
      BY TypesNow DEF Inv
  <2>. QED
      BY <2>1, <2>2 DEF Inv, History, Matched
<1>. QED
    BY <1>1, InvHolds, PTL

\* A GET sent after the answer to a SET has arrived anywhere finds that value or a
\* later one: the engine holds what any client has heard of (process_command).
THEOREM ReadsAlwaysFresh == Spec => []ReadsAreFresh
<1>1. Inv => ReadsAreFresh
  <2>1. ASSUME Inv, NEW c \in Conn PROVE DOMAIN answers[c] = 1 .. Len(answers[c])
      BY <2>1, TypesNow DEF Inv
  <2>. QED
      BY <2>1 DEF ReadsAreFresh, Inv, History, Recent
<1>. QED
    BY <1>1, InvHolds, PTL

\* The write buffer of a client that does not read holds one answer more than the
\* high-water mark at most (the drain of handle_client).
THEOREM BufferAlwaysBounded == Spec => []BufferBounded
<1>1. Inv => BufferBounded
    BY DEF Inv, Handled, Buffered, BufferBounded
<1>. QED
    BY <1>1, InvHolds, PTL

\* Two connections of one name never leave a dead one in _active_connections
\* (the start and the finally clause of handle_client).
THEOREM NamesAlwaysLive == Spec => []NamesAreLive
<1>1. Inv => NamesAreLive
    BY DEF Inv, Named, NamesAreLive
<1>. QED
    BY <1>1, InvHolds, PTL

=============================================================================
