--------------------------- MODULE HyperionProtocol ---------------------------
(***************************************************************************)
(* Message layouts of hyperion_stream (core/protocol.py).  A class of      *)
(* messages declares its fields in any order, BinaryMeta compiles them to  *)
(* one struct format in the order of their numbers, and pack and unpack go *)
(* through it in network byte order.                                       *)
(*                                                                         *)
(* A byte has Base values; widths are those of the code.  Doubles carry    *)
(* whole numbers here, which are written like the integers.                *)
(***************************************************************************)
EXTENDS Integers, Sequences, SequencesExt

CONSTANT Base  \* values of a byte: 256 in the program, fewer for TLC

ASSUME BaseOK == Base \in Nat /\ Base > 1 /\ Base % 2 = 0

\* format_char of the classes of fields, and the size that struct gives it.
Width ==
    [b |-> 1, B |-> 1, i |-> 4, I |-> 4, q |-> 8, d |-> 8]

Signed(code) == code \in {"b", "i", "q"}

Field(name, order, code) == [name |-> name, order |-> order, code |-> code]

\* BinaryMeta: the fields in the order of their numbers.
Layout(fields) ==
    [k \in 1 .. Cardinality(fields) |->
        CHOOSE f \in fields :
            Cardinality({g \in fields : g.order < f.order}) = k - 1]

\* The header of a record of the log.
LogEntryMeta == Layout(
    {Field("timestamp", 1, "d"), Field("seq_id", 2, "q"),
     Field("partition_id", 3, "i"), Field("crc32", 4, "I")})

\* Bytes before field k of a layout.
Offset(layout, k) ==
    LET sum[i \in 1 .. k] ==
            IF i = 1 THEN 0 ELSE sum[i - 1] + Width[layout[i - 1].code]
    IN  sum[k]

\* The powers of Base, up to that of the widest field.
Power[n \in 0 .. 8] == IF n = 0 THEN 1 ELSE Power[n - 1] * Base

\* The digits of a number, the most significant one first; a negative number
\* has those of its two's complement.
BigEndian(value, width) ==
    [i \in 1 .. width |-> (value \div Power[width - i]) % Base]

Unsigned(bytes) ==
    LET value[i \in 0 .. Len(bytes)] ==
            IF i = 0 THEN 0 ELSE value[i - 1] * Base + bytes[i]
    IN  value[Len(bytes)]

Number(bytes, code) ==
    IF Signed(code) /\ 2 * Head(bytes) >= Base
    THEN Unsigned(bytes) - Power[Len(bytes)]
    ELSE Unsigned(bytes)

\* pack.
Packed(layout, values) ==
    FlattenSeq([k \in DOMAIN layout |->
                   BigEndian(values[layout[k].name], Width[layout[k].code])])

\* unpack, of a buffer that has the size of the layout.
Unpacked(layout, buffer) ==
    LET At(k) == SubSeq(buffer, Offset(layout, k) + 1, Offset(layout, k + 1))
        Pos(n) == CHOOSE k \in DOMAIN layout : layout[k].name = n
    IN  [n \in {layout[k].name : k \in DOMAIN layout} |->
            Number(At(Pos(n)), layout[Pos(n)].code)]

=============================================================================
