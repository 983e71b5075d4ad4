-------------------------------- MODULE Wire ---------------------------------
(***************************************************************************)
(* Buffers that numbers are written into one after the other and read from *)
(* in the same way.  A buffer is the sequence of its fields, each with its *)
(* width in bytes: whoever reads another width than was written is lost.   *)
(* Fields that tell a length or a count keep it modulo what fits.          *)
(***************************************************************************)
EXTENDS Naturals, Sequences
LOCAL INSTANCE SequencesExt

Field(width, value) == <<[bytes |-> width, is |-> value]>>
UInt8(n) == Field(1, n % 256)
UInt16(n) == Field(2, n % 65536)
UInt32(n) == Field(4, n)
UInt64(n) == Field(8, n)

\* Bytes that are copied as they are.
Data(d) == Field(d.size, d)

ForEach(seq, Of(_)) == FlattenSeq([i \in DOMAIN seq |-> Of(seq[i])])
SumOf(seq, Of(_)) == FoldLeft(LAMBDA n, x : n + Of(x), 0, seq)
Bytes(fields) == SumOf(fields, LAMBDA f : f.bytes)

Rest(fields, n) == SubSeq(fields, n + 1, Len(fields))
=============================================================================
