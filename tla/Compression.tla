------------------------------ MODULE Compression ------------------------------
(***************************************************************************)
(* Inline compression (src/spdk/compression.rs): when data is compressed,  *)
(* and the run-length encoding that stands for the hardware's.             *)
(*                                                                         *)
(* A byte is a number below Base, the two highest of which mark short and  *)
(* long runs.  With the code's Base of 256 a short run has up to 255 bytes *)
(* and a long one up to 65535.                                             *)
(***************************************************************************)
EXTENDS Naturals, Sequences, SequencesExt

CONSTANTS
  Base,      \* number of bytes: 256 in the code
  Inputs,    \* data that is compressed
  MinSize,   \* ENTROPY_SAMPLE_SIZE: 4096 in the code
  MinRatio   \* min_ratio, in percent

ASSUME CompressionAssumption ==
  /\ Base \in Nat /\ Base > 4 /\ Inputs \subseteq Seq(0..(Base - 1))
  /\ MinSize \in Nat /\ MinRatio \in 0..100

ShortRun == Base - 2
LongRun == Base - 1
Markers == {ShortRun, LongRun}
ShortMax == Base - 1
LongMax == Base * Base - 1
MinRun == 4

HeaderSize == 6

\* The data as runs, each as long as it can be.
RECURSIVE Runs(_)
Runs(data) ==
  IF data = << >> THEN << >>
  ELSE LET other == {i \in 1..Len(data) : data[i] # data[1]}
           n == Min({LongMax, Len(data)} \union {i - 1 : i \in other})
       IN <<[byte |-> data[1], count |-> n]>> \o Runs(SubSeq(data, n + 1, Len(data)))

Repeat(byte, n) == [i \in 1..n |-> byte]

\* A marker is followed by 0 where it stands for itself.
Literal(byte) == IF byte \in Markers THEN <<byte, 0>> ELSE <<byte>>

\* Mutant: the longest short run is one longer than a count can say.
EncodedFar(run) ==
  IF run.count > Base THEN <<LongRun, run.byte, run.count \div Base, run.count % Base>>
  ELSE IF run.count >= MinRun THEN <<ShortRun, run.byte, run.count % Base>>
  ELSE FlattenSeq(Repeat(Literal(run.byte), run.count))

Encoded(run) ==
  IF run.count > ShortMax THEN <<LongRun, run.byte, run.count \div Base, run.count % Base>>
  ELSE IF run.count >= MinRun THEN <<ShortRun, run.byte, run.count>>
  ELSE FlattenSeq(Repeat(Literal(run.byte), run.count))

\* The output of mock_compress after the header, which holds the length.
mock_compress(data) ==
  LET runs == Runs(data) IN FlattenSeq([i \in DOMAIN runs |-> Encoded(runs[i])])

\* mock_decompress: runs are tried first, so the 0 of an escaped literal is taken
\* for the byte of a run if enough bytes follow it; a long run must be followed
\* by a byte more than it has.
ReadsShort(in) == in[1] = ShortRun /\ Len(in) > 2
ReadsLong(in) == in[1] = LongRun /\ Len(in) > 4
ReadsEscape(in) == in[1] \in Markers /\ Len(in) > 1 /\ in[2] = 0

RECURSIVE Unpack(_, _)
Unpack(in, size) ==
  LET Rest(n) == SubSeq(in, n + 1, Len(in))
      Run(count, used) ==
        LET n == Min({count, size}) IN Repeat(in[2], n) \o Unpack(Rest(used), size - n)
  IN
  IF in = << >> \/ size = 0 THEN << >>
  ELSE IF ReadsShort(in) THEN Run(in[3], 3)
  ELSE IF ReadsLong(in) THEN Run(in[3] * Base + in[4], 4)
  ELSE <<in[1]>> \o Unpack(Rest(IF ReadsEscape(in) THEN 2 ELSE 1), size - 1)

\* What is missing is filled up with zeros.
mock_decompress(in, size) ==
  LET out == Unpack(in, size) IN out \o Repeat(0, size - Len(out))

-----------------------------------------------------------------------------
(* A chunk on its way: what compress makes of it, what decompress makes of *)
(* that.                                                                   *)

VARIABLE chunk

NoChunk == [status |-> "none", data |-> << >>, stored |-> << >>]

\* Data that is small, whose sample looks random, or that does not become small
\* enough is stored as it is.
Pays(data) ==
  /\ Len(data) >= MinSize
  /\ (HeaderSize + Len(mock_compress(data))) * 100 <= Len(data) * (100 - MinRatio)

Compress ==
  /\ chunk = NoChunk
  /\ \E data \in Inputs, enabled \in BOOLEAN, random \in BOOLEAN :
       chunk' = IF enabled /\ ~random /\ Pays(data)
                  THEN [status |-> "Compressed", data |-> data, stored |-> mock_compress(data)]
                  ELSE [status |-> "Skipped", data |-> data, stored |-> data]

\* Only what StripeCompressionInfo says is compressed is decompressed, with the
\* size it records.
Decompress ==
  /\ chunk.status \in {"Compressed", "Skipped"}
  /\ chunk' = [chunk EXCEPT !.status = "Restored", !.stored =
       IF chunk.status = "Compressed" THEN mock_decompress(@, Len(chunk.data)) ELSE @]

CompressionInit == chunk = NoChunk
CompressionNext == Compress \/ Decompress

\* What mock_decompress does not read back: a marker that stands for itself, and
\* a long run at the end.
Misread(data) ==
  LET runs == Runs(data) IN
  \/ \E i \in DOMAIN runs : runs[i].byte \in Markers /\ runs[i].count < MinRun
  \/ runs[Len(runs)].count > ShortMax

\* Data comes back as it was stored, for every mixture of literals, short and
\* long runs around their limits, but for what the decoder misreads.
ChunksAreRestored ==
  chunk.status = "Restored" =>
    \/ chunk.stored = chunk.data
    \/ Misread(chunk.data)

=============================================================================
