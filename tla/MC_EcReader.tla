------------------------------ MODULE MC_EcReader -------------------------------
(***************************************************************************)
(* Instances of what reads and writes of stripes rest on: the reader, the  *)
(* compression, the codec and the DMA buffers.  They share no state, so    *)
(* each takes its steps in behaviours of its own.                          *)
(***************************************************************************)
EXTENDS EcReader, Compression, ErasureCodec, DmaBuffers

VARIABLE part   \* the part that takes steps

\* Data of up to three stretches whose lengths are those around the limits, with
\* bytes of eight values.
RunBytes == {0, 1, ShortRun, LongRun}
Counts == {1, MinRun, ShortMax, ShortMax + 1}
Stretches == {Repeat(b, n) : b \in RunBytes, n \in Counts}
MCInputs == {a \o b \o c : a \in Stretches, b \in Stretches, c \in Stretches}

C(k, m, size, zero, matrix, ops) ==
  [data_shards |-> k, parity_shards |-> m, stripe_size |-> size, zero |-> zero,
   matrix |-> matrix, max_concurrent_ops |-> ops]
MCConfigs ==
  {C(2, 2, 4, FALSE, "Cauchy", 1), C(3, 2, 4, TRUE, "Cauchy", 1),
   C(2, 2, 5, TRUE, "Vandermonde", 1), C(2, 2, 3, FALSE, "mock", 1),
   C(2, 1, 3, TRUE, "Cauchy", 0), C(0, 2, 4, TRUE, "Cauchy", 1), C(5, 3, 4, TRUE, "Cauchy", 1),
   C(3, 2, 0, TRUE, "rs", 1), C(2, 0, 0, TRUE, "rs", 1)}

Init ==
  /\ ReaderInit /\ CompressionInit /\ CodecInit /\ DmaInit
  /\ part \in {"reader", "compression", "codec", "buffers"}
  /\ part # "reader" => config.fast /\ config.repair

\* The steps of a part.
Of(p, steps) == part = p /\ steps /\ UNCHANGED part

ReaderSteps(steps) == Of("reader", steps) /\ UNCHANGED <<chunk, stripe, dmaVars>>

Next ==
  \/ ReaderSteps(ReaderNext)
  \/ Of("compression", CompressionNext) /\ UNCHANGED <<readerVars, stripe, dmaVars>>
  \/ Of("codec", CodecNext) /\ UNCHANGED <<readerVars, chunk, dmaVars>>
  \/ Of("buffers", DmaNext) /\ UNCHANGED <<readerVars, chunk, stripe>>

vars == <<readerVars, chunk, stripe, dmaVars, part>>

Spec == Init /\ [][Next]_vars
=============================================================================
