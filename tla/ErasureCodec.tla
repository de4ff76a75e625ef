------------------------------ MODULE ErasureCodec ------------------------------
(***************************************************************************)
(* What the codec makes of a stripe's bytes (src/spdk/isal_codec.rs), and  *)
(* how the stripe processor cuts data into shards and joins them again     *)
(* (src/spdk/stripe_processor.rs), under every configuration that the      *)
(* engine accepts.                                                         *)
(*                                                                         *)
(* A byte is an element of a field of 2^Bits elements, which has 8 bits in *)
(* the code.  The library's matrices and their inversion are described by  *)
(* what they are, not by how they are computed.                            *)
(*                                                                         *)
(* A configuration with the matrix "rs" is one of the stripe manager and   *)
(* the reconstruction engine, whose encoder and decoder (src/ec/encoder.rs)*)
(* use another library.                                                    *)
(***************************************************************************)
EXTENDS Naturals, Sequences, FiniteSets, SequencesExt

CONSTANTS
  Bits,      \* bits of a byte: 8 in the code
  Poly,      \* the field's polynomial without its highest term: 0x1D in the code
  Align,     \* size that the shards must be a multiple of: 32 in the code
  Configs,   \* configurations that are tried
  Contents,  \* bytes that data consists of
  MaxData    \* bound: bytes of data

Order == 2 ^ Bits
Elements == 0..(Order - 1)

ASSUME CodecAssumption ==
  /\ Bits \in Nat \ {0} /\ Poly \in Elements /\ Align \in Nat \ {0} /\ MaxData \in Nat
  /\ Contents \subseteq Elements

VARIABLE stripe   \* a configuration and a stripe on its way

-----------------------------------------------------------------------------
(* Configurations.                                                         *)

\* EcEngineConfig::validate
EngineAccepts(c) ==
  /\ c.data_shards >= 1 /\ c.parity_shards >= 1 /\ c.data_shards + c.parity_shards < Order
  /\ c.stripe_size > 0

Ceil(a, b) == (a + b - 1) \div b
Least(a, b) == IF a < b THEN a ELSE b

shard_size(c) == Ceil(Ceil(c.stripe_size, c.data_shards), Align) * Align

\* StripeProcessorConfig::validate; the engine always asks for buffers.
ProcessorAccepts(c) == EngineAccepts(c) /\ c.max_concurrent_ops > 0

\* EcEncoder::new and EcDecoder::new
EncoderAccepts(c) ==
  c.data_shards > 0 /\ c.parity_shards > 0 /\ c.data_shards + c.parity_shards <= Order

\* IsalCodecConfig::validate
CodecAccepts(c) ==
  /\ c.data_shards >= 1 /\ c.parity_shards >= 1 /\ c.data_shards + c.parity_shards < Order
  /\ shard_size(c) > 0 /\ shard_size(c) % Align = 0

-----------------------------------------------------------------------------
(* Arithmetic.                                                             *)

Bit(a, i) == (a \div 2 ^ i) % 2

\* Exclusive or of two bytes, as a table.
Xor ==
  LET Sum(a, b) ==
        LET s[i \in 0..Bits] ==
              IF i = 0 THEN 0 ELSE s[i - 1] + 2 ^ (i - 1) * ((Bit(a, i - 1) + Bit(b, i - 1)) % 2)
        IN s[Bits]
  IN [a \in Elements |-> [b \in Elements |-> Sum(a, b)]]

\* One step of the loop over the bits of b: a times x, with the highest term
\* replaced by the polynomial.
Doubled(a) == IF a >= Order \div 2 THEN Xor[(2 * a) % Order][Poly] ELSE 2 * a

gf_mul_slow(a, b) ==
  LET step[i \in 0..Bits] ==
        IF i = 0 THEN [a |-> a, result |-> 0]
        ELSE [a |-> Doubled(step[i - 1].a),
              result |-> IF Bit(b, i - 1) = 1 THEN Xor[step[i - 1].result][step[i - 1].a]
                         ELSE step[i - 1].result]
  IN step[Bits].result

GF_MUL_TABLE == [a \in Elements |-> [b \in Elements |-> gf_mul_slow(a, b)]]
gf_mul_byte(a, b) == IF a = 0 \/ b = 0 THEN 0 ELSE GF_MUL_TABLE[a][b]

Power(a, n) == LET p[i \in 0..n] == IF i = 0 THEN 1 ELSE gf_mul_byte(p[i - 1], a) IN p[n]
gf_inv == [a \in Elements \ {0} |-> CHOOSE b \in Elements : gf_mul_byte(a, b) = 1]

Dot(row, column) ==
  LET sum[j \in 0..Len(row)] ==
        IF j = 0 THEN 0 ELSE Xor[sum[j - 1]][gf_mul_byte(row[j], column[j])]
  IN sum[Len(row)]

-----------------------------------------------------------------------------
(* Stripes.                                                                *)

ShardsOf(c) == 1..(c.data_shards + c.parity_shards)
DataOf(c) == 1..c.data_shards
ParityOf(c) == ShardsOf(c) \ DataOf(c)

\* gf_gen_cauchy1_matrix and gf_gen_rs_matrix of ISA-L.
Cauchy(i, j) == gf_inv[Xor[i - 1][j - 1]]
Vandermonde(c, i, j) == Power(Power(2, i - c.data_shards - 1), j - 1)

\* The matrix of reed-solomon-erasure: all that counts is that each of its square parts
\* has an inverse, as in a Cauchy matrix.
Library(i, j) == Cauchy(i, j)

\* The matrix of the mock build.
MockEntry(c, i, j) == ((i - c.data_shards - 1) + (j - 1) + 1) % Order

Error == <<"error">>

\* The rows of data are those of the unit matrix.
MatrixOf(c) ==
  [i \in ShardsOf(c) |-> [j \in DataOf(c) |->
     IF i \in DataOf(c) THEN (IF i = j THEN 1 ELSE 0)
     ELSE CASE c.matrix = "Cauchy" -> Cauchy(i, j)
            [] c.matrix = "Vandermonde" -> Vandermonde(c, i, j)
            [] c.matrix = "mock" -> MockEntry(c, i, j)
            [] c.matrix = "rs" -> Library(i, j)]]

Accepted == {c \in Configs : IF c.matrix = "rs" THEN EncoderAccepts(c) ELSE EngineAccepts(c)}
encode_matrix == [c \in Accepted |-> MatrixOf(c)]

\* The bytes at one place of all shards.
Column(c, shards, at) == [j \in DataOf(c) |-> shards[j][at]]

\* IsalCodec::encode: the shard of parity of row i.
Parity(c, shards, i) ==
  [at \in 1..Len(shards[1]) |-> Dot(encode_matrix[c][i], Column(c, shards, at))]

\* StripeProcessor::encode cuts data evenly, not into full shards; what a buffer of
\* the pool held before follows it, which is zero unless buffers are not zeroed.
DataShard(c, data, i, stale) ==
  LET each == Ceil(Len(data), c.data_shards)
      chunk == SubSeq(data, (i - 1) * each + 1, Least(i * each, Len(data)))
  IN [at \in 1..shard_size(c) |->
        IF at <= Len(chunk) THEN chunk[at] ELSE stale]

EncodedStripe(c, data, stale) ==
  LET shards == [i \in DataOf(c) |-> DataShard(c, data, i, stale)]
  IN [i \in ShardsOf(c) |-> IF i \in DataOf(c) THEN shards[i] ELSE Parity(c, shards, i)]

\* EcEncoder::encode cuts data evenly, into shards just as large as that takes.
SplitStripe(c, data) ==
  LET each == Ceil(Len(data), c.data_shards)
      Byte(n) == IF n <= Len(data) THEN data[n] ELSE 0
      shards == [i \in DataOf(c) |-> [at \in 1..each |-> Byte((i - 1) * each + at)]]
  IN [i \in ShardsOf(c) |-> IF i \in DataOf(c) THEN shards[i] ELSE Parity(c, shards, i)]

\* The parity that the destage manager computes itself, whatever the build: the exclusive
\* or of multiples of the bytes as integers.
encode_to_parity(c, chunks, i) ==
  LET Multiple(byte) == (byte * (i - c.data_shards)) % Order
  IN [at \in 1..shard_size(c) |->
        Dot([j \in DataOf(c) |-> 1], [j \in DataOf(c) |-> Multiple(chunks[j][at])])]

\* SpdkAccelEngine::encode takes full chunks.
Destaged(c, data) ==
  LET chunks == [i \in DataOf(c) |-> SubSeq(data, (i - 1) * shard_size(c) + 1, i * shard_size(c))]
  IN [i \in ShardsOf(c) |-> IF i \in DataOf(c) THEN chunks[i] ELSE encode_to_parity(c, chunks, i)]

\* The first shards that survive.
surviving(c, erasures) ==
  SubSeq(SelectSeq([i \in ShardsOf(c) |-> i], LAMBDA i : i \notin erasures), 1, c.data_shards)

\* gf_invert_matrix of the rows of the shards that survive.
Inverted(c, erasures) ==
  LET row == surviving(c, erasures)
      Unit(j, l) == IF j = l THEN 1 ELSE 0
      column == [j \in DataOf(c) |-> [i \in DataOf(c) |-> encode_matrix[c][row[i]][j]]]
      Rows(l) == {r \in [DataOf(c) -> Elements] :
                    \A j \in DataOf(c) : Dot(r, column[j]) = Unit(j, l)}
  IN IF \E l \in DataOf(c) : Rows(l) = {} THEN Error
     ELSE [l \in DataOf(c) |-> CHOOSE r \in Rows(l) : TRUE]

\* IsalCodec::reconstruct: each erased shard is a combination of the surviving ones.
reconstruct(c, shards, erasures) ==
  LET row == surviving(c, erasures)
      inverse == Inverted(c, erasures)
      Source(at) == [i \in DataOf(c) |-> shards[row[i]][at]]
      size == Len(shards[1])
      data == [at \in 1..size |-> [j \in DataOf(c) |-> Dot(inverse[j], Source(at))]]
  IN IF erasures = {} THEN shards
     ELSE IF Cardinality(erasures) > c.parity_shards \/ inverse = Error THEN Error
     ELSE [i \in ShardsOf(c) |->
             IF i \notin erasures THEN shards[i]
             ELSE [at \in 1..size |-> Dot(encode_matrix[c][i], data[at])]]

\* EcDecoder::decode
Concatenated(c, shards, size) ==
  LET all == FlattenSeq([i \in DataOf(c) |-> shards[i]]) IN SubSeq(all, 1, Least(size, Len(all)))

\* Mutant: data is taken to fill the shards.
JoinsFullShards(c, shards, size) == Concatenated(c, shards, size)

\* StripeProcessor::decode joins what encode has cut.
Joined(c, shards, size) ==
  LET each == Ceil(size, c.data_shards)
      Left(i) == IF size > (i - 1) * each THEN size - (i - 1) * each ELSE 0
  IN FlattenSeq([i \in DataOf(c) |->
       SubSeq(shards[i], 1, Least(Least(Left(i), each), shard_size(c)))])

\* StripeProcessor::verify
verify(c, shards) == \A i \in ParityOf(c) : Parity(c, shards, i) = shards[i]

-----------------------------------------------------------------------------
(* A stripe is encoded, shards of it are lost or go bad, and it is decoded *)
(* or verified.                                                            *)

NoCode == [status |-> "none"]

\* EcStorageEngine::new, and the encoders that are made for a policy.
Configure ==
  /\ stripe = NoCode
  /\ \E c \in Configs :
       stripe' = [status |-> IF c \notin Accepted THEN "invalid"
                             ELSE IF c.matrix = "rs" THEN "ready"
                             ELSE IF ~ProcessorAccepts(c) THEN "refused by the processor"
                             ELSE IF ~CodecAccepts(c) THEN "refused by the codec"
                             ELSE "ready",
                  config |-> c]

\* Data that is longer than a stripe is refused.
Encode ==
  /\ stripe.status = "ready" /\ stripe.config.matrix # "rs"
  /\ \E n \in 0..MaxData : \E data \in [1..n -> Contents],
        stale \in (IF stripe.config.zero THEN {0} ELSE Contents) :
       stripe' = IF n > stripe.config.stripe_size
                   THEN [status |-> "too long", config |-> stripe.config]
                   ELSE [status |-> "stored", config |-> stripe.config, data |-> data,
                         shards |-> EncodedStripe(stripe.config, data, stale), destaged |-> FALSE]

\* StripeManager::create_stripe; the library refuses shards without bytes.
Split ==
  /\ stripe.status = "ready" /\ stripe.config.matrix = "rs"
  /\ \E n \in 0..MaxData : \E data \in [1..n -> Contents] :
       stripe' = IF n = 0
                   THEN [status |-> "empty", config |-> stripe.config]
                   ELSE [status |-> "stored", config |-> stripe.config, data |-> data,
                         shards |-> SplitStripe(stripe.config, data), destaged |-> FALSE]

\* A stripe of the destage manager is always full.
Destage ==
  /\ stripe.status = "ready" /\ stripe.config.matrix = "Cauchy"
  /\ \E data \in [1..(stripe.config.data_shards * shard_size(stripe.config)) -> Contents] :
       stripe' = [status |-> "stored", config |-> stripe.config, data |-> data,
                  shards |-> Destaged(stripe.config, data), destaged |-> TRUE]

\* The shards that are lost are handed over zeroed.  The mock build does not
\* reconstruct anything.
Decode ==
  /\ stripe.status = "stored" /\ stripe.config.matrix # "mock"
  /\ \E erasures \in SUBSET ShardsOf(stripe.config) :
       LET c == stripe.config
           size == Len(stripe.shards[1])
           found == [i \in ShardsOf(c) |->
                       IF i \in erasures THEN [at \in 1..size |-> 0] ELSE stripe.shards[i]]
           whole == reconstruct(c, found, erasures)
       IN stripe' = [status |-> "decoded", config |-> c, data |-> stripe.data, erasures |-> erasures,
                     destaged |-> stripe.destaged,
                     restored |-> IF whole = Error THEN Error
                                  ELSE IF c.matrix = "rs" THEN Concatenated(c, whole, Len(stripe.data))
                                  ELSE Joined(c, whole, Len(stripe.data))]

\* A shard may have gone bad when the stripe is verified.
Verify ==
  /\ stripe.status = "stored" /\ ~stripe.destaged
  /\ \E i \in ShardsOf(stripe.config), at \in 1..Len(stripe.shards[1]), byte \in Elements :
       LET shards == [stripe.shards EXCEPT ![i][at] = byte] IN
       stripe' = [status |-> "verified", config |-> stripe.config, bad |-> shards # stripe.shards,
                  good |-> verify(stripe.config, shards)]

CodecInit == stripe = NoCode
CodecNext == Configure \/ Encode \/ Split \/ Destage \/ Decode \/ Verify

-----------------------------------------------------------------------------

\* A configuration that the engine accepts, and that lets it do something, is also
\* accepted by the processor and the codec it is handed on to.
AcceptedIsUsable ==
  stripe.status \in {"refused by the processor", "refused by the codec"} =>
    stripe.config.max_concurrent_ops = 0

\* As long as no more shards are lost than there is parity, decoding gives back the
\* bytes that were encoded, of whatever length, whichever shards are lost and
\* whatever the buffers held before; of more losses it gives nothing.  The rows of a
\* Vandermonde matrix may turn out to be singular in larger configurations: then
\* nothing is given back, but never something else.  Data of a destaged stripe is not
\* restored, because its parity is not that of the codec.
LossesAreRestored ==
  stripe.status = "decoded" =>
    IF Cardinality(stripe.erasures) > stripe.config.parity_shards THEN stripe.restored = Error
    ELSE \/ stripe.restored = stripe.data
         \/ stripe.restored = Error /\ stripe.config.matrix = "Vandermonde"
         \/ stripe.destaged /\ stripe.erasures \intersect DataOf(stripe.config) # {}

\* A byte that went bad, in any shard, is noticed, and nothing else is.
CorruptionIsNoticed ==
  stripe.status = "verified" => stripe.good = ~stripe.bad

\* What is encoded comes back: under every configuration the engine accepts, from any
\* shards that suffice, and not unnoticed if a byte went bad.
StripesAreRestored == AcceptedIsUsable /\ LossesAreRestored /\ CorruptionIsNoticed
=============================================================================
