------------------------------ MODULE DmaBuffers ------------------------------
(***************************************************************************)
(* DMA buffers and the pool that keeps them for the next user              *)
(* (src/spdk/dma_buf.rs).  A buffer is the sequence of its bytes and the   *)
(* note that it was zeroed; memory that is only allocated holds anything.  *)
(***************************************************************************)
EXTENDS Naturals, Sequences

CONSTANTS
  DmaBytes,     \* values of a byte
  SizeWidth,    \* number of values of a usize: 2^64 in the code
  Sizes,        \* sizes that are asked for
  Blocks,       \* block sizes
  BufferSize,   \* size of the buffers of the pool
  InitialCount, MaxCapacity,
  MaxHeld       \* bound: buffers in use

ASSUME DmaAssumption ==
  /\ 0 \in DmaBytes /\ SizeWidth \in Nat
  /\ Sizes \subseteq 0..(SizeWidth - 1) /\ Blocks \subseteq 0..(SizeWidth - 1)
  /\ BufferSize \in Nat \ {0} /\ InitialCount \in Nat /\ MaxCapacity \in Nat /\ MaxHeld \in Nat

VARIABLES
  pool,   \* buffers: the last one that was put back is the next one
  held,   \* buffers in use
  dma     \* what was asked for last and what came of it

dmaVars == <<pool, held, dma>>

Small == 4   \* sizes up to this one have their bytes modelled
ZeroBytes(n) == [i \in 1..n |-> 0]
Zeroed(n) == [bytes |-> ZeroBytes(n), zeroed |-> TRUE]

\* A size of 0 is refused.
Raw(n) == IF n = 0 THEN {} ELSE {[bytes |-> b, zeroed |-> FALSE] : b \in [1..n -> DmaBytes]}

\* The sum wraps in a release build; masking the low bits takes off the rest.
Rounded(size, block) ==
  LET sum == (size + block - 1) % SizeWidth IN sum - (sum % block)

PowerOfTwo(n) == n > 0 /\ \E e \in 0..n : n = 2 ^ e

Holds(buf) == /\ Len(held) < MaxHeld
              /\ held' = Append(held, buf)

\* DmaBuf::new and new_zeroed.
New == /\ \E n \in Sizes \cap 1..Small : \E buf \in Raw(n) \union {Zeroed(n)} : Holds(buf)
       /\ dma' = [call |-> "new"] /\ UNCHANGED pool

NewAligned ==
  \E size \in Sizes, block \in Blocks :
    LET n == Rounded(size, block) IN
    /\ dma' = [call |-> "new_aligned", size |-> size, block |-> block,
               got |-> IF PowerOfTwo(block) THEN n ELSE 0]
    /\ IF PowerOfTwo(block) /\ n \in 1..Small THEN \E buf \in Raw(n) : Holds(buf) ELSE UNCHANGED held
    /\ UNCHANGED pool

\* What the holder of a buffer does to it: fill and zero, copy_from_slice of data no
\* longer than the buffer, and writing through a slice of it or io::Write, which cut
\* off what does not fit and leave the note alone.
Filled(buf, value) ==
  [bytes |-> [i \in DOMAIN buf.bytes |-> value], zeroed |-> value = 0]
Over(buf, data) ==
  [i \in DOMAIN buf.bytes |-> IF i <= Len(data) THEN data[i] ELSE buf.bytes[i]]

Copied(buf, data) == [bytes |-> Over(buf, data), zeroed |-> FALSE]
WrittenThrough(buf, data) == [buf EXCEPT !.bytes = Over(buf, data)]

Datas == {d \in UNION {[1..n -> DmaBytes] : n \in 1..(BufferSize + 1)} :
            \A i \in DOMAIN d : d[i] = d[1]}

Touch ==
  /\ \E h \in DOMAIN held :
       LET buf == held[h] IN
       \/ \E value \in DmaBytes :
            /\ held' = [held EXCEPT ![h] = Filled(buf, value)]
            /\ dma' = [call |-> "fill"]
       \/ \E data \in Datas :
            /\ Len(data) <= Len(buf.bytes)
            /\ held' = [held EXCEPT ![h] = Copied(buf, data)]
            /\ dma' = [call |-> "copy"]
       \/ \E data \in Datas :
            /\ held' = [held EXCEPT ![h] = WrittenThrough(buf, data)]
            /\ dma' = [call |-> "through"]
  /\ UNCHANGED pool

-----------------------------------------------------------------------------
(* DmaBufPool                                                              *)

Without(s, i) == SubSeq(s, 1, i - 1) \o SubSeq(s, i + 1, Len(s))

\* Mutant: a buffer that says that it was zeroed is not zeroed again.
CleanedUnlessZeroed(buf) == IF buf.zeroed THEN buf ELSE Filled(buf, 0)

Cleaned(buf) == Filled(buf, 0)

\* The next buffer, zeroed, or a new one if there is none.
Get ==
  LET buf == IF pool = << >> THEN Zeroed(BufferSize) ELSE Cleaned(pool[Len(pool)]) IN
  /\ Holds(buf)
  /\ pool' = IF pool = << >> THEN pool ELSE SubSeq(pool, 1, Len(pool) - 1)
  /\ dma' = [call |-> "get", buf |-> buf]

Fits(buf) == Len(buf.bytes) = BufferSize /\ Len(pool) < MaxCapacity

\* A buffer of another size, or one more than the pool may have, is dropped; dropping
\* a buffer without the pool is the same to the rest.
PutBack ==
  \E h \in DOMAIN held :
    /\ held' = Without(held, h)
    /\ pool' = IF Fits(held[h]) THEN Append(pool, held[h]) ELSE pool
    /\ dma' = [call |-> "put"]

\* The pool may begin with more buffers than it will take back.
DmaInit ==
  /\ pool = [i \in 1..InitialCount |-> Zeroed(BufferSize)]
  /\ held = << >> /\ dma = [call |-> "none"]

DmaNext == New \/ NewAligned \/ Touch \/ Get \/ PutBack

DmaSpec == DmaInit /\ [][DmaNext]_dmaVars

-----------------------------------------------------------------------------

\* Whatever was done to the buffers in their last use, of this pool or another, a
\* buffer from the pool has the pool's size and holds nothing but zeros.
PooledAreClean == dma.call = "get" => dma.buf = Zeroed(BufferSize)

\* An aligned buffer is large enough, and by less than a block: a size so large that
\* the rounding wraps is refused.
AlignedAreLargeEnough ==
  dma.call = "new_aligned" /\ dma.got > 0 =>
    dma.got % dma.block = 0 /\ dma.got >= dma.size /\ dma.got - dma.size < dma.block

\* A buffer that is handed out is large enough and, from the pool, clean.
BuffersAreSound == PooledAreClean /\ AlignedAreLargeEnough
=============================================================================
