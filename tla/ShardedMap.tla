------------------------------ MODULE ShardedMap ------------------------------
(***************************************************************************)
(* The sharded map below the L1 cache (src/rustfs/cache/shard.rs).  A call *)
(* holds the lock of its shard while it changes the map and its counters;  *)
(* the statistics are read without any lock, shard by shard, while get and *)
(* get_or_insert_with take the lock for reading and then for writing.      *)
(***************************************************************************)
EXTENDS Naturals, FiniteSets, Sums

CONSTANTS
  MapTasks,    \* tasks that use the map
  MapKeys,     \* keys
  ShardCount,  \* N: a power of two
  MaxSize,     \* bound: bytes of a value
  MapWidth,    \* number of values of a counter: 2^64 in the code
  MaxMapCalls  \* bound: calls

ASSUME MapAssumption ==
  /\ ShardCount \in Nat \ {0} /\ {MaxSize, MapWidth} \subseteq Nat \ {0} /\ MaxMapCalls \in Nat
  /\ MapKeys \subseteq Nat /\ IsFiniteSet(MapKeys)
  /\ Cardinality(MapKeys) * MaxSize < MapWidth

VARIABLES
  entries,   \* the size of the value of each key, as its caller gave it; 0 without one
  count,     \* number of entries, for each shard
  sizes,     \* size_bytes, for each shard
  mapCall,   \* the call each task is in
  mapSeen    \* what the properties remember, and the counter of the bound

mapVars == <<entries, count, sizes, mapCall, mapSeen>>

ShardIds == 0..(ShardCount - 1)
Present(key) == entries[key] > 0

\* The hash of a key is taken to be the key.
shard_index(key) == key % ShardCount

NoMapCall == [pc |-> "idle", key |-> 0, left |-> {}]

Returns(t) == mapCall' = [mapCall EXCEPT ![t] = NoMapCall]

Puts(key, size) ==
  /\ entries' = [entries EXCEPT ![key] = size]
  /\ count' = [count EXCEPT ![shard_index(key)] = (@ + 1) % MapWidth]
  /\ sizes' = [sizes EXCEPT ![shard_index(key)] = (@ + size) % MapWidth]

-----------------------------------------------------------------------------

\* A call, which may give a size other than that of the entry it is about.
Noted(resizes) == mapSeen' = [mapSeen EXCEPT !.calls = @ + 1, !.resized = @ \/ resizes]
Starts(t) == mapCall[t].pc = "idle" /\ mapSeen.calls < MaxMapCalls

\* A value that replaces another one leaves the counters alone.  So does update, which
\* changes a value in place.
Insert(t) ==
  \E key \in MapKeys, size \in 1..MaxSize :
    /\ Starts(t)
    /\ IF Present(key)
         THEN UNCHANGED <<entries, count, sizes>> /\ Noted(size # entries[key])
         ELSE Puts(key, size) /\ Noted(FALSE)
    /\ UNCHANGED mapCall

\* The size comes from the caller.
RemoveKey(t) ==
  \E key \in MapKeys, size \in 1..MaxSize :
    /\ Starts(t)
    /\ IF Present(key)
         THEN /\ entries' = [entries EXCEPT ![key] = 0]
              /\ count' = [count EXCEPT ![shard_index(key)] = (@ + MapWidth - 1) % MapWidth]
              /\ sizes' = [sizes EXCEPT ![shard_index(key)] = (@ + MapWidth - size) % MapWidth]
              /\ Noted(size # entries[key])
         ELSE UNCHANGED <<entries, count, sizes>> /\ Noted(FALSE)
    /\ UNCHANGED mapCall

ClearMap(t) ==
  /\ Starts(t) /\ Noted(FALSE)
  /\ mapCall' = [mapCall EXCEPT ![t] = [NoMapCall EXCEPT !.pc = "clear", !.left = ShardIds]]
  /\ UNCHANGED <<entries, count, sizes>>

\* One shard after the other is emptied, under its own lock.
ClearShard(t) ==
  \E i \in mapCall[t].left :
    /\ mapCall[t].pc = "clear" /\ \A j \in mapCall[t].left : i <= j
    /\ entries' = [key \in MapKeys |-> IF shard_index(key) = i THEN 0 ELSE entries[key]]
    /\ count' = [count EXCEPT ![i] = 0] /\ sizes' = [sizes EXCEPT ![i] = 0]
    /\ mapCall' = [mapCall EXCEPT ![t] =
                    IF @.left = {i} THEN NoMapCall ELSE [@ EXCEPT !.left = mapCall[t].left \ {i}]]
    /\ UNCHANGED mapSeen

\* get_or_insert_with looks under the read lock first ...
GetOrInsertWith(t) ==
  \E key \in MapKeys :
    /\ Starts(t)
    /\ IF Present(key)
         THEN UNCHANGED mapCall
         ELSE mapCall' = [mapCall EXCEPT ![t] =
                            [NoMapCall EXCEPT !.pc = "insert", !.key = key]]
    /\ Noted(FALSE)
    /\ UNCHANGED <<entries, count, sizes>>

\* Mutant: what another task has inserted is not looked for again.
InsertsBlindly(t) ==
  /\ mapCall[t].pc = "insert"
  /\ \E size \in 1..MaxSize : Puts(mapCall[t].key, size)
  /\ Returns(t) /\ UNCHANGED mapSeen

\* ... and again under the write lock, before it makes a value.
InsertIfAbsent(t) ==
  /\ mapCall[t].pc = "insert"
  /\ IF Present(mapCall[t].key)
       THEN UNCHANGED <<entries, count, sizes>>
       ELSE \E size \in 1..MaxSize : Puts(mapCall[t].key, size)
  /\ Returns(t) /\ UNCHANGED mapSeen

MapInit ==
  /\ entries = [key \in MapKeys |-> 0]
  /\ count = [i \in ShardIds |-> 0] /\ sizes = [i \in ShardIds |-> 0]
  /\ mapCall = [t \in MapTasks |-> NoMapCall]
  /\ mapSeen = [calls |-> 0, resized |-> FALSE]

MapNext ==
  \E t \in MapTasks :
    \/ Insert(t) \/ RemoveKey(t) \/ GetOrInsertWith(t) \/ InsertIfAbsent(t)
    \/ ClearMap(t) \/ ClearShard(t)

-----------------------------------------------------------------------------

KeysOf(i) == {key \in MapKeys : Present(key) /\ shard_index(key) = i}

\* However insertions, replacements, removals, get_or_insert_with and clear are
\* interleaved, each shard counts its entries, and their bytes as long as callers give
\* the size of the entry they replace or remove.
EntriesAreCounted ==
  \A i \in ShardIds :
    /\ count[i] = Cardinality(KeysOf(i))
    /\ ~mapSeen.resized => sizes[i] = SumOf([key \in KeysOf(i) |-> entries[key]])
=============================================================================
