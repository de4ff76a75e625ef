----------------------------- MODULE ObjectCache -----------------------------
(***************************************************************************)
(* The three-tier object cache of src/rustfs/cache: CacheManager over the  *)
(* L1 cache (RAM, a sharded map), the L2 cache (an index into NVMe files)  *)
(* and L3 (a storage backend behind an await).                             *)
(*                                                                         *)
(* Several callers run get, put, delete and clear at once.  A step is what *)
(* a caller does under one lock or between two awaits; the counter of      *)
(* bytes that follows a change of L1's map is part of the change, except   *)
(* where the code subtracts a size it read earlier.  An object is its      *)
(* version, its size and whether it has a TTL.  Ages are not modelled:     *)
(* eviction may take the entries that have not expired in any order.       *)
(***************************************************************************)
EXTENDS Integers, FiniteSets, Functions, Sums

CONSTANTS
  Callers,        \* the tasks that use the cache
  Keys,
  Hash,           \* combined_hash of each key, the key of L2's index
  Sizes,          \* the sizes of objects
  Ttls,           \* may an object have a TTL: a subset of BOOLEAN
  L1Capacity, HighPercent, LowPercent, BatchSize,
  L2Capacity, MinEntrySize, MaxFileSize,
  Configs,        \* records [policy, auto_promotion, write_through]
  InL3,           \* what L3 holds at first: [Keys -> Sizes \cup {0}]
  MaxPuts, MaxOps,
  Word,           \* the byte counters are taken modulo this number
  NoEntry

ASSUME CacheAssumption ==
  /\ {L1Capacity, Word} \subseteq Nat \ {0}
  /\ {L2Capacity, MinEntrySize, MaxFileSize, BatchSize, MaxPuts, MaxOps} \subseteq Nat
  /\ {LowPercent, HighPercent} \subseteq Nat /\ LowPercent < HighPercent
  /\ Sizes \subseteq Nat \ {0} /\ Ttls \subseteq BOOLEAN
  /\ IsFiniteSet(Callers) /\ IsFiniteSet(Keys)
  /\ \A k, m \in Keys : Hash[k] = Hash[m] => k = m
  /\ InL3 \in [Keys -> Sizes \cup {0}]

\* What a tier may hold, and what clear leaves in its counter, fits the counter.
ASSUME WordAssumption ==
  /\ (Cardinality(Callers) + 1) * (Cardinality(Keys) * L1Capacity) < Word
  /\ Cardinality(Keys) * L2Capacity < Word

\* NoEntry is none of the values it stands in for.
ASSUME NoEntryAssumption ==
  /\ NoEntry \notin Keys /\ NoEntry \notin Nat
  /\ NoEntry \notin [ver : Nat, size : Nat]
  /\ NoEntry \notin [ver : Nat, size : Nat, ttl : BOOLEAN, count : Nat]
  /\ NoEntry \notin [ver : Nat, size : Nat, ttl : BOOLEAN, count : Nat,
                      file : Nat, offset : Nat]

VARIABLES
  config,   \* [policy, auto_promotion, write_through], fixed
  l1,       \* [map, size]: the entries of L1 and the counter current_size
  l2,       \* [index, size, file, offset]
  l3,       \* what the backend stores for a key
  expired,  \* the versions whose TTL is over
  calls,    \* what each caller is doing
  metrics,  \* CacheMetrics: hits and misses of the tiers, promotions
  history   \* in no part of the program: see NoHistory

vars == <<config, l1, l2, l3, expired, calls, metrics, history>>

-----------------------------------------------------------------------------
(* Entries: entry.rs. *)

Versions == 1 .. (MaxPuts + Cardinality(Keys))

\* CacheEntry::new: a first access is counted at once.
Entry(ver, size, ttl) ==
  [ver |-> ver, size |-> size, ttl |-> ttl, count |-> 1]

Entries == [ver : Versions, size : Sizes, ttl : BOOLEAN, count : 1 .. (MaxOps + 2)]

is_expired(e) == e.ttl /\ e.ver \in expired

Present(f) == {x \in DOMAIN f : f[x] # NoEntry}

BytesOf(f) == SumOf([x \in Present(f) |-> f[x].size])

Minus(a, b) == (a - b) % Word
Plus(a, b)  == (a + b) % Word

-----------------------------------------------------------------------------
(* Promotion: policy.rs.  Sizes are counted in blocks of 4 KiB. *)

balanced == [l1_threshold |-> 3, l2_threshold |-> 2, l2_min_size |-> 1,
             l1_max_size |-> 16384, eager |-> FALSE]
aggressive == [l1_threshold |-> 1, l2_threshold |-> 1, l2_min_size |-> 0,
               l1_max_size |-> 32768, eager |-> TRUE]

target_tier(p, count, size) ==
  IF size > p.l1_max_size THEN "L2"
  ELSE IF size < p.l2_min_size \/ p.eager \/ count >= p.l1_threshold THEN "L1"
  ELSE IF count >= p.l2_threshold THEN "L2" ELSE "L3"

should_promote_to_l1(p, count, size) ==
  size <= p.l1_max_size /\ (p.eager \/ count >= p.l1_threshold)

\* Both branches of the code that keep an object out of L2 choose L1.
determine_target_tier(size) ==
  IF size > config.policy.l1_max_size THEN "L2" ELSE "L1"

-----------------------------------------------------------------------------
(* L1: l1.rs over shard.rs. *)

should_evict == 100 * l1.size >= HighPercent * L1Capacity

should_continue_eviction == 100 * l1.size > LowPercent * L1Capacity

EmptyL1 == [map |-> [k \in Keys |-> NoEntry], size |-> 0]

Candidate(k) == [key |-> k, size |-> l1.map[k].size, expired |-> is_expired(l1.map[k])]
Candidates == {Candidate(k) : k \in Present(l1.map)}

\* ShardedMap::remove and the subtraction that follows it, of a size that was
\* read before.
RemoveFromL1(k, size) ==
  [map |-> [l1.map EXCEPT ![k] = NoEntry], size |-> Minus(l1.size, size)]

\* The size subtracted is the size of what is removed.
RemovesItsSize(k, size) == l1.map[k] # NoEntry /\ l1.map[k].size = size

SizeIn(f, k) == IF f[k] = NoEntry THEN 0 ELSE f[k].size

\* Mutant: an insertion that replaces an entry adds the whole size.
AddsWholeSize(k, e) ==
  [map |-> [l1.map EXCEPT ![k] = e], size |-> Plus(l1.size, e.size)]

InsertIntoL1(k, e) ==
  [map |-> [l1.map EXCEPT ![k] = e],
   size |-> Plus(l1.size, e.size - SizeIn(l1.map, k))]

-----------------------------------------------------------------------------
(* L2: l2.rs. *)

EmptyL2 == [index |-> [h \in {Hash[k] : k \in Keys} |-> NoEntry], size |-> 0,
            file |-> 0, offset |-> 0]

\* The counter once the candidates S are gone, by the sizes read earlier.
CounterWithout(S) ==
  Minus(l2.size, SumOf([c \in {c \in S : l2.index[c.hash] # NoEntry} |-> c.size]))

\* Candidates go one after another, in any order, until the counter is at the
\* target: the sets of those that may have gone then.
Gone(cands, target) ==
  LET Ends(S) == CounterWithout(S) <= target \/ S = cands
      Orders == {o \in UNION {[1..n -> cands] : n \in 0 .. Cardinality(cands)} : IsInjective(o)}
  IN {Range(o) : o \in {o \in Orders :
        /\ Ends(Range(o))
        /\ \A n \in DOMAIN o : ~Ends({o[i] : i \in 1 .. (n - 1)})}}

L2Candidates == {[hash |-> h, size |-> l2.index[h].size] : h \in Present(l2.index)}

IndexEntry(e, file, offset) ==
  [ver |-> e.ver, size |-> e.size, ttl |-> e.ttl, count |-> e.count,
   file |-> file, offset |-> offset]

\* An entry of L2 is known by its metadata: the code reads no file and returns
\* a buffer of zeros for the data.
FromL2(i, count) ==
  [ver |-> i.ver, size |-> i.size, ttl |-> i.ttl, count |-> count]

InsertIntoL2(store, h, i) ==
  [store EXCEPT !.index[h] = i, !.size = Plus(@, i.size - SizeIn(store.index, h))]

-----------------------------------------------------------------------------
(* Callers. *)

Idle == [pc |-> "idle", op |-> "none", key |-> NoEntry, entry |-> NoEntry,
         cands |-> {}, left |-> 0]

At(t, pc) == calls[t].pc = pc
Goto(t, pc) == calls' = [calls EXCEPT ![t].pc = pc]
Finish(t) == calls' = [calls EXCEPT ![t] = Idle]
Count(names) == metrics' = [m \in DOMAIN metrics |-> metrics[m] + (IF m \in names THEN 1 ELSE 0)]

\* The callers that are in the middle of an operation on a key.
Busy(k) == {t \in Callers : calls[t].key = k}

\* The history: the versions written so far, the other operations begun, the
\* gets among them, the version of a key that was put last (NoEntry once it is
\* deleted), the versions L3 has accepted, the keys that a stale or a lost copy
\* is excused of, the tiers whose counter lost or gained bytes, the tiers that
\* two callers were filling at once or that a batch left full, and whether two
\* callers were taking space in L2's files at once.
Excuse(h, keys, if) == IF if THEN [h EXCEPT !.excused = @ \cup keys] ELSE h
Drift(h, tier, if)  == IF if THEN [h EXCEPT !.drifted = @ \cup {tier}] ELSE h
Crowd(h, tier, if)  == IF if THEN [h EXCEPT !.crowded = @ \cup {tier}] ELSE h

\* Two operations on a key overlap and one of them writes.
Overlaps(k, op) == \E u \in Busy(k) : op # "get" \/ calls[u].op # "get"

\* A copy is given up that L3 does not hold: nothing demotes it.
OnlyCopy(k, ver) == l3[k] = NoEntry \/ l3[k].ver # ver

\* The keys of L2's index whose only copy it holds.
OnlyInL2(hashes) ==
  {k \in Keys : /\ Hash[k] \in hashes /\ l2.index[Hash[k]] # NoEntry
                /\ OnlyCopy(k, l2.index[Hash[k]].ver)}

OnlyInL1(keys) == {k \in keys \cap Present(l1.map) : OnlyCopy(k, l1.map[k].ver)}

\* A put has gone to a tier, or the tier has refused it, while another copy
\* of the key is left; or it has been refused and is stored nowhere.
Shadows(k, kept, tier) ==
  \/ l1.map[k] # NoEntry /\ (tier = "L2" \/ ~kept)
  \/ l2.index[Hash[k]] # NoEntry /\ (tier = "L1" \/ ~kept)
  \/ ~kept /\ ~config.write_through

-----------------------------------------------------------------------------
(* What several steps share. *)

\* An entry is taken to a tier: by a put, or by a promotion that was counted.
Carry(t, tier, entry) ==
  calls' = [calls EXCEPT ![t].pc = IF tier = "L1" THEN "check_l1" ELSE "check_l2",
                         ![t].entry = entry]

\* The put of a caller returns Ok; a promotion is not a put.
Returned(t, kept, tier) ==
  IF calls[t].op # "put" THEN history
  ELSE Excuse([history EXCEPT !.last[calls[t].key] = calls[t].entry.ver],
              {calls[t].key}, Shadows(calls[t].key, kept, tier))

Begin(t, op, k) ==
  /\ At(t, "idle")
  /\ history.ops < MaxOps
  /\ history' = Excuse([history EXCEPT !.ops = @ + 1, !.gets = @ + (IF op = "get" THEN 1 ELSE 0)],
                       {k}, Overlaps(k, op))
  /\ UNCHANGED <<config, l1, l2, l3, expired, metrics>>

-----------------------------------------------------------------------------
(* CacheManager::get *)

BeginGet(t) ==
  \E k \in Keys :
    /\ Begin(t, "get", k)
    /\ calls' = [calls EXCEPT ![t] = [Idle EXCEPT !.pc = "get_l1", !.op = "get", !.key = k]]

\* A hit is recorded on a copy of the entry: the entry in the map keeps its
\* count.  An expired entry is removed in a second step.
GetL1(t) ==
  /\ At(t, "get_l1")
  /\ LET e == l1.map[calls[t].key] IN
       CASE e = NoEntry -> Goto(t, "get_l2") /\ Count({"l1_miss"})
         [] e # NoEntry /\ is_expired(e) ->
              /\ calls' = [calls EXCEPT ![t].pc = "drop_expired", ![t].entry = e]
              /\ Count({"l1_miss"})
         [] OTHER -> Finish(t) /\ Count({"l1_hit"})
  /\ UNCHANGED <<config, l1, l2, l3, expired, history>>

\* Whatever the map holds by now is removed, or nothing is, and the size that
\* was read is subtracted.
DropExpired(t) ==
  LET k == calls[t].key  size == calls[t].entry.size IN
    /\ At(t, "drop_expired")
    /\ l1' = RemoveFromL1(k, size)
    /\ history' = Drift(Excuse(history, {k}, OnlyInL1({k}) # {}), "L1", ~RemovesItsSize(k, size))
    /\ calls' = [calls EXCEPT ![t].pc = "get_l2", ![t].entry = NoEntry]
    /\ UNCHANGED <<config, l2, l3, expired, metrics>>

\* L2 does not look at the TTL.  An entry of L2 may be promoted to L1.
GetL2(t) ==
  LET h == Hash[calls[t].key]
      i == l2.index[h]
      promotes == /\ config.auto_promotion
                  /\ should_promote_to_l1(config.policy, i.count + 1, i.size)
  IN /\ At(t, "get_l2")
     /\ IF i = NoEntry
        THEN Goto(t, "get_l3") /\ Count({"l2_miss"}) /\ UNCHANGED l2
        ELSE /\ l2' = [l2 EXCEPT !.index[h].count = @ + 1]
             /\ IF promotes THEN Carry(t, "L1", FromL2(i, i.count + 1)) ELSE Finish(t)
             /\ Count({"l2_hit"} \cup IF promotes THEN {"l2_to_l1"} ELSE {})
     /\ UNCHANGED <<config, l1, l3, expired, history>>

\* The backend may fail: the get then misses.  What L3 returns has no TTL.
GetL3(t) ==
  LET o == l3[calls[t].key]
      tier == target_tier(config.policy, 1, o.size)
  IN /\ At(t, "get_l3")
     /\ \/ Finish(t) /\ Count({"l3_miss"})
        \/ /\ o # NoEntry
           /\ IF config.auto_promotion /\ tier # "L3"
              THEN /\ Carry(t, tier, Entry(o.ver, o.size, FALSE))
                   /\ Count({"l3_hit", "l3_to_l2"} \cup IF tier = "L1" THEN {"l2_to_l1"} ELSE {})
              ELSE Finish(t) /\ Count({"l3_hit"})
     /\ UNCHANGED <<config, l1, l2, l3, expired, history>>

-----------------------------------------------------------------------------
(* CacheManager::put *)

BeginPut(t) ==
  \E k \in Keys, size \in Sizes, ttl \in Ttls :
    LET e == Entry(history.next, size, ttl) IN
    /\ At(t, "idle")
    /\ history.next \in Versions
    /\ history' = Excuse([history EXCEPT !.next = @ + 1], {k}, Overlaps(k, "put"))
    /\ calls' = [calls EXCEPT ![t] =
         [Idle EXCEPT !.op = "put", !.key = k, !.entry = e,
                      !.pc = IF config.write_through THEN "put_l3"
                               ELSE IF determine_target_tier(size) = "L1" THEN "check_l1"
                               ELSE "check_l2"]]
    /\ UNCHANGED <<config, l1, l2, l3, expired, metrics>>

\* A put that L3 refuses returns its error and caches nothing.
PutL3(t) ==
  LET e == calls[t].entry IN
  /\ At(t, "put_l3")
  /\ \/ Finish(t) /\ UNCHANGED <<l3, history>>
     \/ /\ l3' = [l3 EXCEPT ![calls[t].key] = [ver |-> e.ver, size |-> e.size]]
        /\ history' = [history EXCEPT !.stored = @ \cup {e.ver}]
        /\ Carry(t, determine_target_tier(e.size), e)
  /\ UNCHANGED <<config, l1, l2, expired, metrics>>

\* L1Cache::put begins with the eviction, whether or not the entry will fit.
CheckL1(t) ==
  /\ At(t, "check_l1")
  /\ IF should_evict
     THEN calls' = [calls EXCEPT ![t].pc = "evict_l1", ![t].cands = Candidates,
                                 ![t].left = BatchSize]
     ELSE Goto(t, "insert_l1")
  /\ history' = Crowd(history, "L1",
                      \E u \in Callers : calls[u].pc \in {"evict_l1", "insert_l1"})
  /\ UNCHANGED <<config, l1, l2, l3, expired, metrics>>

\* Expired candidates have the highest score.
Foremost(cands) ==
  LET over == {c \in cands : c.expired} IN IF over = {} THEN cands ELSE over

EvictL1(t) ==
  /\ At(t, "evict_l1")
  /\ \/ /\ ~should_continue_eviction \/ calls[t].cands = {} \/ calls[t].left = 0
        /\ calls' = [calls EXCEPT ![t].pc = "insert_l1", ![t].cands = {}, ![t].left = 0]
        /\ history' = Crowd(history, "L1", should_continue_eviction /\ calls[t].left = 0)
        /\ UNCHANGED l1
     \/ /\ should_continue_eviction /\ calls[t].left > 0
        /\ \E c \in Foremost(calls[t].cands) :
             IF l1.map[c.key] = NoEntry
             THEN /\ calls' = [calls EXCEPT ![t].cands = @ \ {c}]
                  /\ UNCHANGED <<l1, history>>
             ELSE /\ calls' = [calls EXCEPT ![t].cands = @ \ {c}, ![t].left = @ - 1]
                  /\ l1' = RemoveFromL1(c.key, c.size)
                  /\ history' = Drift(Excuse(history, {c.key}, OnlyInL1({c.key}) # {}),
                                      "L1", ~RemovesItsSize(c.key, c.size))
  /\ UNCHANGED <<config, l2, l3, expired, metrics>>

InsertL1(t) ==
  LET e == calls[t].entry  fits == e.size <= L1Capacity IN
  /\ At(t, "insert_l1")
  /\ l1' = IF fits THEN InsertIntoL1(calls[t].key, e) ELSE l1
  /\ history' = Returned(t, fits, "L1")
  /\ Finish(t)
  /\ UNCHANGED <<config, l2, l3, expired, metrics>>

FillingL2 == \E u \in Callers : calls[u].pc \in {"evict_l2", "alloc_l2", "insert_l2"}

\* L2Cache::put.
CheckL2(t) ==
  LET e == calls[t].entry
      takes == e.size >= MinEntrySize /\ e.size <= L2Capacity
  IN /\ At(t, "check_l2")
     /\ CASE ~takes -> Finish(t) /\ history' = Returned(t, FALSE, "L2")
          [] takes /\ l2.size + e.size > L2Capacity ->
               /\ calls' = [calls EXCEPT ![t].pc = "evict_l2", ![t].cands = L2Candidates]
               /\ history' = Crowd(history, "L2", FillingL2)
          [] OTHER -> Goto(t, "alloc_l2") /\ history' = Crowd(history, "L2", FillingL2)
     /\ UNCHANGED <<config, l1, l2, l3, expired, metrics>>

\* The index is locked for the whole loop.
EvictL2(t) ==
  /\ At(t, "evict_l2")
  /\ \E gone \in Gone(calls[t].cands, L2Capacity - calls[t].entry.size) :
       LET hashes == {c.hash : c \in gone}
           stale == {c \in gone : l2.index[c.hash] # NoEntry /\ l2.index[c.hash].size # c.size}
       IN /\ l2' = [l2 EXCEPT !.size = CounterWithout(gone),
                              !.index = [h \in DOMAIN l2.index |->
                                           IF h \in hashes THEN NoEntry ELSE l2.index[h]]]
          /\ history' = Drift(Excuse(history, OnlyInL2(hashes), TRUE), "L2", stale # {})
  /\ calls' = [calls EXCEPT ![t].pc = "alloc_l2", ![t].cands = {}]
  /\ UNCHANGED <<config, l1, l3, expired, metrics>>

\* The offset is taken first, the file is read next.
AllocL2(t) ==
  /\ At(t, "alloc_l2")
  /\ l2' = [l2 EXCEPT !.offset = @ + calls[t].entry.size]
  /\ calls' = [calls EXCEPT ![t].pc = "insert_l2", ![t].left = l2.offset]
  /\ history' = [history EXCEPT !.crossed = @ \/ \E u \in Callers : At(u, "insert_l2")]
  /\ UNCHANGED <<config, l1, l3, expired, metrics>>

Rotates(offset, size) == offset + size > MaxFileSize

\* Mutant: the offset starts again in the same file.
RewindsFile(size) == [l2 EXCEPT !.offset = size]

\* A full file is left behind, the entry that did not fit into it included.
Rotated(size) == [l2 EXCEPT !.file = @ + 1, !.offset = size]

InsertL2(t) ==
  LET e == calls[t].entry
      rotated == IF Rotates(calls[t].left, e.size) THEN Rotated(e.size) ELSE l2
  IN /\ At(t, "insert_l2")
     /\ l2' = InsertIntoL2(rotated, Hash[calls[t].key], IndexEntry(e, l2.file, calls[t].left))
     /\ history' = Returned(t, TRUE, "L2")
     /\ Finish(t)
     /\ UNCHANGED <<config, l1, l3, expired, metrics>>

-----------------------------------------------------------------------------
(* CacheManager::delete and CacheManager::clear *)

BeginDelete(t) ==
  \E k \in Keys :
    /\ Begin(t, "delete", k)
    /\ calls' = [calls EXCEPT ![t] = [Idle EXCEPT !.pc = "find_l1", !.op = "delete", !.key = k]]

\* L1Cache::remove reads the entry to know its size.
FindL1(t) ==
  LET e == l1.map[calls[t].key] IN
  /\ At(t, "find_l1")
  /\ calls' = [calls EXCEPT ![t].pc = IF e = NoEntry THEN "delete_l2" ELSE "delete_l1",
                            ![t].entry = e]
  /\ UNCHANGED <<config, l1, l2, l3, expired, metrics, history>>

DeleteL1(t) ==
  LET k == calls[t].key  size == calls[t].entry.size IN
  /\ At(t, "delete_l1")
  /\ IF l1.map[k] = NoEntry THEN UNCHANGED <<l1, history>>
     ELSE /\ l1' = RemoveFromL1(k, size)
          /\ history' = Drift(Excuse(history, {k}, OnlyInL1({k}) # {}), "L1",
                              ~RemovesItsSize(k, size))
  /\ calls' = [calls EXCEPT ![t].pc = "delete_l2", ![t].entry = NoEntry]
  /\ UNCHANGED <<config, l2, l3, expired, metrics>>

\* Mutant: a delete goes from L1 to L3.
LeavesL2(t) ==
  /\ At(t, "delete_l2")
  /\ Goto(t, "delete_l3")
  /\ UNCHANGED <<config, l1, l2, l3, expired, metrics, history>>

DeleteL2(t) ==
  LET h == Hash[calls[t].key] IN
  /\ At(t, "delete_l2")
  /\ l2' = [l2 EXCEPT !.index[h] = NoEntry, !.size = Minus(@, SizeIn(l2.index, h))]
  /\ history' = Excuse(history, OnlyInL2({h}), TRUE)
  /\ Goto(t, "delete_l3")
  /\ UNCHANGED <<config, l1, l3, expired, metrics>>

\* When the backend fails, what the caches held is gone and the object is not.
DeleteL3(t) ==
  LET k == calls[t].key IN
  /\ At(t, "delete_l3")
  /\ \/ UNCHANGED <<l3, history>>
     \/ /\ l3' = [l3 EXCEPT ![k] = NoEntry]
        /\ history' = [history EXCEPT !.last[k] = NoEntry]
  /\ Finish(t)
  /\ UNCHANGED <<config, l1, l2, expired, metrics>>

\* L1 is emptied and its counter set to zero after it.
BeginClear(t) ==
  /\ At(t, "idle")
  /\ history.ops < MaxOps
  /\ l1' = [l1 EXCEPT !.map = EmptyL1.map]
  /\ history' = Excuse([history EXCEPT !.ops = @ + 1], OnlyInL1(Keys), TRUE)
  /\ calls' = [calls EXCEPT ![t] = [Idle EXCEPT !.pc = "zero_l1", !.op = "clear"]]
  /\ UNCHANGED <<config, l2, l3, expired, metrics>>

ZeroL1(t) ==
  /\ At(t, "zero_l1")
  /\ l1' = [l1 EXCEPT !.size = 0]
  /\ history' = Drift(history, "L1", Present(l1.map) # {})
  /\ Goto(t, "clear_l2")
  /\ UNCHANGED <<config, l2, l3, expired, metrics>>

ClearL2(t) ==
  /\ At(t, "clear_l2")
  /\ l2' = [l2 EXCEPT !.index = [h \in DOMAIN @ |-> NoEntry], !.size = 0, !.offset = 0]
  /\ history' = [Excuse(history, OnlyInL2(DOMAIN l2.index), TRUE)
                   EXCEPT !.crossed = @ \/ \E u \in Callers : At(u, "insert_l2")]
  /\ Finish(t)
  /\ UNCHANGED <<config, l1, l3, expired, metrics>>

-----------------------------------------------------------------------------
\* The TTL of a version is over, for every copy that still has it.
Expire ==
  /\ \E k \in Present(l1.map) :
       /\ l1.map[k].ttl /\ l1.map[k].ver \notin expired
       /\ expired' = expired \cup {l1.map[k].ver}
  /\ UNCHANGED <<config, l1, l2, l3, calls, metrics, history>>

Step(t) ==
  \/ GetL1(t) \/ DropExpired(t) \/ GetL2(t) \/ GetL3(t)
  \/ PutL3(t) \/ CheckL1(t) \/ EvictL1(t) \/ InsertL1(t)
  \/ CheckL2(t) \/ EvictL2(t) \/ AllocL2(t) \/ InsertL2(t)
  \/ FindL1(t) \/ DeleteL1(t) \/ DeleteL2(t) \/ DeleteL3(t)
  \/ ZeroL1(t) \/ ClearL2(t)

Next ==
  \/ Expire
  \/ \E t \in Callers :
       BeginGet(t) \/ BeginPut(t) \/ BeginDelete(t) \/ BeginClear(t) \/ Step(t)

\* L3 holds objects of earlier days.
FirstVersion == CHOOSE f \in [Keys -> 1 .. Cardinality(Keys)] : IsInjective(f)

StoredL3 == [k \in Keys |-> IF InL3[k] = 0 THEN NoEntry
                            ELSE [ver |-> FirstVersion[k], size |-> InL3[k]]]

NoMetrics == [m \in {"l1_hit", "l1_miss", "l2_hit", "l2_miss", "l3_hit", "l3_miss",
                      "l3_to_l2", "l2_to_l1"} |-> 0]

Init ==
  /\ config \in Configs
  /\ l1 = EmptyL1
  /\ l2 = EmptyL2
  /\ l3 = StoredL3
  /\ expired = {}
  /\ calls = [t \in Callers |-> Idle]
  /\ metrics = NoMetrics
  /\ history = [next |-> Cardinality(Keys) + 1, ops |-> 0, gets |-> 0,
                last |-> [k \in Keys |-> IF InL3[k] = 0 THEN NoEntry ELSE FirstVersion[k]],
                stored |-> 1 .. Cardinality(Keys), excused |-> {}, drifted |-> {},
                crowded |-> {}, crossed |-> FALSE]

Spec == Init /\ [][Next]_vars

-----------------------------------------------------------------------------
(* Properties *)

CallTypeOK(c) ==
  /\ c.pc \in {"idle", "get_l1", "drop_expired", "get_l2", "get_l3", "put_l3", "check_l1",
               "evict_l1", "insert_l1", "check_l2", "evict_l2", "alloc_l2", "insert_l2",
               "find_l1", "delete_l1", "delete_l2", "delete_l3", "zero_l1", "clear_l2"}
  /\ c.op \in {"none", "get", "put", "delete", "clear"}
  /\ c.key \in Keys \cup {NoEntry} /\ c.entry \in Entries \cup {NoEntry} /\ c.left \in Nat

\* Types; and L1 holds nothing that could not fit into it, nor L2 what is too
\* small or too large for it.
CacheTypeOK ==
  /\ l1.map \in [Keys -> Entries \cup {NoEntry}]
  /\ {l1.size, l2.size} \subseteq 0 .. (Word - 1)
  /\ {l2.file, l2.offset} \subseteq Nat
  /\ \A k \in Present(l1.map) : l1.map[k].size <= L1Capacity
  /\ \A h \in Present(l2.index) : l2.index[h].size \in Sizes \cap (MinEntrySize .. L2Capacity)
  /\ \A t \in Callers : CallTypeOK(calls[t])

\* While no operation on a key runs, every copy of it is the version put last,
\* and with write-through L3 has that version: what a get then returns, from
\* whichever tier, is what was put.  The code breaks it for keys on which a
\* write overlapped another operation (what a get read before an await is
\* promoted over a newer object), for keys of which a put left the copy of
\* another tier behind, and, without write-through, for keys whose only copy
\* was evicted.
CopiesAreCurrent ==
  \A k \in Keys \ history.excused : Busy(k) = {} =>
    /\ \A e \in {l1.map[k], l2.index[Hash[k]]} \ {NoEntry} : e.ver = history.last[k]
    /\ config.write_through \/ history.last[k] \in history.stored \cup {NoEntry} =>
         IF l3[k] = NoEntry THEN history.last[k] = NoEntry ELSE l3[k].ver = history.last[k]

\* With write-through, what L1 and L2 hold has been accepted by L3, whatever
\* runs at once: an object whose put has failed is never served.
CachedWasStored ==
  config.write_through =>
    /\ \A k \in Present(l1.map) : l1.map[k].ver \in history.stored
    /\ \A h \in Present(l2.index) : l2.index[h].ver \in history.stored

\* The counters of bytes, by which entries are evicted, are the sizes of what
\* the tiers hold, unless a removal subtracted a size it had read before
\* another caller replaced or removed the entry.  (clear empties L1 first.)
SizesAreExact ==
  /\ "L1" \notin history.drifted /\ (\A t \in Callers : ~At(t, "zero_l1"))
       => l1.size = BytesOf(l1.map)
  /\ "L2" \notin history.drifted => l2.size = BytesOf(l2.index)

\* L1 evicts before it inserts and does not ask whether the entry will fit: it
\* may hold more than its capacity, by less than one entry above the mark at
\* which it evicts.  L2 keeps to its capacity.  Both only while one caller at a
\* time fills the tier and a batch of evictions is large enough.
CachesAreBounded ==
  /\ "L1" \notin history.drifted \cup history.crowded =>
       100 * BytesOf(l1.map) < HighPercent * L1Capacity + 100 * L1Capacity
  /\ "L2" \notin history.drifted \cup history.crowded => BytesOf(l2.index) <= L2Capacity

\* No two entries of L2's index share bytes of a file, unless two callers took
\* space at once (one then reads the number of the other's new file).
ExtentsAreDisjoint ==
  ~history.crossed =>
    \A g, h \in Present(l2.index) :
      LET a == l2.index[g]  b == l2.index[h] IN
        g # h /\ a.file = b.file =>
          a.offset + a.size <= b.offset \/ b.offset + b.size <= a.offset

Uncounted(pcs) == Cardinality({t \in Callers : calls[t].pc \in pcs})

\* The counters from which the hit ratios are computed count every get once: a
\* hit of one tier or the miss of the last, and each tier's misses are the
\* gets of the next.  No object is promoted that was not hit.
GetsAreCounted ==
  /\ metrics.l1_hit + metrics.l1_miss + Uncounted({"get_l1"}) = history.gets
  /\ metrics.l2_hit + metrics.l2_miss + Uncounted({"drop_expired", "get_l2"}) = metrics.l1_miss
  /\ metrics.l3_hit + metrics.l3_miss + Uncounted({"get_l3"}) = metrics.l2_miss
  /\ metrics.l3_to_l2 <= metrics.l3_hit
  /\ metrics.l2_to_l1 <= metrics.l2_hit + metrics.l3_hit

\* The tiers agree on what a key's object is, and none of them has one that was refused.
TiersAgree == CopiesAreCurrent /\ CachedWasStored

\* What the tiers count is what they hold: bytes, which bounds them, and gets.
CountersAreExact == CacheTypeOK /\ SizesAreExact /\ CachesAreBounded /\ GetsAreCounted
=============================================================================
