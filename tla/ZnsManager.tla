----------------------------- MODULE ZnsManager -----------------------------
(***************************************************************************)
(* The zone allocator and the ZNS manager (src/spdk/zns.rs).               *)
(*                                                                         *)
(* Stripes are appended to zones, and a zone is written again only after   *)
(* it has been reset as a whole.  An append looks for a zone, writes at    *)
(* the write pointer it saw there, and records the write; the locks on the *)
(* zones and on the list of open zones are released in between.  A caller  *)
(* that moves or drops a stripe reports its location as garbage, once, and *)
(* a collector resets the zones that find_zones_for_gc names: both are the *)
(* module's documented use, and neither is in the repository.              *)
(***************************************************************************)
EXTENDS Integers, Sequences, FiniteSets, SequencesExt

CONSTANTS
  Writers,         \* threads that append stripes
  Collectors,      \* threads that reset zones
  Devices,
  ZonesOf,         \* the number of zones of each device
  ZoneSize,
  WriteAlignment,
  MaxOpenZones,
  DataSizes,       \* the sizes of the stripes
  Strategies,      \* ZoneSelectionStrategy
  GarbagePercent   \* the threshold the collectors use

AllZones == FoldFunction(+, 0, ZonesOf)

ASSUME ZnsAssumption ==
  /\ ZonesOf \in [Devices -> Nat \ {0}]
  /\ ZoneSize \in Nat \ {0} /\ WriteAlignment \in Nat \ {0}
  /\ MaxOpenZones \in Nat \ {0}
  /\ DataSizes \subseteq Nat \ {0}
  /\ Strategies \subseteq {"FirstFit", "BestFit", "RoundRobin", "DeviceBalanced"}
  /\ GarbagePercent \in 0..100
  /\ AllZones \in Nat

VARIABLES
  zones,           \* the zones of the registered devices, by id
  open_zone_ids,   \* zones being written, in the order they were opened
  next_zone_hint,  \* where the round robin goes on
  strategy,
  writer,          \* the appends under way
  candidates,      \* zones each collector has been told to reset
  live             \* history: locations returned and not yet reported as garbage

vars == <<zones, open_zone_ids, next_zone_hint, strategy, writer, candidates, live>>

Registered == DOMAIN zones
Zone == [device: Devices, write_pointer: 0..ZoneSize, state: {"Empty", "Open", "Full"},
         stripes_written: Nat, valid_stripes: Nat]
Location == [zone: Nat, offset: Nat, length: DataSizes]

new(d) == [device |-> d, write_pointer |-> 0, state |-> "Empty",
           stripes_written |-> 0, valid_stripes |-> 0]

\* next_zone_hint is used modulo the number of zones registered, so it is kept
\* modulo a number that all of those divide.
HintCycle ==
  LET factorial[n \in 0..AllZones] == IF n = 0 THEN 1 ELSE n * factorial[n - 1]
  IN  factorial[AllZones]

remaining_space(z) == IF z.write_pointer > ZoneSize THEN 0 ELSE ZoneSize - z.write_pointer

has_space(z, n) == z.state \in {"Empty", "Open"} /\ remaining_space(z) >= n

align_size(n) == ((n + WriteAlignment - 1) \div WriteAlignment) * WriteAlignment

\* A list of zones after retain has dropped every occurrence of one.
Without(ids, id) ==
  LET kept[n \in 0..Len(ids)] ==
        IF n = 0 THEN <<>>
        ELSE IF ids[n] = id THEN kept[n - 1] ELSE Append(kept[n - 1], ids[n])
  IN  kept[Len(ids)]

NoAppend == [pc |-> "idle"]
At(w, pc) == writer[w].pc = pc
Goto(w, pc) == writer' = [writer EXCEPT ![w].pc = pc]
Return(w) == writer' = [writer EXCEPT ![w] = NoAppend]

\* An append that has found the zone id as the record z.
Append_(pc, size, id, z) == [pc |-> pc, size |-> size, id |-> id, seen |-> z]
Found(w, pc, id, z) == writer' = [writer EXCEPT ![w] = Append_(pc, @.size, id, z)]

-----------------------------------------------------------------------------
(* Registering devices.                                                    *)

register_device(d) ==
  /\ d \notin {zones[i].device : i \in Registered}
  /\ LET n == Cardinality(Registered)
     IN  zones' = [i \in 0..(n + ZonesOf[d] - 1) |-> IF i < n THEN zones[i] ELSE new(d)]
  /\ UNCHANGED <<open_zone_ids, next_zone_hint, strategy, writer, candidates, live>>

-----------------------------------------------------------------------------
(* Selecting a zone.                                                       *)

WithSpace(n) == {i \in Registered : has_space(zones[i], n)}

\* The map of zones has no order: any zone with space may be the first.
select_first_fit(n) == WithSpace(n)

select_best_fit(n) ==
  {i \in WithSpace(n) : \A j \in WithSpace(n) :
     remaining_space(zones[i]) >= remaining_space(zones[j])}

\* The distance of zone i from where the search begins.
FromHint(i) == (i - next_zone_hint) % Cardinality(Registered)

select_round_robin(n) ==
  {i \in WithSpace(n) : \A j \in WithSpace(n) : FromHint(i) <= FromHint(j)}

OpenOn(d) == Cardinality({i \in Registered : zones[i].state = "Open" /\ zones[i].device = d})

select_device_balanced(n) ==
  {i \in WithSpace(n) : \A j \in WithSpace(n) :
     OpenOn(zones[i].device) <= OpenOn(zones[j].device)}

Selected(n) ==
  CASE strategy = "FirstFit"       -> select_first_fit(n)
    [] strategy = "BestFit"        -> select_best_fit(n)
    [] strategy = "RoundRobin"     -> select_round_robin(n)
    [] strategy = "DeviceBalanced" -> select_device_balanced(n)

-----------------------------------------------------------------------------
(* Appending a stripe.                                                     *)

\* The first open zone with space is taken, or else one has to be opened.
append_stripe(w, size) ==
  LET fits == {k \in DOMAIN open_zone_ids : has_space(zones[open_zone_ids[k]], align_size(size))}
      id   == open_zone_ids[Min(fits)]
  IN  /\ At(w, "idle")
      /\ writer' = [writer EXCEPT ![w] =
           IF fits # {} THEN Append_("append", size, id, zones[id])
                        ELSE [pc |-> "count", size |-> size]]
      /\ UNCHANGED <<zones, open_zone_ids, next_zone_hint, strategy, candidates, live>>

\* allocate_zone, up to its first unlock.
CountOpen(w) ==
  /\ At(w, "count")
  /\ IF Len(open_zone_ids) >= MaxOpenZones THEN Return(w) ELSE Goto(w, "select")
  /\ UNCHANGED <<zones, open_zone_ids, next_zone_hint, strategy, candidates, live>>

SelectZone(w) ==
  LET selected == Selected(align_size(writer[w].size))
  IN  /\ At(w, "select")
      /\ IF selected = {} THEN Return(w)
                          ELSE \E i \in selected : Found(w, "insert", i, zones[i])
      /\ next_zone_hint' = IF strategy = "RoundRobin" /\ Registered # {}
                             THEN (next_zone_hint + 1) % HintCycle ELSE next_zone_hint
      /\ UNCHANGED <<zones, open_zone_ids, strategy, candidates, live>>

\* The zone is put back as it was seen, but open.
MarkOpen(w) ==
  LET opened == [writer[w].seen EXCEPT !.state = "Open"]
  IN  /\ At(w, "insert")
      /\ zones' = [zones EXCEPT ![writer[w].id] = opened]
      /\ Found(w, "push", writer[w].id, opened)
      /\ UNCHANGED <<open_zone_ids, next_zone_hint, strategy, candidates, live>>

PushOpen(w) ==
  /\ At(w, "push")
  /\ open_zone_ids' = Append(open_zone_ids, writer[w].id)
  /\ Goto(w, "append")
  /\ UNCHANGED <<zones, next_zone_hint, strategy, candidates, live>>

\* What is checked is the zone as it was seen.
do_append_write(w) ==
  /\ At(w, "append")
  /\ IF has_space(writer[w].seen, writer[w].size) THEN Goto(w, "record") ELSE Return(w)
  /\ UNCHANGED <<zones, open_zone_ids, next_zone_hint, strategy, candidates, live>>

Written(z, size) ==
  LET wp == z.write_pointer + align_size(size)
  IN  [z EXCEPT !.write_pointer = wp, !.stripes_written = @ + 1, !.valid_stripes = @ + 1,
                !.state = IF ZoneSize - wp < WriteAlignment THEN "Full" ELSE @]

\* The location the caller gets lies where the write pointer was seen.
TargetOf(w) == [zone |-> writer[w].id, offset |-> writer[w].seen.write_pointer,
                length |-> writer[w].size]

\* Mutant: a full zone stays on the list of open zones.
RecordKeepsOpen(w) ==
  /\ At(w, "record")
  /\ zones' = [zones EXCEPT ![writer[w].id] = Written(@, writer[w].size)]
  /\ live' = live \union {TargetOf(w)}
  /\ Return(w)
  /\ UNCHANGED <<open_zone_ids, next_zone_hint, strategy, candidates>>

record_write(w) ==
  LET id == writer[w].id
      z  == Written(zones[id], writer[w].size)
  IN  /\ At(w, "record")
      /\ zones' = [zones EXCEPT ![id] = z]
      /\ open_zone_ids' = IF z.state = "Full" THEN Without(open_zone_ids, id) ELSE open_zone_ids
      /\ live' = live \union {TargetOf(w)}
      /\ Return(w)
      /\ UNCHANGED <<next_zone_hint, strategy, candidates>>

-----------------------------------------------------------------------------
(* Garbage.                                                                *)

\* Mutant: any full zone is collected.
ShouldResetFull(z) == z.state = "Full"

should_reset(z) ==
  /\ z.state = "Full"
  /\ z.stripes_written > 0
  /\ 100 * (z.stripes_written - z.valid_stripes) >= GarbagePercent * z.stripes_written

\* Mutant: garbage is counted in full zones only.
InvalidateFull(l) ==
  /\ live' = live \ {l}
  /\ zones' = [zones EXCEPT ![l.zone].valid_stripes =
                 IF @ = 0 \/ zones[l.zone].state # "Full" THEN @ ELSE @ - 1]
  /\ UNCHANGED <<open_zone_ids, next_zone_hint, strategy, writer, candidates>>

\* The owner of a location reports it once.
invalidate_location(l) ==
  /\ live' = live \ {l}
  /\ zones' = [zones EXCEPT ![l.zone].valid_stripes = IF @ = 0 THEN 0 ELSE @ - 1]
  /\ UNCHANGED <<open_zone_ids, next_zone_hint, strategy, writer, candidates>>

find_zones_for_gc(c) ==
  /\ candidates[c] = {}
  /\ candidates' = [candidates EXCEPT ![c] = {i \in Registered : should_reset(zones[i])}]
  /\ UNCHANGED <<zones, open_zone_ids, next_zone_hint, strategy, writer, live>>

\* No state the code ever gives a zone forbids a reset.
reset_zone(c, i) ==
  /\ candidates' = [candidates EXCEPT ![c] = @ \ {i}]
  /\ zones' = [zones EXCEPT ![i] = new(@.device)]
  /\ open_zone_ids' = Without(open_zone_ids, i)
  /\ UNCHANGED <<next_zone_hint, strategy, writer, live>>

-----------------------------------------------------------------------------
(* The specification.                                                      *)

Init ==
  /\ zones = <<>>
  /\ open_zone_ids = <<>>
  /\ next_zone_hint = 0
  /\ strategy \in Strategies
  /\ writer = [w \in Writers |-> NoAppend]
  /\ candidates = [c \in Collectors |-> {}]
  /\ live = {}

AllocateStep(w) == CountOpen(w) \/ SelectZone(w) \/ MarkOpen(w) \/ PushOpen(w)

Next ==
  \/ \E d \in Devices : register_device(d)
  \/ \E w \in Writers :
       \/ \E size \in DataSizes : append_stripe(w, size)
       \/ AllocateStep(w)
       \/ do_append_write(w)
       \/ record_write(w)
  \/ \E l \in live : invalidate_location(l)
  \/ \E c \in Collectors :
       \/ find_zones_for_gc(c)
       \/ \E i \in candidates[c] : reset_zone(c, i)

Spec == Init /\ [][Next]_vars

-----------------------------------------------------------------------------
(* Properties.                                                             *)

\* Everything is what it is declared to be; no zone is written beyond its end.
TypeOK ==
  /\ Registered = 0..(Cardinality(Registered) - 1)
  /\ zones \in [Registered -> Zone]
  /\ open_zone_ids \in Seq(Registered)
  /\ next_zone_hint \in 0..(HintCycle - 1)
  /\ strategy \in Strategies
  /\ \A w \in Writers :
       /\ writer[w].pc \in {"idle", "count", "select", "insert", "push", "append", "record"}
       /\ ~At(w, "idle") => writer[w].size \in DataSizes
       /\ writer[w].pc \in {"insert", "push", "append", "record"} =>
            writer[w].id \in Registered /\ writer[w].seen \in Zone
  /\ candidates \in [Collectors -> SUBSET Registered]
  /\ live \subseteq Location

Overlap(a, b) ==
  /\ a.zone = b.zone
  /\ a.offset < b.offset + b.length
  /\ b.offset < a.offset + a.length

Targeted == {w \in Writers : writer[w].pc \in {"append", "record"}}

\* "Write at zone's write pointer (sequential)": no two stripes in use, nor one
\* in use and one being written, share a block.
LocationsAreDisjoint ==
  /\ \A a, b \in live : a # b => ~Overlap(a, b)
  /\ \A w \in Targeted : \A l \in live : ~Overlap(TargetOf(w), l)
  /\ \A v, w \in Targeted : v # w => ~Overlap(TargetOf(v), TargetOf(w))

\* A stripe in use stays where it is: its zone is not reset, nor its write
\* pointer set back, and it lies aligned.
LiveIsKept ==
  \A l \in live :
    /\ zones[l.zone].state \in {"Open", "Full"}
    /\ l.offset + l.length <= zones[l.zone].write_pointer
    /\ l.offset % WriteAlignment = 0

\* The garbage ratio that decides on a reset is that of the stripes in use.
ValidStripesAreLive ==
  \A i \in Registered :
    zones[i].valid_stripes = Cardinality({l \in live : l.zone = i})

\* The list of open zones holds each open zone once and respects the limit of
\* the device, but for a zone that is just being opened.
OpenZonesAreListed ==
  LET opening == {writer[w].id : w \in {v \in Writers : At(v, "push")}}
  IN  /\ IsInjective(open_zone_ids)
      /\ ToSet(open_zone_ids) = {i \in Registered : zones[i].state = "Open"} \ opening
      /\ Len(open_zone_ids) + Cardinality(opening) <= MaxOpenZones

\* Stripes in use are safe: they share no block with one another or with a write in
\* progress, and nothing resets or rewinds their zones.
LiveStripesAreSafe == TypeOK /\ LocationsAreDisjoint /\ LiveIsKept
=============================================================================
