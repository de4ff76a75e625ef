----------------------- MODULE Reconstruction_proofs -----------------------
(***************************************************************************)
(* Proofs about Reconstruction, for every set of volumes, policies, callers*)
(* and requests, every number of permits and every bound.                  *)
(***************************************************************************)
EXTENDS Reconstruction, Integers, FiniteSetTheorems, TLAPS

-----------------------------------------------------------------------------
(* Maps and sequences.                                                     *)

Elements(s) == {s[i] : i \in 1..Len(s)}
NoRepeats(s) == \A i, j \in 1..Len(s) : s[i] = s[j] => i = j

LEMMA ElementsAre ==
  ASSUME NEW S, NEW s \in Seq(S)
  PROVE  Elements(s) \subseteq S
BY DEF Elements

LEMMA AppendIs ==
  ASSUME NEW S, NEW s \in Seq(S), NEW x \in S
  PROVE  /\ Append(s, x) \in Seq(S) /\ Len(Append(s, x)) = Len(s) + 1 /\ Len(s) \in Nat
         /\ Append(s, x)[Len(s) + 1] = x
         /\ \A i \in 1..Len(s) : Append(s, x)[i] = s[i]
         /\ Elements(Append(s, x)) = Elements(s) \union {x}
         /\ NoRepeats(s) /\ x \notin Elements(s) => NoRepeats(Append(s, x))
<1> DEFINE more == Append(s, x)
<1>1. /\ more \in Seq(S) /\ Len(more) = Len(s) + 1 /\ more[Len(s) + 1] = x
      /\ \A i \in 1..Len(s) : more[i] = s[i]
      /\ Len(s) \in Nat
  OBVIOUS
<1> HIDE DEF more
<1>2. \A i \in 1..Len(more) : i \in 1..Len(s) \/ i = Len(s) + 1
  BY <1>1
<1>3. Elements(more) = Elements(s) \union {x}
  BY <1>1, <1>2 DEF Elements
<1>4. NoRepeats(s) /\ x \notin Elements(s) => NoRepeats(more)
  BY <1>1, <1>2 DEF NoRepeats, Elements
<1> QED
  BY <1>1, <1>3, <1>4 DEF more

LEMMA TailIs ==
  ASSUME NEW S, NEW s \in Seq(S), s # <<>>
  PROVE  /\ Tail(s) \in Seq(S) /\ Head(s) \in S /\ Len(Tail(s)) = Len(s) - 1 /\ Len(s) \in Nat
         /\ Len(s) > 0
         /\ Elements(s) = Elements(Tail(s)) \union {Head(s)}
         /\ NoRepeats(s) => NoRepeats(Tail(s)) /\ Head(s) \notin Elements(Tail(s))
<1> DEFINE rest == Tail(s)
<1>1. /\ rest \in Seq(S) /\ Len(rest) = Len(s) - 1 /\ Head(s) = s[1] /\ s[1] \in S
      /\ \A i \in 1..Len(rest) : rest[i] = s[i + 1]
      /\ Len(s) \in Nat /\ Len(s) > 0
  OBVIOUS
<1> HIDE DEF rest
<1>2. \A i \in 1..Len(s) : i = 1 \/ (i - 1 \in 1..Len(rest) /\ rest[i - 1] = s[i])
  BY <1>1
<1>3. \A i \in 1..Len(rest) : i + 1 \in 1..Len(s) /\ i + 1 # 1
  BY <1>1
<1>4. Elements(s) = Elements(rest) \union {Head(s)}
  <2>1. 1 \in 1..Len(s)
    BY <1>1
  <2> QED
    BY <1>1, <1>2, <1>3, <2>1 DEF Elements
<1>5. NoRepeats(s) => NoRepeats(rest)
  <2> SUFFICES ASSUME NoRepeats(s), NEW i \in 1..Len(rest), NEW j \in 1..Len(rest), rest[i] = rest[j]
               PROVE  i = j
    BY DEF NoRepeats
  <2>1. i + 1 = j + 1
    BY <1>1, <1>3 DEF NoRepeats
  <2> QED
    BY <2>1
<1>6. NoRepeats(s) => Head(s) \notin Elements(rest)
  BY <1>1, <1>3 DEF NoRepeats, Elements
<1> QED
  BY <1>1, <1>4, <1>5, <1>6 DEF rest

-----------------------------------------------------------------------------
(* The inductive invariant: types.                                         *)

Statuses == {"Pending", "InProgress", "Completed", "Cancelled"}
CallerPcs == {"idle", "policy", "stripes", "send", "insert"}
WorkerPcs == {"none", "spawned", "running", "policy", "rebuild", "completed", "failed"}
Works == Volumes \X Nat \X SUBSET Nat
VolumeStates == [policy: Policies, stripes: SUBSET Stripes]
CallerRecords ==
  [pc: CallerPcs, vol: Volumes \union {""}, allow: BOOLEAN, todo: SUBSET Stripes,
   spec: Specs \union {NoSpec}, rebuilt: SUBSET Stripes, task: Nat \union {NoTask}]
WorkerRecords ==
  [pc: WorkerPcs, stripe: SUBSET Stripes, policy: Policies \union {""},
   spec: Specs \union {NoSpec}]

\* Stripes of one volume, no two of them with one id.
AreOf(all, v) == \A s, t \in all : s.vol = v /\ (s.id = t.id => s = t)

StripeTypes ==
  /\ DOMAIN volumes \subseteq Volumes /\ volumes \in [DOMAIN volumes -> VolumeStates]
  /\ \A v \in DOMAIN volumes : AreOf(volumes[v].stripes, v)
  /\ objects \subseteq Stripes
  /\ \A o, x \in objects : o.vol = x.vol /\ o.id = x.id => o = x

PolicyTypes ==
  cached \in [Policies -> Specs \union {NoSpec}] /\ cluster \in [Policies -> Specs]

CallerTypes ==
  /\ callers \in [Callers -> CallerRecords]
  /\ \A c \in Callers :
       /\ callers[c].pc = "policy" \/ callers[c].spec # NoSpec => callers[c].vol \in DOMAIN volumes
       /\ callers[c].pc = "stripes" => callers[c].spec # NoSpec
       /\ \A s \in callers[c].todo : s.vol = callers[c].vol

QueueTypes ==
  /\ tasks \in Seq(Works) /\ Len(tasks) <= MaxTasks
  /\ channel \in Seq(0..(Len(tasks) - 1)) /\ Len(channel) <= ChannelCap
  /\ DOMAIN table \subseteq 0..(Len(tasks) - 1) /\ table \in [DOMAIN table -> Statuses]

PoolTypes ==
  /\ workers \in [TaskIds -> WorkerRecords]
  /\ \A t \in TaskIds : workers[t].pc = "policy" \/ workers[t].pc = "rebuild" =>
       workers[t].policy \in Policies
  /\ permits \in Nat /\ loop \in {"running", "stopped"}

HistoryTypes ==
  history \in [calls: Nat, changes: Nat, late: SUBSET Nat, reread: SUBSET Policies]

TypesInv ==
  StripeTypes /\ PolicyTypes /\ CallerTypes /\ QueueTypes /\ PoolTypes /\ HistoryTypes

-----------------------------------------------------------------------------
(* The inductive invariant: what holds between the parts.                  *)

\* A task is sent by one caller, or is on the channel once, or has a worker.
PlacesInv ==
  /\ \A c \in Callers : callers[c].pc \in {"send", "insert"} => callers[c].task \in 0..(Len(tasks) - 1)
  /\ \A c \in Callers : callers[c].pc = "send" =>
       callers[c].task \notin Elements(channel) /\ workers[callers[c].task].pc = "none"
  /\ \A c, d \in Callers :
       callers[c].pc = "send" /\ callers[d].pc = "send" /\ callers[c].task = callers[d].task => c = d
  /\ NoRepeats(channel)
  /\ \A t \in Elements(channel) : workers[t].pc = "none"
  /\ \A t \in TaskIds : workers[t].pc # "none" => t < Len(tasks)

Workers == {t \in TaskIds : Running(t)}
PermitsInv == permits + Cardinality(Workers) = MaxConcurrent

\* What the table says of a task, and that it still says so of one that has failed.
TellsProgress(t) ==
  LET status == IF t \in DOMAIN table THEN table[t] ELSE "" IN
  /\ Running(t) => status = "InProgress"
  /\ workers[t].pc = "completed" => status = "Completed"
  /\ workers[t].pc = "failed" => status = "InProgress"
  /\ status = "InProgress" => Running(t) \/ workers[t].pc = "failed"
  /\ status = "Cancelled" => workers[t].pc \in {"none", "spawned"}
ProgressInv == \A t \in TaskIds \ history.late : TellsProgress(t)

\* Stripes of a policy that was not read again after an edit have its first parameters,
\* wherever there is a copy, and so has what was loaded of it.
Genuine(s) == s.policy \in history.reread \/ s.code = InitialSpec
GenuineInv ==
  /\ \A p \in Policies : p \in history.reread \/ cached[p] \in {NoSpec, InitialSpec}
  /\ \A o \in objects : Genuine(o)
  /\ \A v \in DOMAIN volumes : \A s \in volumes[v].stripes : Genuine(s)
  /\ \A c \in Callers :
       /\ \A s \in callers[c].todo : Genuine(s)
       /\ callers[c].spec # NoSpec =>
            \/ volumes[callers[c].vol].policy \in history.reread
            \/ callers[c].spec = InitialSpec
  /\ \A t \in TaskIds :
       /\ \A s \in workers[t].stripe : Genuine(s)
       /\ workers[t].pc = "rebuild" =>
            workers[t].policy \in history.reread \/ workers[t].spec = InitialSpec

ReconstructionInv ==
  /\ TypesInv /\ PlacesInv /\ PermitsInv /\ ProgressInv
  /\ DegradedReadsAreRepaired /\ GenuineInv

-----------------------------------------------------------------------------
(* Types.                                                                  *)

LEMMA InitTypesInv == Init => TypesInv
<1> SUFFICES ASSUME Init PROVE TypesInv
  OBVIOUS
<1> USE ReconstructionAssumption
<1>1. StripeTypes
  <2>1. \A v \in DOMAIN Registered : {o \in InitialObjects : o.vol = v} \subseteq Stripes
    OBVIOUS
  <2>2. volumes \in [DOMAIN Registered -> VolumeStates] /\ DOMAIN volumes = DOMAIN Registered
    BY <2>1 DEF Init, VolumeStates
  <2>3. \A v \in DOMAIN volumes : AreOf(volumes[v].stripes, v)
    <3>1. \A v \in DOMAIN volumes : volumes[v].stripes = {o \in InitialObjects : o.vol = v}
      BY <2>2 DEF Init
    <3>2. \A v : AreOf({o \in InitialObjects : o.vol = v}, v)
      BY DEF AreOf
    <3> QED
      BY <3>1, <3>2
  <2> QED
    BY <2>2, <2>3 DEF Init, StripeTypes
<1>2. PolicyTypes
  BY DEF Init, PolicyTypes
<1>3. CallerTypes
  BY DEF Init, CallerTypes, Idle, CallerRecords, CallerPcs
<1>4. QueueTypes
  BY DEF Init, QueueTypes
<1>5. PoolTypes
  BY DEF Init, PoolTypes, NoWorker, WorkerRecords, WorkerPcs
<1>6. HistoryTypes
  BY DEF Init, HistoryTypes
<1> QED
  BY <1>1, <1>2, <1>3, <1>4, <1>5, <1>6 DEF TypesInv

\* What is loaded is a policy's spec; the history notes more.
LEMMA LoadsIs ==
  ASSUME TypesInv, NEW p \in Policies, NEW spec \in Loads(p)
  PROVE  /\ spec \in Specs /\ spec # NoSpec
         /\ Noted(p) \in [calls: {history.calls}, changes: {history.changes},
                          late: {history.late}, reread: SUBSET Policies]
         /\ history.reread \subseteq Noted(p).reread
         /\ \/ p \in Noted(p).reread \/ cached[p] = spec
            \/ cached[p] = NoSpec /\ spec = InitialSpec
<1> USE ReconstructionAssumption DEF TypesInv, PolicyTypes, HistoryTypes
<1>1. spec \in Specs /\ spec # NoSpec
  BY DEF Loads
<1>2. CASE cached[p] = NoSpec /\ cluster[p] # InitialSpec
  BY <1>1, <1>2 DEF Noted
<1>3. CASE ~(cached[p] = NoSpec /\ cluster[p] # InitialSpec)
  BY <1>1, <1>3 DEF Noted, Loads
<1> QED
  BY <1>1, <1>2, <1>3

\* One caller moves, and the others do not.
Moves(c, record) == callers' = [callers EXCEPT ![c] = record]

LEMMA MovesCallerTypes ==
  ASSUME TypesInv, NEW c \in Callers, NEW r \in CallerRecords, Moves(c, r),
         DOMAIN volumes \subseteq DOMAIN volumes',
         r.pc = "policy" \/ r.spec # NoSpec => r.vol \in DOMAIN volumes',
         r.pc = "stripes" => r.spec # NoSpec,
         \A s \in r.todo : s.vol = r.vol
  PROVE  /\ CallerTypes' /\ callers'[c] = r
         /\ \A d \in Callers \ {c} : callers'[d] = callers[d]
<1>1. callers' \in [Callers -> CallerRecords]
  BY DEF Moves, TypesInv, CallerTypes
<1>2. callers'[c] = r /\ \A d \in Callers \ {c} : callers'[d] = callers[d]
  BY DEF Moves, TypesInv, CallerTypes
<1> QED
  BY <1>1, <1>2 DEF TypesInv, CallerTypes

\* A caller of the records, field by field.
LEMMA CallerIs ==
  ASSUME TypesInv, NEW c \in Callers
  PROVE  /\ callers[c] \in CallerRecords
         /\ callers[c] = [pc |-> callers[c].pc, vol |-> callers[c].vol, allow |-> callers[c].allow,
                          todo |-> callers[c].todo, spec |-> callers[c].spec,
                          rebuilt |-> callers[c].rebuilt, task |-> callers[c].task]
BY DEF TypesInv, CallerTypes, CallerRecords

LEMMA IdleIs == Idle \in CallerRecords /\ \A c \in Callers, R \in SUBSET Stripes :
                  [Idle EXCEPT !.rebuilt = R] \in CallerRecords
BY DEF Idle, CallerRecords, CallerPcs

-----------------------------------------------------------------------------
(* What a caller's step needs to keep.                                     *)

LEMMA QuietCaller ==
  ASSUME ReconstructionInv, NEW c \in Callers, NEW r \in CallerRecords, Moves(c, r),
         r.pc \notin {"send", "insert"}, callers[c].pc # "send",
         r.rebuilt \subseteq callers[c].rebuilt,
         UNCHANGED <<queue, table, pool>>, history'.late = history.late
  PROVE  PlacesInv' /\ PermitsInv' /\ ProgressInv' /\ DegradedReadsAreRepaired'
<1>1. callers'[c] = r /\ \A d \in Callers \ {c} : callers'[d] = callers[d]
  BY DEF Moves, ReconstructionInv, TypesInv, CallerTypes
<1>2. UNCHANGED <<channel, tasks, table, workers, permits>>
  BY DEF queue, pool
<1>3. PlacesInv'
  BY <1>1, <1>2 DEF ReconstructionInv, PlacesInv
<1>4. PermitsInv' /\ ProgressInv'
  BY <1>2 DEF ReconstructionInv, PermitsInv, ProgressInv, TellsProgress, Workers, Running
<1>5. DegradedReadsAreRepaired'
  <2> SUFFICES ASSUME NEW d \in Callers, NEW s \in callers'[d].rebuilt
               PROVE  \E t \in TaskIds :
                        /\ t < Len(tasks') /\ tasks'[t + 1] = <<s.vol, s.id, Missing(s)>>
                        /\ \/ IsQueued(t)' \/ workers'[t].pc # "none"
                           \/ callers'[d].pc = "send" /\ callers'[d].task = t
    BY DEF DegradedReadsAreRepaired, Missing, IsHealthy
  <2>1. s \in callers[d].rebuilt
    BY <1>1
  <2>2. PICK t \in TaskIds :
          /\ t < Len(tasks) /\ tasks[t + 1] = <<s.vol, s.id, Missing(s)>>
          /\ \/ IsQueued(t) \/ workers[t].pc # "none"
             \/ callers[d].pc = "send" /\ callers[d].task = t
    BY <2>1 DEF ReconstructionInv, DegradedReadsAreRepaired
  <2>3. IsQueued(t)' = IsQueued(t)
    BY <1>2 DEF IsQueued
  <2> QED
    BY <1>1, <1>2, <2>2, <2>3
<1> QED
  BY <1>3, <1>4, <1>5

\* The parts of the types that a caller's step leaves alone.
LEMMA CallerFrame ==
  ASSUME TypesInv, UNCHANGED <<volumes, cluster, objects>>
  PROVE  /\ StripeTypes'
         /\ cached' \in [Policies -> Specs \union {NoSpec}] => PolicyTypes'
         /\ UNCHANGED <<tasks, channel, table>> => QueueTypes'
         /\ UNCHANGED <<workers, permits, loop>> => PoolTypes'
<1>1. StripeTypes'
  BY DEF TypesInv, StripeTypes
<1>2. cached' \in [Policies -> Specs \union {NoSpec}] => PolicyTypes'
  BY DEF TypesInv, PolicyTypes
<1>3. UNCHANGED <<tasks, channel, table>> => QueueTypes'
  BY DEF TypesInv, QueueTypes
<1>4. UNCHANGED <<workers, permits, loop>> => PoolTypes'
  BY DEF TypesInv, PoolTypes
<1> QED
  BY <1>1, <1>2, <1>3, <1>4

LEMMA GenuineCaller ==
  ASSUME TypesInv, GenuineInv, NEW c \in Callers, NEW r \in CallerRecords, Moves(c, r),
         UNCHANGED <<volumes, objects, workers>>, history.reread \subseteq history'.reread,
         \A p \in Policies : p \in history'.reread \/ cached'[p] \in {NoSpec, InitialSpec},
         \A s \in r.todo : Genuine(s),
         r.spec # NoSpec =>
           volumes[r.vol].policy \in history'.reread \/ r.spec = InitialSpec
  PROVE  GenuineInv'
<1>1. callers'[c] = r /\ \A d \in Callers \ {c} : callers'[d] = callers[d]
  BY DEF Moves, TypesInv, CallerTypes
<1>2. \A s : Genuine(s) => Genuine(s)'
  BY DEF Genuine
<1> QED
  BY <1>1, <1>2 DEF GenuineInv

-----------------------------------------------------------------------------
(* The callers' steps.                                                     *)

\* A call that begins.
LEMMA CallsIs ==
  ASSUME TypesInv, NEW c \in Callers, Calls(c)
  PROVE  /\ callers[c].pc = "idle" /\ UNCHANGED <<metadata, channel, table, pool>>
         /\ UNCHANGED <<volumes, cached, cluster, objects, workers, permits, loop>>
         /\ HistoryTypes' /\ history'.late = history.late /\ history'.reread = history.reread
BY DEF Calls, TypesInv, HistoryTypes, metadata, pool

LEMMA BeginReadInv ==
  ASSUME ReconstructionInv, NEW c \in Callers, BeginRead(c)
  PROVE  ReconstructionInv'
<1>0. TypesInv /\ GenuineInv
  BY DEF ReconstructionInv
<1>1. PICK v \in DOMAIN volumes, range \in Ranges, allow \in BOOLEAN :
        /\ Calls(c) /\ UNCHANGED tasks
        /\ callers' = [callers EXCEPT ![c] = [Idle EXCEPT !.pc = "policy", !.vol = v,
                         !.allow = allow, !.todo = find_stripes_in_range(v, range)]]
  BY DEF BeginRead
<1>2. PICK found : found = find_stripes_in_range(v, range)
  OBVIOUS
<1>3. found \subseteq volumes[v].stripes /\ volumes[v].stripes \in SUBSET Stripes
  BY <1>0, <1>2 DEF find_stripes_in_range, StripesOf, TypesInv, StripeTypes, VolumeStates
<1>4. PICK r : r = [Idle EXCEPT !.pc = "policy", !.vol = v, !.allow = allow, !.todo = found]
  OBVIOUS
<1>5. v \in Volumes
  BY <1>0 DEF TypesInv, StripeTypes
<1>6. /\ r \in CallerRecords /\ r.pc = "policy" /\ r.vol = v /\ r.todo = found
      /\ r.spec = NoSpec /\ r.rebuilt = {}
  BY <1>3, <1>4, <1>5 DEF Idle, CallerRecords, CallerPcs
<1>7. Moves(c, r)
  BY <1>1, <1>2, <1>4 DEF Moves
<1>8. \A s \in found : s.vol = v /\ Genuine(s)
  BY <1>0, <1>3 DEF TypesInv, StripeTypes, AreOf, GenuineInv
<1>9. /\ callers[c].pc = "idle" /\ UNCHANGED <<channel, table, pool, tasks>>
      /\ UNCHANGED <<volumes, cached, cluster, objects, workers, permits, loop>>
      /\ HistoryTypes' /\ history'.late = history.late /\ history'.reread = history.reread
  BY <1>0, <1>1, CallsIs
<1>10. TypesInv'
  <2>1. CallerTypes'
    BY <1>0, <1>6, <1>7, <1>8, <1>9, MovesCallerTypes
  <2>2. StripeTypes' /\ PolicyTypes' /\ QueueTypes' /\ PoolTypes'
    BY <1>0, <1>9, CallerFrame DEF TypesInv, PolicyTypes
  <2> QED
    BY <1>9, <2>1, <2>2 DEF TypesInv
<1>11. GenuineInv'
  BY <1>0, <1>6, <1>7, <1>8, <1>9, GenuineCaller DEF GenuineInv
<1>12. PlacesInv' /\ PermitsInv' /\ ProgressInv' /\ DegradedReadsAreRepaired'
  BY <1>6, <1>7, <1>9, QuietCaller DEF queue
<1> QED
  BY <1>10, <1>11, <1>12 DEF ReconstructionInv

LEMMA FailsIs ==
  ASSUME TypesInv, NEW c \in Callers, Fails(c)
  PROVE  \E r \in CallerRecords :
           /\ Moves(c, r) /\ r.pc = "idle" /\ r.spec = NoSpec /\ r.todo = {}
           /\ r.rebuilt = callers[c].rebuilt
<1>1. PICK R : R = callers[c].rebuilt
  OBVIOUS
<1>2. R \in SUBSET Stripes
  BY <1>1 DEF TypesInv, CallerTypes, CallerRecords
<1>3. PICK r : r = [Idle EXCEPT !.rebuilt = R]
  OBVIOUS
<1>4. r \in CallerRecords /\ r.pc = "idle" /\ r.spec = NoSpec /\ r.todo = {} /\ r.rebuilt = R
  BY <1>2, <1>3, IdleIs DEF Idle
<1>5. Moves(c, r)
  BY <1>1, <1>3 DEF Fails, Moves
<1> QED
  BY <1>1, <1>4, <1>5

\* A call that ends, with its answer or without.
LEMMA EndsInv ==
  ASSUME ReconstructionInv, NEW c \in Callers, Fails(c), callers[c].pc # "send",
         UNCHANGED <<metadata, queue, table, pool, history>>
  PROVE  ReconstructionInv'
<1>0. TypesInv /\ GenuineInv
  BY DEF ReconstructionInv
<1>1. PICK r \in CallerRecords :
        /\ Moves(c, r) /\ r.pc = "idle" /\ r.spec = NoSpec /\ r.todo = {}
        /\ r.rebuilt = callers[c].rebuilt
  BY <1>0, FailsIs
<1>2. UNCHANGED <<volumes, cached, cluster, objects, channel, tasks, table, workers, permits, loop>>
  BY DEF metadata, queue, pool
<1>3. TypesInv'
  <2>1. CallerTypes'
    BY <1>0, <1>1, <1>2, MovesCallerTypes
  <2>2. StripeTypes' /\ PolicyTypes' /\ QueueTypes' /\ PoolTypes'
    BY <1>0, <1>2, CallerFrame DEF TypesInv, PolicyTypes
  <2>3. HistoryTypes'
    BY <1>0 DEF TypesInv, HistoryTypes
  <2> QED
    BY <2>1, <2>2, <2>3 DEF TypesInv
<1>4. GenuineInv'
  BY <1>0, <1>1, <1>2, GenuineCaller DEF GenuineInv
<1>5. PlacesInv' /\ PermitsInv' /\ ProgressInv' /\ DegradedReadsAreRepaired'
  BY <1>1, QuietCaller
<1> QED
  BY <1>3, <1>4, <1>5 DEF ReconstructionInv

\* A policy that is loaded: what is known of the cache and of its parameters afterwards.
LEMMA GotIs ==
  ASSUME TypesInv, GenuineInv, NEW p \in Policies, NEW spec \in Loads(p), Got(p, spec)
  PROVE  /\ spec \in Specs /\ spec # NoSpec
         /\ cached' \in [Policies -> Specs \union {NoSpec}]
         /\ HistoryTypes' /\ history'.late = history.late /\ history.reread \subseteq history'.reread
         /\ \A q \in Policies : q \in history'.reread \/ cached'[q] \in {NoSpec, InitialSpec}
         /\ p \in history'.reread \/ spec = InitialSpec
<1>1. /\ spec \in Specs /\ spec # NoSpec
      /\ history' \in [calls: {history.calls}, changes: {history.changes},
                       late: {history.late}, reread: SUBSET Policies]
      /\ history.reread \subseteq history'.reread
      /\ \/ p \in history'.reread \/ cached[p] = spec
         \/ cached[p] = NoSpec /\ spec = InitialSpec
  BY LoadsIs DEF Got
<1>2. cached \in [Policies -> Specs \union {NoSpec}] /\ cached' = [cached EXCEPT ![p] = spec]
  BY DEF Got, TypesInv, PolicyTypes
<1>3. HistoryTypes' /\ history'.late = history.late
  BY <1>1 DEF HistoryTypes, TypesInv
<1>4. p \in history'.reread \/ spec = InitialSpec
  BY <1>1 DEF GenuineInv
<1>5. ASSUME NEW q \in Policies PROVE q \in history'.reread \/ cached'[q] \in {NoSpec, InitialSpec}
  BY <1>1, <1>2, <1>4 DEF GenuineInv
<1> QED
  BY <1>1, <1>2, <1>3, <1>4, <1>5

\* The caller c has become r when it loaded its policy, or failed to.
Loaded(c, r) ==
  /\ Moves(c, r) /\ r.pc \in {"idle", "stripes"} /\ r.rebuilt = callers[c].rebuilt
  /\ r.todo \subseteq callers[c].todo
  /\ r.pc = "stripes" => r.spec # NoSpec
  /\ r.spec # NoSpec => r.vol \in DOMAIN volumes
  /\ \A s \in r.todo : s.vol = r.vol
  /\ cached' \in [Policies -> Specs \union {NoSpec}]
  /\ HistoryTypes' /\ history'.late = history.late /\ history.reread \subseteq history'.reread
  /\ \A q \in Policies : q \in history'.reread \/ cached'[q] \in {NoSpec, InitialSpec}
  /\ r.spec # NoSpec => volumes[r.vol].policy \in history'.reread \/ r.spec = InitialSpec

LEMMA ReadPolicyInv ==
  ASSUME ReconstructionInv, NEW c \in Callers, ReadPolicy(c)
  PROVE  ReconstructionInv'
<1>0. TypesInv /\ GenuineInv
  BY DEF ReconstructionInv
<1>1. PICK p : p = volumes[callers[c].vol].policy
  OBVIOUS
<1>2. /\ callers[c].pc = "policy" /\ callers[c].vol \in DOMAIN volumes /\ p \in Policies
      /\ UNCHANGED <<volumes, cluster, objects, queue, table, pool>>
      /\ UNCHANGED <<tasks, channel, workers, permits, loop>>
  BY <1>0, <1>1 DEF ReadPolicy, TypesInv, CallerTypes, StripeTypes, VolumeStates, queue, pool
<1>3. \E r \in CallerRecords : Loaded(c, r)
  <2>1. CASE cached[p] = NoSpec /\ Fails(c) /\ UNCHANGED <<cached, history>>
    BY <1>0, <2>1, FailsIs DEF TypesInv, PolicyTypes, HistoryTypes, GenuineInv, Loaded
  <2>2. ASSUME NEW spec \in Loads(p), Got(p, spec), Fails(c) PROVE \E r \in CallerRecords : Loaded(c, r)
    BY <1>0, <1>2, <2>2, FailsIs, GotIs DEF Loaded
  <2>3. ASSUME NEW spec \in Loads(p), Got(p, spec),
               callers' = [callers EXCEPT ![c].pc = "stripes", ![c].spec = spec]
        PROVE  \E r \in CallerRecords : Loaded(c, r)
    <3>1. PICK self \in CallerRecords : self = callers[c]
      BY CallerIs, <1>0
    <3>2. PICK r : r = [self EXCEPT !.pc = "stripes", !.spec = spec]
      OBVIOUS
    <3>3. /\ spec \in Specs /\ spec # NoSpec
          /\ cached' \in [Policies -> Specs \union {NoSpec}]
          /\ HistoryTypes' /\ history'.late = history.late /\ history.reread \subseteq history'.reread
          /\ \A q \in Policies : q \in history'.reread \/ cached'[q] \in {NoSpec, InitialSpec}
          /\ p \in history'.reread \/ spec = InitialSpec
      BY <1>0, <1>2, <2>3, GotIs
    <3>4. /\ r \in CallerRecords /\ r.pc = "stripes" /\ r.spec = spec /\ r.vol = self.vol
          /\ r.todo = self.todo /\ r.rebuilt = self.rebuilt
      BY <3>1, <3>2, <3>3 DEF CallerRecords, CallerPcs
    <3>5. Moves(c, r)
      BY <1>0, <2>3, <3>1, <3>2 DEF Moves, TypesInv, CallerTypes
    <3>6. \A s \in r.todo : s.vol = r.vol
      BY <1>0, <3>1, <3>4 DEF TypesInv, CallerTypes
    <3> QED
      BY <1>1, <1>2, <3>1, <3>3, <3>4, <3>5, <3>6 DEF Loaded
  <2> QED
    BY <1>1, <2>1, <2>2, <2>3 DEF ReadPolicy
<1> PICK r \in CallerRecords : Loaded(c, r)
  BY <1>3
<1>4. TypesInv'
  <2>1. CallerTypes'
    BY <1>0, <1>2, MovesCallerTypes DEF Loaded
  <2>2. StripeTypes' /\ PolicyTypes' /\ QueueTypes' /\ PoolTypes'
    BY <1>0, <1>2, CallerFrame DEF Loaded
  <2> QED
    BY <2>1, <2>2 DEF TypesInv, Loaded
<1>5. \A s \in r.todo : Genuine(s)
  BY <1>0 DEF GenuineInv, Loaded
<1>6. GenuineInv'
  BY <1>0, <1>2, <1>5, GenuineCaller DEF Loaded
<1>7. PlacesInv' /\ PermitsInv' /\ ProgressInv' /\ DegradedReadsAreRepaired'
  BY <1>2, QuietCaller DEF Loaded
<1> QED
  BY <1>4, <1>6, <1>7 DEF ReconstructionInv

LEMMA EndReadInv ==
  ASSUME ReconstructionInv, NEW c \in Callers, EndRead(c)
  PROVE  ReconstructionInv'
<1>1. Fails(c) /\ callers[c].pc # "send" /\ UNCHANGED <<metadata, queue, table, pool, history>>
  BY DEF EndRead, Fails
<1> QED
  BY <1>1, EndsInv

\* A task with a new number: its caller is to send it.
LEMMA QueuesInv ==
  ASSUME ReconstructionInv, NEW c \in Callers, NEW record \in CallerRecords, NEW want \in Works,
         Queues(c, record, want), UNCHANGED <<metadata, channel, table, pool>>,
         callers[c].pc # "send",
         HistoryTypes', history'.late = history.late, history'.reread = history.reread,
         record.spec # NoSpec => record.vol \in DOMAIN volumes,
         record.spec # NoSpec =>
           volumes[record.vol].policy \in history.reread \/ record.spec = InitialSpec,
         \A s \in record.todo : s.vol = record.vol /\ Genuine(s),
         \A s \in record.rebuilt : s \in callers[c].rebuilt \/ want = <<s.vol, s.id, Missing(s)>>
  PROVE  ReconstructionInv'
<1>0. TypesInv /\ GenuineInv /\ PlacesInv
  BY DEF ReconstructionInv
<1>1. PICK r : r = [record EXCEPT !.pc = "send", !.task = Len(tasks)]
  OBVIOUS
<1>2. PICK n \in Nat : n = Len(tasks)
  BY <1>0 DEF TypesInv, QueueTypes
<1>3. /\ tasks \in Seq(Works) /\ n < MaxTasks /\ tasks' = Append(tasks, want) /\ MaxTasks \in Nat
      /\ channel \in Seq(0..(n - 1))
      /\ UNCHANGED <<volumes, cached, cluster, objects, channel, table, workers, permits, loop>>
  BY <1>0, <1>2, ReconstructionAssumption DEF Queues, TypesInv, QueueTypes, metadata, pool
<1>4. /\ r \in CallerRecords /\ r.pc = "send" /\ r.task = n /\ r.spec = record.spec
      /\ r.vol = record.vol /\ r.todo = record.todo /\ r.rebuilt = record.rebuilt
  BY <1>1, <1>2 DEF CallerRecords, CallerPcs
<1>5. Moves(c, r)
  BY <1>1 DEF Queues, Moves
<1>6. callers'[c] = r /\ \A d \in Callers \ {c} : callers'[d] = callers[d]
  BY <1>0, <1>5 DEF Moves, TypesInv, CallerTypes
<1>7. /\ tasks' \in Seq(Works) /\ Len(tasks') = n + 1 /\ tasks'[n + 1] = want
      /\ \A i \in 1..n : tasks'[i] = tasks[i]
  BY <1>2, <1>3, AppendIs
<1>8. TypesInv'
  <2>1. CallerTypes'
    BY <1>0, <1>3, <1>4, <1>5, MovesCallerTypes
  <2>2. StripeTypes' /\ PolicyTypes' /\ PoolTypes'
    BY <1>0, <1>3, CallerFrame DEF TypesInv, PolicyTypes
  <2>3. QueueTypes'
    <3>1. 0..(n - 1) \subseteq 0..n
      OBVIOUS
    <3>2. channel \in Seq(0..n)
      BY <1>3, <3>1
    <3>3. (n + 1) - 1 = n /\ n + 1 <= MaxTasks
      BY <1>3
    <3> QED
      BY <1>0, <1>2, <1>3, <1>7, <3>1, <3>2, <3>3 DEF TypesInv, QueueTypes
  <2> QED
    BY <2>1, <2>2, <2>3 DEF TypesInv
<1>9. GenuineInv'
  BY <1>0, <1>3, <1>4, <1>5, GenuineCaller DEF GenuineInv
<1>10. /\ \A t \in Elements(channel) : t \in Nat /\ t < n
       /\ \A d \in Callers : callers[d].pc \in {"send", "insert"} =>
            callers[d].task \in Nat /\ callers[d].task < n
       /\ \A t \in TaskIds : workers[t].pc # "none" => t < n
       /\ n \in TaskIds /\ workers[n].pc = "none"
  <2>1. \A t \in Elements(channel) : t \in 0..(n - 1)
    BY <1>3 DEF Elements
  <2>2. n \in TaskIds
    BY <1>3 DEF TaskIds
  <2> QED
    BY <1>0, <1>2, <2>1, <2>2 DEF PlacesInv
<1>11. PlacesInv'
  <2>1. \A d \in Callers : callers'[d].pc \in {"send", "insert"} =>
          callers'[d].task \in 0..(Len(tasks') - 1)
    BY <1>4, <1>6, <1>7, <1>10
  <2>2. \A d \in Callers : callers'[d].pc = "send" =>
          callers'[d].task \notin Elements(channel') /\ workers'[callers'[d].task].pc = "none"
    BY <1>0, <1>3, <1>4, <1>6, <1>10 DEF PlacesInv
  <2>3. \A d, e \in Callers :
          callers'[d].pc = "send" /\ callers'[e].pc = "send" /\ callers'[d].task = callers'[e].task
            => d = e
    BY <1>0, <1>4, <1>6, <1>10 DEF PlacesInv
  <2>4. \A t \in TaskIds : workers'[t].pc # "none" => t < Len(tasks')
    BY <1>3, <1>7, <1>10 DEF TaskIds
  <2> QED
    BY <1>0, <1>3, <2>1, <2>2, <2>3, <2>4 DEF PlacesInv
<1>12. PermitsInv' /\ ProgressInv'
  BY <1>3 DEF ReconstructionInv, PermitsInv, ProgressInv, TellsProgress, Workers, Running
<1>13. DegradedReadsAreRepaired'
  <2> SUFFICES ASSUME NEW d \in Callers, NEW s \in callers'[d].rebuilt
               PROVE  \E t \in TaskIds :
                        /\ t < Len(tasks') /\ tasks'[t + 1] = <<s.vol, s.id, Missing(s)>>
                        /\ \/ IsQueued(t)' \/ workers'[t].pc # "none"
                           \/ callers'[d].pc = "send" /\ callers'[d].task = t
    BY DEF DegradedReadsAreRepaired, Missing, IsHealthy
  <2>1. CASE s \in callers[d].rebuilt
    <3>1. PICK t \in TaskIds :
            /\ t < Len(tasks) /\ tasks[t + 1] = <<s.vol, s.id, Missing(s)>>
            /\ \/ IsQueued(t) \/ workers[t].pc # "none"
               \/ callers[d].pc = "send" /\ callers[d].task = t
      BY <2>1 DEF ReconstructionInv, DegradedReadsAreRepaired
    <3>2. IsQueued(t)' = IsQueued(t)
      BY <1>3 DEF IsQueued
    <3>3. t \in Nat /\ t < n + 1 /\ t + 1 \in 1..n
      BY <1>2, <3>1 DEF TaskIds
    <3>4. d # c \/ callers[d].pc # "send"
      OBVIOUS
    <3> QED
      BY <1>2, <1>3, <1>6, <1>7, <3>1, <3>2, <3>3, <3>4
  <2>2. CASE s \notin callers[d].rebuilt
    <3>1. d = c /\ want = <<s.vol, s.id, Missing(s)>>
      BY <1>4, <1>6, <2>2
    <3> QED
      BY <1>4, <1>6, <1>7, <1>10, <3>1
  <2> QED
    BY <2>1, <2>2
<1> QED
  BY <1>8, <1>9, <1>11, <1>12, <1>13 DEF ReconstructionInv

LEMMA ReadStripeInv ==
  ASSUME ReconstructionInv, NEW c \in Callers, ReadStripe(c)
  PROVE  ReconstructionInv'
<1>0. TypesInv /\ GenuineInv
  BY DEF ReconstructionInv
<1>1. PICK self \in CallerRecords : self = callers[c]
  BY <1>0, CallerIs
<1>2. PICK s \in self.todo :
        /\ self.pc = "stripes" /\ UNCHANGED <<metadata, channel, table, pool, history>>
        /\ \/ Fails(c) /\ UNCHANGED tasks
           \/ /\ callers' = [callers EXCEPT ![c] = [self EXCEPT !.todo = @ \ {s}]]
              /\ UNCHANGED tasks
           \/ Queues(c, [[self EXCEPT !.todo = @ \ {s}] EXCEPT !.rebuilt = @ \union {s}],
                     <<s.vol, s.id, Missing(s)>>)
  BY <1>1, Zenon DEF ReadStripe
<1>3. PICK read : read = [self EXCEPT !.todo = @ \ {s}]
  OBVIOUS
<1>4. /\ self.todo \subseteq Stripes /\ self.rebuilt \subseteq Stripes /\ s \in Stripes
      /\ s.vol \in Volumes /\ s.id \in Nat /\ Missing(s) \in SUBSET Nat
  <2>1. self.todo \subseteq Stripes /\ self.rebuilt \subseteq Stripes /\ s \in Stripes
    BY <1>1 DEF CallerRecords
  <2>2. s.vol \in Volumes /\ s.id \in Nat
    BY <2>1, ReconstructionAssumption DEF Stripes
  <2>3. Total(s.code) \in Nat
    BY <2>1, ReconstructionAssumption DEF Stripes, Total
  <2>4. Missing(s) \in SUBSET Nat
    BY <2>3 DEF Missing
  <2> QED
    BY <2>1, <2>2, <2>4
<1>5. /\ read \in CallerRecords /\ read.pc = "stripes" /\ read.todo \subseteq self.todo
      /\ read.spec = self.spec /\ read.vol = self.vol /\ read.rebuilt = self.rebuilt
  BY <1>2, <1>3, <1>4 DEF CallerRecords
<1>6. HistoryTypes' /\ history'.late = history.late /\ history'.reread = history.reread
  BY <1>0, <1>2 DEF TypesInv, HistoryTypes
<1>7. /\ self.spec # NoSpec /\ self.vol \in DOMAIN volumes
      /\ volumes[self.vol].policy \in history.reread \/ self.spec = InitialSpec
      /\ \A x \in self.todo : x.vol = self.vol /\ Genuine(x)
  BY <1>0, <1>1, <1>2 DEF TypesInv, CallerTypes, GenuineInv
<1>8. CASE Fails(c) /\ UNCHANGED tasks
  BY <1>1, <1>2, <1>8, EndsInv DEF queue
<1>9. CASE callers' = [callers EXCEPT ![c] = read] /\ UNCHANGED tasks
  <2>1. /\ Moves(c, read)
        /\ UNCHANGED <<volumes, cached, cluster, objects, channel, tasks, table, workers, permits, loop>>
    BY <1>2, <1>9 DEF Moves, metadata, pool
  <2>2. TypesInv'
    <3>1. CallerTypes'
      BY <1>0, <1>5, <1>7, <2>1, MovesCallerTypes
    <3>2. StripeTypes' /\ PolicyTypes' /\ QueueTypes' /\ PoolTypes'
      BY <1>0, <2>1, CallerFrame DEF TypesInv, PolicyTypes
    <3> QED
      BY <1>6, <3>1, <3>2 DEF TypesInv
  <2>3. GenuineInv'
    BY <1>0, <1>5, <1>6, <1>7, <2>1, GenuineCaller DEF GenuineInv
  <2>4. PlacesInv' /\ PermitsInv' /\ ProgressInv' /\ DegradedReadsAreRepaired'
    BY <1>1, <1>2, <1>5, <1>6, <2>1, QuietCaller DEF queue, pool
  <2> QED
    BY <2>2, <2>3, <2>4 DEF ReconstructionInv
<1>10. CASE Queues(c, [read EXCEPT !.rebuilt = @ \union {s}], <<s.vol, s.id, Missing(s)>>)
  <2>1. PICK record : record = [read EXCEPT !.rebuilt = @ \union {s}]
    OBVIOUS
  <2>2. /\ record \in CallerRecords /\ record.todo = read.todo /\ record.spec = self.spec
        /\ record.vol = self.vol /\ record.rebuilt = self.rebuilt \union {s}
    BY <1>4, <1>5, <2>1 DEF CallerRecords
  <2>3. <<s.vol, s.id, Missing(s)>> \in Works
    BY <1>4 DEF Works
  <2>4. Queues(c, record, <<s.vol, s.id, Missing(s)>>)
    BY <1>10, <2>1
  <2>5. \A x \in record.rebuilt :
          x \in callers[c].rebuilt \/ <<s.vol, s.id, Missing(s)>> = <<x.vol, x.id, Missing(x)>>
    BY <1>1, <2>2
  <2> QED
    BY <1>1, <1>2, <1>5, <1>6, <1>7, <2>2, <2>3, <2>4, <2>5, QueuesInv
<1> QED
  BY <1>2, <1>3, <1>8, <1>9, <1>10

LEMMA StartReconstructionInv ==
  ASSUME ReconstructionInv, NEW c \in Callers, StartReconstruction(c)
  PROVE  ReconstructionInv'
<1>0. TypesInv /\ GenuineInv
  BY DEF ReconstructionInv
<1>1. PICK want \in Wants :
        /\ Calls(c)
        /\ \/ Queues(c, Idle, want)
           \/ callers' = [callers EXCEPT ![c] = Idle] /\ UNCHANGED tasks
  BY DEF StartReconstruction
<1>2. want \in Works
  BY ReconstructionAssumption DEF Works
<1>3. /\ callers[c].pc = "idle" /\ UNCHANGED <<metadata, channel, table, pool>>
      /\ UNCHANGED <<volumes, cached, cluster, objects, workers, permits, loop>>
      /\ HistoryTypes' /\ history'.late = history.late /\ history'.reread = history.reread
  BY <1>0, <1>1, CallsIs
<1>4. /\ Idle \in CallerRecords /\ Idle.spec = NoSpec /\ Idle.todo = {} /\ Idle.rebuilt = {}
      /\ Idle.pc = "idle"
  BY IdleIs DEF Idle
<1>5. CASE Queues(c, Idle, want)
  BY <1>2, <1>3, <1>4, <1>5, QueuesInv
<1>6. CASE callers' = [callers EXCEPT ![c] = Idle] /\ UNCHANGED tasks
  <2>1. Moves(c, Idle)
    BY <1>6 DEF Moves
  <2>2. TypesInv'
    <3>1. CallerTypes'
      BY <1>0, <1>3, <1>4, <2>1, MovesCallerTypes
    <3>2. StripeTypes' /\ PolicyTypes' /\ QueueTypes' /\ PoolTypes'
      BY <1>0, <1>3, <1>6, CallerFrame DEF TypesInv, PolicyTypes
    <3> QED
      BY <1>3, <3>1, <3>2 DEF TypesInv
  <2>3. GenuineInv'
    BY <1>0, <1>3, <1>4, <2>1, GenuineCaller DEF GenuineInv
  <2>4. PlacesInv' /\ PermitsInv' /\ ProgressInv' /\ DegradedReadsAreRepaired'
    BY <1>3, <1>4, <1>6, <2>1, QuietCaller DEF queue
  <2> QED
    BY <2>2, <2>3, <2>4 DEF ReconstructionInv
<1> QED
  BY <1>1, <1>5, <1>6

\* The task is on the channel from now on.
LEMMA SendTaskInv ==
  ASSUME ReconstructionInv, NEW c \in Callers, SendTask(c)
  PROVE  ReconstructionInv'
<1>0. TypesInv /\ GenuineInv /\ PlacesInv
  BY DEF ReconstructionInv
<1>1. PICK self \in CallerRecords : self = callers[c]
  BY <1>0, CallerIs
<1>2. PICK r : r = [self EXCEPT !.pc = "insert"]
  OBVIOUS
<1>3. PICK t : t = self.task
  OBVIOUS
<1>4. /\ self.pc = "send" /\ Len(channel) < ChannelCap /\ channel' = Append(channel, t)
      /\ UNCHANGED <<metadata, tasks, table, pool, history>>
      /\ UNCHANGED <<volumes, cached, cluster, objects, workers, permits, loop>>
      /\ Moves(c, r)
  <2>1. Moves(c, r)
    BY <1>0, <1>1, <1>2 DEF SendTask, Moves, TypesInv, CallerTypes
  <2> QED
    BY <1>1, <1>3, <2>1 DEF SendTask, metadata, pool
<1>5. /\ r \in CallerRecords /\ r.pc = "insert" /\ r.spec = self.spec /\ r.vol = self.vol
      /\ r.todo = self.todo /\ r.rebuilt = self.rebuilt /\ r.task = t
  BY <1>2, <1>3 DEF CallerRecords, CallerPcs
<1>6. callers'[c] = r /\ \A d \in Callers \ {c} : callers'[d] = callers[d]
  BY <1>0, <1>4 DEF Moves, TypesInv, CallerTypes
<1>7. /\ t \in 0..(Len(tasks) - 1) /\ t \notin Elements(channel) /\ workers[t].pc = "none"
      /\ t \in TaskIds
  <2>1. t \in 0..(Len(tasks) - 1) /\ t \notin Elements(channel) /\ workers[t].pc = "none"
    BY <1>0, <1>1, <1>3, <1>4 DEF PlacesInv
  <2>2. Len(tasks) \in Nat /\ Len(tasks) <= MaxTasks /\ MaxTasks \in Nat
    BY <1>0, ReconstructionAssumption DEF TypesInv, QueueTypes
  <2> QED
    BY <2>1, <2>2 DEF TaskIds
<1>8. /\ channel' \in Seq(0..(Len(tasks) - 1)) /\ Len(channel') = Len(channel) + 1
      /\ Len(channel) \in Nat /\ channel'[Len(channel) + 1] = t
      /\ \A i \in 1..Len(channel) : channel'[i] = channel[i]
      /\ Elements(channel') = Elements(channel) \union {t} /\ NoRepeats(channel')
  <2>1. channel \in Seq(0..(Len(tasks) - 1)) /\ NoRepeats(channel)
    BY <1>0 DEF TypesInv, QueueTypes, PlacesInv
  <2> QED
    BY <1>4, <1>7, <2>1, AppendIs
<1>9. TypesInv'
  <2>1. CallerTypes'
    BY <1>0, <1>1, <1>4, <1>5, MovesCallerTypes DEF TypesInv, CallerTypes
  <2>2. StripeTypes' /\ PolicyTypes' /\ PoolTypes'
    BY <1>0, <1>4, CallerFrame DEF TypesInv, PolicyTypes
  <2>3. QueueTypes'
    BY <1>0, <1>4, <1>8, ReconstructionAssumption DEF TypesInv, QueueTypes
  <2>4. HistoryTypes'
    BY <1>0, <1>4 DEF TypesInv, HistoryTypes
  <2> QED
    BY <2>1, <2>2, <2>3, <2>4 DEF TypesInv
<1>10. GenuineInv'
  BY <1>0, <1>1, <1>4, <1>5, GenuineCaller DEF GenuineInv
<1>11. PlacesInv'
  <2>1. \A d \in Callers : callers'[d].pc \in {"send", "insert"} =>
          callers'[d].task \in 0..(Len(tasks') - 1)
    BY <1>0, <1>4, <1>5, <1>6, <1>7 DEF PlacesInv
  <2>2. \A d \in Callers : callers'[d].pc = "send" =>
          callers'[d].task \notin Elements(channel') /\ workers'[callers'[d].task].pc = "none"
    BY <1>0, <1>1, <1>3, <1>4, <1>5, <1>6, <1>8 DEF PlacesInv
  <2>3. \A d, e \in Callers :
          callers'[d].pc = "send" /\ callers'[e].pc = "send" /\ callers'[d].task = callers'[e].task
            => d = e
    BY <1>0, <1>5, <1>6 DEF PlacesInv
  <2>4. \A x \in Elements(channel') : workers'[x].pc = "none"
    BY <1>0, <1>4, <1>7, <1>8 DEF PlacesInv
  <2> QED
    BY <1>0, <1>4, <1>8, <2>1, <2>2, <2>3, <2>4 DEF PlacesInv
<1>12. PermitsInv' /\ ProgressInv'
  BY <1>4 DEF ReconstructionInv, PermitsInv, ProgressInv, TellsProgress, Workers, Running
<1>13. DegradedReadsAreRepaired'
  <2> SUFFICES ASSUME NEW d \in Callers, NEW s \in callers'[d].rebuilt
               PROVE  \E x \in TaskIds :
                        /\ x < Len(tasks') /\ tasks'[x + 1] = <<s.vol, s.id, Missing(s)>>
                        /\ \/ IsQueued(x)' \/ workers'[x].pc # "none"
                           \/ callers'[d].pc = "send" /\ callers'[d].task = x
    BY DEF DegradedReadsAreRepaired, Missing, IsHealthy
  <2>1. s \in callers[d].rebuilt
    BY <1>1, <1>5, <1>6
  <2>2. PICK x \in TaskIds :
          /\ x < Len(tasks) /\ tasks[x + 1] = <<s.vol, s.id, Missing(s)>>
          /\ \/ IsQueued(x) \/ workers[x].pc # "none"
             \/ callers[d].pc = "send" /\ callers[d].task = x
    BY <2>1 DEF ReconstructionInv, DegradedReadsAreRepaired
  <2>3. \A y \in Elements(channel') : IsQueued(y)'
    BY DEF IsQueued, Elements
  <2>4. IsQueued(x) => IsQueued(x)'
    BY <1>8, <2>3 DEF IsQueued, Elements
  <2>5. IsQueued(t)'
    BY <1>8, <2>3
  <2> QED
    BY <1>1, <1>3, <1>4, <1>6, <2>2, <2>4, <2>5
<1> QED
  BY <1>9, <1>10, <1>11, <1>12, <1>13 DEF ReconstructionInv

\* Reads stay repaired when no task leaves the channel except to a worker.
LEMMA RepairFrame ==
  ASSUME DegradedReadsAreRepaired, tasks' = tasks,
         \A t \in TaskIds : IsQueued(t) \/ workers[t].pc # "none" =>
                            IsQueued(t)' \/ workers'[t].pc # "none",
         \A c \in Callers :
           /\ callers'[c].rebuilt = callers[c].rebuilt
           /\ callers[c].pc = "send" =>
                callers'[c].pc = "send" /\ callers'[c].task = callers[c].task
  PROVE  DegradedReadsAreRepaired'
<1> SUFFICES ASSUME NEW c \in Callers, NEW s \in callers'[c].rebuilt
             PROVE  \E t \in TaskIds :
                      /\ t < Len(tasks') /\ tasks'[t + 1] = <<s.vol, s.id, Missing(s)>>
                      /\ \/ IsQueued(t)' \/ workers'[t].pc # "none"
                         \/ callers'[c].pc = "send" /\ callers'[c].task = t
  BY DEF DegradedReadsAreRepaired, Missing, IsHealthy
<1>1. PICK t \in TaskIds :
        /\ t < Len(tasks) /\ tasks[t + 1] = <<s.vol, s.id, Missing(s)>>
        /\ \/ IsQueued(t) \/ workers[t].pc # "none"
           \/ callers[c].pc = "send" /\ callers[c].task = t
  BY DEF DegradedReadsAreRepaired
<1> QED
  BY <1>1

\* An entry of the table, or a new value of one.
LEMMA EntryIs ==
  ASSUME TypesInv, NEW t \in 0..(Len(tasks) - 1), NEW status \in Statuses,
         table' = insert(table, t, status)
  PROVE  /\ DOMAIN table' = DOMAIN table \union {t} /\ table' \in [DOMAIN table' -> Statuses]
         /\ DOMAIN table' \subseteq 0..(Len(tasks) - 1)
         /\ table'[t] = status /\ \A u \in DOMAIN table : u # t => table'[u] = table[u]
<1>1. PICK f, new : f = table /\ new = insert(f, t, status)
  OBVIOUS
<1>2. f \in [DOMAIN f -> Statuses] /\ DOMAIN f \subseteq 0..(Len(tasks) - 1)
  BY <1>1 DEF TypesInv, QueueTypes
<1>3. /\ DOMAIN new = DOMAIN f \union {t} /\ new \in [DOMAIN new -> Statuses]
      /\ new[t] = status /\ \A u \in DOMAIN f : u # t => new[u] = f[u]
  BY <1>1, <1>2 DEF insert
<1> QED
  BY <1>1, <1>2, <1>3

\* A new entry of the table.  If there is one already, the worker was faster.
LEMMA InsertTaskInv ==
  ASSUME ReconstructionInv, NEW c \in Callers, InsertTask(c)
  PROVE  ReconstructionInv'
<1>0. TypesInv /\ GenuineInv /\ PlacesInv
  BY DEF ReconstructionInv
<1>1. PICK self \in CallerRecords : self = callers[c]
  BY <1>0, CallerIs
<1>2. PICK t : t = self.task
  OBVIOUS
<1>3. PICK r : r = [self EXCEPT !.pc = IF self.spec = NoSpec THEN "idle" ELSE "stripes",
                                !.task = NoTask]
  OBVIOUS
<1>4. /\ self.pc = "insert" /\ table' = insert(table, t, "Pending")
      /\ UNCHANGED <<metadata, queue, pool>>
      /\ UNCHANGED <<volumes, cached, cluster, objects, tasks, channel, workers, permits, loop>>
      /\ Moves(c, r)
  <2>1. Moves(c, r)
    BY <1>0, <1>1, <1>3 DEF InsertTask, Moves, TypesInv, CallerTypes
  <2> QED
    BY <1>1, <1>2, <2>1 DEF InsertTask, metadata, queue, pool
<1>5. /\ r \in CallerRecords /\ r.pc \in {"idle", "stripes"} /\ r.spec = self.spec /\ r.vol = self.vol
      /\ r.todo = self.todo /\ r.rebuilt = self.rebuilt
      /\ r.pc = "stripes" => r.spec # NoSpec
  BY <1>3 DEF CallerRecords, CallerPcs
<1>6. callers'[c] = r /\ \A d \in Callers \ {c} : callers'[d] = callers[d]
  BY <1>0, <1>4 DEF Moves, TypesInv, CallerTypes
<1>7. t \in 0..(Len(tasks) - 1)
  BY <1>0, <1>1, <1>2, <1>4 DEF PlacesInv
<1>8. /\ DOMAIN table' = DOMAIN table \union {t} /\ table' \in [DOMAIN table' -> Statuses]
      /\ table'[t] = "Pending" /\ \A u \in DOMAIN table : u # t => table'[u] = table[u]
  BY <1>0, <1>4, <1>7, EntryIs DEF Statuses
<1>9. /\ HistoryTypes' /\ history'.reread = history.reread /\ history.late \subseteq history'.late
      /\ t \in DOMAIN table => t \in history'.late
  <2>1. CASE t \in DOMAIN table /\ history' = [history EXCEPT !.late = @ \union {t}]
    <3>1. t \in Nat
      BY <1>7
    <3> QED
      BY <1>0, <2>1, <3>1 DEF TypesInv, HistoryTypes
  <2>2. CASE t \notin DOMAIN table /\ history' = history
    BY <1>0, <2>2 DEF TypesInv, HistoryTypes
  <2> QED
    BY <1>1, <1>2, <2>1, <2>2 DEF InsertTask
<1>10. TypesInv'
  <2>1. CallerTypes'
    BY <1>0, <1>1, <1>4, <1>5, MovesCallerTypes DEF TypesInv, CallerTypes
  <2>2. StripeTypes' /\ PolicyTypes' /\ PoolTypes'
    BY <1>0, <1>4, CallerFrame DEF TypesInv, PolicyTypes
  <2>3. QueueTypes'
    BY <1>0, <1>4, <1>7, <1>8 DEF TypesInv, QueueTypes
  <2> QED
    BY <1>9, <2>1, <2>2, <2>3 DEF TypesInv
<1>11. GenuineInv'
  BY <1>0, <1>1, <1>4, <1>5, <1>9, GenuineCaller DEF GenuineInv
<1>12. PlacesInv'
  BY <1>0, <1>4, <1>5, <1>6 DEF PlacesInv
<1>13. PermitsInv'
  BY <1>4 DEF ReconstructionInv, PermitsInv, Workers, Running
<1>14. ProgressInv'
  <2> SUFFICES ASSUME NEW u \in TaskIds \ history'.late PROVE TellsProgress(u)'
    BY DEF ProgressInv
  <2>1. TellsProgress(u)
    BY <1>9 DEF ReconstructionInv, ProgressInv
  <2>2. CASE u = t
    <3>1. u \notin DOMAIN table
      BY <1>9, <2>2
    <3>2. ~Running(u) /\ workers[u].pc \notin {"completed", "failed"}
      BY <2>1, <3>1 DEF TellsProgress
    <3> QED
      BY <1>4, <1>8, <2>2, <3>2 DEF TellsProgress, Running
  <2>3. CASE u # t
    BY <1>4, <1>8, <2>1, <2>3 DEF TellsProgress, Running
  <2> QED
    BY <2>2, <2>3
<1>15. DegradedReadsAreRepaired'
  <2>1. \A x : IsQueued(x)' = IsQueued(x)
    BY <1>4 DEF IsQueued
  <2>2. \A d \in Callers : /\ callers'[d].rebuilt = callers[d].rebuilt
                           /\ callers[d].pc = "send" => callers'[d] = callers[d]
    BY <1>1, <1>4, <1>5, <1>6
  <2> QED
    BY <1>4, <2>1, <2>2, RepairFrame DEF ReconstructionInv
<1> QED
  BY <1>10, <1>11, <1>12, <1>13, <1>14, <1>15 DEF ReconstructionInv

-----------------------------------------------------------------------------
(* The table, the loop and the workers.                                    *)

\* Steps of these leave the metadata and the callers alone.
LEMMA PoolFrame ==
  ASSUME TypesInv, UNCHANGED <<volumes, cluster, objects, callers>>
  PROVE  StripeTypes' /\ CallerTypes' /\ (UNCHANGED cached => PolicyTypes')
BY DEF TypesInv, StripeTypes, CallerTypes, PolicyTypes

LEMMA CancelInv ==
  ASSUME ReconstructionInv, NEW t \in DOMAIN table, Cancel(t)
  PROVE  ReconstructionInv'
<1>0. TypesInv
  BY DEF ReconstructionInv
<1>1. /\ table[t] = "Pending" /\ table' = [table EXCEPT ![t] = "Cancelled"]
      /\ UNCHANGED <<volumes, cached, cluster, objects, callers, channel, tasks, workers, permits,
                     loop, history>>
  BY DEF Cancel, metadata, queue, pool
<1>2. /\ DOMAIN table' = DOMAIN table /\ table' \in [DOMAIN table' -> Statuses]
      /\ table'[t] = "Cancelled" /\ \A u \in DOMAIN table : u # t => table'[u] = table[u]
  BY <1>0, <1>1 DEF TypesInv, QueueTypes, Statuses
<1>3. TypesInv'
  <2>1. StripeTypes' /\ CallerTypes' /\ PolicyTypes'
    BY <1>0, <1>1, PoolFrame
  <2>2. QueueTypes'
    BY <1>0, <1>1, <1>2 DEF TypesInv, QueueTypes
  <2>3. PoolTypes' /\ HistoryTypes'
    BY <1>0, <1>1 DEF TypesInv, PoolTypes, HistoryTypes
  <2> QED
    BY <2>1, <2>2, <2>3 DEF TypesInv
<1>4. PlacesInv' /\ PermitsInv' /\ GenuineInv' /\ DegradedReadsAreRepaired'
  <2>1. PlacesInv' /\ PermitsInv'
    BY <1>1 DEF ReconstructionInv, PlacesInv, PermitsInv, Workers, Running
  <2>2. GenuineInv'
    BY <1>1 DEF ReconstructionInv, GenuineInv, Genuine
  <2>3. DegradedReadsAreRepaired'
    <3>1. \A x : IsQueued(x)' = IsQueued(x)
      BY <1>1 DEF IsQueued
    <3> QED
      BY <1>1, <3>1, RepairFrame DEF ReconstructionInv
  <2> QED
    BY <2>1, <2>2, <2>3
<1>5. ProgressInv'
  <2> SUFFICES ASSUME NEW u \in TaskIds \ history.late PROVE TellsProgress(u)'
    BY <1>1 DEF ProgressInv
  <2>1. TellsProgress(u)
    BY DEF ReconstructionInv, ProgressInv
  <2>2. CASE u = t
    <3>1. workers[u].pc \in WorkerPcs
      BY <1>0 DEF TypesInv, PoolTypes, WorkerRecords
    <3>2. ~Running(u) /\ workers[u].pc \notin {"completed", "failed"}
      BY <1>1, <2>1, <2>2 DEF TellsProgress
    <3> QED
      BY <1>1, <1>2, <2>2, <3>1, <3>2 DEF TellsProgress, Running, WorkerPcs
  <2>3. CASE u # t
    BY <1>1, <1>2, <2>1, <2>3 DEF TellsProgress, Running
  <2> QED
    BY <2>2, <2>3
<1> QED
  BY <1>3, <1>4, <1>5 DEF ReconstructionInv

\* The loop spawns a worker for the first task on the channel.
LEMMA ReceiveInv == ReconstructionInv /\ Receive => ReconstructionInv'
<1> SUFFICES ASSUME ReconstructionInv, Receive PROVE ReconstructionInv'
  OBVIOUS
<1>0. TypesInv /\ PlacesInv
  BY DEF ReconstructionInv
<1>1. PICK t : t = Head(channel)
  OBVIOUS
<1>2. PICK n : n = Len(tasks)
  OBVIOUS
<1>3. /\ channel # <<>> /\ channel' = Tail(channel)
      /\ workers' = [workers EXCEPT ![t].pc = "spawned"]
      /\ UNCHANGED <<volumes, cached, cluster, objects, callers, tasks, table, permits, loop, history>>
  BY <1>1 DEF Receive, metadata
<1>4. /\ channel' \in Seq(0..(n - 1)) /\ t \in 0..(n - 1) /\ Len(channel') <= ChannelCap
      /\ Elements(channel) = Elements(channel') \union {t}
      /\ NoRepeats(channel') /\ t \notin Elements(channel')
  <2>1. /\ channel \in Seq(0..(n - 1)) /\ NoRepeats(channel) /\ Len(channel) <= ChannelCap
        /\ ChannelCap \in Nat
    BY <1>0, <1>2, ReconstructionAssumption DEF TypesInv, QueueTypes, PlacesInv
  <2>2. /\ channel' \in Seq(0..(n - 1)) /\ t \in 0..(n - 1) /\ Len(channel') = Len(channel) - 1
        /\ Len(channel) \in Nat /\ Len(channel) > 0
        /\ Elements(channel) = Elements(channel') \union {t}
        /\ NoRepeats(channel') /\ t \notin Elements(channel')
    BY <1>1, <1>3, <2>1, TailIs
  <2> QED
    BY <2>1, <2>2
<1>5. t \in TaskIds /\ t < n /\ workers[t].pc = "none"
  <2>1. n \in Nat /\ n <= MaxTasks /\ MaxTasks \in Nat
    BY <1>0, <1>2, ReconstructionAssumption DEF TypesInv, QueueTypes
  <2> QED
    BY <1>0, <1>4, <2>1 DEF TaskIds, PlacesInv
<1>6. /\ workers' \in [TaskIds -> WorkerRecords]
      /\ workers'[t] = [workers[t] EXCEPT !.pc = "spawned"] /\ workers'[t].pc = "spawned"
      /\ workers'[t].stripe = workers[t].stripe
      /\ \A u \in TaskIds \ {t} : workers'[u] = workers[u]
  <2>1. workers \in [TaskIds -> WorkerRecords]
    BY <1>0 DEF TypesInv, PoolTypes
  <2>2. PICK w \in WorkerRecords : w = workers[t]
    BY <1>5, <2>1
  <2>3. PICK x : x = [w EXCEPT !.pc = "spawned"]
    OBVIOUS
  <2>4. x \in WorkerRecords /\ x.pc = "spawned" /\ x.stripe = w.stripe
    BY <2>3 DEF WorkerRecords, WorkerPcs
  <2> QED
    BY <1>3, <1>5, <2>1, <2>2, <2>3, <2>4
<1>7. TypesInv'
  <2>1. StripeTypes' /\ CallerTypes' /\ PolicyTypes'
    BY <1>0, <1>3, PoolFrame
  <2>2. QueueTypes'
    BY <1>0, <1>2, <1>3, <1>4 DEF TypesInv, QueueTypes
  <2>3. PoolTypes'
    BY <1>0, <1>3, <1>5, <1>6 DEF TypesInv, PoolTypes
  <2>4. HistoryTypes'
    BY <1>0, <1>3 DEF TypesInv, HistoryTypes
  <2> QED
    BY <2>1, <2>2, <2>3, <2>4 DEF TypesInv
<1>8. PlacesInv'
  <2>1. \A d \in Callers : callers[d].pc = "send" => callers[d].task # t /\ callers[d].task \in TaskIds
    <3>1. \A d \in Callers : callers[d].pc = "send" => callers[d].task \in 0..(n - 1)
      BY <1>0, <1>2 DEF PlacesInv
    <3>2. n \in Nat /\ n <= MaxTasks /\ MaxTasks \in Nat
      BY <1>0, <1>2, ReconstructionAssumption DEF TypesInv, QueueTypes
    <3> QED
      BY <1>0, <1>4, <3>1, <3>2 DEF PlacesInv, TaskIds
  <2>2. \A x \in Elements(channel') : x # t /\ x \in TaskIds /\ workers'[x].pc = "none"
    <3>1. \A x \in Elements(channel') : x \in 0..(n - 1) /\ x # t
      BY <1>4, ElementsAre
    <3>2. n \in Nat /\ n <= MaxTasks /\ MaxTasks \in Nat
      BY <1>0, <1>2, ReconstructionAssumption DEF TypesInv, QueueTypes
    <3>3. \A x \in Elements(channel') : x \in TaskIds
      BY <3>1, <3>2 DEF TaskIds
    <3> QED
      BY <1>0, <1>4, <1>6, <3>1, <3>3 DEF PlacesInv
  <2>3. \A d \in Callers : callers'[d].pc = "send" =>
          callers'[d].task \notin Elements(channel') /\ workers'[callers'[d].task].pc = "none"
    BY <1>0, <1>3, <1>4, <1>6, <2>1 DEF PlacesInv
  <2>4. \A u \in TaskIds : workers'[u].pc # "none" => u < Len(tasks')
    BY <1>0, <1>2, <1>3, <1>5, <1>6 DEF PlacesInv
  <2> QED
    BY <1>0, <1>3, <1>4, <2>2, <2>3, <2>4 DEF PlacesInv
<1>9. Workers' = Workers /\ \A u \in TaskIds : Running(u)' = Running(u)
  <2>1. Running(t)' = Running(t)
    BY <1>5, <1>6 DEF Running
  <2>2. \A u \in TaskIds \ {t} : Running(u)' = Running(u)
    BY <1>6 DEF Running
  <2> QED
    BY <2>1, <2>2 DEF Workers
<1>10. PermitsInv'
  BY <1>3, <1>9 DEF ReconstructionInv, PermitsInv
<1>11. ProgressInv'
  <2> SUFFICES ASSUME NEW u \in TaskIds \ history.late PROVE TellsProgress(u)'
    BY <1>3 DEF ProgressInv
  <2>1. TellsProgress(u)
    BY DEF ReconstructionInv, ProgressInv
  <2>2. CASE u = t
    BY <1>3, <1>5, <1>6, <2>1, <2>2 DEF TellsProgress, Running
  <2>3. CASE u # t
    BY <1>3, <1>6, <2>1, <2>3 DEF TellsProgress, Running
  <2> QED
    BY <2>2, <2>3
<1>12. DegradedReadsAreRepaired'
  <2>1. \A u : /\ IsQueued(u) <=> u \in Elements(channel)
               /\ IsQueued(u)' <=> u \in Elements(channel')
    BY Zenon DEF IsQueued, Elements
  <2>2. \A u \in TaskIds : IsQueued(u) \/ workers[u].pc # "none" =>
          IsQueued(u)' \/ workers'[u].pc # "none"
    BY <1>4, <1>6, <2>1
  <2> QED
    BY <1>3, <2>2, RepairFrame DEF ReconstructionInv
<1>13. GenuineInv'
  BY <1>3, <1>5, <1>6 DEF ReconstructionInv, GenuineInv, Genuine
<1> QED
  BY <1>7, <1>8, <1>10, <1>11, <1>12, <1>13 DEF ReconstructionInv

\* The loop ends, and nothing else changes.
LEMMA TickInv == ReconstructionInv /\ Tick => ReconstructionInv'
<1> SUFFICES ASSUME ReconstructionInv, Tick PROVE ReconstructionInv'
  OBVIOUS
<1>0. TypesInv
  BY DEF ReconstructionInv
<1>1. /\ loop' = "stopped"
      /\ UNCHANGED <<volumes, cached, cluster, objects, callers, channel, tasks, table, workers,
                     permits, history>>
  BY DEF Tick, metadata, queue
<1>2. TypesInv'
  <2>1. StripeTypes' /\ CallerTypes' /\ PolicyTypes'
    BY <1>0, <1>1, PoolFrame
  <2>2. QueueTypes' /\ PoolTypes' /\ HistoryTypes'
    BY <1>0, <1>1 DEF TypesInv, QueueTypes, PoolTypes, HistoryTypes
  <2> QED
    BY <2>1, <2>2 DEF TypesInv
<1>3. PlacesInv' /\ PermitsInv' /\ ProgressInv'
  BY <1>1 DEF ReconstructionInv, PlacesInv, PermitsInv, Workers, Running, ProgressInv, TellsProgress
<1>4. GenuineInv'
  BY <1>1 DEF ReconstructionInv, GenuineInv, Genuine
<1>5. DegradedReadsAreRepaired'
  <2>1. \A x : IsQueued(x)' = IsQueued(x)
    BY <1>1 DEF IsQueued
  <2> QED
    BY <1>1, <2>1, RepairFrame DEF ReconstructionInv
<1> QED
  BY <1>2, <1>3, <1>4, <1>5 DEF ReconstructionInv

\* A worker that moves from one record to the next: it takes a permit, gives it back, or
\* neither; it keeps the table true about its task.
IsActive(w) == w.pc \in {"running", "policy", "rebuild"}

WorkerMoves(t, w) ==
  /\ workers' = [workers EXCEPT ![t] = w]
  /\ workers[t].pc # "none" /\ w.pc # "none"
  /\ w.pc \in {"policy", "rebuild"} => w.policy \in Policies
  /\ \/ IsActive(w) = Running(t) /\ permits' = permits
     \/ IsActive(w) /\ ~Running(t) /\ permits > 0 /\ permits' = permits - 1
     \/ ~IsActive(w) /\ Running(t) /\ permits' = permits + 1
  /\ DOMAIN table' \subseteq 0..(Len(tasks) - 1) /\ table' \in [DOMAIN table' -> Statuses]
  /\ \A u \in TaskIds \ {t} :
       /\ u \in DOMAIN table' <=> u \in DOMAIN table
       /\ u \in DOMAIN table => table'[u] = table[u]
  /\ \A s \in w.stripe : Genuine(s)
  /\ w.pc = "rebuild" => w.policy \in history'.reread \/ w.spec = InitialSpec

LEMMA WorkerMovesInv ==
  ASSUME ReconstructionInv, NEW t \in TaskIds, NEW w \in WorkerRecords, WorkerMoves(t, w),
         UNCHANGED <<volumes, cluster, objects, callers, channel, tasks, loop>>,
         cached' \in [Policies -> Specs \union {NoSpec}],
         \A p \in Policies : p \in history'.reread \/ cached'[p] \in {NoSpec, InitialSpec},
         HistoryTypes', history'.late = history.late, history.reread \subseteq history'.reread,
         t \notin history.late => TellsProgress(t)'
  PROVE  ReconstructionInv'
<1>0. TypesInv /\ PlacesInv
  BY DEF ReconstructionInv
<1>1. /\ workers' \in [TaskIds -> WorkerRecords] /\ workers'[t] = w
      /\ \A u \in TaskIds \ {t} : workers'[u] = workers[u]
  BY <1>0 DEF TypesInv, PoolTypes, WorkerMoves
<1>2. permits \in Nat /\ permits' \in Nat
  BY <1>0 DEF TypesInv, PoolTypes, WorkerMoves
<1>3. TypesInv'
  <2>1. StripeTypes' /\ CallerTypes' /\ PolicyTypes'
    BY <1>0, PoolFrame DEF PolicyTypes, TypesInv
  <2>2. QueueTypes'
    BY <1>0 DEF TypesInv, QueueTypes, WorkerMoves
  <2>3. PoolTypes'
    BY <1>0, <1>1, <1>2 DEF TypesInv, PoolTypes, WorkerMoves
  <2> QED
    BY <2>1, <2>2, <2>3 DEF TypesInv
<1>4. PlacesInv'
  <2>1. \A u \in TaskIds : workers'[u].pc = "none" <=> workers[u].pc = "none"
    BY <1>1 DEF WorkerMoves
  <2>2. \A u \in 0..(Len(tasks) - 1) : u \in TaskIds
    <3>1. Len(tasks) \in Nat /\ Len(tasks) <= MaxTasks /\ MaxTasks \in Nat
      BY <1>0, ReconstructionAssumption DEF TypesInv, QueueTypes
    <3> QED
      BY <3>1 DEF TaskIds
  <2>3. \A u \in Elements(channel) : u \in TaskIds
    <3>1. \A u \in Elements(channel) : u \in 0..(Len(tasks) - 1)
      BY <1>0 DEF TypesInv, QueueTypes, Elements
    <3> QED
      BY <3>1, <2>2
  <2> QED
    BY <1>0, <2>1, <2>2, <2>3 DEF PlacesInv
<1>5. PermitsInv'
  <2>1. /\ \A u \in TaskIds \ {t} : Running(u)' = Running(u)
        /\ Running(t)' = IsActive(w)
    BY <1>1 DEF Running, IsActive
  <2>2. IsFiniteSet(Workers) /\ permits + Cardinality(Workers) = MaxConcurrent
    <3>1. IsFiniteSet(TaskIds)
      <4>1. 0 \in Int /\ MaxTasks - 1 \in Int
        BY ReconstructionAssumption
      <4> QED
        BY <4>1, FS_Interval DEF TaskIds
    <3>2. Workers \subseteq TaskIds
      BY DEF Workers
    <3> QED
      BY <3>1, <3>2, FS_Subset DEF ReconstructionInv, PermitsInv
  <2>3. CASE IsActive(w) = Running(t) /\ permits' = permits
    <3>1. Workers' = Workers
      BY <2>1, <2>3 DEF Workers
    <3> QED
      BY <2>2, <2>3, <3>1 DEF PermitsInv
  <2>4. CASE IsActive(w) /\ ~Running(t) /\ permits' = permits - 1
    <3>1. Workers' = Workers \union {t} /\ t \notin Workers
      BY <2>1, <2>4 DEF Workers
    <3>2. Cardinality(Workers') = Cardinality(Workers) + 1 /\ Cardinality(Workers) \in Nat
      BY <2>2, <3>1, FS_AddElement, FS_CardinalityType
    <3> QED
      BY <1>2, <2>2, <2>4, <3>2 DEF PermitsInv
  <2>5. CASE ~IsActive(w) /\ Running(t) /\ permits' = permits + 1
    <3>1. Workers' = Workers \ {t} /\ t \in Workers
      BY <2>1, <2>5 DEF Workers
    <3>2. Cardinality(Workers') = Cardinality(Workers) - 1 /\ Cardinality(Workers) \in Nat
      BY <2>2, <3>1, FS_RemoveElement, FS_CardinalityType
    <3> QED
      BY <1>2, <2>2, <2>5, <3>2 DEF PermitsInv
  <2> QED
    BY <2>3, <2>4, <2>5 DEF WorkerMoves
<1>6. ProgressInv'
  <2> SUFFICES ASSUME NEW u \in TaskIds \ history.late PROVE TellsProgress(u)'
    BY DEF ProgressInv
  <2>1. TellsProgress(u)
    BY DEF ReconstructionInv, ProgressInv
  <2>2. CASE u # t
    BY <1>1, <2>1, <2>2 DEF TellsProgress, Running, WorkerMoves
  <2> QED
    BY <2>2
<1>7. DegradedReadsAreRepaired'
  <2>1. \A x : IsQueued(x)' = IsQueued(x)
    BY DEF IsQueued
  <2>2. \A u \in TaskIds : workers[u].pc # "none" => workers'[u].pc # "none"
    BY <1>1 DEF WorkerMoves
  <2> QED
    BY <2>1, <2>2, RepairFrame DEF ReconstructionInv
<1>8. GenuineInv'
  <2>1. \A s : Genuine(s) => Genuine(s)'
    BY DEF Genuine
  <2> QED
    BY <1>1, <2>1 DEF ReconstructionInv, GenuineInv, WorkerMoves
<1> QED
  BY <1>3, <1>4, <1>5, <1>6, <1>7, <1>8 DEF ReconstructionInv

\* A worker that gives up lets its permit go, and its entry of the table stays.
LEMMA GivesUpIs ==
  ASSUME ReconstructionInv, NEW t \in TaskIds, Running(t), GivesUp(t)
  PROVE  \E w \in WorkerRecords :
           WorkerMoves(t, w) /\ (t \notin history.late => TellsProgress(t)')
<1>0. TypesInv
  BY DEF ReconstructionInv
<1>1. PICK w : w = [NoWorker EXCEPT !.pc = "failed"]
  OBVIOUS
<1>2. w \in WorkerRecords /\ w.pc = "failed" /\ w.stripe = {}
  BY <1>1 DEF NoWorker, WorkerRecords, WorkerPcs
<1>3. workers' = [workers EXCEPT ![t] = w] /\ permits' = permits + 1 /\ table' = table
  BY <1>1 DEF GivesUp
<1>4. workers'[t] = w
  BY <1>0, <1>3 DEF TypesInv, PoolTypes
<1>5. WorkerMoves(t, w)
  <2>1. workers[t].pc # "none" /\ ~IsActive(w)
    BY <1>2 DEF Running, IsActive
  <2>2. DOMAIN table \subseteq 0..(Len(tasks) - 1) /\ table \in [DOMAIN table -> Statuses]
    BY <1>0 DEF TypesInv, QueueTypes
  <2> QED
    BY <1>2, <1>3, <2>1, <2>2 DEF WorkerMoves
<1>6. t \notin history.late => TellsProgress(t)'
  <2> SUFFICES ASSUME t \notin history.late PROVE TellsProgress(t)'
    OBVIOUS
  <2>1. TellsProgress(t)
    BY DEF ReconstructionInv, ProgressInv
  <2> QED
    BY <1>2, <1>3, <1>4, <2>1 DEF TellsProgress, Running
<1> QED
  BY <1>2, <1>5, <1>6

\* The parts of the state that a worker which reads no policy leaves alone.
LEMMA WorkerFrame ==
  ASSUME ReconstructionInv, UNCHANGED <<cached, history>>
  PROVE  /\ cached' \in [Policies -> Specs \union {NoSpec}]
         /\ \A p \in Policies : p \in history'.reread \/ cached'[p] \in {NoSpec, InitialSpec}
         /\ HistoryTypes' /\ history'.late = history.late /\ history.reread \subseteq history'.reread
BY DEF ReconstructionInv, TypesInv, PolicyTypes, HistoryTypes, GenuineInv

LEMMA AcquireInv ==
  ASSUME ReconstructionInv, NEW t \in TaskIds, Acquire(t)
  PROVE  ReconstructionInv'
<1>0. TypesInv /\ PlacesInv
  BY DEF ReconstructionInv
<1>1. /\ workers[t].pc = "spawned" /\ permits > 0 /\ permits' = permits - 1
      /\ workers' = [workers EXCEPT ![t].pc = "running"]
      /\ table' = insert(table, t, "InProgress")
      /\ UNCHANGED <<volumes, cached, cluster, objects, callers, channel, tasks, loop, history>>
  BY DEF Acquire, metadata, queue
<1>2. PICK old \in WorkerRecords : old = workers[t]
  BY <1>0 DEF TypesInv, PoolTypes
<1>3. PICK w : w = [old EXCEPT !.pc = "running"]
  OBVIOUS
<1>4. w \in WorkerRecords /\ w.pc = "running" /\ w.stripe = old.stripe
  BY <1>3 DEF WorkerRecords, WorkerPcs
<1>5. workers' = [workers EXCEPT ![t] = w] /\ workers'[t] = w
  BY <1>0, <1>1, <1>2, <1>3 DEF TypesInv, PoolTypes
<1>6. t \in 0..(Len(tasks) - 1)
  BY <1>0, <1>1 DEF PlacesInv, TypesInv, QueueTypes, TaskIds
<1>7. /\ DOMAIN table' = DOMAIN table \union {t} /\ table' \in [DOMAIN table' -> Statuses]
      /\ DOMAIN table' \subseteq 0..(Len(tasks) - 1)
      /\ table'[t] = "InProgress" /\ \A u \in DOMAIN table : u # t => table'[u] = table[u]
  BY <1>0, <1>1, <1>6, EntryIs DEF Statuses
<1>8. WorkerMoves(t, w)
  <2>1. ~Running(t) /\ IsActive(w)
    BY <1>1, <1>4 DEF Running, IsActive
  <2>2. \A s \in w.stripe : Genuine(s)
    BY <1>2, <1>4 DEF ReconstructionInv, GenuineInv
  <2> QED
    BY <1>1, <1>4, <1>5, <1>7, <2>1, <2>2 DEF WorkerMoves
<1>9. TellsProgress(t)'
  BY <1>4, <1>5, <1>7 DEF TellsProgress, Running
<1>10. /\ cached' \in [Policies -> Specs \union {NoSpec}]
       /\ \A p \in Policies : p \in history'.reread \/ cached'[p] \in {NoSpec, InitialSpec}
       /\ HistoryTypes' /\ history'.late = history.late /\ history.reread \subseteq history'.reread
  BY <1>1, WorkerFrame
<1> QED
  BY <1>1, <1>4, <1>8, <1>9, <1>10, WorkerMovesInv

LEMMA FindStripeInv ==
  ASSUME ReconstructionInv, NEW t \in TaskIds, FindStripe(t)
  PROVE  ReconstructionInv'
<1>0. TypesInv /\ PlacesInv
  BY DEF ReconstructionInv
<1>1. PICK v, found :
        v = tasks[t + 1][1] /\
        found = IF v \in DOMAIN volumes THEN get_stripe(v, tasks[t + 1][2]) ELSE {}
  OBVIOUS
<1>2. /\ workers[t].pc = "running" /\ Running(t)
      /\ UNCHANGED <<volumes, cached, cluster, objects, callers, channel, tasks, loop, history>>
  BY DEF FindStripe, metadata, queue, Running
<1>3. \E w \in WorkerRecords :
        WorkerMoves(t, w) /\ (t \notin history.late => TellsProgress(t)')
  <2>1. CASE found = {}
    <3>1. GivesUp(t)
      BY <1>1, <2>1 DEF FindStripe
    <3> QED
      BY <1>2, <3>1, GivesUpIs
  <2>2. CASE found # {}
    <3>1. v \in DOMAIN volumes /\ found \subseteq volumes[v].stripes
      BY <1>1, <2>2 DEF get_stripe, StripesOf
    <3>2. /\ volumes[v].policy \in Policies /\ found \in SUBSET Stripes
          /\ \A s \in found : Genuine(s)
      BY <1>0, <3>1 DEF TypesInv, StripeTypes, VolumeStates, ReconstructionInv, GenuineInv
    <3>3. PICK p \in Policies : p = volumes[v].policy
      BY <3>2
    <3>4. PICK w : w = [pc |-> "policy", stripe |-> found, policy |-> p, spec |-> NoSpec]
      OBVIOUS
    <3>5. /\ w \in WorkerRecords /\ w.pc = "policy" /\ w.policy = p /\ w.stripe = found
      BY <3>2, <3>4 DEF WorkerRecords, WorkerPcs
    <3>6. /\ workers' = [workers EXCEPT ![t] = w] /\ UNCHANGED <<table, permits>>
      BY <1>1, <2>2, <3>3, <3>4 DEF FindStripe
    <3>7. workers'[t] = w
      BY <1>0, <3>6 DEF TypesInv, PoolTypes
    <3>8. WorkerMoves(t, w)
      <4>1. workers[t].pc # "none" /\ IsActive(w) /\ Running(t)
        BY <1>2, <3>5 DEF IsActive
      <4>2. DOMAIN table \subseteq 0..(Len(tasks) - 1) /\ table \in [DOMAIN table -> Statuses]
        BY <1>0 DEF TypesInv, QueueTypes
      <4> QED
        BY <3>2, <3>5, <3>6, <4>1, <4>2 DEF WorkerMoves
    <3>9. t \notin history.late => TellsProgress(t)'
      BY <1>2, <3>5, <3>6, <3>7 DEF ReconstructionInv, ProgressInv, TellsProgress, Running
    <3> QED
      BY <3>5, <3>8, <3>9
  <2> QED
    BY <2>1, <2>2
<1>4. /\ cached' \in [Policies -> Specs \union {NoSpec}]
      /\ \A p \in Policies : p \in history'.reread \/ cached'[p] \in {NoSpec, InitialSpec}
      /\ HistoryTypes' /\ history'.late = history.late /\ history.reread \subseteq history'.reread
  BY <1>2, WorkerFrame
<1> QED
  BY <1>2, <1>3, <1>4, WorkerMovesInv

LEMMA RebuildPolicyInv ==
  ASSUME ReconstructionInv, NEW t \in TaskIds, RebuildPolicy(t)
  PROVE  ReconstructionInv'
<1>0. TypesInv /\ GenuineInv
  BY DEF ReconstructionInv
<1>1. PICK p : p = workers[t].policy
  OBVIOUS
<1>2. /\ workers[t].pc = "policy" /\ Running(t) /\ p \in Policies
      /\ UNCHANGED <<volumes, cluster, objects, callers, channel, tasks, loop>>
  BY <1>0, <1>1 DEF RebuildPolicy, queue, Running, TypesInv, PoolTypes
<1>3. \/ cached[p] = NoSpec /\ GivesUp(t) /\ UNCHANGED <<cached, history>>
      \/ \E spec \in Loads(p) :
           /\ Got(p, spec)
           /\ IF IsValid(spec)
                THEN /\ workers' = [workers EXCEPT ![t].pc = "rebuild", ![t].spec = spec]
                     /\ UNCHANGED <<table, permits>>
                ELSE GivesUp(t)
  BY <1>1 DEF RebuildPolicy
<1>4. CASE cached[p] = NoSpec /\ GivesUp(t) /\ UNCHANGED <<cached, history>>
  <2>1. PICK w \in WorkerRecords : WorkerMoves(t, w) /\ (t \notin history.late => TellsProgress(t)')
    BY <1>2, <1>4, GivesUpIs
  <2> QED
    BY <1>2, <1>4, <2>1, WorkerFrame, WorkerMovesInv
<1>5. ASSUME NEW spec \in Loads(p), Got(p, spec),
             IF IsValid(spec)
               THEN /\ workers' = [workers EXCEPT ![t].pc = "rebuild", ![t].spec = spec]
                    /\ UNCHANGED <<table, permits>>
               ELSE GivesUp(t)
      PROVE  ReconstructionInv'
  <2>1. /\ spec \in Specs /\ spec # NoSpec
        /\ cached' \in [Policies -> Specs \union {NoSpec}]
        /\ HistoryTypes' /\ history'.late = history.late /\ history.reread \subseteq history'.reread
        /\ \A q \in Policies : q \in history'.reread \/ cached'[q] \in {NoSpec, InitialSpec}
        /\ p \in history'.reread \/ spec = InitialSpec
    BY <1>0, <1>2, <1>5, GotIs
  <2>2. \E w \in WorkerRecords : WorkerMoves(t, w) /\ (t \notin history.late => TellsProgress(t)')
    <3>1. CASE GivesUp(t)
      BY <1>2, <3>1, GivesUpIs
    <3>2. CASE workers' = [workers EXCEPT ![t].pc = "rebuild", ![t].spec = spec]
               /\ UNCHANGED <<table, permits>>
      <4>1. PICK old \in WorkerRecords : old = workers[t]
        BY <1>0 DEF TypesInv, PoolTypes
      <4>2. PICK w : w = [old EXCEPT !.pc = "rebuild", !.spec = spec]
        OBVIOUS
      <4>3. /\ w \in WorkerRecords /\ w.pc = "rebuild" /\ w.spec = spec /\ w.stripe = old.stripe
            /\ w.policy = p
        BY <1>1, <2>1, <4>1, <4>2 DEF WorkerRecords, WorkerPcs
      <4>4. workers' = [workers EXCEPT ![t] = w] /\ workers'[t] = w
        BY <1>0, <3>2, <4>1, <4>2 DEF TypesInv, PoolTypes
      <4>5. WorkerMoves(t, w)
        <5>1. workers[t].pc # "none" /\ IsActive(w) /\ Running(t)
          BY <1>2, <4>3 DEF IsActive
        <5>2. DOMAIN table \subseteq 0..(Len(tasks) - 1) /\ table \in [DOMAIN table -> Statuses]
          BY <1>0 DEF TypesInv, QueueTypes
        <5>3. \A s \in w.stripe : Genuine(s)
          BY <1>0, <4>1, <4>3 DEF GenuineInv
        <5> QED
          BY <1>2, <2>1, <3>2, <4>3, <4>4, <5>1, <5>2, <5>3 DEF WorkerMoves
      <4>6. t \notin history.late => TellsProgress(t)'
        BY <1>2, <3>2, <4>3, <4>4 DEF ReconstructionInv, ProgressInv, TellsProgress, Running
      <4> QED
        BY <4>3, <4>5, <4>6
    <3> QED
      BY <1>5, <3>1, <3>2
  <2> QED
    BY <1>2, <2>1, <2>2, WorkerMovesInv
<1> QED
  BY <1>3, <1>4, <1>5

LEMMA RebuildInv ==
  ASSUME ReconstructionInv, NEW t \in TaskIds, Rebuild(t)
  PROVE  ReconstructionInv'
<1>0. TypesInv /\ PlacesInv
  BY DEF ReconstructionInv
<1>1. /\ workers[t].pc = "rebuild" /\ Running(t)
      /\ UNCHANGED <<volumes, cached, cluster, objects, callers, channel, tasks, loop, history>>
      /\ \/ GivesUp(t)
         \/ /\ workers' = [workers EXCEPT ![t] = [NoWorker EXCEPT !.pc = "completed"]]
            /\ permits' = permits + 1
            /\ table' = insert(table, t, "Completed")
  BY DEF Rebuild, metadata, queue, Running
<1>2. \E w \in WorkerRecords : WorkerMoves(t, w) /\ (t \notin history.late => TellsProgress(t)')
  <2>1. CASE GivesUp(t)
    BY <1>1, <2>1, GivesUpIs
  <2>2. CASE /\ workers' = [workers EXCEPT ![t] = [NoWorker EXCEPT !.pc = "completed"]]
             /\ permits' = permits + 1
             /\ table' = insert(table, t, "Completed")
    <3>1. PICK w : w = [NoWorker EXCEPT !.pc = "completed"]
      OBVIOUS
    <3>2. w \in WorkerRecords /\ w.pc = "completed" /\ w.stripe = {}
      BY <3>1 DEF NoWorker, WorkerRecords, WorkerPcs
    <3>3. workers' = [workers EXCEPT ![t] = w] /\ workers'[t] = w
      BY <1>0, <2>2, <3>1 DEF TypesInv, PoolTypes
    <3>4. t \in 0..(Len(tasks) - 1)
      BY <1>0, <1>1 DEF PlacesInv, TypesInv, QueueTypes, TaskIds
    <3>5. /\ DOMAIN table' = DOMAIN table \union {t} /\ table' \in [DOMAIN table' -> Statuses]
          /\ DOMAIN table' \subseteq 0..(Len(tasks) - 1)
          /\ table'[t] = "Completed" /\ \A u \in DOMAIN table : u # t => table'[u] = table[u]
      BY <1>0, <2>2, <3>4, EntryIs DEF Statuses
    <3>6. WorkerMoves(t, w)
      <4>1. workers[t].pc # "none" /\ ~IsActive(w)
        BY <1>1, <3>2 DEF IsActive
      <4> QED
        BY <1>1, <2>2, <3>2, <3>3, <3>5, <4>1 DEF WorkerMoves
    <3>7. TellsProgress(t)'
      BY <3>2, <3>3, <3>5 DEF TellsProgress, Running
    <3> QED
      BY <3>2, <3>6, <3>7
  <2> QED
    BY <1>1, <2>1, <2>2
<1> QED
  BY <1>1, <1>2, WorkerFrame, WorkerMovesInv

-----------------------------------------------------------------------------
(* The metadata, as others change it.                                      *)

\* Others add volumes, and change stripes, objects and what is known of policies, but never
\* the policy of a volume; copies of stripes stay genuine.
LEMMA ChangesInv ==
  ASSUME ReconstructionInv, UNCHANGED <<callers, queue, table, pool>>,
         StripeTypes', PolicyTypes', HistoryTypes',
         DOMAIN volumes \subseteq DOMAIN volumes',
         \A v \in DOMAIN volumes : volumes'[v].policy = volumes[v].policy,
         history'.late = history.late, history.reread \subseteq history'.reread,
         \A p \in Policies : p \in history'.reread \/ cached'[p] \in {NoSpec, InitialSpec},
         \A o \in objects' : Genuine(o)',
         \A v \in DOMAIN volumes' : \A s \in volumes'[v].stripes : Genuine(s)'
  PROVE  ReconstructionInv'
<1>0. UNCHANGED <<callers, channel, tasks, table, workers, permits, loop>>
  BY DEF queue, pool
<1>1. TypesInv'
  <2>1. CallerTypes'
    BY <1>0 DEF ReconstructionInv, TypesInv, CallerTypes
  <2>2. QueueTypes' /\ PoolTypes'
    BY <1>0 DEF ReconstructionInv, TypesInv, QueueTypes, PoolTypes
  <2> QED
    BY <2>1, <2>2 DEF TypesInv
<1>2. PlacesInv' /\ PermitsInv' /\ ProgressInv'
  BY <1>0 DEF ReconstructionInv, PlacesInv, PermitsInv, Workers, Running, ProgressInv, TellsProgress
<1>3. DegradedReadsAreRepaired'
  <2>1. \A x : IsQueued(x)' = IsQueued(x)
    BY <1>0 DEF IsQueued
  <2> QED
    BY <1>0, <2>1, RepairFrame DEF ReconstructionInv
<1>4. GenuineInv'
  <2>1. \A s : Genuine(s) => Genuine(s)'
    BY DEF Genuine
  <2>2. \A c \in Callers : \A s \in callers'[c].todo : Genuine(s)'
    BY <1>0, <2>1 DEF ReconstructionInv, GenuineInv
  <2>3. \A c \in Callers : callers'[c].spec # NoSpec =>
          \/ volumes'[callers'[c].vol].policy \in history'.reread
          \/ callers'[c].spec = InitialSpec
    <3>1. \A c \in Callers : callers[c].spec # NoSpec => callers[c].vol \in DOMAIN volumes
      BY DEF ReconstructionInv, TypesInv, CallerTypes
    <3> QED
      BY <1>0, <3>1 DEF ReconstructionInv, GenuineInv
  <2>4. \A t \in TaskIds :
          /\ \A s \in workers'[t].stripe : Genuine(s)'
          /\ workers'[t].pc = "rebuild" =>
               workers'[t].policy \in history'.reread \/ workers'[t].spec = InitialSpec
    BY <1>0, <2>1 DEF ReconstructionInv, GenuineInv
  <2> QED
    BY <2>2, <2>3, <2>4 DEF GenuineInv
<1> QED
  BY <1>1, <1>2, <1>3, <1>4 DEF ReconstructionInv

\* The history after a change that reads no policy.
LEMMA ChangedIs ==
  ASSUME TypesInv, GenuineInv, history' = Changed
  PROVE  /\ HistoryTypes' /\ history'.late = history.late /\ history'.reread = history.reread
         /\ \A s : Genuine(s)' <=> Genuine(s)
         /\ \A p \in Policies : p \in history'.reread \/ cached[p] \in {NoSpec, InitialSpec}
<1>1. HistoryTypes' /\ history'.late = history.late /\ history'.reread = history.reread
  BY DEF TypesInv, HistoryTypes, Changed
<1> QED
  BY <1>1 DEF GenuineInv, Genuine

\* The volumes after one of them was added or has other stripes.
LEMMA VolumeIs ==
  ASSUME TypesInv, NEW v \in Volumes, NEW x \in VolumeStates, AreOf(x.stripes, v),
         v \in DOMAIN volumes => x.policy = volumes[v].policy,
         DOMAIN volumes' = DOMAIN volumes \union {v}, volumes'[v] = x,
         volumes' \in [DOMAIN volumes' -> VolumeStates],
         \A w \in DOMAIN volumes : w # v => volumes'[w] = volumes[w],
         objects' \subseteq Stripes,
         \A o, y \in objects' : o.vol = y.vol /\ o.id = y.id => o = y,
         GenuineInv, history.reread \subseteq history'.reread,
         \A s \in x.stripes : Genuine(s)'
  PROVE  /\ StripeTypes' /\ DOMAIN volumes \subseteq DOMAIN volumes'
         /\ \A w \in DOMAIN volumes : volumes'[w].policy = volumes[w].policy
         /\ \A w \in DOMAIN volumes' : \A s \in volumes'[w].stripes : Genuine(s)'
<1>1. DOMAIN volumes' \subseteq Volumes
  BY DEF TypesInv, StripeTypes
<1>2. \A w \in DOMAIN volumes' : AreOf(volumes'[w].stripes, w)
  BY DEF TypesInv, StripeTypes
<1>3. \A w \in DOMAIN volumes : volumes'[w].policy = volumes[w].policy
  OBVIOUS
<1>4. \A s : Genuine(s) => Genuine(s)'
  BY DEF Genuine
<1>5. \A w \in DOMAIN volumes' : \A s \in volumes'[w].stripes : Genuine(s)'
  BY <1>4 DEF GenuineInv
<1> QED
  BY <1>1, <1>2, <1>3, <1>5 DEF StripeTypes

LEMMA SyncInv ==
  ASSUME ReconstructionInv, NEW v \in Volumes, NEW p \in Policies, Sync(v, p)
  PROVE  ReconstructionInv'
<1>0. TypesInv /\ GenuineInv
  BY DEF ReconstructionInv
<1>1. PICK known, loaded :
        /\ known = IF v \in DOMAIN volumes THEN volumes[v] ELSE [policy |-> p, stripes |-> {}]
        /\ loaded = {o \in objects : o.vol = v}
  OBVIOUS
<1>2. /\ known \in VolumeStates /\ AreOf(known.stripes, v) /\ \A s \in known.stripes : Genuine(s)
      /\ v \in DOMAIN volumes => known.policy = volumes[v].policy
  <2>1. CASE v \in DOMAIN volumes
    BY <1>0, <1>1, <2>1 DEF TypesInv, StripeTypes, GenuineInv
  <2>2. CASE v \notin DOMAIN volumes
    BY <1>1, <2>2 DEF VolumeStates, AreOf
  <2> QED
    BY <2>1, <2>2
<1>3. /\ loaded \subseteq Stripes /\ \A o \in loaded : Genuine(o) /\ o.vol = v
      /\ \A o, x \in loaded : o.id = x.id => o = x
  BY <1>0, <1>1 DEF TypesInv, StripeTypes, GenuineInv
<1>4. PICK all : all = {s \in known.stripes : \A o \in loaded : o.id # s.id} \union loaded
  OBVIOUS
<1>5. all \in SUBSET Stripes /\ AreOf(all, v) /\ \A s \in all : Genuine(s)
  <2>1. known.stripes \in SUBSET Stripes
    BY <1>2 DEF VolumeStates
  <2> QED
    BY <1>2, <1>3, <1>4, <2>1 DEF AreOf
<1>6. PICK new : new = [known EXCEPT !.stripes = all]
  OBVIOUS
<1>7. new \in VolumeStates /\ new.stripes = all /\ new.policy = known.policy
  BY <1>2, <1>5, <1>6 DEF VolumeStates
<1>8. /\ volumes' = insert(volumes, v, new) /\ history' = Changed
      /\ UNCHANGED <<cached, cluster, objects, callers, queue, table, pool>>
  BY <1>1, <1>4, <1>6 DEF Sync, Changes
<1>9. /\ DOMAIN volumes' = DOMAIN volumes \union {v} /\ volumes'[v] = new
      /\ volumes' \in [DOMAIN volumes' -> VolumeStates]
      /\ \A w \in DOMAIN volumes : w # v => volumes'[w] = volumes[w]
  <2>1. PICK f, more : f = volumes /\ more = insert(f, v, new)
    OBVIOUS
  <2>2. f \in [DOMAIN f -> VolumeStates]
    BY <1>0, <2>1 DEF TypesInv, StripeTypes
  <2>3. /\ DOMAIN more = DOMAIN f \union {v} /\ more[v] = new
        /\ more \in [DOMAIN more -> VolumeStates]
        /\ \A w \in DOMAIN f : w # v => more[w] = f[w]
    BY <1>7, <2>1, <2>2 DEF insert
  <2> QED
    BY <1>8, <2>1, <2>3
<1>10. /\ HistoryTypes' /\ history'.late = history.late /\ history'.reread = history.reread
       /\ \A s : Genuine(s)' <=> Genuine(s)
       /\ \A q \in Policies : q \in history'.reread \/ cached[q] \in {NoSpec, InitialSpec}
  BY <1>0, <1>8, ChangedIs
<1>11. /\ StripeTypes' /\ DOMAIN volumes \subseteq DOMAIN volumes'
       /\ \A w \in DOMAIN volumes : volumes'[w].policy = volumes[w].policy
       /\ \A w \in DOMAIN volumes' : \A s \in volumes'[w].stripes : Genuine(s)'
  <2>1. /\ objects' \subseteq Stripes
        /\ \A o, y \in objects' : o.vol = y.vol /\ o.id = y.id => o = y
    BY <1>0, <1>8 DEF TypesInv, StripeTypes
  <2>2. /\ AreOf(new.stripes, v) /\ \A s \in new.stripes : Genuine(s)'
        /\ v \in DOMAIN volumes => new.policy = volumes[v].policy
    BY <1>2, <1>5, <1>7, <1>10
  <2> QED
    BY <1>0, <1>7, <1>9, <1>10, <2>1, <2>2, VolumeIs
<1>12. PolicyTypes' /\ \A o \in objects' : Genuine(o)'
  BY <1>0, <1>8, <1>10 DEF TypesInv, PolicyTypes, GenuineInv
<1> QED
  BY <1>8, <1>10, <1>11, <1>12, ChangesInv

\* A stripe that is added to those of its volume.
LEMMA AddIs ==
  ASSUME NEW v, NEW all \in SUBSET Stripes, AreOf(all, v), NEW s \in Stripes, s.vol = v
  PROVE  /\ add_stripe(all, s) \in SUBSET Stripes /\ AreOf(add_stripe(all, s), v)
         /\ \A x \in add_stripe(all, s) : x \in all \/ x = s
BY DEF add_stripe, AreOf

LEMMA DestageInv ==
  ASSUME ReconstructionInv, NEW v \in DOMAIN volumes, NEW id \in Ids, Destage(v, id)
  PROVE  ReconstructionInv'
<1>0. TypesInv /\ GenuineInv
  BY DEF ReconstructionInv
<1>1. PICK p : p = volumes[v].policy
  OBVIOUS
<1>2. /\ v \in Volumes /\ p \in Policies /\ volumes[v].stripes \in SUBSET Stripes
      /\ AreOf(volumes[v].stripes, v)
  BY <1>0, <1>1 DEF TypesInv, StripeTypes, VolumeStates
<1>3. PICK spec \in Loads(p) :
        LET s == Stripe(v, id, p, spec, [state |-> "Healthy", shards |-> <<>>]) IN
        /\ IsValid(spec)
        /\ cached' = [cached EXCEPT ![p] = spec]
        /\ objects' = objects \union {s}
        /\ volumes' = [volumes EXCEPT ![v].stripes = add_stripe(@, s)]
        /\ history' = [Noted(p) EXCEPT !.changes = @ + 1]
  BY <1>1 DEF Destage
<1>4. PICK s : s = Stripe(v, id, p, spec, [state |-> "Healthy", shards |-> <<>>])
  OBVIOUS
<1>5. /\ cached' = [cached EXCEPT ![p] = spec] /\ objects' = objects \union {s}
      /\ volumes' = [volumes EXCEPT ![v].stripes = add_stripe(@, s)]
      /\ history' = [Noted(p) EXCEPT !.changes = @ + 1]
      /\ UNCHANGED <<cluster, callers, queue, table, pool>>
      /\ \A o \in objects : <<o.vol, o.id>> # <<v, id>>
  BY <1>3, <1>4 DEF Destage, Changes
<1>6. /\ spec \in Specs /\ spec # NoSpec
      /\ Noted(p) \in [calls: {history.calls}, changes: {history.changes},
                       late: {history.late}, reread: SUBSET Policies]
      /\ history.reread \subseteq Noted(p).reread
      /\ \/ p \in Noted(p).reread \/ cached[p] = spec
         \/ cached[p] = NoSpec /\ spec = InitialSpec
  BY <1>0, <1>2, LoadsIs
<1>7. /\ HistoryTypes' /\ history'.late = history.late /\ history.reread \subseteq history'.reread
      /\ p \in history'.reread \/ spec = InitialSpec
  <2>1. PICK noted : noted = Noted(p)
    OBVIOUS
  <2>2. history.late \in SUBSET Nat /\ history.calls \in Nat /\ history.changes \in Nat
    BY <1>0 DEF TypesInv, HistoryTypes
  <2>3. /\ history'.calls = noted.calls /\ history'.changes = noted.changes + 1
        /\ history'.late = noted.late /\ history'.reread = noted.reread
        /\ history' \in [calls: Nat, changes: Nat, late: SUBSET Nat, reread: SUBSET Policies]
    BY <1>5, <1>6, <2>1, <2>2
  <2>4. p \in history'.reread \/ spec = InitialSpec
    BY <1>0, <1>2, <1>6, <2>1, <2>3 DEF GenuineInv
  <2> QED
    BY <1>6, <2>1, <2>3, <2>4 DEF HistoryTypes
<1>8. s \in Stripes /\ s.vol = v /\ s.id = id /\ Genuine(s)'
  <2>1. <<>> \in Seq(ShardStates) /\ "Healthy" \in States
    BY DEF States
  <2> QED
    BY <1>2, <1>4, <1>6, <1>7, <2>1 DEF Stripe, Stripes, Genuine
<1>9. \A x : Genuine(x) => Genuine(x)'
  BY <1>7 DEF Genuine
<1>10. PolicyTypes' /\ \A q \in Policies : q \in history'.reread \/ cached'[q] \in {NoSpec, InitialSpec}
  <2>1. cached \in [Policies -> Specs \union {NoSpec}]
    BY <1>0 DEF TypesInv, PolicyTypes
  <2>2. PolicyTypes'
    BY <1>0, <1>5, <1>6, <2>1 DEF TypesInv, PolicyTypes
  <2>3. ASSUME NEW q \in Policies PROVE q \in history'.reread \/ cached'[q] \in {NoSpec, InitialSpec}
    BY <1>0, <1>5, <1>7, <2>1 DEF GenuineInv
  <2> QED
    BY <2>2, <2>3
<1>11. /\ objects' \subseteq Stripes /\ \A o \in objects' : Genuine(o)'
       /\ \A o, x \in objects' : o.vol = x.vol /\ o.id = x.id => o = x
  BY <1>0, <1>5, <1>8, <1>9 DEF TypesInv, StripeTypes, GenuineInv
<1>12. PICK all : all = add_stripe(volumes[v].stripes, s)
  OBVIOUS
<1>13. all \in SUBSET Stripes /\ AreOf(all, v) /\ \A x \in all : Genuine(x)'
  <2>1. \A x \in volumes[v].stripes : Genuine(x)
    BY <1>0 DEF GenuineInv
  <2> QED
    BY <1>2, <1>8, <1>9, <1>12, <2>1, AddIs
<1>14. PICK x : x = [volumes[v] EXCEPT !.stripes = all]
  OBVIOUS
<1>15. volumes \in [DOMAIN volumes -> VolumeStates]
  BY <1>0 DEF TypesInv, StripeTypes
<1>16. /\ x \in VolumeStates /\ x.stripes = all /\ x.policy = volumes[v].policy
       /\ volumes' = [volumes EXCEPT ![v] = x]
  BY <1>5, <1>12, <1>13, <1>14, <1>15 DEF VolumeStates
<1>17. /\ StripeTypes' /\ DOMAIN volumes \subseteq DOMAIN volumes'
       /\ \A w \in DOMAIN volumes : volumes'[w].policy = volumes[w].policy
       /\ \A w \in DOMAIN volumes' : \A y \in volumes'[w].stripes : Genuine(y)'
  <2>1. /\ DOMAIN volumes' = DOMAIN volumes \union {v} /\ volumes'[v] = x
        /\ volumes' \in [DOMAIN volumes' -> VolumeStates]
        /\ \A w \in DOMAIN volumes : w # v => volumes'[w] = volumes[w]
    BY <1>15, <1>16
  <2> QED
    BY <1>0, <1>2, <1>7, <1>11, <1>13, <1>16, <2>1, VolumeIs
<1> QED
  BY <1>5, <1>7, <1>10, <1>11, <1>17, ChangesInv

LEMMA UpdateStatusInv ==
  ASSUME ReconstructionInv, NEW v \in DOMAIN volumes, NEW h \in Healths, UpdateStatus(v, h)
  PROVE  ReconstructionInv'
<1>0. TypesInv /\ GenuineInv
  BY DEF ReconstructionInv
<1>1. PICK s \in volumes[v].stripes :
        volumes' = [volumes EXCEPT ![v].stripes =
          add_stripe(@, [s EXCEPT !.state = h.state, !.health = h.shards])]
  BY DEF UpdateStatus, StripesOf
<1>2. /\ history' = Changed
      /\ UNCHANGED <<cached, cluster, objects, callers, queue, table, pool>>
  BY DEF UpdateStatus, Changes
<1>3. /\ v \in Volumes /\ volumes[v].stripes \in SUBSET Stripes /\ AreOf(volumes[v].stripes, v)
      /\ \A y \in volumes[v].stripes : Genuine(y)
  BY <1>0 DEF TypesInv, StripeTypes, VolumeStates, GenuineInv
<1>4. PICK t : t = [s EXCEPT !.state = h.state, !.health = h.shards]
  OBVIOUS
<1>5. t \in Stripes /\ t.vol = v /\ Genuine(t)
  <2>1. s \in Stripes /\ s.vol = v /\ h.state \in States /\ h.shards \in Seq(ShardStates)
    BY <1>3, ReconstructionAssumption DEF AreOf
  <2>2. t \in Stripes /\ t.vol = s.vol /\ t.policy = s.policy /\ t.code = s.code
    BY <1>4, <2>1 DEF Stripes
  <2> QED
    BY <1>3, <2>1, <2>2 DEF Genuine
<1>6. PICK all : all = add_stripe(volumes[v].stripes, t)
  OBVIOUS
<1>7. all \in SUBSET Stripes /\ AreOf(all, v) /\ \A y \in all : Genuine(y)
  BY <1>3, <1>5, <1>6, AddIs
<1>8. PICK x : x = [volumes[v] EXCEPT !.stripes = all]
  OBVIOUS
<1>9. volumes \in [DOMAIN volumes -> VolumeStates]
  BY <1>0 DEF TypesInv, StripeTypes
<1>10. /\ x \in VolumeStates /\ x.stripes = all /\ x.policy = volumes[v].policy
       /\ volumes' = [volumes EXCEPT ![v] = x]
  BY <1>1, <1>4, <1>6, <1>7, <1>8, <1>9 DEF VolumeStates
<1>11. /\ HistoryTypes' /\ history'.late = history.late /\ history'.reread = history.reread
       /\ \A y : Genuine(y)' <=> Genuine(y)
       /\ \A q \in Policies : q \in history'.reread \/ cached[q] \in {NoSpec, InitialSpec}
  BY <1>0, <1>2, ChangedIs
<1>12. /\ StripeTypes' /\ DOMAIN volumes \subseteq DOMAIN volumes'
       /\ \A w \in DOMAIN volumes : volumes'[w].policy = volumes[w].policy
       /\ \A w \in DOMAIN volumes' : \A y \in volumes'[w].stripes : Genuine(y)'
  <2>1. /\ DOMAIN volumes' = DOMAIN volumes \union {v} /\ volumes'[v] = x
        /\ volumes' \in [DOMAIN volumes' -> VolumeStates]
        /\ \A w \in DOMAIN volumes : w # v => volumes'[w] = volumes[w]
    BY <1>9, <1>10
  <2>2. /\ objects' \subseteq Stripes
        /\ \A o, y \in objects' : o.vol = y.vol /\ o.id = y.id => o = y
    BY <1>0, <1>2 DEF TypesInv, StripeTypes
  <2>3. \A y \in x.stripes : Genuine(y)'
    BY <1>7, <1>10, <1>11
  <2> QED
    BY <1>0, <1>3, <1>7, <1>10, <1>11, <2>1, <2>2, <2>3, VolumeIs
<1>13. PolicyTypes' /\ \A o \in objects' : Genuine(o)'
  BY <1>0, <1>2, <1>11 DEF TypesInv, PolicyTypes, GenuineInv
<1> QED
  BY <1>2, <1>11, <1>12, <1>13, ChangesInv

\* Others change the objects, and no volume.
LEMMA ObjectsInv ==
  ASSUME ReconstructionInv, history' = Changed,
         UNCHANGED <<volumes, cached, cluster, callers, queue, table, pool>>,
         objects' \subseteq Stripes,
         \A o, x \in objects' : o.vol = x.vol /\ o.id = x.id => o = x,
         \A o \in objects' : Genuine(o)
  PROVE  ReconstructionInv'
<1>0. TypesInv /\ GenuineInv
  BY DEF ReconstructionInv
<1>1. /\ HistoryTypes' /\ history'.late = history.late /\ history'.reread = history.reread
      /\ \A y : Genuine(y)' <=> Genuine(y)
      /\ \A q \in Policies : q \in history'.reread \/ cached[q] \in {NoSpec, InitialSpec}
  BY <1>0, ChangedIs
<1>2. StripeTypes' /\ PolicyTypes'
  BY <1>0 DEF TypesInv, StripeTypes, PolicyTypes
<1>3. \A v \in DOMAIN volumes' : \A s \in volumes'[v].stripes : Genuine(s)'
  BY <1>0, <1>1 DEF GenuineInv
<1> QED
  BY <1>1, <1>2, <1>3, ChangesInv

LEMMA PatchStatusInv ==
  ASSUME ReconstructionInv, NEW o \in objects, NEW h \in Healths, PatchStatus(o, h)
  PROVE  ReconstructionInv'
<1>1. PICK x : x = [o EXCEPT !.state = h.state, !.health = h.shards]
  OBVIOUS
<1>2. /\ history' = Changed /\ objects' = (objects \ {o}) \union {x}
      /\ UNCHANGED <<volumes, cached, cluster, callers, queue, table, pool>>
  BY <1>1 DEF PatchStatus, Changes
<1>3. /\ objects \subseteq Stripes /\ \A y \in objects : Genuine(y)
      /\ \A y, z \in objects : y.vol = z.vol /\ y.id = z.id => y = z
  BY DEF ReconstructionInv, TypesInv, StripeTypes, GenuineInv
<1>4. x \in Stripes /\ x.vol = o.vol /\ x.id = o.id /\ x.policy = o.policy /\ x.code = o.code
  <2>1. o \in Stripes /\ h.state \in States /\ h.shards \in Seq(ShardStates)
    BY <1>3, ReconstructionAssumption
  <2> QED
    BY <1>1, <2>1 DEF Stripes
<1>5. /\ objects' \subseteq Stripes /\ \A y \in objects' : Genuine(y)
      /\ \A y, z \in objects' : y.vol = z.vol /\ y.id = z.id => y = z
  BY <1>2, <1>3, <1>4 DEF Genuine
<1> QED
  BY <1>2, <1>5, ObjectsInv

LEMMA DeleteObjectInv ==
  ASSUME ReconstructionInv, NEW o \in objects, DeleteObject(o)
  PROVE  ReconstructionInv'
<1>1. /\ history' = Changed /\ objects' \subseteq objects
      /\ UNCHANGED <<volumes, cached, cluster, callers, queue, table, pool>>
  BY DEF DeleteObject, Changes
<1>2. /\ objects \subseteq Stripes /\ \A y \in objects : Genuine(y)
      /\ \A y, z \in objects : y.vol = z.vol /\ y.id = z.id => y = z
  BY DEF ReconstructionInv, TypesInv, StripeTypes, GenuineInv
<1> QED
  BY <1>1, <1>2, ObjectsInv

LEMMA EditPolicyInv ==
  ASSUME ReconstructionInv, NEW p \in Policies, NEW spec \in Specs, EditPolicy(p, spec)
  PROVE  ReconstructionInv'
<1>0. TypesInv /\ GenuineInv
  BY DEF ReconstructionInv
<1>1. /\ history' = Changed /\ cluster' = [cluster EXCEPT ![p] = spec]
      /\ UNCHANGED <<volumes, cached, objects, callers, queue, table, pool>>
  BY DEF EditPolicy, Changes
<1>2. /\ HistoryTypes' /\ history'.late = history.late /\ history'.reread = history.reread
      /\ \A y : Genuine(y)' <=> Genuine(y)
      /\ \A q \in Policies : q \in history'.reread \/ cached[q] \in {NoSpec, InitialSpec}
  BY <1>0, <1>1, ChangedIs
<1>3. StripeTypes' /\ PolicyTypes'
  BY <1>0, <1>1 DEF TypesInv, StripeTypes, PolicyTypes
<1>4. /\ \A o \in objects' : Genuine(o)'
      /\ \A v \in DOMAIN volumes' : \A s \in volumes'[v].stripes : Genuine(s)'
  BY <1>0, <1>1, <1>2 DEF GenuineInv
<1> QED
  BY <1>1, <1>2, <1>3, <1>4, ChangesInv

LEMMA RefreshInv == ReconstructionInv /\ Refresh => ReconstructionInv'
<1> SUFFICES ASSUME ReconstructionInv, Refresh PROVE ReconstructionInv'
  OBVIOUS
<1>0. TypesInv /\ GenuineInv
  BY DEF ReconstructionInv
<1>1. PICK edited : edited = {p \in Policies : cluster[p] # InitialSpec \/ cached[p] \notin {NoSpec, cluster[p]}}
  OBVIOUS
<1>2. /\ cached' = cluster /\ history' = [Changed EXCEPT !.reread = @ \union edited]
      /\ UNCHANGED <<volumes, cluster, objects, callers, queue, table, pool>>
  BY <1>1 DEF Refresh, Changes
<1>3. /\ HistoryTypes' /\ history'.late = history.late
      /\ history'.reread = history.reread \union edited
  <2>1. PICK old \in [calls: Nat, changes: Nat, late: SUBSET Nat, reread: SUBSET Policies] :
          old = history
    BY <1>0 DEF TypesInv, HistoryTypes
  <2>2. PICK counted : counted = [old EXCEPT !.changes = @ + 1]
    OBVIOUS
  <2>3. PICK new : new = [counted EXCEPT !.reread = @ \union edited]
    OBVIOUS
  <2>4. edited \subseteq Policies
    BY <1>1
  <2>5. /\ counted \in [calls: Nat, changes: Nat, late: SUBSET Nat, reread: SUBSET Policies]
        /\ counted.late = old.late /\ counted.reread = old.reread
    BY <2>2
  <2>6. /\ new \in [calls: Nat, changes: Nat, late: SUBSET Nat, reread: SUBSET Policies]
        /\ new.late = old.late /\ new.reread = old.reread \union edited
    BY <2>3, <2>4, <2>5
  <2>7. history' = new
    BY <1>2, <2>1, <2>2, <2>3 DEF Changed
  <2> QED
    BY <2>1, <2>6, <2>7 DEF HistoryTypes
<1>4. \A y : Genuine(y) => Genuine(y)'
  BY <1>3 DEF Genuine
<1>5. StripeTypes' /\ PolicyTypes'
  BY <1>0, <1>2 DEF TypesInv, StripeTypes, PolicyTypes
<1>6. /\ \A o \in objects' : Genuine(o)'
      /\ \A v \in DOMAIN volumes' : \A s \in volumes'[v].stripes : Genuine(s)'
  BY <1>0, <1>2, <1>4 DEF GenuineInv
<1>7. \A p \in Policies : p \in history'.reread \/ cached'[p] \in {NoSpec, InitialSpec}
  BY <1>1, <1>2, <1>3
<1> QED
  BY <1>2, <1>3, <1>5, <1>6, <1>7, ChangesInv

-----------------------------------------------------------------------------
(* Every step keeps the invariant.                                         *)

LEMMA InitReconstructionInv == Init => ReconstructionInv
<1> SUFFICES ASSUME Init PROVE ReconstructionInv
  OBVIOUS
<1> USE ReconstructionAssumption
<1>1. TypesInv
  BY InitTypesInv
<1>2. PlacesInv
  <2>1. Elements(channel) = {} /\ NoRepeats(channel)
    BY DEF Init, Elements, NoRepeats
  <2>2. /\ \A c \in Callers : callers[c].pc = "idle"
        /\ \A t \in TaskIds : workers[t].pc = "none"
    BY DEF Init, Idle, NoWorker
  <2> QED
    BY <2>1, <2>2 DEF PlacesInv
<1>3. PermitsInv
  <2>1. Workers = {}
    BY DEF Init, Workers, Running, NoWorker
  <2>2. Cardinality(Workers) = 0
    BY <2>1, FS_EmptySet
  <2> QED
    BY <2>2 DEF Init, PermitsInv
<1>4. ProgressInv
  <2>1. DOMAIN table = {} /\ \A t \in TaskIds : workers[t].pc = "none"
    BY DEF Init, NoWorker
  <2> QED
    BY <2>1 DEF ProgressInv, TellsProgress, Running
<1>5. DegradedReadsAreRepaired
  <2>1. \A c \in Callers : callers[c].rebuilt = {}
    BY DEF Init, Idle
  <2> QED
    BY <2>1 DEF DegradedReadsAreRepaired
<1>6. GenuineInv
  <2>1. \A p \in Policies : cached[p] = NoSpec
    BY DEF Init
  <2>2. \A o \in InitialObjects : Genuine(o)
    BY DEF Genuine
  <2>3. \A v \in DOMAIN volumes : volumes[v].stripes \subseteq InitialObjects
    BY DEF Init
  <2>4. /\ \A c \in Callers : callers[c].todo = {} /\ callers[c].spec = NoSpec
        /\ \A t \in TaskIds : workers[t].stripe = {} /\ workers[t].pc = "none"
    BY DEF Init, Idle, NoWorker
  <2>5. objects = InitialObjects
    BY DEF Init
  <2> QED
    BY <2>1, <2>2, <2>3, <2>4, <2>5 DEF GenuineInv
<1> QED
  BY <1>1, <1>2, <1>3, <1>4, <1>5, <1>6 DEF ReconstructionInv

LEMMA StutterInv == ReconstructionInv /\ UNCHANGED vars => ReconstructionInv'
<1> SUFFICES ASSUME ReconstructionInv, UNCHANGED vars PROVE ReconstructionInv'
  OBVIOUS
<1>1. UNCHANGED <<volumes, cached, cluster, objects, callers, queue, channel, tasks, table, pool,
                  workers, permits, loop, history>>
  BY DEF vars, metadata, queue, pool
<1>2. StripeTypes' /\ PolicyTypes' /\ HistoryTypes'
  BY <1>1 DEF ReconstructionInv, TypesInv, StripeTypes, PolicyTypes, HistoryTypes
<1>3. \A y : Genuine(y) => Genuine(y)'
  BY <1>1 DEF Genuine
<1>4. /\ \A p \in Policies : p \in history'.reread \/ cached'[p] \in {NoSpec, InitialSpec}
      /\ \A o \in objects' : Genuine(o)'
      /\ \A v \in DOMAIN volumes' : \A s \in volumes'[v].stripes : Genuine(s)'
  BY <1>1, <1>3 DEF ReconstructionInv, GenuineInv
<1> QED
  BY <1>1, <1>2, <1>4, ChangesInv

LEMMA OthersInv == ReconstructionInv /\ Others => ReconstructionInv'
<1> SUFFICES ASSUME ReconstructionInv, Others PROVE ReconstructionInv'
  OBVIOUS
<1>1. ASSUME NEW v \in Volumes, NEW p \in Policies, Sync(v, p) PROVE ReconstructionInv'
  BY <1>1, SyncInv
<1>2. ASSUME NEW v \in DOMAIN volumes, NEW id \in Ids, Destage(v, id) PROVE ReconstructionInv'
  BY <1>2, DestageInv
<1>3. ASSUME NEW v \in DOMAIN volumes, NEW h \in Healths, UpdateStatus(v, h)
      PROVE  ReconstructionInv'
  BY <1>3, UpdateStatusInv
<1>4. ASSUME NEW o \in objects, NEW h \in Healths, PatchStatus(o, h) PROVE ReconstructionInv'
  BY <1>4, PatchStatusInv
<1>5. ASSUME NEW o \in objects, DeleteObject(o) PROVE ReconstructionInv'
  BY <1>5, DeleteObjectInv
<1>6. ASSUME NEW p \in Policies, NEW spec \in Specs, EditPolicy(p, spec) PROVE ReconstructionInv'
  BY <1>6, EditPolicyInv
<1>7. CASE Refresh
  BY <1>7, RefreshInv
<1> QED
  BY <1>1, <1>2, <1>3, <1>4, <1>5, <1>6, <1>7 DEF Others, Ids

LEMMA NextReconstructionInv == ReconstructionInv /\ [Next]_vars => ReconstructionInv'
<1> SUFFICES ASSUME ReconstructionInv, [Next]_vars PROVE ReconstructionInv'
  OBVIOUS
<1>1. ASSUME NEW c \in Callers, Call(c) PROVE ReconstructionInv'
  BY <1>1, BeginReadInv, StartReconstructionInv DEF Call
<1>2. ASSUME NEW c \in Callers, Continue(c) PROVE ReconstructionInv'
  BY <1>2, ReadPolicyInv, ReadStripeInv, EndReadInv, SendTaskInv, InsertTaskInv DEF Continue
<1>3. ASSUME NEW t \in DOMAIN table, Cancel(t) PROVE ReconstructionInv'
  BY <1>3, CancelInv
<1>4. CASE Receive \/ Tick
  BY <1>4, ReceiveInv, TickInv
<1>5. ASSUME NEW t \in TaskIds, Acquire(t) PROVE ReconstructionInv'
  BY <1>5, AcquireInv
<1>6. ASSUME NEW t \in TaskIds, Work(t) PROVE ReconstructionInv'
  BY <1>6, FindStripeInv, RebuildPolicyInv, RebuildInv DEF Work
<1>7. CASE Others
  BY <1>7, OthersInv
<1>8. CASE UNCHANGED vars
  BY <1>8, StutterInv
<1> QED
  BY <1>1, <1>2, <1>3, <1>4, <1>5, <1>6, <1>7, <1>8 DEF Next

-----------------------------------------------------------------------------
(* What follows for every instance.                                        *)

LEMMA TrackedFromInv == ReconstructionInv => TasksAreTracked
<1> SUFFICES ASSUME ReconstructionInv PROVE TasksAreTracked
  OBVIOUS
<1>0. TypesInv
  BY DEF ReconstructionInv
<1>1. ASSUME NEW v \in DOMAIN volumes
      PROVE  v \in Volumes /\ volumes[v].policy \in Policies
             /\ \A s \in volumes[v].stripes : s.vol = v /\ s.id \in DOMAIN Starts
                  /\ get_stripe(v, s.id) = {s}
  <2>1. /\ v \in Volumes /\ volumes[v].policy \in Policies
        /\ volumes[v].stripes \in SUBSET Stripes /\ AreOf(volumes[v].stripes, v)
    BY <1>0 DEF TypesInv, StripeTypes, VolumeStates
  <2>2. ASSUME NEW s \in volumes[v].stripes
        PROVE  s.vol = v /\ s.id \in DOMAIN Starts /\ get_stripe(v, s.id) = {s}
    BY <2>1 DEF AreOf, Stripes, Ids, get_stripe, StripesOf
  <2> QED
    BY <2>1, <2>2
<1>2. /\ cached \in [Policies -> Specs \union {NoSpec}] /\ cluster \in [Policies -> Specs]
      /\ Len(channel) <= ChannelCap
      /\ DOMAIN table \subseteq 0..(Len(tasks) - 1)
  BY <1>0 DEF TypesInv, PolicyTypes, QueueTypes
<1>3. \A i \in 1..Len(channel) : channel[i] < Len(tasks)
  <2>1. channel \in Seq(0..(Len(tasks) - 1)) /\ Len(tasks) \in Nat
    BY <1>0 DEF TypesInv, QueueTypes
  <2>2. \A i \in 1..Len(channel) : channel[i] \in 0..(Len(tasks) - 1)
    BY <2>1
  <2> QED
    BY <2>1, <2>2
<1>4. permits = MaxConcurrent - Cardinality(Workers) /\ permits >= 0
  <2>1. Cardinality(Workers) \in Nat
    <3>1. IsFiniteSet(TaskIds)
      <4>1. 0 \in Int /\ MaxTasks - 1 \in Int
        BY ReconstructionAssumption
      <4> QED
        BY <4>1, FS_Interval DEF TaskIds
    <3>2. Workers \subseteq TaskIds
      BY DEF Workers
    <3> QED
      BY <3>1, <3>2, FS_Subset, FS_CardinalityType
  <2>2. permits \in Nat /\ permits + Cardinality(Workers) = MaxConcurrent
    BY <1>0 DEF TypesInv, PoolTypes, ReconstructionInv, PermitsInv
  <2> QED
    BY <2>1, <2>2, ReconstructionAssumption
<1>5. ReconstructionTypeOK
  BY <1>1, <1>2, <1>3, <1>4 DEF ReconstructionTypeOK, Workers
<1>6. TableTellsProgress
  BY DEF ReconstructionInv, ProgressInv, TellsProgress, TableTellsProgress
<1> QED
  BY <1>5, <1>6 DEF TasksAreTracked

LEMMA DecodedFromInv == ReconstructionInv => DecodedAsEncoded
<1> SUFFICES ASSUME ReconstructionInv PROVE DecodedAsEncoded
  OBVIOUS
<1>0. TypesInv /\ GenuineInv
  BY DEF ReconstructionInv
<1>1. ASSUME NEW c \in Callers, callers[c].spec # NoSpec, NEW s \in callers[c].todo
      PROVE  \/ volumes[s.vol].policy \in history.reread
             \/ s.policy # volumes[s.vol].policy
             \/ callers[c].spec = s.code
  <2>1. s.vol = callers[c].vol /\ Genuine(s)
    BY <1>0 DEF TypesInv, CallerTypes, GenuineInv
  <2>2. volumes[callers[c].vol].policy \in history.reread \/ callers[c].spec = InitialSpec
    BY <1>0, <1>1 DEF GenuineInv
  <2> QED
    BY <2>1, <2>2 DEF Genuine
<1>2. ASSUME NEW t \in TaskIds, workers[t].pc = "rebuild", NEW s \in workers[t].stripe
      PROVE  \/ workers[t].policy \in history.reread
             \/ s.policy # workers[t].policy
             \/ workers[t].spec = s.code
  BY <1>0, <1>2 DEF GenuineInv, Genuine
<1> QED
  BY <1>1, <1>2 DEF DecodedAsEncoded

\* ReconstructionInv holds of every state.
THEOREM ReconstructionInvariant == Spec => []ReconstructionInv
<1>1. Init => ReconstructionInv
  BY InitReconstructionInv
<1>2. ReconstructionInv /\ [Next]_vars => ReconstructionInv'
  BY NextReconstructionInv
<1> QED
  BY <1>1, <1>2, PTL DEF Spec

\* TasksAreTracked for every instance: the permits of the semaphore are those the running
\* workers do not hold, whatever fails, and the table of active_tasks tells of every task
\* whose entry was not late what its worker does.
THEOREM TasksStayTracked == Spec => []TasksAreTracked
<1>1. ReconstructionInv => TasksAreTracked
  BY TrackedFromInv
<1> QED
  BY <1>1, ReconstructionInvariant, PTL

\* DegradedReadsAreRepaired for every instance: queue_background_rebuild loses no task of
\* handle_degraded_read, whatever becomes of the read, the channel and the loop.
THEOREM ReadsStayRepaired == Spec => []DegradedReadsAreRepaired
<1>1. ReconstructionInv => DegradedReadsAreRepaired
  BY DEF ReconstructionInv
<1> QED
  BY <1>1, ReconstructionInvariant, PTL

\* DecodedAsEncoded for every instance: load_policy's cache keeps the parameters a volume's
\* stripes were encoded with, until the policy is read again after an edit.
THEOREM DecodingStaysRight == Spec => []DecodedAsEncoded
<1>1. ReconstructionInv => DecodedAsEncoded
  BY DecodedFromInv
<1> QED
  BY <1>1, ReconstructionInvariant, PTL
=============================================================================
