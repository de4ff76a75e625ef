--------------------------- MODULE MetricsCollector ---------------------------
(***************************************************************************)
(* The registry of the metrics collector                                   *)
(* (src/rustfs/monitoring/collector.rs): a counter is looked up by name    *)
(* under the read lock and, if it is not there, created under the write    *)
(* lock taken afterwards.  Gauges and histograms are registered alike.     *)
(***************************************************************************)
EXTENDS Naturals, FiniteSets

CONSTANTS
  Threads,  \* threads that count
  Series,   \* names of counters
  MaxIncs   \* bound: increments

ASSUME CollectorAssumption == IsFiniteSet(Threads) /\ MaxIncs \in Nat

VARIABLES
  registry,  \* counters: the number of the counter of each name, 0 if there is none
  value,     \* the counters, by number
  thread,    \* the threads: what they hold
  begun,     \* history: increments begun
  expected   \* history: increments of each name since the last reset

collectorVars == <<registry, value, thread, begun, expected>>

Ids == 0..Cardinality(Threads \X Series)
Idle == [pc |-> "idle", name |-> CHOOSE s \in Series : TRUE, id |-> 0]

\* counter(name): the read lock.
LookUpCounter(t, s) ==
  /\ thread[t].pc = "idle" /\ begun < MaxIncs
  /\ begun' = begun + 1
  /\ thread' = [thread EXCEPT ![t] =
       [pc |-> IF registry[s] = 0 THEN "missed" ELSE "holds", name |-> s, id |-> registry[s]]]
  /\ UNCHANGED <<registry, value, expected>>

NewId == Cardinality(DOMAIN value)

\* The write lock: entry(name).or_insert_with(...).
CreateCounter(t) ==
  LET s == thread[t].name
      id == IF registry[s] = 0 THEN NewId ELSE registry[s]
  IN
  /\ thread[t].pc = "missed"
  /\ registry' = [registry EXCEPT ![s] = id]
  /\ value' = [i \in DOMAIN value \union {id} |-> IF i \in DOMAIN value THEN value[i] ELSE 0]
  /\ thread' = [thread EXCEPT ![t].pc = "holds", ![t].id = id]
  /\ UNCHANGED <<begun, expected>>

\* inc on the Arc the thread holds.
Inc(t) ==
  /\ thread[t].pc = "holds"
  /\ value' = [value EXCEPT ![thread[t].id] = @ + 1]
  /\ expected' = [expected EXCEPT ![thread[t].name] = @ + 1]
  /\ thread' = [thread EXCEPT ![t] = Idle]
  /\ UNCHANGED <<registry, begun>>

\* reset of a counter; MetricsCollector::reset clears one after another.
ResetCounter(s) ==
  /\ registry[s] # 0
  /\ value' = [value EXCEPT ![registry[s]] = 0]
  /\ expected' = [expected EXCEPT ![s] = 0]
  /\ UNCHANGED <<registry, thread, begun>>

CollectorInit ==
  /\ registry = [s \in Series |-> 0] /\ value = [i \in {0} |-> 0]
  /\ thread = [t \in Threads |-> Idle] /\ begun = 0 /\ expected = [s \in Series |-> 0]

CollectorNext ==
  \/ \E t \in Threads : (\E s \in Series : LookUpCounter(t, s)) \/ CreateCounter(t) \/ Inc(t)
  \/ \E s \in Series : ResetCounter(s)

\* No increment is lost to a counter that is not exported: get_counters shows
\* every increment of every name, however threads race for its first use.
IncrementsAreExported ==
  \A s \in Series : value[registry[s]] = expected[s]
=============================================================================
