------------------------------ MODULE MC_Reports ------------------------------
(***************************************************************************)
(* Instances of the parts that observe and report: the metrics watcher,    *)
(* the controller of ErasureCodingPolicies, the statistics, the metrics    *)
(* collector, the rules of a policy and the sharded map.  They share no    *)
(* state, so each takes its steps in behaviours of its own.                *)
(***************************************************************************)
EXTENDS MetricsWatcher, EcPolicyController, Statistics, MetricsCollector, PolicyRules,
        ShardedMap

VARIABLE part   \* the part that takes steps

Parts == {"watcher", "policies", "statistics", "collector", "rules", "map"}

\* 254 and 2 shards are one more than a policy may have.
Journal == [replication |-> 1, threshold |-> 0]
Good == [data_shards |-> 4, parity_shards |-> 2, stripe_size |-> 65536, journal |-> Journal]
MCSpecs == {Good, [Good EXCEPT !.data_shards = 254]}

MCExpressions == {[key |-> "zone", operator |-> "NotIn", values |-> {"hot"}],
                  [key |-> "zone", operator |-> "Exists", values |-> {}]}

\* What the other parts could choose at the start is chosen for them.
Chosen ==
  /\ part # "policies" => \A e \in EcPolicies : validate(spec[e])
  /\ part # "statistics" => kind = "io"

Init ==
  /\ WatcherInit /\ EcInit /\ StatisticsInit /\ CollectorInit /\ RulesInit /\ MapInit
  /\ part \in Parts /\ Chosen

\* The steps of a part.
Of(p, steps) == part = p /\ steps /\ UNCHANGED part

PolicySteps(steps) ==
  Of("policies", steps) /\ UNCHANGED <<watcherVars, statVars, collectorVars, rule, mapVars>>

Next ==
  \/ Of("watcher", WatcherNext) /\ UNCHANGED <<ecVars, statVars, collectorVars, rule, mapVars>>
  \/ PolicySteps(EcNext)
  \/ Of("statistics", StatisticsNext) /\ UNCHANGED <<watcherVars, ecVars, collectorVars, rule, mapVars>>
  \/ Of("collector", CollectorNext) /\ UNCHANGED <<watcherVars, ecVars, statVars, rule, mapVars>>
  \/ Of("rules", RulesNext) /\ UNCHANGED <<watcherVars, ecVars, statVars, collectorVars, mapVars>>
  \/ Of("map", MapNext) /\ UNCHANGED <<watcherVars, ecVars, statVars, collectorVars, rule>>

vars == <<watcherVars, ecVars, statVars, collectorVars, rule, mapVars, part>>

Fairness == \A e \in EcPolicies : WF_vars(PolicySteps(Reconcile(e)))

Spec == Init /\ [][Next]_vars /\ Fairness

\* Once nothing changes and the API server answers, the status of every
\* ErasureCodingPolicy comes to be true and stays so (StatusSettles of
\* EcPolicyController, in the behaviours in which its controller takes steps).
PoliciesSettle == (part = "policies") => StatusSettles

\* What is counted is counted once, whatever overlaps: volumes and stripes, recordings
\* in every kind of statistics, increments of named counters, entries of the shared map.
CountsAreSound ==
  /\ WatcherTypeOK /\ EcTypeOK
  /\ TotalsAddUp /\ SnapshotsAreBounded
  /\ IncrementsAreExported /\ EntriesAreCounted
=============================================================================
