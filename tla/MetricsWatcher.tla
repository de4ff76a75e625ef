---------------------------- MODULE MetricsWatcher ----------------------------
(***************************************************************************)
(* The metrics watcher (src/metrics/watcher.rs): heat scores of volumes,   *)
(* asked of Prometheus under the names of several metrics and kept for a   *)
(* while.                                                                  *)
(*                                                                         *)
(* The callers are reconciliations.  They share the cache, which is keyed  *)
(* by volume alone, and nothing keeps two of them from asking for the same *)
(* volume at the same time.  A query is sent, evaluated by Prometheus and  *)
(* answered at three moments.                                              *)
(***************************************************************************)
EXTENDS Naturals, FiniteSets

CONSTANTS
  Askers,        \* callers of get_heat_score
  Watched,       \* volumes they ask about
  Metrics,       \* number of metric names: metric_name and fallback_metrics
  CacheTtl,      \* cache_ttl
  QueryTimeout,  \* query_timeout
  MaxTime,       \* bound: moments
  MaxAsks        \* bound: calls of get_heat_score

ASSUME WatcherAssumption ==
  /\ IsFiniteSet(Askers) /\ IsFiniteSet(Watched)
  /\ Metrics \in Nat \ {0} /\ CacheTtl \in Nat /\ QueryTimeout \in Nat \ {0}
  /\ MaxTime \in Nat /\ MaxAsks \in Nat

VARIABLES
  now,       \* the clock
  cache,     \* cache: the entry of each volume, if it has one
  ask,       \* the calls in progress
  healthy,   \* healthy
  asked      \* history: number of calls

watcherVars == <<now, cache, ask, healthy, asked>>

\* What a query for one metric comes to: samples, a result without samples, no
\* connection (or no answer in time), or any other error.
Outcomes == {"samples", "empty", "refused", "failed"}

Moments == 0..MaxTime

\* A score: from samples or zero, evaluated at a moment.  of, which the code does
\* not have, is what the queries behind it came to.
Scores == [kind : {"samples", "zero"}, at : Moments, of : SUBSET Outcomes]
Zero(of) == [kind |-> "zero", at |-> now, of |-> of]

NoEntry == [kind |-> "none"]
Entries == {NoEntry} \union [kind : {"entry"}, score : Scores, expires : 0..(MaxTime + CacheTtl)]

NoResult == [outcome |-> "none", at |-> 0]
AskStates ==
  [pc : {"idle", "next", "sent", "scored", "error"}, volume : Watched, metric : 1..(Metrics + 1),
   sent : Moments, result : {NoResult} \union [outcome : Outcomes, at : Moments],
   of : SUBSET Outcomes, score : {NoEntry} \union Scores]

WatcherTypeOK ==
  /\ now \in Moments /\ cache \in [Watched -> Entries] /\ ask \in [Askers -> AskStates]
  /\ healthy \in BOOLEAN /\ asked \in 0..MaxAsks

NewCall(v) ==
  [pc |-> "next", volume |-> v, metric |-> 1, sent |-> 0, result |-> NoResult, of |-> {},
   score |-> NoEntry]

Concludes(c, pc, score) ==
  ask' = [ask EXCEPT ![c].pc = pc, ![c].score = score, ![c].sent = 0, ![c].metric = 1,
                     ![c].result = NoResult]

-----------------------------------------------------------------------------

\* The comparison is strict: an entry is still good at the moment it expires.
Usable(entry) == entry # NoEntry /\ ~(now > entry.expires)

\* get_heat_score answers from the cache or begins to query.
GetHeatScore(c, v) ==
  /\ ask[c].pc = "idle" /\ asked < MaxAsks
  /\ asked' = asked + 1
  /\ ask' = [ask EXCEPT ![c] =
       IF Usable(cache[v])
         THEN [NewCall(v) EXCEPT !.pc = "scored", !.score = cache[v].score]
         ELSE NewCall(v)]
  /\ UNCHANGED <<now, cache, healthy>>

Send(c) ==
  /\ ask[c].pc = "next" /\ ask[c].metric <= Metrics
  /\ ask' = [ask EXCEPT ![c].pc = "sent", ![c].sent = now]
  /\ UNCHANGED <<now, cache, healthy, asked>>

\* Prometheus, or the network before it, makes something of the query.
Evaluate(c) ==
  /\ ask[c].pc = "sent" /\ ask[c].result = NoResult
  /\ \E outcome \in Outcomes :
       ask' = [ask EXCEPT ![c].result = [outcome |-> outcome, at |-> now]]
  /\ UNCHANGED <<now, cache, healthy, asked>>

\* Mutant: every hit and every insertion is good for as long as the clock runs.
KeepsForEver(c, score) ==
  cache' = [cache EXCEPT ![ask[c].volume] =
              [kind |-> "entry", score |-> score, expires |-> MaxTime]]

Keep(c, score) ==
  cache' = [cache EXCEPT ![ask[c].volume] =
              [kind |-> "entry", score |-> score, expires |-> now + CacheTtl]]

\* The answer arrives; the first that has samples is returned and kept.
TakeSamples(c) ==
  LET score == [kind |-> "samples", at |-> ask[c].result.at, of |-> ask[c].of \union {"samples"}] IN
  /\ ask[c].pc = "sent" /\ ask[c].result.outcome = "samples"
  /\ Keep(c, score)
  /\ Concludes(c, "scored", score)
  /\ UNCHANGED <<now, healthy, asked>>

\* Otherwise the next name is tried.
TryNext(c, outcome) ==
  /\ ask' = [ask EXCEPT ![c].pc = "next", ![c].metric = @ + 1, ![c].result = NoResult,
                        ![c].sent = 0, ![c].of = @ \union {outcome}]
  /\ UNCHANGED <<now, cache, healthy, asked>>

TakeOther(c) ==
  /\ ask[c].pc = "sent" /\ ask[c].result.outcome \in Outcomes \ {"samples"}
  /\ TryNext(c, ask[c].result.outcome)

\* The client gives up; reqwest reports this as a failed connection, or, once the
\* body has begun to arrive, as one that cannot be read.
QueryTimesOut(c) ==
  /\ ask[c].pc = "sent" /\ now = ask[c].sent + QueryTimeout
  /\ \E outcome \in {"refused", "failed"} : TryNext(c, outcome)

\* Mutant: the error of the last connection is forgotten.
NeverReported(c) == FALSE

\* No connection, and no query that came to anything: an error, which is not kept.
Reported(c) == "refused" \in ask[c].of /\ "empty" \notin ask[c].of

GiveUp(c) ==
  /\ ask[c].pc = "next" /\ ask[c].metric > Metrics
  /\ IF Reported(c)
       THEN Concludes(c, "error", NoEntry) /\ UNCHANGED cache
       ELSE Keep(c, Zero(ask[c].of)) /\ Concludes(c, "scored", Zero(ask[c].of))
  /\ UNCHANGED <<now, healthy, asked>>

\* The caller goes on with what it got.
TakeScore(c) ==
  /\ ask[c].pc \in {"scored", "error"}
  /\ ask' = [ask EXCEPT ![c] = [NewCall(@.volume) EXCEPT !.pc = "idle"]]
  /\ UNCHANGED <<now, cache, healthy, asked>>

health_check ==
  /\ \E ok \in BOOLEAN : healthy' = ok
  /\ UNCHANGED <<now, cache, ask, asked>>

\* invalidate_cache and, where there is one volume, clear_cache.
Invalidate(v) ==
  /\ cache[v] # NoEntry
  /\ cache' = [cache EXCEPT ![v] = NoEntry]
  /\ UNCHANGED <<now, ask, healthy, asked>>

\* Time does not pass the moment at which a query in progress must time out.
Tick ==
  /\ now < MaxTime
  /\ \A c \in Askers : ask[c].pc = "sent" => now < ask[c].sent + QueryTimeout
  /\ now' = now + 1
  /\ UNCHANGED <<cache, ask, healthy, asked>>

WatcherInit ==
  /\ now = 0 /\ cache = [v \in Watched |-> NoEntry] /\ healthy = TRUE /\ asked = 0
  /\ \E v \in Watched : ask = [c \in Askers |-> [NewCall(v) EXCEPT !.pc = "idle"]]

WatcherNext ==
  \/ \E c \in Askers :
       \/ \E v \in Watched : GetHeatScore(c, v)
       \/ Send(c) \/ Evaluate(c) \/ TakeSamples(c) \/ TakeOther(c) \/ QueryTimesOut(c) \/ GiveUp(c)
       \/ TakeScore(c)
  \/ \E v \in Watched : Invalidate(v)
  \/ health_check \/ Tick

WatcherSpec == WatcherInit /\ [][WatcherNext]_watcherVars

-----------------------------------------------------------------------------

\* A score made of samples is at most as old, when it is returned, as the cache
\* keeps scores and a query takes, however the queries of callers overlap: a late
\* answer may replace a newer one in the cache, but not stay longer than that.
ScoresAreRecent ==
  [][\A c \in Askers :
       ask[c].pc # "scored" /\ ask'[c].pc = "scored" /\ ask'[c].score.kind = "samples"
       => now - ask'[c].score.at <= CacheTtl + QueryTimeout]_watcherVars

\* A volume is said to be idle only if Prometheus said something: an outage is
\* reported to every caller, and neither a cached nor a returned score stems from
\* unanswered queries alone.
OutagesAreReported ==
  \A c \in Askers :
    ask[c].pc = "scored" /\ ask[c].score.kind = "zero" => ask[c].score.of # {"refused"}
=============================================================================
