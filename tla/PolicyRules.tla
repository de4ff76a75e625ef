------------------------------ MODULE PolicyRules ------------------------------
(***************************************************************************)
(* How the fields of a StoragePolicy are understood: the durations written *)
(* in it (src/crd/storage_policy.rs), and the selector by which the        *)
(* migrator finds the pool of a tier (src/migrator/engine.rs).             *)
(*                                                                         *)
(* A duration is a sequence of numbers, of any digits, and of single       *)
(* characters; no two numbers are adjacent.                                *)
(***************************************************************************)
EXTENDS Integers, Sequences, FiniteSets, FiniteSetsExt, Sums

CONSTANTS
  Numbers,     \* numbers in a duration
  Characters,  \* other characters in a duration
  MaxTokens,   \* bound: numbers and characters of a duration
  Width,       \* integers are below it: 2^64 in the code
  LabelValues, \* values of labels
  Expressions, \* requirements of a selector
  MaxPools     \* bound: pools

Units == [h |-> 3600, m |-> 60, s |-> 1, d |-> 86400]
LabelKeys == {"tier", "zone"}
Absent == "-"

ASSUME RulesAssumption ==
  /\ Numbers \subseteq Nat /\ MaxTokens \in Nat /\ Width \in Nat \ {0} /\ MaxPools \in Nat
  /\ Absent \notin LabelValues

VARIABLE rule   \* what is being decided, and the decision

NoRule == [about |-> "none"]

-----------------------------------------------------------------------------
(* Durations.                                                              *)

Number(n) == [kind |-> "number", n |-> n]
Character(c) == [kind |-> "character", c |-> c]

Texts ==
  {t \in UNION {[1..k -> {Number(n) : n \in Numbers} \union {Character(c) : c \in Characters}] :
                k \in 0..MaxTokens} :
     \A i \in 1..(Len(t) - 1) : ~(t[i].kind = "number" /\ t[i + 1].kind = "number")}

Error == -1

Begun == [num |-> << >>, total |-> 0, ok |-> TRUE]

\* Mutant: the number before a unit is kept, and added again at the end.
TakesAndKeeps(acc, token) ==
  IF ~acc.ok THEN acc
  ELSE IF token.kind = "number" THEN [acc EXCEPT !.num = <<token.n>>, !.ok = token.n < Width]
  ELSE IF acc.num = << >> \/ token.c \notin DOMAIN Units THEN [acc EXCEPT !.ok = FALSE]
  ELSE [acc EXCEPT !.total = (@ + acc.num[1] * Units[token.c]) % Width]

\* One step of the loop.  The sum wraps around in a release build.
Takes(acc, token) ==
  IF ~acc.ok THEN acc
  ELSE IF token.kind = "number" THEN [acc EXCEPT !.num = <<token.n>>, !.ok = token.n < Width]
  ELSE IF acc.num = << >> \/ token.c \notin DOMAIN Units THEN [acc EXCEPT !.ok = FALSE]
  ELSE [acc EXCEPT !.num = << >>, !.total = (@ + acc.num[1] * Units[token.c]) % Width]

\* A number at the end stands for seconds; a duration of 0 is refused.
parse_duration(text) ==
  LET read[i \in 0..Len(text)] == IF i = 0 THEN Begun ELSE Takes(read[i - 1], text[i])
      end == read[Len(text)]
      total == (end.total + IF end.num = << >> THEN 0 ELSE end.num[1]) % Width
  IN IF end.ok /\ total > 0 THEN total ELSE Error

-----------------------------------------------------------------------------
(* Pools.                                                                  *)

Labels == [LabelKeys -> LabelValues \union {Absent}]
Pools == [online : BOOLEAN, labels : Labels]
Selectors == [match_labels : Labels, match_expressions : SUBSET Expressions]

HasLabels(wanted, labels) == \A k \in LabelKeys : wanted[k] # Absent => labels[k] = wanted[k]

Holds(e, labels) ==
  CASE e.operator = "In" -> labels[e.key] \in e.values
    [] e.operator = "NotIn" -> labels[e.key] \notin e.values
    [] e.operator = "Exists" -> labels[e.key] # Absent
    [] e.operator = "DoesNotExist" -> labels[e.key] = Absent

\* LabelSelector::matches
matches(selector, labels) ==
  /\ HasLabels(selector.match_labels, labels)
  /\ \A e \in selector.match_expressions : Holds(e, labels)

NoSuitablePool == 0

\* The first online pool with the labels, in the order of the list.
find_pool_for_tier(pools, labels) ==
  Min({i \in DOMAIN pools : pools[i].online /\ HasLabels(labels, pools[i].labels)}
        \union {Len(pools) + 1}) % (Len(pools) + 1)

-----------------------------------------------------------------------------

Understand ==
  /\ rule = NoRule
  /\ \E text \in Texts :
       rule' = [about |-> "duration", text |-> text, result |-> parse_duration(text)]

\* The controller passes the labels of the tier's selector, and only them.
ChoosePool ==
  /\ rule = NoRule
  /\ \E pools \in [1..MaxPools -> Pools], selector \in Selectors :
       rule' = [about |-> "pool", pools |-> pools, selector |-> selector,
                result |-> find_pool_for_tier(pools, selector.match_labels)]

RulesInit == rule = NoRule
RulesNext == Understand \/ ChoosePool

-----------------------------------------------------------------------------

\* What a duration says: every unit follows a number, and every number, none of
\* which is too large, counts with the unit that follows it, the last one perhaps
\* as seconds.
IsDuration(text) ==
  \A i \in DOMAIN text :
    IF text[i].kind = "number" THEN text[i].n < Width
    ELSE text[i].c \in DOMAIN Units /\ i > 1 /\ text[i - 1].kind = "number"
Says(text) ==
  SumOf([i \in {i \in DOMAIN text : text[i].kind = "number"} |->
           text[i].n * IF i = Len(text) THEN 1 ELSE Units[text[i + 1].c]])

\* A duration is taken for what it says, or refused if it says nothing; only one
\* of more than Width seconds is taken for less than it says.
DurationsAreUnderstood ==
  rule.about = "duration" =>
    IF ~IsDuration(rule.text) THEN rule.result = Error
    ELSE IF Says(rule.text) = 0 THEN rule.result = Error
    ELSE Says(rule.text) < Width => rule.result = Says(rule.text)

\* The pool found is online and is one that the policy's selector selects, and one
\* is found if there is any; only the expressions of a selector are not heeded.
PoolsAreSelected ==
  rule.about = "pool" /\ rule.selector.match_expressions = {} =>
    LET suitable == {i \in DOMAIN rule.pools :
                       rule.pools[i].online /\ matches(rule.selector, rule.pools[i].labels)}
    IN IF suitable = {} THEN rule.result = NoSuitablePool ELSE rule.result \in suitable

\* What a policy says in words and labels is what the operator does.
RulesAreKept == DurationsAreUnderstood /\ PoolsAreSelected
=============================================================================
