----------------------------- MODULE MappingStore -----------------------------
(***************************************************************************)
(* What the metadata engine promises to those who look blocks up: a        *)
(* mapping from logical blocks to locations that changes as a whole for a  *)
(* run of blocks, after the change has been made durable, and that is what *)
(* was made durable last once the engine has recovered.                    *)
(*                                                                         *)
(* The promise holds as long as the log is intact: see Recoverable in      *)
(* MetadataEngine.                                                         *)
(***************************************************************************)
EXTENDS Naturals

CONSTANTS
  Blocks,  \* the logical blocks
  None     \* the location of a block that is not mapped

VARIABLES
  mapping,  \* the location a lookup finds for each block
  logged,   \* the location that was made durable last
  intact    \* nothing has happened that recovery does not cope with

\* Blocks that follow one another.
Run(from, to) == {b \in Blocks : from <= b /\ b <= to}

\* A run of blocks is given one location, or none.
Log ==
  /\ \E from, to \in Blocks :
       /\ \A b \in Blocks \ Run(from, to) : logged'[b] = logged[b]
       /\ \A b, c \in Run(from, to) : logged'[b] = logged'[c]
  /\ UNCHANGED mapping

\* What was logged for a run of blocks is seen at once for all of them.
Show ==
  /\ \E from, to \in Blocks :
       mapping' = [b \in Blocks |-> IF b \in Run(from, to) THEN logged[b] ELSE mapping[b]]
  /\ UNCHANGED logged

\* The engine stops, at any moment, and recovers.
Recover == mapping' = logged /\ UNCHANGED logged

Begin ==
  /\ mapping = [b \in Blocks |-> None]
  /\ logged = mapping
  /\ intact = TRUE

\* Once the log is not intact, nothing is promised any more.
Change == ~intact' \/ (intact /\ (Log \/ Show \/ Recover))

Promise == Begin /\ [][Change]_<<mapping, logged, intact>>
=============================================================================
