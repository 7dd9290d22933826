----------------------------- MODULE RoundTasks -----------------------------
(***************************************************************************)
(* The parts of a consensus round that are studied one at a time, each in  *)
(* a small world (RoundScenes): the votes of one node over several         *)
(* iterations, the loops of rolling_finality, the queues of messages, the  *)
(* clocks, and the committees.  A behaviour follows one of them and leaves *)
(* the variables of the others alone.                                      *)
(***************************************************************************)
EXTENDS Consensus, RollingFinalityLoop, RoundMessages, RoundTime, RoundScenes

VARIABLES part, sortSeed, sortList, sortIter, sortNext, committees

sortVars == <<sortSeed, sortList, sortIter, sortNext, committees>>
partVars == <<part, vars, loopVars, rmVars, timeVars, sortVars>>

\* The committees of a round, for forty seeds.
Sort == INSTANCE Sortition WITH
  Seeds <- 0..40, StakeLists <- ProvisionerLists, MinStake <- 3, Round <- 5, VoteCredits <- 3,
  MaxIter <- 4,
  seed <- sortSeed, list <- sortList, curIter <- sortIter, nextIter <- sortNext

\* What the theorems assume of the constants.
ASSUME PartInstances ==
  /\ FaultyBelowMajority
  /\ LoopAssumption
  /\ RoundMessagesAssumption
  /\ RoundTimeAssumption
  /\ Sort!SortitionAssumption

-----------------------------------------------------------------------------
\* A chain that is all final, a clock at its origin, and no committees.
LoopAtRest == lfb = Cur - 1 /\ pni = [h \in 0..(Cur - 1) |-> 0] /\ LoopInit
TimeAtRest == now = 0 /\ TimeInit
SortAtRest ==
  /\ sortSeed = "none" /\ sortList = "none" /\ sortIter = "none" /\ sortNext = "none"
  /\ committees = "none"

PartInit ==
  /\ part \in {"votes", "finality", "queue", "clock", "sortition"}
  /\ Init
  /\ IF part = "finality" THEN LoopInit ELSE LoopAtRest
  /\ RmInit
  /\ IF part = "clock" THEN TimeInit ELSE TimeAtRest
  /\ IF part = "sortition" THEN Sort!SortInit ELSE SortAtRest

PartNext ==
  \/ part = "votes" /\ Next /\ UNCHANGED <<part, loopVars, rmVars, timeVars, sortVars>>
  \/ part = "finality" /\ LoopNext /\ UNCHANGED <<part, vars, rmVars, timeVars, sortVars>>
  \/ part = "queue" /\ RmNext /\ UNCHANGED <<part, vars, loopVars, timeVars, sortVars>>
  \/ part = "clock" /\ TimeNext /\ UNCHANGED <<part, vars, loopVars, rmVars, sortVars>>
  \/ part = "sortition" /\ Sort!SortNext /\ UNCHANGED <<part, vars, loopVars, rmVars, timeVars>>

PartSpec == PartInit /\ [][PartNext]_partVars

-----------------------------------------------------------------------------
(* Properties: those of the modules, and that of the committees *)

\* The verifier of an attestation counts the votes its aggregator counted: both
\* draw the same committees, and the bitset gives back the members that voted.
VerifiersCountAlike == part = "sortition" => Sort!VerifiersCountAlike
=============================================================================
