---------------------------- MODULE Transactions ----------------------------
(***************************************************************************)
(* The two lives of a transaction: in the mempool of a node, and in the    *)
(* blocks that execute it (BlockScenes).  A behaviour follows one of them; *)
(* the variables of the other keep their initial values.                   *)
(***************************************************************************)
EXTENDS MCMempool, BlockScenes

VARIABLE life

ASSUME BlocksAssumption == ExecAssumption

LivesInit ==
  /\ life \in {"pool", "blocks"}
  /\ Init
  /\ ExecInit

LivesNext ==
  \/ life = "pool" /\ Next /\ UNCHANGED <<life, execVars>>
  \/ life = "blocks" /\ ExecNext /\ UNCHANGED <<life, vars>>

LivesSpec == LivesInit /\ [][LivesNext]_<<life, vars, execVars>>

\* The blocks alone.
BlocksSpec == LivesInit /\ life = "blocks" /\ [][LivesNext]_<<life, vars, execVars>>
=============================================================================
