---------------------------- MODULE ChainRecovery ----------------------------
(***************************************************************************)
(* The two parts of the chain component that bring a node back: the        *)
(* acceptor, which crashes between its durable writes and restarts, and    *)
(* the state machine that finds out that the node is behind or on a fork   *)
(* (SimpleFSM).  A behaviour follows one of them; the other stays in its   *)
(* first state.                                                            *)
(***************************************************************************)
EXTENDS MCAcceptor

VARIABLES part, node, wire, upsets

\* The network has 4 blocks; a side branch of one block leaves it above the last
\* final block, and at height 3 there is a hollow block as well.
Sync == INSTANCE SyncFSM WITH
  Net <- 4, Fork <- 1, SideTop <- 2, SideIter <- 2, LastFinal <- 1, Hollow <- {3},
  MaxReq <- 2, MaxPool <- 1, Attempts <- 1, MaxUpsets <- 1

ASSUME SyncInstance == Sync!SyncAssumption

RecoveryInit ==
  /\ part \in {"acceptor", "sync"}
  /\ Init
  /\ Sync!SyncInit
  /\ part = "acceptor" => node.tip = Sync!Main(1)

RecoveryNext ==
  \/ part = "acceptor" /\ Next /\ UNCHANGED <<part, node, wire, upsets>>
  \/ part = "sync" /\ Sync!SyncNext /\ UNCHANGED <<part, vars>>

\* The fairness of SyncFSM excludes behaviours of the acceptor from the temporal
\* properties, which are about the state machine, and from nothing else.
RecoverySpec ==
  /\ RecoveryInit
  /\ [][RecoveryNext]_<<vars, part, node, wire, upsets>>
  /\ Sync!SyncFairness
  /\ Sync!PresyncFairness

-----------------------------------------------------------------------------
(* Properties of the state machine; those of the acceptor are its module's *)

\* The node ends on the network's branch, at its height (SyncFSM.CatchesUp).
NodeCatchesUp == Sync!CatchesUp

\* It never stays out of sync or without a consensus task (SyncFSM.NodeResumes).
NodeResumes == Sync!NodeResumes
=============================================================================
