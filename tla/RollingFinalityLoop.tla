------------------------- MODULE RollingFinalityLoop -------------------------
(***************************************************************************)
(* The two loops of Acceptor::rolling_finality, one iteration per step, on *)
(* every labelling of a chain that ends below height Cur, for a new block  *)
(* with PNI = 0.                                                           *)
(***************************************************************************)
EXTENDS RollingFinality

CONSTANTS
  Cur,     \* height of the block being accepted
  MaxPni   \* most non-attested iterations of a block

\* What the constants must satisfy.
LoopAssumption == Cur \in Nat \ {0} /\ MaxPni \in Nat

VARIABLES
  lab0,   \* the labels read from the database
  pni,    \* the non-attested iterations of the blocks
  lfb,    \* height of the last finalized block
  lab,    \* the labels as the loops rewrite them
  i,      \* height the running loop looks at
  stable, \* stable_count
  loop    \* "down", "up" or "done"

after == [h \in 0..(Cur - 1) |-> ConfirmedAfter(pni[h])]

loopVars == <<lab0, pni, lfb, lab, i, stable, loop>>

LoopInit ==
  /\ lfb \in 0..(Cur - 1)
  /\ lab0 \in {f \in [0..(Cur - 1) -> {"Accepted", "Attested", "Confirmed", "Final"}] :
                 \A h \in 0..(Cur - 1) : f[h] = "Final" <=> h <= lfb}
  /\ pni \in {f \in [0..(Cur - 1) -> 0..MaxPni] :
                \A h \in 0..(Cur - 1) :
                  lab0[h] \in {"Accepted", "Attested"} => lab0[h] = BlockLabel(f[h])}
  /\ lab = lab0
  /\ i = Cur - 1
  /\ stable = 1
  /\ loop = "down"

\* From the tip to the last finalized block: set Label::Confirmed.
ScanDown ==
  /\ loop = "down" /\ i > lfb
  /\ \/ /\ lab[i] # "Confirmed"
        /\ stable >= after[i]
        /\ lab' = [lab EXCEPT ![i] = "Confirmed"]
        /\ stable' = stable + 1
        /\ i' = i - 1
        /\ loop' = "down"
     \/ /\ lab[i] # "Confirmed"
        /\ stable < after[i]
        /\ loop' = "up"
        /\ i' = lfb + 1
        /\ UNCHANGED <<lab, stable>>
     \/ /\ lab[i] = "Confirmed"
        /\ stable' = stable + 1
        /\ i' = i - 1
        /\ UNCHANGED <<lab, loop>>
  /\ UNCHANGED <<lab0, pni, lfb>>

EndDown ==
  /\ loop = "down" /\ i = lfb
  /\ loop' = "up"
  /\ i' = lfb + 1
  /\ UNCHANGED <<lab0, pni, lfb, lab, stable>>

\* From the last finalized block to the tip: set Label::Final.
ScanUp ==
  /\ loop = "up" /\ i < Cur
  /\ \/ /\ lab[i] = "Confirmed"
        /\ lab' = [lab EXCEPT ![i] = "Final"]
        /\ i' = i + 1
        /\ loop' = "up"
     \/ /\ lab[i] # "Confirmed"
        /\ loop' = "done"
        /\ UNCHANGED <<lab, i>>
  /\ UNCHANGED <<lab0, pni, lfb, stable>>

EndUp ==
  /\ loop = "up" /\ i = Cur
  /\ loop' = "done"
  /\ UNCHANGED <<lab0, pni, lfb, lab, i, stable>>

LoopNext == ScanDown \/ EndDown \/ ScanUp \/ EndUp

LoopSpec == LoopInit /\ [][LoopNext]_loopVars

\* Wherever the two loops of rolling_finality stop, the labels are those of the
\* closed form, on every input.
LoopsGiveClosedForm ==
  loop = "done" =>
    \A h \in 0..(Cur - 1) : lab[h] = ScannedLabel(lab0, after, lfb, Cur, h)
=============================================================================
