--------------------------- MODULE RollingFinality ---------------------------
(***************************************************************************)
(* What Acceptor::rolling_finality computes, in closed form.  lab maps     *)
(* heights to labels, after maps heights to the count that Label::Accepted *)
(* and Label::Attested carry.  RollingFinalityLoop runs the code's two     *)
(* loops step by step and checks that they end in these labels.            *)
(***************************************************************************)
EXTENDS Integers

Labels == {"None", "Accepted", "Attested", "Confirmed", "Final"}

\* confirmed_after, from the previous non-attested iterations of the header.
ConfirmedAfter(pni) == IF pni = 0 THEN 1 ELSE 2 * pni

\* The label the accepted block itself gets.
BlockLabel(pni) == IF pni = 0 THEN "Attested" ELSE "Accepted"

\* h is the height of the last finalized block below cur.
IsLastFinal(lab, h, cur) ==
  /\ h \in 0..(cur - 1)
  /\ lab[h] = "Final"
  /\ \A g \in (h + 1)..(cur - 1) : lab[g] # "Final"

\* Mutated form of Stable: one block more than the label asks for.
StableStrict(lab, after, g, cur) ==
  lab[g] = "Confirmed" \/ cur - g > after[g]

\* The block at height g does not stop the downward scan.  The scan starts
\* below cur with stable_count = 1 and adds one for every height it passes, so
\* at height g it has counted cur - g.
Stable(lab, after, g, cur) ==
  lab[g] = "Confirmed" \/ cur - g >= after[g]

\* The heights labelled Confirmed once the downward scan is over.
ConfirmedHeights(lab, after, lfb, cur) ==
  {h \in (lfb + 1)..(cur - 1) :
     \/ lab[h] = "Confirmed"
     \/ \A g \in h..(cur - 1) : Stable(lab, after, g, cur)}

\* Mutated form of FinalHeights: the upward scan does not stop at the first
\* block that is not confirmed.
FinalHeightsNoBreak(lab, after, lfb, cur) == ConfirmedHeights(lab, after, lfb, cur)

\* The heights the upward scan labels Final: the unbroken run above the lfb.
FinalHeights(lab, after, lfb, cur) ==
  {h \in (lfb + 1)..(cur - 1) :
     \A g \in (lfb + 1)..h : g \in ConfirmedHeights(lab, after, lfb, cur)}

\* The labels below cur after an Attested block is accepted at height cur.
ScannedLabel(lab, after, lfb, cur, h) ==
  IF h \in FinalHeights(lab, after, lfb, cur) THEN "Final"
  ELSE IF h \in ConfirmedHeights(lab, after, lfb, cur) THEN "Confirmed"
  ELSE lab[h]
=============================================================================
