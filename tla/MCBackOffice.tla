---------------------------- MODULE MCBackOffice ----------------------------
(***************************************************************************)
(* Small instance of BackOffice: two handlers, two creators, two targets   *)
(* and a page of one item.  The past of a creator is chosen at a threshold *)
(* of 29, where doubles matter: with one refund more the score is 28 1/2   *)
(* and rounded down, with one chargeback more, or two refunds, it asks for *)
(* a hold, the latter only because it is rounded up.                       *)
(***************************************************************************)
EXTENDS BackOffice, TLC

mcPast == {[q \in Counted |-> CASE q = "CHARGEBACK" -> 28
                                [] q = "REFUND" -> 0
                                [] q = "SUCCEEDED" -> 399]}

\* handlers, creators and targets are only compared
mcSymmetry == Permutations(Handlers) \cup Permutations(Creators) \cup Permutations(Targets)
=============================================================================
