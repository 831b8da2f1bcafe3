--------------------------- MODULE MCVerification ---------------------------
(***************************************************************************)
(* Small instance of Verification: one creator, two handlers, two rows: an *)
(* age and an identity verification, or two of one kind and session.       *)
(***************************************************************************)
EXTENDS Verification, TLC

HandlerSymmetry == Permutations(Handlers)
=============================================================================
