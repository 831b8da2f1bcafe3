--------------------------- MODULE MCAuthSessions ---------------------------
(***************************************************************************)
(* Small instance of AuthSessions: two users, two handlers, a table of a   *)
(* few sessions.  Users are alike and handlers are alike.                  *)
(***************************************************************************)
EXTENDS AuthSessions, TLC

symmetry == Permutations(Users) \cup Permutations(Handlers)
=============================================================================
