------------------------------- MODULE Outbox -------------------------------
(***************************************************************************)
(* What a request promises that records a fact in one statement and tells  *)
(* of it in a second one, outside any transaction: a report and its item   *)
(* in the moderators' queue, a post and its compliance event, a charge and *)
(* the tip it pays.  Without requests, steps or failures: a recorded fact  *)
(* is told, once, or lost, and not both; and nothing else is told.         *)
(***************************************************************************)
VARIABLES
    recorded,   \* the facts there are
    untold,     \* those somebody is still to tell of
    told,       \* <<entry, fact>>: what the fact's readers find, and where
    lost        \* those nobody will tell of any more

boxVars == <<recorded, untold, told, lost>>

BoxInit == recorded = {} /\ untold = {} /\ told = {} /\ lost = {}

Record(fact) ==
    /\ fact \notin recorded
    /\ recorded' = recorded \cup {fact}
    /\ untold' = untold \cup {fact}
    /\ UNCHANGED <<told, lost>>

Tell(entry, fact) ==
    /\ fact \in untold
    /\ untold' = untold \ {fact}
    /\ told' = told \cup {<<entry, fact>>}
    /\ UNCHANGED <<recorded, lost>>

Lose(fact) ==
    /\ fact \in untold
    /\ untold' = untold \ {fact}
    /\ lost' = lost \cup {fact}
    /\ UNCHANGED <<recorded, told>>

BoxNext ==
    \/ \E fact \in recorded' : Record(fact)
    \/ \E new \in told' : Tell(new[1], new[2])
    \/ \E fact \in untold : Lose(fact)

BoxSpec == BoxInit /\ [][BoxNext]_boxVars

-----------------------------------------------------------------------------

(* Every fact is told, on its way or lost, and nothing else is.            *)
AllAccountedFor == recorded = untold \cup lost \cup {new[2] : new \in told}

(* No fact is told twice, or told and then lost or still to be told.       *)
ToldAtMostOnce ==
    /\ \A s, t \in told : s[2] = t[2] => s = t
    /\ \A t \in told : t[2] \notin untold \cup lost
    /\ untold \cap lost = {}
=============================================================================
