---------------------------- MODULE OutboxProofs ----------------------------
(***************************************************************************)
(* What follows from the promise of Outbox alone, for every component that *)
(* keeps it: BackOfficeProofs, VerificationProofs and PurchasesProofs show *)
(* that theirs do, and take these theorems over.                           *)
(***************************************************************************)
EXTENDS Outbox, TLAPS

(* Facts are told at most once and none disappears: the two together are   *)
(* inductive.                                                              *)
THEOREM KeepsAccount == BoxSpec => [](AllAccountedFor /\ ToldAtMostOnce)
<1>1. BoxInit => AllAccountedFor /\ ToldAtMostOnce
  BY DEF BoxInit, AllAccountedFor, ToldAtMostOnce
<1>2. AllAccountedFor /\ ToldAtMostOnce /\ [BoxNext]_boxVars => (AllAccountedFor /\ ToldAtMostOnce)'
  <2> SUFFICES ASSUME AllAccountedFor, ToldAtMostOnce, [BoxNext]_boxVars
               PROVE  AllAccountedFor' /\ ToldAtMostOnce'
    OBVIOUS
  <2>1. ASSUME NEW fact, Record(fact) PROVE AllAccountedFor' /\ ToldAtMostOnce'
    BY <2>1 DEF Record, AllAccountedFor, ToldAtMostOnce
  <2>2. ASSUME NEW entry, NEW fact, Tell(entry, fact) PROVE AllAccountedFor' /\ ToldAtMostOnce'
    <3>1. fact \in untold /\ fact \notin lost /\ \A t \in told : t[2] # fact
      BY <2>2 DEF Tell, ToldAtMostOnce
    <3>2. ToldAtMostOnce'
      BY <2>2, <3>1 DEF Tell, ToldAtMostOnce
    <3>3. {new[2] : new \in told'} = {new[2] : new \in told} \cup {fact}
      <4>1. told' = told \cup {<<entry, fact>>} /\ <<entry, fact>>[2] = fact
        BY <2>2 DEF Tell
      <4>2. QED
        BY <4>1, Zenon
    <3>4. AllAccountedFor'
      BY <2>2, <3>1, <3>3 DEF Tell, AllAccountedFor
    <3>5. QED
      BY <3>2, <3>4
  <2>3. ASSUME NEW fact, Lose(fact) PROVE AllAccountedFor' /\ ToldAtMostOnce'
    BY <2>3 DEF Lose, AllAccountedFor, ToldAtMostOnce
  <2>4. CASE UNCHANGED boxVars
    BY <2>4 DEF boxVars, AllAccountedFor, ToldAtMostOnce
  <2>5. QED
    BY <2>1, <2>2, <2>3, <2>4 DEF BoxNext
<1>3. QED
  BY <1>1, <1>2, PTL DEF BoxSpec

=============================================================================
