------------------------------ MODULE ScanGate ------------------------------
(***************************************************************************)
(* What the staging-first pipeline promises: an upload (a media id and the *)
(* staging object it was completed with) is public only once the scanner   *)
(* has called that object clean.  No queue, worker, retry or status here.  *)
(***************************************************************************)
CONSTANTS Media, Keys, NoKey

VARIABLES cleared,   \* pairs <<media, staging key>> the scanner called clean
          public     \* per media, the staging key its public object comes from

gateVars == <<cleared, public>>

GateInit == cleared = {} /\ public = [m \in Media |-> NoKey]

Clear(m, k) ==
    /\ cleared' = cleared \cup {<<m, k>>}
    /\ UNCHANGED public

Publish(m, k) ==
    /\ <<m, k>> \in cleared
    /\ public' = [public EXCEPT ![m] = k]
    /\ UNCHANGED cleared

GateNext == \E m \in Media, k \in Keys : Clear(m, k) \/ Publish(m, k)

GateSpec == GateInit /\ [][GateNext]_gateVars
=============================================================================
