-------------------------- MODULE MCBillingWebhook --------------------------
(***************************************************************************)
(* Small instance of BillingWebhook: two handlers, one fan, Int columns    *)
(* that hold at most 1000.  The payloads: a charge; an amount no column    *)
(* holds, followed by a second report of the charge's transaction under an *)
(* event id of its own; a malformed amount in front of an event that is    *)
(* fine; and what the shipped adapters make of four requests: an event     *)
(* without payer, and nothing to ingest from one to the other processor,   *)
(* one signed with another secret and one whose body is not canonical.     *)
(***************************************************************************)
EXTENDS Adapters

CONSTANTS fan, i1, i2, i3, i4, k1, k2, k3

mcEventIds == {i1, i2, i3, i4} \cup (ProcessorIds \X {k2})
mcTxnKeys == {k1, k2, k3} \cup (ProcessorIds \X {k2})
mcFans == {fan}
mcRefs == {k2}
mcEnabled == ProcessorIds
mcWithSecret == {"segpay_stub"}

\* a notice without event id and type; negative amounts are booked as zero
Sent == [to |-> "segpay_stub", dialect |-> "segpay_stub", signer |-> "segpay_stub",
         canonical |-> TRUE, eventId |-> Absent, txn |-> k2, type |-> Absent,
         amount |-> -7, integral |-> TRUE, refsOk |-> TRUE]

mcPayloads ==
    {Sent, [Sent EXCEPT !.to = "ccbill_stub"], [Sent EXCEPT !.signer = "ccbill_stub"],
     [Sent EXCEPT !.canonical = FALSE]}

Charge == [id |-> i1, txn |-> k1, type |-> "subscription_charge", gross |-> 999,
           integral |-> TRUE, fan |-> fan, refsOk |-> TRUE]

\* the same processor transaction under another event id
ChargeAgain == [Charge EXCEPT !.id = i2, !.type = "renewal"]

TooLarge == [id |-> i3, txn |-> k2, type |-> "refund", gross |-> 1001,
             integral |-> TRUE, fan |-> fan, refsOk |-> TRUE]

Malformed == [id |-> i4, txn |-> k3, type |-> "unknown", gross |-> 7,
              integral |-> FALSE, fan |-> fan, refsOk |-> TRUE]

mcEvents == {Charge, ChargeAgain, TooLarge, Malformed, EventOf(Sent)}

mcDeliveries ==
    {<<Charge>>, <<TooLarge, ChargeAgain>>, <<Malformed, Charge>>} \cup StubDeliveries

\* the one payload the replay runs need
mcChargeOnly == {<<Charge>>}
=============================================================================
