------------------------------ MODULE Adapters ------------------------------
(***************************************************************************)
(* From a webhook request to the events the billing webhook ingests: the   *)
(* processor registry, the signature and the parsers of the two adapters   *)
(* the repository ships (apps/api/src/integrations), as ingestWebhook      *)
(* calls them.                                                             *)
(*                                                                         *)
(* "to" is the processor the URL names and "dialect" the one whose field   *)
(* names the body uses (txn, amount, eventType for ccbill_stub and         *)
(* processorTxnId, grossCents, type for segpay_stub).  "signer" is the     *)
(* processor whose secret made the signature, Absent without one, and      *)
(* "canonical" says that the body was sent as JSON.stringify writes it:    *)
(* the signature is checked against the parsed body, serialised again.     *)
(***************************************************************************)
EXTENDS BillingWebhook

CONSTANTS Enabled,      \* PAYMENT_PROCESSORS_ENABLED
          WithSecret,   \* processors whose webhook secret is set
          Refs,         \* references processors give to events and transactions
          Absent,       \* a field that is not there
          Payloads      \* the requests that arrive

ProcessorIds == {"segpay_stub", "ccbill_stub"}

Payload ==
    [to : ProcessorIds, dialect : ProcessorIds, signer : ProcessorIds \cup {Absent},
     canonical : BOOLEAN, eventId : Refs \cup {Absent}, txn : Refs \cup {Absent},
     type : EventTypes \cup {Absent}, amount : Int \cup {Absent}, integral : BOOLEAN,
     refsOk : BOOLEAN]

ASSUME AdaptersAssumption ==
    /\ Payloads \subseteq Payload
    /\ ProcessorIds \X Refs \subseteq EventIds
    /\ ProcessorIds \X Refs \subseteq TxnKeys

(* getById and verifyWebhook: the processor is enabled, its secret is set, *)
(* and the signature is this secret's over the body as it is serialised.   *)
Accepted(p) ==
    /\ p.to \in Enabled
    /\ p.to \in WithSecret
    /\ p.signer = p.to
    /\ p.canonical

OrElse(field, default) == IF field = Absent THEN default ELSE field

(* The event of a body with a transaction reference.  Without an event id  *)
(* the transaction's reference stands for it, whatever the type.  No       *)
(* adapter names a payer.                                                  *)
EventOf(p) ==
    [id |-> <<p.to, OrElse(p.eventId, p.txn)>>, txn |-> <<p.to, p.txn>>,
     type |-> OrElse(p.type, "subscription_charge"), gross |-> OrElse(p.amount, 0),
     integral |-> p.amount = Absent \/ p.integral, fan |-> NoFan, refsOk |-> p.refsOk]

(* parseWebhookPayload: no event without a transaction reference under the *)
(* name this processor gives it.                                           *)
Parsed(p) == IF p.dialect = p.to /\ p.txn # Absent THEN <<EventOf(p)>> ELSE <<>>

(* What ingestWebhook goes through: a payload that is not accepted is      *)
(* answered 401 and changes nothing.                                       *)
StubDeliveries == {Parsed(p) : p \in {q \in Payloads : Accepted(q)}}
=============================================================================
