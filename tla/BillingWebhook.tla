--------------------------- MODULE BillingWebhook ---------------------------
(***************************************************************************)
(* Ingestion of payment-processor webhooks:                                *)
(* apps/api/src/billing/billing-webhook.service.ts, with the constraints   *)
(* the database puts on what it writes (packages/db/prisma/schema.prisma). *)
(*                                                                         *)
(* Requests are served by concurrent handlers, in one API process or       *)
(* several: each await of the service is a point where another handler     *)
(* may run.  A handler works through the events of one delivery in order.  *)
(* The database is the shared state; its interactive transaction is one    *)
(* step, since other handlers see all of it or nothing and the unique      *)
(* indexes serialise two inserts of one key.  The processor (external)     *)
(* delivers each payload any number of times, also while an earlier        *)
(* delivery of it is still being handled, and again after an answer        *)
(* (operators replay payloads, docs/runbooks).  A delivery here is one     *)
(* whose signature has been verified: a refused one changes no state.      *)
(*                                                                         *)
(* An event's "integral" is FALSE when its amount is a positive number     *)
(* that is no integer, or no number at all: platformFeeCents throws on it. *)
(* Its "refsOk" says that fanUserId, creatorId and subscriptionId name     *)
(* rows that exist.  "id" and "txn" stand for the pairs (processor,        *)
(* processorEventId) and (processor, processorTxnId).                      *)
(***************************************************************************)
EXTENDS Integers, Sequences, FiniteSets, Money

CONSTANTS Handlers,     \* request handlers that may run at once
          EventIds,     \* (processor, processorEventId) pairs
          TxnKeys,      \* (processor, processorTxnId) pairs
          Fans,         \* users an event may name as payer
          NoFan,        \* fanUserId absent from the event
          Events,       \* the events processors send
          Deliveries,   \* the payloads they send: sequences of events
          MaxInt,       \* largest value of an Int column (2^31 - 1 in PostgreSQL)
          MaxFaults     \* bound: database errors and crashes in a behaviour

EventTypes ==
    {"subscription_charge", "renewal", "refund", "chargeback", "cancel", "unknown"}

BillingEvent ==
    [id : EventIds, txn : TxnKeys, type : EventTypes, gross : Int,
     integral : BOOLEAN, fan : Fans \cup {NoFan}, refsOk : BOOLEAN]

ASSUME EventsAssumption == Events \subseteq BillingEvent
ASSUME DeliveriesAssumption == Deliveries \subseteq Seq(Events)
ASSUME BoundsAssumption == MaxInt \in Nat /\ MaxFaults \in Nat
ASSUME NoFanAssumption == NoFan \notin Fans

VARIABLES
    processorEvents,  \* processor_events: status by event id, NoRow if absent
    transactions,     \* transactions: the rows the webhook books
    ledger,           \* ledger_entries
    nextTxnId,        \* a fresh uuid for the next transaction
    pc,               \* where each handler is
    delivery,         \* the payload it handles
    todo,             \* the events of it still to process
    results,          \* the answers so far: [event, status]
    acked,            \* deliveries the processor got a 2xx for
    faults            \* database errors and crashes so far

dbVars      == <<processorEvents, transactions, ledger, nextTxnId>>
handlerVars == <<pc, delivery, todo, results>>
vars        == <<dbVars, handlerVars, acked, faults>>

-----------------------------------------------------------------------------
(* Rows *)

NoRow == "NONE"
EventStatuses == {NoRow, "PROCESSED", "FAILED"}
TxnTypes == {"SUBSCRIPTION_CHARGE", "REFUND", "CHARGEBACK", "ADJUSTMENT"}
Accounts == {"cash_processor_clearing", "creator_payable", "platform_revenue"}

Cents == 0 .. MaxInt

TxnRow == [id : Nat, key : TxnKeys, source : EventIds, type : TxnTypes, payer : Fans,
           gross : Cents, fee : Cents, net : Cents]

LedgerRow == [txn : Nat, account : Accounts, direction : {"DEBIT", "CREDIT"},
              amount : Cents]

MapType(type) ==
    CASE type \in {"subscription_charge", "renewal"} -> "SUBSCRIPTION_CHARGE"
      [] type = "refund"                             -> "REFUND"
      [] type = "chargeback"                         -> "CHARGEBACK"
      [] OTHER                                       -> "ADJUSTMENT"

FeeOf(e) == PlatformFeeCents(NonNegative(e.gross), FeeBps)
NetOf(e) == NonNegative(e.gross - FeeOf(e))

(* The row transaction.create writes.  "source" is no column: it remembers *)
(* the event, for the properties.                                          *)
TxnOf(e, id) ==
    [id |-> id, key |-> e.txn, source |-> e.id, type |-> MapType(e.type),
     payer |-> e.fan, gross |-> NonNegative(e.gross), fee |-> FeeOf(e), net |-> NetOf(e)]

(* mutant: the creator is credited the gross amount *)
PostingsGross(t) ==
    {[txn |-> t.id, account |-> "cash_processor_clearing", direction |-> "DEBIT",
      amount |-> t.gross],
     [txn |-> t.id, account |-> "creator_payable", direction |-> "CREDIT",
      amount |-> t.gross],
     [txn |-> t.id, account |-> "platform_revenue", direction |-> "CREDIT",
      amount |-> t.fee]}

(* The three rows ledgerEntry.createMany writes for a transaction. *)
Postings(t) ==
    {[txn |-> t.id, account |-> "cash_processor_clearing", direction |-> "DEBIT",
      amount |-> t.gross],
     [txn |-> t.id, account |-> "creator_payable", direction |-> "CREDIT",
      amount |-> t.net],
     [txn |-> t.id, account |-> "platform_revenue", direction |-> "CREDIT",
      amount |-> t.fee]}

-----------------------------------------------------------------------------
(* Handlers *)

Goto(h, from, to) == pc[h] = from /\ pc' = [pc EXCEPT ![h] = to]

Current(h) == Head(todo[h])

HasEvent(h) == todo[h] # <<>>

Fault == faults < MaxFaults /\ faults' = faults + 1

(* processEvent returns: the loop of ingestWebhook moves to the next event. *)
Answer(h, status) ==
    /\ results' = [results EXCEPT ![h] =
                     Append(@, [event |-> Current(h), status |-> status])]
    /\ todo' = [todo EXCEPT ![h] = Tail(@)]
    /\ UNCHANGED delivery

(* The request is over; what the handler held in memory is gone. *)
Discard(h) ==
    /\ pc' = [pc EXCEPT ![h] = "idle"]
    /\ delivery' = [delivery EXCEPT ![h] = <<>>]
    /\ todo' = [todo EXCEPT ![h] = <<>>]
    /\ results' = [results EXCEPT ![h] = <<>>]

Init ==
    /\ processorEvents = [i \in EventIds |-> NoRow]
    /\ transactions = {}
    /\ ledger = {}
    /\ nextTxnId = 0
    /\ pc = [h \in Handlers |-> "idle"]
    /\ delivery = [h \in Handlers |-> <<>>]
    /\ todo = [h \in Handlers |-> <<>>]
    /\ results = [h \in Handlers |-> <<>>]
    /\ acked = {}
    /\ faults = 0

(* A verified payload arrives: the first delivery of it, a retry, or a     *)
(* replay.                                                                 *)
Receive(h, d) ==
    /\ Goto(h, "idle", "lookup")
    /\ delivery' = [delivery EXCEPT ![h] = d]
    /\ todo' = [todo EXCEPT ![h] = d]
    /\ results' = [results EXCEPT ![h] = <<>>]
    /\ UNCHANGED <<dbVars, acked, faults>>

(* processEvent finds a row of this event, whatever its status. *)
AnswerDuplicate(h) ==
    /\ HasEvent(h)
    /\ processorEvents[Current(h).id] # NoRow
    /\ Goto(h, "lookup", "lookup")
    /\ Answer(h, "duplicate")
    /\ UNCHANGED <<dbVars, acked, faults>>

(* No row, and the fee is computed before the try block is entered. *)
LookupMiss(h) ==
    /\ HasEvent(h)
    /\ processorEvents[Current(h).id] = NoRow
    /\ Current(h).integral
    /\ Goto(h, "lookup", "book")
    /\ UNCHANGED <<dbVars, delivery, todo, results, acked, faults>>

(* platformFeeCents throws outside the try: the request ends in a 500 with *)
(* nothing recorded, and the later events of the payload are not reached.  *)
RejectAmount(h) ==
    /\ pc[h] = "lookup"
    /\ HasEvent(h)
    /\ processorEvents[Current(h).id] = NoRow
    /\ ~Current(h).integral
    /\ Discard(h)
    /\ UNCHANGED <<dbVars, acked, faults>>

(* The findUnique of processEvent fails: a 500. *)
LookupError(h) ==
    /\ pc[h] = "lookup"
    /\ HasEvent(h)
    /\ Fault
    /\ Discard(h)
    /\ UNCHANGED <<dbVars, acked>>

(* mutant: no unique index on (processor, processorTxnId) *)
InsertableNoTxnIndex(e) ==
    /\ processorEvents[e.id] = NoRow
    /\ e.fan # NoFan => e.refsOk /\ NonNegative(e.gross) <= MaxInt

(* mutant: the Int columns hold any amount *)
InsertableUnranged(e) ==
    /\ processorEvents[e.id] = NoRow
    /\ e.fan # NoFan => e.refsOk /\ \A t \in transactions : t.key # e.txn

(* The inserts of the transaction meet no unique index, foreign key or     *)
(* column range.  Without a payer only the processor_events row is written. *)
Insertable(e) ==
    /\ processorEvents[e.id] = NoRow
    /\ e.fan # NoFan =>
          /\ e.refsOk
          /\ NonNegative(e.gross) <= MaxInt
          /\ \A t \in transactions : t.key # e.txn

(* mutant: the event row is committed apart, and the rest is dropped *)
WriteEventRowOnly(e) ==
    /\ processorEvents' = [processorEvents EXCEPT ![e.id] = "PROCESSED"]
    /\ UNCHANGED <<transactions, ledger, nextTxnId>>

(* mutant: the transaction does not write processor_events *)
WriteBookingUnrecorded(e) ==
    LET t == TxnOf(e, nextTxnId) IN
    /\ transactions' = transactions \cup {t}
    /\ ledger' = ledger \cup Postings(t)
    /\ nextTxnId' = nextTxnId + 1
    /\ UNCHANGED processorEvents

(* What the transaction of processEvent leaves behind when it commits; the *)
(* status RECEIVED it starts with is never visible outside it.             *)
WriteBooking(e) ==
    /\ processorEvents' = [processorEvents EXCEPT ![e.id] = "PROCESSED"]
    /\ IF e.fan = NoFan
       THEN UNCHANGED <<transactions, ledger, nextTxnId>>
       ELSE LET t == TxnOf(e, nextTxnId) IN
            /\ transactions' = transactions \cup {t}
            /\ ledger' = ledger \cup Postings(t)
            /\ nextTxnId' = nextTxnId + 1

(* The transaction commits and processEvent answers "processed". *)
Book(h) ==
    /\ HasEvent(h)
    /\ Goto(h, "book", "lookup")
    /\ Insertable(Current(h))
    /\ WriteBooking(Current(h))
    /\ Answer(h, "processed")
    /\ UNCHANGED <<acked, faults>>

(* A constraint refuses one of the inserts: everything is rolled back. *)
BookAborted(h) ==
    /\ HasEvent(h)
    /\ Goto(h, "book", "catch")
    /\ ~Insertable(Current(h))
    /\ UNCHANGED <<dbVars, delivery, todo, results, acked, faults>>

(* The database fails before the commit. *)
BookError(h) ==
    /\ HasEvent(h)
    /\ Goto(h, "book", "catch")
    /\ Fault
    /\ UNCHANGED <<dbVars, delivery, todo, results, acked>>

(* The commit takes place and its acknowledgement is lost. *)
BookReplyLost(h) ==
    /\ HasEvent(h)
    /\ Goto(h, "book", "catch")
    /\ Fault
    /\ Insertable(Current(h))
    /\ WriteBooking(Current(h))
    /\ UNCHANGED <<delivery, todo, results, acked>>

(* mutant: the catch block answers "failed" and records nothing *)
RecordFailureNowhere(h) ==
    /\ HasEvent(h)
    /\ Goto(h, "catch", "lookup")
    /\ Answer(h, "failed")
    /\ UNCHANGED <<dbVars, acked, faults>>

(* mutant: the catch block rethrows instead of recording the failure *)
RecordFailureRethrown(h) ==
    /\ pc[h] = "catch"
    /\ HasEvent(h)
    /\ Discard(h)
    /\ UNCHANGED <<dbVars, acked, faults>>

(* mutant: the catch block also removes what it takes for a half-written booking *)
RecordFailureCleansUp(h) ==
    /\ HasEvent(h)
    /\ Goto(h, "catch", "lookup")
    /\ processorEvents' = [processorEvents EXCEPT ![Current(h).id] = "FAILED"]
    /\ transactions' = {t \in transactions : t.source # Current(h).id}
    /\ ledger' = {r \in ledger : \E t \in transactions' : r.txn = t.id}
    /\ Answer(h, "failed")
    /\ UNCHANGED <<nextTxnId, acked, faults>>

(* The catch block: the upsert sets FAILED over whatever the row says. *)
RecordFailure(h) ==
    /\ HasEvent(h)
    /\ Goto(h, "catch", "lookup")
    /\ processorEvents' = [processorEvents EXCEPT ![Current(h).id] = "FAILED"]
    /\ Answer(h, "failed")
    /\ UNCHANGED <<transactions, ledger, nextTxnId, acked, faults>>

(* The upsert of the catch block fails: a 500. *)
RecordFailureError(h) ==
    /\ pc[h] = "catch"
    /\ HasEvent(h)
    /\ Fault
    /\ Discard(h)
    /\ UNCHANGED <<dbVars, acked>>

(* Every event has an answer: a 2xx, also when some of them are "failed". *)
Respond(h) ==
    /\ pc[h] = "lookup"
    /\ ~HasEvent(h)
    /\ acked' = acked \cup {delivery[h]}
    /\ Discard(h)
    /\ UNCHANGED <<dbVars, faults>>

(* The process dies, or the response never reaches the processor. *)
Crash(h) ==
    /\ pc[h] # "idle"
    /\ Fault
    /\ Discard(h)
    /\ UNCHANGED <<dbVars, acked>>

Process(h) ==
    \/ AnswerDuplicate(h)
    \/ LookupMiss(h)
    \/ RejectAmount(h)
    \/ Book(h)
    \/ BookAborted(h)
    \/ RecordFailure(h)
    \/ Respond(h)

Failure(h) ==
    \/ LookupError(h)
    \/ BookError(h)
    \/ BookReplyLost(h)
    \/ RecordFailureError(h)
    \/ Crash(h)

Next ==
    \E h \in Handlers :
        \/ \E d \in Deliveries : Receive(h, d)
        \/ Process(h)
        \/ Failure(h)

Spec == Init /\ [][Next]_vars

(* A handler that can go on does, and the processor keeps delivering a     *)
(* payload it has no 2xx for until it is received (external).              *)
Retry(d) == d \notin acked /\ \E h \in Handlers : Receive(h, d)

Fairness ==
    /\ \A h \in Handlers : WF_vars(Process(h))
    /\ \A d \in Deliveries : SF_vars(Retry(d))

FairSpec == Spec /\ Fairness

-----------------------------------------------------------------------------
(* Properties *)

(* Every variable holds what its table or its handler can hold. *)
TypeOK ==
    /\ processorEvents \in [EventIds -> EventStatuses]
    /\ transactions \subseteq TxnRow
    /\ ledger \subseteq LedgerRow
    /\ nextTxnId \in Nat
    /\ pc \in [Handlers -> {"idle", "lookup", "book", "catch"}]
    /\ delivery \in [Handlers -> Deliveries \cup {<<>>}]
    /\ todo \in [Handlers -> Seq(Events)]
    /\ results \in [Handlers -> Seq([event : Events,
                                     status : {"processed", "duplicate", "failed"}])]
    /\ acked \subseteq Deliveries
    /\ faults \in 0 .. MaxFaults

(* However deliveries race, repeat and fail, a processor transaction and a *)
(* processor event are each booked at most once (the check of processEvent *)
(* before its transaction, the unique indexes inside it, and the rows left *)
(* behind by failures, together).                                          *)
BookedOnce ==
    \A t, u \in transactions :
        t.id = u.id \/ t.key = u.key \/ t.source = u.source => t = u

(* No booking without the processor_events row that keeps later deliveries *)
(* of the event from reaching the transaction again.                       *)
BookingsAreRecorded ==
    \A t \in transactions : processorEvents[t.source] # NoRow

RowsOf(t) == {r \in ledger : r.txn = t.id}

(* Double entry: every transaction has one debit and two credits, the      *)
(* debit is the sum of the credits, and no other ledger row exists.        *)
LedgerBalanced ==
    /\ \A r \in ledger : \E t \in transactions : r \in RowsOf(t)
    /\ \A t \in transactions :
         \E cash, payable, revenue \in RowsOf(t) :
            /\ RowsOf(t) = {cash, payable, revenue}
            /\ cash.direction = "DEBIT"
            /\ payable.direction = "CREDIT"
            /\ revenue.direction = "CREDIT"
            /\ payable.account # revenue.account
            /\ cash.amount = payable.amount + revenue.amount

Booked(e) == \E t \in transactions : t.source = e.id /\ t.key = e.txn

(* A row that says PROCESSED belongs to an event without a payer, or to    *)
(* one whose transaction is in the book.                                   *)
ProcessedIsBooked ==
    \A i \in EventIds :
        processorEvents[i] = "PROCESSED" =>
            \E e \in Events : e.id = i /\ (e.fan # NoFan => Booked(e))

(* The processor is never told 2xx for a payload one of whose events left  *)
(* no trace: what it stops retrying is on record, if only as FAILED.       *)
AckedIsRecorded ==
    \A d \in acked : \A i \in DOMAIN d : processorEvents[d[i].id] # NoRow

(* The book the readers see is an append-only general ledger: no handler,  *)
(* failure or replay changes, removes or half-writes a transaction.        *)
GL == INSTANCE GeneralLedger WITH PostingsOf <- Postings

ImplementsGeneralLedger == GL!BookSpec

(* A payload without malformed amounts is answered in the end, however     *)
(* many of its deliveries died on the way.                                 *)
EventuallyAcked ==
    \A d \in Deliveries :
        (\A i \in DOMAIN d : d[i].integral) => <>(d \in acked)

(* README.md:45 calls event processing idempotent and                      *)
(* launch-readiness.md:23 wants replays to confirm it: delivering an event *)
(* again must leave a PROCESSED row as it is.                              *)
ProcessedStays ==
    [][\A i \in EventIds :
          processorEvents[i] = "PROCESSED" => processorEvents'[i] = "PROCESSED"]_vars

(* Nothing but the processor_events row of e could keep e from being booked. *)
Bookable(e) ==
    /\ e.fan # NoFan
    /\ e.refsOk
    /\ NonNegative(e.gross) <= MaxInt
    /\ \A t \in transactions : t.key # e.txn

(* processor-outage-playbook.md:12 has failed payloads queued for replay:  *)
(* a replay answered "duplicate" must not leave a payment unbooked that    *)
(* could be booked.                                                        *)
ReplayBooks ==
    \A h \in Handlers : \A i \in DOMAIN results[h] :
        results[h][i].status = "duplicate" => ~Bookable(results[h][i].event)
=============================================================================
