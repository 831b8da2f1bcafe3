--------------------------- MODULE AdaptersProofs ---------------------------
(***************************************************************************)
(* Theorems about the shipped payment adapters, for any requests,          *)
(* references and processors, and about webhook ingestion behind them.     *)
(***************************************************************************)
EXTENDS Adapters, BillingWebhookProofs

(* What an adapter parses is at most one event: one the billing webhook    *)
(* can work on, of the processor the request was sent to, without a payer. *)
THEOREM ParsedIsEvent ==
    ASSUME NEW p \in Payloads
    PROVE  /\ Parsed(p) \in Seq(BillingEvent)
           /\ Len(Parsed(p)) <= 1
           /\ \A i \in DOMAIN Parsed(p) :
                 /\ Parsed(p)[i].fan = NoFan
                 /\ Parsed(p)[i].id[1] = p.to /\ Parsed(p)[i].txn[1] = p.to
<1>1. p \in Payload
  BY AdaptersAssumption
<1>2. CASE p.dialect = p.to /\ p.txn # Absent
  <2>1. p.txn \in Refs /\ OrElse(p.eventId, p.txn) \in Refs
    BY <1>1, <1>2 DEF Payload, OrElse
  <2>2. PICK id \in EventIds, txn \in TxnKeys :
           id = <<p.to, OrElse(p.eventId, p.txn)>> /\ txn = <<p.to, p.txn>>
    BY <1>1, <2>1, AdaptersAssumption DEF Payload
  <2>3. PICK type \in EventTypes, gross \in Int :
           type = OrElse(p.type, "subscription_charge") /\ gross = OrElse(p.amount, 0)
    BY <1>1 DEF Payload, OrElse, EventTypes
  <2>4. PICK integral \in BOOLEAN : integral = (p.amount = Absent \/ p.integral)
    OBVIOUS
  <2>5. p.refsOk \in BOOLEAN
    BY <1>1 DEF Payload
  <2>6. EventOf(p) = [id |-> id, txn |-> txn, type |-> type, gross |-> gross,
                      integral |-> integral, fan |-> NoFan, refsOk |-> p.refsOk]
    BY <2>2, <2>3, <2>4 DEF EventOf
  <2>7. EventOf(p) \in BillingEvent
    BY <2>5, <2>6 DEF BillingEvent
  <2>8. Parsed(p) = <<EventOf(p)>>
    BY <1>2 DEF Parsed
  <2>9. EventOf(p).fan = NoFan /\ EventOf(p).id[1] = p.to /\ EventOf(p).txn[1] = p.to
    BY <2>2, <2>6
  <2>10. QED
    BY <2>7, <2>8, <2>9
<1>3. CASE ~(p.dialect = p.to /\ p.txn # Absent)
  BY <1>3 DEF Parsed
<1>4. QED
  BY <1>2, <1>3

-----------------------------------------------------------------------------

NothingBooked == transactions = {} /\ ledger = {}

NoPayers == \A h \in Handlers : \A i \in DOMAIN todo[h] : todo[h][i].fan = NoFan

LEMMA DiscardPays ==
    ASSUME TypeOK, NoPayers, NEW h \in Handlers, Discard(h)
    PROVE  NoPayers'
<1>1. todo' = [todo EXCEPT ![h] = <<>>] /\ todo \in [Handlers -> Seq(Events)]
  BY DEF Discard, TypeOK
<1>2. QED
  BY <1>1 DEF NoPayers

LEMMA AnswerPays ==
    ASSUME TypeOK, NoPayers, NEW h \in Handlers, NEW status, HasEvent(h), Answer(h, status)
    PROVE  NoPayers'
<1>1. PICK rest \in Seq(Events) : rest = todo[h] /\ rest # <<>>
  BY DEF TypeOK, HasEvent
<1>2. todo' = [todo EXCEPT ![h] = Tail(rest)] /\ todo \in [Handlers -> Seq(Events)]
  BY <1>1 DEF Answer, TypeOK
<1>3. \A i \in DOMAIN Tail(rest) : i + 1 \in DOMAIN rest /\ Tail(rest)[i] = rest[i + 1]
  BY <1>1
<1>4. \A i \in DOMAIN Tail(rest) : Tail(rest)[i].fan = NoFan
  BY <1>1, <1>3 DEF NoPayers
<1>5. QED
  BY <1>2, <1>4 DEF NoPayers

LEMMA CurrentPays ==
    ASSUME TypeOK, NoPayers, NEW h \in Handlers, HasEvent(h), WriteBooking(Current(h)),
           NothingBooked
    PROVE  NothingBooked'
<1>1. PICK rest \in Seq(Events) : rest = todo[h] /\ rest # <<>>
  BY DEF TypeOK, HasEvent
<1>2. 1 \in DOMAIN rest /\ Head(rest) = rest[1]
  BY <1>1
<1>3. Current(h).fan = NoFan
  BY <1>1, <1>2 DEF Current, NoPayers
<1>4. QED
  BY <1>3 DEF WriteBooking, NothingBooked

(* With the shipped adapters alone nothing is ever booked, whatever is     *)
(* delivered, retried or replayed: no event of theirs names a payer, and   *)
(* the webhook marks such an event PROCESSED without a transaction.        *)
THEOREM StubsBookNothing ==
    ASSUME Deliveries \subseteq StubDeliveries
    PROVE  Spec => []NothingBooked
<1>1. Init => NothingBooked /\ NoPayers
  BY DEF Init, NothingBooked, NoPayers
<1>2. TypeOK /\ NothingBooked /\ NoPayers /\ [Next]_vars => NothingBooked' /\ NoPayers'
  <2> SUFFICES ASSUME TypeOK, NothingBooked, NoPayers, [Next]_vars
               PROVE  NothingBooked' /\ NoPayers'
    OBVIOUS
  <2>1. ASSUME NEW h \in Handlers, NEW d \in Deliveries, Receive(h, d)
        PROVE  NothingBooked' /\ NoPayers'
    <3>1. PICK p \in Payloads : d = Parsed(p)
      BY DEF StubDeliveries
    <3>2. \A i \in DOMAIN d : d[i].fan = NoFan
      BY <3>1, ParsedIsEvent
    <3>3. todo' = [todo EXCEPT ![h] = d] /\ todo \in [Handlers -> Seq(Events)]
      BY <2>1 DEF Receive, TypeOK
    <3>4. QED
      BY <2>1, <3>2, <3>3 DEF Receive, dbVars, NothingBooked, NoPayers
  <2>2. ASSUME NEW h \in Handlers, Process(h) PROVE NothingBooked' /\ NoPayers'
    <3>1. CASE AnswerDuplicate(h)
      BY <3>1, AnswerPays DEF AnswerDuplicate, dbVars, NothingBooked
    <3>2. CASE LookupMiss(h) \/ BookAborted(h)
      BY <3>2 DEF LookupMiss, BookAborted, dbVars, NothingBooked, NoPayers
    <3>3. CASE RejectAmount(h) \/ Respond(h)
      BY <3>3, DiscardPays DEF RejectAmount, Respond, dbVars, NothingBooked
    <3>4. CASE Book(h)
      BY <3>4, AnswerPays, CurrentPays DEF Book
    <3>5. CASE RecordFailure(h)
      BY <3>5, AnswerPays DEF RecordFailure, NothingBooked
    <3>6. QED
      BY <2>2, <3>1, <3>2, <3>3, <3>4, <3>5 DEF Process
  <2>3. ASSUME NEW h \in Handlers, Failure(h) PROVE NothingBooked' /\ NoPayers'
    <3>1. CASE LookupError(h) \/ RecordFailureError(h) \/ Crash(h)
      BY <3>1, DiscardPays DEF LookupError, RecordFailureError, Crash, dbVars, NothingBooked
    <3>2. CASE BookError(h)
      BY <3>2 DEF BookError, dbVars, NothingBooked, NoPayers
    <3>3. CASE BookReplyLost(h)
      BY <3>3, CurrentPays DEF BookReplyLost, NoPayers
    <3>4. QED
      BY <2>3, <3>1, <3>2, <3>3 DEF Failure
  <2>4. CASE UNCHANGED vars
    BY <2>4 DEF vars, dbVars, handlerVars, NothingBooked, NoPayers
  <2>5. QED
    BY <2>1, <2>2, <2>3, <2>4 DEF Next
<1>3. QED
  BY <1>1, <1>2, TypeCorrect, PTL DEF Spec
=============================================================================
