------------------------ MODULE BillingWebhookProofs ------------------------
(***************************************************************************)
(* Theorems about BillingWebhook, for any handlers, events, payloads and   *)
(* column width.  The amounts come first, then typing, then the invariant  *)
(* of the book that makes it a general ledger, then what a 2xx promises.   *)
(***************************************************************************)
EXTENDS BillingWebhook, TLAPS

-----------------------------------------------------------------------------
(* Amounts *)

(* The platform fee is never negative and never more than the gross amount *)
(* (platformFeeCents, for any rate of at most 10000 basis points).         *)
LEMMA FeeBounds ==
    ASSUME NEW gross \in Nat, NEW bps \in 0 .. BasisPoints
    PROVE  /\ PlatformFeeCents(gross, bps) \in Nat
           /\ PlatformFeeCents(gross, bps) <= gross
<1> DEFINE product == gross * bps
<1>1. product \in Nat /\ product <= gross * 10000
  BY DEF BasisPoints
<1>2. PlatformFeeCents(gross, bps) = product \div 10000
  BY DEF PlatformFeeCents, BasisPoints
<1> HIDE DEF product
<1>3. QED
  BY <1>1, <1>2

(* What a transaction row credits adds up to what it debits: the amounts   *)
(* processEvent computes, for any gross amount, negative ones included.    *)
LEMMA AmountsAddUp ==
    ASSUME NEW e \in Events
    PROVE  /\ NonNegative(e.gross) \in Nat
           /\ FeeOf(e) \in Nat
           /\ NetOf(e) \in Nat
           /\ NonNegative(e.gross) = FeeOf(e) + NetOf(e)
<1>1. e.gross \in Int
  BY EventsAssumption DEF BillingEvent
<1>2. NonNegative(e.gross) \in Nat
  BY <1>1 DEF NonNegative
<1>3. FeeOf(e) \in Nat /\ FeeOf(e) <= NonNegative(e.gross)
  <2>1. FeeBps \in 0 .. BasisPoints
    BY DEF FeeBps, BasisPoints
  <2>2. QED
    BY <1>2, <2>1, FeeBounds DEF FeeOf
<1>4. QED
  BY <1>1, <1>2, <1>3 DEF NetOf, NonNegative

(* The row a bookable event is booked as fits the table and adds up. *)
LEMMA TxnOfRow ==
    ASSUME NEW e \in Events, NEW id \in Nat,
           e.fan # NoFan, NonNegative(e.gross) <= MaxInt
    PROVE  TxnOf(e, id) \in TxnRow /\ GL!AddsUp(TxnOf(e, id))
<1>1. e.id \in EventIds /\ e.txn \in TxnKeys /\ e.fan \in Fans
  BY EventsAssumption DEF BillingEvent
<1>2. MapType(e.type) \in TxnTypes
  BY DEF MapType, TxnTypes
<1>3. /\ NonNegative(e.gross) \in Cents
      /\ FeeOf(e) \in Cents
      /\ NetOf(e) \in Cents
      /\ NonNegative(e.gross) = FeeOf(e) + NetOf(e)
  BY AmountsAddUp, BoundsAssumption DEF Cents
<1>4. QED
  BY <1>1, <1>2, <1>3 DEF TxnOf, TxnRow, GL!AddsUp, Cents

LEMMA PostingsType ==
    ASSUME NEW t \in TxnRow
    PROVE  Postings(t) \subseteq LedgerRow
BY DEF Postings, TxnRow, LedgerRow, Accounts

-----------------------------------------------------------------------------
(* Typing *)

(* The parts of TypeOK: what the tables hold, and what the handlers hold. *)
DbTypeOK ==
    /\ processorEvents \in [EventIds -> EventStatuses]
    /\ transactions \subseteq TxnRow
    /\ ledger \subseteq LedgerRow
    /\ nextTxnId \in Nat

Answers == [event : Events, status : {"processed", "duplicate", "failed"}]

WorkTypeOK ==
    /\ delivery \in [Handlers -> Deliveries \cup {<<>>}]
    /\ todo \in [Handlers -> Seq(Events)]
    /\ results \in [Handlers -> Seq(Answers)]

(* A handler that works works on a delivery: what TypeOK needs besides     *)
(* itself for the deliveries that are acknowledged.                        *)
BusyHasDelivery == \A h \in Handlers : pc[h] # "idle" => delivery[h] \in Deliveries

LEMMA CurrentIsEvent ==
    ASSUME TypeOK, NEW h \in Handlers, HasEvent(h)
    PROVE  /\ Current(h) \in Events
           /\ Current(h).id \in EventIds
           /\ Tail(todo[h]) \in Seq(Events)
<1>1. todo[h] \in Seq(Events) /\ todo[h] # <<>>
  BY DEF TypeOK, HasEvent
<1>2. QED
  BY <1>1, EventsAssumption DEF Current, BillingEvent

(* The transaction of processEvent writes rows that fit their tables. *)
LEMMA WriteBookingType ==
    ASSUME TypeOK, NEW e \in Events, Insertable(e), WriteBooking(e)
    PROVE  DbTypeOK'
<1>1. e.id \in EventIds
  BY EventsAssumption DEF BillingEvent
<1>2. processorEvents' \in [EventIds -> EventStatuses]
  BY <1>1 DEF TypeOK, WriteBooking, EventStatuses
<1>3. CASE e.fan = NoFan
  BY <1>2, <1>3 DEF TypeOK, WriteBooking, DbTypeOK
<1>4. CASE e.fan # NoFan
  <2> DEFINE t == TxnOf(e, nextTxnId)
  <2>1. NonNegative(e.gross) <= MaxInt /\ nextTxnId \in Nat
    BY <1>4 DEF Insertable, TypeOK
  <2>2. t \in TxnRow
    BY <1>4, <2>1, TxnOfRow
  <2>3. /\ transactions' = transactions \cup {t}
        /\ ledger' = ledger \cup Postings(t)
        /\ nextTxnId' = nextTxnId + 1
    BY <1>4 DEF WriteBooking
  <2> HIDE DEF t
  <2>4. Postings(t) \subseteq LedgerRow
    BY <2>2, PostingsType
  <2>5. QED
    BY <1>2, <2>1, <2>2, <2>3, <2>4 DEF TypeOK, DbTypeOK
<1>5. QED
  BY <1>3, <1>4

LEMMA AnswerType ==
    ASSUME TypeOK, NEW h \in Handlers, HasEvent(h),
           NEW status \in {"processed", "duplicate", "failed"}, Answer(h, status)
    PROVE  WorkTypeOK'
<1>1. Current(h) \in Events /\ Tail(todo[h]) \in Seq(Events)
  BY CurrentIsEvent
<1>2. [event |-> Current(h), status |-> status] \in Answers
  BY <1>1 DEF Answers
<1>3. results[h] \in Seq(Answers)
  BY DEF TypeOK, Answers
<1>4. Append(results[h], [event |-> Current(h), status |-> status]) \in Seq(Answers)
  BY <1>2, <1>3
<1>5. results' \in [Handlers -> Seq(Answers)]
  BY <1>4 DEF TypeOK, Answer, Answers
<1>6. QED
  BY <1>1, <1>5 DEF TypeOK, Answer, WorkTypeOK

LEMMA DiscardType ==
    ASSUME TypeOK, NEW h \in Handlers, Discard(h)
    PROVE  WorkTypeOK' /\ pc' \in [Handlers -> {"idle", "lookup", "book", "catch"}]
<1>1. delivery' \in [Handlers -> Deliveries \cup {<<>>}]
  BY DEF TypeOK, Discard
<1>2. <<>> \in Seq(Events) /\ <<>> \in Seq(Answers)
  OBVIOUS
<1>3. todo' \in [Handlers -> Seq(Events)]
  BY <1>2 DEF TypeOK, Discard
<1>4. results' \in [Handlers -> Seq(Answers)]
  BY <1>2 DEF TypeOK, Discard, Answers
<1>5. pc' \in [Handlers -> {"idle", "lookup", "book", "catch"}]
  BY DEF TypeOK, Discard
<1>6. QED
  BY <1>1, <1>3, <1>4, <1>5 DEF WorkTypeOK

LEMMA FaultType ==
    ASSUME TypeOK, Fault
    PROVE  faults' \in 0 .. MaxFaults
BY BoundsAssumption DEF TypeOK, Fault

(* Each step keeps the types. *)
LEMMA TypeStep == TypeOK /\ BusyHasDelivery /\ [Next]_vars => TypeOK'
<1> SUFFICES ASSUME TypeOK, BusyHasDelivery, [Next]_vars
             PROVE  TypeOK'
  OBVIOUS
<1>1. TypeOK <=> /\ DbTypeOK
                 /\ pc \in [Handlers -> {"idle", "lookup", "book", "catch"}]
                 /\ WorkTypeOK
                 /\ acked \subseteq Deliveries
                 /\ faults \in 0 .. MaxFaults
  BY DEF TypeOK, DbTypeOK, WorkTypeOK, Answers
<1>2. TypeOK' <=> /\ DbTypeOK'
                  /\ pc' \in [Handlers -> {"idle", "lookup", "book", "catch"}]
                  /\ WorkTypeOK'
                  /\ acked' \subseteq Deliveries
                  /\ faults' \in 0 .. MaxFaults
  BY DEF TypeOK, DbTypeOK, WorkTypeOK, Answers
<1>3. ASSUME NEW h \in Handlers, NEW d \in Deliveries, Receive(h, d)
      PROVE  TypeOK'
  <2>1. d \in Seq(Events) /\ <<>> \in Seq(Answers)
    BY DeliveriesAssumption
  <2>2. WorkTypeOK'
    BY <1>3, <2>1, <1>1 DEF Receive, WorkTypeOK
  <2>3. pc' \in [Handlers -> {"idle", "lookup", "book", "catch"}]
    BY <1>3, <1>1 DEF Receive, Goto
  <2>4. QED
    BY <1>3, <2>2, <2>3, <1>1, <1>2 DEF Receive, dbVars, DbTypeOK
<1>4. ASSUME UNCHANGED dbVars  PROVE DbTypeOK'
  BY <1>4, <1>1 DEF DbTypeOK, dbVars
<1>5. ASSUME UNCHANGED <<delivery, todo, results>>  PROVE WorkTypeOK'
  BY <1>5, <1>1 DEF WorkTypeOK
<1>6. ASSUME NEW h \in Handlers, NEW from,
             NEW to \in {"idle", "lookup", "book", "catch"}, Goto(h, from, to)
      PROVE  pc' \in [Handlers -> {"idle", "lookup", "book", "catch"}]
  BY <1>6, <1>1 DEF Goto
<1>7. ASSUME NEW h \in Handlers, Process(h)
      PROVE  TypeOK'
  <2>1. CASE AnswerDuplicate(h)
    BY <2>1, <1>1, <1>2, <1>4, <1>6, AnswerType DEF AnswerDuplicate
  <2>2. CASE LookupMiss(h)
    BY <2>2, <1>1, <1>2, <1>4, <1>5, <1>6 DEF LookupMiss
  <2>3. CASE RejectAmount(h)
    BY <2>3, <1>1, <1>2, <1>4, DiscardType DEF RejectAmount
  <2>4. CASE Book(h)
    BY <2>4, <1>1, <1>2, <1>6, AnswerType, WriteBookingType, CurrentIsEvent DEF Book
  <2>5. CASE BookAborted(h)
    BY <2>5, <1>1, <1>2, <1>4, <1>5, <1>6 DEF BookAborted
  <2>6. CASE RecordFailure(h)
    <3>1. DbTypeOK'
      BY <2>6, <1>1, CurrentIsEvent DEF RecordFailure, DbTypeOK, EventStatuses
    <3>2. QED
      BY <2>6, <3>1, <1>1, <1>2, <1>6, AnswerType DEF RecordFailure
  <2>7. CASE Respond(h)
    <3>1. acked' \subseteq Deliveries
      BY <2>7 DEF Respond, BusyHasDelivery, TypeOK
    <3>2. QED
      BY <2>7, <3>1, <1>1, <1>2, <1>4, DiscardType DEF Respond
  <2>8. QED
    BY <1>7, <2>1, <2>2, <2>3, <2>4, <2>5, <2>6, <2>7 DEF Process
<1>8. ASSUME NEW h \in Handlers, Failure(h)
      PROVE  TypeOK'
  <2>1. CASE LookupError(h)
    BY <2>1, <1>1, <1>2, <1>4, DiscardType, FaultType DEF LookupError
  <2>2. CASE BookError(h)
    BY <2>2, <1>1, <1>2, <1>4, <1>5, <1>6, FaultType DEF BookError
  <2>3. CASE BookReplyLost(h)
    BY <2>3, <1>1, <1>2, <1>5, <1>6, FaultType, WriteBookingType, CurrentIsEvent
       DEF BookReplyLost
  <2>4. CASE RecordFailureError(h)
    BY <2>4, <1>1, <1>2, <1>4, DiscardType, FaultType DEF RecordFailureError
  <2>5. CASE Crash(h)
    BY <2>5, <1>1, <1>2, <1>4, DiscardType, FaultType DEF Crash
  <2>6. QED
    BY <1>8, <2>1, <2>2, <2>3, <2>4, <2>5 DEF Failure
<1>9. CASE UNCHANGED vars
  BY <1>9 DEF TypeOK, vars, dbVars, handlerVars
<1>10. QED
  BY <1>3, <1>7, <1>8, <1>9 DEF Next

LEMMA BusyStep == TypeOK /\ BusyHasDelivery /\ [Next]_vars => BusyHasDelivery'
<1> SUFFICES ASSUME TypeOK, BusyHasDelivery, [Next]_vars
             PROVE  BusyHasDelivery'
  OBVIOUS
<1>1. ASSUME NEW h \in Handlers, NEW d \in Deliveries, Receive(h, d)
      PROVE  BusyHasDelivery'
  BY <1>1 DEF Receive, Goto, BusyHasDelivery, TypeOK
<1>2. ASSUME NEW h \in Handlers, Discard(h)
      PROVE  BusyHasDelivery'
  BY <1>2 DEF Discard, BusyHasDelivery, TypeOK
<1>3. ASSUME NEW h \in Handlers, NEW from \in {"lookup", "book", "catch"}, NEW to,
             Goto(h, from, to), UNCHANGED delivery
      PROVE  BusyHasDelivery'
  BY <1>3 DEF Goto, BusyHasDelivery, TypeOK
<1>4. ASSUME NEW h \in Handlers, Process(h)
      PROVE  BusyHasDelivery'
  BY <1>4, <1>2, <1>3 DEF Process, AnswerDuplicate, LookupMiss, RejectAmount, Book,
     BookAborted, RecordFailure, Respond, Answer
<1>5. ASSUME NEW h \in Handlers, Failure(h)
      PROVE  BusyHasDelivery'
  BY <1>5, <1>2, <1>3 DEF Failure, LookupError, BookError, BookReplyLost,
     RecordFailureError, Crash
<1>6. CASE UNCHANGED vars
  BY <1>6 DEF BusyHasDelivery, vars, handlerVars
<1>7. QED
  BY <1>1, <1>4, <1>5, <1>6 DEF Next

LEMMA Typing == Spec => [](TypeOK /\ BusyHasDelivery)
<1>1. Init => TypeOK
  <2> SUFFICES ASSUME Init  PROVE TypeOK
    OBVIOUS
  <2>1. <<>> \in Seq(Events) /\ <<>> \in Seq(Answers)
    OBVIOUS
  <2>2. QED
    BY <2>1, BoundsAssumption DEF Init, TypeOK, EventStatuses, Answers
<1>2. Init => BusyHasDelivery
  BY DEF Init, BusyHasDelivery
<1>3. QED
  BY <1>1, <1>2, TypeStep, BusyStep, PTL DEF Spec

(* Every reachable state is well typed, whatever the handlers, payloads    *)
(* and bounds are (the tables and the handler state of processEvent).      *)
THEOREM TypeCorrect == Spec => []TypeOK
BY Typing, PTL

-----------------------------------------------------------------------------
(* The book *)

(* What keeps a second booking out: ids come from a counter ahead of every *)
(* row, and every booked event has its processor_events row, so a booking  *)
(* that is Insertable is new in all three keys.  The ledger is what the    *)
(* transactions post, and nothing else.                                    *)
BookInv ==
    /\ \A t \in transactions : t.id < nextTxnId
    /\ BookedOnce
    /\ BookingsAreRecorded
    /\ \A t \in transactions : GL!AddsUp(t)
    /\ ledger = UNION {Postings(t) : t \in transactions}

(* The steps of a handler, as the book sees them: an event is booked, a    *)
(* failure is recorded, or the tables stay as they are.                    *)
LEMMA TableSteps ==
    ASSUME TypeOK, [Next]_vars
    PROVE  \/ \E e \in Events : Insertable(e) /\ WriteBooking(e)
           \/ \E i \in EventIds :
                 /\ processorEvents' = [processorEvents EXCEPT ![i] = "FAILED"]
                 /\ UNCHANGED <<transactions, ledger, nextTxnId>>
           \/ UNCHANGED dbVars
<1>1. ASSUME NEW h \in Handlers, Book(h) \/ BookReplyLost(h)
      PROVE  \E e \in Events : Insertable(e) /\ WriteBooking(e)
  BY <1>1, CurrentIsEvent DEF Book, BookReplyLost
<1>2. ASSUME NEW h \in Handlers, RecordFailure(h)
      PROVE  \E i \in EventIds :
                 /\ processorEvents' = [processorEvents EXCEPT ![i] = "FAILED"]
                 /\ UNCHANGED <<transactions, ledger, nextTxnId>>
  BY <1>2, CurrentIsEvent DEF RecordFailure
<1>3. ASSUME NEW h \in Handlers, NEW d \in Deliveries, Receive(h, d)
      PROVE  UNCHANGED dbVars
  BY <1>3 DEF Receive
<1>4. ASSUME NEW h \in Handlers,
             \/ AnswerDuplicate(h) \/ LookupMiss(h) \/ RejectAmount(h)
             \/ BookAborted(h) \/ Respond(h)
             \/ LookupError(h) \/ BookError(h) \/ RecordFailureError(h) \/ Crash(h)
      PROVE  UNCHANGED dbVars
  BY <1>4 DEF AnswerDuplicate, LookupMiss, RejectAmount, BookAborted, Respond,
     LookupError, BookError, RecordFailureError, Crash
<1>5. CASE UNCHANGED vars
  BY <1>5 DEF vars
<1>6. QED
  BY <1>1, <1>2, <1>3, <1>4, <1>5 DEF Next, Process, Failure

(* Booking an insertable event is a step of the abstract ledger. *)
LEMMA BookingPosts ==
    ASSUME TypeOK, BookInv, NEW e \in Events, Insertable(e), WriteBooking(e),
           e.fan # NoFan
    PROVE  LET t == TxnOf(e, nextTxnId) IN t \notin transactions /\ GL!Post(t)
<1> DEFINE t == TxnOf(e, nextTxnId)
<1>1. NonNegative(e.gross) <= MaxInt /\ nextTxnId \in Nat
  BY DEF Insertable, TypeOK
<1>2. t \in TxnRow /\ GL!AddsUp(t)
  BY <1>1, TxnOfRow
<1>3. t.id = nextTxnId /\ t.key = e.txn /\ t.source = e.id
  BY DEF TxnOf
<1>4. \A u \in transactions : u.id # t.id /\ u.key # t.key /\ u.source # t.source
  <2> SUFFICES ASSUME NEW u \in transactions
               PROVE  u.id # t.id /\ u.key # t.key /\ u.source # t.source
    OBVIOUS
  <2>1. u.id \in Nat /\ u.id < nextTxnId
    BY DEF TypeOK, TxnRow, BookInv
  <2>2. u.key # e.txn
    BY DEF Insertable
  <2>3. u.source # e.id
    BY DEF Insertable, BookInv, BookingsAreRecorded
  <2>4. QED
    BY <1>1, <1>3, <2>1, <2>2, <2>3
<1>5. transactions' = transactions \cup {t} /\ ledger' = ledger \cup Postings(t)
  BY DEF WriteBooking
<1>6. QED
  BY <1>2, <1>4, <1>5 DEF GL!Post

LEMMA BookStep == TypeOK /\ BookInv /\ [Next]_vars => BookInv'
<1> SUFFICES ASSUME TypeOK, BookInv, [Next]_vars
             PROVE  BookInv'
  OBVIOUS
<1>1. ASSUME NEW e \in Events, Insertable(e), WriteBooking(e), e.fan # NoFan
      PROVE  BookInv'
  <2> DEFINE t == TxnOf(e, nextTxnId)
  <2>1. /\ GL!AddsUp(t)
        /\ \A u \in transactions :
              u.id # t.id /\ u.key # t.key /\ u.source # t.source
        /\ transactions' = transactions \cup {t}
        /\ ledger' = ledger \cup Postings(t)
    BY <1>1, BookingPosts DEF GL!Post
  <2>2. /\ t.id = nextTxnId
        /\ t.source = e.id
        /\ nextTxnId' = nextTxnId + 1
        /\ processorEvents' = [processorEvents EXCEPT ![e.id] = "PROCESSED"]
    BY <1>1 DEF TxnOf, WriteBooking
  <2>3. e.id \in EventIds
    BY EventsAssumption DEF BillingEvent
  <2> HIDE DEF t
  <2>4. \A u \in transactions' : u.id < nextTxnId'
    BY <2>1, <2>2 DEF BookInv, TypeOK, TxnRow
  <2>5. BookedOnce'
    BY <2>1 DEF BookInv, BookedOnce
  <2>6. BookingsAreRecorded'
    BY <2>1, <2>2, <2>3 DEF BookInv, BookingsAreRecorded, TypeOK, TxnRow, NoRow
  <2>7. \A u \in transactions' : GL!AddsUp(u)
    BY <2>1 DEF BookInv
  <2>8. ledger' = UNION {Postings(u) : u \in transactions'}
    BY <2>1 DEF BookInv
  <2>9. QED
    BY <2>4, <2>5, <2>6, <2>7, <2>8 DEF BookInv
<1>2. ASSUME NEW e \in Events, Insertable(e), WriteBooking(e), e.fan = NoFan
      PROVE  BookInv'
  <2>1. /\ UNCHANGED <<transactions, ledger, nextTxnId>>
        /\ processorEvents' = [processorEvents EXCEPT ![e.id] = "PROCESSED"]
    BY <1>2 DEF WriteBooking
  <2>2. BookingsAreRecorded'
    BY <2>1 DEF BookInv, BookingsAreRecorded, TypeOK, TxnRow, NoRow
  <2>3. QED
    BY <2>1, <2>2 DEF BookInv, BookedOnce
<1>3. ASSUME NEW i \in EventIds,
             processorEvents' = [processorEvents EXCEPT ![i] = "FAILED"],
             UNCHANGED <<transactions, ledger, nextTxnId>>
      PROVE  BookInv'
  <2>1. BookingsAreRecorded'
    BY <1>3 DEF BookInv, BookingsAreRecorded, TypeOK, TxnRow, NoRow
  <2>2. QED
    BY <1>3, <2>1 DEF BookInv, BookedOnce
<1>4. CASE UNCHANGED dbVars
  BY <1>4 DEF BookInv, BookedOnce, BookingsAreRecorded, dbVars
<1>5. QED
  BY <1>1, <1>2, <1>3, <1>4, TableSteps

LEMMA Bookkeeping == Spec => []BookInv
<1>1. Init => BookInv
  BY DEF Init, BookInv, BookedOnce, BookingsAreRecorded
<1>2. QED
  BY <1>1, Typing, BookStep, PTL DEF Spec

(* However many handlers race over the same payloads, however often they   *)
(* fail, and whatever is replayed: no processor transaction and no event   *)
(* is booked twice (findUnique, unique indexes and the catch block of      *)
(* processEvent together).                                                 *)
THEOREM NoDoubleBooking == Spec => []BookedOnce
<1>1. BookInv => BookedOnce
  BY DEF BookInv
<1>2. QED
  BY <1>1, Bookkeeping, PTL

(* Every booking keeps the processor_events row that shields it. *)
THEOREM BookingsRecorded == Spec => []BookingsAreRecorded
<1>1. BookInv => BookingsAreRecorded
  BY DEF BookInv
<1>2. QED
  BY <1>1, Bookkeeping, PTL

(* The ledger rows of every transaction balance, for every amount. *)
THEOREM LedgerAlwaysBalanced == Spec => []LedgerBalanced
<1>1. TypeOK /\ BookInv => LedgerBalanced
  <2> SUFFICES ASSUME TypeOK, BookInv  PROVE LedgerBalanced
    OBVIOUS
  <2>1. ASSUME NEW t \in transactions, NEW r \in Postings(t)
        PROVE  r \in ledger /\ r.txn = t.id
    BY <2>1 DEF BookInv, Postings
  <2>2. ASSUME NEW t \in transactions
        PROVE  RowsOf(t) = Postings(t)
    <3>1. ASSUME NEW r \in RowsOf(t)
          PROVE  r \in Postings(t)
      <4>1. PICK u \in transactions : r \in Postings(u)
        BY <3>1 DEF RowsOf, BookInv
      <4>2. r.txn = t.id /\ r.txn = u.id
        BY <3>1, <4>1, <2>1 DEF RowsOf
      <4>3. t = u
        BY <4>2 DEF BookInv, BookedOnce
      <4>4. QED
        BY <4>1, <4>3
    <3>2. QED
      BY <2>1, <3>1 DEF RowsOf
  <2>3. ASSUME NEW r \in ledger
        PROVE  \E t \in transactions : r \in RowsOf(t)
    BY <2>1, <2>2, <2>3 DEF BookInv
  <2>4. ASSUME NEW t \in transactions
        PROVE  \E cash, payable, revenue \in RowsOf(t) :
                 /\ RowsOf(t) = {cash, payable, revenue}
                 /\ cash.direction = "DEBIT"
                 /\ payable.direction = "CREDIT"
                 /\ revenue.direction = "CREDIT"
                 /\ payable.account # revenue.account
                 /\ cash.amount = payable.amount + revenue.amount
    <3> DEFINE cash == [txn |-> t.id, account |-> "cash_processor_clearing",
                        direction |-> "DEBIT", amount |-> t.gross]
               payable == [txn |-> t.id, account |-> "creator_payable",
                           direction |-> "CREDIT", amount |-> t.net]
               revenue == [txn |-> t.id, account |-> "platform_revenue",
                           direction |-> "CREDIT", amount |-> t.fee]
    <3>1. RowsOf(t) = {cash, payable, revenue}
      BY <2>2 DEF Postings
    <3>2. t.gross = t.net + t.fee
      BY DEF BookInv, GL!AddsUp, TypeOK, TxnRow, Cents
    <3>3. QED
      BY <3>1, <3>2
  <2>5. QED
    BY <2>3, <2>4 DEF LedgerBalanced
<1>2. QED
  BY <1>1, Typing, Bookkeeping, PTL

(* The webhook implements the general ledger: every step books one whole   *)
(* transaction that is new in all its keys, or leaves the book alone.      *)
THEOREM WebhookImplementsLedger == Spec => ImplementsGeneralLedger
<1>1. Init => GL!BookInit
  BY DEF Init, GL!BookInit
<1>2. TypeOK /\ BookInv /\ [Next]_vars => [GL!BookNext]_(GL!bookVars)
  <2> SUFFICES ASSUME TypeOK, BookInv, [Next]_vars
               PROVE  GL!BookNext \/ UNCHANGED GL!bookVars
    OBVIOUS
  <2>1. ASSUME NEW e \in Events, Insertable(e), WriteBooking(e), e.fan # NoFan
        PROVE  GL!BookNext
    <3> DEFINE t == TxnOf(e, nextTxnId)
    <3>1. t \notin transactions /\ GL!Post(t)
      BY <2>1, BookingPosts
    <3>2. t \in transactions' \ transactions
      BY <3>1 DEF GL!Post
    <3>3. QED
      BY <3>1, <3>2 DEF GL!BookNext
  <2>2. ASSUME NEW e \in Events, WriteBooking(e), e.fan = NoFan
        PROVE  UNCHANGED GL!bookVars
    BY <2>2 DEF WriteBooking, GL!bookVars
  <2>3. ASSUME UNCHANGED dbVars \/ UNCHANGED <<transactions, ledger, nextTxnId>>
        PROVE  UNCHANGED GL!bookVars
    BY <2>3 DEF dbVars, GL!bookVars
  <2>4. QED
    BY <2>1, <2>2, <2>3, TableSteps
<1>3. QED
  BY <1>1, <1>2, Typing, Bookkeeping, PTL
     DEF Spec, ImplementsGeneralLedger, GL!BookSpec

-----------------------------------------------------------------------------
(* What an event row and a 2xx stand for *)

(* A processor_events row says PROCESSED only for an event that names no   *)
(* payer or whose transaction is booked: the two are written together.     *)
THEOREM ProcessedMeansBooked == Spec => []ProcessedIsBooked
<1>1. Init => ProcessedIsBooked
  BY DEF Init, ProcessedIsBooked, NoRow
<1>2. TypeOK /\ ProcessedIsBooked /\ [Next]_vars => ProcessedIsBooked'
  <2> SUFFICES ASSUME TypeOK, ProcessedIsBooked, [Next]_vars
               PROVE  ProcessedIsBooked'
    OBVIOUS
  <2>1. ASSUME NEW e \in Events, WriteBooking(e)
        PROVE  ProcessedIsBooked'
    <3>1. processorEvents' = [processorEvents EXCEPT ![e.id] = "PROCESSED"]
      BY <2>1 DEF WriteBooking
    <3>2. transactions \subseteq transactions'
      BY <2>1 DEF WriteBooking
    <3>3. \A f \in Events : Booked(f) => Booked(f)'
      BY <3>2 DEF Booked
    <3>4. e.fan # NoFan => Booked(e)'
      BY <2>1 DEF WriteBooking, TxnOf, Booked
    <3>5. QED
      BY <3>1, <3>3, <3>4 DEF ProcessedIsBooked, TypeOK
  <2>2. ASSUME NEW i \in EventIds,
               processorEvents' = [processorEvents EXCEPT ![i] = "FAILED"],
               UNCHANGED <<transactions, ledger, nextTxnId>>
        PROVE  ProcessedIsBooked'
    BY <2>2 DEF ProcessedIsBooked, Booked, TypeOK
  <2>3. CASE UNCHANGED dbVars
    BY <2>3 DEF ProcessedIsBooked, Booked, dbVars
  <2>4. QED
    BY <2>1, <2>2, <2>3, TableSteps
<1>3. QED
  BY <1>1, <1>2, Typing, PTL DEF Spec

(* No step removes a row of processor_events. *)
LEMMA RowsStay ==
    ASSUME TypeOK, [Next]_vars, NEW i \in EventIds, processorEvents[i] # NoRow
    PROVE  processorEvents'[i] # NoRow
<1>1. ASSUME NEW e \in Events, WriteBooking(e)
      PROVE  processorEvents'[i] # NoRow
  BY <1>1 DEF WriteBooking, TypeOK, NoRow
<1>2. ASSUME NEW j \in EventIds,
             processorEvents' = [processorEvents EXCEPT ![j] = "FAILED"]
      PROVE  processorEvents'[i] # NoRow
  BY <1>2 DEF TypeOK, NoRow
<1>3. QED
  BY <1>1, <1>2, TableSteps DEF dbVars

ToDo(h, e) == \E j \in DOMAIN todo[h] : todo[h][j] = e

(* The loop of ingestWebhook: each event of the delivery a handler works   *)
(* on is still to do or has its row.                                       *)
Accounted(h) ==
    \A i \in DOMAIN delivery[h] :
        LET e == delivery[h][i] IN ToDo(h, e) \/ processorEvents[e.id] # NoRow

WorkInv ==
    /\ \A h \in Handlers : pc[h] # "idle" => Accounted(h)
    /\ AckedIsRecorded

LEMMA DeliveredEvent ==
    ASSUME NEW d \in Deliveries, NEW i \in DOMAIN d
    PROVE  d[i] \in Events /\ d[i].id \in EventIds
BY DeliveriesAssumption, EventsAssumption DEF BillingEvent

LEMMA AckedStays ==
    ASSUME TypeOK, AckedIsRecorded, [Next]_vars
    PROVE  \A d \in acked : \A i \in DOMAIN d : processorEvents'[d[i].id] # NoRow
BY RowsStay, DeliveredEvent DEF AckedIsRecorded, TypeOK

(* A handler whose own work did not change is accounted for as before. *)
LEMMA AccountedStays ==
    ASSUME TypeOK, BusyHasDelivery, [Next]_vars, NEW h \in Handlers, pc[h] # "idle",
           Accounted(h), delivery'[h] = delivery[h], todo'[h] = todo[h]
    PROVE  Accounted(h)'
<1>1. delivery[h] \in Deliveries
  BY DEF BusyHasDelivery
<1>2. QED
  BY <1>1, RowsStay, DeliveredEvent DEF Accounted, ToDo

(* Answering an event whose row exists takes it off the list. *)
LEMMA AnswerAccounted ==
    ASSUME TypeOK, BusyHasDelivery, [Next]_vars, NEW h \in Handlers, pc[h] # "idle",
           Accounted(h), HasEvent(h), NEW status, Answer(h, status),
           processorEvents'[Current(h).id] # NoRow
    PROVE  Accounted(h)'
<1>1. delivery[h] \in Deliveries /\ delivery'[h] = delivery[h]
  BY DEF BusyHasDelivery, Answer
<1>2. todo[h] \in Seq(Events) /\ todo[h] # <<>> /\ todo'[h] = Tail(todo[h])
  BY DEF TypeOK, HasEvent, Answer
<1>3. ASSUME NEW e, ToDo(h, e)
      PROVE  e = Current(h) \/ ToDo(h, e)'
  <2>1. PICK j \in DOMAIN todo[h] : todo[h][j] = e
    BY <1>3 DEF ToDo
  <2>2. CASE j = 1
    BY <1>2, <2>1, <2>2 DEF Current
  <2>3. CASE j # 1
    <3>1. j - 1 \in DOMAIN Tail(todo[h]) /\ Tail(todo[h])[j - 1] = e
      BY <1>2, <2>1, <2>3
    <3>2. QED
      BY <1>2, <3>1 DEF ToDo
  <2>4. QED
    BY <2>2, <2>3
<1>4. QED
  BY <1>1, <1>3, RowsStay, DeliveredEvent DEF Accounted

LEMMA WorkStep == TypeOK /\ BusyHasDelivery /\ WorkInv /\ [Next]_vars => WorkInv'
<1> SUFFICES ASSUME TypeOK, BusyHasDelivery, WorkInv, [Next]_vars
             PROVE  WorkInv'
  OBVIOUS
<1>1. ASSUME NEW h \in Handlers,
             \A g \in Handlers \ {h} : /\ pc'[g] = pc[g]
                                       /\ delivery'[g] = delivery[g]
                                       /\ todo'[g] = todo[g],
             pc'[h] # "idle" => Accounted(h)',
             acked' = acked
      PROVE  WorkInv'
  BY <1>1, AccountedStays, AckedStays DEF WorkInv, AckedIsRecorded
<1>2. ASSUME NEW h \in Handlers, NEW d \in Deliveries, Receive(h, d)
      PROVE  WorkInv'
  <2>1. delivery'[h] = d /\ todo'[h] = d
    BY <1>2 DEF Receive, TypeOK
  <2>2. Accounted(h)'
    BY <2>1 DEF Accounted, ToDo
  <2>3. QED
    BY <1>1, <1>2, <2>2 DEF Receive, Goto, TypeOK
<1>3. ASSUME NEW h \in Handlers, Discard(h), acked' = acked
      PROVE  WorkInv'
  BY <1>1, <1>3 DEF Discard, TypeOK
<1>4. ASSUME NEW h \in Handlers, NEW from \in {"lookup", "book", "catch"}, NEW to,
             NEW status, HasEvent(h), Goto(h, from, to), Answer(h, status),
             processorEvents'[Current(h).id] # NoRow, acked' = acked
      PROVE  WorkInv'
  <2>1. Accounted(h)'
    BY <1>4, AnswerAccounted DEF WorkInv, Goto
  <2>2. QED
    BY <1>1, <1>4, <2>1 DEF Goto, Answer, TypeOK
<1>5. ASSUME NEW h \in Handlers, NEW from \in {"lookup", "book", "catch"}, NEW to,
             Goto(h, from, to), UNCHANGED <<delivery, todo, results, acked>>
      PROVE  WorkInv'
  <2>1. Accounted(h)'
    BY <1>5, AccountedStays DEF WorkInv, Goto
  <2>2. QED
    BY <1>1, <1>5, <2>1 DEF Goto, TypeOK
<1>6. ASSUME NEW h \in Handlers, Process(h)
      PROVE  WorkInv'
  <2>1. CASE AnswerDuplicate(h)
    BY <2>1, <1>4 DEF AnswerDuplicate, dbVars
  <2>2. CASE LookupMiss(h) \/ BookAborted(h)
    BY <2>2, <1>5 DEF LookupMiss, BookAborted
  <2>3. CASE RejectAmount(h)
    BY <2>3, <1>3 DEF RejectAmount
  <2>4. CASE Book(h)
    <3>1. processorEvents'[Current(h).id] # NoRow
      BY <2>4, CurrentIsEvent DEF Book, WriteBooking, TypeOK, NoRow
    <3>2. QED
      BY <2>4, <3>1, <1>4 DEF Book
  <2>5. CASE RecordFailure(h)
    <3>1. processorEvents'[Current(h).id] # NoRow
      BY <2>5, CurrentIsEvent DEF RecordFailure, TypeOK, NoRow
    <3>2. QED
      BY <2>5, <3>1, <1>4 DEF RecordFailure
  <2>6. CASE Respond(h)
    <3>1. \A i \in DOMAIN delivery[h] : processorEvents[delivery[h][i].id] # NoRow
      BY <2>6 DEF Respond, HasEvent, WorkInv, Accounted, ToDo
    <3>2. processorEvents' = processorEvents /\ acked' = acked \cup {delivery[h]}
      BY <2>6 DEF Respond, dbVars
    <3>3. AckedIsRecorded'
      BY <3>1, <3>2 DEF WorkInv, AckedIsRecorded
    <3>4. \A g \in Handlers : pc'[g] # "idle" =>
             /\ pc[g] # "idle"
             /\ delivery'[g] = delivery[g]
             /\ todo'[g] = todo[g]
      BY <2>6 DEF Respond, Discard, TypeOK
    <3>5. QED
      BY <3>3, <3>4, AccountedStays DEF WorkInv
  <2>7. QED
    BY <1>6, <2>1, <2>2, <2>3, <2>4, <2>5, <2>6 DEF Process
<1>7. ASSUME NEW h \in Handlers, Failure(h)
      PROVE  WorkInv'
  <2>1. CASE LookupError(h) \/ RecordFailureError(h) \/ Crash(h)
    BY <2>1, <1>3 DEF LookupError, RecordFailureError, Crash
  <2>2. CASE BookError(h) \/ BookReplyLost(h)
    BY <2>2, <1>5 DEF BookError, BookReplyLost
  <2>3. QED
    BY <1>7, <2>1, <2>2 DEF Failure
<1>8. CASE UNCHANGED vars
  BY <1>8, AccountedStays, AckedStays DEF WorkInv, AckedIsRecorded, vars, handlerVars
<1>9. QED
  BY <1>2, <1>6, <1>7, <1>8 DEF Next

(* A 2xx is only given for a payload every event of which is on record, so *)
(* nothing the processor stops retrying is lost without a trace.           *)
THEOREM AckedMeansRecorded == Spec => []AckedIsRecorded
<1>1. Init => WorkInv
  BY DEF Init, WorkInv, AckedIsRecorded
<1>2. WorkInv => AckedIsRecorded
  BY DEF WorkInv
<1>3. QED
  BY <1>1, <1>2, Typing, WorkStep, PTL DEF Spec

-----------------------------------------------------------------------------
(* Answers *)

(* What the answer to a payload says of each of its events is so, for as   *)
(* long as the request has it: the event has its row, and one "processed"  *)
(* is booked unless it names no payer.                                     *)
TrueAnswer(a) ==
    /\ processorEvents[a.event.id] # NoRow
    /\ a.status = "processed" /\ a.event.fan # NoFan => Booked(a.event)

AnswersAreTrue == \A h \in Handlers : \A i \in DOMAIN results[h] : TrueAnswer(results[h][i])

(* The steps of a handler, as the answers see them: one is added for the   *)
(* event at hand, all are dropped, or they stay.                           *)
LEMMA AnswerSteps ==
    ASSUME [Next]_vars
    PROVE  \/ UNCHANGED results
           \/ \E h \in Handlers : results' = [results EXCEPT ![h] = <<>>]
           \/ \E h \in Handlers :
                 /\ HasEvent(h)
                 /\ pc[h] = "lookup" /\ processorEvents[Current(h).id] # NoRow
                 /\ Answer(h, "duplicate")
           \/ \E h \in Handlers :
                 /\ HasEvent(h)
                 /\ WriteBooking(Current(h)) /\ Answer(h, "processed")
           \/ \E h \in Handlers : RecordFailure(h)
<1>1. CASE UNCHANGED vars
  BY <1>1 DEF vars, handlerVars
<1>2. ASSUME NEW h \in Handlers, NEW d \in Deliveries, Receive(h, d)
      PROVE  results' = [results EXCEPT ![h] = <<>>]
  BY <1>2 DEF Receive
<1>3. ASSUME NEW h \in Handlers, Discard(h)
      PROVE  results' = [results EXCEPT ![h] = <<>>]
  BY <1>3 DEF Discard
<1>4. QED
  BY <1>1, <1>2, <1>3 DEF Next, Process, Failure, AnswerDuplicate, LookupMiss,
     RejectAmount, Book, BookAborted, Respond, LookupError, BookError, BookReplyLost,
     RecordFailureError, Crash, Goto

(* What is booked stays booked. *)
LEMMA BookedStays ==
    ASSUME TypeOK, [Next]_vars, NEW e, Booked(e)
    PROVE  Booked(e)'
<1>1. ASSUME NEW f \in Events, WriteBooking(f)
      PROVE  transactions \subseteq transactions'
  BY <1>1 DEF WriteBooking
<1>2. transactions \subseteq transactions'
  BY <1>1, TableSteps DEF dbVars
<1>3. QED
  BY <1>2 DEF Booked

(* Answering adds one answer and keeps the others. *)
LEMMA AppendedAnswer ==
    ASSUME TypeOK, NEW h \in Handlers, HasEvent(h),
           NEW status \in {"processed", "duplicate", "failed"}, Answer(h, status),
           NEW g \in Handlers, NEW i \in DOMAIN results'[g]
    PROVE  \/ i \in DOMAIN results[g] /\ results'[g][i] = results[g][i]
           \/ results'[g][i] = [event |-> Current(h), status |-> status]
<1>1. Current(h) \in Events
  BY CurrentIsEvent
<1>2. CASE g # h
  BY <1>2 DEF Answer, TypeOK
<1>3. CASE g = h
  <2> DEFINE answer == [event |-> Current(h), status |-> status]
  <2>1. results[h] \in Seq(Answers) /\ answer \in Answers
    BY <1>1 DEF TypeOK, Answers
  <2>2. results'[h] = Append(results[h], answer)
    BY DEF Answer, TypeOK
  <2> HIDE DEF answer
  <2>3. PICK n \in Nat : n = Len(results[h]) + 1
    BY <2>1
  <2>4. DOMAIN results'[h] = 1 .. n /\ results'[h][n] = answer
    BY <2>1, <2>2, <2>3
  <2>5. i \in 1 .. n /\ (i # n => i \in DOMAIN results[h])
    BY <1>3, <2>1, <2>3, <2>4
  <2>6. i # n => results'[h][i] = results[h][i]
    BY <2>1, <2>2, <2>5
  <2>7. QED
    BY <1>3, <2>4, <2>5, <2>6 DEF answer
<1>4. QED
  BY <1>2, <1>3

(* The status in an answer is never ahead of the tables, whatever other    *)
(* handlers and failures do in between (the results ingestWebhook returns).*)
THEOREM AnswersTrue == Spec => []AnswersAreTrue
<1>1. Init => AnswersAreTrue
  BY DEF Init, AnswersAreTrue
<1>2. TypeOK /\ BusyHasDelivery /\ AnswersAreTrue /\ [Next]_vars => AnswersAreTrue'
  <2> SUFFICES ASSUME TypeOK, BusyHasDelivery, AnswersAreTrue, [Next]_vars
               PROVE  AnswersAreTrue'
    OBVIOUS
  <2>0. results' \in [Handlers -> Seq(Answers)]
    <3>1. TypeOK'
      BY TypeStep
    <3>2. QED
      BY <3>1 DEF TypeOK, Answers
  <2> SUFFICES ASSUME NEW g \in Handlers, NEW i \in DOMAIN results'[g],
                      NEW a \in Answers, a = results'[g][i]
               PROVE  TrueAnswer(a)'
    <3>1. \A g \in Handlers : \A i \in DOMAIN results'[g] : results'[g][i] \in Answers
      BY <2>0
    <3>2. QED
      BY <3>1 DEF AnswersAreTrue, TrueAnswer, Booked
  <2>1. ASSUME i \in DOMAIN results[g], results'[g][i] = results[g][i]
        PROVE  TrueAnswer(a)'
    <3>1. TrueAnswer(a)
      BY <2>1 DEF AnswersAreTrue
    <3>2. a.event \in Events /\ a.event.id \in EventIds
      BY EventsAssumption DEF Answers, BillingEvent
    <3>3. processorEvents'[a.event.id] # NoRow
      BY <3>1, <3>2, RowsStay DEF TrueAnswer
    <3>4. Booked(a.event) => Booked(a.event)'
      BY <3>2, BookedStays
    <3>5. QED
      BY <3>1, <3>3, <3>4 DEF TrueAnswer
  <2>2. ASSUME NEW h \in Handlers, HasEvent(h),
               NEW status \in {"processed", "duplicate", "failed"}, Answer(h, status),
               NEW e \in Events, e = Current(h), processorEvents'[e.id] # NoRow,
               status = "processed" /\ e.fan # NoFan => Booked(e)'
        PROVE  TrueAnswer(a)'
    <3>1. CASE a = [event |-> e, status |-> status]
      <4>1. a.event = e /\ a.status = status
        BY <3>1
      <4>2. QED
        BY <2>2, <4>1 DEF TrueAnswer
    <3>2. QED
      BY <2>1, <2>2, <3>1, AppendedAnswer
  <2>3. ASSUME NEW h \in Handlers, HasEvent(h), Answer(h, "duplicate"),
               processorEvents[Current(h).id] # NoRow
        PROVE  TrueAnswer(a)'
    <3>1. PICK e \in Events : e = Current(h) /\ e.id \in EventIds
      BY <2>3, CurrentIsEvent
    <3>2. processorEvents'[e.id] # NoRow
      BY <2>3, <3>1, RowsStay
    <3>3. QED
      BY <2>2, <2>3, <3>1, <3>2
  <2>4. ASSUME NEW h \in Handlers, HasEvent(h), Answer(h, "processed"),
               WriteBooking(Current(h))
        PROVE  TrueAnswer(a)'
    <3>1. PICK e \in Events : e = Current(h) /\ e.id \in EventIds
      BY <2>4, CurrentIsEvent
    <3>2. processorEvents'[e.id] # NoRow
      BY <2>4, <3>1 DEF WriteBooking, TypeOK, NoRow
    <3>3. e.fan # NoFan => Booked(e)'
      BY <2>4, <3>1 DEF WriteBooking, TxnOf, Booked
    <3>4. QED
      BY <2>2, <2>4, <3>1, <3>2, <3>3
  <2>5. ASSUME NEW h \in Handlers, RecordFailure(h)
        PROVE  TrueAnswer(a)'
    <3>1. HasEvent(h) /\ Answer(h, "failed")
      BY <2>5 DEF RecordFailure
    <3>2. PICK e \in Events : e = Current(h) /\ e.id \in EventIds
      BY <3>1, CurrentIsEvent
    <3>3. processorEvents'[e.id] # NoRow
      BY <2>5, <3>2 DEF RecordFailure, TypeOK, NoRow
    <3>4. QED
      BY <2>2, <3>1, <3>2, <3>3
  <2>6. ASSUME NEW h \in Handlers, results' = [results EXCEPT ![h] = <<>>]
        PROVE  TrueAnswer(a)'
    BY <2>1, <2>6 DEF TypeOK
  <2>7. QED
    BY <2>1, <2>3, <2>4, <2>5, <2>6, AnswerSteps
<1>3. QED
  BY <1>1, <1>2, Typing, PTL DEF Spec

-----------------------------------------------------------------------------
(* What the replay of a payment depends on.  ReplayBooks and ProcessedStays *)
(* do not hold in general; here is what they need to.                      *)

(* An event id stands for one event. *)
OneEventPerId == \A e, f \in Events : e.id = f.id => e = f

(* As long as no statement failed and no process died: an event with a row *)
(* could not be booked, nor the one a catch block is about to record.      *)
NothingHeldBack ==
    faults = 0 =>
        /\ \A e \in Events : processorEvents[e.id] # NoRow => ~Bookable(e)
        /\ \A h \in Handlers : pc[h] = "catch" /\ HasEvent(h) => ~Bookable(Current(h))

LEMMA RowSteps ==
    ASSUME TypeOK, [Next]_vars
    PROVE  \/ \E e \in Events : Insertable(e) /\ WriteBooking(e)
           \/ \E h \in Handlers : RecordFailure(h)
           \/ UNCHANGED dbVars
<1>1. ASSUME NEW h \in Handlers, Book(h) \/ BookReplyLost(h)
      PROVE  \E e \in Events : Insertable(e) /\ WriteBooking(e)
  BY <1>1, CurrentIsEvent DEF Book, BookReplyLost
<1>2. CASE UNCHANGED vars
  BY <1>2 DEF vars
<1>3. QED
  BY <1>1, <1>2 DEF Next, Process, Failure, Receive, AnswerDuplicate, LookupMiss,
     RejectAmount, BookAborted, Respond, LookupError, BookError, RecordFailureError, Crash

(* A handler comes to its catch block by a constraint or by a failure. *)
LEMMA CatchSteps ==
    ASSUME TypeOK, [Next]_vars, NEW h \in Handlers, pc'[h] = "catch"
    PROVE  \/ pc[h] = "catch" /\ todo'[h] = todo[h]
           \/ BookAborted(h)
           \/ faults' = faults + 1
<1>1. ASSUME NEW g \in Handlers, g # h,
             Discard(g) \/ (\E s : Answer(g, s)) \/ UNCHANGED todo
             \/ \E d : todo' = [todo EXCEPT ![g] = d]
      PROVE  todo'[h] = todo[h]
  BY <1>1 DEF Discard, Answer, TypeOK
<1>2. ASSUME NEW g \in Handlers, g # h,
             Discard(g) \/ \E from, to : Goto(g, from, to)
      PROVE  pc'[h] = pc[h]
  BY <1>2 DEF Discard, Goto, TypeOK
<1>3. ASSUME NEW g \in Handlers, NEW d \in Deliveries, Receive(g, d)
      PROVE  pc[h] = "catch" /\ todo'[h] = todo[h]
  BY <1>3 DEF Receive, Goto, TypeOK
<1>4. ASSUME NEW g \in Handlers, Process(g), g # h
      PROVE  pc[h] = "catch" /\ todo'[h] = todo[h]
  BY <1>1, <1>2, <1>4 DEF Process, AnswerDuplicate, LookupMiss, RejectAmount, Book,
     BookAborted, RecordFailure, Respond
<1>5. ASSUME Process(h)
      PROVE  BookAborted(h)
  BY <1>5 DEF Process, AnswerDuplicate, LookupMiss, RejectAmount, Book,
     RecordFailure, Respond, Goto, Discard, TypeOK
<1>6. ASSUME NEW g \in Handlers, Failure(g)
      PROVE  faults' = faults + 1
  BY <1>6 DEF Failure, LookupError, BookError, BookReplyLost, RecordFailureError,
     Crash, Fault
<1>7. CASE UNCHANGED vars
  BY <1>7 DEF vars, handlerVars
<1>8. QED
  BY <1>3, <1>4, <1>5, <1>6, <1>7 DEF Next

LEMMA FaultsOnlyGrow ==
    ASSUME TypeOK, [Next]_vars
    PROVE  faults' = faults \/ faults' = faults + 1
BY DEF Next, Process, Failure, Receive, AnswerDuplicate, LookupMiss, RejectAmount, Book,
   BookAborted, RecordFailure, Respond, LookupError, BookError, BookReplyLost,
   RecordFailureError, Crash, Fault, vars

(* What cannot be booked for another reason than its row never can be. *)
LEMMA UnbookableStays ==
    ASSUME TypeOK, [Next]_vars, NEW e, ~Bookable(e)
    PROVE  ~Bookable(e)'
<1>1. ASSUME NEW f \in Events, WriteBooking(f)
      PROVE  transactions \subseteq transactions'
  BY <1>1 DEF WriteBooking
<1>2. transactions \subseteq transactions'
  BY <1>1, TableSteps DEF dbVars
<1>3. QED
  BY <1>2 DEF Bookable

LEMMA HeldBackStep ==
    ASSUME OneEventPerId, TypeOK, NothingHeldBack, [Next]_vars
    PROVE  NothingHeldBack'
<1> SUFFICES ASSUME faults' = 0
             PROVE  /\ \A e \in Events : processorEvents'[e.id] # NoRow => ~Bookable(e)'
                    /\ \A h \in Handlers :
                          (pc[h] = "catch" /\ HasEvent(h))' => ~Bookable(Current(h))'
  BY DEF NothingHeldBack, Bookable
<1>1. faults = 0 /\ faults' # faults + 1
  <2>1. faults \in Nat
    BY BoundsAssumption DEF TypeOK
  <2>2. faults' = faults \/ faults' = faults + 1
    BY FaultsOnlyGrow
  <2>3. QED
    BY <2>1, <2>2
<1>2. \A e \in Events : e.id \in EventIds
  BY EventsAssumption DEF BillingEvent
<1>3. ASSUME NEW e \in Events, processorEvents'[e.id] # NoRow
      PROVE  ~Bookable(e)'
  <2>1. CASE processorEvents[e.id] # NoRow
    BY <1>1, <2>1, UnbookableStays DEF NothingHeldBack
  <2>2. ASSUME NEW f \in Events, WriteBooking(f), processorEvents[e.id] = NoRow
        PROVE  ~Bookable(e)'
    <3>1. e = f
      BY <1>2, <1>3, <2>2 DEF WriteBooking, TypeOK, OneEventPerId
    <3>2. QED
      BY <2>2, <3>1 DEF WriteBooking, TxnOf, Bookable
  <2>3. ASSUME NEW h \in Handlers, RecordFailure(h), processorEvents[e.id] = NoRow
        PROVE  ~Bookable(e)'
    <3>1. PICK f \in Events : f = Current(h)
      BY <2>3, CurrentIsEvent DEF RecordFailure
    <3>2. e = f
      BY <1>2, <1>3, <2>3, <3>1 DEF RecordFailure, TypeOK, OneEventPerId
    <3>3. ~Bookable(f)
      BY <1>1, <2>3, <3>1 DEF NothingHeldBack, RecordFailure, Goto
    <3>4. QED
      BY <3>2, <3>3, UnbookableStays
  <2>4. QED
    BY <1>3, <2>1, <2>2, <2>3, RowSteps DEF dbVars
<1>4. ASSUME NEW h \in Handlers, (pc[h] = "catch" /\ HasEvent(h))'
      PROVE  ~Bookable(Current(h))'
  <2>1. ASSUME todo'[h] = todo[h], ~Bookable(Current(h))
        PROVE  ~Bookable(Current(h))'
    <3>1. PICK e : e = Current(h)
      OBVIOUS
    <3>2. Current(h)' = e /\ ~Bookable(e)'
      BY <2>1, <3>1, UnbookableStays DEF Current
    <3>3. QED
      BY <3>2 DEF Bookable
  <2>2. CASE pc[h] = "catch" /\ todo'[h] = todo[h]
    BY <1>1, <1>4, <2>1, <2>2 DEF NothingHeldBack, HasEvent
  <2>3. CASE BookAborted(h)
    <3>1. Current(h) \in Events /\ todo' = todo /\ ~Insertable(Current(h))
      BY <2>3, CurrentIsEvent DEF BookAborted
    <3>2. ~Bookable(Current(h))
      BY <1>1, <3>1 DEF NothingHeldBack, Insertable, Bookable
    <3>3. QED
      BY <2>1, <3>1, <3>2
  <2>4. QED
    BY <1>1, <1>4, <2>2, <2>3, CatchSteps
<1>5. QED
  BY <1>3, <1>4

(* ReplayBooks needs a failure to be violated: where an event id stands    *)
(* for one event, only a database error or a crash makes a later delivery  *)
(* answer "duplicate" for a payment that could be booked; racing handlers, *)
(* repeated deliveries and refused inserts alone never do.                 *)
THEOREM ReplayBooksWithoutFaults ==
    ASSUME OneEventPerId
    PROVE  Spec => [](faults = 0 => ReplayBooks)
<1>1. Init => NothingHeldBack
  BY EventsAssumption DEF Init, NothingHeldBack, BillingEvent, NoRow
<1>2. TypeOK /\ NothingHeldBack /\ [Next]_vars => NothingHeldBack'
  BY HeldBackStep
<1>3. TypeOK /\ NothingHeldBack /\ AnswersAreTrue => (faults = 0 => ReplayBooks)
  <2> SUFFICES ASSUME TypeOK, NothingHeldBack, AnswersAreTrue, faults = 0,
                      NEW h \in Handlers, NEW i \in DOMAIN results[h]
               PROVE  ~Bookable(results[h][i].event)
    BY DEF ReplayBooks
  <2>1. results[h][i].event \in Events
    <3>1. results[h] \in Seq(Answers)
      BY DEF TypeOK, Answers
    <3>2. results[h][i] \in Answers
      BY <3>1
    <3>3. QED
      BY <3>2 DEF Answers
  <2>2. processorEvents[results[h][i].event.id] # NoRow
    BY DEF AnswersAreTrue, TrueAnswer
  <2>3. QED
    BY <2>1, <2>2 DEF NothingHeldBack
<1>4. QED
  BY <1>1, <1>2, <1>3, Typing, AnswersTrue, PTL DEF Spec

(* A single handler, between its look-up and its last statement about an   *)
(* event: nobody else has written the event's row.                         *)
RowIsOwn ==
    faults = 0 =>
        \A h \in Handlers :
            pc[h] \in {"book", "catch"} /\ HasEvent(h) =>
                processorEvents[Current(h).id] = NoRow

LEMMA RowIsOwnStep ==
    ASSUME \A g, h \in Handlers : g = h, TypeOK, RowIsOwn, [Next]_vars
    PROVE  RowIsOwn'
<1> SUFFICES ASSUME faults' = 0, NEW h \in Handlers,
                    (pc[h] \in {"book", "catch"} /\ HasEvent(h))'
             PROVE  (processorEvents[Current(h).id] = NoRow)'
  BY DEF RowIsOwn
<1>1. faults = 0 /\ faults' # faults + 1
  <2>1. faults \in Nat
    BY BoundsAssumption DEF TypeOK
  <2>2. faults' = faults \/ faults' = faults + 1
    BY FaultsOnlyGrow
  <2>3. QED
    BY <2>1, <2>2
<1>2. ASSUME UNCHANGED <<processorEvents, todo>>, processorEvents[Current(h).id] = NoRow
      PROVE  (processorEvents[Current(h).id] = NoRow)'
  BY <1>2 DEF Current
<1>3. CASE UNCHANGED vars
  BY <1>1, <1>2, <1>3 DEF vars, dbVars, handlerVars, RowIsOwn, HasEvent
<1>4. ASSUME NEW d \in Deliveries, Receive(h, d)
      PROVE  FALSE
  BY <1>4 DEF Receive, Goto, TypeOK
<1>5. ASSUME Process(h)
      PROVE  LookupMiss(h) \/ BookAborted(h)
  BY <1>5 DEF Process, AnswerDuplicate, RejectAmount, Book, RecordFailure, Respond,
     Goto, Discard, TypeOK
<1>6. CASE LookupMiss(h)
  BY <1>2, <1>6 DEF LookupMiss, dbVars
<1>7. CASE BookAborted(h)
  BY <1>1, <1>2, <1>7 DEF BookAborted, Goto, dbVars, RowIsOwn
<1>8. ASSUME Failure(h)
      PROVE  FALSE
  BY <1>1, <1>8 DEF Failure, LookupError, BookError, BookReplyLost, RecordFailureError,
     Crash, Fault
<1>9. QED
  BY <1>3, <1>4, <1>5, <1>6, <1>7, <1>8 DEF Next

(* ProcessedStays needs overlapping requests or a failure to be violated:  *)
(* where requests are handled one at a time and no statement fails, no     *)
(* PROCESSED row is ever overwritten, however often payloads are replayed  *)
(* and whatever the constraints refuse.                                    *)
THEOREM ProcessedStaysInOrder ==
    ASSUME \A g, h \in Handlers : g = h
    PROVE  Spec => [][faults' = 0 =>
                        \A i \in EventIds : processorEvents[i] = "PROCESSED" =>
                                            processorEvents'[i] = "PROCESSED"]_vars
<1> DEFINE Stays ==
      faults' = 0 =>
          \A i \in EventIds : processorEvents[i] = "PROCESSED" =>
                              processorEvents'[i] = "PROCESSED"
<1>1. Init => RowIsOwn
  BY DEF Init, RowIsOwn
<1>2. TypeOK /\ RowIsOwn /\ [Next]_vars => RowIsOwn'
  BY RowIsOwnStep
<1>3. TypeOK /\ RowIsOwn /\ [Next]_vars => [Stays]_vars
  <2> SUFFICES ASSUME TypeOK, RowIsOwn, [Next]_vars, faults' = 0, NEW i \in EventIds,
                      processorEvents[i] = "PROCESSED"
               PROVE  processorEvents'[i] = "PROCESSED"
    OBVIOUS
  <2>1. faults = 0
    <3>1. faults \in Nat
      BY BoundsAssumption DEF TypeOK
    <3>2. faults' = faults \/ faults' = faults + 1
      BY FaultsOnlyGrow
    <3>3. QED
      BY <3>1, <3>2
  <2>2. ASSUME NEW e \in Events, WriteBooking(e)
        PROVE  processorEvents'[i] = "PROCESSED"
    BY <2>2 DEF WriteBooking, TypeOK
  <2>3. ASSUME NEW h \in Handlers, RecordFailure(h)
        PROVE  processorEvents'[i] = "PROCESSED"
    <3>1. PICK e \in Events : e = Current(h)
      BY <2>3, CurrentIsEvent DEF RecordFailure
    <3>2. processorEvents[e.id] = NoRow
      BY <2>1, <2>3, <3>1 DEF RowIsOwn, RecordFailure, Goto
    <3>3. i # e.id
      BY <3>2 DEF NoRow
    <3>4. QED
      BY <2>3, <3>1, <3>3 DEF RecordFailure, TypeOK
  <2>4. QED
    BY <2>2, <2>3, RowSteps DEF dbVars
<1>4. QED
  BY <1>1, <1>2, <1>3, Typing, PTL DEF Spec

-----------------------------------------------------------------------------
(* What is left to do of a request: three statements at most per event,    *)
(* and the answer.                                                         *)
Left(h) ==
    CASE pc[h] = "lookup" -> 3 * Len(todo[h]) + 1
      [] pc[h] = "book"   -> 3 * Len(todo[h])
      [] pc[h] = "catch"  -> 3 * Len(todo[h]) - 1
      [] OTHER            -> 0

\* a handler before its last statement about an event has that event
Busy == \A h \in Handlers : pc[h] \in {"book", "catch"} => HasEvent(h)

(* No request goes round in circles: every step of a handler at work, be   *)
(* it a success, a refusal or a failure, leaves less to do.                *)
RequestsAreBounded ==
    [][\A h \in Handlers :
          pc[h] # "idle" =>
              \/ pc'[h] = pc[h] /\ todo'[h] = todo[h]
              \/ Left(h)' < Left(h) /\ Left(h)' \in Nat]_vars

LEMMA AnswerShortens ==
    ASSUME TypeOK, NEW h \in Handlers, HasEvent(h), NEW s, Answer(h, s)
    PROVE  /\ Len(todo[h]) \in Nat \ {0}
           /\ Len(todo'[h]) = Len(todo[h]) - 1
<1>1. todo[h] \in Seq(Events) /\ todo[h] # <<>> /\ todo'[h] = Tail(todo[h])
  BY DEF TypeOK, HasEvent, Answer
<1>2. QED
  BY <1>1

(* The half of EventuallyAcked that needs no fairness: a request ends      *)
(* after at most three steps per event and one, whatever happens.          *)
THEOREM RequestsEnd == Spec => RequestsAreBounded
<1> DEFINE Shrinks ==
      \A h \in Handlers :
          pc[h] # "idle" =>
              \/ pc'[h] = pc[h] /\ todo'[h] = todo[h]
              \/ Left(h)' < Left(h) /\ Left(h)' \in Nat
<1>1. Init => Busy
  BY DEF Init, Busy
<1>2. TypeOK /\ Busy /\ [Next]_vars => Busy' /\ [Shrinks]_vars
  <2> SUFFICES ASSUME TypeOK, Busy, [Next]_vars, NEW h \in Handlers
               PROVE  /\ pc'[h] \in {"book", "catch"} => HasEvent(h)'
                      /\ pc[h] # "idle" =>
                            \/ pc'[h] = pc[h] /\ todo'[h] = todo[h]
                            \/ Left(h)' < Left(h) /\ Left(h)' \in Nat
    BY DEF Busy
  <2>1. todo[h] \in Seq(Events) /\ (HasEvent(h) => Len(todo[h]) > 0) /\ Len(todo[h]) \in Nat
    BY DEF TypeOK, HasEvent
  <2>2. ASSUME pc'[h] = pc[h], todo'[h] = todo[h]
        PROVE  /\ pc'[h] \in {"book", "catch"} => HasEvent(h)'
               /\ pc[h] # "idle" => pc'[h] = pc[h] /\ todo'[h] = todo[h]
    BY <2>2 DEF Busy, HasEvent
  <2>3. ASSUME Discard(h), pc[h] \in {"book", "catch"} => HasEvent(h), pc[h] # "idle"
        PROVE  pc'[h] = "idle" /\ Left(h)' = 0 /\ 0 < Left(h)
    BY <2>1, <2>3 DEF Discard, Left, TypeOK
  <2>4. ASSUME NEW from \in {"lookup", "book", "catch"}, Goto(h, from, "lookup"),
               HasEvent(h), NEW s, Answer(h, s)
        PROVE  pc'[h] = "lookup" /\ Left(h)' < Left(h) /\ Left(h)' \in Nat
    <3>1. PICK n \in Nat \ {0} : Len(todo[h]) = n /\ Len(todo'[h]) = n - 1
      BY <2>4, AnswerShortens
    <3>2. pc[h] = from /\ pc'[h] = "lookup"
      BY <2>4 DEF Goto, TypeOK
    <3>3. Left(h)' = 3 * (n - 1) + 1
      BY <3>1, <3>2 DEF Left
    <3>4. Left(h) \in {3 * n + 1, 3 * n, 3 * n - 1}
      BY <3>1, <3>2 DEF Left
    <3>5. QED
      BY <3>1, <3>2, <3>3, <3>4
  <2>5. ASSUME \/ Goto(h, "lookup", "book") \/ Goto(h, "book", "catch"),
               HasEvent(h), UNCHANGED todo
        PROVE  HasEvent(h)' /\ Left(h)' < Left(h) /\ Left(h)' \in Nat
    BY <2>1, <2>5 DEF Goto, Left, HasEvent, TypeOK
  <2>6. ASSUME NEW d \in Deliveries, Receive(h, d)
        PROVE  pc[h] = "idle" /\ pc'[h] = "lookup"
    BY <2>6 DEF Receive, Goto, TypeOK
  <2>7. ASSUME NEW g \in Handlers, g # h,
               (\E d \in Deliveries : Receive(g, d)) \/ Process(g) \/ Failure(g)
        PROVE  pc'[h] = pc[h] /\ todo'[h] = todo[h]
    BY <2>7 DEF Receive, Process, Failure, AnswerDuplicate, LookupMiss, RejectAmount,
       Book, BookAborted, RecordFailure, Respond, LookupError, BookError, BookReplyLost,
       RecordFailureError, Crash, Goto, Answer, Discard, TypeOK
  <2>8. ASSUME Process(h) \/ Failure(h)
        PROVE  \/ Discard(h) /\ pc[h] # "idle"
               \/ /\ HasEvent(h)
                  /\ \E from \in {"lookup", "book", "catch"} : Goto(h, from, "lookup")
                  /\ \E s : Answer(h, s)
               \/ /\ Goto(h, "lookup", "book") \/ Goto(h, "book", "catch")
                  /\ HasEvent(h) /\ UNCHANGED todo
    BY <2>8 DEF Process, Failure, AnswerDuplicate, LookupMiss, RejectAmount,
       Book, BookAborted, RecordFailure, Respond, LookupError, BookError, BookReplyLost,
       RecordFailureError, Crash
  <2>9. CASE UNCHANGED vars
    BY <2>2, <2>9 DEF vars, handlerVars
  <2>10. CASE Process(h) \/ Failure(h)
    <3>1. pc[h] \in {"book", "catch"} => HasEvent(h)
      BY DEF Busy
    <3>2. QED
      BY <2>3, <2>4, <2>5, <2>8, <2>10, <3>1
  <2>11. QED
    BY <2>2, <2>6, <2>7, <2>9, <2>10 DEF Next
<1>3. QED
  BY <1>1, <1>2, Typing, PTL DEF Spec, RequestsAreBounded
=============================================================================
