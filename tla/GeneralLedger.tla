--------------------------- MODULE GeneralLedger ---------------------------
(***************************************************************************)
(* What billing promises its readers (payout runs, payment history, the    *)
(* creator dashboard), with no webhook, handler or retry in sight: a book  *)
(* of transactions that only grows, by one whole transaction at a time,    *)
(* its postings with it; the amounts of each add up; and there are never   *)
(* two for one processor transaction or for one processor event.           *)
(***************************************************************************)
EXTENDS Integers

CONSTANT PostingsOf(_)    \* the ledger entries that belong to a transaction

VARIABLES transactions, ledger

bookVars == <<transactions, ledger>>

BookInit == transactions = {} /\ ledger = {}

AddsUp(t) == t.fee >= 0 /\ t.net >= 0 /\ t.gross = t.fee + t.net

(* Transaction t enters the book together with all of its postings. *)
Post(t) ==
    /\ AddsUp(t)
    /\ \A u \in transactions :
          u.id # t.id /\ u.key # t.key /\ u.source # t.source
    /\ transactions' = transactions \cup {t}
    /\ ledger' = ledger \cup PostingsOf(t)

BookNext == \E t \in transactions' \ transactions : Post(t)

BookSpec == BookInit /\ [][BookNext]_bookVars
=============================================================================
