-------------------------- MODULE PurchasesProofs --------------------------
(***************************************************************************)
(* Theorems about Purchases, for any fans, creators, tiers, posts, prices, *)
(* handlers and bounds: what was paid for what, and that every charge is   *)
(* delivered, about to be, or the loss of a request that died.             *)
(***************************************************************************)
EXTENDS Purchases, TLAPS

Paid(p) == \E t \in Tiers : TierCreator[t] = p[2] /\ <<p[1], t>> \in activated

IsCharge(i, kind, r) ==
    /\ i \in DOMAIN charges
    /\ charges[i].kind = kind
    /\ charges[i].message = r.message
    /\ charges[i].pair = r.pair
    /\ charges[i].gross = r.price

Unlocks(i, m) ==
    i \in DOMAIN charges /\ charges[i].kind = "PPV_PURCHASE" /\ charges[i].message = m

(* What a request has behind it at each statement. *)
RequestInv(h) ==
    LET r == request[h] IN
    /\ pc[h] # "idle" => r.pair \in Pairs
    /\ pc[h] = "upsert" => r.tier \in Tiers /\ TierCreator[r.tier] = r.pair[2]
    /\ pc[h] \in {"cancelRemote", "cancelRow"} => subscriptions[r.pair].status # "NONE"
    /\ pc[h] \in {"conversation", "message", "ppv"} => Paid(r.pair)
    /\ pc[h] = "ppv" =>
          /\ r.message \in DOMAIN messages
          /\ messages[r.message].price = 0 /\ messages[r.message].unlock = 0
    /\ pc[h] \in {"charge", "setUnlock"} =>
          /\ r.message \in DOMAIN messages
          /\ messages[r.message].price = r.price /\ r.price # 0
          /\ messages[r.message].pair = r.pair
    /\ pc[h] = "charge" =>
          \A i \in DOMAIN charges :
              Unlocks(i, r.message) /\ charges[i].by = h => i \in lostCharges
    /\ pc[h] = "setUnlock" =>
          IsCharge(r.charge, "PPV_PURCHASE", r) /\ charges[r.charge].by = h
    /\ pc[h] = "tip" =>
          /\ IsCharge(r.charge, "TIP", r) /\ charges[r.charge].by = h
          /\ r.price \in Prices
          /\ \A tip \in tips : tip.charge # r.charge

(* A message is waiting for its price in one request at most. *)
PpvAlone ==
    \A g, h \in Handlers :
        pc[g] = "ppv" /\ pc[h] = "ppv" /\ request[g].message = request[h].message => g = h

SubscriptionsInv ==
    \A p \in Pairs :
        /\ subscriptions[p].status # "NONE" =>
              subscriptions[p].tier \in Tiers /\ TierCreator[subscriptions[p].tier] = p[2]
        /\ subscriptions[p].status = "ACTIVE" =>
              <<p[1], subscriptions[p].tier>> \in activated

(* A canceled subscription is audited, about to be, or its request died.   *)
AuditedOrLost ==
    \A p \in Pairs :
        subscriptions[p].status = "CANCELED" =>
            \/ p \in audit \cup lostCancels
            \/ \E h \in Handlers : pc[h] = "audit" /\ request[h].pair = p

UnpricedIsLocked ==
    \A m \in DOMAIN messages : messages[m].price = 0 => messages[m].unlock = 0

MessagesPaid == \A m \in DOMAIN messages : Paid(messages[m].pair)

(* A charge that is neither delivered nor lost is held by the request that *)
(* made it.                                                                *)
Accounted(i) ==
    \/ Delivered(i)
    \/ i \in lostCharges
    \/ /\ pc[charges[i].by] \in {"setUnlock", "tip"}
       /\ request[charges[i].by].charge = i

ChargesInv ==
    \A i \in DOMAIN charges :
        /\ charges[i].kind = "PPV_PURCHASE" => charges[i].message \in DOMAIN messages
        /\ Accounted(i)

PurchaseInv ==
    /\ \A h \in Handlers : RequestInv(h)
    /\ PpvAlone
    /\ SubscriptionsInv
    /\ AuditedOrLost
    /\ UnpricedIsLocked
    /\ UnlocksArePaid
    /\ MessagesPaid
    /\ ChargesInv
    /\ SecondChargeNeedsLoss
    /\ OneFeeSchedule
    /\ TipsArePaid

-----------------------------------------------------------------------------
(* Money *)

(* messaging's fifteen percent are the 1500 basis points of the platform.  *)
LEMMA FeesAgree ==
    ASSUME NEW cents \in Nat
    PROVE  /\ MessagingFeeCents(cents) = PlatformFeeCents(cents, FeeBps)
           /\ MessagingFeeCents(cents) \in 0 .. cents
<1>1. PICK q \in Nat : /\ q = MessagingFeeCents(cents)
                       /\ 100 * q <= cents * 15
                       /\ cents * 15 < 100 * q + 100
  BY DEF MessagingFeeCents
<1>2. 10000 * q <= cents * 1500 /\ cents * 1500 < 10000 * q + 10000
  BY <1>1
<1>3. q = (cents * 1500) \div 10000
  BY <1>2
<1>4. q <= cents
  BY <1>1
<1>5. QED
  BY <1>1, <1>3, <1>4 DEF PlatformFeeCents, FeeBps, BasisPoints

LEMMA NewChargeIsCharge ==
    ASSUME TypeOK, NEW h \in Handlers, NEW kind \in {"PPV_PURCHASE", "TIP"},
           NEW p \in Pairs, NEW m \in {0} \cup MessageIds, NEW cents \in Prices
    PROVE  NewCharge(h, kind, p, m, cents) \in Charge
<1>1. cents \in Nat
  BY PurchasesAssumption
<1>2. /\ MessagingFeeCents(cents) \in Nat
      /\ cents - MessagingFeeCents(cents) \in Nat
  BY <1>1, FeesAgree
<1>3. QED
  BY <1>1, <1>2 DEF NewCharge, Charge, TypeOK

-----------------------------------------------------------------------------
(* Handlers *)

LEMMA GotoSets ==
    ASSUME TypeOK, NEW h \in Handlers, NEW from, NEW to \in PCs, Goto(h, from, to)
    PROVE  /\ pc[h] = from /\ pc'[h] = to
           /\ \A g \in Handlers \ {h} : pc'[g] = pc[g]
           /\ pc' \in [Handlers -> PCs]
BY DEF Goto, TypeOK

LEMMA HoldSets ==
    ASSUME TypeOK, NEW h \in Handlers, NEW p \in Pairs, NEW m \in {0} \cup MessageIds,
           NEW price \in {0} \cup Prices, NEW i \in {0} \cup ChargeIds,
           Hold(h, p, m, price, i)
    PROVE  /\ request'[h] = [pair |-> p, tier |-> NoTier, message |-> m,
                             price |-> price, charge |-> i]
           /\ \A g \in Handlers \ {h} : request'[g] = request[g]
           /\ request' \in [Handlers -> Request]
<1>1. [pair |-> p, tier |-> NoTier, message |-> m, price |-> price, charge |-> i] \in Request
  BY DEF Request
<1>2. QED
  BY <1>1 DEF Hold, TypeOK

LEMMA HoldPairSets ==
    ASSUME TypeOK, NEW h \in Handlers, NEW p \in Pairs, NEW price \in {0} \cup Prices,
           Hold(h, p, 0, price, 0)
    PROVE  /\ request'[h].pair = p
           /\ \A g \in Handlers \ {h} : request'[g] = request[g]
           /\ request' \in [Handlers -> Request]
<1>1. PICK m \in {0} \cup MessageIds, i \in {0} \cup ChargeIds : m = 0 /\ i = 0
  OBVIOUS
<1>2. Hold(h, p, m, price, i)
  BY <1>1
<1>3. /\ request'[h] = [pair |-> p, tier |-> NoTier, message |-> m,
                      price |-> price, charge |-> i]
      /\ \A g \in Handlers \ {h} : request'[g] = request[g]
      /\ request' \in [Handlers -> Request]
  BY <1>2, HoldSets
<1>4. QED
  BY <1>3

LEMMA FinishSets ==
    ASSUME TypeOK, NEW h \in Handlers, Finish(h)
    PROVE  /\ pc'[h] = "idle"
           /\ \A g \in Handlers \ {h} : pc'[g] = pc[g] /\ request'[g] = request[g]
           /\ pc' \in [Handlers -> PCs]
           /\ request' \in [Handlers -> Request]
<1>1. NoRequest \in Request
  BY DEF NoRequest, Request
<1>2. QED
  BY <1>1 DEF Finish, TypeOK, PCs

-----------------------------------------------------------------------------
(* What stays *)

(* Subscriptions, messages, charges, tips and payments are never taken     *)
(* back; a message keeps its conversation and, once it has one, its price. *)
Grows ==
    /\ \A p \in Pairs : subscriptions[p].status # "NONE" => subscriptions'[p].status # "NONE"
    /\ activated \subseteq activated'
    /\ lostCharges \subseteq lostCharges'
    /\ tips \subseteq tips'
    /\ \A m \in DOMAIN messages :
          /\ m \in DOMAIN messages'
          /\ messages'[m].pair = messages[m].pair
          /\ messages[m].price # 0 => messages'[m].price = messages[m].price
          /\ messages[m].unlock # 0 => messages'[m].unlock # 0
    /\ \A i \in DOMAIN charges : i \in DOMAIN charges' /\ charges'[i] = charges[i]

Still(g) == pc'[g] = pc[g] /\ request'[g] = request[g]

Holds(g, i) == pc[g] \in {"setUnlock", "tip"} /\ request[g].charge = i

LEMMA PaidStays ==
    ASSUME Grows, NEW p, Paid(p)
    PROVE  Paid(p)'
BY DEF Grows, Paid

LEMMA RequestStays ==
    ASSUME Grows, NEW g \in Handlers, RequestInv(g), Still(g),
           pc[g] = "ppv" => messages'[request[g].message] = messages[request[g].message],
           \A i \in DOMAIN charges' : i \notin DOMAIN charges => charges'[i].by # g,
           pc[g] = "tip" =>
               \A tip \in tips' : tip \in tips \/ tip.charge # request[g].charge
    PROVE  RequestInv(g)'
<1>1. PICK r : r = request[g] /\ r = request'[g]
  BY DEF Still
<1>2. pc[g] \in {"conversation", "message", "ppv"} => Paid(r.pair)'
  BY <1>1, PaidStays DEF RequestInv
<1>3. pc[g] = "charge" =>
         \A i \in DOMAIN charges' :
             Unlocks(i, r.message)' /\ charges'[i].by = g => i \in lostCharges'
  BY <1>1 DEF RequestInv, Grows, Unlocks
<1>4. pc[g] = "setUnlock" =>
         IsCharge(r.charge, "PPV_PURCHASE", r)' /\ charges'[r.charge].by = g
  BY <1>1 DEF RequestInv, Grows, IsCharge
<1>5. pc[g] = "tip" =>
         /\ IsCharge(r.charge, "TIP", r)' /\ charges'[r.charge].by = g
         /\ r.price \in Prices
         /\ \A tip \in tips' : tip.charge # r.charge
  BY <1>1 DEF RequestInv, Grows, IsCharge
<1>6. pc[g] \in {"ppv", "charge", "setUnlock"} => r.message \in DOMAIN messages'
  BY <1>1 DEF RequestInv, Grows
<1>7. /\ pc[g] = "ppv" =>
            messages'[r.message].price = 0 /\ messages'[r.message].unlock = 0
      /\ pc[g] \in {"charge", "setUnlock"} =>
            /\ messages'[r.message].price = r.price /\ r.price # 0
            /\ messages'[r.message].pair = r.pair
  BY <1>1 DEF RequestInv, Grows
<1>8. /\ pc[g] # "idle" => r.pair \in Pairs
      /\ pc[g] = "upsert" => r.tier \in Tiers /\ TierCreator[r.tier] = r.pair[2]
      /\ pc[g] \in {"cancelRemote", "cancelRow"} => subscriptions'[r.pair].status # "NONE"
  BY <1>1 DEF RequestInv, Grows
<1>9. pc'[g] = pc[g]
  BY DEF Still
<1>10. QED
  BY <1>1, <1>2, <1>3, <1>4, <1>5, <1>6, <1>7, <1>8, <1>9 DEF RequestInv

LEMMA AccountedStays ==
    ASSUME TypeOK, ChargesInv, Grows, NEW i \in DOMAIN charges,
           \A g \in Handlers : Holds(g, i) => Still(g) \/ i \in lostCharges' \/ Delivered(i)'
    PROVE  Accounted(i)'
<1>1. /\ charges[i].by \in Handlers
      /\ charges'[i] = charges[i]
  <2>1. charges[i] \in Charge
    BY DEF TypeOK
  <2>2. QED
    BY <2>1 DEF Charge, Grows
<1>2. CASE Delivered(i)
  BY <1>1, <1>2 DEF ChargesInv, Delivered, Accounted, Grows
<1>3. CASE i \in lostCharges
  BY <1>3 DEF Accounted, Grows
<1>4. CASE Holds(charges[i].by, i)
  BY <1>1, <1>4 DEF Accounted, Holds, Still
<1>5. QED
  BY <1>2, <1>3, <1>4 DEF ChargesInv, Accounted, Holds

LEMMA MessagesPaidStay ==
    ASSUME MessagesPaid, Grows, DOMAIN messages' = DOMAIN messages
    PROVE  MessagesPaid'
<1> SUFFICES ASSUME NEW m \in DOMAIN messages
             PROVE  \E t \in Tiers : /\ TierCreator[t] = messages'[m].pair[2]
                                     /\ <<messages'[m].pair[1], t>> \in activated'
  BY DEF MessagesPaid, Paid
<1>1. messages'[m].pair = messages[m].pair
  BY DEF Grows
<1>2. Paid(messages[m].pair)
  BY DEF MessagesPaid
<1>3. PICK t \in Tiers : TierCreator[t] = messages[m].pair[2]
                         /\ <<messages[m].pair[1], t>> \in activated
  BY <1>2 DEF Paid
<1>4. QED
  BY <1>1, <1>3 DEF Grows

LEMMA MessagesStay ==
    ASSUME TypeOK, PurchaseInv, Grows, UNCHANGED messages
    PROVE  UnpricedIsLocked' /\ MessagesPaid' /\ UnlocksArePaid'
<1>1. UnpricedIsLocked'
  BY DEF PurchaseInv, UnpricedIsLocked
<1>2. MessagesPaid'
  BY DEF PurchaseInv, MessagesPaid, Paid, Grows
<1>3. UnlocksArePaid'
  BY DEF PurchaseInv, UnlocksArePaid, Grows
<1>4. QED
  BY <1>1, <1>2, <1>3

LEMMA ChargesStay ==
    ASSUME PurchaseInv, Grows, UNCHANGED charges
    PROVE  SecondChargeNeedsLoss' /\ OneFeeSchedule'
BY DEF PurchaseInv, Grows, SecondChargeNeedsLoss, OneFeeSchedule

LEMMA TipsStay ==
    ASSUME PurchaseInv, Grows, UNCHANGED tips
    PROVE  TipsArePaid'
BY DEF PurchaseInv, Grows, TipsArePaid

LEMMA SubscriptionsStay ==
    ASSUME PurchaseInv, UNCHANGED <<subscriptions, activated>>
    PROVE  SubscriptionsInv'
BY DEF PurchaseInv, SubscriptionsInv

(* No subscription is canceled, and the requests that audit go on.         *)
LEMMA AuditsStay ==
    ASSUME PurchaseInv,
           \A p \in Pairs : subscriptions'[p].status = "CANCELED" =>
               subscriptions[p].status = "CANCELED",
           audit \subseteq audit', lostCancels \subseteq lostCancels',
           \A g \in Handlers : pc[g] = "audit" =>
               Still(g) \/ request[g].pair \in audit' \cup lostCancels'
    PROVE  AuditedOrLost'
BY DEF PurchaseInv, AuditedOrLost, Still

(* A step that neither writes a message nor charges nor tips.              *)
LEMMA QuietStep ==
    ASSUME TypeOK, PurchaseInv, Grows, UNCHANGED <<messages, charges, tips>>,
           SubscriptionsInv', AuditedOrLost',
           \A g \in Handlers :
               \/ Still(g)
               \/ /\ RequestInv(g)' /\ pc'[g] # "ppv"
                  /\ pc[g] \in {"setUnlock", "tip"} => request[g].charge \in lostCharges'
    PROVE  PurchaseInv'
<1>1. \A g \in Handlers : RequestInv(g)'
  <2> SUFFICES ASSUME NEW g \in Handlers PROVE RequestInv(g)'
    OBVIOUS
  <2>1. CASE Still(g)
    <3>1. RequestInv(g)
      BY DEF PurchaseInv
    <3>2. QED
      BY <2>1, <3>1, RequestStays
  <2>2. QED
    BY <2>1
<1>2. PpvAlone'
  BY DEF PurchaseInv, PpvAlone, Still
<1>3. UnpricedIsLocked' /\ MessagesPaid' /\ UnlocksArePaid'
  BY MessagesStay
<1>4. SecondChargeNeedsLoss' /\ OneFeeSchedule' /\ TipsArePaid'
  BY ChargesStay, TipsStay
<1>5. ChargesInv'
  <2> SUFFICES ASSUME NEW i \in DOMAIN charges
               PROVE  /\ charges[i].kind = "PPV_PURCHASE" =>
                            charges[i].message \in DOMAIN messages
                      /\ Accounted(i)'
    BY DEF ChargesInv
  <2>1. ChargesInv
    BY DEF PurchaseInv
  <2>2. Accounted(i)'
    BY <2>1, AccountedStays DEF Holds
  <2>3. QED
    BY <2>1, <2>2 DEF ChargesInv
<1>6. QED
  BY <1>1, <1>2, <1>3, <1>4, <1>5 DEF PurchaseInv

-----------------------------------------------------------------------------
(* Subscriptions *)

LEMMA CheckoutStep ==
    ASSUME TypeOK, PurchaseInv, NEW h \in Handlers, NEW f \in Fans, NEW t \in Tiers,
           Checkout(h, f, t)
    PROVE  TypeOK' /\ PurchaseInv'
<1> DEFINE p == <<f, TierCreator[t]>>
           r == [pair |-> p, tier |-> t, message |-> 0, price |-> 0, charge |-> 0]
<1>1. p \in Pairs /\ r \in Request
  BY PurchasesAssumption DEF Pairs, Request
<1>2. request' = [request EXCEPT ![h] = r]
  BY DEF Checkout
<1>3. /\ request'[h] = r
      /\ \A g \in Handlers \ {h} : request'[g] = request[g]
      /\ request' \in [Handlers -> Request]
  BY <1>1, <1>2 DEF TypeOK
<1>4. /\ pc[h] = "idle" /\ pc'[h] = "upsert"
      /\ \A g \in Handlers \ {h} : pc'[g] = pc[g]
      /\ pc' \in [Handlers -> PCs]
  BY GotoSets DEF Checkout, PCs
<1>5. /\ UNCHANGED <<subscriptions, audit, activated, conversations, messages>>
      /\ UNCHANGED <<charges, tips, now, lostCharges, lostCancels>>
      /\ opened' = opened \cup {<<f, t>>}
  BY DEF Checkout, messageVars, moneyVars, lostVars
<1>6. TypeOK'
  BY <1>3, <1>4, <1>5 DEF TypeOK
<1>7. Grows
  BY <1>5 DEF Grows
<1>8. RequestInv(h)'
  BY <1>1, <1>3, <1>4 DEF RequestInv
<1>9. SubscriptionsInv'
  BY <1>5, SubscriptionsStay
<1>10. \A g \in Handlers \ {h} : Still(g)
  BY <1>3, <1>4 DEF Still
<1>11. AuditedOrLost'
  BY <1>4, <1>5, <1>10, AuditsStay
<1>12. PurchaseInv'
  BY <1>4, <1>5, <1>7, <1>8, <1>9, <1>10, <1>11, QuietStep
<1>13. QED
  BY <1>6, <1>12

LEMMA UpsertStep ==
    ASSUME TypeOK, PurchaseInv, NEW h \in Handlers, UpsertSubscription(h)
    PROVE  TypeOK' /\ PurchaseInv'
<1>1. PICK p \in Pairs, t \in Tiers :
         /\ p = request[h].pair /\ t = request[h].tier /\ TierCreator[t] = p[2]
  BY DEF UpsertSubscription, PurchaseInv, RequestInv
<1>2. /\ pc[h] = "upsert"
      /\ subscriptions' = [subscriptions EXCEPT ![p] = Upserted(p, t)]
      /\ UNCHANGED <<audit, activated, opened, conversations, messages>>
      /\ UNCHANGED <<charges, tips, now, lostCharges, lostCancels>>
  BY <1>1 DEF UpsertSubscription, messageVars, moneyVars, lostVars
<1>3. /\ pc'[h] = "idle"
      /\ \A g \in Handlers \ {h} : pc'[g] = pc[g] /\ request'[g] = request[g]
      /\ pc' \in [Handlers -> PCs]
      /\ request' \in [Handlers -> Request]
  BY FinishSets DEF UpsertSubscription
<1>4. Upserted(p, t) \in Subscription
  BY DEF Upserted, Subscription
<1>5. /\ subscriptions' \in [Pairs -> Subscription]
      /\ subscriptions'[p] = Upserted(p, t)
      /\ \A q \in Pairs \ {p} : subscriptions'[q] = subscriptions[q]
  BY <1>2, <1>4 DEF TypeOK
<1>6. TypeOK'
  BY <1>2, <1>3, <1>5 DEF TypeOK
<1>7. /\ Upserted(p, t).status = "INCOMPLETE"
      /\ Upserted(p, t).tier = t
  BY DEF Upserted
<1>8. Grows
  BY <1>2, <1>5, <1>7 DEF Grows
<1>9. SubscriptionsInv'
  BY <1>1, <1>2, <1>5, <1>7 DEF PurchaseInv, SubscriptionsInv
<1>10. \A g \in Handlers \ {h} : Still(g)
  BY <1>3 DEF Still
<1>11. AuditedOrLost'
  BY <1>2, <1>5, <1>7, <1>10, AuditsStay
<1>12. RequestInv(h)'
  BY <1>3 DEF RequestInv
<1>13. PurchaseInv'
  BY <1>2, <1>3, <1>8, <1>9, <1>10, <1>11, <1>12, QuietStep
<1>14. QED
  BY <1>6, <1>13

LEMMA ActivateStep ==
    ASSUME TypeOK, PurchaseInv, NEW f \in Fans, NEW c \in Creators, Activate(f, c)
    PROVE  TypeOK' /\ PurchaseInv'
<1>1. PICK p \in Pairs : p = <<f, c>>
  BY DEF Pairs
<1>2. PICK s \in Subscription : s = subscriptions[p]
  BY DEF TypeOK
<1>3. s.status # "NONE" /\ s.tier \in Tiers /\ TierCreator[s.tier] = p[2]
  BY <1>1, <1>2 DEF Activate, PurchaseInv, SubscriptionsInv
<1>4. PICK n \in Subscription : n = [s EXCEPT !.status = "ACTIVE", !.ref = TRUE]
  BY DEF Subscription
<1>5. /\ n.status = "ACTIVE" /\ n.tier = s.tier
  BY <1>4 DEF Subscription
<1>6. subscriptions' = [subscriptions EXCEPT ![p] = n]
  BY <1>1, <1>2, <1>4 DEF Activate, TypeOK, Subscription
<1>7. /\ subscriptions' \in [Pairs -> Subscription]
      /\ subscriptions'[p] = n
      /\ \A q \in Pairs \ {p} : subscriptions'[q] = subscriptions[q]
  BY <1>6 DEF TypeOK
<1>8. activated' = activated \cup {<<p[1], s.tier>>} /\ p[1] \in Fans
  BY <1>1, <1>2 DEF Activate
<1>9. /\ UNCHANGED <<audit, opened, conversations, messages, pc, request>>
      /\ UNCHANGED <<charges, tips, now, lostCharges, lostCancels>>
  BY DEF Activate, messageVars, moneyVars, lostVars
<1>10. TypeOK'
  BY <1>3, <1>7, <1>8, <1>9 DEF TypeOK
<1>11. Grows
  BY <1>5, <1>7, <1>8, <1>9 DEF Grows
<1>12. SubscriptionsInv'
  BY <1>3, <1>5, <1>7, <1>8 DEF PurchaseInv, SubscriptionsInv
<1>13. \A g \in Handlers : Still(g)
  BY <1>9 DEF Still
<1>14. AuditedOrLost'
  BY <1>5, <1>7, <1>9, <1>13, AuditsStay
<1>15. PurchaseInv'
  BY <1>9, <1>11, <1>12, <1>13, <1>14, QuietStep
<1>16. QED
  BY <1>10, <1>15

LEMMA PayUnknownStep ==
    ASSUME TypeOK, PurchaseInv, NEW f \in Fans, NEW t \in Tiers, PayUnknown(f, t)
    PROVE  TypeOK' /\ PurchaseInv'
<1>1. /\ activated' = activated \cup {<<f, t>>}
      /\ UNCHANGED <<subscriptions, audit, opened, conversations, messages, pc, request>>
      /\ UNCHANGED <<charges, tips, now, lostCharges, lostCancels>>
  BY DEF PayUnknown, messageVars, moneyVars, lostVars
<1>2. TypeOK'
  BY <1>1 DEF TypeOK
<1>3. Grows
  BY <1>1 DEF Grows
<1>4. SubscriptionsInv'
  BY <1>1 DEF PurchaseInv, SubscriptionsInv
<1>5. \A g \in Handlers : Still(g)
  BY <1>1 DEF Still
<1>6. AuditedOrLost'
  BY <1>1, <1>5, AuditsStay
<1>7. PurchaseInv'
  BY <1>1, <1>3, <1>4, <1>5, <1>6, QuietStep
<1>8. QED
  BY <1>2, <1>7

LEMMA CancelRowStep ==
    ASSUME TypeOK, PurchaseInv, NEW h \in Handlers, CancelRow(h)
    PROVE  TypeOK' /\ PurchaseInv'
<1>1. PICK p \in Pairs : p = request[h].pair /\ subscriptions[p].status # "NONE"
  BY DEF CancelRow, Goto, PurchaseInv, RequestInv
<1>2. PICK s \in Subscription : s = subscriptions[p]
  BY DEF TypeOK
<1>3. PICK n \in Subscription : n = [s EXCEPT !.status = "CANCELED"]
  BY DEF Subscription
<1>4. n.status = "CANCELED" /\ n.tier = s.tier
  BY <1>3 DEF Subscription
<1>5. subscriptions' = [subscriptions EXCEPT ![p] = n]
  BY <1>1, <1>2, <1>3 DEF CancelRow, TypeOK
<1>6. /\ subscriptions' \in [Pairs -> Subscription]
      /\ subscriptions'[p] = n
      /\ \A q \in Pairs \ {p} : subscriptions'[q] = subscriptions[q]
  BY <1>5 DEF TypeOK
<1>7. /\ UNCHANGED <<audit, activated, opened, conversations, messages, request>>
      /\ UNCHANGED <<charges, tips, now, lostCharges, lostCancels>>
  BY DEF CancelRow, messageVars, moneyVars, lostVars
<1>8. /\ pc[h] = "cancelRow" /\ pc'[h] = "audit"
      /\ \A g \in Handlers \ {h} : pc'[g] = pc[g]
      /\ pc' \in [Handlers -> PCs]
  BY GotoSets DEF CancelRow, PCs
<1>9. TypeOK'
  BY <1>6, <1>7, <1>8 DEF TypeOK
<1>10. Grows
  BY <1>4, <1>6, <1>7 DEF Grows
<1>11. SubscriptionsInv'
  BY <1>1, <1>2, <1>4, <1>6, <1>7 DEF PurchaseInv, SubscriptionsInv
<1>12. \A g \in Handlers \ {h} : Still(g)
  BY <1>7, <1>8 DEF Still
<1>13. AuditedOrLost'
  BY <1>1, <1>6, <1>7, <1>8 DEF PurchaseInv, AuditedOrLost
<1>14. RequestInv(h)'
  BY <1>1, <1>7, <1>8 DEF RequestInv
<1>15. PurchaseInv'
  BY <1>7, <1>8, <1>10, <1>11, <1>12, <1>13, <1>14, QuietStep
<1>16. QED
  BY <1>9, <1>15

(* A request moves on and nothing is written: what it has behind it then,  *)
(* and that it held no charge and had nothing to audit.                    *)
LEMMA LookupStep ==
    ASSUME TypeOK, PurchaseInv, NEW h \in Handlers,
           UNCHANGED <<accountVars, messageVars, moneyVars, now, lostVars>>,
           pc' \in [Handlers -> PCs], request' \in [Handlers -> Request],
           \A g \in Handlers \ {h} : Still(g),
           pc[h] \notin {"setUnlock", "tip", "audit"}, pc'[h] # "ppv", RequestInv(h)'
    PROVE  TypeOK' /\ PurchaseInv'
<1>1. /\ UNCHANGED <<subscriptions, audit, activated, opened, conversations, messages>>
      /\ UNCHANGED <<charges, tips, now, lostCharges, lostCancels>>
  BY DEF accountVars, messageVars, moneyVars, lostVars
<1>2. TypeOK'
  BY <1>1 DEF TypeOK
<1>3. Grows
  BY <1>1 DEF Grows
<1>4. SubscriptionsInv' /\ AuditedOrLost'
  BY <1>1, SubscriptionsStay, AuditsStay
<1>5. PurchaseInv'
  BY <1>1, <1>3, <1>4, QuietStep
<1>6. QED
  BY <1>2, <1>5

LEMMA CancelLookupStep ==
    ASSUME TypeOK, PurchaseInv, NEW h \in Handlers, NEW f \in Fans, NEW c \in Creators,
           CancelLookup(h, f, c)
    PROVE  TypeOK' /\ PurchaseInv'
<1>1. PICK p \in Pairs : p = <<f, c>>
  BY DEF Pairs
<1>2. PICK to \in {"cancelRemote", "cancelRow"} : Goto(h, "idle", to)
  BY DEF CancelLookup
<1>3. /\ pc[h] = "idle" /\ pc'[h] = to
      /\ \A g \in Handlers \ {h} : pc'[g] = pc[g]
      /\ pc' \in [Handlers -> PCs]
  BY <1>2, GotoSets DEF PCs
<1>4. Hold(h, p, 0, 0, 0)
  BY <1>1 DEF CancelLookup
<1>5. /\ request'[h].pair = p
      /\ \A g \in Handlers \ {h} : request'[g] = request[g]
      /\ request' \in [Handlers -> Request]
  BY <1>4, HoldPairSets
<1>6. UNCHANGED <<accountVars, messageVars, moneyVars, now, lostVars>>
  BY DEF CancelLookup
<1>7. subscriptions'[p].status # "NONE"
  BY <1>1, <1>6 DEF CancelLookup, accountVars
<1>8. RequestInv(h)'
  BY <1>2, <1>3, <1>5, <1>7 DEF RequestInv
<1>9. \A g \in Handlers \ {h} : Still(g)
  BY <1>3, <1>5 DEF Still
<1>10. QED
  BY <1>2, <1>3, <1>5, <1>6, <1>8, <1>9, LookupStep

LEMMA CancelRemoteStep ==
    ASSUME TypeOK, PurchaseInv, NEW h \in Handlers, CancelRemote(h)
    PROVE  TypeOK' /\ PurchaseInv'
<1>1. /\ pc[h] = "cancelRemote" /\ pc'[h] = "cancelRow"
      /\ \A g \in Handlers \ {h} : pc'[g] = pc[g]
      /\ pc' \in [Handlers -> PCs]
  BY GotoSets DEF CancelRemote, PCs
<1>2. UNCHANGED <<accountVars, messageVars, moneyVars, now, lostVars, request>>
  BY DEF CancelRemote
<1>3. RequestInv(h)'
  BY <1>1, <1>2 DEF PurchaseInv, RequestInv, accountVars
<1>4. \A g \in Handlers \ {h} : Still(g)
  BY <1>1, <1>2 DEF Still
<1>5. request' \in [Handlers -> Request]
  BY <1>2 DEF TypeOK
<1>6. QED
  BY <1>1, <1>2, <1>3, <1>4, <1>5, LookupStep

LEMMA AuditStep ==
    ASSUME TypeOK, PurchaseInv, NEW h \in Handlers, AuditCancel(h)
    PROVE  TypeOK' /\ PurchaseInv'
<1>1. PICK p \in Pairs : p = request[h].pair
  BY DEF AuditCancel, PurchaseInv, RequestInv
<1>2. /\ pc'[h] = "idle"
      /\ \A g \in Handlers \ {h} : pc'[g] = pc[g] /\ request'[g] = request[g]
      /\ pc' \in [Handlers -> PCs]
      /\ request' \in [Handlers -> Request]
  BY FinishSets DEF AuditCancel
<1>3. /\ pc[h] = "audit"
      /\ audit' = audit \cup {p}
      /\ UNCHANGED <<subscriptions, activated, opened, conversations, messages>>
      /\ UNCHANGED <<charges, tips, now, lostCharges, lostCancels>>
  BY <1>1 DEF AuditCancel, messageVars, moneyVars, lostVars
<1>4. TypeOK'
  BY <1>2, <1>3 DEF TypeOK
<1>5. Grows
  BY <1>3 DEF Grows
<1>6. \A g \in Handlers \ {h} : Still(g)
  BY <1>2 DEF Still
<1>7. SubscriptionsInv' /\ AuditedOrLost'
  BY <1>1, <1>3, <1>6, SubscriptionsStay, AuditsStay
<1>8. RequestInv(h)'
  BY <1>2 DEF RequestInv
<1>9. PurchaseInv'
  BY <1>2, <1>3, <1>5, <1>6, <1>7, <1>8, QuietStep
<1>10. QED
  BY <1>4, <1>9

-----------------------------------------------------------------------------
(* Messages *)

LEMMA SendLookupStep ==
    ASSUME TypeOK, PurchaseInv, NEW h \in Handlers, NEW f \in Fans, NEW c \in Creators,
           NEW price \in Prices \cup {0}, SendLookup(h, f, c, price)
    PROVE  TypeOK' /\ PurchaseInv'
<1>1. PICK p \in Pairs : p = <<f, c>>
  BY DEF Pairs
<1>2. /\ pc[h] = "idle" /\ pc'[h] = "conversation"
      /\ \A g \in Handlers \ {h} : pc'[g] = pc[g]
      /\ pc' \in [Handlers -> PCs]
  BY GotoSets DEF SendLookup, PCs
<1>3. Hold(h, p, 0, price, 0)
  BY <1>1 DEF SendLookup
<1>4. /\ request'[h].pair = p
      /\ \A g \in Handlers \ {h} : request'[g] = request[g]
      /\ request' \in [Handlers -> Request]
  BY <1>3, HoldPairSets
<1>5. UNCHANGED <<accountVars, messageVars, moneyVars, now, lostVars>>
  BY DEF SendLookup
<1>6. Paid(p)'
  <2>1. subscriptions[p].status = "ACTIVE"
    BY <1>1 DEF SendLookup
  <2>2. PICK t \in Tiers : TierCreator[t] = p[2] /\ <<p[1], t>> \in activated
    BY <2>1 DEF PurchaseInv, SubscriptionsInv
  <2>3. QED
    BY <1>5, <2>2 DEF Paid, accountVars
<1>7. RequestInv(h)'
  BY <1>2, <1>4, <1>6 DEF RequestInv
<1>8. \A g \in Handlers \ {h} : Still(g)
  BY <1>2, <1>4 DEF Still
<1>9. QED
  BY <1>2, <1>4, <1>5, <1>7, <1>8, LookupStep

LEMMA ConversationStep ==
    ASSUME TypeOK, PurchaseInv, NEW h \in Handlers, UpsertConversation(h)
    PROVE  TypeOK' /\ PurchaseInv'
<1>1. /\ pc[h] = "conversation" /\ pc'[h] = "message"
      /\ \A g \in Handlers \ {h} : pc'[g] = pc[g]
      /\ pc' \in [Handlers -> PCs]
  BY GotoSets DEF UpsertConversation, PCs
<1>2. PICK p \in Pairs : p = request[h].pair /\ Paid(p)
  BY <1>1 DEF PurchaseInv, RequestInv
<1>3. /\ conversations' = conversations \cup {p}
      /\ UNCHANGED <<subscriptions, audit, activated, opened, messages, request>>
      /\ UNCHANGED <<charges, tips, now, lostCharges, lostCancels>>
  BY <1>2 DEF UpsertConversation, accountVars, moneyVars, lostVars
<1>4. TypeOK'
  BY <1>1, <1>3 DEF TypeOK
<1>5. Grows
  BY <1>3 DEF Grows
<1>6. RequestInv(h)'
  BY <1>1, <1>2, <1>3 DEF RequestInv, Paid
<1>7. \A g \in Handlers \ {h} : Still(g)
  BY <1>1, <1>3 DEF Still
<1>8. SubscriptionsInv' /\ AuditedOrLost'
  BY <1>1, <1>3, <1>7, SubscriptionsStay, AuditsStay
<1>9. PurchaseInv'
  BY <1>1, <1>3, <1>5, <1>6, <1>7, <1>8, QuietStep
<1>10. QED
  BY <1>4, <1>9

-----------------------------------------------------------------------------
(* Refusals, the clock and failures *)

LEMMA RefusedStep ==
    ASSUME TypeOK, PurchaseInv, NEW h \in Handlers, ChargeRefused(h)
    PROVE  TypeOK' /\ PurchaseInv'
<1>1. /\ pc[h] = "charge"
      /\ UNCHANGED <<accountVars, messageVars, moneyVars, now, lostVars>>
  BY DEF ChargeRefused
<1>2. /\ pc'[h] = "idle"
      /\ \A g \in Handlers \ {h} : pc'[g] = pc[g] /\ request'[g] = request[g]
      /\ pc' \in [Handlers -> PCs]
      /\ request' \in [Handlers -> Request]
  BY FinishSets DEF ChargeRefused
<1>3. RequestInv(h)' /\ \A g \in Handlers \ {h} : Still(g)
  BY <1>2 DEF RequestInv, Still
<1>4. QED
  BY <1>1, <1>2, <1>3, LookupStep

LEMMA TickStep ==
    ASSUME TypeOK, PurchaseInv, Tick
    PROVE  TypeOK' /\ PurchaseInv'
<1>1. /\ UNCHANGED <<subscriptions, audit, activated, opened, conversations, messages>>
      /\ UNCHANGED <<charges, tips, pc, request, lostCharges, lostCancels>>
      /\ now' = now + 1 /\ now < MaxTime
  BY DEF Tick, accountVars, messageVars, moneyVars, lostVars
<1>2. now' \in 0 .. MaxTime
  BY <1>1, PurchasesAssumption DEF TypeOK
<1>3. TypeOK'
  BY <1>1, <1>2 DEF TypeOK
<1>4. Grows /\ \A g \in Handlers : Still(g)
  BY <1>1 DEF Grows, Still
<1>5. SubscriptionsInv' /\ AuditedOrLost'
  BY <1>1, <1>4, SubscriptionsStay, AuditsStay
<1>6. QED
  BY <1>1, <1>3, <1>4, <1>5, QuietStep

LEMMA FailStep ==
    ASSUME TypeOK, PurchaseInv, NEW h \in Handlers, Fail(h)
    PROVE  TypeOK' /\ PurchaseInv'
<1>1. PICK r \in Request : r = request[h]
  BY DEF TypeOK
<1>2. r.pair \in Pairs /\ r.charge \in {0} \cup ChargeIds
  BY <1>1 DEF Fail, PurchaseInv, RequestInv, Request
<1>3. /\ UNCHANGED <<subscriptions, audit, activated, opened, conversations, messages>>
      /\ UNCHANGED <<charges, tips, now>>
      /\ lostCharges' = lostCharges \cup ({r.charge} \ {0})
      /\ lostCancels' = IF pc[h] = "audit" THEN lostCancels \cup {r.pair} ELSE lostCancels
  BY <1>1 DEF Fail, accountVars, messageVars, moneyVars
<1>4. /\ pc'[h] = "idle"
      /\ \A g \in Handlers \ {h} : pc'[g] = pc[g] /\ request'[g] = request[g]
      /\ pc' \in [Handlers -> PCs]
      /\ request' \in [Handlers -> Request]
  BY FinishSets DEF Fail
<1>5. TypeOK'
  <2>1. lostCharges' \subseteq ChargeIds /\ lostCancels' \subseteq Pairs
    BY <1>2, <1>3 DEF TypeOK
  <2>2. QED
    BY <1>3, <1>4, <2>1 DEF TypeOK
<1>6. Grows /\ \A g \in Handlers \ {h} : Still(g)
  BY <1>3, <1>4 DEF Grows, Still
<1>7. pc[h] \in {"setUnlock", "tip"} => r.charge \in lostCharges'
  <2>1. pc[h] \in {"setUnlock", "tip"} => r.charge \in DOMAIN charges
    BY <1>1 DEF PurchaseInv, RequestInv, IsCharge
  <2>2. 0 \notin DOMAIN charges
    BY DEF TypeOK
  <2>3. QED
    BY <1>3, <2>1, <2>2
<1>8. SubscriptionsInv' /\ AuditedOrLost'
  BY <1>1, <1>3, <1>6, SubscriptionsStay, AuditsStay
<1>9. RequestInv(h)'
  BY <1>4 DEF RequestInv
<1>10. PurchaseInv'
  BY <1>1, <1>3, <1>4, <1>6, <1>7, <1>8, <1>9, QuietStep
<1>11. QED
  BY <1>5, <1>10

-----------------------------------------------------------------------------
(* What is written to messages *)

LEMMA MessageStep ==
    ASSUME TypeOK, PurchaseInv, Grows, NEW h \in Handlers,
           UNCHANGED <<subscriptions, audit, activated, opened, charges, tips, lostCharges, lostCancels>>,
           \A g \in Handlers \ {h} :
               /\ Still(g)
               /\ pc[g] = "ppv" =>
                     messages'[request[g].message] = messages[request[g].message],
           pc[h] \notin {"audit", "tip"},
           \A i \in DOMAIN charges :
               pc[h] = "setUnlock" /\ request[h].charge = i => Delivered(i)',
           RequestInv(h)', PpvAlone', UnpricedIsLocked', MessagesPaid', UnlocksArePaid'
    PROVE  PurchaseInv'
<1>1. \A g \in Handlers : RequestInv(g)'
  <2> SUFFICES ASSUME NEW g \in Handlers, g # h PROVE RequestInv(g)'
    OBVIOUS
  <2>1. RequestInv(g)
    BY DEF PurchaseInv
  <2>2. QED
    BY <2>1, RequestStays
<1>2. SubscriptionsInv' /\ AuditedOrLost'
  BY SubscriptionsStay, AuditsStay
<1>3. SecondChargeNeedsLoss' /\ OneFeeSchedule' /\ TipsArePaid'
  BY ChargesStay, TipsStay
<1>4. ChargesInv'
  <2> SUFFICES ASSUME NEW i \in DOMAIN charges
               PROVE  /\ charges[i].kind = "PPV_PURCHASE" =>
                            charges[i].message \in DOMAIN messages'
                      /\ Accounted(i)'
    BY DEF ChargesInv
  <2>1. ChargesInv
    BY DEF PurchaseInv
  <2>2. \A g \in Handlers : Holds(g, i) => Still(g) \/ Delivered(i)'
    BY DEF Holds
  <2>3. Accounted(i)'
    BY <2>1, <2>2, AccountedStays
  <2>4. QED
    BY <2>1, <2>3 DEF ChargesInv, Grows
<1>5. QED
  BY <1>1, <1>2, <1>3, <1>4 DEF PurchaseInv

LEMMA CreateMessageStep ==
    ASSUME TypeOK, PurchaseInv, NEW h \in Handlers, CreateMessage(h)
    PROVE  TypeOK' /\ PurchaseInv'
<1>1. PICK p \in Pairs, price \in {0} \cup Prices :
         p = request[h].pair /\ price = request[h].price /\ Paid(p)
  <2>1. request[h] \in Request
    BY DEF TypeOK
  <2>2. QED
    BY <2>1 DEF CreateMessage, PurchaseInv, RequestInv, Request
<1>2. PICK n \in MessageIds : n = Len(messages) + 1
  BY PurchasesAssumption DEF CreateMessage, TypeOK, MessageIds
<1>3. PICK row \in Message : row = [pair |-> p, price |-> 0, unlock |-> 0]
  BY DEF Message
<1>4. /\ pc[h] = "message"
      /\ messages' = Append(messages, row)
      /\ UNCHANGED <<subscriptions, audit, activated, opened, conversations>>
      /\ UNCHANGED <<charges, tips, now, lostCharges, lostCancels>>
  BY <1>1, <1>3 DEF CreateMessage, accountVars, moneyVars, lostVars
<1>5. /\ messages' \in Seq(Message) /\ Len(messages') = n /\ n <= MaxMessages
      /\ n \in DOMAIN messages' /\ n \notin DOMAIN messages
      /\ messages'[n] = row
      /\ \A m \in DOMAIN messages : m \in DOMAIN messages' /\ messages'[m] = messages[m]
      /\ \A m \in DOMAIN messages' : m \in DOMAIN messages \/ m = n
  BY <1>2, <1>4, PurchasesAssumption DEF TypeOK, CreateMessage
<1>6. row.pair = p /\ row.price = 0 /\ row.unlock = 0
  BY <1>3
<1>7. /\ pc' \in [Handlers -> PCs]
      /\ request' \in [Handlers -> Request]
      /\ \A g \in Handlers \ {h} : pc'[g] = pc[g] /\ request'[g] = request[g]
      /\ \/ pc'[h] = "idle"
         \/ pc'[h] = "ppv" /\ request'[h].pair = p /\ request'[h].message = n
  <2>1. CASE price = 0
    <3>1. Finish(h)
      BY <1>1, <2>1 DEF CreateMessage
    <3>2. /\ pc'[h] = "idle"
          /\ \A g \in Handlers \ {h} : pc'[g] = pc[g] /\ request'[g] = request[g]
          /\ pc' \in [Handlers -> PCs]
          /\ request' \in [Handlers -> Request]
      BY <3>1, FinishSets
    <3>3. QED
      BY <3>2
  <2>2. CASE price # 0
    <3>1. Goto(h, "message", "ppv") /\ Hold(h, p, n, price, 0)
      BY <1>1, <1>2, <2>2 DEF CreateMessage
    <3>2. PICK i \in {0} \cup ChargeIds : i = 0
      OBVIOUS
    <3>3. /\ request'[h] = [pair |-> p, tier |-> NoTier, message |-> n,
                            price |-> price, charge |-> i]
          /\ \A g \in Handlers \ {h} : request'[g] = request[g]
          /\ request' \in [Handlers -> Request]
      BY <3>1, <3>2, HoldSets
    <3>4. /\ pc'[h] = "ppv"
          /\ \A g \in Handlers \ {h} : pc'[g] = pc[g]
          /\ pc' \in [Handlers -> PCs]
      BY <3>1, GotoSets DEF PCs
    <3>5. QED
      BY <3>3, <3>4
  <2>3. QED
    BY <2>1, <2>2
<1>8. TypeOK'
  BY <1>4, <1>5, <1>7 DEF TypeOK
<1>9. Grows
  BY <1>4, <1>5 DEF Grows
<1>10. RequestInv(h)'
  <2>1. Paid(p)'
    BY <1>1, <1>9, PaidStays
  <2>2. QED
    BY <1>5, <1>6, <1>7, <2>1 DEF RequestInv
<1>11. \A g \in Handlers \ {h} :
          /\ Still(g)
          /\ pc[g] = "ppv" =>
                /\ request[g].message \in DOMAIN messages
                /\ messages'[request[g].message] = messages[request[g].message]
  BY <1>5, <1>7 DEF Still, PurchaseInv, RequestInv
<1>12. PpvAlone'
  BY <1>5, <1>7, <1>11 DEF PurchaseInv, PpvAlone
<1>13. UnpricedIsLocked'
  BY <1>5, <1>6 DEF PurchaseInv, UnpricedIsLocked
<1>14. MessagesPaid'
  <2> SUFFICES ASSUME NEW m \in DOMAIN messages'
               PROVE  \E t \in Tiers : /\ TierCreator[t] = messages'[m].pair[2]
                                       /\ <<messages'[m].pair[1], t>> \in activated'
    BY DEF MessagesPaid, Paid
  <2>1. PICK q : q = messages'[m].pair
    OBVIOUS
  <2>2. Paid(q)
    BY <1>1, <1>5, <1>6, <2>1 DEF PurchaseInv, MessagesPaid
  <2>3. QED
    BY <1>4, <2>1, <2>2 DEF Paid
<1>15. UnlocksArePaid'
  BY <1>4, <1>5, <1>6 DEF PurchaseInv, UnlocksArePaid
<1>16. PurchaseInv'
  BY <1>4, <1>9, <1>10, <1>11, <1>12, <1>13, <1>14, <1>15, MessageStep
<1>17. QED
  BY <1>8, <1>16

LEMMA CreatePpvStep ==
    ASSUME TypeOK, PurchaseInv, NEW h \in Handlers, CreatePpv(h)
    PROVE  TypeOK' /\ PurchaseInv'
<1>1. PICK m \in DOMAIN messages :
         /\ m = request[h].message
         /\ messages[m].price = 0 /\ messages[m].unlock = 0
  BY DEF CreatePpv, PurchaseInv, RequestInv
<1>2. PICK price \in {0} \cup Prices : price = request[h].price
  <2>1. request[h] \in Request
    BY DEF TypeOK
  <2>2. QED
    BY <2>1 DEF Request
<1>3. PICK row \in Message : row = messages[m]
  BY DEF TypeOK
<1>4. PICK new \in Message : new = [row EXCEPT !.price = price]
  BY DEF Message
<1>5. new.pair = row.pair /\ new.unlock = 0
  BY <1>1, <1>3, <1>4 DEF Message
<1>6. /\ pc[h] = "ppv"
      /\ messages' = [messages EXCEPT ![m] = new]
      /\ UNCHANGED <<subscriptions, audit, activated, opened, conversations>>
      /\ UNCHANGED <<charges, tips, now, lostCharges, lostCancels>>
  BY <1>1, <1>2, <1>3, <1>4 DEF CreatePpv, accountVars, moneyVars, lostVars
<1>7. /\ messages' \in Seq(Message) /\ Len(messages') = Len(messages)
      /\ DOMAIN messages' = DOMAIN messages
      /\ messages'[m] = new
      /\ \A k \in DOMAIN messages \ {m} : messages'[k] = messages[k]
  BY <1>6 DEF TypeOK
<1>8. /\ pc'[h] = "idle"
      /\ \A g \in Handlers \ {h} : pc'[g] = pc[g] /\ request'[g] = request[g]
      /\ pc' \in [Handlers -> PCs]
      /\ request' \in [Handlers -> Request]
  BY FinishSets DEF CreatePpv
<1>9. TypeOK'
  BY <1>6, <1>7, <1>8 DEF TypeOK
<1>10. Grows
  BY <1>1, <1>3, <1>5, <1>6, <1>7 DEF Grows
<1>11. \A g \in Handlers \ {h} :
          /\ Still(g)
          /\ pc[g] = "ppv" =>
                messages'[request[g].message] = messages[request[g].message]
  <2> SUFFICES ASSUME NEW g \in Handlers \ {h}, pc[g] = "ppv"
               PROVE  messages'[request[g].message] = messages[request[g].message]
    BY <1>8 DEF Still
  <2>1. request[g].message # m
    BY <1>1, <1>6 DEF PurchaseInv, PpvAlone
  <2>2. request[g].message \in DOMAIN messages
    BY DEF PurchaseInv, RequestInv
  <2>3. QED
    BY <1>7, <2>1, <2>2
<1>12. PpvAlone'
  BY <1>8 DEF PurchaseInv, PpvAlone
<1>13. UnpricedIsLocked'
  BY <1>5, <1>7 DEF PurchaseInv, UnpricedIsLocked
<1>14. MessagesPaid'
  BY <1>7, <1>10, MessagesPaidStay DEF PurchaseInv
<1>15. UnlocksArePaid'
  BY <1>5, <1>6, <1>7 DEF PurchaseInv, UnlocksArePaid
<1>16. RequestInv(h)'
  BY <1>8 DEF RequestInv
<1>17. PurchaseInv'
  BY <1>6, <1>10, <1>11, <1>12, <1>13, <1>14, <1>15, <1>16, MessageStep
<1>18. QED
  BY <1>9, <1>17

LEMMA SetUnlockStep ==
    ASSUME TypeOK, PurchaseInv, NEW h \in Handlers, SetUnlock(h)
    PROVE  TypeOK' /\ PurchaseInv'
<1>1. PICK r \in Request : r = request[h]
  BY DEF TypeOK
<1>2. PICK m \in DOMAIN messages :
         /\ m = r.message
         /\ messages[m].price = r.price /\ r.price # 0
         /\ messages[m].pair = r.pair
  BY <1>1 DEF SetUnlock, PurchaseInv, RequestInv
<1>3. PICK i \in DOMAIN charges : i = r.charge /\ IsCharge(i, "PPV_PURCHASE", r)
  BY <1>1 DEF SetUnlock, PurchaseInv, RequestInv, IsCharge
<1>4. i \in ChargeIds /\ i # 0
  BY PurchasesAssumption DEF TypeOK, ChargeIds
<1>5. PICK row \in Message : row = messages[m]
  BY DEF TypeOK
<1>6. PICK new \in Message : new = [row EXCEPT !.unlock = i]
  BY <1>4 DEF Message
<1>7. new.pair = row.pair /\ new.price = row.price /\ new.unlock = i
  BY <1>6 DEF Message
<1>8. /\ pc[h] = "setUnlock"
      /\ messages' = [messages EXCEPT ![m] = new]
      /\ UNCHANGED <<subscriptions, audit, activated, opened, conversations>>
      /\ UNCHANGED <<charges, tips, now, lostCharges, lostCancels>>
  BY <1>1, <1>2, <1>3, <1>5, <1>6 DEF SetUnlock, accountVars, moneyVars, lostVars
<1>9. /\ messages' \in Seq(Message) /\ Len(messages') = Len(messages)
      /\ DOMAIN messages' = DOMAIN messages
      /\ messages'[m] = new
      /\ \A k \in DOMAIN messages \ {m} : messages'[k] = messages[k]
  BY <1>8 DEF TypeOK
<1>10. /\ pc'[h] = "idle"
       /\ \A g \in Handlers \ {h} : pc'[g] = pc[g] /\ request'[g] = request[g]
       /\ pc' \in [Handlers -> PCs]
       /\ request' \in [Handlers -> Request]
  BY FinishSets DEF SetUnlock
<1>11. TypeOK'
  BY <1>8, <1>9, <1>10 DEF TypeOK
<1>12. Grows
  BY <1>4, <1>5, <1>7, <1>8, <1>9 DEF Grows
<1>13. \A g \in Handlers \ {h} :
          /\ Still(g)
          /\ pc[g] = "ppv" =>
                messages'[request[g].message] = messages[request[g].message]
  <2> SUFFICES ASSUME NEW g \in Handlers \ {h}, pc[g] = "ppv"
               PROVE  messages'[request[g].message] = messages[request[g].message]
    BY <1>10 DEF Still
  <2>1. /\ request[g].message \in DOMAIN messages
        /\ messages[request[g].message].price = 0
    BY DEF PurchaseInv, RequestInv
  <2>2. QED
    BY <1>2, <1>9, <2>1
<1>14. PpvAlone'
  BY <1>10 DEF PurchaseInv, PpvAlone
<1>15. UnpricedIsLocked'
  BY <1>2, <1>5, <1>7, <1>9 DEF PurchaseInv, UnpricedIsLocked
<1>16. MessagesPaid'
  BY <1>9, <1>12, MessagesPaidStay DEF PurchaseInv
<1>17. UnlocksArePaid'
  <2>1. /\ charges[i].kind = "PPV_PURCHASE" /\ charges[i].message = m
        /\ charges[i].pair = new.pair /\ charges[i].gross = new.price
    BY <1>2, <1>3, <1>5, <1>7 DEF IsCharge
  <2>2. QED
    BY <1>7, <1>8, <1>9, <2>1 DEF PurchaseInv, UnlocksArePaid
<1>18. Delivered(i)'
  BY <1>3, <1>2, <1>4, <1>7, <1>8, <1>9 DEF Delivered, IsCharge
<1>19. RequestInv(h)'
  BY <1>10 DEF RequestInv
<1>20. PurchaseInv'
  <2>1. \A j \in DOMAIN charges : request[h].charge = j => Delivered(j)'
    BY <1>1, <1>3, <1>18
  <2>2. QED
    BY <1>8, <1>12, <1>13, <1>14, <1>15, <1>16, <1>17, <1>19, <2>1, MessageStep
<1>21. QED
  BY <1>11, <1>20

-----------------------------------------------------------------------------
(* Charges *)

(* One handler opens an unlock only when what it charged for the message   *)
(* before is lost: otherwise the message is unlocked.                      *)
LEMMA UnlockLookupStep ==
    ASSUME TypeOK, PurchaseInv, NEW h \in Handlers, NEW f \in Fans,
           NEW m \in DOMAIN messages, UnlockLookup(h, f, m)
    PROVE  TypeOK' /\ PurchaseInv'
<1>1. /\ messages[m] \in Message
      /\ messages[m].price # 0 /\ messages[m].unlock = 0
  BY DEF TypeOK, UnlockLookup
<1>2. PICK p \in Pairs, price \in Prices : p = messages[m].pair /\ price = messages[m].price
  BY <1>1 DEF Message
<1>3. m \in MessageIds
  BY PurchasesAssumption DEF TypeOK, MessageIds
<1>4. /\ pc[h] = "idle" /\ pc'[h] = "charge"
      /\ \A g \in Handlers \ {h} : pc'[g] = pc[g]
      /\ pc' \in [Handlers -> PCs]
  BY GotoSets DEF UnlockLookup, PCs
<1>5. PICK i \in {0} \cup ChargeIds : i = 0
  OBVIOUS
<1>6. Hold(h, p, m, price, i)
  BY <1>2, <1>5 DEF UnlockLookup
<1>7. /\ request'[h] = [pair |-> p, tier |-> NoTier, message |-> m,
                        price |-> price, charge |-> i]
      /\ \A g \in Handlers \ {h} : request'[g] = request[g]
      /\ request' \in [Handlers -> Request]
  BY <1>3, <1>6, HoldSets
<1>8. UNCHANGED <<accountVars, messageVars, moneyVars, now, lostVars>>
  BY DEF UnlockLookup
<1>9. ASSUME NEW j \in DOMAIN charges, Unlocks(j, m), charges[j].by = h
      PROVE  j \in lostCharges
  <2>1. ~Delivered(j)
    BY <1>1, <1>9 DEF Unlocks, Delivered, PurchaseInv, TipsArePaid
  <2>2. Accounted(j)
    BY DEF PurchaseInv, ChargesInv
  <2>3. QED
    BY <1>4, <1>9, <2>1, <2>2 DEF Accounted
<1>10. RequestInv(h)'
  BY <1>1, <1>2, <1>4, <1>7, <1>8, <1>9
     DEF RequestInv, Unlocks, messageVars, moneyVars, lostVars
<1>11. \A g \in Handlers \ {h} : Still(g)
  BY <1>4, <1>7 DEF Still
<1>12. QED
  BY <1>4, <1>7, <1>8, <1>10, <1>11, LookupStep

LEMMA InsertSets ==
    ASSUME TypeOK, NEW h \in Handlers, NEW kind \in {"PPV_PURCHASE", "TIP"},
           NEW p \in Pairs, NEW m \in {0} \cup MessageIds, NEW cents \in Prices,
           Insert(h, kind, p, m, cents)
    PROVE  /\ charges' \in Seq(Charge) /\ Len(charges') <= MaxCharges
           /\ Len(charges) + 1 \in ChargeIds
           /\ Len(charges) + 1 \notin DOMAIN charges
           /\ DOMAIN charges' = DOMAIN charges \cup {Len(charges) + 1}
           /\ charges'[Len(charges) + 1] = NewCharge(h, kind, p, m, cents)
           /\ \A i \in DOMAIN charges : charges'[i] = charges[i]
<1>1. PICK c \in Charge : c = NewCharge(h, kind, p, m, cents)
  BY NewChargeIsCharge
<1>2. charges' = Append(charges, c) /\ Len(charges) < MaxCharges
  BY <1>1 DEF Insert
<1>3. QED
  BY <1>1, <1>2, PurchasesAssumption DEF TypeOK, ChargeIds

LEMMA InsertStep ==
    ASSUME TypeOK, PurchaseInv, NEW h \in Handlers, NEW kind \in {"PPV_PURCHASE", "TIP"},
           NEW p \in Pairs, NEW m \in {0} \cup MessageIds, NEW cents \in Prices,
           Insert(h, kind, p, m, cents),
           UNCHANGED <<accountVars, messageVars, tips, now, lostVars>>,
           pc' \in [Handlers -> PCs], request' \in [Handlers -> Request],
           \A g \in Handlers \ {h} : Still(g),
           pc[h] \in {"idle", "charge"}, pc'[h] \in {"setUnlock", "tip"},
           request'[h].charge = Len(charges) + 1,
           kind = "PPV_PURCHASE" => pc[h] = "charge" /\ request[h].message = m,
           RequestInv(h)'
    PROVE  TypeOK' /\ PurchaseInv'
<1>1. /\ UNCHANGED <<subscriptions, audit, activated, opened, conversations, messages>>
      /\ UNCHANGED <<tips, now, lostCharges, lostCancels>>
  BY DEF accountVars, messageVars, lostVars
<1>2. PICK n \in ChargeIds : n = Len(charges) + 1
  BY InsertSets
<1>3. /\ charges' \in Seq(Charge) /\ Len(charges') <= MaxCharges
      /\ n \notin DOMAIN charges
      /\ DOMAIN charges' = DOMAIN charges \cup {n}
      /\ charges'[n] = NewCharge(h, kind, p, m, cents)
      /\ \A i \in DOMAIN charges : charges'[i] = charges[i] /\ i < n
  <2>1. \A i \in DOMAIN charges : i < n
    BY <1>2 DEF TypeOK
  <2>2. QED
    BY <1>2, <2>1, InsertSets
<1>4. PICK c \in Charge : c = charges'[n]
  BY <1>3, NewChargeIsCharge
<1>5. /\ c.kind = kind /\ c.message = m /\ c.by = h /\ c.gross = cents
      /\ c.fee = MessagingFeeCents(cents) /\ c.net = cents - MessagingFeeCents(cents)
  BY <1>3, <1>4 DEF NewCharge
<1>6. TypeOK'
  BY <1>1, <1>3 DEF TypeOK
<1>7. Grows
  BY <1>1, <1>3 DEF Grows
<1>8. \A g \in Handlers : RequestInv(g)'
  <2> SUFFICES ASSUME NEW g \in Handlers, g # h PROVE RequestInv(g)'
    OBVIOUS
  <2>1. RequestInv(g) /\ Still(g)
    BY DEF PurchaseInv
  <2>2. QED
    BY <1>1, <1>3, <1>4, <1>5, <1>7, <2>1, RequestStays
<1>9. PpvAlone'
  BY DEF PurchaseInv, PpvAlone, Still
<1>10. SubscriptionsInv' /\ AuditedOrLost'
  BY <1>1, SubscriptionsStay, AuditsStay
<1>11. UnpricedIsLocked' /\ MessagesPaid' /\ UnlocksArePaid' /\ TipsArePaid'
  BY <1>1, <1>7, MessagesStay, TipsStay
<1>12. ChargesInv'
  <2> SUFFICES ASSUME NEW i \in DOMAIN charges'
               PROVE  /\ charges'[i].kind = "PPV_PURCHASE" =>
                            charges'[i].message \in DOMAIN messages'
                      /\ Accounted(i)'
    BY DEF ChargesInv
  <2>1. CASE i = n
    <3>1. Accounted(i)'
      BY <1>2, <1>4, <1>5, <2>1 DEF Accounted
    <3>2. kind = "PPV_PURCHASE" => m \in DOMAIN messages
      BY DEF PurchaseInv, RequestInv
    <3>3. QED
      BY <1>1, <1>4, <1>5, <2>1, <3>1, <3>2
  <2>2. CASE i # n
    <3>1. i \in DOMAIN charges /\ ChargesInv
      BY <1>3, <2>2 DEF PurchaseInv
    <3>2. \A g \in Handlers : Holds(g, i) => Still(g)
      BY DEF Holds
    <3>3. Accounted(i)'
      BY <1>7, <3>1, <3>2, AccountedStays
    <3>4. QED
      BY <1>1, <1>3, <3>1, <3>3 DEF ChargesInv
  <2>3. QED
    BY <2>1, <2>2
<1>13. SecondChargeNeedsLoss'
  <2> SUFFICES ASSUME NEW i \in DOMAIN charges', NEW j \in DOMAIN charges', i < j,
                      charges'[i].kind = "PPV_PURCHASE", charges'[j].kind = "PPV_PURCHASE",
                      charges'[i].message = charges'[j].message,
                      charges'[i].by = charges'[j].by
               PROVE  i \in lostCharges'
    BY DEF SecondChargeNeedsLoss
  <2>1. i \in DOMAIN charges /\ charges'[i] = charges[i]
    <3>1. \A k \in DOMAIN charges' : k <= n /\ (k < n => k \in DOMAIN charges)
      BY <1>3 DEF TypeOK, ChargeIds
    <3>2. QED
      BY <1>3, <3>1 DEF TypeOK, ChargeIds
  <2>2. CASE j = n
    <3>1. /\ kind = "PPV_PURCHASE"
          /\ Unlocks(i, request[h].message) /\ charges[i].by = h
      BY <1>4, <1>5, <2>1, <2>2 DEF Unlocks
    <3>2. i \in lostCharges
      BY <2>1, <3>1 DEF PurchaseInv, RequestInv
    <3>3. QED
      BY <1>1, <3>2
  <2>3. CASE j # n
    <3>1. j \in DOMAIN charges /\ charges'[j] = charges[j]
      BY <1>3, <2>3
    <3>2. QED
      BY <1>1, <2>1, <3>1 DEF PurchaseInv, SecondChargeNeedsLoss
  <2>4. QED
    BY <2>2, <2>3
<1>14. OneFeeSchedule'
  <2> SUFFICES ASSUME NEW i \in DOMAIN charges'
               PROVE  /\ charges'[i].fee = PlatformFeeCents(charges'[i].gross, FeeBps)
                      /\ charges'[i].net = NetAfterFeeCents(charges'[i].gross, FeeBps)
    BY DEF OneFeeSchedule
  <2>1. CASE i = n
    <3>1. MessagingFeeCents(cents) = PlatformFeeCents(cents, FeeBps)
      BY FeesAgree, PurchasesAssumption
    <3>2. QED
      BY <1>4, <1>5, <2>1, <3>1 DEF NetAfterFeeCents
  <2>2. CASE i # n
    BY <1>3, <2>2 DEF PurchaseInv, OneFeeSchedule
  <2>3. QED
    BY <2>1, <2>2
<1>15. QED
  BY <1>6, <1>8, <1>9, <1>10, <1>11, <1>12, <1>13, <1>14 DEF PurchaseInv

LEMMA ChargeUnlockStep ==
    ASSUME TypeOK, PurchaseInv, NEW h \in Handlers, ChargeUnlock(h)
    PROVE  TypeOK' /\ PurchaseInv'
<1>1. PICK r \in Request : r = request[h]
  BY DEF TypeOK
<1>2. /\ pc[h] = "charge" /\ pc'[h] = "setUnlock"
      /\ \A g \in Handlers \ {h} : pc'[g] = pc[g]
      /\ pc' \in [Handlers -> PCs]
  BY GotoSets DEF ChargeUnlock, PCs
<1>3. PICK p \in Pairs, m \in MessageIds, price \in Prices :
         /\ p = r.pair /\ m = r.message /\ price = r.price
         /\ m \in DOMAIN messages
         /\ messages[m].price = price /\ price # 0
         /\ messages[m].pair = p
  <2>1. /\ r.pair \in Pairs /\ r.message \in DOMAIN messages
        /\ messages[r.message].price = r.price /\ r.price # 0
        /\ messages[r.message].pair = r.pair
    BY <1>1, <1>2 DEF PurchaseInv, RequestInv
  <2>2. r.message \in MessageIds
    BY <2>1, PurchasesAssumption DEF TypeOK, MessageIds
  <2>3. r.price \in Prices
    BY <2>1 DEF Request
  <2>4. QED
    BY <2>1, <2>2, <2>3
<1>4. /\ Insert(h, "PPV_PURCHASE", p, m, price)
      /\ Hold(h, p, m, price, Len(charges) + 1)
      /\ UNCHANGED <<accountVars, messageVars, tips, now, lostVars>>
  BY <1>1, <1>3 DEF ChargeUnlock
<1>5. PICK n \in ChargeIds : n = Len(charges) + 1
  BY <1>4, InsertSets
<1>6. /\ request'[h] = [pair |-> p, tier |-> NoTier, message |-> m,
                        price |-> price, charge |-> n]
      /\ \A g \in Handlers \ {h} : request'[g] = request[g]
      /\ request' \in [Handlers -> Request]
  BY <1>4, <1>5, HoldSets
<1>7. /\ DOMAIN charges' = DOMAIN charges \cup {n}
      /\ charges'[n] = NewCharge(h, "PPV_PURCHASE", p, m, price)
  BY <1>4, <1>5, InsertSets
<1>8. RequestInv(h)'
  <2>1. IsCharge(n, "PPV_PURCHASE", request[h])' /\ charges'[n].by = h
    BY <1>6, <1>7 DEF IsCharge, NewCharge
  <2>2. UNCHANGED messages
    BY <1>4 DEF messageVars
  <2>3. QED
    BY <1>2, <1>3, <1>6, <2>1, <2>2 DEF RequestInv
<1>9. \A g \in Handlers \ {h} : Still(g)
  BY <1>2, <1>6 DEF Still
<1>10. request'[h].charge = Len(charges) + 1 /\ request[h].message = m
  BY <1>1, <1>3, <1>5, <1>6
<1>11. QED
  BY <1>2, <1>4, <1>6, <1>8, <1>9, <1>10, InsertStep

LEMMA ChargeTipStep ==
    ASSUME TypeOK, PurchaseInv, NEW h \in Handlers, NEW f \in Fans, NEW c \in Creators,
           NEW cents \in Prices, ChargeTip(h, f, c, cents)
    PROVE  TypeOK' /\ PurchaseInv'
<1>1. PICK p \in Pairs, m \in {0} \cup MessageIds : p = <<f, c>> /\ m = 0
  BY DEF Pairs
<1>2. /\ pc[h] = "idle" /\ pc'[h] = "tip"
      /\ \A g \in Handlers \ {h} : pc'[g] = pc[g]
      /\ pc' \in [Handlers -> PCs]
  BY GotoSets DEF ChargeTip, PCs
<1>3. /\ Insert(h, "TIP", p, m, cents)
      /\ Hold(h, p, m, cents, Len(charges) + 1)
      /\ UNCHANGED <<accountVars, messageVars, tips, now, lostVars>>
  BY <1>1 DEF ChargeTip
<1>4. PICK n \in ChargeIds : n = Len(charges) + 1
  BY <1>3, InsertSets
<1>5. /\ request'[h] = [pair |-> p, tier |-> NoTier, message |-> m,
                        price |-> cents, charge |-> n]
      /\ \A g \in Handlers \ {h} : request'[g] = request[g]
      /\ request' \in [Handlers -> Request]
  BY <1>3, <1>4, HoldSets
<1>6. /\ n \notin DOMAIN charges
      /\ DOMAIN charges' = DOMAIN charges \cup {n}
      /\ charges'[n] = NewCharge(h, "TIP", p, m, cents)
  BY <1>3, <1>4, InsertSets
<1>7. RequestInv(h)'
  <2>1. IsCharge(n, "TIP", request[h])' /\ charges'[n].by = h
    BY <1>5, <1>6 DEF IsCharge, NewCharge
  <2>2. \A tip \in tips' : tip.charge # n
    BY <1>3, <1>6 DEF PurchaseInv, TipsArePaid
  <2>3. QED
    BY <1>2, <1>5, <2>1, <2>2 DEF RequestInv
<1>8. \A g \in Handlers \ {h} : Still(g)
  BY <1>2, <1>5 DEF Still
<1>9. request'[h].charge = Len(charges) + 1
  BY <1>4, <1>5
<1>10. QED
  BY <1>2, <1>3, <1>5, <1>7, <1>8, <1>9, InsertStep

LEMMA CreateTipStep ==
    ASSUME TypeOK, PurchaseInv, NEW h \in Handlers, CreateTip(h)
    PROVE  TypeOK' /\ PurchaseInv'
<1>1. PICK r \in Request : r = request[h]
  BY DEF TypeOK
<1>2. PICK i \in DOMAIN charges :
         /\ i = r.charge /\ IsCharge(i, "TIP", r) /\ charges[i].by = h
         /\ r.price \in Prices /\ r.pair \in Pairs
         /\ \A tip \in tips : tip.charge # i
  BY <1>1 DEF CreateTip, PurchaseInv, RequestInv, IsCharge
<1>3. i \in ChargeIds
  BY PurchasesAssumption DEF TypeOK, ChargeIds
<1>4. PICK new \in Tip : new = [pair |-> r.pair, amount |-> r.price, charge |-> i]
  BY <1>2, <1>3 DEF Tip
<1>5. new.pair = r.pair /\ new.amount = r.price /\ new.charge = i
  BY <1>4
<1>6. /\ pc[h] = "tip"
      /\ tips' = tips \cup {new}
      /\ UNCHANGED <<subscriptions, audit, activated, opened, conversations, messages>>
      /\ UNCHANGED <<charges, now, lostCharges, lostCancels>>
  BY <1>1, <1>2, <1>4 DEF CreateTip, accountVars, messageVars, lostVars
<1>7. /\ pc'[h] = "idle"
      /\ \A g \in Handlers \ {h} : pc'[g] = pc[g] /\ request'[g] = request[g]
      /\ pc' \in [Handlers -> PCs]
      /\ request' \in [Handlers -> Request]
  BY FinishSets DEF CreateTip
<1>8. TypeOK'
  BY <1>6, <1>7 DEF TypeOK
<1>9. Grows /\ \A g \in Handlers \ {h} : Still(g)
  BY <1>6, <1>7 DEF Grows, Still
<1>10. \A g \in Handlers : RequestInv(g)'
  <2> SUFFICES ASSUME NEW g \in Handlers PROVE RequestInv(g)'
    OBVIOUS
  <2>1. CASE g = h
    BY <1>7, <2>1 DEF RequestInv
  <2>2. CASE g # h
    <3>1. RequestInv(g) /\ Still(g)
      BY <1>9, <2>2 DEF PurchaseInv
    <3>2. pc[g] = "tip" => request[g].charge # i
      BY <1>2, <2>2, <3>1 DEF RequestInv
    <3>3. QED
      BY <1>5, <1>6, <1>9, <3>1, <3>2, RequestStays
  <2>3. QED
    BY <2>1, <2>2
<1>11. PpvAlone'
  BY <1>7 DEF PurchaseInv, PpvAlone
<1>12. SubscriptionsInv' /\ AuditedOrLost'
  BY <1>6, <1>9, SubscriptionsStay, AuditsStay
<1>13. UnpricedIsLocked' /\ MessagesPaid' /\ UnlocksArePaid'
  BY <1>6, <1>9, MessagesStay
<1>14. SecondChargeNeedsLoss' /\ OneFeeSchedule'
  BY <1>6, <1>9, ChargesStay
<1>15. TipsArePaid'
  BY <1>2, <1>5, <1>6 DEF PurchaseInv, TipsArePaid, IsCharge
<1>16. ChargesInv'
  <2> SUFFICES ASSUME NEW j \in DOMAIN charges
               PROVE  /\ charges[j].kind = "PPV_PURCHASE" =>
                            charges[j].message \in DOMAIN messages
                      /\ Accounted(j)'
    BY <1>6 DEF ChargesInv
  <2>1. ChargesInv
    BY DEF PurchaseInv
  <2>2. Delivered(i)'
    BY <1>5, <1>6 DEF Delivered
  <2>3. \A g \in Handlers : Holds(g, j) => Still(g) \/ Delivered(j)'
    BY <1>1, <1>2, <1>9, <2>2 DEF Holds
  <2>4. Accounted(j)'
    BY <1>9, <2>1, <2>3, AccountedStays
  <2>5. QED
    BY <2>1, <2>4 DEF ChargesInv
<1>17. QED
  BY <1>8, <1>10, <1>11, <1>12, <1>13, <1>14, <1>15, <1>16 DEF PurchaseInv

-----------------------------------------------------------------------------
(* The invariant, and what it says *)

LEMMA NextStep ==
    ASSUME TypeOK, PurchaseInv, Next
    PROVE  TypeOK' /\ PurchaseInv'
<1>1. ASSUME NEW h \in Handlers, Arrive(h)
      PROVE  TypeOK' /\ PurchaseInv'
  <2>1. CASE \E f \in Fans, t \in Tiers : Checkout(h, f, t)
    BY <2>1, CheckoutStep
  <2>2. CASE \E f \in Fans, c \in Creators : CancelLookup(h, f, c)
    BY <2>2, CancelLookupStep
  <2>3. CASE \E f \in Fans, c \in Creators, price \in Prices \cup {0} :
                 SendLookup(h, f, c, price)
    BY <2>3, SendLookupStep
  <2>4. CASE \E f \in Fans, c \in Creators, cents \in Prices : ChargeTip(h, f, c, cents)
    BY <2>4, ChargeTipStep
  <2>5. CASE \E f \in Fans, m \in DOMAIN messages : UnlockLookup(h, f, m)
    BY <2>5, UnlockLookupStep
  <2>6. QED
    BY <1>1, <2>1, <2>2, <2>3, <2>4, <2>5 DEF Arrive
<1>2. ASSUME NEW h \in Handlers, Continue(h)
      PROVE  TypeOK' /\ PurchaseInv'
  BY <1>2, UpsertStep, CancelRemoteStep, CancelRowStep, AuditStep, ConversationStep,
     CreateMessageStep, CreatePpvStep, ChargeUnlockStep, RefusedStep, SetUnlockStep,
     CreateTipStep DEF Continue
<1>3. QED
  BY <1>1, <1>2, FailStep, ActivateStep, PayUnknownStep, TickStep DEF Next

LEMMA Inductive == Spec => [](TypeOK /\ PurchaseInv)
<1>1. Init => TypeOK /\ PurchaseInv
  <2> SUFFICES ASSUME Init PROVE TypeOK /\ PurchaseInv
    OBVIOUS
  <2>1. NoSubscription \in Subscription /\ NoRequest \in Request
    BY DEF NoSubscription, Subscription, NoRequest, Request
  <2>2. /\ messages \in Seq(Message) /\ Len(messages) = 0 /\ DOMAIN messages = {}
        /\ charges \in Seq(Charge) /\ Len(charges) = 0 /\ DOMAIN charges = {}
        /\ tips = {}
    BY DEF Init
  <2>3. TypeOK
    BY <2>1, <2>2, PurchasesAssumption DEF Init, TypeOK, PCs
  <2>4. \A h \in Handlers : pc[h] = "idle"
    BY DEF Init
  <2>5. (\A h \in Handlers : RequestInv(h)) /\ PpvAlone
    BY <2>4 DEF RequestInv, PpvAlone
  <2>6. \A p \in Pairs : subscriptions[p].status = "NONE"
    BY DEF Init, NoSubscription
  <2>7. SubscriptionsInv /\ AuditedOrLost
    BY <2>6 DEF SubscriptionsInv, AuditedOrLost
  <2>8. UnpricedIsLocked /\ UnlocksArePaid /\ MessagesPaid
    BY <2>2 DEF UnpricedIsLocked, UnlocksArePaid, MessagesPaid
  <2>9. ChargesInv /\ SecondChargeNeedsLoss /\ OneFeeSchedule /\ TipsArePaid
    BY <2>2 DEF ChargesInv, SecondChargeNeedsLoss, OneFeeSchedule, TipsArePaid
  <2>10. QED
    BY <2>3, <2>5, <2>7, <2>8, <2>9 DEF PurchaseInv
<1>2. TypeOK /\ PurchaseInv /\ [Next]_vars => TypeOK' /\ PurchaseInv'
  <2> SUFFICES ASSUME TypeOK, PurchaseInv, [Next]_vars
               PROVE  TypeOK' /\ PurchaseInv'
    OBVIOUS
  <2>1. CASE Next
    BY <2>1, NextStep
  <2>2. CASE UNCHANGED vars
    <3>1. /\ UNCHANGED <<subscriptions, audit, activated, opened, conversations, messages>>
          /\ UNCHANGED <<charges, tips, now, pc, request, lostCharges, lostCancels>>
      BY <2>2 DEF vars, accountVars, messageVars, moneyVars, lostVars
    <3>2. Grows /\ \A g \in Handlers : Still(g)
      BY <3>1 DEF Grows, Still
    <3>3. SubscriptionsInv' /\ AuditedOrLost'
      BY <3>1, <3>2, SubscriptionsStay, AuditsStay
    <3>4. QED
      BY <3>1, <3>2, <3>3, QuietStep DEF TypeOK
  <2>3. QED
    BY <2>1, <2>2
<1>3. QED
  BY <1>1, <1>2, PTL DEF Spec

(* Every variable of the purchases keeps its type.                         *)
THEOREM TypeCorrect == Spec => []TypeOK
BY Inductive, PTL

(* A message is unlocked only by the payment of its price by its fan.      *)
THEOREM UnlocksPaid == Spec => []UnlocksArePaid
<1>1. TypeOK /\ PurchaseInv => UnlocksArePaid
  BY DEF PurchaseInv
<1>2. QED
  BY <1>1, Inductive, PTL

(* Every tip has a charge of its own, of its amount.                       *)
THEOREM TipsPaid == Spec => []TipsArePaid
<1>1. TypeOK /\ PurchaseInv => TipsArePaid
  BY DEF PurchaseInv
<1>2. QED
  BY <1>1, Inductive, PTL

(* One handler charges twice for a message only after a loss.              *)
THEOREM SecondChargeLoss == Spec => []SecondChargeNeedsLoss
<1>1. TypeOK /\ PurchaseInv => SecondChargeNeedsLoss
  BY DEF PurchaseInv
<1>2. QED
  BY <1>1, Inductive, PTL

(* Every message belongs to a fan whom the processor charged for one of    *)
(* the creator's tiers.                                                    *)
THEOREM MessagesPaidFor == Spec => []MessagesWerePaidFor
<1>1. TypeOK /\ PurchaseInv => MessagesWerePaidFor
  BY DEF PurchaseInv, MessagesPaid, Paid, MessagesWerePaidFor
<1>2. QED
  BY <1>1, Inductive, PTL

(* messaging's floor of 15 percent is the platform's fee on every charge.  *)
THEOREM OneFee == Spec => []OneFeeSchedule
<1>1. TypeOK /\ PurchaseInv => OneFeeSchedule
  BY DEF PurchaseInv
<1>2. QED
  BY <1>1, Inductive, PTL

(* The tier of a subscription that is ACTIVE was paid for.                  *)
LEMMA ActiveIsPaid ==
    ASSUME SubscriptionsInv, NEW f \in Fans, NEW c \in Creators,
           subscriptions[<<f, c>>].status = "ACTIVE"
    PROVE  \E t \in Tiers : /\ t = subscriptions[<<f, c>>].tier
                            /\ TierCreator[t] = c /\ <<f, t>> \in activated
<1>1. PICK q \in Pairs : q = <<f, c>> /\ q[1] = f /\ q[2] = c
  BY DEF Pairs
<1>2. QED
  BY <1>1 DEF SubscriptionsInv

(* fanFeed shows nothing behind a subscription or a tier that was not paid *)
(* for.                                                                    *)
THEOREM FanFeedPaid == Spec => []FanFeedIsPaidFor
<1>1. TypeOK /\ PurchaseInv => FanFeedIsPaidFor
  <2> SUFFICES ASSUME SubscriptionsInv, NEW f \in Fans, NEW p \in FanFeed(f)
               PROVE  /\ p.visibility # "PUBLIC" =>
                            \E t \in Tiers : TierCreator[t] = p.creator
                                              /\ <<f, t>> \in activated
                      /\ p.visibility = "TIER_LOCKED" => <<f, p.tier>> \in activated
    BY DEF PurchaseInv, FanFeedIsPaidFor
  <2>1. \A c \in Creators : subscriptions[<<f, c>>].status = "ACTIVE" =>
           \E t \in Tiers : /\ t = subscriptions[<<f, c>>].tier
                            /\ TierCreator[t] = c /\ <<f, t>> \in activated
    BY ActiveIsPaid
  <2>2. /\ p.creator \in Creators
        /\ subscriptions[<<f, p.creator>>].status = "ACTIVE"
        /\ p.visibility = "TIER_LOCKED" =>
              \E c \in Creators : /\ subscriptions[<<f, c>>].status = "ACTIVE"
                                  /\ p.tier = subscriptions[<<f, c>>].tier
    BY DEF FanFeed, IsEntitled
  <2>3. QED
    BY <2>1, <2>2
<1>2. QED
  BY <1>1, Inductive, PTL

(* What creatorFeed shows behind an ACTIVE subscription was paid for, at   *)
(* the tier that was paid for.                                             *)
ActiveCreatorFeedIsPaidFor ==
    \A f \in Fans, c \in Creators :
        subscriptions[<<f, c>>].status = "ACTIVE" =>
            \A p \in CreatorFeed(f, c) :
                /\ p.visibility # "PUBLIC" =>
                      \E t \in Tiers : TierCreator[t] = c /\ <<f, t>> \in activated
                /\ p.visibility = "TIER_LOCKED" => <<f, p.tier>> \in activated

(* Whatever creatorFeed shows without payment, it shows to fans whose      *)
(* subscription is not ACTIVE.                                             *)
THEOREM ActiveFeedPaid == Spec => []ActiveCreatorFeedIsPaidFor
<1>1. TypeOK /\ PurchaseInv => ActiveCreatorFeedIsPaidFor
  <2> SUFFICES ASSUME SubscriptionsInv, NEW f \in Fans, NEW c \in Creators,
                      subscriptions[<<f, c>>].status = "ACTIVE",
                      NEW p \in CreatorFeed(f, c)
               PROVE  /\ p.visibility # "PUBLIC" =>
                            \E t \in Tiers : TierCreator[t] = c /\ <<f, t>> \in activated
                      /\ p.visibility = "TIER_LOCKED" => <<f, p.tier>> \in activated
    BY DEF PurchaseInv, ActiveCreatorFeedIsPaidFor
  <2>1. p.visibility = "TIER_LOCKED" => p.tier = subscriptions[<<f, c>>].tier
    BY DEF CreatorFeed, IsEntitled
  <2>2. PICK t \in Tiers : /\ t = subscriptions[<<f, c>>].tier
                           /\ TierCreator[t] = c /\ <<f, t>> \in activated
    BY ActiveIsPaid
  <2>3. QED
    BY <2>1, <2>2
<1>2. QED
  BY <1>1, Inductive, PTL

(* A charge is delivered, about to be, or lost with its request.           *)
THEOREM ChargesDelivered == Spec => []ChargesAreDelivered
<1>1. TypeOK /\ PurchaseInv => ChargesAreDelivered
  <2> SUFFICES ASSUME TypeOK, ChargesInv, NEW i \in DOMAIN charges
               PROVE  \/ Delivered(i)
                      \/ \E h \in Handlers : /\ pc[h] \in {"setUnlock", "tip"}
                                             /\ request[h].charge = i
                      \/ i \in lostCharges
    BY DEF PurchaseInv, ChargesAreDelivered
  <2>1. charges[i] \in Charge /\ Accounted(i)
    BY DEF TypeOK, ChargesInv
  <2>2. charges[i].by \in Handlers
    BY <2>1 DEF Charge
  <2>3. QED
    BY <2>1, <2>2 DEF Accounted
<1>2. QED
  BY <1>1, Inductive, PTL

(* What is left of the promise that cancellations are audited: as long as  *)
(* no request died between the two statements of cancelSubscription, a     *)
(* canceled subscription is in the audit log or about to be.               *)
THEOREM CancellationsAudited == Spec => [](lostCancels = {} => CancellationsAreAudited)
<1>1. TypeOK /\ PurchaseInv => (lostCancels = {} => CancellationsAreAudited)
  BY DEF PurchaseInv, AuditedOrLost, CancellationsAreAudited
<1>2. QED
  BY <1>1, Inductive, PTL

-----------------------------------------------------------------------------
(* Tips as an outbox                                                       *)

(* Only a charge is lost, and only a request that charged holds one.       *)
BoxInv ==
    /\ lostCharges \subseteq DOMAIN charges
    /\ \A h \in Handlers : request[h].charge # 0 => pc[h] \in {"setUnlock", "tip"}

(* No charge for a tip comes or goes, and no request starts or ends one.   *)
LEMMA BoxStays ==
    ASSUME TypeOK, PurchaseInv, TipCharges' = TipCharges,
           \A i \in TipCharges : charges'[i] = charges[i],
           tips' = tips,
           lostCharges' \cap TipCharges = lostCharges \cap TipCharges,
           \A h \in Handlers : /\ pc[h] = "tip" <=> pc'[h] = "tip"
                               /\ pc[h] = "tip" => request'[h] = request[h]
    PROVE  UNCHANGED Box!boxVars
<1>1. \A i \in TipCharges : TipPaid(i)' = TipPaid(i)
  BY DEF TipPaid
<1>2. AllPaid' = AllPaid /\ LostPaid' = LostPaid
  BY <1>1 DEF AllPaid, LostPaid
<1>3. \A h \in Handlers : pc[h] = "tip" => request[h].charge \in TipCharges
  BY DEF PurchaseInv, RequestInv, IsCharge, TipCharges
<1>4. \A h \in Handlers : pc[h] = "tip" => TipPaid(request[h].charge)' = TipPaid(request[h].charge)
  BY <1>1, <1>3 DEF TipPaid
<1>5. {g \in Handlers : pc'[g] = "tip"} = {g \in Handlers : pc[g] = "tip"}
  OBVIOUS
<1>6. ToTip' = ToTip
  BY <1>4, <1>5 DEF ToTip
<1>7. Tipped' = Tipped
  BY DEF Tipped
<1>8. QED
  BY <1>2, <1>6, <1>7 DEF Box!boxVars

(* A request that charges nobody and tips nobody.                          *)
LEMMA QuietBox ==
    ASSUME TypeOK, PurchaseInv, BoxInv, NEW h \in Handlers,
           UNCHANGED <<charges, tips, lostCharges>>,
           pc[h] # "tip", pc'[h] # "tip", \A g \in Handlers \ {h} : Still(g),
           request'[h].charge = 0
    PROVE  BoxInv' /\ UNCHANGED Box!boxVars
<1>1. \A g \in Handlers : /\ pc[g] = "tip" <=> pc'[g] = "tip"
                          /\ pc[g] = "tip" => request'[g] = request[g]
  BY DEF Still
<1>2. TipCharges' = TipCharges
  BY DEF TipCharges
<1>3. BoxInv'
  BY DEF BoxInv, Still
<1>4. QED
  BY <1>1, <1>2, <1>3, BoxStays

(* sendTip's first statement records.                                      *)
LEMMA ChargeTipRecords ==
    ASSUME TypeOK, PurchaseInv, BoxInv, NEW h \in Handlers, NEW f \in Fans, NEW c \in Creators,
           NEW cents \in Prices, ChargeTip(h, f, c, cents)
    PROVE  BoxInv' /\ Box!BoxNext
<1>1. PICK p \in Pairs, m \in {0} \cup MessageIds : p = <<f, c>> /\ m = 0
  BY DEF Pairs
<1>2. /\ pc[h] = "idle" /\ pc'[h] = "tip"
      /\ \A g \in Handlers \ {h} : pc'[g] = pc[g]
  BY GotoSets DEF ChargeTip, PCs
<1>3. /\ Insert(h, "TIP", p, m, cents)
      /\ Hold(h, p, m, cents, Len(charges) + 1)
      /\ UNCHANGED <<tips, lostCharges>>
  BY <1>1 DEF ChargeTip, lostVars
<1>4. PICK n \in ChargeIds : n = Len(charges) + 1
  BY <1>3, InsertSets
<1>5. request'[h].charge = n /\ \A g \in Handlers \ {h} : request'[g] = request[g]
  <2>1. /\ request'[h] = [pair |-> p, tier |-> NoTier, message |-> m,
                          price |-> cents, charge |-> n]
        /\ \A g \in Handlers \ {h} : request'[g] = request[g]
    BY <1>3, <1>4, HoldSets
  <2>2. QED
    BY <2>1
<1>6. /\ n \notin DOMAIN charges
      /\ DOMAIN charges' = DOMAIN charges \cup {n}
      /\ charges'[n].kind = "TIP"
      /\ \A i \in DOMAIN charges : charges'[i] = charges[i]
  <2>1. /\ n \notin DOMAIN charges
        /\ DOMAIN charges' = DOMAIN charges \cup {n}
        /\ charges'[n] = NewCharge(h, "TIP", p, m, cents)
        /\ \A i \in DOMAIN charges : charges'[i] = charges[i]
    BY <1>3, <1>4, InsertSets
  <2>2. QED
    BY <2>1 DEF NewCharge
<1>7. TipCharges' = TipCharges \cup {n} /\ n \notin TipCharges
  BY <1>6 DEF TipCharges
<1>8. \A i \in TipCharges : TipPaid(i)' = TipPaid(i)
  BY <1>6 DEF TipPaid, TipCharges
<1>9. PICK fact : fact = TipPaid(n)'
  OBVIOUS
<1>10. AllPaid' = AllPaid \cup {fact}
  BY <1>7, <1>8, <1>9 DEF AllPaid
<1>11. fact \notin AllPaid
  BY <1>7, <1>9 DEF AllPaid, TipPaid
<1>12. LostPaid' = LostPaid
  BY <1>3, <1>6, <1>7, <1>8 DEF LostPaid, BoxInv
<1>13. {g \in Handlers : pc'[g] = "tip"} = {g \in Handlers : pc[g] = "tip"} \cup {h}
  BY <1>2
<1>14. \A g \in Handlers : pc[g] = "tip" => TipPaid(request[g].charge)' = TipPaid(request[g].charge)
  <2> SUFFICES ASSUME NEW g \in Handlers, pc[g] = "tip"
               PROVE  TipPaid(request[g].charge)' = TipPaid(request[g].charge)
    OBVIOUS
  <2>1. PICK i : i = request[g].charge
    OBVIOUS
  <2>2. i \in TipCharges /\ request'[g] = request[g]
    BY <1>2, <1>5, <2>1 DEF PurchaseInv, RequestInv, IsCharge, TipCharges
  <2>3. QED
    BY <1>8, <2>1, <2>2 DEF TipPaid
<1>15. TipPaid(request[h].charge)' = fact
  BY <1>5, <1>9 DEF TipPaid
<1>16. ToTip' = ToTip \cup {fact}
  BY <1>13, <1>14, <1>15 DEF ToTip
<1>17. Tipped' = Tipped
  BY <1>3 DEF Tipped
<1>18. BoxInv'
  BY <1>2, <1>3, <1>5, <1>6 DEF BoxInv
<1>19. Box!Record(fact)
  BY <1>10, <1>11, <1>12, <1>16, <1>17 DEF Box!Record
<1>20. QED
  BY <1>10, <1>18, <1>19 DEF Box!BoxNext

(* What h was to tip is off its hands, and only that.                      *)
LEMMA LeavesTip ==
    ASSUME TypeOK, PurchaseInv, NEW h \in Handlers, pc[h] = "tip", pc'[h] # "tip",
           \A g \in Handlers \ {h} : Still(g), charges' = charges
    PROVE  /\ TipPaid(request[h].charge) \in ToTip
           /\ ToTip' = ToTip \ {TipPaid(request[h].charge)}
<1>1. \A g \in Handlers : pc[g] = "tip" => charges[request[g].charge].by = g
  BY DEF PurchaseInv, RequestInv
<1>2. \A g \in Handlers \ {h} : pc[g] = "tip" => request[g].charge # request[h].charge
  BY <1>1
<1>3. \A g \in Handlers \ {h} : pc[g] = "tip" => TipPaid(request[g].charge) # TipPaid(request[h].charge)
  BY <1>2 DEF TipPaid
<1>4. {g \in Handlers : pc'[g] = "tip"} = {g \in Handlers : pc[g] = "tip"} \ {h}
  BY DEF Still
<1>5. \A g \in Handlers \ {h} : TipPaid(request[g].charge)' = TipPaid(request[g].charge)
  BY DEF Still, TipPaid
<1>6. QED
  BY <1>3, <1>4, <1>5 DEF ToTip

(* sendTip's second statement tells.                                       *)
LEMMA CreateTipTells ==
    ASSUME TypeOK, PurchaseInv, BoxInv, NEW h \in Handlers, CreateTip(h)
    PROVE  BoxInv' /\ Box!BoxNext
<1>1. PICK i : i = request[h].charge
  OBVIOUS
<1>2. PICK new : new = [pair |-> request[h].pair, amount |-> request[h].price, charge |-> i]
  OBVIOUS
<1>3. /\ pc[h] = "tip" /\ tips' = tips \cup {new}
      /\ UNCHANGED <<charges, lostCharges>>
  BY <1>1, <1>2 DEF CreateTip, lostVars
<1>4. pc'[h] = "idle" /\ \A g \in Handlers \ {h} : Still(g)
  BY FinishSets DEF CreateTip, Still
<1>5. request'[h].charge = 0
  BY DEF CreateTip, Finish, NoRequest, TypeOK
<1>6. charges[i].pair = request[h].pair /\ charges[i].gross = request[h].price
  BY <1>1, <1>3 DEF PurchaseInv, RequestInv, IsCharge
<1>7. <<new.charge, new.pair, new.amount>> = TipPaid(i)
  BY <1>2, <1>6 DEF TipPaid
<1>8. Tipped' = Tipped \cup {<<new, TipPaid(i)>>}
  BY <1>3, <1>7 DEF Tipped
<1>9. TipPaid(i) \in ToTip /\ ToTip' = ToTip \ {TipPaid(i)}
  BY <1>1, <1>3, <1>4, LeavesTip
<1>10. AllPaid' = AllPaid /\ LostPaid' = LostPaid
  BY <1>3 DEF AllPaid, LostPaid, TipCharges, TipPaid
<1>11. BoxInv'
  BY <1>3, <1>4, <1>5 DEF BoxInv, Still
<1>12. Box!Tell(new, TipPaid(i))
  BY <1>8, <1>9, <1>10 DEF Box!Tell
<1>13. PICK entry : entry = <<new, TipPaid(i)>>
  OBVIOUS
<1>14. entry \in Tipped' /\ Box!Tell(entry[1], entry[2])
  BY <1>8, <1>12, <1>13
<1>15. QED
  BY <1>11, <1>14 DEF Box!BoxNext

(* A request that dies between the two loses.                              *)
LEMMA FailLoses ==
    ASSUME TypeOK, PurchaseInv, BoxInv, NEW h \in Handlers, Fail(h)
    PROVE  BoxInv' /\ [Box!BoxNext]_(Box!boxVars)
<1>1. PICK i : i = request[h].charge
  OBVIOUS
<1>2. /\ pc'[h] = "idle" /\ request'[h].charge = 0
      /\ \A g \in Handlers \ {h} : Still(g)
  BY FinishSets DEF Fail, Finish, NoRequest, Still, TypeOK
<1>3. lostCharges' = lostCharges \cup ({i} \ {0}) /\ UNCHANGED <<charges, tips>>
  BY <1>1 DEF Fail, moneyVars
<1>4. i # 0 => /\ pc[h] \in {"setUnlock", "tip"} /\ i \in DOMAIN charges
               /\ charges[i].kind = "TIP" <=> pc[h] = "tip"
  BY <1>1 DEF BoxInv, PurchaseInv, RequestInv, IsCharge
<1>5. pc[h] = "tip" => i # 0 /\ i \in TipCharges
  BY <1>1, PurchasesAssumption DEF PurchaseInv, RequestInv, IsCharge, TipCharges, TypeOK
<1>6. BoxInv'
  BY <1>2, <1>3, <1>4 DEF BoxInv, Still
<1>7. CASE pc[h] # "tip"
  <2>1. TipCharges' = TipCharges /\ \A j \in TipCharges : charges'[j] = charges[j]
    BY <1>3 DEF TipCharges
  <2>2. lostCharges' \cap TipCharges = lostCharges \cap TipCharges
    BY <1>3, <1>4, <1>7 DEF TipCharges
  <2>3. \A g \in Handlers : /\ pc[g] = "tip" <=> pc'[g] = "tip"
                            /\ pc[g] = "tip" => request'[g] = request[g]
    BY <1>2, <1>7 DEF Still
  <2>4. QED
    BY <1>3, <1>6, <2>1, <2>2, <2>3, BoxStays
<1>8. CASE pc[h] = "tip"
  <2>1. TipPaid(i) \in ToTip /\ ToTip' = ToTip \ {TipPaid(i)}
    BY <1>1, <1>2, <1>3, <1>8, LeavesTip
  <2>2. AllPaid' = AllPaid /\ Tipped' = Tipped /\ LostPaid' = LostPaid \cup {TipPaid(i)}
    BY <1>3, <1>5, <1>8 DEF AllPaid, Tipped, LostPaid, TipCharges, TipPaid
  <2>3. Box!Lose(TipPaid(i))
    BY <2>1, <2>2 DEF Box!Lose
  <2>4. QED
    BY <1>6, <2>1, <2>3 DEF Box!BoxNext
<1>9. QED
  BY <1>7, <1>8

(* unlockPpv charges, but for no tip.                                      *)
LEMMA ChargeUnlockBox ==
    ASSUME TypeOK, PurchaseInv, BoxInv, NEW h \in Handlers, ChargeUnlock(h)
    PROVE  BoxInv' /\ UNCHANGED Box!boxVars
<1>1. /\ pc[h] = "charge" /\ pc'[h] = "setUnlock"
      /\ \A g \in Handlers \ {h} : pc'[g] = pc[g]
  BY GotoSets DEF ChargeUnlock, PCs
<1>2. PICK c : charges' = Append(charges, c) /\ c.kind = "PPV_PURCHASE"
  BY DEF ChargeUnlock, Insert, NewCharge
<1>3. UNCHANGED <<tips, lostCharges>> /\ \A g \in Handlers \ {h} : request'[g] = request[g]
  BY DEF ChargeUnlock, Hold, lostVars, TypeOK
<1>4. PICK n \in Nat : n = Len(charges) + 1
  BY DEF TypeOK
<1>5. /\ DOMAIN charges' = DOMAIN charges \cup {n} /\ charges'[n] = c /\ n \notin DOMAIN charges
      /\ \A i \in DOMAIN charges : charges'[i] = charges[i]
  BY <1>2, <1>4 DEF TypeOK
<1>6. TipCharges' = TipCharges
  BY <1>2, <1>5 DEF TipCharges
<1>7. \A i \in TipCharges : charges'[i] = charges[i]
  BY <1>5 DEF TipCharges
<1>8. \A g \in Handlers : /\ pc[g] = "tip" <=> pc'[g] = "tip"
                          /\ pc[g] = "tip" => request'[g] = request[g]
  BY <1>1, <1>3
<1>9. BoxInv'
  BY <1>1, <1>3, <1>5 DEF BoxInv
<1>10. QED
  BY <1>3, <1>6, <1>7, <1>8, <1>9, BoxStays

(* The other statements of a request.                                      *)
LEMMA QuietSets ==
    ASSUME TypeOK, BoxInv, NEW h \in Handlers,
           \/ \E f \in Fans, t \in Tiers : Checkout(h, f, t)
           \/ \E f \in Fans, c \in Creators : CancelLookup(h, f, c)
           \/ \E f \in Fans, c \in Creators, price \in Prices \cup {0} : SendLookup(h, f, c, price)
           \/ \E f \in Fans, m \in DOMAIN messages : UnlockLookup(h, f, m)
           \/ UpsertSubscription(h) \/ CancelRemote(h) \/ CancelRow(h) \/ AuditCancel(h)
           \/ UpsertConversation(h) \/ CreateMessage(h) \/ CreatePpv(h)
           \/ ChargeRefused(h) \/ SetUnlock(h)
    PROVE  /\ UNCHANGED <<charges, tips, lostCharges>>
           /\ pc[h] # "tip" /\ pc'[h] # "tip" /\ \A g \in Handlers \ {h} : Still(g)
           /\ request'[h].charge = 0
<1>1. ASSUME Finish(h)
      PROVE  pc'[h] # "tip" /\ request'[h].charge = 0 /\ \A g \in Handlers \ {h} : Still(g)
  BY <1>1 DEF Finish, NoRequest, TypeOK, Still
<1>2. ASSUME NEW from, NEW to, Goto(h, from, to), to # "tip", NEW r, r.charge = 0,
             request' = [request EXCEPT ![h] = r]
      PROVE  pc'[h] # "tip" /\ request'[h].charge = 0 /\ \A g \in Handlers \ {h} : Still(g)
  BY <1>2 DEF Goto, TypeOK, Still
<1>3. ASSUME NEW from \in PCs \ {"setUnlock", "tip"}, NEW to, Goto(h, from, to), to # "tip",
             UNCHANGED request
      PROVE  pc'[h] # "tip" /\ request'[h].charge = 0 /\ \A g \in Handlers \ {h} : Still(g)
  BY <1>3 DEF Goto, TypeOK, Still, BoxInv
<1>4. ASSUME NEW from, NEW to, Goto(h, from, to), from # "tip", to # "tip",
             NEW pair, NEW m, NEW price, Hold(h, pair, m, price, 0)
      PROVE  /\ pc[h] # "tip" /\ pc'[h] # "tip" /\ request'[h].charge = 0
             /\ \A g \in Handlers \ {h} : Still(g)
  BY <1>4 DEF Goto, Hold, TypeOK, Still
<1>5. CASE \E f \in Fans, t \in Tiers : Checkout(h, f, t)
  BY <1>2, <1>5 DEF Checkout, Goto, moneyVars, lostVars
<1>6. CASE \E f \in Fans, c \in Creators : CancelLookup(h, f, c)
  <2>1. PICK f \in Fans, c \in Creators, to \in {"cancelRemote", "cancelRow"} :
           /\ Goto(h, "idle", to) /\ Hold(h, <<f, c>>, 0, 0, 0)
           /\ UNCHANGED <<moneyVars, lostVars>>
    BY <1>6 DEF CancelLookup
  <2>2. QED
    BY <1>4, <2>1 DEF moneyVars, lostVars
<1>7. CASE \E f \in Fans, c \in Creators, price \in Prices \cup {0} : SendLookup(h, f, c, price)
  BY <1>4, <1>7 DEF SendLookup, moneyVars, lostVars
<1>8. CASE \E f \in Fans, m \in DOMAIN messages : UnlockLookup(h, f, m)
  <2>1. PICK f \in Fans, m \in DOMAIN messages : UnlockLookup(h, f, m)
    BY <1>8
  <2>2. PICK pair, price : pair = messages[m].pair /\ price = messages[m].price
    OBVIOUS
  <2>3. /\ Goto(h, "idle", "charge") /\ Hold(h, pair, m, price, 0)
        /\ UNCHANGED <<moneyVars, lostVars>>
    BY <2>1, <2>2 DEF UnlockLookup
  <2>4. QED
    BY <1>4, <2>3 DEF moneyVars, lostVars
<1>9. CASE UpsertSubscription(h) \/ AuditCancel(h) \/ CreatePpv(h) \/ ChargeRefused(h) \/ SetUnlock(h)
  BY <1>1, <1>9 DEF UpsertSubscription, AuditCancel, CreatePpv, ChargeRefused, SetUnlock,
     moneyVars, lostVars
<1>10. CASE CancelRemote(h) \/ CancelRow(h) \/ UpsertConversation(h)
  BY <1>3, <1>10 DEF CancelRemote, CancelRow, UpsertConversation, PCs, Goto, moneyVars, lostVars
<1>11. CASE CreateMessage(h)
  <2>1. CASE Finish(h)
    BY <1>1, <1>11, <2>1 DEF CreateMessage, moneyVars, lostVars
  <2>2. CASE ~Finish(h)
    BY <1>2, <1>11, <2>2 DEF CreateMessage, Hold, moneyVars, lostVars
  <2>3. QED
    BY <2>1, <2>2
<1>12. QED
  BY <1>5, <1>6, <1>7, <1>8, <1>9, <1>10, <1>11

LEMMA BoxStep ==
    ASSUME TypeOK, PurchaseInv, BoxInv, [Next]_vars
    PROVE  BoxInv' /\ [Box!BoxNext]_(Box!boxVars)
<1>1. ASSUME NEW h \in Handlers, Arrive(h) \/ Continue(h)
      PROVE  BoxInv' /\ [Box!BoxNext]_(Box!boxVars)
  <2>1. CASE \E f \in Fans, c \in Creators, cents \in Prices : ChargeTip(h, f, c, cents)
    BY <2>1, ChargeTipRecords
  <2>2. CASE CreateTip(h)
    BY <2>2, CreateTipTells
  <2>3. CASE ChargeUnlock(h)
    BY <2>3, ChargeUnlockBox
  <2>4. QED
    BY <1>1, <2>1, <2>2, <2>3, QuietSets, QuietBox DEF Arrive, Continue
<1>2. ASSUME UNCHANGED <<charges, tips, lostCharges, pc, request>>
      PROVE  BoxInv' /\ [Box!BoxNext]_(Box!boxVars)
  <2>1. TipCharges' = TipCharges
    BY <1>2 DEF TipCharges
  <2>2. BoxInv'
    BY <1>2 DEF BoxInv
  <2>3. QED
    BY <1>2, <2>1, <2>2, BoxStays
<1>3. CASE \/ \E f \in Fans, c \in Creators : Activate(f, c)
           \/ \E f \in Fans, t \in Tiers : PayUnknown(f, t)
           \/ Tick
           \/ UNCHANGED vars
  BY <1>2, <1>3 DEF Activate, PayUnknown, Tick, vars, moneyVars, lostVars
<1>4. QED
  BY <1>1, <1>3, FailLoses DEF Next

(* Tips keep the promise of an outbox: a charge for a tip arrives as one   *)
(* tip of its fan, creator and amount, or is lost with its request.        *)
THEOREM TipsKeepOutbox == Spec => TipsArePaidOnce
<1>1. Init => BoxInv /\ Box!BoxInit
  <2> SUFFICES ASSUME Init PROVE BoxInv /\ Box!BoxInit
    OBVIOUS
  <2>1. DOMAIN charges = {} /\ tips = {} /\ lostCharges = {}
        /\ \A h \in Handlers : pc[h] = "idle" /\ request[h].charge = 0
    BY DEF Init, NoRequest
  <2>2. QED
    BY <2>1 DEF BoxInv, Box!BoxInit, AllPaid, TipCharges, ToTip, Tipped, LostPaid
<1>2. TypeOK /\ PurchaseInv /\ BoxInv /\ [Next]_vars => BoxInv' /\ [Box!BoxNext]_(Box!boxVars)
  BY BoxStep
<1>3. QED
  BY <1>1, <1>2, Inductive, PTL DEF Spec, TipsArePaidOnce, Box!BoxSpec

BoxTheorems == INSTANCE OutboxProofs WITH recorded <- AllPaid, untold <- ToTip,
                                          told <- Tipped, lost <- LostPaid

(* So no charge pays for two tips, or for one and is lost, and every tip   *)
(* has its charge.                                                         *)
THEOREM TipsAreAccountedFor == Spec => [](Box!AllAccountedFor /\ Box!ToldAtMostOnce)
<1>1. TipsArePaidOnce => BoxTheorems!BoxSpec
  BY DEF TipsArePaidOnce, Box!BoxSpec, BoxTheorems!BoxSpec, Box!BoxInit, BoxTheorems!BoxInit,
         Box!BoxNext, BoxTheorems!BoxNext, Box!boxVars, BoxTheorems!boxVars, Box!Record,
         BoxTheorems!Record, Box!Tell, BoxTheorems!Tell, Box!Lose, BoxTheorems!Lose
<1>2. BoxTheorems!AllAccountedFor /\ BoxTheorems!ToldAtMostOnce
         => Box!AllAccountedFor /\ Box!ToldAtMostOnce
  BY DEF Box!AllAccountedFor, BoxTheorems!AllAccountedFor, Box!ToldAtMostOnce,
         BoxTheorems!ToldAtMostOnce
<1>3. QED
  BY <1>1, <1>2, TipsKeepOutbox, BoxTheorems!KeepsAccount, PTL
=============================================================================
