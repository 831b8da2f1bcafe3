----------------------------- MODULE Purchases -----------------------------
(***************************************************************************)
(* What fans subscribe to, buy and see: billing.service.ts (checkout and   *)
(* cancellation), messaging.service.ts (messages, paid unlocks, tips) and  *)
(* the entitlement checks of feed.service.ts, all of apps/api/src.         *)
(*                                                                         *)
(* None of these methods opens a database transaction: a request is a      *)
(* sequence of statements, other requests run between any two of them, and *)
(* it may end after any of them.  Money is charged by inserting a          *)
(* transaction whose key is made of the message or the user and of         *)
(* Date.now(), so the clock is part of the model: two charges in one       *)
(* millisecond have one key, and the unique index refuses the second.      *)
(*                                                                         *)
(* Nothing in the repository makes a subscription ACTIVE or gives it the   *)
(* processor's reference: whatever integrates the processor does           *)
(* (external).  It is assumed to know the row a payment is for by the      *)
(* session in its processorRefs: the payment of a session that no row      *)
(* names any more is taken and changes no row.  The period of a            *)
(* subscription and cancelAtPeriodEnd are read by nothing here and left    *)
(* out.                                                                    *)
(***************************************************************************)
EXTENDS Naturals, Sequences, FiniteSets, Money

CONSTANTS Fans,
          Creators,
          Tiers,          \* active subscription tiers
          NoTier,
          TierCreator,    \* the creator of each tier
          Posts,          \* published posts
          Prices,         \* what paid messages and tips may cost
          Handlers,       \* request handlers that may run at once
          MaxMessages,    \* bound: messages in a behaviour
          MaxCharges,     \* bound: transactions in a behaviour
          MaxTime         \* bound: milliseconds a behaviour takes

Post == [creator : Creators, visibility : {"PUBLIC", "SUBSCRIBERS", "TIER_LOCKED"},
         tier : Tiers \cup {NoTier}]

ASSUME PurchasesAssumption ==
    /\ NoTier \notin Tiers
    /\ TierCreator \in [Tiers -> Creators]
    /\ Posts \subseteq Post
    /\ Prices \subseteq Nat \ {0}
    /\ MaxMessages \in Nat /\ MaxCharges \in Nat /\ MaxTime \in Nat

VARIABLES
    subscriptions,  \* per fan and creator: status (NONE without a row), tier, and
                    \* whether processorRefs has the processor's subscriptionRef
    conversations,  \* <<fan, creator>>
    messages,       \* in order; price is 0 without a ppv_messages row, unlock is
                    \* its unlockTxnId
    charges,        \* the transactions messaging inserts, in order
    tips,           \* tips
    audit,          \* <<fan, creator>> with a "subscription_canceled" entry
    now,            \* Date.now()
    pc,             \* where each handler is
    request,        \* what it works on
    opened,         \* the processor's sessions so far: <<fan, tier>>
    activated,      \* history: the sessions that were paid, <<fan, tier>>
    lostCharges,    \* history: charges whose request ended before it delivered
    lostCancels     \* history: cancellations whose request ended before its audit

accountVars == <<subscriptions, audit, opened, activated>>
messageVars == <<conversations, messages>>
moneyVars == <<charges, tips>>
lostVars == <<lostCharges, lostCancels>>
vars == <<accountVars, messageVars, moneyVars, now, pc, request, lostVars>>

Pairs == Fans \X Creators
ChargeIds == 1 .. MaxCharges
MessageIds == 1 .. MaxMessages

Subscription == [status : {"NONE", "INCOMPLETE", "ACTIVE", "CANCELED"},
                 tier : Tiers \cup {NoTier}, ref : BOOLEAN]
NoSubscription == [status |-> "NONE", tier |-> NoTier, ref |-> FALSE]

Message == [pair : Pairs, price : {0} \cup Prices, unlock : {0} \cup ChargeIds]

\* "by" is history: the handler that charged
Charge == [kind : {"PPV_PURCHASE", "TIP"}, pair : Pairs, message : {0} \cup MessageIds,
           time : 0 .. MaxTime, gross : Nat, fee : Nat, net : Nat, by : Handlers]

Tip == [pair : Pairs, amount : Prices, charge : ChargeIds]

NoPair == <<>>
Request == [pair : Pairs \cup {NoPair}, tier : Tiers \cup {NoTier},
            message : {0} \cup MessageIds, price : {0} \cup Prices,
            charge : {0} \cup ChargeIds]
NoRequest == [pair |-> NoPair, tier |-> NoTier, message |-> 0, price |-> 0, charge |-> 0]

-----------------------------------------------------------------------------

Init ==
    /\ subscriptions = [p \in Pairs |-> NoSubscription]
    /\ conversations = {}
    /\ messages = <<>>
    /\ charges = <<>>
    /\ tips = {}
    /\ audit = {}
    /\ now = 0
    /\ pc = [h \in Handlers |-> "idle"]
    /\ request = [h \in Handlers |-> NoRequest]
    /\ opened = {}
    /\ activated = {}
    /\ lostCharges = {}
    /\ lostCancels = {}

Goto(h, from, to) == pc[h] = from /\ pc' = [pc EXCEPT ![h] = to]

Hold(h, pair, message, price, charge) ==
    request' = [request EXCEPT ![h] = [pair |-> pair, tier |-> NoTier,
                   message |-> message, price |-> price, charge |-> charge]]

\* the request is answered, or refused
Finish(h) ==
    /\ pc' = [pc EXCEPT ![h] = "idle"]
    /\ request' = [request EXCEPT ![h] = NoRequest]

(* createSubscriptionCheckout: the tier is there and the processor opened  *)
(* a session (external; if it does not, nothing changes).                  *)
Checkout(h, f, t) ==
    /\ Goto(h, "idle", "upsert")
    /\ opened' = opened \cup {<<f, t>>}
    /\ request' = [request EXCEPT ![h] = [pair |-> <<f, TierCreator[t]>>, tier |-> t,
                       message |-> 0, price |-> 0, charge |-> 0]]
    /\ UNCHANGED <<subscriptions, audit, activated, messageVars, moneyVars, now, lostVars>>

(* mutant: the update of the upsert leaves the status alone *)
UpsertedKeepsStatus(p, t) ==
    [status |-> IF subscriptions[p].status = "NONE" THEN "INCOMPLETE"
                ELSE subscriptions[p].status,
     tier |-> t, ref |-> FALSE]

(* The row the upsert leaves, from no row and from any other alike. *)
Upserted(p, t) == [status |-> "INCOMPLETE", tier |-> t, ref |-> FALSE]

(* createSubscriptionCheckout: subscription.upsert, and the answer. *)
UpsertSubscription(h) ==
    LET p == request[h].pair
    IN  /\ pc[h] = "upsert"
        /\ subscriptions' = [subscriptions EXCEPT ![p] = Upserted(p, request[h].tier)]
        /\ Finish(h)
        /\ UNCHANGED <<audit, opened, activated, messageVars, moneyVars, now, lostVars>>

(* The session that the row names is paid, for the first time or again,    *)
(* also after the row was canceled (external).                             *)
Activate(f, c) ==
    LET p == <<f, c>>
    IN  /\ subscriptions[p].status # "NONE"
        /\ subscriptions' = [subscriptions EXCEPT ![p].status = "ACTIVE", ![p].ref = TRUE]
        /\ activated' = activated \cup {<<f, subscriptions[p].tier>>}
        /\ UNCHANGED <<audit, opened, messageVars, moneyVars, now, pc, request, lostVars>>

(* A session is paid that no row names yet, as its checkout is still on    *)
(* its way to the upsert or died before it, or any more, as a later one    *)
(* took its place in the row (external).                                   *)
PayUnknown(f, t) ==
    /\ <<f, t>> \in opened
    /\ activated' = activated \cup {<<f, t>>}
    /\ UNCHANGED <<subscriptions, audit, opened, messageVars, moneyVars, now, pc, request, lostVars>>

(* cancelSubscription: the row is the fan's, whatever its status. *)
CancelLookup(h, f, c) ==
    /\ subscriptions[<<f, c>>].status # "NONE"
    /\ Goto(h, "idle", IF subscriptions[<<f, c>>].ref THEN "cancelRemote" ELSE "cancelRow")
    /\ Hold(h, <<f, c>>, 0, 0, 0)
    /\ UNCHANGED <<accountVars, messageVars, moneyVars, now, lostVars>>

(* cancelSubscription: the processor is told, and its answer not looked at. *)
CancelRemote(h) ==
    /\ Goto(h, "cancelRemote", "cancelRow")
    /\ UNCHANGED <<accountVars, messageVars, moneyVars, now, request, lostVars>>

(* cancelSubscription: subscription.update, over what the row is by now. *)
CancelRow(h) ==
    LET p == request[h].pair
    IN  /\ Goto(h, "cancelRow", "audit")
        /\ subscriptions' = [subscriptions EXCEPT ![p].status = "CANCELED"]
        /\ UNCHANGED <<audit, opened, activated, messageVars, moneyVars, now, request, lostVars>>

(* cancelSubscription: auditLog.create, and the answer. *)
AuditCancel(h) ==
    /\ pc[h] = "audit"
    /\ audit' = audit \cup {request[h].pair}
    /\ Finish(h)
    /\ UNCHANGED <<subscriptions, opened, activated, messageVars, moneyVars, now, lostVars>>

(* mutant: any subscription opens the conversation *)
SendLookupAnyStatus(h, f, c, price) ==
    /\ subscriptions[<<f, c>>].status # "NONE"
    /\ Goto(h, "idle", "conversation")
    /\ Hold(h, <<f, c>>, 0, price, 0)
    /\ UNCHANGED <<accountVars, messageVars, moneyVars, now, lostVars>>

(* sendMessage: the fan's subscription is ACTIVE; price 0 if none is asked. *)
SendLookup(h, f, c, price) ==
    /\ subscriptions[<<f, c>>].status = "ACTIVE"
    /\ Goto(h, "idle", "conversation")
    /\ Hold(h, <<f, c>>, 0, price, 0)
    /\ UNCHANGED <<accountVars, messageVars, moneyVars, now, lostVars>>

(* sendMessage: conversation.upsert. *)
UpsertConversation(h) ==
    /\ Goto(h, "conversation", "message")
    /\ conversations' = conversations \cup {request[h].pair}
    /\ UNCHANGED <<accountVars, messages, moneyVars, now, request, lostVars>>

(* sendMessage: message.create; a message without a price is answered. *)
CreateMessage(h) ==
    LET r == request[h]
    IN  /\ pc[h] = "message"
        /\ Len(messages) < MaxMessages
        /\ messages' = Append(messages, [pair |-> r.pair, price |-> 0, unlock |-> 0])
        /\ IF r.price = 0
           THEN Finish(h)
           ELSE /\ Goto(h, "message", "ppv")
                /\ Hold(h, r.pair, Len(messages) + 1, r.price, 0)
        /\ UNCHANGED <<accountVars, conversations, moneyVars, now, lostVars>>

(* sendMessage: ppvMessage.create. *)
CreatePpv(h) ==
    /\ pc[h] = "ppv"
    /\ messages' = [messages EXCEPT ![request[h].message].price = request[h].price]
    /\ Finish(h)
    /\ UNCHANGED <<accountVars, conversations, moneyVars, now, lostVars>>

(* mutant: a message that is unlocked is charged like any other *)
UnlockLookupUnchecked(h, f, m) ==
    /\ messages[m].price # 0
    /\ messages[m].pair[1] = f
    /\ Goto(h, "idle", "charge")
    /\ Hold(h, messages[m].pair, m, messages[m].price, 0)
    /\ UNCHANGED <<accountVars, messageVars, moneyVars, now, lostVars>>

(* unlockPpv: the message has a price, is of a conversation of this fan,   *)
(* and is not unlocked; otherwise the request changes nothing.  The second *)
(* query reads what never changes, so the two are one step.                *)
UnlockLookup(h, f, m) ==
    /\ messages[m].price # 0
    /\ messages[m].pair[1] = f
    /\ messages[m].unlock = 0
    /\ Goto(h, "idle", "charge")
    /\ Hold(h, messages[m].pair, m, messages[m].price, 0)
    /\ UNCHANGED <<accountVars, messageVars, moneyVars, now, lostVars>>

(* transaction.create of unlockPpv and sendTip *)
NewCharge(h, kind, pair, m, cents) ==
    [kind |-> kind, pair |-> pair, message |-> m, time |-> now,
     gross |-> cents, fee |-> MessagingFeeCents(cents),
     net |-> cents - MessagingFeeCents(cents), by |-> h]

(* The key ppv_<message>_<now> or tip_<user>_<now> is in the table. *)
KeyTaken(kind, pair, m) ==
    \E i \in DOMAIN charges :
        /\ charges[i].kind = kind
        /\ charges[i].time = now
        /\ IF kind = "TIP" THEN charges[i].pair[1] = pair[1] ELSE charges[i].message = m

Insert(h, kind, pair, m, cents) ==
    /\ Len(charges) < MaxCharges
    /\ ~KeyTaken(kind, pair, m)
    /\ charges' = Append(charges, NewCharge(h, kind, pair, m, cents))

(* unlockPpv: transaction.create. *)
ChargeUnlock(h) ==
    LET r == request[h]
    IN  /\ Goto(h, "charge", "setUnlock")
        /\ Insert(h, "PPV_PURCHASE", r.pair, r.message, r.price)
        /\ Hold(h, r.pair, r.message, r.price, Len(charges) + 1)
        /\ UNCHANGED <<accountVars, messageVars, tips, now, lostVars>>

(* unlockPpv: the unique index refuses the charge; a 500. *)
ChargeRefused(h) ==
    /\ pc[h] = "charge"
    /\ KeyTaken("PPV_PURCHASE", request[h].pair, request[h].message)
    /\ Finish(h)
    /\ UNCHANGED <<accountVars, messageVars, moneyVars, now, lostVars>>

(* mutant: the newest transaction is taken for the one just created *)
SetUnlockNewest(h) ==
    /\ pc[h] = "setUnlock"
    /\ messages' = [messages EXCEPT ![request[h].message].unlock = Len(charges)]
    /\ Finish(h)
    /\ UNCHANGED <<accountVars, conversations, moneyVars, now, lostVars>>

(* unlockPpv: ppvMessage.update, over what unlockTxnId is by now. *)
SetUnlock(h) ==
    /\ pc[h] = "setUnlock"
    /\ messages' = [messages EXCEPT ![request[h].message].unlock = request[h].charge]
    /\ Finish(h)
    /\ UNCHANGED <<accountVars, conversations, moneyVars, now, lostVars>>

(* mutant: the tip itself is never created *)
ChargeTipOnly(h, f, c, cents) ==
    /\ pc[h] = "idle"
    /\ Insert(h, "TIP", <<f, c>>, 0, cents)
    /\ UNCHANGED <<accountVars, messageVars, tips, now, pc, request, lostVars>>

(* sendTip: transaction.create; refused within the millisecond of another. *)
ChargeTip(h, f, c, cents) ==
    /\ Goto(h, "idle", "tip")
    /\ Insert(h, "TIP", <<f, c>>, 0, cents)
    /\ Hold(h, <<f, c>>, 0, cents, Len(charges) + 1)
    /\ UNCHANGED <<accountVars, messageVars, tips, now, lostVars>>

(* mutant: the newest transaction is taken for the one just created *)
CreateTipNewest(h) ==
    /\ pc[h] = "tip"
    /\ tips' = tips \cup {[pair |-> request[h].pair, amount |-> request[h].price,
                           charge |-> Len(charges)]}
    /\ Finish(h)
    /\ UNCHANGED <<accountVars, messageVars, charges, now, lostVars>>

(* sendTip: tip.create, and the answer. *)
CreateTip(h) ==
    /\ pc[h] = "tip"
    /\ tips' = tips \cup {[pair |-> request[h].pair, amount |-> request[h].price,
                           charge |-> request[h].charge]}
    /\ Finish(h)
    /\ UNCHANGED <<accountVars, messageVars, charges, now, lostVars>>

Tick ==
    /\ now < MaxTime
    /\ now' = now + 1
    /\ UNCHANGED <<accountVars, messageVars, moneyVars, pc, request, lostVars>>

(* A statement fails or the process dies: the rest does not happen. *)
Fail(h) ==
    /\ pc[h] # "idle"
    /\ lostCharges' = lostCharges \cup ({request[h].charge} \ {0})
    /\ lostCancels' = IF pc[h] = "audit" THEN lostCancels \cup {request[h].pair}
                      ELSE lostCancels
    /\ Finish(h)
    /\ UNCHANGED <<accountVars, messageVars, moneyVars, now>>

Arrive(h) ==
    \/ \E f \in Fans, t \in Tiers : Checkout(h, f, t)
    \/ \E f \in Fans, c \in Creators :
          \/ CancelLookup(h, f, c)
          \/ \E price \in Prices \cup {0} : SendLookup(h, f, c, price)
          \/ \E cents \in Prices : ChargeTip(h, f, c, cents)
    \/ \E f \in Fans, m \in DOMAIN messages : UnlockLookup(h, f, m)

Continue(h) ==
    \/ UpsertSubscription(h)
    \/ CancelRemote(h)
    \/ CancelRow(h)
    \/ AuditCancel(h)
    \/ UpsertConversation(h)
    \/ CreateMessage(h)
    \/ CreatePpv(h)
    \/ ChargeUnlock(h)
    \/ ChargeRefused(h)
    \/ SetUnlock(h)
    \/ CreateTip(h)

Next ==
    \/ \E h \in Handlers : Arrive(h) \/ Continue(h) \/ Fail(h)
    \/ \E f \in Fans, c \in Creators : Activate(f, c)
    \/ \E f \in Fans, t \in Tiers : PayUnknown(f, t)
    \/ Tick

Spec == Init /\ [][Next]_vars

-----------------------------------------------------------------------------
(* Feeds: feed.service.ts *)

(* isEntitled *)
IsEntitled(post, tiers, hasSub) ==
    \/ post.visibility = "PUBLIC"
    \/ post.visibility = "SUBSCRIBERS" /\ hasSub
    \/ post.visibility = "TIER_LOCKED" /\ post.tier \in tiers

(* fanFeed: posts of creators with an ACTIVE subscription of the fan, of   *)
(* any tier of any of these subscriptions.                                 *)
FanFeed(f) ==
    LET active == {c \in Creators : subscriptions[<<f, c>>].status = "ACTIVE"}
        tiers == {subscriptions[<<f, c>>].tier : c \in active}
    IN  {p \in Posts : p.creator \in active /\ IsEntitled(p, tiers, TRUE)}

(* creatorFeed: a subscription of any status will do. *)
CreatorFeed(f, c) ==
    LET sub == subscriptions[<<f, c>>]
        hasSub == sub.status # "NONE"
    IN  {p \in Posts : p.creator = c
                       /\ IsEntitled(p, IF hasSub THEN {sub.tier} ELSE {}, hasSub)}

-----------------------------------------------------------------------------
(* Properties *)

PCs == {"idle", "upsert", "cancelRemote", "cancelRow", "audit",
        "conversation", "message", "ppv", "charge", "setUnlock", "tip"}

(* Every variable holds what its table or its handler can hold. *)
TypeOK ==
    /\ subscriptions \in [Pairs -> Subscription]
    /\ conversations \subseteq Pairs
    /\ messages \in Seq(Message) /\ Len(messages) <= MaxMessages
    /\ charges \in Seq(Charge) /\ Len(charges) <= MaxCharges
    /\ tips \subseteq Tip
    /\ audit \subseteq Pairs
    /\ now \in 0 .. MaxTime
    /\ pc \in [Handlers -> PCs]
    /\ request \in [Handlers -> Request]
    /\ opened \subseteq Fans \X Tiers
    /\ activated \subseteq Fans \X Tiers
    /\ lostCharges \subseteq ChargeIds
    /\ lostCancels \subseteq Pairs

(* A message is unlocked only by a payment for this very message, by the   *)
(* fan of its conversation, of its price, whatever other unlocks and tips  *)
(* are charged between the statements of unlockPpv.                        *)
UnlocksArePaid ==
    \A m \in DOMAIN messages :
        LET i == messages[m].unlock IN
        i # 0 =>
            /\ i \in DOMAIN charges
            /\ charges[i].kind = "PPV_PURCHASE"
            /\ charges[i].message = m
            /\ charges[i].pair = messages[m].pair
            /\ charges[i].gross = messages[m].price

(* A tip is backed by a transaction of its own, from the same fan to the   *)
(* same creator, of its amount.                                            *)
TipsArePaid ==
    /\ \A tip \in tips :
          /\ tip.charge \in DOMAIN charges
          /\ charges[tip.charge].kind = "TIP"
          /\ charges[tip.charge].pair = tip.pair
          /\ charges[tip.charge].gross = tip.amount
    /\ \A s, t \in tips : s.charge = t.charge => s = t

(* A tip's charge as its tip knows it; those there are, those on their way *)
(* to a tip, those of a tip and those lost                                 *)
TipPaid(i) == <<i, charges[i].pair, charges[i].gross>>
TipCharges == {i \in DOMAIN charges : charges[i].kind = "TIP"}
AllPaid == {TipPaid(i) : i \in TipCharges}
ToTip == {TipPaid(request[h].charge) : h \in {g \in Handlers : pc[g] = "tip"}}
Tipped == {<<tip, <<tip.charge, tip.pair, tip.amount>>>> : tip \in tips}
LostPaid == {TipPaid(i) : i \in lostCharges \cap TipCharges}

Box == INSTANCE Outbox WITH recorded <- AllPaid, untold <- ToTip,
                            told <- Tipped, lost <- LostPaid

(* sendTip keeps the promise of an outbox: what was charged arrives as one *)
(* tip of this fan, creator and amount, or its request died in between;    *)
(* and there is no tip without a charge.                                   *)
TipsArePaidOnce == Box!BoxSpec

(* A fan is charged again for a message only if the request of the first   *)
(* charge died before it unlocked the message, or the two overlapped: one  *)
(* handler, one request after the other, charges once.                     *)
SecondChargeNeedsLoss ==
    \A i, j \in DOMAIN charges :
        /\ i < j
        /\ charges[i].kind = "PPV_PURCHASE" /\ charges[j].kind = "PPV_PURCHASE"
        /\ charges[i].message = charges[j].message
        /\ charges[i].by = charges[j].by
        => i \in lostCharges

(* Who writes to a creator was a paying subscriber, also when the          *)
(* subscription was canceled or checked out again while the message was    *)
(* on its way.                                                             *)
MessagesWerePaidFor ==
    \A m \in DOMAIN messages : \E t \in Tiers :
        TierCreator[t] = messages[m].pair[2] /\ <<messages[m].pair[1], t>> \in activated

(* messaging computes its own fee: it is the platform's, cent for cent,    *)
(* and nothing of the gross amount is lost between creator and platform.   *)
OneFeeSchedule ==
    \A i \in DOMAIN charges :
        /\ charges[i].fee = PlatformFeeCents(charges[i].gross, FeeBps)
        /\ charges[i].net = NetAfterFeeCents(charges[i].gross, FeeBps)

(* What fanFeed shows behind a subscription was paid for, and what it      *)
(* shows behind a tier was paid for at that tier, also after a fan has     *)
(* checked out another tier.                                               *)
FanFeedIsPaidFor ==
    \A f \in Fans : \A p \in FanFeed(f) :
        /\ p.visibility # "PUBLIC" =>
              \E t \in Tiers : TierCreator[t] = p.creator /\ <<f, t>> \in activated
        /\ p.visibility = "TIER_LOCKED" => <<f, p.tier>> \in activated

Delivered(i) ==
    \/ \E tip \in tips : tip.charge = i
    \/ charges[i].kind = "PPV_PURCHASE" /\ messages[charges[i].message].unlock # 0

(* A fan who was charged has the tip or the message, or a request is about *)
(* to deliver it, or that request died: no charge is forgotten otherwise.  *)
ChargesAreDelivered ==
    \A i \in DOMAIN charges :
        \/ Delivered(i)
        \/ \E h \in Handlers : pc[h] \in {"setUnlock", "tip"} /\ request[h].charge = i
        \/ i \in lostCharges

(* docs/architecture.md:69, "records every mutation that affects           *)
(* earnings": a subscription that is CANCELED has an entry in the audit    *)
(* log, or a request is about to make it.  (Per subscription: a second     *)
(* cancellation of a row that has an entry is not told apart.)  The code   *)
(* does not keep this: nobody makes the entry of a request that died.      *)
CancellationsAreAudited ==
    \A p \in Pairs :
        subscriptions[p].status = "CANCELED" =>
            \/ p \in audit
            \/ \E h \in Handlers : pc[h] = "audit" /\ request[h].pair = p

(* apps/web/app/page.tsx:16 speaks of "entitlement-aware feeds": what      *)
(* creatorFeed shows behind a subscription was paid for.                   *)
CreatorFeedIsPaidFor ==
    \A f \in Fans, c \in Creators : \A p \in CreatorFeed(f, c) :
        p.visibility # "PUBLIC" =>
            \E t \in Tiers : TierCreator[t] = c /\ <<f, t>> \in activated
=============================================================================
