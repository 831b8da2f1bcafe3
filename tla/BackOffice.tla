----------------------------- MODULE BackOffice -----------------------------
(***************************************************************************)
(* What moderators, administrators and creators do beside the payments:    *)
(* reports and the moderation queue (moderation.service.ts and             *)
(* admin.service.ts of apps/api/src), payout decisions (admin.service.ts), *)
(* the payout risk score (risk.service.ts) and the enrolment of a second   *)
(* factor (setupTotp, enableTotp of auth.service.ts).                      *)
(*                                                                         *)
(* None of these requests runs in a transaction.  One that issues several  *)
(* statements is a handler that other requests overtake between any two of *)
(* them, and that may end at any of them; one that looks a row up by its   *)
(* id and then writes it, whatever it holds by then, is one step, as rows  *)
(* are never deleted.  Who moderated or approved is left out: nothing      *)
(* reads it.                                                               *)
(*                                                                         *)
(* Of the rest of the system this module has what reaches its tables: the  *)
(* media worker's moderation items (apps/worker/src/main.ts) and the       *)
(* transactions that webhooks and purchases book.  The payouts are         *)
(* external: no code of the repository requests one.                       *)
(***************************************************************************)
EXTENDS Naturals, Sequences, FiniteSets

CONSTANTS Creators,
          NoCreator,
          Targets,        \* what can be reported: posts, media, messages, users
          Payouts,
          Handlers,       \* request handlers that may run at once
          PageSize,       \* items on the moderators' page; 200 in the code
          HoldThreshold,  \* PAYOUT_HOLD_SCORE_THRESHOLD, 30 when not set
          Past,           \* what may have been booked for a creator before
          MaxReports,     \* bound: reports in a behaviour
          MaxItems,       \* bound: items of the moderation queue
          MaxSecrets,     \* bound: TOTP secrets generated
          MaxRequests,    \* bound: requests, bookings and items of the worker
          MaxFaults       \* bound: requests that fail or die

\* What payoutRiskScore counts: two types of transaction, and all of them.
Counted == {"CHARGEBACK", "REFUND", "SUCCEEDED"}

ASSUME BackOfficeAssumption ==
    /\ NoCreator \notin Creators
    /\ PageSize \in Nat /\ HoldThreshold \in 1 .. 100
    /\ Past \subseteq [Counted -> Nat]
    /\ MaxReports \in Nat /\ MaxItems \in Nat /\ MaxSecrets \in Nat
    /\ MaxRequests \in Nat /\ MaxFaults \in Nat

VARIABLES
    reports,    \* content_reports, in order of creation
    queue,      \* moderation_queue_items, in order of insertion, which is taken
                \* to be that of createdAt
    lost,       \* history: reports whose request died before it queued them
    payouts,    \* status of each payout
    audit,      \* payouts that audit_logs has an entry about
    booked,     \* for each creator, how many transactions each query counts
    secret,     \* the secret in each creator's totp_secrets row, 0 without one
    enabled,    \* creators whose row has enabledAt
    secrets,    \* secrets generated so far
    proved,     \* history: secrets of which a request showed a code
    raced,      \* history: secrets set up while their creator's enableTotp ran
    pc,         \* where each handler is
    request,    \* what it works on
    requests,   \* requests so far
    faults      \* requests that failed so far

moderation == <<reports, queue, lost>>
totp == <<secret, enabled, secrets, proved, raced>>
vars == <<moderation, payouts, audit, booked, totp, pc, request, requests, faults>>

ReportIds == 1 .. MaxReports
Secrets == 1 .. MaxSecrets

Report == [target : Targets, status : {"OPEN", "TRIAGED", "RESOLVED", "DISMISSED"}]

\* "report" is the report an item was created for, 0 for the worker's.
Item == [target : Targets, priority : {50, 100}, report : {0} \cup ReportIds,
         status : {"PENDING", "RESOLVED"}]

(* creator and report it is about; for a score: the counts when it began,  *)
(* the queries that are still out, and what the others answered            *)
Request == [creator : Creators \cup {NoCreator}, report : {0} \cup ReportIds,
            began : [Counted -> Nat], out : SUBSET Counted, read : [Counted -> Nat]]

Nothing == [q \in Counted |-> 0]
NoRequest == [creator |-> NoCreator, report |-> 0, began |-> Nothing, out |-> {}, read |-> Nothing]

-----------------------------------------------------------------------------

Init ==
    /\ reports = <<>> /\ queue = <<>> /\ lost = {}
    /\ payouts = [p \in Payouts |-> "REQUESTED"] /\ audit = {}
    /\ booked \in [Creators -> Past]
    /\ secret = [c \in Creators |-> 0] /\ enabled = {} /\ secrets = 0
    /\ proved = {} /\ raced = {}
    /\ pc = [h \in Handlers |-> "idle"]
    /\ request = [h \in Handlers |-> NoRequest]
    /\ requests = 0 /\ faults = 0

Begin == requests < MaxRequests /\ requests' = requests + 1

Goto(h, from, to) == pc[h] = from /\ pc' = [pc EXCEPT ![h] = to]

(* createReport, first statement *)
CreateReport(h, t) ==
    /\ Begin
    /\ Goto(h, "idle", "enqueue")
    /\ Len(reports) < MaxReports
    /\ reports' = Append(reports, [target |-> t, status |-> "OPEN"])
    /\ request' = [request EXCEPT ![h] = [NoRequest EXCEPT !.report = Len(reports) + 1]]
    /\ UNCHANGED <<queue, lost, payouts, audit, booked, totp, faults>>

ItemOf(report) ==
    [target |-> reports[report].target, priority |-> 50, report |-> report,
     status |-> "PENDING"]

(* mutant: a target that is in the queue gets no second item *)
EnqueueOncePerTarget(h) ==
    LET item == ItemOf(request[h].report)
    IN  /\ Goto(h, "enqueue", "idle")
        /\ Len(queue) < MaxItems
        /\ queue' = IF \E i \in DOMAIN queue : queue[i].target = item.target
                    THEN queue ELSE Append(queue, item)
        /\ request' = [request EXCEPT ![h] = NoRequest]
        /\ UNCHANGED <<reports, lost, payouts, audit, booked, totp, requests, faults>>

(* mutant: the item takes the status of its report *)
EnqueueOpen(h) ==
    LET item == ItemOf(request[h].report)
    IN  /\ Goto(h, "enqueue", "idle")
        /\ Len(queue) < MaxItems
        /\ queue' = Append(queue, [item EXCEPT !.status = reports[item.report].status])
        /\ request' = [request EXCEPT ![h] = NoRequest]
        /\ UNCHANGED <<reports, lost, payouts, audit, booked, totp, requests, faults>>

(* createReport, second statement, and the request is answered *)
Enqueue(h) ==
    /\ Goto(h, "enqueue", "idle")
    /\ Len(queue) < MaxItems
    /\ queue' = Append(queue, ItemOf(request[h].report))
    /\ request' = [request EXCEPT ![h] = NoRequest]
    /\ UNCHANGED <<reports, lost, payouts, audit, booked, totp, requests, faults>>

(* triageReport: over whatever status the report has *)
TriageReport(r, status) ==
    /\ Begin
    /\ reports' = [reports EXCEPT ![r].status = status]
    /\ UNCHANGED <<queue, lost, payouts, audit, booked, totp, pc, request, faults>>

(* main.ts of the worker: an item for a medium that did not pass its scan. *)
QueueScanned(t) ==
    /\ Begin
    /\ Len(queue) < MaxItems
    /\ queue' = Append(queue, [target |-> t, priority |-> 100, report |-> 0,
                               status |-> "PENDING"])
    /\ UNCHANGED <<reports, lost, payouts, audit, booked, totp, pc, request, faults>>

Pending == {i \in DOMAIN queue : queue[i].status = "PENDING"}

(* mutant: the newest items first *)
BeforeNewest(i, j) ==
    \/ queue[i].priority > queue[j].priority
    \/ queue[i].priority = queue[j].priority /\ i > j

(* orderBy priority desc, createdAt asc *)
Before(i, j) ==
    \/ queue[i].priority > queue[j].priority
    \/ queue[i].priority = queue[j].priority /\ i < j

(* moderationQueue: the first PageSize items that are PENDING (no code     *)
(* makes one IN_PROGRESS)                                                  *)
Page == {i \in Pending : Cardinality({j \in Pending : Before(j, i)}) < PageSize}

(* resolveModeration *)
ResolveModeration(i) ==
    /\ Begin
    /\ queue' = [queue EXCEPT ![i].status = "RESOLVED"]
    /\ UNCHANGED <<reports, lost, payouts, audit, booked, totp, pc, request, faults>>

(* approvePayout, markPayoutPaid: whatever the status was, and without an  *)
(* entry in audit_logs                                                     *)
ApprovePayout(p) ==
    /\ Begin
    /\ payouts' = [payouts EXCEPT ![p] = "APPROVED"]
    /\ UNCHANGED <<moderation, audit, booked, totp, pc, request, faults>>

MarkPayoutPaid(p) ==
    /\ Begin
    /\ payouts' = [payouts EXCEPT ![p] = "PAID"]
    /\ UNCHANGED <<moderation, audit, booked, totp, pc, request, faults>>

-----------------------------------------------------------------------------
(* The risk score *)

(* A transaction of the creator is booked, always as SUCCEEDED. *)
Book(c, type) ==
    /\ Begin
    /\ booked' = [booked EXCEPT ![c] =
                    [q \in Counted |-> IF q \in {type, "SUCCEEDED"}
                                       THEN booked[c][q] + 1 ELSE booked[c][q]]]
    /\ UNCHANGED <<moderation, payouts, audit, totp, pc, request, faults>>

(* payoutRiskScore sends its three queries ... *)
RiskBegin(h, c) ==
    /\ Begin
    /\ Goto(h, "idle", "count")
    /\ request' = [request EXCEPT ![h] =
                     [creator |-> c, report |-> 0, began |-> booked[c],
                      out |-> Counted, read |-> Nothing]]
    /\ UNCHANGED <<moderation, payouts, audit, booked, totp, faults>>

(* ... and each is answered at a moment of its own, in any order.          *)
Count(h, q) ==
    LET r == request[h]
    IN  /\ pc[h] = "count"
        /\ q \in r.out
        /\ request' = [request EXCEPT ![h] =
                         [creator |-> r.creator, report |-> 0, began |-> r.began,
                          out |-> r.out \ {q},
                          read |-> [r.read EXCEPT ![q] = booked[r.creator][q]]]]
        /\ pc' = [pc EXCEPT ![h] = IF r.out = {q} THEN "scored" ELSE "count"]
        /\ UNCHANGED <<moderation, payouts, audit, booked, totp, requests, faults>>

(* The score and the recommendation are answered. *)
RiskAnswer(h) ==
    /\ Goto(h, "scored", "idle")
    /\ request' = [request EXCEPT ![h] = NoRequest]
    /\ UNCHANGED <<moderation, payouts, audit, booked, totp, requests, faults>>

AtLeastOne(n) == IF n >= 1 THEN n ELSE 1

Weight(counts) == 4 * counts["CHARGEBACK"] + 2 * counts["REFUND"]

(* mutant: the score is cut instead of rounded *)
RiskScoreCut(weight, volume) ==
    LET percent == (100 * weight) \div AtLeastOne(volume)
    IN  IF percent <= 100 THEN percent ELSE 100

(* The n for which the half n + 1/2 is rounded down, as in doubles         *)
(* ((2n+1)/200) * 100 is a little less: 28.499999999999996 for 114/400.    *)
(* Any quotient at a half is that of (2n+1)/200, the other halves below    *)
(* 100 are rounded up, and no other percentage of a volume below 2^40 is   *)
(* near enough to a half to be rounded to the wrong side.                  *)
RoundsDown == {14, 28, 56, 57}

(* Math.round of the percentage as the code computes it, and at most 100. *)
RiskScore(weight, volume) ==
    LET base == AtLeastOne(volume)
        percent == (200 * weight + base) \div (2 * base)
        atHalf == 200 * weight + base = 2 * base * percent
        score == IF atHalf /\ percent - 1 \in RoundsDown THEN percent - 1 ELSE percent
    IN  IF score <= 100 THEN score ELSE 100

HoldRecommended(counts) == RiskScore(Weight(counts), counts["SUCCEEDED"]) >= HoldThreshold

-----------------------------------------------------------------------------
(* The second factor *)

(* mutant: the new secret does not reset enabledAt *)
SetupTotpStaysEnabled(c) ==
    /\ Begin
    /\ secrets < MaxSecrets
    /\ secrets' = secrets + 1
    /\ secret' = [secret EXCEPT ![c] = secrets + 1]
    /\ raced' = IF \E h \in Handlers : pc[h] = "enable" /\ request[h].creator = c
                THEN raced \cup {secrets + 1} ELSE raced
    /\ UNCHANGED <<moderation, payouts, audit, booked, enabled, proved, pc, request, faults>>

(* setupTotp: one upsert, a new secret that is not enabled *)
SetupTotp(c) ==
    /\ Begin
    /\ secrets < MaxSecrets
    /\ secrets' = secrets + 1
    /\ secret' = [secret EXCEPT ![c] = secrets + 1]
    /\ enabled' = enabled \ {c}
    /\ raced' = IF \E h \in Handlers : pc[h] = "enable" /\ request[h].creator = c
                THEN raced \cup {secrets + 1} ELSE raced
    /\ UNCHANGED <<moderation, payouts, audit, booked, proved, pc, request, faults>>

(* enableTotp finds the row, not enabled, and its secret made the code the *)
(* creator sent; a request refused for any of these changes nothing.       *)
EnableLookup(h, c, code) ==
    /\ Begin
    /\ Goto(h, "idle", "enable")
    /\ secret[c] # 0
    /\ c \notin enabled
    /\ code = secret[c]
    /\ proved' = proved \cup {code}
    /\ request' = [request EXCEPT ![h] = [NoRequest EXCEPT !.creator = c]]
    /\ UNCHANGED <<moderation, payouts, audit, booked, secret, enabled, secrets, raced, faults>>

(* enableTotp, update: enabledAt, over whatever secret is there by now *)
EnableTotp(h) ==
    /\ Goto(h, "enable", "idle")
    /\ enabled' = enabled \cup {request[h].creator}
    /\ request' = [request EXCEPT ![h] = NoRequest]
    /\ UNCHANGED <<moderation, payouts, audit, booked, secret, secrets, proved, raced,
                   requests, faults>>

-----------------------------------------------------------------------------

(* A statement fails or the process dies: the rest does not happen. *)
Fail(h) ==
    /\ pc[h] # "idle"
    /\ faults < MaxFaults
    /\ faults' = faults + 1
    /\ lost' = IF pc[h] = "enqueue" THEN lost \cup {request[h].report} ELSE lost
    /\ pc' = [pc EXCEPT ![h] = "idle"]
    /\ request' = [request EXCEPT ![h] = NoRequest]
    /\ UNCHANGED <<reports, queue, payouts, audit, booked, totp, requests>>

Arrive(h) ==
    \/ \E t \in Targets : CreateReport(h, t)
    \/ \E c \in Creators : RiskBegin(h, c)
    \/ \E c \in Creators, code \in Secrets : EnableLookup(h, c, code)

Continue(h) ==
    \/ Enqueue(h)
    \/ \E q \in Counted : Count(h, q)
    \/ RiskAnswer(h)
    \/ EnableTotp(h)

(* Requests of one statement, and what the rest of the system does. *)
Single ==
    \/ \E r \in DOMAIN reports, status \in {"TRIAGED", "RESOLVED", "DISMISSED"} :
          TriageReport(r, status)
    \/ \E i \in DOMAIN queue : ResolveModeration(i)
    \/ \E p \in Payouts : ApprovePayout(p) \/ MarkPayoutPaid(p)
    \/ \E c \in Creators : SetupTotp(c)
    \/ \E t \in Targets : QueueScanned(t)
    \/ \E c \in Creators, type \in {"CHARGEBACK", "REFUND", "OTHER"} : Book(c, type)

Next ==
    \/ \E h \in Handlers : Arrive(h) \/ Continue(h) \/ Fail(h)
    \/ Single

Spec == Init /\ [][Next]_vars

-----------------------------------------------------------------------------
(* Properties *)

(* Every variable holds what its table or its handler can hold. *)
TypeOK ==
    /\ reports \in Seq(Report) /\ Len(reports) <= MaxReports
    /\ queue \in Seq(Item) /\ Len(queue) <= MaxItems
    /\ lost \subseteq ReportIds
    /\ payouts \in [Payouts -> {"REQUESTED", "APPROVED", "PAID"}]
    /\ audit \subseteq Payouts
    /\ booked \in [Creators -> [Counted -> Nat]]
    /\ secret \in [Creators -> {0} \cup Secrets]
    /\ enabled \subseteq Creators
    /\ secrets \in 0 .. MaxSecrets
    /\ proved \subseteq Secrets /\ raced \subseteq Secrets
    /\ pc \in [Handlers -> {"idle", "enqueue", "count", "scored", "enable"}]
    /\ request \in [Handlers -> Request]
    /\ requests \in 0 .. MaxRequests
    /\ faults \in 0 .. MaxFaults

(* Every report comes before the moderators, with an item of its own about *)
(* its target, also when the target was reported before, or is about to,   *)
(* or the request that made it died between its two statements.            *)
ReportsReachQueue ==
    \A r \in DOMAIN reports :
        \/ \E i \in DOMAIN queue : queue[i].report = r /\ queue[i].target = reports[r].target
        \/ \E h \in Handlers : pc[h] = "enqueue" /\ request[h].report = r
        \/ r \in lost

(* A report as its readers know it, whatever its status; the reports there *)
(* are, those on their way to the queue, those in it and those lost        *)
Reported(r) == <<r, reports[r].target>>
AllReported == {Reported(r) : r \in DOMAIN reports}
ToQueue == {Reported(request[h].report) : h \in {g \in Handlers : pc[g] = "enqueue"}}
Queued == {<<i, <<queue[i].report, queue[i].target>>>> :
              i \in {j \in DOMAIN queue : queue[j].report # 0}}
LostReported == {Reported(r) : r \in lost}

Box == INSTANCE Outbox WITH recorded <- AllReported, untold <- ToQueue,
                            told <- Queued, lost <- LostReported

(* The two statements of createReport keep the promise of an outbox: a     *)
(* report comes before the moderators once, and with its own target, or is *)
(* lost with its request; not both, and triage and resolution change       *)
(* neither.                                                                *)
ReportsAreQueuedOnce == Box!BoxSpec

(* An item on the moderators' page stays there until it is resolved or a   *)
(* more urgent one comes in: new reports do not push older ones off it,    *)
(* and resolving others does not hide it.                                  *)
PageIsStable ==
    [][\A i \in Page :
          \/ i \in Page'
          \/ queue'[i].status = "RESOLVED"
          \/ \E j \in DOMAIN queue' \ DOMAIN queue : queue'[j].priority > queue[i].priority]_vars

(* The threshold without rounding: the percentage of weight over volume is *)
(* at most half a point below it, or less than that where the half would   *)
(* be rounded down.                                                        *)
Risky(weight, volume) ==
    LET half == (2 * HoldThreshold - 1) * AtLeastOne(volume)
    IN  IF HoldThreshold - 1 \in RoundsDown THEN 200 * weight > half ELSE 200 * weight >= half

(* The three counts are of three moments.  Whatever was booked in between, *)
(* a hold that is recommended is justified by the chargebacks and refunds  *)
(* there are by now over the volume there was at first; and one that is    *)
(* not recommended was not justified by those there were at first over the *)
(* volume there is by now.                                                 *)
HoldIsBracketed ==
    \A h \in Handlers :
        pc[h] = "scored" =>
            LET r == request[h]
                now == booked[r.creator]
            IN  IF HoldRecommended(r.read)
                THEN Risky(Weight(now), r.began["SUCCEEDED"])
                ELSE ~Risky(Weight(r.began), now["SUCCEEDED"])

(* The second factor of an account is a secret of which somebody showed a  *)
(* code, unless it was set up while a request was about to enable the one  *)
(* before.                                                                 *)
EnabledSecretWasProved == \A c \in enabled : secret[c] \in proved \cup raced

(* docs/architecture.md:69, "records every mutation that affects earnings, *)
(* payouts": a payout that was approved or paid has an entry in the audit  *)
(* log.  The code does not keep this: neither request makes one.           *)
PayoutDecisionsAreAudited == \A p \in Payouts : payouts[p] # "REQUESTED" => p \in audit
=============================================================================
