-------------------------- MODULE BackOfficeProofs --------------------------
(***************************************************************************)
(* Theorems about BackOffice, for any creators, targets, handlers, page    *)
(* size, threshold and bounds: reports reach the moderators, the risk      *)
(* score is within what was booked while it was computed, and an enabled   *)
(* second factor was proved.                                               *)
(***************************************************************************)
EXTENDS BackOffice, FiniteSetTheorems, TLAPS

PCs == {"idle", "enqueue", "count", "scored", "enable"}

(* Handler h may move, the others stay.                                    *)
OnlyMoves(h) == \A g \in Handlers \ {h} : pc'[g] = pc[g] /\ request'[g] = request[g]

LEMMA NoRequestIsRequest ==
    /\ Nothing \in [Counted -> Nat]
    /\ NoRequest \in Request
    /\ \A r \in ReportIds : [NoRequest EXCEPT !.report = r] \in Request
    /\ \A c \in Creators : [NoRequest EXCEPT !.creator = c] \in Request
BY DEF NoRequest, Nothing, Request

LEMMA GotoSets ==
    ASSUME TypeOK, NEW h \in Handlers, NEW from, NEW to \in PCs, Goto(h, from, to)
    PROVE  /\ pc[h] = from /\ pc'[h] = to
           /\ pc' \in [Handlers -> PCs]
           /\ \A g \in Handlers \ {h} : pc'[g] = pc[g]
BY DEF Goto, TypeOK, PCs

LEMMA RequestSets ==
    ASSUME TypeOK, NEW h \in Handlers, NEW r \in Request, request' = [request EXCEPT ![h] = r]
    PROVE  /\ request' \in [Handlers -> Request]
           /\ request'[h] = r
           /\ \A g \in Handlers \ {h} : request'[g] = request[g]
BY DEF TypeOK

LEMMA BeginSets ==
    ASSUME TypeOK, Begin
    PROVE  requests' \in 0 .. MaxRequests
BY BackOfficeAssumption DEF TypeOK, Begin

-----------------------------------------------------------------------------
(* What each action does, in terms the invariants are about.               *)

LEMMA CreateReportSets ==
    ASSUME TypeOK, NEW h \in Handlers, NEW t \in Targets, CreateReport(h, t)
    PROVE  /\ TypeOK' /\ OnlyMoves(h)
           /\ pc[h] = "idle" /\ pc'[h] = "enqueue"
           /\ reports' = Append(reports, [target |-> t, status |-> "OPEN"])
           /\ request'[h].report = Len(reports) + 1
<1>1. PICK n \in ReportIds : n = Len(reports) + 1
  BY BackOfficeAssumption DEF CreateReport, TypeOK, ReportIds
<1>2. [NoRequest EXCEPT !.report = n] \in Request
  BY NoRequestIsRequest
<1>3. [NoRequest EXCEPT !.report = n].report = n
  BY DEF NoRequest
<1>4. /\ request' \in [Handlers -> Request]
      /\ request'[h].report = n
      /\ \A g \in Handlers \ {h} : request'[g] = request[g]
  BY <1>1, <1>2, <1>3, RequestSets DEF CreateReport
<1>5. /\ pc[h] = "idle" /\ pc'[h] = "enqueue" /\ pc' \in [Handlers -> PCs]
      /\ \A g \in Handlers \ {h} : pc'[g] = pc[g]
  BY GotoSets DEF CreateReport, PCs
<1>6. [target |-> t, status |-> "OPEN"] \in Report
  BY DEF Report
<1>7. reports' \in Seq(Report) /\ Len(reports') <= MaxReports
  BY <1>6, BackOfficeAssumption DEF CreateReport, TypeOK
<1>8. UNCHANGED <<queue, lost, payouts, audit, booked, totp, faults>> /\ requests' \in 0 .. MaxRequests
  BY BeginSets DEF CreateReport
<1>9. TypeOK'
  BY <1>4, <1>5, <1>7, <1>8 DEF TypeOK, totp, PCs
<1>10. QED
  BY <1>1, <1>4, <1>5, <1>9 DEF CreateReport, OnlyMoves

(* The steps that end a request leave nothing of it.                       *)
LEMMA EndSets ==
    ASSUME TypeOK, NEW h \in Handlers, pc' = [pc EXCEPT ![h] = "idle"],
           request' = [request EXCEPT ![h] = NoRequest]
    PROVE  /\ request' \in [Handlers -> Request] /\ pc' \in [Handlers -> PCs]
           /\ pc'[h] = "idle" /\ OnlyMoves(h)
<1>1. NoRequest \in Request
  BY NoRequestIsRequest
<1>2. /\ request' \in [Handlers -> Request]
      /\ \A g \in Handlers \ {h} : request'[g] = request[g]
  BY <1>1, RequestSets
<1>3. QED
  BY <1>2 DEF TypeOK, OnlyMoves, PCs

LEMMA EnqueueSets ==
    ASSUME TypeOK, NEW h \in Handlers, Enqueue(h), request[h].report \in DOMAIN reports
    PROVE  /\ TypeOK' /\ OnlyMoves(h)
           /\ pc[h] = "enqueue" /\ pc'[h] = "idle"
           /\ queue' = Append(queue, ItemOf(request[h].report))
           /\ ItemOf(request[h].report) \in Item
<1>1. PICK r \in DOMAIN reports : r = request[h].report
  OBVIOUS
<1>2. reports[r] \in Report /\ r \in ReportIds
  BY BackOfficeAssumption DEF TypeOK, ReportIds
<1>3. ItemOf(r) \in Item
  BY <1>2 DEF ItemOf, Item, Report
<1>4. queue' = Append(queue, ItemOf(r)) /\ Len(queue) < MaxItems
  BY <1>1 DEF Enqueue
<1>5. queue' \in Seq(Item) /\ Len(queue') <= MaxItems
  BY <1>3, <1>4, BackOfficeAssumption DEF TypeOK
<1>6. /\ request' \in [Handlers -> Request] /\ pc' \in [Handlers -> PCs]
      /\ pc'[h] = "idle" /\ OnlyMoves(h)
  BY EndSets DEF Enqueue, Goto
<1>7. TypeOK'
  BY <1>5, <1>6 DEF Enqueue, TypeOK, totp, PCs
<1>8. QED
  BY <1>1, <1>3, <1>4, <1>6, <1>7 DEF Enqueue, Goto

LEMMA TriageSets ==
    ASSUME TypeOK, NEW r \in DOMAIN reports,
           NEW status \in {"TRIAGED", "RESOLVED", "DISMISSED"}, TriageReport(r, status)
    PROVE  /\ TypeOK'
           /\ DOMAIN reports' = DOMAIN reports
           /\ \A q \in DOMAIN reports : reports'[q].target = reports[q].target
           /\ UNCHANGED <<queue, lost, pc, request>>
<1>1. reports[r] \in Report /\ reports \in Seq(Report)
  BY DEF TypeOK
<1>2. [reports[r] EXCEPT !.status = status] \in Report
  BY <1>1 DEF Report
<1>3. reports' = [reports EXCEPT ![r] = [reports[r] EXCEPT !.status = status]]
  BY DEF TriageReport
<1>4. reports' \in Seq(Report) /\ Len(reports') = Len(reports) /\ DOMAIN reports' = DOMAIN reports
  BY <1>1, <1>2, <1>3
<1>5. \A q \in DOMAIN reports : reports'[q].target = reports[q].target
  BY <1>1, <1>3 DEF Report
<1>6. requests' \in 0 .. MaxRequests /\ UNCHANGED <<queue, lost, payouts, audit, booked, totp, pc, request, faults>>
  BY BeginSets DEF TriageReport
<1>7. TypeOK'
  BY <1>4, <1>6 DEF TypeOK, totp
<1>8. QED
  BY <1>4, <1>5, <1>6, <1>7

LEMMA QueueScannedSets ==
    ASSUME TypeOK, NEW t \in Targets, QueueScanned(t)
    PROVE  /\ TypeOK'
           /\ queue' = Append(queue, [target |-> t, priority |-> 100, report |-> 0,
                                      status |-> "PENDING"])
           /\ [target |-> t, priority |-> 100, report |-> 0, status |-> "PENDING"] \in Item
           /\ UNCHANGED <<reports, lost, pc, request>>
<1>1. [target |-> t, priority |-> 100, report |-> 0, status |-> "PENDING"] \in Item
  BY DEF Item
<1>2. queue' \in Seq(Item) /\ Len(queue') <= MaxItems
  BY <1>1, BackOfficeAssumption DEF QueueScanned, TypeOK
<1>3. requests' \in 0 .. MaxRequests
  BY BeginSets DEF QueueScanned
<1>4. QED
  BY <1>1, <1>2, <1>3 DEF QueueScanned, TypeOK, totp

LEMMA ResolveSets ==
    ASSUME TypeOK, NEW i \in DOMAIN queue, ResolveModeration(i)
    PROVE  /\ TypeOK'
           /\ DOMAIN queue' = DOMAIN queue
           /\ queue'[i].status = "RESOLVED"
           /\ \A j \in DOMAIN queue : /\ queue'[j].report = queue[j].report
                                      /\ queue'[j].target = queue[j].target
                                      /\ queue'[j].priority = queue[j].priority
                                      /\ j # i => queue'[j] = queue[j]
           /\ UNCHANGED <<reports, lost, pc, request>>
<1>1. queue[i] \in Item /\ queue \in Seq(Item)
  BY DEF TypeOK
<1>2. [queue[i] EXCEPT !.status = "RESOLVED"] \in Item
  BY <1>1 DEF Item
<1>3. queue' = [queue EXCEPT ![i] = [queue[i] EXCEPT !.status = "RESOLVED"]]
  BY DEF ResolveModeration
<1>4. queue' \in Seq(Item) /\ Len(queue') = Len(queue) /\ DOMAIN queue' = DOMAIN queue
  BY <1>1, <1>2, <1>3
<1>5. /\ queue'[i].status = "RESOLVED"
      /\ \A j \in DOMAIN queue : /\ queue'[j].report = queue[j].report
                                 /\ queue'[j].target = queue[j].target
                                 /\ queue'[j].priority = queue[j].priority
                                 /\ j # i => queue'[j] = queue[j]
  BY <1>1, <1>3 DEF Item
<1>6. requests' \in 0 .. MaxRequests /\ UNCHANGED <<reports, lost, payouts, audit, booked, totp, pc, request, faults>>
  BY BeginSets DEF ResolveModeration
<1>7. TypeOK'
  BY <1>4, <1>6 DEF TypeOK, totp
<1>8. QED
  BY <1>4, <1>5, <1>6, <1>7

LEMMA PayoutSets ==
    ASSUME TypeOK, NEW p \in Payouts, ApprovePayout(p) \/ MarkPayoutPaid(p)
    PROVE  TypeOK' /\ UNCHANGED <<moderation, booked, totp, pc, request>>
<1>1. requests' \in 0 .. MaxRequests
  BY BeginSets DEF ApprovePayout, MarkPayoutPaid
<1>2. payouts' \in [Payouts -> {"REQUESTED", "APPROVED", "PAID"}]
  BY DEF ApprovePayout, MarkPayoutPaid, TypeOK
<1>3. UNCHANGED <<moderation, audit, booked, totp, pc, request, faults>>
  BY DEF ApprovePayout, MarkPayoutPaid
<1>4. QED
  BY <1>1, <1>2, <1>3 DEF TypeOK, moderation, totp

LEMMA BookSets ==
    ASSUME TypeOK, NEW c \in Creators, NEW type, Book(c, type)
    PROVE  /\ TypeOK'
           /\ \A d \in Creators, q \in Counted : booked[d][q] <= booked'[d][q]
           /\ UNCHANGED <<moderation, totp, pc, request>>
<1> DEFINE more == [q \in Counted |-> IF q \in {type, "SUCCEEDED"}
                                      THEN booked[c][q] + 1 ELSE booked[c][q]]
<1>1. booked' = [booked EXCEPT ![c] = more] /\ booked \in [Creators -> [Counted -> Nat]]
  BY DEF Book, TypeOK
<1>2. more \in [Counted -> Nat] /\ \A q \in Counted : booked[c][q] <= more[q]
  BY <1>1
<1>3. booked' \in [Creators -> [Counted -> Nat]]
  BY <1>1, <1>2
<1>4. \A d \in Creators, q \in Counted : booked[d][q] <= booked'[d][q]
  <2> SUFFICES ASSUME NEW d \in Creators, NEW q \in Counted PROVE booked[d][q] <= booked'[d][q]
    OBVIOUS
  <2>1. booked[d][q] \in Nat
    BY <1>1
  <2>2. QED
    BY <1>1, <1>2, <2>1
<1>5. requests' \in 0 .. MaxRequests /\ UNCHANGED <<moderation, payouts, audit, totp, pc, request, faults>>
  BY BeginSets DEF Book
<1>6. QED
  BY <1>3, <1>4, <1>5 DEF TypeOK, moderation, totp

LEMMA RiskBeginSets ==
    ASSUME TypeOK, NEW h \in Handlers, NEW c \in Creators, RiskBegin(h, c)
    PROVE  /\ TypeOK' /\ OnlyMoves(h)
           /\ pc[h] = "idle" /\ pc'[h] = "count"
           /\ request'[h] = [creator |-> c, report |-> 0, began |-> booked[c],
                             out |-> Counted, read |-> Nothing]
           /\ UNCHANGED <<moderation, booked, totp>>
<1> DEFINE r == [creator |-> c, report |-> 0, began |-> booked[c],
                 out |-> Counted, read |-> Nothing]
<1>1. r \in Request
  BY NoRequestIsRequest DEF Request, TypeOK
<1>2. /\ request' \in [Handlers -> Request]
      /\ request'[h] = r
      /\ \A g \in Handlers \ {h} : request'[g] = request[g]
  BY <1>1, RequestSets DEF RiskBegin
<1>3. /\ pc[h] = "idle" /\ pc'[h] = "count" /\ pc' \in [Handlers -> PCs]
      /\ \A g \in Handlers \ {h} : pc'[g] = pc[g]
  BY GotoSets DEF RiskBegin, PCs
<1>4. requests' \in 0 .. MaxRequests /\ UNCHANGED <<moderation, payouts, audit, booked, totp, faults>>
  BY BeginSets DEF RiskBegin
<1>5. QED
  BY <1>2, <1>3, <1>4 DEF TypeOK, moderation, totp, PCs, OnlyMoves

LEMMA CountSets ==
    ASSUME TypeOK, NEW h \in Handlers, NEW q \in Counted, Count(h, q),
           NEW c \in Creators, c = request[h].creator
    PROVE  /\ TypeOK' /\ OnlyMoves(h)
           /\ pc[h] = "count"
           /\ pc'[h] = IF request[h].out = {q} THEN "scored" ELSE "count"
           /\ request'[h] = [creator |-> c, report |-> 0,
                             began |-> request[h].began, out |-> request[h].out \ {q},
                             read |-> [request[h].read EXCEPT ![q] = booked[c][q]]]
           /\ UNCHANGED <<moderation, booked, totp>>
<1>1. PICK r \in Request : r = request[h]
  BY DEF TypeOK
<1>2. PICK read : read = [r.read EXCEPT ![q] = booked[c][q]]
  OBVIOUS
<1> DEFINE new == [creator |-> c, report |-> 0, began |-> r.began,
                   out |-> r.out \ {q}, read |-> read]
<1>3. read \in [Counted -> Nat]
  BY <1>1, <1>2 DEF Request, TypeOK
<1>4. new \in Request
  BY <1>1, <1>3 DEF Request
<1>6. request' = [request EXCEPT ![h] = new]
  BY <1>1, <1>2 DEF Count
<1>5. /\ request' \in [Handlers -> Request]
      /\ request'[h] = new
      /\ \A g \in Handlers \ {h} : request'[g] = request[g]
  BY <1>4, <1>6, RequestSets
<1>7. /\ pc[h] = "count"
      /\ pc' = [pc EXCEPT ![h] = IF r.out = {q} THEN "scored" ELSE "count"]
      /\ UNCHANGED <<moderation, payouts, audit, booked, totp, requests, faults>>
  BY <1>1 DEF Count
<1>8. /\ pc' \in [Handlers -> PCs]
      /\ pc'[h] = IF r.out = {q} THEN "scored" ELSE "count"
      /\ \A g \in Handlers \ {h} : pc'[g] = pc[g]
  BY <1>7 DEF TypeOK, PCs
<1>9. QED
  BY <1>1, <1>2, <1>5, <1>7, <1>8 DEF TypeOK, moderation, totp, PCs, OnlyMoves

LEMMA RiskAnswerSets ==
    ASSUME TypeOK, NEW h \in Handlers, RiskAnswer(h)
    PROVE  /\ TypeOK' /\ OnlyMoves(h)
           /\ pc[h] = "scored" /\ pc'[h] = "idle"
           /\ UNCHANGED <<moderation, booked, totp>>
<1>1. /\ request' \in [Handlers -> Request] /\ pc' \in [Handlers -> PCs]
      /\ pc'[h] = "idle" /\ OnlyMoves(h)
  BY EndSets DEF RiskAnswer, Goto
<1>2. QED
  BY <1>1 DEF RiskAnswer, Goto, TypeOK, moderation, totp, PCs

LEMMA SetupTotpSets ==
    ASSUME TypeOK, NEW c \in Creators, SetupTotp(c)
    PROVE  /\ TypeOK'
           /\ enabled' = enabled \ {c}
           /\ \A d \in Creators \ {c} : secret'[d] = secret[d]
           /\ (\E h \in Handlers : pc[h] = "enable" /\ request[h].creator = c)
                 => secret'[c] \in raced'
           /\ raced \subseteq raced' /\ proved' = proved
           /\ UNCHANGED <<moderation, booked, pc, request>>
<1>1. PICK s \in Secrets : s = secrets + 1 /\ secrets + 1 \in 0 .. MaxSecrets
  BY BackOfficeAssumption DEF SetupTotp, TypeOK, Secrets
<1>2. /\ secrets' = s
      /\ secret' = [secret EXCEPT ![c] = s]
      /\ enabled' = enabled \ {c}
      /\ raced' = IF \E h \in Handlers : pc[h] = "enable" /\ request[h].creator = c
                  THEN raced \cup {s} ELSE raced
      /\ UNCHANGED <<moderation, payouts, audit, booked, proved, pc, request, faults>>
  BY <1>1 DEF SetupTotp
<1>3. secret' \in [Creators -> {0} \cup Secrets] /\ secret'[c] = s /\ raced' \subseteq Secrets
      /\ \A d \in Creators \ {c} : secret'[d] = secret[d]
  BY <1>2 DEF TypeOK
<1>4. requests' \in 0 .. MaxRequests
  BY BeginSets DEF SetupTotp
<1>5. QED
  BY <1>1, <1>2, <1>3, <1>4 DEF TypeOK, moderation

LEMMA EnableLookupSets ==
    ASSUME TypeOK, NEW h \in Handlers, NEW c \in Creators, NEW code \in Secrets,
           EnableLookup(h, c, code)
    PROVE  /\ TypeOK' /\ OnlyMoves(h)
           /\ pc[h] = "idle" /\ pc'[h] = "enable"
           /\ request'[h].creator = c
           /\ secret[c] \in proved'
           /\ proved \subseteq proved'
           /\ UNCHANGED <<moderation, booked, secret, enabled, raced>>
<1>1. [NoRequest EXCEPT !.creator = c] \in Request /\ [NoRequest EXCEPT !.creator = c].creator = c
  BY NoRequestIsRequest DEF NoRequest
<1>2. /\ request' \in [Handlers -> Request]
      /\ request'[h].creator = c
      /\ \A g \in Handlers \ {h} : request'[g] = request[g]
  BY <1>1, RequestSets DEF EnableLookup
<1>3. /\ pc[h] = "idle" /\ pc'[h] = "enable" /\ pc' \in [Handlers -> PCs]
      /\ \A g \in Handlers \ {h} : pc'[g] = pc[g]
  BY GotoSets DEF EnableLookup, PCs
<1>4. /\ requests' \in 0 .. MaxRequests
      /\ proved' = proved \cup {code} /\ code = secret[c]
      /\ UNCHANGED <<moderation, payouts, audit, booked, secret, enabled, secrets, raced, faults>>
  BY BeginSets DEF EnableLookup
<1>5. QED
  BY <1>2, <1>3, <1>4 DEF TypeOK, moderation, PCs, OnlyMoves

LEMMA EnableTotpSets ==
    ASSUME TypeOK, NEW h \in Handlers, EnableTotp(h), request[h].creator \in Creators
    PROVE  /\ TypeOK' /\ OnlyMoves(h)
           /\ pc[h] = "enable" /\ pc'[h] = "idle"
           /\ enabled' = enabled \cup {request[h].creator}
           /\ UNCHANGED <<moderation, booked, secret, proved, raced>>
<1>1. /\ request' \in [Handlers -> Request] /\ pc' \in [Handlers -> PCs]
      /\ pc'[h] = "idle" /\ OnlyMoves(h)
  BY EndSets DEF EnableTotp, Goto
<1>2. QED
  BY <1>1 DEF EnableTotp, Goto, TypeOK, moderation, PCs

LEMMA FailSets ==
    ASSUME TypeOK, NEW h \in Handlers, Fail(h),
           pc[h] = "enqueue" => request[h].report \in ReportIds
    PROVE  /\ TypeOK' /\ OnlyMoves(h)
           /\ pc'[h] = "idle"
           /\ lost \subseteq lost'
           /\ pc[h] = "enqueue" => request[h].report \in lost'
           /\ UNCHANGED <<reports, queue, booked, totp>>
<1>1. /\ request' \in [Handlers -> Request] /\ pc' \in [Handlers -> PCs]
      /\ pc'[h] = "idle" /\ OnlyMoves(h)
  BY EndSets DEF Fail
<1>2. /\ faults' \in 0 .. MaxFaults
      /\ lost' = IF pc[h] = "enqueue" THEN lost \cup {request[h].report} ELSE lost
      /\ UNCHANGED <<reports, queue, payouts, audit, booked, totp, requests>>
  BY BackOfficeAssumption DEF Fail, TypeOK
<1>3. QED
  BY <1>1, <1>2 DEF TypeOK, totp, PCs

-----------------------------------------------------------------------------
(* Reports                                                                 *)

Reached(r) ==
    \/ \E i \in DOMAIN queue : queue[i].report = r /\ queue[i].target = reports[r].target
    \/ \E h \in Handlers : pc[h] = "enqueue" /\ request[h].report = r
    \/ r \in lost

ReportsInv ==
    /\ \A h \in Handlers : pc[h] = "enqueue" => request[h].report \in DOMAIN reports
    /\ \A r \in DOMAIN reports : Reached(r)

(* No report comes, items stay, and what leaves "enqueue" is lost.         *)
LEMMA ReportsStay ==
    ASSUME TypeOK, ReportsInv,
           DOMAIN reports' = DOMAIN reports,
           \A r \in DOMAIN reports : reports'[r].target = reports[r].target,
           \A i \in DOMAIN queue : /\ i \in DOMAIN queue'
                                   /\ queue'[i].report = queue[i].report
                                   /\ queue'[i].target = queue[i].target,
           lost \subseteq lost',
           \A h \in Handlers : pc'[h] = "enqueue" => pc[h] = "enqueue" /\ request'[h] = request[h],
           \A h \in Handlers : pc[h] = "enqueue" =>
               \/ pc'[h] = "enqueue" /\ request'[h] = request[h]
               \/ request[h].report \in lost'
    PROVE  ReportsInv'
<1>1. \A h \in Handlers : pc'[h] = "enqueue" => request'[h].report \in DOMAIN reports'
  BY DEF ReportsInv
<1>2. ASSUME NEW r \in DOMAIN reports PROVE Reached(r)'
  BY DEF ReportsInv, Reached
<1>3. QED
  BY <1>1, <1>2 DEF ReportsInv

LEMMA ReportsFrame ==
    ASSUME TypeOK, ReportsInv, UNCHANGED moderation, NEW h \in Handlers, OnlyMoves(h),
           pc[h] # "enqueue", pc'[h] # "enqueue"
    PROVE  ReportsInv'
<1>1. \A g \in Handlers : /\ pc'[g] = "enqueue" => pc[g] = "enqueue" /\ request'[g] = request[g]
                          /\ pc[g] = "enqueue" => pc'[g] = "enqueue" /\ request'[g] = request[g]
  BY DEF OnlyMoves
<1>2. QED
  BY <1>1, ReportsStay DEF moderation

LEMMA CreateReportReports ==
    ASSUME TypeOK, ReportsInv, NEW h \in Handlers, NEW t \in Targets, CreateReport(h, t)
    PROVE  ReportsInv'
<1>1. /\ OnlyMoves(h) /\ pc[h] = "idle" /\ pc'[h] = "enqueue"
      /\ reports' = Append(reports, [target |-> t, status |-> "OPEN"])
      /\ request'[h].report = Len(reports) + 1
      /\ UNCHANGED <<queue, lost>>
  BY CreateReportSets DEF CreateReport
<1>2. PICK n \in Nat : n = Len(reports) + 1
  BY DEF TypeOK
<1>3. /\ DOMAIN reports' = DOMAIN reports \cup {n}
      /\ \A r \in DOMAIN reports : reports'[r] = reports[r]
  BY <1>1, <1>2 DEF TypeOK
<1>4. \A g \in Handlers : pc'[g] = "enqueue" => request'[g].report \in DOMAIN reports'
  BY <1>1, <1>2, <1>3 DEF OnlyMoves, ReportsInv
<1>5. ASSUME NEW r \in DOMAIN reports PROVE Reached(r)'
  <2>1. Reached(r)
    BY DEF ReportsInv
  <2>2. \A g \in Handlers : pc[g] = "enqueue" => pc'[g] = "enqueue" /\ request'[g] = request[g]
    BY <1>1 DEF OnlyMoves
  <2>3. QED
    BY <1>1, <1>3, <2>1, <2>2 DEF Reached
<1>6. Reached(n)'
  BY <1>1, <1>2 DEF Reached
<1>7. QED
  BY <1>3, <1>4, <1>5, <1>6 DEF ReportsInv

LEMMA EnqueueReports ==
    ASSUME TypeOK, ReportsInv, NEW h \in Handlers, Enqueue(h)
    PROVE  TypeOK' /\ ReportsInv' /\ OnlyMoves(h) /\ pc'[h] = "idle"
<1>1. PICK r \in DOMAIN reports : r = request[h].report
  BY DEF Enqueue, Goto, ReportsInv
<1>2. /\ TypeOK' /\ OnlyMoves(h)
      /\ pc[h] = "enqueue" /\ pc'[h] = "idle"
      /\ queue' = Append(queue, ItemOf(r))
      /\ ItemOf(r) \in Item
  BY <1>1, EnqueueSets
<1>3. UNCHANGED <<reports, lost>>
  BY DEF Enqueue
<1>4. PICK n \in Nat : n = Len(queue) + 1
  BY DEF TypeOK
<1>5. /\ DOMAIN queue' = DOMAIN queue \cup {n}
      /\ \A i \in DOMAIN queue : queue'[i] = queue[i]
      /\ queue'[n] = ItemOf(r)
  BY <1>2, <1>4 DEF TypeOK
<1>6. \A g \in Handlers : pc'[g] = "enqueue" => request'[g].report \in DOMAIN reports'
  BY <1>2, <1>3 DEF OnlyMoves, ReportsInv
<1>7. Reached(r)'
  BY <1>3, <1>5 DEF Reached, ItemOf
<1>8. ASSUME NEW q \in DOMAIN reports, q # r PROVE Reached(q)'
  <2>1. Reached(q)
    BY DEF ReportsInv
  <2>2. \A g \in Handlers : pc[g] = "enqueue" /\ request[g].report = q =>
                                pc'[g] = "enqueue" /\ request'[g] = request[g]
    BY <1>1, <1>2, <1>8 DEF OnlyMoves
  <2>3. QED
    BY <1>3, <1>5, <2>1, <2>2 DEF Reached
<1>9. QED
  BY <1>2, <1>3, <1>6, <1>7, <1>8 DEF ReportsInv

-----------------------------------------------------------------------------
(* Reports as an outbox                                                    *)

(* No two requests are to queue one report, and only what exists is lost.  *)
BoxInv ==
    /\ \A g, h \in Handlers :
          pc[g] = "enqueue" /\ pc[h] = "enqueue" /\ request[g].report = request[h].report => g = h
    /\ lost \subseteq DOMAIN reports

(* A step that takes no part in it: reports keep their targets, items what *)
(* they are about, and requests that are to queue one stay.                *)
LEMMA BoxStays ==
    ASSUME TypeOK, ReportsInv, BoxInv,
           DOMAIN reports' = DOMAIN reports,
           \A r \in DOMAIN reports : reports'[r].target = reports[r].target,
           Queued' = Queued,
           lost' = lost,
           \A h \in Handlers : (pc'[h] = "enqueue") <=> (pc[h] = "enqueue"),
           \A h \in Handlers : pc[h] = "enqueue" => request'[h] = request[h]
    PROVE  BoxInv' /\ UNCHANGED Box!boxVars
<1>1. \A r \in DOMAIN reports : Reported(r)' = Reported(r)
  BY DEF Reported
<1>2. AllReported' = AllReported
  BY <1>1 DEF AllReported
<1>3. \A h \in Handlers : pc[h] = "enqueue" => Reported(request[h].report)' = Reported(request[h].report)
  BY DEF Reported, ReportsInv
<1>4. {g \in Handlers : pc'[g] = "enqueue"} = {g \in Handlers : pc[g] = "enqueue"}
  OBVIOUS
<1>5. ToQueue' = ToQueue
  BY <1>3, <1>4 DEF ToQueue
<1>6. LostReported' = LostReported
  BY <1>1 DEF LostReported, BoxInv
<1>7. BoxInv'
  BY DEF BoxInv
<1>8. QED
  BY <1>2, <1>5, <1>6, <1>7 DEF Box!boxVars

(* What is queued when one item is put behind the others.                  *)
LEMMA AppendQueued ==
    ASSUME TypeOK, NEW item, queue' = Append(queue, item)
    PROVE  \E n \in Nat :
              Queued' = Queued \cup (IF item.report = 0 THEN {}
                                     ELSE {<<n, <<item.report, item.target>>>>})
<1>1. PICK n \in Nat : n = Len(queue) + 1
  BY DEF TypeOK
<1>2. /\ DOMAIN queue' = DOMAIN queue \cup {n}
      /\ \A i \in DOMAIN queue : queue'[i] = queue[i]
      /\ queue'[n] = item /\ n \notin DOMAIN queue
  BY <1>1 DEF TypeOK
<1> DEFINE old == {j \in DOMAIN queue : queue[j].report # 0}
<1> DEFINE new == {j \in DOMAIN queue' : queue'[j].report # 0}
<1>3. CASE item.report = 0
  <2>1. new = old
    BY <1>2, <1>3
  <2>2. {<<i, <<queue'[i].report, queue'[i].target>>>> : i \in new}
           = {<<i, <<queue[i].report, queue[i].target>>>> : i \in old}
    BY <1>2, <2>1
  <2>3. QED
    BY <1>3, <2>2 DEF Queued
<1>4. CASE item.report # 0
  <2>1. new = old \cup {n}
    BY <1>2, <1>4
  <2>2. {<<i, <<queue'[i].report, queue'[i].target>>>> : i \in new}
           = {<<i, <<queue[i].report, queue[i].target>>>> : i \in old}
                \cup {<<n, <<item.report, item.target>>>>}
    BY <1>2, <2>1
  <2>3. QED
    BY <1>4, <2>2 DEF Queued
<1>5. QED
  BY <1>3, <1>4

(* createReport's first statement records.                                 *)
LEMMA CreateReportRecords ==
    ASSUME TypeOK, ReportsInv, BoxInv, NEW h \in Handlers, NEW t \in Targets, CreateReport(h, t)
    PROVE  BoxInv' /\ Box!BoxNext
<1>1. /\ OnlyMoves(h) /\ pc[h] = "idle" /\ pc'[h] = "enqueue"
      /\ reports' = Append(reports, [target |-> t, status |-> "OPEN"])
      /\ request'[h].report = Len(reports) + 1
      /\ UNCHANGED <<queue, lost>>
  BY CreateReportSets DEF CreateReport
<1>2. PICK n \in Nat : n = Len(reports) + 1
  BY DEF TypeOK
<1>3. /\ DOMAIN reports' = DOMAIN reports \cup {n} /\ n \notin DOMAIN reports
      /\ \A r \in DOMAIN reports : reports'[r] = reports[r]
  BY <1>1, <1>2 DEF TypeOK
<1>4. BoxInv'
  BY <1>1, <1>2, <1>3 DEF BoxInv, OnlyMoves, ReportsInv
<1>5. \A r \in DOMAIN reports : Reported(r)' = Reported(r)
  BY <1>3 DEF Reported
<1>6. PICK fact : fact = Reported(n)'
  OBVIOUS
<1>7. AllReported' = AllReported \cup {fact}
  BY <1>3, <1>5, <1>6 DEF AllReported
<1>8. fact \notin AllReported
  BY <1>3, <1>6 DEF AllReported, Reported
<1>9. {g \in Handlers : pc'[g] = "enqueue"} = {g \in Handlers : pc[g] = "enqueue"} \cup {h}
  BY <1>1 DEF OnlyMoves
<1>10. \A g \in Handlers : pc[g] = "enqueue" =>
          Reported(request[g].report)' = Reported(request[g].report)
  BY <1>1, <1>3 DEF OnlyMoves, ReportsInv, Reported
<1>11. Reported(request[h].report)' = fact
  BY <1>1, <1>2, <1>6 DEF Reported
<1>12. ToQueue' = ToQueue \cup {fact}
  BY <1>9, <1>10, <1>11 DEF ToQueue
<1>13. LostReported' = LostReported /\ Queued' = Queued
  BY <1>1, <1>5 DEF LostReported, BoxInv, Queued
<1>14. Box!Record(fact)
  BY <1>7, <1>8, <1>12, <1>13 DEF Box!Record
<1>15. QED
  BY <1>4, <1>7, <1>14 DEF Box!BoxNext

(* What the request of h was to queue is off its hands, and only that.     *)
LEMMA LeavesQueue ==
    ASSUME TypeOK, ReportsInv, BoxInv, NEW h \in Handlers, OnlyMoves(h),
           pc[h] = "enqueue", pc'[h] # "enqueue", reports' = reports
    PROVE  /\ Reported(request[h].report) \in ToQueue
           /\ ToQueue' = ToQueue \ {Reported(request[h].report)}
<1>1. \A g \in Handlers \ {h} : pc[g] = "enqueue" => request[g].report # request[h].report
  BY DEF BoxInv
<1>2. {g \in Handlers : pc'[g] = "enqueue"} = {g \in Handlers : pc[g] = "enqueue"} \ {h}
  BY DEF OnlyMoves
<1>3. \A g \in Handlers \ {h} : Reported(request[g].report)' = Reported(request[g].report)
  BY DEF OnlyMoves, Reported
<1>4. \A g \in Handlers \ {h} : pc[g] = "enqueue" =>
          Reported(request[g].report) # Reported(request[h].report)
  BY <1>1 DEF Reported
<1>5. QED
  BY <1>2, <1>3, <1>4 DEF ToQueue

(* createReport's second statement tells.                                  *)
LEMMA EnqueueTells ==
    ASSUME TypeOK, ReportsInv, BoxInv, NEW h \in Handlers, Enqueue(h)
    PROVE  BoxInv' /\ Box!BoxNext
<1>1. PICK r \in DOMAIN reports : r = request[h].report
  BY DEF Enqueue, Goto, ReportsInv
<1>2. /\ OnlyMoves(h) /\ pc[h] = "enqueue" /\ pc'[h] = "idle"
      /\ queue' = Append(queue, ItemOf(r))
      /\ UNCHANGED <<reports, lost>>
  BY <1>1, EnqueueSets DEF Enqueue
<1>3. r # 0 /\ ItemOf(r).report = r /\ ItemOf(r).target = reports[r].target
  BY DEF TypeOK, ItemOf
<1>4. PICK n \in Nat : Queued' = Queued \cup {<<n, Reported(r)>>}
  BY <1>2, <1>3, AppendQueued DEF Reported
<1>5. Reported(r) \in ToQueue /\ ToQueue' = ToQueue \ {Reported(r)}
  BY <1>1, <1>2, LeavesQueue
<1>6. AllReported' = AllReported /\ LostReported' = LostReported
  BY <1>2 DEF AllReported, LostReported, Reported
<1>7. BoxInv'
  BY <1>2 DEF BoxInv, OnlyMoves
<1>8. Box!Tell(n, Reported(r))
  BY <1>4, <1>5, <1>6 DEF Box!Tell
<1>9. PICK new : new = <<n, Reported(r)>>
  OBVIOUS
<1>10. new \in Queued' /\ Box!Tell(new[1], new[2])
  BY <1>4, <1>8, <1>9
<1>11. QED
  BY <1>7, <1>10 DEF Box!BoxNext

(* A request that dies between the two loses.                              *)
LEMMA FailLoses ==
    ASSUME TypeOK, ReportsInv, BoxInv, NEW h \in Handlers, Fail(h)
    PROVE  BoxInv' /\ [Box!BoxNext]_(Box!boxVars)
<1>1. /\ OnlyMoves(h) /\ pc'[h] = "idle"
      /\ lost' = IF pc[h] = "enqueue" THEN lost \cup {request[h].report} ELSE lost
      /\ UNCHANGED <<reports, queue>>
  <2>1. pc[h] = "enqueue" => request[h].report \in ReportIds
    BY BackOfficeAssumption DEF ReportsInv, TypeOK, ReportIds
  <2>2. QED
    BY <2>1, FailSets DEF Fail
<1>2. CASE pc[h] # "enqueue"
  <2>1. Queued' = Queued
    BY <1>1 DEF Queued
  <2>2. QED
    BY <1>1, <1>2, <2>1, BoxStays DEF OnlyMoves
<1>3. CASE pc[h] = "enqueue"
  <2>1. PICK r \in DOMAIN reports : r = request[h].report
    BY <1>3 DEF ReportsInv
  <2>2. Reported(r) \in ToQueue /\ ToQueue' = ToQueue \ {Reported(r)}
    BY <1>1, <1>3, <2>1, LeavesQueue
  <2>3. AllReported' = AllReported /\ Queued' = Queued
        /\ LostReported' = LostReported \cup {Reported(r)}
    BY <1>1, <1>3, <2>1 DEF AllReported, Queued, LostReported, Reported
  <2>4. BoxInv'
    BY <1>1, <1>3, <2>1 DEF BoxInv, OnlyMoves
  <2>5. Box!Lose(Reported(r))
    BY <2>2, <2>3 DEF Box!Lose
  <2>6. QED
    BY <2>2, <2>4, <2>5 DEF Box!BoxNext
<1>4. QED
  BY <1>2, <1>3

-----------------------------------------------------------------------------
(* The score                                                               *)

ScoreOf(h) ==
    pc[h] \in {"count", "scored"} =>
        /\ request[h].creator \in Creators
        /\ \A q \in Counted : request[h].began[q] <= booked[request[h].creator][q]
        /\ \A q \in Counted \ request[h].out :
              /\ request[h].began[q] <= request[h].read[q]
              /\ request[h].read[q] <= booked[request[h].creator][q]
        /\ pc[h] = "scored" => request[h].out = {}

ScoreInv == \A h \in Handlers : ScoreOf(h)

(* Bookings only add.                                                      *)
LEMMA ScoreStays ==
    ASSUME TypeOK, TypeOK', NEW h \in Handlers, ScoreOf(h), pc'[h] = pc[h], request'[h] = request[h],
           \A c \in Creators, q \in Counted : booked[c][q] <= booked'[c][q]
    PROVE  ScoreOf(h)'
<1> SUFFICES ASSUME pc[h] \in {"count", "scored"} PROVE ScoreOf(h)'
  BY DEF ScoreOf
<1>1. PICK r \in Request : r = request[h] /\ r.creator \in Creators
  BY DEF TypeOK, ScoreOf
<1>2. PICK c \in Creators : c = r.creator
  BY <1>1
<1>3. \A q \in Counted : /\ booked[c][q] \in Nat /\ booked'[c][q] \in Nat
                         /\ r.began[q] \in Nat /\ r.read[q] \in Nat
  BY <1>1 DEF TypeOK, Request
<1>4. /\ \A q \in Counted : r.began[q] <= booked'[c][q]
      /\ \A q \in Counted \ r.out : r.began[q] <= r.read[q] /\ r.read[q] <= booked'[c][q]
  BY <1>1, <1>2, <1>3 DEF ScoreOf
<1>5. QED
  BY <1>1, <1>2, <1>4 DEF ScoreOf

LEMMA ScoreFrame ==
    ASSUME TypeOK, TypeOK', ScoreInv, UNCHANGED booked, NEW h \in Handlers, OnlyMoves(h), ScoreOf(h)'
    PROVE  ScoreInv'
<1> SUFFICES ASSUME NEW g \in Handlers, g # h PROVE ScoreOf(g)'
  BY DEF ScoreInv
<1>1. \A c \in Creators, q \in Counted : booked[c][q] <= booked'[c][q]
  BY DEF TypeOK
<1>2. QED
  BY <1>1, ScoreStays DEF OnlyMoves, ScoreInv

LEMMA RiskBeginScore ==
    ASSUME TypeOK, ScoreInv, NEW h \in Handlers, NEW c \in Creators, RiskBegin(h, c)
    PROVE  ScoreInv'
<1>1. /\ TypeOK' /\ OnlyMoves(h) /\ pc'[h] = "count"
      /\ request'[h] = [creator |-> c, report |-> 0, began |-> booked[c],
                        out |-> Counted, read |-> Nothing]
      /\ UNCHANGED booked
  BY RiskBeginSets
<1>2. \A q \in Counted : booked[c][q] <= booked[c][q]
  BY DEF TypeOK
<1>3. ScoreOf(h)'
  BY <1>1, <1>2 DEF ScoreOf
<1>4. QED
  BY <1>1, <1>3, ScoreFrame

LEMMA CountScore ==
    ASSUME TypeOK, ScoreInv, NEW h \in Handlers, NEW q \in Counted, Count(h, q)
    PROVE  /\ TypeOK' /\ ScoreInv' /\ OnlyMoves(h)
           /\ pc[h] = "count" /\ pc'[h] \in {"count", "scored"}
           /\ UNCHANGED <<moderation, totp>>
<1>1. pc[h] = "count" /\ q \in request[h].out
  BY DEF Count
<1>2. PICK c \in Creators : c = request[h].creator
  BY <1>1 DEF ScoreInv, ScoreOf
<1>3. PICK r \in Request : r = request[h]
  BY DEF TypeOK
<1>4. /\ TypeOK' /\ OnlyMoves(h)
      /\ pc'[h] = IF r.out = {q} THEN "scored" ELSE "count"
      /\ request'[h] = [creator |-> c, report |-> 0, began |-> r.began, out |-> r.out \ {q},
                        read |-> [r.read EXCEPT ![q] = booked[c][q]]]
      /\ UNCHANGED <<moderation, booked, totp>>
  BY <1>2, <1>3, CountSets
<1>5. /\ \A k \in Counted : r.began[k] <= booked[c][k]
      /\ \A k \in Counted \ r.out : r.began[k] <= r.read[k] /\ r.read[k] <= booked[c][k]
      /\ r.read \in [Counted -> Nat] /\ booked[c] \in [Counted -> Nat]
  BY <1>1, <1>2, <1>3 DEF ScoreInv, ScoreOf, TypeOK, Request
<1>6. PICK read : read = [r.read EXCEPT ![q] = booked[c][q]]
  OBVIOUS
<1>7. \A k \in Counted \ (r.out \ {q}) : r.began[k] <= read[k] /\ read[k] <= booked[c][k]
  BY <1>5, <1>6
<1>8. ScoreOf(h)'
  BY <1>4, <1>5, <1>6, <1>7 DEF ScoreOf
<1>9. ScoreInv'
  BY <1>4, <1>8, ScoreFrame
<1>10. QED
  BY <1>1, <1>4, <1>9

-----------------------------------------------------------------------------
(* The second factor                                                       *)

ProvedOrRaced(c) == secret[c] \in proved \cup raced

TotpInv ==
    /\ \A h \in Handlers : pc[h] = "enable" =>
          request[h].creator \in Creators /\ ProvedOrRaced(request[h].creator)
    /\ \A c \in enabled : ProvedOrRaced(c)

LEMMA TotpFrame ==
    ASSUME TotpInv, UNCHANGED totp, NEW h \in Handlers, OnlyMoves(h), pc'[h] # "enable"
    PROVE  TotpInv'
<1>1. \A c : ProvedOrRaced(c)' <=> ProvedOrRaced(c)
  BY DEF totp, ProvedOrRaced
<1>2. \A g \in Handlers : pc'[g] = "enable" => pc[g] = "enable" /\ request'[g] = request[g]
  BY DEF OnlyMoves
<1>3. QED
  BY <1>1, <1>2 DEF TotpInv, totp, ProvedOrRaced

LEMMA SetupTotpTotp ==
    ASSUME TypeOK, TotpInv, NEW c \in Creators, SetupTotp(c)
    PROVE  TotpInv'
<1>1. /\ enabled' = enabled \ {c}
      /\ \A d \in Creators \ {c} : secret'[d] = secret[d]
      /\ (\E h \in Handlers : pc[h] = "enable" /\ request[h].creator = c) => secret'[c] \in raced'
      /\ raced \subseteq raced' /\ proved' = proved
      /\ UNCHANGED <<pc, request>>
  BY SetupTotpSets
<1>2. \A d \in Creators \ {c} : ProvedOrRaced(d) => ProvedOrRaced(d)'
  BY <1>1 DEF ProvedOrRaced
<1>3. ASSUME NEW h \in Handlers, pc'[h] = "enable"
      PROVE  /\ request'[h].creator \in Creators
             /\ secret'[request'[h].creator] \in proved' \cup raced'
  <2>1. PICK d \in Creators : d = request[h].creator /\ ProvedOrRaced(d)
    BY <1>1, <1>3 DEF TotpInv
  <2>2. ProvedOrRaced(d)'
    BY <1>1, <1>2, <1>3, <2>1 DEF ProvedOrRaced
  <2>3. QED
    BY <1>1, <2>1, <2>2 DEF ProvedOrRaced
<1>4. \A d \in enabled' : ProvedOrRaced(d)'
  BY <1>1, <1>2 DEF TotpInv, TypeOK
<1>5. QED
  BY <1>3, <1>4 DEF TotpInv, ProvedOrRaced

LEMMA EnableLookupTotp ==
    ASSUME TypeOK, TotpInv, NEW h \in Handlers, NEW c \in Creators, NEW code \in Secrets,
           EnableLookup(h, c, code)
    PROVE  TotpInv'
<1>1. /\ OnlyMoves(h) /\ request'[h].creator = c /\ secret[c] \in proved'
      /\ proved \subseteq proved'
      /\ UNCHANGED <<secret, enabled, raced>>
  BY EnableLookupSets
<1>2. \A d : ProvedOrRaced(d) => ProvedOrRaced(d)'
  BY <1>1 DEF ProvedOrRaced
<1>3. ProvedOrRaced(c)'
  BY <1>1 DEF ProvedOrRaced
<1>4. QED
  BY <1>1, <1>2, <1>3 DEF TotpInv, OnlyMoves, ProvedOrRaced

LEMMA EnableTotpTotp ==
    ASSUME TypeOK, TotpInv, NEW h \in Handlers, EnableTotp(h)
    PROVE  TypeOK' /\ TotpInv'
<1>1. PICK c \in Creators : c = request[h].creator /\ ProvedOrRaced(c)
  BY DEF EnableTotp, Goto, TotpInv
<1>2. /\ TypeOK' /\ OnlyMoves(h) /\ pc'[h] = "idle"
      /\ enabled' = enabled \cup {c}
      /\ UNCHANGED <<secret, proved, raced>>
  BY <1>1, EnableTotpSets
<1>3. \A d : ProvedOrRaced(d) => ProvedOrRaced(d)'
  BY <1>2 DEF ProvedOrRaced
<1>4. QED
  BY <1>1, <1>2, <1>3 DEF TotpInv, OnlyMoves, ProvedOrRaced

-----------------------------------------------------------------------------

BackOfficeInv == ReportsInv /\ ScoreInv /\ TotpInv

LEMMA ArriveStep ==
    ASSUME TypeOK, BackOfficeInv, NEW h \in Handlers, Arrive(h)
    PROVE  TypeOK' /\ BackOfficeInv'
<1>1. ASSUME NEW t \in Targets, CreateReport(h, t)
      PROVE  TypeOK' /\ BackOfficeInv'
  <2>1. TypeOK' /\ OnlyMoves(h) /\ pc'[h] = "enqueue" /\ UNCHANGED <<booked, totp>>
    BY <1>1, CreateReportSets DEF CreateReport
  <2>2. ScoreOf(h)'
    BY <2>1 DEF ScoreOf
  <2>3. QED
    BY <1>1, <2>1, <2>2, CreateReportReports, ScoreFrame, TotpFrame DEF BackOfficeInv
<1>2. ASSUME NEW c \in Creators, RiskBegin(h, c)
      PROVE  TypeOK' /\ BackOfficeInv'
  <2>1. TypeOK' /\ OnlyMoves(h) /\ pc[h] = "idle" /\ pc'[h] = "count" /\ UNCHANGED <<moderation, totp>>
    BY <1>2, RiskBeginSets
  <2>2. QED
    BY <1>2, <2>1, RiskBeginScore, ReportsFrame, TotpFrame DEF BackOfficeInv
<1>3. ASSUME NEW c \in Creators, NEW code \in Secrets, EnableLookup(h, c, code)
      PROVE  TypeOK' /\ BackOfficeInv'
  <2>1. /\ TypeOK' /\ OnlyMoves(h) /\ pc[h] = "idle" /\ pc'[h] = "enable"
        /\ UNCHANGED <<moderation, booked>>
    BY <1>3, EnableLookupSets
  <2>2. ScoreOf(h)'
    BY <2>1 DEF ScoreOf
  <2>3. QED
    BY <1>3, <2>1, <2>2, EnableLookupTotp, ReportsFrame, ScoreFrame DEF BackOfficeInv
<1>4. QED
  BY <1>1, <1>2, <1>3 DEF Arrive

LEMMA ContinueStep ==
    ASSUME TypeOK, BackOfficeInv, NEW h \in Handlers, Continue(h) \/ Fail(h)
    PROVE  TypeOK' /\ BackOfficeInv'
<1>1. CASE Enqueue(h)
  <2>1. /\ TypeOK' /\ ReportsInv' /\ OnlyMoves(h) /\ pc'[h] = "idle"
        /\ UNCHANGED <<booked, totp>>
    BY <1>1, EnqueueReports DEF BackOfficeInv, Enqueue
  <2>2. ScoreOf(h)'
    BY <2>1 DEF ScoreOf
  <2>3. QED
    BY <2>1, <2>2, ScoreFrame, TotpFrame DEF BackOfficeInv
<1>2. ASSUME NEW q \in Counted, Count(h, q)
      PROVE  TypeOK' /\ BackOfficeInv'
  <2>1. /\ TypeOK' /\ ScoreInv' /\ OnlyMoves(h)
        /\ pc[h] = "count" /\ pc'[h] \in {"count", "scored"}
        /\ UNCHANGED <<moderation, totp>>
    BY <1>2, CountScore DEF BackOfficeInv
  <2>2. QED
    BY <2>1, ReportsFrame, TotpFrame DEF BackOfficeInv
<1>3. CASE RiskAnswer(h)
  <2>1. /\ TypeOK' /\ OnlyMoves(h) /\ pc[h] = "scored" /\ pc'[h] = "idle"
        /\ UNCHANGED <<moderation, booked, totp>>
    BY <1>3, RiskAnswerSets
  <2>2. ScoreOf(h)'
    BY <2>1 DEF ScoreOf
  <2>3. QED
    BY <2>1, <2>2, ReportsFrame, ScoreFrame, TotpFrame DEF BackOfficeInv
<1>4. CASE EnableTotp(h)
  <2>1. PICK c \in Creators : c = request[h].creator
    BY <1>4 DEF EnableTotp, Goto, BackOfficeInv, TotpInv
  <2>2. /\ TypeOK' /\ OnlyMoves(h) /\ pc[h] = "enable" /\ pc'[h] = "idle"
        /\ UNCHANGED <<moderation, booked>>
    BY <1>4, <2>1, EnableTotpSets
  <2>3. ScoreOf(h)'
    BY <2>2 DEF ScoreOf
  <2>4. QED
    BY <1>4, <2>2, <2>3, EnableTotpTotp, ReportsFrame, ScoreFrame DEF BackOfficeInv
<1>5. CASE Fail(h)
  <2>1. pc[h] = "enqueue" => request[h].report \in ReportIds
    BY BackOfficeAssumption DEF BackOfficeInv, ReportsInv, TypeOK, ReportIds
  <2>2. /\ TypeOK' /\ OnlyMoves(h) /\ pc'[h] = "idle"
        /\ lost \subseteq lost'
        /\ pc[h] = "enqueue" => request[h].report \in lost'
        /\ UNCHANGED <<reports, queue, booked, totp>>
    BY <1>5, <2>1, FailSets
  <2>3. ScoreOf(h)'
    BY <2>2 DEF ScoreOf
  <2>4. \A g \in Handlers : /\ pc'[g] = "enqueue" => pc[g] = "enqueue" /\ request'[g] = request[g]
                            /\ pc[g] = "enqueue" => \/ pc'[g] = "enqueue" /\ request'[g] = request[g]
                                                    \/ request[g].report \in lost'
    BY <2>2 DEF OnlyMoves
  <2>5. ReportsInv'
    BY <2>2, <2>4, ReportsStay DEF BackOfficeInv
  <2>6. QED
    BY <2>2, <2>3, <2>5, ScoreFrame, TotpFrame DEF BackOfficeInv
<1>6. QED
  BY <1>1, <1>2, <1>3, <1>4, <1>5 DEF Continue

(* A step in which no handler moves keeps what does not change.            *)
LEMMA SingleFrames ==
    ASSUME TypeOK, TypeOK', BackOfficeInv, UNCHANGED <<pc, request>>
    PROVE  /\ UNCHANGED moderation => ReportsInv'
           /\ UNCHANGED booked => ScoreInv'
           /\ UNCHANGED totp => TotpInv'
<1>1. UNCHANGED moderation => ReportsInv'
  BY DEF BackOfficeInv, ReportsInv, Reached, moderation
<1>2. ASSUME UNCHANGED booked PROVE ScoreInv'
  BY <1>2 DEF BackOfficeInv, ScoreInv, ScoreOf
<1>3. UNCHANGED totp => TotpInv'
  BY DEF BackOfficeInv, TotpInv, ProvedOrRaced, totp
<1>4. QED
  BY <1>1, <1>2, <1>3

LEMMA SingleStep ==
    ASSUME TypeOK, BackOfficeInv, Single
    PROVE  TypeOK' /\ BackOfficeInv'
<1>1. ASSUME NEW r \in DOMAIN reports, NEW status \in {"TRIAGED", "RESOLVED", "DISMISSED"},
             TriageReport(r, status)
      PROVE  TypeOK' /\ BackOfficeInv'
  <2>1. /\ TypeOK'
        /\ DOMAIN reports' = DOMAIN reports
        /\ \A q \in DOMAIN reports : reports'[q].target = reports[q].target
        /\ UNCHANGED <<queue, lost, pc, request>>
    BY <1>1, TriageSets
  <2>2. ReportsInv'
    BY <2>1, ReportsStay DEF BackOfficeInv
  <2>3. UNCHANGED <<booked, totp>>
    BY <1>1 DEF TriageReport
  <2>4. QED
    BY <2>1, <2>2, <2>3, SingleFrames DEF BackOfficeInv
<1>2. ASSUME NEW i \in DOMAIN queue, ResolveModeration(i)
      PROVE  TypeOK' /\ BackOfficeInv'
  <2>1. /\ TypeOK'
        /\ DOMAIN queue' = DOMAIN queue
        /\ \A j \in DOMAIN queue : queue'[j].report = queue[j].report
                                   /\ queue'[j].target = queue[j].target
        /\ UNCHANGED <<reports, lost, pc, request>>
    BY <1>2, ResolveSets
  <2>2. ReportsInv'
    BY <2>1, ReportsStay DEF BackOfficeInv
  <2>3. UNCHANGED <<booked, totp>>
    BY <1>2 DEF ResolveModeration
  <2>4. QED
    BY <2>1, <2>2, <2>3, SingleFrames DEF BackOfficeInv
<1>3. ASSUME NEW t \in Targets, QueueScanned(t)
      PROVE  TypeOK' /\ BackOfficeInv'
  <2> DEFINE item == [target |-> t, priority |-> 100, report |-> 0, status |-> "PENDING"]
  <2>1. /\ TypeOK' /\ queue' = Append(queue, item) /\ UNCHANGED <<reports, lost, pc, request>>
    BY <1>3, QueueScannedSets
  <2>2. \A j \in DOMAIN queue : j \in DOMAIN queue' /\ queue'[j] = queue[j]
    BY <2>1 DEF TypeOK
  <2>3. ReportsInv'
    BY <2>1, <2>2, ReportsStay DEF BackOfficeInv
  <2>4. UNCHANGED <<booked, totp>>
    BY <1>3 DEF QueueScanned
  <2>5. QED
    BY <2>1, <2>3, <2>4, SingleFrames DEF BackOfficeInv
<1>4. ASSUME NEW p \in Payouts, ApprovePayout(p) \/ MarkPayoutPaid(p)
      PROVE  TypeOK' /\ BackOfficeInv'
  BY <1>4, PayoutSets, SingleFrames DEF BackOfficeInv
<1>5. ASSUME NEW c \in Creators, SetupTotp(c)
      PROVE  TypeOK' /\ BackOfficeInv'
  BY <1>5, SetupTotpSets, SetupTotpTotp, SingleFrames DEF BackOfficeInv
<1>6. ASSUME NEW c \in Creators, NEW type, Book(c, type)
      PROVE  TypeOK' /\ BackOfficeInv'
  <2>1. /\ TypeOK'
        /\ \A d \in Creators, q \in Counted : booked[d][q] <= booked'[d][q]
        /\ UNCHANGED <<moderation, totp, pc, request>>
    BY <1>6, BookSets
  <2>2. ScoreInv'
    BY <2>1, ScoreStays DEF BackOfficeInv, ScoreInv
  <2>3. QED
    BY <2>1, <2>2, SingleFrames DEF BackOfficeInv
<1>7. QED
  BY <1>1, <1>2, <1>3, <1>4, <1>5, <1>6 DEF Single

LEMMA Inductive == Spec => [](TypeOK /\ BackOfficeInv)
<1>1. Init => TypeOK /\ BackOfficeInv
  <2> SUFFICES ASSUME Init PROVE TypeOK /\ BackOfficeInv
    OBVIOUS
  <2>1. booked \in [Creators -> [Counted -> Nat]]
    BY BackOfficeAssumption DEF Init
  <2>2. NoRequest \in Request
    BY NoRequestIsRequest
  <2>3. TypeOK
    BY <2>1, <2>2, BackOfficeAssumption DEF Init, TypeOK, Secrets, ReportIds
  <2>4. DOMAIN reports = {}
    BY DEF Init
  <2>5. ReportsInv /\ ScoreInv /\ TotpInv
    BY <2>4 DEF Init, ReportsInv, ScoreInv, ScoreOf, TotpInv
  <2>6. QED
    BY <2>3, <2>5 DEF BackOfficeInv
<1>2. TypeOK /\ BackOfficeInv /\ [Next]_vars => TypeOK' /\ BackOfficeInv'
  <2> SUFFICES ASSUME TypeOK, BackOfficeInv, [Next]_vars
               PROVE  TypeOK' /\ BackOfficeInv'
    OBVIOUS
  <2>1. ASSUME NEW h \in Handlers, Arrive(h) \/ Continue(h) \/ Fail(h)
        PROVE  TypeOK' /\ BackOfficeInv'
    BY <2>1, ArriveStep, ContinueStep
  <2>2. CASE UNCHANGED vars
    <3>1. TypeOK'
      BY <2>2 DEF vars, moderation, totp, TypeOK
    <3>2. UNCHANGED <<moderation, booked, totp, pc, request>>
      BY <2>2 DEF vars
    <3>3. QED
      BY <3>1, <3>2, SingleFrames DEF BackOfficeInv
  <2>3. QED
    BY <2>1, <2>2, SingleStep DEF Next
<1>3. QED
  BY <1>1, <1>2, PTL DEF Spec

(* Every variable of the back office keeps its type.                       *)
THEOREM TypeCorrect == Spec => []TypeOK
BY Inductive, PTL

(* Every report has an item of its own on the moderation queue, is about   *)
(* to get it, or is one whose request died.                                *)
THEOREM ReportsQueued == Spec => []ReportsReachQueue
<1>1. BackOfficeInv => ReportsReachQueue
  BY DEF BackOfficeInv, ReportsInv, Reached, ReportsReachQueue
<1>2. QED
  BY <1>1, Inductive, PTL

LEMMA BoxStep ==
    ASSUME TypeOK, BackOfficeInv, BoxInv, [Next]_vars
    PROVE  BoxInv' /\ [Box!BoxNext]_(Box!boxVars)
<1> USE DEF BackOfficeInv
<1>1. ASSUME UNCHANGED <<moderation, pc, request>>
      PROVE  BoxInv' /\ [Box!BoxNext]_(Box!boxVars)
  BY <1>1, BoxStays DEF moderation, Queued
<1>2. ASSUME NEW h \in Handlers, UNCHANGED moderation, OnlyMoves(h),
             pc[h] # "enqueue", pc'[h] # "enqueue"
      PROVE  BoxInv' /\ [Box!BoxNext]_(Box!boxVars)
  BY <1>2, BoxStays DEF moderation, Queued, OnlyMoves
<1>3. ASSUME NEW h \in Handlers, Arrive(h)
      PROVE  BoxInv' /\ [Box!BoxNext]_(Box!boxVars)
  <2>1. ASSUME NEW t \in Targets, CreateReport(h, t)
        PROVE  BoxInv' /\ [Box!BoxNext]_(Box!boxVars)
    BY <2>1, CreateReportRecords
  <2>2. ASSUME NEW c \in Creators, RiskBegin(h, c)
        PROVE  BoxInv' /\ [Box!BoxNext]_(Box!boxVars)
    BY <1>2, <2>2, RiskBeginSets
  <2>3. ASSUME NEW c \in Creators, NEW code \in Secrets, EnableLookup(h, c, code)
        PROVE  BoxInv' /\ [Box!BoxNext]_(Box!boxVars)
    BY <1>2, <2>3, EnableLookupSets
  <2>4. QED
    BY <1>3, <2>1, <2>2, <2>3 DEF Arrive
<1>4. ASSUME NEW h \in Handlers, Continue(h)
      PROVE  BoxInv' /\ [Box!BoxNext]_(Box!boxVars)
  <2>1. CASE Enqueue(h)
    BY <2>1, EnqueueTells
  <2>2. ASSUME NEW q \in Counted, Count(h, q)
        PROVE  BoxInv' /\ [Box!BoxNext]_(Box!boxVars)
    <3>1. OnlyMoves(h) /\ pc[h] = "count" /\ pc'[h] \in {"count", "scored"} /\ UNCHANGED moderation
      BY <2>2, CountScore
    <3>2. QED
      BY <1>2, <3>1
  <2>3. CASE RiskAnswer(h)
    BY <1>2, <2>3, RiskAnswerSets
  <2>4. CASE EnableTotp(h)
    <3>1. request[h].creator \in Creators
      BY <2>4 DEF EnableTotp, Goto, TotpInv
    <3>2. QED
      BY <1>2, <2>4, <3>1, EnableTotpSets
  <2>5. QED
    BY <1>4, <2>1, <2>2, <2>3, <2>4 DEF Continue
<1>5. ASSUME NEW r \in DOMAIN reports, NEW status \in {"TRIAGED", "RESOLVED", "DISMISSED"},
             TriageReport(r, status)
      PROVE  BoxInv' /\ [Box!BoxNext]_(Box!boxVars)
  <2>1. /\ DOMAIN reports' = DOMAIN reports
        /\ \A q \in DOMAIN reports : reports'[q].target = reports[q].target
        /\ UNCHANGED <<queue, lost, pc, request>>
    BY <1>5, TriageSets
  <2>2. Queued' = Queued
    BY <2>1 DEF Queued
  <2>3. QED
    BY <2>1, <2>2, BoxStays
<1>6. ASSUME NEW i \in DOMAIN queue, ResolveModeration(i)
      PROVE  BoxInv' /\ [Box!BoxNext]_(Box!boxVars)
  <2>1. /\ DOMAIN queue' = DOMAIN queue
        /\ \A j \in DOMAIN queue : queue'[j].report = queue[j].report
                                   /\ queue'[j].target = queue[j].target
        /\ UNCHANGED <<reports, lost, pc, request>>
    BY <1>6, ResolveSets
  <2>2. Queued' = Queued
    BY <2>1 DEF Queued
  <2>3. QED
    BY <2>1, <2>2, BoxStays
<1>7. ASSUME NEW t \in Targets, QueueScanned(t)
      PROVE  BoxInv' /\ [Box!BoxNext]_(Box!boxVars)
  <2> DEFINE item == [target |-> t, priority |-> 100, report |-> 0, status |-> "PENDING"]
  <2>1. queue' = Append(queue, item) /\ UNCHANGED <<reports, lost, pc, request>>
    BY <1>7, QueueScannedSets
  <2>2. item.report = 0
    OBVIOUS
  <2>3. Queued' = Queued
    <3> HIDE DEF item
    <3>1. QED
      BY <2>1, <2>2, AppendQueued
  <2>4. QED
    BY <2>1, <2>3, BoxStays
<1>8. CASE Single
  <2>1. ASSUME NEW p \in Payouts, ApprovePayout(p) \/ MarkPayoutPaid(p)
        PROVE  BoxInv' /\ [Box!BoxNext]_(Box!boxVars)
    BY <1>1, <2>1, PayoutSets
  <2>2. ASSUME NEW c \in Creators, SetupTotp(c)
        PROVE  BoxInv' /\ [Box!BoxNext]_(Box!boxVars)
    BY <1>1, <2>2, SetupTotpSets
  <2>3. ASSUME NEW c \in Creators, NEW type, Book(c, type)
        PROVE  BoxInv' /\ [Box!BoxNext]_(Box!boxVars)
    BY <1>1, <2>3, BookSets
  <2>4. QED
    BY <1>5, <1>6, <1>7, <1>8, <2>1, <2>2, <2>3 DEF Single
<1>9. CASE UNCHANGED vars
  BY <1>1, <1>9 DEF vars
<1>10. QED
  BY <1>3, <1>4, <1>8, <1>9, FailLoses DEF Next

(* Reports keep the promise of an outbox: each is queued at most once,     *)
(* with its own target, or lost with its request.                          *)
THEOREM ReportsKeepOutbox == Spec => ReportsAreQueuedOnce
<1>1. Init => BoxInv /\ Box!BoxInit
  BY DEF Init, BoxInv, Box!BoxInit, AllReported, ToQueue, Queued, LostReported
<1>2. TypeOK /\ BackOfficeInv /\ BoxInv /\ [Next]_vars => BoxInv' /\ [Box!BoxNext]_(Box!boxVars)
  BY BoxStep
<1>3. QED
  BY <1>1, <1>2, Inductive, PTL DEF Spec, ReportsAreQueuedOnce, Box!BoxSpec

BoxTheorems == INSTANCE OutboxProofs WITH recorded <- AllReported, untold <- ToQueue,
                                          told <- Queued, lost <- LostReported

(* So no report is queued twice, or queued and lost, and none disappears.  *)
THEOREM ReportsAreAccountedFor == Spec => [](Box!AllAccountedFor /\ Box!ToldAtMostOnce)
<1>1. ReportsAreQueuedOnce => BoxTheorems!BoxSpec
  BY DEF ReportsAreQueuedOnce, Box!BoxSpec, BoxTheorems!BoxSpec, Box!BoxInit, BoxTheorems!BoxInit,
         Box!BoxNext, BoxTheorems!BoxNext, Box!boxVars, BoxTheorems!boxVars, Box!Record,
         BoxTheorems!Record, Box!Tell, BoxTheorems!Tell, Box!Lose, BoxTheorems!Lose
<1>2. BoxTheorems!AllAccountedFor /\ BoxTheorems!ToldAtMostOnce
         => Box!AllAccountedFor /\ Box!ToldAtMostOnce
  BY DEF Box!AllAccountedFor, BoxTheorems!AllAccountedFor, Box!ToldAtMostOnce,
         BoxTheorems!ToldAtMostOnce
<1>3. QED
  BY <1>1, <1>2, ReportsKeepOutbox, BoxTheorems!KeepsAccount, PTL

(* An enabled second factor is a secret of which a code was shown, or one  *)
(* that was set up while another was being enabled.                        *)
THEOREM EnabledWasProved == Spec => []EnabledSecretWasProved
<1>1. BackOfficeInv => EnabledSecretWasProved
  BY DEF BackOfficeInv, TotpInv, ProvedOrRaced, EnabledSecretWasProved
<1>2. QED
  BY <1>1, Inductive, PTL

-----------------------------------------------------------------------------
(* When the rounded and capped score reaches the threshold.                *)

LEMMA TimesMonotone ==
    ASSUME NEW k \in Nat, NEW m \in Nat, NEW n \in Nat, m <= n
    PROVE  k * m <= k * n
<1>1. PICK d \in Nat : n = m + d
  BY SMT
<1>2. k * n = k * m + k * d /\ k * d \in Nat
  BY <1>1, SMT
<1>3. QED
  BY <1>2, SMT

LEMMA QuotientAtLeast ==
    ASSUME NEW x \in Nat, NEW d \in Nat \ {0}, NEW t \in Nat
    PROVE  x \div d >= t <=> x >= d * t
<1>1. PICK q \in Nat : q = x \div d
  BY SMT
<1>2. d * q <= x /\ x < d * q + d
  BY <1>1, SMT
<1>3. CASE q >= t
  <2>1. d * t <= d * q
    BY <1>3, TimesMonotone
  <2>2. QED
    BY <1>1, <1>2, <1>3, <2>1, SMT
<1>4. CASE q + 1 <= t
  <2>1. PICK m \in Nat : m = q + 1
    OBVIOUS
  <2>2. d * m <= d * t
    BY <1>4, <2>1, TimesMonotone
  <2>3. d * m = d * q + d
    BY <2>1, SMT
  <2>4. QED
    BY <1>1, <1>2, <1>4, <2>2, <2>3, SMT
<1>5. QED
  BY <1>3, <1>4, SMT

(* The score as the code's doubles give it, capped at 100, recommends a    *)
(* hold exactly when the weight reaches the threshold, less half a point,  *)
(* times the volume, and more than reaches it at the thresholds 15, 29, 57 *)
(* and 58, whose halves are rounded down.                                  *)
THEOREM HoldIsRounded ==
    ASSUME NEW weight \in Nat, NEW volume \in Nat
    PROVE  RiskScore(weight, volume) >= HoldThreshold <=> Risky(weight, volume)
<1>1. PICK t \in 1 .. 100 : t = HoldThreshold
  BY BackOfficeAssumption
<1>2. PICK b \in Nat \ {0} : b = AtLeastOne(volume)
  BY DEF AtLeastOne
<1>3. PICK d \in Nat \ {0} : d = 2 * b
  BY SMT
<1>4. PICK x \in Nat : x = 200 * weight + b
  BY SMT
<1>5. PICK p \in Nat : p = x \div d
  BY SMT
<1>6. PICK down \in BOOLEAN : down = (x = d * p /\ p - 1 \in RoundsDown)
  OBVIOUS
<1>7. PICK s \in Int : s = IF down THEN p - 1 ELSE p
  BY SMT
<1>8. RiskScore(weight, volume) = IF s <= 100 THEN s ELSE 100
  <2>1. 2 * AtLeastOne(volume) = d /\ 200 * weight + AtLeastOne(volume) = x
    BY <1>2, <1>3, <1>4
  <2>2. RiskScore(weight, volume) =
           LET score == IF x = d * (x \div d) /\ (x \div d) - 1 \in RoundsDown
                        THEN (x \div d) - 1 ELSE x \div d
           IN  IF score <= 100 THEN score ELSE 100
    BY <2>1, Zenon DEF RiskScore
  <2>3. s = IF x = d * (x \div d) /\ (x \div d) - 1 \in RoundsDown
            THEN (x \div d) - 1 ELSE x \div d
    BY <1>5, <1>6, <1>7, Zenon
  <2>4. QED
    BY <2>2, <2>3, Zenon
<1>9. RiskScore(weight, volume) >= t <=> s >= t
  BY <1>8, SMT
<1>10. d * t = (2 * t) * b /\ (2 * t - 1) * b = (2 * t) * b - b
  BY <1>3, SMT
<1>11. /\ x >= d * t <=> 200 * weight >= (2 * t - 1) * b
       /\ x > d * t <=> 200 * weight > (2 * t - 1) * b
  BY <1>4, <1>10, SMT
<1>12. s >= t <=> IF t - 1 \in RoundsDown THEN x > d * t ELSE x >= d * t
  <2>1. p >= t <=> x >= d * t
    BY <1>5, QuotientAtLeast
  <2>2. CASE p < t
    BY <1>7, <2>1, <2>2, SMT
  <2>3. CASE p > t
    <3>1. PICK n \in Nat : n = t + 1 /\ n <= p
      BY <2>3
    <3>2. x >= d * n
      BY <1>5, <3>1, QuotientAtLeast
    <3>3. d * n = d * t + d
      BY <3>1, SMT
    <3>4. x > d * t
      BY <3>2, <3>3, SMT
    <3>5. s >= t
      BY <1>7, <2>3, SMT
    <3>6. QED
      BY <3>4, <3>5, SMT
  <2>4. CASE p = t
    <3>1. x >= d * t
      BY <2>1, <2>4
    <3>2. down <=> x = d * t /\ t - 1 \in RoundsDown
      BY <1>6, <2>4
    <3>3. s >= t <=> ~down
      BY <1>7, <2>4, SMT
    <3>4. PICK m \in Nat : m = d * t
      BY SMT
    <3>5. QED
      BY <3>1, <3>2, <3>3, <3>4
  <2>5. QED
    BY <2>2, <2>3, <2>4, SMT
<1>13. QED
  BY <1>1, <1>2, <1>9, <1>11, <1>12 DEF Risky

(* More chargebacks and refunds, or less volume, is not less risky.        *)
LEMMA RiskyMonotone ==
    ASSUME NEW w1 \in Nat, NEW w2 \in Nat, NEW v1 \in Nat, NEW v2 \in Nat,
           w1 <= w2, v2 <= v1, Risky(w1, v1)
    PROVE  Risky(w2, v2)
<1>1. PICK k \in Nat : k = 2 * HoldThreshold - 1
  BY BackOfficeAssumption, SMT
<1>2. PICK b1 \in Nat, b2 \in Nat : b1 = AtLeastOne(v1) /\ b2 = AtLeastOne(v2) /\ b2 <= b1
  BY DEF AtLeastOne
<1>3. k * b2 <= k * b1
  BY <1>2, TimesMonotone
<1>4. PICK m1 \in Int, m2 \in Int : m1 = k * b1 /\ m2 = k * b2
  OBVIOUS
<1>5. IF HoldThreshold - 1 \in RoundsDown THEN 200 * w1 > m1 ELSE 200 * w1 >= m1
  BY <1>1, <1>2, <1>4 DEF Risky
<1>6. IF HoldThreshold - 1 \in RoundsDown THEN 200 * w2 > m2 ELSE 200 * w2 >= m2
  BY <1>3, <1>4, <1>5, SMT
<1>7. QED
  BY <1>1, <1>2, <1>4, <1>6 DEF Risky

LEMMA WeightMonotone ==
    ASSUME NEW a \in [Counted -> Nat], NEW b \in [Counted -> Nat],
           \A q \in Counted : a[q] <= b[q]
    PROVE  Weight(a) \in Nat /\ Weight(b) \in Nat /\ Weight(a) <= Weight(b)
BY SMT DEF Weight, Counted

(* Whatever is booked while the three counts are read, a recommended hold  *)
(* is justified by the losses there are over the volume there was, and a   *)
(* hold that is not recommended was not by the losses there were over the  *)
(* volume there is.                                                        *)
THEOREM HoldBracketed == Spec => []HoldIsBracketed
<1>1. TypeOK /\ BackOfficeInv => HoldIsBracketed
  <2> SUFFICES ASSUME TypeOK, BackOfficeInv, NEW h \in Handlers, pc[h] = "scored"
               PROVE  IF HoldRecommended(request[h].read)
                      THEN Risky(Weight(booked[request[h].creator]), request[h].began["SUCCEEDED"])
                      ELSE ~Risky(Weight(request[h].began), booked[request[h].creator]["SUCCEEDED"])
    BY DEF HoldIsBracketed
  <2>1. PICK c \in Creators : c = request[h].creator
    BY DEF BackOfficeInv, ScoreInv, ScoreOf
  <2>2. PICK began \in [Counted -> Nat], read \in [Counted -> Nat], now \in [Counted -> Nat] :
           began = request[h].began /\ read = request[h].read /\ now = booked[c]
    BY DEF TypeOK, Request
  <2>3. \A q \in Counted : began[q] <= read[q] /\ read[q] <= now[q]
    BY <2>1, <2>2 DEF BackOfficeInv, ScoreInv, ScoreOf
  <2>4. /\ Weight(began) \in Nat /\ Weight(read) \in Nat /\ Weight(now) \in Nat
        /\ Weight(began) <= Weight(read) /\ Weight(read) <= Weight(now)
    BY <2>3, WeightMonotone
  <2>5. PICK v0 \in Nat, v1 \in Nat, v2 \in Nat :
           /\ v0 = began["SUCCEEDED"] /\ v1 = read["SUCCEEDED"] /\ v2 = now["SUCCEEDED"]
           /\ v0 <= v1 /\ v1 <= v2
    BY <2>3 DEF Counted
  <2>6. HoldRecommended(read) <=> Risky(Weight(read), v1)
    BY <2>4, <2>5, HoldIsRounded DEF HoldRecommended
  <2>7. CASE Risky(Weight(read), v1)
    <3>1. Risky(Weight(now), v0)
      BY <2>4, <2>5, <2>7, RiskyMonotone
    <3>2. QED
      BY <2>1, <2>2, <2>5, <2>6, <2>7, <3>1
  <2>8. CASE ~Risky(Weight(read), v1)
    <3>1. ~Risky(Weight(began), v2)
      BY <2>4, <2>5, <2>8, RiskyMonotone
    <3>2. QED
      BY <2>1, <2>2, <2>5, <2>6, <2>8, <3>1
  <2>9. QED
    BY <2>7, <2>8
<1>2. QED
  BY <1>1, Inductive, PTL

-----------------------------------------------------------------------------
(* The moderators' page                                                    *)

MoreUrgent(i) == {j \in Pending : Before(j, i)}

LEMMA FewerMoreUrgent ==
    ASSUME TypeOK, NEW i \in Page, i \in Pending', MoreUrgent(i)' \subseteq MoreUrgent(i)
    PROVE  i \in Page'
<1>1. PICK U, V : U = MoreUrgent(i) /\ V = MoreUrgent(i)'
  OBVIOUS
<1>2. U \subseteq 1 .. Len(queue) /\ Len(queue) \in Nat
  BY <1>1 DEF MoreUrgent, Pending, TypeOK
<1>3. IsFiniteSet(U)
  <2>1. PICK n \in Nat : n = Len(queue)
    BY <1>2
  <2>2. IsFiniteSet(1 .. n)
    BY FS_Interval
  <2>3. QED
    BY <1>2, <2>1, <2>2, FS_Subset
<1>4. Cardinality(V) <= Cardinality(U) /\ Cardinality(U) \in Nat /\ Cardinality(V) \in Nat
  BY <1>1, <1>3, FS_Subset, FS_CardinalityType
<1>5. Cardinality(U) < PageSize
  BY <1>1 DEF Page, MoreUrgent
<1>6. Cardinality(V) < PageSize
  BY <1>4, <1>5, BackOfficeAssumption
<1>7. QED
  BY <1>1, <1>6 DEF Page, MoreUrgent

StaysOnPage(i) ==
    \/ i \in Page'
    \/ queue'[i].status = "RESOLVED"
    \/ \E j \in DOMAIN queue' \ DOMAIN queue : queue'[j].priority > queue[i].priority

LEMMA AppendKeepsPage ==
    ASSUME TypeOK, NEW item \in Item, queue' = Append(queue, item), NEW i \in Page
    PROVE  StaysOnPage(i)
<1>1. PICK n \in Nat : n = Len(queue) + 1
  BY DEF TypeOK
<1>2. /\ DOMAIN queue' = DOMAIN queue \cup {n} /\ n \notin DOMAIN queue
      /\ \A j \in DOMAIN queue : j < n /\ j \in Nat /\ queue'[j] = queue[j] /\ queue[j] \in Item
      /\ queue'[n] = item
  BY <1>1 DEF TypeOK
<1>3. i \in DOMAIN queue /\ i \in Pending
  BY DEF Page, Pending
<1>4. CASE item.priority > queue[i].priority
  BY <1>2, <1>4 DEF StaysOnPage
<1>5. CASE ~(item.priority > queue[i].priority)
  <2>1. i \in Pending'
    BY <1>2, <1>3 DEF Pending
  <2>2. ~Before(n, i)'
    BY <1>2, <1>3, <1>5 DEF Before
  <2>3. ASSUME NEW j \in DOMAIN queue, Before(j, i)' PROVE Before(j, i)
    BY <1>2, <1>3, <2>3 DEF Before
  <2>4. ASSUME NEW j \in MoreUrgent(i)' PROVE j \in MoreUrgent(i)
    BY <1>2, <2>2, <2>3, <2>4 DEF MoreUrgent, Pending
  <2>5. QED
    BY <2>1, <2>4, FewerMoreUrgent DEF StaysOnPage
<1>6. QED
  BY <1>4, <1>5

LEMMA ResolveKeepsPage ==
    ASSUME TypeOK, NEW k \in DOMAIN queue, ResolveModeration(k), NEW i \in Page
    PROVE  StaysOnPage(i)
<1>1. /\ DOMAIN queue' = DOMAIN queue
      /\ queue'[k].status = "RESOLVED"
      /\ \A j \in DOMAIN queue : /\ queue'[j].priority = queue[j].priority
                                 /\ j # k => queue'[j] = queue[j]
  BY ResolveSets
<1>2. i \in DOMAIN queue /\ i \in Pending
  BY DEF Page, Pending
<1>3. CASE i = k
  BY <1>1, <1>3 DEF StaysOnPage
<1>4. CASE i # k
  <2>1. i \in Pending'
    BY <1>1, <1>2, <1>4 DEF Pending
  <2>2. ASSUME NEW j \in MoreUrgent(i)' PROVE j \in MoreUrgent(i)
    BY <1>1, <1>2, <2>2 DEF MoreUrgent, Pending, Before
  <2>3. QED
    BY <2>1, <2>2, FewerMoreUrgent DEF StaysOnPage
<1>5. QED
  BY <1>3, <1>4

LEMMA SameQueueKeepsPage ==
    ASSUME queue' = queue, NEW i \in Page
    PROVE  StaysOnPage(i)
BY DEF StaysOnPage, Page, Pending, Before

(* An item on the moderators' page leaves it only when it is resolved or a *)
(* more urgent item comes in.                                              *)
THEOREM PageStable == Spec => PageIsStable
<1>1. TypeOK /\ BackOfficeInv /\ [Next]_vars =>
         [\A i \in Page : \/ i \in Page'
                          \/ queue'[i].status = "RESOLVED"
                          \/ \E j \in DOMAIN queue' \ DOMAIN queue :
                                queue'[j].priority > queue[i].priority]_vars
  <2> SUFFICES ASSUME TypeOK, BackOfficeInv, Next, NEW i \in Page
               PROVE  StaysOnPage(i)
    BY DEF StaysOnPage
  <2>1. ASSUME NEW h \in Handlers, Enqueue(h) PROVE StaysOnPage(i)
    <3>1. request[h].report \in DOMAIN reports
      BY <2>1 DEF Enqueue, Goto, BackOfficeInv, ReportsInv
    <3>2. PICK item \in Item : queue' = Append(queue, item)
      BY <2>1, <3>1, EnqueueSets
    <3>3. QED
      BY <3>2, AppendKeepsPage
  <2>2. ASSUME NEW t \in Targets, QueueScanned(t) PROVE StaysOnPage(i)
    <3>1. PICK item \in Item : queue' = Append(queue, item)
      BY <2>2, QueueScannedSets
    <3>2. QED
      BY <3>1, AppendKeepsPage
  <2>3. ASSUME NEW k \in DOMAIN queue, ResolveModeration(k) PROVE StaysOnPage(i)
    BY <2>3, ResolveKeepsPage
  <2>4. ASSUME NEW h \in Handlers, Arrive(h) \/ Fail(h) \/ RiskAnswer(h) \/ EnableTotp(h)
               \/ \E q \in Counted : Count(h, q)
        PROVE  queue' = queue
    BY <2>4 DEF Arrive, CreateReport, RiskBegin, EnableLookup, Fail, RiskAnswer, EnableTotp,
       Count, moderation
  <2>5. ASSUME \/ \E r \in DOMAIN reports, status \in {"TRIAGED", "RESOLVED", "DISMISSED"} :
                     TriageReport(r, status)
               \/ \E p \in Payouts : ApprovePayout(p) \/ MarkPayoutPaid(p)
               \/ \E c \in Creators : SetupTotp(c)
               \/ \E c \in Creators, type \in {"CHARGEBACK", "REFUND", "OTHER"} : Book(c, type)
        PROVE  queue' = queue
    BY <2>5 DEF TriageReport, ApprovePayout, MarkPayoutPaid, SetupTotp, Book, moderation
  <2>6. CASE queue' = queue
    BY <2>6, SameQueueKeepsPage
  <2>7. CASE Single
    BY <2>2, <2>3, <2>5, <2>6, <2>7 DEF Single
  <2>8. ASSUME NEW h \in Handlers, Arrive(h) \/ Continue(h) \/ Fail(h) PROVE StaysOnPage(i)
    BY <2>1, <2>4, <2>6, <2>8 DEF Continue
  <2>9. QED
    BY <2>7, <2>8 DEF Next
<1>2. QED
  BY <1>1, Inductive, PTL DEF Spec, PageIsStable
=============================================================================
