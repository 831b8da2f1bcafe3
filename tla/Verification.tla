---------------------------- MODULE Verification ----------------------------
(***************************************************************************)
(* Age and identity verification, the guard that asks for them, the posts  *)
(* it lets through, and the compliance events all of them leave:           *)
(* verification.service.ts, verification-policy.guard.ts, createPost of    *)
(* creator.service.ts and compliance.service.ts of apps/api/src.           *)
(*                                                                         *)
(* A request writes its row and then emits its event, as two statements    *)
(* outside any transaction; the guard reads the two tables one after the   *)
(* other before the handler runs.  Other requests run between any two      *)
(* statements, and a request may end at any of them.  Both tables are one  *)
(* here, rows of "AGE" and "ID".                                           *)
(*                                                                         *)
(* The identity vendor (external) answers for a session of its own, any    *)
(* number of times and in any order.  It may give a user who starts again  *)
(* the same session (the no-op vendor always does) or another one, and     *)
(* never one session to two users.                                         *)
(***************************************************************************)
EXTENDS Naturals, Sequences, FiniteSets

CONSTANTS Users,
          NoUser,
          Handlers,       \* request handlers that may run at once
          Sessions,       \* vendor sessions of one user
          NoSession,
          MaxRows,        \* bound: verification rows in a behaviour
          MaxRequests,    \* bound: requests in a behaviour
          MaxFaults       \* bound: requests that fail or die

ASSUME VerificationAssumption ==
    /\ NoUser \notin Users
    /\ NoSession \notin Sessions
    /\ MaxRows \in Nat /\ MaxRequests \in Nat /\ MaxFaults \in Nat

VARIABLES
    verifications,  \* age_verifications and id_verifications, in order of creation
    trail,          \* compliance_events, in order
    posts,          \* posts, in order of creation
    pc,             \* where each handler is
    request,        \* what it works on: a user, a row, the status to write, the event
    approved,       \* history: <<kind, user>> whose verification was once approved
    decisions,      \* history: <<row, status>> written to a row by a decision
    last,           \* history: the last decision written about each <<kind, user>>
    overtaken,      \* history: handlers whose creator lost an approval after their first query
    requests,       \* requests so far
    faults,         \* requests that failed so far
    dropped         \* history: posts whose request failed after it created them

tables == <<verifications, posts, approved, decisions, last, overtaken>>
vars == <<tables, trail, pc, request, requests, faults, dropped>>

Kinds == {"AGE", "ID"}
Statuses == {"PENDING", "APPROVED", "REJECTED"}
RowIds == 1 .. MaxRows

Row == [kind : Kinds, user : Users, session : Sessions, status : Statuses]

(* A post without media, one whose media are not attached yet, or one that *)
(* has them.                                                               *)
Post == [author : Users, media : {"none", "missing", "attached"}]

(* STARTED, APPROVED or REJECTED of a kind.  The payload names the row of  *)
(* the verification, or only the session when the vendor decided, or a     *)
(* post, whose event says ID_VERIFICATION_APPROVED all the same.           *)
What == {"STARTED", "APPROVED", "REJECTED"}
Event == [kind : Kinds, what : What, user : Users, row : {0} \cup RowIds,
          session : Sessions \cup {NoSession}, post : Nat]
NoEvent == [kind |-> "AGE", what |-> "STARTED", user |-> NoUser, row |-> 0,
            session |-> NoSession, post |-> 0]

Rows == DOMAIN verifications

NoRequest == [user |-> NoUser, row |-> 0, status |-> "PENDING", event |-> NoEvent]

(* mutant: the branches of the event type in the wrong order *)
EventForSwapped(status) == IF status = "REJECTED" THEN "REJECTED" ELSE "APPROVED"

(* mutant: the status is written as the event type *)
EventForRaw(status) == status

EventFor(status) == IF status = "PENDING" THEN "STARTED" ELSE status

-----------------------------------------------------------------------------

Init ==
    /\ verifications = <<>>
    /\ trail = <<>>
    /\ posts = <<>>
    /\ pc = [h \in Handlers |-> "idle"]
    /\ request = [h \in Handlers |-> NoRequest]
    /\ approved = {}
    /\ decisions = {}
    /\ last = [about \in Kinds \X Users |-> "PENDING"]
    /\ overtaken = {}
    /\ requests = 0
    /\ faults = 0
    /\ dropped = {}

Goto(h, from, to) == pc[h] = from /\ pc' = [pc EXCEPT ![h] = to]

Begin == requests < MaxRequests /\ requests' = requests + 1

(* What is left of the request is to emit this event, which names a row ... *)
ToEmit(h, kind, what, user, row) ==
    request' = [request EXCEPT ![h].event =
                  [kind |-> kind, what |-> what, user |-> user, row |-> row,
                   session |-> NoSession, post |-> 0]]

(* ... or, of a vendor's decision, a session. *)
ToEmitVendor(h, what, user, session) ==
    request' = [request EXCEPT ![h].event =
                  [kind |-> "ID", what |-> what, user |-> user, row |-> 0,
                   session |-> session, post |-> 0]]

(* startAgeVerification, startIdVerification: the vendor opened a session, *)
(* a PENDING row is created.                                               *)
Start(h, kind, u, s) ==
    /\ Begin
    /\ Goto(h, "idle", "emit")
    /\ Len(verifications) < MaxRows
    /\ verifications' = Append(verifications,
          [kind |-> kind, user |-> u, session |-> s, status |-> "PENDING"])
    /\ ToEmit(h, kind, "STARTED", u, Len(verifications) + 1)
    /\ UNCHANGED <<trail, posts, approved, decisions, last, overtaken, faults, dropped>>

Decided == {"APPROVED", "REJECTED"}

(* A decision is written over whatever status the row has by now. *)
Decide(r, status) ==
    LET row == verifications[r]
        about == <<row.kind, row.user>>
    IN  /\ verifications' = [verifications EXCEPT ![r].status = status]
        /\ decisions' = decisions \cup {<<r, status>>}
        /\ approved' = IF status = "APPROVED" THEN approved \cup {about} ELSE approved
        /\ last' = IF status \in Decided THEN [last EXCEPT ![about] = status] ELSE last
        /\ overtaken' = IF row.status = "APPROVED" /\ status # "APPROVED"
                        THEN overtaken \cup {h \in Handlers : pc[h] \in {"guardId", "post"}
                                                            /\ request[h].user = row.user}
                        ELSE overtaken

(* adminSetAgeStatus, adminSetIdStatus: the row exists (rows are never     *)
(* deleted) and is updated.                                                *)
AdminSet(h, r, status) ==
    /\ Begin
    /\ Goto(h, "idle", "emit")
    /\ Decide(r, status)
    /\ ToEmit(h, verifications[r].kind, status, verifications[r].user, r)
    /\ UNCHANGED <<trail, posts, faults, dropped>>

(* findFirst with orderBy createdAt desc: the one, if there are any *)
Latest(rows) == {r \in rows : \A q \in rows : r >= q}

(* mutant: the session is looked up in both tables *)
IdRowsOfAnyKind(u, s) ==
    {r \in Rows : verifications[r].user = u /\ verifications[r].session = s}

IdRowsOf(u, s) ==
    {r \in Rows : verifications[r].kind = "ID" /\ verifications[r].user = u
                  /\ verifications[r].session = s}

(* applyVendorDecision, first statement; without a row nothing is applied. *)
VendorLookup(h, u, s, status) ==
    /\ Begin
    /\ Goto(h, "idle", "apply")
    /\ \E r \in Latest(IdRowsOf(u, s)) :
          request' = [request EXCEPT ![h] =
                        [user |-> u, row |-> r, status |-> status, event |-> NoEvent]]
    /\ UNCHANGED <<tables, trail, faults, dropped>>

(* mutant: the decision is applied and no event emitted *)
VendorApplySilent(h) ==
    /\ Goto(h, "apply", "idle")
    /\ Decide(request[h].row, request[h].status)
    /\ UNCHANGED <<trail, posts, request, requests, faults, dropped>>

(* applyVendorDecision, second statement: the row found is updated; its    *)
(* event will name the session, not the row.                               *)
VendorApply(h) ==
    LET r == request[h].row
        status == request[h].status
    IN  /\ Goto(h, "apply", "emit")
        /\ Decide(r, status)
        /\ ToEmitVendor(h, EventFor(status), verifications[r].user, verifications[r].session)
        /\ UNCHANGED <<trail, posts, requests, faults, dropped>>

(* compliance.emit, and the request is answered. *)
Emit(h) ==
    /\ Goto(h, "emit", "idle")
    /\ trail' = Append(trail, request[h].event)
    /\ request' = [request EXCEPT ![h] = NoRequest]
    /\ UNCHANGED <<tables, requests, faults, dropped>>

(* findFirst where userId and status APPROVED *)
HasApproved(kind, u) ==
    \E r \in Rows : /\ verifications[r].kind = kind
                    /\ verifications[r].user = u
                    /\ verifications[r].status = "APPROVED"

(* The guard, policy "creator": the age query finds an approved row ...    *)
(* A request it refuses here, or for want of the role, changes nothing.    *)
GuardAge(h, u) ==
    /\ Begin
    /\ Goto(h, "idle", "guardId")
    /\ HasApproved("AGE", u)
    /\ request' = [request EXCEPT ![h].user = u]
    /\ overtaken' = overtaken \ {h}
    /\ UNCHANGED <<verifications, posts, approved, decisions, last, trail, faults, dropped>>

(* mutant: the query of the age verification, copied *)
GuardIdAsksAge(h) ==
    /\ Goto(h, "guardId", "post")
    /\ HasApproved("AGE", request[h].user)
    /\ UNCHANGED <<tables, trail, request, requests, faults, dropped>>

(* ... and then the identity query does. *)
GuardId(h) ==
    /\ Goto(h, "guardId", "post")
    /\ HasApproved("ID", request[h].user)
    /\ UNCHANGED <<tables, trail, request, requests, faults, dropped>>

(* ... or does not, and the request is refused. *)
GuardRefuses(h) ==
    /\ Goto(h, "guardId", "idle")
    /\ ~HasApproved("ID", request[h].user)
    /\ request' = [request EXCEPT ![h] = NoRequest]
    /\ UNCHANGED <<tables, trail, requests, faults, dropped>>

(* createPost, first statement: the post is published at once. *)
CreatePost(h, media) ==
    /\ Goto(h, "post", IF media = "missing" THEN "attach" ELSE "emit")
    /\ posts' = Append(posts, [author |-> request[h].user, media |-> media])
    /\ request' = [request EXCEPT ![h].event =
                     [kind |-> "ID", what |-> "APPROVED", user |-> request[h].user, row |-> 0,
                      session |-> NoSession, post |-> Len(posts) + 1]]
    /\ UNCHANGED <<verifications, approved, decisions, last, overtaken, trail, requests, faults,
                   dropped>>

(* mutant: a post with media is answered as soon as they are attached *)
AttachMediaAnswers(h) ==
    /\ Goto(h, "attach", "idle")
    /\ posts' = [posts EXCEPT ![request[h].event.post].media = "attached"]
    /\ request' = [request EXCEPT ![h] = NoRequest]
    /\ UNCHANGED <<verifications, approved, decisions, last, overtaken, trail, requests, faults,
                   dropped>>

(* createPost, postMedia.createMany; without media there is no such step. *)
AttachMedia(h) ==
    /\ Goto(h, "attach", "emit")
    /\ posts' = [posts EXCEPT ![request[h].event.post].media = "attached"]
    /\ UNCHANGED <<verifications, approved, decisions, last, overtaken, trail, request,
                   requests, faults, dropped>>

(* A statement fails or the process dies: the rest does not happen. *)
Fail(h) ==
    /\ pc[h] # "idle"
    /\ faults < MaxFaults
    /\ faults' = faults + 1
    /\ dropped' = dropped \cup ({request[h].event.post} \ {0})
    /\ pc' = [pc EXCEPT ![h] = "idle"]
    /\ request' = [request EXCEPT ![h] = NoRequest]
    /\ UNCHANGED <<tables, trail, requests>>

Arrive(h) ==
    \/ \E u \in Users, s \in Sessions, kind \in Kinds : Start(h, kind, u, s)
    \/ \E r \in Rows, status \in {"APPROVED", "REJECTED"} : AdminSet(h, r, status)
    \/ \E u \in Users, s \in Sessions, status \in Statuses : VendorLookup(h, u, s, status)
    \/ \E u \in Users : GuardAge(h, u)

Continue(h) ==
    \/ VendorApply(h)
    \/ GuardId(h)
    \/ GuardRefuses(h)
    \/ \E media \in {"none", "missing"} : CreatePost(h, media)
    \/ AttachMedia(h)
    \/ Emit(h)

Next == \E h \in Handlers : Arrive(h) \/ Continue(h) \/ Fail(h)

Spec == Init /\ [][Next]_vars

(* A request that was begun goes on. *)
Fairness == \A h \in Handlers : WF_vars(Continue(h))

FairSpec == Spec /\ Fairness

-----------------------------------------------------------------------------
(* Properties *)

(* Every variable holds what its table or its handler can hold. *)
TypeOK ==
    /\ verifications \in Seq(Row)
    /\ Len(verifications) <= MaxRows
    /\ trail \in Seq(Event)
    /\ posts \in Seq(Post)
    /\ pc \in [Handlers -> {"idle", "apply", "guardId", "post", "attach", "emit"}]
    /\ request \in [Handlers -> [user : Users \cup {NoUser}, row : {0} \cup RowIds,
                                 status : Statuses, event : Event \cup {NoEvent}]]
    /\ approved \subseteq Kinds \X Users
    /\ decisions \subseteq RowIds \X Statuses
    /\ last \in [Kinds \X Users -> Statuses]
    /\ overtaken \subseteq Handlers
    /\ requests \in 0 .. MaxRequests
    /\ faults \in 0 .. MaxFaults
    /\ dropped \subseteq Nat

IsVerified(u) ==
    \A kind \in Kinds : \E r \in Rows : /\ verifications[r].kind = kind
                                       /\ verifications[r].user = u
                                       /\ verifications[r].status = "APPROVED"

Publishes(h) == pc[h] = "post" /\ pc'[h] # "post" /\ posts' # posts

(* The guard's two queries and createPost are three statements, and        *)
(* decisions are written between them.  Whoever publishes has an approved  *)
(* age and an approved identity verification at that very moment, unless   *)
(* an approval was withdrawn after the guard's first query: nothing else   *)
(* that happens to verifications in between opens the way.                 *)
PublishesVerified ==
    [][\A h \in Handlers : Publishes(h) => IsVerified(request[h].user) \/ h \in overtaken]_vars

(* docs/runbooks/2257-records-program.md:15: "Require approved ID          *)
(* verification before creator publishing or payout actions."  The code    *)
(* does not keep this: the guard asks before, and createPost does not.     *)
PublishedWhileVerified ==
    [][\A h \in Handlers : Publishes(h) => IsVerified(request[h].user)]_vars

(* Every post gets the compliance event that names it and its author, and  *)
(* it has all its media by then; a post that is not whole, or not in the   *)
(* trail, is still in the hands of its request or lost it.                 *)
PostsAreEvidenced ==
    \A p \in DOMAIN posts :
        \/ /\ \E i \in DOMAIN trail : trail[i].post = p /\ trail[i].user = posts[p].author
           /\ posts[p].media # "missing"
        \/ \E h \in Handlers : pc[h] \in {"attach", "emit"} /\ request[h].event.post = p
        \/ p \in dropped

(* A post as the compliance trail knows it; the posts there are, those on  *)
(* their way to the trail, those in it and whole, and those dropped        *)
Published(p) == <<p, posts[p].author>>
AllPublished == {Published(p) : p \in DOMAIN posts}
Publishing(h) == pc[h] \in {"attach", "emit"} /\ request[h].event.post # 0
ToEvidence == {Published(request[h].event.post) : h \in {g \in Handlers : Publishing(g)}}
IsEvidence(i) == trail[i].post # 0 /\ posts[trail[i].post].media # "missing"
InTrail == {<<i, <<trail[i].post, trail[i].user>>>> : i \in {j \in DOMAIN trail : IsEvidence(j)}}
DroppedPublished == {Published(p) : p \in dropped}

Box == INSTANCE Outbox WITH recorded <- AllPublished, untold <- ToEvidence,
                            told <- InTrail, lost <- DroppedPublished

(* createPost keeps the promise of an outbox: a post gets its compliance   *)
(* event once, with its author and when its media are there, or its        *)
(* request dies before; nothing that happens to verifications in between   *)
(* repeats, withdraws or replaces it.                                      *)
PostsAreEvidencedOnce == Box!BoxSpec

(* An approval in the compliance trail is never made up: its user had a    *)
(* verification of that kind approved before the event, also when it is    *)
(* the ID_VERIFICATION_APPROVED that createPost leaves.                    *)
ApprovalsInTrailAreTrue ==
    \A i \in DOMAIN trail :
        trail[i].what = "APPROVED" => <<trail[i].kind, trail[i].user>> \in approved

(* What the trail tells of verifications was so: an event that names a row *)
(* is of its kind and user and says what was once written to this very     *)
(* row; one that names a vendor session is of a user who has an identity   *)
(* verification with this session, to which that was once written.         *)
TrailIsFaithful ==
    \A i \in DOMAIN trail :
        /\ trail[i].row # 0 =>
              /\ trail[i].row \in Rows
              /\ verifications[trail[i].row].kind = trail[i].kind
              /\ verifications[trail[i].row].user = trail[i].user
              /\ trail[i].what # "STARTED" => <<trail[i].row, trail[i].what>> \in decisions
        /\ trail[i].session # NoSession =>
              \E r \in Rows :
                  /\ verifications[r].kind = "ID"
                  /\ verifications[r].user = trail[i].user
                  /\ verifications[r].session = trail[i].session
                  /\ trail[i].what # "STARTED" => <<r, trail[i].what>> \in decisions

(* Event e is about row r, as far as its payload tells. *)
IsAbout(e, r) ==
    \/ e.row = r
    \/ /\ r \in Rows /\ verifications[r].kind = "ID"
       /\ e.session = verifications[r].session /\ e.user = verifications[r].user

Says(r, status) ==
    \E i \in DOMAIN trail : IsAbout(trail[i], r) /\ trail[i].what = EventFor(status)

(* A decision written to a row reaches the trail, unless a request died.   *)
DecisionsAreRecorded ==
    \A r \in RowIds, status \in Statuses :
        <<r, status>> \in decisions ~> Says(r, status) \/ faults > 0

InHand(h, r, status) ==
    /\ pc[h] = "emit"
    /\ IsAbout(request[h].event, r) /\ request[h].event.what = EventFor(status)

(* docs/runbooks/2257-records-program.md:16: "Track tax form and identity  *)
(* decisions as immutable compliance events."  A decision is in the trail, *)
(* or in the hands of the request that will emit it.  The code does not    *)
(* keep this: a request may die between its two statements.                *)
DecisionsAreTracked ==
    \A r \in RowIds, status \in Statuses :
        <<r, status>> \in decisions =>
            Says(r, status) \/ \E h \in Handlers : InHand(h, r, status)

(* Event e reports a decision of this kind about user u. *)
Reports(e, kind, u) ==
    e.kind = kind /\ e.user = u /\ e.what \in Decided /\ e.post = 0

Emitting(h, kind, u) == pc[h] = "emit" /\ Reports(request[h].event, kind, u)

DecidedAt(kind, u) == {i \in DOMAIN trail : Reports(trail[i], kind, u)}

(* docs/runbooks/2257-records-program.md:21: "evidence retrieval for a     *)
(* specific creator and decision timeline".  Once no decision about a user *)
(* is on its way to the trail, the last one in it is the last one that was *)
(* written.  The code does not keep this: events of two decisions come in  *)
(* either order.                                                           *)
TimelineEndsWithDecision ==
    \A kind \in Kinds, u \in Users :
        last[<<kind, u>>] \in Decided /\ (\A h \in Handlers : ~Emitting(h, kind, u)) =>
            \E i \in Latest(DecidedAt(kind, u)) : trail[i].what = last[<<kind, u>>]
=============================================================================
