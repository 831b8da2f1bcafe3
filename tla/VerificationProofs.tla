------------------------- MODULE VerificationProofs -------------------------
(***************************************************************************)
(* Theorems about Verification, for any users, handlers, vendor sessions   *)
(* and bounds: who may publish, and what the compliance trail says.        *)
(***************************************************************************)
EXTENDS Verification, TLAPS

(* What an event may say when it is emitted: the row, or a row of the      *)
(* session, is of its kind and user, the decision it reports was written   *)
(* to it, and an approval happened.                                        *)
TrueEvent(e) ==
    /\ e.what = "APPROVED" => <<e.kind, e.user>> \in approved
    /\ e.row # 0 =>
          /\ e.row \in Rows
          /\ verifications[e.row].kind = e.kind
          /\ verifications[e.row].user = e.user
          /\ e.what # "STARTED" => <<e.row, e.what>> \in decisions
    /\ e.session # NoSession =>
          \E r \in Rows : /\ verifications[r].kind = "ID"
                          /\ verifications[r].user = e.user
                          /\ verifications[r].session = e.session
                          /\ e.what # "STARTED" => <<r, e.what>> \in decisions

(* What a request has behind it at each statement. *)
RequestInv(h) ==
    /\ pc[h] = "guardId" =>
          request[h].user \in Users /\ <<"AGE", request[h].user>> \in approved
    /\ pc[h] = "post" =>
          /\ request[h].user \in Users
          /\ <<"AGE", request[h].user>> \in approved
          /\ <<"ID", request[h].user>> \in approved
    /\ pc[h] = "apply" =>
          request[h].row \in Rows /\ verifications[request[h].row].kind = "ID"
    /\ pc[h] \in {"attach", "emit"} =>
          request[h].event \in Event /\ TrueEvent(request[h].event)
    /\ pc[h] = "attach" => request[h].event.post # 0

TrailInv == \A i \in DOMAIN trail : TrueEvent(trail[i])

RowsInv ==
    \A r \in Rows :
        verifications[r].status = "APPROVED" =>
            <<verifications[r].kind, verifications[r].user>> \in approved

VerificationInv ==
    /\ \A h \in Handlers : RequestInv(h)
    /\ TrailInv
    /\ RowsInv

RequestType == request \in [Handlers -> [user : Users \cup {NoUser}, row : {0} \cup RowIds,
                                         status : Statuses, event : Event \cup {NoEvent}]]

(* Rows keep their kind and user, and nothing decided is forgotten. *)
Grows ==
    /\ \A r \in Rows : /\ r \in Rows'
                       /\ verifications'[r].kind = verifications[r].kind
                       /\ verifications'[r].user = verifications[r].user
                       /\ verifications'[r].session = verifications[r].session
    /\ approved \subseteq approved'
    /\ decisions \subseteq decisions'

-----------------------------------------------------------------------------

LEMMA RowsAreRows ==
    ASSUME TypeOK, NEW r \in Rows
    PROVE  r \in RowIds /\ r # 0 /\ verifications[r] \in Row
BY VerificationAssumption DEF TypeOK, Rows, RowIds

LEMMA TrueStays ==
    ASSUME Grows, NEW e, TrueEvent(e)
    PROVE  TrueEvent(e)'
<1>1. /\ e.what = "APPROVED" => <<e.kind, e.user>> \in approved'
      /\ e.row # 0 =>
            /\ e.row \in Rows'
            /\ verifications'[e.row].kind = e.kind
            /\ verifications'[e.row].user = e.user
            /\ e.what # "STARTED" => <<e.row, e.what>> \in decisions'
  BY DEF Grows, TrueEvent
<1>2. ASSUME e.session # NoSession
      PROVE  \E r \in Rows' : /\ verifications'[r].kind = "ID"
                              /\ verifications'[r].user = e.user
                              /\ verifications'[r].session = e.session
                              /\ e.what # "STARTED" => <<r, e.what>> \in decisions'
  <2>1. PICK r \in Rows : /\ verifications[r].kind = "ID"
                          /\ verifications[r].user = e.user
                          /\ verifications[r].session = e.session
                          /\ e.what # "STARTED" => <<r, e.what>> \in decisions
    BY <1>2 DEF TrueEvent
  <2>2. QED
    BY <2>1 DEF Grows
<1>3. QED
  BY <1>1, <1>2 DEF TrueEvent

LEMMA RequestStays ==
    ASSUME Grows, NEW h \in Handlers, RequestInv(h), pc'[h] = pc[h], request'[h] = request[h]
    PROVE  RequestInv(h)'
<1>1. PICK e : e = request[h].event
  OBVIOUS
<1>2. pc[h] \in {"attach", "emit"} => e \in Event /\ TrueEvent(e)'
  BY <1>1, TrueStays DEF RequestInv
<1>3. QED
  BY <1>1, <1>2 DEF RequestInv, Grows, TrueEvent

LEMMA TrailStays ==
    ASSUME Grows, TrailInv, trail' = trail
    PROVE  TrailInv'
<1> SUFFICES ASSUME NEW i \in DOMAIN trail PROVE TrueEvent(trail[i])'
  BY DEF TrailInv
<1>1. PICK e : e = trail[i]
  OBVIOUS
<1>2. TrueEvent(e)'
  BY <1>1, TrueStays DEF TrailInv
<1>3. QED
  BY <1>1, <1>2 DEF TrueEvent

LEMMA ToEmitSets ==
    ASSUME TypeOK, NEW h \in Handlers, NEW kind \in Kinds, NEW what \in What,
           NEW u \in Users, NEW r \in {0} \cup RowIds, ToEmit(h, kind, what, u, r)
    PROVE  /\ RequestType'
           /\ request'[h].event = [kind |-> kind, what |-> what, user |-> u, row |-> r,
                                   session |-> NoSession, post |-> 0]
           /\ request'[h].event \in Event
           /\ \A g \in Handlers \ {h} : request'[g] = request[g]
<1>1. [kind |-> kind, what |-> what, user |-> u, row |-> r, session |-> NoSession, post |-> 0]
         \in Event
  BY DEF Event
<1>2. QED
  BY <1>1 DEF ToEmit, TypeOK, RequestType

LEMMA ToEmitVendorSets ==
    ASSUME TypeOK, NEW h \in Handlers, NEW what \in What, NEW u \in Users,
           NEW s \in Sessions, ToEmitVendor(h, what, u, s)
    PROVE  /\ RequestType'
           /\ request'[h].event = [kind |-> "ID", what |-> what, user |-> u, row |-> 0,
                                   session |-> s, post |-> 0]
           /\ request'[h].event \in Event
           /\ \A g \in Handlers \ {h} : request'[g] = request[g]
<1>1. [kind |-> "ID", what |-> what, user |-> u, row |-> 0, session |-> s, post |-> 0] \in Event
  BY DEF Event, Kinds
<1>2. QED
  BY <1>1 DEF ToEmitVendor, TypeOK, RequestType

(* A decision: the row stays a row of its kind and user, approvals and     *)
(* decisions grow.                                                         *)
LEMMA DecideGrows ==
    ASSUME TypeOK, RowsInv, NEW r \in Rows, NEW status \in Statuses, Decide(r, status)
    PROVE  /\ verifications' \in Seq(Row)
           /\ Len(verifications') = Len(verifications)
           /\ approved' \subseteq Kinds \X Users
           /\ decisions' \subseteq RowIds \X Statuses
           /\ last' \in [Kinds \X Users -> Statuses]
           /\ overtaken' \subseteq Handlers
           /\ Grows
           /\ RowsInv'
           /\ <<r, status>> \in decisions'
           /\ status = "APPROVED" =>
                 <<verifications[r].kind, verifications[r].user>> \in approved'
<1>1. r \in 1 .. Len(verifications) /\ r \in RowIds /\ verifications[r] \in Row
  BY RowsAreRows DEF Rows, TypeOK
<1>2. /\ verifications' = [verifications EXCEPT ![r].status = status]
      /\ decisions' = decisions \cup {<<r, status>>}
  BY DEF Decide
<1>3. [verifications[r] EXCEPT !.status = status] \in Row
  BY <1>1 DEF Row
<1>4. verifications' \in Seq(Row) /\ Len(verifications') = Len(verifications)
  BY <1>1, <1>2, <1>3 DEF TypeOK
<1>5. Rows' = Rows
  BY <1>2 DEF Rows
<1>6. \A q \in Rows : /\ verifications'[q].kind = verifications[q].kind
                      /\ verifications'[q].user = verifications[q].user
                      /\ verifications'[q].session = verifications[q].session
                      /\ q # r => verifications'[q] = verifications[q]
  BY <1>2 DEF Rows
<1>7. verifications'[r].status = status
  BY <1>1, <1>2 DEF Row
<1>8. <<verifications[r].kind, verifications[r].user>> \in Kinds \X Users
  BY <1>1 DEF Row
<1>9. /\ approved \subseteq approved'
      /\ approved' \subseteq Kinds \X Users
      /\ status = "APPROVED" =>
            <<verifications[r].kind, verifications[r].user>> \in approved'
  BY <1>8 DEF Decide, TypeOK
<1>10. decisions' \subseteq RowIds \X Statuses /\ overtaken' \subseteq Handlers
  BY <1>1, <1>2 DEF TypeOK, Decide
<1>14. last' \in [Kinds \X Users -> Statuses]
  BY <1>8 DEF TypeOK, Decide
<1>11. Grows
  BY <1>2, <1>5, <1>6, <1>9 DEF Grows
<1>12. RowsInv'
  BY <1>5, <1>6, <1>7, <1>9 DEF RowsInv
<1>13. QED
  BY <1>2, <1>4, <1>9, <1>10, <1>11, <1>12, <1>14

(* One handler moves, the others stay as they are. *)
LEMMA OthersStay ==
    ASSUME Grows, \A g \in Handlers : RequestInv(g), NEW h \in Handlers, RequestInv(h)',
           \A g \in Handlers \ {h} : pc'[g] = pc[g] /\ request'[g] = request[g]
    PROVE  \A g \in Handlers : RequestInv(g)'
<1> SUFFICES ASSUME NEW g \in Handlers PROVE RequestInv(g)'
  OBVIOUS
<1>1. CASE g = h
  BY <1>1
<1>2. CASE g # h
  BY <1>2, RequestStays
<1>3. QED
  BY <1>1, <1>2

LEMMA GotoSets ==
    ASSUME TypeOK, NEW h \in Handlers, NEW from, NEW to, Goto(h, from, to)
    PROVE  /\ pc[h] = from
           /\ pc'[h] = to
           /\ \A g \in Handlers \ {h} : pc'[g] = pc[g]
           /\ to \in {"idle", "apply", "guardId", "post", "attach", "emit"} =>
                 pc' \in [Handlers -> {"idle", "apply", "guardId", "post", "attach", "emit"}]
BY DEF Goto, TypeOK

LEMMA StartStep ==
    ASSUME TypeOK, VerificationInv, NEW h \in Handlers, NEW kind \in Kinds,
           NEW u \in Users, NEW s \in Sessions, Start(h, kind, u, s)
    PROVE  TypeOK' /\ VerificationInv'
<1> DEFINE row == [kind |-> kind, user |-> u, session |-> s, status |-> "PENDING"]
<1>1. PICK n \in RowIds : n = Len(verifications) + 1
  BY VerificationAssumption DEF Start, TypeOK, RowIds
<1>2. row \in Row
  BY DEF Row, Statuses
<1>3. /\ verifications' = Append(verifications, row)
      /\ UNCHANGED <<trail, posts, approved, decisions, last, overtaken, faults, dropped>>
      /\ requests' \in 0 .. MaxRequests
  BY VerificationAssumption DEF Start, Begin, TypeOK
<1>4. /\ verifications' \in Seq(Row)
      /\ Len(verifications') = n
      /\ verifications'[n] = row
      /\ \A r \in Rows : r \in Rows' /\ verifications'[r] = verifications[r]
      /\ n \in Rows'
      /\ \A r \in Rows' : r \in Rows \/ r = n
  BY <1>1, <1>2, <1>3 DEF TypeOK, Rows
<1>5. Grows
  BY <1>3, <1>4 DEF Grows
<1>6. ToEmit(h, kind, "STARTED", u, n)
  BY <1>1 DEF Start
<1>7. /\ RequestType'
      /\ request'[h].event = [kind |-> kind, what |-> "STARTED", user |-> u, row |-> n,
                              session |-> NoSession, post |-> 0]
      /\ request'[h].event \in Event
      /\ \A g \in Handlers \ {h} : request'[g] = request[g]
  BY <1>6, ToEmitSets DEF What
<1>8. /\ pc'[h] = "emit"
      /\ \A g \in Handlers \ {h} : pc'[g] = pc[g]
      /\ pc' \in [Handlers -> {"idle", "apply", "guardId", "post", "attach", "emit"}]
  BY GotoSets DEF Start
<1>9. TypeOK'
  BY <1>1, <1>3, <1>4, <1>7, <1>8, VerificationAssumption DEF TypeOK, RequestType, RowIds
<1>10. RequestInv(h)'
  BY <1>4, <1>7, <1>8 DEF RequestInv, TrueEvent
<1>11. \A g \in Handlers : RequestInv(g)'
  BY <1>5, <1>7, <1>8, <1>10, OthersStay DEF VerificationInv
<1>12. TrailInv'
  BY <1>3, <1>5, TrailStays DEF VerificationInv
<1>13. RowsInv'
  <2> SUFFICES ASSUME NEW r \in Rows', verifications'[r].status = "APPROVED"
               PROVE  <<verifications'[r].kind, verifications'[r].user>> \in approved'
    BY DEF RowsInv
  <2>1. verifications'[n].status = "PENDING"
    BY <1>4
  <2>2. r \in Rows /\ verifications'[r] = verifications[r]
    BY <1>4, <2>1
  <2>3. QED
    BY <1>3, <2>2 DEF VerificationInv, RowsInv
<1>14. QED
  BY <1>9, <1>11, <1>12, <1>13 DEF VerificationInv

(* AdminSet and VendorApply: a decision, and its event to emit. *)
LEMMA DecisionStep ==
    ASSUME TypeOK, VerificationInv, NEW h \in Handlers,
           NEW r \in Rows, NEW status \in Statuses, NEW kind \in Kinds, NEW u \in Users,
           NEW s \in Sessions, kind = verifications[r].kind, u = verifications[r].user,
           s = verifications[r].session, Decide(r, status),
           \/ ToEmit(h, kind, EventFor(status), u, r)
           \/ kind = "ID" /\ ToEmitVendor(h, EventFor(status), u, s),
           pc' = [pc EXCEPT ![h] = "emit"],
           UNCHANGED <<trail, posts, faults, dropped>>, requests' \in 0 .. MaxRequests
    PROVE  TypeOK' /\ VerificationInv'
<1>1. /\ verifications' \in Seq(Row)
      /\ Len(verifications') = Len(verifications)
      /\ approved' \subseteq Kinds \X Users
      /\ decisions' \subseteq RowIds \X Statuses
      /\ last' \in [Kinds \X Users -> Statuses]
      /\ overtaken' \subseteq Handlers
      /\ Grows
      /\ RowsInv'
      /\ <<r, status>> \in decisions'
      /\ status = "APPROVED" => <<kind, u>> \in approved'
  BY DecideGrows DEF VerificationInv
<1>2. PICK what \in What :
         /\ what = EventFor(status)
         /\ what # "STARTED" => what = status
  BY DEF EventFor, What, Statuses
<1>3. r \in RowIds /\ r # 0
  BY RowsAreRows
<1>4. /\ RequestType'
      /\ \/ request'[h].event = [kind |-> kind, what |-> what, user |-> u, row |-> r,
                                 session |-> NoSession, post |-> 0]
         \/ kind = "ID" /\ request'[h].event = [kind |-> kind, what |-> what, user |-> u,
                                                row |-> 0, session |-> s, post |-> 0]
      /\ request'[h].event \in Event
      /\ \A g \in Handlers \ {h} : request'[g] = request[g]
  BY <1>2, <1>3, ToEmitSets, ToEmitVendorSets
<1>5. /\ pc'[h] = "emit"
      /\ \A g \in Handlers \ {h} : pc'[g] = pc[g]
      /\ pc' \in [Handlers -> {"idle", "apply", "guardId", "post", "attach", "emit"}]
  BY DEF TypeOK
<1>6. TypeOK'
  BY <1>1, <1>4, <1>5 DEF TypeOK, RequestType
<1>7. RequestInv(h)'
  <2>1. /\ r \in Rows' /\ verifications'[r].kind = kind
        /\ verifications'[r].user = u /\ verifications'[r].session = s
    BY <1>1 DEF Grows
  <2>2. PICK e \in Event : e = request'[h].event
    BY <1>4
  <2>4. TrueEvent(e)'
    <3>1. CASE e = [kind |-> kind, what |-> what, user |-> u, row |-> r,
                    session |-> NoSession, post |-> 0]
      BY <1>1, <1>2, <2>1, <3>1 DEF TrueEvent
    <3>2. CASE kind = "ID" /\ e = [kind |-> kind, what |-> what, user |-> u, row |-> 0,
                                   session |-> s, post |-> 0]
      <4>1. /\ e.kind = kind /\ e.what = what /\ e.user = u /\ e.row = 0 /\ e.session = s
        BY <3>2
      <4>2. \E q \in Rows' : /\ verifications'[q].kind = "ID"
                             /\ verifications'[q].user = e.user
                             /\ verifications'[q].session = e.session
                             /\ e.what # "STARTED" => <<q, e.what>> \in decisions'
        BY <1>1, <1>2, <2>1, <3>2, <4>1
      <4>3. QED
        BY <1>1, <1>2, <4>1, <4>2 DEF TrueEvent
    <3>3. QED
      BY <1>4, <2>2, <3>1, <3>2
  <2>3. QED
    BY <1>4, <1>5, <2>2, <2>4 DEF RequestInv, TrueEvent
<1>8. \A g \in Handlers : RequestInv(g)'
  BY <1>1, <1>4, <1>5, <1>7, OthersStay DEF VerificationInv
<1>9. TrailInv'
  BY <1>1, TrailStays DEF VerificationInv
<1>10. QED
  BY <1>1, <1>6, <1>8, <1>9 DEF VerificationInv

(* The other statements write no verification row. *)
LEMMA EmitStep ==
    ASSUME TypeOK, VerificationInv, NEW h \in Handlers, Emit(h)
    PROVE  TypeOK' /\ VerificationInv'
<1>1. PICK e \in Event : e = request[h].event /\ TrueEvent(e)
  BY DEF Emit, Goto, VerificationInv, RequestInv
<1>2. /\ trail' = Append(trail, e)
      /\ request' = [request EXCEPT ![h] = NoRequest]
      /\ UNCHANGED <<verifications, posts, approved, decisions, last, overtaken, requests, faults,
                     dropped>>
  BY <1>1 DEF Emit, tables
<1>3. /\ pc'[h] = "idle"
      /\ \A g \in Handlers \ {h} : pc'[g] = pc[g]
      /\ pc' \in [Handlers -> {"idle", "apply", "guardId", "post", "attach", "emit"}]
  BY GotoSets DEF Emit
<1>4. Grows
  BY <1>2 DEF Grows, Rows
<1>5. NoRequest \in [user : Users \cup {NoUser}, row : {0} \cup RowIds,
                     status : Statuses, event : Event \cup {NoEvent}]
  BY DEF NoRequest, Statuses
<1>6. TypeOK'
  <2>1. trail' \in Seq(Event)
    BY <1>2 DEF TypeOK
  <2>2. RequestType'
    BY <1>2, <1>5 DEF TypeOK, RequestType
  <2>3. QED
    BY <1>2, <1>3, <2>1, <2>2 DEF TypeOK, RequestType
<1>7. RequestInv(h)'
  BY <1>3 DEF RequestInv
<1>8. \A g \in Handlers \ {h} : request'[g] = request[g]
  BY <1>2 DEF TypeOK
<1>9. \A g \in Handlers : RequestInv(g)'
  BY <1>3, <1>4, <1>7, <1>8, OthersStay DEF VerificationInv
<1>10. TrailInv'
  <2> SUFFICES ASSUME NEW i \in DOMAIN trail'
               PROVE  TrueEvent(trail[i])'
    BY DEF TrailInv
  <2>1. /\ trail \in Seq(Event)
        /\ i \in DOMAIN trail \/ trail'[i] = e
        /\ i \in DOMAIN trail => trail'[i] = trail[i]
    BY <1>2 DEF TypeOK
  <2>2. PICK f : f = trail'[i]
    OBVIOUS
  <2>3. TrueEvent(f)
    BY <1>1, <2>1, <2>2 DEF VerificationInv, TrailInv
  <2>4. TrueEvent(f)'
    BY <1>4, <2>3, TrueStays
  <2>5. QED
    BY <2>2, <2>4 DEF TrueEvent
<1>11. RowsInv'
  BY <1>2 DEF VerificationInv, RowsInv, Rows
<1>12. QED
  BY <1>6, <1>9, <1>10, <1>11 DEF VerificationInv

LEMMA QuietStep ==
    ASSUME TypeOK, VerificationInv, NEW h \in Handlers,
           UNCHANGED <<verifications, trail, approved, decisions, last>>,
           overtaken' \subseteq Handlers,
           requests' \in 0 .. MaxRequests, faults' \in 0 .. MaxFaults,
           posts' \in Seq(Post), dropped' \subseteq Nat, RequestType', RequestInv(h)',
           pc' \in [Handlers -> {"idle", "apply", "guardId", "post", "attach", "emit"}],
           \A g \in Handlers \ {h} : pc'[g] = pc[g] /\ request'[g] = request[g]
    PROVE  TypeOK' /\ VerificationInv'
<1>1. Grows
  BY DEF Grows, Rows
<1>2. \A g \in Handlers : RequestInv(g)'
  BY <1>1, OthersStay DEF VerificationInv
<1>3. TrailInv' /\ RowsInv'
  BY <1>1, TrailStays DEF VerificationInv, RowsInv, Rows
<1>4. TypeOK'
  BY DEF TypeOK, RequestType
<1>5. QED
  BY <1>2, <1>3, <1>4 DEF VerificationInv

LEMMA ArriveStep ==
    ASSUME TypeOK, VerificationInv, NEW h \in Handlers, Arrive(h)
    PROVE  TypeOK' /\ VerificationInv'
<1>1. ASSUME NEW u \in Users, NEW s \in Sessions, NEW kind \in Kinds, Start(h, kind, u, s)
      PROVE  TypeOK' /\ VerificationInv'
  BY <1>1, StartStep
<1>2. ASSUME NEW r \in Rows, NEW status \in {"APPROVED", "REJECTED"}, AdminSet(h, r, status)
      PROVE  TypeOK' /\ VerificationInv'
  <2>1. PICK kind \in Kinds, u \in Users, s \in Sessions :
           /\ kind = verifications[r].kind /\ u = verifications[r].user
           /\ s = verifications[r].session
    BY RowsAreRows DEF Row
  <2>2. status \in Statuses /\ EventFor(status) = status
    BY DEF Statuses, EventFor
  <2>3. requests' \in 0 .. MaxRequests
    BY <1>2, VerificationAssumption DEF AdminSet, Begin, TypeOK
  <2>4. QED
    BY <1>2, <2>1, <2>2, <2>3, DecisionStep DEF AdminSet, Goto
<1>3. ASSUME NEW u \in Users, NEW s \in Sessions, NEW status \in Statuses,
             VendorLookup(h, u, s, status)
      PROVE  TypeOK' /\ VerificationInv'
  <2>1. PICK r \in IdRowsOf(u, s) :
           request' = [request EXCEPT ![h] =
                         [user |-> u, row |-> r, status |-> status, event |-> NoEvent]]
    BY <1>3 DEF VendorLookup, Latest
  <2>2. r \in Rows /\ verifications[r].kind = "ID" /\ r \in RowIds
    BY RowsAreRows DEF IdRowsOf
  <2>3. /\ pc'[h] = "apply"
        /\ \A g \in Handlers \ {h} : pc'[g] = pc[g]
        /\ pc' \in [Handlers -> {"idle", "apply", "guardId", "post", "attach", "emit"}]
    BY <1>3, GotoSets DEF VendorLookup
  <2>4. /\ UNCHANGED <<verifications, trail, posts, approved, decisions, last, overtaken, faults, dropped>>
        /\ requests' \in 0 .. MaxRequests
    BY <1>3, VerificationAssumption DEF VendorLookup, Begin, TypeOK, tables
  <2>5. RequestType' /\ request'[h].row = r /\ \A g \in Handlers \ {h} : request'[g] = request[g]
    BY <2>1, <2>2 DEF TypeOK, RequestType
  <2>6. RequestInv(h)'
    BY <2>2, <2>3, <2>4, <2>5 DEF RequestInv, Rows
  <2>7. /\ posts' \in Seq(Post) /\ faults' \in 0 .. MaxFaults
        /\ dropped' \subseteq Nat /\ overtaken' \subseteq Handlers
    BY <2>4 DEF TypeOK
  <2>8. QED
    BY <2>3, <2>4, <2>5, <2>6, <2>7, QuietStep
<1>4. ASSUME NEW u \in Users, GuardAge(h, u)
      PROVE  TypeOK' /\ VerificationInv'
  <2>1. /\ pc'[h] = "guardId"
        /\ \A g \in Handlers \ {h} : pc'[g] = pc[g]
        /\ pc' \in [Handlers -> {"idle", "apply", "guardId", "post", "attach", "emit"}]
    BY <1>4, GotoSets DEF GuardAge
  <2>2. /\ UNCHANGED <<verifications, trail, posts, approved, decisions, last, faults, dropped>>
        /\ requests' \in 0 .. MaxRequests /\ overtaken' \subseteq Handlers
    BY <1>4, VerificationAssumption DEF GuardAge, Begin, TypeOK, tables
  <2>3. request' = [request EXCEPT ![h].user = u]
    BY <1>4 DEF GuardAge
  <2>4. RequestType' /\ request'[h].user = u /\ \A g \in Handlers \ {h} : request'[g] = request[g]
    BY <2>3 DEF TypeOK, RequestType
  <2>5. <<"AGE", u>> \in approved
    BY <1>4 DEF GuardAge, HasApproved, VerificationInv, RowsInv
  <2>6. RequestInv(h)'
    BY <2>1, <2>2, <2>4, <2>5 DEF RequestInv
  <2>7. /\ posts' \in Seq(Post) /\ faults' \in 0 .. MaxFaults
        /\ dropped' \subseteq Nat
    BY <2>2 DEF TypeOK
  <2>8. QED
    BY <2>1, <2>2, <2>4, <2>6, <2>7, QuietStep
<1>5. QED
  BY <1>1, <1>2, <1>3, <1>4 DEF Arrive

(* Attaching media changes nothing else of any post. *)
LEMMA AttachSets ==
    ASSUME TypeOK, NEW p, posts' = [posts EXCEPT ![p].media = "attached"]
    PROVE  /\ posts' \in Seq(Post)
           /\ DOMAIN posts' = DOMAIN posts
           /\ \A q \in DOMAIN posts :
                 /\ posts'[q].author = posts[q].author
                 /\ q = p => posts'[q].media = "attached"
                 /\ q # p => posts'[q] = posts[q]
<1>1. posts \in Seq(Post)
  BY DEF TypeOK
<1>2. CASE p \in DOMAIN posts
  <2>1. p \in 1 .. Len(posts) /\ posts[p] \in Post
    BY <1>1, <1>2
  <2>2. [posts[p] EXCEPT !.media = "attached"] \in Post
    BY <2>1 DEF Post
  <2>3. posts' = [posts EXCEPT ![p] = [posts[p] EXCEPT !.media = "attached"]]
    OBVIOUS
  <2>4. posts' \in Seq(Post) /\ DOMAIN posts' = DOMAIN posts
    BY <1>1, <2>1, <2>2, <2>3
  <2>5. /\ posts'[p].author = posts[p].author
        /\ posts'[p].media = "attached"
        /\ \A q \in DOMAIN posts : q # p => posts'[q] = posts[q]
    BY <1>1, <2>1, <2>3 DEF Post
  <2>6. QED
    BY <2>4, <2>5
<1>3. CASE p \notin DOMAIN posts
  <2>1. posts' = [q \in DOMAIN posts |-> posts[q]]
    BY <1>3
  <2>2. posts = [q \in DOMAIN posts |-> posts[q]]
    BY <1>1
  <2>3. QED
    BY <1>1, <1>3, <2>1, <2>2
<1>4. QED
  BY <1>2, <1>3

LEMMA ContinueStep ==
    ASSUME TypeOK, VerificationInv, NEW h \in Handlers, Continue(h) \/ Fail(h)
    PROVE  TypeOK' /\ VerificationInv'
<1>1. NoRequest \in [user : Users \cup {NoUser}, row : {0} \cup RowIds,
                     status : Statuses, event : Event \cup {NoEvent}]
  BY DEF NoRequest, Statuses
<1>2. CASE VendorApply(h)
  <2>1. PICK r \in Rows : r = request[h].row /\ verifications[r].kind = "ID"
    BY <1>2 DEF VendorApply, Goto, VerificationInv, RequestInv
  <2>2. PICK status \in Statuses : status = request[h].status
    BY DEF TypeOK
  <2>3. PICK u \in Users, s \in Sessions : u = verifications[r].user /\ s = verifications[r].session
    BY RowsAreRows DEF Row
  <2>4. requests' \in 0 .. MaxRequests
    BY <1>2 DEF VendorApply, TypeOK
  <2>5. QED
    BY <1>2, <2>1, <2>2, <2>3, <2>4, DecisionStep DEF VendorApply, Goto, Kinds
<1>3. CASE GuardId(h)
  <2>1. /\ pc[h] = "guardId" /\ pc'[h] = "post"
        /\ \A g \in Handlers \ {h} : pc'[g] = pc[g]
        /\ pc' \in [Handlers -> {"idle", "apply", "guardId", "post", "attach", "emit"}]
    BY <1>3, GotoSets DEF GuardId
  <2>2. UNCHANGED <<verifications, trail, posts, approved, decisions, last, overtaken, request,
                    requests, faults, dropped>>
    BY <1>3 DEF GuardId, tables
  <2>3. PICK u \in Users : u = request[h].user /\ <<"AGE", u>> \in approved
    BY <2>1 DEF VerificationInv, RequestInv
  <2>4. <<"ID", u>> \in approved
    BY <1>3, <2>3 DEF GuardId, HasApproved, VerificationInv, RowsInv
  <2>5. RequestInv(h)'
    BY <2>1, <2>2, <2>3, <2>4 DEF RequestInv
  <2>6. RequestType'
    BY <2>2 DEF TypeOK, RequestType
  <2>7. QED
    BY <2>1, <2>2, <2>5, <2>6, QuietStep DEF TypeOK
<1>4. CASE GuardRefuses(h) \/ Fail(h)
  <2>1. /\ pc'[h] = "idle"
        /\ \A g \in Handlers \ {h} : pc'[g] = pc[g]
        /\ pc' \in [Handlers -> {"idle", "apply", "guardId", "post", "attach", "emit"}]
    BY <1>4, GotoSets DEF GuardRefuses, Fail, TypeOK
  <2>2. /\ UNCHANGED <<verifications, trail, posts, approved, decisions, last, overtaken, requests>>
        /\ faults' \in 0 .. MaxFaults
    BY <1>4, VerificationAssumption DEF GuardRefuses, Fail, tables, TypeOK
  <2>7. dropped' \subseteq Nat
    <3>1. request[h].event.post \in Nat
      BY DEF TypeOK, Event, NoEvent
    <3>2. QED
      BY <1>4, <3>1 DEF GuardRefuses, Fail, TypeOK
  <2>3. RequestType' /\ \A g \in Handlers \ {h} : request'[g] = request[g]
    <3>1. request' = [request EXCEPT ![h] = NoRequest]
      BY <1>4 DEF GuardRefuses, Fail
    <3>2. QED
      BY <1>1, <3>1 DEF TypeOK, RequestType
  <2>4. RequestInv(h)'
    BY <2>1 DEF RequestInv
  <2>6. QED
    BY <2>1, <2>2, <2>3, <2>4, <2>7, QuietStep DEF TypeOK
<1>5. ASSUME NEW media \in {"none", "missing"}, CreatePost(h, media)
      PROVE  TypeOK' /\ VerificationInv'
  <2>1. PICK u \in Users : /\ u = request[h].user
                           /\ <<"AGE", u>> \in approved /\ <<"ID", u>> \in approved
    BY <1>5 DEF CreatePost, Goto, VerificationInv, RequestInv
  <2>2. /\ pc'[h] \in {"attach", "emit"}
        /\ \A g \in Handlers \ {h} : pc'[g] = pc[g]
        /\ pc' \in [Handlers -> {"idle", "apply", "guardId", "post", "attach", "emit"}]
    BY <1>5, GotoSets DEF CreatePost
  <2>3. PICK post : post = [author |-> u, media |-> media]
    OBVIOUS
  <2>4. /\ UNCHANGED <<verifications, trail, approved, decisions, last, overtaken, requests,
                       faults, dropped>>
        /\ posts' = Append(posts, post)
        /\ post \in Post /\ post.author = u
    BY <1>5, <2>1, <2>3 DEF CreatePost, Post
  <2>5. PICK n \in Nat \ {0} : n = Len(posts) + 1
    BY DEF TypeOK
  <2>6. PICK e \in Event : e = [kind |-> "ID", what |-> "APPROVED", user |-> u, row |-> 0,
                              session |-> NoSession, post |-> n]
    BY DEF Event, Kinds, What
  <2>7. /\ RequestType'
        /\ request'[h].event = e
        /\ \A g \in Handlers \ {h} : request'[g] = request[g]
    BY <1>5, <2>1, <2>5, <2>6 DEF CreatePost, TypeOK, RequestType
  <2>8. RequestInv(h)'
    BY <2>1, <2>2, <2>4, <2>6, <2>7 DEF RequestInv, TrueEvent
  <2>9. posts' \in Seq(Post)
    BY <2>4 DEF TypeOK
  <2>10. QED
    BY <2>2, <2>4, <2>7, <2>8, <2>9, QuietStep DEF TypeOK
<1>6. CASE AttachMedia(h)
  <2>1. /\ pc[h] = "attach" /\ pc'[h] = "emit"
        /\ \A g \in Handlers \ {h} : pc'[g] = pc[g]
        /\ pc' \in [Handlers -> {"idle", "apply", "guardId", "post", "attach", "emit"}]
    BY <1>6, GotoSets DEF AttachMedia
  <2>2. UNCHANGED <<verifications, trail, approved, decisions, last, overtaken, request, requests,
                    faults, dropped>>
    BY <1>6 DEF AttachMedia
  <2>3. RequestInv(h)'
    BY <2>1, <2>2 DEF VerificationInv, RequestInv, TrueEvent, Rows
  <2>4. posts' \in Seq(Post)
    BY <1>6, AttachSets DEF AttachMedia
  <2>5. RequestType'
    BY <2>2 DEF TypeOK, RequestType
  <2>6. QED
    BY <2>1, <2>2, <2>3, <2>4, <2>5, QuietStep DEF TypeOK
<1>7. CASE Emit(h)
  BY <1>7, EmitStep
<1>8. QED
  BY <1>2, <1>3, <1>4, <1>5, <1>6, <1>7 DEF Continue

LEMMA Inductive == Spec => [](TypeOK /\ VerificationInv)
<1>1. Init => TypeOK /\ VerificationInv
  <2> SUFFICES ASSUME Init PROVE TypeOK /\ VerificationInv
    OBVIOUS
  <2>1. NoRequest \in [user : Users \cup {NoUser}, row : {0} \cup RowIds,
                       status : Statuses, event : Event \cup {NoEvent}]
    BY DEF NoRequest, Statuses
  <2>2. /\ verifications \in Seq(Row) /\ trail \in Seq(Event) /\ Len(verifications) = 0
        /\ posts \in Seq(Post) /\ DOMAIN posts = {}
    BY DEF Init
  <2>3. TypeOK
    BY <2>1, <2>2, VerificationAssumption DEF Init, TypeOK, Statuses
  <2>4. Rows = {} /\ DOMAIN trail = {}
    BY DEF Init, Rows
  <2>5. \A h \in Handlers : RequestInv(h)
    BY DEF Init, RequestInv
  <2>6. TrailInv /\ RowsInv
    BY <2>2, <2>4 DEF Init, TrailInv, RowsInv
  <2>7. QED
    BY <2>3, <2>5, <2>6 DEF VerificationInv
<1>2. TypeOK /\ VerificationInv /\ [Next]_vars => TypeOK' /\ VerificationInv'
  <2> SUFFICES ASSUME TypeOK, VerificationInv, [Next]_vars
               PROVE  TypeOK' /\ VerificationInv'
    OBVIOUS
  <2>1. ASSUME NEW h \in Handlers, Arrive(h) \/ Continue(h) \/ Fail(h)
        PROVE  TypeOK' /\ VerificationInv'
    BY <2>1, ArriveStep, ContinueStep
  <2>2. CASE UNCHANGED vars
    BY <2>2 DEF vars, tables, TypeOK, VerificationInv, RequestInv, TrueEvent, TrailInv,
       RowsInv, Rows
  <2>3. QED
    BY <2>1, <2>2 DEF Next
<1>3. QED
  BY <1>1, <1>2, PTL DEF Spec

(* Every variable of the verification tables, trail and handlers keeps its *)
(* type.                                                                   *)
THEOREM TypeCorrect == Spec => []TypeOK
BY Inductive, PTL

(* Every approval in the compliance trail had an approval of that kind for *)
(* that user before it.                                                    *)
THEOREM ApprovalsTrue == Spec => []ApprovalsInTrailAreTrue
<1>1. TypeOK /\ VerificationInv => ApprovalsInTrailAreTrue
  BY DEF VerificationInv, TrailInv, TrueEvent, ApprovalsInTrailAreTrue
<1>2. QED
  BY <1>1, Inductive, PTL

(* An event names a row of its kind and user, or a vendor session of its   *)
(* user, and reports what was once written to that row, or to one of that  *)
(* session.                                                                *)
THEOREM TrailFaithful == Spec => []TrailIsFaithful
<1>1. TypeOK /\ VerificationInv => TrailIsFaithful
  BY DEF VerificationInv, TrailInv, TrueEvent, TrailIsFaithful
<1>2. QED
  BY <1>1, Inductive, PTL

-----------------------------------------------------------------------------
(* The guard.  What its queries found is still so when the post is         *)
(* created, unless an approval of the creator was withdrawn since.         *)

Approves(kind, u) == \E r \in Rows : /\ verifications[r].kind = kind
                                     /\ verifications[r].user = u
                                     /\ verifications[r].status = "APPROVED"

GuardHolds(h) ==
    /\ pc[h] = "guardId" => Approves("AGE", request[h].user) \/ h \in overtaken
    /\ pc[h] = "post" => IsVerified(request[h].user) \/ h \in overtaken

GuardInv == \A h \in Handlers : GuardHolds(h)

(* Nothing that stays as it is, or is only added to, disturbs a guard.     *)
LEMMA ApprovesStays ==
    ASSUME \A r \in Rows : r \in Rows' /\ verifications'[r] = verifications[r],
           NEW kind, NEW u, Approves(kind, u)
    PROVE  Approves(kind, u)'
BY DEF Approves

LEMMA QuietGuard ==
    ASSUME GuardInv, NEW h \in Handlers,
           \A r \in Rows : r \in Rows' /\ verifications'[r] = verifications[r],
           overtaken \ {h} \subseteq overtaken',
           \A g \in Handlers \ {h} : pc'[g] = pc[g] /\ request'[g] = request[g],
           GuardHolds(h)'
    PROVE  GuardInv'
<1> SUFFICES ASSUME NEW g \in Handlers \ {h} PROVE GuardHolds(g)'
  BY DEF GuardInv
<1>1. PICK u : u = request[g].user
  OBVIOUS
<1>2. \A kind \in Kinds : Approves(kind, u) => Approves(kind, u)'
  BY ApprovesStays
<1>3. /\ pc[g] = "guardId" => Approves("AGE", u) \/ g \in overtaken
      /\ pc[g] = "post" => (\A kind \in Kinds : Approves(kind, u)) \/ g \in overtaken
  BY <1>1 DEF GuardInv, GuardHolds, IsVerified, Approves
<1>4. /\ pc'[g] = "guardId" => Approves("AGE", u)' \/ g \in overtaken'
      /\ pc'[g] = "post" => (\A kind \in Kinds : Approves(kind, u)') \/ g \in overtaken'
  BY <1>2, <1>3 DEF Kinds
<1>5. QED
  BY <1>1, <1>4 DEF GuardHolds, IsVerified, Approves

(* A decision that withdraws an approval marks the guards it overtakes.    *)
LEMMA DecideGuard ==
    ASSUME TypeOK, VerificationInv, GuardInv, NEW h \in Handlers, NEW r \in Rows,
           NEW status \in Statuses, Decide(r, status), pc'[h] = "emit",
           \A g \in Handlers \ {h} : pc'[g] = pc[g] /\ request'[g] = request[g]
    PROVE  GuardInv'
<1> SUFFICES ASSUME NEW g \in Handlers \ {h} PROVE GuardHolds(g)'
  BY DEF GuardInv, GuardHolds
<1>1. PICK u : u = request[g].user
  OBVIOUS
<1>2. /\ Rows' = Rows /\ verifications'[r].status = status
      /\ \A q \in Rows : /\ verifications'[q].kind = verifications[q].kind
                         /\ verifications'[q].user = verifications[q].user
                         /\ q # r => verifications'[q] = verifications[q]
  BY RowsAreRows DEF Decide, Rows, TypeOK, Row
<1>3. overtaken \subseteq overtaken'
  BY DEF Decide
<1>4. CASE pc[g] \notin {"guardId", "post"}
  BY <1>4 DEF GuardHolds
<1>5. CASE /\ pc[g] \in {"guardId", "post"} /\ verifications[r].user = u
           /\ verifications[r].status = "APPROVED" /\ status # "APPROVED"
  <2>1. g \in overtaken'
    BY <1>1, <1>5 DEF Decide
  <2>2. QED
    BY <2>1 DEF GuardHolds
<1>6. CASE \/ verifications[r].user # u
           \/ verifications[r].status # "APPROVED"
           \/ status = "APPROVED"
  <2>1. \A kind \in Kinds : Approves(kind, u) => Approves(kind, u)'
    <3> SUFFICES ASSUME NEW kind \in Kinds, Approves(kind, u) PROVE Approves(kind, u)'
      OBVIOUS
    <3>1. PICK q \in Rows : /\ verifications[q].kind = kind /\ verifications[q].user = u
                            /\ verifications[q].status = "APPROVED"
      BY DEF Approves
    <3>2. /\ verifications'[q].kind = kind /\ verifications'[q].user = u
          /\ verifications'[q].status = "APPROVED"
      BY <1>2, <1>6, <3>1
    <3>3. QED
      BY <1>2, <3>2 DEF Approves
  <2>2. /\ pc[g] = "guardId" => Approves("AGE", u) \/ g \in overtaken
        /\ pc[g] = "post" => (\A kind \in Kinds : Approves(kind, u)) \/ g \in overtaken
    BY <1>1 DEF GuardInv, GuardHolds, IsVerified, Approves
  <2>3. /\ pc'[g] = "guardId" => Approves("AGE", u)' \/ g \in overtaken'
        /\ pc'[g] = "post" => (\A kind \in Kinds : Approves(kind, u)') \/ g \in overtaken'
    BY <1>3, <2>1, <2>2 DEF Kinds
  <2>4. QED
    BY <1>1, <2>3 DEF GuardHolds, IsVerified, Approves
<1>7. QED
  BY <1>4, <1>5, <1>6

LEMMA ArriveGuard ==
    ASSUME TypeOK, VerificationInv, GuardInv, NEW h \in Handlers, Arrive(h)
    PROVE  GuardInv'
<1>1. ASSUME NEW u \in Users, NEW s \in Sessions, NEW kind \in Kinds, Start(h, kind, u, s)
      PROVE  GuardInv'
  <2>1. \A r \in Rows : r \in Rows' /\ verifications'[r] = verifications[r]
    BY <1>1 DEF Start, Rows, TypeOK
  <2>2. /\ overtaken' = overtaken /\ pc'[h] = "emit"
        /\ \A g \in Handlers \ {h} : pc'[g] = pc[g] /\ request'[g] = request[g]
    BY <1>1 DEF Start, Goto, ToEmit, TypeOK
  <2>3. QED
    BY <2>1, <2>2, QuietGuard DEF GuardHolds
<1>2. ASSUME NEW r \in Rows, NEW status \in {"APPROVED", "REJECTED"}, AdminSet(h, r, status)
      PROVE  GuardInv'
  <2>1. /\ Decide(r, status) /\ status \in Statuses /\ pc'[h] = "emit"
        /\ \A g \in Handlers \ {h} : pc'[g] = pc[g] /\ request'[g] = request[g]
    BY <1>2 DEF AdminSet, Goto, ToEmit, TypeOK, Statuses
  <2>2. QED
    BY <2>1, DecideGuard
<1>3. ASSUME NEW u \in Users, NEW s \in Sessions, NEW status \in Statuses,
             VendorLookup(h, u, s, status)
      PROVE  GuardInv'
  <2>1. /\ UNCHANGED <<verifications, overtaken>> /\ pc'[h] = "apply"
        /\ \A g \in Handlers \ {h} : pc'[g] = pc[g] /\ request'[g] = request[g]
    BY <1>3 DEF VendorLookup, Goto, tables, TypeOK
  <2>2. QED
    BY <2>1, QuietGuard DEF GuardHolds, Rows
<1>4. ASSUME NEW u \in Users, GuardAge(h, u)
      PROVE  GuardInv'
  <2>1. /\ verifications' = verifications /\ overtaken' = overtaken \ {h}
        /\ pc'[h] = "guardId" /\ request'[h].user = u
        /\ \A g \in Handlers \ {h} : pc'[g] = pc[g] /\ request'[g] = request[g]
    BY <1>4 DEF GuardAge, Goto, TypeOK
  <2>2. Approves("AGE", u)'
    BY <1>4, <2>1 DEF GuardAge, HasApproved, Approves, Rows
  <2>3. GuardHolds(h)'
    BY <2>1, <2>2 DEF GuardHolds, Approves
  <2>4. QED
    BY <2>1, <2>3, QuietGuard DEF Rows
<1>5. QED
  BY <1>1, <1>2, <1>3, <1>4 DEF Arrive

LEMMA ContinueGuard ==
    ASSUME TypeOK, VerificationInv, GuardInv, NEW h \in Handlers, Continue(h) \/ Fail(h)
    PROVE  GuardInv'
<1>1. CASE VendorApply(h)
  <2>1. PICK r \in Rows, status \in Statuses : r = request[h].row /\ status = request[h].status
    BY <1>1 DEF VendorApply, Goto, VerificationInv, RequestInv, TypeOK
  <2>2. /\ Decide(r, status) /\ pc'[h] = "emit"
        /\ \A g \in Handlers \ {h} : pc'[g] = pc[g] /\ request'[g] = request[g]
    BY <1>1, <2>1 DEF VendorApply, Goto, ToEmitVendor, TypeOK
  <2>3. QED
    BY <2>2, DecideGuard
<1>2. CASE GuardId(h)
  <2>1. /\ UNCHANGED <<verifications, overtaken, request>>
        /\ pc[h] = "guardId" /\ pc'[h] = "post"
        /\ \A g \in Handlers \ {h} : pc'[g] = pc[g]
    BY <1>2 DEF GuardId, Goto, tables, TypeOK
  <2>2. PICK u : u = request[h].user
    OBVIOUS
  <2>3. Approves("ID", u) /\ (Approves("AGE", u) \/ h \in overtaken)
    BY <1>2, <2>1, <2>2 DEF GuardId, HasApproved, Approves, GuardInv, GuardHolds
  <2>4. IsVerified(u) \/ h \in overtaken
    BY <2>3 DEF IsVerified, Approves, Kinds
  <2>5. GuardHolds(h)'
    BY <2>1, <2>2, <2>4 DEF GuardHolds, IsVerified, Rows
  <2>6. QED
    BY <2>1, <2>5, QuietGuard DEF Rows
<1>3. CASE Fail(h) \/ Emit(h) \/ GuardRefuses(h) \/ AttachMedia(h)
           \/ \E media \in {"none", "missing"} : CreatePost(h, media)
  <2>1. /\ UNCHANGED <<verifications, overtaken>>
        /\ pc'[h] \in {"idle", "emit", "attach"}
        /\ \A g \in Handlers \ {h} : pc'[g] = pc[g] /\ request'[g] = request[g]
    <3>1. CASE Fail(h)
      BY <3>1 DEF Fail, tables, TypeOK
    <3>2. CASE Emit(h) \/ GuardRefuses(h) \/ AttachMedia(h)
      BY <3>2 DEF Emit, GuardRefuses, AttachMedia, Goto, tables, TypeOK
    <3>3. ASSUME NEW media \in {"none", "missing"}, CreatePost(h, media)
          PROVE  /\ UNCHANGED <<verifications, overtaken>>
                 /\ pc'[h] \in {"emit", "attach"}
                 /\ \A g \in Handlers \ {h} : pc'[g] = pc[g] /\ request'[g] = request[g]
      BY <3>3 DEF CreatePost, Goto, TypeOK
    <3>4. QED
      BY <1>3, <3>1, <3>2, <3>3
  <2>2. QED
    BY <2>1, QuietGuard DEF GuardHolds, Rows
<1>4. QED
  BY <1>1, <1>2, <1>3 DEF Continue

(* Whoever publishes is verified at that moment, unless an approval was    *)
(* withdrawn after the guard's first query.                                *)
THEOREM OnlyVerifiedPublish == Spec => PublishesVerified
<1>1. Init => GuardInv
  BY DEF Init, GuardInv, GuardHolds
<1>2. TypeOK /\ VerificationInv /\ GuardInv /\ [Next]_vars => GuardInv'
  <2> SUFFICES ASSUME TypeOK, VerificationInv, GuardInv, [Next]_vars
               PROVE  GuardInv'
    OBVIOUS
  <2>1. ASSUME NEW h \in Handlers, Arrive(h) \/ Continue(h) \/ Fail(h)
        PROVE  GuardInv'
    BY <2>1, ArriveGuard, ContinueGuard
  <2>2. CASE UNCHANGED vars
    BY <2>2 DEF vars, tables, GuardInv, GuardHolds, IsVerified, Approves, Rows
  <2>3. QED
    BY <2>1, <2>2 DEF Next
<1>3. GuardInv =>
         [\A h \in Handlers : Publishes(h) => IsVerified(request[h].user) \/ h \in overtaken]_vars
  BY DEF GuardInv, GuardHolds, Publishes
<1>4. QED
  BY <1>1, <1>2, <1>3, Inductive, PTL DEF Spec, PublishesVerified

-----------------------------------------------------------------------------
(* The compliance timeline, where requests are handled one at a time and   *)
(* none dies: what verification_timeline finds needs two at once.          *)

Ends(kind, u) ==
    \E i \in Latest(DecidedAt(kind, u)) : trail[i].what = last[<<kind, u>>]

TimelineInv ==
    faults = 0 =>
        \A kind \in Kinds, u \in Users :
            /\ \A h \in Handlers :
                  Emitting(h, kind, u) => request[h].event.what = last[<<kind, u>>]
            /\ last[<<kind, u>>] \in Decided /\ (\A h \in Handlers : ~Emitting(h, kind, u)) =>
                  Ends(kind, u)

LEMMA EndsStays ==
    ASSUME NEW kind, NEW u, trail' = trail, last'[<<kind, u>>] = last[<<kind, u>>], Ends(kind, u)
    PROVE  Ends(kind, u)'
<1>1. DecidedAt(kind, u)' = DecidedAt(kind, u)
  BY DEF DecidedAt
<1>2. Latest(DecidedAt(kind, u))' = Latest(DecidedAt(kind, u))
  BY <1>1 DEF Latest
<1>3. QED
  BY <1>2 DEF Ends

(* A step of the only handler that neither decides nor emits a decision.   *)
LEMMA QuietTimeline ==
    ASSUME TimelineInv, NEW h \in Handlers, \A g \in Handlers : g = h,
           UNCHANGED <<trail, last, faults>>,
           \A kind \in Kinds, u \in Users : ~Emitting(h, kind, u) /\ ~Emitting(h, kind, u)'
    PROVE  TimelineInv'
<1> SUFFICES ASSUME faults = 0, NEW kind \in Kinds, NEW u \in Users,
                    last[<<kind, u>>] \in Decided
             PROVE  Ends(kind, u)'
  BY DEF TimelineInv
<1>1. Ends(kind, u)
  BY DEF TimelineInv
<1>2. QED
  BY <1>1, EndsStays

LEMMA DecisionTimeline ==
    ASSUME TypeOK, TimelineInv, NEW h \in Handlers, \A g \in Handlers : g = h, pc[h] # "emit",
           NEW r \in Rows, NEW status \in Statuses, NEW e \in Event,
           e.kind = verifications[r].kind, e.user = verifications[r].user,
           e.what = EventFor(status), e.post = 0, Decide(r, status),
           pc'[h] = "emit", request'[h].event = e, UNCHANGED <<trail, faults>>
    PROVE  TimelineInv'
<1> SUFFICES ASSUME faults = 0, NEW kind \in Kinds, NEW u \in Users
             PROVE  /\ Emitting(h, kind, u)' => e.what = last'[<<kind, u>>]
                    /\ last'[<<kind, u>>] \in Decided /\ ~Emitting(h, kind, u)' => Ends(kind, u)'
  BY DEF TimelineInv
<1>1. Emitting(h, kind, u)' <=> e.kind = kind /\ e.user = u /\ e.what \in Decided
  BY DEF Emitting, Reports
<1>2. <<e.kind, e.user>> \in Kinds \X Users /\ <<kind, u>> \in Kinds \X Users
  BY DEF Event
<1>3. /\ status \in Decided => last' = [last EXCEPT ![<<e.kind, e.user>>] = status]
      /\ status \notin Decided => last' = last
  BY DEF Decide
<1>4. /\ status \in Decided <=> e.what \in Decided
      /\ status \in Decided => e.what = status
  BY DEF EventFor, Decided, Statuses
<1>5. last[<<kind, u>>] \in Decided => Ends(kind, u)
  BY DEF TimelineInv, Emitting
<1>6. CASE Emitting(h, kind, u)'
  BY <1>1, <1>2, <1>3, <1>4, <1>6 DEF TypeOK
<1>7. CASE ~Emitting(h, kind, u)'
  <2>1. <<kind, u>> = <<e.kind, e.user>> => status \notin Decided
    BY <1>1, <1>4, <1>7
  <2>2. last'[<<kind, u>>] = last[<<kind, u>>]
    BY <1>2, <1>3, <2>1 DEF TypeOK
  <2>3. QED
    BY <1>5, <1>7, <2>2, EndsStays
<1>8. QED
  BY <1>6, <1>7

LEMMA EmitTimeline ==
    ASSUME TypeOK, VerificationInv, TimelineInv, NEW h \in Handlers, \A g \in Handlers : g = h,
           Emit(h)
    PROVE  TimelineInv'
<1>1. PICK e \in Event : e = request[h].event
  BY DEF Emit, Goto, VerificationInv, RequestInv
<1>2. /\ trail' = Append(trail, e) /\ trail \in Seq(Event)
      /\ UNCHANGED <<last, faults>> /\ pc[h] = "emit" /\ pc'[h] = "idle"
  BY <1>1, GotoSets DEF Emit, tables, TypeOK
<1> SUFFICES ASSUME faults = 0, NEW kind \in Kinds, NEW u \in Users,
                    last[<<kind, u>>] \in Decided
             PROVE  Ends(kind, u)'
  BY <1>2 DEF TimelineInv, Emitting
<1>3. PICK n \in Nat : n = Len(trail) + 1
  BY <1>2
<1>4. /\ trail'[n] = e
      /\ DOMAIN trail' = DOMAIN trail \cup {n}
      /\ \A i \in DOMAIN trail : i < n /\ trail'[i] = trail[i]
      /\ DOMAIN trail \subseteq Nat
  BY <1>2, <1>3
<1>5. CASE Reports(e, kind, u)
  <2>1. e.what = last[<<kind, u>>]
    BY <1>1, <1>2, <1>5 DEF TimelineInv, Emitting
  <2>2. n \in DecidedAt(kind, u)' /\ \A i \in DecidedAt(kind, u)' : n >= i
    BY <1>4, <1>5 DEF DecidedAt, Reports
  <2>3. n \in Latest(DecidedAt(kind, u))'
    BY <2>2 DEF Latest
  <2>4. QED
    BY <1>2, <1>4, <2>1, <2>3 DEF Ends
<1>6. CASE ~Reports(e, kind, u)
  <2>1. Ends(kind, u)
    BY <1>1, <1>6 DEF TimelineInv, Emitting
  <2>2. DecidedAt(kind, u)' = DecidedAt(kind, u)
    BY <1>4, <1>6 DEF DecidedAt, Reports
  <2>3. Latest(DecidedAt(kind, u))' = Latest(DecidedAt(kind, u))
    BY <2>2 DEF Latest
  <2>4. Latest(DecidedAt(kind, u)) \subseteq DOMAIN trail
    BY DEF Latest, DecidedAt
  <2>5. QED
    BY <1>2, <1>4, <2>1, <2>3, <2>4 DEF Ends
<1>7. QED
  BY <1>5, <1>6

LEMMA ArriveTimeline ==
    ASSUME TypeOK, VerificationInv, TimelineInv, NEW h \in Handlers, \A g \in Handlers : g = h,
           Arrive(h)
    PROVE  TimelineInv'
<1>1. pc[h] = "idle"
  BY DEF Arrive, Start, AdminSet, VendorLookup, GuardAge, Goto
<1>2. \A kind \in Kinds, u \in Users : ~Emitting(h, kind, u)
  BY <1>1 DEF Emitting
<1>3. ASSUME NEW v \in Users, NEW s \in Sessions, NEW k \in Kinds, Start(h, k, v, s)
      PROVE  TimelineInv'
  <2>1. request'[h].event.what = "STARTED" /\ UNCHANGED <<trail, last, faults>>
    BY <1>3 DEF Start, ToEmit, TypeOK
  <2>2. \A kind \in Kinds, u \in Users : ~Emitting(h, kind, u)'
    BY <2>1 DEF Emitting, Reports, Decided
  <2>3. QED
    BY <1>2, <2>1, <2>2, QuietTimeline
<1>4. ASSUME NEW r \in Rows, NEW status \in Decided, AdminSet(h, r, status)
      PROVE  TimelineInv'
  <2>1. PICK kind \in Kinds, u \in Users :
           kind = verifications[r].kind /\ u = verifications[r].user
    BY RowsAreRows DEF Row
  <2>2. /\ status \in Statuses /\ status \in What /\ status = EventFor(status)
        /\ r \in RowIds /\ pc[h] # "emit"
    BY <1>1, RowsAreRows DEF Statuses, What, EventFor, Decided
  <2>3. /\ request'[h].event = [kind |-> kind, what |-> status, user |-> u, row |-> r,
                                session |-> NoSession, post |-> 0]
        /\ request'[h].event \in Event
    BY <1>4, <2>1, <2>2, ToEmitSets DEF AdminSet
  <2>4. pc'[h] = "emit" /\ Decide(r, status) /\ UNCHANGED <<trail, faults>>
    BY <1>4, GotoSets DEF AdminSet
  <2>5. PICK e \in Event : /\ request'[h].event = e /\ e.kind = kind /\ e.user = u
                           /\ e.what = status /\ e.post = 0
    BY <2>3
  <2>6. QED
    BY <2>1, <2>2, <2>4, <2>5, DecisionTimeline
<1>5. ASSUME \/ \E u \in Users, s \in Sessions, status \in Statuses : VendorLookup(h, u, s, status)
             \/ \E u \in Users : GuardAge(h, u)
      PROVE  TimelineInv'
  <2>1. pc'[h] \in {"apply", "guardId"} /\ UNCHANGED <<trail, last, faults>>
    BY <1>5, GotoSets DEF VendorLookup, GuardAge, tables
  <2>2. \A kind \in Kinds, u \in Users : ~Emitting(h, kind, u)'
    BY <2>1 DEF Emitting
  <2>3. QED
    BY <1>2, <2>1, <2>2, QuietTimeline
<1>6. QED
  BY <1>3, <1>4, <1>5 DEF Arrive, Decided

LEMMA ContinueTimeline ==
    ASSUME TypeOK, VerificationInv, TimelineInv, NEW h \in Handlers, \A g \in Handlers : g = h,
           Continue(h) \/ Fail(h)
    PROVE  TimelineInv'
<1>1. CASE VendorApply(h)
  <2>1. PICK r \in Rows : r = request[h].row /\ verifications[r].kind = "ID"
    BY <1>1 DEF VendorApply, Goto, VerificationInv, RequestInv
  <2>2. PICK status \in Statuses, what \in What :
           status = request[h].status /\ what = EventFor(status)
    BY DEF TypeOK, EventFor, Statuses, What
  <2>3. PICK u \in Users, s \in Sessions : u = verifications[r].user /\ s = verifications[r].session
    BY RowsAreRows DEF Row
  <2>4. /\ ToEmitVendor(h, what, u, s) /\ Decide(r, status)
        /\ UNCHANGED <<trail, faults>> /\ pc[h] # "emit"
    BY <1>1, <2>1, <2>2, <2>3 DEF VendorApply, Goto
  <2>5. /\ request'[h].event = [kind |-> "ID", what |-> what, user |-> u, row |-> 0,
                                session |-> s, post |-> 0]
        /\ request'[h].event \in Event
    BY <2>4, ToEmitVendorSets
  <2>6. PICK e \in Event : /\ request'[h].event = e /\ e.kind = "ID" /\ e.user = u
                           /\ e.what = what /\ e.post = 0
    BY <2>5
  <2>7. pc'[h] = "emit"
    BY <1>1, GotoSets DEF VendorApply
  <2>8. QED
    BY <2>1, <2>2, <2>3, <2>4, <2>6, <2>7, DecisionTimeline
<1>2. CASE GuardId(h) \/ GuardRefuses(h)
  <2>1. /\ pc[h] = "guardId" /\ pc'[h] \in {"post", "idle"}
        /\ UNCHANGED <<trail, last, faults>>
    BY <1>2, GotoSets DEF GuardId, GuardRefuses, tables
  <2>2. \A kind \in Kinds, u \in Users : ~Emitting(h, kind, u) /\ ~Emitting(h, kind, u)'
    BY <2>1 DEF Emitting
  <2>3. QED
    BY <2>1, <2>2, QuietTimeline
<1>3. CASE (\E media \in {"none", "missing"} : CreatePost(h, media)) \/ AttachMedia(h)
  <2>1. pc[h] \in {"post", "attach"} /\ UNCHANGED <<trail, last, faults>>
    BY <1>3, GotoSets DEF CreatePost, AttachMedia
  <2>2. request'[h].event.post # 0
    <3>1. ASSUME NEW media \in {"none", "missing"}, CreatePost(h, media)
          PROVE  request'[h].event.post # 0
      BY <3>1 DEF CreatePost, TypeOK
    <3>2. CASE AttachMedia(h)
      BY <3>2 DEF AttachMedia, Goto, VerificationInv, RequestInv
    <3>3. QED
      BY <1>3, <3>1, <3>2
  <2>3. \A kind \in Kinds, u \in Users : ~Emitting(h, kind, u) /\ ~Emitting(h, kind, u)'
    BY <2>1, <2>2 DEF Emitting, Reports
  <2>4. QED
    BY <2>1, <2>3, QuietTimeline
<1>4. CASE Emit(h)
  BY <1>4, EmitTimeline
<1>5. CASE Fail(h)
  <2>1. faults \in Nat /\ faults' = faults + 1
    BY <1>5, VerificationAssumption DEF Fail, TypeOK
  <2>2. faults' # 0
    BY <2>1
  <2>3. QED
    BY <2>2 DEF TimelineInv
<1>6. QED
  BY <1>1, <1>2, <1>3, <1>4, <1>5 DEF Continue

(* Where requests are handled one at a time and none died, the timeline of *)
(* a user ends with the last decision that was written.                    *)
THEOREM TimelineTrueInOrder ==
    ASSUME \A g, h \in Handlers : g = h
    PROVE  Spec => [](faults = 0 => TimelineEndsWithDecision)
<1>1. Init => TimelineInv
  BY DEF Init, TimelineInv, Emitting, Decided
<1>2. TypeOK /\ VerificationInv /\ TimelineInv /\ [Next]_vars => TimelineInv'
  <2> SUFFICES ASSUME TypeOK, VerificationInv, TimelineInv, [Next]_vars
               PROVE  TimelineInv'
    OBVIOUS
  <2>1. ASSUME NEW h \in Handlers, Arrive(h) \/ Continue(h) \/ Fail(h)
        PROVE  TimelineInv'
    <3>1. \A g \in Handlers : g = h
      OBVIOUS
    <3>2. QED
      BY <2>1, <3>1, ArriveTimeline, ContinueTimeline
  <2>2. CASE UNCHANGED vars
    <3>1. /\ faults' = faults /\ pc' = pc /\ request' = request
          /\ trail' = trail /\ last' = last
      BY <2>2 DEF vars, tables
    <3>2. \A kind \in Kinds, u \in Users : Ends(kind, u) => Ends(kind, u)'
      BY <3>1, EndsStays
    <3>3. \A h \in Handlers, kind \in Kinds, u \in Users :
             Emitting(h, kind, u)' <=> Emitting(h, kind, u)
      BY <3>1 DEF Emitting
    <3>4. QED
      BY <3>1, <3>2, <3>3 DEF TimelineInv
  <2>3. QED
    BY <2>1, <2>2 DEF Next
<1>3. TimelineInv => (faults = 0 => TimelineEndsWithDecision)
  BY DEF TimelineInv, Ends, TimelineEndsWithDecision
<1>4. QED
  BY <1>1, <1>2, <1>3, Inductive, PTL DEF Spec

-----------------------------------------------------------------------------
(* What is left of the promise that decisions are tracked, and what        *)
(* DecisionsAreRecorded needs besides fairness: as long as no request      *)
(* died, a decision is in the trail or its handler is about to emit it,    *)
(* however many decisions overwrote it in the row meanwhile.               *)

Tracked(r, status) == Says(r, status) \/ \E h \in Handlers : InHand(h, r, status)

TrackedInv == faults = 0 => DecisionsAreTracked

LEMMA IsAboutStays ==
    ASSUME Grows, NEW e, NEW r, IsAbout(e, r)
    PROVE  IsAbout(e, r)'
BY DEF Grows, IsAbout

LEMMA InHandStays ==
    ASSUME Grows, NEW g \in Handlers, NEW r, NEW status, InHand(g, r, status),
           pc'[g] = pc[g], request'[g] = request[g]
    PROVE  InHand(g, r, status)'
<1>1. PICK e : e = request[g].event
  OBVIOUS
<1>2. IsAbout(e, r)'
  BY <1>1, IsAboutStays DEF InHand
<1>3. QED
  BY <1>1, <1>2 DEF InHand, IsAbout, EventFor

LEMMA SaysStays ==
    ASSUME Grows, NEW r, NEW status, Says(r, status),
           \A i \in DOMAIN trail : i \in DOMAIN trail' /\ trail'[i] = trail[i]
    PROVE  Says(r, status)'
<1>1. PICK i \in DOMAIN trail : IsAbout(trail[i], r) /\ trail[i].what = EventFor(status)
  BY DEF Says
<1>2. PICK e : e = trail[i]
  OBVIOUS
<1>3. IsAbout(e, r)'
  BY <1>1, <1>2, IsAboutStays
<1>4. QED
  BY <1>1, <1>2, <1>3 DEF Says, IsAbout, EventFor

(* What is in the trail stays there, and a handler that emits neither      *)
(* drops nor changes what another one holds.                               *)
LEMMA TrackedStays ==
    ASSUME Grows, NEW h \in Handlers, NEW r \in RowIds, NEW status \in Statuses,
           trail' = trail, pc[h] # "emit",
           \A g \in Handlers \ {h} : pc'[g] = pc[g] /\ request'[g] = request[g],
           Tracked(r, status)
    PROVE  Tracked(r, status)'
<1>1. CASE Says(r, status)
  BY <1>1, SaysStays DEF Tracked
<1>2. ASSUME NEW g \in Handlers, InHand(g, r, status)
      PROVE  InHand(g, r, status)'
  BY <1>2, InHandStays DEF InHand
<1>3. QED
  BY <1>1, <1>2 DEF Tracked

LEMMA QuietTracked ==
    ASSUME TrackedInv, Grows, NEW h \in Handlers, UNCHANGED <<trail, decisions, faults>>,
           pc[h] # "emit", \A g \in Handlers \ {h} : pc'[g] = pc[g] /\ request'[g] = request[g]
    PROVE  TrackedInv'
BY TrackedStays DEF TrackedInv, DecisionsAreTracked, Tracked

LEMMA DecisionTracked ==
    ASSUME TypeOK, VerificationInv, TrackedInv, NEW h \in Handlers, pc[h] # "emit",
           NEW q \in Rows, NEW decided \in Statuses, Decide(q, decided), pc'[h] = "emit",
           NEW e, request'[h].event = e, e.what = EventFor(decided), IsAbout(e, q),
           \A g \in Handlers \ {h} : pc'[g] = pc[g] /\ request'[g] = request[g],
           UNCHANGED <<trail, faults>>
    PROVE  TrackedInv'
<1> SUFFICES ASSUME faults = 0, NEW r \in RowIds, NEW status \in Statuses,
                    <<r, status>> \in decisions'
             PROVE  Tracked(r, status)'
  BY DEF TrackedInv, DecisionsAreTracked, Tracked
<1>1. Grows /\ decisions' = decisions \cup {<<q, decided>>}
  BY DecideGrows DEF VerificationInv, Decide
<1>2. CASE <<r, status>> \in decisions
  BY <1>1, <1>2, TrackedStays DEF TrackedInv, DecisionsAreTracked, Tracked
<1>3. CASE r = q /\ status = decided
  <2>1. IsAbout(e, q)'
    BY <1>1, IsAboutStays
  <2>2. InHand(h, r, status)'
    BY <1>3, <2>1 DEF InHand, IsAbout, EventFor
  <2>3. QED
    BY <2>2 DEF Tracked
<1>4. QED
  BY <1>1, <1>2, <1>3

LEMMA EmitTracked ==
    ASSUME TypeOK, VerificationInv, TrackedInv, NEW h \in Handlers, Emit(h)
    PROVE  TrackedInv'
<1>1. PICK e \in Event : e = request[h].event
  BY DEF Emit, Goto, VerificationInv, RequestInv
<1>2. /\ trail' = Append(trail, e) /\ trail \in Seq(Event)
      /\ UNCHANGED <<verifications, approved, decisions, faults>>
      /\ \A g \in Handlers \ {h} : pc'[g] = pc[g] /\ request'[g] = request[g]
  BY <1>1 DEF Emit, Goto, TypeOK, tables
<1>3. Grows
  BY <1>2 DEF Grows, Rows
<1>4. /\ \A i \in DOMAIN trail : i \in DOMAIN trail' /\ trail'[i] = trail[i]
      /\ Len(trail) + 1 \in DOMAIN trail' /\ trail'[Len(trail) + 1] = e
  BY <1>2
<1> SUFFICES ASSUME faults = 0, NEW r \in RowIds, NEW status \in Statuses,
                    <<r, status>> \in decisions
             PROVE  Tracked(r, status)'
  BY <1>2 DEF TrackedInv, DecisionsAreTracked, Tracked
<1>5. Tracked(r, status)
  BY DEF TrackedInv, DecisionsAreTracked, Tracked
<1>6. CASE Says(r, status)
  BY <1>3, <1>4, <1>6, SaysStays DEF Tracked
<1>7. ASSUME NEW g \in Handlers \ {h}, InHand(g, r, status)
      PROVE  InHand(g, r, status)'
  BY <1>2, <1>3, <1>7, InHandStays
<1>8. CASE InHand(h, r, status)
  <2>1. IsAbout(e, r)' /\ e.what = EventFor(status)
    BY <1>1, <1>3, <1>8, IsAboutStays DEF InHand
  <2>2. PICK n : n \in DOMAIN trail' /\ trail'[n] = e
    BY <1>4
  <2>3. Says(r, status)'
    BY <2>1, <2>2 DEF Says, IsAbout, EventFor
  <2>4. QED
    BY <2>3 DEF Tracked
<1>9. QED
  BY <1>5, <1>6, <1>7, <1>8 DEF Tracked

LEMMA ArriveTracked ==
    ASSUME TypeOK, VerificationInv, TrackedInv, NEW h \in Handlers, Arrive(h)
    PROVE  TrackedInv'
<1>1. pc[h] # "emit"
  BY DEF Arrive, Start, AdminSet, VendorLookup, GuardAge, Goto
<1>2. ASSUME NEW u \in Users, NEW s \in Sessions, NEW kind \in Kinds, Start(h, kind, u, s)
      PROVE  TrackedInv'
  <2>1. /\ UNCHANGED <<trail, decisions, faults, approved>>
        /\ \A g \in Handlers \ {h} : pc'[g] = pc[g] /\ request'[g] = request[g]
    BY <1>2 DEF Start, Goto, ToEmit, TypeOK
  <2>2. \A r \in Rows : r \in Rows' /\ verifications'[r] = verifications[r]
    BY <1>2 DEF Start, Rows, TypeOK
  <2>3. QED
    BY <1>1, <2>1, <2>2, QuietTracked DEF Grows
<1>3. ASSUME NEW q \in Rows, NEW decided \in Decided, AdminSet(h, q, decided)
      PROVE  TrackedInv'
  <2>1. EventFor(decided) = decided /\ decided \in Statuses
    BY DEF EventFor, Decided, Statuses
  <2>2. PICK e : e = request'[h].event
    OBVIOUS
  <2>3. e.row = q /\ e.what = decided
    BY <1>3, <2>2 DEF AdminSet, ToEmit, TypeOK
  <2>4. /\ Decide(q, decided) /\ pc'[h] = "emit" /\ UNCHANGED <<trail, faults>>
        /\ \A g \in Handlers \ {h} : pc'[g] = pc[g] /\ request'[g] = request[g]
    BY <1>3 DEF AdminSet, Goto, ToEmit, TypeOK
  <2>5. QED
    BY <1>1, <2>1, <2>2, <2>3, <2>4, DecisionTracked DEF IsAbout
<1>4. ASSUME \/ \E u \in Users, s \in Sessions, status \in Statuses : VendorLookup(h, u, s, status)
             \/ \E u \in Users : GuardAge(h, u)
      PROVE  TrackedInv'
  <2>1. /\ UNCHANGED <<verifications, trail, decisions, approved, faults>>
        /\ \A g \in Handlers \ {h} : pc'[g] = pc[g] /\ request'[g] = request[g]
    BY <1>4 DEF VendorLookup, GuardAge, Goto, TypeOK, tables
  <2>2. QED
    BY <1>1, <2>1, QuietTracked DEF Grows, Rows
<1>5. QED
  BY <1>2, <1>3, <1>4 DEF Arrive, Decided

LEMMA ContinueTracked ==
    ASSUME TypeOK, VerificationInv, TrackedInv, NEW h \in Handlers, Continue(h)
    PROVE  TrackedInv'
<1>1. CASE VendorApply(h)
  <2>1. PICK q \in Rows, decided \in Statuses :
           q = request[h].row /\ decided = request[h].status /\ verifications[q].kind = "ID"
    BY <1>1 DEF VendorApply, Goto, VerificationInv, RequestInv, TypeOK
  <2>2. PICK e : e = request'[h].event
    OBVIOUS
  <2>3. /\ e.user = verifications[q].user /\ e.session = verifications[q].session
        /\ e.what = EventFor(decided)
    BY <1>1, <2>1, <2>2 DEF VendorApply, ToEmitVendor, TypeOK
  <2>4. /\ Decide(q, decided) /\ pc[h] # "emit" /\ pc'[h] = "emit" /\ UNCHANGED <<trail, faults>>
        /\ \A g \in Handlers \ {h} : pc'[g] = pc[g] /\ request'[g] = request[g]
    BY <1>1, <2>1 DEF VendorApply, Goto, ToEmitVendor, TypeOK
  <2>5. QED
    BY <2>1, <2>2, <2>3, <2>4, DecisionTracked DEF IsAbout
<1>2. CASE \/ GuardId(h) \/ GuardRefuses(h) \/ AttachMedia(h)
           \/ \E media \in {"none", "missing"} : CreatePost(h, media)
  <2>1. /\ UNCHANGED <<verifications, trail, decisions, approved, faults>>
        /\ pc[h] # "emit"
        /\ \A g \in Handlers \ {h} : pc'[g] = pc[g] /\ request'[g] = request[g]
    <3>1. CASE GuardId(h) \/ GuardRefuses(h) \/ AttachMedia(h)
      BY <3>1 DEF GuardId, GuardRefuses, AttachMedia, Goto, TypeOK, tables
    <3>2. ASSUME NEW media \in {"none", "missing"}, CreatePost(h, media)
          PROVE  /\ UNCHANGED <<verifications, trail, decisions, approved, faults>>
                 /\ pc[h] # "emit"
                 /\ \A g \in Handlers \ {h} : pc'[g] = pc[g] /\ request'[g] = request[g]
      BY <3>2 DEF CreatePost, Goto, TypeOK
    <3>3. QED
      BY <1>2, <3>1, <3>2
  <2>2. QED
    BY <2>1, QuietTracked DEF Grows, Rows
<1>3. QED
  BY <1>1, <1>2, EmitTracked DEF Continue

(* No decision that admin or vendor wrote is forgotten on the way to the   *)
(* compliance trail, unless a request died.                                *)
THEOREM DecisionsNotForgotten == Spec => [](faults = 0 => DecisionsAreTracked)
<1>1. Init => TrackedInv
  BY DEF Init, TrackedInv, DecisionsAreTracked
<1>2. TypeOK /\ VerificationInv /\ TrackedInv /\ [Next]_vars => TrackedInv'
  <2> SUFFICES ASSUME TypeOK, VerificationInv, TrackedInv, [Next]_vars
               PROVE  TrackedInv'
    OBVIOUS
  <2>1. ASSUME NEW h \in Handlers, Arrive(h) \/ Continue(h)
        PROVE  TrackedInv'
    BY <2>1, ArriveTracked, ContinueTracked
  <2>2. ASSUME NEW h \in Handlers, Fail(h)
        PROVE  TrackedInv'
    BY <2>2, VerificationAssumption DEF Fail, TrackedInv, TypeOK
  <2>3. CASE UNCHANGED vars
    BY <2>3 DEF vars, tables, TrackedInv, DecisionsAreTracked, Says, InHand, IsAbout, Rows
  <2>4. QED
    BY <2>1, <2>2, <2>3 DEF Next
<1>3. QED
  BY <1>1, <1>2, Inductive, PTL DEF Spec, TrackedInv

-----------------------------------------------------------------------------
(* The evidence of posts.  A request that is about to emit the event of a  *)
(* post has attached its media, and the event names the post's author.     *)
Whole(p) == posts[p].media # "missing"

Evidenced(p) ==
    /\ \E i \in DOMAIN trail : trail[i].post = p /\ trail[i].user = posts[p].author
    /\ Whole(p)

Held(h, p) == pc[h] \in {"attach", "emit"} /\ request[h].event.post = p

HeldRight(h) ==
    /\ \A p : Held(h, p) /\ p # 0 =>
          /\ p \in DOMAIN posts
          /\ request[h].event.user = posts[p].author
          /\ pc[h] = "emit" => Whole(p)
    /\ pc[h] = "attach" => request[h].event.post # 0

EvidenceInv == PostsAreEvidenced /\ \A h \in Handlers : HeldRight(h)

(* Posts keep their author, what is whole stays whole, the trail grows. *)
EvidenceGrows ==
    /\ \A p \in DOMAIN posts : /\ p \in DOMAIN posts'
                               /\ posts'[p].author = posts[p].author
                               /\ Whole(p) => Whole(p)'
    /\ \A i \in DOMAIN trail : i \in DOMAIN trail' /\ trail'[i] = trail[i]
    /\ dropped \subseteq dropped'

LEMMA EvidencedStays ==
    ASSUME EvidenceGrows, NEW p \in DOMAIN posts, Evidenced(p)
    PROVE  Evidenced(p)'
<1>1. PICK i \in DOMAIN trail : trail[i].post = p /\ trail[i].user = posts[p].author
  BY DEF Evidenced
<1>2. i \in DOMAIN trail' /\ trail'[i].post = p /\ trail'[i].user = posts'[p].author
  BY <1>1 DEF EvidenceGrows
<1>3. Whole(p)'
  BY DEF Evidenced, EvidenceGrows
<1>4. QED
  BY <1>2, <1>3 DEF Evidenced

(* One handler moves: the posts it held it still holds, or they have their *)
(* event, or they are dropped; the posts it creates it holds.              *)
LEMMA EvidenceStays ==
    ASSUME EvidenceInv, EvidenceGrows, NEW h \in Handlers,
           \A g \in Handlers \ {h} : pc'[g] = pc[g] /\ request'[g] = request[g],
           \A p \in DOMAIN posts : Held(h, p) => Held(h, p)' \/ Evidenced(p)' \/ p \in dropped',
           \A p \in DOMAIN posts' : p \in DOMAIN posts \/ Held(h, p)',
           HeldRight(h)'
    PROVE  EvidenceInv'
<1>1. ASSUME NEW p \in DOMAIN posts'
      PROVE  \/ Evidenced(p)'
             \/ \E g \in Handlers : Held(g, p)'
             \/ p \in dropped'
  <2>1. CASE p \in DOMAIN posts /\ Evidenced(p)
    BY <2>1, EvidencedStays
  <2>2. ASSUME p \in DOMAIN posts, NEW g \in Handlers, Held(g, p)
        PROVE  \/ Evidenced(p)'
               \/ \E k \in Handlers : Held(k, p)'
               \/ p \in dropped'
    <3>1. CASE g = h
      BY <2>2, <3>1
    <3>2. CASE g # h
      <4>1. Held(g, p)'
        BY <2>2, <3>2 DEF Held
      <4>2. QED
        BY <4>1
    <3>3. QED
      BY <3>1, <3>2
  <2>3. CASE p \in DOMAIN posts /\ p \in dropped
    BY <2>3 DEF EvidenceGrows
  <2>4. CASE p \notin DOMAIN posts
    BY <2>4
  <2>5. p \in DOMAIN posts =>
           Evidenced(p) \/ (\E g \in Handlers : Held(g, p)) \/ p \in dropped
    BY DEF EvidenceInv, PostsAreEvidenced, Evidenced, Held, Whole
  <2>6. QED
    BY <2>1, <2>2, <2>3, <2>4, <2>5
<1>2. PostsAreEvidenced'
  BY <1>1 DEF PostsAreEvidenced, Evidenced, Held, Whole
<1>3. ASSUME NEW g \in Handlers PROVE HeldRight(g)'
  <2>1. CASE g = h
    BY <2>1
  <2>2. CASE g # h
    <3>1. pc'[g] = pc[g] /\ request'[g] = request[g] /\ HeldRight(g)
      BY <2>2 DEF EvidenceInv
    <3>2. ASSUME NEW p, Held(g, p)', p # 0
          PROVE  /\ p \in DOMAIN posts'
                 /\ request'[g].event.user = posts'[p].author
                 /\ pc'[g] = "emit" => Whole(p)'
      <4>1. Held(g, p)
        BY <3>1, <3>2 DEF Held
      <4>2. /\ p \in DOMAIN posts
            /\ request[g].event.user = posts[p].author
            /\ pc[g] = "emit" => Whole(p)
        BY <3>1, <3>2, <4>1 DEF HeldRight
      <4>3. QED
        BY <3>1, <4>2 DEF EvidenceGrows
    <3>3. QED
      BY <3>1, <3>2 DEF HeldRight
  <2>3. QED
    BY <2>1, <2>2
<1>4. QED
  BY <1>2, <1>3 DEF EvidenceInv

(* Statements about no post. *)
LEMMA QuietEvidence ==
    ASSUME EvidenceInv, NEW h \in Handlers, UNCHANGED <<posts, trail, dropped>>,
           \A g \in Handlers \ {h} : pc'[g] = pc[g] /\ request'[g] = request[g],
           pc[h] \notin {"attach", "emit"}, pc'[h] # "attach",
           pc'[h] = "emit" => request'[h].event.post = 0
    PROVE  EvidenceInv'
<1>1. EvidenceGrows
  BY DEF EvidenceGrows, Whole
<1>2. \A p : ~Held(h, p)
  BY DEF Held
<1>3. HeldRight(h)'
  BY DEF HeldRight, Held
<1>4. QED
  BY <1>1, <1>2, <1>3, EvidenceStays

LEMMA ArriveEvidence ==
    ASSUME TypeOK, EvidenceInv, NEW h \in Handlers, Arrive(h)
    PROVE  EvidenceInv'
<1>1. /\ UNCHANGED <<posts, trail, dropped>>
      /\ pc[h] = "idle" /\ pc'[h] # "attach"
      /\ \A g \in Handlers \ {h} : pc'[g] = pc[g]
  BY DEF Arrive, Start, AdminSet, VendorLookup, GuardAge, Goto, tables, TypeOK
<1> DEFINE Moved == /\ \A g \in Handlers \ {h} : request'[g] = request[g]
                    /\ pc'[h] = "emit" => request'[h].event.post = 0
<1>2. Moved
  <2>1. ASSUME NEW kind, NEW what, NEW u, NEW r, ToEmit(h, kind, what, u, r)
        PROVE  /\ \A g \in Handlers \ {h} : request'[g] = request[g]
               /\ request'[h].event.post = 0
    BY <2>1 DEF ToEmit, TypeOK
  <2>2. ASSUME NEW u \in Users, NEW s \in Sessions, NEW kind \in Kinds, Start(h, kind, u, s)
        PROVE  Moved
    BY <2>1, <2>2 DEF Start
  <2>3. ASSUME NEW r \in Rows, NEW status \in {"APPROVED", "REJECTED"}, AdminSet(h, r, status)
        PROVE  Moved
    BY <2>1, <2>3 DEF AdminSet
  <2>4. ASSUME NEW u \in Users, NEW s \in Sessions, NEW status \in Statuses,
               VendorLookup(h, u, s, status)
        PROVE  Moved
    BY <2>4 DEF VendorLookup, Goto, TypeOK
  <2>5. ASSUME NEW u \in Users, GuardAge(h, u)
        PROVE  Moved
    BY <2>5 DEF GuardAge, Goto, TypeOK
  <2>6. QED
    BY <2>2, <2>3, <2>4, <2>5 DEF Arrive
<1>3. QED
  BY <1>1, <1>2, QuietEvidence

LEMMA CreateEvidence ==
    ASSUME TypeOK, EvidenceInv, NEW h \in Handlers, NEW media \in {"none", "missing"},
           CreatePost(h, media)
    PROVE  EvidenceInv'
<1>1. PICK u : u = request[h].user
  OBVIOUS
<1>2. PICK post : post = [author |-> u, media |-> media]
  OBVIOUS
<1>3. PICK n \in Nat : n = Len(posts) + 1
  BY DEF TypeOK
<1>4. /\ pc[h] = "post" /\ pc'[h] = IF media = "missing" THEN "attach" ELSE "emit"
      /\ \A g \in Handlers \ {h} : pc'[g] = pc[g]
  BY GotoSets DEF CreatePost
<1>5. /\ posts' = Append(posts, post) /\ UNCHANGED <<trail, dropped>>
      /\ request'[h].event.post = n /\ request'[h].event.user = u
      /\ \A g \in Handlers \ {h} : request'[g] = request[g]
  BY <1>1, <1>2, <1>3 DEF CreatePost, TypeOK
<1>6. /\ DOMAIN posts' = DOMAIN posts \cup {n} /\ posts'[n] = post
      /\ \A p \in DOMAIN posts : posts'[p] = posts[p]
  BY <1>3, <1>5 DEF TypeOK
<1>7. EvidenceGrows
  BY <1>5, <1>6 DEF EvidenceGrows, Whole
<1>8. \A p : Held(h, p)' <=> p = n
  BY <1>4, <1>5 DEF Held
<1>9. posts'[n].author = u /\ (pc'[h] = "emit" => posts'[n].media # "missing")
  BY <1>2, <1>4, <1>6
<1>10. n # 0
  BY <1>3 DEF TypeOK
<1>11. HeldRight(h)'
  BY <1>5, <1>6, <1>8, <1>9, <1>10 DEF HeldRight, Whole
<1>12. \A p : ~Held(h, p)
  BY <1>4 DEF Held
<1>13. QED
  BY <1>4, <1>5, <1>6, <1>7, <1>8, <1>11, <1>12, EvidenceStays

LEMMA AttachEvidence ==
    ASSUME TypeOK, EvidenceInv, NEW h \in Handlers, AttachMedia(h)
    PROVE  EvidenceInv'
<1>1. PICK p : p = request[h].event.post
  OBVIOUS
<1>2. /\ pc[h] = "attach" /\ pc'[h] = "emit"
      /\ \A g \in Handlers \ {h} : pc'[g] = pc[g]
  BY GotoSets DEF AttachMedia
<1>3. /\ posts' = [posts EXCEPT ![p].media = "attached"]
      /\ UNCHANGED <<trail, dropped, request>>
  BY <1>1 DEF AttachMedia
<1>4. p \in DOMAIN posts /\ request[h].event.user = posts[p].author
  BY <1>1, <1>2 DEF EvidenceInv, HeldRight, Held
<1>5. /\ DOMAIN posts' = DOMAIN posts
      /\ posts'[p].media = "attached"
      /\ \A q \in DOMAIN posts : /\ posts'[q].author = posts[q].author
                                 /\ q # p => posts'[q] = posts[q]
  BY <1>3, <1>4, AttachSets
<1>6. EvidenceGrows
  BY <1>3, <1>5 DEF EvidenceGrows, Whole
<1>7. \A q : (Held(h, q)' <=> q = p) /\ (Held(h, q) <=> q = p)
  BY <1>1, <1>2, <1>3 DEF Held
<1>8. HeldRight(h)'
  BY <1>2, <1>3, <1>4, <1>5, <1>7 DEF HeldRight, Whole
<1>9. QED
  BY <1>2, <1>3, <1>5, <1>6, <1>7, <1>8, EvidenceStays

LEMMA EmitEvidence ==
    ASSUME TypeOK, EvidenceInv, NEW h \in Handlers, Emit(h)
    PROVE  EvidenceInv'
<1>1. PICK e : e = request[h].event
  OBVIOUS
<1>2. /\ pc[h] = "emit" /\ pc'[h] = "idle"
      /\ \A g \in Handlers \ {h} : pc'[g] = pc[g]
  BY GotoSets DEF Emit
<1>3. /\ trail' = Append(trail, e) /\ UNCHANGED <<posts, dropped>>
      /\ \A g \in Handlers \ {h} : request'[g] = request[g]
  BY <1>1 DEF Emit, tables, TypeOK
<1>4. PICK n \in Nat : n = Len(trail) + 1
  BY DEF TypeOK
<1>5. /\ n \in DOMAIN trail' /\ trail'[n] = e
      /\ \A i \in DOMAIN trail : i \in DOMAIN trail' /\ trail'[i] = trail[i]
  BY <1>3, <1>4 DEF TypeOK
<1>6. EvidenceGrows
  BY <1>3, <1>5 DEF EvidenceGrows, Whole
<1>7. ASSUME NEW p \in DOMAIN posts, Held(h, p) PROVE Evidenced(p)'
  <2>1. p # 0
    BY DEF TypeOK
  <2>2. e.post = p /\ e.user = posts[p].author /\ Whole(p)
    BY <1>1, <1>2, <1>7, <2>1 DEF EvidenceInv, HeldRight, Held
  <2>3. QED
    BY <1>3, <1>5, <2>2 DEF Evidenced, Whole
<1>8. HeldRight(h)'
  BY <1>2 DEF HeldRight, Held
<1>9. QED
  BY <1>2, <1>3, <1>6, <1>7, <1>8, EvidenceStays

LEMMA FailEvidence ==
    ASSUME TypeOK, EvidenceInv, NEW h \in Handlers, Fail(h)
    PROVE  EvidenceInv'
<1>1. PICK p : p = request[h].event.post
  OBVIOUS
<1>2. /\ pc'[h] = "idle"
      /\ \A g \in Handlers \ {h} : pc'[g] = pc[g] /\ request'[g] = request[g]
      /\ UNCHANGED <<posts, trail>>
      /\ dropped' = dropped \cup ({p} \ {0})
  BY <1>1 DEF Fail, tables, TypeOK
<1>3. EvidenceGrows
  BY <1>2 DEF EvidenceGrows, Whole
<1>4. ASSUME NEW q \in DOMAIN posts, Held(h, q) PROVE q \in dropped'
  <2>1. q # 0 /\ q = p
    BY <1>1, <1>4 DEF TypeOK, Held
  <2>2. QED
    BY <1>2, <2>1
<1>5. HeldRight(h)'
  BY <1>2 DEF HeldRight, Held
<1>6. QED
  BY <1>2, <1>3, <1>4, <1>5, EvidenceStays

LEMMA ContinueEvidence ==
    ASSUME TypeOK, EvidenceInv, NEW h \in Handlers, Continue(h)
    PROVE  EvidenceInv'
<1>1. CASE VendorApply(h)
  <2>1. /\ UNCHANGED <<posts, trail, dropped>>
        /\ pc[h] = "apply" /\ pc'[h] = "emit"
        /\ \A g \in Handlers \ {h} : pc'[g] = pc[g]
    BY <1>1, GotoSets DEF VendorApply
  <2>2. /\ \A g \in Handlers \ {h} : request'[g] = request[g]
        /\ request'[h].event.post = 0
    BY <1>1 DEF VendorApply, ToEmit, ToEmitVendor, TypeOK
  <2>3. QED
    BY <2>1, <2>2, QuietEvidence
<1>2. CASE GuardId(h) \/ GuardRefuses(h)
  <2>1. /\ UNCHANGED <<posts, trail, dropped>>
        /\ pc[h] = "guardId" /\ pc'[h] \in {"post", "idle"}
        /\ \A g \in Handlers \ {h} : pc'[g] = pc[g] /\ request'[g] = request[g]
    BY <1>2, GotoSets DEF GuardId, GuardRefuses, tables, TypeOK
  <2>2. QED
    BY <2>1, QuietEvidence
<1>3. QED
  BY <1>1, <1>2, CreateEvidence, AttachEvidence, EmitEvidence DEF Continue

LEMMA EvidenceInductive == Spec => []EvidenceInv
<1>1. Init => EvidenceInv
  BY DEF Init, EvidenceInv, PostsAreEvidenced, HeldRight, Held
<1>2. TypeOK /\ EvidenceInv /\ [Next]_vars => EvidenceInv'
  <2> SUFFICES ASSUME TypeOK, EvidenceInv, [Next]_vars
               PROVE  EvidenceInv'
    OBVIOUS
  <2>1. ASSUME NEW h \in Handlers, Arrive(h) \/ Continue(h) \/ Fail(h)
        PROVE  EvidenceInv'
    BY <2>1, ArriveEvidence, ContinueEvidence, FailEvidence
  <2>2. CASE UNCHANGED vars
    BY <2>2 DEF vars, tables, EvidenceInv, PostsAreEvidenced, HeldRight, Held, Whole
  <2>3. QED
    BY <2>1, <2>2 DEF Next
<1>3. QED
  BY <1>1, <1>2, Inductive, PTL DEF Spec

(* Every post has its media and an event in the trail that names it and    *)
(* its author, or its request still has to emit that event, or died.       *)
THEOREM PostsEvidenced == Spec => []PostsAreEvidenced
<1>1. EvidenceInv => PostsAreEvidenced
  BY DEF EvidenceInv
<1>2. QED
  BY <1>1, EvidenceInductive, PTL
-----------------------------------------------------------------------------
(* Posts as an outbox                                                      *)

(* No two requests hold one post, and those that do are past creating it;  *)
(* only what exists is dropped; and a post with an event is whole.         *)
BoxInv ==
    /\ \A h \in Handlers : request[h].event.post # 0 => Publishing(h)
    /\ \A g, h \in Handlers :
          Publishing(g) /\ Publishing(h) /\ request[g].event.post = request[h].event.post => g = h
    /\ dropped \subseteq DOMAIN posts
    /\ \A i \in DOMAIN trail :
          trail[i].post # 0 => trail[i].post \in DOMAIN posts /\ Whole(trail[i].post)

LEMMA HeldPostsExist ==
    ASSUME EvidenceInv, NEW h \in Handlers, Publishing(h)
    PROVE  /\ request[h].event.post \in DOMAIN posts
           /\ request[h].event.user = posts[request[h].event.post].author
           /\ pc[h] = "emit" => Whole(request[h].event.post)
BY DEF EvidenceInv, HeldRight, Held, Publishing

(* A step that takes no part in it, or completes a post.                   *)
LEMMA BoxStays ==
    ASSUME TypeOK, EvidenceInv, BoxInv,
           DOMAIN posts' = DOMAIN posts,
           \A p \in DOMAIN posts : posts'[p].author = posts[p].author /\ (Whole(p) => Whole(p)'),
           UNCHANGED <<trail, dropped>>,
           \A h \in Handlers : /\ Publishing(h)' <=> Publishing(h)
                               /\ request'[h].event.post = request[h].event.post
    PROVE  BoxInv' /\ UNCHANGED Box!boxVars
<1>1. \A p \in DOMAIN posts : Published(p)' = Published(p)
  BY DEF Published
<1>2. AllPublished' = AllPublished
  BY <1>1 DEF AllPublished
<1>3. \A h \in Handlers : Publishing(h) =>
          Published(request[h].event.post)' = Published(request[h].event.post)
  BY HeldPostsExist DEF Published
<1>4. {g \in Handlers : Publishing(g)'} = {g \in Handlers : Publishing(g)}
  OBVIOUS
<1>5. ToEvidence' = ToEvidence
  BY <1>3, <1>4 DEF ToEvidence
<1>6. \A i \in DOMAIN trail : IsEvidence(i)' <=> IsEvidence(i)
  BY DEF IsEvidence, BoxInv, Whole
<1>7. InTrail' = InTrail
  BY <1>6 DEF InTrail
<1>8. DroppedPublished' = DroppedPublished
  BY <1>1 DEF DroppedPublished, BoxInv
<1>9. BoxInv'
  BY DEF BoxInv
<1>10. QED
  BY <1>2, <1>5, <1>7, <1>8, <1>9 DEF Box!boxVars

(* Statements about no post.                                               *)
LEMMA QuietBox ==
    ASSUME TypeOK, EvidenceInv, BoxInv, NEW h \in Handlers, UNCHANGED <<posts, trail, dropped>>,
           \A g \in Handlers \ {h} : pc'[g] = pc[g] /\ request'[g] = request[g],
           ~Publishing(h), request'[h].event.post = 0
    PROVE  BoxInv' /\ UNCHANGED Box!boxVars
<1>1. \A p \in DOMAIN posts : posts'[p].author = posts[p].author /\ (Whole(p) => Whole(p)')
  BY DEF Whole
<1>2. \A g \in Handlers : /\ Publishing(g)' <=> Publishing(g)
                          /\ request'[g].event.post = request[g].event.post
  <2> SUFFICES ASSUME NEW g \in Handlers
               PROVE  /\ Publishing(g)' <=> Publishing(g)
                      /\ request'[g].event.post = request[g].event.post
    OBVIOUS
  <2>1. CASE g = h
    BY <2>1 DEF Publishing, BoxInv
  <2>2. CASE g # h
    BY <2>2 DEF Publishing
  <2>3. QED
    BY <2>1, <2>2
<1>3. QED
  BY <1>1, <1>2, BoxStays

(* createPost's first statement records.                                   *)
LEMMA CreatePostRecords ==
    ASSUME TypeOK, EvidenceInv, BoxInv, NEW h \in Handlers, NEW media \in {"none", "missing"},
           CreatePost(h, media)
    PROVE  BoxInv' /\ Box!BoxNext
<1>1. PICK post : post = [author |-> request[h].user, media |-> media]
  OBVIOUS
<1>2. PICK n \in Nat : n = Len(posts) + 1
  BY DEF TypeOK
<1>3. /\ pc[h] = "post" /\ pc'[h] \in {"attach", "emit"}
      /\ \A g \in Handlers \ {h} : pc'[g] = pc[g]
  BY GotoSets DEF CreatePost
<1>4. /\ posts' = Append(posts, post) /\ UNCHANGED <<trail, dropped>>
      /\ request'[h].event.post = n
      /\ \A g \in Handlers \ {h} : request'[g] = request[g]
  BY <1>1, <1>2 DEF CreatePost, TypeOK
<1>5. /\ DOMAIN posts' = DOMAIN posts \cup {n} /\ n \notin DOMAIN posts /\ n # 0
      /\ \A p \in DOMAIN posts : posts'[p] = posts[p]
  BY <1>2, <1>4 DEF TypeOK
<1>6. /\ Publishing(h)' /\ ~Publishing(h)
      /\ \A g \in Handlers \ {h} : Publishing(g)' <=> Publishing(g)
  BY <1>3, <1>4, <1>5 DEF Publishing
<1>7. \A g \in Handlers : Publishing(g) => request[g].event.post \in DOMAIN posts
  BY HeldPostsExist
<1>8. BoxInv'
  <2>1. \A f, g \in Handlers :
           Publishing(f)' /\ Publishing(g)' /\ request'[f].event.post = request'[g].event.post
              => f = g
    BY <1>4, <1>5, <1>6, <1>7 DEF BoxInv
  <2>2. \A p \in DOMAIN posts : Whole(p) => Whole(p)'
    BY <1>5 DEF Whole
  <2>3. \A i \in DOMAIN trail' :
           trail'[i].post # 0 => trail'[i].post \in DOMAIN posts' /\ Whole(trail[i].post)'
    BY <1>4, <1>5, <2>2 DEF BoxInv
  <2>4. dropped' \subseteq DOMAIN posts'
    BY <1>4, <1>5 DEF BoxInv
  <2>5. QED
    BY <1>4, <1>6, <2>1, <2>3, <2>4 DEF BoxInv
<1>9. \A p \in DOMAIN posts : Published(p)' = Published(p)
  BY <1>5 DEF Published
<1>10. PICK fact : fact = Published(n)'
  OBVIOUS
<1>11. AllPublished' = AllPublished \cup {fact}
  BY <1>5, <1>9, <1>10 DEF AllPublished
<1>12. fact \notin AllPublished
  BY <1>5, <1>10 DEF AllPublished, Published
<1>13. {g \in Handlers : Publishing(g)'} = {g \in Handlers : Publishing(g)} \cup {h}
  BY <1>6
<1>14. \A g \in Handlers : Publishing(g) =>
          Published(request[g].event.post)' = Published(request[g].event.post)
  BY <1>4, <1>6, <1>7, <1>9 DEF Published
<1>15. Published(request[h].event.post)' = fact
  BY <1>4, <1>10 DEF Published
<1>16. ToEvidence' = ToEvidence \cup {fact}
  BY <1>13, <1>14, <1>15 DEF ToEvidence
<1>17. \A i \in DOMAIN trail : IsEvidence(i)' <=> IsEvidence(i)
  BY <1>4, <1>5 DEF IsEvidence, BoxInv
<1>18. InTrail' = InTrail
  BY <1>4, <1>17 DEF InTrail
<1>19. DroppedPublished' = DroppedPublished
  BY <1>4, <1>9 DEF DroppedPublished, BoxInv
<1>20. Box!Record(fact)
  BY <1>11, <1>12, <1>16, <1>18, <1>19 DEF Box!Record
<1>21. QED
  BY <1>8, <1>11, <1>20 DEF Box!BoxNext

(* What h was to evidence is off its hands, and only that.                 *)
LEMMA LeavesEvidence ==
    ASSUME TypeOK, EvidenceInv, BoxInv, NEW h \in Handlers, Publishing(h), ~Publishing(h)',
           \A g \in Handlers \ {h} : pc'[g] = pc[g] /\ request'[g] = request[g],
           posts' = posts
    PROVE  /\ Published(request[h].event.post) \in ToEvidence
           /\ ToEvidence' = ToEvidence \ {Published(request[h].event.post)}
<1>1. \A g \in Handlers \ {h} : Publishing(g) => request[g].event.post # request[h].event.post
  BY DEF BoxInv
<1>2. \A g \in Handlers \ {h} : Publishing(g)' <=> Publishing(g)
  BY DEF Publishing
<1>3. {g \in Handlers : Publishing(g)'} = {g \in Handlers : Publishing(g)} \ {h}
  BY <1>2
<1>4. \A g \in Handlers \ {h} :
         Published(request[g].event.post)' = Published(request[g].event.post)
  BY DEF Published
<1>5. \A g \in Handlers \ {h} : Publishing(g) =>
          Published(request[g].event.post) # Published(request[h].event.post)
  BY <1>1 DEF Published
<1>6. QED
  BY <1>3, <1>4, <1>5 DEF ToEvidence

(* compliance.emit tells, if the event is about a post.                    *)
LEMMA EmitTells ==
    ASSUME TypeOK, EvidenceInv, BoxInv, NEW h \in Handlers, Emit(h)
    PROVE  BoxInv' /\ [Box!BoxNext]_(Box!boxVars)
<1>1. PICK e : e = request[h].event
  OBVIOUS
<1>2. /\ pc[h] = "emit" /\ pc'[h] = "idle"
      /\ \A g \in Handlers \ {h} : pc'[g] = pc[g]
  BY GotoSets DEF Emit
<1>3. /\ trail' = Append(trail, e) /\ UNCHANGED <<posts, dropped>>
      /\ request'[h].event.post = 0
      /\ \A g \in Handlers \ {h} : request'[g] = request[g]
  BY <1>1 DEF Emit, tables, TypeOK, NoRequest, NoEvent
<1>4. PICK n \in Nat : n = Len(trail) + 1
  BY DEF TypeOK
<1>5. /\ DOMAIN trail' = DOMAIN trail \cup {n} /\ trail'[n] = e /\ n \notin DOMAIN trail
      /\ \A i \in DOMAIN trail : trail'[i] = trail[i]
  BY <1>3, <1>4 DEF TypeOK
<1>6. ~Publishing(h)'
  BY <1>2 DEF Publishing
<1>7. Publishing(h) <=> e.post # 0
  BY <1>1, <1>2 DEF Publishing
<1>8. e.post # 0 => /\ e.post \in DOMAIN posts /\ Whole(e.post)
                    /\ e.user = posts[e.post].author
  BY <1>1, <1>2, <1>7, HeldPostsExist
<1>9. BoxInv'
  <2>1. \A f, g \in Handlers :
           Publishing(f)' /\ Publishing(g)' /\ request'[f].event.post = request'[g].event.post
              => f = g
    BY <1>2, <1>3, <1>6 DEF BoxInv, Publishing
  <2>2. \A p : Whole(p)' <=> Whole(p)
    BY <1>3 DEF Whole
  <2>3. \A i \in DOMAIN trail' :
           trail'[i].post # 0 => trail'[i].post \in DOMAIN posts /\ Whole(trail'[i].post)
    BY <1>5, <1>8 DEF BoxInv
  <2>4. QED
    BY <1>2, <1>3, <2>1, <2>2, <2>3 DEF BoxInv, Whole, Publishing
<1>10. AllPublished' = AllPublished /\ DroppedPublished' = DroppedPublished
  BY <1>3 DEF AllPublished, DroppedPublished, Published
<1>11. \A i \in DOMAIN trail : IsEvidence(i)' <=> IsEvidence(i)
  BY <1>3, <1>5 DEF IsEvidence
<1>12. IsEvidence(n)' <=> e.post # 0
  BY <1>3, <1>5, <1>8 DEF IsEvidence, Whole
<1> DEFINE new == {j \in DOMAIN trail' : IsEvidence(j)'}
<1> DEFINE old == {j \in DOMAIN trail : IsEvidence(j)}
<1>13. CASE e.post = 0
  <2>1. new = old
    BY <1>5, <1>11, <1>12, <1>13
  <2>2. InTrail' = InTrail
    BY <1>5, <2>1 DEF InTrail
  <2>3. \A g \in Handlers : Publishing(g)' <=> Publishing(g)
    BY <1>2, <1>3, <1>6, <1>7, <1>13 DEF Publishing
  <2>4. \A g \in Handlers : Publishing(g) =>
           Published(request[g].event.post)' = Published(request[g].event.post)
    BY <1>3, <1>7, <1>13 DEF Published
  <2>5. {g \in Handlers : Publishing(g)'} = {g \in Handlers : Publishing(g)}
    BY <2>3
  <2>6. ToEvidence' = ToEvidence
    BY <2>4, <2>5 DEF ToEvidence
  <2>7. QED
    BY <1>9, <1>10, <2>2, <2>6 DEF Box!boxVars
<1>14. CASE e.post # 0
  <2>1. new = old \cup {n}
    BY <1>5, <1>11, <1>12, <1>14
  <2>2. <<e.post, e.user>> = Published(e.post)
    BY <1>8, <1>14 DEF Published
  <2>3. {<<i, <<trail'[i].post, trail'[i].user>>>> : i \in new}
           = {<<i, <<trail[i].post, trail[i].user>>>> : i \in old} \cup {<<n, Published(e.post)>>}
    BY <1>5, <2>1, <2>2
  <2>4. InTrail' = InTrail \cup {<<n, Published(e.post)>>}
    BY <2>3 DEF InTrail
  <2>5. Published(e.post) \in ToEvidence /\ ToEvidence' = ToEvidence \ {Published(e.post)}
    BY <1>1, <1>2, <1>3, <1>6, <1>7, <1>14, LeavesEvidence
  <2>6. Box!Tell(n, Published(e.post))
    BY <1>10, <2>4, <2>5 DEF Box!Tell
  <2>7. PICK told : told = <<n, Published(e.post)>>
    OBVIOUS
  <2>8. told \in InTrail' /\ Box!Tell(told[1], told[2])
    BY <2>4, <2>6, <2>7
  <2>9. QED
    BY <1>9, <2>8 DEF Box!BoxNext
<1>15. QED
  BY <1>13, <1>14

(* A request that dies before loses.                                       *)
LEMMA FailLoses ==
    ASSUME TypeOK, EvidenceInv, BoxInv, NEW h \in Handlers, Fail(h)
    PROVE  BoxInv' /\ [Box!BoxNext]_(Box!boxVars)
<1>1. PICK p : p = request[h].event.post
  OBVIOUS
<1>2. /\ pc'[h] = "idle"
      /\ \A g \in Handlers \ {h} : pc'[g] = pc[g] /\ request'[g] = request[g]
      /\ request'[h].event.post = 0
      /\ UNCHANGED <<posts, trail>>
      /\ dropped' = dropped \cup ({p} \ {0})
  BY <1>1 DEF Fail, tables, TypeOK, NoRequest, NoEvent
<1>3. ~Publishing(h)'
  BY <1>2 DEF Publishing
<1>4. CASE ~Publishing(h)
  <2>1. p = 0
    BY <1>1, <1>4 DEF BoxInv
  <2>2. QED
    BY <1>2, <1>4, <2>1, QuietBox
<1>5. CASE Publishing(h)
  <2>1. p \in DOMAIN posts /\ p # 0
    BY <1>1, <1>5, HeldPostsExist DEF Publishing
  <2>2. Published(p) \in ToEvidence /\ ToEvidence' = ToEvidence \ {Published(p)}
    BY <1>1, <1>2, <1>3, <1>5, LeavesEvidence
  <2>3. /\ AllPublished' = AllPublished
        /\ InTrail' = InTrail
        /\ DroppedPublished' = DroppedPublished \cup {Published(p)}
    BY <1>2, <2>1 DEF AllPublished, InTrail, IsEvidence, DroppedPublished, Published
  <2>4. BoxInv'
    <3>1. \A f, g \in Handlers :
             Publishing(f)' /\ Publishing(g)' /\ request'[f].event.post = request'[g].event.post
                => f = g
      BY <1>2, <1>3 DEF BoxInv, Publishing
    <3>2. QED
      BY <1>2, <2>1, <3>1 DEF BoxInv, Whole, Publishing
  <2>5. Box!Lose(Published(p))
    BY <2>2, <2>3 DEF Box!Lose
  <2>6. QED
    BY <2>2, <2>4, <2>5 DEF Box!BoxNext
<1>6. QED
  BY <1>4, <1>5
LEMMA BoxStep ==
    ASSUME TypeOK, EvidenceInv, BoxInv, [Next]_vars
    PROVE  BoxInv' /\ [Box!BoxNext]_(Box!boxVars)
<1>1. ASSUME NEW h \in Handlers, Arrive(h)
      PROVE  BoxInv' /\ [Box!BoxNext]_(Box!boxVars)
  <2>1. /\ UNCHANGED <<posts, trail, dropped>> /\ pc[h] = "idle"
        /\ \A g \in Handlers \ {h} : pc'[g] = pc[g] /\ request'[g] = request[g]
    BY <1>1 DEF Arrive, Start, AdminSet, VendorLookup, GuardAge, Goto, ToEmit, tables, TypeOK
  <2>2. request[h].event.post = 0
    BY <2>1 DEF BoxInv, Publishing
  <2>3. request'[h].event.post = 0
    <3>1. ASSUME NEW kind, NEW what, NEW u, NEW r, ToEmit(h, kind, what, u, r)
          PROVE  request'[h].event.post = 0
      BY <3>1 DEF ToEmit, TypeOK
    <3>2. ASSUME NEW u \in Users, NEW s \in Sessions, NEW status \in Statuses,
                 VendorLookup(h, u, s, status)
          PROVE  request'[h].event.post = 0
      BY <3>2 DEF VendorLookup, NoEvent, TypeOK
    <3>3. ASSUME NEW u \in Users, GuardAge(h, u)
          PROVE  request'[h].event.post = 0
      BY <3>3, <2>2 DEF GuardAge, TypeOK
    <3>4. QED
      BY <1>1, <3>1, <3>2, <3>3 DEF Arrive, Start, AdminSet
  <2>4. QED
    BY <2>1, <2>3, QuietBox DEF Publishing
<1>2. ASSUME NEW h \in Handlers, Continue(h)
      PROVE  BoxInv' /\ [Box!BoxNext]_(Box!boxVars)
  <2>1. CASE VendorApply(h)
    <3>1. /\ UNCHANGED <<posts, trail, dropped>> /\ pc[h] = "apply"
          /\ \A g \in Handlers \ {h} : pc'[g] = pc[g] /\ request'[g] = request[g]
          /\ request'[h].event.post = 0
      BY <2>1 DEF VendorApply, ToEmit, ToEmitVendor, Goto, TypeOK
    <3>2. QED
      BY <3>1, QuietBox DEF Publishing
  <2>2. CASE GuardId(h) \/ GuardRefuses(h)
    <3>1. /\ UNCHANGED <<posts, trail, dropped>> /\ pc[h] = "guardId"
          /\ \A g \in Handlers \ {h} : pc'[g] = pc[g] /\ request'[g] = request[g]
          /\ request'[h].event.post \in {0, request[h].event.post}
      BY <2>2, GotoSets DEF GuardId, GuardRefuses, tables, TypeOK, NoRequest, NoEvent
    <3>2. request'[h].event.post = 0
      BY <3>1 DEF BoxInv, Publishing
    <3>3. QED
      BY <3>1, <3>2, QuietBox DEF Publishing
  <2>3. CASE AttachMedia(h)
    <3>1. PICK p : p = request[h].event.post
      OBVIOUS
    <3>2. /\ pc[h] = "attach" /\ pc'[h] = "emit"
          /\ \A g \in Handlers \ {h} : pc'[g] = pc[g]
      BY <2>3, GotoSets DEF AttachMedia
    <3>3. /\ posts' = [posts EXCEPT ![p].media = "attached"]
          /\ UNCHANGED <<trail, dropped, request>>
      BY <2>3, <3>1 DEF AttachMedia
    <3>4. p \in DOMAIN posts
      BY <3>1, <3>2 DEF EvidenceInv, HeldRight, Held
    <3>5. /\ DOMAIN posts' = DOMAIN posts
          /\ \A q \in DOMAIN posts : /\ posts'[q].author = posts[q].author
                                     /\ Whole(q) => Whole(q)'
      BY <3>3, <3>4, AttachSets DEF Whole
    <3>6. \A g \in Handlers : Publishing(g)' <=> Publishing(g)
      BY <3>2, <3>3 DEF Publishing
    <3>7. QED
      BY <3>3, <3>5, <3>6, BoxStays
  <2>4. QED
    BY <1>2, <2>1, <2>2, <2>3, CreatePostRecords, EmitTells DEF Continue
<1>3. CASE UNCHANGED vars
  <2>1. UNCHANGED <<posts, trail, dropped, pc, request>>
    BY <1>3 DEF vars, tables
  <2>2. \A h \in Handlers : Publishing(h)' <=> Publishing(h)
    BY <2>1 DEF Publishing
  <2>3. \A p \in DOMAIN posts : posts'[p].author = posts[p].author /\ (Whole(p) => Whole(p)')
    BY <2>1 DEF Whole
  <2>4. QED
    BY <2>1, <2>2, <2>3, BoxStays
<1>4. QED
  BY <1>1, <1>2, <1>3, FailLoses DEF Next

(* Posts keep the promise of an outbox: each gets its event at most once,  *)
(* with its author and its media, or is lost with its request.             *)
THEOREM PostsKeepOutbox == Spec => PostsAreEvidencedOnce
<1>1. Init => BoxInv /\ Box!BoxInit
  BY DEF Init, NoRequest, NoEvent, BoxInv, Box!BoxInit, AllPublished, ToEvidence, Publishing,
         InTrail, DroppedPublished
<1>2. TypeOK /\ EvidenceInv /\ BoxInv /\ [Next]_vars => BoxInv' /\ [Box!BoxNext]_(Box!boxVars)
  BY BoxStep
<1>3. QED
  BY <1>1, <1>2, Inductive, EvidenceInductive, PTL DEF Spec, PostsAreEvidencedOnce, Box!BoxSpec

BoxTheorems == INSTANCE OutboxProofs WITH recorded <- AllPublished, untold <- ToEvidence,
                                          told <- InTrail, lost <- DroppedPublished

(* So no post has two events or one and a lost one, and none has neither   *)
(* without a request that still holds it.                                  *)
THEOREM PostsAreAccountedFor == Spec => [](Box!AllAccountedFor /\ Box!ToldAtMostOnce)
<1>1. PostsAreEvidencedOnce => BoxTheorems!BoxSpec
  BY DEF PostsAreEvidencedOnce, Box!BoxSpec, BoxTheorems!BoxSpec, Box!BoxInit, BoxTheorems!BoxInit,
         Box!BoxNext, BoxTheorems!BoxNext, Box!boxVars, BoxTheorems!boxVars, Box!Record,
         BoxTheorems!Record, Box!Tell, BoxTheorems!Tell, Box!Lose, BoxTheorems!Lose
<1>2. BoxTheorems!AllAccountedFor /\ BoxTheorems!ToldAtMostOnce
         => Box!AllAccountedFor /\ Box!ToldAtMostOnce
  BY DEF Box!AllAccountedFor, BoxTheorems!AllAccountedFor, Box!ToldAtMostOnce,
         BoxTheorems!ToldAtMostOnce
<1>3. QED
  BY <1>1, <1>2, PostsKeepOutbox, BoxTheorems!KeepsAccount, PTL
=============================================================================
