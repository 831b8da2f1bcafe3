------------------------- MODULE AuthSessionsProofs -------------------------
(***************************************************************************)
(* Theorems about AuthSessions, for any users, handlers and table size:    *)
(* what rotation and reuse detection guarantee under every interleaving.   *)
(***************************************************************************)
EXTENDS AuthSessions, TLAPS

(* Ids are given out in order: a session exists below nextSession and      *)
(* nowhere else, and has an owner.                                         *)
RowsInOrder ==
    /\ \A s \in SessionIds : Exists(s) <=> s < nextSession
    /\ \A s \in SessionIds : Exists(s) => sessions[s].user \in Users
    /\ \A s \in granted : Exists(s)
    /\ \A u \in Users : cutoff[u] <= nextSession

(* What a handler knows of the session it was presented with.  Between its *)
(* look-up and its last statement others may revoke the session or spend   *)
(* it too, but it is this handler that has not spent it yet.               *)
Unspent(h, p) == \A s \in SessionIds : Child(s, p) => sessions[s].by # h

RequestInv(h) ==
    /\ pc[h] # "idle" => request[h].user \in Users
    /\ pc[h] \in {"revoke", "revokeAll"} => request[h].sid \in SessionIds
    /\ pc[h] = "create" => request[h].sid = 0
    /\ pc[h] \in {"revoke", "issue", "revokeAll"} /\ request[h].sid # 0 =>
          /\ Exists(request[h].sid)
          /\ sessions[request[h].sid].user = request[h].user
    /\ pc[h] \in {"issue", "revokeAll"} /\ request[h].sid # 0 =>
          sessions[request[h].sid].state = "revoked"
    /\ pc[h] \in {"revoke", "issue"} /\ request[h].sid # 0 =>
          Unspent(h, request[h].sid)

SessionInv ==
    /\ RowsInOrder
    /\ \A h \in Handlers : RequestInv(h)
    /\ RotationSpendsParent
    /\ SpentOncePerHandler
    /\ ReuseEndsEarlierSessions

-----------------------------------------------------------------------------

LEMMA TypeStep == Typed /\ SessionInv /\ [Next]_vars => Typed'
<1> SUFFICES ASSUME Typed, SessionInv, [Next]_vars
             PROVE  Typed'
  OBVIOUS
<1> USE AuthAssumption
<1>1. ASSUME NEW h \in Handlers, NEW u \in Users, RegisterLookup(h, u) \/ Login(h, u)
      PROVE  Typed'
  BY <1>1 DEF Typed, RegisterLookup, Login, Goto, Hold, PCs
<1>2. ASSUME NEW h \in Handlers, NEW s \in granted,
             RefreshLookup(h, s) \/ ReuseDetected(h, s)
      PROVE  Typed'
  <2>1. s \in SessionIds /\ sessions[s].user \in Users \cup {NoUser}
    BY DEF Typed, Session
  <2>2. request' \in [Handlers -> [user : Users \cup {NoUser}, sid : {0} \cup SessionIds]]
    BY <1>2, <2>1 DEF Typed, RefreshLookup, ReuseDetected, Hold
  <2>3. pc' \in [Handlers -> PCs]
    BY <1>2 DEF Typed, RefreshLookup, ReuseDetected, Goto, PCs
  <2>4. QED
    BY <1>2, <2>2, <2>3 DEF Typed, RefreshLookup, ReuseDetected
<1>3. ASSUME NEW h \in Handlers, CreateUser(h) \/ CreateConflict(h) \/ Abort(h)
      PROVE  Typed'
  BY <1>3 DEF Typed, CreateUser, CreateConflict, Abort, Finish, NoRequest, Goto, PCs
<1>4. ASSUME NEW h \in Handlers, RevokePresented(h)
      PROVE  Typed'
  <2>1. sessions' \in [SessionIds -> Session]
    <3>1. request[h].sid \in SessionIds
      BY <1>4 DEF RevokePresented, Goto, SessionInv, RequestInv
    <3>2. [sessions[request[h].sid] EXCEPT !.state = "revoked"] \in Session
      BY <3>1 DEF Typed, Session
    <3>3. sessions' = [sessions EXCEPT ![request[h].sid] =
                          [sessions[request[h].sid] EXCEPT !.state = "revoked"]]
      BY <1>4, <3>1 DEF RevokePresented, Typed
    <3>4. QED
      BY <3>1, <3>2, <3>3 DEF Typed
  <2>2. pc' \in [Handlers -> PCs]
    BY <1>4 DEF Typed, RevokePresented, Goto, PCs
  <2>3. QED
    BY <1>4, <2>1, <2>2 DEF Typed, RevokePresented
<1>5. ASSUME NEW h \in Handlers, IssueTokens(h) \/ IssueLost(h)
      PROVE  Typed'
  <2>1. [state |-> "live", user |-> request[h].user, parent |-> request[h].sid, by |-> h]
           \in Session
    BY DEF Typed, Session
  <2>2. sessions' \in [SessionIds -> Session]
    BY <1>5, <2>1 DEF Typed, IssueTokens, IssueLost, InsertSession
  <2>3. nextSession' \in 1 .. MaxSessions + 1
    BY <1>5 DEF Typed, IssueTokens, IssueLost, InsertSession, SessionIds
  <2>4. granted' \subseteq SessionIds
    BY <1>5 DEF Typed, IssueTokens, IssueLost, InsertSession
  <2>5. QED
    BY <1>5, <2>2, <2>3, <2>4 DEF Typed, IssueTokens, IssueLost, Finish, NoRequest, PCs
<1>6. ASSUME NEW h \in Handlers, RevokeAll(h)
      PROVE  Typed'
  <2>1. sessions' \in [SessionIds -> Session]
    BY <1>6 DEF Typed, RevokeAll, Session
  <2>2. cutoff' \in [Users -> 1 .. MaxSessions + 1]
    BY <1>6 DEF Typed, RevokeAll
  <2>3. QED
    BY <1>6, <2>1, <2>2 DEF Typed, RevokeAll, Finish, NoRequest, PCs
<1>7. ASSUME NEW s \in granted, Logout(s)
      PROVE  Typed'
  BY <1>7 DEF Typed, Logout, Session
<1>8. ASSUME NEW u \in Users, Activate(u)
      PROVE  Typed'
  BY <1>8 DEF Typed, Activate
<1>9. CASE UNCHANGED vars
  BY <1>9 DEF Typed, vars
<1>10. QED
  BY <1>1, <1>2, <1>3, <1>4, <1>5, <1>6, <1>7, <1>8, <1>9 DEF Next, Request, Continue

-----------------------------------------------------------------------------
(* A session that is revoked, by whatever statement: rows, owners, parents *)
(* and issuers stay, and a state can only go from live to revoked.         *)
OnlyRevokes ==
    /\ \A s \in SessionIds :
          /\ sessions'[s].user = sessions[s].user
          /\ sessions'[s].parent = sessions[s].parent
          /\ sessions'[s].by = sessions[s].by
          /\ \/ sessions'[s].state = sessions[s].state
             \/ Exists(s) /\ sessions'[s].state = "revoked"
    /\ UNCHANGED <<nextSession, granted>>

LEMMA RevokingKeepsRows ==
    ASSUME Typed, SessionInv, OnlyRevokes
    PROVE  /\ \A s \in SessionIds : Exists(s)' <=> Exists(s)
           /\ \A s \in SessionIds, p \in SessionIds : Child(s, p)' <=> Child(s, p)
           /\ RotationSpendsParent'
           /\ SpentOncePerHandler'
<1>1. \A s \in SessionIds : Exists(s)' <=> Exists(s)
  BY DEF OnlyRevokes, Exists
<1>2. \A s \in SessionIds, p \in SessionIds : Child(s, p)' <=> Child(s, p)
  BY <1>1 DEF OnlyRevokes, Child
<1>3. RotationSpendsParent'
  BY <1>2 DEF SessionInv, RotationSpendsParent, OnlyRevokes
<1>4. SpentOncePerHandler'
  BY <1>2 DEF SessionInv, SpentOncePerHandler, OnlyRevokes
<1>5. QED
  BY <1>1, <1>2, <1>3, <1>4

(* Requests that hold what they held keep their invariant. *)
LEMMA RevokingKeepsRequest ==
    ASSUME Typed, SessionInv, OnlyRevokes, NEW h \in Handlers,
           pc'[h] = pc[h], request'[h] = request[h]
    PROVE  RequestInv(h)'
<1>1. RequestInv(h)
  BY DEF SessionInv
<1>2. request[h].sid # 0 => request[h].sid \in SessionIds
  BY DEF Typed
<1>3. request[h].sid # 0 =>
        /\ sessions'[request[h].sid].user = sessions[request[h].sid].user
        /\ Exists(request[h].sid)' <=> Exists(request[h].sid)
        /\ sessions[request[h].sid].state = "revoked" =>
              sessions'[request[h].sid].state = "revoked"
        /\ Unspent(h, request[h].sid) => Unspent(h, request[h].sid)'
  <2>1. ASSUME NEW p \in SessionIds, Unspent(h, p)
        PROVE  Unspent(h, p)'
    BY <2>1, RevokingKeepsRows DEF Unspent, OnlyRevokes
  <2>2. QED
    BY <1>2, <2>1, RevokingKeepsRows DEF OnlyRevokes, Unspent
<1>4. QED
  BY <1>1, <1>3 DEF RequestInv

LEMMA IdleRequest ==
    ASSUME Typed, NEW h \in Handlers, Finish(h)
    PROVE  RequestInv(h)' /\ \A g \in Handlers \ {h} :
                                  pc'[g] = pc[g] /\ request'[g] = request[g]
BY DEF Finish, RequestInv, NoRequest, Typed

(* A step that leaves the tables of sessions alone and moves one handler.  *)
LEMMA HandlerMoves ==
    ASSUME Typed, SessionInv, NEW h \in Handlers,
           UNCHANGED <<sessions, nextSession, granted, cutoff>>,
           \A g \in Handlers \ {h} : pc'[g] = pc[g] /\ request'[g] = request[g],
           RequestInv(h)'
    PROVE  SessionInv'
<1>1. OnlyRevokes
  BY DEF OnlyRevokes
<1>2. \A g \in Handlers : RequestInv(g)'
  BY <1>1, RevokingKeepsRequest
<1>3. RowsInOrder'
  BY DEF SessionInv, RowsInOrder, Exists
<1>4. ReuseEndsEarlierSessions'
  BY DEF SessionInv, ReuseEndsEarlierSessions, Exists
<1>5. QED
  BY <1>1, <1>2, <1>3, <1>4, RevokingKeepsRows DEF SessionInv

LEMMA IssueStep ==
    ASSUME Typed, SessionInv, NEW h \in Handlers,
           pc[h] = "issue", InsertSession(h), Finish(h), UNCHANGED cutoff,
           granted' = granted \/ granted' = granted \cup {nextSession}
    PROVE  SessionInv'
<1> USE AuthAssumption
<1>a. PICK n \in SessionIds : n = nextSession
  BY DEF InsertSession
<1>b. PICK p \in {0} \cup SessionIds : p = request[h].sid
  BY DEF Typed
<1>1. n \in SessionIds /\ nextSession' = n + 1 /\ ~Exists(n)
  BY <1>a DEF InsertSession, SessionInv, RowsInOrder, Typed, SessionIds
<1>2. /\ sessions'[n].state = "live"
      /\ sessions'[n].user = request[h].user
      /\ sessions'[n].parent = p
      /\ sessions'[n].by = h
      /\ \A s \in SessionIds \ {n} : sessions'[s] = sessions[s]
  BY <1>1, <1>a, <1>b DEF InsertSession, Typed
<1>3. request[h].user \in Users /\ p \in {0} \cup SessionIds
  BY DEF SessionInv, RequestInv, Typed
<1>4. p # 0 => /\ p \in SessionIds \ {n}
               /\ sessions[p].state = "revoked"
               /\ sessions[p].user = request[h].user
               /\ Unspent(h, p)
  BY <1>1, <1>3, <1>b DEF SessionInv, RequestInv
<1>5. Exists(n)' /\ \A s \in SessionIds \ {n} : Exists(s)' <=> Exists(s)
  BY <1>2 DEF Exists
<1>6. \A s \in SessionIds \ {n}, q \in SessionIds : Child(s, q)' <=> Child(s, q)
  BY <1>2, <1>5 DEF Child
<1>7. \A q \in SessionIds : Child(n, q)' => q = p /\ p # 0
  BY <1>2 DEF Child
<1>8. RowsInOrder'
  <2>1. \A s \in SessionIds : Exists(s)' <=> s < nextSession'
    BY <1>a, <1>1, <1>5 DEF SessionInv, RowsInOrder, SessionIds, Typed
  <2>2. \A s \in SessionIds : Exists(s)' => sessions'[s].user \in Users
    BY <1>2, <1>3, <1>5 DEF SessionInv, RowsInOrder
  <2>3. \A s \in granted' : Exists(s)'
    BY <1>a, <1>5 DEF SessionInv, RowsInOrder, Typed
  <2>4. \A u \in Users : cutoff'[u] <= nextSession'
    BY <1>a, <1>1 DEF SessionInv, RowsInOrder, Typed, SessionIds
  <2>5. QED
    BY <2>1, <2>2, <2>3, <2>4 DEF RowsInOrder
<1>9. RotationSpendsParent'
  <2> SUFFICES ASSUME NEW s \in SessionIds, NEW q \in SessionIds, Child(s, q)'
               PROVE  sessions'[q].state = "revoked" /\ sessions'[q].user = sessions'[s].user
    BY DEF RotationSpendsParent
  <2>1. CASE s = n
    BY <2>1, <1>2, <1>4, <1>7
  <2>2. CASE s # n
    <3>1. sessions[q].state = "revoked" /\ sessions[q].user = sessions[s].user
      BY <2>2, <1>6 DEF SessionInv, RotationSpendsParent
    <3>2. q # n
      BY <3>1, <1>1 DEF Exists
    <3>3. QED
      BY <2>2, <3>1, <3>2, <1>2
  <2>3. QED
    BY <2>1, <2>2
<1>10. SpentOncePerHandler'
  <2>1. \A s \in SessionIds \ {n}, q \in SessionIds :
           Child(s, q)' /\ Child(n, q)' => sessions'[s].by # sessions'[n].by
    BY <1>2, <1>4, <1>6, <1>7 DEF Unspent
  <2>2. \A s, t \in SessionIds \ {n}, q \in SessionIds :
           Child(s, q)' /\ Child(t, q)' /\ sessions'[s].by = sessions'[t].by => s = t
    BY <1>2, <1>6 DEF SessionInv, SpentOncePerHandler
  <2>3. QED
    BY <2>1, <2>2 DEF SpentOncePerHandler
<1>11. ReuseEndsEarlierSessions'
  <2>1. cutoff'[request[h].user] <= n
    BY <1>a, <1>3 DEF SessionInv, RowsInOrder
  <2>2. ~(n < cutoff'[request[h].user])
    BY <1>1, <1>3, <2>1 DEF Typed, SessionIds
  <2>3. QED
    BY <2>2, <1>2, <1>5 DEF SessionInv, ReuseEndsEarlierSessions
<1>12. \A g \in Handlers : RequestInv(g)'
  <2> SUFFICES ASSUME NEW g \in Handlers, g # h
               PROVE  RequestInv(g)'
    BY IdleRequest
  <2> DEFINE r == request[g].sid
  <2>1. pc'[g] = pc[g] /\ request'[g] = request[g]
    BY IdleRequest
  <2>2. RequestInv(g)
    BY DEF SessionInv
  <2>3. r # 0 /\ Exists(r) => r \in SessionIds \ {n}
    BY <1>1 DEF Typed
  <2>4. ASSUME r \in SessionIds \ {n}, Unspent(g, r)
        PROVE  Unspent(g, r)'
    BY <2>4, <2>1, <1>2, <1>6 DEF Unspent
  <2>5. QED
    BY <2>1, <2>2, <2>3, <2>4, <1>2, <1>5 DEF RequestInv
<1>13. QED
  BY <1>8, <1>9, <1>10, <1>11, <1>12 DEF SessionInv

LEMMA RevokePresentedStep ==
    ASSUME Typed, SessionInv, NEW h \in Handlers, RevokePresented(h)
    PROVE  SessionInv'
<1>a. PICK p : p = request[h].sid
  OBVIOUS
<1>1. RequestInv(h) /\ pc[h] = "revoke" /\ pc'[h] = "issue" /\ request' = request
  BY DEF SessionInv, RevokePresented, Goto, Typed
<1>2. p \in SessionIds
  BY <1>a, <1>1 DEF RequestInv
<1>3. p # 0
  BY <1>2, AuthAssumption DEF SessionIds
<1>4. Exists(p) /\ sessions[p].user = request[h].user /\ Unspent(h, p)
  BY <1>a, <1>1, <1>3 DEF RequestInv
<1>5. /\ sessions'[p].state = "revoked"
      /\ sessions'[p].user = sessions[p].user
      /\ \A s \in SessionIds \ {p} : sessions'[s] = sessions[s]
      /\ sessions'[p].parent = sessions[p].parent
      /\ sessions'[p].by = sessions[p].by
  BY <1>a, <1>2 DEF RevokePresented, Typed, Session
<1>6. OnlyRevokes
  BY <1>2, <1>4, <1>5 DEF OnlyRevokes, RevokePresented
<1>7. RowsInOrder'
  BY <1>6, RevokingKeepsRows DEF SessionInv, RowsInOrder, OnlyRevokes, RevokePresented, Typed
<1>8. ReuseEndsEarlierSessions'
  BY <1>6, RevokingKeepsRows
     DEF SessionInv, ReuseEndsEarlierSessions, OnlyRevokes, RevokePresented
<1>9. RequestInv(h)'
  <2>1. Unspent(h, p)'
    BY <1>2, <1>4, <1>6, RevokingKeepsRows DEF Unspent, OnlyRevokes
  <2>2. Exists(p)'
    BY <1>2, <1>4, <1>6, RevokingKeepsRows
  <2>3. request[h].user \in Users
    BY <1>1 DEF RequestInv
  <2>4. QED
    BY <1>a, <1>1, <1>4, <1>5, <2>1, <2>2, <2>3 DEF RequestInv
<1>10. \A g \in Handlers : RequestInv(g)'
  BY <1>6, <1>9, RevokingKeepsRequest DEF RevokePresented, Goto, Typed
<1>11. QED
  BY <1>6, <1>7, <1>8, <1>10, RevokingKeepsRows DEF SessionInv

LEMMA RevokeAllStep ==
    ASSUME Typed, SessionInv, NEW h \in Handlers, RevokeAll(h)
    PROVE  SessionInv'
<1> DEFINE u == request[h].user
<1>1. u \in Users
  BY DEF RevokeAll, SessionInv, RequestInv
<1>2. \A s \in SessionIds :
         sessions'[s] = IF RevokedByReuse(h, s)
                        THEN [sessions[s] EXCEPT !.state = "revoked"]
                        ELSE sessions[s]
  BY DEF RevokeAll
<1>3. OnlyRevokes
  BY <1>2 DEF OnlyRevokes, RevokedByReuse, RevokeAll, Exists, Typed, Session
<1>4. cutoff' = [cutoff EXCEPT ![u] = nextSession] /\ nextSession' = nextSession
  BY DEF RevokeAll
<1>5. RowsInOrder'
  <2>1. \A v \in Users : cutoff'[v] <= nextSession'
    BY <1>1, <1>4 DEF SessionInv, RowsInOrder, Typed
  <2>2. QED
    BY <1>3, <2>1, RevokingKeepsRows DEF SessionInv, RowsInOrder, OnlyRevokes, Typed
<1>6. ReuseEndsEarlierSessions'
  <2> SUFFICES ASSUME NEW s \in SessionIds, Exists(s)', s < cutoff'[sessions'[s].user]
               PROVE  sessions'[s].state = "revoked"
    BY DEF ReuseEndsEarlierSessions
  <2>1. Exists(s) /\ sessions'[s].user = sessions[s].user /\ sessions[s].user \in Users
    BY <1>3, RevokingKeepsRows DEF OnlyRevokes, SessionInv, RowsInOrder
  <2>2. CASE sessions[s].user = u
    <3>1. sessions[s].state \in {"live", "revoked"}
      BY <2>1 DEF Exists, Typed, Session
    <3>2. QED
      BY <2>2, <3>1, <1>2 DEF RevokedByReuse, Typed, Session
  <2>3. CASE sessions[s].user # u
    <3>1. s < cutoff[sessions[s].user]
      BY <2>1, <2>3, <1>4 DEF Typed
    <3>2. sessions[s].state = "revoked"
      BY <2>1, <3>1 DEF SessionInv, ReuseEndsEarlierSessions
    <3>3. QED
      BY <3>2, <1>3 DEF OnlyRevokes
  <2>4. QED
    BY <2>2, <2>3
<1>7. \A g \in Handlers : RequestInv(g)'
  BY <1>3, IdleRequest, RevokingKeepsRequest DEF RevokeAll
<1>8. QED
  BY <1>3, <1>5, <1>6, <1>7, RevokingKeepsRows DEF SessionInv

LEMMA LogoutStep ==
    ASSUME Typed, SessionInv, NEW s \in granted, Logout(s)
    PROVE  SessionInv'
<1>1. s \in SessionIds /\ sessions[s].state = "live"
  BY DEF Typed, Logout
<1>2. OnlyRevokes
  BY <1>1 DEF OnlyRevokes, Logout, Exists, Typed, Session
<1>3. RowsInOrder'
  BY <1>2, RevokingKeepsRows DEF SessionInv, RowsInOrder, OnlyRevokes, Logout, Typed
<1>4. ReuseEndsEarlierSessions'
  BY <1>2, RevokingKeepsRows DEF SessionInv, ReuseEndsEarlierSessions, OnlyRevokes, Logout
<1>5. \A g \in Handlers : RequestInv(g)'
  BY <1>2, RevokingKeepsRequest DEF Logout
<1>6. QED
  BY <1>2, <1>3, <1>4, <1>5, RevokingKeepsRows DEF SessionInv

(* The look-up of a refresh: a live session has no successor yet. *)
LEMMA LookupStep ==
    ASSUME Typed, SessionInv, NEW h \in Handlers, NEW s \in granted,
           RefreshLookup(h, s) \/ ReuseDetected(h, s)
    PROVE  SessionInv'
<1>1. s \in SessionIds /\ Exists(s) /\ sessions[s].user \in Users
  BY DEF Typed, SessionInv, RowsInOrder
<1>2. /\ request'[h] = [user |-> sessions[s].user, sid |-> s]
      /\ \A g \in Handlers \ {h} : pc'[g] = pc[g] /\ request'[g] = request[g]
      /\ UNCHANGED <<sessions, nextSession, granted, cutoff>>
  BY DEF Typed, RefreshLookup, ReuseDetected, Goto, Hold
<1>3. CASE RefreshLookup(h, s)
  <2>1. pc'[h] = "revoke" /\ sessions[s].state = "live"
    BY <1>3 DEF RefreshLookup, Goto, Typed
  <2>2. Unspent(h, s)'
    BY <1>1, <1>2, <2>1
       DEF SessionInv, RotationSpendsParent, Unspent, Child, Exists
  <2>3. RequestInv(h)'
    BY <1>1, <1>2, <2>1, <2>2 DEF RequestInv, Exists
  <2>4. QED
    BY <1>2, <2>3, HandlerMoves
<1>4. CASE ReuseDetected(h, s)
  <2>1. pc'[h] = "revokeAll" /\ sessions[s].state = "revoked"
    BY <1>4 DEF ReuseDetected, Goto, Typed
  <2>2. RequestInv(h)'
    BY <1>1, <1>2, <2>1 DEF RequestInv, Exists
  <2>3. QED
    BY <1>2, <2>2, HandlerMoves
<1>5. QED
  BY <1>3, <1>4

LEMMA InvStep == Typed /\ SessionInv /\ [Next]_vars => SessionInv'
<1> SUFFICES ASSUME Typed, SessionInv, [Next]_vars
             PROVE  SessionInv'
  OBVIOUS
<1>1. ASSUME NEW h \in Handlers, NEW u \in Users, RegisterLookup(h, u) \/ Login(h, u)
      PROVE  SessionInv'
  <2>1. /\ pc'[h] \in {"create", "issue"}
        /\ request'[h] = [user |-> u, sid |-> 0]
        /\ \A g \in Handlers \ {h} : pc'[g] = pc[g] /\ request'[g] = request[g]
        /\ UNCHANGED <<sessions, nextSession, granted, cutoff>>
    BY <1>1 DEF RegisterLookup, Login, Goto, Hold, Typed
  <2>2. RequestInv(h)'
    BY <2>1 DEF RequestInv
  <2>3. QED
    BY <2>1, <2>2, HandlerMoves
<1>2. ASSUME NEW h \in Handlers, CreateUser(h)
      PROVE  SessionInv'
  <2>1. /\ pc[h] = "create"
        /\ pc'[h] = "issue"
        /\ request' = request
        /\ \A g \in Handlers \ {h} : pc'[g] = pc[g]
        /\ UNCHANGED <<sessions, nextSession, granted, cutoff>>
    BY <1>2 DEF CreateUser, Goto, Typed
  <2>2. RequestInv(h)'
    BY <2>1 DEF SessionInv, RequestInv
  <2>3. QED
    BY <2>1, <2>2, HandlerMoves
<1>3. ASSUME NEW h \in Handlers, CreateConflict(h) \/ Abort(h)
      PROVE  SessionInv'
  BY <1>3, IdleRequest, HandlerMoves DEF CreateConflict, Abort
<1>4. ASSUME NEW h \in Handlers, IssueTokens(h) \/ IssueLost(h)
      PROVE  SessionInv'
  BY <1>4, IssueStep DEF IssueTokens, IssueLost
<1>5. ASSUME NEW u \in Users, Activate(u)
      PROVE  SessionInv'
  BY <1>5 DEF Activate, SessionInv, RowsInOrder, RequestInv, RotationSpendsParent,
     SpentOncePerHandler, ReuseEndsEarlierSessions, Unspent, Child, Exists
<1>6. CASE UNCHANGED vars
  BY <1>6 DEF vars, SessionInv, RowsInOrder, RequestInv, RotationSpendsParent,
     SpentOncePerHandler, ReuseEndsEarlierSessions, Unspent, Child, Exists
<1>7. QED
  BY <1>1, <1>2, <1>3, <1>4, <1>5, <1>6, LookupStep, RevokePresentedStep, RevokeAllStep,
     LogoutStep DEF Next, Request, Continue

LEMMA Inductive == Spec => [](Typed /\ SessionInv)
<1>1. Init => Typed
  BY AuthAssumption DEF Init, Typed, NoSession, NoRequest, Session, PCs
<1>2. Init => SessionInv
  BY AuthAssumption DEF Init, SessionInv, RowsInOrder, RequestInv, RotationSpendsParent,
     SpentOncePerHandler, ReuseEndsEarlierSessions, Child, Exists, NoSession, SessionIds
<1>3. QED
  BY <1>1, <1>2, TypeStep, InvStep, PTL DEF Spec

-----------------------------------------------------------------------------

(* Typing of the tables and of the handlers' state (auth.service.ts). *)
THEOREM TypeCorrect == Spec => []TypeOK
<1>1. Typed /\ SessionInv => TypeOK
  BY DEF SessionInv, RowsInOrder, TypeOK
<1>2. QED
  BY <1>1, Inductive, PTL

(* A session issued for a refresh token exists only beside its revoked     *)
(* predecessor of the same user, whatever interleaves with the refresh.    *)
THEOREM RotationCorrect == Spec => []RotationSpendsParent
<1>1. SessionInv => RotationSpendsParent
  BY DEF SessionInv
<1>2. QED
  BY <1>1, Inductive, PTL

(* No handler honours a refresh token at two different times: a token has  *)
(* at most as many successors as requests were served at once.             *)
THEOREM SpentOnce == Spec => []SpentOncePerHandler
<1>1. SessionInv => SpentOncePerHandler
  BY DEF SessionInv
<1>2. QED
  BY <1>1, Inductive, PTL

(* Sessions that existed when reuse was detected never live again. *)
THEOREM ReuseIsFinal == Spec => []ReuseEndsEarlierSessions
<1>1. SessionInv => ReuseEndsEarlierSessions
  BY DEF SessionInv
<1>2. QED
  BY <1>1, Inductive, PTL

(* Several sessions end at once only for a user with a spent session. *)
THEOREM MassRevocationJustified == Spec => MassRevocationNeedsReuse
<1> DEFINE Justified ==
      \A s, t \in SessionIds :
          EndedIn(s) /\ EndedIn(t) /\ s # t =>
              /\ sessions[s].user = sessions[t].user
              /\ \E p \in SessionIds :
                    sessions[p].state = "revoked" /\ sessions[p].user = sessions[s].user
<1>1. Typed /\ SessionInv /\ [Next]_vars => [Justified]_vars
  <2> SUFFICES ASSUME Typed, SessionInv, Next,
                      NEW s \in SessionIds, NEW t \in SessionIds,
                      EndedIn(s), EndedIn(t), s # t
               PROVE  /\ sessions[s].user = sessions[t].user
                      /\ \E p \in SessionIds :
                            /\ sessions[p].state = "revoked"
                            /\ sessions[p].user = sessions[s].user
    OBVIOUS
  <2>1. ASSUME sessions' = sessions  PROVE FALSE
    BY <2>1 DEF EndedIn
  <2>2. ASSUME NEW n \in SessionIds,
               \A i \in SessionIds \ {n} : sessions'[i] = sessions[i]
        PROVE  FALSE
    BY <2>2 DEF EndedIn
  <2>3. ASSUME NEW h \in Handlers, RevokeAll(h)
        PROVE  /\ sessions[s].user = sessions[t].user
               /\ \E p \in SessionIds :
                     /\ sessions[p].state = "revoked"
                     /\ sessions[p].user = sessions[s].user
    <3>1. RequestInv(h) /\ pc[h] = "revokeAll"
      BY <2>3 DEF SessionInv, RevokeAll
    <3>2. PICK p \in SessionIds : p = request[h].sid
      BY <3>1 DEF RequestInv
    <3>3. sessions[p].state = "revoked" /\ sessions[p].user = request[h].user
      BY <3>1, <3>2, AuthAssumption DEF RequestInv, SessionIds
    <3>4. sessions[s].user = request[h].user /\ sessions[t].user = request[h].user
      BY <2>3 DEF RevokeAll, EndedIn, RevokedByReuse
    <3>5. QED
      BY <3>2, <3>3, <3>4
  <2>4. ASSUME NEW h \in Handlers, RevokePresented(h)
        PROVE  FALSE
    <3>1. request[h].sid \in SessionIds
      BY <2>4 DEF SessionInv, RequestInv, RevokePresented, Goto
    <3>2. QED
      BY <2>4, <3>1, <2>2 DEF RevokePresented, Typed
  <2>5. ASSUME NEW h \in Handlers, IssueTokens(h) \/ IssueLost(h)
        PROVE  FALSE
    BY <2>5, <2>2 DEF IssueTokens, IssueLost, InsertSession, Typed
  <2>6. ASSUME NEW i \in granted, Logout(i)
        PROVE  FALSE
    BY <2>6, <2>2 DEF Logout, Typed
  <2>7. QED
    BY <2>1, <2>3, <2>4, <2>5, <2>6 DEF Next, Request, Continue, RegisterLookup, Login,
       RefreshLookup, ReuseDetected, CreateUser, CreateConflict, Abort, Activate
<1>2. QED
  BY <1>1, Inductive, PTL DEF Spec, MassRevocationNeedsReuse

-----------------------------------------------------------------------------
(* Whose sessions there are, and where they come from: every session is of *)
(* a user who has an account, and was issued after the one it continues,   *)
(* so that following parents ends at a registration or a login.            *)
SessionsHaveOrigin ==
    \A s \in SessionIds :
        Exists(s) =>
            /\ sessions[s].user \in Users /\ accounts[sessions[s].user] # "NONE"
            /\ sessions[s].parent < s

(* Likewise the requests that may issue one. *)
RequestsHaveAccount ==
    \A h \in Handlers :
        pc[h] \in {"revoke", "issue", "revokeAll"} => accounts[request[h].user] # "NONE"

OriginInv == SessionsHaveOrigin /\ RequestsHaveAccount

LEMMA AccountsStay ==
    ASSUME Typed, [Next]_vars, NEW u \in Users, accounts[u] # "NONE"
    PROVE  accounts'[u] # "NONE"
<1>1. ASSUME NEW h \in Handlers, CreateUser(h)
      PROVE  accounts'[u] # "NONE"
  BY <1>1, AuthAssumption DEF CreateUser, Typed
<1>2. ASSUME NEW v \in Users, Activate(v)
      PROVE  accounts'[u] # "NONE"
  BY <1>2 DEF Activate, Typed
<1>3. QED
  BY <1>1, <1>2 DEF Next, Request, Continue, RegisterLookup, Login, RefreshLookup,
     ReuseDetected, CreateConflict, RevokePresented, IssueTokens, IssueLost, RevokeAll,
     Logout, Abort, vars

(* The steps as the sessions see them: one is issued by a request, or some *)
(* are revoked and everything else about them stays.                       *)
LEMMA SessionSteps ==
    ASSUME Typed, SessionInv, [Next]_vars
    PROVE  \/ \E h \in Handlers : pc[h] = "issue" /\ InsertSession(h) /\ Finish(h)
                                  /\ UNCHANGED <<accounts, cutoff>>
           \/ OnlyRevokes
<1>1. ASSUME UNCHANGED <<sessions, nextSession, granted>>
      PROVE  OnlyRevokes
  BY <1>1 DEF OnlyRevokes
<1>2. ASSUME NEW h \in Handlers, RevokePresented(h)
      PROVE  OnlyRevokes
  <2>1. PICK p \in SessionIds : p = request[h].sid /\ Exists(p)
    BY <1>2, AuthAssumption DEF RevokePresented, Goto, SessionInv, RequestInv, SessionIds
  <2>2. /\ sessions'[p] = [sessions[p] EXCEPT !.state = "revoked"]
        /\ \A s \in SessionIds \ {p} : sessions'[s] = sessions[s]
    BY <1>2, <2>1 DEF RevokePresented, Typed
  <2>3. QED
    BY <1>2, <2>1, <2>2 DEF OnlyRevokes, RevokePresented, Typed, Session
<1>3. ASSUME NEW h \in Handlers, RevokeAll(h)
      PROVE  OnlyRevokes
  BY <1>3 DEF OnlyRevokes, RevokedByReuse, RevokeAll, Exists, Typed, Session
<1>4. ASSUME NEW s \in granted, Logout(s)
      PROVE  OnlyRevokes
  BY <1>4 DEF OnlyRevokes, Logout, Exists, Typed, Session
<1>5. QED
  BY <1>1, <1>2, <1>3, <1>4 DEF Next, Request, Continue, RegisterLookup, Login,
     RefreshLookup, ReuseDetected, CreateUser, CreateConflict, IssueTokens, IssueLost,
     Abort, Activate, vars

(* The row a request issues, beside those there were. *)
LEMMA InsertedSession ==
    ASSUME Typed, SessionInv, NEW h \in Handlers, pc[h] = "issue", InsertSession(h)
    PROVE  \E n \in SessionIds :
              /\ n = nextSession /\ ~Exists(n)
              /\ sessions'[n].state = "live"
              /\ sessions'[n].user = request[h].user /\ request[h].user \in Users
              /\ sessions'[n].parent = request[h].sid
              /\ request[h].sid < n
              /\ \A s \in SessionIds \ {n} : sessions'[s] = sessions[s]
<1>1. PICK n \in SessionIds : n = nextSession
  BY DEF InsertSession
<1>2. /\ sessions'[n] = [state |-> "live", user |-> request[h].user,
                         parent |-> request[h].sid, by |-> h]
      /\ \A s \in SessionIds \ {n} : sessions'[s] = sessions[s]
  BY <1>1 DEF InsertSession, Typed
<1>3. request[h].sid \in {0} \cup SessionIds /\ RequestInv(h)
  BY DEF Typed, SessionInv
<1>4. request[h].user \in Users
      /\ (request[h].sid # 0 => request[h].sid \in SessionIds /\ Exists(request[h].sid))
  BY <1>3 DEF RequestInv
<1>5. ~Exists(n) /\ (request[h].sid # 0 => request[h].sid < n)
  BY <1>1, <1>4 DEF SessionInv, RowsInOrder, SessionIds
<1>6. request[h].sid < n
  BY <1>3, <1>5, AuthAssumption DEF SessionIds
<1>7. /\ sessions'[n].state = "live"
      /\ sessions'[n].user = request[h].user
      /\ sessions'[n].parent = request[h].sid
  BY <1>2
<1>8. QED
  BY <1>1, <1>2, <1>4, <1>5, <1>6, <1>7

LEMMA OriginStep ==
    ASSUME Typed, SessionInv, OriginInv, [Next]_vars
    PROVE  OriginInv'
<1>1. SessionsHaveOrigin'
  <2>1. ASSUME NEW s \in SessionIds, Exists(s), sessions'[s].user = sessions[s].user,
               sessions'[s].parent = sessions[s].parent
        PROVE  /\ sessions'[s].user \in Users /\ accounts'[sessions'[s].user] # "NONE"
               /\ sessions'[s].parent < s
    BY <2>1, AccountsStay DEF OriginInv, SessionsHaveOrigin
  <2>2. CASE OnlyRevokes
    BY <2>1, <2>2, RevokingKeepsRows DEF OnlyRevokes, SessionsHaveOrigin
  <2>3. ASSUME NEW h \in Handlers, pc[h] = "issue", InsertSession(h),
               UNCHANGED accounts
        PROVE  SessionsHaveOrigin'
    <3>1. PICK n \in SessionIds :
              /\ sessions'[n].user = request[h].user /\ request[h].user \in Users
              /\ sessions'[n].parent = request[h].sid
              /\ request[h].sid < n
              /\ \A s \in SessionIds \ {n} : sessions'[s] = sessions[s]
      BY <2>3, InsertedSession
    <3>2. accounts'[request[h].user] # "NONE"
      BY <2>3 DEF OriginInv, RequestsHaveAccount
    <3>3. \A s \in SessionIds \ {n} : Exists(s)' => Exists(s)
      BY <3>1 DEF Exists
    <3>4. QED
      BY <2>1, <3>1, <3>2, <3>3 DEF SessionsHaveOrigin
  <2>4. QED
    BY <2>2, <2>3, SessionSteps
<1>2. RequestsHaveAccount'
  <2> SUFFICES ASSUME NEW h \in Handlers, pc'[h] \in {"revoke", "issue", "revokeAll"}
               PROVE  accounts'[request'[h].user] # "NONE"
    BY DEF RequestsHaveAccount
  <2>1. ASSUME pc[h] \in {"revoke", "issue", "revokeAll"}, request'[h] = request[h]
        PROVE  accounts'[request'[h].user] # "NONE"
    <3>1. request[h].user \in Users
      BY <2>1 DEF SessionInv, RequestInv
    <3>2. QED
      BY <2>1, <3>1, AccountsStay DEF OriginInv, RequestsHaveAccount
  <2>2. ASSUME NEW g \in Handlers, NEW u \in Users, RegisterLookup(g, u) \/ Login(g, u)
        PROVE  accounts'[request'[h].user] # "NONE"
    BY <2>1, <2>2 DEF RegisterLookup, Login, Goto, Hold, Typed
  <2>3. ASSUME NEW g \in Handlers, NEW s \in granted,
               RefreshLookup(g, s) \/ ReuseDetected(g, s)
        PROVE  accounts'[request'[h].user] # "NONE"
    <3>1. s \in SessionIds /\ Exists(s) /\ accounts' = accounts
      BY <2>3 DEF Typed, SessionInv, RowsInOrder, RefreshLookup, ReuseDetected
    <3>2. CASE g = h
      <4>1. request'[h].user = sessions[s].user
        BY <2>3, <3>2 DEF RefreshLookup, ReuseDetected, Hold, Typed
      <4>2. QED
        BY <3>1, <4>1 DEF OriginInv, SessionsHaveOrigin
    <3>3. CASE g # h
      BY <2>1, <2>3, <3>3 DEF RefreshLookup, ReuseDetected, Goto, Hold, Typed
    <3>4. QED
      BY <3>2, <3>3
  <2>4. ASSUME NEW g \in Handlers, CreateUser(g)
        PROVE  accounts'[request'[h].user] # "NONE"
    <3>1. CASE g = h
      <4>1. request[h].user \in Users
        BY <2>4, <3>1 DEF SessionInv, RequestInv, CreateUser, Goto
      <4>2. QED
        BY <2>4, <3>1, <4>1, AuthAssumption DEF CreateUser, Typed
    <3>2. CASE g # h
      BY <2>1, <2>4, <3>2 DEF CreateUser, Goto, Typed
    <3>3. QED
      BY <3>1, <3>2
  <2>5. ASSUME NEW g \in Handlers, RevokePresented(g)
        PROVE  accounts'[request'[h].user] # "NONE"
    BY <2>1, <2>5 DEF RevokePresented, Goto, Typed
  <2>6. ASSUME NEW g \in Handlers, Finish(g)
        PROVE  accounts'[request'[h].user] # "NONE"
    BY <2>1, <2>6 DEF Finish, Typed
  <2>7. ASSUME UNCHANGED <<pc, request>>
        PROVE  accounts'[request'[h].user] # "NONE"
    BY <2>1, <2>7
  <2>8. QED
    BY <2>2, <2>3, <2>4, <2>5, <2>6, <2>7 DEF Next, Request, Continue, CreateConflict,
       IssueTokens, IssueLost, RevokeAll, Abort, Logout, Activate, vars
<1>3. QED
  BY <1>1, <1>2 DEF OriginInv

(* No session without an account behind it, and the families that rotation *)
(* makes are trees: no lineage of refresh tokens leads back to itself.     *)
THEOREM SessionsComeFromAccounts == Spec => []SessionsHaveOrigin
<1>1. Init => OriginInv
  BY DEF Init, OriginInv, SessionsHaveOrigin, RequestsHaveAccount, Exists, NoSession
<1>2. Typed /\ SessionInv /\ OriginInv /\ [Next]_vars => OriginInv'
  BY OriginStep
<1>3. OriginInv => SessionsHaveOrigin
  BY DEF OriginInv
<1>4. QED
  BY <1>1, <1>2, <1>3, Inductive, PTL DEF Spec

-----------------------------------------------------------------------------
(* A single handler holds no session older than the last reuse detected of *)
(* its user while it is about to continue it.                              *)
FamilyInv ==
    /\ ReuseEndsFamily
    /\ \A h \in Handlers :
          pc[h] \in {"revoke", "issue"} /\ request[h].sid # 0 =>
              ~(request[h].sid < cutoff[request[h].user])

LEMMA FamilyStep ==
    ASSUME \A g, h \in Handlers : g = h, Typed, SessionInv, FamilyInv, [Next]_vars
    PROVE  FamilyInv'
<1>1. ReuseEndsFamily'
  <2>1. ASSUME NEW h \in Handlers, RevokeAll(h)
        PROVE  ReuseEndsFamily'
    <3> DEFINE u == request[h].user
    <3>1. OnlyRevokes
      BY <2>1 DEF OnlyRevokes, RevokedByReuse, RevokeAll, Exists, Typed, Session
    <3>2. u \in Users /\ cutoff' = [cutoff EXCEPT ![u] = nextSession]
      BY <2>1 DEF RevokeAll, SessionInv, RequestInv
    <3> SUFFICES ASSUME NEW s \in SessionIds, NEW p \in SessionIds, Child(s, p)',
                        p < cutoff'[sessions'[s].user]
                 PROVE  sessions'[s].state # "live"
      BY DEF ReuseEndsFamily
    <3>3. Child(s, p) /\ sessions'[s].user = sessions[s].user /\ sessions[s].user \in Users
      BY <3>1, RevokingKeepsRows DEF OnlyRevokes, SessionInv, RowsInOrder, Child
    <3>4. CASE sessions[s].user = u
      BY <2>1, <3>4 DEF RevokeAll, RevokedByReuse, Typed, Session
    <3>5. CASE sessions[s].user # u
      <4>1. sessions[s].state # "live"
        BY <3>2, <3>3, <3>5 DEF FamilyInv, ReuseEndsFamily, Typed
      <4>2. QED
        BY <3>1, <4>1 DEF OnlyRevokes
    <3>6. QED
      BY <3>4, <3>5
  <2>2. ASSUME OnlyRevokes, UNCHANGED cutoff
        PROVE  ReuseEndsFamily'
    <3>1. \A s, p \in SessionIds : Child(s, p)' => Child(s, p)
      BY <2>2, RevokingKeepsRows
    <3>2. QED
      BY <2>2, <3>1 DEF OnlyRevokes, FamilyInv, ReuseEndsFamily
  <2>3. ASSUME NEW h \in Handlers, pc[h] = "issue", InsertSession(h), UNCHANGED cutoff
        PROVE  ReuseEndsFamily'
    <3>1. PICK n \in SessionIds :
              /\ ~Exists(n)
              /\ sessions'[n].user = request[h].user
              /\ sessions'[n].parent = request[h].sid
              /\ \A s \in SessionIds \ {n} : sessions'[s] = sessions[s]
      BY <2>3, InsertedSession
    <3> SUFFICES ASSUME NEW s \in SessionIds, NEW p \in SessionIds, Child(s, p)',
                        p < cutoff'[sessions'[s].user]
                 PROVE  sessions'[s].state # "live"
      BY DEF ReuseEndsFamily
    <3>2. CASE s = n
      <4>1. p = request[h].sid /\ request[h].sid # 0
        BY <3>1, <3>2 DEF Child
      <4>2. ~(p < cutoff'[sessions'[s].user])
        BY <2>3, <3>1, <3>2, <4>1 DEF FamilyInv
      <4>3. QED
        BY <4>2
    <3>3. CASE s # n
      BY <2>3, <3>1, <3>3 DEF FamilyInv, ReuseEndsFamily, Child, Exists
    <3>4. QED
      BY <3>2, <3>3
  <2>4. CASE \E h \in Handlers : RevokeAll(h)
    BY <2>1, <2>4
  <2>5. CASE ~\E h \in Handlers : RevokeAll(h)
    <3>1. UNCHANGED cutoff
      BY <2>5 DEF Next, Request, Continue, RegisterLookup, Login, RefreshLookup,
         ReuseDetected, CreateUser, CreateConflict, RevokePresented, IssueTokens,
         IssueLost, Logout, Abort, Activate, vars
    <3>2. QED
      BY <2>2, <2>3, <3>1, SessionSteps
  <2>6. QED
    BY <2>4, <2>5
<1>2. ASSUME NEW h \in Handlers, pc'[h] \in {"revoke", "issue"}, request'[h].sid # 0
      PROVE  ~(request'[h].sid < cutoff'[request'[h].user])
  <2>1. ASSUME pc[h] \in {"revoke", "issue"}, request' = request, cutoff' = cutoff
        PROVE  ~(request'[h].sid < cutoff'[request'[h].user])
    BY <1>2, <2>1 DEF FamilyInv
  <2>2. ASSUME NEW s \in granted, RefreshLookup(h, s)
        PROVE  ~(request'[h].sid < cutoff'[request'[h].user])
    <3>1. s \in SessionIds /\ sessions[s].state = "live" /\ cutoff' = cutoff
      BY <2>2 DEF Typed, RefreshLookup
    <3>2. request'[h].sid = s /\ request'[h].user = sessions[s].user
      BY <2>2 DEF RefreshLookup, Hold, Typed
    <3>3. ~(s < cutoff[sessions[s].user])
      BY <3>1 DEF SessionInv, ReuseEndsEarlierSessions, Exists
    <3>4. QED
      BY <3>1, <3>2, <3>3
  <2>3. ASSUME NEW u \in Users, RegisterLookup(h, u) \/ Login(h, u)
        PROVE  FALSE
    BY <1>2, <2>3 DEF RegisterLookup, Login, Hold, Typed
  <2>4. ASSUME NEW s \in granted, ReuseDetected(h, s)
        PROVE  FALSE
    BY <1>2, <2>4 DEF ReuseDetected, Goto, Typed
  <2>5. ASSUME CreateUser(h)
        PROVE  FALSE
    BY <1>2, <2>5 DEF CreateUser, Goto, SessionInv, RequestInv
  <2>6. ASSUME Finish(h)
        PROVE  FALSE
    BY <1>2, <2>6 DEF Finish, Typed
  <2>7. ASSUME RevokePresented(h)
        PROVE  pc[h] \in {"revoke", "issue"} /\ request' = request /\ cutoff' = cutoff
    BY <2>7 DEF RevokePresented, Goto
  <2>8. ASSUME UNCHANGED <<pc, request, cutoff>>
        PROVE  pc[h] \in {"revoke", "issue"} /\ request' = request /\ cutoff' = cutoff
    BY <1>2, <2>8
  <2>9. QED
    BY <2>1, <2>2, <2>3, <2>4, <2>5, <2>6, <2>7, <2>8 DEF Next, Request, Continue,
       CreateConflict, IssueTokens, IssueLost, RevokeAll, Abort, Logout, Activate, vars
<1>3. QED
  BY <1>1, <1>2 DEF FamilyInv

(* ReuseEndsFamily needs overlapping requests to be violated: where they   *)
(* are handled one at a time, reuse does end the whole family, also with   *)
(* lost answers and requests that die half-way.                            *)
THEOREM ReuseEndsFamilyInOrder ==
    ASSUME \A g, h \in Handlers : g = h
    PROVE  Spec => []ReuseEndsFamily
<1>1. Init => FamilyInv
  BY DEF Init, FamilyInv, ReuseEndsFamily, Child, Exists, NoSession
<1>2. Typed /\ SessionInv /\ FamilyInv /\ [Next]_vars => FamilyInv'
  BY FamilyStep
<1>3. FamilyInv => ReuseEndsFamily
  BY DEF FamilyInv
<1>4. QED
  BY <1>1, <1>2, <1>3, Inductive, PTL DEF Spec
=============================================================================
