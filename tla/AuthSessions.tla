---------------------------- MODULE AuthSessions ----------------------------
(***************************************************************************)
(* Registration, login, refresh-token rotation, reuse detection and logout *)
(* of apps/api/src/auth/auth.service.ts, over the users and sessions       *)
(* tables.                                                                 *)
(*                                                                         *)
(* Requests are served by concurrent handlers; no method opens a database  *)
(* transaction, so other handlers run between any two of its statements.   *)
(* A refresh token is known by the session id it carries; a client can     *)
(* present the tokens that were handed out, each as often as it likes      *)
(* (retries, several tabs).  Tokens that do not verify, wrong passwords    *)
(* and unknown e-mail addresses change no state and are left out; so is    *)
(* the expiry of tokens.                                                   *)
(***************************************************************************)
EXTENDS Naturals, FiniteSets

CONSTANTS Users,          \* e-mail addresses, hence accounts
          NoUser,
          Handlers,       \* request handlers that may run at once
          NoHandler,
          InitialStatus,  \* of a new account: ACTIVE or PENDING (AUTH_AUTO_ACTIVATE)
          MaxSessions     \* bound: rows the sessions table gets in a behaviour

ASSUME AuthAssumption ==
    /\ MaxSessions \in Nat
    /\ NoUser \notin Users
    /\ NoHandler \notin Handlers
    /\ InitialStatus \in {"ACTIVE", "PENDING"}

VARIABLES
    accounts,     \* users: status by e-mail address, "NONE" if there is no row
    sessions,     \* sessions, by id; ids are used in the order of insertion
    nextSession,  \* the next id
    granted,      \* ids of the sessions whose refresh token a client holds
    pc,           \* where each handler is
    request,      \* the user it works for, and the session that was presented
    cutoff        \* history: ids below it existed when reuse was last detected

vars == <<accounts, sessions, nextSession, granted, pc, request, cutoff>>

SessionIds == 1 .. MaxSessions

\* "parent" and "by" are history: the session a refresh spent, and its handler
Session ==
    [state : {"none", "live", "revoked"}, user : Users \cup {NoUser},
     parent : {0} \cup SessionIds, by : Handlers \cup {NoHandler}]

NoSession == [state |-> "none", user |-> NoUser, parent |-> 0, by |-> NoHandler]

NoRequest == [user |-> NoUser, sid |-> 0]

Exists(s) == sessions[s].state # "none"

-----------------------------------------------------------------------------

Goto(h, from, to) == pc[h] = from /\ pc' = [pc EXCEPT ![h] = to]

\* the request is answered or lost, and what the handler held with it
Finish(h) ==
    /\ pc' = [pc EXCEPT ![h] = "idle"]
    /\ request' = [request EXCEPT ![h] = NoRequest]

Hold(h, user, sid) == request' = [request EXCEPT ![h] = [user |-> user, sid |-> sid]]

Init ==
    /\ accounts = [u \in Users |-> "NONE"]
    /\ sessions = [s \in SessionIds |-> NoSession]
    /\ nextSession = 1
    /\ granted = {}
    /\ pc = [h \in Handlers |-> "idle"]
    /\ request = [h \in Handlers |-> NoRequest]
    /\ cutoff = [u \in Users |-> 1]

(* register: no user has this e-mail address yet. *)
RegisterLookup(h, u) ==
    /\ accounts[u] = "NONE"
    /\ Goto(h, "idle", "create")
    /\ Hold(h, u, 0)
    /\ UNCHANGED <<accounts, sessions, nextSession, granted, cutoff>>

(* register: user.create; tokens are issued whatever the status is. *)
CreateUser(h) ==
    /\ Goto(h, "create", "issue")
    /\ accounts[request[h].user] = "NONE"
    /\ accounts' = [accounts EXCEPT ![request[h].user] = InitialStatus]
    /\ UNCHANGED <<sessions, nextSession, granted, request, cutoff>>

(* register: another request took the address in between; the unique index *)
(* refuses the insert.                                                     *)
CreateConflict(h) ==
    /\ pc[h] = "create"
    /\ accounts[request[h].user] # "NONE"
    /\ Finish(h)
    /\ UNCHANGED <<accounts, sessions, nextSession, granted, cutoff>>

(* Nothing in the repository activates a PENDING account: an operator does *)
(* (external).                                                             *)
Activate(u) ==
    /\ accounts[u] = "PENDING"
    /\ accounts' = [accounts EXCEPT ![u] = "ACTIVE"]
    /\ UNCHANGED <<sessions, nextSession, granted, pc, request, cutoff>>

(* login: the password is right and the account is ACTIVE. *)
Login(h, u) ==
    /\ accounts[u] = "ACTIVE"
    /\ Goto(h, "idle", "issue")
    /\ Hold(h, u, 0)
    /\ UNCHANGED <<accounts, sessions, nextSession, granted, cutoff>>

(* mutant: a session found revoked is refreshed like any other *)
RefreshLookupUnchecked(h, s) ==
    /\ Exists(s)
    /\ Goto(h, "idle", "revoke")
    /\ Hold(h, sessions[s].user, s)
    /\ UNCHANGED <<accounts, sessions, nextSession, granted, cutoff>>

(* mutant: the rotation forgets to revoke the session it spends *)
RefreshLookupNoRevoke(h, s) ==
    /\ sessions[s].state = "live"
    /\ Goto(h, "idle", "issue")
    /\ Hold(h, sessions[s].user, s)
    /\ UNCHANGED <<accounts, sessions, nextSession, granted, cutoff>>

(* refresh: session.findUnique finds the presented session live. *)
RefreshLookup(h, s) ==
    /\ sessions[s].state = "live"
    /\ Goto(h, "idle", "revoke")
    /\ Hold(h, sessions[s].user, s)
    /\ UNCHANGED <<accounts, sessions, nextSession, granted, cutoff>>

(* refresh: session.findUnique finds it revoked; reuse is assumed. *)
ReuseDetected(h, s) ==
    /\ sessions[s].state = "revoked"
    /\ Goto(h, "idle", "revokeAll")
    /\ Hold(h, sessions[s].user, s)
    /\ UNCHANGED <<accounts, sessions, nextSession, granted, cutoff>>

(* refresh: session.update sets revokedAt, whatever it is by now. *)
RevokePresented(h) ==
    /\ Goto(h, "revoke", "issue")
    /\ sessions' = [sessions EXCEPT ![request[h].sid].state = "revoked"]
    /\ UNCHANGED <<accounts, nextSession, granted, request, cutoff>>

(* issueTokens: session.create. *)
InsertSession(h) ==
    /\ nextSession \in SessionIds
    /\ sessions' = [sessions EXCEPT ![nextSession] =
          [state |-> "live", user |-> request[h].user,
           parent |-> request[h].sid, by |-> h]]
    /\ nextSession' = nextSession + 1

(* issueTokens, and the answer with both tokens arrives. *)
IssueTokens(h) ==
    /\ pc[h] = "issue"
    /\ InsertSession(h)
    /\ granted' = granted \cup {nextSession}
    /\ Finish(h)
    /\ UNCHANGED <<accounts, cutoff>>

(* issueTokens, and the answer is lost: nobody holds the new token. *)
IssueLost(h) ==
    /\ pc[h] = "issue"
    /\ InsertSession(h)
    /\ Finish(h)
    /\ UNCHANGED <<accounts, granted, cutoff>>

(* mutant: only the presented session is revoked on reuse *)
RevokedByReusePresented(h, s) == s = request[h].sid

(* mutant: the where clause of revokeAllSessionsForUser loses its userId *)
RevokedByReuseAnyone(h, s) == Exists(s)

(* where: { userId, revokedAt: null } *)
RevokedByReuse(h, s) ==
    sessions[s].user = request[h].user /\ sessions[s].state = "live"

(* refresh: revokeAllSessionsForUser, then "refresh_reuse". *)
RevokeAll(h) ==
    /\ pc[h] = "revokeAll"
    /\ sessions' = [s \in SessionIds |->
          IF RevokedByReuse(h, s)
          THEN [sessions[s] EXCEPT !.state = "revoked"]
          ELSE sessions[s]]
    /\ cutoff' = [cutoff EXCEPT ![request[h].user] = nextSession]
    /\ Finish(h)
    /\ UNCHANGED <<accounts, nextSession, granted>>

(* mutant: logout deletes the row where it should set revokedAt *)
LogoutDeletes(s) ==
    /\ sessions[s].state = "live"
    /\ sessions' = [sessions EXCEPT ![s] = NoSession]
    /\ UNCHANGED <<accounts, nextSession, granted, pc, request, cutoff>>

(* logout: one updateMany on the presented session. *)
Logout(s) ==
    /\ sessions[s].state = "live"
    /\ sessions' = [sessions EXCEPT ![s].state = "revoked"]
    /\ UNCHANGED <<accounts, nextSession, granted, pc, request, cutoff>>

(* A statement fails or the process dies: the rest does not happen. *)
Abort(h) ==
    /\ pc[h] # "idle"
    /\ Finish(h)
    /\ UNCHANGED <<accounts, sessions, nextSession, granted, cutoff>>

Request(h) ==
    \/ \E u \in Users : RegisterLookup(h, u) \/ Login(h, u)
    \/ \E s \in granted : RefreshLookup(h, s) \/ ReuseDetected(h, s)

Continue(h) ==
    \/ CreateUser(h)
    \/ CreateConflict(h)
    \/ RevokePresented(h)
    \/ IssueTokens(h)
    \/ IssueLost(h)
    \/ RevokeAll(h)
    \/ Abort(h)

Next ==
    \/ \E h \in Handlers : Request(h) \/ Continue(h)
    \/ \E s \in granted : Logout(s)
    \/ \E u \in Users : Activate(u)

Spec == Init /\ [][Next]_vars

-----------------------------------------------------------------------------
(* Properties *)

PCs == {"idle", "create", "revoke", "issue", "revokeAll"}

(* Every variable has its type. *)
Typed ==
    /\ accounts \in [Users -> {"NONE", "PENDING", "ACTIVE"}]
    /\ sessions \in [SessionIds -> Session]
    /\ nextSession \in 1 .. MaxSessions + 1
    /\ granted \subseteq SessionIds
    /\ pc \in [Handlers -> PCs]
    /\ request \in [Handlers -> [user : Users \cup {NoUser}, sid : {0} \cup SessionIds]]
    /\ cutoff \in [Users -> 1 .. MaxSessions + 1]

(* Every variable holds what its table or its handler can hold, and the    *)
(* sessions are the rows inserted so far: none is ever removed, so that a  *)
(* spent or logged out token is still found, and known to be revoked.      *)
TypeOK == Typed /\ \A s \in SessionIds : Exists(s) <=> s < nextSession

Child(s, p) == Exists(s) /\ p # 0 /\ sessions[s].parent = p

(* Rotation: whatever requests interleave with a refresh, a session issued *)
(* for a refresh token exists only beside its spent predecessor, which is  *)
(* revoked, and belongs to the same user.                                  *)
RotationSpendsParent ==
    \A s, p \in SessionIds :
        Child(s, p) =>
            sessions[p].state = "revoked" /\ sessions[p].user = sessions[s].user

(* A refresh token is honoured more than once only by requests that were   *)
(* being served at the same time: the successors of a session come from    *)
(* different handlers, never from one handler at two times.                *)
SpentOncePerHandler ==
    \A s, t, p \in SessionIds :
        Child(s, p) /\ Child(t, p) /\ sessions[s].by = sessions[t].by => s = t

(* Once reuse has been detected for a user, no session that existed then   *)
(* is live again, by any later request.                                    *)
ReuseEndsEarlierSessions ==
    \A s \in SessionIds :
        Exists(s) /\ s < cutoff[sessions[s].user] => sessions[s].state = "revoked"

EndedIn(s) == sessions[s].state = "live" /\ sessions'[s].state = "revoked"

(* Several sessions end in one step only for one user, and only if that    *)
(* user had a session that was spent before: somebody else's token, or a   *)
(* first use, never costs a user all sessions.                             *)
MassRevocationNeedsReuse ==
    [][\A s, t \in SessionIds :
          EndedIn(s) /\ EndedIn(t) /\ s # t =>
              /\ sessions[s].user = sessions[t].user
              /\ \E p \in SessionIds :
                    sessions[p].state = "revoked" /\ sessions[p].user = sessions[s].user
      ]_vars

(* README.md:36, "reuse revokes all sessions for the user": after reuse,   *)
(* no live session continues one that existed when it was detected.        *)
ReuseEndsFamily ==
    \A s, p \in SessionIds :
        Child(s, p) /\ p < cutoff[sessions[s].user] => sessions[s].state # "live"
=============================================================================
