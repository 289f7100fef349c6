------------------------------- MODULE Access -------------------------------
(***************************************************************************)
(* Who gets in, who reads what, and what the audit trail knows of it:      *)
(* logins and tokens (app/api/v1/auth.py, app/services/auth,               *)
(* app/core/security.py, app/dependencies.py), downloads of the original   *)
(* file (app/api/v1/documents.py) and the read-only endpoints, as          *)
(* concurrent requests with one transaction each.                          *)
(*                                                                         *)
(* FastAPI 0.115 leaves the session's context manager, which commits,      *)
(* before it sends the response.  A slot serves one request after the      *)
(* other, so the number of requests is not bounded.                        *)
(***************************************************************************)
EXTENDS Schema, Naturals, FiniteSets

CONSTANTS
    Users,       \* e-mail addresses that somebody may have an account for
    Documents,   \* rows of documents
    Requests,    \* slots of the server
    Lifetime,    \* jwt_access_token_expire_minutes, in ticks
    Failures     \* what may go wrong while a request is served

FailureKinds ==
    {"statement",   \* a statement or the commit fails in the database
     "audit",       \* the INSERT of the audit event fails
     "storage",     \* the file cannot be read
     "kill"}        \* the API process dies

ASSUME AccessAssumption ==
    /\ Lifetime \in Nat \ {0}
    /\ Failures \subseteq FailureKinds
    /\ Absent \notin Documents

VARIABLES
    userStatus,   \* the row of a user: none, or users.is_active
    token,        \* what is left of the freshest token a user holds
    \* per slot: the request, and
    pc,           \* what is done next
    request,
    verdict,      \* HTTP status the handler is about to answer with
    minted,       \* what is left of the token in the response
    event,        \* audit event, flushed and not committed
    trail         \* audit events of this request, committed

vars == <<userStatus, token, pc, request, verdict, minted, event, trail>>

UserStatus == {Absent, "active", "inactive"}

\* password: it matches the hash of the user, if there is one.
Request ==
    [kind : {"login"}, user : Users, password : BOOLEAN]
      \cup [kind : {"refresh", "me", "query"}, user : Users]
      \cup [kind : {"file"}, user : Users,
            document : Documents \cup {Absent}]

AuditLog ==
    [event_type : {"auth.login", "document.file_accessed"}, actor : Users,
     status : AuditEventStatus, document_id : Documents \cup {Absent}]

Serving == {"authorize", "handle", "audit", "commit", "respond"}
\* 0: no answer yet, or none ever.
Verdict == {0, 200, 401, 404, 500}

AccessTypeOK ==
    /\ userStatus \in [Users -> UserStatus]
    /\ token \in [Users -> 0 .. Lifetime]
    /\ pc \in [Requests -> {"idle", "done"} \cup Serving]
    /\ request \in [Requests -> Request]
    /\ verdict \in [Requests -> Verdict]
    /\ minted \in [Requests -> 0 .. Lifetime]
    /\ event \in [Requests -> SUBSET AuditLog]
    /\ trail \in [Requests -> SUBSET AuditLog]

Init ==
    /\ userStatus \in [Users -> {Absent, "active"}]
    /\ token = [u \in Users |-> 0]
    /\ pc = [r \in Requests |-> "idle"]
    /\ request \in [Requests -> {[kind |-> "me", user |-> u] : u \in Users}]
    /\ verdict = [r \in Requests |-> 0]
    /\ minted = [r \in Requests |-> 0]
    /\ event = [r \in Requests |-> {}]
    /\ trail = [r \in Requests |-> {}]
-----------------------------------------------------------------------------
User(r) == request[r].user
Kind(r) == request[r].kind

\* The handler of slot r goes on with next; it will answer v, its response
\* carries a token of life m, and its transaction has written e.
Goes(r, next, v, m, e) ==
    /\ pc' = [pc EXCEPT ![r] = next]
    /\ verdict' = [verdict EXCEPT ![r] = v]
    /\ minted' = [minted EXCEPT ![r] = m]
    /\ event' = [event EXCEPT ![r] = e]

\* The transaction is rolled back and the client gets the error v.
Raises(r, v) ==
    /\ Goes(r, "respond", v, 0, {})
    /\ UNCHANGED <<userStatus, token, request, trail>>

Receive(r) ==
    \E q \in Request :
        /\ pc[r] \in {"idle", "done"}
        /\ request' = [request EXCEPT ![r] = q]
        /\ trail' = [trail EXCEPT ![r] = {}]
        /\ Goes(r, IF q.kind = "login" THEN "handle" ELSE "authorize", 0, 0, {})
        /\ UNCHANGED <<userStatus, token>>

\* get_current_user: the signature and the expiry of the token, and nothing of
\* the row of the user.
Authorize(r) ==
    /\ pc[r] = "authorize"
    /\ token[User(r)] > 0
    /\ Goes(r, "handle", 0, 0, {})
    /\ UNCHANGED <<userStatus, token, request, trail>>

\* No token, or one that has expired.
Unauthorized(r) == pc[r] = "authorize" /\ Raises(r, 401)
-----------------------------------------------------------------------------
(***************************************************************************)
(* POST /auth/login.                                                       *)
(***************************************************************************)
\* Mutant: the status of the event is no audit event status.
LoginEventFailed(r, status) ==
    [event_type |-> "auth.login", actor |-> User(r),
     status |-> IF status = "failure" THEN "failed" ELSE status,
     document_id |-> Absent]

\* log_security_event has no document.
LoginEvent(r, status) ==
    [event_type |-> "auth.login", actor |-> User(r), status |-> status,
     document_id |-> Absent]

\* authenticate: unknown address, wrong password and inactive user fail alike.
Authenticate(r) ==
    LET ok == userStatus[User(r)] = "active" /\ request[r].password IN
    /\ pc[r] = "handle" /\ Kind(r) = "login"
    /\ Goes(r, "audit", IF ok THEN 200 ELSE 401, 0,
            {LoginEvent(r, IF ok THEN "success" ELSE "failure")})
    /\ UNCHANGED <<userStatus, token, request, trail>>
-----------------------------------------------------------------------------
(***************************************************************************)
(* POST /auth/refresh, GET /auth/me, and the endpoints that only read.     *)
(***************************************************************************)
\* Mutant: the token is taken for the user.
RefreshUnchecked(r) ==
    /\ pc[r] = "handle" /\ Kind(r) = "refresh"
    /\ Goes(r, "commit", 200, Lifetime, {})
    /\ UNCHANGED <<userStatus, token, request, trail>>

Refresh(r) ==
    /\ pc[r] = "handle" /\ Kind(r) = "refresh"
    /\ userStatus[User(r)] = "active"
    /\ Goes(r, "commit", 200, Lifetime, {})
    /\ UNCHANGED <<userStatus, token, request, trail>>

Me(r) ==
    /\ pc[r] = "handle" /\ Kind(r) = "me"
    /\ userStatus[User(r)] = "active"
    /\ Goes(r, "commit", 200, 0, {})
    /\ UNCHANGED <<userStatus, token, request, trail>>

\* "User no longer active".
NoLongerActive(r) ==
    /\ pc[r] = "handle" /\ Kind(r) \in {"refresh", "me"}
    /\ userStatus[User(r)] # "active"
    /\ Raises(r, 401)

\* One row, or a page and its total: the row may not exist.
Query(r) ==
    /\ pc[r] = "handle" /\ Kind(r) = "query"
    /\ \/ /\ Goes(r, "commit", 200, 0, {})
          /\ UNCHANGED <<userStatus, token, request, trail>>
       \/ Raises(r, 404)
-----------------------------------------------------------------------------
(***************************************************************************)
(* GET /documents/{document_id}/file.                                      *)
(***************************************************************************)
\* Mutant: the event of a missing file is written by log_security_event.
FileEventOfSecurity(r, status) ==
    [event_type |-> "document.file_accessed", actor |-> User(r),
     status |-> status,
     document_id |-> IF status = "failure" THEN Absent ELSE request[r].document]

FileEvent(r, status) ==
    [event_type |-> "document.file_accessed", actor |-> User(r),
     status |-> status, document_id |-> request[r].document]

DocumentNotFound(r) ==
    /\ pc[r] = "handle" /\ Kind(r) = "file"
    /\ request[r].document = Absent
    /\ Raises(r, 404)

\* storage.load returns the bytes, or finds no file.
LoadFile(r) ==
    \E found \in BOOLEAN :
        /\ pc[r] = "handle" /\ Kind(r) = "file"
        /\ request[r].document # Absent
        /\ Goes(r, "audit", IF found THEN 200 ELSE 404, 0,
                {FileEvent(r, IF found THEN "success" ELSE "failure")})
        /\ UNCHANGED <<userStatus, token, request, trail>>

\* Any other OSError.
StorageFails(r) ==
    /\ "storage" \in Failures
    /\ pc[r] = "handle" /\ Kind(r) = "file"
    /\ request[r].document # Absent
    /\ Raises(r, 500)
-----------------------------------------------------------------------------
(***************************************************************************)
(* The end of a request.                                                   *)
(***************************************************************************)
\* AuditLogger.log flushes the event; login then mints its token.
WriteEvent(r) ==
    /\ pc[r] = "audit"
    /\ Goes(r, "commit", verdict[r],
            IF Kind(r) = "login" /\ verdict[r] = 200 THEN Lifetime ELSE 0,
            event[r])
    /\ UNCHANGED <<userStatus, token, request, trail>>

\* log() swallows the error, but the session can no longer commit: its
\* PendingRollbackError takes the place of the answer.
AuditFails(r) ==
    /\ "audit" \in Failures
    /\ pc[r] = "audit"
    /\ Raises(r, 500)

\* Mutant: without db.commit() before the exception.
CommitAnswers(r) ==
    /\ pc[r] = "commit"
    /\ trail' = [trail EXCEPT ![r] = IF verdict[r] = 200 THEN event[r] ELSE {}]
    /\ Goes(r, "respond", verdict[r], minted[r], {})
    /\ UNCHANGED <<userStatus, token, request>>

\* get_db_session commits, or the handler does before it raises 401 or 404.
Commit(r) ==
    /\ pc[r] = "commit"
    /\ trail' = [trail EXCEPT ![r] = event[r]]
    /\ Goes(r, "respond", verdict[r], minted[r], {})
    /\ UNCHANGED <<userStatus, token, request>>

StatementFails(r) ==
    /\ "statement" \in Failures
    /\ pc[r] \in {"handle", "audit", "commit"}
    /\ Raises(r, 500)

\* The client gets the answer, and the token in it.
Respond(r) ==
    /\ pc[r] = "respond"
    /\ token' = [token EXCEPT ![User(r)] = IF minted[r] > @ THEN minted[r] ELSE @]
    /\ Goes(r, "done", verdict[r], 0, {})
    /\ UNCHANGED <<userStatus, request, trail>>

\* What was not committed is lost, and so is the answer.
ProcessDies(r) ==
    /\ "kill" \in Failures
    /\ pc[r] \in Serving
    /\ Goes(r, "done", 0, 0, {})
    /\ UNCHANGED <<userStatus, token, request, trail>>

Serve(r) ==
    \/ Authorize(r) \/ Unauthorized(r)
    \/ Authenticate(r) \/ Refresh(r) \/ Me(r) \/ NoLongerActive(r) \/ Query(r)
    \/ DocumentNotFound(r) \/ LoadFile(r) \/ StorageFails(r)
    \/ WriteEvent(r) \/ AuditFails(r) \/ Commit(r) \/ StatementFails(r)
    \/ Respond(r) \/ ProcessDies(r)
-----------------------------------------------------------------------------
(***************************************************************************)
(* What happens outside the requests.                                      *)
(***************************************************************************)
\* UserService.create, called by the bootstrap script.
CreateUser(u) ==
    /\ userStatus[u] = Absent
    /\ userStatus' = [userStatus EXCEPT ![u] = "active"]
    /\ UNCHANGED <<token, pc, request, verdict, minted, event, trail>>

\* An administrator clears users.is_active.
Deactivate(u) ==
    /\ userStatus[u] = "active"
    /\ userStatus' = [userStatus EXCEPT ![u] = "inactive"]
    /\ UNCHANGED <<token, pc, request, verdict, minted, event, trail>>

Older(life) == IF life > 0 THEN life - 1 ELSE 0

\* Time passes: the expiry of every token comes nearer, also of one that its
\* client has not received yet.
Tick ==
    /\ token' = [u \in Users |-> Older(token[u])]
    /\ minted' = [r \in Requests |-> Older(minted[r])]
    /\ UNCHANGED <<userStatus, pc, request, verdict, event, trail>>

Next ==
    \/ \E r \in Requests : Receive(r) \/ Serve(r)
    \/ \E u \in Users : CreateUser(u) \/ Deactivate(u)
    \/ Tick

Spec == Init /\ [][Next]_vars

\* Time passes and the server goes on with what it has received.
FairSpec ==
    /\ Spec
    /\ WF_vars(Tick)
    /\ \A r \in Requests : WF_vars(Serve(r))
-----------------------------------------------------------------------------
(***************************************************************************)
(* Properties.                                                             *)
(***************************************************************************)
Answered(r, kind, v) == pc[r] = "done" /\ Kind(r) = kind /\ verdict[r] = v

\* The audit trail has every login that succeeded and every one that was
\* refused, although the refusal is an exception that rolls the transaction of
\* the request back, and none that did not take place (auth.py:56-63,
\* user_service.py:42-65).
LoginsAreAudited ==
    \A r \in Requests :
        /\ Answered(r, "login", 200) => trail[r] = {LoginEvent(r, "success")}
        /\ Answered(r, "login", 401) => trail[r] = {LoginEvent(r, "failure")}
        /\ Answered(r, "login", 500) => trail[r] = {}

\* GET /audit/document/{document_id}: of the events of r.
AuditTrail(r, d) == {e \in trail[r] : e.document_id = d}

\* "Recorded as a document.file_accessed security event so any download is
\* visible in the audit trail" (documents.py:155-156), and under the document
\* itself, even when the file was missing (documents.py:170-171).
DownloadsAreAudited ==
    \A r \in Requests :
        /\ Answered(r, "file", 200) =>
              \E e \in AuditTrail(r, request[r].document) :
                  e.status = "success" /\ e.actor = User(r)
        /\ Answered(r, "file", 404) /\ request[r].document # Absent =>
              \E e \in AuditTrail(r, request[r].document) :
                  e.status = "failure" /\ e.actor = User(r)

\* A user who has been deactivated is locked out in the end: the tokens minted
\* before, and those of requests that had already read the user's row, expire,
\* and no chain of refreshes prolongs them (auth.py:94-100).
AccessEnds ==
    \A u \in Users : userStatus[u] = "inactive" ~> [](token[u] = 0)
-----------------------------------------------------------------------------
(***************************************************************************)
(* Why the audit trail is complete: between two steps of a request, what   *)
(* its handler has written and what has been committed of it.              *)
(***************************************************************************)
\* The answers of which an event is written.
IsLogged(r) ==
    \/ Kind(r) = "login" /\ verdict[r] \in {200, 401}
    \/ /\ Kind(r) = "file" /\ verdict[r] \in {200, 404}
       /\ request[r].document # Absent

\* That event.
EventsOf(r) ==
    LET status == IF verdict[r] = 200 THEN "success" ELSE "failure" IN
    IF ~IsLogged(r) THEN {}
    ELSE IF Kind(r) = "login" THEN {LoginEvent(r, status)}
    ELSE {FileEvent(r, status)}

\* The transaction of r has written what the answer calls for, and nothing has
\* been committed yet; a login is served without a token.
BeforeCommit(r) ==
    /\ pc[r] \in {"authorize", "handle", "audit", "commit"} => trail[r] = {}
    /\ pc[r] \in {"audit", "commit"} => event[r] = EventsOf(r)
    /\ pc[r] \in {"audit", "commit"} /\ Kind(r) \in {"login", "file"} => IsLogged(r)
    /\ pc[r] = "authorize" => Kind(r) # "login"

\* What is committed is what the answer calls for, and no file is handed out
\* without it.  Of a request that got no answer the event may be there or not.
AfterCommit(r) ==
    pc[r] \in {"respond", "done"} /\ verdict[r] # 0 =>
        /\ trail[r] = EventsOf(r)
        /\ Kind(r) = "file" /\ verdict[r] = 200 => IsLogged(r)

AccessInv == \A r \in Requests : BeforeCommit(r) /\ AfterCommit(r)
=============================================================================
