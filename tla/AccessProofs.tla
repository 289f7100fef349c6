---------------------------- MODULE AccessProofs ----------------------------
(***************************************************************************)
(* Logins and downloads are on the audit trail, for any number of users,   *)
(* documents and concurrent requests and whatever fails.                   *)
(***************************************************************************)
EXTENDS Access, TLAPS

\* The audit event of a login or of a download has the columns of its table.
LEMMA EventTypes ==
    ASSUME AccessTypeOK, NEW r \in Requests, NEW status \in {"success", "failure"}
    PROVE  /\ Kind(r) = "login" => LoginEvent(r, status) \in AuditLog
           /\ Kind(r) = "file" => FileEvent(r, status) \in AuditLog
  <1>1. request[r] \in Request
    BY DEF AccessTypeOK
  <1>2. ASSUME Kind(r) = "login"
        PROVE  LoginEvent(r, status) \in AuditLog
    BY <1>1, <1>2 DEF Request, AuditLog, AuditEventStatus, LoginEvent, Kind, User
  <1>3. ASSUME Kind(r) = "file"
        PROVE  FileEvent(r, status) \in AuditLog
    BY <1>1, <1>3 DEF Request, AuditLog, AuditEventStatus, FileEvent, Kind, User
  <1>. QED BY <1>2, <1>3

\* A handler that goes on with values of their types keeps the types.
LEMMA GoesTypes ==
    ASSUME AccessTypeOK, NEW r \in Requests,
           NEW next \in {"idle", "done"} \cup Serving, NEW v \in Verdict,
           NEW m \in 0 .. Lifetime, NEW e \in SUBSET AuditLog,
           Goes(r, next, v, m, e)
    PROVE  /\ pc' \in [Requests -> {"idle", "done"} \cup Serving]
           /\ verdict' \in [Requests -> Verdict]
           /\ minted' \in [Requests -> 0 .. Lifetime]
           /\ event' \in [Requests -> SUBSET AuditLog]
           /\ pc'[r] = next /\ verdict'[r] = v /\ event'[r] = e
  BY DEF Goes, AccessTypeOK

\* What a handler that raises leaves behind: no event, and nothing committed
\* that had not been committed.
LEMMA RaisesTypes ==
    ASSUME AccessTypeOK, NEW r \in Requests, NEW v \in Verdict, Raises(r, v)
    PROVE  AccessTypeOK'
  <1>1. "respond" \in {"idle", "done"} \cup Serving /\ 0 \in 0 .. Lifetime
    BY AccessAssumption DEF Serving
  <1>2. Goes(r, "respond", v, 0, {}) /\ {} \in SUBSET AuditLog
    BY DEF Raises
  <1>. HIDE DEF Goes
  <1>3. /\ pc' \in [Requests -> {"idle", "done"} \cup Serving]
        /\ verdict' \in [Requests -> Verdict]
        /\ minted' \in [Requests -> 0 .. Lifetime]
        /\ event' \in [Requests -> SUBSET AuditLog]
    BY ONLY AccessTypeOK, r \in Requests, v \in Verdict, <1>1, <1>2, GoesTypes
  <1>. QED BY <1>3 DEF Raises, AccessTypeOK

\* The state of a slot is its own: a step of r leaves what is claimed of the
\* other slots alone.
LEMMA OneSlot ==
    ASSUME AccessTypeOK, AccessInv, NEW r \in Requests,
           NEW next, NEW v, NEW m, NEW e, Goes(r, next, v, m, e),
           \A q \in Requests \ {r} :
               trail'[q] = trail[q] /\ request'[q] = request[q],
           \A q \in {r} : BeforeCommit(q)' /\ AfterCommit(q)'
    PROVE  AccessInv'
  <1>1. ASSUME NEW q \in Requests \ {r}
        PROVE  /\ pc'[q] = pc[q] /\ verdict'[q] = verdict[q]
               /\ event'[q] = event[q] /\ trail'[q] = trail[q]
               /\ request'[q] = request[q]
    BY <1>1 DEF Goes, AccessTypeOK
  <1>2. ASSUME NEW q \in Requests \ {r}
        PROVE  BeforeCommit(q)' /\ AfterCommit(q)'
    <2>1. BeforeCommit(q) /\ AfterCommit(q)
      BY DEF AccessInv
    <2>2. IsLogged(q)' <=> IsLogged(q)
      BY <1>1 DEF IsLogged, Kind
    <2>3. /\ Kind(q)' = Kind(q)
          /\ LoginEvent(q, "success")' = LoginEvent(q, "success")
          /\ LoginEvent(q, "failure")' = LoginEvent(q, "failure")
          /\ FileEvent(q, "success")' = FileEvent(q, "success")
          /\ FileEvent(q, "failure")' = FileEvent(q, "failure")
      BY <1>1 DEF Kind, LoginEvent, FileEvent, User
    <2>4. EventsOf(q)' = EventsOf(q)
      <3>1. CASE verdict[q] = 200
        BY <1>1, <2>2, <2>3, <3>1 DEF EventsOf
      <3>2. CASE verdict[q] # 200
        BY <1>1, <2>2, <2>3, <3>2 DEF EventsOf
      <3>. QED BY <3>1, <3>2
    <2>. QED BY <2>1, <2>2, <2>3, <2>4, <1>1 DEF BeforeCommit, AfterCommit
  <1>3. \A q \in Requests : (q \in {r}) \/ (q \in Requests \ {r})
    OBVIOUS
  <1>4. \A q \in Requests \ {r} : BeforeCommit(q)' /\ AfterCommit(q)'
    BY <1>2
  <1>5. \A q \in Requests : BeforeCommit(q)' /\ AfterCommit(q)'
    BY <1>3, <1>4
  <1>. QED BY <1>5 DEF AccessInv

\* A handler that has written and committed nothing, and raises what is no
\* answer to be logged, leaves the trail complete.
LEMMA RaisesInv ==
    ASSUME AccessTypeOK, AccessInv, NEW r \in Requests,
           NEW v \in {401, 404, 500}, Raises(r, v),
           trail[r] = {}, v # 500 => ~IsLogged(r)'
    PROVE  AccessInv'
  <1>1. /\ pc'[r] = "respond" /\ verdict'[r] = v /\ trail'[r] = trail[r]
        /\ request' = request /\ trail' = trail
    BY DEF Raises, Goes, AccessTypeOK
  <1>2. ~IsLogged(r)'
    BY <1>1 DEF IsLogged
  <1>3. ASSUME NEW q \in {r}
        PROVE  BeforeCommit(q)' /\ AfterCommit(q)'
    BY <1>1, <1>2 DEF BeforeCommit, AfterCommit, EventsOf, IsLogged
  <1>4. Goes(r, "respond", v, 0, {})
    BY DEF Raises
  <1>. QED BY <1>1, <1>3, <1>4, OneSlot

\* Every step of a request keeps the types.
LEMMA ServeTypes ==
    ASSUME AccessTypeOK, NEW r \in Requests, Serve(r)
    PROVE  AccessTypeOK'
  <1>1. /\ {"handle", "audit", "commit", "respond", "done"}
              \subseteq {"idle", "done"} \cup Serving
        /\ {0, 200, 401, 404, 500} \subseteq Verdict
        /\ {0, Lifetime} \subseteq 0 .. Lifetime
    BY AccessAssumption DEF Serving, Verdict
  <1>2. /\ verdict[r] \in Verdict /\ minted[r] \in 0 .. Lifetime
        /\ event[r] \in SUBSET AuditLog
    BY DEF AccessTypeOK
  <1>3. ASSUME NEW next \in {"handle", "audit", "commit", "respond", "done"},
               NEW v \in Verdict, NEW m \in 0 .. Lifetime,
               NEW e \in SUBSET AuditLog, Goes(r, next, v, m, e),
               UNCHANGED <<userStatus, request>>,
               token' \in [Users -> 0 .. Lifetime],
               trail' \in [Requests -> SUBSET AuditLog]
        PROVE  AccessTypeOK'
    <2>1. next \in {"idle", "done"} \cup Serving
      BY <1>1
    <2>2. /\ pc' \in [Requests -> {"idle", "done"} \cup Serving]
          /\ verdict' \in [Requests -> Verdict]
          /\ minted' \in [Requests -> 0 .. Lifetime]
          /\ event' \in [Requests -> SUBSET AuditLog]
      BY <1>3, <2>1, GoesTypes
    <2>. QED BY <1>3, <2>2 DEF AccessTypeOK
  <1>4. ASSUME NEW v \in {401, 404, 500}, Raises(r, v)
        PROVE  AccessTypeOK'
    BY <1>1, <1>4, RaisesTypes
  <1>5. /\ token \in [Users -> 0 .. Lifetime]
        /\ trail \in [Requests -> SUBSET AuditLog]
    BY DEF AccessTypeOK
  <1>6. ASSUME NEW next \in {"handle", "audit", "commit", "respond", "done"},
               NEW v \in Verdict, NEW m \in 0 .. Lifetime,
               NEW e \in SUBSET AuditLog, Goes(r, next, v, m, e),
               UNCHANGED <<userStatus, token, request, trail>>
        PROVE  AccessTypeOK'
    BY <1>3, <1>5, <1>6
  <1>7. CASE Authorize(r) \/ Refresh(r) \/ Me(r) \/ ProcessDies(r)
    BY <1>1, <1>6, <1>7 DEF Authorize, Refresh, Me, ProcessDies
  <1>8. CASE Unauthorized(r) \/ NoLongerActive(r) \/ DocumentNotFound(r)
               \/ StorageFails(r) \/ AuditFails(r) \/ StatementFails(r)
    BY <1>4, <1>8 DEF Unauthorized, NoLongerActive, DocumentNotFound,
                      StorageFails, AuditFails, StatementFails
  <1>9. CASE Query(r)
    BY <1>1, <1>4, <1>6, <1>9 DEF Query
  <1>10. CASE Authenticate(r)
    <2>1. PICK ok \in BOOLEAN :
            /\ Kind(r) = "login"
            /\ Goes(r, "audit", IF ok THEN 200 ELSE 401, 0,
                    {LoginEvent(r, IF ok THEN "success" ELSE "failure")})
            /\ UNCHANGED <<userStatus, token, request, trail>>
      BY <1>10 DEF Authenticate
    <2>2. LoginEvent(r, IF ok THEN "success" ELSE "failure") \in AuditLog
      BY <2>1, EventTypes
    <2>. QED BY <1>1, <1>6, <2>1, <2>2
  <1>11. CASE LoadFile(r)
    <2>1. PICK found \in BOOLEAN :
            /\ Kind(r) = "file"
            /\ Goes(r, "audit", IF found THEN 200 ELSE 404, 0,
                    {FileEvent(r, IF found THEN "success" ELSE "failure")})
            /\ UNCHANGED <<userStatus, token, request, trail>>
      BY <1>11 DEF LoadFile
    <2>2. FileEvent(r, IF found THEN "success" ELSE "failure") \in AuditLog
      BY <2>1, EventTypes
    <2>. QED BY <1>1, <1>6, <2>1, <2>2
  <1>12. CASE WriteEvent(r)
    BY <1>1, <1>2, <1>6, <1>12 DEF WriteEvent
  <1>13. CASE Commit(r)
    <2>1. trail' \in [Requests -> SUBSET AuditLog]
      BY <1>2, <1>5, <1>13 DEF Commit
    <2>. QED BY <1>1, <1>2, <1>3, <1>5, <2>1, <1>13 DEF Commit
  <1>14. CASE Respond(r)
    <2>1. token' \in [Users -> 0 .. Lifetime]
      BY <1>2, <1>5, <1>14 DEF Respond
    <2>. QED BY <1>1, <1>2, <1>3, <1>5, <2>1, <1>14 DEF Respond
  <1>. QED BY <1>7, <1>8, <1>9, <1>10, <1>11, <1>12, <1>13, <1>14 DEF Serve

\* What a step of a slot does to its own record.
LEMMA GoesTo ==
    ASSUME AccessTypeOK, NEW r \in Requests, NEW next, NEW v, NEW m, NEW e,
           Goes(r, next, v, m, e)
    PROVE  pc'[r] = next /\ verdict'[r] = v /\ event'[r] = e
  BY DEF AccessTypeOK, Goes

\* A handler that answers with the event the answer calls for.
LEMMA WritesInv ==
    ASSUME AccessTypeOK, AccessInv, NEW r \in Requests,
           NEW next \in {"audit", "commit"}, NEW v, NEW m, NEW e,
           Goes(r, next, v, m, e), UNCHANGED <<request, trail>>,
           trail[r] = {}, \A q \in {r} : e = EventsOf(q)',
           \A q \in {r} : Kind(q) \in {"login", "file"} => IsLogged(q)'
    PROVE  AccessInv'
  <1>1. pc'[r] = next /\ verdict'[r] = v /\ event'[r] = e
    BY GoesTo
  <1>2. ASSUME NEW q \in {r}
        PROVE  BeforeCommit(q)' /\ AfterCommit(q)'
    BY <1>1, <1>2 DEF BeforeCommit, AfterCommit, Kind
  <1>. QED BY <1>2, OneSlot

\* A request that is refused or fails has committed nothing.
LEMMA RefusalInv ==
    ASSUME AccessTypeOK, AccessInv, NEW r \in Requests,
           \/ Unauthorized(r) \/ NoLongerActive(r) \/ DocumentNotFound(r)
           \/ StorageFails(r) \/ AuditFails(r) \/ StatementFails(r)
    PROVE  AccessInv'
  <1>1. BeforeCommit(r)
    BY DEF AccessInv
  <1>2. PICK v \in {401, 404, 500} :
          /\ Raises(r, v) /\ trail[r] = {}
          /\ v = 401 => Kind(r) # "login"
          /\ v \in {401, 404} /\ Kind(r) = "file" =>
                \/ v = 404 /\ request[r].document = Absent
                \/ v = 401
          /\ v = 404 => Kind(r) = "file"
    BY <1>1 DEF BeforeCommit, Unauthorized, NoLongerActive, DocumentNotFound,
                StorageFails, AuditFails, StatementFails
  <1>3. verdict'[r] = v /\ request' = request
    BY <1>2, GoesTo DEF Raises
  <1>4. v # 500 => ~IsLogged(r)'
    BY <1>2, <1>3 DEF IsLogged, Kind
  <1>. QED BY <1>2, <1>4, RaisesInv

\* A handler that has written its event, or that writes none, goes on to the
\* commit with it.
LEMMA HandlerInv ==
    ASSUME AccessTypeOK, AccessInv, NEW r \in Requests,
           \/ Authenticate(r) \/ LoadFile(r) \/ Refresh(r) \/ Me(r)
           \/ Query(r) \/ WriteEvent(r)
    PROVE  AccessInv'
  <1>1. BeforeCommit(r)
    BY DEF AccessInv
  <1>2. CASE Authenticate(r)
    <2>1. PICK ok \in BOOLEAN :
            /\ Kind(r) = "login" /\ pc[r] = "handle"
            /\ Goes(r, "audit", IF ok THEN 200 ELSE 401, 0,
                    {LoginEvent(r, IF ok THEN "success" ELSE "failure")})
            /\ UNCHANGED <<userStatus, token, request, trail>>
      BY <1>2 DEF Authenticate
    <2>2. verdict'[r] = (IF ok THEN 200 ELSE 401) /\ trail[r] = {}
      BY <1>1, <2>1, GoesTo DEF BeforeCommit
    <2>3. ASSUME NEW q \in {r}
          PROVE  /\ IsLogged(q)'
                 /\ {LoginEvent(r, IF ok THEN "success" ELSE "failure")}
                      = EventsOf(q)'
      BY <2>1, <2>2 DEF IsLogged, EventsOf, Kind, LoginEvent, User
    <2>. QED BY <2>1, <2>2, <2>3, WritesInv
  <1>3. CASE LoadFile(r)
    <2>1. PICK found \in BOOLEAN :
            /\ Kind(r) = "file" /\ pc[r] = "handle"
            /\ request[r].document # Absent
            /\ Goes(r, "audit", IF found THEN 200 ELSE 404, 0,
                    {FileEvent(r, IF found THEN "success" ELSE "failure")})
            /\ UNCHANGED <<userStatus, token, request, trail>>
      BY <1>3 DEF LoadFile
    <2>2. verdict'[r] = (IF found THEN 200 ELSE 404) /\ trail[r] = {}
      BY <1>1, <2>1, GoesTo DEF BeforeCommit
    <2>3. ASSUME NEW q \in {r}
          PROVE  /\ IsLogged(q)'
                 /\ {FileEvent(r, IF found THEN "success" ELSE "failure")}
                      = EventsOf(q)'
      BY <2>1, <2>2 DEF IsLogged, EventsOf, Kind, FileEvent, User
    <2>4. PICK v, e : /\ Goes(r, "audit", v, 0, e) /\ UNCHANGED <<request, trail>>
                      /\ \A q \in {r} : e = EventsOf(q)' /\ IsLogged(q)'
      BY <2>1, <2>3
    <2>. QED BY <2>2, <2>4, WritesInv
  <1>4. ASSUME NEW v \in {200}, NEW m, Goes(r, "commit", v, m, {}),
               UNCHANGED <<request, trail>>, pc[r] = "handle",
               Kind(r) \in {"refresh", "me", "query"}
        PROVE  AccessInv'
    <2>1. trail[r] = {}
      BY <1>1, <1>4 DEF BeforeCommit
    <2>2. ASSUME NEW q \in {r}
          PROVE  Kind(q) \notin {"login", "file"} /\ {} = EventsOf(q)'
      BY <1>4 DEF IsLogged, EventsOf, Kind
    <2>. QED BY <1>4, <2>1, <2>2, WritesInv
  <1>5. CASE Refresh(r) \/ Me(r)
    BY <1>4, <1>5 DEF Refresh, Me
  <1>6. CASE Query(r)
    <2>1. CASE Raises(r, 404)
      <3>1. trail[r] = {} /\ Kind(r) = "query" /\ request' = request
        BY <1>1, <1>6, <2>1 DEF Query, BeforeCommit, Raises
      <3>2. ~IsLogged(r)'
        BY <3>1 DEF IsLogged, Kind
      <3>. QED BY <2>1, <3>1, <3>2, RaisesInv
    <2>2. CASE ~Raises(r, 404)
      BY <1>4, <1>6, <2>2 DEF Query
    <2>. QED BY <2>1, <2>2
  <1>7. CASE WriteEvent(r)
    <2>1. PICK m \in Nat : Goes(r, "commit", verdict[r], m, event[r])
      BY <1>7, AccessAssumption DEF WriteEvent
    <2>2. /\ pc[r] = "audit" /\ trail[r] = {}
          /\ UNCHANGED <<request, trail>>
          /\ verdict'[r] = verdict[r]
      BY <1>1, <1>7, <2>1, GoesTo DEF WriteEvent, BeforeCommit
    <2>3. ASSUME NEW q \in {r}
          PROVE  IsLogged(q)' = IsLogged(q) /\ EventsOf(q)' = EventsOf(q)
      <3>1. /\ IsLogged(q)' = IsLogged(q) /\ Kind(q)' = Kind(q)
            /\ verdict'[q] = verdict[q]
        BY <2>2 DEF IsLogged, Kind
      <3>2. \A status \in {"success", "failure"} :
               /\ LoginEvent(q, status)' = LoginEvent(q, status)
               /\ FileEvent(q, status)' = FileEvent(q, status)
        BY <2>2 DEF LoginEvent, FileEvent, User
      <3>. QED BY <3>1, <3>2 DEF EventsOf
    <2>4. ASSUME NEW q \in {r}
          PROVE  /\ event[r] = EventsOf(q)'
                 /\ Kind(q) \in {"login", "file"} => IsLogged(q)'
      BY <1>1, <2>2, <2>3 DEF BeforeCommit
    <2>. QED BY <2>1, <2>2, <2>4, WritesInv
  <1>. QED BY <1>2, <1>3, <1>5, <1>6, <1>7

\* The commit puts the event of the answer on the trail, and nothing after it
\* changes what is there.
LEMMA AnswerInv ==
    ASSUME AccessTypeOK, AccessInv, NEW r \in Requests,
           Commit(r) \/ Respond(r) \/ ProcessDies(r)
    PROVE  AccessInv'
  <1>1. BeforeCommit(r) /\ AfterCommit(r)
    BY DEF AccessInv
  <1>2. ASSUME request' = request, verdict'[r] = verdict[r], NEW q \in {r}
        PROVE  IsLogged(q)' = IsLogged(q) /\ EventsOf(q)' = EventsOf(q)
    BY <1>2 DEF IsLogged, EventsOf, Kind, LoginEvent, FileEvent, User
  <1>3. CASE Commit(r)
    <2>1. Goes(r, "respond", verdict[r], minted[r], {}) /\ request' = request
      BY <1>3 DEF Commit
    <2>2. /\ pc[r] = "commit" /\ pc'[r] = "respond"
          /\ verdict'[r] = verdict[r] /\ trail'[r] = event[r]
          /\ \A q \in Requests \ {r} : trail'[q] = trail[q]
      BY <1>3, <2>1, GoesTo DEF Commit, AccessTypeOK
    <2>3. ASSUME NEW q \in {r}
          PROVE  BeforeCommit(q)' /\ AfterCommit(q)'
      BY <1>1, <1>2, <2>1, <2>2 DEF BeforeCommit, AfterCommit, Kind
    <2>. QED BY <2>1, <2>2, <2>3, OneSlot
  <1>4. CASE Respond(r)
    <2>1. /\ Goes(r, "done", verdict[r], 0, {})
          /\ UNCHANGED <<request, trail>>
      BY <1>4 DEF Respond
    <2>2. pc[r] = "respond" /\ pc'[r] = "done" /\ verdict'[r] = verdict[r]
      BY <1>4, <2>1, GoesTo DEF Respond
    <2>3. ASSUME NEW q \in {r}
          PROVE  BeforeCommit(q)' /\ AfterCommit(q)'
      BY <1>1, <1>2, <2>1, <2>2 DEF BeforeCommit, AfterCommit, Kind
    <2>. QED BY <2>1, <2>3, OneSlot
  <1>5. CASE ProcessDies(r)
    <2>1. Goes(r, "done", 0, 0, {}) /\ UNCHANGED <<request, trail>>
      BY <1>5 DEF ProcessDies
    <2>2. pc'[r] = "done" /\ verdict'[r] = 0
      BY <2>1, GoesTo
    <2>3. ASSUME NEW q \in {r}
          PROVE  BeforeCommit(q)' /\ AfterCommit(q)'
      BY <2>2 DEF BeforeCommit, AfterCommit
    <2>. QED BY <2>1, <2>3, OneSlot
  <1>. QED BY <1>3, <1>4, <1>5

\* A request begins with an empty trail, and only a login without a token.
LEMMA BeginsInv ==
    ASSUME AccessTypeOK, AccessInv, NEW r \in Requests,
           Receive(r) \/ Authorize(r)
    PROVE  AccessInv'
  <1>1. BeforeCommit(r)
    BY DEF AccessInv
  <1>2. CASE Receive(r)
    <2>1. PICK q \in Request :
            /\ request' = [request EXCEPT ![r] = q]
            /\ trail' = [trail EXCEPT ![r] = {}]
            /\ Goes(r, IF q.kind = "login" THEN "handle" ELSE "authorize",
                    0, 0, {})
      BY <1>2 DEF Receive
    <2>2. /\ pc'[r] = (IF q.kind = "login" THEN "handle" ELSE "authorize")
          /\ request'[r] = q /\ trail'[r] = {}
          /\ \A p \in Requests \ {r} :
                trail'[p] = trail[p] /\ request'[p] = request[p]
      BY <2>1, GoesTo DEF AccessTypeOK
    <2>3. ASSUME NEW p \in {r}
          PROVE  BeforeCommit(p)' /\ AfterCommit(p)'
      BY <2>2 DEF BeforeCommit, AfterCommit, Kind
    <2>. QED BY <2>1, <2>2, <2>3, OneSlot
  <1>3. CASE Authorize(r)
    <2>1. Goes(r, "handle", 0, 0, {}) /\ UNCHANGED <<request, trail>>
      BY <1>3 DEF Authorize
    <2>2. pc'[r] = "handle" /\ trail'[r] = {}
      BY <1>1, <1>3, <2>1, GoesTo DEF Authorize, BeforeCommit
    <2>3. ASSUME NEW p \in {r}
          PROVE  BeforeCommit(p)' /\ AfterCommit(p)'
      BY <2>2 DEF BeforeCommit, AfterCommit
    <2>. QED BY <2>1, <2>3, OneSlot
  <1>. QED BY <1>2, <1>3

\* Users come and go and time passes: no request is touched by it.
LEMMA QuietInv ==
    ASSUME AccessInv, UNCHANGED <<pc, request, verdict, event, trail>>
    PROVE  AccessInv'
  <1>1. ASSUME NEW q \in Requests
        PROVE  BeforeCommit(q)' /\ AfterCommit(q)'
    <2>1. BeforeCommit(q) /\ AfterCommit(q)
      BY DEF AccessInv
    <2>2. IsLogged(q)' = IsLogged(q) /\ Kind(q)' = Kind(q)
      BY DEF IsLogged, Kind
    <2>3. EventsOf(q)' = EventsOf(q)
      BY <2>2 DEF EventsOf, LoginEvent, FileEvent, User
    <2>. QED BY <2>1, <2>2, <2>3 DEF BeforeCommit, AfterCommit
  <1>. QED BY <1>1 DEF AccessInv

\* They keep the types.
LEMMA QuietTypes ==
    ASSUME AccessTypeOK,
           (\E u \in Users : CreateUser(u) \/ Deactivate(u)) \/ Tick
    PROVE  AccessTypeOK'
  <1>1. CASE \E u \in Users : CreateUser(u) \/ Deactivate(u)
    BY <1>1 DEF CreateUser, Deactivate, AccessTypeOK, UserStatus
  <1>2. CASE Tick
    <2>1. \A life \in 0 .. Lifetime : Older(life) \in 0 .. Lifetime
      BY AccessAssumption DEF Older
    <2>. QED BY <1>2, <2>1 DEF Tick, AccessTypeOK
  <1>. QED BY <1>1, <1>2

\* A slot takes up any request with a clean record.
LEMMA ReceiveTypes ==
    ASSUME AccessTypeOK, NEW r \in Requests, Receive(r)
    PROVE  AccessTypeOK'
  <1>1. PICK q \in Request :
          /\ request' = [request EXCEPT ![r] = q]
          /\ trail' = [trail EXCEPT ![r] = {}]
          /\ Goes(r, IF q.kind = "login" THEN "handle" ELSE "authorize",
                  0, 0, {})
          /\ UNCHANGED <<userStatus, token>>
    BY DEF Receive
  <1>2. /\ (IF q.kind = "login" THEN "handle" ELSE "authorize")
              \in {"idle", "done"} \cup Serving
        /\ 0 \in Verdict /\ 0 \in 0 .. Lifetime
    BY AccessAssumption DEF Serving, Verdict
  <1>3. /\ pc' \in [Requests -> {"idle", "done"} \cup Serving]
        /\ verdict' \in [Requests -> Verdict]
        /\ minted' \in [Requests -> 0 .. Lifetime]
        /\ event' \in [Requests -> SUBSET AuditLog]
    BY <1>1, <1>2, GoesTypes
  <1>. QED BY <1>1, <1>3 DEF AccessTypeOK

-----------------------------------------------------------------------------
\* Every variable keeps its type.
THEOREM TypeCorrect == Spec => []AccessTypeOK
  <1>1. Init => AccessTypeOK
    <2>1. ASSUME NEW u \in Users
          PROVE  [kind |-> "me", user |-> u] \in Request
      BY DEF Request
    <2>. QED BY <2>1, AccessAssumption
         DEF Init, AccessTypeOK, UserStatus, Verdict, Serving
  <1>2. AccessTypeOK /\ [Next]_vars => AccessTypeOK'
    <2>1. ASSUME AccessTypeOK, Next
          PROVE  AccessTypeOK'
      BY <2>1, ServeTypes, ReceiveTypes, QuietTypes DEF Next
    <2>2. ASSUME AccessTypeOK, UNCHANGED vars
          PROVE  AccessTypeOK'
      BY <2>2 DEF AccessTypeOK, vars
    <2>. QED BY <2>1, <2>2
  <1>. QED BY <1>1, <1>2, PTL DEF Spec

\* In every state the trail of a request holds the event its answer calls for
\* and no other.
THEOREM AccessInvariant == Spec => []AccessInv
  <1>1. Init => AccessInv
    BY DEF Init, AccessInv, BeforeCommit, AfterCommit
  <1>2. AccessTypeOK /\ AccessInv /\ [Next]_vars => AccessInv'
    <2>1. ASSUME AccessTypeOK, AccessInv, NEW r \in Requests,
                 Receive(r) \/ Serve(r)
          PROVE  AccessInv'
      BY <2>1, BeginsInv, HandlerInv, RefusalInv, AnswerInv DEF Serve
    <2>2. ASSUME AccessInv,
                 (\E u \in Users : CreateUser(u) \/ Deactivate(u)) \/ Tick
          PROVE  AccessInv'
      BY <2>2, QuietInv DEF CreateUser, Deactivate, Tick
    <2>3. ASSUME AccessInv, UNCHANGED vars
          PROVE  AccessInv'
      BY <2>3, QuietInv DEF vars
    <2>. QED BY <2>1, <2>2, <2>3 DEF Next
  <1>. QED BY <1>1, <1>2, TypeCorrect, PTL DEF Spec

\* A login that was accepted or refused is on the audit trail with its outcome,
\* and one that failed is not, although the refusal is an exception that rolls
\* the transaction back.
THEOREM LoginsOnRecord == Spec => []LoginsAreAudited
  <1>1. AccessInv => LoginsAreAudited
    <2>1. ASSUME AccessInv, NEW r \in Requests, NEW v \in {200, 401, 500},
                 Answered(r, "login", v)
          PROVE  /\ v = 200 => trail[r] = {LoginEvent(r, "success")}
                 /\ v = 401 => trail[r] = {LoginEvent(r, "failure")}
                 /\ v = 500 => trail[r] = {}
      <3>1. /\ trail[r] = EventsOf(r)
            /\ Kind(r) = "login" /\ verdict[r] = v
        BY <2>1 DEF AccessInv, AfterCommit, Answered
      <3>2. IsLogged(r) <=> v # 500
        BY <2>1, <3>1 DEF IsLogged
      <3>. QED BY <3>1, <3>2 DEF EventsOf
    <2>. QED BY <2>1 DEF LoginsAreAudited
  <1>. QED BY <1>1, AccessInvariant, PTL

\* A download that was answered, and one whose file was missing, is found under
\* its document by whoever asks for the audit trail of the document.
THEOREM DownloadsOnRecord == Spec => []DownloadsAreAudited
  <1>1. AccessInv => DownloadsAreAudited
    <2>1. ASSUME AccessInv, NEW r \in Requests, NEW v \in {200, 404},
                 Answered(r, "file", v), v = 404 => request[r].document # Absent
          PROVE  trail[r] =
                    {FileEvent(r, IF v = 200 THEN "success" ELSE "failure")}
      <3>1. /\ trail[r] = EventsOf(r)
            /\ v = 200 => IsLogged(r)
            /\ Kind(r) = "file" /\ verdict[r] = v
        BY <2>1 DEF AccessInv, AfterCommit, Answered
      <3>2. IsLogged(r)
        BY <2>1, <3>1 DEF IsLogged
      <3>. QED BY <3>1, <3>2 DEF EventsOf
    <2>2. ASSUME NEW r \in Requests, NEW status,
                 trail[r] = {FileEvent(r, status)}
          PROVE  \E e \in AuditTrail(r, request[r].document) :
                     e.status = status /\ e.actor = User(r)
      <3>1. FileEvent(r, status) \in AuditTrail(r, request[r].document)
        BY <2>2 DEF AuditTrail, FileEvent
      <3>. QED BY <3>1 DEF FileEvent
    <2>3. ASSUME AccessInv, NEW r \in Requests, Answered(r, "file", 200)
          PROVE  \E e \in AuditTrail(r, request[r].document) :
                     e.status = "success" /\ e.actor = User(r)
      BY <2>1, <2>2, <2>3
    <2>4. ASSUME AccessInv, NEW r \in Requests, Answered(r, "file", 404),
                 request[r].document # Absent
          PROVE  \E e \in AuditTrail(r, request[r].document) :
                     e.status = "failure" /\ e.actor = User(r)
      BY <2>1, <2>2, <2>4
    <2>. QED BY <2>3, <2>4 DEF DownloadsAreAudited
  <1>. QED BY <1>1, AccessInvariant, PTL
=============================================================================
