-------------------------- MODULE SessionApiProofs --------------------------
(***************************************************************************)
(* Proofs about SessionApi, for any number of requests, users and names,   *)
(* with and without a session namespace, faults and lag.                   *)
(***************************************************************************)
EXTENDS SessionApi, FiniteSetTheorems, TLAPS

-----------------------------------------------------------------------------
(***************************************************************************)
(* Type correctness.  tries stays in its range because a request that has  *)
(* used all its retries is done, and a secret has the uid of its owner     *)
(* because a launch that stores secrets holds a server.                    *)
(***************************************************************************)

Typed ==
    /\ TypeOK
    /\ \A r \in Requests : pc[r] # "done" => tries[r] < NumRetries
    /\ \A r \in Requests : pc[r] = "secrets" => seen[r] # NoServer

\* New servers go to one of the namespaces.
LEMMA PreferredNamespace == Preferred \in Namespaces
BY DEF Preferred, Namespaces

\* What a handler goes on with.
LEMMA GotoType ==
    ASSUME TypeOK, NEW r \in Requests, NEW l \in PC, Goto(r, l)
    PROVE  /\ pc' \in [Requests -> PC] /\ resp' \in [Requests -> Status]
           /\ pc'[r] = l /\ \A q \in Requests : q # r => pc'[q] = pc[q]
BY DEF TypeOK, Goto

\* What a handler answers.
LEMMA RespondType ==
    ASSUME TypeOK, NEW r \in Requests, NEW code \in Status, Respond(r, code)
    PROVE  /\ pc' \in [Requests -> PC] /\ resp' \in [Requests -> Status]
           /\ pc'[r] = "done" /\ \A q \in Requests : q # r => pc'[q] = pc[q]
BY DEF TypeOK, Respond, PC

\* A write of the API.
LEMMA WriteType ==
    ASSUME TypeOK, NEW ns \in Namespaces, NEW n \in Names, NEW s \in Versions, Write(ns, n, s)
    PROVE  /\ store' \in [Namespaces -> [Names -> Versions]]
           /\ watch' \in [Namespaces -> [Names -> Seq(Versions)]]
BY DEF TypeOK, Write

\* The call of a request.
LEMMA RequestType ==
    ASSUME TypeOK, NEW r \in Requests
    PROVE  req[r] \in Calls /\ req[r] \in Call /\ req[r].name \in Names
           /\ req[r].user \in Users /\ req[r].class \in Classes \cup {NoClass}
BY CallsAssumption DEF TypeOK, Call

\* What a lookup returns, if it does not fail and finds something, is a
\* server that the view has in some namespace.
LEMMA LookupFinds ==
    ASSUME NEW view, NEW n, NEW u, NEW s \in LookupIn(view, n, u), s \notin {NoServer, Failed}
    PROVE  /\ \E ns \in Namespaces : view[ns][n] = s
           /\ \E t \in Found(view, n) : OwnedBy(t, u)
BY DEF LookupIn, Found

\* ... and so it is for a request, in the cache or in the API.
LEMMA FindsWhere ==
    ASSUME NEW r \in Requests, NEW s \in Finds(r)
    PROVE  \E view \in {cache, store} :
               /\ \E ns \in Namespaces : view[ns][req[r].name] = s
               /\ \E t \in Found(view, req[r].name) : OwnedBy(t, req[r].user)
<1>1. s \notin {NoServer, Failed} /\ s \in get_server(r)
  BY DEF Finds
<1>2. \/ s \in LookupIn(cache, req[r].name, req[r].user)
      \/ s \in LookupIn(store, req[r].name, req[r].user)
  BY <1>1 DEF get_server
<1> QED BY <1>1, <1>2, LookupFinds

\* A server that is found is one.
LEMMA FindsType ==
    ASSUME TypeOK, NEW r \in Requests, NEW s \in Finds(r)
    PROVE  s \in Server /\ s.ns \in Namespaces
<1>1. PICK view \in {cache, store}, ns \in Namespaces : view[ns][req[r].name] = s
  BY FindsWhere
<1>2. s \in Versions
  <2>1. view \in [Namespaces -> [Names -> Versions]]
    BY DEF TypeOK
  <2> QED BY <1>1, <2>1, RequestType
<1>3. s # NoServer
  BY DEF Finds
<1> QED BY <1>2, <1>3 DEF Versions, Server

\* The server of a launch.
LEMMA NewServerType ==
    ASSUME TypeOK, NEW r \in Requests PROVE NewServer(r) \in Server
BY RequestType, PreferredNamespace DEF NewServer, Server

\* A server that is being stopped.
LEMMA UpdateTerminated == ASSUME NEW s \in Server PROVE Terminated(s) \in Server
BY DEF Server, Terminated

\* The instance starts with the types.
LEMMA InitTyped == Init => Typed
<1> SUFFICES ASSUME Init PROVE Typed
  OBVIOUS
<1>1. PICK old \in [Names -> UNION {OldServers(n) : n \in Names}] :
          /\ \A n \in Names : old[n] \in OldServers(n)
          /\ store = [ns \in Namespaces |-> [n \in Names |-> In(ns, old[n])]]
  BY DEF Init
<1>2. ASSUME NEW n \in Names, NEW ns \in Namespaces PROVE In(ns, old[n]) \in Versions
  <2>1. \A m \in Namespaces, h \in BOOLEAN : OldServer(n, m, h) \in Server
    BY OwnerAssumption DEF OldServer, Server
  <2> QED BY <1>1, <2>1 DEF OldServers, In, Versions
<1>3. store \in [Namespaces -> [Names -> Versions]]
  BY <1>1, <1>2
<1>4. watch \in [Namespaces -> [Names -> Seq(Versions)]]
  BY DEF Init
<1>5. pc \in [Requests -> PC] /\ \A r \in Requests : pc[r] \notin {"done", "secrets"}
  BY DEF Init, FirstStep, PC, LookupPC
<1> QED BY <1>3, <1>4, <1>5, PreferredNamespace, BoundsAssumption
        DEF Init, Typed, TypeOK, Versions, Status

\* The lookups, validations and answers write nothing.
Quiet(r) ==
    \/ LookupFails(r) \/ AnswerFound(r) \/ GetMissing(r) \/ ValidateLaunch(r)
    \/ LookBeforeCreate(r) \/ AwaitServer(r) \/ RetryAwait(r) \/ CreateSecret(r)
    \/ Launched(r) \/ LookBeforeDelete(r) \/ PatchMissing(r) \/ PatchRefused(r)
    \/ LookBeforePatch(r) \/ PatchStatefulset(r) \/ PatchState(r) \/ PatchTokens(r)
    \/ LookForPatch(r) \/ ApiFails(r) \/ Crash(r)

\* They change nothing that the API or the watcher holds.
LEMMA QuietStore ==
    ASSUME NEW r \in Requests, Quiet(r) PROVE UNCHANGED <<store, watch, cache>>
BY DEF Quiet, LookupFails, AnswerFound, GetMissing, ValidateLaunch, LookBeforeCreate,
       AwaitServer, RetryAwait, CreateSecret, Launched, LookBeforeDelete, PatchMissing,
       PatchRefused, LookBeforePatch, PatchStatefulset, PatchState, PatchTokens,
       LookForPatch, ApiFails, Crash, cluster

\* Every step of a handler that writes nothing keeps the types.
LEMMA QuietTyped ==
    ASSUME Typed, NEW r \in Requests, Quiet(r) PROVE Typed'
<1> USE DEF Typed, cluster, local
<1>0. UNCHANGED <<store, watch, cache>> /\ TypeOK
  BY QuietStore
<1>1. ASSUME NEW code \in Status, Respond(r, code), UNCHANGED cluster, UNCHANGED <<req, tries, posted>>,
             seen' \in [Requests -> Versions], target' \in [Requests -> Namespaces],
             \A q \in Requests : q # r => seen'[q] = seen[q]
      PROVE  Typed'
  BY <1>1, RespondType DEF TypeOK
<1>2. ASSUME NEW l \in PC \ {"done"}, Goto(r, l), pc[r] # "done", UNCHANGED cluster,
             UNCHANGED <<req, tries, posted>>,
             seen' \in [Requests -> Versions], target' \in [Requests -> Namespaces],
             \A q \in Requests : q # r => seen'[q] = seen[q],
             l = "secrets" => seen'[r] # NoServer
      PROVE  Typed'
  BY <1>2, GotoType DEF TypeOK
<1>3. seen \in [Requests -> Versions] /\ target \in [Requests -> Namespaces]
  BY DEF TypeOK
<1>4. ASSUME NEW s \in Finds(r)
      PROVE  /\ [seen EXCEPT ![r] = s] \in [Requests -> Versions]
             /\ [seen EXCEPT ![r] = s][r] # NoServer
             /\ \A q \in Requests : q # r => [seen EXCEPT ![r] = s][q] = seen[q]
             /\ [target EXCEPT ![r] = s.ns] \in [Requests -> Namespaces]
  BY <1>3, <1>4, <1>0, FindsType, NoServerAssumption DEF Versions
<1>5. {200, 201, 404, 422, 500} \subseteq Status
  BY DEF Status
<1>6. {"createLookup", "secrets", "create", "delete", "deleteLookup", "classLookup",
       "state", "hibernateLookup", "patchTokens", "resumeLookup", "classPatch",
       "hibernatePatch", "resumePatch"} \subseteq PC \ {"done"}
  BY DEF PC, LookupPC, ApiPC
<1>7. CASE LookupFails(r) \/ ApiFails(r) \/ GetMissing(r) \/ PatchMissing(r) \/ PatchRefused(r)
           \/ Launched(r)
  BY <1>7, <1>1, <1>3, <1>5
     DEF LookupFails, ApiFails, GetMissing, PatchMissing, PatchRefused, Launched
<1>8. CASE Crash(r)
  BY <1>8, <1>0, GotoType DEF Crash, TypeOK, PC
<1>9. CASE AnswerFound(r)
  BY <1>9, <1>1, <1>3, <1>4, <1>5 DEF AnswerFound
<1>10. CASE ValidateLaunch(r)
  BY <1>10, <1>1, <1>2, <1>3, <1>5, <1>6 DEF ValidateLaunch, At
<1>11. CASE LookBeforeCreate(r)
  BY <1>11, <1>2, <1>3, <1>4, <1>6 DEF LookBeforeCreate
<1>12. CASE AwaitServer(r)
  <2>1. store[Preferred][req[r].name] \in Versions
    BY <1>0, PreferredNamespace, RequestType DEF TypeOK
  <2>2. /\ seen' \in [Requests -> Versions]
        /\ seen'[r] # NoServer /\ \A q \in Requests : q # r => seen'[q] = seen[q]
    BY <1>12, <1>3, <2>1 DEF AwaitServer
  <2> QED BY <1>12, <1>2, <1>3, <1>6, <2>2 DEF AwaitServer
<1>13. CASE RetryAwait(r)
  <2>1. tries' = [tries EXCEPT ![r] = @ + 1] /\ pc[r] = "await" /\ tries[r] < NumRetries
    BY <1>13 DEF RetryAwait
  <2>2. tries' \in [Requests -> 0 .. NumRetries] /\ tries'[r] = tries[r] + 1
        /\ \A q \in Requests : q # r => tries'[q] = tries[q]
    BY <1>0, <2>1, BoundsAssumption DEF TypeOK
  <2>3. CASE GivesUp(tries'[r])
    <3>1. Respond(r, 500) /\ 500 \in Status
      BY <1>13, <1>5, <2>3 DEF RetryAwait
    <3>2. UNCHANGED cluster /\ UNCHANGED <<req, seen, target, posted>>
      BY <1>13 DEF RetryAwait
    <3>3. /\ pc' \in [Requests -> PC] /\ resp' \in [Requests -> Status]
          /\ pc'[r] = "done" /\ \A q \in Requests : q # r => pc'[q] = pc[q]
      BY <1>0, <3>1, RespondType
    <3> QED BY <1>0, <2>2, <3>2, <3>3 DEF TypeOK
  <2>4. CASE ~ GivesUp(tries'[r])
    <3>1. UNCHANGED <<pc, resp>> /\ tries'[r] < NumRetries
      BY <1>13, <1>0, <2>2, <2>4, BoundsAssumption DEF RetryAwait, GivesUp, TypeOK
    <3> QED BY <1>13, <1>0, <2>2, <3>1 DEF RetryAwait, TypeOK
  <2> QED BY <2>3, <2>4
<1>14. CASE CreateSecret(r)
  <2>1. seen[r].uid \in Requests \cup {Old} /\ posted[r] + 1 \in 1 .. NumSecrets
    BY <1>14, <1>0, <1>3, BoundsAssumption DEF CreateSecret, Versions, Server, TypeOK
  <2>2. secrets' \subseteq (Requests \cup {Old}) \X (1 .. NumSecrets)
    BY <1>14, <1>0, <2>1 DEF CreateSecret, TypeOK
  <2>3. UNCHANGED <<expired, req, seen, target, tries>>
    BY <1>14 DEF CreateSecret
  <2>4. CASE posted' = [posted EXCEPT ![r] = @ + 1] /\ UNCHANGED <<pc, resp>>
    <3>1. posted' \in [Requests -> 0 .. NumSecrets]
      BY <1>0, <2>1, <2>4, BoundsAssumption DEF TypeOK
    <3> QED BY <1>0, <2>2, <2>3, <2>4, <3>1 DEF TypeOK
  <2>5. CASE Goto(r, "deleteLookup") /\ UNCHANGED posted
    <3>1. pc[r] # "done"
      BY <1>14 DEF CreateSecret
    <3>2. "deleteLookup" \in PC \ {"done", "secrets"}
      BY DEF PC, LookupPC
    <3> QED BY <1>0, <2>2, <2>3, <2>5, <3>1, <3>2, GotoType DEF TypeOK
  <2> QED BY <1>14, <2>4, <2>5 DEF CreateSecret
<1>15. CASE LookBeforeDelete(r) \/ LookForPatch(r)
  BY <1>15, <1>1, <1>2, <1>3, <1>4, <1>5, <1>6
     DEF LookBeforeDelete, LookForPatch, PatchAfter
<1>16. CASE LookBeforePatch(r)
  BY <1>16, <1>1, <1>2, <1>3, <1>4, <1>5, <1>6 DEF LookBeforePatch, At
<1>17. CASE PatchStatefulset(r) \/ PatchState(r)
  BY <1>17, <1>1, <1>2, <1>3, <1>5, <1>6 DEF PatchStatefulset, PatchState
<1>18. CASE PatchTokens(r)
  BY <1>18, <1>0, <1>3, <1>6, GotoType DEF PatchTokens, TypeOK
<1> QED BY <1>7, <1>8, <1>9, <1>10, <1>11, <1>12, <1>13, <1>14, <1>15, <1>16, <1>17, <1>18
        DEF Quiet

\* What a write of a handler or of Amalthea may make of a server: it stays the
\* server of its owner, and either hibernates, resumes or starts to stop.
Update(s, t) ==
    /\ s \in Server
    /\ t \in Server
    /\ t.owner = s.owner
    /\ t.uid = s.uid
    /\ t.terminating = s.terminating \/ (t.terminating /\ t.hibernated = s.hibernated)

\* The write of a handler goes to a name that the handler was asked about.
Updates(r, ns) ==
    LET n == req[r].name
        t == store'[ns][n]
    IN  /\ Update(store[ns][n], t)
        /\ t.hibernated \/ ~ store[ns][n].hibernated \/ pc[r] = "resumePatch"
        /\ Write(ns, n, t)
        /\ UNCHANGED cache

\* A launch creates the server of a name that the preferred namespace has not.
Creates(r) ==
    LET n == req[r].name IN
    /\ pc[r] = "create"
    /\ store[Preferred][n] = NoServer
    /\ Write(Preferred, n, NewServer(r))
    /\ expired' = expired \ {<<Preferred, n>>}
    /\ UNCHANGED cache

\* A write puts the new version in the API.
LEMMA WriteStore ==
    ASSUME TypeOK, NEW ns \in Namespaces, NEW n \in Names, NEW s, Write(ns, n, s)
    PROVE  store'[ns][n] = s
BY DEF TypeOK, Write

\* DELETE marks the server it looked up, or what has replaced it.
LEMMA DeleteUpdates ==
    ASSUME TypeOK, NEW r \in Requests, DeleteServer(r)
    PROVE  \/ UNCHANGED <<store, watch, cache>>
           \/ target[r] \in Namespaces /\ Updates(r, target[r])
<1> DEFINE s == store[target[r]][req[r].name]
<1>1. s \in Versions /\ target[r] \in Namespaces /\ req[r].name \in Names
  BY RequestType DEF TypeOK
<1>2. CASE s = NoServer \/ s.terminating
  BY <1>2 DEF DeleteServer
<1>3. CASE ~ (s = NoServer \/ s.terminating)
  <2>1. s \in Server
    BY <1>1, <1>3 DEF Versions
  <2>2. Write(target[r], req[r].name, Terminated(s)) /\ UNCHANGED cache
    BY <1>3 DEF DeleteServer
  <2>3. store'[target[r]][req[r].name] = Terminated(s)
    BY <1>1, <2>2, WriteStore
  <2>4. Update(s, Terminated(s))
    <3>1. Terminated(s) \in Server
      BY <2>1, UpdateTerminated
    <3> QED BY <2>1, <3>1 DEF Update, Terminated, Server
  <2>5. Terminated(s).hibernated = s.hibernated /\ s.hibernated \in BOOLEAN
    BY <2>1 DEF Terminated, Server
  <2> QED BY <1>1, <2>2, <2>3, <2>4, <2>5 DEF Updates
<1> QED BY <1>2, <1>3

\* Where a request is that patches a server.
LEMMA PatchPlaces ==
    ASSUME NEW r, PatchServer(r)
    PROVE  pc[r] \in {"classPatch", "hibernatePatch", "resumePatch"}
<1>1. pc[r] \in {PatchAfter[l] : l \in DOMAIN PatchAfter}
  BY DEF PatchServer
<1> QED BY <1>1 DEF PatchAfter

\* A patch changes one field of the server that is there.
LEMMA PatchUpdates ==
    ASSUME TypeOK, NEW r \in Requests, PatchServer(r)
    PROVE  \/ UNCHANGED <<store, watch, cache>>
           \/ target[r] \in Namespaces /\ Updates(r, target[r])
<1> DEFINE s == store[target[r]][req[r].name]
           c == req[r].class
           patched == CASE pc[r] = "classPatch" -> [s EXCEPT !.class = c]
                        [] pc[r] = "hibernatePatch" -> [s EXCEPT !.hibernated = TRUE]
                        [] pc[r] = "resumePatch" -> [s EXCEPT !.hibernated = FALSE]
<1>1. s \in Versions /\ target[r] \in Namespaces /\ req[r].name \in Names
      /\ c \in Classes \cup {NoClass}
  BY RequestType DEF TypeOK
<1>2. CASE s = NoServer
  BY <1>2 DEF PatchServer
<1>3. CASE s # NoServer
  <2>1. s \in Server
    BY <1>1, <1>3 DEF Versions
  <2>2. Write(target[r], req[r].name, patched) /\ UNCHANGED cache
    BY <1>3 DEF PatchServer
  <2>3. store'[target[r]][req[r].name] = patched
    BY <1>1, <2>2, WriteStore
  <2>4. pc[r] \in {"classPatch", "hibernatePatch", "resumePatch"}
    BY PatchPlaces
  <2>5. Update(s, patched)
    <3>1. Update(s, [s EXCEPT !.class = c])
      BY <1>1, <2>1 DEF Update, Server
    <3>2. \A b \in BOOLEAN : Update(s, [s EXCEPT !.hibernated = b])
      BY <2>1 DEF Update, Server
    <3> QED BY <2>4, <3>1, <3>2
  <2>6. patched.hibernated \/ ~ s.hibernated \/ pc[r] = "resumePatch"
    BY <2>1, <2>4 DEF Server
  <2> HIDE DEF patched
  <2> QED BY <1>1, <2>2, <2>3, <2>5, <2>6 DEF Updates
<1> QED BY <1>2, <1>3

\* What a handler writes.
LEMMA RequestWrites ==
    ASSUME Typed, NEW r \in Requests, Serve(r) \/ ApiFails(r) \/ Crash(r)
    PROVE  \/ UNCHANGED <<store, watch, cache>>
           \/ Creates(r)
           \/ \E ns \in Namespaces : Updates(r, ns) /\ pc[r] \in ApiPC
<1>1. CASE Quiet(r)
  BY <1>1, QuietStore
<1>2. CASE CreateServer(r)
  BY <1>2 DEF CreateServer, Creates
<1>3. CASE DeleteServer(r) \/ PatchServer(r)
  <2>1. DeleteServer(r) => pc[r] \in ApiPC
    BY DEF DeleteServer, ApiPC
  <2>2. pc[r] \in ApiPC
    BY <1>3, <2>1, PatchPlaces DEF ApiPC
  <2> QED BY <1>3, <2>2, DeleteUpdates, PatchUpdates DEF Typed
<1> QED BY <1>1, <1>2, <1>3 DEF Serve, Quiet

\* Every write in the API is one of a few kinds.
LEMMA Writes ==
    ASSUME Typed, [Next]_vars
    PROVE  \/ UNCHANGED <<store, watch, cache>>
           \/ \E ns \in Namespaces, n \in Names : Deliver(ns, n)
           \/ \E r \in Requests : Creates(r)
           \/ \E r \in Requests, ns \in Namespaces : Updates(r, ns)
           \/ \E ns \in Namespaces, n \in Names : StatusChanges(ns, n) \/ Finalize(ns, n)
<1>1. ASSUME NEW r \in Requests, Serve(r) \/ ApiFails(r) \/ Crash(r)
      PROVE  \/ UNCHANGED <<store, watch, cache>>
             \/ Creates(r)
             \/ \E ns \in Namespaces : Updates(r, ns)
  BY <1>1, RequestWrites
<1>2. ASSUME NEW ns \in Namespaces, NEW n \in Names, TokensExpire(ns, n)
      PROVE  UNCHANGED <<store, watch, cache>>
  BY <1>2 DEF TokensExpire
<1>3. ASSUME UNCHANGED vars PROVE UNCHANGED <<store, watch, cache>>
  BY <1>3 DEF vars, cluster
<1> QED BY <1>1, <1>2, <1>3 DEF Next, AllServed, Cluster

\* The next event of the watcher.
LEMMA DeliverType ==
    ASSUME TypeOK, NEW ns \in Namespaces, NEW n \in Names, Deliver(ns, n)
    PROVE  /\ cache' \in [Namespaces -> [Names -> Versions]]
           /\ watch' \in [Namespaces -> [Names -> Seq(Versions)]]
           /\ watch[ns][n] \in Seq(Versions) /\ watch[ns][n] # <<>>
<1>1. watch[ns][n] \in Seq(Versions) /\ watch[ns][n] # <<>>
  BY DEF TypeOK, Deliver
<1>2. Head(watch[ns][n]) \in Versions /\ Tail(watch[ns][n]) \in Seq(Versions)
  BY <1>1
<1> QED BY <1>1, <1>2 DEF TypeOK, Deliver

\* Amalthea changes the status of a server.
LEMMA StatusUpdates ==
    ASSUME TypeOK, NEW ns \in Namespaces, NEW n \in Names, StatusChanges(ns, n)
    PROVE  /\ Update(store[ns][n], store'[ns][n])
           /\ Write(ns, n, store'[ns][n])
           /\ store'[ns][n] = [store[ns][n] EXCEPT !.failed = ~ @]
<1> DEFINE s == store[ns][n]
           t == [s EXCEPT !.failed = ~ @]
<1>1. s \in Server /\ Write(ns, n, t)
  BY DEF TypeOK, StatusChanges, Versions
<1>2. Update(s, t)
  BY <1>1 DEF Update, Server
<1>3. store'[ns][n] = t
  BY <1>1, WriteStore
<1> QED BY <1>1, <1>2, <1>3

\* The API and the watcher keep their types.
LEMMA StoreTyped ==
    ASSUME Typed, [Next]_vars
    PROVE  /\ store' \in [Namespaces -> [Names -> Versions]]
           /\ watch' \in [Namespaces -> [Names -> Seq(Versions)]]
           /\ cache' \in [Namespaces -> [Names -> Versions]]
<1> USE DEF Typed
<1>1. CASE UNCHANGED <<store, watch, cache>>
  BY <1>1 DEF TypeOK
<1>2. ASSUME NEW ns \in Namespaces, NEW n \in Names, Deliver(ns, n)
      PROVE  /\ store' \in [Namespaces -> [Names -> Versions]]
             /\ watch' \in [Namespaces -> [Names -> Seq(Versions)]]
             /\ cache' \in [Namespaces -> [Names -> Versions]]
  <2>1. UNCHANGED store
    BY <1>2 DEF Deliver
  <2> QED BY <1>2, <2>1, DeliverType DEF TypeOK
<1>3. ASSUME NEW ns \in Namespaces, NEW n \in Names, NEW t \in Versions, Write(ns, n, t),
             UNCHANGED cache
      PROVE  /\ store' \in [Namespaces -> [Names -> Versions]]
             /\ watch' \in [Namespaces -> [Names -> Seq(Versions)]]
             /\ cache' \in [Namespaces -> [Names -> Versions]]
  <2>1. cache' \in [Namespaces -> [Names -> Versions]]
    BY <1>3 DEF TypeOK
  <2> QED BY <1>3, <2>1, WriteType
<1>4. ASSUME NEW r \in Requests, Creates(r)
      PROVE  \E ns \in Namespaces, n \in Names, t \in Versions :
                 Write(ns, n, t) /\ UNCHANGED cache
  BY <1>4, PreferredNamespace, RequestType, NewServerType DEF Creates, Versions
<1>5. ASSUME NEW r \in Requests, NEW m \in Namespaces, Updates(r, m)
      PROVE  \E ns \in Namespaces, n \in Names, t \in Versions :
                 Write(ns, n, t) /\ UNCHANGED cache
  BY <1>5, RequestType DEF Updates, Update, Versions
<1>6. ASSUME NEW ns \in Namespaces, NEW n \in Names, StatusChanges(ns, n) \/ Finalize(ns, n)
      PROVE  \E t \in Versions : Write(ns, n, t) /\ UNCHANGED cache
  <2>1. CASE StatusChanges(ns, n)
    <3>1. UNCHANGED cache
      BY <2>1 DEF StatusChanges
    <3> QED BY <2>1, <3>1, StatusUpdates DEF Update, Versions
  <2>2. CASE Finalize(ns, n)
    BY <2>2 DEF Finalize, Versions
  <2> QED BY <1>6, <2>1, <2>2
<1> QED BY <1>1, <1>2, <1>3, <1>4, <1>5, <1>6, Writes

\* Every step keeps the types.
LEMMA StepTyped == ASSUME Typed, [Next]_vars PROVE Typed'
<1>0. /\ store' \in [Namespaces -> [Names -> Versions]]
      /\ watch' \in [Namespaces -> [Names -> Seq(Versions)]]
      /\ cache' \in [Namespaces -> [Names -> Versions]]
      /\ TypeOK
  BY StoreTyped DEF Typed
<1>1. ASSUME NEW r \in Requests, pc[r] \notin {"done", "secrets"},
             NEW l \in PC \ {"secrets"}, NEW code \in Status,
             Goto(r, l) \/ Respond(r, code), expired' \subseteq expired,
             seen' \in [Requests -> Versions], \A q \in Requests : q # r => seen'[q] = seen[q],
             UNCHANGED <<secrets, req, target, tries, posted>>
      PROVE  Typed'
  <2>1. /\ pc' \in [Requests -> PC] /\ resp' \in [Requests -> Status]
        /\ pc'[r] # "secrets" /\ \A q \in Requests : q # r => pc'[q] = pc[q]
    BY <1>0, <1>1, GotoType, RespondType
  <2> QED BY <1>0, <1>1, <2>1 DEF Typed, TypeOK
<1>2. {"await", "classStatefulset"} \subseteq PC \ {"secrets"} /\ {200, 204, 500} \subseteq Status
  BY DEF PC, ApiPC, Status
<1>3. seen \in [Requests -> Versions]
  BY <1>0 DEF TypeOK
<1>4. ASSUME NEW r \in Requests, CreateServer(r) PROVE Typed'
  <2>1. Goto(r, "await") \/ Respond(r, 500)
    BY <1>4 DEF CreateServer
  <2>2. expired' \subseteq expired /\ pc[r] = "create" /\ UNCHANGED secrets /\ UNCHANGED local
    BY <1>4 DEF CreateServer
  <2> QED BY <1>1, <1>2, <1>3, <2>1, <2>2 DEF local
<1>5. ASSUME NEW r \in Requests, DeleteServer(r) PROVE Typed'
  <2>1. Respond(r, 204) \/ Respond(r, 500)
    BY <1>5 DEF DeleteServer
  <2>2. pc[r] = "delete" /\ UNCHANGED <<expired, secrets>> /\ UNCHANGED local
    BY <1>5 DEF DeleteServer
  <2> QED BY <1>1, <1>2, <1>3, <2>1, <2>2 DEF local
<1>6. ASSUME NEW r \in Requests, PatchServer(r) PROVE Typed'
  <2>1. pc[r] \in {"classPatch", "hibernatePatch", "resumePatch"}
    BY <1>6, PatchPlaces
  <2>2. UNCHANGED <<expired, secrets, req, target, tries, posted>>
    BY <1>6 DEF PatchServer
  <2>3. Goto(r, "classStatefulset") \/ Respond(r, 200) \/ Respond(r, 500)
    BY <1>6 DEF PatchServer
  <2>4. \/ UNCHANGED seen
        \/ seen' = [seen EXCEPT ![r] = store'[target[r]][req[r].name]]
    <3>1. target[r] \in Namespaces /\ req[r].name \in Names
      BY <1>0, RequestType DEF TypeOK
    <3> QED BY <1>0, <1>6, <3>1, WriteStore DEF PatchServer
  <2>5. store'[target[r]][req[r].name] \in Versions
    BY <1>0, RequestType DEF TypeOK
  <2>6. /\ seen' \in [Requests -> Versions]
        /\ \A q \in Requests : q # r => seen'[q] = seen[q]
    BY <1>3, <2>4, <2>5
  <2> QED BY <1>1, <1>2, <2>1, <2>2, <2>3, <2>6
<1>7. ASSUME NEW ns \in Namespaces, NEW n \in Names, Cluster(ns, n) PROVE Typed'
  <2>1. UNCHANGED <<secrets, pc, local, resp>> /\ expired' \subseteq Namespaces \X Names
    BY <1>0, <1>7 DEF Cluster, Deliver, Finalize, StatusChanges, TokensExpire, TypeOK
  <2> QED BY <1>0, <2>1 DEF Typed, TypeOK, local
<1>8. ASSUME UNCHANGED vars PROVE Typed'
  BY <1>8 DEF vars, cluster, local, Typed, TypeOK
<1> QED BY <1>4, <1>5, <1>6, <1>7, <1>8, QuietTyped DEF Next, AllServed, Serve, Quiet

\* Every variable has its type in every reachable state, and no wait goes on
\* beyond num_retries.
THEOREM TypeCorrect == Spec => []TypeOK
<1>1. Typed => TypeOK
  BY DEF Typed
<1> QED BY <1>1, InitTyped, StepTyped, PTL DEF Spec

-----------------------------------------------------------------------------
(***************************************************************************)
(* Whose the servers are.  A name belongs to one user, every version of    *)
(* its server is owned by that user, and a request that got past its first *)
(* lookup comes from that user.  An old namespace gets no new servers, so  *)
(* one that has a server has had it all along: the watcher has never been  *)
(* told otherwise, and a launch that found nothing may create its server.  *)
(***************************************************************************)

\* The versions of a server in the API, under way and in the cache.
Copies(ns, n) ==
    {store[ns][n], cache[ns][n]}
        \cup {watch[ns][n][k] : k \in 1 .. Len(watch[ns][n])}

Owned ==
    \A ns \in Namespaces, n \in Names : \A s \in Copies(ns, n) :
        s # NoServer => s.owner = Owner[n]

FromOwner ==
    \A r \in Requests : pc[r] \notin {"lookup", "deleteLookup", "done"} =>
        req[r].user = Owner[req[r].name]

OldAllAlong ==
    \A ns \in Namespaces \ {Preferred}, n \in Names :
        store[ns][n] # NoServer => NoServer \notin Copies(ns, n)

CreatesAlone ==
    \A r \in Requests : pc[r] = "create" =>
        \A ns \in Namespaces \ {Preferred} : store[ns][req[r].name] = NoServer

AtMostOne ==
    \A n \in Names, ns, ms \in Namespaces :
        store[ns][n] # NoServer /\ store[ms][n] # NoServer => ns = ms

\* A write adds one version.
LEMMA WriteCopies ==
    ASSUME TypeOK, NEW ns \in Namespaces, NEW n \in Names, NEW t \in Versions,
           Write(ns, n, t), UNCHANGED cache, NEW ms \in Namespaces, NEW m \in Names
    PROVE  Copies(ms, m)' \subseteq
               IF ms = ns /\ m = n THEN Copies(ms, m) \cup {t} ELSE Copies(ms, m)
<1>1. CASE ms = ns /\ m = n
  <2>1. store'[ns][n] = t /\ watch'[ns][n] = Append(watch[ns][n], t)
    BY DEF Write, TypeOK
  <2>2. watch[ns][n] \in Seq(Versions)
    BY DEF TypeOK
  <2> DEFINE w == watch[ns][n]
  <2>3. \A k \in 1 .. Len(Append(w, t)) :
            Append(w, t)[k] = t \/ (k \in 1 .. Len(w) /\ Append(w, t)[k] = w[k])
    BY <2>2
  <2> QED BY <1>1, <2>1, <2>3 DEF Copies
<1>2. CASE ~ (ms = ns /\ m = n)
  <2>1. store'[ms][m] = store[ms][m] /\ watch'[ms][m] = watch[ms][m]
    BY <1>2 DEF Write, TypeOK
  <2> QED BY <1>2, <2>1 DEF Copies
<1> QED BY <1>1, <1>2

\* The watcher moves versions on and drops the oldest.
LEMMA DeliverCopies ==
    ASSUME TypeOK, NEW ns \in Namespaces, NEW n \in Names, Deliver(ns, n),
           NEW ms \in Namespaces, NEW m \in Names
    PROVE  Copies(ms, m)' \subseteq Copies(ms, m)
<1>1. CASE ms = ns /\ m = n
  <2> DEFINE w == watch[ns][n]
  <2>1. w \in Seq(Versions) /\ w # <<>>
    BY DeliverType
  <2>2. cache'[ns][n] = Head(w) /\ watch'[ns][n] = Tail(w) /\ store'[ns][n] = store[ns][n]
    BY DEF Deliver, TypeOK
  <2>3. Head(w) = w[1] /\ 1 \in 1 .. Len(w)
    BY <2>1
  <2>4. \A k \in 1 .. Len(Tail(w)) : k + 1 \in 1 .. Len(w) /\ Tail(w)[k] = w[k + 1]
    BY <2>1
  <2> QED BY <1>1, <2>2, <2>3, <2>4 DEF Copies
<1>2. CASE ~ (ms = ns /\ m = n)
  <2>1. /\ store'[ms][m] = store[ms][m] /\ watch'[ms][m] = watch[ms][m]
        /\ cache'[ms][m] = cache[ms][m]
    BY <1>2 DEF Deliver, TypeOK
  <2> QED BY <2>1 DEF Copies
<1> QED BY <1>1, <1>2

\* Where a version that is new comes from.
LEMMA NewCopies ==
    ASSUME Typed, [Next]_vars, NEW ns \in Namespaces, NEW n \in Names,
           NEW s \in Copies(ns, n)'
    PROVE  \/ s \in Copies(ns, n)
           \/ s = NoServer /\ store'[ns][n] = NoServer
           \/ s # NoServer /\ Update(store[ns][n], s)
           \/ \E r \in Requests : /\ Creates(r) /\ ns = Preferred /\ n = req[r].name
                                  /\ s = NewServer(r)
<1>0. TypeOK
  BY DEF Typed
<1>1. CASE UNCHANGED <<store, watch, cache>>
  BY <1>1 DEF Copies
<1>2. ASSUME NEW ms \in Namespaces, NEW m \in Names, Deliver(ms, m)
      PROVE  s \in Copies(ns, n)
  BY <1>0, <1>2, DeliverCopies
<1>3. ASSUME NEW r \in Requests, Creates(r)
      PROVE  s \in Copies(ns, n)
             \/ (ns = Preferred /\ n = req[r].name /\ s = NewServer(r))
  <2>1. NewServer(r) \in Versions /\ Preferred \in Namespaces /\ req[r].name \in Names
    BY <1>0, NewServerType, PreferredNamespace, RequestType DEF Versions
  <2> QED BY <1>0, <1>3, <2>1, WriteCopies DEF Creates
<1>4. ASSUME NEW ms \in Namespaces, NEW m \in Names, NEW t \in Versions, Write(ms, m, t),
             UNCHANGED cache
      PROVE  s \in Copies(ns, n) \/ (ns = ms /\ n = m /\ s = t)
  BY <1>0, <1>4, WriteCopies
<1>5. ASSUME NEW t, Update(store[ns][n], t) PROVE t # NoServer /\ t \in Versions
  BY <1>5, NoServerAssumption DEF Update, Versions
<1>6. ASSUME NEW r \in Requests, NEW ms \in Namespaces, Updates(r, ms)
      PROVE  s \in Copies(ns, n) \/ (s # NoServer /\ Update(store[ns][n], s))
  <2> DEFINE t == store'[ms][req[r].name]
  <2>1. Update(store[ms][req[r].name], t) /\ Write(ms, req[r].name, t) /\ UNCHANGED cache
    BY <1>6 DEF Updates
  <2>2. t \in Versions /\ t # NoServer /\ req[r].name \in Names
    BY <1>0, <2>1, RequestType, NoServerAssumption DEF Update, Versions
  <2> HIDE DEF t
  <2> QED BY <1>4, <2>1, <2>2
<1>7. ASSUME NEW ms \in Namespaces, NEW m \in Names, StatusChanges(ms, m)
      PROVE  s \in Copies(ns, n) \/ (s # NoServer /\ Update(store[ns][n], s))
  <2> DEFINE t == store'[ms][m]
  <2>1. Update(store[ms][m], t) /\ Write(ms, m, t)
    BY <1>0, <1>7, StatusUpdates
  <2>2. t \in Versions /\ t # NoServer /\ UNCHANGED cache
    BY <1>7, <2>1, NoServerAssumption DEF Update, Versions, StatusChanges
  <2> HIDE DEF t
  <2> QED BY <1>4, <2>1, <2>2
<1>8. ASSUME NEW ms \in Namespaces, NEW m \in Names, Finalize(ms, m)
      PROVE  s \in Copies(ns, n) \/ (s = NoServer /\ store'[ns][n] = NoServer)
  <2>1. Write(ms, m, NoServer) /\ UNCHANGED cache
    BY <1>8 DEF Finalize
  <2>2. store'[ms][m] = NoServer
    BY <1>0, <2>1, WriteStore
  <2> QED BY <1>4, <2>1, <2>2 DEF Versions
<1> QED BY <1>1, <1>2, <1>3, <1>6, <1>7, <1>8, Writes

\* What may happen to the object of a name.
LEMMA StoreChanges ==
    ASSUME Typed, [Next]_vars, NEW ns \in Namespaces, NEW n \in Names
    PROVE  \/ store'[ns][n] = store[ns][n]
           \/ store'[ns][n] # NoServer /\ Update(store[ns][n], store'[ns][n])
           \/ /\ store[ns][n] # NoServer /\ store[ns][n].terminating
              /\ store'[ns][n] = NoServer
           \/ \E r \in Requests : /\ Creates(r) /\ ns = Preferred /\ n = req[r].name
                                  /\ store'[ns][n] = NewServer(r)
<1>0. TypeOK
  BY DEF Typed
<1>1. ASSUME NEW ms \in Namespaces, NEW m \in Names, NEW t, Write(ms, m, t)
      PROVE  IF ms = ns /\ m = n THEN store'[ns][n] = t ELSE store'[ns][n] = store[ns][n]
  BY <1>0, <1>1 DEF Write, TypeOK
<1>2. CASE UNCHANGED store
  BY <1>2
<1>3. ASSUME NEW r \in Requests, Creates(r)
      PROVE  \/ store'[ns][n] = store[ns][n]
             \/ ns = Preferred /\ n = req[r].name /\ store'[ns][n] = NewServer(r)
  <2>1. Preferred \in Namespaces /\ req[r].name \in Names
    BY <1>0, PreferredNamespace, RequestType
  <2> QED BY <1>1, <1>3, <2>1 DEF Creates
<1>4. ASSUME NEW ms \in Namespaces, NEW m \in Names, Write(ms, m, store'[ms][m]),
             Update(store[ms][m], store'[ms][m])
      PROVE  \/ store'[ns][n] = store[ns][n]
             \/ store'[ns][n] # NoServer /\ Update(store[ns][n], store'[ns][n])
  <2>1. store'[ms][m] # NoServer
    BY <1>4, NoServerAssumption DEF Update
  <2> QED BY <1>1, <1>4, <2>1
<1>5. ASSUME NEW r \in Requests, NEW ms \in Namespaces, Updates(r, ms)
      PROVE  \/ store'[ns][n] = store[ns][n]
             \/ store'[ns][n] # NoServer /\ Update(store[ns][n], store'[ns][n])
  BY <1>0, <1>4, <1>5, RequestType DEF Updates
<1>6. ASSUME NEW ms \in Namespaces, NEW m \in Names, StatusChanges(ms, m)
      PROVE  \/ store'[ns][n] = store[ns][n]
             \/ store'[ns][n] # NoServer /\ Update(store[ns][n], store'[ns][n])
  BY <1>0, <1>4, <1>6, StatusUpdates
<1>7. ASSUME NEW ms \in Namespaces, NEW m \in Names, Finalize(ms, m)
      PROVE  \/ store'[ns][n] = store[ns][n]
             \/ /\ store[ns][n] # NoServer /\ store[ns][n].terminating
                /\ store'[ns][n] = NoServer
  <2>1. Write(ms, m, NoServer) /\ store[ms][m] # NoServer /\ store[ms][m].terminating
    BY <1>7 DEF Finalize
  <2> QED BY <1>1, <2>1
<1> QED BY <1>2, <1>3, <1>5, <1>6, <1>7, Writes DEF Deliver

\* Only a launch puts a server where there is none, in the preferred namespace.
LEMMA OldStaysAway ==
    ASSUME Typed, [Next]_vars, NEW ns \in Namespaces \ {Preferred}, NEW n \in Names,
           store[ns][n] = NoServer
    PROVE  store'[ns][n] = NoServer
BY StoreChanges, NoServerAssumption DEF Update

\* A request that finds a server is from its owner.
LEMMA FindsOwner ==
    ASSUME Typed, Owned, NEW r \in Requests, NEW s \in Finds(r)
    PROVE  req[r].user = Owner[req[r].name] /\ s.owner = req[r].user
<1> DEFINE n == req[r].name
<1>1. PICK view \in {cache, store} :
          /\ \E ns \in Namespaces : view[ns][n] = s
          /\ \E t \in Found(view, n) : OwnedBy(t, req[r].user)
  BY FindsWhere
<1>2. n \in Names
  BY RequestType DEF Typed
<1>3. \A ns \in Namespaces : view[ns][n] # NoServer => view[ns][n].owner = Owner[n]
  BY <1>1, <1>2 DEF Owned, Copies
<1>4. s # NoServer
  BY DEF Finds
<1>5. PICK t \in Found(view, n) : t.owner = req[r].user
  BY <1>1 DEF OwnedBy
<1>6. \E ns \in Namespaces : view[ns][n] = t /\ t # NoServer
  BY <1>5 DEF Found
<1> QED BY <1>1, <1>3, <1>4, <1>5, <1>6

\* A lookup that finds nothing for the owner of a name: there is no old server.
LEMMA FindsNoneOwner ==
    ASSUME Typed, Owned, OldAllAlong, NEW r \in Requests, FindsNone(r),
           req[r].user = Owner[req[r].name], NEW ns \in Namespaces \ {Preferred}
    PROVE  store[ns][req[r].name] = NoServer
<1> DEFINE n == req[r].name
<1>1. n \in Names
  BY RequestType DEF Typed
<1>2. PICK view \in {cache, store} : NoServer \in LookupIn(view, n, req[r].user)
  BY NoServerAssumption DEF FindsNone, get_server
<1>3. ~ \E s \in Found(view, n) : OwnedBy(s, Owner[n])
  BY <1>2, NoServerAssumption DEF LookupIn, Found
<1>4. view[ns][n] # NoServer => view[ns][n].owner = Owner[n]
  BY <1>1, <1>2 DEF Owned, Copies
<1>5. view[ns][n] = NoServer
  BY <1>3, <1>4 DEF Found, OwnedBy
<1> QED BY <1>1, <1>2, <1>5 DEF OldAllAlong, Copies

\* At most one request acts in a step, and what is asked never changes.
LEMMA Actor ==
    ASSUME Typed, [Next]_vars
    PROVE  /\ UNCHANGED req
           /\ \/ UNCHANGED <<pc, seen, posted, resp, secrets>>
              \/ \E r \in Requests :
                     /\ Serve(r) \/ ApiFails(r) \/ Crash(r)
                     /\ \A q \in Requests : q # r =>
                            pc'[q] = pc[q] /\ seen'[q] = seen[q] /\ posted'[q] = posted[q]
                                /\ resp'[q] = resp[q]
<1> USE DEF Typed, TypeOK
<1>1. ASSUME NEW r \in Requests, Serve(r) \/ ApiFails(r) \/ Crash(r)
      PROVE  /\ UNCHANGED req
             /\ \A q \in Requests : q # r =>
                    pc'[q] = pc[q] /\ seen'[q] = seen[q] /\ posted'[q] = posted[q]
                        /\ resp'[q] = resp[q]
  <2>1. CASE LookupFails(r) \/ AnswerFound(r) \/ GetMissing(r) \/ ValidateLaunch(r)
             \/ LookBeforeCreate(r) \/ CreateServer(r) \/ AwaitServer(r)
    BY <2>1 DEF LookupFails, AnswerFound, GetMissing, ValidateLaunch, LookBeforeCreate,
                CreateServer, AwaitServer, Goto, Respond, local
  <2>2. CASE RetryAwait(r) \/ CreateSecret(r) \/ Launched(r) \/ LookBeforeDelete(r)
             \/ DeleteServer(r) \/ PatchMissing(r) \/ PatchRefused(r)
    BY <2>2 DEF RetryAwait, CreateSecret, Launched, LookBeforeDelete, DeleteServer,
                PatchMissing, PatchRefused, Goto, Respond, local
  <2>3. CASE LookBeforePatch(r) \/ PatchStatefulset(r) \/ PatchState(r) \/ PatchTokens(r)
             \/ LookForPatch(r) \/ ApiFails(r) \/ Crash(r)
    BY <2>3 DEF LookBeforePatch, PatchStatefulset, PatchState, PatchTokens, LookForPatch,
                ApiFails, Crash, Goto, Respond, local
  <2>4. CASE PatchServer(r)
    BY <2>4 DEF PatchServer, Goto, Respond
  <2> QED BY <1>1, <2>1, <2>2, <2>3, <2>4 DEF Serve
<1>2. ASSUME NEW ns \in Namespaces, NEW n \in Names, Cluster(ns, n)
      PROVE  UNCHANGED <<req, pc, seen, posted, resp, secrets>>
  BY <1>2 DEF Cluster, Deliver, Finalize, StatusChanges, TokensExpire, local
<1>3. ASSUME UNCHANGED vars PROVE UNCHANGED <<req, pc, seen, posted, resp, secrets>>
  BY <1>3 DEF vars, local, cluster
<1> QED BY <1>1, <1>2, <1>3 DEF Next, AllServed

\* How a request gets to a place: most places have one way in.
LEMMA Arrivals ==
    ASSUME Typed, NEW r \in Requests, Serve(r) \/ ApiFails(r) \/ Crash(r)
    PROVE  /\ pc[r] # "done"
           /\ pc'[r] = "create" => LookBeforeCreate(r)
           /\ pc'[r] = "secrets" =>
                  LookBeforeCreate(r) \/ AwaitServer(r) \/ CreateSecret(r)
           /\ pc'[r] = "resumeLookup" => PatchTokens(r)
           /\ pc'[r] = "resumePatch" => LookForPatch(r) /\ pc[r] = "resumeLookup"
           /\ pc[r] = "lookup" /\ pc'[r] \notin {"lookup", "done"} =>
                  ValidateLaunch(r) \/ LookBeforePatch(r)
           /\ pc[r] = "deleteLookup" /\ pc'[r] \notin {"deleteLookup", "done"} =>
                  LookBeforeDelete(r)
<1> USE DEF Typed, TypeOK
<1>1. CASE LookupFails(r) \/ AnswerFound(r) \/ GetMissing(r) \/ ValidateLaunch(r)
           \/ LookBeforeCreate(r) \/ CreateServer(r) \/ AwaitServer(r)
  BY <1>1 DEF LookupFails, AnswerFound, GetMissing, ValidateLaunch, LookBeforeCreate,
              CreateServer, AwaitServer, Goto, Respond, At, LookupPC
<1>2. CASE RetryAwait(r) \/ CreateSecret(r) \/ Launched(r) \/ LookBeforeDelete(r)
           \/ DeleteServer(r) \/ PatchMissing(r) \/ PatchRefused(r)
  BY <1>2 DEF RetryAwait, CreateSecret, Launched, LookBeforeDelete, DeleteServer,
              PatchMissing, PatchRefused, Goto, Respond, At
<1>3. CASE LookBeforePatch(r) \/ PatchStatefulset(r) \/ PatchState(r) \/ PatchTokens(r)
           \/ LookForPatch(r)
  BY <1>3 DEF LookBeforePatch, PatchStatefulset, PatchState, PatchTokens, LookForPatch,
              PatchAfter, Goto, Respond, At
<1>4. CASE ApiFails(r) \/ Crash(r)
  BY <1>4 DEF ApiFails, Crash, ApiPC, Goto, Respond
<1>5. CASE PatchServer(r)
  <2>1. pc[r] \in {"classPatch", "hibernatePatch", "resumePatch"}
    BY <1>5, PatchPlaces
  <2>2. Goto(r, "classStatefulset") \/ Respond(r, 200) \/ Respond(r, 500)
    BY <1>5 DEF PatchServer
  <2>3. pc'[r] \in {"classStatefulset", "done"}
    BY <2>2 DEF Goto, Respond
  <2> QED BY <2>1, <2>3
<1> QED BY <1>1, <1>2, <1>3, <1>4, <1>5 DEF Serve

OwnerInv == Typed /\ Owned /\ FromOwner /\ OldAllAlong /\ CreatesAlone /\ AtMostOne

\* At first the cache is up to date and a name has at most one server.
LEMMA InitOwner == Init => OwnerInv
<1> SUFFICES ASSUME Init PROVE OwnerInv
  OBVIOUS
<1>1. PICK old \in [Names -> UNION {OldServers(n) : n \in Names}] :
          /\ \A n \in Names : old[n] \in OldServers(n)
          /\ store = [ns \in Namespaces |-> [n \in Names |-> In(ns, old[n])]]
  BY DEF Init
<1>2. \A ns \in Namespaces, n \in Names : Copies(ns, n) = {In(ns, old[n])}
  <2>1. \A ns \in Namespaces, n \in Names :
            cache[ns][n] = store[ns][n] /\ watch[ns][n] = <<>> /\ Len(watch[ns][n]) = 0
    BY <1>1 DEF Init
  <2> QED BY <1>1, <2>1 DEF Copies
<1>3. \A n \in Names : old[n] = NoServer \/ (old[n] # NoServer /\ old[n].owner = Owner[n])
  BY <1>1 DEF OldServers, OldServer
<1>4. Owned
  BY <1>2, <1>3 DEF Owned, In
<1>5. FromOwner /\ CreatesAlone
  BY DEF Init, FromOwner, CreatesAlone, FirstStep
<1>6. OldAllAlong
  BY <1>1, <1>2 DEF OldAllAlong
<1>7. AtMostOne
  BY <1>1 DEF AtMostOne, In
<1> QED BY <1>4, <1>5, <1>6, <1>7, InitTyped DEF OwnerInv

\* Every step keeps whose the servers are.
LEMMA StepOwner == ASSUME OwnerInv, [Next]_vars PROVE OwnerInv'
<1> USE DEF OwnerInv
<1>1. Typed' /\ UNCHANGED req
  BY StepTyped, Actor
<1>2. Owned'
  <2> SUFFICES ASSUME NEW ns \in Namespaces, NEW n \in Names, NEW s \in Copies(ns, n)',
                      s # NoServer
               PROVE  s.owner = Owner[n]
    BY DEF Owned
  <2>1. CASE s \in Copies(ns, n)
    BY <2>1 DEF Owned
  <2>2. CASE Update(store[ns][n], s)
    <3>1. store[ns][n] \in Copies(ns, n) /\ store[ns][n] # NoServer
      BY <2>2, NoServerAssumption DEF Copies, Update
    <3> QED BY <2>2, <3>1 DEF Update, Owned
  <2>3. ASSUME NEW r \in Requests, Creates(r), n = req[r].name, s = NewServer(r)
        PROVE  s.owner = Owner[n]
    BY <2>3 DEF Creates, NewServer, FromOwner
  <2> QED BY <2>1, <2>2, <2>3, NewCopies
<1>3. FromOwner'
  <2> SUFFICES ASSUME NEW r \in Requests, pc'[r] \notin {"lookup", "deleteLookup", "done"},
                      pc[r] \in {"lookup", "deleteLookup", "done"}
               PROVE  req[r].user = Owner[req[r].name]
    BY <1>1 DEF FromOwner
  <2>1. Serve(r) \/ ApiFails(r) \/ Crash(r)
    BY Actor
  <2>2. CASE ValidateLaunch(r)
    <3>1. req[r].op = "launch" /\ req[r] \in Calls
      BY <2>2, RequestType DEF ValidateLaunch, At, Typed
    <3> QED BY <3>1, CallsAssumption
  <2>3. CASE LookBeforePatch(r) \/ LookBeforeDelete(r)
    <3>1. \E s \in Finds(r) : TRUE
      BY <2>3, <2>1, Arrivals DEF LookBeforePatch, LookBeforeDelete, Respond, Typed, TypeOK
    <3> QED BY <3>1, FindsOwner
  <2> QED BY <2>1, <2>2, <2>3, Arrivals
<1>4. OldAllAlong'
  <2> SUFFICES ASSUME NEW ns \in Namespaces \ {Preferred}, NEW n \in Names,
                      store'[ns][n] # NoServer, NoServer \in Copies(ns, n)'
               PROVE  FALSE
    BY DEF OldAllAlong
  <2>1. store[ns][n] # NoServer
    BY OldStaysAway
  <2>2. NoServer \notin Copies(ns, n)
    BY <2>1 DEF OldAllAlong
  <2> QED BY <2>2, NewCopies
<1>5. CreatesAlone'
  <2> SUFFICES ASSUME NEW r \in Requests, pc'[r] = "create",
                      NEW ns \in Namespaces \ {Preferred}
               PROVE  store'[ns][req[r].name] = NoServer
    BY <1>1 DEF CreatesAlone
  <2>1. req[r].name \in Names
    BY RequestType DEF Typed
  <2>2. CASE pc[r] = "create"
    BY <2>1, <2>2, OldStaysAway DEF CreatesAlone
  <2>3. CASE pc[r] # "create"
    <3>1. Serve(r) \/ ApiFails(r) \/ Crash(r)
      BY <2>3, Actor
    <3>2. LookBeforeCreate(r)
      BY <3>1, Arrivals
    <3>3. FindsNone(r) /\ pc[r] = "createLookup"
      BY <3>2 DEF LookBeforeCreate, Goto, Typed, TypeOK
    <3>4. store[ns][req[r].name] = NoServer
      BY <3>3, FindsNoneOwner DEF FromOwner
    <3> QED BY <2>1, <3>4, OldStaysAway
  <2> QED BY <2>2, <2>3
<1>6. AtMostOne'
  <2> SUFFICES ASSUME NEW n \in Names, NEW ns \in Namespaces, NEW ms \in Namespaces,
                      store'[ns][n] # NoServer, store'[ms][n] # NoServer, ns # ms
               PROVE  FALSE
    BY DEF AtMostOne
  <2>1. ASSUME NEW ks \in Namespaces, store'[ks][n] # NoServer
        PROVE  \/ store[ks][n] # NoServer
               \/ ks = Preferred /\ \E r \in Requests : pc[r] = "create" /\ n = req[r].name
    <3>1. Update(store[ks][n], store'[ks][n]) => store[ks][n] # NoServer
      BY NoServerAssumption DEF Update
    <3> QED BY <2>1, <3>1, StoreChanges DEF Creates
  <2>2. store[ns][n] = NoServer \/ store[ms][n] = NoServer
    BY DEF AtMostOne
  <2>3. \A ks \in Namespaces \ {Preferred} :
            (\E r \in Requests : pc[r] = "create" /\ n = req[r].name) => store[ks][n] = NoServer
    BY DEF CreatesAlone
  <2> QED BY <2>1, <2>2, <2>3
<1> QED BY <1>1, <1>2, <1>3, <1>4, <1>5, <1>6

\* Whose the servers are, in every reachable state.
LEMMA OwnerInvariance == Spec => []OwnerInv
BY InitOwner, StepOwner, PTL DEF Spec

\* A name never has a server in both namespaces: create_server looks in all of
\* them, through a cache that lags, before it creates one.
THEOREM OneServer == Spec => []OneServerPerName
<1>1. ASSUME OwnerInv PROVE OneServerPerName
  <2> SUFFICES ASSUME NEW n \in Names
               PROVE  Cardinality({ns \in Namespaces : store[ns][n] # NoServer}) <= 1
    BY DEF OneServerPerName
  <2> DEFINE Here == {ns \in Namespaces : store[ns][n] # NoServer}
  <2>1. CASE Here = {}
    BY <2>1, FS_EmptySet
  <2>2. ASSUME NEW ns \in Here PROVE Cardinality(Here) <= 1
    <3>1. \A ms \in Here : ms = ns
      BY <1>1, <2>2 DEF OwnerInv, AtMostOne
    <3> HIDE DEF Here
    <3>2. Here = {ns}
      BY <2>2, <3>1
    <3>3. Cardinality(Here) = 1
      BY <3>2, FS_Singleton
    <3> QED BY <3>3
  <2> QED BY <2>1, <2>2
<1> QED BY <1>1, OwnerInvariance, PTL

\* A request creates, patches and deletes only servers of its own user.
THEOREM OwnServers == Spec => OwnServersOnly
<1>1. ASSUME OwnerInv, OwnerInv', [Next]_vars, NEW r \in Requests, pc'[r] # pc[r],
             NEW ns \in Namespaces, NEW n \in Names, store'[ns][n] # store[ns][n],
             NEW s \in {store[ns][n], store'[ns][n]} \ {NoServer}
      PROVE  s.owner = req[r].user
  <2>1. Serve(r) \/ ApiFails(r) \/ Crash(r)
    BY <1>1, Actor DEF OwnerInv
  <2>2. s.owner = Owner[n]
    <3>1. store[ns][n] \in Copies(ns, n) /\ store'[ns][n] \in Copies(ns, n)'
      BY DEF Copies
    <3> QED BY <1>1, <3>1 DEF OwnerInv, Owned
  <2>3. n = req[r].name /\ pc[r] \in ApiPC
    <3>0. req[r].name \in Names /\ Preferred \in Namespaces
      BY <1>1, RequestType, PreferredNamespace DEF OwnerInv, Typed
    <3>1. ASSUME NEW ms \in Namespaces, NEW t, Write(ms, req[r].name, t)
          PROVE  n = req[r].name
      BY <1>1, <3>0, <3>1 DEF Write, OwnerInv, Typed, TypeOK
    <3>2. CASE Creates(r)
      BY <3>0, <3>1, <3>2 DEF Creates, ApiPC
    <3>3. CASE \E ms \in Namespaces : Updates(r, ms) /\ pc[r] \in ApiPC
      BY <3>1, <3>3 DEF Updates
    <3> QED BY <1>1, <2>1, <3>2, <3>3, RequestWrites DEF OwnerInv
  <2>4. req[r].user = Owner[n]
    BY <1>1, <2>3 DEF OwnerInv, FromOwner, ApiPC
  <2> QED BY <2>2, <2>4
<1>2. OwnerInv /\ OwnerInv' /\ [Next]_vars =>
          [\A r \in Requests : pc'[r] # pc[r] =>
               \A ns \in Namespaces, n \in Names : store'[ns][n] # store[ns][n] =>
                   \A s \in {store[ns][n], store'[ns][n]} \ {NoServer} :
                       s.owner = req[r].user]_vars
  BY <1>1
<1> QED BY <1>2, OwnerInvariance, PTL DEF Spec, OwnServersOnly

-----------------------------------------------------------------------------
(***************************************************************************)
(* What a request holds and answers.                                       *)
(***************************************************************************)

\* A step that changes what a request holds is one of its own.
LEMMA SeenChanges ==
    ASSUME Typed, [Next]_vars, NEW r \in Requests, seen'[r] # seen[r]
    PROVE  \/ seen'[r] \in Finds(r)
           \/ AwaitServer(r)
           \/ PatchServer(r) /\ seen'[r] = store'[target[r]][req[r].name]
<1> USE DEF Typed, TypeOK
<1>1. Serve(r) \/ ApiFails(r) \/ Crash(r)
  BY Actor
<1>2. CASE AnswerFound(r) \/ LookBeforeCreate(r) \/ LookBeforePatch(r)
  BY <1>2 DEF AnswerFound, LookBeforeCreate, LookBeforePatch
<1>3. CASE PatchServer(r)
  <2>1. target[r] \in Namespaces /\ req[r].name \in Names
    BY RequestType
  <2> QED BY <1>3, <2>1, WriteStore DEF PatchServer
<1>4. ASSUME UNCHANGED seen PROVE FALSE
  BY <1>4
<1>5. CASE LookupFails(r) \/ GetMissing(r) \/ ValidateLaunch(r) \/ CreateServer(r)
           \/ RetryAwait(r) \/ CreateSecret(r) \/ Launched(r) \/ LookBeforeDelete(r)
  BY <1>4, <1>5 DEF LookupFails, GetMissing, ValidateLaunch, CreateServer, RetryAwait,
                    CreateSecret, Launched, LookBeforeDelete, local
<1>6. CASE DeleteServer(r) \/ PatchMissing(r) \/ PatchRefused(r) \/ PatchStatefulset(r)
           \/ PatchState(r) \/ PatchTokens(r) \/ LookForPatch(r) \/ ApiFails(r) \/ Crash(r)
  BY <1>4, <1>6 DEF DeleteServer, PatchMissing, PatchRefused, PatchStatefulset, PatchState,
                    PatchTokens, LookForPatch, ApiFails, Crash, local
<1> QED BY <1>1, <1>2, <1>3, <1>5, <1>6 DEF Serve

\* No answer shows the server of someone else.
THEOREM AnswersOwn == Spec => []AnswersOwnServer
<1>1. Init => AnswersOwnServer
  BY DEF Init, AnswersOwnServer
<1>2. ASSUME OwnerInv, OwnerInv', AnswersOwnServer, [Next]_vars PROVE AnswersOwnServer'
  <2> SUFFICES ASSUME NEW r \in Requests, seen'[r] # NoServer, seen'[r] # seen[r]
               PROVE  seen'[r].owner = req[r].user
    BY <1>2, Actor DEF AnswersOwnServer, OwnerInv
  <2>1. CASE seen'[r] \in Finds(r)
    BY <1>2, <2>1, FindsOwner DEF OwnerInv
  <2>2. ASSUME NEW ns \in Namespaces, NEW n \in Names, store'[ns][n] # NoServer
        PROVE  store'[ns][n].owner = Owner[n]
    <3>1. store'[ns][n] \in Copies(ns, n)'
      BY DEF Copies
    <3> QED BY <1>2, <2>2, <3>1 DEF OwnerInv, Owned
  <2>3. ASSUME NEW ns \in Namespaces, seen'[r] = store'[ns][req[r].name],
               req[r].user = Owner[req[r].name]
        PROVE  seen'[r].owner = req[r].user
    <3>1. req[r].name \in Names
      BY <1>2, RequestType DEF OwnerInv, Typed
    <3> QED BY <2>2, <2>3, <3>1
  <2>4. CASE AwaitServer(r)
    <3>1. /\ seen'[r] = store[Preferred][req[r].name] /\ UNCHANGED store
          /\ pc[r] = "await"
      BY <1>2, <2>4 DEF AwaitServer, cluster, OwnerInv, Typed, TypeOK
    <3>2. req[r].user = Owner[req[r].name]
      BY <1>2, <3>1 DEF OwnerInv, FromOwner
    <3>3. seen'[r] = store'[Preferred][req[r].name] /\ Preferred \in Namespaces
      BY <3>1, PreferredNamespace
    <3> QED BY <2>3, <3>2, <3>3
  <2>5. CASE PatchServer(r) /\ seen'[r] = store'[target[r]][req[r].name]
    <3>1. pc[r] \in {"classPatch", "hibernatePatch", "resumePatch"}
      BY <2>5, PatchPlaces
    <3>2. target[r] \in Namespaces
      BY <1>2 DEF OwnerInv, Typed, TypeOK
    <3> QED BY <1>2, <2>3, <2>5, <3>1, <3>2 DEF OwnerInv, FromOwner
  <2> QED BY <1>2, <2>1, <2>4, <2>5, SeenChanges DEF OwnerInv
<1> QED BY <1>1, <1>2, OwnerInvariance, PTL DEF Spec

\* The secrets of a launch are stored one after the other, for the server
\* that the launch holds from then on.
SecretsStored ==
    \A r \in Requests :
        /\ pc[r] \in {"lookup", "createLookup", "create", "await"} => posted[r] = 0
        /\ pc[r] = "secrets" => {seen[r].uid} \X (1 .. posted[r]) \subseteq secrets
        /\ resp[r] = 201 =>
               pc[r] = "done" /\ {seen[r].uid} \X (1 .. NumSecrets) \subseteq secrets

\* Only CreateSecret stores or counts a secret, and only Launched answers 201.
LEMMA SecretChanges ==
    ASSUME Typed, [Next]_vars
    PROVE  /\ secrets \subseteq secrets'
           /\ \A r \in Requests : posted'[r] # posted[r] => CreateSecret(r)
           /\ \A r \in Requests : resp'[r] = 201 /\ resp[r] # 201 => Launched(r)
           /\ \A r \in Requests : /\ pc'[r] \in {"lookup", "createLookup", "create", "await"}
                                  => pc[r] \in {"lookup", "createLookup", "create", "await"}
<1> USE DEF Typed, TypeOK, Goto, Respond
<1> DEFINE Early == {"lookup", "createLookup", "create", "await"}
           P == /\ secrets \subseteq secrets'
                /\ \A r \in Requests : posted'[r] # posted[r] => CreateSecret(r)
                /\ \A r \in Requests : resp'[r] = 201 /\ resp[r] # 201 => Launched(r)
                /\ \A r \in Requests : pc'[r] \in Early => pc[r] \in Early
<1>1. ASSUME NEW r \in Requests, Serve(r) \/ ApiFails(r) \/ Crash(r) PROVE P
  <2>1. CASE LookupFails(r) \/ AnswerFound(r) \/ GetMissing(r) \/ ValidateLaunch(r)
             \/ LookBeforeCreate(r) \/ CreateServer(r) \/ AwaitServer(r)
    BY <2>1 DEF LookupFails, AnswerFound, GetMissing, ValidateLaunch, LookBeforeCreate,
                CreateServer, AwaitServer, At, local, cluster
  <2>2. CASE RetryAwait(r) \/ Launched(r) \/ LookBeforeDelete(r)
             \/ DeleteServer(r) \/ PatchMissing(r) \/ PatchRefused(r)
    BY <2>2 DEF RetryAwait, Launched, LookBeforeDelete, DeleteServer,
                PatchMissing, PatchRefused, At, local, cluster
  <2>3. CASE CreateSecret(r)
    BY <2>3 DEF CreateSecret
  <2>4. CASE LookBeforePatch(r) \/ PatchStatefulset(r) \/ PatchState(r) \/ PatchTokens(r)
    BY <2>4 DEF LookBeforePatch, PatchStatefulset, PatchState, PatchTokens, At, local, cluster
  <2>5. CASE LookForPatch(r) \/ ApiFails(r) \/ Crash(r)
    BY <2>5 DEF LookForPatch, PatchAfter, ApiFails, Crash, local, cluster
  <2>6. CASE PatchServer(r)
    BY <2>6 DEF PatchServer
  <2> QED BY <1>1, <2>1, <2>2, <2>3, <2>4, <2>5, <2>6 DEF Serve
<1>2. ASSUME UNCHANGED <<pc, posted, resp, secrets>> PROVE P
  BY <1>2
<1>3. ASSUME NEW ns \in Namespaces, NEW n \in Names, Cluster(ns, n)
      PROVE  UNCHANGED <<pc, posted, resp, secrets>>
  BY <1>3 DEF Cluster, Deliver, Finalize, StatusChanges, TokensExpire, local
<1>4. ASSUME UNCHANGED vars PROVE UNCHANGED <<pc, posted, resp, secrets>>
  BY <1>4 DEF vars, local, cluster
<1> QED BY <1>1, <1>2, <1>3, <1>4 DEF Next, AllServed

\* A launch that answers 201 has had every secret stored for the server it
\* answers with.
THEOREM LaunchStores == Spec => []LaunchedWithSecrets
<1>1. Init => SecretsStored
  BY DEF Init, SecretsStored, FirstStep
<1>2. ASSUME Typed, SecretsStored, [Next]_vars PROVE SecretsStored'
  <2> SUFFICES ASSUME NEW r \in Requests
               PROVE  /\ pc'[r] \in {"lookup", "createLookup", "create", "await"} =>
                             posted'[r] = 0
                      /\ pc'[r] = "secrets" =>
                             {seen'[r].uid} \X (1 .. posted'[r]) \subseteq secrets'
                      /\ resp'[r] = 201 =>
                             /\ pc'[r] = "done"
                             /\ {seen'[r].uid} \X (1 .. NumSecrets) \subseteq secrets'
    BY DEF SecretsStored
  <2>1. \/ /\ pc'[r] = pc[r] /\ seen'[r] = seen[r] /\ posted'[r] = posted[r]
           /\ resp'[r] = resp[r]
        \/ Serve(r) \/ ApiFails(r) \/ Crash(r)
    BY <1>2, Actor
  <2>2. ASSUME pc'[r] \in {"lookup", "createLookup", "create", "await"} PROVE posted'[r] = 0
    BY <1>2, <2>2, SecretChanges DEF SecretsStored, CreateSecret
  <2>3. ASSUME pc'[r] = "secrets"
        PROVE  {seen'[r].uid} \X (1 .. posted'[r]) \subseteq secrets'
    <3>1. CASE pc[r] = "secrets" /\ seen'[r] = seen[r] /\ posted'[r] = posted[r]
      BY <1>2, <3>1, SecretChanges DEF SecretsStored
    <3>2. CASE CreateSecret(r)
      <4>1. /\ pc[r] = "secrets" /\ UNCHANGED seen
            /\ posted' = [posted EXCEPT ![r] = @ + 1]
            /\ secrets' = secrets \cup {<<seen[r].uid, posted[r] + 1>>}
        BY <1>2, <2>3, <3>2 DEF CreateSecret, SecretAccepted, Goto, Typed, TypeOK
      <4>2. posted'[r] = posted[r] + 1 /\ posted[r] \in Nat
        BY <1>2, <4>1, BoundsAssumption DEF Typed, TypeOK
      <4>3. {seen[r].uid} \X (1 .. posted[r]) \subseteq secrets
        BY <1>2, <4>1 DEF SecretsStored
      <4>4. \A k \in 1 .. posted'[r] : k \in 1 .. posted[r] \/ k = posted[r] + 1
        BY <4>2
      <4> QED BY <4>1, <4>3, <4>4
    <3>3. CASE LookBeforeCreate(r) \/ AwaitServer(r)
      <4>1. pc[r] \in {"createLookup", "await"} /\ UNCHANGED posted
        BY <3>3 DEF LookBeforeCreate, AwaitServer
      <4>2. posted'[r] = 0
        BY <1>2, <4>1 DEF SecretsStored
      <4> QED BY <4>2
    <3> QED BY <1>2, <2>1, <2>3, <3>1, <3>2, <3>3, Arrivals
  <2>4. ASSUME resp'[r] = 201
        PROVE  pc'[r] = "done" /\ {seen'[r].uid} \X (1 .. NumSecrets) \subseteq secrets'
    <3>1. CASE resp[r] = 201
      <4>1. pc'[r] = "done" /\ seen'[r] = seen[r]
        BY <1>2, <2>1, <3>1, Arrivals DEF SecretsStored
      <4> QED BY <1>2, <3>1, <4>1, SecretChanges DEF SecretsStored
    <3>2. CASE Launched(r)
      <4>1. /\ pc[r] = "secrets" /\ posted[r] = NumSecrets /\ UNCHANGED seen
            /\ UNCHANGED secrets /\ pc'[r] = "done"
        BY <1>2, <3>2 DEF Launched, Respond, cluster, local, Typed, TypeOK
      <4> QED BY <1>2, <4>1 DEF SecretsStored
    <3> QED BY <1>2, <2>4, <3>1, <3>2, SecretChanges
  <2> QED BY <2>2, <2>3, <2>4
<1>3. SecretsStored => LaunchedWithSecrets
  BY DEF SecretsStored, LaunchedWithSecrets
<1> QED BY <1>1, <1>2, <1>3, InitTyped, StepTyped, PTL DEF Spec

-----------------------------------------------------------------------------
(***************************************************************************)
(* The tokens of a session.  patch_tokens comes first, and until the patch *)
(* that resumes the session nothing makes the tokens expire.               *)
(***************************************************************************)

TokensRenewed ==
    \A r \in Requests : pc[r] \in {"resumeLookup", "resumePatch"} =>
        <<Preferred, req[r].name>> \notin expired

\* Tokens expire where a session is hibernated and nobody resumes it.
LEMMA Expires ==
    ASSUME Typed, [Next]_vars, NEW ns \in Namespaces, NEW n \in Names,
           <<ns, n>> \in expired', <<ns, n>> \notin expired
    PROVE  /\ store[ns][n].hibernated /\ store' = store /\ pc' = pc
           /\ \A r \in Requests : pc[r] \in {"resumeLookup", "resumePatch"} => req[r].name # n
<1>1. ASSUME expired' \subseteq expired PROVE FALSE
  BY <1>1
<1>2. ASSUME NEW r \in Requests, Serve(r) \/ ApiFails(r) \/ Crash(r)
      PROVE  expired' \subseteq expired
  <2>1. CASE Quiet(r)
    BY <2>1 DEF Quiet, LookupFails, AnswerFound, GetMissing, ValidateLaunch,
                LookBeforeCreate, AwaitServer, RetryAwait, CreateSecret, Launched,
                LookBeforeDelete, PatchMissing, PatchRefused, LookBeforePatch,
                PatchStatefulset, PatchState, PatchTokens, LookForPatch, ApiFails, Crash,
                cluster
  <2>2. CASE CreateServer(r) \/ DeleteServer(r) \/ PatchServer(r)
    BY <2>2 DEF CreateServer, DeleteServer, PatchServer
  <2> QED BY <1>2, <2>1, <2>2 DEF Serve, Quiet
<1>3. ASSUME NEW ms \in Namespaces, NEW m \in Names,
             Deliver(ms, m) \/ Finalize(ms, m) \/ StatusChanges(ms, m)
      PROVE  expired' \subseteq expired
  BY <1>3 DEF Deliver, Finalize, StatusChanges
<1>4. ASSUME UNCHANGED vars PROVE expired' \subseteq expired
  BY <1>4 DEF vars, cluster
<1>5. PICK ms \in Namespaces, m \in Names : TokensExpire(ms, m)
  BY <1>1, <1>2, <1>3, <1>4 DEF Next, AllServed, Cluster
<1>6. ms = ns /\ m = n
  BY <1>5 DEF TokensExpire
<1> QED BY <1>5, <1>6 DEF TokensExpire

\* A session starts to run when it is launched or resumed.
LEMMA Starts ==
    ASSUME Typed, [Next]_vars, NEW ns \in Namespaces, NEW n \in Names,
           ~ Running(store[ns][n]), Running(store'[ns][n])
    PROVE  \E r \in Requests : /\ n = req[r].name
                               /\ Creates(r) \/ pc[r] = "resumePatch"
<1>0. TypeOK /\ store'[ns][n] # store[ns][n]
  BY DEF Typed, Running
<1>1. ASSUME NEW ms \in Namespaces, NEW m \in Names, NEW t, Write(ms, m, t)
      PROVE  ms = ns /\ m = n
  BY <1>0, <1>1 DEF Write, TypeOK
<1>2. ASSUME NEW r \in Requests, Creates(r) PROVE n = req[r].name
  <2>1. Preferred \in Namespaces /\ req[r].name \in Names
    BY <1>0, PreferredNamespace, RequestType
  <2> QED BY <1>1, <1>2, <2>1 DEF Creates
<1>3. ASSUME NEW r \in Requests, NEW ms \in Namespaces, Updates(r, ms)
      PROVE  n = req[r].name /\ pc[r] = "resumePatch"
  <2>1. ms = ns /\ req[r].name = n
    BY <1>0, <1>1, <1>3, RequestType DEF Updates
  <2>2. store[ns][n] # NoServer
    BY <1>3, <2>1, NoServerAssumption DEF Updates, Update
  <2> QED BY <1>3, <2>1, <2>2 DEF Updates, Running
<1>4. ASSUME NEW ms \in Namespaces, NEW m \in Names, StatusChanges(ms, m) PROVE FALSE
  <2>0. Write(ms, m, store'[ms][m])
    BY <1>0, <1>4, StatusUpdates
  <2>1. ms = ns /\ m = n
    BY <1>1, <2>0
  <2>2. store[ns][n] \in Server /\ store'[ns][n] = [store[ns][n] EXCEPT !.failed = ~ @]
    BY <1>0, <1>4, <2>1, StatusUpdates DEF Update
  <2>3. store'[ns][n].hibernated = store[ns][n].hibernated
    BY <2>2 DEF Server
  <2>4. store[ns][n] # NoServer
    BY <2>2, NoServerAssumption
  <2> QED BY <2>3, <2>4 DEF Running
<1>5. ASSUME NEW ms \in Namespaces, NEW m \in Names, Finalize(ms, m) PROVE FALSE
  <2>1. Write(ms, m, NoServer)
    BY <1>5 DEF Finalize
  <2>2. ms = ns /\ m = n
    BY <1>1, <2>1
  <2> QED BY <1>0, <2>1, <2>2, WriteStore DEF Running, Versions
<1>6. ~ UNCHANGED store
  BY <1>0
<1> QED BY <1>2, <1>3, <1>4, <1>5, <1>6, Writes DEF Deliver

\* A session that runs in the preferred namespace has tokens that were renewed
\* since it was last hibernated.
THEOREM RunsWithFreshTokens == Spec => []PreferredRunsWithTokens
<1>1. Init => TokensRenewed /\ PreferredRunsWithTokens
  BY DEF Init, TokensRenewed, PreferredRunsWithTokens
<1>2. ASSUME Typed, TokensRenewed, [Next]_vars PROVE TokensRenewed'
  <2> SUFFICES ASSUME NEW r \in Requests, pc'[r] \in {"resumeLookup", "resumePatch"},
                      <<Preferred, req[r].name>> \in expired'
               PROVE  FALSE
    BY <1>2, Actor DEF TokensRenewed
  <2>0. req[r].name \in Names /\ Preferred \in Namespaces
    BY <1>2, RequestType, PreferredNamespace DEF Typed
  <2>1. CASE <<Preferred, req[r].name>> \in expired
    <3>1. pc[r] \notin {"resumeLookup", "resumePatch"}
      BY <1>2, <2>1 DEF TokensRenewed
    <3>2. PatchTokens(r)
      BY <1>2, <3>1, Actor, Arrivals
    <3> QED BY <3>2 DEF PatchTokens, TokenNamespace
  <2>2. CASE <<Preferred, req[r].name>> \notin expired
    BY <1>2, <2>0, <2>2, Expires
  <2> QED BY <2>1, <2>2
<1>3. ASSUME Typed, TokensRenewed, PreferredRunsWithTokens, [Next]_vars
      PROVE  PreferredRunsWithTokens'
  <2> SUFFICES ASSUME NEW n \in Names, Running(store'[Preferred][n]),
                      <<Preferred, n>> \in expired'
               PROVE  FALSE
    BY DEF PreferredRunsWithTokens
  <2>0. Preferred \in Namespaces
    BY PreferredNamespace
  <2>1. <<Preferred, n>> \in expired
    BY <1>3, <2>0, Expires DEF Running
  <2>2. ~ Running(store[Preferred][n])
    BY <1>3, <2>1 DEF PreferredRunsWithTokens
  <2>3. ASSUME NEW r \in Requests, Creates(r), n = req[r].name PROVE FALSE
    BY <2>3 DEF Creates
  <2>4. ASSUME NEW r \in Requests, pc[r] = "resumePatch", n = req[r].name PROVE FALSE
    BY <1>3, <2>1, <2>4 DEF TokensRenewed
  <2> QED BY <1>3, <2>0, <2>2, <2>3, <2>4, Starts
<1> QED BY <1>1, <1>2, <1>3, InitTyped, StepTyped, PTL DEF Spec

-----------------------------------------------------------------------------
(***************************************************************************)
(* The handlers implement Sessions.  A name has one session at a time, so  *)
(* the write of one object is the change of one session.                   *)
(***************************************************************************)

\* A server as a session, and the sessions there may be.
Abs(s) == [id |-> s.uid, hibernated |-> s.hibernated, stopping |-> s.terminating]

OneOrNone(s) == IF s = NoServer THEN {} ELSE {Abs(s)}

AllSessions == [n \in Names |-> SessionsOf(n)]

\* If no other namespace has a server of a name, its sessions are that of one.
LEMMA OneSession ==
    ASSUME NEW n \in Names, NEW ns \in Namespaces,
           \A ms \in Namespaces : ms # ns => store[ms][n] = NoServer
    PROVE  SessionsOf(n) = OneOrNone(store[ns][n])
<1>1. {store[ms][n] : ms \in Namespaces} \ {NoServer} =
          IF store[ns][n] = NoServer THEN {} ELSE {store[ns][n]}
  OBVIOUS
<1>2. CASE store[ns][n] = NoServer
  BY <1>1, <1>2 DEF SessionsOf, OneOrNone
<1>3. CASE store[ns][n] # NoServer
  BY <1>1, <1>3 DEF SessionsOf, OneOrNone, Abs
<1> QED BY <1>2, <1>3

\* ... also after a step.
LEMMA OneSessionNext ==
    ASSUME NEW n \in Names, NEW ns \in Namespaces,
           \A ms \in Namespaces : ms # ns => store'[ms][n] = NoServer
    PROVE  SessionsOf(n)' = OneOrNone(store'[ns][n])
<1>1. {store'[ms][n] : ms \in Namespaces} \ {NoServer} =
          IF store'[ns][n] = NoServer THEN {} ELSE {store'[ns][n]}
  OBVIOUS
<1>2. CASE store'[ns][n] = NoServer
  BY <1>1, <1>2 DEF SessionsOf, OneOrNone
<1>3. CASE store'[ns][n] # NoServer
  BY <1>1, <1>3 DEF SessionsOf, OneOrNone, Abs
<1> QED BY <1>2, <1>3

\* One write changes the session of one name.
LEMMA WriteSession ==
    ASSUME OwnerInv, OwnerInv', NEW ns \in Namespaces, NEW n \in Names, NEW t,
           Write(ns, n, t), store[ns][n] # NoServer \/ t # NoServer
    PROVE  /\ AllSessions[n] = OneOrNone(store[ns][n])
           /\ AllSessions' = [AllSessions EXCEPT ![n] = OneOrNone(t)]
<1>1. TypeOK /\ AtMostOne /\ AtMostOne'
  BY DEF OwnerInv, Typed
<1>2. store'[ns][n] = t
  BY <1>1, WriteStore
<1>3. \A ms \in Namespaces, m \in Names :
          ~ (ms = ns /\ m = n) => store'[ms][m] = store[ms][m]
  BY <1>1 DEF Write, TypeOK
<1>4. \A ms \in Namespaces : ms # ns => store[ms][n] = NoServer /\ store'[ms][n] = NoServer
  BY <1>1, <1>2, <1>3 DEF AtMostOne
<1>5. SessionsOf(n) = OneOrNone(store[ns][n])
  BY <1>4, OneSession
<1>6. SessionsOf(n)' = OneOrNone(t)
  BY <1>2, <1>4, OneSessionNext
<1>7. ASSUME NEW m \in Names, m # n PROVE SessionsOf(m)' = SessionsOf(m)
  <2>1. {store'[ms][m] : ms \in Namespaces} = {store[ms][m] : ms \in Namespaces}
    BY <1>3, <1>7
  <2> QED BY <2>1 DEF SessionsOf
<1> QED BY <1>5, <1>6, <1>7 DEF AllSessions

\* The initial sessions are initial sessions.
LEMMA InitPromise == Init => Promise!Init
<1> SUFFICES ASSUME Init PROVE Promise!Init
  OBVIOUS
<1>1. PICK old \in [Names -> UNION {OldServers(n) : n \in Names}] :
          /\ \A n \in Names : old[n] \in OldServers(n)
          /\ store = [ns \in Namespaces |-> [n \in Names |-> In(ns, old[n])]]
  BY DEF Init
<1>2. ASSUME NEW n \in Names
      PROVE  SessionsOf(n) \in {{}} \cup {{s} : s \in {t \in Promise!Session : ~ t.stopping}}
  <2>1. CASE old[n] = NoServer
    <3>1. \A ms \in Namespaces : ms # Preferred => store[ms][n] = NoServer
      BY <1>1, <2>1 DEF In
    <3>2. store[Preferred][n] = NoServer
      BY <1>1, <2>1, PreferredNamespace DEF In
    <3> QED BY <3>1, <3>2, OneSession, PreferredNamespace DEF OneOrNone
  <2>2. CASE old[n] # NoServer
    <3>1. PICK ns \in Namespaces, h \in BOOLEAN : old[n] = OldServer(n, ns, h)
      BY <1>1, <2>2 DEF OldServers
    <3>2. old[n].ns = ns /\ old[n].uid = Old /\ old[n].hibernated = h /\ old[n].terminating = FALSE
      BY <3>1 DEF OldServer
    <3>3. store[ns][n] = old[n] /\ \A ms \in Namespaces : ms # ns => store[ms][n] = NoServer
      BY <1>1, <2>2, <3>2 DEF In
    <3>4. SessionsOf(n) = {Abs(old[n])}
      BY <2>2, <3>3, OneSession DEF OneOrNone
    <3>5. Abs(old[n]) \in Promise!Session /\ ~ Abs(old[n]).stopping
      BY <3>2 DEF Abs, Promise!Session
    <3> QED BY <3>4, <3>5
  <2> QED BY <2>1, <2>2
<1> QED BY <1>2 DEF Promise!Init

\* An update of a server hibernates, resumes or stops its session.
LEMMA UpdateSession ==
    ASSUME OwnerInv, OwnerInv', NEW ns \in Namespaces, NEW n \in Names, NEW t,
           Write(ns, n, t), Update(store[ns][n], t)
    PROVE  Promise!Next
<1> DEFINE s == store[ns][n]
<1>1. s # NoServer /\ t # NoServer
  BY NoServerAssumption DEF Update
<1>2. AllSessions[n] = {Abs(s)} /\ AllSessions' = [AllSessions EXCEPT ![n] = {Abs(t)}]
  BY <1>1, WriteSession DEF OneOrNone
<1>3. \/ Abs(t) = [Abs(s) EXCEPT !.hibernated = TRUE]
      \/ Abs(t) = [Abs(s) EXCEPT !.hibernated = FALSE]
      \/ Abs(t) = [Abs(s) EXCEPT !.stopping = TRUE]
  <2>1. /\ t.uid = s.uid /\ s.hibernated \in BOOLEAN /\ t.hibernated \in BOOLEAN
        /\ s.terminating \in BOOLEAN
        /\ t.terminating = s.terminating \/ (t.terminating = TRUE /\ t.hibernated = s.hibernated)
    BY DEF Update, Server
  <2>2. [Abs(s) EXCEPT !.hibernated = t.hibernated] =
            [id |-> s.uid, hibernated |-> t.hibernated, stopping |-> s.terminating]
    BY DEF Abs
  <2>3. [Abs(s) EXCEPT !.stopping = t.terminating] =
            [id |-> s.uid, hibernated |-> s.hibernated, stopping |-> t.terminating]
    BY DEF Abs
  <2>4. CASE t.terminating = s.terminating
    <3>1. Abs(t) = [Abs(s) EXCEPT !.hibernated = t.hibernated]
      BY <2>1, <2>2, <2>4 DEF Abs
    <3>2. t.hibernated = TRUE \/ t.hibernated = FALSE
      BY <2>1
    <3> QED BY <3>1, <3>2
  <2>5. CASE t.terminating = TRUE /\ t.hibernated = s.hibernated
    <3>1. Abs(t) = [Abs(s) EXCEPT !.stopping = t.terminating]
      BY <2>1, <2>3, <2>5 DEF Abs
    <3> QED BY <2>5, <3>1
  <2> QED BY <2>1, <2>4, <2>5
<1> HIDE DEF s
<1>4. Promise!Hibernate(n) \/ Promise!Resume(n) \/ Promise!Stop(n)
  BY <1>2, <1>3 DEF Promise!Hibernate, Promise!Resume, Promise!Stop, Promise!Becomes,
                    AllSessions
<1> QED BY <1>4 DEF Promise!Next

\* Every step of the handlers and of the cluster is one of Sessions, or none.
LEMMA StepPromise ==
    ASSUME OwnerInv, OwnerInv', [Next]_vars PROVE [Promise!Next]_AllSessions
<1>0. Typed /\ TypeOK
  BY DEF OwnerInv, Typed
<1>1. CASE UNCHANGED store
  <2>1. \A n \in Names : SessionsOf(n)' = SessionsOf(n)
    BY <1>1 DEF SessionsOf
  <2> QED BY <2>1 DEF AllSessions
<1>2. ASSUME NEW r \in Requests, Creates(r) PROVE Promise!Next
  <2> DEFINE n == req[r].name
  <2>1. n \in Names /\ Preferred \in Namespaces /\ NewServer(r) # NoServer
    BY <1>0, RequestType, PreferredNamespace, NewServerType, NoServerAssumption
  <2>2. AllSessions[n] = {} /\ AllSessions' = [AllSessions EXCEPT ![n] = {Abs(NewServer(r))}]
    BY <1>2, <2>1, WriteSession DEF Creates, OneOrNone
  <2>3. Abs(NewServer(r)) = Promise!Started(r)
    BY DEF Abs, NewServer, Promise!Started
  <2> HIDE DEF n
  <2>4. Promise!Start(n)
    BY <2>1, <2>2, <2>3 DEF Promise!Start, Promise!Becomes, AllSessions
  <2> QED BY <2>1, <2>4 DEF Promise!Next
<1>3. ASSUME NEW r \in Requests, NEW ns \in Namespaces, Updates(r, ns) PROVE Promise!Next
  BY <1>0, <1>3, RequestType, UpdateSession DEF Updates
<1>4. ASSUME NEW ns \in Namespaces, NEW n \in Names, StatusChanges(ns, n) PROVE Promise!Next
  <2> DEFINE t == store'[ns][n]
  <2>1. Update(store[ns][n], t) /\ Write(ns, n, t)
    BY <1>0, <1>4, StatusUpdates
  <2> HIDE DEF t
  <2> QED BY <2>1, UpdateSession
<1>5. ASSUME NEW ns \in Namespaces, NEW n \in Names, Finalize(ns, n) PROVE Promise!Next
  <2>1. Write(ns, n, NoServer) /\ store[ns][n] # NoServer /\ store[ns][n].terminating
    BY <1>5 DEF Finalize
  <2>2. AllSessions[n] = {Abs(store[ns][n])} /\ AllSessions' = [AllSessions EXCEPT ![n] = {}]
    BY <2>1, WriteSession DEF OneOrNone
  <2>3. Abs(store[ns][n]).stopping
    BY <2>1 DEF Abs
  <2>4. Promise!Remove(n)
    BY <2>2, <2>3 DEF Promise!Remove, Promise!Becomes, AllSessions
  <2> QED BY <2>4 DEF Promise!Next
<1> QED BY <1>0, <1>1, <1>2, <1>3, <1>4, <1>5, Writes DEF Deliver

\* The handlers, the lagging cache and the two namespaces together behave as
\* Sessions says.
THEOREM Implements == Spec => KeepsPromise
<1>1. OwnerInv /\ OwnerInv' /\ [Next]_vars =>
          [Promise!Next]_[n \in Names |-> SessionsOf(n)]
  BY StepPromise DEF AllSessions
<1> QED BY <1>1, InitPromise, OwnerInvariance, PTL DEF Spec, KeepsPromise, Promise!Spec

=============================================================================
