----------------------------- MODULE SessionApi -----------------------------
(***************************************************************************)
(* The session API of renku_notebooks (api/notebooks.py) over the K8sClient*)
(* (api/classes/k8s_client.py): POST, PATCH, DELETE and GET of one session *)
(* server, handled by concurrent workers.                                  *)
(*                                                                         *)
(* The JupyterServer objects live in the k8s API (store).  The handlers    *)
(* read them through the k8s-watcher (cache), which follows the API by     *)
(* watch events and lags behind it, and write them in the API.  Each call  *)
(* of the cache or of the API is one step; between two calls every other   *)
(* request, the watcher and the cluster may act.                           *)
(*                                                                         *)
(* With a session namespace configured, new servers go there and servers   *)
(* started before that remain in the namespace of Renku.                   *)
(***************************************************************************)
EXTENDS Integers, Sequences, FiniteSets

CONSTANTS
    Requests,      \* HTTP requests, each served once
    Users,
    Names,         \* server names
    Owner,         \* whose name it is: make_server_name hashes the username
    HasSessionNs,  \* whether a session namespace is configured
    Classes,       \* resource classes
    NoClass,
    Calls,         \* the requests that clients may send
    NumSecrets,    \* secrets that a launch stores for its server
    NumRetries,    \* of retry_with_exponential_backoff
    Faults,        \* whether the cache, the API and the workers may fail
    MaxLag,        \* bound: watch events that wait when a status changes
    Old,           \* the uid of a server that is there at the start
    NoServer,      \* None
    Failed         \* a lookup that raised an exception

Call == [op : {"launch", "patch", "stop", "get"}, user : Users, name : Names,
         state : {"hibernated", "running", "none"},
         class : Classes \cup {NoClass}]

ASSUME CallsAssumption ==
    /\ Calls \subseteq Call
    /\ \A c \in Calls : c.op = "launch" =>
           c.user = Owner[c.name] /\ c.class \in Classes

ASSUME OwnerAssumption == Owner \in [Names -> Users]

ASSUME BoundsAssumption ==
    /\ NumSecrets \in Nat
    /\ NumRetries \in Nat \ {0}
    /\ MaxLag \in Nat
    /\ HasSessionNs \in BOOLEAN
    /\ Faults \in BOOLEAN

ASSUME UidAssumption == Old \notin Requests

Namespaces == IF HasSessionNs THEN {"renku", "sessions"} ELSE {"renku"}

Preferred == IF HasSessionNs THEN "sessions" ELSE "renku"

Server == [uid : Requests \cup {Old}, owner : Users, ns : Namespaces,
           hibernated : BOOLEAN, failed : BOOLEAN, terminating : BOOLEAN,
           class : Classes \cup {NoClass}]

ASSUME NoServerAssumption ==
    NoServer \notin Server /\ Failed \notin Server /\ NoServer # Failed

LookupPC == {"lookup", "createLookup", "deleteLookup", "classLookup",
             "hibernateLookup", "resumeLookup"}

ApiPC == {"create", "await", "delete", "classPatch", "classStatefulset",
          "hibernatePatch", "patchTokens", "resumePatch"}

PC == LookupPC \cup ApiPC \cup {"secrets", "state", "done"}

\* Where the handler of each operation starts.
FirstStep(op) == IF op = "stop" THEN "deleteLookup" ELSE "lookup"

VARIABLES
    store,    \* the objects in the API, by namespace and name
    watch,    \* the versions of each object the watcher has not received
    cache,    \* the objects the watcher holds
    expired,  \* the statefulsets whose tokens have expired
    secrets,  \* the secrets stored, each with the uid of its owner
    pc,
    req,      \* the call of a request
    seen,     \* the server a request holds (server, new_server, manifest)
    target,   \* the namespace the K8sClient writes to
    tries,    \* calls of get_server that found nothing
    posted,   \* secrets that a launch has had stored
    resp      \* the status code; 0 before the answer and without one

cluster == <<store, watch, cache, expired, secrets>>

local == <<req, seen, target, tries, posted>>

vars == <<cluster, pc, local, resp>>

Goto(r, l) == pc' = [pc EXCEPT ![r] = l] /\ UNCHANGED resp

Respond(r, code) ==
    /\ pc' = [pc EXCEPT ![r] = "done"]
    /\ resp' = [resp EXCEPT ![r] = code]

\* A write in the API, which the watcher will be told of.
Write(ns, n, s) ==
    /\ store' = [store EXCEPT ![ns][n] = s]
    /\ watch' = [watch EXCEPT ![ns][n] = Append(@, s)]

OldServer(n, ns, h) ==
    [uid |-> Old, owner |-> Owner[n], ns |-> ns, hibernated |-> h,
     failed |-> FALSE, terminating |-> FALSE, class |-> NoClass]

\* What a name may have at the start, in a cache that is up to date.
OldServers(n) ==
    {NoServer} \cup {OldServer(n, ns, h) : ns \in Namespaces, h \in BOOLEAN}

In(ns, s) == IF s # NoServer /\ s.ns = ns THEN s ELSE NoServer

Init ==
    /\ \E old \in [Names -> UNION {OldServers(n) : n \in Names}] :
           /\ \A n \in Names : old[n] \in OldServers(n)
           /\ store = [ns \in Namespaces |-> [n \in Names |-> In(ns, old[n])]]
    /\ watch = [ns \in Namespaces |-> [n \in Names |-> <<>>]]
    /\ cache = store
    /\ expired = {}
    /\ secrets = {}
    /\ req \in [Requests -> Calls]
    /\ pc = [r \in Requests |-> FirstStep(req[r].op)]
    /\ seen = [r \in Requests |-> NoServer]
    /\ target = [r \in Requests |-> Preferred]
    /\ tries = [r \in Requests |-> 0]
    /\ posted = [r \in Requests |-> 0]
    /\ resp = [r \in Requests |-> 0]

-----------------------------------------------------------------------------
(***************************************************************************)
(* K8sClient.get_server.                                                   *)
(***************************************************************************)

FoundInPreferred(view, n) == {view[Preferred][n]} \ {NoServer}

\* The servers with a name, in every namespace.
Found(view, n) == {view[ns][n] : ns \in Namespaces} \ {NoServer}

OwnedByAnyone(s, u) == TRUE

OwnedBy(s, u) == s.owner = u

\* Two servers with one name are a ProgrammingError; the server of someone
\* else is None.
LookupIn(view, n, u) ==
    IF Cardinality(Found(view, n)) > 1
        THEN {Failed}
        ELSE IF \E s \in Found(view, n) : OwnedBy(s, u)
                 THEN Found(view, n)
                 ELSE {NoServer}

\* What a lookup may return.  When the cache fails the API is asked instead,
\* and that may fail too.
get_server(r) ==
    LookupIn(cache, req[r].name, req[r].user)
        \cup IF Faults
                 THEN LookupIn(store, req[r].name, req[r].user) \cup {Failed}
                 ELSE {}

Finds(r) == get_server(r) \ {NoServer, Failed}

FindsNone(r) == NoServer \in get_server(r)

At(r, op, l) == req[r].op = op /\ pc[r] = l

\* The exceptions of get_server reach the error handler.
LookupFails(r) ==
    /\ pc[r] \in LookupPC
    /\ Failed \in get_server(r)
    /\ Respond(r, 500)
    /\ UNCHANGED <<cluster, local>>

\* A call of the API that fails: every handler turns it into a 500.
ApiFails(r) ==
    /\ Faults
    /\ pc[r] \in ApiPC
    /\ Respond(r, 500)
    /\ UNCHANGED <<cluster, local>>

\* The worker dies, or the answer of its last write is lost.
Crash(r) ==
    /\ Faults
    /\ pc[r] # "done"
    /\ Goto(r, "done")
    /\ UNCHANGED <<cluster, local>>

-----------------------------------------------------------------------------
(***************************************************************************)
(* GET and POST.                                                           *)
(***************************************************************************)

\* user_server, and the early return of launch_notebook_helper.
AnswerFound(r) ==
    /\ At(r, "get", "lookup") \/ At(r, "launch", "lookup")
    /\ \E s \in Finds(r) : seen' = [seen EXCEPT ![r] = s]
    /\ Respond(r, 200)
    /\ UNCHANGED <<cluster, req, target, tries, posted>>

GetMissing(r) ==
    /\ At(r, "get", "lookup")
    /\ FindsNone(r)
    /\ Respond(r, 404)
    /\ UNCHANGED <<cluster, local>>

\* The image, the resource class, the storage or the repository of the
\* request may be refused before the server is created.
ValidateLaunch(r) ==
    /\ At(r, "launch", "lookup")
    /\ FindsNone(r)
    /\ \/ Goto(r, "createLookup")
       \/ \E code \in {404, 422} : Respond(r, code)
    /\ UNCHANGED <<cluster, local>>

\* K8sClient.create_server looks again.
LookBeforeCreate(r) ==
    /\ pc[r] = "createLookup"
    /\ \/ /\ \E s \in Finds(r) : seen' = [seen EXCEPT ![r] = s]
          /\ Goto(r, "secrets")
       \/ /\ FindsNone(r)
          /\ Goto(r, "create")
          /\ UNCHANGED seen
    /\ UNCHANGED <<cluster, req, target, tries, posted>>

NewServer(r) ==
    [uid |-> r, owner |-> req[r].user, ns |-> Preferred, hibernated |-> FALSE,
     failed |-> FALSE, terminating |-> FALSE, class |-> req[r].class]

\* The API refuses a name in use.  The tokens come from the request.
CreateServer(r) ==
    LET n == req[r].name IN
    /\ pc[r] = "create"
    /\ IF store[Preferred][n] = NoServer
           THEN /\ Write(Preferred, n, NewServer(r))
                /\ expired' = expired \ {<<Preferred, n>>}
                /\ Goto(r, "await")
           ELSE Respond(r, 500) /\ UNCHANGED <<store, watch, expired>>
    /\ UNCHANGED <<cache, secrets, local>>

\* The server that the handler goes on with is the one it reads here, from
\* the API and by name alone.
AwaitServer(r) ==
    LET s == store[Preferred][req[r].name] IN
    /\ pc[r] = "await"
    /\ s # NoServer
    /\ seen' = [seen EXCEPT ![r] = s]
    /\ Goto(r, "secrets")
    /\ UNCHANGED <<cluster, req, target, tries, posted>>

RetryAwaitUncounted(r) ==
    /\ pc[r] = "await"
    /\ store[Preferred][req[r].name] = NoServer
    /\ UNCHANGED vars

GivesUpLate(k) == k > NumRetries

GivesUp(k) == k >= NumRetries

\* retry_with_exponential_backoff; the last miss is a RetryTimeoutError.
RetryAwait(r) ==
    /\ pc[r] = "await"
    /\ store[Preferred][req[r].name] = NoServer
    /\ tries' = [tries EXCEPT ![r] = @ + 1]
    /\ IF GivesUp(tries'[r]) THEN Respond(r, 500) ELSE UNCHANGED <<pc, resp>>
    /\ UNCHANGED <<cluster, req, seen, target, posted>>

SecretAcceptedAnyStatus == {201, 500}

\* The status of the secrets service that create_secret takes for success.
SecretAccepted == {201}

\* create_secret, once for the user secrets and once per cloud storage.
CreateSecret(r) ==
    /\ pc[r] = "secrets"
    /\ posted[r] < NumSecrets
    /\ \E status \in {201, 500} :
           /\ IF status = 201
                  THEN secrets' = secrets \cup {<<seen[r].uid, posted[r] + 1>>}
                  ELSE UNCHANGED secrets
           /\ IF status \in SecretAccepted
                  THEN /\ posted' = [posted EXCEPT ![r] = @ + 1]
                       /\ UNCHANGED <<pc, resp>>
                  ELSE Goto(r, "deleteLookup") /\ UNCHANGED posted
    /\ UNCHANGED <<store, watch, cache, expired, req, seen, target, tries>>

Launched(r) ==
    /\ pc[r] = "secrets"
    /\ posted[r] = NumSecrets
    /\ Respond(r, 201)
    /\ UNCHANGED <<cluster, local>>

-----------------------------------------------------------------------------
(***************************************************************************)
(* DELETE, and the undoing of a launch whose secrets could not be stored:  *)
(* both call K8sClient.delete_server, which deletes by name.               *)
(***************************************************************************)

LookBeforeDelete(r) ==
    /\ pc[r] = "deleteLookup"
    /\ \/ /\ \E s \in Finds(r) : target' = [target EXCEPT ![r] = s.ns]
          /\ Goto(r, "delete")
       \/ /\ FindsNone(r)
          /\ Respond(r, 404)
          /\ UNCHANGED target
    /\ UNCHANGED <<cluster, req, seen, tries, posted>>

Terminated(s) == [s EXCEPT !.terminating = TRUE]

\* Foreground propagation: the object stays until its dependents are gone.
DeleteServer(r) ==
    LET n == req[r].name
        s == store[target[r]][n]
    IN  /\ pc[r] = "delete"
        /\ IF s = NoServer \/ s.terminating
               THEN UNCHANGED <<store, watch>>
               ELSE Write(target[r], n, Terminated(s))
        /\ Respond(r, IF s # NoServer /\ req[r].op = "stop" THEN 204 ELSE 500)
        /\ UNCHANGED <<cache, expired, secrets, local>>

-----------------------------------------------------------------------------
(***************************************************************************)
(* PATCH.                                                                  *)
(***************************************************************************)

\* server.get on None is an AttributeError.
PatchMissing(r) ==
    /\ At(r, "patch", "lookup")
    /\ FindsNone(r)
    /\ Respond(r, 500)
    /\ UNCHANGED <<cluster, local>>

\* A patch is refused before it looks for anonymous users, and after it
\* when the class may not change or is not valid.
PatchRefused(r) ==
    /\ \/ At(r, "patch", "lookup")
       \/ pc[r] = "classLookup"
    /\ Respond(r, 422)
    /\ UNCHANGED <<cluster, local>>

ClassMayChange(s) == s.hibernated \/ s.failed

LookBeforePatch(r) ==
    /\ At(r, "patch", "lookup")
    /\ \E s \in Finds(r) :
           /\ seen' = [seen EXCEPT ![r] = s]
           /\ IF req[r].class = NoClass
                  THEN Goto(r, "state")
                  ELSE IF ClassMayChange(s) THEN Goto(r, "classLookup")
                                            ELSE Respond(r, 422)
    /\ UNCHANGED <<cluster, req, target, tries, posted>>

\* patch_statefulset sets the priority class, which the model leaves out.
PatchStatefulset(r) ==
    /\ pc[r] = "classStatefulset"
    /\ Goto(r, "state")
    /\ UNCHANGED <<cluster, local>>

\* The server found first, not the patched one, tells whether there is
\* anything to hibernate.
PatchState(r) ==
    /\ pc[r] = "state"
    /\ CASE req[r].state = "hibernated" /\ ~ seen[r].hibernated ->
                Goto(r, "hibernateLookup")
         [] req[r].state = "running" -> Goto(r, "patchTokens")
         [] OTHER -> Respond(r, 200)
    /\ UNCHANGED <<cluster, local>>

TokenNamespaceOfRenku == "renku"

\* K8sClient.patch_tokens and patch_statefulset choose the namespace by the
\* configuration, not by the server.
TokenNamespace == Preferred

\* A statefulset that does not exist is ignored.
PatchTokens(r) ==
    /\ pc[r] = "patchTokens"
    /\ expired' = expired \ {<<TokenNamespace, req[r].name>>}
    /\ Goto(r, "resumeLookup")
    /\ UNCHANGED <<store, watch, cache, secrets, local>>

\* K8sClient.patch_server: the lookup, and the patch it leads to.
PatchAfter == [classLookup |-> "classPatch",
               hibernateLookup |-> "hibernatePatch",
               resumeLookup |-> "resumePatch"]

LookForPatch(r) ==
    /\ pc[r] \in DOMAIN PatchAfter
    /\ \/ /\ \E s \in Finds(r) : target' = [target EXCEPT ![r] = s.ns]
          /\ Goto(r, PatchAfter[pc[r]])
       \/ /\ FindsNone(r)
          /\ Respond(r, 404)
          /\ UNCHANGED target
    /\ UNCHANGED <<cluster, req, seen, tries, posted>>

PatchServer(r) ==
    LET n == req[r].name
        s == store[target[r]][n]
        patched == CASE pc[r] = "classPatch" -> [s EXCEPT !.class = req[r].class]
                     [] pc[r] = "hibernatePatch" -> [s EXCEPT !.hibernated = TRUE]
                     [] pc[r] = "resumePatch" -> [s EXCEPT !.hibernated = FALSE]
    IN  /\ pc[r] \in {PatchAfter[l] : l \in DOMAIN PatchAfter}
        /\ IF s = NoServer
               THEN /\ Respond(r, 500)
                    /\ UNCHANGED <<store, watch, seen>>
               ELSE /\ Write(target[r], n, patched)
                    /\ IF pc[r] = "classPatch"
                           THEN Goto(r, "classStatefulset") /\ UNCHANGED seen
                           ELSE /\ Respond(r, 200)
                                /\ seen' = [seen EXCEPT ![r] = patched]
        /\ UNCHANGED <<cache, expired, secrets, req, target, tries, posted>>

-----------------------------------------------------------------------------
(***************************************************************************)
(* The watcher and the cluster.                                            *)
(***************************************************************************)

\* The informer of a namespace handles the next event of an object.
Deliver(ns, n) ==
    /\ watch[ns][n] # <<>>
    /\ cache' = [cache EXCEPT ![ns][n] = Head(watch[ns][n])]
    /\ watch' = [watch EXCEPT ![ns][n] = Tail(@)]
    /\ UNCHANGED <<store, expired, secrets, pc, local, resp>>

\* The dependents of a deleted object are gone.
Finalize(ns, n) ==
    /\ store[ns][n] # NoServer
    /\ store[ns][n].terminating
    /\ Write(ns, n, NoServer)
    /\ UNCHANGED <<cache, expired, secrets, pc, local, resp>>

\* Amalthea finds that a running session fails, or has recovered.
StatusChanges(ns, n) ==
    /\ store[ns][n] # NoServer
    /\ ~ store[ns][n].hibernated
    /\ Len(watch[ns][n]) < MaxLag
    /\ Write(ns, n, [store[ns][n] EXCEPT !.failed = ~ @])
    /\ UNCHANGED <<cache, expired, secrets, pc, local, resp>>

\* Nobody refreshes the tokens of a hibernated session.  They outlive the
\* request that sets them: it takes seconds.
TokensExpire(ns, n) ==
    /\ store[ns][n] # NoServer
    /\ store[ns][n].hibernated
    /\ \A r \in Requests :
           pc[r] \in {"resumeLookup", "resumePatch"} => req[r].name # n
    /\ expired' = expired \cup {<<ns, n>>}
    /\ UNCHANGED <<store, watch, cache, secrets, pc, local, resp>>

-----------------------------------------------------------------------------
Serve(r) ==
    \/ LookupFails(r) \/ AnswerFound(r) \/ GetMissing(r)
    \/ ValidateLaunch(r) \/ LookBeforeCreate(r) \/ CreateServer(r)
    \/ AwaitServer(r) \/ RetryAwait(r) \/ CreateSecret(r) \/ Launched(r)
    \/ LookBeforeDelete(r) \/ DeleteServer(r)
    \/ PatchMissing(r) \/ PatchRefused(r) \/ LookBeforePatch(r)
    \/ PatchStatefulset(r) \/ PatchState(r) \/ PatchTokens(r)
    \/ LookForPatch(r) \/ PatchServer(r)

Cluster(ns, n) ==
    Deliver(ns, n) \/ Finalize(ns, n) \/ StatusChanges(ns, n)
        \/ TokensExpire(ns, n)

\* The instance ends when its requests are served; the API goes on.
AllServed == (\A r \in Requests : pc[r] = "done") /\ UNCHANGED vars

Next ==
    \/ AllServed
    \/ \E r \in Requests : Serve(r) \/ ApiFails(r) \/ Crash(r)
    \/ \E ns \in Namespaces, n \in Names : Cluster(ns, n)

Spec == Init /\ [][Next]_vars

\* A worker that runs goes on; nothing is promised of the cluster.
FairSpec == Spec /\ \A r \in Requests : WF_vars(Serve(r))

-----------------------------------------------------------------------------
(***************************************************************************)
(* Properties.                                                             *)
(***************************************************************************)

Versions == Server \cup {NoServer}

Status == {0, 200, 201, 204, 404, 422, 500}

\* The type of every variable; the retries stay within num_retries of
\* retry_with_exponential_backoff.
TypeOK ==
    /\ store \in [Namespaces -> [Names -> Versions]]
    /\ cache \in [Namespaces -> [Names -> Versions]]
    /\ watch \in [Namespaces -> [Names -> Seq(Versions)]]
    /\ expired \subseteq Namespaces \X Names
    /\ secrets \subseteq (Requests \cup {Old}) \X (1 .. NumSecrets)
    /\ pc \in [Requests -> PC]
    /\ req \in [Requests -> Calls]
    /\ seen \in [Requests -> Versions]
    /\ target \in [Requests -> Namespaces]
    /\ tries \in [Requests -> 0 .. NumRetries]
    /\ posted \in [Requests -> 0 .. NumSecrets]
    /\ resp \in [Requests -> Status]

\* A name never has a server in both namespaces: create_server looks in all
\* of them, through a cache that lags, before it creates one in the
\* preferred namespace.  Two would make every later lookup of get_server
\* a ProgrammingError.
OneServerPerName ==
    \A n \in Names :
        Cardinality({ns \in Namespaces : store[ns][n] # NoServer}) <= 1

\* A request creates, patches and deletes only servers of its own user,
\* whatever name it gives and whatever happens between get_server and the
\* write: the owner is tested at the lookup, the write goes by name.
OwnServersOnly ==
    [][\A r \in Requests : pc'[r] # pc[r] =>
           \A ns \in Namespaces, n \in Names : store'[ns][n] # store[ns][n] =>
               \A s \in {store[ns][n], store'[ns][n]} \ {NoServer} :
                   s.owner = req[r].user]_vars

\* No answer shows the server of someone else, although the handler of a
\* launch reads the new server by its name alone.
AnswersOwnServer ==
    \A r \in Requests :
        seen[r] # NoServer => seen[r].owner = req[r].user

\* A launch that answers 201 has had every secret stored for the very
\* server it answers with, the one create_server read back.
LaunchedWithSecrets ==
    \A r \in Requests : resp[r] = 201 =>
        {seen[r].uid} \X (1 .. NumSecrets) \subseteq secrets

Running(s) == s # NoServer /\ ~ s.hibernated

\* A session that runs in the preferred namespace has tokens that were
\* renewed since it was last hibernated: patch_tokens comes before the patch
\* that resumes it, and nothing in between undoes it.
PreferredRunsWithTokens ==
    \A n \in Names :
        Running(store[Preferred][n]) => <<Preferred, n>> \notin expired

\* The sessions of a name, as a user of the API thinks of them.
SessionsOf(n) ==
    {[id |-> s.uid, hibernated |-> s.hibernated, stopping |-> s.terminating] :
        s \in {store[ns][n] : ns \in Namespaces} \ {NoServer}}

Promise == INSTANCE Sessions WITH
               Ids <- Requests \cup {Old},
               sessions <- [n \in Names |-> SessionsOf(n)]

\* The handlers, the lagging cache and the two namespaces together behave as
\* Sessions says: a launch, a patch or a rollback that acts on what the cache
\* showed some time ago never starts a second session of a name, never turns
\* a session into another and never revives one that is being stopped.
KeepsPromise == Promise!Spec

\* Every request is answered, or its worker is gone: in particular the wait
\* of create_server for the new server ends.
AllAnswered == \A r \in Requests : <>(pc[r] = "done")

-----------------------------------------------------------------------------
(***************************************************************************)
(* What the code says and does not keep.                                   *)
(***************************************************************************)

\* "here we inject new ones to make sure everything is valid when the
\* session starts back up" (notebooks.py:690).  patch_tokens looks for the
\* statefulset in the preferred namespace only.
RunsWithTokens ==
    \A ns \in Namespaces, n \in Names :
        Running(store[ns][n]) => <<ns, n>> \notin expired

\* "The resource class can be changed only if the server is hibernated or
\* failing" (notebooks.py:584).  The test reads a server from the cache.
ClassChangesWhenAllowed ==
    [][\A ns \in Namespaces, n \in Names :
           /\ store[ns][n] # NoServer
           /\ store'[ns][n] # NoServer
           /\ store'[ns][n].class # store[ns][n].class
           => ClassMayChange(store[ns][n])]_vars

=============================================================================
