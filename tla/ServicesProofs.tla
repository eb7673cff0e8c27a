---------------------------- MODULE ServicesProofs ----------------------------
(***************************************************************************)
(* Proofs about the services of Services, for any sessions, directories,   *)
(* configurations, namespaces, servers and containers.  The services share *)
(* no state, and each of them has an inductive invariant of its own.       *)
(***************************************************************************)
EXTENDS Services, Induction

-----------------------------------------------------------------------------
(***************************************************************************)
(* The processes of the git proxy.                                         *)
(***************************************************************************)

ProxyTypeOK ==
    /\ main \in {"config", "wait", "health", "proxy", "exited"}
    /\ server \in [ProxyProcess!HttpServers -> {"new", "listening", "closed"}]
    /\ signal \in BOOLEAN
    /\ probe \in {"idle", "health", "asked", "ok", "failed"}

\* The servers run, and are probed, only while main does; they close only
\* after SIGTERM or with the process.
ServersOfMain ==
    /\ main = "config" => \A s \in ProxyProcess!HttpServers : server[s] = "new"
    /\ main \in {"config", "exited"} => probe = "idle"
    /\ main = "exited" => \A s \in ProxyProcess!HttpServers : server[s] # "listening"
    /\ main \in {"health", "proxy"} => signal
    /\ \A s \in ProxyProcess!HttpServers :
           server[s] = "closed" => signal \/ main = "exited"

\* A probe that has reached the proxy found it listening.
ProbeOfProxy ==
    probe \in {"asked", "ok"} /\ ~ signal => server["proxy"] = "listening"

ProcessInv == ProxyTypeOK /\ ServersOfMain /\ ProbeOfProxy

\* The process starts without servers, or does not run at all.
LEMMA ProcessInit == Init => ProcessInv
BY DEF Init, NoProxy, ProxyProcess!Init, ProxyProcess!HttpServers, ProcessInv,
       ProxyTypeOK,
       ServersOfMain, ProbeOfProxy

\* Every step of the process keeps the invariant.
LEMMA ProcessKeeps == ASSUME ProcessInv, [ProxyProcess!Next]_proxyVars PROVE ProcessInv'
<1> USE DEF ProcessInv, ProxyTypeOK, ServersOfMain, ProbeOfProxy, ProxyProcess!HttpServers
<1>1. ASSUME ProxyProcess!Exit, signal' = signal PROVE ProcessInv'
  BY <1>1 DEF ProxyProcess!Exit
<1>2. ASSUME ProxyProcess!Start PROVE ProcessInv'
  BY <1>2 DEF ProxyProcess!Start
<1>3. ASSUME ProxyProcess!Invalid PROVE ProcessInv'
  BY <1>1, <1>3 DEF ProxyProcess!Invalid, ProxyProcess!Exit
<1>4. ASSUME ProxyProcess!Sigterm PROVE ProcessInv'
  BY <1>4 DEF ProxyProcess!Sigterm
<1>5. ASSUME NEW s \in ProxyProcess!HttpServers, ProxyProcess!Listen(s) PROVE ProcessInv'
  BY <1>5 DEF ProxyProcess!Listen
<1>6. ASSUME NEW s \in ProxyProcess!HttpServers,
             ProxyProcess!ListenFails(s) \/ ProxyProcess!ServeReturns(s)
      PROVE ProcessInv'
  BY <1>1, <1>6 DEF ProxyProcess!ListenFails, ProxyProcess!ServeReturns,
                    ProxyProcess!ServeEnds, ProxyProcess!Exit
<1>7. ASSUME ProxyProcess!ShutdownHealth \/ ProxyProcess!ShutdownProxy PROVE ProcessInv'
  BY <1>7 DEF ProxyProcess!ShutdownHealth, ProxyProcess!ShutdownProxy,
              ProxyProcess!CloseServer
<1>8. ASSUME ProxyProcess!MainReturns PROVE ProcessInv'
  BY <1>1, <1>8 DEF ProxyProcess!MainReturns, ProxyProcess!Exit
<1>9. ASSUME ProxyProcess!Receive \/ ProxyProcess!Handle \/ ProxyProcess!Forward
             \/ ProxyProcess!Answered \/ UNCHANGED proxyVars
      PROVE ProcessInv'
  <2>1. UNCHANGED <<main, server, signal, probe>>
    BY <1>9 DEF ProxyProcess!Receive, ProxyProcess!Handle, ProxyProcess!Forward,
                ProxyProcess!Answered, proxyVars
  <2> QED BY <2>1
<1>10. ASSUME ProxyProcess!Probe \/ ProxyProcess!AskThroughProxy
              \/ ProxyProcess!ProbeAnswered
       PROVE ProcessInv'
  BY <1>10 DEF ProxyProcess!Probe, ProxyProcess!AskThroughProxy, ProxyProcess!AskPing,
               ProxyProcess!ProbeAnswered
<1> QED BY <1>2, <1>3, <1>4, <1>5, <1>6, <1>7, <1>8, <1>9, <1>10 DEF ProxyProcess!Next

\* Steps of the other services leave the process alone.
LEMMA ProxySteps == [Next]_vars => [ProxyProcess!Next]_proxyVars
BY DEF Next, vars

\* The invariant of the process, at any time a signal comes and whichever
\* server fails.
THEOREM ProcessInvariance == Spec => []ProcessInv
<1>1. ProcessInv /\ [Next]_vars => ProcessInv'
  BY ProxySteps, ProcessKeeps
<1> QED BY ProcessInit, <1>1, PTL DEF Spec

\* Before SIGTERM, a probe is answered with ok only while the proxy takes
\* connections (getHealthHandler).
THEOREM Healthy == Spec => []HealthyMeansServing
<1>1. ProcessInv => HealthyMeansServing
  BY DEF ProcessInv, ProbeOfProxy, HealthyMeansServing, ProxyProcess!HealthyMeansServing
<1> QED BY ProcessInvariance, <1>1, PTL

-----------------------------------------------------------------------------
(***************************************************************************)
(* The requests that go through the git proxy.                             *)
(***************************************************************************)

\* The handlers of the first repositories were asked about the request: the
\* one of repository i has a token for it.
Passed(i) ==
    /\ i \in DOMAIN config.repositories
    /\ i < request.handler
    /\ ProxyProcess!HasHandler(config.repositories[i])
    /\ ProxyProcess!Matches(request.url, config.repositories[i])

\* A request has a token exactly if one of the handlers so far matched it,
\* and it is the token of one that did.
TokenOfHandler ==
    /\ config \in Configs
    /\ request # None =>
        /\ request.url \in Urls
        /\ DOMAIN request = {"url", "handler", "token", "step"}
        /\ request.handler \in Nat \ {0}
        /\ request.step = "remote" => request.handler > Len(config.repositories)
        /\ request.token # None =>
               \E i \in Nat : Passed(i) /\ config.repositories[i].provider = request.token
        /\ (\E i \in Nat : Passed(i)) => request.token # None

\* A URL that a handler matches is one of its repository: with "www." in
\* front of one of the hosts, of both or of none.
LEMMA MatchBelongs ==
    ASSUME NEW url, NEW repo, ProxyProcess!IsUrl(url), ProxyProcess!IsUrl(repo.url),
           ProxyProcess!Matches(url, repo)
    PROVE  ProxyProcess!BelongsTo(url, repo)
<1>1. url.host \in [www : Nat, name : {url.host.name}]
      /\ repo.url.host \in [www : Nat, name : {repo.url.host.name}]
  BY DEF ProxyProcess!IsUrl
<1>2. ProxyProcess!hostsMatch(url.host, repo.url.host)
  BY DEF ProxyProcess!Matches, ProxyProcess!validGitRequest
<1>3. /\ url.host.name = repo.url.host.name
      /\ url.host.www \in {repo.url.host.www - 1, repo.url.host.www,
         repo.url.host.www + 1}
  BY <1>1, <1>2 DEF ProxyProcess!hostsMatch, ProxyProcess!WithWww
<1> QED BY <1>3 DEF ProxyProcess!Matches, ProxyProcess!validGitRequest,
                    ProxyProcess!BelongsTo

\* The other way round on the default port of https, for a repository that
\* is written without "www.": there goproxy compares the same host.
LEMMA BelongsMatch ==
    ASSUME NEW url, NEW repo, ProxyProcess!IsUrl(url), ProxyProcess!IsUrl(repo.url),
           ProxyProcess!BelongsTo(url, repo), repo.url.host.www = 0,
           repo.url.scheme = "https", ProxyProcess!getPort(repo.url) = 443
    PROVE  ProxyProcess!Matches(url, repo)
<1>1. url.host \in [www : Nat, name : {url.host.name}]
      /\ repo.url.host \in [www : Nat, name : {repo.url.host.name}]
  BY DEF ProxyProcess!IsUrl
<1>2. url.host.name = repo.url.host.name /\ url.host.www \in {0, 1}
  BY <1>1 DEF ProxyProcess!BelongsTo
<1>3. url.host \in {repo.url.host, ProxyProcess!WithWww(repo.url.host)}
  BY <1>1, <1>2 DEF ProxyProcess!WithWww
<1>4. ProxyProcess!hostsMatch(url.host, repo.url.host)
  BY <1>1, <1>2 DEF ProxyProcess!hostsMatch, ProxyProcess!WithWww
<1>5. url.scheme = "https" /\ ProxyProcess!getPort(url) = 443
  BY DEF ProxyProcess!BelongsTo
<1> QED BY <1>3, <1>4, <1>5 DEF ProxyProcess!Matches, ProxyProcess!validGitRequest,
                                ProxyProcess!ReqHostIs, ProxyProcess!BelongsTo

\* A configuration lists repositories that have a provider and a URL.
LEMMA RepositoriesType ==
    ASSUME config \in Configs
    PROVE  /\ DOMAIN config.repositories = 1 .. Len(config.repositories)
           /\ Len(config.repositories) \in Nat
           /\ \A i \in DOMAIN config.repositories :
                  /\ config.repositories[i].provider # None
                  /\ ProxyProcess!IsUrl(config.repositories[i].url)
<1> DEFINE c == config
           rs == c.repositories
           S == ProxyProcess!ToSet(rs)
<1>1. rs \in Seq(S) /\ \A r \in S : ProxyProcess!IsUrl(r.url) /\ r.provider # None
  BY ProxyAssumption DEF ProxyProcess!IsConfig
<1>2. \A i \in DOMAIN rs : rs[i] \in S
  BY DEF ProxyProcess!ToSet
<1> HIDE DEF rs, S
<1>3. DOMAIN rs = 1 .. Len(rs) /\ Len(rs) \in Nat
  BY <1>1
<1> QED BY <1>1, <1>2, <1>3 DEF rs

\* Without a process there is no request.
LEMMA RequestInit == Init => TokenOfHandler
<1>1. (CHOOSE c \in Configs : TRUE) \in Configs
  BY ProxyAssumption
<1> QED BY <1>1 DEF Init, NoProxy, ProxyProcess!Init, TokenOfHandler

\* A handler that matches sets the token in the place of an earlier one, and
\* an error of it ends the request.
LEMMA RequestKeeps ==
    ASSUME TokenOfHandler, [ProxyProcess!Next]_proxyVars
    PROVE  TokenOfHandler'
<1>0. config' = config
  BY DEF ProxyProcess!Next, ProxyProcess!Start, ProxyProcess!Invalid, ProxyProcess!Exit,
         ProxyProcess!Sigterm, ProxyProcess!Listen, ProxyProcess!ListenFails,
         ProxyProcess!ServeReturns, ProxyProcess!ServeEnds, ProxyProcess!ShutdownHealth,
         ProxyProcess!ShutdownProxy, ProxyProcess!MainReturns, ProxyProcess!Receive,
         ProxyProcess!Handle, ProxyProcess!Forward, ProxyProcess!Answered,
         ProxyProcess!Probe, ProxyProcess!AskThroughProxy, ProxyProcess!ProbeAnswered,
         proxyVars
<1>1. request' \in {request, None} \/ ProxyProcess!Receive \/ ProxyProcess!Handle
         \/ ProxyProcess!Forward
  BY DEF ProxyProcess!Next, ProxyProcess!Start, ProxyProcess!Invalid, ProxyProcess!Exit,
         ProxyProcess!Sigterm, ProxyProcess!Listen, ProxyProcess!ListenFails,
         ProxyProcess!ServeReturns, ProxyProcess!ServeEnds, ProxyProcess!ShutdownHealth,
         ProxyProcess!ShutdownProxy, ProxyProcess!MainReturns, ProxyProcess!Answered,
         ProxyProcess!Probe, ProxyProcess!AskThroughProxy, ProxyProcess!ProbeAnswered,
         proxyVars
<1> SUFFICES ASSUME request' # None PROVE TokenOfHandler'
  BY <1>0 DEF TokenOfHandler
<1>2. CASE request' = request
  BY <1>0, <1>2 DEF TokenOfHandler, Passed, ProxyProcess!HasHandler
<1>3. CASE ProxyProcess!Receive
  <2>1. PICK url \in Urls :
            request' = [url |-> url, handler |-> 1, token |-> None, step |-> "handlers"]
    BY <1>3 DEF ProxyProcess!Receive
  <2>2. ASSUME NEW i \in Nat, Passed(i)' PROVE FALSE
    <3>1. i \in DOMAIN config.repositories /\ i < 1
      BY <1>0, <2>1, <2>2 DEF Passed
    <3> QED BY <3>1, RepositoriesType DEF TokenOfHandler
  <2> QED BY <1>0, <2>1, <2>2 DEF TokenOfHandler
<1>4. CASE ProxyProcess!Forward
  <2>1. /\ request # None
        /\ request.handler > Len(config.repositories)
        /\ request' = [request EXCEPT !.step = "remote"]
    BY <1>4 DEF ProxyProcess!Forward
  <2>2. /\ DOMAIN request' = {"url", "handler", "token", "step"}
        /\ request'.url = request.url /\ request'.handler = request.handler
        /\ request'.token = request.token /\ request'.step = "remote"
    BY <2>1 DEF TokenOfHandler
  <2>3. \A i \in Nat : Passed(i)' <=> Passed(i)
    BY <1>0, <2>2 DEF Passed, ProxyProcess!HasHandler
  <2> QED BY <1>0, <2>1, <2>2, <2>3 DEF TokenOfHandler
<1>5. CASE ProxyProcess!Handle
  <2>0. PICK k : k = request.handler
    OBVIOUS
  <2> DEFINE repo == config.repositories[k]
             found == ProxyProcess!HasHandler(repo) /\ ProxyProcess!Matches(request.url,
                repo)
  <2>1. /\ request # None /\ request.step = "handlers"
        /\ k <= Len(config.repositories)
        /\ request' = IF found
                          THEN [request EXCEPT !.handler = @ + 1, !.token = repo.provider]
                          ELSE [request EXCEPT !.handler = @ + 1]
    BY <1>5, <2>0 DEF ProxyProcess!Handle, ProxyProcess!Unauthorized
  <2>2. DOMAIN request = {"url", "handler", "token", "step"} /\ k \in Nat \ {0}
    BY <2>0, <2>1 DEF TokenOfHandler
  <2> HIDE DEF found
  <2>3. /\ DOMAIN request' = {"url", "handler", "token", "step"}
        /\ request'.url = request.url /\ request'.handler = k + 1
        /\ request'.token = IF found THEN repo.provider ELSE request.token
        /\ request'.step = "handlers"
    BY <2>0, <2>1, <2>2
  <2>4. ASSUME NEW i \in Nat
        PROVE  Passed(i)' <=>
                   Passed(i) \/ (i = k /\ i \in DOMAIN config.repositories /\ found)
    BY <1>0, <2>0, <2>2, <2>3 DEF Passed, ProxyProcess!HasHandler, found
  <2>6. /\ request'.url \in Urls
        /\ DOMAIN request' = {"url", "handler", "token", "step"}
        /\ request'.handler \in Nat \ {0}
        /\ request'.step # "remote"
    BY <2>1, <2>2, <2>3 DEF TokenOfHandler
  <2>7. k \in DOMAIN config.repositories /\ repo.provider # None
    BY <2>1, <2>2, RepositoriesType DEF TokenOfHandler
  <2>8. CASE found
    <3>1. Passed(k)' /\ request'.token = repo.provider
      BY <2>2, <2>3, <2>4, <2>7, <2>8
    <3> QED BY <1>0, <2>2, <2>6, <2>7, <3>1 DEF TokenOfHandler
  <2>9. CASE ~ found
    <3>1. \A i \in Nat : Passed(i)' <=> Passed(i)
      BY <2>4, <2>9
    <3>2. request'.token = request.token
      BY <2>3, <2>9
    <3> QED BY <1>0, <2>1, <2>6, <3>1, <3>2 DEF TokenOfHandler
  <2> QED BY <2>8, <2>9
<1> QED BY <1>1, <1>2, <1>3, <1>4, <1>5

\* What goes to a remote has been past all handlers.
LEMMA TokensBelong == ASSUME TokenOfHandler PROVE TokensWhereTheyBelong
<1> SUFFICES ASSUME request # None, request.step = "remote"
             PROVE  ProxyProcess!TokensWhereTheyBelong
  BY DEF TokensWhereTheyBelong, ProxyProcess!TokensWhereTheyBelong, ProxyProcess!Sent
<1> DEFINE rs == config.repositories
<1>1. /\ ProxyProcess!IsUrl(request.url)
      /\ \A i \in DOMAIN rs : ProxyProcess!IsUrl(rs[i].url)
      /\ DOMAIN rs = 1 .. Len(rs) /\ Len(rs) \in Nat
  BY ProxyAssumption, RepositoriesType DEF TokenOfHandler
<1>2. ProxyProcess!ToSet(rs) = {rs[i] : i \in DOMAIN rs}
  BY DEF ProxyProcess!ToSet
<1>3. ASSUME request.token # None
      PROVE  \E r \in ProxyProcess!ToSet(rs) :
                 r.provider = request.token /\ ProxyProcess!BelongsTo(request.url, r)
  <2>1. PICK i \in Nat : Passed(i) /\ rs[i].provider = request.token
    BY <1>3 DEF TokenOfHandler
  <2>2. ProxyProcess!BelongsTo(request.url, rs[i]) /\ i \in DOMAIN rs
    BY <1>1, <2>1, MatchBelongs DEF Passed
  <2> QED BY <1>2, <2>1, <2>2
<1>4. ASSUME request.token = None, ~ config.anonymous,
             NEW r \in ProxyProcess!ToSet(rs), r.provider \in config.providers,
             ProxyProcess!BelongsTo(request.url, r),
             r.url.scheme = "https", ProxyProcess!getPort(r.url) = 443, r.url.host.www = 0
      PROVE  FALSE
  <2>1. PICK i \in DOMAIN rs : r = rs[i]
    BY <1>2
  <2>2. ProxyProcess!Matches(request.url, rs[i])
    BY <1>1, <1>4, <2>1, BelongsMatch
  <2>3. i \in Nat /\ i < request.handler
    BY <1>1 DEF TokenOfHandler
  <2>4. Passed(i)
    BY <1>4, <2>1, <2>2, <2>3 DEF Passed, ProxyProcess!HasHandler
  <2> QED BY <1>4, <2>3, <2>4 DEF TokenOfHandler
<1> QED BY <1>3, <1>4 DEF ProxyProcess!TokensWhereTheyBelong

\* A token goes out only to a repository of its provider, and no request for
\* a repository of a known provider goes out without one, on the default
\* port of https and without "www.", for any configurations and any URLs
\* (handlerFunc, hostsMatch, getPort).
THEOREM TokensBelongThere == Spec => []TokensWhereTheyBelong
<1>1. TokenOfHandler /\ [Next]_vars => TokenOfHandler'
  BY ProxySteps, RequestKeeps
<1>2. TokenOfHandler => TokensWhereTheyBelong
  BY TokensBelong
<1> QED BY RequestInit, <1>1, <1>2, PTL DEF Spec

-----------------------------------------------------------------------------
(***************************************************************************)
(* The start of the k8s-watcher, and its lists.                            *)
(***************************************************************************)

\* The caches of a collection hold the resources of all namespaces.
Complete(collection) == \A n \in Namespaces : <<collection, n>> \in synced

WatcherTypeOK ==
    /\ builders \in BOOLEAN
    /\ watcherMain \in {"sync", "listen", "serving", "exited"}
    /\ at \in 1 .. Len(Watcher!Collections)
    /\ reports \in [Namespaces -> {"wait", "ok", "failed", "read"}]

\* While one collection is awaited, those before it are complete, and its
\* namespaces that were reported have their resources.
StartInv ==
    watcherMain = "sync" =>
        /\ \A i \in 1 .. at - 1 : Complete(Watcher!Collections[i])
        /\ \A n \in Namespaces :
               reports[n] \in {"ok", "read"} => <<Watcher!Collections[at], n>> \in synced

\* The server is reached with all collections complete.
ServeInv ==
    watcherMain \in {"listen", "serving"} =>
        \A i \in DOMAIN Watcher!Collections : Complete(Watcher!Collections[i])

\* A request is for a collection, and is gone when the process is.
ListInv ==
    list # None =>
        /\ watcherMain = "serving"
        /\ \E i \in DOMAIN Watcher!Collections : list.collection = Watcher!Collections[i]
        /\ list.answered => list.holds = Namespaces

WatcherInv == WatcherTypeOK /\ StartInv /\ ServeInv /\ ListInv

\* Initialize makes two collections, or four with the image builders.
LEMMA CollectionsType ==
    /\ builders => Watcher!Collections = <<"JS", "AS", "BR", "TR">>
    /\ ~ builders => Watcher!Collections = <<"JS", "AS">>
    /\ Len(Watcher!Collections) \in {2, 4}
    /\ DOMAIN Watcher!Collections = 1 .. Len(Watcher!Collections)
<1>1. CASE builders
  <2>1. Watcher!Collections = <<"JS", "AS", "BR", "TR">>
    BY <1>1 DEF Watcher!Collections
  <2> QED BY <1>1, <2>1
<1>2. CASE ~ builders
  <2>1. Watcher!Collections = <<"JS", "AS">>
    BY <1>2 DEF Watcher!Collections
  <2> QED BY <1>2, <2>1
<1> QED BY <1>1, <1>2

\* The cardinality of the instance is that of the library.
LEMMA SameCardinality == ASSUME NEW S PROVE Watcher!Cardinality(S) = Cardinality(S)
BY DEF Watcher!Cardinality, Cardinality

\* The loop of synchronize ends when every namespace has reported.
LEMMA AllRead ==
    ASSUME Watcher!SyncCount = Watcher!Cardinality(Namespaces)
    PROVE  \A n \in Namespaces : reports[n] = "read"
<1> DEFINE Read == {n \in Namespaces : reports[n] = "read"}
<1>1. Read \in SUBSET Namespaces /\ IsFiniteSet(Namespaces)
  BY WatcherAssumption
<1>2. Cardinality(Read) = Cardinality(Namespaces)
  BY SameCardinality DEF Watcher!SyncCount
<1>3. Read = Namespaces
  BY <1>1, <1>2, FS_Subset
<1> QED BY <1>3

\* The process starts with the first collection, or does not run at all.
LEMMA WatcherInit == Init => WatcherInv
<1> SUFFICES ASSUME Init PROVE WatcherInv
  OBVIOUS
<1>1. /\ builders \in BOOLEAN /\ watcherMain \in {"sync", "exited"} /\ at = 1
      /\ reports = [n \in Namespaces |-> "wait"] /\ list = None
  BY DEF Init, NoWatcher, Watcher!Init, Watcher!Waiting
<1>2. WatcherTypeOK
  BY <1>1, CollectionsType DEF WatcherTypeOK
<1>3. StartInv /\ ServeInv /\ ListInv
  BY <1>1 DEF StartInv, ServeInv, ListInv
<1> QED BY <1>2, <1>3 DEF WatcherInv

\* What is synchronized stays so, and each step keeps the invariant.
LEMMA WatcherKeeps == ASSUME WatcherInv, [Watcher!Next]_watcherVars PROVE WatcherInv'
<1> USE DEF WatcherInv, WatcherTypeOK
<1>0. builders' = builders => Watcher!Collections' = Watcher!Collections
  BY DEF Watcher!Collections
<1>1. ASSUME Watcher!Exit, builders' = builders, at' = at, synced' = synced
      PROVE  WatcherInv'
  BY <1>0, <1>1 DEF Watcher!Exit, Watcher!Waiting, StartInv, ServeInv, ListInv
<1>2. ASSUME Watcher!InformerSyncs PROVE WatcherInv'
  BY <1>0, <1>2 DEF Watcher!InformerSyncs, StartInv, ServeInv, ListInv, Complete
<1>3. ASSUME Watcher!WaitForCacheSync PROVE WatcherInv'
  BY <1>0, <1>3 DEF Watcher!WaitForCacheSync, StartInv, ServeInv, ListInv, Complete
<1>4. ASSUME Watcher!ReceiveDone PROVE WatcherInv'
  <2>1. builders' = builders /\ at' = at /\ synced' = synced
    BY <1>4 DEF Watcher!ReceiveDone
  <2>2. CASE Watcher!Exit
    BY <1>1, <2>1, <2>2
  <2>3. ASSUME NEW n \in Namespaces, reports[n] = "ok",
               reports' = [reports EXCEPT ![n] = "read"],
               UNCHANGED <<watcherMain, timer, list>>
        PROVE WatcherInv'
    BY <1>0, <2>1, <2>3 DEF StartInv, ServeInv, ListInv, Complete
  <2> QED BY <1>4, <2>2, <2>3 DEF Watcher!ReceiveDone
<1>5. ASSUME Watcher!ReceiveTimeout PROVE WatcherInv'
  BY <1>1, <1>5 DEF Watcher!ReceiveTimeout, Watcher!TimedOut
<1>6. ASSUME Watcher!AllSynced PROVE WatcherInv'
  <2>1. Complete(Watcher!Collections[at])
    BY <1>6, AllRead DEF Watcher!AllSynced, StartInv, Complete
  <2>2. \A i \in 1 .. at : Complete(Watcher!Collections[i])
    BY <1>6, <2>1, CollectionsType DEF Watcher!AllSynced, StartInv
  <2>3. /\ builders' = builders /\ synced' = synced /\ watcherMain = "sync"
        /\ reports' = [n \in Namespaces |-> "wait"] /\ list' = list
    BY <1>6 DEF Watcher!AllSynced, Watcher!NextCollection, Watcher!Waiting
  <2>4. CASE at < Len(Watcher!Collections)
    <3>1. at' = at + 1 /\ watcherMain' = watcherMain
      BY <1>6, <2>4 DEF Watcher!AllSynced, Watcher!NextCollection
    <3>2. at' \in 1 .. Len(Watcher!Collections) /\ at' - 1 = at
      BY <2>4, <3>1, CollectionsType
    <3> QED BY <1>0, <2>2, <2>3, <3>1, <3>2
            DEF StartInv, ServeInv, ListInv, Complete
  <2>5. CASE ~ (at < Len(Watcher!Collections))
    <3>1. at' = at /\ watcherMain' = "listen"
      BY <1>6, <2>5 DEF Watcher!AllSynced, Watcher!NextCollection
    <3>2. at = Len(Watcher!Collections)
      <4>1. Len(Watcher!Collections) \in Int
        BY CollectionsType
      <4> QED BY <2>5, <4>1
    <3>3. \A i \in DOMAIN Watcher!Collections : Complete(Watcher!Collections[i])
      BY <2>2, <3>2, CollectionsType
    <3>4. WatcherTypeOK'
      BY <1>0, <2>3, <3>1
    <3>5. StartInv' /\ ListInv'
      BY <2>3, <3>1 DEF StartInv, ListInv
    <3>6. ServeInv'
      BY <1>0, <2>3, <3>3 DEF ServeInv, Complete
    <3> QED BY <3>4, <3>5, <3>6
  <2> QED BY <2>4, <2>5
<1>7. ASSUME Watcher!ServeReturns PROVE WatcherInv'
  BY <1>1, <1>7 DEF Watcher!ServeReturns
<1>8. ASSUME Watcher!ListenAndServe PROVE WatcherInv'
  BY <1>0, <1>8 DEF Watcher!ListenAndServe, StartInv, ServeInv, ListInv, Complete
<1>9. ASSUME Watcher!List PROVE WatcherInv'
  BY <1>0, <1>9 DEF Watcher!List, StartInv, ServeInv, ListInv, Complete
<1>10. ASSUME Watcher!Answer PROVE WatcherInv'
  <2>1. Complete(list.collection) /\ list # None /\ watcherMain = "serving"
    BY <1>10 DEF Watcher!Answer, Watcher!Pending, ServeInv, ListInv
  <2>2. list'.holds = Namespaces /\ list'.collection = list.collection
    BY <1>10, <2>1 DEF Watcher!Answer, Complete
  <2>3. UNCHANGED <<builders, watcherMain, at, reports, synced>>
    BY <1>10 DEF Watcher!Answer
  <2> QED BY <1>0, <2>1, <2>2, <2>3 DEF StartInv, ServeInv, ListInv, Complete
<1>11. ASSUME Watcher!Sleep \/ Watcher!Sigterm \/ Watcher!Shutdown \/ Watcher!Cancel
              \/ UNCHANGED watcherVars
       PROVE WatcherInv'
  <2>1. UNCHANGED <<builders, watcherMain, at, reports, synced, list>>
    BY <1>11 DEF Watcher!Sleep, Watcher!Sigterm, Watcher!Shutdown, Watcher!Cancel,
                 watcherVars
  <2> QED BY <1>0, <2>1 DEF StartInv, ServeInv, ListInv, Complete
<1> QED BY <1>2, <1>3, <1>4, <1>5, <1>6, <1>7, <1>8, <1>9, <1>10, <1>11 DEF Watcher!Next

\* Steps of the other services leave the process alone.
LEMMA WatcherSteps == [Next]_vars => [Watcher!Next]_watcherVars
BY DEF Next, vars

\* The invariant of the process, however informers, timers and signals are
\* ordered.
THEOREM WatcherInvariance == Spec => []WatcherInv
<1>1. WatcherInv /\ [Next]_vars => WatcherInv'
  BY WatcherSteps, WatcherKeeps
<1> QED BY WatcherInit, <1>1, PTL DEF Spec

\* A list that is answered has the resources of every namespace (Initialize,
\* synchronize, getAll).
THEOREM Listed == Spec => []ListsComplete
<1>1. WatcherInv => ListsComplete
  BY DEF WatcherInv, ListInv, ListsComplete, Watcher!ListsComplete
<1> QED BY WatcherInvariance, <1>1, PTL

-----------------------------------------------------------------------------
(***************************************************************************)
(* The git sidecar and hibernation.                                        *)
(***************************************************************************)

AllCalls == Calls \cup {Api}

Idle == Sidecar!Idle

Busy ==
    [command : {"status", "discard", "pull"},
     step : {"fetch", "status", "merge", "rev-parse", "reset", "clean"}]

SidecarTypeOK ==
    /\ files \subseteq {"changed", "untracked", "unmerged"}
    /\ ahead \in Nat /\ behind \in Nat /\ unfetched \in Nat
    /\ upstream \in BOOLEAN
    /\ call \in [AllCalls -> {Idle} \cup Busy]
    /\ newer \in [AllCalls -> Nat]
    /\ answer \in [AllCalls -> [kind : {"none", "status", "discarded"}, clean : BOOLEAN,
                           ahead : Nat, behind : Nat]]
    /\ session \in {"running", "hibernating", "hibernated"}

\* A hibernated session serves no call.
NoCalls == session = "hibernated" => \A c \in AllCalls : call[c] = Idle

\* Between reset and clean nothing comes back but untracked files, unless the
\* user works; and nothing comes back after clean.
DiscardInv ==
    \A c \in Calls :
        /\ call[c] = [command |-> "discard", step |-> "clean"] /\ c \notin touched
               => files \subseteq {"untracked"} /\ ahead = 0
        /\ answer[c].kind = "discarded" => files = {} /\ ahead = 0

\* The status that the sidecar gave is right while nobody changes anything;
\* a fetch may find more commits meanwhile.
AnswerInv ==
    answer[Api].kind = "status" /\ Api \notin touched =>
        /\ answer[Api].clean = (files \cap {"changed", "untracked"} = {})
        /\ upstream => answer[Api].ahead = ahead /\ answer[Api].behind <= behind
        /\ ~ upstream => answer[Api].ahead = 0 /\ answer[Api].behind = 0

SidecarInv == SidecarTypeOK /\ NoCalls /\ DiscardInv /\ AnswerInv /\ AnnotationsTruthful

\* The session begins with a clean repository and no calls.
LEMMA SidecarInit == Init => SidecarInv
BY DEF Init, Sidecar!Init, Sidecar!Idle, Sidecar!Result, Sidecar!AllCalls, SidecarInv,
       SidecarTypeOK,
       AllCalls, Idle, Busy, NoCalls, DiscardInv, AnswerInv, AnnotationsTruthful,
       Sidecar!AnnotationsTruthful

\* What the user does is marked in touched and ends what was answered.
LEMMA UserKeeps ==
    ASSUME SidecarInv, Sidecar!UserDid, Sidecar!Works,
           files' \subseteq {"changed", "untracked", "unmerged"},
           ahead' \in Nat, behind' \in Nat, unfetched' \in Nat, upstream' \in BOOLEAN
    PROVE  SidecarInv'
<1> USE DEF SidecarInv, SidecarTypeOK, NoCalls, AllCalls, Sidecar!UserDid, Sidecar!Works,
            Sidecar!AllCalls,
            Sidecar!Result
<1>1. SidecarTypeOK' /\ NoCalls'
  OBVIOUS
<1>2. \A c \in Calls : /\ answer'[c].kind = "none"
                       /\ call'[c] # Sidecar!Idle => c \in touched'
  BY SidecarAssumption
<1>3. DiscardInv'
  BY <1>2 DEF DiscardInv, Sidecar!Idle
<1>4. AnswerInv' /\ AnnotationsTruthful'
  BY DEF AnswerInv, AnnotationsTruthful, Sidecar!AnnotationsTruthful
<1> QED BY <1>1, <1>3, <1>4

\* Calls of the sidecar, and what others push.
LEMMA CallsKeep ==
    ASSUME SidecarInv, NEW c \in AllCalls, Sidecar!Served \/ call[c] # Idle,
           \/ c \in Calls /\ Sidecar!Request(c)
           \/ Sidecar!GitFails(c) \/ Sidecar!Fetch(c) \/ Sidecar!Status(c)
           \/ Sidecar!RevParse(c) \/ Sidecar!Reset(c) \/ Sidecar!Clean(c)
           \/ Sidecar!Pull(c)
    PROVE  SidecarInv'
<1> USE DEF AllCalls, Idle, Sidecar!Idle, Sidecar!AllCalls, Sidecar!Answer, Sidecar!Goto,
            Sidecar!At, Sidecar!Result, Sidecar!repo
<1>0. Api \notin Calls
  BY SidecarAssumption
<1>1. session # "hibernated"
  BY DEF SidecarInv, NoCalls, Sidecar!Served
<1>2. ASSUME c \in Calls, Sidecar!Request(c) PROVE SidecarInv'
  <2>1. PICK command \in {"status", "discard", "pull"} : Sidecar!Begin(c, command)
    BY <1>2 DEF Sidecar!Request
  <2>2. /\ call' = [call EXCEPT ![c] = [command |-> command, step |-> "fetch"]]
        /\ answer' = [answer EXCEPT ![c] = Sidecar!Result("none")]
        /\ touched' = touched \ {c}
        /\ UNCHANGED <<files, ahead, behind, unfetched, upstream, newer, session, note>>
    BY <1>2, <2>1 DEF Sidecar!Request, Sidecar!Begin
  <2>3. SidecarTypeOK' /\ NoCalls'
    BY <1>1, <2>2 DEF SidecarInv, SidecarTypeOK, NoCalls, Busy
  <2>4. DiscardInv'
    BY <2>2 DEF SidecarInv, SidecarTypeOK, DiscardInv
  <2>5. AnswerInv' /\ AnnotationsTruthful'
    BY <1>0, <1>1, <1>2, <2>2 DEF SidecarInv, SidecarTypeOK, AnswerInv,
                                  AnnotationsTruthful,
       Sidecar!AnnotationsTruthful
  <2> QED BY <2>3, <2>4, <2>5 DEF SidecarInv
<1>3. ASSUME Sidecar!GitFails(c) PROVE SidecarInv'
  BY <1>0, <1>1, <1>3 DEF Sidecar!GitFails, SidecarInv, SidecarTypeOK, Busy, NoCalls,
     DiscardInv, AnswerInv, AnnotationsTruthful, Sidecar!AnnotationsTruthful
<1>4. ASSUME Sidecar!Fetch(c) PROVE SidecarInv'
  BY <1>0, <1>1, <1>4 DEF Sidecar!Fetch, Sidecar!Fetched, SidecarInv, SidecarTypeOK,
                          Busy, NoCalls,
     DiscardInv, AnswerInv, AnnotationsTruthful, Sidecar!AnnotationsTruthful
<1>5. ASSUME Sidecar!Status(c) PROVE SidecarInv'
  <2>1. /\ call' = [call EXCEPT ![c] = Sidecar!Idle]
        /\ answer' = [answer EXCEPT ![c] = IF c = Api THEN Sidecar!StatusNow
                                                     ELSE Sidecar!Result("none")]
        /\ touched' = touched \ {c}
        /\ UNCHANGED <<files, ahead, behind, unfetched, upstream, newer, session, note>>
    BY <1>5 DEF Sidecar!Status
  <2>2. Sidecar!StatusNow \in [kind : {"status"}, clean : BOOLEAN, ahead : Nat,
     behind : Nat]
    BY DEF Sidecar!StatusNow, SidecarInv, SidecarTypeOK
  <2>3. SidecarTypeOK' /\ NoCalls'
    BY <1>1, <2>1, <2>2 DEF SidecarInv, SidecarTypeOK, NoCalls, Busy
  <2>4. DiscardInv'
    BY <1>0, <2>1 DEF SidecarInv, SidecarTypeOK, DiscardInv
  <2>5. CASE c = Api
    <3>1. answer'[Api] = Sidecar!StatusNow
      BY <2>1, <2>5 DEF SidecarInv, SidecarTypeOK
    <3>2. AnswerInv'
      <4>1. answer'[Api].clean = (files' \cap {"changed", "untracked"} = {})
        <5>1. Sidecar!StatusNow.clean = (files \cap {"changed", "untracked"} = {})
          BY DEF Sidecar!StatusNow, Sidecar!DirtyLines
        <5>2. files' = files
          BY <2>1
        <5> QED BY <3>1, <5>1, <5>2
      <4>2. /\ upstream' => answer'[Api].ahead = ahead' /\ answer'[Api].behind <= behind'
            /\ ~ upstream' => answer'[Api].ahead = 0 /\ answer'[Api].behind = 0
        BY <2>1, <3>1 DEF Sidecar!StatusNow, SidecarInv, SidecarTypeOK
      <4> QED BY <4>1, <4>2 DEF AnswerInv
    <3> QED BY <1>1, <2>1, <2>3, <2>4, <3>2 DEF SidecarInv, AnnotationsTruthful,
            Sidecar!AnnotationsTruthful
  <2>6. CASE c # Api
    BY <1>1, <2>1, <2>3, <2>4, <2>6 DEF SidecarInv, SidecarTypeOK, AnswerInv,
                                        AnnotationsTruthful,
       Sidecar!AnnotationsTruthful
  <2> QED BY <2>5, <2>6
<1>6. ASSUME Sidecar!RevParse(c) PROVE SidecarInv'
  BY <1>0, <1>1, <1>6 DEF Sidecar!RevParse, SidecarInv, SidecarTypeOK, Busy, NoCalls,
     DiscardInv, AnswerInv, AnnotationsTruthful, Sidecar!AnnotationsTruthful
<1>7. ASSUME Sidecar!Reset(c) PROVE SidecarInv'
  BY <1>0, <1>1, <1>7 DEF Sidecar!Reset, SidecarInv, SidecarTypeOK, Busy, NoCalls,
     DiscardInv, AnswerInv, AnnotationsTruthful, Sidecar!AnnotationsTruthful
<1>8. ASSUME Sidecar!Clean(c) PROVE SidecarInv'
  BY <1>0, <1>1, <1>8 DEF Sidecar!Clean, Sidecar!Cleaned, SidecarInv, SidecarTypeOK,
                          Busy, NoCalls,
     DiscardInv, AnswerInv, AnnotationsTruthful, Sidecar!AnnotationsTruthful
<1>9. ASSUME Sidecar!Pull(c) PROVE SidecarInv'
  BY <1>0, <1>1, <1>9 DEF Sidecar!Pull, Sidecar!Fetched, SidecarInv, SidecarTypeOK, Busy,
                          NoCalls,
     DiscardInv, AnswerInv, AnnotationsTruthful, Sidecar!AnnotationsTruthful
<1> QED BY <1>2, <1>3, <1>4, <1>5, <1>6, <1>7, <1>8, <1>9

\* The session, its user and its calls keep the invariant.
LEMMA SidecarKeeps == ASSUME SidecarInv, [Sidecar!Next]_sidecarVars PROVE SidecarInv'
<1>0. SidecarTypeOK
  BY DEF SidecarInv
<1>1. ASSUME NEW kind \in Sidecar!Kinds, Sidecar!Change(kind) PROVE SidecarInv'
  <2>1. /\ Sidecar!UserDid /\ Sidecar!Works
        /\ files' \subseteq {"changed", "untracked", "unmerged"}
        /\ ahead' \in Nat /\ behind' \in Nat /\ unfetched' \in Nat /\ upstream' \in BOOLEAN
    BY <1>1, <1>0 DEF Sidecar!Change, SidecarTypeOK
  <2> QED BY <2>1, UserKeeps
<1>2. ASSUME Sidecar!Commit PROVE SidecarInv'
  <2>1. /\ Sidecar!UserDid /\ Sidecar!Works
        /\ files' \subseteq {"changed", "untracked", "unmerged"}
        /\ ahead' \in Nat /\ behind' \in Nat /\ unfetched' \in Nat /\ upstream' \in BOOLEAN
    BY <1>2, <1>0 DEF Sidecar!Commit, SidecarTypeOK
  <2> QED BY <2>1, UserKeeps
<1>3. ASSUME Sidecar!Push PROVE SidecarInv'
  <2>1. /\ Sidecar!UserDid /\ Sidecar!Works
        /\ files' \subseteq {"changed", "untracked", "unmerged"}
        /\ ahead' \in Nat /\ behind' \in Nat /\ unfetched' \in Nat /\ upstream' \in BOOLEAN
    BY <1>3, <1>0 DEF Sidecar!Push, SidecarTypeOK
  <2> QED BY <2>1, UserKeeps
<1>4. ASSUME Sidecar!Conflict PROVE SidecarInv'
  <2>1. /\ Sidecar!UserDid /\ Sidecar!Works
        /\ files' \subseteq {"changed", "untracked", "unmerged"}
        /\ ahead' \in Nat /\ behind' \in Nat /\ unfetched' \in Nat /\ upstream' \in BOOLEAN
    BY <1>4, <1>0 DEF Sidecar!Conflict, SidecarTypeOK
  <2> QED BY <2>1, UserKeeps
<1>5. ASSUME Sidecar!Resolve PROVE SidecarInv'
  <2>1. /\ Sidecar!UserDid /\ Sidecar!Works
        /\ files' \subseteq {"changed", "untracked", "unmerged"}
        /\ ahead' \in Nat /\ behind' \in Nat /\ unfetched' \in Nat /\ upstream' \in BOOLEAN
    BY <1>5, <1>0 DEF Sidecar!Resolve, SidecarTypeOK
  <2> QED BY <2>1, UserKeeps
<1>6. ASSUME Sidecar!NewBranch PROVE SidecarInv'
  <2>1. /\ Sidecar!UserDid /\ Sidecar!Works
        /\ files' \subseteq {"changed", "untracked", "unmerged"}
        /\ ahead' \in Nat /\ behind' \in Nat /\ unfetched' \in Nat /\ upstream' \in BOOLEAN
    BY <1>6, <1>0 DEF Sidecar!NewBranch, SidecarTypeOK
  <2> QED BY <2>1, UserKeeps
<1>7. ASSUME Sidecar!OthersPush \/ UNCHANGED sidecarVars PROVE SidecarInv'
  <2>1. /\ unfetched' \in Nat
        /\ UNCHANGED <<files, ahead, behind, upstream, call, newer, answer, session, note,
                       touched>>
    BY <1>7 DEF Sidecar!OthersPush, sidecarVars, SidecarInv, SidecarTypeOK
  <2> QED BY <2>1 DEF SidecarInv, SidecarTypeOK, NoCalls, DiscardInv, AnswerInv,
                      AnnotationsTruthful,
             Sidecar!AnnotationsTruthful
<1>8. ASSUME NEW c \in Calls, Sidecar!Request(c) PROVE SidecarInv'
  BY <1>8, CallsKeep DEF Sidecar!Request, Sidecar!Begin, AllCalls
<1>9. ASSUME NEW c \in AllCalls,
             \/ Sidecar!GitFails(c) \/ Sidecar!Fetch(c) \/ Sidecar!Status(c)
             \/ Sidecar!RevParse(c) \/ Sidecar!Reset(c) \/ Sidecar!Clean(c)
             \/ Sidecar!Pull(c)
      PROVE  SidecarInv'
  <2>1. call[c] # Idle
    BY <1>9 DEF Sidecar!GitFails, Sidecar!Fetch, Sidecar!Status, Sidecar!RevParse,
       Sidecar!Reset, Sidecar!Clean, Sidecar!Pull, Sidecar!At, Idle, Sidecar!Idle
  <2> QED BY <1>9, <2>1, CallsKeep
<1>10. ASSUME Sidecar!AskStatus PROVE SidecarInv'
  <2>1. /\ session = "running" /\ session' = "hibernating" /\ Api \in AllCalls
        /\ call' = [call EXCEPT ![Api] = [command |-> "status", step |-> "fetch"]]
        /\ answer' = [answer EXCEPT ![Api] = Sidecar!Result("none")]
        /\ touched' = touched \ {Api}
        /\ UNCHANGED <<files, ahead, behind, unfetched, upstream, newer>>
    BY <1>10 DEF Sidecar!AskStatus, Sidecar!Begin, Sidecar!Goto, Sidecar!repo, AllCalls
  <2> QED BY <2>1, SidecarAssumption DEF SidecarInv, SidecarTypeOK, Busy, NoCalls,
                                         DiscardInv, AnswerInv,
             AnnotationsTruthful, Sidecar!AnnotationsTruthful, Sidecar!Result
<1>11. ASSUME Sidecar!Hibernate PROVE SidecarInv'
  <2>1. /\ session' = "hibernated" /\ note' = Sidecar!Annotations(answer[Api])
        /\ call' = [c \in AllCalls |-> Idle] /\ newer' = [c \in AllCalls |-> 0]
        /\ UNCHANGED <<files, ahead, behind, unfetched, upstream, answer, touched>>
    BY <1>11 DEF Sidecar!Hibernate, Sidecar!repo, Sidecar!AllCalls, AllCalls, Idle
  <2>2. SidecarTypeOK' /\ NoCalls' /\ AnswerInv'
    BY <2>1 DEF SidecarInv, SidecarTypeOK, NoCalls, AnswerInv
  <2>3. DiscardInv'
    BY <2>1 DEF SidecarInv, SidecarTypeOK, DiscardInv, AllCalls, Idle, Sidecar!Idle
  <2>4. AnnotationsTruthful'
    <3>1. CASE answer[Api].kind # "status"
      <4>1. ~ note'.known
        BY <2>1, <3>1 DEF Sidecar!Annotations
      <4> QED BY <4>1 DEF AnnotationsTruthful, Sidecar!AnnotationsTruthful
    <3>2. CASE answer[Api].kind = "status"
      <4>1. /\ note'.dirty = ~ answer[Api].clean
            /\ note'.synchronized = (answer[Api].ahead = 0 /\ answer[Api].behind = 0)
        BY <2>1, <3>2 DEF Sidecar!Annotations
      <4>2. answer[Api] \in [kind : {"none", "status", "discarded"}, clean : BOOLEAN,
                             ahead : Nat, behind : Nat]
            /\ ahead \in Nat /\ behind \in Nat /\ upstream \in BOOLEAN
        BY DEF SidecarInv, SidecarTypeOK, AllCalls
      <4>3. ASSUME Api \notin touched
            PROVE  /\ note'.dirty = (files \cap {"changed", "untracked"} # {})
                   /\ upstream /\ note'.synchronized => ahead = 0
                   /\ ~ note'.synchronized => ahead # 0 \/ behind # 0
        <5>0. AnswerInv
          BY DEF SidecarInv
        <5>1. answer[Api].clean = (files \cap {"changed", "untracked"} = {})
          BY <3>2, <4>3, <5>0, Zenon DEF AnswerInv
        <5>2. note'.dirty = (files \cap {"changed", "untracked"} # {})
          BY <4>1, <5>1
        <5>3. /\ upstream => answer[Api].ahead = ahead /\ answer[Api].behind <= behind
              /\ ~ upstream => answer[Api].ahead = 0 /\ answer[Api].behind = 0
          BY <3>2, <4>3 DEF SidecarInv, AnswerInv
        <5>4. /\ upstream /\ note'.synchronized => ahead = 0
              /\ ~ note'.synchronized => ahead # 0 \/ behind # 0
          <6>1. CASE answer[Api].ahead = 0 /\ answer[Api].behind = 0
            <7>1. note'.synchronized = TRUE
              BY <4>1, <6>1
            <7> QED BY <5>3, <6>1, <7>1
          <6>2. CASE ~ (answer[Api].ahead = 0 /\ answer[Api].behind = 0)
            <7>1. note'.synchronized = FALSE
              BY <4>1, <6>2
            <7>2. upstream /\ (ahead # 0 \/ behind # 0)
              BY <4>2, <5>3, <6>2
            <7> QED BY <7>1, <7>2
          <6> QED BY <6>1, <6>2
        <5> QED BY <5>2, <5>4
      <4> QED BY <2>1, <4>3 DEF AnnotationsTruthful, Sidecar!AnnotationsTruthful
    <3> QED BY <3>1, <3>2
  <2> QED BY <2>2, <2>3, <2>4 DEF SidecarInv
<1>12. ASSUME Sidecar!Resume PROVE SidecarInv'
  BY <1>12, SidecarAssumption DEF Sidecar!Resume, Sidecar!repo, Sidecar!AllCalls,
     Sidecar!Result, SidecarInv, SidecarTypeOK, AllCalls, NoCalls, DiscardInv, AnswerInv,
        Idle, Sidecar!Idle,
     AnnotationsTruthful, Sidecar!AnnotationsTruthful
<1> QED BY <1>1, <1>2, <1>3, <1>4, <1>5, <1>6, <1>7, <1>8, <1>9, <1>10, <1>11, <1>12
        DEF Sidecar!Next, Sidecar!AllCalls, AllCalls

\* Steps of the other services leave the session alone.
LEMMA SidecarSteps == [Next]_vars => [Sidecar!Next]_sidecarVars
BY DEF Next, vars

\* The invariant of the sidecar, whatever the user, other people and other
\* calls do between the git commands of a call.
THEOREM SidecarInvariance == Spec => []SidecarInv
<1>1. SidecarInv /\ [Next]_vars => SidecarInv'
  BY SidecarSteps, SidecarKeeps
<1> QED BY SidecarInit, <1>1, PTL DEF Spec

\* The annotations of a hibernated session are right about the repository
\* (status of the sidecar, patch_server).
THEOREM Truthful == Spec => []AnnotationsTruthful
<1>1. SidecarInv => AnnotationsTruthful
  BY DEF SidecarInv
<1> QED BY SidecarInvariance, <1>1, PTL

\* A discard that is answered has left nothing behind
\* (discard_unsaved_changes).
THEOREM Discarded == Spec => []DiscardLeavesNothing
<1>1. SidecarInv => DiscardLeavesNothing
  BY DEF SidecarInv, DiscardInv, DiscardLeavesNothing, Sidecar!DiscardLeavesNothing
<1> QED BY SidecarInvariance, <1>1, PTL

-----------------------------------------------------------------------------
(***************************************************************************)
(* The watches of the liveness detector.                                   *)
(***************************************************************************)

\* The depth of a directory, which goes down towards the root.
IsDepth(depth) ==
    \A d \in DOMAIN Parent : Parent[d] \in Activity!Dirs /\ depth[Parent[d]] < depth[d]

\* The tree is as deep as its directories are many, at most.
LEMMA Depth ==
    \E max \in Nat : \E depth \in [Activity!Dirs -> 0 .. max] : IsDepth(depth)
<1>1. IsFiniteSet(Activity!Dirs)
  BY TreeAssumption DEF Activity!IsTree, Activity!IsFiniteSet, IsFiniteSet
<1>2. Activity!Cardinality(Activity!Dirs) = Cardinality(Activity!Dirs)
  BY DEF Activity!Cardinality, Cardinality
<1>3. Cardinality(Activity!Dirs) \in Nat
  BY <1>1, FS_CardinalityType
<1>4. PICK depth \in [Activity!Dirs -> 0 .. Cardinality(Activity!Dirs)] : IsDepth(depth)
  BY <1>2, TreeAssumption DEF Activity!IsTree, IsDepth
<1> QED BY <1>3, <1>4

\* What a directory has when the one above it has it, all of them have.
LEMMA TreeInduction ==
    ASSUME NEW D,
           \A d \in Activity!Dirs : (d # Root => Parent[d] \in D) => d \in D
    PROVE  Activity!Dirs \subseteq D
<1>0. PICK max \in Nat : \E depth \in [Activity!Dirs -> 0 .. max] : IsDepth(depth)
  BY Depth
<1>1. PICK depth \in [Activity!Dirs -> 0 .. max] : IsDepth(depth)
  BY <1>0
<1>2. \A d \in Activity!Dirs : d = Root \/ d \in DOMAIN Parent
  BY DEF Activity!Dirs
<1> DEFINE S == {n \in Nat : \A d \in Activity!Dirs : depth[d] < n => d \in D}
<1>3. 0 \in S
  OBVIOUS
<1>4. ASSUME NEW n \in Nat, n \in S PROVE n + 1 \in S
  <2> SUFFICES ASSUME NEW d \in Activity!Dirs, depth[d] < n + 1 PROVE d \in D
    OBVIOUS
  <2>1. ASSUME d # Root PROVE Parent[d] \in D
    <3>1. Parent[d] \in Activity!Dirs /\ depth[Parent[d]] < depth[d]
      BY <1>1, <1>2, <2>1 DEF IsDepth
    <3>2. depth[Parent[d]] < n
      BY <3>1
    <3> QED BY <1>4, <3>1, <3>2
  <2> QED BY <2>1
<1> HIDE DEF S
<1>5. Nat \subseteq S
  BY <1>3, <1>4, SetInduction
<1> SUFFICES ASSUME NEW d \in Activity!Dirs PROVE d \in D
  OBVIOUS
<1>6. depth[d] + 1 \in S /\ depth[d] \in Nat
  BY <1>5
<1> QED BY <1>6 DEF S

\* WillBeRead, if walk() still has to read the directories T.
Reads(T) ==
    CHOOSE f : f = [d \in Activity!Dirs |-> d \in T \/ (d # Root /\ f[Parent[d]])]

\* The recursion is on the tree and so defines a function.
LEMMA ReadsDefined ==
    ASSUME NEW T
    PROVE  Reads(T) = [d \in Activity!Dirs |-> d \in T \/ (d # Root /\ Reads(T)[Parent[d]])]
<1>0. PICK max \in Nat : \E depth \in [Activity!Dirs -> 0 .. max] : IsDepth(depth)
  BY Depth
<1>1. PICK depth \in [Activity!Dirs -> 0 .. max] : IsDepth(depth)
  BY <1>0
<1>2. \A d \in Activity!Dirs : d = Root \/ d \in DOMAIN Parent
  BY DEF Activity!Dirs
<1> DEFINE Correct(f, n) ==
               \A d \in Activity!Dirs :
                   depth[d] < n => f[d] = (d \in T \/ (d # Root /\ f[Parent[d]]))
           S == {n \in Nat : \E f \in [Activity!Dirs -> BOOLEAN] : Correct(f, n)}
<1>3. 0 \in S
  <2>1. [d \in Activity!Dirs |-> TRUE] \in [Activity!Dirs -> BOOLEAN]
    OBVIOUS
  <2>2. \A f : Correct(f, 0)
    OBVIOUS
  <2> QED BY <2>1, <2>2
<1>4. ASSUME NEW n \in Nat, n \in S PROVE n + 1 \in S
  <2>1. PICK f \in [Activity!Dirs -> BOOLEAN] : Correct(f, n)
    BY <1>4
  <2> DEFINE g == [d \in Activity!Dirs |->
                       IF depth[d] < n THEN f[d] ELSE d \in T \/ (d # Root /\ f[Parent[d]])]
  <2>2. g \in [Activity!Dirs -> BOOLEAN]
    OBVIOUS
  <2>3. ASSUME NEW d \in Activity!Dirs
        PROVE  g[d] = IF depth[d] < n THEN f[d] ELSE d \in T \/ (d # Root /\ f[Parent[d]])
    OBVIOUS
  <2> HIDE DEF g
  <2>4. ASSUME NEW d \in Activity!Dirs, depth[d] < n + 1
        PROVE  g[d] = (d \in T \/ (d # Root /\ g[Parent[d]]))
    <3>1. ASSUME d # Root PROVE g[Parent[d]] = f[Parent[d]]
      <4>1. Parent[d] \in Activity!Dirs /\ depth[Parent[d]] < depth[d]
        BY <1>1, <1>2, <3>1 DEF IsDepth
      <4>2. depth[Parent[d]] < n
        BY <2>4, <4>1
      <4> QED BY <2>3, <4>1, <4>2
    <3>2. f[d] = (d \in T \/ (d # Root /\ f[Parent[d]])) \/ ~ (depth[d] < n)
      BY <2>1
    <3>3. g[d] = (d \in T \/ (d # Root /\ f[Parent[d]]))
      BY <2>3, <3>2
    <3> QED BY <3>1, <3>3
  <2> QED BY <2>2, <2>4
<1> HIDE DEF S
<1>5. Nat \subseteq S
  BY <1>3, <1>4, SetInduction
<1>6. PICK f \in [Activity!Dirs -> BOOLEAN] : Correct(f, max + 1)
  <2>1. max + 1 \in S
    BY <1>5
  <2> QED BY <2>1 DEF S
<1>7. \A d \in Activity!Dirs : f[d] = (d \in T \/ (d # Root /\ f[Parent[d]]))
  BY <1>6
<1>8. f = [d \in Activity!Dirs |-> d \in T \/ (d # Root /\ f[Parent[d]])]
  BY <1>6, <1>7
<1> QED BY <1>8 DEF Reads

\* Reads is WillBeRead for the directories that walk() has.
LEMMA WillBeReadIs == Activity!WillBeRead = Reads(todo)
BY DEF Activity!WillBeRead, Reads

\* When walk() has nothing left it reads no directory.
LEMMA NothingRead == \A d \in Activity!Dirs : ~ Reads({})[d]
<1> DEFINE D == {d \in Activity!Dirs : ~ Reads({})[d]}
<1>1. ASSUME NEW d \in Activity!Dirs, d # Root => Parent[d] \in D PROVE d \in D
  <2>1. Reads({})[d] = (d \in {} \/ (d # Root /\ Reads({})[Parent[d]]))
    BY ReadsDefined
  <2> QED BY <1>1, <2>1
<1> HIDE DEF D
<1>2. Activity!Dirs \subseteq D
  BY <1>1, TreeInduction
<1> QED BY <1>2 DEF D

\* The directories above a directory are there with it.
Closed(ds) ==
    ds \subseteq Activity!Dirs /\ \A d \in ds \ {Root} : Parent[d] \in ds

\* Reading one directory finds those in it, so that what was to be read
\* below it still is.
LEMMA ReadOn ==
    ASSUME NEW ds, Closed(ds), NEW T, NEW t,
           NEW U, U = (T \ {t}) \cup (Activity!Children(t) \cap ds)
    PROVE  \A d \in ds : Reads(T)[d] => d = t \/ Reads(U)[d]
<1> DEFINE D == {d \in Activity!Dirs : d \in ds /\ Reads(T)[d] => d = t \/ Reads(U)[d]}
<1>1. ASSUME NEW d \in Activity!Dirs, d # Root => Parent[d] \in D PROVE d \in D
  <2> SUFFICES ASSUME d \in ds, Reads(T)[d], d # t PROVE Reads(U)[d]
    OBVIOUS
  <2>1. /\ Reads(T)[d] = (d \in T \/ (d # Root /\ Reads(T)[Parent[d]]))
        /\ Reads(U)[d] = (d \in U \/ (d # Root /\ Reads(U)[Parent[d]]))
    <3>1. \A W : Reads(W)[d] = (d \in W \/ (d # Root /\ Reads(W)[Parent[d]]))
      <4> TAKE W
      <4> QED BY ReadsDefined
    <3> QED BY <3>1
  <2>2. CASE d \in T
    BY <2>1, <2>2
  <2>3. CASE d \notin T
    <3>1. d # Root /\ Reads(T)[Parent[d]] /\ Parent[d] \in ds
      BY <2>1, <2>3 DEF Closed
    <3>2. CASE Parent[d] = t
      <4>1. d \in Activity!Children(t)
        BY <3>1, <3>2 DEF Activity!Children, Activity!Dirs
      <4> QED BY <2>1, <4>1
    <3>3. CASE Parent[d] # t
      BY <1>1, <2>1, <3>1, <3>3
    <3> QED BY <3>2, <3>3
  <2> QED BY <2>2, <2>3
<1> HIDE DEF D
<1>2. Activity!Dirs \subseteq D
  BY <1>1, TreeInduction
<1> QED BY <1>2 DEF D, Closed

Events ==
    [kind : {"directory created", "directory deleted", "file changed"},
     watch : Activity!Dirs, name : Activity!Dirs \cup {None}]

\* The directories and the events, whatever was removed.
TreeInv ==
    /\ Root \in exists /\ Closed(exists)
    /\ queue \in Seq(Events)
    /\ deleted \in BOOLEAN /\ raced \in BOOLEAN

\* An event that is not read yet tells of the directory.
Announces(d) ==
    \E k \in DOMAIN queue : queue[k].kind = "directory created" /\ queue[k].name = d

\* The directory is watched, or the watcher will come to it.
Seen(d) == d \in watched \/ Reads(todo)[d] \/ d = walked \/ Announces(d)

\* While nothing is removed and nothing is made out of sight, all there is
\* is seen, and no call of inotify fails.
WalkInv ==
    ~ deleted /\ ~ raced =>
        /\ pc \in {"walk", "read"}
        /\ todo \subseteq exists /\ watched \subseteq exists
        /\ walked \in exists \cup {None}
        /\ pc = "read" => todo = {} /\ walked = None
        /\ \A k \in DOMAIN queue :
               \/ queue[k].kind = "file changed"
               \/ queue[k].kind = "directory created" /\ queue[k].name \in exists
        /\ \A d \in exists : Seen(d)

ActivityInv == TreeInv /\ WalkInv

\* At first all is below the directory where the walk starts.
LEMMA ActivityInit == Init => ActivityInv
<1> SUFFICES ASSUME Init PROVE ActivityInv
  OBVIOUS
<1>1. Activity!Init
  BY DEF Init, NoActivity
<1>2. TreeInv
  <2>1. Root \in exists /\ Closed(exists)
    BY <1>1 DEF Activity!Init, Closed
  <2>2. queue = <<>> /\ deleted = FALSE /\ raced = FALSE
    BY <1>1 DEF Activity!Init
  <2>3. <<>> \in Seq(Events)
    OBVIOUS
  <2> QED BY <2>1, <2>2, <2>3 DEF TreeInv
<1>3. ASSUME NEW d \in exists PROVE Reads(todo)[d]
  <2> DEFINE D == {c \in Activity!Dirs : Reads({Root})[c]}
  <2>1. ASSUME NEW c \in Activity!Dirs, c # Root => Parent[c] \in D PROVE c \in D
    <3>1. Reads({Root})[c] = (c \in {Root} \/ (c # Root /\ Reads({Root})[Parent[c]]))
      BY ReadsDefined
    <3> QED BY <2>1, <3>1
  <2> HIDE DEF D
  <2>2. Activity!Dirs \subseteq D
    BY <2>1, TreeInduction
  <2>3. d \in D
    BY <1>2, <2>2 DEF TreeInv, Closed
  <2> QED BY <1>1, <2>3 DEF Activity!Init, D
<1>4. WalkInv
  <2>1. /\ pc = "walk" /\ todo = {Root} /\ watched = {Root} /\ walked = None
        /\ queue = <<>> /\ Root \in exists
    BY <1>1, <1>2 DEF Activity!Init, TreeInv
  <2>2. DOMAIN queue = {}
    BY <2>1
  <2>3. /\ pc \in {"walk", "read"} /\ pc # "read"
        /\ todo \subseteq exists /\ watched \subseteq exists
        /\ walked \in exists \cup {None}
    BY <2>1
  <2> QED BY <1>3, <2>2, <2>3 DEF WalkInv, Seen
<1> QED BY <1>2, <1>4 DEF ActivityInv

\* A report keeps the events that are there and adds its own if somebody
\* watches the directory.
LEMMA ReportEffect ==
    ASSUME queue \in Seq(Events), NEW e \in Events, Activity!Report(e)
    PROVE  /\ queue' \in Seq(Events)
           /\ \A k \in DOMAIN queue' :
                  (k \in DOMAIN queue /\ queue'[k] = queue[k]) \/ queue'[k] = e
           /\ \A k \in DOMAIN queue : k \in DOMAIN queue' /\ queue'[k] = queue[k]
           /\ e.watch \in watched => \E k \in DOMAIN queue' : queue'[k] = e
<1>1. CASE e.watch \in watched
  <2>1. queue' = Append(queue, e)
    BY <1>1 DEF Activity!Report
  <2>2. /\ DOMAIN queue' = 1 .. Len(queue) + 1 /\ DOMAIN queue = 1 .. Len(queue)
        /\ Len(queue) \in Nat
        /\ \A k \in 1 .. Len(queue) : queue'[k] = queue[k]
        /\ queue'[Len(queue) + 1] = e
    BY <2>1
  <2> QED BY <2>1, <2>2
<1>2. CASE e.watch \notin watched
  <2>1. queue' = queue
    BY <1>2 DEF Activity!Report
  <2> QED BY <1>2, <2>1
<1> QED BY <1>1, <1>2

\* The next event is the first one.
LEMMA HeadIsFirst ==
    ASSUME queue \in Seq(Events), queue # <<>>
    PROVE  Head(queue) = queue[1] /\ 1 \in DOMAIN queue /\ Tail(queue) \in Seq(Events)
OBVIOUS

\* Reading an event leaves the others in their order.
LEMMA TakenEffect ==
    ASSUME queue \in Seq(Events), queue # <<>>, queue' = Tail(queue)
    PROVE  /\ queue' \in Seq(Events)
           /\ \A k \in DOMAIN queue' : k + 1 \in DOMAIN queue /\ queue'[k] = queue[k + 1]
           /\ \A k \in DOMAIN queue :
                  k = 1 \/ (k - 1 \in DOMAIN queue' /\ queue'[k - 1] = queue[k])
           /\ Head(queue) = queue[1] /\ 1 \in DOMAIN queue
<1>1. Len(queue) \in Nat \ {0} /\ DOMAIN queue = 1 .. Len(queue)
  OBVIOUS
<1>2. /\ DOMAIN queue' = 1 .. Len(queue) - 1
      /\ \A k \in 1 .. Len(queue) - 1 : queue'[k] = queue[k + 1]
  BY <1>1
<1> QED BY <1>1, <1>2

\* Every step of the user, of the walk and of the reading keeps the invariant.
LEMMA ActivityKeeps == ASSUME ActivityInv, [Activity!Next]_activityVars PROVE ActivityInv'
<1> USE DEF ActivityInv
<1>1. CASE Activity!MakeDirectory
  <2>1. PICK d \in Activity!Dirs \ exists :
            /\ Parent[d] \in exists
            /\ exists' = exists \cup {d}
            /\ Activity!Report(Activity!Event("directory created", Parent[d], d))
            /\ raced' = (raced \/ ~ (Parent[d] \in watched \/ Activity!WillBeRead[Parent[d]]))
    BY <1>1 DEF Activity!MakeDirectory
  <2>2. UNCHANGED <<watched, pc, todo, walked, deleted>>
    BY <1>1 DEF Activity!MakeDirectory
  <2> DEFINE e == Activity!Event("directory created", Parent[d], d)
  <2>3. e \in Events
    BY <2>1 DEF Activity!Event, Events, TreeInv, Closed
  <2>4. e.kind = "directory created" /\ e.watch = Parent[d] /\ e.name = d
    BY DEF Activity!Event
  <2> HIDE DEF e
  <2>5. /\ queue' \in Seq(Events)
        /\ \A k \in DOMAIN queue' :
               (k \in DOMAIN queue /\ queue'[k] = queue[k]) \/ queue'[k] = e
        /\ \A k \in DOMAIN queue : k \in DOMAIN queue' /\ queue'[k] = queue[k]
        /\ e.watch \in watched => \E k \in DOMAIN queue' : queue'[k] = e
    BY <2>1, <2>3, ReportEffect DEF e, TreeInv
  <2>6. TreeInv'
    BY <2>1, <2>2, <2>5 DEF TreeInv, Closed
  <2>7. ASSUME ~ deleted', ~ raced' PROVE WalkInv'
    <3>1. /\ ~ deleted /\ ~ raced
          /\ Parent[d] \in watched \/ Reads(todo)[Parent[d]]
      BY <2>1, <2>2, <2>7, WillBeReadIs DEF TreeInv
    <3>2. Seen(d)'
      <4>1. CASE Parent[d] \in watched
        BY <2>4, <2>5, <4>1 DEF Seen, Announces
      <4>2. CASE Reads(todo)[Parent[d]]
        <5>1. Reads(todo)[d] = (d \in todo \/ (d # Root /\ Reads(todo)[Parent[d]]))
          BY ReadsDefined
        <5>2. d # Root
          BY <2>1 DEF TreeInv
        <5> QED BY <2>2, <4>2, <5>1, <5>2 DEF Seen
      <4> QED BY <3>1, <4>1, <4>2
    <3>3. ASSUME NEW c \in exists PROVE Seen(c)'
      BY <2>2, <2>5, <3>1 DEF Seen, Announces, WalkInv
    <3>4. \A k \in DOMAIN queue' :
               \/ queue'[k].kind = "file changed"
               \/ queue'[k].kind = "directory created" /\ queue'[k].name \in exists'
      BY <2>1, <2>4, <2>5, <3>1 DEF WalkInv
    <3>5. \A c \in exists' : Seen(c)'
      BY <2>1, <3>2, <3>3
    <3> QED BY <2>1, <2>2, <3>1, <3>4, <3>5 DEF WalkInv
  <2> QED BY <2>6, <2>7 DEF WalkInv
<1>2. CASE Activity!RemoveDirectory
  <2>1. PICK d \in exists \ {Root} :
            /\ Activity!Children(d) \cap exists = {}
            /\ exists' = exists \ {d}
            /\ Activity!Report(Activity!Event("directory deleted", Parent[d], d))
    BY <1>2 DEF Activity!RemoveDirectory
  <2>2. deleted' = TRUE /\ raced' = raced
    BY <1>2 DEF Activity!RemoveDirectory
  <2>3. Activity!Event("directory deleted", Parent[d], d) \in Events
    BY <2>1 DEF Activity!Event, Events, TreeInv, Closed
  <2>4. queue' \in Seq(Events)
    BY <2>1, <2>3, ReportEffect DEF TreeInv
  <2>5. Closed(exists')
    BY <2>1 DEF TreeInv, Closed, Activity!Children, Activity!Dirs
  <2> QED BY <2>1, <2>2, <2>4, <2>5 DEF TreeInv, WalkInv
<1>3. CASE Activity!ChangeFile
  <2>1. PICK d \in exists : Activity!Report(Activity!Event("file changed", d, None))
    BY <1>3 DEF Activity!ChangeFile
  <2>2. UNCHANGED <<exists, watched, pc, todo, walked, deleted, raced>>
    BY <1>3 DEF Activity!ChangeFile
  <2> DEFINE e == Activity!Event("file changed", d, None)
  <2>3. e \in Events
    BY <2>1 DEF Activity!Event, Events, TreeInv, Closed
  <2>4. e.kind = "file changed"
    BY DEF Activity!Event
  <2> HIDE DEF e
  <2>5. /\ queue' \in Seq(Events)
        /\ \A k \in DOMAIN queue' :
               (k \in DOMAIN queue /\ queue'[k] = queue[k]) \/ queue'[k] = e
        /\ \A k \in DOMAIN queue : k \in DOMAIN queue' /\ queue'[k] = queue[k]
    BY <2>1, <2>3, ReportEffect DEF e, TreeInv
  <2>6. ASSUME ~ deleted, ~ raced PROVE \A c \in exists : Seen(c)'
    BY <2>2, <2>5, <2>6 DEF Seen, Announces, WalkInv
  <2> QED BY <2>2, <2>4, <2>5, <2>6 DEF TreeInv, WalkInv
<1>4. CASE Activity!Walk
  <2>1. PICK t \in todo :
            /\ todo' = (todo \ {t}) \cup (Activity!Children(t) \cap exists)
            /\ walked' = IF t \in exists THEN t ELSE None
    BY <1>4 DEF Activity!Walk
  <2>2. /\ UNCHANGED <<exists, watched, queue, pc, deleted, raced>>
        /\ pc = "walk" /\ walked = None
    BY <1>4 DEF Activity!Walk
  <2>3. TreeInv'
    BY <2>2 DEF TreeInv
  <2>4. ASSUME ~ deleted, ~ raced PROVE WalkInv'
    <3>1. walked' = t /\ todo' \subseteq exists
      BY <2>1, <2>4 DEF WalkInv
    <3>2. \A d \in exists : Reads(todo)[d] => d = t \/ Reads(todo')[d]
      BY <2>1, ReadOn DEF TreeInv
    <3>3. ASSUME NEW d \in exists PROVE Seen(d)'
      <4>1. Seen(d) /\ d # walked
        <5>1. None \notin exists
          BY TreeAssumption DEF TreeInv, Closed, Activity!IsTree
        <5> QED BY <2>2, <2>4, <5>1 DEF WalkInv
      <4> QED BY <2>2, <3>1, <3>2, <4>1 DEF Seen, Announces
    <3> QED BY <2>2, <2>4, <3>1, <3>3 DEF WalkInv
  <2> QED BY <2>2, <2>3, <2>4 DEF WalkInv
<1>5. CASE Activity!WatchWalked
  <2>1. walked # None /\ UNCHANGED <<exists, deleted, raced>>
    BY <1>5 DEF Activity!WatchWalked
  <2>2. CASE watched' = watched \cup ({walked} \cap exists) /\ walked' = None
             /\ UNCHANGED <<queue, pc, todo>>
    <3>1. TreeInv'
      BY <2>1, <2>2 DEF TreeInv
    <3>2. ASSUME ~ deleted, ~ raced, NEW d \in exists PROVE Seen(d)'
      BY <2>1, <2>2, <3>2 DEF Seen, Announces, WalkInv
    <3> QED BY <2>1, <2>2, <3>1, <3>2 DEF WalkInv
  <2>3. CASE walked \notin exists /\ Activity!Die
    <3>1. deleted \/ raced
      BY <2>1, <2>3 DEF WalkInv
    <3>2. queue' \in Seq(Events)
      BY <2>3 DEF Activity!Die
    <3> QED BY <2>1, <3>1, <3>2 DEF TreeInv, WalkInv
  <2> QED BY <1>5, <2>2, <2>3 DEF Activity!WatchWalked
<1>6. CASE Activity!EndOfWalk
  <2>1. /\ UNCHANGED <<exists, watched, queue, todo, walked, deleted, raced>>
        /\ pc' = "read" /\ todo = {} /\ walked = None
    BY <1>6 DEF Activity!EndOfWalk
  <2>2. \A d : Seen(d)' = Seen(d)
    BY <2>1 DEF Seen, Announces
  <2> QED BY <2>1, <2>2 DEF TreeInv, WalkInv
<1>7. CASE Activity!FileChanged
  <2>1. /\ queue # <<>> /\ Head(queue).kind = "file changed" /\ queue' = Tail(queue)
        /\ UNCHANGED <<exists, watched, pc, todo, walked, deleted, raced>>
    BY <1>7 DEF Activity!FileChanged, Activity!Handles
  <2>2. /\ queue' \in Seq(Events)
        /\ \A k \in DOMAIN queue' : k + 1 \in DOMAIN queue /\ queue'[k] = queue[k + 1]
        /\ \A k \in DOMAIN queue :
               k = 1 \/ (k - 1 \in DOMAIN queue' /\ queue'[k - 1] = queue[k])
        /\ Head(queue) = queue[1] /\ 1 \in DOMAIN queue
    BY <2>1, TakenEffect DEF TreeInv
  <2>3. ASSUME NEW d, Announces(d) PROVE Announces(d)'
    BY <2>1, <2>2, <2>3 DEF Announces
  <2>4. ASSUME ~ deleted, ~ raced, NEW d \in exists PROVE Seen(d)'
    BY <2>1, <2>3, <2>4 DEF Seen, WalkInv
  <2>5. TreeInv'
    BY <2>1, <2>2 DEF TreeInv
  <2>6. ASSUME ~ deleted, ~ raced, NEW k \in DOMAIN queue'
        PROVE  \/ queue'[k].kind = "file changed"
               \/ queue'[k].kind = "directory created" /\ queue'[k].name \in exists
    BY <2>2, <2>6 DEF WalkInv
  <2> QED BY <2>1, <2>4, <2>5, <2>6 DEF WalkInv
<1>8. CASE Activity!DirectoryCreated
  <2>0. PICK d : d = Head(queue).name
    OBVIOUS
  <2>1. /\ queue # <<>> /\ UNCHANGED <<exists, deleted, raced>>
        /\ Head(queue).kind = "directory created"
    BY <1>8 DEF Activity!DirectoryCreated, Activity!Handles
  <2>2. CASE d \in exists
    <3>1. /\ watched' = watched \cup {d} /\ queue' = Tail(queue)
          /\ UNCHANGED <<pc, todo, walked>>
      BY <1>8, <2>0, <2>2 DEF Activity!DirectoryCreated, Activity!AddWatch
    <3>2. /\ queue' \in Seq(Events)
          /\ \A k \in DOMAIN queue' : k + 1 \in DOMAIN queue /\ queue'[k] = queue[k + 1]
          /\ \A k \in DOMAIN queue :
                 k = 1 \/ (k - 1 \in DOMAIN queue' /\ queue'[k - 1] = queue[k])
          /\ Head(queue) = queue[1] /\ 1 \in DOMAIN queue
      BY <2>1, <3>1, TakenEffect DEF TreeInv
    <3>3. ASSUME NEW c, Announces(c), c # d PROVE Announces(c)'
      BY <2>0, <3>2, <3>3 DEF Announces
    <3>4. ASSUME ~ deleted, ~ raced, NEW c \in exists PROVE Seen(c)'
      BY <2>1, <3>1, <3>3, <3>4 DEF Seen, WalkInv
    <3>5. TreeInv'
      BY <2>1, <3>2 DEF TreeInv
    <3>6. ASSUME ~ deleted, ~ raced, NEW k \in DOMAIN queue'
          PROVE  \/ queue'[k].kind = "file changed"
                 \/ queue'[k].kind = "directory created" /\ queue'[k].name \in exists
      BY <3>2, <3>6 DEF WalkInv
    <3>7. ~ deleted /\ ~ raced => watched' \subseteq exists
      BY <2>2, <3>1 DEF WalkInv
    <3> QED BY <2>1, <3>1, <3>4, <3>5, <3>6, <3>7 DEF WalkInv
  <2>3. CASE d \notin exists
    <3>1. Activity!Die
      BY <1>8, <2>0, <2>3 DEF Activity!DirectoryCreated
    <3>2. deleted \/ raced
      <4>1. queue[1] = Head(queue) /\ 1 \in DOMAIN queue
        BY <2>1, HeadIsFirst DEF TreeInv
      <4> QED BY <2>0, <2>1, <2>3, <4>1 DEF WalkInv
    <3>3. queue' \in Seq(Events)
      BY <3>1 DEF Activity!Die
    <3> QED BY <2>1, <3>2, <3>3 DEF TreeInv, WalkInv
  <2> QED BY <2>2, <2>3
<1>9. CASE Activity!DirectoryDeleted
  <2>1. /\ queue # <<>> /\ UNCHANGED <<exists, deleted, raced>>
        /\ Head(queue).kind = "directory deleted"
        /\ queue' = Tail(queue) \/ queue' = <<>>
    BY <1>9 DEF Activity!DirectoryDeleted, Activity!Handles, Activity!Die
  <2>2. queue' \in Seq(Events) /\ queue[1] = Head(queue) /\ 1 \in DOMAIN queue
    <3>1. <<>> \in Seq(Events)
      OBVIOUS
    <3> QED BY <2>1, <3>1, HeadIsFirst DEF TreeInv
  <2>3. deleted \/ raced
    BY <2>1, <2>2 DEF WalkInv
  <2> QED BY <2>1, <2>2, <2>3 DEF TreeInv, WalkInv
<1>10. CASE UNCHANGED activityVars
  <2>1. \A d : Seen(d)' = Seen(d)
    BY <1>10 DEF activityVars, Seen, Announces
  <2> QED BY <1>10, <2>1 DEF activityVars, TreeInv, WalkInv
<1> QED BY <1>1, <1>2, <1>3, <1>4, <1>5, <1>6, <1>7, <1>8, <1>9, <1>10 DEF Activity!Next

\* Steps of the other services leave the workspace alone.
LEMMA ActivitySteps == [Next]_vars => [Activity!Next]_activityVars
BY DEF Next, vars

\* With the walk over and all events read, seen is watched.
LEMMA AllWatched == ASSUME ActivityInv PROVE WatchesComplete
<1> SUFFICES ASSUME ~ deleted, ~ raced
             PROVE  pc # "dead" /\ (pc = "read" /\ queue = <<>> => watched = exists)
  BY DEF WatchesComplete, Activity!WatchesComplete
<1>1. ASSUME pc = "read", queue = <<>>, NEW d \in exists PROVE d \in watched
  <2>1. Seen(d) /\ todo = {} /\ walked = None
    BY <1>1 DEF ActivityInv, WalkInv
  <2>2. d \in Activity!Dirs /\ d # None
    BY TreeAssumption DEF ActivityInv, TreeInv, Closed, Activity!IsTree
  <2>3. ~ Reads(todo)[d]
    BY <2>1, <2>2, NothingRead
  <2> QED BY <1>1, <2>1, <2>2, <2>3 DEF Seen, Announces
<1> QED BY <1>1 DEF ActivityInv, WalkInv

\* When nothing was removed and nothing made out of sight, the watcher lives
\* and watches every directory, in any tree and with any directories made
\* during the walk (run_inotify).
THEOREM AllDirectoriesWatched == Spec => []WatchesComplete
<1>1. ActivityInv /\ [Next]_vars => ActivityInv'
  BY ActivitySteps, ActivityKeeps
<1>2. ActivityInv => WatchesComplete
  BY AllWatched
<1> QED BY ActivityInit, <1>1, <1>2, PTL DEF Spec

-----------------------------------------------------------------------------
(***************************************************************************)
(* The schema migration.                                                   *)
(***************************************************************************)

\* A server that is not labelled has upper-case letters if its name says so,
\* and a labelled one has none.
CaseOfName ==
    /\ \A s \in servers \ labelled : s \in mixed <=> s \in upper
    /\ servers \cap labelled \cap mixed = {}

\* The patch of a listed server lowers the letters that its name has.
ListedCase == run = "patch" => (listed \cup rest) \cap upper \subseteq mixedThen

\* A server that was there at the start is labelled or still to be patched.
Covered ==
    ~ dryRun =>
        /\ run = "patch" => started \cap servers \subseteq labelled \cup listed \cup rest
        /\ run = "ended" => started \cap servers \subseteq labelled

SchemaInv == CaseOfName /\ ListedCase /\ Covered

\* The servers start without labels and with the letters of their names.
LEMMA SchemaInit == Init => SchemaInv
BY DEF Init, NoSchema, Schema!Init, SchemaInv, CaseOfName, ListedCase, Covered

\* The letters of a name return with it, and only patches set labels.
LEMMA CaseKept == ASSUME SchemaInv, [Schema!Next]_schemaVars PROVE CaseOfName'
<1> USE DEF SchemaInv, CaseOfName, ListedCase
<1>1. ASSUME NEW s \in Servers, Schema!Launch(s) PROVE CaseOfName'
  BY <1>1 DEF Schema!Launch
<1>2. ASSUME NEW s \in Servers, Schema!Delete(s) PROVE CaseOfName'
  BY <1>2 DEF Schema!Delete
<1>3. ASSUME NEW s \in Servers, Schema!Patch(s) PROVE CaseOfName'
  <2>1. CASE dryRun
    BY <1>3, <2>1 DEF Schema!Patch
  <2>2. CASE ~ dryRun
    <3>1. s \in listed /\ s \in servers /\ run = "patch" /\ Schema!Patched(s)
          /\ servers' = servers /\ upper' = upper
      BY <1>3, <2>2 DEF Schema!Patch
    <3>2. s \notin mixed'
      BY <3>1 DEF Schema!Patched
    <3>3. \A r \in servers \ {s} : (r \in mixed' <=> r \in mixed)
                                 /\ (r \in labelled' <=> r \in labelled)
      BY <3>1 DEF Schema!Patched
    <3>4. s \in labelled'
      BY <3>1 DEF Schema!Patched
    <3> QED BY <3>1, <3>2, <3>3, <3>4
  <2> QED BY <2>1, <2>2
<1>4. ASSUME \/ Schema!StartRun \/ Schema!List \/ Schema!NextPage \/ Schema!EndRun
             \/ Schema!Fail \/ UNCHANGED schemaVars
      PROVE CaseOfName'
  BY <1>4 DEF Schema!StartRun, Schema!List, Schema!NextPage, Schema!EndRun, Schema!Fail,
              schemaVars
<1> QED BY <1>1, <1>2, <1>3, <1>4 DEF Schema!Next

\* A listing holds only servers that are not labelled.
LEMMA ListedKept == ASSUME SchemaInv, [Schema!Next]_schemaVars PROVE ListedCase'
<1> USE DEF SchemaInv, ListedCase
<1>1. ASSUME NEW s \in Servers, Schema!Launch(s) \/ Schema!Delete(s) \/ Schema!Patch(s)
      PROVE  ListedCase'
  BY <1>1 DEF Schema!Launch, Schema!Delete, Schema!Patch
<1>2. ASSUME Schema!List PROVE ListedCase'
  BY <1>2 DEF Schema!List, Schema!Pages, Schema!Unlabelled, CaseOfName
<1>3. ASSUME Schema!NextPage PROVE ListedCase'
  BY <1>3 DEF Schema!NextPage, Schema!Pages
<1>4. ASSUME Schema!StartRun \/ Schema!EndRun \/ Schema!Fail \/ UNCHANGED schemaVars
      PROVE  ListedCase'
  BY <1>4 DEF Schema!StartRun, Schema!EndRun, Schema!Fail, schemaVars
<1> QED BY <1>1, <1>2, <1>3, <1>4 DEF Schema!Next

\* No server leaves the pages without its label.
LEMMA CoveredKept == ASSUME SchemaInv, [Schema!Next]_schemaVars PROVE Covered'
<1> USE DEF SchemaInv, Covered
<1>1. ASSUME NEW s \in Servers, Schema!Launch(s) \/ Schema!Delete(s) PROVE Covered'
  BY <1>1 DEF Schema!Launch, Schema!Delete
<1>2. ASSUME NEW s \in Servers, Schema!Patch(s) PROVE Covered'
  BY <1>2 DEF Schema!Patch, Schema!Patched
<1>3. ASSUME Schema!List PROVE Covered'
  BY <1>3 DEF Schema!List, Schema!Pages, Schema!Unlabelled
<1>4. ASSUME Schema!NextPage PROVE Covered'
  BY <1>4 DEF Schema!NextPage, Schema!Pages
<1>5. ASSUME Schema!EndRun PROVE Covered'
  BY <1>5 DEF Schema!EndRun, Schema!LastPage
<1>6. ASSUME Schema!StartRun \/ Schema!Fail \/ UNCHANGED schemaVars PROVE Covered'
  BY <1>6 DEF Schema!StartRun, Schema!Fail, schemaVars
<1> QED BY <1>1, <1>2, <1>3, <1>4, <1>5, <1>6 DEF Schema!Next

\* Steps of the other services leave the migration alone.
LEMMA SchemaSteps == [Next]_vars => [Schema!Next]_schemaVars
BY DEF Next, vars

\* The invariant of the migration, whatever fails and whoever launches or
\* deletes servers meanwhile.
THEOREM SchemaInvariance == Spec => []SchemaInv
<1>1. SchemaInv /\ [Next]_vars => SchemaInv'
  BY SchemaSteps, CaseKept, ListedKept, CoveredKept DEF SchemaInv
<1> QED BY SchemaInit, <1>1, PTL DEF Spec

\* When a run that is no dry run has ended, every server that was there when
\* it began and still is has the label and lower-case values (adjust_annotations).
THEOREM Migrated == Spec => []MigratedWhenDone
<1>1. SchemaInv => MigratedWhenDone
  BY DEF SchemaInv, CaseOfName, Covered, MigratedWhenDone, Schema!MigratedWhenDone
<1> QED BY SchemaInvariance, <1>1, PTL

-----------------------------------------------------------------------------
(***************************************************************************)
(* The status of a session.                                                *)
(***************************************************************************)

StatusTypeOK ==
    /\ anonymous \in BOOLEAN
    /\ state \in {"starting", "running", "failed", "hibernated", "gone"}
    /\ age \in Nat /\ idle \in Nat /\ asleep \in Nat
    /\ DOMAIN now = Status!Names /\ DOMAIN last = Status!Names
    /\ DOMAIN exited = Status!Names

\* The codes that the pod shows are codes that its containers ended with.
CodesOfContainers ==
    \A c \in Status!Names :
        /\ Status!Ended(c) => now[c] \in exited[c]
        /\ last[c] # None => last[c] \in exited[c]

\* Anonymous sessions are not hibernated, and so need no warning of it.
StatusInv == StatusTypeOK /\ CodesOfContainers /\ (state = "hibernated" => ~ anonymous)

\* The session starts with all clocks at zero and no code.
LEMMA StatusInit == Init => StatusInv
BY DEF Init, NoStatus, Status!Init, StatusInv, StatusTypeOK, CodesOfContainers,
       Status!Ended

\* Only culling of an idle session of a registered user hibernates.
LEMMA StatusKeeps == ASSUME StatusInv, [Status!Next]_statusVars PROVE StatusInv'
<1> USE DEF StatusInv, StatusTypeOK
<1>1. ASSUME \/ Status!Schedule \/ Status!Event \/ Status!Report \/ Status!CullOld
             \/ Status!CullIdle \/ Status!CullHibernated
      PROVE  StatusInv'
  BY <1>1 DEF Status!Schedule, Status!Event, Status!Report, Status!CullOld,
     Status!CullIdle, Status!CullHibernated, Status!Alive, Status!pod, Status!time,
     CodesOfContainers, Status!Ended
<1>2. ASSUME Status!Tick \/ Status!Activity \/ Status!Resume PROVE StatusInv'
  BY <1>2 DEF Status!Tick, Status!Activity, Status!Resume, Status!pod, CodesOfContainers,
              Status!Ended
<1>3. ASSUME NEW c \in Status!Names, Status!Run(c) \/ Status!End(c) \/ Status!Restart(c)
      PROVE  StatusInv'
  <2>1. StatusTypeOK' /\ (state' = "hibernated" => ~ anonymous')
    BY <1>3 DEF Status!Run, Status!End, Status!Restart, Status!time
  <2>2. CASE Status!Run(c)
    BY <2>1, <2>2 DEF Status!Run, CodesOfContainers, Status!Ended
  <2>3. CASE Status!End(c)
    <3>1. PICK code \in Codes[c] :
              /\ now' = [now EXCEPT ![c] = code]
              /\ exited' = [exited EXCEPT ![c] = @ \cup {code}]
      BY <2>3 DEF Status!End
    <3>2. last' = last
      BY <2>3 DEF Status!End
    <3>3. CodesOfContainers'
      BY <3>1, <3>2 DEF CodesOfContainers, Status!Ended
    <3> QED BY <2>1, <3>3
  <2>4. CASE Status!Restart(c)
    <3>1. CodesOfContainers'
      BY <2>4 DEF Status!Restart, CodesOfContainers, Status!Ended
    <3> QED BY <2>1, <3>1
  <2> QED BY <1>3, <2>2, <2>3, <2>4
<1>4. ASSUME UNCHANGED statusVars PROVE StatusInv'
  BY <1>4 DEF statusVars, CodesOfContainers, Status!Ended
<1> QED BY <1>1, <1>2, <1>3, <1>4 DEF Status!Next

\* The containers of the pod are those of the two lists.
LEMMA NamesType ==
    /\ DOMAIN Status!All \in SUBSET Nat
    /\ Status!Names = {Status!All[i] : i \in DOMAIN Status!All}
<1>1. Status!All \in Seq(DOMAIN Codes)
  BY ContainersAssumption DEF Status!All
<1> HIDE DEF Status!All
<1> QED BY <1>1 DEF Status!Names, Status!ToSet

\* A message about a code is about the first failed container whose codes
\* the code explains.
LEMMA Explains == ASSUME StatusInv PROVE FailureExplained
<1>0. CASE unschedulable \/ event
  BY <1>0 DEF FailureExplained, Status!FailureExplained, Status!message, Status!Text
<1> DEFINE failed == Status!failed_containers
           explained == {i \in failed : Status!All[i] \in Status!Explained}
           first == Status!Min(explained)
<1>1. ASSUME NEW c \in Status!Names, Status!Failing(c)
      PROVE  \E i \in failed : Status!All[i] = c
  <2>1. Status!FailedContainer(c)
    BY <1>1 DEF Status!Failing, Status!FailedContainer
  <2> QED BY <2>1, NamesType DEF Status!failed_containers
<1>2. ASSUME explained # {}
      PROVE  Status!All[first] \in Status!Explained \cap Status!Names
  <2>1. explained \in SUBSET Nat
    BY NamesType DEF Status!failed_containers
  <2>2. first \in explained
    BY <1>2, <2>1, MinIsLeast DEF Status!Min, Min
  <2> HIDE DEF first
  <2>3. first \in DOMAIN Status!All /\ Status!All[first] \in Status!Explained
    BY <2>2 DEF Status!failed_containers
  <2> QED BY <2>3, NamesType
<1>3. Status!get_failed_message =
          CASE failed = {} -> Status!Text("none", "none")
            [] explained # {} -> Status!Text("code", Status!exit_code(Status!All[first]))
            [] OTHER -> Status!Text("auxiliary", "none")
  BY DEF Status!get_failed_message
<1>4. explained = {} => \A c \in Status!Explained \cap Status!Names : ~ Status!Failing(c)
  BY <1>1
<1>5. explained # {} => failed # {}
  OBVIOUS
<1> HIDE DEF failed, explained, first
<1>6. ASSUME ~ unschedulable, ~ event PROVE Status!FailureExplained
  <2>1. Status!message = Status!get_failed_message
    BY <1>6 DEF Status!message
  <2>2. CASE failed = {}
    <3>1. Status!message.kind = "none"
      BY <1>3, <1>5, <2>1, <2>2 DEF Status!Text
    <3> QED BY <1>1, <2>2, <3>1 DEF Status!FailureExplained
  <2>3. CASE explained # {}
    <3>1. Status!message.kind = "code"
          /\ Status!message.code = Status!exit_code(Status!All[first])
      BY <1>3, <1>5, <2>1, <2>3 DEF Status!Text
    <3>2. Status!All[first] \in Status!Explained \cap Status!Names
      BY <1>2, <2>3
    <3>3. ASSUME Status!message.code # "unknown"
          PROVE  Status!message.code \in exited[Status!All[first]]
      BY <3>1, <3>2, <3>3 DEF Status!exit_code, StatusInv, CodesOfContainers
    <3> QED BY <3>1, <3>2, <3>3 DEF Status!FailureExplained
  <2>4. CASE failed # {} /\ explained = {}
    <3>1. Status!message.kind = "auxiliary"
      BY <1>3, <2>1, <2>4 DEF Status!Text
    <3> QED BY <1>4, <2>4, <3>1 DEF Status!FailureExplained
  <2> QED BY <2>2, <2>3, <2>4
<1> QED BY <1>0, <1>6 DEF FailureExplained

\* Steps of the other services leave the session alone.
LEMMA StatusSteps == [Next]_vars => [Status!Next]_statusVars
BY DEF Next, vars

\* The invariant of the session.
THEOREM StatusInvariance == Spec => []StatusInv
<1>1. StatusInv /\ [Next]_vars => StatusInv'
  BY StatusSteps, StatusKeeps
<1> QED BY StatusInit, <1>1, PTL DEF Spec

\* A clock at its threshold is within any positive warning duration of it.
LEMMA AtThreshold ==
    ASSUME NEW threshold \in Nat, NEW elapsed \in Nat, elapsed >= threshold
    PROVE  Status!Critical(threshold, elapsed) = TRUE
<1>1. threshold < elapsed + WarningSeconds
  BY SecondsAssumption
<1> QED BY <1>1 DEF Status!Critical

\* No session is culled without a critical warning of that reason right
\* before (get_status).
THEOREM Announced == Spec => TerminationAnnounced
<1>1. ASSUME StatusInv, Status!CullOld
      PROVE  [about |-> "age", critical |-> TRUE] \in Status!warnings
  <2>1. MaxAgeSeconds > 0 /\ age >= MaxAgeSeconds /\ age \in Nat
    BY <1>1 DEF Status!CullOld, StatusInv, StatusTypeOK
  <2>2. Status!Warning("age", MaxAgeSeconds, age) = [about |-> "age", critical |-> TRUE]
    BY <2>1, AtThreshold, SecondsAssumption DEF Status!Warning
  <2> QED BY <2>1, <2>2 DEF Status!warnings
<1>2. ASSUME StatusInv, Status!CullIdle
      PROVE  [about |-> "idle", critical |-> TRUE] \in Status!warnings
  <2>1. IdleSeconds > 0 /\ idle >= IdleSeconds /\ idle \in Nat
    BY <1>2 DEF Status!CullIdle, StatusInv, StatusTypeOK
  <2>2. Status!Warning("idle", IdleSeconds, idle) = [about |-> "idle", critical |-> TRUE]
    BY <2>1, AtThreshold, SecondsAssumption DEF Status!Warning
  <2> QED BY <2>1, <2>2 DEF Status!warnings
<1>3. ASSUME StatusInv, Status!CullHibernated
      PROVE  [about |-> "hibernated", critical |-> TRUE] \in Status!warnings
  <2>1. HibernatedSeconds > 0 /\ asleep >= HibernatedSeconds /\ asleep \in Nat
        /\ state = "hibernated" /\ ~ anonymous
    BY <1>3 DEF Status!CullHibernated, StatusInv, StatusTypeOK
  <2>2. Status!Warning("hibernated", HibernatedSeconds, asleep)
            = [about |-> "hibernated", critical |-> TRUE]
    BY <2>1, AtThreshold, SecondsAssumption DEF Status!Warning
  <2> QED BY <2>1, <2>2 DEF Status!warnings
<1>4. StatusInv =>
          /\ Status!CullOld => [about |-> "age", critical |-> TRUE] \in Status!warnings
          /\ Status!CullIdle => [about |-> "idle", critical |-> TRUE] \in Status!warnings
          /\ Status!CullHibernated
                 => [about |-> "hibernated", critical |-> TRUE] \in Status!warnings
  BY <1>1, <1>2, <1>3
<1> QED BY StatusInvariance, <1>4, PTL DEF TerminationAnnounced,
                                           Status!TerminationAnnounced

\* The message about a failed session is about a failure that there was, with
\* a code that a container of the pod did end with (get_failed_message).
THEOREM Explained == Spec => []FailureExplained
<1>1. StatusInv => FailureExplained
  BY Explains
<1> QED BY StatusInvariance, <1>1, PTL

=============================================================================
