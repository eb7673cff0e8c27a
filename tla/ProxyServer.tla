---------------------------- MODULE ProxyServer ----------------------------
(***************************************************************************)
(* The process of git-https-proxy: its health server and its proxy, which  *)
(* run in goroutines, the handlers that add credentials to git requests,   *)
(* and the shutdown after SIGTERM.  TokenStore models the tokens.          *)
(***************************************************************************)
EXTENDS Naturals, Sequences, SequencesExt

CONSTANTS
    Configs,   \* configurations: [anonymous, complete, providers, repositories]
    Urls,      \* URLs that git asks for
    None

\* A URL is [scheme, host, port, path]: host is [www, name] for a name behind
\* that many "www."; port is 0 when it is left out; path is a sequence.
IsUrl(url) == url.host \in [www : Nat, name : {url.host.name}]

IsConfig(c) ==
    /\ c.repositories \in Seq(ToSet(c.repositories))
    /\ \A repo \in ToSet(c.repositories) : IsUrl(repo.url) /\ repo.provider # None

HttpServers == {"health", "proxy"}

VARIABLES
    config,
    main,     \* config, wait, health, proxy: where main is; or exited
    server,   \* per server: new, listening or closed
    signal,   \* SIGTERM has come
    request,  \* the git request in the proxy, if any
    probe     \* the readiness probe: idle, health, asked, ok, failed

vars == <<config, main, server, signal, request, probe>>

Init ==
    /\ config \in Configs
    /\ main = "config"
    /\ server = [s \in HttpServers |-> "new"]
    /\ signal = FALSE
    /\ request = None
    /\ probe = "idle"

\* The end of the process closes all connections.
Exit ==
    /\ main' = "exited"
    /\ server' = [s \in HttpServers |-> "closed"]
    /\ request' = None
    /\ probe' = "idle"
    /\ UNCHANGED <<config, signal>>

-----------------------------------------------------------------------------
(***************************************************************************)
(* main                                                                    *)
(***************************************************************************)

Valid == config.anonymous \/ config.complete

Start ==
    /\ main = "config"
    /\ Valid
    /\ main' = "wait"
    /\ UNCHANGED <<config, server, signal, request, probe>>

Invalid ==
    /\ main = "config"
    /\ ~ Valid
    /\ Exit

Listen(s) ==
    /\ main \notin {"config", "exited"}
    /\ server[s] = "new"
    /\ server' = [server EXCEPT ![s] = "listening"]
    /\ UNCHANGED <<config, main, signal, request, probe>>

\* The port is in use: log.Fatalln.
ListenFails(s) ==
    /\ main \notin {"config", "exited"}
    /\ server[s] = "new"
    /\ Exit

\* Before signal.Notify the signal ends the process.
Sigterm ==
    /\ ~ signal
    /\ main # "exited"
    /\ signal' = TRUE
    /\ IF main = "config"
           THEN /\ main' = "exited"
                /\ UNCHANGED <<config, server, request, probe>>
           ELSE UNCHANGED <<config, main, server, request, probe>>

CloseServer(s) == server' = [server EXCEPT ![s] = "closed"]

ShutdownHealth ==
    /\ main = "wait"
    /\ signal
    /\ main' = "health"
    /\ CloseServer("health")
    /\ UNCHANGED <<config, signal, request, probe>>

\* The goroutine of the server only logs.
ServeEndsLogged ==
    UNCHANGED vars

\* log.Fatalln ends the process.
ServeEnds == Exit

\* ListenAndServe returns as soon as Shutdown begins.
ServeReturns(s) ==
    /\ main # "exited"
    /\ server[s] = "closed"
    /\ ServeEnds

\* Shutdown waits for the requests that the server has.
ShutdownProxy ==
    /\ main = "health"
    /\ probe \notin {"health", "asked"}
    /\ main' = "proxy"
    /\ CloseServer("proxy")
    /\ UNCHANGED <<config, signal, request, probe>>

\* ... but not for connections that were hijacked, as CONNECT does it.
Drained == IF request = None THEN TRUE ELSE request.url.scheme = "https"

MainReturns ==
    /\ main = "proxy"
    /\ Drained
    /\ Exit

-----------------------------------------------------------------------------
(***************************************************************************)
(* The handlers of the proxy.                                              *)
(***************************************************************************)

getPort(url) ==
    IF url.port # 0
        THEN url.port
        ELSE IF url.scheme = "http" THEN 80 ELSE 443

WithWww(host) == [host EXCEPT !.www = @ + 1]

hostsMatch(host1, host2) ==
    CASE host1.www > 0 /\ host2.www = 0 -> host1 = WithWww(host2)
      [] host1.www = 0 /\ host2.www > 0 -> WithWww(host1) = host2
      [] OTHER -> host1 = host2

\* The handlers run in the order of the repositories; a repository of an
\* unknown provider has none.
HasHandler(repo) == ~ config.anonymous /\ repo.provider \in config.providers

\* goproxy.ReqHostIs; the URL of an https request has the port of its CONNECT.
ReqHostIs(url, repo) ==
    /\ url.host \in {repo.url.host, WithWww(repo.url.host)}
    /\ \/ url.port = 443
       \/ url.port = 0
       \/ url.scheme = "https" /\ getPort(url) = 443

ValidAnyPort(url, repo) ==
    /\ url.scheme = repo.url.scheme
    /\ hostsMatch(url.host, repo.url.host)
    /\ IsPrefix(repo.url.path, url.path)

validGitRequest(url, repo) ==
    /\ url.scheme = repo.url.scheme
    /\ hostsMatch(url.host, repo.url.host)
    /\ getPort(url) = getPort(repo.url)
    /\ IsPrefix(repo.url.path, url.path)

Matches(url, repo) == ReqHostIs(url, repo) /\ validGitRequest(url, repo)

Receive ==
    /\ server["proxy"] = "listening"
    /\ request = None
    /\ \E url \in Urls :
           request' = [url |-> url, handler |-> 1, token |-> None, step |-> "handlers"]
    /\ UNCHANGED <<config, main, server, signal, probe>>

\* The request is answered with an error and does not go to the remote.
Unauthorized == request' = None

\* One repository, and the next: a later one replaces the header.
Handle ==
    /\ request # None
    /\ request.step = "handlers"
    /\ request.handler <= Len(config.repositories)
    /\ LET repo == config.repositories[request.handler] IN
       IF HasHandler(repo) /\ Matches(request.url, repo)
           THEN \/ request' = [request EXCEPT !.handler = @ + 1,
                                              !.token = repo.provider]
                \/ Unauthorized
           ELSE request' = [request EXCEPT !.handler = @ + 1]
    /\ UNCHANGED <<config, main, server, signal, probe>>

Forward ==
    /\ request # None
    /\ request.step = "handlers"
    /\ request.handler > Len(config.repositories)
    /\ request' = [request EXCEPT !.step = "remote"]
    /\ UNCHANGED <<config, main, server, signal, probe>>

\* The remote answers, if it does.
Answered ==
    /\ request # None
    /\ request.step = "remote"
    /\ request' = None
    /\ UNCHANGED <<config, main, server, signal, probe>>

-----------------------------------------------------------------------------
(***************************************************************************)
(* /health, which asks /ping of the same server through the proxy.         *)
(***************************************************************************)

Probe ==
    /\ probe \notin {"health", "asked"}
    /\ server["health"] = "listening"
    /\ probe' = "health"
    /\ UNCHANGED <<config, main, server, signal, request>>

AskPingDirectly == probe' = "asked"

\* The GET fails when the proxy does not listen; its nil answer is
\* dereferenced, and the panic ends the connection.
AskPing == probe' = IF server["proxy"] = "listening" THEN "asked" ELSE "failed"

AskThroughProxy ==
    /\ probe = "health"
    /\ AskPing
    /\ UNCHANGED <<config, main, server, signal, request>>

\* The proxy answers 500 when the health server does not take connections.
ProbeAnswered ==
    /\ probe = "asked"
    /\ probe' = IF server["health"] = "listening" THEN "ok" ELSE "failed"
    /\ UNCHANGED <<config, main, server, signal, request>>

Next ==
    \/ Start \/ Invalid \/ Sigterm
    \/ \E s \in HttpServers : Listen(s) \/ ListenFails(s) \/ ServeReturns(s)
    \/ ShutdownHealth \/ ShutdownProxy \/ MainReturns
    \/ Receive \/ Handle \/ Forward \/ Answered
    \/ Probe \/ AskThroughProxy \/ ProbeAnswered

\* Goroutines run on; no remote has to answer.
Fairness ==
    /\ WF_vars(Start) /\ WF_vars(Invalid)
    /\ \A s \in HttpServers : WF_vars(ServeReturns(s))
    /\ WF_vars(ShutdownHealth) /\ WF_vars(ShutdownProxy) /\ WF_vars(MainReturns)
    /\ WF_vars(AskThroughProxy) /\ WF_vars(ProbeAnswered)

Spec == Init /\ [][Next]_vars /\ Fairness

-----------------------------------------------------------------------------
(***************************************************************************)
(* Properties.                                                             *)
(***************************************************************************)

Sent == request # None /\ request.step = "remote"

\* The URL is one of the repository, with or without www. and whether or not
\* the port is written.
BelongsTo(url, repo) ==
    /\ url.scheme = repo.url.scheme
    /\ url.host.name = repo.url.host.name
    /\ url.host.www \in {repo.url.host.www - 1, repo.url.host.www, repo.url.host.www + 1}
    /\ getPort(url) = getPort(repo.url)
    /\ IsPrefix(repo.url.path, url.path)

\* A request that goes out with a token goes to a repository of that token's
\* provider, also when repositories of several providers share a host; and
\* one for a repository of a known provider, on the default port of https,
\* goes out with a token (handlerFunc, hostsMatch, getPort).
TokensWhereTheyBelong ==
    Sent =>
        LET repos == ToSet(config.repositories) IN
        /\ request.token # None =>
               \E r \in repos : r.provider = request.token /\ BelongsTo(request.url, r)
        /\ request.token = None /\ ~ config.anonymous =>
               ~ \E r \in repos :
                     /\ r.provider \in config.providers
                     /\ BelongsTo(request.url, r)
                     /\ r.url.scheme = "https" /\ getPort(r.url) = 443
                     /\ r.url.host.www = 0

\* Before SIGTERM, a probe is answered with ok only while the proxy takes
\* connections (getHealthHandler: "to ensure that the proxy is fully up").
HealthyMeansServing ==
    probe = "ok" /\ ~ signal => server["proxy"] = "listening"

\* After SIGTERM the process ends, although a remote may never answer a git
\* request that the proxy waits for (main).
ProxyStops == signal ~> main = "exited"

=============================================================================
