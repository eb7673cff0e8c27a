--------------------------- MODULE WatcherServer ---------------------------
(***************************************************************************)
(* The process of k8s-watcher: the informers of its cache collections, the *)
(* synchronization of one collection after the other with a timeout, the   *)
(* HTTP server, and the shutdown after SIGTERM.                            *)
(***************************************************************************)
EXTENDS Naturals, Sequences, FiniteSets

CONSTANTS
    Namespaces,   \* config.Namespaces
    None

VARIABLES
    builders,   \* config.ImageBuildersEnabled
    main,       \* sync, listen or serving: where main is; or exited
    at,         \* the collection that synchronize waits for
    reports,    \* per namespace: the goroutine of Cache.synchronize: wait, ok,
                \* failed (it sends on doneCh) or read
    timer,      \* the timer of that synchronize sends on timeoutCh
    synced,     \* the caches that hold the resources of the cluster
    signal,     \* SIGTERM has come
    shut,       \* Shutdown has been called
    cancelled,  \* the context is cancelled
    request     \* a request for a list, and its answer

vars == <<builders, main, at, reports, timer, synced, signal, shut, cancelled, request>>

\* Initialize: jupyterservers, sessions, buildruns and taskruns.
Collections ==
    IF builders THEN <<"JS", "AS", "BR", "TR">> ELSE <<"JS", "AS">>

Waiting == [n \in Namespaces |-> "wait"]

Init ==
    /\ builders \in BOOLEAN
    /\ main = "sync"
    /\ at = 1
    /\ reports = Waiting
    /\ timer = FALSE
    /\ synced = {}
    /\ signal = FALSE
    /\ shut = FALSE
    /\ cancelled = FALSE
    /\ request = None

Exit ==
    /\ main' = "exited"
    /\ reports' = Waiting
    /\ timer' = FALSE
    /\ request' = None

-----------------------------------------------------------------------------
(***************************************************************************)
(* Initialize                                                              *)
(***************************************************************************)

\* An informer has its first list; the API may not let it.
InformerSyncs ==
    /\ main # "exited"
    /\ ~ cancelled
    /\ \E i \in DOMAIN Collections, n \in Namespaces :
           synced' = synced \cup {<<Collections[i], n>>}
    /\ UNCHANGED <<builders, main, at, reports, timer, signal, shut, cancelled, request>>

\* WaitForCacheSync returns; it may see both.
WaitForCacheSync ==
    /\ main = "sync"
    /\ \E n \in Namespaces :
           /\ reports[n] = "wait"
           /\ \/ /\ <<Collections[at], n>> \in synced
                 /\ reports' = [reports EXCEPT ![n] = "ok"]
              \/ /\ cancelled
                 /\ reports' = [reports EXCEPT ![n] = "failed"]
    /\ UNCHANGED <<builders, main, at, timer, synced, signal, shut, cancelled, request>>

Sleep ==
    /\ main = "sync"
    /\ ~ timer
    /\ timer' = TRUE
    /\ UNCHANGED <<builders, main, at, reports, synced, signal, shut, cancelled, request>>

SyncCount == Cardinality({n \in Namespaces : reports[n] = "read"})

Selects == main = "sync" /\ SyncCount < Cardinality(Namespaces)

ReceiveDone ==
    /\ Selects
    /\ \E n \in Namespaces :
           \/ /\ reports[n] = "ok"
              /\ reports' = [reports EXCEPT ![n] = "read"]
              /\ UNCHANGED <<main, timer, request>>
           \/ /\ reports[n] = "failed"
              /\ Exit
    /\ UNCHANGED <<builders, at, synced, signal, shut, cancelled>>

\* The next collection, or the end of Initialize.
NextCollection ==
    /\ IF at < Len(Collections)
           THEN at' = at + 1 /\ main' = main
           ELSE at' = at /\ main' = "listen"
    /\ reports' = Waiting
    /\ timer' = FALSE
    /\ request' = request

TimeoutNotSelected == FALSE

TimeoutSelected == timer

\* The loop is left when the time is over.
GoOn == NextCollection

\* log.Fatalf
TimedOut == Exit /\ at' = at

ReceiveTimeout ==
    /\ Selects
    /\ TimeoutSelected
    /\ TimedOut
    /\ UNCHANGED <<builders, synced, signal, shut, cancelled>>

\* The timer goes on and blocks for good when it sends.
AllSynced ==
    /\ main = "sync"
    /\ SyncCount = Cardinality(Namespaces)
    /\ NextCollection
    /\ UNCHANGED <<builders, synced, signal, shut, cancelled>>

-----------------------------------------------------------------------------
(***************************************************************************)
(* The server and its shutdown.                                            *)
(***************************************************************************)

ListenAndServe ==
    /\ main = "listen"
    /\ ~ shut
    /\ main' = "serving"
    /\ UNCHANGED <<builders, at, reports, timer, synced, signal, shut, cancelled, request>>

\* It returns when the port is in use and as soon as Shutdown begins; then
\* main returns, and does not wait for the requests that Shutdown waits for.
ServeReturns ==
    /\ \/ main = "listen"
       \/ main = "serving" /\ shut
    /\ Exit
    /\ UNCHANGED <<builders, at, synced, signal, shut, cancelled>>

Sigterm ==
    /\ ~ signal
    /\ main # "exited"
    /\ signal' = TRUE
    /\ UNCHANGED <<builders, main, at, reports, timer, synced, shut, cancelled, request>>

Shutdown ==
    /\ main # "exited"
    /\ signal
    /\ ~ shut
    /\ shut' = TRUE
    /\ UNCHANGED <<builders, main, at, reports, timer, synced, signal, cancelled, request>>

Pending == request # None /\ ~ request.answered

Cancel ==
    /\ main # "exited"
    /\ shut
    /\ ~ cancelled
    /\ ~ Pending
    /\ cancelled' = TRUE
    /\ UNCHANGED <<builders, main, at, reports, timer, synced, signal, shut, request>>

List ==
    /\ main = "serving"
    /\ ~ shut
    /\ ~ Pending
    /\ \E i \in DOMAIN Collections :
           request' = [collection |-> Collections[i], answered |-> FALSE, holds |-> {}]
    /\ UNCHANGED <<builders, main, at, reports, timer, synced, signal, shut, cancelled>>

\* getAll and getByUserID put the caches of all namespaces together.
Answer ==
    /\ Pending
    /\ request' = [request EXCEPT !.answered = TRUE,
                                  !.holds = {n \in Namespaces : <<request.collection, n>> \in synced}]
    /\ UNCHANGED <<builders, main, at, reports, timer, synced, signal, shut, cancelled>>

Next ==
    \/ InformerSyncs \/ WaitForCacheSync \/ Sleep
    \/ ReceiveDone \/ ReceiveTimeout \/ AllSynced
    \/ ListenAndServe \/ ServeReturns
    \/ Sigterm \/ Shutdown \/ Cancel
    \/ List \/ Answer

\* Goroutines run on and time passes; the API need not answer the informers.
Fairness ==
    /\ WF_vars(WaitForCacheSync) /\ WF_vars(Sleep)
    /\ WF_vars(ReceiveDone) /\ WF_vars(ReceiveTimeout) /\ WF_vars(AllSynced)
    /\ WF_vars(ListenAndServe) /\ WF_vars(ServeReturns)
    /\ WF_vars(Shutdown) /\ WF_vars(Cancel)

Spec == Init /\ [][Next]_vars /\ Fairness

-----------------------------------------------------------------------------
(***************************************************************************)
(* Properties.                                                             *)
(***************************************************************************)

\* A list that is answered has the resources of every namespace: the session
\* API takes what is not in it for missing (Initialize, synchronize, getAll).
ListsComplete ==
    request # None /\ request.answered => request.holds = Namespaces

\* The start ends, with a server or with the process, also when informers
\* never get their list; and SIGTERM ends the process at any time, also
\* during the start and with a request that is not answered (synchronize, main).
StartsOrStops ==
    /\ main = "sync" ~> main \in {"serving", "exited"}
    /\ signal ~> main = "exited"

=============================================================================
