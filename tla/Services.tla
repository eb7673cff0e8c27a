------------------------------ MODULE Services ------------------------------
(***************************************************************************)
(* The services around a session: the git sidecar, the liveness detector's *)
(* watcher, the processes of the git proxy and of the k8s-watcher, the     *)
(* schema migration and the status of a session.  They share no state, so  *)
(* a behaviour of this module is one of one of them, which Init chooses.   *)
(***************************************************************************)
EXTENDS Naturals, FiniteSets, Sequences

CONSTANTS
    None, Nothing,
    Calls, Api, MaxCommits,                    \* GitSidecar
    Root, Parent, MaxEvents,                   \* ActivityWatcher
    Configs, Urls,                             \* ProxyServer
    Namespaces,                                \* WatcherServer
    Servers, Limit,                            \* Migration
    Containers, Inits, Codes, IdleSeconds, MaxAgeSeconds,
    HibernatedSeconds, WarningSeconds, MaxTime \* SessionStatus

ASSUME SidecarAssumption == Api \notin Calls /\ MaxCommits \in Nat

ASSUME WatcherAssumption == IsFiniteSet(Namespaces) /\ Namespaces # {}

ASSUME LimitAssumption == Limit \in Nat \ {0}

ASSUME ContainersAssumption ==
    Containers \in Seq(DOMAIN Codes) /\ Inits \in Seq(DOMAIN Codes)

ASSUME SecondsAssumption ==
    /\ IdleSeconds \in Nat /\ MaxAgeSeconds \in Nat /\ HibernatedSeconds \in Nat
    /\ WarningSeconds \in Nat \ {0}

VARIABLES
    service,   \* the one that runs
    files, ahead, behind, unfetched, upstream, call, newer, answer, session,
    note, touched,
    exists, watched, queue, pc, todo, walked, deleted, raced,
    config, main, server, signal, request, probe,
    builders, watcherMain, at, reports, timer, synced, watcherSignal, shut,
    cancelled, list,
    upper, servers, mixed, labelled, dryRun, run, listed, rest, mixedThen, started,
    anonymous, now, last, unschedulable, event, state, age, idle, asleep, exited

Sidecar == INSTANCE GitSidecar
Activity == INSTANCE ActivityWatcher
ProxyProcess == INSTANCE ProxyServer
Watcher == INSTANCE WatcherServer
    WITH main <- watcherMain, signal <- watcherSignal, request <- list
Schema == INSTANCE Migration WITH exists <- servers
Status == INSTANCE SessionStatus

ASSUME TreeAssumption == Activity!IsTree

ASSUME ProxyAssumption ==
    /\ Configs # {} /\ \A c \in Configs : ProxyProcess!IsConfig(c)
    /\ \A url \in Urls : ProxyProcess!IsUrl(url)

sidecarVars == <<files, ahead, behind, unfetched, upstream, call, newer, answer,
                 session, note, touched>>

activityVars == <<exists, watched, queue, pc, todo, walked, deleted, raced>>

proxyVars == <<config, main, server, signal, request, probe>>

watcherVars == <<builders, watcherMain, at, reports, timer, synced, watcherSignal,
                 shut, cancelled, list>>

schemaVars == <<upper, servers, mixed, labelled, dryRun, run, listed, rest,
                mixedThen, started>>

statusVars == <<anonymous, now, last, unschedulable, event, state, age, idle,
                asleep, exited>>

vars == <<service, sidecarVars, activityVars, proxyVars, watcherVars, schemaVars,
          statusVars>>

-----------------------------------------------------------------------------
(***************************************************************************)
(* One state for each service that does not run.                           *)
(***************************************************************************)

NoActivity == Activity!Init /\ exists = {Root}

NoProxy ==
    /\ config = CHOOSE c \in Configs : TRUE
    /\ main = "exited"
    /\ server = [s \in ProxyProcess!HttpServers |-> "closed"]
    /\ signal = FALSE
    /\ request = None
    /\ probe = "idle"

NoWatcher ==
    /\ builders = FALSE
    /\ watcherMain = "exited"
    /\ at = 1
    /\ reports = Watcher!Waiting
    /\ timer = FALSE
    /\ synced = {}
    /\ watcherSignal = FALSE
    /\ shut = FALSE
    /\ cancelled = FALSE
    /\ list = None

NoSchema == Schema!Init /\ upper = {} /\ servers = {}

NoStatus == Status!Init /\ ~ anonymous /\ ~ unschedulable

Init ==
    /\ service \in {"sidecar", "activity", "proxy", "watcher", "migration", "status"}
    /\ Sidecar!Init
    /\ IF service = "activity" THEN Activity!Init ELSE NoActivity
    /\ IF service = "proxy" THEN ProxyProcess!Init ELSE NoProxy
    /\ IF service = "watcher" THEN Watcher!Init ELSE NoWatcher
    /\ IF service = "migration" THEN Schema!Init ELSE NoSchema
    /\ IF service = "status" THEN Status!Init ELSE NoStatus

Next ==
    \/ /\ service = "sidecar"
       /\ Sidecar!Next
       /\ UNCHANGED <<activityVars, proxyVars, watcherVars, schemaVars, statusVars>>
       /\ UNCHANGED service
    \/ /\ service = "activity"
       /\ Activity!Next
       /\ UNCHANGED <<sidecarVars, proxyVars, watcherVars, schemaVars, statusVars>>
       /\ UNCHANGED service
    \/ /\ service = "proxy"
       /\ ProxyProcess!Next
       /\ UNCHANGED <<sidecarVars, activityVars, watcherVars, schemaVars, statusVars>>
       /\ UNCHANGED service
    \/ /\ service = "watcher"
       /\ Watcher!Next
       /\ UNCHANGED <<sidecarVars, activityVars, proxyVars, schemaVars, statusVars>>
       /\ UNCHANGED service
    \/ /\ service = "migration"
       /\ Schema!Next
       /\ UNCHANGED <<sidecarVars, activityVars, proxyVars, watcherVars, statusVars>>
       /\ UNCHANGED service
    \/ /\ service = "status"
       /\ Status!Next
       /\ UNCHANGED <<sidecarVars, activityVars, proxyVars, watcherVars, schemaVars>>
       /\ UNCHANGED service

\* Nothing fair is enabled in the state of a process that does not run.
Fairness == ProxyProcess!Fairness /\ Watcher!Fairness

Spec == Init /\ [][Next]_vars /\ Fairness

-----------------------------------------------------------------------------
(***************************************************************************)
(* Properties.                                                             *)
(***************************************************************************)

\* The annotations of a hibernated session tell what the sidecar found in its
\* repository (status of the sidecar, patch_server).
AnnotationsTruthful == Sidecar!AnnotationsTruthful

\* A discard that is answered has left nothing behind, whatever other calls
\* of the sidecar did meanwhile (discard_unsaved_changes).
DiscardLeavesNothing == Sidecar!DiscardLeavesNothing

\* Every directory is watched when all events are read, unless one was removed
\* or made in another before that one was watched (run_inotify).
WatchesComplete == Activity!WatchesComplete

\* A directory that is there keeps its watch (the docstring of run_inotify).
WatchKept == Activity!WatchKept

\* Git tokens go to the repositories of their provider and to all of those
\* that the proxy knows (handlerFunc, hostsMatch, getPort).
TokensWhereTheyBelong == ProxyProcess!TokensWhereTheyBelong

\* A probe of /health succeeds only when the proxy serves (getHealthHandler).
HealthyMeansServing == ProxyProcess!HealthyMeansServing

\* SIGTERM ends the proxy, whatever the remotes do (main of git-https-proxy).
ProxyStops == ProxyProcess!ProxyStops

\* Answered lists have the resources of all namespaces (CacheCollection).
ListsComplete == Watcher!ListsComplete

\* The start of the k8s-watcher ends, and SIGTERM ends the k8s-watcher
\* (CacheCollection.synchronize, main of k8s-watcher).
StartsOrStops == Watcher!StartsOrStops

\* A migration that ended has migrated every server (adjust_annotations).
MigratedWhenDone == Schema!MigratedWhenDone

\* The message of a failed session is about a failure there was (get_status).
FailureExplained == Status!FailureExplained

\* No session is culled without a critical warning before (get_status).
TerminationAnnounced == Status!TerminationAnnounced

=============================================================================
