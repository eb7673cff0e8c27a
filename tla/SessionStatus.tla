--------------------------- MODULE SessionStatus ---------------------------
(***************************************************************************)
(* What the session API says of a session while its containers start,      *)
(* fail and restart and Amalthea reports their state and culls it: the     *)
(* message of a failed session and the warnings of get_status.             *)
(***************************************************************************)
EXTENDS Naturals, Sequences, SequencesExt

CONSTANTS
    Containers,   \* regular containers, in the order of containerStatuses
    Inits,        \* init containers, in the order they run in
    Codes,        \* per container: the exit codes that it may have
    IdleSeconds, MaxAgeSeconds, HibernatedSeconds,   \* thresholds; 0 for none
    WarningSeconds,   \* termination_warning_duration_seconds
    MaxTime,      \* bound: the age of the session
    None

VARIABLES
    anonymous,      \* is_user_anonymous
    now,            \* per container: waiting, running or the code it ended with
    last,           \* per container: the code of lastState
    unschedulable,  \* the last condition of the pending pod
    event,          \* Amalthea has put a message into events
    state,          \* starting, running, failed, hibernated; or gone
    age, idle, asleep,   \* since the creation, the last activity, the hibernation
    exited          \* history: per container, the codes that it ended with

vars == <<anonymous, now, last, unschedulable, event, state, age, idle, asleep, exited>>

pod == <<now, last, unschedulable, event, exited>>

time == <<age, idle, asleep>>

\* get_all_container_statuses
All == Containers \o Inits

Names == ToSet(All)

Init ==
    /\ anonymous \in BOOLEAN
    /\ now = [c \in Names |-> "waiting"]
    /\ last = [c \in Names |-> None]
    /\ unschedulable \in BOOLEAN
    /\ event = FALSE
    /\ state = "starting"
    /\ age = 0
    /\ idle = 0
    /\ asleep = 0
    /\ exited = [c \in Names |-> {}]

-----------------------------------------------------------------------------
(***************************************************************************)
(* Kubernetes and Amalthea.                                                *)
(***************************************************************************)

Alive == state \in {"starting", "running", "failed"}

Schedule ==
    /\ Alive
    /\ unschedulable
    /\ unschedulable' = FALSE
    /\ UNCHANGED <<anonymous, now, last, event, state, time, exited>>

Event ==
    /\ Alive
    /\ event' = ~ event
    /\ UNCHANGED <<anonymous, now, last, unschedulable, state, time, exited>>

Before(c) == {Inits[i] : i \in {j \in DOMAIN Inits : \A k \in 1 .. j : Inits[k] # c}}

Run(c) ==
    /\ Alive
    /\ ~ unschedulable
    /\ now[c] = "waiting"
    /\ \A i \in Before(c) : now[i] = "0"
    /\ now' = [now EXCEPT ![c] = "running"]
    /\ UNCHANGED <<anonymous, last, unschedulable, event, state, time, exited>>

End(c) ==
    /\ Alive
    /\ now[c] = "running"
    /\ \E code \in Codes[c] :
           /\ now' = [now EXCEPT ![c] = code]
           /\ exited' = [exited EXCEPT ![c] = @ \cup {code}]
    /\ UNCHANGED <<anonymous, last, unschedulable, event, state, time>>

Ended(c) == now[c] \notin {"waiting", "running"}

\* The kubelet restarts what has ended, but for init containers that are done.
Restart(c) ==
    /\ Alive
    /\ Ended(c)
    /\ c \in ToSet(Inits) => now[c] # "0"
    /\ last' = [last EXCEPT ![c] = now[c]]
    /\ now' = [now EXCEPT ![c] = "waiting"]
    /\ UNCHANGED <<anonymous, unschedulable, event, state, time, exited>>

Failing(c) ==
    \/ Ended(c) /\ now[c] # "0"
    \/ now[c] = "waiting" /\ last[c] \notin {None, "0"}

\* Amalthea looks at the pod now and then.
Report ==
    /\ Alive
    /\ state' = IF unschedulable \/ event \/ \E c \in Names : Failing(c)
                    THEN "failed"
                    ELSE IF \A c \in ToSet(Containers) : now[c] = "running"
                             THEN "running"
                             ELSE "starting"
    /\ UNCHANGED <<anonymous, pod, time>>

Tick ==
    /\ state # "gone"
    /\ age < MaxTime
    /\ age' = age + 1
    /\ idle' = idle + 1
    /\ asleep' = IF state = "hibernated" THEN asleep + 1 ELSE 0
    /\ UNCHANGED <<anonymous, pod, state>>

Activity ==
    /\ state = "running"
    /\ idle' = 0
    /\ UNCHANGED <<anonymous, pod, state, age, asleep>>

\* Culling, which hibernates the idle sessions of registered users.
CullOld ==
    /\ Alive
    /\ MaxAgeSeconds > 0 /\ age >= MaxAgeSeconds
    /\ state' = "gone"
    /\ UNCHANGED <<anonymous, pod, time>>

CullIdle ==
    /\ Alive
    /\ IdleSeconds > 0 /\ idle >= IdleSeconds
    /\ state' = IF anonymous THEN "gone" ELSE "hibernated"
    /\ UNCHANGED <<anonymous, pod, time>>

CullHibernated ==
    /\ state = "hibernated"
    /\ HibernatedSeconds > 0 /\ asleep >= HibernatedSeconds
    /\ state' = "gone"
    /\ UNCHANGED <<anonymous, pod, time>>

\* The pod of a resumed session is a new one.
Resume ==
    /\ state = "hibernated"
    /\ state' = "starting"
    /\ now' = [c \in Names |-> "waiting"]
    /\ last' = [c \in Names |-> None]
    /\ exited' = [c \in Names |-> {}]
    /\ unschedulable' \in BOOLEAN
    /\ event' = FALSE
    /\ idle' = 0
    /\ asleep' = 0
    /\ UNCHANGED <<anonymous, age>>

Next ==
    \/ Schedule \/ Event \/ Report \/ Tick \/ Activity
    \/ \E c \in Names : Run(c) \/ End(c) \/ Restart(c)
    \/ CullOld \/ CullIdle \/ CullHibernated \/ Resume

Spec == Init /\ [][Next]_vars

-----------------------------------------------------------------------------
(***************************************************************************)
(* get_status, which every GET evaluates.                                  *)
(***************************************************************************)

FailedNow(c) == Ended(c) /\ now[c] # "0"

\* get_failed_containers: the container has ended, or had before its restart.
FailedContainer(c) ==
    \/ Ended(c) /\ now[c] # "0"
    \/ last[c] \notin {None, "0"}

\* As positions in All.
failed_containers == {i \in DOMAIN All : FailedContainer(All[i])}

\* The code of lastState only, also for a container that has just ended.
exit_code(c) == IF last[c] = None THEN "unknown" ELSE last[c]

Text(kind, code) == [kind |-> kind, code |-> code]

\* The containers whose codes have messages for the user.
Explained == {"git-clone", "jupyter-server"}

get_failed_message ==
    LET explained == {i \in failed_containers : All[i] \in Explained}
        first == Min(explained) IN
    CASE failed_containers = {} -> Text("none", "none")
      [] explained # {} -> Text("code", exit_code(All[first]))
      [] OTHER -> Text("auxiliary", "none")

message ==
    CASE unschedulable -> Text("unschedulable", "none")
      [] event /\ ~ unschedulable -> Text("event", "none")
      [] OTHER -> get_failed_message

CriticalLate(threshold, elapsed) == threshold < elapsed

\* The remaining time is less than the warning duration.
Critical(threshold, elapsed) == threshold < elapsed + WarningSeconds

Warning(about, threshold, elapsed) ==
    [about |-> about, critical |-> Critical(threshold, elapsed)]

\* A hibernated session keeps its warning about being idle.
warnings ==
    LET idling == {Warning("idle", IdleSeconds, idle)}
        hibernating == {Warning("hibernated", HibernatedSeconds, asleep)}
        ageing == {Warning("age", MaxAgeSeconds, age)} IN
    (IF IdleSeconds > 0 THEN idling ELSE {})
    \cup (IF HibernatedSeconds > 0 /\ state = "hibernated" /\ ~ anonymous
              THEN hibernating ELSE {})
    \cup (IF MaxAgeSeconds > 0 THEN {w \in ageing : w.critical} ELSE {})

-----------------------------------------------------------------------------
(***************************************************************************)
(* Properties.                                                             *)
(***************************************************************************)

\* A failed session gets a message whenever a container is failing, also
\* while that one waits for its next start; a message about an exit code is
\* about one that the server or the clone has ended with in this pod; and the
\* failure is put down to auxiliary containers only when neither of the two
\* fails (get_status, get_failed_containers, get_failed_message).
FailureExplained ==
    state = "failed" =>
        /\ (\E c \in Names : Failing(c)) => message.kind # "none"
        /\ message.kind = "code" /\ message.code # "unknown" =>
               \E c \in Explained \cap Names : message.code \in exited[c]
        /\ message.kind = "auxiliary" =>
               \A c \in Explained \cap Names : ~ Failing(c)

\* No session is culled, for whatever reason, that had no critical warning of
\* that reason right before (get_status).
TerminationAnnounced ==
    [][/\ CullOld => [about |-> "age", critical |-> TRUE] \in warnings
       /\ CullIdle => [about |-> "idle", critical |-> TRUE] \in warnings
       /\ CullHibernated => [about |-> "hibernated", critical |-> TRUE] \in warnings]_vars

=============================================================================
