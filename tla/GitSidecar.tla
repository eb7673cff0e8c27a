----------------------------- MODULE GitSidecar -----------------------------
(***************************************************************************)
(* The git sidecar of a session (git_services/sidecar) and the hibernation *)
(* of the session by the notebooks API, which records in annotations what  *)
(* the sidecar says of the repository.  Gunicorn serves calls of the       *)
(* sidecar concurrently; each runs several git commands, between which the *)
(* user works and other people push.                                       *)
(***************************************************************************)
EXTENDS Naturals, FiniteSets

CONSTANTS
    Calls,       \* calls of the sidecar by the user interface
    Api,         \* the call of the sidecar by a hibernation
    MaxCommits,  \* bound: commits on a side that the other does not have
    Nothing

VARIABLES
    files,     \* the kinds of changes that git status would list
    ahead,     \* commits that are not on the upstream branch
    behind,    \* commits of the upstream branch, as last fetched, not here
    unfetched, \* commits on the remote that were never fetched
    upstream,  \* the branch has an upstream branch
    call,      \* per call: the command and its next step
    newer,     \* per call: commits fetched since its rev-parse
    answer,    \* per call: what it answered that is still of interest: a status,
               \* and that changes were discarded, until the user works on
    session,   \* running, hibernating or hibernated
    note,      \* the annotations of the hibernation
    touched    \* history: calls that run since before the user last worked;
               \* and Api, if anybody changed something since its status

vars == <<files, ahead, behind, unfetched, upstream, call, newer, answer,
          session, note, touched>>

repo == <<files, ahead, behind, unfetched, upstream>>

AllCalls == Calls \cup {Api}

\* Lines of git status --porcelain=v2: "1" and "2", "?", and "u".
Kinds == {"changed", "untracked", "unmerged"}

Idle == [command |-> "none", step |-> "idle"]

At(c, command, step) == call[c] = [command |-> command, step |-> step]

Goto(c, command, step) ==
    call' = [call EXCEPT ![c] = [command |-> command, step |-> step]]

Result(kind) == [kind |-> kind, clean |-> TRUE, ahead |-> 0, behind |-> 0]

Answer(c, result) ==
    /\ call' = [call EXCEPT ![c] = Idle]
    /\ answer' = [answer EXCEPT ![c] = result]

Init ==
    /\ files = {}
    /\ ahead = 0
    /\ behind = 0
    /\ unfetched = 0
    /\ upstream = TRUE
    /\ call = [c \in AllCalls |-> Idle]
    /\ newer = [c \in AllCalls |-> 0]
    /\ answer = [c \in AllCalls |-> Result("none")]
    /\ session = "running"
    /\ note = Nothing
    /\ touched = {}

-----------------------------------------------------------------------------
(***************************************************************************)
(* The user and the remote.                                                *)
(***************************************************************************)

Works == session # "hibernated"

UserDid ==
    /\ touched' = {c \in Calls : call[c] # Idle} \cup {Api}
    /\ answer' = [c \in AllCalls |-> IF c = Api THEN answer[c] ELSE Result("none")]
    /\ UNCHANGED <<call, newer, session, note>>

Change(kind) ==
    /\ Works
    /\ kind \in {"changed", "untracked"}
    /\ files' = files \cup {kind}
    /\ UserDid
    /\ UNCHANGED <<ahead, behind, unfetched, upstream>>

Commit ==
    /\ Works
    /\ files # {} /\ "unmerged" \notin files
    /\ ahead < MaxCommits
    /\ files' = {}
    /\ ahead' = ahead + 1
    /\ UserDid
    /\ UNCHANGED <<behind, unfetched, upstream>>

Push ==
    /\ Works
    /\ upstream
    /\ behind = 0 /\ unfetched = 0
    /\ ahead' = 0
    /\ UserDid
    /\ UNCHANGED <<files, behind, unfetched, upstream>>

\* git merge with conflicts, in a clean tree.
Conflict ==
    /\ Works
    /\ files = {}
    /\ ahead > 0 /\ behind > 0
    /\ files' = {"unmerged"}
    /\ UserDid
    /\ UNCHANGED <<ahead, behind, unfetched, upstream>>

\* The conflicts are resolved and the merge is committed.
Resolve ==
    /\ Works
    /\ files = {"unmerged"}
    /\ files' = {}
    /\ behind' = 0
    /\ UserDid
    /\ UNCHANGED <<ahead, unfetched, upstream>>

\* A new branch that is on no remote.
NewBranch ==
    /\ Works
    /\ upstream
    /\ upstream' = FALSE
    /\ behind' = 0
    /\ UserDid
    /\ UNCHANGED <<files, ahead, unfetched>>

OthersPush ==
    /\ behind + unfetched < MaxCommits
    /\ \A c \in AllCalls : newer[c] + unfetched < MaxCommits
    /\ unfetched' = unfetched + 1
    /\ UNCHANGED <<files, ahead, behind, upstream, call, newer, answer,
                   session, note, touched>>

-----------------------------------------------------------------------------
(***************************************************************************)
(* Commands.  json_rpc_errors answers every exception as an error.         *)
(***************************************************************************)

Served == session # "hibernated"

Begin(c, command) ==
    /\ Served
    /\ call[c] = Idle
    /\ Goto(c, command, "fetch")
    /\ answer' = [answer EXCEPT ![c] = Result("none")]
    /\ touched' = touched \ {c}

Request(c) ==
    /\ \E command \in {"status", "discard", "pull"} : Begin(c, command)
    /\ UNCHANGED <<repo, newer, session, note>>

\* A git command that fails ends the call.
GitFails(c) ==
    /\ call[c] # Idle
    /\ Answer(c, Result("none"))
    /\ newer' = [newer EXCEPT ![c] = 0]
    /\ touched' = touched \ {c}
    /\ UNCHANGED <<repo, session, note>>

Fetched ==
    /\ unfetched' = 0
    /\ newer' = [c \in AllCalls |-> IF call[c].step = "reset"
                                        THEN newer[c] + unfetched
                                        ELSE newer[c]]

\* git fetch moves what is known of the upstream branch.
Fetch(c) ==
    /\ call[c].step = "fetch"
    /\ behind' = IF upstream THEN behind + unfetched ELSE behind
    /\ Fetched
    /\ Goto(c, call[c].command,
            CASE call[c].command = "status" -> "status"
              [] call[c].command = "pull" -> "merge"
              [] call[c].command = "discard" -> "rev-parse")
    /\ UNCHANGED <<files, ahead, upstream, answer, session, note, touched>>

DirtyLinesTracked == {"changed"}

\* The lines that make repo_clean false: not those of unmerged files.
DirtyLines == {"changed", "untracked"}

\* Without an upstream branch there is no line branch.ab.
StatusNow ==
    [kind |-> "status",
     clean |-> files \cap DirtyLines = {},
     ahead |-> IF upstream THEN ahead ELSE 0,
     behind |-> IF upstream THEN behind ELSE 0]

Status(c) ==
    /\ At(c, "status", "status")
    /\ Answer(c, IF c = Api THEN StatusNow ELSE Result("none"))
    /\ touched' = touched \ {c}
    /\ UNCHANGED <<repo, newer, session, note>>

\* git rev-parse @{u}; it fails when there is no upstream branch.
RevParse(c) ==
    /\ At(c, "discard", "rev-parse")
    /\ upstream
    /\ newer' = [newer EXCEPT ![c] = 0]
    /\ Goto(c, "discard", "reset")
    /\ UNCHANGED <<repo, answer, session, note, touched>>

\* git reset --hard to that commit, on the branch that the user has switched
\* to meanwhile as well.
Reset(c) ==
    /\ At(c, "discard", "reset")
    /\ files' = files \cap {"untracked"}
    /\ ahead' = 0
    /\ behind' = IF upstream THEN newer[c] ELSE 0
    /\ newer' = [newer EXCEPT ![c] = 0]
    /\ Goto(c, "discard", "clean")
    /\ touched' = touched \cup {Api}
    /\ UNCHANGED <<unfetched, upstream, answer, session, note>>

CleanNothing(changes) == changes

\* git clean -fd.
Cleaned(changes) == changes \ {"untracked"}

Clean(c) ==
    /\ At(c, "discard", "clean")
    /\ files' = Cleaned(files)
    /\ Answer(c, Result(IF c \in touched THEN "none" ELSE "discarded"))
    /\ touched' = (touched \ {c}) \cup {Api}
    /\ UNCHANGED <<ahead, behind, unfetched, upstream, newer, session, note>>

\* git pull --ff-only fetches again, and fails unless it can fast-forward.
Pull(c) ==
    /\ At(c, "pull", "merge")
    /\ upstream
    /\ ahead = 0 \/ behind + unfetched = 0
    /\ "unmerged" \notin files
    /\ behind' = 0
    /\ Fetched
    /\ Answer(c, Result("none"))
    /\ touched' = (touched \ {c}) \cup {Api}
    /\ UNCHANGED <<files, ahead, upstream, session, note>>

-----------------------------------------------------------------------------
(***************************************************************************)
(* Hibernation (patch_server).                                             *)
(***************************************************************************)

\* patch_server asks the sidecar, if there is one.
AskStatus ==
    /\ session = "running"
    /\ session' = "hibernating"
    /\ Begin(Api, "status")
    /\ UNCHANGED <<repo, newer, note>>

Annotations(result) ==
    IF result.kind # "status"
        THEN [known |-> FALSE, dirty |-> FALSE, synchronized |-> FALSE]
        ELSE [known |-> TRUE,
              dirty |-> ~ result.clean,
              synchronized |-> result.ahead = 0 /\ result.behind = 0]

\* An unreachable sidecar leaves the annotations empty.  Amalthea takes the
\* pod away, with the calls that it serves.
Hibernate ==
    /\ session = "hibernating"
    /\ call[Api] = Idle
    /\ note' = Annotations(answer[Api])
    /\ session' = "hibernated"
    /\ call' = [c \in AllCalls |-> Idle]
    /\ newer' = [c \in AllCalls |-> 0]
    /\ UNCHANGED <<repo, answer, touched>>

\* Amalthea clears the annotations.
Resume ==
    /\ session = "hibernated"
    /\ session' = "running"
    /\ note' = Nothing
    /\ touched' = {Api}
    /\ answer' = [c \in AllCalls |-> Result("none")]
    /\ UNCHANGED <<repo, call, newer>>

Next ==
    \/ \E kind \in Kinds : Change(kind)
    \/ Commit \/ Push \/ Conflict \/ Resolve \/ NewBranch \/ OthersPush
    \/ \E c \in Calls : Request(c)
    \/ \E c \in AllCalls :
           \/ GitFails(c) \/ Fetch(c) \/ Status(c)
           \/ RevParse(c) \/ Reset(c) \/ Clean(c) \/ Pull(c)
    \/ AskStatus \/ Hibernate \/ Resume

Spec == Init /\ [][Next]_vars

-----------------------------------------------------------------------------
(***************************************************************************)
(* Properties.                                                             *)
(***************************************************************************)

\* The annotations of a hibernated session are right about the repository,
\* unless it was changed after the sidecar looked: a repository that is said
\* to be clean has no change, but for unmerged files; one that is said to be
\* synchronized has no commit that is only here, but for branches without an
\* upstream branch (status of the sidecar, patch_server).
AnnotationsTruthful ==
    session = "hibernated" /\ note.known /\ Api \notin touched =>
        /\ note.dirty = (files \cap {"changed", "untracked"} # {})
        /\ upstream /\ note.synchronized => ahead = 0
        /\ ~ note.synchronized => ahead # 0 \/ behind # 0

\* When changes were discarded, and the user has not worked since the call
\* began, no change and no commit is left that is not on the remote, whatever
\* other calls did meanwhile (discard_unsaved_changes).
DiscardLeavesNothing ==
    \A c \in Calls :
        answer[c].kind = "discarded" => files = {} /\ ahead = 0

=============================================================================
