----------------------------- MODULE GitCloner ------------------------------
(***************************************************************************)
(* The git-clone init container of a session,                              *)
(* git_services/git_services/init/cloner.py, with the exception hook of    *)
(* errors.py.                                                              *)
(*                                                                         *)
(* The container runs whenever the pod of the session starts: at launch,   *)
(* when a hibernated session is resumed, and again when it was killed or   *)
(* failed.  The workspace volume survives all of that; the file system of  *)
(* the container, with /tmp/git-credentials, does not.  What the remote    *)
(* and the disk have in store for a repository is fixed; on top of that a  *)
(* git command may fail sporadically and the container may be killed.      *)
(***************************************************************************)
EXTENDS Integers

CONSTANTS
    NumRepos,        \* repositories of the session, cloned in this order
    Faults           \* whether git fails sporadically and kills happen

ASSUME GitClonerAssumption == NumRepos \in Nat \ {0} /\ Faults \in BOOLEAN

Repos == 1 .. NumRepos

\* What happens to a repository that is cloned: it works, the fetch fails,
\* the branch or the commit does not exist, the disk is too small, or the
\* repository has files where a cloud storage will be mounted.
Remote == {"ok", "unreachable", "noBranch", "noCommit", "noSpace", "mount"}

\* The directory of a repository: .git, what was cloned into it, whether the
\* user has uncommitted work there, two entries of .git/config, ERROR.
Directory == [git : BOOLEAN, files : {"none", "fetched", "complete"},
              work : BOOLEAN, helper : BOOLEAN, proxy : BOOLEAN,
              error : BOOLEAN]

Empty == [git |-> FALSE, files |-> "none", work |-> FALSE, helper |-> FALSE,
          proxy |-> FALSE, error |-> FALSE]

Exceptions == {"GitFetchError", "BranchDoesNotExistError", "NoDiskSpaceError",
               "CloudStorageOverwritesExistingFilesError", "GitCommandError"}

\* The exit code of handle_exception; GitCommandError is not one of the
\* errors of the module and gives the generic code.
exit_code(e) == CASE e = "NoDiskSpaceError" -> 203
                  [] e = "CloudStorageOverwritesExistingFilesError" -> 206
                  [] OTHER -> 200

CloningPC == {"credentials", "fetch", "checkout", "leave", "reset"}

PC == CloningPC \cup {"exists", "initialize", "except", "mounts", "proxy",
                      "cleanup", "exited", "session", "hibernated"}

VARIABLES
    remote,      \* what cloning each repository meets; fixed
    token,       \* whether a token for the repository is obtained; fixed
    volume,      \* the directory of each repository
    credentials, \* whether /tmp/git-credentials exists
    pc,
    repo,        \* the repository that run is at
    raised,      \* the exception on its way up, or "none"
    code,        \* the exit code of the last run that failed, or 0
    disturbed    \* history: a kill or a sporadic failure has happened

fixed == <<remote, token>>

vars == <<fixed, volume, credentials, pc, repo, raised, code, disturbed>>

Goto(from, to) == pc = from /\ pc' = to

Set(d) == volume' = [volume EXCEPT ![repo] = d]

Here == volume[repo]

Init ==
    /\ remote \in [Repos -> Remote]
    /\ token \in [Repos -> BOOLEAN]
    /\ volume = [i \in Repos |-> Empty]
    /\ credentials = FALSE
    /\ pc = "exists"
    /\ repo = 1
    /\ raised = "none"
    /\ code = 0
    /\ disturbed = FALSE

-----------------------------------------------------------------------------
(***************************************************************************)
(* run_helper                                                              *)
(***************************************************************************)

ContinueOffByOne ==
    IF repo <= NumRepos THEN repo' = repo + 1 /\ pc' = "exists"
                        ELSE repo' = 1 /\ pc' = "session"

\* The next repository of run, or the end of the container.
Continue ==
    IF repo < NumRepos THEN repo' = repo + 1 /\ pc' = "exists"
                       ELSE repo' = 1 /\ pc' = "session"

NeverExists == FALSE

\* git rev-parse --is-inside-work-tree
GitExists == Here.git

ExistsWithoutProxy ==
    /\ pc = "exists"
    /\ IF GitExists THEN Continue ELSE pc' = "initialize" /\ UNCHANGED repo
    /\ UNCHANGED <<fixed, volume, credentials, raised, code, disturbed>>

\* Repository.exists: a repository that is there is not touched, whether the
\* session is resumed or the container restarted.
Exists ==
    /\ Goto("exists", IF GitExists THEN "proxy" ELSE "initialize")
    /\ UNCHANGED <<fixed, volume, credentials, repo, raised, code, disturbed>>

\* The token is requested, then git init and git config.
InitializeRepo ==
    /\ Goto("initialize", IF token[repo] THEN "credentials" ELSE "fetch")
    /\ Set([Here EXCEPT !.git = TRUE])
    /\ UNCHANGED <<fixed, credentials, repo, raised, code, disturbed>>

\* _temp_plaintext_credentials is entered.
WriteCredentials ==
    /\ Goto("credentials", "fetch")
    /\ credentials' = TRUE
    /\ Set([Here EXCEPT !.helper = TRUE])
    /\ UNCHANGED <<fixed, repo, raised, code, disturbed>>

\* An exception in _clone passes through the context manager, if entered.
Raise(e) ==
    /\ raised' = e
    /\ pc' = IF credentials THEN "leave" ELSE "except"

\* The remote is added and fetched.
Fetch ==
    /\ pc = "fetch"
    /\ IF remote[repo] = "unreachable"
           THEN Raise("GitFetchError") /\ UNCHANGED volume
           ELSE /\ pc' = "checkout"
                /\ Set([Here EXCEPT !.files = "fetched"])
                /\ UNCHANGED raised
    /\ UNCHANGED <<fixed, credentials, repo, code, disturbed>>

\* The branch is checked out, LFS files are pulled if the disk allows, and
\* submodules are tried.
Checkout ==
    /\ pc = "checkout"
    /\ CASE remote[repo] = "noBranch" ->
                Raise("BranchDoesNotExistError") /\ UNCHANGED volume
         [] remote[repo] = "noSpace" ->
                Raise("NoDiskSpaceError") /\ UNCHANGED volume
         [] OTHER ->
                /\ pc' = IF credentials THEN "leave" ELSE "reset"
                /\ Set([Here EXCEPT !.files = "complete", !.work = FALSE])
                /\ UNCHANGED raised
    /\ UNCHANGED <<fixed, credentials, repo, code, disturbed>>

UnsetHelperIfCloned(d) ==
    [d EXCEPT !.helper = raised # "none" /\ @]

UnsetHelper(d) == [d EXCEPT !.helper = FALSE]

\* The finally of _temp_plaintext_credentials; a git config --unset that
\* fails is logged.
LeaveCredentials ==
    /\ Goto("leave", IF raised = "none" THEN "reset" ELSE "except")
    /\ credentials' = FALSE
    /\ \/ Set(UnsetHelper(Here)) /\ UNCHANGED disturbed
       \/ Faults /\ UNCHANGED volume /\ disturbed' = TRUE
    /\ UNCHANGED <<fixed, repo, raised, code>>

\* git reset --hard, when a commit is asked for.
ResetCommit ==
    /\ pc = "reset"
    /\ IF remote[repo] = "noCommit"
           THEN raised' = "GitCommandError" /\ pc' = "except"
           ELSE UNCHANGED raised /\ pc' = "mounts"
    /\ UNCHANGED <<fixed, volume, credentials, repo, code, disturbed>>

\* A fetch error leaves an ERROR file, a missing branch a line in the log;
\* anything else is not caught.
Except ==
    /\ pc = "except"
    /\ CASE raised = "GitFetchError" ->
                Set([Here EXCEPT !.error = TRUE]) /\ Continue /\ raised' = "none"
         [] raised = "BranchDoesNotExistError" ->
                pc' = "mounts" /\ raised' = "none" /\ UNCHANGED <<volume, repo>>
         [] OTHER -> pc' = "cleanup" /\ UNCHANGED <<volume, repo, raised>>
    /\ UNCHANGED <<fixed, credentials, code, disturbed>>

\* Whether a path where a cloud storage will be mounted is taken, by whichever
\* repository.
MountExists == \E i \in Repos : remote[i] = "mount" /\ volume[i].files = "complete"

\* Cloud storage must not hide files of a repository: every mount path is
\* looked at after each clone.
CheckMounts ==
    /\ pc = "mounts"
    /\ IF MountExists
           THEN /\ raised' = "CloudStorageOverwritesExistingFilesError"
                /\ pc' = "cleanup"
           ELSE UNCHANGED raised /\ pc' = "proxy"
    /\ UNCHANGED <<fixed, volume, credentials, repo, code, disturbed>>

\* _setup_proxy, for new and for existing repositories.
SetupProxy ==
    /\ pc = "proxy"
    /\ Set([Here EXCEPT !.proxy = TRUE])
    /\ Continue
    /\ UNCHANGED <<fixed, credentials, raised, code, disturbed>>

\* What a git command that fails at some place is turned into.
Translated == [fetch |-> {"GitFetchError", "GitCommandError"},
               checkout |-> {"BranchDoesNotExistError", "NoDiskSpaceError",
                             "GitCommandError"}]

UncaughtPC == {"initialize", "proxy"}

\* A git command fails for another reason than the repository: a lock file,
\* the network, or a disk so full that git config cannot write.
GitFails ==
    /\ Faults
    /\ raised = "none"
    /\ pc \in UncaughtPC \cup {"credentials", "fetch", "checkout", "reset"}
    /\ raised' \in IF pc \in DOMAIN Translated THEN Translated[pc]
                                               ELSE {"GitCommandError"}
    /\ pc' = IF pc \in UncaughtPC THEN "cleanup"
             ELSE IF credentials THEN "leave" ELSE "except"
    /\ disturbed' = TRUE
    /\ UNCHANGED <<fixed, volume, credentials, repo, code>>

-----------------------------------------------------------------------------
(***************************************************************************)
(* handle_exception, the container and the session.                        *)
(***************************************************************************)

RemoveNothing == volume

\* shutil.rmtree(config.mount_path)
RemoveMountPath == [i \in Repos |-> Empty]

HandleException ==
    /\ Goto("cleanup", "exited")
    /\ volume' = RemoveMountPath
    /\ code' = exit_code(raised)
    /\ raised' = "none"
    /\ repo' = 1
    /\ UNCHANGED <<fixed, credentials, disturbed>>

\* The kubelet starts a failed init container again.
Restart ==
    /\ Goto("exited", "exists")
    /\ credentials' = FALSE
    /\ UNCHANGED <<fixed, volume, repo, raised, code, disturbed>>

\* The container is killed: out of memory, or its node is drained.
Kill ==
    /\ Faults
    /\ pc \notin {"exited", "session", "hibernated"}
    /\ pc' = "exists"
    /\ repo' = 1
    /\ raised' = "none"
    /\ credentials' = FALSE
    /\ disturbed' = TRUE
    /\ UNCHANGED <<fixed, volume, code>>

\* The user changes files of a repository, or removes it.
Work(i) ==
    /\ pc = "session"
    /\ volume[i].git
    /\ volume' = [volume EXCEPT ![i] = [@ EXCEPT !.work = TRUE]]
    /\ UNCHANGED <<fixed, credentials, pc, repo, raised, code, disturbed>>

RemoveRepo(i) ==
    /\ pc = "session"
    /\ volume[i].git
    /\ volume' = [volume EXCEPT ![i] = Empty]
    /\ UNCHANGED <<fixed, credentials, pc, repo, raised, code, disturbed>>

\* The session is hibernated, which removes its pod, and resumed.
Hibernate ==
    /\ Goto("session", "hibernated")
    /\ credentials' = FALSE
    /\ UNCHANGED <<fixed, volume, repo, raised, code, disturbed>>

Resume ==
    /\ Goto("hibernated", "exists")
    /\ UNCHANGED <<fixed, volume, credentials, repo, raised, code, disturbed>>

RunHelper ==
    \/ Exists \/ InitializeRepo \/ WriteCredentials \/ Fetch \/ Checkout
    \/ LeaveCredentials \/ ResetCommit \/ Except \/ CheckMounts \/ SetupProxy

Container == RunHelper \/ GitFails \/ HandleException \/ Restart \/ Kill

Next ==
    \/ Container
    \/ \E i \in Repos : Work(i) \/ RemoveRepo(i)
    \/ Hibernate
    \/ Resume

Spec == Init /\ [][Next]_vars

-----------------------------------------------------------------------------
(***************************************************************************)
(* Properties                                                              *)
(***************************************************************************)

\* The type of every variable; an exception is on its way up exactly where
\* the code handles one.
TypeOK ==
    /\ remote \in [Repos -> Remote]
    /\ token \in [Repos -> BOOLEAN]
    /\ volume \in [Repos -> Directory]
    /\ credentials \in BOOLEAN
    /\ pc \in PC
    /\ repo \in Repos
    /\ raised \in Exceptions \cup {"none"}
    /\ pc \in {"except", "cleanup"} => raised # "none"
    /\ raised # "none" => pc \in {"except", "cleanup", "leave"}
    /\ code \in {0, 200, 203, 206}
    /\ disturbed \in BOOLEAN

\* "Temp credentials MUST be cleaned up on context manager exit": the token
\* file exists only while a repository is being cloned, however that ends,
\* and a session starts with no repository whose git config still points to
\* it, unless git failed or the container was killed.
CredentialsCleanedUp ==
    /\ credentials => pc \in CloningPC
    /\ pc = "session" /\ ~ disturbed => \A i \in Repos : ~ volume[i].helper

\* "so that a restart of the container produces the same error": a run that
\* fails fails again in the same way.
SameErrorAfterRestart ==
    [][pc = "cleanup" /\ code # 0 /\ ~ disturbed /\ pc' = "exited" =>
           code' = code]_vars

\* ... and a container that failed never lets the session start on what it
\* left behind.
NoStartAfterError ==
    code # 0 /\ ~ disturbed => pc # "session"

\* Every repository of a running session is one the user can work with, or
\* says why not: it is complete, has an ERROR file or its branch is missing.
ClonedOrExplained ==
    pc = "session" /\ ~ disturbed =>
        \A i \in Repos : volume[i].git =>
            \/ volume[i].files = "complete"
            \/ volume[i].error
            \/ remote[i] = "noBranch"

\* Every repository of a running session goes through the git proxy, also
\* one that was found and not cloned, except where fetching failed.
ProxyConfigured ==
    pc = "session" => \A i \in Repos :
        volume[i].git => volume[i].proxy \/ volume[i].error

\* Cloning never discards uncommitted work: only the removal of the whole
\* mount path after an exception does.
CloningKeepsWork ==
    [][RunHelper =>
           \A i \in Repos : volume[i].work => volume'[i].work]_vars

\* "removing the repo here will result in lost work if there is uncommitted
\* work" (cloner.py:250): what run_helper avoids, handle_exception does.
WorkKept ==
    [][Container => \A i \in Repos : volume[i].work => volume'[i].work]_vars

=============================================================================
