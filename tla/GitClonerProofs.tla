-------------------------- MODULE GitClonerProofs --------------------------
(***************************************************************************)
(* Proofs about GitCloner, for any number of repositories, with and        *)
(* without faults.                                                         *)
(***************************************************************************)
EXTENDS GitCloner, TLAPS

-----------------------------------------------------------------------------
(***************************************************************************)
(* Type correctness.                                                       *)
(***************************************************************************)

\* There is a first repository.
LEMMA FirstRepo == 1 \in Repos
BY GitClonerAssumption DEF Repos

\* The volume is empty at first and after an exception.
LEMMA EmptyType == Empty \in Directory
BY DEF Empty, Directory

\* The container starts on an empty volume.
LEMMA InitType == Init => TypeOK
<1>1. 1 \in Repos /\ Empty \in Directory
  BY FirstRepo, EmptyType
<1> QED BY <1>1 DEF Init, TypeOK, PC

\* A directory stays one when an entry of it changes.
LEMMA SetType ==
    ASSUME TypeOK, NEW d \in Directory, Set(d)
    PROVE  volume' \in [Repos -> Directory]
BY DEF Set, TypeOK

\* The directory of the repository that run is at.
LEMMA HereType == ASSUME TypeOK PROVE Here \in Directory
BY DEF TypeOK, Here

\* run goes on to the next repository, or ends.
LEMMA ContinueType ==
    ASSUME TypeOK, Continue
    PROVE  repo' \in Repos /\ pc' \in {"exists", "session"}
BY GitClonerAssumption DEF Continue, TypeOK, Repos

\* The user works in a directory.
LEMMA WorkType ==
    ASSUME NEW d \in Directory
    PROVE  [d EXCEPT !.work = TRUE] \in Directory
BY DEF Directory

\* Every step keeps the types, and exceptions to the places that handle them.
LEMMA StepType == ASSUME TypeOK, [Next]_vars PROVE TypeOK'
<1> USE DEF Goto, fixed, PC, CloningPC, Exceptions
<1>0. Here \in Directory
  BY HereType
<1>1. ASSUME Exists \/ Restart \/ Hibernate \/ Resume PROVE TypeOK'
  <2>1. /\ UNCHANGED <<remote, token, volume, repo, raised, code, disturbed>>
        /\ credentials' \in {credentials, FALSE}
        /\ pc \in {"exists", "exited", "session", "hibernated"}
        /\ pc' \in {"proxy", "initialize", "exists", "hibernated"}
    BY <1>1 DEF Exists, Restart, Hibernate, Resume
  <2> QED BY <2>1 DEF TypeOK
<1>2. ASSUME InitializeRepo PROVE TypeOK'
  <2>1. [Here EXCEPT !.git = TRUE] \in Directory
    BY <1>0 DEF Directory
  <2>2. volume' \in [Repos -> Directory]
    BY <1>2, <2>1, SetType DEF InitializeRepo
  <2> QED BY <1>2, <2>2 DEF InitializeRepo, TypeOK
<1>3. ASSUME WriteCredentials PROVE TypeOK'
  <2>1. [Here EXCEPT !.helper = TRUE] \in Directory
    BY <1>0 DEF Directory
  <2>2. volume' \in [Repos -> Directory]
    BY <1>3, <2>1, SetType DEF WriteCredentials
  <2> QED BY <1>3, <2>2 DEF WriteCredentials, TypeOK
<1>4. ASSUME Fetch PROVE TypeOK'
  <2>1. [Here EXCEPT !.files = "fetched"] \in Directory
    BY <1>0 DEF Directory
  <2>2. volume' \in [Repos -> Directory]
    BY <1>4, <2>1, SetType DEF Fetch, TypeOK
  <2> QED BY <1>4, <2>2 DEF Fetch, Raise, TypeOK
<1>5. ASSUME Checkout PROVE TypeOK'
  <2>1. [Here EXCEPT !.files = "complete", !.work = FALSE] \in Directory
    BY <1>0 DEF Directory
  <2>2. volume' \in [Repos -> Directory]
    BY <1>5, <2>1, SetType DEF Checkout, TypeOK
  <2> QED BY <1>5, <2>2 DEF Checkout, Raise, TypeOK
<1>6. ASSUME LeaveCredentials PROVE TypeOK'
  <2>1. UnsetHelper(Here) \in Directory
    BY <1>0 DEF Directory, UnsetHelper
  <2>2. volume' \in [Repos -> Directory]
    BY <1>6, <2>1, SetType DEF LeaveCredentials, TypeOK
  <2> QED BY <1>6, <2>2 DEF LeaveCredentials, TypeOK
<1>7. ASSUME ResetCommit PROVE TypeOK'
  BY <1>7 DEF ResetCommit, TypeOK
<1>8. ASSUME Except PROVE TypeOK'
  <2>1. [Here EXCEPT !.error = TRUE] \in Directory
    BY <1>0 DEF Directory
  <2>2. volume' \in [Repos -> Directory]
    BY <1>8, <2>1, SetType DEF Except, TypeOK
  <2> QED BY <1>8, <2>2, ContinueType DEF Except, TypeOK
<1>9. ASSUME CheckMounts PROVE TypeOK'
  BY <1>9 DEF CheckMounts, TypeOK
<1>10. ASSUME SetupProxy PROVE TypeOK'
  <2>1. [Here EXCEPT !.proxy = TRUE] \in Directory
    BY <1>0 DEF Directory
  <2>2. volume' \in [Repos -> Directory]
    BY <1>10, <2>1, SetType DEF SetupProxy, TypeOK
  <2> QED BY <1>10, <2>2, ContinueType DEF SetupProxy, TypeOK
<1>11. ASSUME GitFails PROVE TypeOK'
  BY <1>11 DEF GitFails, Translated, UncaughtPC, TypeOK
<1>12. ASSUME HandleException PROVE TypeOK'
  <2>1. volume' \in [Repos -> Directory]
    BY <1>12, EmptyType DEF HandleException, RemoveMountPath
  <2>2. code' \in {0, 200, 203, 206}
    BY <1>12 DEF HandleException, exit_code
  <2> QED BY <1>12, <2>1, <2>2, FirstRepo DEF HandleException, TypeOK
<1>13. ASSUME Kill PROVE TypeOK'
  BY <1>13, FirstRepo DEF Kill, TypeOK
<1>14. ASSUME NEW i \in Repos, Work(i) PROVE TypeOK'
  <2> DEFINE d == [volume[i] EXCEPT !.work = TRUE]
  <2>1. d \in Directory
    <3>1. volume[i] \in Directory
      BY DEF TypeOK
    <3> QED BY <3>1, WorkType
  <2>2. volume' = [volume EXCEPT ![i] = d]
    BY <1>14 DEF Work
  <2> HIDE DEF d
  <2>3. volume' \in [Repos -> Directory]
    BY <2>1, <2>2 DEF TypeOK
  <2> QED BY <1>14, <2>3 DEF Work, TypeOK
<1>15. ASSUME NEW i \in Repos, RemoveRepo(i) PROVE TypeOK'
  <2>1. volume' \in [Repos -> Directory]
    BY <1>15, EmptyType DEF RemoveRepo, TypeOK
  <2> QED BY <1>15, <2>1 DEF RemoveRepo, TypeOK
<1>16. ASSUME UNCHANGED vars PROVE TypeOK'
  BY <1>16 DEF vars, TypeOK
<1> QED BY <1>1, <1>2, <1>3, <1>4, <1>5, <1>6, <1>7, <1>8, <1>9, <1>10, <1>11, <1>12,
           <1>13, <1>14, <1>15, <1>16 DEF Next, Container, RunHelper

\* Every variable has its type in every reachable state.
THEOREM TypeCorrect == Spec => []TypeOK
BY InitType, StepType, PTL DEF Spec

-----------------------------------------------------------------------------
(***************************************************************************)
(* What every action does to the directories.                              *)
(***************************************************************************)

\* Only the directory of the current repository changes while run_helper is
\* at work.
LEMMA SetOthers ==
    ASSUME TypeOK, NEW d \in Directory, Set(d)
    PROVE  volume'[repo] = d /\ \A i \in Repos : i # repo => volume'[i] = volume[i]
BY DEF Set, TypeOK

\* The next repository is one further on, or the session starts.
LEMMA ContinueMoves ==
    ASSUME TypeOK, Continue
    PROVE  \/ pc' = "exists" /\ repo' = repo + 1
           \/ pc' = "session" /\ repo' = 1 /\ \A i \in Repos : i <= repo
BY GitClonerAssumption DEF Continue, TypeOK, Repos

-----------------------------------------------------------------------------
(***************************************************************************)
(* The plain-text credentials.                                             *)
(***************************************************************************)

\* The file is there between entering and leaving the context manager, and
\* without faults only the repository being cloned points to it.
Plaintext ==
    /\ credentials => pc \in {"fetch", "checkout", "leave"}
    /\ ~ disturbed => \A i \in Repos : volume[i].helper => i = repo /\ credentials

\* Every step keeps it.
LEMMA StepPlaintext ==
    ASSUME TypeOK, Plaintext, [Next]_vars PROVE Plaintext'
<1> USE DEF Plaintext, Goto
<1>0. Here \in Directory
  BY HereType
<1>1. ASSUME Exists \/ Restart \/ Hibernate \/ Resume PROVE Plaintext'
  BY <1>1 DEF Exists, Restart, Hibernate, Resume, Continue
<1>2. ASSUME InitializeRepo PROVE Plaintext'
  <2>1. [Here EXCEPT !.git = TRUE] \in Directory
    BY <1>0 DEF Directory
  <2> QED BY <1>2, <1>0, <2>1, SetOthers DEF InitializeRepo, Here, Directory
<1>3. ASSUME WriteCredentials PROVE Plaintext'
  <2>1. [Here EXCEPT !.helper = TRUE] \in Directory
    BY <1>0 DEF Directory
  <2> QED BY <1>3, <2>1, SetOthers DEF WriteCredentials
<1>4. ASSUME Fetch PROVE Plaintext'
  <2>1. [Here EXCEPT !.files = "fetched"] \in Directory
    BY <1>0 DEF Directory
  <2> QED BY <1>4, <1>0, <2>1, SetOthers DEF Fetch, Raise, Here, Directory
<1>5. ASSUME Checkout PROVE Plaintext'
  <2>1. [Here EXCEPT !.files = "complete", !.work = FALSE] \in Directory
    BY <1>0 DEF Directory
  <2> QED BY <1>5, <1>0, <2>1, SetOthers DEF Checkout, Raise, Here, Directory
<1>6. ASSUME LeaveCredentials PROVE Plaintext'
  <2>1. UnsetHelper(Here) \in Directory /\ ~ UnsetHelper(Here).helper
    BY <1>0 DEF Directory, UnsetHelper
  <2> QED BY <1>6, <2>1, SetOthers DEF LeaveCredentials
<1>7. ASSUME ResetCommit \/ CheckMounts PROVE Plaintext'
  BY <1>7 DEF ResetCommit, CheckMounts
<1>8. ASSUME Except PROVE Plaintext'
  <2>1. [Here EXCEPT !.error = TRUE] \in Directory
    BY <1>0 DEF Directory
  <2> QED BY <1>8, <1>0, <2>1, SetOthers DEF Except, Here, Directory
<1>9. ASSUME SetupProxy PROVE Plaintext'
  <2>1. [Here EXCEPT !.proxy = TRUE] \in Directory
    BY <1>0 DEF Directory
  <2> QED BY <1>9, <1>0, <2>1, SetOthers DEF SetupProxy, Here, Directory
<1>10. ASSUME GitFails \/ Kill PROVE Plaintext'
  BY <1>10 DEF GitFails, Kill, UncaughtPC
<1>11. ASSUME HandleException PROVE Plaintext'
  BY <1>11 DEF HandleException, RemoveMountPath, Empty
<1>12. ASSUME NEW i \in Repos, Work(i) PROVE Plaintext'
  BY <1>12 DEF Work, TypeOK, Directory
<1>13. ASSUME NEW i \in Repos, RemoveRepo(i) PROVE Plaintext'
  BY <1>13 DEF RemoveRepo, TypeOK, Empty
<1>14. ASSUME UNCHANGED vars PROVE Plaintext'
  BY <1>14 DEF vars, fixed
<1> QED BY <1>1, <1>2, <1>3, <1>4, <1>5, <1>6, <1>7, <1>8, <1>9, <1>10, <1>11, <1>12,
           <1>13, <1>14 DEF Next, Container, RunHelper

\* "Temp credentials MUST be cleaned up on context manager exit".
THEOREM CleanedUp == Spec => []CredentialsCleanedUp
<1>1. Init => Plaintext
  BY DEF Init, Plaintext, Empty
<1>2. TypeOK /\ TypeOK' /\ Plaintext /\ [Next]_vars => Plaintext'
  BY StepPlaintext
<1>3. Plaintext => CredentialsCleanedUp
  BY DEF Plaintext, CredentialsCleanedUp, CloningPC
<1> QED BY <1>1, <1>2, <1>3, TypeCorrect, PTL DEF Spec

-----------------------------------------------------------------------------
(***************************************************************************)
(* The git proxy.                                                          *)
(***************************************************************************)

\* The directory of a repository that run_helper is done with.
Done(d) == d.git => d.proxy \/ d.error

\* The repositories before the current one are done; in a session all are.
ProxyDone ==
    /\ \A i \in Repos : i < repo => Done(volume[i])
    /\ pc \in {"session", "hibernated"} => \A i \in Repos : Done(volume[i])

\* Every step keeps it.
LEMMA StepProxyDone ==
    ASSUME TypeOK, ProxyDone, [Next]_vars PROVE ProxyDone'
<1> USE DEF ProxyDone, Goto
<1>0. Here \in Directory /\ repo \in Repos /\ Repos \subseteq Int
  BY HereType DEF TypeOK, Repos
<1>1. ASSUME Exists \/ Restart \/ Hibernate \/ Resume PROVE ProxyDone'
  BY <1>1 DEF Exists, Restart, Hibernate, Resume
<1>2. ASSUME NEW d \in Directory, Set(d), pc' \notin {"session", "hibernated"}, repo' = repo
      PROVE  ProxyDone'
  BY <1>0, <1>2, SetOthers
<1>3. ASSUME NEW d \in Directory, Set(d), Done(d), Continue PROVE ProxyDone'
  <2>1. \A i \in Repos : i <= repo => Done(volume'[i])
    BY <1>0, <1>3, SetOthers
  <2> QED BY <1>0, <1>3, <2>1, ContinueMoves
<1>4. ASSUME InitializeRepo PROVE ProxyDone'
  <2>1. [Here EXCEPT !.git = TRUE] \in Directory
    BY <1>0 DEF Directory
  <2> QED BY <1>4, <1>2, <2>1 DEF InitializeRepo
<1>5. ASSUME WriteCredentials PROVE ProxyDone'
  <2>1. [Here EXCEPT !.helper = TRUE] \in Directory
    BY <1>0 DEF Directory
  <2> QED BY <1>5, <1>2, <2>1 DEF WriteCredentials
<1>6. ASSUME Fetch PROVE ProxyDone'
  <2>1. [Here EXCEPT !.files = "fetched"] \in Directory
    BY <1>0 DEF Directory
  <2> QED BY <1>6, <1>2, <2>1 DEF Fetch, Raise
<1>7. ASSUME Checkout PROVE ProxyDone'
  <2>1. [Here EXCEPT !.files = "complete", !.work = FALSE] \in Directory
    BY <1>0 DEF Directory
  <2> QED BY <1>7, <1>2, <2>1 DEF Checkout, Raise
<1>8. ASSUME LeaveCredentials PROVE ProxyDone'
  <2>1. UnsetHelper(Here) \in Directory
    BY <1>0 DEF Directory, UnsetHelper
  <2> QED BY <1>8, <1>2, <2>1 DEF LeaveCredentials
<1>9. ASSUME ResetCommit \/ CheckMounts \/ GitFails PROVE ProxyDone'
  BY <1>9 DEF ResetCommit, CheckMounts, GitFails
<1>10. ASSUME Except PROVE ProxyDone'
  <2> DEFINE d == [Here EXCEPT !.error = TRUE]
  <2>1. d \in Directory /\ Done(d)
    BY <1>0 DEF Directory, Done
  <2> HIDE DEF d
  <2>2. CASE raised = "GitFetchError"
    <3>1. Set(d) /\ Continue
      BY <1>10, <2>2 DEF Except, d
    <3> QED BY <1>3, <2>1, <3>1
  <2>3. CASE raised # "GitFetchError"
    BY <1>10, <2>3 DEF Except
  <2> QED BY <2>2, <2>3
<1>11. ASSUME SetupProxy PROVE ProxyDone'
  <2> DEFINE d == [Here EXCEPT !.proxy = TRUE]
  <2>1. d \in Directory /\ Done(d)
    BY <1>0 DEF Directory, Done
  <2>2. Set(d) /\ Continue
    BY <1>11 DEF SetupProxy
  <2> HIDE DEF d
  <2> QED BY <1>3, <2>1, <2>2
<1>12. ASSUME HandleException PROVE ProxyDone'
  BY <1>12 DEF HandleException, RemoveMountPath, Empty, Done
<1>13. ASSUME Kill PROVE ProxyDone'
  BY <1>13 DEF Kill, Repos
<1>14. ASSUME NEW i \in Repos, Work(i) PROVE ProxyDone'
  <2>1. \A j \in Repos : Done(volume[j]) => Done(volume'[j])
    BY <1>14 DEF Work, TypeOK, Directory, Done
  <2> QED BY <1>14, <2>1 DEF Work
<1>15. ASSUME NEW i \in Repos, RemoveRepo(i) PROVE ProxyDone'
  <2>1. \A j \in Repos : Done(volume[j]) => Done(volume'[j])
    BY <1>15 DEF RemoveRepo, TypeOK, Empty, Done
  <2> QED BY <1>15, <2>1 DEF RemoveRepo
<1>16. ASSUME UNCHANGED vars PROVE ProxyDone'
  BY <1>16 DEF vars, fixed
<1> QED BY <1>1, <1>4, <1>5, <1>6, <1>7, <1>8, <1>9, <1>10, <1>11, <1>12,
           <1>13, <1>14, <1>15, <1>16 DEF Next, Container, RunHelper

\* Every repository of a running session goes through the git proxy, except
\* where fetching failed.
THEOREM Configured == Spec => []ProxyConfigured
<1>1. Init => ProxyDone
  BY DEF Init, ProxyDone, Empty, Done
<1>2. TypeOK /\ TypeOK' /\ ProxyDone /\ [Next]_vars => ProxyDone'
  BY StepProxyDone
<1>3. ProxyDone => ProxyConfigured
  BY DEF ProxyDone, ProxyConfigured, Done
<1> QED BY <1>1, <1>2, <1>3, TypeCorrect, PTL DEF Spec

-----------------------------------------------------------------------------
(***************************************************************************)
(* Uncommitted work.                                                       *)
(***************************************************************************)

\* Work is in repositories only, and the one that is cloned was none when
\* run_helper came to it.
WorkApart ==
    /\ \A i \in Repos : volume[i].work => volume[i].git
    /\ pc \in {"initialize", "credentials", "fetch", "checkout"} =>
           ~ volume[repo].work

\* run_helper leaves work and the repositories it is in as they are.
LEMMA HelperKeepsWork ==
    ASSUME TypeOK, WorkApart, RunHelper, NEW i \in Repos
    PROVE  volume'[i].work = volume[i].work /\ (volume[i].git => volume'[i].git)
<1> DEFINE Kept == volume'[i].work = volume[i].work /\ (volume[i].git => volume'[i].git)
<1>0. Here \in Directory /\ Here = volume[repo] /\ repo \in Repos
  BY HereType DEF TypeOK, Here
<1>1. ASSUME NEW d \in Directory, Set(d), d.work = Here.work, Here.git => d.git
      PROVE  Kept
  BY <1>0, <1>1, SetOthers
<1>2. CASE InitializeRepo
  <2> DEFINE d == [Here EXCEPT !.git = TRUE]
  <2>1. d \in Directory /\ d.work = Here.work /\ d.git
    BY <1>0 DEF Directory
  <2>2. Set(d)
    BY <1>2 DEF InitializeRepo
  <2> QED BY <1>1, <2>1, <2>2
<1>3. CASE WriteCredentials
  <2> DEFINE d == [Here EXCEPT !.helper = TRUE]
  <2>1. d \in Directory /\ d.work = Here.work /\ d.git = Here.git
    BY <1>0 DEF Directory
  <2>2. Set(d)
    BY <1>3 DEF WriteCredentials
  <2> QED BY <1>1, <2>1, <2>2
<1>4. CASE Fetch
  <2> DEFINE d == [Here EXCEPT !.files = "fetched"]
  <2>1. d \in Directory /\ d.work = Here.work /\ d.git = Here.git
    BY <1>0 DEF Directory
  <2>2. Set(d) \/ UNCHANGED volume
    BY <1>4 DEF Fetch
  <2> QED BY <1>1, <2>1, <2>2
<1>5. CASE Checkout
  <2> DEFINE d == [Here EXCEPT !.files = "complete", !.work = FALSE]
  <2>1. ~ Here.work /\ Here.work \in BOOLEAN
    BY <1>0, <1>5 DEF Checkout, WorkApart, Directory
  <2>2. d \in Directory /\ d.work = Here.work /\ d.git = Here.git
    BY <1>0, <2>1 DEF Directory
  <2>3. Set(d) \/ UNCHANGED volume
    BY <1>5 DEF Checkout
  <2> QED BY <1>1, <2>2, <2>3
<1>6. CASE LeaveCredentials
  <2>1. /\ UnsetHelper(Here) \in Directory /\ UnsetHelper(Here).work = Here.work
        /\ UnsetHelper(Here).git = Here.git
    BY <1>0 DEF Directory, UnsetHelper
  <2>2. Set(UnsetHelper(Here)) \/ UNCHANGED volume
    BY <1>6 DEF LeaveCredentials
  <2> QED BY <1>1, <2>1, <2>2
<1>7. CASE Except
  <2> DEFINE d == [Here EXCEPT !.error = TRUE]
  <2>1. d \in Directory /\ d.work = Here.work /\ d.git = Here.git
    BY <1>0 DEF Directory
  <2>2. Set(d) \/ UNCHANGED volume
    BY <1>7 DEF Except
  <2> QED BY <1>1, <2>1, <2>2
<1>8. CASE SetupProxy
  <2> DEFINE d == [Here EXCEPT !.proxy = TRUE]
  <2>1. d \in Directory /\ d.work = Here.work /\ d.git = Here.git
    BY <1>0 DEF Directory
  <2>2. Set(d)
    BY <1>8 DEF SetupProxy
  <2> QED BY <1>1, <2>1, <2>2
<1>9. CASE Exists \/ ResetCommit \/ CheckMounts
  BY <1>9 DEF Exists, ResetCommit, CheckMounts
<1> QED BY <1>2, <1>3, <1>4, <1>5, <1>6, <1>7, <1>8, <1>9 DEF RunHelper

\* Every step keeps work apart from what is cloned.
LEMMA StepWorkApart ==
    ASSUME TypeOK, TypeOK', WorkApart, [Next]_vars PROVE WorkApart'
<1> DEFINE Cloned == {"initialize", "credentials", "fetch", "checkout"}
<1>1. ASSUME RunHelper PROVE WorkApart'
  <2>1. \A i \in Repos : volume'[i].work => volume'[i].git
    BY <1>1, HelperKeepsWork DEF WorkApart
  <2>2. ASSUME pc' \in Cloned PROVE repo' = repo /\ ~ volume[repo].work
    <3>1. CASE Exists
      BY <3>1, <2>2 DEF Exists, Goto, GitExists, Here, WorkApart, TypeOK
    <3>2. CASE InitializeRepo \/ WriteCredentials \/ Fetch
      BY <3>2 DEF InitializeRepo, WriteCredentials, Fetch, Goto, WorkApart
    <3>3. CASE Checkout \/ LeaveCredentials \/ ResetCommit \/ CheckMounts
      BY <3>3, <2>2 DEF Checkout, LeaveCredentials, ResetCommit, CheckMounts, Goto, Raise
    <3>4. CASE Except \/ SetupProxy
      BY <3>4, <2>2, ContinueMoves DEF Except, SetupProxy
    <3> QED BY <1>1, <3>1, <3>2, <3>3, <3>4 DEF RunHelper
  <2>3. pc' \in Cloned => ~ volume'[repo'].work
    BY <1>1, <2>2, HelperKeepsWork DEF TypeOK
  <2> QED BY <2>1, <2>3 DEF WorkApart
<1>2. ASSUME GitFails PROVE WorkApart'
  BY <1>2 DEF GitFails, UncaughtPC, WorkApart
<1>3. ASSUME HandleException PROVE WorkApart'
  BY <1>3 DEF HandleException, Goto, RemoveMountPath, Empty, WorkApart
<1>4. ASSUME Restart \/ Kill \/ Hibernate \/ Resume PROVE WorkApart'
  BY <1>4 DEF Restart, Kill, Hibernate, Resume, Goto, WorkApart
<1>5. ASSUME NEW i \in Repos, Work(i) PROVE WorkApart'
  BY <1>5 DEF Work, TypeOK, Directory, WorkApart
<1>6. ASSUME NEW i \in Repos, RemoveRepo(i) PROVE WorkApart'
  BY <1>6 DEF RemoveRepo, TypeOK, Empty, WorkApart
<1>7. ASSUME UNCHANGED vars PROVE WorkApart'
  BY <1>7 DEF vars, fixed, WorkApart
<1> QED BY <1>1, <1>2, <1>3, <1>4, <1>5, <1>6, <1>7 DEF Next, Container

\* Cloning never discards uncommitted work.
THEOREM WorkSafe == Spec => CloningKeepsWork
<1>1. Init => WorkApart
  BY FirstRepo DEF Init, WorkApart, Empty
<1>2. TypeOK /\ TypeOK' /\ WorkApart /\ [Next]_vars => WorkApart'
  BY StepWorkApart
<1>3. TypeOK /\ WorkApart =>
          [RunHelper => \A i \in Repos : volume[i].work => volume'[i].work]_vars
  BY HelperKeepsWork
<1> QED BY <1>1, <1>2, <1>3, TypeCorrect, PTL DEF Spec, CloningKeepsWork

-----------------------------------------------------------------------------
(***************************************************************************)
(* What a session finds.                                                   *)
(***************************************************************************)

\* A repository that can be worked with, or says why not.
Explained(i) ==
    volume[i].git =>
        volume[i].files = "complete" \/ volume[i].error \/ remote[i] = "noBranch"

\* Without faults the only repository that is not is the one being cloned or
\* whose exception is on its way up, and a missing branch is one of the remote.
CloneInv ==
    ~ disturbed =>
        /\ \A i \in Repos : \/ Explained(i)
                            \/ /\ i = repo
                               /\ pc \in {"credentials", "fetch", "checkout"} \/ raised # "none"
        /\ raised = "BranchDoesNotExistError" => remote[repo] = "noBranch"

\* Every step keeps it.
LEMMA StepClone ==
    ASSUME TypeOK, CloneInv, [Next]_vars PROVE CloneInv'
<1> USE DEF CloneInv, Goto
<1>0. Here \in Directory /\ Here = volume[repo] /\ repo \in Repos
  BY HereType DEF TypeOK, Here
<1>1. ASSUME Exists \/ Restart \/ Hibernate \/ Resume PROVE CloneInv'
  BY <1>1 DEF Exists, Restart, Hibernate, Resume, Explained, fixed, TypeOK
<1>2. ASSUME NEW d \in Directory, Set(d), UNCHANGED <<fixed, disturbed>>, repo' = repo,
             pc' \in {"credentials", "fetch", "checkout"}, raised' # "BranchDoesNotExistError"
      PROVE  CloneInv'
  BY <1>0, <1>2, SetOthers DEF Explained, fixed, TypeOK
<1>3. CASE InitializeRepo
  <2>1. [Here EXCEPT !.git = TRUE] \in Directory
    BY <1>0 DEF Directory
  <2>2. raised = "none"
    BY <1>3 DEF InitializeRepo, TypeOK
  <2> QED BY <1>2, <1>3, <2>1, <2>2 DEF InitializeRepo, fixed
<1>4. CASE WriteCredentials
  <2>1. [Here EXCEPT !.helper = TRUE] \in Directory
    BY <1>0 DEF Directory
  <2>2. raised = "none"
    BY <1>4 DEF WriteCredentials, TypeOK
  <2> QED BY <1>2, <1>4, <2>1, <2>2 DEF WriteCredentials, fixed
<1>5. CASE Fetch
  <2>1. [Here EXCEPT !.files = "fetched"] \in Directory
    BY <1>0 DEF Directory
  <2>2. raised = "none"
    BY <1>5 DEF Fetch, TypeOK
  <2>3. CASE remote[repo] = "unreachable"
    BY <1>5, <2>3 DEF Fetch, Raise, Explained, fixed
  <2>4. CASE remote[repo] # "unreachable"
    BY <1>2, <1>5, <2>1, <2>2, <2>4 DEF Fetch, fixed
  <2> QED BY <2>3, <2>4
<1>6. CASE Checkout
  <2> DEFINE d == [Here EXCEPT !.files = "complete", !.work = FALSE]
  <2>1. d \in Directory /\ d.files = "complete"
    BY <1>0 DEF Directory
  <2>2. raised = "none"
    BY <1>6 DEF Checkout, TypeOK
  <2>3. CASE remote[repo] \in {"noBranch", "noSpace"}
    BY <1>6, <2>3 DEF Checkout, Raise, Explained, fixed
  <2>4. CASE remote[repo] \notin {"noBranch", "noSpace"}
    <3>1. Set(d) /\ UNCHANGED <<remote, disturbed, repo, raised>>
      BY <1>6, <2>4 DEF Checkout, fixed
    <3>2. volume'[repo].files = "complete"
      BY <2>1, <3>1, SetOthers
    <3>3. \A i \in Repos : i # repo => volume'[i] = volume[i]
      BY <2>1, <3>1, SetOthers
    <3> QED BY <2>2, <3>1, <3>2, <3>3 DEF Explained
  <2> QED BY <2>3, <2>4
<1>7. CASE LeaveCredentials
  <2> DEFINE d == UnsetHelper(Here)
  <2>1. d \in Directory /\ d.git = Here.git /\ d.files = Here.files /\ d.error = Here.error
    BY <1>0 DEF Directory, UnsetHelper
  <2>2. pc = "leave" /\ UNCHANGED <<remote, repo, raised>>
    BY <1>7 DEF LeaveCredentials, fixed
  <2>3. CASE Set(d) /\ UNCHANGED disturbed
    BY <1>0, <2>1, <2>2, <2>3, SetOthers DEF Explained
  <2>4. CASE disturbed'
    BY <2>4
  <2> QED BY <1>7, <2>3, <2>4 DEF LeaveCredentials
<1>8. CASE ResetCommit
  BY <1>8 DEF ResetCommit, Explained, fixed, TypeOK
<1>9. CASE Except
  <2> DEFINE d == [Here EXCEPT !.error = TRUE]
  <2>1. d \in Directory /\ d.error
    BY <1>0 DEF Directory
  <2>2. CASE raised = "GitFetchError"
    <3>1. Set(d) /\ raised' = "none" /\ UNCHANGED <<remote, disturbed>>
      BY <1>9, <2>2 DEF Except, fixed
    <3>2. volume'[repo].error
      BY <2>1, <3>1, SetOthers
    <3>3. \A i \in Repos : i # repo => volume'[i] = volume[i]
      BY <2>1, <3>1, SetOthers
    <3> QED BY <3>1, <3>2, <3>3 DEF Explained
  <2>3. CASE raised # "GitFetchError"
    BY <1>9, <2>3 DEF Except, Explained, fixed, TypeOK
  <2> QED BY <2>2, <2>3
<1>10. CASE CheckMounts
  BY <1>10 DEF CheckMounts, Explained, fixed, TypeOK
<1>11. CASE SetupProxy
  <2> DEFINE d == [Here EXCEPT !.proxy = TRUE]
  <2>1. d \in Directory /\ d.git = Here.git /\ d.files = Here.files /\ d.error = Here.error
    BY <1>0 DEF Directory
  <2>2. Set(d) /\ raised = "none" /\ pc = "proxy" /\ UNCHANGED <<remote, disturbed, raised>>
    BY <1>11 DEF SetupProxy, fixed, TypeOK
  <2>3. \A i \in Repos : /\ volume'[i].git = volume[i].git
                         /\ volume'[i].files = volume[i].files
                         /\ volume'[i].error = volume[i].error
    BY <1>0, <2>1, <2>2, SetOthers
  <2> QED BY <2>2, <2>3 DEF Explained
<1>12. CASE GitFails \/ Kill
  BY <1>12 DEF GitFails, Kill
<1>13. CASE HandleException
  BY <1>13 DEF HandleException, RemoveMountPath, Empty, Explained
<1>14. ASSUME NEW j \in Repos, Work(j) \/ RemoveRepo(j) PROVE CloneInv'
  <2>1. pc = "session" /\ raised = "none" /\ UNCHANGED <<remote, pc, repo, raised, disturbed>>
    BY <1>14 DEF Work, RemoveRepo, fixed, TypeOK
  <2>2. \A i \in Repos : \/ ~ volume'[i].git
                         \/ /\ volume'[i].git = volume[i].git
                            /\ volume'[i].files = volume[i].files
                            /\ volume'[i].error = volume[i].error
    <3>1. CASE Work(j)
      <4> DEFINE d == [volume[j] EXCEPT !.work = TRUE]
      <4>1. volume[j] \in Directory
        BY DEF TypeOK
      <4>2. d.git = volume[j].git /\ d.files = volume[j].files /\ d.error = volume[j].error
        BY <4>1 DEF Directory
      <4>3. volume'[j] = d /\ \A i \in Repos : i # j => volume'[i] = volume[i]
        BY <3>1 DEF Work, TypeOK
      <4> QED BY <4>2, <4>3
    <3>2. CASE RemoveRepo(j)
      <4>1. volume'[j] = Empty /\ \A i \in Repos : i # j => volume'[i] = volume[i]
        BY <3>2 DEF RemoveRepo, TypeOK
      <4>2. ~ volume'[j].git
        BY <4>1 DEF Empty
      <4> QED BY <4>1, <4>2
    <3> QED BY <1>14, <3>1, <3>2
  <2> QED BY <2>1, <2>2 DEF Explained
<1>15. CASE UNCHANGED vars
  BY <1>15 DEF vars, fixed, Explained
<1> QED BY <1>1, <1>3, <1>4, <1>5, <1>6, <1>7, <1>8, <1>9, <1>10, <1>11, <1>12,
           <1>13, <1>14, <1>15 DEF Next, Container, RunHelper

\* Every repository of a running session is one the user can work with, or says
\* why not.
THEOREM ClonedOrSaysWhy == Spec => []ClonedOrExplained
<1>1. Init => CloneInv
  BY DEF Init, CloneInv, Empty, Explained
<1>2. TypeOK /\ TypeOK' /\ CloneInv /\ [Next]_vars => CloneInv'
  BY StepClone
<1>3. TypeOK /\ CloneInv => ClonedOrExplained
  BY DEF CloneInv, ClonedOrExplained, Explained, TypeOK
<1> QED BY <1>1, <1>2, <1>3, TypeCorrect, PTL DEF Spec

-----------------------------------------------------------------------------
(***************************************************************************)
(* Errors repeat.  Without faults the repositories before the current one  *)
(* are none that a run fails at, so a run fails at the first of these, and *)
(* the exit code is the one of that repository.                            *)
(***************************************************************************)

\* The repositories a run fails at, and with which exception.
Fatal(i) == remote[i] \in {"noCommit", "noSpace", "mount"}

ErrorOf(k) == CASE k = "noCommit" -> "GitCommandError"
                [] k = "noSpace" -> "NoDiskSpaceError"
                [] k = "mount" -> "CloudStorageOverwritesExistingFilesError"

FirstFatal(f) == f \in Repos /\ Fatal(f) /\ \A i \in Repos : i < f => ~ Fatal(i)

\* What is cloned into a directory is in a repository.
FilesInGit ==
    /\ \A i \in Repos : volume[i].files = "complete" => volume[i].git
    /\ pc \in {"credentials", "fetch", "checkout"} => volume[repo].git

\* The repository that a run may fail at is the current one, and only while it
\* is being cloned.
FatalHere ==
    /\ \A i \in Repos : i < repo => ~ Fatal(i)
    /\ \A i \in Repos : volume[i].git /\ Fatal(i) =>
           i = repo /\ pc \in CloningPC \cup {"except", "mounts", "cleanup"}
    /\ pc = "proxy" => ~ Fatal(repo)
    /\ pc \in {"session", "hibernated"} => \A i \in Repos : ~ Fatal(i)

\* The exception on its way up is the one of the current repository.
RaisedHere ==
    /\ raised = "GitFetchError" => remote[repo] = "unreachable"
    /\ raised = "BranchDoesNotExistError" => remote[repo] = "noBranch"
    /\ raised \notin {"none", "GitFetchError", "BranchDoesNotExistError"} =>
           Fatal(repo) /\ raised = ErrorOf(remote[repo])
    /\ pc = "cleanup" => raised \notin {"GitFetchError", "BranchDoesNotExistError"}
    /\ Fatal(repo) /\ raised = "none" /\ pc \in {"leave", "reset", "mounts"} =>
           /\ remote[repo] # "noSpace"
           /\ volume[repo].files = "complete"
           /\ pc = "mounts" => remote[repo] = "mount"

\* The code of the last failure is that of the first such repository.
CodeOfFirst == code # 0 => \E f \in Repos : FirstFatal(f) /\ code = exit_code(ErrorOf(remote[f]))

Repeats == FilesInGit /\ (~ disturbed => FatalHere /\ RaisedHere /\ CodeOfFirst)

\* Two first ones are one.
LEMMA FirstUnique ==
    ASSUME NEW f, NEW g, FirstFatal(f), FirstFatal(g) PROVE f = g
<1>1. f \in Int /\ g \in Int /\ f \in Repos /\ g \in Repos
  BY DEF FirstFatal, Repos
<1> QED BY <1>1 DEF FirstFatal

\* Every step keeps what is cloned in repositories.
LEMMA StepFiles ==
    ASSUME TypeOK, FilesInGit, [Next]_vars PROVE FilesInGit'
<1> USE DEF FilesInGit, Goto
<1>0. Here \in Directory /\ Here = volume[repo] /\ repo \in Repos
  BY HereType DEF TypeOK, Here
<1>1. ASSUME NEW d \in Directory, Set(d), d.git = TRUE,
             pc' \in {"credentials", "fetch", "checkout"} => repo' = repo
      PROVE  FilesInGit'
  BY <1>0, <1>1, SetOthers
<1>2. ASSUME NEW d \in Directory, Set(d), d.git = Here.git, d.files = Here.files,
             pc' \notin {"credentials", "fetch", "checkout"}
      PROVE  FilesInGit'
  BY <1>0, <1>2, SetOthers
<1>3. CASE InitializeRepo
  <2> DEFINE d == [Here EXCEPT !.git = TRUE]
  <2>1. d \in Directory /\ d.git = TRUE
    BY <1>0 DEF Directory
  <2>2. Set(d) /\ repo' = repo
    BY <1>3 DEF InitializeRepo
  <2> HIDE DEF d
  <2> QED BY <1>1, <2>1, <2>2
<1>4. CASE WriteCredentials
  <2> DEFINE d == [Here EXCEPT !.helper = TRUE]
  <2>1. d \in Directory /\ d.git = Here.git
    BY <1>0 DEF Directory
  <2>2. Set(d) /\ repo' = repo /\ Here.git /\ Here.git \in BOOLEAN
    BY <1>0, <1>4 DEF WriteCredentials, Directory
  <2> HIDE DEF d
  <2> QED BY <1>1, <2>1, <2>2
<1>5. CASE Fetch
  <2> DEFINE d == [Here EXCEPT !.files = "fetched"]
  <2>1. d \in Directory /\ d.git = Here.git
    BY <1>0 DEF Directory
  <2>2. Here.git /\ Here.git \in BOOLEAN
    BY <1>0, <1>5 DEF Fetch, Directory
  <2>3. CASE Set(d) /\ repo' = repo
    BY <1>1, <2>1, <2>2, <2>3
  <2>4. CASE UNCHANGED <<volume, repo>>
    BY <1>5, <2>4 DEF Fetch, Raise
  <2> QED BY <1>5, <2>3, <2>4 DEF Fetch
<1>6. CASE Checkout
  <2> DEFINE d == [Here EXCEPT !.files = "complete", !.work = FALSE]
  <2>1. d \in Directory /\ d.git = Here.git
    BY <1>0 DEF Directory
  <2>2. Here.git /\ Here.git \in BOOLEAN
    BY <1>0, <1>6 DEF Checkout, Directory
  <2>3. CASE Set(d) /\ repo' = repo
    BY <1>1, <2>1, <2>2, <2>3
  <2>4. CASE UNCHANGED <<volume, repo>>
    BY <1>6, <2>4 DEF Checkout, Raise
  <2> QED BY <1>6, <2>3, <2>4 DEF Checkout
<1>7. CASE LeaveCredentials
  <2> DEFINE d == UnsetHelper(Here)
  <2>1. d \in Directory /\ d.git = Here.git /\ d.files = Here.files
    BY <1>0 DEF Directory, UnsetHelper
  <2>2. pc' \in {"reset", "except"} /\ (Set(d) \/ UNCHANGED volume)
    BY <1>7 DEF LeaveCredentials
  <2> HIDE DEF d
  <2> QED BY <1>2, <2>1, <2>2
<1>8. CASE Except
  <2> DEFINE d == [Here EXCEPT !.error = TRUE]
  <2>1. d \in Directory /\ d.git = Here.git /\ d.files = Here.files
    BY <1>0 DEF Directory
  <2>2. pc' \notin {"credentials", "fetch", "checkout"}
    BY <1>8, ContinueMoves DEF Except
  <2>3. Set(d) \/ UNCHANGED volume
    BY <1>8 DEF Except
  <2> HIDE DEF d
  <2> QED BY <1>2, <2>1, <2>2, <2>3
<1>9. CASE SetupProxy
  <2> DEFINE d == [Here EXCEPT !.proxy = TRUE]
  <2>1. d \in Directory /\ d.git = Here.git /\ d.files = Here.files
    BY <1>0 DEF Directory
  <2>2. pc' \notin {"credentials", "fetch", "checkout"} /\ Set(d)
    BY <1>9, ContinueMoves DEF SetupProxy
  <2> HIDE DEF d
  <2> QED BY <1>2, <2>1, <2>2
<1>10. CASE Exists \/ ResetCommit \/ CheckMounts \/ GitFails \/ Restart \/ Kill \/ Hibernate
            \/ Resume
  BY <1>10 DEF Exists, ResetCommit, CheckMounts, GitFails, UncaughtPC, Restart, Kill,
               Hibernate, Resume
<1>11. CASE HandleException
  BY <1>11 DEF HandleException, RemoveMountPath, Empty
<1>12. ASSUME NEW j \in Repos, Work(j) PROVE FilesInGit'
  <2> DEFINE d == [volume[j] EXCEPT !.work = TRUE]
  <2>1. d.git = volume[j].git /\ d.files = volume[j].files
    BY DEF TypeOK, Directory
  <2>2. /\ volume'[j] = d /\ \A i \in Repos : i # j => volume'[i] = volume[i]
        /\ pc' = "session"
    BY <1>12 DEF Work, TypeOK
  <2> HIDE DEF d
  <2> QED BY <2>1, <2>2
<1>13. ASSUME NEW j \in Repos, RemoveRepo(j) PROVE FilesInGit'
  <2>1. /\ volume'[j] = Empty /\ \A i \in Repos : i # j => volume'[i] = volume[i]
        /\ pc' = "session"
    BY <1>13 DEF RemoveRepo, TypeOK
  <2> QED BY <2>1 DEF Empty
<1>14. CASE UNCHANGED vars
  BY <1>14 DEF vars
<1> QED BY <1>3, <1>4, <1>5, <1>6, <1>7, <1>8, <1>9, <1>10, <1>11, <1>12, <1>13, <1>14
        DEF Next, Container, RunHelper

\* What the remote has is fixed, and a fault is remembered.
LEMMA StepFixed == ASSUME [Next]_vars PROVE remote' = remote /\ (disturbed => disturbed')
<1>1. CASE RunHelper
  <2>1. CASE Exists \/ InitializeRepo \/ WriteCredentials \/ Fetch \/ Checkout
    BY <2>1 DEF Exists, InitializeRepo, WriteCredentials, Fetch, Checkout, fixed
  <2>2. CASE LeaveCredentials \/ ResetCommit \/ Except \/ CheckMounts \/ SetupProxy
    BY <2>2 DEF LeaveCredentials, ResetCommit, Except, CheckMounts, SetupProxy, fixed
  <2> QED BY <1>1, <2>1, <2>2 DEF RunHelper
<1>2. CASE GitFails \/ HandleException \/ Restart \/ Kill \/ Hibernate \/ Resume
  BY <1>2 DEF GitFails, HandleException, Restart, Kill, Hibernate, Resume, fixed
<1>3. ASSUME NEW i \in Repos, Work(i) \/ RemoveRepo(i)
      PROVE  remote' = remote /\ (disturbed => disturbed')
  BY <1>3 DEF Work, RemoveRepo, fixed
<1>4. CASE UNCHANGED vars
  BY <1>4 DEF vars, fixed
<1> QED BY <1>1, <1>2, <1>3, <1>4 DEF Next, Container

\* Cloning touches one directory, and what it changes there besides its files.
LEMMA CloningVolume ==
    ASSUME TypeOK, FilesInGit, RunHelper
    PROVE  /\ \A i \in Repos : i # repo => volume'[i] = volume[i]
           /\ ~ InitializeRepo => volume'[repo].git = volume[repo].git
           /\ ~ (Fetch \/ Checkout) => volume'[repo].files = volume[repo].files
           /\ Checkout => \/ volume'[repo].files = "complete" /\ UNCHANGED raised
                          \/ UNCHANGED volume
<1>0. Here \in Directory /\ Here = volume[repo] /\ repo \in Repos
  BY HereType DEF TypeOK, Here
<1> DEFINE P == /\ \A i \in Repos : i # repo => volume'[i] = volume[i]
                /\ ~ InitializeRepo => volume'[repo].git = volume[repo].git
                /\ ~ (Fetch \/ Checkout) => volume'[repo].files = volume[repo].files
                /\ Checkout => \/ volume'[repo].files = "complete" /\ UNCHANGED raised
                               \/ UNCHANGED volume
<1>1. ASSUME NEW d \in Directory, Set(d), ~ Checkout,
             ~ InitializeRepo => d.git = Here.git,
             ~ Fetch => d.files = Here.files
      PROVE  P
  BY <1>0, <1>1, SetOthers
<1>2. ASSUME UNCHANGED volume PROVE P
  BY <1>2
<1>3. CASE InitializeRepo
  <2> DEFINE d == [Here EXCEPT !.git = TRUE]
  <2>1. d \in Directory /\ d.files = Here.files
    BY <1>0 DEF Directory
  <2>2. Set(d) /\ ~ Checkout
    BY <1>3 DEF InitializeRepo, Checkout, Goto
  <2> HIDE DEF d
  <2> QED BY <1>1, <1>3, <2>1, <2>2
<1>4. CASE WriteCredentials
  <2> DEFINE d == [Here EXCEPT !.helper = TRUE]
  <2>1. d \in Directory /\ d.files = Here.files /\ d.git = Here.git
    BY <1>0 DEF Directory
  <2>2. Set(d) /\ ~ Checkout
    BY <1>4 DEF WriteCredentials, Checkout, Goto
  <2> HIDE DEF d
  <2> QED BY <1>1, <2>1, <2>2
<1>5. CASE Fetch
  <2> DEFINE d == [Here EXCEPT !.files = "fetched"]
  <2>1. d \in Directory /\ d.git = Here.git
    BY <1>0 DEF Directory
  <2>2. (Set(d) \/ UNCHANGED volume) /\ ~ Checkout
    BY <1>5 DEF Fetch, Checkout
  <2> HIDE DEF d
  <2> QED BY <1>1, <1>2, <1>5, <2>1, <2>2
<1>6. CASE Checkout
  <2> DEFINE d == [Here EXCEPT !.files = "complete", !.work = FALSE]
  <2>1. d \in Directory /\ d.git = Here.git /\ d.files = "complete"
    BY <1>0 DEF Directory
  <2>2. (Set(d) /\ UNCHANGED raised) \/ UNCHANGED volume
    BY <1>6 DEF Checkout
  <2>3. CASE Set(d) /\ UNCHANGED raised
    <3> HIDE DEF d
    <3> QED BY <1>0, <1>6, <2>1, <2>3, SetOthers
  <2> QED BY <1>2, <2>2, <2>3
<1>7. CASE LeaveCredentials
  <2> DEFINE d == UnsetHelper(Here)
  <2>1. d \in Directory /\ d.files = Here.files /\ d.git = Here.git
    BY <1>0 DEF Directory, UnsetHelper
  <2>2. (Set(d) \/ UNCHANGED volume) /\ ~ Checkout
    BY <1>7 DEF LeaveCredentials, Checkout, Goto
  <2> HIDE DEF d
  <2> QED BY <1>1, <1>2, <2>1, <2>2
<1>8. CASE Except
  <2> DEFINE d == [Here EXCEPT !.error = TRUE]
  <2>1. d \in Directory /\ d.files = Here.files /\ d.git = Here.git
    BY <1>0 DEF Directory
  <2>2. (Set(d) \/ UNCHANGED volume) /\ ~ Checkout
    BY <1>8 DEF Except, Checkout
  <2> HIDE DEF d
  <2> QED BY <1>1, <1>2, <2>1, <2>2
<1>9. CASE SetupProxy
  <2> DEFINE d == [Here EXCEPT !.proxy = TRUE]
  <2>1. d \in Directory /\ d.files = Here.files /\ d.git = Here.git
    BY <1>0 DEF Directory
  <2>2. Set(d) /\ ~ Checkout
    BY <1>9 DEF SetupProxy, Checkout
  <2> HIDE DEF d
  <2> QED BY <1>1, <2>1, <2>2
<1>10. CASE Exists \/ ResetCommit \/ CheckMounts
  BY <1>2, <1>10 DEF Exists, ResetCommit, CheckMounts
<1> QED BY <1>3, <1>4, <1>5, <1>6, <1>7, <1>8, <1>9, <1>10 DEF RunHelper

\* Only the exception hook sets the exit code.
LEMMA CodeStays == ASSUME [Next]_vars, ~ HandleException PROVE code' = code
<1>1. CASE Exists \/ InitializeRepo \/ WriteCredentials \/ Fetch \/ Checkout
  BY <1>1 DEF Exists, InitializeRepo, WriteCredentials, Fetch, Checkout
<1>2. CASE LeaveCredentials \/ ResetCommit \/ Except \/ CheckMounts \/ SetupProxy
  BY <1>2 DEF LeaveCredentials, ResetCommit, Except, CheckMounts, SetupProxy
<1>3. CASE GitFails \/ Restart \/ Kill \/ Hibernate \/ Resume
  BY <1>3 DEF GitFails, Restart, Kill, Hibernate, Resume
<1>4. ASSUME NEW i \in Repos, Work(i) \/ RemoveRepo(i) PROVE code' = code
  BY <1>4 DEF Work, RemoveRepo
<1>5. CASE UNCHANGED vars
  BY <1>5 DEF vars
<1> QED BY <1>1, <1>2, <1>3, <1>4, <1>5 DEF Next, Container, RunHelper

\* Without faults run_helper keeps where a run may fail and with what.
LEMMA HelperRepeats ==
    ASSUME TypeOK, TypeOK', Repeats, RunHelper, ~ disturbed'
    PROVE  FatalHere' /\ RaisedHere' /\ CodeOfFirst'
<1> USE DEF Goto
<1>0. /\ remote' = remote /\ ~ disturbed /\ repo \in Repos /\ Repos \subseteq Int
      /\ FilesInGit /\ FatalHere /\ RaisedHere /\ CodeOfFirst
  <2>1. RunHelper => Next
    BY DEF Next, Container
  <2> QED BY <2>1, StepFixed DEF Repeats, TypeOK, Repos
<1>1. /\ \A i \in Repos : i # repo => volume'[i] = volume[i]
      /\ ~ InitializeRepo => volume'[repo].git = volume[repo].git
      /\ ~ (Fetch \/ Checkout) => volume'[repo].files = volume[repo].files
      /\ Checkout => \/ volume'[repo].files = "complete" /\ UNCHANGED raised
                     \/ UNCHANGED volume
  BY <1>0, CloningVolume
<1>2. code' = code
  <2>1. CASE HandleException
    BY <2>1, <1>0 DEF HandleException, RunHelper, Exists, InitializeRepo, WriteCredentials,
                      Fetch, Checkout, LeaveCredentials, ResetCommit, Except, CheckMounts,
                      SetupProxy
  <2> QED BY <2>1, CodeStays DEF Next, Container
<1>3. CodeOfFirst'
  BY <1>0, <1>2 DEF CodeOfFirst, FirstFatal, Fatal
<1>4. ASSUME repo' = repo, pc' \in CloningPC \cup {"except", "mounts", "cleanup"},
             pc \in CloningPC \cup {"except", "mounts", "initialize"}
      PROVE  FatalHere'
  <2>1. \A i \in Repos : i # repo => volume'[i].git = volume[i].git
    BY <1>1
  <2> QED BY <1>0, <1>4, <2>1 DEF FatalHere, Fatal, CloningPC
<1>5. ASSUME ~ Fatal(repo), Continue, \A i \in Repos : volume'[i].git = volume[i].git
      PROVE  FatalHere'
  <2>1. \A i \in Repos : i <= repo => ~ Fatal(i)
    BY <1>0, <1>5 DEF FatalHere
  <2>2. \A i \in Repos : ~ (volume[i].git /\ Fatal(i))
    BY <1>0, <1>5 DEF FatalHere
  <2> QED BY <1>0, <1>5, <2>1, <2>2, ContinueMoves DEF FatalHere, Fatal
<1>6. \A i \in Repos : ~ InitializeRepo => volume'[i].git = volume[i].git
  BY <1>1
<1>7. CASE Exists
  <2>1. UNCHANGED <<repo, raised, volume>> /\ raised = "none" /\ pc = "exists"
        /\ pc' \in {"proxy", "initialize"} /\ (pc' = "proxy" => volume[repo].git)
    BY <1>7 DEF Exists, GitExists, Here, TypeOK
  <2>2. FatalHere'
    BY <1>0, <2>1 DEF FatalHere, Fatal, CloningPC
  <2>3. RaisedHere'
    BY <2>1 DEF RaisedHere
  <2> QED BY <1>3, <2>2, <2>3
<1>8. CASE InitializeRepo \/ WriteCredentials
  <2>1. UNCHANGED <<repo, raised>> /\ raised = "none" /\ pc \in {"initialize", "credentials"}
        /\ pc' \in {"credentials", "fetch"}
    BY <1>8 DEF InitializeRepo, WriteCredentials, TypeOK
  <2>2. FatalHere'
    BY <1>4, <2>1 DEF CloningPC
  <2>3. RaisedHere'
    BY <2>1 DEF RaisedHere
  <2> QED BY <1>3, <2>2, <2>3
<1>9. CASE Fetch
  <2>1. UNCHANGED repo /\ raised = "none" /\ pc = "fetch"
        /\ \/ pc' = "checkout" /\ raised' = "none"
           \/ /\ pc' \in {"leave", "except"} /\ raised' = "GitFetchError"
              /\ remote[repo] = "unreachable"
    BY <1>9 DEF Fetch, Raise, TypeOK
  <2>2. FatalHere'
    BY <1>4, <2>1 DEF CloningPC
  <2>3. RaisedHere'
    BY <1>0, <2>1 DEF RaisedHere
  <2> QED BY <1>3, <2>2, <2>3
<1>10. CASE Checkout
  <2>1. UNCHANGED repo /\ raised = "none" /\ pc = "checkout" /\ pc' \in {"leave", "reset", "except"}
        /\ \/ raised' = "BranchDoesNotExistError" /\ remote[repo] = "noBranch"
           \/ raised' = "NoDiskSpaceError" /\ remote[repo] = "noSpace"
           \/ /\ raised' = "none" /\ remote[repo] # "noSpace" /\ pc' # "except"
    BY <1>10 DEF Checkout, Raise, TypeOK
  <2>2. FatalHere'
    BY <1>4, <2>1 DEF CloningPC
  <2>3. raised' = "none" => volume'[repo].files = "complete"
    <3>1. SUFFICES ASSUME raised' = "none" PROVE volume'[repo].files = "complete"
      OBVIOUS
    <3>2. remote[repo] \notin {"noBranch", "noSpace"}
      BY <1>10, <3>1 DEF Checkout, Raise
    <3>3. Set([Here EXCEPT !.files = "complete", !.work = FALSE])
      BY <1>10, <3>2 DEF Checkout
    <3>4. Here \in Directory
      BY HereType
    <3> QED BY <1>0, <3>3, <3>4 DEF Set, TypeOK, Directory
  <2>4. RaisedHere'
    BY <1>0, <2>1, <2>3 DEF RaisedHere, Fatal, ErrorOf
  <2> QED BY <1>3, <2>2, <2>4
<1>11. CASE LeaveCredentials
  <2>1. UNCHANGED <<repo, raised>> /\ pc = "leave"
        /\ pc' = (IF raised = "none" THEN "reset" ELSE "except")
    BY <1>11 DEF LeaveCredentials
  <2>2. FatalHere'
    BY <1>4, <2>1 DEF CloningPC
  <2>3. volume'[repo].files = volume[repo].files
    BY <1>1, <2>1 DEF Fetch, Checkout
  <2>4. RaisedHere'
    BY <1>0, <2>1, <2>3 DEF RaisedHere, Fatal
  <2> QED BY <1>3, <2>2, <2>4
<1>12. CASE ResetCommit
  <2>1. UNCHANGED <<repo, volume>> /\ pc = "reset" /\ raised = "none"
        /\ IF remote[repo] = "noCommit" THEN raised' = "GitCommandError" /\ pc' = "except"
                                        ELSE raised' = "none" /\ pc' = "mounts"
    BY <1>12 DEF ResetCommit, TypeOK
  <2>2. FatalHere'
    BY <1>4, <2>1 DEF CloningPC
  <2>3. RaisedHere'
    BY <1>0, <2>1 DEF RaisedHere, Fatal, ErrorOf
  <2> QED BY <1>3, <2>2, <2>3
<1>13. CASE Except
  <2>0. pc = "except" /\ raised # "none"
    BY <1>13 DEF Except, TypeOK
  <2>1. CASE raised = "GitFetchError"
    <3>1. Continue /\ raised' = "none"
      BY <1>13, <2>1 DEF Except
    <3>2. ~ Fatal(repo)
      BY <1>0, <2>1 DEF RaisedHere, Fatal
    <3>3. FatalHere'
      BY <1>5, <1>6, <2>0, <3>1, <3>2 DEF InitializeRepo
    <3>4. RaisedHere'
      BY <3>1, ContinueMoves DEF RaisedHere
    <3> QED BY <1>3, <3>3, <3>4
  <2>2. CASE raised = "BranchDoesNotExistError"
    <3>1. pc' = "mounts" /\ raised' = "none" /\ UNCHANGED repo
      BY <1>13, <2>2 DEF Except
    <3>2. ~ Fatal(repo)
      BY <1>0, <2>2 DEF RaisedHere, Fatal
    <3>3. FatalHere'
      BY <1>4, <2>0, <3>1
    <3>4. RaisedHere'
      BY <1>0, <3>1, <3>2 DEF RaisedHere, Fatal
    <3> QED BY <1>3, <3>3, <3>4
  <2>3. CASE raised \notin {"GitFetchError", "BranchDoesNotExistError"}
    <3>1. pc' = "cleanup" /\ UNCHANGED <<raised, repo>>
      BY <1>13, <2>3 DEF Except
    <3>2. FatalHere'
      BY <1>4, <2>0, <3>1
    <3>3. RaisedHere'
      BY <1>0, <2>0, <2>3, <3>1 DEF RaisedHere, Fatal
    <3> QED BY <1>3, <3>2, <3>3
  <2> QED BY <2>1, <2>2, <2>3
<1>14. CASE CheckMounts
  <2>0. pc = "mounts" /\ raised = "none" /\ UNCHANGED <<repo, volume>>
    BY <1>14 DEF CheckMounts, TypeOK
  <2>1. CASE MountExists
    <3>1. pc' = "cleanup" /\ raised' = "CloudStorageOverwritesExistingFilesError"
      BY <1>14, <2>1 DEF CheckMounts
    <3>2. remote[repo] = "mount"
      BY <1>0, <2>1 DEF MountExists, FilesInGit, FatalHere, Fatal
    <3>3. FatalHere'
      BY <1>4, <2>0, <3>1
    <3>4. RaisedHere'
      BY <1>0, <2>0, <3>1, <3>2 DEF RaisedHere, Fatal, ErrorOf
    <3> QED BY <1>3, <3>3, <3>4
  <2>2. CASE ~ MountExists
    <3>1. pc' = "proxy" /\ raised' = "none"
      BY <1>14, <2>0, <2>2 DEF CheckMounts
    <3>2. ~ Fatal(repo)
      BY <1>0, <2>0, <2>2 DEF MountExists, RaisedHere
    <3>3. FatalHere'
      BY <1>0, <2>0, <3>1, <3>2 DEF FatalHere, Fatal
    <3>4. RaisedHere'
      BY <3>1 DEF RaisedHere
    <3> QED BY <1>3, <3>3, <3>4
  <2> QED BY <2>1, <2>2
<1>15. CASE SetupProxy
  <2>1. pc = "proxy" /\ raised' = "none" /\ Continue /\ ~ Fatal(repo)
    BY <1>0, <1>15 DEF SetupProxy, TypeOK, FatalHere
  <2>2. FatalHere'
    BY <1>5, <1>6, <2>1 DEF InitializeRepo
  <2>3. RaisedHere'
    BY <2>1, ContinueMoves DEF RaisedHere
  <2> QED BY <1>3, <2>2, <2>3
<1> QED BY <1>7, <1>8, <1>9, <1>10, <1>11, <1>12, <1>13, <1>14, <1>15 DEF RunHelper

\* Every step keeps where a run may fail.
LEMMA StepRepeats == ASSUME TypeOK, TypeOK', Repeats, [Next]_vars PROVE Repeats'
<1> USE DEF Goto
<1>1. FilesInGit' /\ remote' = remote /\ (disturbed => disturbed')
  BY StepFiles, StepFixed DEF Repeats
<1> SUFFICES ASSUME ~ disturbed' PROVE FatalHere' /\ RaisedHere' /\ CodeOfFirst'
  BY <1>1 DEF Repeats
<1>2. FatalHere /\ RaisedHere /\ CodeOfFirst /\ FilesInGit
  BY <1>1 DEF Repeats
<1>3. CASE RunHelper
  BY <1>3, HelperRepeats
<1>4. CASE GitFails \/ Kill
  BY <1>4 DEF GitFails, Kill
<1>5. CASE HandleException
  <2>1. /\ pc = "cleanup" /\ raised # "none" /\ pc' = "exited" /\ raised' = "none" /\ repo' = 1
        /\ code' = exit_code(raised) /\ \A i \in Repos : volume'[i].git = FALSE
    BY <1>5 DEF HandleException, RemoveMountPath, Empty, TypeOK
  <2>2. Fatal(repo) /\ raised = ErrorOf(remote[repo])
    BY <1>2, <2>1 DEF RaisedHere
  <2>3. FirstFatal(repo)
    BY <1>2, <2>2 DEF FatalHere, FirstFatal, TypeOK
  <2>4. CodeOfFirst'
    BY <1>1, <2>1, <2>2, <2>3 DEF CodeOfFirst, FirstFatal, Fatal
  <2>5. FatalHere'
    BY <2>1 DEF FatalHere, Repos
  <2>6. RaisedHere'
    BY <2>1 DEF RaisedHere
  <2> QED BY <2>4, <2>5, <2>6
<1>6. CASE Restart \/ Hibernate \/ Resume
  <2>1. /\ UNCHANGED <<volume, repo, raised, code>> /\ raised = "none"
        /\ pc \in {"exited", "session", "hibernated"} /\ pc' \in {"exists", "hibernated"}
        /\ pc' = "hibernated" => pc = "session"
    BY <1>6 DEF Restart, Hibernate, Resume, TypeOK
  <2>2. FatalHere'
    BY <1>1, <1>2, <2>1 DEF FatalHere, Fatal, CloningPC
  <2>3. RaisedHere' /\ CodeOfFirst'
    BY <1>1, <1>2, <2>1 DEF RaisedHere, CodeOfFirst, FirstFatal, Fatal
  <2> QED BY <2>2, <2>3
<1>7. ASSUME NEW j \in Repos, Work(j) \/ RemoveRepo(j)
      PROVE  FatalHere' /\ RaisedHere' /\ CodeOfFirst'
  <2>1. /\ UNCHANGED <<repo, raised, code, pc>> /\ raised = "none" /\ pc = "session"
    BY <1>7 DEF Work, RemoveRepo, TypeOK
  <2>2. FatalHere'
    BY <1>1, <1>2, <2>1 DEF FatalHere, Fatal
  <2>3. RaisedHere' /\ CodeOfFirst'
    BY <1>1, <1>2, <2>1 DEF RaisedHere, CodeOfFirst, FirstFatal, Fatal
  <2> QED BY <2>2, <2>3
<1>8. CASE UNCHANGED vars
  BY <1>1, <1>2, <1>8
     DEF vars, fixed, FatalHere, RaisedHere, CodeOfFirst, FirstFatal, Fatal
<1> QED BY <1>3, <1>4, <1>5, <1>6, <1>7, <1>8 DEF Next, Container

\* Where a run may fail, in every reachable state.
LEMMA RepeatsInvariance == Spec => []Repeats
<1>1. Init => Repeats
  BY DEF Init, Repeats, FilesInGit, FatalHere, RaisedHere, CodeOfFirst, Empty, Repos
<1>2. TypeOK /\ TypeOK' /\ Repeats /\ [Next]_vars => Repeats'
  BY StepRepeats
<1> QED BY <1>1, <1>2, TypeCorrect, PTL DEF Spec

\* A container that failed never lets the session start on what it left behind.
THEOREM NoStart == Spec => []NoStartAfterError
<1>1. Repeats => NoStartAfterError
  BY DEF Repeats, CodeOfFirst, FirstFatal, FatalHere, NoStartAfterError
<1> QED BY <1>1, RepeatsInvariance, PTL

\* "so that a restart of the container produces the same error".
THEOREM SameError == Spec => SameErrorAfterRestart
<1>1. ASSUME TypeOK, Repeats, [Next]_vars, code # 0, ~ disturbed PROVE code' = code
  <2>1. CASE HandleException
    <3>1. pc = "cleanup" /\ raised # "none" /\ code' = exit_code(raised)
      BY <1>1, <2>1 DEF HandleException, Goto, TypeOK
    <3>2. FatalHere /\ RaisedHere /\ CodeOfFirst
      BY <1>1 DEF Repeats
    <3>3. raised = ErrorOf(remote[repo]) /\ FirstFatal(repo)
      BY <1>1, <3>1, <3>2 DEF RaisedHere, FatalHere, FirstFatal, TypeOK
    <3>4. PICK f \in Repos : FirstFatal(f) /\ code = exit_code(ErrorOf(remote[f]))
      BY <1>1, <3>2 DEF CodeOfFirst
    <3>5. f = repo
      BY <3>3, <3>4, FirstUnique
    <3> QED BY <3>1, <3>3, <3>4, <3>5
  <2>2. CASE ~ HandleException
    BY <1>1, <2>2, CodeStays
  <2> QED BY <2>1, <2>2
<1>2. TypeOK /\ Repeats /\ [Next]_vars =>
          [pc = "cleanup" /\ code # 0 /\ ~ disturbed /\ pc' = "exited" => code' = code]_vars
  BY <1>1
<1> QED BY <1>2, TypeCorrect, RepeatsInvariance, PTL DEF Spec, SameErrorAfterRestart

=============================================================================
