----------------------------- MODULE Migration -----------------------------
(***************************************************************************)
(* The schema migration of the servers: run by the first pod, in pages of  *)
(* a listing, one patch per server.  A run may be killed or fail at any    *)
(* server; it is started again, while sessions are launched and deleted.   *)
(***************************************************************************)
EXTENDS Naturals, FiniteSets

CONSTANTS
    Servers,   \* names
    Limit      \* PAGINATION_LIMIT

VARIABLES
    upper,      \* the names whose hash is of a projectName or namespace with an
                \* upper-case letter: a name that is used again has the same ones
    exists,     \* the servers that there are
    mixed,      \* those with an upper-case letter in projectName or namespace
    labelled,   \* those with the schema version label
    dryRun,     \* args.dry_run of the run
    run,        \* none, list or patch; ended or failed
    listed,     \* the servers of the page that are still to be patched
    rest,       \* those of the listing on later pages
    mixedThen,  \* those of the listing that had upper-case letters
    started     \* history: the servers that were there when the run began

vars == <<upper, exists, mixed, labelled, dryRun, run, listed, rest, mixedThen, started>>

Init ==
    /\ upper \in SUBSET Servers
    /\ exists \in SUBSET Servers
    /\ mixed = exists \cap upper
    /\ labelled = {}
    /\ dryRun = FALSE
    /\ run = "none"
    /\ listed = {}
    /\ rest = {}
    /\ mixedThen = {}
    /\ started = {}

-----------------------------------------------------------------------------
(***************************************************************************)
(* Sessions come and go.  A new server has no schema version label.        *)
(***************************************************************************)

\* The history forgets a name that is used again.
Launch(s) ==
    /\ s \notin exists
    /\ exists' = exists \cup {s}
    /\ mixed' = (mixed \ {s}) \cup ({s} \cap upper)
    /\ labelled' = labelled \ {s}
    /\ started' = started \ {s}
    /\ UNCHANGED <<upper, dryRun, run, listed, rest, mixedThen>>

Delete(s) ==
    /\ s \in exists
    /\ exists' = exists \ {s}
    /\ UNCHANGED <<upper, mixed, labelled, dryRun, run, listed, rest, mixedThen, started>>

-----------------------------------------------------------------------------
(***************************************************************************)
(* adjust_annotations                                                      *)
(***************************************************************************)

Running == run \in {"list", "patch"}

\* A run that was killed or has failed is started again; so is one that ended,
\* at the next rollout.
StartRun ==
    /\ ~ Running
    /\ dryRun' \in BOOLEAN
    /\ run' = "list"
    /\ listed' = {}
    /\ rest' = {}
    /\ mixedThen' = {}
    /\ started' = exists
    /\ UNCHANGED <<upper, exists, mixed, labelled>>

Pages(found) ==
    {page \in SUBSET found :
        Cardinality(page) = IF Cardinality(found) < Limit THEN Cardinality(found) ELSE Limit}

\* The label selector of the listing.
Unlabelled == exists \ labelled

\* The first page; a continue token reads on in the listing as it was then.
List ==
    /\ run = "list"
    /\ \E page \in Pages(Unlabelled) :
           /\ listed' = page
           /\ rest' = Unlabelled \ page
    /\ mixedThen' = mixed
    /\ run' = "patch"
    /\ UNCHANGED <<upper, exists, mixed, labelled, dryRun, started>>

\* One patch sets the label and the lower-case values.
Patched(s) ==
    /\ labelled' = labelled \cup {s}
    /\ mixed' = IF s \in mixedThen THEN mixed \ {s} ELSE mixed

Patch(s) ==
    /\ run = "patch"
    /\ s \in listed
    /\ dryRun \/ s \in exists
    /\ listed' = listed \ {s}
    /\ IF dryRun THEN UNCHANGED <<labelled, mixed>> ELSE Patched(s)
    /\ UNCHANGED <<upper, exists, dryRun, run, rest, mixedThen, started>>

NoContinue(more) == TRUE

LastPage(more) == more = {}

NextPage ==
    /\ run = "patch"
    /\ listed = {}
    /\ ~ LastPage(rest)
    /\ \E page \in Pages(rest) :
           /\ listed' = page
           /\ rest' = rest \ page
    /\ UNCHANGED <<upper, exists, mixed, labelled, dryRun, run, mixedThen, started>>

EndRun ==
    /\ run = "patch"
    /\ listed = {}
    /\ LastPage(rest)
    /\ run' = "ended"
    /\ UNCHANGED <<upper, exists, mixed, labelled, dryRun, listed, rest, mixedThen, started>>

\* The pod is killed, a call fails or the continue token expires; a server
\* that was deleted since it was listed is such a failure.
Fail ==
    /\ Running
    /\ run' = "failed"
    /\ listed' = {}
    /\ rest' = {}
    /\ UNCHANGED <<upper, exists, mixed, labelled, dryRun, mixedThen, started>>

Next ==
    \/ \E s \in Servers : Launch(s) \/ Delete(s) \/ Patch(s)
    \/ StartRun \/ List \/ NextPage \/ EndRun \/ Fail

Spec == Init /\ [][Next]_vars

-----------------------------------------------------------------------------
(***************************************************************************)
(* Properties.                                                             *)
(***************************************************************************)

\* When a run that is no dry run has ended, every server that was there when
\* it began and still is has the label and lower-case values, however many
\* runs before it were killed and on whatever page it was (adjust_annotations).
MigratedWhenDone ==
    run = "ended" /\ ~ dryRun =>
        \A s \in started \cap exists : s \in labelled /\ s \notin mixed

=============================================================================
