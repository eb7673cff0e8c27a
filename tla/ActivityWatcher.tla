-------------------------- MODULE ActivityWatcher --------------------------
(***************************************************************************)
(* The liveness detector's ActivityWatcher: inotify watches on the         *)
(* directories of a workspace, where the user makes and removes            *)
(* directories all the while.  A directory without a watch is one whose    *)
(* files may change without the session counting as active.                *)
(***************************************************************************)
EXTENDS Sequences, Naturals, FiniteSets

CONSTANTS
    Root,        \* workdir
    Parent,      \* per directory below Root: the directory it is in
    MaxEvents,   \* bound: events that are not read yet
    None

VARIABLES
    exists,   \* the directories that are there
    watched,  \* those with a watch
    queue,    \* events that inotify has for the watcher
    pc,       \* the watcher: walk, read or dead
    todo,     \* directories that walk() has found and not read
    walked,   \* the directory that walk() has read last, still to be watched
    deleted,  \* history: a directory was removed
    raced     \* history: a directory was made in one that was not watched

vars == <<exists, watched, queue, pc, todo, walked, deleted, raced>>

Dirs == {Root} \cup DOMAIN Parent

\* Every directory is some steps below the one that is watched.
IsTree ==
    /\ Root \notin DOMAIN Parent
    /\ None \notin Dirs
    /\ IsFiniteSet(Dirs)
    /\ \E depth \in [Dirs -> 0 .. Cardinality(Dirs)] :
           \A d \in DOMAIN Parent :
               Parent[d] \in Dirs /\ depth[Parent[d]] < depth[d]

Children(d) == {c \in DOMAIN Parent : Parent[c] = d}

Event(kind, watch, name) == [kind |-> kind, watch |-> watch, name |-> name]

Init ==
    /\ exists \in {ds \in SUBSET Dirs :
                       /\ Root \in ds
                       /\ \A d \in ds \ {Root} : Parent[d] \in ds}
    /\ watched = {Root}
    /\ queue = <<>>
    /\ pc = "walk"
    /\ todo = {Root}
    /\ walked = None
    /\ deleted = FALSE
    /\ raced = FALSE

-----------------------------------------------------------------------------
(***************************************************************************)
(* The user, and the events of inotify.                                    *)
(***************************************************************************)

Report(e) ==
    /\ Len(queue) < MaxEvents
    /\ queue' = IF e.watch \in watched THEN Append(queue, e) ELSE queue

\* walk() will still read the directory or one above it.
WillBeRead[d \in Dirs] == d \in todo \/ (d # Root /\ WillBeRead[Parent[d]])

MakeDirectory ==
    /\ \E d \in Dirs \ exists :
           /\ Parent[d] \in exists
           /\ exists' = exists \cup {d}
           /\ Report(Event("directory created", Parent[d], d))
           /\ raced' = (raced \/ ~ (Parent[d] \in watched \/ WillBeRead[Parent[d]]))
    /\ UNCHANGED <<watched, pc, todo, walked, deleted>>

\* The kernel removes the watch of a directory that goes.
RemoveDirectory ==
    /\ \E d \in exists \ {Root} :
           /\ Children(d) \cap exists = {}
           /\ exists' = exists \ {d}
           /\ watched' = watched \ {d}
           /\ Report(Event("directory deleted", Parent[d], d))
    /\ deleted' = TRUE
    /\ UNCHANGED <<pc, todo, walked, raced>>

ChangeFile ==
    /\ \E d \in exists : Report(Event("file changed", d, None))
    /\ UNCHANGED <<exists, watched, pc, todo, walked, deleted, raced>>

-----------------------------------------------------------------------------
(***************************************************************************)
(* run_inotify: the walk over what is there, then the events.              *)
(***************************************************************************)

\* An exception ends the task and closes inotify with all its watches;
\* /healthz goes on with the last times.
Die ==
    /\ pc' = "dead"
    /\ watched' = {}
    /\ queue' = <<>>
    /\ todo' = {}
    /\ walked' = None

\* One directory of walk(), which skips those that are gone.
Walk ==
    /\ pc = "walk"
    /\ walked = None
    /\ \E d \in todo :
           /\ todo' = (todo \ {d}) \cup (Children(d) \cap exists)
           /\ walked' = IF d \in exists THEN d ELSE None
    /\ UNCHANGED <<exists, watched, queue, pc, deleted, raced>>

\* A directory that is gone is no is_dir(), or it went right after that and
\* add_watch raises.
WatchWalked ==
    /\ walked # None
    /\ \/ /\ watched' = watched \cup ({walked} \cap exists)
          /\ walked' = None
          /\ UNCHANGED <<queue, pc, todo>>
       \/ walked \notin exists /\ Die
    /\ UNCHANGED <<exists, deleted, raced>>

EndOfWalk ==
    /\ pc = "walk"
    /\ walked = None
    /\ todo = {}
    /\ pc' = "read"
    /\ UNCHANGED <<exists, watched, queue, todo, walked, deleted, raced>>

Handles(kind) ==
    /\ pc = "read"
    /\ queue # <<>>
    /\ Head(queue).kind = kind

\* Anything but an access to a terminal is file activity.
FileChanged ==
    /\ Handles("file changed")
    /\ queue' = Tail(queue)
    /\ UNCHANGED <<exists, watched, pc, todo, walked, deleted, raced>>

AddNothing(d) == watched

AddWatch(d) == watched \cup {d}

\* add_watch raises when the directory is gone.
DirectoryCreated ==
    /\ Handles("directory created")
    /\ LET d == Head(queue).name IN
       IF d \in exists
           THEN /\ watched' = AddWatch(d)
                /\ queue' = Tail(queue)
                /\ UNCHANGED <<pc, todo, walked>>
           ELSE Die
    /\ UNCHANGED <<exists, deleted, raced>>

\* rm_watch(event.watch): the watch that the event came from, which is that
\* of the directory above.  It raises when that one was removed before.
DirectoryDeleted ==
    /\ Handles("directory deleted")
    /\ LET w == Head(queue).watch IN
       IF w \in watched
           THEN /\ watched' = watched \ {w}
                /\ queue' = Tail(queue)
                /\ UNCHANGED <<pc, todo, walked>>
           ELSE Die
    /\ UNCHANGED <<exists, deleted, raced>>

Next ==
    \/ MakeDirectory \/ RemoveDirectory \/ ChangeFile
    \/ Walk \/ WatchWalked \/ EndOfWalk
    \/ FileChanged \/ DirectoryCreated \/ DirectoryDeleted

Spec == Init /\ [][Next]_vars

-----------------------------------------------------------------------------
(***************************************************************************)
(* Properties.                                                             *)
(***************************************************************************)

\* When no directory was removed, and none was made in a directory before it
\* was watched, the watcher lives and, with all events read, every directory
\* is watched: also those that were made during the walk (run_inotify).
WatchesComplete ==
    ~ deleted /\ ~ raced =>
        /\ pc # "dead"
        /\ pc = "read" /\ queue = <<>> => watched = exists

\* A directory that is there keeps its watch while the watcher lives: the
\* watch that is removed is the one of the directory that was deleted (the
\* docstring of run_inotify).
WatchKept ==
    [][pc' # "dead" => watched \cap exists' \subseteq watched']_vars

=============================================================================
