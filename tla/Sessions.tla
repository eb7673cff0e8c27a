------------------------------ MODULE Sessions ------------------------------
(***************************************************************************)
(* What the session API promises about sessions, whatever namespace they   *)
(* live in and however stale the cache is: a name has one session at a     *)
(* time, which keeps its identity while it is hibernated and resumed, and  *)
(* which goes away only after it has been stopped.                         *)
(***************************************************************************)

CONSTANTS Names, Ids

VARIABLE sessions  \* the sessions of each name

Session == [id : Ids, hibernated : BOOLEAN, stopping : BOOLEAN]

Started(i) == [id |-> i, hibernated |-> FALSE, stopping |-> FALSE]

Becomes(n, ss) == sessions' = [sessions EXCEPT ![n] = ss]

Init ==
    sessions \in [Names ->
        {{}} \cup {{s} : s \in {t \in Session : ~ t.stopping}}]

Start(n) ==
    /\ sessions[n] = {}
    /\ \E i \in Ids : Becomes(n, {Started(i)})

Hibernate(n) ==
    \E s \in sessions[n] : Becomes(n, {[s EXCEPT !.hibernated = TRUE]})

Resume(n) ==
    \E s \in sessions[n] : Becomes(n, {[s EXCEPT !.hibernated = FALSE]})

Stop(n) ==
    \E s \in sessions[n] : Becomes(n, {[s EXCEPT !.stopping = TRUE]})

Remove(n) ==
    /\ \E s \in sessions[n] : s.stopping
    /\ Becomes(n, {})

Next ==
    \E n \in Names :
        Start(n) \/ Hibernate(n) \/ Resume(n) \/ Stop(n) \/ Remove(n)

Spec == Init /\ [][Next]_sessions

=============================================================================
