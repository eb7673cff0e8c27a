---------------------------- MODULE MCSessionApi ----------------------------
(***************************************************************************)
(* The instances of SessionApi that TLC checks: one name, which is alice's *)
(* and may have a server of hers in either namespace at the start, and     *)
(* requests of alice and of bob, in any combination.                       *)
(***************************************************************************)
EXTENDS SessionApi

CONSTANTS alice, bob, session, small, big

By(op, user) == [op |-> op, user |-> user, name |-> session,
                 state |-> "none", class |-> NoClass]

Launch == [By("launch", alice) EXCEPT !.class = small]

Patch(user, state, class) ==
    [By("patch", user) EXCEPT !.state = state, !.class = class]

OwnerAlice == [n \in {session} |-> alice]

Stops == {By("stop", alice), By("stop", bob)}

Patches == {Patch(alice, "hibernated", NoClass), Patch(alice, "none", big),
            Patch(alice, "running", NoClass), Patch(alice, "running", big),
            Patch(alice, "hibernated", big), Patch(bob, "hibernated", NoClass)}

AllCalls == {Launch, By("get", alice), By("get", bob)} \cup Stops \cup Patches

=============================================================================
