--------------------------- MODULE MCMentorLifecycle ---------------------------
(* Small instances of MentorLifecycle for TLC.                              *)
EXTENDS MentorLifecycle, TLC

CONSTANT Listed    \* mentors approved long before the behaviour starts

\* Everybody registers with the same address.
SharedAddress == [m \in Mentor |-> "a"]

\* A mentor approved in the past: finalized, confirmed, old, in the catalog.
ListedRow == [NoRow EXCEPT !.status = "active", !.activated = TRUE,
                           !.sort = Worker, !.age = Old]

InitListed ==
    /\ row = [m \in Mentor |-> IF m \in Listed THEN ListedRow ELSE NoRow]
    /\ minted = [m \in Mentor |-> 0]
    /\ job = [w \in Worker |-> Idle]
    /\ call = [c \in Caller |-> NoCall]
    /\ trigger = {} /\ links = {} /\ inbox = {} /\ purgeList = {}
    /\ faults = 0

SpecListed == InitListed /\ [][Next]_vars

Symmetry == Permutations(Worker) \cup Permutations(Caller)
================================================================================
