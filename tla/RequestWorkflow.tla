----------------------------- MODULE RequestWorkflow ----------------------------
(***************************************************************************)
(* What the platform promises about a mentorship request, whoever races    *)
(* with whom: its status moves along the workflow graph, from where it is  *)
(* and not from where somebody last saw it; only an admin leaves the       *)
(* graph; its arrival is announced at most once; and it is reviewed at     *)
(* most once, after it was completed.                                      *)
(***************************************************************************)
EXTENDS Naturals

CONSTANTS
    Request,
    Override    \* statuses an admin may move a request to, from anywhere

VARIABLES
    status,
    announced,  \* how often, per request
    reviewed    \* how often, per request

vars == <<status, announced, reviewed>>

Open == {"pending", "contacted", "working", "reschedule"}
Closed == {"done", "declined", "unavailable"}

\* The workflow graph, plus the decline button of every open request.
Edge == {<<"pending", "contacted">>, <<"contacted", "working">>, <<"working", "done">>}
        \cup Open \X {"declined"}

Init ==
    /\ status = [r \in Request |-> "none"]
    /\ announced = [r \in Request |-> 0]
    /\ reviewed = [r \in Request |-> 0]

Ask(r) ==
    /\ status[r] = "none"
    /\ status' = [status EXCEPT ![r] = "pending"]
    /\ UNCHANGED <<announced, reviewed>>

Advance(r) ==
    /\ \E to \in Open \cup Closed :
        /\ <<status[r], to>> \in Edge
        /\ status' = [status EXCEPT ![r] = to]
    /\ UNCHANGED <<announced, reviewed>>

Correct(r) ==
    /\ status[r] # "none"
    /\ \E to \in Override : status' = [status EXCEPT ![r] = to]
    /\ UNCHANGED <<announced, reviewed>>

Announce(r) ==
    /\ status[r] # "none" /\ announced[r] = 0
    /\ announced' = [announced EXCEPT ![r] = 1]
    /\ UNCHANGED <<status, reviewed>>

\* An admin may move the request on while its review is on the way.
Review(r) ==
    /\ reviewed[r] = 0
    /\ status[r] = "done" \/ Override # {}
    /\ reviewed' = [reviewed EXCEPT ![r] = 1]
    /\ UNCHANGED <<status, announced>>

Next == \E r \in Request :
    Ask(r) \/ Advance(r) \/ Correct(r) \/ Announce(r) \/ Review(r)

Spec == Init /\ [][Next]_vars
================================================================================
