----------------------------- MODULE MentorProfile -----------------------------
(***************************************************************************)
(* What the platform promises about a mentor profile, with no mention of   *)
(* tokens, jobs, sessions or races: the phases a profile goes through and  *)
(* the moves between them that any actor may cause.                        *)
(*                                                                         *)
(*   unregistered - no row yet            listed  - in the public catalog  *)
(*   applicant    - draft, pending or     hidden  - not in the catalog,    *)
(*                  declined                        owner may log in       *)
(*   deleted      - soft-deleted, undoable erased - the row is gone        *)
(*                                                                         *)
(* Two promises carry the weight: a deleted profile is left alone until it *)
(* is restored or erased, and a restore never re-publishes it; and erasing *)
(* is only ever done to a deleted profile, and is final.                   *)
(***************************************************************************)
CONSTANT Mentor

VARIABLE phase

Present == {"applicant", "listed", "hidden"}
Phase == Present \cup {"unregistered", "deleted", "erased"}

Init == phase = [m \in Mentor |-> "unregistered"]

\* m leaves one of the phases in From for one of the phases in To.
Move(m, From, To) ==
    /\ phase[m] \in From
    /\ \E p \in To : phase' = [phase EXCEPT ![m] = p]

Apply(m) == Move(m, {"unregistered"}, {"applicant"})
Change(m) == Move(m, Present, Present)
Delete(m) == Move(m, Present, {"deleted"})
Restore(m) == Move(m, {"deleted"}, {"hidden"})
Erase(m) == Move(m, {"deleted"}, {"erased"})

Next == \E m \in Mentor :
    Apply(m) \/ Change(m) \/ Delete(m) \/ Restore(m) \/ Erase(m)

Spec == Init /\ [][Next]_phase
================================================================================
