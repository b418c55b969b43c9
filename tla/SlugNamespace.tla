------------------------------ MODULE SlugNamespace ------------------------------
(***************************************************************************)
(* What the platform promises about usernames: a step concerns one profile, *)
(* which lets go of some of its names and takes one new name at most, and   *)
(* that one only if nobody has it, as an address or as a redirect.          *)
(***************************************************************************)
CONSTANTS Name, Mentor

VARIABLE names     \* the names that lead to a profile

Init == names = [m \in Mentor |-> {}]

Free(n) == \A m \in Mentor : n \notin names[m]

Keep(m, kept) == names' = [names EXCEPT ![m] = kept]

Take(m, n, kept) == Free(n) /\ names' = [names EXCEPT ![m] = kept \cup {n}]

Next == \E m \in Mentor : \E kept \in SUBSET names[m] :
            Keep(m, kept) \/ \E n \in Name : Take(m, n, kept)

Spec == Init /\ [][Next]_names
================================================================================
