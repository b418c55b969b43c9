---------------------------- MODULE MCClientRequests ---------------------------
(* Small instances of ClientRequests for TLC.                               *)
EXTENDS ClientRequests, TLC

Symmetry == Permutations(Token) \cup Permutations(Caller) \cup Permutations(Worker)
            \cup Permutations(Submitter)
================================================================================
