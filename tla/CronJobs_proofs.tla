----------------------------- MODULE CronJobs_proofs -----------------------------
(***************************************************************************)
(* Timed jobs, for any number of passes, processes and mentors: the lease  *)
(* keeps passes of a job apart, a deactivation is told by who made it, and *)
(* a sweep erases what is overdue and reports no more than it did.         *)
(***************************************************************************)
EXTENDS CronJobs, FiniteSetTheorems, TLAPS

\* The three jobs are three.
LEMMA JobsDiffer == Reminder # Deactivation /\ Reminder # Purge /\ Deactivation # Purge
<1>1. \A x, y : Cardinality({x, y}) <= 2
  <2> TAKE x, y
  <2>1. IsFiniteSet({x}) /\ Cardinality({x}) = 1 BY FS_Singleton
  <2>2. /\ IsFiniteSet({x} \cup {y})
        /\ Cardinality({x} \cup {y}) = IF y \in {x} THEN Cardinality({x}) ELSE Cardinality({x}) + 1
    BY <2>1, FS_AddElement
  <2>3. {x} \cup {y} = {x, y} OBVIOUS
  <2> QED BY <2>1, <2>2, <2>3
<1>2. \A x, y : Job # {x, y}
  <2>1. Cardinality(Job) = 3 BY CronAssumption
  <2> QED BY <1>1, <2>1
<1> QED BY <1>2 DEF Job

-----------------------------------------------------------------------------
(* The inductive invariant.                                                *)

Run == [step : {"idle", "lease", "list", "loop", "mail", "erase", "release"},
        job : Job \cup {NoJob}, in : Process \cup {NoPass}, ticked : BOOLEAN,
        orphan : BOOLEAN, left : SUBSET JobMentor, listed : SUBSET JobMentor,
        who : JobMentor \cup {NoMentorYet}, failed : BOOLEAN, clean : BOOLEAN]

\* Inside, a pass has its job and, unless its connection was lost, the lease.
HasLease(p) ==
    Inside(p) => pass[p].job \in Job /\ (pass[p].orphan \/ lease[pass[p].job] = p)

\* Who is to be mailed was deactivated by this pass; who is to be erased is
\* claimed by it, under the retention predicate.
HasReason(p) ==
    /\ pass[p].step = "lease" => pass[p].job \in Job
    /\ pass[p].step = "mail" => /\ pass[p].job = Deactivation /\ pass[p].who \in JobMentor
                                /\ p \in unmailed[pass[p].who]
    /\ pass[p].step = "erase" => /\ pass[p].job = Purge /\ pass[p].who \in JobMentor
                                 /\ claimed[pass[p].who] = p
                                 /\ mentorRow[pass[p].who] = "overdue"

\* What a sweep without failures has passed is not overdue any more.
HasSwept(p) ==
    /\ pass[p].clean => pass[p].step = "release" /\ pass[p].left = {}
    /\ pass[p].clean \/ (pass[p].step \in {"loop", "erase"} /\ pass[p].job = Purge /\ ~pass[p].failed) =>
          \A m \in pass[p].listed : mentorRow[m] = "overdue" => m \in pass[p].left

\* A claim is a claim on an overdue row.
ClaimsAreDue == \A m \in JobMentor : claimed[m] # NoPass => mentorRow[m] = "overdue"

CronInv ==
    /\ CronTypeOK /\ ClaimsAreDue
    /\ \A p \in Pass : HasLease(p) /\ HasReason(p) /\ HasSwept(p)

\* The run of a pass that stands.
RunOK(p) == HasLease(p) /\ HasReason(p) /\ HasSwept(p)

\* What a step may do to the passes it is not a step of.
Spares(p) ==
    /\ pass'[p] = pass[p]
    /\ \A j \in Job : lease[j] = p => lease'[j] = p
    /\ \A m \in JobMentor : /\ claimed[m] = p => /\ claimed'[m] = p
                                                 /\ mentorRow'[m] = mentorRow[m]
                            /\ p \in unmailed[m] => p \in unmailed'[m]
                            /\ m \in pass[p].listed /\ mentorRow'[m] = "overdue" =>
                                  mentorRow[m] = "overdue"

\* A pass that another's step spares keeps its part of the invariant.
LEMMA SparedStands ==
    ASSUME NEW p \in Pass, RunOK(p), Spares(p), pass[p] \in Run
    PROVE  RunOK(p)'
<1>1. HasLease(p)' BY DEF RunOK, HasLease, Inside, Spares
<1>2. HasReason(p)' BY DEF RunOK, HasReason, Spares
<1>3. HasSwept(p)' BY DEF RunOK, HasSwept, Spares, Run
<1> QED BY <1>1, <1>2, <1>3 DEF RunOK

\* A step of pass p, which moves to run r.
LEMMA PassMoves ==
    ASSUME CronInv, NEW p \in Pass, NEW r \in Run, pass' = [pass EXCEPT ![p] = r],
           lease' \in [Job -> Pass \cup {NoPass}],
           mentorRow' \in [JobMentor -> {"active", "inactive", "deleted", "overdue", "gone"}],
           claimed' \in [JobMentor -> Pass \cup {NoPass}],
           unmailed' \in [JobMentor -> SUBSET Pass], lost' \in 0 .. MaxLost,
           \A q \in Pass \ {p}, j \in Job : lease[j] = q => lease'[j] = q,
           \A q \in Pass \ {p}, m \in JobMentor : claimed[m] = q =>
               claimed'[m] = q /\ mentorRow'[m] = mentorRow[m],
           \A q \in Pass \ {p}, m \in JobMentor : q \in unmailed[m] => q \in unmailed'[m],
           \A m \in JobMentor : mentorRow'[m] = "overdue" => mentorRow[m] = "overdue",
           ClaimsAreDue', pass'[p] = r => RunOK(p)'
    PROVE  CronInv'
<1>1. pass \in [Pass -> Run] BY DEF CronInv, CronTypeOK, Run
<1>2. pass' \in [Pass -> Run] /\ pass'[p] = r /\ \A q \in Pass \ {p} : pass'[q] = pass[q]
  BY <1>1
<1>3. CronTypeOK' BY <1>2 DEF CronTypeOK, Run
<1>4. ASSUME NEW q \in Pass \ {p} PROVE RunOK(q)'
  <2>1. pass[q].listed \subseteq JobMentor BY <1>1 DEF Run
  <2>2. Spares(q) BY <1>2 DEF Spares
  <2> QED BY <1>1, <2>2, SparedStands DEF CronInv, RunOK
<1>5. \A q \in Pass : RunOK(q)' BY <1>2, <1>4
<1> QED BY <1>3, <1>5 DEF CronInv, RunOK

\* A pass that moves without a write.
LEMMA QuietMove ==
    ASSUME CronInv, NEW p \in Pass, NEW r \in Run, pass' = [pass EXCEPT ![p] = r],
           UNCHANGED <<lease, mentorRow, claimed, unmailed, lost>>, pass'[p] = r => RunOK(p)'
    PROVE  CronInv'
<1>1. ClaimsAreDue' BY DEF CronInv, ClaimsAreDue
<1> QED BY <1>1, PassMoves DEF CronInv, CronTypeOK

\* What the invariant says of the types.
LEMMA CronTyped ==
    ASSUME CronInv
    PROVE  /\ lease \in [Job -> Pass \cup {NoPass}]
           /\ mentorRow \in [JobMentor -> {"active", "inactive", "deleted", "overdue", "gone"}]
           /\ claimed \in [JobMentor -> Pass \cup {NoPass}]
           /\ unmailed \in [JobMentor -> SUBSET Pass] /\ lost \in 0 .. MaxLost
BY DEF CronInv, CronTypeOK

\* Passes that end, with what their connections held.
LEMMA PassesEnd ==
    ASSUME CronInv, NEW ps \in SUBSET Pass, EndPass(ps), UNCHANGED <<mentorRow, lost>>
    PROVE  CronInv'
<1>0. NoRun \in Run BY DEF NoRun, Run
<1>1. pass \in [Pass -> Run] BY DEF CronInv, CronTypeOK, Run
<1>2. /\ \A p \in Pass : pass'[p] = IF p \in ps THEN NoRun ELSE pass[p]
      /\ pass' \in [Pass -> Run]
  BY <1>0, <1>1 DEF EndPass
<1>3. /\ lease' \in [Job -> Pass \cup {NoPass}] /\ claimed' \in [JobMentor -> Pass \cup {NoPass}]
      /\ unmailed' \in [JobMentor -> SUBSET Pass]
  BY DEF EndPass, CronInv, CronTypeOK
<1>4. CronTypeOK' BY <1>2, <1>3 DEF CronInv, CronTypeOK, Run
<1>5. ASSUME NEW p \in Pass, p \in ps PROVE RunOK(p)'
  <2>1. pass'[p] = NoRun BY <1>2, <1>5
  <2> QED BY <2>1 DEF NoRun, RunOK, HasLease, Inside, HasReason, HasSwept
<1>6. ASSUME NEW p \in Pass, p \notin ps PROVE RunOK(p)'
  <2>1. pass'[p] = pass[p] BY <1>2, <1>6
  <2>2. Spares(p) BY <1>6, <2>1 DEF Spares, EndPass
  <2> QED BY <1>1, <2>2, SparedStands DEF CronInv, RunOK
<1>7. ClaimsAreDue' BY DEF CronInv, ClaimsAreDue, EndPass
<1> QED BY <1>4, <1>5, <1>6, <1>7 DEF CronInv, RunOK

-----------------------------------------------------------------------------
(* How a pass starts and ends.                                             *)

\* A new pass has nothing to account for yet.
LEMMA StartPassInv ==
    ASSUME CronInv, NEW p \in Pass, NEW proc \in Process, NEW j \in Job, NEW ticked \in BOOLEAN,
           StartPass(p, proc, j, ticked)
    PROVE  CronInv'
<1> DEFINE t == ticked /\ SkipIfRunning(j)
           r == [NoRun EXCEPT !.step = "lease", !.job = j, !.in = proc, !.ticked = t]
<1>1. pass' = [pass EXCEPT ![p] = r] /\ UNCHANGED <<lease, mentorRow, claimed, unmailed, lost>>
  BY DEF StartPass
<1>2. t \in BOOLEAN OBVIOUS
<1> HIDE DEF t
<1>3. r \in Run /\ r.step = "lease" /\ r.job = j /\ ~r.clean BY <1>2 DEF Run, NoRun
<1> HIDE DEF r
<1>4. pass'[p] = r => RunOK(p)' BY <1>3 DEF RunOK, HasLease, Inside, HasReason, HasSwept
<1> QED BY <1>1, <1>3, <1>4, QuietMove

\* The lease is free when it is taken: nobody else is inside with it.
LEMMA AcquireJobLeaseInv ==
    ASSUME CronInv, NEW p \in Pass, AcquireJobLease(p)
    PROVE  CronInv'
<1> DEFINE r == [pass[p] EXCEPT !.step = "list"]
<1>1. pass \in [Pass -> Run] /\ pass[p] \in Run BY DEF CronInv, CronTypeOK, Run
<1>2. r \in Run /\ r.step = "list" /\ r.job = pass[p].job /\ r.clean = pass[p].clean
  BY <1>1 DEF Run
<1>3. pass' = [pass EXCEPT ![p] = r] BY <1>1 DEF AcquireJobLease, Run
<1> HIDE DEF r
<1>4. pass[p].step = "lease" /\ pass[p].job \in Job /\ ~pass[p].clean
  BY DEF AcquireJobLease, CronInv, HasReason, HasSwept
<1>5. PICK j \in Job : j = pass[p].job BY <1>4
<1>6. /\ lease[j] = NoPass /\ lease' = [lease EXCEPT ![j] = p]
      /\ UNCHANGED <<mentorRow, claimed, unmailed, lost>>
  BY <1>5 DEF AcquireJobLease
<1>7. /\ lease' \in [Job -> Pass \cup {NoPass}] /\ lease'[j] = p
      /\ \A k \in Job \ {j} : lease'[k] = lease[k]
  BY <1>6 DEF CronInv, CronTypeOK
<1>8. pass'[p] = r => RunOK(p)'
  BY <1>2, <1>4, <1>5, <1>7 DEF RunOK, HasLease, Inside, HasReason, HasSwept
<1>9. \A q \in Pass \ {p}, k \in Job : lease[k] = q => lease'[k] = q
  BY <1>6, <1>7, CronAssumption
<1>10. ClaimsAreDue' BY <1>6 DEF CronInv, ClaimsAreDue
<1> QED BY <1>2, <1>3, <1>6, <1>7, <1>8, <1>9, PassMoves, CronTyped, <1>10

\* A pass that is skipped owes nothing.
LEMMA SkipPassInv ==
    ASSUME CronInv, NEW p \in Pass, SkipPass(p)
    PROVE  CronInv'
<1>1. NoRun \in Run BY DEF NoRun, Run
<1>2. pass' = [pass EXCEPT ![p] = NoRun] /\ UNCHANGED <<lease, mentorRow, claimed, unmailed, lost>>
  BY DEF SkipPass
<1>3. pass'[p] = NoRun => RunOK(p)' BY DEF NoRun, RunOK, HasLease, Inside, HasReason, HasSwept
<1> QED BY <1>1, <1>2, <1>3, QuietMove

\* A pass that loses its connection is an orphan from then on.
LEMMA LoseLeaseInv ==
    ASSUME CronInv, NEW p \in Pass, LoseLease(p)
    PROVE  CronInv'
<1> DEFINE r == [pass[p] EXCEPT !.orphan = TRUE]
<1>1. pass \in [Pass -> Run] /\ pass[p] \in Run BY DEF CronInv, CronTypeOK, Run
<1>2. /\ r \in Run /\ r.step = pass[p].step /\ r.job = pass[p].job /\ r.orphan = TRUE
      /\ r.left = pass[p].left /\ r.listed = pass[p].listed /\ r.who = pass[p].who
      /\ r.failed = pass[p].failed /\ r.clean = pass[p].clean
  BY <1>1 DEF Run
<1>3. pass' = [pass EXCEPT ![p] = r] BY <1>1 DEF LoseLease, Run
<1> HIDE DEF r
<1>4. RunOK(p) /\ Inside(p) BY DEF CronInv, RunOK, LoseLease
<1>5. PICK j \in Job : j = pass[p].job BY <1>4 DEF RunOK, HasLease
<1>6. /\ lease[j] = p /\ lease' = [lease EXCEPT ![j] = NoPass]
      /\ UNCHANGED <<mentorRow, claimed, unmailed>>
  BY <1>5 DEF LoseLease
<1>7. lease' \in [Job -> Pass \cup {NoPass}] /\ \A q \in Pass \ {p}, k \in Job : lease[k] = q => lease'[k] = q
  BY <1>6 DEF CronInv, CronTypeOK
<1>8. lost' \in 0 .. MaxLost
  <2>1. lost \in 0 .. MaxLost /\ lost < MaxLost /\ lost' = lost + 1
    BY DEF LoseLease, CronInv, CronTypeOK
  <2> QED BY <2>1, CronAssumption
<1>9. pass'[p] = r => RunOK(p)'
  <2> SUFFICES ASSUME pass'[p] = r PROVE RunOK(p)' OBVIOUS
  <2>1. HasLease(p)' BY <1>2, <1>5 DEF HasLease
  <2>2. HasReason(p)' BY <1>2, <1>4, <1>6 DEF RunOK, HasReason
  <2>3. HasSwept(p)' BY <1>2, <1>4, <1>6 DEF RunOK, HasSwept
  <2> QED BY <2>1, <2>2, <2>3 DEF RunOK
<1>10. ClaimsAreDue' BY <1>6 DEF CronInv, ClaimsAreDue
<1> QED BY <1>2, <1>3, <1>6, <1>7, <1>8, <1>9, PassMoves, CronTyped, <1>10

\* A pass that ends early gives its claims back and reports nothing.
LEMMA AbortPassInv ==
    ASSUME CronInv, NEW p \in Pass, AbortPass(p)
    PROVE  CronInv'
<1> DEFINE r == [pass[p] EXCEPT !.step = "release", !.left = {}, !.listed = {},
                                !.who = NoMentorYet, !.failed = FALSE]
<1>1. pass \in [Pass -> Run] /\ pass[p] \in Run BY DEF CronInv, CronTypeOK, Run
<1>2. /\ r \in Run /\ r.step = "release" /\ r.job = pass[p].job /\ r.orphan = pass[p].orphan
      /\ r.clean = pass[p].clean
  BY <1>1 DEF Run
<1>3. pass' = [pass EXCEPT ![p] = r] BY DEF AbortPass
<1> HIDE DEF r
<1>4. RunOK(p) /\ pass[p].step # "release" /\ Inside(p) BY DEF CronInv, RunOK, AbortPass, Inside
<1>5. ~pass[p].clean BY <1>4 DEF RunOK, HasSwept
<1>6. /\ claimed' = [m \in JobMentor |-> IF claimed[m] = p THEN NoPass ELSE claimed[m]]
      /\ unmailed' = [m \in JobMentor |-> unmailed[m] \ {p}] /\ UNCHANGED <<lease, mentorRow, lost>>
  BY DEF AbortPass
<1>7. claimed' \in [JobMentor -> Pass \cup {NoPass}] /\ unmailed' \in [JobMentor -> SUBSET Pass]
  BY <1>6 DEF CronInv, CronTypeOK
<1>8. pass'[p] = r => RunOK(p)'
  BY <1>2, <1>4, <1>5, <1>6 DEF RunOK, HasLease, Inside, HasReason, HasSwept
<1>9. ClaimsAreDue' BY <1>6 DEF CronInv, ClaimsAreDue
<1> QED BY <1>2, <1>3, <1>6, <1>7, <1>8, PassMoves, CronTyped, <1>9

-----------------------------------------------------------------------------
(* What a pass does.                                                       *)

\* A sweep lists all that is overdue, so all of it is still to be treated.
LEMMA ListMentorsInv ==
    ASSUME CronInv, NEW p \in Pass, ListMentors(p)
    PROVE  CronInv'
<1>1. pass \in [Pass -> Run] /\ pass[p] \in Run BY DEF CronInv, CronTypeOK, Run
<1>2. PICK found \in SUBSET JobMentor :
          /\ pass[p].job = Purge => found = {m \in JobMentor : mentorRow[m] = "overdue"}
          /\ pass' = [pass EXCEPT ![p].step = "loop", ![p].left = found,
                                  ![p].listed = IF pass[p].job = Purge THEN found ELSE {}]
  BY DEF ListMentors
<1> DEFINE l == IF pass[p].job = Purge THEN found ELSE {}
           r == [pass[p] EXCEPT !.step = "loop", !.left = found, !.listed = l]
<1>3. l \subseteq found OBVIOUS
<1>4. pass' = [pass EXCEPT ![p] = r] BY <1>1, <1>2 DEF Run
<1> HIDE DEF l
<1>5. /\ r \in Run /\ r.step = "loop" /\ r.job = pass[p].job /\ r.orphan = pass[p].orphan
      /\ r.left = found /\ r.listed = l /\ r.clean = pass[p].clean
  BY <1>1, <1>3 DEF Run
<1> HIDE DEF r
<1>6. /\ RunOK(p) /\ pass[p].step = "list" /\ Inside(p)
      /\ UNCHANGED <<lease, mentorRow, claimed, unmailed, lost>>
  BY DEF CronInv, RunOK, ListMentors, Inside
<1>7. ~pass[p].clean BY <1>6 DEF RunOK, HasSwept
<1>8. pass'[p] = r => RunOK(p)'
  BY <1>3, <1>5, <1>6, <1>7 DEF RunOK, HasLease, Inside, HasReason, HasSwept
<1> QED BY <1>4, <1>5, <1>6, <1>8, QuietMove

\* At the end of the loop nothing of the list is left.
LEMMA EndLoopInv ==
    ASSUME CronInv, NEW p \in Pass, EndLoop(p)
    PROVE  CronInv'
<1> DEFINE c == pass[p].job = Purge /\ ~pass[p].failed
           r == [pass[p] EXCEPT !.step = "release", !.clean = c]
<1>1. pass \in [Pass -> Run] /\ pass[p] \in Run BY DEF CronInv, CronTypeOK, Run
<1>2. pass' = [pass EXCEPT ![p] = r] BY <1>1 DEF EndLoop, Run
<1>3. c \in BOOLEAN OBVIOUS
<1>4. c => pass[p].job = Purge /\ ~pass[p].failed OBVIOUS
<1> HIDE DEF c
<1>5. /\ r \in Run /\ r.step = "release" /\ r.job = pass[p].job /\ r.orphan = pass[p].orphan
      /\ r.left = pass[p].left /\ r.listed = pass[p].listed /\ r.clean = c
  BY <1>1, <1>3 DEF Run
<1> HIDE DEF r
<1>6. /\ RunOK(p) /\ pass[p].step = "loop" /\ pass[p].left = {} /\ Inside(p)
      /\ UNCHANGED <<lease, mentorRow, claimed, unmailed, lost>>
  BY DEF CronInv, RunOK, EndLoop, Inside
<1>7. pass'[p] = r => RunOK(p)'
  <2> SUFFICES ASSUME pass'[p] = r PROVE RunOK(p)' OBVIOUS
  <2>1. HasLease(p)' BY <1>5, <1>6 DEF RunOK, HasLease, Inside
  <2>2. HasReason(p)' BY <1>5 DEF HasReason
  <2>3. HasSwept(p)' BY <1>4, <1>5, <1>6 DEF RunOK, HasSwept
  <2> QED BY <2>1, <2>2, <2>3 DEF RunOK
<1> QED BY <1>2, <1>5, <1>6, <1>7, QuietMove

\* Going on leaves the pass its lease and its list.
LEMMA GoOnRun ==
    ASSUME CronInv, NEW p \in Pass, NEW m
    PROVE  \E r \in Run :
               /\ GoOn(p, m) = [pass EXCEPT ![p] = r]
               /\ r.step = "loop" /\ r.job = pass[p].job /\ r.orphan = pass[p].orphan
               /\ r.left = pass[p].left \ {m} /\ r.listed = pass[p].listed
               /\ r.failed = pass[p].failed /\ r.clean = pass[p].clean
<1> DEFINE r == [pass[p] EXCEPT !.step = "loop", !.left = pass[p].left \ {m}, !.who = NoMentorYet]
<1>1. pass \in [Pass -> Run] /\ pass[p] \in Run BY DEF CronInv, CronTypeOK, Run
<1>2. GoOn(p, m) = [pass EXCEPT ![p] = r] BY <1>1 DEF GoOn, Run
<1>3. /\ r \in Run /\ r.step = "loop" /\ r.job = pass[p].job /\ r.orphan = pass[p].orphan
      /\ r.left = pass[p].left \ {m} /\ r.listed = pass[p].listed
      /\ r.failed = pass[p].failed /\ r.clean = pass[p].clean
  BY <1>1 DEF Run
<1> HIDE DEF r
<1> QED BY <1>2, <1>3

\* A reminder is no sweep and writes nothing.
LEMMA RemindInv ==
    ASSUME CronInv, NEW p \in Pass, NEW m \in JobMentor, Remind(p, m)
    PROVE  CronInv'
<1>1. PICK r \in Run :
          /\ GoOn(p, m) = [pass EXCEPT ![p] = r]
          /\ r.step = "loop" /\ r.job = pass[p].job /\ r.orphan = pass[p].orphan
          /\ r.left = pass[p].left \ {m} /\ r.listed = pass[p].listed
          /\ r.failed = pass[p].failed /\ r.clean = pass[p].clean
  BY GoOnRun
<1>2. /\ pass[p].step = "loop" /\ pass[p].job = Reminder /\ pass' = GoOn(p, m)
      /\ UNCHANGED <<lease, mentorRow, claimed, unmailed, lost>>
  BY DEF Remind, Treating
<1>3. RunOK(p) /\ Inside(p) BY <1>2 DEF CronInv, RunOK, Inside
<1>4. pass'[p] = r => RunOK(p)'
  BY <1>1, <1>2, <1>3, JobsDiffer DEF RunOK, HasLease, Inside, HasReason, HasSwept
<1> QED BY <1>1, <1>2, <1>4, QuietMove

\* Only an active mentor is deactivated, so no claimed row is.
LEMMA DeactivateInv ==
    ASSUME CronInv, NEW p \in Pass, NEW m \in JobMentor, Deactivate(p, m)
    PROVE  CronInv'
<1>1. pass[p].step = "loop" /\ pass[p].job = Deactivation /\ UNCHANGED <<lease, claimed, lost>>
  BY DEF Deactivate, Treating
<1>2. RunOK(p) /\ Inside(p) BY <1>1 DEF CronInv, RunOK, Inside
<1>3. CASE Applies(m)
  <2> DEFINE r == [pass[p] EXCEPT !.step = "mail", !.who = m]
  <2>1. pass \in [Pass -> Run] /\ pass[p] \in Run BY DEF CronInv, CronTypeOK, Run
  <2>2. /\ mentorRow[m] = "active" /\ mentorRow' = [mentorRow EXCEPT ![m] = "inactive"]
        /\ unmailed' = [unmailed EXCEPT ![m] = @ \cup {p}]
        /\ pass' = [pass EXCEPT ![p] = r]
    BY <1>3, <2>1 DEF Deactivate, Applies, Run
  <2>3. /\ r \in Run /\ r.step = "mail" /\ r.who = m /\ r.job = pass[p].job
        /\ r.orphan = pass[p].orphan /\ r.clean = pass[p].clean
    BY <2>1 DEF Run
  <2> HIDE DEF r
  <2>4. /\ mentorRow' \in [JobMentor -> {"active", "inactive", "deleted", "overdue", "gone"}]
        /\ mentorRow'[m] = "inactive" /\ \A o \in JobMentor \ {m} : mentorRow'[o] = mentorRow[o]
    BY <2>2 DEF CronInv, CronTypeOK
  <2>5. /\ unmailed' \in [JobMentor -> SUBSET Pass] /\ p \in unmailed'[m]
        /\ \A o \in JobMentor : unmailed[o] \subseteq unmailed'[o]
    BY <2>2 DEF CronInv, CronTypeOK
  <2>6. ~pass[p].clean BY <1>1, <1>2 DEF RunOK, HasSwept
  <2>7. pass'[p] = r => RunOK(p)'
    BY <1>1, <1>2, <2>3, <2>5, <2>6, JobsDiffer DEF RunOK, HasLease, Inside, HasReason, HasSwept
  <2>8. claimed[m] = NoPass BY <2>2 DEF CronInv, ClaimsAreDue
  <2>9. \A q \in Pass \ {p}, o \in JobMentor : claimed[o] = q => mentorRow'[o] = mentorRow[o]
    BY <2>4, <2>8, CronAssumption
  <2>10. ClaimsAreDue' BY <1>1, <2>2, <2>4, <2>8 DEF CronInv, ClaimsAreDue
  <2>11. /\ \A x \in Pass \ {p}, j \in Job : lease[j] = x => lease'[j] = x
         /\ \A x \in Pass \ {p}, o \in JobMentor : claimed[o] = x =>
               claimed'[o] = x /\ mentorRow'[o] = mentorRow[o]
         /\ \A x \in Pass \ {p}, o \in JobMentor : x \in unmailed[o] => x \in unmailed'[o]
         /\ \A o \in JobMentor : mentorRow'[o] = "overdue" => mentorRow[o] = "overdue"
    BY <1>1, <2>4, <2>5, <2>9
  <2>12. /\ lease' \in [Job -> Pass \cup {NoPass}]
         /\ mentorRow' \in [JobMentor -> {"active", "inactive", "deleted", "overdue", "gone"}]
         /\ claimed' \in [JobMentor -> Pass \cup {NoPass}]
         /\ unmailed' \in [JobMentor -> SUBSET Pass] /\ lost' \in 0 .. MaxLost
    BY <1>1, <2>4, <2>5, CronTyped
  <2> QED BY <2>2, <2>3, <2>7, <2>10, <2>11, <2>12, PassMoves
<1>4. CASE ~Applies(m)
  <2>1. PICK r \in Run :
          /\ GoOn(p, m) = [pass EXCEPT ![p] = r]
          /\ r.step = "loop" /\ r.job = pass[p].job /\ r.orphan = pass[p].orphan
          /\ r.left = pass[p].left \ {m} /\ r.listed = pass[p].listed
          /\ r.failed = pass[p].failed /\ r.clean = pass[p].clean
    BY GoOnRun
  <2>2. pass' = GoOn(p, m) /\ UNCHANGED <<mentorRow, unmailed>> BY <1>4 DEF Deactivate
  <2>3. pass'[p] = r => RunOK(p)'
    BY <1>1, <1>2, <2>1, JobsDiffer DEF RunOK, HasLease, Inside, HasReason, HasSwept
  <2> QED BY <1>1, <2>1, <2>2, <2>3, QuietMove
<1> QED BY <1>3, <1>4

\* After the e-mail the loop goes on.
LEMMA MailDeactivatedInv ==
    ASSUME CronInv, NEW p \in Pass, MailDeactivated(p)
    PROVE  CronInv'
<1>1. RunOK(p) /\ pass[p].step = "mail" /\ Inside(p) BY DEF CronInv, RunOK, MailDeactivated, Inside
<1>2. PICK m \in JobMentor : m = pass[p].who BY <1>1 DEF RunOK, HasReason
<1>3. pass[p].job = Deactivation BY <1>1 DEF RunOK, HasReason
<1>4. PICK r \in Run :
          /\ GoOn(p, m) = [pass EXCEPT ![p] = r]
          /\ r.step = "loop" /\ r.job = pass[p].job /\ r.orphan = pass[p].orphan
          /\ r.left = pass[p].left \ {m} /\ r.listed = pass[p].listed
          /\ r.failed = pass[p].failed /\ r.clean = pass[p].clean
  BY GoOnRun
<1>5. /\ pass' = GoOn(p, m) /\ unmailed' = [unmailed EXCEPT ![m] = @ \ {p}]
      /\ UNCHANGED <<lease, mentorRow, claimed, lost>>
  BY <1>2 DEF MailDeactivated
<1>6. /\ unmailed' \in [JobMentor -> SUBSET Pass]
      /\ \A q \in Pass \ {p}, o \in JobMentor : q \in unmailed[o] => q \in unmailed'[o]
  BY <1>5 DEF CronInv, CronTypeOK
<1>7. pass'[p] = r => RunOK(p)'
  BY <1>1, <1>3, <1>4, <1>5, JobsDiffer DEF RunOK, HasLease, Inside, HasReason, HasSwept
<1>8. ClaimsAreDue' BY <1>5 DEF CronInv, ClaimsAreDue
<1> QED BY <1>4, <1>5, <1>6, <1>7, PassMoves, CronTyped, <1>8

\* A row is claimed while it is overdue, or passed because it is not.
LEMMA ClaimProfileInv ==
    ASSUME CronInv, NEW p \in Pass, NEW m \in JobMentor, ClaimProfile(p, m)
    PROVE  CronInv'
<1>1. /\ pass[p].step = "loop" /\ pass[p].job = Purge /\ m \in pass[p].left
      /\ claimed[m] = NoPass /\ UNCHANGED <<lease, mentorRow, unmailed, lost>>
  BY DEF ClaimProfile, Treating
<1>2. RunOK(p) /\ Inside(p) BY <1>1 DEF CronInv, RunOK, Inside
<1>3. ~pass[p].clean BY <1>1, <1>2 DEF RunOK, HasSwept
<1>4. CASE Purgeable(m)
  <2> DEFINE r == [pass[p] EXCEPT !.step = "erase", !.who = m]
  <2>1. pass \in [Pass -> Run] /\ pass[p] \in Run BY DEF CronInv, CronTypeOK, Run
  <2>2. /\ mentorRow[m] = "overdue" /\ claimed' = [claimed EXCEPT ![m] = p]
        /\ pass' = [pass EXCEPT ![p] = r]
    BY <1>4, <2>1 DEF ClaimProfile, Purgeable, Run
  <2>3. /\ r \in Run /\ r.step = "erase" /\ r.who = m /\ r.job = pass[p].job
        /\ r.orphan = pass[p].orphan /\ r.left = pass[p].left /\ r.listed = pass[p].listed
        /\ r.failed = pass[p].failed /\ r.clean = pass[p].clean
    BY <2>1 DEF Run
  <2> HIDE DEF r
  <2>4. /\ claimed' \in [JobMentor -> Pass \cup {NoPass}] /\ claimed'[m] = p
        /\ \A o \in JobMentor \ {m} : claimed'[o] = claimed[o]
    BY <2>2 DEF CronInv, CronTypeOK
  <2>5. \A q \in Pass \ {p}, o \in JobMentor : claimed[o] = q => claimed'[o] = q
    BY <1>1, <2>4, CronAssumption
  <2>6. ClaimsAreDue' BY <1>1, <2>2, <2>4 DEF CronInv, ClaimsAreDue
  <2>7. pass'[p] = r => RunOK(p)'
    <3> SUFFICES ASSUME pass'[p] = r PROVE RunOK(p)' OBVIOUS
    <3>1. HasLease(p)' BY <1>1, <1>2, <2>3 DEF RunOK, HasLease, Inside
    <3>2. HasReason(p)' BY <1>1, <2>2, <2>3, <2>4 DEF HasReason
    <3>3. HasSwept(p)' BY <1>1, <1>2, <1>3, <2>3 DEF RunOK, HasSwept
    <3> QED BY <3>1, <3>2, <3>3 DEF RunOK
  <2> QED BY <1>1, <2>2, <2>3, <2>4, <2>5, <2>6, <2>7, PassMoves, CronTyped
<1>5. CASE ~Purgeable(m)
  <2>1. PICK r \in Run :
          /\ GoOn(p, m) = [pass EXCEPT ![p] = r]
          /\ r.step = "loop" /\ r.job = pass[p].job /\ r.orphan = pass[p].orphan
          /\ r.left = pass[p].left \ {m} /\ r.listed = pass[p].listed
          /\ r.failed = pass[p].failed /\ r.clean = pass[p].clean
    BY GoOnRun
  <2>2. mentorRow[m] # "overdue" /\ pass' = GoOn(p, m) /\ UNCHANGED claimed
    BY <1>5 DEF ClaimProfile, Purgeable
  <2>3. pass'[p] = r => RunOK(p)'
    BY <1>1, <1>2, <1>3, <2>1, <2>2 DEF RunOK, HasLease, Inside, HasReason, HasSwept
  <2> QED BY <1>1, <2>1, <2>2, <2>3, QuietMove
<1> QED BY <1>4, <1>5

\* The erased row was this pass's claim and nobody else's.
LEMMA EraseProfileInv ==
    ASSUME CronInv, NEW p \in Pass, EraseProfile(p)
    PROVE  CronInv'
<1>1. RunOK(p) /\ pass[p].step = "erase" /\ Inside(p) BY DEF CronInv, RunOK, EraseProfile, Inside
<1>2. PICK m \in JobMentor : m = pass[p].who BY <1>1 DEF RunOK, HasReason
<1>3. pass[p].job = Purge /\ claimed[m] = p /\ ~pass[p].clean
  BY <1>1, <1>2 DEF RunOK, HasReason, HasSwept
<1>4. PICK r \in Run :
          /\ GoOn(p, m) = [pass EXCEPT ![p] = r]
          /\ r.step = "loop" /\ r.job = pass[p].job /\ r.orphan = pass[p].orphan
          /\ r.left = pass[p].left \ {m} /\ r.listed = pass[p].listed
          /\ r.failed = pass[p].failed /\ r.clean = pass[p].clean
  BY GoOnRun
<1>5. /\ mentorRow' = [mentorRow EXCEPT ![m] = "gone"] /\ claimed' = [claimed EXCEPT ![m] = NoPass]
      /\ pass' = GoOn(p, m) /\ UNCHANGED <<lease, unmailed, lost>>
  BY <1>2 DEF EraseProfile
<1>6. /\ mentorRow' \in [JobMentor -> {"active", "inactive", "deleted", "overdue", "gone"}]
      /\ mentorRow'[m] = "gone" /\ \A o \in JobMentor \ {m} : mentorRow'[o] = mentorRow[o]
      /\ claimed' \in [JobMentor -> Pass \cup {NoPass}]
      /\ claimed'[m] = NoPass /\ \A o \in JobMentor \ {m} : claimed'[o] = claimed[o]
  BY <1>5 DEF CronInv, CronTypeOK
<1>7. \A q \in Pass \ {p}, o \in JobMentor : claimed[o] = q =>
          claimed'[o] = q /\ mentorRow'[o] = mentorRow[o]
  BY <1>3, <1>6
<1>8. ClaimsAreDue' BY <1>6 DEF CronInv, ClaimsAreDue
<1>9. \A o \in JobMentor : mentorRow'[o] = "overdue" => mentorRow[o] = "overdue" BY <1>6
<1>10. pass'[p] = r => RunOK(p)'
  <2> SUFFICES ASSUME pass'[p] = r PROVE RunOK(p)' OBVIOUS
  <2>1. HasLease(p)' BY <1>1, <1>4, <1>5 DEF RunOK, HasLease, Inside
  <2>2. HasReason(p)' BY <1>4 DEF HasReason
  <2>3. r.listed \subseteq JobMentor BY DEF Run
  <2>4. HasSwept(p)' BY <1>1, <1>3, <1>4, <1>6, <2>3 DEF RunOK, HasSwept
  <2> QED BY <2>1, <2>2, <2>4 DEF RunOK
<1>11. /\ \A x \in Pass \ {p}, j \in Job : lease[j] = x => lease'[j] = x
       /\ \A x \in Pass \ {p}, o \in JobMentor : claimed[o] = x =>
             claimed'[o] = x /\ mentorRow'[o] = mentorRow[o]
       /\ \A x \in Pass \ {p}, o \in JobMentor : x \in unmailed[o] => x \in unmailed'[o]
       /\ \A o \in JobMentor : mentorRow'[o] = "overdue" => mentorRow[o] = "overdue"
  BY <1>5, <1>7, <1>9
<1>12. /\ lease' \in [Job -> Pass \cup {NoPass}]
       /\ mentorRow' \in [JobMentor -> {"active", "inactive", "deleted", "overdue", "gone"}]
       /\ claimed' \in [JobMentor -> Pass \cup {NoPass}]
       /\ unmailed' \in [JobMentor -> SUBSET Pass] /\ lost' \in 0 .. MaxLost
  BY <1>5, <1>6, CronTyped
<1>13. pass' = [pass EXCEPT ![p] = r] BY <1>4, <1>5
<1> QED BY <1>8, <1>10, <1>11, <1>12, <1>13, PassMoves

\* A failure is remembered until the sweep ends.
LEMMA PurgeFailsInv ==
    ASSUME CronInv, NEW p \in Pass, NEW m \in JobMentor, PurgeFails(p, m)
    PROVE  CronInv'
<1>1. /\ pass[p].step \in {"loop", "erase"}
      /\ claimed' = [claimed EXCEPT ![m] = IF claimed[m] = p THEN NoPass ELSE claimed[m]]
      /\ pass' = Failed(p, m) /\ UNCHANGED <<lease, mentorRow, unmailed, lost>>
  BY DEF PurgeFails, Treating
<1>2. RunOK(p) /\ Inside(p) BY <1>1 DEF CronInv, RunOK, Inside
<1>3. ~pass[p].clean BY <1>1, <1>2 DEF RunOK, HasSwept
<1>4. PICK q \in Run :
          /\ GoOn(p, m) = [pass EXCEPT ![p] = q]
          /\ q.step = "loop" /\ q.job = pass[p].job /\ q.orphan = pass[p].orphan
          /\ q.left = pass[p].left \ {m} /\ q.listed = pass[p].listed
          /\ q.failed = pass[p].failed /\ q.clean = pass[p].clean
  BY GoOnRun
<1> DEFINE r == [q EXCEPT !.failed = TRUE]
<1>5. /\ r \in Run /\ r.step = "loop" /\ r.job = pass[p].job /\ r.orphan = pass[p].orphan
      /\ r.failed = TRUE /\ r.clean = pass[p].clean
  BY <1>4 DEF Run
<1>6. pass' = [pass EXCEPT ![p] = r]
  <2>1. pass' = [[pass EXCEPT ![p] = q] EXCEPT ![p].failed = TRUE] BY <1>1, <1>4 DEF Failed
  <2>2. pass \in [Pass -> Run] BY DEF CronInv, CronTypeOK, Run
  <2> QED BY <2>1, <2>2
<1> HIDE DEF r
<1>7. /\ claimed' \in [JobMentor -> Pass \cup {NoPass}]
      /\ \A x \in Pass \ {p}, o \in JobMentor : claimed[o] = x => claimed'[o] = x
      /\ \A o \in JobMentor : claimed'[o] \in {claimed[o], NoPass}
  BY <1>1 DEF CronInv, CronTypeOK
<1>8. ClaimsAreDue' BY <1>1, <1>7 DEF CronInv, ClaimsAreDue
<1>9. pass'[p] = r => RunOK(p)'
  BY <1>1, <1>2, <1>3, <1>5 DEF RunOK, HasLease, Inside, HasReason, HasSwept
<1>10. /\ \A x \in Pass \ {p}, j \in Job : lease[j] = x => lease'[j] = x
       /\ \A x \in Pass \ {p}, o \in JobMentor : claimed[o] = x =>
             claimed'[o] = x /\ mentorRow'[o] = mentorRow[o]
       /\ \A x \in Pass \ {p}, o \in JobMentor : x \in unmailed[o] => x \in unmailed'[o]
       /\ \A o \in JobMentor : mentorRow'[o] = "overdue" => mentorRow[o] = "overdue"
  BY <1>1, <1>7
<1>11. /\ lease' \in [Job -> Pass \cup {NoPass}]
       /\ mentorRow' \in [JobMentor -> {"active", "inactive", "deleted", "overdue", "gone"}]
       /\ claimed' \in [JobMentor -> Pass \cup {NoPass}]
       /\ unmailed' \in [JobMentor -> SUBSET Pass] /\ lost' \in 0 .. MaxLost
  BY <1>1, <1>7, CronTyped
<1> QED BY <1>5, <1>6, <1>8, <1>9, <1>10, <1>11, PassMoves

\* What people and time do leaves claimed rows and listed ones alone.
LEMMA MoveRowInv ==
    ASSUME CronInv, NEW m \in JobMentor, NEW to \in {"active", "inactive", "deleted", "overdue"},
           MoveRow(m, to)
    PROVE  CronInv'
<1>1. /\ claimed[m] = NoPass
      /\ to = "overdue" => \A p \in Pass : m \notin pass[p].listed
      /\ mentorRow' = [mentorRow EXCEPT ![m] = to] /\ UNCHANGED <<lease, pass, claimed, unmailed, lost>>
  BY DEF MoveRow
<1>2. /\ mentorRow' \in [JobMentor -> {"active", "inactive", "deleted", "overdue", "gone"}]
      /\ mentorRow'[m] = to /\ \A o \in JobMentor \ {m} : mentorRow'[o] = mentorRow[o]
  BY <1>1 DEF CronInv, CronTypeOK
<1>3. CronTypeOK' BY <1>1, <1>2 DEF CronInv, CronTypeOK
<1>4. ClaimsAreDue' BY <1>1, <1>2 DEF CronInv, ClaimsAreDue
<1>5. ASSUME NEW p \in Pass PROVE RunOK(p)'
  <2>1. pass[p] \in Run BY DEF CronInv, CronTypeOK, Run
  <2>2. \A o \in JobMentor : claimed[o] = p => o # m BY <1>1, CronAssumption
  <2>3. Spares(p) BY <1>1, <1>2, <2>2 DEF Spares
  <2> QED BY <2>1, <2>3, SparedStands DEF CronInv, RunOK
<1> QED BY <1>3, <1>4, <1>5 DEF CronInv, RunOK

-----------------------------------------------------------------------------
(* The invariant holds.                                                    *)

\* The first states are in the invariant.
LEMMA CronInitInv == CronInit => CronInv
<1> SUFFICES ASSUME CronInit PROVE CronInv OBVIOUS
<1>1. NoRun \in Run BY DEF NoRun, Run
<1>2. CronTypeOK BY <1>1, CronAssumption DEF CronInit, CronTypeOK, Run
<1>3. \A p \in Pass : HasLease(p) /\ HasReason(p) /\ HasSwept(p)
  BY DEF CronInit, NoRun, HasLease, Inside, HasReason, HasSwept
<1> QED BY <1>2, <1>3 DEF CronInv, ClaimsAreDue, CronInit

\* Every step stays in the invariant.
LEMMA CronNextInv == CronInv /\ [CronNext]_cronVars => CronInv'
<1> SUFFICES ASSUME CronInv, [CronNext]_cronVars PROVE CronInv' OBVIOUS
<1>1. CASE UNCHANGED cronVars
  BY <1>1 DEF cronVars, CronInv, CronTypeOK, ClaimsAreDue, HasLease, Inside, HasReason, HasSwept
<1>2. ASSUME NEW p \in Pass, PassStep(p) PROVE CronInv'
  <2>1. CASE ReleaseLease(p)
    <3>1. EndPass({p}) /\ UNCHANGED <<mentorRow, lost>> BY <2>1 DEF ReleaseLease
    <3> QED BY <3>1, PassesEnd
  <2> QED BY <1>2, <2>1, AcquireJobLeaseInv, SkipPassInv, LoseLeaseInv, AbortPassInv,
             ListMentorsInv, EndLoopInv, MailDeactivatedInv, EraseProfileInv, RemindInv,
             DeactivateInv, ClaimProfileInv, PurgeFailsInv DEF PassStep
<1>3. ASSUME NEW proc \in Process, KillProcess(proc) PROVE CronInv'
  <2>1. PICK ps \in SUBSET Pass : ps = {p \in Pass : pass[p].in = proc} OBVIOUS
  <2>2. EndPass(ps) /\ UNCHANGED <<mentorRow, lost>> BY <1>3, <2>1 DEF KillProcess
  <2> QED BY <2>2, PassesEnd
<1> QED BY <1>1, <1>2, <1>3, StartPassInv, MoveRowInv DEF CronNext

\* The invariant holds throughout.
LEMMA CronInvariant == CronSpec => []CronInv
BY CronInitInv, CronNextInv, PTL DEF CronSpec

-----------------------------------------------------------------------------
(* The properties.                                                         *)

\* Two passes of a job run side by side only if one has lost its connection.
THEOREM PassesTakeTurns == CronSpec => []OnePassPerJob
<1>1. CronInv => OnePassPerJob BY CronAssumption DEF CronInv, HasLease, OnePassPerJob
<1> QED BY <1>1, CronInvariant, PTL

\* The pass that tells a mentor of a deactivation is the one that made it.
THEOREM NoticesAreDue == CronSpec => []NoticeIsDue
<1>1. CronInv => NoticeIsDue BY DEF CronInv, HasReason, NoticeIsDue
<1> QED BY <1>1, CronInvariant, PTL

\* A sweep reported as fresh has left nothing overdue of what it listed.
THEOREM FreshnessIsEarned == CronSpec => []FreshMeansSwept
<1>1. CronInv => FreshMeansSwept
  <2> SUFFICES ASSUME CronInv, NEW p \in Pass, pass[p].clean, NEW m \in pass[p].listed
               PROVE  mentorRow[m] # "overdue"
    BY DEF FreshMeansSwept
  <2>1. HasSwept(p) BY DEF CronInv
  <2> QED BY <2>1 DEF HasSwept
<1> QED BY <1>1, CronInvariant, PTL

\* What a sweep erases is overdue when it is erased: a profile restored after
\* the listing is not.
THEOREM PurgeIsDue == CronSpec => []PurgeSparesRestored
<1>1. CronInv => PurgeSparesRestored BY DEF CronInv, HasReason, PurgeSparesRestored
<1> QED BY <1>1, CronInvariant, PTL
=================================================================================
