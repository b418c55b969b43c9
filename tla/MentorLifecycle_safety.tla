------------------------- MODULE MentorLifecycle_safety ------------------------
(***************************************************************************)
(* Type correctness of MentorLifecycle, the safety properties that concern *)
(* one row at a time, and the refinement of MentorProfile, for any number  *)
(* of mentors, workers and callers and any bounds.                         *)
(*                                                                         *)
(* The safety properties rest on one lemma, Effects: a step changes at     *)
(* most one row, and it changes it in one of eight ways.  Each property is *)
(* then a matter of eight cases, whoever the actor was.  NobodyForgotten   *)
(* needs more of a row than the eight ways tell, and has its own invariant,*)
(* and so have the two theorems that say where the code leaves its own     *)
(* rules: only by a restore, and only by the release of a duplicate.  The  *)
(* last part counts: a registration that the cron gives up without having  *)
(* reached it has cost the platform a fault for every replay day.          *)
(***************************************************************************)
EXTENDS MentorLifecycle, TLAPS

(* Types.                                                                   *)

\* A row without a registration has the type of a row.
LEMMA NoRowType == NoRow \in Row
BY LifecycleAssumption DEF NoRow, Row, Status, Window, NoToken, Old

\* Idle is no run, and a run is told from it by its program counter.
LEMMA RunIsNotIdle ==
    \A j \in Run \cup {Idle} : j.pc # "idle" => j \in Run /\ j # Idle
BY DEF Run, Idle

\* Writing one well-typed row keeps the table well-typed.
LEMMA SetRowType ==
    ASSUME TypeOK, NEW m \in Mentor, NEW r \in Row, SetRow(m, r)
    PROVE  row' \in [Mentor -> Row]
BY DEF TypeOK, SetRow

\* The initial state has the types of TypeOK.
LEMMA InitType == Init => TypeOK
BY NoRowType DEF Init, TypeOK, NoCall

\* Every step of a finalization run keeps the types.
LEMMA WorkerType ==
    ASSUME TypeOK, NEW w \in Worker, WorkerStep(w)
    PROVE  TypeOK'
<1> USE DEF TypeOK
<1>1. ASSUME NEW m \in Mentor, HandleTrigger(w, m) \/ ReplayStuck(w, m)
      PROVE  TypeOK'
  <2>1. NewRun(m) \in Run BY DEF NewRun, Run, NoToken
  <2> QED BY <1>1, <2>1 DEF HandleTrigger, ReplayStuck
<1>2. CASE ReadMentor(w)
  <2>1. job[w] \in Run BY <1>2, RunIsNotIdle DEF ReadMentor
  <2>2. row[job[w].m].token \in Nat BY <2>1 DEF Run, Row
  <2> QED BY <1>2, <2>1, <2>2 DEF ReadMentor, EndRun, Run
<1>3. CASE CountDuplicates(w)
  <2>1. job[w] \in Run BY <1>3, RunIsNotIdle DEF CountDuplicates
  <2> QED BY <1>3, <2>1 DEF CountDuplicates, Run, EmailFree
<1>4. CASE ClaimRow(w)
  <2> DEFINE m == job[w].m
             fresh == IF job[w].dup THEN NoToken ELSE minted[m] + 1
  <2>1. job[w] \in Run BY <1>4, RunIsNotIdle DEF ClaimRow
  <2>2. m \in Mentor /\ fresh \in Nat BY <2>1 DEF Run, NoToken
  <2>3. ClaimedRow(w, row[m], fresh) \in Row
    <3>1. row[m] \in Row BY <2>2
    <3>2. [row[m] EXCEPT !.status = "declined", !.sort = {w},
                         !.token = NoToken, !.window = "none"] \in Row
      BY <3>1 DEF Row, Status, Window, NoToken
    <3>3. [row[m] EXCEPT !.sort = {w}, !.token = fresh, !.window = "open"] \in Row
      <4> HIDE DEF fresh
      <4> QED BY <3>1, <2>2 DEF Row, Window
    <3> QED BY <3>2, <3>3 DEF ClaimedRow
  <2>4. row' \in [Mentor -> Row] BY <1>4, <2>2, <2>3, SetRowType DEF ClaimRow
  <2>5. minted' \in [Mentor -> Nat] BY <1>4, <2>2 DEF ClaimRow
  <2>6. job' \in [Worker -> Run \cup {Idle}] BY <1>4, <2>1, <2>2 DEF ClaimRow, Run
  <2> QED BY <1>4, <2>4, <2>5, <2>6 DEF ClaimRow
<1>5. CASE LoseClaim(w) \/ Crash(w)
  BY <1>5 DEF LoseClaim, Crash, EndRun
<1>6. CASE SendOk(w) \/ SendFails(w)
  <2>1. job[w] \in Run BY <1>6, RunIsNotIdle DEF SendOk, SendFails
  <2>2. Delivered(w) \subseteq Mentor \X Nat BY <2>1 DEF Delivered, Run
  <2>3. job' \in [Worker -> Run \cup {Idle}]
    BY <1>6, <2>1 DEF SendOk, SendFails, EndRun, Run
  <2>4. inbox' \subseteq Mentor \X Nat BY <1>6, <2>2 DEF SendOk, SendFails
  <2>5. faults' \in Nat BY <1>6 DEF SendOk, SendFails
  <2> QED BY <1>6, <2>3, <2>4, <2>5 DEF SendOk, SendFails
<1>7. CASE Release(w)
  <2>1. job[w] \in Run BY <1>7, RunIsNotIdle DEF Release
  <2>2. job[w].m \in Mentor BY <2>1 DEF Run
  <2>3. [row[job[w].m] EXCEPT !.status = "draft", !.sort = {},
                              !.token = NoToken, !.window = "none"] \in Row
    <3>1. row[job[w].m] \in Row BY <2>2
    <3> QED BY <3>1 DEF Row, Status, Window, NoToken
  <2>4. row' \in [Mentor -> Row] BY <1>7, <2>2, <2>3, SetRowType DEF Release
  <2> QED BY <1>7, <2>4 DEF Release, EndRun
<1> QED BY <1>1, <1>2, <1>3, <1>4, <1>5, <1>6, <1>7 DEF WorkerStep

\* Every step of a request keeps the types.
LEMMA CallerType ==
    ASSUME TypeOK, NEW c \in Caller, CallerStep(c)
    PROVE  TypeOK'
<1> USE DEF TypeOK
<1>1. ASSUME NEW m \in Mentor, NEW op \in Op, Begin(c, op, m)
      PROVE  TypeOK'
  <2>1. [op |-> op, m |-> m] \in Call BY DEF Call
  <2> QED BY <1>1, <2>1 DEF Begin
<1>2. ASSUME NEW m \in Mentor,
             BeginModeration(c, m) \/ BeginReturn(c, m)
                 \/ BeginToggle(c, m) \/ BeginSubmit(c, m)
      PROVE  TypeOK'
  <2>1. \E op \in Op : Begin(c, op, m)
    BY <1>2 DEF BeginModeration, BeginReturn, BeginToggle, BeginSubmit, Op
  <2> QED BY <1>1, <2>1
<1>3. ASSUME NEW guard, NEW r \in Row, call[c].m \in Mentor, Finish(c, guard, r)
      PROVE  TypeOK'
  <2>1. row' \in [Mentor -> Row] BY <1>3, SetRowType DEF Finish
  <2> QED BY <1>3, <2>1 DEF Finish
<1>4. ASSUME call[c] # NoCall
      PROVE  call[c].m \in Mentor /\ row[call[c].m] \in Row
  BY <1>4 DEF Call
<1>5. ASSUME NEW s \in Status, SetMentorStatus(c, s), call[c] # NoCall
      PROVE  TypeOK'
  <2>1. [row[call[c].m] EXCEPT !.status = s] \in Row BY <1>4, <1>5 DEF Row
  <2> QED BY <1>3, <1>4, <1>5, <2>1 DEF SetMentorStatus
<1>6. CASE ApproveMentor(c)
  <2>1. call[c] # NoCall BY <1>6 DEF ApproveMentor, NoCall
  <2>2. [row[call[c].m] EXCEPT !.status = "active", !.activated = TRUE,
                               !.note = FALSE] \in Row
    BY <1>4, <2>1 DEF Row, Status
  <2> QED BY <1>3, <1>4, <1>6, <2>1, <2>2 DEF ApproveMentor
<1>7. CASE ReturnMentor(c)
  <2>1. call[c] # NoCall BY <1>7 DEF ReturnMentor, NoCall
  <2>2. [row[call[c].m] EXCEPT !.status = "draft", !.note = TRUE] \in Row
    BY <1>4, <2>1 DEF Row, Status
  <2> QED BY <1>3, <1>4, <1>7, <2>1, <2>2 DEF ReturnMentor
<1>8. CASE DeclineMentor(c) \/ ToggleProfile(c) \/ SubmitProfile(c)
  <2>1. call[c] # NoCall
    BY <1>8 DEF DeclineMentor, ToggleProfile, SubmitProfile, NoCall
  <2>2. \E s \in Status : SetMentorStatus(c, s)
    BY <1>8 DEF DeclineMentor, ToggleProfile, SubmitProfile, Status
  <2> QED BY <1>5, <2>1, <2>2
<1> QED BY <1>2, <1>6, <1>7, <1>8 DEF CallerStep

\* Every other step about one mentor keeps the types.
LEMMA MentorType ==
    ASSUME TypeOK, NEW m \in Mentor, MentorStep(m)
    PROVE  TypeOK'
<1> USE DEF TypeOK
<1>r. row[m] \in Row OBVIOUS
<1>1. CASE Register(m)
  <2>1. [NoRow EXCEPT !.status = "draft"] \in Row
    BY NoRowType DEF Row, Status
  <2> QED BY <1>1, <2>1, SetRowType DEF Register
<1>2. CASE DropTrigger(m) BY <1>2 DEF DropTrigger
<1>3. CASE GrowOlder(m)
  <2> DEFINE a == row[m].age + 1
             v == IF row[m].window = "open" /\ row[m].age > 0
                  THEN "ending" ELSE row[m].window
  <2>1. a \in 0 .. Old
    BY <1>3, <1>r, LifecycleAssumption DEF GrowOlder, Row, Old
  <2>2. v \in Window BY <1>r DEF Row, Window
  <2>3. GrowOlder(m) => SetRow(m, [row[m] EXCEPT !.age = a, !.window = v])
    BY DEF GrowOlder
  <2>4. [row[m] EXCEPT !.age = a, !.window = v] \in Row
    <3> HIDE DEF a, v
    <3> QED BY <1>r, <2>1, <2>2 DEF Row
  <2> QED BY <1>3, <2>3, <2>4, SetRowType DEF GrowOlder
<1>4. CASE WindowCloses(m)
  <2>1. [row[m] EXCEPT !.window = "closed"] \in Row BY <1>r DEF Row, Window
  <2> QED BY <1>4, <2>1, SetRowType DEF WindowCloses
<1>5. CASE ConfirmEmail(m)
  <2>1. [row[m] EXCEPT !.status = "pending", !.token = NoToken,
                       !.window = "none"] \in Row
    BY <1>r DEF Row, Status, Window, NoToken
  <2> QED BY <1>5, <2>1, SetRowType DEF ConfirmEmail
<1>6. CASE ResendConfirmation(m)
  <2>1. [row[m] EXCEPT !.token = minted[m] + 1, !.window = "open"] \in Row
    <3>1. minted[m] + 1 \in Nat OBVIOUS
    <3>2. \A t \in Nat : [row[m] EXCEPT !.token = t, !.window = "open"] \in Row
      BY <1>r DEF Row, Window
    <3> QED BY <3>1, <3>2
  <2>2. links' \subseteq Mentor \X Nat BY <1>6 DEF ResendConfirmation
  <2> QED BY <1>6, <2>1, <2>2, SetRowType DEF ResendConfirmation
<1>7. CASE DeactivateMentor(m)
  <2>1. [row[m] EXCEPT !.status = "inactive"] \in Row BY <1>r DEF Row, Status
  <2> QED BY <1>7, <2>1, SetRowType DEF DeactivateMentor
<1>8. CASE SoftDeleteMentor(m)
  <2>1. [row[m] EXCEPT !.status = "inactive", !.deleted = "recent"] \in Row
    BY <1>r DEF Row, Status
  <2> QED BY <1>8, <2>1, SetRowType DEF SoftDeleteMentor
<1>9. CASE RestoreMentor(m)
  <2>1. [row[m] EXCEPT !.status = "inactive", !.deleted = "no"] \in Row
    BY <1>r DEF Row, Status
  <2> QED BY <1>9, <2>1, SetRowType DEF RestoreMentor
<1>10. CASE RetentionElapses(m)
  <2>1. [row[m] EXCEPT !.deleted = "past"] \in Row BY <1>r DEF Row
  <2> QED BY <1>10, <2>1, SetRowType DEF RetentionElapses
<1>11. CASE PurgeProfile(m)
  <2>1. [NoRow EXCEPT !.status = "purged"] \in Row BY NoRowType DEF Row
  <2>2. row' \in [Mentor -> Row] BY <1>11, <2>1, SetRowType DEF PurgeProfile
  <2> QED BY <1>11, <2>2 DEF PurgeProfile
<1> QED BY <1>1, <1>2, <1>3, <1>4, <1>5, <1>6, <1>7, <1>8, <1>9, <1>10, <1>11
        DEF MentorStep

\* Every step keeps the types.
LEMMA NextType == TypeOK /\ [Next]_vars => TypeOK'
<1> SUFFICES ASSUME TypeOK, [Next]_vars PROVE TypeOK' OBVIOUS
<1>1. ASSUME NEW l \in links, DeliverLink(l) \/ LoseLink(l) PROVE TypeOK'
  BY <1>1 DEF TypeOK, DeliverLink, LoseLink
<1>2. CASE ListPurgeableProfiles BY <1>2 DEF TypeOK, ListPurgeableProfiles
<1>3. CASE UNCHANGED vars BY <1>3 DEF TypeOK, vars
<1> QED BY <1>1, <1>2, <1>3, WorkerType, CallerType, MentorType DEF Next

\* Every reachable state has the types of TypeOK.
THEOREM TypeCorrect == Spec => []TypeOK
BY InitType, NextType, PTL DEF Spec
--------------------------------------------------------------------------------
\* r2 has the columns of r1 that deletion, approval and the e-mail link set.
Same(r1, r2) ==
    /\ r2.deleted = r1.deleted /\ r2.activated = r1.activated
    /\ r2.note = r1.note

Applied(r1, r2) ==
    r1.status = "absent" /\ r2 = [NoRow EXCEPT !.status = "draft"]

\* The claim, its release, the link and its resend, the deactivation cron.
Advanced(r1, r2) ==
    /\ Same(r1, r2)
    /\ r1.status \in {"draft", "declined", "active"}
    /\ r2.status \in Status

Aged(r1, r2) ==
    Same(r1, r2) /\ r2.status = r1.status /\ r2.token = r1.token

\* A request of a portal.
Moderated(r1, r2) ==
    /\ r1.status \in Status /\ r1.deleted = "no"
    /\ r2.status \in Status /\ r2.deleted = "no" /\ r2.token = r1.token
    /\ \/ r2.activated = r1.activated /\ r2.note = r1.note
       \/ r2.activated /\ ~r2.note
       \/ ~r1.activated /\ ~r2.activated

SoftDeleted(r1, r2) ==
    /\ r1.status \in Status /\ r1.deleted = "no"
    /\ r2 = [r1 EXCEPT !.status = "inactive", !.deleted = "recent"]

Restored(r1, r2) ==
    /\ r1.status \in Status /\ r1.deleted # "no"
    /\ r2 = [r1 EXCEPT !.status = "inactive", !.deleted = "no"]

Expired(r1, r2) ==
    /\ r1.status \in Status /\ r1.deleted = "recent"
    /\ r2 = [r1 EXCEPT !.deleted = "past"]

Purged(r1, r2) ==
    /\ r1.status \in Status /\ r1.deleted = "past"
    /\ r2 = [NoRow EXCEPT !.status = "purged"]

Effect(r1, r2) ==
    \/ Applied(r1, r2) \/ Advanced(r1, r2) \/ Aged(r1, r2) \/ Moderated(r1, r2)
    \/ SoftDeleted(r1, r2) \/ Restored(r1, r2) \/ Expired(r1, r2) \/ Purged(r1, r2)

\* Only m's row changed, and it changed in one of the eight ways.
Changed(m) ==
    /\ Effect(row[m], row'[m])
    /\ \A n \in Mentor \ {m} : row'[n] = row[n]
--------------------------------------------------------------------------------
\* What it takes to show Changed.
LEMMA SetRowChanges ==
    ASSUME TypeOK, NEW m \in Mentor, NEW r, SetRow(m, r), Effect(row[m], r)
    PROVE  Changed(m)
BY DEF TypeOK, SetRow, Changed

\* The steps of a finalization run.
LEMMA WorkerEffect ==
    ASSUME TypeOK, NEW w \in Worker, WorkerStep(w), row' # row
    PROVE  \E m \in Mentor : Changed(m)
<1> USE DEF TypeOK
<1> DEFINE m == job[w].m
<1>1. CASE ClaimRow(w)
  <2>1. job[w] \in Run BY <1>1, RunIsNotIdle DEF ClaimRow
  <2>2. m \in Mentor /\ row[m] \in Row BY <2>1 DEF Run
  <2>3. PICK fresh : SetRow(m, ClaimedRow(w, row[m], fresh)) BY <1>1 DEF ClaimRow
  <2>4. row[m].status = "draft" BY <1>1 DEF ClaimRow, Claimable
  <2>5. Advanced(row[m], ClaimedRow(w, row[m], fresh))
    BY <2>2, <2>4 DEF Advanced, Same, ClaimedRow, Row, Status
  <2> QED BY <2>2, <2>3, <2>5, SetRowChanges DEF Effect
<1>2. CASE Release(w)
  <2>1. job[w] \in Run BY <1>2, RunIsNotIdle DEF Release
  <2>2. m \in Mentor /\ row[m] \in Row BY <2>1 DEF Run
  <2> DEFINE r == [row[m] EXCEPT !.status = "draft", !.sort = {},
                                 !.token = NoToken, !.window = "none"]
  <2>3. SetRow(m, r) /\ row[m].status \in {"draft", "declined"}
    BY <1>2 DEF Release
  <2>4. Advanced(row[m], r) BY <2>2, <2>3 DEF Advanced, Same, Row, Status
  <2> QED BY <2>2, <2>3, <2>4, SetRowChanges DEF Effect
<1> QED
  BY <1>1, <1>2 DEF WorkerStep, HandleTrigger, ReplayStuck, ReadMentor,
     CountDuplicates, LoseClaim, SendOk, SendFails, Crash

\* The steps of a request.
LEMMA CallerEffect ==
    ASSUME TypeOK, NEW c \in Caller, CallerStep(c), row' # row
    PROVE  \E m \in Mentor : Changed(m)
<1> USE DEF TypeOK
<1> DEFINE m == call[c].m
<1>1. ASSUME call[c] # NoCall
      PROVE  m \in Mentor /\ row[m] \in Row
  BY <1>1 DEF Call
<1>2. ASSUME NEW s \in Status, SetMentorStatus(c, s), call[c] # NoCall
      PROVE  Changed(m)
  <2>1. SetRow(m, [row[m] EXCEPT !.status = s]) /\ Live(m)
    BY <1>2 DEF SetMentorStatus, Finish
  <2>2. Moderated(row[m], [row[m] EXCEPT !.status = s])
    BY <1>1, <1>2, <2>1 DEF Moderated, Live, Exists, Row
  <2> QED BY <1>1, <1>2, <2>1, <2>2, SetRowChanges DEF Effect
<1>3. CASE ApproveMentor(c)
  <2>1. call[c] # NoCall BY <1>3 DEF ApproveMentor, NoCall
  <2> DEFINE r == [row[m] EXCEPT !.status = "active", !.activated = TRUE,
                                 !.note = FALSE]
  <2>2. SetRow(m, r) /\ Live(m) BY <1>3 DEF ApproveMentor, Finish
  <2>3. Moderated(row[m], r)
    BY <1>1, <2>1, <2>2 DEF Moderated, Live, Exists, Row, Status
  <2> QED BY <1>1, <2>1, <2>2, <2>3, SetRowChanges DEF Effect
<1>4. CASE ReturnMentor(c)
  <2>1. call[c] # NoCall BY <1>4 DEF ReturnMentor, NoCall
  <2> DEFINE r == [row[m] EXCEPT !.status = "draft", !.note = TRUE]
  <2>2. SetRow(m, r) /\ Live(m) /\ ~row[m].activated
    BY <1>4 DEF ReturnMentor, Finish
  <2>3. Moderated(row[m], r)
    BY <1>1, <2>1, <2>2 DEF Moderated, Live, Exists, Row, Status
  <2> QED BY <1>1, <2>1, <2>2, <2>3, SetRowChanges DEF Effect
<1>5. CASE DeclineMentor(c) \/ ToggleProfile(c) \/ SubmitProfile(c)
  <2>1. call[c] # NoCall
    BY <1>5 DEF DeclineMentor, ToggleProfile, SubmitProfile, NoCall
  <2>2. \E s \in Status : SetMentorStatus(c, s)
    BY <1>5 DEF DeclineMentor, ToggleProfile, SubmitProfile, Status
  <2> QED BY <1>1, <1>2, <2>1, <2>2
<1> QED
  BY <1>3, <1>4, <1>5 DEF CallerStep, BeginModeration, BeginReturn, BeginToggle,
     BeginSubmit, Begin

\* The other steps about one mentor.
LEMMA MentorEffect ==
    ASSUME TypeOK, NEW m \in Mentor, MentorStep(m), row' # row
    PROVE  Changed(m)
<1> USE DEF TypeOK
<1>r. row[m] \in Row OBVIOUS
<1>1. CASE Register(m)
  BY <1>1, SetRowChanges DEF Register, Effect, Applied
<1>2. CASE GrowOlder(m)
  <2> DEFINE r == [row[m] EXCEPT !.age = row[m].age + 1, !.window =
             IF row[m].window = "open" /\ row[m].age > 0
             THEN "ending" ELSE row[m].window]
  <2>1. SetRow(m, r) BY <1>2 DEF GrowOlder
  <2>2. Aged(row[m], r) BY <1>r DEF Aged, Same, Row
  <2> QED BY <2>1, <2>2, SetRowChanges DEF Effect
<1>3. CASE WindowCloses(m)
  <2>1. Aged(row[m], [row[m] EXCEPT !.window = "closed"])
    BY <1>r DEF Aged, Same, Row
  <2> QED BY <1>3, <2>1, SetRowChanges DEF WindowCloses, Effect
<1>4. CASE ConfirmEmail(m)
  <2> DEFINE r == [row[m] EXCEPT !.status = "pending", !.token = NoToken,
                                 !.window = "none"]
  <2>1. SetRow(m, r) /\ row[m].status = "draft" BY <1>4 DEF ConfirmEmail
  <2>2. Advanced(row[m], r) BY <1>r, <2>1 DEF Advanced, Same, Row, Status
  <2> QED BY <2>1, <2>2, SetRowChanges DEF Effect
<1>5. CASE ResendConfirmation(m)
  <2> DEFINE r == [row[m] EXCEPT !.token = minted[m] + 1, !.window = "open"]
  <2>1. SetRow(m, r) /\ row[m].status = "draft" BY <1>5 DEF ResendConfirmation
  <2>2. Advanced(row[m], r) BY <1>r, <2>1 DEF Advanced, Same, Row, Status
  <2> QED BY <2>1, <2>2, SetRowChanges DEF Effect
<1>6. CASE DeactivateMentor(m)
  <2> DEFINE r == [row[m] EXCEPT !.status = "inactive"]
  <2>1. SetRow(m, r) /\ row[m].status = "active" BY <1>6 DEF DeactivateMentor
  <2>2. Advanced(row[m], r) BY <1>r, <2>1 DEF Advanced, Same, Row, Status
  <2> QED BY <2>1, <2>2, SetRowChanges DEF Effect
<1>7. CASE SoftDeleteMentor(m)
  BY <1>7, SetRowChanges DEF SoftDeleteMentor, Live, Exists, Effect, SoftDeleted
<1>8. CASE RestoreMentor(m)
  BY <1>8, SetRowChanges DEF RestoreMentor, Exists, Effect, Restored
<1>9. CASE RetentionElapses(m)
  BY <1>9, SetRowChanges DEF RetentionElapses, Exists, Effect, Expired
<1>10. CASE PurgeProfile(m)
  BY <1>10, SetRowChanges DEF PurgeProfile, Exists, Effect, Purged
<1> QED
  BY <1>1, <1>2, <1>3, <1>4, <1>5, <1>6, <1>7, <1>8, <1>9, <1>10
  DEF MentorStep, DropTrigger

\* A step leaves the table alone or changes one row in one of the eight ways.
LEMMA Effects ==
    TypeOK /\ [Next]_vars => row' = row \/ \E m \in Mentor : Changed(m)
BY WorkerEffect, CallerEffect, MentorEffect
   DEF Next, vars, DeliverLink, LoseLink, ListPurgeableProfiles
--------------------------------------------------------------------------------
\* An effect keeps a deleted row's status 'inactive'.
LEMMA EffectHides ==
    ASSUME NEW r1 \in Row, NEW r2 \in Row, Effect(r1, r2),
           r1.deleted # "no" => r1.status = "inactive"
    PROVE  r2.deleted # "no" => r2.status = "inactive"
BY DEF Effect, Applied, Advanced, Aged, Moderated, SoftDeleted, Restored, Expired,
       Purged, Same, NoRow, Row

\* DeletedIsHidden is inductive.
LEMMA HiddenStep == TypeOK /\ DeletedIsHidden /\ [Next]_vars => DeletedIsHidden'
<1> SUFFICES ASSUME TypeOK, DeletedIsHidden, [Next]_vars, NEW n \in Mentor
             PROVE  (row[n].deleted # "no" => row[n].status = "inactive")'
  BY DEF DeletedIsHidden
<1>1. row[n] \in Row /\ row'[n] \in Row BY NextType DEF TypeOK
<1>2. row'[n] = row[n] \/ Effect(row[n], row'[n]) BY Effects DEF Changed
<1> QED BY <1>1, <1>2, EffectHides DEF DeletedIsHidden

\* A deleted profile is hidden, whoever was in the middle of moderating, toggling,
\* submitting or finalizing it.
THEOREM DeletedStaysHidden == Spec => []DeletedIsHidden
<1>1. Init => DeletedIsHidden BY DEF Init, DeletedIsHidden, NoRow
<1> QED BY <1>1, TypeCorrect, HiddenStep, PTL DEF Spec

\* An effect keeps an approved row free of notes.
LEMMA EffectKeepsNoNote ==
    ASSUME NEW r1 \in Row, NEW r2 \in Row, Effect(r1, r2), r1.activated => ~r1.note
    PROVE  r2.activated => ~r2.note
BY DEF Effect, Applied, Advanced, Aged, Moderated, SoftDeleted, Restored, Expired,
       Purged, Same, NoRow, Row

\* A profile that was ever approved carries no reviewer's note, also when approval
\* and return race.
THEOREM ApprovedNeverNoted == Spec => []ApprovedHasNoNote
<1>1. Init => ApprovedHasNoNote BY DEF Init, ApprovedHasNoNote, NoRow
<1>2. TypeOK /\ ApprovedHasNoNote /\ [Next]_vars => ApprovedHasNoNote'
  <2> SUFFICES ASSUME TypeOK, ApprovedHasNoNote, [Next]_vars, NEW n \in Mentor
               PROVE  (row[n].activated => ~row[n].note)'
    BY DEF ApprovedHasNoNote
  <2>1. row[n] \in Row /\ row'[n] \in Row BY NextType DEF TypeOK
  <2>2. row'[n] = row[n] \/ Effect(row[n], row'[n]) BY Effects DEF Changed
  <2> QED BY <2>1, <2>2, EffectKeepsNoNote DEF ApprovedHasNoNote
<1> QED BY <1>1, <1>2, TypeCorrect, PTL DEF Spec

\* An effect on a row that is deleted before and after leaves it alone.
LEMMA EffectIsInert ==
    ASSUME NEW r1 \in Row, NEW r2 \in Row, Effect(r1, r2),
           r1.deleted # "no" => r1.status = "inactive",
           r1.deleted # "no", r2.deleted # "no"
    PROVE  /\ r2.status = r1.status /\ r2.activated = r1.activated
           /\ r2.note = r1.note /\ r2.token = r1.token
BY DEF Effect, Applied, Advanced, Aged, Moderated, SoftDeleted, Restored, Expired,
       Purged, Same, NoRow, Row

\* While a profile is deleted only a restore or the purge touches what it was.
THEOREM DeletedStaysInert == Spec => DeletedIsInert
<1> DEFINE Inert(m) ==
      row[m].deleted # "no" /\ row'[m].deleted # "no" =>
        /\ row'[m].status = row[m].status
        /\ row'[m].activated = row[m].activated
        /\ row'[m].note = row[m].note
        /\ row'[m].token = row[m].token
<1>1. TypeOK /\ DeletedIsHidden /\ [Next]_vars => [\A m \in Mentor : Inert(m)]_vars
  <2> SUFFICES ASSUME TypeOK, DeletedIsHidden, [Next]_vars, NEW m \in Mentor
               PROVE  Inert(m)
    OBVIOUS
  <2>1. row[m] \in Row /\ row'[m] \in Row BY NextType DEF TypeOK
  <2>2. row'[m] = row[m] \/ Effect(row[m], row'[m]) BY Effects DEF Changed
  <2> QED BY <2>1, <2>2, EffectIsInert DEF DeletedIsHidden
<1> QED BY <1>1, TypeCorrect, DeletedStaysHidden, PTL DEF Spec, DeletedIsInert
--------------------------------------------------------------------------------
(* The refinement of MentorProfile.                                         *)

\* Where an effect takes a row that keeps DeletedIsHidden.
LEMMA EffectMoves ==
    ASSUME NEW r1 \in Row, NEW r2 \in Row, Effect(r1, r2),
           r1.deleted # "no" => r1.status = "inactive"
    PROVE  \/ PhaseOf(r2) = PhaseOf(r1)
           \/ PhaseOf(r1) = "unregistered" /\ PhaseOf(r2) = "applicant"
           \/ PhaseOf(r1) \in Profile!Present /\ PhaseOf(r2) \in Profile!Present
           \/ PhaseOf(r1) \in Profile!Present /\ PhaseOf(r2) = "deleted"
           \/ PhaseOf(r1) = "deleted" /\ PhaseOf(r2) = "hidden"
           \/ PhaseOf(r1) = "deleted" /\ PhaseOf(r2) = "erased"
<1> USE DEF PhaseOf, Profile!Present, Row, Status
<1>1. CASE Applied(r1, r2) BY <1>1 DEF Applied, NoRow
<1>2. CASE Advanced(r1, r2) BY <1>2 DEF Advanced, Same
<1>3. CASE Aged(r1, r2) BY <1>3 DEF Aged, Same
<1>4. CASE Moderated(r1, r2) BY <1>4 DEF Moderated
<1>5. CASE SoftDeleted(r1, r2) BY <1>5 DEF SoftDeleted
<1>6. CASE Restored(r1, r2) BY <1>6 DEF Restored
<1>7. CASE Expired(r1, r2) BY <1>7 DEF Expired
<1>8. CASE Purged(r1, r2) BY <1>8 DEF Purged, NoRow
<1> QED BY <1>1, <1>2, <1>3, <1>4, <1>5, <1>6, <1>7, <1>8 DEF Effect

\* A change of one row is a move of one profile, or no move at all.
LEMMA ChangeMoves ==
    ASSUME TypeOK, TypeOK', DeletedIsHidden, NEW m \in Mentor, Changed(m)
    PROVE  [Profile!Next]_phases
<1> DEFINE to == PhaseOf(row'[m])
<1>1. row[m] \in Row /\ row'[m] \in Row BY DEF TypeOK
<1>2. Effect(row[m], row'[m]) BY DEF Changed
<1>3. phases' = [phases EXCEPT ![m] = to] BY DEF Changed, phases
<1>4. phases[m] = PhaseOf(row[m]) BY DEF phases
<1> HIDE DEF to
<1>5. ASSUME NEW From, NEW To, phases[m] \in From, to \in To
      PROVE  Profile!Move(m, From, To)
  BY <1>3, <1>5 DEF Profile!Move
<1> QED
  <2>1. CASE to = phases[m]
    BY <2>1, <1>3 DEF phases
  <2>2. CASE to # phases[m]
    <3>1. \/ Profile!Apply(m) \/ Profile!Change(m) \/ Profile!Delete(m)
          \/ Profile!Restore(m) \/ Profile!Erase(m)
      BY <1>1, <1>2, <1>4, <1>5, <2>2, EffectMoves
         DEF to, DeletedIsHidden, Profile!Apply, Profile!Change, Profile!Delete,
             Profile!Restore, Profile!Erase
    <3> QED BY <3>1 DEF Profile!Next
  <2> QED BY <2>1, <2>2

\* Every interleaving of the portals, the links and the jobs is a behaviour of the
\* abstract profile.
THEOREM RefinesProfile == Spec => ImplementsProfile
<1>1. Init => Profile!Init
  BY DEF Init, Profile!Init, phases, PhaseOf, NoRow
<1>2. TypeOK /\ DeletedIsHidden /\ [Next]_vars
        => [Profile!Next]_phases
  BY NextType, Effects, ChangeMoves DEF phases
<1> QED
  BY <1>1, <1>2, TypeCorrect, DeletedStaysHidden, PTL
  DEF Spec, ImplementsProfile, Profile!Spec
--------------------------------------------------------------------------------
(* Nobody is forgotten.                                                     *)

\* An unjudged registration was not claimed yet, or holds a link with a window.
LinkFitsDraw(r) ==
    r.status = "draft" /\ ~r.activated /\ ~r.note =>
        IF r.token = NoToken THEN r.sort = {} ELSE r.window # "none"

\* The last day of a window is not the first of a row.
WindowFitsAge(r) == r.window \in {"ending", "closed"} => r.age > 0

Fits(r) == LinkFitsDraw(r) /\ WindowFitsAge(r)

RegistrationInv == \A m \in Mentor : Fits(row[m])

\* One row that is written keeps the invariant if what is written fits.
LEMMA FitsOne ==
    ASSUME TypeOK, RegistrationInv, NEW m \in Mentor, NEW r, SetRow(m, r), Fits(r)
    PROVE  RegistrationInv'
BY DEF TypeOK, RegistrationInv, SetRow

\* A finalization run writes rows that fit: its claim stores link and draw together,
\* and its release takes both back.
LEMMA WorkerFits ==
    ASSUME TypeOK, RegistrationInv, NEW w \in Worker, WorkerStep(w)
    PROVE  RegistrationInv'
<1> DEFINE m == job[w].m
<1>1. CASE ClaimRow(w)
  <2> DEFINE fresh == IF job[w].dup THEN NoToken ELSE minted[m] + 1
  <2>1. job[w] \in Run BY <1>1, RunIsNotIdle DEF ClaimRow, TypeOK
  <2>2. m \in Mentor BY <2>1 DEF Run
  <2>3. row[m] \in Row /\ minted[m] \in Nat /\ Fits(row[m])
    BY <2>2 DEF TypeOK, RegistrationInv
  <2>4. SetRow(m, ClaimedRow(w, row[m], fresh)) BY <1>1 DEF ClaimRow
  <2>5. Fits(ClaimedRow(w, row[m], fresh))
    BY <2>3 DEF Fits, LinkFitsDraw, WindowFitsAge, ClaimedRow, Row, NoToken
  <2> QED BY <2>2, <2>4, <2>5, FitsOne
<1>2. CASE Release(w)
  <2>1. job[w] \in Run BY <1>2, RunIsNotIdle DEF Release, TypeOK
  <2>2. m \in Mentor BY <2>1 DEF Run
  <2>3. row[m] \in Row /\ Fits(row[m]) BY <2>2 DEF TypeOK, RegistrationInv
  <2> DEFINE r == [row[m] EXCEPT !.status = "draft", !.sort = {},
                                 !.token = NoToken, !.window = "none"]
  <2>4. Fits(r)
    BY <2>3 DEF Fits, LinkFitsDraw, WindowFitsAge, Row
  <2>5. SetRow(m, r) \/ row' = row BY <1>2 DEF Release
  <2>6. CASE SetRow(m, r) BY <2>2, <2>4, <2>6, FitsOne
  <2>7. CASE row' = row BY <2>7 DEF RegistrationInv
  <2> QED BY <2>5, <2>6, <2>7
<1>3. CASE row' = row BY <1>3 DEF RegistrationInv
<1> QED
  BY <1>1, <1>2, <1>3 DEF WorkerStep, HandleTrigger, ReplayStuck, ReadMentor,
     CountDuplicates, LoseClaim, SendOk, SendFails, Crash

\* A portal moves a profile out of draft, or leaves a note on it.
LEMMA CallerFits ==
    ASSUME TypeOK, RegistrationInv, NEW c \in Caller, CallerStep(c)
    PROVE  RegistrationInv'
<1> DEFINE m == call[c].m
<1>1. ASSUME call[c] # NoCall
      PROVE  m \in Mentor /\ row[m] \in Row /\ Fits(row[m])
  BY <1>1 DEF Call, TypeOK, RegistrationInv
<1>2. ASSUME NEW s, s # "draft", SetMentorStatus(c, s), call[c] # NoCall
      PROVE  RegistrationInv'
  <2>1. SetRow(m, [row[m] EXCEPT !.status = s]) \/ row' = row
    BY <1>2 DEF SetMentorStatus, Finish
  <2>2. Fits([row[m] EXCEPT !.status = s])
    BY <1>1, <1>2 DEF Fits, LinkFitsDraw, WindowFitsAge, Row
  <2>3. CASE row' = row BY <2>3 DEF RegistrationInv
  <2> QED BY <1>1, <1>2, <2>1, <2>2, <2>3, FitsOne
<1>3. CASE ApproveMentor(c)
  <2>1. call[c] # NoCall BY <1>3 DEF ApproveMentor, NoCall
  <2> DEFINE r == [row[m] EXCEPT !.status = "active", !.activated = TRUE,
                                 !.note = FALSE]
  <2>2. SetRow(m, r) \/ row' = row BY <1>3 DEF ApproveMentor, Finish
  <2>3. Fits(r) BY <1>1, <2>1 DEF Fits, LinkFitsDraw, WindowFitsAge, Row
  <2>4. CASE row' = row BY <2>4 DEF RegistrationInv
  <2> QED BY <1>1, <2>1, <2>2, <2>3, <2>4, FitsOne
<1>4. CASE ReturnMentor(c)
  <2>1. call[c] # NoCall BY <1>4 DEF ReturnMentor, NoCall
  <2> DEFINE r == [row[m] EXCEPT !.status = "draft", !.note = TRUE]
  <2>2. SetRow(m, r) \/ row' = row BY <1>4 DEF ReturnMentor, Finish
  <2>3. Fits(r) BY <1>1, <2>1 DEF Fits, LinkFitsDraw, WindowFitsAge, Row
  <2>4. CASE row' = row BY <2>4 DEF RegistrationInv
  <2> QED BY <1>1, <2>1, <2>2, <2>3, <2>4, FitsOne
<1>5. CASE DeclineMentor(c) \/ ToggleProfile(c) \/ SubmitProfile(c)
  <2>1. call[c] # NoCall
    BY <1>5 DEF DeclineMentor, ToggleProfile, SubmitProfile, NoCall
  <2>2. \E s \in {"declined", "active", "inactive", "pending"} : SetMentorStatus(c, s)
    BY <1>5 DEF DeclineMentor, ToggleProfile, SubmitProfile
  <2> QED BY <1>2, <2>1, <2>2
<1>6. CASE row' = row BY <1>6 DEF RegistrationInv
<1> QED
  BY <1>3, <1>4, <1>5, <1>6 DEF CallerStep, BeginModeration, BeginReturn, BeginToggle,
     BeginSubmit, Begin

\* So does everything that happens to a row without a request or a run.
LEMMA MentorFits ==
    ASSUME TypeOK, RegistrationInv, NEW m \in Mentor, MentorStep(m)
    PROVE  RegistrationInv'
<1>r. row[m] \in Row /\ minted[m] \in Nat /\ Fits(row[m]) BY DEF TypeOK, RegistrationInv
<1>a. ASSUME NEW r, SetRow(m, r), Fits(r) PROVE RegistrationInv' BY <1>a, FitsOne
<1> USE DEF Fits, LinkFitsDraw, WindowFitsAge
<1>1. CASE Register(m)
  <2>1. Fits([NoRow EXCEPT !.status = "draft"]) BY DEF NoRow
  <2> QED BY <1>1, <1>a, <2>1 DEF Register
<1>2. CASE GrowOlder(m)
  <2> DEFINE r == [row[m] EXCEPT !.age = row[m].age + 1, !.window =
             IF row[m].window = "open" /\ row[m].age > 0
             THEN "ending" ELSE row[m].window]
  <2>1. SetRow(m, r) BY <1>2 DEF GrowOlder
  <2>2. row[m].age \in Nat BY <1>r DEF Row
  <2>3. Fits(r) BY <1>r, <2>2 DEF Row
  <2> HIDE DEF r
  <2> QED BY <1>a, <2>1, <2>3
<1>3. CASE WindowCloses(m)
  <2> DEFINE r == [row[m] EXCEPT !.window = "closed"]
  <2>1. row[m].age > 0
    BY <1>r, <1>3, LifecycleAssumption DEF WindowCloses, Old, Row
  <2>2. Fits(r) BY <1>r, <2>1 DEF Row
  <2>3. SetRow(m, r) BY <1>3 DEF WindowCloses
  <2> QED BY <1>a, <2>2, <2>3
<1>4. CASE ConfirmEmail(m)
  <2> DEFINE r == [row[m] EXCEPT !.status = "pending", !.token = NoToken,
                                 !.window = "none"]
  <2>1. Fits(r) BY <1>r DEF Row
  <2>2. SetRow(m, r) BY <1>4 DEF ConfirmEmail
  <2> QED BY <1>a, <2>1, <2>2
<1>5. CASE ResendConfirmation(m)
  <2> DEFINE r == [row[m] EXCEPT !.token = minted[m] + 1, !.window = "open"]
  <2>1. Fits(r) BY <1>r DEF Row, NoToken
  <2>2. SetRow(m, r) BY <1>5 DEF ResendConfirmation
  <2> QED BY <1>a, <2>1, <2>2
<1>6. CASE DeactivateMentor(m)
  <2>1. Fits([row[m] EXCEPT !.status = "inactive"]) BY <1>r DEF Row
  <2> QED BY <1>6, <1>a, <2>1 DEF DeactivateMentor
<1>7. CASE SoftDeleteMentor(m)
  <2>1. Fits([row[m] EXCEPT !.status = "inactive", !.deleted = "recent"]) BY <1>r DEF Row
  <2> QED BY <1>7, <1>a, <2>1 DEF SoftDeleteMentor
<1>8. CASE RestoreMentor(m)
  <2>1. Fits([row[m] EXCEPT !.status = "inactive", !.deleted = "no"]) BY <1>r DEF Row
  <2> QED BY <1>8, <1>a, <2>1 DEF RestoreMentor
<1>9. CASE RetentionElapses(m)
  <2>1. Fits([row[m] EXCEPT !.deleted = "past"]) BY <1>r DEF Row
  <2> QED BY <1>9, <1>a, <2>1 DEF RetentionElapses
<1>10. CASE PurgeProfile(m)
  <2>1. Fits([NoRow EXCEPT !.status = "purged"]) BY DEF NoRow
  <2>2. CASE row' = row BY <2>2 DEF RegistrationInv
  <2> QED BY <1>10, <1>a, <2>1, <2>2 DEF PurgeProfile
<1>11. CASE row' = row BY <1>11 DEF RegistrationInv
<1> QED
  BY <1>1, <1>2, <1>3, <1>4, <1>5, <1>6, <1>7, <1>8, <1>9, <1>10, <1>11
  DEF MentorStep, DropTrigger

\* What the invariant is for.
LEMMA FitsMeansListed == TypeOK /\ RegistrationInv => NobodyForgotten
<1> SUFFICES ASSUME TypeOK, RegistrationInv, NEW m \in Mentor,
                    Unjudged(m), row[m].age > 0
             PROVE  Usable(m) \/ Stuck(m) \/ Abandoned(m)
  BY DEF NobodyForgotten
<1>1. row[m] \in Row /\ Fits(row[m]) BY DEF TypeOK, RegistrationInv
<1>2. row[m].window \in Window /\ row[m].age \in Nat /\ row[m].age <= Old
  BY <1>1, LifecycleAssumption DEF Row, Old
<1>3. CASE row[m].token = NoToken
  BY <1>1, <1>3 DEF Unjudged, Fits, LinkFitsDraw, Stuck
<1>4. CASE row[m].token # NoToken
  <2>1. Usable(m) \/ row[m].window = "closed"
    BY <1>1, <1>2, <1>4 DEF Unjudged, Fits, LinkFitsDraw, Usable, Window
  <2>2. row[m].age <= ReplayDays \/ row[m].age = Old
    BY <1>2, LifecycleAssumption DEF Old
  <2> QED BY <1>4, <2>1, <2>2 DEF Unjudged, Stuck, Abandoned
<1> QED BY <1>3, <1>4

\* Rows fit in every reachable state.
LEMMA RegistrationsFit == Spec => []RegistrationInv
<1>1. Init => RegistrationInv
  <2>1. Fits(NoRow) BY DEF Fits, LinkFitsDraw, WindowFitsAge, NoRow
  <2> QED BY <2>1 DEF Init, RegistrationInv
<1>2. TypeOK /\ RegistrationInv /\ [Next]_vars => RegistrationInv'
  <2>1. CASE row' = row BY <2>1 DEF RegistrationInv
  <2> QED BY <2>1, WorkerFits, CallerFits, MentorFits
      DEF Next, vars, DeliverLink, LoseLink, ListPurgeableProfiles
<1> QED BY <1>1, <1>2, TypeCorrect, PTL DEF Spec

\* Whatever was lost, crashed, failed or was released, a registration that nobody
\* judged has a link that can still be used, is in the next replay, or was given up.
THEOREM NobodyStaysForgotten == Spec => []NobodyForgotten
BY FitsMeansListed, RegistrationsFit, TypeCorrect, PTL
--------------------------------------------------------------------------------
(* What the disagreements come down to.                                     *)

\* A row that can be shown was approved, and a row that does not exist was not.
ShownWasApproved(r) ==
    /\ r.deleted = "no" /\ r.status \in {"active", "inactive"} => r.activated
    /\ r.status = "absent" => ~r.activated

\* m was approved, or is gone for good.
ApprovedOrErased(r) == r.activated \/ r.status = "purged"

\* Toggles were begun on profiles that had been approved.
TogglesApproved == \A c \in Caller :
    call[c].op \in {"activate", "deactivate"} => ApprovedOrErased(row[call[c].m])

ApprovalInv == (\A m \in Mentor : ShownWasApproved(row[m])) /\ TogglesApproved

\* Writing r keeps the invariant if it shows no profile that was not approved and
\* takes no approval back.
LEMMA ApprovalOne ==
    ASSUME TypeOK, ApprovalInv, NEW m \in Mentor, NEW r, SetRow(m, r),
           ShownWasApproved(r), ApprovedOrErased(row[m]) => ApprovedOrErased(r),
           \A c \in Caller : call'[c] \in {call[c], NoCall}
    PROVE  ApprovalInv'
<1>1. \A n \in Mentor : /\ ShownWasApproved(row'[n])
                        /\ ApprovedOrErased(row[n]) => ApprovedOrErased(row'[n])
  BY DEF TypeOK, ApprovalInv, SetRow
<1>2. ASSUME NEW c \in Caller, call'[c].op \in {"activate", "deactivate"}
      PROVE  ApprovedOrErased(row'[call'[c].m])
  <2>1. call'[c] = call[c] BY <1>2 DEF NoCall
  <2>2. call[c].m \in Mentor BY <1>2, <2>1 DEF TypeOK, Call, NoCall
  <2> QED BY <1>1, <1>2, <2>1, <2>2 DEF ApprovalInv, TogglesApproved
<1> QED BY <1>1, <1>2 DEF ApprovalInv, TogglesApproved, ShownWasApproved, ApprovedOrErased

\* So do steps that write no row and begin no request.
LEMMA ApprovalIdle ==
    ASSUME ApprovalInv, row' = row, \A c \in Caller : call'[c] \in {call[c], NoCall}
    PROVE  ApprovalInv'
BY DEF ApprovalInv, TogglesApproved, ShownWasApproved, ApprovedOrErased, NoCall

\* A finalization run moves a profile to draft or declined, which shows nothing.
LEMMA WorkerApproval ==
    ASSUME TypeOK, ApprovalInv, NEW w \in Worker, WorkerStep(w)
    PROVE  ApprovalInv'
<1> DEFINE m == job[w].m
<1>c. call' = call
  BY DEF WorkerStep, HandleTrigger, ReplayStuck, ReadMentor, CountDuplicates, ClaimRow,
     LoseClaim, SendOk, SendFails, Release, Crash
<1>1. CASE ClaimRow(w)
  <2>1. job[w] \in Run BY <1>1, RunIsNotIdle DEF ClaimRow, TypeOK
  <2>2. m \in Mentor /\ row[m] \in Row BY <2>1 DEF Run, TypeOK
  <2>3. PICK fresh : SetRow(m, ClaimedRow(w, row[m], fresh)) BY <1>1 DEF ClaimRow
  <2>4. row[m].status = "draft" BY <1>1 DEF ClaimRow, Claimable
  <2>5. /\ ShownWasApproved(ClaimedRow(w, row[m], fresh))
        /\ ApprovedOrErased(row[m]) => ApprovedOrErased(ClaimedRow(w, row[m], fresh))
    BY <2>2, <2>4 DEF ShownWasApproved, ApprovedOrErased, ClaimedRow, Row
  <2> QED BY <1>c, <2>2, <2>3, <2>5, ApprovalOne
<1>2. CASE Release(w)
  <2>1. job[w] \in Run BY <1>2, RunIsNotIdle DEF Release, TypeOK
  <2>2. m \in Mentor /\ row[m] \in Row BY <2>1 DEF Run, TypeOK
  <2> DEFINE r == [row[m] EXCEPT !.status = "draft", !.sort = {},
                                 !.token = NoToken, !.window = "none"]
  <2>3. /\ row' = row \/ SetRow(m, r)
        /\ SetRow(m, r) => row[m].status \in {"draft", "declined"} \/ row' = row
    BY <1>2 DEF Release
  <2>4. row[m].status # "purged" =>
          /\ ShownWasApproved(r)
          /\ ApprovedOrErased(row[m]) => ApprovedOrErased(r)
    BY <2>2 DEF ShownWasApproved, ApprovedOrErased, Row
  <2> QED BY <1>c, <2>2, <2>3, <2>4, ApprovalOne, ApprovalIdle
<1>3. CASE row' = row BY <1>3, <1>c, ApprovalIdle
<1> QED
  BY <1>1, <1>2, <1>3 DEF WorkerStep, HandleTrigger, ReplayStuck, ReadMentor,
     CountDuplicates, LoseClaim, SendOk, SendFails, Crash

\* A request that was begun on a profile writes what its owner or a moderator may
\* write: only a toggle shows the profile, and toggles begin on approved profiles.
LEMMA CallerApproval ==
    ASSUME TypeOK, DeletedIsHidden, ApprovalInv, NEW c \in Caller, CallerStep(c)
    PROVE  ApprovalInv'
<1> DEFINE m == call[c].m
<1>1. ASSUME call[c] # NoCall
      PROVE  m \in Mentor /\ row[m] \in Row
  BY <1>1 DEF Call, TypeOK
<1>2. ASSUME NEW s \in Status, SetMentorStatus(c, s), call[c] # NoCall,
             s \in {"active", "inactive"} => call[c].op \in {"activate", "deactivate"}
      PROVE  ApprovalInv'
  <2> DEFINE r == [row[m] EXCEPT !.status = s]
  <2>1. /\ call' = [call EXCEPT ![c] = NoCall]
        /\ row' = row \/ (SetRow(m, r) /\ Live(m))
    BY <1>2 DEF SetMentorStatus, Finish
  <2>2. \A d \in Caller : call'[d] \in {call[d], NoCall} BY <2>1 DEF TypeOK
  <2>3. ASSUME Live(m)
        PROVE  ShownWasApproved(r) /\ (ApprovedOrErased(row[m]) => ApprovedOrErased(r))
    <3>1. row[m].status # "purged" BY <2>3 DEF Live, Exists, Status
    <3>2. s \in {"active", "inactive"} => row[m].activated
      BY <1>2, <3>1 DEF ApprovalInv, TogglesApproved, ApprovedOrErased
    <3>3. r.status = s /\ r.activated = row[m].activated BY <1>1, <1>2 DEF Row
    <3>4. s # "absent" BY <1>2 DEF Status
    <3> QED BY <3>1, <3>2, <3>3, <3>4 DEF ShownWasApproved, ApprovedOrErased
  <2> HIDE DEF r
  <2> QED BY <1>1, <1>2, <2>1, <2>2, <2>3, ApprovalOne, ApprovalIdle
<1>3. CASE ApproveMentor(c)
  <2>1. call[c] # NoCall BY <1>3 DEF ApproveMentor, NoCall
  <2> DEFINE r == [row[m] EXCEPT !.status = "active", !.activated = TRUE,
                                 !.note = FALSE]
  <2>2. /\ call' = [call EXCEPT ![c] = NoCall]
        /\ row' = row \/ SetRow(m, r)
    BY <1>3 DEF ApproveMentor, Finish
  <2>3. \A d \in Caller : call'[d] \in {call[d], NoCall} BY <2>2 DEF TypeOK
  <2>4. ShownWasApproved(r) /\ ApprovedOrErased(r)
    BY <1>1, <2>1 DEF ShownWasApproved, ApprovedOrErased, Row
  <2> QED BY <1>1, <2>1, <2>2, <2>3, <2>4, ApprovalOne, ApprovalIdle
<1>4. CASE ReturnMentor(c)
  <2>1. call[c] # NoCall BY <1>4 DEF ReturnMentor, NoCall
  <2> DEFINE r == [row[m] EXCEPT !.status = "draft", !.note = TRUE]
  <2>2. /\ call' = [call EXCEPT ![c] = NoCall]
        /\ row' = row \/ (SetRow(m, r) /\ Live(m))
    BY <1>4 DEF ReturnMentor, Finish
  <2>3. \A d \in Caller : call'[d] \in {call[d], NoCall} BY <2>2 DEF TypeOK
  <2>4. ASSUME Live(m)
        PROVE  ShownWasApproved(r) /\ (ApprovedOrErased(row[m]) => ApprovedOrErased(r))
    BY <1>1, <2>1, <2>4 DEF ShownWasApproved, ApprovedOrErased, Row, Live, Exists, Status
  <2> QED BY <1>1, <2>1, <2>2, <2>3, <2>4, ApprovalOne, ApprovalIdle
<1>5. CASE DeclineMentor(c) \/ ToggleProfile(c) \/ SubmitProfile(c)
  <2>1. call[c] # NoCall
    BY <1>5 DEF DeclineMentor, ToggleProfile, SubmitProfile, NoCall
  <2>2. \E s \in Status : /\ SetMentorStatus(c, s)
                          /\ s \in {"active", "inactive"} =>
                                call[c].op \in {"activate", "deactivate"}
    BY <1>5 DEF DeclineMentor, ToggleProfile, SubmitProfile, Status
  <2> QED BY <1>2, <2>1, <2>2
<1>6. ASSUME NEW n \in Mentor, NEW op \in Op, Begin(c, op, n),
             op \in {"activate", "deactivate"} => row[n].status \in {"active", "inactive"}
      PROVE  ApprovalInv'
  <2>1. row' = row /\ call' = [call EXCEPT ![c] = [op |-> op, m |-> n]] /\ Live(n)
    BY <1>6 DEF Begin
  <2>2. call'[c] = [op |-> op, m |-> n] /\ \A d \in Caller \ {c} : call'[d] = call[d]
    BY <2>1 DEF TypeOK
  <2>3. op \in {"activate", "deactivate"} => row[n].activated
    BY <1>6, <2>1 DEF Live, ApprovalInv, ShownWasApproved
  <2>4. ASSUME NEW d \in Caller, call'[d].op \in {"activate", "deactivate"}
        PROVE  ApprovedOrErased(row'[call'[d].m])
    <3>1. CASE d = c BY <2>1, <2>2, <2>3, <2>4, <3>1 DEF ApprovedOrErased
    <3>2. CASE d # c BY <2>1, <2>2, <2>4, <3>2 DEF ApprovalInv, TogglesApproved
    <3> QED BY <3>1, <3>2
  <2> QED BY <2>1, <2>4 DEF ApprovalInv, TogglesApproved, ShownWasApproved, ApprovedOrErased
<1>7. ASSUME NEW n \in Mentor, BeginModeration(c, n) \/ BeginReturn(c, n)
                                 \/ BeginToggle(c, n) \/ BeginSubmit(c, n)
      PROVE  ApprovalInv'
  <2>1. \E op \in Op : /\ Begin(c, op, n)
                       /\ op \in {"activate", "deactivate"} =>
                             row[n].status \in {"active", "inactive"}
    BY <1>7 DEF BeginModeration, BeginReturn, BeginToggle, BeginSubmit, Op
  <2> QED BY <1>6, <2>1
<1> QED BY <1>3, <1>4, <1>5, <1>7 DEF CallerStep

\* Of all that happens to a profile without a request or a run, only a restore shows
\* one that may not have been approved.
LEMMA MentorApproval ==
    ASSUME TypeOK, DeletedIsHidden, ApprovalInv, NEW m \in Mentor, MentorStep(m),
           NobodyRestores
    PROVE  ApprovalInv'
<1>r. row[m] \in Row /\ ShownWasApproved(row[m]) BY DEF TypeOK, ApprovalInv
<1>c. call' = call
  BY DEF MentorStep, Register, DropTrigger, GrowOlder, WindowCloses, ConfirmEmail,
     ResendConfirmation, DeactivateMentor, SoftDeleteMentor, RestoreMentor,
     RetentionElapses, PurgeProfile
<1>a. ASSUME NEW r, SetRow(m, r), ShownWasApproved(r),
             ApprovedOrErased(row[m]) => ApprovedOrErased(r)
      PROVE  ApprovalInv'
  BY <1>a, <1>c, ApprovalOne
<1>i. CASE row' = row BY <1>c, <1>i, ApprovalIdle
<1> USE DEF ShownWasApproved, ApprovedOrErased
<1>1. CASE Register(m)
  <2> DEFINE r == [NoRow EXCEPT !.status = "draft"]
  <2>1. r.status = "draft" /\ SetRow(m, r) BY <1>1 DEF Register, NoRow
  <2>2. ~ApprovedOrErased(row[m]) BY <1>1, <1>r DEF Register
  <2>3. ShownWasApproved(r) BY DEF NoRow
  <2> HIDE DEF ShownWasApproved, ApprovedOrErased, r
  <2> QED BY <1>a, <2>1, <2>2, <2>3
<1>2. CASE GrowOlder(m)
  <2> DEFINE r == [row[m] EXCEPT !.age = row[m].age + 1, !.window =
             IF row[m].window = "open" /\ row[m].age > 0
             THEN "ending" ELSE row[m].window]
  <2>1. SetRow(m, r) BY <1>2 DEF GrowOlder
  <2>2. ShownWasApproved(r) /\ (ApprovedOrErased(row[m]) => ApprovedOrErased(r))
    BY <1>r DEF Row
  <2> HIDE DEF r, ShownWasApproved, ApprovedOrErased
  <2> QED BY <1>a, <2>1, <2>2
<1>3. CASE WindowCloses(m)
  <2> DEFINE r == [row[m] EXCEPT !.window = "closed"]
  <2>1. SetRow(m, r) BY <1>3 DEF WindowCloses
  <2>2. ShownWasApproved(r) /\ (ApprovedOrErased(row[m]) => ApprovedOrErased(r))
    BY <1>r DEF Row
  <2> HIDE DEF r, ShownWasApproved, ApprovedOrErased
  <2> QED BY <1>a, <2>1, <2>2
<1>4. CASE ConfirmEmail(m)
  <2> DEFINE r == [row[m] EXCEPT !.status = "pending", !.token = NoToken,
                                 !.window = "none"]
  <2>1. SetRow(m, r) /\ row[m].status = "draft" BY <1>4 DEF ConfirmEmail
  <2>2. ShownWasApproved(r) /\ (ApprovedOrErased(row[m]) => ApprovedOrErased(r))
    BY <1>r, <2>1 DEF Row
  <2> HIDE DEF r, ShownWasApproved, ApprovedOrErased
  <2> QED BY <1>a, <2>1, <2>2
<1>5. CASE ResendConfirmation(m)
  <2> DEFINE r == [row[m] EXCEPT !.token = minted[m] + 1, !.window = "open"]
  <2>1. SetRow(m, r) BY <1>5 DEF ResendConfirmation
  <2>2. ShownWasApproved(r) /\ (ApprovedOrErased(row[m]) => ApprovedOrErased(r))
    BY <1>r DEF Row
  <2> HIDE DEF r, ShownWasApproved, ApprovedOrErased
  <2> QED BY <1>a, <2>1, <2>2
<1>6. CASE DeactivateMentor(m)
  <2> DEFINE r == [row[m] EXCEPT !.status = "inactive"]
  <2>1. SetRow(m, r) /\ row[m].status = "active" BY <1>6 DEF DeactivateMentor
  <2>2. row[m].activated BY <1>r, <2>1 DEF DeletedIsHidden
  <2>3. ShownWasApproved(r) /\ ApprovedOrErased(r) BY <1>r, <2>2 DEF Row
  <2> HIDE DEF r, ShownWasApproved, ApprovedOrErased
  <2> QED BY <1>a, <2>1, <2>3
<1>7. CASE SoftDeleteMentor(m)
  <2> DEFINE r == [row[m] EXCEPT !.status = "inactive", !.deleted = "recent"]
  <2>1. SetRow(m, r) /\ row[m].status # "purged"
    BY <1>7 DEF SoftDeleteMentor, Live, Exists, Status
  <2>2. ShownWasApproved(r) /\ (ApprovedOrErased(row[m]) => ApprovedOrErased(r))
    BY <1>r, <2>1 DEF Row
  <2> HIDE DEF r, ShownWasApproved, ApprovedOrErased
  <2> QED BY <1>a, <2>1, <2>2
<1>8. CASE RestoreMentor(m)
  <2> DEFINE r == [row[m] EXCEPT !.status = "inactive", !.deleted = "no"]
  <2>1. row'[m] = r /\ row[m].deleted # "no"
    BY <1>8 DEF RestoreMentor, SetRow, TypeOK
  <2>2. r.deleted = "no" /\ r.status = "inactive" BY <1>r DEF Row
  <2> QED BY <2>1, <2>2 DEF NobodyRestores
<1>9. CASE RetentionElapses(m)
  <2> DEFINE r == [row[m] EXCEPT !.deleted = "past"]
  <2>1. SetRow(m, r) BY <1>9 DEF RetentionElapses
  <2>2. ShownWasApproved(r) /\ (ApprovedOrErased(row[m]) => ApprovedOrErased(r))
    BY <1>r DEF Row
  <2> HIDE DEF r, ShownWasApproved, ApprovedOrErased
  <2> QED BY <1>a, <2>1, <2>2
<1>10. CASE PurgeProfile(m)
  <2> DEFINE r == [NoRow EXCEPT !.status = "purged"]
  <2>1. SetRow(m, r) \/ row' = row BY <1>10 DEF PurgeProfile
  <2>2. ShownWasApproved(r) /\ ApprovedOrErased(r) BY DEF NoRow
  <2> HIDE DEF r, ShownWasApproved, ApprovedOrErased
  <2> QED BY <1>a, <1>i, <2>1, <2>2
<1> QED
  BY <1>i, <1>1, <1>2, <1>3, <1>4, <1>5, <1>6, <1>7, <1>8, <1>9, <1>10
  DEF MentorStep, DropTrigger

\* As long as nobody restores a profile, every listed one was approved: the restore
\* is the only gap in the rule that the toggle is for approved mentors.
THEOREM ListedUnlessRestored == UnrestoredSpec => []ListedWasApproved
<1>1. Init => ApprovalInv
  BY DEF Init, ApprovalInv, TogglesApproved, ShownWasApproved, NoRow, NoCall
<1>2. TypeOK /\ DeletedIsHidden /\ ApprovalInv /\ [Next /\ NobodyRestores]_vars
          => ApprovalInv'
  <2> SUFFICES ASSUME TypeOK, DeletedIsHidden, ApprovalInv,
                      [Next /\ NobodyRestores]_vars
               PROVE  ApprovalInv'
    OBVIOUS
  <2>1. CASE row' = row /\ call' = call BY <2>1, ApprovalIdle
  <2> QED BY <2>1, WorkerApproval, CallerApproval, MentorApproval
      DEF Next, vars, DeliverLink, LoseLink, ListPurgeableProfiles
<1>3. DeletedIsHidden /\ ApprovalInv => ListedWasApproved
  BY DEF DeletedIsHidden, ApprovalInv, ShownWasApproved, ListedWasApproved
<1>4. UnrestoredSpec => Spec BY PTL DEF UnrestoredSpec, Spec
<1> QED
  BY <1>1, <1>2, <1>3, <1>4, TypeCorrect, DeletedStaysHidden, PTL DEF UnrestoredSpec
--------------------------------------------------------------------------------
\* A row that does not exist yet was not approved.
BlankRows == \A m \in Mentor : row[m].status = "absent" => ~row[m].activated

\* No effect makes a blank row of another one.
LEMMA EffectFillsRow ==
    ASSUME NEW r1 \in Row, NEW r2 \in Row, Effect(r1, r2),
           r1.status = "absent" => ~r1.activated
    PROVE  r2.status = "absent" => ~r2.activated
<1>1. CASE Applied(r1, r2) BY <1>1 DEF Applied, NoRow
<1>2. CASE Purged(r1, r2) BY <1>2 DEF Purged, NoRow
<1>3. CASE Aged(r1, r2) BY <1>3 DEF Aged, Same
<1>4. CASE Advanced(r1, r2) \/ Moderated(r1, r2)
  BY <1>4 DEF Advanced, Moderated, Status
<1>5. CASE SoftDeleted(r1, r2) \/ Restored(r1, r2)
  <2>1. r2.status = "inactive" BY <1>5 DEF SoftDeleted, Restored, Row
  <2> QED BY <2>1
<1>6. CASE Expired(r1, r2)
  <2>1. r2.status = r1.status BY <1>6 DEF Expired, Row
  <2> QED BY <1>6, <2>1 DEF Expired, Status
<1> QED BY <1>1, <1>2, <1>3, <1>4, <1>5, <1>6 DEF Effect

\* Rows stay blank until a registration fills them.
LEMMA BlankRowsStep == TypeOK /\ BlankRows /\ [Next]_vars => BlankRows'
<1> SUFFICES ASSUME TypeOK, BlankRows, [Next]_vars, NEW n \in Mentor
             PROVE  (row[n].status = "absent" => ~row[n].activated)'
  BY DEF BlankRows
<1>1. row[n] \in Row /\ row'[n] \in Row BY NextType DEF TypeOK
<1>2. row'[n] = row[n] \/ Effect(row[n], row'[n]) BY Effects DEF Changed
<1> QED BY <1>1, <1>2, EffectFillsRow DEF BlankRows

\* m goes back to draft though it was approved.
Reverts(m) == row[m].activated /\ row[m].status # "draft" /\ row'[m].status = "draft"

\* m was declined as a duplicate by a run that could not mail it.
Unmailed(m) ==
    /\ row[m].status = "declined"
    /\ \E w \in Worker : /\ job[w].pc = "failed" /\ job[w].m = m
                         /\ job[w].dup /\ job'[w] = Idle

\* A portal does not revert: a return looks at the approval when it writes.
LEMMA CallerKeepsApproved ==
    ASSUME TypeOK, NEW c \in Caller, CallerStep(c), NEW m \in Mentor
    PROVE  ~Reverts(m)
<1> DEFINE n == call[c].m
<1>r. row[m] \in Row BY DEF TypeOK
<1>0. ASSUME NEW r, SetRow(n, r), r.status = "draft" => ~row[n].activated
      PROVE  ~Reverts(m)
  BY <1>0, <1>r DEF SetRow, Reverts, TypeOK
<1>1. CASE row' = row BY <1>1 DEF Reverts
<1>2. ASSUME NEW s, s # "draft", SetMentorStatus(c, s), call[c] # NoCall
      PROVE  ~Reverts(m)
  <2> DEFINE r == [row[n] EXCEPT !.status = s]
  <2>1. SetRow(n, r) \/ row' = row BY <1>2 DEF SetMentorStatus, Finish
  <2>2. n \in Mentor /\ row[n] \in Row BY <1>2 DEF TypeOK, Call
  <2>3. r.status = s BY <2>2 DEF Row
  <2> HIDE DEF r
  <2> QED BY <1>0, <1>1, <1>2, <2>1, <2>3
<1>3. CASE ApproveMentor(c)
  <2> DEFINE r == [row[n] EXCEPT !.status = "active", !.activated = TRUE,
                                 !.note = FALSE]
  <2>1. SetRow(n, r) \/ row' = row BY <1>3 DEF ApproveMentor, Finish
  <2>2. call[c] # NoCall BY <1>3 DEF ApproveMentor, NoCall
  <2>3. n \in Mentor /\ row[n] \in Row BY <2>2 DEF TypeOK, Call
  <2>4. r.status = "active" BY <2>3 DEF Row
  <2> HIDE DEF r
  <2> QED BY <1>0, <1>1, <2>1, <2>4
<1>4. CASE ReturnMentor(c)
  <2>1. \/ SetRow(n, [row[n] EXCEPT !.status = "draft", !.note = TRUE]) /\ ~row[n].activated
        \/ row' = row
    BY <1>4 DEF ReturnMentor, Finish
  <2> QED BY <1>0, <1>1, <2>1
<1>5. CASE DeclineMentor(c) \/ ToggleProfile(c) \/ SubmitProfile(c)
  <2>1. call[c] # NoCall
    BY <1>5 DEF DeclineMentor, ToggleProfile, SubmitProfile, NoCall
  <2>2. \E s \in {"declined", "active", "inactive", "pending"} : SetMentorStatus(c, s)
    BY <1>5 DEF DeclineMentor, ToggleProfile, SubmitProfile
  <2> QED BY <1>2, <2>1, <2>2
<1> QED
  BY <1>1, <1>3, <1>4, <1>5 DEF CallerStep, BeginModeration, BeginReturn, BeginToggle,
     BeginSubmit, Begin

\* A claim finds a draft and leaves it one or declines it; a release compares the
\* status with what the claim wrote.
LEMMA WorkerReverts ==
    ASSUME TypeOK, NEW w \in Worker, WorkerStep(w), NEW m \in Mentor, Reverts(m)
    PROVE  Unmailed(m)
<1> DEFINE n == job[w].m
<1>r. row[m] \in Row /\ row' # row BY DEF TypeOK, Reverts
<1>1. CASE ClaimRow(w)
  <2>1. PICK r : SetRow(n, r) /\ row[n].status = "draft"
    BY <1>1 DEF ClaimRow, Claimable
  <2> QED BY <2>1 DEF SetRow, Reverts, TypeOK
<1>2. CASE Release(w)
  <2>1. PICK r : SetRow(n, r) BY <1>r, <1>2 DEF Release
  <2>2. m = n BY <2>1 DEF SetRow, Reverts, TypeOK
  <2>3. row[m].status = (IF job[w].dup THEN "declined" ELSE "draft")
    BY <1>r, <1>2, <2>2 DEF Release
  <2>4. job[w].pc = "failed" /\ job'[w] = Idle BY <1>2 DEF Release, EndRun, TypeOK
  <2> QED BY <2>2, <2>3, <2>4 DEF Reverts, Unmailed
<1> QED
  BY <1>r, <1>1, <1>2 DEF WorkerStep, HandleTrigger, ReplayStuck, ReadMentor,
     CountDuplicates, LoseClaim, SendOk, SendFails, Crash

\* Nothing else makes a draft of a profile, except a registration of a blank row.
LEMMA MentorKeepsApproved ==
    ASSUME TypeOK, BlankRows, NEW n \in Mentor, MentorStep(n), NEW m \in Mentor
    PROVE  ~Reverts(m)
<1>r. row[m] \in Row /\ row[n] \in Row BY DEF TypeOK
<1>0. ASSUME NEW r, SetRow(n, r),
             r.status = "draft" => ~row[n].activated \/ row[n].status = "draft"
      PROVE  ~Reverts(m)
  BY <1>0, <1>r DEF SetRow, Reverts, TypeOK
<1>1. CASE row' = row BY <1>1 DEF Reverts
<1>2. CASE Register(n) BY <1>0, <1>2 DEF Register, BlankRows
<1>3. CASE GrowOlder(n)
  <2> DEFINE r == [row[n] EXCEPT !.age = row[n].age + 1, !.window =
             IF row[n].window = "open" /\ row[n].age > 0
             THEN "ending" ELSE row[n].window]
  <2>1. SetRow(n, r) BY <1>3 DEF GrowOlder
  <2>2. r.status = row[n].status BY <1>r DEF Row
  <2> HIDE DEF r
  <2> QED BY <1>0, <2>1, <2>2
<1>4. CASE WindowCloses(n)
  <2>1. [row[n] EXCEPT !.window = "closed"].status = row[n].status BY <1>r DEF Row
  <2> QED BY <1>0, <1>4, <2>1 DEF WindowCloses
<1>5. CASE ConfirmEmail(n) BY <1>0, <1>5 DEF ConfirmEmail
<1>6. CASE ResendConfirmation(n) BY <1>0, <1>6 DEF ResendConfirmation
<1>7. CASE DeactivateMentor(n)
  <2>1. [row[n] EXCEPT !.status = "inactive"].status = "inactive" BY <1>r DEF Row
  <2> QED BY <1>0, <1>7, <2>1 DEF DeactivateMentor
<1>8. CASE SoftDeleteMentor(n)
  <2>1. [row[n] EXCEPT !.status = "inactive", !.deleted = "recent"].status = "inactive"
    BY <1>r DEF Row
  <2> QED BY <1>0, <1>8, <2>1 DEF SoftDeleteMentor
<1>9. CASE RestoreMentor(n)
  <2>1. [row[n] EXCEPT !.status = "inactive", !.deleted = "no"].status = "inactive"
    BY <1>r DEF Row
  <2> QED BY <1>0, <1>9, <2>1 DEF RestoreMentor
<1>10. CASE RetentionElapses(n)
  <2>1. [row[n] EXCEPT !.deleted = "past"].status = row[n].status BY <1>r DEF Row
  <2> QED BY <1>0, <1>10, <2>1 DEF RetentionElapses
<1>11. CASE PurgeProfile(n)
  <2>1. [NoRow EXCEPT !.status = "purged"].status = "purged" BY DEF NoRow
  <2> QED BY <1>0, <1>1, <1>11, <2>1 DEF PurgeProfile
<1> QED
  BY <1>1, <1>2, <1>3, <1>4, <1>5, <1>6, <1>7, <1>8, <1>9, <1>10, <1>11
  DEF MentorStep, DropTrigger

\* Only the release of a duplicate that was approved and declined in the meantime
\* takes an approved profile back to draft.
THEOREM DuplicatesRevert == Spec => OnlyDuplicatesRevert
<1>1. Init => BlankRows BY DEF Init, BlankRows, NoRow
<1>2. TypeOK /\ BlankRows /\ [Next]_vars
          => [\A m \in Mentor : Reverts(m) => Unmailed(m)]_vars
  <2> SUFFICES ASSUME TypeOK, BlankRows, Next, NEW m \in Mentor, Reverts(m)
               PROVE  Unmailed(m)
    OBVIOUS
  <2>1. row' # row BY DEF Reverts
  <2> QED BY <2>1, CallerKeepsApproved, WorkerReverts, MentorKeepsApproved
      DEF Next, DeliverLink, LoseLink, ListPurgeableProfiles
<1> QED
  BY <1>1, <1>2, BlankRowsStep, TypeCorrect, PTL
  DEF Spec, OnlyDuplicatesRevert, Reverts, Unmailed
--------------------------------------------------------------------------------
(* A fault for every day.                                                   *)

\* A run is about to mail m the link it stored.
Sending(m) == \E w \in Worker : Unsent(w) /\ job[w].m = m

\* Run w declined m as a duplicate and may yet release it.
Declining(w, m) == job[w].pc \in {"claimed", "failed"} /\ job[w].dup /\ job[w].m = m

\* A registration that has seen no link is one day older than there were faults, at
\* most; and if its window is open though nobody is sending the link, a fault made it
\* so, and the day that the window lasts is paid for.
FaultPerDay(m) ==
    /\ Unjudged(m) => row[m].age <= faults + 1
    /\ Unjudged(m) /\ row[m].window = "open" /\ ~Sending(m) =>
           1 <= faults /\ row[m].age <= faults
    /\ \A w \in Worker : Declining(w, m) /\ ~row[m].activated /\ ~row[m].note =>
           row[m].age <= faults + 1

DaysInv == \A m \in Mentor : Seen(m) \/ FaultPerDay(m)

\* A link that was received stays received.
LEMMA SeenStays == ASSUME TypeOK, [Next]_vars, NEW m \in Mentor, Seen(m) PROVE Seen(m)'
<1>1. inbox \subseteq inbox'
  BY DEF Next, vars, WorkerStep, HandleTrigger, ReplayStuck, ReadMentor, CountDuplicates,
     ClaimRow, LoseClaim, SendOk, SendFails, Delivered, Release, Crash,
     CallerStep, BeginModeration, BeginReturn, BeginToggle, BeginSubmit, Begin,
     ApproveMentor, DeclineMentor, ReturnMentor, ToggleProfile, SubmitProfile,
     SetMentorStatus, Finish,
     MentorStep, Register, DropTrigger, GrowOlder, WindowCloses, ConfirmEmail,
     ResendConfirmation, DeactivateMentor, SoftDeleteMentor, RestoreMentor,
     RetentionElapses, PurgeProfile, DeliverLink, LoseLink, ListPurgeableProfiles
<1> QED BY <1>1 DEF Seen

\* A step that changes no run and no fault, and no row but m's, keeps the account if
\* m's new row does.
LEMMA RowKeepsDays ==
    ASSUME TypeOK, DaysInv, [Next]_vars, NEW m \in Mentor, NEW r, SetRow(m, r),
           job' = job, faults' = faults, Seen(m) \/ FaultPerDay(m)'
    PROVE  DaysInv'
<1>1. ASSUME NEW n \in Mentor \ {m}, FaultPerDay(n) PROVE FaultPerDay(n)'
  <2>1. row'[n] = row[n] BY DEF SetRow, TypeOK
  <2> QED BY <1>1, <2>1 DEF FaultPerDay, Unjudged, Sending, Unsent, Declining
<1> QED BY <1>1, SeenStays DEF DaysInv

\* A step that touches no row, no run and no fault keeps it.
LEMMA IdleKeepsDays ==
    ASSUME TypeOK, DaysInv, [Next]_vars, row' = row, job' = job, faults' = faults
    PROVE  DaysInv'
BY SeenStays DEF DaysInv, FaultPerDay, Unjudged, Sending, Unsent, Declining

\* A profile that a person takes out of draft, or that stays out of it, has no
\* account to keep but that of a run that declined it.
LEMMA OutOfDraftKeepsDays ==
    ASSUME TypeOK, DaysInv, [Next]_vars, NEW m \in Mentor, NEW r, SetRow(m, r),
           job' = job, faults' = faults, r.status # "draft" \/ r.note,
           \/ r.activated \/ r.note
           \/ r.age = row[m].age /\ r.activated = row[m].activated /\ r.note = row[m].note
    PROVE  DaysInv'
<1>1. row'[m] = r BY DEF SetRow, TypeOK
<1>2. ASSUME FaultPerDay(m) PROVE FaultPerDay(m)'
  BY <1>1, <1>2 DEF FaultPerDay, Unjudged, Declining
<1> QED BY <1>2, RowKeepsDays DEF DaysInv

\* What the step of one run leaves of the others.
LEMMA OthersKeepDays ==
    ASSUME TypeOK, NEW w \in Worker, NEW n \in Mentor, FaultPerDay(n), row'[n] = row[n],
           faults' = faults \/ faults' = faults + 1,
           \A v \in Worker \ {w} : job'[v] = job[v],
           Unsent(w) /\ job[w].m = n => Unsent(w)' /\ job'[w].m = n,
           Declining(w, n)' => Declining(w, n)
    PROVE  FaultPerDay(n)'
<1>1. row[n].age \in Nat /\ faults \in Nat BY DEF TypeOK, Row
<1>2. Sending(n) => Sending(n)' BY DEF Sending, Unsent
<1>3. \A v \in Worker : Declining(v, n)' => Declining(v, n) BY DEF Declining
<1> QED BY <1>1, <1>2, <1>3 DEF FaultPerDay, Unjudged

\* Before its claim a run has nothing to account for.
LEMMA EarlyRunKeepsDays ==
    ASSUME TypeOK, DaysInv, [Next]_vars, NEW w \in Worker,
           \/ \E m \in Mentor : HandleTrigger(w, m) \/ ReplayStuck(w, m)
           \/ ReadMentor(w) \/ CountDuplicates(w) \/ LoseClaim(w)
    PROVE  DaysInv'
<1>1. row' = row /\ faults' = faults /\ \A v \in Worker \ {w} : job'[v] = job[v]
  BY DEF HandleTrigger, ReplayStuck, ReadMentor, CountDuplicates, LoseClaim, EndRun, TypeOK
<1>2. job[w].pc \notin {"claimed", "failed"}
  BY DEF HandleTrigger, ReplayStuck, ReadMentor, CountDuplicates, LoseClaim, Idle
<1>3. job'[w].pc \notin {"claimed", "failed"}
  <2>1. CASE \E m \in Mentor : HandleTrigger(w, m) \/ ReplayStuck(w, m)
    BY <2>1 DEF HandleTrigger, ReplayStuck, NewRun, TypeOK
  <2>2. CASE ReadMentor(w)
    <3>1. job[w] \in Run BY <2>2, RunIsNotIdle DEF ReadMentor, TypeOK
    <3> QED BY <2>2, <3>1 DEF ReadMentor, EndRun, TypeOK, Idle, Run
  <2>3. CASE CountDuplicates(w)
    <3>1. job[w] \in Run BY <2>3, RunIsNotIdle DEF CountDuplicates, TypeOK
    <3> QED BY <2>3, <3>1 DEF CountDuplicates, TypeOK, Run
  <2>4. CASE LoseClaim(w) BY <2>4 DEF LoseClaim, EndRun, TypeOK, Idle
  <2> QED BY <2>1, <2>2, <2>3, <2>4
<1>4. ~Unsent(w) /\ \A n \in Mentor : ~Declining(w, n)'
  BY <1>2, <1>3 DEF Unsent, Declining
<1>5. ASSUME NEW n \in Mentor, FaultPerDay(n) PROVE FaultPerDay(n)'
  <2>1. row'[n] = row[n] BY <1>1
  <2> QED BY <1>1, <1>4, <1>5, <2>1, OthersKeepDays
<1> QED BY <1>5, SeenStays DEF DaysInv

\* A claim opens a window that its run accounts for, or declines a draft whose age is
\* accounted for.
LEMMA ClaimKeepsDays ==
    ASSUME TypeOK, DaysInv, [Next]_vars, NEW w \in Worker, ClaimRow(w)
    PROVE  DaysInv'
<1>1. job[w] \in Run BY RunIsNotIdle DEF ClaimRow, TypeOK
<1>m. PICK m \in Mentor : m = job[w].m BY <1>1 DEF Run
<1>2. row[m] \in Row BY DEF TypeOK
<1> DEFINE fresh == IF job[w].dup THEN NoToken ELSE minted[m] + 1
           r == ClaimedRow(w, row[m], fresh)
<1>3. /\ SetRow(m, r) /\ faults' = faults /\ row[m].status = "draft"
      /\ job' = [job EXCEPT ![w].pc = "claimed", ![w].mine = fresh]
      /\ job[w].pc = "counted"
  BY <1>m DEF ClaimRow, Claimable
<1>4. /\ r.age = row[m].age /\ r.activated = row[m].activated /\ r.note = row[m].note
      /\ r.status = IF job[w].dup THEN "declined" ELSE "draft"
  BY <1>2, <1>3 DEF ClaimedRow, Row
<1> HIDE DEF r, fresh
<1>5. /\ row'[m] = r /\ \A n \in Mentor \ {m} : row'[n] = row[n]
      /\ job'[w].pc = "claimed" /\ job'[w].m = m /\ job'[w].dup = job[w].dup
      /\ \A v \in Worker \ {w} : job'[v] = job[v]
  BY <1>1, <1>m, <1>2, <1>3 DEF SetRow, TypeOK, Run
<1>6. ASSUME NEW n \in Mentor \ {m}, FaultPerDay(n) PROVE FaultPerDay(n)'
  BY <1>3, <1>5, <1>6, OthersKeepDays DEF Unsent, Declining
<1>7. ASSUME FaultPerDay(m) PROVE FaultPerDay(m)'
  <2>1. Unjudged(m)' => Unjudged(m) /\ ~job[w].dup
    BY <1>3, <1>4, <1>5 DEF Unjudged
  <2>2. ~job[w].dup => Sending(m)' BY <1>5 DEF Sending, Unsent
  <2>3. ASSUME NEW v \in Worker, Declining(v, m)', ~row'[m].activated, ~row'[m].note
        PROVE  row'[m].age <= faults' + 1
    <3>1. CASE v = w BY <1>3, <1>4, <1>5, <1>7, <2>3, <3>1 DEF FaultPerDay, Unjudged
    <3>2. CASE v # w BY <1>3, <1>4, <1>5, <1>7, <2>3, <3>2 DEF FaultPerDay, Declining
    <3> QED BY <3>1, <3>2
  <2>4. Unjudged(m)' => row'[m].age <= faults' + 1
    BY <1>3, <1>4, <1>5, <1>7, <2>1 DEF FaultPerDay
  <2> QED BY <2>1, <2>2, <2>3, <2>4 DEF FaultPerDay
<1> QED BY <1>2, <1>6, <1>7, SeenStays DEF DaysInv

\* A send reaches m or costs a fault, and so does a crash.
LEMMA SendKeepsDays ==
    ASSUME TypeOK, DaysInv, [Next]_vars, NEW w \in Worker,
           SendOk(w) \/ SendFails(w) \/ Crash(w)
    PROVE  DaysInv'
<1>1. job[w] \in Run
  BY RunIsNotIdle DEF SendOk, SendFails, Crash, TypeOK
<1>2. PICK m \in Mentor : m = job[w].m BY <1>1 DEF Run
<1>3. /\ row' = row /\ \A v \in Worker \ {w} : job'[v] = job[v]
      /\ job'[w] = Idle \/ (job'[w] = [job[w] EXCEPT !.pc = "failed"] /\ job[w].pc = "claimed")
  BY DEF SendOk, SendFails, Crash, EndRun, TypeOK
<1>4. ~Unsent(w)'
  BY <1>1, <1>3 DEF Unsent, Idle, Run
<1>5. \A n \in Mentor : Declining(w, n)' => Declining(w, n)
  BY <1>1, <1>3 DEF Declining, Idle, Run
<1>6. \A n \in Mentor \ {m} : ~(Unsent(w) /\ job[w].m = n) BY <1>2
<1>f. faults' = faults \/ faults' = faults + 1 BY DEF SendOk, SendFails, Crash
<1>7. ASSUME NEW n \in Mentor, FaultPerDay(n), ~(Unsent(w) /\ job[w].m = n)
      PROVE  FaultPerDay(n)'
  BY <1>3, <1>5, <1>f, <1>7, OthersKeepDays
<1>8. CASE SendOk(w)
  <2>1. CASE job[w].dup BY <1>7, <2>1, SeenStays DEF DaysInv, Unsent
  <2>2. CASE ~job[w].dup
    <3>1. <<m, job[w].mine>> \in inbox' BY <1>2, <1>8, <2>2 DEF SendOk, Delivered
    <3>2. Seen(m)' BY <3>1 DEF Seen
    <3> QED BY <1>6, <1>7, <3>2, SeenStays DEF DaysInv
  <2> QED BY <2>1, <2>2
<1>9. CASE SendFails(w) \/ Crash(w)
  <2>1. faults' = faults + 1 /\ faults \in Nat /\ row[m].age \in Nat
    BY <1>2, <1>9 DEF SendFails, Crash, TypeOK, Row
  <2>2. ASSUME FaultPerDay(m) PROVE FaultPerDay(m)'
    <3>1. \A v \in Worker : Declining(v, m)' => Declining(v, m)
      <4>1. ASSUME NEW v \in Worker \ {w}, Declining(v, m)' PROVE Declining(v, m)
        <5>1. job'[v] = job[v] BY <1>3
        <5> QED BY <4>1, <5>1 DEF Declining
      <4> QED BY <1>2, <1>5, <4>1
    <3>2. /\ row[m].age <= faults + 1 => row[m].age <= faults'
          /\ 1 <= faults'
      BY <2>1
    <3>3. Unjudged(m)' => Unjudged(m) BY <1>3 DEF Unjudged
    <3>4. Unjudged(m) => row[m].age <= faults + 1 BY <2>2 DEF FaultPerDay
    <3>5. \A v \in Worker : Declining(v, m) /\ ~row[m].activated /\ ~row[m].note =>
             row[m].age <= faults + 1
      BY <2>2 DEF FaultPerDay
    <3>6. row[m].age <= faults' => row[m].age <= faults' + 1 BY <2>1
    <3> QED BY <1>3, <3>1, <3>2, <3>3, <3>4, <3>5, <3>6 DEF FaultPerDay
  <2> QED BY <1>6, <1>7, <2>2, SeenStays DEF DaysInv
<1> QED BY <1>8, <1>9

\* A release closes the window, and what it takes back to draft was accounted for.
LEMMA ReleaseKeepsDays ==
    ASSUME TypeOK, DaysInv, [Next]_vars, NEW w \in Worker, Release(w)
    PROVE  DaysInv'
<1>1. job[w] \in Run BY RunIsNotIdle DEF Release, TypeOK
<1>m. PICK m \in Mentor : m = job[w].m BY <1>1 DEF Run
<1>2. row[m] \in Row BY DEF TypeOK
<1> DEFINE r == [row[m] EXCEPT !.status = "draft", !.sort = {},
                               !.token = NoToken, !.window = "none"]
<1>3. /\ job[w].pc = "failed" /\ faults' = faults /\ job'[w] = Idle
      /\ \A v \in Worker \ {w} : job'[v] = job[v]
      /\ \/ row' = row
         \/ SetRow(m, r) /\ row[m].status = (IF job[w].dup THEN "declined" ELSE "draft")
  BY <1>m DEF Release, EndRun, TypeOK
<1>4. ~Unsent(w) /\ \A n \in Mentor : ~Declining(w, n)'
  BY <1>3 DEF Unsent, Declining, Idle
<1>5. ASSUME NEW n \in Mentor, FaultPerDay(n), row'[n] = row[n] PROVE FaultPerDay(n)'
  <2>1. faults' = faults /\ \A v \in Worker \ {w} : job'[v] = job[v] BY <1>3
  <2>2. ~Declining(w, n)' BY <1>4
  <2> QED BY <1>4, <1>5, <2>1, <2>2, OthersKeepDays
<1>6. CASE row' = row
  <2>1. \A n \in Mentor : row'[n] = row[n] BY <1>6
  <2> QED BY <1>5, <2>1, SeenStays DEF DaysInv
<1>7. CASE SetRow(m, r) /\ row[m].status = (IF job[w].dup THEN "declined" ELSE "draft")
  <2>1. /\ r.age = row[m].age /\ r.activated = row[m].activated /\ r.note = row[m].note
        /\ r.window = "none"
    BY <1>2 DEF Row
  <2> HIDE DEF r
  <2>2. row'[m] = r /\ \A n \in Mentor \ {m} : row'[n] = row[n]
    BY <1>2, <1>7 DEF SetRow, TypeOK
  <2>3. ASSUME FaultPerDay(m) PROVE FaultPerDay(m)'
    <3>1. ~row[m].activated /\ ~row[m].note => row[m].age <= faults + 1
      <4>1. CASE job[w].dup BY <1>m, <1>3, <2>3, <4>1 DEF FaultPerDay, Declining
      <4>2. CASE ~job[w].dup BY <1>7, <2>3, <4>2 DEF FaultPerDay, Unjudged
      <4> QED BY <4>1, <4>2
    <3> QED BY <1>3, <2>1, <2>2, <3>1 DEF FaultPerDay, Unjudged
  <2> QED BY <1>5, <2>2, <2>3, SeenStays DEF DaysInv
<1> QED BY <1>3, <1>6, <1>7

\* People take a profile out of draft, or leave a note on it.
LEMMA CallerKeepsDays ==
    ASSUME TypeOK, DaysInv, [Next]_vars, NEW c \in Caller, CallerStep(c)
    PROVE  DaysInv'
<1> DEFINE m == call[c].m
<1>0. job' = job /\ faults' = faults
  BY DEF CallerStep, BeginModeration, BeginReturn, BeginToggle, BeginSubmit, Begin,
     ApproveMentor, DeclineMentor, ReturnMentor, ToggleProfile, SubmitProfile,
     SetMentorStatus, Finish
<1>1. ASSUME call[c] # NoCall
      PROVE  m \in Mentor /\ row[m] \in Row
  BY <1>1 DEF Call, TypeOK
<1>i. CASE row' = row BY <1>0, <1>i, IdleKeepsDays
<1>2. ASSUME NEW s, s # "draft", SetMentorStatus(c, s), call[c] # NoCall
      PROVE  DaysInv'
  <2> DEFINE r == [row[m] EXCEPT !.status = s]
  <2>1. SetRow(m, r) \/ row' = row BY <1>2 DEF SetMentorStatus, Finish
  <2>2. /\ r.status = s /\ r.age = row[m].age /\ r.activated = row[m].activated
        /\ r.note = row[m].note
    BY <1>1, <1>2 DEF Row
  <2> HIDE DEF r
  <2> QED BY <1>0, <1>1, <1>i, <1>2, <2>1, <2>2, OutOfDraftKeepsDays
<1>3. CASE ApproveMentor(c)
  <2> DEFINE r == [row[m] EXCEPT !.status = "active", !.activated = TRUE,
                                 !.note = FALSE]
  <2>1. call[c] # NoCall BY <1>3 DEF ApproveMentor, NoCall
  <2>2. SetRow(m, r) \/ row' = row BY <1>3 DEF ApproveMentor, Finish
  <2>3. r.status = "active" /\ r.activated BY <1>1, <2>1 DEF Row
  <2> HIDE DEF r
  <2> QED BY <1>0, <1>1, <1>i, <2>1, <2>2, <2>3, OutOfDraftKeepsDays
<1>4. CASE ReturnMentor(c)
  <2> DEFINE r == [row[m] EXCEPT !.status = "draft", !.note = TRUE]
  <2>1. call[c] # NoCall BY <1>4 DEF ReturnMentor, NoCall
  <2>2. SetRow(m, r) \/ row' = row BY <1>4 DEF ReturnMentor, Finish
  <2>3. r.note BY <1>1, <2>1 DEF Row
  <2> HIDE DEF r
  <2> QED BY <1>0, <1>1, <1>i, <2>1, <2>2, <2>3, OutOfDraftKeepsDays
<1>5. CASE DeclineMentor(c) \/ ToggleProfile(c) \/ SubmitProfile(c)
  <2>1. call[c] # NoCall
    BY <1>5 DEF DeclineMentor, ToggleProfile, SubmitProfile, NoCall
  <2>2. \E s \in {"declined", "active", "inactive", "pending"} : SetMentorStatus(c, s)
    BY <1>5 DEF DeclineMentor, ToggleProfile, SubmitProfile
  <2> QED BY <1>2, <2>1, <2>2
<1> QED
  BY <1>i, <1>3, <1>4, <1>5 DEF CallerStep, BeginModeration, BeginReturn, BeginToggle,
     BeginSubmit, Begin

\* A day passes only over a registration that is not in the replay list, and so one
\* whose open window is paid for; links are clicked and resent by those who have one.
LEMMA MentorKeepsDays ==
    ASSUME TypeOK, RegistrationInv, DaysInv, [Next]_vars, CronKeepsUp,
           NEW m \in Mentor, MentorStep(m)
    PROVE  DaysInv'
<1>r. row[m] \in Row /\ Fits(row[m]) /\ faults \in Nat BY DEF TypeOK, RegistrationInv
<1>a. row[m].age \in Nat /\ row[m].age <= Old BY <1>r, LifecycleAssumption DEF Row, Old
<1>0. job' = job /\ faults' = faults
  BY DEF MentorStep, Register, DropTrigger, GrowOlder, WindowCloses, ConfirmEmail,
     ResendConfirmation, DeactivateMentor, SoftDeleteMentor, RestoreMentor,
     RetentionElapses, PurgeProfile
<1>i. CASE row' = row BY <1>0, <1>i, IdleKeepsDays
<1>1. CASE Register(m)
  <2> DEFINE r == [NoRow EXCEPT !.status = "draft"]
  <2>1. SetRow(m, r) /\ r.age = 0 /\ r.window = "none" BY <1>1 DEF Register, NoRow
  <2>2. row'[m] = r BY <2>1 DEF SetRow, TypeOK
  <2>3. FaultPerDay(m)' BY <1>0, <1>r, <2>1, <2>2 DEF FaultPerDay
  <2> HIDE DEF r
  <2> QED BY <1>0, <2>1, <2>3, RowKeepsDays
<1>2. CASE GrowOlder(m)
  <2> DEFINE r == [row[m] EXCEPT !.age = row[m].age + 1, !.window =
             IF row[m].window = "open" /\ row[m].age > 0
             THEN "ending" ELSE row[m].window]
  <2>1. SetRow(m, r) /\ Quiet(m) /\ row[m].age < Old /\ row[m].window # "ending"
    BY <1>2 DEF GrowOlder
  <2>2. /\ r.age = row[m].age + 1 /\ r.status = row[m].status
        /\ r.activated = row[m].activated /\ r.note = row[m].note
        /\ r.window = "open" => row[m].window = "open" /\ row[m].age = 0
    BY <1>r, <1>a DEF Row
  <2> HIDE DEF r
  <2>3. row'[m] = r BY <2>1 DEF SetRow, TypeOK
  <2>4. ~Stuck(m) BY <1>a, <2>2, <2>3 DEF CronKeepsUp
  <2>5. ~Sending(m) /\ \A w \in Worker : ~Declining(w, m)
    BY <2>1 DEF Quiet, Sending, Unsent, Declining, Idle
  <2>6. row[m].age <= ReplayDays BY <1>a, <2>1, LifecycleAssumption DEF Old
  <2>7. Unjudged(m) /\ row[m].age > 0 => row[m].window = "open"
    BY <1>r, <2>1, <2>4, <2>6 DEF Unjudged, Fits, LinkFitsDraw, Stuck, Row, Window
  <2>8. ASSUME FaultPerDay(m) PROVE FaultPerDay(m)'
    <3>1. Unjudged(m)' = Unjudged(m) BY <2>2, <2>3 DEF Unjudged
    <3>2. Unjudged(m) => row[m].age + 1 <= faults + 1
      <4>1. CASE row[m].age = 0 BY <1>r, <4>1
      <4>2. CASE row[m].age > 0
        BY <1>r, <1>a, <2>5, <2>7, <2>8, <4>2 DEF FaultPerDay
      <4> QED BY <1>a, <4>1, <4>2
    <3>3. Unjudged(m) /\ r.window = "open" => 1 <= faults
      BY <2>2, <2>5, <2>8 DEF FaultPerDay
    <3>4. \A w \in Worker : ~Declining(w, m)' BY <1>0, <2>5 DEF Declining
    <3> QED BY <1>0, <1>r, <2>2, <2>3, <3>1, <3>2, <3>3, <3>4 DEF FaultPerDay
  <2> QED BY <1>0, <2>1, <2>8, RowKeepsDays DEF DaysInv
<1>3. CASE WindowCloses(m)
  <2> DEFINE r == [row[m] EXCEPT !.window = "closed"]
  <2>1. SetRow(m, r) BY <1>3 DEF WindowCloses
  <2>2. /\ r.age = row[m].age /\ r.status = row[m].status /\ r.window = "closed"
        /\ r.activated = row[m].activated /\ r.note = row[m].note
    BY <1>r DEF Row
  <2> HIDE DEF r
  <2>3. row'[m] = r BY <2>1 DEF SetRow, TypeOK
  <2>4. ASSUME FaultPerDay(m) PROVE FaultPerDay(m)'
    BY <1>0, <2>2, <2>3, <2>4 DEF FaultPerDay, Unjudged, Declining
  <2> QED BY <1>0, <2>1, <2>4, RowKeepsDays DEF DaysInv
<1>4. CASE ConfirmEmail(m) \/ ResendConfirmation(m)
  <2>1. PICK r : SetRow(m, r) BY <1>4 DEF ConfirmEmail, ResendConfirmation
  <2>2. Seen(m) BY <1>4 DEF ConfirmEmail, ResendConfirmation, HoldsLink, Seen
  <2> QED BY <1>0, <2>1, <2>2, RowKeepsDays
<1>5. CASE DeactivateMentor(m)
  <2> DEFINE r == [row[m] EXCEPT !.status = "inactive"]
  <2>1. SetRow(m, r) BY <1>5 DEF DeactivateMentor
  <2>2. /\ r.status = "inactive" /\ r.age = row[m].age
        /\ r.activated = row[m].activated /\ r.note = row[m].note
    BY <1>r DEF Row
  <2> HIDE DEF r
  <2> QED BY <1>0, <2>1, <2>2, OutOfDraftKeepsDays
<1>6. CASE SoftDeleteMentor(m)
  <2> DEFINE r == [row[m] EXCEPT !.status = "inactive", !.deleted = "recent"]
  <2>1. SetRow(m, r) BY <1>6 DEF SoftDeleteMentor
  <2>2. /\ r.status = "inactive" /\ r.age = row[m].age
        /\ r.activated = row[m].activated /\ r.note = row[m].note
    BY <1>r DEF Row
  <2> HIDE DEF r
  <2> QED BY <1>0, <2>1, <2>2, OutOfDraftKeepsDays
<1>7. CASE RestoreMentor(m)
  <2> DEFINE r == [row[m] EXCEPT !.status = "inactive", !.deleted = "no"]
  <2>1. SetRow(m, r) BY <1>7 DEF RestoreMentor
  <2>2. /\ r.status = "inactive" /\ r.age = row[m].age
        /\ r.activated = row[m].activated /\ r.note = row[m].note
    BY <1>r DEF Row
  <2> HIDE DEF r
  <2> QED BY <1>0, <2>1, <2>2, OutOfDraftKeepsDays
<1>8. CASE RetentionElapses(m)
  <2> DEFINE r == [row[m] EXCEPT !.deleted = "past"]
  <2>1. SetRow(m, r) BY <1>8 DEF RetentionElapses
  <2>2. /\ r.age = row[m].age /\ r.status = row[m].status /\ r.window = row[m].window
        /\ r.activated = row[m].activated /\ r.note = row[m].note
    BY <1>r DEF Row
  <2> HIDE DEF r
  <2>3. row'[m] = r BY <2>1 DEF SetRow, TypeOK
  <2>4. ASSUME FaultPerDay(m) PROVE FaultPerDay(m)'
    BY <1>0, <2>2, <2>3, <2>4 DEF FaultPerDay, Unjudged, Declining, Sending, Unsent
  <2> QED BY <1>0, <2>1, <2>4, RowKeepsDays DEF DaysInv
<1>9. CASE PurgeProfile(m)
  <2> DEFINE r == [NoRow EXCEPT !.status = "purged"]
  <2>1. SetRow(m, r) \/ row' = row BY <1>9 DEF PurgeProfile
  <2>2. r.age = 0 /\ r.window = "none" BY DEF NoRow
  <2> HIDE DEF r
  <2>3. SetRow(m, r) => row'[m] = r BY DEF SetRow, TypeOK
  <2>4. SetRow(m, r) => FaultPerDay(m)' BY <1>0, <1>r, <2>2, <2>3 DEF FaultPerDay
  <2> QED BY <1>0, <1>i, <2>1, <2>4, RowKeepsDays
<1> QED
  BY <1>i, <1>1, <1>2, <1>3, <1>4, <1>5, <1>6, <1>7, <1>8, <1>9
  DEF MentorStep, DropTrigger

\* While the cron keeps up with its list, no registration is given up that was never
\* sent a link, as long as crashes and failed sends are fewer than the replay days.
THEOREM NobodyIsGivenUp == TimelySpec => []NobodyGivenUpUnseen
<1>1. Init => DaysInv
  <2> SUFFICES ASSUME Init, NEW m \in Mentor PROVE FaultPerDay(m)
    BY DEF DaysInv
  <2>1. row[m].status = "absent" BY DEF Init, NoRow
  <2>2. \A w \in Worker : ~Declining(w, m) BY DEF Init, Declining, Idle
  <2> QED BY <2>1, <2>2 DEF FaultPerDay, Unjudged
<1>2. TypeOK /\ RegistrationInv /\ DaysInv /\ [Next /\ CronKeepsUp]_vars => DaysInv'
  <2> SUFFICES ASSUME TypeOK, RegistrationInv, DaysInv, [Next /\ CronKeepsUp]_vars
               PROVE  DaysInv'
    OBVIOUS
  <2>1. CASE row' = row /\ job' = job /\ faults' = faults BY <2>1, IdleKeepsDays
  <2> QED
    BY <2>1, EarlyRunKeepsDays, ClaimKeepsDays, SendKeepsDays, ReleaseKeepsDays,
       CallerKeepsDays, MentorKeepsDays
    DEF Next, vars, WorkerStep, DeliverLink, LoseLink, ListPurgeableProfiles
<1>3. TypeOK /\ faults <= MaxFaults /\ DaysInv => NobodyGivenUpUnseen
  <2> SUFFICES ASSUME TypeOK, faults <= MaxFaults, DaysInv, MaxFaults < ReplayDays,
                      NEW m \in Mentor, Unjudged(m), Abandoned(m), ~Seen(m)
               PROVE  FALSE
    BY DEF NobodyGivenUpUnseen
  <2>1. row[m].age <= faults + 1 BY DEF DaysInv, FaultPerDay
  <2>2. row[m].age = ReplayDays + 1 /\ faults \in Nat
    BY DEF Abandoned, Old, TypeOK
  <2> QED BY <2>1, <2>2, LifecycleAssumption
<1>4. Init => faults <= MaxFaults BY LifecycleAssumption DEF Init
<1>5. TypeOK /\ faults <= MaxFaults /\ [Next]_vars => (faults <= MaxFaults)'
  <2> SUFFICES ASSUME TypeOK, faults <= MaxFaults, [Next]_vars
               PROVE  faults' <= MaxFaults
    OBVIOUS
  <2>1. CASE faults' = faults BY <2>1
  <2>2. ASSUME NEW w \in Worker, SendFails(w) \/ Crash(w) PROVE faults' <= MaxFaults
    BY <2>2, LifecycleAssumption DEF SendFails, Crash, TypeOK
  <2> QED
    BY <2>1, <2>2 DEF Next, vars, WorkerStep, HandleTrigger, ReplayStuck, ReadMentor,
     CountDuplicates, ClaimRow, LoseClaim, SendOk, Release,
     CallerStep, BeginModeration, BeginReturn, BeginToggle, BeginSubmit, Begin,
     ApproveMentor, DeclineMentor, ReturnMentor, ToggleProfile, SubmitProfile,
     SetMentorStatus, Finish,
     MentorStep, Register, DropTrigger, GrowOlder, WindowCloses, ConfirmEmail,
     ResendConfirmation, DeactivateMentor, SoftDeleteMentor, RestoreMentor,
     RetentionElapses, PurgeProfile, DeliverLink, LoseLink, ListPurgeableProfiles
<1>6. TimelySpec => Spec BY PTL DEF TimelySpec, Spec
<1> QED
  BY <1>1, <1>2, <1>3, <1>4, <1>5, <1>6, TypeCorrect, RegistrationsFit, PTL DEF TimelySpec
================================================================================
