------------------------- MODULE MentorLifecycle_links -------------------------
(***************************************************************************)
(* The confirmation link: a link that works in an inbox is not replaced    *)
(* behind the mentor's back, and the link a run is about to mail is the    *)
(* one in the row.  The second needs the inductive invariant LifecycleInv: *)
(* tokens are never minted twice, so no other run can release the claim;   *)
(* an unsent link is in no inbox, so nobody can click it away; and the row *)
(* cannot be erased under a run, since retention outlasts every run.       *)
(***************************************************************************)
EXTENDS MentorLifecycle_safety

\* A request writes neither tokens nor windows nor deletion marks, neither creates
\* nor removes rows, and touches no run, trigger or e-mail.
RequestFrame ==
    /\ UNCHANGED <<minted, job, trigger, links, inbox>>
    /\ \A m \in Mentor :
          /\ row'[m].token = row[m].token /\ row'[m].window = row[m].window
          /\ row'[m].deleted = row[m].deleted
          /\ row[m].status = "absent" <=> row'[m].status = "absent"

\* What it takes of a write to stay in that frame.
LEMMA FinishFrame ==
    ASSUME TypeOK, NEW c \in Caller, NEW guard, NEW r, call[c].m \in Mentor,
           Finish(c, guard, r), guard => Live(call[c].m), r.status \in Status,
           r.token = row[call[c].m].token, r.window = row[call[c].m].window,
           r.deleted = row[call[c].m].deleted
    PROVE  RequestFrame
BY DEF TypeOK, Finish, SetRow, Live, Exists, Status, RequestFrame

\* Requests stay in the frame.
LEMMA CallerFrame ==
    ASSUME TypeOK, NEW c \in Caller, CallerStep(c)
    PROVE  RequestFrame
<1> USE DEF TypeOK
<1> DEFINE n == call[c].m
           OnlyStatus(r) == /\ r.token = row[n].token /\ r.window = row[n].window
                            /\ r.deleted = row[n].deleted /\ r.status \in Status
<1>1. ASSUME call[c] # NoCall
      PROVE  n \in Mentor /\ row[n] \in Row
  BY <1>1 DEF Call
<1>2. ASSUME NEW s \in Status, SetMentorStatus(c, s), call[c] # NoCall
      PROVE  RequestFrame
  <2> DEFINE r == [row[n] EXCEPT !.status = s]
             guard == /\ Live(n) /\ ~(s = "draft" /\ row[n].activated)
                      /\ s = "active" => EmailFree(n)
  <2>1. Finish(c, guard, r) BY <1>2 DEF SetMentorStatus
  <2>2. OnlyStatus(r) BY <1>1, <1>2 DEF Row
  <2>3. guard => Live(n) OBVIOUS
  <2> HIDE DEF r, guard
  <2> QED BY <1>1, <1>2, <2>1, <2>2, <2>3, FinishFrame
<1>3. CASE ApproveMentor(c)
  <2>1. call[c] # NoCall BY <1>3 DEF ApproveMentor, NoCall
  <2> DEFINE r == [row[n] EXCEPT !.status = "active", !.activated = TRUE,
                                 !.note = FALSE]
  <2>2. Finish(c, Live(n) /\ EmailFree(n), r) BY <1>3 DEF ApproveMentor
  <2>3. OnlyStatus(r) BY <1>1, <2>1 DEF Row, Status
  <2> HIDE DEF r
  <2> QED BY <1>1, <2>1, <2>2, <2>3, FinishFrame
<1>4. CASE ReturnMentor(c)
  <2>1. call[c] # NoCall BY <1>4 DEF ReturnMentor, NoCall
  <2> DEFINE r == [row[n] EXCEPT !.status = "draft", !.note = TRUE]
  <2>2. Finish(c, Live(n) /\ ~row[n].activated, r) BY <1>4 DEF ReturnMentor
  <2>3. OnlyStatus(r) BY <1>1, <2>1 DEF Row, Status
  <2> HIDE DEF r
  <2> QED BY <1>1, <2>1, <2>2, <2>3, FinishFrame
<1>5. CASE DeclineMentor(c) \/ ToggleProfile(c) \/ SubmitProfile(c)
  <2>1. call[c] # NoCall
    BY <1>5 DEF DeclineMentor, ToggleProfile, SubmitProfile, NoCall
  <2>2. \E s \in Status : SetMentorStatus(c, s)
    BY <1>5 DEF DeclineMentor, ToggleProfile, SubmitProfile, Status
  <2> QED BY <1>2, <2>1, <2>2
<1>6. ASSUME NEW m \in Mentor,
             BeginModeration(c, m) \/ BeginReturn(c, m)
                 \/ BeginToggle(c, m) \/ BeginSubmit(c, m)
      PROVE  RequestFrame
  <2>1. UNCHANGED <<row, minted, job, trigger, links, inbox>>
    BY <1>6 DEF BeginModeration, BeginReturn, BeginToggle, BeginSubmit, Begin
  <2> QED BY <2>1 DEF RequestFrame
<1> QED BY <1>3, <1>4, <1>5, <1>6 DEF CallerStep
--------------------------------------------------------------------------------
\* AbsentHasNoToken is inductive.
LEMMA AbsentStep == TypeOK /\ AbsentHasNoToken /\ [Next]_vars => AbsentHasNoToken'
<1> SUFFICES ASSUME TypeOK, AbsentHasNoToken, [Next]_vars, NEW n \in Mentor
             PROVE  (row[n].status = "absent" => row[n].token = NoToken)'
  BY DEF AbsentHasNoToken
<1>1. row[n] \in Row BY DEF TypeOK
<1>2. row'[n] = row[n] \/ Effect(row[n], row'[n]) BY Effects DEF Changed
<1> QED
  BY <1>1, <1>2 DEF AbsentHasNoToken, Effect, Applied, Advanced, Aged, Moderated,
     SoftDeleted, Restored, Expired, Purged, NoRow, Row, Status

\* A run about m, and one that is about to e-mail a link.
Runs(w, m) == job[w] # Idle /\ job[w].m = m

\* How a step of run w changes the runs.
LEMMA WorkerFrame ==
    ASSUME TypeOK, NEW w \in Worker, WorkerStep(w)
    PROVE  /\ \A v \in Worker \ {w} : job'[v] = job[v]
           /\ \/ job'[w] = Idle
              \/ \E m \in Mentor : /\ job'[w] = NewRun(m)
                                   /\ m \in trigger \/ row[m].status = "draft"
              \/ /\ job[w] \in Run /\ job'[w] \in Run /\ job'[w].m = job[w].m
                 /\ job[w].pc # "claimed" => job'[w].pc # "failed"
                 /\ \/ job'[w].mine = job[w].mine /\ job'[w].pc # "claimed"
                    \/ ClaimRow(w)
           /\ trigger' \subseteq trigger
           /\ links' = links
<1> USE DEF TypeOK
<1>1. ASSUME NEW m \in Mentor, HandleTrigger(w, m) \/ ReplayStuck(w, m)
      PROVE  /\ job' = [job EXCEPT ![w] = NewRun(m)]
             /\ m \in trigger \/ row[m].status = "draft"
             /\ trigger' \subseteq trigger /\ links' = links
  BY <1>1 DEF HandleTrigger, ReplayStuck, Stuck
<1>2. CASE ReadMentor(w)
  <2>1. job[w] \in Run BY <1>2, RunIsNotIdle DEF ReadMentor
  <2>2. row[job[w].m].token \in Nat BY <2>1 DEF Run, Row
  <2> QED BY <1>2, <2>1, <2>2 DEF ReadMentor, EndRun, Run
<1>3. CASE CountDuplicates(w)
  <2>1. job[w] \in Run BY <1>3, RunIsNotIdle DEF CountDuplicates
  <2>2. job'[w] \in Run BY <1>3, <2>1 DEF CountDuplicates, Run, EmailFree
  <2> QED BY <1>3, <2>1, <2>2 DEF CountDuplicates, Run
<1>4. CASE ClaimRow(w)
  <2>1. job[w] \in Run BY <1>4, RunIsNotIdle DEF ClaimRow
  <2> DEFINE m == job[w].m
             fresh == IF job[w].dup THEN NoToken ELSE minted[m] + 1
  <2>2. m \in Mentor /\ fresh \in Nat BY <2>1 DEF Run, NoToken
  <2>3. job' = [job EXCEPT ![w].pc = "claimed", ![w].mine = fresh]
    BY <1>4 DEF ClaimRow
  <2> HIDE DEF fresh
  <2>4. job'[w] \in Run /\ job'[w].m = m /\ job'[w].pc = "claimed"
    BY <2>1, <2>2, <2>3 DEF Run
  <2> QED BY <1>4, <2>1, <2>3, <2>4 DEF ClaimRow
<1>5. CASE LoseClaim(w) \/ Crash(w) \/ SendOk(w) \/ Release(w)
  BY <1>5 DEF LoseClaim, Crash, SendOk, Release, EndRun
<1>6. CASE SendFails(w)
  <2>1. job[w] \in Run BY <1>6, RunIsNotIdle DEF SendFails
  <2> QED BY <1>6, <2>1 DEF SendFails, Run
<1> QED BY <1>1, <1>2, <1>3, <1>4, <1>5, <1>6 DEF WorkerStep

\* PastIsQuiet is inductive: a run only starts on a triggered or a draft row.
LEMMA PastStep ==
    TypeOK /\ DeletedIsHidden /\ PastIsQuiet /\ [Next]_vars => PastIsQuiet'
<1> SUFFICES ASSUME TypeOK, DeletedIsHidden, PastIsQuiet, [Next]_vars,
                    NEW m \in Mentor, row'[m].deleted = "past"
             PROVE  m \notin trigger' /\ \A w \in Worker : ~Runs(w, m)'
  BY DEF PastIsQuiet, Runs
<1> USE DEF TypeOK
<1>a. ASSUME row[m].deleted = "past"
      PROVE  m \notin trigger /\ \A w \in Worker : ~Runs(w, m)
  BY <1>a DEF PastIsQuiet, Runs
<1>1. ASSUME NEW w \in Worker, WorkerStep(w)
      PROVE  m \notin trigger' /\ \A v \in Worker : ~Runs(v, m)'
  <2>1. row[m].deleted = "past"
    <3>1. row[m] \in Row OBVIOUS
    <3>2. CASE ClaimRow(w)
      <4>1. job[w] \in Run BY <3>2, RunIsNotIdle DEF ClaimRow
      <4>2. job[w].m \in Mentor BY <4>1 DEF Run
      <4> QED BY <3>1, <3>2, <4>2 DEF ClaimRow, SetRow, ClaimedRow, Row
    <3>3. CASE Release(w)
      <4>1. job[w] \in Run BY <3>3, RunIsNotIdle DEF Release
      <4>2. job[w].m \in Mentor /\ row[job[w].m] \in Row BY <4>1 DEF Run
      <4>3. [row[job[w].m] EXCEPT !.status = "draft", !.sort = {}, !.token = NoToken,
               !.window = "none"].deleted = row[job[w].m].deleted
        BY <4>2 DEF Row
      <4> QED BY <3>3, <4>2, <4>3 DEF Release, SetRow
    <3> QED
      BY <1>1, <3>2, <3>3 DEF WorkerStep, HandleTrigger, ReplayStuck, ReadMentor,
         CountDuplicates, LoseClaim, SendOk, SendFails, Crash
  <2>2. row[m].status # "draft" BY <2>1 DEF DeletedIsHidden
  <2>3. ~Runs(w, m)'
    <3>1. \A n \in Mentor : NewRun(n).m = n BY DEF NewRun
    <3> QED BY <1>1, <1>a, <2>1, <2>2, <3>1, WorkerFrame, RunIsNotIdle DEF Runs, Run, Idle
  <2> QED BY <1>1, <1>a, <2>1, <2>3, WorkerFrame DEF Runs
<1>2. ASSUME NEW c \in Caller, CallerStep(c)
      PROVE  m \notin trigger' /\ \A v \in Worker : ~Runs(v, m)'
  BY <1>2, <1>a, CallerFrame DEF RequestFrame, Runs
<1>3. ASSUME NEW n \in Mentor, MentorStep(n)
      PROVE  m \notin trigger' /\ \A v \in Worker : ~Runs(v, m)'
  <2>1. CASE Register(n)
    <3>1. m # n
      BY <2>1 DEF Register, SetRow, NoRow
    <3>2. row'[m] = row[m] BY <2>1, <3>1 DEF Register, SetRow
    <3> QED BY <2>1, <1>a, <3>1, <3>2 DEF Register, Runs
  <2>2. CASE RetentionElapses(n)
    <3>1. CASE n = m
      BY <2>2, <3>1 DEF RetentionElapses, Quiet, Runs
    <3>2. CASE n # m
      BY <2>2, <3>2, <1>a DEF RetentionElapses, SetRow, Runs
    <3> QED BY <3>1, <3>2
  <2>3. CASE ~Register(n) /\ ~RetentionElapses(n)
    <3>1. row[n] \in Row /\ row[m] \in Row OBVIOUS
    <3>2. job' = job /\ trigger' \subseteq trigger
      BY <1>3, <2>3 DEF MentorStep, DropTrigger, GrowOlder, WindowCloses, ConfirmEmail,
         ResendConfirmation, DeactivateMentor, SoftDeleteMentor, RestoreMentor,
         PurgeProfile
    <3>3. row[m].deleted = "past"
      <4> USE <3>1 DEF SetRow
      <4>1. CASE DropTrigger(n) BY <4>1 DEF DropTrigger
      <4>2. CASE GrowOlder(n) BY <4>2 DEF GrowOlder, Row
      <4>3. CASE WindowCloses(n) BY <4>3 DEF WindowCloses, Row
      <4>4. CASE ConfirmEmail(n) BY <4>4 DEF ConfirmEmail, Row
      <4>5. CASE ResendConfirmation(n) BY <4>5 DEF ResendConfirmation, Row
      <4>6. CASE DeactivateMentor(n) BY <4>6 DEF DeactivateMentor, Row
      <4>7. CASE SoftDeleteMentor(n) BY <4>7 DEF SoftDeleteMentor, Row
      <4>8. CASE RestoreMentor(n) BY <4>8 DEF RestoreMentor, Row
      <4>9. CASE PurgeProfile(n) BY <4>9 DEF PurgeProfile, NoRow, Row
      <4> QED
        BY <1>3, <2>3, <4>1, <4>2, <4>3, <4>4, <4>5, <4>6, <4>7, <4>8, <4>9
        DEF MentorStep
    <3> QED BY <1>a, <3>2, <3>3 DEF Runs
  <2> QED BY <2>1, <2>2, <2>3
<1>4. CASE \/ \E l \in links : DeliverLink(l) \/ LoseLink(l)
           \/ ListPurgeableProfiles \/ UNCHANGED vars
  BY <1>4, <1>a DEF DeliverLink, LoseLink, ListPurgeableProfiles, vars, Runs
<1> QED BY <1>1, <1>2, <1>3, <1>4 DEF Next

\* Tokens are minted in order.
LEMMA MintedGrows ==
    TypeOK /\ [Next]_vars => \A m \in Mentor : minted[m] <= minted'[m]
<1> SUFFICES ASSUME TypeOK, [Next]_vars, NEW m \in Mentor
             PROVE  minted[m] <= minted'[m]
  OBVIOUS
<1> USE DEF TypeOK
<1>1. ASSUME NEW w \in Worker, WorkerStep(w) PROVE minted[m] <= minted'[m]
  <2>1. CASE ClaimRow(w)
    <3>1. minted' = [minted EXCEPT ![job[w].m] = minted[job[w].m] + 1]
          \/ minted' = minted
      BY <2>1 DEF ClaimRow
    <3> QED BY <3>1
  <2> QED
    BY <1>1, <2>1 DEF WorkerStep, HandleTrigger, ReplayStuck, ReadMentor,
       CountDuplicates, LoseClaim, SendOk, SendFails, Release, Crash
<1>2. ASSUME NEW c \in Caller, CallerStep(c) PROVE minted[m] <= minted'[m]
  BY <1>2, CallerFrame DEF RequestFrame
<1>3. ASSUME NEW n \in Mentor, MentorStep(n) PROVE minted[m] <= minted'[m]
  <2>1. CASE ResendConfirmation(n) BY <2>1 DEF ResendConfirmation
  <2> QED
    BY <1>3, <2>1 DEF MentorStep, Register, DropTrigger, GrowOlder, WindowCloses,
       ConfirmEmail, DeactivateMentor, SoftDeleteMentor, RestoreMentor,
       RetentionElapses, PurgeProfile
<1> QED
  BY <1>1, <1>2, <1>3
  DEF Next, vars, DeliverLink, LoseLink, ListPurgeableProfiles

\* The token column never exceeds what was minted.
LEMMA RowTokensStep ==
    ASSUME TypeOK, TokensAreMinted, [Next]_vars, NEW m \in Mentor
    PROVE  row'[m].token <= minted'[m]
<1> USE DEF TypeOK
<1>1. row[m] \in Row /\ row[m].token \in Nat BY DEF Row
<1>2. row[m].token <= minted[m] /\ minted[m] <= minted'[m] /\ minted'[m] \in Nat
  BY MintedGrows, NextType DEF TokensAreMinted
<1>3. ASSUME row'[m].token = row[m].token \/ row'[m].token = NoToken
      PROVE  row'[m].token <= minted'[m]
  BY <1>1, <1>2, <1>3 DEF NoToken
<1>4. ASSUME NEW w \in Worker, WorkerStep(w) PROVE row'[m].token <= minted'[m]
  <2>1. CASE ClaimRow(w)
    <3> DEFINE n == job[w].m
               fresh == IF job[w].dup THEN NoToken ELSE minted[n] + 1
    <3>1. job[w] \in Run BY <2>1, RunIsNotIdle DEF ClaimRow
    <3>2. n \in Mentor /\ row[n] \in Row BY <3>1 DEF Run
    <3>3. SetRow(n, ClaimedRow(w, row[n], fresh)) BY <2>1 DEF ClaimRow
    <3>4. ClaimedRow(w, row[n], fresh).token = fresh
      BY <3>2 DEF ClaimedRow, Row
    <3>5. fresh <= minted'[n]
      BY <2>1, <3>2 DEF ClaimRow, NoToken
    <3>6. CASE n = m BY <3>2, <3>3, <3>4, <3>5, <3>6 DEF SetRow
    <3>7. CASE n # m BY <1>3, <3>3, <3>7 DEF SetRow
    <3> QED BY <3>6, <3>7
  <2>2. CASE Release(w)
    <3> DEFINE n == job[w].m
               r == [row[n] EXCEPT !.status = "draft", !.sort = {},
                                   !.token = NoToken, !.window = "none"]
    <3>1. job[w] \in Run BY <2>2, RunIsNotIdle DEF Release
    <3>2. n \in Mentor /\ row[n] \in Row BY <3>1 DEF Run
    <3>3. r.token = NoToken BY <3>2 DEF Row
    <3>4. SetRow(n, r) \/ row' = row BY <2>2 DEF Release
    <3> HIDE DEF r
    <3> QED BY <1>3, <3>2, <3>3, <3>4 DEF SetRow
  <2> QED
    BY <1>3, <1>4, <2>1, <2>2 DEF WorkerStep, HandleTrigger, ReplayStuck, ReadMentor,
       CountDuplicates, LoseClaim, SendOk, SendFails, Crash
<1>5. ASSUME NEW c \in Caller, CallerStep(c) PROVE row'[m].token <= minted'[m]
  BY <1>3, <1>5, CallerFrame DEF RequestFrame
<1>6. ASSUME NEW n \in Mentor, MentorStep(n) PROVE row'[m].token <= minted'[m]
  <2>1. CASE ResendConfirmation(n)
    <3>1. row[n] \in Row OBVIOUS
    <3>2. CASE n = m
      BY <1>1, <2>1, <3>2 DEF ResendConfirmation, SetRow, Row
    <3>3. CASE n # m BY <1>3, <2>1, <3>3 DEF ResendConfirmation, SetRow
    <3> QED BY <3>2, <3>3
  <2>2. CASE ~ResendConfirmation(n)
    <3> USE <1>1, <1>3 DEF SetRow, Row
    <3>1. CASE Register(n) BY <3>1 DEF Register, NoRow
    <3>2. CASE DropTrigger(n) BY <3>2 DEF DropTrigger
    <3>3. CASE GrowOlder(n) BY <3>3 DEF GrowOlder
    <3>4. CASE WindowCloses(n) BY <3>4 DEF WindowCloses
    <3>5. CASE ConfirmEmail(n) BY <3>5 DEF ConfirmEmail
    <3>6. CASE DeactivateMentor(n) BY <3>6 DEF DeactivateMentor
    <3>7. CASE SoftDeleteMentor(n) BY <3>7 DEF SoftDeleteMentor
    <3>8. CASE RestoreMentor(n) BY <3>8 DEF RestoreMentor
    <3>9. CASE RetentionElapses(n) BY <3>9 DEF RetentionElapses
    <3>10. CASE PurgeProfile(n) BY <3>10 DEF PurgeProfile, NoRow
    <3> QED
      BY <1>6, <2>2, <3>1, <3>2, <3>3, <3>4, <3>5, <3>6, <3>7, <3>8, <3>9, <3>10
      DEF MentorStep
  <2> QED BY <2>1, <2>2
<1> QED
  BY <1>3, <1>4, <1>5, <1>6
  DEF Next, vars, DeliverLink, LoseLink, ListPurgeableProfiles

\* Only the worker moves runs.
LEMMA JobFrame ==
    ASSUME TypeOK, [Next]_vars
    PROVE  job' = job \/ \E w \in Worker : WorkerStep(w)
<1>1. ASSUME NEW c \in Caller, CallerStep(c) PROVE job' = job
  BY <1>1, CallerFrame DEF RequestFrame
<1>2. ASSUME NEW n \in Mentor, MentorStep(n) PROVE job' = job
  BY <1>2 DEF MentorStep, Register, DropTrigger, GrowOlder, WindowCloses, ConfirmEmail,
     ResendConfirmation, DeactivateMentor, SoftDeleteMentor, RestoreMentor,
     RetentionElapses, PurgeProfile
<1> QED
  BY <1>1, <1>2 DEF Next, vars, DeliverLink, LoseLink, ListPurgeableProfiles

\* Where a link that is out there comes from: a send of the worker, or a resend.
LEMMA LinkOrigin ==
    ASSUME TypeOK, [Next]_vars, NEW l \in (inbox \cup links)'
    PROVE  \/ l \in inbox \cup links
           \/ \E w \in Worker : /\ SendOk(w) \/ SendFails(w)
                                /\ ~job[w].dup /\ l = <<job[w].m, job[w].mine>>
           \/ \E n \in Mentor : ResendConfirmation(n) /\ l = <<n, minted[n] + 1>>
<1>1. ASSUME NEW w \in Worker, SendOk(w) \/ SendFails(w)
      PROVE  l \in inbox \cup links
             \/ (~job[w].dup /\ l = <<job[w].m, job[w].mine>>)
  BY <1>1 DEF SendOk, SendFails, Delivered
<1>2. ASSUME NEW n \in Mentor, ResendConfirmation(n)
      PROVE  l \in inbox \cup links \/ l = <<n, minted[n] + 1>>
  BY <1>2 DEF ResendConfirmation
<1>3. ASSUME NEW w \in Worker, WorkerStep(w), ~SendOk(w), ~SendFails(w)
      PROVE  l \in inbox \cup links
  BY <1>3 DEF WorkerStep, HandleTrigger, ReplayStuck, ReadMentor, CountDuplicates,
     ClaimRow, LoseClaim, Release, Crash
<1>4. ASSUME NEW c \in Caller, CallerStep(c) PROVE l \in inbox \cup links
  BY <1>4, CallerFrame DEF RequestFrame
<1>5. ASSUME NEW n \in Mentor, MentorStep(n), ~ResendConfirmation(n)
      PROVE  l \in inbox \cup links
  BY <1>5 DEF MentorStep, Register, DropTrigger, GrowOlder, WindowCloses,
     ConfirmEmail, DeactivateMentor, SoftDeleteMentor, RestoreMentor,
     RetentionElapses, PurgeProfile
<1>6. ASSUME NEW k \in links, DeliverLink(k) \/ LoseLink(k)
      PROVE  l \in inbox \cup links
  BY <1>6 DEF DeliverLink, LoseLink
<1> QED
  BY <1>1, <1>2, <1>3, <1>4, <1>5, <1>6 DEF Next, vars, ListPurgeableProfiles

\* TokensAreMinted is inductive.
LEMMA TokensStep == TypeOK /\ TokensAreMinted /\ [Next]_vars => TokensAreMinted'
<1> SUFFICES ASSUME TypeOK, TokensAreMinted, [Next]_vars
             PROVE  TokensAreMinted'
  OBVIOUS
<1> USE DEF TypeOK
<1>m. \A m \in Mentor : minted[m] <= minted'[m] /\ minted[m] \in Nat /\ minted'[m] \in Nat
  BY MintedGrows, NextType
<1>1. \A w \in Worker : job[w] # Idle =>
          job[w].m \in Mentor /\ job[w].mine \in Nat /\ job[w].mine <= minted'[job[w].m]
  <2> SUFFICES ASSUME NEW w \in Worker, job[w] # Idle
               PROVE  job[w].m \in Mentor /\ job[w].mine \in Nat
                      /\ job[w].mine <= minted'[job[w].m]
    OBVIOUS
  <2>1. job[w].m \in Mentor /\ job[w].mine \in Nat BY DEF Run
  <2> QED BY <2>1, <1>m DEF TokensAreMinted
<1>2. \A w \in Worker : job'[w] # Idle => job'[w].mine <= minted'[job'[w].m]
  <2>1. ASSUME NEW w \in Worker, WorkerStep(w), NEW v \in Worker, job'[v] # Idle
        PROVE  job'[v].mine <= minted'[job'[v].m]
    <3>1. CASE ClaimRow(w) /\ v = w
      <4> DEFINE m == job[w].m
                 fresh == IF job[w].dup THEN NoToken ELSE minted[m] + 1
      <4>1. job[w] \in Run BY <3>1, RunIsNotIdle DEF ClaimRow
      <4>2. m \in Mentor BY <4>1 DEF Run
      <4>3. job' = [job EXCEPT ![w].pc = "claimed", ![w].mine = fresh]
            /\ fresh <= minted'[m]
        BY <3>1, <4>2 DEF ClaimRow, NoToken
      <4>4. job'[w].mine = fresh /\ job'[w].m = m
        <5> HIDE DEF fresh
        <5> QED BY <4>1, <4>3 DEF Run
      <4> QED BY <3>1, <4>3, <4>4
    <3>2. CASE v # w BY <1>1, <2>1, <3>2, WorkerFrame
    <3>3. CASE ~ClaimRow(w) /\ v = w
      <4>1. \A m \in Mentor : NewRun(m).mine = 0 /\ NewRun(m).m = m
        BY DEF NewRun, NoToken
      <4>2. (\E m \in Mentor : job'[w] = NewRun(m))
            \/ (job[w] \in Run /\ job'[w].m = job[w].m /\ job'[w].mine = job[w].mine)
        BY <2>1, <3>3, WorkerFrame
      <4>3. job[w] \in Run => job[w] # Idle BY DEF Run, Idle
      <4> QED BY <1>m, <1>1, <3>3, <4>1, <4>2, <4>3
    <3> QED BY <3>1, <3>2, <3>3
  <2> QED BY <1>1, <2>1, JobFrame
<1>3. \A l \in (inbox \cup links)' : l[2] <= minted'[l[1]]
  <2> SUFFICES ASSUME NEW l \in (inbox \cup links)' PROVE l[2] <= minted'[l[1]]
    OBVIOUS
  <2>1. CASE l \in inbox \cup links
    <3>1. l[1] \in Mentor /\ l[2] \in Nat BY <2>1
    <3> QED BY <1>m, <2>1, <3>1 DEF TokensAreMinted
  <2>2. ASSUME NEW w \in Worker, SendOk(w) \/ SendFails(w), l = <<job[w].m, job[w].mine>>
        PROVE  l[2] <= minted'[l[1]]
    <3>1. job[w] # Idle BY <2>2, RunIsNotIdle DEF SendOk, SendFails
    <3> QED BY <1>1, <2>2, <3>1
  <2>3. ASSUME NEW n \in Mentor, ResendConfirmation(n), l = <<n, minted[n] + 1>>
        PROVE  l[2] <= minted'[l[1]]
    <3>1. minted'[n] = minted[n] + 1 BY <2>3 DEF ResendConfirmation
    <3> QED BY <1>m, <2>3, <3>1
  <2> QED BY <2>1, <2>2, <2>3, LinkOrigin
<1> QED BY <1>2, <1>3, RowTokensStep DEF TokensAreMinted
--------------------------------------------------------------------------------
(* The link a run is about to mail.                                         *)

\* The run that mints a link.
Mints(w) == ClaimRow(w) /\ ~job[w].dup

\* A run that has an unsent link had it before the step, or just minted it.
LEMMA UnsentOrigin ==
    ASSUME TypeOK, [Next]_vars, NEW w \in Worker, Unsent(w)'
    PROVE  Mints(w) \/ (Unsent(w) /\ job'[w] = job[w])
<1> USE DEF TypeOK
<1>1. CASE WorkerStep(w)
  <2>1. job'[w] # Idle BY RunIsNotIdle, NextType DEF Unsent
  <2>2. \A m \in Mentor : NewRun(m).pc # "claimed" BY DEF NewRun
  <2>3. ClaimRow(w) BY <1>1, <2>1, <2>2, WorkerFrame DEF Unsent
  <2>4. job[w] \in Run BY <2>3, RunIsNotIdle DEF ClaimRow
  <2>5. PICK f : job' = [job EXCEPT ![w].pc = "claimed", ![w].mine = f]
    BY <2>3 DEF ClaimRow
  <2>6. job'[w].dup = job[w].dup BY <2>4, <2>5 DEF Run
  <2> QED BY <2>3, <2>6 DEF Mints, Unsent
<1>2. CASE ~WorkerStep(w)
  <2>1. job'[w] = job[w] BY <1>2, JobFrame, WorkerFrame
  <2> QED BY <2>1 DEF Unsent
<1> QED BY <1>1, <1>2

\* What minting leaves behind.
LEMMA MintEffect ==
    ASSUME TypeOK, NEW w \in Worker, Mints(w)
    PROVE  LET m == job[w].m IN
           /\ m \in Mentor /\ job'[w].m = m /\ job'[w].mine = minted[m] + 1
           /\ row'[m].token = minted[m] + 1 /\ row'[m].window = "open"
           /\ \A v \in Worker \ {w} : job'[v] = job[v]
           /\ UNCHANGED <<inbox, links>>
<1> USE DEF TypeOK
<1> DEFINE m == job[w].m
           fresh == minted[m] + 1
<1>1. job[w] \in Run BY RunIsNotIdle DEF Mints, ClaimRow
<1>2. m \in Mentor /\ row[m] \in Row /\ fresh \in Nat BY <1>1 DEF Run
<1>3. SetRow(m, [row[m] EXCEPT !.sort = {w}, !.token = fresh, !.window = "open"])
  BY DEF Mints, ClaimRow, ClaimedRow
<1>4. job' = [job EXCEPT ![w].pc = "claimed", ![w].mine = fresh]
  BY DEF Mints, ClaimRow
<1>5. UNCHANGED <<inbox, links>> BY DEF Mints, ClaimRow
<1> HIDE DEF fresh
<1>6. row'[m].token = fresh /\ row'[m].window = "open"
  BY <1>2, <1>3 DEF SetRow, Row
<1>7. job'[w].m = m /\ job'[w].mine = fresh
  BY <1>1, <1>4 DEF Run
<1> QED BY <1>2, <1>4, <1>5, <1>6, <1>7 DEF fresh

\* ClaimsAreDistinct is inductive: a fresh token is larger than any other, and while
\* a link is unsent its row is not claimable.
LEMMA DistinctStep == LifecycleInv /\ [Next]_vars => ClaimsAreDistinct'
<1> SUFFICES ASSUME LifecycleInv, [Next]_vars, NEW w \in Worker, Unsent(w)'
             PROVE  /\ job'[w].mine # NoToken
                    /\ \A v \in Worker \ {w} :
                           job'[v].pc \in {"claimed", "failed"} /\ job'[v].m = job'[w].m
                               => job'[v].mine # job'[w].mine
  BY DEF ClaimsAreDistinct, Unsent
<1> USE DEF LifecycleInv
<1>t. job \in [Worker -> Run \cup {Idle}] /\ minted \in [Mentor -> Nat] BY DEF TypeOK
<1>1. CASE Mints(w)
  <2> DEFINE m == job[w].m
  <2>1. m \in Mentor /\ minted[m] \in Nat BY <1>1, <1>t, MintEffect
  <2>2. job'[w].m = m /\ job'[w].mine = minted[m] + 1 BY <1>1, MintEffect
  <2>3. ASSUME NEW v \in Worker \ {w}, job'[v].pc \in {"claimed", "failed"}, job'[v].m = m
        PROVE  job'[v].mine <= minted[m] /\ job'[v].mine \in Nat
    <3>1. job'[v] = job[v] BY <1>1, MintEffect
    <3>2. job[v] \in Run BY <1>t, <2>3, <3>1, RunIsNotIdle
    <3>3. job[v] # Idle BY <3>2 DEF Run, Idle
    <3> QED BY <2>3, <3>1, <3>2, <3>3 DEF TokensAreMinted, Run
  <2> QED BY <2>1, <2>2, <2>3 DEF NoToken
<1>2. CASE Unsent(w) /\ job'[w] = job[w]
  <2>1. ASSUME NEW v \in Worker \ {w}, job'[v].pc \in {"claimed", "failed"},
               job'[v].m = job[w].m
        PROVE  job'[v].mine # job[w].mine
    <3>1. CASE job'[v] = job[v] BY <1>2, <2>1, <3>1 DEF ClaimsAreDistinct
    <3>2. CASE job'[v] # job[v]
      <4>1. WorkerStep(v) BY <3>2, JobFrame, WorkerFrame
      <4>2. job'[v] \in Run BY <1>t, <2>1, RunIsNotIdle, NextType DEF TypeOK
      <4>3. \A m \in Mentor : NewRun(m).pc \notin {"claimed", "failed"} BY DEF NewRun
      <4>4. /\ job[v] \in Run /\ job'[v].m = job[v].m
            /\ job[v].pc # "claimed" => job'[v].pc # "failed"
            /\ \/ job'[v].mine = job[v].mine /\ job'[v].pc # "claimed"
               \/ ClaimRow(v)
        BY <2>1, <4>1, <4>2, <4>3, WorkerFrame DEF Run, Idle
      <4>5. ~ClaimRow(v)
        BY <1>2, <2>1, <4>4 DEF ClaimRow, Claimable, ClaimedLinkIsLive
      <4> QED BY <1>2, <2>1, <4>4, <4>5 DEF ClaimsAreDistinct
    <3> QED BY <3>1, <3>2
  <2> QED BY <1>2, <2>1 DEF ClaimsAreDistinct
<1> QED BY <1>1, <1>2, UnsentOrigin

\* ClaimedLinkIsUnseen is inductive: what is in an inbox was minted earlier, and no
\* other run mails this token.
LEMMA UnseenStep == LifecycleInv /\ [Next]_vars => ClaimedLinkIsUnseen'
<1> SUFFICES ASSUME LifecycleInv, [Next]_vars, NEW w \in Worker, Unsent(w)'
             PROVE  <<job'[w].m, job'[w].mine>> \notin (inbox \cup links)'
  BY DEF ClaimedLinkIsUnseen, Unsent
<1> USE DEF LifecycleInv
<1>t. /\ job \in [Worker -> Run \cup {Idle}] /\ minted \in [Mentor -> Nat]
      /\ inbox \cup links \subseteq Mentor \X Nat
  BY DEF TypeOK
<1>1. CASE Mints(w)
  <2> DEFINE m == job[w].m
             l == <<m, minted[m] + 1>>
  <2>1. m \in Mentor /\ minted[m] \in Nat BY <1>1, <1>t, MintEffect
  <2>2. job'[w].m = m /\ job'[w].mine = minted[m] + 1 /\ UNCHANGED <<inbox, links>>
    BY <1>1, MintEffect
  <2>3. l[1] = m /\ l[2] = minted[m] + 1 OBVIOUS
  <2>4. ASSUME l \in inbox \cup links PROVE FALSE
    <3>1. l[2] <= minted[l[1]] BY <2>4 DEF TokensAreMinted
    <3> QED BY <2>1, <2>3, <3>1
  <2> QED BY <2>2, <2>4
<1>2. CASE Unsent(w) /\ job'[w] = job[w]
  <2> DEFINE l == <<job[w].m, job[w].mine>>
  <2>r. job[w] \in Run BY <1>t, <1>2, RunIsNotIdle DEF Unsent
  <2>1. l \notin inbox \cup links BY <1>2 DEF ClaimedLinkIsUnseen
  <2>2. ASSUME NEW v \in Worker, SendOk(v) \/ SendFails(v), l = <<job[v].m, job[v].mine>>
        PROVE  FALSE
    <3>1. job[v].pc = "claimed" BY <2>2 DEF SendOk, SendFails
    <3>2. job[v] \in Run BY <1>t, <3>1, RunIsNotIdle
    <3>3. v = w BY <1>2, <2>2, <3>1 DEF ClaimsAreDistinct
    <3>4. CASE SendOk(w)
      <4>1. job'[w] = Idle BY <1>t, <3>4 DEF SendOk, EndRun
      <4> QED BY <1>2, <2>r, <4>1 DEF Run, Idle
    <3>5. CASE SendFails(w)
      <4>1. job'[w].pc = "failed" BY <1>t, <2>r, <3>5 DEF SendFails, Run
      <4> QED BY <1>2, <4>1 DEF Unsent
    <3> QED BY <2>2, <3>3, <3>4, <3>5
  <2>3. ASSUME NEW n \in Mentor, ResendConfirmation(n), l = <<n, minted[n] + 1>>
        PROVE  FALSE
    <3>1. job[w] # Idle /\ job[w].m \in Mentor /\ job[w].mine \in Nat
      BY <2>r DEF Run, Idle
    <3>2. job[w].mine <= minted[job[w].m] BY <3>1 DEF TokensAreMinted
    <3>3. job[w].m = n /\ job[w].mine = minted[n] + 1 BY <2>3
    <3> QED BY <1>t, <3>1, <3>2, <3>3
  <2>4. l \notin (inbox \cup links)' BY <2>1, <2>2, <2>3, LinkOrigin
  <2> QED BY <1>2, <2>4
<1> QED BY <1>1, <1>2, UnsentOrigin

\* Other people's steps leave the token and the window of an unsent link alone.
LEMMA UnsentIsLeftAlone ==
    ASSUME LifecycleInv, [Next]_vars, NEW w \in Worker, Unsent(w), job'[w] = job[w]
    PROVE  /\ row'[job[w].m].token = row[job[w].m].token
           /\ row'[job[w].m].window = row[job[w].m].window
<1> USE DEF LifecycleInv
<1> DEFINE m == job[w].m
           Alone == row'[m].token = row[m].token /\ row'[m].window = row[m].window
<1>t. /\ job \in [Worker -> Run \cup {Idle}] /\ row \in [Mentor -> Row]
  BY DEF TypeOK
<1>r. job[w] \in Run /\ job[w] # Idle
  BY <1>t, RunIsNotIdle DEF Unsent
<1>m. m \in Mentor /\ row[m] \in Row BY <1>t, <1>r DEF Run
<1>l. /\ row[m].token = job[w].mine /\ Usable(m) /\ job[w].mine # NoToken
      /\ <<m, row[m].token>> \notin inbox
  BY DEF ClaimedLinkIsLive, ClaimsAreDistinct, ClaimedLinkIsUnseen
<1> HIDE DEF m
<1>1. ASSUME NEW v \in Worker, WorkerStep(v) PROVE Alone
  <2>1. CASE ClaimRow(v)
    <3>1. job[v].m # m BY <2>1, <1>l DEF ClaimRow, Claimable
    <3> QED BY <1>t, <1>m, <2>1, <3>1 DEF ClaimRow, SetRow
  <2>2. CASE Release(v)
    <3>1. v # w BY <2>2 DEF Release, Unsent
    <3>2. job[v].m = m => job[v].mine # row[m].token
      BY <1>l, <2>2, <3>1 DEF Release, ClaimsAreDistinct, m
    <3> QED BY <1>t, <1>m, <2>2, <3>2 DEF Release, SetRow
  <2> QED
    BY <1>1, <2>1, <2>2 DEF WorkerStep, HandleTrigger, ReplayStuck, ReadMentor,
       CountDuplicates, LoseClaim, SendOk, SendFails, Crash
<1>2. ASSUME NEW c \in Caller, CallerStep(c) PROVE Alone
  BY <1>2, <1>m, CallerFrame DEF RequestFrame
<1>3. ASSUME NEW n \in Mentor, MentorStep(n) PROVE Alone
  <2>1. CASE n # m
    BY <1>3, <1>t, <1>m, <2>1 DEF MentorStep, Register, DropTrigger, GrowOlder,
       WindowCloses, ConfirmEmail, ResendConfirmation, DeactivateMentor,
       SoftDeleteMentor, RestoreMentor, RetentionElapses, PurgeProfile, SetRow
  <2>2. CASE n = m
    <3>1. ~Quiet(m) BY <1>r DEF Quiet, m
    <3>2. ~HoldsLink(m) BY <1>l DEF HoldsLink
    <3>3. row[m].status # "absent" BY <1>l, <1>m DEF AbsentHasNoToken
    <3>4. row[m].deleted # "past" BY <1>r, <1>m DEF PastIsQuiet, m
    <3>5. DropTrigger(m) \/ DeactivateMentor(m) \/ SoftDeleteMentor(m)
          \/ RestoreMentor(m) \/ (PurgeProfile(m) /\ row' = row)
      <4>1. ~Register(m) BY <3>3 DEF Register
      <4>2. ~GrowOlder(m) /\ ~WindowCloses(m) /\ ~RetentionElapses(m)
        BY <3>1 DEF GrowOlder, WindowCloses, RetentionElapses
      <4>3. ~ConfirmEmail(m) /\ ~ResendConfirmation(m)
        BY <3>2 DEF ConfirmEmail, ResendConfirmation
      <4>4. PurgeProfile(m) => row' = row BY <3>4 DEF PurgeProfile
      <4> QED BY <1>3, <2>2, <4>1, <4>2, <4>3, <4>4 DEF MentorStep
    <3>6. CASE DropTrigger(m) BY <3>6 DEF DropTrigger
    <3>7. CASE DeactivateMentor(m) BY <1>t, <1>m, <3>7 DEF DeactivateMentor, SetRow, Row
    <3>8. CASE SoftDeleteMentor(m) BY <1>t, <1>m, <3>8 DEF SoftDeleteMentor, SetRow, Row
    <3>9. CASE RestoreMentor(m) BY <1>t, <1>m, <3>9 DEF RestoreMentor, SetRow, Row
    <3> QED BY <3>5, <3>6, <3>7, <3>8, <3>9
  <2> QED BY <2>1, <2>2
<1>4. Alone
  BY <1>1, <1>2, <1>3 DEF Next, vars, DeliverLink, LoseLink, ListPurgeableProfiles
<1> QED BY <1>4 DEF m

\* ClaimedLinkIsLive is preserved under the rest of the inductive invariant.
LEMMA LiveStep == LifecycleInv /\ [Next]_vars => ClaimedLinkIsLive'
<1> SUFFICES ASSUME LifecycleInv, [Next]_vars, NEW w \in Worker, Unsent(w)'
             PROVE  /\ row'[job'[w].m].token = job'[w].mine
                    /\ row'[job'[w].m].window \in {"open", "ending"}
  BY DEF ClaimedLinkIsLive, Unsent, Usable
<1>1. TypeOK BY DEF LifecycleInv
<1>2. CASE Mints(w) BY <1>1, <1>2, MintEffect
<1>3. CASE Unsent(w) /\ job'[w] = job[w]
  BY <1>3, UnsentIsLeftAlone DEF LifecycleInv, ClaimedLinkIsLive, Usable
<1> QED BY <1>1, <1>2, <1>3, UnsentOrigin

\* LifecycleInv holds of every reachable state.
THEOREM LifecycleInvariant == Spec => []LifecycleInv
<1>1. Init => LifecycleInv
  <2> SUFFICES ASSUME Init PROVE LifecycleInv
    OBVIOUS
  <2>1. TypeOK BY NoRowType DEF Init, TypeOK, NoCall
  <2>2. \A w \in Worker :
            job[w] = Idle /\ ~Unsent(w) /\ job[w].pc \notin {"claimed", "failed"}
    BY DEF Init, Unsent, Idle
  <2>3. \A m \in Mentor : row[m] = NoRow /\ minted[m] = 0 BY DEF Init
  <2>4. inbox = {} /\ links = {} /\ trigger = {} BY DEF Init
  <2>5. DeletedIsHidden /\ AbsentHasNoToken /\ PastIsQuiet
    BY <2>3, <2>4 DEF DeletedIsHidden, AbsentHasNoToken, PastIsQuiet, NoRow
  <2>6. TokensAreMinted BY <2>2, <2>3, <2>4 DEF TokensAreMinted, NoRow, NoToken
  <2>7. ClaimsAreDistinct /\ ClaimedLinkIsUnseen /\ ClaimedLinkIsLive
    BY <2>2 DEF ClaimsAreDistinct, ClaimedLinkIsUnseen, ClaimedLinkIsLive
  <2> QED BY <2>1, <2>5, <2>6, <2>7 DEF LifecycleInv
<1>2. LifecycleInv /\ [Next]_vars => LifecycleInv'
  <2> SUFFICES ASSUME LifecycleInv, [Next]_vars PROVE LifecycleInv'
    OBVIOUS
  <2>1. TypeOK' BY NextType DEF LifecycleInv
  <2>2. DeletedIsHidden' BY HiddenStep DEF LifecycleInv
  <2>3. AbsentHasNoToken' BY AbsentStep DEF LifecycleInv
  <2>4. PastIsQuiet' BY PastStep DEF LifecycleInv
  <2>5. TokensAreMinted' BY TokensStep DEF LifecycleInv
  <2>6. ClaimsAreDistinct' BY DistinctStep
  <2>7. ClaimedLinkIsUnseen' BY UnseenStep
  <2>8. ClaimedLinkIsLive' BY LiveStep
  <2> QED
    BY <2>1, <2>2, <2>3, <2>4, <2>5, <2>6, <2>7, <2>8 DEF LifecycleInv
<1> QED BY <1>1, <1>2, PTL DEF Spec

\* From the claim to the send, the link about to be mailed is the one in the row and
\* its window is open.
THEOREM ClaimedStaysLive == Spec => []ClaimedLinkIsLive
<1>1. LifecycleInv => ClaimedLinkIsLive BY DEF LifecycleInv
<1> QED BY <1>1, LifecycleInvariant, PTL
--------------------------------------------------------------------------------
(* A link that works in an inbox.                                           *)

\* What reached an inbox stays there.
LEMMA InboxGrows ==
    ASSUME TypeOK, [Next]_vars
    PROVE  inbox \subseteq inbox'
<1>1. ASSUME NEW w \in Worker, WorkerStep(w) PROVE inbox \subseteq inbox'
  BY <1>1 DEF WorkerStep, HandleTrigger, ReplayStuck, ReadMentor, CountDuplicates,
     ClaimRow, LoseClaim, SendOk, SendFails, Delivered, Release, Crash
<1>2. ASSUME NEW c \in Caller, CallerStep(c) PROVE inbox \subseteq inbox'
  BY <1>2, CallerFrame DEF RequestFrame
<1>3. ASSUME NEW n \in Mentor, MentorStep(n) PROVE inbox \subseteq inbox'
  BY <1>3 DEF MentorStep, Register, DropTrigger, GrowOlder, WindowCloses, ConfirmEmail,
     ResendConfirmation, DeactivateMentor, SoftDeleteMentor, RestoreMentor,
     RetentionElapses, PurgeProfile
<1>4. ASSUME NEW l \in links, DeliverLink(l) \/ LoseLink(l) PROVE inbox \subseteq inbox'
  BY <1>4 DEF DeliverLink, LoseLink
<1> QED BY <1>1, <1>2, <1>3, <1>4 DEF Next, vars, ListPurgeableProfiles

\* Why m's working link stopped working.
Excused(m) ==
    \/ links' # links
    \/ row'[m].status # "draft" /\ job' = job
    \/ row'[m].window = "closed"
    \/ Releasing(m)

\* The steps about the mentor whose link it is.
LEMMA OwnStepExcused ==
    ASSUME TypeOK, TokensAreMinted, NEW m \in Mentor, MentorStep(m), HoldsLiveLink(m)
    PROVE  \/ Excused(m)
           \/ /\ row'[m].status = row[m].status /\ row'[m].token = row[m].token
              /\ row'[m].window \in {"open", "ending"}
<1>t. row \in [Mentor -> Row] /\ row[m] \in Row BY DEF TypeOK
<1>h. row[m].status = "draft" /\ row[m].window \in {"open", "ending"}
  BY DEF HoldsLiveLink, Usable
<1> USE <1>t, <1>h DEF SetRow
<1>1. CASE Register(m) BY <1>1 DEF Register
<1>2. CASE DropTrigger(m) BY <1>2 DEF DropTrigger
<1>3. CASE GrowOlder(m)
  <2> DEFINE r == [row[m] EXCEPT !.age = row[m].age + 1, !.window =
             IF row[m].window = "open" /\ row[m].age > 0
             THEN "ending" ELSE row[m].window]
  <2>1. row'[m] = r BY <1>3 DEF GrowOlder
  <2>2. /\ r.status = row[m].status /\ r.token = row[m].token
        /\ r.window \in {"open", "ending"}
    BY DEF Row
  <2> HIDE DEF r
  <2> QED BY <2>1, <2>2
<1>4. CASE WindowCloses(m) BY <1>4 DEF WindowCloses, Row, Excused
<1>5. CASE ConfirmEmail(m) BY <1>5 DEF ConfirmEmail, Row, Excused
<1>6. CASE ResendConfirmation(m)
  <2> DEFINE l == <<m, minted[m] + 1>>
  <2>1. links' = links \cup {l} BY <1>6 DEF ResendConfirmation
  <2>2. l[1] = m /\ l[2] = minted[m] + 1 /\ minted[m] \in Nat BY DEF TypeOK
  <2>3. l \notin links BY <2>2 DEF TokensAreMinted
  <2> QED BY <2>1, <2>3 DEF Excused
<1>7. CASE DeactivateMentor(m) BY <1>7 DEF DeactivateMentor
<1>8. CASE SoftDeleteMentor(m) BY <1>8 DEF SoftDeleteMentor, Row, Excused
<1>9. CASE RestoreMentor(m) BY <1>9 DEF RestoreMentor, Row, Excused
<1>10. CASE RetentionElapses(m) BY <1>10 DEF RetentionElapses, Row
<1>11. CASE PurgeProfile(m)
  <2>1. NoRow \in Row BY NoRowType
  <2> QED BY <1>11, <2>1 DEF PurgeProfile, Row, Excused
<1> QED
  BY <1>1, <1>2, <1>3, <1>4, <1>5, <1>6, <1>7, <1>8, <1>9, <1>10, <1>11
  DEF MentorStep

\* Only the mentor's own resend, a person's change of status, the end of the window or
\* the release of the send that delivered it make a working link stop working.
THEOREM LiveLinkStays == Spec => LiveLinkSurvives
<1> DEFINE Survives(m) == HoldsLiveLink(m) /\ ~HoldsLiveLink(m)' => Excused(m)
<1>1. LifecycleInv /\ [Next]_vars => \A m \in Mentor : Survives(m)
  <2> SUFFICES ASSUME LifecycleInv, [Next]_vars, NEW m \in Mentor, HoldsLiveLink(m)
               PROVE  Excused(m) \/ HoldsLiveLink(m)'
    OBVIOUS
  <2>t. TypeOK /\ TokensAreMinted /\ row \in [Mentor -> Row]
    BY DEF LifecycleInv, TypeOK
  <2>h. /\ row[m].token # NoToken /\ <<m, row[m].token>> \in inbox
        /\ row[m].status = "draft" /\ row[m].window \in {"open", "ending"}
    BY DEF HoldsLiveLink, HoldsLink, Usable
  <2>k. ASSUME /\ row'[m].status = row[m].status /\ row'[m].token = row[m].token
               /\ row'[m].window \in {"open", "ending"}
        PROVE  HoldsLiveLink(m)'
    BY <2>t, <2>h, <2>k, InboxGrows DEF HoldsLiveLink, HoldsLink, Usable
  <2>1. ASSUME NEW w \in Worker, WorkerStep(w) PROVE Excused(m) \/ row'[m] = row[m]
    <3>1. CASE ClaimRow(w)
      <4>1. job[w].m # m BY <2>h, <3>1 DEF ClaimRow, Claimable, Usable
      <4> QED BY <2>t, <3>1, <4>1 DEF ClaimRow, SetRow
    <3>2. CASE Release(w)
      <4>1. CASE job[w].m = m /\ row[m].token = job[w].mine
        BY <3>2, <4>1 DEF Release, Releasing, Excused
      <4>2. CASE ~(job[w].m = m /\ row[m].token = job[w].mine)
        BY <2>t, <3>2, <4>2 DEF Release, SetRow
      <4> QED BY <4>1, <4>2
    <3> QED
      BY <2>1, <3>1, <3>2 DEF WorkerStep, HandleTrigger, ReplayStuck, ReadMentor,
         CountDuplicates, LoseClaim, SendOk, SendFails, Crash
  <2>2. ASSUME NEW c \in Caller, CallerStep(c)
        PROVE  \/ Excused(m)
               \/ /\ row'[m].status = row[m].status /\ row'[m].token = row[m].token
                  /\ row'[m].window = row[m].window
    <3>1. /\ job' = job /\ row'[m].token = row[m].token
          /\ row'[m].window = row[m].window
      BY <2>t, <2>2, CallerFrame DEF RequestFrame
    <3> QED BY <2>h, <3>1 DEF Excused
  <2>3. ASSUME NEW n \in Mentor, MentorStep(n), n # m PROVE row'[m] = row[m]
    BY <2>t, <2>3 DEF MentorStep, Register, DropTrigger, GrowOlder, WindowCloses,
       ConfirmEmail, ResendConfirmation, DeactivateMentor, SoftDeleteMentor,
       RestoreMentor, RetentionElapses, PurgeProfile, SetRow
  <2>4. CASE MentorStep(m) BY <2>t, <2>k, <2>4, OwnStepExcused
  <2>5. CASE row' = row BY <2>h, <2>k, <2>5
  <2> QED
    BY <2>h, <2>k, <2>1, <2>2, <2>3, <2>4, <2>5
    DEF Next, vars, DeliverLink, LoseLink, ListPurgeableProfiles
<1>2. (\A m \in Mentor : Survives(m)) => [\A m \in Mentor : Survives(m)]_vars
  OBVIOUS
<1> QED
  BY <1>1, <1>2, LifecycleInvariant, PTL
  DEF Spec, LiveLinkSurvives, Excused
================================================================================
