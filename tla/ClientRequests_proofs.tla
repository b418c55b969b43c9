------------------------- MODULE ClientRequests_proofs --------------------------
(***************************************************************************)
(* Safety of the requests and their reviews, for any number of requests,   *)
(* invitations, callers, jobs and submissions, with and without overrides. *)
(***************************************************************************)
EXTENDS ClientRequests, FiniteSetTheorems, TLAPS

\* What a call may still do was allowed from the status it read.
CallsAllowed == \A c \in Caller :
    /\ call[c].by = "status" => CanTransitionTo(call[c].expected, call[c].to)
    /\ call[c].by = "decline" => call[c].expected \in Open /\ call[c].to = "declined"
    /\ call[c].by = "override" => call[c].to \in OverrideTo

\* One job at most has claimed a request it has not announced, and nobody has
\* before the request is stamped.
ClaimedOnce == \A r \in Request :
    /\ announced[r] \in {0, 1}
    /\ ~request[r].stamped => announced[r] = 0
    /\ \A w \in Worker : Announcing(w, r) =>
          /\ request[r].stamped /\ announced[r] = 0
          /\ \A v \in Worker : Announcing(v, r) => v = w
    /\ request[r].stamped => request[r].status # "none"

\* An invitation a submission has claimed is live, for its request, and nobody
\* else's: not another submission's and not the deletion's.
ClaimsHold ==
    /\ \A s \in Submitter : submission[s] # Idle /\ submission[s].t # Legacy =>
          /\ submission[s].t \in Live
          /\ invitation[submission[s].t].r = submission[s].r
          /\ submission[s].t \notin deletion.ts
    /\ \A s1, s2 \in Submitter :
          /\ submission[s1] # Idle /\ submission[s2] # Idle
          /\ submission[s1].t = submission[s2].t /\ submission[s1].t # Legacy
          => s1 = s2
    /\ deletion.ts \subseteq Live

\* Without overrides a completed request stays completed.
DoneIsFinal == OverrideTo = {} =>
    /\ \A r \in Request : reviews[r] > 0 => request[r].status = "done"
    /\ \A s \in Submitter : submission[s].pc = "eligible" => request[submission[s].r].status = "done"

RequestInv ==
    TypeOK /\ CallsAllowed /\ ClaimedOnce /\ ClaimsHold /\ ReviewsMatchSpends /\ DoneIsFinal

-----------------------------------------------------------------------------
(* Type correctness.                                                       *)

\* A status written to a row, with its stamp, leaves a row.
LEMMA StampedRow ==
    ASSUME NEW rows \in [Request -> Row], NEW r \in Request, NEW to \in Status
    PROVE  [rows EXCEPT ![r].status = to, ![r].stamped = TRUE] \in [Request -> Row]
<1>1. [rows[r] EXCEPT !.status = to, !.stamped = TRUE] \in Row BY DEF Row
<1> QED BY <1>1

\* The calls of mentors and moderators stay typed.
LEMMA CallerTypes ==
    ASSUME TypeOK, NEW c \in Caller, CallerStep(c)
    PROVE  TypeOK'
<1> USE DEF TypeOK, Row, Call, NoCall, Status, Open, Closed
<1>1. ASSUME NEW r \in Request, NEW to \in Status, NEW by \in {"status", "decline", "override"},
             request[r].status \in Status, Begin(c, by, r, to)
      PROVE  TypeOK'
  <2>1. [by |-> by, r |-> r, expected |-> request[r].status, to |-> to] \in Call
    BY <1>1
  <2> HIDE DEF Call
  <2> QED BY <1>1, <2>1 DEF Begin
<1>2. ASSUME NEW notify, call[c].by # "none", CompareAndSet(c, notify)
      PROVE  TypeOK'
  <2>1. call[c] \in Call BY <1>2
  <2>2. call[c].r \in Request /\ call[c].to \in Status BY <2>1
  <2>3. request' \in [Request -> Row]
    <3> HIDE DEF Row, Status
    <3> QED BY <1>2, <2>2, StampedRow DEF CompareAndSet
  <2>4. callback' \subseteq {"created", "finished"} \X Request BY <1>2, <2>2 DEF CompareAndSet
  <2> QED BY <1>2, <2>3, <2>4 DEF CompareAndSet
<1>3. ASSUME NEW r \in Request,
             BeginUpdateStatus(c, r) \/ BeginDecline(c, r) \/ BeginOverride(c, r)
      PROVE  TypeOK'
  <2>1. request[r].status \in Status \cup {"none"} OBVIOUS
  <2>2. CASE BeginUpdateStatus(c, r) BY <1>1, <2>2 DEF BeginUpdateStatus, CanTransitionTo
  <2>3. CASE BeginDecline(c, r) BY <1>1, <2>3 DEF BeginDecline
  <2>4. CASE BeginOverride(c, r) BY <1>1, <2>1, <2>4, RequestsAssumption DEF BeginOverride
  <2> QED BY <1>3, <2>2, <2>3, <2>4
<1>4. CASE UpdateStatus(c) BY <1>2, <1>4 DEF UpdateStatus
<1>5. CASE UpdateDecline(c) BY <1>2, <1>5 DEF UpdateDecline
<1>6. CASE UpdateRequestStatus(c) BY <1>2, <1>6 DEF UpdateRequestStatus
<1> QED BY <1>3, <1>4, <1>5, <1>6 DEF CallerStep

\* A job leaves every variable typed.
LEMMA WorkerTypes ==
    ASSUME TypeOK, NEW w \in Worker, WorkerStep(w)
    PROVE  TypeOK'
<1> USE DEF TypeOK, Row, Job, Idle, Start, Invitation, NoInvitation, Status, Open, Closed
<1>1. ASSUME NEW r \in Request, NewRequestWatcher(w, r) PROVE TypeOK' BY <1>1 DEF NewRequestWatcher
<1>2. ASSUME NEW r \in Request, RequestProcessFinished(w, r) PROVE TypeOK'
  BY <1>2 DEF RequestProcessFinished
<1>3. CASE SetRequestContactPending(w)
  <2>1. job[w].r \in Request BY <1>3 DEF SetRequestContactPending
  <2>2. request' \in [Request -> Row]
    <3>1. "pending" \in Status OBVIOUS
    <3>2. request \in [Request -> Row] OBVIOUS
    <3> HIDE DEF Row, Status
    <3>3. [request EXCEPT ![job[w].r].status = "pending", ![job[w].r].stamped = TRUE] \in [Request -> Row]
      BY <2>1, <3>1, <3>2, StampedRow
    <3> QED BY <1>3, <3>2, <3>3 DEF SetRequestContactPending
  <2>3. job' \in [Worker -> Job \cup {Idle}] BY <1>3, <2>1 DEF SetRequestContactPending
  <2> QED BY <1>3, <2>2, <2>3 DEF SetRequestContactPending
<1>4. CASE Announce(w) BY <1>4 DEF Announce
<1>5. CASE CreateReviewInvitation(w)
  <2>1. job[w].r \in Request BY <1>5 DEF CreateReviewInvitation
  <2> QED BY <1>5, <2>1 DEF CreateReviewInvitation
<1>6. CASE MailInvitation(w) BY <1>6 DEF MailInvitation
<1>7. CASE JobFails(w) BY <1>7 DEF JobFails
<1> QED BY <1>1, <1>2, <1>3, <1>4, <1>5, <1>6, <1>7 DEF WorkerStep

\* So does the submission of a review.
LEMMA SubmitterTypes ==
    ASSUME TypeOK, ClaimsHold, NEW s \in Submitter, SubmitterStep(s)
    PROVE  TypeOK'
<1> USE DEF TypeOK, Submission, Idle, BeginSubmission, EndSubmission, Invitation, NoInvitation
<1>1. ASSUME NEW t \in Token, ClaimInvitation(s, t) PROVE TypeOK' BY <1>1 DEF ClaimInvitation, Live
<1>2. ASSUME NEW r \in Request, SubmitReviewForRequest(s, r) PROVE TypeOK'
  BY <1>2 DEF SubmitReviewForRequest
<1>3. CASE ReadEligibility(s) BY <1>3 DEF ReadEligibility
<1>4. CASE InsertReview(s)
  <2>1. submission[s].r \in Request /\ submission[s].t \in Token \cup {Legacy}
    BY <1>4 DEF InsertReview
  <2>2. submission[s].t # Legacy =>
           [invitation EXCEPT ![submission[s].t].state = "consumed"]
               \in [Token -> Invitation \cup {NoInvitation}]
    BY <1>4, <2>1 DEF InsertReview, ClaimsHold, Live
  <2> HIDE DEF Invitation, NoInvitation
  <2>3. invitation' \in [Token -> Invitation \cup {NoInvitation}]
    BY <1>4, <2>1, <2>2 DEF InsertReview
  <2>4. reviews' \in [Request -> Nat] BY <1>4, <2>1 DEF InsertReview
  <2> QED BY <1>4, <2>3, <2>4 DEF InsertReview
<1>5. CASE Rollback(s) BY <1>5 DEF Rollback
<1> QED BY <1>1, <1>2, <1>3, <1>4, <1>5 DEF SubmitterStep

\* So do a deletion, a restore and a mentor who pauses or comes back.
LEMMA ProfileTypes ==
    ASSUME TypeOK, ClaimsHold, DeletionStep \/ SetMentorStatus \/ RestoreMentor
    PROVE  TypeOK'
<1> USE DEF TypeOK, Delete, NoDeletion, Live, Invitation, NoInvitation
<1>1. CASE MarkDeleted BY <1>1 DEF MarkDeleted
<1>2. CASE ListInvitations BY <1>2 DEF ListInvitations
<1>3. CASE CommitDeletion
  <2>1. invitation' \in [Token -> Invitation \cup {NoInvitation}]
    <3>1. \A t \in deletion.ts : invitation[t] \in Invitation BY DEF ClaimsHold
    <3>2. \A t \in deletion.ts : [invitation[t] EXCEPT !.state = "revoked"] \in Invitation
      BY <3>1
    <3> HIDE DEF Invitation, NoInvitation
    <3> QED BY <1>3, <3>2 DEF CommitDeletion
  <2> QED BY <1>3, <2>1 DEF CommitDeletion
<1>4. CASE DeletionFails BY <1>4 DEF DeletionFails
<1>5. ASSUME NEW t \in Token, RevokeInvitation(t) PROVE TypeOK'
  <2>1. /\ deletion.todo \ {t} \in SUBSET Token
        /\ deletion.ts \cup ({t} \cap Live) \in SUBSET Token
    OBVIOUS
  <2>2. deletion' \in [pc : {"idle", "marked", "revoking"}, todo : SUBSET Token, ts : SUBSET Token]
    <3>1. deletion' = [deletion EXCEPT !.todo = deletion.todo \ {t},
                                       !.ts = deletion.ts \cup ({t} \cap Live)]
      BY <1>5 DEF RevokeInvitation
    <3> DEFINE todo == deletion.todo \ {t}
               ts == deletion.ts \cup ({t} \cap Live)
    <3> HIDE DEF todo, ts
    <3>2. deletion' = [deletion EXCEPT !.todo = todo, !.ts = ts] BY <3>1 DEF todo, ts
    <3>3. todo \in SUBSET Token /\ ts \in SUBSET Token BY <2>1 DEF todo, ts
    <3> QED BY <3>2, <3>3
  <2> QED BY <1>5, <2>2 DEF RevokeInvitation
<1>6. CASE SetMentorStatus \/ RestoreMentor
  BY <1>6 DEF SetMentorStatus, RestoreMentor, MoveProfile
<1> QED BY <1>1, <1>2, <1>3, <1>4, <1>5, <1>6 DEF DeletionStep

\* The first state is typed.
LEMMA InitTypes == Init => TypeOK
<1> HAVE Init
<1>1. NoRow \in Row BY DEF NoRow, Row
<1>2. NoDeletion \in [pc : {"idle", "marked", "revoking"}, todo : SUBSET Token, ts : SUBSET Token]
  BY DEF NoDeletion
<1>3. invitation \in [Token -> Invitation \cup {NoInvitation}] /\ request \in [Request -> Row]
  BY <1>1 DEF Init
<1>4. call \in [Caller -> Call \cup {NoCall}] BY DEF Init
<1>5. job \in [Worker -> Job \cup {Idle}] BY DEF Init
<1>6. submission \in [Submitter -> Submission \cup {Idle}] BY DEF Init
<1>7. reviews \in [Request -> Nat] /\ announced \in [Request -> Nat] BY DEF Init
<1> QED BY <1>2, <1>3, <1>4, <1>5, <1>6, <1>7 DEF Init, TypeOK

\* Every step keeps the types, once the claims are known to be held.
LEMMA NextTypes == TypeOK /\ ClaimsHold /\ [Next]_vars => TypeOK'
<1> SUFFICES ASSUME TypeOK, ClaimsHold, [Next]_vars PROVE TypeOK'
  OBVIOUS
<1>1. ASSUME NEW r \in Request, Contact(r) PROVE TypeOK'
  BY <1>1 DEF Contact, TypeOK, Row, Status, Open, Closed
<1>2. ASSUME NEW r \in Request, RevokeLegacyLink(r) PROVE TypeOK'
  BY <1>2 DEF RevokeLegacyLink, TypeOK, Row
<1>3. ASSUME NEW t \in Token, Expire(t) PROVE TypeOK'
  BY <1>3 DEF Expire, TypeOK, Invitation, NoInvitation, Live
<1>4. CASE UNCHANGED vars BY <1>4 DEF vars, TypeOK
<1> QED BY <1>1, <1>2, <1>3, <1>4, CallerTypes, WorkerTypes, SubmitterTypes, ProfileTypes DEF Next

-----------------------------------------------------------------------------
(* Announcements.                                                          *)

\* A step that neither stamps a request, nor claims or announces one.
LEMMA ClaimsUntouched ==
    ASSUME TypeOK, TypeOK', ClaimedOnce, UNCHANGED announced,
           \A r \in Request : request'[r].stamped = request[r].stamped,
           \A r \in Request : request[r].stamped => request'[r].status # "none",
           \A w \in Worker, r \in Request : Announcing(w, r)' => Announcing(w, r)
    PROVE  ClaimedOnce'
BY DEF ClaimedOnce

\* Nothing makes a second confirmation due, or a first one undone.
LEMMA AnnounceNext ==
    ASSUME TypeOK, TypeOK', ClaimedOnce, [Next]_vars
    PROVE  ClaimedOnce'
<1>1. ASSUME NEW c \in Caller, CallerStep(c) PROVE ClaimedOnce'
  <2>1. UNCHANGED <<announced, job>>
    BY <1>1 DEF CallerStep, BeginUpdateStatus, BeginDecline, BeginOverride, Begin,
                UpdateStatus, UpdateDecline, UpdateRequestStatus, CompareAndSet
  <2>2. ASSUME NEW notify, call[c].by # "none", CompareAndSet(c, notify) PROVE ClaimedOnce'
    <3>1. call[c] \in Call BY <2>2 DEF TypeOK, NoCall
    <3>2. call[c].r \in Request /\ call[c].to # "none" /\ call[c].expected # "none"
      BY <3>1 DEF Call, Status, Open, Closed
    <3>3. CASE request' = request BY <2>1, <3>3, ClaimsUntouched DEF Announcing, ClaimedOnce
    <3>4. CASE request[call[c].r].status = call[c].expected
               /\ request' = [request EXCEPT ![call[c].r].status = call[c].to, ![call[c].r].stamped = TRUE]
      <4>1. \A r \in Request : request[r] \in Row BY DEF TypeOK
      <4>2. request'[call[c].r].stamped /\ request'[call[c].r].status # "none"
        BY <3>2, <3>4, <4>1 DEF TypeOK, Row
      <4>3. \A r \in Request \ {call[c].r} : request'[r] = request[r] BY <3>4 DEF TypeOK
      <4> QED BY <2>1, <3>2, <4>2, <4>3 DEF ClaimedOnce, Announcing
    <3> QED BY <2>2, <3>3, <3>4 DEF CompareAndSet
  <2>3. CASE UNCHANGED request BY <2>1, <2>3, ClaimsUntouched DEF Announcing, ClaimedOnce
  <2>4. CASE UpdateStatus(c) BY <2>2, <2>4 DEF UpdateStatus
  <2>5. CASE UpdateDecline(c) BY <2>2, <2>5 DEF UpdateDecline
  <2>6. CASE UpdateRequestStatus(c) BY <2>2, <2>6 DEF UpdateRequestStatus
  <2> QED BY <1>1, <2>3, <2>4, <2>5, <2>6
          DEF CallerStep, BeginUpdateStatus, BeginDecline, BeginOverride, Begin
<1>2. ASSUME NEW w \in Worker, WorkerStep(w) PROVE ClaimedOnce'
  <2>1. CASE SetRequestContactPending(w)
    <3> DEFINE q == job[w].r
    <3>1. q \in Request BY <2>1 DEF SetRequestContactPending, TypeOK, Job, Idle
    <3>2. UNCHANGED announced BY <2>1 DEF SetRequestContactPending
    <3>3. CASE Claims(q)
      <4>1. /\ request' = [request EXCEPT ![q].status = "pending", ![q].stamped = TRUE]
            /\ job' = [job EXCEPT ![w].pc = "claimed"]
        BY <2>1, <3>3 DEF SetRequestContactPending
      <4>2. request[q] \in Row /\ \A r \in Request \ {q} : request'[r] = request[r]
        BY <3>1, <4>1 DEF TypeOK
      <4>3. request'[q].stamped /\ request'[q].status # "none"
        BY <3>1, <4>1, <4>2 DEF TypeOK, Row
      <4>4. ~request[q].stamped BY <3>3 DEF Claims
      <4>5. \A v \in Worker, r \in Request :
               Announcing(v, r)' => Announcing(v, r) \/ (v = w /\ r = q)
        BY <4>1 DEF Announcing, TypeOK
      <4> QED BY <3>1, <3>2, <4>2, <4>3, <4>4, <4>5 DEF ClaimedOnce
    <3>4. CASE ~Claims(q)
      <4>1. request' = request /\ job' = [job EXCEPT ![w] = Idle]
        BY <2>1, <3>4 DEF SetRequestContactPending
      <4> QED BY <3>2, <4>1, ClaimsUntouched DEF Announcing, TypeOK, Idle, ClaimedOnce
    <3> QED BY <3>3, <3>4
  <2>2. CASE Announce(w)
    <3>1. PICK q \in Request : q = job[w].r BY <2>2 DEF Announce, TypeOK, Job, Idle
    <3>2. Announcing(w, q) BY <2>2, <3>1 DEF Announce, Announcing
    <3>3. request' = request /\ announced' = [announced EXCEPT ![q] = @ + 1]
      BY <2>2, <3>1 DEF Announce
    <3>4. \A v \in Worker, r \in Request : Announcing(v, r)' => v # w /\ Announcing(v, r)
      BY <2>2 DEF Announce, Announcing, TypeOK, Idle
    <3>5. announced[q] = 0 /\ request[q].stamped /\ \A v \in Worker : ~Announcing(v, q)'
      BY <3>1, <3>2, <3>4 DEF ClaimedOnce
    <3>6. announced'[q] = 1 /\ \A r \in Request \ {q} : announced'[r] = announced[r]
      BY <3>1, <3>3, <3>5 DEF TypeOK
    <3> QED BY <3>1, <3>3, <3>4, <3>5, <3>6 DEF ClaimedOnce
  <2>3. ASSUME UNCHANGED <<request, announced>>,
               \A v \in Worker : job'[v] # job[v] => job'[v].pc # "claimed"
        PROVE  ClaimedOnce'
    BY <2>3, ClaimsUntouched DEF Announcing, ClaimedOnce
  <2>4. ASSUME NEW r \in Request, NewRequestWatcher(w, r) \/ RequestProcessFinished(w, r)
        PROVE  ClaimedOnce'
    BY <2>3, <2>4 DEF NewRequestWatcher, RequestProcessFinished, Start, TypeOK
  <2>5. CASE CreateReviewInvitation(w) BY <2>3, <2>5 DEF CreateReviewInvitation, TypeOK
  <2>6. CASE MailInvitation(w) BY <2>3, <2>6 DEF MailInvitation, TypeOK, Idle
  <2>7. CASE JobFails(w) BY <2>3, <2>7 DEF JobFails, TypeOK, Idle
  <2> QED BY <1>2, <2>1, <2>2, <2>4, <2>5, <2>6, <2>7 DEF WorkerStep
<1>3. ASSUME NEW r \in Request, Contact(r) PROVE ClaimedOnce'
  <2>1. UNCHANGED <<announced, job>> /\ request[r] = NoRow
        /\ request' = [request EXCEPT ![r].status = "pending"]
    BY <1>3 DEF Contact
  <2>2. \A q \in Request : request'[q].stamped = request[q].stamped
                           /\ (request[q].stamped => request'[q].status # "none")
    BY <2>1 DEF TypeOK, Row, NoRow, ClaimedOnce
  <2> QED BY <2>1, <2>2, ClaimsUntouched DEF Announcing
<1>4. ASSUME NEW r \in Request, RevokeLegacyLink(r) PROVE ClaimedOnce'
  <2>1. UNCHANGED <<announced, job>> /\ request' = [request EXCEPT ![r].revoked = TRUE]
    BY <1>4 DEF RevokeLegacyLink
  <2>2. \A q \in Request : request'[q].stamped = request[q].stamped /\ request'[q].status = request[q].status
    BY <2>1 DEF TypeOK, Row
  <2> QED BY <2>1, <2>2, ClaimsUntouched DEF Announcing, ClaimedOnce
<1>5. CASE UNCHANGED <<request, job, announced>>
  BY <1>5, ClaimsUntouched DEF Announcing, ClaimedOnce
<1>6. ASSUME NEW s \in Submitter, SubmitterStep(s) PROVE UNCHANGED <<request, job, announced>>
  BY <1>6 DEF SubmitterStep, ClaimInvitation, SubmitReviewForRequest, BeginSubmission,
              ReadEligibility, InsertReview, Rollback
<1>7. ASSUME (\E t \in Token : Expire(t)) \/ DeletionStep \/ SetMentorStatus \/ RestoreMentor
      PROVE  UNCHANGED <<request, job, announced>>
  BY <1>7 DEF Expire, DeletionStep, MarkDeleted, ListInvitations, CommitDeletion, DeletionFails,
              RevokeInvitation, Delete, SetMentorStatus, RestoreMentor, MoveProfile
<1> QED BY <1>1, <1>2, <1>3, <1>4, <1>5, <1>6, <1>7 DEF Next, vars
-----------------------------------------------------------------------------
(* Reviews and the invitations they spend.                                 *)

\* A submission goes on with what it claimed, or ends.
GoesOnOrEnds == \A s \in Submitter :
    \/ submission'[s] = Idle
    \/ /\ submission[s] # Idle
       /\ submission'[s].r = submission[s].r /\ submission'[s].t = submission[s].t

\* An invitation without a claim may appear, expire or be revoked: what is
\* claimed stays as it is, and nothing is spent.
LEMMA UnclaimedMove ==
    ASSUME TypeOK, ClaimsHold, ReviewsMatchSpends, GoesOnOrEnds, UNCHANGED reviews,
           \A t \in Token : invitation'[t] # invitation[t] =>
              /\ invitation'[t].state # "consumed" /\ invitation[t].state # "consumed"
              /\ t \notin Locked /\ t \notin deletion'.ts,
           deletion'.ts \subseteq deletion.ts \cup (Live \ Locked)
    PROVE  ClaimsHold' /\ ReviewsMatchSpends'
<1>1. Spent' = Spent /\ \A t \in Spent : invitation'[t] = invitation[t] BY DEF Spent
<1>2. ReviewsMatchSpends' BY <1>1 DEF ReviewsMatchSpends
<1>3. \A s \in Submitter : submission'[s] # Idle =>
         /\ submission[s] # Idle /\ submission[s].t = submission'[s].t
         /\ submission[s].r = submission'[s].r /\ submission[s].t \in Locked
  BY DEF GoesOnOrEnds, Locked
<1>4. \A s \in Submitter : submission'[s] # Idle /\ submission'[s].t # Legacy =>
         /\ submission'[s].t \in Live'
         /\ invitation'[submission'[s].t].r = submission'[s].r
         /\ submission'[s].t \notin deletion'.ts
  BY <1>3 DEF ClaimsHold, Live
<1>5. deletion'.ts \subseteq Live'
  BY DEF ClaimsHold, Live
<1>6. \A s1, s2 \in Submitter :
          /\ submission'[s1] # Idle /\ submission'[s2] # Idle
          /\ submission'[s1].t = submission'[s2].t /\ submission'[s1].t # Legacy
          => s1 = s2
  BY <1>3 DEF ClaimsHold
<1> QED BY <1>2, <1>4, <1>5, <1>6 DEF ClaimsHold

\* A review is stored and its invitation, if it has one, is spent.
LEMMA InsertSpends ==
    ASSUME TypeOK, ClaimsHold, ReviewsMatchSpends, NEW s \in Submitter, InsertReview(s)
    PROVE  ClaimsHold' /\ ReviewsMatchSpends'
<1>1. PICK r \in Request : r = submission[s].r
  BY DEF InsertReview, TypeOK, Submission, Idle
<1>2. PICK t \in Token \cup {Legacy} : t = submission[s].t
  BY DEF InsertReview, TypeOK, Submission, Idle
<1>3. submission[s] # Idle /\ submission' = [submission EXCEPT ![s] = Idle] /\ UNCHANGED deletion
  BY DEF InsertReview, EndSubmission, Idle
<1>4. GoesOnOrEnds BY <1>3 DEF GoesOnOrEnds, TypeOK
<1>5. CASE reviews[r] # 0
  BY <1>1, <1>3, <1>4, <1>5, UnclaimedMove DEF InsertReview, ClaimsHold
<1>6. CASE reviews[r] = 0 /\ t = Legacy
  <2>1. reviews' = [reviews EXCEPT ![r] = 1] /\ invitation' = invitation
    BY <1>1, <1>2, <1>6 DEF InsertReview
  <2>2. Spent' = Spent /\ \A u \in Spent : invitation[u].r # r
    BY <1>6, <2>1 DEF ReviewsMatchSpends, Spent
  <2>3. /\ reviews'[r] = 1 /\ \A q \in Request \ {r} : reviews'[q] = reviews[q]
        /\ \A q \in Request : reviews'[q] <= 1
    BY <2>1 DEF TypeOK, ReviewsMatchSpends
  <2>4. ReviewsMatchSpends'
    <3>1. \A u \in Spent : invitation[u].r \in Request BY DEF Spent, TypeOK, Invitation, NoInvitation
    <3> QED BY <2>1, <2>2, <2>3, <3>1 DEF ReviewsMatchSpends
  <2>5. ClaimsHold' BY <1>3, <2>1 DEF ClaimsHold, Live, TypeOK
  <2> QED BY <2>4, <2>5
<1>7. CASE reviews[r] = 0 /\ t # Legacy
  <2>1. reviews' = [reviews EXCEPT ![r] = 1] /\ invitation' = [invitation EXCEPT ![t].state = "consumed"]
    BY <1>1, <1>2, <1>7 DEF InsertReview
  <2>2. t \in Token /\ t \in Live /\ invitation[t].r = r /\ t \notin deletion.ts
    BY <1>1, <1>2, <1>3, <1>7 DEF ClaimsHold
  <2>3. /\ invitation'[t].state = "consumed" /\ invitation'[t].r = r
        /\ \A u \in Token \ {t} : invitation'[u] = invitation[u]
    <3>1. invitation[t] \in Invitation BY <2>2 DEF TypeOK, NoInvitation, Live
    <3> QED BY <2>1, <2>2, <3>1 DEF TypeOK, Invitation
  <2>4. Spent' = Spent \cup {t} BY <2>2, <2>3 DEF Spent
  <2>5. \A u \in Spent : invitation[u].r # r /\ u # t /\ invitation[u].r \in Request
    <3>1. \A u \in Spent : invitation[u].r \in Request BY DEF Spent, TypeOK, Invitation, NoInvitation
    <3> QED BY <1>7, <2>2, <3>1 DEF ReviewsMatchSpends, Spent, Live
  <2>6. /\ reviews'[r] = 1 /\ \A q \in Request \ {r} : reviews'[q] = reviews[q]
        /\ \A q \in Request : reviews'[q] <= 1
    BY <2>1 DEF TypeOK, ReviewsMatchSpends
  <2>7. \A u \in Spent : invitation'[u] = invitation[u] BY <2>3, <2>5 DEF Spent
  <2>8. ReviewsMatchSpends' BY <2>3, <2>4, <2>5, <2>6, <2>7 DEF ReviewsMatchSpends
  <2>9. \A x \in Submitter : submission'[x] # Idle =>
           x # s /\ submission'[x] = submission[x]
    BY <1>3 DEF TypeOK
  <2>10. \A x \in Submitter : submission'[x] # Idle => submission'[x].t # t
    BY <1>2, <1>3, <1>7, <2>9 DEF ClaimsHold
  <2>11. Live' = Live \ {t} BY <2>2, <2>3 DEF Live
  <2>12. \A x \in Submitter : submission'[x] # Idle /\ submission'[x].t # Legacy =>
            /\ submission'[x].t \in Live'
            /\ invitation'[submission'[x].t].r = submission'[x].r
            /\ submission'[x].t \notin deletion'.ts
    <3> SUFFICES ASSUME NEW x \in Submitter, submission'[x] # Idle, submission'[x].t # Legacy
                 PROVE  /\ submission'[x].t \in Live'
                        /\ invitation'[submission'[x].t].r = submission'[x].r
                        /\ submission'[x].t \notin deletion'.ts
      OBVIOUS
    <3>1. submission'[x] = submission[x] /\ submission[x].t # t BY <2>9, <2>10
    <3>2. /\ submission[x].t \in Live /\ submission[x].t \notin deletion.ts
          /\ invitation[submission[x].t].r = submission[x].r
      BY <3>1 DEF ClaimsHold
    <3>3. submission[x].t \in Token BY <3>2 DEF Live
    <3> QED BY <1>3, <2>3, <2>11, <3>1, <3>2, <3>3
  <2>13. \A s1, s2 \in Submitter :
          /\ submission'[s1] # Idle /\ submission'[s2] # Idle
          /\ submission'[s1].t = submission'[s2].t /\ submission'[s1].t # Legacy
          => s1 = s2
    BY <2>9 DEF ClaimsHold
  <2>14. deletion'.ts \subseteq Live' BY <1>3, <2>2, <2>11 DEF ClaimsHold
  <2> QED BY <2>8, <2>12, <2>13, <2>14 DEF ClaimsHold
<1> QED BY <1>5, <1>6, <1>7

\* A token is spent in the statement that stores its review.
LEMMA SpendNext ==
    ASSUME TypeOK, ClaimsHold, ReviewsMatchSpends, [Next]_vars
    PROVE  ClaimsHold' /\ ReviewsMatchSpends'
<1>1. ASSUME NEW s \in Submitter, SubmitterStep(s) PROVE ClaimsHold' /\ ReviewsMatchSpends'
  <2>1. CASE InsertReview(s) BY <2>1, InsertSpends
  <2>2. CASE ReadEligibility(s) \/ Rollback(s)
    <3>1. UNCHANGED <<reviews, invitation, deletion>> BY <2>2 DEF ReadEligibility, Rollback
    <3>2. GoesOnOrEnds
      <4>1. submission[s] # Idle BY <2>2 DEF ReadEligibility, Rollback, Idle
      <4>2. \/ submission' = [submission EXCEPT ![s] = Idle]
            \/ submission' = [submission EXCEPT ![s].pc = "eligible"]
        BY <2>2 DEF ReadEligibility, Rollback, EndSubmission
      <4> QED BY <4>1, <4>2 DEF GoesOnOrEnds, TypeOK, Submission
    <3> QED BY <3>1, <3>2, UnclaimedMove
  <2>3. ASSUME NEW j \in Submission, BeginSubmission(s, j),
               j.t # Legacy => /\ j.t \in Live /\ invitation[j.t].r = j.r
                               /\ j.t \notin Locked /\ j.t \notin deletion.ts
        PROVE  ClaimsHold' /\ ReviewsMatchSpends'
    <3>1. /\ submission' = [submission EXCEPT ![s] = j]
          /\ UNCHANGED <<reviews, invitation, deletion>>
      BY <2>3 DEF BeginSubmission
    <3>2. ReviewsMatchSpends' BY <3>1 DEF ReviewsMatchSpends, Spent
    <3>3. /\ submission'[s] = j
          /\ \A x \in Submitter \ {s} : submission'[x] = submission[x]
      BY <3>1 DEF TypeOK
    <3>4. \A x \in Submitter : submission[x] # Idle => submission[x].t \in Locked BY DEF Locked
    <3> QED BY <2>3, <3>1, <3>2, <3>3, <3>4 DEF ClaimsHold, Live
  <2>4. ASSUME NEW t \in Token, ClaimInvitation(s, t) PROVE ClaimsHold' /\ ReviewsMatchSpends'
    <3> DEFINE j == [pc |-> "claimed", r |-> invitation[t].r, t |-> t]
    <3>1. j \in Submission
      BY <2>4 DEF ClaimInvitation, Live, TypeOK, Invitation, NoInvitation, Submission
    <3>2. BeginSubmission(s, j) /\ t \in Live /\ t \notin Locked /\ t \notin deletion.ts
      BY <2>4 DEF ClaimInvitation
    <3>3. j.t = t /\ j.r = invitation[t].r OBVIOUS
    <3> HIDE DEF j
    <3> QED BY <2>3, <3>1, <3>2, <3>3
  <2>5. ASSUME NEW r \in Request, SubmitReviewForRequest(s, r) PROVE ClaimsHold' /\ ReviewsMatchSpends'
    <3> DEFINE j == [pc |-> "claimed", r |-> r, t |-> Legacy]
    <3>1. j \in Submission /\ j.t = Legacy BY DEF Submission
    <3>2. BeginSubmission(s, j) BY <2>5 DEF SubmitReviewForRequest
    <3> HIDE DEF j
    <3> QED BY <2>3, <3>1, <3>2
  <2> QED BY <1>1, <2>1, <2>2, <2>4, <2>5 DEF SubmitterStep
<1>2. ASSUME UNCHANGED <<reviews, submission>>, UNCHANGED invitation, UNCHANGED deletion
      PROVE  ClaimsHold' /\ ReviewsMatchSpends'
  BY <1>2 DEF ClaimsHold, ReviewsMatchSpends, Live, Spent
<1>3. ASSUME UNCHANGED submission PROVE GoesOnOrEnds BY <1>3 DEF GoesOnOrEnds
<1>4. ASSUME NEW w \in Worker, WorkerStep(w) PROVE ClaimsHold' /\ ReviewsMatchSpends'
  <2>1. CASE CreateReviewInvitation(w)
    <3>1. PICK t \in Token : /\ invitation[t] = NoInvitation
                             /\ invitation' = [invitation EXCEPT ![t] = [state |-> "live", r |-> job[w].r]]
      BY <2>1 DEF CreateReviewInvitation
    <3>2. UNCHANGED <<reviews, submission, deletion>> BY <2>1 DEF CreateReviewInvitation
    <3>3. \A u \in Token : invitation'[u] # invitation[u] => u = t /\ invitation'[u].state = "live"
      BY <3>1 DEF TypeOK
    <3>4. invitation[t].state = "none" BY <3>1 DEF NoInvitation
    <3>5. t \notin Locked
      BY <3>4, LegacyAssumption DEF Locked, ClaimsHold, Live
    <3>6. t \notin deletion.ts BY <3>4 DEF ClaimsHold, Live
    <3> QED BY <1>3, <3>2, <3>3, <3>4, <3>5, <3>6, UnclaimedMove DEF ClaimsHold
  <2>2. CASE UNCHANGED <<reviews, invitation, submission, deletion>> BY <1>2, <2>2
  <2> QED BY <1>4, <2>1, <2>2
          DEF WorkerStep, NewRequestWatcher, RequestProcessFinished, Start, SetRequestContactPending,
              Announce, MailInvitation, JobFails
<1>5. ASSUME NEW t \in Token, Expire(t) PROVE ClaimsHold' /\ ReviewsMatchSpends'
  <2>1. /\ t \in Live /\ t \notin Locked /\ t \notin deletion.ts
        /\ invitation' = [invitation EXCEPT ![t].state = "expired"]
        /\ UNCHANGED <<reviews, submission, deletion>>
    BY <1>5 DEF Expire
  <2>2. invitation[t] \in Invitation BY <2>1 DEF Live, TypeOK, NoInvitation
  <2>3. \A u \in Token : invitation'[u] # invitation[u] => u = t /\ invitation'[u].state = "expired"
    BY <2>1, <2>2 DEF TypeOK, Invitation
  <2>4. invitation[t].state = "live" BY <2>1 DEF Live
  <2> QED BY <1>3, <2>1, <2>3, <2>4, UnclaimedMove DEF ClaimsHold
<1>6. CASE DeletionStep
  <2>1. UNCHANGED <<reviews, submission>>
    BY <1>6 DEF DeletionStep, MarkDeleted, ListInvitations, CommitDeletion, DeletionFails,
                RevokeInvitation, Delete
  <2>2. CASE MarkDeleted \/ ListInvitations \/ DeletionFails
    <3>1. UNCHANGED invitation /\ deletion'.ts \subseteq deletion.ts
      <4>1. CASE MarkDeleted BY <4>1 DEF MarkDeleted, Delete, TypeOK
      <4>2. CASE ListInvitations
        <5>1. UNCHANGED invitation /\ deletion' = [deletion EXCEPT !.pc = "revoking", !.todo = Live]
          BY <4>2 DEF ListInvitations, Delete
        <5>2. deletion'.ts = deletion.ts BY <5>1 DEF TypeOK
        <5> QED BY <5>1, <5>2
      <4>3. CASE DeletionFails BY <4>3 DEF DeletionFails, Delete, NoDeletion
      <4> QED BY <2>2, <4>1, <4>2, <4>3
    <3> QED BY <1>3, <2>1, <3>1, UnclaimedMove
  <2>3. ASSUME NEW t \in Token, RevokeInvitation(t) PROVE ClaimsHold' /\ ReviewsMatchSpends'
    <3>1. UNCHANGED invitation /\ t \notin Locked BY <2>3 DEF RevokeInvitation
    <3>2. deletion'.ts = deletion.ts \cup ({t} \cap Live)
      BY <2>3 DEF RevokeInvitation, Delete, TypeOK
    <3> QED BY <1>3, <2>1, <3>1, <3>2, UnclaimedMove
  <2>4. CASE CommitDeletion
    <3>1. /\ deletion' = NoDeletion
          /\ \A t \in Token : invitation'[t] = IF t \in deletion.ts
                                THEN [invitation[t] EXCEPT !.state = "revoked"] ELSE invitation[t]
      BY <2>4 DEF CommitDeletion, Delete
    <3>2. deletion'.ts = {} BY <3>1 DEF NoDeletion
    <3>3. \A t \in deletion.ts : invitation[t] \in Invitation /\ invitation[t].state = "live"
      BY DEF ClaimsHold, Live, TypeOK, NoInvitation
    <3>4. \A t \in Token : invitation'[t] # invitation[t] =>
             /\ t \in deletion.ts /\ invitation'[t].state = "revoked" /\ invitation[t].state = "live"
      BY <3>1, <3>3 DEF Invitation
    <3>5. \A t \in Token : t \in deletion.ts => t \notin Locked
      BY LegacyAssumption DEF ClaimsHold, Locked
    <3> QED BY <1>3, <2>1, <3>2, <3>4, <3>5, UnclaimedMove
  <2> QED BY <1>6, <2>2, <2>3, <2>4 DEF DeletionStep
<1>7. ASSUME UNCHANGED vars \/ SetMentorStatus \/ RestoreMentor
             \/ (\E r \in Request : Contact(r) \/ RevokeLegacyLink(r))
             \/ (\E c \in Caller : CallerStep(c))
      PROVE  UNCHANGED <<reviews, invitation, submission, deletion>>
  BY <1>7 DEF vars, SetMentorStatus, RestoreMentor, MoveProfile, Contact, RevokeLegacyLink, CallerStep,
              BeginUpdateStatus, BeginDecline, BeginOverride, Begin,
              UpdateStatus, UpdateDecline, UpdateRequestStatus, CompareAndSet
<1> QED BY <1>1, <1>2, <1>4, <1>5, <1>6, <1>7 DEF Next
-----------------------------------------------------------------------------
(* Completed requests.                                                     *)

\* A call goes on only from the state it has read.
LEMMA CallsNext ==
    ASSUME TypeOK, TypeOK', CallsAllowed, [Next]_vars
    PROVE  CallsAllowed'
<1>1. CASE UNCHANGED call BY <1>1 DEF CallsAllowed
<1>2. ASSUME NEW c \in Caller, CallerStep(c) PROVE CallsAllowed'
  <2>1. ASSUME NEW by \in {"status", "decline", "override"}, NEW r \in Request, NEW to, Begin(c, by, r, to),
               by = "status" => CanTransitionTo(request[r].status, to),
               by = "decline" => request[r].status \in Open /\ to = "declined",
               by = "override" => to \in OverrideTo
        PROVE  CallsAllowed'
    <3>1. call' = [call EXCEPT ![c] = [by |-> by, r |-> r, expected |-> request[r].status, to |-> to]]
      BY <2>1 DEF Begin
    <3>2. /\ call'[c] = [by |-> by, r |-> r, expected |-> request[r].status, to |-> to]
          /\ \A d \in Caller \ {c} : call'[d] = call[d]
      BY <3>1 DEF TypeOK
    <3>3. /\ call'[c].by = by /\ call'[c].expected = request[r].status /\ call'[c].to = to
      BY <3>2
    <3> QED BY <2>1, <3>2, <3>3 DEF CallsAllowed
  <2>2. ASSUME NEW r \in Request, BeginUpdateStatus(c, r) \/ BeginDecline(c, r) \/ BeginOverride(c, r)
        PROVE  CallsAllowed'
    BY <2>1, <2>2 DEF BeginUpdateStatus, BeginDecline, BeginOverride
  <2>3. CASE UpdateStatus(c) \/ UpdateDecline(c) \/ UpdateRequestStatus(c)
    <3>1. call' = [call EXCEPT ![c] = NoCall]
      BY <2>3 DEF UpdateStatus, UpdateDecline, UpdateRequestStatus, CompareAndSet
    <3> QED BY <3>1 DEF CallsAllowed, NoCall, TypeOK
  <2> QED BY <1>2, <2>2, <2>3 DEF CallerStep
<1>3. ASSUME \/ UNCHANGED vars \/ DeletionStep \/ SetMentorStatus \/ RestoreMentor
             \/ \E r \in Request : Contact(r) \/ RevokeLegacyLink(r)
             \/ \E t \in Token : Expire(t)
      PROVE  UNCHANGED call
  BY <1>3 DEF vars, DeletionStep, MarkDeleted, ListInvitations, CommitDeletion, DeletionFails,
              RevokeInvitation, Delete, SetMentorStatus, RestoreMentor, MoveProfile, Contact,
              RevokeLegacyLink, Expire
<1>4. ASSUME NEW w \in Worker, WorkerStep(w) PROVE UNCHANGED call
  BY <1>4 DEF WorkerStep, NewRequestWatcher, RequestProcessFinished, Start, SetRequestContactPending,
              Announce, CreateReviewInvitation, MailInvitation, JobFails
<1>5. ASSUME NEW s \in Submitter, SubmitterStep(s) PROVE UNCHANGED call
  BY <1>5 DEF SubmitterStep, ClaimInvitation, SubmitReviewForRequest, BeginSubmission,
              ReadEligibility, InsertReview, Rollback
<1> QED BY <1>1, <1>2, <1>3, <1>4, <1>5 DEF Next

\* A status moves along the workflow, or by an override: what is done stays so.
LEMMA CallerMoves ==
    ASSUME TypeOK, CallsAllowed, NEW c \in Caller, CallerStep(c)
    PROVE  \/ UNCHANGED request
           \/ \E r \in Request, to \in Status :
                 /\ request' = [request EXCEPT ![r].status = to, ![r].stamped = TRUE]
                 /\ request[r].status # "none"
                 /\ to \in OverrideTo \/ <<request[r].status, to>> \in Workflow!Edge
<1>1. ASSUME NEW notify, call[c].by # "none", CompareAndSet(c, notify),
             call[c].to \in OverrideTo \/ <<call[c].expected, call[c].to>> \in Workflow!Edge
      PROVE  \/ UNCHANGED request
             \/ \E r \in Request, to \in Status :
                 /\ request' = [request EXCEPT ![r].status = to, ![r].stamped = TRUE]
                 /\ request[r].status # "none"
                 /\ to \in OverrideTo \/ <<request[r].status, to>> \in Workflow!Edge
  <2>1. call[c] \in Call BY <1>1 DEF TypeOK, NoCall
  <2>2. call[c].r \in Request /\ call[c].to \in Status /\ call[c].expected # "none"
    BY <2>1 DEF Call, Status, Open, Closed
  <2> QED BY <1>1, <2>2 DEF CompareAndSet
<1>2. CASE UpdateStatus(c)
  <2>1. CanTransitionTo(call[c].expected, call[c].to) BY <1>2 DEF UpdateStatus, CallsAllowed
  <2>2. <<call[c].expected, call[c].to>> \in Workflow!Edge
    BY <2>1 DEF CanTransitionTo, Workflow!Edge, Workflow!Open
  <2> QED BY <1>1, <1>2, <2>2 DEF UpdateStatus
<1>3. CASE UpdateDecline(c)
  <2>1. <<call[c].expected, call[c].to>> \in Workflow!Edge
    BY <1>3 DEF UpdateDecline, CallsAllowed, Open, Workflow!Edge, Workflow!Open
  <2> QED BY <1>1, <1>3, <2>1 DEF UpdateDecline
<1>4. CASE UpdateRequestStatus(c) BY <1>1, <1>4 DEF UpdateRequestStatus, CallsAllowed
<1> QED BY <1>2, <1>3, <1>4
        DEF CallerStep, BeginUpdateStatus, BeginDecline, BeginOverride, Begin

\* A request that is done and reviewed is not taken up again.
LEMMA DoneNext ==
    ASSUME TypeOK, TypeOK', CallsAllowed, DoneIsFinal, [Next]_vars
    PROVE  DoneIsFinal'
<1> SUFFICES ASSUME OverrideTo = {}
             PROVE  /\ \A r \in Request : reviews'[r] > 0 => request'[r].status = "done"
                    /\ \A s \in Submitter : submission'[s].pc = "eligible" =>
                          request'[submission'[s].r].status = "done"
  BY DEF DoneIsFinal
<1>0. /\ \A r \in Request : reviews[r] > 0 => request[r].status = "done"
      /\ \A s \in Submitter : submission[s].pc = "eligible" => request[submission[s].r].status = "done"
      /\ \A s \in Submitter : submission[s].pc = "eligible" => submission[s].r \in Request
  BY DEF DoneIsFinal, TypeOK, Submission, Idle
<1>1. ASSUME UNCHANGED reviews,
             \A r \in Request : request[r].status = "done" => request'[r].status = "done",
             \A s \in Submitter : submission'[s].pc = "eligible" =>
                submission[s].pc = "eligible" /\ submission'[s].r = submission[s].r
      PROVE  /\ \A r \in Request : reviews'[r] > 0 => request'[r].status = "done"
             /\ \A s \in Submitter : submission'[s].pc = "eligible" =>
                   request'[submission'[s].r].status = "done"
  BY <1>0, <1>1
<1>2. ASSUME NEW c \in Caller, CallerStep(c)
      PROVE  /\ UNCHANGED <<reviews, submission>>
             /\ \A r \in Request : request[r].status = "done" => request'[r].status = "done"
  <2>1. UNCHANGED <<reviews, submission>>
    BY <1>2 DEF CallerStep, BeginUpdateStatus, BeginDecline, BeginOverride, Begin,
              UpdateStatus, UpdateDecline, UpdateRequestStatus, CompareAndSet
  <2>2. ASSUME NEW r \in Request, NEW to \in Status,
               request' = [request EXCEPT ![r].status = to, ![r].stamped = TRUE],
               <<request[r].status, to>> \in Workflow!Edge
        PROVE  \A q \in Request : request[q].status = "done" => request'[q].status = "done"
    <3>1. request[r].status # "done" BY <2>2 DEF Workflow!Edge, Workflow!Open
    <3> QED BY <2>2, <3>1 DEF TypeOK
  <2> QED BY <1>2, <2>1, <2>2, CallerMoves
<1>3. ASSUME NEW w \in Worker, WorkerStep(w)
      PROVE  /\ UNCHANGED <<reviews, submission>>
             /\ \A r \in Request : request[r].status = "done" => request'[r].status = "done"
  <2>1. UNCHANGED <<reviews, submission>>
    BY <1>3 DEF WorkerStep, NewRequestWatcher, RequestProcessFinished, Start, SetRequestContactPending,
                Announce, CreateReviewInvitation, MailInvitation, JobFails
  <2>2. CASE UNCHANGED request BY <2>1, <2>2
  <2>3. CASE SetRequestContactPending(w)
    BY <2>1, <2>3 DEF SetRequestContactPending, Claims, TypeOK
  <2> QED BY <1>3, <2>2, <2>3
          DEF WorkerStep, NewRequestWatcher, RequestProcessFinished, Start, Announce,
              CreateReviewInvitation, MailInvitation, JobFails
<1>4. ASSUME NEW r \in Request, Contact(r) \/ RevokeLegacyLink(r)
      PROVE  /\ UNCHANGED <<reviews, submission>>
             /\ \A q \in Request : request[q].status = "done" => request'[q].status = "done"
  BY <1>4 DEF Contact, RevokeLegacyLink, NoRow, TypeOK, Row
<1>5. ASSUME UNCHANGED vars \/ DeletionStep \/ SetMentorStatus \/ RestoreMentor
             \/ \E t \in Token : Expire(t)
      PROVE  UNCHANGED <<request, reviews, submission>>
  BY <1>5 DEF vars, DeletionStep, MarkDeleted, ListInvitations, CommitDeletion, DeletionFails,
              RevokeInvitation, Delete, SetMentorStatus, RestoreMentor, MoveProfile, Expire
<1>6. ASSUME NEW s \in Submitter, SubmitterStep(s)
      PROVE  /\ \A r \in Request : reviews'[r] > 0 => request'[r].status = "done"
             /\ \A x \in Submitter : submission'[x].pc = "eligible" =>
                   request'[submission'[x].r].status = "done"
  <2>1. UNCHANGED request
    BY <1>6 DEF SubmitterStep, ClaimInvitation, SubmitReviewForRequest, BeginSubmission,
                ReadEligibility, InsertReview, Rollback
  <2>2. CASE InsertReview(s)
    <3>1. PICK r \in Request : r = submission[s].r /\ request[r].status = "done"
      BY <1>0, <2>2 DEF InsertReview
    <3>2. submission' = [submission EXCEPT ![s] = Idle]
          /\ (reviews' = reviews \/ reviews' = [reviews EXCEPT ![r] = 1])
      BY <2>2, <3>1 DEF InsertReview, EndSubmission
    <3> QED BY <1>0, <2>1, <3>1, <3>2 DEF TypeOK, Idle
  <2>3. CASE ReadEligibility(s)
    <3>1. UNCHANGED reviews BY <2>3 DEF ReadEligibility
    <3>2. CASE submission' = [submission EXCEPT ![s] = Idle]
      BY <1>0, <2>1, <3>1, <3>2 DEF TypeOK, Idle
    <3>3. CASE Eligible(submission[s].r, submission[s].t)
               /\ submission' = [submission EXCEPT ![s].pc = "eligible"]
      <4>1. submission[s] # Idle BY <2>3 DEF ReadEligibility, Idle
      <4>2. submission'[s].r = submission[s].r /\ request[submission[s].r].status = "done"
        BY <3>3, <4>1 DEF Eligible, TypeOK, Submission
      <4>3. \A x \in Submitter \ {s} : submission'[x] = submission[x] BY <3>3 DEF TypeOK
      <4> QED BY <1>0, <2>1, <3>1, <4>2, <4>3
    <3> QED BY <2>3, <3>2, <3>3 DEF ReadEligibility, EndSubmission
  <2>4. CASE Rollback(s)
    BY <1>1, <2>1, <2>4 DEF Rollback, EndSubmission, TypeOK, Idle
  <2>5. ASSUME NEW j, BeginSubmission(s, j), j.pc = "claimed"
        PROVE  /\ UNCHANGED reviews
               /\ \A x \in Submitter : submission'[x].pc = "eligible" =>
                     submission[x].pc = "eligible" /\ submission'[x].r = submission[x].r
    BY <2>5 DEF BeginSubmission, TypeOK
  <2>6. ASSUME NEW t \in Token, ClaimInvitation(s, t)
        PROVE  /\ UNCHANGED reviews
               /\ \A x \in Submitter : submission'[x].pc = "eligible" =>
                     submission[x].pc = "eligible" /\ submission'[x].r = submission[x].r
    BY <2>5, <2>6 DEF ClaimInvitation
  <2>7. ASSUME NEW r \in Request, SubmitReviewForRequest(s, r)
        PROVE  /\ UNCHANGED reviews
               /\ \A x \in Submitter : submission'[x].pc = "eligible" =>
                     submission[x].pc = "eligible" /\ submission'[x].r = submission[x].r
    BY <2>5, <2>7 DEF SubmitReviewForRequest
  <2> QED BY <1>1, <1>6, <2>1, <2>2, <2>3, <2>4, <2>6, <2>7 DEF SubmitterStep
<1> QED BY <1>1, <1>2, <1>3, <1>4, <1>5, <1>6 DEF Next
-----------------------------------------------------------------------------
(* The invariant and what follows from it.                                 *)

\* The first state is in the invariant.
LEMMA RequestInitInv == Init => RequestInv
<1> HAVE Init
<1>1. TypeOK BY InitTypes
<1>2. CallsAllowed BY DEF Init, CallsAllowed, NoCall
<1>3. ClaimedOnce BY DEF Init, ClaimedOnce, NoRow, Announcing, Idle
<1>4. ClaimsHold BY DEF Init, ClaimsHold, NoDeletion
<1>5. ReviewsMatchSpends BY DEF Init, ReviewsMatchSpends, Spent, NoInvitation
<1>6. DoneIsFinal BY DEF Init, DoneIsFinal, Idle
<1> QED BY <1>1, <1>2, <1>3, <1>4, <1>5, <1>6 DEF RequestInv

\* Every step stays in the invariant.
LEMMA RequestNextInv == RequestInv /\ [Next]_vars => RequestInv'
<1> SUFFICES ASSUME RequestInv, [Next]_vars PROVE RequestInv'
  OBVIOUS
<1>1. TypeOK' BY NextTypes DEF RequestInv
<1>2. CallsAllowed' BY <1>1, CallsNext DEF RequestInv
<1>3. ClaimedOnce' BY <1>1, AnnounceNext DEF RequestInv
<1>4. ClaimsHold' /\ ReviewsMatchSpends' BY SpendNext DEF RequestInv
<1>5. DoneIsFinal' BY <1>1, DoneNext DEF RequestInv
<1> QED BY <1>1, <1>2, <1>3, <1>4, <1>5 DEF RequestInv

\* It holds in every reachable state.
LEMMA RequestsInvariant == Spec => []RequestInv
BY RequestInitInv, RequestNextInv, PTL DEF Spec

\* Every reachable state is well typed, whatever the constants (the rows and
\* columns of client_requests, reviews and review_invitations).
THEOREM RequestsTyped == Spec => []TypeOK
<1>1. RequestInv => TypeOK BY DEF RequestInv
<1> QED BY <1>1, RequestsInvariant, PTL

\* For any number of callbacks, jobs and retries, a request is announced once
\* at most (SetRequestContactPending).
THEOREM RequestsAnnouncedOnce == Spec => []AnnouncedOnce
<1>1. RequestInv => AnnouncedOnce
  <2> SUFFICES ASSUME RequestInv, NEW r \in Request
               PROVE  announced[r] + Cardinality({w \in Worker : Announcing(w, r)}) <= 1
    BY DEF AnnouncedOnce
  <2> DEFINE claiming == {w \in Worker : Announcing(w, r)}
  <2>1. announced[r] \in {0, 1} BY DEF RequestInv, ClaimedOnce
  <2>2. CASE claiming = {}
    <3>1. Cardinality(claiming) = 0 BY <2>2, FS_EmptySet
    <3> QED BY <2>1, <3>1
  <2>3. CASE claiming # {}
    <3>1. PICK w \in Worker : Announcing(w, r) BY <2>3
    <3>2. announced[r] = 0 /\ claiming = {w} BY <3>1 DEF RequestInv, ClaimedOnce
    <3>3. Cardinality({w}) = 1 BY FS_Singleton
    <3> QED BY <3>2, <3>3
  <2> QED BY <2>2, <2>3
<1> QED BY <1>1, RequestsInvariant, PTL

\* For any number of submissions and links, a request is reviewed once at most
\* and a link is spent by the review it stored (SubmitReviewWithToken).
THEOREM ReviewsSpendOnce == Spec => []ReviewsMatchSpends
<1>1. RequestInv => ReviewsMatchSpends BY DEF RequestInv
<1> QED BY <1>1, RequestsInvariant, PTL

\* Without overrides a reviewed request is completed for good, whatever the
\* mentor's tabs do (UpdateStatus and readEligibility).
THEOREM ReviewedStaysDone == Spec => []ReviewedIsDone
<1>1. RequestInv => ReviewedIsDone BY DEF RequestInv, DoneIsFinal, ReviewedIsDone
<1> QED BY <1>1, RequestsInvariant, PTL

\* No step spends or revives a revoked invitation, for any number of them
\* (CommitDeletion of the profile, InsertReview).
THEOREM RevokedStaysFinal == Spec => RevokedIsFinal
<1> DEFINE Final == \A t \in Token : invitation[t].state = "revoked" => invitation'[t] = invitation[t]
<1>1. RequestInv /\ [Next]_vars => [Final]_vars
  <2> SUFFICES ASSUME RequestInv, Next, NEW t \in Token, invitation[t].state = "revoked"
               PROVE  invitation'[t] = invitation[t]
    OBVIOUS
  <2> USE DEF RequestInv, TypeOK
  <2>1. t \notin Live /\ t \notin deletion.ts BY DEF Live, ClaimsHold
  <2>2. ASSUME NEW w \in Worker, WorkerStep(w) PROVE invitation'[t] = invitation[t]
    <3>1. CASE CreateReviewInvitation(w) BY <3>1 DEF CreateReviewInvitation, NoInvitation
    <3>2. CASE UNCHANGED invitation BY <3>2
    <3> QED BY <2>2, <3>1, <3>2
          DEF WorkerStep, NewRequestWatcher, RequestProcessFinished, Start, SetRequestContactPending,
              Announce, MailInvitation, JobFails
  <2>3. ASSUME NEW s \in Submitter, SubmitterStep(s) PROVE invitation'[t] = invitation[t]
    <3>1. CASE InsertReview(s)
      <4>1. submission[s] # Idle BY <3>1 DEF InsertReview, Idle
      <4>2. submission[s].t = Legacy \/ submission[s].t # t BY <2>1, <4>1 DEF ClaimsHold
      <4> QED BY <3>1, <4>2 DEF InsertReview
    <3>2. CASE UNCHANGED invitation BY <3>2
    <3> QED BY <2>3, <3>1, <3>2
        DEF SubmitterStep, ClaimInvitation, SubmitReviewForRequest, BeginSubmission, ReadEligibility, Rollback
  <2>4. CASE DeletionStep
    <3>1. CASE CommitDeletion BY <2>1, <3>1 DEF CommitDeletion
    <3>2. CASE UNCHANGED invitation BY <3>2
    <3> QED BY <2>4, <3>1, <3>2
        DEF DeletionStep, MarkDeleted, ListInvitations, DeletionFails, RevokeInvitation
  <2>5. ASSUME NEW u \in Token, Expire(u) PROVE invitation'[t] = invitation[t]
    BY <2>1, <2>5 DEF Expire
  <2>6. ASSUME \/ SetMentorStatus \/ RestoreMentor
               \/ \E r \in Request : Contact(r) \/ RevokeLegacyLink(r)
               \/ \E c \in Caller : CallerStep(c)
        PROVE  UNCHANGED invitation
    BY <2>6 DEF SetMentorStatus, RestoreMentor, MoveProfile, Contact, RevokeLegacyLink, CallerStep,
                BeginUpdateStatus, BeginDecline, BeginOverride, Begin,
                UpdateStatus, UpdateDecline, UpdateRequestStatus, CompareAndSet
  <2> QED BY <2>2, <2>3, <2>4, <2>5, <2>6 DEF Next
<1> QED BY <1>1, RequestsInvariant, PTL DEF Spec, RevokedIsFinal, Final

-----------------------------------------------------------------------------
(* The workflow.                                                           *)

StatusOf == [r \in Request |-> request[r].status]

\* A step of the requests is a step of the workflow, or none.
LEMMA WorkflowStep == ASSUME RequestInv, [Next]_vars PROVE [Workflow!Next]_(Workflow!vars)
<1> USE DEF RequestInv, Workflow!vars
<1>0. CASE UNCHANGED <<request, announced, reviews>> BY <1>0
<1>1. ASSUME NEW r \in Request, Contact(r) PROVE Workflow!Ask(r)
  <2>1. /\ request[r] = NoRow /\ request' = [request EXCEPT ![r].status = "pending"]
        /\ UNCHANGED <<announced, reviews>>
    BY <1>1 DEF Contact
  <2>2. StatusOf' = [StatusOf EXCEPT ![r] = "pending"] BY <2>1 DEF StatusOf, TypeOK, Row
  <2>3. StatusOf[r] = "none" BY <2>1 DEF StatusOf, NoRow
  <2> QED BY <2>1, <2>2, <2>3 DEF Workflow!Ask, StatusOf
<1>2. ASSUME NEW r \in Request, RevokeLegacyLink(r) PROVE UNCHANGED Workflow!vars
  <2>1. request' = [request EXCEPT ![r].revoked = TRUE] /\ UNCHANGED <<announced, reviews>>
    BY <1>2 DEF RevokeLegacyLink
  <2>2. StatusOf' = StatusOf BY <2>1 DEF StatusOf, TypeOK, Row
  <2> QED BY <2>1, <2>2 DEF StatusOf
<1>3. ASSUME NEW c \in Caller, CallerStep(c) PROVE [Workflow!Next]_(Workflow!vars)
  <2>1. UNCHANGED <<announced, reviews>>
    BY <1>3 DEF CallerStep, BeginUpdateStatus, BeginDecline, BeginOverride, Begin,
              UpdateStatus, UpdateDecline, UpdateRequestStatus, CompareAndSet
  <2>2. ASSUME NEW r \in Request, NEW to \in Status,
               request' = [request EXCEPT ![r].status = to, ![r].stamped = TRUE],
               request[r].status # "none",
               to \in OverrideTo \/ <<request[r].status, to>> \in Workflow!Edge
        PROVE  Workflow!Next
    <3>1. StatusOf' = [StatusOf EXCEPT ![r] = to] /\ StatusOf[r] = request[r].status
      BY <2>2 DEF StatusOf, TypeOK, Row
    <3>2. to \in Workflow!Open \cup Workflow!Closed
      BY DEF Status, Open, Closed, Workflow!Open, Workflow!Closed
    <3>3. CASE to \in OverrideTo
      <4>1. Workflow!Correct(r) BY <2>1, <2>2, <3>1, <3>3 DEF Workflow!Correct, StatusOf
      <4> QED BY <4>1 DEF Workflow!Next
    <3>4. CASE <<request[r].status, to>> \in Workflow!Edge
      <4>1. Workflow!Advance(r) BY <2>1, <3>1, <3>2, <3>4 DEF Workflow!Advance, StatusOf
      <4> QED BY <4>1 DEF Workflow!Next
    <3> QED BY <2>2, <3>3, <3>4
  <2> QED BY <1>0, <1>3, <2>1, <2>2, CallerMoves
<1>4. ASSUME NEW w \in Worker, WorkerStep(w) PROVE [Workflow!Next]_(Workflow!vars)
  <2>1. CASE SetRequestContactPending(w)
    <3>1. UNCHANGED <<announced, reviews>> BY <2>1 DEF SetRequestContactPending
    <3>2. StatusOf' = StatusOf BY <2>1 DEF SetRequestContactPending, Claims, StatusOf, TypeOK, Row
    <3> QED BY <3>1, <3>2 DEF StatusOf
  <2>2. CASE Announce(w)
    <3>1. PICK r \in Request : r = job[w].r BY <2>2 DEF Announce, TypeOK, Job, Idle
    <3>2. Announcing(w, r) BY <2>2, <3>1 DEF Announce, Announcing
    <3>3. announced[r] = 0 /\ request[r].status # "none" BY <3>1, <3>2 DEF ClaimedOnce
    <3>4. announced' = [announced EXCEPT ![r] = 1] /\ UNCHANGED <<request, reviews>>
      BY <2>2, <3>1, <3>3 DEF Announce, TypeOK
    <3>5. Workflow!Announce(r) BY <3>3, <3>4 DEF Workflow!Announce
    <3> QED BY <3>5 DEF Workflow!Next
  <2> QED BY <1>0, <1>4, <2>1, <2>2
          DEF WorkerStep, NewRequestWatcher, RequestProcessFinished, Start, CreateReviewInvitation,
              MailInvitation, JobFails
<1>5. ASSUME NEW s \in Submitter, SubmitterStep(s) PROVE [Workflow!Next]_(Workflow!vars)
  <2>1. CASE InsertReview(s)
    <3>1. PICK r \in Request : r = submission[s].r
      BY <2>1 DEF InsertReview, TypeOK, Submission, Idle
    <3>2. UNCHANGED <<request, announced>> BY <2>1 DEF InsertReview
    <3>3. CASE reviews[r] = 0
      <4>1. reviews' = [reviews EXCEPT ![r] = 1] BY <2>1, <3>1, <3>3 DEF InsertReview
      <4>2. request[r].status = "done" \/ OverrideTo # {}
        BY <2>1, <3>1 DEF InsertReview, DoneIsFinal
      <4>3. Workflow!Review(r) BY <3>2, <3>3, <4>1, <4>2 DEF Workflow!Review
      <4> QED BY <4>3 DEF Workflow!Next
    <3>4. CASE reviews[r] # 0 BY <1>0, <2>1, <3>1, <3>2, <3>4 DEF InsertReview
    <3> QED BY <3>3, <3>4
  <2> QED BY <1>0, <1>5, <2>1
      DEF SubmitterStep, ClaimInvitation, SubmitReviewForRequest, BeginSubmission, ReadEligibility, Rollback
<1>6. ASSUME UNCHANGED vars \/ DeletionStep \/ SetMentorStatus \/ RestoreMentor
             \/ \E t \in Token : Expire(t)
      PROVE  UNCHANGED <<request, announced, reviews>>
  BY <1>6 DEF vars, DeletionStep, MarkDeleted, ListInvitations, CommitDeletion, DeletionFails,
              RevokeInvitation, Delete, SetMentorStatus, RestoreMentor, MoveProfile, Expire
<1>7. ASSUME NEW r \in Request, Workflow!Ask(r) PROVE Workflow!Next BY <1>7 DEF Workflow!Next
<1> QED BY <1>0, <1>1, <1>2, <1>3, <1>4, <1>5, <1>6, <1>7 DEF Next

\* The requests implement the workflow: from where they are and not from where
\* somebody last saw them, whoever races with whom (RequestWorkflow).
THEOREM RefinesWorkflow == Spec => ImplementsWorkflow
<1>1. Init => Workflow!Init BY DEF Init, NoRow, Workflow!Init
<1>2. RequestInv /\ [Next]_vars => [Workflow!Next]_(Workflow!vars) BY WorkflowStep
<1> QED BY <1>1, <1>2, RequestsInvariant, PTL DEF Spec, ImplementsWorkflow, Workflow!Spec

-----------------------------------------------------------------------------
(* What the disagreement about invitations comes down to.                  *)

\* A deletion that revokes has every live invitation on its list or in its hands,
\* and leaves none.
DeletionListsAll ==
    /\ deletion.pc = "revoking" => Live \subseteq deletion.todo \cup deletion.ts
    /\ mentor = "deleted" => Live = {}

\* A step that makes no invitation live and leaves the profile alone keeps it.
LEMMA ListsAllKept ==
    ASSUME DeletionListsAll, Live' \subseteq Live, mentor' = mentor, deletion' = deletion
    PROVE  DeletionListsAll'
BY DEF DeletionListsAll

\* A guarded insert finds the profile there and no deletion at its list.
LEMMA WorkerListsAll ==
    ASSUME DeletionListsAll, MintsLookAgain, NEW w \in Worker, WorkerStep(w)
    PROVE  DeletionListsAll'
<1>1. mentor' = mentor /\ deletion' = deletion
  BY DEF WorkerStep, NewRequestWatcher, RequestProcessFinished, Start,
         SetRequestContactPending, CreateReviewInvitation, Announce, MailInvitation, JobFails
<1>2. CASE Live' \subseteq Live BY <1>1, <1>2, ListsAllKept
<1>3. CASE mentor # "deleted" /\ deletion.pc # "revoking"
  BY <1>1, <1>3 DEF DeletionListsAll
<1> QED BY <1>2, <1>3 DEF MintsLookAgain

\* A submission spends an invitation or gives it back as it was.
LEMMA SubmitterListsAll ==
    ASSUME TypeOK, DeletionListsAll, NEW s \in Submitter, SubmitterStep(s)
    PROVE  DeletionListsAll'
<1>1. mentor' = mentor /\ deletion' = deletion
  BY DEF SubmitterStep, ClaimInvitation, SubmitReviewForRequest, BeginSubmission,
         ReadEligibility, InsertReview, Rollback
<1>2. CASE invitation' = invitation BY <1>1, <1>2, ListsAllKept DEF Live
<1>3. CASE InsertReview(s)
  <2>1. ASSUME NEW t \in Token, invitation'[t].state = "live"
        PROVE  invitation[t].state = "live"
    BY <1>3, <2>1 DEF InsertReview, TypeOK, Invitation, NoInvitation
  <2> QED BY <1>1, <2>1, ListsAllKept DEF Live
<1> QED
  BY <1>2, <1>3 DEF SubmitterStep, ClaimInvitation, SubmitReviewForRequest,
     BeginSubmission, ReadEligibility, Rollback

\* The UPDATE lists what is live, waits for each row and looks at it again.
LEMMA DeletionListsAllNext ==
    ASSUME TypeOK, DeletionListsAll, DeletionStep
    PROVE  DeletionListsAll'
<1>1. CASE MarkDeleted
  <2>1. deletion' = [deletion EXCEPT !.pc = "marked"] /\ mentor' = mentor /\ Live' = Live
    BY <1>1 DEF MarkDeleted, Delete, Live
  <2>2. deletion'.pc = "marked" BY <2>1 DEF TypeOK
  <2> QED BY <2>1, <2>2 DEF DeletionListsAll
<1>2. CASE ListInvitations
  <2>1. /\ deletion' = [deletion EXCEPT !.pc = "revoking", !.todo = Live]
        /\ mentor' = mentor /\ Live' = Live
    BY <1>2 DEF ListInvitations, Delete, Live
  <2>2. deletion'.todo = Live BY <2>1 DEF TypeOK
  <2> QED BY <2>1, <2>2 DEF DeletionListsAll
<1>3. ASSUME NEW t \in Token, RevokeInvitation(t) PROVE DeletionListsAll'
  <2>1. /\ deletion' = [deletion EXCEPT !.todo = @ \ {t}, !.ts = @ \cup ({t} \cap Live)]
        /\ mentor' = mentor /\ Live' = Live
    BY <1>3 DEF RevokeInvitation, Delete, Live
  <2>2. /\ deletion'.pc = deletion.pc
        /\ deletion'.todo = deletion.todo \ {t}
        /\ deletion'.ts = deletion.ts \cup ({t} \cap Live)
    BY <2>1 DEF TypeOK
  <2> QED BY <2>1, <2>2 DEF DeletionListsAll
<1>4. CASE CommitDeletion
  <2>1. Live \subseteq deletion.ts BY <1>4 DEF CommitDeletion, DeletionListsAll
  <2>2. ASSUME NEW t \in Token PROVE invitation'[t].state # "live"
    <3>1. CASE t \in deletion.ts
      <4>1. invitation'[t] = [invitation[t] EXCEPT !.state = "revoked"]
        BY <1>4, <3>1 DEF CommitDeletion
      <4> QED BY <4>1 DEF TypeOK, Invitation, NoInvitation
    <3>2. CASE t \notin deletion.ts
      BY <1>4, <2>1, <3>2 DEF CommitDeletion, Live
    <3> QED BY <3>1, <3>2
  <2>3. deletion'.pc = "idle" BY <1>4 DEF CommitDeletion, Delete, NoDeletion
  <2> QED BY <2>2, <2>3 DEF DeletionListsAll, Live
<1>5. CASE DeletionFails
  <2>1. deletion'.pc = "idle" /\ mentor' = mentor /\ Live' = Live
    BY <1>5 DEF DeletionFails, Delete, NoDeletion, Live
  <2> QED BY <2>1 DEF DeletionListsAll
<1> QED BY <1>1, <1>2, <1>3, <1>4, <1>5 DEF DeletionStep

\* If jobs inserted invitations only while no deletion is revoking or done, none would
\* outlive the profile: the insert of a job that looked before is the only gap.
THEOREM InvitationsDieGuarded == GuardedSpec => []InvitationsDieWithProfile
<1>1. Init => DeletionListsAll BY DEF Init, DeletionListsAll, NoDeletion
<1>2. TypeOK /\ DeletionListsAll /\ [Next /\ MintsLookAgain]_vars => DeletionListsAll'
  <2> SUFFICES ASSUME TypeOK, DeletionListsAll, [Next /\ MintsLookAgain]_vars
               PROVE  DeletionListsAll'
    OBVIOUS
  <2>1. CASE UNCHANGED <<mentor, invitation, deletion>>
    BY <2>1, ListsAllKept DEF Live
  <2>2. ASSUME NEW t \in Token, Expire(t) PROVE DeletionListsAll'
    <3>1. ASSUME NEW u \in Token, invitation'[u].state = "live"
          PROVE  invitation[u].state = "live"
      BY <2>2, <3>1 DEF Expire, Live, TypeOK, Invitation
    <3> QED BY <2>2, <3>1, ListsAllKept DEF Expire, Live
  <2>3. CASE SetMentorStatus \/ RestoreMentor
    <3>1. mentor' # "deleted" /\ deletion'.pc = "idle"
      BY <2>3 DEF SetMentorStatus, RestoreMentor, MoveProfile
    <3> QED BY <3>1 DEF DeletionListsAll
  <2>4. ASSUME \/ \E r \in Request : Contact(r) \/ RevokeLegacyLink(r)
               \/ \E c \in Caller : CallerStep(c)
        PROVE  UNCHANGED <<mentor, invitation, deletion>>
    BY <2>4 DEF Contact, RevokeLegacyLink, CallerStep, BeginUpdateStatus, BeginDecline,
       BeginOverride, Begin, UpdateStatus, UpdateDecline, UpdateRequestStatus, CompareAndSet
  <2> QED
    BY <2>1, <2>2, <2>3, <2>4, WorkerListsAll, SubmitterListsAll, DeletionListsAllNext
    DEF Next, vars
<1>3. DeletionListsAll => InvitationsDieWithProfile
  BY DEF DeletionListsAll, InvitationsDieWithProfile
<1>4. GuardedSpec => Spec BY PTL DEF GuardedSpec, Spec
<1> QED BY <1>1, <1>2, <1>3, <1>4, RequestsTyped, PTL DEF GuardedSpec
================================================================================
