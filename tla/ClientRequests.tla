---------------------------- MODULE ClientRequests -----------------------------
(***************************************************************************)
(* The requests mentees send to one mentor, and the reviews that end them: *)
(* the contact form, the mentor's inbox and the admin's override, the two  *)
(* worker jobs that announce a request and invite to review it, and the    *)
(* transactions that spend an invitation or delete the mentor's profile.   *)
(*                                                                         *)
(* A statement outside a transaction is one step.  Inside one, each        *)
(* statement is a step: other transactions read what was committed and     *)
(* wait for the rows a transaction has written, until it ends.             *)
(***************************************************************************)
EXTENDS Naturals, FiniteSets

CONSTANTS
    Request,     \* requests that may be sent
    Token,       \* bound: review invitations that may be minted
    Caller,      \* portal requests between their read and their write
    Worker,      \* worker jobs that may overlap
    Submitter,   \* review submissions that may overlap
    OverrideTo,  \* statuses an admin moves requests to; {} if none does
    LegacyLinks  \* REVIEW_LEGACY_REQUEST_ID_LINKS_ENABLED

Open == {"pending", "contacted", "working", "reschedule"}
Closed == {"done", "declined", "unavailable"}
Status == Open \cup Closed

ASSUME RequestsAssumption == OverrideTo \subseteq Status /\ LegacyLinks \in BOOLEAN

VARIABLES
    mentor,      \* the mentor's row
    request,     \* client_requests
    reviews,     \* rows of reviews, per request
    invitation,  \* review_invitations
    call,        \* API calls that read a request and will write it
    job,         \* worker jobs
    submission,  \* review transactions
    deletion,    \* the transaction of SoftDeleteMentor
    callback,    \* triggers sent: each is handled never, late, or again by hand
    announced,   \* announcements e-mailed, per request
    inbox        \* review links the mentees received

vars == <<mentor, request, reviews, invitation, call, job, submission, deletion,
          callback, announced, inbox>>
--------------------------------------------------------------------------------
Row == [status : Status \cup {"none"},
        stamped : BOOLEAN,          \* status_changed_at IS NOT NULL
        revoked : BOOLEAN]          \* review_legacy_link_revoked_at IS NOT NULL
NoRow == [status |-> "none", stamped |-> FALSE, revoked |-> FALSE]

Invitation == [state : {"live", "consumed", "revoked", "expired"}, r : Request]
NoInvitation == [state |-> "none"]

Call == [by : {"status", "decline", "override"}, r : Request, expected : Status,
         to : Status]
Job == [pc : {"fresh", "claimed", "finished"}, r : Request]
       \cup [pc : {"stored"}, r : Request, t : Token]
Legacy == "request id"
ASSUME LegacyAssumption == Legacy \notin Token
Submission == [pc : {"claimed", "eligible"}, r : Request, t : Token \cup {Legacy}]
Idle == [pc |-> "idle"]
NoCall == [by |-> "none"]
NoDeletion == [pc |-> "idle", todo |-> {}, ts |-> {}]

TypeOK ==
    /\ mentor \in {"active", "hidden", "deleted"}
    /\ request \in [Request -> Row]
    /\ reviews \in [Request -> Nat]
    /\ invitation \in [Token -> Invitation \cup {NoInvitation}]
    /\ call \in [Caller -> Call \cup {NoCall}]
    /\ job \in [Worker -> Job \cup {Idle}]
    /\ submission \in [Submitter -> Submission \cup {Idle}]
    /\ deletion \in [pc : {"idle", "marked", "revoking"},
                    todo : SUBSET Token, ts : SUBSET Token]
    /\ callback \subseteq {"created", "finished"} \X Request
    /\ announced \in [Request -> Nat]
    /\ inbox \subseteq Token

Init ==
    /\ mentor = "active"
    /\ request = [r \in Request |-> NoRow]
    /\ reviews = [r \in Request |-> 0]
    /\ invitation = [t \in Token |-> NoInvitation]
    /\ call = [c \in Caller |-> NoCall]
    /\ job = [w \in Worker |-> Idle]
    /\ submission = [s \in Submitter |-> Idle]
    /\ deletion = NoDeletion
    /\ callback = {} /\ announced = [r \in Request |-> 0] /\ inbox = {}

Live == {t \in Token : invitation[t].state = "live"}

\* Invitations whose row an unfinished submission has written.
Locked == {submission[s].t : s \in {s \in Submitter : submission[s] # Idle}}
--------------------------------------------------------------------------------
(* The request.                                                             *)

\* SubmitContactForm: the INSERT is gated on the mentor being contactable.
Contact(r) ==
    /\ mentor = "active" /\ request[r] = NoRow
    /\ request' = [request EXCEPT ![r].status = "pending"]
    /\ callback' = callback \cup {<<"created", r>>}
    /\ UNCHANGED <<mentor, reviews, invitation, call, job, submission, deletion,
                   announced, inbox>>

CanTransitionTo(from, to) ==
    <<from, to>> \in {<<"pending", "contacted">>, <<"pending", "declined">>,
                      <<"contacted", "working">>, <<"contacted", "declined">>,
                      <<"working", "done">>, <<"working", "declined">>}

Begin(c, by, r, to) ==
    /\ call[c] = NoCall
    /\ call' = [call EXCEPT ![c] = [by |-> by, r |-> r,
                                    expected |-> request[r].status, to |-> to]]
    /\ UNCHANGED <<mentor, request, reviews, invitation, job, submission, deletion,
                   callback, announced, inbox>>

\* The portal is closed to a deleted mentor.
BeginUpdateStatus(c, r) ==
    /\ mentor # "deleted"
    /\ \E to \in Status : /\ CanTransitionTo(request[r].status, to)
                          /\ Begin(c, "status", r, to)

BeginDecline(c, r) ==
    /\ mentor # "deleted"
    /\ request[r].status \in Open
    /\ Begin(c, "decline", r, "declined")

BeginOverride(c, r) ==
    /\ request[r].status # "none"
    /\ \E to \in OverrideTo \ {request[r].status} : Begin(c, "override", r, to)

\* A slip: the write applies the verdict to whatever the row says now.
BlindWrite(c, notify) ==
    LET r == call[c].r IN
    /\ request' = [request EXCEPT ![r].status = call[c].to, ![r].stamped = TRUE]
    /\ callback' = IF notify THEN callback \cup {<<"finished", r>>} ELSE callback
    /\ call' = [call EXCEPT ![c] = NoCall]
    /\ UNCHANGED <<mentor, reviews, invitation, job, submission, deletion,
                   announced, inbox>>

\* The write matches the status the caller read, or nothing.
CompareAndSet(c, notify) ==
    LET r == call[c].r
        applied == request[r].status = call[c].expected
    IN  /\ request' = IF applied
                      THEN [request EXCEPT ![r].status = call[c].to, ![r].stamped = TRUE]
                      ELSE request
        /\ callback' = IF applied /\ notify
                       THEN callback \cup {<<"finished", r>>} ELSE callback
        /\ call' = [call EXCEPT ![c] = NoCall]
        /\ UNCHANGED <<mentor, reviews, invitation, job, submission, deletion,
                       announced, inbox>>

UpdateStatus(c) == call[c].by = "status" /\ CompareAndSet(c, call[c].to = "done")
UpdateDecline(c) == call[c].by = "decline" /\ CompareAndSet(c, TRUE)
UpdateRequestStatus(c) == call[c].by = "override" /\ CompareAndSet(c, FALSE)
--------------------------------------------------------------------------------
(* The worker's jobs.                                                       *)

Start(w, j) ==
    /\ job[w] = Idle
    /\ job' = [job EXCEPT ![w] = j]
    /\ UNCHANGED <<mentor, request, reviews, invitation, call, submission, deletion,
                   callback, announced, inbox>>

\* NewRequestWatcher reads first, so that a failed read leaves the claim untaken.
NewRequestWatcher(w, r) ==
    /\ <<"created", r>> \in callback
    /\ mentor # "deleted"
    /\ Start(w, [pc |-> "fresh", r |-> r])

\* A slip: the claim forgets that it is made once.
ClaimAgain(r) == request[r].status = "pending"

\* The WHERE clause of SetRequestContactPending.
Claims(r) == request[r].status = "pending" /\ ~request[r].stamped

SetRequestContactPending(w) ==
    LET r == job[w].r IN
    /\ job[w].pc = "fresh"
    /\ IF Claims(r)
       THEN /\ request' = [request EXCEPT ![r].status = "pending", ![r].stamped = TRUE]
            /\ job' = [job EXCEPT ![w].pc = "claimed"]
       ELSE job' = [job EXCEPT ![w] = Idle] /\ UNCHANGED request
    /\ UNCHANGED <<mentor, reviews, invitation, call, submission, deletion,
                   callback, announced, inbox>>

Announce(w) ==
    /\ job[w].pc = "claimed"
    /\ announced' = [announced EXCEPT ![job[w].r] = @ + 1]
    /\ job' = [job EXCEPT ![w] = Idle]
    /\ UNCHANGED <<mentor, request, reviews, invitation, call, submission, deletion,
                   callback, inbox>>

\* RequestProcessFinished; a declined request only gets an e-mail.
RequestProcessFinished(w, r) ==
    /\ <<"finished", r>> \in callback
    /\ mentor # "deleted" /\ request[r].status = "done"
    /\ Start(w, [pc |-> "finished", r |-> r])

CreateReviewInvitation(w) ==
    /\ job[w].pc = "finished"
    /\ \E t \in Token :
        /\ invitation[t] = NoInvitation
        /\ invitation' = [invitation EXCEPT ![t] = [state |-> "live", r |-> job[w].r]]
        /\ job' = [job EXCEPT ![w] = [pc |-> "stored", r |-> job[w].r, t |-> t]]
    /\ UNCHANGED <<mentor, request, reviews, call, submission, deletion, callback,
                   announced, inbox>>

MailInvitation(w) ==
    /\ job[w].pc = "stored"
    /\ inbox' = inbox \cup {job[w].t}
    /\ job' = [job EXCEPT ![w] = Idle]
    /\ UNCHANGED <<mentor, request, reviews, invitation, call, submission, deletion,
                   callback, announced>>

\* The process dies, a statement or a send fails: nothing is undone.
JobFails(w) ==
    /\ job[w] # Idle
    /\ job' = [job EXCEPT ![w] = Idle]
    /\ UNCHANGED <<mentor, request, reviews, invitation, call, submission, deletion,
                   callback, announced, inbox>>
--------------------------------------------------------------------------------
(* The review, in a transaction.                                            *)

BeginSubmission(s, j) ==
    /\ submission[s] = Idle
    /\ submission' = [submission EXCEPT ![s] = j]
    /\ UNCHANGED <<mentor, request, reviews, invitation, call, job, deletion,
                   callback, announced, inbox>>

\* The UPDATE of SubmitReviewWithToken: it waits for the row, then looks again.
ClaimInvitation(s, t) ==
    /\ t \in inbox \cap Live
    /\ t \notin Locked \cup deletion.ts
    /\ BeginSubmission(s, [pc |-> "claimed", r |-> invitation[t].r, t |-> t])

\* SubmitReviewForRequest locks nothing.
SubmitReviewForRequest(s, r) ==
    /\ LegacyLinks /\ request[r] # NoRow
    /\ BeginSubmission(s, [pc |-> "claimed", r |-> r, t |-> Legacy])

EndSubmission(s) == submission' = [submission EXCEPT ![s] = Idle]

\* A rollback puts the invitation back.
Rollback(s) ==
    /\ submission[s] # Idle
    /\ EndSubmission(s)
    /\ UNCHANGED <<mentor, request, reviews, invitation, call, job, deletion,
                   callback, announced, inbox>>

\* A slip: the review page checked that the session took place, the transaction does
\* not.
EligibleOnceDone(r, t) == mentor # "deleted" /\ reviews[r] = 0

\* readEligibility and canSubmit, inside the transaction.
Eligible(r, t) ==
    /\ mentor # "deleted"
    /\ request[r].status = "done" /\ reviews[r] = 0
    /\ t = Legacy => ~request[r].revoked

\* A slip: a refused submission returns without ending its transaction.
ReadEligibilityHangs(s) ==
    /\ submission[s].pc = "claimed"
    /\ Eligible(submission[s].r, submission[s].t)
    /\ submission' = [submission EXCEPT ![s].pc = "eligible"]
    /\ UNCHANGED <<mentor, request, reviews, invitation, call, job, deletion,
                   callback, announced, inbox>>

ReadEligibility(s) ==
    LET r == submission[s].r
        t == submission[s].t
    IN  /\ submission[s].pc = "claimed"
        /\ IF Eligible(r, t)
           THEN submission' = [submission EXCEPT ![s].pc = "eligible"]
           ELSE EndSubmission(s)
        /\ UNCHANGED <<mentor, request, reviews, invitation, call, job, deletion,
                       callback, announced, inbox>>

\* A slip: the commit keeps the invitation consumed though the INSERT failed.
InsertReviewBurns(s) ==
    LET r == submission[s].r
        t == submission[s].t
    IN  /\ submission[s].pc = "eligible"
        /\ reviews' = IF reviews[r] = 0 THEN [reviews EXCEPT ![r] = 1] ELSE reviews
        /\ invitation' = IF t # Legacy
                         THEN [invitation EXCEPT ![t].state = "consumed"]
                         ELSE invitation
        /\ EndSubmission(s)
        /\ UNCHANGED <<mentor, request, call, job, deletion, callback, announced, inbox>>

\* The INSERT and the commit; UNIQUE (client_request_id) rolls the loser back.
InsertReview(s) ==
    LET r == submission[s].r
        t == submission[s].t
    IN  /\ submission[s].pc = "eligible"
        /\ IF reviews[r] = 0
           THEN /\ reviews' = [reviews EXCEPT ![r] = 1]
                /\ invitation' = IF t # Legacy
                                 THEN [invitation EXCEPT ![t].state = "consumed"]
                                 ELSE invitation
           ELSE UNCHANGED <<reviews, invitation>>
        /\ EndSubmission(s)
        /\ UNCHANGED <<mentor, request, call, job, deletion, callback, announced, inbox>>

\* Thirty days after it was minted, but not during a transaction on it.
Expire(t) ==
    /\ t \in Live \ (Locked \cup deletion.ts)
    /\ invitation' = [invitation EXCEPT ![t].state = "expired"]
    /\ UNCHANGED <<mentor, request, reviews, call, job, submission, deletion,
                   callback, announced, inbox>>

\* The operator's UPDATE for request ids that leaked.
RevokeLegacyLink(r) ==
    /\ request[r] # NoRow /\ ~request[r].revoked
    /\ request' = [request EXCEPT ![r].revoked = TRUE]
    /\ UNCHANGED <<mentor, reviews, invitation, call, job, submission, deletion,
                   callback, announced, inbox>>
--------------------------------------------------------------------------------
(* The mentor's profile.                                                    *)

Delete(d) ==
    /\ deletion' = d
    /\ UNCHANGED <<request, reviews, call, job, submission, callback, announced, inbox>>

MarkDeleted ==
    /\ deletion.pc = "idle" /\ mentor # "deleted"
    /\ Delete([deletion EXCEPT !.pc = "marked"])
    /\ UNCHANGED <<mentor, invitation>>

\* The UPDATE of review_invitations does not see what is inserted after it started.
ListInvitations ==
    /\ deletion.pc = "marked"
    /\ Delete([deletion EXCEPT !.pc = "revoking", !.todo = Live])
    /\ UNCHANGED <<mentor, invitation>>

\* A slip: an invitation is picked without waiting for the submission that claimed it.
RevokeUnlocked(t) ==
    /\ t \in deletion.todo
    /\ Delete([deletion EXCEPT !.todo = @ \ {t}, !.ts = @ \cup {t}])
    /\ UNCHANGED <<mentor, invitation>>

\* It waits for a row that a submission has claimed, then looks at it again.
RevokeInvitation(t) ==
    /\ t \in deletion.todo \ Locked
    /\ Delete([deletion EXCEPT !.todo = @ \ {t}, !.ts = @ \cup ({t} \cap Live)])
    /\ UNCHANGED <<mentor, invitation>>

\* A slip: every row of the table is stamped, whatever it was.
CommitDeletionOnAll ==
    /\ deletion.pc = "revoking" /\ deletion.todo = {}
    /\ mentor' = "deleted"
    /\ invitation' = [t \in Token |-> [invitation[t] EXCEPT !.state = "revoked"]]
    /\ Delete(NoDeletion)

CommitDeletion ==
    /\ deletion.pc = "revoking" /\ deletion.todo = {}
    /\ mentor' = "deleted"
    /\ invitation' = [t \in Token |-> IF t \in deletion.ts
                                      THEN [invitation[t] EXCEPT !.state = "revoked"]
                                      ELSE invitation[t]]
    /\ Delete(NoDeletion)

DeletionFails ==
    /\ deletion.pc # "idle"
    /\ Delete(NoDeletion)
    /\ UNCHANGED <<mentor, invitation>>

\* The deletion holds the mentor's row until it ends.
MoveProfile(from, to) ==
    /\ deletion.pc = "idle" /\ mentor = from
    /\ mentor' = to
    /\ UNCHANGED <<request, reviews, invitation, call, job, submission, deletion,
                   callback, announced, inbox>>

SetMentorStatus == MoveProfile("active", "hidden") \/ MoveProfile("hidden", "active")
RestoreMentor == MoveProfile("deleted", "hidden")
--------------------------------------------------------------------------------
CallerStep(c) ==
    \/ \E r \in Request :
        BeginUpdateStatus(c, r) \/ BeginDecline(c, r) \/ BeginOverride(c, r)
    \/ UpdateStatus(c) \/ UpdateDecline(c) \/ UpdateRequestStatus(c)

WorkerStep(w) ==
    \/ \E r \in Request : NewRequestWatcher(w, r) \/ RequestProcessFinished(w, r)
    \/ SetRequestContactPending(w) \/ Announce(w)
    \/ CreateReviewInvitation(w) \/ MailInvitation(w) \/ JobFails(w)

SubmitterStep(s) ==
    \/ \E t \in Token : ClaimInvitation(s, t)
    \/ \E r \in Request : SubmitReviewForRequest(s, r)
    \/ ReadEligibility(s) \/ InsertReview(s) \/ Rollback(s)

DeletionStep ==
    \/ MarkDeleted \/ ListInvitations \/ CommitDeletion \/ DeletionFails
    \/ \E t \in Token : RevokeInvitation(t)

Next ==
    \/ \E r \in Request : Contact(r) \/ RevokeLegacyLink(r)
    \/ \E c \in Caller : CallerStep(c)
    \/ \E w \in Worker : WorkerStep(w)
    \/ \E s \in Submitter : SubmitterStep(s)
    \/ \E t \in Token : Expire(t)
    \/ DeletionStep \/ SetMentorStatus \/ RestoreMentor

Spec == Init /\ [][Next]_vars

\* Transactions run to their end, and a statement that waits for a row gets it in
\* turn.  Nobody is obliged to start anything.
Fairness ==
    /\ \A s \in Submitter : WF_vars(ReadEligibility(s)) /\ WF_vars(InsertReview(s))
    /\ WF_vars(ListInvitations) /\ WF_vars(CommitDeletion)
    /\ \A t \in Token : SF_vars(RevokeInvitation(t))

FairSpec == Spec /\ Fairness
--------------------------------------------------------------------------------
(* What the requests and their reviews guarantee.                           *)

Spent == {t \in Token : invitation[t].state = "consumed"}

\* A request has at most one review, however many links and submissions race for it,
\* and an invitation is spent only by the review it stored: no two are spent on one
\* request, and a refused submission leaves its link usable.
ReviewsMatchSpends ==
    /\ \A r \in Request : reviews[r] <= 1
    /\ \A t \in Spent : reviews[invitation[t].r] = 1
    /\ \A t, u \in Spent : invitation[t].r = invitation[u].r => t = u

Announcing(w, r) == job[w].pc = "claimed" /\ job[w].r = r

\* However often the callback is delivered and whatever the mentor does meanwhile, the
\* e-mails that announce a request go out at most once.
AnnouncedOnce == \A r \in Request :
    announced[r] + Cardinality({w \in Worker : Announcing(w, r)}) <= 1

\* Without an admin's override a reviewed request is and stays completed, whatever two
\* tabs of the mentor and a slow submission make of each other.
ReviewedIsDone == \A r \in Request :
    OverrideTo = {} /\ reviews[r] > 0 => request[r].status = "done"

\* An invitation revoked by the deletion of the profile is never spent nor revived, not
\* by a submission that had claimed it before, and not by a restore.
RevokedIsFinal ==
    [][\A t \in Token : invitation[t].state = "revoked" => invitation'[t] = invitation[t]]_vars

Workflow == INSTANCE RequestWorkflow WITH
    Override <- OverrideTo,
    status <- [r \in Request |-> request[r].status],
    reviewed <- reviews

\* Statuses read long before they are acted on, jobs replayed late and racing reviews
\* amount to a request that moves along the workflow from where it is.
ImplementsWorkflow == Workflow!Spec

\* A deletion is not held up for ever by the submissions whose links it revokes.
DeletionEnds == deletion.pc # "idle" ~> deletion.pc = "idle"
--------------------------------------------------------------------------------
(* What a comment of the code says and its interleavings do not keep.       *)

\* "Links already mailed to mentees stop resolving", and no job mints an invitation for
\* a deleted profile.
InvitationsDieWithProfile == mentor = "deleted" => Live = {}

\* A job that looked before is the only way around it: if an invitation were inserted
\* only while no deletion is revoking or done, submissions that claim an invitation and
\* give it back, failed deletions and restores would leave none behind.
MintsLookAgain ==
    Live' \subseteq Live \/ (mentor # "deleted" /\ deletion.pc # "revoking")

GuardedSpec == Init /\ [][Next /\ MintsLookAgain]_vars
================================================================================
