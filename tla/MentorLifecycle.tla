---------------------------- MODULE MentorLifecycle ----------------------------
(***************************************************************************)
(* The life of a row of the mentors table, from registration to erasure,   *)
(* and everything that writes its lifecycle columns: the public API        *)
(* (registration, e-mail confirmation, resend), the mentor portal (submit, *)
(* visibility toggle, deletion), the moderation portal, and the worker     *)
(* (finalization of a registration, its cron replay, deactivation, purge). *)
(*                                                                         *)
(* Every SQL statement is one step; a service that reads the row, decides, *)
(* and then writes is two, so everything the other actors do in between is *)
(* explored.  A read that only chooses the error message, in front of a    *)
(* write that re-checks the same condition, is not a step of its own.      *)
(***************************************************************************)
EXTENDS Naturals

CONSTANTS
    Mentor,      \* rows that may be registered
    EmailOf,     \* the address each of them registers with
    Worker,      \* finalization runs that may overlap
    Caller,      \* read-then-write HTTP requests that may overlap
    ReplayDays,  \* days a registration is replayed after its token expired (3)
    MaxTokens,   \* bound: nobody resends once they were sent this many tokens
    MaxFaults    \* bound: crashes of the worker and failed sends

ASSUME LifecycleAssumption ==
    /\ ReplayDays \in Nat \ {0}
    /\ MaxTokens \in Nat
    /\ MaxFaults \in Nat

VARIABLES
    row,        \* the mentors table
    minted,     \* confirmation tokens generated so far, per mentor
    job,        \* finalizeNewMentor runs of the worker
    call,       \* API requests between their read and their write
    trigger,    \* new-mentor-watcher calls in flight (lossy, never retried)
    links,      \* resend e-mails in flight, <<mentor, token>>
    inbox,      \* confirmation links the mentors received, <<mentor, token>>
    purgeList,  \* ids the purge sweep listed and has not reached yet
    faults

vars == <<row, minted, job, call, trigger, links, inbox, purgeList, faults>>
--------------------------------------------------------------------------------
(* The row.  "absent" and "purged" stand for no row.                        *)

Status == {"draft", "pending", "active", "inactive", "declined"}
NoToken == 0
Old == ReplayDays + 1

\* A window lasts a day, so one change of the row's age falls into it.
Window == {"none", "open", "ending", "closed"}

Row == [status    : Status \cup {"absent", "purged"},
        deleted   : {"no", "recent", "past"},    \* deleted_at, and its retention
        activated : BOOLEAN,                     \* activated_at IS NOT NULL
        note      : BOOLEAN,                     \* moderation_note IS NOT NULL
        token     : Nat,                         \* email_confirmation_token
        window    : Window,                      \* email_confirmation_expires_at
        sort      : SUBSET Worker,               \* sort_order: {} is NULL, {w} w's draw
        age       : 0 .. Old]                    \* created_at: 0 is under ten minutes

NoRow == [status |-> "absent", deleted |-> "no", activated |-> FALSE,
          note |-> FALSE, token |-> NoToken, window |-> "none",
          sort |-> {}, age |-> 0]

Idle == [pc |-> "idle"]
Run == [pc : {"started", "read", "counted", "claimed", "failed"}, m : Mentor,
        expected : Nat,    \* the token the run read, for its compare-and-swap
        dup : BOOLEAN,     \* another active mentor has the address
        mine : Nat]        \* the token the run stored

Op == {"approve", "decline", "return", "activate", "deactivate", "submit"}
NoCall == [op |-> "none"]
Call == [op : Op, m : Mentor]

TypeOK ==
    /\ row \in [Mentor -> Row]
    /\ minted \in [Mentor -> Nat]
    /\ job \in [Worker -> Run \cup {Idle}]
    /\ call \in [Caller -> Call \cup {NoCall}]
    /\ trigger \subseteq Mentor
    /\ links \subseteq Mentor \X Nat
    /\ inbox \subseteq Mentor \X Nat
    /\ purgeList \subseteq Mentor
    /\ faults \in Nat

Init ==
    /\ row = [m \in Mentor |-> NoRow]
    /\ minted = [m \in Mentor |-> 0]
    /\ job = [w \in Worker |-> Idle]
    /\ call = [c \in Caller |-> NoCall]
    /\ trigger = {} /\ links = {} /\ inbox = {} /\ purgeList = {}
    /\ faults = 0

Exists(m) == row[m].status \in Status
Live(m) == Exists(m) /\ row[m].deleted = "no"

\* mentors_active_email_uniq: at most one active row per address.
EmailFree(m) == \A n \in Mentor \ {m} :
    EmailOf[n] = EmailOf[m] => row[n].status # "active"

Usable(m) == row[m].window \in {"open", "ending"}

SetRow(m, r) == row' = [row EXCEPT ![m] = r]
--------------------------------------------------------------------------------
(* Registration and its finalization by the worker.                         *)

\* RegisterMentor: INSERT a draft, then fire the trigger and forget it.
Register(m) ==
    /\ row[m].status = "absent"
    /\ SetRow(m, [NoRow EXCEPT !.status = "draft"])
    /\ trigger' = trigger \cup {m}
    /\ UNCHANGED <<minted, job, call, links, inbox, purgeList, faults>>

DropTrigger(m) ==
    /\ m \in trigger
    /\ trigger' = trigger \ {m}
    /\ UNCHANGED <<row, minted, job, call, links, inbox, purgeList, faults>>

\* Slips of the query below: one of its two legs is missing.
StuckLeftOutNeverRun(m) ==
    /\ row[m].status = "draft" /\ ~row[m].activated /\ row[m].age > 0
    /\ row[m].token # NoToken /\ row[m].window = "closed" /\ row[m].age <= ReplayDays
StuckLeftOutExpired(m) ==
    /\ row[m].status = "draft" /\ ~row[m].activated /\ row[m].age > 0
    /\ row[m].sort = {} /\ row[m].token = NoToken

\* ListStuckDraftRegistrations: the rows the cron replays.
Stuck(m) ==
    /\ row[m].status = "draft" /\ ~row[m].activated /\ row[m].age > 0
    /\ \/ row[m].sort = {} /\ row[m].token = NoToken
       \/ /\ row[m].token # NoToken
          /\ row[m].window = "closed" /\ row[m].age <= ReplayDays

NewRun(m) == [pc |-> "started", m |-> m, expected |-> NoToken, dup |-> FALSE,
              mine |-> NoToken]

\* The trigger arrives, once.
HandleTrigger(w, m) ==
    /\ job[w] = Idle /\ m \in trigger
    /\ job' = [job EXCEPT ![w] = NewRun(m)]
    /\ trigger' = trigger \ {m}
    /\ UNCHANGED <<row, minted, call, links, inbox, purgeList, faults>>

\* A cron pass, which a pass that lost its lease may still overlap.
ReplayStuck(w, m) ==
    /\ job[w] = Idle /\ Stuck(m)
    /\ job' = [job EXCEPT ![w] = NewRun(m)]
    /\ UNCHANGED <<row, minted, call, trigger, links, inbox, purgeList, faults>>

\* A slip: the run is marked finished but keeps what it had read.
EndRunKeepsLocals(w) == job' = [job EXCEPT ![w].pc = "idle"]

EndRun(w) == job' = [job EXCEPT ![w] = Idle]

\* GetJobMentorByID hides a deleted profile, and the run ends there.
ReadMentor(w) ==
    /\ job[w].pc = "started"
    /\ LET m == job[w].m IN
       IF Live(m)
       THEN job' = [job EXCEPT ![w].pc = "read", ![w].expected = row[m].token]
       ELSE EndRun(w)
    /\ UNCHANGED <<row, minted, call, trigger, links, inbox, purgeList, faults>>

\* CountActiveMentorsByEmail, which leaves the mentor themself out.
CountDuplicates(w) ==
    /\ job[w].pc = "read"
    /\ LET m == job[w].m IN
       job' = [job EXCEPT ![w].pc = "counted", ![w].dup = ~EmailFree(m)]
    /\ UNCHANGED <<row, minted, call, trigger, links, inbox, purgeList, faults>>

\* Slips of the claim: on the status alone, or without a look at the window when the
\* run is about to decline a duplicate.
ClaimableAnyDraft(m, expected) == row[m].status = "draft"
ClaimableDuplicate(m, expected) ==
    /\ row[m].status = "draft"
    /\ row[m].token = expected
    /\ Usable(m) => \E w \in Worker :
           job[w].pc = "counted" /\ job[w].m = m /\ job[w].dup

\* The WHERE clause of FinalizeNewMentor.
Claimable(m, expected) ==
    /\ row[m].status = "draft"
    /\ row[m].token = expected
    /\ ~Usable(m)

\* A duplicate is declined and gets no token; anyone else gets a fresh one.
ClaimedRow(w, r, fresh) ==
    IF job[w].dup
    THEN [r EXCEPT !.status = "declined", !.sort = {w},
                   !.token = NoToken, !.window = "none"]
    ELSE [r EXCEPT !.sort = {w}, !.token = fresh, !.window = "open"]

ClaimRow(w) ==
    LET m == job[w].m
        fresh == IF job[w].dup THEN NoToken ELSE minted[m] + 1
    IN  /\ job[w].pc = "counted"
        /\ Claimable(m, job[w].expected)
        /\ SetRow(m, ClaimedRow(w, row[m], fresh))
        /\ minted' = IF job[w].dup THEN minted ELSE [minted EXCEPT ![m] = fresh]
        /\ job' = [job EXCEPT ![w].pc = "claimed", ![w].mine = fresh]
        /\ UNCHANGED <<call, trigger, links, inbox, purgeList, faults>>

\* The claim matched no row: nothing was written, nobody is e-mailed.
LoseClaim(w) ==
    /\ job[w].pc = "counted"
    /\ ~Claimable(job[w].m, job[w].expected)
    /\ EndRun(w)
    /\ UNCHANGED <<row, minted, call, trigger, links, inbox, purgeList, faults>>

\* The e-mail of a claim carries its link; the one to a duplicate has none.
Delivered(w) ==
    IF job[w].dup THEN inbox ELSE inbox \cup {<<job[w].m, job[w].mine>>}

SendOk(w) ==
    /\ job[w].pc = "claimed"
    /\ inbox' = Delivered(w)
    /\ EndRun(w)
    /\ UNCHANGED <<row, minted, call, trigger, links, purgeList, faults>>

\* The provider reports a failure, whether or not the e-mail went out.
SendFails(w) ==
    /\ job[w].pc = "claimed" /\ faults < MaxFaults
    /\ inbox' \in {inbox, Delivered(w)}
    /\ job' = [job EXCEPT ![w].pc = "failed"]
    /\ faults' = faults + 1
    /\ UNCHANGED <<row, minted, call, trigger, links, purgeList>>

\* A slip: the release forgets the draw, and the row looks claimed for ever.
ReleaseKeepsDraw(w) ==
    LET m == job[w].m IN
    /\ job[w].pc = "failed"
    /\ IF /\ row[m].status = (IF job[w].dup THEN "declined" ELSE "draft")
          /\ row[m].token = job[w].mine
       THEN SetRow(m, [row[m] EXCEPT !.status = "draft", !.token = NoToken,
                                     !.window = "none"])
       ELSE UNCHANGED row
    /\ EndRun(w)
    /\ UNCHANGED <<minted, call, trigger, links, inbox, purgeList, faults>>

\* A slip: the release compares the draw and the token, and not the status.
ReleaseAnyStatus(w) ==
    LET m == job[w].m IN
    /\ job[w].pc = "failed"
    /\ IF row[m].sort = {w} /\ row[m].token = job[w].mine
       THEN SetRow(m, [row[m] EXCEPT !.status = "draft", !.sort = {},
                                     !.token = NoToken, !.window = "none"])
       ELSE UNCHANGED row
    /\ EndRun(w)
    /\ UNCHANGED <<minted, call, trigger, links, inbox, purgeList, faults>>

\* ReleaseNewMentorFinalization: compare-and-swap on what the claim wrote.
Release(w) ==
    LET m == job[w].m IN
    /\ job[w].pc = "failed"
    /\ IF /\ row[m].status = (IF job[w].dup THEN "declined" ELSE "draft")
          /\ row[m].sort = {w}
          /\ row[m].token = job[w].mine
       THEN SetRow(m, [row[m] EXCEPT !.status = "draft", !.sort = {},
                                     !.token = NoToken, !.window = "none"])
       ELSE UNCHANGED row
    /\ EndRun(w)
    /\ UNCHANGED <<minted, call, trigger, links, inbox, purgeList, faults>>

\* The process dies, or a statement of the run fails and the run gives up.
Crash(w) ==
    /\ job[w] # Idle /\ faults < MaxFaults
    /\ EndRun(w)
    /\ faults' = faults + 1
    /\ UNCHANGED <<row, minted, call, trigger, links, inbox, purgeList>>
--------------------------------------------------------------------------------
(* The confirmation link.                                                   *)

HoldsLink(m) == row[m].token # NoToken /\ <<m, row[m].token>> \in inbox

\* ConsumeConfirmationToken: match, status, expiry and clearing in one UPDATE.
ConfirmEmail(m) ==
    /\ HoldsLink(m)
    /\ row[m].status = "draft" /\ Usable(m)
    /\ SetRow(m, [row[m] EXCEPT !.status = "pending", !.token = NoToken,
                                !.window = "none"])
    /\ UNCHANGED <<minted, job, call, trigger, links, inbox, purgeList, faults>>

\* RotateConfirmationToken, and the link handed to the worker once it applied.
ResendConfirmation(m) ==
    /\ HoldsLink(m)
    /\ row[m].status = "draft" /\ minted[m] < MaxTokens
    /\ SetRow(m, [row[m] EXCEPT !.token = minted[m] + 1, !.window = "open"])
    /\ minted' = [minted EXCEPT ![m] = @ + 1]
    /\ links' = links \cup {<<m, minted[m] + 1>>}
    /\ UNCHANGED <<job, call, trigger, inbox, purgeList, faults>>

\* MentorConfirmEmail mails the link of the payload to any live profile.
DeliverLink(l) ==
    /\ l \in links
    /\ links' = links \ {l}
    /\ inbox' = IF Live(l[1]) THEN inbox \cup {l} ELSE inbox
    /\ UNCHANGED <<row, minted, job, call, trigger, purgeList, faults>>

LoseLink(l) ==
    /\ l \in links
    /\ links' = links \ {l}
    /\ UNCHANGED <<row, minted, job, call, trigger, inbox, purgeList, faults>>

\* Runs and calls take seconds: none is under way when a day or a window ends.
Quiet(m) ==
    /\ m \notin trigger
    /\ \A w \in Worker : job[w] # Idle => job[w].m # m
    /\ \A l \in links : l[1] # m

\* Ten minutes, then a day each.
GrowOlder(m) ==
    /\ Exists(m) /\ Quiet(m) /\ row[m].age < Old /\ row[m].window # "ending"
    /\ LET r == row[m] IN SetRow(m, [r EXCEPT
           !.age = r.age + 1,
           !.window = IF r.window = "open" /\ r.age > 0 THEN "ending" ELSE r.window])
    /\ UNCHANGED <<minted, job, call, trigger, links, inbox, purgeList, faults>>

WindowCloses(m) ==
    /\ Quiet(m)
    /\ row[m].window = "ending" \/ (row[m].window = "open" /\ row[m].age = Old)
    /\ SetRow(m, [row[m] EXCEPT !.window = "closed"])
    /\ UNCHANGED <<minted, job, call, trigger, links, inbox, purgeList, faults>>
--------------------------------------------------------------------------------
(* Requests that read the row, check it, and write later.                   *)

Begin(c, op, m) ==
    /\ call[c] = NoCall
    /\ Live(m)
    /\ call' = [call EXCEPT ![c] = [op |-> op, m |-> m]]
    /\ UNCHANGED <<row, minted, job, trigger, links, inbox, purgeList, faults>>

\* An admin approves or declines any live profile; a moderator only a pending one.
BeginModeration(c, m) ==
    \E role \in {"admin", "moderator"}, op \in {"approve", "decline"} :
        /\ role = "moderator" => row[m].status = "pending"
        /\ Begin(c, op, m)

BeginReturn(c, m) ==
    /\ row[m].status = "pending" /\ ~row[m].activated
    /\ Begin(c, "return", m)

\* The visibility toggle, of the owner or of an admin.
BeginToggle(c, m) ==
    /\ row[m].status \in {"active", "inactive"}
    /\ \E op \in {"activate", "deactivate"} : Begin(c, op, m)

BeginSubmit(c, m) ==
    /\ row[m].status = "draft"
    /\ Begin(c, "submit", m)

\* The write of request c: row r if the WHERE clause held, else an error.
Finish(c, guard, r) ==
    /\ IF guard THEN SetRow(call[c].m, r) ELSE UNCHANGED row
    /\ call' = [call EXCEPT ![c] = NoCall]
    /\ UNCHANGED <<minted, job, trigger, links, inbox, purgeList, faults>>

\* Slips of the three moderation writes: no deleted_at guard in the first two, no
\* activated_at guard in the third.
SetAnyMentorStatus(c, s) ==
    LET m == call[c].m IN
    Finish(c, Exists(m) /\ (s = "active" => EmailFree(m)), [row[m] EXCEPT !.status = s])
ApproveAnyMentor(c) ==
    /\ call[c].op = "approve"
    /\ LET m == call[c].m IN
       Finish(c, Exists(m) /\ EmailFree(m),
              [row[m] EXCEPT !.status = "active", !.activated = TRUE, !.note = FALSE])
ReturnAnyMentor(c) ==
    /\ call[c].op = "return"
    /\ LET m == call[c].m IN
       Finish(c, Live(m), [row[m] EXCEPT !.status = "draft", !.note = TRUE])

\* SetMentorStatus, and the unique index that may reject it.
SetMentorStatus(c, s) ==
    LET m == call[c].m IN
    Finish(c, /\ Live(m)
              /\ ~(s = "draft" /\ row[m].activated)
              /\ s = "active" => EmailFree(m),
              [row[m] EXCEPT !.status = s])

ApproveMentor(c) ==
    /\ call[c].op = "approve"
    /\ LET m == call[c].m IN
       Finish(c, Live(m) /\ EmailFree(m),
              [row[m] EXCEPT !.status = "active", !.activated = TRUE, !.note = FALSE])

DeclineMentor(c) == call[c].op = "decline" /\ SetMentorStatus(c, "declined")

ReturnMentor(c) ==
    /\ call[c].op = "return"
    /\ LET m == call[c].m IN
       Finish(c, Live(m) /\ ~row[m].activated,
              [row[m] EXCEPT !.status = "draft", !.note = TRUE])

ToggleProfile(c) ==
    \/ call[c].op = "activate" /\ SetMentorStatus(c, "active")
    \/ call[c].op = "deactivate" /\ SetMentorStatus(c, "inactive")

SubmitProfile(c) == call[c].op = "submit" /\ SetMentorStatus(c, "pending")

\* DeactivateMentor, the cron's compare-and-swap on 'active'.
DeactivateMentor(m) ==
    /\ row[m].status = "active"
    /\ SetRow(m, [row[m] EXCEPT !.status = "inactive"])
    /\ UNCHANGED <<minted, job, call, trigger, links, inbox, purgeList, faults>>
--------------------------------------------------------------------------------
(* Deletion, restore, and erasure after the retention window.               *)

SoftDeleteMentor(m) ==
    /\ Live(m)
    /\ SetRow(m, [row[m] EXCEPT !.status = "inactive", !.deleted = "recent"])
    /\ UNCHANGED <<minted, job, call, trigger, links, inbox, purgeList, faults>>

RestoreMentor(m) ==
    /\ Exists(m) /\ row[m].deleted # "no"
    /\ SetRow(m, [row[m] EXCEPT !.status = "inactive", !.deleted = "no"])
    /\ UNCHANGED <<minted, job, call, trigger, links, inbox, purgeList, faults>>

RetentionElapses(m) ==
    /\ Exists(m) /\ row[m].deleted = "recent" /\ Quiet(m)
    /\ SetRow(m, [row[m] EXCEPT !.deleted = "past"])
    /\ UNCHANGED <<minted, job, call, trigger, links, inbox, purgeList, faults>>

ListPurgeableProfiles ==
    /\ purgeList = {}
    /\ purgeList' = {m \in Mentor : Exists(m) /\ row[m].deleted = "past"}
    /\ UNCHANGED <<row, minted, job, call, trigger, links, inbox, faults>>

\* A slip: the sweep erases what it listed, without looking again.
PurgeListed(m) ==
    /\ m \in purgeList
    /\ purgeList' = purgeList \ {m}
    /\ SetRow(m, [NoRow EXCEPT !.status = "purged"])
    /\ UNCHANGED <<minted, job, call, trigger, links, inbox, faults>>

\* PurgeProfile re-evaluates the retention predicate under the row lock.
PurgeProfile(m) ==
    /\ m \in purgeList
    /\ purgeList' = purgeList \ {m}
    /\ IF Exists(m) /\ row[m].deleted = "past"
       THEN SetRow(m, [NoRow EXCEPT !.status = "purged"])
       ELSE UNCHANGED row
    /\ UNCHANGED <<minted, job, call, trigger, links, inbox, faults>>
--------------------------------------------------------------------------------
WorkerStep(w) ==
    \/ \E m \in Mentor : HandleTrigger(w, m) \/ ReplayStuck(w, m)
    \/ ReadMentor(w) \/ CountDuplicates(w) \/ ClaimRow(w) \/ LoseClaim(w)
    \/ SendOk(w) \/ SendFails(w) \/ Release(w) \/ Crash(w)

CallerStep(c) ==
    \/ \E m \in Mentor : \/ BeginModeration(c, m) \/ BeginReturn(c, m)
                         \/ BeginToggle(c, m) \/ BeginSubmit(c, m)
    \/ ApproveMentor(c) \/ DeclineMentor(c) \/ ReturnMentor(c)
    \/ ToggleProfile(c) \/ SubmitProfile(c)

MentorStep(m) ==
    \/ Register(m) \/ DropTrigger(m) \/ GrowOlder(m) \/ WindowCloses(m)
    \/ ConfirmEmail(m) \/ ResendConfirmation(m)
    \/ DeactivateMentor(m)
    \/ SoftDeleteMentor(m) \/ RestoreMentor(m)
    \/ RetentionElapses(m) \/ PurgeProfile(m)

Next ==
    \/ \E w \in Worker : WorkerStep(w)
    \/ \E c \in Caller : CallerStep(c)
    \/ \E m \in Mentor : MentorStep(m)
    \/ \E l \in links : DeliverLink(l) \/ LoseLink(l)
    \/ ListPurgeableProfiles

Spec == Init /\ [][Next]_vars

\* The cron fires every ten minutes and runs what it lists, a run that started
\* is executed, calls end and time passes.  Nobody is obliged to click, to
\* moderate, or to deliver a trigger.
Fairness ==
    /\ \A m \in Mentor :
        /\ WF_vars(DropTrigger(m))
        /\ SF_vars(GrowOlder(m)) /\ SF_vars(WindowCloses(m))
        /\ SF_vars(\E w \in Worker : ReplayStuck(w, m))
    /\ \A w \in Worker :
        /\ WF_vars(ReadMentor(w)) /\ WF_vars(CountDuplicates(w))
        /\ WF_vars(ClaimRow(w)) /\ WF_vars(LoseClaim(w))
        /\ WF_vars(SendOk(w)) /\ WF_vars(Release(w))
    /\ WF_vars(\E l \in links : LoseLink(l))

FairSpec == Spec /\ Fairness

\* The same, while the cron is up: its passes are ten minutes apart, so no day
\* goes by over a row it would list.
CronKeepsUp == \A m \in Mentor : row'[m].age > row[m].age => ~Stuck(m)

TimelySpec == Init /\ [][Next /\ CronKeepsUp]_vars /\ Fairness
--------------------------------------------------------------------------------
(* What the lifecycle guarantees.                                           *)

\* A deleted profile has the status 'inactive', whoever was in the middle of
\* approving, declining, toggling, submitting or finalizing it: code that
\* predates deletion and never reads deleted_at still hides it.
DeletedIsHidden ==
    \A m \in Mentor : row[m].deleted # "no" => row[m].status = "inactive"

\* w's claim is in the row, the e-mail with its link is not out yet.
Unsent(w) == job[w].pc = "claimed" /\ ~job[w].dup

\* From the claim to the send, the link about to be mailed is the one in the row
\* and its window is open, whatever other runs, clicks and moderators did since:
\* no mentor is sent a token that was not stored.
ClaimedLinkIsLive == \A w \in Worker :
    Unsent(w) => row[job[w].m].token = job[w].mine /\ Usable(job[w].m)

\* Approval clears the reviewer's note and a note is only left on a profile that
\* was never approved, also when the two race for one pending profile.
ApprovedHasNoNote ==
    \A m \in Mentor : row[m].activated => ~row[m].note

\* m received a link that confirms the registration.
HoldsLiveLink(m) == HoldsLink(m) /\ row[m].status = "draft" /\ Usable(m)

Releasing(m) == \E w \in Worker :
    job[w].pc = "failed" /\ job[w].m = m /\ job[w].mine = row[m].token

\* A link that works in somebody's inbox is never replaced behind their back by
\* an overlapping or replayed finalization, nor declined by one that found the
\* address taken: only their own resend, a change of status by a person, the end
\* of its window, or the release of the very send that delivered it while
\* reporting a failure makes it stop working.
LiveLinkSurvives ==
    [][\A m \in Mentor : HoldsLiveLink(m) /\ ~HoldsLiveLink(m)' =>
           \/ links' # links
           \/ row'[m].status # "draft" /\ job' = job
           \/ row'[m].window = "closed"
           \/ Releasing(m)]_vars

\* While a profile is deleted nothing but a restore or the purge touches what it
\* was: status, approval, note and confirmation token stay, so that a restore
\* brings back what was deleted.
DeletedIsInert ==
    [][\A m \in Mentor : row[m].deleted # "no" /\ row'[m].deleted # "no" =>
           /\ row'[m].status = row[m].status
           /\ row'[m].activated = row[m].activated
           /\ row'[m].note = row[m].note
           /\ row'[m].token = row[m].token]_vars

\* The phase of MentorProfile a row is in.
PhaseOf(r) ==
    CASE r.status = "absent" -> "unregistered"
      [] r.status = "purged" -> "erased"
      [] r.status \in Status /\ r.deleted # "no" -> "deleted"
      [] r.status = "active" /\ r.deleted = "no" -> "listed"
      [] r.status = "inactive" /\ r.deleted = "no" -> "hidden"
      [] OTHER -> "applicant"

phases == [m \in Mentor |-> PhaseOf(row[m])]

Profile == INSTANCE MentorProfile WITH phase <- phases

\* Every interleaving of the portals, the links and the jobs is a behaviour of
\* the abstract profile: deletion is only undone by a restore, a restore never
\* re-publishes, and only a deleted profile is erased, for good.
ImplementsProfile == Profile!Spec

\* Three days after signing up a registration that was sent a link is left alone.
Abandoned(m) ==
    row[m].token # NoToken /\ row[m].window = "closed" /\ row[m].age = Old

\* A registration that nobody approved or returned.
Unjudged(m) == row[m].status = "draft" /\ ~row[m].activated /\ ~row[m].note

AwaitsLink(m) == Unjudged(m) /\ ~HoldsLiveLink(m)

\* Whatever was lost, crashed, failed or was released on the way, ten minutes after
\* it a registration that nobody judged has a link whose window is open, or is in
\* the list of the next cron pass, or was sent a link and given up: no interleaving
\* leaves it in a shape that no leg of ListStuckDraftRegistrations recognizes.
NobodyForgotten == \A m \in Mentor :
    Unjudged(m) /\ row[m].age > 0 => Usable(m) \/ Stuck(m) \/ Abandoned(m)

\* m received a link at some time.
Seen(m) == \E l \in inbox : l[1] = m

\* While the cron keeps up, whoever is given up was sent a link: of the days the
\* replay goes on, each one that ends without a link costs the platform a fault, and
\* there are fewer faults than days.
NobodyGivenUpUnseen ==
    MaxFaults < ReplayDays => \A m \in Mentor : Unjudged(m) /\ Abandoned(m) => Seen(m)

\* A registration whose trigger was lost, whose run crashed or whose e-mail could
\* not be sent does not stay without a usable link: the cron converges it, unless
\* it leaves draft otherwise or is given up after three days.
RegistrationConverges == \A m \in Mentor :
    AwaitsLink(m) ~> ~AwaitsLink(m) \/ Abandoned(m)
--------------------------------------------------------------------------------
(* The inductive invariant behind ClaimedLinkIsLive.                        *)

AbsentHasNoToken ==
    \A m \in Mentor : row[m].status = "absent" => row[m].token = NoToken

\* By the time a deleted profile may be erased no call or run about it is left.
PastIsQuiet == \A m \in Mentor : row[m].deleted = "past" =>
    /\ m \notin trigger
    /\ \A w \in Worker : job[w] # Idle => job[w].m # m

TokensAreMinted ==
    /\ \A m \in Mentor : row[m].token <= minted[m]
    /\ \A l \in inbox \cup links : l[2] <= minted[l[1]]
    /\ \A w \in Worker : job[w] # Idle => job[w].mine <= minted[job[w].m]

\* No other run could release the claim of an unsent link, ...
ClaimsAreDistinct == \A w \in Worker : Unsent(w) =>
    /\ job[w].mine # NoToken
    /\ \A v \in Worker \ {w} :
           job[v].pc \in {"claimed", "failed"} /\ job[v].m = job[w].m
               => job[v].mine # job[w].mine

\* ... and nobody could click it.
ClaimedLinkIsUnseen == \A w \in Worker :
    Unsent(w) => <<job[w].m, job[w].mine>> \notin inbox \cup links

LifecycleInv ==
    /\ TypeOK /\ DeletedIsHidden /\ AbsentHasNoToken /\ PastIsQuiet
    /\ TokensAreMinted /\ ClaimsAreDistinct /\ ClaimedLinkIsUnseen
    /\ ClaimedLinkIsLive
--------------------------------------------------------------------------------
(* What comments of the code say and its interleavings do not keep.         *)

\* "The status toggle is available only for approved mentors."
ListedWasApproved ==
    \A m \in Mentor : row[m].status = "active" => row[m].activated

\* A restore is the only way around it: as long as nobody restores a profile, none
\* is listed that was not approved, whatever toggles, moderators, runs and deletions
\* overlap.
NobodyRestores == \A m \in Mentor :
    row[m].deleted # "no" => row'[m].deleted # "no" \/ row'[m].status = "purged"

UnrestoredSpec == Init /\ [][Next /\ NobodyRestores]_vars

\* "A mentor that has ever been activated can never be moved back to draft."
ActivatedNeverDraft ==
    \A m \in Mentor : row[m].activated => row[m].status # "draft"

\* The one way in which it happens: the release of a duplicate whose e-mail failed,
\* on a profile that was approved and then declined since the run claimed it.  No
\* moderator's return and no other release does it, however late.
OnlyDuplicatesRevert ==
    [][\A m \in Mentor :
        row[m].activated /\ row[m].status # "draft" /\ row'[m].status = "draft" =>
            /\ row[m].status = "declined"
            /\ \E w \in Worker : /\ job[w].pc = "failed" /\ job[w].m = m
                                 /\ job[w].dup /\ job'[w] = Idle]_vars

\* "A mentor a moderator returned to draft matches neither leg" of the replay.
ReturnedNotReplayed == \A m \in Mentor : row[m].note => ~Stuck(m)
================================================================================
