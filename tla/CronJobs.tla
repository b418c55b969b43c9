------------------------------- MODULE CronJobs -------------------------------
(***************************************************************************)
(* The worker's timed jobs: ticks of the scheduler and manual triggers, in *)
(* several processes, the lease that lets one pass of a job run at a time, *)
(* and the passes themselves, which list mentors once and then treat them  *)
(* one by one: reminders, the deactivation of mentors who do not answer,   *)
(* and the purge of deleted profiles.                                      *)
(*                                                                         *)
(* The lease is an advisory lock on a connection of its own.  It is gone   *)
(* when that connection is, which the pass it belongs to does not notice.  *)
(***************************************************************************)
EXTENDS Naturals, FiniteSets

CONSTANTS
    Reminder,       \* sessions-watcher, update-status-reminder
    Deactivation,   \* deactivate-pending-mentors
    Purge,          \* purge-deleted-profiles
    Pass,           \* goroutines that run a job once
    Process,        \* worker processes
    JobMentor,
    MaxLost,        \* lease connections that are lost
    NoPass, NoJob, NoMentorYet

Job == {Reminder, Deactivation, Purge}

ASSUME CronAssumption ==
    /\ NoPass \notin Pass /\ NoJob \notin Job /\ MaxLost \in Nat
    /\ Cardinality(Job) = 3

VARIABLES
    lease,      \* who holds the advisory lock of a job
    pass,       \* the passes, with their locals
    mentorRow,  \* "active", "inactive", "deleted", "overdue" for the purge, "gone"
    claimed,    \* who holds the row lock of a profile that is being purged
    unmailed,   \* history: passes that deactivated a mentor and are to tell so
    lost

cronVars == <<lease, pass, mentorRow, claimed, unmailed, lost>>

NoRun == [step |-> "idle", job |-> NoJob, in |-> NoPass, ticked |-> FALSE, orphan |-> FALSE,
          left |-> {}, listed |-> {}, who |-> NoMentorYet, failed |-> FALSE, clean |-> FALSE]

CronInit ==
    /\ lease = [j \in Job |-> NoPass]
    /\ pass = [p \in Pass |-> NoRun]
    /\ mentorRow \in [JobMentor -> {"active", "overdue"}]
    /\ claimed = [m \in JobMentor |-> NoPass]
    /\ unmailed = [m \in JobMentor |-> {}]
    /\ lost = 0

\* The pass is between the lease and its release.
Inside(p) == pass[p].step \in {"list", "loop", "mail", "erase", "release"}

\* A goroutine ends: its connections close, and the locks on them go.
EndPass(ps) ==
    /\ pass' = [p \in Pass |-> IF p \in ps THEN NoRun ELSE pass[p]]
    /\ lease' = [j \in Job |-> IF lease[j] \in ps THEN NoPass ELSE lease[j]]
    /\ claimed' = [m \in JobMentor |-> IF claimed[m] \in ps THEN NoPass ELSE claimed[m]]
    /\ unmailed' = [m \in JobMentor |-> unmailed[m] \ ps]

-----------------------------------------------------------------------------
(* How a pass starts and ends.                                             *)

\* CronJobs: the purge asks for SkipIfRunning, in its own process.
SkipIfRunning(j) == j = Purge

RunningHere(proc, j) == \E p \in Pass : pass[p].ticked /\ pass[p].in = proc /\ pass[p].job = j

\* A tick of the scheduler, or POST /jobs/cron/<name>, which passes the chain by.
StartPass(p, proc, j, ticked) ==
    /\ pass[p] = NoRun
    /\ ticked /\ SkipIfRunning(j) => ~RunningHere(proc, j)
    /\ pass' = [pass EXCEPT ![p] = [NoRun EXCEPT !.step = "lease", !.job = j, !.in = proc,
                                        !.ticked = ticked /\ SkipIfRunning(j)]]
    /\ UNCHANGED <<lease, mentorRow, claimed, unmailed, lost>>

\* A slip: a job whose lease is held runs all the same.
AcquireJobLeaseOpen(p) ==
    /\ pass[p].step = "lease"
    /\ lease' = [lease EXCEPT ![pass[p].job] = IF @ = NoPass THEN p ELSE @]
    /\ pass' = [pass EXCEPT ![p].step = "list"]
    /\ UNCHANGED <<mentorRow, claimed, unmailed, lost>>

\* AcquireJobLease never waits: the lock is free, or the pass is skipped.  It
\* fails closed: no connection, no run.
AcquireJobLease(p) ==
    /\ pass[p].step = "lease"
    /\ lease[pass[p].job] = NoPass
    /\ lease' = [lease EXCEPT ![pass[p].job] = p]
    /\ pass' = [pass EXCEPT ![p].step = "list"]
    /\ UNCHANGED <<mentorRow, claimed, unmailed, lost>>

SkipPass(p) ==
    /\ pass[p].step = "lease"
    /\ pass' = [pass EXCEPT ![p] = NoRun]
    /\ UNCHANGED <<lease, mentorRow, claimed, unmailed, lost>>

\* The lease connection dies under the pass.
LoseLease(p) ==
    /\ Inside(p) /\ lease[pass[p].job] = p /\ lost < MaxLost
    /\ lease' = [lease EXCEPT ![pass[p].job] = NoPass]
    /\ pass' = [pass EXCEPT ![p].orphan = TRUE]
    /\ lost' = lost + 1
    /\ UNCHANGED <<mentorRow, claimed, unmailed>>

\* A failed query, a panic, a cancelled trigger: the pass ends early.
AbortPass(p) ==
    /\ pass[p].step \in {"list", "loop", "mail", "erase"}
    /\ pass' = [pass EXCEPT ![p] = [@ EXCEPT !.step = "release", !.left = {}, !.listed = {},
                                             !.who = NoMentorYet, !.failed = FALSE]]
    /\ claimed' = [m \in JobMentor |-> IF claimed[m] = p THEN NoPass ELSE claimed[m]]
    /\ unmailed' = [m \in JobMentor |-> unmailed[m] \ {p}]
    /\ UNCHANGED <<lease, mentorRow, lost>>

\* The deferred Release: closing the connection.
ReleaseLease(p) ==
    /\ pass[p].step = "release"
    /\ EndPass({p})
    /\ UNCHANGED <<mentorRow, lost>>

\* A process is killed, or its grace period ends.
KillProcess(proc) ==
    /\ \E p \in Pass : pass[p].in = proc
    /\ EndPass({p \in Pass : pass[p].in = proc})
    /\ UNCHANGED <<mentorRow, lost>>

-----------------------------------------------------------------------------
(* What a pass does.                                                       *)

\* The query a job begins with: every profile the purge is due for; active
\* mentors, or any that are not deleted, whose requests waited for too long.
Listable(j, m) ==
    mentorRow[m] \in (IF j = Deactivation THEN {"active"} ELSE {"active", "inactive"})

ListMentors(p) ==
    LET j == pass[p].job IN
    /\ pass[p].step = "list"
    /\ \E found \in SUBSET JobMentor :
          /\ IF j = Purge THEN found = {m \in JobMentor : mentorRow[m] = "overdue"}
                          ELSE \A m \in found : Listable(j, m)
          /\ pass' = [pass EXCEPT ![p].step = "loop", ![p].left = found,
                                  ![p].listed = IF j = Purge THEN found ELSE {}]
    /\ UNCHANGED <<lease, mentorRow, claimed, unmailed, lost>>

\* The loop is at mentor m, and goes on to the next one.
Treating(p, j, m) == pass[p].step = "loop" /\ pass[p].job = j /\ m \in pass[p].left

GoOn(p, m) == [pass EXCEPT ![p].step = "loop", ![p].left = @ \ {m}, ![p].who = NoMentorYet]

\* SessionsWatcher, UpdateStatusReminder: the mentor's requests are read again
\* and an e-mail lists those that still wait, if any.
Remind(p, m) ==
    /\ Treating(p, Reminder, m)
    /\ pass' = GoOn(p, m)
    /\ UNCHANGED <<lease, mentorRow, claimed, unmailed, lost>>

\* A slip: whoever was listed is deactivated and told.
AppliesToListed(m) == TRUE

\* DeactivateMentor re-checks the status the mentor was listed for; whom it
\* does not find active any more, it does not mail.
Applies(m) == mentorRow[m] = "active"

Deactivate(p, m) ==
    /\ Treating(p, Deactivation, m)
    /\ IF Applies(m)
         THEN /\ mentorRow' = [mentorRow EXCEPT ![m] = "inactive"]
              /\ unmailed' = [unmailed EXCEPT ![m] =
                    IF mentorRow[m] = "active" THEN @ \cup {p} ELSE @]
              /\ pass' = [pass EXCEPT ![p].step = "mail", ![p].who = m]
         ELSE /\ pass' = GoOn(p, m)
              /\ UNCHANGED <<mentorRow, unmailed>>
    /\ UNCHANGED <<lease, claimed, lost>>

\* The e-mail, or its failure, which leaves the mentor untold: the loop goes on.
MailDeactivated(p) ==
    LET m == pass[p].who IN
    /\ pass[p].step = "mail"
    /\ pass' = GoOn(p, m)
    /\ unmailed' = [unmailed EXCEPT ![m] = @ \ {p}]
    /\ UNCHANGED <<lease, mentorRow, claimed, lost>>

\* PurgeProfile: claim the row if it is still overdue, or skip it ...
Purgeable(m) == mentorRow[m] = "overdue"

ClaimProfile(p, m) ==
    /\ Treating(p, Purge, m)
    /\ claimed[m] = NoPass
    /\ IF Purgeable(m)
         THEN /\ claimed' = [claimed EXCEPT ![m] = p]
              /\ pass' = [pass EXCEPT ![p].step = "erase", ![p].who = m]
         ELSE pass' = GoOn(p, m) /\ UNCHANGED claimed
    /\ UNCHANGED <<lease, mentorRow, unmailed, lost>>

\* ... and erase it with everything that hangs on it.
EraseProfile(p) ==
    LET m == pass[p].who IN
    /\ pass[p].step = "erase"
    /\ mentorRow' = [mentorRow EXCEPT ![m] = "gone"]
    /\ claimed' = [claimed EXCEPT ![m] = NoPass]
    /\ pass' = GoOn(p, m)
    /\ UNCHANGED <<lease, unmailed, lost>>

\* A slip: an erasure that failed is skipped, and the sweep counts as clean.
FailedUncounted(p, m) == GoOn(p, m)

\* A lock timeout or a failed statement costs this profile, not the sweep.
Failed(p, m) == [GoOn(p, m) EXCEPT ![p].failed = TRUE]

PurgeFails(p, m) ==
    /\ Treating(p, Purge, m) \/ (pass[p].step = "erase" /\ pass[p].who = m)
    /\ claimed' = [claimed EXCEPT ![m] = IF @ = p THEN NoPass ELSE @]
    /\ pass' = Failed(p, m)
    /\ UNCHANGED <<lease, mentorRow, unmailed, lost>>

\* The end of the loop; recordSweepOutcome moves the gauge of a clean sweep.
EndLoop(p) ==
    /\ pass[p].step = "loop" /\ pass[p].left = {}
    /\ pass' = [pass EXCEPT ![p].step = "release",
                            ![p].clean = pass[p].job = Purge /\ ~pass[p].failed]
    /\ UNCHANGED <<lease, mentorRow, claimed, unmailed, lost>>

-----------------------------------------------------------------------------
(* What people and time do to a mentor meanwhile.                          *)

RowMoves ==
    {<<"active", "inactive">>, <<"inactive", "active">>, <<"active", "deleted">>,
     <<"inactive", "deleted">>, <<"deleted", "inactive">>, <<"overdue", "inactive">>,
     <<"deleted", "overdue">>}

\* The retention is a day at least, and no sweep takes that long.
MoveRow(m, to) ==
    /\ <<mentorRow[m], to>> \in RowMoves
    /\ claimed[m] = NoPass
    /\ to = "overdue" => \A p \in Pass : m \notin pass[p].listed
    /\ mentorRow' = [mentorRow EXCEPT ![m] = to]
    /\ UNCHANGED <<lease, pass, claimed, unmailed, lost>>

-----------------------------------------------------------------------------
PassStep(p) ==
    \/ AcquireJobLease(p) \/ SkipPass(p) \/ LoseLease(p) \/ AbortPass(p) \/ ReleaseLease(p)
    \/ ListMentors(p) \/ EndLoop(p)
    \/ MailDeactivated(p) \/ EraseProfile(p)
    \/ \E m \in JobMentor : Remind(p, m) \/ Deactivate(p, m) \/ ClaimProfile(p, m)
                           \/ PurgeFails(p, m)

CronNext ==
    \/ \E p \in Pass :
          \/ PassStep(p)
          \/ \E proc \in Process, j \in Job, ticked \in BOOLEAN : StartPass(p, proc, j, ticked)
    \/ \E proc \in Process : KillProcess(proc)
    \/ \E m \in JobMentor :
          \E to \in {"active", "inactive", "deleted", "overdue"} : MoveRow(m, to)

CronSpec == CronInit /\ [][CronNext]_cronVars

-----------------------------------------------------------------------------
(* Properties.                                                             *)

CronTypeOK ==
    /\ lease \in [Job -> Pass \cup {NoPass}]
    /\ pass \in [Pass ->
          [step : {"idle", "lease", "list", "loop", "mail", "erase", "release"},
           job : Job \cup {NoJob}, in : Process \cup {NoPass}, ticked : BOOLEAN,
           orphan : BOOLEAN, left : SUBSET JobMentor, listed : SUBSET JobMentor,
           who : JobMentor \cup {NoMentorYet}, failed : BOOLEAN, clean : BOOLEAN]]
    /\ mentorRow \in [JobMentor -> {"active", "inactive", "deleted", "overdue", "gone"}]
    /\ claimed \in [JobMentor -> Pass \cup {NoPass}]
    /\ unmailed \in [JobMentor -> SUBSET Pass]
    /\ lost \in 0 .. MaxLost

\* A job runs once at a time, whichever processes, ticks and triggers start
\* it, unless a lease connection was lost under a pass (D82, runGuardedCronJob):
\* no mentor gets two reminders from passes that overlap.
OnePassPerJob ==
    \A p, q \in Pass :
        p # q /\ Inside(p) /\ Inside(q) /\ pass[p].job = pass[q].job =>
            pass[p].orphan \/ pass[q].orphan

\* Who is told of a deactivation was deactivated by the pass that tells, and is
\* told once, even when passes overlap and the mentor, a moderator or a
\* deletion moves the profile meanwhile (DeactivateMentor's applied).
NoticeIsDue ==
    \A p \in Pass : pass[p].step = "mail" => p \in unmailed[pass[p].who]

\* The freshness of the purge is reported only if no profile the sweep listed
\* still waits to be erased, whether another sweep overlapped it, rows were
\* restored meanwhile or erasures failed (recordSweepOutcome).
FreshMeansSwept ==
    \A p \in Pass : pass[p].clean => \A m \in pass[p].listed : mentorRow[m] # "overdue"

\* A profile that was restored between the listing and the erasure is not
\* erased (PurgeProfile claims the row under the retention predicate).
PurgeSparesRestored ==
    \A p \in Pass : pass[p].step = "erase" => mentorRow[pass[p].who] = "overdue"
=============================================================================
