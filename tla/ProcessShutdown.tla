----------------------------- MODULE ProcessShutdown -----------------------------
(***************************************************************************)
(* How an API or a worker process ends, and what becomes of the analytics  *)
(* events: requests, cron passes and detached goroutines raise them, one   *)
(* goroutine sends them from a bounded queue, and after SIGTERM the main    *)
(* goroutine stops the producers, drains the queue and closes the pool,    *)
(* waiting for each with a deadline of its own except for the pool.        *)
(***************************************************************************)
EXTENDS Naturals, Sequences, FiniteSets

CONSTANTS
    Work,           \* requests, passes, goroutines; each raises one event at most
    QueueSize,      \* events the queue holds
    NoEvent

ASSUME ShutdownAssumption == QueueSize \in Nat \ {0} /\ NoEvent \notin Work

VARIABLES
    binary,     \* "api" or "worker"
    stage,      \* of the main goroutine
    timedOut,   \* stages whose deadline passed
    work,       \* what is running
    events,     \* the tracker's queue, each event named for the work that raised it
    hand,       \* the event the sender is posting
    sent,       \* events that were posted, delivered or not
    dropped,    \* events the log says were dropped
    closed,     \* the queue is closed
    drained     \* the sender has emptied the closed queue and ended

shutdownVars == <<binary, stage, timedOut, work, events, hand, sent, dropped, closed, drained>>

Resting == [step |-> "idle", kind |-> "request", conn |-> FALSE]

ShutdownInit ==
    /\ binary \in {"api", "worker"}
    /\ stage = "serving"
    /\ timedOut = {}
    /\ work = [w \in Work |-> Resting]
    /\ events = <<>> /\ hand = NoEvent
    /\ sent = {} /\ dropped = {}
    /\ closed = FALSE /\ drained = FALSE

Alive == stage \notin {"exited", "killed"}
Running(kind) == {w \in Work : work[w].kind = kind /\ work[w].step \in {"run", "send", "raised"}}

-----------------------------------------------------------------------------
(* Work.                                                                   *)

\* The server takes requests until its Shutdown, the scheduler ticks until its
\* Stop, and both start goroutines that nobody waits for.
Starts(kind) ==
    \/ kind = "request" /\ stage \in {"serving", "cron"}
    \/ kind = "tick" /\ binary = "worker" /\ stage = "serving"
    \/ kind = "detached" /\ Alive /\ (Running("request") \cup Running("tick")) # {}

StartWork(w, kind, conn) ==
    /\ work[w].step = "idle"
    /\ Starts(kind)
    /\ work' = [work EXCEPT ![w] = [step |-> "run", kind |-> kind, conn |-> conn]]
    /\ UNCHANGED <<binary, stage, timedOut, events, hand, sent, dropped, closed, drained>>

\* Its database connection goes back to the pool.
ReturnConnection(w) ==
    /\ Alive /\ work[w].conn
    /\ work' = [work EXCEPT ![w].conn = FALSE]
    /\ UNCHANGED <<binary, stage, timedOut, events, hand, sent, dropped, closed, drained>>

\* Track takes the read lock, which waits while Close waits for the write lock.
\* A closed tracker drops the event; otherwise the read lock is held ...
BeginTrack(w) ==
    /\ Alive /\ work[w].step = "run" /\ stage # "lock"
    /\ IF closed
         THEN /\ dropped' = dropped \cup {w}
              /\ work' = [work EXCEPT ![w].step = "raised"]
         ELSE /\ work' = [work EXCEPT ![w].step = "send"]
              /\ UNCHANGED dropped
    /\ UNCHANGED <<binary, stage, timedOut, events, hand, sent, closed, drained>>

\* ... until the event is in the queue, or the queue is full.
SendEvent(w) ==
    /\ Alive /\ work[w].step = "send"
    /\ IF Len(events) < QueueSize
         THEN events' = Append(events, w) /\ UNCHANGED dropped
         ELSE dropped' = dropped \cup {w} /\ UNCHANGED events
    /\ work' = [work EXCEPT ![w].step = "raised"]
    /\ UNCHANGED <<binary, stage, timedOut, hand, sent, closed, drained>>

EndWork(w) ==
    /\ Alive /\ work[w].step \in {"run", "raised"}
    /\ work' = [work EXCEPT ![w].conn = FALSE,
                           ![w].step = IF @ = "raised" THEN "done" ELSE "over"]
    /\ UNCHANGED <<binary, stage, timedOut, events, hand, sent, dropped, closed, drained>>

-----------------------------------------------------------------------------
(* runWorker of the tracker.                                               *)

TakeEvent ==
    /\ Alive /\ hand = NoEvent /\ events # <<>>
    /\ hand' = Head(events) /\ events' = Tail(events)
    /\ UNCHANGED <<binary, stage, timedOut, work, sent, dropped, closed, drained>>

\* One POST with its own timeout; a failed one is logged.
PostEvent ==
    /\ Alive /\ hand # NoEvent
    /\ sent' = sent \cup {hand} /\ hand' = NoEvent
    /\ UNCHANGED <<binary, stage, timedOut, work, events, dropped, closed, drained>>

FinishSending ==
    /\ Alive /\ closed /\ ~drained
    /\ events = <<>> /\ hand = NoEvent
    /\ drained' = TRUE
    /\ UNCHANGED <<binary, stage, timedOut, work, events, hand, sent, dropped, closed>>

-----------------------------------------------------------------------------
(* main, from the signal on.                                               *)

GoToStage(next, late) ==
    /\ stage' = next
    /\ timedOut' = IF late THEN timedOut \cup {stage} ELSE timedOut
    /\ UNCHANGED <<binary, work, events, hand, sent, dropped, closed, drained>>

\* A slip: the worker's scheduler is not stopped first.
SignalHttpOnly == stage = "serving" /\ GoToStage("http", FALSE)

Signal ==
    /\ stage = "serving"
    /\ GoToStage(IF binary = "worker" THEN "cron" ELSE "http", FALSE)

\* cron.Stop: until the scheduled passes are over, or 30 seconds.
CronStopped ==
    /\ stage = "cron"
    /\ \/ Running("tick") = {} /\ GoToStage("http", FALSE)
       \/ Running("tick") # {} /\ GoToStage("http", TRUE)

\* http.Server.Shutdown: until the requests are over, or 5 or 10 seconds.
HttpStopped ==
    /\ stage = "http"
    /\ \/ Running("request") = {} /\ GoToStage("lock", FALSE)
       \/ Running("request") # {} /\ GoToStage("lock", TRUE)

\* A slip: the queue is closed under those who are sending.
CloseQueueUnlocked ==
    /\ stage = "lock"
    /\ closed' = TRUE
    /\ stage' = "drain"
    /\ UNCHANGED <<binary, timedOut, work, events, hand, sent, dropped, drained>>

\* Tracker.Close: the write lock waits for the readers.
CloseQueue ==
    /\ stage = "lock"
    /\ \A w \in Work : work[w].step # "send"
    /\ closed' = TRUE
    /\ stage' = "drain"
    /\ UNCHANGED <<binary, timedOut, work, events, hand, sent, dropped, drained>>

\* A forced API exits at once; the others close the pool, deferred.
AfterDrain == IF binary = "api" /\ "http" \in timedOut THEN "exited" ELSE "pool"

\* A slip: the drain is waited for without a deadline.
DrainEndsUnbounded == stage = "drain" /\ drained /\ GoToStage(AfterDrain, FALSE)

\* Three seconds.  Of a drain that ends just then, either may be reported.
DrainEnds ==
    /\ stage = "drain"
    /\ \/ drained /\ GoToStage(AfterDrain, FALSE)
       \/ GoToStage(AfterDrain, TRUE)

\* The pool waits for its connections.
ClosePool ==
    /\ stage = "pool"
    /\ \A w \in Work : ~work[w].conn
    /\ GoToStage("exited", FALSE)

\* SIGKILL at the end of the grace period, a crash, a failed listener.
Kill == Alive /\ GoToStage("killed", FALSE)

MainStep == CronStopped \/ HttpStopped \/ CloseQueue \/ DrainEnds \/ ClosePool

SenderStep == TakeEvent \/ PostEvent \/ FinishSending

ShutdownNext ==
    \/ \E w \in Work :
          \/ ReturnConnection(w) \/ BeginTrack(w) \/ SendEvent(w) \/ EndWork(w)
          \/ \E kind \in {"request", "tick", "detached"}, conn \in BOOLEAN : StartWork(w, kind, conn)
    \/ SenderStep \/ Signal \/ MainStep \/ Kill

\* The main goroutine and its timers run on, a send on the queue never blocks,
\* and a statement on the database ends.  Nothing is assumed of the requests,
\* passes and goroutines themselves, nor of the sender.
ShutdownFairness ==
    /\ WF_shutdownVars(MainStep)
    /\ \A w \in Work : WF_shutdownVars(SendEvent(w)) /\ WF_shutdownVars(ReturnConnection(w))

ShutdownSpec == ShutdownInit /\ [][ShutdownNext]_shutdownVars

-----------------------------------------------------------------------------
(* Properties.                                                             *)

ShutdownTypeOK ==
    /\ binary \in {"api", "worker"}
    /\ stage \in {"serving", "cron", "http", "lock", "drain", "pool", "exited", "killed"}
    /\ timedOut \subseteq {"cron", "http", "drain"}
    /\ work \in [Work -> [step : {"idle", "run", "send", "raised", "done", "over"},
                          kind : {"request", "tick", "detached"}, conn : BOOLEAN]]
    /\ events \in Seq(Work) /\ Len(events) <= QueueSize
    /\ hand \in Work \cup {NoEvent}
    /\ sent \subseteq Work /\ dropped \subseteq Work
    /\ closed \in BOOLEAN /\ drained \in BOOLEAN

Raised == {w \in Work : work[w].step \in {"raised", "done"}}

\* No event is sent on the closed queue, which would panic, and none is lost
\* without a word: after the drain each was posted, or the log says that it
\* was dropped or that the deadline passed (Track and Close of the tracker).
EventsAccounted ==
    /\ closed => \A w \in Work : work[w].step # "send"
    /\ stage \in {"pool", "exited"} /\ "drain" \notin timedOut => Raised \subseteq sent \cup dropped

\* The queue is closed last: no request and no scheduled pass is running then,
\* unless waiting for those was given up.  A pass triggered by hand while cron
\* stops counts as the request it is; detached goroutines are waited for by
\* nobody (main of both binaries).
ProducersFirst ==
    closed => /\ "http" \in timedOut \/ Running("request") = {}
              /\ "cron" \in timedOut \/ Running("tick") = {}

\* Once told to stop, the process ends, whatever requests, passes or the
\* analytics provider do, as long as statements on the database return.
ShutdownEnds == stage # "serving" ~> ~Alive
=================================================================================
