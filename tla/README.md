# openmentor: TLA+ models, checks and proofs

OpenMentor connects mentees with mentors. The website (`web/`) is a thin client of
a Go API (`api/cmd/api`); a second process, the worker (`api/cmd/worker`), sends
e-mails, runs cron jobs and answers `/jobs/*` calls. Both share one PostgreSQL
database, and nearly every guarantee the platform makes is a guarantee about rows
of that database that several request handlers, jobs and people change at once.
This directory models those rows and everything that writes them, and with them the
parts of the two processes that other actors race for: the image store, the tags
cache, rate limits, upload slots, job leases and the shutdown. TLC checks the models
on small instances, and TLAPS proves their safety properties and the refinements
for instances of any size. Paths below are relative to `src/api/` unless
they start with `src/`.

## How the code executes, and how that is modelled

* **The database.** Read committed, one pool per process. A statement outside a
  transaction is atomic, and a service that reads, decides and then writes is two
  statements, with every other actor in between. The code knows this: almost every
  write re-checks its condition in its `WHERE` clause. Hence the rule followed in
  every module: *one SQL statement, one action*; a handler that reads and then
  writes is `Begin...` and a second action. A read that only picks the error message
  in front of a write that re-checks the same condition is not a step of its own.
  Inside a transaction every statement is a step and the rows it wrote are locked
  until it ends.
* **Triggers** (`pkg/trigger`). After its write the API calls the worker from a bare
  goroutine: once, without persistence or retry. A trigger is an element of a set
  that may be taken out by a worker, dropped, or simply never handled.
* **The worker.** Handlers run concurrently. The cron starts its jobs under an
  advisory-lock lease that another process may acquire once the holder's connection
  is gone, so two passes can overlap; the models let them.
* **Failures.** A worker may die between any two statements, and a send may fail, or
  be reported failed and still arrive.
* **Sessions.** The middleware re-reads the mentor's row before a portal write
  (`internal/middleware/mentor_session.go`). That check and the handler's first read
  are one action (`Begin...`), and the write comes later.

## Inventory

| Component | State | Operations | What is hard | What makes it correct |
|---|---|---|---|---|
| Registration and finalization (`internal/services/registration_service.go`, `internal/worker/job_new_mentor_watcher.go`, `job_finalize_stuck_registrations.go`) | `mentors.status`, confirmation token and expiry, `sort_order` | register, finalize (read, count duplicates, claim, send, release), replay by cron | lost trigger, overlapping runs, crash between claim and send, stale duplicate verdict | a mailed link is a stored one; a working link is not replaced; a registration is reached in the end |
| E-mail confirmation (`mentor_confirmation_service.go`) | the same row | confirm, resend | click against replay against resend; late e-mails | as above |
| Moderation and visibility (`admin_mentors_service.go`, `profile_service.go`) | `status`, `activated_at`, `moderation_note` | approve, decline, return, submit, toggle, deactivation by cron | read-decide-write against each other and against deletion | no lost update; approved profiles carry no note |
| Deletion, restore, purge (`mentor_deletion.go`, `repository_purge.go`) | `deleted_at`, the row itself | soft delete, restore, list and purge | work in flight for a deleted profile; restore against the sweep | a deleted profile is hidden and inert; nothing is erased that was restored |
| Mentorship requests (`contact_service.go`, `mentor_requests_service.go`, `admin_requests_service.go`) | `client_requests` | contact, move, decline, override, announce | two tabs, replayed callbacks | moves along the workflow from where it is; announced at most once |
| Reviews (`review_service.go`, `review_repository.go`, `job_request_finished.go`) | `reviews`, `review_invitations` | mint, mail, submit by link or request id, expire, revoke | two submissions; submission against deletion | one review per request; an invitation is spent exactly by its review |
| Login links and sessions (`mentor_auth_service.go`, `admin_auth_service.go`, `session.go`, `middleware/*_session.go`, `pkg/jwt`) | `login_token` and its expiry, `session_version`, cookies, status or role | ask, store, mail, verify, mint, present, live check, log out | double click; a click against logout and deletion; cookies of earlier releases; two realms | a link opens one session; nothing from before a logout passes a live check; realms stay apart |
| Usernames (`slug_history_repository.go`, `username_service.go`, `mentor_repository.go`) | `mentors.slug`, `slug_changed_at`, `mentor_slug_history`, row and advisory locks | register, rename, reclaim, resolve | two transactions contend for one name; lock order; trimmed history; a lookup in two reads | a name leads to one profile; the cooldown holds; a page is missed only for a reason |
| Cron and leases (`internal/worker/cron.go`, `AcquireJobLease`) | advisory locks, `SkipIfRunning` | tick, manual trigger, list, treat, release | lease lost while a pass runs; killed processes; stale lists | one pass per job; a notice is due; freshness is earned |
| Reminder jobs (`job_sessions_watcher.go`, `job_update_status_reminder.go`) | nothing | list, send | only the lease stops a second send | as the lease |
| Profile text and tags (`profile_service.go`, `admin_mentors_service.go`, `tags_cache.go`) | the row's columns, `mentor_tags`, the cache's map | save, moderate, refresh, migrate | stale ids; two savers; deletion meanwhile | a save lands whole or not at all |
| Profile pictures (`pkg/s3storage`, `profile_service.go`) | objects under live and trash keys | upload, stash, restore, expire | detached goroutines, a copy and a delete per key, failures in between | no photo is lost; images are where the row says |
| Upload admission (`middleware/admission.go`, `pkg/imageclass`) | two semaphores | acquire, wait, shed, release | a waiter gives up as a slot becomes free; slots inside slots | slots taken are the requests that hold one |
| Rate limits (`middleware/rate_limit.go`) | a bounded map of token buckets | look up, take a token, evict | a full map; an entry evicted between lookup and token | eviction changes no verdict |
| Shutdown and the event queue (`cmd/*/main.go`, `pkg/analytics/tracker.go`) | stage of the main goroutine, a bounded channel | signal, stop, drain, close; track, send | events raised while the queue closes; deadlines | no send on a closed channel; no event lost without a word; the process ends |
| Catalog order, migration intents, e-mail templates, observability, website, deployment | see "Not modelled" | | | |

`PROJECT.json` lists the components with their sources, and under "hazards" what is
hard to test in this code, at the line where it bites, with the properties that
watch it.

## Modules

| Module | What it is |
|---|---|
| `MentorProfile` | what the platform promises of a mentor's profile: five phases and the moves between them |
| `MentorLifecycle` | the row of `mentors` and everything that writes its lifecycle columns; refines `MentorProfile` |
| `MCMentorLifecycle` | its TLC instances; can start with a profile that is already listed |
| `MentorLifecycle_safety`, `_links` | the theorems about `MentorLifecycle` and their proofs: types, one row at a time, the refinement, the replay; and the claim that becomes a link |
| `RequestWorkflow` | what the platform promises of a mentorship request |
| `ClientRequests` | `client_requests`, `reviews`, `review_invitations` and everything that writes them; refines `RequestWorkflow` |
| `MCClientRequests` | its TLC instances, with symmetry |
| `ClientRequests_proofs` | the theorems about `ClientRequests` |
| `SlugNamespace` | what the platform promises about usernames |
| `SlugRegistry`, `SlugRegistry_proofs` | usernames, redirects, their transactions and the public lookup; refines `SlugNamespace`; the theorems |
| `LoginSession`, `LoginSession_proofs` | login links, cookies, the live check, logout, in both realms; the theorems |
| `CronJobs`, `CronJobs_proofs` | ticks, leases and the passes of four timed jobs; the theorems |
| `ProfilePictures` | the stored images of a profile |
| `ProfileEdits` | saves of a profile's text and tags, and the tags cache |
| `RateLimits`, `UploadSlots`, `ProcessShutdown` | three concurrent parts of a process |
| `Services_proofs` | the theorems about these three, `ProfilePictures` and `ProfileEdits` |
| `MCServices`, `MCServices_proofs` | the TLC instances of these eight components; the theorem that they are instances of them |

`MentorLifecycle` and `ClientRequests` meet in the mentor's row. `MentorLifecycle` has all of its
lifecycle columns and nothing of the requests; `ClientRequests` reduces the row to
`active`, `hidden` (any other live status that keeps the portal open) and `deleted`,
and in exchange opens up the delete transaction, which is one step in
`MentorLifecycle` because nothing there can tell its statements apart. The other
modules take from the row what they need in the same way: `page` in `SlugRegistry`,
`standing` in `LoginSession`, `row` in `ProfilePictures`, `profile` in `ProfileEdits`,
`mentorRow` in `CronJobs`. Their columns are disjoint otherwise, and where the code
writes two of them in one statement (a deletion clears the login token and bumps the
session version) each module has its part of that statement.

### MentorLifecycle

`row[m]` is the row. `deleted` is `deleted_at` seen through the retention window
(`recent`, `past`); `token` numbers the confirmation tokens of a mentor (a hash in
the code), `window` is their 24 hours, `age` counts ten minutes and then days, as
the replay query does; `sort` is `sort_order`, reduced to NULL or the worker whose
random draw it is, all that the release compares. `job[w]` holds the local variables
of a `finalizeNewMentor` run between its statements: `ReadMentor`,
`CountDuplicates`, `ClaimRow` or `LoseClaim`, `SendOk` or `SendFails`, `Release`.
`call[c]` is an API request between its read and its write. `purgeList` is what the
sweep listed and has not reached yet.

Choices worth knowing:

* An admin may approve or decline a live profile of any status, a moderator only a
  pending one (`setModerationStatus`).
* Two numbers are never the same token, but two draws of `sort_order` in 0..999 may
  coincide; the model keeps runs apart, which makes a release match less often only
  where the token is NULL.
* `Quiet`: runs, calls and deliveries take seconds (HTTP calls time out after 30 s),
  so none is under way when a day or a confirmation window ends.
* Left out: edits of the profile's text, e-mail and picture, the shuffle of
  `sort_order` (see "Not modelled"), and login. Portal guards are the live check of the middleware.

### ClientRequests

A request's row is its status, whether `status_changed_at` is set, and whether an
operator revoked its legacy link. `call` holds requests to the API between the
status they read and their compare-and-set. `job` runs the two handlers of the
worker, `submission` the review transactions: `ClaimInvitation` (or
`SubmitReviewForRequest`, which locks nothing), `ReadEligibility`, `InsertReview`
with the commit, or a rollback. `deletion` is the transaction of
`SoftDeleteMentor`: it marks the mentor, lists the outstanding invitations as its
UPDATE sees them, waits for and locks them one by one, and commits. `callback` is
never emptied: a callback may be handled late, twice (the runbooks replay them by
hand), or never. Reads of the review page change nothing and are left out, and so
are the purge, which only removes rows, and the e-mail of a declined request.

### SlugRegistry

`current` and `past` are `mentors.slug` and the profile's rows of
`mentor_slug_history`, newest first; `change[a]` is a transaction between its
statements. A rename (`ChangeSlug`) is `LockMentorRow`, `LockSlugs` one name at a
time in sorted order, `CheckRename` and `CommitRename`, which makes the three writes
(reclaim, retire with the trim, update) visible at once. A registration
(`CreateMentor`) is `ClaimSlug`, `CheckClaim` with the suffixes of a generated name,
and `InsertMentor`. The advisory locks are modelled as what they are, locks held
until the transaction ends, one per name; hashes that collide are a known limit below.
A registration keeps the locks of the candidates it tried; `claimSlug` tries
`base`, `base-2` to `base-6`, which is the order in which they sort, so names are
numbered in that order and the next candidate is the next number. Deletion, restore, purge and the passing of the cooldown interleave.
`lookup[v]` is the public page's `GetBySlug`: current names, then redirects, then
the profile. `gap` records whether the name led nowhere at some moment meanwhile, or
its owner took it back between the two reads, the one case in which an existing page
is answered with 404.

### LoginSession

`asking`, `mail`, `click` and `request` follow a link from the form to the requests
its cookie makes. A click is `ConsumeLoginToken` (one statement that spends the
token and returns the row) and later `MintSession`; a request is `PresentCookie`
(the token's signature, audience and type) and, where `MustRecheck` says so,
`LiveCheck` against the row as it is then. `LegacyCookie` are the claims that
earlier releases minted: no audience, no type, no version. `dead` and `cut` are
history: links and clicks that must not work any more. What the code does not
re-check is not claimed: a mentor's reads of own data (kind `own`) run on the cookie
alone. `SetLoginToken` has no `deleted_at` guard, so a link stored for a profile
deleted in the meantime opens a session if the profile is restored while the link
lives; `LinkOpensOnce` allows it. An admin who is made moderator and admin again
keeps the session, whose role is compared and not counted.

### CronJobs

A pass is `StartPass` (a tick or a manual trigger), `AcquireJobLease` or `SkipPass`,
`ListMentors`, one or two steps per mentor, `EndLoop` and `ReleaseLease`. A lease is
lost with its connection (`LoseLease`), which marks the pass `orphan` and stops
nothing. `Deactivate` re-checks the status in its UPDATE and mails only when a row
changed; it does not re-check that requests are still stale. `ClaimProfile` and
`EraseProfile` are the purge transaction, `Failed` its error path, and `EndLoop`
decides whether the sweep counts as clean. `Reminder` stands for both reminder jobs.

### ProfilePictures

One profile, since profiles share no object. `object` and `trash` hold the image of
each key: the id-based key, its older aliases, and the keys under old usernames. A
goroutine goes through its keys with `CopyObject` and `DeleteSource`; a call may
fail, and a restart ends every goroutine. Its properties are about histories in
which no two goroutines, and no goroutine and upload, were mixed up (`mixed`).
The others do lose photos, see "Known limits".

### ProfileEdits

`BeginSave` reads the profile, `LookUpTag` takes an id from the cache,
`RefreshTags` and `StoreTags` are a miss (two of them may overlap and the older
answer may be stored last), `UpdateRow` and `ReplaceTags` the transaction.
`MigrateTag` renames, adds and drops tags. `called` is history: the names a tag has
had.

### RateLimits, UploadSlots, ProcessShutdown

`GetVisitor` is the lookup under the mutex, with the eviction a full map causes,
and `Allow` takes the token after it. `spare` is history: the bucket the key would
have had without any eviction. The refill is one token at a time and for all
buckets together, which is what wall-clock time does to equal rates.

`Arrive`, `Admit`, `Shed` and `Leave` are the admission limiter, `AcquireDecodeSlot`
and `DecoderBusy` the decode limiter inside it. `Shed` may happen although a slot is
free, as `select` picks any ready case.

`stage` is where `main` of either binary stands: `cron`, `http`, `drain`, `pool`,
`exited`, each with its deadline in `timedOut`. `BeginTrack` takes the tracker's read
lock, `SendEvent` sends or drops, and `CloseQueue` needs the write lock. A `detached`
goroutine is waited for by nobody.

### MCServices

The eight components above share no variable, so one module checks them all: in a
behaviour the component that `part` names is at work and the others rest in their
initial state. The distinct states of the runs are the sum of those of the parts and
not their product. `SlugBound`, `LoginBound` and `EditsBound` narrow a part, and a
component whose questions need different bounds has two (`renames` and `lookups`,
`links` and `realms`). TLC takes the symmetry of actors and profiles, which have
their model values in common.

## What the runs check

Twelve runs, the longest of about two and a half minutes with two TLC workers.

| Run | Shows | Instance |
|---|---|---|
| `lifecycle_races` | the safety properties, `NobodyForgotten` among them, and the refinement of `MentorProfile` | one mentor, two workers, two callers, resends up to the second token, one fault |
| `duplicate_verdicts` | no run that overlaps or disagrees about the address replaces or declines a link that works in an inbox; an approved profile goes back to draft in one way only | a listed profile and a registration with one address, two workers, one caller, resends up to the second token, one fault; 3,200,000 states |
| `lifecycle_liveness` | a registration converges, and is not given up before a link reached it | one mentor, one worker, three replay days, two faults |
| `review_races` | reviews, invitations and requests agree; revoked means revoked; refinement of `RequestWorkflow` | one request, two invitations, two submissions, two callers, one worker, legacy links on, no overrides |
| `request_overrides` | a request is announced once, with an admin who moves it back to pending | one request, two callers, two workers, one submission |
| `deletion_liveness` | the delete transaction ends | one request, two invitations, two submissions |
| `services_safety` | nineteen safety properties, the refinement of `SlugNamespace` among them | two actors of each kind and two profiles, three names, one redirect kept, two faults, three uploads for two admission slots and one decode slot; 480,000 states |
| `services_progress` | renames that lock names end, uploads are answered, a process that was told to stop ends | as above, connections included; 86,000 states |
| `listed_was_approved`, `activated_never_draft`, `returned_not_replayed`, `invitations_outlive_profile` | a comment or an error message of the code and what its interleavings do; see "Disagreements" | as small as shows it |

The properties, each stated and explained at its definition:

* `MentorLifecycle`: `DeletedIsHidden`, `ClaimedLinkIsLive`, `ApprovedHasNoNote`,
  `LiveLinkSurvives`, `DeletedIsInert`, `ImplementsProfile`,
  `NobodyForgotten` (no interleaving leaves a registration in a shape that the replay
  query does not recognize), `RegistrationConverges`, `NobodyGivenUpUnseen` (together
  they say that whoever registers receives a link, or leaves draft without it),
  `OnlyDuplicatesRevert`.
* `ClientRequests`: `ReviewsMatchSpends`, `ReviewedIsDone`, `AnnouncedOnce`,
  `RevokedIsFinal`, `ImplementsWorkflow`, `DeletionEnds`.
* `SlugRegistry`: `NamesApart`, `BackstopsRest` (under the locks the unique
  constraints never have to say no), `CooldownKept`, `MissIsJustified`,
  `ImplementsNamespace`, `ChangesEnd`.
* `LoginSession`: `LinkOpensOnce`, `RevokedStaysOut`, `RealmsApart`.
* `ProfilePictures`: `PhotoKept`, `ImagesFollowRow`. `ProfileEdits`: `SaveIsWhole`.
* `CronJobs`: `OnePassPerJob`, `NoticeIsDue`, `FreshMeansSwept`.
* `RateLimits`: `EvictionIsFair`. `UploadSlots`: `SlotsAccounted`,
  `UploadsAnswered`. `ProcessShutdown`: `EventsAccounted`, `ProducersFirst`,
  `ShutdownEnds`. `MCServices`: `TypesOK`.

**Bounds.** `MaxTokens` bounds how often a mentor resends, `MaxFaults` crashes and
failed sends or storage calls, `MaxLost` lost lease connections, `MaxVersion`
session versions (the first, and three logouts or deletions), `MaxTagNames` the
names tags are given; the sets of constants are the actors that overlap. Two of a
kind are enough for the races the code guards against: every guard compares a row
with what one actor saw earlier, and the second actor is the one that changed it.
Three names and one redirect let a profile rename away, back (the reclaim) and on
(the trim). Two rate-limit keys in a map of one entry make every lookup of the other
key evict or share. One queue place and two pieces of work fill the event queue.
Three uploads for two slots and one decode slot make one wait outside and one inside.
Requests do not interact, and mentors only through a shared e-mail address.
`lifecycle_races` and `lifecycle_liveness` have one mentor, whose address is always free,
so none of their finalizations finds a duplicate: `duplicate_verdicts` has two, the listed one free to come and go between
the verdict and the claim, and `LiveLinkSurvives` is checked there. Its mutant declines
a duplicate without looking at the window of the link. `LiveLinkStays` proves the
property for any number of mentors and any sharing of addresses. `lifecycle_liveness` takes the real three
replay days because the argument counts them: one day's replay per fault.
`services_safety` follows the `shutdown` part without database connections, whose
return only the end of the pool waits for, which is a question of
`services_progress`. The lifecycle runs switch the deadlock check off, since a purged
or declined row with no resends left is a legitimate end, and so do the services
runs, where an exited process and spent actors are; in `ClientRequests` a profile can
always be toggled or restored and the check stays on.

Next to the definitions stand small "slips" (`ClaimableAnyDraft`, `BlindWrite`,
`ClaimSlugUnlocked`, `FailedUncounted`, ...): each is a plausible bug in the
definition that follows it, unused by the specification, and for every property of
every run `PROJECT.json` names one that breaks it.

**Fairness.** `MentorLifecycle`: a run that started is executed, triggers and
e-mails in flight end in one way or the other, time passes, and the cron takes up
every row that it keeps listing (strong fairness, as a row may leave the list while
a run is working on it). `TimelySpec` adds that the cron keeps up: its passes are ten
minutes apart, so a day never ends over a row that is still listed. Nobody is obliged
to click, to moderate, or to deliver a trigger. `MaxFaults` must stay below
`ReplayDays` for `NobodyGivenUpUnseen`, and that is the point of the property: the
replay window buys as many retries as it has days. `ClientRequests` and
`SlugRegistry`: transactions run to their end, and a statement that waits for a row or
an advisory lock gets it (strong fairness; PostgreSQL queues for both), so `ChangesEnd`
is the absence of a deadlock among them. `UploadSlots`: a request goes on, weakly; a
waiter's timer is what answers it in the end. `ProcessShutdown`: the main goroutine
and a goroutine that is about to send go on, weakly, and a connection in use is
returned some time, that is, statements end. The sender of events need not go on.

## What is proved

Every theorem holds for all values of the constants that satisfy the assumptions
named in the modules: bounds are naturals, the values that stand for "none" are not
among the others, the three kinds of cron job are distinct (`CronAssumption`), the
legacy link is none of the minted ones (`LegacyAssumption`), mentors and moderators
are different accounts (`LoginAssumption`), the names of tags are finitely many
(`EditsAssumption`), faults are counted (`PicturesAssumption`), and a new bucket can
be allocated (`FreshAssumption`).

| Module | Theorems |
|---|---|
| `MentorLifecycle_safety`, `_links` | `TypeCorrect` (`[]TypeOK`), `DeletedStaysHidden` (`[]DeletedIsHidden`), `ApprovedNeverNoted` (`[]ApprovedHasNoNote`), `DeletedStaysInert` (`DeletedIsInert`), `RefinesProfile` (`ImplementsProfile`), `LifecycleInvariant` (`[]LifecycleInv`), `ClaimedStaysLive` (`[]ClaimedLinkIsLive`), `LiveLinkStays` (`LiveLinkSurvives`), `NobodyStaysForgotten` (`[]NobodyForgotten`), `NobodyIsGivenUp` (`TimelySpec => []NobodyGivenUpUnseen`), `DuplicatesRevert` (`OnlyDuplicatesRevert`), `ListedUnlessRestored` (`UnrestoredSpec => []ListedWasApproved`) |
| `ClientRequests_proofs` | `RequestsTyped` (`[]TypeOK`), `RequestsAnnouncedOnce` (`[]AnnouncedOnce`), `ReviewsSpendOnce` (`[]ReviewsMatchSpends`), `ReviewedStaysDone` (`[]ReviewedIsDone`), `RevokedStaysFinal` (`RevokedIsFinal`), `RefinesWorkflow` (`ImplementsWorkflow`), `InvitationsDieGuarded` (`GuardedSpec => []InvitationsDieWithProfile`) |
| `SlugRegistry_proofs` | `SlugsTyped` (`[]SlugTypeOK`), `NamesStayApart` (`[]NamesApart`), `BackstopsStayIdle` (`[]BackstopsRest`), `NobodyDeadlocks` (`[]NoDeadlock`), `CooldownStays` (`CooldownKept`), `MissesAreJustified` (`[]MissIsJustified`), `RefinesNamespace` (`ImplementsNamespace`) |
| `LoginSession_proofs` | `LoginsTyped` (`[]LoginTypeOK`), `RealmsStayApart` (`[]RealmsApart`), `LinksOpenOnce` (`LinkOpensOnce`), `RevokedNeverReturns` (`RevokedStaysOut`) |
| `CronJobs_proofs` | `PassesTakeTurns` (`[]OnePassPerJob`), `NoticesAreDue` (`[]NoticeIsDue`), `FreshnessIsEarned` (`[]FreshMeansSwept`), `PurgeIsDue` (`[]PurgeSparesRestored`) |
| `Services_proofs` | `SlotsNeverLeak` (`[]SlotsAccounted`), `BucketsStayApart` (`[]BucketsApart`), `EvictionStaysFair` (`EvictionIsFair`), `EventsStayAccounted` (`[]EventsAccounted`), `ProducersEndFirst` (`[]ProducersFirst`), `PicturesStayTyped` (`[]PictureTypeOK`), `PhotosAreKept` (`[]PhotoKept`), `ImagesEndUpRight` (`[]ImagesFollowRow`), `SavesLandWhole` (`SaveIsWhole`) |
| `MCServices_proofs` | `PartsAreComponents` (the composition implements the specification of each component), `TypesStayOK` (`[]TypesOK`) |

The arguments, one inductive invariant per component:

* **`LifecycleInv`.** Between claim and send the row must keep the token the run
  stored. A confirmation could clear it, but only with a link, and the link is unseen
  (`ClaimedLinkIsUnseen`), because tokens in inboxes and in flight were minted before
  (`TokensAreMinted`) and a claim mints a new one. Another run's release could clear
  it, but a release only matches the token it wrote, and no two runs wrote the same
  (`ClaimsAreDistinct`). Another run's claim could replace it, but a claim needs the
  token it read, and the window is open. The window does not close and the row is not
  erased while a run is under way (`PastIsQuiet` with `Quiet`). `LifecycleInv` is the
  conjunction of these. `LiveLinkSurvives` then follows step by step.
* **`RegistrationInv`** (`NobodyForgotten`). The replay query has two legs: rows without
  token and draw, and rows whose token has run out. What makes them complete is that
  token and draw of an unjudged draft come and go together: the claim writes both, the
  release clears both, a resend only replaces a token that is there, and a
  confirmation, which clears the token alone, leaves draft. A claim of a duplicate
  writes a draw without a token, but leaves draft too, and its release clears the draw.
* **`DaysInv`** (`NobodyGivenUpUnseen`). A count: as long as no link was received, an
  unjudged registration is at most one day older than there were faults, and if its
  window is open without a run that is about to send, one of the faults has paid for
  the day that this window lasts. A claim opens a window, and its run ends by a
  send, by a failed send or by a crash; a day does not pass over a row the cron would
  list (`TimelySpec`), so it passes only over a paid window. A duplicate that
  was declined and is released again brings its age back, so the declining run keeps
  the account meanwhile. Three days and two faults thus leave one attempt that works.
* **`ApprovalInv`** (`ListedUnlessRestored`). Without restores, `inactive` is only
  reached from `active` or by a deletion, so a call that toggles, or a row it may
  still toggle, belongs to an approved profile. `DuplicatesRevert` needs only
  that a row not yet registered is not activated, and then goes through the actions.
* **`RequestInv`** (`ClientRequests`). An announcement or an invitation under way
  holds the one claim there is (`ClaimedOnce`), a submission that claimed an
  invitation still holds its row when it inserts (`ClaimsHold`), calls only carry
  moves the workflow allows (`CallsAllowed`), and nothing moves a request with a
  review away from done (`DoneIsFinal`). `ReviewsMatchSpends` is not inductive without
  them: what keeps two submissions from one review is the claim that the first one
  still holds.
* **`DeletionListsAll`** (`InvitationsDieGuarded`). While a deletion is revoking, every
  live invitation is in its list: what a submission claims and gives back was in it
  too, and under the guard nothing is minted meanwhile.
* **`SlugInv`**. Types, `NamesApart`, and for each actor `ActorOK`: the locks its step
  says it holds are its own (`LocalsOK`), and what it read under them is still so
  (`RenameOK`, `RegistrationOK`). A step of one actor is shown to *respect* all
  others: it touches no lock, row or name that they hold, and gives nobody a name it
  does not hold itself; `ActorOK` of the others then survives by one lemma instead of
  one per pair of actions. `BackstopsRest` and the refinement read off it that a
  commit takes a name that is free. `LookupInv` adds what a lookup may still count on
  before each of its reads: a profile under the name, a redirect of a live profile, a
  live profile. A step that takes it away is one that lookups watch, and since a new
  name was free before (from the refinement), no other profile can step in unseen.
  `OrderInv` adds what an actor that holds a lock is still after, and `NobodyDeadlocks`
  follows from it without induction over a cycle: an actor that waits for a name holds only names that sort before it, so of any group
  of actors the one that waits for the name that sorts last waits for nobody of the
  group; and rows are taken before names.
* **`LoginInv`**. A stored link is one that was asked for the account and is neither
  used nor replaced (`LinksOK`), a click's version is no newer than its account's and
  older if the click was cut (`ClicksOK`), and a request carries the account and the
  version of the click it came from (`RequestsOK`). So a cookie from before a logout
  never matches the version a live check reads. `RealmsApart` is a part of the
  invariant: what a cookie claims is checked once and carried along.
* **`CronInv`**. A pass inside holds the lease or is an orphan (`HasLease`), a pass
  that mails or erases has its reason (`HasReason`), and a sweep that has seen no
  failure has left no listed profile overdue but those still ahead of it
  (`HasSwept`). `ClaimsAreDue` says a claimed row is overdue and stays so.
* **`SlotInv`, `LimitInv`, `ShutdownInv`**. Counters follow the sets they count;
  the entries of the map have different buckets, and an entry's bucket holds what the
  key's own would; events raised are in the queue, the hand, or accounted for.
* **`PicturesInv`, `FollowInv`** (`ProfilePictures`). As long as one goroutine works
  at a time, the canonical key holds the newest photo or nothing, live and in the
  trash, and not nothing on both sides; a delete comes after a copy that made both
  equal. For histories without faults `FollowInv` adds the keys a goroutine has ahead
  of it: what is not ahead is where the row wants it already.
* **`EditsInv`**. Whatever the cache or a request holds about tags only says names that
  a tag has had (`Sound`), so it may be stale but not wrong; a save that is about to
  replace the tags holds a live row and has one tag for every name it submitted.
* **The composition.** A step of `MCServices` is a step of one component or leaves its
  variables alone (`PartsAreComponents`), so what is proved of a component for every
  instance holds of the composition; `TypesStayOK` is the first use of it.

`NoDeadlock`, `ListedUnlessRestored` and `InvitationsDieGuarded` are proved and belong to
no run: `ChangesEnd` covers the first on a small instance, and the other two are
statements about a restricted next-state relation (`UnrestoredSpec`, `GuardedSpec`) that
say what a disagreement below comes down to.

**Only model-checked:** all liveness (`RegistrationConverges`, `DeletionEnds`,
`ChangesEnd`, `UploadsAnswered`, `ShutdownEnds`): fairness is out of the prover's reach.
`NobodyForgotten` and `NobodyGivenUpUnseen` are the safety half of the first,
`NoDeadlock` of the third. Every invariant and every action property of a passing run
is stated by a theorem.

## Disagreements between the code and what it says of itself

* **Restoring can publish an unapproved profile.** `RestoreMentor` sets `inactive`
  whatever the profile was, and the toggle accepts any `inactive` profile. An error
  message and two comments say the toggle is for approved mentors only.
  (`listed_was_approved`) `ListedUnlessRestored` proves that the restore is the only
  cause: the toggle, the moderation and the worker keep the rule in every interleaving.
* **A release can take an approved profile back to draft.** The compare-and-swap of
  `ReleaseNewMentorFinalization` on status, sort order and token matches again when an
  admin approved and then declined a duplicate whose e-mail failed. The comment on
  `SetMentorStatus` says that no write path does this. (`activated_never_draft`)
  `DuplicatesRevert` proves that there is no other way.
* **A returned draft can be replayed.** Drafts may submit without confirming, so a
  returned profile may still hold a token, or no `sort_order`.
  (`returned_not_replayed`) The same comes about with every submission confirmed, if two
  replay runs overlap for longer: one that read the row before the other's link was
  confirmed claims the draft that the moderator has returned meanwhile.
* **An invitation can outlive the profile's deletion.** The guard of
  `GetJobRequestWithMentorName` and the insert of the invitation are two statements.
  The link does not work while the profile is deleted, but it is counted as
  outstanding and works again after a restore. (`invitations_outlive_profile`)
  `InvitationsDieGuarded` proves that this gap is the only one: if the insert looked at
  the profile itself, no interleaving would leave an invitation behind.

## Known limits

What the code allows and the properties therefore do not claim:

* The visibility toggle writes without comparing the status it was decided on, so an
  owner's toggle may undo a decline that committed in between. `ListedWasApproved` does
  not see it when the profile was approved at some time: that record stays.
* A login link that is stored for a profile deleted after it was looked up works once
  the profile is restored within the link's life; `LinkOpensOnce` is about clicks,
  reissues and lapses of one link.
* Images: a stash and a restore that run beside each other, or either beside an
  upload, may lose the newest photo; an upload that passed its check before the
  deletion leaves a photo under the live key; a photo that a failed restore left in the
  trash is copied over a newer one by a later restore. The photo of a registration is
  stored by a goroutine that outlives the admission slot.
* Edits: a moderator's save may land after the profile left `pending`; the tags cache
  may keep the older of two answers for a day.
* Rate limits: a request whose entry was evicted between lookup and token, and keys on
  the shared bucket, are outside `EvictionIsFair`.
* Usernames: `lockSlugs` sorts the names, and the advisory locks are on their 32-bit
  hashes. `NoDeadlock` is about names; two names with one hash, the one sorting before and
  the other after a third, could still make two renames wait for each other until
  PostgreSQL aborts one.
* Shutdown: detached goroutines and producers whose deadline passed may raise events
  after the queue closed (they are dropped and logged); closing the pool waits without
  a deadline.

## Not modelled

* Catalog order (`job_randomize_sort_order.go`): a cosmetic shuffle of one column, of
  listed profiles and of the ids configured as highlighted. A listed profile is not in
  draft, so the replay query does not notice; that no draft is configured as
  highlighted is an assumption behind `NobodyForgotten`.
* Migration intents: a single insert that ignores a second one; nobody to race.
* The price grammar, the validation and classification of image bytes, e-mail
  templates, configuration: parsing and rendering without shared state. For the same
  reason the style of a photo, which two concurrent uploads may leave from the other.
* The order in which one purge deletes requests, reviews and intents: one transaction
  that nothing can look into.
* Logs, metrics, tracing, redaction: nothing reads them back.
* The website and the deployment scripts: a thin client, and shell run by an operator.

## Plan and its state

1. Mentor lifecycle with `MentorProfile`: modelled, checked, proved.
2. Requests and reviews with `RequestWorkflow`: modelled, checked, proved.
3. Usernames with `SlugNamespace`: modelled, checked, proved.
4. Login links and sessions: modelled, checked, proved.
5. Leases and timed jobs: modelled, checked, proved.
6. Upload slots, rate limits, shutdown: modelled, checked, safety proved.
7. Pictures and profile edits: modelled, checked, proved.
8. Proved beyond the properties of the runs: no deadlock among renames, the replay query
   misses nobody, and what each of three disagreements comes down to.
9. Left: a composition of `LoginSession` with `MentorLifecycle`, in which the live check
   reads the real row, would replace the abstraction `standing`; the same for `page`,
   `profile` and `mentorRow`, as what the columns that a module sees may do.
