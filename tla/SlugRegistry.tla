------------------------------ MODULE SlugRegistry ------------------------------
(***************************************************************************)
(* Usernames of the profiles: renames by the mentor and by an admin,       *)
(* registrations that choose a name or have one generated, the redirects a *)
(* rename leaves behind, and the public lookup, which reads the current    *)
(* names and the redirects one after the other.                            *)
(*                                                                         *)
(* A rename and a registration are transactions.  What they write is seen  *)
(* at commit, so their last action makes all their writes; before it they  *)
(* only wait for locks and read.  The row lock is the database's, the name *)
(* locks are advisory and hold until the transaction ends.                 *)
(***************************************************************************)
EXTENDS Naturals, Sequences, FiniteSets

CONSTANTS
    Mentor,         \* profiles, registered or yet to register
    NumNames,       \* usernames are 1 .. NumNames, in the order they sort
    NameActor,      \* requests that rename or register
    Visitor,        \* readers of public profile pages
    KeepCount,      \* redirects a profile keeps
    Retries,        \* suffixes a generated name is tried with
    NoMentor, NoActor

Name == 1 .. NumNames
NoName == 0

ASSUME NamesAssumption ==
    /\ NumNames \in Nat /\ KeepCount \in Nat /\ Retries \in Nat
    /\ NoMentor \notin Mentor /\ NoActor \notin NameActor

VARIABLES
    page,       \* the mentors row: "absent", "live", "deleted" (soft) or "purged"
    current,    \* mentors.slug
    past,       \* mentor_slug_history of a profile, newest first
    cooling,    \* slug_changed_at is less than the cooldown ago
    rowLock,    \* who holds the row lock of a profile
    nameLock,   \* who holds the advisory lock of a name
    change,     \* the rename or registration of an actor, with its locals
    lookup      \* the lookup of a visitor, with its locals

slugVars == <<page, current, past, cooling, rowLock, nameLock, change, lookup>>

Elems(s) == {s[i] : i \in DOMAIN s}

NoChange == [step |-> "idle", mentor |-> NoMentor, name |-> NoName, old |-> NoName,
             by |-> "nobody", cool |-> FALSE, left |-> 0]

NoLookup == [step |-> "idle", name |-> NoName, found |-> NoMentor, gap |-> FALSE]

SlugInit ==
    /\ page = [m \in Mentor |-> "absent"]
    /\ current = [m \in Mentor |-> NoName]
    /\ past = [m \in Mentor |-> <<>>]
    /\ cooling = [m \in Mentor |-> FALSE]
    /\ rowLock = [m \in Mentor |-> NoActor]
    /\ nameLock = [n \in Name |-> NoActor]
    /\ change = [a \in NameActor |-> NoChange]
    /\ lookup = [v \in Visitor |-> NoLookup]

Names(m) == Elems(past[m]) \cup ({current[m]} \ {NoName})

\* A slip: the redirects are not looked at.
IsSlugTakenNow(n, m) == \E o \in Mentor : current[o] = n

\* IsSlugTaken: somebody's current name, or the redirect of another than m.
IsSlugTaken(n, m) ==
    \/ \E o \in Mentor : current[o] = n
    \/ \E o \in Mentor \ {m} : n \in Elems(past[o])

\* The end of a transaction: its locks are released.
EndTx(a) ==
    /\ change' = [change EXCEPT ![a] = NoChange]
    /\ rowLock' = [m \in Mentor |-> IF rowLock[m] = a THEN NoActor ELSE rowLock[m]]
    /\ nameLock' = [n \in Name |-> IF nameLock[n] = a THEN NoActor ELSE nameLock[n]]

\* Name n leads visitors to profile m, under the pages and names given.
LeadsTo(n, m, pg, cur, old) == pg[m] = "live" /\ (cur[m] = n \/ n \in Elems(old[m]))

\* What lookups in flight missed: from here on their name led nowhere for a
\* moment, or moved from the redirects back to the current names.
Watch(pg, cur, old) ==
    lookup' = [v \in Visitor |->
        IF lookup[v].step \notin {"current", "redirect", "profile"} THEN lookup[v]
        ELSE [lookup[v] EXCEPT !.gap =
                \/ lookup[v].gap
                \/ \A m \in Mentor : ~LeadsTo(lookup[v].name, m, pg, cur, old)
                \/ \E m \in Mentor : lookup[v].name \in Elems(past[m]) /\ cur[m] = lookup[v].name]]

-----------------------------------------------------------------------------
(* Renames.                                                                *)

\* UsernameService.Change: the profile must exist, its own name is a no-op,
\* and a mentor in the cooldown is turned away before any transaction.
RequestRename(a, m, n, by) ==
    /\ change[a] = NoChange
    /\ page[m] = "live"
    /\ current[m] # n
    /\ by = "mentor" => ~cooling[m]
    /\ change' = [change EXCEPT ![a] =
           [NoChange EXCEPT !.step = "row", !.mentor = m, !.name = n, !.by = by]]
    /\ UNCHANGED <<page, current, past, cooling, rowLock, nameLock, lookup>>

\* ChangeSlug: lock the live row, read its name and the age of its last change.
LockMentorRow(a) ==
    LET c == change[a]  m == c.mentor IN
    /\ c.step = "row"
    /\ rowLock[m] = NoActor
    /\ IF page[m] = "live" /\ current[m] # c.name
         THEN /\ rowLock' = [rowLock EXCEPT ![m] = a]
              /\ change' = [change EXCEPT ![a].step = "names", ![a].old = current[m],
                                          ![a].cool = cooling[m]]
              /\ UNCHANGED nameLock
         ELSE EndTx(a)
    /\ UNCHANGED <<page, current, past, cooling, lookup>>

\* lockSlugs: the old and the new name, in the order they sort.
\* A slip: the old name first, then the new one, whichever sorts first.
NextToLockOldFirst(a) ==
    IF nameLock[change[a].old] # a THEN change[a].old ELSE change[a].name

NextToLock(a) ==
    LET want == {n \in {change[a].old, change[a].name} : nameLock[n] # a} IN
    CHOOSE n \in want : \A o \in want : n <= o

LockSlugs(a) ==
    /\ change[a].step = "names"
    /\ LET n == NextToLock(a) IN
       /\ nameLock[n] = NoActor
       /\ nameLock' = [nameLock EXCEPT ![n] = a]
    /\ change' = [change EXCEPT ![a].step =
           IF \A n \in {change[a].old, change[a].name} : nameLock'[n] = a
           THEN "check" ELSE "names"]
    /\ UNCHANGED <<page, current, past, cooling, rowLock, lookup>>

\* A slip: the cooldown is left to the check before the transaction.
RefusesTakenOnly(c) == IsSlugTaken(c.name, c.mentor)

\* The cooldown under the row lock, then the availability of the name.
RefusesRename(c) ==
    \/ c.by = "mentor" /\ c.cool
    \/ IsSlugTaken(c.name, c.mentor)

CheckRename(a) ==
    /\ change[a].step = "check"
    /\ IF RefusesRename(change[a])
         THEN EndTx(a)
         ELSE /\ change' = [change EXCEPT ![a].step = "commit"]
              /\ UNCHANGED <<rowLock, nameLock>>
    /\ UNCHANGED <<page, current, past, cooling, lookup>>

\* The redirects without name n, of which there is one at most.
Reclaim(s, n) ==
    IF n \in Elems(s)
      THEN LET i == CHOOSE j \in DOMAIN s : s[j] = n IN SubSeq(s, 1, i - 1) \o SubSeq(s, i + 1, Len(s))
      ELSE s

\* Reclaim the new name's redirect, retire the old name, keep the newest.
Retire(m, n, old) ==
    LET all == <<old>> \o Reclaim(past[m], n) IN
    SubSeq(all, 1, IF Len(all) < KeepCount THEN Len(all) ELSE KeepCount)

\* The unique constraints on mentors.slug and on the redirects.
RenameConflict(c) ==
    \/ \E o \in Mentor \ {c.mentor} : current[o] = c.name
    \/ \E o \in Mentor : c.old \in Elems(past[o])

CommitRename(a) ==
    LET c == change[a]  m == c.mentor IN
    /\ c.step = "commit"
    /\ EndTx(a)
    /\ IF RenameConflict(c)
         THEN UNCHANGED <<page, current, past, cooling, lookup>>
         ELSE /\ current' = [current EXCEPT ![m] = c.name]
              /\ past' = [past EXCEPT ![m] = Retire(m, c.name, c.old)]
              /\ cooling' = [cooling EXCEPT ![m] = @ \/ c.by = "mentor"]
              /\ Watch(page, current', past')
              /\ UNCHANGED page

-----------------------------------------------------------------------------
(* Registrations.                                                          *)

\* CreateMentor, for a profile whose row does not exist: with the name the
\* person chose (no retries), or with a generated one and its suffixes.
RequestRegistration(a, m, n, left) ==
    /\ change[a] = NoChange
    /\ page[m] = "absent"
    /\ \A b \in NameActor : change[b].mentor # m
    /\ change' = [change EXCEPT ![a] =
           [NoChange EXCEPT !.step = "claim", !.mentor = m, !.name = n, !.left = left]]
    /\ UNCHANGED <<page, current, past, cooling, rowLock, nameLock, lookup>>

\* A slip: a registration looks for a free name without its lock.
ClaimSlugUnlocked(a) ==
    /\ change[a].step = "claim"
    /\ change' = [change EXCEPT ![a].step = "taken"]
    /\ UNCHANGED <<page, current, past, cooling, rowLock, nameLock, lookup>>

\* claimSlug: lock the candidate, which releases none of those before it ...
ClaimSlug(a) ==
    LET n == change[a].name IN
    /\ change[a].step = "claim"
    /\ nameLock[n] = NoActor
    /\ nameLock' = [nameLock EXCEPT ![n] = a]
    /\ change' = [change EXCEPT ![a].step = "taken"]
    /\ UNCHANGED <<page, current, past, cooling, rowLock, lookup>>

\* ... and see whether it is taken: a chosen name is refused, a generated one
\* gets the next suffix until there is none left.
CheckClaim(a) ==
    LET c == change[a] IN
    /\ c.step = "taken"
    /\ IF ~IsSlugTaken(c.name, NoMentor)
         THEN /\ change' = [change EXCEPT ![a].step = "insert"]
              /\ UNCHANGED <<rowLock, nameLock>>
         ELSE IF c.left > 0
         THEN /\ change' = [change EXCEPT ![a].step = "claim", ![a].name = @ + 1,
                                          ![a].left = @ - 1]
              /\ UNCHANGED <<rowLock, nameLock>>
         ELSE EndTx(a)
    /\ UNCHANGED <<page, current, past, cooling, lookup>>

InsertMentor(a) ==
    LET c == change[a]  m == c.mentor IN
    /\ c.step = "insert"
    /\ EndTx(a)
    /\ IF \E o \in Mentor : current[o] = c.name
         THEN UNCHANGED <<page, current, past, cooling, lookup>>
         ELSE /\ page' = [page EXCEPT ![m] = "live"]
              /\ current' = [current EXCEPT ![m] = c.name]
              /\ Watch(page', current', past)
              /\ UNCHANGED <<past, cooling>>

\* A cancelled request, a failed statement, a lost connection: rollback.
AbandonChange(a) ==
    /\ change[a] # NoChange
    /\ EndTx(a)
    /\ UNCHANGED <<page, current, past, cooling, lookup>>

-----------------------------------------------------------------------------
(* What the rest of the platform does to a profile, as far as names go.    *)

\* Deletion keeps the row, its name and its redirects; a restore brings the
\* page back under them.
SoftDelete(m) ==
    /\ page[m] = "live" /\ rowLock[m] = NoActor
    /\ page' = [page EXCEPT ![m] = "deleted"]
    /\ Watch(page', current, past)
    /\ UNCHANGED <<current, past, cooling, rowLock, nameLock, change>>

RestoreDeleted(m) ==
    /\ page[m] = "deleted" /\ rowLock[m] = NoActor
    /\ page' = [page EXCEPT ![m] = "live"]
    /\ UNCHANGED <<current, past, cooling, rowLock, nameLock, change, lookup>>

\* The purge deletes the row; the redirects go with it by cascade.
PurgeRow(m) ==
    /\ page[m] = "deleted" /\ rowLock[m] = NoActor
    /\ page' = [page EXCEPT ![m] = "purged"]
    /\ current' = [current EXCEPT ![m] = NoName]
    /\ past' = [past EXCEPT ![m] = <<>>]
    /\ UNCHANGED <<cooling, rowLock, nameLock, change, lookup>>

CooldownPasses(m) ==
    /\ cooling[m]
    /\ cooling' = [cooling EXCEPT ![m] = FALSE]
    /\ UNCHANGED <<page, current, past, rowLock, nameLock, change, lookup>>

-----------------------------------------------------------------------------
(* GetBySlug: three reads.                                                 *)

BeginLookup(v, n) ==
    /\ lookup[v].step \in {"idle", "hit", "miss"}
    /\ lookup' = [lookup EXCEPT ![v] =
           [NoLookup EXCEPT !.step = "current", !.name = n,
                !.gap = \A m \in Mentor : ~LeadsTo(n, m, page, current, past)]]
    /\ UNCHANGED <<page, current, past, cooling, rowLock, nameLock, change>>

Answer(v, m) ==
    lookup' = [lookup EXCEPT ![v].step = IF page[m] = "live" THEN "hit" ELSE "miss",
                             ![v].found = m]

\* A slip: the redirects are not followed.
LookupCurrentOnly(v) ==
    /\ lookup[v].step = "current"
    /\ \/ \E m \in Mentor : current[m] = lookup[v].name /\ Answer(v, m)
       \/ /\ \A m \in Mentor : current[m] # lookup[v].name
          /\ lookup' = [lookup EXCEPT ![v].step = "miss"]
    /\ UNCHANGED <<page, current, past, cooling, rowLock, nameLock, change>>

LookupCurrent(v) ==
    /\ lookup[v].step = "current"
    /\ \/ \E m \in Mentor : current[m] = lookup[v].name /\ Answer(v, m)
       \/ /\ \A m \in Mentor : current[m] # lookup[v].name
          /\ lookup' = [lookup EXCEPT ![v].step = "redirect"]
    /\ UNCHANGED <<page, current, past, cooling, rowLock, nameLock, change>>

LookupRedirect(v) ==
    /\ lookup[v].step = "redirect"
    /\ \/ \E m \in Mentor : /\ lookup[v].name \in Elems(past[m])
                            /\ lookup' = [lookup EXCEPT ![v].step = "profile",
                                                        ![v].found = m]
       \/ /\ \A m \in Mentor : lookup[v].name \notin Elems(past[m])
          /\ lookup' = [lookup EXCEPT ![v].step = "miss"]
    /\ UNCHANGED <<page, current, past, cooling, rowLock, nameLock, change>>

\* The redirect's profile is read by its id: gone or deleted is not found.
LookupProfile(v) ==
    /\ lookup[v].step = "profile"
    /\ Answer(v, lookup[v].found)
    /\ UNCHANGED <<page, current, past, cooling, rowLock, nameLock, change>>

-----------------------------------------------------------------------------
ChangeStep(a) ==
    \/ LockMentorRow(a) \/ LockSlugs(a) \/ CheckRename(a) \/ CommitRename(a)
    \/ ClaimSlug(a) \/ CheckClaim(a) \/ InsertMentor(a)

ChangeRequest(a) ==
    \/ \E m \in Mentor, n \in Name, by \in {"mentor", "admin"} : RequestRename(a, m, n, by)
    \/ \E m \in Mentor, n \in Name : RequestRegistration(a, m, n, 0)
    \/ \E m \in Mentor, n \in Name :
          n + Retries \in Name /\ RequestRegistration(a, m, n, Retries)

ProfileStep(m) == SoftDelete(m) \/ RestoreDeleted(m) \/ PurgeRow(m) \/ CooldownPasses(m)

VisitorStep(v) ==
    \/ \E n \in Name : BeginLookup(v, n)
    \/ LookupCurrent(v) \/ LookupRedirect(v) \/ LookupProfile(v)

SlugNext ==
    \/ \E a \in NameActor : ChangeRequest(a) \/ ChangeStep(a) \/ AbandonChange(a)
    \/ \E m \in Mentor : ProfileStep(m)
    \/ \E v \in Visitor : VisitorStep(v)

SlugSpec == SlugInit /\ [][SlugNext]_slugVars

\* The statements of a running transaction are executed, and the database's
\* lock queues let no waiter starve.
SlugFairness == \A a \in NameActor : SF_slugVars(ChangeStep(a))

-----------------------------------------------------------------------------
(* Properties.                                                             *)

\* Every variable keeps its type.
SlugTypeOK ==
    /\ page \in [Mentor -> {"absent", "live", "deleted", "purged"}]
    /\ current \in [Mentor -> Name \cup {NoName}]
    /\ past \in [Mentor -> Seq(Name)]
    /\ cooling \in [Mentor -> BOOLEAN]
    /\ rowLock \in [Mentor -> NameActor \cup {NoActor}]
    /\ nameLock \in [Name -> NameActor \cup {NoActor}]
    /\ change \in [NameActor ->
          [step : {"idle", "row", "names", "check", "commit", "claim", "taken", "insert"},
           mentor : Mentor \cup {NoMentor}, name : Name \cup {NoName},
           old : Name \cup {NoName}, by : {"nobody", "mentor", "admin"},
           cool : BOOLEAN, left : 0 .. Retries]]
    /\ lookup \in [Visitor ->
          [step : {"idle", "current", "redirect", "profile", "hit", "miss"},
           name : Name \cup {NoName}, found : Mentor \cup {NoMentor}, gap : BOOLEAN]]

\* A name leads to one profile: it is never the current name or a redirect of
\* two, and a profile has at most KeepCount redirects, none of them its
\* current name (slug_history_repository.go, ChangeSlug and lockSlugs).
NamesApart ==
    /\ \A m1, m2 \in Mentor : m1 # m2 => Names(m1) \cap Names(m2) = {}
    /\ \A m \in Mentor : current[m] \notin Elems(past[m]) /\ Len(past[m]) <= KeepCount

\* Between the check and the commit nobody else takes the name or makes a
\* redirect of the old one: the locks suffice and the unique constraints are
\* never what stops a rename or a registration ("should be impossible while
\* it was current", ChangeSlug).
BackstopsRest ==
    \A a \in NameActor :
        /\ change[a].step = "commit" => ~RenameConflict(change[a])
        /\ change[a].step = "insert" => ~IsSlugTaken(change[a].name, NoMentor)

\* A mentor renames no sooner than a cooldown after the last time, whatever
\* requests run beside each other; an admin's rename neither needs nor starts
\* a cooldown (ChangeSlug, the cooldown under the row lock).
CooldownKept ==
    [][\A a \in NameActor, m \in Mentor :
          change[a].step = "commit" /\ change[a].mentor = m /\ current'[m] # current[m] =>
              IF change[a].by = "mentor" THEN ~cooling[m] /\ cooling'[m]
                                         ELSE cooling'[m] = cooling[m]]_slugVars

\* Page not found is the answer only if the name led nowhere at some moment
\* of the lookup, or its owner took it back from the redirects between the
\* two reads (GetBySlug reads current names first, then redirects).
MissIsJustified == \A v \in Visitor : lookup[v].step = "miss" => lookup[v].gap

\* Who holds the lock that the next statement of a asks for.
WaitsFor(a) ==
    CASE change[a].step = "row" -> rowLock[change[a].mentor]
      [] change[a].step = "names" -> nameLock[NextToLock(a)]
      [] change[a].step = "claim" -> nameLock[change[a].name]
      [] OTHER -> NoActor

\* Requests never wait for each other in a circle, whatever renames and
\* registrations meet: in every group somebody waits for nobody of the group.
\* Every rename takes the row before the names, and everybody takes names in the
\* order they sort ("in sorted order (deduped) to avoid deadlocks", lockSlugs).
NoDeadlock == \A group \in SUBSET NameActor :
    group # {} => \E a \in group : WaitsFor(a) \notin group

\* A request to rename or to register comes to an end: waiters for row and
\* name locks do not wait for each other (lockSlugs sorts).
ChangesEnd == \A a \in NameActor : change[a] # NoChange ~> change[a] = NoChange

Namespace == INSTANCE SlugNamespace WITH names <- [m \in Mentor |-> Names(m)]

\* Seen from outside, a name is taken when nobody has it and given up before
\* another profile takes it.
ImplementsNamespace == Namespace!Spec
================================================================================
