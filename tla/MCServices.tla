------------------------------- MODULE MCServices -------------------------------
(***************************************************************************)
(* Small instances, for TLC, of the eight components that share no state   *)
(* with one another.  A behaviour is one of them at work, the one that     *)
(* part names, while the others rest in their initial state; a component   *)
(* whose questions need different bounds has two parts.                    *)
(***************************************************************************)
EXTENDS SlugRegistry, LoginSession, ProfilePictures, ProfileEdits, CronJobs,
        RateLimits, UploadSlots, ProcessShutdown, TLC

CONSTANTS
    Parts,          \* the parts a configuration explores
    MaxTagNames     \* names that tags are given in a behaviour, the first ones included

VARIABLE part

servicesVars == <<slugVars, loginVars, pictureVars, editVars, cronVars, limitVars,
                  slotVars, shutdownVars, part>>

\* Where a component may begin in several ways, the one in which it rests.
Rest ==
    /\ (part = "realms") = legacy
    /\ part # "pictures" => row = "absent"
    /\ part # "edits" => /\ profile.status = "other"
                         /\ \A t \in Tag : tagName[t] = NoTagName
    /\ part # "cron" => \A m \in JobMentor : mentorRow[m] = "active"
    /\ part # "shutdown" => binary = "api"

Init ==
    /\ part \in Parts
    /\ SlugInit /\ LoginInit /\ PictureInit /\ EditsInit
    /\ CronInit /\ LimitInit /\ SlotInit /\ ShutdownInit
    /\ Rest

-----------------------------------------------------------------------------
(* The parts and their bounds.                                             *)

\* Two requests for names, or one beside a visitor.
SlugBound ==
    /\ part = "renames" => lookup' = lookup
    /\ part = "lookups" => Cardinality({a \in NameActor : change'[a] # NoChange}) <= 1

\* All links of a mentor who has no old cookie, or one link and the cookies of old,
\* while mentors come and go no more.
LoginBound ==
    /\ part = "links" => /\ \A q \in LoginRequest : asking'[q].who \notin ModeratorAccount
                         /\ \A y \in ModeratorAccount : standing'[y] = standing[y]
    /\ part = "realms" => /\ Cardinality({q \in LoginRequest : asking'[q].step # "idle"}) <= 1
                          /\ \A x \in MentorAccount : standing'[x] = standing[x]
                          /\ \A x \in Account : version'[x] <= 2

\* Names that the tags have had.
EditsBound ==
    Cardinality({x \in Tag \X TagName : x[2] \in called'[x[1]]}) <= MaxTagNames

Slugs ==
    /\ part \in {"renames", "lookups"} /\ SlugNext /\ SlugBound
    /\ UNCHANGED <<loginVars, pictureVars, editVars, cronVars, limitVars, slotVars, shutdownVars>>

Logins ==
    /\ part \in {"links", "realms"} /\ LoginNext /\ LoginBound
    /\ UNCHANGED <<slugVars, pictureVars, editVars, cronVars, limitVars, slotVars, shutdownVars>>

\* Goroutines that got mixed up are followed no further: PhotoKept is not about them.
Pictures ==
    /\ part = "pictures" /\ ~mixed /\ PictureNext
    /\ UNCHANGED <<slugVars, loginVars, editVars, cronVars, limitVars, slotVars, shutdownVars>>

Edits ==
    /\ part = "edits" /\ EditsNext /\ EditsBound
    /\ UNCHANGED <<slugVars, loginVars, pictureVars, cronVars, limitVars, slotVars, shutdownVars>>

Cron ==
    /\ part = "cron" /\ CronNext
    /\ UNCHANGED <<slugVars, loginVars, pictureVars, editVars, limitVars, slotVars, shutdownVars>>

Limits ==
    /\ part = "limits" /\ LimitNext
    /\ UNCHANGED <<slugVars, loginVars, pictureVars, editVars, cronVars, slotVars, shutdownVars>>

Slots ==
    /\ part = "uploads" /\ SlotNext
    /\ UNCHANGED <<slugVars, loginVars, pictureVars, editVars, cronVars, limitVars, shutdownVars>>

\* Connections matter to the end of the pool alone, which is a question of progress.
Shutdown ==
    /\ part = "shutdown" /\ ShutdownNext
    /\ \A w \in Work : ~work'[w].conn
    /\ UNCHANGED <<slugVars, loginVars, pictureVars, editVars, cronVars, limitVars, slotVars>>

Next == /\ Slugs \/ Logins \/ Pictures \/ Edits \/ Cron \/ Limits \/ Slots \/ Shutdown
        /\ UNCHANGED part

Spec == Init /\ [][Next]_servicesVars

\* The requests and workers of the instances have their model values in common.
Symmetry == Permutations(NameActor) \cup Permutations(Mentor) \cup Permutations(TagName)

-----------------------------------------------------------------------------
(* Progress: the three components that promise to come to an end.           *)

\* No transaction is abandoned and nobody deletes a profile.
RenamesOnly ==
    /\ part = "renames"
    /\ \E a \in NameActor : ChangeRequest(a) \/ ChangeStep(a)
    /\ UNCHANGED <<loginVars, pictureVars, editVars, cronVars, limitVars, slotVars, shutdownVars>>

WholeShutdown ==
    /\ part = "shutdown" /\ ShutdownNext
    /\ UNCHANGED <<slugVars, loginVars, pictureVars, editVars, cronVars, limitVars, slotVars>>

ProgressNext == (RenamesOnly \/ Slots \/ WholeShutdown) /\ UNCHANGED part

ProgressSpec ==
    /\ Init /\ [][ProgressNext]_servicesVars
    /\ SlugFairness /\ SlotFairness /\ ShutdownFairness

-----------------------------------------------------------------------------
(* Properties.                                                             *)

\* Every variable of every component keeps its type.
TypesOK ==
    /\ SlugTypeOK /\ LoginTypeOK /\ PictureTypeOK /\ EditsTypeOK
    /\ CronTypeOK /\ LimitTypeOK /\ SlotTypeOK /\ ShutdownTypeOK
================================================================================
