------------------------------ MODULE ProfileEdits ------------------------------
(***************************************************************************)
(* Saving the text and the tags of one profile, from the mentor's portal   *)
(* and from the moderation page: the profile is read, the tag names are    *)
(* turned into ids one by one through a cache of a day, and one transaction *)
(* writes the row and replaces the tags.  Meanwhile other saves run, the   *)
(* profile is moderated or deleted, and a migration renames, adds or drops *)
(* tags.                                                                   *)
(***************************************************************************)
EXTENDS FiniteSets

CONSTANTS
    TagName,
    Tag,            \* ids of the tags table
    Save,           \* requests that save the profile
    NoTagName, NoTag, NoTags, NoSave

ASSUME EditsAssumption ==
    /\ IsFiniteSet(TagName)
    /\ NoTagName \notin TagName /\ NoTag \notin Tag /\ NoSave \notin Save

VARIABLES
    profile,    \* the row: whether it is there, "pending" or of another status
    text,       \* the save that wrote the columns
    tagged,     \* mentor_tags of the profile
    writer,     \* who holds the row's lock
    tagName,    \* the tags table
    cached,     \* the cache's map of names to ids, NoTags when it has none
    save,       \* the requests, with their locals
    called      \* history: every name a tag has had

editVars == <<profile, text, tagged, writer, tagName, cached, save, called>>

TagMap == [TagName -> Tag \cup {NoTag}]

\* FetchAllTagsFromDB: the id of each name, as the table has it now.
FetchAllTags == [n \in TagName |->
    IF \E t \in Tag : tagName[t] = n THEN CHOOSE t \in Tag : tagName[t] = n ELSE NoTag]

\* A request: the names it submits, those still to resolve, the ids found.
Idling == [step |-> "idle", want |-> {}, left |-> {}, ids |-> [n \in TagName |-> NoTag],
           read |-> NoTags]

EditsInit ==
    /\ profile \in {[row |-> "live", status |-> s] : s \in {"pending", "other"}}
    /\ text = NoSave /\ tagged = {} /\ writer = NoSave
    /\ tagName \in [Tag -> TagName \cup {NoTagName}]
    /\ \A t, u \in Tag : t # u /\ tagName[t] = tagName[u] => tagName[t] = NoTagName
    /\ cached = NoTags
    /\ save = [s \in Save |-> Idling]
    /\ called = [t \in Tag |-> {tagName[t]} \ {NoTagName}]

-----------------------------------------------------------------------------
(* A save.                                                                 *)

\* SaveProfileByMentorId and UpdateMentorProfile read the profile first: a
\* deleted one is refused, and a moderator edits none that is not pending.
MayEdit(by) == /\ profile.row = "live"
               /\ by = "moderator" => profile.status = "pending"

\* The moderation page asks for one tag at least.
BeginSave(s, by, names) ==
    /\ save[s] = Idling
    /\ MayEdit(by)
    /\ by # "mentor" => names # {}
    /\ save' = [save EXCEPT ![s] = [Idling EXCEPT !.step = IF names = {} THEN "update" ELSE "tags",
                                                  !.want = names, !.left = names]]
    /\ UNCHANGED <<profile, text, tagged, writer, tagName, cached, called>>

\* The id of name n is taken from a map.  resolveTagsStrict goes through all
\* names, and a save with an unknown one is refused.
StrictStep(left, ids, want) ==
    IF left # {} THEN "tags"
    ELSE IF \E n \in want : ids[n] = NoTag THEN "idle" ELSE "update"

Resolve(s, n, map) ==
    LET left == save[s].left \ {n}
        ids  == [save[s].ids EXCEPT ![n] = map[n]]
        step == StrictStep(left, ids, save[s].want)
    IN  save' = [save EXCEPT ![s] =
            IF step = "idle" THEN Idling
            ELSE [@ EXCEPT !.step = step, !.left = left, !.ids = ids, !.read = NoTags]]

\* GetTagIDByName, on a hit.
LookUpTag(s, n) ==
    /\ save[s].step = "tags" /\ n \in save[s].left
    /\ cached # NoTags
    /\ Resolve(s, n, cached)
    /\ UNCHANGED <<profile, text, tagged, writer, tagName, cached, called>>

\* On a miss, every request that misses reads the table for itself ...
RefreshTags(s) ==
    /\ save[s].step = "tags" /\ cached = NoTags
    /\ save' = [save EXCEPT ![s].step = "store", ![s].read = FetchAllTags]
    /\ UNCHANGED <<profile, text, tagged, writer, tagName, cached, called>>

\* ... and stores what it read, over what another one stored since.
StoreTags(s, n) ==
    /\ save[s].step = "store" /\ n \in save[s].left
    /\ cached' = save[s].read
    /\ Resolve(s, n, save[s].read)
    /\ UNCHANGED <<profile, text, tagged, writer, tagName, called>>

\* A slip: the UPDATE of a profile deleted since it was read.
WritableDeleted == profile.row # "gone"

\* UpdateProfileWithTags: the UPDATE matches a row that is not deleted, and
\* holds it; matching none ends the save.
Writable == profile.row = "live"

UpdateRow(s) ==
    /\ save[s].step = "update" /\ writer = NoSave
    /\ IF Writable THEN writer' = s /\ save' = [save EXCEPT ![s].step = "replace"]
                   ELSE save' = [save EXCEPT ![s] = Idling] /\ UNCHANGED writer
    /\ UNCHANGED <<profile, text, tagged, tagName, cached, called>>

SavedIds(s) == {save[s].ids[n] : n \in save[s].want}

\* replaceMentorTags and the commit.  An id that is gone, or one found under
\* two names, fails an INSERT, and with it the transaction.
ReplaceTags(s) ==
    /\ save[s].step = "replace"
    /\ IF /\ \A t \in SavedIds(s) : tagName[t] # NoTagName
          /\ Cardinality(SavedIds(s)) = Cardinality(save[s].want)
         THEN text' = s /\ tagged' = SavedIds(s)
         ELSE UNCHANGED <<text, tagged>>
    /\ writer' = NoSave
    /\ save' = [save EXCEPT ![s] = Idling]
    /\ UNCHANGED <<profile, tagName, cached, called>>

\* A cancelled request, a failed read of the tags, a failed statement.
AbandonSave(s) ==
    /\ save[s] # Idling
    /\ save' = [save EXCEPT ![s] = Idling]
    /\ writer' = IF writer = s THEN NoSave ELSE writer
    /\ UNCHANGED <<profile, text, tagged, tagName, cached, called>>

-----------------------------------------------------------------------------
(* Around it.                                                              *)

\* The cache entry is a day old.
CacheExpires ==
    /\ cached # NoTags /\ cached' = NoTags
    /\ UNCHANGED <<profile, text, tagged, writer, tagName, save, called>>

\* Moderation, deletion, restore and purge of the row; the purge's cascade.
ChangeProfile(p) ==
    /\ writer = NoSave
    /\ \/ profile.row = "live" /\ p.row = "live" /\ p.status # profile.status
       \/ <<profile.row, p.row>> \in {<<"live", "deleted">>, <<"deleted", "live">>} /\ p.status = "other"
       \/ profile.row = "deleted" /\ p.row = "gone" /\ p.status = "other"
    /\ profile' = p
    /\ tagged' = IF p.row = "gone" THEN {} ELSE tagged
    /\ UNCHANGED <<text, writer, tagName, cached, save, called>>

\* A migration of the taxonomy, while the API runs: a tag is added, renamed,
\* or dropped, which takes it from every profile.
MigrateTag(t, n) ==
    /\ tagName[t] # n
    /\ n # NoTagName => \A u \in Tag : tagName[u] # n
    /\ tagName' = [tagName EXCEPT ![t] = n]
    /\ tagged' = IF n = NoTagName THEN tagged \ {t} ELSE tagged
    /\ called' = [called EXCEPT ![t] = @ \cup ({n} \ {NoTagName})]
    /\ UNCHANGED <<profile, text, writer, cached, save>>

UpdateProfile(s) ==
    \/ \E by \in {"mentor", "moderator", "admin"}, names \in SUBSET TagName :
          BeginSave(s, by, names)
    \/ \E n \in TagName : LookUpTag(s, n) \/ StoreTags(s, n)
    \/ RefreshTags(s) \/ UpdateRow(s) \/ ReplaceTags(s)

EditsNext ==
    \/ \E s \in Save : UpdateProfile(s) \/ AbandonSave(s)
    \/ \E row \in {"live", "deleted", "gone"}, status \in {"pending", "other"} :
          ChangeProfile([row |-> row, status |-> status])
    \/ \E t \in Tag, n \in TagName \cup {NoTagName} : MigrateTag(t, n)
    \/ CacheExpires

EditsSpec == EditsInit /\ [][EditsNext]_editVars

-----------------------------------------------------------------------------
(* Properties.                                                             *)

EditsTypeOK ==
    /\ profile \in [row : {"live", "deleted", "gone"}, status : {"pending", "other"}]
    /\ text \in Save \cup {NoSave} /\ tagged \subseteq Tag /\ writer \in Save \cup {NoSave}
    /\ tagName \in [Tag -> TagName \cup {NoTagName}]
    /\ cached \in TagMap \cup {NoTags}
    /\ save \in [Save -> [step : {"idle", "tags", "store", "update", "replace"},
                          want : SUBSET TagName, left : SUBSET TagName, ids : TagMap,
                          read : TagMap \cup {NoTags}]]
    /\ called \in [Tag -> SUBSET TagName]

\* A save lands whole or not at all: only on a profile that is not deleted,
\* the text and the tags together, and with the tags one of its own for each
\* name submitted, which is there and has had that name, however stale the
\* cache was, whatever the taxonomy and other saves did meanwhile
\* (UpdateProfileWithTags, resolveTagsStrict).
SaveIsWhole ==
    [][text' # text \/ ~(tagged' \subseteq tagged) =>
          /\ profile.row = "live"
          /\ \E s \in Save :
                /\ text' = s /\ save[s].step = "replace"
                /\ \A t \in tagged' : tagName[t] # NoTagName
                /\ \E f \in [save[s].want -> tagged'] :
                      /\ \A n \in save[s].want : n \in called[f[n]]
                      /\ \A t \in tagged' : Cardinality({n \in save[s].want : f[n] = t}) = 1]_editVars
=================================================================================
