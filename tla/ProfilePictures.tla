---------------------------- MODULE ProfilePictures ----------------------------
(***************************************************************************)
(* The stored images of one profile: uploads, the goroutine that moves     *)
(* them to the trash when the profile is deleted, the one that brings them *)
(* back after a restore, and the bucket's lifecycle rule.                  *)
(*                                                                         *)
(* Object storage has no transactions and no rename: a move is a copy and  *)
(* a delete, and the goroutines run detached, in no order.  Profiles share *)
(* no object, so one is enough.  An image is identified by the upload that *)
(* stored it.                                                              *)
(***************************************************************************)
EXTENDS Naturals, Sequences, FiniteSets

CONSTANTS
    Upload,         \* uploads: portal, admin, or the first one at registration
    Mover,          \* goroutines that stash or restore
    MaxFaults,      \* storage calls that fail, and restarts of the process
    OldPhoto, NoPhoto

ASSUME PicturesAssumption == MaxFaults \in Nat

Photo == Upload \cup {OldPhoto}

\* Under the profile's id: the size that is written, and the two copies that
\* older uploads left beside it; under its old usernames: copies nobody reads.
ImageKey == {"full", "alias", "legacy"}

UuidKeys == <<"full", "alias">>
AllKeys == <<"full", "alias", "legacy">>

VARIABLES
    row,        \* "absent", "live", "deleted" or "purged"
    object,     \* the image under each live key
    trash,      \* the image under each key of the trash prefix
    upload,     \* step of each upload
    mover,      \* step of each goroutine, with the keys it has left
    newest,     \* history: the image stored last, until it may be forgotten
    mixed,      \* history: a goroutine ran beside another or beside an upload, or
                \* an upload found a photo that a failed restore left in the trash
    faults

pictureVars == <<row, object, trash, upload, mover, newest, mixed, faults>>

NoMove == [kind |-> "none", step |-> "idle", keys |-> <<>>]
NoImages == [k \in ImageKey |-> NoPhoto]

\* A profile that is about to register, or one from before the id-based keys.
PictureInit ==
    /\ \/ row = "absent" /\ object = NoImages /\ newest = NoPhoto
       \/ row = "live" /\ object = [k \in ImageKey |-> OldPhoto] /\ newest = OldPhoto
    /\ trash = NoImages
    /\ upload = [u \in Upload |-> "idle"]
    /\ mover = [g \in Mover |-> NoMove]
    /\ mixed = FALSE /\ faults = 0

Uploading == {u \in Upload : upload[u] \notin {"idle", "done"}}
Moving == {g \in Mover : mover[g].step # "idle"}

Fault == faults < MaxFaults /\ faults' = faults + 1

-----------------------------------------------------------------------------
(* Uploads.                                                                *)

\* RegisterMentor: the row commits, then a detached goroutine stores the photo.
RegisterWithPhoto(u) ==
    /\ row = "absent" /\ upload[u] = "idle"
    /\ row' = "live"
    /\ upload' = [upload EXCEPT ![u] = "put"]
    /\ UNCHANGED <<object, trash, mover, newest, mixed, faults>>

\* UploadPictureByMentorId: the profile must exist before anything is stored.
BeginUpload(u) ==
    /\ upload[u] = "idle" /\ row = "live"
    /\ upload' = [upload EXCEPT ![u] = "put"]
    /\ mixed' = (mixed \/ Moving # {})
    /\ UNCHANGED <<row, object, trash, mover, newest, faults>>

\* UploadImageBytes, to the one canonical key.  A put that reports an error may
\* have stored the image all the same; either way the upload ends there.
Stored(u) == /\ object' = [object EXCEPT !["full"] = u]
             /\ newest' = u
             /\ mixed' = (mixed \/ trash["full"] # NoPhoto)

PutObject(u) ==
    /\ upload[u] = "put"
    /\ \/ /\ Stored(u)
          /\ upload' = [upload EXCEPT ![u] = "aliases"]
          /\ UNCHANGED faults
       \/ /\ Fault
          /\ Stored(u) \/ UNCHANGED <<object, newest, mixed>>
          /\ upload' = [upload EXCEPT ![u] = "done"]
    /\ UNCHANGED <<row, trash, mover>>

\* deleteSupersededAliases, best effort; what the row stores about the photo
\* afterwards (its style) changes no object.
DeleteAliases(u) ==
    /\ upload[u] = "aliases"
    /\ \/ object' = [object EXCEPT !["alias"] = NoPhoto] /\ UNCHANGED faults
       \/ Fault /\ UNCHANGED object
    /\ upload' = [upload EXCEPT ![u] = "done"]
    /\ UNCHANGED <<row, trash, mover, newest, mixed>>

-----------------------------------------------------------------------------
(* Moves.                                                                  *)

\* The row changes, then the goroutine starts: it has every key before it.
Start(g, kind, keys) ==
    /\ mover[g] = NoMove
    /\ mover' = [mover EXCEPT ![g] = [kind |-> kind, step |-> "copy", keys |-> keys]]
    /\ mixed' = (mixed \/ Uploading # {} \/ Moving # {})

\* A slip: only what the id-based keys hold is stashed.
StashKeysCanonical == UuidKeys

\* SoftDeleteMentor and StashDeletedProfileImages; when the usernames cannot be
\* listed, only the keys under the id are moved.
StashKeys == AllKeys

DeleteAndStash(g) ==
    /\ row = "live" /\ row' = "deleted"
    /\ \/ Start(g, "stash", StashKeys) /\ UNCHANGED faults
       \/ Start(g, "stash", UuidKeys) /\ Fault
    /\ UNCHANGED <<object, trash, upload, newest>>

RestoreAndUnstash(g) ==
    /\ row = "deleted" /\ row' = "live"
    /\ Start(g, "restore", UuidKeys)
    /\ UNCHANGED <<object, trash, upload, newest, faults>>

\* The goroutine goes on to its next key, whatever became of this one.
MoveOn(g) ==
    mover' = [mover EXCEPT ![g] =
        IF Len(mover[g].keys) = 1 THEN NoMove
        ELSE [@ EXCEPT !.step = "copy", !.keys = Tail(mover[g].keys)]]

Source(g) == IF mover[g].kind = "stash" THEN object ELSE trash

\* The copy of the image under key k of the source.
Copied(g, k) ==
    IF mover[g].kind = "stash"
    THEN trash' = [trash EXCEPT ![k] = object[k]] /\ UNCHANGED object
    ELSE object' = [object EXCEPT ![k] = trash[k]] /\ UNCHANGED trash

Removed(g, k) ==
    IF mover[g].kind = "stash"
    THEN object' = [object EXCEPT ![k] = NoPhoto] /\ UNCHANGED trash
    ELSE trash' = [trash EXCEPT ![k] = NoPhoto] /\ UNCHANGED object

\* A slip: the delete follows a copy that failed as well.
CopyObjectBlind(g) ==
    LET k == Head(mover[g].keys) IN
    /\ mover[g].step = "copy"
    /\ \/ Source(g)[k] = NoPhoto /\ MoveOn(g) /\ UNCHANGED <<object, trash, faults>>
       \/ /\ Source(g)[k] # NoPhoto
          /\ \/ Copied(g, k) /\ UNCHANGED faults
             \/ Fault /\ UNCHANGED <<object, trash>>
          /\ mover' = [mover EXCEPT ![g].step = "delete"]
    /\ UNCHANGED <<row, upload, newest, mixed>>

\* moveObject: an absent source is skipped, a failed copy ends the move of this
\* key (done or not on the storage's side), the delete follows a good copy.
CopyObject(g) ==
    LET k == Head(mover[g].keys) IN
    /\ mover[g].step = "copy"
    /\ \/ Source(g)[k] = NoPhoto /\ MoveOn(g) /\ UNCHANGED <<object, trash, faults>>
       \/ /\ Source(g)[k] # NoPhoto /\ Copied(g, k)
          /\ mover' = [mover EXCEPT ![g].step = "delete"]
          /\ UNCHANGED faults
       \/ /\ Source(g)[k] # NoPhoto /\ Fault
          /\ Copied(g, k) \/ UNCHANGED <<object, trash>>
          /\ MoveOn(g)
    /\ UNCHANGED <<row, upload, newest, mixed>>

DeleteSource(g) ==
    LET k == Head(mover[g].keys) IN
    /\ mover[g].step = "delete"
    /\ \/ Removed(g, k) /\ UNCHANGED faults
       \/ Fault /\ (Removed(g, k) \/ UNCHANGED <<object, trash>>)
    /\ MoveOn(g)
    /\ UNCHANGED <<row, upload, newest, mixed>>

-----------------------------------------------------------------------------
(* The rest of the platform and of the bucket, days after any goroutine.    *)

\* The purge of the row; the worker holds no storage credential.
PurgeProfileRow ==
    /\ row = "deleted" /\ Moving = {}
    /\ row' = "purged"
    /\ UNCHANGED <<object, trash, upload, mover, newest, mixed, faults>>

\* The lifecycle rule empties the trash, later than any profile in it may be
\* restored (the operator sets it to more days than the purge's).
ExpireTrash(k) ==
    /\ row # "deleted" /\ trash[k] # NoPhoto /\ Moving = {}
    /\ trash' = [trash EXCEPT ![k] = NoPhoto]
    /\ newest' = IF k = "full" /\ newest = trash[k] /\ object[k] # newest THEN NoPhoto ELSE newest
    /\ UNCHANGED <<row, object, upload, mover, mixed, faults>>

\* A restart of the API: detached goroutines and requests are gone.
Restart ==
    /\ Fault
    /\ Uploading # {} \/ Moving # {}
    /\ upload' = [u \in Upload |-> IF u \in Uploading THEN "done" ELSE upload[u]]
    /\ mover' = [g \in Mover |-> NoMove]
    /\ UNCHANGED <<row, object, trash, newest, mixed>>

UploadPicture(u) == BeginUpload(u) \/ PutObject(u) \/ DeleteAliases(u)

MoveImages(g) == CopyObject(g) \/ DeleteSource(g)

PictureNext ==
    \/ \E u \in Upload : RegisterWithPhoto(u) \/ UploadPicture(u)
    \/ \E g \in Mover : DeleteAndStash(g) \/ RestoreAndUnstash(g) \/ MoveImages(g)
    \/ \E k \in ImageKey : ExpireTrash(k)
    \/ PurgeProfileRow \/ Restart

PictureSpec == PictureInit /\ [][PictureNext]_pictureVars

-----------------------------------------------------------------------------
(* Properties.                                                             *)

PictureTypeOK ==
    /\ row \in {"absent", "live", "deleted", "purged"}
    /\ object \in [ImageKey -> Photo \cup {NoPhoto}]
    /\ trash \in [ImageKey -> Photo \cup {NoPhoto}]
    /\ upload \in [Upload -> {"idle", "put", "aliases", "done"}]
    /\ mover \in [Mover -> [kind : {"none", "stash", "restore"}, step : {"idle", "copy", "delete"},
                            keys : {<<>>} \cup {SubSeq(AllKeys, i, j) : i, j \in 1 .. Len(AllKeys)}]]
    /\ newest \in Photo \cup {NoPhoto}
    /\ mixed \in BOOLEAN /\ faults \in 0 .. MaxFaults

\* The newest photo is under its live key or in the trash until the lifecycle
\* rule takes it there: no failed storage call, restart, or pair of uploads
\* loses it, wherever in a move it strikes.  Goroutines that run side by side
\* do lose photos, and so does a leftover in the trash that a later restore
\* copies over a newer photo; the property is about all other histories.
PhotoKept == mixed \/ newest = NoPhoto \/ newest \in {object["full"], trash["full"]}

\* When all goroutines are done and no storage call failed, the images are
\* where the row says: a deleted or purged profile has none under any live
\* key, old copies and old usernames included, and a profile that is live has
\* its newest photo back.
ImagesFollowRow ==
    Uploading = {} /\ Moving = {} /\ faults = 0 /\ ~mixed =>
        /\ row \in {"deleted", "purged"} => object = NoImages
        /\ row = "live" => object["full"] = newest
================================================================================
