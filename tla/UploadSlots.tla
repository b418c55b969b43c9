------------------------------ MODULE UploadSlots ------------------------------
(***************************************************************************)
(* The requests that carry a picture, between the router and the service:  *)
(* an admission slot for the whole request, and inside it a decode slot for *)
(* as long as the decoded pixels live.  Both are waited for with a timer    *)
(* and given up when the client hangs up.                                  *)
(***************************************************************************)
EXTENDS Naturals, FiniteSets

CONSTANTS
    UploadRequest,
    MaxInFlight,    \* admission slots
    MaxDecodes      \* decode slots

ASSUME SlotsAssumption == MaxInFlight \in Nat \ {0} /\ MaxDecodes \in Nat \ {0}

VARIABLES
    slots,      \* admission slots taken
    decodes,    \* decode slots taken
    uploading,  \* step of a request
    hungUp      \* its client is gone

slotVars == <<slots, decodes, uploading, hungUp>>

SlotInit ==
    /\ slots = 0 /\ decodes = 0
    /\ uploading = [r \in UploadRequest |-> "idle"]
    /\ hungUp = [r \in UploadRequest |-> FALSE]

At(r, step) == uploading[r] = step
GoTo(r, step) == uploading' = [uploading EXCEPT ![r] = step]

Admitted == {"body", "decodeQueue", "decoding", "storing"}

\* The middleware returns without a slot, or with the deferred release.
LeaveQueue(r) == /\ GoTo(r, "idle")
                 /\ hungUp' = [hungUp EXCEPT ![r] = FALSE]
Leave(r) == LeaveQueue(r) /\ slots' = slots - 1

\* AdmissionLimiter.acquire: a free slot at once, even for a client that is
\* gone, or the queue.
Arrive(r) ==
    /\ At(r, "idle")
    /\ IF slots < MaxInFlight THEN GoTo(r, "body") /\ slots' = slots + 1
                              ELSE GoTo(r, "queue") /\ UNCHANGED slots
    /\ UNCHANGED <<decodes, hungUp>>

Admit(r) ==
    /\ At(r, "queue") /\ slots < MaxInFlight
    /\ GoTo(r, "body") /\ slots' = slots + 1
    /\ UNCHANGED <<decodes, hungUp>>

\* Slips: who leaves the queue releases a slot it never had; only a client
\* that hangs up leaves it.
ShedReleasing(r) == At(r, "queue") /\ Leave(r) /\ UNCHANGED decodes

ShedHungUpOnly(r) ==
    /\ At(r, "queue") /\ hungUp[r]
    /\ LeaveQueue(r)
    /\ UNCHANGED <<slots, decodes>>

\* The timer fires (429), or the client is gone (499); a slot may be free by now.
Shed(r) ==
    /\ At(r, "queue")
    /\ LeaveQueue(r)
    /\ UNCHANGED <<slots, decodes>>

HangUp(r) ==
    /\ ~At(r, "idle") /\ ~hungUp[r]
    /\ hungUp' = [hungUp EXCEPT ![r] = TRUE]
    /\ UNCHANGED <<slots, decodes, uploading>>

\* The body is read and checked; too large a body, an unreadable image or one
\* out of bounds is refused before any decode.
ReadBody(r) ==
    /\ At(r, "body")
    /\ \/ Leave(r) /\ UNCHANGED decodes
       \/ /\ IF decodes < MaxDecodes THEN GoTo(r, "decoding") /\ decodes' = decodes + 1
                                     ELSE GoTo(r, "decodeQueue") /\ UNCHANGED decodes
          /\ UNCHANGED <<slots, hungUp>>

AcquireDecodeSlot(r) ==
    /\ At(r, "decodeQueue") /\ decodes < MaxDecodes
    /\ GoTo(r, "decoding") /\ decodes' = decodes + 1
    /\ UNCHANGED <<slots, hungUp>>

\* A busy decoder, or a client that is gone, costs the photo its style only.
DecoderBusy(r) ==
    /\ At(r, "decodeQueue")
    /\ GoTo(r, "storing")
    /\ UNCHANGED <<slots, decodes, hungUp>>

\* The deferred release of the decode slot, also when the decoder panics; the
\* recovery middleware then ends the request, and the admission slot with it.
Classify(r) ==
    /\ At(r, "decoding")
    /\ decodes' = decodes - 1
    /\ \/ GoTo(r, "storing") /\ UNCHANGED <<slots, hungUp>>
       \/ Leave(r)

\* A portal upload stores the photo and then returns; a registration returns
\* when the row is committed, and a goroutine without a slot stores its photo.
StorePhoto(r) ==
    /\ At(r, "storing")
    /\ Leave(r)
    /\ UNCHANGED decodes

\* What the request's goroutine does next; the client is not part of it.
RequestStep(r) ==
    \/ Admit(r) \/ Shed(r) \/ ReadBody(r) \/ AcquireDecodeSlot(r) \/ DecoderBusy(r)
    \/ Classify(r) \/ StorePhoto(r)

SlotNext ==
    \E r \in UploadRequest : Arrive(r) \/ HangUp(r) \/ RequestStep(r)

\* Goroutines run on, timers fire, bodies are read or time out.
SlotFairness == \A r \in UploadRequest : WF_slotVars(RequestStep(r))

SlotSpec == SlotInit /\ [][SlotNext]_slotVars /\ SlotFairness

-----------------------------------------------------------------------------
(* Properties.                                                             *)

SlotTypeOK ==
    /\ slots \in 0 .. MaxInFlight /\ decodes \in 0 .. MaxDecodes
    /\ uploading \in [UploadRequest -> {"idle", "queue"} \cup Admitted]
    /\ hungUp \in [UploadRequest -> BOOLEAN]

\* No waiter that gives up, no panic and no refused picture leaks a slot or
\* frees one it never had: the slots taken are those of the requests inside,
\* and the decode slots those of the pictures being decoded.
SlotsAccounted ==
    /\ slots = Cardinality({r \in UploadRequest : uploading[r] \in Admitted})
    /\ decodes = Cardinality({r \in UploadRequest : At(r, "decoding")})

\* Everybody who asks for a slot is answered, though slots are waited for
\* inside slots.
UploadsAnswered == \A r \in UploadRequest : ~At(r, "idle") ~> At(r, "idle")
================================================================================
