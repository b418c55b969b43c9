---------------------------- MODULE Services_proofs ----------------------------
(***************************************************************************)
(* Safety of five components, for instances of any size: the slots of      *)
(* uploads, the map of rate limit buckets, the end of a process, the       *)
(* images of a profile, and the saves of its text and tags.                *)
(***************************************************************************)
EXTENDS UploadSlots, RateLimits, ProcessShutdown, ProfilePictures, ProfileEdits,
        FiniteSetTheorems, TLAPS

-----------------------------------------------------------------------------
(* Upload slots.                                                           *)

Holding == {r \in UploadRequest : uploading[r] \in Admitted}
Decoding == {r \in UploadRequest : At(r, "decoding")}

\* The inductive invariant: the counters are the sizes of finite sets.
SlotInv ==
    /\ SlotTypeOK
    /\ IsFiniteSet(Holding) /\ slots = Cardinality(Holding)
    /\ IsFiniteSet(Decoding) /\ decodes = Cardinality(Decoding)

\* What a step does to a set of requests and its counter.
Joins(S, T, n, m, r) == r \notin S /\ T = S \cup {r} /\ m = n + 1
Quits(S, T, n, m, r) == r \in S /\ T = S \ {r} /\ m = n - 1
Stays(S, T, n, m) == T = S /\ m = n

\* A counter that follows its set through such a step still counts it.
LEMMA Counted ==
    ASSUME NEW S, NEW T, NEW n, NEW m, NEW r, IsFiniteSet(S), n = Cardinality(S),
           Joins(S, T, n, m, r) \/ Quits(S, T, n, m, r) \/ Stays(S, T, n, m)
    PROVE  IsFiniteSet(T) /\ m = Cardinality(T) /\ m \in Nat
<1>0. n \in Nat BY FS_CardinalityType
<1>1. CASE Joins(S, T, n, m, r)
  <2>1. IsFiniteSet(S \cup {r}) /\ Cardinality(S \cup {r}) = Cardinality(S) + 1
    BY <1>1, FS_AddElement DEF Joins
  <2> QED BY <1>0, <1>1, <2>1 DEF Joins
<1>2. CASE Quits(S, T, n, m, r)
  <2>1. IsFiniteSet(S \ {r}) /\ Cardinality(S \ {r}) = Cardinality(S) - 1
    BY <1>2, FS_RemoveElement DEF Quits
  <2>2. Cardinality(S \ {r}) \in Nat BY <2>1, FS_CardinalityType
  <2> QED BY <1>2, <2>1, <2>2 DEF Quits
<1>3. CASE Stays(S, T, n, m) BY <1>0, <1>3 DEF Stays
<1> QED BY <1>1, <1>2, <1>3

\* What a request's step does to the two sets and their counters.
LEMMA SlotEffect ==
    ASSUME SlotTypeOK, NEW r \in UploadRequest, Arrive(r) \/ HangUp(r) \/ RequestStep(r)
    PROVE  /\ \/ Joins(Holding, Holding', slots, slots', r)
              \/ Quits(Holding, Holding', slots, slots', r)
              \/ Stays(Holding, Holding', slots, slots')
           /\ \/ Joins(Decoding, Decoding', decodes, decodes', r)
              \/ Quits(Decoding, Decoding', decodes, decodes', r)
              \/ Stays(Decoding, Decoding', decodes, decodes')
<1> USE DEF SlotTypeOK, Holding, Decoding, Admitted, At, GoTo, Leave, LeaveQueue,
            Joins, Quits, Stays
<1>1. CASE Arrive(r) BY <1>1 DEF Arrive
<1>2. CASE HangUp(r) BY <1>2 DEF HangUp
<1>3. CASE Admit(r) BY <1>3 DEF Admit
<1>4. CASE Shed(r) BY <1>4 DEF Shed
<1>5. CASE ReadBody(r)
  <2>1. CASE Leave(r) /\ UNCHANGED decodes BY <1>5, <2>1 DEF ReadBody
  <2>2. CASE ~(Leave(r) /\ UNCHANGED decodes) BY <1>5, <2>2 DEF ReadBody
  <2> QED BY <2>1, <2>2
<1>6. CASE AcquireDecodeSlot(r) BY <1>6 DEF AcquireDecodeSlot
<1>7. CASE DecoderBusy(r) BY <1>7 DEF DecoderBusy
<1>8. CASE Classify(r)
  <2>1. CASE Leave(r) BY <1>8, <2>1 DEF Classify
  <2>2. CASE ~Leave(r) BY <1>8, <2>2 DEF Classify
  <2> QED BY <2>1, <2>2
<1>9. CASE StorePhoto(r) BY <1>9 DEF StorePhoto
<1> QED BY <1>1, <1>2, <1>3, <1>4, <1>5, <1>6, <1>7, <1>8, <1>9 DEF RequestStep

\* No counter passes its limit.
LEMMA SlotBounds ==
    ASSUME SlotTypeOK, NEW r \in UploadRequest, Arrive(r) \/ HangUp(r) \/ RequestStep(r),
           slots' \in Nat, decodes' \in Nat
    PROVE  SlotTypeOK'
<1> USE SlotsAssumption DEF SlotTypeOK, Admitted, At, GoTo, Leave, LeaveQueue
<1>1. CASE Arrive(r) BY <1>1 DEF Arrive
<1>2. CASE HangUp(r) BY <1>2 DEF HangUp
<1>3. CASE Admit(r) BY <1>3 DEF Admit
<1>4. CASE Shed(r) BY <1>4 DEF Shed
<1>5. CASE ReadBody(r)
  <2>1. CASE Leave(r) /\ UNCHANGED decodes BY <2>1
  <2>2. CASE ~(Leave(r) /\ UNCHANGED decodes) BY <1>5, <2>2 DEF ReadBody
  <2> QED BY <2>1, <2>2
<1>6. CASE AcquireDecodeSlot(r) BY <1>6 DEF AcquireDecodeSlot
<1>7. CASE DecoderBusy(r) BY <1>7 DEF DecoderBusy
<1>8. CASE Classify(r)
  <2>0. decodes' = decodes - 1 BY <1>8 DEF Classify
  <2>1. CASE Leave(r) BY <2>0, <2>1
  <2>2. CASE ~Leave(r) BY <1>8, <2>2 DEF Classify
  <2> QED BY <2>1, <2>2
<1>9. CASE StorePhoto(r) BY <1>9 DEF StorePhoto
<1> QED BY <1>1, <1>2, <1>3, <1>4, <1>5, <1>6, <1>7, <1>8, <1>9 DEF RequestStep

\* The invariant holds throughout, fairness or not.
LEMMA SlotInvariant == SlotInit /\ [][SlotNext]_slotVars => []SlotInv
<1>1. SlotInit => SlotInv
  <2> HAVE SlotInit
  <2>1. Holding = {} /\ Decoding = {} BY DEF SlotInit, Holding, Decoding, Admitted, At
  <2> QED BY <2>1, FS_EmptySet, SlotsAssumption DEF SlotInit, SlotInv, SlotTypeOK
<1>2. SlotInv /\ [SlotNext]_slotVars => SlotInv'
  <2> SUFFICES ASSUME SlotInv, [SlotNext]_slotVars PROVE SlotInv'
    OBVIOUS
  <2>1. CASE UNCHANGED slotVars
    BY <2>1 DEF slotVars, SlotInv, SlotTypeOK, Holding, Decoding, At
  <2>2. ASSUME NEW r \in UploadRequest, Arrive(r) \/ HangUp(r) \/ RequestStep(r)
        PROVE  SlotInv'
    <3>1. /\ IsFiniteSet(Holding') /\ slots' = Cardinality(Holding') /\ slots' \in Nat
          /\ IsFiniteSet(Decoding') /\ decodes' = Cardinality(Decoding') /\ decodes' \in Nat
      BY <2>2, SlotEffect, Counted DEF SlotInv
    <3>2. SlotTypeOK' BY <2>2, <3>1, SlotBounds DEF SlotInv
    <3> QED BY <3>1, <3>2 DEF SlotInv
  <2> QED BY <2>1, <2>2 DEF SlotNext
<1> QED BY <1>1, <1>2, PTL

\* Slots are neither leaked nor freed twice, whoever gives up where
\* (acquire and release of the admission limiter and of the decoder).
THEOREM SlotsNeverLeak == SlotSpec => []SlotsAccounted
<1>1. SlotInv => SlotsAccounted BY DEF SlotInv, SlotsAccounted, Holding, Decoding
<1> QED BY <1>1, SlotInvariant, PTL DEF SlotSpec

-----------------------------------------------------------------------------
(* Rate limits.                                                            *)

\* The entries are few, and what an entry's bucket holds is what the key has
\* to spare; a key without an entry has all of it.
EntriesOK ==
    /\ IsFiniteSet(Entries(visitors)) /\ Cardinality(Entries(visitors)) <= MaxVisitors
    /\ \A k \in LimitKey :
          IF visitors[k] = NoLimiter THEN spare[k] = Burst ELSE tokens[visitors[k]] = spare[k]

\* A request that holds the bucket of an entry was counted by that entry's key.
HoldersOK ==
    /\ \A q \in LimitRequest :
          bucketOf[q] # NoLimitRequest => bucketOf[q].limiter # NoLimiter /\ bucketOf[q].key \in LimitKey
    /\ \A q \in LimitRequest, k \in LimitKey :
          visitors[k] # NoLimiter /\ bucketOf[q].limiter = visitors[k] => bucketOf[q].key = k

LimitInv == LimitTypeOK /\ EntriesOK /\ BucketsApart /\ HoldersOK

\* The bucket of a new entry is nobody's.
LEMMA FreeLimiterIsFree ==
    ASSUME LimitTypeOK
    PROVE  /\ FreeLimiter \in Limiter
           /\ \A k \in LimitKey : visitors[k] # FreeLimiter
           /\ \A q \in LimitRequest : bucketOf[q].limiter # FreeLimiter
<1> DEFINE taken == [q \in LimitRequest |-> bucketOf[q].limiter]
<1>1. taken \in [LimitRequest -> Limiter \cup {SharedLimiter, NoLimiter}] BY DEF LimitTypeOK
<1>2. visitors \in [LimitKey -> Limiter \cup {NoLimiter}] BY DEF LimitTypeOK
<1>3. \E l \in Limiter : /\ \A k \in LimitKey : visitors[k] # l
                         /\ \A q \in LimitRequest : bucketOf[q].limiter # l
  <2>1. PICK l \in Limiter : (\A k \in LimitKey : visitors[k] # l) /\ (\A q \in LimitRequest : taken[q] # l)
    BY <1>1, <1>2, FreshAssumption
  <2> QED BY <2>1
<1> QED BY <1>3 DEF FreeLimiter

\* Eviction takes entries away and touches no other.
LEMMA EvictedType ==
    ASSUME LimitInv
    PROVE  /\ Evicted \in [LimitKey -> Limiter \cup {NoLimiter}]
           /\ \A k \in LimitKey : Evicted[k] # visitors[k] =>
                 Evicted[k] = NoLimiter /\ visitors[k] # NoLimiter /\ spare[k] = Burst
           /\ IsFiniteSet(Entries(Evicted)) /\ Cardinality(Entries(Evicted)) <= MaxVisitors
<1>1. Evicted \in [LimitKey -> Limiter \cup {NoLimiter}]
  BY DEF Evicted, LimitInv, LimitTypeOK
<1>2. \A k \in LimitKey : Evicted[k] # visitors[k] =>
          Evicted[k] = NoLimiter /\ visitors[k] # NoLimiter /\ spare[k] = Burst
  BY LimitAssumption DEF Evicted, IdleEntry, LimitInv, LimitTypeOK, EntriesOK
<1>3. Entries(Evicted) \in SUBSET Entries(visitors) BY <1>2 DEF Entries
<1>4. /\ IsFiniteSet(Entries(Evicted)) /\ IsFiniteSet(Entries(visitors))
      /\ Cardinality(Entries(Evicted)) <= Cardinality(Entries(visitors))
      /\ Cardinality(Entries(visitors)) <= MaxVisitors
  BY <1>3, FS_Subset DEF LimitInv, EntriesOK
<1>5. Cardinality(Entries(Evicted)) \in Nat /\ Cardinality(Entries(visitors)) \in Nat
  BY <1>4, FS_CardinalityType
<1> QED BY <1>1, <1>2, <1>4, <1>5, LimitAssumption

\* The initial state, with an empty map.
LEMMA LimitInitInv == LimitInit => LimitInv
<1> HAVE LimitInit
<1>1. Entries(visitors) = {} BY DEF LimitInit, Entries
<1>2. IsFiniteSet(Entries(visitors)) /\ Cardinality(Entries(visitors)) = 0 BY <1>1, FS_EmptySet
<1> QED BY <1>2, LimitAssumption
        DEF LimitInit, LimitInv, LimitTypeOK, EntriesOK, BucketsApart, HoldersOK, NoLimitRequest, Entries

\* A request that is answered takes from its own key's bucket or from none of the map.
LEMMA AllowInv ==
    ASSUME LimitInv, NEW q \in LimitRequest, Allow(q)
    PROVE  LimitInv'
<1> DEFINE l == bucketOf[q].limiter
           k == bucketOf[q].key
<1> USE DEF LimitInv
<1>1. k \in LimitKey /\ l \in Limiter \cup {SharedLimiter}
  BY DEF Allow, HoldersOK, LimitTypeOK
<1>2. Entries(visitors)' = Entries(visitors) BY DEF Allow, Entries
<1>3. LimitTypeOK'
  BY <1>1, <1>2, LimitAssumption DEF Allow, LimitTypeOK, NoLimitRequest, OwnLimiter
<1>4. \A j \in LimitKey : visitors[j] = l => j = k
  BY <1>1, LimitAssumption DEF HoldersOK, Allow
<1>5. \A j \in LimitKey : IF visitors'[j] = NoLimiter THEN spare'[j] = Burst ELSE tokens'[visitors'[j]] = spare'[j]
  BY <1>1, <1>4, LimitAssumption DEF Allow, EntriesOK, OwnLimiter, LimitTypeOK
<1>6. HoldersOK' BY DEF Allow, HoldersOK, NoLimitRequest, LimitTypeOK
<1>7. BucketsApart' BY DEF Allow, BucketsApart, Entries
<1> QED BY <1>2, <1>3, <1>5, <1>6, <1>7 DEF EntriesOK, Allow

\* A lookup that makes an entry, in the map as it is or after an eviction.
LEMMA NewEntry ==
    ASSUME LimitInv, NEW q \in LimitRequest, NEW k \in LimitKey, NEW kept,
           kept = visitors \/ kept = Evicted, visitors[k] = NoLimiter,
           bucketOf[q] = NoLimitRequest, Cardinality(Entries(kept)) < MaxVisitors,
           visitors' = [kept EXCEPT ![k] = FreeLimiter],
           tokens' = [tokens EXCEPT ![FreeLimiter] = Burst],
           bucketOf' = [bucketOf EXCEPT ![q] = [key |-> k, limiter |-> FreeLimiter]],
           UNCHANGED spare
    PROVE  LimitInv'
<1> DEFINE l == FreeLimiter
<1>1. /\ l \in Limiter
      /\ \A j \in LimitKey : visitors[j] # l
      /\ \A p \in LimitRequest : bucketOf[p].limiter # l
  BY FreeLimiterIsFree DEF LimitInv
<1> HIDE DEF l
<1>2. /\ kept \in [LimitKey -> Limiter \cup {NoLimiter}]
      /\ \A j \in LimitKey : kept[j] # visitors[j] => kept[j] = NoLimiter /\ spare[j] = Burst
      /\ IsFiniteSet(Entries(kept))
  BY EvictedType DEF LimitInv, LimitTypeOK, EntriesOK
<1>3. kept[k] = NoLimiter BY <1>2
<1>4. \A j \in LimitKey : visitors'[j] = IF j = k THEN l ELSE kept[j] BY <1>2 DEF l
<1>5. Entries(visitors') = Entries(kept) \cup {k} /\ k \notin Entries(kept)
  BY <1>1, <1>3, <1>4, LimitAssumption DEF Entries
<1>6. IsFiniteSet(Entries(visitors')) /\ Cardinality(Entries(visitors')) = Cardinality(Entries(kept)) + 1
  <2> DEFINE S == Entries(kept)
             T == Entries(visitors')
  <2>1. IsFiniteSet(S) /\ k \notin S /\ T = S \cup {k} BY <1>2, <1>5
  <2> HIDE DEF S, T
  <2>2. IsFiniteSet(S \cup {k}) /\ Cardinality(S \cup {k}) = Cardinality(S) + 1
    BY <2>1, FS_AddElement
  <2>3. IsFiniteSet(T) /\ Cardinality(T) = Cardinality(S) + 1 BY <2>1, <2>2
  <2> QED BY <2>3 DEF S, T
<1>7. Cardinality(Entries(visitors')) <= MaxVisitors
  <2>1. Cardinality(Entries(kept)) \in Nat BY <1>2, FS_CardinalityType
  <2> QED BY <1>6, <2>1, LimitAssumption
<1>8. LimitTypeOK'
  <2>1. visitors' \in [LimitKey -> Limiter \cup {NoLimiter}] BY <1>1, <1>2 DEF l
  <2>2. tokens' \in [Limiter \cup {SharedLimiter} -> 0 .. Burst]
    BY <1>1, LimitAssumption DEF l, LimitInv, LimitTypeOK
  <2>3. bucketOf' \in [LimitRequest -> [key : LimitKey \cup {NoLimiter},
                                       limiter : Limiter \cup {SharedLimiter, NoLimiter}]]
    BY <1>1 DEF l, LimitInv, LimitTypeOK
  <2> QED BY <1>7, <2>1, <2>2, <2>3 DEF LimitInv, LimitTypeOK, Entries
<1>9. EntriesOK'
  <2>1. \A j \in LimitKey : IF visitors'[j] = NoLimiter THEN spare[j] = Burst ELSE tokens'[visitors'[j]] = spare[j]
    <3> TAKE j \in LimitKey
    <3>1. CASE j = k
      BY <1>1, <1>4, <3>1, LimitAssumption DEF l, LimitInv, EntriesOK, LimitTypeOK
    <3>2. CASE j # k
      BY <1>1, <1>2, <1>4, <3>2, LimitAssumption DEF l, LimitInv, EntriesOK, LimitTypeOK
    <3> QED BY <3>1, <3>2
  <2> QED BY <1>6, <1>7, <2>1 DEF EntriesOK, Entries
<1>10. BucketsApart'
  BY <1>1, <1>2, <1>4, <1>5 DEF LimitInv, BucketsApart, Entries
<1>11. HoldersOK'
  BY <1>1, <1>2, <1>4, LimitAssumption DEF l, LimitInv, LimitTypeOK, HoldersOK, NoLimitRequest
<1> QED BY <1>8, <1>9, <1>10, <1>11 DEF LimitInv

\* A step that only drops idle entries and may hand a bucket to a request: the
\* entry's own, or the shared one.
LEMMA FewerEntries ==
    ASSUME LimitInv, visitors' = visitors \/ visitors' = Evicted, UNCHANGED <<tokens, spare>>,
           \/ UNCHANGED bucketOf
           \/ \E q \in LimitRequest, k \in LimitKey, l \in Limiter \cup {SharedLimiter} :
                 /\ l = visitors[k] \/ l = SharedLimiter
                 /\ bucketOf' = [bucketOf EXCEPT ![q] = [key |-> k, limiter |-> l]]
    PROVE  LimitInv'
<1>1. /\ visitors' \in [LimitKey -> Limiter \cup {NoLimiter}]
      /\ \A j \in LimitKey : visitors'[j] # visitors[j] => visitors'[j] = NoLimiter /\ spare[j] = Burst
      /\ IsFiniteSet(Entries(visitors')) /\ Cardinality(Entries(visitors')) <= MaxVisitors
  BY EvictedType DEF LimitInv, LimitTypeOK, EntriesOK
<1>2. bucketOf' \in [LimitRequest -> [key : LimitKey \cup {NoLimiter},
                                     limiter : Limiter \cup {SharedLimiter, NoLimiter}]]
  BY DEF LimitInv, LimitTypeOK
<1>3. LimitTypeOK' BY <1>1, <1>2 DEF LimitInv, LimitTypeOK, Entries
<1>4. EntriesOK' BY <1>1 DEF LimitInv, EntriesOK, Entries
<1>5. BucketsApart' BY <1>1 DEF LimitInv, BucketsApart, Entries
<1>6. HoldersOK'
  <2>1. CASE UNCHANGED bucketOf BY <1>1, <2>1 DEF LimitInv, HoldersOK, NoLimitRequest
  <2>2. ASSUME NEW q \in LimitRequest, NEW k \in LimitKey, NEW l \in Limiter \cup {SharedLimiter},
               l = visitors[k] \/ l = SharedLimiter,
               bucketOf' = [bucketOf EXCEPT ![q] = [key |-> k, limiter |-> l]]
        PROVE  HoldersOK'
    <3>1. \A j \in LimitKey : visitors'[j] # NoLimiter /\ l = visitors'[j] => j = k
      BY <1>1, <2>2, LimitAssumption DEF LimitInv, BucketsApart, Entries
    <3> QED BY <1>1, <2>2, <3>1, LimitAssumption
            DEF LimitInv, LimitTypeOK, HoldersOK, NoLimitRequest
  <2> QED BY <2>1, <2>2
<1> QED BY <1>3, <1>4, <1>5, <1>6 DEF LimitInv

\* Time fills every bucket and what its key has to spare alike.
LEMMA RefillInv == ASSUME LimitInv, Refill PROVE LimitInv'
<1>1. Entries(visitors)' = Entries(visitors) BY DEF Refill, Entries
<1>2. LimitTypeOK' BY <1>1, LimitAssumption DEF LimitInv, LimitTypeOK, Refill
<1>3. EntriesOK' BY <1>1, LimitAssumption DEF LimitInv, LimitTypeOK, EntriesOK, Refill
<1>4. BucketsApart' /\ HoldersOK'
  BY <1>1 DEF LimitInv, BucketsApart, HoldersOK, Refill, NoLimitRequest, Entries
<1> QED BY <1>2, <1>3, <1>4 DEF LimitInv

\* Every step keeps the invariant.
LEMMA LimitNextInv == LimitInv /\ [LimitNext]_limitVars => LimitInv'
<1> SUFFICES ASSUME LimitInv, [LimitNext]_limitVars PROVE LimitInv'
  OBVIOUS
<1>1. ASSUME NEW q \in LimitRequest, NEW k \in LimitKey, GetVisitor(q, k) PROVE LimitInv'
  <2> DEFINE kept == IF Cardinality(Entries(visitors)) >= MaxVisitors THEN Evicted ELSE visitors
             full == Cardinality(Entries(kept)) >= MaxVisitors
             l == IF visitors[k] # NoLimiter THEN visitors[k]
                  ELSE IF full THEN SharedLimiter ELSE FreeLimiter
  <2>1. /\ bucketOf[q] = NoLimitRequest /\ UNCHANGED spare
        /\ bucketOf' = [bucketOf EXCEPT ![q] = [key |-> k, limiter |-> l]]
        /\ IF visitors[k] # NoLimiter THEN UNCHANGED <<visitors, tokens>>
           ELSE /\ visitors' = IF full THEN kept ELSE [kept EXCEPT ![k] = l]
                /\ tokens' = IF full THEN tokens ELSE [tokens EXCEPT ![l] = Burst]
    BY <1>1 DEF GetVisitor
  <2>2. kept = visitors \/ kept = Evicted OBVIOUS
  <2> HIDE DEF kept
  <2>3. CASE visitors[k] # NoLimiter
    <3>1. l = visitors[k] /\ l \in Limiter \cup {SharedLimiter}
      BY <2>3 DEF LimitInv, LimitTypeOK
    <3> QED BY <2>1, <2>3, <3>1, FewerEntries
  <2>4. CASE visitors[k] = NoLimiter /\ full
    <3>1. l = SharedLimiter BY <2>4
    <3> QED BY <2>1, <2>2, <2>4, <3>1, FewerEntries
  <2>5. CASE visitors[k] = NoLimiter /\ ~full
    <3>1. l = FreeLimiter BY <2>5
    <3>2. Cardinality(Entries(kept)) < MaxVisitors
      <4>1. IsFiniteSet(Entries(kept)) BY <2>2, EvictedType DEF LimitInv, EntriesOK
      <4>2. Cardinality(Entries(kept)) \in Nat BY <4>1, FS_CardinalityType
      <4> QED BY <2>5, <4>2, LimitAssumption
    <3> QED BY <2>1, <2>2, <2>5, <3>1, <3>2, NewEntry
  <2> QED BY <2>3, <2>4, <2>5
<1>2. CASE CleanUp BY <1>2, FewerEntries DEF CleanUp
<1>3. CASE UNCHANGED limitVars BY <1>3, FewerEntries DEF limitVars
<1> QED BY <1>1, <1>2, <1>3, AllowInv, RefillInv DEF LimitNext

\* No two keys share a bucket of the map, for any number of keys, requests and
\* entries (getVisitor and evictIdleLocked).
THEOREM BucketsStayApart == LimitSpec => []BucketsApart
<1>1. LimitInv => BucketsApart BY DEF LimitInv
<1> QED BY <1>1, LimitInitInv, LimitNextInv, PTL DEF LimitSpec

\* A request is let through or refused by what its own key has to spare, as if
\* no entry were ever evicted (allow and evictIdleLocked).
THEOREM EvictionStaysFair == LimitSpec => EvictionIsFair
<1> DEFINE Fair == \A q \in LimitRequest :
        bucketOf[q] # NoLimitRequest /\ bucketOf'[q] = NoLimitRequest /\ OwnLimiter(q) =>
            (tokens' # tokens <=> spare[bucketOf[q].key] > 0)
<1>1. LimitInv /\ [LimitNext]_limitVars => [Fair]_limitVars
  <2> SUFFICES ASSUME LimitInv, LimitNext, NEW q \in LimitRequest,
                      bucketOf[q] # NoLimitRequest, bucketOf'[q] = NoLimitRequest, OwnLimiter(q)
               PROVE  tokens' # tokens <=> spare[bucketOf[q].key] > 0
    OBVIOUS
  <2>1. ASSUME NEW p \in LimitRequest, NEW k \in LimitKey, GetVisitor(p, k) PROVE FALSE
    BY <2>1, LimitAssumption DEF GetVisitor, LimitInv, LimitTypeOK, NoLimitRequest
  <2>2. ~CleanUp /\ ~Refill BY DEF CleanUp, Refill
  <2>3. PICK p \in LimitRequest : Allow(p) BY <2>1, <2>2 DEF LimitNext
  <2>4. p = q BY <2>3 DEF Allow, LimitInv, LimitTypeOK
  <2>5. bucketOf[q].key \in LimitKey /\ bucketOf[q].limiter # NoLimiter
    BY DEF LimitInv, HoldersOK
  <2>6. tokens[bucketOf[q].limiter] = spare[bucketOf[q].key]
    BY <2>5 DEF LimitInv, EntriesOK, OwnLimiter
  <2>7. bucketOf[q].limiter \in Limiter BY <2>5 DEF OwnLimiter, LimitInv, LimitTypeOK
  <2> QED BY <2>3, <2>4, <2>6, <2>7, LimitAssumption DEF Allow, LimitInv, LimitTypeOK
<1> QED BY <1>1, LimitInitInv, LimitNextInv, PTL DEF LimitSpec, EvictionIsFair, Fair
-----------------------------------------------------------------------------
(* The end of a process.                                                   *)

\* The events on their way to the sender.
Elements(q) == {q[i] : i \in DOMAIN q}

\* The inductive invariant.  Where each raised event is, ...
EventsKept ==
    /\ Raised \subseteq sent \cup dropped \cup Elements(events) \cup {hand}
    /\ closed => \A w \in Work : work[w].step # "send"
    /\ drained => closed /\ events = <<>> /\ hand = NoEvent

\* ... and what the stages behind the main goroutine established.
StagesDone ==
    /\ closed => stage \notin {"serving", "cron", "http", "lock"}
    /\ stage \in {"drain", "pool", "exited"} => closed
    /\ stage \in {"pool", "exited"} /\ "drain" \notin timedOut => drained

ProducersDone ==
    /\ binary = "api" => Running("tick") = {}
    /\ closed \/ stage \in {"http", "lock"} => "cron" \in timedOut \/ Running("tick") = {}
    /\ closed \/ stage = "lock" => "http" \in timedOut \/ Running("request") = {}

ShutdownInv == ShutdownTypeOK /\ EventsKept /\ StagesDone /\ ProducersDone

\* What the queue holds after a send and after a receive.
LEMMA QueueElements ==
    ASSUME NEW q \in Seq(Work), NEW w \in Work
    PROVE  /\ Append(q, w) \in Seq(Work) /\ Len(Append(q, w)) = Len(q) + 1
           /\ Elements(Append(q, w)) = Elements(q) \cup {w}
           /\ q # <<>> => /\ Head(q) \in Work /\ Tail(q) \in Seq(Work) /\ Len(Tail(q)) < Len(q)
                          /\ Elements(q) \subseteq Elements(Tail(q)) \cup {Head(q)}
<1>1. Append(q, w) \in Seq(Work) /\ Len(Append(q, w)) = Len(q) + 1
  OBVIOUS
<1>2. Elements(Append(q, w)) = Elements(q) \cup {w}
  <2>1. DOMAIN q = 1 .. Len(q) /\ DOMAIN Append(q, w) = 1 .. Len(q) + 1 /\ Len(q) \in Nat
    OBVIOUS
  <2>2. \A i \in 1 .. Len(q) : Append(q, w)[i] = q[i] OBVIOUS
  <2>3. Append(q, w)[Len(q) + 1] = w OBVIOUS
  <2> QED BY <2>1, <2>2, <2>3 DEF Elements
<1>3. ASSUME q # <<>>
      PROVE  /\ Head(q) \in Work /\ Tail(q) \in Seq(Work) /\ Len(Tail(q)) < Len(q)
             /\ Elements(q) \subseteq Elements(Tail(q)) \cup {Head(q)}
  <2>1. /\ Head(q) \in Work /\ Tail(q) \in Seq(Work) /\ Len(Tail(q)) = Len(q) - 1
        /\ Len(q) \in Nat /\ Len(q) > 0 /\ q[1] = Head(q)
    BY <1>3
  <2>2. DOMAIN q = 1 .. Len(q) /\ DOMAIN Tail(q) = 1 .. (Len(q) - 1) BY <2>1
  <2>3. \A i \in 1 .. (Len(q) - 1) : Tail(q)[i] = q[i + 1] BY <1>3
  <2>4. \A i \in DOMAIN q : i = 1 \/ (i - 1 \in DOMAIN Tail(q) /\ Tail(q)[i - 1] = q[i])
    BY <2>1, <2>2, <2>3
  <2> QED BY <2>1, <2>4 DEF Elements
<1> QED BY <1>1, <1>2, <1>3

\* The initial state.
LEMMA ShutdownInitInv == ShutdownInit => ShutdownInv
<1> HAVE ShutdownInit
<1>1. ShutdownTypeOK
  <2>1. Resting \in [step : {"idle", "run", "send", "raised", "done", "over"},
                     kind : {"request", "tick", "detached"}, conn : BOOLEAN]
    BY DEF Resting
  <2>2. <<>> \in Seq(Work) /\ Len(<<>>) <= QueueSize BY ShutdownAssumption
  <2> QED BY <2>1, <2>2 DEF ShutdownInit, ShutdownTypeOK
<1>2. Raised = {} /\ \A kind : Running(kind) = {}
  BY DEF ShutdownInit, Resting, Raised, Running
<1> QED BY <1>1, <1>2
        DEF ShutdownInit, ShutdownInv, EventsKept, StagesDone, ProducersDone

\* A step of the work, which never moves the main goroutine.
LEMMA WorkInv ==
    ASSUME ShutdownInv, NEW w \in Work,
           \/ ReturnConnection(w) \/ BeginTrack(w) \/ SendEvent(w) \/ EndWork(w)
           \/ \E kind \in {"request", "tick", "detached"}, conn \in BOOLEAN : StartWork(w, kind, conn)
    PROVE  ShutdownInv'
<1> USE DEF ShutdownInv, ShutdownTypeOK
<1>1. ASSUME NEW kind \in {"request", "tick", "detached"}, NEW conn \in BOOLEAN, StartWork(w, kind, conn)
      PROVE  ShutdownInv'
  <2>1. ShutdownTypeOK' BY <1>1 DEF StartWork
  <2>2. Raised' = Raised BY <1>1 DEF StartWork, Raised
  <2>3. EventsKept' BY <1>1, <2>2 DEF StartWork, EventsKept
  <2>4. StagesDone' BY <1>1 DEF StartWork, StagesDone
  <2>5. \A other \in {"request", "tick"} : other # kind => Running(other)' = Running(other)
    BY <1>1 DEF StartWork, Running
  <2>6. ProducersDone'
    BY <1>1, <2>5 DEF StartWork, Starts, ProducersDone, StagesDone
  <2> QED BY <2>1, <2>3, <2>4, <2>6
<1>2. ASSUME ReturnConnection(w) \/ BeginTrack(w) \/ SendEvent(w) \/ EndWork(w)
      PROVE  ShutdownInv'
  <2>1. UNCHANGED <<binary, stage, timedOut, hand, sent, closed, drained>>
    BY <1>2 DEF ReturnConnection, BeginTrack, SendEvent, EndWork
  <2>2. \A kind : Running(kind)' \subseteq Running(kind)
    <3>1. /\ \A x \in Work : x # w => work'[x] = work[x]
          /\ work'[w].kind = work[w].kind
          /\ work'[w].step # work[w].step => work[w].step \in {"run", "send", "raised"}
      <4>1. CASE ReturnConnection(w) BY <4>1 DEF ReturnConnection
      <4>2. CASE BeginTrack(w) BY <4>2 DEF BeginTrack
      <4>3. CASE SendEvent(w) BY <4>3 DEF SendEvent
      <4>4. CASE EndWork(w) BY <4>4 DEF EndWork
      <4> QED BY <1>2, <4>1, <4>2, <4>3, <4>4
    <3> QED BY <3>1 DEF Running
  <2>3. ProducersDone' BY <2>1, <2>2 DEF ProducersDone
  <2>4. StagesDone' BY <2>1 DEF StagesDone
  <2>5. ShutdownTypeOK' /\ EventsKept'
    <3>1. CASE ReturnConnection(w)
      <4>1. Raised' = Raised BY <3>1 DEF ReturnConnection, Raised
      <4> QED BY <3>1, <4>1 DEF ReturnConnection, EventsKept
    <3>2. CASE EndWork(w)
      <4>1. Raised' \subseteq Raised BY <3>2 DEF EndWork, Raised
      <4>2. ShutdownTypeOK' BY <3>2 DEF EndWork
      <4> QED BY <3>2, <4>1, <4>2 DEF EndWork, EventsKept
    <3>3. CASE BeginTrack(w)
      <4>1. ShutdownTypeOK' BY <3>3 DEF BeginTrack
      <4>2. Raised' \subseteq IF closed THEN Raised \cup {w} ELSE Raised
        BY <3>3 DEF BeginTrack, Raised
      <4> QED BY <3>3, <4>1, <4>2 DEF BeginTrack, EventsKept
    <3>4. CASE SendEvent(w)
      <4>1. Raised' \subseteq Raised \cup {w} BY <3>4 DEF SendEvent, Raised
      <4>2. ~closed /\ ~drained BY <3>4 DEF SendEvent, EventsKept
      <4>3. CASE Len(events) < QueueSize
        <5>1. events' = Append(events, w) /\ dropped' = dropped BY <3>4, <4>3 DEF SendEvent
        <5>2. events' \in Seq(Work) /\ Len(events') = Len(events) + 1 /\ Len(events) \in Nat
              /\ Elements(events') = Elements(events) \cup {w}
          BY <5>1, QueueElements
        <5>3. ShutdownTypeOK' BY <2>1, <3>4, <4>3, <5>1, <5>2, ShutdownAssumption DEF SendEvent
        <5> QED BY <2>1, <4>1, <4>2, <5>1, <5>2, <5>3 DEF EventsKept
      <4>4. CASE ~(Len(events) < QueueSize)
        <5>1. events' = events /\ dropped' = dropped \cup {w} BY <3>4, <4>4 DEF SendEvent
        <5>2. ShutdownTypeOK' BY <2>1, <3>4, <5>1 DEF SendEvent
        <5> QED BY <2>1, <4>1, <4>2, <5>1, <5>2 DEF EventsKept
      <4> QED BY <4>3, <4>4
    <3> QED BY <1>2, <3>1, <3>2, <3>3, <3>4
  <2> QED BY <2>3, <2>4, <2>5
<1> QED BY <1>1, <1>2

\* A step of the sender.
LEMMA SenderInv == ASSUME ShutdownInv, SenderStep PROVE ShutdownInv'
<1> USE DEF ShutdownInv, ShutdownTypeOK
<1>1. UNCHANGED <<binary, stage, timedOut, work, dropped, closed>>
  BY DEF SenderStep, TakeEvent, PostEvent, FinishSending
<1>2. Raised' = Raised /\ \A kind : Running(kind)' = Running(kind) BY <1>1 DEF Raised, Running
<1>3. ProducersDone' BY <1>1, <1>2 DEF ProducersDone
<1>4. CASE TakeEvent
  <2>1. /\ Head(events) \in Work /\ Tail(events) \in Seq(Work) /\ Len(Tail(events)) < Len(events)
        /\ Elements(events) \subseteq Elements(Tail(events)) \cup {Head(events)}
    <3>1. PICK w \in Work : TRUE BY <1>4 DEF TakeEvent
    <3> QED BY <1>4, <3>1, QueueElements DEF TakeEvent
  <2>2. Len(Tail(events)) <= QueueSize BY <2>1, ShutdownAssumption
  <2>3. ShutdownTypeOK' BY <1>1, <1>4, <2>1, <2>2 DEF TakeEvent
  <2>4. ~drained BY <1>4 DEF TakeEvent, EventsKept
  <2>5. NoEvent \notin Raised BY ShutdownAssumption DEF Raised
  <2>6. EventsKept' BY <1>1, <1>2, <1>4, <2>1, <2>4, <2>5 DEF TakeEvent, EventsKept
  <2> QED BY <1>1, <1>3, <1>4, <2>3, <2>6 DEF TakeEvent, StagesDone
<1>5. CASE PostEvent
  <2>1. ShutdownTypeOK' BY <1>1, <1>5 DEF PostEvent
  <2>2. EventsKept' BY <1>1, <1>2, <1>5 DEF PostEvent, EventsKept
  <2> QED BY <1>1, <1>3, <1>5, <2>1, <2>2 DEF PostEvent, StagesDone
<1>6. CASE FinishSending
  <2>1. ShutdownTypeOK' BY <1>1, <1>6 DEF FinishSending
  <2>2. EventsKept' BY <1>1, <1>2, <1>6 DEF FinishSending, EventsKept
  <2> QED BY <1>1, <1>3, <1>6, <2>1, <2>2 DEF FinishSending, StagesDone
<1> QED BY <1>4, <1>5, <1>6 DEF SenderStep

\* A step of the main goroutine, or its end.
LEMMA MainInv == ASSUME ShutdownInv, Signal \/ MainStep \/ Kill PROVE ShutdownInv'
<1> USE DEF ShutdownInv, ShutdownTypeOK
<1>1. UNCHANGED <<binary, work, events, hand, sent, dropped, drained>>
  BY DEF Signal, MainStep, Kill, CronStopped, HttpStopped, CloseQueue, DrainEnds, ClosePool, GoToStage
<1>2. Raised' = Raised /\ \A kind : Running(kind)' = Running(kind) BY <1>1 DEF Raised, Running
<1>3. CASE Signal
  <2>1. ShutdownTypeOK' BY <1>1, <1>3 DEF Signal, GoToStage
  <2> QED BY <1>1, <1>2, <1>3, <2>1 DEF Signal, GoToStage, EventsKept, StagesDone, ProducersDone
<1>4. CASE CronStopped
  <2>1. ShutdownTypeOK' BY <1>1, <1>4 DEF CronStopped, GoToStage
  <2> QED BY <1>1, <1>2, <1>4, <2>1 DEF CronStopped, GoToStage, EventsKept, StagesDone, ProducersDone
<1>5. CASE HttpStopped
  <2>1. ShutdownTypeOK' BY <1>1, <1>5 DEF HttpStopped, GoToStage
  <2> QED BY <1>1, <1>2, <1>5, <2>1 DEF HttpStopped, GoToStage, EventsKept, StagesDone, ProducersDone
<1>6. CASE CloseQueue
  <2>1. ShutdownTypeOK' BY <1>1, <1>6 DEF CloseQueue
  <2> QED BY <1>1, <1>2, <1>6, <2>1 DEF CloseQueue, EventsKept, StagesDone, ProducersDone
<1>7. CASE DrainEnds
  <2>1. ShutdownTypeOK' BY <1>1, <1>7 DEF DrainEnds, AfterDrain, GoToStage
  <2> QED BY <1>1, <1>2, <1>7, <2>1
          DEF DrainEnds, AfterDrain, GoToStage, EventsKept, StagesDone, ProducersDone
<1>8. CASE ClosePool
  <2>1. ShutdownTypeOK' BY <1>1, <1>8 DEF ClosePool, GoToStage
  <2> QED BY <1>1, <1>2, <1>8, <2>1 DEF ClosePool, GoToStage, EventsKept, StagesDone, ProducersDone
<1>9. CASE Kill
  <2>1. ShutdownTypeOK' BY <1>1, <1>9 DEF Kill, GoToStage
  <2> QED BY <1>1, <1>2, <1>9, <2>1 DEF Kill, GoToStage, EventsKept, StagesDone, ProducersDone
<1> QED BY <1>3, <1>4, <1>5, <1>6, <1>7, <1>8, <1>9 DEF MainStep

\* Every step keeps the invariant.
LEMMA ShutdownNextInv == ShutdownInv /\ [ShutdownNext]_shutdownVars => ShutdownInv'
<1> SUFFICES ASSUME ShutdownInv, [ShutdownNext]_shutdownVars PROVE ShutdownInv'
  OBVIOUS
<1>1. CASE UNCHANGED shutdownVars
  BY <1>1 DEF shutdownVars, ShutdownInv, ShutdownTypeOK, EventsKept, StagesDone, ProducersDone,
              Raised, Running, Elements
<1>2. CASE ShutdownNext BY <1>2, WorkInv, SenderInv, MainInv DEF ShutdownNext
<1> QED BY <1>1, <1>2

\* For any number of producers and any queue: nothing is sent on the closed
\* queue, and an event is posted or the log says why not (Track and Close of
\* the tracker).
THEOREM EventsStayAccounted == ShutdownSpec => []EventsAccounted
<1>1. ShutdownInv => EventsAccounted
  <2> SUFFICES ASSUME ShutdownInv, stage \in {"pool", "exited"}, "drain" \notin timedOut
               PROVE  Raised \subseteq sent \cup dropped
    BY DEF ShutdownInv, EventsKept, EventsAccounted
  <2>1. events = <<>> /\ hand = NoEvent BY DEF ShutdownInv, EventsKept, StagesDone
  <2>2. Elements(events) = {} BY <2>1 DEF Elements
  <2>3. NoEvent \notin Raised BY ShutdownAssumption DEF Raised
  <2> QED BY <2>1, <2>2, <2>3 DEF ShutdownInv, EventsKept
<1> QED BY <1>1, ShutdownInitInv, ShutdownNextInv, PTL DEF ShutdownSpec

\* For any number of producers, the queue is closed after those that the main
\* goroutine waits for, or after it gave up (main of both binaries).
THEOREM ProducersEndFirst == ShutdownSpec => []ProducersFirst
<1>1. ShutdownInv => ProducersFirst BY DEF ShutdownInv, ProducersDone, ProducersFirst
<1> QED BY <1>1, ShutdownInitInv, ShutdownNextInv, PTL DEF ShutdownSpec

-----------------------------------------------------------------------------
(* Pictures.                                                               *)

Move == [kind : {"none", "stash", "restore"}, step : {"idle", "copy", "delete"},
         keys : Seq(ImageKey)]

PicturesTyped ==
    /\ object \in [ImageKey -> Photo \cup {NoPhoto}]
    /\ trash \in [ImageKey -> Photo \cup {NoPhoto}]
    /\ mover \in [Mover -> Move] /\ mixed \in BOOLEAN
    /\ \A g \in Mover : mover[g].step # "idle" => mover[g].keys # <<>>

\* Nothing is moved before there is a profile; one goroutine at a time, and no
\* upload beside it, or they are mixed up.
MovesAlone ==
    /\ row = "absent" => Moving = {}
    /\ mixed \/ Uploading = {} \/ Moving = {}
    /\ mixed \/ \A g, h \in Moving : g = h

\* What lies under the canonical key, live or in the trash, is the newest photo.
NewestOnly ==
    \/ newest = NoPhoto
    \/ /\ object["full"] \in {NoPhoto, newest} /\ trash["full"] \in {NoPhoto, newest}
       /\ object["full"] = newest \/ trash["full"] = newest

\* A move deletes its source after a good copy.
CopiedFirst ==
    \A g \in Mover : mover[g].step = "delete" /\ Head(mover[g].keys) = "full" =>
        object["full"] = trash["full"]

PicturesInv ==
    PicturesTyped /\ MovesAlone /\ (mixed \/ (NewestOnly /\ CopiedFirst))

\* The keys a goroutine is given, and those it has left.
LEMMA KeysToMove == AllKeys \in Seq(ImageKey) /\ UuidKeys \in Seq(ImageKey) /\ AllKeys # <<>> /\ UuidKeys # <<>>
BY DEF AllKeys, UuidKeys, ImageKey

\* A goroutine that goes on has fewer keys, or is done.
LEMMA MovesOn ==
    ASSUME PicturesTyped, NEW g \in Mover, mover[g].step # "idle", MoveOn(g)
    PROVE  /\ mover' \in [Mover -> Move]
           /\ \A h \in Mover : mover'[h].step # "idle" => mover'[h].keys # <<>>
           /\ \A h \in Mover \ {g} : mover'[h] = mover[h]
           /\ mover'[g].step \in {"idle", "copy"}
<1>1. mover[g] \in Move /\ mover[g].keys # <<>> BY DEF PicturesTyped
<1>2. CASE Len(mover[g].keys) = 1
  <2>1. mover' = [mover EXCEPT ![g] = NoMove] BY <1>2 DEF MoveOn
  <2>2. NoMove \in Move BY DEF NoMove, Move
  <2> QED BY <2>1, <2>2 DEF PicturesTyped, NoMove
<1>3. CASE Len(mover[g].keys) # 1
  <2> DEFINE ks == mover[g].keys
             r == [mover[g] EXCEPT !.step = "copy", !.keys = Tail(ks)]
  <2>1. mover' = [mover EXCEPT ![g] = r]
    <3>1. mover' = [mover EXCEPT ![g] =
              IF Len(mover[g].keys) = 1 THEN NoMove
              ELSE [mover[g] EXCEPT !.step = "copy", !.keys = Tail(mover[g].keys)]]
      BY <1>1 DEF MoveOn, PicturesTyped, Move
    <3>2. mover' = [mover EXCEPT ![g] = IF Len(mover[g].keys) = 1 THEN NoMove ELSE r]
      BY <3>1, Zenon
    <3> HIDE DEF r, ks
    <3> QED BY <1>3, <3>2, Zenon
  <2>2. mover[g].keys \in Seq(ImageKey) BY <1>1 DEF Move
  <2>3. Tail(ks) \in Seq(ImageKey) /\ Tail(ks) # <<>>
    <3>1. \A s \in Seq(ImageKey) : s # <<>> => Tail(s) \in Seq(ImageKey) /\ Len(Tail(s)) = Len(s) - 1
      OBVIOUS
    <3>2. \A s \in Seq(ImageKey) : s # <<>> => Len(s) >= 1 /\ Len(s) \in Nat OBVIOUS
    <3>3. Len(Tail(ks)) = Len(ks) - 1 /\ Len(ks) \in Nat /\ Tail(ks) \in Seq(ImageKey)
      BY <1>1, <2>2, <3>1, <3>2
    <3>4. Len(Tail(ks)) # 0 BY <1>3, <3>3
    <3>5. Len(<<>>) = 0 OBVIOUS
    <3> HIDE DEF ks
    <3> QED BY <3>3, <3>4, <3>5, Zenon
  <2>4. r \in Move /\ r.step = "copy" /\ r.keys # <<>>
    <3> HIDE DEF ks
    <3> QED BY <1>1, <2>3 DEF Move
  <2> HIDE DEF r
  <2> QED BY <2>1, <2>4 DEF PicturesTyped
<1> QED BY <1>2, <1>3

\* A profile with one old photo or none satisfies the invariant.
LEMMA PicturesBegin == PictureInit => PicturesInv
<1> SUFFICES ASSUME PictureInit PROVE PicturesInv OBVIOUS
<1>1. NoMove \in Move /\ NoMove.step = "idle" BY DEF NoMove, Move
<1>2. /\ object \in [ImageKey -> Photo \cup {NoPhoto}] /\ object["full"] = newest
      /\ trash \in [ImageKey -> Photo \cup {NoPhoto}] /\ trash["full"] = NoPhoto
  BY DEF PictureInit, NoImages, ImageKey, Photo
<1>3. PicturesTyped BY <1>1, <1>2 DEF PictureInit, PicturesTyped
<1>4. Moving = {} BY <1>1 DEF PictureInit, Moving
<1>5. NewestOnly BY <1>2 DEF NewestOnly
<1>6. CopiedFirst BY <1>1 DEF PictureInit, CopiedFirst
<1> QED BY <1>3, <1>4, <1>5, <1>6 DEF PicturesInv, MovesAlone

\* Uploads keep the invariant.
LEMMA UploadsKeep ==
    ASSUME PicturesInv, NEW u \in Upload, RegisterWithPhoto(u) \/ UploadPicture(u)
    PROVE  PicturesInv'
<1> USE DEF PicturesInv
<1>1. "full" \in ImageKey /\ u \in Photo BY DEF ImageKey, Photo
<1>2. CASE RegisterWithPhoto(u)
  <2>1. Moving' = {} BY <1>2 DEF RegisterWithPhoto, Moving, MovesAlone
  <2>2. UNCHANGED <<object, trash, mover, newest, mixed>> BY <1>2 DEF RegisterWithPhoto
  <2> QED BY <2>1, <2>2 DEF PicturesTyped, MovesAlone, NewestOnly, CopiedFirst
<1>3. CASE BeginUpload(u)
  <2>1. /\ UNCHANGED <<row, object, trash, mover, newest>> /\ mixed' = (mixed \/ Moving # {})
        /\ row = "live"
    BY <1>3 DEF BeginUpload
  <2>2. Moving' = Moving BY <2>1 DEF Moving
  <2>3. MovesAlone' BY <2>1, <2>2 DEF MovesAlone
  <2>4. PicturesTyped' BY <2>1 DEF PicturesTyped
  <2> QED BY <2>1, <2>3, <2>4 DEF NewestOnly, CopiedFirst
<1>4. CASE PutObject(u)
  <2>1. u \in Uploading BY <1>4 DEF PutObject, Uploading
  <2>2. UNCHANGED <<row, trash, mover>> /\ Moving' = Moving BY <1>4 DEF PutObject, Moving
  <2>3. Stored(u) \/ UNCHANGED <<object, newest, mixed>> BY <1>4 DEF PutObject
  <2>4. PicturesTyped'
    <3>1. CASE Stored(u) BY <1>1, <2>2, <3>1 DEF Stored, PicturesTyped
    <3>2. CASE UNCHANGED <<object, newest, mixed>> BY <2>2, <3>2 DEF PicturesTyped
    <3> QED BY <2>3, <3>1, <3>2
  <2>5. mixed \/ Moving = {} BY <2>1 DEF MovesAlone
  <2>6. mixed => mixed' BY <2>3 DEF Stored
  <2>7. MovesAlone' BY <2>2, <2>5, <2>6 DEF MovesAlone
  <2>8. mixed' \/ NewestOnly'
    <3>1. CASE Stored(u)
      <4>1. object'["full"] = u /\ newest' = u BY <1>1, <3>1 DEF Stored, PicturesTyped
      <4>2. mixed' \/ trash["full"] = NoPhoto BY <3>1 DEF Stored
      <4> QED BY <2>2, <4>1, <4>2 DEF NewestOnly
    <3>2. CASE UNCHANGED <<object, newest, mixed>> BY <2>2, <3>2 DEF NewestOnly
    <3> QED BY <2>3, <3>1, <3>2
  <2>9. mixed' \/ CopiedFirst'
    <3>1. mixed' \/ \A g \in Mover : mover'[g].step = "idle" BY <2>2, <2>5, <2>6 DEF Moving
    <3> QED BY <3>1 DEF CopiedFirst
  <2> QED BY <2>4, <2>7, <2>8, <2>9
<1>5. CASE DeleteAliases(u)
  <2>1. UNCHANGED <<row, trash, mover, newest, mixed>> BY <1>5 DEF DeleteAliases
  <2>2. object' \in [ImageKey -> Photo \cup {NoPhoto}] /\ object'["full"] = object["full"]
    BY <1>5, <1>1 DEF DeleteAliases, PicturesTyped
  <2>3. Uploading' \subseteq Uploading BY <1>5 DEF DeleteAliases, Uploading
  <2>4. Moving' = Moving BY <2>1 DEF Moving
  <2>5. MovesAlone' BY <2>1, <2>3, <2>4 DEF MovesAlone
  <2>6. PicturesTyped' BY <2>1, <2>2 DEF PicturesTyped
  <2>7. NewestOnly => NewestOnly' BY <2>1, <2>2 DEF NewestOnly
  <2>8. CopiedFirst => CopiedFirst' BY <2>1, <2>2 DEF CopiedFirst
  <2> QED BY <2>1, <2>5, <2>6, <2>7, <2>8
<1> QED BY <1>2, <1>3, <1>4, <1>5 DEF UploadPicture

\* The start of a goroutine keeps it: it mixes with others or is alone.
LEMMA StartsKeep ==
    ASSUME PicturesInv, NEW g \in Mover, DeleteAndStash(g) \/ RestoreAndUnstash(g)
    PROVE  PicturesInv'
<1>1. PICK kind \in {"stash", "restore"}, keys \in {AllKeys, UuidKeys} : Start(g, kind, keys)
  BY DEF DeleteAndStash, RestoreAndUnstash, StashKeys
<1>2. UNCHANGED <<object, trash, upload, newest>> /\ row' # "absent"
  BY DEF DeleteAndStash, RestoreAndUnstash
<1> DEFINE r == [kind |-> kind, step |-> "copy", keys |-> keys]
<1>3. r \in Move /\ r.step = "copy" /\ r.keys # <<>> BY KeysToMove DEF Move
<1>4. mover' = [mover EXCEPT ![g] = r] /\ mixed' = (mixed \/ Uploading # {} \/ Moving # {})
  BY <1>1 DEF Start
<1> HIDE DEF r
<1>5. PicturesTyped' BY <1>2, <1>3, <1>4 DEF PicturesInv, PicturesTyped
<1>6. Uploading' = Uploading BY <1>2 DEF Uploading
<1>7. Moving' \subseteq Moving \cup {g} BY <1>4 DEF Moving, PicturesInv, PicturesTyped
<1>8. MovesAlone' BY <1>2, <1>4, <1>6, <1>7 DEF MovesAlone
<1>9. mixed \/ (NewestOnly' /\ CopiedFirst')
  <2>1. NewestOnly => NewestOnly' BY <1>2 DEF NewestOnly
  <2>2. CopiedFirst => CopiedFirst' BY <1>2, <1>3, <1>4 DEF CopiedFirst, PicturesInv, PicturesTyped
  <2> QED BY <2>1, <2>2 DEF PicturesInv
<1> QED BY <1>4, <1>5, <1>8, <1>9 DEF PicturesInv

\* What a copy leaves under the canonical keys, and what a delete leaves.
LEMMA CopyEffect ==
    ASSUME PicturesInv, NEW g \in Mover, NEW k, Copied(g, k), Source(g)[k] # NoPhoto
    PROVE  /\ object' \in [ImageKey -> Photo \cup {NoPhoto}]
           /\ trash' \in [ImageKey -> Photo \cup {NoPhoto}]
           /\ k = "full" => object'["full"] = trash'["full"] /\ object'["full"] # NoPhoto
           /\ k # "full" => object'["full"] = object["full"] /\ trash'["full"] = trash["full"]
           /\ object'["full"] \in {object["full"], trash["full"]}
           /\ trash'["full"] \in {object["full"], trash["full"]}
<1>1. "full" \in ImageKey BY DEF ImageKey
<1>2. object \in [ImageKey -> Photo \cup {NoPhoto}] /\ trash \in [ImageKey -> Photo \cup {NoPhoto}]
  BY DEF PicturesInv, PicturesTyped
<1>3. CASE mover[g].kind = "stash" BY <1>1, <1>2, <1>3 DEF Copied, Source
<1>4. CASE mover[g].kind # "stash" BY <1>1, <1>2, <1>4 DEF Copied, Source
<1> QED BY <1>3, <1>4

\* A delete empties one side of a key.
LEMMA RemoveEffect ==
    ASSUME PicturesInv, NEW g \in Mover, NEW k, Removed(g, k)
    PROVE  /\ object' \in [ImageKey -> Photo \cup {NoPhoto}]
           /\ trash' \in [ImageKey -> Photo \cup {NoPhoto}]
           /\ k # "full" => object'["full"] = object["full"] /\ trash'["full"] = trash["full"]
           /\ \/ object'["full"] = object["full"] /\ trash'["full"] = NoPhoto
              \/ trash'["full"] = trash["full"] /\ object'["full"] = NoPhoto
              \/ object'["full"] = object["full"] /\ trash'["full"] = trash["full"]
<1>1. "full" \in ImageKey BY DEF ImageKey
<1>2. object \in [ImageKey -> Photo \cup {NoPhoto}] /\ trash \in [ImageKey -> Photo \cup {NoPhoto}]
  BY DEF PicturesInv, PicturesTyped
<1>3. CASE mover[g].kind = "stash" BY <1>1, <1>2, <1>3 DEF Removed
<1>4. CASE mover[g].kind # "stash" BY <1>1, <1>2, <1>4 DEF Removed
<1> QED BY <1>3, <1>4

\* The moves of a goroutine keep it: a failed copy leaves the source, a good
\* one goes before the delete.
LEMMA MovesKeep ==
    ASSUME PicturesInv, NEW g \in Mover, MoveImages(g)
    PROVE  PicturesInv'
<1> DEFINE k == Head(mover[g].keys)
<1>1. PicturesTyped /\ MovesAlone /\ mover[g].step # "idle" /\ mover[g] \in Move
  BY DEF PicturesInv, PicturesTyped, MoveImages, CopyObject, DeleteSource
<1>2. UNCHANGED <<row, upload, newest, mixed>> BY DEF MoveImages, CopyObject, DeleteSource
<1>3. \/ /\ MoveOn(g) /\ UNCHANGED <<object, trash>>
      \/ /\ mover[g].step = "copy" /\ Source(g)[k] # NoPhoto /\ Copied(g, k)
         /\ mover' = [mover EXCEPT ![g].step = "delete"] \/ MoveOn(g)
      \/ /\ mover[g].step = "delete" /\ Removed(g, k) /\ MoveOn(g)
  BY DEF MoveImages, CopyObject, DeleteSource
<1>4. mover' = [mover EXCEPT ![g].step = "delete"] \/ MoveOn(g) BY <1>3
<1>5. /\ mover' \in [Mover -> Move]
      /\ \A h \in Mover : mover'[h].step # "idle" => mover'[h].keys # <<>>
      /\ \A h \in Mover \ {g} : mover'[h] = mover[h]
  <2>1. CASE MoveOn(g) BY <1>1, <2>1, MovesOn
  <2>2. CASE mover' = [mover EXCEPT ![g].step = "delete"]
    <3> DEFINE r == [mover[g] EXCEPT !.step = "delete"]
    <3>1. r \in Move /\ r.keys = mover[g].keys BY <1>1 DEF Move
    <3>2. mover' = [mover EXCEPT ![g] = r] BY <2>2
    <3>3. mover[g].keys # <<>> BY <1>1 DEF PicturesTyped
    <3> HIDE DEF r
    <3> QED BY <3>1, <3>2, <3>3, <1>1 DEF PicturesTyped
  <2> QED BY <1>4, <2>1, <2>2
<1>6. object' \in [ImageKey -> Photo \cup {NoPhoto}] /\ trash' \in [ImageKey -> Photo \cup {NoPhoto}]
  <2>1. CASE UNCHANGED <<object, trash>> BY <2>1, <1>1 DEF PicturesTyped
  <2>2. CASE Copied(g, k) /\ Source(g)[k] # NoPhoto
    <3> HIDE DEF k
    <3> QED BY <2>2, CopyEffect
  <2>3. CASE Removed(g, k)
    <3> HIDE DEF k
    <3> QED BY <2>3, RemoveEffect
  <2> QED BY <1>3, <2>1, <2>2, <2>3
<1>7. PicturesTyped' BY <1>1, <1>2, <1>5, <1>6 DEF PicturesTyped
<1>8. Moving' \subseteq Moving /\ Uploading' = Uploading
  BY <1>1, <1>2, <1>5 DEF Moving, Uploading
<1>9. MovesAlone' BY <1>1, <1>2, <1>8 DEF MovesAlone
<1>10. SUFFICES ASSUME ~mixed PROVE NewestOnly' /\ CopiedFirst'
  BY <1>2, <1>7, <1>9 DEF PicturesInv
<1>11. NewestOnly /\ CopiedFirst /\ \A h \in Mover \ {g} : mover[h].step = "idle"
  BY <1>1, <1>10 DEF PicturesInv, MovesAlone, Moving
<1>12. CASE MoveOn(g) /\ UNCHANGED <<object, trash>>
  <2>1. mover'[g].step \in {"idle", "copy"} BY <1>1, <1>12, MovesOn
  <2>2. CopiedFirst' BY <1>5, <1>11, <2>1 DEF CopiedFirst
  <2> QED BY <1>2, <1>11, <1>12, <2>2 DEF NewestOnly
<1>13. CASE /\ Source(g)[k] # NoPhoto /\ Copied(g, k)
            /\ mover' = [mover EXCEPT ![g].step = "delete"] \/ MoveOn(g)
  <2> HIDE DEF k
  <2>1. /\ k = "full" => object'["full"] = trash'["full"] /\ object'["full"] # NoPhoto
        /\ k # "full" => object'["full"] = object["full"] /\ trash'["full"] = trash["full"]
        /\ object'["full"] \in {object["full"], trash["full"]}
        /\ trash'["full"] \in {object["full"], trash["full"]}
    BY <1>13, CopyEffect
  <2>2. NewestOnly' BY <1>2, <1>11, <2>1 DEF NewestOnly
  <2>3. CopiedFirst'
    <3>1. \A h \in Mover \ {g} : mover'[h].step = "idle" BY <1>5, <1>11
    <3>2. CASE MoveOn(g)
      <4>1. mover'[g].step # "delete" BY <1>1, <3>2, MovesOn
      <4> QED BY <3>1, <4>1 DEF CopiedFirst
    <3>3. CASE mover' = [mover EXCEPT ![g].step = "delete"]
      <4>1. mover'[g].keys = mover[g].keys BY <3>3, <1>1 DEF PicturesTyped, Move
      <4>2. Head(mover'[g].keys) = "full" => object'["full"] = trash'["full"]
        BY <4>1, <2>1 DEF k
      <4> QED BY <3>1, <4>2 DEF CopiedFirst
    <3> QED BY <1>13, <3>2, <3>3
  <2> QED BY <2>2, <2>3
<1>14. CASE mover[g].step = "delete" /\ Removed(g, k) /\ MoveOn(g)
  <2>1. k = "full" => object["full"] = trash["full"] BY <1>11, <1>14 DEF CopiedFirst
  <2> HIDE DEF k
  <2>2. /\ k # "full" => object'["full"] = object["full"] /\ trash'["full"] = trash["full"]
        /\ \/ object'["full"] = object["full"] /\ trash'["full"] = NoPhoto
           \/ trash'["full"] = trash["full"] /\ object'["full"] = NoPhoto
           \/ object'["full"] = object["full"] /\ trash'["full"] = trash["full"]
    BY <1>14, RemoveEffect
  <2>3. NewestOnly' BY <1>2, <1>11, <2>1, <2>2 DEF NewestOnly
  <2>4. mover'[g].step # "delete" BY <1>1, <1>14, MovesOn
  <2>5. CopiedFirst' BY <1>5, <1>11, <2>4 DEF CopiedFirst
  <2> QED BY <2>3, <2>5
<1> QED BY <1>3, <1>12, <1>13, <1>14

\* The purge, the bucket's rule and a restart keep it.
LEMMA RestKeeps ==
    ASSUME PicturesInv, PurgeProfileRow \/ Restart \/ \E k \in ImageKey : ExpireTrash(k)
    PROVE  PicturesInv'
<1>1. CASE PurgeProfileRow
  <2>1. UNCHANGED <<object, trash, upload, mover, newest, mixed>> /\ row' = "purged"
    BY <1>1 DEF PurgeProfileRow
  <2> QED BY <2>1 DEF PicturesInv, PicturesTyped, MovesAlone, NewestOnly, CopiedFirst, Moving, Uploading
<1>2. CASE Restart
  <2>1. UNCHANGED <<row, object, trash, newest, mixed>> /\ mover' = [h \in Mover |-> NoMove]
    BY <1>2 DEF Restart
  <2>2. NoMove \in Move /\ NoMove.step = "idle" BY DEF NoMove, Move
  <2>3. PicturesTyped' BY <2>1, <2>2 DEF PicturesInv, PicturesTyped
  <2>4. Moving' = {} BY <2>1, <2>2 DEF Moving
  <2>5. CopiedFirst' BY <2>1, <2>2 DEF CopiedFirst
  <2> QED BY <2>1, <2>3, <2>4, <2>5 DEF PicturesInv, MovesAlone, NewestOnly
<1>3. ASSUME NEW k \in ImageKey, ExpireTrash(k) PROVE PicturesInv'
  <2>1. /\ UNCHANGED <<row, object, upload, mover, mixed>> /\ Moving = {}
        /\ trash' = [trash EXCEPT ![k] = NoPhoto]
        /\ newest' = IF k = "full" /\ newest = trash[k] /\ object[k] # newest THEN NoPhoto ELSE newest
    BY <1>3 DEF ExpireTrash
  <2>2. PicturesTyped' BY <2>1 DEF PicturesInv, PicturesTyped
  <2>3. Moving' = {} BY <2>1 DEF Moving
  <2>4. CopiedFirst' BY <2>3 DEF CopiedFirst, Moving
  <2>5. NewestOnly => NewestOnly'
    <3>1. "full" \in ImageKey /\ trash \in [ImageKey -> Photo \cup {NoPhoto}]
      BY DEF ImageKey, PicturesInv, PicturesTyped
    <3>2. CASE k = "full" BY <2>1, <3>1, <3>2 DEF NewestOnly
    <3>3. CASE k # "full"
      <4>1. trash'["full"] = trash["full"] /\ newest' = newest BY <2>1, <3>1, <3>3
      <4> QED BY <2>1, <4>1 DEF NewestOnly
    <3> QED BY <3>2, <3>3
  <2> QED BY <2>1, <2>2, <2>3, <2>4, <2>5 DEF PicturesInv, MovesAlone
<1> QED BY <1>1, <1>2, <1>3

\* The newest photo survives every failed call, restart and pair of uploads.
THEOREM PhotosAreKept == PictureSpec => []PhotoKept
<1>1. PicturesInv /\ [PictureNext]_pictureVars => PicturesInv'
  <2> SUFFICES ASSUME PicturesInv, [PictureNext]_pictureVars PROVE PicturesInv'
    OBVIOUS
  <2>1. CASE UNCHANGED pictureVars
    BY <2>1 DEF pictureVars, PicturesInv, PicturesTyped, MovesAlone, NewestOnly, CopiedFirst,
       Moving, Uploading
  <2>2. CASE PictureNext BY <2>2, UploadsKeep, StartsKeep, MovesKeep, RestKeeps DEF PictureNext
  <2> QED BY <2>1, <2>2
<1>2. PicturesInv => PhotoKept BY DEF PicturesInv, NewestOnly, PhotoKept
<1> QED BY PicturesBegin, <1>1, <1>2, PTL DEF PictureSpec

\* The keys a stash and a restore have left when no storage call fails.
StashLeft == {AllKeys, <<"alias", "legacy">>, <<"legacy">>}
RestoreLeft == {UuidKeys, <<"alias">>}

\* The keys in a list, and those that any goroutine has ahead of it.
Ahead(ks) == {ks[i] : i \in DOMAIN ks}
Pending == {k \in ImageKey : \E g \in Moving : k \in Ahead(mover[g].keys)}

\* A live profile has its newest photo, or a restore is about to bring it back.
Living ==
    /\ \A g \in Moving : mover[g].kind = "restore" /\ mover[g].keys \in RestoreLeft
    /\ "full" \in Pending => trash["full"] = newest
    /\ "full" \notin Pending => object["full"] = newest

\* A deleted one has no image but those that a stash is about to move.
Buried ==
    /\ \A g \in Moving : mover[g].kind = "stash" /\ mover[g].keys \in StashLeft
    /\ \A k \in ImageKey \ Pending : object[k] = NoPhoto
    /\ "full" \in Pending => object["full"] = newest
    /\ "full" \notin Pending => trash["full"] = newest

\* Where the images of a profile are, by what its row says.
Following ==
    /\ row # "purged" => object["full"] \in {NoPhoto, newest} /\ trash["full"] \in {NoPhoto, newest}
    /\ row \in {"absent", "live"} => Living
    /\ row = "deleted" => Buried /\ Uploading = {}
    /\ row = "purged" => Moving = {} /\ Uploading = {} /\ object = NoImages

\* The inductive invariant of histories without faults and mix-ups.
FollowInv ==
    /\ PicturesInv /\ faults \in Nat
    /\ row \in {"absent", "live", "deleted", "purged"}
    /\ faults # 0 \/ mixed \/ Following

\* Going on to the next key, one key is no longer ahead.
LEMMA KeysAhead ==
    ASSUME NEW Left \in {StashLeft, RestoreLeft}, NEW ks \in Left
    PROVE  /\ Head(ks) \in ImageKey
           /\ Len(ks) = 1 => Ahead(ks) = {Head(ks)}
           /\ Len(ks) # 1 => /\ Tail(ks) \in Left
                             /\ Ahead(Tail(ks)) = Ahead(ks) \ {Head(ks)}
           /\ Head(ks) \in Ahead(ks)
           /\ "full" \in Ahead(ks) => Head(ks) = "full"
<1> DEFINE a == <<"full", "alias", "legacy">>
           b == <<"alias", "legacy">>
           c == <<"legacy">>
           d == <<"full", "alias">>
           e == <<"alias">>
<1>1. /\ Head(a) = "full" /\ Tail(a) = b /\ Len(a) = 3
      /\ Head(b) = "alias" /\ Tail(b) = c /\ Len(b) = 2
      /\ Head(c) = "legacy" /\ Len(c) = 1
      /\ Head(d) = "full" /\ Tail(d) = e /\ Len(d) = 2
      /\ Head(e) = "alias" /\ Len(e) = 1
  OBVIOUS
<1>2. /\ Ahead(a) = {"full", "alias", "legacy"}
      /\ Ahead(b) = {"alias", "legacy"}
      /\ Ahead(c) = {"legacy"}
      /\ Ahead(d) = {"full", "alias"}
      /\ Ahead(e) = {"alias"}
  BY DEF Ahead
<1>6. /\ Ahead(b) = Ahead(a) \ {"full"}
      /\ Ahead(c) = Ahead(b) \ {"alias"}
      /\ Ahead(e) = Ahead(d) \ {"full"}
  BY <1>2
<1>3. /\ StashLeft = {a, b, c} /\ RestoreLeft = {d, e}
  BY DEF StashLeft, RestoreLeft, AllKeys, UuidKeys
<1> HIDE DEF a, b, c, d, e
<1>4. CASE Left = StashLeft
  <2>1. CASE ks = a
    <3>1. Head(ks) = "full" /\ Tail(ks) = b /\ Len(ks) # 1 BY <1>1, <2>1
    <3>2. Tail(ks) \in Left BY <1>3, <1>4, <3>1
    <3>3. Ahead(Tail(ks)) = Ahead(ks) \ {Head(ks)} BY <1>6, <2>1, <3>1
    <3>4. Head(ks) \in Ahead(ks) /\ ("full" \in Ahead(ks) => Head(ks) = "full") BY <1>2, <2>1, <3>1
    <3> QED BY <3>1, <3>2, <3>3, <3>4 DEF ImageKey
  <2>2. CASE ks = b
    <3>1. Head(ks) = "alias" /\ Tail(ks) = c /\ Len(ks) # 1 BY <1>1, <2>2
    <3>2. Tail(ks) \in Left BY <1>3, <1>4, <3>1
    <3>3. Ahead(Tail(ks)) = Ahead(ks) \ {Head(ks)} BY <1>6, <2>2, <3>1
    <3>4. Head(ks) \in Ahead(ks) /\ ("full" \in Ahead(ks) => Head(ks) = "full") BY <1>2, <2>2, <3>1
    <3> QED BY <3>1, <3>2, <3>3, <3>4 DEF ImageKey
  <2>3. CASE ks = c BY <1>1, <1>2, <1>3, <1>4, <2>3 DEF ImageKey
  <2> QED BY <1>3, <1>4, <2>1, <2>2, <2>3
<1>5. CASE Left = RestoreLeft
  <2>1. CASE ks = d
    <3>1. Head(ks) = "full" /\ Tail(ks) = e /\ Len(ks) # 1 BY <1>1, <2>1
    <3>2. Tail(ks) \in Left BY <1>3, <1>5, <3>1
    <3>3. Ahead(Tail(ks)) = Ahead(ks) \ {Head(ks)} BY <1>6, <2>1, <3>1
    <3>4. Head(ks) \in Ahead(ks) /\ ("full" \in Ahead(ks) => Head(ks) = "full") BY <1>2, <2>1, <3>1
    <3> QED BY <3>1, <3>2, <3>3, <3>4 DEF ImageKey
  <2>2. CASE ks = e BY <1>1, <1>2, <1>3, <1>5, <2>2 DEF ImageKey
  <2> QED BY <1>3, <1>5, <2>1, <2>2
<1> QED BY <1>4, <1>5

\* A profile that begins has no move under way.
LEMMA FollowBegins == PictureInit => FollowInv
<1> SUFFICES ASSUME PictureInit PROVE FollowInv OBVIOUS
<1>1. NoMove.step = "idle" BY DEF NoMove
<1>2. Moving = {} BY <1>1 DEF PictureInit, Moving
<1>3. Pending = {} BY <1>2 DEF Pending
<1>4. object["full"] = newest /\ trash["full"] = NoPhoto
  BY DEF PictureInit, NoImages, ImageKey
<1>5. row \in {"absent", "live"} /\ faults = 0 BY DEF PictureInit
<1> QED BY <1>2, <1>3, <1>4, <1>5, PicturesBegin DEF FollowInv, Following, Living

\* Failures and mix-ups are remembered.
LEMMA HistoriesGrow ==
    ASSUME FollowInv, PictureNext
    PROVE  /\ faults' \in Nat /\ row' \in {"absent", "live", "deleted", "purged"}
           /\ faults # 0 => faults' # 0
           /\ mixed => mixed'
<1>1. faults \in Nat BY DEF FollowInv
<1>2. Fault => faults' \in Nat /\ faults' # 0 BY <1>1 DEF Fault
<1> HIDE DEF Fault
<1>3. ASSUME NEW u \in Upload, RegisterWithPhoto(u) \/ UploadPicture(u)
      PROVE  (faults' = faults \/ Fault) /\ (mixed => mixed') /\ (row' = row \/ row' = "live")
  <2>1. CASE RegisterWithPhoto(u) BY <2>1 DEF RegisterWithPhoto
  <2>2. CASE BeginUpload(u) BY <2>2 DEF BeginUpload
  <2>3. CASE PutObject(u)
    <3>1. Stored(u) \/ mixed' = mixed BY <2>3 DEF PutObject
    <3>2. mixed => mixed' BY <3>1 DEF Stored
    <3> QED BY <2>3, <3>2 DEF PutObject
  <2>4. CASE DeleteAliases(u) BY <2>4 DEF DeleteAliases
  <2> QED BY <1>3, <2>1, <2>2, <2>3, <2>4 DEF UploadPicture
<1>4. ASSUME NEW g \in Mover, DeleteAndStash(g) \/ RestoreAndUnstash(g)
      PROVE  (faults' = faults \/ Fault) /\ (mixed => mixed') /\ row' \in {"live", "deleted"}
  BY <1>4 DEF DeleteAndStash, RestoreAndUnstash, Start
<1>5. ASSUME NEW g \in Mover, MoveImages(g)
      PROVE  (faults' = faults \/ Fault) /\ (mixed => mixed') /\ row' = row
  BY <1>5 DEF MoveImages, CopyObject, DeleteSource
<1>6. ASSUME PurgeProfileRow \/ Restart \/ \E k \in ImageKey : ExpireTrash(k)
      PROVE  (faults' = faults \/ Fault) /\ (mixed => mixed') /\ (row' = row \/ row' = "purged")
  BY <1>6 DEF PurgeProfileRow, Restart, ExpireTrash
<1>7. /\ faults' = faults \/ Fault
      /\ mixed => mixed'
      /\ row' = row \/ row' \in {"live", "deleted", "purged"}
  BY <1>3, <1>4, <1>5, <1>6 DEF PictureNext
<1> QED BY <1>1, <1>2, <1>7 DEF FollowInv

\* Uploads go to profiles that are live, beside no move.
LEMMA FollowUploads ==
    ASSUME FollowInv, Following, NEW u \in Upload, RegisterWithPhoto(u) \/ UploadPicture(u),
           faults' = faults, ~mixed'
    PROVE  Following'
<1>0. "full" \in ImageKey /\ faults \in Nat /\ PicturesInv BY DEF ImageKey, FollowInv
<1>1. ~Fault BY <1>0 DEF Fault
<1>2. ~mixed
  BY DEF RegisterWithPhoto, UploadPicture, BeginUpload, PutObject, DeleteAliases, Stored
<1>3. UNCHANGED <<trash, mover>>
  BY DEF RegisterWithPhoto, UploadPicture, BeginUpload, PutObject, DeleteAliases
<1>4. Moving' = Moving /\ Pending' = Pending BY <1>3 DEF Moving, Pending
<1>5. CASE RegisterWithPhoto(u) \/ BeginUpload(u)
  <2>1. UNCHANGED <<object, newest>> /\ row' = "live" /\ row \in {"absent", "live"}
    BY <1>5 DEF RegisterWithPhoto, BeginUpload
  <2> QED BY <1>3, <1>4, <2>1 DEF Following, Living
<1>6. CASE PutObject(u)
  <2>1. u \in Uploading /\ row' = row BY <1>6 DEF PutObject, Uploading
  <2>2. row \in {"absent", "live"} BY <2>1 DEF Following, FollowInv
  <2>3. Moving = {} /\ Pending = {} BY <1>0, <1>2, <2>1 DEF PicturesInv, MovesAlone, Pending
  <2>4. Stored(u) BY <1>1, <1>6 DEF PutObject
  <2>5. object'["full"] = u /\ newest' = u /\ trash["full"] = NoPhoto
    BY <1>0, <2>4 DEF Stored, PicturesInv, PicturesTyped
  <2> QED BY <1>3, <1>4, <2>1, <2>2, <2>3, <2>5 DEF Following, Living
<1>7. CASE DeleteAliases(u)
  <2>1. u \in Uploading /\ row' = row /\ newest' = newest BY <1>7 DEF DeleteAliases, Uploading
  <2>2. row \in {"absent", "live"} BY <2>1 DEF Following, FollowInv
  <2>3. object'["full"] = object["full"]
    BY <1>0, <1>7 DEF DeleteAliases, PicturesInv, PicturesTyped
  <2> QED BY <1>3, <1>4, <2>1, <2>2, <2>3 DEF Following, Living
<1> QED BY <1>5, <1>6, <1>7 DEF UploadPicture

\* A goroutine that starts alone has ahead of it what its row asks for.
LEMMA FollowStarts ==
    ASSUME FollowInv, Following, NEW g \in Mover, DeleteAndStash(g) \/ RestoreAndUnstash(g),
           faults' = faults, ~mixed'
    PROVE  Following'
<1>0. "full" \in ImageKey /\ faults \in Nat /\ PicturesInv BY DEF ImageKey, FollowInv
<1>1. ~Fault BY <1>0 DEF Fault
<1>2. UNCHANGED <<object, trash, newest>> /\ Uploading' = Uploading
  BY DEF DeleteAndStash, RestoreAndUnstash, Uploading
<1>3. Uploading = {} /\ Moving = {} BY DEF DeleteAndStash, RestoreAndUnstash, Start
<1>4. Pending = {} BY <1>3 DEF Pending
<1>5. Ahead(AllKeys) = ImageKey /\ Ahead(UuidKeys) = {"full", "alias"}
  BY DEF Ahead, AllKeys, UuidKeys, ImageKey
<1>6. CASE DeleteAndStash(g)
  <2>1. row = "live" /\ row' = "deleted" /\ Start(g, "stash", AllKeys)
    BY <1>1, <1>6 DEF DeleteAndStash, StashKeys
  <2>2. mover' = [mover EXCEPT ![g] = [kind |-> "stash", step |-> "copy", keys |-> AllKeys]]
    BY <2>1 DEF Start
  <2>3. Moving' = {g} /\ mover'[g].kind = "stash" /\ mover'[g].keys = AllKeys
    BY <1>0, <1>3, <2>2 DEF Moving, PicturesInv, PicturesTyped
  <2>4. Pending' = ImageKey BY <1>5, <2>3 DEF Pending
  <2>5. object["full"] = newest BY <1>4, <2>1 DEF Following, Living
  <2>6. Buried' BY <1>0, <1>2, <2>3, <2>4, <2>5 DEF Buried, StashLeft
  <2> QED BY <1>2, <1>3, <2>1, <2>6 DEF Following
<1>7. CASE RestoreAndUnstash(g)
  <2>1. row = "deleted" /\ row' = "live" /\ Start(g, "restore", UuidKeys)
    BY <1>7 DEF RestoreAndUnstash
  <2>2. mover' = [mover EXCEPT ![g] = [kind |-> "restore", step |-> "copy", keys |-> UuidKeys]]
    BY <2>1 DEF Start
  <2>3. Moving' = {g} /\ mover'[g].kind = "restore" /\ mover'[g].keys = UuidKeys
    BY <1>0, <1>3, <2>2 DEF Moving, PicturesInv, PicturesTyped
  <2>4. "full" \in Pending' BY <1>0, <1>5, <2>3 DEF Pending
  <2>5. trash["full"] = newest BY <1>4, <2>1 DEF Following, Buried
  <2>6. Living' BY <1>2, <2>3, <2>4, <2>5 DEF Living, RestoreLeft
  <2> QED BY <1>2, <2>1, <2>6 DEF Following
<1> QED BY <1>6, <1>7

\* The only goroutine goes on: its next keys are the rest of those it had.
LEMMA GoesOn ==
    ASSUME PicturesTyped, NEW Left \in {StashLeft, RestoreLeft}, NEW g \in Mover,
           mover[g].step # "idle", mover[g].keys \in Left,
           \A h \in Mover \ {g} : mover[h].step = "idle", MoveOn(g)
    PROVE  /\ Pending' = Pending \ {Head(mover[g].keys)}
           /\ \A h \in Moving' : h = g /\ mover'[h].kind = mover[g].kind /\ mover'[h].keys \in Left
<1> DEFINE ks == mover[g].keys
<1>1. /\ Len(ks) = 1 => Ahead(ks) = {Head(ks)}
      /\ Len(ks) # 1 => Tail(ks) \in Left /\ Ahead(Tail(ks)) = Ahead(ks) \ {Head(ks)}
  BY KeysAhead
<1>2. mover[g] \in Move BY DEF PicturesTyped
<1>3. Pending = {k \in ImageKey : k \in Ahead(ks)} BY DEF Pending, Moving
<1>4. \A h \in Mover \ {g} : mover'[h].step = "idle" BY MovesOn
<1>5. CASE Len(ks) = 1
  <2>1. mover' = [mover EXCEPT ![g] = NoMove] BY <1>5 DEF MoveOn
  <2>2. mover'[g].step = "idle" BY <2>1 DEF NoMove, PicturesTyped
  <2>3. Moving' = {} BY <1>4, <2>2 DEF Moving
  <2>4. Pending' = {} BY <2>3 DEF Pending
  <2> HIDE DEF ks
  <2>5. Pending \ {Head(ks)} = {} BY <1>1, <1>3, <1>5
  <2> QED BY <2>3, <2>4, <2>5 DEF ks
<1>6. CASE Len(ks) # 1
  <2>1. mover'[g] = [mover[g] EXCEPT !.step = "copy", !.keys = Tail(mover[g].keys)]
    <3>1. mover' = [mover EXCEPT ![g] =
              IF Len(mover[g].keys) = 1 THEN NoMove
              ELSE [mover[g] EXCEPT !.step = "copy", !.keys = Tail(mover[g].keys)]]
      BY <1>2 DEF MoveOn, PicturesTyped, Move
    <3>2. mover'[g] = IF Len(mover[g].keys) = 1 THEN NoMove
                      ELSE [mover[g] EXCEPT !.step = "copy", !.keys = Tail(mover[g].keys)]
      BY <3>1 DEF PicturesTyped
    <3> QED BY <1>6, <3>2
  <2>2. mover'[g].step = "copy" /\ mover'[g].kind = mover[g].kind /\ mover'[g].keys = Tail(ks)
    BY <1>2, <2>1 DEF Move
  <2>3. Moving' = {g} BY <1>4, <2>2 DEF Moving
  <2>4. Pending' = {k \in ImageKey : k \in Ahead(Tail(ks))} BY <2>2, <2>3 DEF Pending
  <2> HIDE DEF ks
  <2>5. Pending' = Pending \ {Head(ks)} BY <1>1, <1>3, <1>6, <2>4
  <2> QED BY <1>1, <1>6, <2>2, <2>3, <2>5 DEF ks
<1> QED BY <1>5, <1>6

\* A move that does not fail takes one key nearer to where the row says.
LEMMA FollowMoves ==
    ASSUME FollowInv, Following, NEW g \in Mover, MoveImages(g), faults' = faults, ~mixed
    PROVE  Following'
<1> DEFINE k == Head(mover[g].keys)
<1>0. "full" \in ImageKey /\ faults \in Nat /\ PicturesInv /\ PicturesTyped
  BY DEF ImageKey, FollowInv, PicturesInv
<1>1. ~Fault BY <1>0 DEF Fault
<1>2. UNCHANGED <<row, upload, newest>> /\ Uploading' = Uploading /\ mover[g].step # "idle"
  BY DEF MoveImages, CopyObject, DeleteSource, Uploading
<1>3. g \in Moving /\ \A h \in Mover \ {g} : mover[h].step = "idle"
  BY <1>0, <1>2 DEF Moving, PicturesInv, MovesAlone
<1>4. row \in {"live", "deleted"} BY <1>0, <1>3 DEF FollowInv, Following, PicturesInv, MovesAlone
<1>5. \/ /\ Source(g)[k] = NoPhoto /\ MoveOn(g) /\ UNCHANGED <<object, trash>>
      \/ /\ Source(g)[k] # NoPhoto /\ Copied(g, k) /\ mover' = [mover EXCEPT ![g].step = "delete"]
      \/ /\ mover[g].step = "delete" /\ Removed(g, k) /\ MoveOn(g)
  BY <1>1 DEF MoveImages, CopyObject, DeleteSource
<1>6. mover[g].step = "delete" /\ k = "full" => object["full"] = trash["full"]
  BY DEF FollowInv, PicturesInv, CopiedFirst
<1>7. Pending = {j \in ImageKey : j \in Ahead(mover[g].keys)} BY <1>3 DEF Pending, Moving
<1>8. /\ object \in [ImageKey -> Photo \cup {NoPhoto}] /\ trash \in [ImageKey -> Photo \cup {NoPhoto}]
      /\ object["full"] \in {NoPhoto, newest} /\ trash["full"] \in {NoPhoto, newest}
  BY <1>0, <1>4 DEF PicturesTyped, Following
<1>9. ASSUME mover' = [mover EXCEPT ![g].step = "delete"]
      PROVE  /\ Pending' = Pending
             /\ \A h \in Moving' : h = g /\ mover'[h].kind = mover[g].kind /\ mover'[h].keys = mover[g].keys
  <2>1. /\ mover'[g].step = "delete" /\ mover'[g].kind = mover[g].kind /\ mover'[g].keys = mover[g].keys
        /\ \A h \in Mover \ {g} : mover'[h] = mover[h]
    BY <1>0, <1>9 DEF PicturesTyped, Move
  <2>2. Moving' = {g} BY <1>3, <2>1 DEF Moving
  <2> QED BY <1>7, <2>1, <2>2 DEF Pending
<1>10. CASE row = "live"
  <2>1. mover[g].kind = "restore" /\ mover[g].keys \in RestoreLeft BY <1>3, <1>10 DEF Following, Living
  <2>2. k \in Pending /\ ("full" \in Pending => k = "full") BY <1>0, <1>7, <2>1, KeysAhead
  <2>3. /\ "full" \in Pending => trash["full"] = newest
        /\ "full" \notin Pending => object["full"] = newest
    BY <1>10 DEF Following, Living
  <2>4. MoveOn(g) => /\ Pending' = Pending \ {k}
                     /\ \A h \in Moving' : mover'[h].kind = "restore" /\ mover'[h].keys \in RestoreLeft
    BY <1>0, <1>2, <1>3, <2>1, GoesOn
  <2>5. SUFFICES Living' /\ object'["full"] \in {NoPhoto, newest} /\ trash'["full"] \in {NoPhoto, newest}
    BY <1>2, <1>10 DEF Following
  <2> HIDE DEF k
  <2>6. CASE Source(g)[k] = NoPhoto /\ MoveOn(g) /\ UNCHANGED <<object, trash>>
    <3>1. k = "full" => trash["full"] = NoPhoto BY <2>1, <2>6 DEF Source
    <3>2. "full" \notin Pending' /\ object["full"] = newest BY <1>8, <2>2, <2>3, <2>4, <2>6, <3>1
    <3> QED BY <1>2, <1>8, <2>4, <2>6, <3>2 DEF Living
  <2>7. CASE /\ Copied(g, k) /\ mover' = [mover EXCEPT ![g].step = "delete"]
    <3>1. object' = [object EXCEPT ![k] = trash[k]] /\ UNCHANGED trash BY <2>1, <2>7 DEF Copied
    <3>2. object'["full"] = IF k = "full" THEN trash["full"] ELSE object["full"] BY <1>0, <1>8, <3>1
    <3> QED BY <1>2, <1>8, <1>9, <2>1, <2>2, <2>3, <2>7, <3>1, <3>2 DEF Living
  <2>8. CASE mover[g].step = "delete" /\ Removed(g, k) /\ MoveOn(g)
    <3>1. trash' = [trash EXCEPT ![k] = NoPhoto] /\ UNCHANGED object BY <2>1, <2>8 DEF Removed
    <3>2. trash'["full"] \in {NoPhoto, trash["full"]} BY <1>0, <1>8, <3>1
    <3>3. k = "full" => object["full"] = trash["full"] BY <1>6, <2>8 DEF k
    <3>4. "full" \notin Pending' /\ object["full"] = newest BY <2>2, <2>3, <2>4, <2>8, <3>3
    <3> QED BY <1>2, <1>8, <2>4, <2>8, <3>1, <3>2, <3>4 DEF Living
  <2> QED BY <1>5, <2>6, <2>7, <2>8 DEF k
<1>11. CASE row = "deleted"
  <2>1. mover[g].kind = "stash" /\ mover[g].keys \in StashLeft BY <1>3, <1>11 DEF Following, Buried
  <2>2. k \in Pending /\ k \in ImageKey /\ ("full" \in Pending => k = "full")
    BY <1>0, <1>7, <2>1, KeysAhead
  <2>3. /\ "full" \in Pending => object["full"] = newest
        /\ "full" \notin Pending => trash["full"] = newest
        /\ \A j \in ImageKey \ Pending : object[j] = NoPhoto
        /\ Uploading = {}
    BY <1>11 DEF Following, Buried
  <2>4. MoveOn(g) => /\ Pending' = Pending \ {k}
                     /\ \A h \in Moving' : mover'[h].kind = "stash" /\ mover'[h].keys \in StashLeft
    BY <1>0, <1>2, <1>3, <2>1, GoesOn
  <2>5. SUFFICES Buried' /\ object'["full"] \in {NoPhoto, newest} /\ trash'["full"] \in {NoPhoto, newest}
    BY <1>2, <1>11, <2>3 DEF Following
  <2> HIDE DEF k
  <2>6. CASE Source(g)[k] = NoPhoto /\ MoveOn(g) /\ UNCHANGED <<object, trash>>
    <3>1. object[k] = NoPhoto BY <2>1, <2>6 DEF Source
    <3>2. "full" \notin Pending' /\ trash["full"] = newest BY <1>8, <2>2, <2>3, <2>4, <2>6, <3>1
    <3>3. \A j \in ImageKey \ Pending' : object[j] = NoPhoto BY <2>3, <2>4, <2>6, <3>1
    <3> QED BY <1>2, <1>8, <2>4, <2>6, <3>2, <3>3 DEF Buried
  <2>7. CASE /\ Copied(g, k) /\ mover' = [mover EXCEPT ![g].step = "delete"]
    <3>1. trash' = [trash EXCEPT ![k] = object[k]] /\ UNCHANGED object BY <2>1, <2>7 DEF Copied
    <3>2. trash'["full"] = IF k = "full" THEN object["full"] ELSE trash["full"] BY <1>0, <1>8, <3>1
    <3> QED BY <1>2, <1>8, <1>9, <2>1, <2>2, <2>3, <2>7, <3>1, <3>2 DEF Buried
  <2>8. CASE mover[g].step = "delete" /\ Removed(g, k) /\ MoveOn(g)
    <3>1. object' = [object EXCEPT ![k] = NoPhoto] /\ UNCHANGED trash BY <2>1, <2>8 DEF Removed
    <3>2. object'["full"] \in {NoPhoto, object["full"]} BY <1>0, <1>8, <3>1
    <3>3. k = "full" => object["full"] = trash["full"] BY <1>6, <2>8 DEF k
    <3>4. "full" \notin Pending' /\ trash["full"] = newest BY <2>2, <2>3, <2>4, <2>8, <3>3
    <3>5. \A j \in ImageKey \ Pending' : object'[j] = NoPhoto BY <1>8, <2>2, <2>3, <2>4, <2>8, <3>1
    <3> QED BY <1>2, <1>8, <2>4, <2>8, <3>1, <3>2, <3>4, <3>5 DEF Buried
  <2> QED BY <1>5, <2>6, <2>7, <2>8 DEF k
<1> QED BY <1>4, <1>10, <1>11

\* The purge and the bucket's rule come when all is where it belongs.
LEMMA FollowRest ==
    ASSUME FollowInv, Following, PurgeProfileRow \/ Restart \/ \E k \in ImageKey : ExpireTrash(k),
           faults' = faults
    PROVE  Following'
<1>0. "full" \in ImageKey /\ faults \in Nat /\ PicturesInv BY DEF ImageKey, FollowInv
<1>1. ~Restart BY <1>0 DEF Restart, Fault
<1>2. CASE PurgeProfileRow
  <2>1. row = "deleted" /\ row' = "purged" /\ Moving = {} /\ UNCHANGED <<object, upload, mover>>
    BY <1>2 DEF PurgeProfileRow
  <2>2. Pending = {} BY <2>1 DEF Pending
  <2>3. object = NoImages
    <3>1. \A k \in ImageKey : object[k] = NoPhoto BY <2>1, <2>2 DEF Following, Buried
    <3> QED BY <1>0, <3>1 DEF NoImages, PicturesInv, PicturesTyped
  <2>4. Moving' = {} /\ Uploading' = {} BY <2>1 DEF Moving, Uploading, Following
  <2> QED BY <2>1, <2>3, <2>4 DEF Following, NoImages
<1>3. ASSUME NEW k \in ImageKey, ExpireTrash(k) PROVE Following'
  <2>1. /\ UNCHANGED <<row, object, upload, mover>> /\ Moving = {} /\ row # "deleted"
        /\ trash' = [trash EXCEPT ![k] = NoPhoto]
        /\ newest' = IF k = "full" /\ newest = trash[k] /\ object[k] # newest THEN NoPhoto ELSE newest
    BY <1>3 DEF ExpireTrash
  <2>2. Moving' = {} /\ Uploading' = Uploading BY <2>1 DEF Moving, Uploading
  <2>3. Pending = {} /\ Pending' = {} BY <2>1, <2>2 DEF Pending
  <2>4. CASE row = "purged" BY <2>1, <2>2, <2>4 DEF Following, NoImages
  <2>5. CASE row # "purged"
    <3>1. row \in {"absent", "live"} BY <2>1, <2>5 DEF FollowInv
    <3>2. object["full"] = newest BY <2>3, <3>1 DEF Following, Living
    <3>3. newest' = newest BY <2>1, <3>2
    <3>4. trash'["full"] \in {NoPhoto, trash["full"]} BY <1>0, <2>1 DEF PicturesInv, PicturesTyped
    <3>5. trash["full"] \in {NoPhoto, newest} BY <2>5 DEF Following
    <3> QED BY <2>1, <2>2, <2>3, <3>1, <3>2, <3>3, <3>4, <3>5 DEF Following, Living
  <2> QED BY <2>4, <2>5
<1> QED BY <1>1, <1>2, <1>3

\* The invariant of histories holds throughout.
LEMMA FollowInvariant == PictureSpec => []FollowInv
<1>1. FollowInv /\ [PictureNext]_pictureVars => FollowInv'
  <2> SUFFICES ASSUME FollowInv, [PictureNext]_pictureVars PROVE FollowInv'
    OBVIOUS
  <2>0. PicturesInv BY DEF FollowInv
  <2>1. CASE UNCHANGED pictureVars
    BY <2>1 DEF pictureVars, FollowInv, PicturesInv, PicturesTyped, MovesAlone, NewestOnly, CopiedFirst,
       Following, Living, Buried, Pending, Moving, Uploading
  <2>2. CASE PictureNext
    <3>1. PicturesInv' BY <2>0, <2>2, UploadsKeep, StartsKeep, MovesKeep, RestKeeps DEF PictureNext
    <3>2. /\ faults' \in Nat /\ row' \in {"absent", "live", "deleted", "purged"}
          /\ faults # 0 => faults' # 0
          /\ mixed => mixed'
      BY <2>2, HistoriesGrow
    <3>3. SUFFICES ASSUME faults' = 0, ~mixed' PROVE Following' BY <3>1, <3>2 DEF FollowInv
    <3>4. faults' = faults /\ ~mixed /\ Following BY <3>2, <3>3 DEF FollowInv
    <3> QED BY <2>2, <3>3, <3>4, FollowUploads, FollowStarts, FollowMoves, FollowRest DEF PictureNext
  <2> QED BY <2>1, <2>2
<1> QED BY FollowBegins, <1>1, PTL DEF PictureSpec

\* When nothing failed and nothing was mixed up, the images end up where the
\* row says they belong.
THEOREM ImagesEndUpRight == PictureSpec => []ImagesFollowRow
<1>1. FollowInv => ImagesFollowRow
  <2> SUFFICES ASSUME FollowInv, Uploading = {}, Moving = {}, faults = 0, ~mixed
               PROVE  /\ row \in {"deleted", "purged"} => object = NoImages
                      /\ row = "live" => object["full"] = newest
    BY DEF ImagesFollowRow
  <2>1. Following /\ Pending = {} BY DEF FollowInv, Pending
  <2>2. object \in [ImageKey -> Photo \cup {NoPhoto}] BY DEF FollowInv, PicturesInv, PicturesTyped
  <2>3. row = "deleted" => object = NoImages
    <3>1. row = "deleted" => \A k \in ImageKey : object[k] = NoPhoto BY <2>1 DEF Following, Buried
    <3> QED BY <2>2, <3>1 DEF NoImages
  <2> QED BY <2>1, <2>3 DEF Following, Living
<1> QED BY <1>1, FollowInvariant, PTL

\* The lists of keys a goroutine may have left.
KeyLists == StashLeft \cup RestoreLeft \cup {<<>>}

\* They are parts of the list of all keys.
LEMMA ListsAreParts == KeyLists \subseteq {<<>>} \cup {SubSeq(AllKeys, i, j) : i, j \in 1 .. Len(AllKeys)}
<1>1. Len(AllKeys) = 3 BY DEF AllKeys
<1>2. AllKeys = SubSeq(AllKeys, 1, 3) BY DEF AllKeys
<1>3. <<"alias", "legacy">> = SubSeq(AllKeys, 2, 3) BY DEF AllKeys
<1>4. <<"legacy">> = SubSeq(AllKeys, 3, 3) BY DEF AllKeys
<1>5. UuidKeys = SubSeq(AllKeys, 1, 2) BY DEF AllKeys, UuidKeys
<1>6. <<"alias">> = SubSeq(AllKeys, 2, 2) BY DEF AllKeys
<1>7. 1 \in 1 .. 3 /\ 2 \in 1 .. 3 /\ 3 \in 1 .. 3 OBVIOUS
<1> QED BY <1>1, <1>2, <1>3, <1>4, <1>5, <1>6, <1>7 DEF KeyLists, StashLeft, RestoreLeft

\* What the types add to the invariant.
PicturesCount ==
    /\ upload \in [Upload -> {"idle", "put", "aliases", "done"}]
    /\ newest \in Photo \cup {NoPhoto}
    /\ faults \in 0 .. MaxFaults
    /\ \A g \in Mover : mover[g].keys \in KeyLists

\* Going on, a goroutine has one of the lists left.
LEMMA ListsGoOn ==
    ASSUME PicturesTyped, PicturesCount, NEW g \in Mover, mover[g].step # "idle", MoveOn(g)
    PROVE  \A h \in Mover : mover'[h].keys \in KeyLists
<1> DEFINE ks == mover[g].keys
<1>1. \A h \in Mover \ {g} : mover'[h] = mover[h] BY MovesOn
<1>2. ks \in StashLeft \cup RestoreLeft BY DEF PicturesTyped, PicturesCount, KeyLists
<1>3. mover[g] \in Move /\ mover \in [Mover -> Move] BY DEF PicturesTyped
<1>4. mover'[g].keys \in KeyLists
  <2>1. CASE Len(ks) = 1
    <3>1. mover'[g] = NoMove BY <1>3, <2>1 DEF MoveOn
    <3> QED BY <3>1 DEF NoMove, KeyLists
  <2>2. CASE Len(ks) # 1
    <3>1. mover'[g] = [mover[g] EXCEPT !.step = "copy", !.keys = Tail(mover[g].keys)]
      <4>1. mover' = [mover EXCEPT ![g] =
                IF Len(mover[g].keys) = 1 THEN NoMove
                ELSE [mover[g] EXCEPT !.step = "copy", !.keys = Tail(mover[g].keys)]]
        BY <1>3 DEF MoveOn, Move
      <4>2. mover'[g] = IF Len(mover[g].keys) = 1 THEN NoMove
                        ELSE [mover[g] EXCEPT !.step = "copy", !.keys = Tail(mover[g].keys)]
        BY <1>3, <4>1
      <4> QED BY <2>2, <4>2
    <3>2. mover'[g].keys = Tail(ks) BY <1>3, <3>1 DEF Move
    <3>3. Tail(ks) \in StashLeft \cup RestoreLeft BY <1>2, <2>2, KeysAhead
    <3> QED BY <3>2, <3>3 DEF KeyLists
  <2> QED BY <2>1, <2>2
<1> QED BY <1>1, <1>4 DEF PicturesCount

\* Every step keeps the types.
LEMMA CountsKeep ==
    ASSUME PicturesTyped, PicturesCount, PictureNext
    PROVE  PicturesCount'
<1>0. UuidKeys \in KeyLists /\ AllKeys \in KeyLists /\ NoMove.keys \in KeyLists
  BY DEF KeyLists, StashLeft, RestoreLeft, NoMove
<1>f. Fault => faults' \in 0 .. MaxFaults BY PicturesAssumption DEF Fault, PicturesCount
<1> HIDE DEF Fault
<1>1. ASSUME NEW u \in Upload, RegisterWithPhoto(u) \/ UploadPicture(u) PROVE PicturesCount'
  <2>1. mover' = mover
    BY <1>1 DEF RegisterWithPhoto, UploadPicture, BeginUpload, PutObject, DeleteAliases
  <2>2. faults' = faults \/ Fault
    BY <1>1 DEF RegisterWithPhoto, UploadPicture, BeginUpload, PutObject, DeleteAliases
  <2>3. newest' \in {newest, u}
    BY <1>1 DEF RegisterWithPhoto, UploadPicture, BeginUpload, PutObject, DeleteAliases, Stored
  <2>4. \E s \in {"put", "aliases", "done"} : upload' = [upload EXCEPT ![u] = s]
    BY <1>1 DEF RegisterWithPhoto, UploadPicture, BeginUpload, PutObject, DeleteAliases
  <2> QED BY <1>f, <2>1, <2>2, <2>3, <2>4 DEF PicturesCount, Photo
<1>2. ASSUME NEW g \in Mover, NEW kind \in {"stash", "restore"}, NEW keys \in KeyLists,
             Start(g, kind, keys), UNCHANGED <<upload, newest>>, faults' = faults \/ Fault
      PROVE  PicturesCount'
  <2>1. mover' = [mover EXCEPT ![g] = [kind |-> kind, step |-> "copy", keys |-> keys]]
    BY <1>2 DEF Start
  <2>2. \A h \in Mover : mover'[h].keys \in KeyLists
    BY <1>2, <2>1 DEF PicturesCount, PicturesTyped
  <2> QED BY <1>2, <1>f, <2>2 DEF PicturesCount
<1>3. ASSUME NEW g \in Mover, DeleteAndStash(g) \/ RestoreAndUnstash(g) PROVE PicturesCount'
  BY <1>0, <1>2, <1>3 DEF DeleteAndStash, RestoreAndUnstash, StashKeys
<1>4. ASSUME NEW g \in Mover, MoveImages(g) PROVE PicturesCount'
  <2>1. UNCHANGED <<upload, newest>> /\ (faults' = faults \/ Fault) /\ mover[g].step # "idle"
    BY <1>4 DEF MoveImages, CopyObject, DeleteSource
  <2>2. MoveOn(g) \/ mover' = [mover EXCEPT ![g].step = "delete"]
    BY <1>4 DEF MoveImages, CopyObject, DeleteSource
  <2>3. CASE MoveOn(g) BY <1>f, <2>1, <2>3, ListsGoOn DEF PicturesCount
  <2>4. CASE mover' = [mover EXCEPT ![g].step = "delete"]
    <3>1. \A h \in Mover : mover'[h].keys = mover[h].keys BY <2>4 DEF PicturesTyped, Move
    <3> QED BY <1>f, <2>1, <3>1 DEF PicturesCount
  <2> QED BY <2>2, <2>3, <2>4
<1>5. ASSUME Restart PROVE PicturesCount'
  <2>1. \A h \in Mover : mover'[h].keys \in KeyLists BY <1>0, <1>5 DEF Restart
  <2>2. upload' \in [Upload -> {"idle", "put", "aliases", "done"}]
    BY <1>5 DEF Restart, PicturesCount
  <2> QED BY <1>5, <1>f, <2>1, <2>2 DEF Restart, PicturesCount
<1>6. ASSUME NEW k \in ImageKey, ExpireTrash(k) PROVE PicturesCount'
  BY <1>6 DEF ExpireTrash, PicturesCount
<1>7. ASSUME PurgeProfileRow PROVE PicturesCount' BY <1>7 DEF PurgeProfileRow, PicturesCount
<1> QED BY <1>1, <1>3, <1>4, <1>5, <1>6, <1>7 DEF PictureNext

\* The variables of ProfilePictures keep their types, for any number of uploads
\* and goroutines.
THEOREM PicturesStayTyped == PictureSpec => []PictureTypeOK
<1>1. PictureInit => PicturesCount
  BY PicturesAssumption DEF PictureInit, PicturesCount, NoMove, Photo, KeyLists
<1>2. FollowInv /\ PicturesCount /\ [PictureNext]_pictureVars => PicturesCount'
  <2>1. FollowInv => PicturesTyped BY DEF FollowInv, PicturesInv
  <2>2. PicturesCount /\ UNCHANGED pictureVars => PicturesCount' BY DEF pictureVars, PicturesCount
  <2> QED BY <2>1, <2>2, CountsKeep
<1>3. FollowInv /\ PicturesCount => PictureTypeOK
  <2> SUFFICES ASSUME FollowInv, PicturesCount PROVE PictureTypeOK OBVIOUS
  <2>1. PicturesTyped /\ row \in {"absent", "live", "deleted", "purged"} BY DEF FollowInv, PicturesInv
  <2> DEFINE Lists == {<<>>} \cup {SubSeq(AllKeys, i, j) : i, j \in 1 .. Len(AllKeys)}
  <2>2. \A g \in Mover : mover[g].keys \in Lists BY ListsAreParts DEF PicturesCount
  <2> HIDE DEF Lists
  <2>3. mover \in [Mover -> [kind : {"none", "stash", "restore"}, step : {"idle", "copy", "delete"},
                             keys : Lists]]
    BY <2>1, <2>2 DEF PicturesTyped, Move
  <2> QED BY <2>1, <2>3 DEF PicturesCount, PictureTypeOK, PicturesTyped, Lists
<1> QED BY <1>1, <1>2, <1>3, FollowInvariant, PTL DEF PictureSpec

-----------------------------------------------------------------------------
(* Edits of a profile.                                                     *)

SaveRow == [step : {"idle", "tags", "store", "update", "replace"}, want : SUBSET TagName,
            left : SUBSET TagName, ids : TagMap, read : TagMap \cup {NoTags}]

\* What a map of names says of a tag has been so at some time.
Sound(map) == \A n \in TagName : map[n] \in Tag => n \in called[map[n]]

NamesCalled == \A t \in Tag : tagName[t] # NoTagName => tagName[t] \in called[t]

\* A save that resolved its names has a tag for each, and the row when it
\* comes to replace them.
SaveOK(s) ==
    /\ Sound(save[s].ids)
    /\ save[s].step = "store" => save[s].read \in TagMap /\ Sound(save[s].read)
    /\ save[s].step \in {"update", "replace"} => \A n \in save[s].want : save[s].ids[n] # NoTag
    /\ save[s].step = "replace" => writer = s

EditsInv ==
    /\ EditsTypeOK /\ NamesCalled
    /\ writer # NoSave => profile.row = "live"
    /\ cached # NoTags => Sound(cached)
    /\ \A s \in Save : SaveOK(s)

\* What the types say of the requests.
LEMMA EditsTyped ==
    ASSUME EditsTypeOK
    PROVE  save \in [Save -> SaveRow] /\ \A s \in Save : save[s] \in SaveRow
BY DEF EditsTypeOK, SaveRow

\* A request that has not begun.
LEMMA IdlingIsRow ==
    /\ Idling \in SaveRow /\ Idling.step = "idle"
    /\ \A n \in TagName : Idling.ids[n] \notin Tag
BY EditsAssumption DEF Idling, SaveRow, TagMap

\* The invariant holds at first: nothing is cached or under way.
LEMMA EditsBegin == EditsInit => EditsInv
<1> SUFFICES ASSUME EditsInit PROVE EditsInv OBVIOUS
<1>1. save \in [Save -> SaveRow] /\ \A s \in Save : save[s] = Idling BY IdlingIsRow DEF EditsInit
<1>2. called \in [Tag -> SUBSET TagName] /\ NamesCalled BY DEF EditsInit, NamesCalled
<1>3. EditsTypeOK
  <2>1. profile \in [row : {"live", "deleted", "gone"}, status : {"pending", "other"}] BY DEF EditsInit
  <2> QED BY <1>1, <1>2, <2>1 DEF EditsInit, EditsTypeOK, SaveRow
<1>4. \A s \in Save : SaveOK(s) BY <1>1, IdlingIsRow DEF SaveOK, Sound
<1> QED BY <1>2, <1>3, <1>4 DEF EditsInv, EditsInit

\* A step that writes one save, or none, and takes no name from a tag, leaves
\* the others as they are, as long as it leaves them the row.
LEMMA OtherSavesKeep ==
    ASSUME EditsInv, EditsTypeOK', NEW s \in Save, NEW r \in SaveRow,
           save' = [save EXCEPT ![s] = r],
           \A t \in Tag : called[t] \subseteq called'[t],
           \A o \in Save \ {s} : writer = o => writer' = o,
           SaveOK(s)'
    PROVE  \A o \in Save : SaveOK(o)'
<1> SUFFICES ASSUME NEW o \in Save, o # s PROVE SaveOK(o)' OBVIOUS
<1>1. save'[o] = save[o] /\ save[o] \in SaveRow BY EditsTyped DEF EditsInv
<1>2. SaveOK(o) BY DEF EditsInv
<1> QED BY <1>1, <1>2 DEF SaveOK, Sound

\* The steps of a save that leave the database alone.
LEMMA RequestsKeep ==
    ASSUME EditsInv, NEW s \in Save, NEW r \in SaveRow,
           save' = [save EXCEPT ![s] = r],
           UNCHANGED <<profile, tagged, tagName, called>>,
           text' \in Save \cup {NoSave},
           writer' \in Save \cup {NoSave}, writer' # NoSave => profile.row = "live",
           \A o \in Save \ {s} : writer = o => writer' = o,
           cached' \in TagMap \cup {NoTags}, cached' # NoTags => Sound(cached'),
           Sound(r.ids), r.step = "store" => r.read \in TagMap /\ Sound(r.read),
           r.step \in {"update", "replace"} => \A n \in r.want : r.ids[n] # NoTag,
           r.step = "replace" => writer' = s
    PROVE  EditsInv'
<1>1. save' \in [Save -> SaveRow] /\ save'[s] = r BY EditsTyped DEF EditsInv
<1>2. EditsTypeOK' BY <1>1 DEF EditsInv, EditsTypeOK, SaveRow
<1>3. SaveOK(s)' BY <1>1 DEF SaveOK, Sound
<1>4. \A o \in Save : SaveOK(o)'
  <2>1. \A t \in Tag : called[t] \subseteq called'[t] OBVIOUS
  <2> QED BY <1>2, <1>3, <2>1, OtherSavesKeep
<1>5. cached' # NoTags => Sound(cached)' BY DEF Sound
<1> QED BY <1>2, <1>4, <1>5 DEF EditsInv, NamesCalled

\* A save begins with no name resolved.
LEMMA BeginKeeps ==
    ASSUME EditsInv, NEW s \in Save, NEW by, NEW names \in SUBSET TagName, BeginSave(s, by, names)
    PROVE  EditsInv'
<1> DEFINE r == [Idling EXCEPT !.step = IF names = {} THEN "update" ELSE "tags",
                               !.want = names, !.left = names]
<1>1. r \in SaveRow /\ r.ids = Idling.ids /\ r.step \in {"update", "tags"}
      /\ r.want = names /\ (r.step = "update" => names = {})
  BY IdlingIsRow DEF SaveRow, Idling
<1>2. save' = [save EXCEPT ![s] = r] /\ UNCHANGED <<profile, text, tagged, writer, tagName, cached, called>>
  BY DEF BeginSave
<1> HIDE DEF r
<1>3. Sound(r.ids) BY <1>1, IdlingIsRow DEF Sound
<1>4. /\ text' \in Save \cup {NoSave} /\ writer' \in Save \cup {NoSave}
      /\ writer' # NoSave => profile.row = "live"
      /\ cached' \in TagMap \cup {NoTags} /\ (cached' # NoTags => Sound(cached'))
  BY <1>2 DEF EditsInv, EditsTypeOK
<1> QED BY <1>1, <1>2, <1>3, <1>4, RequestsKeep

\* A name resolved from a sound map.
LEMMA ResolveKeeps ==
    ASSUME EditsInv, NEW s \in Save, NEW n \in TagName, NEW map \in TagMap, Sound(map),
           Resolve(s, n, map),
           UNCHANGED <<profile, text, tagged, writer, tagName, called>>,
           cached' \in TagMap \cup {NoTags}, cached' # NoTags => Sound(cached')
    PROVE  EditsInv'
<1>1. save[s] \in SaveRow /\ SaveOK(s) BY EditsTyped DEF EditsInv
<1> DEFINE left == save[s].left \ {n}
           ids  == [save[s].ids EXCEPT ![n] = map[n]]
           step == StrictStep(left, ids, save[s].want)
           q    == [save[s] EXCEPT !.step = step, !.left = left, !.ids = ids, !.read = NoTags]
           r    == IF step = "idle" THEN Idling ELSE q
<1>2. ids \in TagMap /\ Sound(ids)
  <2>1. save[s].ids \in TagMap /\ map[n] \in Tag \cup {NoTag} BY <1>1 DEF SaveRow, TagMap
  <2>2. Sound(save[s].ids) BY <1>1 DEF SaveOK
  <2> QED BY <2>1, <2>2 DEF Sound, TagMap
<1>3. step \in {"tags", "idle", "update"} /\ (step = "update" => \A m \in save[s].want : ids[m] # NoTag)
  BY DEF StrictStep
<1>4. save' = [save EXCEPT ![s] = r] BY EditsTyped DEF Resolve, EditsInv
<1> HIDE DEF ids, step
<1>5. q \in SaveRow /\ q.step = step /\ q.ids = ids /\ q.want = save[s].want
  BY <1>1, <1>2, <1>3 DEF SaveRow
<1> HIDE DEF q
<1>6. r \in SaveRow BY <1>5, IdlingIsRow
<1>7. /\ Sound(r.ids) /\ r.step \in {"tags", "idle", "update"}
      /\ r.step = "update" => \A m \in r.want : r.ids[m] # NoTag
  <2>1. CASE step = "idle" BY <2>1, IdlingIsRow DEF Sound
  <2>2. CASE step # "idle" BY <2>2, <1>2, <1>3, <1>5
  <2> QED BY <2>1, <2>2
<1> HIDE DEF r
<1>8. /\ text' \in Save \cup {NoSave} /\ writer' \in Save \cup {NoSave}
      /\ writer' # NoSave => profile.row = "live"
  BY DEF EditsInv, EditsTypeOK
<1>9. \A o \in Save \ {s} : writer = o => writer' = o OBVIOUS
<1> QED BY <1>4, <1>6, <1>7, <1>8, <1>9, RequestsKeep

\* Hits, misses and what they store keep the invariant.
LEMMA TagsKeep ==
    ASSUME EditsInv, NEW s \in Save,
           RefreshTags(s) \/ \E n \in TagName : LookUpTag(s, n) \/ StoreTags(s, n)
    PROVE  EditsInv'
<1>1. save[s] \in SaveRow /\ SaveOK(s) /\ writer \in Save \cup {NoSave} /\ cached \in TagMap \cup {NoTags}
  BY EditsTyped DEF EditsInv, EditsTypeOK
<1>2. CASE RefreshTags(s)
  <2>1. FetchAllTags \in TagMap /\ Sound(FetchAllTags)
    <3>1. ASSUME NEW n \in TagName
          PROVE  /\ FetchAllTags[n] \in Tag \cup {NoTag}
                 /\ FetchAllTags[n] \in Tag => n \in called[FetchAllTags[n]]
      <4>1. CASE \E t \in Tag : tagName[t] = n
        <5>1. FetchAllTags[n] \in Tag /\ tagName[FetchAllTags[n]] = n BY <4>1 DEF FetchAllTags
        <5> QED BY <5>1, EditsAssumption DEF EditsInv, NamesCalled
      <4>2. CASE ~ \E t \in Tag : tagName[t] = n BY <4>2, EditsAssumption DEF FetchAllTags
      <4> QED BY <4>1, <4>2
    <3>2. FetchAllTags = [n \in TagName |-> FetchAllTags[n]] BY DEF FetchAllTags
    <3> QED BY <3>1, <3>2 DEF TagMap, Sound
  <2> DEFINE r == [save[s] EXCEPT !.step = "store", !.read = FetchAllTags]
  <2>2. r \in SaveRow /\ r.step = "store" /\ r.read = FetchAllTags /\ r.ids = save[s].ids
    BY <1>1, <2>1 DEF SaveRow
  <2>3. save' = [save EXCEPT ![s] = r] /\ UNCHANGED <<profile, text, tagged, writer, tagName, cached, called>>
    BY <1>2, EditsTyped DEF RefreshTags, EditsInv
  <2> HIDE DEF r
  <2>4. Sound(r.ids) /\ Sound(r.read) BY <1>1, <2>1, <2>2 DEF SaveOK
  <2>5. /\ text' \in Save \cup {NoSave} /\ writer' \in Save \cup {NoSave}
        /\ writer' # NoSave => profile.row = "live"
        /\ cached' \in TagMap \cup {NoTags} /\ (cached' # NoTags => Sound(cached'))
    BY <2>3 DEF EditsInv, EditsTypeOK
  <2>6. \A o \in Save \ {s} : writer = o => writer' = o BY <2>3
  <2>7. r.step = "store" => r.read \in TagMap /\ Sound(r.read) BY <2>1, <2>2, <2>4
  <2> QED BY <2>2, <2>3, <2>4, <2>5, <2>6, <2>7, RequestsKeep
<1>3. ASSUME NEW n \in TagName, LookUpTag(s, n) PROVE EditsInv'
  <2>1. /\ cached # NoTags /\ Resolve(s, n, cached)
        /\ UNCHANGED <<profile, text, tagged, writer, tagName, called>> /\ cached' = cached
    BY <1>3 DEF LookUpTag
  <2>2. cached \in TagMap /\ Sound(cached) BY <1>1, <2>1 DEF EditsInv
  <2> QED BY <1>1, <2>1, <2>2, ResolveKeeps
<1>4. ASSUME NEW n \in TagName, StoreTags(s, n) PROVE EditsInv'
  <2>1. /\ save[s].step = "store" /\ Resolve(s, n, save[s].read) /\ cached' = save[s].read
        /\ UNCHANGED <<profile, text, tagged, writer, tagName, called>>
    BY <1>4 DEF StoreTags
  <2>2. save[s].read \in TagMap /\ Sound(save[s].read) BY <1>1, <2>1 DEF SaveOK
  <2> QED BY <2>1, <2>2, ResolveKeeps
<1> QED BY <1>2, <1>3, <1>4
\* The transaction keeps it, whether it commits or not.
LEMMA WritesKeep ==
    ASSUME EditsInv, NEW s \in Save, UpdateRow(s) \/ ReplaceTags(s) \/ AbandonSave(s)
    PROVE  EditsInv'
<1>1. save[s] \in SaveRow /\ SaveOK(s) /\ writer \in Save \cup {NoSave} BY EditsTyped DEF EditsInv, EditsTypeOK
<1>2. Sound(Idling.ids) /\ Idling \in SaveRow /\ Idling.step = "idle" BY IdlingIsRow DEF Sound
<1>3. CASE UpdateRow(s)
  <2>1. /\ save[s].step = "update" /\ writer = NoSave
        /\ UNCHANGED <<profile, text, tagged, tagName, cached, called>>
    BY <1>3 DEF UpdateRow
  <2>2. /\ text' \in Save \cup {NoSave}
        /\ cached' \in TagMap \cup {NoTags} /\ (cached' # NoTags => Sound(cached'))
    BY <2>1 DEF EditsInv, EditsTypeOK
  <2>3. \A o \in Save \ {s} : writer # o BY <2>1, EditsAssumption
  <2>4. CASE Writable
    <3> DEFINE r == [save[s] EXCEPT !.step = "replace"]
    <3>1. r \in SaveRow /\ r.step = "replace" /\ r.ids = save[s].ids /\ r.want = save[s].want
      BY <1>1 DEF SaveRow
    <3>2. save' = [save EXCEPT ![s] = r] /\ writer' = s /\ profile.row = "live"
      BY <1>3, <2>4, EditsTyped DEF UpdateRow, Writable, EditsInv
    <3> HIDE DEF r
    <3>3. Sound(r.ids) /\ \A n \in r.want : r.ids[n] # NoTag BY <1>1, <2>1, <3>1 DEF SaveOK
    <3> QED BY <2>1, <2>2, <2>3, <3>1, <3>2, <3>3, RequestsKeep
  <2>5. CASE ~Writable
    <3>1. save' = [save EXCEPT ![s] = Idling] /\ writer' = NoSave BY <1>3, <2>1, <2>5 DEF UpdateRow
    <3> QED BY <1>2, <2>1, <2>2, <2>3, <3>1, RequestsKeep
  <2> QED BY <2>4, <2>5
<1>4. CASE AbandonSave(s)
  <2>1. /\ save' = [save EXCEPT ![s] = Idling] /\ writer' = IF writer = s THEN NoSave ELSE writer
        /\ UNCHANGED <<profile, text, tagged, tagName, cached, called>>
    BY <1>4 DEF AbandonSave
  <2>2. /\ text' \in Save \cup {NoSave}
        /\ writer' \in Save \cup {NoSave} /\ (writer' # NoSave => profile.row = "live")
        /\ cached' \in TagMap \cup {NoTags} /\ (cached' # NoTags => Sound(cached'))
    BY <1>1, <2>1 DEF EditsInv, EditsTypeOK
  <2>3. \A o \in Save \ {s} : writer = o => writer' = o BY <2>1
  <2> QED BY <1>2, <2>1, <2>2, <2>3, RequestsKeep
<1>5. CASE ReplaceTags(s)
  <2>1. /\ save' = [save EXCEPT ![s] = Idling] /\ writer' = NoSave /\ save[s].step = "replace"
        /\ UNCHANGED <<profile, tagName, cached, called>>
    BY <1>5 DEF ReplaceTags
  <2>2. writer = s BY <1>1, <2>1 DEF SaveOK
  <2>3. text' \in Save \cup {NoSave} /\ tagged' \subseteq Tag
    <3>1. SavedIds(s) \subseteq Tag BY <1>1, <2>1 DEF SavedIds, SaveOK, SaveRow, TagMap
    <3> QED BY <1>5, <3>1 DEF ReplaceTags, EditsInv, EditsTypeOK
  <2>4. save' \in [Save -> SaveRow] /\ save'[s] = Idling BY <1>2, <2>1, EditsTyped DEF EditsInv
  <2>5. EditsTypeOK' BY <2>1, <2>3, <2>4 DEF EditsInv, EditsTypeOK, SaveRow
  <2>6. SaveOK(s)' BY <1>2, <2>4, IdlingIsRow DEF SaveOK, Sound
  <2>7. \A o \in Save : SaveOK(o)'
    <3>1. \A o \in Save \ {s} : writer = o => writer' = o BY <2>2
    <3>2. \A t \in Tag : called[t] \subseteq called'[t] BY <2>1
    <3> QED BY <1>2, <2>1, <2>5, <2>6, <3>1, <3>2, OtherSavesKeep
  <2>8. NamesCalled' /\ (cached' # NoTags => Sound(cached)') BY <2>1 DEF EditsInv, NamesCalled, Sound
  <2> QED BY <2>1, <2>5, <2>7, <2>8 DEF EditsInv
<1> QED BY <1>3, <1>4, <1>5

\* Moderation, migrations and the cache's expiry keep it.
LEMMA WorldKeeps ==
    ASSUME EditsInv,
           \/ CacheExpires
           \/ \E p \in [row : {"live", "deleted", "gone"}, status : {"pending", "other"}] : ChangeProfile(p)
           \/ \E t \in Tag, n \in TagName \cup {NoTagName} : MigrateTag(t, n)
    PROVE  EditsInv'
<1>1. CASE CacheExpires
  <2>1. cached' = NoTags /\ UNCHANGED <<profile, text, tagged, writer, tagName, save, called>>
    BY <1>1 DEF CacheExpires
  <2>2. EditsTypeOK' BY <2>1 DEF EditsInv, EditsTypeOK
  <2>3. \A s \in Save : SaveOK(s)' BY <2>1 DEF EditsInv, SaveOK, Sound
  <2> QED BY <2>1, <2>2, <2>3 DEF EditsInv, NamesCalled
<1>2. ASSUME NEW p \in [row : {"live", "deleted", "gone"}, status : {"pending", "other"}], ChangeProfile(p)
      PROVE  EditsInv'
  <2>1. /\ writer = NoSave /\ profile' = p /\ tagged' = IF p.row = "gone" THEN {} ELSE tagged
        /\ UNCHANGED <<text, writer, tagName, cached, save, called>>
    BY <1>2 DEF ChangeProfile
  <2>2. EditsTypeOK' BY <2>1 DEF EditsInv, EditsTypeOK
  <2>3. \A s \in Save : SaveOK(s)' BY <2>1 DEF EditsInv, SaveOK, Sound
  <2>4. cached' # NoTags => Sound(cached)' BY <2>1 DEF EditsInv, Sound
  <2> QED BY <2>1, <2>2, <2>3, <2>4 DEF EditsInv, NamesCalled
<1>3. ASSUME NEW t \in Tag, NEW n \in TagName \cup {NoTagName}, MigrateTag(t, n) PROVE EditsInv'
  <2>1. /\ tagName' = [tagName EXCEPT ![t] = n] /\ tagged' \subseteq tagged
        /\ called' = [called EXCEPT ![t] = called[t] \cup ({n} \ {NoTagName})]
        /\ UNCHANGED <<profile, text, writer, cached, save>>
    BY <1>3 DEF MigrateTag
  <2>2. called \in [Tag -> SUBSET TagName] /\ tagName \in [Tag -> TagName \cup {NoTagName}]
    BY DEF EditsInv, EditsTypeOK
  <2>3. /\ called' \in [Tag -> SUBSET TagName] /\ tagName' \in [Tag -> TagName \cup {NoTagName}]
        /\ \A u \in Tag : called[u] \subseteq called'[u]
    BY <2>1, <2>2
  <2>4. EditsTypeOK' BY <2>1, <2>3 DEF EditsInv, EditsTypeOK
  <2>5. NamesCalled' BY <2>1, <2>2 DEF EditsInv, NamesCalled
  <2>6. \A s \in Save : SaveOK(s)' BY <2>1, <2>3 DEF EditsInv, SaveOK, Sound
  <2>7. cached' # NoTags => Sound(cached)' BY <2>1, <2>3 DEF EditsInv, Sound
  <2> QED BY <2>1, <2>4, <2>5, <2>6, <2>7 DEF EditsInv
<1> QED BY <1>1, <1>2, <1>3

\* A save that lands has a tag of its own for each name.
LEMMA SaveLands ==
    ASSUME EditsInv, NEW s \in Save, ReplaceTags(s), text' # text \/ ~(tagged' \subseteq tagged)
    PROVE  /\ profile.row = "live" /\ text' = s /\ save[s].step = "replace"
           /\ \A t \in tagged' : tagName[t] # NoTagName
           /\ \E f \in [save[s].want -> tagged'] :
                 /\ \A n \in save[s].want : n \in called[f[n]]
                 /\ \A t \in tagged' : Cardinality({n \in save[s].want : f[n] = t}) = 1
<1>1. save[s] \in SaveRow /\ SaveOK(s) BY EditsTyped DEF EditsInv
<1> DEFINE want == save[s].want
           ids == save[s].ids
<1>2. /\ save[s].step = "replace" /\ text' = s /\ tagged' = SavedIds(s)
      /\ \A t \in SavedIds(s) : tagName[t] # NoTagName
      /\ Cardinality(SavedIds(s)) = Cardinality(want)
  BY DEF ReplaceTags
<1>3. writer = s /\ profile.row = "live" BY <1>1, <1>2, EditsAssumption DEF SaveOK, EditsInv
<1>4. want \in SUBSET TagName /\ ids \in TagMap BY <1>1 DEF SaveRow
<1>5. \A n \in want : ids[n] \in Tag /\ n \in called[ids[n]]
  BY <1>1, <1>2, <1>4 DEF SaveOK, Sound, TagMap
<1>6. tagged' = {ids[n] : n \in want} /\ Cardinality(tagged') = Cardinality(want) BY <1>2 DEF SavedIds
<1> HIDE DEF want, ids
<1> DEFINE f == [n \in want |-> ids[n]]
<1>7. f \in Surjection(want, tagged') BY <1>6 DEF Surjection
<1>8. IsFiniteSet(want) BY <1>4, EditsAssumption, FS_Subset
<1>9. f \in Injection(want, tagged') BY <1>6, <1>7, <1>8, FS_SurjSameCardinalityImpliesInj
<1>10. f \in [want -> tagged'] /\ \A n \in want : n \in called[f[n]] BY <1>5, <1>6
<1>11. ASSUME NEW t \in tagged' PROVE Cardinality({n \in want : f[n] = t}) = 1
  <2>1. PICK n \in want : f[n] = t BY <1>6
  <2> HIDE DEF f
  <2>2. \A m \in want : f[m] = t => m = n BY <1>9, <2>1 DEF Injection, IsInjective
  <2>3. {m \in want : f[m] = t} = {n} BY <2>1, <2>2
  <2> QED BY <2>3, FS_Singleton
<1>12. \E g \in [save[s].want -> tagged'] :
          /\ \A n \in save[s].want : n \in called[g[n]]
          /\ \A t \in tagged' : Cardinality({n \in save[s].want : g[n] = t}) = 1
  <2>1. f \in [save[s].want -> tagged'] /\ \A n \in save[s].want : n \in called[f[n]]
    BY <1>10 DEF want
  <2>2. ASSUME NEW t \in tagged' PROVE Cardinality({n \in save[s].want : f[n] = t}) = 1
    BY <1>11, <2>2 DEF want
  <2> HIDE DEF f
  <2> QED BY <2>1, <2>2
<1>13. \A t \in tagged' : tagName[t] # NoTagName BY <1>2
<1> QED BY <1>2, <1>3, <1>12, <1>13, Zenon

\* The invariant of the saves holds throughout.
LEMMA EditsInvariant == EditsSpec => []EditsInv
<1>1. EditsInv /\ [EditsNext]_editVars => EditsInv'
  <2> SUFFICES ASSUME EditsInv, [EditsNext]_editVars PROVE EditsInv'
    OBVIOUS
  <2>1. CASE UNCHANGED editVars
    <3>1. UNCHANGED <<profile, text, tagged, writer, tagName, cached, save, called>> BY <2>1 DEF editVars
    <3> QED BY <3>1 DEF EditsInv, EditsTypeOK, NamesCalled, SaveOK, Sound
  <2>2. CASE EditsNext
    <3>1. ASSUME NEW s \in Save, UpdateProfile(s) \/ AbandonSave(s) PROVE EditsInv'
      BY <3>1, BeginKeeps, TagsKeep, WritesKeep DEF UpdateProfile
    <3>2. ASSUME NEW r \in {"live", "deleted", "gone"}, NEW st \in {"pending", "other"},
                 ChangeProfile([row |-> r, status |-> st])
          PROVE  EditsInv'
      BY <3>2, WorldKeeps
    <3> QED BY <2>2, <3>1, <3>2, WorldKeeps DEF EditsNext
  <2> QED BY <2>1, <2>2
<1> QED BY EditsBegin, <1>1, PTL DEF EditsSpec

\* Saves land whole, for any number of them, of names and of tags.
THEOREM SavesLandWhole == EditsSpec => SaveIsWhole
<1> DEFINE Lands(s) ==
      /\ profile.row = "live" /\ text' = s /\ save[s].step = "replace"
      /\ \A t \in tagged' : tagName[t] # NoTagName
      /\ \E f \in [save[s].want -> tagged'] :
            /\ \A n \in save[s].want : n \in called[f[n]]
            /\ \A t \in tagged' : Cardinality({n \in save[s].want : f[n] = t}) = 1
<1>2. EditsInv /\ [EditsNext]_editVars /\ (text' # text \/ ~(tagged' \subseteq tagged)) =>
          \E s \in Save : Lands(s)
  <2> SUFFICES ASSUME EditsInv, [EditsNext]_editVars, text' # text \/ ~(tagged' \subseteq tagged)
               PROVE  \E s \in Save : Lands(s)
    OBVIOUS
  <2>1. CASE \E s \in Save : ReplaceTags(s) BY <2>1, SaveLands
  <2>2. CASE ~ \E s \in Save : ReplaceTags(s)
    <3>1. \A s \in Save : UpdateProfile(s) \/ AbandonSave(s) => UNCHANGED <<text, tagged>>
      BY <2>2 DEF UpdateProfile, BeginSave, LookUpTag, StoreTags, RefreshTags, UpdateRow, AbandonSave
    <3>2. \A p : ChangeProfile(p) => text' = text /\ tagged' \subseteq tagged BY DEF ChangeProfile
    <3>3. \A t \in Tag, n \in TagName \cup {NoTagName} :
              MigrateTag(t, n) => text' = text /\ tagged' \subseteq tagged
      BY DEF MigrateTag
    <3>4. CacheExpires \/ UNCHANGED editVars => UNCHANGED <<text, tagged>> BY DEF CacheExpires, editVars
    <3> QED BY <3>1, <3>2, <3>3, <3>4 DEF EditsNext
  <2> QED BY <2>1, <2>2
<1>3. EditsInv /\ [EditsNext]_editVars =>
          [text' # text \/ ~(tagged' \subseteq tagged) =>
            /\ profile.row = "live"
            /\ \E s \in Save :
                  /\ text' = s /\ save[s].step = "replace"
                  /\ \A t \in tagged' : tagName[t] # NoTagName
                  /\ \E f \in [save[s].want -> tagged'] :
                        /\ \A n \in save[s].want : n \in called[f[n]]
                        /\ \A t \in tagged' : Cardinality({n \in save[s].want : f[n] = t}) = 1]_editVars
  BY <1>2
<1> QED BY <1>3, EditsInvariant, PTL DEF EditsSpec, SaveIsWhole
================================================================================
