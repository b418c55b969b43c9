--------------------------- MODULE MCServices_proofs ---------------------------
(***************************************************************************)
(* What TLC explores in the runs of MCServices are behaviours of the       *)
(* components: each part of the composition takes steps of its component   *)
(* and leaves the others alone.  What is proved of the components holds    *)
(* of the composition for instances of any size.                           *)
(***************************************************************************)
EXTENDS MCServices, SlugRegistry_proofs, LoginSession_proofs, CronJobs_proofs,
        Services_proofs

\* Whatever part it explores and however it is bounded, the composition starts
\* every component where that component starts and moves it by its own steps.
THEOREM PartsAreComponents ==
    Spec => /\ SlugSpec /\ LoginSpec /\ PictureSpec /\ EditsSpec
            /\ CronSpec /\ LimitSpec /\ ShutdownSpec
            /\ SlotInit /\ [][SlotNext]_slotVars
<1>1. Init => /\ SlugInit /\ LoginInit /\ PictureInit /\ EditsInit
              /\ CronInit /\ LimitInit /\ SlotInit /\ ShutdownInit
  BY DEF Init
<1>2. [Next]_servicesVars =>
          /\ [SlugNext]_slugVars /\ [LoginNext]_loginVars /\ [PictureNext]_pictureVars
          /\ [EditsNext]_editVars /\ [CronNext]_cronVars /\ [LimitNext]_limitVars
          /\ [SlotNext]_slotVars /\ [ShutdownNext]_shutdownVars
  BY DEF Next, servicesVars, Slugs, Logins, Pictures, Edits, Cron, Limits, Slots, Shutdown
<1> QED
  BY <1>1, <1>2, PTL DEF Spec, SlugSpec, LoginSpec, PictureSpec, EditsSpec, CronSpec,
     LimitSpec, ShutdownSpec

\* Every variable of every component keeps its type.
THEOREM TypesStayOK == Spec => []TypesOK
<1>1. CronInv => CronTypeOK BY DEF CronInv
<1>2. LimitInv => LimitTypeOK BY DEF LimitInv
<1>3. SlotInv => SlotTypeOK BY DEF SlotInv
<1>4. ShutdownInv => ShutdownTypeOK BY DEF ShutdownInv
<1>5. EditsInv => EditsTypeOK BY DEF EditsInv
<1>6. LimitSpec => []LimitInv BY LimitInitInv, LimitNextInv, PTL DEF LimitSpec
<1>7. ShutdownSpec => []ShutdownInv BY ShutdownInitInv, ShutdownNextInv, PTL DEF ShutdownSpec
<1>8. (/\ SlugTypeOK /\ LoginTypeOK /\ PictureTypeOK /\ EditsTypeOK
       /\ CronTypeOK /\ LimitTypeOK /\ SlotTypeOK /\ ShutdownTypeOK) => TypesOK
  BY DEF TypesOK
<1> QED
  BY <1>1, <1>2, <1>3, <1>4, <1>5, <1>6, <1>7, <1>8, PartsAreComponents, SlugsTyped,
     LoginsTyped, PicturesStayTyped, EditsInvariant, CronInvariant, SlotInvariant, PTL
================================================================================
