------------------------- MODULE RasterFrames_proofs -------------------------
(***************************************************************************)
(* Proofs about the frame loop, for every number of surfaces, frame slots, *)
(* swapchain images, passes and frames.                                    *)
(***************************************************************************)
EXTENDS RasterFrames, SequenceTheorems, TLAPS

(* The inductive invariant of the safety properties.  It holds when every     *)
(* execution order begins with a render pass: only then does a frame go       *)
(* through the timeline wait before anything is recorded.                     *)

FirstPassRenders == \A o \in PassOrders : o # << >> => o[1] = "render"

\* Where the app thread is within Execute.
PassOrderKept ==
    /\ order = << >> \/ order \in PassOrders
    /\ pc \in {"app", "update", "execute"} => passIndex = 0
    /\ pc \in {"app", "update"} => todo = {}
    /\ pc \in {"graph", "first", "wait", "acquire", "record"} =>
         passIndex > 0 /\ target \in live
    /\ pc \in {"first", "wait", "acquire"} => passIndex = 1
    /\ pc = "update" => target \in live

\* A job in flight carries a value its slot's timeline has still to reach, and
\* is the only one of its slot.
JobsAccounted ==
    /\ \A j \in jobs :
         /\ j.surface \in live
         /\ timeline[j.surface][j.slot] < j.value
         /\ j.value <= timelineValue[j.surface][j.slot]
    /\ \A j, k \in jobs : j.surface = k.surface /\ j.slot = k.slot => j = k

\* A timeline never passes the last value asked of it, and is behind while the
\* command buffer records or the acquire semaphore is in use.
TimelineBehind ==
    \A s \in Surfaces, f \in Slots :
        /\ timeline[s][f] <= timelineValue[s][f]
        /\ commandBuffer[s][f] = "recording" \/ imageAvailable[s][f] # "idle" =>
             timeline[s][f] < timelineValue[s][f]

WaitCoversSlot ==
    /\ pc = "acquire" =>
         timelineValue[target][currentFrame] <= timeline[target][currentFrame]
    /\ (pc = "record" \/ (pc = "graph" /\ passIndex > 1)) /\ frameAcquired[target] =>
         commandBuffer[target][currentFrame] = "recording"

\* The section that belongs to slot currentFrame: between frames it is the one
\* the next BeginFrame moves to.
FrameSection == IF pc \in {"app", "update"} THEN NextSlot(section) ELSE section

Lag(a, b) == IF b <= a THEN a - b ELSE a + FrameCount - b

\* Every job in flight pairs a slot with a section as the present frame does.
RingsInStep ==
    \A j \in jobs : Lag(j.section, j.slot) = Lag(FrameSection, currentFrame)

\* All of it: what the executing frame, the GPU's jobs, the semaphores and the
\* two rings have to agree on at every step of the frame loop.
IInv ==
    /\ TypeOK
    /\ PassOrderKept
    /\ JobsAccounted
    /\ TimelineBehind
    /\ CommandBufferFree
    /\ WaitCoversSlot
    /\ RingsInStep

-----------------------------------------------------------------------------
(* The slot after a slot, without the remainder. *)
LEMMA NextSlotValue ==
    ASSUME NEW i \in Slots
    PROVE  NextSlot(i) = IF i = FrameCount - 1 THEN 0 ELSE i + 1
BY FrameCountAssumption DEF NextSlot, Slots

(* The slot after a slot is a slot. *)
LEMMA NextSlotType ==
    ASSUME NEW i \in Slots
    PROVE  NextSlot(i) \in Slots
BY NextSlotValue, FrameCountAssumption DEF Slots

(* Advancing both rings keeps their distance. *)
LEMMA LagKept ==
    ASSUME NEW a \in Slots, NEW b \in Slots
    PROVE  Lag(NextSlot(a), NextSlot(b)) = Lag(a, b)
BY NextSlotValue, FrameCountAssumption DEF Slots, Lag

(* At one distance from a section there is one slot. *)
LEMMA LagInjective ==
    ASSUME NEW a \in Slots, NEW b \in Slots, NEW c \in Slots, Lag(a, b) = Lag(a, c)
    PROVE  b = c
BY FrameCountAssumption DEF Slots, Lag

(* 0 is a slot: there is at least one. *)
LEMMA SlotZero == 0 \in Slots
BY FrameCountAssumption DEF Slots

(* Orders of passes are sequences; one that is not empty has a first pass. *)
LEMMA OrderLength ==
    ASSUME NEW o \in Seq({"render", "compute"})
    PROVE  Len(o) \in Nat /\ (o # << >> => 1 \in 1 .. Len(o))
BY LenProperties, EmptySeq

LEMMA EmptyOrder == << >> \in Seq({"render", "compute"}) /\ Len(<< >>) = 0
BY EmptySeq

(* The next pass, or the end of the loop, within the order. *)
LEMMA NextPassType ==
    ASSUME order \in Seq({"render", "compute"}), passIndex \in 1 .. Len(order),
           target \in Surfaces, NextPass, order' = order
    PROVE  /\ pc' \in {"execute", "graph"}
           /\ passIndex' \in 0 .. Len(order)
           /\ target' \in Surfaces \cup {NoSurface}
           /\ pc' = "execute" => passIndex' = 0
           /\ pc' = "graph" => passIndex' = passIndex + 1 /\ target' = target
BY DEF NextPass, IsLastPass

(* A replaced swapchain leaves the pending presents well formed. *)
LEMMA PresentsOfReplacedChain ==
    ASSUME NEW s, NEW n, presents \subseteq Presents, ReplaceSwapchain(s, n)
    PROVE  presents' \subseteq Presents
<1> SUFFICES ASSUME NEW p \in presents
             PROVE  (IF p.surface = s THEN [p EXCEPT !.image = NoImage] ELSE p) \in Presents
  BY DEF ReplaceSwapchain
<1> QED BY DEF Presents, NoImage

(* The variables hold values of their types initially. *)
LEMMA TypeInit == Init => TypeOK
<1> SUFFICES ASSUME Init PROVE TypeOK
  OBVIOUS
<1>1. AppTypes BY SlotZero, EmptyOrder DEF Init, AppTypes
<1>2. ChainTypes BY DEF Init, ChainTypes
<1>3. FrameTypes BY DEF Init, FrameTypes, PerSlot, NoImage
<1>4. GpuTypes BY DEF Init, GpuTypes, PerSlot
<1>5. QED BY <1>1, <1>2, <1>3, <1>4 DEF TypeOK

(* Every step keeps the types; the app thread stays within the frame's order. *)
LEMMA TypeStep == TypeOK /\ PassOrderKept /\ [Next]_vars => TypeOK'
<1> SUFFICES ASSUME TypeOK, PassOrderKept, [Next]_vars PROVE TypeOK'
  OBVIOUS
<1>0. AppTypes /\ ChainTypes /\ FrameTypes /\ GpuTypes
  BY DEF TypeOK
<1>1. ASSUME NEW s \in Surfaces, CreateSurface(s) PROVE TypeOK'
  <2>1. AppTypes' BY <1>0, <1>1 DEF CreateSurface, appVars, ringVars, AppTypes
  <2>2. ChainTypes' BY <1>0, <1>1, ImageCountsAssumption DEF CreateSurface, ReplaceSwapchain, ChainTypes
  <2>3. FrameTypes' BY <1>0, <1>1 DEF CreateSurface, PerSlot, NoImage, FrameTypes
  <2>4. GpuTypes' BY <1>0, <1>1, PresentsOfReplacedChain DEF CreateSurface, PerSlot, GpuTypes
  <2>5. QED BY <2>1, <2>2, <2>3, <2>4 DEF TypeOK
<1>2. ASSUME NEW s \in Surfaces, RemoveSurface(s) PROVE TypeOK'
  <2>1. AppTypes' BY <1>0, <1>2 DEF RemoveSurface, PassOrderKept, appVars, ringVars, AppTypes
  <2>2. ChainTypes' BY <1>0, <1>2 DEF RemoveSurface, ChainTypes
  <2>3. FrameTypes' BY <1>0, <1>2 DEF RemoveSurface, frameVars, FrameTypes
  <2>4. GpuTypes' BY <1>0, <1>2 DEF RemoveSurface, GpuTypes
  <2>5. QED BY <2>1, <2>2, <2>3, <2>4 DEF TypeOK
<1>3. ASSUME NEW s \in Surfaces, UpdateSurface(s) PROVE TypeOK'
  <2>1. AppTypes' BY <1>0, <1>3 DEF UpdateSurface, ringVars, chainVars, AppTypes
  <2>2. ChainTypes' BY <1>0, <1>3 DEF UpdateSurface, chainVars, windowVars, ChainTypes
  <2>3. FrameTypes' BY <1>0, <1>3 DEF UpdateSurface, frameVars, FrameTypes
  <2>4. GpuTypes' BY <1>0, <1>3 DEF UpdateSurface, gpuVars, GpuTypes
  <2>5. QED BY <2>1, <2>2, <2>3, <2>4 DEF TypeOK
<1>4. ASSUME FinishUpdateSurface PROVE TypeOK'
  <2>1. AppTypes' BY <1>0, <1>4 DEF FinishUpdateSurface, ringVars, PassOrderKept, AppTypes
  <2>2. ChainTypes'
    BY <1>0, <1>4, ImageCountsAssumption
       DEF FinishUpdateSurface, ReplaceSwapchain, PassOrderKept, AppTypes, ChainTypes
  <2>3. FrameTypes' BY <1>0, <1>4 DEF FinishUpdateSurface, frameVars, FrameTypes
  <2>4. GpuTypes' BY <1>0, <1>4, PresentsOfReplacedChain DEF FinishUpdateSurface, GpuTypes
  <2>5. QED BY <2>1, <2>2, <2>3, <2>4 DEF TypeOK
<1>5. ASSUME NEW o \in PassOrders, NEW targets \in SUBSET live, BeginFrame(o, targets) PROVE TypeOK'
  <2>1. AppTypes'
    BY <1>0, <1>5, PassOrdersAssumption, NextSlotType, OrderLength
       DEF BeginFrame, chainVars, PassOrderKept, AppTypes
  <2>2. ChainTypes' BY <1>0, <1>5 DEF BeginFrame, chainVars, windowVars, ChainTypes
  <2>3. FrameTypes' BY <1>0, <1>5 DEF BeginFrame, frameVars, FrameTypes
  <2>4. GpuTypes' BY <1>0, <1>5 DEF BeginFrame, gpuVars, GpuTypes
  <2>5. QED BY <2>1, <2>2, <2>3, <2>4 DEF TypeOK
<1>6. ASSUME NEW s \in Surfaces, ExecuteSurface(s) PROVE TypeOK'
  <2>1. AppTypes' BY <1>0, <1>6, OrderLength DEF ExecuteSurface, ringVars, chainVars, AppTypes
  <2>2. ChainTypes' BY <1>0, <1>6 DEF ExecuteSurface, chainVars, windowVars, ChainTypes
  <2>3. FrameTypes' BY <1>0, <1>6 DEF ExecuteSurface, frameVars, FrameTypes
  <2>4. GpuTypes' BY <1>0, <1>6 DEF ExecuteSurface, gpuVars, GpuTypes
  <2>5. QED BY <2>1, <2>2, <2>3, <2>4 DEF TypeOK
<1>7. ASSUME SkipComputePass PROVE TypeOK'
  <2>1. AppTypes'
    BY <1>0, <1>7, NextPassType
       DEF SkipComputePass, PassOrderKept, ringVars, chainVars, AppTypes
  <2>2. ChainTypes' BY <1>0, <1>7 DEF SkipComputePass, chainVars, windowVars, ChainTypes
  <2>3. FrameTypes' BY <1>0, <1>7 DEF SkipComputePass, frameVars, FrameTypes
  <2>4. GpuTypes' BY <1>0, <1>7 DEF SkipComputePass, gpuVars, GpuTypes
  <2>5. QED BY <2>1, <2>2, <2>3, <2>4 DEF TypeOK
<1>8. ASSUME RunPassCallback PROVE TypeOK'
  <2>1. AppTypes' BY <1>0, <1>8 DEF RunPassCallback, PassOrderKept, ringVars, AppTypes
  <2>2. ChainTypes' BY <1>0, <1>8 DEF RunPassCallback, PassOrderKept, AppTypes, windowVars, ChainTypes
  <2>3. FrameTypes' BY <1>0, <1>8 DEF RunPassCallback, frameVars, FrameTypes
  <2>4. GpuTypes' BY <1>0, <1>8 DEF RunPassCallback, gpuVars, GpuTypes
  <2>5. QED BY <2>1, <2>2, <2>3, <2>4 DEF TypeOK
<1>9. ASSUME KeepSwapchain PROVE TypeOK'
  <2>1. AppTypes' BY <1>0, <1>9 DEF KeepSwapchain, ringVars, chainVars, AppTypes
  <2>2. ChainTypes' BY <1>0, <1>9 DEF KeepSwapchain, chainVars, windowVars, ChainTypes
  <2>3. FrameTypes' BY <1>0, <1>9 DEF KeepSwapchain, frameVars, FrameTypes
  <2>4. GpuTypes' BY <1>0, <1>9 DEF KeepSwapchain, gpuVars, GpuTypes
  <2>5. QED BY <2>1, <2>2, <2>3, <2>4 DEF TypeOK
<1>10. ASSUME RecreateSwapchain PROVE TypeOK'
  <2>1. AppTypes' BY <1>0, <1>10 DEF RecreateSwapchain, PassOrderKept, ringVars, AppTypes
  <2>2. ChainTypes'
    BY <1>0, <1>10, ImageCountsAssumption
       DEF RecreateSwapchain, ReplaceSwapchain, PassOrderKept, AppTypes, ChainTypes
  <2>3. FrameTypes' BY <1>0, <1>10 DEF RecreateSwapchain, frameVars, FrameTypes
  <2>4. GpuTypes' BY <1>0, <1>10, PresentsOfReplacedChain DEF RecreateSwapchain, GpuTypes
  <2>5. QED BY <2>1, <2>2, <2>3, <2>4 DEF TypeOK
<1>11. ASSUME SkipRecreation PROVE TypeOK'
  <2>1. AppTypes'
    BY <1>0, <1>11, NextPassType
       DEF SkipRecreation, SkipFrame, PassOrderKept, ringVars, AppTypes
  <2>2. ChainTypes' BY <1>0, <1>11 DEF SkipRecreation, SkipFrame, ChainTypes
  <2>3. FrameTypes' BY <1>0, <1>11 DEF SkipRecreation, SkipFrame, FrameTypes
  <2>4. GpuTypes' BY <1>0, <1>11 DEF SkipRecreation, SkipFrame, GpuTypes
  <2>5. QED BY <2>1, <2>2, <2>3, <2>4 DEF TypeOK
<1>12. ASSUME WaitTimeline PROVE TypeOK'
  <2>1. AppTypes' BY <1>0, <1>12 DEF WaitTimeline, ringVars, chainVars, AppTypes
  <2>2. ChainTypes' BY <1>0, <1>12 DEF WaitTimeline, chainVars, windowVars, ChainTypes
  <2>3. FrameTypes' BY <1>0, <1>12 DEF WaitTimeline, frameVars, FrameTypes
  <2>4. GpuTypes' BY <1>0, <1>12 DEF WaitTimeline, gpuVars, GpuTypes
  <2>5. QED BY <2>1, <2>2, <2>3, <2>4 DEF TypeOK
<1>13. ASSUME AcquireImage PROVE TypeOK'
  <2>1. AppTypes' BY <1>0, <1>13 DEF AcquireImage, PassOrderKept, ringVars, chainVars, AppTypes
  <2>2. ChainTypes' BY <1>0, <1>13 DEF AcquireImage, PassOrderKept, AppTypes, chainVars, ChainTypes
  <2>3. FrameTypes' BY <1>0, <1>13 DEF AcquireImage, PassOrderKept, AppTypes, ChainTypes, FrameTypes
  <2>4. GpuTypes' BY <1>0, <1>13 DEF AcquireImage, PassOrderKept, AppTypes, GpuTypes
  <2>5. QED BY <2>1, <2>2, <2>3, <2>4 DEF TypeOK
<1>14. ASSUME FailAcquire PROVE TypeOK'
  <2>1. AppTypes'
    BY <1>0, <1>14, NextPassType
       DEF FailAcquire, SkipFrame, PassOrderKept, ringVars, AppTypes
  <2>2. ChainTypes' BY <1>0, <1>14 DEF FailAcquire, SkipFrame, ChainTypes
  <2>3. FrameTypes' BY <1>0, <1>14 DEF FailAcquire, SkipFrame, FrameTypes
  <2>4. GpuTypes' BY <1>0, <1>14 DEF FailAcquire, SkipFrame, GpuTypes
  <2>5. QED BY <2>1, <2>2, <2>3, <2>4 DEF TypeOK
<1>15. ASSUME SkipPass PROVE TypeOK'
  <2>1. AppTypes' BY <1>0, <1>15, NextPassType DEF SkipPass, PassOrderKept, ringVars, chainVars, AppTypes
  <2>2. ChainTypes' BY <1>0, <1>15 DEF SkipPass, chainVars, windowVars, ChainTypes
  <2>3. FrameTypes' BY <1>0, <1>15 DEF SkipPass, frameVars, FrameTypes
  <2>4. GpuTypes' BY <1>0, <1>15 DEF SkipPass, gpuVars, GpuTypes
  <2>5. QED BY <2>1, <2>2, <2>3, <2>4 DEF TypeOK
<1>16. ASSUME RecordPass PROVE TypeOK'
  <2>1. AppTypes'
    BY <1>0, <1>16, NextPassType
       DEF RecordPass, PassOrderKept, ringVars, chainVars, AppTypes
  <2>2. ChainTypes' BY <1>0, <1>16 DEF RecordPass, chainVars, windowVars, ChainTypes
  <2>3. FrameTypes' BY <1>0, <1>16 DEF RecordPass, frameVars, FrameTypes
  <2>4. GpuTypes' BY <1>0, <1>16 DEF RecordPass, gpuVars, GpuTypes
  <2>5. QED BY <2>1, <2>2, <2>3, <2>4 DEF TypeOK
<1>17. ASSUME SubmitFrame PROVE TypeOK'
  <2>1. AppTypes'
    BY <1>0, <1>17, NextPassType
       DEF SubmitFrame, PassOrderKept, ringVars, chainVars, AppTypes
  <2>2. ChainTypes' BY <1>0, <1>17 DEF SubmitFrame, chainVars, windowVars, ChainTypes
  <2>3. FrameTypes' BY <1>0, <1>17 DEF SubmitFrame, PassOrderKept, AppTypes, FrameTypes
  <2>4. GpuTypes' BY <1>0, <1>17 DEF SubmitFrame, PassOrderKept, AppTypes, FrameTypes, Jobs, GpuTypes
  <2>5. QED BY <2>1, <2>2, <2>3, <2>4 DEF TypeOK
<1>18. ASSUME Present PROVE TypeOK'
  <2>1. AppTypes'
    <3>1. currentFrame' \in Slots
      BY <1>0, <1>18, NextSlotType DEF Present, PresentReady, AppTypes
    <3>2. /\ pc' = "app" /\ order' = << >> /\ pc = "execute"
          /\ UNCHANGED <<passIndex, todo, target, frameNo, updates, section, live>>
      BY <1>18 DEF Present, PresentReady, chainVars
    <3>3. QED BY <1>0, <3>1, <3>2, EmptyOrder DEF PassOrderKept, AppTypes
  <2>2. ChainTypes' BY <1>0, <1>18 DEF Present, PresentReady, chainVars, windowVars, ChainTypes
  <2>3. FrameTypes'
    <3>1. CASE live = {}
      BY <1>0, <1>18, <3>1 DEF Present, PresentReady, FrameTypes
    <3>2. CASE live # {}
      <4> DEFINE ready == {s \in live : readyToPresent[s][currentFrame]}
      <4>1. readyToPresent' =
              [s \in Surfaces |-> IF s \in ready
                                  THEN [readyToPresent[s] EXCEPT ![currentFrame] = FALSE]
                                  ELSE readyToPresent[s]]
        BY <1>18, <3>2 DEF Present, PresentReady
      <4>2. \A s \in Surfaces : readyToPresent[s] \in [Slots -> BOOLEAN]
        BY <1>0 DEF FrameTypes
      <4>3. readyToPresent' \in [Surfaces -> [Slots -> BOOLEAN]]
        BY <4>1, <4>2
      <4>4. QED BY <1>0, <1>18, <4>3 DEF Present, PresentReady, FrameTypes
    <3>3. QED BY <3>1, <3>2
  <2>4. GpuTypes' BY <1>0, <1>18 DEF Present, PresentReady, AppTypes, FrameTypes, Presents, GpuTypes
  <2>5. QED BY <2>1, <2>2, <2>3, <2>4 DEF TypeOK
<1>19. ASSUME NEW j \in jobs, RetireJob(j) PROVE TypeOK'
  <2>1. AppTypes' BY <1>0, <1>19 DEF RetireJob, appVars, ringVars, chainVars, AppTypes
  <2>2. ChainTypes' BY <1>0, <1>19 DEF RetireJob, chainVars, windowVars, ChainTypes
  <2>3. FrameTypes' BY <1>0, <1>19 DEF RetireJob, frameVars, FrameTypes
  <2>4. GpuTypes' BY <1>0, <1>19 DEF RetireJob, Jobs, GpuTypes
  <2>5. QED BY <2>1, <2>2, <2>3, <2>4 DEF TypeOK
<1>20. ASSUME NEW s \in Surfaces, NEW f \in Slots, SignalImageAvailable(s, f) PROVE TypeOK'
  <2>1. AppTypes' BY <1>0, <1>20 DEF SignalImageAvailable, appVars, ringVars, chainVars, AppTypes
  <2>2. ChainTypes' BY <1>0, <1>20 DEF SignalImageAvailable, chainVars, windowVars, ChainTypes
  <2>3. FrameTypes' BY <1>0, <1>20 DEF SignalImageAvailable, frameVars, FrameTypes
  <2>4. GpuTypes' BY <1>0, <1>20 DEF SignalImageAvailable, GpuTypes
  <2>5. QED BY <2>1, <2>2, <2>3, <2>4 DEF TypeOK
<1>21. ASSUME NEW p \in presents, CompletePresent(p) PROVE TypeOK'
  <2>1. AppTypes' BY <1>0, <1>21 DEF CompletePresent, appVars, ringVars, chainVars, AppTypes
  <2>2. ChainTypes' BY <1>0, <1>21 DEF CompletePresent, GpuTypes, Presents, NoImage, chainVars, ChainTypes
  <2>3. FrameTypes' BY <1>0, <1>21 DEF CompletePresent, frameVars, FrameTypes
  <2>4. GpuTypes' BY <1>0, <1>21 DEF CompletePresent, Presents, GpuTypes
  <2>5. QED BY <2>1, <2>2, <2>3, <2>4 DEF TypeOK
<1>22. ASSUME NEW s \in Surfaces, ResizeWindow(s) PROVE TypeOK'
  <2>1. AppTypes' BY <1>0, <1>22 DEF ResizeWindow, appVars, ringVars, chainVars, AppTypes
  <2>2. ChainTypes' BY <1>0, <1>22 DEF ResizeWindow, chainVars, ChainTypes
  <2>3. FrameTypes' BY <1>0, <1>22 DEF ResizeWindow, frameVars, FrameTypes
  <2>4. GpuTypes' BY <1>0, <1>22 DEF ResizeWindow, gpuVars, GpuTypes
  <2>5. QED BY <2>1, <2>2, <2>3, <2>4 DEF TypeOK
<1>23. CASE UNCHANGED vars
  BY <1>0, <1>23 DEF TypeOK, AppTypes, ChainTypes, FrameTypes, GpuTypes, vars, appVars, ringVars,
     chainVars, frameVars, gpuVars, windowVars
<1>24. QED
  BY <1>1, <1>2, <1>3, <1>4, <1>5, <1>6, <1>7, <1>8, <1>9, <1>10, <1>11, <1>12, <1>13, <1>14, <1>15, <1>16, <1>17, <1>18, <1>19, <1>20, <1>21, <1>22, <1>23
     DEF Next, AppStep, ExecuteStep, DeviceStep, Stopped

-----------------------------------------------------------------------------
(* The steps that touch the GPU's side of a frame: every other step leaves the *)
(* jobs, the timelines, the command buffers and the acquire semaphores alone.  *)
LEMMA FrameResourceSteps ==
    ASSUME [Next]_vars
    PROVE  \/ \E s \in Surfaces : CreateSurface(s) \/ RemoveSurface(s)
           \/ AcquireImage
           \/ SubmitFrame
           \/ \E j \in jobs : RetireJob(j)
           \/ \E s \in Surfaces, f \in Slots : SignalImageAvailable(s, f)
           \/ UNCHANGED <<live, jobs, timeline, timelineValue, commandBuffer, imageAvailable>>
BY DEF Next, AppStep, ExecuteStep, DeviceStep, Stopped, UpdateSurface, FinishUpdateSurface,
       BeginFrame, ExecuteSurface, SkipComputePass, RunPassCallback, KeepSwapchain,
       RecreateSwapchain, SkipRecreation, WaitTimeline, FailAcquire, SkipFrame, SkipPass,
       RecordPass, Present, PresentReady, CompletePresent, ResizeWindow, vars, appVars, ringVars, chainVars,
       frameVars, gpuVars, windowVars

(* The app thread's place in the order of passes. *)
LEMMA PassOrderStep == TypeOK /\ PassOrderKept /\ [Next]_vars => PassOrderKept'
<1> SUFFICES ASSUME TypeOK, PassOrderKept, [Next]_vars PROVE PassOrderKept'
  OBVIOUS
<1>0. AppTypes
  BY DEF TypeOK
<1> USE DEF PassOrderKept
<1>1. ASSUME NEW s \in Surfaces, CreateSurface(s) \/ RemoveSurface(s) \/ UpdateSurface(s)
      PROVE  PassOrderKept'
  BY <1>1 DEF CreateSurface, RemoveSurface, UpdateSurface, appVars, chainVars
<1>2. CASE FinishUpdateSurface
  BY <1>2 DEF FinishUpdateSurface
<1>3. ASSUME NEW o \in PassOrders, NEW targets \in SUBSET live, BeginFrame(o, targets)
      PROVE  PassOrderKept'
  BY <1>3 DEF BeginFrame, chainVars
<1>4. ASSUME NEW s \in Surfaces, ExecuteSurface(s) PROVE PassOrderKept'
  BY <1>0, <1>4 DEF ExecuteSurface, AppTypes, chainVars
<1>5. CASE SkipComputePass \/ SkipPass \/ RecordPass \/ SubmitFrame
  BY <1>0, <1>5, NextPassType
     DEF SkipComputePass, SkipPass, RecordPass, SubmitFrame, AppTypes, chainVars
<1>6. CASE RunPassCallback \/ KeepSwapchain \/ RecreateSwapchain \/ WaitTimeline \/ AcquireImage
  BY <1>0, <1>6 DEF RunPassCallback, KeepSwapchain, RecreateSwapchain, WaitTimeline, AcquireImage,
     IsFirstPass, AppTypes, chainVars
<1>7. CASE SkipRecreation \/ FailAcquire
  BY <1>0, <1>7, NextPassType DEF SkipRecreation, FailAcquire, SkipFrame, AppTypes
<1>8. CASE Present
  BY <1>8 DEF Present, PresentReady, chainVars
<1>9. ASSUME UNCHANGED <<appVars, live>> PROVE PassOrderKept'
  BY <1>9 DEF appVars
<1>10. QED
  BY <1>1, <1>2, <1>3, <1>4, <1>5, <1>6, <1>7, <1>8, <1>9
     DEF Next, AppStep, ExecuteStep, DeviceStep, Stopped, RetireJob, SignalImageAvailable,
         CompletePresent, ResizeWindow, vars, chainVars

(* Timelines, and the resources that wait for them. *)
LEMMA TimelineStep ==
    IInv /\ [Next]_vars => TimelineBehind'
<1> SUFFICES ASSUME IInv, [Next]_vars,
                    NEW s \in Surfaces, NEW f \in Slots
             PROVE  /\ timeline'[s][f] <= timelineValue'[s][f]
                    /\ commandBuffer'[s][f] = "recording" \/ imageAvailable'[s][f] # "idle" =>
                         timeline'[s][f] < timelineValue'[s][f]
  BY DEF TimelineBehind
<1>0. AppTypes /\ FrameTypes /\ GpuTypes /\ PassOrderKept /\ JobsAccounted /\ TimelineBehind
  BY DEF IInv, TypeOK
<1>1. ASSUME NEW r \in Surfaces, CreateSurface(r) \/ RemoveSurface(r) PROVE TimelineBehind'
  BY <1>0, <1>1 DEF CreateSurface, RemoveSurface, TimelineBehind, PerSlot, FrameTypes, GpuTypes, frameVars
<1>2. CASE AcquireImage
  BY <1>0, <1>2 DEF AcquireImage, TimelineBehind, PassOrderKept, AppTypes, FrameTypes, GpuTypes
<1>3. CASE SubmitFrame
  BY <1>0, <1>3 DEF SubmitFrame, TimelineBehind, FrameTypes
<1>4. ASSUME NEW j \in jobs, RetireJob(j) PROVE TimelineBehind'
  <2>1. j \in Jobs /\ commandBuffer[j.surface][j.slot] # "recording"
    BY <1>0, <1>4 DEF IInv, CommandBufferFree, InFlight, GpuTypes, Jobs
  <2>2. QED
    BY <1>0, <1>4, <2>1 DEF RetireJob, TimelineBehind, JobsAccounted, GpuTypes, FrameTypes, Jobs, frameVars
<1>5. ASSUME NEW r \in Surfaces, NEW g \in Slots, SignalImageAvailable(r, g) PROVE TimelineBehind'
  BY <1>0, <1>5 DEF SignalImageAvailable, TimelineBehind, GpuTypes, frameVars
<1>6. CASE UNCHANGED <<live, jobs, timeline, timelineValue, commandBuffer, imageAvailable>>
  BY <1>0, <1>6 DEF TimelineBehind
<1>7. QED
  BY <1>1, <1>2, <1>3, <1>4, <1>5, <1>6, FrameResourceSteps DEF TimelineBehind

(* One job per slot, each with a value its timeline has still to reach. *)
LEMMA JobsStep == IInv /\ [Next]_vars => JobsAccounted'
<1> SUFFICES ASSUME IInv, [Next]_vars PROVE JobsAccounted'
  OBVIOUS
<1>0. AppTypes /\ FrameTypes /\ GpuTypes /\ PassOrderKept /\ JobsAccounted /\ TimelineBehind
  BY DEF IInv, TypeOK
<1>1. ASSUME NEW r \in Surfaces, CreateSurface(r) PROVE JobsAccounted'
  BY <1>0, <1>1 DEF CreateSurface, JobsAccounted, FrameTypes, GpuTypes, Jobs
<1>2. ASSUME NEW r \in Surfaces, RemoveSurface(r) PROVE JobsAccounted'
  BY <1>0, <1>2 DEF RemoveSurface, DeviceIdle, JobsAccounted
<1>3. CASE AcquireImage
  <2>1. \A s \in Surfaces, f \in Slots : timelineValue[s][f] <= timelineValue'[s][f]
    BY <1>0, <1>3 DEF AcquireImage, FrameTypes
  <2>2. \A s \in Surfaces, f \in Slots : timelineValue'[s][f] \in Nat
    BY <1>0, <1>3 DEF AcquireImage, FrameTypes
  <2>3. \A s \in Surfaces, f \in Slots : timelineValue[s][f] \in Nat
    BY <1>0 DEF FrameTypes
  <2>4. UNCHANGED <<live, jobs, timeline>>
    BY <1>3 DEF AcquireImage, chainVars
  <2>5. QED
    BY <1>0, <2>1, <2>2, <2>3, <2>4 DEF JobsAccounted, GpuTypes, Jobs
<1>4. CASE SubmitFrame
  <2> DEFINE new == [surface |-> target, slot |-> currentFrame,
                     value |-> timelineValue[target][currentFrame],
                     section |-> section, frame |-> frameNo]
  <2>1. target \in live /\ target \in Surfaces /\ currentFrame \in Slots
    BY <1>0, <1>4 DEF SubmitFrame, PassOrderKept, AppTypes
  <2>2. commandBuffer[target][currentFrame] = "recording"
    BY <1>4 DEF SubmitFrame, CanRecord, IInv, WaitCoversSlot
  <2>3. /\ timeline[target][currentFrame] < timelineValue[target][currentFrame]
        /\ \A j \in jobs : ~(j.surface = target /\ j.slot = currentFrame)
    BY <1>0, <2>1, <2>2 DEF TimelineBehind, IInv, CommandBufferFree, InFlight
  <2>4. jobs' = jobs \cup {new} /\ UNCHANGED <<live, timeline, timelineValue>>
    BY <1>4 DEF SubmitFrame, chainVars
  <2>5. \A j \in jobs' : \/ j \in jobs
                        \/ j = new
    BY <2>4
  <2>6. /\ new.surface = target /\ new.slot = currentFrame
        /\ new.value = timelineValue[target][currentFrame]
    OBVIOUS
  <2>7. timelineValue[target][currentFrame] \in Nat
    BY <1>0, <2>1 DEF FrameTypes
  <2>8. \A j \in jobs' :
          /\ j.surface \in live
          /\ timeline[j.surface][j.slot] < j.value
          /\ j.value <= timelineValue[j.surface][j.slot]
    BY <1>0, <2>1, <2>3, <2>5, <2>6, <2>7 DEF JobsAccounted
  <2>9. \A j, k \in jobs' : j.surface = k.surface /\ j.slot = k.slot => j = k
    BY <1>0, <2>3, <2>5, <2>6 DEF JobsAccounted
  <2>10. QED
    BY <2>4, <2>8, <2>9 DEF JobsAccounted
<1>5. ASSUME NEW j \in jobs, RetireJob(j) PROVE JobsAccounted'
  <2>1. ASSUME NEW k \in jobs, k # j PROVE ~(k.surface = j.surface /\ k.slot = j.slot)
    BY <1>0, <2>1 DEF JobsAccounted
  <2>2. QED
    BY <1>0, <1>5, <2>1 DEF RetireJob, JobsAccounted, GpuTypes, Jobs, chainVars, frameVars
<1>6. ASSUME NEW r \in Surfaces, NEW g \in Slots, SignalImageAvailable(r, g) PROVE JobsAccounted'
  BY <1>0, <1>6 DEF SignalImageAvailable, JobsAccounted, chainVars, frameVars
<1>7. CASE UNCHANGED <<live, jobs, timeline, timelineValue, commandBuffer, imageAvailable>>
  BY <1>0, <1>7 DEF JobsAccounted
<1>8. QED
  BY <1>1, <1>2, <1>3, <1>4, <1>5, <1>6, <1>7, FrameResourceSteps

(* A slot's command buffer is not recorded while the GPU runs it. *)
LEMMA CommandBufferStep == IInv /\ [Next]_vars => CommandBufferFree'
<1> SUFFICES ASSUME IInv, [Next]_vars PROVE CommandBufferFree'
  OBVIOUS
<1>0. AppTypes /\ FrameTypes /\ GpuTypes /\ PassOrderKept /\ JobsAccounted /\ CommandBufferFree
  BY DEF IInv, TypeOK
<1> USE DEF CommandBufferFree, InFlight
<1>1. ASSUME NEW r \in Surfaces, CreateSurface(r) \/ RemoveSurface(r) PROVE CommandBufferFree'
  <2>1. CASE RemoveSurface(r)
    BY <1>0, <2>1 DEF RemoveSurface, frameVars
  <2>2. CASE CreateSurface(r)
    <3>1. jobs' = jobs /\ commandBuffer' = [commandBuffer EXCEPT ![r] = PerSlot("initial")]
      BY <2>2 DEF CreateSurface
    <3>2. ASSUME NEW s \in Surfaces, NEW f \in Slots, commandBuffer'[s][f] = "recording"
          PROVE  commandBuffer[s][f] = "recording"
      <4>1. CASE s = r
        <5>1. commandBuffer'[s] = [g \in Slots |-> "initial"]
          BY <1>0, <3>1, <4>1 DEF FrameTypes, PerSlot
        <5>2. QED BY <3>2, <5>1
      <4>2. CASE s # r
        BY <1>0, <3>1, <3>2, <4>2 DEF FrameTypes
      <4>3. QED BY <4>1, <4>2
    <3>3. QED BY <1>0, <3>1, <3>2
  <2>3. QED BY <1>1, <2>1, <2>2
<1>2. CASE AcquireImage
  <2>1. target \in Surfaces /\ currentFrame \in Slots
    BY <1>0, <1>2 DEF AcquireImage, PassOrderKept, AppTypes
  <2>2. \A j \in jobs : ~(j.surface = target /\ j.slot = currentFrame)
    BY <1>0, <1>2, <2>1 DEF AcquireImage, IInv, WaitCoversSlot, JobsAccounted, FrameTypes, GpuTypes, Jobs
  <2>3. QED
    BY <1>0, <1>2, <2>1, <2>2 DEF AcquireImage, FrameTypes
<1>3. CASE SubmitFrame
  <2>1. target \in Surfaces /\ currentFrame \in Slots
    BY <1>0, <1>3 DEF SubmitFrame, PassOrderKept, AppTypes
  <2>2. QED
    BY <1>0, <1>3, <2>1 DEF SubmitFrame, FrameTypes
<1>4. ASSUME NEW j \in jobs, RetireJob(j) PROVE CommandBufferFree'
  BY <1>0, <1>4 DEF RetireJob, frameVars
<1>5. ASSUME NEW r \in Surfaces, NEW g \in Slots, SignalImageAvailable(r, g) PROVE CommandBufferFree'
  BY <1>0, <1>5 DEF SignalImageAvailable, frameVars
<1>6. CASE UNCHANGED <<live, jobs, timeline, timelineValue, commandBuffer, imageAvailable>>
  BY <1>0, <1>6
<1>7. QED
  BY <1>1, <1>2, <1>3, <1>4, <1>5, <1>6, FrameResourceSteps
(* The timeline wait of a frame's first pass covers the slot it records.  A    *)
(* frame reaches its later passes with an image only by way of that wait.      *)
LEMMA WaitCoversStep == FirstPassRenders /\ IInv /\ [Next]_vars => WaitCoversSlot'
<1> SUFFICES ASSUME FirstPassRenders, IInv, [Next]_vars PROVE WaitCoversSlot'
  OBVIOUS
<1>0. AppTypes /\ FrameTypes /\ GpuTypes /\ PassOrderKept /\ WaitCoversSlot
  BY DEF IInv, TypeOK
<1> USE DEF WaitCoversSlot
<1>1. ASSUME NEW s \in Surfaces, CreateSurface(s) \/ RemoveSurface(s) \/ UpdateSurface(s)
      PROVE  WaitCoversSlot'
  BY <1>1 DEF CreateSurface, RemoveSurface, UpdateSurface, appVars
<1>2. CASE FinishUpdateSurface \/ Present
  BY <1>2 DEF FinishUpdateSurface, Present, PresentReady
<1>3. ASSUME NEW o \in PassOrders, NEW targets \in SUBSET live, BeginFrame(o, targets)
      PROVE  WaitCoversSlot'
  BY <1>3 DEF BeginFrame
<1>4. ASSUME NEW s \in Surfaces, ExecuteSurface(s) PROVE WaitCoversSlot'
  BY <1>0, <1>4 DEF ExecuteSurface, PassOrderKept
<1>5. CASE SkipComputePass
  <2>1. passIndex # 1
    <3> SUFFICES ASSUME passIndex = 1 PROVE FALSE
      OBVIOUS
    <3>1. order # << >>
      BY <1>0, <1>5, EmptyOrder DEF SkipComputePass, PassOrderKept, AppTypes
    <3>2. QED BY <1>0, <1>5, <3>1 DEF SkipComputePass, PassOrderKept, FirstPassRenders
  <2>2. passIndex > 1 /\ target \in Surfaces
    BY <1>0, <1>5, <2>1 DEF SkipComputePass, PassOrderKept, AppTypes
  <2>3. QED
    BY <1>0, <1>5, <2>2 DEF SkipComputePass, NextPass, PassOrderKept, AppTypes, ringVars, frameVars
<1>6. CASE RunPassCallback
  BY <1>0, <1>6 DEF RunPassCallback, IsFirstPass, PassOrderKept, AppTypes, ringVars, frameVars
<1>7. CASE KeepSwapchain \/ RecreateSwapchain
  BY <1>0, <1>7 DEF KeepSwapchain, RecreateSwapchain
<1>8. CASE SkipRecreation \/ FailAcquire
  BY <1>0, <1>8 DEF SkipRecreation, FailAcquire, SkipFrame, NextPass, PassOrderKept, AppTypes, FrameTypes
<1>9. CASE WaitTimeline
  <2>1. target \in Surfaces /\ currentFrame \in Slots
    BY <1>0, <1>9 DEF WaitTimeline, PassOrderKept, AppTypes
  <2>2. timelineValue[target][currentFrame] \in Nat /\ timeline[target][currentFrame] \in Nat
    BY <1>0, <2>1 DEF FrameTypes, GpuTypes
  <2>3. timelineValue[target][currentFrame] <= timeline[target][currentFrame]
    BY <1>9, <2>2 DEF WaitTimeline
  <2>4. QED
    BY <1>9, <2>3 DEF WaitTimeline, ringVars, frameVars, gpuVars
<1>10. CASE AcquireImage
  BY <1>0, <1>10 DEF AcquireImage, PassOrderKept, AppTypes, FrameTypes, ringVars
<1>11. CASE SkipPass \/ RecordPass
  BY <1>0, <1>11 DEF SkipPass, RecordPass, NextPass, ringVars, frameVars
<1>12. CASE SubmitFrame
  BY <1>0, <1>12 DEF SubmitFrame, NextPass, IsLastPass
<1>13. ASSUME NEW j \in jobs, RetireJob(j) PROVE WaitCoversSlot'
  <2>1. j \in Jobs /\ (pc = "acquire" => timelineValue[j.surface][j.slot] < j.value \/
                         ~(j.surface = target /\ j.slot = currentFrame))
    BY <1>0 DEF IInv, JobsAccounted, GpuTypes, Jobs, FrameTypes
  <2>2. UNCHANGED <<pc, passIndex, target, currentFrame, frameAcquired, commandBuffer, timelineValue>>
    BY <1>13 DEF RetireJob, appVars, ringVars, frameVars
  <2>3. QED BY <1>0, <1>13, <2>1, <2>2 DEF RetireJob, IInv, JobsAccounted, GpuTypes, FrameTypes, Jobs
<1>14. CASE UNCHANGED <<pc, passIndex, target, currentFrame, frameAcquired, commandBuffer,
                        timelineValue, timeline>>
  BY <1>0, <1>14
<1>15. QED
  BY <1>1, <1>2, <1>3, <1>4, <1>5, <1>6, <1>7, <1>8, <1>9, <1>10, <1>11, <1>12, <1>13, <1>14
     DEF Next, AppStep, ExecuteStep, DeviceStep, Stopped, SignalImageAvailable,
         CompletePresent, ResizeWindow, vars, appVars, ringVars, frameVars, gpuVars

(* The ring of frame slots and that of the allocator's sections advance together. *)
LEMMA RingsStep == IInv /\ [Next]_vars => RingsInStep'
<1> SUFFICES ASSUME IInv, [Next]_vars PROVE RingsInStep'
  OBVIOUS
<1>0. AppTypes /\ GpuTypes /\ PassOrderKept /\ JobsAccounted /\ RingsInStep
  BY DEF IInv, TypeOK
<1> USE DEF RingsInStep
<1>1. ASSUME jobs' \subseteq jobs, UNCHANGED currentFrame, FrameSection' = FrameSection
      PROVE  RingsInStep'
  BY <1>0, <1>1 DEF Lag
<1>2. ASSUME NEW s \in Surfaces, CreateSurface(s) \/ RemoveSurface(s) \/ UpdateSurface(s)
      PROVE  RingsInStep'
  BY <1>1, <1>2 DEF CreateSurface, RemoveSurface, UpdateSurface, FrameSection, appVars, ringVars, gpuVars
<1>3. CASE FinishUpdateSurface
  BY <1>1, <1>3 DEF FinishUpdateSurface, FrameSection, ringVars
<1>4. ASSUME NEW o \in PassOrders, NEW targets \in SUBSET live, BeginFrame(o, targets)
      PROVE  RingsInStep'
  BY <1>1, <1>4 DEF BeginFrame, FrameSection, gpuVars
<1>5. ASSUME NEW s \in Surfaces, ExecuteSurface(s) PROVE RingsInStep'
  BY <1>1, <1>5 DEF ExecuteSurface, FrameSection, ringVars, gpuVars
<1>6. CASE SkipComputePass \/ RunPassCallback \/ KeepSwapchain \/ RecreateSwapchain \/ SkipRecreation
           \/ WaitTimeline \/ AcquireImage \/ FailAcquire \/ SkipPass \/ RecordPass
  <2>1. pc \notin {"app", "update"} /\ pc' \notin {"app", "update"} /\ UNCHANGED <<section, currentFrame, jobs>>
    BY <1>6 DEF SkipComputePass, RunPassCallback, KeepSwapchain, RecreateSwapchain, SkipRecreation,
       WaitTimeline, AcquireImage, FailAcquire, SkipPass, RecordPass, SkipFrame, NextPass,
       ringVars, gpuVars
  <2>2. QED BY <1>1, <2>1 DEF FrameSection
<1>7. CASE SubmitFrame
  <2>1. FrameSection' = FrameSection /\ FrameSection = section /\ UNCHANGED currentFrame
    BY <1>7 DEF SubmitFrame, NextPass, FrameSection, ringVars
  <2>2. \A j \in jobs' : j \in jobs \/ (j.section = section /\ j.slot = currentFrame)
    BY <1>7 DEF SubmitFrame
  <2>3. QED BY <1>0, <2>1, <2>2 DEF Lag
<1>8. CASE Present
  <2>1. pc = "execute" /\ pc' = "app" /\ UNCHANGED <<section, jobs>>
    BY <1>8 DEF Present, PresentReady
  <2>2. FrameSection = section /\ FrameSection' = NextSlot(section)
    BY <2>1 DEF FrameSection, NextSlot
  <2>3. CASE live = {}
    BY <1>0, <2>1, <2>3 DEF JobsAccounted
  <2>4. CASE live # {}
    <3>1. currentFrame' = NextSlot(currentFrame)
      BY <1>8, <2>4 DEF Present, PresentReady
    <3>2. Lag(NextSlot(section), NextSlot(currentFrame)) = Lag(section, currentFrame)
      BY <1>0, LagKept DEF AppTypes
    <3>3. (\A j \in jobs : Lag(j.section, j.slot) = Lag(FrameSection, currentFrame))'
      BY <1>0, <2>1, <2>2, <3>1, <3>2 DEF Lag
    <3>4. QED BY <3>3
  <2>5. QED BY <2>3, <2>4
<1>9. ASSUME NEW j \in jobs, RetireJob(j) PROVE RingsInStep'
  BY <1>1, <1>9 DEF RetireJob, FrameSection, appVars, ringVars
<1>10. CASE UNCHANGED <<pc, section, currentFrame, jobs>>
  BY <1>1, <1>10 DEF FrameSection
<1>11. QED
  BY <1>2, <1>3, <1>4, <1>5, <1>6, <1>7, <1>8, <1>9, <1>10
     DEF Next, AppStep, ExecuteStep, DeviceStep, Stopped, SignalImageAvailable,
         CompletePresent, ResizeWindow, vars, appVars, ringVars, gpuVars
-----------------------------------------------------------------------------
(* IInv holds initially. *)
LEMMA InductiveInit == Init => IInv
<1> SUFFICES ASSUME Init PROVE IInv
  OBVIOUS
<1>1. TypeOK BY TypeInit
<1>2. PassOrderKept BY DEF Init, PassOrderKept
<1>3. JobsAccounted BY DEF Init, JobsAccounted
<1>4. TimelineBehind BY DEF Init, TimelineBehind, PerSlot
<1>5. CommandBufferFree BY DEF Init, CommandBufferFree, InFlight
<1>6. WaitCoversSlot BY DEF Init, WaitCoversSlot
<1>7. RingsInStep BY DEF Init, RingsInStep
<1>8. QED BY <1>1, <1>2, <1>3, <1>4, <1>5, <1>6, <1>7 DEF IInv

(* IInv is kept by every step, if every frame begins with a render pass. *)
LEMMA InductiveStep == FirstPassRenders /\ IInv /\ [Next]_vars => IInv'
<1> SUFFICES ASSUME FirstPassRenders, IInv, [Next]_vars PROVE IInv'
  OBVIOUS
<1>1. TypeOK' /\ PassOrderKept' BY TypeStep, PassOrderStep DEF IInv
<1>2. JobsAccounted' /\ TimelineBehind' BY JobsStep, TimelineStep
<1>3. CommandBufferFree' BY CommandBufferStep
<1>4. WaitCoversSlot' BY WaitCoversStep
<1>5. RingsInStep' BY RingsStep
<1>6. QED BY <1>1, <1>2, <1>3, <1>4, <1>5 DEF IInv

(* Every variable of the frame loop keeps its type, whatever the orders of     *)
(* passes: the model of ExecutePassWithFlags never leaves its state space.     *)
THEOREM TypeCorrect == Spec => []TypeOK
<1>1. Init => TypeOK /\ PassOrderKept
  BY InductiveInit DEF IInv
<1>2. (TypeOK /\ PassOrderKept) /\ [Next]_vars => (TypeOK /\ PassOrderKept)'
  BY TypeStep, PassOrderStep
<1>3. QED BY <1>1, <1>2, PTL DEF Spec

(* The inductive invariant of the frame loop, when every frame begins with a   *)
(* render pass: what the other safety theorems follow from.                    *)
THEOREM Inductive == ASSUME FirstPassRenders PROVE Spec => []IInv
<1>1. Init => IInv
  BY InductiveInit
<1>2. IInv /\ [Next]_vars => IInv'
  BY FirstPassRenders, InductiveStep
<1>3. QED BY <1>1, <1>2, PTL DEF Spec

(* The timeline wait of ExecutePassWithFlags protects the command buffer of    *)
(* the slot, for any number of slots, surfaces and skipped frames.             *)
THEOREM CommandBuffersFree == ASSUME FirstPassRenders PROVE Spec => []CommandBufferFree
<1>1. IInv => CommandBufferFree
  BY DEF IInv
<1>2. Spec => []IInv
  BY FirstPassRenders, Inductive
<1>3. QED BY <1>1, <1>2, PTL

(* ... and the semaphore given to vkAcquireNextImageKHR.                       *)
THEOREM AcquireSemaphoresIdle == ASSUME FirstPassRenders PROVE Spec => []AcquireSemaphoreIdle
<1>1. IInv => AcquireSemaphoreIdle
  <2> SUFFICES ASSUME IInv, pc = "acquire"
               PROVE  imageAvailable[target][currentFrame] = "idle"
    BY DEF AcquireSemaphoreIdle
  <2>1. target \in Surfaces /\ currentFrame \in Slots
    BY DEF IInv, TypeOK, AppTypes, PassOrderKept
  <2>2. timelineValue[target][currentFrame] \in Nat /\ timeline[target][currentFrame] \in Nat
    BY <2>1 DEF IInv, TypeOK, FrameTypes, GpuTypes
  <2>3. timelineValue[target][currentFrame] <= timeline[target][currentFrame]
    BY DEF IInv, WaitCoversSlot
  <2>4. QED BY <2>1, <2>2, <2>3 DEF IInv, TimelineBehind
<1>2. Spec => []IInv
  BY FirstPassRenders, Inductive
<1>3. QED BY <1>1, <1>2, PTL

(* The wait on the surface's frame slot covers the section of the frame        *)
(* allocator too, although the allocator keeps a ring of its own: the distance *)
(* of the two rings is the same for every job in flight.                       *)
THEOREM SectionsFreeOnceAcquired ==
    ASSUME FirstPassRenders PROVE Spec => []SectionFreeOnceAcquired
<1>1. IInv => SectionFreeOnceAcquired
  <2> SUFFICES ASSUME IInv,
                      pc = "record" \/ (pc = "graph" /\ passIndex > 1), frameAcquired[target],
                      NEW j \in jobs, j.surface = target, j.section = section
               PROVE  FALSE
    BY DEF SectionFreeOnceAcquired
  <2>1. /\ target \in Surfaces /\ currentFrame \in Slots /\ section \in Slots
        /\ j.slot \in Slots
    BY DEF IInv, TypeOK, AppTypes, GpuTypes, PassOrderKept, Jobs
  <2>2. commandBuffer[target][currentFrame] = "recording"
    BY DEF IInv, WaitCoversSlot
  <2>3. j.slot # currentFrame
    BY <2>1, <2>2 DEF IInv, CommandBufferFree, InFlight
  <2>4. Lag(section, j.slot) = Lag(section, currentFrame)
    BY DEF IInv, RingsInStep, FrameSection
  <2>5. QED BY <2>1, <2>3, <2>4, LagInjective
<1>2. Spec => []IInv
  BY FirstPassRenders, Inductive
<1>3. QED BY <1>1, <1>2, PTL
-----------------------------------------------------------------------------
(* Who owns a slot follows from the jobs in flight and the command buffers. *)
LEMMA OwnerOf ==
    ASSUME NEW s \in Surfaces, NEW f \in Slots
    PROVE  /\ Owner[s][f] = IF commandBuffer[s][f] = "recording" THEN "cpu"
                            ELSE IF InFlight(s, f) # {} THEN "gpu" ELSE "nobody"
           /\ Owner = [r \in Surfaces |-> Owner[r]]
           /\ Owner[s] = [g \in Slots |-> Owner[s][g]]
BY DEF Owner

(* Owners are equal when they are equal slot by slot. *)
LEMMA OwnerChange ==
    ASSUME NEW s \in Surfaces, NEW f \in Slots, NEW v,
           \A r \in Surfaces, g \in Slots :
               Owner'[r][g] = IF r = s /\ g = f THEN v ELSE Owner[r][g]
    PROVE  Owner' = [Owner EXCEPT ![s][f] = v]
<1> DEFINE New == [Owner EXCEPT ![s][f] = v]
<1>1. \A r \in Surfaces : Owner'[r] = [g \in Slots |-> Owner'[r][g]]
  BY DEF Owner
<1>2. \A r \in Surfaces : New[r] = [g \in Slots |-> IF r = s /\ g = f THEN v ELSE Owner[r][g]]
  <2> TAKE r \in Surfaces
  <2>1. Owner[r] = [g \in Slots |-> Owner[r][g]]
    BY OwnerOf
  <2>2. CASE r = s
    <3>1. New[r] = [Owner[r] EXCEPT ![f] = v]
      BY <2>2 DEF Owner
    <3>2. QED BY <2>1, <2>2, <3>1
  <2>3. CASE r # s
    <3>1. New[r] = Owner[r]
      BY <2>3 DEF Owner
    <3>2. QED BY <2>1, <2>3, <3>1
  <2>4. QED BY <2>2, <2>3
<1>3. \A r \in Surfaces : Owner'[r] = New[r]
  BY <1>1, <1>2
<1>4. Owner' = [r \in Surfaces |-> Owner'[r]] /\ New = [r \in Surfaces |-> New[r]]
  BY DEF Owner
<1>5. QED BY <1>3, <1>4

(* Owners that did not change. *)
LEMMA OwnerUnchanged ==
    ASSUME \A r \in Surfaces, g \in Slots : Owner'[r][g] = Owner[r][g]
    PROVE  Owner' = Owner
<1>1. \A r \in Surfaces : Owner'[r] = [g \in Slots |-> Owner'[r][g]]
  BY DEF Owner
<1>2. \A r \in Surfaces : Owner[r] = [g \in Slots |-> Owner[r][g]]
  BY DEF Owner
<1>3. Owner' = [r \in Surfaces |-> Owner'[r]] /\ Owner = [r \in Surfaces |-> Owner[r]]
  BY DEF Owner
<1>4. QED BY <1>1, <1>2, <1>3

(* Every step of the frame loop moves one slot as FrameSlots allows, or none. *)
LEMMA RingStep == IInv /\ IInv' /\ [Next]_vars => [Ring!Next]_Owner
<1> SUFFICES ASSUME IInv, IInv', [Next]_vars PROVE [Ring!Next]_Owner
  OBVIOUS
<1>0. AppTypes /\ FrameTypes /\ GpuTypes /\ PassOrderKept /\ JobsAccounted /\ CommandBufferFree
  BY DEF IInv, TypeOK
<1>1. ASSUME NEW r \in Surfaces, CreateSurface(r) PROVE Ring!Next
  <2>1. jobs' = jobs /\ commandBuffer' = [commandBuffer EXCEPT ![r] = PerSlot("initial")]
    BY <1>1 DEF CreateSurface
  <2>2. \A f \in Slots : InFlight(r, f) = {}
    BY <1>0, <1>1 DEF CreateSurface, JobsAccounted, InFlight
  <2>3. \A f \in Slots : Owner[r][f] # "gpu"
    BY <2>2, OwnerOf
  <2>4. \A s \in Surfaces, f \in Slots : InFlight(s, f)' = InFlight(s, f)
    BY <2>1 DEF InFlight
  <2>5. \A f \in Slots : commandBuffer'[r][f] = "initial"
    BY <1>0, <2>1 DEF FrameTypes, PerSlot
  <2>6. \A s \in Surfaces \ {r} : commandBuffer'[s] = commandBuffer[s]
    BY <1>0, <2>1 DEF FrameTypes
  <2>7. Owner'[r] = [f \in Slots |-> "nobody"]
    BY <2>2, <2>4, <2>5 DEF Owner
  <2>8. \A s \in Surfaces \ {r} : Owner'[s] = Owner[s]
    BY <2>4, <2>6 DEF Owner
  <2>9. Owner' = [s \in Surfaces |-> Owner'[s]] /\ Owner = [s \in Surfaces |-> Owner[s]]
    BY DEF Owner
  <2>10. Owner' = [Owner EXCEPT ![r] = [f \in Slots |-> "nobody"]]
    BY <2>7, <2>8, <2>9
  <2>11. Ring!Renew(r)
    BY <2>3, <2>10 DEF Ring!Renew, Ring!Free
  <2>12. QED BY <2>11 DEF Ring!Next
<1>2. ASSUME NEW r \in Surfaces, RemoveSurface(r) PROVE Owner' = Owner
  BY <1>2 DEF RemoveSurface, Owner, InFlight, frameVars
<1>3. ASSUME AcquireImage PROVE Ring!Next \/ Owner' = Owner
  <2>1. target \in Surfaces /\ currentFrame \in Slots /\ jobs' = jobs
    BY <1>0, <1>3 DEF AcquireImage, PassOrderKept, AppTypes
  <2>2. \A s \in Surfaces, f \in Slots : commandBuffer'[s][f] =
          IF s = target /\ f = currentFrame THEN "recording" ELSE commandBuffer[s][f]
    BY <1>0, <1>3, <2>1 DEF AcquireImage, FrameTypes
  <2>3. InFlight(target, currentFrame) = {}
    BY <2>1, <2>2 DEF IInv, CommandBufferFree, InFlight
  <2>4. \A s \in Surfaces, f \in Slots : InFlight(s, f)' = InFlight(s, f)
    BY <2>1 DEF InFlight
  <2>5. \A s \in Surfaces, f \in Slots :
          Owner'[s][f] = IF s = target /\ f = currentFrame THEN "cpu" ELSE Owner[s][f]
    BY <2>2, <2>3, <2>4 DEF Owner
  <2>6. Owner' = [Owner EXCEPT ![target][currentFrame] = "cpu"]
    BY <2>1, <2>5, OwnerChange
  <2>7. CASE Owner[target][currentFrame] = "nobody"
    BY <2>1, <2>6, <2>7 DEF Ring!Next, Ring!Record, Ring!Move, Ring!Free
  <2>8. CASE Owner[target][currentFrame] # "nobody"
    <3>1. Owner[target][currentFrame] = "cpu"
      BY <2>1, <2>3, <2>8, OwnerOf
    <3>2. QED BY <2>5, <3>1, OwnerUnchanged
  <2>9. QED BY <2>7, <2>8
<1>4. ASSUME SubmitFrame PROVE Ring!Next
  <2> DEFINE new == [surface |-> target, slot |-> currentFrame,
                     value |-> timelineValue[target][currentFrame],
                     section |-> section, frame |-> frameNo]
  <2>1. target \in Surfaces /\ currentFrame \in Slots
    BY <1>0, <1>4 DEF SubmitFrame, PassOrderKept, AppTypes
  <2>2. jobs' = jobs \cup {new} /\ new.surface = target /\ new.slot = currentFrame
    BY <1>4 DEF SubmitFrame
  <2>3. commandBuffer[target][currentFrame] = "recording"
    BY <1>4 DEF SubmitFrame, CanRecord, IInv, WaitCoversSlot
  <2>4. InFlight(target, currentFrame) = {}
    BY <1>0, <2>1, <2>3 DEF CommandBufferFree
  <2>5. Owner[target][currentFrame] = "cpu"
    BY <2>1, <2>3, <2>4, OwnerOf
  <2>6. Owner'[target][currentFrame] = "gpu"
    <3>1. ASSUME NEW s \in Surfaces, NEW f \in Slots, s = target, f = currentFrame
          PROVE  Owner'[s][f] = "gpu"
      <4>1. new \in InFlight(s, f)'
        BY <2>2, <3>1 DEF InFlight
      <4>2. commandBuffer'[s][f] = "executable"
        BY <1>0, <1>4, <2>1, <3>1 DEF SubmitFrame, FrameTypes
      <4>3. QED BY <4>1, <4>2 DEF Owner
    <3>2. QED BY <2>1, <3>1
  <2>7. ASSUME NEW s \in Surfaces, NEW f \in Slots, ~(s = target /\ f = currentFrame)
        PROVE  Owner'[s][f] = Owner[s][f]
    <3>1. InFlight(s, f)' = InFlight(s, f)
      BY <2>2, <2>7 DEF InFlight
    <3>2. commandBuffer'[s][f] = commandBuffer[s][f]
      BY <1>0, <1>4, <2>1, <2>7 DEF SubmitFrame, FrameTypes
    <3>3. QED BY <3>1, <3>2 DEF Owner
  <2>8. Owner' = [Owner EXCEPT ![target][currentFrame] = "gpu"]
    <3>1. \A s \in Surfaces, f \in Slots :
            Owner'[s][f] = IF s = target /\ f = currentFrame THEN "gpu" ELSE Owner[s][f]
      BY <2>6, <2>7
    <3>2. QED BY <2>1, <3>1, OwnerChange
  <2>9. QED BY <2>1, <2>5, <2>8 DEF Ring!Next, Ring!Submit, Ring!Move
<1>5. ASSUME NEW j \in jobs, RetireJob(j) PROVE Ring!Next
  <2>1. j.surface \in Surfaces /\ j.slot \in Slots
    BY <1>0 DEF GpuTypes, Jobs
  <2>2. jobs' = jobs \ {j} /\ commandBuffer' = commandBuffer
    BY <1>5 DEF RetireJob, frameVars
  <2>3. InFlight(j.surface, j.slot) # {}
    BY DEF InFlight
  <2>4. InFlight(j.surface, j.slot)' = {}
    BY <1>0, <2>2 DEF InFlight, JobsAccounted
  <2>5. commandBuffer[j.surface][j.slot] # "recording"
    BY <1>0, <2>1, <2>3 DEF CommandBufferFree
  <2>6. Owner[j.surface][j.slot] = "gpu" /\ Owner'[j.surface][j.slot] = "nobody"
    BY <2>1, <2>2, <2>3, <2>4, <2>5 DEF Owner
  <2>7. ASSUME NEW s \in Surfaces, NEW f \in Slots, ~(s = j.surface /\ f = j.slot)
        PROVE  Owner'[s][f] = Owner[s][f]
    <3>1. InFlight(s, f)' = InFlight(s, f)
      BY <2>2, <2>7 DEF InFlight
    <3>2. QED BY <2>2, <3>1 DEF Owner
  <2>8. Owner' = [Owner EXCEPT ![j.surface][j.slot] = "nobody"]
    <3>1. \A s \in Surfaces, f \in Slots :
            Owner'[s][f] = IF s = j.surface /\ f = j.slot THEN "nobody" ELSE Owner[s][f]
      BY <2>6, <2>7
    <3>2. QED BY <2>1, <3>1, OwnerChange
  <2>9. QED BY <2>1, <2>6, <2>8 DEF Ring!Next, Ring!Retire, Ring!Move, Ring!Free
<1>6. ASSUME UNCHANGED <<jobs, commandBuffer>> PROVE Owner' = Owner
  BY <1>6 DEF Owner, InFlight
<1>7. QED
  BY <1>1, <1>2, <1>3, <1>4, <1>5, <1>6, FrameResourceSteps DEF SignalImageAvailable, frameVars

(* The frame loop implements the ring of frame slots: the CPU never takes a    *)
(* slot from the GPU, and every submission is followed by its retirement       *)
(* before the slot is recorded again.                                          *)
THEOREM FrameSlotsImplemented == ASSUME FirstPassRenders PROVE Spec => ImplementsFrameSlots
<1>1. Init => Ring!Init
  BY DEF Init, Ring!Init, Ring!Free, Owner, InFlight, PerSlot
<1>2. IInv /\ IInv' /\ [Next]_vars => [Ring!Next]_Owner
  BY RingStep
<1>3. Spec => []IInv
  BY FirstPassRenders, Inductive
<1>4. QED BY <1>1, <1>2, <1>3, PTL DEF Spec, ImplementsFrameSlots, Ring!Spec
-----------------------------------------------------------------------------
(* Framebuffers, images and the frames handed to presentation *)

(* Every frame ends with a render pass: the one that submits.               *)
LastPassRenders == \A o \in PassOrders : o # << >> => o[Len(o)] = "render"

(* UpdateSurface leaves the framebuffers as they are: they still fit the    *)
(* swapchain when it was not called, or when swapchains are of one size.    *)
OneImageCount == \A m, n \in ImageCounts : m = n
Fits == OneImageCount \/ updates = 0

(* A surface has no framebuffers, or those of its swapchain.                *)
FramebuffersFit ==
    /\ \A s \in Surfaces : framebuffers[s] # 0 => framebuffers[s] = imageCount[s]
    /\ \A s \in Surfaces : framebuffers[s] # 0 /\ updates = 0 => fbCurrent[s]
    /\ \A s \in live : imageCount[s] \in ImageCounts
    /\ pc \in {"first", "wait", "acquire", "record"} => framebuffers[target] # 0
    /\ pc = "update" => updates # 0

(* Images are numbered within the swapchain they belong to.                 *)
ImagesInChain ==
    /\ \A s \in Surfaces : free[s] \subseteq 1 .. imageCount[s]
    /\ \A p \in presents : p.image = NoImage \/ p.image \in 1 .. imageCount[p.surface]
    /\ \A s \in live : frameAcquired[s] \/ (\E f \in Slots : readyToPresent[s][f]) =>
                         imageIndex[s] \in 1 .. imageCount[s]

(* The app thread is in the loop of Execute, for the target.                *)
InLoop == pc \in {"graph", "first", "wait", "acquire", "record"}

(* An acquired frame is the one that is recorded; a frame is ready from its *)
(* last pass to the end of the frame, in the slot of the ring.  The target  *)
(* is not executed again.                                                   *)
FramesOnTime ==
    /\ InLoop => target \notin todo
    /\ \A s \in live : frameAcquired[s] =>
          target = s /\ (pc = "record" \/ (pc = "graph" /\ passIndex > 1))
    /\ \A s \in live, f \in Slots : readyToPresent[s][f] =>
          /\ f = currentFrame /\ s \notin todo
          /\ pc \notin {"app", "update"}
          /\ ~(InLoop /\ target = s)

ChainInv == FramebuffersFit /\ ImagesInChain /\ FramesOnTime

(* The next pass of the frame, or the end of its loop, which a render pass  *)
(* is at.                                                                   *)
LEMMA NextPassKept ==
    ASSUME TypeOK, PassOrderKept, LastPassRenders, InLoop, NextPass
    PROVE  /\ target \in live /\ target \in Surfaces /\ passIndex > 0
           /\ \/ /\ pc' = "execute"
                 /\ pc = "graph" => order[passIndex] = "render"
              \/ /\ pc' = "graph" /\ passIndex' > 1 /\ target' = target
<1>1. passIndex \in 1 .. Len(order) /\ Len(order) \in Nat /\ target \in live /\ target \in Surfaces
  BY OrderLength DEF TypeOK, AppTypes, PassOrderKept, InLoop
<1>2. order # << >> /\ order \in PassOrders
  BY <1>1, EmptyOrder DEF PassOrderKept
<1> QED BY <1>1, <1>2 DEF NextPass, IsLastPass, LastPassRenders

(* The images of a replaced swapchain are all free, and no present names one. *)
LEMMA ReplacedImages ==
    ASSUME ChainTypes, presents \subseteq Presents, ImagesInChain,
           NEW s \in Surfaces, NEW n \in Nat, ReplaceSwapchain(s, n)
    PROVE  /\ \A r \in Surfaces : free'[r] \subseteq 1 .. imageCount'[r]
           /\ \A p \in presents' : p.image = NoImage \/ p.image \in 1 .. imageCount'[p.surface]
<1>1. \A r \in Surfaces : /\ imageCount'[r] = IF r = s THEN n ELSE imageCount[r]
                          /\ free'[r] = IF r = s THEN 1 .. n ELSE free[r]
  BY DEF ReplaceSwapchain, ChainTypes
<1>2. ASSUME NEW q \in presents, NEW p,
             p = IF q.surface = s THEN [q EXCEPT !.image = NoImage] ELSE q
      PROVE  p.image = NoImage \/ p.image \in 1 .. imageCount'[p.surface]
  <2>1. q \in Presents /\ q.surface \in Surfaces
    BY DEF Presents
  <2>2. CASE q.surface = s
    <3>1. [q EXCEPT !.image = NoImage].image = NoImage
      BY <2>1 DEF Presents
    <3> QED BY <2>2, <3>1, <1>2
  <2>3. CASE q.surface # s
    <3>1. p = q /\ (q.image = NoImage \/ q.image \in 1 .. imageCount[q.surface])
      BY <1>2, <2>3 DEF ImagesInChain
    <3> QED BY <1>1, <2>1, <2>3, <3>1
  <2> QED BY <2>2, <2>3
<1>3. ASSUME NEW p \in presents'
      PROVE  p.image = NoImage \/ p.image \in 1 .. imageCount'[p.surface]
  <2>1. PICK q \in presents : p = IF q.surface = s THEN [q EXCEPT !.image = NoImage] ELSE q
    BY DEF ReplaceSwapchain
  <2> QED BY <1>2, <2>1
<1>4. \A r \in Surfaces : free'[r] \subseteq 1 .. imageCount'[r]
  BY <1>1 DEF ImagesInChain
<1> QED BY <1>3, <1>4

(* A new surface has no framebuffers and no frame. *)
LEMMA CreateSurfaceFrames ==
    ASSUME TypeOK, PassOrderKept, LastPassRenders, ChainInv, NEW s \in Surfaces, CreateSurface(s)
    PROVE  ImagesInChain' /\ FramesOnTime'
<1> USE DEF CreateSurface, ReplaceSwapchain, PerSlot, NoImage, appVars, ringVars
<1>1. AppTypes /\ ChainTypes /\ FrameTypes /\ GpuTypes
  BY DEF TypeOK
<1>2. ImagesInChain'
  <2>1. PICK n \in ImageCounts : ReplaceSwapchain(s, n)
    BY Zenon
  <2>2. /\ \A r \in Surfaces : free'[r] \subseteq 1 .. imageCount'[r]
        /\ \A p \in presents' : p.image = NoImage \/ p.image \in 1 .. imageCount'[p.surface]
    BY <1>1, <2>1, ReplacedImages, ImageCountsAssumption DEF ChainInv, GpuTypes, AppTypes, PassOrderKept
  <2>3. \A r \in Surfaces : r # s => imageCount'[r] = imageCount[r]
    BY <1>1, <2>1 DEF ReplaceSwapchain, ChainTypes
  <2> QED BY <1>1, <2>2, <2>3 DEF ChainInv, ImagesInChain, PerSlot, FrameTypes, AppTypes
<1>3. FramesOnTime'
  BY <1>1 DEF ChainInv, FramesOnTime, InLoop, AppTypes, FrameTypes, PassOrderKept
<1> QED BY <1>2, <1>3

(* A removed surface's presents are dropped. *)
LEMMA RemoveSurfaceFrames ==
    ASSUME TypeOK, PassOrderKept, LastPassRenders, ChainInv, NEW s \in Surfaces, RemoveSurface(s)
    PROVE  ImagesInChain' /\ FramesOnTime'
<1> USE DEF RemoveSurface, appVars, ringVars, frameVars
<1>1. AppTypes /\ ChainTypes /\ FrameTypes /\ GpuTypes
  BY DEF TypeOK
<1>2. ImagesInChain'
  BY <1>1 DEF ChainInv, ImagesInChain, AppTypes, ChainTypes, FrameTypes, GpuTypes, PassOrderKept
<1>3. FramesOnTime'
  BY <1>1 DEF ChainInv, FramesOnTime, InLoop, AppTypes, FrameTypes, PassOrderKept
<1> QED BY <1>2, <1>3

(* UpdateSurface is called between frames. *)
LEMMA UpdateSurfaceFrames ==
    ASSUME TypeOK, PassOrderKept, LastPassRenders, ChainInv, NEW s \in Surfaces, UpdateSurface(s)
    PROVE  ImagesInChain' /\ FramesOnTime'
<1> USE DEF UpdateSurface, ringVars, chainVars, frameVars, gpuVars, windowVars
<1>1. AppTypes /\ ChainTypes /\ FrameTypes /\ GpuTypes
  BY DEF TypeOK
<1>2. ImagesInChain'
  BY <1>1 DEF ChainInv, ImagesInChain, AppTypes, ChainTypes, FrameTypes, GpuTypes, PassOrderKept
<1>3. FramesOnTime'
  BY <1>1 DEF ChainInv, FramesOnTime, InLoop, AppTypes, FrameTypes, PassOrderKept
<1> QED BY <1>2, <1>3

(* The new swapchain has as many images as the old. *)
LEMMA FinishUpdateSurfaceFrames ==
    ASSUME TypeOK, PassOrderKept, LastPassRenders, ChainInv, FinishUpdateSurface
    PROVE  ImagesInChain' /\ FramesOnTime'
<1> USE DEF FinishUpdateSurface, ReplaceSwapchain, ringVars, frameVars, NoImage
<1>1. AppTypes /\ ChainTypes /\ FrameTypes /\ GpuTypes
  BY DEF TypeOK
<1>2. ImagesInChain'
  <2>1. PICK n \in ImageCounts : ReplaceSwapchain(target, n)
    BY Zenon
  <2>2. /\ \A r \in Surfaces : free'[r] \subseteq 1 .. imageCount'[r]
        /\ \A p \in presents' : p.image = NoImage \/ p.image \in 1 .. imageCount'[p.surface]
    BY <1>1, <2>1, ReplacedImages, ImageCountsAssumption DEF ChainInv, GpuTypes, AppTypes, PassOrderKept
  <2>3. \A r \in Surfaces : r # target => imageCount'[r] = imageCount[r]
    BY <1>1, <2>1 DEF ReplaceSwapchain, ChainTypes
  <2>4. \A r \in live : ~frameAcquired[r] /\ \A f \in Slots : ~readyToPresent[r][f]
    BY DEF ChainInv, FramesOnTime
  <2> QED BY <1>1, <2>2, <2>3, <2>4 DEF ChainInv, ImagesInChain, frameVars
<1>3. FramesOnTime'
  BY <1>1 DEF ChainInv, FramesOnTime, InLoop, AppTypes, FrameTypes, PassOrderKept
<1> QED BY <1>2, <1>3

(* No frame is acquired or ready when one begins. *)
LEMMA BeginFrameFrames ==
    ASSUME TypeOK, PassOrderKept, LastPassRenders, ChainInv, NEW o \in PassOrders, NEW targets \in SUBSET live, BeginFrame(o, targets)
    PROVE  ImagesInChain' /\ FramesOnTime'
<1> USE DEF BeginFrame, chainVars, frameVars, gpuVars, windowVars
<1>1. AppTypes /\ ChainTypes /\ FrameTypes /\ GpuTypes
  BY DEF TypeOK
<1>2. ImagesInChain'
  BY <1>1 DEF ChainInv, ImagesInChain, AppTypes, ChainTypes, FrameTypes, GpuTypes, PassOrderKept
<1>3. FramesOnTime'
  BY <1>1 DEF ChainInv, FramesOnTime, InLoop, AppTypes, FrameTypes, PassOrderKept
<1> QED BY <1>2, <1>3

(* A surface is executed once in a frame. *)
LEMMA ExecuteSurfaceFrames ==
    ASSUME TypeOK, PassOrderKept, LastPassRenders, ChainInv, NEW s \in Surfaces, ExecuteSurface(s)
    PROVE  ImagesInChain' /\ FramesOnTime'
<1> USE DEF ExecuteSurface, ringVars, chainVars, frameVars, gpuVars, windowVars
<1>1. AppTypes /\ ChainTypes /\ FrameTypes /\ GpuTypes
  BY DEF TypeOK
<1>2. ImagesInChain'
  BY <1>1 DEF ChainInv, ImagesInChain, AppTypes, ChainTypes, FrameTypes, GpuTypes, PassOrderKept
<1>3. FramesOnTime'
  BY <1>1 DEF ChainInv, FramesOnTime, InLoop, AppTypes, FrameTypes, PassOrderKept
<1> QED BY <1>2, <1>3

(* A compute pass is not the last one. *)
LEMMA SkipComputePassFrames ==
    ASSUME TypeOK, PassOrderKept, LastPassRenders, ChainInv, SkipComputePass
    PROVE  ImagesInChain' /\ FramesOnTime'
<1> USE DEF SkipComputePass, ringVars, chainVars, frameVars, gpuVars, windowVars
<1>1. AppTypes /\ ChainTypes /\ FrameTypes /\ GpuTypes
  BY DEF TypeOK
<1>0. /\ target \in live /\ target \in Surfaces /\ passIndex > 0
      /\ \/ /\ pc' = "execute"
            /\ pc = "graph" => order[passIndex] = "render"
         \/ /\ pc' = "graph" /\ passIndex' > 1 /\ target' = target
  BY NextPassKept DEF InLoop
<1>2. ImagesInChain'
  BY <1>1, <1>0 DEF ChainInv, ImagesInChain, AppTypes, ChainTypes, FrameTypes, GpuTypes, PassOrderKept
<1>3. FramesOnTime'
  BY <1>1, <1>0 DEF ChainInv, FramesOnTime, InLoop, AppTypes, FrameTypes, PassOrderKept
<1> QED BY <1>2, <1>3

(* AttachSurface builds the framebuffers when there are none. *)
LEMMA RunPassCallbackFrames ==
    ASSUME TypeOK, PassOrderKept, LastPassRenders, ChainInv, RunPassCallback
    PROVE  ImagesInChain' /\ FramesOnTime'
<1> USE DEF RunPassCallback, ringVars, frameVars, gpuVars, windowVars
<1>1. AppTypes /\ ChainTypes /\ FrameTypes /\ GpuTypes
  BY DEF TypeOK
<1>2. ImagesInChain'
  BY <1>1 DEF ChainInv, ImagesInChain, AppTypes, ChainTypes, FrameTypes, GpuTypes, PassOrderKept
<1>3. FramesOnTime'
  <2>1. passIndex \in Nat /\ passIndex > 0
    BY <1>1, OrderLength DEF AppTypes, PassOrderKept
  <2>2. pc' = "first" => ~frameAcquired[target]
    BY <1>1, <2>1 DEF IsFirstPass, ChainInv, FramesOnTime, PassOrderKept
  <2>3. \A s \in live : frameAcquired[s] => target = s
    BY DEF ChainInv, FramesOnTime
  <2>4. pc' \in {"first", "record"}
    OBVIOUS
  <2> QED BY <1>1, <2>2, <2>3, <2>4 DEF ChainInv, FramesOnTime, InLoop
<1> QED BY <1>2, <1>3

(* No recreation is due. *)
LEMMA KeepSwapchainFrames ==
    ASSUME TypeOK, PassOrderKept, LastPassRenders, ChainInv, KeepSwapchain
    PROVE  ImagesInChain' /\ FramesOnTime'
<1> USE DEF KeepSwapchain, ringVars, chainVars, frameVars, gpuVars, windowVars
<1>1. AppTypes /\ ChainTypes /\ FrameTypes /\ GpuTypes
  BY DEF TypeOK
<1>2. ImagesInChain'
  BY <1>1 DEF ChainInv, ImagesInChain, AppTypes, ChainTypes, FrameTypes, GpuTypes, PassOrderKept
<1>3. FramesOnTime'
  BY <1>1 DEF ChainInv, FramesOnTime, InLoop, AppTypes, FrameTypes, PassOrderKept
<1> QED BY <1>2, <1>3

(* Swapchain and framebuffers are rebuilt together. *)
LEMMA RecreateSwapchainFrames ==
    ASSUME TypeOK, PassOrderKept, LastPassRenders, ChainInv, RecreateSwapchain
    PROVE  ImagesInChain' /\ FramesOnTime'
<1>1. AppTypes /\ ChainTypes /\ FrameTypes /\ GpuTypes
  BY DEF TypeOK
<1>0. /\ \A r \in Surfaces : free'[r] \subseteq 1 .. imageCount'[r]
      /\ \A p \in presents' : p.image = NoImage \/ p.image \in 1 .. imageCount'[p.surface]
  <2>1. PICK n \in ImageCounts : ReplaceSwapchain(target, n)
    BY DEF RecreateSwapchain
  <2>2. n \in Nat /\ target \in Surfaces /\ presents \subseteq Presents /\ ImagesInChain
    BY <1>1, ImageCountsAssumption DEF ChainInv, GpuTypes, AppTypes, PassOrderKept, RecreateSwapchain
  <2> QED BY <1>1, <2>1, <2>2, ReplacedImages
<1> USE DEF RecreateSwapchain, ReplaceSwapchain, ringVars, frameVars, NoImage
<1>2. ImagesInChain'
  <2>0. PICK n \in ImageCounts : ReplaceSwapchain(target, n)
    BY Zenon
  <2>2. /\ \A r \in Surfaces : free'[r] \subseteq 1 .. imageCount'[r]
        /\ \A p \in presents' : p.image = NoImage \/ p.image \in 1 .. imageCount'[p.surface]
    BY <1>0
  <2>3. \A r \in Surfaces : r # target => imageCount'[r] = imageCount[r]
    BY <1>1, <2>0 DEF ReplaceSwapchain, ChainTypes
  <2>4. ~frameAcquired[target] /\ \A f \in Slots : ~readyToPresent[target][f]
    BY DEF ChainInv, FramesOnTime, InLoop, PassOrderKept
  <2> QED BY <1>1, <2>2, <2>3, <2>4 DEF ChainInv, ImagesInChain, frameVars, AppTypes
<1>3. FramesOnTime'
  BY <1>1 DEF ChainInv, FramesOnTime, InLoop, AppTypes, FrameTypes, PassOrderKept
<1> QED BY <1>2, <1>3

(* The first pass gives up. *)
LEMMA SkipRecreationFrames ==
    ASSUME TypeOK, PassOrderKept, LastPassRenders, ChainInv, SkipRecreation
    PROVE  ImagesInChain' /\ FramesOnTime'
<1> USE DEF SkipRecreation, SkipFrame, ringVars
<1>1. AppTypes /\ ChainTypes /\ FrameTypes /\ GpuTypes
  BY DEF TypeOK
<1>0. /\ target \in live /\ target \in Surfaces /\ passIndex > 0
      /\ \/ /\ pc' = "execute"
            /\ pc = "graph" => order[passIndex] = "render"
         \/ /\ pc' = "graph" /\ passIndex' > 1 /\ target' = target
  BY NextPassKept DEF InLoop
<1>2. ImagesInChain'
  BY <1>1, <1>0 DEF ChainInv, ImagesInChain, AppTypes, ChainTypes, FrameTypes, GpuTypes, PassOrderKept
<1>3. FramesOnTime'
  BY <1>1, <1>0 DEF ChainInv, FramesOnTime, InLoop, AppTypes, FrameTypes, PassOrderKept
<1> QED BY <1>2, <1>3

(* The timeline wait. *)
LEMMA WaitTimelineFrames ==
    ASSUME TypeOK, PassOrderKept, LastPassRenders, ChainInv, WaitTimeline
    PROVE  ImagesInChain' /\ FramesOnTime'
<1> USE DEF WaitTimeline, ringVars, chainVars, frameVars, gpuVars, windowVars
<1>1. AppTypes /\ ChainTypes /\ FrameTypes /\ GpuTypes
  BY DEF TypeOK
<1>2. ImagesInChain'
  BY <1>1 DEF ChainInv, ImagesInChain, AppTypes, ChainTypes, FrameTypes, GpuTypes, PassOrderKept
<1>3. FramesOnTime'
  BY <1>1 DEF ChainInv, FramesOnTime, InLoop, AppTypes, FrameTypes, PassOrderKept
<1> QED BY <1>2, <1>3

(* The acquired image is one of the swapchain. *)
LEMMA AcquireImageFrames ==
    ASSUME TypeOK, PassOrderKept, LastPassRenders, ChainInv, AcquireImage
    PROVE  ImagesInChain' /\ FramesOnTime'
<1> USE DEF AcquireImage, ringVars, chainVars
<1>1. AppTypes /\ ChainTypes /\ FrameTypes /\ GpuTypes
  BY DEF TypeOK
<1>2. ImagesInChain'
  BY <1>1 DEF ChainInv, ImagesInChain, AppTypes, ChainTypes, FrameTypes, GpuTypes, PassOrderKept
<1>3. FramesOnTime'
  BY <1>1 DEF ChainInv, FramesOnTime, InLoop, AppTypes, FrameTypes, PassOrderKept
<1> QED BY <1>2, <1>3

(* The swapchain is out of date. *)
LEMMA FailAcquireFrames ==
    ASSUME TypeOK, PassOrderKept, LastPassRenders, ChainInv, FailAcquire
    PROVE  ImagesInChain' /\ FramesOnTime'
<1> USE DEF FailAcquire, SkipFrame, ringVars
<1>1. AppTypes /\ ChainTypes /\ FrameTypes /\ GpuTypes
  BY DEF TypeOK
<1>0. /\ target \in live /\ target \in Surfaces /\ passIndex > 0
      /\ \/ /\ pc' = "execute"
            /\ pc = "graph" => order[passIndex] = "render"
         \/ /\ pc' = "graph" /\ passIndex' > 1 /\ target' = target
  BY NextPassKept DEF InLoop
<1>2. ImagesInChain'
  BY <1>1, <1>0 DEF ChainInv, ImagesInChain, AppTypes, ChainTypes, FrameTypes, GpuTypes, PassOrderKept
<1>3. FramesOnTime'
  BY <1>1, <1>0 DEF ChainInv, FramesOnTime, InLoop, AppTypes, FrameTypes, PassOrderKept
<1> QED BY <1>2, <1>3

(* A pass is skipped only when no image was acquired: every image has a framebuffer. *)
LEMMA SkipPassFrames ==
    ASSUME TypeOK, PassOrderKept, LastPassRenders, ChainInv, SkipPass
    PROVE  ImagesInChain' /\ FramesOnTime'
<1> USE DEF SkipPass, ringVars, chainVars, frameVars, gpuVars, windowVars
<1>1. AppTypes /\ ChainTypes /\ FrameTypes /\ GpuTypes
  BY DEF TypeOK
<1>0. /\ target \in live /\ target \in Surfaces /\ passIndex > 0
      /\ \/ /\ pc' = "execute"
            /\ pc = "graph" => order[passIndex] = "render"
         \/ /\ pc' = "graph" /\ passIndex' > 1 /\ target' = target
  BY NextPassKept DEF InLoop
<1>2. ImagesInChain'
  BY <1>1, <1>0 DEF ChainInv, ImagesInChain, AppTypes, ChainTypes, FrameTypes, GpuTypes, PassOrderKept
<1>3. FramesOnTime'
  <2>1. ~frameAcquired[target]
    <3>1. framebuffers[target] = imageCount[target] /\ imageCount[target] \in Nat
      BY <1>0, <1>1 DEF ChainInv, FramebuffersFit, ChainTypes
    <3> QED BY <1>0, <3>1 DEF ChainInv, ImagesInChain, CanRecord
  <2> QED BY <1>0, <1>1, <2>1 DEF ChainInv, FramesOnTime, InLoop, AppTypes
<1> QED BY <1>2, <1>3

(* A pass that is not the last is recorded. *)
LEMMA RecordPassFrames ==
    ASSUME TypeOK, PassOrderKept, LastPassRenders, ChainInv, RecordPass
    PROVE  ImagesInChain' /\ FramesOnTime'
<1> USE DEF RecordPass, ringVars, chainVars, frameVars, gpuVars, windowVars
<1>1. AppTypes /\ ChainTypes /\ FrameTypes /\ GpuTypes
  BY DEF TypeOK
<1>0. /\ target \in live /\ target \in Surfaces /\ passIndex > 0
      /\ \/ /\ pc' = "execute"
            /\ pc = "graph" => order[passIndex] = "render"
         \/ /\ pc' = "graph" /\ passIndex' > 1 /\ target' = target
  BY NextPassKept DEF InLoop
<1>2. ImagesInChain'
  BY <1>1, <1>0 DEF ChainInv, ImagesInChain, AppTypes, ChainTypes, FrameTypes, GpuTypes, PassOrderKept
<1>3. FramesOnTime'
  <2>1. pc' = "graph" /\ passIndex' > 1 /\ target' = target
    BY <1>0, OrderLength DEF NextPass
  <2> QED BY <1>0, <2>1 DEF ChainInv, FramesOnTime, InLoop
<1> QED BY <1>2, <1>3

(* The last pass submits the frame. *)
LEMMA SubmitFrameFrames ==
    ASSUME TypeOK, PassOrderKept, LastPassRenders, ChainInv, SubmitFrame
    PROVE  ImagesInChain' /\ FramesOnTime'
<1> USE DEF SubmitFrame, ringVars, chainVars, windowVars
<1>1. AppTypes /\ ChainTypes /\ FrameTypes /\ GpuTypes
  BY DEF TypeOK
<1>0. /\ target \in live /\ target \in Surfaces /\ passIndex > 0
      /\ \/ /\ pc' = "execute"
            /\ pc = "graph" => order[passIndex] = "render"
         \/ /\ pc' = "graph" /\ passIndex' > 1 /\ target' = target
  BY NextPassKept DEF InLoop
<1>2. ImagesInChain'
  <2>1. frameAcquired[target] /\ frameAcquired' = [frameAcquired EXCEPT ![target] = FALSE]
    BY DEF CanRecord
  <2>2. \A s \in live : s # target => readyToPresent'[s] = readyToPresent[s] /\ frameAcquired'[s] = frameAcquired[s]
    BY <1>1, <2>1 DEF FrameTypes, AppTypes
  <2> QED BY <1>0, <1>1, <2>1, <2>2 DEF ChainInv, ImagesInChain, AppTypes, FrameTypes
<1>3. FramesOnTime'
  <2>1. pc' = "execute"
    BY DEF NextPass
  <2>2. target \notin todo /\ currentFrame' = currentFrame /\ todo' = todo
    BY DEF ChainInv, FramesOnTime, InLoop
  <2>3. \A s \in live : s # target => readyToPresent'[s] = readyToPresent[s] /\ frameAcquired'[s] = frameAcquired[s]
    BY <1>1 DEF FrameTypes, AppTypes
  <2>4. ~frameAcquired'[target] /\ \A f \in Slots : readyToPresent'[target][f] => f = currentFrame
    BY <1>0, <1>1 DEF ChainInv, FramesOnTime, FrameTypes
  <2> QED BY <1>0, <2>1, <2>2, <2>3, <2>4 DEF ChainInv, FramesOnTime, InLoop
<1> QED BY <1>2, <1>3

(* Everything ready is presented. *)
LEMMA PresentFrames ==
    ASSUME TypeOK, PassOrderKept, LastPassRenders, ChainInv, Present
    PROVE  ImagesInChain' /\ FramesOnTime'
<1> USE DEF Present, PresentReady, chainVars, windowVars, NoImage
<1>1. AppTypes /\ ChainTypes /\ FrameTypes /\ GpuTypes
  BY DEF TypeOK
<1>2. ImagesInChain'
  BY <1>1 DEF ChainInv, ImagesInChain, AppTypes, ChainTypes, FrameTypes, GpuTypes, PassOrderKept
<1>3. FramesOnTime'
  <2>1. \A s \in live : ~frameAcquired[s]
    BY DEF ChainInv, FramesOnTime
  <2>2. ASSUME NEW s \in live, NEW f \in Slots
        PROVE  ~readyToPresent'[s][f]
    <3>1. readyToPresent[s] \in [Slots -> BOOLEAN] /\ s \in Surfaces /\ currentFrame \in Slots
      BY <1>1 DEF FrameTypes, AppTypes
    <3>2. readyToPresent[s][f] => f = currentFrame
      BY DEF ChainInv, FramesOnTime
    <3>3. readyToPresent'[s] = IF readyToPresent[s][currentFrame]
                               THEN [readyToPresent[s] EXCEPT ![currentFrame] = FALSE]
                               ELSE readyToPresent[s]
      BY <3>1
    <3> QED BY <3>1, <3>2, <3>3
  <2>3. pc' = "app" /\ live' = live /\ frameAcquired' = frameAcquired
    OBVIOUS
  <2> QED BY <2>1, <2>2, <2>3 DEF FramesOnTime, InLoop
<1> QED BY <1>2, <1>3

(* A job retires. *)
LEMMA RetireJobFrames ==
    ASSUME TypeOK, PassOrderKept, LastPassRenders, ChainInv, NEW j \in jobs, RetireJob(j)
    PROVE  ImagesInChain' /\ FramesOnTime'
<1> USE DEF RetireJob, appVars, ringVars, chainVars, frameVars, windowVars
<1>1. AppTypes /\ ChainTypes /\ FrameTypes /\ GpuTypes
  BY DEF TypeOK
<1>2. ImagesInChain'
  BY <1>1 DEF ChainInv, ImagesInChain, AppTypes, ChainTypes, FrameTypes, GpuTypes, PassOrderKept
<1>3. FramesOnTime'
  BY <1>1 DEF ChainInv, FramesOnTime, InLoop, AppTypes, FrameTypes, PassOrderKept
<1> QED BY <1>2, <1>3

(* An image is available. *)
LEMMA SignalImageAvailableFrames ==
    ASSUME TypeOK, PassOrderKept, LastPassRenders, ChainInv, NEW s \in Surfaces, NEW f \in Slots, SignalImageAvailable(s, f)
    PROVE  ImagesInChain' /\ FramesOnTime'
<1> USE DEF SignalImageAvailable, appVars, ringVars, chainVars, frameVars, windowVars
<1>1. AppTypes /\ ChainTypes /\ FrameTypes /\ GpuTypes
  BY DEF TypeOK
<1>2. ImagesInChain'
  BY <1>1 DEF ChainInv, ImagesInChain, AppTypes, ChainTypes, FrameTypes, GpuTypes, PassOrderKept
<1>3. FramesOnTime'
  BY <1>1 DEF ChainInv, FramesOnTime, InLoop, AppTypes, FrameTypes, PassOrderKept
<1> QED BY <1>2, <1>3

(* A presented image is free again. *)
LEMMA CompletePresentFrames ==
    ASSUME TypeOK, PassOrderKept, LastPassRenders, ChainInv, NEW p \in presents, CompletePresent(p)
    PROVE  ImagesInChain' /\ FramesOnTime'
<1> USE DEF CompletePresent, appVars, ringVars, chainVars, frameVars
<1>1. AppTypes /\ ChainTypes /\ FrameTypes /\ GpuTypes
  BY DEF TypeOK
<1>2. ImagesInChain'
  BY <1>1 DEF ChainInv, ImagesInChain, AppTypes, ChainTypes, FrameTypes, GpuTypes, PassOrderKept
<1>3. FramesOnTime'
  BY <1>1 DEF ChainInv, FramesOnTime, InLoop, AppTypes, FrameTypes, PassOrderKept
<1> QED BY <1>2, <1>3

(* A window changes size. *)
LEMMA ResizeWindowFrames ==
    ASSUME TypeOK, PassOrderKept, LastPassRenders, ChainInv, NEW s \in Surfaces, ResizeWindow(s)
    PROVE  ImagesInChain' /\ FramesOnTime'
<1> USE DEF ResizeWindow, appVars, ringVars, chainVars, frameVars, gpuVars
<1>1. AppTypes /\ ChainTypes /\ FrameTypes /\ GpuTypes
  BY DEF TypeOK
<1>2. ImagesInChain'
  BY <1>1 DEF ChainInv, ImagesInChain, AppTypes, ChainTypes, FrameTypes, GpuTypes, PassOrderKept
<1>3. FramesOnTime'
  BY <1>1 DEF ChainInv, FramesOnTime, InLoop, AppTypes, FrameTypes, PassOrderKept
<1> QED BY <1>2, <1>3

(* The framebuffers of a surface are rebuilt with its swapchain, except by    *)
(* UpdateSurface.                                                             *)
LEMMA FitStep ==
    ASSUME TypeOK, PassOrderKept, FramebuffersFit, Fits, [Next]_vars
    PROVE  FramebuffersFit'
<1>0. AppTypes /\ ChainTypes
  BY DEF TypeOK
<1>1. ASSUME NEW s \in Surfaces, CreateSurface(s) PROVE FramebuffersFit'
  BY <1>0, <1>1, ImageCountsAssumption
     DEF FramebuffersFit, AppTypes, ChainTypes, PassOrderKept,
         CreateSurface, ReplaceSwapchain, appVars
<1>2. ASSUME NEW s \in Surfaces, RemoveSurface(s) PROVE FramebuffersFit'
  BY <1>0, <1>2
     DEF FramebuffersFit, AppTypes, ChainTypes, PassOrderKept,
         RemoveSurface, appVars
<1>3. ASSUME NEW s \in Surfaces, UpdateSurface(s) PROVE FramebuffersFit'
  BY <1>0, <1>3
     DEF FramebuffersFit, AppTypes, ChainTypes, PassOrderKept,
         UpdateSurface, chainVars
<1>4. ASSUME FinishUpdateSurface PROVE FramebuffersFit'
  <2> USE <1>4 DEF FinishUpdateSurface
  <2>1. PICK n \in ImageCounts : ReplaceSwapchain(target, n)
    BY Zenon
  <2>2. target \in live /\ target \in Surfaces
    BY <1>0 DEF PassOrderKept, AppTypes
  <2>3. OneImageCount /\ updates # 0
    BY DEF FramebuffersFit, Fits
  <2>4. imageCount[target] = n
    BY <2>2, <2>3 DEF FramebuffersFit, OneImageCount
  <2>5. imageCount' = imageCount
    BY <1>0, <2>1, <2>4 DEF ReplaceSwapchain, ChainTypes
  <2> QED BY <1>0, <2>3, <2>5 DEF FramebuffersFit
<1>5. ASSUME NEW o \in PassOrders, NEW targets \in SUBSET live, BeginFrame(o, targets) PROVE FramebuffersFit'
  BY <1>0, <1>5
     DEF FramebuffersFit, AppTypes, ChainTypes, PassOrderKept,
         BeginFrame, chainVars
<1>6. ASSUME NEW s \in Surfaces, ExecuteSurface(s) PROVE FramebuffersFit'
  BY <1>0, <1>6
     DEF FramebuffersFit, AppTypes, ChainTypes, PassOrderKept,
         ExecuteSurface, chainVars
<1>7. ASSUME SkipComputePass PROVE FramebuffersFit'
  BY <1>0, <1>7
     DEF FramebuffersFit, AppTypes, ChainTypes, PassOrderKept,
         SkipComputePass, chainVars, NextPass
<1>8. ASSUME RunPassCallback PROVE FramebuffersFit'
  <2> USE <1>8 DEF RunPassCallback
  <2>1. target \in live /\ target \in Surfaces /\ imageCount[target] # 0
    BY <1>0, ImageCountsAssumption DEF FramebuffersFit, PassOrderKept, AppTypes
  <2>2. /\ \A s \in Surfaces : s # target => framebuffers'[s] = framebuffers[s] /\ fbCurrent'[s] = fbCurrent[s]
        /\ framebuffers'[target] = IF framebuffers[target] = 0 THEN imageCount[target] ELSE framebuffers[target]
        /\ fbCurrent'[target] = IF framebuffers[target] = 0 THEN TRUE ELSE fbCurrent[target]
        /\ UNCHANGED <<imageCount, live, target, updates>> /\ pc' \in {"first", "record"}
    BY <1>0, <2>1 DEF ChainTypes
  <2> QED BY <2>1, <2>2 DEF FramebuffersFit
<1>9. ASSUME KeepSwapchain PROVE FramebuffersFit'
  BY <1>0, <1>9
     DEF FramebuffersFit, AppTypes, ChainTypes, PassOrderKept,
         KeepSwapchain, chainVars
<1>10. ASSUME RecreateSwapchain PROVE FramebuffersFit'
  BY <1>0, <1>10, ImageCountsAssumption
     DEF FramebuffersFit, AppTypes, ChainTypes, PassOrderKept,
         RecreateSwapchain, ReplaceSwapchain
<1>11. ASSUME SkipRecreation PROVE FramebuffersFit'
  BY <1>0, <1>11
     DEF FramebuffersFit, AppTypes, ChainTypes, PassOrderKept,
         SkipRecreation, SkipFrame, NextPass
<1>12. ASSUME WaitTimeline PROVE FramebuffersFit'
  BY <1>0, <1>12
     DEF FramebuffersFit, AppTypes, ChainTypes, PassOrderKept,
         WaitTimeline, chainVars
<1>13. ASSUME AcquireImage PROVE FramebuffersFit'
  BY <1>0, <1>13
     DEF FramebuffersFit, AppTypes, ChainTypes, PassOrderKept,
         AcquireImage, chainVars
<1>14. ASSUME FailAcquire PROVE FramebuffersFit'
  BY <1>0, <1>14
     DEF FramebuffersFit, AppTypes, ChainTypes, PassOrderKept,
         FailAcquire, SkipFrame, NextPass
<1>15. ASSUME SkipPass PROVE FramebuffersFit'
  BY <1>0, <1>15
     DEF FramebuffersFit, AppTypes, ChainTypes, PassOrderKept,
         SkipPass, chainVars, NextPass
<1>16. ASSUME RecordPass PROVE FramebuffersFit'
  BY <1>0, <1>16
     DEF FramebuffersFit, AppTypes, ChainTypes, PassOrderKept,
         RecordPass, chainVars, NextPass
<1>17. ASSUME SubmitFrame PROVE FramebuffersFit'
  BY <1>0, <1>17
     DEF FramebuffersFit, AppTypes, ChainTypes, PassOrderKept,
         SubmitFrame, chainVars, NextPass
<1>18. ASSUME Present PROVE FramebuffersFit'
  BY <1>0, <1>18
     DEF FramebuffersFit, AppTypes, ChainTypes, PassOrderKept,
         Present, PresentReady, chainVars
<1>19. ASSUME NEW j \in jobs, RetireJob(j) PROVE FramebuffersFit'
  BY <1>0, <1>19
     DEF FramebuffersFit, AppTypes, ChainTypes, PassOrderKept,
         RetireJob, appVars, chainVars
<1>20. ASSUME NEW s \in Surfaces, NEW f \in Slots, SignalImageAvailable(s, f) PROVE FramebuffersFit'
  BY <1>0, <1>20
     DEF FramebuffersFit, AppTypes, ChainTypes, PassOrderKept,
         SignalImageAvailable, appVars, chainVars
<1>21. ASSUME NEW p \in presents, CompletePresent(p) PROVE FramebuffersFit'
  BY <1>0, <1>21
     DEF FramebuffersFit, AppTypes, ChainTypes, PassOrderKept,
         CompletePresent, appVars, chainVars
<1>22. ASSUME NEW s \in Surfaces, ResizeWindow(s) PROVE FramebuffersFit'
  BY <1>0, <1>22
     DEF FramebuffersFit, AppTypes, ChainTypes, PassOrderKept,
         ResizeWindow, appVars, chainVars
<1>23. CASE UNCHANGED vars
  BY <1>23 DEF FramebuffersFit, vars, appVars, chainVars
<1> QED
  BY <1>1, <1>2, <1>3, <1>4, <1>5, <1>6, <1>7, <1>8, <1>9, <1>10, <1>11, <1>12,
     <1>13, <1>14, <1>15, <1>16, <1>17, <1>18, <1>19, <1>20, <1>21, <1>22, <1>23
     DEF Next, AppStep, ExecuteStep, DeviceStep, Stopped

(* The invariant holds initially, and as long as the framebuffers fit every  *)
(* step keeps it.                                                             *)
LEMMA ChainInit == Init => ChainInv
<1> SUFFICES ASSUME Init PROVE ChainInv
  OBVIOUS
<1> QED BY DEF Init, ChainInv, FramebuffersFit, ImagesInChain, FramesOnTime, InLoop, PerSlot

LEMMA FitsBefore == [Next]_vars /\ TypeOK /\ Fits' => Fits
<1> SUFFICES ASSUME [Next]_vars, TypeOK, updates' = 0 PROVE updates = 0
  BY DEF Fits
<1>1. updates \in Nat
  BY DEF TypeOK, AppTypes
<1>2. ASSUME NEW s \in Surfaces, UpdateSurface(s) PROVE FALSE
  BY <1>1, <1>2 DEF UpdateSurface
<1>3. ASSUME FinishUpdateSurface PROVE updates' = updates
  BY <1>3 DEF FinishUpdateSurface
<1>4. ASSUME Present PROVE updates' = updates
  BY <1>4 DEF Present, PresentReady
<1>5. ASSUME ExecuteStep PROVE updates' = updates
  BY <1>5 DEF ExecuteStep, ExecuteSurface, SkipComputePass, RunPassCallback, KeepSwapchain,
     RecreateSwapchain, SkipRecreation, WaitTimeline, AcquireImage, FailAcquire, SkipFrame,
     SkipPass, RecordPass, SubmitFrame
<1>6. ASSUME DeviceStep PROVE updates' = updates
  BY <1>6 DEF DeviceStep, RetireJob, SignalImageAvailable, CompletePresent, appVars
<1>7. ASSUME NEW s \in Surfaces, CreateSurface(s) \/ RemoveSurface(s) \/ ResizeWindow(s)
      PROVE  updates' = updates
  BY <1>7 DEF CreateSurface, RemoveSurface, ResizeWindow, appVars
<1>8. ASSUME NEW o \in PassOrders, NEW targets \in SUBSET live, BeginFrame(o, targets)
      PROVE  updates' = updates
  BY <1>8 DEF BeginFrame
<1>9. CASE UNCHANGED vars
  BY <1>9 DEF vars, appVars
<1> QED BY <1>2, <1>3, <1>4, <1>5, <1>6, <1>7, <1>8, <1>9 DEF Next, AppStep, Stopped

LEMMA FramesStep ==
    ASSUME TypeOK, PassOrderKept, LastPassRenders, ChainInv, [Next]_vars
    PROVE  ImagesInChain' /\ FramesOnTime'
<1>1. ASSUME ExecuteStep PROVE ImagesInChain' /\ FramesOnTime'
  BY <1>1, ExecuteSurfaceFrames, SkipComputePassFrames, RunPassCallbackFrames,
     KeepSwapchainFrames, RecreateSwapchainFrames, SkipRecreationFrames, WaitTimelineFrames,
     AcquireImageFrames, FailAcquireFrames, SkipPassFrames, RecordPassFrames, SubmitFrameFrames
     DEF ExecuteStep
<1>2. ASSUME AppStep PROVE ImagesInChain' /\ FramesOnTime'
  BY <1>1, <1>2, CreateSurfaceFrames, RemoveSurfaceFrames, UpdateSurfaceFrames,
     FinishUpdateSurfaceFrames, BeginFrameFrames, PresentFrames DEF AppStep
<1>3. ASSUME DeviceStep PROVE ImagesInChain' /\ FramesOnTime'
  BY <1>3, RetireJobFrames, SignalImageAvailableFrames, CompletePresentFrames DEF DeviceStep
<1>4. CASE UNCHANGED vars
  BY <1>4
     DEF vars, appVars, ringVars, chainVars, frameVars, gpuVars, windowVars, ChainInv,
         ImagesInChain, FramesOnTime, InLoop
<1> QED BY <1>2, <1>3, <1>4, ResizeWindowFrames DEF Next, Stopped

(* Render passes are recorded into framebuffers over the images of the       *)
(* present swapchain, across every recreation, as long as UpdateSurface,     *)
(* which replaces the swapchain without them, is not called.                 *)
THEOREM FramebuffersAreCurrent == Spec => [](updates = 0 => FramebuffersCurrent)
<1> DEFINE Inv == TypeOK /\ PassOrderKept /\ (Fits => FramebuffersFit)
<1>1. Init => Inv
  BY InductiveInit, ChainInit DEF IInv, ChainInv
<1>2. Inv /\ [Next]_vars => Inv'
  BY TypeStep, PassOrderStep, FitsBefore, FitStep
<1>3. Inv => (updates = 0 => FramebuffersCurrent)
  BY DEF Fits, FramebuffersFit, FramebuffersCurrent, PassOrderKept, TypeOK, AppTypes
<1> HIDE DEF Inv
<1> QED BY <1>1, <1>2, <1>3, PTL DEF Spec

(* Every acquired frame is submitted and presented within the frame that     *)
(* acquired it, as long as the framebuffers fit the swapchain's images.      *)
THEOREM FramesArePresented ==
    ASSUME LastPassRenders PROVE Spec => [](Fits => AcquiredFramesPresented)
<1> DEFINE Inv == TypeOK /\ PassOrderKept /\ (Fits => ChainInv)
<1>1. Init => Inv
  BY InductiveInit, ChainInit DEF IInv
<1>2. Inv /\ [Next]_vars => Inv'
  <2> SUFFICES ASSUME Inv, [Next]_vars, Fits' PROVE ChainInv'
    BY TypeStep, PassOrderStep
  <2>1. Fits /\ ChainInv
    BY FitsBefore
  <2> QED BY LastPassRenders, <2>1, FitStep, FramesStep DEF ChainInv
<1>3. Inv => (Fits => AcquiredFramesPresented)
  BY DEF ChainInv, FramesOnTime, AcquiredFramesPresented
<1> HIDE DEF Inv
<1> QED BY <1>1, <1>2, <1>3, PTL DEF Spec
-----------------------------------------------------------------------------
(* What the render thread waits for *)

(* What was asked of a slot's timeline it has reached, or a job in flight will *)
(* signal, or the frame that is recorded is still to submit.                   *)
ValuesAnswered ==
    \A s \in live, f \in Slots :
       \/ timeline[s][f] = timelineValue[s][f]
       \/ \E j \in jobs : j.surface = s /\ j.slot = f /\ j.value = timelineValue[s][f]
       \/ frameAcquired[s] /\ f = currentFrame

(* The acquire semaphore of a recorded frame and of a job is signalled, or is  *)
(* to be: no job waits for an acquire that was never made.                     *)
AcquiresAnswered ==
    /\ \A s \in live : frameAcquired[s] => imageAvailable[s][currentFrame] # "idle"
    /\ \A j \in jobs : imageAvailable[j.surface][j.slot] # "idle"

AnswersInv == ValuesAnswered /\ AcquiresAnswered

(* Only an acquire and the end of a frame change whether a frame is acquired. *)
LEMMA AnswerSteps ==
    ASSUME [Next]_vars
    PROVE  \/ \E s \in Surfaces : CreateSurface(s) \/ RemoveSurface(s)
           \/ AcquireImage
           \/ SubmitFrame
           \/ \E j \in jobs : RetireJob(j)
           \/ \E s \in Surfaces, f \in Slots : SignalImageAvailable(s, f)
           \/ Present
           \/ FailAcquire \/ SkipRecreation
           \/ UNCHANGED <<live, jobs, timeline, timelineValue, imageAvailable, frameAcquired,
                          currentFrame>>
BY DEF Next, AppStep, ExecuteStep, DeviceStep, Stopped, UpdateSurface, FinishUpdateSurface,
       BeginFrame, ExecuteSurface, SkipComputePass, RunPassCallback, KeepSwapchain,
       RecreateSwapchain, WaitTimeline, SkipPass, RecordPass, CompletePresent, ResizeWindow,
       vars, appVars, ringVars, chainVars, frameVars, gpuVars, windowVars

(* A frame that is recorded has its slot to itself: no job is in flight there. *)
LEMMA RecordedAlone ==
    ASSUME IInv, ChainInv, NEW s \in live, frameAcquired[s]
    PROVE  \A j \in jobs : ~(j.surface = s /\ j.slot = currentFrame)
<1>1. target = s /\ (pc = "record" \/ (pc = "graph" /\ passIndex > 1))
  BY DEF ChainInv, FramesOnTime
<1>2. commandBuffer[s][currentFrame] = "recording"
  BY <1>1 DEF IInv, WaitCoversSlot
<1> QED BY <1>2 DEF IInv, TypeOK, AppTypes, CommandBufferFree, InFlight

LEMMA CreateSurfaceAnswers ==
    ASSUME IInv, AnswersInv, NEW r \in Surfaces, CreateSurface(r)
    PROVE  AnswersInv'
<1> USE DEF CreateSurface, PerSlot, appVars, ringVars
<1>1. AppTypes /\ FrameTypes /\ GpuTypes /\ JobsAccounted
  BY DEF IInv, TypeOK
<1>2. ValuesAnswered'
  <2>1. ASSUME NEW s \in live', NEW f \in Slots
        PROVE  \/ timeline'[s][f] = timelineValue'[s][f]
               \/ \E j \in jobs' : j.surface = s /\ j.slot = f /\ j.value = timelineValue'[s][f]
               \/ frameAcquired'[s] /\ f = currentFrame'
    <3>1. CASE s = r
      BY <1>1, <3>1 DEF FrameTypes, GpuTypes
    <3>2. CASE s # r
      <4>1. s \in live /\ s \in Surfaces
        BY <1>1, <3>2 DEF AppTypes
      <4>2. /\ timeline'[s] = timeline[s] /\ timelineValue'[s] = timelineValue[s]
            /\ frameAcquired'[s] = frameAcquired[s] /\ jobs' = jobs /\ currentFrame' = currentFrame
        BY <1>1, <3>2, <4>1 DEF FrameTypes, GpuTypes
      <4> QED BY <4>1, <4>2 DEF AnswersInv, ValuesAnswered
    <3> QED BY <3>1, <3>2
  <2> QED BY <2>1 DEF ValuesAnswered
<1>3. AcquiresAnswered'
  <2>1. \A s \in Surfaces : s # r => /\ imageAvailable'[s] = imageAvailable[s]
                                     /\ frameAcquired'[s] = frameAcquired[s]
    BY <1>1 DEF FrameTypes, GpuTypes
  <2>2. ~frameAcquired'[r] /\ jobs' = jobs /\ currentFrame' = currentFrame
    BY <1>1 DEF FrameTypes
  <2>3. \A j \in jobs : j.surface # r /\ j.surface \in Surfaces
    BY <1>1 DEF JobsAccounted, AppTypes
  <2>4. live' = live \cup {r} /\ live \subseteq Surfaces
    BY <1>1 DEF AppTypes
  <2> QED BY <2>1, <2>2, <2>3, <2>4 DEF AnswersInv, AcquiresAnswered
<1> QED BY <1>2, <1>3 DEF AnswersInv

LEMMA AcquireImageAnswers ==
    ASSUME IInv, AnswersInv, AcquireImage
    PROVE  AnswersInv'
<1> USE DEF AcquireImage, chainVars
<1>1. AppTypes /\ FrameTypes /\ GpuTypes /\ JobsAccounted
  BY DEF IInv, TypeOK
<1>2. target \in Surfaces /\ currentFrame \in Slots /\ live' = live /\ live \subseteq Surfaces
  BY <1>1 DEF IInv, PassOrderKept, AppTypes
<1>3. jobs' = jobs /\ timeline' = timeline /\ currentFrame' = currentFrame
  BY DEF ringVars
<1>4. frameAcquired'[target] /\ imageAvailable'[target][currentFrame] # "idle"
  BY <1>1, <1>2 DEF FrameTypes, GpuTypes
<1>5. \A s \in Surfaces : s # target => frameAcquired'[s] = frameAcquired[s]
  BY <1>1, <1>2 DEF FrameTypes
<1>6. \A s \in Surfaces, f \in Slots : s # target \/ f # currentFrame =>
        /\ timelineValue'[s][f] = timelineValue[s][f]
        /\ imageAvailable'[s][f] = imageAvailable[s][f]
  BY <1>1, <1>2 DEF FrameTypes, GpuTypes
<1>7. ValuesAnswered'
  <2>1. ASSUME NEW s \in live, NEW f \in Slots
        PROVE  \/ timeline[s][f] = timelineValue'[s][f]
               \/ \E j \in jobs : j.surface = s /\ j.slot = f /\ j.value = timelineValue'[s][f]
               \/ frameAcquired'[s] /\ f = currentFrame
    <3>1. CASE s = target /\ f = currentFrame
      BY <1>4, <3>1
    <3>2. CASE ~(s = target /\ f = currentFrame)
      BY <1>2, <1>4, <1>5, <1>6, <3>2 DEF AnswersInv, ValuesAnswered
    <3> QED BY <3>1, <3>2
  <2> QED BY <1>2, <1>3, <2>1 DEF ValuesAnswered
<1>8. AcquiresAnswered'
  <2>1. \A s \in Surfaces, f \in Slots :
          imageAvailable[s][f] # "idle" => imageAvailable'[s][f] # "idle"
    BY <1>4, <1>6
  <2>2. \A j \in jobs : j.surface \in Surfaces /\ j.slot \in Slots
    BY <1>1 DEF GpuTypes, Jobs
  <2>3. \A s \in live : frameAcquired'[s] => imageAvailable'[s][currentFrame] # "idle"
    BY <1>2, <1>4, <1>5, <2>1 DEF AnswersInv, AcquiresAnswered
  <2> QED BY <1>2, <1>3, <2>1, <2>2, <2>3 DEF AnswersInv, AcquiresAnswered
<1> QED BY <1>7, <1>8 DEF AnswersInv

LEMMA SubmitFrameAnswers ==
    ASSUME IInv, AnswersInv, ChainInv, SubmitFrame
    PROVE  AnswersInv'
<1> USE DEF SubmitFrame, chainVars
<1>1. AppTypes /\ FrameTypes /\ GpuTypes
  BY DEF IInv, TypeOK
<1>2. /\ target \in live /\ currentFrame \in Slots /\ live \subseteq Surfaces
      /\ frameAcquired[target]
  BY <1>1 DEF IInv, PassOrderKept, AppTypes, CanRecord
<1>3. /\ live' = live /\ timeline' = timeline /\ currentFrame' = currentFrame
      /\ timelineValue' = timelineValue /\ imageAvailable' = imageAvailable
  BY DEF ringVars
<1>4. PICK new \in jobs' : /\ new.surface = target /\ new.slot = currentFrame
                           /\ new.value = timelineValue[target][currentFrame]
                           /\ jobs' = jobs \cup {new}
  OBVIOUS
<1>5. \A s \in live : s # target => frameAcquired'[s] = frameAcquired[s]
  BY <1>1, <1>2 DEF FrameTypes
<1>6. ~frameAcquired'[target]
  BY <1>1, <1>2 DEF FrameTypes
<1>7. ValuesAnswered'
  <2>1. ASSUME NEW s \in live, NEW f \in Slots
        PROVE  \/ timeline[s][f] = timelineValue[s][f]
               \/ \E j \in jobs' : j.surface = s /\ j.slot = f /\ j.value = timelineValue[s][f]
               \/ frameAcquired'[s] /\ f = currentFrame
    BY <1>4, <1>5 DEF AnswersInv, ValuesAnswered
  <2> QED BY <1>3, <2>1 DEF ValuesAnswered
<1>8. AcquiresAnswered'
  <2>1. \A j \in jobs' : imageAvailable[j.surface][j.slot] # "idle"
    BY <1>2, <1>4 DEF AnswersInv, AcquiresAnswered
  <2>2. \A s \in live : frameAcquired'[s] => imageAvailable[s][currentFrame] # "idle"
    BY <1>5, <1>6 DEF AnswersInv, AcquiresAnswered
  <2> QED BY <1>3, <2>1, <2>2 DEF AcquiresAnswered
<1> QED BY <1>7, <1>8 DEF AnswersInv

LEMMA RetireJobAnswers ==
    ASSUME IInv, AnswersInv, ChainInv, NEW j \in jobs, RetireJob(j)
    PROVE  AnswersInv'
<1> USE DEF RetireJob, chainVars, ringVars, frameVars
<1>1. AppTypes /\ FrameTypes /\ GpuTypes /\ JobsAccounted
  BY DEF IInv, TypeOK
<1>2. /\ live' = live /\ timelineValue' = timelineValue /\ currentFrame' = currentFrame
      /\ frameAcquired' = frameAcquired /\ jobs' = jobs \ {j}
  OBVIOUS
<1>3. j.surface \in Surfaces /\ j.slot \in Slots /\ j.value \in Nat /\ live \subseteq Surfaces
  BY <1>1 DEF GpuTypes, Jobs, AppTypes
<1>4. \A s \in Surfaces, f \in Slots : s # j.surface \/ f # j.slot =>
         timeline'[s][f] = timeline[s][f] /\ imageAvailable'[s][f] = imageAvailable[s][f]
  BY <1>1, <1>3 DEF GpuTypes
<1>5. timeline'[j.surface][j.slot] = j.value
  BY <1>1, <1>3 DEF GpuTypes
<1>6. \A k \in jobs' : k \in jobs /\ ~(k.surface = j.surface /\ k.slot = j.slot)
  BY <1>1, <1>2 DEF JobsAccounted
<1>7. ValuesAnswered'
  <2>1. ASSUME NEW s \in live, NEW f \in Slots
        PROVE  \/ timeline'[s][f] = timelineValue[s][f]
               \/ \E k \in jobs' : k.surface = s /\ k.slot = f /\ k.value = timelineValue[s][f]
               \/ frameAcquired[s] /\ f = currentFrame
    <3>1. CASE s = j.surface /\ f = j.slot
      <4>1. /\ timeline[s][f] < j.value /\ j.value <= timelineValue[s][f]
            /\ timeline[s][f] \in Nat /\ timelineValue[s][f] \in Nat
        BY <1>1, <1>3, <3>1 DEF JobsAccounted, GpuTypes, FrameTypes
      <4>2. timeline[s][f] # timelineValue[s][f]
        BY <1>3, <4>1
      <4>3. \A k \in jobs : k.surface = s /\ k.slot = f => k = j
        BY <1>1, <3>1 DEF JobsAccounted
      <4>4. j.value = timelineValue[s][f] \/ (frameAcquired[s] /\ f = currentFrame)
        BY <4>2, <4>3 DEF AnswersInv, ValuesAnswered
      <4> QED BY <1>5, <3>1, <4>4
    <3>2. CASE ~(s = j.surface /\ f = j.slot)
      BY <1>2, <1>3, <1>4, <3>2 DEF AnswersInv, ValuesAnswered
    <3> QED BY <3>1, <3>2
  <2> QED BY <1>2, <2>1 DEF ValuesAnswered
<1>8. AcquiresAnswered'
  <2>1. \A s \in live : frameAcquired[s] => ~(s = j.surface /\ currentFrame = j.slot)
    BY RecordedAlone
  <2>2. \A s \in live : frameAcquired[s] => imageAvailable'[s][currentFrame] # "idle"
    BY <1>1, <1>3, <1>4, <2>1 DEF AnswersInv, AcquiresAnswered, AppTypes
  <2>3. \A k \in jobs' : imageAvailable'[k.surface][k.slot] # "idle"
    BY <1>1, <1>4, <1>6 DEF AnswersInv, AcquiresAnswered, GpuTypes, Jobs
  <2> QED BY <1>2, <2>2, <2>3 DEF AcquiresAnswered
<1> QED BY <1>7, <1>8 DEF AnswersInv

LEMMA OtherAnswers ==
    ASSUME IInv, AnswersInv, ChainInv,
           \/ \E s \in Surfaces : RemoveSurface(s)
           \/ \E s \in Surfaces, f \in Slots : SignalImageAvailable(s, f)
           \/ Present
           \/ FailAcquire \/ SkipRecreation
    PROVE  AnswersInv'
<1>1. AppTypes /\ FrameTypes /\ GpuTypes /\ PassOrderKept
  BY DEF IInv, TypeOK
<1>2. ASSUME NEW s \in Surfaces, RemoveSurface(s) PROVE AnswersInv'
  BY <1>2 DEF RemoveSurface, appVars, ringVars, frameVars, AnswersInv, ValuesAnswered, AcquiresAnswered
<1>3. ASSUME NEW s \in Surfaces, NEW f \in Slots, SignalImageAvailable(s, f) PROVE AnswersInv'
  <2>1. UNCHANGED <<live, jobs, timeline, timelineValue, frameAcquired, currentFrame>>
    BY <1>3 DEF SignalImageAvailable, chainVars, ringVars, frameVars
  <2>2. \A r \in Surfaces, g \in Slots :
          imageAvailable[r][g] # "idle" => imageAvailable'[r][g] # "idle"
    BY <1>1, <1>3 DEF SignalImageAvailable, GpuTypes
  <2>3. live \subseteq Surfaces /\ currentFrame \in Slots /\
        \A j \in jobs : j.surface \in Surfaces /\ j.slot \in Slots
    BY <1>1 DEF AppTypes, GpuTypes, Jobs
  <2>4. AcquiresAnswered'
    BY <2>1, <2>2, <2>3 DEF AnswersInv, AcquiresAnswered
  <2> QED BY <2>1, <2>4 DEF AnswersInv, ValuesAnswered
<1>4. CASE Present
  <2>1. \A s \in live : ~frameAcquired[s]
    BY <1>4 DEF Present, PresentReady, ChainInv, FramesOnTime
  <2>2. UNCHANGED <<live, jobs, timeline, timelineValue, imageAvailable, frameAcquired>>
    BY <1>4 DEF Present, PresentReady, chainVars
  <2> QED BY <2>1, <2>2 DEF AnswersInv, ValuesAnswered, AcquiresAnswered
<1>5. CASE FailAcquire \/ SkipRecreation
  <2>1. target \in live /\ ~frameAcquired[target]
    BY <1>1, <1>5 DEF FailAcquire, SkipRecreation, PassOrderKept, ChainInv, FramesOnTime
  <2>2. frameAcquired' = [frameAcquired EXCEPT ![target] = FALSE]
    BY <1>5 DEF FailAcquire, SkipRecreation, SkipFrame
  <2>3. frameAcquired' = frameAcquired
    BY <1>1, <2>1, <2>2, Zenon DEF FrameTypes
  <2>4. UNCHANGED <<live, jobs, timeline, timelineValue, imageAvailable, currentFrame>>
    BY <1>5 DEF FailAcquire, SkipRecreation, SkipFrame, ringVars
  <2> QED BY <2>3, <2>4 DEF AnswersInv, ValuesAnswered, AcquiresAnswered
<1> QED BY <1>2, <1>3, <1>4, <1>5

LEMMA AnswersStep ==
    ASSUME IInv, AnswersInv, ChainInv, [Next]_vars
    PROVE  AnswersInv'
<1>1. CASE UNCHANGED <<live, jobs, timeline, timelineValue, imageAvailable, frameAcquired,
                       currentFrame>>
  BY <1>1 DEF AnswersInv, ValuesAnswered, AcquiresAnswered
<1> QED BY <1>1, AnswerSteps, CreateSurfaceAnswers, AcquireImageAnswers, SubmitFrameAnswers,
           RetireJobAnswers, OtherAnswers

(* No wait of the render thread is for something nobody will do: the value the *)
(* first pass of a frame waits for was reached or is that of a job in flight,  *)
(* and every job in flight, which a device synchronisation waits for, has an   *)
(* acquire that signals its semaphore, whatever frames were skipped, surfaces  *)
(* removed or swapchains recreated (vulkan_raster_backend.ixx:778, 839-841, 1094-1137).   *)
WaitsAnswered ==
    /\ pc = "wait" /\ timeline[target][currentFrame] < timelineValue[target][currentFrame] =>
         \E j \in jobs : /\ j.surface = target /\ j.slot = currentFrame
                         /\ j.value = timelineValue[target][currentFrame]
    /\ \A j \in jobs : imageAvailable[j.surface][j.slot] # "idle"

THEOREM WaitsAreAnswered ==
    ASSUME FirstPassRenders, LastPassRenders PROVE Spec => [](Fits => WaitsAnswered)
<1> DEFINE Inv == IInv /\ (Fits => ChainInv /\ AnswersInv)
<1>1. Init => Inv
  <2>1. Init => AnswersInv
    BY DEF Init, AnswersInv, ValuesAnswered, AcquiresAnswered
  <2> QED BY <2>1, InductiveInit, ChainInit
<1>2. Inv /\ [Next]_vars => Inv'
  <2> SUFFICES ASSUME Inv, [Next]_vars PROVE Inv'
    OBVIOUS
  <2>1. TypeOK /\ PassOrderKept /\ IInv'
    BY FirstPassRenders, InductiveStep DEF IInv
  <2>2. ASSUME Fits' PROVE ChainInv' /\ AnswersInv'
    <3>1. Fits /\ ChainInv /\ AnswersInv
      BY <2>1, <2>2, FitsBefore
    <3> QED BY LastPassRenders, <2>1, <2>2, <3>1, FitStep, FramesStep, AnswersStep DEF ChainInv
  <2> QED BY <2>1, <2>2
<1>3. Inv => (Fits => WaitsAnswered)
  <2> SUFFICES ASSUME IInv, ChainInv, AnswersInv PROVE WaitsAnswered
    OBVIOUS
  <2>1. ASSUME pc = "wait", timeline[target][currentFrame] < timelineValue[target][currentFrame]
        PROVE  \E j \in jobs : /\ j.surface = target /\ j.slot = currentFrame
                               /\ j.value = timelineValue[target][currentFrame]
    <3>1. target \in live /\ target \in Surfaces /\ currentFrame \in Slots /\ ~frameAcquired[target]
      BY <2>1 DEF IInv, TypeOK, AppTypes, PassOrderKept, ChainInv, FramesOnTime
    <3>2. timeline[target][currentFrame] # timelineValue[target][currentFrame]
      BY <2>1, <3>1 DEF IInv, TypeOK, GpuTypes, FrameTypes
    <3> QED BY <3>1, <3>2 DEF AnswersInv, ValuesAnswered
  <2> QED BY <2>1 DEF WaitsAnswered, AnswersInv, AcquiresAnswered
<1> HIDE DEF Inv
<1> QED BY <1>1, <1>2, <1>3, PTL DEF Spec
=============================================================================
