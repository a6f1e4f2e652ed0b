------------------------ MODULE FiberAlgorithm_proofs ------------------------
(***************************************************************************)
(* Proofs about the scheduling algorithm, for every number of threads and  *)
(* fibers and every set of parameters tasks are launched with.             *)
(***************************************************************************)
EXTENDS FiberAlgorithm, SequenceTheorems, TLAPS

(* What a thread needs in hand at each place of its program. *)
Handed ==
    \A t \in Threads :
        /\ pc[t] \in {"run", "properties", "unlink", "push", "notify", "signal"} =>
              running[t] \in Fibers
        /\ pc[t] \in {"properties", "unlink", "push"} => job[t] \in Fibers

TypeInv == TypeOK /\ Handed

Queues == Seq(Contexts)

-----------------------------------------------------------------------------
(* Sequences *)

(* A queue stays a queue as a context joins it. *)
LEMMA AppendType ==
    ASSUME NEW S, NEW s \in Seq(S), NEW c \in S
    PROVE  Append(s, c) \in Seq(S) /\ Append(s, c) # << >>
BY AppendProperties

(* The front of a queue, and the rest. *)
LEMMA FrontType ==
    ASSUME NEW S, NEW s \in Seq(S), s # << >>
    PROVE  Head(s) \in S /\ Tail(s) \in Seq(S)
BY HeadTailProperties

(* A queue stays a queue as a context is taken out of it. *)
LEMMA RemoveAtType ==
    ASSUME NEW S, NEW s \in Seq(S), NEW i \in DOMAIN s
    PROVE  RemoveAt(s, i) \in Seq(S)
<1>1. i \in 1 .. Len(s) /\ Len(s) \in Nat
  BY LenProperties
<1>2. SubSeq(s, 1, i - 1) \in Seq(S) /\ SubSeq(s, i + 1, Len(s)) \in Seq(S)
  BY <1>1, SubSeqProperties
<1> QED BY <1>2, ConcatProperties DEF RemoveAt

(* A queue that changes leaves the others alone. *)
LEMMA AwakenType ==
    ASSUME TypeOK, NEW t \in Threads, NEW c \in Contexts
    PROVE  Awaken(t, c) \in [Threads -> [Levels -> Queues]]
<1>1. Priority(c) \in Levels
  BY DEF TypeOK, Contexts, Priority, Levels
<1>2. local \in [Threads -> [Levels -> Queues]]
  BY DEF TypeOK, Queues
<1>3. Append(local[t][Priority(c)], c) \in Queues
  BY <1>1, <1>2, AppendType DEF Queues
<1> QED BY <1>1, <1>2, <1>3, Zenon DEF Awaken

-----------------------------------------------------------------------------
(* Type correctness, action by action *)

LEMMA TypeInit == Init => TypeInv
<1> SUFFICES ASSUME Init PROVE TypeInv
  OBVIOUS
<1>1. << >> \in Queues /\ << >> \in Seq(Fibers) /\ <<Dispatcher>> \in Queues
  BY EmptySeq DEF Queues, Contexts
<1>2. MainFiber \in Fibers /\ MainThread \in Threads
  BY FibersAssumption, ThreadsAssumption
<1>3. local \in [Threads -> [Levels -> Queues]]
  BY <1>1 DEF Init, Empty, Levels, HIGH
<1>4. shared \in [Threads -> [Levels -> Seq(Fibers)]]
  BY <1>1 DEF Init, Empty
<1>5. /\ remote \in [Threads -> Seq(Fibers)]
      /\ drained \in [Threads -> Seq(Fibers)]
  BY <1>1 DEF Init
<1>6. /\ props \in [Fibers -> Levels \X (Threads \cup {AnyThread})]
      /\ wanted \in [Threads -> Levels \X (Threads \cup {AnyThread})]
  BY DEF Init, Default, Levels, HIGH, UX
<1>7. Handed
  BY <1>2 DEF Init, Handed
<1> QED BY <1>2, <1>3, <1>4, <1>5, <1>6, <1>7
        DEF Init, TypeInv, TypeOK, Queues, Statuses, Labels, Contexts, ScanEnd

(* Launching a fiber. *)
LEMMA LaunchType ==
    ASSUME TypeInv, NEW t \in Threads,
           \/ \E f \in Fibers, w \in Parameters : Post(t, f, w)
           \/ \E f \in Fibers : Dispatch(t, f)
           \/ SetProperties(t)
           \/ Unlink(t)
    PROVE  TypeInv'
<1>1. CASE \E f \in Fibers, w \in Parameters : Post(t, f, w)
  <2> PICK f \in Fibers, w \in Parameters : Post(t, f, w)
    BY <1>1
  <2>1. local' \in [Threads -> [Levels -> Seq(Contexts)]]
    BY AwakenType DEF Post, Queues, Contexts, TypeInv
  <2>2. w \in Levels \X (Threads \cup {AnyThread})
    BY ParametersAssumption
  <2>3. TypeOK'
    BY <2>1, <2>2 DEF Post, TypeInv, TypeOK, Goto, pickVars, Labels, Statuses
  <2>4. Handed'
    BY DEF Post, TypeInv, TypeOK, Handed, Goto, pickVars
  <2> QED BY <2>3, <2>4 DEF TypeInv
<1>2. CASE \E f \in Fibers : Dispatch(t, f)
  <2> PICK f \in Fibers : Dispatch(t, f)
    BY <1>2
  <2>1. running[t] \in Fibers
    BY DEF Dispatch, TypeInv, Handed
  <2>2. local' \in [Threads -> [Levels -> Seq(Contexts)]]
    BY <2>1, AwakenType DEF Dispatch, Queues, Contexts, TypeInv
  <2>3. TypeOK'
    BY <2>2 DEF Dispatch, TypeInv, TypeOK, launchVars, Statuses, Contexts
  <2>4. Handed'
    BY DEF Dispatch, TypeInv, TypeOK, Handed, launchVars
  <2> QED BY <2>3, <2>4 DEF TypeInv
<1>3. CASE SetProperties(t)
  <2>1. job[t] \in Fibers /\ wanted[t] \in Levels \X (Threads \cup {AnyThread})
    BY <1>3 DEF SetProperties, TypeInv, TypeOK, Handed
  <2>2. Default \in Levels \X (Threads \cup {AnyThread})
    BY DEF Default, Levels, HIGH
  <2>3. TypeOK'
    BY <1>3, <2>1, <2>2 DEF SetProperties, TypeInv, TypeOK, Goto, queueVars, pickVars, Labels
  <2>4. Handed'
    BY <1>3 DEF SetProperties, TypeInv, TypeOK, Handed, Goto, pickVars
  <2> QED BY <2>3, <2>4 DEF TypeInv
<1>4. CASE Unlink(t)
  <2>1. PICK i \in DOMAIN local[t][HIGH] : local' = [local EXCEPT ![t][HIGH] = RemoveAt(@, i)]
    BY <1>4 DEF Unlink
  <2>2. local[t][HIGH] \in Seq(Contexts)
    BY DEF TypeInv, TypeOK, Levels, HIGH
  <2>3. RemoveAt(local[t][HIGH], i) \in Seq(Contexts)
    BY <2>2, RemoveAtType
  <2>4. local' \in [Threads -> [Levels -> Seq(Contexts)]]
    BY <2>1, <2>3 DEF TypeInv, TypeOK
  <2>5. TypeOK'
    BY <1>4, <2>4 DEF Unlink, TypeInv, TypeOK, Goto, fiberVars, pickVars, launchVars, Labels
  <2>6. Handed'
    BY <1>4 DEF Unlink, TypeInv, TypeOK, Handed, Goto, fiberVars, pickVars, launchVars
  <2> QED BY <2>5, <2>6 DEF TypeInv
<1> QED BY <1>1, <1>2, <1>3, <1>4

(* Moving a fiber to the queue its properties ask for. *)
LEMMA PushType ==
    ASSUME TypeInv, NEW t \in Threads, PushRequired(t) \/ PushShared(t)
    PROVE  TypeInv'
<1>1. job[t] \in Fibers /\ running[t] \in Fibers
  BY DEF PushRequired, PushShared, TypeInv, Handed
<1>2. Priority(job[t]) \in Levels /\ Required(job[t]) \in Threads \cup {AnyThread}
  BY <1>1, FibersAssumption DEF TypeInv, TypeOK, Priority, Required
<1>3. CASE PushRequired(t)
  <2> DEFINE r == Required(job[t])
             p == Priority(job[t])
  <2>1. r \in Threads
    BY <1>2, <1>3 DEF PushRequired
  <2>2. Append(local[r][p], job[t]) \in Seq(Contexts)
    <3>1. local \in [Threads -> [Levels -> Seq(Contexts)]] /\ job[t] \in Contexts
      BY <1>1 DEF TypeInv, TypeOK, Contexts
    <3>2. local[r][p] \in Seq(Contexts)
      BY <1>2, <2>1, <3>1
    <3> QED BY <3>1, <3>2, AppendType
  <2>3. local' \in [Threads -> [Levels -> Seq(Contexts)]]
    <3>1. CASE local' = [local EXCEPT ![r][p] = Append(@, job[t])]
      BY <1>2, <2>1, <2>2, <3>1 DEF TypeInv, TypeOK
    <3>2. CASE local' = local
      BY <3>2 DEF TypeInv, TypeOK
    <3> QED BY <1>3, <3>1, <3>2 DEF PushRequired
  <2>4. TypeOK'
    BY <1>3, <2>1, <2>3 DEF PushRequired, TypeInv, TypeOK, Crash, Goto, fiberVars, pickVars, Labels
  <2>5. Handed'
    BY <1>1, <1>3 DEF PushRequired, TypeInv, TypeOK, Handed, Crash, Goto, fiberVars, pickVars
  <2> QED BY <2>4, <2>5 DEF TypeInv
<1>4. CASE PushShared(t)
  <2>1. Append(shared[t][Priority(job[t])], job[t]) \in Seq(Fibers)
    BY <1>1, <1>2, AppendType DEF TypeInv, TypeOK
  <2>2. shared' \in [Threads -> [Levels -> Seq(Fibers)]]
    BY <1>2, <1>4, <2>1 DEF PushShared, TypeInv, TypeOK
  <2>3. TypeOK'
    <3>1. target' \in [Threads -> Threads] /\ pc' \in [Threads -> Labels]
      <4>1. target \in [Threads -> Threads] /\ pc \in [Threads -> Labels]
        BY DEF TypeInv, TypeOK
      <4>2. "run" \in Labels /\ "notify" \in Labels
        BY DEF Labels
      <4> QED BY <1>4, <4>1, <4>2 DEF PushShared, Goto
    <3>2. job' \in [Threads -> Fibers \cup {NoFiber}]
      BY <1>4 DEF PushShared, TypeInv, TypeOK
    <3> QED BY <1>4, <2>2, <3>1, <3>2 DEF PushShared, TypeInv, TypeOK, fiberVars, pickVars
  <2>4. Handed'
    BY <1>1, <1>4 DEF PushShared, TypeInv, TypeOK, Handed, Goto, fiberVars, pickVars
  <2> QED BY <2>3, <2>4 DEF TypeInv
<1> QED BY <1>3, <1>4

(* Waking a fiber, and notifying a thread. *)
LEMMA NotifyType ==
    ASSUME TypeInv, NEW t \in Threads,
           (\E f \in Fibers : Wake(t, f)) \/ Notify(t) \/ Signal(t)
    PROVE  TypeInv'
<1>1. CASE \E f \in Fibers : Wake(t, f)
  <2> PICK f \in Fibers : Wake(t, f)
    BY <1>1
  <2>1. home[f] \in Threads
    BY DEF TypeInv, TypeOK
  <2>2. local' \in [Threads -> [Levels -> Seq(Contexts)]]
    <3>1. CASE local' = Awaken(t, f)
      BY <3>1, AwakenType DEF TypeInv, Queues, Contexts
    <3>2. CASE local' = local
      BY <3>2 DEF TypeInv, TypeOK
    <3> QED BY <3>1, <3>2 DEF Wake
  <2>3. remote' \in [Threads -> Seq(Fibers)]
    <3>1. remote[home[f]] \in Seq(Fibers)
      BY <2>1 DEF TypeInv, TypeOK
    <3>2. Append(remote[home[f]], f) \in Seq(Fibers)
      BY <3>1, AppendType
    <3> QED BY <2>1, <3>2 DEF Wake, TypeInv, TypeOK
  <2>4. TypeOK'
    BY <2>1, <2>2, <2>3 DEF Wake, TypeInv, TypeOK, Goto, pickVars, Labels, Statuses
  <2>5. Handed'
    BY DEF Wake, TypeInv, TypeOK, Handed, Goto, pickVars
  <2> QED BY <2>4, <2>5 DEF TypeInv
<1>2. CASE Notify(t)
  <2>1. TypeOK'
    BY <1>2 DEF Notify, TypeInv, TypeOK, Crash, Goto, queueVars, fiberVars, pickVars, launchVars, Labels
  <2>2. Handed'
    BY <1>2 DEF Notify, TypeInv, TypeOK, Handed, Crash, Goto, pickVars, launchVars
  <2> QED BY <2>1, <2>2 DEF TypeInv
<1>3. CASE Signal(t)
  <2>1. TypeOK'
    BY <1>3 DEF Signal, TypeInv, TypeOK, queueVars, fiberVars, pickVars, Labels
  <2>2. Handed'
    BY <1>3 DEF Signal, TypeInv, TypeOK, Handed, pickVars
  <2> QED BY <2>1, <2>2 DEF TypeInv
<1> QED BY <1>1, <1>2, <1>3

(* The running fiber gives way. *)
LEMMA GiveWayType ==
    ASSUME TypeInv, NEW t \in Threads,
           Yield(t) \/ (\E how \in {"blocked", "timed"} : Suspend(t, how)) \/ Finish(t)
    PROVE  TypeInv'
<1>1. running[t] \in Fibers
  BY DEF Yield, Suspend, Finish, TypeInv, Handed
<1>2. switches' \in Nat
  BY DEF Yield, Suspend, Finish, TypeInv, TypeOK
<1>3. PICK st \in Statuses, c \in {running[t], NoFiber} :
        status' = [status EXCEPT ![running[t]] = st] /\ StartPick(t, c)
  BY DEF Yield, Suspend, Finish, Statuses
<1>4. UNCHANGED <<registered, queueVars, sleepFlag, props, home, launchVars>>
  BY DEF Yield, Suspend, Finish
<1>5. TypeOK'
  <2>1. status' \in [Fibers -> Statuses]
    BY <1>1, <1>3 DEF TypeInv, TypeOK
  <2>2. pc' \in [Threads -> Labels] /\ scan' \in [Threads -> 0 .. ScanEnd]
    BY <1>3 DEF TypeInv, TypeOK, StartPick, Labels, ScanEnd
  <2>3. c \in Contexts \cup {NoFiber}
    BY <1>1, <1>3 DEF Contexts
  <2>4. /\ yielded' \in [Threads -> Contexts \cup {NoFiber}]
        /\ running' \in [Threads -> Contexts \cup {NoFiber}]
    BY <1>3, <2>3 DEF TypeInv, TypeOK, StartPick
  <2> QED BY <1>2, <1>4, <2>1, <2>2, <2>4 DEF TypeInv, TypeOK, queueVars, launchVars
<1>6. Handed'
  BY <1>3, <1>4 DEF TypeInv, TypeOK, Handed, StartPick, launchVars
<1> QED BY <1>5, <1>6 DEF TypeInv

(* Switching to a picked context. *)
LEMMA SwitchType ==
    ASSUME TypeInv, NEW t \in Threads, NEW c \in Contexts,
           NEW queues \in [Threads -> [Levels -> Seq(Contexts)]],
           SwitchTo(t, c, queues),
           shared' \in [Threads -> [Levels -> Seq(Fibers)]]
    PROVE  TypeInv'
<1>1. local' \in [Threads -> [Levels -> Seq(Contexts)]]
  <2>1. CASE yielded[t] = NoFiber
    BY <2>1 DEF SwitchTo
  <2>2. CASE yielded[t] # NoFiber
    <3>1. yielded[t] \in Contexts
      BY <2>2 DEF TypeInv, TypeOK
    <3>2. Priority(yielded[t]) \in Levels
      BY <3>1 DEF TypeInv, TypeOK, Contexts, Priority, Levels
    <3>3. Append(queues[t][Priority(yielded[t])], yielded[t]) \in Seq(Contexts)
      BY <3>1, <3>2, AppendType
    <3> QED BY <2>2, <3>2, <3>3 DEF SwitchTo
  <2> QED BY <2>1, <2>2
<1>2. c # Dispatcher => c \in Fibers
  BY DEF Contexts
<1>3. TypeOK'
  <2>1. /\ pc' \in [Threads -> Labels]
        /\ status' \in [Fibers -> Statuses]
        /\ home' \in [Fibers -> Threads]
    <3>1. /\ pc \in [Threads -> Labels]
          /\ status \in [Fibers -> Statuses]
          /\ home \in [Fibers -> Threads]
      BY DEF TypeInv, TypeOK
    <3>2. "drain" \in Labels /\ "run" \in Labels /\ "running" \in Statuses
      BY DEF Labels, Statuses
    <3> QED BY <1>2, <3>1, <3>2 DEF SwitchTo, Goto
  <2>2. /\ scan' \in [Threads -> 0 .. ScanEnd]
        /\ yielded' \in [Threads -> Contexts \cup {NoFiber}]
        /\ running' \in [Threads -> Contexts \cup {NoFiber}]
    BY DEF SwitchTo, TypeInv, TypeOK, ScanEnd
  <2> QED BY <1>1, <2>1, <2>2 DEF SwitchTo, TypeInv, TypeOK, launchVars
<1>4. Handed'
  BY <1>2 DEF SwitchTo, TypeInv, TypeOK, Handed, Goto, launchVars
<1> QED BY <1>3, <1>4 DEF TypeInv

(* Looking for the next context. *)
LEMMA PickType ==
    ASSUME TypeInv, NEW t \in Threads, PickStep(t)
    PROVE  TypeInv'
<1>1. ASSUME NEW p \in Levels, pc[t] = "pick", scan[t] < ScanEnd, ScanOn(t)
      PROVE  TypeInv'
  <2>1. TypeOK'
    <3>1. scan' \in [Threads -> 0 .. ScanEnd]
      <4>1. scan \in [Threads -> 0 .. ScanEnd] /\ ScanEnd \in Nat
        BY DEF TypeInv, TypeOK, ScanEnd
      <4>2. scan[t] + 1 \in 0 .. ScanEnd
        BY <1>1, <4>1
      <4> QED BY <1>1, <4>1, <4>2 DEF ScanOn
    <3> QED BY <1>1, <3>1 DEF ScanOn, TypeInv, TypeOK, queueVars, fiberVars, launchVars
  <2>2. Handed'
    BY <1>1 DEF ScanOn, TypeInv, Handed, launchVars
  <2> QED BY <2>1, <2>2 DEF TypeInv
<1>2. ASSUME NEW p \in Levels, PickLocal(t, p)
      PROVE  TypeInv'
  <2>1. CASE local[t][p] = << >>
    <3>1. pc[t] = "pick" /\ scan[t] < ScanEnd /\ ScanOn(t)
      BY <1>2, <2>1 DEF PickLocal, AtLocal, Levels, UX, HIGH, LOW, ScanEnd
    <3> QED BY <1>1, <3>1
  <2>2. CASE local[t][p] # << >>
    <3>1. Head(local[t][p]) \in Contexts /\ Tail(local[t][p]) \in Seq(Contexts)
      BY <2>2, FrontType DEF TypeInv, TypeOK
    <3>2. [local EXCEPT ![t][p] = Tail(@)] \in [Threads -> [Levels -> Seq(Contexts)]]
      BY <3>1 DEF TypeInv, TypeOK
    <3>3. shared' \in [Threads -> [Levels -> Seq(Fibers)]]
      BY <1>2, <2>2 DEF PickLocal, TypeInv, TypeOK
    <3> QED BY <1>2, <2>2, <3>1, <3>2, <3>3, SwitchType DEF PickLocal
  <2> QED BY <2>1, <2>2
<1>3. ASSUME NEW u \in Threads, NEW p \in Levels, shared[u][p] # << >>,
             SwitchTo(t, Head(shared[u][p]), local), shared' = [shared EXCEPT ![u][p] = Tail(@)]
      PROVE  TypeInv'
  <2>1. Head(shared[u][p]) \in Fibers /\ Tail(shared[u][p]) \in Seq(Fibers)
    BY <1>3, FrontType DEF TypeInv, TypeOK
  <2>2. shared' \in [Threads -> [Levels -> Seq(Fibers)]]
    BY <1>3, <2>1 DEF TypeInv, TypeOK
  <2>3. local \in [Threads -> [Levels -> Seq(Contexts)]] /\ Head(shared[u][p]) \in Contexts
    BY <2>1 DEF TypeInv, TypeOK, Contexts
  <2> QED BY <1>3, <2>2, <2>3, SwitchType
<1>4. ASSUME NEW p \in Levels, GiveUp(t, p)
      PROVE  TypeInv'
  <2>1. pc[t] = "pick" /\ scan[t] < ScanEnd /\ ScanOn(t)
    BY <1>4 DEF GiveUp, AtShared, Levels, UX, HIGH, LOW, ScanEnd
  <2> QED BY <1>1, <2>1, <1>4
<1>5. CASE PickNothing(t)
  <2>1. TypeOK'
    BY <1>5 DEF PickNothing, TypeInv, TypeOK, Goto, queueVars, fiberVars, launchVars, Labels,
                Contexts, ScanEnd
  <2>2. Handed'
    BY <1>5 DEF PickNothing, TypeInv, TypeOK, Handed, Goto, launchVars
  <2> QED BY <2>1, <2>2 DEF TypeInv
<1> QED BY <1>2, <1>3, <1>4, <1>5 DEF PickStep, PickShared, Steal

(* The dispatcher at work. *)
LEMMA DispatchType ==
    ASSUME TypeInv, NEW t \in Threads, DispatchStep(t)
    PROVE  TypeInv'
<1>1. CASE Drain(t)
  <2>1. << >> \in Seq(Fibers)
    BY EmptySeq
  <2>2. TypeOK'
    BY <1>1, <2>1 DEF Drain, TypeInv, TypeOK, Goto, fiberVars, pickVars, launchVars, Labels
  <2>3. Handed'
    BY <1>1 DEF Drain, TypeInv, TypeOK, Handed, Goto, pickVars, launchVars
  <2> QED BY <2>2, <2>3 DEF TypeInv
<1>2. CASE AwakenRemote(t)
  <2>1. Head(drained[t]) \in Fibers /\ Tail(drained[t]) \in Seq(Fibers)
    BY <1>2, FrontType DEF AwakenRemote, TypeInv, TypeOK
  <2>2. local' \in [Threads -> [Levels -> Seq(Contexts)]]
    BY <1>2, <2>1, AwakenType DEF AwakenRemote, TypeInv, Queues, Contexts
  <2>3. TypeOK'
    BY <1>2, <2>1, <2>2 DEF AwakenRemote, TypeInv, TypeOK, fiberVars, pickVars, launchVars
  <2>4. Handed'
    BY <1>2 DEF AwakenRemote, TypeInv, Handed, pickVars, launchVars
  <2> QED BY <2>3, <2>4 DEF TypeInv
<1>3. ASSUME NEW f \in Fibers, AwakenDue(t, f)
      PROVE  TypeInv'
  <2>1. local' \in [Threads -> [Levels -> Seq(Contexts)]]
    BY <1>3, AwakenType DEF AwakenDue, TypeInv, Queues, Contexts
  <2>2. TypeOK'
    BY <1>3, <2>1 DEF AwakenDue, TypeInv, TypeOK, pickVars, launchVars, Statuses
  <2>3. Handed'
    BY <1>3 DEF AwakenDue, TypeInv, Handed, pickVars, launchVars
  <2> QED BY <2>2, <2>3 DEF TypeInv
<1>4. CASE Drained(t)
  <2>1. TypeOK'
    BY <1>4 DEF Drained, StartPick, TypeInv, TypeOK, queueVars, fiberVars, launchVars, Labels,
                Contexts, ScanEnd
  <2>2. Handed'
    BY <1>4 DEF Drained, StartPick, TypeInv, TypeOK, Handed, launchVars
  <2> QED BY <2>1, <2>2 DEF TypeInv
<1>5. CASE SkipSleep(t) \/ Sleep(t) \/ TimeOut(t)
  <2>1. TypeOK'
    <3>1. pc' \in [Threads -> Labels] /\ sleepFlag' \in [Threads -> BOOLEAN]
      <4>1. pc \in [Threads -> Labels] /\ sleepFlag \in [Threads -> BOOLEAN]
        BY DEF TypeInv, TypeOK
      <4>2. "drain" \in Labels /\ "sleep" \in Labels
        BY DEF Labels
      <4> QED BY <1>5, <4>1, <4>2 DEF SkipSleep, Sleep, TimeOut, Goto
    <3>2. UNCHANGED <<registered, queueVars, fiberVars, pickVars, launchVars, switches>>
      BY <1>5 DEF SkipSleep, Sleep, TimeOut
    <3> QED BY <3>1, <3>2 DEF TypeInv, TypeOK, queueVars, fiberVars, pickVars, launchVars
  <2>2. Handed'
    BY <1>5 DEF SkipSleep, Sleep, TimeOut, TypeInv, TypeOK, Handed, Goto, pickVars, launchVars
  <2> QED BY <2>1, <2>2 DEF TypeInv
<1> QED BY <1>1, <1>2, <1>3, <1>4, <1>5 DEF DispatchStep

LEMMA TypeStep ==
    ASSUME TypeInv, [Next]_vars
    PROVE  TypeInv'
<1>1. ASSUME NEW t \in Threads, Register(t)
      PROVE  TypeInv'
  <2>1. TypeOK'
    BY <1>1 DEF Register, TypeInv, TypeOK, Goto, queueVars, fiberVars, launchVars, Labels, Contexts
  <2>2. Handed'
    BY <1>1 DEF Register, TypeInv, TypeOK, Handed, Goto, launchVars
  <2> QED BY <2>1, <2>2 DEF TypeInv
<1>2. ASSUME NEW t \in Threads, FiberStep(t)
      PROVE  TypeInv'
  BY <1>2, LaunchType, PushType, NotifyType, GiveWayType DEF FiberStep
<1>3. ASSUME NEW f \in Fibers, Expire(f)
      PROVE  TypeInv'
  <2>1. TypeOK'
    BY <1>3 DEF Expire, TypeInv, TypeOK, queueVars, pickVars, launchVars, Statuses
  <2>2. Handed'
    BY <1>3 DEF Expire, TypeInv, Handed, pickVars, launchVars
  <2> QED BY <2>1, <2>2 DEF TypeInv
<1>4. CASE UNCHANGED vars
  <2>1. TypeOK'
    BY <1>4 DEF vars, TypeInv, TypeOK, queueVars, fiberVars, pickVars, launchVars
  <2>2. Handed'
    BY <1>4 DEF vars, TypeInv, Handed, pickVars, launchVars
  <2> QED BY <2>1, <2>2 DEF TypeInv
<1> QED BY <1>1, <1>2, <1>3, <1>4, PickType, DispatchType DEF Next, ThreadStep, Stopped

(* Every thread's program counter, queues and flags have their types, with no *)
(* assumption on the constants beyond those FiberAlgorithm states.  Models    *)
(* the whole of algorithm.cpp and LaunchFiber.                                *)
THEOREM TypeCorrect == Spec => []TypeOK
<1>1. TypeInv /\ [Next]_vars => TypeInv'
  BY TypeStep
<1>2. TypeInv => TypeOK
  BY DEF TypeInv
<1> QED BY TypeInit, <1>1, <1>2, PTL DEF Spec

-----------------------------------------------------------------------------
(* No wake-up is lost *)

\* A notify for t is under way, or has left its mark.
Pending(t) == sleepFlag[t] \/ \E u \in Threads : pc[u] = "notify" /\ target[u] = t

\* What t has looked at and found empty has stayed empty, unless a notify is
\* pending for t.
Looked(t, p) ==
    \/ pc[t] \in {"suspend", "sleep"}
    \/ pc[t] = "pick" /\ scan[t] > 2 * p
LookedShared(t, p) ==
    \/ pc[t] \in {"suspend", "sleep"}
    \/ pc[t] = "pick" /\ scan[t] > 2 * p + 1

\* Why no wake-up is lost: a push to a queue that t has found empty, or taken
\* over from others, leaves a notify pending until t looks again; and a set
\* flag whose owner sleeps is about to be signalled.
WakeInv ==
    \A t \in Threads :
        /\ remote[t] # << >> => Pending(t) \/ pc[t] \in {"drain", "crashed"}
        /\ \A p \in Levels :
              /\ Looked(t, p) /\ local[t][p] # << >> => Pending(t)
              /\ LookedShared(t, p) => shared[t][p] = << >>
        /\ pc[t] = "sleep" /\ sleepFlag[t] =>
              \E u \in Threads : pc[u] = "signal" /\ target[u] = t

(* What the invariant says of one thread. *)
WakeOf(t) ==
    /\ remote[t] # << >> => Pending(t) \/ pc[t] \in {"drain", "crashed"}
    /\ \A p \in Levels :
          /\ Looked(t, p) /\ local[t][p] # << >> => Pending(t)
          /\ LookedShared(t, p) => shared[t][p] = << >>
    /\ pc[t] = "sleep" /\ sleepFlag[t] =>
          \E u \in Threads : pc[u] = "signal" /\ target[u] = t

LEMMA WakeSplit == WakeInv <=> \A t \in Threads : WakeOf(t)
BY DEF WakeInv, WakeOf

(* A notify stays pending while its sender and its mark stay. *)
LEMMA PendingKept ==
    ASSUME NEW t \in Threads, Pending(t),
           sleepFlag[t] => sleepFlag'[t],
           \A u \in Threads : pc[u] = "notify" => pc'[u] = "notify" /\ target'[u] = target[u]
    PROVE  Pending(t)'
BY DEF Pending

(* A step of t that sends no notification and leaves t neither asleep nor     *)
(* part of the way through its queues keeps the invariant, if it adds to no   *)
(* other thread's queues.                                                     *)
LEMMA QuietStep ==
    ASSUME WakeInv, NEW t \in Threads,
           UNCHANGED sleepFlag,
           \A u \in Threads : pc[u] \in {"notify", "signal"} =>
               pc'[u] = pc[u] /\ target'[u] = target[u],
           \A x \in Threads \ {t} : pc'[x] = pc[x] /\ scan'[x] = scan[x],
           \A x \in Threads \ {t}, p \in Levels :
               /\ local[x][p] = << >> => local'[x][p] = << >>
               /\ shared[x][p] = << >> => shared'[x][p] = << >>,
           \A x \in Threads : remote[x] = << >> => remote'[x] = << >>,
           pc'[t] \notin {"suspend", "sleep"},
           pc'[t] = "pick" => scan'[t] = 0,
           pc[t] \notin {"drain", "crashed"} \/ remote'[t] = << >>
    PROVE  WakeInv'
<1>1. \A x \in Threads : Pending(x) => Pending(x)'
  BY PendingKept
<1>2. \A p \in Levels : p \in Nat
  BY DEF Levels, UX, HIGH, LOW
<1>3. WakeOf(t)'
  <2>1. \A p \in Levels : ~Looked(t, p)' /\ ~LookedShared(t, p)'
    BY <1>2 DEF Looked, LookedShared
  <2>2. remote'[t] # << >> => Pending(t)'
    BY <1>1 DEF WakeInv
  <2> QED BY <2>1, <2>2 DEF WakeOf
<1>4. ASSUME NEW x \in Threads \ {t}
      PROVE  WakeOf(x)'
  <2>1. WakeOf(x)
    BY WakeSplit
  <2>2. pc'[x] = pc[x] /\ scan'[x] = scan[x]
    OBVIOUS
  <2>3. \A p \in Levels : (Looked(x, p)' <=> Looked(x, p)) /\ (LookedShared(x, p)' <=> LookedShared(x, p))
    BY <2>2 DEF Looked, LookedShared
  <2>4. remote'[x] # << >> => Pending(x)' \/ pc'[x] \in {"drain", "crashed"}
    BY <1>1, <2>1, <2>2 DEF WakeOf
  <2>5. \A p \in Levels :
          /\ Looked(x, p)' /\ local'[x][p] # << >> => Pending(x)'
          /\ LookedShared(x, p)' => shared'[x][p] = << >>
    BY <1>1, <2>1, <2>3 DEF WakeOf
  <2>6. pc'[x] = "sleep" /\ sleepFlag'[x] => \E u \in Threads : pc'[u] = "signal" /\ target'[u] = x
    BY <2>1, <2>2 DEF WakeOf
  <2> QED BY <2>4, <2>5, <2>6 DEF WakeOf
<1>5. \A x \in Threads : WakeOf(x)'
  BY <1>3, <1>4
<1>6. WakeInv' <=> \A x \in Threads : WakeOf(x)'
  BY DEF WakeInv, WakeOf
<1> QED BY <1>5, <1>6

(* The process died. *)
LEMMA CrashWakes ==
    ASSUME Crash
    PROVE  WakeInv'
BY DEF Crash, WakeInv, Looked, LookedShared

(* Types the steps below rely on. *)
LEMMA WakeTypes ==
    ASSUME TypeInv
    PROVE  /\ pc \in [Threads -> Labels]
           /\ scan \in [Threads -> 0 .. ScanEnd]
           /\ sleepFlag \in [Threads -> BOOLEAN]
           /\ target \in [Threads -> Threads]
           /\ local \in [Threads -> [Levels -> Queues]]
           /\ shared \in [Threads -> [Levels -> Seq(Fibers)]]
           /\ remote \in [Threads -> Seq(Fibers)]
           /\ home \in [Fibers -> Threads]
BY DEF TypeInv, TypeOK, Queues

(* Awakening on a thread leaves the queues of the others alone. *)
LEMMA AwakenOthers ==
    ASSUME TypeInv, NEW t \in Threads, NEW c, local' = Awaken(t, c)
    PROVE  \A x \in Threads \ {t} : local'[x] = local[x]
BY WakeTypes DEF Awaken

(* A fiber at work. *)
LEMMA LaunchWakes ==
    ASSUME TypeInv, WakeInv, NEW t \in Threads,
           \/ \E f \in Fibers, w \in Parameters : Post(t, f, w)
           \/ \E f \in Fibers : Dispatch(t, f)
           \/ SetProperties(t)
           \/ Unlink(t)
           \/ PushShared(t)
    PROVE  WakeInv'
<1>1. CASE \E f \in Fibers, w \in Parameters : Post(t, f, w)
  <2> PICK f \in Fibers, w \in Parameters : Post(t, f, w)
    BY <1>1
  <2>1. \A x \in Threads \ {t} : local'[x] = local[x]
    BY AwakenOthers DEF Post
  <2> QED BY <2>1, WakeTypes, QuietStep DEF Post, Goto, pickVars
<1>2. CASE \E f \in Fibers : Dispatch(t, f)
  <2> PICK f \in Fibers : Dispatch(t, f)
    BY <1>2
  <2>1. \A x \in Threads \ {t} : local'[x] = local[x]
    BY AwakenOthers DEF Dispatch
  <2> QED BY <2>1, WakeTypes, QuietStep DEF Dispatch, launchVars
<1>3. CASE SetProperties(t)
  BY <1>3, WakeTypes, QuietStep DEF SetProperties, Goto, queueVars, pickVars
<1>4. CASE Unlink(t)
  BY <1>4, WakeTypes, QuietStep DEF Unlink, Goto, pickVars, launchVars
<1>5. CASE PushShared(t)
  <2>1. \A x \in Threads \ {t} : pc'[x] = pc[x] /\ target'[x] = target[x] /\ shared'[x] = shared[x]
    BY <1>5, WakeTypes DEF PushShared, Goto
  <2>2. pc[t] = "push" /\ pc'[t] \in {"run", "notify"}
    BY <1>5, WakeTypes DEF PushShared, Goto
  <2>3. UNCHANGED <<local, remote, sleepFlag, scan>>
    BY <1>5 DEF PushShared, pickVars
  <2> QED BY <2>1, <2>2, <2>3, QuietStep
<1> QED BY <1>1, <1>2, <1>3, <1>4, <1>5

(* A step of t that puts something where r may already have looked, and is   *)
(* about to notify r.                                                        *)
LEMMA PushedStep ==
    ASSUME TypeInv, WakeInv, NEW t \in Threads, NEW r \in Threads,
           pc[t] \in {"push", "run"},
           pc' = [pc EXCEPT ![t] = "notify"], target' = [target EXCEPT ![t] = r],
           UNCHANGED <<sleepFlag, shared, scan>>,
           \A x \in Threads \ {r} : local'[x] = local[x] /\ remote'[x] = remote[x]
    PROVE  WakeInv'
<1>1. Pending(r)'
  BY WakeTypes DEF Pending
<1>2. \A x \in Threads : Pending(x) => Pending(x)'
  <2>1. \A u \in Threads : pc[u] = "notify" => pc'[u] = "notify" /\ target'[u] = target[u]
    BY WakeTypes
  <2> QED BY <2>1, PendingKept
<1>3. \A u \in Threads : pc[u] = "signal" => pc'[u] = "signal" /\ target'[u] = target[u]
  BY WakeTypes
<1>4. \A x \in Threads : x # t => pc'[x] = pc[x]
  BY WakeTypes
<1>5. pc'[t] = "notify"
  BY WakeTypes
<1>6. ASSUME NEW x \in Threads
      PROVE  WakeOf(x)'
  <2>1. WakeOf(x)
    BY WakeSplit
  <2>2. \A p \in Levels : (Looked(x, p)' => Looked(x, p)) /\ (LookedShared(x, p)' => LookedShared(x, p))
    BY <1>4, <1>5 DEF Looked, LookedShared
  <2>3. pc[x] \in {"drain", "crashed"} => pc'[x] \in {"drain", "crashed"}
    BY <1>4
  <2>4. remote'[x] # << >> => Pending(x)' \/ pc'[x] \in {"drain", "crashed"}
    BY <1>1, <1>2, <2>1, <2>3 DEF WakeOf
  <2>5. \A p \in Levels :
          /\ Looked(x, p)' /\ local'[x][p] # << >> => Pending(x)'
          /\ LookedShared(x, p)' => shared'[x][p] = << >>
    BY <1>1, <1>2, <2>1, <2>2 DEF WakeOf
  <2>6. pc'[x] = "sleep" /\ sleepFlag'[x] => \E u \in Threads : pc'[u] = "signal" /\ target'[u] = x
    BY <1>3, <1>4, <1>5, <2>1 DEF WakeOf
  <2> QED BY <2>4, <2>5, <2>6 DEF WakeOf
<1>7. WakeInv' <=> \A x \in Threads : WakeOf(x)'
  BY DEF WakeInv, WakeOf
<1> QED BY <1>6, <1>7

LEMMA PushRequiredWakes ==
    ASSUME TypeInv, WakeInv, NEW t \in Threads, PushRequired(t)
    PROVE  WakeInv'
<1> DEFINE r == Required(job[t])
<1>1. CASE Crash
  BY <1>1, CrashWakes
<1>2. CASE ~Crash
  <2>1. r \in registered /\ registered \subseteq Threads
    BY <1>2 DEF PushRequired, TypeInv, TypeOK
  <2>2. /\ pc' = [pc EXCEPT ![t] = "notify"]
        /\ target' = [target EXCEPT ![t] = r]
        /\ UNCHANGED <<sleepFlag, shared, scan, remote>>
    BY <1>2, <2>1 DEF PushRequired, Goto, pickVars
  <2>3. \A x \in Threads \ {r} : local'[x] = local[x]
    BY <2>1, WakeTypes DEF PushRequired
  <2>4. pc[t] = "push"
    BY DEF PushRequired
  <2> QED BY <2>1, <2>2, <2>3, <2>4, PushedStep
<1> QED BY <1>1, <1>2

LEMMA WakeWakes ==
    ASSUME TypeInv, WakeInv, NEW t \in Threads, NEW f \in Fibers, Wake(t, f)
    PROVE  WakeInv'
<1>1. home[f] \in Threads
  BY WakeTypes
<1>2. CASE home[f] = t
  <2>1. \A x \in Threads \ {t} : local'[x] = local[x]
    BY <1>2, AwakenOthers DEF Wake
  <2> QED BY <1>2, <2>1, QuietStep DEF Wake, pickVars
<1>3. CASE home[f] # t
  <2>1. \A x \in Threads \ {home[f]} : local'[x] = local[x] /\ remote'[x] = remote[x]
    BY <1>3, WakeTypes DEF Wake
  <2>2. /\ pc[t] = "run"
        /\ pc' = [pc EXCEPT ![t] = "notify"]
        /\ target' = [target EXCEPT ![t] = home[f]]
        /\ UNCHANGED <<sleepFlag, shared, scan>>
    BY <1>3 DEF Wake, Goto, pickVars
  <2> QED BY <1>1, <2>1, <2>2, PushedStep
<1> QED BY <1>2, <1>3

(* Setting the flag of a thread: the notify that was pending is now marked.  *)
LEMMA NotifyWakes ==
    ASSUME TypeInv, WakeInv, NEW t \in Threads, Notify(t)
    PROVE  WakeInv'
<1>1. CASE Crash
  BY <1>1, CrashWakes
<1>2. CASE ~Crash
  <2> DEFINE r == target[t]
  <2>1. /\ r \in Threads
        /\ pc[t] = "notify"
        /\ pc' = [pc EXCEPT ![t] = "signal"]
        /\ sleepFlag' = [sleepFlag EXCEPT ![r] = TRUE]
        /\ UNCHANGED <<local, shared, remote, scan, target>>
    BY <1>2, WakeTypes DEF Notify, Goto, queueVars, pickVars, launchVars
  <2>2. \A x \in Threads : Pending(x) => Pending(x)'
    BY <2>1, WakeTypes DEF Pending
  <2>3. \A x \in Threads : x # t => pc'[x] = pc[x]
    BY <2>1, WakeTypes
  <2>4. pc'[t] = "signal" /\ target'[t] = r
    BY <2>1, WakeTypes
  <2>5. ASSUME NEW x \in Threads
        PROVE  WakeOf(x)'
    <3>1. WakeOf(x)
      BY WakeSplit
    <3>2. \A p \in Levels : (Looked(x, p)' => Looked(x, p)) /\ (LookedShared(x, p)' => LookedShared(x, p))
      BY <2>1, <2>3, <2>4 DEF Looked, LookedShared
    <3>3. remote'[x] # << >> => Pending(x)' \/ pc'[x] \in {"drain", "crashed"}
      BY <2>1, <2>2, <2>3, <3>1 DEF WakeOf
    <3>4. \A p \in Levels :
            /\ Looked(x, p)' /\ local'[x][p] # << >> => Pending(x)'
            /\ LookedShared(x, p)' => shared'[x][p] = << >>
      BY <2>1, <2>2, <3>1, <3>2 DEF WakeOf
    <3>5. pc'[x] = "sleep" /\ sleepFlag'[x] => \E u \in Threads : pc'[u] = "signal" /\ target'[u] = x
      <4>1. CASE x = r
        BY <2>4, <4>1
      <4>2. CASE x # r
        <5>1. sleepFlag'[x] = sleepFlag[x]
          BY <2>1, <4>2, WakeTypes
        <5>2. \A u \in Threads : pc[u] = "signal" => pc'[u] = "signal" /\ target'[u] = target[u]
          BY <2>1, <2>3
        <5> QED BY <2>3, <2>4, <3>1, <5>1, <5>2 DEF WakeOf
      <4> QED BY <4>1, <4>2
    <3> QED BY <3>3, <3>4, <3>5 DEF WakeOf
  <2>6. WakeInv' <=> \A x \in Threads : WakeOf(x)'
    BY DEF WakeInv, WakeOf
  <2> QED BY <2>5, <2>6
<1> QED BY <1>1, <1>2

(* Signalling a thread sends it back to its predicate. *)
LEMMA SignalWakes ==
    ASSUME TypeInv, WakeInv, NEW t \in Threads, Signal(t)
    PROVE  WakeInv'
<1> DEFINE r == target[t]
<1>1. /\ r \in Threads
      /\ pc[t] = "signal" /\ pc'[t] = "run"
      /\ target' = [target EXCEPT ![t] = t]
      /\ UNCHANGED <<local, shared, remote, scan, sleepFlag>>
  BY WakeTypes DEF Signal, queueVars, pickVars
<1>2. \A x \in Threads : x # t =>
        pc'[x] = IF x = r /\ pc[x] = "sleep" THEN "suspend" ELSE pc[x]
  BY <1>1, WakeTypes DEF Signal
<1>3. \A x \in Threads : Pending(x) => Pending(x)'
  <2>1. \A u \in Threads : pc[u] = "notify" => pc'[u] = "notify" /\ target'[u] = target[u]
    BY <1>1, <1>2, WakeTypes
  <2> QED BY <1>1, <2>1, PendingKept
<1>4. ASSUME NEW x \in Threads
      PROVE  WakeOf(x)'
  <2>1. WakeOf(x)
    BY WakeSplit
  <2>2. \A p \in Levels : (Looked(x, p)' => Looked(x, p)) /\ (LookedShared(x, p)' => LookedShared(x, p))
    BY <1>1, <1>2 DEF Looked, LookedShared
  <2>3. remote'[x] # << >> => Pending(x)' \/ pc'[x] \in {"drain", "crashed"}
    BY <1>1, <1>2, <1>3, <2>1 DEF WakeOf
  <2>4. \A p \in Levels :
          /\ Looked(x, p)' /\ local'[x][p] # << >> => Pending(x)'
          /\ LookedShared(x, p)' => shared'[x][p] = << >>
    BY <1>1, <1>3, <2>1, <2>2 DEF WakeOf
  <2>5. pc'[x] = "sleep" /\ sleepFlag'[x] => \E u \in Threads : pc'[u] = "signal" /\ target'[u] = x
    <3> SUFFICES ASSUME pc'[x] = "sleep", sleepFlag'[x]
                 PROVE  \E u \in Threads : pc'[u] = "signal" /\ target'[u] = x
      OBVIOUS
    <3>1. x # t /\ x # r /\ pc[x] = "sleep" /\ sleepFlag[x]
      BY <1>1, <1>2
    <3>2. PICK u \in Threads : pc[u] = "signal" /\ target[u] = x
      BY <2>1, <3>1 DEF WakeOf
    <3>3. u # t
      BY <3>1, <3>2
    <3>4. pc'[u] = "signal" /\ target'[u] = x
      BY <1>1, <1>2, <3>2, <3>3, WakeTypes
    <3> QED BY <3>4
  <2> QED BY <2>3, <2>4, <2>5 DEF WakeOf
<1>5. WakeInv' <=> \A x \in Threads : WakeOf(x)'
  BY DEF WakeInv, WakeOf
<1> QED BY <1>4, <1>5

(* A running fiber gives way: the thread has looked nowhere yet. *)
LEMMA GiveWayWakes ==
    ASSUME TypeInv, WakeInv, NEW t \in Threads,
           Yield(t) \/ (\E how \in {"blocked", "timed"} : Suspend(t, how)) \/ Finish(t) \/ Drained(t)
    PROVE  WakeInv'
<1>1. pc[t] \in {"run", "awaken"}
  BY DEF Yield, Suspend, Finish, Drained
<1>2. PICK c : StartPick(t, c)
  BY DEF Yield, Suspend, Finish, Drained
<1>3. UNCHANGED <<local, shared, remote, sleepFlag, target>>
  BY DEF Yield, Suspend, Finish, Drained, queueVars, launchVars
<1>4. /\ pc'[t] = "pick" /\ scan'[t] = 0
      /\ \A x \in Threads \ {t} : pc'[x] = pc[x] /\ scan'[x] = scan[x]
  BY <1>2, WakeTypes DEF StartPick
<1> QED BY <1>1, <1>3, <1>4, QuietStep

(* The thread switches to what it found. *)
LEMMA SwitchWakes ==
    ASSUME TypeInv, WakeInv, NEW t \in Threads, NEW c, NEW queues, SwitchTo(t, c, queues),
           pc[t] = "pick",
           queues \in [Threads -> [Levels -> Queues]],
           \A x \in Threads \ {t} : queues[x] = local[x],
           \A x \in Threads, p \in Levels : shared[x][p] = << >> => shared'[x][p] = << >>
    PROVE  WakeInv'
<1>1. \A x \in Threads \ {t} : local'[x] = local[x]
  BY DEF SwitchTo
<1>2. /\ pc'[t] \in {"drain", "run"}
      /\ \A x \in Threads \ {t} : pc'[x] = pc[x] /\ scan'[x] = scan[x]
  BY WakeTypes DEF SwitchTo, Goto
<1>3. UNCHANGED <<remote, sleepFlag, target>>
  BY DEF SwitchTo, launchVars
<1> QED BY <1>1, <1>2, <1>3, QuietStep

(* The thread looks further: what it passes by was empty. *)
LEMMA ScanWakes ==
    ASSUME TypeInv, WakeInv, NEW t \in Threads, NEW p \in Levels, ScanOn(t),
           \/ AtLocal(t, p) /\ local[t][p] = << >>
           \/ AtShared(t, p) /\ shared[t][p] = << >>
    PROVE  WakeInv'
<1>1. /\ pc[t] = "pick" /\ scan[t] \in Nat
      /\ scan'[t] = scan[t] + 1
      /\ \A x \in Threads \ {t} : scan'[x] = scan[x]
      /\ UNCHANGED <<local, shared, remote, sleepFlag, pc, target>>
  <2>1. scan \in [Threads -> 0 .. ScanEnd] /\ ScanEnd \in Nat
    BY WakeTypes DEF ScanEnd
  <2>2. scan[t] \in Nat
    BY <2>1
  <2> QED BY <2>1, <2>2 DEF ScanOn, AtLocal, AtShared, queueVars, launchVars
<1>2. \A x \in Threads : Pending(x)' <=> Pending(x)
  BY <1>1 DEF Pending
<1>3. /\ p \in Nat /\ Levels \subseteq Nat
      /\ \A q \in Levels :
            /\ scan[t] + 1 > 2 * q => scan[t] > 2 * q \/ (q = p /\ local[t][p] = << >>)
            /\ scan[t] + 1 > 2 * q + 1 => scan[t] > 2 * q + 1 \/ (q = p /\ shared[t][p] = << >>)
  <2>1. p \in Nat /\ Levels \subseteq Nat
    BY DEF Levels, UX, HIGH, LOW
  <2>2. CASE scan[t] = 2 * p /\ local[t][p] = << >>
    BY <2>1, <2>2
  <2>3. CASE scan[t] = 2 * p + 1 /\ shared[t][p] = << >>
    BY <2>1, <2>3
  <2>4. \/ scan[t] = 2 * p /\ local[t][p] = << >>
        \/ scan[t] = 2 * p + 1 /\ shared[t][p] = << >>
    BY DEF AtLocal, AtShared
  <2> QED BY <2>1, <2>2, <2>3, <2>4
<1>4. ASSUME NEW x \in Threads
      PROVE  WakeOf(x)'
  <2>1. WakeOf(x)
    BY WakeSplit
  <2>2. \A q \in Levels : Looked(x, q)' /\ local'[x][q] # << >> => Pending(x)'
    <3>1. \A q \in Levels : Looked(x, q)' => Looked(x, q) \/ (x = t /\ local[t][q] = << >>)
      BY <1>1, <1>3 DEF Looked
    <3> QED BY <1>1, <1>2, <2>1, <3>1 DEF WakeOf
  <2>3. \A q \in Levels : LookedShared(x, q)' => shared'[x][q] = << >>
    <3>1. \A q \in Levels : LookedShared(x, q)' => LookedShared(x, q) \/ (x = t /\ shared[t][q] = << >>)
      BY <1>1, <1>3 DEF LookedShared
    <3> QED BY <1>1, <2>1, <3>1 DEF WakeOf
  <2> QED BY <1>1, <1>2, <2>1, <2>2, <2>3 DEF WakeOf
<1>5. WakeInv' <=> \A x \in Threads : WakeOf(x)'
  BY DEF WakeInv, WakeOf
<1> QED BY <1>4, <1>5

(* pick_next. *)
LEMMA PickWakes ==
    ASSUME TypeInv, WakeInv, NEW t \in Threads, PickStep(t)
    PROVE  WakeInv'
<1>1. local \in [Threads -> [Levels -> Queues]] /\ shared \in [Threads -> [Levels -> Seq(Fibers)]]
  BY WakeTypes
<1>2. ASSUME NEW p \in Levels, PickLocal(t, p)
      PROVE  WakeInv'
  <2>1. CASE local[t][p] = << >>
    BY <1>2, <2>1, ScanWakes DEF PickLocal
  <2>2. CASE local[t][p] # << >>
    <3> DEFINE queues == [local EXCEPT ![t][p] = Tail(@)]
    <3>1. Tail(local[t][p]) \in Queues
      BY <1>1, <2>2, FrontType DEF Queues
    <3>2. queues \in [Threads -> [Levels -> Queues]]
      BY <1>1, <3>1
    <3>3. \A x \in Threads \ {t} : queues[x] = local[x]
      BY <1>1
    <3>4. SwitchTo(t, Head(local[t][p]), queues) /\ pc[t] = "pick" /\ UNCHANGED shared
      BY <1>2, <2>2 DEF PickLocal, AtLocal
    <3> HIDE DEF queues
    <3> QED BY <3>2, <3>3, <3>4, SwitchWakes
  <2> QED BY <2>1, <2>2
<1>3. ASSUME NEW u \in Threads, NEW p \in Levels, pc[t] = "pick", shared[u][p] # << >>,
             SwitchTo(t, Head(shared[u][p]), local), shared' = [shared EXCEPT ![u][p] = Tail(@)]
      PROVE  WakeInv'
  <2>1. \A x \in Threads, q \in Levels : shared[x][q] = << >> => shared'[x][q] = << >>
    BY <1>1, <1>3
  <2> QED BY <1>1, <1>3, <2>1, SwitchWakes
<1>4. ASSUME NEW p \in Levels, GiveUp(t, p)
      PROVE  WakeInv'
  BY <1>4, ScanWakes DEF GiveUp
<1>5. CASE PickNothing(t)
  <2>1. /\ pc[t] = "pick" /\ scan[t] = ScanEnd
        /\ pc'[t] = "suspend"
        /\ \A x \in Threads \ {t} : pc'[x] = pc[x] /\ scan'[x] = scan[x]
        /\ UNCHANGED <<local, shared, remote, sleepFlag, target>>
    BY <1>5, WakeTypes DEF PickNothing, Goto, queueVars, launchVars
  <2>2. \A x \in Threads : Pending(x) => Pending(x)'
    <3>1. \A u \in Threads : pc[u] = "notify" => pc'[u] = "notify" /\ target'[u] = target[u]
      BY <2>1
    <3> QED BY <2>1, <3>1, PendingKept
  <2>3. ASSUME NEW x \in Threads
        PROVE  WakeOf(x)'
    <3>1. WakeOf(x)
      BY WakeSplit
    <3>2. \A p \in Levels : (Looked(x, p)' => Looked(x, p)) /\ (LookedShared(x, p)' => LookedShared(x, p))
      <4>1. CASE x = t
        BY <2>1, <4>1 DEF Looked, LookedShared, Levels, UX, HIGH, LOW, ScanEnd
      <4>2. CASE x # t
        BY <2>1, <4>2 DEF Looked, LookedShared
      <4> QED BY <4>1, <4>2
    <3>3. remote'[x] # << >> => Pending(x)' \/ pc'[x] \in {"drain", "crashed"}
      BY <2>1, <2>2, <3>1 DEF WakeOf
    <3>4. \A p \in Levels :
            /\ Looked(x, p)' /\ local'[x][p] # << >> => Pending(x)'
            /\ LookedShared(x, p)' => shared'[x][p] = << >>
      BY <2>1, <2>2, <3>1, <3>2 DEF WakeOf
    <3>5. pc'[x] = "sleep" /\ sleepFlag'[x] => \E u \in Threads : pc'[u] = "signal" /\ target'[u] = x
      BY <2>1, <3>1 DEF WakeOf
    <3> QED BY <3>3, <3>4, <3>5 DEF WakeOf
  <2>4. WakeInv' <=> \A x \in Threads : WakeOf(x)'
    BY DEF WakeInv, WakeOf
  <2> QED BY <2>3, <2>4
<1> QED BY <1>2, <1>3, <1>4, <1>5 DEF PickStep, PickShared, Steal, AtShared

(* The dispatcher, up to the next look at the queues, and the thread's sleep. *)
LEMMA DispatchWakes ==
    ASSUME TypeInv, WakeInv, NEW t \in Threads, DispatchStep(t)
    PROVE  WakeInv'
<1>1. CASE Drain(t)
  <2>1. remote'[t] = << >> /\ \A x \in Threads \ {t} : remote'[x] = remote[x]
    BY <1>1, WakeTypes DEF Drain
  <2>2. pc'[t] = "awaken" /\ \A x \in Threads \ {t} : pc'[x] = pc[x]
    BY <1>1, WakeTypes DEF Drain, Goto
  <2>3. pc[t] = "drain" /\ UNCHANGED <<local, shared, sleepFlag, scan, target>>
    BY <1>1 DEF Drain, pickVars, launchVars
  <2> QED BY <2>1, <2>2, <2>3, QuietStep
<1>2. CASE AwakenRemote(t)
  <2>1. \A x \in Threads \ {t} : local'[x] = local[x]
    BY <1>2, AwakenOthers DEF AwakenRemote
  <2> QED BY <1>2, <2>1, QuietStep DEF AwakenRemote, pickVars, launchVars
<1>3. ASSUME NEW f \in Fibers, AwakenDue(t, f)
      PROVE  WakeInv'
  <2>1. \A x \in Threads \ {t} : local'[x] = local[x]
    BY <1>3, AwakenOthers DEF AwakenDue
  <2> QED BY <1>3, <2>1, QuietStep DEF AwakenDue, pickVars, launchVars
<1>4. CASE Drained(t)
  BY <1>4, GiveWayWakes
<1>5. CASE SkipSleep(t) \/ TimeOut(t)
  <2>1. /\ pc[t] \in {"suspend", "sleep"} /\ pc'[t] = "drain" /\ sleepFlag'[t] = FALSE
        /\ \A x \in Threads \ {t} : pc'[x] = pc[x] /\ sleepFlag'[x] = sleepFlag[x]
        /\ UNCHANGED <<local, shared, remote, scan, target>>
    BY <1>5, WakeTypes DEF SkipSleep, TimeOut, Goto, queueVars, pickVars, launchVars
  <2>2. ASSUME NEW x \in Threads \ {t}
        PROVE  WakeOf(x)'
    <3>1. WakeOf(x)
      BY WakeSplit
    <3>2. Pending(x) => Pending(x)'
      BY <2>1, PendingKept
    <3>3. \A p \in Levels : (Looked(x, p)' <=> Looked(x, p)) /\ (LookedShared(x, p)' <=> LookedShared(x, p))
      BY <2>1 DEF Looked, LookedShared
    <3>4. remote'[x] # << >> => Pending(x)' \/ pc'[x] \in {"drain", "crashed"}
      BY <2>1, <3>1, <3>2 DEF WakeOf
    <3>5. \A p \in Levels :
            /\ Looked(x, p)' /\ local'[x][p] # << >> => Pending(x)'
            /\ LookedShared(x, p)' => shared'[x][p] = << >>
      BY <2>1, <3>1, <3>2, <3>3 DEF WakeOf
    <3>6. pc'[x] = "sleep" /\ sleepFlag'[x] => \E u \in Threads : pc'[u] = "signal" /\ target'[u] = x
      BY <2>1, <3>1 DEF WakeOf
    <3> QED BY <3>4, <3>5, <3>6 DEF WakeOf
  <2>3. WakeOf(t)'
    BY <2>1 DEF WakeOf, Looked, LookedShared
  <2>4. WakeInv' <=> \A x \in Threads : WakeOf(x)'
    BY DEF WakeInv, WakeOf
  <2> QED BY <2>2, <2>3, <2>4
<1>6. CASE Sleep(t)
  <2>1. /\ pc[t] = "suspend" /\ pc'[t] = "sleep" /\ ~sleepFlag[t]
        /\ \A x \in Threads \ {t} : pc'[x] = pc[x]
        /\ UNCHANGED <<local, shared, remote, sleepFlag, scan, target>>
    BY <1>6, WakeTypes DEF Sleep, Goto, queueVars, pickVars, launchVars
  <2>2. ASSUME NEW x \in Threads
        PROVE  WakeOf(x)'
    <3>1. WakeOf(x)
      BY WakeSplit
    <3>2. Pending(x) => Pending(x)'
      BY <2>1, PendingKept
    <3>3. \A p \in Levels : (Looked(x, p)' <=> Looked(x, p)) /\ (LookedShared(x, p)' <=> LookedShared(x, p))
      BY <2>1 DEF Looked, LookedShared
    <3>4. remote'[x] # << >> => Pending(x)' \/ pc'[x] \in {"drain", "crashed"}
      BY <2>1, <3>1, <3>2 DEF WakeOf
    <3>5. \A p \in Levels :
            /\ Looked(x, p)' /\ local'[x][p] # << >> => Pending(x)'
            /\ LookedShared(x, p)' => shared'[x][p] = << >>
      BY <2>1, <3>1, <3>2, <3>3 DEF WakeOf
    <3>6. pc'[x] = "sleep" /\ sleepFlag'[x] => \E u \in Threads : pc'[u] = "signal" /\ target'[u] = x
      BY <2>1, <3>1 DEF WakeOf
    <3> QED BY <3>4, <3>5, <3>6 DEF WakeOf
  <2>3. WakeInv' <=> \A x \in Threads : WakeOf(x)'
    BY DEF WakeInv, WakeOf
  <2> QED BY <2>2, <2>3
<1> QED BY <1>1, <1>2, <1>3, <1>4, <1>5, <1>6 DEF DispatchStep

LEMMA WakeStep ==
    ASSUME TypeInv, WakeInv, [Next]_vars
    PROVE  WakeInv'
<1>1. ASSUME NEW t \in Threads, Register(t)
      PROVE  WakeInv'
  <2>1. pc'[t] = "drain" /\ \A x \in Threads \ {t} : pc'[x] = pc[x]
    BY <1>1, WakeTypes DEF Register, Goto
  <2>2. pc[t] = "start" /\ UNCHANGED <<local, shared, remote, sleepFlag, scan, target>>
    BY <1>1 DEF Register, queueVars, launchVars
  <2> QED BY <2>1, <2>2, QuietStep
<1>2. ASSUME NEW t \in Threads, FiberStep(t)
      PROVE  WakeInv'
  BY <1>2, LaunchWakes, PushRequiredWakes, WakeWakes, NotifyWakes, SignalWakes, GiveWayWakes
     DEF FiberStep
<1>3. CASE UNCHANGED <<local, shared, remote, sleepFlag, pc, scan, target>>
  BY <1>3 DEF WakeInv, Pending, Looked, LookedShared
<1>4. ASSUME NEW f \in Fibers, Expire(f)
      PROVE  WakeInv'
  BY <1>3, <1>4 DEF Expire, queueVars, pickVars, launchVars
<1>5. CASE UNCHANGED vars
  BY <1>3, <1>5 DEF vars, queueVars, pickVars, launchVars
<1> QED BY <1>1, <1>2, <1>4, <1>5, PickWakes, DispatchWakes DEF Next, ThreadStep, Stopped

LEMMA WakeInit == Init => WakeInv
<1>1. 0 \in Nat /\ \A p \in Levels : p \in Nat
  BY DEF Levels, UX, HIGH, LOW
<1>2. Init => \A t \in Threads : remote[t] = << >> /\ pc[t] \in {"run", "start"}
  BY DEF Init
<1> QED BY <1>2 DEF WakeInv, Looked, LookedShared

(* What a thread found empty stays empty or a notify is pending for it: the   *)
(* invariant that explains notify, suspend_until and pick_next together.      *)
THEOREM WakeInductive == Spec => []WakeInv
<1>1. TypeInv /\ WakeInv /\ [Next]_vars => TypeInv' /\ WakeInv'
  BY TypeStep, WakeStep
<1> QED BY TypeInit, WakeInit, <1>1, PTL DEF Spec

(* A thread that sleeps although it has work is about to be woken: the lock   *)
(* and flag of suspend_until and notify lose no wake-up, however the pushes   *)
(* of other threads interleave with its look at the queues.                   *)
THEOREM NoWakeupLost == Spec => []NoLostWakeup
<1>1. TypeInv /\ WakeInv => NoLostWakeup
  <2> SUFFICES ASSUME TypeInv, WakeInv, NEW t \in Threads, pc[t] = "sleep", HasWork(t)
               PROVE  Notifying(t) # {}
    BY DEF NoLostWakeup
  <2>1. Pending(t)
    BY DEF WakeInv, HasWork, Looked, LookedShared
  <2>2. PICK u \in Threads : pc[u] \in {"notify", "signal"} /\ target[u] = t
    BY <2>1 DEF Pending, WakeInv
  <2> QED BY <2>2 DEF Notifying
<1>2. TypeInv /\ WakeInv /\ [Next]_vars => TypeInv' /\ WakeInv'
  BY TypeStep, WakeStep
<1> QED BY TypeInit, WakeInit, <1>1, <1>2, PTL DEF Spec
=============================================================================
