---------------------------- MODULE SchedRecords ----------------------------
(***************************************************************************)
(* What the scheduler keeps of its fibers and their operations, proved for *)
(* every set of fibers, keys and ids: a fiber that ended stays ended, with *)
(* the verdict the records tell; a key of a wait table has waiters; an     *)
(* operation in the backend has an owner; a failure is counted once; and   *)
(* nobody waits for a fiber that has ended.                                *)
(*                                                                         *)
(* The proofs rest on SchedInv, and those that need a program that keeps   *)
(* the discipline on PlaceInv too: only where a fiber is in one place does *)
(* its status say what the next step may do to it.                         *)
(***************************************************************************)
EXTENDS SchedPlaces

-----------------------------------------------------------------------------
(* What a step does to a fiber that has ended.                             *)

\* The fiber has ended for good, and its verdict is settled.
Final(f) == Terminated(st[f]) => Terminated(st'[f]) /\ Verdict(st'[f]) = Verdict(st[f])

\* A step that changes the status of one fiber that has not ended.
LEMMA OneChanges ==
    ASSUME SchedInv, NEW f \in Fibers, ~Terminated(st[f]), NEW s, st' = [st EXCEPT ![f] = s]
    PROVE  \A g \in Fibers : Final(g)
<1>1. st \in [Fibers -> Status]
  BY DEF SchedInv, CoreOK
<1>2. \A g \in Fibers : g # f => st'[g] = st[g]
  BY <1>1
<1> QED BY <1>2 DEF Final

\* A running fiber has not ended.
LEMMA RunnerLives ==
    ASSUME SchedInv, PlaceInv, NEW f \in Fibers, Top("run"), Head(stack).fiber = f
    PROVE  ~Terminated(st[f])
<1>1. st[f] = "alive"
  BY RunnerPlace
<1> QED BY <1>1 DEF Terminated, Failed, IsDead

\* A running fiber ends nobody that has ended.
LEMMA FiberStepFinal ==
    ASSUME SchedInv, PlaceInv, NEW f \in Fibers, FiberStep(f)
    PROVE  \A g \in Fibers : Final(g)
<1>1. Top("run") /\ Head(stack).fiber = f
  BY DEF FiberStep, FiberReturn, FiberError, FiberYield, SubmitIo, RefuseIo, HandleJoin, HandleAbort,
         HandleSelect, HandlePark, HandleIoForward, HandleNotify, HandleIoForwardCancel, Spawn,
         KillFiber, RequestShutdown, Requests, Running
<1>2. ~Terminated(st[f])
  BY <1>1, RunnerLives
<1>3. CASE \E s : st' = [st EXCEPT ![f] = s]
  BY <1>2, <1>3, OneChanges
<1>4. CASE \E g \in Fibers : Spawn(f, g) \/ KillFiber(f, g)
  <2>1. PICK g \in Fibers : Spawn(f, g) \/ KillFiber(f, g)
    BY <1>4
  <2>2. st[g] \in {"none", "new", "paused"}
    BY <2>1 DEF Spawn, KillFiber
  <2>3. PICK s : st' = [st EXCEPT ![g] = s]
    BY <2>1 DEF Spawn, KillFiber
  <2>4. ~Terminated(st[g])
    BY <2>2 DEF Terminated, Failed, IsDead
  <2> QED BY <2>3, <2>4, OneChanges
<1>5. CASE RequestShutdown(f)
  BY <1>5 DEF RequestShutdown, Final
<1> QED BY <1>3, <1>4, <1>5
  DEF FiberStep, FiberReturn, FiberError, FiberYield, SubmitIo, RefuseIo, HandleJoin, HandleAbort,
      HandleSelect, HandlePark, HandleIoForward, HandleNotify, HandleIoForwardCancel, Requests

\* No handler enters a fiber that has ended.
LEMMA HandlerStepFinal ==
    ASSUME SchedInv, PlaceInv, HandlerStep
    PROVE  \A g \in Fibers : Final(g)
<1>1. CASE FiberResume
  <2> DEFINE f == Head(stack).fiber
  <2>1. stack # <<>> /\ Head(stack).at = "resume"
    BY <1>1 DEF FiberResume, Top
  <2>2. Head(stack) \in Frame /\ FrameSound(Head(stack), st, loop)
    BY <2>1, PopStack DEF PlaceInv, Frames
  <2>3. f \in Fibers /\ st[f] \in {"new", "paused"}
    BY <2>1, <2>2, FrameFields DEF FrameSound
  <2>4. st' = [st EXCEPT ![f] = "alive"] /\ ~Terminated(st[f])
    BY <1>1, <2>3 DEF FiberResume, CanResume, Terminated, Failed, IsDead
  <2> HIDE DEF f
  <2> QED BY <2>3, <2>4, OneChanges
<1>2. CASE FiberAbort
  <2> DEFINE f == Head(stack).fiber
  <2>1. stack # <<>> /\ Head(stack).at = "raise" /\ Raised(stack) = {f}
    BY <1>2 DEF FiberAbort, Top, Raised
  <2>2. Head(stack) \in Frame
    BY <2>1, PopStack DEF PlaceInv, Frames
  <2>3. f \in Fibers /\ st[f] \in {"new", "paused"} \cup Over
    BY <2>1, <2>2, FrameFields DEF PlaceInv, Statuses
  <2>4. CASE UNCHANGED st
    BY <2>4 DEF Final
  <2>5. CASE (CanRaise(st[f]) \/ st[f] = "new") /\ \E s : st' = [st EXCEPT ![f] = s]
    <3>1. ~Terminated(st[f])
      BY <2>3, <2>5 DEF CanRaise, Over, Terminated, Failed, IsDead
    <3> HIDE DEF f
    <3> QED BY <2>3, <2>5, <3>1, OneChanges
  <2> QED BY <1>2, <2>4, <2>5 DEF FiberAbort
<1>3. CASE UNCHANGED st
  BY <1>3 DEF Final
<1> QED BY <1>1, <1>2, <1>3
  DEF HandlerStep, CompleteJoins, CompleteSelects, WakeParked, RouteCompletion, WakeForwarded,
      AbortIoOne, TakeParkQueues, AbortParkedOne, UnwindCompletion, fiberVars

\* Every step leaves whoever has ended with the verdict it had.
LEMMA NextFinal == ASSUME SchedInv, PlaceInv, [Next]_vars PROVE \A g \in Fibers : Final(g)
<1>1. CASE \E f \in Fibers : FiberStep(f)
  BY <1>1, FiberStepFinal
<1>2. CASE HandlerStep
  BY <1>2, HandlerStepFinal
<1>3. CASE CancelStragglers
  <2>1. \A g \in Fibers : st'[g] = st[g] \/ st'[g] = AfterCancel(st[g])
    BY <1>3 DEF CancelStragglers
  <2> QED BY <2>1 DEF Final, AfterCancel, Terminated, Failed, IsDead, Verdict
<1>4. CASE UNCHANGED st
  BY <1>4 DEF Final
<1> QED BY <1>1, <1>2, <1>3, <1>4
  DEF Next, LoopStep, DrainOne, StepDecide, PumpDecide, Unwind, UnwindEnd, PumpTail, IoWait,
      UnwindWait, IoWaitEmpty, vars, fiberVars

\* A fiber that has ended never runs again: no step takes it back.
THEOREM EndedStaysEnded == ASSUME Careful PROVE Spec => FinishedForGood
<1>1. SchedInv /\ PlaceInv /\ [Next]_vars =>
        [\A f \in Fibers : Terminated(st[f]) => Terminated(st'[f])]_vars
  BY NextFinal DEF Final
<1> QED BY <1>1, SchedInvariant, PlaceInvariant, PTL DEF Spec, FinishedForGood

-----------------------------------------------------------------------------
(* Completion records.                                                     *)

\* Whatever a step records anew is the verdict of a fiber that has ended.
Recorder ==
    \A f \in DOMAIN completed' :
        \/ f \in DOMAIN completed /\ completed'[f] = completed[f]
        \/ Terminated(st'[f]) /\ completed'[f] = Verdict(st'[f])

\* complete-fiber records a verdict the fiber agrees with.
LEMMA NewRecord ==
    ASSUME NEW f, NEW v, completed' = Put(completed, f, v), Terminated(st'[f]), v = Verdict(st'[f])
    PROVE  Recorder
BY DEF Recorder, Put

\* No record changes, or records go.
LEMMA NoRecord ==
    ASSUME UNCHANGED completed \/ (\E f : completed' = Del(completed, f)) \/ completed' = Empty
    PROVE  Recorder
BY DEF Recorder, Del, Empty

\* get-completion records what the fiber says itself.
LEMMA LateRecord ==
    ASSUME NEW t \in Fibers, Final(t), NEW rest, FoundFinished(t, rest)
    PROVE  Recorder
<1>1. CASE UNCHANGED completed
  BY <1>1, NoRecord
<1>2. CASE Unnoticed(t) /\ completed' = Put(completed, t, Verdict(st[t]))
  BY <1>2, NewRecord DEF Unnoticed, Final
<1> QED BY <1>1, <1>2 DEF FoundFinished, CompleteFiber, BeginComplete

\* A running fiber, and the handlers it calls, record verdicts.
LEMMA FiberStepRecords ==
    ASSUME SchedInv, PlaceInv, NEW f \in Fibers, FiberStep(f) PROVE Recorder
<1>1. st \in [Fibers -> Status] /\ Spawned \subseteq Fibers
  BY DEF SchedInv, CoreOK, Spawned
<1>2. \A g \in Fibers : Final(g)
  BY FiberStepFinal
<1>3. CASE FiberReturn(f)
  <2>1. completed' = Put(completed, f, "ok") /\ st'[f] = "dead"
    BY <1>1, <1>3 DEF FiberReturn, CompleteFiber, BeginComplete
  <2>2. Terminated(st'[f]) /\ Verdict(st'[f]) = "ok"
    BY <2>1 DEF Terminated, IsDead, Verdict, Failed
  <2> QED BY <2>1, <2>2, NewRecord
<1>4. CASE FiberError(f)
  <2>1. completed' = Put(completed, f, "error") /\ st'[f] = AfterError(Head(stack).how)
    BY <1>1, <1>4 DEF FiberError, CompleteFiber, BeginComplete
  <2>2. Terminated(st'[f]) /\ Verdict(st'[f]) = "error"
    BY <2>1 DEF Terminated, Verdict, Failed, AfterError
  <2> QED BY <2>1, <2>2, NewRecord
<1>5. CASE \E t \in Fibers : \E rest : FoundFinished(t, rest)
  BY <1>2, <1>5, LateRecord
<1>6. CASE UNCHANGED completed
  BY <1>6, NoRecord
<1>7. CASE \E t \in Spawned : HandleJoin(f, t) \/ HandleAbort(f, t)
  BY <1>1, <1>5, <1>6, <1>7 DEF HandleJoin, HandleAbort
<1>8. CASE \E S \in SUBSET Spawned \ {{}} : HandleSelect(f, S)
  <2>1. PICK S \in SUBSET Spawned \ {{}} : HandleSelect(f, S)
    BY <1>8
  <2> QED BY <1>1, <1>5, <1>6, <2>1 DEF HandleSelect
<1> QED BY <1>3, <1>4, <1>6, <1>7, <1>8
  DEF FiberStep, FiberYield, SubmitIo, RefuseIo, HandlePark, HandleIoForward, HandleNotify,
      HandleIoForwardCancel, Spawn, KillFiber, RequestShutdown

\* The functions in progress record verdicts.
LEMMA HandlerStepRecords ==
    ASSUME SchedInv, PlaceInv, HandlerStep PROVE Recorder
<1>1. CASE UNCHANGED completed
  BY <1>1, NoRecord
<1>2. CASE FiberAbort
  <2> DEFINE f == Head(stack).fiber
  <2>1. stack # <<>> /\ Head(stack).at = "raise"
    BY <1>2 DEF FiberAbort, Top
  <2>2. f \in Fibers /\ st \in [Fibers -> Status]
    BY <2>1, PopStack, FrameFields DEF PlaceInv, Frames, SchedInv, CoreOK
  <2>3. CASE st' = [st EXCEPT ![f] = "error"] /\ completed' = Put(completed, f, "error")
    <3>1. st'[f] = "error"
      BY <2>2, <2>3
    <3>2. Terminated(st'[f]) /\ Verdict(st'[f]) = "error"
      BY <3>1 DEF Terminated, Failed, Verdict
    <3> QED BY <2>3, <3>2, NewRecord
  <2>4. CASE IsDead(st[f]) /\ UNCHANGED st /\ completed' = Put(completed, f, Verdict(st[f]))
    BY <2>4, NewRecord DEF Terminated
  <2> QED BY <1>1, <1>2, <2>3, <2>4 DEF FiberAbort, CompleteFiber, BeginComplete
<1>3. CASE CompleteSelects
  BY <1>1, <1>3, NoRecord DEF CompleteSelects, RetireFiber
<1>4. CASE \E id \in Ids : RouteCompletion(id)
  <2>1. PICK id \in Ids : RouteCompletion(id)
    BY <1>4
  <2>2. UNCHANGED st
    BY <2>1 DEF RouteCompletion, fiberVars
  <2>3. \/ UNCHANGED completed
        \/ Unnoticed(pending[id]) /\ completed' = Put(completed, pending[id], Verdict(st[pending[id]]))
    BY <2>1 DEF RouteCompletion, BeginComplete
  <2> QED BY <1>1, <2>2, <2>3, NewRecord DEF Unnoticed
<1> QED BY <1>1, <1>2, <1>3, <1>4
  DEF HandlerStep, FiberResume, CompleteJoins, WakeParked, WakeForwarded, AbortIoOne,
      TakeParkQueues, AbortParkedOne, UnwindCompletion

\* Every step records only verdicts.
LEMMA NextRecords == ASSUME SchedInv, PlaceInv, [Next]_vars PROVE Recorder
<1>1. CASE UNCHANGED completed
  BY <1>1, NoRecord
<1>2. CASE \E f \in Fibers : FiberStep(f)
  BY <1>2, FiberStepRecords
<1>3. CASE HandlerStep
  BY <1>3, HandlerStepRecords
<1>4. CASE DrainOne
  <2> DEFINE f == Last(runnable)
  <2>1. CASE (IsDead(st[f]) \/ st[f] = "error") /\ UNCHANGED st /\ completed' = Put(completed, f, Verdict(st[f]))
    BY <2>1, NewRecord DEF Terminated, Failed
  <2> QED BY <1>1, <1>4, <2>1 DEF DrainOne, CompleteFiber, BeginComplete, fiberVars
<1>5. CASE PumpTail
  BY <1>5, NoRecord DEF PumpTail
<1> QED BY <1>1, <1>2, <1>3, <1>4, <1>5
  DEF Next, LoopStep, StepDecide, PumpDecide, Unwind, UnwindEnd, CancelStragglers, IoWait,
      UnwindWait, IoWaitEmpty, vars

\* The record of a completion says what the fiber says itself, so a join that
\* comes after the record is gone is told what an early one was told.
THEOREM RecordsAgree == ASSUME Careful PROVE Spec => []VerdictAgrees
<1>1. Init => VerdictAgrees
  BY DEF Init, VerdictAgrees, Empty
<1>2. SchedInv /\ PlaceInv /\ VerdictAgrees /\ [Next]_vars => VerdictAgrees'
  <2> SUFFICES ASSUME SchedInv, PlaceInv, VerdictAgrees, [Next]_vars PROVE VerdictAgrees'
    OBVIOUS
  <2>1. Recorder /\ \A g \in Fibers : Final(g)
    BY NextRecords, NextFinal
  <2>2. DOMAIN completed \subseteq Fibers
    BY DEF SchedInv, CoreOK, IsTable
  <2> QED BY <2>1, <2>2 DEF VerdictAgrees, Recorder, Final
<1> QED BY <1>1, <1>2, SchedInvariant, PlaceInvariant, PTL DEF Spec

-----------------------------------------------------------------------------
(* What a step leaves on the stack.                                        *)

\* r is q with at most two frames more.
Above(r, q) ==
    \/ r = q
    \/ \E e : r = <<e>> \o q
    \/ \E d, e : r = <<d, e>> \o q \/ r = <<d>> \o (<<e>> \o q)

\* The frames below are still there.
LEMMA AboveKeeps ==
    ASSUME NEW S, NEW q \in Seq(S), NEW r, Above(r, q) PROVE Range(q) \subseteq Range(r)
<1>1. CASE r = q
  BY <1>1
<1>2. CASE \E e : r = <<e>> \o q
  BY <1>2, PushKeeps
<1>3. CASE \E d, e : r = <<d, e>> \o q
  BY <1>3, PushKeeps
<1>4. CASE \E d, e : r = <<d>> \o (<<e>> \o q)
  <2>1. PICK d, e : r = <<d>> \o (<<e>> \o q)
    BY <1>4
  <2>2. q \in Seq(S \cup {e})
    BY SeqGrows
  <2>3. <<e>> \o q \in Seq(S \cup {e})
    BY <2>2, PushRange
  <2>4. Range(<<e>> \o q) = {e} \cup Range(q) /\ Range(r) = {d} \cup Range(<<e>> \o q)
    BY <2>1, <2>3, PushKeeps
  <2> QED BY <2>4
<1> QED BY <1>1, <1>2, <1>3, <1>4 DEF Above

\* A finished fiber leaves the caller's frames below its own.
LEMMA FoundAbove ==
    ASSUME NEW t, NEW e, NEW q, FoundFinished(t, <<e>> \o q) PROVE Above(stack', q)
BY DEF FoundFinished, CompleteFiber, BeginComplete, Above

\* Of the frames, only the innermost one goes, unless the loop crashes.
LEMMA FramesStay ==
    ASSUME SchedInv, [Next]_vars, stack # <<>>
    PROVE  loop' = "crashed" \/ Range(Tail(stack)) \subseteq Range(stack')
<1>1. stack \in Seq(Frame) /\ Tail(stack) \in Seq(Frame) /\ Range(stack) = {Head(stack)} \cup Range(Tail(stack))
  BY TailRange DEF SchedInv, StackOK
<1>2. CASE Above(stack', Tail(stack))
  BY <1>1, <1>2, AboveKeeps
<1>3. CASE Above(stack', stack)
  BY <1>1, <1>3, AboveKeeps
<1>4. ASSUME NEW f \in Fibers, FiberStep(f) PROVE Above(stack', Tail(stack)) \/ Above(stack', stack)
  <2>1. CASE \E t \in Spawned : HandleJoin(f, t) \/ HandleAbort(f, t)
    BY <2>1, FoundAbove DEF HandleJoin, HandleAbort, Above
  <2>2. CASE \E S \in SUBSET Spawned \ {{}} : HandleSelect(f, S)
    BY <2>2, FoundAbove DEF HandleSelect, Above
  <2>3. CASE FiberReturn(f) \/ FiberError(f)
    BY <2>3 DEF FiberReturn, FiberError, CompleteFiber, BeginComplete, Above
  <2>4. CASE FiberYield(f) \/ SubmitIo(f) \/ RefuseIo(f)
    BY <2>4 DEF FiberYield, SubmitIo, RefuseIo, Above
  <2>5. CASE \E k \in Keys : HandlePark(f, k) \/ HandleIoForward(f, k)
    BY <2>5 DEF HandlePark, HandleIoForward, Above
  <2>6. CASE (\E k \in Keys, n \in 1..MaxWake : HandleNotify(f, k, n))
             \/ (\E id \in Ids : HandleIoForwardCancel(f, id))
    BY <2>6 DEF HandleNotify, HandleIoForwardCancel, Above
  <2>7. CASE (\E g \in Fibers : Spawn(f, g) \/ KillFiber(f, g)) \/ RequestShutdown(f)
    BY <2>7 DEF Spawn, KillFiber, RequestShutdown, Above
  <2> QED BY <1>4, <2>1, <2>2, <2>3, <2>4, <2>5, <2>6, <2>7 DEF FiberStep
<1>5. ASSUME HandlerStep PROVE loop' = "crashed" \/ Above(stack', Tail(stack)) \/ Above(stack', stack)
  <2>1. CASE FiberResume \/ FiberAbort
    BY <2>1 DEF FiberResume, FiberAbort, Crash, CompleteFiber, BeginComplete, Above
  <2>2. CASE CompleteJoins \/ CompleteSelects \/ WakeParked
    BY <2>2 DEF CompleteJoins, CompleteSelects, WakeParked, Above
  <2>3. CASE \E id \in Ids : RouteCompletion(id)
    BY <2>3 DEF RouteCompletion, BeginComplete, Above
  <2>4. CASE WakeForwarded \/ AbortIoOne \/ TakeParkQueues \/ AbortParkedOne \/ UnwindCompletion
    BY <2>4 DEF WakeForwarded, AbortIoOne, TakeParkQueues, AbortParkedOne, UnwindCompletion, Above
  <2> QED BY <1>5, <2>1, <2>2, <2>3, <2>4 DEF HandlerStep
<1>6. CASE LoopStep \/ (\E B \in SUBSET inflight : IoWait(B) \/ UnwindWait(B)) \/ IoWaitEmpty
  BY <1>6 DEF LoopStep, DrainOne, StepDecide, PumpDecide, Unwind, UnwindEnd, CancelStragglers,
              PumpTail, IoWait, UnwindWait, IoWaitEmpty, At
<1>7. CASE UNCHANGED vars
  BY <1>3, <1>7 DEF vars, Above
<1> QED BY <1>2, <1>3, <1>4, <1>5, <1>6, <1>7 DEF Next

\* A loop that has ended takes no step.
LEMMA EndedLoop ==
    ASSUME stack = <<>>, loop \in {"returned", "raised", "crashed"}, Next PROVE FALSE
<1>1. CASE \E f \in Fibers : FiberStep(f)
  BY <1>1 DEF FiberStep, FiberReturn, FiberError, FiberYield, SubmitIo, RefuseIo, HandleJoin,
              HandleAbort, HandleSelect, HandlePark, HandleIoForward, HandleNotify,
              HandleIoForwardCancel, Spawn, KillFiber, RequestShutdown, Requests, Running, Top
<1>2. CASE HandlerStep
  BY <1>2 DEF HandlerStep, FiberResume, FiberAbort, CompleteJoins, CompleteSelects, WakeParked,
              RouteCompletion, WakeForwarded, AbortIoOne, TakeParkQueues, AbortParkedOne,
              UnwindCompletion, Top
<1>3. CASE LoopStep \/ (\E B \in SUBSET inflight : IoWait(B) \/ UnwindWait(B)) \/ IoWaitEmpty
  BY <1>3 DEF LoopStep, DrainOne, StepDecide, PumpDecide, Unwind, UnwindEnd, CancelStragglers,
              PumpTail, IoWait, UnwindWait, IoWaitEmpty, At
<1> QED BY <1>1, <1>2, <1>3 DEF Next

\* Only fiber/resume and fiber/abort crash the loop, and nothing is left in progress.
LEMMA CrashClears ==
    ASSUME Next, loop # "crashed", loop' = "crashed" PROVE stack' = <<>>
<1>1. CASE \E f \in Fibers : FiberStep(f)
  BY <1>1 DEF FiberStep, FiberReturn, FiberError, FiberYield, SubmitIo, RefuseIo, HandleJoin,
              HandleAbort, HandleSelect, HandlePark, HandleIoForward, HandleNotify,
              HandleIoForwardCancel, Spawn, KillFiber, RequestShutdown, loopVars
<1>2. CASE HandlerStep
  BY <1>2 DEF HandlerStep, FiberResume, FiberAbort, CompleteJoins, CompleteSelects, WakeParked,
              RouteCompletion, WakeForwarded, AbortIoOne, TakeParkQueues, AbortParkedOne,
              UnwindCompletion, Crash, loopVars
<1>3. CASE LoopStep \/ (\E B \in SUBSET inflight : IoWait(B) \/ UnwindWait(B)) \/ IoWaitEmpty
  BY <1>3 DEF LoopStep, DrainOne, StepDecide, BeginShutdown, PumpDecide, Unwind, UnwindEnd,
              CancelStragglers, PumpTail, IoWait, UnwindWait, IoWaitEmpty, At, loopVars
<1> QED BY <1>1, <1>2, <1>3 DEF Next

-----------------------------------------------------------------------------
(* An empty queue has no key.                                              *)

\* The array of t is being emptied by complete-fiber.
Emptying(t) == \E fr \in Range(stack) : fr = Joins(t)

\* Arrays are not empty, but for the one complete-fiber is emptying.
FullQueues ==
    /\ loop = "crashed" => stack = <<>>
    /\ loop # "crashed" =>
         /\ \A k \in DOMAIN parkQueues : parkQueues[k] # <<>>
         /\ \A t \in DOMAIN waiters : waiters[t] # <<>> \/ Emptying(t)

\* The table t2 has no empty array that t does not have.
NoNewEmpty(t2, t) ==
    \A k \in DOMAIN t2 : t2[k] # <<>> \/ (k \in DOMAIN t /\ t2[k] = t[k])

\* leave-queue and push leave no empty array, and neither does forgetting all.
LEMMA QueuesStayFull ==
    ASSUME NEW K, NEW t, IsTable(t, K, Seq(Fibers))
    PROVE  /\ NoNewEmpty(t, t) /\ NoNewEmpty(Empty, t)
           /\ \A k \in K : \A f : NoNewEmpty(LeaveQueue(t, k, f), t)
           /\ \A k \in K, f \in Fibers : NoNewEmpty(Put(t, k, Append(Array(t, k), f)), t)
<1>1. NoNewEmpty(t, t) /\ NoNewEmpty(Empty, t)
  BY DEF NoNewEmpty, Empty
<1>2. ASSUME NEW k \in K, NEW f PROVE NoNewEmpty(LeaveQueue(t, k, f), t)
  BY LeaveQueueExact DEF NoNewEmpty
<1>3. ASSUME NEW k \in K, NEW f \in Fibers PROVE NoNewEmpty(Put(t, k, Append(Array(t, k), f)), t)
  <2> DEFINE v == Append(Array(t, k), f)
  <2>1. Array(t, k) \in Seq(Fibers)
    BY DEF Array, IsTable
  <2>2. v # <<>>
    <3> HIDE DEF Array
    <3>1. Append(Array(t, k), f)[Len(Array(t, k)) + 1] = f /\ Len(v) = Len(Array(t, k)) + 1 /\ Len(Array(t, k)) \in Nat
      BY <2>1
    <3> QED BY <3>1
  <2> HIDE DEF v
  <2>3. /\ DOMAIN Put(t, k, v) = DOMAIN t \cup {k} /\ Put(t, k, v)[k] = v
        /\ \A x \in DOMAIN t \ {k} : Put(t, k, v)[x] = t[x]
    BY DEF Put
  <2>4. NoNewEmpty(Put(t, k, v), t)
    BY <2>2, <2>3 DEF NoNewEmpty
  <2> QED BY <2>4 DEF v
<1> QED BY <1>1, <1>2, <1>3

\* leave-waits leaves no empty array.
LEMMA LeaveFull ==
    ASSUME WaitPart, NEW f, LeaveWaits(f)
    PROVE  NoNewEmpty(parkQueues', parkQueues) /\ NoNewEmpty(waiters', waiters)
<1>1. IsTable(parkQueues, Keys, Seq(Fibers)) /\ IsTable(waiters, Fibers, Seq(Fibers))
      /\ IsTable(fiberPark, Fibers, Keys) /\ IsTable(fiberJoin, Fibers, Fibers)
  BY DEF WaitPart
<1>2. NoNewEmpty(parkQueues', parkQueues)
  BY <1>1, QueuesStayFull DEF LeaveWaits, IsTable
<1>3. NoNewEmpty(waiters', waiters)
  BY <1>1, QueuesStayFull DEF LeaveWaits, IsTable
<1> QED BY <1>2, <1>3

\* No step but one of complete-fiber leaves an empty array.
LEMMA NextFull ==
    ASSUME SchedInv, Next, ~CompleteJoins
    PROVE  NoNewEmpty(parkQueues', parkQueues) /\ NoNewEmpty(waiters', waiters)
<1>1. /\ IsTable(parkQueues, Keys, Seq(Fibers)) /\ IsTable(waiters, Fibers, Seq(Fibers))
      /\ WaitPart /\ Spawned \subseteq Fibers
  BY DEF SchedInv, WaitPart, Spawned
<1>2. CASE UNCHANGED <<parkQueues, waiters>>
  BY <1>1, <1>2, QueuesStayFull
<1>3. CASE \E f : LeaveWaits(f)
  BY <1>1, <1>3, LeaveFull
<1>4. CASE \E f \in Fibers : FiberStep(f)
  <2>1. PICK f \in Fibers : FiberStep(f)
    BY <1>4
  <2>2. CASE \E t \in Spawned : HandleJoin(f, t)
    <3>1. PICK t \in Fibers : HandleJoin(f, t)
      BY <1>1, <2>2
    <3>2. CASE waiters' = Put(waiters, t, Append(Array(waiters, t), f)) /\ UNCHANGED parkQueues
      BY <1>1, <3>2, QueuesStayFull
    <3> QED BY <1>2, <1>3, <3>1, <3>2 DEF HandleJoin, FoundFinished, CompleteFiber, BeginComplete, waitVars
  <2>3. CASE \E k \in Keys : HandlePark(f, k)
    <3>1. PICK k \in Keys : HandlePark(f, k)
      BY <2>3
    <3>2. CASE parkQueues' = Put(parkQueues, k, Append(Array(parkQueues, k), f)) /\ UNCHANGED waiters
      BY <1>1, <3>2, QueuesStayFull
    <3> QED BY <1>2, <3>1, <3>2 DEF HandlePark
  <2>4. CASE \E t \in Spawned : HandleAbort(f, t)
    BY <1>2, <1>3, <2>4 DEF HandleAbort, FoundFinished, CompleteFiber, BeginComplete, waitVars
  <2>5. CASE \E S \in SUBSET Spawned \ {{}} : HandleSelect(f, S)
    BY <1>2, <1>3, <2>5 DEF HandleSelect, FoundFinished, CompleteFiber, BeginComplete, waitVars
  <2>6. CASE FiberReturn(f) \/ FiberError(f)
    BY <1>3, <2>6 DEF FiberReturn, FiberError, CompleteFiber, BeginComplete
  <2> QED BY <1>2, <2>1, <2>2, <2>3, <2>4, <2>5, <2>6
    DEF FiberStep, FiberYield, SubmitIo, RefuseIo, HandleIoForward, HandleNotify,
        HandleIoForwardCancel, Spawn, KillFiber, RequestShutdown, waitVars
<1>5. CASE HandlerStep
  <2>1. CASE WakeParked
    <3>1. stack # <<>> /\ Head(stack).at = "wake" /\ Head(stack) \in Frame
      BY <2>1, TopFrame DEF WakeParked, Top, SchedInv
    <3>2. Head(stack).key \in Keys
      BY <3>1, FrameFields
    <3>3. CASE \E f : parkQueues' = LeaveQueue(parkQueues, Head(stack).key, f)
      BY <1>1, <2>1, <3>2, <3>3, QueuesStayFull DEF WakeParked
    <3> QED BY <1>2, <2>1, <3>3 DEF WakeParked
  <2>2. CASE TakeParkQueues
    BY <1>1, <2>2, QueuesStayFull DEF TakeParkQueues
  <2>3. CASE FiberAbort
    BY <1>2, <1>3, <2>3 DEF FiberAbort, CompleteFiber, BeginComplete, waitVars
  <2>4. CASE \E id \in Ids : RouteCompletion(id)
    BY <1>2, <1>3, <2>4 DEF RouteCompletion, BeginComplete, waitVars
  <2> QED BY <1>2, <1>5, <2>1, <2>2, <2>3, <2>4
    DEF HandlerStep, FiberResume, CompleteSelects, WakeForwarded, AbortIoOne, AbortParkedOne,
        UnwindCompletion, waitVars
<1>6. CASE DrainOne
  BY <1>2, <1>3, <1>6 DEF DrainOne, CompleteFiber, BeginComplete, waitVars
<1>7. CASE PumpTail
  BY <1>1, <1>7, QueuesStayFull DEF PumpTail
<1> QED BY <1>2, <1>4, <1>5, <1>6, <1>7
  DEF Next, LoopStep, StepDecide, PumpDecide, Unwind, UnwindEnd, CancelStragglers, IoWait,
      UnwindWait, IoWaitEmpty, waitVars

\* Whoever is being emptied is still being emptied, after a step that is not
\* one of complete-fiber.
LEMMA EmptyingStays ==
    ASSUME SchedInv, Next, ~CompleteJoins, loop' # "crashed", NEW t, Emptying(t)
    PROVE  Emptying(t)'
<1>1. PICK fr \in Range(stack) : fr = Joins(t)
  BY DEF Emptying
<1>2. stack \in Seq(Frame)
  BY DEF SchedInv, StackOK
<1>3. stack # <<>>
  BY <1>1, <1>2, RangeSeq
<1>4. Range(stack) = {Head(stack)} \cup Range(Tail(stack))
  BY <1>2, <1>3, TailRange
<1>5. Range(Tail(stack)) \subseteq Range(stack')
  BY <1>3, FramesStay
<1>6. CASE fr \in Range(Tail(stack))
  BY <1>1, <1>5, <1>6 DEF Emptying
<1>7. CASE fr = Head(stack)
  <2>1. Head(stack).at = "joins"
    BY <1>1, <1>7 DEF Joins
  <2>2. FALSE
    <3>1. CASE \E f \in Fibers : FiberStep(f)
      BY <2>1, <3>1 DEF FiberStep, FiberReturn, FiberError, FiberYield, SubmitIo, RefuseIo, HandleJoin,
           HandleAbort, HandleSelect, HandlePark, HandleIoForward, HandleNotify, HandleIoForwardCancel,
           Spawn, KillFiber, RequestShutdown, Requests, Running, Top
    <3>2. CASE HandlerStep
      BY <2>1, <3>2 DEF HandlerStep, FiberResume, FiberAbort, CompleteSelects, WakeParked, RouteCompletion,
           WakeForwarded, AbortIoOne, TakeParkQueues, AbortParkedOne, UnwindCompletion, Top
    <3>3. CASE LoopStep \/ (\E B \in SUBSET inflight : IoWait(B) \/ UnwindWait(B)) \/ IoWaitEmpty
      BY <1>3, <3>3 DEF LoopStep, DrainOne, StepDecide, PumpDecide, Unwind, UnwindEnd, CancelStragglers,
           PumpTail, IoWait, UnwindWait, IoWaitEmpty, At
    <3> QED BY <3>1, <3>2, <3>3 DEF Next
  <2> QED BY <2>2
<1> QED BY <1>1, <1>4, <1>6, <1>7

\* complete-fiber empties one array, and takes its key when it is empty.
LEMMA CompleteJoinsFull == ASSUME SchedInv, FullQueues, CompleteJoins PROVE FullQueues'
<1>0. PICK f : f = Head(stack).target
  OBVIOUS
<1>1. stack # <<>> /\ Head(stack).at = "joins" /\ stack \in Seq(Frame)
  BY DEF CompleteJoins, Top, SchedInv, StackOK
<1>2. Head(stack) \in Frame /\ Range(stack) = {Head(stack)} \cup Range(Tail(stack)) /\ Tail(stack) \in Seq(Frame)
  BY <1>1, TailRange
<1>3. Head(stack) = Joins(f)
  BY <1>0, <1>1, <1>2 DEF Frame, Joins
<1>4. loop # "crashed" /\ UNCHANGED <<loop, parkQueues>>
  BY <1>1 DEF FullQueues, CompleteJoins, loopVars
<1>5. CASE f \in DOMAIN waiters /\ waiters[f] # <<>>
  <2> DEFINE q == Tail(waiters[f])
  <2>1. waiters' = Put(waiters, f, q) /\ \E e : stack' = <<e>> \o stack
    BY <1>0, <1>5 DEF CompleteJoins
  <2>2. Range(stack) \subseteq Range(stack')
    BY <1>1, <2>1, PushKeeps
  <2>3. Emptying(f)' /\ \A t : Emptying(t) => Emptying(t)'
    BY <1>2, <1>3, <2>2 DEF Emptying
  <2> HIDE DEF q
  <2>4. DOMAIN waiters' = DOMAIN waiters \cup {f} /\ \A t \in DOMAIN waiters \ {f} : waiters'[t] = waiters[t]
    BY <2>1 DEF Put
  <2> QED BY <1>4, <2>3, <2>4 DEF FullQueues
<1>6. CASE ~(f \in DOMAIN waiters /\ waiters[f] # <<>>)
  <2>1. waiters' = Del(waiters, f)
    BY <1>0, <1>6 DEF CompleteJoins
  <2>2. stack' = <<Selects(f, DOMAIN selectSets)>> \o Tail(stack)
    BY <1>0, <1>6 DEF CompleteJoins
  <2>5. Above(stack', Tail(stack))
    BY <2>2 DEF Above
  <2>6. Range(Tail(stack)) \subseteq Range(stack')
    BY <1>2, <2>5, AboveKeeps
  <2>3. ASSUME NEW t, t # f, Emptying(t) PROVE Emptying(t)'
    <3>1. Joins(t) # Joins(f)
      BY <2>3 DEF Joins
    <3> QED BY <1>2, <1>3, <2>3, <2>6, <3>1 DEF Emptying
  <2>4. DOMAIN waiters' = DOMAIN waiters \ {f} /\ \A t \in DOMAIN waiters \ {f} : waiters'[t] = waiters[t]
    BY <2>1 DEF Del
  <2> QED BY <1>4, <2>3, <2>4 DEF FullQueues
<1> QED BY <1>5, <1>6

\* Every step leaves the arrays full that are not being emptied.
LEMMA FullQueuesKept == ASSUME SchedInv, FullQueues, [Next]_vars PROVE FullQueues'
<1>1. CASE CompleteJoins
  BY <1>1, CompleteJoinsFull
<1>2. CASE UNCHANGED vars
  BY <1>2 DEF FullQueues, Emptying, vars
<1>3. CASE Next /\ ~CompleteJoins
  <2>1. loop # "crashed"
    BY <1>3, EndedLoop DEF FullQueues
  <2>2. loop' = "crashed" => stack' = <<>>
    BY <1>3, <2>1, CrashClears
  <2>3. NoNewEmpty(parkQueues', parkQueues) /\ NoNewEmpty(waiters', waiters)
    BY <1>3, NextFull
  <2>4. loop' # "crashed" => \A t : Emptying(t) => Emptying(t)'
    BY <1>3, EmptyingStays
  <2> QED BY <2>1, <2>2, <2>3, <2>4 DEF FullQueues, NoNewEmpty
<1> QED BY <1>1, <1>2, <1>3

\* Whatever programs do, a park queue or a waiter list that is empty has no key
\* when step looks, so step reports :done when nobody waits.
THEOREM NoKeyWithoutWaiters == Spec => []EmptyQueueHasNoKey
<1>1. Init => FullQueues
  BY DEF Init, FullQueues, Empty
<1>2. FullQueues => EmptyQueueHasNoKey
  <2> SUFFICES ASSUME FullQueues, Quiet
               PROVE  /\ \A k \in DOMAIN parkQueues : parkQueues[k] # <<>>
                      /\ \A t \in DOMAIN waiters : waiters[t] # <<>>
    BY DEF EmptyQueueHasNoKey
  <2>1. loop # "crashed" /\ Range(stack) = {}
    BY EmptyStack DEF Quiet, Serving, Range
  <2> QED BY <2>1 DEF FullQueues, Emptying
<1> QED BY <1>1, <1>2, FullQueuesKept, SchedInvariant, PTL DEF Spec

-----------------------------------------------------------------------------
(* What the backend holds.                                                 *)

\* The submissions the frames of a stack name.
IdsIn(s) == UNION {IdsOf(fr) : fr \in Range(s)}

\* r is q with at most two frames more, none of which names a submission.
NoIdsAbove(r, q) ==
    \/ r = q
    \/ \E e : IdsOf(e) = {} /\ r = <<e>> \o q
    \/ \E d, e : /\ IdsOf(d) = {} /\ IdsOf(e) = {}
                 /\ r = <<d, e>> \o q \/ r = <<d>> \o (<<e>> \o q)

\* Frames that name no submission.
LEMMA NoIdsIn ==
    /\ \A f : IdsOf(Resume(f)) = {} /\ IdsOf(Joins(f)) = {}
    /\ \A f, p : IdsOf(Raise(f, p)) = {} /\ IdsOf(Run(f, p)) = {} /\ IdsOf(Selects(f, p)) = {}
    /\ \A k, q, n, c : IdsOf(Wake(k, q, n, c)) = {}
    /\ \A S : IdsOf(AbortParked(S)) = {}
    /\ \A B, K : IdsOf(Completions(B, K)) = B /\ IdsOf(Unwinding(B)) = B
BY DEF IdsOf, Resume, Joins, Raise, Run, Selects, Wake, AbortParked, Completions, Unwinding

\* What is put on top adds its own submissions and no other.
LEMMA IdsPushed ==
    ASSUME NEW q \in Seq(Frame)
    PROVE  /\ \A e : IdsIn(<<e>> \o q) = IdsOf(e) \cup IdsIn(q)
           /\ \A d, e : IdsIn(<<d, e>> \o q) = IdsOf(d) \cup IdsOf(e) \cup IdsIn(q)
           /\ \A d, e : IdsIn(<<d>> \o (<<e>> \o q)) = IdsOf(d) \cup IdsOf(e) \cup IdsIn(q)
           /\ q # <<>> => IdsIn(q) = IdsOf(Head(q)) \cup IdsIn(Tail(q))
<1>1. ASSUME NEW S, NEW s \in Seq(S), NEW e PROVE IdsIn(<<e>> \o s) = IdsOf(e) \cup IdsIn(s)
  <2>1. Range(<<e>> \o s) = {e} \cup Range(s)
    BY <1>1, PushKeeps
  <2> QED BY <2>1 DEF IdsIn
<1>2. ASSUME NEW d, NEW e PROVE IdsIn(<<d, e>> \o q) = IdsOf(d) \cup IdsOf(e) \cup IdsIn(q)
  <2>1. Range(<<d, e>> \o q) = {d, e} \cup Range(q)
    BY PushKeeps
  <2> QED BY <2>1 DEF IdsIn
<1>3. ASSUME NEW d, NEW e PROVE IdsIn(<<d>> \o (<<e>> \o q)) = IdsOf(d) \cup IdsOf(e) \cup IdsIn(q)
  <2>1. q \in Seq(Frame \cup {e})
    BY SeqGrows
  <2>2. <<e>> \o q \in Seq(Frame \cup {e})
    BY <2>1, PushRange
  <2>3. IdsIn(<<d>> \o (<<e>> \o q)) = IdsOf(d) \cup IdsIn(<<e>> \o q)
    BY <1>1, <2>2
  <2>4. IdsIn(<<e>> \o q) = IdsOf(e) \cup IdsIn(q)
    BY <1>1
  <2> QED BY <2>3, <2>4
<1>4. ASSUME q # <<>> PROVE IdsIn(q) = IdsOf(Head(q)) \cup IdsIn(Tail(q))
  <2>1. Range(q) = {Head(q)} \cup Range(Tail(q))
    BY <1>4, TailRange
  <2> QED BY <2>1 DEF IdsIn
<1> QED BY <1>1, <1>2, <1>3, <1>4

\* Frames that name no submission leave the named ones as they were.
LEMMA IdsSame == ASSUME NEW q \in Seq(Frame), NEW r, NoIdsAbove(r, q) PROVE IdsIn(r) = IdsIn(q)
<1>1. CASE r = q
  BY <1>1
<1>2. CASE \E e : IdsOf(e) = {} /\ r = <<e>> \o q
  <2>1. PICK e : IdsOf(e) = {} /\ r = <<e>> \o q
    BY <1>2
  <2>2. IdsIn(<<e>> \o q) = IdsOf(e) \cup IdsIn(q)
    BY IdsPushed
  <2> QED BY <2>1, <2>2
<1>3. CASE \E d, e : IdsOf(d) = {} /\ IdsOf(e) = {} /\ r = <<d, e>> \o q
  <2>1. PICK d, e : IdsOf(d) = {} /\ IdsOf(e) = {} /\ r = <<d, e>> \o q
    BY <1>3
  <2>2. IdsIn(<<d, e>> \o q) = IdsOf(d) \cup IdsOf(e) \cup IdsIn(q)
    BY IdsPushed
  <2> QED BY <2>1, <2>2
<1>4. CASE \E d, e : IdsOf(d) = {} /\ IdsOf(e) = {} /\ r = <<d>> \o (<<e>> \o q)
  <2>1. PICK d, e : IdsOf(d) = {} /\ IdsOf(e) = {} /\ r = <<d>> \o (<<e>> \o q)
    BY <1>4
  <2>2. IdsIn(<<d>> \o (<<e>> \o q)) = IdsOf(d) \cup IdsOf(e) \cup IdsIn(q)
    BY IdsPushed
  <2> QED BY <2>1, <2>2
<1> QED BY <1>1, <1>2, <1>3, <1>4 DEF NoIdsAbove

\* What the backend holds is what the tables wait for, or what a completion
\* that is being routed will find there; no submission is in both tables.
OpsInv ==
    Serving =>
      /\ inflight \subseteq DOMAIN pending \cup DOMAIN forwarded
      /\ DOMAIN pending \cup DOMAIN forwarded \subseteq inflight \cup IdsIn(stack)
      /\ DOMAIN pending \cap DOMAIN forwarded = {}
      /\ inflight \cap IdsIn(stack) = {}

\* The submissions R are over, for the tables, the backend and the frames.
OpsOver(R) ==
    /\ Serving' => Serving
    /\ DOMAIN pending' \cup DOMAIN forwarded' = (DOMAIN pending \cup DOMAIN forwarded) \ R
    /\ DOMAIN pending' \subseteq DOMAIN pending /\ DOMAIN forwarded' \subseteq DOMAIN forwarded
    /\ inflight' = inflight \ R
    /\ IdsIn(stack') \subseteq IdsIn(stack) /\ IdsIn(stack) \subseteq IdsIn(stack') \cup R

\* One submission that nobody names is added.
OpsNew(id) ==
    /\ Serving' => Serving
    /\ id \notin DOMAIN pending \cup DOMAIN forwarded \cup inflight \cup IdsIn(stack)
    /\ DOMAIN pending' \cup DOMAIN forwarded' = DOMAIN pending \cup DOMAIN forwarded \cup {id}
    /\ DOMAIN pending' \cap DOMAIN forwarded' = DOMAIN pending \cap DOMAIN forwarded
    /\ inflight' = inflight \cup {id}
    /\ IdsIn(stack') = IdsIn(stack)

\* A submission that is over, or new, is so everywhere.
LEMMA OpsKept == ASSUME OpsInv, (\E R : OpsOver(R)) \/ (\E id : OpsNew(id)) PROVE OpsInv'
BY DEF OpsInv, OpsOver, OpsNew

\* Nothing of the submissions changes.
OpsSame == UNCHANGED <<loop, pending, forwarded, inflight>> /\ IdsIn(stack') = IdsIn(stack)

\* Then they are all owned as before.
LEMMA OpsUntouched == ASSUME OpsInv, OpsSame PROVE OpsInv'
BY DEF OpsInv, OpsSame, Serving

\* Giving an operation back takes it from its table and from the backend.
LEMMA CancelOps ==
    ASSUME SchedInv, OpsInv, NEW f, CancelIo(f), UNCHANGED <<loop, forwarded>>, IdsIn(stack') = IdsIn(stack)
    PROVE  OpsInv'
<1>1. CASE f \notin DOMAIN fiberIo
  BY <1>1, OpsUntouched DEF CancelIo, ioVars, OpsSame
<1>2. CASE f \in DOMAIN fiberIo /\ Serving
  <2> DEFINE id == fiberIo[f]
  <2>1. id \in DOMAIN pending /\ id \notin DOMAIN forwarded
    BY <1>2 DEF SchedInv, IoPart, IoLookup, OpsInv
  <2>2. DOMAIN pending' = DOMAIN pending \ {id} /\ inflight' = inflight \ {id}
    BY <1>2 DEF CancelIo, Del
  <2> HIDE DEF id
  <2>3. OpsInv'
    BY <1>2, <2>1, <2>2 DEF OpsInv, Serving
  <2> QED BY <2>3
<1>3. CASE ~Serving
  BY <1>3 DEF OpsInv, Serving
<1> QED BY <1>1, <1>2, <1>3

\* A step leaves the submissions the frames name, if the frame it takes away
\* and the ones it puts there name none.
LEMMA IdsKept ==
    ASSUME SchedInv,
           \/ NoIdsAbove(stack', stack)
           \/ stack # <<>> /\ IdsOf(Head(stack)) = {} /\ NoIdsAbove(stack', Tail(stack))
    PROVE  IdsIn(stack') = IdsIn(stack)
<1>1. stack \in Seq(Frame)
  BY DEF SchedInv, StackOK
<1>2. CASE NoIdsAbove(stack', stack)
  BY <1>1, <1>2, IdsSame
<1>3. CASE stack # <<>> /\ IdsOf(Head(stack)) = {} /\ NoIdsAbove(stack', Tail(stack))
  <2>1. Tail(stack) \in Seq(Frame) /\ IdsIn(stack) = IdsOf(Head(stack)) \cup IdsIn(Tail(stack))
    BY <1>1, <1>3, IdsPushed, TailRange
  <2> QED BY <1>3, <2>1, IdsSame
<1> QED BY <1>2, <1>3

\* A finished fiber leaves the submissions the frames name.
LEMMA FoundNoIds ==
    ASSUME NEW t, NEW e, IdsOf(e) = {}, NEW q, FoundFinished(t, <<e>> \o q)
    PROVE  NoIdsAbove(stack', q)
<1>1. stack' = <<e>> \o q \/ stack' = <<Joins(t)>> \o (<<e>> \o q)
  BY DEF FoundFinished, CompleteFiber, BeginComplete
<1> QED BY <1>1, NoIdsIn DEF NoIdsAbove

\* A running fiber, and the handlers it calls, put no submission on the stack.
LEMMA FiberStepIds == ASSUME SchedInv, NEW f \in Fibers, FiberStep(f) PROVE IdsIn(stack') = IdsIn(stack)
<1>1. stack # <<>> /\ Head(stack).at = "run"
  BY DEF FiberStep, FiberReturn, FiberError, FiberYield, SubmitIo, RefuseIo, HandleJoin, HandleAbort,
         HandleSelect, HandlePark, HandleIoForward, HandleNotify, HandleIoForwardCancel, Spawn,
         KillFiber, RequestShutdown, Requests, Running, Top
<1>2. IdsOf(Head(stack)) = {}
  BY <1>1 DEF IdsOf
<1>3. CASE NoIdsAbove(stack', Tail(stack))
  BY <1>1, <1>2, <1>3, IdsKept
<1>4. CASE UNCHANGED stack
  BY <1>4
<1>5. CASE \E e : IdsOf(e) = {} /\ stack' = <<e>> \o Tail(stack)
  BY <1>3, <1>5 DEF NoIdsAbove
<1>6. CASE stack' = Tail(stack)
  BY <1>3, <1>6 DEF NoIdsAbove
<1>7. CASE \E t, e : IdsOf(e) = {} /\ FoundFinished(t, <<e>> \o Tail(stack))
  BY <1>3, <1>7, FoundNoIds
<1>8. CASE \E t \in Spawned : HandleJoin(f, t)
  BY <1>6, <1>7, <1>8, NoIdsIn DEF HandleJoin
<1>9. CASE \E t \in Spawned : HandleAbort(f, t)
  <2>1. PICK t \in Spawned : HandleAbort(f, t)
    BY <1>9
  <2>2. CASE stack' = <<Raise(t, FALSE), Resume(f)>> \o Tail(stack)
    BY <1>3, <2>2, NoIdsIn DEF NoIdsAbove
  <2> QED BY <1>7, <2>1, <2>2, NoIdsIn DEF HandleAbort
<1>10. CASE \E S \in SUBSET Spawned \ {{}} : HandleSelect(f, S)
  BY <1>6, <1>7, <1>10, NoIdsIn DEF HandleSelect
<1>11. CASE FiberReturn(f) \/ FiberError(f)
  <2>1. stack' = <<Joins(f)>> \o Tail(stack)
    BY <1>11 DEF FiberReturn, FiberError, CompleteFiber, BeginComplete
  <2> QED BY <1>5, <2>1, NoIdsIn
<1>12. CASE FiberYield(f) \/ SubmitIo(f)
  BY <1>6, <1>12 DEF FiberYield, SubmitIo
<1>13. CASE RefuseIo(f)
  BY <1>5, <1>13, NoIdsIn DEF RefuseIo
<1>14. CASE \E k \in Keys : HandlePark(f, k) \/ HandleIoForward(f, k)
  BY <1>5, <1>6, <1>14, NoIdsIn DEF HandlePark, HandleIoForward
<1>15. CASE \E k \in Keys, n \in 1..MaxWake : HandleNotify(f, k, n)
  BY <1>5, <1>15, NoIdsIn DEF HandleNotify
<1>16. CASE \E id \in Ids : HandleIoForwardCancel(f, id)
  BY <1>5, <1>16, NoIdsIn DEF HandleIoForwardCancel
<1>17. CASE (\E g \in Fibers : Spawn(f, g) \/ KillFiber(f, g)) \/ RequestShutdown(f)
  BY <1>4, <1>17 DEF Spawn, KillFiber, RequestShutdown
<1> QED BY <1>8, <1>9, <1>10, <1>11, <1>12, <1>13, <1>14, <1>15, <1>16, <1>17 DEF FiberStep

\* A running fiber, and the handlers it calls, keep the books of the backend.
LEMMA FiberStepOps == ASSUME SchedInv, OpsInv, NEW f \in Fibers, FiberStep(f) PROVE OpsInv'
<1>1. IdsIn(stack') = IdsIn(stack) /\ UNCHANGED loop
  BY FiberStepIds DEF FiberStep, FiberReturn, FiberError, FiberYield, SubmitIo, RefuseIo, HandleJoin,
       HandleAbort, HandleSelect, HandlePark, HandleIoForward, HandleNotify, HandleIoForwardCancel,
       Spawn, KillFiber, RequestShutdown, loopVars
<1>2. CASE UNCHANGED <<pending, inflight, forwarded>>
  BY <1>1, <1>2, OpsUntouched DEF OpsSame
<1>3. CASE UNCHANGED forwarded /\ \E t : CancelIo(t)
  BY <1>1, <1>3, CancelOps
<1>4. stack \in Seq(Frame)
  BY DEF SchedInv, StackOK
<1>5. \A id \in FreeIds : id \notin DOMAIN pending \cup DOMAIN forwarded \cup inflight \cup IdsIn(stack)
  BY <1>4, RangeSeq DEF FreeIds, IdsIn
<1>6. CASE SubmitIo(f)
  <2>1. PICK id \in FreeIds : pending' = Put(pending, id, f) /\ inflight' = inflight \cup {id}
    BY <1>6 DEF SubmitIo
  <2>2. DOMAIN pending' = DOMAIN pending \cup {id} /\ UNCHANGED forwarded
    BY <1>6, <2>1 DEF Put, SubmitIo
  <2>3. OpsNew(id)
    BY <1>1, <1>5, <2>1, <2>2 DEF OpsNew, Serving
  <2> QED BY <2>3, OpsKept
<1>7. CASE \E k \in Keys : HandleIoForward(f, k)
  <2>1. PICK k \in Keys : HandleIoForward(f, k)
    BY <1>7
  <2>2. ASSUME NEW id \in FreeIds, forwarded' = Put(forwarded, id, k), inflight' = inflight \cup {id}
        PROVE  OpsInv'
    <3>1. DOMAIN forwarded' = DOMAIN forwarded \cup {id} /\ UNCHANGED pending
      BY <2>1, <2>2 DEF Put, HandleIoForward
    <3>2. OpsNew(id)
      BY <1>1, <1>5, <2>2, <3>1 DEF OpsNew, Serving
    <3> QED BY <3>2, OpsKept
  <2> QED BY <1>2, <2>1, <2>2 DEF HandleIoForward
<1>8. CASE \E id \in Ids : HandleIoForwardCancel(f, id)
  <2>1. PICK id \in Ids : HandleIoForwardCancel(f, id)
    BY <1>8
  <2>2. CASE id \in DOMAIN forwarded /\ Serving
    <3>1. DOMAIN forwarded' = DOMAIN forwarded \ {id} /\ inflight' = inflight \ {id} /\ UNCHANGED pending
      BY <2>1, <2>2 DEF Del, HandleIoForwardCancel, CancelForward
    <3> QED BY <1>1, <2>2, <3>1 DEF OpsInv, Serving
  <2>3. CASE ~Serving
    BY <1>1, <2>3 DEF OpsInv, Serving
  <2> QED BY <1>2, <2>1, <2>2, <2>3 DEF HandleIoForwardCancel, CancelForward
<1>9. CASE \E t \in Spawned : HandleJoin(f, t) \/ HandleAbort(f, t)
  BY <1>2, <1>3, <1>9 DEF HandleJoin, HandleAbort, FoundFinished, CompleteFiber, ioVars
<1>10. CASE \E S \in SUBSET Spawned \ {{}} : HandleSelect(f, S)
  BY <1>2, <1>3, <1>10 DEF HandleSelect, FoundFinished, CompleteFiber, ioVars
<1>11. CASE FiberReturn(f) \/ FiberError(f)
  BY <1>3, <1>11 DEF FiberReturn, FiberError, CompleteFiber
<1> QED BY <1>2, <1>6, <1>7, <1>8, <1>9, <1>10, <1>11
  DEF FiberStep, FiberYield, RefuseIo, HandlePark, HandleNotify, Spawn, KillFiber, RequestShutdown, ioVars

\* The functions in progress keep the books of the backend.
LEMMA HandlerStepOps == ASSUME SchedInv, OpsInv, HandlerStep PROVE OpsInv'
<1>1. stack \in Seq(Frame) /\ stack # <<>>
  BY DEF SchedInv, StackOK, HandlerStep, FiberResume, FiberAbort, CompleteJoins, CompleteSelects,
         WakeParked, RouteCompletion, WakeForwarded, AbortIoOne, TakeParkQueues, AbortParkedOne,
         UnwindCompletion, Top
<1>2. Tail(stack) \in Seq(Frame) /\ IdsIn(stack) = IdsOf(Head(stack)) \cup IdsIn(Tail(stack))
      /\ Head(stack) \in Frame /\ FrameOK(Head(stack), loop, pending)
  BY <1>1, IdsPushed, TailRange, TopFrame DEF SchedInv
<1>3. CASE loop' \notin {"drain", "wait", "after"}
  BY <1>3 DEF OpsInv, Serving
<1>4. CASE FiberResume
  <2>1. IdsOf(Head(stack)) = {}
    BY <1>4 DEF FiberResume, Top, IdsOf
  <2>2. CASE \E f : stack' = <<Run(f, "resume")>> \o Tail(stack) /\ UNCHANGED loop
    <3>1. NoIdsAbove(stack', Tail(stack))
      BY <2>2, NoIdsIn DEF NoIdsAbove
    <3>2. IdsIn(stack') = IdsIn(stack)
      BY <1>1, <2>1, <3>1, IdsKept
    <3> QED BY <1>4, <2>2, <3>2, OpsUntouched DEF FiberResume, ioVars, OpsSame
  <2> QED BY <1>3, <1>4, <2>2 DEF FiberResume, Crash, loopVars
<1>5. CASE FiberAbort
  <2>1. IdsOf(Head(stack)) = {} /\ UNCHANGED forwarded
    BY <1>5 DEF FiberAbort, Top, IdsOf
  <2>2. CASE stack' = Tail(stack) \/ (\E f : stack' = <<Run(f, "abort")>> \o Tail(stack) \/ stack' = <<Joins(f)>> \o Tail(stack))
    <3>1. NoIdsAbove(stack', Tail(stack))
      BY <2>2, NoIdsIn DEF NoIdsAbove
    <3>2. IdsIn(stack') = IdsIn(stack)
      BY <1>1, <2>1, <3>1, IdsKept
    <3>3. CASE UNCHANGED <<loop, pending, inflight>>
      BY <2>1, <3>2, <3>3, OpsUntouched DEF OpsSame
    <3>4. CASE UNCHANGED loop /\ \E f : CancelIo(f)
      BY <2>1, <3>2, <3>4, CancelOps
    <3> QED BY <1>3, <1>5, <3>3, <3>4 DEF FiberAbort, Crash, CompleteFiber, ioVars, loopVars
  <2> QED BY <1>3, <1>5, <2>2 DEF FiberAbort, Crash, CompleteFiber, BeginComplete
<1>6. CASE CompleteJoins
  <2>1. IdsOf(Head(stack)) = {}
    BY <1>6 DEF CompleteJoins, Top, IdsOf
  <2>2. NoIdsAbove(stack', stack) \/ NoIdsAbove(stack', Tail(stack))
    BY <1>6, NoIdsIn DEF CompleteJoins, NoIdsAbove
  <2>3. IdsIn(stack') = IdsIn(stack)
    BY <1>1, <2>1, <2>2, IdsKept
  <2> QED BY <1>6, <2>3, OpsUntouched DEF CompleteJoins, ioVars, loopVars, OpsSame
<1>7. CASE CompleteSelects
  <2>1. IdsOf(Head(stack)) = {}
    BY <1>7 DEF CompleteSelects, Top, IdsOf
  <2>2. NoIdsAbove(stack', Tail(stack))
    BY <1>7, NoIdsIn DEF CompleteSelects, NoIdsAbove
  <2>3. IdsIn(stack') = IdsIn(stack)
    BY <1>1, <2>1, <2>2, IdsKept
  <2> QED BY <1>7, <2>3, OpsUntouched DEF CompleteSelects, ioVars, loopVars, OpsSame
<1>8. CASE WakeParked
  <2>1. IdsOf(Head(stack)) = {}
    BY <1>8 DEF WakeParked, Top, IdsOf
  <2>2. NoIdsAbove(stack', Tail(stack))
    BY <1>8, NoIdsIn DEF WakeParked, NoIdsAbove
  <2>3. IdsIn(stack') = IdsIn(stack)
    BY <1>1, <2>1, <2>2, IdsKept
  <2> QED BY <1>8, <2>3, OpsUntouched DEF WakeParked, ioVars, loopVars, OpsSame
<1>9. CASE WakeForwarded
  <2>1. IdsOf(Head(stack)) = {}
    BY <1>9 DEF WakeForwarded, Top, IdsOf
  <2>2. NoIdsAbove(stack', Tail(stack))
    BY <1>9, NoIdsIn DEF WakeForwarded, NoIdsAbove
  <2>3. IdsIn(stack') = IdsIn(stack)
    BY <1>1, <2>1, <2>2, IdsKept
  <2> QED BY <1>9, <2>3, OpsUntouched DEF WakeForwarded, ioVars, loopVars, OpsSame
<1>10. CASE AbortIoOne \/ TakeParkQueues
  <2>1. Head(stack).at = "abortIo" /\ UNCHANGED loop
    BY <1>10 DEF AbortIoOne, TakeParkQueues, Top, loopVars
  <2> QED BY <1>2, <1>3, <2>1 DEF FrameOK, Phases
<1>11. CASE AbortParkedOne
  <2>1. IdsOf(Head(stack)) = {}
    BY <1>11 DEF AbortParkedOne, Top, IdsOf
  <2>2. NoIdsAbove(stack', Tail(stack))
    BY <1>11, NoIdsIn DEF AbortParkedOne, NoIdsAbove
  <2>3. IdsIn(stack') = IdsIn(stack)
    BY <1>1, <2>1, <2>2, IdsKept
  <2> QED BY <1>3, <1>11, <2>3, OpsUntouched DEF AbortParkedOne, ioVars, OpsSame
<1>12. ASSUME NEW id, id \in IdsOf(Head(stack)), UNCHANGED <<loop, inflight>>,
              \/ DOMAIN pending' = DOMAIN pending \ {id} /\ UNCHANGED forwarded /\ id \in DOMAIN pending
              \/ DOMAIN forwarded' = DOMAIN forwarded \ {id} /\ UNCHANGED pending /\ id \notin DOMAIN pending,
              IdsIn(stack') = (IdsOf(Head(stack)) \ {id}) \cup IdsIn(Tail(stack))
       PROVE  OpsInv'
  BY <1>2, <1>12 DEF OpsInv, Serving
<1>13. CASE \E id \in Ids : RouteCompletion(id)
  <2>1. PICK id \in Ids : RouteCompletion(id)
    BY <1>13
  <2> DEFINE left == Head(stack).todo \ {id}
  <2>2. id \in IdsOf(Head(stack)) /\ IdsOf(Head(stack)) = Head(stack).todo /\ UNCHANGED <<loop, inflight>>
    BY <2>1 DEF RouteCompletion, Top, IdsOf, loopVars
  <2>3. \/ DOMAIN pending' = DOMAIN pending \ {id} /\ UNCHANGED forwarded /\ id \in DOMAIN pending
        \/ DOMAIN forwarded' = DOMAIN forwarded \ {id} /\ UNCHANGED pending /\ id \notin DOMAIN pending
    BY <2>1 DEF RouteCompletion, DropPair, Del
  <2>4. \E K, e : /\ IdsOf(e) = {}
                  /\ \/ stack' = <<Completions(left, K)>> \o Tail(stack)
                     \/ stack' = <<e>> \o (<<Completions(left, K)>> \o Tail(stack))
    BY <2>1, NoIdsIn DEF RouteCompletion, BeginComplete
  <2> HIDE DEF left
  <2>5. PICK K, e : /\ IdsOf(e) = {}
                    /\ \/ stack' = <<Completions(left, K)>> \o Tail(stack)
                       \/ stack' = <<e>> \o (<<Completions(left, K)>> \o Tail(stack))
    BY <2>4
  <2>6. IdsOf(Completions(left, K)) = left
    BY NoIdsIn
  <2>7. IdsIn(stack') = left \cup IdsIn(Tail(stack))
    <3>1. IdsIn(<<Completions(left, K)>> \o Tail(stack)) = IdsOf(Completions(left, K)) \cup IdsIn(Tail(stack))
      BY <1>2, IdsPushed
    <3>2. ASSUME NEW q \in Seq(Frame), NEW c
          PROVE  IdsIn(<<e>> \o (<<c>> \o q)) = IdsOf(e) \cup IdsOf(c) \cup IdsIn(q)
      BY IdsPushed
    <3>3. IdsIn(<<e>> \o (<<Completions(left, K)>> \o Tail(stack)))
            = IdsOf(e) \cup IdsOf(Completions(left, K)) \cup IdsIn(Tail(stack))
      BY <1>2, <3>2
    <3> QED BY <2>5, <2>6, <3>1, <3>3
  <2> QED BY <1>12, <2>2, <2>3, <2>7 DEF left
<1>14. CASE UnwindCompletion
  <2>1. Head(stack).at = "unwinding" /\ UNCHANGED loop
    BY <1>14 DEF UnwindCompletion, Top, loopVars
  <2> QED BY <1>2, <1>3, <2>1 DEF FrameOK, Phases
<1> QED BY <1>4, <1>5, <1>6, <1>7, <1>8, <1>9, <1>10, <1>11, <1>13, <1>14 DEF HandlerStep

\* Every step keeps the books of the backend.
LEMMA NextOps == ASSUME SchedInv, OpsInv, [Next]_vars PROVE OpsInv'
<1>1. CASE \E f \in Fibers : FiberStep(f)
  BY <1>1, FiberStepOps
<1>2. CASE HandlerStep
  BY <1>2, HandlerStepOps
<1>3. CASE loop' \notin {"drain", "wait", "after"}
  BY <1>3 DEF OpsInv, Serving
<1>4. CASE DrainOne
  <2>1. stack = <<>> /\ stack \in Seq(Frame) /\ UNCHANGED <<loop, forwarded>>
    BY <1>4 DEF DrainOne, loopVars, SchedInv, StackOK
  <2>2. CASE \E f : stack' = <<Joins(f)>> \o <<>> /\ CancelIo(f)
    <3>1. NoIdsAbove(stack', stack)
      BY <2>1, <2>2, NoIdsIn DEF NoIdsAbove
    <3> QED BY <2>1, <2>2, <3>1, IdsKept, CancelOps
  <2>3. CASE \E f : stack' = <<Resume(f)>> /\ UNCHANGED ioVars
    <3>1. PICK f : stack' = <<Resume(f)>> \o stack
      BY <2>1, <2>3, OneFunction
    <3>2. NoIdsAbove(stack', stack)
      BY <3>1, NoIdsIn DEF NoIdsAbove
    <3> QED BY <2>1, <2>3, <3>2, IdsKept, OpsUntouched DEF OpsSame, ioVars
  <2> QED BY <1>4, <2>2, <2>3 DEF DrainOne, CompleteFiber, BeginComplete
<1>5. CASE StepDecide \/ PumpDecide \/ IoWaitEmpty
  <2>1. UNCHANGED <<pending, forwarded, inflight>> /\ Serving
    BY <1>5 DEF StepDecide, PumpDecide, IoWaitEmpty, ioVars, At, Serving
  <2>2. CASE UNCHANGED stack
    BY <2>1, <2>2 DEF OpsInv
  <2> QED BY <1>3, <1>5, <2>2 DEF StepDecide, PumpDecide, IoWaitEmpty, BeginShutdown
<1>6. CASE \E B \in SUBSET inflight : IoWait(B)
  <2>1. PICK B \in SUBSET inflight : IoWait(B)
    BY <1>6
  <2>2. /\ stack = <<>> /\ stack \in Seq(Frame) /\ Serving
        /\ inflight' = inflight \ B /\ UNCHANGED <<pending, forwarded>>
    BY <2>1 DEF IoWait, At, Serving, SchedInv, StackOK
  <2>3. stack' = <<Completions(B, {})>> \o stack
    BY <2>1, <2>2, OneFunction DEF IoWait
  <2>4. IdsIn(stack') = B \cup IdsIn(stack)
    <3>1. IdsIn(<<Completions(B, {})>> \o stack) = IdsOf(Completions(B, {})) \cup IdsIn(stack)
      BY <2>2, IdsPushed
    <3>2. IdsOf(Completions(B, {})) = B
      BY NoIdsIn
    <3> QED BY <2>3, <3>1, <3>2
  <2> QED BY <2>2, <2>4 DEF OpsInv
<1>7. CASE \E B \in SUBSET inflight : UnwindWait(B)
  BY <1>3, <1>7 DEF UnwindWait
<1>8. CASE UNCHANGED vars
  BY <1>8 DEF vars, OpsInv, Serving
<1> QED BY <1>1, <1>2, <1>3, <1>4, <1>5, <1>6, <1>7, <1>8
  DEF Next, LoopStep, Unwind, UnwindEnd, CancelStragglers, PumpTail

\* Whatever programs do, what the backend holds between two steps of the loop is
\* what the tables wait for: no operation is left without a reader, and no
\* reader waits for an operation the backend does not have.
THEOREM NoOperationAdrift == Spec => []OperationsOwned
<1>1. Init => OpsInv
  BY DEF Init, OpsInv, Empty
<1>2. OpsInv => OperationsOwned
  <2>1. IdsIn(<<>>) = {}
    BY DEF IdsIn, Range
  <2> QED BY <2>1 DEF OpsInv, OperationsOwned, Quiet
<1> QED BY <1>1, <1>2, NextOps, SchedInvariant, PTL DEF Spec

-----------------------------------------------------------------------------
(* What a step does to the fibers the loop has yet to run or to hear of.   *)

\* The loop will come back to f: it is queued, or waits for an operation.
Placed(f) == Queued(f) \/ InIo(f)

\* Nothing happens to g; or g has not ended, and does not end.
Rests(g) == st'[g] = st[g] /\ (Placed(g)' <=> Placed(g))
Lives(g) == ~Terminated(st[g]) /\ ~Terminated(st'[g])

\* f ends, or its end is news: nobody observed a failure of f that the loop had
\* forgotten again.
News(f) ==
    \/ ~Terminated(st[f]) \/ ~Failed(st[f]) \/ Placed(f)
    \/ f \in joined' \/ f \in killed' \/ f \notin observed'

\* The kinds of step.  complete-fiber begins for f;
Completes(f) ==
    /\ \E v : completed' = Put(completed, f, v)
    /\ Terminated(st'[f]) /\ ~Placed(f)' /\ Joins(f) \in Range(stack')
    /\ \A g \in Fibers \ {f} : Rests(g) \/ Lives(g)
    /\ News(f)
\* live fibers move about;
Shuffles == UNCHANGED completed /\ \A g \in Fibers : Rests(g) \/ Lives(g)
\* the program itself ends g, which the loop will come back to;
Kills(g) ==
    /\ UNCHANGED <<completed, runnable, fiberIo>>
    /\ ~Terminated(st[g]) /\ Placed(g)
    /\ \A h \in Fibers \ {g} : st'[h] = st[h]
\* complete-fiber ends for f, and forgets it;
Retires(f) ==
    /\ Top("selects") /\ Head(stack).target = f
    /\ f \in joined \/ (f \in DOMAIN completed /\ completed[f] = "ok")
    /\ completed' = Del(completed, f) /\ joined' = joined \ {f}
    /\ UNCHANGED <<st, runnable, fiberIo, observed, killed>>
\* the teardown takes the operation of f.
Dooms(f) ==
    /\ ~Serving' /\ f \in killed' /\ UNCHANGED <<completed, st, runnable>>
    /\ DOMAIN fiberIo' = DOMAIN fiberIo \ {f}

KindOfStep ==
    \/ Shuffles \/ CancelStragglers \/ PumpTail
    \/ \E f \in Fibers : Completes(f) \/ Kills(f) \/ Retires(f) \/ Dooms(f)

\* complete-fiber takes f out of the queue and gives its operation back.
LEMMA BeginsKind ==
    ASSUME NEW f \in Fibers, NEW v, NEW q \in Seq(Fibers), Distinct(q),
           Range(q) \subseteq Range(runnable), Range(runnable) \ {f} \subseteq Range(q),
           NEW rest \in Seq(Frame), BeginComplete(f, v, q, rest), IoWithout(f),
           Terminated(st'[f]), \A g \in Fibers \ {f} : st'[g] = st[g] \/ Lives(g), News(f)
    PROVE  Completes(f)
<1>1. /\ f \notin Range(runnable') /\ Range(runnable') \subseteq Range(runnable)
      /\ Range(runnable) \ {f} \subseteq Range(runnable')
  BY LeaveArrayRange DEF BeginComplete
<1>2. Joins(f) \in Range(stack')
  BY PushKeeps DEF BeginComplete
<1>3. DOMAIN fiberIo' = DOMAIN fiberIo \ {f}
  BY DEF IoWithout
<1>4. ~Placed(f)' /\ \A g \in Fibers \ {f} : Placed(g)' <=> Placed(g)
  BY <1>1, <1>3 DEF Placed, Queued, InIo
<1> QED BY <1>2, <1>4 DEF Completes, Rests, BeginComplete

\* The same where nobody has taken the operation yet.
LEMMA CompletesKind ==
    ASSUME SchedInv, PlaceInv, NEW f \in Fibers, NEW v, NEW rest \in Seq(Frame),
           CompleteFiber(f, v, runnable, rest), Terminated(st'[f]),
           \A g \in Fibers \ {f} : st'[g] = st[g] \/ Lives(g), News(f)
    PROVE  Completes(f)
<1>1. runnable \in Seq(Fibers) /\ Distinct(runnable)
  BY DEF SchedInv, CoreOK, PlaceInv
<1>2. IoWithout(f)
  BY IoGone DEF CompleteFiber, SchedInv, PlaceInv
<1> QED BY <1>1, <1>2, BeginsKind DEF CompleteFiber

\* A handler that finds t finished completes it, if nobody has.
LEMMA FoundKind ==
    ASSUME SchedInv, PlaceInv, NEW c \in Fibers, NEW op, Requests(c, op), NEW t \in Fibers,
           FoundFinished(t, <<Resume(c)>> \o Tail(stack)), Unnoticed(t) => News(t)
    PROVE  KindOfStep
<1>1. st[c] = "alive" /\ st'[c] = "paused" /\ \A g \in Fibers : g # c => st'[g] = st[g]
  BY Suspends
<1>2. \A g \in Fibers : st'[g] = st[g] \/ Lives(g)
  BY <1>1 DEF Lives, Terminated, Failed, IsDead
<1>3. CASE UNCHANGED <<runnable, ioVars, completed>>
  BY <1>2, <1>3 DEF KindOfStep, Shuffles, Rests, Placed, Queued, InIo, ioVars
<1>4. CASE Unnoticed(t) /\ CompleteFiber(t, Verdict(st[t]), runnable, <<Resume(c)>> \o Tail(stack))
  <2>1. Tail(stack) \in Seq(Frame)
    BY TopFrame DEF Requests, Running, Top, SchedInv, StackOK
  <2>2. <<Resume(c)>> \o Tail(stack) \in Seq(Frame)
    BY <2>1, NewFrames, PushRange
  <2>3. Terminated(st'[t])
    BY <1>1, <1>4 DEF Unnoticed, Terminated, Failed, IsDead
  <2>4. Completes(t)
    BY <1>2, <1>4, <2>2, <2>3, CompletesKind
  <2> QED BY <2>4 DEF KindOfStep
<1> QED BY <1>3, <1>4 DEF FoundFinished

\* What a running fiber and the handlers it calls do.
LEMMA FiberStepKind ==
    ASSUME SchedInv, PlaceInv, Careful, NEW f \in Fibers, FiberStep(f) PROVE KindOfStep
<1>1. Top("run") /\ Head(stack).fiber = f
  BY DEF FiberStep, FiberReturn, FiberError, FiberYield, SubmitIo, RefuseIo, HandleJoin, HandleAbort,
         HandleSelect, HandlePark, HandleIoForward, HandleNotify, HandleIoForwardCancel, Spawn,
         KillFiber, RequestShutdown, Requests, Running
<1>2. st \in [Fibers -> Status] /\ runnable \in Seq(Fibers) /\ Spawned \subseteq Fibers
  BY DEF SchedInv, CoreOK, Spawned
<1>3. st[f] = "alive" /\ ~Terminated(st[f])
  BY <1>1, RunnerPlace DEF Terminated, Failed, IsDead
<1>4. Tail(stack) \in Seq(Frame)
  BY <1>1, TopFrame DEF Top, SchedInv, StackOK
<1>5. ASSUME NEW op, Requests(f, op), UNCHANGED completed,
             \A g \in Fibers \ {f} : (Placed(g)' <=> Placed(g)) \/ ~Terminated(st[g])
      PROVE  KindOfStep
  <2>1. st'[f] = "paused" /\ \A g \in Fibers : g # f => st'[g] = st[g]
    BY <1>5, Suspends
  <2>2. Lives(f)
    BY <1>3, <2>1 DEF Lives, Terminated, Failed, IsDead
  <2>3. \A g \in Fibers : Rests(g) \/ Lives(g)
    BY <1>5, <2>1, <2>2 DEF Rests, Lives
  <2> QED BY <1>5, <2>3 DEF KindOfStep, Shuffles
<1>6. ASSUME UNCHANGED <<runnable, fiberIo>> PROVE \A g : Placed(g)' <=> Placed(g)
  BY <1>6 DEF Placed, Queued, InIo
<1>7. CASE FiberYield(f)
  <2>1. Range(runnable') = Range(runnable) \cup {f}
    BY <1>2, <1>7, AppendRange DEF FiberYield
  <2>2. \A g \in Fibers \ {f} : Placed(g)' <=> Placed(g)
    BY <1>7, <2>1 DEF FiberYield, Placed, Queued, InIo, ioVars
  <2> QED BY <1>5, <1>7, <2>2 DEF FiberYield
<1>8. CASE SubmitIo(f)
  <2>1. DOMAIN fiberIo' = DOMAIN fiberIo \cup {f}
    BY <1>8 DEF SubmitIo, Put
  <2>2. \A g \in Fibers \ {f} : Placed(g)' <=> Placed(g)
    BY <1>8, <2>1 DEF SubmitIo, Placed, Queued, InIo
  <2> QED BY <1>5, <1>8, <2>2 DEF SubmitIo
<1>9. CASE RefuseIo(f) \/ (\E k \in Keys : HandlePark(f, k) \/ HandleIoForward(f, k))
           \/ (\E k \in Keys, n \in 1..MaxWake : HandleNotify(f, k, n))
           \/ (\E id \in Ids : HandleIoForwardCancel(f, id))
  <2>1. (\E op : Requests(f, op)) /\ UNCHANGED <<completed, runnable, fiberIo>>
    BY <1>9 DEF RefuseIo, HandlePark, HandleIoForward, HandleNotify, HandleIoForwardCancel, ioVars
  <2> QED BY <1>5, <1>6, <2>1
<1>10. ASSUME NEW t \in Spawned, HandleJoin(f, t) PROVE KindOfStep
  <2>1. Requests(f, "join") /\ t \in Fibers /\ News(t)
    BY <1>2, <1>10 DEF HandleJoin, News
  <2>2. CASE FoundFinished(t, <<Resume(f)>> \o Tail(stack))
    BY <2>1, <2>2, FoundKind
  <2>3. CASE UNCHANGED <<completed, runnable, fiberIo>>
    BY <1>5, <1>6, <2>1, <2>3
  <2> QED BY <1>10, <2>2, <2>3 DEF HandleJoin, ioVars
<1>11. ASSUME NEW t \in Spawned, HandleAbort(f, t) PROVE KindOfStep
  <2>1. Requests(f, "abort") /\ t \in Fibers /\ News(t)
    BY <1>2, <1>11 DEF HandleAbort, News
  <2>2. CASE FoundFinished(t, <<Resume(f)>> \o Tail(stack))
    BY <2>1, <2>2, FoundKind
  <2>3. CASE ~Recorded(t) /\ ~Unnoticed(t) /\ CancelIo(t) /\ UNCHANGED <<runnable, completed>>
    <3>1. ~Terminated(st[t])
      BY <2>3 DEF Unnoticed
    <3>2. DOMAIN fiberIo' = DOMAIN fiberIo \ {t}
      BY <2>3, IoGone DEF IoWithout, SchedInv, PlaceInv
    <3>3. \A g \in Fibers : (Placed(g)' <=> Placed(g)) \/ ~Terminated(st[g])
      BY <2>3, <3>1, <3>2 DEF Placed, Queued, InIo
    <3> QED BY <1>5, <2>1, <2>3, <3>3
  <2> QED BY <1>11, <2>2, <2>3 DEF HandleAbort
<1>12. ASSUME NEW S \in SUBSET Spawned \ {{}}, HandleSelect(f, S) PROVE KindOfStep
  <2>1. Requests(f, "select") /\ S \subseteq Fibers
    BY <1>2, <1>12 DEF HandleSelect
  <2>2. ASSUME NEW d \in S, FoundFinished(d, <<Resume(f)>> \o Tail(stack)) PROVE KindOfStep
    <3>1. ~Spent(d) /\ UNCHANGED observed
      BY <1>12 DEF HandleSelect, Careful, markVars
    <3>2. Unnoticed(d) => News(d)
      BY <3>1 DEF Spent, News, Unnoticed
    <3> QED BY <2>1, <2>2, <3>2, FoundKind
  <2>3. CASE UNCHANGED <<completed, runnable, fiberIo>>
    BY <1>5, <1>6, <2>1, <2>3
  <2> QED BY <1>12, <2>2, <2>3 DEF HandleSelect, ioVars
<1>13. CASE FiberReturn(f) \/ FiberError(f)
  <2>1. PICK s, v : s \in {"dead", "stopped", "error"} /\ st' = [st EXCEPT ![f] = s] /\ CompleteFiber(f, v, runnable, Tail(stack))
    BY <1>13 DEF FiberReturn, FiberError, AfterError
  <2>2. Terminated(st'[f]) /\ \A g \in Fibers \ {f} : st'[g] = st[g]
    BY <1>2, <2>1 DEF Terminated, Failed, IsDead
  <2>3. News(f)
    BY <1>3 DEF News
  <2>4. Completes(f)
    BY <1>4, <2>1, <2>2, <2>3, CompletesKind
  <2> QED BY <2>4 DEF KindOfStep
<1>14. ASSUME NEW g \in Fibers, Spawn(f, g) PROVE KindOfStep
  <2>1. st[g] = "none" /\ st'[g] = "new" /\ \A h \in Fibers \ {g} : st'[h] = st[h]
    BY <1>2, <1>14 DEF Spawn
  <2>2. Lives(g)
    BY <2>1 DEF Lives, Terminated, Failed, IsDead
  <2>3. Range(runnable') = Range(runnable) \cup {g}
    BY <1>2, <1>14, AppendRange DEF Spawn
  <2>4. \A h \in Fibers \ {g} : Rests(h)
    BY <1>14, <2>1, <2>3 DEF Spawn, Rests, Placed, Queued, InIo, ioVars
  <2> QED BY <1>14, <2>2, <2>4 DEF KindOfStep, Shuffles, Spawn
<1>15. ASSUME NEW g \in Fibers, KillFiber(f, g) PROVE KindOfStep
  <2>1. st[g] \in {"new", "paused"} /\ (g \in DOMAIN fiberIo \/ g \in Range(runnable))
    BY <1>15 DEF KillFiber, Careful
  <2>2. ~Terminated(st[g]) /\ Placed(g)
    BY <2>1 DEF Terminated, Failed, IsDead, Placed, Queued, InIo
  <2>3. PICK s : st' = [st EXCEPT ![g] = s]
    BY <1>15 DEF KillFiber
  <2>4. Kills(g)
    BY <1>2, <1>15, <2>2, <2>3 DEF Kills, KillFiber, ioVars
  <2> QED BY <2>4 DEF KindOfStep
<1>16. CASE RequestShutdown(f)
  BY <1>16 DEF RequestShutdown, KindOfStep, Shuffles, Rests, Placed, Queued, InIo, ioVars
<1> QED BY <1>7, <1>8, <1>9, <1>10, <1>11, <1>12, <1>13, <1>14, <1>15, <1>16 DEF FiberStep

\* An error the teardown raises is raised in a fiber it has killed.
RaiseKilled == \A fr \in Range(stack) : fr.at = "raise" /\ fr.protect => fr.fiber \in killed

\* complete-fiber is in progress for f.
Completing(f) == \E fr \in Range(stack) : fr.at \in {"joins", "selects"} /\ fr.target = f

\* The loop does not come back to a fiber that has a record or is getting one.
DoneOut == \A f \in Fibers : f \in DOMAIN completed \/ Completing(f) => ~Placed(f)

\* What the functions in progress do.
LEMMA HandlerStepKind ==
    ASSUME SchedInv, PlaceInv, RaiseKilled, DoneOut, HandlerStep PROVE KindOfStep
<1>1. st \in [Fibers -> Status] /\ runnable \in Seq(Fibers) /\ Distinct(runnable)
  BY DEF SchedInv, CoreOK, PlaceInv
<1>2. stack # <<>> /\ stack \in Seq(Frame)
  BY DEF SchedInv, StackOK, HandlerStep, FiberResume, FiberAbort, CompleteJoins, CompleteSelects,
         WakeParked, RouteCompletion, WakeForwarded, AbortIoOne, TakeParkQueues, AbortParkedOne,
         UnwindCompletion, Top
<1>3. /\ Tail(stack) \in Seq(Frame) /\ Head(stack) \in Frame /\ Head(stack) \in Range(stack)
      /\ FrameSound(Head(stack), st, loop) /\ FrameOK(Head(stack), loop, pending)
  <2>1. Tail(stack) \in Seq(Frame) /\ Head(stack) \in Frame /\ Head(stack) \in Range(stack)
    BY <1>2, TailRange
  <2>2. FrameSound(Head(stack), st, loop)
    BY <1>2, PopStack DEF PlaceInv, Frames
  <2>3. FrameOK(Head(stack), loop, pending)
    BY <1>2, TopFrame DEF SchedInv
  <2> QED BY <2>1, <2>2, <2>3
<1>4. CASE UNCHANGED <<completed, st, runnable, fiberIo>>
  BY <1>4 DEF KindOfStep, Shuffles, Rests, Placed, Queued, InIo
<1>5. ASSUME NEW f \in Fibers, st[f] \in {"new", "paused"}, st' = [st EXCEPT ![f] = "alive"],
             UNCHANGED <<completed, runnable, fiberIo>>
      PROVE  KindOfStep
  <2>1. st'[f] = "alive" /\ \A g \in Fibers \ {f} : st'[g] = st[g]
    BY <1>1, <1>5
  <2>2. Lives(f)
    BY <1>5, <2>1 DEF Lives, Terminated, Failed, IsDead
  <2>3. \A g \in Fibers \ {f} : Rests(g)
    BY <1>5, <2>1 DEF Rests, Placed, Queued, InIo
  <2> QED BY <1>5, <2>2, <2>3 DEF KindOfStep, Shuffles
<1>6. CASE FiberResume
  <2>1. Head(stack).fiber \in Fibers /\ st[Head(stack).fiber] \in {"new", "paused"}
    BY <1>3, <1>6, FrameFields DEF FiberResume, Top, FrameSound
  <2> QED BY <1>4, <1>5, <1>6, <2>1 DEF FiberResume, ioVars, CanResume
<1>7. CASE FiberAbort
  <2>1. PICK f : f = Head(stack).fiber
    OBVIOUS
  <2>2. Head(stack).at = "raise" /\ f \in Fibers /\ Raised(stack) = {f}
    BY <1>2, <1>3, <1>7, <2>1, FrameFields DEF FiberAbort, Top, Raised
  <2>3. st[f] \in {"new", "paused"} \cup Over
    BY <2>2 DEF PlaceInv, Statuses
  <2>4. CASE CanRaise(st[f]) /\ st' = [st EXCEPT ![f] = "alive"] /\ UNCHANGED <<runnable, ioVars, completed>>
    BY <1>5, <2>2, <2>3, <2>4 DEF CanRaise, Over, ioVars
  <2>5. CASE st[f] = "new" /\ st' = [st EXCEPT ![f] = "error"]
             /\ CompleteFiber(f, "error", runnable, Tail(stack))
    <3>1. st'[f] = "error" /\ \A g \in Fibers \ {f} : st'[g] = st[g]
      BY <1>1, <2>2, <2>5
    <3>2. Terminated(st'[f]) /\ News(f)
      BY <2>5, <3>1 DEF News, Terminated, Failed, IsDead
    <3>3. Completes(f)
      BY <1>3, <2>2, <2>5, <3>1, <3>2, CompletesKind
    <3> QED BY <2>2, <3>3 DEF KindOfStep
  <2>6. CASE IsDead(st[f]) /\ UNCHANGED <<st, loopVars>>
             /\ CompleteFiber(f, Verdict(st[f]), runnable, Tail(stack))
    <3>1. Head(stack).protect
      BY <1>3, <2>1, <2>2, <2>6 DEF FrameSound, IsDead
    <3>2. f \in killed'
      BY <1>3, <2>1, <2>2, <2>6, <3>1 DEF RaiseKilled, loopVars
    <3>3. Terminated(st'[f]) /\ News(f) /\ \A g \in Fibers \ {f} : st'[g] = st[g]
      BY <2>6, <3>2 DEF News, Terminated
    <3>4. Completes(f)
      BY <1>3, <2>2, <2>6, <3>3, CompletesKind
    <3> QED BY <2>2, <3>4 DEF KindOfStep
  <2>7. CASE UNCHANGED <<st, ioVars, runnable, completed>>
    BY <1>4, <2>7 DEF ioVars
  <2> QED BY <1>7, <2>1, <2>4, <2>5, <2>6, <2>7 DEF FiberAbort
<1>8. CASE CompleteSelects
  <2>1. Head(stack).target \in Fibers
    BY <1>3, <1>8, FrameFields DEF CompleteSelects, Top
  <2>2. CASE Retires(Head(stack).target)
    BY <2>1, <2>2 DEF KindOfStep
  <2>3. UNCHANGED <<st, runnable, fiberIo, observed, killed>> /\ Top("selects")
    BY <1>8 DEF CompleteSelects, fiberVars, ioVars, loopVars
  <2>4. UNCHANGED completed \/ RetireFiber(Head(stack).target)
    BY <1>8 DEF CompleteSelects
  <2> QED BY <1>4, <2>2, <2>3, <2>4 DEF RetireFiber, Retires
<1>9. CASE \E id \in Ids : RouteCompletion(id)
  <2>1. PICK id \in Ids : RouteCompletion(id)
    BY <1>9
  <2>2. CASE id \notin DOMAIN pending
    BY <1>4, <2>1, <2>2 DEF RouteCompletion, fiberVars
  <2>3. CASE id \in DOMAIN pending
    <3>1. PICK f \in Fibers : f = pending[id]
      BY <2>3 DEF SchedInv, IoPart, IsTable
    <3>2. DropPair(id, f) /\ UNCHANGED <<st, observed, killed, joined>>
      BY <2>1, <2>3, <3>1 DEF RouteCompletion, fiberVars, markVars, loopVars
    <3>3. f \in DOMAIN fiberIo /\ Placed(f) /\ ~Recorded(f)
      BY <2>3, <3>1 DEF PlaceInv, IoReaders, Placed, InIo, DoneOut, Recorded
    <3>4. IoWithout(f)
      BY <2>3, <3>1, <3>2, PairGone DEF SchedInv, PlaceInv
    <3>5. CASE ~Unnoticed(f) /\ UNCHANGED <<runnable, completed>>
      <4>1. Lives(f)
        BY <3>2, <3>3, <3>5 DEF Lives, Unnoticed
      <4>2. \A g \in Fibers \ {f} : Rests(g)
        BY <3>2, <3>4, <3>5 DEF Rests, Placed, Queued, InIo, IoWithout
      <4> QED BY <3>5, <4>1, <4>2 DEF KindOfStep, Shuffles
    <3>6. ASSUME Unnoticed(f), NEW rest, BeginComplete(f, Verdict(st[f]), runnable, rest),
                 rest = <<Completions(Head(stack).todo \ {id}, Head(stack).keys)>> \o Tail(stack)
          PROVE  KindOfStep
      <4>1. Head(stack).todo \ {id} \in SUBSET Ids /\ Head(stack).keys \in SUBSET Keys
        BY <1>3, <2>1, FrameFields DEF RouteCompletion, Top
      <4>2. rest \in Seq(Frame)
        BY <1>3, <3>6, <4>1, NewFrames, PushRange
      <4>3. Terminated(st'[f]) /\ News(f) /\ \A g \in Fibers \ {f} : st'[g] = st[g]
        BY <3>2, <3>3, <3>6 DEF Unnoticed, News
      <4>4. Completes(f)
        BY <1>1, <3>4, <3>6, <4>2, <4>3, BeginsKind
      <4> QED BY <4>4 DEF KindOfStep
    <3> QED BY <2>1, <2>3, <3>1, <3>3, <3>5, <3>6 DEF RouteCompletion
  <2> QED BY <2>2, <2>3
<1>10. CASE AbortIoOne
  <2>1. PICK p \in Head(stack).copy : DropPair(p[1], p[2]) /\ killed' = killed \cup {p[2]}
    BY <1>10 DEF AbortIoOne
  <2>2. p[2] \in Fibers /\ ~Serving'
    BY <1>3, <1>10, FrameFields DEF AbortIoOne, Top, FrameOK, Phases, Serving
  <2>3. Dooms(p[2])
    BY <1>10, <2>1, <2>2 DEF Dooms, AbortIoOne, DropPair, Del, fiberVars
  <2> QED BY <2>2, <2>3 DEF KindOfStep
<1>11. CASE UnwindCompletion
  <2>1. ~Serving /\ Head(stack).at \in Base /\ Head(stack).at = "unwinding" /\ UNCHANGED <<st, runnable, completed>>
    BY <1>3, <1>11 DEF UnwindCompletion, Top, FrameSound, Serving, Base, fiberVars
  <2>2. Copied(stack) = {}
    BY <1>2, <2>1, BaseTop DEF CopiedBy
  <2>3. \A f \in DOMAIN fiberIo : st[f] = "paused"
    BY <2>1, <2>2 DEF PlaceInv, Teardown
  <2>4. ASSUME NEW id \in DOMAIN pending, DropPair(id, pending[id]) PROVE KindOfStep
    <3>1. PICK f \in Fibers : f = pending[id]
      BY <2>4 DEF SchedInv, IoPart, IsTable
    <3>2. st[f] = "paused"
      BY <2>3, <2>4, <3>1 DEF PlaceInv, IoReaders
    <3>3. Lives(f)
      BY <2>1, <3>2 DEF Lives, Terminated, Failed, IsDead
    <3>4. IoWithout(f)
      BY <2>4, <3>1, PairGone DEF SchedInv, PlaceInv
    <3>5. \A g \in Fibers \ {f} : Rests(g)
      BY <2>1, <3>4 DEF Rests, Placed, Queued, InIo, IoWithout
    <3> QED BY <2>1, <3>3, <3>5 DEF KindOfStep, Shuffles
  <2> QED BY <1>4, <1>11, <2>1, <2>4 DEF UnwindCompletion
<1> QED BY <1>4, <1>6, <1>7, <1>8, <1>9, <1>10, <1>11
  DEF HandlerStep, CompleteJoins, WakeParked, WakeForwarded, TakeParkQueues, AbortParkedOne, fiberVars, ioVars

\* Every step is of one of the kinds.
LEMMA NextKind ==
    ASSUME SchedInv, PlaceInv, Careful, RaiseKilled, DoneOut, [Next]_vars PROVE KindOfStep
<1>1. CASE UNCHANGED <<completed, st, runnable, fiberIo>>
  BY <1>1 DEF KindOfStep, Shuffles, Rests, Placed, Queued, InIo
<1>2. CASE \E f \in Fibers : FiberStep(f)
  BY <1>2, FiberStepKind
<1>3. CASE HandlerStep
  BY <1>3, HandlerStepKind
<1>4. CASE DrainOne
  <2>1. PICK f, q : f = Last(runnable) /\ q = Front(runnable)
    OBVIOUS
  <2>2. runnable \in Seq(Fibers) /\ Distinct(runnable) /\ runnable # <<>> /\ UNCHANGED <<st, markVars, loopVars>>
    BY <1>4 DEF SchedInv, CoreOK, PlaceInv, DrainOne, fiberVars
  <2>3. /\ f \in Fibers /\ f \in Range(runnable) /\ q \in Seq(Fibers) /\ Distinct(q)
        /\ Range(q) \subseteq Range(runnable) /\ Range(runnable) \ {f} \subseteq Range(q)
    BY <2>1, <2>2, PopRange
  <2>4. CASE (IsDead(st[f]) \/ st[f] = "error") /\ CompleteFiber(f, Verdict(st[f]), q, <<>>)
    <3>1. IoWithout(f)
      BY <2>4, IoGone DEF CompleteFiber, SchedInv, PlaceInv
    <3>2. <<>> \in Seq(Frame)
      OBVIOUS
    <3>3. Terminated(st'[f]) /\ News(f) /\ \A g \in Fibers \ {f} : st'[g] = st[g]
      BY <2>2, <2>3, <2>4 DEF Terminated, Failed, News, Placed, Queued
    <3>4. Completes(f)
      BY <2>3, <2>4, <3>1, <3>2, <3>3, BeginsKind DEF CompleteFiber
    <3> QED BY <2>3, <3>4 DEF KindOfStep
  <2>5. CASE ~(IsDead(st[f]) \/ st[f] = "error") /\ runnable' = q /\ UNCHANGED <<ioVars, completed>>
    <3>1. st[f] \in {"new", "paused"} \cup Over
      BY <2>3 DEF PlaceInv, Statuses
    <3>2. Lives(f)
      BY <2>2, <2>5, <3>1 DEF Lives, Terminated, Failed, IsDead, Over
    <3>3. \A g \in Fibers \ {f} : Rests(g)
      BY <2>2, <2>3, <2>5 DEF Rests, Placed, Queued, InIo, ioVars
    <3> QED BY <2>5, <3>2, <3>3 DEF KindOfStep, Shuffles
  <2> QED BY <1>4, <2>1, <2>4, <2>5 DEF DrainOne
<1>5. CASE CancelStragglers \/ PumpTail
  BY <1>5 DEF KindOfStep
<1> QED BY <1>1, <1>2, <1>3, <1>4, <1>5
  DEF Next, LoopStep, StepDecide, PumpDecide, Unwind, UnwindEnd, IoWait, UnwindWait, IoWaitEmpty,
      vars, fiberVars, ioVars

-----------------------------------------------------------------------------
(* What a step puts on the stack.                                          *)

\* A frame that a step may put on the stack.
Pushed(fr) ==
    /\ fr.at = "raise" /\ fr.protect => fr.fiber \in killed'
    /\ fr.at = "joins" => \E v : completed' = Put(completed, fr.target, v)
    /\ fr.at = "selects" => Completing(fr.target)

\* r is q with at most two frames more, and those a step may put there.
PushedOn(r, q) ==
    \/ r = q
    \/ \E e : Pushed(e) /\ r = <<e>> \o q
    \/ \E d, e : /\ Pushed(d) /\ Pushed(e)
                 /\ r = <<d, e>> \o q \/ r = <<d>> \o (<<e>> \o q)

\* Frames that may always be put there.
LEMMA PushedFrames ==
    /\ \A f : Pushed(Resume(f)) /\ Pushed(Raise(f, FALSE)) /\ (f \in killed' => Pushed(Raise(f, TRUE)))
    /\ \A f, how : Pushed(Run(f, how))
    /\ \A f, v : completed' = Put(completed, f, v) => Pushed(Joins(f))
    /\ \A f, S : Completing(f) => Pushed(Selects(f, S))
    /\ \A k, q, n, c : Pushed(Wake(k, q, n, c))
    /\ \A B, K : Pushed(Completions(B, K)) /\ Pushed(AbortIo(B)) /\ Pushed(AbortParked(B)) /\ Pushed(Unwinding(B))
BY DEF Pushed, Resume, Raise, Run, Joins, Selects, Wake, Completions, AbortIo, AbortParked, Unwinding

\* Nothing else is on the stack afterwards.
LEMMA PushedRange ==
    ASSUME NEW q \in Seq(Frame), NEW r, PushedOn(r, q)
    PROVE  \A fr \in Range(r) : fr \in Range(q) \/ Pushed(fr)
<1>1. CASE r = q
  BY <1>1
<1>2. CASE \E e : Pushed(e) /\ r = <<e>> \o q
  BY <1>2, PushKeeps
<1>3. CASE \E d, e : Pushed(d) /\ Pushed(e) /\ r = <<d, e>> \o q
  BY <1>3, PushKeeps
<1>4. CASE \E d, e : Pushed(d) /\ Pushed(e) /\ r = <<d>> \o (<<e>> \o q)
  <2>1. PICK d, e : Pushed(d) /\ Pushed(e) /\ r = <<d>> \o (<<e>> \o q)
    BY <1>4
  <2>2. q \in Seq(Frame \cup {e})
    BY SeqGrows
  <2>3. <<e>> \o q \in Seq(Frame \cup {e})
    BY <2>2, PushRange
  <2>4. Range(<<e>> \o q) = {e} \cup Range(q) /\ Range(r) = {d} \cup Range(<<e>> \o q)
    BY <2>1, <2>3, PushKeeps
  <2> QED BY <2>1, <2>4
<1> QED BY <1>1, <1>2, <1>3, <1>4 DEF PushedOn

\* The same of a step.
LEMMA StackPushed ==
    ASSUME SchedInv, \/ PushedOn(stack', stack)
                     \/ stack # <<>> /\ PushedOn(stack', Tail(stack))
                     \/ PushedOn(stack', <<>>)
    PROVE  \A fr \in Range(stack') : fr \in Range(stack) \/ Pushed(fr)
<1>1. stack \in Seq(Frame)
  BY DEF SchedInv, StackOK
<1>2. CASE PushedOn(stack', stack)
  BY <1>1, <1>2, PushedRange
<1>3. CASE stack # <<>> /\ PushedOn(stack', Tail(stack))
  <2>1. Tail(stack) \in Seq(Frame) /\ Range(stack) = {Head(stack)} \cup Range(Tail(stack))
    BY <1>1, <1>3, TailRange
  <2> QED BY <1>3, <2>1, PushedRange
<1>4. CASE PushedOn(stack', <<>>)
  <2>1. <<>> \in Seq(Frame) /\ Range(<<>>) = {}
    BY DEF Range
  <2> QED BY <1>4, <2>1, PushedRange
<1> QED BY <1>2, <1>3, <1>4

\* Whatever is on the stack after a step was there, or may be put there.
OnlyPushed == \A fr \in Range(stack') : fr \in Range(stack) \/ Pushed(fr)

\* A finished fiber puts its own frame there, if any.
LEMMA FoundPushed ==
    ASSUME NEW t, NEW e, Pushed(e), NEW q, FoundFinished(t, <<e>> \o q) PROVE PushedOn(stack', q)
<1>1. \/ stack' = <<e>> \o q
      \/ (\E v : completed' = Put(completed, t, v)) /\ stack' = <<Joins(t)>> \o (<<e>> \o q)
  BY DEF FoundFinished, CompleteFiber, BeginComplete
<1> QED BY <1>1, PushedFrames DEF PushedOn

\* A running fiber and the handlers it calls.
LEMMA FiberStepPushed == ASSUME SchedInv, NEW f \in Fibers, FiberStep(f) PROVE OnlyPushed
<1>1. stack # <<>>
  BY DEF FiberStep, FiberReturn, FiberError, FiberYield, SubmitIo, RefuseIo, HandleJoin, HandleAbort,
         HandleSelect, HandlePark, HandleIoForward, HandleNotify, HandleIoForwardCancel, Spawn,
         KillFiber, RequestShutdown, Requests, Running, Top
<1>2. CASE PushedOn(stack', Tail(stack))
  BY <1>1, <1>2, StackPushed DEF OnlyPushed
<1>3. CASE UNCHANGED stack
  BY <1>3 DEF OnlyPushed
<1>4. CASE stack' = Tail(stack) \/ \E e : Pushed(e) /\ stack' = <<e>> \o Tail(stack)
  BY <1>2, <1>4 DEF PushedOn
<1>5. CASE \E t, e : Pushed(e) /\ FoundFinished(t, <<e>> \o Tail(stack))
  BY <1>2, <1>5, FoundPushed
<1>6. CASE \E t \in Spawned : HandleJoin(f, t)
  BY <1>4, <1>5, <1>6, PushedFrames DEF HandleJoin
<1>7. CASE \E t \in Spawned : HandleAbort(f, t)
  <2>1. PICK t \in Spawned : HandleAbort(f, t)
    BY <1>7
  <2>2. CASE stack' = <<Raise(t, FALSE), Resume(f)>> \o Tail(stack)
    BY <1>2, <2>2, PushedFrames DEF PushedOn
  <2> QED BY <1>5, <2>1, <2>2, PushedFrames DEF HandleAbort
<1>8. CASE \E S \in SUBSET Spawned \ {{}} : HandleSelect(f, S)
  BY <1>4, <1>5, <1>8, PushedFrames DEF HandleSelect
<1>9. CASE FiberReturn(f) \/ FiberError(f)
  <2>1. (\E v : completed' = Put(completed, f, v)) /\ stack' = <<Joins(f)>> \o Tail(stack)
    BY <1>9 DEF FiberReturn, FiberError, CompleteFiber, BeginComplete
  <2> QED BY <1>4, <2>1, PushedFrames
<1>10. CASE FiberYield(f) \/ SubmitIo(f) \/ RefuseIo(f)
  BY <1>4, <1>10, PushedFrames DEF FiberYield, SubmitIo, RefuseIo
<1>11. CASE \E k \in Keys : HandlePark(f, k) \/ HandleIoForward(f, k)
  BY <1>4, <1>11, PushedFrames DEF HandlePark, HandleIoForward
<1>12. CASE \E k \in Keys, n \in 1..MaxWake : HandleNotify(f, k, n)
  BY <1>4, <1>12, PushedFrames DEF HandleNotify
<1>13. CASE \E id \in Ids : HandleIoForwardCancel(f, id)
  BY <1>4, <1>13, PushedFrames DEF HandleIoForwardCancel
<1>14. CASE (\E g \in Fibers : Spawn(f, g) \/ KillFiber(f, g)) \/ RequestShutdown(f)
  BY <1>3, <1>14 DEF Spawn, KillFiber, RequestShutdown
<1> QED BY <1>6, <1>7, <1>8, <1>9, <1>10, <1>11, <1>12, <1>13, <1>14 DEF FiberStep

\* The functions in progress.
LEMMA HandlerStepPushed == ASSUME SchedInv, HandlerStep PROVE OnlyPushed
<1>1. stack # <<>> /\ stack \in Seq(Frame)
  BY DEF SchedInv, StackOK, HandlerStep, FiberResume, FiberAbort, CompleteJoins, CompleteSelects,
         WakeParked, RouteCompletion, WakeForwarded, AbortIoOne, TakeParkQueues, AbortParkedOne,
         UnwindCompletion, Top
<1>2. Head(stack) \in Range(stack)
  BY <1>1, TailRange
<1>3. CASE PushedOn(stack', Tail(stack)) \/ PushedOn(stack', stack) \/ PushedOn(stack', <<>>)
  BY <1>1, <1>3, StackPushed DEF OnlyPushed
<1>4. CASE stack' = <<>> \/ stack' = Tail(stack) \/ (\E e : Pushed(e) /\ stack' = <<e>> \o Tail(stack))
  BY <1>3, <1>4 DEF PushedOn
<1>5. CASE \E d, e : Pushed(d) /\ Pushed(e) /\ (stack' = <<d, e>> \o Tail(stack)
                                               \/ stack' = <<d>> \o (<<e>> \o Tail(stack)))
  BY <1>3, <1>5 DEF PushedOn
<1>6. CASE FiberResume
  BY <1>4, <1>6, PushedFrames DEF FiberResume, Crash
<1>7. CASE FiberAbort
  <2>1. \/ stack' = <<>> \/ stack' = Tail(stack) \/ (\E f : stack' = <<Run(f, "abort")>> \o Tail(stack))
        \/ \E f, v : completed' = Put(completed, f, v) /\ stack' = <<Joins(f)>> \o Tail(stack)
    BY <1>7 DEF FiberAbort, Crash, CompleteFiber, BeginComplete
  <2> QED BY <1>4, <2>1, PushedFrames
<1>8. CASE CompleteJoins
  <2>1. Completing(Head(stack).target)
    BY <1>2, <1>8 DEF CompleteJoins, Top, Completing
  <2>2. CASE \E w : stack' = <<Resume(w)>> \o stack
    BY <1>3, <2>2, PushedFrames DEF PushedOn
  <2> QED BY <1>4, <1>8, <2>1, <2>2, PushedFrames DEF CompleteJoins
<1>9. CASE CompleteSelects
  <2>1. Completing(Head(stack).target)
    BY <1>2, <1>9 DEF CompleteSelects, Top, Completing
  <2> QED BY <1>4, <1>5, <1>9, <2>1, PushedFrames DEF CompleteSelects
<1>10. CASE WakeParked
  BY <1>4, <1>5, <1>10, PushedFrames DEF WakeParked
<1>11. CASE \E id \in Ids : RouteCompletion(id)
  <2>1. PICK id \in Ids : RouteCompletion(id)
    BY <1>11
  <2>2. \E B, K : \/ stack' = <<Completions(B, K)>> \o Tail(stack)
                  \/ \E f : stack' \in {<<Resume(f)>> \o (<<Completions(B, K)>> \o Tail(stack)),
                                        <<Raise(f, FALSE)>> \o (<<Completions(B, K)>> \o Tail(stack))}
                  \/ \E f, v : /\ completed' = Put(completed, f, v)
                               /\ stack' = <<Joins(f)>> \o (<<Completions(B, K)>> \o Tail(stack))
    BY <2>1 DEF RouteCompletion, BeginComplete
  <2> QED BY <1>4, <1>5, <2>2, PushedFrames
<1>12. CASE WakeForwarded
  BY <1>4, <1>5, <1>12, PushedFrames DEF WakeForwarded
<1>13. CASE AbortIoOne
  <2>1. \E f, P : f \in killed' /\ stack' = <<Raise(f, TRUE), AbortIo(P)>> \o Tail(stack)
    BY <1>13 DEF AbortIoOne
  <2> QED BY <1>5, <2>1, PushedFrames
<1>14. CASE TakeParkQueues
  BY <1>4, <1>14, PushedFrames DEF TakeParkQueues
<1>15. CASE AbortParkedOne
  <2>1. \/ stack' = Tail(stack)
        \/ \E f, P : f \in killed' /\ stack' = <<Raise(f, TRUE), AbortParked(P)>> \o Tail(stack)
    BY <1>15 DEF AbortParkedOne
  <2> QED BY <1>4, <1>5, <2>1, PushedFrames
<1>16. CASE UnwindCompletion
  BY <1>4, <1>5, <1>16, PushedFrames DEF UnwindCompletion
<1> QED BY <1>6, <1>7, <1>8, <1>9, <1>10, <1>11, <1>12, <1>13, <1>14, <1>15, <1>16 DEF HandlerStep

\* Every step.
LEMMA NextPushed == ASSUME SchedInv, [Next]_vars PROVE OnlyPushed
<1>1. CASE UNCHANGED stack
  BY <1>1 DEF OnlyPushed
<1>2. CASE \E f \in Fibers : FiberStep(f)
  BY <1>2, FiberStepPushed
<1>3. CASE HandlerStep
  BY <1>3, HandlerStepPushed
<1>4. CASE \E e : Pushed(e) /\ stack' = <<e>>
  <2>1. PICK e : Pushed(e) /\ stack' = <<e>> \o <<>>
    BY <1>4, OneFunction
  <2>2. PushedOn(stack', <<>>)
    BY <2>1 DEF PushedOn
  <2> QED BY <2>2, StackPushed DEF OnlyPushed
<1>5. CASE DrainOne
  <2>1. \/ \E f : stack' = <<Resume(f)>>
        \/ \E f, v : completed' = Put(completed, f, v) /\ stack' = <<Joins(f)>> \o <<>>
    BY <1>5 DEF DrainOne, CompleteFiber, BeginComplete
  <2>2. \A f : <<Joins(f)>> \o <<>> = <<Joins(f)>>
    BY OneFunction
  <2> QED BY <1>4, <2>1, <2>2, PushedFrames
<1>6. CASE StepDecide \/ PumpDecide
  BY <1>1, <1>4, <1>6, PushedFrames DEF StepDecide, PumpDecide, BeginShutdown
<1>7. CASE \E B \in SUBSET inflight : IoWait(B) \/ UnwindWait(B)
  BY <1>4, <1>7, PushedFrames DEF IoWait, UnwindWait
<1> QED BY <1>1, <1>2, <1>3, <1>5, <1>6, <1>7
  DEF Next, LoopStep, Unwind, UnwindEnd, CancelStragglers, PumpTail, IoWaitEmpty, vars

\* The marks of the teardown stay until the tail forgets every fiber.
LEMMA KilledStays == ASSUME Next, ~PumpTail PROVE killed \subseteq killed'
<1>1. CASE \E f \in Fibers : FiberStep(f)
  BY <1>1 DEF FiberStep, FiberReturn, FiberError, FiberYield, SubmitIo, RefuseIo, HandleJoin, HandleAbort,
         HandleSelect, HandlePark, HandleIoForward, HandleNotify, HandleIoForwardCancel, Spawn,
         KillFiber, RequestShutdown, loopVars
<1>2. CASE HandlerStep
  BY <1>2 DEF HandlerStep, FiberResume, FiberAbort, CompleteJoins, CompleteSelects, WakeParked,
         RouteCompletion, WakeForwarded, AbortIoOne, TakeParkQueues, AbortParkedOne, UnwindCompletion,
         Crash, loopVars
<1> QED BY <1>1, <1>2
  DEF Next, LoopStep, DrainOne, StepDecide, PumpDecide, Unwind, UnwindEnd, CancelStragglers, IoWait,
      UnwindWait, IoWaitEmpty, loopVars

\* A fiber that has a record or is getting one has ended, and the loop has let go of it.
LEMMA DoneEnded ==
    ASSUME SchedInv, PlaceInv, VerdictAgrees, DoneOut, NEW f \in Fibers,
           f \in DOMAIN completed \/ Completing(f)
    PROVE  ~Placed(f) /\ Terminated(st[f])
<1>1. CASE f \in DOMAIN completed
  BY <1>1 DEF VerdictAgrees, DoneOut
<1>2. CASE Completing(f)
  <2>1. PICK fr \in Range(stack) : fr.at \in {"joins", "selects"} /\ fr.target = f
    BY <1>2 DEF Completing
  <2>2. FrameSound(fr, st, loop)
    BY DEF PlaceInv, Frames, StackSound
  <2> QED BY <1>2, <2>1, <2>2 DEF FrameSound, DoneOut
<1> QED BY <1>1, <1>2

\* Only complete-fiber itself gives a fiber a record.
LEMMA NewDone ==
    ASSUME SchedInv, KindOfStep, OnlyPushed, NEW f \in Fibers, f \in DOMAIN completed' \/ Completing(f)'
    PROVE  f \in DOMAIN completed \/ Completing(f) \/ Completes(f)
<1>1. ASSUME f \in DOMAIN completed' PROVE f \in DOMAIN completed \/ Completes(f)
  <2>1. ASSUME NEW g, Completes(g) PROVE f \in DOMAIN completed \/ f = g
    BY <1>1, <2>1 DEF Completes, Put
  <2>2. ASSUME NEW g, Retires(g) PROVE f \in DOMAIN completed
    BY <1>1, <2>2 DEF Retires, Del
  <2>3. CASE PumpTail
    BY <1>1, <2>3 DEF PumpTail, Empty
  <2> QED BY <1>1, <2>1, <2>2, <2>3 DEF KindOfStep, Shuffles, Kills, Dooms, CancelStragglers
<1>2. ASSUME Completing(f)' PROVE f \in DOMAIN completed \/ Completing(f) \/ Completes(f)
  <2>1. PICK fr \in Range(stack') : fr.at \in {"joins", "selects"} /\ fr.target = f
    BY <1>2 DEF Completing
  <2>2. CASE fr \in Range(stack)
    BY <2>1, <2>2 DEF Completing
  <2>3. CASE fr.at = "joins" /\ Pushed(fr)
    <3>1. f \in DOMAIN completed'
      BY <2>1, <2>3 DEF Pushed, Put
    <3> QED BY <1>1, <3>1
  <2>4. CASE fr.at = "selects" /\ Pushed(fr)
    BY <2>1, <2>4 DEF Pushed
  <2> QED BY <2>1, <2>2, <2>3, <2>4 DEF OnlyPushed
<1> QED BY <1>1, <1>2

\* The loop does not come back to a fiber that has a record.
LEMMA DoneKept ==
    ASSUME SchedInv, PlaceInv, VerdictAgrees, DoneOut, KindOfStep, OnlyPushed PROVE DoneOut'
<1> SUFFICES ASSUME NEW f \in Fibers, f \in DOMAIN completed' \/ Completing(f)' PROVE ~Placed(f)'
  BY DEF DoneOut
<1>1. CASE Completes(f)
  BY <1>1 DEF Completes
<1>2. CASE f \in DOMAIN completed \/ Completing(f)
  <2>1. ~Placed(f) /\ Terminated(st[f])
    BY <1>2, DoneEnded
  <2>2. ASSUME Rests(f) \/ Lives(f) PROVE ~Placed(f)'
    BY <2>1, <2>2 DEF Rests, Lives
  <2>3. CASE Shuffles
    BY <2>2, <2>3 DEF Shuffles
  <2>4. ASSUME NEW g \in Fibers, Completes(g) PROVE ~Placed(f)'
    BY <2>2, <2>4 DEF Completes
  <2>5. ASSUME NEW g \in Fibers, Kills(g) \/ Retires(g) \/ Dooms(g) PROVE ~Placed(f)'
    BY <2>1, <2>5 DEF Kills, Retires, Dooms, Placed, Queued, InIo
  <2>6. CASE CancelStragglers \/ PumpTail
    <3>1. Range(runnable') = {} /\ DOMAIN fiberIo' \subseteq DOMAIN fiberIo
      BY <2>6, EmptyStack DEF CancelStragglers, PumpTail, Empty, Range
    <3> QED BY <2>1, <3>1 DEF Placed, Queued, InIo
  <2> QED BY <2>3, <2>4, <2>5, <2>6 DEF KindOfStep
<1> QED BY <1>1, <1>2, NewDone

\* Errors of the teardown are raised in fibers it has killed.
LEMMA RaisesKept == ASSUME SchedInv, RaiseKilled, [Next]_vars PROVE RaiseKilled'
<1>1. CASE PumpTail
  <2>1. Range(stack') = {}
    BY <1>1 DEF PumpTail, At, Range
  <2> QED BY <2>1 DEF RaiseKilled
<1>2. CASE UNCHANGED vars
  BY <1>2 DEF RaiseKilled, vars
<1>3. CASE Next /\ ~PumpTail
  <2>1. OnlyPushed /\ killed \subseteq killed'
    BY <1>3, NextPushed, KilledStays
  <2> QED BY <2>1 DEF RaiseKilled, OnlyPushed, Pushed
<1> QED BY <1>1, <1>2, <1>3

\* What every step of a careful program may count on.
StepInv == SchedInv /\ PlaceInv /\ VerdictAgrees /\ RaiseKilled /\ DoneOut

\* It holds in every state a careful program reaches.
LEMMA StepInvariant == ASSUME Careful PROVE Spec => []StepInv
<1>1. Init => RaiseKilled /\ DoneOut
  <2> SUFFICES ASSUME Init PROVE RaiseKilled /\ DoneOut
    OBVIOUS
  <2>1. Range(stack) = {} /\ DOMAIN completed = {}
    BY DEF Init, Range, Empty
  <2> QED BY <2>1 DEF RaiseKilled, DoneOut, Completing
<1>2. SchedInv /\ PlaceInv /\ VerdictAgrees /\ RaiseKilled /\ DoneOut /\ [Next]_vars => RaiseKilled' /\ DoneOut'
  <2> SUFFICES ASSUME SchedInv, PlaceInv, VerdictAgrees, RaiseKilled, DoneOut, [Next]_vars
               PROVE  RaiseKilled' /\ DoneOut'
    OBVIOUS
  <2>1. KindOfStep /\ OnlyPushed
    BY NextKind, NextPushed
  <2> QED BY <2>1, RaisesKept, DoneKept
<1> QED BY <1>1, <1>2, SchedInvariant, PlaceInvariant, RecordsAgree, PTL DEF Spec, StepInv

-----------------------------------------------------------------------------
(* The failures the tail of :pump may raise.                               *)

\* At the tail nothing is in progress, and the loop has nobody to come back to.
TailInv ==
    /\ loop \in {"tail", "returned", "raised"} => stack = <<>>
    /\ loop = "tail" => \A f \in Fibers : ~Placed(f)

\* At the tail the only step is the last one.
LEMMA OnlyTail == ASSUME loop = "tail", stack = <<>>, Next PROVE PumpTail
<1>1. CASE \E f \in Fibers : FiberStep(f)
  BY <1>1 DEF FiberStep, FiberReturn, FiberError, FiberYield, SubmitIo, RefuseIo, HandleJoin,
              HandleAbort, HandleSelect, HandlePark, HandleIoForward, HandleNotify,
              HandleIoForwardCancel, Spawn, KillFiber, RequestShutdown, Requests, Running, Top
<1>2. CASE HandlerStep
  BY <1>2 DEF HandlerStep, FiberResume, FiberAbort, CompleteJoins, CompleteSelects, WakeParked,
              RouteCompletion, WakeForwarded, AbortIoOne, TakeParkQueues, AbortParkedOne,
              UnwindCompletion, Top
<1> QED BY <1>1, <1>2 DEF Next, LoopStep, DrainOne, StepDecide, PumpDecide, Unwind, UnwindEnd,
              CancelStragglers, IoWait, UnwindWait, IoWaitEmpty, At

\* Two steps reach the tail: step finds nothing to wait for, or the teardown is over.
LEMMA ReachTail ==
    ASSUME Next, loop \notin {"tail", "returned", "raised"}, loop' \in {"tail", "returned", "raised"}
    PROVE  loop' = "tail" /\ ((StepDecide /\ Idle /\ UNCHANGED stack) \/ CancelStragglers)
<1>1. CASE \E f \in Fibers : FiberStep(f)
  BY <1>1 DEF FiberStep, FiberReturn, FiberError, FiberYield, SubmitIo, RefuseIo, HandleJoin, HandleAbort,
         HandleSelect, HandlePark, HandleIoForward, HandleNotify, HandleIoForwardCancel, Spawn,
         KillFiber, RequestShutdown, loopVars
<1>2. CASE HandlerStep
  BY <1>2 DEF HandlerStep, FiberResume, FiberAbort, CompleteJoins, CompleteSelects, WakeParked,
         RouteCompletion, WakeForwarded, AbortIoOne, TakeParkQueues, AbortParkedOne, UnwindCompletion,
         Crash, loopVars
<1>3. CASE StepDecide
  BY <1>3 DEF StepDecide, BeginShutdown
<1>4. CASE PumpDecide \/ DrainOne
  BY <1>4 DEF PumpDecide, DrainOne, BeginShutdown, loopVars
<1>5. CASE CancelStragglers
  BY <1>5 DEF CancelStragglers
<1> QED BY <1>1, <1>2, <1>3, <1>4, <1>5
  DEF Next, LoopStep, Unwind, UnwindEnd, PumpTail, IoWait, UnwindWait, IoWaitEmpty, At

\* Nobody is left to come back to when the loop reaches the tail.
LEMMA TailKept == ASSUME SchedInv, TailInv, [Next]_vars PROVE TailInv'
<1>1. CASE UNCHANGED vars
  BY <1>1 DEF TailInv, vars, Placed, Queued, InIo
<1>2. CASE Next /\ loop \in {"returned", "raised"}
  BY <1>2, EndedLoop DEF TailInv
<1>3. CASE Next /\ loop = "tail"
  <2>1. PumpTail
    BY <1>3, OnlyTail DEF TailInv
  <2> QED BY <2>1 DEF PumpTail, At, TailInv
<1>4. CASE Next /\ loop \notin {"tail", "returned", "raised"} /\ loop' \in {"tail", "returned", "raised"}
  <2>1. loop' = "tail" /\ ((StepDecide /\ Idle /\ UNCHANGED stack) \/ CancelStragglers)
    BY <1>4, ReachTail
  <2>2. stack' = <<>>
    BY <2>1 DEF StepDecide, CancelStragglers, At
  <2>3. Range(<<>>) = {}
    BY DEF Range
  <2>4. CASE StepDecide /\ Idle
    <3>1. DOMAIN fiberIo = {}
      BY <2>4 DEF Idle, SchedInv, IoPart, IoLookup
    <3>2. Range(runnable') = {} /\ DOMAIN fiberIo' = {}
      BY <2>3, <2>4, <3>1 DEF StepDecide, ioVars
    <3> QED BY <2>1, <2>2, <3>2 DEF TailInv, Placed, Queued, InIo
  <2>5. CASE CancelStragglers
    <3>1. \A f \in DOMAIN fiberIo : \E id \in DOMAIN pending : pending[id] = f
      BY DEF SchedInv, IoPart, IoLookup
    <3>2. DOMAIN fiberIo' = {}
      BY <2>5, <3>1 DEF CancelStragglers
    <3>3. Range(runnable') = {}
      BY <2>3, <2>5 DEF CancelStragglers
    <3> QED BY <2>1, <2>2, <3>2, <3>3 DEF TailInv, Placed, Queued, InIo
  <2> QED BY <2>1, <2>4, <2>5
<1>5. CASE loop' \notin {"tail", "returned", "raised"}
  BY <1>5 DEF TailInv
<1> QED BY <1>1, <1>2, <1>3, <1>4, <1>5

\* What a step does to the marks: nothing; somebody observes t; complete-fiber forgets one.
Marks ==
    \/ joined' = joined /\ observed' = observed
    \/ \E t : joined' = joined \cup {t} /\ observed' = observed \cup {t}
    \/ \E f \in Fibers : Retires(f)

\* Every step but the last of the pump does one of the three.
LEMMA NextMarks == ASSUME SchedInv, [Next]_vars, ~PumpTail PROVE Marks
<1>1. CASE \E f \in Fibers : FiberStep(f)
  BY <1>1 DEF Marks, FiberStep, FiberReturn, FiberError, FiberYield, SubmitIo, RefuseIo, HandleJoin,
         HandleAbort, HandleSelect, HandlePark, HandleIoForward, HandleNotify, HandleIoForwardCancel,
         Spawn, KillFiber, RequestShutdown, markVars
<1>2. CASE CompleteSelects
  <2>1. Head(stack).target \in Fibers
    BY <1>2, TopFrame, FrameFields DEF CompleteSelects, Top, SchedInv
  <2>2. CASE UNCHANGED <<joined, observed>>
    BY <2>2 DEF Marks
  <2>3. CASE RetireFiber(Head(stack).target)
    BY <1>2, <2>1, <2>2, <2>3 DEF Marks, CompleteSelects, RetireFiber, Retires, fiberVars, ioVars, loopVars
  <2> QED BY <1>2, <2>2, <2>3 DEF CompleteSelects
<1>3. CASE HandlerStep /\ ~CompleteSelects
  BY <1>3 DEF Marks, HandlerStep, FiberResume, FiberAbort, CompleteJoins, WakeParked, RouteCompletion,
         WakeForwarded, AbortIoOne, TakeParkQueues, AbortParkedOne, UnwindCompletion, markVars
<1> QED BY <1>1, <1>2, <1>3
  DEF Marks, Next, LoopStep, DrainOne, StepDecide, PumpDecide, Unwind, UnwindEnd, CancelStragglers, IoWait,
      UnwindWait, IoWaitEmpty, markVars, vars

\* A failure nobody observed has its record, or the loop will come back to it.
Noted ==
    \A f \in Fibers : Failed(st[f]) /\ f \notin observed \cup killed => f \in DOMAIN completed \/ Placed(f)

\* A fiber that was observed and whose mark is gone has ended, and if it failed
\* the loop neither remembers it nor will hear of it again.
Forgotten ==
    \A f \in (observed \ joined) \ killed :
        Terminated(st[f]) /\ (Failed(st[f]) => f \notin DOMAIN completed /\ ~Placed(f))

FailInv == loop \notin {"returned", "raised"} => Noted /\ Forgotten /\ joined \subseteq observed

\* complete-fiber forgets a fiber that nobody has still to hear of.
LEMMA RetireFails ==
    ASSUME StepInv, Noted, Forgotten, joined \subseteq observed, NEW f \in Fibers, Retires(f)
    PROVE  Noted' /\ Forgotten' /\ joined' \subseteq observed'
<1>1. stack # <<>> /\ Head(stack) \in Range(stack)
  BY TailRange DEF Retires, Top, StepInv, SchedInv, StackOK
<1>2. Completing(f)
  BY <1>1 DEF Completing, Retires, Top
<1>3. ~Placed(f) /\ Terminated(st[f])
  BY <1>2, DoneEnded DEF StepInv
<1>4. /\ DOMAIN completed' = DOMAIN completed \ {f} /\ joined' = joined \ {f}
      /\ UNCHANGED <<st, runnable, fiberIo, observed, killed>>
  BY DEF Retires, Del
<1>5. \A g : Placed(g)' <=> Placed(g)
  BY <1>4 DEF Placed, Queued, InIo
<1>6. Failed(st[f]) => f \in observed \cup killed
  <2> SUFFICES ASSUME Failed(st[f]), f \notin observed \cup killed PROVE FALSE
    OBVIOUS
  <2>1. f \in DOMAIN completed
    BY <1>3 DEF Noted
  <2>2. completed[f] = "error"
    BY <2>1 DEF StepInv, VerdictAgrees, Verdict
  <2> QED BY <2>2 DEF Retires
<1>7. Noted'
  BY <1>4, <1>5, <1>6 DEF Noted
<1>8. Forgotten'
  BY <1>3, <1>4, <1>5 DEF Forgotten
<1> QED BY <1>4, <1>7, <1>8

\* Any other step of the loop before its tail.
LEMMA OthersFail ==
    ASSUME StepInv, Noted, Forgotten, joined \subseteq observed,
           KindOfStep, \A g \in Fibers : Final(g), ~PumpTail, killed \subseteq killed',
           observed \subseteq observed', observed' \ joined' \subseteq observed \ joined,
           ~\E f \in Fibers : Retires(f)
    PROVE  Noted' /\ Forgotten'
<1> DEFINE Fine(g) ==
       /\ Failed(st'[g]) /\ g \notin observed' \cup killed' => g \in DOMAIN completed' \/ Placed(g)'
       /\ g \in (observed' \ joined') \ killed' =>
             Terminated(st'[g]) /\ (Failed(st'[g]) => g \notin DOMAIN completed' /\ ~Placed(g)')
<1>1. ASSUME NEW g \in Fibers, Rests(g) \/ Lives(g), g \in DOMAIN completed' <=> g \in DOMAIN completed
      PROVE  Fine(g)
  BY <1>1 DEF Rests, Lives, Terminated, Noted, Forgotten
<1>2. ASSUME Shuffles, NEW g \in Fibers PROVE Fine(g)
  BY <1>1, <1>2 DEF Shuffles
<1>3. ASSUME NEW f \in Fibers, Completes(f), NEW g \in Fibers PROVE Fine(g)
  <2>1. DOMAIN completed' = DOMAIN completed \cup {f}
    BY <1>3 DEF Completes, Put
  <2>2. CASE g # f
    BY <1>1, <1>3, <2>1, <2>2 DEF Completes
  <2>3. CASE g = f
    <3>1. Terminated(st'[f]) /\ News(f)
      BY <1>3 DEF Completes
    <3>2. f \in (observed' \ joined') \ killed' => ~Failed(st'[f])
      <4> SUFFICES ASSUME f \in (observed' \ joined') \ killed', Failed(st'[f]) PROVE FALSE
        OBVIOUS
      <4>1. f \in (observed \ joined) \ killed
        OBVIOUS
      <4>2. Terminated(st[f]) /\ Verdict(st'[f]) = Verdict(st[f])
        BY <4>1 DEF Forgotten, Final
      <4>3. Failed(st[f])
        BY <4>2 DEF Verdict
      <4>4. ~Placed(f)
        BY <4>1, <4>3 DEF Forgotten
      <4> QED BY <3>1, <4>2, <4>3, <4>4 DEF News
    <3> QED BY <2>1, <2>3, <3>1, <3>2
  <2> QED BY <2>2, <2>3
<1>4. ASSUME NEW f \in Fibers, Kills(f), NEW g \in Fibers PROVE Fine(g)
  <2>1. UNCHANGED completed /\ \A h : Placed(h)' <=> Placed(h)
    BY <1>4 DEF Kills, Placed, Queued, InIo
  <2>2. CASE g # f
    BY <1>1, <1>4, <2>1, <2>2 DEF Kills, Rests
  <2>3. CASE g = f
    BY <1>4, <2>1, <2>3 DEF Kills, Forgotten
  <2> QED BY <2>2, <2>3
<1>5. ASSUME NEW f \in Fibers, Dooms(f), NEW g \in Fibers PROVE Fine(g)
  <2>1. CASE g = f
    BY <1>5, <2>1 DEF Dooms
  <2>2. CASE g # f
    <3>1. Rests(g) /\ UNCHANGED completed
      BY <1>5, <2>2 DEF Dooms, Rests, Placed, Queued, InIo
    <3> QED BY <1>1, <3>1
  <2> QED BY <2>1, <2>2
<1>6. ASSUME CancelStragglers, NEW g \in Fibers PROVE Fine(g)
  <2>1. CASE g \in killed'
    BY <2>1
  <2>2. CASE g \notin killed'
    <3>1. /\ g \notin {pending[id] : id \in DOMAIN pending} /\ g \notin Range(runnable)
          /\ UNCHANGED completed /\ runnable' = <<>> /\ DOMAIN fiberIo' \subseteq DOMAIN fiberIo
      BY <1>6, <2>2 DEF CancelStragglers
    <3>2. st'[g] = st[g]
      BY <1>6, <3>1 DEF CancelStragglers
    <3>3. g \notin DOMAIN fiberIo
      BY <3>1 DEF StepInv, SchedInv, IoPart, IoLookup
    <3>4. Range(runnable') = {}
      BY <3>1, EmptyStack DEF Range
    <3>5. Rests(g)
      BY <3>1, <3>2, <3>3, <3>4 DEF Rests, Placed, Queued, InIo
    <3> QED BY <1>1, <3>1, <3>5
  <2> QED BY <2>1, <2>2
<1>7. \A g \in Fibers : Fine(g)
  BY <1>2, <1>3, <1>4, <1>5, <1>6 DEF KindOfStep
<1>8. observed \subseteq Fibers
  BY DEF StepInv, SchedInv, CoreOK
<1>9. Noted'
  BY <1>7 DEF Noted
<1>10. Forgotten'
  BY <1>7, <1>8 DEF Forgotten
<1> QED BY <1>9, <1>10

\* Every step keeps the account of failures, until the tail has settled it.
LEMMA FailKept ==
    ASSUME StepInv, TailInv, FailInv, Careful, [Next]_vars PROVE FailInv'
<1> SUFFICES ASSUME loop' \notin {"returned", "raised"}
             PROVE  Noted' /\ Forgotten' /\ joined' \subseteq observed'
  BY DEF FailInv
<1>1. loop \notin {"returned", "raised"}
  <2>1. CASE UNCHANGED vars
    BY <2>1 DEF vars
  <2>2. CASE Next
    BY <2>2, EndedLoop DEF TailInv
  <2> QED BY <2>1, <2>2
<1>2. ~PumpTail
  BY DEF PumpTail
<1>3. Noted /\ Forgotten /\ joined \subseteq observed
  BY <1>1 DEF FailInv
<1>4. KindOfStep /\ Marks /\ killed \subseteq killed' /\ \A g \in Fibers : Final(g)
  BY <1>2, NextKind, NextMarks, KilledStays, NextFinal DEF StepInv, vars
<1>5. CASE \E f \in Fibers : Retires(f)
  BY <1>3, <1>5, RetireFails
<1>6. CASE ~\E f \in Fibers : Retires(f)
  <2>1. /\ observed \subseteq observed' /\ observed' \ joined' \subseteq observed \ joined
        /\ joined' \subseteq observed'
    BY <1>3, <1>4, <1>6 DEF Marks
  <2> QED BY <1>2, <1>3, <1>4, <1>6, <2>1, OthersFail
<1> QED BY <1>5, <1>6

\* The tail of :pump raises exactly the failures that nobody observed and the
\* teardown did not cause: none is swallowed, and none that a join or an abort
\* observed comes back, however the fibers ended and whoever was told first.
THEOREM FailuresAccounted == ASSUME Careful PROVE Spec => []FailureAccounting
<1>1. Init => TailInv /\ FailInv
  <2> SUFFICES ASSUME Init PROVE TailInv /\ FailInv
    OBVIOUS
  <2>1. loop = "drain" /\ joined = observed
    BY DEF Init
  <2>2. \A f \in Fibers : ~Failed(st[f])
    BY DEF Init, Failed
  <2> QED BY <2>1, <2>2 DEF TailInv, FailInv, Noted, Forgotten
<1>2. StepInv /\ TailInv /\ FailInv /\ [Next]_vars => TailInv' /\ FailInv'
  BY TailKept, FailKept DEF StepInv
<1>3. StepInv /\ TailInv /\ FailInv => FailureAccounting
  <2> SUFFICES ASSUME StepInv, TailInv, FailInv, loop = "tail"
               PROVE  Unjoined = {f \in Fibers : Failed(st[f]) /\ f \notin observed \cup killed}
    BY DEF FailureAccounting, At
  <2>1. Noted /\ Forgotten /\ joined \subseteq observed /\ \A f \in Fibers : ~Placed(f)
    BY DEF FailInv, TailInv
  <2>2. DOMAIN completed \subseteq Fibers
    BY DEF StepInv, SchedInv, CoreOK, IsTable
  <2>3. \A f \in DOMAIN completed : completed[f] = "error" <=> Failed(st[f])
    BY DEF StepInv, VerdictAgrees, Verdict
  <2>4. ASSUME NEW f \in Unjoined PROVE f \in Fibers /\ Failed(st[f]) /\ f \notin observed \cup killed
    BY <2>1, <2>2, <2>3, <2>4 DEF Unjoined, Forgotten
  <2>5. ASSUME NEW f \in Fibers, Failed(st[f]), f \notin observed \cup killed PROVE f \in Unjoined
    BY <2>1, <2>3, <2>5 DEF Unjoined, Noted
  <2> QED BY <2>4, <2>5
<1> QED BY <1>1, <1>2, <1>3, StepInvariant, PTL DEF Spec

-----------------------------------------------------------------------------
(* Waiters of a fiber that has ended.                                      *)

\* w joined t.
JoinsOn(w, t) == w \in DOMAIN fiberJoin /\ fiberJoin[w] = t

\* The loop will come back to t, or complete-fiber has yet to look for waiters of t.
Noticing(t) == Placed(t) \/ Joins(t) \in Range(stack)

\* wake-select-waiters for t has yet to look at w.
Answering(w, t) == \E fr \in Range(stack) : fr.at = "selects" /\ fr.target = t /\ w \in fr.todo

\* While the loop serves programs, whoever waits for a fiber that has ended
\* will be answered: the loop is about to notice the end, or is answering.
NoneStranded ==
    \A w, t \in Fibers :
        /\ JoinsOn(w, t) /\ Terminated(st[t]) => Noticing(t)
        /\ Names(w, t) /\ Terminated(st[t]) => Noticing(t) \/ Answering(w, t)

\* Nobody begins to wait for a fiber that has ended.
NoLateWait ==
    \A w, t \in Fibers :
        /\ JoinsOn(w, t)' => JoinsOn(w, t) \/ ~Terminated(st'[t])
        /\ Names(w, t)' => Names(w, t) \/ ~Terminated(st'[t])

\* A table loses a key, or everything.
LEMMA FewerWait ==
    ASSUME UNCHANGED fiberJoin \/ (\E f : fiberJoin' = Del(fiberJoin, f)) \/ fiberJoin' = Empty,
           UNCHANGED selectSets \/ (\E f : selectSets' = Del(selectSets, f)) \/ selectSets' = Empty
    PROVE  NoLateWait
<1>1. \A w : w \in DOMAIN fiberJoin' => w \in DOMAIN fiberJoin /\ fiberJoin'[w] = fiberJoin[w]
  BY DEF Del, Empty
<1>2. \A w : w \in DOMAIN selectSets' => w \in DOMAIN selectSets /\ selectSets'[w] = selectSets[w]
  BY DEF Del, Empty
<1> QED BY <1>1, <1>2 DEF NoLateWait, JoinsOn, Names

\* ev/join and ev/select wait for fibers that have not ended.
LEMMA FiberStepWaits ==
    ASSUME SchedInv, PlaceInv, NEW f \in Fibers, FiberStep(f) PROVE NoLateWait
<1>1. st \in [Fibers -> Status] /\ Spawned \subseteq Fibers
  BY DEF SchedInv, CoreOK, Spawned
<1>2. CASE UNCHANGED <<fiberJoin, selectSets>> \/ (\E g : LeaveWaits(g))
  BY <1>2, FewerWait DEF LeaveWaits
<1>3. ASSUME NEW op, Requests(f, op) PROVE \A t \in Fibers : ~Terminated(st[t]) => ~Terminated(st'[t])
  <2>1. st'[f] = "paused" /\ \A g \in Fibers : g # f => st'[g] = st[g]
    BY <1>3, Suspends
  <2> QED BY <2>1 DEF Terminated, Failed, IsDead
<1>4. CASE \E t \in Spawned : HandleJoin(f, t)
  <2>1. PICK t \in Fibers : HandleJoin(f, t)
    BY <1>1, <1>4
  <2>2. CASE ~Recorded(t) /\ ~Unnoticed(t) /\ fiberJoin' = Put(fiberJoin, f, t) /\ UNCHANGED selectSets
    <3>1. ~Terminated(st'[t])
      BY <1>3, <2>1, <2>2 DEF HandleJoin, Unnoticed
    <3>2. \A w : w \in DOMAIN fiberJoin' => (w \in DOMAIN fiberJoin /\ fiberJoin'[w] = fiberJoin[w]) \/ fiberJoin'[w] = t
      BY <2>2 DEF Put
    <3> QED BY <2>2, <3>1, <3>2 DEF NoLateWait, JoinsOn, Names
  <2> QED BY <1>2, <2>1, <2>2 DEF HandleJoin, FoundFinished, CompleteFiber, BeginComplete, waitVars
<1>5. CASE \E S \in SUBSET Spawned \ {{}} : HandleSelect(f, S)
  <2>1. PICK S \in SUBSET Spawned \ {{}} : HandleSelect(f, S)
    BY <1>5
  <2>2. CASE (\A d \in S : ~Recorded(d) /\ ~Unnoticed(d)) /\ selectSets' = Put(selectSets, f, S) /\ UNCHANGED fiberJoin
    <3>1. \A t \in S : ~Terminated(st'[t])
      BY <1>1, <1>3, <2>1, <2>2 DEF HandleSelect, Unnoticed
    <3>2. \A w : w \in DOMAIN selectSets' => (w \in DOMAIN selectSets /\ selectSets'[w] = selectSets[w]) \/ selectSets'[w] = S
      BY <2>2 DEF Put
    <3> QED BY <2>2, <3>1, <3>2 DEF NoLateWait, JoinsOn, Names
  <2> QED BY <1>2, <2>1, <2>2 DEF HandleSelect, FoundFinished, CompleteFiber, BeginComplete, waitVars
<1>6. ASSUME NEW g \in Fibers, Spawn(f, g) PROVE NoLateWait
  <2>1. st'[g] = "new" /\ UNCHANGED fiberJoin
    BY <1>1, <1>6 DEF Spawn
  <2>2. \A w : w \in DOMAIN selectSets' => w \in DOMAIN selectSets /\ selectSets'[w] \subseteq selectSets[w] \cup {g}
    BY <1>6 DEF Spawn
  <2>3. ~Terminated(st'[g])
    BY <2>1 DEF Terminated, Failed, IsDead
  <2> QED BY <2>1, <2>2, <2>3 DEF NoLateWait, JoinsOn, Names
<1>7. CASE \E t \in Spawned : HandleAbort(f, t)
  BY <1>2, <1>7 DEF HandleAbort, FoundFinished, CompleteFiber, BeginComplete, waitVars
<1> QED BY <1>2, <1>4, <1>5, <1>6, <1>7
  DEF FiberStep, FiberReturn, FiberError, FiberYield, SubmitIo, RefuseIo, HandlePark, HandleIoForward,
      HandleNotify, HandleIoForwardCancel, KillFiber, RequestShutdown, CompleteFiber, BeginComplete, waitVars

\* Every step.
LEMMA NextWaits == ASSUME SchedInv, PlaceInv, [Next]_vars PROVE NoLateWait
<1>1. CASE UNCHANGED <<fiberJoin, selectSets>> \/ (\E g : LeaveWaits(g))
  BY <1>1, FewerWait DEF LeaveWaits
<1>2. CASE \E f \in Fibers : FiberStep(f)
  BY <1>2, FiberStepWaits
<1>3. CASE CompleteJoins
  BY <1>3, FewerWait DEF CompleteJoins
<1>4. CASE CompleteSelects
  BY <1>4, FewerWait DEF CompleteSelects
<1>5. CASE PumpTail
  BY <1>5, FewerWait DEF PumpTail
<1>6. CASE FiberAbort \/ DrainOne
  BY <1>1, <1>6 DEF FiberAbort, DrainOne, CompleteFiber, BeginComplete, waitVars
<1>7. CASE \E id \in Ids : RouteCompletion(id)
  BY <1>1, <1>7 DEF RouteCompletion, BeginComplete, waitVars
<1> QED BY <1>1, <1>2, <1>3, <1>4, <1>5, <1>6, <1>7
  DEF Next, HandlerStep, FiberResume, WakeParked, WakeForwarded, AbortIoOne, TakeParkQueues, AbortParkedOne,
      UnwindCompletion, LoopStep, StepDecide, PumpDecide, Unwind, UnwindEnd, CancelStragglers, IoWait,
      UnwindWait, IoWaitEmpty, waitVars, vars

\* The loop never goes back to serving programs.
LEMMA NextServes == ASSUME [Next]_vars, Serving' PROVE Serving /\ loop' # "crashed"
<1>1. CASE \E f \in Fibers : FiberStep(f)
  BY <1>1 DEF FiberStep, FiberReturn, FiberError, FiberYield, SubmitIo, RefuseIo, HandleJoin, HandleAbort,
         HandleSelect, HandlePark, HandleIoForward, HandleNotify, HandleIoForwardCancel, Spawn,
         KillFiber, RequestShutdown, loopVars, Serving
<1>2. CASE HandlerStep
  BY <1>2 DEF HandlerStep, FiberResume, FiberAbort, CompleteJoins, CompleteSelects, WakeParked,
         RouteCompletion, WakeForwarded, AbortIoOne, TakeParkQueues, AbortParkedOne, UnwindCompletion,
         Crash, loopVars, Serving
<1>3. CASE StepDecide \/ PumpDecide \/ DrainOne
  BY <1>3 DEF StepDecide, PumpDecide, DrainOne, BeginShutdown, loopVars, At, Serving
<1> QED BY <1>1, <1>2, <1>3
  DEF Next, LoopStep, Unwind, UnwindEnd, CancelStragglers, PumpTail, IoWait, UnwindWait, IoWaitEmpty, At,
      Serving, vars

\* Only complete-fiber itself takes its frames away.
LEMMA CompletingStays ==
    ASSUME SchedInv, [Next]_vars, ~CompleteJoins, ~CompleteSelects, loop' # "crashed",
           NEW fr \in Range(stack), fr.at \in {"joins", "selects"}
    PROVE  fr \in Range(stack')
<1>1. stack \in Seq(Frame)
  BY DEF SchedInv, StackOK
<1>2. stack # <<>>
  BY <1>1, RangeSeq
<1>3. Range(stack) = {Head(stack)} \cup Range(Tail(stack)) /\ Range(Tail(stack)) \subseteq Range(stack')
  BY <1>1, <1>2, TailRange, FramesStay
<1>4. CASE fr = Head(stack)
  <2>1. CASE \E f \in Fibers : FiberStep(f)
    BY <1>4, <2>1 DEF FiberStep, FiberReturn, FiberError, FiberYield, SubmitIo, RefuseIo, HandleJoin,
         HandleAbort, HandleSelect, HandlePark, HandleIoForward, HandleNotify, HandleIoForwardCancel,
         Spawn, KillFiber, RequestShutdown, Requests, Running, Top
  <2>2. CASE HandlerStep
    BY <1>4, <2>2 DEF HandlerStep, FiberResume, FiberAbort, WakeParked, RouteCompletion,
         WakeForwarded, AbortIoOne, TakeParkQueues, AbortParkedOne, UnwindCompletion, Top
  <2>3. CASE LoopStep \/ (\E B \in SUBSET inflight : IoWait(B) \/ UnwindWait(B)) \/ IoWaitEmpty
    BY <1>2, <2>3 DEF LoopStep, DrainOne, StepDecide, PumpDecide, Unwind, UnwindEnd, CancelStragglers,
         PumpTail, IoWait, UnwindWait, IoWaitEmpty, At
  <2>4. CASE UNCHANGED vars
    BY <2>4 DEF vars
  <2> QED BY <2>1, <2>2, <2>3, <2>4 DEF Next
<1> QED BY <1>3, <1>4

\* A fiber that has ended after a step had ended before it, and nothing
\* happened to it; or else the step left it where the loop will notice the end.
LEMMA EndNoticed ==
    ASSUME KindOfStep, Serving', NEW t \in Fibers, Terminated(st'[t])
    PROVE  Rests(t) \/ Noticing(t)'
<1>1. CASE Shuffles
  BY <1>1 DEF Shuffles, Lives
<1>2. ASSUME NEW f \in Fibers, Completes(f) PROVE Rests(t) \/ Noticing(t)'
  BY <1>2 DEF Completes, Lives, Noticing
<1>3. ASSUME NEW f \in Fibers, Kills(f) PROVE Rests(t) \/ Noticing(t)'
  BY <1>3 DEF Kills, Rests, Noticing, Placed, Queued, InIo
<1>4. ASSUME NEW f \in Fibers, Retires(f) PROVE Rests(t)
  BY <1>4 DEF Retires, Rests, Placed, Queued, InIo
<1>5. CASE CancelStragglers \/ PumpTail \/ \E f \in Fibers : Dooms(f)
  BY <1>5 DEF CancelStragglers, PumpTail, Dooms, Serving
<1> QED BY <1>1, <1>2, <1>3, <1>4, <1>5 DEF KindOfStep

\* The waiters that complete-fiber has not answered when it is done with the
\* waiter list are select sets, and those it has copied.
LEMMA JoinsStranded ==
    ASSUME SchedInv, CompleteJoins, loop' # "crashed", NEW w, NEW t
    PROVE  /\ JoinsOn(w, t)' /\ Joins(t) \in Range(stack) => Joins(t) \in Range(stack')
           /\ Names(w, t)' /\ Joins(t) \in Range(stack) => Joins(t) \in Range(stack') \/ Answering(w, t)'
           /\ Answering(w, t) => Answering(w, t)'
<1>0. PICK f : f = Head(stack).target
  OBVIOUS
<1>1. stack # <<>> /\ Head(stack).at = "joins" /\ stack \in Seq(Frame)
  BY DEF CompleteJoins, Top, SchedInv, StackOK
<1>2. Head(stack) \in Frame /\ Range(stack) = {Head(stack)} \cup Range(Tail(stack)) /\ Tail(stack) \in Seq(Frame)
  BY <1>1, TailRange
<1>3. CASE f \in DOMAIN waiters /\ waiters[f] # <<>>
  <2>1. \E e : stack' = <<e>> \o stack
    BY <1>0, <1>3 DEF CompleteJoins
  <2>2. Range(stack) \subseteq Range(stack')
    BY <1>1, <2>1, PushKeeps
  <2> QED BY <2>2 DEF Answering
<1>4. CASE ~(f \in DOMAIN waiters /\ waiters[f] # <<>>)
  <2>1. stack' = <<Selects(f, DOMAIN selectSets)>> \o Tail(stack) /\ UNCHANGED <<fiberJoin, selectSets>>
    BY <1>0, <1>4 DEF CompleteJoins
  <2>2. Range(stack') = {Selects(f, DOMAIN selectSets)} \cup Range(Tail(stack))
    BY <1>2, <2>1, PushKeeps
  <2>3. Answering(w, t) => Answering(w, t)'
    BY <1>1, <1>2, <2>2 DEF Answering
  <2>4. CASE Joins(t) # Head(stack)
    BY <1>2, <2>2, <2>3, <2>4
  <2>5. CASE Joins(t) = Head(stack)
    <3>1. t = f
      BY <1>0, <2>5 DEF Joins
    <3>2. ~JoinsOn(w, t)'
      <4> SUFFICES ASSUME JoinsOn(w, t)' PROVE FALSE
        OBVIOUS
      <4>1. w \in DOMAIN fiberJoin /\ fiberJoin[w] = f
        BY <2>1, <3>1 DEF JoinsOn
      <4>2. f \in DOMAIN waiters /\ w \in Range(waiters[f])
        BY <4>1 DEF SchedInv, WaitPart, JoinLookup
      <4> QED BY <1>4, <4>2 DEF Range
    <3>3. Names(w, t)' => Answering(w, t)'
      <4>1. /\ Selects(f, DOMAIN selectSets).at = "selects" /\ Selects(f, DOMAIN selectSets).target = f
            /\ Selects(f, DOMAIN selectSets).todo = DOMAIN selectSets
        BY DEF Selects
      <4> QED BY <2>1, <2>2, <3>1, <4>1 DEF Names, Answering
    <3> QED BY <2>3, <3>2, <3>3
  <2> QED BY <2>4, <2>5
<1> QED BY <1>3, <1>4

\* wake-select-waiters answers every waiter of its copy that still waits.
LEMMA SelectsStranded ==
    ASSUME SchedInv, CompleteSelects, loop' # "crashed", NEW w, NEW t
    PROVE  /\ Joins(t) \in Range(stack) => Joins(t) \in Range(stack')
           /\ Names(w, t)' /\ Answering(w, t) => Answering(w, t)'
<1>0. PICK f, todo : f = Head(stack).target /\ todo = Head(stack).todo
  OBVIOUS
<1>1. stack # <<>> /\ Head(stack).at = "selects" /\ stack \in Seq(Frame)
  BY DEF CompleteSelects, Top, SchedInv, StackOK
<1>2. Range(stack) = {Head(stack)} \cup Range(Tail(stack)) /\ Tail(stack) \in Seq(Frame)
  BY <1>1, TailRange
<1>3. CASE todo = {} /\ stack' = Tail(stack)
  BY <1>0, <1>1, <1>2, <1>3 DEF Answering, Joins
<1>4. ASSUME NEW v \in todo, Names(v, f) => selectSets' = Del(selectSets, v),
             ~Names(v, f) => UNCHANGED selectSets,
             Range(Tail(stack)) \cup {Selects(f, todo \ {v})} \subseteq Range(stack')
      PROVE  /\ Joins(t) \in Range(stack) => Joins(t) \in Range(stack')
             /\ Names(w, t)' /\ Answering(w, t) => Answering(w, t)'
  <2>1. Joins(t) \in Range(stack) => Joins(t) \in Range(stack')
    BY <1>1, <1>2, <1>4 DEF Joins
  <2>2. ASSUME Names(w, t)', Answering(w, t) PROVE Answering(w, t)'
    <3>1. PICK fr \in Range(stack) : fr.at = "selects" /\ fr.target = t /\ w \in fr.todo
      BY <2>2 DEF Answering
    <3>2. CASE fr # Head(stack)
      BY <1>2, <1>4, <3>1, <3>2 DEF Answering
    <3>3. CASE fr = Head(stack)
      <4>1. t = f /\ w \in todo
        BY <1>0, <3>1, <3>3
      <4>2. w # v
        BY <1>4, <2>2, <4>1 DEF Names, Del
      <4>3. /\ Selects(f, todo \ {v}).at = "selects" /\ Selects(f, todo \ {v}).target = f
            /\ Selects(f, todo \ {v}).todo = todo \ {v}
        BY DEF Selects
      <4> QED BY <1>4, <4>1, <4>2, <4>3 DEF Answering
    <3> QED BY <3>2, <3>3
  <2> QED BY <2>1, <2>2
<1>5. ASSUME NEW v \in todo, Names(v, f), selectSets' = Del(selectSets, v),
             stack' = <<Resume(v), Selects(f, todo \ {v})>> \o Tail(stack)
      PROVE  Range(Tail(stack)) \cup {Selects(f, todo \ {v})} \subseteq Range(stack')
  <2>1. PICK d, e : d = Resume(v) /\ e = Selects(f, todo \ {v})
    OBVIOUS
  <2>2. Range(<<d, e>> \o Tail(stack)) = {d, e} \cup Range(Tail(stack))
    BY <1>2, PushKeeps
  <2> QED BY <1>5, <2>1, <2>2
<1>6. ASSUME NEW v \in todo, stack' = <<Selects(f, todo \ {v})>> \o Tail(stack)
      PROVE  Range(Tail(stack)) \cup {Selects(f, todo \ {v})} \subseteq Range(stack')
  BY <1>2, <1>6, PushKeeps
<1> QED BY <1>0, <1>3, <1>4, <1>5, <1>6 DEF CompleteSelects

\* Every step of the loop that serves programs.
LEMMA StrandedKept ==
    ASSUME StepInv, Careful, [Next]_vars, Serving', NoneStranded PROVE NoneStranded'
<1>1. KindOfStep /\ NoLateWait /\ SchedInv /\ loop' # "crashed"
  BY NextKind, NextWaits, NextServes DEF StepInv
<1> SUFFICES ASSUME NEW w \in Fibers, NEW t \in Fibers, Terminated(st'[t])
             PROVE  /\ JoinsOn(w, t)' => Noticing(t)'
                    /\ Names(w, t)' => Noticing(t)' \/ Answering(w, t)'
  BY DEF NoneStranded
<1>2. CASE Noticing(t)'
  BY <1>2
<1>3. CASE Rests(t)
  <2>1. Terminated(st[t]) /\ (Placed(t) => Noticing(t)')
    BY <1>3 DEF Rests, Noticing
  <2>2. JoinsOn(w, t)' => Noticing(t)
    BY <1>1, <2>1 DEF NoLateWait, NoneStranded
  <2>3. Names(w, t)' => Noticing(t) \/ Answering(w, t)
    BY <1>1, <2>1 DEF NoLateWait, NoneStranded
  <2>4. CASE CompleteJoins
    BY <1>1, <2>1, <2>2, <2>3, <2>4, JoinsStranded DEF Noticing
  <2>5. CASE CompleteSelects
    BY <1>1, <2>1, <2>2, <2>3, <2>5, SelectsStranded DEF Noticing
  <2>6. CASE ~CompleteJoins /\ ~CompleteSelects
    <3>1. \A fr \in Range(stack) : fr.at \in {"joins", "selects"} => fr \in Range(stack')
      BY <1>1, <2>6, CompletingStays
    <3>2. Joins(t) \in Range(stack) => Joins(t) \in Range(stack')
      BY <3>1 DEF Joins
    <3>3. Answering(w, t) => Answering(w, t)'
      BY <3>1 DEF Answering
    <3> QED BY <2>1, <2>2, <2>3, <3>2, <3>3 DEF Noticing
  <2> QED BY <2>4, <2>5, <2>6
<1> QED BY <1>1, <1>2, <1>3, EndNoticed

\* Nobody waits for a fiber the loop has finished with: when nothing is in
\* progress, a join or a select over a fiber that ended is one the loop has yet
\* to come back to.  This is what complete-fiber, get-completion and the guards
\* of ev/join and ev/select owe to each other.
THEOREM NobodyStranded == ASSUME Careful PROVE Spec => []NoStrandedWaiter
<1>1. Init => (Serving => NoneStranded)
  <2> SUFFICES ASSUME Init PROVE NoneStranded
    OBVIOUS
  <2>1. DOMAIN fiberJoin = {} /\ DOMAIN selectSets = {}
    BY DEF Init, Empty
  <2> QED BY <2>1 DEF NoneStranded, JoinsOn, Names
<1>2. StepInv /\ (Serving => NoneStranded) /\ [Next]_vars => (Serving => NoneStranded)'
  BY StrandedKept, NextServes
<1>3. (Serving => NoneStranded) => NoStrandedWaiter
  <2> SUFFICES ASSUME NoneStranded, stack = <<>>, NEW w \in Fibers, NEW t \in Fibers,
                      Waits(w, t), Terminated(st[t])
               PROVE  Queued(t) \/ InIo(t)
    BY DEF NoStrandedWaiter, Quiet
  <2>1. Range(stack) = {}
    BY DEF Range
  <2>2. JoinsOn(w, t) \/ Names(w, t)
    BY DEF Waits, JoinsOn, Names
  <2> QED BY <2>1, <2>2 DEF NoneStranded, Noticing, Answering, Placed
<1> QED BY <1>1, <1>2, <1>3, StepInvariant, PTL DEF Spec
=============================================================================
