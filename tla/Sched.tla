-------------------------------- MODULE Sched -------------------------------
(***************************************************************************)
(* The actions of the async scheduler: the handlers and the event loop of  *)
(* make-async-scheduler, and what a fiber may do while it runs.            *)
(***************************************************************************)
EXTENDS SchedHelpers

-----------------------------------------------------------------------------
(* Completing fibers.                                                      *)

\* complete-fiber up to its first resume; q is the runnable queue it starts
\* from and rest what its caller goes on with.  Joins does the remainder.
BeginComplete(f, status, q, rest) ==
    /\ completed' = Put(completed, f, status)
    /\ runnable' = LeaveArray(q, f)
    /\ LeaveWaits(f)
    /\ stack' = <<Joins(f)>> \o rest

CompleteFiber(f, status, q, rest) ==
    BeginComplete(f, status, q, rest) /\ CancelIo(f)

\* The loop of complete-fiber over the waiter list: it reads the live list.
CompleteJoins ==
    /\ Top("joins")
    /\ LET f == Head(stack).target IN
       IF f \in DOMAIN waiters /\ waiters[f] # <<>>
       THEN LET w == Head(waiters[f]) IN
            /\ waiters' = Put(waiters, f, Tail(waiters[f]))
            /\ fiberJoin' = Del(fiberJoin, w)
            /\ stack' = <<Resume(w)>> \o stack
       ELSE /\ waiters' = Del(waiters, f)
            /\ stack' = <<Selects(f, DOMAIN selectSets)>> \o Tail(stack)
            /\ UNCHANGED fiberJoin
    /\ UNCHANGED <<fiberVars, ioVars, loopVars, markVars, runnable, forwarded,
                   fiberPark, parkQueues, selectSets, completed>>

\* wake-select-waiters, one waiter of its copy; then retire-fiber ends
\* complete-fiber.
CompleteSelects ==
    /\ Top("selects")
    /\ LET f == Head(stack).target
           todo == Head(stack).todo IN
       \/ \E w \in todo :
            /\ IF Names(w, f)
               THEN /\ selectSets' = Del(selectSets, w)
                    /\ stack' = <<Resume(w), Selects(f, todo \ {w})>> \o Tail(stack)
               ELSE /\ stack' = <<Selects(f, todo \ {w})>> \o Tail(stack)
                    /\ UNCHANGED selectSets
            /\ UNCHANGED <<completed, joined>>
       \/ /\ todo = {}
          /\ RetireFiber(f)
          /\ stack' = Tail(stack)
          /\ UNCHANGED selectSets
    /\ UNCHANGED <<fiberVars, ioVars, loopVars, observed, runnable, forwarded,
                   fiberPark, parkQueues, fiberJoin, waiters>>

-----------------------------------------------------------------------------
(* Entering a fiber.                                                       *)

\* The loop ends with an error nobody under it catches.
Crash == loop' = "crashed" /\ stack' = <<>> /\ UNCHANGED <<killed, shutdownReq, mode>>

\* fiber/resume from a handler.
FiberResume ==
    /\ Top("resume")
    /\ LET f == Head(stack).fiber IN
       IF CanResume(st[f])
       THEN /\ st' = [st EXCEPT ![f] = "alive"]
            /\ stack' = <<Run(f, "resume")>> \o Tail(stack)
            /\ UNCHANGED loopVars
       ELSE Crash /\ UNCHANGED st
    /\ UNCHANGED <<ioVars, waitVars, markVars, budget, runnable, forwarded,
                   completed>>

\* fiber/abort from a handler.  A :new fiber is killed where it stands and a
\* :dead one is left alone; both are then routed to complete-fiber.
FiberAbort ==
    /\ Top("raise")
    /\ LET f == Head(stack).fiber IN
       \/ /\ CanRaise(st[f])
          /\ st' = [st EXCEPT ![f] = "alive"]
          /\ stack' = <<Run(f, "abort")>> \o Tail(stack)
          /\ UNCHANGED <<ioVars, waitVars, loopVars, runnable, completed>>
       \/ /\ st[f] = "new"
          /\ st' = [st EXCEPT ![f] = "error"]
          /\ CompleteFiber(f, "error", runnable, Tail(stack))
          /\ UNCHANGED loopVars
       \/ /\ IsDead(st[f])
          /\ CompleteFiber(f, Verdict(st[f]), runnable, Tail(stack))
          /\ UNCHANGED <<st, loopVars>>
       \/ /\ RefusesAbort(st[f])
          /\ IF Head(stack).protect
             THEN stack' = Tail(stack) /\ UNCHANGED loopVars
             ELSE Crash
          /\ UNCHANGED <<st, ioVars, waitVars, runnable, completed>>
    /\ UNCHANGED <<markVars, budget, forwarded>>

-----------------------------------------------------------------------------
(* What a running fiber does next, and the route the scheduler gives it:   *)
(* handle-fiber-after-resume and the handlers of handle-wait.              *)

\* f is running, and its code may go on: an injected error ends a fiber that
\* has no protect or defer around the wait.
Running(f) == /\ Top("run") /\ Head(stack).fiber = f
              /\ Head(stack).how = "resume" \/ f \in Protected

\* f suspends with the request op.
Requests(f, op) ==
    /\ Running(f)
    /\ op \in Ops
    /\ budget[f] > 0
    /\ st' = [st EXCEPT ![f] = "paused"]
    /\ budget' = [budget EXCEPT ![f] = @ - 1]

\* The fiber returns.
FiberReturn(f) ==
    /\ Running(f)
    /\ st' = [st EXCEPT ![f] = "dead"]
    /\ CompleteFiber(f, "ok", runnable, Tail(stack))
    /\ UNCHANGED <<budget, markVars, forwarded, loopVars>>

\* The fiber raises an error, or does not catch the one injected.
FiberError(f) ==
    /\ Top("run") /\ Head(stack).fiber = f
    /\ Head(stack).how = "abort" \/ "fail" \in Ops
    /\ st' = [st EXCEPT ![f] = AfterError(Head(stack).how)]
    /\ CompleteFiber(f, "error", runnable, Tail(stack))
    /\ UNCHANGED <<budget, markVars, forwarded, loopVars>>

\* Any other caught signal: back to the runnable queue.
FiberYield(f) ==
    /\ Requests(f, "yield")
    /\ runnable' = Append(runnable, f)
    /\ stack' = Tail(stack)
    /\ UNCHANGED <<ioVars, waitVars, markVars, loopVars, forwarded, completed>>

\* An id the backend has never handed out, or that nobody can still name.
FreeIds == Ids \ (DOMAIN pending \cup DOMAIN forwarded \cup inflight
                  \cup UNION {IdsOf(stack[i]) : i \in 1..Len(stack)})

\* SIG_IO: submit, and hold the pairing in two halves.
SubmitIo(f) ==
    /\ Requests(f, "io")
    /\ \E id \in FreeIds :
         /\ pending' = Put(pending, id, f)
         /\ fiberIo' = Put(fiberIo, f, id)
         /\ inflight' = inflight \cup {id}
    /\ stack' = Tail(stack)
    /\ UNCHANGED <<runnable, waitVars, markVars, loopVars, forwarded, completed>>

\* SIG_IO the backend refuses to submit, or a capability denial: the failure
\* is raised at the fiber's own call (fiber/abort, fiber/refuse).
RefuseIo(f) ==
    /\ Requests(f, "submitfail") \/ Requests(f, "denied")
    /\ stack' = <<Raise(f, FALSE)>> \o Tail(stack)
    /\ UNCHANGED <<runnable, ioVars, waitVars, markVars, loopVars, forwarded,
                   completed>>

\* The branch of a handler that finds t finished and goes on with rest.
FoundFinished(t, rest) ==
    \/ /\ Recorded(t)
       /\ stack' = rest
       /\ UNCHANGED <<runnable, ioVars, waitVars, completed>>
    \/ /\ Unnoticed(t)
       /\ CompleteFiber(t, Verdict(st[t]), runnable, rest)

Array(table, k) == IF k \in DOMAIN table THEN table[k] ELSE <<>>

\* handle-join
HandleJoin(c, t) ==
    /\ Requests(c, "join")
    /\ joined' = joined \cup {t}
    /\ observed' = observed \cup {t}
    /\ \/ FoundFinished(t, <<Resume(c)>> \o Tail(stack))
       \/ /\ ~Recorded(t) /\ ~Unnoticed(t)
          /\ waiters' = Put(waiters, t, Append(Array(waiters, t), c))
          /\ fiberJoin' = Put(fiberJoin, c, t)
          /\ stack' = Tail(stack)
          /\ UNCHANGED <<runnable, ioVars, fiberPark, parkQueues, selectSets,
                         completed>>
    /\ UNCHANGED <<loopVars, forwarded>>

\* A failure that was observed, and whose record and mark are gone.
Spent(t) == Failed(st[t]) /\ t \in observed /\ ~Recorded(t)

\* handle-select.  The candidates come in any order, so any finished one may
\* be the first that `find` meets.
HandleSelect(c, S) ==
    /\ Requests(c, "select")
    /\ "selectSpent" \in Careless \/ \A d \in S : ~Spent(d)
    /\ \/ \E d \in S : FoundFinished(d, <<Resume(c)>> \o Tail(stack))
       \/ /\ \A d \in S : ~Recorded(d) /\ ~Unnoticed(d)
          /\ selectSets' = Put(selectSets, c, S)
          /\ stack' = Tail(stack)
          /\ UNCHANGED <<runnable, ioVars, fiberPark, parkQueues, fiberJoin,
                         waiters, completed>>
    /\ UNCHANGED <<markVars, loopVars, forwarded>>

\* The fibers t a careful program may abort from c.
MayAbort(c, t) ==
    /\ "abortSelf" \in Careless \/ t # c
    /\ "abortServed" \in Careless \/ t = c \/ ~Busy(t)
    /\ "abortQueued" \in Careless \/ st[t] = "new" \/ t \notin Range(runnable)
    /\ "abortLate" \in Careless \/ Serving

\* handle-abort
HandleAbort(c, t) ==
    /\ MayAbort(c, t)
    /\ Requests(c, "abort")
    /\ joined' = joined \cup {t}
    /\ observed' = observed \cup {t}
    /\ \/ FoundFinished(t, <<Resume(c)>> \o Tail(stack))
       \/ /\ ~Recorded(t) /\ ~Unnoticed(t)
          /\ CancelIo(t)
          /\ LeaveWaits(t)
          /\ stack' = <<Raise(t, FALSE), Resume(c)>> \o Tail(stack)
          /\ UNCHANGED <<runnable, completed>>
    /\ UNCHANGED <<loopVars, forwarded>>

\* handle-park.  The box is the caller's, so it may hold the expected value or
\* have changed.
HandlePark(c, k) ==
    /\ Requests(c, "park")
    /\ \/ /\ parkQueues' = Put(parkQueues, k, Append(Array(parkQueues, k), c))
          /\ fiberPark' = Put(fiberPark, c, k)
          /\ stack' = Tail(stack)
       \/ /\ stack' = <<Resume(c)>> \o Tail(stack)
          /\ UNCHANGED <<parkQueues, fiberPark>>
    /\ UNCHANGED <<runnable, ioVars, fiberJoin, waiters, selectSets, markVars,
                   loopVars, forwarded, completed>>

\* handle-notify
HandleNotify(c, k, n) ==
    /\ Requests(c, "notify")
    /\ stack' = <<Wake(k, Array(parkQueues, k), n, c)>> \o Tail(stack)
    /\ UNCHANGED <<runnable, ioVars, waitVars, markVars, loopVars, forwarded,
                   completed>>

\* wake-parked, one candidate; a candidate that is no longer parked on the key
\* is passed over, and handle-notify answers its caller at the end.
WakeParked ==
    /\ Top("wake")
    /\ LET fr == Head(stack)
           rest == Tail(stack) IN
       IF fr.todo = <<>>
       THEN /\ stack' = IF fr.caller = None THEN rest
                        ELSE <<Resume(fr.caller)>> \o rest
            /\ UNCHANGED <<fiberPark, parkQueues>>
       ELSE LET f == Head(fr.todo) IN
            IF Permit(fr, f)
            THEN /\ fiberPark' = Del(fiberPark, f)
                 /\ parkQueues' = LeaveQueue(parkQueues, fr.key, f)
                 /\ stack' = <<Resume(f),
                               Wake(fr.key, Tail(fr.todo), fr.left - 1, fr.caller)>>
                             \o rest
            ELSE /\ stack' = <<Wake(fr.key, Tail(fr.todo), fr.left, fr.caller)>> \o rest
                 /\ UNCHANGED <<fiberPark, parkQueues>>
    /\ UNCHANGED <<fiberVars, runnable, ioVars, fiberJoin, waiters, selectSets,
                   markVars, loopVars, forwarded, completed>>

\* handle-io-forward (a refused submission answers the caller all the same)
HandleIoForward(c, k) ==
    /\ Requests(c, "forward")
    /\ \/ \E id \in FreeIds :
            /\ forwarded' = Put(forwarded, id, k)
            /\ inflight' = inflight \cup {id}
       \/ UNCHANGED <<forwarded, inflight>>
    /\ stack' = <<Resume(c)>> \o Tail(stack)
    /\ UNCHANGED <<runnable, pending, fiberIo, waitVars, markVars, loopVars,
                   completed>>

\* handle-io-forward-cancel
HandleIoForwardCancel(c, id) ==
    /\ Requests(c, "unforward")
    /\ CancelForward(id)
    /\ stack' = <<Resume(c)>> \o Tail(stack)
    /\ UNCHANGED <<runnable, pending, fiberIo, waitVars, markVars, loopVars,
                   completed>>

-----------------------------------------------------------------------------
(* What a running fiber does without suspending.                           *)

\* ev/spawn, and the spawn function ev/scope hands out, which also adds the
\* new fiber to the pool its own select waits over.
Spawn(f, g) ==
    /\ Running(f) /\ "spawn" \in Ops
    /\ st[g] = "none"
    /\ st' = [st EXCEPT ![g] = "new"]
    /\ runnable' = Append(runnable, g)
    /\ \/ UNCHANGED selectSets
       \/ \E w \in DOMAIN selectSets :
            selectSets' = [selectSets EXCEPT ![w] = @ \cup {g}]
    /\ UNCHANGED <<budget, ioVars, fiberPark, parkQueues, fiberJoin, waiters,
                   markVars, loopVars, forwarded, completed, stack>>

\* fiber/cancel or fiber/abort called by the program itself: the fiber ends by
\* a path the scheduler did not route.  A fiber that a fiber/abort ends is :dead
\* when its protect caught the error and it returned, :error otherwise.
KillFiber(f, g) ==
    /\ Running(f) /\ "kill" \in Ops
    /\ st[g] \in {"new", "paused"} /\ ~Busy(g)
    /\ "killWaiting" \in Careless \/ g \in DOMAIN fiberIo \cup Range(runnable)
    /\ "killLate" \in Careless \/ Serving
    /\ \/ st' = [st EXCEPT ![g] = "cancelled"]
       \/ st' = [st EXCEPT ![g] = "error"]
       \/ g \in Protected /\ st[g] = "paused" /\ st' = [st EXCEPT ![g] = "dead"]
    /\ UNCHANGED <<budget, runnable, ioVars, waitVars, markVars, loopVars,
                   forwarded, completed, stack>>

\* ev/shutdown
RequestShutdown(f) ==
    /\ Running(f) /\ "shutdown" \in Ops
    /\ budget[f] > 0
    /\ budget' = [budget EXCEPT ![f] = @ - 1]
    /\ shutdownReq' \in {"unbounded", "bounded"}
    /\ UNCHANGED <<st, runnable, ioVars, waitVars, markVars, killed,
                   loop, mode, forwarded, completed, stack>>

-----------------------------------------------------------------------------
(* The event loop: step, process-completions, do-shutdown and :pump.       *)

At(place) == loop = place /\ stack = <<>>

\* drain-runnable, one fiber: popped from the end, and guarded against a fiber
\* killed while it was queued.  Phase 2 of do-shutdown drains the same way.
DrainOne ==
    /\ loop \in {"drain", "unwindDrain"} /\ stack = <<>>
    /\ runnable # <<>>
    /\ LET f == Last(runnable)
           q == Front(runnable) IN
       IF IsDead(st[f]) \/ st[f] = "error"
       THEN CompleteFiber(f, Verdict(st[f]), q, <<>>)
       ELSE /\ runnable' = q
            /\ stack' = <<Resume(f)>>
            /\ UNCHANGED <<ioVars, waitVars, completed>>
    /\ UNCHANGED <<fiberVars, markVars, loopVars, forwarded>>

\* Nothing the loop could still be waiting for.
Idle == /\ DOMAIN pending = {} /\ DOMAIN waiters = {} /\ DOMAIN selectSets = {}
        /\ DOMAIN parkQueues = {} /\ DOMAIN forwarded = {}

\* do-shutdown starts: phase 1 works on a copy of pending.
BeginShutdown(bound) ==
    /\ shutdownReq' = bound
    /\ loop' = "shutdown"
    /\ stack' = <<AbortIo({<<id, pending[id]>> : id \in DOMAIN pending})>>

\* step, once the runnable queue is empty: :done, shutdown, or wait.
StepDecide ==
    /\ At("drain")
    /\ runnable = <<>>
    /\ \/ /\ Idle
          /\ loop' = "tail"
          /\ UNCHANGED <<stack, shutdownReq>>
       \/ /\ ~Idle /\ ShutdownAsked
          /\ BeginShutdown(shutdownReq)
       \/ /\ ~Idle /\ ~ShutdownAsked
          /\ loop' = "wait"
          /\ UNCHANGED <<stack, shutdownReq>>
    /\ UNCHANGED <<fiberVars, runnable, ioVars, waitVars, markVars, killed, mode,
                   forwarded, completed>>

\* io/wait answers with completions.  They leave the backend together.
IoWait(B) ==
    /\ At("wait")
    /\ B # {}
    /\ inflight' = inflight \ B
    /\ loop' = "after"
    /\ stack' = <<Completions(B, {})>>
    /\ UNCHANGED <<fiberVars, runnable, pending, fiberIo, waitVars, markVars,
                   killed, shutdownReq, mode, forwarded, completed>>

\* io/wait answers with nothing: the poll found nothing ready, or a wait with
\* no bound was ended by the completion of a cancelled operation.
IoWaitEmpty ==
    /\ At("wait")
    /\ loop' = "after"
    /\ UNCHANGED <<fiberVars, runnable, ioVars, waitVars, markVars, killed,
                   shutdownReq, mode, forwarded, completed, stack>>

\* process-completions, one completion of the batch: both halves of the
\* pairing go, and the fiber gets it only if it is still waiting.
RouteCompletion(id) ==
    /\ Top("completions") /\ id \in Head(stack).todo
    /\ LET K == Head(stack).keys
           rest == <<Completions(Head(stack).todo \ {id}, K)>> \o Tail(stack) IN
       IF id \in DOMAIN pending
       THEN LET f == pending[id] IN
            /\ DropPair(id, f)
            /\ \/ /\ Recorded(f)
                  /\ stack' = rest
                  /\ UNCHANGED <<runnable, waitVars, completed>>
               \/ /\ Unnoticed(f)
                  /\ BeginComplete(f, Verdict(st[f]), runnable, rest)
               \/ /\ ~Recorded(f) /\ ~Unnoticed(f)
                  /\ stack' \in {<<Resume(f)>> \o rest, <<Raise(f, FALSE)>> \o rest}
                  /\ UNCHANGED <<runnable, waitVars, completed>>
            /\ UNCHANGED forwarded
       ELSE /\ forwarded' = Del(forwarded, id)
            /\ stack' = IF id \in DOMAIN forwarded
                        THEN <<Completions(Head(stack).todo \ {id},
                                           K \cup {forwarded[id]})>> \o Tail(stack)
                        ELSE rest
            /\ UNCHANGED <<runnable, pending, fiberIo, waitVars, completed>>
    /\ UNCHANGED <<fiberVars, inflight, markVars, loopVars>>

\* Then it wakes every fiber parked on each forwarded key, and returns.
WakeForwarded ==
    /\ Top("completions") /\ Head(stack).todo = {}
    /\ \/ \E k \in Head(stack).keys :
            stack' = <<Wake(k, Array(parkQueues, k), Len(Array(parkQueues, k)), None),
                       Completions({}, Head(stack).keys \ {k})>> \o Tail(stack)
       \/ Head(stack).keys = {} /\ stack' = Tail(stack)
    /\ UNCHANGED <<fiberVars, runnable, ioVars, waitVars, markVars, loopVars,
                   forwarded, completed>>

\* :pump between its two steps: after the poll it tears the scheduler down if
\* the program's fibers have completed, and otherwise takes the blocking step.
PumpDecide ==
    /\ At("after")
    /\ IF mode = "poll" /\ Entry # {} /\ Entry \subseteq DOMAIN completed
       THEN BeginShutdown("bounded") /\ UNCHANGED mode
       ELSE /\ mode' = IF mode = "poll" THEN "block" ELSE "poll"
            /\ loop' = "drain"
            /\ UNCHANGED <<stack, shutdownReq>>
    /\ UNCHANGED <<fiberVars, runnable, ioVars, waitVars, markVars, killed,
                   forwarded, completed>>

\* do-shutdown phase 1, one fiber of the copy.
AbortIoOne ==
    /\ Top("abortIo")
    /\ \E p \in Head(stack).copy :
         /\ DropPair(p[1], p[2])
         /\ inflight' = inflight \ {p[1]}
         /\ killed' = killed \cup {p[2]}
         /\ stack' = <<Raise(p[2], TRUE), AbortIo(Head(stack).copy \ {p})>>
                     \o Tail(stack)
    /\ UNCHANGED <<fiberVars, runnable, waitVars, markVars, shutdownReq, loop,
                   mode, forwarded, completed>>

\* Phase 1b starts: every park queue is taken away at once (fiber-park stays).
TakeParkQueues ==
    /\ Top("abortIo") /\ Head(stack).copy = {}
    /\ parkQueues' = Empty
    /\ stack' = <<AbortParked(UNION {Range(parkQueues[k]) : k \in DOMAIN parkQueues})>>
                \o Tail(stack)
    /\ UNCHANGED <<fiberVars, runnable, ioVars, fiberPark, fiberJoin, waiters,
                   selectSets, markVars, loopVars, forwarded, completed>>

\* Phase 1b, one fiber; at the end phase 2, or phase 3 when there is no bound.
AbortParkedOne ==
    /\ Top("abortParked")
    /\ \/ \E f \in Head(stack).todo :
            /\ killed' = killed \cup {f}
            /\ stack' = <<Raise(f, TRUE), AbortParked(Head(stack).todo \ {f})>>
                        \o Tail(stack)
            /\ UNCHANGED loop
       \/ /\ Head(stack).todo = {}
          /\ stack' = Tail(stack)
          /\ loop' = IF shutdownReq = "bounded" THEN "unwind" ELSE "stragglers"
          /\ UNCHANGED killed
    /\ UNCHANGED <<fiberVars, runnable, ioVars, waitVars, markVars, shutdownReq,
                   mode, forwarded, completed>>

\* Phase 2, the head of its loop: there is work left and the bound has not
\* passed, or else phase 3 is next.
Unwind ==
    /\ At("unwind")
    /\ runnable # <<>> \/ DOMAIN pending # {}
    /\ loop' = "unwindDrain"
    /\ UNCHANGED <<fiberVars, runnable, ioVars, waitVars, markVars, killed,
                   shutdownReq, mode, forwarded, completed, stack>>

UnwindEnd ==
    /\ At("unwind")
    /\ loop' = "stragglers"
    /\ UNCHANGED <<fiberVars, runnable, ioVars, waitVars, markVars, killed,
                   shutdownReq, mode, forwarded, completed, stack>>

\* Phase 2, after the drain: it waits for completions when any is pending.
UnwindWait(B) ==
    /\ At("unwindDrain") /\ runnable = <<>>
    /\ DOMAIN pending = {} => B = {}
    /\ inflight' = inflight \ B
    /\ loop' = "unwind"
    /\ stack' = <<Unwinding(B)>>
    /\ UNCHANGED <<fiberVars, runnable, pending, fiberIo, waitVars, markVars,
                   killed, shutdownReq, mode, forwarded, completed>>

\* Phase 2, one completion: an error is dropped with the fiber still waiting.
UnwindCompletion ==
    /\ Top("unwinding")
    /\ LET todo == Head(stack).todo IN
       \/ \E id \in todo :
            LET rest == <<Unwinding(todo \ {id})>> \o Tail(stack) IN
            IF id \in DOMAIN pending
            THEN /\ DropPair(id, pending[id])
                 /\ stack' \in {<<Resume(pending[id])>> \o rest, rest}
            ELSE stack' = rest /\ UNCHANGED <<pending, fiberIo>>
       \/ todo = {} /\ stack' = Tail(stack) /\ UNCHANGED <<pending, fiberIo>>
    /\ UNCHANGED <<fiberVars, runnable, inflight, waitVars, markVars, loopVars,
                   forwarded, completed>>

\* Phase 3: the stragglers are cancelled without running any of their code.
CancelStragglers ==
    /\ At("stragglers")
    /\ LET P == {pending[id] : id \in DOMAIN pending}
           F == P \cup Range(runnable) IN
       /\ st' = [f \in Fibers |-> IF f \in F THEN AfterCancel(st[f]) ELSE st[f]]
       /\ killed' = killed \cup F
       /\ fiberIo' = [f \in DOMAIN fiberIo \ P |-> fiberIo[f]]
    /\ inflight' = inflight \ DOMAIN pending
    /\ pending' = Empty
    /\ runnable' = <<>>
    /\ loop' = "tail"
    /\ UNCHANGED <<budget, waitVars, markVars, shutdownReq, mode, forwarded,
                   completed, stack>>

\* The tail of :pump: choose the failure, forget every fiber, raise it.
PumpTail ==
    /\ At("tail")
    /\ loop' = IF Unjoined = {} THEN "returned" ELSE "raised"
    /\ runnable' = <<>> /\ pending' = Empty /\ fiberIo' = Empty
    /\ forwarded' = Empty /\ fiberPark' = Empty /\ parkQueues' = Empty
    /\ fiberJoin' = Empty /\ waiters' = Empty /\ selectSets' = Empty
    /\ completed' = Empty /\ joined' = {} /\ killed' = {}
    /\ UNCHANGED <<fiberVars, inflight, observed, shutdownReq, mode, stack>>

-----------------------------------------------------------------------------
\* ev/run: spawn the thunks and mark them; nothing else exists yet.
Init ==
    /\ st = [f \in Fibers |-> IF f \in Range(Start) THEN "new" ELSE "none"]
    /\ budget = [f \in Fibers |-> MaxOps]
    /\ runnable = Start
    /\ pending = Empty /\ fiberIo = Empty /\ inflight = {} /\ forwarded = Empty
    /\ fiberPark = Empty /\ parkQueues = Empty
    /\ fiberJoin = Empty /\ waiters = Empty /\ selectSets = Empty
    /\ completed = Empty /\ joined = Entry /\ observed = Entry /\ killed = {}
    /\ shutdownReq = "no" /\ loop = "drain" /\ mode = "poll" /\ stack = <<>>

\* A fiber that runs, up to the route its request gets.
FiberStep(f) ==
    \/ FiberReturn(f) \/ FiberError(f) \/ FiberYield(f)
    \/ SubmitIo(f) \/ RefuseIo(f)
    \/ \E t \in Spawned : HandleJoin(f, t) \/ HandleAbort(f, t)
    \/ \E S \in SUBSET Spawned \ {{}} : HandleSelect(f, S)
    \/ \E k \in Keys : HandlePark(f, k) \/ HandleIoForward(f, k)
    \/ \E k \in Keys, n \in 1..MaxWake : HandleNotify(f, k, n)
    \/ \E id \in Ids : HandleIoForwardCancel(f, id)
    \/ \E g \in Fibers : Spawn(f, g) \/ KillFiber(f, g)
    \/ RequestShutdown(f)

\* The scheduler going on with a function in progress.
HandlerStep ==
    \/ FiberResume \/ FiberAbort \/ CompleteJoins \/ CompleteSelects \/ WakeParked
    \/ (\E id \in Ids : RouteCompletion(id)) \/ WakeForwarded
    \/ AbortIoOne \/ TakeParkQueues \/ AbortParkedOne \/ UnwindCompletion

\* The loop itself, where it does not wait for the backend.
LoopStep ==
    \/ DrainOne \/ StepDecide \/ PumpDecide
    \/ Unwind \/ UnwindEnd \/ CancelStragglers \/ PumpTail

Next ==
    \/ \E f \in Fibers : FiberStep(f)
    \/ HandlerStep
    \/ LoopStep
    \/ \E B \in SUBSET inflight : IoWait(B) \/ UnwindWait(B)
    \/ IoWaitEmpty

Spec == Init /\ [][Next]_vars
=============================================================================
