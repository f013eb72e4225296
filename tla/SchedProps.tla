----------------------------- MODULE SchedProps -----------------------------
(***************************************************************************)
(* What makes the async scheduler correct: the invariants docs/scheduler.md*)
(* states and the ones the code relies on without saying so.               *)
(***************************************************************************)
EXTENDS Sched

Loops == {"drain", "wait", "after", "shutdown", "unwind", "unwindDrain",
          "stragglers", "tail", "returned", "raised", "crashed"}

\* Every variable has its type.
TypeOK ==
    /\ st \in [Fibers -> Status]
    /\ budget \in [Fibers -> 0..MaxOps]
    /\ runnable \in Seq(Fibers)
    /\ IsTable(pending, Ids, Fibers)
    /\ IsTable(fiberIo, Fibers, Ids)
    /\ inflight \subseteq Ids
    /\ IsTable(forwarded, Ids, Keys)
    /\ IsTable(fiberPark, Fibers, Keys)
    /\ IsTable(parkQueues, Keys, Seq(Fibers))
    /\ IsTable(fiberJoin, Fibers, Fibers)
    /\ IsTable(waiters, Fibers, Seq(Fibers))
    /\ IsTable(selectSets, Fibers, SUBSET Fibers)
    /\ IsTable(completed, Fibers, {"ok", "error"})
    /\ joined \subseteq Fibers /\ observed \subseteq Fibers /\ killed \subseteq Fibers
    /\ shutdownReq \in {"no", "unbounded", "bounded"}
    /\ loop \in Loops
    /\ mode \in {"poll", "block"}
    /\ stack \in Seq(Frame)

\* The loop serves programs and is between two of its own actions.
Quiet == Serving /\ stack = <<>>

-----------------------------------------------------------------------------
(* Where a fiber waits.                                                    *)

Queued(f)    == f \in Range(runnable)
InIo(f)      == f \in DOMAIN fiberIo
Parked(f)    == \E k \in DOMAIN parkQueues : f \in Range(parkQueues[k])
Joining(f)   == f \in DOMAIN fiberJoin
Selecting(f) == f \in DOMAIN selectSets

\* w waits for t to end.
Waits(w, t) == \/ w \in DOMAIN fiberJoin /\ fiberJoin[w] = t
               \/ w \in DOMAIN selectSets /\ t \in selectSets[w]

\* The next act of the scheduler is to raise an error in f.
Raising(f)   == Top("raise") /\ Head(stack).fiber = f

\* A fiber is in one place at a time: in the runnable queue, waiting for one
\* operation, parked on one key, joining one fiber, in one select set, or held
\* by one scheduler function in progress.  In two, it is resumed by the one
\* while it waits for the other.  (docs/scheduler.md, An abort ends the wait.)
SingleWait ==
    /\ \A f \in Fibers :
         /\ Queued(f) => ~InIo(f) /\ ~Parked(f) /\ ~Joining(f) /\ ~Selecting(f) /\ ~Busy(f)
         /\ InIo(f) => ~Parked(f) /\ ~Joining(f) /\ ~Selecting(f) /\ ~Busy(f)
         /\ Parked(f) => ~Joining(f) /\ ~Selecting(f) /\ ~Busy(f)
         /\ Joining(f) => ~Selecting(f) /\ ~Busy(f)
         /\ Selecting(f) => ~Busy(f)
         /\ Raising(f) => ~InIo(f) /\ ~Parked(f) /\ ~Joining(f) /\ ~Selecting(f) /\ ~Busy(f)
    /\ Distinct(runnable)
    /\ \A k \in DOMAIN parkQueues : Distinct(parkQueues[k])
    /\ \A t \in DOMAIN waiters : Distinct(waiters[t])
    /\ \A i, j \in 1..Len(stack) :
         Owner(stack[i]) = Owner(stack[j]) /\ Owner(stack[i]) # None => i = j

\* The reverse lookups are sound, whatever programs do: the operation fiber-io
\* names is the fiber's own, so io/cancel never takes another fiber's away;
\* the list fiber-join names holds the fiber; and, until the teardown takes the
\* queues, so does the queue fiber-park names.  leave-waits and handle-abort
\* look nowhere else.
IoLookup == \A f \in DOMAIN fiberIo :
    fiberIo[f] \in DOMAIN pending /\ pending[fiberIo[f]] = f
JoinLookup == \A w \in DOMAIN fiberJoin :
    fiberJoin[w] \in DOMAIN waiters /\ w \in Range(waiters[fiberJoin[w]])
ParkLookup == Serving => \A w \in DOMAIN fiberPark :
    fiberPark[w] \in DOMAIN parkQueues /\ w \in Range(parkQueues[fiberPark[w]])
LookupsSound == IoLookup /\ JoinLookup /\ ParkLookup

\* The two halves of a submission stand and fall together: an id maps to the
\* fiber that asked, the fiber to the one id it waits on.  (docs/scheduler.md,
\* Completion delivery: "Both halves go away together".)
IoPaired ==
    /\ IoLookup
    /\ \A id \in DOMAIN pending :
         pending[id] \in DOMAIN fiberIo /\ fiberIo[pending[id]] = id

\* The waiter lists and fiber-join agree, and so do the park queues and
\* fiber-park: leave-waits finds a fiber exactly where it waits.
\* (docs/scheduler.md, Join waiters and select sets.)
WaitsPaired ==
    /\ JoinLookup /\ ParkLookup
    /\ \A t \in DOMAIN waiters : \A w \in Range(waiters[t]) :
         w \in DOMAIN fiberJoin /\ fiberJoin[w] = t
    /\ \A k \in DOMAIN parkQueues : \A w \in Range(parkQueues[k]) :
         w \in DOMAIN fiberPark /\ fiberPark[w] = k

\* An empty queue has no key, in either table, whenever step looks: a key that
\* outlives its last waiter keeps the loop from ever reporting :done.
EmptyQueueHasNoKey ==
    Quiet => /\ \A k \in DOMAIN parkQueues : parkQueues[k] # <<>>
             /\ \A t \in DOMAIN waiters : waiters[t] # <<>>

\* Only live fibers wait: one that ended is in no park queue, waiter list or
\* select set, where it would take a wake meant for a live one.
OnlyLiveWait ==
    \A f \in Fibers :
        Terminated(st[f]) => ~Parked(f) /\ ~Joining(f) /\ ~Selecting(f)

\* Nobody waits for a fiber the loop has finished with.  A joiner or selector
\* can outlive its target only while the loop has yet to notice the death of a
\* fiber the program killed itself, and it will: the fiber is still queued or
\* its operation still in flight.
NoStrandedWaiter ==
    Quiet =>
      LET Settled(t) == Terminated(st[t]) /\ ~Queued(t) /\ ~InIo(t)
      IN  \A w, t \in Fibers : Waits(w, t) => ~Settled(t)

\* A finished fiber is never resumed, and no error is injected into one:
\* fiber/resume restarts a fiber that failed and raises "cannot resume
\* completed fiber" out of the loop for one that is dead.
ResumesOnlyLive ==
    stack # <<>> /\ (Top("resume") \/ (Top("raise") /\ ~Head(stack).protect)) =>
        st[Head(stack).fiber] \in {"new", "paused"}

\* A fiber that has ended never runs again.  fiber/resume and fiber/abort would
\* both restart one that stopped on an error.
FinishedForGood == [][\A f \in Fibers : Terminated(st[f]) => Terminated(st'[f])]_vars

\* A completion record says what the fiber itself says, so the verdict a late
\* join re-derives after the record is gone is the one an early join was given.
\* (docs/scheduler.md, Completion records.)
VerdictAgrees ==
    \A f \in DOMAIN completed : Terminated(st[f]) /\ completed[f] = Verdict(st[f])

\* A finished fiber holds no operation, and no operation is without a reader:
\* what the backend still holds is what the tables still wait for.
OperationsOwned ==
    Quiet => inflight = DOMAIN pending \cup DOMAIN forwarded

\* The tail of :pump raises exactly the failures nobody observed: none is
\* swallowed, and none that a join or an abort observed comes back.
FailureAccounting ==
    At("tail") =>
        Unjoined = {f \in Fibers : Failed(st[f]) /\ f \notin observed \cup killed}

-----------------------------------------------------------------------------
(* Liveness.                                                               *)

\* The loop, its handlers and the fibers it runs keep taking steps; whether an
\* operation ever completes is up to the outside world.
LoopFairness ==
    /\ WF_vars((\E f \in Fibers : FiberStep(f)) \/ HandlerStep \/ LoopStep)
    /\ WF_vars(mode = "poll" /\ IoWaitEmpty)
    /\ WF_vars(UnwindWait({}))
    /\ SF_vars(UnwindEnd)

\* Every operation in flight completes in the end, and a wait hands it out.
BackendFairness ==
    \A id \in Ids : SF_vars(\E B \in SUBSET inflight : id \in B /\ IoWait(B))

FairSpec == Spec /\ LoopFairness

Ended == loop \in {"returned", "raised", "crashed"}

\* A shutdown that was asked for, by ev/shutdown or by :pump when the program
\* was done, ends the pump, whatever the operations in flight do.
ShutdownHonoured == (shutdownReq # "no") ~> Ended

\* A fiber that waits for another, by ev/join or ev/select, is answered once
\* that one has ended, by whatever path it ended, if operations complete.
WaitAnswered ==
    BackendFairness =>
        \A w, t \in Fibers :
            (Waits(w, t) /\ Terminated(st[t])) ~> ~Waits(w, t)

\* A child scheduler that parks on the wake key of an operation it forwarded is
\* woken when the operation completes.  (It may have parked again since.)
ForwardAnswered ==
    BackendFairness =>
        \A w \in Fibers, id \in Ids :
            (w \in DOMAIN fiberPark /\ id \in DOMAIN forwarded /\ forwarded[id] = fiberPark[w])
                ~> (w \notin DOMAIN fiberPark)
=============================================================================
