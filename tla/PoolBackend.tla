----------------------------- MODULE PoolBackend ----------------------------
(***************************************************************************)
(* The thread-pool platform of the async I/O backend: the crew of worker   *)
(* threads (src/io/threadpool/pool.rs), the hub they report through        *)
(* (threadpool/hub.rs), the table of operations in flight (pending.rs) and *)
(* what the scheduler drives them with (aio/poll.rs, aio/drain.rs).        *)
(*                                                                         *)
(* One main thread submits, cancels, waits and tears down; `main` says     *)
(* where it is.  Every worker is a thread of its own.  An action is what a *)
(* thread does under one lock, or between two.                             *)
(***************************************************************************)
EXTENDS Naturals, FiniteSets, Tables

CONSTANTS
    Jobs,         \* submission ids; each is minted once
    Workers,      \* threads the OS can start (bound: their number)
    Piped,        \* operations submitted with a stop pipe
    Endless,      \* operations that may wait for an event that never happens
    Keepalive,    \* TRUE: the keepalive is not zero
    MaxWaits,     \* receives a teardown makes at most (64 in the code)
    None

ASSUME PoolAssumption ==
    /\ Piped \subseteq Jobs
    /\ Endless \subseteq Jobs
    /\ Keepalive \in BOOLEAN
    /\ MaxWaits \in Nat
    /\ None \notin Jobs \cup Workers

VARIABLES
    pc,           \* worker -> where its thread is
    job,          \* worker -> the job it runs or has the result of
    slot,         \* worker -> the job left for it
    slotClosed,   \* workers whose slot the pool closed
    parked,       \* array: the posted handoffs, most recently parked last
    closed,       \* the pool is gone
    main,         \* where the main thread is
    hand,         \* the worker and the job of a claim not filled yet
    minted,       \* ids handed out
    entries,      \* ids with an entry in the pending table
    cancelled,    \* ids no fiber will receive a result for
    stopAsked,    \* ids the sweep reported
    gone,         \* entries whose asking fiber has ended
    stops,        \* ids whose stop pipe the hub holds
    told,         \* ids whose stop pipe has a byte in it
    channel,      \* array: completions published and not received
    inFlight,     \* the hub's count
    awaited,      \* the operations a teardown waits for
    waits,        \* receives the teardown has made
    lapsed        \* history: a receive of the teardown timed out

crewVars  == <<pc, job, slot, slotClosed, parked, closed>>
tableVars == <<entries, cancelled, stopAsked, stops, told, inFlight>>
restVars  == <<awaited, waits, lapsed>>
vars == <<pc, job, slot, slotClosed, parked, closed, main, hand, minted,
          entries, cancelled, stopAsked, gone, stops, told, channel, inFlight,
          awaited, waits, lapsed>>

NoClaim == [worker |-> None, job |-> None]

-----------------------------------------------------------------------------
(* The worker threads: Crew::work and Crew::next_job.                      *)

\* The operation runs to its result, and next_job takes the lock: it posts the
\* worker's handoff, or goes to retire when there is no reuse or no pool.
FinishJob(w) ==
    /\ pc[w] = "running"
    /\ IF Keepalive /\ ~closed
       THEN /\ parked' = Append(parked, w)
            /\ pc' = [pc EXCEPT ![w] = "publishing"]
       ELSE /\ pc' = [pc EXCEPT ![w] = "leaving"]
            /\ UNCHANGED parked
    /\ UNCHANGED <<job, slot, slotClosed, closed, main, hand, minted, gone,
                   channel, tableVars, restVars>>

\* publish_completion: a send nobody can receive any more is dropped.
Publish(w) ==
    /\ pc[w] \in {"publishing", "leaving"}
    /\ channel' = IF main = "dropped" THEN channel ELSE Append(channel, job[w])
    /\ job' = [job EXCEPT ![w] = None]
    /\ pc' = [pc EXCEPT ![w] = IF pc[w] = "publishing" THEN "waiting" ELSE "retired"]
    /\ UNCHANGED <<slot, slotClosed, parked, closed, main, hand, minted, gone,
                   tableVars, restVars>>

\* A slip: the worker reads the job and leaves it there.
LeavesJob(w) == UNCHANGED slot

\* state.job.take()
EmptySlot(w) == slot' = [slot EXCEPT ![w] = None]

\* Slot::wait and Slot::wait_committed find a job.
TakeJob(w) ==
    /\ pc[w] \in {"waiting", "committed"}
    /\ slot[w] # None
    /\ job' = [job EXCEPT ![w] = slot[w]]
    /\ EmptySlot(w)
    /\ pc' = [pc EXCEPT ![w] = "running"]
    /\ UNCHANGED <<slotClosed, parked, closed, main, hand, minted, gone,
                   channel, tableVars, restVars>>

\* Slot::wait ends without one: the keepalive elapsed, or the slot is closed.
WaitEnds(w) ==
    /\ pc[w] = "waiting"
    /\ slot[w] = None
    /\ pc' = [pc EXCEPT ![w] = "expired"]
    /\ UNCHANGED <<job, slot, slotClosed, parked, closed, main, hand, minted,
                   gone, channel, tableVars, restVars>>

\* A slip: the worker retires whether its handoff is still posted or not.
AlwaysWithdraws(w) == TRUE

\* The worker's handoff is still in the list.
Posted(w) == w \in Range(parked)

\* retire_or_wait: retire by withdrawing the handoff, or wait on for the job of
\* the submission that took it.
RetireOrWait(w) ==
    /\ pc[w] = "expired"
    /\ IF Posted(w)
       THEN /\ parked' = LeaveArray(parked, w)
            /\ pc' = [pc EXCEPT ![w] = "retired"]
       ELSE /\ pc' = [pc EXCEPT ![w] = "committed"]
            /\ UNCHANGED parked
    /\ UNCHANGED <<job, slot, slotClosed, closed, main, hand, minted, gone,
                   channel, tableVars, restVars>>

\* Slot::wait_committed finds the slot closed.
CommittedEnds(w) ==
    /\ pc[w] = "committed"
    /\ slot[w] = None
    /\ w \in slotClosed
    /\ pc' = [pc EXCEPT ![w] = "retired"]
    /\ UNCHANGED <<job, slot, slotClosed, parked, closed, main, hand, minted,
                   gone, channel, tableVars, restVars>>

-----------------------------------------------------------------------------
(* The main thread: submissions.                                           *)

\* CompletionHub::bounds opens the stop pipe before the job is submitted.
OpenPipe(j) == stops' = stops \cup ({j} \cap Piped)

\* What follows once a worker has the job: note_submit and PendingTable::insert.
Accept(j) ==
    /\ inFlight' = inFlight + 1
    /\ entries' = entries \cup {j}

\* mint_id
Mint(j) == main = "idle" /\ j \in Jobs \ minted /\ minted' = minted \cup {j}

\* WorkerPool::run, a worker is parked: claim_parked takes the warmest.
ClaimParked(j) ==
    /\ Mint(j)
    /\ parked # <<>>
    /\ hand' = [worker |-> Last(parked), job |-> j]
    /\ parked' = Front(parked)
    /\ main' = "claimed"
    /\ OpenPipe(j)
    /\ UNCHANGED <<pc, job, slot, slotClosed, closed, gone, channel, entries,
                   cancelled, stopAsked, told, inFlight, restVars>>

\* Slot::fill, and the submission is done.
Fill ==
    /\ main = "claimed"
    /\ slot' = [slot EXCEPT ![hand.worker] = hand.job]
    /\ Accept(hand.job)
    /\ hand' = NoClaim
    /\ main' = "idle"
    /\ UNCHANGED <<pc, job, slotClosed, parked, closed, minted, gone, channel,
                   cancelled, stopAsked, stops, told, restVars>>

\* WorkerPool::run, nobody is parked: start_worker.
StartWorker(j, w) ==
    /\ Mint(j)
    /\ parked = <<>>
    /\ pc[w] = "unborn"
    /\ pc' = [pc EXCEPT ![w] = "running"]
    /\ job' = [job EXCEPT ![w] = j]
    /\ Accept(j)
    /\ OpenPipe(j)
    /\ UNCHANGED <<slot, slotClosed, parked, closed, main, hand, gone, channel,
                   cancelled, stopAsked, told, restVars>>

\* A slip: a refused submission leaves the write end of its pipe open.
KeepsPipe(j) == OpenPipe(j)

\* forget_stop: the pipe goes with the job that never ran.
ForgetStop(j) == stops' = stops \ {j}

\* The OS refuses the thread.
RefuseThread(j) ==
    /\ Mint(j)
    /\ parked = <<>>
    /\ ForgetStop(j)
    /\ UNCHANGED <<crewVars, main, hand, gone, channel, entries, cancelled,
                   stopAsked, told, inFlight, restVars>>

-----------------------------------------------------------------------------
(* The main thread: cancels and waits.                                     *)

\* AsyncBackend::cancel: ask the operation to stop, and mark its entry.
Cancel(id) ==
    /\ main = "idle"
    /\ id \in minted
    /\ told' = told \cup ({id} \cap stops)
    /\ cancelled' = cancelled \cup ({id} \cap entries)
    /\ UNCHANGED <<crewVars, main, hand, minted, gone, channel, entries,
                   stopAsked, stops, inFlight, restVars>>

\* The fiber that asked ends by a path the scheduler did not route.
AskerEnds(id) ==
    /\ main = "idle"
    /\ id \in entries \ gone
    /\ gone' = gone \cup {id}
    /\ UNCHANGED <<crewVars, main, hand, minted, channel, tableVars, restVars>>

\* A slip: nobody sweeps.
AsksNobody(E) == {}

\* orphaned_to_stop, over the entries E a drain has left.
OrphanedToStop(E) == {id \in E \cap gone : id \notin cancelled \cup stopAsked}

\* What a drain answers the scheduler with (PendingTable::take: Live, Orphaned).
Answers == (Range(channel) \cap entries) \ cancelled

\* A slip: a completion nobody reads is not counted.
CountsAnswers(n) == inFlight' = IF inFlight >= Cardinality(Answers)
                                THEN inFlight - Cardinality(Answers) ELSE 0

\* drain_raw counts one down for each completion, and never below zero.
CountDown(n) == inFlight' = IF inFlight >= n THEN inFlight - n ELSE 0

\* drain_ready: drain_hub takes every completion there is, and stop_orphaned
\* then asks every operation without a reader to stop.
DrainReady ==
    LET taken == Range(channel)
        left == entries \ taken
        asked == OrphanedToStop(left) IN
    /\ channel' = <<>>
    /\ CountDown(Len(channel))
    /\ entries' = left
    /\ stops' = stops \ taken
    /\ cancelled' = cancelled \ taken
    /\ stopAsked' = (stopAsked \ taken) \cup asked
    /\ told' = (told \ taken) \cup (asked \cap stops)
    /\ gone' = gone \ taken
    /\ UNCHANGED <<crewVars, hand, minted, restVars>>

\* AsyncBackend::poll, and a wait that ends at its first drain.
Poll == main = "idle" /\ DrainReady /\ UNCHANGED main

\* AsyncBackend::wait finds nothing to answer, and blocks while a worker is out.
WaitBlocks ==
    /\ main = "idle"
    /\ DrainReady
    /\ Answers = {} /\ inFlight' > 0
    /\ main' = "blocked"

\* recv_blocking receives; the drain that follows takes the rest.
Receive == main = "blocked" /\ channel # <<>> /\ DrainReady /\ main' = "idle"

\* recv_blocking times out: the caller named a bound.
ReceiveTimesOut == main = "blocked" /\ DrainReady /\ main' = "idle"

-----------------------------------------------------------------------------
(* The main thread: the end of the backend.                                *)

\* quiesce_workers: stop every operation that has a pipe and an entry.
Quiesce ==
    /\ main = "idle"
    /\ awaited' = stops \cap entries
    /\ IF awaited' = {}
       THEN main' = "rest" /\ UNCHANGED <<cancelled, told>>
       ELSE /\ main' = "quiesce"
            /\ cancelled' = cancelled \cup entries
            /\ told' = told \cup awaited'
    /\ UNCHANGED <<crewVars, hand, minted, gone, channel, entries, stopAsked,
                   stops, inFlight, waits, lapsed>>

\* A slip: one receive is taken for all.
ReceivesOnce == waits = 0 /\ awaited \cap entries # {}

QuiesceLoops == waits < MaxWaits /\ awaited \cap entries # {}

\* One turn of its loop: a receive of at most 50 ms.
QuiesceReceive ==
    /\ main = "quiesce"
    /\ QuiesceLoops
    /\ waits' = waits + 1
    /\ \/ /\ channel # <<>>
          /\ channel' = Tail(channel)
          /\ CountDown(1)
          /\ entries' = entries \ {Head(channel)}
          /\ stops' = stops \ {Head(channel)} /\ told' = told \ {Head(channel)}
          /\ cancelled' = cancelled \ {Head(channel)}
          /\ stopAsked' = stopAsked \ {Head(channel)} /\ gone' = gone \ {Head(channel)}
          /\ UNCHANGED lapsed
       \/ /\ channel = <<>>
          /\ lapsed' = TRUE
          /\ UNCHANGED <<channel, gone, tableVars>>
    /\ UNCHANGED <<crewVars, main, hand, minted, awaited>>

QuiesceEnds ==
    /\ main = "quiesce"
    /\ ~QuiesceLoops
    /\ main' = "rest"
    /\ UNCHANGED <<crewVars, hand, minted, gone, channel, tableVars, restVars>>

\* A slip: the handoffs go, and the workers waiting behind them are not told.
SetsFlag == closed' = TRUE /\ UNCHANGED slotClosed

\* The flag, for the workers still running, and every parked worker's slot.
ClosePool == slotClosed' = slotClosed \cup Range(parked) /\ closed' = TRUE

\* The drops of WorkerPool and CompletionHub.
Drop ==
    /\ main = "rest"
    /\ ClosePool
    /\ parked' = <<>>
    /\ stops' = {}
    /\ main' = "dropped"
    /\ UNCHANGED <<pc, job, slot, hand, minted, gone, channel, entries,
                   cancelled, stopAsked, told, inFlight, restVars>>

-----------------------------------------------------------------------------
Init ==
    /\ pc = [w \in Workers |-> "unborn"]
    /\ job = [w \in Workers |-> None]
    /\ slot = [w \in Workers |-> None]
    /\ slotClosed = {} /\ parked = <<>> /\ closed = FALSE
    /\ main = "idle" /\ hand = NoClaim /\ minted = {}
    /\ entries = {} /\ cancelled = {} /\ stopAsked = {} /\ gone = {}
    /\ stops = {} /\ told = {} /\ channel = <<>> /\ inFlight = 0
    /\ awaited = {} /\ waits = 0 /\ lapsed = FALSE

\* What a worker does once its operation has ended.
CrewStep(w) ==
    Publish(w) \/ TakeJob(w) \/ WaitEnds(w) \/ RetireOrWait(w) \/ CommittedEnds(w)

Next ==
    \/ \E w \in Workers : FinishJob(w) \/ CrewStep(w)
    \/ \E j \in Jobs :
         \/ ClaimParked(j) \/ RefuseThread(j) \/ Cancel(j) \/ AskerEnds(j)
         \/ \E w \in Workers : StartWorker(j, w)
    \/ Fill \/ Poll \/ WaitBlocks \/ Receive \/ ReceiveTimesOut
    \/ Quiesce \/ QuiesceReceive \/ QuiesceEnds \/ Drop

Spec == Init /\ [][Next]_vars

\* A thread that can take a step takes it; an operation ends unless it waits
\* for an event that never happens and nobody told it to stop; and the main
\* thread finishes what it began and comes back for completions.
Ends(w) == job[w] \in Endless => job[w] \in told
Fairness ==
    /\ \A w \in Workers : WF_vars(CrewStep(w)) /\ WF_vars(Ends(w) /\ FinishJob(w))
    /\ WF_vars(Fill \/ Receive \/ QuiesceReceive \/ QuiesceEnds \/ Drop)
    /\ WF_vars(Poll \/ WaitBlocks)

FairSpec == Spec /\ Fairness
=============================================================================
