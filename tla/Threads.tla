------------------------------- MODULE Threads ------------------------------
(***************************************************************************)
(* OS threads (src/primitives/concurrency/): a sys/spawn worker, its       *)
(* outcome slot, its kill switch and its completion channel, and sys/join, *)
(* which parks on that channel with chan/select (src/stdlib.lisp).         *)
(*                                                                         *)
(* A behaviour has a worker, whose completion channel is Done, or it has   *)
(* none and the channels carry ordinary traffic: the two share no channel. *)
(***************************************************************************)
EXTENDS Channel

CONSTANTS
    Worker,      \* the producer that is the worker thread
    Done,        \* its completion channel
    Joiners,     \* the fibers that join it
    Killers      \* the joiners that pass :kill true

ASSUME ThreadsAssumption ==
    /\ Worker \in Producers /\ Done \in Channels
    /\ Joiners \subseteq {s \in Selectors : Watch[s] = {Done}}
    /\ Killers \subseteq Joiners \cap Bounded

VARIABLES
    work,      \* where the worker thread is: "absent" when there is none
    result,    \* how its body ended, before it is stored
    slot,      \* the outcome slot; "none" until the worker stores
    pulled,    \* the kill switch
    join,      \* joiner -> where sys/join is
    joined     \* joiner -> what its last join answered

threadVars == <<work, result, slot, pulled, join, joined>>
allVars == <<vars, threadVars>>

Outcomes == {"ready", "failed", "killed"}

Init ==
    /\ work \in {"absent", "running"}
    /\ InitWith([p \in Producers |->
                   CASE work = "absent" /\ p # Worker -> Channels \ {Done}
                     [] work # "absent" /\ p = Worker -> {Done}
                     [] OTHER -> {}])
    /\ result = "none" /\ slot = "none"
    /\ pulled = FALSE
    /\ join = [s \in Joiners |-> "idle"]
    /\ joined = [s \in Joiners |-> "none"]

-----------------------------------------------------------------------------
(* The worker thread (spawn_closure_impl).                                 *)

\* A slip: the joiners are told before the outcome is stored.
TellsFirst(at) ==
    CASE at = "running" -> "signal" [] at = "signal" -> "store"
      [] at = "store" -> "finalize" [] at = "finalize" -> "ended"

\* The order of the thread's last acts.
After(at) ==
    CASE at = "running" -> "store" [] at = "store" -> "finalize"
      [] at = "finalize" -> "signal" [] at = "signal" -> "ended"

\* The body ends: with a value, on an error, killed at a charge site, or by a
\* panic, which leaves no outcome.  An error after the pull counts as the kill.
BodyEnds ==
    /\ work = "running"
    /\ result' \in {"ready", "none", IF pulled THEN "killed" ELSE "failed"}
    /\ work' = After(work)
    /\ UNCHANGED <<vars, slot, pulled, join, joined>>

StoreOutcome ==
    /\ work = "store"
    /\ slot' = result
    /\ work' = After(work)
    /\ UNCHANGED <<vars, result, pulled, join, joined>>

\* A panic left no outcome: its message is stored.
Finalize ==
    /\ work = "finalize"
    /\ slot' = IF slot = "none" THEN "failed" ELSE slot
    /\ work' = After(work)
    /\ UNCHANGED <<vars, result, pulled, join, joined>>

\* The sentinel, and the wake that Send begins.
SignalDone ==
    /\ work = "signal"
    /\ Send(Worker, Done)
    /\ work' = After(work)
    /\ UNCHANGED <<result, slot, pulled, join, joined>>

\* The closure returns: what it captured, the last sender among it, is dropped.
ThreadExits ==
    /\ work = "ended"
    /\ DropTx(Worker, Done)
    /\ work' = "gone"
    /\ UNCHANGED <<result, slot, pulled, join, joined>>

-----------------------------------------------------------------------------
(* The handle: sys/kill, sys/thread-state, sys/join.                       *)

Kill ==
    /\ work # "absent"
    /\ pulled' = TRUE
    /\ UNCHANGED <<vars, work, result, slot, join, joined>>

\* sys/join begins: sys/thread-state answers the outcome, or :pending.
Join(s) ==
    /\ work # "absent"
    /\ join[s] = "idle" /\ sel[s] = AtRest
    /\ IF slot # "none"
       THEN joined' = [joined EXCEPT ![s] = slot] /\ UNCHANGED join
       ELSE join' = [join EXCEPT ![s] = "pending"] /\ UNCHANGED joined
    /\ UNCHANGED <<vars, work, result, slot, pulled>>

\* ... and selects over the completion channel.
Await(s) ==
    /\ join[s] = "pending"
    /\ Ask(s)
    /\ join' = [join EXCEPT ![s] = "selecting"]
    /\ UNCHANGED <<work, result, slot, pulled, joined>>

\* What sys/join makes of the select's answer.
Settled(s) ==
    IF answer[s] \in {<<"timeout">>, <<"aborted">>, <<"error">>} THEN answer[s][1]
    ELSE IF slot = "none" THEN "vanished" ELSE slot

Settle(s) ==
    /\ join[s] = "selecting"
    /\ sel[s] = AtRest
    /\ joined' = [joined EXCEPT ![s] = Settled(s)]
    /\ pulled' = (pulled \/ (s \in Killers /\ answer[s] = <<"timeout">>))
    /\ join' = [join EXCEPT ![s] = "idle"]
    /\ UNCHANGED <<vars, work, result, slot>>

-----------------------------------------------------------------------------
WorkerStep == BodyEnds \/ StoreOutcome \/ Finalize \/ SignalDone \/ ThreadExits

Next ==
    \/ /\ work = "absent"
       /\ Traffic(Producers \ {Worker}, Selectors \ Joiners, Channels \ {Done})
       /\ UNCHANGED threadVars
    \/ Inside /\ UNCHANGED threadVars
    \/ WorkerStep \/ Kill
    \/ \E s \in Joiners : Join(s) \/ Await(s) \/ Settle(s)

\* A thread inside a primitive runs on, a readable descriptor ends its poll,
\* and a worker whose body has ended reports it.  Whether the body ends is up
\* to the program.
Fairness ==
    /\ \A p \in Producers : WF_allVars(WakeStep(p) /\ UNCHANGED threadVars)
    /\ \A s \in Selectors : WF_allVars(SelectStep(s) /\ UNCHANGED threadVars)
    /\ WF_allVars(StoreOutcome \/ Finalize \/ SignalDone \/ ThreadExits)
    /\ \A s \in Joiners : WF_allVars(Await(s) \/ Settle(s))

Spec == Init /\ [][Next]_allVars /\ Fairness
=============================================================================
