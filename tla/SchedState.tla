----------------------------- MODULE SchedState -----------------------------
(***************************************************************************)
(* The async scheduler: make-async-scheduler in src/stdlib.lisp.           *)
(*                                                                         *)
(* One OS thread runs the event loop and every fiber.  A handler resumes a *)
(* fiber by a plain call, so the fiber's own code, and the handler of the  *)
(* request it suspends on, run inside the loop that resumed it.  `stack`   *)
(* is that nesting: a sequence of frames, innermost first, each one the    *)
(* rest of a scheduler function that has resumed somebody and will go on   *)
(* when that returns.  `loop` says where the outermost function, :pump,    *)
(* is while `stack` is empty.                                              *)
(*                                                                         *)
(* A fiber's program is not modelled: a running fiber may make any request *)
(* the constant Ops allows, at most MaxOps of them, and then returns or    *)
(* fails.                                                                  *)
(***************************************************************************)
EXTENDS Naturals, FiniteSets, Tables, Fiber

CONSTANTS
    Fibers,       \* every fiber that can exist
    Start,        \* the fibers spawned before the pump starts, in order
    Entry,        \* the program's own fibers, marked by ev/run ({}: a bare pump)
    Protected,    \* fibers whose code has a protect or defer around every wait
    Keys,         \* futex keys
    Ids,          \* submission ids
    None,         \* no fiber
    Ops,          \* the requests programs make
    MaxOps,       \* bound: requests one fiber makes in its life
    MaxWake,      \* bound: the count of one ev/futex-wake
    Careless      \* what programs do that the scheduler does not guard against

AllOps == {"yield", "fail", "io", "submitfail", "denied", "join", "select",
           "abort", "park", "notify", "forward", "unforward", "spawn", "kill",
           "shutdown"}

\* "abortSelf"    a fiber aborts itself
\* "abortServed"  aborts a fiber while the scheduler is serving its request
\* "abortQueued"  aborts a fiber that yielded and waits for its turn
\* "abortLate"    aborts a fiber in a handler that the teardown runs
\* "selectSpent"  selects over a fiber whose failure was observed already
\* "killWaiting"  ends a fiber that is parked on a key, a join or a select
\* "killLate"     ends a fiber in a handler that the teardown runs
AllCareless == {"abortSelf", "abortServed", "abortQueued", "abortLate",
                "selectSpent", "killWaiting", "killLate"}

ASSUME SchedAssumption ==
    /\ Start \in Seq(Fibers) /\ Distinct(Start)
    /\ Entry \subseteq Fibers
    /\ Protected \subseteq Fibers
    /\ None \notin Fibers
    /\ Ops \subseteq AllOps
    /\ MaxOps \in Nat
    /\ MaxWake \in Nat
    /\ Careless \subseteq AllCareless

VARIABLES
    st,           \* fiber -> Status
    budget,       \* fiber -> requests it may still make
    runnable,     \* array: work the loop has yet to run
    pending,      \* id -> fiber
    fiberIo,      \* fiber -> id
    inflight,     \* ids the backend holds: submitted, not reaped, not cancelled
    forwarded,    \* id -> key (forwarded-pending: its :wake-key)
    fiberPark,    \* fiber -> key it is parked on
    parkQueues,   \* key -> array of parked fibers
    fiberJoin,    \* fiber -> fiber it joined
    waiters,      \* fiber -> array of fibers joining it
    selectSets,   \* fiber -> candidates it selects over
    completed,    \* fiber -> "ok" | "error"
    joined,       \* fibers whose result was observed (the mark)
    killed,       \* scheduler-killed
    shutdownReq,  \* "no" | "unbounded" | "bounded"
    loop,         \* where :pump is
    mode,         \* which of its two steps: "poll" (:timeout 0) or "block"
    stack,        \* the scheduler functions in progress, innermost first
    observed      \* history: fibers anybody ever joined or aborted

fiberVars == <<st, budget>>
ioVars    == <<pending, fiberIo, inflight>>
waitVars  == <<fiberPark, parkQueues, fiberJoin, waiters, selectSets>>
markVars  == <<joined, observed>>
loopVars  == <<killed, shutdownReq, loop, mode>>
vars == <<st, budget, runnable, pending, fiberIo, inflight, forwarded,
          fiberPark, parkQueues, fiberJoin, waiters, selectSets, completed,
          joined, killed, shutdownReq, loop, mode, stack, observed>>

-----------------------------------------------------------------------------
(* Frames: what a scheduler function still has to do.                      *)

\* (fiber/resume f v) and then route f.
Resume(f) == [at |-> "resume", fiber |-> f]
\* (fiber/abort f e) and then route f; do-shutdown wraps the abort in protect.
Raise(f, p) == [at |-> "raise", fiber |-> f, protect |-> p]
\* f is running its own code, entered by a resume or by an injected error.
Run(f, how) == [at |-> "run", fiber |-> f, how |-> how]
\* complete-fiber, in the loop over the join waiters of f.
Joins(f) == [at |-> "joins", target |-> f]
\* wake-select-waiters: the waiters of its copy not reached yet.
Selects(f, S) == [at |-> "selects", target |-> f, todo |-> S]
\* wake-parked: the candidates not reached yet, the permits left, and the
\* fiber handle-notify answers afterwards (None: process-completions called).
Wake(k, q, n, c) ==
    [at |-> "wake", key |-> k, todo |-> q, left |-> n, caller |-> c]
\* process-completions: completions not routed yet and keys to wake after.
Completions(B, K) == [at |-> "completions", todo |-> B, keys |-> K]
\* do-shutdown, phases 1, 1b and 2.
AbortIo(P) == [at |-> "abortIo", copy |-> P]
AbortParked(S) == [at |-> "abortParked", todo |-> S]
Unwinding(B) == [at |-> "unwinding", todo |-> B]

Frame ==
    [at : {"resume"}, fiber : Fibers]
    \cup [at : {"raise"}, fiber : Fibers, protect : BOOLEAN]
    \cup [at : {"run"}, fiber : Fibers, how : {"resume", "abort"}]
    \cup [at : {"joins"}, target : Fibers]
    \cup [at : {"selects"}, target : Fibers, todo : SUBSET Fibers]
    \cup [at : {"wake"}, key : Keys, todo : Seq(Fibers), left : Nat,
          caller : Fibers \cup {None}]
    \cup [at : {"completions"}, todo : SUBSET Ids, keys : SUBSET Keys]
    \cup [at : {"abortIo"}, copy : SUBSET (Ids \X Fibers)]
    \cup [at : {"abortParked"}, todo : SUBSET Fibers]
    \cup [at : {"unwinding"}, todo : SUBSET Ids]

\* The fiber a frame is going to resume, or is running.
Owner(fr) ==
    IF fr.at \in {"resume", "run"} THEN fr.fiber
    ELSE IF fr.at = "wake" THEN fr.caller
    ELSE None

\* The scheduler is in the middle of a request of f, or of resuming it.
Busy(f) == \E i \in 1..Len(stack) : Owner(stack[i]) = f

\* The submission ids a frame still names.
IdsOf(fr) ==
    IF fr.at \in {"completions", "unwinding"} THEN fr.todo
    ELSE IF fr.at = "abortIo" THEN {p[1] : p \in fr.copy}
    ELSE {}

\* The loop serves programs: it has not begun to tear anything down.
Serving == loop \in {"drain", "wait", "after"}

Top(at) == stack # <<>> /\ Head(stack).at = at

Spawned == {f \in Fibers : st[f] # "none"}
=============================================================================
