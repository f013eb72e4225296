------------------------------ MODULE PoolProps -----------------------------
(***************************************************************************)
(* What makes the thread-pool backend correct.                             *)
(***************************************************************************)
EXTENDS PoolBackend

\* Every variable has its type.
PoolTypeOK ==
    /\ pc \in [Workers -> {"unborn", "running", "publishing", "leaving",
                           "waiting", "expired", "committed", "retired"}]
    /\ job \in [Workers -> Jobs \cup {None}]
    /\ slot \in [Workers -> Jobs \cup {None}]
    /\ slotClosed \subseteq Workers
    /\ parked \in Seq(Workers)
    /\ closed \in BOOLEAN
    /\ main \in {"idle", "claimed", "blocked", "quiesce", "rest", "dropped"}
    /\ hand \in [worker : Workers \cup {None}, job : Jobs \cup {None}]
    /\ channel \in Seq(Jobs)
    /\ inFlight \in Nat /\ waits \in Nat
    /\ minted \subseteq Jobs /\ entries \subseteq Jobs /\ cancelled \subseteq Jobs
    /\ stopAsked \subseteq Jobs /\ gone \subseteq Jobs /\ stops \subseteq Jobs
    /\ told \subseteq Jobs /\ awaited \subseteq Jobs
    /\ lapsed \in BOOLEAN

\* Where a job can be between its submission and the receipt of its completion.
Claimed(j) == main = "claimed" /\ hand.job = j
Left(w, j) == slot[w] = j
Held(w, j) == job[w] = j
Sent(j)    == j \in Range(channel)

\* A job handed to a parked worker is never stranded: a worker somebody has
\* claimed, or left a job for, is still there to take it, and no second
\* submission can reach it meanwhile.  (pool.rs, retire_or_wait: "leaving would
\* strand it"; Slot::fill: "The slot is empty by construction".)
NoStrandedJob ==
    /\ \A w \in Workers :
         (main = "claimed" /\ hand.worker = w) \/ slot[w] # None =>
             /\ pc[w] \in {"publishing", "waiting", "expired", "committed"}
             /\ w \notin Range(parked)
             /\ w \notin slotClosed
    /\ main = "claimed" => hand.worker \in Workers /\ slot[hand.worker] = None

\* Every operation in flight is in exactly one place, with one thread: it runs
\* once, and its completion is sent once.
JobInOnePlace ==
    /\ Distinct(channel)
    /\ \A j \in Jobs :
        /\ \A v, w \in Workers :
             /\ Left(v, j) => ~Held(w, j) /\ ~Sent(j) /\ ~Claimed(j) /\ (Left(w, j) => v = w)
             /\ Held(v, j) => ~Sent(j) /\ ~Claimed(j) /\ (Held(w, j) => v = w)
        /\ Sent(j) => ~Claimed(j)

\* The hub's count is the number of operations submitted and not reaped, so a
\* wait blocks exactly while one is out and io/workers tells the truth.
InFlightExact == main # "dropped" => inFlight = Cardinality(entries)

\* A stop pipe is open exactly as long as its operation is in flight: no
\* descriptor outlives its operation, refused submissions included.
PipesOwned == stops \subseteq entries \cup (IF main = "claimed" THEN {hand.job} ELSE {})

\* A wait that blocks has asked every operation without a reader to stop, so it
\* does not wait for an event nobody is left to cause.  (docs/impl/io-inflight.md,
\* Ending an operation whose fiber is gone.)
BlocksForReaders ==
    main = "blocked" => \A j \in entries \cap stops : j \in gone \cup cancelled => j \in told

\* Once the backend is at rest no worker runs an operation that addresses a
\* region of the heap, which is freed next; only a receive that timed out
\* excuses it.  (docs/impl/io-bytes.md, A worker that addresses a region is
\* waited for at teardown.)
RestIsQuiet ==
    main = "rest" /\ ~lapsed =>
        \A w \in Workers : pc[w] = "running" => job[w] \notin Piped

-----------------------------------------------------------------------------
\* An operation that ends by itself, or that nobody reads and can be stopped,
\* is reaped while the backend serves.
OperationReaped ==
    \A j \in Jobs :
        (j \in entries /\ (j \notin Endless \/ j \in stops \cap (gone \cup cancelled)))
            ~> (j \notin entries \/ main \in {"rest", "dropped"})

\* Dropping the backend winds the crew down: every worker retires, unless it
\* runs an operation that never ends and that nobody could stop.
CrewWindsDown ==
    (main = "dropped") ~>
        (\A w \in Workers : pc[w] \in {"unborn", "retired"} \/ (pc[w] = "running" /\ ~Ends(w)))
=============================================================================
