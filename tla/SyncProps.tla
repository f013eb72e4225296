----------------------------- MODULE SyncProps -----------------------------
(***************************************************************************)
(* What the synchronisation library must guarantee.                        *)
(***************************************************************************)
EXTENDS Sync

At(f, op, arg) == code[f] # <<>> /\ Head(code[f]) = <<op, arg>>
Holding == {f \in Fibers : At(f, "body", "held")}
Readers == {f \in Fibers : At(f, "body", "read")}
Writers == {f \in Fibers : At(f, "body", "write")}

\* Nobody but the fiber that acquired the lock or the monitor is in its section,
\* the semaphore admits as many as it has permits, and a writer is alone, even
\* when releases wake fibers that run inside the release and fibers are aborted
\* in the section or in the queue for it.
Exclusion ==
    /\ kind \in {"lock", "monitor"} => Cardinality(Holding) <= 1
    /\ kind = "semaphore" => Cardinality(Holding) <= Permits
    /\ Writers # {} => Readers = {} /\ Cardinality(Writers) = 1

\* Nobody is past the barrier before every fiber came to it, past the latch
\* before it opened, or past once:get before the thunk ended.
GatesHold ==
    \A f \in Fibers : At(f, "body", "passed") =>
        word["main"] = CASE kind = "barrier" -> Everyone
                         [] kind = "latch" -> 1
                         [] kind = "once" -> 2

\* Whether what the fiber waits for is there.
CanGo(f) ==
    LET op == Head(code[f])[1] IN
    IF op = "acquire" THEN word["main"] = 0
    ELSE IF op = "down" THEN word["main"] > 0
    ELSE CASE kind = "rwlock" -> rw = 0 \/ (rw > 0 /\ code[f][2][1] = "read")
           [] kind = "barrier" -> word["main"] = Everyone
           [] kind = "latch" -> word["main"] = 1
           [] kind = "once" -> word["main"] = 2
           [] kind = "queue" -> closed \/ (IF code[f][3][1] = "put" THEN Len(buf) < Cap ELSE buf # <<>>)
           [] OTHER -> FALSE

\* wake-futex-ready of the process scheduler would find nobody: it cannot step.
NobodyReady == host = "process" => \A f \in Fibers : \A x \in Waits(f) : ~Changed(f, x)

\* No wakeup is lost: when the scheduler runs no fiber and has nobody left to
\* wake, nobody is parked for something that is there, whatever was woken, woken
\* too early, barged in on or aborted meanwhile.
NoLostWakeup ==
    stack = <<>> /\ NobodyReady =>
        \A f \in Fibers : Waits(f) # {} /\ ~Ended(f) => ~CanGo(f)

-----------------------------------------------------------------------------
\* The call of the queue a fiber has not been answered.  It is answered where
\* it takes effect: what is left then are wakes and the release.
Wanted(f) ==
    LET W == {a \in {"put", "take", "close"} : \E i \in DOMAIN code[f] : code[f][i][1] = a} IN
    IF W = {} THEN "none" ELSE CHOOSE a \in W : TRUE

Queue == INSTANCE BoundedQueue WITH wants <- [f \in Fibers |-> Wanted(f)]

\* make-queue, with its lock, its two condition variables and their futexes,
\* is a bounded FIFO queue: an item comes out once and in order, nobody takes
\* from an empty queue or fills a full one, and a call that can be answered is.
ImplementsBoundedQueue == Queue!Spec
=============================================================================
