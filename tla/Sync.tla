-------------------------------- MODULE Sync --------------------------------
(***************************************************************************)
(* The synchronisation library (lib/sync.lisp): locks, semaphores,         *)
(* condition variables, read-write locks, barriers, latches, once cells,   *)
(* queues and monitors, all over one futex.                                *)
(*                                                                         *)
(* A fiber runs until it makes a request, so everything between two        *)
(* requests is one action.  `code` is what a fiber has left to do of the   *)
(* operation it is in, `stack` the nesting of the scheduler that runs it:  *)
(* ev/futex-wake resumes the woken fibers inside the waker's request, and  *)
(* ev/abort the aborted one inside the aborter's (src/stdlib.lisp,         *)
(* handle-notify and handle-abort).                                        *)
(*                                                                         *)
(* An initial state picks which object the fibers share.                   *)
(***************************************************************************)
EXTENDS Integers, FiniteSets, Tables

CONSTANTS
    Fibers,
    Kinds,        \* the objects to look at
    Permits,      \* the semaphore's permits
    Cap,          \* the queue's capacity
    MaxOps,       \* bound: operations one fiber makes
    MaxAborts,    \* bound: aborts
    AbortsWaits,  \* TRUE: a fiber may be aborted inside a condition wait
    Hosted        \* the objects to look at among the sub-fibers of a process too

AllKinds == {"lock", "semaphore", "rwlock", "barrier", "latch", "once", "queue",
             "monitor"}

ASSUME SyncAssumption ==
    /\ IsFiniteSet(Fibers)
    /\ Kinds \subseteq AllKinds /\ Hosted \subseteq AllKinds
    /\ Permits \in Nat /\ Cap \in Nat \ {0} /\ MaxOps \in Nat \ {0} /\ MaxAborts \in Nat
    /\ AbortsWaits \in BOOLEAN

VARIABLES
    kind,     \* the object the fibers share
    host,     \* who serves its waits: the "loop" of ev/run or a "process" scheduler
    word,     \* futex -> its value
    parked,   \* futex -> the fibers parked on it, oldest first
    rw,       \* the read-write lock's state: readers, or -1
    buf,      \* the queue's items
    closed,   \* the queue was closed
    code,     \* fiber -> the instructions left in its operation
    mem,      \* fiber -> the value it read before it waits
    got,      \* fiber -> what its last take answered
    budget,   \* fiber -> operations it may still begin
    aborts,   \* aborts left
    stack     \* who runs, innermost first

vars == <<kind, host, word, parked, rw, buf, closed, code, mem, got, budget, aborts, stack>>
dataVars == <<rw, buf, closed, got>>
restVars == <<kind, host, budget, aborts>>

\* "main" is the futex of the lock and of every object that has just one; "cv"
\* is the monitor's condition, "full" and "empty" the queue's.
Futexes == {"main", "cv", "full", "empty"}
Everyone == Cardinality(Fibers)

Init ==
    /\ kind \in Kinds
    /\ host \in {"loop"} \cup {h \in {"process"} : kind \in Hosted}
    /\ word = [x \in Futexes |-> IF x = "main" /\ kind = "semaphore" THEN Permits ELSE 0]
    /\ parked = [x \in Futexes |-> <<>>]
    /\ rw = 0 /\ buf = <<>> /\ closed = FALSE
    /\ code = [f \in Fibers |-> <<>>]
    /\ mem = [f \in Fibers |-> 0]
    /\ got = [f \in Fibers |-> <<>>]
    /\ budget = [f \in Fibers |-> MaxOps]
    /\ aborts = MaxAborts
    /\ stack = <<>>

-----------------------------------------------------------------------------
(* The futex: ev/futex-wait and ev/futex-wake as the scheduler serves them.*)

Run(f) == [at |-> "run", fiber |-> f]
Running(f) == stack # <<>> /\ Head(stack) = Run(f)
Doing(f, op) == Running(f) /\ code[f] # <<>> /\ Head(code[f])[1] = op

Waits(f) == {x \in Futexes : \E i \in DOMAIN parked[x] : parked[x][i] = f}

\* The value a parked fiber expects: the lock's and the semaphore's acquire
\* park on what they have just found there.
Expects(f) == IF code[f] = <<>> THEN mem[f]
              ELSE CASE Head(code[f])[1] = "acquire" -> 1
                     [] Head(code[f])[1] = "down" -> 0
                     [] OTHER -> mem[f]
Changed(f, x) == word[x] # Expects(f)
\* An aborted fiber has run its handlers.
Ended(f) == code[f] = <<>>

\* The fiber goes on with c.
Goto(f, c) == code' = [code EXCEPT ![f] = c]
Go(f) == Goto(f, Tail(code[f]))

Set(x, v) == word' = [word EXCEPT ![x] = v]

Park(f, x) ==
    /\ parked' = [parked EXCEPT ![x] = Append(@, f)]
    /\ stack' = Tail(stack)

\* A wake in progress: its candidates are the fibers parked when it starts.
\* The process scheduler takes them all out of the bucket meanwhile and puts
\* those it passes over back (`keep`).
WakeFrame(x, n) == [at |-> "wake", x |-> x, todo |-> parked[x], left |-> n, keep |-> <<>>]

Wake(x, n) ==
    IF parked[x] = <<>> THEN UNCHANGED <<parked, stack>>
    ELSE /\ stack' = <<WakeFrame(x, n)>> \o stack
         /\ parked' = IF host = "process" THEN [parked EXCEPT ![x] = <<>>] ELSE parked

\* handle-notify of the loop, one candidate: a fiber that left the bucket
\* meanwhile is passed over, one that did not runs before the next is reached.
LoopWakes(fr) ==
    /\ host = "loop"
    /\ IF fr.todo = <<>> \/ fr.left = 0
       THEN stack' = Tail(stack) /\ UNCHANGED parked
       ELSE LET g == Head(fr.todo)
                rest == [fr EXCEPT !.todo = Tail(@)] IN
            IF fr.x \in Waits(g)
            THEN /\ parked' = [parked EXCEPT ![fr.x] = LeaveArray(@, g)]
                 /\ stack' = <<Run(g), [rest EXCEPT !.left = @ - 1]>> \o Tail(stack)
            ELSE stack' = <<rest>> \o Tail(stack) /\ UNCHANGED parked

\* wake-parked of the process scheduler, one candidate.  An aborted fiber is
\* still in the bucket, and counts.  left = -1 picks the fibers whose word has
\* changed.
ProcessWakes(fr) ==
    /\ host = "process"
    /\ IF fr.todo = <<>>
       THEN /\ parked' = [parked EXCEPT ![fr.x] = fr.keep \o @]
            /\ stack' = Tail(stack)
       ELSE LET g == Head(fr.todo)
                rest == [fr EXCEPT !.todo = Tail(@)]
                picked == IF fr.left = -1 THEN Changed(g, fr.x) ELSE fr.left > 0
                runs == IF Ended(g) THEN <<>> ELSE <<Run(g)>> IN
            /\ stack' = (IF picked THEN runs \o <<[rest EXCEPT !.left = IF @ > 0 THEN @ - 1 ELSE @]>>
                         ELSE <<[rest EXCEPT !.keep = Append(@, g)]>>) \o Tail(stack)
            /\ UNCHANGED parked

WakeNext ==
    /\ stack # <<>> /\ Head(stack).at = "wake"
    /\ LoopWakes(Head(stack)) \/ ProcessWakes(Head(stack))
    /\ UNCHANGED <<dataVars, restVars, word, code, mem>>

\* wake-futex-ready of the process scheduler, once a round: a fiber whose word
\* has changed runs without anybody having woken it.
WakeReady ==
    /\ host = "process"
    /\ stack = <<>>
    /\ \E x \in Futexes :
          /\ \E f \in Fibers : x \in Waits(f) /\ Changed(f, x)
          /\ Wake(x, -1)
    /\ UNCHANGED <<dataVars, restVars, word, code, mem>>

\* ftx:wait: park while the word is what the fiber read, and again if it still
\* is when the fiber is woken.
FutexWait(f) ==
    /\ Doing(f, "park")
    /\ LET x == Head(code[f])[2] IN
       IF word[x] = mem[f] THEN Park(f, x) /\ UNCHANGED code
       ELSE Go(f) /\ UNCHANGED <<parked, stack>>
    /\ UNCHANGED <<dataVars, restVars, word, mem>>

-----------------------------------------------------------------------------
(* make-lock, make-semaphore.                                              *)

Acquire(f) ==
    /\ Doing(f, "acquire")
    /\ IF word["main"] = 0 THEN Set("main", 1) /\ Go(f) /\ UNCHANGED <<parked, stack>>
       ELSE Park(f, "main") /\ UNCHANGED <<word, code>>
    /\ UNCHANGED <<dataVars, restVars, mem>>

\* The lock's and the semaphore's: neither waits.
TryAcquire(f) ==
    /\ Doing(f, "try")
    /\ LET permit == kind = "semaphore" IN
       IF (permit /\ word["main"] > 0) \/ (~permit /\ word["main"] = 0)
       THEN Set("main", IF permit THEN word["main"] - 1 ELSE 1) /\ Go(f)
       ELSE Goto(f, <<>>) /\ UNCHANGED word
    /\ UNCHANGED <<dataVars, restVars, parked, stack, mem>>

\* A slip: a lock nobody is told about.
FreesQuietly == UNCHANGED <<parked, stack>>

WakeOne == Wake("main", 1)

\* "ensure" is a release that a protect or a defer runs on the way out of an
\* abort as well.
Release(f) ==
    /\ kind \in {"lock", "queue", "monitor"}
    /\ Doing(f, "release") \/ Doing(f, "ensure")
    /\ Set("main", 0)
    /\ WakeOne
    /\ Go(f)
    /\ UNCHANGED <<dataVars, restVars, mem>>

SemAcquire(f) ==
    /\ Doing(f, "down")
    /\ IF word["main"] > 0
       THEN Set("main", word["main"] - 1) /\ Go(f) /\ UNCHANGED <<parked, stack>>
       ELSE Park(f, "main") /\ UNCHANGED <<word, code>>
    /\ UNCHANGED <<dataVars, restVars, mem>>

SemRelease(f) ==
    /\ kind = "semaphore"
    /\ Doing(f, "ensure")
    /\ Set("main", word["main"] + 1)
    /\ WakeOne
    /\ Go(f)
    /\ UNCHANGED <<dataVars, restVars, mem>>

-----------------------------------------------------------------------------
(* make-condvar.                                                           *)

CvWait(f) ==
    /\ Doing(f, "wait")
    /\ LET x == Head(code[f])[2] IN
       /\ mem' = [mem EXCEPT ![f] = word[x]]
       /\ Goto(f, <<<<"release", x>>, <<"park", x>>, <<"acquire", x>>>> \o Tail(code[f]))
    /\ UNCHANGED <<dataVars, restVars, word, parked, stack>>

\* A slip: the wake without the generation; the woken fiber parks again.
KeepsGeneration(x) == UNCHANGED word

NextGeneration(x) == Set(x, word[x] + 1)

Notify(f) ==
    /\ \E n \in {1, Everyone} :
          /\ Doing(f, IF n = 1 THEN "notify" ELSE "broadcast")
          /\ NextGeneration(Head(code[f])[2])
          /\ Wake(Head(code[f])[2], n)
    /\ Go(f)
    /\ UNCHANGED <<dataVars, restVars, mem>>

-----------------------------------------------------------------------------
(* make-rwlock.                                                            *)

\* A slip: a writer comes in as soon as there is no other writer.
WritesBesideReaders(f) == Doing(f, "write") /\ rw >= 0

MayWrite(f) == Doing(f, "write") /\ rw = 0
MayRead(f) == Doing(f, "read") /\ rw >= 0

RwAcquire(f) ==
    /\ Doing(f, "read") \/ Doing(f, "write")
    /\ IF MayRead(f) \/ MayWrite(f)
       THEN /\ rw' = IF Doing(f, "read") THEN rw + 1 ELSE -1
            /\ Go(f) /\ UNCHANGED mem
       ELSE /\ mem' = [mem EXCEPT ![f] = word["main"]]
            /\ Goto(f, <<<<"park", "main">>>> \o code[f]) /\ UNCHANGED rw
    /\ UNCHANGED <<restVars, word, parked, stack, buf, closed, got>>

RwRelease(f) ==
    /\ kind = "rwlock"
    /\ Doing(f, "ensure")
    /\ rw' = IF Head(code[f])[2] = "read" THEN rw - 1 ELSE 0
    /\ NextGeneration("main")
    /\ Wake("main", Everyone)
    /\ Go(f)
    /\ UNCHANGED <<restVars, mem, buf, closed, got>>

-----------------------------------------------------------------------------
(* make-barrier for every fiber, make-latch, make-once.                    *)

\* A slip: the gate opens one fiber short.
OpensShort(n) == n + 1 = Everyone

Full(n) == n = Everyone

BarrierWait(f) ==
    /\ Doing(f, "arrive")
    /\ LET count == word["main"] + 1 IN
       /\ Set("main", count)
       /\ IF Full(count) THEN Wake("main", Everyone) /\ Go(f) /\ UNCHANGED mem
          ELSE /\ mem' = [mem EXCEPT ![f] = count]
               /\ Goto(f, <<<<"park", "main">>>> \o Tail(code[f]))
               /\ UNCHANGED <<parked, stack>>
    /\ UNCHANGED <<dataVars, restVars>>

\* The latch is 0 while it is shut and 1 for good once it is open.
LatchWait(f) ==
    /\ Doing(f, "gate")
    /\ mem' = [mem EXCEPT ![f] = 0]
    /\ Goto(f, <<<<"park", "main">>>> \o Tail(code[f]))
    /\ UNCHANGED <<dataVars, restVars, word, parked, stack>>

\* The once cell is 0 :pending, 1 :running, 2 :done.
OnceGet(f) ==
    /\ Doing(f, "get")
    /\ CASE word["main"] = 2 -> Go(f) /\ UNCHANGED <<word, mem>>
         [] word["main"] = 1 -> /\ mem' = [mem EXCEPT ![f] = 1]
                                /\ Goto(f, <<<<"park", "main">>>> \o Tail(code[f]))
                                /\ UNCHANGED word
         [] OTHER -> /\ Set("main", 1)
                     /\ Goto(f, <<<<"body", "thunk">>, <<"ensure", "done">>>> \o Tail(code[f]))
                     /\ UNCHANGED mem
    /\ UNCHANGED <<dataVars, restVars, parked, stack>>

\* latch:open, and the once cell's end: the thunk is under protect, so its
\* failure and its abort end it as well.
Open(f) ==
    /\ Doing(f, "open") \/ (kind = "once" /\ Doing(f, "ensure"))
    /\ Set("main", IF kind = "once" THEN 2 ELSE 1)
    /\ Wake("main", Everyone)
    /\ Go(f)
    /\ UNCHANGED <<dataVars, restVars, mem>>

-----------------------------------------------------------------------------
(* make-queue: every call is inside the queue's lock.                      *)

WaitAndLook(f, x) == Goto(f, <<<<"wait", x>>>> \o code[f])

QueuePut(f) ==
    /\ Doing(f, "put")
    /\ IF ~closed /\ Len(buf) >= Cap
       THEN WaitAndLook(f, "full") /\ UNCHANGED buf
       ELSE IF closed
       THEN Goto(f, <<<<"release", "main">>>>) /\ UNCHANGED buf
       ELSE /\ buf' = Append(buf, f)
            /\ Goto(f, <<<<"notify", "empty">>, <<"release", "main">>>>)
    /\ UNCHANGED <<restVars, word, parked, stack, mem, rw, closed, got>>

QueueTake(f) ==
    /\ Doing(f, "take")
    /\ IF ~closed /\ buf = <<>>
       THEN WaitAndLook(f, "empty") /\ UNCHANGED <<buf, got>>
       ELSE IF buf = <<>>
       THEN /\ Goto(f, <<<<"release", "main">>>>)
            /\ got' = [got EXCEPT ![f] = <<>>]
            /\ UNCHANGED buf
       ELSE /\ got' = [got EXCEPT ![f] = <<Head(buf)>>]
            /\ buf' = Tail(buf)
            /\ Goto(f, <<<<"notify", "full">>, <<"release", "main">>>>)
    /\ UNCHANGED <<restVars, word, parked, stack, mem, rw, closed>>

QueueClose(f) ==
    /\ Doing(f, "close")
    /\ closed' = TRUE
    /\ Goto(f, <<<<"broadcast", "full">>, <<"broadcast", "empty">>, <<"release", "main">>>>)
    /\ UNCHANGED <<restVars, word, parked, stack, mem, rw, buf, got>>

-----------------------------------------------------------------------------
(* The programs.                                                           *)

\* What a program does with each object: its calls, and its own code, "body",
\* which may suspend.  mon:with runs its body under protect.
Operations ==
    CASE kind = "lock" ->
           {<<<<a, "main">>, <<"body", "held">>, <<"ensure", "main">>>> : a \in {"acquire", "try"}}
      [] kind = "semaphore" ->
           {<<<<a, "main">>, <<"body", "held">>, <<"ensure", "main">>>> : a \in {"down", "try"}}
      [] kind = "rwlock" -> {<<<<a, "main">>, <<"body", a>>, <<"ensure", a>>>> : a \in {"read", "write"}}
      [] kind = "barrier" -> {<<<<"arrive", "main">>, <<"body", "passed">>>>}
      [] kind = "latch" -> {<<<<"gate", "main">>, <<"body", "passed">>>>, <<<<"open", "main">>>>}
      [] kind = "once" -> {<<<<"get", "main">>, <<"body", "passed">>>>}
      [] kind = "queue" -> {<<<<"acquire", "main">>, <<a, "main">>>> : a \in {"put", "take", "close"}}
      [] kind = "monitor" -> {<<<<"acquire", "main">>, <<"body", "held">>, <<"ensure", "main">>>>}

\* A barrier for every fiber is passed once.
Begin(f) ==
    /\ Running(f) /\ code[f] = <<>>
    /\ budget[f] > (IF kind = "barrier" THEN MaxOps - 1 ELSE 0)
    /\ \E c \in Operations : Goto(f, c)
    /\ budget' = [budget EXCEPT ![f] = @ - 1]
    /\ UNCHANGED <<dataVars, kind, host, aborts, word, parked, stack, mem>>

InBody(f) == Running(f) /\ (code[f] # <<>> => Head(code[f])[1] = "body")

LeaveBody(f) ==
    /\ Doing(f, "body")
    /\ Go(f)
    /\ UNCHANGED <<dataVars, restVars, word, parked, stack, mem>>

\* mon:wait, mon:notify and mon:broadcast from the body of mon:with.
InMonitor(f) ==
    /\ kind = "monitor"
    /\ Doing(f, "body")
    /\ budget[f] > 0
    /\ \E op \in {"wait", "notify", "broadcast"} : Goto(f, <<<<op, "cv">>>> \o code[f])
    /\ budget' = [budget EXCEPT ![f] = @ - 1]
    /\ UNCHANGED <<dataVars, kind, host, aborts, word, parked, stack, mem>>

\* The fiber suspends on something else, or is done.
Suspend(f) ==
    /\ InBody(f)
    /\ stack' = Tail(stack)
    /\ UNCHANGED <<dataVars, restVars, word, parked, code, mem>>

\* The loop runs a fiber that waits for nothing here.
Resume(f) ==
    /\ stack = <<>>
    /\ Waits(f) = {}
    /\ code[f] # <<>> \/ budget[f] > 0
    /\ stack' = <<Run(f)>>
    /\ UNCHANGED <<dataVars, restVars, word, parked, code, mem>>

\* What an abort leaves of an operation: the first protected release in it.
Unwound(c) ==
    LET E == {i \in 1..Len(c) : c[i][1] = "ensure"} IN
    IF E = {} THEN <<>>
    ELSE LET i == CHOOSE j \in E : \A k \in E : j <= k IN <<c[i]>>

\* An acquire that was not answered has nothing to release yet.
Entered(c) == c # <<>> /\ Head(c)[1] \notin {"acquire", "down", "read", "write"}
                       /\ (Len(c) > 1 => c[2][1] \notin {"read", "write"})
InCondWait(c) == \E i \in 1..Len(c) : c[i][1] = "acquire" /\ c[i][2] = "cv"

\* ev/abort of a suspended fiber: it leaves its wait (the process scheduler's
\* :abort leaves the entry behind), its handlers run, it ends.
Abort(f, g) ==
    /\ InBody(f)
    /\ aborts > 0
    /\ code[g] # <<>>
    /\ \A i \in 1..Len(stack) : stack[i] # Run(g)
    /\ AbortsWaits \/ ~InCondWait(code[g])
    /\ parked' = IF host = "process" THEN parked ELSE [x \in Futexes |-> LeaveArray(parked[x], g)]
    /\ Goto(g, IF Entered(code[g]) \/ InCondWait(code[g]) THEN Unwound(code[g]) ELSE <<>>)
    /\ budget' = [budget EXCEPT ![g] = 0]
    /\ aborts' = aborts - 1
    /\ stack' = <<Run(g)>> \o stack
    /\ UNCHANGED <<dataVars, kind, host, word, mem>>

-----------------------------------------------------------------------------
Call(f) ==
    \/ FutexWait(f) \/ Acquire(f) \/ TryAcquire(f) \/ Release(f) \/ SemAcquire(f)
    \/ SemRelease(f) \/ CvWait(f) \/ Notify(f) \/ RwAcquire(f) \/ RwRelease(f)
    \/ BarrierWait(f) \/ LatchWait(f) \/ OnceGet(f) \/ Open(f)
    \/ QueuePut(f) \/ QueueTake(f) \/ QueueClose(f)

Next ==
    \/ WakeNext \/ WakeReady
    \/ \E f \in Fibers :
          \/ Call(f) \/ Begin(f) \/ LeaveBody(f) \/ InMonitor(f) \/ Suspend(f)
          \/ Resume(f)
          \/ \E g \in Fibers : Abort(f, g)

\* What the loop runs goes on to its next request, and a program that has
\* begun no further call suspends or ends.  A round of the process scheduler
\* comes to wake-futex-ready whatever else runs in it.
Fairness ==
    /\ WF_vars(WakeNext \/ \E f \in Fibers : Call(f))
    /\ SF_vars(WakeReady)
    /\ WF_vars(\E f \in Fibers : Suspend(f))

Spec == Init /\ [][Next]_vars /\ Fairness
=============================================================================
