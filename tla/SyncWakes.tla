----------------------------- MODULE SyncWakes -----------------------------
(***************************************************************************)
(* No wakeup is lost, proved for every set of fibers, every number of      *)
(* permits, every capacity and every bound, in the loop and in a process   *)
(* scheduler.                                                              *)
(*                                                                         *)
(* A fiber that is parked is in the one request its code says.  When the   *)
(* word it waits for changes, somebody on the stack is on the way to wake  *)
(* it: the wake that the change made, a fiber that was woken and has not   *)
(* looked yet, or, in the queue, the holder of the lock that has its       *)
(* notification still to make.  When the stack is empty nobody is on the   *)
(* way, so nobody waits for what is there.                                 *)
(***************************************************************************)
EXTENDS SyncProofs

-----------------------------------------------------------------------------
(* The steps, by what they do to the fiber that runs.                      *)

\* The code of a fiber that is parked on x.
WaitsAt(c, x) ==
    \/ Op(c) \in {"acquire", "down"} /\ x = "main"
    \/ Op(c) = "park" /\ Arg(c) = x

\* A fiber has nothing left to do but a protected release; one that may not
\* begin another operation either is dead, as an aborted fiber is.
Finishing(c) == c = <<>> \/ (Op(c) = "ensure" /\ Tail(c) = <<>>)
Dead(f) == budget[f] = 0 /\ Finishing(code[f])

\* The fiber that runs parks, where its code says and on the word it expects.
Parks(f) ==
    /\ Running(f) /\ code[f] # <<>>
    /\ \E x \in Futexes :
          /\ WaitsAt(code[f], x) /\ Park(f, x)
          /\ Op(code[f]) = "acquire" => word["main"] # 0
          /\ Op(code[f]) = "down" => ~(word["main"] > 0)
          /\ Op(code[f]) = "park" => word[x] = mem[f]
    /\ UNCHANGED <<dataVars, restVars, word, code, mem>>

\* The fiber that runs goes on, and may leave a wake on top of itself.
Works(f) ==
    /\ Running(f)
    /\ \E d : Goto(f, d)
    /\ \/ UNCHANGED <<parked, stack>>
       \/ \E x \in Futexes, n \in Int : Wake(x, n)
    /\ mem' = mem \/ \E n \in Int : mem' = [mem EXCEPT ![f] = n]
    /\ budget' = budget \/ (budget[f] > 0 /\ budget' = [budget EXCEPT ![f] = @ - 1])
    /\ code[f] = <<>> => budget[f] > 0
    /\ budget' = budget /\ Finishing(code[f]) => code' = [code EXCEPT ![f] = <<>>]

\* Nothing runs but a wake.
Wakes ==
    /\ stack # <<>> /\ Head(stack).at = "wake"
    /\ LoopWakes(Head(stack)) \/ ProcessWakes(Head(stack))
    /\ UNCHANGED <<dataVars, restVars, word, code, mem>>

WakeTypes == mem \in [Fibers -> Int] /\ budget \in [Fibers -> Nat]

\* A call parks the fiber or lets it go on.
LEMMA CallStep ==
    ASSUME CodesHold, SchedTypes, WakeTypes, NEW f \in Fibers, Call(f) PROVE Parks(f) \/ Works(f)
<1>m. "main" \in Futexes /\ 1 \in Int /\ Everyone \in Int /\ 0 \in Int /\ \A x \in Futexes : word[x] \in Int
  BY EveryoneNat DEF Futexes, SchedTypes
<1>0. code[f] # <<>> /\ Running(f)
  BY CallOps
<1>a. Arg(code[f]) = Head(code[f])[2]
  BY DEF Arg
<1>o. Finishing(code[f]) => Op(code[f]) = "ensure" /\ Tail(code[f]) = <<>>
  BY <1>0 DEF Finishing
<1>1. CASE FutexWait(f) /\ Op(code[f]) = "park"
  <2> PICK x : x = Head(code[f])[2]
    OBVIOUS
  <2>1. x \in Futexes /\ WaitsAt(code[f], x)
    BY <1>0, <1>1, <1>a, ArgsKnown DEF WaitsAt
  <2>2. CASE word[x] = mem[f]
    <3>1. Park(f, x) /\ UNCHANGED <<dataVars, restVars, word, code, mem>>
      BY <1>1, <2>2 DEF FutexWait
    <3> QED BY <1>0, <1>1, <2>1, <2>2, <3>1 DEF Parks
  <2>3. CASE word[x] # mem[f]
    <3>1. Go(f) /\ UNCHANGED <<dataVars, restVars, word, mem, parked, stack>>
      BY <1>1, <2>3 DEF FutexWait
    <3> QED BY <1>0, <1>1, <1>o, <3>1 DEF Works, Go, restVars
  <2> QED BY <2>2, <2>3
<1>2. CASE Acquire(f) /\ Op(code[f]) = "acquire"
  <2>1. CASE word["main"] = 0
    <3>1. Go(f) /\ UNCHANGED <<parked, stack, mem, budget>>
      BY <1>2, <2>1 DEF Acquire, restVars
    <3> QED BY <1>0, <1>2, <1>o, <3>1 DEF Works, Go
  <2>2. CASE word["main"] # 0
    <3>1. Park(f, "main") /\ UNCHANGED <<dataVars, restVars, word, code, mem>>
      BY <1>2, <2>2 DEF Acquire
    <3> QED BY <1>0, <1>2, <1>m, <2>2, <3>1 DEF Parks, WaitsAt
  <2> QED BY <2>1, <2>2
<1>3. CASE TryAcquire(f) /\ Op(code[f]) = "try"
  BY <1>0, <1>3, <1>o DEF TryAcquire, Works, Go, restVars
<1>4. CASE Release(f)
  BY <1>0, <1>4, <1>m, <1>o DEF Release, WakeOne, Works, Go, Goto, restVars
<1>5. CASE SemAcquire(f) /\ Op(code[f]) = "down"
  <2>1. CASE word["main"] > 0
    <3>1. Go(f) /\ UNCHANGED <<parked, stack, mem, budget>>
      BY <1>5, <2>1 DEF SemAcquire, restVars
    <3> QED BY <1>0, <1>5, <1>o, <3>1 DEF Works, Go
  <2>2. CASE ~(word["main"] > 0)
    <3>1. Park(f, "main") /\ UNCHANGED <<dataVars, restVars, word, code, mem>>
      BY <1>5, <2>2 DEF SemAcquire
    <3> QED BY <1>0, <1>5, <1>m, <2>2, <3>1 DEF Parks, WaitsAt
  <2> QED BY <2>1, <2>2
<1>6. CASE SemRelease(f)
  BY <1>0, <1>6, <1>m, <1>o DEF SemRelease, WakeOne, Works, Go, Goto, restVars
<1>7. CASE CvWait(f) /\ Op(code[f]) = "wait"
  <2>1. word[Head(code[f])[2]] \in Int
    BY <1>0, <1>7, <1>a, <1>m, ArgsKnown
  <2>2. \E n \in Int : mem' = [mem EXCEPT ![f] = n]
    BY <1>7, <2>1 DEF CvWait
  <2>3. (\E d : Goto(f, d)) /\ UNCHANGED <<parked, stack, budget>>
    BY <1>7 DEF CvWait, restVars
  <2> QED BY <1>0, <1>7, <1>o, <2>2, <2>3 DEF Works
<1>8. CASE Notify(f) /\ Op(code[f]) \in {"notify", "broadcast"}
  <2>1. Head(code[f])[2] \in Futexes
    BY <1>0, <1>8, <1>a, ArgsKnown
  <2>2. \E n \in {1, Everyone} : Wake(Head(code[f])[2], n)
    BY <1>8 DEF Notify
  <2>3. \E x \in Futexes, n \in Int : Wake(x, n)
    BY <2>1, <2>2, <1>m
  <2>4. Go(f) /\ UNCHANGED <<mem, budget>>
    BY <1>8 DEF Notify, restVars
  <2> QED BY <1>0, <1>8, <1>o, <2>3, <2>4 DEF Works, Go
<1>9. CASE RwAcquire(f) /\ Op(code[f]) \in {"read", "write"}
  <2>1. (\E d : Goto(f, d)) /\ UNCHANGED <<parked, stack, budget>>
    BY <1>9 DEF RwAcquire, Go, restVars
  <2>2. mem' = mem \/ \E n \in Int : mem' = [mem EXCEPT ![f] = n]
    BY <1>9, <1>m DEF RwAcquire
  <2> QED BY <1>0, <1>9, <1>o, <2>1, <2>2 DEF Works
<1>10. CASE RwRelease(f)
  BY <1>0, <1>10, <1>m, <1>o DEF RwRelease, Works, Go, Goto, restVars
<1>11. CASE BarrierWait(f) /\ Op(code[f]) = "arrive"
  <2>1. word["main"] + 1 \in Int
    BY <1>m
  <2>2. (\E d : Goto(f, d)) /\ UNCHANGED budget /\ (UNCHANGED <<parked, stack>> \/ Wake("main", Everyone))
    BY <1>11 DEF BarrierWait, Go, restVars
  <2>3. mem' = mem \/ \E n \in Int : mem' = [mem EXCEPT ![f] = n]
    BY <1>11, <2>1 DEF BarrierWait
  <2> QED BY <1>0, <1>11, <1>m, <1>o, <2>2, <2>3 DEF Works
<1>12. CASE LatchWait(f) /\ Op(code[f]) = "gate"
  <2>1. (\E d : Goto(f, d)) /\ UNCHANGED <<parked, stack, budget>> /\ mem' = [mem EXCEPT ![f] = 0]
    BY <1>12 DEF LatchWait, restVars
  <2> QED BY <1>0, <1>12, <1>m, <1>o, <2>1 DEF Works
<1>13. CASE OnceGet(f) /\ Op(code[f]) = "get"
  <2>1. (\E d : Goto(f, d)) /\ UNCHANGED <<parked, stack, budget>>
    BY <1>13 DEF OnceGet, Go, restVars
  <2>2. mem' = mem \/ \E n \in Int : mem' = [mem EXCEPT ![f] = n]
    BY <1>13, <1>m DEF OnceGet
  <2> QED BY <1>0, <1>13, <1>o, <2>1, <2>2 DEF Works
<1>14. CASE Open(f)
  BY <1>0, <1>14, <1>m, <1>o DEF Open, Works, Go, Goto, restVars
<1>15. CASE QueuePut(f) /\ Op(code[f]) = "put"
  <2>1. (\E d : Goto(f, d)) /\ UNCHANGED <<parked, stack, budget, mem>>
    BY <1>15 DEF QueuePut, WaitAndLook, restVars
  <2> QED BY <1>0, <1>15, <1>o, <2>1 DEF Works
<1>16. CASE QueueTake(f) /\ Op(code[f]) = "take"
  <2>1. (\E d : Goto(f, d)) /\ UNCHANGED <<parked, stack, budget, mem>>
    BY <1>16 DEF QueueTake, WaitAndLook, restVars
  <2> QED BY <1>0, <1>16, <1>o, <2>1 DEF Works
<1>17. CASE QueueClose(f) /\ Op(code[f]) = "close"
  <2>1. (\E d : Goto(f, d)) /\ UNCHANGED <<parked, stack, budget, mem>>
    BY <1>17 DEF QueueClose, restVars
  <2> QED BY <1>0, <1>17, <1>o, <2>1 DEF Works
<1> QED BY CallOps, <1>1, <1>2, <1>3, <1>4, <1>5, <1>6, <1>7, <1>8, <1>9, <1>10, <1>11, <1>12, <1>13, <1>14, <1>15, <1>16, <1>17

\* Every step is a wake's, a park, work, a suspension, a resumption or an abort.
LEMMA StepOf ==
    ASSUME CodesHold, SchedTypes, WakeTypes, Next
    PROVE  \/ Wakes \/ WakeReady
           \/ \E f \in Fibers : Parks(f) \/ Works(f) \/ Suspend(f) \/ Resume(f) \/ \E g \in Fibers : Abort(f, g)
<1>1. CASE WakeNext
  BY <1>1 DEF WakeNext, Wakes
<1>2. ASSUME NEW f \in Fibers, Call(f) PROVE Parks(f) \/ Works(f)
  BY <1>2, CallStep
<1>3. ASSUME NEW f \in Fibers, Begin(f) PROVE Works(f)
  <2>2. budget[f] > 0
    <3>1. MaxOps - 1 >= 0 /\ budget[f] \in Int /\ MaxOps \in Int
      BY SyncAssumption DEF WakeTypes
    <3> QED BY <1>3, <3>1 DEF Begin
  <2>3. Running(f) /\ (\E d : Goto(f, d)) /\ UNCHANGED <<parked, stack, mem>> /\ budget' = [budget EXCEPT ![f] = @ - 1]
    BY <1>3 DEF Begin
  <2>4. budget' # budget
    BY <2>2, <2>3 DEF WakeTypes
  <2> QED BY <2>2, <2>3, <2>4 DEF Works
<1>4. ASSUME NEW f \in Fibers, LeaveBody(f) PROVE Works(f)
  <2>1. Running(f) /\ Op(code[f]) = "body" /\ code[f] # <<>> /\ Go(f) /\ UNCHANGED <<parked, stack, mem, budget>>
    BY <1>4 DEF LeaveBody, Doing, Op, restVars
  <2> QED BY <2>1 DEF Works, Go, Finishing
<1>5. ASSUME NEW f \in Fibers, InMonitor(f) PROVE Works(f)
  <2>1. /\ Running(f) /\ Op(code[f]) = "body" /\ code[f] # <<>> /\ (\E d : Goto(f, d))
        /\ UNCHANGED <<parked, stack, mem>> /\ budget[f] > 0 /\ budget' = [budget EXCEPT ![f] = @ - 1]
    BY <1>5 DEF InMonitor, Doing, Op
  <2> QED BY <2>1 DEF Works, Finishing
<1> QED BY <1>1, <1>2, <1>3, <1>4, <1>5 DEF Next

-----------------------------------------------------------------------------
(* What a wake does.                                                       *)

\* The loop's wake is over, passes a fiber over, or runs it.
LEMMA LoopTop ==
    ASSUME SchedTypes, stack # <<>>, NEW fr, fr = Head(stack), fr.at = "wake", LoopWakes(fr)
    PROVE  /\ host = "loop"
           /\ \/ (fr.todo = <<>> \/ fr.left = 0) /\ stack' = Tail(stack) /\ parked' = parked
              \/ /\ fr.todo # <<>> /\ fr.left # 0
                 /\ \E r \in Frames :
                      /\ r.at = "wake" /\ r.x = fr.x /\ r.todo = Tail(fr.todo)
                      /\ \/ /\ Head(fr.todo) \notin Range(parked[fr.x]) /\ r.left = fr.left
                            /\ stack' = <<r>> \o Tail(stack) /\ parked' = parked
                         \/ /\ Head(fr.todo) \in Range(parked[fr.x]) /\ r.left = fr.left - 1
                            /\ stack' = <<Run(Head(fr.todo))>> \o (<<r>> \o Tail(stack))
                            /\ parked' = [parked EXCEPT ![fr.x] = LeaveArray(@, Head(fr.todo))]
<1>h. host = "loop" /\ stack \in Seq(Frames)
  BY DEF LoopWakes, SchedTypes
<1>1. fr \in Frames /\ Tail(stack) \in Seq(Frames)
  BY <1>h, PopStack
<1>x. fr.x \in Futexes /\ fr.todo \in Seq(Fibers) /\ fr.left \in Int
  BY <1>1, WakeFrames
<1>2. CASE fr.todo = <<>> \/ fr.left = 0
  <2>1. stack' = Tail(stack) /\ parked' = parked
    BY <1>2 DEF LoopWakes
  <2> QED BY <1>2, <1>h, <2>1
<1>3. CASE ~(fr.todo = <<>> \/ fr.left = 0)
  <2> PICK g, rest : g = Head(fr.todo) /\ rest = [fr EXCEPT !.todo = Tail(fr.todo)]
    OBVIOUS
  <2>2. g \in Fibers /\ Tail(fr.todo) \in Seq(Fibers)
    BY <1>3, <1>x, TailRange
  <2>f. fr \in [at : {"wake"}, x : Futexes, todo : Seq(Fibers), left : Int, keep : Seq(Fibers)]
    BY <1>1 DEF Frames
  <2>r. /\ rest \in [at : {"wake"}, x : Futexes, todo : Seq(Fibers), left : Int, keep : Seq(Fibers)]
        /\ rest.at = "wake" /\ rest.left = fr.left /\ rest.x = fr.x /\ rest.todo = Tail(fr.todo)
    BY <2>2, <2>f
  <2>3. rest \in Frames
    BY <2>r DEF Frames
  <2>w. fr.x \in Waits(g) <=> g \in Range(parked[fr.x])
    BY <1>x, <2>2, WaitsParked
  <2>4. CASE fr.x \in Waits(g)
    <3> PICK r : r = [rest EXCEPT !.left = rest.left - 1]
      OBVIOUS
    <3>1. r \in Frames /\ r.at = "wake" /\ r.left = fr.left - 1 /\ r.x = fr.x /\ r.todo = Tail(fr.todo)
      <4>1. rest.left - 1 \in Int
        BY <2>r, <1>x
      <4> QED BY <4>1, <2>r DEF Frames
    <3>2. /\ parked' = [parked EXCEPT ![fr.x] = LeaveArray(parked[fr.x], g)]
          /\ stack' = <<Run(g), r>> \o Tail(stack)
      BY <1>3, <2>4 DEF LoopWakes
    <3>3. <<Run(g), r>> \o Tail(stack) = <<Run(g)>> \o (<<r>> \o Tail(stack))
      BY <3>1, <2>2, <1>1, PushTwoSplit, FrameFacts
    <3>4. parked' = [parked EXCEPT ![fr.x] = LeaveArray(@, g)]
      BY <3>2
    <3> QED BY <1>3, <1>h, <2>4, <2>w, <3>1, <3>2, <3>3, <3>4
  <2>5. CASE fr.x \notin Waits(g)
    <3>1. stack' = <<rest>> \o Tail(stack) /\ parked' = parked
      BY <1>3, <2>5 DEF LoopWakes
    <3> QED BY <1>3, <1>h, <2>3, <2>r, <2>5, <2>w, <3>1
  <2> QED BY <2>4, <2>5
<1> QED BY <1>2, <1>3

\* It leaves the buckets as they are or takes one fiber out of its own.
LEMMA LoopTakes ==
    ASSUME NEW fr, LoopWakes(fr)
    PROVE  parked' = parked \/ parked' = [parked EXCEPT ![fr.x] = LeaveArray(@, Head(fr.todo))]
BY DEF LoopWakes

\* A process scheduler's wake is over and puts back whom it kept, drops a fiber
\* that ended, runs one, or keeps one.
LEMMA ProcessTop ==
    ASSUME SchedTypes, stack # <<>>, NEW fr, fr = Head(stack), fr.at = "wake", ProcessWakes(fr)
    PROVE  /\ host = "process"
           /\ \/ /\ fr.todo = <<>> /\ stack' = Tail(stack)
                 /\ parked' = [parked EXCEPT ![fr.x] = fr.keep \o @]
              \/ /\ fr.todo # <<>> /\ parked' = parked
                 /\ \E r \in Frames :
                      /\ r.at = "wake" /\ r.x = fr.x /\ r.todo = Tail(fr.todo)
                      /\ \/ r.keep = fr.keep /\ stack' = <<r>> \o Tail(stack)
                         \/ /\ r.keep = fr.keep /\ code[Head(fr.todo)] # <<>>
                            /\ stack' = <<Run(Head(fr.todo))>> \o (<<r>> \o Tail(stack))
                         \/ r.keep = Append(fr.keep, Head(fr.todo)) /\ stack' = <<r>> \o Tail(stack)
<1>h. host = "process" /\ stack \in Seq(Frames)
  BY DEF ProcessWakes, SchedTypes
<1>1. fr \in Frames /\ Tail(stack) \in Seq(Frames)
  BY <1>h, PopStack
<1>x. fr.x \in Futexes /\ fr.todo \in Seq(Fibers) /\ fr.left \in Int /\ fr.keep \in Seq(Fibers)
  BY <1>1, WakeFrames
<1>2. CASE fr.todo = <<>>
  <2>1. stack' = Tail(stack) /\ parked' = [parked EXCEPT ![fr.x] = fr.keep \o @]
    BY <1>2 DEF ProcessWakes
  <2> QED BY <1>2, <1>h, <2>1
<1>3. CASE fr.todo # <<>>
  <2> PICK g, rest, picked, runs, r, k :
         /\ g = Head(fr.todo) /\ rest = [fr EXCEPT !.todo = Tail(fr.todo)]
         /\ picked = (IF fr.left = -1 THEN Changed(g, fr.x) ELSE fr.left > 0)
         /\ runs = (IF Ended(g) THEN <<>> ELSE <<Run(g)>>)
         /\ r = [rest EXCEPT !.left = IF rest.left > 0 THEN rest.left - 1 ELSE rest.left]
         /\ k = [rest EXCEPT !.keep = Append(rest.keep, g)]
    OBVIOUS
  <2>2. g \in Fibers /\ Tail(fr.todo) \in Seq(Fibers)
    BY <1>3, <1>x, TailRange
  <2>f. fr \in [at : {"wake"}, x : Futexes, todo : Seq(Fibers), left : Int, keep : Seq(Fibers)]
    BY <1>1 DEF Frames
  <2>3. /\ rest \in [at : {"wake"}, x : Futexes, todo : Seq(Fibers), left : Int, keep : Seq(Fibers)]
        /\ rest.at = "wake" /\ rest.left = fr.left /\ rest.x = fr.x /\ rest.todo = Tail(fr.todo) /\ rest.keep = fr.keep
    BY <2>2, <2>f
  <2>4. r \in Frames /\ r.at = "wake" /\ r.x = fr.x /\ r.todo = Tail(fr.todo) /\ r.keep = fr.keep
    <3>1. (IF rest.left > 0 THEN rest.left - 1 ELSE rest.left) \in Int
      BY <2>3, <1>x
    <3> QED BY <3>1, <2>3 DEF Frames
  <2>5. k \in Frames /\ k.at = "wake" /\ k.x = fr.x /\ k.todo = Tail(fr.todo) /\ k.keep = Append(fr.keep, g)
    <3>1. Append(rest.keep, g) \in Seq(Fibers)
      BY <2>2, <2>3
    <3> QED BY <3>1, <2>3 DEF Frames
  <2>6. /\ parked' = parked
        /\ stack' = (IF picked THEN runs \o <<r>> ELSE <<k>>) \o Tail(stack)
    BY <1>3 DEF ProcessWakes
  <2>7. CASE ~picked
    <3>1. stack' = <<k>> \o Tail(stack)
      BY <2>6, <2>7
    <3> QED BY <1>3, <1>h, <2>5, <2>6, <3>1
  <2>8. CASE picked /\ Ended(g)
    <3>1. runs \o <<r>> = <<r>>
      BY <2>8
    <3>2. stack' = <<r>> \o Tail(stack)
      BY <2>6, <2>8, <3>1
    <3> QED BY <1>3, <1>h, <2>4, <2>6, <3>2
  <2>9. CASE picked /\ ~Ended(g)
    <3>1. runs \o <<r>> = <<Run(g), r>>
      BY <2>9, Joined
    <3>2. stack' = <<Run(g), r>> \o Tail(stack)
      BY <2>6, <2>9, <3>1
    <3>3. <<Run(g), r>> \o Tail(stack) = <<Run(g)>> \o (<<r>> \o Tail(stack))
      BY <2>2, <2>4, <1>1, PushTwoSplit, FrameFacts
    <3>4. code[g] # <<>>
      BY <2>9 DEF Ended
    <3> QED BY <1>3, <1>h, <2>4, <2>6, <3>2, <3>3, <3>4
  <2> QED BY <2>7, <2>8, <2>9
<1> QED BY <1>2, <1>3

\* The values a fiber remembers and its budget are numbers.
LEMMA WakeTypesKept == ASSUME CodesHold, SchedTypes, WakeTypes, [Next]_vars PROVE WakeTypes'
<1>1. CASE UNCHANGED vars
  BY <1>1 DEF WakeTypes, vars
<1>2. CASE Wakes \/ WakeReady
  BY <1>2 DEF WakeTypes, Wakes, WakeReady, restVars
<1>3. ASSUME NEW f \in Fibers, Parks(f) \/ Suspend(f) \/ Resume(f) PROVE WakeTypes'
  BY <1>3 DEF WakeTypes, Parks, Suspend, Resume, restVars
<1>4. ASSUME NEW f \in Fibers, Works(f) PROVE WakeTypes'
  <2>1. mem' \in [Fibers -> Int]
    BY <1>4 DEF WakeTypes, Works
  <2>2. budget' \in [Fibers -> Nat]
    BY <1>4 DEF WakeTypes, Works
  <2> QED BY <2>1, <2>2 DEF WakeTypes
<1>5. ASSUME NEW f \in Fibers, NEW g \in Fibers, Abort(f, g) PROVE WakeTypes'
  BY <1>5 DEF WakeTypes, Abort
<1> QED BY <1>1, <1>2, <1>3, <1>4, <1>5, StepOf

\* What a step leaves of the fibers on the stack.
LEMMA RunsStay ==
    ASSUME CodesHold, SchedTypes, WakeTypes, Next, NEW h \in Fibers, Run(h) \in Range(stack)
    PROVE  Run(h) \in Range(stack') \/ Parks(h) \/ Suspend(h)
<1>t. stack \in Seq(Frames) /\ <<>> \in Seq(Frames)
  BY DEF SchedTypes
<1>e. stack # <<>>
  BY <1>t, RangeSeq
<1>w. ASSUME NEW x \in Futexes, NEW n \in Int, Wake(x, n) PROVE Run(h) \in Range(stack')
  <2>1. \A d : Run(h) \in Range(<<d>> \o stack)
    BY <1>t, PushKeeps
  <2>2. stack' = stack \/ \E d : stack' = <<d>> \o stack
    BY <1>w DEF Wake
  <2> QED BY <2>1, <2>2
<1>1. CASE Wakes
  <2> PICK fr : fr = Head(stack)
    OBVIOUS
  <2>1. fr.at = "wake" /\ (LoopWakes(fr) \/ ProcessWakes(fr))
    BY <1>1 DEF Wakes
  <2>2. Tail(stack) \in Seq(Frames) /\ Run(h) \in Range(Tail(stack))
    BY <1>e, <1>t, <2>1, PopStack, FrameFacts
  <2>3. \A r \in Frames : <<r>> \o Tail(stack) \in Seq(Frames) /\ Run(h) \in Range(<<r>> \o Tail(stack))
    BY <2>2, PushRange
  <2>4. \A r \in Frames : \A d : Run(h) \in Range(<<d>> \o (<<r>> \o Tail(stack)))
    BY <2>3, PushKeeps
  <2>5. CASE LoopWakes(fr)
    BY <1>e, <2>1, <2>2, <2>3, <2>4, <2>5, LoopTop
  <2>6. CASE ProcessWakes(fr)
    BY <1>e, <2>1, <2>2, <2>3, <2>4, <2>6, ProcessTop
  <2> QED BY <2>1, <2>5, <2>6
<1>2. CASE WakeReady
  BY <1>2, <1>e DEF WakeReady
<1>3. ASSUME NEW f \in Fibers, Works(f) PROVE Run(h) \in Range(stack')
  BY <1>3, <1>w DEF Works
<1>4. ASSUME NEW f \in Fibers, Parks(f) \/ Suspend(f) PROVE Run(h) \in Range(stack') \/ f = h
  <2>1. stack' = Tail(stack) /\ Running(f)
    BY <1>4 DEF Parks, Park, Suspend, InBody
  <2>2. Range(stack) = {Run(f)} \cup Range(Tail(stack))
    BY <2>1, <1>e, <1>t, PopStack DEF Running
  <2> QED BY <2>1, <2>2, FrameFacts
<1>5. ASSUME NEW f \in Fibers, Resume(f) PROVE FALSE
  BY <1>5, <1>e DEF Resume
<1>6. ASSUME NEW f \in Fibers, NEW g \in Fibers, Abort(f, g) PROVE Run(h) \in Range(stack')
  <2>1. stack' = <<Run(g)>> \o stack
    BY <1>6 DEF Abort
  <2> QED BY <2>1, <1>t, PushKeeps
<1> QED BY <1>1, <1>2, <1>3, <1>4, <1>5, <1>6, StepOf

-----------------------------------------------------------------------------
(* Where a fiber is.                                                       *)

\* Between the requests it may wait in, a fiber is on the stack.
Busy ==
    \A f \in Fibers : code[f] # <<>> /\ Op(code[f]) \notin {"acquire", "down", "park", "body"} => Run(f) \in Range(stack)

\* A fiber that the loop holds in a bucket is in the request that put it there.
LoopPlace == \A f \in Fibers, x \in Futexes : f \in Range(parked[x]) => code[f] # <<>> /\ WaitsAt(code[f], x)

\* The fiber that works is on the stack and stays there.
LEMMA WorkerStays ==
    ASSUME SchedTypes, NEW f \in Fibers, Works(f)
    PROVE  Run(f) \in Range(stack) /\ Run(f) \in Range(stack')
<1>t. stack \in Seq(Frames)
  BY DEF SchedTypes
<1>1. Run(f) \in Range(stack)
  BY RunningTop DEF Works
<1>2. \A d : Run(f) \in Range(<<d>> \o stack)
  BY <1>1, <1>t, PushKeeps
<1>3. stack' = stack \/ \E d : stack' = <<d>> \o stack
  BY DEF Works, Wake
<1> QED BY <1>1, <1>2, <1>3

\* A fiber that suspends or parks waits, or is in its own code.
LEMMA BusyKept == ASSUME CodesHold, SchedTypes, WakeTypes, Busy, Next PROVE Busy'
<1> SUFFICES ASSUME NEW h \in Fibers, code'[h] # <<>>, Op(code'[h]) \notin {"acquire", "down", "park", "body"}
             PROVE  Run(h) \in Range(stack')
  BY DEF Busy, Op
<1>c. code \in [Fibers -> Codes(kind)]
  BY DEF CodesHold
<1>0. CASE code'[h] = code[h]
  <2>1. Run(h) \in Range(stack)
    BY <1>0 DEF Busy
  <2>2. ~Parks(h)
    BY <1>0 DEF Parks, WaitsAt
  <2>3. ~Suspend(h)
    BY <1>0 DEF Suspend, InBody, Op
  <2> QED BY <2>1, <2>2, <2>3, RunsStay
<1>1. CASE Wakes \/ WakeReady
  BY <1>0, <1>1 DEF Wakes, WakeReady
<1>2. ASSUME NEW f \in Fibers, Parks(f) \/ Suspend(f) \/ Resume(f) PROVE Run(h) \in Range(stack')
  BY <1>0, <1>2 DEF Parks, Suspend, Resume
<1>3. ASSUME NEW f \in Fibers, Works(f) PROVE Run(h) \in Range(stack')
  <2>1. code'[h] = code[h] \/ h = f
    BY <1>3, <1>c DEF Works, Goto
  <2> QED BY <1>0, <1>3, <2>1, WorkerStays
<1>4. ASSUME NEW f \in Fibers, NEW g \in Fibers, Abort(f, g) PROVE Run(h) \in Range(stack')
  <2>1. code'[h] = code[h] \/ h = g
    BY <1>4, <1>c DEF Abort, Goto
  <2>2. stack' = <<Run(g)>> \o stack /\ stack \in Seq(Frames)
    BY <1>4 DEF Abort, SchedTypes
  <2>3. Run(g) \in Range(stack')
    BY <2>2, PushKeeps
  <2> QED BY <1>0, <2>1, <2>3
<1> QED BY <1>1, <1>2, <1>3, <1>4, StepOf

\* What a step of the loop does to the buckets.
LEMMA LoopBuckets ==
    ASSUME CodesHold, SyncInv, WakeTypes, host = "loop", Next
    PROVE  \/ \E f \in Fibers : Parks(f)
           \/ \E f \in Fibers, g \in Fibers : /\ Abort(f, g)
                                              /\ \A y \in Futexes : /\ Range(parked'[y]) = Range(parked[y]) \ {g}
                                                                    /\ parked[y] = <<>> => parked'[y] = <<>>
           \/ Wakes /\ \A y \in Futexes : /\ Range(parked'[y]) \subseteq Range(parked[y])
                                          /\ parked[y] = <<>> => parked'[y] = <<>>
           \/ parked' = parked /\ \E f \in Fibers : Works(f) \/ Suspend(f) \/ Resume(f)
<1>t. SchedTypes /\ OnePlaced /\ parked \in [Futexes -> Seq(Fibers)] /\ \A y \in Futexes : parked[y] \in Seq(Fibers)
  BY DEF SyncInv, PlaceHolds, SchedTypes
<1>l. ASSUME NEW y \in Futexes, NEW g
      PROVE  /\ Range(LeaveArray(parked[y], g)) = Range(parked[y]) \ {g}
             /\ parked[y] = <<>> => LeaveArray(parked[y], g) = <<>>
  <2>1. Distinct(parked[y])
    BY <1>t DEF OnePlaced
  <2>2. /\ Range(LeaveArray(parked[y], g)) \subseteq Range(parked[y])
        /\ Range(parked[y]) \ {g} \subseteq Range(LeaveArray(parked[y], g))
        /\ g \notin Range(LeaveArray(parked[y], g))
    BY <1>t, <2>1, LeaveArrayRange
  <2>3. parked[y] = <<>> => LeaveArray(parked[y], g) = <<>>
    BY DEF LeaveArray
  <2> QED BY <2>2, <2>3
<1>1. CASE Wakes
  <2> PICK fr : fr = Head(stack)
    OBVIOUS
  <2>1. fr.at = "wake" /\ stack # <<>> /\ LoopWakes(fr)
    BY <1>1 DEF Wakes, ProcessWakes
  <2> PICK g : g = Head(fr.todo)
    OBVIOUS
  <2>2. parked' = parked \/ parked' = [parked EXCEPT ![fr.x] = LeaveArray(@, g)]
    BY <2>1, LoopTakes
  <2> QED BY <1>1, <1>t, <1>l, <2>2
<1>2. CASE WakeReady
  BY <1>2 DEF WakeReady
<1>3. ASSUME NEW f \in Fibers, Works(f) \/ Suspend(f) \/ Resume(f) PROVE parked' = parked
  BY <1>3 DEF Works, Wake, Suspend, Resume
<1>4. ASSUME NEW f \in Fibers, NEW g \in Fibers, Abort(f, g)
      PROVE  \A y \in Futexes : /\ Range(parked'[y]) = Range(parked[y]) \ {g}
                                /\ parked[y] = <<>> => parked'[y] = <<>>
  <2>1. parked' = [x \in Futexes |-> LeaveArray(parked[x], g)]
    BY <1>4 DEF Abort
  <2> QED BY <2>1, <1>l
<1> QED BY <1>t, <1>1, <1>2, <1>3, <1>4, StepOf

\* The fiber whose code a step changes is in no bucket after it.
LEMMA LoopPlaceKept == ASSUME SyncInv, WakeTypes, host = "loop", LoopPlace, Next PROVE LoopPlace'
<1>t. SchedTypes /\ OnePlaced /\ CodesHold /\ parked \in [Futexes -> Seq(Fibers)] /\ code \in [Fibers -> Codes(kind)]
  BY DEF SyncInv, PlaceHolds, SchedTypes, CodesHold
<1> SUFFICES ASSUME NEW h \in Fibers, NEW y \in Futexes, h \in Range(parked'[y])
             PROVE  code'[h] # <<>> /\ WaitsAt(code'[h], y)
  BY DEF LoopPlace, WaitsAt, Op, Arg
<1>0. ASSUME h \in Range(parked[y]), code'[h] = code[h] PROVE code'[h] # <<>> /\ WaitsAt(code'[h], y)
  BY <1>0 DEF LoopPlace
<1>1. ASSUME NEW f \in Fibers, Parks(f) PROVE code'[h] # <<>> /\ WaitsAt(code'[h], y)
  <2>1. PICK x \in Futexes : WaitsAt(code[f], x) /\ Park(f, x)
    BY <1>1 DEF Parks
  <2>2. code' = code /\ code[f] # <<>>
    BY <1>1 DEF Parks
  <2>3. parked' = [parked EXCEPT ![x] = Append(parked[x], f)] /\ parked[x] \in Seq(Fibers)
    BY <2>1, <1>t DEF Park
  <2>4. Range(Append(parked[x], f)) = Range(parked[x]) \cup {f}
    BY <2>3, AppendRange
  <2>5. h \in Range(parked[y]) \/ (h = f /\ y = x)
    BY <2>3, <2>4, <1>t
  <2> QED BY <1>0, <2>1, <2>2, <2>5
<1>2. ASSUME NEW f \in Fibers, NEW g \in Fibers, Abort(f, g), \A z \in Futexes : Range(parked'[z]) = Range(parked[z]) \ {g}
      PROVE  code'[h] # <<>> /\ WaitsAt(code'[h], y)
  BY <1>0, <1>2, <1>t DEF Abort, Goto
<1>3. ASSUME Wakes, Range(parked'[y]) \subseteq Range(parked[y]) PROVE code'[h] # <<>> /\ WaitsAt(code'[h], y)
  BY <1>0, <1>3 DEF Wakes
<1>4. ASSUME parked' = parked, NEW f \in Fibers, Works(f) \/ Suspend(f) \/ Resume(f)
      PROVE  code'[h] # <<>> /\ WaitsAt(code'[h], y)
  <2>1. CASE Works(f)
    <3>1. h # f
      BY <1>4, <1>t, <2>1, WorkerStays DEF OnePlaced
    <3>2. code'[h] = code[h]
      BY <2>1, <3>1, <1>t DEF Works, Goto
    <3> QED BY <1>0, <1>4, <3>2
  <2>2. CASE Suspend(f) \/ Resume(f)
    BY <1>0, <1>4, <2>2 DEF Suspend, Resume
  <2> QED BY <1>4, <2>1, <2>2
<1> QED BY <1>1, <1>2, <1>3, <1>4, <1>t, LoopBuckets

\* A set of numbers has a smallest one.
LEMMA LeastNumber == ASSUME NEW T \in SUBSET Nat, T # {} PROVE \E m \in T : \A k \in T : m <= k
<1>1. IsWellFoundedOn(OpToRel(<, Nat), Nat)
  BY NatLessThanWellFounded
<1>2. PICK m \in T : \A k \in T : ~(<<k, m>> \in OpToRel(<, Nat))
  BY <1>1, WFMin
<1>3. ASSUME NEW k \in T, k < m PROVE FALSE
  <2>1. <<k, m>> \in Nat \X Nat /\ <<k, m>>[1] < <<k, m>>[2]
    BY <1>3
  <2>2. <<k, m>> \in OpToRel(<, Nat)
    BY <2>1 DEF OpToRel
  <2> QED BY <1>2, <2>2
<1> QED BY <1>3

\* Whatever an abort interrupts, it leaves a protected release or nothing.
LEMMA AbortLeaves == ASSUME NEW c, Len(c) \in Nat PROVE Finishing(AfterAbort(c))
<1>1. CASE AfterAbort(c) = <<>>
  BY <1>1 DEF Finishing
<1>2. CASE AfterAbort(c) # <<>>
  <2> PICK E : E = {i \in 1..Len(c) : c[i][1] = "ensure"}
    OBVIOUS
  <2>1. E # {} /\ AfterAbort(c) = <<c[CHOOSE j \in E : \A k \in E : j <= k]>>
    BY <1>2 DEF AfterAbort, Unwound
  <2>2. E \in SUBSET Nat
    OBVIOUS
  <2>3. \E j \in E : \A k \in E : j <= k
    BY <2>1, <2>2, LeastNumber
  <2>4. PICK j \in E : j = CHOOSE i \in E : \A k \in E : i <= k
    BY <2>3
  <2>5. AfterAbort(c) = <<c[j]>> /\ c[j][1] = "ensure"
    BY <2>1, <2>4
  <2>6. Tail(<<c[j]>>) = <<>> /\ Head(<<c[j]>>) = c[j]
    BY Pieces
  <2> QED BY <2>5, <2>6 DEF Finishing, Op
<1> QED BY <1>1, <1>2

\* A fiber's code is a few instructions.
LEMMA CodeLength == ASSUME NEW k \in AllKinds, NEW c \in Codes(k) PROVE Len(c) \in Nat
<1>0. Len(<<>>) = 0
  OBVIOUS
<1>1. ASSUME NEW a PROVE Len(Enter(a)) = 3 /\ Len(Ask(a)) = 3 /\ Len(Out(a)) = 1 /\ Len(Gate(a)) = 2 /\ Len(QAct(a)) = 1
  BY Pieces DEF Enter, Ask, Out, Gate, QAct
<1>2. ASSUME NEW a PROVE Len(RwEnter(a)) = 3 /\ Len(RwPark(a)) = 4 /\ Len(RwIn(a)) = 2
  BY Pieces DEF RwEnter, RwPark, RwIn
<1>3. Len(Held) = 2 /\ Len(CvRelease) = 5 /\ Len(CvPark) = 4 /\ Len(CvBack) = 3
  BY Pieces DEF Held, CvRelease, CvPark, CvBack
<1>4. Len(Passed) = 1 /\ Len(Opening) = 1 /\ Len(Thunk) = 3 /\ Len(Settle) = 2
  BY Pieces DEF Passed, Opening, Thunk, Settle
<1>5. ASSUME NEW x, NEW a
      PROVE Len(QBack(x, a)) = 2 /\ Len(QWait(x, a)) = 2 /\ Len(QRelease(x, a)) = 4 /\ Len(QPark(x, a)) = 3 /\ Len(QNotify(x)) = 2
  BY Pieces DEF QBack, QWait, QRelease, QPark, QNotify
<1>6. Len(QClose) = 3 /\ Len(QClosing) = 2 /\ Len(QDone) = 1
  BY Pieces DEF QClose, QClosing, QDone
<1>7. CASE k \in Sections
  BY <1>0, <1>1, <1>3, <1>7 DEF Codes, LockCodes, MonitorCodes, Sections
<1>8. CASE k = "rwlock"
  BY <1>0, <1>1, <1>2, <1>8 DEF Codes, RwCodes
<1>9. CASE k \in {"barrier", "latch", "once"}
  BY <1>0, <1>1, <1>4, <1>9 DEF Codes, GateCodes, OnceCodes
<1>10. CASE k = "queue"
  BY <1>0, <1>1, <1>5, <1>6, <1>10 DEF Codes, Unanswered, Served
<1> QED BY <1>7, <1>8, <1>9, <1>10 DEF AllKinds, Sections

\* Dead for good.
LEMMA DeadStays == ASSUME CodesHold, SchedTypes, WakeTypes, Next, NEW h \in Fibers, Dead(h) PROVE Dead(h)'
<1>c. code \in [Fibers -> Codes(kind)] /\ kind \in AllKinds
  BY DEF CodesHold
<1>0. ASSUME code'[h] = code[h], budget'[h] = budget[h] PROVE Dead(h)'
  BY <1>0 DEF Dead, Finishing, Op
<1>1. CASE Wakes \/ WakeReady
  BY <1>0, <1>1 DEF Wakes, WakeReady, restVars
<1>2. ASSUME NEW f \in Fibers, Parks(f) \/ Suspend(f) \/ Resume(f) PROVE Dead(h)'
  BY <1>0, <1>2 DEF Parks, Suspend, Resume, restVars
<1>3. ASSUME NEW f \in Fibers, Works(f) PROVE Dead(h)'
  <2>1. CASE h = f
    <3>1. budget' = budget
      BY <1>3, <2>1 DEF Works, Dead
    <3>2. code'[h] = <<>>
      BY <1>3, <1>c, <2>1, <3>1 DEF Works, Dead
    <3> QED BY <3>1, <3>2 DEF Dead, Finishing
  <2>2. CASE h # f
    BY <1>0, <1>3, <1>c, <2>2 DEF Works, Goto, WakeTypes
  <2> QED BY <2>1, <2>2
<1>4. ASSUME NEW f \in Fibers, NEW g \in Fibers, Abort(f, g) PROVE Dead(h)'
  <2>1. CASE h = g
    <3>1. code'[h] = AfterAbort(code[g]) /\ budget'[h] = 0
      BY <1>4, <1>c, <2>1 DEF Abort, Goto, AfterAbort, WakeTypes
    <3>2. Finishing(AfterAbort(code[g]))
      BY <1>c, CodeLength, AbortLeaves
    <3> QED BY <3>1, <3>2 DEF Dead, Finishing, Op
  <2>2. CASE h # g
    BY <1>0, <1>4, <1>c, <2>2 DEF Abort, Goto, WakeTypes
  <2> QED BY <2>1, <2>2
<1> QED BY <1>1, <1>2, <1>3, <1>4, StepOf

-----------------------------------------------------------------------------
(* The places of a process scheduler.                                      *)

Live == {f \in Fibers : ~Dead(f)}

\* Whom a frame of the stack holds.
Members(fr) == IF fr.at = "run" THEN {fr.fiber} ELSE Range(fr.todo) \cup Range(fr.keep)

\* No fiber of L is in the array twice.
OnceIn(q, L) == \A i, j \in 1..Len(q) : q[i] = q[j] /\ q[i] \in L => i = j

\* No fiber of L is in two frames, or in one frame twice.
Apart(s, L) == \A i, j \in 1..Len(s) : \A f \in L : f \in Members(s[i]) /\ f \in Members(s[j]) => i = j
Tidy(fr, L) == fr.at = "wake" => /\ OnceIn(fr.todo, L) /\ OnceIn(fr.keep, L)
                                 /\ Range(fr.todo) \cap Range(fr.keep) \cap L = {}

\* A live fiber of a process is in one place: it runs, it is parked, or a wake
\* has it; and if it does not run it is in the request that parked it.  A dead
\* one may still be where it was parked.
Placed(p, s, L, c) ==
    /\ \A x \in Futexes : OnceIn(p[x], L)
    /\ Apart(s, L)
    /\ \A fr \in Range(s) : Tidy(fr, L)
    /\ \A fr \in Range(s), x \in Futexes : Members(fr) \cap Range(p[x]) \cap L = {}
    /\ \A x \in Futexes, f \in L : f \in Range(p[x]) => c[f] # <<>> /\ WaitsAt(c[f], x)
    /\ \A fr \in Range(s), f \in L : fr.at = "wake" /\ f \in Members(fr) => c[f] # <<>> /\ WaitsAt(c[f], fr.x)
ProcessPlace == Placed(parked, stack, Live, code)

\* Arrays and stacks with fewer fibers to look at.
LEMMA FewerLive ==
    ASSUME NEW L, NEW M, M \subseteq L
    PROVE  /\ \A q : OnceIn(q, L) => OnceIn(q, M)
           /\ \A s : Apart(s, L) => Apart(s, M)
           /\ \A fr : Tidy(fr, L) => Tidy(fr, M)
<1>1. \A q : OnceIn(q, L) => OnceIn(q, M)
  BY DEF OnceIn
<1>2. \A s : Apart(s, L) => Apart(s, M)
  BY DEF Apart
<1>3. \A fr : Tidy(fr, L) => Tidy(fr, M)
  BY <1>1 DEF Tidy
<1> QED BY <1>1, <1>2, <1>3

\* The top comes off a stack.
LEMMA ApartPop ==
    ASSUME NEW L, NEW s \in Seq(Frames), s # <<>>, Apart(s, L)
    PROVE  /\ Apart(Tail(s), L)
           /\ \A fr \in Range(Tail(s)) : Members(Head(s)) \cap Members(fr) \cap L = {}
<1>1. /\ Len(Tail(s)) = Len(s) - 1 /\ Len(s) \in Nat \ {0} /\ Head(s) = s[1] /\ Tail(s) \in Seq(Frames)
      /\ \A i \in 1..Len(Tail(s)) : Tail(s)[i] = s[i + 1]
  BY HeadTailProperties
<1>2. \A i \in 1..Len(Tail(s)) : i + 1 \in 1..Len(s) /\ i + 1 # 1
  BY <1>1
<1>3. ASSUME NEW i \in 1..Len(Tail(s)), NEW j \in 1..Len(Tail(s)), NEW f \in L,
             f \in Members(Tail(s)[i]), f \in Members(Tail(s)[j])
      PROVE  i = j
  <2>1. i + 1 \in 1..Len(s) /\ j + 1 \in 1..Len(s) /\ f \in Members(s[i + 1]) /\ f \in Members(s[j + 1])
    BY <1>1, <1>2, <1>3
  <2>2. i + 1 = j + 1
    BY <2>1 DEF Apart
  <2> QED BY <2>2
<1>4. ASSUME NEW fr \in Range(Tail(s)), NEW f \in L, f \in Members(Head(s)), f \in Members(fr) PROVE FALSE
  <2>1. PICK i \in 1..Len(Tail(s)) : Tail(s)[i] = fr
    <3>1. Tail(s) \in Seq(Frames)
      BY <1>1
    <3> QED BY <3>1, <1>4, RangeSeq
  <2>0. Tail(s)[i] = s[i + 1] /\ Head(s) = s[1]
    BY <1>1
  <2>2. i + 1 \in 1..Len(s) /\ 1 \in 1..Len(s) /\ f \in Members(s[i + 1]) /\ f \in Members(s[1])
    BY <1>1, <1>2, <1>4, <2>0, <2>1
  <2>3. i + 1 = 1
    BY <2>2 DEF Apart
  <2> QED BY <2>3, <1>2
<1> QED BY <1>3, <1>4 DEF Apart

\* A frame goes on a stack.
LEMMA ApartPush ==
    ASSUME NEW L, NEW s \in Seq(Frames), Apart(s, L), NEW fr \in Frames,
           \A e \in Range(s) : Members(fr) \cap Members(e) \cap L = {}
    PROVE  Apart(<<fr>> \o s, L)
<1> PICK r : r = <<fr>> \o s
  OBVIOUS
<1>1. Len(r) = Len(s) + 1 /\ r[1] = fr /\ Len(s) \in Nat /\ \A i \in 1..Len(s) : r[i + 1] = s[i]
  BY PushShape
<1>2. ASSUME NEW j \in 1..Len(r), j # 1 PROVE j - 1 \in 1..Len(s) /\ r[j] = s[j - 1] /\ s[j - 1] \in Range(s)
  <2>1. j - 1 \in 1..Len(s) /\ (j - 1) + 1 = j
    BY <1>1, <1>2
  <2> QED BY <1>1, <2>1, RangeSeq
<1>3. ASSUME NEW i \in 1..Len(r), NEW j \in 1..Len(r), NEW f \in L, f \in Members(r[i]), f \in Members(r[j]) PROVE i = j
  <2>1. CASE i = 1 /\ j # 1
    BY <1>1, <1>2, <1>3, <2>1
  <2>2. CASE i # 1 /\ j = 1
    BY <1>1, <1>2, <1>3, <2>2
  <2>3. CASE i # 1 /\ j # 1
    <3>1. /\ i - 1 \in 1..Len(s) /\ j - 1 \in 1..Len(s)
          /\ f \in Members(s[i - 1]) /\ f \in Members(s[j - 1])
      BY <1>2, <1>3, <2>3
    <3>2. i - 1 = j - 1
      BY <3>1 DEF Apart
    <3> QED BY <3>2
  <2> QED BY <2>1, <2>2, <2>3
<1> QED BY <1>3 DEF Apart

\* Arrays in which a live fiber is once.
LEMMA OnceFacts ==
    ASSUME NEW L, NEW q \in Seq(Fibers), OnceIn(q, L)
    PROVE  /\ \A f \in Fibers : (f \in L => f \notin Range(q)) => OnceIn(Append(q, f), L)
           /\ q # <<>> => OnceIn(Tail(q), L) /\ (Head(q) \in L => Head(q) \notin Range(Tail(q)))
           /\ \A p \in Seq(Fibers) : OnceIn(p, L) /\ Range(p) \cap Range(q) \cap L = {} => OnceIn(p \o q, L)
<1>1. ASSUME NEW f \in Fibers, f \in L => f \notin Range(q) PROVE OnceIn(Append(q, f), L)
  <2>1. /\ Len(Append(q, f)) = Len(q) + 1 /\ Len(q) \in Nat /\ Append(q, f)[Len(q) + 1] = f
        /\ \A i \in 1..Len(q) : Append(q, f)[i] = q[i]
    BY AppendProperties
  <2>2. \A i \in 1..Len(q) : q[i] \in Range(q)
    BY RangeSeq
  <2>3. \A i \in 1..(Len(q) + 1) : i \in 1..Len(q) \/ i = Len(q) + 1
    BY <2>1
  <2> PICK r : r = Append(q, f)
    OBVIOUS
  <2>4. ASSUME NEW i \in 1..Len(r), NEW j \in 1..Len(r), r[i] = r[j], r[i] \in L PROVE i = j
    <3>1. CASE i \in 1..Len(q) /\ j \in 1..Len(q)
      BY <2>1, <2>4, <3>1 DEF OnceIn
    <3>2. CASE i \in 1..Len(q) /\ j = Len(q) + 1
      BY <1>1, <2>1, <2>2, <2>4, <3>2
    <3>3. CASE i = Len(q) + 1 /\ j \in 1..Len(q)
      BY <1>1, <2>1, <2>2, <2>4, <3>3
    <3> QED BY <2>1, <2>3, <3>1, <3>2, <3>3
  <2> QED BY <2>4 DEF OnceIn
<1>2. ASSUME q # <<>> PROVE OnceIn(Tail(q), L) /\ (Head(q) \in L => Head(q) \notin Range(Tail(q)))
  <2>1. /\ Len(Tail(q)) = Len(q) - 1 /\ Len(q) \in Nat \ {0} /\ Head(q) = q[1] /\ Tail(q) \in Seq(Fibers)
        /\ \A i \in 1..Len(Tail(q)) : Tail(q)[i] = q[i + 1]
    BY <1>2, HeadTailProperties
  <2>2. \A i \in 1..Len(Tail(q)) : i + 1 \in 1..Len(q) /\ i + 1 # 1
    BY <2>1
  <2>3. ASSUME NEW i \in 1..Len(Tail(q)), NEW j \in 1..Len(Tail(q)), Tail(q)[i] = Tail(q)[j], Tail(q)[i] \in L PROVE i = j
    <3>1. i + 1 \in 1..Len(q) /\ j + 1 \in 1..Len(q) /\ q[i + 1] = q[j + 1] /\ q[i + 1] \in L
      BY <2>1, <2>2, <2>3
    <3>2. i + 1 = j + 1
      BY <3>1 DEF OnceIn
    <3> QED BY <3>2
  <2>4. ASSUME Head(q) \in L, Head(q) \in Range(Tail(q)) PROVE FALSE
    <3>1. PICK i \in 1..Len(Tail(q)) : Tail(q)[i] = Head(q)
      <4>1. Tail(q) \in Seq(Fibers)
        BY <2>1
      <4> QED BY <4>1, <2>4, RangeSeq
    <3>2. i + 1 \in 1..Len(q) /\ 1 \in 1..Len(q) /\ q[i + 1] = q[1] /\ q[1] \in L
      BY <2>1, <2>2, <2>4, <3>1
    <3>3. i + 1 = 1
      BY <3>2 DEF OnceIn
    <3> QED BY <3>3, <2>2
  <2> QED BY <2>3, <2>4 DEF OnceIn
<1>3. ASSUME NEW p \in Seq(Fibers), OnceIn(p, L), Range(p) \cap Range(q) \cap L = {} PROVE OnceIn(p \o q, L)
  <2> PICK r : r = p \o q
    OBVIOUS
  <2>1. /\ Len(r) = Len(p) + Len(q) /\ Len(p) \in Nat /\ Len(q) \in Nat
        /\ \A i \in 1..Len(r) : r[i] = IF i <= Len(p) THEN p[i] ELSE q[i - Len(p)]
    BY ConcatProperties
  <2>2. ASSUME NEW i \in 1..Len(r)
        PROVE  \/ i \in 1..Len(p) /\ r[i] = p[i] /\ r[i] \in Range(p)
               \/ i - Len(p) \in 1..Len(q) /\ r[i] = q[i - Len(p)] /\ r[i] \in Range(q)
    <3>1. CASE i <= Len(p)
      <4>1. i \in 1..Len(p) /\ r[i] = p[i]
        BY <2>1, <3>1
      <4> QED BY <4>1, RangeSeq
    <3>2. CASE ~(i <= Len(p))
      <4>1. i - Len(p) \in 1..Len(q) /\ r[i] = q[i - Len(p)]
        BY <2>1, <3>2
      <4> QED BY <4>1, RangeSeq
    <3> QED BY <3>1, <3>2
  <2>3. ASSUME NEW i \in 1..Len(r), NEW j \in 1..Len(r), r[i] = r[j], r[i] \in L PROVE i = j
    <3>1. CASE i \in 1..Len(p) /\ r[i] = p[i] /\ j \in 1..Len(p) /\ r[j] = p[j]
      BY <1>3, <2>3, <3>1 DEF OnceIn
    <3>2. CASE i - Len(p) \in 1..Len(q) /\ r[i] = q[i - Len(p)] /\ j - Len(p) \in 1..Len(q) /\ r[j] = q[j - Len(p)]
      <4>1. i - Len(p) = j - Len(p)
        BY <2>3, <3>2 DEF OnceIn
      <4> QED BY <2>1, <4>1
    <3> QED BY <1>3, <2>2, <2>3, <3>1, <3>2
  <2> QED BY <2>3 DEF OnceIn
<1> QED BY <1>1, <1>2, <1>3

\* Whom the frames hold.
LEMMA FrameMembers ==
    /\ \A g \in Fibers : Members(Run(g)) = {g} /\ \A L : Tidy(Run(g), L)
    /\ \A fr \in Frames : fr.at = "wake" => Members(fr) = Range(fr.todo) \cup Range(fr.keep)
<1>1. ASSUME NEW g \in Fibers PROVE Members(Run(g)) = {g} /\ \A L : Tidy(Run(g), L)
  <2>1. Run(g).at = "run" /\ Run(g).fiber = g
    BY FrameFacts
  <2> QED BY <2>1 DEF Members, Tidy
<1>2. ASSUME NEW fr \in Frames, fr.at = "wake" PROVE Members(fr) = Range(fr.todo) \cup Range(fr.keep)
  BY <1>2 DEF Members
<1> QED BY <1>1, <1>2

\* Fewer live fibers, and new code for one that is in no bucket and in no wake.
LEMMA PlacedFewer ==
    ASSUME NEW p, NEW s, NEW L, NEW c, NEW M, NEW d, Placed(p, s, L, c), M \subseteq L,
           \A f \in M : \/ d[f] = c[f]
                        \/ /\ \A x \in Futexes : f \notin Range(p[x])
                           /\ \A fr \in Range(s) : fr.at = "wake" => f \notin Members(fr)
    PROVE  Placed(p, s, M, d)
<1>1. (\A x \in Futexes : OnceIn(p[x], M)) /\ Apart(s, M) /\ \A fr \in Range(s) : Tidy(fr, M)
  BY FewerLive DEF Placed
<1>2. \A fr \in Range(s), x \in Futexes : Members(fr) \cap Range(p[x]) \cap M = {}
  BY DEF Placed
<1>3. \A x \in Futexes, f \in M : f \in Range(p[x]) => d[f] # <<>> /\ WaitsAt(d[f], x)
  BY DEF Placed
<1>4. \A fr \in Range(s), f \in M : fr.at = "wake" /\ f \in Members(fr) => d[f] # <<>> /\ WaitsAt(d[f], fr.x)
  BY DEF Placed
<1> QED BY <1>1, <1>2, <1>3, <1>4 DEF Placed

\* The top frame goes.
LEMMA PlacedPop ==
    ASSUME NEW p, NEW s \in Seq(Frames), s # <<>>, NEW L, NEW c, Placed(p, s, L, c) PROVE Placed(p, Tail(s), L, c)
<1>1. Apart(Tail(s), L)
  BY ApartPop DEF Placed
<1>2. Range(Tail(s)) \subseteq Range(s)
  BY PopStack
<1> QED BY <1>1, <1>2 DEF Placed

\* A frame comes whose fibers are nowhere else.
LEMMA PlacedPush ==
    ASSUME NEW p, NEW s \in Seq(Frames), NEW L, NEW c, Placed(p, s, L, c), NEW fr \in Frames, Tidy(fr, L),
           \A e \in Range(s) : Members(fr) \cap Members(e) \cap L = {},
           \A x \in Futexes : Members(fr) \cap Range(p[x]) \cap L = {},
           \A f \in L : fr.at = "wake" /\ f \in Members(fr) => c[f] # <<>> /\ WaitsAt(c[f], fr.x)
    PROVE  Placed(p, <<fr>> \o s, L, c)
<1>1. Apart(<<fr>> \o s, L)
  BY ApartPush DEF Placed
<1>2. Range(<<fr>> \o s) = {fr} \cup Range(s)
  BY PushStack
<1> QED BY <1>1, <1>2 DEF Placed

\* The top frame changes to one with no other fibers.
LEMMA PlacedChange ==
    ASSUME NEW p, NEW s \in Seq(Frames), s # <<>>, NEW L, NEW c, Placed(p, s, L, c), NEW fr \in Frames, Tidy(fr, L),
           Head(s).at = "wake", fr.at = "wake", fr.x = Head(s).x, Members(fr) \subseteq Members(Head(s))
    PROVE  Placed(p, <<fr>> \o Tail(s), L, c)
<1>1. Placed(p, Tail(s), L, c) /\ Tail(s) \in Seq(Frames) /\ Head(s) \in Range(s)
  BY PlacedPop, PopStack
<1>2. \A e \in Range(Tail(s)) : Members(Head(s)) \cap Members(e) \cap L = {}
  BY ApartPop DEF Placed
<1>3. \A e \in Range(Tail(s)) : Members(fr) \cap Members(e) \cap L = {}
  BY <1>2
<1>4. \A x \in Futexes : Members(fr) \cap Range(p[x]) \cap L = {}
  BY <1>1 DEF Placed
<1>5. \A f \in L : fr.at = "wake" /\ f \in Members(fr) => c[f] # <<>> /\ WaitsAt(c[f], fr.x)
  BY <1>1 DEF Placed
<1> QED BY <1>1, <1>3, <1>4, <1>5, PlacedPush

\* The fiber that runs parks where its code says.
LEMMA PlacedPark ==
    ASSUME NEW p \in [Futexes -> Seq(Fibers)], NEW s \in Seq(Frames), NEW L, NEW c, Placed(p, s, L, c),
           NEW f \in Fibers, s # <<>>, Head(s) = Run(f), NEW x \in Futexes, c[f] # <<>>, WaitsAt(c[f], x)
    PROVE  Placed([p EXCEPT ![x] = Append(@, f)], Tail(s), L, c)
<1> PICK q : q = [p EXCEPT ![x] = Append(p[x], f)]
  OBVIOUS
<1>1. Placed(p, Tail(s), L, c) /\ Tail(s) \in Seq(Frames) /\ Head(s) \in Range(s)
  BY PlacedPop, PopStack
<1>2. Members(Head(s)) = {f}
  BY FrameMembers
<1>3. \A e \in Range(Tail(s)) : f \in L => f \notin Members(e)
  BY <1>2, ApartPop DEF Placed
<1>4. \A y \in Futexes : f \in L => f \notin Range(p[y])
  BY <1>1, <1>2 DEF Placed
<1>5. p[x] \in Seq(Fibers) /\ OnceIn(p[x], L)
  BY DEF Placed
<1>6. Range(Append(p[x], f)) = Range(p[x]) \cup {f} /\ OnceIn(Append(p[x], f), L)
  <2>1. Range(Append(p[x], f)) = Range(p[x]) \cup {f}
    BY <1>5, AppendRange
  <2>2. \A g \in Fibers : (g \in L => g \notin Range(p[x])) => OnceIn(Append(p[x], g), L)
    BY <1>5, OnceFacts
  <2> QED BY <1>4, <2>1, <2>2
<1>7. \A y \in Futexes : q[y] = p[y] \/ (y = x /\ q[y] = Append(p[x], f))
  OBVIOUS
<1>8. \A y \in Futexes : Range(q[y]) = Range(p[y]) \/ (y = x /\ Range(q[y]) = Range(p[y]) \cup {f})
  BY <1>6, <1>7
<1>9. \A y \in Futexes : OnceIn(q[y], L)
  BY <1>6, <1>7 DEF Placed
<1>10. \A e \in Range(Tail(s)), y \in Futexes : Members(e) \cap Range(q[y]) \cap L = {}
  BY <1>1, <1>3, <1>8 DEF Placed
<1>11. \A y \in Futexes, g \in L : g \in Range(q[y]) => c[g] # <<>> /\ WaitsAt(c[g], y)
  BY <1>8 DEF Placed
<1>12. Placed(q, Tail(s), L, c)
  BY <1>1, <1>9, <1>10, <1>11 DEF Placed
<1> QED BY <1>12

\* A wake takes the whole bucket.
LEMMA PlacedWake ==
    ASSUME NEW p \in [Futexes -> Seq(Fibers)], NEW s \in Seq(Frames), NEW L, NEW c, Placed(p, s, L, c),
           NEW x \in Futexes, NEW fr \in Frames, fr.at = "wake", fr.x = x, fr.todo = p[x], fr.keep = <<>>
    PROVE  Placed([p EXCEPT ![x] = <<>>], <<fr>> \o s, L, c)
<1> PICK q : q = [p EXCEPT ![x] = <<>>]
  OBVIOUS
<1>0. Range(<<>>) = {} /\ \A M : OnceIn(<<>>, M)
  BY DEF Range, OnceIn
<1>1. Members(fr) = Range(p[x])
  BY <1>0, FrameMembers
<1>2. \A y \in Futexes : Range(q[y]) \subseteq Range(p[y]) /\ OnceIn(q[y], L) /\ (y = x => Range(q[y]) = {})
  BY <1>0 DEF Placed
<1>3. Placed(q, s, L, c)
  BY <1>2 DEF Placed
<1>4. Tidy(fr, L)
  BY <1>0 DEF Placed, Tidy
<1>5. ASSUME NEW y \in Futexes PROVE Members(fr) \cap Range(q[y]) \cap L = {}
  <2>1. ASSUME NEW g \in L, g \in Range(p[x]), g \in Range(q[y]) PROVE FALSE
    <3>1. WaitsAt(c[g], x) /\ WaitsAt(c[g], y)
      BY <1>2, <2>1 DEF Placed
    <3>2. x = y
      BY <3>1 DEF WaitsAt
    <3> QED BY <1>2, <2>1, <3>2
  <2> QED BY <1>1, <2>1
<1>6. Placed(q, <<fr>> \o s, L, c)
  <2>1. \A e \in Range(s) : Members(fr) \cap Members(e) \cap L = {}
    BY <1>1 DEF Placed
  <2>2. \A f \in L : fr.at = "wake" /\ f \in Members(fr) => c[f] # <<>> /\ WaitsAt(c[f], fr.x)
    BY <1>1 DEF Placed
  <2> QED BY <1>3, <1>4, <1>5, <2>1, <2>2, PlacedPush
<1> QED BY <1>6

\* A wake that is over puts back whom it kept.
LEMMA PlacedBack ==
    ASSUME NEW p \in [Futexes -> Seq(Fibers)], NEW s \in Seq(Frames), s # <<>>, NEW L, NEW c, Placed(p, s, L, c),
           NEW fr \in Frames, fr = Head(s), fr.at = "wake"
    PROVE  Placed([p EXCEPT ![fr.x] = fr.keep \o @], Tail(s), L, c)
<1>x. fr.x \in Futexes /\ fr.keep \in Seq(Fibers) /\ p[fr.x] \in Seq(Fibers)
  BY WakeFrames
<1> PICK q : q = [p EXCEPT ![fr.x] = fr.keep \o p[fr.x]]
  OBVIOUS
<1>1. Placed(p, Tail(s), L, c) /\ fr \in Range(s)
  BY PlacedPop, PopStack
<1>2. Range(fr.keep) \subseteq Members(fr) /\ OnceIn(fr.keep, L)
  BY <1>1, FrameMembers DEF Placed, Tidy
<1>3. OnceIn(p[fr.x], L) /\ Range(fr.keep) \cap Range(p[fr.x]) \cap L = {}
  BY <1>x, <1>1, <1>2 DEF Placed
<1>4. OnceIn(fr.keep \o p[fr.x], L)
  BY <1>x, <1>2, <1>3, OnceFacts
<1>5. Range(fr.keep \o p[fr.x]) = Range(fr.keep) \cup Range(p[fr.x])
  BY <1>x, RangeConcatenation
<1>6. \A y \in Futexes : q[y] = p[y] \/ (y = fr.x /\ q[y] = fr.keep \o p[fr.x])
  BY <1>x
<1>7. \A y \in Futexes : OnceIn(q[y], L)
  BY <1>4, <1>6 DEF Placed
<1>8. \A y \in Futexes : Range(q[y]) = Range(p[y]) \/ (y = fr.x /\ Range(q[y]) = Range(fr.keep) \cup Range(p[y]))
  BY <1>5, <1>6
<1>9. \A e \in Range(Tail(s)) : Members(e) \cap Range(fr.keep) \cap L = {}
  BY <1>2, ApartPop DEF Placed
<1>10. \A e \in Range(Tail(s)), y \in Futexes : Members(e) \cap Range(q[y]) \cap L = {}
  BY <1>1, <1>8, <1>9 DEF Placed
<1>11. \A y \in Futexes, g \in L : g \in Range(q[y]) => c[g] # <<>> /\ WaitsAt(c[g], y)
  BY <1>1, <1>2, <1>8 DEF Placed
<1>12. Placed(q, Tail(s), L, c)
  BY <1>1, <1>7, <1>10, <1>11 DEF Placed
<1> QED BY <1>12

\* A wake goes on to its next candidate.
LEMMA RestTidy ==
    ASSUME NEW L, NEW fr \in Frames, fr.at = "wake", fr.todo # <<>>, Tidy(fr, L), NEW r \in Frames, r.at = "wake",
           r.todo = Tail(fr.todo), r.keep = fr.keep \/ r.keep = Append(fr.keep, Head(fr.todo))
    PROVE  /\ Tidy(r, L) /\ Members(r) \subseteq Members(fr) /\ Head(fr.todo) \in Members(fr)
           /\ r.keep = fr.keep /\ Head(fr.todo) \in L => Head(fr.todo) \notin Members(r)
<1> PICK g : g = Head(fr.todo)
  OBVIOUS
<1>1. fr.todo \in Seq(Fibers) /\ fr.keep \in Seq(Fibers)
  BY WakeFrames
<1>2. /\ g \in Fibers /\ Tail(fr.todo) \in Seq(Fibers) /\ g \in Range(fr.todo) /\ Range(Tail(fr.todo)) \subseteq Range(fr.todo)
  BY <1>1, TailRange, HeadTailProperties, RangeSeq
<1>3. OnceIn(fr.todo, L) /\ OnceIn(fr.keep, L) /\ Range(fr.todo) \cap Range(fr.keep) \cap L = {}
  BY DEF Tidy
<1>4. OnceIn(Tail(fr.todo), L) /\ (g \in L => g \notin Range(Tail(fr.todo)))
  BY <1>1, <1>3, OnceFacts
<1>5. Members(fr) = Range(fr.todo) \cup Range(fr.keep) /\ Members(r) = Range(Tail(fr.todo)) \cup Range(r.keep)
  BY FrameMembers
<1>6. CASE r.keep = fr.keep
  <2>1. Tidy(r, L)
    BY <1>2, <1>3, <1>4, <1>6 DEF Tidy
  <2> QED BY <1>2, <1>3, <1>4, <1>5, <1>6, <2>1
<1>7. CASE r.keep = Append(fr.keep, g) /\ r.keep # fr.keep
  <2>1. Range(Append(fr.keep, g)) = Range(fr.keep) \cup {g}
    BY <1>1, <1>2, AppendRange
  <2>2. \A h \in Fibers : (h \in L => h \notin Range(fr.keep)) => OnceIn(Append(fr.keep, h), L)
    BY <1>1, <1>3, OnceFacts
  <2>3. OnceIn(r.keep, L)
    BY <1>2, <1>3, <1>7, <2>2
  <2>4. Range(r.todo) \cap Range(r.keep) \cap L = {}
    BY <1>2, <1>3, <1>4, <1>7, <2>1
  <2>5. Tidy(r, L)
    BY <1>4, <2>3, <2>4 DEF Tidy
  <2> QED BY <1>2, <1>5, <1>7, <2>1, <2>5
<1> QED BY <1>6, <1>7

\* The fibers of a process keep their places.
LEMMA ProcessPlaceKept ==
    ASSUME SyncInv, WakeTypes, host = "process", ProcessPlace, Next PROVE ProcessPlace'
<1>t. /\ SchedTypes /\ CodesHold /\ parked \in [Futexes -> Seq(Fibers)] /\ stack \in Seq(Frames)
      /\ code \in [Fibers -> Codes(kind)] /\ kind \in AllKinds
  BY DEF SyncInv, PlaceHolds, SchedTypes, CodesHold
<1>p. Placed(parked, stack, Live, code)
  BY DEF ProcessPlace
<1>l. Live' \subseteq Live
  BY <1>t, DeadStays DEF Live
<1> PICK p, s, L, M, c, d, q, r : /\ p = parked /\ s = stack /\ L = Live /\ M = Live' /\ c = code /\ d = code'
                                  /\ q = parked' /\ r = stack'
  OBVIOUS
<1>g. M \subseteq L /\ Placed(p, s, L, c) /\ p \in [Futexes -> Seq(Fibers)] /\ s \in Seq(Frames)
  BY <1>t, <1>p, <1>l
<1> SUFFICES Placed(q, r, M, d)
  BY DEF ProcessPlace
<1>s. ASSUME Placed(q, r, L, c), d = c PROVE Placed(q, r, M, d)
  BY <1>g, <1>s, PlacedFewer
<1>1. CASE Wakes
  <2> PICK fr : fr = Head(s)
    OBVIOUS
  <2>1. s # <<>> /\ fr.at = "wake" /\ ProcessWakes(fr) /\ d = c
    BY <1>1 DEF Wakes, LoopWakes
  <2>2. fr \in Frames /\ Tail(s) \in Seq(Frames) /\ fr \in Range(s)
    BY <1>g, <2>1, PopStack
  <2>3. Tidy(fr, L) /\ fr.x \in Futexes /\ fr.todo \in Seq(Fibers)
    BY <1>g, <2>1, <2>2, WakeFrames DEF Placed
  <2>4. CASE fr.todo = <<>> /\ r = Tail(s) /\ q = [p EXCEPT ![fr.x] = fr.keep \o @]
    <3>1. Placed([p EXCEPT ![fr.x] = fr.keep \o @], Tail(s), L, c)
      BY <1>g, <2>1, <2>2, PlacedBack
    <3> QED BY <1>s, <2>1, <2>4, <3>1
  <2>5. ASSUME fr.todo # <<>>, q = p, NEW e \in Frames, e.at = "wake", e.x = fr.x, e.todo = Tail(fr.todo),
               e.keep = fr.keep \/ e.keep = Append(fr.keep, Head(fr.todo)),
               r = <<e>> \o Tail(s) \/ (e.keep = fr.keep /\ r = <<Run(Head(fr.todo))>> \o (<<e>> \o Tail(s)))
        PROVE  Placed(q, r, M, d)
    <3> PICK g : g = Head(fr.todo)
      OBVIOUS
    <3>0. g \in Fibers
      BY <2>3, <2>5, HeadTailProperties
    <3>1. /\ Tidy(e, L) /\ Members(e) \subseteq Members(fr) /\ g \in Members(fr)
          /\ e.keep = fr.keep /\ g \in L => g \notin Members(e)
      BY <2>1, <2>2, <2>3, <2>5, RestTidy
    <3>2. Placed(p, <<e>> \o Tail(s), L, c)
      BY <1>g, <2>1, <2>5, <3>1, PlacedChange
    <3>3. CASE r = <<e>> \o Tail(s)
      BY <1>s, <2>1, <2>5, <3>2, <3>3
    <3>4. CASE e.keep = fr.keep /\ r = <<Run(g)>> \o (<<e>> \o Tail(s))
      <4>1. <<e>> \o Tail(s) \in Seq(Frames) /\ Range(<<e>> \o Tail(s)) = {e} \cup Range(Tail(s))
        BY <2>2, PushStack
      <4>2. Run(g) \in Frames /\ Members(Run(g)) = {g} /\ Tidy(Run(g), L) /\ Run(g).at # "wake"
        BY <3>0, FrameFacts, FrameMembers
      <4>3. \A h \in Range(Tail(s)) : Members(fr) \cap Members(h) \cap L = {}
        BY <1>g, <2>1, ApartPop DEF Placed
      <4>4. \A h \in Range(<<e>> \o Tail(s)) : Members(Run(g)) \cap Members(h) \cap L = {}
        BY <3>1, <3>4, <4>1, <4>2, <4>3
      <4>5. \A x \in Futexes : Members(Run(g)) \cap Range(p[x]) \cap L = {}
        BY <1>g, <2>2, <3>1, <4>2 DEF Placed
      <4>6. Placed(p, <<Run(g)>> \o (<<e>> \o Tail(s)), L, c)
        BY <3>2, <4>1, <4>2, <4>4, <4>5, PlacedPush
      <4> QED BY <1>s, <2>1, <2>5, <3>4, <4>6
    <3> QED BY <2>5, <3>3, <3>4
  <2>6. \/ fr.todo = <<>> /\ stack' = Tail(stack) /\ parked' = [parked EXCEPT ![fr.x] = fr.keep \o @]
        \/ /\ fr.todo # <<>> /\ parked' = parked
           /\ \E e \in Frames : /\ e.at = "wake" /\ e.x = fr.x /\ e.todo = Tail(fr.todo)
                                /\ e.keep = fr.keep \/ e.keep = Append(fr.keep, Head(fr.todo))
                                /\ \/ stack' = <<e>> \o Tail(stack)
                                   \/ e.keep = fr.keep /\ stack' = <<Run(Head(fr.todo))>> \o (<<e>> \o Tail(stack))
    BY <1>t, <2>1, ProcessTop
  <2> QED BY <2>4, <2>5, <2>6
<1>w. ASSUME NEW x \in Futexes, NEW n \in Int, Wake(x, n), NEW N, NEW b, Placed(p, s, N, b) PROVE Placed(q, r, N, b)
  <2>1. CASE parked[x] = <<>>
    <3>1. q = p /\ r = s
      BY <1>w, <2>1 DEF Wake
    <3> QED BY <1>w, <3>1
  <2>2. CASE parked[x] # <<>>
    <3> PICK fr : fr = WakeFrame(x, n)
      OBVIOUS
    <3>1. fr \in Frames /\ fr.at = "wake" /\ fr.x = x /\ fr.todo = p[x] /\ fr.keep = <<>>
      BY <1>g, FrameFacts DEF WakeFrame
    <3>2. r = <<fr>> \o s /\ q = [p EXCEPT ![x] = <<>>]
      BY <1>w, <2>2 DEF Wake
    <3>3. Placed([p EXCEPT ![x] = <<>>], <<fr>> \o s, N, b)
      BY <1>g, <1>w, <3>1, PlacedWake
    <3> QED BY <3>2, <3>3
  <2> QED BY <2>1, <2>2
<1>2. CASE WakeReady
  <2>1. d = c /\ \E x \in Futexes : Wake(x, -1)
    BY <1>2 DEF WakeReady
  <2> QED BY <1>g, <1>s, <1>w, <2>1
<1>3. ASSUME NEW f \in Fibers, Parks(f) PROVE Placed(q, r, M, d)
  <2>1. PICK x \in Futexes : WaitsAt(code[f], x) /\ Park(f, x)
    BY <1>3 DEF Parks
  <2>2. d = c /\ c[f] # <<>> /\ WaitsAt(c[f], x) /\ s # <<>> /\ Head(s) = Run(f)
    BY <1>3, <2>1 DEF Parks, Running
  <2>3. q = [p EXCEPT ![x] = Append(@, f)] /\ r = Tail(s)
    BY <2>1 DEF Park
  <2>4. Placed([p EXCEPT ![x] = Append(@, f)], Tail(s), L, c)
    BY <1>g, <2>2, PlacedPark
  <2> QED BY <1>s, <2>2, <2>3, <2>4
<1>4. ASSUME NEW f \in Fibers, Works(f) PROVE Placed(q, r, M, d)
  <2>1. s # <<>> /\ Head(s) = Run(f)
    BY <1>4 DEF Works, Running
  <2>2. /\ Head(s) \in Range(s) /\ Range(s) = {Run(f)} \cup Range(Tail(s)) /\ Members(Head(s)) = {f} /\ Run(f).at = "run"
    BY <1>g, <2>1, PopStack, FrameMembers, FrameFacts
  <2>3. \A e \in Range(Tail(s)) : Members(Head(s)) \cap Members(e) \cap L = {}
    BY <1>g, <2>1, ApartPop DEF Placed
  <2>4. f \in L => /\ \A x \in Futexes : f \notin Range(p[x])
                   /\ \A fr \in Range(s) : fr.at = "wake" => f \notin Members(fr)
    BY <1>g, <2>2, <2>3 DEF Placed
  <2>5. \A h \in M : d[h] = c[h] \/ h = f
    <3>1. M \subseteq Fibers
      BY DEF Live
    <3> QED BY <1>4, <1>t, <3>1 DEF Works, Goto
  <2>6. Placed(p, s, M, d)
    BY <1>g, <2>4, <2>5, PlacedFewer
  <2>7. CASE UNCHANGED <<parked, stack>>
    BY <2>6, <2>7
  <2> QED BY <1>4, <1>w, <2>6, <2>7 DEF Works
<1>5. ASSUME NEW f \in Fibers, Suspend(f) PROVE Placed(q, r, M, d)
  <2>1. d = c /\ q = p /\ r = Tail(s) /\ s # <<>>
    BY <1>5 DEF Suspend, InBody, Running
  <2> QED BY <1>g, <1>s, <2>1, PlacedPop
<1>6. ASSUME NEW f \in Fibers, Resume(f) PROVE Placed(q, r, M, d)
  <2>1. d = c /\ q = p /\ s = <<>> /\ r = <<Run(f)>> \o s
    BY <1>6, Joined DEF Resume
  <2>2. \A x \in Futexes : f \notin Range(p[x])
    BY <1>6, <1>t, WaitsParked DEF Resume
  <2>3. Range(s) = {}
    BY <2>1 DEF Range
  <2>4. Run(f) \in Frames /\ Members(Run(f)) = {f} /\ Tidy(Run(f), L) /\ Run(f).at # "wake"
    BY FrameFacts, FrameMembers
  <2>5. Placed(p, <<Run(f)>> \o s, L, c)
    BY <1>g, <2>2, <2>3, <2>4, PlacedPush
  <2> QED BY <1>s, <2>1, <2>5
<1>7. ASSUME NEW f \in Fibers, NEW g \in Fibers, Abort(f, g) PROVE Placed(q, r, M, d)
  <2>1. q = p /\ r = <<Run(g)>> \o s /\ d = [c EXCEPT ![g] = AfterAbort(c[g])] /\ budget'[g] = 0
    BY <1>7 DEF Abort, Goto, AfterAbort, WakeTypes
  <2>2. Finishing(AfterAbort(c[g]))
    BY <1>t, CodeLength, AbortLeaves
  <2>3. Dead(g)'
    <3>1. code'[g] = AfterAbort(code[g])
      BY <1>t, <2>1
    <3> QED BY <2>1, <2>2, <3>1 DEF Dead, Finishing, Op
  <2>4. g \notin M
    BY <2>3 DEF Live
  <2>5. \A h \in M : d[h] = c[h]
    BY <1>t, <2>1, <2>4
  <2>6. Placed(p, s, M, d)
    BY <1>g, <2>5, PlacedFewer
  <2>7. Run(g) \in Frames /\ Members(Run(g)) = {g} /\ Tidy(Run(g), M) /\ Run(g).at # "wake"
    BY FrameFacts, FrameMembers
  <2>8. (\A e \in Range(s) : Members(Run(g)) \cap Members(e) \cap M = {}) /\ \A x \in Futexes : Members(Run(g)) \cap Range(p[x]) \cap M = {}
    BY <2>4, <2>7
  <2>9. Placed(p, <<Run(g)>> \o s, M, d)
    BY <1>g, <2>6, <2>7, <2>8, PlacedPush
  <2> QED BY <2>1, <2>9
<1> QED BY <1>t, <1>1, <1>2, <1>3, <1>4, <1>5, <1>6, <1>7, StepOf

-----------------------------------------------------------------------------
(* The queue's steps.                                                      *)

Conds == {"full", "empty"}
\* Whose call waits on a condition, and the other condition.
User(x) == IF x = "full" THEN "put" ELSE "take"
Other(x) == IF x = "full" THEN "empty" ELSE "full"

\* How many of the calls that wait on x could be answered.
Surplus(x) == IF x = "full" THEN Cap - Len(buf) ELSE Len(buf)

\* The codes a fiber can have: a put waits on "full" and a take on "empty".
QCode(c) ==
    \/ c \in Served
    \/ \E a \in QCalls : c \in {QAct(a), QBack("main", a)}
    \/ \E x \in Conds : c \in {QBack(x, User(x)), QWait(x, User(x)), QRelease(x, User(x)), QPark(x, User(x))}
QFine == kind = "queue" => \A f \in Fibers : QCode(code[f])

\* A code's first instruction, and what is left after it; an abort leaves nothing.
Is(c, op, x, d) == c # <<>> /\ Op(c) = op /\ Arg(c) = x /\ Tail(c) = d /\ AfterAbort(c) = <<>>

\* What the codes are.
LEMMA QIs ==
    /\ \A a \in QCalls : Is(QAct(a), a, "main", <<>>) /\ Is(QBack("main", a), "acquire", "main", QAct(a))
    /\ \A x \in Conds : /\ Is(QBack(x, User(x)), "acquire", x, QAct(User(x)))
                        /\ Is(QWait(x, User(x)), "wait", x, QAct(User(x)))
                        /\ Is(QRelease(x, User(x)), "release", x, QPark(x, User(x)))
                        /\ Is(QPark(x, User(x)), "park", x, QBack(x, User(x)))
                        /\ Is(QNotify(x), "notify", x, QDone)
    /\ Is(QClose, "broadcast", "full", QClosing) /\ Is(QClosing, "broadcast", "empty", QDone)
    /\ Is(QDone, "release", "main", <<>>)
<1>s. ASSUME NEW c, NEW op, NEW x, NEW d, Shape(c, op, x, d, <<>>) PROVE Is(c, op, x, d)
  BY <1>s DEF Is, Shape, Op, Arg
<1>1. ASSUME NEW a \in QCalls PROVE Is(QAct(a), a, "main", <<>>) /\ Is(QBack("main", a), "acquire", "main", QAct(a))
  <2>1. Shape(QAct(a), a, "main", <<>>, <<>>) /\ Shape(QBack("main", a), "acquire", "main", QAct(a), <<>>)
    BY QueueShapes DEF QCalls
  <2> QED BY <1>s, <2>1
<1>2. ASSUME NEW x \in Conds
      PROVE  /\ Is(QBack(x, User(x)), "acquire", x, QAct(User(x)))
             /\ Is(QWait(x, User(x)), "wait", x, QAct(User(x)))
             /\ Is(QRelease(x, User(x)), "release", x, QPark(x, User(x)))
             /\ Is(QPark(x, User(x)), "park", x, QBack(x, User(x)))
             /\ Is(QNotify(x), "notify", x, QDone)
  <2>0. PICK a \in {"put", "take", "close"} : a = User(x)
    BY DEF User
  <2>1. x \in {"main", "full", "empty"}
    BY DEF Conds
  <2>2. /\ Shape(QBack(x, a), "acquire", x, QAct(a), <<>>) /\ Shape(QWait(x, a), "wait", x, QAct(a), <<>>)
        /\ Shape(QRelease(x, a), "release", x, QPark(x, a), <<>>) /\ Shape(QPark(x, a), "park", x, QBack(x, a), <<>>)
        /\ Shape(QNotify(x), "notify", x, QDone, <<>>)
    BY <2>1, QueueShapes
  <2>3. /\ Is(QBack(x, a), "acquire", x, QAct(a)) /\ Is(QWait(x, a), "wait", x, QAct(a))
        /\ Is(QRelease(x, a), "release", x, QPark(x, a)) /\ Is(QPark(x, a), "park", x, QBack(x, a))
        /\ Is(QNotify(x), "notify", x, QDone)
    BY <1>s, <2>2
  <2> QED BY <2>0, <2>3
<1>3. Is(QClose, "broadcast", "full", QClosing) /\ Is(QClosing, "broadcast", "empty", QDone) /\ Is(QDone, "release", "main", <<>>)
  BY <1>s, QueueShapes
<1> QED BY <1>1, <1>2, <1>3

\* A fiber begins a call, comes into the lock, ...
QBegins(f) ==
    /\ code[f] = <<>> /\ \E a \in QCalls : Goto(f, QBack("main", a))
    /\ UNCHANGED <<word, parked, stack, mem, buf, closed>>
QEnters(f) ==
    /\ \E a \in QCalls, x \in Futexes : Is(code[f], "acquire", x, QAct(a)) /\ Goto(f, QAct(a))
    /\ word["main"] = 0 /\ word' = [word EXCEPT !["main"] = 1]
    /\ UNCHANGED <<parked, stack, mem, buf, closed>>
\* ... finds it has to wait, is served, is refused, closes the queue, ...
QWaits(f) ==
    /\ \E x \in Conds : code[f] = QAct(User(x)) /\ ~closed /\ Surplus(x) <= 0 /\ Goto(f, QWait(x, User(x)))
    /\ UNCHANGED <<word, parked, stack, mem, buf, closed>>
QServes(f) ==
    /\ \E x \in Conds : /\ code[f] = QAct(User(x)) /\ Surplus(x) > 0 /\ Goto(f, QNotify(Other(x)))
                        /\ Surplus(x)' = Surplus(x) - 1 /\ Surplus(Other(x))' = Surplus(Other(x)) + 1
    /\ UNCHANGED <<word, parked, stack, mem, closed>>
QFails(f) ==
    /\ \E x \in Conds : code[f] = QAct(User(x)) /\ closed /\ Goto(f, QDone)
    /\ UNCHANGED <<word, parked, stack, mem, buf, closed>>
QCloses(f) ==
    /\ code[f] = QAct("close") /\ closed' /\ Goto(f, QClose)
    /\ UNCHANGED <<word, parked, stack, mem, buf>>
\* ... reads the condition's word, frees the lock, sees the word changed, and
\* wakes one fiber, or all when the queue was closed.
QReads(f) ==
    /\ \E x \in Conds : /\ code[f] = QWait(x, User(x)) /\ Goto(f, QRelease(x, User(x)))
                        /\ mem' = [mem EXCEPT ![f] = word[x]]
    /\ UNCHANGED <<word, parked, stack, buf, closed>>
QFrees(f) ==
    /\ \/ \E x \in Conds : code[f] = QRelease(x, User(x)) /\ Goto(f, QPark(x, User(x)))
       \/ code[f] = QDone /\ Goto(f, <<>>)
    /\ word' = [word EXCEPT !["main"] = 0] /\ Wake("main", 1)
    /\ UNCHANGED <<mem, buf, closed>>
QLooks(f) ==
    /\ \E x \in Conds : code[f] = QPark(x, User(x)) /\ word[x] # mem[f] /\ Goto(f, QBack(x, User(x)))
    /\ UNCHANGED <<word, parked, stack, mem, buf, closed>>
QNotifies(f) ==
    /\ \E x \in Conds : /\ \/ code[f] = QNotify(x) /\ Goto(f, QDone) /\ Wake(x, 1)
                           \/ x = "full" /\ code[f] = QClose /\ Goto(f, QClosing) /\ Wake(x, Everyone)
                           \/ x = "empty" /\ code[f] = QClosing /\ Goto(f, QDone) /\ Wake(x, Everyone)
                        /\ word' = [word EXCEPT ![x] = word[x] + 1]
    /\ UNCHANGED <<mem, buf, closed>>

QWorks(f) ==
    /\ Running(f)
    /\ \/ QBegins(f) \/ QEnters(f) \/ QWaits(f) \/ QServes(f) \/ QFails(f) \/ QCloses(f) \/ QReads(f) \/ QFrees(f)
       \/ QLooks(f) \/ QNotifies(f)

\* Nothing changes but the stack and the buckets.
QRests ==
    /\ UNCHANGED <<word, code, mem, buf, closed>>
    /\ Wakes \/ WakeReady \/ \E f \in Fibers : Parks(f) \/ Suspend(f) \/ Resume(f)
QAborts(f, g) ==
    /\ Abort(f, g) /\ code[f] = <<>> /\ Goto(g, <<>>)
    /\ UNCHANGED <<word, mem, buf, closed>>

\* The codes by their first instruction.
QByOp(c) ==
    /\ Op(c) \in QCalls \cup {"acquire", "park", "release", "wait", "notify", "broadcast"}
    /\ Op(c) \in QCalls => c = QAct(Op(c))
    /\ Op(c) = "acquire" => \E a \in QCalls, x \in Futexes : Is(c, "acquire", x, QAct(a))
    /\ Op(c) = "park" => \E x \in Conds : c = QPark(x, User(x))
    /\ Op(c) = "wait" => \E x \in Conds : c = QWait(x, User(x))
    /\ Op(c) = "release" => c = QDone \/ \E x \in Conds : c = QRelease(x, User(x))
    /\ Op(c) = "notify" => \E x \in Conds : c = QNotify(x)
    /\ Op(c) = "broadcast" => c = QClose \/ c = QClosing
    /\ AfterAbort(c) = <<>>

\* The codes are such codes.
LEMMA QOps == ASSUME NEW c, QCode(c), c # <<>> PROVE QByOp(c)
<1>u. \A x \in Conds : User(x) \in QCalls /\ x \in Futexes
  BY DEF Conds, User, QCalls, Futexes
<1>q. "main" \in Futexes /\ QCalls = {"put", "take", "close"}
  BY DEF Futexes, QCalls
<1>1. ASSUME NEW a \in QCalls, c = QAct(a) PROVE QByOp(c)
  BY <1>1, <1>q, QIs DEF Is, QByOp
<1>2. ASSUME NEW a \in QCalls, c = QBack("main", a) PROVE QByOp(c)
  <2>1. Is(c, "acquire", "main", QAct(a))
    BY <1>2, QIs
  <2>2. Op(c) = "acquire" /\ AfterAbort(c) = <<>>
    BY <2>1 DEF Is
  <2> QED BY <1>q, <2>1, <2>2 DEF QByOp
<1>3. ASSUME NEW x \in Conds, c = QBack(x, User(x)) PROVE QByOp(c)
  <2>1. Is(c, "acquire", x, QAct(User(x)))
    BY <1>3, QIs
  <2>2. Op(c) = "acquire" /\ AfterAbort(c) = <<>>
    BY <2>1 DEF Is
  <2> QED BY <1>q, <1>u, <2>1, <2>2 DEF QByOp
<1>4. ASSUME NEW x \in Conds, c \in {QWait(x, User(x)), QRelease(x, User(x)), QPark(x, User(x)), QNotify(x)} PROVE QByOp(c)
  <2>1. CASE c = QWait(x, User(x))
    BY <1>q, <2>1, QIs DEF Is, QByOp
  <2>2. CASE c = QRelease(x, User(x))
    BY <1>q, <2>2, QIs DEF Is, QByOp
  <2>3. CASE c = QPark(x, User(x))
    BY <1>q, <2>3, QIs DEF Is, QByOp
  <2>4. CASE c = QNotify(x)
    BY <1>q, <2>4, QIs DEF Is, QByOp
  <2> QED BY <1>4, <2>1, <2>2, <2>3, <2>4
<1>5. ASSUME c \in {QClose, QClosing, QDone} PROVE QByOp(c)
  BY <1>5, <1>q, QIs DEF Is, QByOp
<1>6. "full" \in Conds /\ "empty" \in Conds
  BY DEF Conds
<1> QED BY <1>1, <1>2, <1>3, <1>4, <1>5, <1>6 DEF QCode, Served

\* What a queue holds and has room for, after a put and after a take.
LEMMA QData ==
    ASSUME BufHolds
    PROVE  /\ \A x \in Conds : Surplus(x) \in Int
           /\ \A f \in Fibers : buf' = Append(buf, f) => Surplus("full")' = Surplus("full") - 1 /\ Surplus("empty")' = Surplus("empty") + 1
           /\ buf # <<>> /\ buf' = Tail(buf) => Surplus("full")' = Surplus("full") + 1 /\ Surplus("empty")' = Surplus("empty") - 1
           /\ buf = <<>> <=> Surplus("empty") <= 0
           /\ Len(buf) >= Cap <=> Surplus("full") <= 0
<1>1. Len(buf) \in Nat /\ Cap \in Int /\ (buf = <<>> <=> Len(buf) = 0)
  BY SyncAssumption, EmptySeq DEF BufHolds
<1>2. \A f \in Fibers : Len(Append(buf, f)) = Len(buf) + 1
  BY AppendProperties DEF BufHolds
<1>3. buf # <<>> => Len(Tail(buf)) = Len(buf) - 1
  BY HeadTailProperties DEF BufHolds
<1> QED BY <1>1, <1>2, <1>3 DEF Surplus

\* Every step of a queue is one of these.
LEMMA QStep ==
    ASSUME kind = "queue", CodesHold, SchedTypes, WakeTypes, BufHolds, QFine, Next
    PROVE  QRests \/ \E f \in Fibers : QWorks(f) \/ \E g \in Fibers : QAborts(f, g)
<1>t. code \in [Fibers -> Codes(kind)] /\ "main" \in Futexes /\ \A f \in Fibers : code[f] # <<>> => QByOp(code[f])
  BY QOps DEF CodesHold, QFine, Futexes
<1>k. "full" \in Conds /\ "empty" \in Conds /\ Conds \subseteq Futexes
  BY DEF Conds, Futexes
<1>u. User("full") = "put" /\ User("empty") = "take" /\ Other("full") = "empty" /\ Other("empty") = "full"
  BY DEF User, Other
<1>q. QCalls = {"put", "take", "close"}
  BY DEF QCalls
<1>r. ASSUME Wakes \/ WakeReady \/ \E f \in Fibers : Parks(f) \/ Suspend(f) \/ Resume(f) PROVE QRests
  BY <1>r DEF QRests, Wakes, WakeReady, Parks, Suspend, Resume, dataVars
<1>1. CASE WakeNext \/ WakeReady
  BY <1>1, <1>r DEF WakeNext, Wakes
<1>2. ASSUME NEW f \in Fibers, Call(f) PROVE QRests \/ QWorks(f)
  <2>0. Running(f) /\ code[f] # <<>> /\ QByOp(code[f]) /\ Head(code[f])[2] = Arg(code[f])
    BY <1>2, <1>t, CallOps DEF Arg
  <2>1. CASE Parks(f)
    BY <2>1, <1>r
  <2>g. CASE ~Parks(f)
    <3>1. CASE FutexWait(f) /\ Op(code[f]) = "park"
      <4>1. PICK x \in Conds : code[f] = QPark(x, User(x))
        BY <2>0, <3>1 DEF QByOp
      <4>2. Arg(code[f]) = x /\ Tail(code[f]) = QBack(x, User(x)) /\ WaitsAt(code[f], x)
        BY <3>1, <4>1, QIs DEF Is, WaitsAt
      <4>3. word[x] # mem[f]
        <5>1. ASSUME word[x] = mem[f] PROVE FALSE
          <6>1. Park(f, x) /\ UNCHANGED <<dataVars, restVars, word, code, mem>>
            BY <2>0, <3>1, <4>2, <5>1 DEF FutexWait
          <6> QED BY <1>k, <2>0, <2>g, <3>1, <4>2, <5>1, <6>1 DEF Parks
        <5> QED BY <5>1
      <4>4. Go(f) /\ UNCHANGED <<word, parked, stack, mem, buf, closed>>
        BY <2>0, <3>1, <4>2, <4>3 DEF FutexWait, dataVars
      <4>5. QLooks(f)
        BY <4>1, <4>2, <4>3, <4>4 DEF QLooks, Go
      <4> QED BY <2>0, <4>5 DEF QWorks
    <3>2. CASE Acquire(f) /\ Op(code[f]) = "acquire"
      <4>1. PICK a \in QCalls, x \in Futexes : Is(code[f], "acquire", x, QAct(a))
        BY <2>0, <3>2 DEF QByOp
      <4>2. word["main"] = 0
        <5>1. ASSUME word["main"] # 0 PROVE FALSE
          <6>1. Park(f, "main") /\ UNCHANGED <<dataVars, restVars, word, code, mem>>
            BY <3>2, <5>1 DEF Acquire
          <6> QED BY <1>t, <2>0, <2>g, <3>2, <5>1, <6>1 DEF Parks, WaitsAt
        <5> QED BY <5>1
      <4>3. Set("main", 1) /\ Go(f) /\ UNCHANGED <<parked, stack, mem, buf, closed>>
        BY <3>2, <4>2 DEF Acquire, dataVars
      <4>4. Goto(f, QAct(a))
        BY <4>1, <4>3 DEF Go, Is
      <4>5. QEnters(f)
        BY <4>1, <4>2, <4>3, <4>4 DEF QEnters, Set
      <4> QED BY <2>0, <4>5 DEF QWorks
    <3>3. CASE Release(f)
      <4>1. Op(code[f]) = "release"
        <5>1. Op(code[f]) \in {"release", "ensure"}
          BY <3>3 DEF Release, Doing, Op
        <5> QED BY <1>q, <2>0, <5>1 DEF QByOp
      <4>2. Set("main", 0) /\ Wake("main", 1) /\ Goto(f, Tail(code[f])) /\ UNCHANGED <<mem, buf, closed>>
        BY <3>3 DEF Release, WakeOne, Go, dataVars
      <4>3. CASE code[f] = QDone
        <5>1. Tail(code[f]) = <<>>
          BY <4>3, QIs DEF Is
        <5> QED BY <2>0, <4>2, <4>3, <5>1 DEF QWorks, QFrees, Set
      <4>4. ASSUME NEW x \in Conds, code[f] = QRelease(x, User(x)) PROVE QWorks(f)
        <5>1. Tail(code[f]) = QPark(x, User(x))
          BY <4>4, QIs DEF Is
        <5> QED BY <2>0, <4>2, <4>4, <5>1 DEF QWorks, QFrees, Set
      <4> QED BY <2>0, <4>1, <4>3, <4>4 DEF QByOp
    <3>4. CASE CvWait(f) /\ Op(code[f]) = "wait"
      <4>1. PICK x \in Conds : code[f] = QWait(x, User(x))
        BY <2>0, <3>4 DEF QByOp
      <4>2. Arg(code[f]) = x /\ Tail(code[f]) = QAct(User(x))
        BY <4>1, QIs DEF Is
      <4>3. <<<<"release", x>>, <<"park", x>>, <<"acquire", x>>>> \o QAct(User(x)) = QRelease(x, User(x))
        BY Joined DEF QAct, QRelease
      <4>4. /\ mem' = [mem EXCEPT ![f] = word[x]] /\ Goto(f, QRelease(x, User(x)))
            /\ UNCHANGED <<word, parked, stack, buf, closed>>
        BY <2>0, <3>4, <4>2, <4>3 DEF CvWait, dataVars
      <4>5. QReads(f)
        BY <4>1, <4>4 DEF QReads
      <4> QED BY <2>0, <4>5 DEF QWorks
    <3>5. CASE Notify(f) /\ Op(code[f]) \in {"notify", "broadcast"}
      <4>0. UNCHANGED <<mem, buf, closed>> /\ Goto(f, Tail(code[f]))
        BY <3>5 DEF Notify, Go, dataVars
      <4>1. CASE Op(code[f]) = "notify"
        <5>1. PICK x \in Conds : code[f] = QNotify(x)
          BY <2>0, <4>1 DEF QByOp
        <5>2. Arg(code[f]) = x /\ Tail(code[f]) = QDone
          BY <5>1, QIs DEF Is
        <5>3. ~Doing(f, "broadcast")
          BY <4>1 DEF Doing, Op
        <5>4. Set(x, word[x] + 1) /\ Wake(x, 1)
          <6>1. PICK n \in {1, Everyone} : /\ Doing(f, IF n = 1 THEN "notify" ELSE "broadcast")
                                           /\ NextGeneration(Head(code[f])[2]) /\ Wake(Head(code[f])[2], n)
            BY <3>5 DEF Notify
          <6>2. n = 1
            BY <5>3, <6>1
          <6> QED BY <2>0, <5>2, <6>1, <6>2 DEF NextGeneration
        <5>5. QNotifies(f)
          BY <4>0, <5>1, <5>2, <5>4 DEF QNotifies, Set
        <5> QED BY <2>0, <5>5 DEF QWorks
      <4>2. CASE Op(code[f]) = "broadcast"
        <5>0. PICK x \in Conds : x = Arg(code[f]) /\ \/ x = "full" /\ code[f] = QClose /\ Tail(code[f]) = QClosing
                                                     \/ x = "empty" /\ code[f] = QClosing /\ Tail(code[f]) = QDone
          <6>1. CASE code[f] = QClose
            BY <6>1, <1>k, QIs DEF Is
          <6>2. CASE code[f] = QClosing
            BY <6>2, <1>k, QIs DEF Is
          <6> QED BY <2>0, <4>2, <6>1, <6>2 DEF QByOp
        <5>1. ~Doing(f, "notify")
          BY <4>2 DEF Doing, Op
        <5>2. Set(x, word[x] + 1) /\ Wake(x, Everyone)
          <6>1. PICK n \in {1, Everyone} : /\ Doing(f, IF n = 1 THEN "notify" ELSE "broadcast")
                                           /\ NextGeneration(Head(code[f])[2]) /\ Wake(Head(code[f])[2], n)
            BY <3>5 DEF Notify
          <6>2. n = Everyone
            BY <5>1, <6>1
          <6> QED BY <2>0, <5>0, <6>1, <6>2 DEF NextGeneration
        <5>3. QNotifies(f)
          BY <4>0, <5>0, <5>2 DEF QNotifies, Set
        <5> QED BY <2>0, <5>3 DEF QWorks
      <4> QED BY <3>5, <4>1, <4>2
    <3>6. CASE QueuePut(f) /\ Op(code[f]) = "put"
      <4>1. code[f] = QAct("put")
        BY <1>q, <2>0, <3>6 DEF QByOp
      <4>2. UNCHANGED <<word, parked, stack, mem, closed>>
        BY <3>6 DEF QueuePut
      <4>3. CASE ~closed /\ Len(buf) >= Cap
        <5>1. Goto(f, <<<<"wait", "full">>>> \o QAct("put")) /\ buf' = buf
          BY <3>6, <4>1, <4>3 DEF QueuePut, WaitAndLook
        <5>2. <<<<"wait", "full">>>> \o QAct("put") = QWait("full", "put")
          BY Joined DEF QAct, QWait
        <5>3. QWaits(f)
          BY <1>k, <1>u, <4>1, <4>2, <4>3, <5>1, <5>2, QData DEF QWaits
        <5> QED BY <2>0, <5>3 DEF QWorks
      <4>4. CASE closed
        <5>1. Goto(f, QDone) /\ buf' = buf
          BY <3>6, <4>4 DEF QueuePut, QDone
        <5>2. QFails(f)
          BY <1>k, <1>u, <4>1, <4>2, <4>4, <5>1 DEF QFails
        <5> QED BY <2>0, <5>2 DEF QWorks
      <4>5. CASE ~closed /\ ~(Len(buf) >= Cap)
        <5>1. Goto(f, QNotify("empty")) /\ buf' = Append(buf, f)
          BY <3>6, <4>5 DEF QueuePut, QNotify
        <5>2. Surplus("full") > 0 /\ Surplus("full")' = Surplus("full") - 1 /\ Surplus("empty")' = Surplus("empty") + 1
          <6>1. Surplus("full") \in Int /\ ~(Surplus("full") <= 0)
            BY <1>k, <4>5, QData
          <6> QED BY <5>1, <6>1, QData
        <5>3. QServes(f)
          BY <1>k, <1>u, <4>1, <4>2, <5>1, <5>2 DEF QServes
        <5> QED BY <2>0, <5>3 DEF QWorks
      <4> QED BY <4>3, <4>4, <4>5
    <3>7. CASE QueueTake(f) /\ Op(code[f]) = "take"
      <4>1. code[f] = QAct("take")
        BY <1>q, <2>0, <3>7 DEF QByOp
      <4>2. UNCHANGED <<word, parked, stack, mem, closed>>
        BY <3>7 DEF QueueTake
      <4>3. CASE ~closed /\ buf = <<>>
        <5>1. Goto(f, <<<<"wait", "empty">>>> \o QAct("take")) /\ buf' = buf
          BY <3>7, <4>1, <4>3 DEF QueueTake, WaitAndLook
        <5>2. <<<<"wait", "empty">>>> \o QAct("take") = QWait("empty", "take")
          BY Joined DEF QAct, QWait
        <5>3. QWaits(f)
          BY <1>k, <1>u, <4>1, <4>2, <4>3, <5>1, <5>2, QData DEF QWaits
        <5> QED BY <2>0, <5>3 DEF QWorks
      <4>4. CASE closed /\ buf = <<>>
        <5>1. Goto(f, QDone) /\ buf' = buf
          BY <3>7, <4>4 DEF QueueTake, QDone
        <5>2. QFails(f)
          BY <1>k, <1>u, <4>1, <4>2, <4>4, <5>1 DEF QFails
        <5> QED BY <2>0, <5>2 DEF QWorks
      <4>5. CASE buf # <<>>
        <5>1. Goto(f, QNotify("full")) /\ buf' = Tail(buf)
          BY <3>7, <4>5 DEF QueueTake, QNotify
        <5>2. Surplus("empty") > 0 /\ Surplus("empty")' = Surplus("empty") - 1 /\ Surplus("full")' = Surplus("full") + 1
          <6>1. Surplus("empty") \in Int /\ ~(Surplus("empty") <= 0)
            BY <1>k, <4>5, QData
          <6> QED BY <4>5, <5>1, <6>1, QData
        <5>3. QServes(f)
          BY <1>k, <1>u, <4>1, <4>2, <5>1, <5>2 DEF QServes
        <5> QED BY <2>0, <5>3 DEF QWorks
      <4> QED BY <4>3, <4>4, <4>5
    <3>8. CASE QueueClose(f) /\ Op(code[f]) = "close"
      <4>1. code[f] = QAct("close")
        BY <1>q, <2>0, <3>8 DEF QByOp
      <4>2. QCloses(f)
        BY <3>8, <4>1 DEF QueueClose, QCloses, QClose
      <4> QED BY <2>0, <4>2 DEF QWorks
    <3>9. Op(code[f]) \in {"park", "acquire", "release", "wait", "notify", "broadcast", "put", "take", "close"}
      BY <1>q, <2>0 DEF QByOp
    <3> QED BY <1>2, <3>1, <3>2, <3>3, <3>4, <3>5, <3>6, <3>7, <3>8, <3>9, CallOps
  <2> QED BY <2>1, <2>g
<1>b. \A f \in Fibers : code[f] # <<>> => Op(code[f]) # "body"
  BY <1>q, <1>t DEF QByOp
<1>3. ASSUME NEW f \in Fibers, Begin(f) PROVE QWorks(f)
  <2>1. Operations = {<<<<"acquire", "main">>, <<a, "main">>>> : a \in {"put", "take", "close"}}
    BY DEF Operations
  <2>2. PICK a \in QCalls : Goto(f, QBack("main", a))
    BY <1>3, <1>q, <2>1 DEF Begin, QBack
  <2>3. QBegins(f)
    BY <1>3, <2>2 DEF Begin, QBegins, dataVars
  <2> QED BY <1>3, <2>3 DEF QWorks, Begin
<1>4. ASSUME NEW f \in Fibers, LeaveBody(f) \/ InMonitor(f) PROVE FALSE
  BY <1>4, <1>b DEF LeaveBody, InMonitor, Doing, Op
<1>5. ASSUME NEW f \in Fibers, NEW g \in Fibers, Abort(f, g) PROVE QAborts(f, g)
  <2>1. code[f] = <<>>
    BY <1>5, <1>b DEF Abort, InBody, Op
  <2>2. code[g] # <<>> /\ Goto(g, AfterAbort(code[g])) /\ UNCHANGED <<word, mem, buf, closed>>
    BY <1>5 DEF Abort, AfterAbort, dataVars
  <2>3. AfterAbort(code[g]) = <<>>
    BY <1>t, <2>2 DEF QByOp
  <2> QED BY <1>5, <2>1, <2>2, <2>3 DEF QAborts
<1> QED BY <1>1, <1>2, <1>3, <1>4, <1>5, <1>r DEF Next

\* A put waits on "full" and a take on "empty" for good.
LEMMA QFineKept == ASSUME CodesHold, SchedTypes, WakeTypes, BufHolds, QFine, Next PROVE QFine'
<1>k. kind' = kind
  BY SameObject
<1> SUFFICES ASSUME kind = "queue" PROVE \A f \in Fibers : QCode(code'[f])
  BY <1>k DEF QFine, QCode
<1>c. code \in [Fibers -> Codes(kind)] /\ \A f \in Fibers : QCode(code[f])
  BY DEF CodesHold, QFine
<1>g. ASSUME NEW f \in Fibers, NEW d, Goto(f, d), QCode(d) PROVE \A h \in Fibers : QCode(code'[h])
  BY <1>c, <1>g DEF Goto
<1>0. /\ QCode(<<>>) /\ QCode(QDone) /\ QCode(QClose) /\ QCode(QClosing)
      /\ \A a \in QCalls : QCode(QAct(a)) /\ QCode(QBack("main", a))
      /\ \A x \in Conds : /\ QCode(QNotify(x)) /\ Other(x) \in Conds
                          /\ QCode(QBack(x, User(x))) /\ QCode(QWait(x, User(x))) /\ QCode(QRelease(x, User(x))) /\ QCode(QPark(x, User(x)))
  BY DEF QCode, Served, Conds, Other
<1>1. CASE QRests
  BY <1>1, <1>c DEF QRests
<1>2. ASSUME NEW f \in Fibers, QWorks(f) PROVE \E d : Goto(f, d) /\ QCode(d)
  <2>1. CASE QBegins(f) \/ QEnters(f)
    BY <1>0, <2>1 DEF QBegins, QEnters
  <2>2. CASE QWaits(f) \/ QServes(f)
    BY <1>0, <2>2 DEF QWaits, QServes
  <2>3. CASE QFails(f) \/ QCloses(f) \/ QReads(f)
    BY <1>0, <2>3 DEF QFails, QCloses, QReads
  <2>4. CASE QFrees(f) \/ QLooks(f) \/ QNotifies(f)
    BY <1>0, <2>4 DEF QFrees, QLooks, QNotifies
  <2> QED BY <1>2, <2>1, <2>2, <2>3, <2>4 DEF QWorks
<1>3. ASSUME NEW f \in Fibers, NEW g \in Fibers, QAborts(f, g) PROVE \A h \in Fibers : QCode(code'[h])
  BY <1>0, <1>3, <1>g DEF QAborts
<1> QED BY <1>1, <1>2, <1>3, <1>g, QStep

-----------------------------------------------------------------------------
(* Why a fiber stopped.                                                    *)

\* Somebody in the queue's lock has one fiber, or all, still to wake.
Telling(x) == \E h \in Fibers : code[h] = QNotify(x)
Closing(x) == \E h \in Fibers : code[h] = QClose \/ (x = "empty" /\ code[h] = QClosing)

\* The word that a fiber of the queue read has changed, or there was and is
\* nothing for it, or a wake is still to be made.
QStops(x, f) ==
    /\ mem[f] <= word[x]
    /\ mem[f] = word[x] => (~closed /\ (Surplus(x) <= 0 \/ Telling(x))) \/ Closing(x)

\* The read-write lock's generation has changed, or it is still no time to read
\* or to write.
RwShut(a, f) == mem[f] <= word["main"] /\ (mem[f] = word["main"] => IF a = "read" THEN rw < 0 ELSE rw # 0)

\* A fiber parks, or is about to, on a word that said it had to wait: as long as
\* the word is the same, it has to.
RwStops ==
    kind = "rwlock" => /\ rw \in Int
                       /\ \A f \in Fibers, a \in {"read", "write"} : code[f] = RwPark(a) => RwShut(a, f)
BarrierStops == kind = "barrier" => \A f \in Fibers : Stopped(code[f]) => mem[f] # Everyone
LatchStops == (kind = "latch" => LatchInv) /\ (kind = "once" => OnceInv)
QueueStops ==
    kind = "queue" => \A f \in Fibers, x \in Conds :
        /\ code[f] = QWait(x, User(x)) => Running(f) /\ ~closed /\ Surplus(x) <= 0
        /\ code[f] = QRelease(x, User(x)) \/ code[f] = QPark(x, User(x)) => QStops(x, f)
StopInv == RwStops /\ BarrierStops /\ LatchStops /\ QueueStops

\* A wake still to be made is made before its fiber stops.
LEMMA PendingStays ==
    ASSUME kind = "queue", SyncInv, WakeTypes, BufHolds, QFine, Busy, Next, NEW x \in Conds
    PROVE  /\ Telling(x) => Telling(x)' \/ word'[x] = word[x] + 1
           /\ Closing(x) => Closing(x)' \/ (word'[x] = word[x] + 1 /\ Wake(x, Everyone))
<1>t. SchedTypes /\ CodesHold /\ code \in [Fibers -> Codes(kind)] /\ word \in [Futexes -> Int] /\ Conds \subseteq Futexes /\ "main" \notin Conds
  BY DEF SyncInv, PlaceHolds, SchedTypes, CodesHold, Conds, Futexes
<1>1. ASSUME NEW h \in Fibers, code[h] # <<>>, Op(code[h]) \in {"notify", "broadcast"}, code'[h] # code[h] PROVE QNotifies(h)
  <2>0. Run(h) \in Range(stack)
    BY <1>1 DEF Busy
  <2>1. ASSUME NEW f \in Fibers, NEW g \in Fibers, QAborts(f, g) PROVE FALSE
    <3>1. h = g
      BY <1>t, <1>1, <2>1 DEF QAborts, Goto
    <3> QED BY <1>t, <2>0, <2>1, <3>1, RunningTop DEF QAborts, Abort
  <2>2. ASSUME NEW f \in Fibers, QWorks(f) PROVE QNotifies(h)
    <3>1. \E d : Goto(f, d)
      BY <2>2 DEF QWorks, QBegins, QEnters, QWaits, QServes, QFails, QCloses, QReads, QFrees, QLooks, QNotifies
    <3>2. f = h
      BY <1>t, <1>1, <3>1 DEF Goto
    <3>3. ~QBegins(f) /\ ~QEnters(f)
      BY <1>1, <3>2 DEF QBegins, QEnters, Is
    <3>4. ~QWaits(f) /\ ~QServes(f) /\ ~QFails(f) /\ ~QCloses(f)
      <4>1. \A a \in QCalls : code[h] # QAct(a)
        BY <1>1, QIs DEF Is, QCalls
      <4>2. \A y \in Conds : User(y) \in QCalls
        BY DEF Conds, User, QCalls
      <4>3. "close" \in QCalls
        BY DEF QCalls
      <4> QED BY <3>2, <4>1, <4>2, <4>3 DEF QWaits, QServes, QFails, QCloses
    <3>5. ~QReads(f) /\ ~QFrees(f) /\ ~QLooks(f)
      BY <1>1, <3>2, QIs DEF Is, QReads, QFrees, QLooks
    <3> QED BY <2>2, <3>2, <3>3, <3>4, <3>5 DEF QWorks
  <2> QED BY <1>t, <1>1, <2>1, <2>2, QStep DEF QRests
<1>2. ASSUME NEW h \in Fibers, code[h] = QNotify(x) PROVE Telling(x)' \/ word'[x] = word[x] + 1
  <2>1. CASE code'[h] = code[h]
    BY <1>2, <2>1 DEF Telling
  <2>2. CASE code'[h] # code[h]
    <3>1. code[h] # <<>> /\ Op(code[h]) = "notify" /\ Arg(code[h]) = x
      BY <1>2, QIs DEF Is
    <3>2. QNotifies(h)
      BY <1>1, <2>2, <3>1
    <3>3. PICK y \in Conds : word' = [word EXCEPT ![y] = word[y] + 1] /\ (code[h] = QNotify(y) \/ code[h] = QClose \/ code[h] = QClosing)
      BY <3>2 DEF QNotifies
    <3>4. y = x
      BY <3>1, <3>3, QIs DEF Is
    <3> QED BY <1>t, <3>3, <3>4
  <2> QED BY <2>1, <2>2
<1>3. ASSUME NEW h \in Fibers, code[h] = QClose \/ (x = "empty" /\ code[h] = QClosing)
      PROVE  Closing(x)' \/ (word'[x] = word[x] + 1 /\ Wake(x, Everyone))
  <2>1. CASE code'[h] = code[h]
    BY <1>3, <2>1 DEF Closing
  <2>2. CASE code'[h] # code[h]
    <3>1. code[h] # <<>> /\ Op(code[h]) = "broadcast" /\ (code[h] = QClose => Arg(code[h]) = "full") /\ (code[h] = QClosing => Arg(code[h]) = "empty")
      BY <1>3, QIs DEF Is
    <3>2. QNotifies(h)
      BY <1>1, <2>2, <3>1
    <3>3. PICK y \in Conds : /\ word' = [word EXCEPT ![y] = word[y] + 1]
                             /\ \/ code[h] = QNotify(y)
                                \/ y = "full" /\ code[h] = QClose /\ Goto(h, QClosing) /\ Wake(y, Everyone)
                                \/ y = "empty" /\ code[h] = QClosing /\ Wake(y, Everyone)
      BY <3>2 DEF QNotifies
    <3>4. code[h] # QNotify(y)
      BY <3>1, QIs DEF Is
    <3>5. CASE y = x
      BY <1>t, <3>3, <3>4, <3>5
    <3>6. CASE y # x
      <4>1. code[h] = QClose /\ x = "empty" /\ Goto(h, QClosing)
        BY <1>3, <3>1, <3>3, <3>4, <3>6 DEF Conds
      <4>2. code'[h] = QClosing
        BY <1>t, <4>1 DEF Goto
      <4> QED BY <4>1, <4>2 DEF Closing
    <3> QED BY <3>5, <3>6
  <2> QED BY <2>1, <2>2
<1> QED BY <1>2, <1>3 DEF Telling, Closing

\* A step of the queue moves one fiber.
LEMMA QMover ==
    ASSUME kind = "queue", CodesHold, SchedTypes, WakeTypes, BufHolds, QFine, Next, NEW h \in Fibers
    PROVE  QWorks(h) \/ (mem'[h] = mem[h] /\ (code'[h] = code[h] \/ code'[h] = <<>>))
<1>c. code \in [Fibers -> Codes(kind)] /\ mem \in [Fibers -> Int]
  BY DEF CodesHold, WakeTypes
<1>1. CASE QRests
  BY <1>1 DEF QRests
<1>2. ASSUME NEW f \in Fibers, NEW g \in Fibers, QAborts(f, g) PROVE mem'[h] = mem[h] /\ (code'[h] = code[h] \/ code'[h] = <<>>)
  BY <1>2, <1>c DEF QAborts, Goto
<1>3. ASSUME NEW f \in Fibers, QWorks(f), f # h PROVE mem'[h] = mem[h] /\ code'[h] = code[h]
  <2>1. \E d : Goto(f, d)
    BY <1>3 DEF QWorks, QBegins, QEnters, QWaits, QServes, QFails, QCloses, QReads, QFrees, QLooks, QNotifies
  <2>2. mem' = mem \/ \E n : mem' = [mem EXCEPT ![f] = n]
    BY <1>3 DEF QWorks, QBegins, QEnters, QWaits, QServes, QFails, QCloses, QReads, QFrees, QLooks, QNotifies
  <2> QED BY <1>3, <1>c, <2>1, <2>2 DEF Goto
<1> QED BY <1>1, <1>2, <1>3, QStep

\* The words of the conditions only grow.
LEMMA QWords ==
    ASSUME kind = "queue", CodesHold, SchedTypes, WakeTypes, BufHolds, QFine, Next, NEW x \in Conds
    PROVE  word'[x] = word[x] \/ word'[x] = word[x] + 1
<1>t. word \in [Futexes -> Int] /\ Conds \subseteq Futexes /\ "main" \notin Conds
  BY DEF SchedTypes, Conds, Futexes
<1>1. ASSUME NEW f \in Fibers, QWorks(f) PROVE word'[x] = word[x] \/ word'[x] = word[x] + 1
  <2>1. CASE QNotifies(f)
    BY <1>t, <2>1 DEF QNotifies
  <2>2. CASE ~QNotifies(f)
    <3>1. word' = word \/ \E v : word' = [word EXCEPT !["main"] = v]
      BY <1>1, <2>2 DEF QWorks, QBegins, QEnters, QWaits, QServes, QFails, QCloses, QReads, QFrees, QLooks
    <3> QED BY <1>t, <3>1
  <2> QED BY <2>1, <2>2
<1> QED BY <1>1, QStep DEF QRests, QAborts

\* What is there for the fibers that wait on x grows when one has a wake to
\* make, and so it is when the queue closes.
LEMMA QGrows ==
    ASSUME kind = "queue", CodesHold, SchedTypes, WakeTypes, BufHolds, QFine, Next, NEW x \in Conds
    PROVE  /\ closed' = closed \/ (closed' /\ Closing(x)')
           /\ Surplus(x)' <= Surplus(x) \/ Telling(x)'
<1>t. code \in [Fibers -> Codes(kind)] /\ Surplus(x) \in Int
  BY QData DEF CodesHold
<1>u. buf' = buf => Surplus(x)' = Surplus(x)
  BY DEF Surplus
<1>1. CASE QRests
  BY <1>1, <1>t, <1>u DEF QRests
<1>2. ASSUME NEW f \in Fibers, NEW g \in Fibers, QAborts(f, g)
      PROVE  closed' = closed /\ Surplus(x)' <= Surplus(x)
  BY <1>2, <1>t, <1>u DEF QAborts
<1>3. ASSUME NEW f \in Fibers, QWorks(f)
      PROVE  /\ closed' = closed \/ (closed' /\ Closing(x)')
             /\ Surplus(x)' <= Surplus(x) \/ Telling(x)'
  <2>1. CASE QServes(f)
    <3>1. PICK y \in Conds : /\ Goto(f, QNotify(Other(y)))
                             /\ Surplus(y)' = Surplus(y) - 1 /\ Surplus(Other(y))' = Surplus(Other(y)) + 1
      BY <2>1 DEF QServes
    <3>2. closed' = closed
      BY <2>1 DEF QServes
    <3>3. CASE x = y
      BY <1>t, <3>1, <3>2, <3>3
    <3>4. CASE x # y
      <4>1. x = Other(y)
        BY <3>4 DEF Conds, Other
      <4>2. code'[f] = QNotify(x)
        BY <1>t, <3>1, <4>1 DEF Goto
      <4> QED BY <3>2, <4>2 DEF Telling
    <3> QED BY <3>3, <3>4
  <2>2. CASE QCloses(f)
    <3>1. code'[f] = QClose /\ closed' /\ buf' = buf
      BY <1>t, <2>2 DEF QCloses, Goto
    <3>2. Closing(x)'
      BY <3>1 DEF Closing
    <3>3. Surplus(x)' <= Surplus(x)
      BY <1>t, <1>u, <3>1
    <3> QED BY <3>1, <3>2, <3>3
  <2>3. CASE ~QServes(f) /\ ~QCloses(f)
    <3>1. buf' = buf /\ closed' = closed
      BY <1>3, <2>3 DEF QWorks, QBegins, QEnters, QWaits, QFails, QReads, QFrees, QLooks, QNotifies
    <3> QED BY <1>t, <1>u, <3>1
  <2> QED BY <2>1, <2>2, <2>3
<1> QED BY <1>1, <1>2, <1>3, QStep

\* A reason to stop lasts while the word does.
LEMMA QStopsStay ==
    ASSUME kind = "queue", SyncInv, WakeTypes, BufHolds, QFine, Busy, Next, NEW x \in Conds, NEW f \in Fibers,
           QStops(x, f), mem'[f] = mem[f]
    PROVE  QStops(x, f)'
<1>t. SchedTypes /\ CodesHold /\ word[x] \in Int /\ mem[f] \in Int /\ Surplus(x) \in Int
  BY QData DEF SyncInv, PlaceHolds, SchedTypes, Conds, Futexes, WakeTypes
<1>s. Surplus(x)' \in Int
  <2>1. BufHolds'
    BY BufKept
  <2>2. Len(buf') \in Nat /\ Cap \in Int
    BY <2>1, SyncAssumption DEF BufHolds
  <2> QED BY <2>2 DEF Surplus
<1>1. CASE word'[x] = word[x] + 1
  <2>1. mem'[f] <= word'[x] /\ mem'[f] # word'[x]
    BY <1>1, <1>t DEF QStops
  <2> QED BY <2>1 DEF QStops
<1>2. CASE word'[x] = word[x]
  <2>1. mem'[f] <= word'[x]
    BY <1>2 DEF QStops
  <2>n. word'[x] # word[x] + 1
    BY <1>2, <1>t
  <2>p. (Telling(x) => Telling(x)') /\ (Closing(x) => Closing(x)')
    BY <2>n, PendingStays
  <2>g. /\ closed' = closed \/ (closed' /\ Closing(x)')
        /\ Surplus(x)' <= Surplus(x) \/ Telling(x)'
    BY <1>t, QGrows
  <2>2. ASSUME mem'[f] = word'[x] PROVE (~closed' /\ (Surplus(x)' <= 0 \/ Telling(x)')) \/ Closing(x)'
    <3>1. (~closed /\ (Surplus(x) <= 0 \/ Telling(x))) \/ Closing(x)
      BY <1>2, <2>2 DEF QStops
    <3> QED BY <1>s, <1>t, <2>p, <2>g, <3>1
  <2> QED BY <2>1, <2>2 DEF QStops
<1> QED BY <1>1, <1>2, <1>t, QWords

\* A fiber of the queue stops for a reason.
LEMMA QueueStopsKept ==
    ASSUME SyncInv, WakeTypes, BufHolds, QFine, Busy, QueueStops, Next PROVE QueueStops'
<1>t. SchedTypes /\ CodesHold /\ code \in [Fibers -> Codes(kind)] /\ mem \in [Fibers -> Int] /\ word \in [Futexes -> Int]
  BY DEF SyncInv, PlaceHolds, SchedTypes, CodesHold, WakeTypes
<1>k. kind' = kind
  BY SameObject
<1> SUFFICES ASSUME kind = "queue", NEW f \in Fibers, NEW x \in Conds
             PROVE  /\ code'[f] = QWait(x, User(x)) => Running(f)' /\ ~closed' /\ Surplus(x)' <= 0
                    /\ code'[f] = QRelease(x, User(x)) \/ code'[f] = QPark(x, User(x)) => QStops(x, f)'
  BY <1>k DEF QueueStops
<1>x. x \in Futexes /\ word[x] \in Int
  BY <1>t DEF Conds, Futexes
<1>i. /\ code[f] = QWait(x, User(x)) => Running(f) /\ ~closed /\ Surplus(x) <= 0
      /\ code[f] = QRelease(x, User(x)) \/ code[f] = QPark(x, User(x)) => QStops(x, f)
  BY DEF QueueStops
<1>o. /\ Is(QWait(x, User(x)), "wait", x, QAct(User(x))) /\ Is(QRelease(x, User(x)), "release", x, QPark(x, User(x)))
      /\ Is(QPark(x, User(x)), "park", x, QBack(x, User(x)))
  BY QIs
<1>d. /\ QWait(x, User(x)) # QRelease(x, User(x)) /\ QWait(x, User(x)) # QPark(x, User(x))
      /\ QRelease(x, User(x)) # QPark(x, User(x)) /\ QWait(x, User(x)) # <<>> /\ QRelease(x, User(x)) # <<>> /\ QPark(x, User(x)) # <<>>
  BY <1>o DEF Is
<1>m. ASSUME QWorks(f)
      PROVE  \E d : /\ code'[f] = d
                    /\ \/ d = <<>> \/ Op(d) \in QCalls \cup {"acquire", "notify", "broadcast"} \/ d = QDone
                       \/ QWaits(f) \/ QReads(f) \/ QFrees(f)
  <2>1. CASE QBegins(f) \/ QEnters(f)
    BY <1>t, <2>1, QIs DEF QBegins, QEnters, Goto, Is
  <2>2. CASE QServes(f) \/ QCloses(f)
    <3>1. \A y \in Conds : Other(y) \in Conds
      BY DEF Other, Conds
    <3> QED BY <1>t, <2>2, <3>1, QIs DEF QServes, QCloses, Goto, Is
  <2>3. CASE QFails(f) \/ QLooks(f) \/ QNotifies(f)
    BY <1>t, <2>3, QIs DEF QFails, QLooks, QNotifies, Goto, Is
  <2> QED BY <1>m, <2>1, <2>2, <2>3 DEF QWorks
<1>n. /\ Op(QWait(x, User(x))) \notin QCalls \cup {"acquire", "notify", "broadcast"}
      /\ Op(QRelease(x, User(x))) \notin QCalls \cup {"acquire", "notify", "broadcast"}
      /\ Op(QPark(x, User(x))) \notin QCalls \cup {"acquire", "notify", "broadcast"}
      /\ QWait(x, User(x)) # QDone /\ QRelease(x, User(x)) # QDone /\ QPark(x, User(x)) # QDone
  BY <1>o, QIs DEF Is, QCalls, Conds
<1>1. ASSUME code'[f] = QWait(x, User(x)) PROVE Running(f)' /\ ~closed' /\ Surplus(x)' <= 0
  <2>1. ASSUME code[f] = QWait(x, User(x)) PROVE FALSE
    <3>1. Running(f) /\ code[f] # <<>> /\ Op(code[f]) = "wait" /\ Head(stack) = Run(f) /\ stack # <<>>
      BY <1>i, <1>o, <2>1 DEF Is, Running
    <3>2. ~QRests
      <4>1. Head(stack).at = "run"
        BY <3>1, FrameFacts
      <4>2. ~Wakes /\ ~WakeReady /\ \A h \in Fibers : ~Resume(h)
        BY <3>1, <4>1 DEF Wakes, WakeReady, Resume
      <4>3. ASSUME NEW h \in Fibers, Parks(h) \/ Suspend(h) PROVE FALSE
        <5>1. h = f
          BY <1>t, <3>1, <4>3, RunningTop DEF Parks, Suspend, InBody
        <5> QED BY <3>1, <4>3, <5>1 DEF Parks, WaitsAt, Suspend, InBody, Op
      <4> QED BY <4>2, <4>3 DEF QRests
    <3>3. \A h \in Fibers, g \in Fibers : ~QAborts(h, g)
      <4>1. ASSUME NEW h \in Fibers, NEW g \in Fibers, QAborts(h, g) PROVE FALSE
        <5>1. h = f
          BY <1>t, <3>1, <4>1, RunningTop DEF QAborts, Abort, InBody
        <5> QED BY <3>1, <4>1, <5>1 DEF QAborts
      <4> QED BY <4>1
    <3>4. QWorks(f)
      BY <1>t, <3>1, <3>2, <3>3, RunningTop, QStep DEF QWorks
    <3>5. QWaits(f) \/ QReads(f) \/ QFrees(f)
      BY <1>1, <1>d, <1>m, <1>n, <3>4
    <3>6. \A y \in Conds : User(y) \in QCalls /\ code[f] # QAct(User(y))
      BY <3>1, QIs DEF Is, User, Conds, QCalls
    <3>7. ~QWaits(f) /\ ~QFrees(f)
      BY <3>1, <3>6, QIs DEF Is, QWaits, QFrees
    <3>8. PICK y \in Conds : code'[f] = QRelease(y, User(y))
      BY <1>t, <3>5, <3>7 DEF QReads, Goto
    <3> QED BY <1>1, <1>o, <3>8, QIs DEF Is
  <2>2. QWorks(f)
    BY <1>1, <1>d, <1>t, <2>1, QMover
  <2>3. QWaits(f) \/ QReads(f) \/ QFrees(f)
    BY <1>1, <1>d, <1>m, <1>n, <2>2
  <2>4. ~QReads(f) /\ ~QFrees(f)
    BY <1>1, <1>o, <1>t, QIs DEF Is, QReads, QFrees, Goto
  <2>5. PICK y \in Conds : code'[f] = QWait(y, User(y)) /\ ~closed /\ Surplus(y) <= 0
    BY <1>t, <2>3, <2>4 DEF QWaits, Goto
  <2>6. y = x
    BY <1>1, <1>o, <2>5, QIs DEF Is
  <2>7. buf' = buf /\ closed' = closed /\ stack' = stack /\ Running(f)
    BY <2>2, <2>3, <2>4 DEF QWaits, QWorks
  <2>8. Surplus(x)' = Surplus(x)
    BY <2>7 DEF Surplus
  <2> QED BY <2>5, <2>6, <2>7, <2>8 DEF Running
<1>2. ASSUME code'[f] = QRelease(x, User(x)) PROVE QStops(x, f)'
  <2>1. CASE code[f] = code'[f] /\ mem'[f] = mem[f]
    BY <1>2, <1>i, <2>1, QStopsStay
  <2>2. CASE QWorks(f)
    <3>1. QWaits(f) \/ QReads(f) \/ QFrees(f)
      BY <1>2, <1>d, <1>m, <1>n, <2>2
    <3>2. ~QWaits(f) /\ ~QFrees(f)
      BY <1>2, <1>o, <1>d, <1>t, QIs DEF Is, QWaits, QFrees, Goto
    <3>3. PICK y \in Conds : code[f] = QWait(y, User(y)) /\ code'[f] = QRelease(y, User(y)) /\ mem'[f] = word[y]
      BY <1>t, <3>1, <3>2 DEF QReads, Goto
    <3>4. y = x
      BY <1>2, <1>o, <3>3, QIs DEF Is
    <3>5. word' = word /\ closed' = closed /\ buf' = buf
      BY <3>1, <3>2 DEF QReads
    <3>6. Surplus(x)' = Surplus(x)
      BY <3>5 DEF Surplus
    <3>7. ~closed' /\ Surplus(x)' <= 0 /\ mem'[f] <= word'[x]
      BY <1>i, <1>x, <3>3, <3>4, <3>5, <3>6
    <3> QED BY <3>7 DEF QStops
  <2> QED BY <1>2, <1>d, <1>t, <2>1, <2>2, QMover
<1>3. ASSUME code'[f] = QPark(x, User(x)) PROVE QStops(x, f)'
  <2>1. CASE code[f] = code'[f] /\ mem'[f] = mem[f]
    BY <1>3, <1>i, <2>1, QStopsStay
  <2>2. CASE QWorks(f)
    <3>1. QWaits(f) \/ QReads(f) \/ QFrees(f)
      BY <1>3, <1>d, <1>m, <1>n, <2>2
    <3>2. ~QWaits(f) /\ ~QReads(f)
      BY <1>3, <1>o, <1>d, <1>t, QIs DEF Is, QWaits, QReads, Goto
    <3>3. PICK y \in Conds : code[f] = QRelease(y, User(y)) /\ code'[f] = QPark(y, User(y))
      BY <1>3, <1>d, <1>t, <3>1, <3>2 DEF QFrees, Goto
    <3>4. y = x
      BY <1>3, <1>o, <3>3, QIs DEF Is
    <3>5. mem' = mem
      BY <3>1, <3>2 DEF QFrees
    <3> QED BY <1>i, <3>3, <3>4, <3>5, QStopsStay
  <2> QED BY <1>3, <1>d, <1>t, <2>1, <2>2, QMover
<1> QED BY <1>1, <1>2, <1>3

\* The codes of the read-write lock, by their first instruction.
LEMMA RwOps ==
    ASSUME NEW c \in Codes("rwlock"), c # <<>>
    PROVE  /\ ~Stopped(Tail(c)) /\ ~Stopped(AfterAbort(c))
           /\ Op(c) \in {"read", "write", "park", "body", "ensure"}
           /\ Op(c) \in {"read", "write"} => c = RwEnter(Op(c)) /\ <<<<"park", "main">>>> \o c = RwPark(Op(c))
           /\ Op(c) = "park" => Arg(c) = "main" /\ \E a \in {"read", "write"} : c = RwPark(a)
<1>s. ASSUME NEW b, NEW op, NEW x, NEW t, NEW e, Shape(b, op, x, t, e)
      PROVE  b # <<>> /\ Op(b) = op /\ Arg(b) = x /\ Tail(b) = t /\ AfterAbort(b) = e
  BY <1>s DEF Shape, Op, Arg
<1>0. ~Stopped(<<>>)
  BY DEF Stopped
<1>1. PICK a \in {"read", "write"} : c \in {RwEnter(a), RwPark(a), RwIn(a), Out(a)}
  BY DEF Codes, RwCodes
<1>2. /\ Shape(RwEnter(a), a, "main", RwIn(a), <<>>) /\ Shape(RwPark(a), "park", "main", RwEnter(a), <<>>)
      /\ Shape(RwIn(a), "body", a, Out(a), Out(a)) /\ Shape(Out(a), "ensure", a, <<>>, Out(a))
  BY RwShapes, SectionShapes
<1>3. /\ Op(RwEnter(a)) = a /\ Tail(RwEnter(a)) = RwIn(a) /\ AfterAbort(RwEnter(a)) = <<>>
      /\ Op(RwPark(a)) = "park" /\ Arg(RwPark(a)) = "main" /\ Tail(RwPark(a)) = RwEnter(a) /\ AfterAbort(RwPark(a)) = <<>>
      /\ Op(RwIn(a)) = "body" /\ Tail(RwIn(a)) = Out(a) /\ AfterAbort(RwIn(a)) = Out(a)
      /\ Op(Out(a)) = "ensure" /\ Tail(Out(a)) = <<>> /\ AfterAbort(Out(a)) = Out(a)
  BY <1>2, <1>s
<1>4. ~Stopped(RwEnter(a)) /\ ~Stopped(RwIn(a)) /\ ~Stopped(Out(a))
  BY <1>3 DEF Stopped
<1>5. <<<<"park", "main">>>> \o RwEnter(a) = RwPark(a)
  BY Joined DEF RwEnter, RwPark
<1>6. CASE c = RwEnter(a)
  BY <1>0, <1>3, <1>4, <1>5, <1>6
<1>7. CASE c = RwPark(a)
  BY <1>0, <1>3, <1>4, <1>7
<1>8. CASE c = RwIn(a) \/ c = Out(a)
  BY <1>0, <1>3, <1>4, <1>8
<1> QED BY <1>1, <1>6, <1>7, <1>8

\* A fiber stops in front of the read-write lock for a reason.
LEMMA RwStopsKept == ASSUME SyncInv, WakeTypes, RwStops, Next PROVE RwStops'
<1>t. code \in [Fibers -> Codes(kind)] /\ mem \in [Fibers -> Int] /\ word \in [Futexes -> Int] /\ "main" \in Futexes
  BY DEF SyncInv, PlaceHolds, SchedTypes, CodesHold, WakeTypes, Futexes
<1>k. kind' = kind
  BY SameObject
<1> SUFFICES ASSUME kind = "rwlock"
             PROVE  rw' \in Int /\ \A f \in Fibers, a \in {"read", "write"} : code'[f] = RwPark(a) => RwShut(a, f)'
  BY <1>k DEF RwStops
<1>i. rw \in Int /\ word["main"] \in Int /\ \A f \in Fibers, a \in {"read", "write"} : code[f] = RwPark(a) => RwShut(a, f)
  BY <1>t DEF RwStops
<1>o. \A f \in Fibers : code[f] # <<>> => ~Stopped(Tail(code[f])) /\ ~Stopped(AfterAbort(code[f]))
  BY <1>t, RwOps
<1>p. \A a \in {"read", "write"} : Stopped(RwPark(a))
  BY RwShapes DEF Shape, Stopped, Op
<1> DEFINE Moved == \/ rw' = rw /\ word' = word
                    \/ rw >= 0 /\ rw' = rw + 1 /\ word' = word
                    \/ rw = 0 /\ rw' = -1 /\ word' = word
                    \/ rw' \in Int /\ word' = [word EXCEPT !["main"] = word["main"] + 1]
           Kept == rw' \in Int /\ \A f \in Fibers, a \in {"read", "write"} : code'[f] = RwPark(a) => RwShut(a, f)'
<1>m. ASSUME Moved, NEW f \in Fibers, NEW a \in {"read", "write"}, RwShut(a, f), mem'[f] = mem[f] PROVE RwShut(a, f)'
  <2>1. CASE word' = word /\ (rw' = rw \/ (rw >= 0 /\ rw' = rw + 1) \/ (rw = 0 /\ rw' = -1))
    BY <1>i, <1>m, <2>1 DEF RwShut
  <2>2. CASE word' = [word EXCEPT !["main"] = word["main"] + 1]
    <3>1. word'["main"] = word["main"] + 1 /\ mem[f] \in Int
      BY <1>t, <2>2
    <3> QED BY <1>i, <1>m, <3>1 DEF RwShut
  <2> QED BY <1>m, <2>1, <2>2
<1>u. ASSUME code' = code, mem' = mem, Moved PROVE Kept
  <2>1. rw' \in Int
    BY <1>i, <1>u
  <2> QED BY <1>i, <1>m, <1>u, <2>1
<1>q. ASSUME NEW g \in Fibers, NEW d, Goto(g, d), ~Stopped(d), mem' = mem, Moved PROVE Kept
  <2>1. rw' \in Int
    BY <1>i, <1>q
  <2>2. \A f \in Fibers : code'[f] = IF f = g THEN d ELSE code[f]
    BY <1>q, <1>t DEF Goto
  <2>3. ASSUME NEW f \in Fibers, NEW a \in {"read", "write"}, code'[f] = RwPark(a) PROVE RwShut(a, f)'
    <3>1. code[f] = RwPark(a)
      BY <1>p, <1>q, <2>2, <2>3
    <3> QED BY <1>i, <1>m, <1>q, <3>1
  <2> QED BY <2>1, <2>3
<1>1. CASE WakeNext \/ WakeReady
  BY <1>1, <1>u DEF WakeNext, WakeReady, dataVars
<1>2. ASSUME NEW f \in Fibers, Call(f) PROVE Kept
  <2>0. code[f] # <<>> /\ Running(f)
    BY <1>2, CallOps
  <2>1. CASE FutexWait(f) /\ Op(code[f]) = "park"
    <3>1. word' = word /\ rw' = rw /\ mem' = mem /\ (code' = code \/ Goto(f, Tail(code[f])))
      BY <2>1 DEF FutexWait, Go, dataVars
    <3> QED BY <1>o, <1>q, <1>u, <2>0, <3>1
  <2>2. CASE RwAcquire(f) /\ Op(code[f]) \in {"read", "write"}
    <3>1. code[f] = RwEnter(Op(code[f])) /\ <<<<"park", "main">>>> \o code[f] = RwPark(Op(code[f]))
      BY <1>t, <2>0, <2>2, RwOps
    <3>d. \A op : Doing(f, op) <=> op = Op(code[f])
      BY <2>0 DEF Doing, Op
    <3>2. CASE MayRead(f) \/ MayWrite(f)
      <4>1. Goto(f, Tail(code[f])) /\ mem' = mem /\ word' = word /\ rw' = IF Doing(f, "read") THEN rw + 1 ELSE -1
        BY <2>2, <3>2 DEF RwAcquire, Go
      <4>2. Moved
        BY <3>2, <3>d, <4>1 DEF MayRead, MayWrite
      <4> QED BY <1>o, <1>q, <2>0, <4>1, <4>2
    <3>3. CASE ~(MayRead(f) \/ MayWrite(f))
      <4>1. /\ mem' = [mem EXCEPT ![f] = word["main"]] /\ Goto(f, RwPark(Op(code[f]))) /\ rw' = rw /\ word' = word
        BY <2>2, <3>1, <3>3 DEF RwAcquire
      <4>2. ASSUME NEW g \in Fibers, NEW a \in {"read", "write"}, code'[g] = RwPark(a) PROVE RwShut(a, g)'
        <5>1. CASE g # f
          <6>1. code[g] = RwPark(a) /\ mem'[g] = mem[g]
            BY <1>t, <4>1, <4>2, <5>1 DEF Goto
          <6> QED BY <1>i, <1>m, <4>1, <6>1
        <5>2. CASE g = f
          <6>1. RwPark(a) = RwPark(Op(code[f])) /\ mem'[f] = word["main"]
            BY <1>t, <4>1, <4>2, <5>2 DEF Goto
          <6>2. RwPark(a)[2] = <<a, "main">> /\ RwPark(Op(code[f]))[2] = <<Op(code[f]), "main">>
            BY DEF RwPark
          <6>3. a = Op(code[f])
            <7>1. <<a, "main">> = <<Op(code[f]), "main">>
              BY <6>1, <6>2
            <7>2. <<a, "main">>[1] = a /\ <<Op(code[f]), "main">>[1] = Op(code[f])
              OBVIOUS
            <7> QED BY <7>1, <7>2
          <6>4. IF a = "read" THEN ~(rw >= 0) ELSE rw # 0
            BY <2>2, <3>3, <3>d, <6>3 DEF MayRead, MayWrite
          <6> QED BY <1>i, <4>1, <5>2, <6>1, <6>4 DEF RwShut
        <5> QED BY <5>1, <5>2
      <4> QED BY <1>i, <4>1, <4>2
    <3> QED BY <3>2, <3>3
  <2>3. CASE RwRelease(f)
    <3>1. /\ Goto(f, Tail(code[f])) /\ mem' = mem /\ word' = [word EXCEPT !["main"] = word["main"] + 1]
          /\ rw' \in {rw - 1, 0}
      BY <2>3 DEF RwRelease, NextGeneration, Set, Go
    <3>2. rw' \in Int
      BY <1>i, <3>1
    <3> QED BY <1>o, <1>q, <2>0, <3>1, <3>2
  <2>4. Op(code[f]) \in {"read", "write", "park", "body", "ensure"}
    BY <1>t, <2>0, RwOps
  <2> QED BY <1>2, <2>1, <2>2, <2>3, <2>4, CallOps
<1>3. ASSUME NEW f \in Fibers, Begin(f) PROVE Kept
  <2>1. Operations = {<<<<a, "main">>, <<"body", a>>, <<"ensure", a>>>> : a \in {"read", "write"}}
    BY DEF Operations
  <2>2. PICK a \in {"read", "write"} : Goto(f, RwEnter(a))
    BY <1>3, <2>1 DEF Begin, RwEnter
  <2>3. ~Stopped(RwEnter(a))
    BY RwShapes DEF Shape, Stopped, Op
  <2> QED BY <1>3, <1>q, <2>2, <2>3 DEF Begin, dataVars
<1>4. ASSUME NEW f \in Fibers, LeaveBody(f) PROVE Kept
  <2>1. code[f] # <<>> /\ Goto(f, Tail(code[f])) /\ UNCHANGED <<rw, word, mem>>
    BY <1>4 DEF LeaveBody, Doing, Go, dataVars
  <2> QED BY <1>o, <1>q, <2>1
<1>5. ASSUME NEW f \in Fibers, Suspend(f) \/ Resume(f) PROVE Kept
  BY <1>5, <1>u DEF Suspend, Resume, dataVars
<1>6. ASSUME NEW f \in Fibers, NEW g \in Fibers, Abort(f, g) PROVE Kept
  <2>1. code[g] # <<>> /\ Goto(g, AfterAbort(code[g])) /\ UNCHANGED <<rw, word, mem>>
    BY <1>6 DEF Abort, AfterAbort, dataVars
  <2> QED BY <1>o, <1>q, <2>1
<1>7. ASSUME NEW f \in Fibers, InMonitor(f) PROVE FALSE
  BY <1>7 DEF InMonitor
<1> QED BY <1>1, <1>2, <1>3, <1>4, <1>5, <1>6, <1>7 DEF Next

\* A fiber in front of the barrier expects less than everyone.
LEMMA BarrierStopsKept == ASSUME SyncInv, WakeTypes, BarrierStops, Next PROVE BarrierStops'
<1>t. code \in [Fibers -> Codes(kind)] /\ mem \in [Fibers -> Int]
  BY DEF SyncInv, CodesHold, WakeTypes
<1>k. kind' = kind
  BY SameObject
<1> SUFFICES ASSUME kind = "barrier", NEW h \in Fibers, Stopped(code'[h]) PROVE mem'[h] # Everyone
  BY <1>k DEF BarrierStops, Stopped, Op
<1>c. \A f \in Fibers : code[f] # <<>> => GateCode(code[f])
  BY <1>t, GateCodesAre DEF Gates
<1>u. ASSUME code'[h] = code[h], mem'[h] = mem[h] PROVE mem'[h] # Everyone
  BY <1>u DEF BarrierStops
<1>q. ASSUME NEW f \in Fibers, NEW d, Goto(f, d), ~Stopped(d), mem' = mem PROVE mem'[h] # Everyone
  BY <1>q, <1>t, <1>u DEF Goto
<1>1. CASE WakeNext \/ WakeReady
  BY <1>1, <1>u DEF WakeNext, WakeReady
<1>2. ASSUME NEW f \in Fibers, Call(f) PROVE mem'[h] # Everyone
  <2>0. code[f] # <<>> /\ GateCode(code[f])
    BY <1>2, <1>c, CallOps
  <2>1. CASE FutexWait(f) /\ Op(code[f]) = "park"
    <3>1. mem' = mem /\ (code' = code \/ Goto(f, Tail(code[f]))) /\ ~Stopped(Tail(code[f]))
      BY <2>0, <2>1 DEF FutexWait, Go, GateCode
    <3> QED BY <1>q, <1>u, <3>1
  <2>2. CASE BarrierWait(f) /\ Op(code[f]) = "arrive"
    <3>1. CASE Full(word["main"] + 1)
      <4>1. mem' = mem /\ Goto(f, Tail(code[f])) /\ ~Stopped(Tail(code[f]))
        BY <2>0, <2>2, <3>1 DEF BarrierWait, Go, GateCode
      <4> QED BY <1>q, <4>1
    <3>2. CASE ~Full(word["main"] + 1)
      <4>1. mem' = [mem EXCEPT ![f] = word["main"] + 1] /\ \E d : Goto(f, d)
        BY <2>2, <3>2 DEF BarrierWait
      <4>2. CASE h = f
        BY <1>t, <3>2, <4>1, <4>2 DEF Full
      <4>3. CASE h # f
        BY <1>t, <1>u, <4>1, <4>3 DEF Goto
      <4> QED BY <4>2, <4>3
    <3> QED BY <3>1, <3>2
  <2>3. Op(code[f]) \in {"arrive", "park", "body"}
    BY <2>0 DEF GateCode
  <2> QED BY <1>2, <2>1, <2>2, <2>3, CallOps
<1>3. ASSUME NEW f \in Fibers, Begin(f) PROVE mem'[h] # Everyone
  <2>1. Operations = {Gate("arrive")}
    BY DEF Operations, Gate
  <2>2. Goto(f, Gate("arrive")) /\ mem' = mem
    BY <1>3, <2>1 DEF Begin
  <2>3. ~Stopped(Gate("arrive"))
    BY GateShapes DEF Shape, Stopped, Op
  <2> QED BY <1>q, <2>2, <2>3
<1>4. ASSUME NEW f \in Fibers, LeaveBody(f) PROVE mem'[h] # Everyone
  <2>1. code[f] # <<>> /\ Op(code[f]) = "body" /\ Goto(f, Tail(code[f])) /\ mem' = mem
    BY <1>4 DEF LeaveBody, Doing, Go, Op
  <2>2. ~Stopped(Tail(code[f]))
    BY <1>c, <2>1 DEF GateCode, Neither
  <2> QED BY <1>q, <2>1, <2>2
<1>5. ASSUME NEW f \in Fibers, Suspend(f) \/ Resume(f) PROVE mem'[h] # Everyone
  BY <1>5, <1>u DEF Suspend, Resume
<1>6. ASSUME NEW f \in Fibers, NEW g \in Fibers, Abort(f, g) PROVE mem'[h] # Everyone
  <2>1. code[g] # <<>> /\ Goto(g, AfterAbort(code[g])) /\ mem' = mem
    BY <1>6 DEF Abort, AfterAbort
  <2>2. ~Stopped(AfterAbort(code[g]))
    BY <1>c, <2>1 DEF GateCode, Neither
  <2> QED BY <1>q, <2>1, <2>2
<1>7. ASSUME NEW f \in Fibers, InMonitor(f) PROVE FALSE
  BY <1>7 DEF InMonitor
<1> QED BY <1>1, <1>2, <1>3, <1>4, <1>5, <1>6, <1>7 DEF Next

\* Whoever stops, stops for a reason.
LEMMA StopKept == ASSUME SyncInv, WakeTypes, BufHolds, QFine, Busy, StopInv, Next PROVE StopInv'
<1>1. kind' = kind
  BY SameObject
<1>2. LatchStops'
  <2>1. CASE kind \in {"latch", "once"}
    <3>1. (kind = "latch" => LatchInv') /\ (kind = "once" => OnceInv')
      BY <2>1, LatchOnceStep DEF StopInv, LatchStops
    <3> QED BY <1>1, <3>1 DEF LatchStops
  <2>2. CASE kind \notin {"latch", "once"}
    BY <1>1, <2>2 DEF LatchStops
  <2> QED BY <2>1, <2>2
<1> QED BY <1>2, RwStopsKept, BarrierStopsKept, QueueStopsKept DEF StopInv

-----------------------------------------------------------------------------
(* One waker at a time: the lock, the monitor, the semaphore and the       *)
(* queue's lock, in the loop.                                              *)

Locks == {"lock", "monitor", "semaphore", "queue"}

\* The lock is free, or the semaphore has a permit.
Avail == IF kind = "semaphore" THEN word["main"] > 0 ELSE word["main"] = 0

\* The loop is in a wake of x.
TopWake(x) == stack # <<>> /\ Head(stack).at = "wake" /\ Head(stack).x = x

\* If a fiber is parked although the lock is free, the wake of the release is on
\* top and has somebody left to run, or the woken fiber runs and has not looked.
LockWakes ==
    kind \in Locks =>
        /\ kind = "semaphore" => word["main"] >= 0
        /\ parked["main"] # <<>> /\ Avail =>
              /\ kind = "semaphore" => word["main"] = 1
              /\ \/ TopWake("main") /\ Head(stack).left > 0 /\ Range(Head(stack).todo) \cap Range(parked["main"]) # {}
                 \/ \E g \in Fibers : Running(g) /\ code[g] # <<>> /\ Op(code[g]) \in {"acquire", "down"}

\* The instructions of these objects.
LockOp(c) ==
    /\ Op(c) \in {"acquire", "down", "try", "body", "ensure", "wait", "notify", "broadcast", "release", "park"} \cup QCalls
    /\ Op(c) = "acquire" => kind # "semaphore"
    /\ Op(c) = "down" => kind = "semaphore"
    /\ Op(c) \in {"park", "notify", "broadcast"} => Arg(c) # "main"

\* The codes are such codes.
LEMMA LockOps ==
    ASSUME kind \in Locks, CodesHold, QFine, NEW f \in Fibers, code[f] # <<>> PROVE LockOp(code[f])
<1>c. code[f] \in Codes(kind)
  BY DEF CodesHold
<1>1. CASE kind = "queue"
  <2>1. QByOp(code[f])
    BY <1>1, QOps DEF QFine
  <2>2. ASSUME NEW x \in Conds, code[f] \in {QPark(x, User(x)), QNotify(x)} PROVE Arg(code[f]) # "main"
    BY <2>2, QIs DEF Is, Conds
  <2>3. code[f] \in {QClose, QClosing} => Arg(code[f]) # "main"
    BY QIs DEF Is
  <2>4. Op(code[f]) # "down"
    BY <2>1 DEF QByOp, QCalls
  <2>5. Op(code[f]) \in {"park", "notify", "broadcast"} => Arg(code[f]) # "main"
    BY <2>1, <2>2, <2>3 DEF QByOp
  <2> QED BY <1>1, <2>1, <2>4, <2>5 DEF LockOp, QByOp
<1>2. CASE kind \in Sections
  <2>1. SectionCode(code[f])
    BY <1>2, <1>c, SectionCodes
  <2>2. ASSUME Op(code[f]) = "park" PROVE Arg(code[f]) # "main"
    <3>1. kind = "monitor"
      BY <1>2, <2>1, <2>2 DEF SectionCode, Sections
    <3>2. \A op \in {"wait", "notify", "broadcast"} : Op(Ask(op)) = op
      BY SectionShapes DEF Shape, Op
    <3>3. Op(CvRelease) = "release" /\ Op(CvBack) = "acquire" /\ Op(Held) = "body" /\ Op(Out("main")) = "ensure" /\ Op(Enter("acquire")) = "acquire"
      BY SectionShapes DEF Shape, Op
    <3>4. code[f] = CvPark
      BY <1>c, <2>2, <3>1, <3>2, <3>3 DEF Codes, MonitorCodes, LockCodes
    <3> QED BY <3>4, SectionShapes DEF Shape, Arg
  <2> QED BY <1>2, <2>1, <2>2 DEF LockOp, SectionCode, Sections
<1> QED BY <1>1, <1>2 DEF Locks, Sections

\* A fiber takes the lock or a permit, gives it back, or leaves it alone.
Takes(f) ==
    /\ Running(f) /\ Avail
    /\ word'["main"] = IF kind = "semaphore" THEN word["main"] - 1 ELSE 1
    /\ UNCHANGED <<parked, stack>>
Gives(f) ==
    /\ Running(f) /\ code[f] # <<>> /\ Op(code[f]) \in {"release", "ensure"}
    /\ word'["main"] = IF kind = "semaphore" THEN word["main"] + 1 ELSE 0
    /\ Wake("main", 1)
Stays(f) ==
    /\ Running(f) /\ (code[f] # <<>> => Op(code[f]) \notin {"acquire", "down"})
    /\ word'["main"] = word["main"] /\ parked' = parked

\* The steps of these objects.
LEMMA LockStep ==
    ASSUME kind \in Locks, host = "loop", CodesHold, SchedTypes, WakeTypes, QFine, Next
    PROVE  \/ (Wakes /\ word' = word /\ code' = code)
           \/ \E f \in Fibers : \/ Parks(f) \/ Takes(f) \/ Gives(f) \/ Stays(f)
                                \/ ((Suspend(f) \/ Resume(f) \/ \E g \in Fibers : Abort(f, g)) /\ word' = word)
<1>t. word \in [Futexes -> Int] /\ "main" \in Futexes
  BY DEF SchedTypes, Futexes
<1>w. \A v : Set("main", v) => word'["main"] = v
  BY <1>t DEF Set
<1>1. CASE WakeNext
  BY <1>1 DEF WakeNext, Wakes
<1>2. CASE WakeReady
  BY <1>2 DEF WakeReady
<1>3. ASSUME NEW f \in Fibers, Call(f) PROVE Parks(f) \/ Takes(f) \/ Gives(f) \/ Stays(f)
  <2>0. Running(f) /\ code[f] # <<>> /\ LockOp(code[f]) /\ Head(code[f])[2] = Arg(code[f])
    BY <1>3, CallOps, LockOps DEF Arg
  <2>1. CASE FutexWait(f) /\ Op(code[f]) = "park"
    <3> PICK x : x = Arg(code[f])
      OBVIOUS
    <3>1. x \in Futexes /\ WaitsAt(code[f], x)
      BY <2>0, <2>1, ArgsKnown DEF WaitsAt
    <3>2. CASE word[x] = mem[f]
      <4>1. Park(f, x) /\ UNCHANGED <<dataVars, restVars, word, code, mem>>
        BY <2>0, <2>1, <3>2 DEF FutexWait
      <4> QED BY <2>0, <2>1, <3>1, <3>2, <4>1 DEF Parks
    <3>3. CASE word[x] # mem[f]
      <4>1. UNCHANGED <<word, parked>>
        BY <2>0, <2>1, <3>3 DEF FutexWait
      <4> QED BY <2>0, <2>1, <4>1 DEF Stays
    <3> QED BY <3>2, <3>3
  <2>2. CASE Acquire(f) /\ Op(code[f]) = "acquire"
    <3>1. CASE word["main"] = 0
      BY <2>0, <2>2, <3>1, <1>w DEF Acquire, Takes, Avail, LockOp
    <3>2. CASE word["main"] # 0
      <4>1. Park(f, "main") /\ UNCHANGED <<dataVars, restVars, word, code, mem>>
        BY <2>2, <3>2 DEF Acquire
      <4> QED BY <1>t, <2>0, <2>2, <3>2, <4>1 DEF Parks, WaitsAt
    <3> QED BY <3>1, <3>2
  <2>3. CASE TryAcquire(f) /\ Op(code[f]) = "try"
    <3>1. CASE Avail
      BY <2>0, <2>3, <3>1, <1>w DEF TryAcquire, Takes, Avail
    <3>2. CASE ~Avail
      BY <2>0, <2>3, <3>2 DEF TryAcquire, Stays, Avail
    <3> QED BY <3>1, <3>2
  <2>4. CASE Release(f)
    BY <2>0, <2>4, <1>w DEF Release, WakeOne, Gives, Doing, Op
  <2>5. CASE SemAcquire(f) /\ Op(code[f]) = "down"
    <3>1. CASE word["main"] > 0
      BY <2>0, <2>5, <3>1, <1>w DEF SemAcquire, Takes, Avail, LockOp
    <3>2. CASE ~(word["main"] > 0)
      <4>1. Park(f, "main") /\ UNCHANGED <<dataVars, restVars, word, code, mem>>
        BY <2>5, <3>2 DEF SemAcquire
      <4> QED BY <1>t, <2>0, <2>5, <3>2, <4>1 DEF Parks, WaitsAt
    <3> QED BY <3>1, <3>2
  <2>6. CASE SemRelease(f)
    BY <2>0, <2>6, <1>w DEF SemRelease, WakeOne, Gives, Doing, Op
  <2>7. CASE CvWait(f) /\ Op(code[f]) = "wait"
    BY <2>0, <2>7 DEF CvWait, Stays
  <2>8. CASE Notify(f) /\ Op(code[f]) \in {"notify", "broadcast"}
    <3>1. Arg(code[f]) \in Futexes /\ Arg(code[f]) # "main"
      BY <2>0, <2>8, ArgsKnown DEF LockOp
    <3>2. \E n : Wake(Arg(code[f]), n)
      BY <2>0, <2>8 DEF Notify
    <3>3. parked' = parked
      BY <3>2 DEF Wake
    <3>4. word' = [word EXCEPT ![Arg(code[f])] = word[Arg(code[f])] + 1]
      BY <2>0, <2>8 DEF Notify, NextGeneration, Set
    <3>5. word'["main"] = word["main"]
      BY <1>t, <3>1, <3>4
    <3> QED BY <2>0, <2>8, <3>3, <3>5 DEF Stays
  <2>9. CASE QueuePut(f) /\ Op(code[f]) = "put"
    BY <2>0, <2>9 DEF QueuePut, Stays
  <2>10. CASE QueueTake(f) /\ Op(code[f]) = "take"
    BY <2>0, <2>10 DEF QueueTake, Stays
  <2>11. CASE QueueClose(f) /\ Op(code[f]) = "close"
    BY <2>0, <2>11 DEF QueueClose, Stays
  <2>12. Op(code[f]) \notin {"read", "write", "arrive", "gate", "get", "open"} /\ kind \notin {"rwlock", "once"}
    BY <2>0 DEF LockOp, QCalls, Locks
  <2> QED BY <1>3, <2>1, <2>2, <2>3, <2>4, <2>5, <2>6, <2>7, <2>8, <2>9, <2>10, <2>11, <2>12, CallOps
<1>4. ASSUME NEW f \in Fibers, Begin(f) \/ LeaveBody(f) \/ InMonitor(f) PROVE Stays(f)
  <2>1. Running(f) /\ (code[f] # <<>> => Op(code[f]) = "body") /\ UNCHANGED <<word, parked>>
    BY <1>4 DEF Begin, LeaveBody, InMonitor, Doing, Op
  <2> QED BY <2>1 DEF Stays
<1>5. ASSUME NEW f \in Fibers, Suspend(f) \/ Resume(f) \/ \E g \in Fibers : Abort(f, g) PROVE word' = word
  BY <1>5 DEF Suspend, Resume, Abort
<1> QED BY <1>1, <1>2, <1>3, <1>4, <1>5 DEF Next

\* No release is forgotten.
LEMMA LockWakesKept ==
    ASSUME SyncInv, WakeTypes, QFine, host = "loop", LoopPlace, LockWakes, Next PROVE LockWakes'
<1>t. /\ SchedTypes /\ CodesHold /\ OnePlaced /\ word \in [Futexes -> Int] /\ "main" \in Futexes /\ word["main"] \in Int
      /\ parked \in [Futexes -> Seq(Fibers)] /\ stack \in Seq(Frames) /\ parked["main"] \in Seq(Fibers)
  BY DEF SyncInv, PlaceHolds, SchedTypes, Futexes
<1>k. kind' = kind /\ host' = host
  BY SameObject
<1> SUFFICES ASSUME kind \in Locks
             PROVE  /\ kind = "semaphore" => word'["main"] >= 0
                    /\ parked'["main"] # <<>> /\ Avail' =>
                          /\ kind = "semaphore" => word'["main"] = 1
                          /\ \/ TopWake("main")' /\ Head(stack').left > 0 /\ Range(Head(stack').todo) \cap Range(parked'["main"]) # {}
                             \/ \E g \in Fibers : Running(g)' /\ code'[g] # <<>> /\ Op(code'[g]) \in {"acquire", "down"}
  BY <1>k DEF LockWakes, Op
<1>i. /\ kind = "semaphore" => word["main"] >= 0
      /\ parked["main"] # <<>> /\ Avail =>
              /\ kind = "semaphore" => word["main"] = 1
              /\ \/ TopWake("main") /\ Head(stack).left > 0 /\ Range(Head(stack).todo) \cap Range(parked["main"]) # {}
                 \/ \E g \in Fibers : Running(g) /\ code[g] # <<>> /\ Op(code[g]) \in {"acquire", "down"}
  BY DEF LockWakes
<1>n. \A y \in Seq(Fibers) : y = <<>> <=> Range(y) = {}
  <2>1. ASSUME NEW y \in Seq(Fibers), y # <<>> PROVE Head(y) \in Range(y)
    BY <2>1, TailRange
  <2>2. Range(<<>>) = {}
    BY DEF Range
  <2> QED BY <2>1, <2>2
\* Nobody has the lock to hand over while a fiber runs that does not ask for it.
<1>b. ASSUME NEW f \in Fibers, Running(f), code[f] # <<>> => Op(code[f]) \notin {"acquire", "down"},
             parked["main"] # <<>>, Avail
      PROVE  FALSE
  <2>1. ~TopWake("main")
    <3>1. Head(stack) = Run(f) /\ Run(f).at = "run"
      BY <1>b, FrameFacts DEF Running
    <3> QED BY <3>1 DEF TopWake
  <2>2. PICK g \in Fibers : Running(g) /\ code[g] # <<>> /\ Op(code[g]) \in {"acquire", "down"}
    BY <1>b, <1>i, <2>1
  <2>3. g = f
    BY <1>b, <1>t, <2>2, RunningTop
  <2> QED BY <1>b, <2>2, <2>3
<1>a. word'["main"] = word["main"] => (Avail' <=> Avail)
  BY <1>k DEF Avail
<1>1. CASE Wakes /\ word' = word /\ code' = code
  <2> PICK fr : fr = Head(stack)
    OBVIOUS
  <2>1. stack # <<>> /\ fr.at = "wake" /\ LoopWakes(fr)
    BY <1>1 DEF Wakes, ProcessWakes
  <2>2. fr \in Frames /\ Tail(stack) \in Seq(Frames)
    BY <1>t, <2>1, PopStack
  <2>3. fr.todo \in Seq(Fibers) /\ fr.x \in Futexes /\ fr.left \in Int
    BY <2>1, <2>2, WakeFrames
  <2>4. SUFFICES ASSUME parked'["main"] # <<>>, Avail
                 PROVE  /\ kind = "semaphore" => word'["main"] = 1
                        /\ \/ TopWake("main")' /\ Head(stack').left > 0 /\ Range(Head(stack').todo) \cap Range(parked'["main"]) # {}
                           \/ \E g \in Fibers : Running(g)' /\ code'[g] # <<>> /\ Op(code'[g]) \in {"acquire", "down"}
    BY <1>1, <1>a, <1>i
  <2>5. parked["main"] # <<>>
    <3>1. parked' = parked \/ parked' = [parked EXCEPT ![fr.x] = LeaveArray(@, Head(fr.todo))]
      BY <2>1, LoopTakes
    <3>2. LeaveArray(<<>>, Head(fr.todo)) = <<>>
      BY DEF LeaveArray
    <3>3. ASSUME parked["main"] = <<>>, parked' = [parked EXCEPT ![fr.x] = LeaveArray(@, Head(fr.todo))] PROVE parked'["main"] = <<>>
      BY <1>t, <2>3, <3>2, <3>3
    <3> QED BY <2>4, <3>1, <3>3
  <2>6. \A g \in Fibers : ~Running(g)
    BY <2>1, FrameFacts DEF Running
  <2>7. /\ kind = "semaphore" => word["main"] = 1
        /\ fr.x = "main" /\ fr.left > 0 /\ Range(fr.todo) \cap Range(parked["main"]) # {}
    BY <1>i, <2>4, <2>5, <2>6 DEF TopWake
  <2>8. fr.todo # <<>> /\ fr.left # 0
    BY <1>n, <2>3, <2>7
  <2>h. Head(fr.todo) \in Fibers /\ Tail(fr.todo) \in Seq(Fibers) /\ Range(fr.todo) = {Head(fr.todo)} \cup Range(Tail(fr.todo))
    BY <2>3, <2>8, TailRange
  <2>9. PICK r \in Frames :
          /\ r.at = "wake" /\ r.x = fr.x /\ r.todo = Tail(fr.todo)
          /\ \/ /\ Head(fr.todo) \notin Range(parked[fr.x]) /\ r.left = fr.left
                /\ stack' = <<r>> \o Tail(stack) /\ parked' = parked
             \/ /\ Head(fr.todo) \in Range(parked[fr.x])
                /\ stack' = <<Run(Head(fr.todo))>> \o (<<r>> \o Tail(stack))
    BY <1>t, <2>1, <2>8, LoopTop
  <2>10. <<r>> \o Tail(stack) \in Seq(Frames) /\ Head(<<r>> \o Tail(stack)) = r /\ <<r>> \o Tail(stack) # <<>>
    BY <2>2, PushStack
  <2>11. CASE Head(fr.todo) \notin Range(parked["main"]) /\ r.left = fr.left /\ stack' = <<r>> \o Tail(stack) /\ parked' = parked
    <3>1. Range(r.todo) \cap Range(parked'["main"]) # {}
      BY <2>7, <2>9, <2>11, <2>h
    <3>2. Head(stack') = r /\ stack' # <<>>
      BY <2>10, <2>11
    <3>3. TopWake("main")'
      BY <2>7, <2>9, <3>2 DEF TopWake
    <3> QED BY <1>1, <2>7, <2>11, <3>1, <3>2, <3>3
  <2>12. CASE Head(fr.todo) \in Range(parked["main"]) /\ stack' = <<Run(Head(fr.todo))>> \o (<<r>> \o Tail(stack))
    <3> PICK g \in Fibers : g = Head(fr.todo)
      BY <2>h
    <3>1. stack' # <<>> /\ Head(stack') = Run(g)
      BY <2>10, <2>12, PushStack, FrameFacts
    <3>2. code[g] # <<>> /\ WaitsAt(code[g], "main")
      BY <1>t, <2>12 DEF LoopPlace
    <3>3. Op(code[g]) \in {"acquire", "down"}
      BY <1>t, <3>2, LockOps DEF WaitsAt, LockOp
    <3>4. Running(g)'
      BY <3>1 DEF Running
    <3> QED BY <1>1, <2>7, <3>2, <3>3, <3>4
  <2> QED BY <2>7, <2>9, <2>11, <2>12
<1>2. ASSUME NEW f \in Fibers, Parks(f) PROVE (kind = "semaphore" => word'["main"] >= 0) /\ ~(parked'["main"] # <<>> /\ Avail')
  <2>1. PICK x \in Futexes : /\ WaitsAt(code[f], x) /\ Park(f, x)
                             /\ Op(code[f]) = "acquire" => word["main"] # 0
                             /\ Op(code[f]) = "down" => ~(word["main"] > 0)
    BY <1>2 DEF Parks
  <2>2. Running(f) /\ code[f] # <<>> /\ word' = word /\ LockOp(code[f])
    BY <1>2, <1>t, LockOps DEF Parks
  <2>3. CASE Op(code[f]) \in {"acquire", "down"}
    <3>1. ~Avail
      BY <2>1, <2>2, <2>3 DEF LockOp, Avail
    <3> QED BY <1>a, <1>i, <2>2, <3>1
  <2>4. CASE Op(code[f]) \notin {"acquire", "down"}
    <3>1. x # "main"
      BY <2>1, <2>2, <2>4 DEF WaitsAt, LockOp
    <3>2. parked'["main"] = parked["main"]
      BY <1>t, <2>1, <3>1 DEF Park
    <3> QED BY <1>a, <1>b, <1>i, <2>2, <2>4, <3>2
  <2> QED BY <2>3, <2>4
<1>3. ASSUME NEW f \in Fibers, Takes(f) PROVE (kind = "semaphore" => word'["main"] >= 0) /\ ~(parked'["main"] # <<>> /\ Avail')
  <2>1. CASE kind = "semaphore"
    <3>1. word["main"] > 0 /\ word'["main"] = word["main"] - 1 /\ parked' = parked
      BY <1>3, <2>1 DEF Takes, Avail
    <3>2. parked["main"] # <<>> => word["main"] = 1
      BY <1>3, <1>i, <2>1 DEF Takes
    <3> QED BY <1>k, <1>t, <2>1, <3>1, <3>2 DEF Avail
  <2>2. CASE kind # "semaphore"
    BY <1>3, <1>k, <2>2 DEF Takes, Avail
  <2> QED BY <2>1, <2>2
<1>4. ASSUME NEW f \in Fibers, Gives(f)
      PROVE  /\ kind = "semaphore" => word'["main"] >= 0
             /\ parked'["main"] # <<>> /\ Avail' =>
                   /\ kind = "semaphore" => word'["main"] = 1
                   /\ TopWake("main")' /\ Head(stack').left > 0 /\ Range(Head(stack').todo) \cap Range(parked'["main"]) # {}
  <2>1. Running(f) /\ code[f] # <<>> /\ Op(code[f]) \notin {"acquire", "down"}
    BY <1>4 DEF Gives
  <2>2. kind = "semaphore" => word'["main"] = word["main"] + 1 /\ word["main"] >= 0
    BY <1>4, <1>i DEF Gives
  <2>3. parked' = parked
    BY <1>4 DEF Gives, Wake
  <2>4. ASSUME parked["main"] # <<>>
        PROVE  /\ kind = "semaphore" => word'["main"] = 1
               /\ TopWake("main")' /\ Head(stack').left > 0 /\ Range(Head(stack').todo) \cap Range(parked'["main"]) # {}
    <3>1. ~Avail
      BY <1>b, <2>1, <2>4
    <3>2. kind = "semaphore" => word'["main"] = 1
      BY <1>t, <2>2, <3>1 DEF Avail
    <3> PICK fr : fr = WakeFrame("main", 1)
      OBVIOUS
    <3>3. fr \in Frames /\ fr.at = "wake" /\ fr.x = "main" /\ fr.todo = parked["main"] /\ fr.left = 1
      BY <1>t, FrameFacts DEF WakeFrame
    <3>4. stack' = <<fr>> \o stack
      BY <1>4, <2>4 DEF Gives, Wake
    <3>5. stack' # <<>> /\ Head(stack') = fr
      BY <1>t, <3>3, <3>4, PushStack
    <3>6. Range(parked["main"]) # {}
      BY <1>n, <1>t, <2>4
    <3> QED BY <2>3, <3>2, <3>3, <3>5, <3>6 DEF TopWake
  <2> QED BY <1>t, <2>2, <2>3, <2>4
<1>5. ASSUME NEW f \in Fibers, Stays(f) PROVE (kind = "semaphore" => word'["main"] >= 0) /\ ~(parked'["main"] # <<>> /\ Avail')
  BY <1>5, <1>a, <1>b, <1>i DEF Stays
<1>6. ASSUME NEW f \in Fibers, Suspend(f) \/ Resume(f) \/ \E g \in Fibers : Abort(f, g), word' = word
      PROVE  (kind = "semaphore" => word'["main"] >= 0) /\ ~(parked'["main"] # <<>> /\ Avail')
  <2>1. CASE Suspend(f)
    <3>1. Running(f) /\ (code[f] # <<>> => Op(code[f]) = "body") /\ parked' = parked
      BY <2>1 DEF Suspend, InBody, Op
    <3> QED BY <1>6, <1>a, <1>b, <1>i, <3>1
  <2>2. CASE Resume(f)
    <3>1. stack = <<>> /\ parked' = parked
      BY <2>2 DEF Resume
    <3> QED BY <1>6, <1>a, <1>i, <3>1 DEF TopWake, Running
  <2>3. ASSUME NEW g \in Fibers, Abort(f, g)
        PROVE  (kind = "semaphore" => word'["main"] >= 0) /\ ~(parked'["main"] # <<>> /\ Avail')
    <3>1. Running(f) /\ (code[f] # <<>> => Op(code[f]) = "body") /\ parked' = [x \in Futexes |-> LeaveArray(parked[x], g)]
      BY <2>3 DEF Abort, InBody, Op
    <3>2. parked["main"] = <<>> => parked'["main"] = <<>>
      BY <1>t, <3>1 DEF LeaveArray
    <3> QED BY <1>6, <1>a, <1>b, <1>i, <3>1, <3>2
  <2> QED BY <1>6, <2>1, <2>2, <2>3
<1> QED BY <1>1, <1>2, <1>3, <1>4, <1>5, <1>6, <1>t, LockStep

-----------------------------------------------------------------------------
(* Wakes of everyone in the loop: the read-write lock, the gates, and the  *)
(* close of the queue.                                                     *)

\* A wake in progress will come to f before it has run all it may run.
Covered(f, x) == \E fr \in Range(stack) : fr.at = "wake" /\ fr.x = x /\ f \in Range(fr.todo) /\ Len(fr.todo) <= fr.left

\* A fiber that is parked was parked before the step and has not moved, or it
\* parks in it.
LEMMA ParkedBefore ==
    ASSUME SyncInv, WakeTypes, host = "loop", Next, NEW f \in Fibers, NEW x \in Futexes, f \in Range(parked'[x])
    PROVE  \/ f \in Range(parked[x]) /\ mem'[f] = mem[f] /\ code'[f] = code[f]
           \/ /\ Parks(f) /\ Park(f, x) /\ WaitsAt(code[f], x) /\ f \notin Range(parked[x])
              /\ Op(code[f]) = "park" => word[x] = mem[f]
<1>t. SchedTypes /\ OnePlaced /\ CodesHold /\ parked \in [Futexes -> Seq(Fibers)] /\ code \in [Fibers -> Codes(kind)]
      /\ mem \in [Fibers -> Int]
  BY DEF SyncInv, PlaceHolds, SchedTypes, CodesHold, WakeTypes
<1>1. ASSUME NEW g \in Fibers, Parks(g)
      PROVE  \/ f \in Range(parked[x]) /\ mem'[f] = mem[f] /\ code'[f] = code[f]
             \/ /\ Parks(f) /\ Park(f, x) /\ WaitsAt(code[f], x) /\ f \notin Range(parked[x])
                /\ Op(code[f]) = "park" => word[x] = mem[f]
  <2>1. PICK y \in Futexes : WaitsAt(code[g], y) /\ Park(g, y) /\ (Op(code[g]) = "park" => word[y] = mem[g])
    BY <1>1 DEF Parks
  <2>2. code' = code /\ mem' = mem /\ Running(g)
    BY <1>1 DEF Parks
  <2>3. parked' = [parked EXCEPT ![y] = Append(parked[y], g)] /\ parked[y] \in Seq(Fibers)
    BY <2>1, <1>t DEF Park
  <2>4. Range(Append(parked[y], g)) = Range(parked[y]) \cup {g}
    BY <2>3, AppendRange
  <2>5. f \in Range(parked[x]) \/ (f = g /\ x = y)
    BY <2>3, <2>4, <1>t
  <2>6. g \notin Range(parked[y])
    BY <1>t, <2>2, RunningTop DEF OnePlaced
  <2> QED BY <1>1, <2>1, <2>2, <2>5, <2>6
<1>2. ASSUME NEW h \in Fibers, NEW g \in Fibers, Abort(h, g), \A z \in Futexes : Range(parked'[z]) = Range(parked[z]) \ {g}
      PROVE  f \in Range(parked[x]) /\ mem'[f] = mem[f] /\ code'[f] = code[f]
  BY <1>2, <1>t DEF Abort, Goto
<1>3. ASSUME Wakes, Range(parked'[x]) \subseteq Range(parked[x])
      PROVE  f \in Range(parked[x]) /\ mem'[f] = mem[f] /\ code'[f] = code[f]
  BY <1>3 DEF Wakes
<1>4. ASSUME parked' = parked, NEW g \in Fibers, Works(g) \/ Suspend(g) \/ Resume(g)
      PROVE  f \in Range(parked[x]) /\ mem'[f] = mem[f] /\ code'[f] = code[f]
  <2>1. CASE Works(g)
    <3>1. f # g
      BY <1>4, <1>t, <2>1, WorkerStays DEF OnePlaced
    <3>2. code'[f] = code[f]
      BY <2>1, <3>1, <1>t DEF Works, Goto
    <3>3. mem'[f] = mem[f]
      BY <2>1, <3>1, <1>t DEF Works
    <3> QED BY <1>4, <3>2, <3>3
  <2>2. CASE Suspend(g) \/ Resume(g)
    BY <1>4, <2>2 DEF Suspend, Resume
  <2> QED BY <1>4, <2>1, <2>2
<1> QED BY <1>1, <1>2, <1>3, <1>4, <1>t, LoopBuckets

\* A wake that is not on top stays as it is, and so do all unless a wake steps.
LEMMA FramesStay ==
    ASSUME CodesHold, SchedTypes, WakeTypes, Next, NEW fr \in Range(stack), fr.at = "wake", ~Wakes \/ fr \in Range(Tail(stack))
    PROVE  fr \in Range(stack')
<1>t. stack \in Seq(Frames) /\ <<>> \in Seq(Frames)
  BY DEF SchedTypes
<1>e. stack # <<>>
  BY <1>t, RangeSeq
<1>w. ASSUME NEW x \in Futexes, NEW n \in Int, Wake(x, n) PROVE fr \in Range(stack')
  <2>1. \A d : fr \in Range(<<d>> \o stack)
    BY <1>t, PushKeeps
  <2>2. stack' = stack \/ \E d : stack' = <<d>> \o stack
    BY <1>w DEF Wake
  <2> QED BY <2>1, <2>2
<1>1. CASE Wakes
  <2> PICK top : top = Head(stack)
    OBVIOUS
  <2>1. top.at = "wake" /\ (LoopWakes(top) \/ ProcessWakes(top))
    BY <1>1 DEF Wakes
  <2>2. Tail(stack) \in Seq(Frames) /\ fr \in Range(Tail(stack))
    BY <1>1, <1>e, <1>t, PopStack
  <2>3. \A r \in Frames : <<r>> \o Tail(stack) \in Seq(Frames) /\ fr \in Range(<<r>> \o Tail(stack))
    BY <2>2, PushRange
  <2>4. ASSUME NEW r \in Frames, NEW d PROVE fr \in Range(<<d>> \o (<<r>> \o Tail(stack)))
    <3> PICK q \in Seq(Frames) : q = <<r>> \o Tail(stack)
      BY <2>3
    <3>1. Range(<<d>> \o q) = {d} \cup Range(q)
      BY PushKeeps
    <3> QED BY <2>3, <3>1
  <2>5. CASE LoopWakes(top)
    BY <1>e, <2>1, <2>2, <2>3, <2>4, <2>5, LoopTop
  <2>6. CASE ProcessWakes(top)
    BY <1>e, <2>1, <2>2, <2>3, <2>4, <2>6, ProcessTop
  <2> QED BY <2>1, <2>5, <2>6
<1>2. CASE WakeReady
  BY <1>2, <1>e DEF WakeReady
<1>3. ASSUME NEW f \in Fibers, Works(f) PROVE fr \in Range(stack')
  BY <1>3, <1>w DEF Works
<1>4. ASSUME NEW f \in Fibers, Parks(f) \/ Suspend(f) PROVE fr \in Range(stack')
  <2>1. stack' = Tail(stack) /\ Running(f)
    BY <1>4 DEF Parks, Park, Suspend, InBody
  <2>2. Range(stack) = {Run(f)} \cup Range(Tail(stack))
    BY <2>1, <1>e, <1>t, PopStack DEF Running
  <2> QED BY <2>1, <2>2, FrameFacts
<1>5. ASSUME NEW f \in Fibers, Resume(f) PROVE FALSE
  BY <1>5, <1>e DEF Resume
<1>6. ASSUME NEW f \in Fibers, NEW g \in Fibers, Abort(f, g) PROVE fr \in Range(stack')
  <2>1. stack' = <<Run(g)>> \o stack
    BY <1>6 DEF Abort
  <2> QED BY <2>1, <1>t, PushKeeps
<1> QED BY <1>1, <1>2, <1>3, <1>4, <1>5, <1>6, StepOf

\* A wake comes to a fiber that stays parked.
LEMMA CoveredStays ==
    ASSUME SyncInv, WakeTypes, host = "loop", Next, NEW f \in Fibers, NEW x \in Futexes,
           f \in Range(parked[x]), f \in Range(parked'[x]), Covered(f, x)
    PROVE  Covered(f, x)'
<1>t. SchedTypes /\ OnePlaced /\ CodesHold /\ parked \in [Futexes -> Seq(Fibers)] /\ stack \in Seq(Frames)
  BY DEF SyncInv, PlaceHolds, SchedTypes
<1> PICK fr \in Range(stack) : fr.at = "wake" /\ fr.x = x /\ f \in Range(fr.todo) /\ Len(fr.todo) <= fr.left
  BY DEF Covered
<1>0. fr \in Frames /\ fr.todo \in Seq(Fibers) /\ fr.left \in Int /\ stack # <<>>
  BY <1>t, RangeSeq, WakeFrames
<1>1. CASE ~Wakes \/ fr \in Range(Tail(stack))
  <2>1. fr \in Range(stack')
    BY <1>1, <1>t, FramesStay
  <2> QED BY <2>1 DEF Covered
<1>2. CASE Wakes /\ fr \notin Range(Tail(stack))
  <2>1. fr = Head(stack) /\ Tail(stack) \in Seq(Frames)
    BY <1>0, <1>2, <1>t, PopStack
  <2>2. LoopWakes(fr)
    BY <1>2, <2>1 DEF Wakes, ProcessWakes
  <2>3. fr.todo # <<>>
    BY <1>0, RangeSeq
  <2>4. Len(Tail(fr.todo)) = Len(fr.todo) - 1 /\ Len(fr.todo) \in Nat \ {0} /\ fr.left # 0
    BY <1>0, <2>3
  <2>5. Range(fr.todo) = {Head(fr.todo)} \cup Range(Tail(fr.todo))
    BY <1>0, <2>3, TailRange
  <2>6. PICK r \in Frames :
          /\ r.at = "wake" /\ r.x = fr.x /\ r.todo = Tail(fr.todo)
          /\ \/ /\ Head(fr.todo) \notin Range(parked[fr.x]) /\ r.left = fr.left
                /\ stack' = <<r>> \o Tail(stack)
             \/ /\ r.left = fr.left - 1
                /\ stack' = <<Run(Head(fr.todo))>> \o (<<r>> \o Tail(stack))
                /\ parked' = [parked EXCEPT ![fr.x] = LeaveArray(@, Head(fr.todo))]
    BY <1>0, <1>t, <2>1, <2>2, <2>3, <2>4, LoopTop
  <2>7. <<r>> \o Tail(stack) \in Seq(Frames) /\ r \in Range(<<r>> \o Tail(stack))
    BY <2>1, PushRange
  <2>8. \A d : r \in Range(<<d>> \o (<<r>> \o Tail(stack)))
    BY <2>7, PushKeeps
  <2>9. r \in Range(stack')
    BY <2>6, <2>7, <2>8
  <2>10. f # Head(fr.todo)
    <3>1. parked[x] \in Seq(Fibers) /\ Distinct(parked[x])
      BY <1>t DEF OnePlaced
    <3>2. Head(fr.todo) \notin Range(LeaveArray(parked[x], Head(fr.todo)))
      BY <3>1, LeaveArrayRange
    <3> QED BY <1>t, <2>6, <3>2
  <2>11. f \in Range(r.todo)
    BY <2>5, <2>6, <2>10
  <2>12. Len(r.todo) <= r.left
    BY <1>0, <2>4, <2>6
  <2> QED BY <2>6, <2>9, <2>11, <2>12 DEF Covered
<1> QED BY <1>1, <1>2

\* No bucket of the loop holds more fibers than there are.
LEMMA BucketSmall ==
    ASSUME NEW q \in Seq(Fibers), Distinct(q) PROVE Len(q) <= Everyone
<1>1. q \in Injection(1..Len(q), Fibers)
  BY DEF Distinct, Injection, IsInjective
<1>2. Cardinality(1..Len(q)) <= Cardinality(Fibers)
  BY <1>1, EveryoneNat, FS_Injection
<1>3. Len(q) \in Nat
  OBVIOUS
<1>4. Cardinality(1..Len(q)) = IF 1 > Len(q) THEN 0 ELSE Len(q) - 1 + 1
  BY <1>3, FS_Interval
<1> QED BY <1>2, <1>3, <1>4 DEF Everyone

\* A wake of everyone comes to everyone.
LEMMA CoverAll ==
    ASSUME SyncInv, host = "loop", NEW f \in Fibers, NEW x \in Futexes, f \in Range(parked[x]), Wake(x, Everyone)
    PROVE  Covered(f, x)'
<1>t. OnePlaced /\ parked[x] \in Seq(Fibers) /\ stack \in Seq(Frames)
  BY DEF SyncInv, PlaceHolds, SchedTypes
<1>1. parked[x] # <<>>
  BY <1>t, RangeSeq
<1> PICK fr : fr = WakeFrame(x, Everyone)
  OBVIOUS
<1>2. fr.at = "wake" /\ fr.x = x /\ fr.todo = parked[x] /\ fr.left = Everyone
  BY DEF WakeFrame
<1>3. stack' = <<fr>> \o stack
  BY <1>1 DEF Wake
<1>4. fr \in Range(stack')
  BY <1>3, <1>t, PushKeeps
<1>5. Len(fr.todo) <= fr.left
  BY <1>2, <1>t, BucketSmall DEF OnePlaced
<1> QED BY <1>2, <1>4, <1>5 DEF Covered

\* The objects whose fibers are all woken at once.
Alls == Gates \cup {"rwlock"}

\* Their one word changes with a wake of everyone, or to say still shut.
LEMMA AllWords ==
    ASSUME kind \in Alls, CodesHold, SchedTypes, Next
    PROVE  \/ word'["main"] = word["main"] \/ Wake("main", Everyone)
           \/ (kind = "barrier" /\ word'["main"] # Everyone) \/ (kind = "once" /\ word'["main"] = 1)
<1> DEFINE Fine == \/ word'["main"] = word["main"] \/ Wake("main", Everyone)
                   \/ (kind = "barrier" /\ word'["main"] # Everyone) \/ (kind = "once" /\ word'["main"] = 1)
<1>t. code \in [Fibers -> Codes(kind)] /\ word \in [Futexes -> Int] /\ "main" \in Futexes
  BY DEF CodesHold, SchedTypes, Futexes
<1>o. ASSUME NEW f \in Fibers, code[f] # <<>>
      PROVE  /\ kind = "rwlock" => Op(code[f]) \in {"read", "write", "park", "body", "ensure"}
             /\ kind = "barrier" => Op(code[f]) \in {"arrive", "park", "body"}
             /\ kind = "latch" => Op(code[f]) \in {"gate", "park", "body", "open"}
             /\ kind = "once" => Op(code[f]) \in {"get", "park", "body", "ensure"}
  <2>1. kind \in Gates => GateCode(code[f])
    BY <1>o, <1>t, GateCodesAre
  <2>2. kind = "rwlock" => Op(code[f]) \in {"read", "write", "park", "body", "ensure"}
    BY <1>o, <1>t, RwOps
  <2> QED BY <2>1, <2>2 DEF GateCode, Gates
<1>d. ASSUME NEW f \in Fibers, NEW op, Doing(f, op)
      PROVE  /\ op \notin {"acquire", "try", "down", "notify", "broadcast"}
             /\ op = "arrive" => kind = "barrier"
             /\ op = "get" => kind = "once"
  BY <1>d, <1>o DEF Doing, Op, Alls, Gates
<1>1. ASSUME NEW f \in Fibers, Call(f) PROVE Fine
  <2>1. CASE FutexWait(f) \/ CvWait(f) \/ RwAcquire(f) \/ LatchWait(f) \/ QueuePut(f) \/ QueueTake(f) \/ QueueClose(f)
    BY <2>1 DEF FutexWait, CvWait, RwAcquire, LatchWait, QueuePut, QueueTake, QueueClose
  <2>2. CASE Acquire(f) \/ TryAcquire(f) \/ SemAcquire(f) \/ Notify(f)
    BY <2>2, <1>d DEF Acquire, TryAcquire, SemAcquire, Notify
  <2>3. CASE Release(f) \/ SemRelease(f)
    BY <2>3 DEF Release, SemRelease, Alls, Gates
  <2>4. CASE RwRelease(f) \/ Open(f)
    BY <2>4 DEF RwRelease, Open
  <2>5. CASE BarrierWait(f)
    <3>1. kind = "barrier"
      BY <1>d, <2>5 DEF BarrierWait
    <3> PICK n : n = word["main"] + 1
      OBVIOUS
    <3>2. word'["main"] = n /\ (n = Everyone => Wake("main", Everyone))
      BY <1>t, <2>5 DEF BarrierWait, Set, Full
    <3> QED BY <3>1, <3>2
  <2>6. CASE OnceGet(f)
    <3>1. kind = "once"
      BY <1>d, <2>6 DEF OnceGet
    <3>2. word' = word \/ Set("main", 1)
      BY <2>6 DEF OnceGet
    <3> QED BY <1>t, <3>1, <3>2 DEF Set
  <2> QED BY <1>1, <2>1, <2>2, <2>3, <2>4, <2>5, <2>6 DEF Call
<1>2. ASSUME ~ \E f \in Fibers : Call(f) PROVE word' = word
  BY <1>2 DEF Next, WakeNext, WakeReady, Begin, LeaveBody, InMonitor, Suspend, Resume, Abort
<1> QED BY <1>1, <1>2

\* What f waits for is there.
Due(f) ==
    \/ kind = "rwlock" /\ word["main"] # mem[f]
    \/ kind = "barrier" /\ word["main"] = Everyone
    \/ kind = "latch" /\ word["main"] = 1
    \/ kind = "once" /\ word["main"] = 2

\* Whoever could go will be run by a wake in progress; when the queue was closed,
\* by one in progress or one that is still to be made.
GateWakes == kind \in Alls => \A f \in Fibers : f \in Range(parked["main"]) /\ Due(f) => Covered(f, "main")
CloseWakes ==
    kind = "queue" /\ closed => \A f \in Fibers, x \in Conds : f \in Range(parked[x]) => Closing(x) \/ Covered(f, x)

\* No wake of everyone leaves anybody out.
LEMMA GateWakesKept ==
    ASSUME SyncInv, WakeTypes, StopInv, host = "loop", GateWakes, Next PROVE GateWakes'
<1>t. /\ SchedTypes /\ CodesHold /\ code \in [Fibers -> Codes(kind)] /\ word \in [Futexes -> Int] /\ "main" \in Futexes
      /\ Everyone \in Nat
  BY EveryoneNat DEF SyncInv, PlaceHolds, SchedTypes, CodesHold, Futexes
<1>k. kind' = kind
  BY SameObject
<1> SUFFICES ASSUME kind \in Alls, NEW f \in Fibers, f \in Range(parked'["main"]), Due(f)' PROVE Covered(f, "main")'
  BY <1>k DEF GateWakes
<1>d. \/ kind = "rwlock" /\ word'["main"] # mem'[f]
      \/ kind = "barrier" /\ word'["main"] = Everyone
      \/ kind = "latch" /\ word'["main"] = 1
      \/ kind = "once" /\ word'["main"] = 2
  BY <1>k DEF Due
<1>1. CASE f \in Range(parked["main"]) /\ mem'[f] = mem[f]
  <2>1. CASE Wake("main", Everyone)
    BY <1>1, <1>t, <2>1, CoverAll
  <2>2. CASE ~Wake("main", Everyone)
    <3>1. word'["main"] = word["main"]
      BY <1>d, <1>t, <2>2, AllWords
    <3>2. Due(f)
      BY <1>1, <1>d, <3>1 DEF Due
    <3>3. Covered(f, "main")
      BY <1>1, <3>2 DEF GateWakes
    <3> QED BY <1>1, <1>t, <3>3, CoveredStays
  <2> QED BY <2>1, <2>2
<1>2. CASE Parks(f) /\ WaitsAt(code[f], "main") /\ (Op(code[f]) = "park" => word["main"] = mem[f])
  <2>1. code[f] # <<>> /\ word' = word /\ mem' = mem
    BY <1>2 DEF Parks
  <2>2. Stopped(code[f])
    <3>1. kind \in Gates => GateCode(code[f])
      BY <1>t, <2>1, GateCodesAre
    <3>2. kind = "rwlock" => Op(code[f]) \in {"read", "write", "park", "body", "ensure"}
      BY <1>t, <2>1, RwOps
    <3> QED BY <1>2, <2>1, <3>1, <3>2 DEF GateCode, Gates, Alls, WaitsAt, Stopped
  <2>3. word["main"] = mem[f]
    BY <1>2, <2>2 DEF Stopped
  <2>4. /\ kind = "barrier" => mem[f] # Everyone
        /\ kind = "latch" => mem[f] = 0
        /\ kind = "once" => mem[f] = 1
    BY <2>2 DEF StopInv, BarrierStops, LatchStops, LatchInv, OnceInv
  <2> QED BY <1>d, <2>1, <2>3, <2>4
<1> QED BY <1>1, <1>2, <1>t, ParkedBefore

\* Nobody is left behind when the queue closes.
LEMMA CloseWakesKept ==
    ASSUME SyncInv, WakeTypes, BufHolds, QFine, Busy, StopInv, LoopPlace, host = "loop", CloseWakes, Next PROVE CloseWakes'
<1>t. SchedTypes /\ CodesHold /\ Conds \subseteq Futexes
  BY DEF SyncInv, PlaceHolds, Conds, Futexes
<1>k. kind' = kind
  BY SameObject
<1> SUFFICES ASSUME kind = "queue", closed', NEW f \in Fibers, NEW x \in Conds, f \in Range(parked'[x])
             PROVE  Closing(x)' \/ Covered(f, x)'
  BY <1>k DEF CloseWakes
<1>f. x \in Futexes
  BY <1>t
<1>g. closed' = closed \/ (closed' /\ Closing(x)')
  BY <1>t, QGrows
<1>p. Closing(x) => Closing(x)' \/ Wake(x, Everyone)
  BY PendingStays
<1> SUFFICES ASSUME closed PROVE Closing(x)' \/ Covered(f, x)'
  BY <1>g
<1>1. CASE f \in Range(parked[x])
  <2>1. CASE Wake(x, Everyone)
    BY <1>1, <1>f, <2>1, CoverAll
  <2>2. CASE ~Wake(x, Everyone)
    <3>1. Closing(x) \/ Covered(f, x)
      BY <1>1 DEF CloseWakes
    <3>2. Covered(f, x) => Covered(f, x)'
      BY <1>1, <1>f, CoveredStays
    <3> QED BY <1>p, <2>2, <3>1, <3>2
  <2> QED BY <2>1, <2>2
<1>2. CASE Parks(f) /\ WaitsAt(code[f], x) /\ (Op(code[f]) = "park" => word[x] = mem[f])
  <2>1. code[f] # <<>> /\ code' = code /\ QCode(code[f])
    BY <1>2 DEF Parks, QFine
  <2>2. Op(code[f]) = "park" /\ Arg(code[f]) = x
    BY <1>2 DEF WaitsAt, Conds
  <2>3. PICK y \in Conds : code[f] = QPark(y, User(y))
    BY <2>1, <2>2, QOps DEF QByOp
  <2>4. Arg(QPark(y, User(y))) = y
    BY QIs DEF Is
  <2>5. QStops(x, f)
    BY <2>2, <2>3, <2>4 DEF StopInv, QueueStops
  <2>6. Closing(x)
    BY <1>2, <2>2, <2>5 DEF QStops
  <2>7. Closing(x)'
    BY <2>1, <2>6 DEF Closing
  <2> QED BY <2>7
<1> QED BY <1>1, <1>2, <1>f, ParkedBefore

-----------------------------------------------------------------------------
(* The queue in the loop, while it is open: one fiber at a time has what   *)
(* another fiber waits for, or is about to tell it.                        *)

\* A fiber that has nothing to do suspends, ends or aborts another one.
QIdles(f) ==
    /\ code[f] = <<>>
    /\ code' = code \/ \E g \in Fibers : code' = [code EXCEPT ![g] = <<>>]
    /\ \A y \in Futexes : Range(parked'[y]) \subseteq Range(parked[y]) /\ (parked[y] = <<>> => parked'[y] = <<>>)
    /\ UNCHANGED <<word, mem, buf, closed>>

\* What runs and what it may do.
LEMMA QLoopStep ==
    ASSUME kind = "queue", SyncInv, WakeTypes, BufHolds, QFine, host = "loop", Next
    PROVE  \/ /\ stack # <<>> /\ Head(stack).at = "wake" /\ LoopWakes(Head(stack))
              /\ UNCHANGED <<word, code, mem, buf, closed>>
           \/ stack = <<>> /\ UNCHANGED <<word, code, mem, buf, closed, parked>>
           \/ \E f \in Fibers : /\ Running(f)
                                /\ \/ QWorks(f) /\ parked' = parked
                                   \/ Parks(f) /\ UNCHANGED <<word, code, mem, buf, closed>>
                                   \/ QIdles(f)
<1>t. SchedTypes /\ CodesHold
  BY DEF SyncInv, PlaceHolds
<1>b. ASSUME NEW f \in Fibers, InBody(f) PROVE Running(f) /\ code[f] = <<>>
  <2>1. code[f] # <<>> => QByOp(code[f])
    BY QOps DEF QFine
  <2> QED BY <1>b, <2>1 DEF InBody, QByOp, QCalls, Op
<1>1. CASE QRests
  <2>1. CASE Wakes
    <3>1. LoopWakes(Head(stack))
      BY <2>1 DEF Wakes, ProcessWakes
    <3> QED BY <1>1, <2>1, <3>1 DEF QRests, Wakes
  <2>2. CASE WakeReady
    BY <2>2 DEF WakeReady
  <2>3. ASSUME NEW f \in Fibers, Parks(f) PROVE Running(f) /\ Parks(f) /\ UNCHANGED <<word, code, mem, buf, closed>>
    BY <1>1, <2>3 DEF QRests, Parks
  <2>4. ASSUME NEW f \in Fibers, Suspend(f) PROVE Running(f) /\ QIdles(f)
    BY <1>1, <1>b, <2>4 DEF QRests, Suspend, QIdles
  <2>5. ASSUME NEW f \in Fibers, Resume(f) PROVE stack = <<>> /\ parked' = parked
    BY <2>5 DEF Resume
  <2> QED BY <1>1, <2>1, <2>2, <2>3, <2>4, <2>5 DEF QRests
<1>2. ASSUME NEW f \in Fibers, NEW g \in Fibers, QAborts(f, g) PROVE Running(f) /\ QIdles(f)
  <2>1. Running(f) /\ code[f] = <<>> /\ code' = [code EXCEPT ![g] = <<>>] /\ UNCHANGED <<word, mem, buf, closed>>
    BY <1>2 DEF QAborts, Abort, InBody, Goto
  <2>2. parked' = [y \in Futexes |-> LeaveArray(parked[y], g)]
    BY <1>2 DEF QAborts, Abort
  <2>3. ASSUME NEW y \in Futexes
        PROVE  Range(parked'[y]) \subseteq Range(parked[y]) /\ (parked[y] = <<>> => parked'[y] = <<>>)
    <3>1. parked[y] \in Seq(Fibers)
      BY <1>t DEF SchedTypes
    <3>2. Range(LeaveArray(parked[y], g)) \subseteq Range(parked[y])
      BY <3>1, LeaveArrayRange
    <3>3. parked[y] = <<>> => LeaveArray(parked[y], g) = <<>>
      BY DEF LeaveArray
    <3> QED BY <2>2, <3>2, <3>3
  <2> QED BY <2>1, <2>3 DEF QIdles
<1>3. ASSUME NEW f \in Fibers, QWorks(f) PROVE Running(f) /\ parked' = parked
  <2>1. \A x, n : Wake(x, n) => parked' = parked
    BY DEF Wake
  <2> QED BY <1>3, <2>1 DEF QWorks, QBegins, QEnters, QWaits, QServes, QFails, QCloses, QReads, QFrees, QLooks, QNotifies
<1> QED BY <1>1, <1>2, <1>3, <1>t, QStep

\* The code of a fiber that has the queue's lock.
InLock(c) == c # <<>> /\ Op(c) \in QCalls \cup {"wait", "release", "notify", "broadcast"}
NoneIn(c) == \A f \in Fibers : ~InLock(c[f])
OnlyIn(c, h) == \A f \in Fibers : InLock(c[f]) => f = h

\* What is on top of a stack.
RunAt(s, f) == s # <<>> /\ Head(s) = Run(f)
WakeAt(s, X, n) == s # <<>> /\ Head(s).at = "wake" /\ Head(s).x \in X /\ Head(s).left = n
Single(p) == \A g, h \in Range(p) : g = h

\* The lock is free, and nobody waits for it or one fiber does that the release
\* is about to wake; or h has it, and while h works nobody waits for it: a fiber
\* that comes to wait is the one h has notified, which h frees the lock for next.
Free(w, p, c) == w = 0 /\ NoneIn(c) /\ p = <<>>
Hands(w, p, c, s) ==
    w = 0 /\ NoneIn(c) /\ WakeAt(s, {"main"}, 1) /\ Single(p) /\ Range(p) \subseteq Range(Head(s).todo)
Has(w, p, c, s, h) ==
    w = 1 /\ OnlyIn(c, h) /\ RunAt(s, h) /\ p = <<>> /\ InLock(c[h]) /\ Op(c[h]) # "broadcast" /\ c[h] # QDone
Tells(w, p, c, s, h) == w = 1 /\ OnlyIn(c, h) /\ c[h] = QDone /\ WakeAt(s, Conds, 1) /\ RunAt(Tail(s), h) /\ p = <<>>
Awakens(w, p, c, s, g, h) ==
    /\ w = 1 /\ OnlyIn(c, h) /\ c[h] = QDone /\ p = <<>>
    /\ RunAt(s, g) /\ c[g] # <<>> /\ Op(c[g]) \in {"park", "acquire"}
    /\ WakeAt(Tail(s), Conds, 0) /\ RunAt(Tail(Tail(s)), h)
Told(w, p, c, s, h) == w = 1 /\ OnlyIn(c, h) /\ c[h] = QDone /\ WakeAt(s, Conds, 0) /\ RunAt(Tail(s), h) /\ Single(p)
Leaves(w, p, c, s, h) == w = 1 /\ OnlyIn(c, h) /\ c[h] = QDone /\ RunAt(s, h) /\ Single(p)
InPhase(w, p, c, s) ==
    \/ Free(w, p, c) \/ Hands(w, p, c, s)
    \/ \E h \in Fibers : \/ Has(w, p, c, s, h) \/ Tells(w, p, c, s, h) \/ Told(w, p, c, s, h) \/ Leaves(w, p, c, s, h)
                         \/ \E g \in Fibers : Awakens(w, p, c, s, g, h)
QPhase == kind = "queue" /\ ~closed => InPhase(word["main"], parked["main"], code, stack)

\* Which codes have the lock.
LEMMA QInLock ==
    /\ ~InLock(<<>>) /\ InLock(QDone)
    /\ \A a \in QCalls : InLock(QAct(a)) /\ Op(QAct(a)) # "broadcast" /\ QAct(a) # QDone /\ ~InLock(QBack("main", a))
    /\ \A x \in Conds : /\ ~InLock(QBack(x, User(x))) /\ ~InLock(QPark(x, User(x)))
                        /\ InLock(QWait(x, User(x))) /\ Op(QWait(x, User(x))) # "broadcast" /\ QWait(x, User(x)) # QDone
                        /\ InLock(QRelease(x, User(x))) /\ Op(QRelease(x, User(x))) # "broadcast" /\ QRelease(x, User(x)) # QDone
                        /\ InLock(QNotify(x)) /\ Op(QNotify(x)) # "broadcast" /\ QNotify(x) # QDone
    /\ InLock(QClose) /\ InLock(QClosing) /\ Op(QClose) = "broadcast" /\ Op(QClosing) = "broadcast"
<1>1. ~InLock(<<>>)
  BY DEF InLock
<1>2. QDone # <<>> /\ Op(QDone) = "release" /\ Arg(QDone) = "main" /\ InLock(QDone)
  BY QIs DEF Is, InLock
<1>3. ASSUME NEW a \in QCalls
      PROVE  InLock(QAct(a)) /\ Op(QAct(a)) # "broadcast" /\ QAct(a) # QDone /\ ~InLock(QBack("main", a))
  <2>1. QAct(a) # <<>> /\ Op(QAct(a)) = a /\ Op(QBack("main", a)) = "acquire"
    BY QIs DEF Is
  <2> QED BY <1>2, <2>1 DEF InLock, QCalls
<1>4. ASSUME NEW x \in Conds
      PROVE  /\ ~InLock(QBack(x, User(x))) /\ ~InLock(QPark(x, User(x)))
             /\ InLock(QWait(x, User(x))) /\ Op(QWait(x, User(x))) # "broadcast" /\ QWait(x, User(x)) # QDone
             /\ InLock(QRelease(x, User(x))) /\ Op(QRelease(x, User(x))) # "broadcast" /\ QRelease(x, User(x)) # QDone
             /\ InLock(QNotify(x)) /\ Op(QNotify(x)) # "broadcast" /\ QNotify(x) # QDone
  <2>1. /\ Op(QBack(x, User(x))) = "acquire" /\ Op(QPark(x, User(x))) = "park"
        /\ QWait(x, User(x)) # <<>> /\ Op(QWait(x, User(x))) = "wait"
        /\ QRelease(x, User(x)) # <<>> /\ Op(QRelease(x, User(x))) = "release" /\ Arg(QRelease(x, User(x))) = x
        /\ QNotify(x) # <<>> /\ Op(QNotify(x)) = "notify"
    BY QIs DEF Is
  <2> QED BY <1>2, <2>1 DEF InLock, QCalls, Conds
<1>5. InLock(QClose) /\ InLock(QClosing) /\ Op(QClose) = "broadcast" /\ Op(QClosing) = "broadcast"
  BY QIs DEF Is, InLock
<1> QED BY <1>1, <1>2, <1>3, <1>4, <1>5

\* An open queue in the loop.
OpenLoop == kind = "queue" /\ SyncInv /\ WakeTypes /\ BufHolds /\ QFine /\ host = "loop" /\ LoopPlace /\ ~closed

\* A new code for f, and who has the lock.
LEMMA GotoIn ==
    ASSUME CodesHold, NEW f \in Fibers, NEW d, code' = [code EXCEPT ![f] = d]
    PROVE  /\ code'[f] = d /\ \A g \in Fibers \ {f} : code'[g] = code[g]
           /\ NoneIn(code) => OnlyIn(code', f)
           /\ OnlyIn(code, f) => OnlyIn(code', f)
           /\ (NoneIn(code) \/ OnlyIn(code, f)) /\ ~InLock(d) => NoneIn(code')
           /\ \A h \in Fibers : OnlyIn(code, h) /\ ~InLock(d) => OnlyIn(code', h)
<1>1. code'[f] = d /\ \A g \in Fibers \ {f} : code'[g] = code[g]
  BY DEF CodesHold
<1> QED BY <1>1 DEF NoneIn, OnlyIn

\* A wake of the loop leaves the bucket of the lock as it is, or takes out the
\* fiber that it runs.
LEMMA QWakeStep ==
    ASSUME OpenLoop, NEW fr, fr = Head(stack), stack # <<>>, fr.at = "wake", LoopWakes(fr)
    PROVE  /\ fr \in Frames /\ fr.todo \in Seq(Fibers) /\ fr.x \in Futexes /\ fr.left \in Int /\ Tail(stack) \in Seq(Frames)
           /\ fr.todo # <<>> => Head(fr.todo) \in Fibers /\ Range(fr.todo) = {Head(fr.todo)} \cup Range(Tail(fr.todo))
           /\ fr.todo = <<>> => Range(fr.todo) = {}
           /\ \/ (fr.todo = <<>> \/ fr.left = 0) /\ stack' = Tail(stack) /\ parked' = parked
              \/ /\ fr.todo # <<>> /\ fr.left # 0
                 /\ \E r \in Frames :
                      /\ r.at = "wake" /\ r.x = fr.x /\ r.todo = Tail(fr.todo)
                      /\ \/ /\ Head(fr.todo) \notin Range(parked[fr.x]) /\ r.left = fr.left
                            /\ stack' # <<>> /\ Head(stack') = r /\ Tail(stack') = Tail(stack) /\ parked' = parked
                         \/ /\ Head(fr.todo) \in Range(parked[fr.x]) /\ r.left = fr.left - 1
                            /\ RunAt(stack', Head(fr.todo)) /\ Tail(stack') # <<>> /\ Head(Tail(stack')) = r
                            /\ Tail(Tail(stack')) = Tail(stack)
                            /\ Range(parked'[fr.x]) = Range(parked[fr.x]) \ {Head(fr.todo)}
                            /\ \A y \in Futexes \ {fr.x} : parked'[y] = parked[y]
           /\ \A y \in Futexes : parked[y] = <<>> => parked'[y] = <<>>
<1>t. SchedTypes /\ OnePlaced /\ stack \in Seq(Frames) /\ parked \in [Futexes -> Seq(Fibers)]
  BY DEF OpenLoop, SyncInv, PlaceHolds, SchedTypes
<1>1. fr \in Frames /\ Tail(stack) \in Seq(Frames)
  BY <1>t, PopStack
<1>2. fr.todo \in Seq(Fibers) /\ fr.x \in Futexes /\ fr.left \in Int
  BY <1>1, WakeFrames
<1>3. fr.todo # <<>> => Head(fr.todo) \in Fibers /\ Range(fr.todo) = {Head(fr.todo)} \cup Range(Tail(fr.todo))
  BY <1>2, TailRange
<1>4. fr.todo = <<>> => Range(fr.todo) = {}
  BY DEF Range
<1>5. /\ Range(LeaveArray(parked[fr.x], Head(fr.todo))) = Range(parked[fr.x]) \ {Head(fr.todo)}
      /\ parked[fr.x] = <<>> => LeaveArray(parked[fr.x], Head(fr.todo)) = <<>>
  <2>1. Distinct(parked[fr.x]) /\ parked[fr.x] \in Seq(Fibers)
    BY <1>2, <1>t DEF OnePlaced
  <2>2. /\ Range(LeaveArray(parked[fr.x], Head(fr.todo))) \subseteq Range(parked[fr.x])
        /\ Range(parked[fr.x]) \ {Head(fr.todo)} \subseteq Range(LeaveArray(parked[fr.x], Head(fr.todo)))
        /\ Head(fr.todo) \notin Range(LeaveArray(parked[fr.x], Head(fr.todo)))
    BY <2>1, LeaveArrayRange
  <2>3. parked[fr.x] = <<>> => LeaveArray(parked[fr.x], Head(fr.todo)) = <<>>
    BY DEF LeaveArray
  <2> QED BY <2>2, <2>3
<1>6. CASE (fr.todo = <<>> \/ fr.left = 0) /\ stack' = Tail(stack) /\ parked' = parked
  BY <1>1, <1>2, <1>3, <1>4, <1>6
<1>7. ASSUME fr.todo # <<>>, fr.left # 0, NEW r \in Frames, r.at = "wake", r.x = fr.x, r.todo = Tail(fr.todo),
             Head(fr.todo) \notin Range(parked[fr.x]), r.left = fr.left, stack' = <<r>> \o Tail(stack), parked' = parked
      PROVE  stack' # <<>> /\ Head(stack') = r /\ Tail(stack') = Tail(stack)
  BY <1>1, <1>7, PushStack
<1>8. ASSUME fr.todo # <<>>, fr.left # 0, NEW r \in Frames, r.at = "wake", r.x = fr.x, r.todo = Tail(fr.todo),
             Head(fr.todo) \in Range(parked[fr.x]), r.left = fr.left - 1,
             stack' = <<Run(Head(fr.todo))>> \o (<<r>> \o Tail(stack)),
             parked' = [parked EXCEPT ![fr.x] = LeaveArray(@, Head(fr.todo))]
      PROVE  /\ RunAt(stack', Head(fr.todo)) /\ Tail(stack') # <<>> /\ Head(Tail(stack')) = r
             /\ Tail(Tail(stack')) = Tail(stack)
             /\ Range(parked'[fr.x]) = Range(parked[fr.x]) \ {Head(fr.todo)}
             /\ \A y \in Futexes \ {fr.x} : parked'[y] = parked[y]
             /\ parked[fr.x] = <<>> => parked'[fr.x] = <<>>
  <2> PICK s : s = <<r>> \o Tail(stack)
    OBVIOUS
  <2>1. s \in Seq(Frames) /\ s # <<>> /\ Head(s) = r /\ Tail(s) = Tail(stack)
    BY <1>1, PushStack
  <2>2. Run(Head(fr.todo)) \in Frames
    BY <1>3, <1>8, FrameFacts
  <2>3. stack' = <<Run(Head(fr.todo))>> \o s
    BY <1>8
  <2>4. stack' # <<>> /\ Head(stack') = Run(Head(fr.todo)) /\ Tail(stack') = s
    BY <2>1, <2>2, <2>3, PushStack
  <2>5. /\ parked'[fr.x] = LeaveArray(parked[fr.x], Head(fr.todo))
        /\ \A y \in Futexes \ {fr.x} : parked'[y] = parked[y]
    BY <1>2, <1>8, <1>t
  <2> QED BY <1>5, <2>1, <2>4, <2>5 DEF RunAt
<1>9. \/ (fr.todo = <<>> \/ fr.left = 0) /\ stack' = Tail(stack) /\ parked' = parked
      \/ /\ fr.todo # <<>> /\ fr.left # 0
         /\ \E r \in Frames :
              /\ r.at = "wake" /\ r.x = fr.x /\ r.todo = Tail(fr.todo)
              /\ \/ /\ Head(fr.todo) \notin Range(parked[fr.x]) /\ r.left = fr.left
                    /\ stack' = <<r>> \o Tail(stack) /\ parked' = parked
                 \/ /\ Head(fr.todo) \in Range(parked[fr.x]) /\ r.left = fr.left - 1
                    /\ stack' = <<Run(Head(fr.todo))>> \o (<<r>> \o Tail(stack))
                    /\ parked' = [parked EXCEPT ![fr.x] = LeaveArray(@, Head(fr.todo))]
  BY <1>t, LoopTop
<1>10. CASE fr.todo # <<>> /\ fr.left # 0
  <2>1. PICK r \in Frames :
              /\ r.at = "wake" /\ r.x = fr.x /\ r.todo = Tail(fr.todo)
              /\ \/ /\ Head(fr.todo) \notin Range(parked[fr.x]) /\ r.left = fr.left
                    /\ stack' = <<r>> \o Tail(stack) /\ parked' = parked
                 \/ /\ Head(fr.todo) \in Range(parked[fr.x]) /\ r.left = fr.left - 1
                    /\ stack' = <<Run(Head(fr.todo))>> \o (<<r>> \o Tail(stack))
                    /\ parked' = [parked EXCEPT ![fr.x] = LeaveArray(@, Head(fr.todo))]
    BY <1>9, <1>10
  <2>2. CASE Head(fr.todo) \notin Range(parked[fr.x]) /\ r.left = fr.left /\ stack' = <<r>> \o Tail(stack) /\ parked' = parked
    BY <1>1, <1>2, <1>3, <1>4, <1>7, <1>10, <2>1, <2>2
  <2>3. CASE /\ Head(fr.todo) \in Range(parked[fr.x]) /\ r.left = fr.left - 1
             /\ stack' = <<Run(Head(fr.todo))>> \o (<<r>> \o Tail(stack))
             /\ parked' = [parked EXCEPT ![fr.x] = LeaveArray(@, Head(fr.todo))]
    <3>1. /\ RunAt(stack', Head(fr.todo)) /\ Tail(stack') # <<>> /\ Head(Tail(stack')) = r
          /\ Tail(Tail(stack')) = Tail(stack)
          /\ Range(parked'[fr.x]) = Range(parked[fr.x]) \ {Head(fr.todo)}
          /\ \A y \in Futexes \ {fr.x} : parked'[y] = parked[y]
          /\ parked[fr.x] = <<>> => parked'[fr.x] = <<>>
      BY <1>8, <1>10, <2>1, <2>3
    <3>2. \A y \in Futexes : parked[y] = <<>> => parked'[y] = <<>>
      BY <3>1
    <3> QED BY <1>1, <1>2, <1>3, <1>4, <1>10, <2>1, <2>3, <3>1, <3>2
  <2> QED BY <2>1, <2>2, <2>3
<1> QED BY <1>6, <1>9, <1>10

\* A fiber parks in front of the lock that another has, or on the condition that
\* its call waits for.
LEMMA QParkStep ==
    ASSUME OpenLoop, NEW f \in Fibers, Parks(f)
    PROVE  /\ stack' = Tail(stack) /\ code[f] # <<>> /\ ~InLock(code[f]) /\ \A y \in Futexes : f \notin Range(parked[y])
           /\ \E x \in {"main"} \cup Conds :
                /\ Range(parked'[x]) = Range(parked[x]) \cup {f} /\ \A y \in Futexes \ {x} : parked'[y] = parked[y]
                /\ \/ x = "main" /\ Op(code[f]) = "acquire" /\ word["main"] # 0
                   \/ x \in Conds /\ code[f] = QPark(x, User(x)) /\ word[x] = mem[f]
<1>t. SchedTypes /\ OnePlaced /\ parked \in [Futexes -> Seq(Fibers)] /\ QCode(code[f])
  BY DEF OpenLoop, SyncInv, PlaceHolds, SchedTypes, QFine
<1>1. PICK x \in Futexes : /\ WaitsAt(code[f], x) /\ Park(f, x)
                           /\ Op(code[f]) = "acquire" => word["main"] # 0
                           /\ Op(code[f]) = "park" => word[x] = mem[f]
  BY DEF Parks
<1>2. Running(f) /\ code[f] # <<>>
  BY DEF Parks
<1>3. QByOp(code[f])
  BY <1>2, <1>t, QOps
<1>4. \A y \in Futexes : f \notin Range(parked[y])
  BY <1>2, <1>t, RunningTop DEF OnePlaced
<1>5. Op(code[f]) \in {"acquire", "park"} /\ ~InLock(code[f])
  BY <1>1, <1>3 DEF WaitsAt, QByOp, QCalls, InLock
<1>6. stack' = Tail(stack) /\ parked' = [parked EXCEPT ![x] = Append(parked[x], f)] /\ parked[x] \in Seq(Fibers)
  BY <1>1, <1>t DEF Park
<1>7. Range(Append(parked[x], f)) = Range(parked[x]) \cup {f}
  BY <1>6, AppendRange
<1>8. Range(parked'[x]) = Range(parked[x]) \cup {f} /\ \A y \in Futexes \ {x} : parked'[y] = parked[y]
  BY <1>6, <1>7, <1>t
<1>9. CASE Op(code[f]) = "acquire"
  <2>1. x = "main"
    BY <1>1, <1>9 DEF WaitsAt
  <2> QED BY <1>1, <1>2, <1>4, <1>5, <1>6, <1>8, <1>9, <2>1
<1>10. CASE Op(code[f]) = "park"
  <2>1. PICK y \in Conds : code[f] = QPark(y, User(y))
    BY <1>3, <1>10 DEF QByOp
  <2>2. Arg(QPark(y, User(y))) = y
    BY QIs DEF Is
  <2>3. x = y
    BY <1>1, <1>10, <2>1, <2>2 DEF WaitsAt
  <2> QED BY <1>1, <1>2, <1>4, <1>5, <1>6, <1>8, <1>10, <2>1, <2>3
<1> QED BY <1>5, <1>9, <1>10

\* A fiber that the loop runs out of a condition's bucket looks at its word.
LEMMA QWoken ==
    ASSUME OpenLoop, NEW x \in Conds, NEW g \in Fibers, g \in Range(parked[x])
    PROVE  code[g] = QPark(x, User(x)) /\ code[g] # <<>> /\ Op(code[g]) = "park"
<1>1. code[g] # <<>> /\ WaitsAt(code[g], x) /\ QCode(code[g])
  BY DEF OpenLoop, LoopPlace, QFine, Conds, Futexes
<1>2. Op(code[g]) = "park" /\ Arg(code[g]) = x
  BY <1>1 DEF WaitsAt, Conds
<1>3. PICK y \in Conds : code[g] = QPark(y, User(y))
  BY <1>1, <1>2, QOps DEF QByOp
<1>4. Arg(QPark(y, User(y))) = y
  BY QIs DEF Is
<1> QED BY <1>1, <1>2, <1>3, <1>4

\* The lock is free and nobody waits for it.
LEMMA FreeKept ==
    ASSUME OpenLoop, Next, Free(word["main"], parked["main"], code)
    PROVE  InPhase(word'["main"], parked'["main"], code', stack')
<1> DEFINE P == InPhase(word'["main"], parked'["main"], code', stack')
<1>t. /\ CodesHold /\ SchedTypes /\ "main" \in Futexes /\ word \in [Futexes -> Int]
      /\ word["main"] = 0 /\ NoneIn(code) /\ parked["main"] = <<>>
  BY DEF OpenLoop, SyncInv, PlaceHolds, SchedTypes, Futexes, Free
<1>f. ASSUME word'["main"] = 0, NoneIn(code'), parked'["main"] = <<>> PROVE P
  BY <1>f DEF InPhase, Free
<1>1. ASSUME stack # <<>>, Head(stack).at = "wake", LoopWakes(Head(stack)), word' = word, code' = code PROVE P
  <2> PICK fr : fr = Head(stack)
    OBVIOUS
  <2>1. parked'["main"] = <<>>
    BY <1>1, <1>t, QWakeStep
  <2> QED BY <1>1, <1>f, <1>t, <2>1
<1>2. ASSUME word' = word, code' = code, parked' = parked PROVE P
  BY <1>2, <1>f, <1>t
<1>3. ASSUME NEW f \in Fibers, QIdles(f) PROVE P
  <2>1. NoneIn(code')
    <3>1. ASSUME NEW g \in Fibers, code' = [code EXCEPT ![g] = <<>>] PROVE NoneIn(code')
      BY <1>t, <3>1, GotoIn, QInLock
    <3> QED BY <1>3, <1>t, <3>1 DEF QIdles
  <2> QED BY <1>3, <1>f, <1>t, <2>1 DEF QIdles
<1>4. ASSUME NEW f \in Fibers, Parks(f), word' = word, code' = code PROVE P
  <2>1. parked'["main"] = parked["main"]
    BY <1>4, <1>t, QParkStep DEF Conds
  <2> QED BY <1>4, <1>f, <1>t, <2>1
<1>5. ASSUME NEW f \in Fibers, Running(f), QWorks(f), parked' = parked PROVE P
  <2>1. ~InLock(code[f])
    BY <1>t DEF NoneIn
  <2>2. QBegins(f) \/ QEnters(f) \/ QLooks(f)
    BY <1>5, <2>1, QInLock DEF QWorks, QWaits, QServes, QFails, QCloses, QReads, QFrees, QNotifies, QCalls, User, Conds
  <2>3. CASE QBegins(f)
    <3>1. PICK a \in QCalls : Goto(f, QBack("main", a))
      BY <2>3 DEF QBegins
    <3>2. NoneIn(code')
      BY <1>t, <3>1, GotoIn, QInLock DEF Goto
    <3> QED BY <1>5, <1>f, <1>t, <2>3, <3>2 DEF QBegins
  <2>4. CASE QEnters(f)
    <3>1. PICK a \in QCalls : Goto(f, QAct(a))
      BY <2>4 DEF QEnters
    <3>2. code'[f] = QAct(a) /\ OnlyIn(code', f)
      BY <1>t, <3>1, GotoIn DEF Goto
    <3>3. word'["main"] = 1 /\ stack' = stack
      BY <1>t, <2>4 DEF QEnters
    <3>4. Has(word'["main"], parked'["main"], code', stack', f)
      BY <1>5, <1>t, <3>2, <3>3, QInLock DEF Has, RunAt, Running
    <3> QED BY <3>4 DEF InPhase
  <2>5. CASE QLooks(f)
    <3>1. PICK x \in Conds : Goto(f, QBack(x, User(x)))
      BY <2>5 DEF QLooks
    <3>2. NoneIn(code')
      BY <1>t, <3>1, GotoIn, QInLock DEF Goto
    <3> QED BY <1>5, <1>f, <1>t, <2>5, <3>2 DEF QLooks
  <2> QED BY <2>2, <2>3, <2>4, <2>5
<1> QED BY <1>1, <1>2, <1>3, <1>4, <1>5, QLoopStep DEF OpenLoop

\* Only a wake steps while one is on top.
LEMMA OnlyWake ==
    ASSUME OpenLoop, Next, stack # <<>>, Head(stack).at = "wake"
    PROVE  LoopWakes(Head(stack)) /\ UNCHANGED <<word, code, mem, buf, closed>>
<1>1. \A f \in Fibers : ~Running(f)
  BY FrameFacts DEF Running
<1> QED BY <1>1, QLoopStep DEF OpenLoop

\* The release hands the lock on.
LEMMA HandsKept ==
    ASSUME OpenLoop, Next, Hands(word["main"], parked["main"], code, stack)
    PROVE  InPhase(word'["main"], parked'["main"], code', stack')
<1> DEFINE P == InPhase(word'["main"], parked'["main"], code', stack')
<1> PICK fr : fr = Head(stack)
  OBVIOUS
<1>t. /\ stack # <<>> /\ fr.at = "wake" /\ fr.x = "main" /\ fr.left = 1
      /\ Single(parked["main"]) /\ Range(parked["main"]) \subseteq Range(fr.todo)
  BY DEF Hands, WakeAt
<1>u. LoopWakes(fr) /\ word' = word /\ code' = code
  BY <1>t, OnlyWake
<1>m. parked \in [Futexes -> Seq(Fibers)] /\ parked["main"] \in Seq(Fibers) /\ SchedTypes'
  BY PlaceKept DEF OpenLoop, SyncInv, PlaceHolds, SchedTypes, Futexes
<1>n. parked'["main"] \in Seq(Fibers) /\ \A y \in Seq(Fibers) : Range(y) = {} => y = <<>>
  <2>1. parked'["main"] \in Seq(Fibers)
    BY <1>m DEF SchedTypes, Futexes
  <2>2. ASSUME NEW y \in Seq(Fibers), y # <<>> PROVE Head(y) \in Range(y)
    BY <2>2, TailRange
  <2> QED BY <2>1, <2>2
<1>f. ASSUME Range(parked'["main"]) = {} PROVE P
  BY <1>f, <1>n, <1>u DEF InPhase, Free, Hands
<1>1. CASE (fr.todo = <<>> \/ fr.left = 0) /\ stack' = Tail(stack) /\ parked' = parked
  <2>1. Range(fr.todo) = {}
    BY <1>1, <1>t DEF Range
  <2> QED BY <1>1, <1>f, <1>t, <2>1
<1>2. ASSUME fr.todo # <<>>, NEW r \in Frames, r.at = "wake", r.x = fr.x, r.todo = Tail(fr.todo),
             Head(fr.todo) \notin Range(parked[fr.x]), r.left = fr.left, stack' # <<>>, Head(stack') = r, parked' = parked
      PROVE  P
  <2>1. Range(fr.todo) = {Head(fr.todo)} \cup Range(Tail(fr.todo))
    BY <1>2, <1>t, <1>u, QWakeStep
  <2>2. Hands(word'["main"], parked'["main"], code', stack')
    BY <1>2, <1>t, <1>u, <2>1 DEF Hands, WakeAt
  <2> QED BY <2>2 DEF InPhase
<1>3. ASSUME Head(fr.todo) \in Range(parked[fr.x]), Range(parked'[fr.x]) = Range(parked[fr.x]) \ {Head(fr.todo)} PROVE P
  <2>1. Range(parked'["main"]) = {}
    BY <1>3, <1>t DEF Single
  <2> QED BY <1>f, <2>1
<1> QED BY <1>1, <1>2, <1>3, <1>t, <1>u, QWakeStep

\* A fiber runs and nobody else does.
LEMMA OnlyRuns ==
    ASSUME OpenLoop, Next, NEW h \in Fibers, Running(h)
    PROVE  \/ QWorks(h) /\ parked' = parked
           \/ Parks(h) /\ UNCHANGED <<word, code, mem, buf, closed>>
           \/ QIdles(h)
<1>1. stack # <<>> /\ Head(stack).at # "wake" /\ SchedTypes
  BY FrameFacts DEF Running, OpenLoop, SyncInv, PlaceHolds
<1>2. \A f \in Fibers : Running(f) => f = h
  BY <1>1, RunningTop
<1>3. \E f \in Fibers : /\ Running(f)
                        /\ \/ QWorks(f) /\ parked' = parked
                           \/ Parks(f) /\ UNCHANGED <<word, code, mem, buf, closed>>
                           \/ QIdles(f)
  BY <1>1, QLoopStep DEF OpenLoop
<1> QED BY <1>2, <1>3

\* h has the lock and works in it.
LEMMA HasKept ==
    ASSUME OpenLoop, Next, ~closed', NEW h \in Fibers, Has(word["main"], parked["main"], code, stack, h)
    PROVE  InPhase(word'["main"], parked'["main"], code', stack')
<1> DEFINE P == InPhase(word'["main"], parked'["main"], code', stack')
<1>t. /\ CodesHold /\ SchedTypes /\ "main" \in Futexes /\ word \in [Futexes -> Int] /\ stack \in Seq(Frames)
      /\ parked \in [Futexes -> Seq(Fibers)] /\ Conds \subseteq Futexes /\ "main" \notin Conds
  BY DEF OpenLoop, SyncInv, PlaceHolds, SchedTypes, Futexes, Conds
<1>h. /\ word["main"] = 1 /\ OnlyIn(code, h) /\ Running(h) /\ parked["main"] = <<>> /\ InLock(code[h])
      /\ Op(code[h]) # "broadcast" /\ code[h] # QDone /\ code[h] # <<>>
  BY DEF Has, RunAt, Running, InLock
<1>1. QWorks(h) /\ parked' = parked
  BY <1>h, OnlyRuns, QParkStep DEF QIdles
<1>2. /\ ~QBegins(h) /\ ~QEnters(h) /\ ~QLooks(h) /\ ~QFails(h) /\ ~QCloses(h)
  <2>1. ~QBegins(h) /\ ~QEnters(h) /\ ~QFails(h) /\ ~QCloses(h)
    BY <1>h DEF QBegins, QEnters, QFails, QCloses, OpenLoop
  <2>2. ~QLooks(h)
    BY <1>h, QInLock DEF QLooks
  <2> QED BY <2>1, <2>2
<1>g. ASSUME NEW d, Goto(h, d), word' = word, stack' = stack, InLock(d), Op(d) # "broadcast", d # QDone PROVE P
  <2>1. code'[h] = d /\ OnlyIn(code', h)
    BY <1>g, <1>h, <1>t, GotoIn DEF Goto
  <2>2. Has(word'["main"], parked'["main"], code', stack', h)
    BY <1>1, <1>g, <1>h, <2>1 DEF Has, RunAt, Running
  <2> QED BY <2>2 DEF InPhase
<1>3. CASE QWaits(h)
  <2>1. PICK x \in Conds : Goto(h, QWait(x, User(x)))
    BY <1>3 DEF QWaits
  <2> QED BY <1>3, <1>g, <2>1, QInLock DEF QWaits
<1>4. CASE QServes(h)
  <2>1. PICK x \in Conds : Goto(h, QNotify(Other(x)))
    BY <1>4 DEF QServes
  <2>2. Other(x) \in Conds
    BY DEF Other, Conds
  <2>3. InLock(QNotify(Other(x))) /\ Op(QNotify(Other(x))) # "broadcast" /\ QNotify(Other(x)) # QDone
    BY <2>2, QInLock
  <2>4. word' = word /\ stack' = stack
    BY <1>4 DEF QServes
  <2> QED BY <1>g, <2>1, <2>3, <2>4
<1>5. CASE QReads(h)
  <2>1. PICK x \in Conds : Goto(h, QRelease(x, User(x)))
    BY <1>5 DEF QReads
  <2> QED BY <1>5, <1>g, <2>1, QInLock DEF QReads
<1>6. CASE QFrees(h)
  <2>1. PICK x \in Conds : Goto(h, QPark(x, User(x)))
    BY <1>6, <1>h DEF QFrees
  <2>2. NoneIn(code')
    BY <1>h, <1>t, <2>1, GotoIn, QInLock DEF Goto
  <2>3. word'["main"] = 0
    BY <1>6, <1>t DEF QFrees
  <2> QED BY <1>1, <1>h, <2>2, <2>3 DEF InPhase, Free
<1>7. CASE QNotifies(h)
  <2>1. PICK x \in Conds : Goto(h, QDone) /\ Wake(x, 1) /\ word' = [word EXCEPT ![x] = word[x] + 1]
    BY <1>7, <1>h, QInLock DEF QNotifies
  <2>2. word'["main"] = 1
    BY <1>h, <1>t, <2>1
  <2>3. code'[h] = QDone /\ OnlyIn(code', h)
    BY <1>h, <1>t, <2>1, GotoIn DEF Goto
  <2>4. CASE parked[x] = <<>>
    <3>1. stack' = stack
      BY <2>1, <2>4 DEF Wake
    <3>2. Single(parked'["main"])
      BY <1>1, <1>h DEF Single, Range
    <3>3. Leaves(word'["main"], parked'["main"], code', stack', h)
      BY <1>h, <2>2, <2>3, <3>1, <3>2 DEF Leaves, RunAt, Running
    <3> QED BY <3>3 DEF InPhase
  <2>5. CASE parked[x] # <<>>
    <3> PICK fr : fr = WakeFrame(x, 1)
      OBVIOUS
    <3>1. fr \in Frames /\ fr.at = "wake" /\ fr.x = x /\ fr.left = 1
      BY <1>t, FrameFacts DEF WakeFrame
    <3>2. stack' = <<fr>> \o stack
      BY <2>1, <2>5 DEF Wake
    <3>3. stack' # <<>> /\ Head(stack') = fr /\ Tail(stack') = stack
      BY <1>t, <3>1, <3>2, PushStack
    <3>4. Tells(word'["main"], parked'["main"], code', stack', h)
      BY <1>1, <1>h, <2>2, <2>3, <3>1, <3>3 DEF Tells, WakeAt, RunAt, Running
    <3> QED BY <3>4 DEF InPhase
  <2> QED BY <2>4, <2>5
<1> QED BY <1>1, <1>2, <1>3, <1>4, <1>5, <1>6, <1>7 DEF QWorks

\* h notifies one fiber.
LEMMA TellsKept ==
    ASSUME OpenLoop, Next, NEW h \in Fibers, Tells(word["main"], parked["main"], code, stack, h)
    PROVE  InPhase(word'["main"], parked'["main"], code', stack')
<1> DEFINE P == InPhase(word'["main"], parked'["main"], code', stack')
<1> PICK fr : fr = Head(stack)
  OBVIOUS
<1>t. /\ word["main"] = 1 /\ OnlyIn(code, h) /\ code[h] = QDone /\ parked["main"] = <<>>
      /\ stack # <<>> /\ fr.at = "wake" /\ fr.x \in Conds /\ fr.left = 1 /\ RunAt(Tail(stack), h)
      /\ "main" \in Futexes /\ "main" \notin Conds
  BY DEF Tells, WakeAt, Futexes, Conds
<1>u. LoopWakes(fr) /\ word' = word /\ code' = code
  BY <1>t, OnlyWake
<1>p. parked'["main"] = <<>>
  BY <1>t, <1>u, QWakeStep
<1>1. CASE stack' = Tail(stack)
  <2>1. Single(parked'["main"])
    BY <1>p DEF Single, Range
  <2>2. Leaves(word'["main"], parked'["main"], code', stack', h)
    BY <1>1, <1>t, <1>u, <2>1 DEF Leaves
  <2> QED BY <2>2 DEF InPhase
<1>2. ASSUME NEW r \in Frames, r.at = "wake", r.x = fr.x, r.left = fr.left,
             stack' # <<>>, Head(stack') = r, Tail(stack') = Tail(stack)
      PROVE  P
  <2>1. Tells(word'["main"], parked'["main"], code', stack', h)
    BY <1>2, <1>p, <1>t, <1>u DEF Tells, WakeAt
  <2> QED BY <2>1 DEF InPhase
<1>3. ASSUME fr.todo # <<>>, NEW r \in Frames, r.at = "wake", r.x = fr.x, r.left = fr.left - 1, Head(fr.todo) \in Range(parked[fr.x]),
             RunAt(stack', Head(fr.todo)), Tail(stack') # <<>>, Head(Tail(stack')) = r, Tail(Tail(stack')) = Tail(stack)
      PROVE  P
  <2> PICK g \in Fibers : g = Head(fr.todo)
    BY <1>3, <1>t, <1>u, QWakeStep
  <2>1. code[g] # <<>> /\ Op(code[g]) = "park"
    BY <1>3, <1>t, QWoken
  <2>2. r.left = 0
    BY <1>3, <1>t
  <2>3. Awakens(word'["main"], parked'["main"], code', stack', g, h)
    BY <1>3, <1>p, <1>t, <1>u, <2>1, <2>2 DEF Awakens, WakeAt
  <2> QED BY <2>3 DEF InPhase
<1> QED BY <1>1, <1>2, <1>3, <1>t, <1>u, QWakeStep

\* The fiber that h notified looks, and waits for the lock or again.
LEMMA AwakensKept ==
    ASSUME OpenLoop, Next, NEW h \in Fibers, NEW g \in Fibers, Awakens(word["main"], parked["main"], code, stack, g, h)
    PROVE  InPhase(word'["main"], parked'["main"], code', stack')
<1> DEFINE P == InPhase(word'["main"], parked'["main"], code', stack')
<1>t. /\ word["main"] = 1 /\ OnlyIn(code, h) /\ code[h] = QDone /\ parked["main"] = <<>>
      /\ Running(g) /\ code[g] # <<>> /\ Op(code[g]) \in {"park", "acquire"}
      /\ WakeAt(Tail(stack), Conds, 0) /\ RunAt(Tail(Tail(stack)), h)
      /\ "main" \in Futexes /\ CodesHold /\ Conds \subseteq Futexes /\ "main" \notin Conds
  BY DEF Awakens, RunAt, Running, Futexes, Conds, OpenLoop, SyncInv
<1>g. ~InLock(code[g]) /\ g # h
  BY <1>t, QInLock DEF InLock, QCalls
<1>1. CASE QWorks(g) /\ parked' = parked
  <2>1. QLooks(g)
    <3>1. ~QBegins(g) /\ ~QEnters(g)
      BY <1>t DEF QBegins, QEnters
    <3>2. /\ ~QWaits(g) /\ ~QServes(g) /\ ~QFails(g) /\ ~QCloses(g) /\ ~QReads(g) /\ ~QFrees(g) /\ ~QNotifies(g)
      BY <1>g, QInLock DEF QWaits, QServes, QFails, QCloses, QReads, QFrees, QNotifies, QCalls, User, Conds
    <3> QED BY <1>1, <3>1, <3>2 DEF QWorks
  <2>2. PICK x \in Conds : Goto(g, QBack(x, User(x)))
    BY <2>1 DEF QLooks
  <2>3. code'[g] = QBack(x, User(x)) /\ code'[h] = QDone /\ OnlyIn(code', h)
    BY <1>g, <1>t, <2>2, GotoIn, QInLock DEF Goto
  <2>4. QBack(x, User(x)) # <<>> /\ Op(QBack(x, User(x))) = "acquire"
    BY QIs DEF Is
  <2>5. word' = word /\ stack' = stack
    BY <2>1 DEF QLooks
  <2>6. Awakens(word'["main"], parked'["main"], code', stack', g, h)
    BY <1>1, <1>t, <2>3, <2>4, <2>5 DEF Awakens, RunAt, Running
  <2> QED BY <2>6 DEF InPhase
<1>2. CASE Parks(g) /\ UNCHANGED <<word, code, mem, buf, closed>>
  <2>1. stack' = Tail(stack)
    BY <1>2, QParkStep
  <2>2. Single(parked'["main"])
    <3>1. PICK x \in {"main"} \cup Conds :
            Range(parked'[x]) = Range(parked[x]) \cup {g} /\ \A y \in Futexes \ {x} : parked'[y] = parked[y]
      BY <1>2, QParkStep
    <3>2. Range(parked["main"]) = {}
      BY <1>t DEF Range
    <3>3. Range(parked'["main"]) \subseteq {g}
      BY <1>t, <3>1, <3>2
    <3> QED BY <3>3 DEF Single
  <2>3. Told(word'["main"], parked'["main"], code', stack', h)
    BY <1>2, <1>t, <2>1, <2>2 DEF Told
  <2> QED BY <2>3 DEF InPhase
<1> QED BY <1>1, <1>2, <1>t, OnlyRuns DEF QIdles

\* h has made its wake, ...
LEMMA ToldKept ==
    ASSUME OpenLoop, Next, NEW h \in Fibers, Told(word["main"], parked["main"], code, stack, h)
    PROVE  InPhase(word'["main"], parked'["main"], code', stack')
<1> PICK fr : fr = Head(stack)
  OBVIOUS
<1>t. /\ word["main"] = 1 /\ OnlyIn(code, h) /\ code[h] = QDone /\ Single(parked["main"])
      /\ stack # <<>> /\ fr.at = "wake" /\ fr.left = 0 /\ RunAt(Tail(stack), h)
  BY DEF Told, WakeAt
<1>u. LoopWakes(fr) /\ word' = word /\ code' = code
  BY <1>t, OnlyWake
<1>1. stack' = Tail(stack) /\ parked' = parked
  BY <1>t, <1>u, QWakeStep
<1>2. Leaves(word'["main"], parked'["main"], code', stack', h)
  BY <1>1, <1>t, <1>u DEF Leaves
<1> QED BY <1>2 DEF InPhase

\* ... and frees the lock.
LEMMA LeavesKept ==
    ASSUME OpenLoop, Next, NEW h \in Fibers, Leaves(word["main"], parked["main"], code, stack, h)
    PROVE  InPhase(word'["main"], parked'["main"], code', stack')
<1>t. /\ word["main"] = 1 /\ OnlyIn(code, h) /\ code[h] = QDone /\ Single(parked["main"]) /\ Running(h)
      /\ "main" \in Futexes /\ CodesHold /\ word \in [Futexes -> Int] /\ stack \in Seq(Frames) /\ parked["main"] \in Seq(Fibers)
  BY DEF Leaves, RunAt, Running, Futexes, OpenLoop, SyncInv, PlaceHolds, SchedTypes
<1>d. QDone # <<>> /\ Op(QDone) = "release" /\ InLock(QDone)
  BY QIs, QInLock DEF Is
<1>1. QWorks(h) /\ parked' = parked
  BY <1>d, <1>t, OnlyRuns, QParkStep DEF QIdles
<1>2. QFrees(h)
  <2>1. ~QBegins(h) /\ ~QEnters(h)
    BY <1>t, <1>d DEF QBegins, QEnters, Is
  <2>2. ~QWaits(h) /\ ~QServes(h) /\ ~QFails(h) /\ ~QCloses(h)
    BY <1>t, QInLock DEF QWaits, QServes, QFails, QCloses, QCalls, User, Conds
  <2>3. ~QReads(h) /\ ~QLooks(h) /\ ~QNotifies(h)
    BY <1>d, <1>t, QInLock DEF QReads, QLooks, QNotifies
  <2> QED BY <1>1, <2>1, <2>2, <2>3 DEF QWorks
<1>3. Goto(h, <<>>) /\ word'["main"] = 0 /\ Wake("main", 1)
  BY <1>2, <1>t, QInLock DEF QFrees
<1>4. NoneIn(code')
  BY <1>3, <1>t, GotoIn, QInLock DEF Goto
<1>5. CASE parked["main"] = <<>>
  BY <1>1, <1>3, <1>4, <1>5 DEF InPhase, Free
<1>6. CASE parked["main"] # <<>>
  <2> PICK fr : fr = WakeFrame("main", 1)
    OBVIOUS
  <2>1. fr \in Frames /\ fr.at = "wake" /\ fr.x = "main" /\ fr.left = 1 /\ fr.todo = parked["main"]
    BY <1>t, FrameFacts DEF WakeFrame
  <2>2. stack' = <<fr>> \o stack
    BY <1>3, <1>6 DEF Wake
  <2>3. stack' # <<>> /\ Head(stack') = fr
    BY <1>t, <2>1, <2>2, PushStack
  <2>4. Hands(word'["main"], parked'["main"], code', stack')
    BY <1>1, <1>3, <1>4, <1>t, <2>1, <2>3 DEF Hands, WakeAt
  <2> QED BY <2>4 DEF InPhase
<1> QED BY <1>5, <1>6

\* The lock of an open queue goes round.
LEMMA QPhaseKept ==
    ASSUME SyncInv, WakeTypes, BufHolds, QFine, host = "loop", LoopPlace, QPhase, Next PROVE QPhase'
<1>k. kind' = kind
  BY SameObject
<1> SUFFICES ASSUME kind = "queue", ~closed' PROVE InPhase(word'["main"], parked'["main"], code', stack')
  BY <1>k DEF QPhase
<1>1. ~closed
  <2>1. "full" \in Conds /\ CodesHold /\ SchedTypes
    BY DEF Conds, SyncInv, PlaceHolds
  <2> QED BY <2>1, QGrows
<1>2. OpenLoop
  BY <1>1 DEF OpenLoop
<1>3. InPhase(word["main"], parked["main"], code, stack)
  BY <1>1 DEF QPhase
<1> QED BY <1>2, <1>3, FreeKept, HandsKept, HasKept, TellsKept, AwakensKept, ToldKept, LeavesKept DEF InPhase

\* What a fiber that runs has, or is about to tell, of what is there for those on
\* x, and who carries it: it runs, it waits for the lock, or a wake comes to it.
Carries(c, x, w, m) ==
    \/ c \in {QNotify(x), QAct(User(x)), QBack("main", User(x)), QBack(x, User(x))}
    \/ c = QPark(x, User(x)) /\ w # m
Returns(c, x) == c = QBack("main", User(x)) \/ c = QBack(x, User(x))
Carrier(x) ==
    \/ \E g \in Fibers : Running(g) /\ Carries(code[g], x, word[x], mem[g])
    \/ \E g \in Fibers : g \in Range(parked["main"]) /\ Returns(code[g], x)
    \/ /\ TopWake(x) /\ Head(stack).left > 0
       /\ \E g \in Fibers : g \in Range(Head(stack).todo) /\ g \in Range(parked[x])
       /\ \A g \in Fibers : g \in Range(Head(stack).todo) /\ g \in Range(parked[x]) => mem[g] # word[x]

\* If a call waits on x of an open queue that could be answered, one fiber is on
\* the way for it.
Answers(x) == parked[x] # <<>> => Surplus(x) <= 0 \/ (Surplus(x) = 1 /\ Carrier(x))
QWakes == kind = "queue" /\ ~closed => \A x \in Conds : Answers(x)

\* While a fiber works in the lock it alone is on the way for anybody, and one that
\* does nothing means that nobody is.
LEMMA PhaseRuns ==
    ASSUME OpenLoop, InPhase(word["main"], parked["main"], code, stack), NEW f \in Fibers, Running(f)
    PROVE  /\ InLock(code[f]) /\ code[f] # QDone => parked["main"] = <<>>
           /\ InLock(code[f]) => Op(code[f]) # "broadcast"
           /\ code[f] = <<>> \/ word["main"] = 0 => parked["main"] = <<>>
           /\ \A h \in Fibers : InLock(code[h]) /\ h # f => code[h] = QDone
<1>t. SchedTypes /\ stack # <<>> /\ Head(stack) = Run(f) /\ Head(stack).at # "wake"
  BY FrameFacts DEF OpenLoop, SyncInv, PlaceHolds, Running
<1>u. \A h \in Fibers : RunAt(stack, h) => h = f
  BY <1>t, RunningTop DEF RunAt, Running
<1>d. QDone # <<>> /\ Op(QDone) = "release" /\ ~InLock(<<>>)
  BY QIs, QInLock DEF Is
<1>1. CASE Free(word["main"], parked["main"], code)
  BY <1>1 DEF Free, NoneIn
<1>2. ASSUME NEW h \in Fibers, Has(word["main"], parked["main"], code, stack, h)
      PROVE  word["main"] = 1 /\ parked["main"] = <<>> /\ OnlyIn(code, f) /\ Op(code[f]) # "broadcast"
  BY <1>2, <1>u DEF Has
<1>3. ASSUME NEW h \in Fibers, Leaves(word["main"], parked["main"], code, stack, h)
      PROVE  word["main"] = 1 /\ OnlyIn(code, f) /\ code[f] = QDone
  BY <1>3, <1>u DEF Leaves
<1>4. ASSUME NEW h \in Fibers, NEW g \in Fibers, Awakens(word["main"], parked["main"], code, stack, g, h)
      PROVE  word["main"] = 1 /\ parked["main"] = <<>> /\ OnlyIn(code, h) /\ code[h] = QDone
             /\ Op(code[f]) \in {"park", "acquire"}
  BY <1>4, <1>u DEF Awakens
<1>5. ~Hands(word["main"], parked["main"], code, stack) /\ \A h \in Fibers : ~Tells(word["main"], parked["main"], code, stack, h) /\ ~Told(word["main"], parked["main"], code, stack, h)
  BY <1>t DEF Hands, Tells, Told, WakeAt
<1> QED BY <1>1, <1>2, <1>3, <1>4, <1>5, <1>d DEF InPhase, OnlyIn

\* The codes that carry nothing.
LEMMA QCarries ==
    ASSUME NEW x \in Conds
    PROVE  /\ \A w, m : /\ ~Carries(<<>>, x, w, m) /\ ~Carries(QDone, x, w, m)
                        /\ \A y \in Conds : /\ ~Carries(QWait(y, User(y)), x, w, m) /\ ~Carries(QRelease(y, User(y)), x, w, m)
                                            /\ y # x => /\ ~Carries(QAct(User(y)), x, w, m) /\ ~Carries(QNotify(y), x, w, m)
                                                        /\ ~Carries(QPark(y, User(y)), x, w, m)
           /\ \A c, w, m : Returns(c, x) => Carries(c, x, w, m)
           /\ \A c, w, m : Carries(c, x, w, m) /\ Op(c) = "acquire" => Returns(c, x)
           /\ Tail(QBack("main", User(x))) = QAct(User(x)) /\ Tail(QBack(x, User(x))) = QAct(User(x))
<1>u. User(x) \in QCalls /\ \A y \in Conds : User(y) \in QCalls /\ (y # x => User(y) # User(x))
  BY DEF User, QCalls, Conds
<1>1. /\ QNotify(x) # <<>> /\ Op(QNotify(x)) = "notify" /\ Arg(QNotify(x)) = x
      /\ QAct(User(x)) # <<>> /\ Op(QAct(User(x))) = User(x)
      /\ QBack("main", User(x)) # <<>> /\ Op(QBack("main", User(x))) = "acquire" /\ Tail(QBack("main", User(x))) = QAct(User(x))
      /\ QBack(x, User(x)) # <<>> /\ Op(QBack(x, User(x))) = "acquire" /\ Tail(QBack(x, User(x))) = QAct(User(x))
      /\ QPark(x, User(x)) # <<>> /\ Op(QPark(x, User(x))) = "park" /\ Arg(QPark(x, User(x))) = x
  BY <1>u, QIs DEF Is
<1>2. Op(QDone) = "release"
  BY QIs DEF Is
<1>3. \A y \in Conds : /\ Op(QWait(y, User(y))) = "wait" /\ Op(QRelease(y, User(y))) = "release"
                       /\ Op(QAct(User(y))) = User(y) /\ Op(QNotify(y)) = "notify" /\ Arg(QNotify(y)) = y
                       /\ Op(QPark(y, User(y))) = "park" /\ Arg(QPark(y, User(y))) = y
  BY <1>u, QIs DEF Is
<1>4. ASSUME NEW c, NEW w, NEW m, Carries(c, x, w, m)
      PROVE  /\ c # <<>> /\ Op(c) \in {"notify", User(x), "acquire", "park"}
             /\ Op(c) \in {"notify", "park"} => Arg(c) = x
             /\ Op(c) = "acquire" => Returns(c, x)
  BY <1>1, <1>4, <1>u DEF Carries, Returns, QCalls
<1>5. \A c, w, m : Returns(c, x) => Carries(c, x, w, m)
  BY DEF Carries, Returns
<1>6. \A w, m : ~Carries(<<>>, x, w, m) /\ ~Carries(QDone, x, w, m)
  BY <1>2, <1>4, <1>u DEF QCalls
<1>7. ASSUME NEW y \in Conds, NEW w, NEW m
      PROVE  /\ ~Carries(QWait(y, User(y)), x, w, m) /\ ~Carries(QRelease(y, User(y)), x, w, m)
             /\ y # x => /\ ~Carries(QAct(User(y)), x, w, m) /\ ~Carries(QNotify(y), x, w, m)
                         /\ ~Carries(QPark(y, User(y)), x, w, m)
  BY <1>3, <1>4, <1>u DEF QCalls
<1> QED BY <1>1, <1>4, <1>5, <1>6, <1>7

\* A wake in progress comes to the fiber on the way.
LEMMA CarriedByWake ==
    ASSUME OpenLoop, NEW x \in Conds, NEW fr, fr = Head(stack), stack # <<>>, fr.at = "wake", LoopWakes(fr),
           UNCHANGED <<word, code, mem>>, Carrier(x)
    PROVE  Carrier(x)'
<1>t. /\ "main" \in Futexes /\ x \in Futexes /\ parked \in [Futexes -> Seq(Fibers)]
      /\ parked["main"] \in Seq(Fibers) /\ parked[x] \in Seq(Fibers)
  BY DEF OpenLoop, SyncInv, PlaceHolds, SchedTypes, Futexes, Conds
<1>r. \A g \in Fibers : ~Running(g)
  BY FrameFacts DEF Running
<1>w. \A g \in Fibers : RunAt(stack', g) => Running(g)'
  BY DEF RunAt, Running
<1>s. /\ fr.todo \in Seq(Fibers) /\ fr.x \in Futexes
      /\ fr.todo # <<>> => Head(fr.todo) \in Fibers /\ Range(fr.todo) = {Head(fr.todo)} \cup Range(Tail(fr.todo))
      /\ fr.todo = <<>> => Range(fr.todo) = {}
      /\ \/ (fr.todo = <<>> \/ fr.left = 0) /\ stack' = Tail(stack) /\ parked' = parked
         \/ /\ fr.todo # <<>> /\ fr.left # 0
            /\ \E r \in Frames :
                 /\ r.at = "wake" /\ r.x = fr.x /\ r.todo = Tail(fr.todo)
                 /\ \/ /\ Head(fr.todo) \notin Range(parked[fr.x]) /\ r.left = fr.left
                       /\ stack' # <<>> /\ Head(stack') = r /\ parked' = parked
                    \/ /\ Head(fr.todo) \in Range(parked[fr.x]) /\ RunAt(stack', Head(fr.todo))
                       /\ Range(parked'[fr.x]) = Range(parked[fr.x]) \ {Head(fr.todo)}
                       /\ \A y \in Futexes \ {fr.x} : parked'[y] = parked[y]
  BY QWakeStep
<1>1. ASSUME NEW g \in Fibers, g \in Range(parked["main"]), Returns(code[g], x) PROVE Carrier(x)'
  <2>1. CASE g \in Range(parked'["main"])
    BY <1>1, <2>1 DEF Carrier
  <2>2. CASE g \notin Range(parked'["main"])
    <3>1. RunAt(stack', g)
      BY <1>1, <1>s, <1>t, <2>2
    <3>2. Carries(code[g], x, word[x], mem[g])
      BY <1>1, QCarries
    <3> QED BY <1>w, <3>1, <3>2 DEF Carrier
  <2> QED BY <2>1, <2>2
<1>2. ASSUME fr.x = x, fr.left > 0, NEW g \in Fibers, g \in Range(fr.todo), g \in Range(parked[x]),
             \A h \in Fibers : h \in Range(fr.todo) /\ h \in Range(parked[x]) => mem[h] # word[x]
      PROVE  Carrier(x)'
  <2>1. fr.todo # <<>> /\ fr.left # 0
    BY <1>2, <1>s
  <2>2. PICK r \in Frames :
                 /\ r.at = "wake" /\ r.x = fr.x /\ r.todo = Tail(fr.todo)
                 /\ \/ /\ Head(fr.todo) \notin Range(parked[fr.x]) /\ r.left = fr.left
                       /\ stack' # <<>> /\ Head(stack') = r /\ parked' = parked
                    \/ /\ Head(fr.todo) \in Range(parked[fr.x]) /\ RunAt(stack', Head(fr.todo))
    BY <1>s, <2>1
  <2>3. CASE Head(fr.todo) \notin Range(parked[fr.x]) /\ r.left = fr.left /\ stack' # <<>> /\ Head(stack') = r /\ parked' = parked
    <3>1. g \in Range(r.todo) /\ g \in Range(parked'[x])
      BY <1>2, <1>s, <2>1, <2>2, <2>3
    <3>2. \A h \in Fibers : h \in Range(r.todo) /\ h \in Range(parked'[x]) => mem'[h] # word'[x]
      BY <1>2, <1>s, <2>1, <2>2, <2>3
    <3>3. TopWake(x)' /\ Head(stack').left > 0
      BY <1>2, <2>2, <2>3 DEF TopWake
    <3> QED BY <2>3, <3>1, <3>2, <3>3 DEF Carrier
  <2>4. CASE Head(fr.todo) \in Range(parked[fr.x]) /\ RunAt(stack', Head(fr.todo))
    <3> PICK h \in Fibers : h = Head(fr.todo)
      BY <1>s, <2>1
    <3>1. mem[h] # word[x] /\ code[h] = QPark(x, User(x))
      BY <1>2, <1>s, <2>1, <2>4, QWoken
    <3>2. Carries(code'[h], x, word'[x], mem'[h])
      BY <3>1 DEF Carries
    <3>3. Running(h)'
      BY <1>w, <2>4
    <3> QED BY <3>2, <3>3 DEF Carrier
  <2> QED BY <2>2, <2>3, <2>4
<1> QED BY <1>1, <1>2, <1>r DEF Carrier, TopWake

\* Nobody is forgotten while the queue is open.
LEMMA AnswersKept ==
    ASSUME OpenLoop, StopInv, InPhase(word["main"], parked["main"], code, stack), Next, ~closed', NEW x \in Conds, Answers(x)
    PROVE  Answers(x)'
<1>t. /\ CodesHold /\ SchedTypes /\ "main" \in Futexes /\ x \in Futexes /\ x # "main" /\ Conds \subseteq Futexes /\ BufHolds
      /\ word \in [Futexes -> Int] /\ code \in [Fibers -> Codes(kind)] /\ mem \in [Fibers -> Int] /\ stack \in Seq(Frames)
      /\ parked \in [Futexes -> Seq(Fibers)] /\ kind = "queue" /\ host = "loop" /\ OnePlaced
  BY DEF OpenLoop, SyncInv, PlaceHolds, SchedTypes, Futexes, Conds, CodesHold, WakeTypes
<1>n. Surplus(x) \in Int /\ (buf' = buf => Surplus(x)' = Surplus(x))
  BY <1>t, QData DEF Surplus
<1> SUFFICES ASSUME parked'[x] # <<>> PROVE Surplus(x)' <= 0 \/ (Surplus(x)' = 1 /\ Carrier(x)')
  BY DEF Answers
<1>i. parked[x] # <<>> => Surplus(x) <= 0 \/ (Surplus(x) = 1 /\ Carrier(x))
  BY DEF Answers
\* Who can be on the way while a fiber runs.
<1>r. ASSUME NEW f \in Fibers, Running(f), parked[x] # <<>>, ~(Surplus(x) <= 0)
      PROVE  /\ Surplus(x) = 1
             /\ \/ Carries(code[f], x, word[x], mem[f])
                \/ \E g \in Fibers : g \in Range(parked["main"]) /\ Returns(code[g], x)
  <2>1. ~TopWake(x)
    BY <1>r, FrameFacts DEF TopWake, Running
  <2>2. \A g \in Fibers : Running(g) => g = f
    BY <1>r, <1>t, RunningTop
  <2> QED BY <1>i, <1>r, <2>1, <2>2 DEF Carrier
<1>q. ASSUME NEW c, NEW w, NEW m, NEW y \in Conds,
             c \in {QWait(y, User(y)), QRelease(y, User(y)), QDone} \/ (y # x /\ c \in {QAct(User(y)), QNotify(y), QPark(y, User(y))})
      PROVE  ~Carries(c, x, w, m)
  <2>1. /\ ~Carries(QDone, x, w, m) /\ ~Carries(QWait(y, User(y)), x, w, m) /\ ~Carries(QRelease(y, User(y)), x, w, m)
        /\ y # x => /\ ~Carries(QAct(User(y)), x, w, m) /\ ~Carries(QNotify(y), x, w, m) /\ ~Carries(QPark(y, User(y)), x, w, m)
    BY QCarries
  <2> QED BY <1>q, <2>1
<1>e. ASSUME parked["main"] = <<>> PROVE \A g \in Fibers : g \notin Range(parked["main"])
  BY <1>e DEF Range
<1>1. ASSUME stack # <<>>, Head(stack).at = "wake", LoopWakes(Head(stack)), UNCHANGED <<word, code, mem, buf>>
      PROVE  Surplus(x)' <= 0 \/ (Surplus(x)' = 1 /\ Carrier(x)')
  <2>1. parked[x] # <<>>
    <3> PICK fr : fr = Head(stack)
      OBVIOUS
    <3> QED BY <1>1, <1>t, QWakeStep
  <2>2. Carrier(x) => Carrier(x)'
    <3> PICK fr : fr = Head(stack)
      OBVIOUS
    <3> QED BY <1>1, CarriedByWake
  <2> QED BY <1>1, <1>i, <1>n, <2>1, <2>2
<1>2. ASSUME stack = <<>>, UNCHANGED <<word, code, mem, buf, parked>>
      PROVE  Surplus(x)' <= 0 \/ (Surplus(x)' = 1 /\ Carrier(x)')
  <2>1. parked["main"] = <<>>
    BY <1>2 DEF InPhase, Free, Hands, Has, Tells, Told, Leaves, Awakens, WakeAt, RunAt
  <2>2. ~Carrier(x)
    BY <1>2, <1>e, <2>1 DEF Carrier, Running, TopWake
  <2> QED BY <1>2, <1>i, <1>n, <2>2
<1>3. ASSUME NEW f \in Fibers, Running(f), QIdles(f)
      PROVE  Surplus(x)' <= 0 \/ (Surplus(x)' = 1 /\ Carrier(x)')
  <2>1. code[f] = <<>> /\ parked[x] # <<>> /\ buf' = buf
    BY <1>3, <1>t DEF QIdles
  <2>2. parked["main"] = <<>>
    BY <1>3, <2>1, PhaseRuns
  <2>3. Surplus(x) <= 0
    BY <1>3, <1>e, <1>r, <2>1, <2>2, QCarries
  <2> QED BY <1>n, <2>1, <2>3
<1>4. ASSUME NEW f \in Fibers, Running(f), Parks(f), UNCHANGED <<word, code, mem, buf, closed>>
      PROVE  Surplus(x)' <= 0 \/ (Surplus(x)' = 1 /\ Carrier(x)')
  <2>1. /\ ~InLock(code[f])
        /\ \E y \in {"main"} \cup Conds :
             /\ Range(parked'[y]) = Range(parked[y]) \cup {f} /\ \A z \in Futexes \ {y} : parked'[z] = parked[z]
             /\ \/ y = "main" /\ Op(code[f]) = "acquire"
                \/ y \in Conds /\ code[f] = QPark(y, User(y)) /\ word[y] = mem[f]
    BY <1>4, QParkStep
  <2>2. PICK y \in {"main"} \cup Conds :
             /\ Range(parked'[y]) = Range(parked[y]) \cup {f} /\ \A z \in Futexes \ {y} : parked'[z] = parked[z]
             /\ \/ y = "main" /\ Op(code[f]) = "acquire"
                \/ y \in Conds /\ code[f] = QPark(y, User(y)) /\ word[y] = mem[f]
    BY <2>1
  <2>3. CASE y = x
    <3>1. QStops(x, f)
      BY <1>t, <2>2, <2>3 DEF StopInv, QueueStops
    <3>2. ~Telling(x) /\ ~Closing(x)
      <4>1. ASSUME NEW h \in Fibers, code[h] \in {QNotify(x), QClose, QClosing} PROVE FALSE
        <5>1. InLock(code[h]) /\ code[h] # QDone
          BY <4>1, QInLock, QIs DEF Is
        <5>2. h # f
          BY <2>1, <5>1
        <5> QED BY <1>4, <5>1, <5>2, PhaseRuns
      <4> QED BY <4>1 DEF Telling, Closing
    <3>3. Surplus(x) <= 0
      BY <1>t, <2>2, <2>3, <3>1, <3>2 DEF QStops
    <3> QED BY <1>4, <1>n, <3>3
  <2>4. CASE y # x /\ y \in Conds
    <3>1. parked'[x] = parked[x] /\ parked'["main"] = parked["main"]
      BY <1>t, <2>2, <2>4 DEF Conds
    <3>2. ~Carries(code[f], x, word[x], mem[f])
      BY <2>2, <2>4, QCarries DEF Conds
    <3>3. Surplus(x) <= 0 \/ (Surplus(x) = 1 /\ \E g \in Fibers : g \in Range(parked["main"]) /\ Returns(code[g], x))
      BY <1>4, <1>r, <3>1, <3>2
    <3> QED BY <1>4, <1>n, <3>1, <3>3 DEF Carrier
  <2>5. CASE y = "main"
    <3>1. parked'[x] = parked[x] /\ Range(parked'["main"]) = Range(parked["main"]) \cup {f} /\ Op(code[f]) = "acquire"
      BY <1>t, <2>2, <2>5 DEF Conds
    <3>2. Carries(code[f], x, word[x], mem[f]) => Returns(code[f], x)
      BY <3>1, QCarries
    <3>3. Surplus(x) <= 0 \/ (Surplus(x) = 1 /\ \E g \in Fibers : g \in Range(parked'["main"]) /\ Returns(code[g], x))
      BY <1>4, <1>r, <3>1, <3>2
    <3> QED BY <1>4, <1>n, <3>3 DEF Carrier
  <2> QED BY <2>2, <2>3, <2>4, <2>5
<1>5. ASSUME NEW f \in Fibers, Running(f), QWorks(f), parked' = parked
      PROVE  Surplus(x)' <= 0 \/ (Surplus(x)' = 1 /\ Carrier(x)')
  <2>p. parked[x] # <<>>
    BY <1>5
  \* Others in front of the lock stay there with their codes.
  <2>o. ASSUME NEW d, Goto(f, d), NEW g \in Fibers, g \in Range(parked["main"]), Returns(code[g], x) PROVE Carrier(x)'
    <3>1. g # f
      BY <1>5, <1>t, <2>o, RunningTop DEF OnePlaced
    <3>2. code'[g] = code[g]
      BY <1>t, <2>o, <3>1, GotoIn DEF Goto
    <3> QED BY <1>5, <2>o, <3>2 DEF Carrier
  \* The fiber goes on to carry, itself.
  <2>c. ASSUME NEW d, Goto(f, d), stack' = stack, Carries(d, x, word'[x], mem'[f]) PROVE Carrier(x)'
    <3>1. code'[f] = d
      BY <1>t, <2>c, GotoIn DEF Goto
    <3>2. Running(f)'
      BY <1>5, <2>c DEF Running
    <3> QED BY <2>c, <3>1, <3>2 DEF Carrier
  <2>1. CASE QBegins(f)
    <3>1. code[f] = <<>> /\ buf' = buf /\ \E d : Goto(f, d)
      BY <2>1 DEF QBegins
    <3> QED BY <1>5, <1>n, <1>r, <2>o, <2>p, <3>1, QCarries
  <2>2. CASE QEnters(f)
    <3>1. PICK a \in QCalls, y \in Futexes : Is(code[f], "acquire", y, QAct(a)) /\ Goto(f, QAct(a))
      BY <2>2 DEF QEnters
    <3>2. word["main"] = 0 /\ word'[x] = word[x] /\ buf' = buf /\ mem' = mem /\ stack' = stack
      BY <1>t, <2>2 DEF QEnters
    <3>3. parked["main"] = <<>>
      BY <1>5, <3>2, PhaseRuns
    <3>4. ASSUME Carries(code[f], x, word[x], mem[f]) PROVE Carrier(x)'
      <4>1. Returns(code[f], x)
        BY <3>1, <3>4, QCarries DEF Is
      <4>2. QAct(a) = QAct(User(x))
        BY <3>1, <4>1, QCarries DEF Is, Returns
      <4>3. Carries(QAct(a), x, word'[x], mem'[f])
        BY <4>2 DEF Carries
      <4> QED BY <2>c, <3>1, <3>2, <4>3
    <3> QED BY <1>5, <1>e, <1>n, <1>r, <2>p, <3>2, <3>3, <3>4
  <2>3. CASE QWaits(f)
    <3>1. PICK y \in Conds : code[f] = QAct(User(y)) /\ Surplus(y) <= 0
      BY <2>3 DEF QWaits
    <3>2. buf' = buf
      BY <2>3 DEF QWaits
    <3>3. parked["main"] = <<>>
      <4>1. User(y) \in QCalls
        BY DEF User, QCalls
      <4> QED BY <1>5, <3>1, <4>1, PhaseRuns, QInLock
    <3>4. Surplus(x) <= 0
      <4>1. CASE y = x
        BY <3>1, <4>1
      <4>2. CASE y # x
        <5>1. ~Carries(code[f], x, word[x], mem[f])
          BY <1>q, <3>1, <4>2
        <5> QED BY <1>5, <1>e, <1>r, <2>p, <3>3, <5>1
      <4> QED BY <4>1, <4>2
    <3> QED BY <1>n, <3>2, <3>4
  <2>4. CASE QServes(f)
    <3>1. PICK y \in Conds : /\ code[f] = QAct(User(y)) /\ Surplus(y) > 0 /\ Goto(f, QNotify(Other(y)))
                             /\ Surplus(y)' = Surplus(y) - 1 /\ Surplus(Other(y))' = Surplus(Other(y)) + 1
      BY <2>4 DEF QServes
    <3>2. parked["main"] = <<>>
      <4>1. User(y) \in QCalls
        BY DEF User, QCalls
      <4> QED BY <1>5, <3>1, <4>1, PhaseRuns, QInLock
    <3>3. CASE y = x
      <4>1. Surplus(x) = 1
        BY <1>5, <1>n, <1>r, <2>p, <3>1, <3>3
      <4> QED BY <3>1, <3>3, <4>1
    <3>4. CASE y # x
      <4>1. Other(y) = x
        BY <3>4 DEF Other, Conds
      <4>2. Surplus(x) <= 0
        <5>1. ~Carries(code[f], x, word[x], mem[f])
          BY <1>q, <3>1, <3>4
        <5> QED BY <1>5, <1>e, <1>r, <2>p, <3>2, <5>1
      <4>3. Surplus(x)' = Surplus(x) + 1
        BY <3>1, <4>1
      <4>4. Carrier(x)'
        <5>1. Carries(QNotify(x), x, word'[x], mem'[f])
          BY DEF Carries
        <5>2. stack' = stack
          BY <2>4 DEF QServes
        <5> QED BY <2>c, <3>1, <4>1, <5>1, <5>2
      <4> QED BY <1>n, <4>2, <4>3, <4>4
    <3> QED BY <3>3, <3>4
  <2>5. CASE QFails(f) \/ QCloses(f)
    BY <2>5 DEF QFails, QCloses, OpenLoop
  <2>6. CASE QReads(f)
    <3>1. PICK y \in Conds : code[f] = QWait(y, User(y))
      BY <2>6 DEF QReads
    <3>2. buf' = buf
      BY <2>6 DEF QReads
    <3>3. parked["main"] = <<>>
      BY <1>5, <3>1, PhaseRuns, QInLock
    <3>4. Surplus(x) <= 0
      <4>1. ~Carries(code[f], x, word[x], mem[f])
        BY <1>q, <3>1
      <4> QED BY <1>5, <1>e, <1>r, <2>p, <3>3, <4>1
    <3> QED BY <1>n, <3>2, <3>4
  <2>7. CASE QFrees(f)
    <3>1. \/ \E y \in Conds : code[f] = QRelease(y, User(y)) /\ Goto(f, QPark(y, User(y)))
          \/ code[f] = QDone /\ Goto(f, <<>>)
      BY <2>7 DEF QFrees
    <3>2. ~Carries(code[f], x, word[x], mem[f]) /\ \E d : Goto(f, d)
      <4>1. \E y \in Conds : code[f] \in {QRelease(y, User(y)), QDone}
        BY <1>t, <3>1
      <4> QED BY <1>q, <3>1, <4>1
    <3>3. buf' = buf
      BY <2>7 DEF QFrees
    <3> QED BY <1>5, <1>n, <1>r, <2>o, <2>p, <3>2, <3>3
  <2>8. CASE QLooks(f)
    <3>1. PICK y \in Conds : code[f] = QPark(y, User(y)) /\ Goto(f, QBack(y, User(y)))
      BY <2>8 DEF QLooks
    <3>2. buf' = buf /\ stack' = stack
      BY <2>8 DEF QLooks
    <3>3. CASE y = x
      <4>1. Carries(QBack(x, User(x)), x, word'[x], mem'[f])
        BY DEF Carries
      <4>2. Carrier(x)'
        BY <2>c, <3>1, <3>2, <3>3, <4>1
      <4> QED BY <1>i, <1>n, <2>p, <3>2, <4>2
    <3>4. CASE y # x
      <4>1. ~Carries(code[f], x, word[x], mem[f])
        BY <1>q, <3>1, <3>4
      <4> QED BY <1>5, <1>n, <1>r, <2>o, <2>p, <3>1, <3>2, <4>1
    <3> QED BY <3>3, <3>4
  <2>9. CASE QNotifies(f)
    <3>1. PICK y \in Conds : /\ code[f] = QNotify(y) /\ Goto(f, QDone) /\ Wake(y, 1)
                             /\ word' = [word EXCEPT ![y] = word[y] + 1]
      <4>1. code[f] # QClose /\ code[f] # QClosing
        BY <1>5, PhaseRuns, QInLock
      <4> QED BY <2>9, <4>1 DEF QNotifies
    <3>2. parked["main"] = <<>> /\ buf' = buf /\ mem' = mem
      BY <1>5, <2>9, <3>1, PhaseRuns, QInLock DEF QNotifies
    <3>3. CASE y # x
      <4>1. ~Carries(code[f], x, word[x], mem[f])
        BY <1>q, <3>1, <3>3
      <4> QED BY <1>5, <1>e, <1>n, <1>r, <2>p, <3>2, <4>1
    <3>4. CASE y = x
      <4> PICK fr : fr = WakeFrame(x, 1)
        OBVIOUS
      <4>1. fr \in Frames /\ fr.at = "wake" /\ fr.x = x /\ fr.left = 1 /\ fr.todo = parked[x]
        BY <1>t, FrameFacts DEF WakeFrame
      <4>2. stack' = <<fr>> \o stack
        BY <2>p, <3>1, <3>4 DEF Wake
      <4>3. stack' # <<>> /\ Head(stack') = fr
        BY <1>t, <4>1, <4>2, PushStack
      <4>4. TopWake(x)' /\ Head(stack').left > 0
        BY <4>1, <4>3 DEF TopWake
      <4>5. PICK g \in Fibers : g \in Range(parked[x])
        <5>1. parked[x] \in Seq(Fibers)
          BY <1>t
        <5> QED BY <2>p, <5>1, TailRange
      <4>6. ASSUME NEW h \in Fibers, h \in Range(parked[x]) PROVE mem'[h] # word'[x]
        <5>1. code[h] = QPark(x, User(x))
          BY <4>6, QWoken
        <5>2. mem[h] <= word[x]
          BY <1>t, <5>1 DEF StopInv, QueueStops, QStops
        <5>3. mem[h] \in Int /\ word[x] \in Int /\ word'[x] = word[x] + 1
          BY <1>t, <3>1, <3>4
        <5> QED BY <3>2, <5>2, <5>3
      <4>7. Carrier(x)'
        BY <1>5, <4>1, <4>3, <4>4, <4>5, <4>6 DEF Carrier
      <4> QED BY <1>i, <1>n, <2>p, <3>2, <4>7
    <3> QED BY <3>3, <3>4
  <2> QED BY <1>5, <2>1, <2>2, <2>3, <2>4, <2>5, <2>6, <2>7, <2>8, <2>9 DEF QWorks
<1> QED BY <1>1, <1>2, <1>3, <1>4, <1>5, QLoopStep DEF OpenLoop

\* No notification is lost while the queue is open.
LEMMA QWakesKept ==
    ASSUME SyncInv, WakeTypes, BufHolds, QFine, host = "loop", LoopPlace, StopInv, QPhase, QWakes, Next PROVE QWakes'
<1>k. kind' = kind
  BY SameObject
<1> SUFFICES ASSUME kind = "queue", ~closed', NEW x \in Conds PROVE Answers(x)'
  BY <1>k DEF QWakes
<1>1. ~closed
  <2>1. CodesHold /\ SchedTypes
    BY DEF SyncInv, PlaceHolds
  <2> QED BY <2>1, QGrows
<1>2. OpenLoop
  BY <1>1 DEF OpenLoop
<1>3. InPhase(word["main"], parked["main"], code, stack) /\ Answers(x)
  BY <1>1 DEF QPhase, QWakes
<1> QED BY <1>2, <1>3, AnswersKept

-----------------------------------------------------------------------------
(* Nobody waits for what is there.                                         *)

LoopInv == LoopPlace /\ LockWakes /\ GateWakes /\ CloseWakes /\ QPhase /\ QWakes
WakeInv ==
    /\ WakeTypes /\ BufHolds /\ QFine /\ Busy /\ StopInv
    /\ host = "loop" => LoopInv
    /\ host = "process" => ProcessPlace

\* At first nobody waits.
LEMMA WakeStart == ASSUME Init PROVE WakeInv
<1>1. /\ kind \in AllKinds /\ host \in {"loop", "process"} /\ code = [f \in Fibers |-> <<>>] /\ mem = [f \in Fibers |-> 0]
      /\ budget = [f \in Fibers |-> MaxOps] /\ stack = <<>> /\ parked = [y \in Futexes |-> <<>>] /\ buf = <<>> /\ closed = FALSE
      /\ rw = 0 /\ word = [y \in Futexes |-> IF y = "main" /\ kind = "semaphore" THEN Permits ELSE 0]
      /\ MaxOps \in Nat /\ Permits \in Nat /\ "main" \in Futexes
  BY SyncAssumption DEF Init, Futexes
<1>2. WakeTypes /\ BufHolds
  <2>1. <<>> \in Seq(Fibers)
    OBVIOUS
  <2> QED BY <1>1, <2>1 DEF WakeTypes, BufHolds
<1>3. QFine
  BY <1>1 DEF QFine, QCode, Served
<1>4. Busy
  BY <1>1 DEF Busy
<1>5. StopInv
  <2>1. \A f \in Fibers : ~Stopped(code[f]) /\ ~Past(code[f]) /\ code[f] = <<>>
    BY <1>1 DEF Stopped, Past
  <2>2. RwStops
    <3>1. \A a \in {"read", "write"} : RwPark(a) # <<>>
      BY DEF RwPark
    <3> QED BY <1>1, <2>1, <3>1 DEF RwStops
  <2>3. BarrierStops
    BY <2>1 DEF BarrierStops
  <2>4. LatchStops
    BY <1>1, <1>2, <2>1 DEF LatchStops, LatchInv, OnceInv, WakeTypes
  <2>5. QueueStops
    <3>1. \A y \in Conds : QWait(y, User(y)) # <<>> /\ QRelease(y, User(y)) # <<>> /\ QPark(y, User(y)) # <<>>
      BY QIs DEF Is
    <3> QED BY <2>1, <3>1 DEF QueueStops
  <2> QED BY <2>2, <2>3, <2>4, <2>5 DEF StopInv
<1>e. Range(<<>>) = {} /\ \A y \in Futexes : parked[y] = <<>>
  BY <1>1 DEF Range
<1>6. LoopPlace
  BY <1>e DEF LoopPlace
<1>7. LockWakes
  BY <1>1, <1>e DEF LockWakes
<1>8. GateWakes /\ CloseWakes
  BY <1>1, <1>e DEF GateWakes, CloseWakes
<1>9. QPhase
  <2>1. NoneIn(code)
    BY <1>1, QInLock DEF NoneIn
  <2> QED BY <1>1, <1>e, <2>1 DEF QPhase, InPhase, Free
<1>10. QWakes
  <2>1. Conds \subseteq Futexes
    BY DEF Conds, Futexes
  <2> QED BY <1>e, <2>1 DEF QWakes, Answers
<1>11. ProcessPlace
  <2>1. Len(<<>>) = 0
    OBVIOUS
  <2> QED BY <1>1, <1>e, <2>1 DEF ProcessPlace, Placed, OnceIn, Apart
<1> QED BY <1>2, <1>3, <1>4, <1>5, <1>6, <1>7, <1>8, <1>9, <1>10, <1>11 DEF WakeInv, LoopInv

\* Every step keeps it.
LEMMA WakeKept == ASSUME SyncInv, WakeInv, [Next]_vars PROVE WakeInv'
<1>1. CASE Next
  <2>1. WakeTypes' /\ BufHolds'
    BY <1>1, WakeTypesKept, BufKept DEF WakeInv, SyncInv, PlaceHolds
  <2>2. QFine' /\ Busy' /\ StopInv'
    BY <1>1, QFineKept, BusyKept, StopKept DEF WakeInv, SyncInv, PlaceHolds
  <2>3. host' = host
    BY <1>1, SameObject
  <2>4. CASE host = "loop"
    <3>1. LoopPlace' /\ LockWakes' /\ GateWakes'
      BY <1>1, <2>4, LoopPlaceKept, LockWakesKept, GateWakesKept DEF WakeInv, LoopInv
    <3>2. CloseWakes' /\ QPhase' /\ QWakes'
      BY <1>1, <2>4, CloseWakesKept, QPhaseKept, QWakesKept DEF WakeInv, LoopInv
    <3> QED BY <2>1, <2>2, <2>3, <2>4, <3>1, <3>2 DEF WakeInv, LoopInv
  <2>5. CASE host = "process"
    <3>1. ProcessPlace'
      BY <1>1, <2>5, ProcessPlaceKept DEF WakeInv
    <3> QED BY <2>1, <2>2, <2>3, <2>5, <3>1 DEF WakeInv
  <2>6. CASE host \notin {"loop", "process"}
    BY <2>1, <2>2, <2>3, <2>6 DEF WakeInv
  <2> QED BY <2>4, <2>5, <2>6
<1>2. CASE UNCHANGED vars
  <2>u. UNCHANGED <<kind, host, word, parked, rw, buf, closed, code, mem, budget, stack>>
    BY <1>2 DEF vars
  <2>1. WakeTypes' /\ BufHolds' /\ QFine' /\ Busy'
    BY <2>u DEF WakeInv, WakeTypes, BufHolds, QFine, Busy
  <2>2. RwStops' /\ BarrierStops' /\ LatchStops'
    BY <2>u DEF WakeInv, StopInv, RwStops, RwShut, BarrierStops, LatchStops, LatchInv, OnceInv
  <2>c. ASSUME NEW x PROVE (Telling(x)' <=> Telling(x)) /\ (Closing(x)' <=> Closing(x)) /\ Surplus(x)' = Surplus(x)
    BY <2>u DEF Telling, Closing, Surplus
  <2>r. ASSUME NEW f PROVE Running(f)' <=> Running(f)
    BY <2>u DEF Running
  <2>3. QueueStops'
    BY <2>u, <2>c, <2>r DEF WakeInv, StopInv, QueueStops, QStops
  <2>4. host = "loop" => LoopPlace' /\ LockWakes' /\ GateWakes'
    BY <2>u, <2>r DEF WakeInv, LoopInv, LoopPlace, LockWakes, Avail, TopWake, GateWakes, Due, Covered
  <2>5. host = "loop" => CloseWakes' /\ QPhase'
    BY <2>u, <2>c DEF WakeInv, LoopInv, CloseWakes, Covered, QPhase
  <2>6. host = "loop" => QWakes'
    BY <2>u, <2>c, <2>r DEF WakeInv, LoopInv, QWakes, Answers, Carrier, TopWake
  <2>7. host = "process" => ProcessPlace'
    BY <2>u DEF WakeInv, ProcessPlace, Live, Dead
  <2> QED BY <2>u, <2>1, <2>2, <2>3, <2>4, <2>5, <2>6, <2>7 DEF WakeInv, LoopInv, StopInv
<1> QED BY <1>1, <1>2

\* When nothing runs, a fiber that is parked is in front of a lock or a word.
LEMMA Parked ==
    ASSUME SyncInv, WakeInv, host \in {"loop", "process"}, stack = <<>>, NEW f \in Fibers, code[f] # <<>>,
           NEW x \in Futexes, f \in Range(parked[x])
    PROVE  WaitsAt(code[f], x)
<1>1. Op(code[f]) \in {"acquire", "down", "park", "body"}
  <2>1. Range(stack) = {}
    BY DEF Range
  <2> QED BY <2>1 DEF WakeInv, Busy
<1>2. ~Dead(f)
  BY <1>1 DEF Dead, Finishing
<1> QED BY <1>2 DEF WakeInv, LoopInv, LoopPlace, ProcessPlace, Placed, Live

\* What a fiber waits for that stopped in front of a word.
LEMMA StoppedFor ==
    ASSUME CodesHold, QFine, NEW f \in Fibers, Stopped(code[f])
    PROVE  /\ kind \in Alls => Arg(code[f]) = "main"
           /\ kind = "rwlock" => \E a \in {"read", "write"} : code[f] = RwPark(a) /\ code[f][2][1] = a
           /\ kind = "queue" => \E x \in Conds : code[f] = QPark(x, User(x)) /\ Arg(code[f]) = x /\ code[f][3][1] = User(x)
<1>1. code[f] \in Codes(kind) /\ code[f] # <<>> /\ Op(code[f]) = "park"
  BY DEF CodesHold, Stopped
<1>2. ASSUME kind = "rwlock" PROVE Arg(code[f]) = "main" /\ \E a \in {"read", "write"} : code[f] = RwPark(a) /\ code[f][2][1] = a
  <2>1. PICK a \in {"read", "write"} : code[f] = RwPark(a)
    BY <1>1, <1>2, RwOps
  <2>2. RwPark(a)[2][1] = a
    BY DEF RwPark
  <2> QED BY <1>1, <1>2, <2>1, <2>2, RwOps
<1>3. ASSUME kind \in Gates PROVE Arg(code[f]) = "main"
  BY <1>1, <1>3, GateCodesAre DEF GateCode
<1>4. ASSUME kind = "queue" PROVE \E x \in Conds : code[f] = QPark(x, User(x)) /\ Arg(code[f]) = x /\ code[f][3][1] = User(x)
  <2>1. PICK x \in Conds : code[f] = QPark(x, User(x))
    BY <1>1, <1>4, QOps DEF QFine, QByOp
  <2>2. QPark(x, User(x))[3][1] = User(x)
    BY DEF QPark
  <2>3. Arg(QPark(x, User(x))) = x
    BY QIs DEF Is
  <2> QED BY <2>1, <2>2, <2>3
<1> QED BY <1>2, <1>3, <1>4 DEF Alls

\* A read-write lock's word has not changed since the fiber read it: it has to wait.
LEMMA RwHasTo ==
    ASSUME kind = "rwlock", CodesHold, QFine, StopInv, NEW f \in Fibers, Stopped(code[f]), mem[f] = word["main"]
    PROVE  ~(rw = 0 \/ (rw > 0 /\ code[f][2][1] = "read"))
<1>1. PICK a \in {"read", "write"} : code[f] = RwPark(a) /\ code[f][2][1] = a
  BY StoppedFor
<1>2. rw \in Int /\ RwShut(a, f)
  BY <1>1 DEF StopInv, RwStops
<1> QED BY <1>1, <1>2 DEF RwShut

\* What is there for a call of the queue.
LEMMA QHasTo ==
    ASSUME BufHolds, NEW x \in Conds, NEW a, a = User(x), ~closed, Surplus(x) <= 0
    PROVE  ~(closed \/ (IF a = "put" THEN Len(buf) < Cap ELSE buf # <<>>))
<1>1. Len(buf) \in Nat /\ Cap \in Nat
  BY SyncAssumption DEF BufHolds
<1>2. x = "full" => a = "put" /\ Cap - Len(buf) <= 0
  BY DEF User, Surplus
<1>3. x = "empty" => a = "take" /\ buf = <<>>
  BY QData DEF User, Surplus
<1> QED BY <1>1, <1>2, <1>3 DEF Conds

\* Nobody waits in the loop for what is there.
LEMMA LoopHasTo ==
    ASSUME SyncInv, WakeInv, host = "loop", stack = <<>>, NEW f \in Fibers, code[f] # <<>>, NEW x \in Futexes, f \in Range(parked[x])
    PROVE  ~CanGo(f)
<1>t. /\ CodesHold /\ QFine /\ StopInv /\ BufHolds /\ LoopInv /\ Busy /\ kind \in AllKinds
      /\ WaitsAt(code[f], x) /\ code[f] \in Codes(kind) /\ Range(stack) = {} /\ parked[x] # <<>>
  <2>1. Range(stack) = {} /\ Range(<<>>) = {}
    BY DEF Range
  <2> QED BY <2>1, Parked DEF SyncInv, WakeInv, CodesHold
<1>n. \A h \in Fibers, y \in Futexes : ~Covered(h, y) /\ ~Running(h) /\ ~TopWake(y)
  BY <1>t DEF Covered, Running, TopWake
<1>a. kind \in Alls => Op(code[f]) \notin {"acquire", "down"}
  <2>1. kind \in Gates => GateCode(code[f])
    BY <1>t, GateCodesAre
  <2>2. kind = "rwlock" => Op(code[f]) \notin {"acquire", "down"}
    BY <1>t, RwOps
  <2> QED BY <2>1, <2>2 DEF GateCode, Gates, Alls
<1>1. CASE Op(code[f]) \in {"acquire", "down"}
  <2>1. x = "main" /\ kind \in Locks
    BY <1>1, <1>a, <1>t DEF WaitsAt, AllKinds, Locks, Alls, Gates
  <2>2. ~Avail
    BY <1>n, <1>t, <2>1 DEF LoopInv, LockWakes
  <2>3. LockOp(code[f])
    BY <1>t, <2>1, LockOps
  <2>4. /\ Op(code[f]) = "acquire" => word["main"] # 0
        /\ Op(code[f]) = "down" => ~(word["main"] > 0)
    BY <2>2, <2>3 DEF Avail, LockOp
  <2> QED BY <1>1, <2>4 DEF CanGo, Op
<1>2. CASE Op(code[f]) \notin {"acquire", "down"}
  <2>1. Stopped(code[f]) /\ Arg(code[f]) = x
    BY <1>2, <1>t DEF WaitsAt, Stopped
  <2>c. /\ Op(code[f]) = Head(code[f])[1] /\ Head(code[f])[1] \notin {"acquire", "down"}
    BY <1>2 DEF Op
  <2>d. kind \in Alls => ~Due(f)
    <3>1. kind \in Alls => x = "main"
      BY <1>t, <2>1, StoppedFor
    <3> QED BY <1>n, <1>t, <3>1 DEF LoopInv, GateWakes
  <2>2. CASE kind = "rwlock"
    <3>1. mem[f] = word["main"]
      BY <2>2, <2>d DEF Due, Alls
    <3>2. ~(rw = 0 \/ (rw > 0 /\ code[f][2][1] = "read"))
      BY <1>t, <2>1, <2>2, <3>1, RwHasTo
    <3> QED BY <2>2, <2>c, <3>2 DEF CanGo
  <2>3. CASE kind \in Gates
    BY <2>3, <2>c, <2>d DEF CanGo, Due, Alls, Gates
  <2>4. CASE kind = "queue"
    <3>1. x \in Conds /\ code[f][3][1] = User(x)
      BY <1>t, <2>1, <2>4, StoppedFor
    <3>2. ~Closing(x)
      <4>1. \A h \in Fibers : code[h] # QClose /\ code[h] # QClosing
        BY <1>t, QInLock DEF Busy, InLock
      <4> QED BY <4>1 DEF Closing
    <3>3. ~closed
      BY <1>n, <1>t, <2>4, <3>1, <3>2 DEF LoopInv, CloseWakes
    <3>4. InPhase(word["main"], parked["main"], code, stack) /\ Answers(x)
      BY <1>t, <2>4, <3>1, <3>3 DEF LoopInv, QPhase, QWakes
    <3>5. parked["main"] = <<>>
      BY <3>4 DEF InPhase, Free, Hands, Has, Tells, Told, Leaves, Awakens, WakeAt, RunAt
    <3>6. ~Carrier(x)
      <4>1. Range(parked["main"]) = {}
        BY <3>5 DEF Range
      <4> QED BY <1>n, <4>1 DEF Carrier
    <3>7. Surplus(x) <= 0
      BY <1>t, <3>4, <3>6 DEF Answers
    <3>8. ~(closed \/ (IF code[f][3][1] = "put" THEN Len(buf) < Cap ELSE buf # <<>>))
      BY <1>t, <3>1, <3>3, <3>7, QHasTo
    <3> QED BY <2>4, <2>c, <3>8 DEF CanGo
  <2>5. CASE kind \in {"lock", "semaphore", "monitor"}
    BY <2>5, <2>c DEF CanGo
  <2> QED BY <1>t, <2>2, <2>3, <2>4, <2>5 DEF AllKinds, Gates
<1> QED BY <1>1, <1>2

\* Nobody waits in a process for what is there once nobody's word has changed.
LEMMA ProcessHasTo ==
    ASSUME SyncInv, WakeInv, host = "process", stack = <<>>, NEW f \in Fibers, code[f] # <<>>, NEW x \in Futexes,
           f \in Range(parked[x]), word[x] = Expects(f)
    PROVE  ~CanGo(f)
<1>t. /\ CodesHold /\ QFine /\ StopInv /\ BufHolds /\ Busy /\ kind \in AllKinds
      /\ WaitsAt(code[f], x) /\ code[f] \in Codes(kind) /\ Range(stack) = {}
  <2>1. Range(stack) = {}
    BY DEF Range
  <2> QED BY <2>1, Parked DEF SyncInv, WakeInv, CodesHold
<1>o. Op(code[f]) = Head(code[f])[1]
  BY DEF Op
<1>1. CASE Op(code[f]) \in {"acquire", "down"}
  <2>1. x = "main"
    BY <1>1, <1>t DEF WaitsAt
  <2>2. word["main"] = IF Op(code[f]) = "acquire" THEN 1 ELSE 0
    BY <1>1, <1>o, <2>1 DEF Expects
  <2> QED BY <1>1, <1>o, <2>2 DEF CanGo
<1>2. CASE Op(code[f]) \notin {"acquire", "down"}
  <2>1. Stopped(code[f]) /\ Arg(code[f]) = x
    BY <1>2, <1>t DEF WaitsAt, Stopped
  <2>c. Head(code[f])[1] \notin {"acquire", "down"}
    BY <1>2, <1>o
  <2>m. word[x] = mem[f]
    BY <2>c DEF Expects
  <2>a. kind \in Alls => word["main"] = mem[f]
    BY <1>t, <2>1, <2>m, StoppedFor
  <2>2. CASE kind = "rwlock"
    <3>1. ~(rw = 0 \/ (rw > 0 /\ code[f][2][1] = "read"))
      BY <1>t, <2>1, <2>2, <2>a, RwHasTo DEF Alls
    <3> QED BY <2>2, <2>c, <3>1 DEF CanGo
  <2>3. CASE kind \in Gates
    <3>1. /\ kind = "barrier" => mem[f] # Everyone
          /\ kind = "latch" => mem[f] = 0
          /\ kind = "once" => mem[f] = 1
      BY <1>t, <2>1 DEF StopInv, BarrierStops, LatchStops, LatchInv, OnceInv
    <3> QED BY <2>3, <2>a, <2>c, <3>1 DEF CanGo, Alls, Gates
  <2>4. CASE kind = "queue"
    <3>1. x \in Conds /\ code[f][3][1] = User(x) /\ code[f] = QPark(x, User(x))
      BY <1>t, <2>1, <2>4, StoppedFor
    <3>2. ~Closing(x) /\ ~Telling(x)
      <4>1. \A h \in Fibers : code[h] # QClose /\ code[h] # QClosing
        BY <1>t, QInLock DEF Busy, InLock
      <4>2. QNotify(x) # <<>> /\ Op(QNotify(x)) = "notify"
        BY <3>1, QIs DEF Is
      <4>3. \A h \in Fibers : code[h] # QNotify(x)
        BY <1>t, <4>2 DEF Busy
      <4> QED BY <4>1, <4>3 DEF Closing, Telling
    <3>3. ~closed /\ Surplus(x) <= 0
      BY <1>t, <2>4, <2>m, <3>1, <3>2 DEF StopInv, QueueStops, QStops
    <3>4. ~(closed \/ (IF code[f][3][1] = "put" THEN Len(buf) < Cap ELSE buf # <<>>))
      BY <1>t, <3>1, <3>3, QHasTo
    <3> QED BY <2>4, <2>c, <3>4 DEF CanGo
  <2>5. CASE kind \in {"lock", "semaphore", "monitor"}
    BY <2>5, <2>c DEF CanGo
  <2> QED BY <1>t, <2>2, <2>3, <2>4, <2>5 DEF AllKinds, Gates
<1> QED BY <1>1, <1>2

\* The two schedulers are all there are.
HostHolds == host \in {"loop", "process"}

\* No wakeup is lost, for every object of lib/sync.lisp, in the loop of ev/run and
\* among the sub-fibers of a process, whatever is aborted and whenever: when nothing
\* runs and nobody is left to wake, nobody is parked for something that is there.
THEOREM NoWakeupLost == Spec => []NoLostWakeup
<1>1. Init => WakeInv /\ HostHolds
  BY WakeStart DEF Init, HostHolds
<1>2. SyncInv /\ WakeInv /\ [Next]_vars => WakeInv'
  BY WakeKept
<1>3. HostHolds /\ [Next]_vars => HostHolds'
  BY SameObject DEF HostHolds, vars
<1>4. ASSUME SyncInv, WakeInv, HostHolds PROVE NoLostWakeup
  <2> SUFFICES ASSUME stack = <<>>, NobodyReady, NEW f \in Fibers, Waits(f) # {}, ~Ended(f) PROVE ~CanGo(f)
    BY DEF NoLostWakeup
  <2>1. PICK x \in Futexes : x \in Waits(f)
    BY DEF Waits
  <2>2. f \in Range(parked[x]) /\ code[f] # <<>>
    BY <1>4, <2>1, WaitsParked DEF SyncInv, PlaceHolds, Ended
  <2>3. CASE host = "loop"
    BY <1>4, <2>2, <2>3, LoopHasTo
  <2>4. CASE host = "process"
    <3>1. word[x] = Expects(f)
      BY <2>1, <2>4 DEF NobodyReady, Changed
    <3> QED BY <1>4, <2>2, <2>4, <3>1, ProcessHasTo
  <2> QED BY <1>4, <2>3, <2>4 DEF HostHolds
<1>5. SyncInv /\ WakeInv /\ HostHolds => NoLostWakeup
  BY <1>4
<1> QED BY <1>1, <1>2, <1>3, <1>5, SyncInvariant, PTL DEF Spec
=============================================================================
