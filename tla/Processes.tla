----------------------------- MODULE Processes -----------------------------
(***************************************************************************)
(* The process scheduler (lib/process/scheduler.lisp) and the programs     *)
(* that run on it: processes that make any command, a GenServer and its    *)
(* callers (genserver.lisp), and a supervisor and its children             *)
(* (supervisor.lisp).                                                      *)
(*                                                                         *)
(* A process runs to its next command, and the command is served before    *)
(* the next process runs: one action.  `batch` is what is left of the      *)
(* round's processes.  An initial state picks the program (`scene`).       *)
(***************************************************************************)
EXTENDS ProcTable

CONSTANTS
    Scenes,        \* the programs to look at
    Budget,        \* bound: scene -> commands the processes make of their own accord
    Preempts,      \* bound: scene -> preemptions
    Ticks,         \* the delays of the timers
    Strategies,    \* the supervisor's strategies
    Policies,      \* the restart policies of its children
    MaxRestarts    \* the supervisor's :max-restarts

AllScenes == {"links", "monitors", "mail", "names", "call", "supervisor"}

ASSUME ProcessesAssumption ==
    /\ Scenes \subseteq AllScenes
    /\ Budget \in [AllScenes -> Nat] /\ Preempts \in [AllScenes -> Nat] /\ MaxRestarts \in Nat
    /\ Ticks \subseteq Nat
    /\ Strategies \subseteq {"one-for-one", "one-for-all", "rest-for-one"}
    /\ Policies \subseteq {"permanent", "transient", "temporary"}

VARIABLES
    t,         \* the process table
    phase,     \* "top", "idle", "parked", "late", "run", "asleep", "slept", "done", "deadlock"
    batch,     \* processes still to run in this phase
    arrived,   \* processes whose I/O completion the parent has delivered
    pc,        \* process -> where its program is
    budget,    \* commands the processes may still make of their own accord
    fuel,      \* preemptions left
    scene,
    sup        \* the supervisor's own state

vars == <<t, phase, batch, arrived, pc, budget, fuel, scene, sup>>

\* What the processes of a scene may do of their own accord.
Ops(p) ==
    CASE scene = "links" -> {"link", "unlink", "trap", "exit", "return", "raise", "spawn"}
      [] scene = "monitors" -> {"monitor", "demonitor", "exit", "return", "spawn"}
      [] scene = "mail" -> {"send", "recv", "match", "recvtimeout", "after", "cancel", "io"}
      [] scene = "names" -> {"register", "unregister", "sendnamed", "recv", "return"}
      [] scene = "call" /\ p = 2 -> {"send", "exit"}
      [] OTHER -> {}

\* The program counter of a process: a label, the refs of the call it is in, and
\* the message that ended it.
Label(l) == [at |-> l, mref |-> None, ref |-> None, timer |-> None, timed |-> FALSE, msg |-> <<>>]
Role(p) == CASE scene = "call" /\ p = 0 -> "client"
             [] scene = "call" /\ p = 1 -> "server"
             [] scene = "supervisor" /\ p = 0 -> "parent"
             [] scene = "supervisor" /\ p = 1 -> "sup-start"
             [] scene = "supervisor" /\ p > 1 -> "child"
             [] OTHER -> "free"

Children == {"a", "b"}
NoChild == "none"

\* The supervisor: its options, its children in start order, the live ones, the
\* restarts inside the window, what it has to do before it receives again, the
\* child it has just spawned, and for every pid the child it was started as.
NewSup(strategy, policy, ready) ==
    [strategy |-> strategy, policy |-> policy, ready |-> ready,
     order |-> <<"a", "b">>, kids |-> [c \in Children |-> None],
     history |-> [c \in Children |-> 0], todo |-> <<>>, fresh |-> NoChild,
     ids |-> [p \in Pids |-> NoChild]]

\* Three processes with any links between them and any of them trapping exits.
Linked ==
    {[NewTable(3) EXCEPT !.trapping = [p \in Pids |-> p \in T],
                         !.links = [p \in Pids |-> {q \in 0..2 \ {p} : {p, q} \in L}]] :
        T \in SUBSET (0..2), L \in SUBSET {{0, 1}, {0, 2}, {1, 2}}}

\* The first process has spawned the others of the scene; the supervisor is
\* linked to the process that started it.
Init ==
    /\ scene \in Scenes
    /\ CASE scene = "links" -> t \in Linked
         [] scene = "supervisor" -> t = AddLink(NewTable(2), 0, 1)
         [] scene \in {"mail", "names"} -> t = NewTable(2)
         [] OTHER -> t = NewTable(3)
    /\ IF scene # "supervisor" THEN sup = NewSup("one-for-one", [c \in Children |-> "permanent"], {})
       ELSE \E s \in Strategies, po \in [Children -> Policies], re \in {{}, {"a"}} : sup = NewSup(s, po, re)
    /\ phase = "run" /\ batch = [i \in 1..t.spawned |-> i - 1] /\ arrived = <<>>
    /\ pc = [p \in Pids |-> Label(Role(p))]
    /\ budget = Budget[scene] /\ fuel = Preempts[scene]

-----------------------------------------------------------------------------
(* The scheduler.                                                          *)

Running(p) == phase \in {"slept", "late", "run"} /\ batch # <<>> /\ Head(batch) = p /\ Alive(t, p)
At(p, l) == Running(p) /\ pc[p].at = l

\* run-one takes the value it hands over, complete-io the pending entry.
Taken(p) == [t EXCEPT !.resume[p] = <<>>, !.io = @ \ {p}]

HasWork(u) == u.ready # <<>> \/ u.waiting # <<>> \/ u.io # {}
restVars == <<pc, budget, fuel, scene, sup>>

\* The top of a round: the tick, the timers, wake-waiting, and the processes that
\* are ready then.  Its reap-io finds nothing: the parent delivers only while this
\* scheduler is suspended, and each suspension is followed by a reap-io of its own.
Round ==
    /\ phase = "top"
    /\ IF HasWork(t)
       THEN LET u == WakeWaiting(FireTimers(Advance([t EXCEPT !.tired = 0], 1))) IN
            IF u.ready = <<>> THEN t' = u /\ phase' = "idle" /\ UNCHANGED batch
            ELSE t' = [u EXCEPT !.ready = <<>>] /\ batch' = u.ready /\ phase' = "run"
       ELSE phase' = "done" /\ UNCHANGED <<t, batch>>
    /\ UNCHANGED <<arrived, restVars>>

\* A dead process is passed over.
SkipDead ==
    /\ phase \in {"slept", "late", "run"}
    /\ batch # <<>> /\ ~Alive(t, Head(batch))
    /\ batch' = Tail(batch)
    /\ UNCHANGED <<t, phase, arrived, restVars>>

\* The round is over.  When all that is ready is refueling while I/O is in flight,
\* a zero-length sleep gives the parent a turn.
RoundEnds ==
    /\ phase \in {"run", "slept"} /\ batch = <<>>
    /\ phase' = IF phase = "run" /\ t.io # {} /\ t.ready # <<>> /\ Len(t.ready) = t.tired
                THEN "asleep" ELSE "top"
    /\ UNCHANGED <<t, batch, arrived, restVars>>

\* reap-io after that sleep.
Slept ==
    /\ phase = "asleep"
    /\ phase' = "slept" /\ batch' = arrived /\ arrived' = <<>>
    /\ UNCHANGED <<t, restVars>>

\* idle: nobody is ready.  With I/O in flight the scheduler parks in its parent.
Idle ==
    /\ phase = "idle"
    /\ CASE ~HasWork(t) -> phase' = "top" /\ UNCHANGED <<t, batch>>
         [] HasWork(t) /\ t.io # {} -> phase' = "parked" /\ UNCHANGED <<t, batch>>
         [] HasWork(t) /\ t.io = {} /\ t.timers # <<>> ->
                LET u == WakeWaiting(FireTimers(Advance(t, Earliest(t)))) IN
                t' = [u EXCEPT !.ready = <<>>] /\ batch' = u.ready /\ phase' = "run"
         [] OTHER -> /\ phase' = IF Alive(t, 0) THEN "deadlock" ELSE "top"
                     /\ t' = IF Alive(t, 0) THEN t ELSE ShutdownIdle(t)
                     /\ UNCHANGED batch
    /\ UNCHANGED <<arrived, restVars>>

\* wait-for-io ends with a completion or with the alarm of the earliest timer;
\* the clock counts the park.
Unpark ==
    /\ phase = "parked"
    /\ \/ arrived # <<>> /\ \E n \in {0} \cup Ticks : t' = Advance(t, n)
       \/ t.timers # <<>> /\ t' = Advance(t, Earliest(t))
    /\ phase' = "late"
    /\ batch' = arrived /\ arrived' = <<>>
    /\ UNCHANGED restVars

\* The processes the park's completions made ready run; the others wait for the
\* next round.
LateReady ==
    /\ phase = "late" /\ batch = <<>>
    /\ t' = [t EXCEPT !.ready = <<>>] /\ batch' = t.ready /\ phase' = "run"
    /\ UNCHANGED <<arrived, restVars>>

\* The parent delivers a completion, while this scheduler is suspended.
Complete(p) ==
    /\ p \in t.io /\ ~Contains(arrived, p)
    /\ phase \in {"parked", "asleep"}
    /\ arrived' = Append(arrived, p)
    /\ UNCHANGED <<t, phase, batch, restVars>>

-----------------------------------------------------------------------------
(* A process's turn: it takes its value, runs, and its next command is     *)
(* served (dispatch-signal, handle-cmd).                                   *)

Serve(p, u, l) ==
    /\ t' = u
    /\ batch' = Tail(batch)
    /\ pc' = [pc EXCEPT ![p] = l]
    /\ UNCHANGED <<phase, arrived, scene, fuel>>
Answer(p, u, v) == Resume(u, p, v)
OK == <<"ok">>

\* The fuel ran out: the process is queued where it is, its value with it.
Preempt(p) ==
    /\ Running(p) /\ fuel > 0
    /\ t' = [t EXCEPT !.ready = Append(@, p), !.tired = @ + 1, !.io = @ \ {p}]
    /\ batch' = Tail(batch) /\ fuel' = fuel - 1
    /\ UNCHANGED <<phase, arrived, pc, budget, scene, sup>>

\* A command of the process's own accord.
Free(p, op) ==
    /\ Running(p) /\ pc[p].at = "free" /\ op \in Ops(p)
    /\ budget > 0 /\ budget' = budget - 1
    /\ UNCHANGED sup

Others(p) == {q \in Pids : q # p /\ q < t.spawned}
Reasons == {"normal", "shutdown", "kill"}

CmdSend(p) ==
    /\ Free(p, "send")
    /\ \E q \in Others(p), k \in {1, 2} :
          Serve(p, Answer(p, Deliver(Taken(p), q, <<"user", k>>), OK), pc[p])
CmdRecv(p) == Free(p, "recv") /\ Serve(p, WaitForMessage(Taken(p), p, {}), pc[p])
CmdRecvMatch(p) ==
    /\ Free(p, "match")
    /\ \E k \in {1, 2} : Serve(p, WaitForMessage(Taken(p), p, {<<"user", k>>}), pc[p])
CmdRecvTimeout(p) ==
    /\ Free(p, "recvtimeout") /\ t.refs < MaxRefs
    /\ \E n \in Ticks : Serve(p, RecvTimeout(Taken(p), p, n), pc[p])
CmdSendAfter(p) ==
    /\ Free(p, "after") /\ t.refs < MaxRefs
    /\ \E n \in Ticks, q \in Others(p) :
          Serve(p, Answer(p, AddTimer(Taken(p), n, q, <<"user", 1>>), OK), pc[p])
\* The ref of a recv-timeout's timer is handed to nobody.
CmdCancelTimer(p) ==
    /\ Free(p, "cancel")
    /\ \E r \in 0 .. t.refs - 1 :
          /\ \A i \in DOMAIN t.timers : t.timers[i].ref = r => t.timers[i].msg # <<"timeout">>
          /\ Serve(p, Answer(p, CancelTimer(Taken(p), r), OK), pc[p])

\* spawn, spawn-link and spawn-monitor.
CmdSpawn(p) ==
    /\ Free(p, "spawn") /\ t.spawned < MaxPids /\ t.refs < MaxRefs
    /\ LET u == Spawn(Taken(p)) IN
       \/ Serve(p, Answer(p, u, OK), pc[p])
       \/ Serve(p, Answer(p, AddLink(u, p, t.spawned), OK), pc[p])
       \/ Serve(p, Answer(p, AddMonitor(u, p, t.spawned), OK), pc[p])
\* A link to a process that has exited raises in its caller.
CmdLink(p) ==
    /\ Free(p, "link")
    /\ \E q \in Others(p) :
          LET l == Link(Taken(p), p, q) IN
          Serve(p, IF l[2] = "ok" THEN Answer(p, l[1], OK) ELSE ProcessExit(l[1], p, "error"), pc[p])
CmdUnlink(p) ==
    /\ Free(p, "unlink")
    /\ \E q \in Others(p) : Serve(p, Answer(p, RemoveLink(Taken(p), p, q), OK), pc[p])
CmdMonitor(p) ==
    /\ Free(p, "monitor") /\ t.refs < MaxRefs
    /\ \E q \in Others(p) : Serve(p, Answer(p, AddMonitor(Taken(p), p, q), OK), pc[p])
CmdDemonitor(p) ==
    /\ Free(p, "demonitor")
    /\ \E r \in 0 .. t.refs - 1, flush \in BOOLEAN : Serve(p, Demonitor(Taken(p), p, r, flush), pc[p])
CmdTrapExit(p) ==
    /\ Free(p, "trap")
    /\ \E b \in BOOLEAN : Serve(p, Answer(p, [Taken(p) EXCEPT !.trapping[p] = b], OK), pc[p])
CmdExit(p) ==
    /\ Free(p, "exit")
    /\ \E q \in Others(p) \cup {p}, r \in Reasons : Serve(p, Exit(Taken(p), p, q, r), pc[p])
CmdRegister(p) ==
    /\ \/ Free(p, "register") /\ \E n \in Names : Serve(p, Register(Taken(p), p, n), pc[p])
       \/ Free(p, "unregister") /\ \E n \in Names : Serve(p, Unregister(Taken(p), p, n), pc[p])
CmdSendNamed(p) ==
    /\ Free(p, "sendnamed")
    /\ \E n \in Names :
          Serve(p, Answer(p, IF t.names[n] = None THEN Taken(p)
                             ELSE Deliver(Taken(p), t.names[n], <<"user", 1>>), OK), pc[p])

\* The process returns, or raises.
Return(p) == Free(p, "return") /\ Serve(p, ProcessExit(Taken(p), p, "normal"), pc[p])
Raise(p) == Free(p, "raise") /\ Serve(p, ProcessExit(Taken(p), p, "error"), pc[p])
\* I/O is forwarded to the parent.
ForwardIo(p) == Free(p, "io") /\ Serve(p, [Taken(p) EXCEPT !.io = @ \cup {p}], pc[p])

Command(p) ==
    \/ CmdSend(p) \/ CmdRecv(p) \/ CmdRecvMatch(p) \/ CmdRecvTimeout(p) \/ CmdSendAfter(p)
    \/ CmdCancelTimer(p) \/ CmdSpawn(p) \/ CmdLink(p) \/ CmdUnlink(p) \/ CmdMonitor(p)
    \/ CmdDemonitor(p) \/ CmdTrapExit(p) \/ CmdExit(p) \/ CmdRegister(p) \/ CmdSendNamed(p)
    \/ Return(p) \/ Raise(p) \/ ForwardIo(p)

\* A program that makes no further command returns.
Ends(p) ==
    /\ Running(p) /\ pc[p].at = "free" /\ budget = 0
    /\ Serve(p, ProcessExit(Taken(p), p, "normal"), pc[p])
    /\ UNCHANGED <<budget, sup>>

-----------------------------------------------------------------------------
(* gen-call and the server loop (lib/process/genserver.lisp).  Process 0   *)
(* calls process 1, with a deadline or without.                            *)

Got(p) == t.resume[p]

CallBegins(p) ==
    /\ At(p, "client") /\ budget > 0 /\ t.refs + 3 <= MaxRefs
    /\ budget' = budget - 1
    /\ \E b \in BOOLEAN :
          Serve(p, Answer(p, AddMonitor(Taken(p), p, 1), OK),
                [Label("alias") EXCEPT !.mref = t.refs, !.timed = b])
    /\ UNCHANGED sup

\* The whole of gen-call after its monitor, one command a turn.
Unalias(p, m) ==
    Serve(p, Answer(p, RemoveAlias(Taken(p), p, pc[p].ref), OK),
          [pc[p] EXCEPT !.at = "unaliased", !.msg = m])
\* A slip: a deadline that fired behind the reply is left in the mailbox.
LeavesDeadline(p) == Unalias(p, pc[p].msg)

\* await-reply takes the deadline's message out when the timer had fired.
TakeDeadline(p) ==
    IF Got(p) = <<"not-found">>
    THEN Serve(p, WaitForMessage(Taken(p), p, {<<"late", pc[p].ref>>}), [pc[p] EXCEPT !.at = "drained"])
    ELSE Unalias(p, pc[p].msg)

GenCall(p) ==
    /\ \/ /\ At(p, "alias")
          /\ Serve(p, Answer(p, AddAlias(Taken(p), p), OK), [pc[p] EXCEPT !.at = "send", !.ref = t.refs])
       \/ /\ At(p, "send")
          /\ Serve(p, Answer(p, Deliver(Taken(p), 1, <<"call", pc[p].ref, p>>), OK),
                   [pc[p] EXCEPT !.at = IF pc[p].timed THEN "deadline" ELSE "await"])
       \/ /\ At(p, "deadline")
          /\ \E n \in Ticks :
                Serve(p, Answer(p, AddTimer(Taken(p), n, p, <<"late", pc[p].ref>>), OK),
                      [pc[p] EXCEPT !.at = "await", !.timer = t.refs])
       \/ /\ At(p, "await")
          /\ Serve(p, WaitForMessage(Taken(p), p, {<<"reply", pc[p].ref>>, <<"DOWN", pc[p].mref>>,
                                                   <<"late", pc[p].ref>>}),
                   [pc[p] EXCEPT !.at = "answered"])
       \/ /\ At(p, "answered")
          /\ IF Got(p)[1] = "late" \/ pc[p].timer = None
             THEN Unalias(p, Got(p))
             ELSE Serve(p, Answer(p, CancelTimer(Taken(p), pc[p].timer),
                                  IF HasTimer(t, pc[p].timer) THEN OK ELSE <<"not-found">>),
                        [pc[p] EXCEPT !.at = "cancelled", !.msg = Got(p)])
       \/ At(p, "cancelled") /\ TakeDeadline(p)
       \/ At(p, "drained") /\ Unalias(p, pc[p].msg)
       \/ /\ At(p, "unaliased")
          /\ Serve(p, IF pc[p].msg[1] = "DOWN" THEN Answer(p, Taken(p), OK)
                      ELSE Demonitor(Taken(p), p, pc[p].mref, TRUE), Label("client"))
    /\ UNCHANGED <<budget, sup>>

\* The caller is done with calls.
ClientEnds(p) ==
    /\ At(p, "client") /\ budget = 0
    /\ Serve(p, ProcessExit(Taken(p), p, "normal"), pc[p])
    /\ UNCHANGED <<budget, sup>>

\* The server's loop: it replies, keeps the call for a later message, raises, or
\* replies and stops.
Server(p) ==
    /\ \/ At(p, "server") /\ Serve(p, WaitForMessage(Taken(p), p, {}), [pc[p] EXCEPT !.at = "serve"])
       \/ /\ At(p, "serve") /\ Got(p)[1] = "call"
          /\ \/ Serve(p, Answer(p, Reply(Taken(p), Got(p)[3], Got(p)[2]), OK), [pc[p] EXCEPT !.at = "server"])
             \/ Serve(p, WaitForMessage(Taken(p), p, {}), [pc[p] EXCEPT !.ref = Got(p)[2]])
             \/ Serve(p, ProcessExit(Taken(p), p, "error"), pc[p])
             \/ Serve(p, Answer(p, Reply(Taken(p), Got(p)[3], Got(p)[2]), OK), Label("stop"))
       \/ /\ At(p, "serve") /\ Got(p)[1] # "call"
          /\ Serve(p, IF pc[p].ref = None THEN WaitForMessage(Taken(p), p, {})
                      ELSE Answer(p, Reply(Taken(p), 0, pc[p].ref), OK),
                   IF pc[p].ref = None THEN pc[p] ELSE Label("server"))
       \/ At(p, "stop") /\ Serve(p, Exit(Taken(p), p, p, "normal"), pc[p])
    /\ UNCHANGED <<budget, sup>>

-----------------------------------------------------------------------------
(* supervise (lib/process/supervisor.lisp): process 1, started by process  *)
(* 0.  What it has decided and not yet done is `sup.todo`.                 *)

Known(s, c) == Contains(s.order, c)
Kills(s, cs) == [i \in DOMAIN SelectSeq(cs, LAMBDA c : s.kids[c] # None) |->
                    <<"kill", SelectSeq(cs, LAMBDA c : s.kids[c] # None)[i]>>]
Starts(cs) == [i \in DOMAIN cs |-> <<"start", cs[i]>>]
Shutdown(s) == [s EXCEPT !.todo = Kills(s, s.order) \o <<<<"exit", NoChild>>>>]
Forget(s, c) == [s EXCEPT !.todo = Kills(s, <<c>>), !.history[c] = 0,
                          !.order = SelectSeq(@, LAMBDA d : d # c)]

Affected(s, c) ==
    CASE s.strategy = "one-for-all" -> s.order
      [] s.strategy = "rest-for-one" -> SubSeq(s.order, SelectInSeq(s.order, LAMBDA d : d = c), Len(s.order))
      [] OTHER -> <<c>>

\* A slip: the children that go down with c are not stopped before they are
\* started again.
StartsBeside(s, c) == [s EXCEPT !.todo = Starts(Affected(s, c))]

Restart(s, c) == [s EXCEPT !.todo = Kills(s, Affected(s, c)) \o Starts(Affected(s, c))]

ShouldRestart(policy, reason) ==
    policy = "permanent" \/ (policy = "transient" /\ ~Normal(reason))

\* child-exited.  Which of its restarts are still inside the window is for the
\* clock to say; the new one counts.
ChildExited(s, p, reason) ==
    LET C == {c \in Children : s.kids[c] = p} IN
    IF C = {} THEN {s}
    ELSE LET c == CHOOSE d \in C : TRUE
             u == [s EXCEPT !.kids[c] = None] IN
         IF ~ShouldRestart(s.policy[c], reason)
         THEN {IF s.policy[c] = "temporary" THEN Forget(u, c) ELSE u}
         ELSE {IF n <= MaxRestarts THEN Restart([u EXCEPT !.history[c] = n], c)
               ELSE Shutdown([u EXCEPT !.history[c] = n]) : n \in 1 .. s.history[c] + 1}

\* What the loop makes of a message: the states it may go to.
Handled(s, m) ==
    CASE m[1] = "EXIT" /\ m[2] = 0 -> {Shutdown(s)}
      [] m[1] = "EXIT" /\ m[2] # 0 -> ChildExited(s, m[2], m[3])
      [] m[1] = "stop" -> {Forget(s, m[2])}
      [] m[1] = "add" /\ ~Known(s, m[2]) -> {[s EXCEPT !.order = Append(@, m[2]), !.todo = Starts(<<m[2]>>)]}
      [] OTHER -> {s}

\* The next thing to do, or the next receive.
SupDoes(s) ==
    LET p == 1
        rest == [s EXCEPT !.todo = Tail(@)]
        u == Taken(p) IN
    IF s.todo = <<>>
    THEN Serve(p, WaitForMessage(u, p, {}), Label("sup-got")) /\ sup' = s
    ELSE LET c == Head(s.todo)[2] IN
         CASE Head(s.todo)[1] = "kill" ->
                  /\ Serve(p, Exit(u, p, s.kids[c], "shutdown"), Label("sup"))
                  /\ sup' = [rest EXCEPT !.kids[c] = None]
           [] Head(s.todo)[1] = "exit" ->
                  Serve(p, Exit(u, p, p, "shutdown"), Label("sup")) /\ sup' = rest
           [] Head(s.todo)[1] = "tell" ->
                  Serve(p, Answer(p, Deliver(u, 0, <<"started", 1>>), OK), Label("sup")) /\ sup' = rest
           [] OTHER ->
                  /\ t.spawned < MaxPids
                  /\ Serve(p, Answer(p, AddLink(Spawn(u), p, t.spawned), <<"pid", t.spawned>>), Label("sup"))
                  /\ sup' = [rest EXCEPT !.fresh = c, !.ids[t.spawned] = c]

\* The pid of the child that start-child spawned is known in the next turn.
Kept(s) == IF s.fresh = NoChild THEN s ELSE [s EXCEPT !.kids[s.fresh] = Got(1)[2], !.fresh = NoChild]

Supervise(p) ==
    /\ \/ /\ At(p, "sup-start")
          /\ Serve(p, Answer(p, [Taken(p) EXCEPT !.trapping[p] = TRUE], OK), Label("sup"))
          /\ sup' = [sup EXCEPT !.todo = Starts(sup.order) \o <<<<"tell", NoChild>>>>]
       \/ /\ At(p, "sup")
          /\ LET s == Kept(sup) IN
             IF sup.fresh \in sup.ready   \* await-ready
             THEN /\ Serve(p, WaitForMessage(Taken(p), p, {<<"ready", Got(p)[2]>>, <<"EXIT", Got(p)[2]>>}),
                           Label("sup-ready"))
                  /\ sup' = s
             ELSE SupDoes(s)
       \/ /\ At(p, "sup-ready")
          /\ IF Got(p)[1] = "EXIT"   \* it goes back to the mailbox
             THEN Serve(p, Answer(p, Deliver(Taken(p), p, Got(p)), OK), Label("sup")) /\ sup' = sup
             ELSE SupDoes(sup)
       \/ At(p, "sup-got") /\ \E s \in Handled(sup, Got(p)) : SupDoes(s)
    /\ UNCHANGED budget

\* The supervisor's parent asks for changes, dies, kills it, or receives.
Parent(p) ==
    /\ At(p, "parent")
    /\ \/ /\ budget > 0 /\ budget' = budget - 1
          /\ \/ \E c \in Children, m \in {"stop", "add"} :
                   Serve(p, Answer(p, Deliver(Taken(p), 1, <<m, c>>), OK), pc[p])
             \/ Serve(p, Exit(Taken(p), p, 1, "kill"), pc[p])
             \/ Serve(p, ProcessExit(Taken(p), p, "error"), pc[p])
       \/ Serve(p, WaitForMessage(Taken(p), p, {}), pc[p]) /\ UNCHANGED budget
    /\ UNCHANGED sup

\* A child raises, returns, receives, or reports ready and goes on.
Child(p) ==
    /\ At(p, "child")
    /\ \/ \E r \in {"error", "normal"} : Serve(p, ProcessExit(Taken(p), p, r), pc[p])
       \/ Serve(p, WaitForMessage(Taken(p), p, {}), pc[p])
       \/ /\ sup.ids[p] \in sup.ready /\ pc[p].ref = None
          /\ Serve(p, Answer(p, Deliver(Taken(p), 1, <<"ready", p>>), OK), [pc[p] EXCEPT !.ref = 0])
    /\ UNCHANGED <<budget, sup>>

-----------------------------------------------------------------------------
Turn(p) ==
    \/ Command(p) \/ Ends(p)
    \/ CallBegins(p) \/ GenCall(p) \/ ClientEnds(p) \/ Server(p)
    \/ Supervise(p) \/ Parent(p) \/ Child(p)

Loop == Round \/ SkipDead \/ RoundEnds \/ Slept \/ Idle \/ Unpark \/ LateReady

Next == Loop \/ \E p \in Pids : Turn(p) \/ Preempt(p) \/ Complete(p)

Spec == Init /\ [][Next]_vars
=============================================================================
