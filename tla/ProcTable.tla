----------------------------- MODULE ProcTable -----------------------------
(***************************************************************************)
(* The process table of one process scheduler (lib/process/core.lisp):     *)
(* mailboxes, links, monitors, aliases, names, exits and timers, as        *)
(* operators from a table to the table a function leaves.                  *)
(*                                                                         *)
(* A message is a tuple whose first two members say what a predicate can   *)
(* ask of it: <<"DOWN", ref, pid, reason>>, <<"EXIT", pid, reason>>,       *)
(* <<"reply", ref>>, <<"call", ref, pid>>, <<"late", ref>> (a call's       *)
(* deadline), <<"ready", pid>>, <<"timeout">>, and a program's own.        *)
(* A timer counts down, where the code compares it with a clock that       *)
(* counts up.                                                              *)
(***************************************************************************)
EXTENDS Integers, Sequences, FiniteSets, SequencesExt

CONSTANTS
    MaxPids,   \* bound: processes ever spawned
    MaxRefs,   \* bound: refs ever handed out
    Names

ASSUME ProcAssumption == MaxPids \in Nat \ {0} /\ MaxRefs \in Nat

Pids == 0 .. MaxPids - 1
None == -1
NoName == "none"

\* The table of a scheduler with n processes.
NewTable(n) ==
    [alive |-> 0 .. n - 1,                  \* the live processes
     spawned |-> n,
     mbox |-> [p \in Pids |-> <<>>],
     save |-> [p \in Pids |-> <<>>],        \* messages a receive passed over
     pred |-> [p \in Pids |-> {}],          \* what a receive matches: {} is anything
     resume |-> [p \in Pids |-> <<>>],      \* the value handed to the pending yield
     links |-> [p \in Pids |-> {}],
     monitors |-> [p \in Pids |-> {}],      \* <<ref, target>>
     watchers |-> [p \in Pids |-> {}],      \* monitored-by: <<ref, watcher>>
     aliases |-> [p \in Pids |-> {}],
     trapping |-> [p \in Pids |-> FALSE],
     name |-> [p \in Pids |-> NoName],
     timerRef |-> [p \in Pids |-> None],    \* the deadline of a recv-timeout
     names |-> [n1 \in Names |-> None],
     io |-> {},                             \* processes with forwarded I/O
     timers |-> <<>>,                       \* [ref, left, pid, msg]
     ready |-> <<>>,
     waiting |-> <<>>,
     tired |-> 0,                           \* fuel-preempted: processes in ready that are refueling
     refs |-> 0,
     reason |-> [p \in Pids |-> "none"],    \* history: how a process exited
     downs |-> [r \in 0..MaxRefs |-> 0]]    \* history: :DOWN messages sent for a ref

Alive(t, p) == p \in t.alive

Deliver(t, p, m) == IF Alive(t, p) THEN [t EXCEPT !.mbox[p] = Append(@, m)] ELSE t

Resume(t, p, v) ==
    IF Alive(t, p) THEN [t EXCEPT !.resume[p] = v, !.ready = Append(@, p)] ELSE t

Spawn(t) == [t EXCEPT !.alive = @ \cup {t.spawned}, !.spawned = @ + 1,
                      !.ready = Append(@, t.spawned)]

FreshRef(t) == [t EXCEPT !.refs = @ + 1]

-----------------------------------------------------------------------------
(* Links, monitors and aliases.                                            *)

AddLink(t, a, b) == [t EXCEPT !.links[a] = @ \cup {b}, !.links[b] = @ \cup {a}]
RemoveLink(t, a, b) == [t EXCEPT !.links[a] = @ \ {b}, !.links[b] = @ \ {a}]

\* <<the table, what link answers>>.
Link(t, p, q) ==
    CASE Alive(t, q) -> <<AddLink(t, p, q), "ok">>
      [] ~Alive(t, q) /\ p \in t.links[q] -> <<t, "ok">>
      [] ~Alive(t, q) /\ p \notin t.links[q] /\ t.trapping[p] ->
             <<Deliver(t, p, <<"EXIT", q, "noproc">>), "ok">>
      [] OTHER -> <<t, "noproc">>

\* A slip: a process that is dead already is watched like any other.
WatchesTheDead(t, w, q) ==
    LET r == t.refs IN
    [FreshRef(t) EXCEPT !.monitors[w] = @ \cup {<<r, q>>}, !.watchers[q] = @ \cup {<<r, w>>}]

\* The ref of the new monitor is t.refs.
AddMonitor(t, w, q) ==
    LET r == t.refs IN
    IF Alive(t, q)
    THEN [FreshRef(t) EXCEPT !.monitors[w] = @ \cup {<<r, q>>}, !.watchers[q] = @ \cup {<<r, w>>}]
    ELSE Deliver([FreshRef(t) EXCEPT !.downs[r] = @ + 1], w, <<"DOWN", r, q, "noproc">>)

\* A slip: the other side of the monitor is left in place.
HalfRemoved(t, r, w) == [t EXCEPT !.monitors[w] = {m \in @ : m[1] # r}]

RemoveMonitor(t, r, w) ==
    LET Q == {m[2] : m \in {n \in t.monitors[w] : n[1] = r}} IN
    [t EXCEPT !.monitors[w] = {m \in @ : m[1] # r},
              !.watchers = [q \in Pids |-> IF q \in Q /\ Alive(t, q)
                                           THEN {m \in @[q] : m[1] # r} ELSE @[q]]]

FlushTagged(t, p, tag, r) ==
    LET Keeps(m) == ~(Len(m) > 1 /\ m[1] = tag /\ m[2] = r) IN
    [t EXCEPT !.mbox[p] = SelectSeq(@, Keeps), !.save[p] = SelectSeq(@, Keeps)]

AddAlias(t, p) == [FreshRef(t) EXCEPT !.aliases[p] = @ \cup {t.refs}]

\* unalias, and the reply that came before it.
RemoveAlias(t, p, r) == FlushTagged([t EXCEPT !.aliases[p] = @ \ {r}], p, "reply", r)

Reply(t, p, r) == IF r \in t.aliases[p] THEN Deliver(t, p, <<"reply", r>>) ELSE t

-----------------------------------------------------------------------------
(* Exits.                                                                  *)

Normal(reason) == reason = "normal"

\* unregister-name: whoever holds the name now loses it.
UnregisterName(t, p) ==
    IF t.name[p] = NoName THEN t
    ELSE [t EXCEPT !.names[t.name[p]] = None, !.name[p] = NoName]

NotifyMonitors(t, p, reason) ==
    LET Tell(m, u) ==
            IF ~Alive(u, m[2]) THEN u
            ELSE [Deliver(u, m[2], <<"DOWN", m[1], p, reason>>)
                    EXCEPT !.downs[m[1]] = @ + 1,
                           !.monitors[m[2]] = {n \in @ : n[1] # m[1]}] IN
    FoldLeft(LAMBDA u, m : Tell(m, u), t, SetToSeq(t.watchers[p]))

\* A slip: an exit ends with the first process it reaches.
StopsAtFirst(t, p) == IF t.links[p] = {} THEN <<>> ELSE <<CHOOSE q \in t.links[p] : TRUE>>

LinkedOf(t, p) == SetToSeq(t.links[p])

RECURSIVE ProcessExit(_, _, _)
ProcessExit(t, p, reason) ==
    LET gone == UnregisterName([t EXCEPT !.alive = @ \ {p}, !.io = @ \ {p}, !.reason[p] = reason], p)
        Signal(u, q) ==
            CASE ~Alive(u, q) -> u
              [] Alive(u, q) /\ u.trapping[q] -> Deliver(u, q, <<"EXIT", p, reason>>)
              [] Alive(u, q) /\ ~u.trapping[q] /\ ~Normal(reason) -> ProcessExit(u, q, "linked")
              [] OTHER -> u IN
    IF ~Alive(t, p) THEN t
    ELSE NotifyMonitors(FoldLeft(Signal, gone, LinkedOf(gone, p)), p, reason)

ShutdownIdle(t) ==
    [FoldLeft(LAMBDA u, p : ProcessExit(u, p, "shutdown"), t, SetToSeq(Pids)) EXCEPT !.waiting = <<>>]

-----------------------------------------------------------------------------
(* Timers.                                                                 *)

AddTimer(t, ticks, p, m) ==
    [FreshRef(t) EXCEPT !.timers = Append(@, [ref |-> t.refs, left |-> ticks, pid |-> p, msg |-> m])]

HasTimer(t, r) == \E i \in DOMAIN t.timers : t.timers[i].ref = r
CancelTimer(t, r) == [t EXCEPT !.timers = SelectSeq(@, LAMBDA x : x.ref # r)]

Advance(t, n) == [t EXCEPT !.timers = [i \in DOMAIN @ |-> [@[i] EXCEPT !.left = @ - n]]]

\* A recv-timeout's timer speaks only while it is that process's deadline.
FireTimers(t) ==
    LET Due(x) == x.left <= 0
        Fire(u, x) ==
            CASE x.msg # <<"timeout">> -> Deliver(u, x.pid, x.msg)
              [] x.msg = <<"timeout">> /\ u.timerRef[x.pid] = x.ref ->
                     Deliver([u EXCEPT !.timerRef[x.pid] = None], x.pid, x.msg)
              [] OTHER -> u IN
    FoldLeft(Fire, [t EXCEPT !.timers = SelectSeq(@, LAMBDA x : ~Due(x))], SelectSeq(t.timers, Due))

Earliest(t) == CHOOSE n \in {t.timers[i].left : i \in DOMAIN t.timers} :
                   \A i \in DOMAIN t.timers : n <= t.timers[i].left

-----------------------------------------------------------------------------
(* Receives.                                                               *)

Matches(pred, m) == pred = {} \/ (Len(m) > 1 /\ <<m[1], m[2]>> \in pred)

\* The first message of the mailbox that matches, as its index; 0 if none does.
FirstMatch(t, p, pred) ==
    SelectInSeq(t.mbox[p], LAMBDA m : Matches(pred, m))

\* A slip: the messages a receive passed over go behind the ones that came later.
SavedBehind(t, p, i) ==
    SubSeq(t.mbox[p], i + 1, Len(t.mbox[p])) \o t.save[p] \o SubSeq(t.mbox[p], 1, i - 1)

SavedInFront(t, p, i) ==
    t.save[p] \o SubSeq(t.mbox[p], 1, i - 1) \o SubSeq(t.mbox[p], i + 1, Len(t.mbox[p]))

\* scan-mbox and restore-save-queue: a match leaves the mailbox as it was without
\* it, no match leaves everything in the save queue.  Without a predicate a
\* receive looks at the head of the mailbox alone.
Take(t, p, pred, i) ==
    [t EXCEPT !.mbox[p] = IF pred = {} THEN Tail(@) ELSE SavedInFront(t, p, i),
              !.save[p] = IF pred = {} THEN @ ELSE <<>>,
              !.pred[p] = IF pred = {} THEN @ ELSE {}]
PassOver(t, p, pred) ==
    IF pred = {} THEN t
    ELSE [t EXCEPT !.save[p] = @ \o t.mbox[p], !.mbox[p] = <<>>]

WaitForMessage(t, p, pred) ==
    LET i == FirstMatch(t, p, pred) IN
    IF i = 0 THEN [PassOver(t, p, pred) EXCEPT !.pred[p] = pred, !.waiting = Append(@, p)]
    ELSE Resume(Take(t, p, pred, i), p, t.mbox[p][i])

\* A slip: a process whose message came stays on the list.
StaysWaiting(t, p) == [t EXCEPT !.timerRef[p] = None, !.waiting = Append(@, p)]

\* The receive is over, and its deadline with it.
EndWait(t, p) == [t EXCEPT !.timerRef[p] = None]

WakeWaiting(t) ==
    LET Look(u, p) ==
            LET i == FirstMatch(u, p, u.pred[p]) IN
            CASE ~Alive(u, p) -> u
              [] Alive(u, p) /\ i = 0 -> [PassOver(u, p, u.pred[p]) EXCEPT !.waiting = Append(@, p)]
              [] OTHER -> Resume(EndWait(Take(u, p, u.pred[p], i), p), p, u.mbox[p][i]) IN
    FoldLeft(Look, [t EXCEPT !.waiting = <<>>], t.waiting)

-----------------------------------------------------------------------------
(* The commands that do more than one thing (lib/process/commands.lisp).   *)
(* Each queues the process that made it, unless it blocks or is dead.      *)

RecvTimeout(t, p, ticks) ==
    IF t.mbox[p] # <<>> THEN WaitForMessage(t, p, {})
    ELSE [AddTimer(WaitForMessage(t, p, {}), ticks, p, <<"timeout">>) EXCEPT !.timerRef[p] = t.refs]

Demonitor(t, p, r, flush) ==
    LET u == RemoveMonitor(t, r, p) IN
    Resume(IF flush THEN FlushTagged(u, p, "DOWN", r) ELSE u, p, <<"ok">>)

\* exit: a process that traps exits is told, unless the reason is "kill".
Exit(t, p, q, reason) ==
    Resume(CASE q = p -> ProcessExit(t, p, reason)
             [] q # p /\ Alive(t, q) /\ t.trapping[q] /\ reason # "kill" ->
                    Deliver(t, q, <<"EXIT", p, reason>>)
             [] q # p /\ Alive(t, q) /\ ~(t.trapping[q] /\ reason # "kill") ->
                    ProcessExit(t, q, "killed")
             [] OTHER -> t, p, <<"ok">>)

Register(t, p, n) == Resume([t EXCEPT !.names[n] = p, !.name[p] = n], p, <<"ok">>)
Unregister(t, p, n) == Resume([t EXCEPT !.names[n] = None, !.name[p] = NoName], p, <<"ok">>)
=============================================================================
