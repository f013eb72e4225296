------------------------------- MODULE Channel ------------------------------
(***************************************************************************)
(* Channels (src/primitives/chan.rs, chan/): the queue with its two kinds  *)
(* of halves, the wake list each channel carries, and chan/select, which   *)
(* parks a fiber on a wake fd registered in every list it selects over.    *)
(*                                                                         *)
(* Producers and selectors run on OS threads of their own, so an action is *)
(* what one of them does between two accesses to shared memory.  The queue *)
(* is crossbeam's; it and the poll of a wake fd are the environment.       *)
(***************************************************************************)
EXTENDS Naturals, Sequences, FiniteSets

CONSTANTS
    Channels,
    Producers,    \* holders of senders
    Selectors,    \* fibers that call chan/select
    Watch,        \* selector -> the channels it selects over
    Cap,          \* channel -> its capacity
    MaxSends,     \* bound: messages sent
    Bounded,      \* selectors whose call has a :timeout or :deadline
    Fds,          \* descriptors the process can have open
    None

ASSUME ChannelAssumption ==
    /\ Watch \in [Selectors -> (SUBSET Channels) \ {{}}]
    /\ Cap \in [Channels -> Nat]
    /\ MaxSends \in Nat
    /\ Bounded \subseteq Selectors
    /\ Fds \subseteq Nat /\ IsFiniteSet(Fds)
    /\ None \notin Fds \cup Channels \cup Selectors

VARIABLES
    buf,       \* channel -> the messages in it, oldest first
    tx,        \* producer -> the channels whose sender half it holds open
    rx,        \* selector -> the channels whose receiver half it holds open
    sent,      \* messages sent so far; each message is its number
    list,      \* channel -> wake_fds: the descriptors in its wake list
    flag,      \* channels whose nonempty flag is set
    owner,     \* fd -> the selector whose guard owns it, None when closed
    signalled, \* descriptors with a wake written to them
    late,      \* selectors whose deadline has passed
    prod,      \* producer -> [at, chan]: where its thread is
    sel,       \* selector -> [at, fd, todo]: where its fiber is
    answer     \* selector -> the answer to its last call

queueVars == <<buf, tx, rx, sent>>
wakeVars  == <<list, flag, owner, signalled>>
vars == <<buf, tx, rx, sent, list, flag, owner, signalled, late, prod, sel,
          answer>>

AtRest == [at |-> "idle", fd |-> None, todo |-> {}]
Ready  == [at |-> "ready", chan |-> None]

\* Every sender half is dropped.
Hung(c) == \A p \in Producers : c \notin tx[p]
AllOpen(s) == Watch[s] \subseteq rx[s]

\* Fresh channels, whose senders are held as `holds` says.
InitWith(holds) ==
    /\ buf = [c \in Channels |-> <<>>]
    /\ tx = holds
    /\ rx = [s \in Selectors |-> Watch[s]]
    /\ sent = 0
    /\ list = [c \in Channels |-> {}]
    /\ flag = {}
    /\ owner = [f \in Fds |-> None]
    /\ signalled = {}
    /\ late = {}
    /\ prod = [p \in Producers |-> Ready]
    /\ sel = [s \in Selectors |-> AtRest]
    /\ answer = [s \in Selectors |-> <<"none">>]

-----------------------------------------------------------------------------
(* The wake list: WakeList::register, deregister and wake_all.             *)

\* Both are one critical section; the flag is stored before the unlock.
Register(s, c) ==
    /\ sel[s].at = "register"
    /\ c \in sel[s].todo
    /\ list' = [list EXCEPT ![c] = @ \cup {sel[s].fd}]
    /\ flag' = flag \cup {c}
    /\ sel' = [sel EXCEPT ![s] = [at |-> IF @.todo = {c} THEN "recheck" ELSE "register",
                                  fd |-> @.fd, todo |-> @.todo \ {c}]]
    /\ UNCHANGED <<queueVars, owner, signalled, late, prod, answer>>

\* A slip: the flag goes down with the first descriptor that leaves.
LowersFlag(c, f) == flag' = flag \ {c}

\* The flag goes down when the list is empty.
SettleFlag(c, f) == flag' = IF list[c] \subseteq {f} THEN flag \ {c} ELSE flag

Deregister(s, c) ==
    /\ sel[s].at = "drop"
    /\ c \in sel[s].todo
    /\ list' = [list EXCEPT ![c] = @ \ {sel[s].fd}]
    /\ SettleFlag(c, sel[s].fd)
    /\ sel' = [sel EXCEPT ![s].todo = @ \ {c}]
    /\ UNCHANGED <<queueVars, owner, signalled, late, prod, answer>>

\* The fast path of wake_all, outside the lock.
LoadFlag(p) ==
    /\ prod[p].at = "wake"
    /\ prod' = [prod EXCEPT ![p] = IF prod[p].chan \in flag
                                   THEN [@ EXCEPT !.at = "signal"] ELSE Ready]
    /\ UNCHANGED <<queueVars, wakeVars, late, sel, answer>>

\* The rest of wake_all, under the lock: a write to every descriptor listed.
SignalAll(p) ==
    /\ prod[p].at = "signal"
    /\ signalled' = signalled \cup list[prod[p].chan]
    /\ prod' = [prod EXCEPT ![p] = Ready]
    /\ UNCHANGED <<queueVars, list, flag, owner, late, sel, answer>>

-----------------------------------------------------------------------------
(* The sender's side.                                                      *)

\* A slip: the queue took the message, and nobody is told.
SendsQuietly(p, c) == prod' = prod

GoWake(p, c) == prod' = [prod EXCEPT ![p] = [at |-> "wake", chan |-> c]]

\* chan/send: try_send, then wake_all.  A send that finds the queue full or
\* every receiver closed changes nothing; capacity 0 is always full, because no
\* receive ever blocks in the queue.
Send(p, c) ==
    /\ prod[p] = Ready
    /\ c \in tx[p]
    /\ sent < MaxSends
    /\ Len(buf[c]) < Cap[c]
    /\ \E s \in Selectors : c \in rx[s]
    /\ sent' = sent + 1
    /\ buf' = [buf EXCEPT ![c] = Append(@, sent')]
    /\ GoWake(p, c)
    /\ UNCHANGED <<tx, rx, wakeVars, late, sel, answer>>

\* chan/clone, handed to another holder; a closed sender is refused.
Clone(p, q, c) ==
    /\ prod[p] = Ready
    /\ c \in tx[p]
    /\ tx' = [tx EXCEPT ![q] = @ \cup {c}]
    /\ UNCHANGED <<buf, rx, sent, wakeVars, late, prod, sel, answer>>

\* chan/close, of a sender closed before as well.
CloseTx(p, c) ==
    /\ prod[p] = Ready
    /\ tx' = [tx EXCEPT ![p] = @ \ {c}]
    /\ GoWake(p, c)
    /\ UNCHANGED <<buf, rx, sent, wakeVars, late, sel, answer>>

\* A sender freed with no chan/close: the half is dropped, nobody is woken.
DropTx(p, c) ==
    /\ prod[p] = Ready
    /\ c \in tx[p]
    /\ tx' = [tx EXCEPT ![p] = @ \ {c}]
    /\ UNCHANGED <<buf, rx, sent, wakeVars, late, prod, sel, answer>>

\* chan/close-recv by a fiber of the selector's thread, which runs only while
\* the selector is suspended.
CloseRx(p, s, c) ==
    /\ prod[p] = Ready
    /\ sel[s].at \in {"idle", "parked", "try"}
    /\ c \in rx[s]
    /\ rx' = [rx EXCEPT ![s] = @ \ {c}]
    /\ GoWake(p, c)
    /\ UNCHANGED <<buf, tx, sent, wakeVars, late, sel, answer>>

-----------------------------------------------------------------------------
(* chan/select, chan/try-select and chan/wait-ready.                       *)

\* chan/recv, by a fiber that holds a receiver and is not selecting.
Recv(s, c) ==
    /\ sel[s] = AtRest
    /\ c \in rx[s]
    /\ buf[c] # <<>>
    /\ buf' = [buf EXCEPT ![c] = Tail(@)]
    /\ UNCHANGED <<tx, rx, sent, wakeVars, late, prod, sel, answer>>

\* The call of chan/select; its bound starts to run.
Ask(s) ==
    /\ sel[s] = AtRest
    /\ sel' = [sel EXCEPT ![s].at = "try"]
    /\ late' = late \ {s}
    /\ answer' = [answer EXCEPT ![s] = <<"none">>]
    /\ UNCHANGED <<queueVars, wakeVars, prod>>

\* The clock passes the deadline.
Lapse(s) ==
    /\ s \in Bounded \ late
    /\ sel[s] # AtRest
    /\ late' = late \cup {s}
    /\ UNCHANGED <<queueVars, wakeVars, prod, sel, answer>>

\* crossbeam's Select::try_select over the receivers: a message of any ready
\* channel, or a disconnect; `to` is where the fiber goes with its answer.
Selected(s, to) ==
    /\ AllOpen(s)
    /\ \E c \in Watch[s] :
          \/ /\ buf[c] # <<>>
             /\ answer' = [answer EXCEPT ![s] = <<"message", Head(buf[c])>>]
             /\ buf' = [buf EXCEPT ![c] = Tail(@)]
          \/ /\ buf[c] = <<>> /\ Hung(c)
             /\ answer' = [answer EXCEPT ![s] = <<"disconnected">>]
             /\ UNCHANGED buf
    /\ sel' = [sel EXCEPT ![s] = to]
    /\ UNCHANGED <<tx, rx, sent>>

NothingReady(s) == \A c \in Watch[s] : buf[c] = <<>> /\ ~Hung(c)

\* chan/try-select finds something, or a receiver of its own closed.
TrySelect(s) ==
    /\ sel[s].at = "try"
    /\ \/ Selected(s, AtRest)
       \/ /\ ~AllOpen(s)
          /\ answer' = [answer EXCEPT ![s] = <<"error">>]
          /\ sel' = [sel EXCEPT ![s] = AtRest]
          /\ UNCHANGED queueVars
    /\ UNCHANGED <<wakeVars, late, prod>>

\* chan/try-select answers :empty; the loop looks at the clock next.
TryEmpty(s) ==
    /\ sel[s].at = "try"
    /\ AllOpen(s) /\ NothingReady(s)
    /\ sel' = [sel EXCEPT ![s].at = "check"]
    /\ UNCHANGED <<queueVars, wakeVars, late, prod, answer>>

TimesOut(s) ==
    /\ sel[s].at = "check"
    /\ s \in late
    /\ answer' = [answer EXCEPT ![s] = <<"timeout">>]
    /\ sel' = [sel EXCEPT ![s] = AtRest]
    /\ UNCHANGED <<queueVars, wakeVars, late, prod>>

\* make_wake_fd: the kernel answers the lowest free descriptor, or fails.
FreeFds == {f \in Fds : owner[f] = None}

MakeWakeFd(s) ==
    /\ sel[s].at = "check"
    /\ s \notin late
    /\ IF FreeFds = {}
       THEN /\ answer' = [answer EXCEPT ![s] = <<"error">>]
            /\ sel' = [sel EXCEPT ![s] = AtRest]
            /\ UNCHANGED owner
       ELSE LET f == CHOOSE g \in FreeFds : \A h \in FreeFds : g <= h
            IN  /\ owner' = [owner EXCEPT ![f] = s]
                /\ sel' = [sel EXCEPT ![s] = [at |-> "register", fd |-> f,
                                              todo |-> Watch[s]]]
                /\ UNCHANGED answer
    /\ UNCHANGED <<queueVars, list, flag, signalled, late, prod>>

\* A slip: what came in while the list was being joined is not looked at.
ParksUnseen(s) == sel[s].at = "recheck"

\* Nothing for the re-check to answer: a closed receiver falls through too.
NothingToAnswer(s) == sel[s].at = "recheck" /\ (~AllOpen(s) \/ NothingReady(s))

\* The guard, on its way out: still registered in every list.
Dropping(s) == [at |-> "drop", fd |-> sel[s].fd, todo |-> Watch[s]]

\* chan/wait-ready after it registered: an answer, or the park.
Recheck(s) ==
    /\ sel[s].at = "recheck"
    /\ Selected(s, Dropping(s))
    /\ UNCHANGED <<wakeVars, late, prod>>

Park(s) ==
    /\ NothingToAnswer(s)
    /\ sel' = [sel EXCEPT ![s].at = "parked"]
    /\ UNCHANGED <<queueVars, wakeVars, late, prod, answer>>

\* The poll of the wake fd ends: it is readable, or the bound passed.  The
\* completion drops the guard before the fiber is resumed.
Unpark(s) ==
    /\ sel[s].at = "parked"
    /\ sel[s].fd \in signalled \/ s \in late
    /\ sel' = [sel EXCEPT ![s] = Dropping(s)]
    /\ UNCHANGED <<queueVars, wakeVars, late, prod, answer>>

\* The parked fiber is aborted; its operation is cancelled, or never submitted.
Abort(s) ==
    /\ sel[s].at = "parked"
    /\ sel' = [sel EXCEPT ![s] = Dropping(s)]
    /\ answer' = [answer EXCEPT ![s] = <<"aborted">>]
    /\ UNCHANGED <<queueVars, wakeVars, late, prod>>

\* A slip: the descriptor is closed while some list still names it.
ClosesEarly(s) == sel[s].at = "drop"

\* Every list has been left.
Unlisted(s) == sel[s].at = "drop" /\ sel[s].todo = {}

\* The rest of ChanSelectGuard::drop: a last signal, and close.  An unanswered
\* fiber tries again.
CloseFd(s) ==
    /\ Unlisted(s)
    /\ owner' = [owner EXCEPT ![sel[s].fd] = None]
    /\ signalled' = signalled \ {sel[s].fd}
    /\ sel' = [sel EXCEPT ![s] = IF answer[s] = <<"none">>
                                 THEN [AtRest EXCEPT !.at = "try"] ELSE AtRest]
    /\ UNCHANGED <<queueVars, list, flag, late, prod, answer>>

-----------------------------------------------------------------------------
WakeStep(p) == LoadFlag(p) \/ SignalAll(p)

SelectStep(s) ==
    \/ TrySelect(s) \/ TryEmpty(s) \/ TimesOut(s) \/ MakeWakeFd(s)
    \/ \E c \in Channels : Register(s, c) \/ Deregister(s, c)
    \/ Recheck(s) \/ Park(s) \/ Unpark(s) \/ CloseFd(s)

\* Traffic of the producers P and the selectors S over the channels C.
Traffic(P, S, C) ==
    \/ \E p \in P, c \in C :
          \/ Send(p, c) \/ CloseTx(p, c)
          \/ \E q \in P : Clone(p, q, c)
          \/ \E s \in S : CloseRx(p, s, c)
    \/ \E s \in S : Ask(s) \/ \E c \in C : Recv(s, c)

\* What every program does once it is inside a primitive.
Inside ==
    \/ \E p \in Producers : WakeStep(p)
    \/ \E s \in Selectors : SelectStep(s) \/ Lapse(s) \/ Abort(s)
=============================================================================
