---------------------------- MODULE ThreadsProofs ----------------------------
(***************************************************************************)
(* Channels, chan/select and sys/join are right for every number of        *)
(* channels, threads, fibers and descriptors, and every choice of what a   *)
(* select watches.                                                         *)
(***************************************************************************)
EXTENDS ThreadsProps, WellFoundedInduction, TLAPS

\* Where a fiber inside chan/select owns no wake fd, and where it owns one.
Bare    == {"idle", "try", "check"}
Guarded == {"register", "recheck", "parked", "drop"}

Calls == [at : Bare \cup Guarded, fd : Fds \cup {None}, todo : SUBSET Channels]

Stages == {"absent", "running", "store", "finalize", "signal", "ended", "gone"}

QueuesTyped ==
    /\ buf \in [Channels -> Seq(Nat)]
    /\ tx \in [Producers -> SUBSET Channels]
    /\ rx \in [Selectors -> SUBSET Channels]
    /\ sent \in Nat

WakesTyped ==
    /\ list \in [Channels -> SUBSET Fds]
    /\ flag \subseteq Channels
    /\ owner \in [Fds -> Selectors \cup {None}]
    /\ signalled \subseteq Fds

CallsTyped ==
    /\ late \subseteq Bounded
    /\ prod \in [Producers -> {Ready} \cup [at : {"wake", "signal"}, chan : Channels]]
    /\ sel \in [Selectors -> Calls]
    /\ DOMAIN answer = Selectors

ThreadTyped ==
    /\ work \in Stages
    /\ result \in Outcomes \cup {"none"} /\ slot \in Outcomes \cup {"none"}
    /\ join \in [Joiners -> {"idle", "pending", "selecting"}]
    /\ DOMAIN joined = Joiners

ThreadsTypeOK == QueuesTyped /\ WakesTyped /\ CallsTyped /\ ThreadTyped

\* A call owns a wake fd exactly while it is inside its guard, and every open
\* descriptor has one owner.
GuardsPaired ==
    /\ \A s \in Selectors :
          /\ sel[s].at \in Bare => sel[s].fd = None
          /\ sel[s].at \in Guarded => sel[s].fd \in Fds /\ owner[sel[s].fd] = s
          /\ sel[s].at \notin {"register", "drop"} => sel[s].todo = {}
          /\ sel[s].todo \subseteq Watch[s]
    /\ \A f \in Fds : owner[f] # None => sel[owner[f]].fd = f
    /\ \A f \in signalled : owner[f] # None

\* The channels in whose lists the wake fd of a call is.
Listed(s) == CASE sel[s].at = "register" -> Watch[s] \ sel[s].todo
               [] sel[s].at \in {"recheck", "parked"} -> Watch[s]
               [] sel[s].at = "drop" -> sel[s].todo
               [] OTHER -> {}

\* A wake list holds the wake fds of the calls that registered and have not
\* left, and the flag tells whether it holds any.
ListsExact ==
    /\ \A c \in Channels : \A f \in list[c] : owner[f] # None /\ c \in Listed(owner[f])
    /\ \A s \in Selectors : \A c \in Listed(s) : sel[s].fd \in list[c]
    /\ \A c \in Channels : c \in flag <=> list[c] # {}

\* A call that has not left its guard on the way out has no answer yet, and
\* between its first look and the park nobody closes its receivers.
CallsOpen ==
    \A s \in Selectors :
        /\ sel[s].at \in {"try", "check", "register", "recheck", "parked"} =>
               answer[s] = <<"none">>
        /\ sel[s].at \in {"check", "register", "recheck"} => AllOpen(s)

ChannelInv == GuardsPaired /\ ListsExact /\ CallsOpen

\* Only the worker holds the completion channel's sender, until it exits; with a
\* worker there is no other traffic, and without one nobody joins.
WorkerAlone ==
    /\ \A p \in Producers \ {Worker} : Done \notin tx[p]
    /\ work \in Stages \ {"absent", "gone"} => Done \in tx[Worker]
    /\ work # "absent" =>
           /\ tx[Worker] \subseteq {Done}
           /\ \A p \in Producers \ {Worker} : tx[p] = {}
           /\ \A s \in Selectors \ Joiners : sel[s].at = "idle"
    /\ work = "absent" => \A s \in Joiners : join[s] = "idle"

\* The outcome is stored before the sentinel is sent, and stays.
StoredFirst ==
    /\ work \in {"absent", "running", "store"} => slot = "none"
    /\ work \in {"signal", "ended", "gone"} => slot # "none"
    /\ work \notin {"ended", "gone"} => buf[Done] = <<>>

\* A joiner selects inside sys/join only, and an answer that is not its own
\* bound, abort or failure comes after the outcome.
JoinsPaired ==
    \A s \in Joiners :
        /\ join[s] # "selecting" => sel[s].at = "idle"
        /\ join[s] = "selecting" /\ slot = "none" =>
               answer[s] \in {<<"none">>, <<"timeout">>, <<"aborted">>, <<"error">>}
        /\ join[s] = "selecting" /\ sel[s].at = "idle" => answer[s] # <<"none">>

JoinInv == WorkerAlone /\ StoredFirst /\ JoinsPaired /\ JoinAnswersOutcome

ThreadsInv == ThreadsTypeOK /\ ChannelInv /\ JoinInv

\* No fiber joins the thread while another does.
OneJoiner == \A s, t \in Joiners : s = t

\* The sentinel is in the channel until the one joiner has taken it.
SentinelWaits ==
    work \in {"ended", "gone"} =>
        \A s \in Joiners :
            join[s] = "pending" \/ (join[s] = "selecting" /\ answer[s] = <<"none">>)
                => buf[Done] # <<>>

WakeInv == ThreadsInv /\ SentinelWaits /\ NoLostWake

-----------------------------------------------------------------------------
\* What a step does to the channels, whoever takes it.
ProducerDoes(p) ==
    \/ LoadFlag(p) \/ SignalAll(p)
    \/ \E c \in Channels :
          \/ Send(p, c) \/ CloseTx(p, c) \/ DropTx(p, c)
          \/ \E q \in Producers : Clone(p, q, c)
          \/ \E s \in Selectors : CloseRx(p, s, c)

SelectorDoes(s) ==
    \/ Ask(s) \/ Lapse(s) \/ TrySelect(s) \/ TryEmpty(s) \/ TimesOut(s)
    \/ MakeWakeFd(s) \/ Recheck(s) \/ Park(s) \/ Unpark(s) \/ Abort(s) \/ CloseFd(s)
    \/ \E c \in Channels : Register(s, c) \/ Deregister(s, c) \/ Recv(s, c)

ChannelStep ==
    \/ \E p \in Producers : ProducerDoes(p)
    \/ \E s \in Selectors : SelectorDoes(s)
    \/ UNCHANGED vars

\* Every step of the threads is a step of the channels, or leaves them alone.
LEMMA StepsOfChannels == [Next]_allVars => ChannelStep
<1> USE ThreadsAssumption
<1> SUFFICES ASSUME [Next]_allVars PROVE ChannelStep
  OBVIOUS
<1>1. ASSUME Traffic(Producers \ {Worker}, Selectors \ Joiners, Channels \ {Done})
      PROVE  ChannelStep
  BY <1>1, Zenon DEF Traffic, ChannelStep, ProducerDoes, SelectorDoes
<1>2. ASSUME Inside PROVE ChannelStep
  BY <1>2, Zenon DEF Inside, WakeStep, SelectStep, ChannelStep, ProducerDoes, SelectorDoes
<1>3. ASSUME WorkerStep \/ Kill PROVE ChannelStep
  BY <1>3, Zenon DEF WorkerStep, BodyEnds, StoreOutcome, Finalize, SignalDone, ThreadExits,
     Kill, ChannelStep, ProducerDoes
<1>4. ASSUME NEW s \in Joiners, Join(s) \/ Await(s) \/ Settle(s) PROVE ChannelStep
  BY <1>4, Zenon DEF Join, Await, Settle, ChannelStep, SelectorDoes
<1>5. CASE UNCHANGED allVars
  BY <1>5, Zenon DEF allVars, ChannelStep
<1> QED BY <1>1, <1>2, <1>3, <1>4, <1>5, Zenon DEF Next

\* The kernel has a lowest free descriptor to answer with.
LEMMA LowestFree ==
    ASSUME FreeFds # {}
    PROVE  /\ (CHOOSE g \in FreeFds : \A h \in FreeFds : g <= h) \in FreeFds
           /\ FreeFds \subseteq Fds
<1>1. FreeFds \subseteq Nat /\ FreeFds \subseteq Fds
  BY ChannelAssumption DEF FreeFds
<1>2. PICK g \in FreeFds : \A h \in FreeFds : ~ (<<h, g>> \in OpToRel(<, Nat))
  BY <1>1, NatLessThanWellFounded, WFMin, Zenon
<1>3. \A h \in FreeFds : ~ (h < g)
  BY <1>1, <1>2, Zenon DEF OpToRel
<1>4. \A h \in FreeFds : g <= h
  BY <1>1, <1>3
<1> QED BY <1>1, <1>4

-----------------------------------------------------------------------------
\* What the channels keep for chan/select, and their types.
SelectInv == QueuesTyped /\ WakesTyped /\ CallsTyped /\ ChannelInv

\* The steps of a thread that holds senders keep the types.
LEMMA ProducerTypes ==
    ASSUME SelectInv, NEW p \in Producers, ProducerDoes(p)
    PROVE  (QueuesTyped /\ WakesTyped /\ CallsTyped)'
<1> USE DEF SelectInv, QueuesTyped, WakesTyped, CallsTyped
<1>1. ASSUME LoadFlag(p) PROVE (QueuesTyped /\ WakesTyped /\ CallsTyped)'
  BY <1>1 DEF LoadFlag, Ready, queueVars, wakeVars
<1>2. ASSUME SignalAll(p) PROVE (QueuesTyped /\ WakesTyped /\ CallsTyped)'
  <2>0. prod[p].chan \in Channels
    BY <1>2 DEF SignalAll, Ready
  <2>1. signalled' \subseteq Fds
    BY <1>2, <2>0 DEF SignalAll
  <2> QED BY <1>2, <2>1 DEF SignalAll, Ready, queueVars
<1>3. ASSUME NEW c \in Channels, Send(p, c) PROVE (QueuesTyped /\ WakesTyped /\ CallsTyped)'
  BY <1>3 DEF Send, GoWake, wakeVars
<1>4. ASSUME NEW c \in Channels, CloseTx(p, c) PROVE (QueuesTyped /\ WakesTyped /\ CallsTyped)'
  BY <1>4 DEF CloseTx, GoWake, wakeVars
<1>5. ASSUME NEW c \in Channels, DropTx(p, c) PROVE (QueuesTyped /\ WakesTyped /\ CallsTyped)'
  BY <1>5 DEF DropTx, wakeVars
<1>6. ASSUME NEW c \in Channels, NEW q \in Producers, Clone(p, q, c)
      PROVE  (QueuesTyped /\ WakesTyped /\ CallsTyped)'
  BY <1>6 DEF Clone, wakeVars
<1>7. ASSUME NEW c \in Channels, NEW s \in Selectors, CloseRx(p, s, c)
      PROVE  (QueuesTyped /\ WakesTyped /\ CallsTyped)'
  BY <1>7 DEF CloseRx, GoWake, wakeVars
<1> QED BY <1>1, <1>2, <1>3, <1>4, <1>5, <1>6, <1>7 DEF ProducerDoes

\* The answers a call ends with.
LEMMA SelectedCases ==
    ASSUME SelectInv, NEW s \in Selectors, NEW to, Selected(s, to)
    PROVE  /\ AllOpen(s)
           /\ sel' = [sel EXCEPT ![s] = to]
           /\ UNCHANGED <<tx, rx, sent>>
           /\ \E c \in Watch[s] :
                 \/ /\ buf[c] # <<>>
                    /\ buf' = [buf EXCEPT ![c] = Tail(buf[c])]
                    /\ answer' = [answer EXCEPT ![s] = <<"message", Head(buf[c])>>]
                 \/ /\ buf[c] = <<>> /\ Hung(c)
                    /\ buf' = buf
                    /\ answer' = [answer EXCEPT ![s] = <<"disconnected">>]
           /\ answer' = [answer EXCEPT ![s] = answer'[s]]
           /\ answer'[s] # <<"none">>
           /\ buf' \in [Channels -> Seq(Nat)]
<1> USE DEF SelectInv, QueuesTyped, CallsTyped
<1>1. PICK c \in Watch[s] :
          \/ /\ buf[c] # <<>>
             /\ answer' = [answer EXCEPT ![s] = <<"message", Head(buf[c])>>]
             /\ buf' = [buf EXCEPT ![c] = Tail(buf[c])]
          \/ /\ buf[c] = <<>> /\ Hung(c)
             /\ answer' = [answer EXCEPT ![s] = <<"disconnected">>]
             /\ buf' = buf
  BY Zenon DEF Selected
<1>2. c \in Channels
  BY <1>1, ChannelAssumption
<1>3. buf' \in [Channels -> Seq(Nat)]
  <2>1. buf[c] \in Seq(Nat)
    BY <1>2
  <2>2. buf[c] # <<>> => Tail(buf[c]) \in Seq(Nat)
    BY <2>1
  <2> QED BY <1>1, <1>2, <2>2
<1>4. answer' = [answer EXCEPT ![s] = answer'[s]]
  BY <1>1
<1>5. /\ <<"disconnected">> # <<"none">>
      /\ \A m : <<"message", m>> # <<"none">>
  OBVIOUS
<1>6. answer'[s] # <<"none">>
  BY <1>1, <1>5
<1> QED BY <1>1, <1>3, <1>4, <1>6, Zenon DEF Selected

\* The fiber of s goes to another place of chan/select, and no other fiber moves.
Moves(s, a, f, t) ==
    /\ sel' \in [Selectors -> Calls]
    /\ sel'[s].at = a /\ sel'[s].fd = f /\ sel'[s].todo = t
    /\ \A u \in Selectors \ {s} : sel'[u] = sel[u]

\* The ways the model writes such a move.
LEMMA MoveTo ==
    ASSUME sel \in [Selectors -> Calls], NEW s \in Selectors, NEW a \in Bare \cup Guarded,
           NEW f \in Fds \cup {None}, NEW t \in SUBSET Channels,
           sel' = [sel EXCEPT ![s] = [at |-> a, fd |-> f, todo |-> t]]
    PROVE  Moves(s, a, f, t)
BY DEF Moves, Calls

\* A move to another place alone.
LEMMA MoveAt ==
    ASSUME sel \in [Selectors -> Calls], NEW s \in Selectors, NEW a \in Bare \cup Guarded,
           sel' = [sel EXCEPT ![s].at = a]
    PROVE  Moves(s, a, sel[s].fd, sel[s].todo)
<1>1. sel[s] \in Calls
  OBVIOUS
<1>2. [sel[s] EXCEPT !.at = a] = [at |-> a, fd |-> sel[s].fd, todo |-> sel[s].todo]
  BY <1>1 DEF Calls
<1>3. sel' = [sel EXCEPT ![s] = [at |-> a, fd |-> sel[s].fd, todo |-> sel[s].todo]]
  BY <1>2
<1>4. sel[s].fd \in Fds \cup {None} /\ sel[s].todo \in SUBSET Channels
  BY <1>1 DEF Calls
<1> QED BY <1>3, <1>4, MoveTo

\* A channel less to look at.
LEMMA MoveTodo ==
    ASSUME sel \in [Selectors -> Calls], NEW s \in Selectors, NEW t \in SUBSET Channels,
           sel' = [sel EXCEPT ![s].todo = t]
    PROVE  Moves(s, sel[s].at, sel[s].fd, t)
<1>1. sel[s] \in Calls
  OBVIOUS
<1>2. [sel[s] EXCEPT !.todo = t] = [at |-> sel[s].at, fd |-> sel[s].fd, todo |-> t]
  BY <1>1 DEF Calls
<1>3. sel' = [sel EXCEPT ![s] = [at |-> sel[s].at, fd |-> sel[s].fd, todo |-> t]]
  BY <1>2
<1>4. sel[s].fd \in Fds \cup {None} /\ sel[s].at \in Bare \cup Guarded
  BY <1>1 DEF Calls
<1> QED BY <1>3, <1>4, MoveTo

\* Where each step of a selecting fiber takes it.
LEMMA SelectorMoves ==
    ASSUME SelectInv, NEW s \in Selectors
    PROVE  /\ sel[s] = AtRest <=> sel[s].at = "idle"
           /\ Ask(s) => Moves(s, "try", None, {})
           /\ TrySelect(s) \/ TimesOut(s) => Moves(s, "idle", None, {})
           /\ TryEmpty(s) => Moves(s, "check", None, {})
           /\ MakeWakeFd(s) /\ FreeFds = {} => Moves(s, "idle", None, {})
           /\ MakeWakeFd(s) /\ FreeFds # {} =>
                 \E f \in FreeFds : /\ owner' = [owner EXCEPT ![f] = s]
                                   /\ answer' = answer
                                   /\ Moves(s, "register", f, Watch[s])
           /\ \A c \in Channels : Register(s, c) =>
                 Moves(s, IF sel[s].todo = {c} THEN "recheck" ELSE "register",
                       sel[s].fd, sel[s].todo \ {c})
           /\ Recheck(s) \/ Unpark(s) \/ Abort(s) => Moves(s, "drop", sel[s].fd, Watch[s])
           /\ Park(s) => Moves(s, "parked", sel[s].fd, sel[s].todo)
           /\ \A c \in Channels : Deregister(s, c) =>
                 Moves(s, "drop", sel[s].fd, sel[s].todo \ {c})
           /\ CloseFd(s) /\ answer[s] = <<"none">> => Moves(s, "try", None, {})
           /\ CloseFd(s) /\ answer[s] # <<"none">> => Moves(s, "idle", None, {})
<1>1. /\ sel \in [Selectors -> Calls] /\ sel[s] \in Calls
      /\ sel[s].fd \in Fds \cup {None} /\ sel[s].todo \in SUBSET Channels
      /\ Watch[s] \in SUBSET Channels
  BY ChannelAssumption DEF SelectInv, CallsTyped, Calls
<1>2. sel[s].at \in Bare => sel[s].fd = None /\ sel[s].todo = {}
  BY DEF SelectInv, ChannelInv, GuardsPaired, Bare
<1>3. sel[s] = AtRest <=> sel[s].at = "idle"
  BY <1>1, <1>2 DEF AtRest, Calls, Bare
<1>4. Ask(s) => Moves(s, "try", None, {})
  BY <1>1, <1>2, <1>3, MoveAt DEF Ask, Bare
<1>5. sel' = [sel EXCEPT ![s] = AtRest] => Moves(s, "idle", None, {})
  BY <1>1, MoveTo DEF AtRest, Bare
<1>6. TrySelect(s) \/ TimesOut(s) => Moves(s, "idle", None, {})
  BY <1>5, Zenon DEF TrySelect, TimesOut, Selected
<1>7. TryEmpty(s) => Moves(s, "check", None, {})
  BY <1>1, <1>2, MoveAt DEF TryEmpty, Bare
<1>8. MakeWakeFd(s) /\ FreeFds = {} => Moves(s, "idle", None, {})
  BY <1>5, Zenon DEF MakeWakeFd
<1>9. ASSUME MakeWakeFd(s), FreeFds # {}
      PROVE  \E f \in FreeFds : /\ owner' = [owner EXCEPT ![f] = s]
                                /\ answer' = answer
                                /\ Moves(s, "register", f, Watch[s])
  <2> DEFINE f == CHOOSE g \in FreeFds : \A h \in FreeFds : g <= h
  <2>1. f \in FreeFds /\ f \in Fds
    BY <1>9, LowestFree
  <2>2. /\ owner' = [owner EXCEPT ![f] = s]
        /\ answer' = answer
        /\ sel' = [sel EXCEPT ![s] = [at |-> "register", fd |-> f, todo |-> Watch[s]]]
    BY <1>9, Zenon DEF MakeWakeFd
  <2> HIDE DEF f
  <2> QED BY <1>1, <2>1, <2>2, MoveTo DEF Guarded
<1>10. ASSUME NEW c \in Channels, Register(s, c)
       PROVE  Moves(s, IF sel[s].todo = {c} THEN "recheck" ELSE "register",
                    sel[s].fd, sel[s].todo \ {c})
  BY <1>1, <1>10, MoveTo DEF Register, Guarded
<1>11. Recheck(s) \/ Unpark(s) \/ Abort(s) => Moves(s, "drop", sel[s].fd, Watch[s])
  <2>1. sel' = [sel EXCEPT ![s] = Dropping(s)] => Moves(s, "drop", sel[s].fd, Watch[s])
    BY <1>1, MoveTo DEF Dropping, Guarded
  <2> QED BY <2>1, Zenon DEF Recheck, Unpark, Abort, Selected
<1>12. Park(s) => Moves(s, "parked", sel[s].fd, sel[s].todo)
  BY <1>1, MoveAt DEF Park, Guarded
<1>13. ASSUME NEW c \in Channels, Deregister(s, c)
       PROVE  Moves(s, "drop", sel[s].fd, sel[s].todo \ {c})
  BY <1>1, <1>13, MoveTodo DEF Deregister
<1>14. CloseFd(s) /\ answer[s] = <<"none">> => Moves(s, "try", None, {})
  <2>1. [AtRest EXCEPT !.at = "try"] = [at |-> "try", fd |-> None, todo |-> {}]
    BY DEF AtRest
  <2>2. CloseFd(s) /\ answer[s] = <<"none">> =>
            sel' = [sel EXCEPT ![s] = [at |-> "try", fd |-> None, todo |-> {}]]
    BY <2>1, Zenon DEF CloseFd
  <2> QED BY <1>1, <2>2, MoveTo DEF Bare
<1>15. CloseFd(s) /\ answer[s] # <<"none">> => Moves(s, "idle", None, {})
  BY <1>5, Zenon DEF CloseFd
<1> QED BY <1>3, <1>4, <1>6, <1>7, <1>8, <1>9, <1>10, <1>11, <1>12, <1>13, <1>14, <1>15, Zenon

\* The steps of a fiber that selects keep the types.
LEMMA SelectorTypes ==
    ASSUME SelectInv, NEW s \in Selectors, SelectorDoes(s)
    PROVE  (QueuesTyped /\ WakesTyped /\ CallsTyped)'
<1> USE SelectorMoves DEF SelectInv, QueuesTyped, WakesTyped, CallsTyped, Moves
<1>1. ASSUME Ask(s) PROVE (QueuesTyped /\ WakesTyped /\ CallsTyped)'
  BY <1>1 DEF Ask, queueVars, wakeVars
<1>2. ASSUME Lapse(s) PROVE (QueuesTyped /\ WakesTyped /\ CallsTyped)'
  BY <1>2 DEF Lapse, queueVars, wakeVars
<1>3. ASSUME TrySelect(s) PROVE (QueuesTyped /\ WakesTyped /\ CallsTyped)'
  <2>1. CASE Selected(s, AtRest)
    BY <1>3, <2>1, SelectedCases DEF TrySelect, wakeVars
  <2>2. CASE ~ Selected(s, AtRest)
    BY <1>3, <2>2 DEF TrySelect, wakeVars, queueVars
  <2> QED BY <2>1, <2>2
<1>4. ASSUME TryEmpty(s) PROVE (QueuesTyped /\ WakesTyped /\ CallsTyped)'
  BY <1>4 DEF TryEmpty, queueVars, wakeVars
<1>5. ASSUME TimesOut(s) PROVE (QueuesTyped /\ WakesTyped /\ CallsTyped)'
  BY <1>5 DEF TimesOut, queueVars, wakeVars
<1>6. ASSUME MakeWakeFd(s) PROVE (QueuesTyped /\ WakesTyped /\ CallsTyped)'
  <2>1. CASE FreeFds = {}
    BY <1>6, <2>1 DEF MakeWakeFd, queueVars
  <2>2. CASE FreeFds # {}
    <3>1. PICK f \in FreeFds : /\ owner' = [owner EXCEPT ![f] = s]
                              /\ answer' = answer
                              /\ Moves(s, "register", f, Watch[s])
      BY <1>6, <2>2, Zenon
    <3> QED BY <1>6, <3>1 DEF MakeWakeFd, queueVars
  <2> QED BY <2>1, <2>2
<1>7. ASSUME Recheck(s) PROVE (QueuesTyped /\ WakesTyped /\ CallsTyped)'
  BY <1>7, SelectedCases DEF Recheck, wakeVars
<1>8. ASSUME Park(s) PROVE (QueuesTyped /\ WakesTyped /\ CallsTyped)'
  BY <1>8 DEF Park, queueVars, wakeVars
<1>9. ASSUME Unpark(s) \/ Abort(s) PROVE (QueuesTyped /\ WakesTyped /\ CallsTyped)'
  BY <1>9 DEF Unpark, Abort, queueVars, wakeVars
<1>10. ASSUME CloseFd(s) PROVE (QueuesTyped /\ WakesTyped /\ CallsTyped)'
  BY <1>10 DEF CloseFd, queueVars
<1>11. ASSUME NEW c \in Channels, Register(s, c) PROVE (QueuesTyped /\ WakesTyped /\ CallsTyped)'
  <2>1. sel[s].fd \in Fds
    BY <1>11 DEF Register, ChannelInv, GuardsPaired, Guarded
  <2>2. list' \in [Channels -> SUBSET Fds] /\ flag' \subseteq Channels
    BY <1>11, <2>1 DEF Register
  <2>3. sel' \in [Selectors -> Calls]
    BY <1>11, Zenon
  <2> QED BY <1>11, <2>2, <2>3 DEF Register, queueVars
<1>12. ASSUME NEW c \in Channels, Deregister(s, c) PROVE (QueuesTyped /\ WakesTyped /\ CallsTyped)'
  BY <1>12 DEF Deregister, SettleFlag, queueVars
<1>13. ASSUME NEW c \in Channels, Recv(s, c) PROVE (QueuesTyped /\ WakesTyped /\ CallsTyped)'
  <2>1. buf[c] \in Seq(Nat) /\ buf[c] # <<>>
    BY <1>13 DEF Recv
  <2>2. Tail(buf[c]) \in Seq(Nat)
    BY <2>1
  <2>3. buf' \in [Channels -> Seq(Nat)]
    BY <1>13, <2>2 DEF Recv
  <2> QED BY <1>13, <2>3 DEF Recv, wakeVars
<1> QED BY <1>1, <1>2, <1>3, <1>4, <1>5, <1>6, <1>7, <1>8, <1>9, <1>10, <1>11, <1>12, <1>13
     DEF SelectorDoes

-----------------------------------------------------------------------------
\* The fields of a call that decide what ChannelInv says of it.
LEMMA ListedCases ==
    ASSUME SelectInv, NEW s \in Selectors
    PROVE  /\ sel[s].at \in Bare \cup Guarded
           /\ sel[s].at \in Bare => Listed(s) = {}
           /\ sel[s].at = "register" => Listed(s) = Watch[s] \ sel[s].todo
           /\ sel[s].at \in {"recheck", "parked"} => Listed(s) = Watch[s]
           /\ sel[s].at = "drop" => Listed(s) = sel[s].todo
BY DEF SelectInv, CallsTyped, Calls, Listed, Bare, Guarded

\* The steps of a thread that holds senders move no fiber and leave the lists
\* alone; a receiver is closed only while its fiber is suspended.
LEMMA ProducerKeeps ==
    ASSUME SelectInv, NEW p \in Producers, ProducerDoes(p)
    PROVE  /\ UNCHANGED <<sel, answer, late, list, flag, owner>>
           /\ signalled' = signalled \/ \E c \in Channels : signalled' = signalled \cup list[c]
           /\ \A s \in Selectors : AllOpen(s) /\ ~ AllOpen(s)' =>
                                      sel[s].at \in {"idle", "parked", "try"}
<1> USE DEF SelectInv, CallsTyped, QueuesTyped
<1>1. ASSUME NEW c \in Channels, NEW t \in Selectors, CloseRx(p, t, c)
      PROVE  \A s \in Selectors : AllOpen(s) /\ ~ AllOpen(s)' =>
                                      sel[s].at \in {"idle", "parked", "try"}
  BY <1>1 DEF CloseRx, AllOpen
<1>2. ASSUME UNCHANGED rx
      PROVE  \A s \in Selectors : AllOpen(s)' <=> AllOpen(s)
  BY <1>2 DEF AllOpen
<1>3. SignalAll(p) => prod[p].chan \in Channels
  BY DEF SignalAll, Ready
<1> QED BY <1>1, <1>2, <1>3, Zenon DEF ProducerDoes, LoadFlag, SignalAll, Send, CloseTx, DropTx,
     Clone, CloseRx, queueVars, wakeVars

\* What the threads with senders do keeps the selectors' invariant.
LEMMA ProducerInv ==
    ASSUME SelectInv, NEW p \in Producers, ProducerDoes(p)
    PROVE  SelectInv'
<1>1. (QueuesTyped /\ WakesTyped /\ CallsTyped)'
  BY ProducerTypes
<1>2. /\ UNCHANGED <<sel, answer, late, list, flag, owner>>
      /\ signalled' = signalled \/ \E c \in Channels : signalled' = signalled \cup list[c]
      /\ \A s \in Selectors : AllOpen(s) /\ ~ AllOpen(s)' =>
                                 sel[s].at \in {"idle", "parked", "try"}
  BY ProducerKeeps
<1>3. GuardsPaired'
  BY <1>2 DEF SelectInv, ChannelInv, GuardsPaired, ListsExact
<1>4. ListsExact'
  BY <1>2 DEF SelectInv, ChannelInv, ListsExact, Listed
<1>5. CallsOpen'
  BY <1>2 DEF SelectInv, ChannelInv, CallsOpen
<1> QED BY <1>1, <1>3, <1>4, <1>5 DEF SelectInv, ChannelInv

\* A move changes the lists its own fiber should be in, and no other's.
LEMMA MoveListed ==
    ASSUME SelectInv, NEW s \in Selectors, NEW a, NEW f, NEW t, Moves(s, a, f, t)
    PROVE  /\ \A u \in Selectors \ {s} : Listed(u)' = Listed(u)
           /\ a \in Bare => Listed(s)' = {}
           /\ a = "register" => Listed(s)' = Watch[s] \ t
           /\ a \in {"recheck", "parked"} => Listed(s)' = Watch[s]
           /\ a = "drop" => Listed(s)' = t
BY DEF Moves, Listed, Bare

\* A step that touches neither the guards nor the lists, and moves its fiber
\* between places that are registered alike.
LEMMA QuietMove ==
    ASSUME SelectInv, NEW s \in Selectors, NEW a \in Bare \cup Guarded, NEW f, NEW t,
           Moves(s, a, f, t), UNCHANGED <<list, flag, owner, signalled>>,
           a \in Bare => sel[s].at \in Bare /\ f = None,
           a \in Guarded => sel[s].at \in Guarded /\ f = sel[s].fd,
           a \notin {"register", "drop"} => t = {}, t \subseteq Watch[s],
           Listed(s)' = Listed(s)
    PROVE  GuardsPaired' /\ ListsExact'
<1>1. GuardsPaired'
  <2>1. \A u \in Selectors :
          /\ sel'[u].at \in Bare => sel'[u].fd = None
          /\ sel'[u].at \in Guarded => sel'[u].fd \in Fds /\ owner[sel'[u].fd] = u
          /\ sel'[u].at \notin {"register", "drop"} => sel'[u].todo = {}
          /\ sel'[u].todo \subseteq Watch[u]
    BY DEF Moves, SelectInv, ChannelInv, GuardsPaired
  <2>2. \A g \in Fds : owner[g] # None => sel'[owner[g]].fd = g
    <3> SUFFICES ASSUME NEW g \in Fds, owner[g] # None PROVE sel'[owner[g]].fd = g
      OBVIOUS
    <3>1. owner[g] \in Selectors /\ sel[owner[g]].fd = g
      BY DEF SelectInv, WakesTyped, ChannelInv, GuardsPaired
    <3>2. CASE owner[g] # s
      BY <3>1, <3>2 DEF Moves
    <3>3. CASE owner[g] = s
      <4>1. a \in Guarded
        BY <3>1, <3>3, ChannelAssumption DEF SelectInv, ChannelInv, GuardsPaired
      <4> QED BY <3>1, <3>3, <4>1 DEF Moves
    <3> QED BY <3>2, <3>3
  <2> QED BY <2>1, <2>2 DEF SelectInv, ChannelInv, GuardsPaired
<1>2. ListsExact'
  <2>1. \A u \in Selectors : Listed(u)' = Listed(u)
    BY MoveListed
  <2>2. \A u \in Selectors : \A c \in Listed(u)' : sel'[u].fd \in list[c]
    <3>1. a \in Bare => Listed(s) = {}
      BY MoveListed
    <3> QED BY <2>1, <3>1 DEF Moves, SelectInv, ChannelInv, ListsExact
  <2>3. \A c \in Channels : \A g \in list[c] : owner[g] \in Selectors
    BY DEF SelectInv, WakesTyped, ChannelInv, ListsExact
  <2> QED BY <2>1, <2>2, <2>3 DEF SelectInv, ChannelInv, ListsExact
<1> QED BY <1>1, <1>2

\* The other fibers keep their answers.
OthersKept(s) == \A u \in Selectors \ {s} : answer'[u] = answer[u]

\* The same for what is known of the answer and the receivers.
LEMMA MoveOpen ==
    ASSUME SelectInv, NEW s \in Selectors, NEW a, NEW f, NEW t, Moves(s, a, f, t),
           rx' = rx, OthersKept(s),
           a \in {"try", "check", "register", "recheck", "parked"} => answer'[s] = <<"none">>,
           a \in {"check", "register", "recheck"} => AllOpen(s)
    PROVE  CallsOpen'
<1>1. \A u \in Selectors : AllOpen(u)' <=> AllOpen(u)
  BY DEF AllOpen
<1> QED BY <1>1 DEF OthersKept, Moves, SelectInv, ChannelInv, CallsOpen

\* The steps of a fiber between two registered places, or two unregistered ones.
LEMMA QuietInv ==
    ASSUME SelectInv, NEW s \in Selectors,
           \/ Ask(s) \/ TrySelect(s) \/ TryEmpty(s) \/ TimesOut(s) \/ Recheck(s) \/ Park(s)
           \/ Unpark(s) \/ Abort(s) \/ (MakeWakeFd(s) /\ FreeFds = {})
    PROVE  ChannelInv'
<1>0. /\ DOMAIN answer = Selectors
      /\ <<"error">> # <<"none">> /\ <<"timeout">> # <<"none">> /\ <<"aborted">> # <<"none">>
      /\ sel[s].at \in {"try", "check", "register", "recheck", "parked"} => answer[s] = <<"none">>
      /\ sel[s].at \in {"check", "register", "recheck"} => AllOpen(s)
      /\ sel[s].at \notin {"register", "drop"} => sel[s].todo = {}
  BY DEF SelectInv, CallsTyped, ChannelInv, CallsOpen, GuardsPaired
<1>1. ASSUME Ask(s) PROVE ChannelInv'
  <2>1. Moves(s, "try", None, {}) /\ UNCHANGED <<list, flag, owner, signalled, rx>>
    BY <1>1, SelectorMoves, Zenon DEF Ask, wakeVars, queueVars
  <2>2. sel[s].at = "idle" /\ answer'[s] = <<"none">> /\ OthersKept(s)
    BY <1>0, <1>1, SelectorMoves DEF Ask, OthersKept
  <2>3. GuardsPaired' /\ ListsExact'
    <3>1. Listed(s)' = Listed(s)
      BY <2>1, <2>2, ListedCases, MoveListed DEF Bare
    <3> QED BY <1>0, <2>1, <2>2, <3>1, QuietMove DEF Bare, Guarded
  <2>4. CallsOpen'
    BY <2>1, <2>2, MoveOpen
  <2> QED BY <2>3, <2>4 DEF ChannelInv
<1>2. ASSUME TrySelect(s) \/ TimesOut(s) \/ (MakeWakeFd(s) /\ FreeFds = {}) PROVE ChannelInv'
  <2>1. Moves(s, "idle", None, {})
    BY <1>2, SelectorMoves, Zenon
  <2>2. UNCHANGED <<list, flag, owner, signalled, rx>> /\ sel[s].at \in Bare
    BY <1>2, Zenon DEF TrySelect, TimesOut, MakeWakeFd, Selected, wakeVars, queueVars, Bare
  <2>3. OthersKept(s)
    <3>1. CASE Selected(s, AtRest)
      <4>1. \E a : answer' = [answer EXCEPT ![s] = a]
        BY <3>1, SelectedCases, Zenon
      <4> QED BY <1>0, <4>1 DEF OthersKept
    <3>2. CASE \E a : answer' = [answer EXCEPT ![s] = a]
      BY <1>0, <3>2 DEF OthersKept
    <3> QED BY <1>2, <3>1, <3>2, Zenon DEF TrySelect, TimesOut, MakeWakeFd
  <2>4. GuardsPaired' /\ ListsExact'
    <3>1. Listed(s)' = Listed(s)
      BY <2>1, <2>2, ListedCases, MoveListed DEF Bare
    <3> QED BY <1>0, <2>1, <2>2, <3>1, QuietMove DEF Bare, Guarded
  <2>5. CallsOpen'
    BY <2>1, <2>2, <2>3, MoveOpen
  <2> QED BY <2>4, <2>5 DEF ChannelInv
<1>3. ASSUME TryEmpty(s) PROVE ChannelInv'
  <2>1. Moves(s, "check", None, {}) /\ UNCHANGED <<list, flag, owner, signalled, rx, answer>>
    BY <1>3, SelectorMoves, Zenon DEF TryEmpty, wakeVars, queueVars
  <2>2. sel[s].at = "try" /\ AllOpen(s)
    BY <1>3 DEF TryEmpty
  <2>3. GuardsPaired' /\ ListsExact'
    <3>1. Listed(s)' = Listed(s)
      BY <2>1, <2>2, ListedCases, MoveListed DEF Bare
    <3> QED BY <1>0, <2>1, <2>2, <3>1, QuietMove DEF Bare, Guarded
  <2>4. CallsOpen'
    BY <1>0, <2>1, <2>2, MoveOpen DEF OthersKept
  <2> QED BY <2>3, <2>4 DEF ChannelInv
<1>4. ASSUME Recheck(s) \/ Unpark(s) \/ Abort(s) PROVE ChannelInv'
  <2>1. Moves(s, "drop", sel[s].fd, Watch[s])
    BY <1>4, SelectorMoves, Zenon
  <2>2. UNCHANGED <<list, flag, owner, signalled, rx>> /\ sel[s].at \in {"recheck", "parked"}
    BY <1>4, Zenon DEF Recheck, Unpark, Abort, Selected, wakeVars, queueVars
  <2>3. OthersKept(s)
    <3>1. CASE Selected(s, Dropping(s))
      <4>1. \E a : answer' = [answer EXCEPT ![s] = a]
        BY <3>1, SelectedCases, Zenon
      <4> QED BY <1>0, <4>1 DEF OthersKept
    <3>2. CASE answer' = answer \/ \E a : answer' = [answer EXCEPT ![s] = a]
      BY <1>0, <3>2 DEF OthersKept
    <3> QED BY <1>4, <3>1, <3>2, Zenon DEF Recheck, Unpark, Abort
  <2>4. GuardsPaired' /\ ListsExact'
    <3>1. Listed(s)' = Listed(s)
      BY <2>1, <2>2, ListedCases, MoveListed DEF Bare
    <3> QED BY <1>0, <2>1, <2>2, <3>1, QuietMove DEF Bare, Guarded
  <2>5. CallsOpen'
    BY <2>1, <2>2, <2>3, MoveOpen
  <2> QED BY <2>4, <2>5 DEF ChannelInv
<1>5. ASSUME Park(s) PROVE ChannelInv'
  <2>1. Moves(s, "parked", sel[s].fd, sel[s].todo) /\ UNCHANGED <<list, flag, owner, signalled, rx, answer>>
    BY <1>5, SelectorMoves, Zenon DEF Park, wakeVars, queueVars
  <2>2. sel[s].at = "recheck"
    BY <1>5 DEF Park, NothingToAnswer
  <2>3. GuardsPaired' /\ ListsExact'
    <3>1. Listed(s)' = Listed(s)
      BY <2>1, <2>2, ListedCases, MoveListed DEF Bare
    <3> QED BY <1>0, <2>1, <2>2, <3>1, QuietMove DEF Bare, Guarded
  <2>4. CallsOpen'
    BY <1>0, <2>1, <2>2, MoveOpen DEF OthersKept
  <2> QED BY <2>3, <2>4 DEF ChannelInv
<1> QED BY <1>1, <1>2, <1>3, <1>4, <1>5

\* The wake fd is made: nobody owned it, and no list had it.
LEMMA MakeWakeFdInv ==
    ASSUME SelectInv, NEW s \in Selectors, MakeWakeFd(s), FreeFds # {}
    PROVE  ChannelInv'
<1> USE DEF SelectInv
<1>1. PICK f \in FreeFds : /\ owner' = [owner EXCEPT ![f] = s]
                          /\ answer' = answer
                          /\ Moves(s, "register", f, Watch[s])
  BY SelectorMoves, Zenon
<1>2. /\ f \in Fds /\ owner[f] = None /\ f \notin signalled
      /\ \A c \in Channels : f \notin list[c]
  BY DEF FreeFds, ChannelInv, GuardsPaired, ListsExact
<1>3. /\ UNCHANGED <<list, flag, signalled, rx>>
      /\ sel[s].at = "check" /\ sel[s].fd = None /\ AllOpen(s) /\ answer[s] = <<"none">>
  BY DEF MakeWakeFd, queueVars, ChannelInv, GuardsPaired, CallsOpen, Bare
<1>4. \A g \in Fds \ {f} : owner'[g] = owner[g] /\ owner[g] # s
  BY <1>1, <1>3, ChannelAssumption DEF WakesTyped, ChannelInv, GuardsPaired
<1>5. owner'[f] = s
  BY <1>1, <1>2 DEF WakesTyped
<1>6. GuardsPaired'
  <2>1. \A u \in Selectors \ {s} :
          /\ sel'[u] = sel[u]
          /\ sel[u].at \in Guarded => sel[u].fd \in Fds \ {f} /\ owner'[sel[u].fd] = u
    BY <1>1, <1>2, <1>4, ChannelAssumption DEF Moves, ChannelInv, GuardsPaired
  <2>2. \A g \in Fds \ {f} : owner'[g] # None => sel'[owner'[g]].fd = g
    BY <1>1, <1>4 DEF Moves, WakesTyped, ChannelInv, GuardsPaired
  <2> QED BY <1>1, <1>2, <1>3, <1>4, <1>5, <2>1, <2>2, ChannelAssumption
       DEF Moves, ChannelInv, GuardsPaired, Bare
<1>7. ListsExact'
  <2>1. Listed(s)' = {} /\ \A u \in Selectors \ {s} : Listed(u)' = Listed(u)
    BY <1>1, MoveListed
  <2>2. \A c \in Channels : \A g \in list[c] : g \in Fds \ {f} /\ owner[g] \in Selectors \ {s}
    BY <1>2, <1>4 DEF WakesTyped, ChannelInv, ListsExact
  <2> QED BY <1>1, <1>3, <1>4, <2>1, <2>2 DEF Moves, ChannelInv, ListsExact
<1>8. CallsOpen'
  BY <1>1, <1>3, MoveOpen DEF OthersKept
<1> QED BY <1>6, <1>7, <1>8 DEF ChannelInv

\* The call joins one more list.
LEMMA RegisterInv ==
    ASSUME SelectInv, NEW s \in Selectors, NEW c \in Channels, Register(s, c)
    PROVE  ChannelInv'
<1> USE DEF SelectInv
<1> DEFINE to == IF sel[s].todo = {c} THEN "recheck" ELSE "register"
<1>1. /\ Moves(s, to, sel[s].fd, sel[s].todo \ {c}) /\ to \in {"register", "recheck"}
      /\ to = "recheck" => sel[s].todo = {c}
  BY SelectorMoves
<1> HIDE DEF to
<1>2. /\ sel[s].at = "register" /\ c \in sel[s].todo /\ sel[s].todo \subseteq Watch[s]
      /\ sel[s].fd \in Fds /\ owner[sel[s].fd] = s
      /\ AllOpen(s) /\ answer[s] = <<"none">>
  BY DEF Register, ChannelInv, GuardsPaired, CallsOpen, Guarded
<1>3. /\ list' = [list EXCEPT ![c] = list[c] \cup {sel[s].fd}] /\ flag' = flag \cup {c}
      /\ UNCHANGED <<owner, signalled, rx, answer>>
  BY DEF Register, queueVars
<1>4. GuardsPaired'
  <2>1. \A u \in Selectors \ {s} : sel'[u] = sel[u]
    BY <1>1 DEF Moves
  <2>2. sel'[s].fd = sel[s].fd /\ sel'[s].at \in {"register", "recheck"}
    BY <1>1 DEF Moves
  <2>3. sel'[s].todo \subseteq Watch[s] /\ (sel'[s].at = "recheck" => sel'[s].todo = {})
    BY <1>1, <1>2 DEF Moves
  <2>4. \A g \in Fds : owner[g] # None => sel'[owner[g]].fd = g
    BY <2>1, <2>2 DEF WakesTyped, ChannelInv, GuardsPaired
  <2> QED BY <1>2, <1>3, <2>1, <2>2, <2>3, <2>4 DEF ChannelInv, GuardsPaired, Bare, Guarded
<1>5. ListsExact'
  <2>1. Listed(s) = Watch[s] \ sel[s].todo
    BY <1>2 DEF Listed
  <2>2. Listed(s)' = Listed(s) \cup {c}
    <3>1. CASE to = "register"
      BY <1>1, <1>2, <2>1, <3>1, MoveListed
    <3>2. CASE to = "recheck"
      BY <1>1, <1>2, <2>1, <3>2, MoveListed
    <3> QED BY <1>1, <3>1, <3>2
  <2>3. \A u \in Selectors \ {s} : Listed(u)' = Listed(u) /\ sel'[u] = sel[u]
    BY <1>1, MoveListed DEF Moves
  <2>4. \A d \in Channels : list'[d] = IF d = c THEN list[d] \cup {sel[s].fd} ELSE list[d]
    BY <1>3 DEF WakesTyped
  <2>5. \A d \in Channels : \A g \in list'[d] : owner'[g] # None /\ d \in Listed(owner[g])'
    <3> SUFFICES ASSUME NEW d \in Channels, NEW g \in list'[d]
                 PROVE  owner[g] # None /\ d \in Listed(owner[g])'
      BY <1>3
    <3>1. CASE g \in list[d]
      <4>1. owner[g] \in Selectors /\ owner[g] # None /\ d \in Listed(owner[g])
        BY <3>1 DEF WakesTyped, ChannelInv, ListsExact
      <4> QED BY <1>3, <2>2, <2>3, <4>1
    <3>2. CASE g \notin list[d]
      <4>1. d = c /\ g = sel[s].fd
        BY <2>4, <3>2
      <4> QED BY <1>2, <1>3, <2>2, <4>1, ChannelAssumption
    <3> QED BY <3>1, <3>2
  <2>6. \A u \in Selectors : \A d \in Listed(u)' : sel'[u].fd \in list'[d]
    <3>1. \A u \in Selectors : Listed(u) \subseteq Channels /\ Watch[u] \subseteq Channels
      BY ChannelAssumption DEF Listed, CallsTyped, Calls
    <3>2. \A u \in Selectors : \A d \in Listed(u) : sel[u].fd \in list[d]
      BY DEF ChannelInv, ListsExact
    <3>3. sel'[s].fd = sel[s].fd
      BY <1>1 DEF Moves
    <3>4. \A d \in Listed(s)' : sel'[s].fd \in list'[d]
      BY <2>2, <2>4, <3>1, <3>2, <3>3
    <3>5. \A u \in Selectors \ {s} : \A d \in Listed(u)' : sel'[u].fd \in list'[d]
      BY <2>3, <2>4, <3>1, <3>2
    <3> QED BY <3>4, <3>5
  <2>7. \A d \in Channels : d \in flag' <=> list'[d] # {}
    BY <1>3, <2>4 DEF ChannelInv, ListsExact
  <2> QED BY <1>3, <2>5, <2>6, <2>7 DEF ListsExact
<1>6. CallsOpen'
  BY <1>1, <1>2, <1>3, MoveOpen DEF OthersKept
<1> QED BY <1>4, <1>5, <1>6 DEF ChannelInv

\* The call leaves one list: what stays in it is the others'.
LEMMA DeregisterInv ==
    ASSUME SelectInv, NEW s \in Selectors, NEW c \in Channels, Deregister(s, c)
    PROVE  ChannelInv'
<1> USE DEF SelectInv
<1>1. Moves(s, "drop", sel[s].fd, sel[s].todo \ {c})
  BY SelectorMoves
<1>2. /\ sel[s].at = "drop" /\ c \in sel[s].todo /\ sel[s].todo \subseteq Watch[s]
      /\ sel[s].fd \in Fds /\ owner[sel[s].fd] = s
  BY DEF Deregister, ChannelInv, GuardsPaired, Guarded
<1>3. /\ list' = [list EXCEPT ![c] = list[c] \ {sel[s].fd}]
      /\ flag' = IF list[c] \subseteq {sel[s].fd} THEN flag \ {c} ELSE flag
      /\ UNCHANGED <<owner, signalled, rx, answer>>
  BY DEF Deregister, SettleFlag, queueVars
<1>4. GuardsPaired'
  <2>1. \A u \in Selectors \ {s} : sel'[u] = sel[u]
    BY <1>1 DEF Moves
  <2>2. sel'[s].fd = sel[s].fd /\ sel'[s].at = "drop" /\ sel'[s].todo \subseteq Watch[s]
    BY <1>1, <1>2 DEF Moves
  <2>3. \A g \in Fds : owner[g] # None => sel'[owner[g]].fd = g
    BY <2>1, <2>2 DEF WakesTyped, ChannelInv, GuardsPaired
  <2> QED BY <1>2, <1>3, <2>1, <2>2, <2>3 DEF ChannelInv, GuardsPaired, Bare, Guarded
<1>5. ListsExact'
  <2>1. Listed(s) = sel[s].todo
    BY <1>2 DEF Listed
  <2>2. Listed(s)' = Listed(s) \ {c}
    BY <1>1, <2>1, MoveListed
  <2>3. \A u \in Selectors \ {s} : Listed(u)' = Listed(u) /\ sel'[u] = sel[u]
    BY <1>1, MoveListed DEF Moves
  <2>4. \A d \in Channels : list'[d] = IF d = c THEN list[d] \ {sel[s].fd} ELSE list[d]
    BY <1>3 DEF WakesTyped
  <2>5. \A d \in Channels : \A g \in list'[d] : owner'[g] # None /\ d \in Listed(owner[g])'
    <3> SUFFICES ASSUME NEW d \in Channels, NEW g \in list'[d]
                 PROVE  owner[g] # None /\ d \in Listed(owner[g])'
      BY <1>3
    <3>1. g \in list[d] /\ (d = c => g # sel[s].fd)
      BY <2>4
    <3>2. owner[g] \in Selectors /\ owner[g] # None /\ d \in Listed(owner[g])
      BY <3>1 DEF WakesTyped, ChannelInv, ListsExact
    <3>3. d = c => owner[g] # s
      BY <3>1, <3>2 DEF WakesTyped, ChannelInv, GuardsPaired
    <3> QED BY <1>3, <2>2, <2>3, <3>2, <3>3
  <2>6. \A u \in Selectors : \A d \in Listed(u)' : sel'[u].fd \in list'[d]
    <3>1. \A u \in Selectors : Listed(u) \subseteq Channels
      BY ChannelAssumption DEF Listed, CallsTyped, Calls
    <3>2. \A u \in Selectors : \A d \in Listed(u) : sel[u].fd \in list[d]
      BY DEF ChannelInv, ListsExact
    <3>3. sel'[s].fd = sel[s].fd
      BY <1>1 DEF Moves
    <3>4. \A d \in Listed(s)' : sel'[s].fd \in list'[d]
      BY <2>2, <2>4, <3>1, <3>2, <3>3
    <3>5. \A u \in Selectors \ {s} : Listed(u) # {} => sel[u].fd # sel[s].fd
      BY <1>2, ListedCases DEF ChannelInv, GuardsPaired
    <3>6. \A u \in Selectors \ {s} : \A d \in Listed(u)' : sel'[u].fd \in list'[d]
      BY <2>3, <2>4, <3>1, <3>2, <3>5
    <3> QED BY <3>4, <3>6
  <2>7. \A d \in Channels : d \in flag' <=> list'[d] # {}
    BY <1>3, <2>4 DEF ChannelInv, ListsExact
  <2> QED BY <1>3, <2>5, <2>6, <2>7 DEF ListsExact
<1>6. CallsOpen'
  BY <1>1, <1>2, <1>3, MoveOpen DEF OthersKept
<1> QED BY <1>4, <1>5, <1>6 DEF ChannelInv

\* The wake fd is closed: the call has left every list.
LEMMA CloseFdInv ==
    ASSUME SelectInv, NEW s \in Selectors, CloseFd(s)
    PROVE  ChannelInv'
<1> USE DEF SelectInv
<1>1. PICK a \in {"try", "idle"} : Moves(s, a, None, {}) /\ (a = "try" => answer[s] = <<"none">>)
  <2>1. CASE answer[s] = <<"none">>
    BY <2>1, SelectorMoves
  <2>2. CASE answer[s] # <<"none">>
    BY <2>2, SelectorMoves
  <2> QED BY <2>1, <2>2
<1> DEFINE f == sel[s].fd
<1>2. /\ sel[s].at = "drop" /\ sel[s].todo = {}
      /\ f \in Fds /\ owner[f] = s /\ Listed(s) = {}
  BY DEF CloseFd, Unlisted, ChannelInv, GuardsPaired, Guarded, Listed
<1>3. /\ owner' = [owner EXCEPT ![f] = None] /\ signalled' = signalled \ {f}
      /\ UNCHANGED <<list, flag, rx, answer>>
  BY DEF CloseFd, queueVars
<1>4. \A g \in Fds \ {f} : owner'[g] = owner[g] /\ owner[g] # s
  BY <1>3, ChannelAssumption DEF WakesTyped, ChannelInv, GuardsPaired
<1>5. owner'[f] = None
  BY <1>2, <1>3 DEF WakesTyped
<1> HIDE DEF f
<1>6. GuardsPaired'
  <2>1. \A u \in Selectors \ {s} :
          /\ sel'[u] = sel[u]
          /\ sel[u].at \in Guarded => sel[u].fd \in Fds \ {f} /\ owner'[sel[u].fd] = u
    BY <1>1, <1>2, <1>4 DEF Moves, ChannelInv, GuardsPaired
  <2>2. \A g \in Fds : owner'[g] # None => sel'[owner'[g]].fd = g
    BY <1>1, <1>4, <1>5 DEF Moves, WakesTyped, ChannelInv, GuardsPaired
  <2>3. \A g \in signalled' : owner'[g] # None
    BY <1>3, <1>4 DEF WakesTyped, ChannelInv, GuardsPaired
  <2>4. sel'[s].at \in Bare /\ sel'[s].at \notin Guarded /\ sel'[s].fd = None /\ sel'[s].todo = {}
    BY <1>1 DEF Moves, Bare, Guarded
  <2> QED BY <2>1, <2>2, <2>3, <2>4 DEF ChannelInv, GuardsPaired
<1>7. ListsExact'
  <2>1. Listed(s)' = {} /\ \A u \in Selectors \ {s} : Listed(u)' = Listed(u)
    BY <1>1, MoveListed DEF Bare
  <2>2. \A c \in Channels : \A g \in list[c] : g \in Fds \ {f} /\ owner[g] \in Selectors \ {s}
    BY <1>2, <1>4 DEF WakesTyped, ChannelInv, ListsExact
  <2> QED BY <1>1, <1>3, <1>4, <2>1, <2>2 DEF Moves, ChannelInv, ListsExact
<1>8. CallsOpen'
  BY <1>1, <1>3, MoveOpen DEF OthersKept
<1> QED BY <1>6, <1>7, <1>8 DEF ChannelInv

\* Every step keeps what the channels keep for chan/select.
LEMMA SelectStepInv == SelectInv /\ ChannelStep => SelectInv'
<1> SUFFICES ASSUME SelectInv, ChannelStep PROVE SelectInv'
  OBVIOUS
<1>1. ASSUME NEW p \in Producers, ProducerDoes(p) PROVE SelectInv'
  BY <1>1, ProducerInv
<1>2. ASSUME NEW s \in Selectors, SelectorDoes(s) PROVE SelectInv'
  <2>1. (QueuesTyped /\ WakesTyped /\ CallsTyped)'
    BY <1>2, SelectorTypes
  <2>2. ASSUME Lapse(s) \/ \E c \in Channels : Recv(s, c) PROVE ChannelInv'
    <3>1. UNCHANGED <<rx, list, flag, owner, signalled, sel, answer>>
      BY <2>2, Zenon DEF Lapse, Recv, queueVars, wakeVars
    <3>2. \A u \in Selectors : (AllOpen(u)' <=> AllOpen(u)) /\ Listed(u)' = Listed(u)
      BY <3>1 DEF AllOpen, Listed
    <3>3. GuardsPaired'
      BY <3>1 DEF SelectInv, ChannelInv, GuardsPaired
    <3>4. ListsExact'
      BY <3>1 DEF SelectInv, ChannelInv, ListsExact, Listed
    <3>5. CallsOpen'
      BY <3>1, <3>2 DEF SelectInv, ChannelInv, CallsOpen
    <3> QED BY <3>3, <3>4, <3>5 DEF ChannelInv
  <2>3. CASE MakeWakeFd(s)
    BY <2>1, <2>3, QuietInv, MakeWakeFdInv DEF SelectInv
  <2>4. CASE CloseFd(s)
    BY <2>1, <2>4, CloseFdInv DEF SelectInv
  <2>5. ASSUME NEW c \in Channels, Register(s, c) \/ Deregister(s, c) PROVE SelectInv'
    BY <2>1, <2>5, RegisterInv, DeregisterInv DEF SelectInv
  <2>6. CASE \/ Ask(s) \/ TrySelect(s) \/ TryEmpty(s) \/ TimesOut(s) \/ Recheck(s) \/ Park(s)
             \/ Unpark(s) \/ Abort(s)
    BY <2>1, <2>6, QuietInv DEF SelectInv
  <2> QED BY <1>2, <2>1, <2>2, <2>3, <2>4, <2>5, <2>6, Zenon DEF SelectorDoes, SelectInv
<1>3. CASE UNCHANGED vars
  <2>1. UNCHANGED <<buf, tx, rx, sent, list, flag, owner, signalled, late, prod, sel, answer>>
    BY <1>3, Zenon DEF vars
  <2>2. (QueuesTyped /\ WakesTyped /\ CallsTyped)'
    BY <2>1 DEF SelectInv, QueuesTyped, WakesTyped, CallsTyped
  <2>3. GuardsPaired' /\ ListsExact' /\ CallsOpen'
    BY <2>1 DEF SelectInv, ChannelInv, GuardsPaired, ListsExact, CallsOpen, Listed, AllOpen
  <2> QED BY <2>2, <2>3 DEF SelectInv, ChannelInv
<1> QED BY <1>1, <1>2, <1>3 DEF ChannelStep

\* The first states satisfy it.
LEMMA SelectInitInv == Init => SelectInv
<1> USE ChannelAssumption, ThreadsAssumption
<1> SUFFICES ASSUME Init PROVE SelectInv
  OBVIOUS
<1>1. tx \in [Producers -> SUBSET Channels]
  BY DEF Init, InitWith
<1>2. QueuesTyped
  BY <1>1 DEF Init, InitWith, QueuesTyped
<1>3. WakesTyped
  BY DEF Init, InitWith, WakesTyped
<1>4. sel \in [Selectors -> Calls] /\ \A s \in Selectors : sel[s] = AtRest /\ sel[s].at = "idle"
  BY DEF Init, InitWith, Calls, AtRest, Bare
<1>5. CallsTyped
  BY <1>4 DEF Init, InitWith, CallsTyped
<1>6. GuardsPaired /\ CallsOpen
  BY <1>4 DEF Init, InitWith, GuardsPaired, CallsOpen, AtRest, Guarded, Bare
<1>7. ListsExact
  BY <1>4 DEF Init, InitWith, ListsExact, Listed
<1> QED BY <1>2, <1>3, <1>5, <1>6, <1>7 DEF SelectInv, ChannelInv

\* What the lists and the guards hold is what FdsOwned says.
LEMMA GuardsOwnFds == SelectInv => FdsOwned
<1> SUFFICES ASSUME SelectInv PROVE FdsOwned
  OBVIOUS
<1> USE DEF SelectInv, WakesTyped, ChannelInv, GuardsPaired
<1>1. ASSUME NEW c \in Channels, NEW f \in list[c]
      PROVE  /\ owner[f] # None /\ sel[owner[f]].fd = f
             /\ c \in Watch[owner[f]]
             /\ sel[owner[f]].at = "drop" => c \in sel[owner[f]].todo
             /\ c \in flag
  <2>1. owner[f] # None /\ owner[f] \in Selectors /\ c \in Listed(owner[f]) /\ c \in flag
    BY <1>1 DEF ListsExact
  <2>2. sel[owner[f]].fd = f
    BY <1>1, <2>1
  <2>3. PICK s \in Selectors : s = owner[f] /\ c \in Listed(s)
    BY <2>1
  <2>4. c \in Watch[s] /\ (sel[s].at = "drop" => c \in sel[s].todo)
    BY <2>3 DEF Listed
  <2> QED BY <2>1, <2>2, <2>3, <2>4
<1>2. ASSUME NEW f \in Fds, owner[f] # None
      PROVE  sel[owner[f]].fd = f /\ sel[owner[f]].at \in Guarded
  <2>1. owner[f] \in Selectors /\ sel[owner[f]].fd = f /\ f # None
    BY <1>2, ChannelAssumption
  <2>2. sel[owner[f]].at \in Bare \cup Guarded
    BY <2>1, ListedCases
  <2> QED BY <2>1, <2>2
<1>3. \A f \in Fds : owner[f] = None => f \notin signalled
  OBVIOUS
<1> QED BY <1>1, <1>2, <1>3 DEF FdsOwned, Guarded

\* The wake lists and the descriptors of chan/select stay paired: for every set
\* of channels, threads, selecting fibers and descriptors, no list names a closed
\* or a reused descriptor, and no descriptor outlives its call
\* (chan/wake.rs, ChanSelectGuard).
THEOREM WakeFdsOwned == Spec => []FdsOwned
<1>1. Init => SelectInv
  BY SelectInitInv
<1>2. SelectInv /\ [Next]_allVars => SelectInv'
  BY StepsOfChannels, SelectStepInv
<1>3. SelectInv => FdsOwned
  BY GuardsOwnFds
<1> QED BY <1>1, <1>2, <1>3, PTL DEF Spec

-----------------------------------------------------------------------------
(* chan/select is one blocking choice: each step, seen without the wake    *)
(* fds, is a step of BlockingSelect or none.                               *)

\* Nobody's call begins or ends when no fiber moves and no answer changes.
LEMMA WaitingKept ==
    ASSUME UNCHANGED <<sel, answer>>
    PROVE  Waiting' = Waiting
BY DEF Waiting

\* A move between two places of the same unanswered call is hidden.
LEMMA MoveHidden ==
    ASSUME SelectInv, NEW s \in Selectors, NEW a, NEW f, NEW t, Moves(s, a, f, t),
           answer' = answer, sel[s].at # "idle", a # "idle" \/ answer[s] # <<"none">>
    PROVE  Waiting' = Waiting
BY DEF Moves, Waiting

\* A fiber that gets its answer is waiting no longer.
LEMMA MoveAnswered ==
    ASSUME SelectInv, NEW s \in Selectors, NEW a, NEW f, NEW t, Moves(s, a, f, t),
           NEW r, answer' = [answer EXCEPT ![s] = r], r # <<"none">>,
           sel[s].at \in {"try", "check", "recheck", "parked"}
    PROVE  s \in Waiting /\ Waiting' = Waiting \ {s}
<1>1. answer[s] = <<"none">>
  BY DEF SelectInv, ChannelInv, CallsOpen
<1>2. answer'[s] = r /\ \A u \in Selectors \ {s} : answer'[u] = answer[u]
  BY DEF SelectInv, CallsTyped
<1> QED BY <1>1, <1>2 DEF Moves, Waiting

\* The senders' steps.
LEMMA ProducerRefines ==
    ASSUME SelectInv, NEW p \in Producers, ProducerDoes(p)
    PROVE  Blocking!Next \/ UNCHANGED Blocking!vars
<1>0. Waiting' = Waiting /\ answer' = answer
  BY ProducerKeeps, WaitingKept
<1>1. ASSUME LoadFlag(p) \/ SignalAll(p) PROVE UNCHANGED Blocking!vars
  BY <1>0, <1>1, Zenon DEF LoadFlag, SignalAll, queueVars, Blocking!vars
<1>2. ASSUME NEW c \in Channels, Send(p, c) PROVE Blocking!Send(p, c)
  BY <1>0, <1>2, Zenon DEF Send, Blocking!Send
<1>3. ASSUME NEW c \in Channels, CloseTx(p, c) \/ DropTx(p, c) PROVE Blocking!CloseTx(p, c)
  BY <1>0, <1>3, Zenon DEF CloseTx, DropTx, Blocking!CloseTx
<1>4. ASSUME NEW c \in Channels, NEW q \in Producers, Clone(p, q, c) PROVE Blocking!Clone(p, q, c)
  BY <1>0, <1>4, Zenon DEF Clone, Blocking!Clone
<1>5. ASSUME NEW c \in Channels, NEW s \in Selectors, CloseRx(p, s, c) PROVE Blocking!CloseRx(s, c)
  BY <1>0, <1>5, Zenon DEF CloseRx, Blocking!CloseRx
<1> QED BY <1>1, <1>2, <1>3, <1>4, <1>5, Zenon DEF ProducerDoes, Blocking!Next

\* A message or a disconnect, where the code takes it from the queue.
LEMMA SelectedServes ==
    ASSUME SelectInv, NEW s \in Selectors, NEW to, Selected(s, to),
           NEW a, NEW f, NEW t, Moves(s, a, f, t), sel[s].at \in {"try", "recheck"}
    PROVE  Blocking!Serve(s)
<1>1. AllOpen(s) /\ UNCHANGED <<tx, rx, sent>>
  BY SelectedCases
<1>2. PICK c \in Watch[s] :
          \/ /\ buf[c] # <<>>
             /\ buf' = [buf EXCEPT ![c] = Tail(buf[c])]
             /\ answer' = [answer EXCEPT ![s] = <<"message", Head(buf[c])>>]
          \/ /\ buf[c] = <<>> /\ Hung(c)
             /\ buf' = buf
             /\ answer' = [answer EXCEPT ![s] = <<"disconnected">>]
  BY SelectedCases, Zenon
<1>3. c \in Channels
  BY ChannelAssumption
<1>4. <<"disconnected">> # <<"none">> /\ \A m : <<"message", m>> # <<"none">>
  OBVIOUS
<1>5. ASSUME buf[c] # <<>>, buf' = [buf EXCEPT ![c] = Tail(buf[c])],
             answer' = [answer EXCEPT ![s] = <<"message", Head(buf[c])>>]
      PROVE  Blocking!Deliver(s, c)
  <2>1. s \in Waiting /\ Waiting' = Waiting \ {s}
    BY <1>4, <1>5, MoveAnswered
  <2> QED BY <1>1, <1>2, <1>5, <2>1, Zenon DEF Blocking!Deliver, Blocking!Answer, AllOpen
<1>6. ASSUME buf[c] = <<>>, Hung(c), buf' = buf, answer' = [answer EXCEPT ![s] = <<"disconnected">>]
      PROVE  Blocking!Disconnected(s)
  <2>1. s \in Waiting /\ Waiting' = Waiting \ {s}
    BY <1>4, <1>6, MoveAnswered
  <2> QED BY <1>1, <1>2, <1>6, <2>1, Zenon
       DEF Blocking!Disconnected, Blocking!Answer, Blocking!Hung, Hung, AllOpen
<1> QED BY <1>2, <1>3, <1>5, <1>6, Zenon DEF Blocking!Serve

\* A timeout, an abort or an error: the call is given up.
LEMMA MoveGivesUp ==
    ASSUME SelectInv, NEW s \in Selectors, NEW a, NEW f, NEW t, Moves(s, a, f, t),
           NEW r \in {<<"timeout">>, <<"aborted">>, <<"error">>},
           answer' = [answer EXCEPT ![s] = r], r = <<"timeout">> => s \in Bounded,
           UNCHANGED <<buf, tx, rx, sent>>, sel[s].at \in {"try", "check", "parked"}
    PROVE  Blocking!GiveUp(s)
<1>1. r # <<"none">>
  OBVIOUS
<1>2. s \in Waiting /\ Waiting' = Waiting \ {s}
  BY <1>1, MoveAnswered
<1> QED BY <1>2, Zenon DEF Blocking!GiveUp, Blocking!Answer

\* The selecting fiber's steps.
LEMMA SelectorRefines ==
    ASSUME SelectInv, NEW s \in Selectors, SelectorDoes(s)
    PROVE  Blocking!Next \/ UNCHANGED Blocking!vars
<1>1. ASSUME Ask(s) PROVE Blocking!Ask(s)
  <2>1. sel[s].at = "idle" /\ Moves(s, "try", None, {})
    BY <1>1, SelectorMoves DEF Ask
  <2>2. answer' = [answer EXCEPT ![s] = <<"none">>] /\ UNCHANGED <<buf, tx, rx, sent>>
    BY <1>1, Zenon DEF Ask, queueVars
  <2>3. s \notin Waiting /\ Waiting' = Waiting \cup {s}
    BY <2>1, <2>2 DEF Waiting, Moves, SelectInv, CallsTyped
  <2> QED BY <2>2, <2>3, Zenon DEF Blocking!Ask
<1>2. ASSUME Lapse(s) PROVE UNCHANGED Blocking!vars
  BY <1>2, WaitingKept, Zenon DEF Lapse, queueVars, Blocking!vars
<1>3. ASSUME NEW c \in Channels, Recv(s, c) PROVE Blocking!Recv(s, c)
  <2>1. s \notin Waiting
    BY <1>3, SelectorMoves DEF Recv, Waiting
  <2> QED BY <1>3, <2>1, WaitingKept, Zenon DEF Recv, Blocking!Recv
<1>4. ASSUME TrySelect(s) PROVE Blocking!Serve(s)
  <2>1. Moves(s, "idle", None, {}) /\ sel[s].at = "try"
    BY <1>4, SelectorMoves, Zenon DEF TrySelect
  <2>2. CASE Selected(s, AtRest)
    BY <2>1, <2>2, SelectedServes
  <2>3. CASE ~ Selected(s, AtRest)
    <3>1. /\ ~ AllOpen(s) /\ answer' = [answer EXCEPT ![s] = <<"error">>]
          /\ UNCHANGED <<buf, tx, rx, sent>>
      BY <1>4, <2>3, Zenon DEF TrySelect, queueVars
    <3>2. <<"error">> # <<"none">>
      OBVIOUS
    <3>3. s \in Waiting /\ Waiting' = Waiting \ {s}
      BY <2>1, <3>1, <3>2, MoveAnswered
    <3> QED BY <3>1, <3>3, Zenon
         DEF Blocking!Serve, Blocking!ClosedReceiver, Blocking!Answer, AllOpen
  <2> QED BY <2>2, <2>3
<1>5. ASSUME TimesOut(s) \/ Abort(s) \/ (MakeWakeFd(s) /\ FreeFds = {}) PROVE Blocking!GiveUp(s)
  <2>1. s \in late => s \in Bounded
    BY DEF SelectInv, CallsTyped
  <2>2. PICK a, f, t : Moves(s, a, f, t)
    BY <1>5, SelectorMoves, Zenon
  <2>3. sel[s].at \in {"try", "check", "parked"} /\ UNCHANGED <<buf, tx, rx, sent>>
    BY <1>5, Zenon DEF TimesOut, Abort, MakeWakeFd, queueVars
  <2>4. PICK r \in {<<"timeout">>, <<"aborted">>, <<"error">>} :
          answer' = [answer EXCEPT ![s] = r] /\ (r = <<"timeout">> => s \in Bounded)
    <3>1. <<"aborted">> # <<"timeout">> /\ <<"error">> # <<"timeout">>
      OBVIOUS
    <3> QED BY <1>5, <2>1, <3>1, Zenon DEF TimesOut, Abort, MakeWakeFd
  <2> QED BY <2>2, <2>3, <2>4, MoveGivesUp
<1>6. ASSUME TryEmpty(s) \/ Park(s) \/ Unpark(s) PROVE UNCHANGED Blocking!vars
  <2>1. PICK a, f, t : Moves(s, a, f, t) /\ a \in {"check", "parked", "drop"}
    BY <1>6, SelectorMoves, Zenon
  <2>2. sel[s].at # "idle" /\ UNCHANGED <<buf, tx, rx, sent, answer>>
    BY <1>6 DEF TryEmpty, Park, NothingToAnswer, Unpark, queueVars
  <2>3. Waiting' = Waiting
    BY <2>1, <2>2, MoveHidden
  <2> QED BY <2>2, <2>3, Zenon DEF Blocking!vars
<1>7. ASSUME MakeWakeFd(s), FreeFds # {} PROVE UNCHANGED Blocking!vars
  <2>1. PICK f : Moves(s, "register", f, Watch[s]) /\ answer' = answer
    BY <1>7, SelectorMoves, Zenon
  <2>2. sel[s].at # "idle" /\ UNCHANGED <<buf, tx, rx, sent>>
    BY <1>7 DEF MakeWakeFd, queueVars
  <2>3. Waiting' = Waiting
    BY <2>1, <2>2, MoveHidden
  <2> QED BY <2>1, <2>2, <2>3, Zenon DEF Blocking!vars
<1>8. ASSUME Recheck(s) PROVE Blocking!Serve(s)
  <2>1. Moves(s, "drop", sel[s].fd, Watch[s]) /\ sel[s].at = "recheck" /\ Selected(s, Dropping(s))
    BY <1>8, SelectorMoves, Zenon DEF Recheck
  <2> QED BY <2>1, SelectedServes
<1>9. ASSUME NEW c \in Channels, Register(s, c) \/ Deregister(s, c) PROVE UNCHANGED Blocking!vars
  <2>1. PICK a, f, t : Moves(s, a, f, t) /\ a # "idle"
    <3>1. CASE Deregister(s, c)
      <4>1. Moves(s, "drop", sel[s].fd, sel[s].todo \ {c})
        BY <3>1, SelectorMoves, Zenon
      <4> QED BY <4>1
    <3>2. CASE Register(s, c)
      <4> DEFINE to == IF sel[s].todo = {c} THEN "recheck" ELSE "register"
      <4>1. Moves(s, to, sel[s].fd, sel[s].todo \ {c})
        BY <3>2, SelectorMoves, Zenon
      <4>2. to # "idle"
        OBVIOUS
      <4> QED BY <4>1, <4>2, Zenon
    <3> QED BY <1>9, <3>1, <3>2
  <2>2. sel[s].at # "idle" /\ UNCHANGED <<buf, tx, rx, sent, answer>>
    BY <1>9 DEF Register, Deregister, queueVars
  <2>3. Waiting' = Waiting
    BY <2>1, <2>2, MoveHidden
  <2> QED BY <2>2, <2>3, Zenon DEF Blocking!vars
<1>10. ASSUME CloseFd(s) PROVE UNCHANGED Blocking!vars
  <2>1. PICK a, f, t : Moves(s, a, f, t) /\ (a # "idle" \/ answer[s] # <<"none">>)
    <3>1. CASE answer[s] = <<"none">>
      BY <1>10, <3>1, SelectorMoves
    <3>2. CASE answer[s] # <<"none">>
      BY <1>10, <3>2, SelectorMoves
    <3> QED BY <3>1, <3>2
  <2>2. sel[s].at # "idle" /\ UNCHANGED <<buf, tx, rx, sent, answer>>
    BY <1>10 DEF CloseFd, Unlisted, queueVars
  <2>3. Waiting' = Waiting
    BY <2>1, <2>2, MoveHidden
  <2> QED BY <2>2, <2>3, Zenon DEF Blocking!vars
<1> QED BY <1>1, <1>2, <1>3, <1>4, <1>5, <1>6, <1>7, <1>8, <1>9, <1>10, Zenon
     DEF SelectorDoes, Blocking!Next

\* chan/select implements one blocking choice over several channels, step by
\* step: with the wake fds, their lists and the flag hidden it takes no message
\* twice, loses none, and answers only what a blocking choice could answer
\* (chan/select in stdlib.lisp, chan/select.rs).
THEOREM SelectIsOneChoice == Spec => Blocking!Init /\ [][Blocking!Next]_(Blocking!vars)
<1>1. Init => SelectInv
  BY SelectInitInv
<1>2. SelectInv /\ [Next]_allVars => SelectInv'
  BY StepsOfChannels, SelectStepInv
<1>3. Init => Blocking!Init
  <2> SUFFICES ASSUME Init PROVE Blocking!Init
    OBVIOUS
  <2>1. tx \in [Producers -> SUBSET Channels]
    BY <1>1 DEF SelectInv, QueuesTyped
  <2>2. Waiting = {}
    BY DEF Init, InitWith, AtRest, Waiting
  <2> QED BY <2>1, <2>2 DEF Init, InitWith, Blocking!Init
<1>4. SelectInv /\ [Next]_allVars => [Blocking!Next]_(Blocking!vars)
  <2> SUFFICES ASSUME SelectInv, [Next]_allVars PROVE Blocking!Next \/ UNCHANGED Blocking!vars
    OBVIOUS
  <2>1. ChannelStep
    BY StepsOfChannels
  <2>2. CASE UNCHANGED vars
    BY <2>2, WaitingKept, Zenon DEF vars, Blocking!vars
  <2> QED BY <2>1, <2>2, ProducerRefines, SelectorRefines, Zenon DEF ChannelStep
<1> QED BY <1>1, <1>2, <1>3, <1>4, PTL DEF Spec

-----------------------------------------------------------------------------
(* The worker thread and its joiners.                                      *)

\* What happens inside a primitive moves one fiber at most, and it answers a
\* message, a disconnect, or one of the ways a call gives up.
FiberInside(s) ==
    /\ \A u \in Selectors \ {s} : sel'[u] = sel[u] /\ answer'[u] = answer[u]
    /\ sel[s].at = "idle" => sel'[s].at = "idle" /\ answer'[s] = answer[s]
    /\ sel[s].at # "idle" /\ sel'[s].at = "idle" => answer'[s] # <<"none">>
    /\ \/ sel[s].at \in {"try", "recheck"} /\ \E to : Selected(s, to)
       \/ /\ buf' = buf
          /\ answer'[s] \in {answer[s], <<"timeout">>, <<"aborted">>, <<"error">>}

\* Every step of a selector is such a step.
LEMMA InsideFiber ==
    ASSUME SelectInv, NEW s \in Selectors, SelectStep(s) \/ Lapse(s) \/ Abort(s)
    PROVE  FiberInside(s) /\ UNCHANGED <<tx, rx, sent>>
<1>0. /\ DOMAIN answer = Selectors
      /\ <<"error">> # <<"none">> /\ <<"timeout">> # <<"none">> /\ <<"aborted">> # <<"none">>
  BY DEF SelectInv, CallsTyped
<1>1. ASSUME Lapse(s) PROVE FiberInside(s) /\ UNCHANGED <<tx, rx, sent>>
  BY <1>1 DEF Lapse, queueVars, FiberInside
<1>2. ASSUME TrySelect(s) PROVE FiberInside(s) /\ UNCHANGED <<tx, rx, sent>>
  <2>1. Moves(s, "idle", None, {}) /\ sel[s].at = "try"
    BY <1>2, SelectorMoves, Zenon DEF TrySelect
  <2>2. CASE Selected(s, AtRest)
    <3>1. answer'[s] # <<"none">> /\ UNCHANGED <<tx, rx, sent>> /\ \E a : answer' = [answer EXCEPT ![s] = a]
      BY <2>2, SelectedCases, Zenon
    <3> QED BY <1>0, <2>1, <2>2, <3>1 DEF Moves, FiberInside
  <2>3. CASE ~ Selected(s, AtRest)
    BY <1>0, <1>2, <2>1, <2>3 DEF TrySelect, queueVars, Moves, FiberInside
  <2> QED BY <2>2, <2>3
<1>3. ASSUME TryEmpty(s) \/ Park(s) \/ Unpark(s) PROVE FiberInside(s) /\ UNCHANGED <<tx, rx, sent>>
  <2>0. \E a \in {"check", "parked", "drop"} : \E f, t : Moves(s, a, f, t)
    BY <1>3, SelectorMoves, Zenon
  <2>1. PICK a, f, t : a \in {"check", "parked", "drop"} /\ Moves(s, a, f, t)
    BY <2>0
  <2> QED BY <1>3, <2>1 DEF TryEmpty, Park, NothingToAnswer, Unpark, queueVars, Moves, FiberInside
<1>4. ASSUME TimesOut(s) \/ Abort(s) \/ (MakeWakeFd(s) /\ FreeFds = {})
      PROVE  FiberInside(s) /\ UNCHANGED <<tx, rx, sent>>
  <2>1. PICK a, f, t : Moves(s, a, f, t)
    BY <1>4, SelectorMoves, Zenon
  <2>2. sel[s].at # "idle" /\ UNCHANGED <<buf, tx, rx, sent>>
    BY <1>4 DEF TimesOut, Abort, MakeWakeFd, queueVars
  <2>3. PICK r \in {<<"timeout">>, <<"aborted">>, <<"error">>} : answer' = [answer EXCEPT ![s] = r]
    BY <1>4, Zenon DEF TimesOut, Abort, MakeWakeFd
  <2> QED BY <1>0, <2>1, <2>2, <2>3 DEF Moves, FiberInside
<1>5. ASSUME MakeWakeFd(s), FreeFds # {} PROVE FiberInside(s) /\ UNCHANGED <<tx, rx, sent>>
  <2>1. PICK f : Moves(s, "register", f, Watch[s]) /\ answer' = answer
    BY <1>5, SelectorMoves, Zenon
  <2> QED BY <1>5, <2>1 DEF MakeWakeFd, queueVars, Moves, FiberInside
<1>6. ASSUME Recheck(s) PROVE FiberInside(s) /\ UNCHANGED <<tx, rx, sent>>
  <2>1. Moves(s, "drop", sel[s].fd, Watch[s]) /\ sel[s].at = "recheck" /\ Selected(s, Dropping(s))
    BY <1>6, SelectorMoves, Zenon DEF Recheck
  <2>2. UNCHANGED <<tx, rx, sent>> /\ \E a : answer' = [answer EXCEPT ![s] = a]
    BY <2>1, SelectedCases, Zenon
  <2> QED BY <1>0, <2>1, <2>2 DEF Moves, FiberInside
<1>7. ASSUME NEW c \in Channels, Register(s, c) PROVE FiberInside(s) /\ UNCHANGED <<tx, rx, sent>>
  <2> DEFINE to == IF sel[s].todo = {c} THEN "recheck" ELSE "register"
  <2>1. Moves(s, to, sel[s].fd, sel[s].todo \ {c})
    BY <1>7, SelectorMoves, Zenon
  <2>2. to # "idle"
    OBVIOUS
  <2> HIDE DEF to
  <2> QED BY <1>7, <2>1, <2>2 DEF Register, queueVars, Moves, FiberInside
<1>8. ASSUME NEW c \in Channels, Deregister(s, c) PROVE FiberInside(s) /\ UNCHANGED <<tx, rx, sent>>
  <2>1. Moves(s, "drop", sel[s].fd, sel[s].todo \ {c})
    BY <1>8, SelectorMoves, Zenon
  <2> QED BY <1>8, <2>1 DEF Deregister, queueVars, Moves, FiberInside
<1>9. ASSUME CloseFd(s) PROVE FiberInside(s) /\ UNCHANGED <<tx, rx, sent>>
  <2>1. PICK a, f, t : Moves(s, a, f, t) /\ (a # "idle" \/ answer[s] # <<"none">>)
    <3>1. CASE answer[s] = <<"none">>
      BY <1>9, <3>1, SelectorMoves
    <3>2. CASE answer[s] # <<"none">>
      BY <1>9, <3>2, SelectorMoves
    <3> QED BY <3>1, <3>2
  <2> QED BY <1>9, <2>1 DEF CloseFd, Unlisted, queueVars, Moves, FiberInside
<1> QED BY <1>1, <1>2, <1>3, <1>4, <1>5, <1>6, <1>7, <1>8, <1>9, Zenon DEF SelectStep

\* Until the outcome is stored a joiner that selects is not answered.
LEMMA NothingBefore ==
    ASSUME SelectInv, JoinInv, NEW s \in Joiners, join[s] = "selecting", slot = "none",
           NEW to, Selected(s, to), ThreadTyped
    PROVE  FALSE
<1>1. s \in Selectors /\ Watch[s] = {Done} /\ Worker \in Producers
  BY ThreadsAssumption
<1>2. work \in {"running", "store", "finalize"}
  BY DEF JoinInv, WorkerAlone, StoredFirst, ThreadTyped, Stages
<1>3. buf[Done] = <<>> /\ Done \in tx[Worker]
  BY <1>2 DEF JoinInv, StoredFirst, WorkerAlone, Stages
<1>4. ~ Hung(Done)
  BY <1>1, <1>3 DEF Hung
<1> QED BY <1>1, <1>3, <1>4, SelectedCases, Zenon

\* Steps inside a primitive.
LEMMA InsideJoins ==
    ASSUME SelectInv, ThreadTyped, JoinInv, Inside, UNCHANGED threadVars
    PROVE  JoinInv'
<1> USE ThreadsAssumption
<1>0. UNCHANGED <<work, result, slot, pulled, join, joined>>
  BY Zenon DEF threadVars
<1>1. ASSUME NEW p \in Producers, WakeStep(p) PROVE JoinInv'
  <2>1. UNCHANGED <<buf, tx, sel, answer>>
    BY <1>1, Zenon DEF WakeStep, LoadFlag, SignalAll, queueVars
  <2> QED BY <1>0, <2>1 DEF JoinInv, WorkerAlone, StoredFirst, JoinsPaired, JoinAnswersOutcome
<1>2. ASSUME NEW s \in Selectors, SelectStep(s) \/ Lapse(s) \/ Abort(s) PROVE JoinInv'
  <2>1. FiberInside(s) /\ UNCHANGED <<tx, rx, sent>>
    BY <1>2, InsideFiber
  <2>2. WorkerAlone'
    <3>1. \A u \in Selectors : sel[u].at = "idle" => sel'[u].at = "idle"
      BY <2>1 DEF FiberInside
    <3> QED BY <1>0, <2>1, <3>1 DEF JoinInv, WorkerAlone
  <2>3. StoredFirst'
    <3>1. buf[Done] = <<>> => buf'[Done] = <<>>
      <4>1. CASE buf' = buf
        BY <4>1
      <4>2. ASSUME NEW to, Selected(s, to) PROVE buf[Done] = <<>> => buf'[Done] = <<>>
        <5>1. PICK c \in Watch[s] :
                \/ buf[c] # <<>> /\ buf' = [buf EXCEPT ![c] = Tail(buf[c])]
                \/ buf' = buf
          BY <4>2, SelectedCases, Zenon
        <5> QED BY <5>1 DEF SelectInv, QueuesTyped
      <4> QED BY <2>1, <4>1, <4>2, Zenon DEF FiberInside
    <3> QED BY <1>0, <3>1 DEF JoinInv, StoredFirst
  <2>4. JoinsPaired'
    <3> SUFFICES ASSUME NEW j \in Joiners
                 PROVE  /\ join[j] # "selecting" => sel'[j].at = "idle"
                        /\ join[j] = "selecting" /\ slot = "none" =>
                             answer'[j] \in {<<"none">>, <<"timeout">>, <<"aborted">>, <<"error">>}
                        /\ join[j] = "selecting" /\ sel'[j].at = "idle" => answer'[j] # <<"none">>
      BY <1>0 DEF JoinsPaired
    <3>1. /\ join[j] # "selecting" => sel[j].at = "idle"
          /\ join[j] = "selecting" /\ slot = "none" =>
               answer[j] \in {<<"none">>, <<"timeout">>, <<"aborted">>, <<"error">>}
          /\ join[j] = "selecting" /\ sel[j].at = "idle" => answer[j] # <<"none">>
      BY DEF JoinInv, JoinsPaired
    <3>2. CASE j # s
      BY <2>1, <3>1, <3>2 DEF FiberInside
    <3>3. CASE j = s
      <4>1. join[j] # "selecting" => sel'[j].at = "idle"
        BY <2>1, <3>1, <3>3 DEF FiberInside
      <4>2. join[j] = "selecting" /\ sel'[j].at = "idle" => answer'[j] # <<"none">>
        BY <2>1, <3>1, <3>3, Zenon DEF FiberInside
      <4>3. ASSUME join[j] = "selecting", slot = "none"
            PROVE  answer'[j] \in {<<"none">>, <<"timeout">>, <<"aborted">>, <<"error">>}
        <5>1. \A to : ~ Selected(s, to)
          BY <3>3, <4>3, NothingBefore, Zenon
        <5> QED BY <2>1, <3>1, <3>3, <4>3, <5>1, Zenon DEF FiberInside
      <4> QED BY <4>1, <4>2, <4>3
    <3> QED BY <3>2, <3>3
  <2>5. JoinAnswersOutcome'
    BY <1>0 DEF JoinInv, JoinAnswersOutcome
  <2> QED BY <2>2, <2>3, <2>4, <2>5 DEF JoinInv
<1> QED BY <1>1, <1>2, Zenon DEF Inside

\* Ordinary traffic, which there is only without a worker.
LEMMA TrafficJoins ==
    ASSUME SelectInv, ThreadTyped, JoinInv, work = "absent",
           Traffic(Producers \ {Worker}, Selectors \ Joiners, Channels \ {Done}),
           UNCHANGED threadVars
    PROVE  JoinInv'
<1> USE ThreadsAssumption
<1>0. UNCHANGED <<work, result, slot, pulled, join, joined>>
  BY Zenon DEF threadVars
<1>1. \A p \in Producers \ {Worker} : Done \notin tx'[p]
  <2>1. tx \in [Producers -> SUBSET Channels] /\ \A p \in Producers \ {Worker} : Done \notin tx[p]
    BY DEF SelectInv, QueuesTyped, JoinInv, WorkerAlone
  <2>2. ASSUME NEW p \in Producers \ {Worker}, NEW c \in Channels \ {Done},
               Send(p, c) \/ CloseTx(p, c) \/ (\E q \in Producers \ {Worker} : Clone(p, q, c))
               \/ (\E s \in Selectors \ Joiners : CloseRx(p, s, c))
        PROVE  \A r \in Producers \ {Worker} : Done \notin tx'[r]
    BY <2>1, <2>2 DEF Send, CloseTx, Clone, CloseRx
  <2>3. ASSUME NEW s \in Selectors \ Joiners,
               Ask(s) \/ \E c \in Channels \ {Done} : Recv(s, c)
        PROVE  tx' = tx
    BY <2>3, Zenon DEF Ask, Recv, queueVars
  <2> QED BY <2>1, <2>2, <2>3, Zenon DEF Traffic
<1>2. buf'[Done] = buf[Done]
  <2>1. buf \in [Channels -> Seq(Nat)]
    BY DEF SelectInv, QueuesTyped
  <2>2. \/ buf' = buf
        \/ \E c \in Channels \ {Done} : \E q : buf' = [buf EXCEPT ![c] = q]
    BY Zenon DEF Traffic, Send, CloseTx, Clone, CloseRx, Ask, Recv, queueVars
  <2> QED BY <2>1, <2>2
<1>3. \A j \in Joiners : sel'[j] = sel[j]
  <2>1. UNCHANGED sel \/ \E s \in Selectors \ Joiners : Ask(s)
    BY Zenon DEF Traffic, Send, CloseTx, Clone, CloseRx, Recv
  <2>2. ASSUME NEW s \in Selectors \ Joiners, Ask(s) PROVE \A j \in Joiners : sel'[j] = sel[j]
    BY <2>2, SelectorMoves DEF Moves
  <2> QED BY <2>1, <2>2
<1>4. WorkerAlone' /\ StoredFirst'
  BY <1>0, <1>1, <1>2 DEF JoinInv, WorkerAlone, StoredFirst, Stages
<1>5. JoinsPaired'
  <2>1. \A j \in Joiners : join[j] = "idle" /\ sel[j].at = "idle"
    BY DEF JoinInv, WorkerAlone, JoinsPaired
  <2> QED BY <1>0, <1>3, <2>1 DEF JoinsPaired
<1>6. JoinAnswersOutcome'
  BY <1>0 DEF JoinInv, JoinAnswersOutcome
<1> QED BY <1>4, <1>5, <1>6 DEF JoinInv

\* The worker's last acts, in the order the code gives them.
LEMMA WorkerJoins ==
    ASSUME SelectInv, ThreadTyped, JoinInv, WorkerStep \/ Kill
    PROVE  ThreadTyped' /\ JoinInv'
<1> USE ThreadsAssumption
<1>0. /\ After("running") = "store" /\ After("store") = "finalize"
      /\ After("finalize") = "signal" /\ After("signal") = "ended"
  BY DEF After
<1>1. ASSUME BodyEnds PROVE ThreadTyped' /\ JoinInv'
  <2>1. /\ work = "running" /\ work' = "store" /\ result' \in Outcomes \cup {"none"}
        /\ UNCHANGED <<buf, tx, sel, answer, slot, join, joined>>
    BY <1>0, <1>1 DEF BodyEnds, vars, Outcomes
  <2> QED BY <2>1 DEF ThreadTyped, JoinInv, WorkerAlone, StoredFirst, JoinsPaired,
          JoinAnswersOutcome, Stages
<1>2. ASSUME StoreOutcome PROVE ThreadTyped' /\ JoinInv'
  <2>1. /\ work = "store" /\ work' = "finalize" /\ slot' = result
        /\ UNCHANGED <<buf, tx, sel, answer, result, join, joined>>
    BY <1>0, <1>2 DEF StoreOutcome, vars
  <2>2. slot = "none"
    BY <2>1 DEF JoinInv, StoredFirst
  <2>3. JoinAnswersOutcome'
    BY <2>1, <2>2 DEF JoinInv, JoinAnswersOutcome, Outcomes
  <2>4. JoinsPaired'
    BY <2>1, <2>2 DEF JoinInv, JoinsPaired
  <2> QED BY <2>1, <2>3, <2>4 DEF ThreadTyped, JoinInv, WorkerAlone, StoredFirst, Stages
<1>3. ASSUME Finalize PROVE ThreadTyped' /\ JoinInv'
  <2>1. /\ work = "finalize" /\ work' = "signal" /\ slot' = (IF slot = "none" THEN "failed" ELSE slot)
        /\ UNCHANGED <<buf, tx, sel, answer, result, join, joined>>
    BY <1>0, <1>3 DEF Finalize, vars
  <2>2. slot' \in Outcomes /\ slot' # "none" /\ (slot # "none" => slot' = slot)
    BY <2>1 DEF ThreadTyped, Outcomes
  <2>3. JoinAnswersOutcome'
    BY <2>1, <2>2 DEF JoinInv, JoinAnswersOutcome, Outcomes
  <2>4. JoinsPaired'
    BY <2>1, <2>2 DEF JoinInv, JoinsPaired
  <2> QED BY <2>1, <2>2, <2>3, <2>4 DEF ThreadTyped, JoinInv, WorkerAlone, StoredFirst, Stages
<1>4. ASSUME SignalDone PROVE ThreadTyped' /\ JoinInv'
  <2>1. /\ work = "signal" /\ work' = "ended"
        /\ UNCHANGED <<tx, sel, answer, result, slot, join, joined>>
    BY <1>0, <1>4 DEF SignalDone, Send
  <2>2. slot # "none"
    BY <2>1 DEF JoinInv, StoredFirst
  <2> QED BY <2>1, <2>2 DEF ThreadTyped, JoinInv, WorkerAlone, StoredFirst, JoinsPaired,
          JoinAnswersOutcome, Stages
<1>5. ASSUME ThreadExits PROVE ThreadTyped' /\ JoinInv'
  <2>1. /\ work = "ended" /\ work' = "gone" /\ tx' = [tx EXCEPT ![Worker] = tx[Worker] \ {Done}]
        /\ UNCHANGED <<buf, sel, answer, result, slot, join, joined>>
    BY <1>5 DEF ThreadExits, DropTx
  <2>2. tx'[Worker] \subseteq {Done} /\ \A p \in Producers \ {Worker} : tx'[p] = tx[p]
    BY <2>1 DEF SelectInv, QueuesTyped, JoinInv, WorkerAlone
  <2> QED BY <2>1, <2>2 DEF ThreadTyped, JoinInv, WorkerAlone, StoredFirst, JoinsPaired,
          JoinAnswersOutcome, Stages
<1>6. ASSUME Kill PROVE ThreadTyped' /\ JoinInv'
  <2>1. UNCHANGED <<buf, tx, sel, answer, work, result, slot, join, joined>>
    BY <1>6, Zenon DEF Kill, vars
  <2> QED BY <2>1 DEF ThreadTyped, JoinInv, WorkerAlone, StoredFirst, JoinsPaired,
          JoinAnswersOutcome
<1> QED BY <1>1, <1>2, <1>3, <1>4, <1>5, <1>6 DEF WorkerStep

\* What a join makes of its answer once there is one.
LEMMA SettledOutcome ==
    ASSUME SelectInv, ThreadTyped, JoinInv, NEW s \in Joiners, join[s] = "selecting",
           sel[s].at = "idle"
    PROVE  Settled(s) # "vanished" /\ (Settled(s) \in Outcomes => Settled(s) = slot)
<1>1. CASE answer[s] \in {<<"timeout">>, <<"aborted">>, <<"error">>}
  <2>1. Settled(s) = answer[s][1]
    BY <1>1, Zenon DEF Settled
  <2>2. answer[s][1] \in {"timeout", "aborted", "error"}
    BY <1>1
  <2> QED BY <2>1, <2>2 DEF Outcomes
<1>2. CASE answer[s] \notin {<<"timeout">>, <<"aborted">>, <<"error">>}
  <2>1. slot # "none"
    BY <1>2 DEF JoinInv, JoinsPaired
  <2>2. Settled(s) = slot
    BY <1>2, <2>1, Zenon DEF Settled
  <2> QED BY <2>1, <2>2 DEF ThreadTyped, Outcomes
<1> QED BY <1>1, <1>2

\* The steps of sys/join.
LEMMA JoinerJoins ==
    ASSUME SelectInv, ThreadTyped, JoinInv, NEW s \in Joiners, Join(s) \/ Await(s) \/ Settle(s)
    PROVE  ThreadTyped' /\ JoinInv'
<1> USE ThreadsAssumption
<1>0. s \in Selectors /\ join \in [Joiners -> {"idle", "pending", "selecting"}]
      /\ DOMAIN joined = Joiners
  BY DEF ThreadTyped
<1>1. ASSUME Join(s) PROVE ThreadTyped' /\ JoinInv'
  <2>1. /\ work # "absent" /\ sel[s].at = "idle"
        /\ UNCHANGED <<buf, tx, sel, answer, work, result, slot>>
        /\ \/ slot # "none" /\ joined' = [joined EXCEPT ![s] = slot] /\ join' = join
           \/ join[s] = "idle" /\ join' = [join EXCEPT ![s] = "pending"] /\ joined' = joined
    BY <1>0, <1>1, SelectorMoves DEF Join, vars
  <2>2. ThreadTyped'
    BY <1>0, <2>1 DEF ThreadTyped
  <2>3. WorkerAlone' /\ StoredFirst'
    BY <2>1 DEF JoinInv, WorkerAlone, StoredFirst
  <2>4. JoinsPaired'
    BY <1>0, <2>1 DEF JoinInv, JoinsPaired
  <2>5. JoinAnswersOutcome'
    BY <1>0, <2>1 DEF JoinInv, JoinAnswersOutcome, ThreadTyped, Outcomes
  <2> QED BY <2>2, <2>3, <2>4, <2>5 DEF JoinInv
<1>2. ASSUME Await(s) PROVE ThreadTyped' /\ JoinInv'
  <2>1. /\ join[s] = "pending" /\ join' = [join EXCEPT ![s] = "selecting"]
        /\ answer' = [answer EXCEPT ![s] = <<"none">>]
        /\ UNCHANGED <<buf, tx, work, result, slot, joined>>
    BY <1>2 DEF Await, Ask, queueVars
  <2>2. Moves(s, "try", None, {})
    BY <1>0, <1>2, SelectorMoves DEF Await
  <2>3. answer'[s] = <<"none">> /\ \A u \in Selectors \ {s} : answer'[u] = answer[u]
    BY <1>0, <2>1 DEF SelectInv, CallsTyped
  <2>4. ThreadTyped'
    BY <1>0, <2>1 DEF ThreadTyped
  <2>5. WorkerAlone' /\ StoredFirst'
    BY <1>0, <2>1, <2>2 DEF JoinInv, WorkerAlone, StoredFirst, Moves
  <2>6. JoinsPaired'
    BY <1>0, <2>1, <2>2, <2>3 DEF JoinInv, JoinsPaired, Moves
  <2>7. JoinAnswersOutcome'
    BY <2>1 DEF JoinInv, JoinAnswersOutcome
  <2> QED BY <2>4, <2>5, <2>6, <2>7 DEF JoinInv
<1>3. ASSUME Settle(s) PROVE ThreadTyped' /\ JoinInv'
  <2>1. /\ join[s] = "selecting" /\ sel[s].at = "idle"
        /\ join' = [join EXCEPT ![s] = "idle"] /\ joined' = [joined EXCEPT ![s] = Settled(s)]
        /\ UNCHANGED <<buf, tx, sel, answer, work, result, slot>>
    BY <1>0, <1>3, SelectorMoves DEF Settle, vars
  <2>2. ThreadTyped'
    BY <1>0, <2>1 DEF ThreadTyped
  <2>3. WorkerAlone' /\ StoredFirst'
    BY <1>0, <2>1 DEF JoinInv, WorkerAlone, StoredFirst
  <2>4. JoinsPaired'
    BY <1>0, <2>1 DEF JoinInv, JoinsPaired
  <2>5. Settled(s) # "vanished" /\ (Settled(s) \in Outcomes => Settled(s) = slot)
    BY <2>1, SettledOutcome
  <2>6. JoinAnswersOutcome'
    BY <1>0, <2>1, <2>5 DEF JoinInv, JoinAnswersOutcome
  <2> QED BY <2>2, <2>3, <2>4, <2>6 DEF JoinInv
<1> QED BY <1>1, <1>2, <1>3

\* The inductive invariant of channels and threads together.
LEMMA ThreadsStepInv == ThreadsInv /\ [Next]_allVars => ThreadsInv'
<1> SUFFICES ASSUME ThreadsInv, [Next]_allVars PROVE ThreadsInv'
  OBVIOUS
<1>1. SelectInv /\ ThreadTyped /\ JoinInv
  BY DEF ThreadsInv, ThreadsTypeOK, SelectInv
<1>2. SelectInv'
  BY <1>1, StepsOfChannels, SelectStepInv
<1>3. ASSUME UNCHANGED threadVars PROVE ThreadTyped'
  BY <1>1, <1>3 DEF threadVars, ThreadTyped
<1>4. ThreadTyped' /\ JoinInv'
  <2>1. CASE UNCHANGED allVars
    <3>1. UNCHANGED threadVars /\ UNCHANGED <<buf, tx, sel, answer>>
      BY <2>1, Zenon DEF allVars, vars
    <3>2. JoinInv'
      BY <1>1, <3>1 DEF threadVars, JoinInv, WorkerAlone, StoredFirst, JoinsPaired,
         JoinAnswersOutcome
    <3> QED BY <1>3, <3>1, <3>2
  <2>2. CASE Next
    <3>1. CASE /\ work = "absent"
               /\ Traffic(Producers \ {Worker}, Selectors \ Joiners, Channels \ {Done})
               /\ UNCHANGED threadVars
      BY <1>1, <1>3, <3>1, TrafficJoins
    <3>2. CASE Inside /\ UNCHANGED threadVars
      BY <1>1, <1>3, <3>2, InsideJoins
    <3>3. CASE WorkerStep \/ Kill
      BY <1>1, <3>3, WorkerJoins
    <3>4. ASSUME NEW s \in Joiners, Join(s) \/ Await(s) \/ Settle(s) PROVE ThreadTyped' /\ JoinInv'
      BY <1>1, <3>4, JoinerJoins
    <3> QED BY <2>2, <3>1, <3>2, <3>3, <3>4, Zenon DEF Next
  <2> QED BY <2>1, <2>2
<1> QED BY <1>2, <1>4 DEF ThreadsInv, ThreadsTypeOK, SelectInv

\* The invariant holds at first.
LEMMA ThreadsInitInv == Init => ThreadsInv
<1> SUFFICES ASSUME Init PROVE ThreadsInv
  OBVIOUS
<1>1. SelectInv
  BY SelectInitInv
<1>2. ThreadTyped
  BY DEF Init, ThreadTyped, Stages
<1>3. /\ tx \in [Producers -> SUBSET Channels] /\ buf[Done] = <<>>
      /\ \A s \in Selectors : sel[s].at = "idle"
  BY <1>1, ThreadsAssumption DEF Init, InitWith, SelectInv, QueuesTyped, AtRest
<1>4. /\ \A p \in Producers \ {Worker} : Done \notin tx[p]
      /\ work # "absent" => tx[Worker] = {Done} /\ \A p \in Producers \ {Worker} : tx[p] = {}
  BY ThreadsAssumption DEF Init, InitWith
<1>5. JoinInv
  BY <1>3, <1>4, ThreadsAssumption DEF Init, JoinInv, WorkerAlone, StoredFirst, JoinsPaired,
     JoinAnswersOutcome, Stages, Outcomes
<1> QED BY <1>1, <1>2, <1>5 DEF ThreadsInv, ThreadsTypeOK, SelectInv

\* Every join of a worker thread, of any number at once, that answers an outcome
\* answers the thread's one outcome, and none that was woken finds the slot still
\* empty (sys/join in stdlib.lisp, concurrency/worker.rs).
THEOREM JoinsAgree == Spec => []JoinAnswersOutcome
<1>1. ThreadsInv => JoinAnswersOutcome
  BY DEF ThreadsInv, JoinInv
<1> QED BY <1>1, ThreadsInitInv, ThreadsStepInv, PTL DEF Spec

-----------------------------------------------------------------------------
(* No wake is lost.                                                        *)

\* What a thread with senders does and tells of; the drop of a worker's last
\* sender is the one thing it does not.
ToldOf(p) ==
    \/ LoadFlag(p) \/ SignalAll(p)
    \/ \E c \in Channels :
          \/ Send(p, c) \/ CloseTx(p, c)
          \/ \E q \in Producers : Clone(p, q, c)
          \/ \E s \in Selectors : CloseRx(p, s, c)

\* The steps there are, told of or not.
LEMMA StepsToldOf ==
    ASSUME [Next]_allVars
    PROVE  \/ \E p \in Producers : ToldOf(p)
           \/ \E s \in Selectors : SelectorDoes(s)
           \/ ThreadExits
           \/ UNCHANGED vars
<1> USE ThreadsAssumption DEF ToldOf, SelectorDoes
<1>1. ASSUME Traffic(Producers \ {Worker}, Selectors \ Joiners, Channels \ {Done})
      PROVE  (\E p \in Producers : ToldOf(p)) \/ \E s \in Selectors : SelectorDoes(s)
  BY <1>1, Zenon DEF Traffic
<1>2. ASSUME Inside
      PROVE  (\E p \in Producers : ToldOf(p)) \/ \E s \in Selectors : SelectorDoes(s)
  BY <1>2, Zenon DEF Inside, WakeStep, SelectStep
<1>3. ASSUME WorkerStep \/ Kill
      PROVE  (\E p \in Producers : ToldOf(p)) \/ ThreadExits \/ UNCHANGED vars
  BY <1>3, Zenon DEF WorkerStep, BodyEnds, StoreOutcome, Finalize, SignalDone, Kill
<1>4. ASSUME NEW s \in Joiners, Join(s) \/ Await(s) \/ Settle(s)
      PROVE  (\E t \in Selectors : SelectorDoes(t)) \/ UNCHANGED vars
  BY <1>4, Zenon DEF Join, Await, Settle
<1>5. CASE UNCHANGED allVars
  BY <1>5, Zenon DEF allVars
<1> QED BY <1>1, <1>2, <1>3, <1>4, <1>5, Zenon DEF Next

\* Somebody is still on its way to wake the parked fiber, or has done so.
Woken(s) == \/ sel[s].fd \in signalled
            \/ \E p \in Producers : prod[p].at # "ready" /\ prod[p].chan \in Watch[s]

\* A parked fiber is in every list, so nobody who passes wake_all passes it by.
LEMMA PassesWake ==
    ASSUME SelectInv, NEW p \in Producers, LoadFlag(p) \/ SignalAll(p),
           NEW s \in Selectors, sel[s].at = "parked", Woken(s)
    PROVE  Woken(s)'
<1> USE DEF SelectInv, CallsTyped
<1>1. sel' = sel /\ signalled \subseteq signalled' /\ \A q \in Producers \ {p} : prod'[q] = prod[q]
  BY DEF LoadFlag, SignalAll, wakeVars
<1>2. CASE sel[s].fd \in signalled
  BY <1>1, <1>2 DEF Woken
<1>3. ASSUME NEW q \in Producers \ {p}, prod[q].at # "ready", prod[q].chan \in Watch[s]
      PROVE  Woken(s)'
  BY <1>1, <1>3 DEF Woken
<1>4. ASSUME prod[p].at # "ready", prod[p].chan \in Watch[s] PROVE Woken(s)'
  <2>1. sel[s].fd \in list[prod[p].chan] /\ prod[p].chan \in Channels
    BY <1>4, ChannelAssumption DEF ChannelInv, ListsExact, Listed
  <2>2. CASE LoadFlag(p)
    <3>1. prod[p].chan \in flag
      BY <2>1 DEF ChannelInv, ListsExact
    <3>2. prod'[p] = [prod[p] EXCEPT !.at = "signal"]
      BY <2>2, <3>1 DEF LoadFlag
    <3>3. prod[p] \in [at : {"wake", "signal"}, chan : Channels]
      BY <1>4 DEF Ready
    <3>4. prod'[p].at = "signal" /\ prod'[p].chan = prod[p].chan
      BY <3>2, <3>3
    <3> QED BY <1>4, <3>4 DEF Woken
  <2>3. CASE SignalAll(p)
    BY <1>1, <2>1, <2>3 DEF SignalAll, Woken
  <2> QED BY <2>2, <2>3
<1> QED BY <1>2, <1>3, <1>4 DEF Woken

\* Whoever makes a select answerable goes on to wake it.
LEMMA ProducerWakes ==
    ASSUME SelectInv, NoLostWake, NEW p \in Producers, ToldOf(p),
           NEW s \in Selectors, sel'[s].at = "parked", Answerable(s)'
    PROVE  Woken(s)'
<1> USE DEF SelectInv, CallsTyped, QueuesTyped
<1>0. Answerable(s) /\ sel[s].at = "parked" => Woken(s)
  BY DEF NoLostWake, Woken
<1>a. Watch[s] \subseteq Channels
  BY ChannelAssumption
<1>1. ASSUME LoadFlag(p) \/ SignalAll(p) PROVE Woken(s)'
  <2>1. UNCHANGED <<buf, tx, rx, sel>>
    BY <1>1, Zenon DEF LoadFlag, SignalAll, queueVars
  <2>2. Answerable(s) /\ sel[s].at = "parked"
    BY <2>1 DEF Answerable, AllOpen, NothingReady, Hung
  <2> QED BY <1>0, <1>1, <2>2, PassesWake
<1>2. ASSUME NEW c \in Channels, prod[p] = Ready, prod' = [prod EXCEPT ![p] = [at |-> "wake", chan |-> c]],
             UNCHANGED <<sel, signalled>>, c \notin Watch[s] => Answerable(s)
      PROVE  Woken(s)'
  <2>1. CASE c \in Watch[s]
    <3>1. prod'[p].at = "wake" /\ prod'[p].chan = c
      BY <1>2
    <3> QED BY <2>1, <3>1 DEF Woken
  <2>2. CASE c \notin Watch[s]
    <3>1. Woken(s)
      BY <1>0, <1>2, <2>2
    <3>2. prod[p].at = "ready" /\ \A q \in Producers \ {p} : prod'[q] = prod[q]
      BY <1>2 DEF Ready
    <3> QED BY <1>2, <3>1, <3>2 DEF Woken
  <2> QED BY <2>1, <2>2
<1>3. ASSUME NEW c \in Channels, Send(p, c) PROVE Woken(s)'
  <2>1. c \notin Watch[s] => Answerable(s)
    <3>1. UNCHANGED <<tx, rx>> /\ \A d \in Channels \ {c} : buf'[d] = buf[d]
      BY <1>3 DEF Send
    <3> QED BY <1>a, <3>1 DEF Answerable, AllOpen, NothingReady, Hung
  <2> QED BY <1>2, <1>3, <2>1, Zenon DEF Send, GoWake, wakeVars
<1>4. ASSUME NEW c \in Channels, CloseTx(p, c) PROVE Woken(s)'
  <2>1. c \notin Watch[s] => Answerable(s)
    <3>1. UNCHANGED <<buf, rx>> /\ \A q \in Producers : \A d \in Channels \ {c} : d \in tx'[q] <=> d \in tx[q]
      BY <1>4 DEF CloseTx
    <3> QED BY <1>a, <3>1 DEF Answerable, AllOpen, NothingReady, Hung
  <2> QED BY <1>2, <1>4, <2>1, Zenon DEF CloseTx, GoWake, wakeVars
<1>5. ASSUME NEW c \in Channels, NEW t \in Selectors, CloseRx(p, t, c) PROVE Woken(s)'
  <2>1. c \notin Watch[s] => Answerable(s)
    <3>1. UNCHANGED <<buf, tx>> /\ \A d \in Channels \ {c} : d \in rx'[s] <=> d \in rx[s]
      BY <1>5 DEF CloseRx
    <3> QED BY <1>a, <3>1 DEF Answerable, AllOpen, NothingReady, Hung
  <2> QED BY <1>2, <1>5, <2>1, Zenon DEF CloseRx, GoWake, wakeVars
<1>6. ASSUME NEW c \in Channels, NEW q \in Producers, Clone(p, q, c) PROVE Woken(s)'
  <2>1. UNCHANGED <<buf, rx, sel, prod, signalled>> /\ \A r \in Producers : tx[r] \subseteq tx'[r]
    BY <1>6 DEF Clone, wakeVars
  <2>2. Answerable(s) /\ sel[s].at = "parked"
    BY <1>a, <2>1 DEF Answerable, AllOpen, NothingReady, Hung
  <2> QED BY <1>0, <2>1, <2>2 DEF Woken
<1> QED BY <1>1, <1>3, <1>4, <1>5, <1>6 DEF ToldOf

\* A selecting fiber takes from the queues and adds nothing, and closes no wake fd
\* but its own.
LEMMA SelectorTakes ==
    ASSUME SelectInv, NEW t \in Selectors, SelectorDoes(t)
    PROVE  /\ UNCHANGED <<tx, rx, prod>>
           /\ \A c \in Channels : buf[c] = <<>> => buf'[c] = <<>>
           /\ \A u \in Selectors \ {t} : sel'[u] = sel[u]
           /\ \A f \in signalled : f \in signalled' \/ (f = sel[t].fd /\ sel[t].at = "drop")
           /\ sel'[t].at = "parked" => (sel' = sel /\ signalled' = signalled) \/ Park(t)
<1> DEFINE Goal == /\ UNCHANGED <<tx, rx, prod>>
                   /\ \A c \in Channels : buf[c] = <<>> => buf'[c] = <<>>
                   /\ \A u \in Selectors \ {t} : sel'[u] = sel[u]
                   /\ \A f \in signalled : f \in signalled' \/ (f = sel[t].fd /\ sel[t].at = "drop")
                   /\ sel'[t].at = "parked" => (sel' = sel /\ signalled' = signalled) \/ Park(t)
<1>1. ASSUME NEW to, Selected(t, to)
      PROVE  UNCHANGED <<tx, rx>> /\ \A c \in Channels : buf[c] = <<>> => buf'[c] = <<>>
  <2>1. PICK c \in Watch[t] :
          \/ buf[c] # <<>> /\ buf' = [buf EXCEPT ![c] = Tail(buf[c])]
          \/ buf' = buf
    BY <1>1, SelectedCases, Zenon
  <2>2. UNCHANGED <<tx, rx>>
    BY <1>1, SelectedCases
  <2> QED BY <2>1, <2>2 DEF SelectInv, QueuesTyped
<1>2. ASSUME Lapse(t) PROVE Goal
  BY <1>2 DEF Lapse, queueVars, wakeVars
<1>3. ASSUME NEW c \in Channels, Recv(t, c) PROVE Goal
  BY <1>3 DEF Recv, wakeVars, SelectInv, QueuesTyped
<1>4. ASSUME TrySelect(t) PROVE Goal
  <2>1. Moves(t, "idle", None, {})
    BY <1>4, SelectorMoves, Zenon
  <2>2. UNCHANGED <<signalled, prod>>
    BY <1>4, Zenon DEF TrySelect, wakeVars
  <2>3. UNCHANGED <<tx, rx>> /\ \A c \in Channels : buf[c] = <<>> => buf'[c] = <<>>
    BY <1>1, <1>4, Zenon DEF TrySelect, queueVars
  <2> QED BY <2>1, <2>2, <2>3 DEF Moves
<1>5. ASSUME Recheck(t) PROVE Goal
  <2>1. Moves(t, "drop", sel[t].fd, Watch[t])
    BY <1>5, SelectorMoves, Zenon
  <2>2. UNCHANGED <<signalled, prod>>
    BY <1>5, Zenon DEF Recheck, wakeVars
  <2>3. UNCHANGED <<tx, rx>> /\ \A c \in Channels : buf[c] = <<>> => buf'[c] = <<>>
    BY <1>1, <1>5, Zenon DEF Recheck
  <2> QED BY <2>1, <2>2, <2>3 DEF Moves
<1>6. ASSUME Ask(t) \/ TryEmpty(t) \/ TimesOut(t) \/ MakeWakeFd(t) \/ Unpark(t) \/ Abort(t) PROVE Goal
  <2>0. \E a \in {"idle", "try", "check", "register", "drop"} : \E f, x : Moves(t, a, f, x)
    BY <1>6, SelectorMoves, Zenon
  <2>1. PICK a, f, x : a \in {"idle", "try", "check", "register", "drop"} /\ Moves(t, a, f, x)
    BY <2>0
  <2>2. UNCHANGED <<buf, tx, rx, prod, signalled>>
    BY <1>6, Zenon DEF Ask, TryEmpty, TimesOut, MakeWakeFd, Unpark, Abort, queueVars, wakeVars
  <2> QED BY <2>1, <2>2 DEF Moves
<1>7. ASSUME NEW c \in Channels, Register(t, c) PROVE Goal
  <2> DEFINE to == IF sel[t].todo = {c} THEN "recheck" ELSE "register"
  <2>1. Moves(t, to, sel[t].fd, sel[t].todo \ {c})
    BY <1>7, SelectorMoves, Zenon
  <2>2. to # "parked"
    OBVIOUS
  <2> HIDE DEF to
  <2>3. UNCHANGED <<buf, tx, rx, prod, signalled>>
    BY <1>7, Zenon DEF Register, queueVars
  <2> QED BY <2>1, <2>2, <2>3 DEF Moves
<1>8. ASSUME NEW c \in Channels, Deregister(t, c) PROVE Goal
  <2>1. Moves(t, "drop", sel[t].fd, sel[t].todo \ {c})
    BY <1>8, SelectorMoves, Zenon
  <2>2. UNCHANGED <<buf, tx, rx, prod, signalled>>
    BY <1>8, Zenon DEF Deregister, queueVars
  <2> QED BY <2>1, <2>2 DEF Moves
<1>9. ASSUME Park(t) PROVE Goal
  <2>1. Moves(t, "parked", sel[t].fd, sel[t].todo)
    BY <1>9, SelectorMoves, Zenon
  <2>2. UNCHANGED <<buf, tx, rx, prod, signalled>>
    BY <1>9, Zenon DEF Park, queueVars, wakeVars
  <2> QED BY <1>9, <2>1, <2>2 DEF Moves
<1>10. ASSUME CloseFd(t) PROVE Goal
  <2>0. \E a \in {"try", "idle"} : \E f, x : Moves(t, a, f, x)
    BY <1>10, SelectorMoves, Zenon
  <2>1. PICK a, f, x : a \in {"try", "idle"} /\ Moves(t, a, f, x)
    BY <2>0
  <2>2. UNCHANGED <<buf, tx, rx, prod>> /\ signalled' = signalled \ {sel[t].fd} /\ sel[t].at = "drop"
    BY <1>10 DEF CloseFd, Unlisted, queueVars
  <2> QED BY <2>1, <2>2 DEF Moves
<1> QED BY <1>2, <1>3, <1>4, <1>5, <1>6, <1>7, <1>8, <1>9, <1>10, Zenon DEF SelectorDoes

\* A fiber parks only on receivers with nothing to answer, and stays woken.
LEMMA SelectorWakes ==
    ASSUME SelectInv, NoLostWake, NEW t \in Selectors, SelectorDoes(t),
           NEW s \in Selectors, sel'[s].at = "parked", Answerable(s)'
    PROVE  Woken(s)'
<1>1. /\ UNCHANGED <<tx, rx, prod>>
      /\ \A c \in Channels : buf[c] = <<>> => buf'[c] = <<>>
      /\ \A u \in Selectors \ {t} : sel'[u] = sel[u]
      /\ \A f \in signalled : f \in signalled' \/ (f = sel[t].fd /\ sel[t].at = "drop")
      /\ sel'[t].at = "parked" => (sel' = sel /\ signalled' = signalled) \/ Park(t)
  BY SelectorTakes
<1>2. Answerable(s)
  BY <1>1, ChannelAssumption DEF Answerable, AllOpen, NothingReady, Hung
<1>3. CASE s # t
  <2>1. sel[s].at = "parked" /\ sel'[s] = sel[s]
    BY <1>1, <1>3
  <2>2. Woken(s)
    BY <1>2, <2>1 DEF NoLostWake, Woken
  <2>3. sel[t].at = "drop" => sel[t].fd # sel[s].fd
    BY <1>3, <2>1 DEF SelectInv, ChannelInv, GuardsPaired, Guarded
  <2> QED BY <1>1, <2>1, <2>2, <2>3 DEF Woken
<1>4. CASE s = t /\ Park(t)
  <2>1. AllOpen(s)
    BY <1>4 DEF Park, NothingToAnswer, SelectInv, ChannelInv, CallsOpen
  <2>2. NothingReady(s)
    BY <1>4, <2>1 DEF Park, NothingToAnswer
  <2> QED BY <1>2, <2>1, <2>2 DEF Answerable
<1>5. CASE s = t /\ sel' = sel /\ signalled' = signalled
  <2>1. Woken(s)
    BY <1>2, <1>5 DEF NoLostWake, Woken
  <2> QED BY <1>1, <1>5, <2>1 DEF Woken
<1> QED BY <1>1, <1>3, <1>4, <1>5

\* The last sender is dropped in silence: the sentinel still waits for the joiner.
LEMMA ExitWakes ==
    ASSUME ThreadsInv, SentinelWaits, NoLostWake, ThreadExits,
           NEW s \in Selectors, sel'[s].at = "parked"
    PROVE  Woken(s)'
<1>1. /\ work = "ended" /\ UNCHANGED <<buf, rx, sel, prod, signalled, answer>>
  BY DEF ThreadExits, DropTx, wakeVars
<1>2. s \in Joiners /\ Watch[s] = {Done}
  BY <1>1, ThreadsAssumption DEF ThreadsInv, JoinInv, WorkerAlone
<1>3. join[s] = "selecting" /\ answer[s] = <<"none">>
  BY <1>1, <1>2 DEF ThreadsInv, JoinInv, JoinsPaired, ChannelInv, CallsOpen
<1>4. buf[Done] # <<>>
  BY <1>1, <1>2, <1>3 DEF SentinelWaits
<1>5. Answerable(s)
  BY <1>2, <1>4 DEF Answerable, NothingReady
<1>6. Woken(s)
  BY <1>1, <1>5 DEF NoLostWake, Woken
<1> QED BY <1>1, <1>6 DEF Woken

\* The sentinel stays until the one joiner takes it.
LEMMA SentinelStep ==
    ASSUME OneJoiner, ThreadsInv, SentinelWaits, [Next]_allVars
    PROVE  SentinelWaits'
<1>0. SelectInv /\ ThreadTyped /\ JoinInv
  BY DEF ThreadsInv, ThreadsTypeOK, SelectInv
<1> SUFFICES ASSUME NEW j \in Joiners, work' \in {"ended", "gone"},
                    join'[j] = "pending" \/ (join'[j] = "selecting" /\ answer'[j] = <<"none">>)
             PROVE  buf'[Done] # <<>>
  BY DEF SentinelWaits
<1> USE ThreadsAssumption
<1>a. j \in Selectors
  OBVIOUS
<1>b. work \in {"ended", "gone"} /\ (join[j] = "pending" \/ (join[j] = "selecting" /\ answer[j] = <<"none">>))
      => buf[Done] # <<>>
  BY DEF SentinelWaits
<1>c. join \in [Joiners -> {"idle", "pending", "selecting"}] /\ buf \in [Channels -> Seq(Nat)]
      /\ DOMAIN answer = Selectors
  BY <1>0 DEF ThreadTyped, SelectInv, QueuesTyped, CallsTyped
<1>1. CASE UNCHANGED allVars \/ (WorkerStep /\ ~ SignalDone) \/ Kill
  <2>1. UNCHANGED <<buf, answer, join>>
    BY <1>1, Zenon DEF allVars, vars, threadVars, WorkerStep, BodyEnds, StoreOutcome, Finalize,
       ThreadExits, DropTx, Kill
  <2>2. work \in {"ended", "gone"}
    <3>1. /\ After("running") = "store" /\ After("store") = "finalize" /\ After("finalize") = "signal"
      BY DEF After
    <3> QED BY <1>1, <3>1 DEF allVars, threadVars, WorkerStep, BodyEnds, StoreOutcome, Finalize,
            ThreadExits, Kill
  <2> QED BY <1>b, <2>1, <2>2
<1>2. CASE SignalDone
  <2>1. buf' = [buf EXCEPT ![Done] = Append(buf[Done], sent + 1)]
    BY <1>2 DEF SignalDone, Send
  <2>2. buf'[Done] = Append(buf[Done], sent + 1) /\ buf[Done] \in Seq(Nat) /\ sent + 1 \in Nat
    BY <1>0, <1>c, <2>1 DEF SelectInv, QueuesTyped
  <2> QED BY <2>2
<1>3. ASSUME work = "absent", UNCHANGED threadVars PROVE FALSE
  BY <1>3 DEF threadVars
<1>4. CASE Inside /\ UNCHANGED threadVars
  <2>0. UNCHANGED <<work, join, slot>>
    BY <1>4, Zenon DEF threadVars
  <2>1. ASSUME NEW p \in Producers, WakeStep(p) PROVE UNCHANGED <<buf, answer>>
    BY <2>1, Zenon DEF WakeStep, LoadFlag, SignalAll, queueVars
  <2>2. ASSUME NEW s \in Selectors, SelectStep(s) \/ Lapse(s) \/ Abort(s) PROVE buf'[Done] # <<>>
    <3>1. FiberInside(s)
      BY <1>0, <2>2, InsideFiber
    <3>2. CASE buf' = buf /\ answer'[s] \in {answer[s], <<"timeout">>, <<"aborted">>, <<"error">>}
      <4>1. /\ <<"error">> # <<"none">> /\ <<"timeout">> # <<"none">> /\ <<"aborted">> # <<"none">>
        OBVIOUS
      <4>2. answer'[j] = <<"none">> => answer[j] = <<"none">>
        BY <1>a, <3>1, <3>2, <4>1, Zenon DEF FiberInside
      <4> QED BY <1>b, <2>0, <3>2, <4>2
    <3>3. ASSUME sel[s].at \in {"try", "recheck"}, NEW to, Selected(s, to) PROVE FALSE
      <4>1. s \in Joiners
        BY <1>0, <2>0, <3>3 DEF JoinInv, WorkerAlone
      <4>2. s = j
        BY <4>1 DEF OneJoiner
      <4>3. answer'[j] # <<"none">>
        BY <1>0, <3>3, <4>2, SelectedCases, Zenon
      <4>4. join[j] = "selecting"
        BY <1>0, <3>3, <4>2 DEF JoinInv, JoinsPaired
      <4> QED BY <2>0, <4>3, <4>4
    <3> QED BY <3>1, <3>2, <3>3, Zenon DEF FiberInside
  <2> QED BY <1>4, <1>b, <2>0, <2>1, <2>2, Zenon DEF Inside
<1>5. ASSUME NEW s \in Joiners, Join(s) \/ Await(s) \/ Settle(s) PROVE buf'[Done] # <<>>
  <2>0. UNCHANGED <<work, buf>> /\ s = j /\ (work \in {"ended", "gone"} => slot # "none")
    BY <1>0, <1>5 DEF Join, Await, Ask, Settle, vars, queueVars, OneJoiner, JoinInv, StoredFirst
  <2>1. CASE Join(s)
    BY <1>b, <1>c, <2>0, <2>1 DEF Join, vars
  <2>2. CASE Await(s)
    BY <1>b, <1>c, <2>0, <2>2 DEF Await
  <2>3. CASE Settle(s)
    BY <1>c, <2>0, <2>3 DEF Settle
  <2> QED BY <1>5, <2>1, <2>2, <2>3
<1> QED BY <1>1, <1>2, <1>3, <1>4, <1>5, Zenon DEF Next

\* A parked chan/select that could be answered has been woken or is about to be,
\* for every number of channels, threads and selecting fibers, as long as no two
\* fibers join the worker: the drop of a worker's last sender tells nobody, and
\* only one joiner can have taken the sentinel before it.
THEOREM NoWakeIsLost ==
    ASSUME OneJoiner
    PROVE  Spec => []NoLostWake
<1>1. Init => WakeInv
  <2> SUFFICES ASSUME Init PROVE WakeInv
    OBVIOUS
  <2>1. SentinelWaits
    BY DEF Init, SentinelWaits
  <2>2. NoLostWake
    BY DEF Init, InitWith, AtRest, NoLostWake
  <2> QED BY <2>1, <2>2, ThreadsInitInv DEF WakeInv
<1>2. WakeInv /\ [Next]_allVars => WakeInv'
  <2> SUFFICES ASSUME WakeInv, [Next]_allVars PROVE WakeInv'
    OBVIOUS
  <2>1. ThreadsInv /\ SentinelWaits /\ NoLostWake /\ SelectInv
    BY DEF WakeInv, ThreadsInv, ThreadsTypeOK, SelectInv
  <2>2. ASSUME NEW s \in Selectors, sel'[s].at = "parked", Answerable(s)' PROVE Woken(s)'
    <3>1. CASE UNCHANGED vars
      <4>1. UNCHANGED <<buf, tx, rx, sel, prod, signalled>>
        BY <3>1, Zenon DEF vars
      <4>2. Answerable(s) /\ sel[s].at = "parked"
        BY <2>2, <4>1 DEF Answerable, AllOpen, NothingReady, Hung
      <4> QED BY <2>1, <4>1, <4>2 DEF NoLostWake, Woken
    <3> QED BY <2>1, <2>2, <3>1, StepsToldOf, ProducerWakes, SelectorWakes, ExitWakes
  <2>3. NoLostWake'
    BY <2>2 DEF NoLostWake, Woken
  <2> QED BY <2>1, <2>3, ThreadsStepInv, SentinelStep DEF WakeInv
<1>3. WakeInv => NoLostWake
  BY DEF WakeInv
<1> QED BY <1>1, <1>2, <1>3, PTL DEF Spec
=============================================================================
