--------------------------- MODULE ProcessesProps ---------------------------
(***************************************************************************)
(* What the process library must guarantee.                                *)
(***************************************************************************)
EXTENDS Processes

Box(p) == t.save[p] \o t.mbox[p]
Count(s, x) == Cardinality({i \in DOMAIN s : s[i] = x})

\* The two sides of a link and of a monitor agree between live processes, and a
\* live process watches only live ones: the rest of its monitors have spoken.  A
\* monitor speaks once and for the last time.
TablesAgree ==
    /\ \A p, q \in t.alive : q \in t.links[p] <=> p \in t.links[q]
    /\ \A p \in t.alive : \A m \in t.monitors[p] :
          Alive(t, m[2]) /\ <<m[1], p>> \in t.watchers[m[2]] /\ t.downs[m[1]] = 0
    /\ \A p, q \in t.alive : \A r \in 0..MaxRefs : <<r, p>> \in t.watchers[q] => <<r, q>> \in t.monitors[p]
    /\ \A r \in 0..MaxRefs : t.downs[r] <= 1

\* A live process is in one place: about to run, blocked in a receive, or waiting
\* for I/O, whatever ended its last wait.
OnePlace ==
    \A p \in t.alive :
        LET reaped == phase \in {"slept", "late"} /\ Contains(batch, p) IN
        Count(t.ready, p) + Count(t.waiting, p) + Count(batch, p)
          + (IF p \in t.io /\ ~reaped THEN 1 ELSE 0) = 1

\* An exit that is not normal takes along every process linked to it that does
\* not trap exits, through any chain of links, and tells every one that does.
ExitsSpread ==
    [][\A p \in t.alive \ t'.alive, q \in t.alive :
          ~Normal(t'.reason[p]) /\ q \in t.links[p] /\ q # p =>
              \/ q \notin t'.alive
              \/ t.trapping[q] /\ \E i \in DOMAIN t'.mbox[q] : SubSeq(t'.mbox[q][i], 1, 2) = <<"EXIT", p>>]_vars

SameKey(m, n) == m = n \/ (Len(m) > 1 /\ Len(n) > 1 /\ SubSeq(m, 1, 2) = SubSeq(n, 1, 2))

\* Selective receive takes the first message that matches and leaves the others
\* in the order they came, however often a blocked receive passes them over.
MailInOrder ==
    [][scene = "mail" =>
        \A p \in t'.alive :
            LET B == Box(p) IN
            \/ IsPrefix(B, Box(p)')
            \/ \E i \in DOMAIN B : /\ IsPrefix(RemoveAt(B, i), Box(p)')
                                   /\ t'.resume[p] = B[i]
                                   /\ \A j \in 1 .. i - 1 : ~SameKey(B[i], B[j])]_vars

-----------------------------------------------------------------------------
\* A call that is over, by its reply, its deadline or the server's exit, in
\* whatever order those came, leaves its caller nothing: no monitor, no alias, no
\* timer, no message.
CallLeavesNothing ==
    scene = "call" /\ pc[0].at = "client" /\ Alive(t, 0) =>
        /\ t.monitors[0] = {} /\ t.aliases[0] = {}
        /\ \A i \in DOMAIN t.timers : t.timers[i].pid # 0
        /\ \A i \in DOMAIN Box(0) : Box(0)[i][1] = "user"

Calling == scene = "call" /\ Alive(t, 0) /\ pc[0].at # "client"

\* The scheduler reports a deadlock only when nothing could wake anybody: every
\* live process is blocked, none on a message it has, a deadline it set or, in a
\* call, a server that has exited.
DeadlockIsReal ==
    phase = "deadlock" =>
        /\ \A p \in t.alive : /\ Contains(t.waiting, p) /\ t.timerRef[p] = None
                              /\ \A i \in DOMAIN Box(p) : ~Matches(t.pred[p], Box(p)[i])
        /\ ~(Calling /\ (pc[0].timed \/ ~Alive(t, 1)))

-----------------------------------------------------------------------------
StartedAs(c) == {p \in t.alive : sup.ids[p] = c}
SupIdle == Alive(t, 1) /\ Contains(t.waiting, 1) /\ pc[1].at = "sup-got" /\ Box(1) = <<>>

\* A child never runs twice at once, and none outlives its supervisor, whether it
\* gave up, lost its parent or was killed between two steps of a restart.  A
\* supervisor with nothing left to do knows exactly the children that live, and
\* every permanent child lives.
ChildrenAccounted ==
    scene = "supervisor" =>
        /\ \A c \in Children : Cardinality(StartedAs(c)) <= IF Alive(t, 1) THEN 1 ELSE 0
        /\ SupIdle => \A c \in Children :
              /\ StartedAs(c) = {sup.kids[c]} \ {None}
              /\ Known(sup, c) /\ sup.policy[c] = "permanent" => StartedAs(c) # {}
              /\ ~Known(sup, c) => StartedAs(c) = {}

-----------------------------------------------------------------------------
\* recv-timeout answers :timeout only after it has waited.
TimeoutWaits == [][\A p \in Pids : CmdRecvTimeout(p) => t'.resume[p] # <<"timeout">>]_vars
=============================================================================
