---------------------------- MODULE ThreadsProps ----------------------------
(* The properties of channels, chan/select, worker threads and sys/join.   *)
EXTENDS Threads

\* Something a select over these receivers would answer.
Answerable(s) == ~AllOpen(s) \/ ~NothingReady(s)

\* A parked chan/select that would be answered if it looked again is woken: its
\* wake fd is readable already, or some thread that sent or closed is still on
\* its way through wake_all (WakeList::wake_all, chan/wait-ready's re-check).
NoLostWake ==
    \A s \in Selectors :
        sel[s].at = "parked" /\ Answerable(s) =>
            \/ sel[s].fd \in signalled
            \/ \E p \in Producers : prod[p].at # "ready" /\ prod[p].chan \in Watch[s]

\* A descriptor in a wake list is open and is the wake fd of a guard that still
\* counts that list among its own, so wake_all never writes to a number the kernel
\* has handed to somebody else; and an open wake fd belongs to a call that is
\* still under way, so no path out of a park leaks one (ChanSelectGuard::drop).
FdsOwned ==
    /\ \A c \in Channels : \A f \in list[c] :
          /\ owner[f] # None /\ sel[owner[f]].fd = f
          /\ c \in Watch[owner[f]]
          /\ sel[owner[f]].at = "drop" => c \in sel[owner[f]].todo
          /\ c \in flag
    /\ \A f \in Fds :
          IF owner[f] = None THEN f \notin signalled
          ELSE sel[owner[f]].fd = f /\ sel[owner[f]].at \in {"register", "recheck", "parked", "drop"}

\* Whose call has not been answered.
Waiting == {s \in Selectors : sel[s].at # "idle" /\ answer[s] = <<"none">>}

\* chan/select implements one blocking choice: with the wake fds, the lists and
\* the flag hidden, every step is a step of BlockingSelect or none, and a caller
\* that stays answerable is answered.
Blocking == INSTANCE BlockingSelect WITH waiting <- Waiting

ImplementsBlockingSelect == Blocking!Spec

-----------------------------------------------------------------------------
\* Every join that answers an outcome answers the one outcome of the thread, for
\* good, and no join that was woken finds the slot still empty: the worker stores
\* before it signals, a panic stores too, and nothing is stored over an outcome
\* (worker.rs, sys/join).
JoinAnswersOutcome ==
    \A s \in Joiners :
        /\ joined[s] # "vanished"
        /\ joined[s] \in Outcomes => joined[s] = slot

\* With no bound, sys/join waits until the thread completes and no longer: once
\* the outcome is stored, a joiner that is waiting is answered (docs/threads.md).
JoinReturns ==
    \A s \in Joiners : (slot # "none" /\ join[s] # "idle") ~> (join[s] = "idle")
=============================================================================
