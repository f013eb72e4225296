---------------------------- MODULE BoundedQueue ----------------------------
(***************************************************************************)
(* What make-queue promises (lib/sync.lisp): a bounded FIFO queue whose    *)
(* callers block, and whose close lets everyone go.  There is no lock and  *)
(* no condition here: a call is answered in one step.                      *)
(***************************************************************************)
EXTENDS Naturals, Sequences

CONSTANTS Fibers, Cap

VARIABLES
    buf,       \* the items, oldest first; an item is the fiber that put it
    closed,
    wants,     \* fiber -> the call it has not been answered: "none" if none
    got        \* fiber -> what its last take answered

vars == <<buf, closed, wants, got>>

Init ==
    /\ buf = <<>> /\ closed = FALSE
    /\ wants = [f \in Fibers |-> "none"]
    /\ got = [f \in Fibers |-> <<>>]

Call(f) ==
    /\ wants[f] = "none"
    /\ \E c \in {"put", "take", "close"} : wants' = [wants EXCEPT ![f] = c]
    /\ UNCHANGED <<buf, closed, got>>

Answered(f) == wants' = [wants EXCEPT ![f] = "none"]

Put(f) ==
    /\ wants[f] = "put" /\ Answered(f)
    /\ \/ closed /\ UNCHANGED buf
       \/ ~closed /\ Len(buf) < Cap /\ buf' = Append(buf, f)
    /\ UNCHANGED <<closed, got>>

Take(f) ==
    /\ wants[f] = "take" /\ Answered(f)
    /\ \/ /\ buf # <<>>
          /\ buf' = Tail(buf)
          /\ got' = [got EXCEPT ![f] = <<Head(buf)>>]
       \/ /\ buf = <<>> /\ closed
          /\ got' = [got EXCEPT ![f] = <<>>]
          /\ UNCHANGED buf
    /\ UNCHANGED closed

Close(f) ==
    /\ wants[f] = "close" /\ Answered(f)
    /\ closed' = TRUE
    /\ UNCHANGED <<buf, got>>

\* An abort ends a call without an answer.
GiveUp(f) == wants[f] # "none" /\ Answered(f) /\ UNCHANGED <<buf, closed, got>>

Next == \E f \in Fibers : Call(f) \/ Put(f) \/ Take(f) \/ Close(f) \/ GiveUp(f)

\* A call that can be answered is answered.
Spec == /\ Init /\ [][Next]_vars
        /\ \A f \in Fibers : WF_vars(Put(f)) /\ WF_vars(Take(f)) /\ WF_vars(Close(f))
=============================================================================
