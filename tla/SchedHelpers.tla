---------------------------- MODULE SchedHelpers ----------------------------
(***************************************************************************)
(* The helper functions of the async scheduler, and its questions about    *)
(* the tables.                                                             *)
(*                                                                         *)
(* A slip is a helper as it would be with a plausible mistake in the code. *)
(* No specification uses it; put in place of the helper after it, it shows *)
(* which property notices the mistake.                                     *)
(***************************************************************************)
EXTENDS SchedState

\* Slips: the park queue, the waiter list or the select set is left as it was.
StaysParked(f) ==
    /\ fiberJoin' = Del(fiberJoin, f)
    /\ waiters' = IF f \in DOMAIN fiberJoin
                  THEN LeaveQueue(waiters, fiberJoin[f], f)
                  ELSE waiters
    /\ selectSets' = Del(selectSets, f)
    /\ UNCHANGED <<fiberPark, parkQueues>>
StaysListed(f) ==
    /\ fiberJoin' = Del(fiberJoin, f)
    /\ selectSets' = Del(selectSets, f)
    /\ UNCHANGED <<waiters, fiberPark, parkQueues>>
StaysSelecting(f) ==
    /\ fiberJoin' = Del(fiberJoin, f)
    /\ waiters' = IF f \in DOMAIN fiberJoin
                  THEN LeaveQueue(waiters, fiberJoin[f], f)
                  ELSE waiters
    /\ UNCHANGED <<selectSets, fiberPark, parkQueues>>

\* leave-waits: f leaves the park queue, the waiter list and the select set.
LeaveWaits(f) ==
    /\ fiberPark' = Del(fiberPark, f)
    /\ parkQueues' = IF f \in DOMAIN fiberPark
                     THEN LeaveQueue(parkQueues, fiberPark[f], f)
                     ELSE parkQueues
    /\ fiberJoin' = Del(fiberJoin, f)
    /\ waiters' = IF f \in DOMAIN fiberJoin
                  THEN LeaveQueue(waiters, fiberJoin[f], f)
                  ELSE waiters
    /\ selectSets' = Del(selectSets, f)

\* Give back the operation f waits on: both halves of the pairing, and the
\* submission itself (io/cancel).
CancelIo(f) ==
    IF f \in DOMAIN fiberIo
    THEN /\ fiberIo' = Del(fiberIo, f)
         /\ pending' = Del(pending, fiberIo[f])
         /\ inflight' = inflight \ {fiberIo[f]}
    ELSE UNCHANGED ioVars

\* A slip: fiber-io keeps its half.
DropsHalf(id, f) == pending' = Del(pending, id) /\ UNCHANGED fiberIo

\* Both halves of the pairing of id and f go, where the operation is over.
DropPair(id, f) == pending' = Del(pending, id) /\ fiberIo' = Del(fiberIo, f)

\* retire-fiber
RetireFiber(f) ==
    IF /\ f \notin Entry
       /\ f \in joined \/ (f \in DOMAIN completed /\ completed[f] = "ok")
    THEN completed' = Del(completed, f) /\ joined' = joined \ {f}
    ELSE UNCHANGED <<completed, joined>>

\* The copy gave the key w; the live table gives the entry.
Names(w, f) == w \in DOMAIN selectSets /\ f \in selectSets[w]

\* Slips: get-completion reads the status alone; does not expect a fiber that
\* returned.
UnnoticedByStatus(t) == t \notin DOMAIN completed /\ (IsDead(st[t]) \/ st[t] = "error")
UnnoticedFailure(t) == t \notin DOMAIN completed /\ Failed(st[t])

\* get-completion on t, when it answers: the record, or a completion recorded
\* now for a fiber that ended by a path the scheduler did not route.
Recorded(t) == t \in DOMAIN completed

Unnoticed(t) == ~Recorded(t) /\ Terminated(st[t])

\* Slips: the count is not kept; the copy is trusted; the last permit is not used.
PermitUncounted(fr, f) == f \in DOMAIN fiberPark /\ fiberPark[f] = fr.key
PermitUnchecked(fr, f) == fr.left > 0
PermitOffByOne(fr, f) ==
    fr.left > 1 /\ f \in DOMAIN fiberPark /\ fiberPark[f] = fr.key

\* f gets a permit of the wake: one is left, and f is still parked on its key.
Permit(fr, f) == fr.left > 0 /\ f \in DOMAIN fiberPark /\ fiberPark[f] = fr.key

\* A slip: the operation is forgotten and not cancelled.
ForgetsForward(id) == forwarded' = Del(forwarded, id) /\ UNCHANGED inflight

\* Give back a forwarded operation.
CancelForward(id) ==
    IF id \in DOMAIN forwarded
    THEN forwarded' = Del(forwarded, id) /\ inflight' = inflight \ {id}
    ELSE UNCHANGED <<forwarded, inflight>>

\* A slip: the request is heeded only while there is an operation to cancel.
AskedWithIo == shutdownReq # "no" /\ DOMAIN pending # {}

\* step looks at the request before it waits.
ShutdownAsked == shutdownReq # "no"

\* A slip: what the teardown itself raised comes back as a failure.
UnjoinedOrKilled == {f \in DOMAIN completed : completed[f] = "error" /\ f \notin joined}

\* The failures the tail of :pump may raise.
Unjoined == {f \in DOMAIN completed : completed[f] = "error" /\ f \notin joined \cup killed}
=============================================================================
