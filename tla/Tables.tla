------------------------------- MODULE Tables -------------------------------
(***************************************************************************)
(* The mutable tables and arrays of the Elle runtime, as values.           *)
(*                                                                         *)
(* An Elle table `@{}` is a function whose domain is the set of keys it    *)
(* holds: `(get t k)` answers nil exactly when k is not in the domain, and *)
(* `(length t)` is the number of keys.  An Elle array `@[]` is a sequence. *)
(***************************************************************************)
EXTENDS Naturals, Sequences, SequencesExt

\* The table with no key.
Empty == [k \in {} |-> k]

\* (put t k v)
Put(t, k, v) == [x \in DOMAIN t \cup {k} |-> IF x = k THEN v ELSE t[x]]

\* (del t k): a key the table does not hold is left alone.
Del(t, k) == [x \in DOMAIN t \ {k} |-> t[x]]

\* A table from keys K to values V.
IsTable(t, K, V) == DOMAIN t \subseteq K /\ \A k \in DOMAIN t : t[k] \in V

\* No value is in the array twice.
Distinct(q) == \A i, j \in 1..Len(q) : q[i] = q[j] => i = j

\* leave-array.  The loop takes out every occurrence; a fiber is in an array
\* at most once (SchedProps!SingleWait), so there is at most one to take out.
LeaveArray(q, f) ==
    IF \E i \in 1..Len(q) : q[i] = f
    THEN RemoveAt(q, CHOOSE i \in 1..Len(q) : q[i] = f)
    ELSE q

\* Slips of leave-queue: the key outlives its last waiter; the key goes with
\* any waiter.
LeaveQueueKeepsKey(t, k, f) ==
    IF k \in DOMAIN t THEN Put(t, k, LeaveArray(t[k], f)) ELSE t
LeaveQueueDropsAll(t, k, f) == Del(t, k)

\* leave-queue: the key goes with its last waiter.
LeaveQueue(t, k, f) ==
    IF k \notin DOMAIN t THEN t
    ELSE LET q == LeaveArray(t[k], f)
         IN  IF q = <<>> THEN Del(t, k) ELSE Put(t, k, q)
=============================================================================
