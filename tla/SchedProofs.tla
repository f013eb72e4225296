---------------------------- MODULE SchedProofs -----------------------------
(***************************************************************************)
(* Type correctness of the async scheduler and the soundness of its        *)
(* reverse lookups, proved for every set of fibers, keys and ids and for   *)
(* every discipline of the programs: nothing is assumed of Careless.       *)
(*                                                                         *)
(* LookupsSound is not inductive alone.  The teardown walks a copy of the  *)
(* pending table while the handlers it runs submit operations of their     *)
(* own, so the proof carries what that copy still knows: an id of the copy *)
(* that is pending is pending for the fiber the copy names (StackOK).      *)
(***************************************************************************)
EXTENDS SchedProps, TableFacts

-----------------------------------------------------------------------------
(* The inductive invariant, in parts an action rarely disturbs together.   *)

CoreOK ==
    /\ st \in [Fibers -> Status]
    /\ budget \in [Fibers -> 0..MaxOps]
    /\ runnable \in Seq(Fibers)
    /\ IsTable(forwarded, Ids, Keys)
    /\ IsTable(completed, Fibers, {"ok", "error"})
    /\ joined \subseteq Fibers /\ observed \subseteq Fibers /\ killed \subseteq Fibers
    /\ shutdownReq \in {"no", "unbounded", "bounded"}
    /\ loop \in Loops
    /\ mode \in {"poll", "block"}

IoPart ==
    /\ IsTable(pending, Ids, Fibers)
    /\ IsTable(fiberIo, Fibers, Ids)
    /\ inflight \subseteq Ids
    /\ IoLookup

WaitPart ==
    /\ IsTable(fiberPark, Fibers, Keys)
    /\ IsTable(parkQueues, Keys, Seq(Fibers))
    /\ IsTable(fiberJoin, Fibers, Fibers)
    /\ IsTable(waiters, Fibers, Seq(Fibers))
    /\ IsTable(selectSets, Fibers, SUBSET Fibers)
    /\ JoinLookup
    /\ ParkLookup

\* The phases of the teardown that hold submissions.
Phases == {"abortIo", "unwinding"}

\* With :pump at lp and the table pd of submissions: these phases run only in
\* the teardown, and the copy of the first one names the right fibers.
FrameOK(fr, lp, pd) ==
    /\ fr.at \in Phases => lp \notin {"drain", "wait", "after"}
    /\ fr.at = "abortIo" => \A p \in fr.copy : p[1] \in DOMAIN pd => pd[p[1]] = p[2]

StackOK(s, lp, pd) == s \in Seq(Frame) /\ \A fr \in Range(s) : FrameOK(fr, lp, pd)

SchedInv == CoreOK /\ IoPart /\ WaitPart /\ StackOK(stack, loop, pending)

-----------------------------------------------------------------------------
(* Frames.                                                                 *)

\* The constructors build frames, and none of them one of these phases but the second.
LEMMA NewFrames ==
    /\ \A f \in Fibers : Resume(f) \in Frame /\ Resume(f).at \notin Phases
    /\ \A f \in Fibers, p \in BOOLEAN : Raise(f, p) \in Frame /\ Raise(f, p).at \notin Phases
    /\ \A f \in Fibers, how \in {"resume", "abort"} :
         Run(f, how) \in Frame /\ Run(f, how).at \notin Phases
    /\ \A f \in Fibers : Joins(f) \in Frame /\ Joins(f).at \notin Phases
    /\ \A f \in Fibers, S \in SUBSET Fibers :
         Selects(f, S) \in Frame /\ Selects(f, S).at \notin Phases
    /\ \A k \in Keys, q \in Seq(Fibers), n \in Nat, c \in Fibers \cup {None} :
         Wake(k, q, n, c) \in Frame /\ Wake(k, q, n, c).at \notin Phases
    /\ \A B \in SUBSET Ids, K \in SUBSET Keys :
         Completions(B, K) \in Frame /\ Completions(B, K).at \notin Phases
    /\ \A S \in SUBSET Fibers : AbortParked(S) \in Frame /\ AbortParked(S).at \notin Phases
    /\ \A B \in SUBSET Ids : Unwinding(B) \in Frame /\ Unwinding(B).at = "unwinding"
BY DEF Phases, Frame, Resume, Raise, Run, Joins, Selects, Wake, Completions, AbortParked, Unwinding

\* What a frame holds.
LEMMA FrameFields ==
    ASSUME NEW fr \in Frame
    PROVE  /\ fr.at \in {"resume", "raise", "run"} => fr.fiber \in Fibers
           /\ fr.at \in {"joins", "selects"} => fr.target \in Fibers
           /\ fr.at \in {"selects", "abortParked"} => fr.todo \subseteq Fibers
           /\ fr.at = "wake" => /\ fr.key \in Keys /\ fr.todo \in Seq(Fibers)
                                /\ fr.left \in Nat /\ fr.caller \in Fibers \cup {None}
           /\ fr.at \in {"completions", "unwinding"} => fr.todo \subseteq Ids
           /\ fr.at = "completions" => fr.keys \subseteq Keys
           /\ fr.at = "abortIo" => fr.copy \subseteq Ids \X Fibers
BY DEF Frame

\* The frames in progress stay sound while submissions go away, and while new
\* ones take ids that no frame names.
LEMMA OldFrames ==
    ASSUME NEW s, NEW lp, NEW pd, StackOK(s, lp, pd), NEW lp2, NEW pd2,
           lp2 \in {"drain", "wait", "after"} => lp \in {"drain", "wait", "after"},
           \A id \in DOMAIN pd2 :
              \/ id \in DOMAIN pd /\ pd2[id] = pd[id]
              \/ \A i \in 1..Len(s) : id \notin IdsOf(s[i])
    PROVE  StackOK(s, lp2, pd2)
<1>1. s \in Seq(Frame)
  BY DEF StackOK
<1>2. SUFFICES ASSUME NEW fr \in Range(s), fr.at \in Phases PROVE FrameOK(fr, lp2, pd2)
  BY <1>1 DEF StackOK, FrameOK, Phases
<1>3. FrameOK(fr, lp, pd)
  BY <1>2 DEF StackOK
<1>4. PICK i \in 1..Len(s) : s[i] = fr
  BY <1>1, <1>2, RangeSeq
<1>5. fr.at = "abortIo" => IdsOf(fr) = {p[1] : p \in fr.copy}
  BY DEF IdsOf
<1>6. ASSUME fr.at = "abortIo", NEW p \in fr.copy, p[1] \in DOMAIN pd2 PROVE pd2[p[1]] = p[2]
  BY <1>2, <1>3, <1>4, <1>5, <1>6 DEF FrameOK
<1> QED BY <1>2, <1>3, <1>6 DEF FrameOK

\* The innermost function is a frame, and what it returns into stays sound.
LEMMA TopFrame ==
    ASSUME NEW s, NEW lp, NEW pd, StackOK(s, lp, pd), s # <<>>
    PROVE  /\ StackOK(Tail(s), lp, pd)
           /\ Head(s) \in Frame
           /\ FrameOK(Head(s), lp, pd)
<1>1. s \in Seq(Frame)
  BY DEF StackOK
<1> QED BY <1>1, TailRange DEF StackOK

\* A sound frame on top of sound frames.
LEMMA PushFrame ==
    ASSUME NEW s, NEW lp, NEW pd, StackOK(s, lp, pd),
           NEW fr \in Frame, FrameOK(fr, lp, pd)
    PROVE  StackOK(<<fr>> \o s, lp, pd)
<1>1. s \in Seq(Frame)
  BY DEF StackOK
<1> QED BY <1>1, PushRange DEF StackOK

\* Two sound frames on top of sound frames.
LEMMA PushTwoFrames ==
    ASSUME NEW s, NEW lp, NEW pd, StackOK(s, lp, pd),
           NEW a \in Frame, FrameOK(a, lp, pd), NEW b \in Frame, FrameOK(b, lp, pd)
    PROVE  StackOK(<<a, b>> \o s, lp, pd)
<1>1. s \in Seq(Frame)
  BY DEF StackOK
<1> QED BY <1>1, PushTwoRange DEF StackOK

\* A stack of one sound frame.
LEMMA OneFrame ==
    ASSUME NEW fr \in Frame, NEW lp, NEW pd, FrameOK(fr, lp, pd)
    PROVE  StackOK(<<fr>>, lp, pd)
<1>1. <<fr>> \in Seq(Frame) /\ Range(<<fr>>) = {fr}
  BY DEF Range
<1> QED BY <1>1 DEF StackOK

\* The empty stack, between two steps of the loop.
LEMMA NoFrames == \A lp, pd : StackOK(<<>>, lp, pd)
<1>1. <<>> \in Seq(Frame) /\ Range(<<>>) = {}
  BY DEF Range
<1> QED BY <1>1 DEF StackOK
-----------------------------------------------------------------------------
(* What the shared helpers keep.                                           *)

\* The loop starts to serve programs only where it already did.
NoNewService == Serving' => Serving

\* No submission is added to the pending table or changes its reader.
PendingShrinks ==
    \A id \in DOMAIN pending' : id \in DOMAIN pending /\ pending'[id] = pending[id]

\* An action that leaves the submissions alone keeps their lookups.
LEMMA SameIo == ASSUME IoPart, UNCHANGED ioVars PROVE IoPart' /\ PendingShrinks
BY DEF IoPart, IoLookup, ioVars, PendingShrinks

\* An action that leaves the waits alone keeps their lookups.
LEMMA SameWaits == ASSUME WaitPart, UNCHANGED waitVars, NoNewService PROVE WaitPart'
BY DEF WaitPart, waitVars, JoinLookup, ParkLookup, NoNewService

\* Both halves go together, so no lookup is left behind.
LEMMA DropPairKeeps ==
    ASSUME IoPart, NEW id, NEW f, DropPair(id, f), inflight' \subseteq inflight,
           id \in DOMAIN pending => pending[id] = f
    PROVE  IoPart' /\ PendingShrinks
<1>1. /\ IsTable(pending', Ids, Fibers) /\ DOMAIN pending' = DOMAIN pending \ {id}
      /\ \A x \in DOMAIN pending \ {id} : pending'[x] = pending[x]
  BY DEF IoPart, DropPair, IsTable, Del
<1>2. /\ IsTable(fiberIo', Fibers, Ids) /\ DOMAIN fiberIo' = DOMAIN fiberIo \ {f}
      /\ \A x \in DOMAIN fiberIo \ {f} : fiberIo'[x] = fiberIo[x]
  BY DEF IoPart, DropPair, IsTable, Del
<1>3. IoLookup'
  BY <1>1, <1>2 DEF IoPart, IoLookup
<1> QED BY <1>1, <1>2, <1>3 DEF IoPart, PendingShrinks

\* Giving an operation back takes both of its halves, and no other fiber's.
LEMMA CancelIoKeeps ==
    ASSUME IoPart, NEW f, CancelIo(f) PROVE IoPart' /\ PendingShrinks
<1>1. CASE f \in DOMAIN fiberIo
  <2>1. DropPair(fiberIo[f], f) /\ inflight' \subseteq inflight
    BY <1>1 DEF CancelIo, DropPair
  <2>2. fiberIo[f] \in DOMAIN pending => pending[fiberIo[f]] = f
    BY <1>1 DEF IoPart, IoLookup
  <2> QED BY <2>1, <2>2, DropPairKeeps
<1>2. CASE f \notin DOMAIN fiberIo
  BY <1>2, SameIo DEF CancelIo
<1> QED BY <1>1, <1>2

\* A table t and the lookup r into its arrays, both without f.
LEMMA LeaveLookup ==
    ASSUME NEW K, NEW t, IsTable(t, K, Seq(Fibers)), NEW r, IsTable(r, Fibers, K),
           NEW f
    PROVE  LET t2 == IF f \in DOMAIN r THEN LeaveQueue(t, r[f], f) ELSE t
               r2 == Del(r, f)
           IN  /\ IsTable(t2, K, Seq(Fibers))
               /\ IsTable(r2, Fibers, K)
               /\ (\A w \in DOMAIN r : r[w] \in DOMAIN t /\ w \in Range(t[r[w]])) =>
                    \A w \in DOMAIN r2 : r2[w] \in DOMAIN t2 /\ w \in Range(t2[r2[w]])
<1>1. /\ IsTable(Del(r, f), Fibers, K) /\ DOMAIN Del(r, f) = DOMAIN r \ {f}
      /\ \A w \in DOMAIN r \ {f} : Del(r, f)[w] = r[w]
  BY DEF IsTable, Del
<1>2. CASE f \notin DOMAIN r
  BY <1>1, <1>2
<1>3. CASE f \in DOMAIN r
  <2>1. r[f] \in K
    BY <1>3 DEF IsTable
  <2>2. /\ IsTable(LeaveQueue(t, r[f], f), K, Seq(Fibers))
        /\ \A x, y : x \in DOMAIN t /\ y \in Range(t[x]) /\ y # f =>
             /\ x \in DOMAIN LeaveQueue(t, r[f], f)
             /\ y \in Range(LeaveQueue(t, r[f], f)[x])
    BY <2>1, LeaveQueueTable
  <2> QED BY <1>1, <1>3, <2>2
<1> QED BY <1>2, <1>3

\* leave-waits takes one fiber out, and every other lookup still finds its fiber.
LEMMA LeaveWaitsKeeps ==
    ASSUME WaitPart, NEW f, LeaveWaits(f), NoNewService PROVE WaitPart'
<1>1. /\ IsTable(parkQueues', Keys, Seq(Fibers)) /\ IsTable(fiberPark', Fibers, Keys)
      /\ ParkLookup'
  <2>1. /\ IsTable(parkQueues', Keys, Seq(Fibers)) /\ IsTable(fiberPark', Fibers, Keys)
        /\ (\A w \in DOMAIN fiberPark : /\ fiberPark[w] \in DOMAIN parkQueues
                                        /\ w \in Range(parkQueues[fiberPark[w]])) =>
             \A w \in DOMAIN fiberPark' : /\ fiberPark'[w] \in DOMAIN parkQueues'
                                          /\ w \in Range(parkQueues'[fiberPark'[w]])
    BY LeaveLookup DEF WaitPart, LeaveWaits
  <2> QED BY <2>1 DEF WaitPart, ParkLookup, NoNewService
<1>2. /\ IsTable(waiters', Fibers, Seq(Fibers)) /\ IsTable(fiberJoin', Fibers, Fibers)
      /\ JoinLookup'
  <2>1. /\ IsTable(waiters', Fibers, Seq(Fibers)) /\ IsTable(fiberJoin', Fibers, Fibers)
        /\ (\A w \in DOMAIN fiberJoin : /\ fiberJoin[w] \in DOMAIN waiters
                                        /\ w \in Range(waiters[fiberJoin[w]])) =>
             \A w \in DOMAIN fiberJoin' : /\ fiberJoin'[w] \in DOMAIN waiters'
                                          /\ w \in Range(waiters'[fiberJoin'[w]])
    BY LeaveLookup DEF WaitPart, LeaveWaits
  <2> QED BY <2>1 DEF WaitPart, JoinLookup
<1>3. IsTable(selectSets', Fibers, SUBSET Fibers)
  BY DelTable DEF WaitPart, LeaveWaits
<1> QED BY <1>1, <1>2, <1>3 DEF WaitPart

\* A completion is recorded as :ok or :error.
LEMMA VerdictType == \A s : Verdict(s) \in {"ok", "error"}
BY DEF Verdict

\* complete-fiber, up to the waiters.
LEMMA BeginCompleteKeeps ==
    ASSUME CoreOK, WaitPart, NoNewService,
           NEW f \in Fibers, NEW status \in {"ok", "error"}, NEW q \in Seq(Fibers),
           NEW rest, BeginComplete(f, status, q, rest)
    PROVE  /\ runnable' \in Seq(Fibers)
           /\ IsTable(completed', Fibers, {"ok", "error"})
           /\ WaitPart'
           /\ \A lp, pd : StackOK(rest, lp, pd) => StackOK(stack', lp, pd)
<1>1. runnable' \in Seq(Fibers)
  BY LeaveArrayRange DEF BeginComplete
<1>2. IsTable(completed', Fibers, {"ok", "error"})
  BY PutTable DEF BeginComplete, CoreOK
<1>3. WaitPart'
  BY LeaveWaitsKeeps DEF BeginComplete
<1>4. ASSUME NEW lp, NEW pd, StackOK(rest, lp, pd) PROVE StackOK(stack', lp, pd)
  <2>1. stack' = <<Joins(f)>> \o rest
    BY DEF BeginComplete
  <2>2. Joins(f) \in Frame /\ FrameOK(Joins(f), lp, pd)
    BY NewFrames DEF FrameOK, Phases
  <2> QED BY <1>4, <2>1, <2>2, PushFrame
<1> QED BY <1>1, <1>2, <1>3, <1>4

\* complete-fiber, with the operation the fiber was waiting on.
LEMMA CompleteFiberKeeps ==
    ASSUME CoreOK, IoPart, WaitPart, NoNewService,
           NEW f \in Fibers, NEW status \in {"ok", "error"}, NEW q \in Seq(Fibers),
           NEW rest, CompleteFiber(f, status, q, rest)
    PROVE  /\ runnable' \in Seq(Fibers)
           /\ IsTable(completed', Fibers, {"ok", "error"})
           /\ WaitPart' /\ IoPart' /\ PendingShrinks
           /\ \A lp, pd : StackOK(rest, lp, pd) => StackOK(stack', lp, pd)
<1>1. BeginComplete(f, status, q, rest) /\ CancelIo(f)
  BY DEF CompleteFiber
<1> QED BY <1>1, BeginCompleteKeeps, CancelIoKeeps

\* The branch of a handler that finds a fiber finished.
LEMMA FoundFinishedKeeps ==
    ASSUME CoreOK, IoPart, WaitPart, NoNewService, NEW t \in Fibers,
           NEW rest, FoundFinished(t, rest)
    PROVE  /\ runnable' \in Seq(Fibers)
           /\ IsTable(completed', Fibers, {"ok", "error"})
           /\ WaitPart' /\ IoPart' /\ PendingShrinks
           /\ \A lp, pd : StackOK(rest, lp, pd) => StackOK(stack', lp, pd)
<1>1. CASE stack' = rest /\ UNCHANGED <<runnable, ioVars, waitVars, completed>>
  <2>1. IoPart' /\ PendingShrinks
    BY <1>1, SameIo
  <2>2. WaitPart'
    BY <1>1, SameWaits
  <2> QED BY <1>1, <2>1, <2>2 DEF CoreOK
<1>2. CASE CompleteFiber(t, Verdict(st[t]), runnable, rest)
  BY <1>2, CompleteFiberKeeps, VerdictType DEF CoreOK
<1> QED BY <1>1, <1>2 DEF FoundFinished

\* A running fiber that suspends: its own state, and the frame it runs in.
LEMMA RequestsKeeps ==
    ASSUME CoreOK, NEW f \in Fibers, NEW op, Requests(f, op)
    PROVE  /\ st' \in [Fibers -> Status] /\ budget' \in [Fibers -> 0..MaxOps]
           /\ stack # <<>>
BY SchedAssumption DEF CoreOK, Requests, Running, Top, Status
-----------------------------------------------------------------------------
(* Pieces every action needs.                                              *)

\* The frames an action leaves on the stack stay sound.
LEMMA FramesKept ==
    ASSUME SchedInv, NoNewService, PendingShrinks
    PROVE  /\ StackOK(stack, loop', pending')
           /\ stack # <<>> => StackOK(Tail(stack), loop', pending') /\ Head(stack) \in Frame
<1>1. StackOK(stack, loop', pending')
  BY OldFrames DEF SchedInv, NoNewService, PendingShrinks, Serving
<1> QED BY <1>1, TopFrame

\* A frame that is not a phase of the teardown needs no agreement.
LEMMA PushNew ==
    ASSUME NEW s, NEW lp, NEW pd, StackOK(s, lp, pd), NEW fr \in Frame, fr.at \notin Phases
    PROVE  StackOK(<<fr>> \o s, lp, pd)
BY PushFrame DEF FrameOK, Phases

\* Nor do two.
LEMMA PushTwoNew ==
    ASSUME NEW s, NEW lp, NEW pd, StackOK(s, lp, pd),
           NEW a \in Frame, a.at \notin Phases, NEW b \in Frame, b.at \notin Phases
    PROVE  StackOK(<<a, b>> \o s, lp, pd)
BY PushTwoFrames DEF FrameOK, Phases

\* An action inside the loop does not move the loop.
LEMMA SameLoop == ASSUME UNCHANGED loop PROVE NoNewService
BY DEF NoNewService, Serving

\* A queue read from a table, or the empty one for a missing key, holds fibers.
LEMMA ArrayType ==
    ASSUME NEW K, NEW t, IsTable(t, K, Seq(Fibers)), NEW k
    PROVE  Array(t, k) \in Seq(Fibers)
BY DEF Array, IsTable

-----------------------------------------------------------------------------
(* One lemma for each action: it keeps the invariant.                      *)

\* A yield queues the fiber.
LEMMA FiberYieldKeeps ==
    ASSUME SchedInv, NEW f \in Fibers, FiberYield(f)
    PROVE  SchedInv'
<1>1. NoNewService
  BY SameLoop DEF FiberYield, loopVars
<1>2. st' \in [Fibers -> Status] /\ budget' \in [Fibers -> 0..MaxOps] /\ stack # <<>>
  BY RequestsKeeps DEF SchedInv, FiberYield
<1>3. IoPart' /\ PendingShrinks
  BY SameIo DEF SchedInv, FiberYield
<1>4. WaitPart'
  BY <1>1, SameWaits DEF SchedInv, FiberYield
<1>5. CoreOK'
  BY <1>2, AppendRange DEF SchedInv, CoreOK, FiberYield, markVars, loopVars
<1>6. StackOK(stack', loop', pending')
  BY <1>1, <1>2, <1>3, FramesKept DEF FiberYield
<1> QED BY <1>3, <1>4, <1>5, <1>6 DEF SchedInv

\* A refused submission is raised in the fiber and touches no table.
LEMMA RefuseIoKeeps ==
    ASSUME SchedInv, NEW f \in Fibers, RefuseIo(f)
    PROVE  SchedInv'
<1>1. NoNewService
  BY SameLoop DEF RefuseIo, loopVars
<1>2. st' \in [Fibers -> Status] /\ budget' \in [Fibers -> 0..MaxOps] /\ stack # <<>>
  BY RequestsKeeps DEF SchedInv, RefuseIo
<1>3. IoPart' /\ PendingShrinks
  BY SameIo DEF SchedInv, RefuseIo
<1>4. WaitPart'
  BY <1>1, SameWaits DEF SchedInv, RefuseIo
<1>5. CoreOK'
  BY <1>2 DEF SchedInv, CoreOK, RefuseIo, markVars, loopVars
<1>6. StackOK(stack', loop', pending')
  BY <1>1, <1>2, <1>3, FramesKept, PushNew, NewFrames DEF RefuseIo
<1> QED BY <1>3, <1>4, <1>5, <1>6 DEF SchedInv

\* The new id is one that no frame names, and no other fiber waits on.
LEMMA SubmitIoKeeps ==
    ASSUME SchedInv, NEW f \in Fibers, SubmitIo(f)
    PROVE  SchedInv'
<1>1. st' \in [Fibers -> Status] /\ budget' \in [Fibers -> 0..MaxOps] /\ stack # <<>>
  BY RequestsKeeps DEF SchedInv, SubmitIo
<1>2. CoreOK'
  BY <1>1 DEF SchedInv, CoreOK, SubmitIo, markVars, loopVars
<1>3. WaitPart'
  BY SameLoop, SameWaits DEF SchedInv, SubmitIo, loopVars
<1>4. PICK id \in FreeIds :
        /\ pending' = Put(pending, id, f) /\ fiberIo' = Put(fiberIo, f, id)
        /\ inflight' = inflight \cup {id}
  BY DEF SubmitIo
<1>5. id \in Ids /\ id \notin DOMAIN pending /\ \A i \in 1..Len(stack) : id \notin IdsOf(stack[i])
  BY DEF FreeIds
<1>6. /\ IsTable(pending', Ids, Fibers) /\ DOMAIN pending' = DOMAIN pending \cup {id}
      /\ pending'[id] = f /\ \A x \in DOMAIN pending : pending'[x] = pending[x]
  BY <1>4, <1>5 DEF SchedInv, IoPart, IsTable, Put
<1>7. /\ IsTable(fiberIo', Fibers, Ids) /\ DOMAIN fiberIo' = DOMAIN fiberIo \cup {f}
      /\ fiberIo'[f] = id /\ \A x \in DOMAIN fiberIo \ {f} : fiberIo'[x] = fiberIo[x]
  BY <1>4, <1>5 DEF SchedInv, IoPart, IsTable, Put
<1>8. IoPart'
  BY <1>4, <1>5, <1>6, <1>7 DEF SchedInv, IoPart, IoLookup
<1>9. StackOK(stack', loop', pending')
  <2>1. StackOK(stack, loop', pending')
    BY <1>5, <1>6, OldFrames DEF SchedInv, SubmitIo, loopVars
  <2> QED BY <1>1, <2>1, TopFrame DEF SubmitIo
<1> QED BY <1>2, <1>3, <1>8, <1>9 DEF SchedInv

\* A fiber that returns is completed.
LEMMA FiberReturnKeeps ==
    ASSUME SchedInv, NEW f \in Fibers, FiberReturn(f)
    PROVE  SchedInv'
<1>1. NoNewService
  BY SameLoop DEF FiberReturn, loopVars
<1>2. stack # <<>> /\ CompleteFiber(f, "ok", runnable, Tail(stack))
  BY DEF FiberReturn, Running, Top
<1>3. /\ runnable' \in Seq(Fibers) /\ IsTable(completed', Fibers, {"ok", "error"})
      /\ WaitPart' /\ IoPart' /\ PendingShrinks
      /\ StackOK(Tail(stack), loop', pending') => StackOK(stack', loop', pending')
  BY <1>1, <1>2, CompleteFiberKeeps DEF SchedInv, CoreOK
<1>4. st' \in [Fibers -> Status]
  BY DEF SchedInv, CoreOK, FiberReturn, Status
<1>5. CoreOK'
  BY <1>3, <1>4 DEF SchedInv, CoreOK, FiberReturn, markVars, loopVars
<1> QED BY <1>1, <1>2, <1>3, <1>5, FramesKept DEF SchedInv

\* A fiber that fails is completed.
LEMMA FiberErrorKeeps ==
    ASSUME SchedInv, NEW f \in Fibers, FiberError(f)
    PROVE  SchedInv'
<1>1. NoNewService
  BY SameLoop DEF FiberError, loopVars
<1>2. stack # <<>> /\ CompleteFiber(f, "error", runnable, Tail(stack))
  BY DEF FiberError, Running, Top
<1>3. /\ runnable' \in Seq(Fibers) /\ IsTable(completed', Fibers, {"ok", "error"})
      /\ WaitPart' /\ IoPart' /\ PendingShrinks
      /\ StackOK(Tail(stack), loop', pending') => StackOK(stack', loop', pending')
  BY <1>1, <1>2, CompleteFiberKeeps DEF SchedInv, CoreOK
<1>4. st' \in [Fibers -> Status]
  BY DEF SchedInv, CoreOK, FiberError, Status, AfterError
<1>5. CoreOK'
  BY <1>3, <1>4 DEF SchedInv, CoreOK, FiberError, markVars, loopVars
<1> QED BY <1>1, <1>2, <1>3, <1>5, FramesKept DEF SchedInv

\* handle-join adds the caller to the list its fiber-join names.
LEMMA HandleJoinKeeps ==
    ASSUME SchedInv, NEW c \in Fibers, NEW t \in Fibers, HandleJoin(c, t)
    PROVE  SchedInv'
<1>1. NoNewService
  BY SameLoop DEF HandleJoin, loopVars
<1>2. st' \in [Fibers -> Status] /\ budget' \in [Fibers -> 0..MaxOps] /\ stack # <<>>
  BY RequestsKeeps DEF SchedInv, HandleJoin
<1>3. /\ runnable' \in Seq(Fibers) /\ IsTable(completed', Fibers, {"ok", "error"})
      /\ WaitPart' /\ IoPart' /\ StackOK(stack', loop', pending')
  <2>1. CASE FoundFinished(t, <<Resume(c)>> \o Tail(stack))
    <3>1. /\ runnable' \in Seq(Fibers) /\ IsTable(completed', Fibers, {"ok", "error"})
          /\ WaitPart' /\ IoPart' /\ PendingShrinks
          /\ \A lp, pd : StackOK(<<Resume(c)>> \o Tail(stack), lp, pd) => StackOK(stack', lp, pd)
      BY <1>1, <2>1, FoundFinishedKeeps DEF SchedInv
    <3>2. StackOK(Tail(stack), loop', pending')
      BY <1>1, <1>2, <3>1, FramesKept
    <3>3. StackOK(<<Resume(c)>> \o Tail(stack), loop', pending')
      BY <3>2, PushNew, NewFrames
    <3> QED BY <3>1, <3>3
  <2>2. CASE /\ waiters' = Put(waiters, t, Append(Array(waiters, t), c))
             /\ fiberJoin' = Put(fiberJoin, c, t)
             /\ stack' = Tail(stack)
             /\ UNCHANGED <<runnable, ioVars, fiberPark, parkQueues, selectSets,
                            completed>>
    <3>1. IoPart' /\ PendingShrinks
      BY <2>2, SameIo DEF SchedInv
    <3>2. Array(waiters, t) \in Seq(Fibers)
      BY ArrayType DEF SchedInv, WaitPart
    <3>3. /\ Append(Array(waiters, t), c) \in Seq(Fibers)
          /\ Range(Append(Array(waiters, t), c)) = Range(Array(waiters, t)) \cup {c}
      BY <3>2, AppendRange
    <3>4. /\ IsTable(waiters', Fibers, Seq(Fibers)) /\ DOMAIN waiters' = DOMAIN waiters \cup {t}
          /\ waiters'[t] = Append(Array(waiters, t), c)
          /\ \A x \in DOMAIN waiters \ {t} : waiters'[x] = waiters[x]
      BY <2>2, <3>3 DEF SchedInv, WaitPart, IsTable, Put
    <3>5. /\ IsTable(fiberJoin', Fibers, Fibers) /\ DOMAIN fiberJoin' = DOMAIN fiberJoin \cup {c}
          /\ fiberJoin'[c] = t /\ \A x \in DOMAIN fiberJoin \ {c} : fiberJoin'[x] = fiberJoin[x]
      BY <2>2 DEF SchedInv, WaitPart, IsTable, Put
    <3>6. JoinLookup'
      <4>1. SUFFICES ASSUME NEW w \in DOMAIN fiberJoin'
                     PROVE  /\ fiberJoin'[w] \in DOMAIN waiters'
                            /\ w \in Range(waiters'[fiberJoin'[w]])
        BY DEF JoinLookup
      <4>2. CASE w = c
        BY <3>3, <3>4, <3>5, <4>2
      <4>3. CASE w # c
        <5>1. /\ w \in DOMAIN fiberJoin /\ fiberJoin'[w] = fiberJoin[w]
              /\ fiberJoin[w] \in DOMAIN waiters /\ w \in Range(waiters[fiberJoin[w]])
          BY <3>5, <4>1, <4>3 DEF SchedInv, WaitPart, JoinLookup
        <5>2. CASE fiberJoin[w] = t
          BY <3>3, <3>4, <5>1, <5>2 DEF Array
        <5>3. CASE fiberJoin[w] # t
          BY <3>4, <5>1, <5>3
        <5> QED BY <5>2, <5>3
      <4> QED BY <4>2, <4>3
    <3>7. WaitPart'
      BY <1>1, <2>2, <3>4, <3>5, <3>6 DEF SchedInv, WaitPart, ParkLookup, NoNewService
    <3> QED BY <1>1, <1>2, <2>2, <3>1, <3>7, FramesKept DEF SchedInv, CoreOK
  <2> QED BY <2>1, <2>2 DEF HandleJoin
<1>4. CoreOK'
  BY <1>2, <1>3 DEF SchedInv, CoreOK, HandleJoin, markVars, loopVars
<1> QED BY <1>3, <1>4 DEF SchedInv

\* handle-abort takes the target out of every wait before it raises.
LEMMA HandleAbortKeeps ==
    ASSUME SchedInv, NEW c \in Fibers, NEW t \in Fibers, HandleAbort(c, t)
    PROVE  SchedInv'
<1>1. NoNewService
  BY SameLoop DEF HandleAbort, loopVars
<1>2. st' \in [Fibers -> Status] /\ budget' \in [Fibers -> 0..MaxOps] /\ stack # <<>>
  BY RequestsKeeps DEF SchedInv, HandleAbort
<1>3. /\ runnable' \in Seq(Fibers) /\ IsTable(completed', Fibers, {"ok", "error"})
      /\ WaitPart' /\ IoPart' /\ StackOK(stack', loop', pending')
  <2>1. CASE FoundFinished(t, <<Resume(c)>> \o Tail(stack))
    <3>1. /\ runnable' \in Seq(Fibers) /\ IsTable(completed', Fibers, {"ok", "error"})
          /\ WaitPart' /\ IoPart' /\ PendingShrinks
          /\ \A lp, pd : StackOK(<<Resume(c)>> \o Tail(stack), lp, pd) => StackOK(stack', lp, pd)
      BY <1>1, <2>1, FoundFinishedKeeps DEF SchedInv
    <3>2. StackOK(Tail(stack), loop', pending')
      BY <1>1, <1>2, <3>1, FramesKept
    <3>3. StackOK(<<Resume(c)>> \o Tail(stack), loop', pending')
      BY <3>2, PushNew, NewFrames
    <3> QED BY <3>1, <3>3
  <2>2. CASE /\ CancelIo(t) /\ LeaveWaits(t)
             /\ stack' = <<Raise(t, FALSE), Resume(c)>> \o Tail(stack)
             /\ UNCHANGED <<runnable, completed>>
    <3>1. IoPart' /\ PendingShrinks
      BY <2>2, CancelIoKeeps DEF SchedInv
    <3>2. WaitPart'
      BY <1>1, <2>2, LeaveWaitsKeeps DEF SchedInv
    <3>3. StackOK(Tail(stack), loop', pending')
      BY <1>1, <1>2, <3>1, FramesKept
    <3>4. StackOK(stack', loop', pending')
      BY <2>2, <3>3, PushTwoNew, NewFrames
    <3> QED BY <2>2, <3>1, <3>2, <3>4 DEF SchedInv, CoreOK
  <2> QED BY <2>1, <2>2 DEF HandleAbort
<1>4. CoreOK'
  BY <1>2, <1>3 DEF SchedInv, CoreOK, HandleAbort, markVars, loopVars
<1> QED BY <1>3, <1>4 DEF SchedInv

\* handle-select records a set of existing fibers.
LEMMA HandleSelectKeeps ==
    ASSUME SchedInv, NEW c \in Fibers, NEW S \in SUBSET Fibers, HandleSelect(c, S)
    PROVE  SchedInv'
<1>1. NoNewService
  BY SameLoop DEF HandleSelect, loopVars
<1>2. st' \in [Fibers -> Status] /\ budget' \in [Fibers -> 0..MaxOps] /\ stack # <<>>
  BY RequestsKeeps DEF SchedInv, HandleSelect
<1>3. /\ runnable' \in Seq(Fibers) /\ IsTable(completed', Fibers, {"ok", "error"})
      /\ WaitPart' /\ IoPart' /\ StackOK(stack', loop', pending')
  <2>1. CASE \E d \in S : FoundFinished(d, <<Resume(c)>> \o Tail(stack))
    <3>0. PICK d \in S : FoundFinished(d, <<Resume(c)>> \o Tail(stack))
      BY <2>1
    <3>1. /\ runnable' \in Seq(Fibers) /\ IsTable(completed', Fibers, {"ok", "error"})
          /\ WaitPart' /\ IoPart' /\ PendingShrinks
          /\ \A lp, pd : StackOK(<<Resume(c)>> \o Tail(stack), lp, pd) => StackOK(stack', lp, pd)
      BY <1>1, <3>0, FoundFinishedKeeps DEF SchedInv
    <3>2. StackOK(Tail(stack), loop', pending')
      BY <1>1, <1>2, <3>1, FramesKept
    <3>3. StackOK(<<Resume(c)>> \o Tail(stack), loop', pending')
      BY <3>2, PushNew, NewFrames
    <3> QED BY <3>1, <3>3
  <2>2. CASE /\ selectSets' = Put(selectSets, c, S)
             /\ stack' = Tail(stack)
             /\ UNCHANGED <<runnable, ioVars, fiberPark, parkQueues, fiberJoin,
                            waiters, completed>>
    <3>1. IoPart' /\ PendingShrinks
      BY <2>2, SameIo DEF SchedInv
    <3>2. IsTable(selectSets', Fibers, SUBSET Fibers)
      BY <2>2, PutTable DEF SchedInv, WaitPart
    <3>3. WaitPart'
      BY <1>1, <2>2, <3>2 DEF SchedInv, WaitPart, JoinLookup, ParkLookup, NoNewService
    <3> QED BY <1>1, <1>2, <2>2, <3>1, <3>3, FramesKept DEF SchedInv, CoreOK
  <2> QED BY <2>1, <2>2 DEF HandleSelect
<1>4. CoreOK'
  BY <1>2, <1>3 DEF SchedInv, CoreOK, HandleSelect, markVars, loopVars
<1> QED BY <1>3, <1>4 DEF SchedInv

\* handle-park adds the caller to the queue its fiber-park names.
LEMMA HandleParkKeeps ==
    ASSUME SchedInv, NEW c \in Fibers, NEW k \in Keys, HandlePark(c, k)
    PROVE  SchedInv'
<1>1. NoNewService
  BY SameLoop DEF HandlePark, loopVars
<1>2. st' \in [Fibers -> Status] /\ budget' \in [Fibers -> 0..MaxOps] /\ stack # <<>>
  BY RequestsKeeps DEF SchedInv, HandlePark
<1>3. CoreOK'
  BY <1>2 DEF SchedInv, CoreOK, HandlePark, markVars, loopVars
<1>4. IoPart' /\ PendingShrinks
  BY SameIo DEF SchedInv, HandlePark
<1>5. StackOK(Tail(stack), loop', pending')
  BY <1>1, <1>2, <1>4, FramesKept
<1>6. StackOK(stack', loop', pending')
  BY <1>5, PushNew, NewFrames DEF HandlePark
<1>7. WaitPart'
  <2>1. CASE UNCHANGED <<parkQueues, fiberPark>>
    BY <1>1, <2>1, SameWaits DEF SchedInv, HandlePark, waitVars
  <2>2. CASE /\ parkQueues' = Put(parkQueues, k, Append(Array(parkQueues, k), c))
             /\ fiberPark' = Put(fiberPark, c, k)
    <3>1. Array(parkQueues, k) \in Seq(Fibers)
      BY ArrayType DEF SchedInv, WaitPart
    <3>2. /\ Append(Array(parkQueues, k), c) \in Seq(Fibers)
          /\ Range(Append(Array(parkQueues, k), c)) = Range(Array(parkQueues, k)) \cup {c}
      BY <3>1, AppendRange
    <3>3. /\ IsTable(parkQueues', Keys, Seq(Fibers)) /\ DOMAIN parkQueues' = DOMAIN parkQueues \cup {k}
          /\ parkQueues'[k] = Append(Array(parkQueues, k), c)
          /\ \A x \in DOMAIN parkQueues \ {k} : parkQueues'[x] = parkQueues[x]
      BY <2>2, <3>2 DEF SchedInv, WaitPart, IsTable, Put
    <3>4. /\ IsTable(fiberPark', Fibers, Keys) /\ DOMAIN fiberPark' = DOMAIN fiberPark \cup {c}
          /\ fiberPark'[c] = k /\ \A x \in DOMAIN fiberPark \ {c} : fiberPark'[x] = fiberPark[x]
      BY <2>2 DEF SchedInv, WaitPart, IsTable, Put
    <3>5. ParkLookup'
      <4>1. SUFFICES ASSUME Serving, NEW w \in DOMAIN fiberPark'
                     PROVE  /\ fiberPark'[w] \in DOMAIN parkQueues'
                            /\ w \in Range(parkQueues'[fiberPark'[w]])
        BY <1>1 DEF ParkLookup, NoNewService
      <4>2. CASE w = c
        BY <3>2, <3>3, <3>4, <4>2
      <4>3. CASE w # c
        <5>1. /\ w \in DOMAIN fiberPark /\ fiberPark'[w] = fiberPark[w]
              /\ fiberPark[w] \in DOMAIN parkQueues /\ w \in Range(parkQueues[fiberPark[w]])
          BY <3>4, <4>1, <4>3 DEF SchedInv, WaitPart, ParkLookup
        <5>2. CASE fiberPark[w] = k
          BY <3>2, <3>3, <5>1, <5>2 DEF Array
        <5>3. CASE fiberPark[w] # k
          BY <3>3, <5>1, <5>3
        <5> QED BY <5>2, <5>3
      <4> QED BY <4>2, <4>3
    <3> QED BY <3>3, <3>4, <3>5 DEF SchedInv, WaitPart, JoinLookup, HandlePark
  <2> QED BY <2>1, <2>2 DEF HandlePark
<1> QED BY <1>3, <1>4, <1>6, <1>7 DEF SchedInv

\* handle-notify hands wake-parked a copy of the queue.
LEMMA HandleNotifyKeeps ==
    ASSUME SchedInv, NEW c \in Fibers, NEW k \in Keys, NEW n \in 1..MaxWake, HandleNotify(c, k, n)
    PROVE  SchedInv'
<1>1. NoNewService
  BY SameLoop DEF HandleNotify, loopVars
<1>2. st' \in [Fibers -> Status] /\ budget' \in [Fibers -> 0..MaxOps] /\ stack # <<>>
  BY RequestsKeeps DEF SchedInv, HandleNotify
<1>3. CoreOK'
  BY <1>2 DEF SchedInv, CoreOK, HandleNotify, markVars, loopVars
<1>4. IoPart' /\ PendingShrinks
  BY SameIo DEF SchedInv, HandleNotify
<1>5. WaitPart'
  BY <1>1, SameWaits DEF SchedInv, HandleNotify
<1>6. StackOK(stack', loop', pending')
  <2>1. Array(parkQueues, k) \in Seq(Fibers) /\ n \in Nat
    BY ArrayType, SchedAssumption DEF SchedInv, WaitPart
  <2>2. /\ Wake(k, Array(parkQueues, k), n, c) \in Frame
        /\ Wake(k, Array(parkQueues, k), n, c).at \notin Phases
    BY <2>1, NewFrames
  <2>3. StackOK(Tail(stack), loop', pending')
    BY <1>1, <1>2, <1>4, FramesKept
  <2> QED BY <2>2, <2>3, PushNew DEF HandleNotify
<1> QED BY <1>3, <1>4, <1>5, <1>6 DEF SchedInv

\* handle-io-forward adds an id of its own.
LEMMA HandleIoForwardKeeps ==
    ASSUME SchedInv, NEW c \in Fibers, NEW k \in Keys, HandleIoForward(c, k)
    PROVE  SchedInv'
<1>1. NoNewService
  BY SameLoop DEF HandleIoForward, loopVars
<1>2. st' \in [Fibers -> Status] /\ budget' \in [Fibers -> 0..MaxOps] /\ stack # <<>>
  BY RequestsKeeps DEF SchedInv, HandleIoForward
<1>3. CoreOK' /\ IoPart'
  <2>1. IsTable(forwarded', Ids, Keys) /\ inflight' \subseteq Ids
    <3>1. CASE UNCHANGED <<forwarded, inflight>>
      BY <3>1 DEF SchedInv, CoreOK, IoPart
    <3>2. CASE \E id \in FreeIds : /\ forwarded' = Put(forwarded, id, k)
                                   /\ inflight' = inflight \cup {id}
      <4>1. PICK id \in FreeIds : /\ forwarded' = Put(forwarded, id, k)
                                  /\ inflight' = inflight \cup {id}
        BY <3>2
      <4>2. id \in Ids
        BY DEF FreeIds
      <4> QED BY <4>1, <4>2, PutTable DEF SchedInv, CoreOK, IoPart
    <3> QED BY <3>1, <3>2 DEF HandleIoForward
  <2> QED BY <1>2, <2>1 DEF SchedInv, CoreOK, IoPart, IoLookup, HandleIoForward, markVars, loopVars
<1>4. WaitPart'
  BY <1>1, SameWaits DEF SchedInv, HandleIoForward
<1>5. StackOK(stack', loop', pending')
  <2>1. PendingShrinks
    BY DEF PendingShrinks, HandleIoForward
  <2>2. StackOK(Tail(stack), loop', pending')
    BY <1>1, <1>2, <2>1, FramesKept
  <2> QED BY <2>2, PushNew, NewFrames DEF HandleIoForward
<1> QED BY <1>3, <1>4, <1>5 DEF SchedInv

\* handle-io-forward-cancel takes an id away.
LEMMA HandleIoForwardCancelKeeps ==
    ASSUME SchedInv, NEW c \in Fibers, NEW id \in Ids, HandleIoForwardCancel(c, id)
    PROVE  SchedInv'
<1>1. NoNewService
  BY SameLoop DEF HandleIoForwardCancel, loopVars
<1>2. st' \in [Fibers -> Status] /\ budget' \in [Fibers -> 0..MaxOps] /\ stack # <<>>
  BY RequestsKeeps DEF SchedInv, HandleIoForwardCancel
<1>3. CoreOK' /\ IoPart'
  <2>1. IsTable(forwarded', Ids, Keys) /\ inflight' \subseteq Ids
    BY DEF SchedInv, CoreOK, IoPart, HandleIoForwardCancel, CancelForward, IsTable, Del
  <2> QED BY <1>2, <2>1 DEF SchedInv, CoreOK, IoPart, IoLookup, HandleIoForwardCancel, markVars, loopVars
<1>4. WaitPart'
  BY <1>1, SameWaits DEF SchedInv, HandleIoForwardCancel
<1>5. StackOK(stack', loop', pending')
  <2>1. PendingShrinks
    BY DEF PendingShrinks, HandleIoForwardCancel
  <2>2. StackOK(Tail(stack), loop', pending')
    BY <1>1, <1>2, <2>1, FramesKept
  <2> QED BY <2>2, PushNew, NewFrames DEF HandleIoForwardCancel
<1> QED BY <1>3, <1>4, <1>5 DEF SchedInv

\* ev/spawn queues a new fiber, and may add it to a pool somebody selects over.
LEMMA SpawnKeeps ==
    ASSUME SchedInv, NEW f \in Fibers, NEW g \in Fibers, Spawn(f, g)
    PROVE  SchedInv'
<1>1. NoNewService
  BY SameLoop DEF Spawn, loopVars
<1>2. IoPart' /\ PendingShrinks
  BY SameIo DEF SchedInv, Spawn
<1>3. st' \in [Fibers -> Status]
  BY DEF SchedInv, CoreOK, Spawn, Status
<1>4. CoreOK'
  BY <1>3, AppendRange DEF SchedInv, CoreOK, Spawn, markVars, loopVars
<1>5. IsTable(selectSets', Fibers, SUBSET Fibers)
  BY DEF SchedInv, WaitPart, IsTable, Spawn
<1>6. WaitPart'
  BY <1>1, <1>5 DEF SchedInv, WaitPart, JoinLookup, ParkLookup, NoNewService, Spawn
<1>7. StackOK(stack', loop', pending')
  BY <1>1, <1>2, FramesKept DEF Spawn
<1> QED BY <1>2, <1>4, <1>6, <1>7 DEF SchedInv

\* A fiber killed by the program changes no table of the scheduler.
LEMMA KillFiberKeeps ==
    ASSUME SchedInv, NEW f \in Fibers, NEW g \in Fibers, KillFiber(f, g)
    PROVE  SchedInv'
<1>1. NoNewService
  BY SameLoop DEF KillFiber, loopVars
<1>2. IoPart' /\ PendingShrinks
  BY SameIo DEF SchedInv, KillFiber
<1>3. WaitPart'
  BY <1>1, SameWaits DEF SchedInv, KillFiber
<1>4. st' \in [Fibers -> Status]
  BY DEF SchedInv, CoreOK, KillFiber, Status
<1>5. CoreOK'
  BY <1>4 DEF SchedInv, CoreOK, KillFiber, markVars, loopVars
<1>6. StackOK(stack', loop', pending')
  BY <1>1, <1>2, FramesKept DEF KillFiber
<1> QED BY <1>2, <1>3, <1>5, <1>6 DEF SchedInv

\* ev/shutdown only leaves its request.
LEMMA RequestShutdownKeeps ==
    ASSUME SchedInv, NEW f \in Fibers, RequestShutdown(f)
    PROVE  SchedInv'
<1>1. NoNewService
  BY SameLoop DEF RequestShutdown
<1>2. IoPart' /\ PendingShrinks
  BY SameIo DEF SchedInv, RequestShutdown
<1>3. WaitPart'
  BY <1>1, SameWaits DEF SchedInv, RequestShutdown
<1>4. budget' \in [Fibers -> 0..MaxOps]
  BY SchedAssumption DEF SchedInv, CoreOK, RequestShutdown
<1>5. CoreOK'
  BY <1>4 DEF SchedInv, CoreOK, RequestShutdown, markVars
<1>6. StackOK(stack', loop', pending')
  BY <1>1, <1>2, FramesKept DEF RequestShutdown
<1> QED BY <1>2, <1>3, <1>5, <1>6 DEF SchedInv

\* Entering a fiber, or the error that ends the loop.
LEMMA FiberResumeKeeps ==
    ASSUME SchedInv, FiberResume
    PROVE  SchedInv'
<1>1. NoNewService
  BY DEF FiberResume, Crash, loopVars, NoNewService, Serving
<1>2. IoPart' /\ PendingShrinks
  BY SameIo DEF SchedInv, FiberResume
<1>3. WaitPart'
  BY <1>1, SameWaits DEF SchedInv, FiberResume
<1>4. stack # <<>> /\ Head(stack).at = "resume"
  BY DEF FiberResume, Top
<1>5. StackOK(Tail(stack), loop', pending') /\ Head(stack).fiber \in Fibers
  BY <1>1, <1>2, <1>4, FramesKept, FrameFields
<1>6. CoreOK'
  <2>1. st' \in [Fibers -> Status]
    BY <1>5 DEF SchedInv, CoreOK, FiberResume, Status
  <2>2. loop' \in Loops /\ UNCHANGED <<killed, shutdownReq, mode>>
    BY DEF SchedInv, CoreOK, FiberResume, Crash, loopVars, Loops
  <2> QED BY <2>1, <2>2 DEF SchedInv, CoreOK, FiberResume, markVars
<1>7. StackOK(stack', loop', pending')
  <2>1. stack' = <<>> \/ stack' = <<Run(Head(stack).fiber, "resume")>> \o Tail(stack)
    BY DEF FiberResume, Crash
  <2> QED BY <1>5, <2>1, NoFrames, PushNew, NewFrames
<1> QED BY <1>2, <1>3, <1>6, <1>7 DEF SchedInv

\* Raising in a fiber: it runs, it is completed, or the abort is refused.
LEMMA FiberAbortKeeps ==
    ASSUME SchedInv, FiberAbort
    PROVE  SchedInv'
<1> DEFINE f == Head(stack).fiber
<1>1. stack # <<>> /\ Head(stack).at = "raise"
  BY DEF FiberAbort, Top
<1>2. f \in Fibers /\ UNCHANGED <<markVars, budget, forwarded>>
  BY <1>1, FrameFields, TopFrame DEF SchedInv, FiberAbort
<1> HIDE DEF f
<1>3. CASE /\ st' = [st EXCEPT ![f] = "alive"]
           /\ stack' = <<Run(f, "abort")>> \o Tail(stack)
           /\ UNCHANGED <<ioVars, waitVars, loopVars, runnable, completed>>
  <2>1. NoNewService
    BY <1>3, SameLoop DEF loopVars
  <2>2. IoPart' /\ PendingShrinks
    BY <1>3, SameIo DEF SchedInv
  <2>3. WaitPart'
    BY <1>3, <2>1, SameWaits DEF SchedInv
  <2>4. CoreOK'
    BY <1>2, <1>3 DEF SchedInv, CoreOK, Status, markVars, loopVars
  <2>5. StackOK(Tail(stack), loop', pending')
    BY <1>1, <2>1, <2>2, FramesKept
  <2>6. StackOK(stack', loop', pending')
    BY <1>2, <1>3, <2>5, PushNew, NewFrames
  <2> QED BY <2>2, <2>3, <2>4, <2>6 DEF SchedInv
<1>4. ASSUME NEW status \in {"ok", "error"}, st' \in [Fibers -> Status],
             CompleteFiber(f, status, runnable, Tail(stack)), UNCHANGED loopVars
      PROVE  SchedInv'
  <2>1. NoNewService
    BY <1>4, SameLoop DEF loopVars
  <2>2. /\ runnable' \in Seq(Fibers) /\ IsTable(completed', Fibers, {"ok", "error"})
        /\ WaitPart' /\ IoPart' /\ PendingShrinks
        /\ StackOK(Tail(stack), loop', pending') => StackOK(stack', loop', pending')
    BY <1>2, <1>4, <2>1, CompleteFiberKeeps DEF SchedInv, CoreOK
  <2>3. CoreOK'
    BY <1>2, <1>4, <2>2 DEF SchedInv, CoreOK, markVars, loopVars
  <2> QED BY <1>1, <2>1, <2>2, <2>3, FramesKept DEF SchedInv
<1>5. CASE /\ (stack' = Tail(stack) /\ UNCHANGED loopVars) \/ Crash
           /\ UNCHANGED <<st, ioVars, waitVars, runnable, completed>>
  <2>1. NoNewService
    BY <1>5 DEF Crash, loopVars, NoNewService, Serving
  <2>2. IoPart' /\ PendingShrinks
    BY <1>5, SameIo DEF SchedInv
  <2>3. WaitPart'
    BY <1>5, <2>1, SameWaits DEF SchedInv
  <2>4. loop' \in Loops /\ UNCHANGED <<killed, shutdownReq, mode>>
    BY <1>5 DEF SchedInv, CoreOK, Crash, loopVars, Loops
  <2>5. CoreOK'
    BY <1>2, <1>5, <2>4 DEF SchedInv, CoreOK, markVars
  <2>6. StackOK(Tail(stack), loop', pending')
    BY <1>1, <2>1, <2>2, FramesKept
  <2>7. stack' = Tail(stack) \/ stack' = <<>>
    BY <1>5 DEF Crash
  <2> QED BY <2>2, <2>3, <2>5, <2>6, <2>7, NoFrames DEF SchedInv
<1>6. [st EXCEPT ![f] = "error"] \in [Fibers -> Status] /\ st \in [Fibers -> Status]
  BY <1>2 DEF SchedInv, CoreOK, Status
<1>7. CASE st' = [st EXCEPT ![f] = "error"] /\ UNCHANGED loopVars
           /\ CompleteFiber(f, "error", runnable, Tail(stack))
  BY <1>4, <1>6, <1>7
<1>8. CASE CompleteFiber(f, Verdict(st[f]), runnable, Tail(stack)) /\ UNCHANGED <<st, loopVars>>
  BY <1>4, <1>6, <1>8, VerdictType
<1> QED BY <1>3, <1>5, <1>7, <1>8 DEF FiberAbort, f

\* complete-fiber drops a waiter and its fiber-join together, and the list when it is empty.
LEMMA CompleteJoinsKeeps ==
    ASSUME SchedInv, CompleteJoins
    PROVE  SchedInv'
<1> DEFINE f == Head(stack).target
<1>1. stack # <<>> /\ Head(stack).at = "joins"
  BY DEF CompleteJoins, Top
<1>2. f \in Fibers
  BY <1>1, FrameFields, TopFrame DEF SchedInv
<1>3. NoNewService
  BY SameLoop DEF CompleteJoins, loopVars
<1>4. IoPart' /\ PendingShrinks
  BY SameIo DEF SchedInv, CompleteJoins
<1>5. CoreOK'
  BY DEF SchedInv, CoreOK, CompleteJoins, fiberVars, markVars, loopVars
<1>6. StackOK(stack, loop', pending') /\ StackOK(Tail(stack), loop', pending')
  BY <1>1, <1>3, <1>4, FramesKept
<1>7. UNCHANGED <<fiberPark, parkQueues, selectSets>>
  BY DEF CompleteJoins
<1> HIDE DEF f
<1>8. CASE f \in DOMAIN waiters /\ waiters[f] # <<>>
  <2> DEFINE w == Head(waiters[f])
  <2>1. waiters[f] \in Seq(Fibers)
    BY <1>8 DEF SchedInv, WaitPart, IsTable
  <2>2. /\ Tail(waiters[f]) \in Seq(Fibers) /\ w \in Fibers
        /\ Range(waiters[f]) = {w} \cup Range(Tail(waiters[f]))
    BY <1>8, <2>1, TailRange
  <2>3. /\ waiters' = Put(waiters, f, Tail(waiters[f])) /\ fiberJoin' = Del(fiberJoin, w)
        /\ stack' = <<Resume(w)>> \o stack
    BY <1>8 DEF CompleteJoins, f
  <2> HIDE DEF w
  <2>4. /\ IsTable(waiters', Fibers, Seq(Fibers)) /\ DOMAIN waiters' = DOMAIN waiters \cup {f}
        /\ waiters'[f] = Tail(waiters[f])
        /\ \A x \in DOMAIN waiters \ {f} : waiters'[x] = waiters[x]
    BY <1>2, <2>2, <2>3 DEF SchedInv, WaitPart, IsTable, Put
  <2>5. /\ IsTable(fiberJoin', Fibers, Fibers) /\ DOMAIN fiberJoin' = DOMAIN fiberJoin \ {w}
        /\ \A x \in DOMAIN fiberJoin \ {w} : fiberJoin'[x] = fiberJoin[x]
    BY <2>3 DEF SchedInv, WaitPart, IsTable, Del
  <2>6. JoinLookup'
    <3>1. SUFFICES ASSUME NEW v \in DOMAIN fiberJoin'
                   PROVE  /\ fiberJoin'[v] \in DOMAIN waiters'
                          /\ v \in Range(waiters'[fiberJoin'[v]])
      BY DEF JoinLookup
    <3>2. /\ v # w /\ fiberJoin'[v] = fiberJoin[v]
          /\ fiberJoin[v] \in DOMAIN waiters /\ v \in Range(waiters[fiberJoin[v]])
      BY <2>5, <3>1 DEF SchedInv, WaitPart, JoinLookup
    <3>3. CASE fiberJoin[v] = f
      BY <2>2, <2>4, <3>2, <3>3
    <3>4. CASE fiberJoin[v] # f
      BY <2>4, <3>2, <3>4
    <3> QED BY <3>3, <3>4
  <2>7. WaitPart'
    BY <1>3, <1>7, <2>4, <2>5, <2>6 DEF SchedInv, WaitPart, ParkLookup, NoNewService
  <2>8. StackOK(stack', loop', pending')
    BY <1>6, <2>2, <2>3, PushNew, NewFrames
  <2> QED BY <1>4, <1>5, <2>7, <2>8 DEF SchedInv
<1>9. CASE ~(f \in DOMAIN waiters /\ waiters[f] # <<>>)
  <2>1. /\ waiters' = Del(waiters, f) /\ fiberJoin' = fiberJoin
        /\ stack' = <<Selects(f, DOMAIN selectSets)>> \o Tail(stack)
    BY <1>9 DEF CompleteJoins, f
  <2>2. /\ IsTable(waiters', Fibers, Seq(Fibers)) /\ DOMAIN waiters' = DOMAIN waiters \ {f}
        /\ \A x \in DOMAIN waiters \ {f} : waiters'[x] = waiters[x]
    BY <2>1 DEF SchedInv, WaitPart, IsTable, Del
  <2>3. \A v \in DOMAIN fiberJoin : fiberJoin[v] # f
    <3>1. Range(<<>>) = {}
      BY DEF Range
    <3> QED BY <1>9, <3>1 DEF SchedInv, WaitPart, JoinLookup
  <2>4. JoinLookup'
    BY <2>1, <2>2, <2>3 DEF SchedInv, WaitPart, JoinLookup
  <2>5. WaitPart'
    BY <1>3, <1>7, <2>1, <2>2, <2>4 DEF SchedInv, WaitPart, ParkLookup, NoNewService
  <2>6. DOMAIN selectSets \in SUBSET Fibers
    BY DEF SchedInv, WaitPart, IsTable
  <2>7. StackOK(stack', loop', pending')
    BY <1>2, <1>6, <2>1, <2>6, PushNew, NewFrames
  <2> QED BY <1>4, <1>5, <2>5, <2>7 DEF SchedInv
<1> QED BY <1>8, <1>9

\* wake-select-waiters and retire-fiber only take entries away.
LEMMA CompleteSelectsKeeps ==
    ASSUME SchedInv, CompleteSelects
    PROVE  SchedInv'
<1> DEFINE f == Head(stack).target
           todo == Head(stack).todo
<1>1. stack # <<>> /\ Head(stack).at = "selects"
  BY DEF CompleteSelects, Top
<1>2. f \in Fibers /\ todo \subseteq Fibers
  BY <1>1, FrameFields, TopFrame DEF SchedInv
<1>3. NoNewService
  BY SameLoop DEF CompleteSelects, loopVars
<1>4. IoPart' /\ PendingShrinks
  BY SameIo DEF SchedInv, CompleteSelects
<1>5. StackOK(Tail(stack), loop', pending')
  BY <1>1, <1>3, <1>4, FramesKept
<1>6. CoreOK'
  <2>1. UNCHANGED <<completed, joined>> \/ RetireFiber(f)
    BY DEF CompleteSelects
  <2>2. IsTable(completed', Fibers, {"ok", "error"}) /\ joined' \subseteq Fibers
    BY <2>1 DEF SchedInv, CoreOK, RetireFiber, IsTable, Del
  <2> QED BY <2>2 DEF SchedInv, CoreOK, CompleteSelects, fiberVars, loopVars
<1>7. IsTable(selectSets', Fibers, SUBSET Fibers)
  <2>1. selectSets' = selectSets \/ \E w \in todo : selectSets' = Del(selectSets, w)
    BY DEF CompleteSelects
  <2> QED BY <2>1 DEF SchedInv, WaitPart, IsTable, Del
<1>8. WaitPart'
  BY <1>3, <1>7 DEF SchedInv, WaitPart, JoinLookup, ParkLookup, NoNewService, CompleteSelects
<1>9. StackOK(stack', loop', pending')
  <2>1. \/ \E w \in todo : \/ stack' = <<Resume(w), Selects(f, todo \ {w})>> \o Tail(stack)
                           \/ stack' = <<Selects(f, todo \ {w})>> \o Tail(stack)
        \/ stack' = Tail(stack)
    BY DEF CompleteSelects
  <2>2. ASSUME NEW w \in todo
        PROVE  /\ Resume(w) \in Frame /\ Resume(w).at \notin Phases
               /\ Selects(f, todo \ {w}) \in Frame /\ Selects(f, todo \ {w}).at \notin Phases
    <3>1. todo \ {w} \in SUBSET Fibers /\ w \in Fibers
      BY <1>2
    <3> QED BY <1>2, <3>1, NewFrames
  <2> HIDE DEF f, todo
  <2> QED BY <1>5, <2>1, <2>2, PushNew, PushTwoNew
<1> QED BY <1>4, <1>6, <1>8, <1>9 DEF SchedInv

\* wake-parked takes a fiber off the queue and out of fiber-park together.
LEMMA WakeParkedKeeps ==
    ASSUME SchedInv, WakeParked
    PROVE  SchedInv'
<1> DEFINE fr == Head(stack)
           f == Head(fr.todo)
<1>1. stack # <<>> /\ fr.at = "wake"
  BY DEF WakeParked, Top
<1>2. /\ fr.key \in Keys /\ fr.todo \in Seq(Fibers) /\ fr.left \in Nat
      /\ fr.caller \in Fibers \cup {None}
  BY <1>1, FrameFields, TopFrame DEF SchedInv
<1>3. NoNewService
  BY SameLoop DEF WakeParked, loopVars
<1>4. IoPart' /\ PendingShrinks
  BY SameIo DEF SchedInv, WakeParked
<1>5. CoreOK'
  BY DEF SchedInv, CoreOK, WakeParked, fiberVars, markVars, loopVars
<1>6. StackOK(Tail(stack), loop', pending')
  BY <1>1, <1>3, <1>4, FramesKept
<1>7. UNCHANGED <<fiberJoin, waiters, selectSets>>
  BY DEF WakeParked
<1>8. CASE fr.todo = <<>>
  <2>1. WaitPart'
    BY <1>3, <1>8, SameWaits DEF SchedInv, WakeParked, waitVars
  <2>2. StackOK(stack', loop', pending')
    <3>1. stack' = IF fr.caller = None THEN Tail(stack) ELSE <<Resume(fr.caller)>> \o Tail(stack)
      BY <1>8 DEF WakeParked
    <3>2. CASE fr.caller = None
      BY <1>6, <3>1, <3>2
    <3>3. CASE fr.caller # None
      BY <1>2, <1>6, <3>1, <3>3, PushNew, NewFrames
    <3> QED BY <3>2, <3>3
  <2> QED BY <1>4, <1>5, <2>1, <2>2 DEF SchedInv
<1>9. CASE fr.todo # <<>>
  <2>1. f \in Fibers /\ Tail(fr.todo) \in Seq(Fibers)
    BY <1>2, <1>9, TailRange
  <2>2. CASE Permit(fr, f)
    <3>1. /\ fiberPark' = Del(fiberPark, f) /\ parkQueues' = LeaveQueue(parkQueues, fr.key, f)
          /\ stack' = <<Resume(f), Wake(fr.key, Tail(fr.todo), fr.left - 1, fr.caller)>>
                      \o Tail(stack)
      BY <1>9, <2>2 DEF WakeParked
    <3>2. f \in DOMAIN fiberPark /\ fiberPark[f] = fr.key /\ fr.left - 1 \in Nat
      BY <1>2, <2>2 DEF Permit
    <3> HIDE DEF fr, f
    <3>3. /\ IsTable(parkQueues', Keys, Seq(Fibers)) /\ IsTable(fiberPark', Fibers, Keys)
          /\ (\A w \in DOMAIN fiberPark : /\ fiberPark[w] \in DOMAIN parkQueues
                                          /\ w \in Range(parkQueues[fiberPark[w]])) =>
               \A w \in DOMAIN fiberPark' : /\ fiberPark'[w] \in DOMAIN parkQueues'
                                            /\ w \in Range(parkQueues'[fiberPark'[w]])
      BY <3>1, <3>2, LeaveLookup DEF SchedInv, WaitPart
    <3>4. WaitPart'
      BY <1>3, <1>7, <3>3 DEF SchedInv, WaitPart, JoinLookup, ParkLookup, NoNewService
    <3>5. StackOK(stack', loop', pending')
      BY <1>2, <1>6, <2>1, <3>1, <3>2, PushTwoNew, NewFrames
    <3> QED BY <1>4, <1>5, <3>4, <3>5 DEF SchedInv
  <2>3. CASE ~Permit(fr, f)
    <3>1. /\ UNCHANGED <<fiberPark, parkQueues>>
          /\ stack' = <<Wake(fr.key, Tail(fr.todo), fr.left, fr.caller)>> \o Tail(stack)
      BY <1>9, <2>3 DEF WakeParked
    <3>2. WaitPart'
      BY <1>3, <1>7, <3>1, SameWaits DEF SchedInv, waitVars
    <3>3. StackOK(stack', loop', pending')
      BY <1>2, <1>6, <2>1, <3>1, PushNew, NewFrames
    <3> QED BY <1>4, <1>5, <3>2, <3>3 DEF SchedInv
  <2> QED BY <2>2, <2>3
<1> QED BY <1>8, <1>9

\* A completion takes both halves of its pairing, or a forwarded entry.
LEMMA RouteCompletionKeeps ==
    ASSUME SchedInv, NEW id \in Ids, RouteCompletion(id)
    PROVE  SchedInv'
<1> DEFINE K == Head(stack).keys
           left == Head(stack).todo \ {id}
           rest == <<Completions(left, K)>> \o Tail(stack)
<1>1. stack # <<>> /\ Head(stack).at = "completions"
  BY DEF RouteCompletion, Top
<1>2. left \in SUBSET Ids /\ K \in SUBSET Keys
  BY <1>1, FrameFields, TopFrame DEF SchedInv
<1>3. /\ NoNewService /\ UNCHANGED <<fiberVars, markVars, loopVars>>
      /\ inflight' \subseteq inflight
  BY SameLoop DEF RouteCompletion, loopVars
<1> HIDE DEF K, left
<1>4. ASSUME PendingShrinks
      PROVE  /\ StackOK(Tail(stack), loop', pending') /\ StackOK(rest, loop', pending')
  BY <1>1, <1>2, <1>3, <1>4, FramesKept, PushNew, NewFrames
<1> HIDE DEF rest
<1>5. CASE id \in DOMAIN pending
  <2> DEFINE f == pending[id]
  <2>1. f \in Fibers /\ DropPair(id, f) /\ UNCHANGED forwarded
    BY <1>5 DEF RouteCompletion, SchedInv, IoPart, IsTable
  <2>2. \/ stack' = rest /\ UNCHANGED <<runnable, waitVars, completed>>
        \/ BeginComplete(f, Verdict(st[f]), runnable, rest)
        \/ /\ stack' \in {<<Resume(f)>> \o rest, <<Raise(f, FALSE)>> \o rest}
           /\ UNCHANGED <<runnable, waitVars, completed>>
    BY <1>5 DEF RouteCompletion, rest, K, left
  <2>3. IoPart' /\ PendingShrinks
    BY <1>3, <2>1, DropPairKeeps DEF SchedInv
  <2> HIDE DEF f
  <2>4. CASE BeginComplete(f, Verdict(st[f]), runnable, rest)
    <3>1. /\ runnable' \in Seq(Fibers) /\ IsTable(completed', Fibers, {"ok", "error"})
          /\ WaitPart' /\ \A lp, pd : StackOK(rest, lp, pd) => StackOK(stack', lp, pd)
      BY <1>3, <2>1, <2>4, BeginCompleteKeeps, VerdictType DEF SchedInv, CoreOK
    <3>2. CoreOK'
      BY <1>3, <2>1, <3>1 DEF SchedInv, CoreOK, fiberVars, markVars, loopVars
    <3> QED BY <1>4, <2>3, <3>1, <3>2 DEF SchedInv
  <2>5. CASE /\ stack' \in {rest, <<Resume(f)>> \o rest, <<Raise(f, FALSE)>> \o rest}
             /\ UNCHANGED <<runnable, waitVars, completed>>
    <3>1. WaitPart'
      BY <1>3, <2>5, SameWaits DEF SchedInv
    <3>2. CoreOK'
      BY <1>3, <2>1, <2>5 DEF SchedInv, CoreOK, fiberVars, markVars, loopVars
    <3>3. StackOK(rest, loop', pending')
      BY <1>4, <2>3
    <3>4. StackOK(stack', loop', pending')
      BY <2>1, <2>5, <3>3, PushNew, NewFrames
    <3> QED BY <2>3, <3>1, <3>2, <3>4 DEF SchedInv
  <2> QED BY <2>2, <2>4, <2>5
<1>6. CASE id \notin DOMAIN pending
  <2>1. forwarded' = Del(forwarded, id) /\ UNCHANGED <<runnable, pending, fiberIo, waitVars, completed>>
    BY <1>6 DEF RouteCompletion
  <2>2. \/ stack' = rest
        \/ /\ id \in DOMAIN forwarded
           /\ stack' = <<Completions(left, K \cup {forwarded[id]})>> \o Tail(stack)
    BY <1>6 DEF RouteCompletion, rest, K, left
  <2>3. IoPart' /\ PendingShrinks
    BY <1>3, <2>1 DEF SchedInv, IoPart, IoLookup, PendingShrinks
  <2>4. WaitPart'
    BY <1>3, <2>1, SameWaits DEF SchedInv
  <2>5. IsTable(forwarded', Ids, Keys)
    BY <2>1, DelTable DEF SchedInv, CoreOK
  <2>6. CoreOK'
    BY <1>3, <2>1, <2>5 DEF SchedInv, CoreOK, fiberVars, markVars, loopVars
  <2>7. id \in DOMAIN forwarded => K \cup {forwarded[id]} \in SUBSET Keys
    BY <1>2 DEF SchedInv, CoreOK, IsTable
  <2>8. StackOK(stack', loop', pending')
    BY <1>2, <1>4, <2>2, <2>3, <2>7, PushNew, NewFrames
  <2> QED BY <2>3, <2>4, <2>6, <2>8 DEF SchedInv
<1> QED BY <1>5, <1>6

\* process-completions starts a wake for each forwarded key.
LEMMA WakeForwardedKeeps ==
    ASSUME SchedInv, WakeForwarded
    PROVE  SchedInv'
<1>1. NoNewService
  BY SameLoop DEF WakeForwarded, loopVars
<1>2. IoPart' /\ PendingShrinks
  BY SameIo DEF SchedInv, WakeForwarded
<1>3. WaitPart'
  BY <1>1, SameWaits DEF SchedInv, WakeForwarded
<1>4. CoreOK'
  BY DEF SchedInv, CoreOK, WakeForwarded, fiberVars, markVars, loopVars
<1>5. stack # <<>> /\ Head(stack).at = "completions"
  BY DEF WakeForwarded, Top
<1>6. StackOK(stack', loop', pending')
  <2>1. StackOK(Tail(stack), loop', pending') /\ Head(stack).keys \subseteq Keys
    BY <1>1, <1>2, <1>5, FramesKept, FrameFields
  <2>2. CASE stack' = Tail(stack)
    BY <2>1, <2>2
  <2>3. ASSUME NEW k \in Head(stack).keys,
               stack' = <<Wake(k, Array(parkQueues, k), Len(Array(parkQueues, k)), None),
                          Completions({}, Head(stack).keys \ {k})>> \o Tail(stack)
        PROVE  StackOK(stack', loop', pending')
    <3>1. Array(parkQueues, k) \in Seq(Fibers)
      BY ArrayType DEF SchedInv, WaitPart
    <3>2. k \in Keys /\ Len(Array(parkQueues, k)) \in Nat
      BY <2>1, <3>1
    <3>3. {} \in SUBSET Ids /\ Head(stack).keys \ {k} \in SUBSET Keys
      BY <2>1
    <3> QED BY <2>1, <2>3, <3>1, <3>2, <3>3, PushTwoNew, NewFrames
  <2> QED BY <2>2, <2>3 DEF WakeForwarded
<1> QED BY <1>2, <1>3, <1>4, <1>6 DEF SchedInv

\* The copy names the fiber the id is pending for, so both halves are its own.
LEMMA AbortIoOneKeeps ==
    ASSUME SchedInv, AbortIoOne
    PROVE  SchedInv'
<1>1. stack # <<>> /\ Head(stack).at = "abortIo"
  BY DEF AbortIoOne, Top
<1>2. /\ Head(stack).copy \subseteq Ids \X Fibers /\ FrameOK(Head(stack), loop, pending)
      /\ Head(stack) \in Frame
  BY <1>1, FrameFields, TopFrame DEF SchedInv
<1>3. PICK p \in Head(stack).copy :
        /\ DropPair(p[1], p[2])
        /\ inflight' = inflight \ {p[1]}
        /\ killed' = killed \cup {p[2]}
        /\ stack' = <<Raise(p[2], TRUE), AbortIo(Head(stack).copy \ {p})>> \o Tail(stack)
  BY DEF AbortIoOne
<1>4. p[2] \in Fibers /\ (p[1] \in DOMAIN pending => pending[p[1]] = p[2])
  BY <1>1, <1>2, <1>3 DEF FrameOK
<1>5. NoNewService
  BY SameLoop DEF AbortIoOne
<1>6. IoPart' /\ PendingShrinks
  BY <1>3, <1>4, DropPairKeeps DEF SchedInv
<1>7. WaitPart'
  BY <1>5, SameWaits DEF SchedInv, AbortIoOne
<1>8. CoreOK'
  BY <1>3, <1>4 DEF SchedInv, CoreOK, AbortIoOne, fiberVars, markVars
<1>9. StackOK(stack', loop', pending')
  <2>1. StackOK(stack, loop', pending')
    BY <1>5, <1>6, FramesKept
  <2>2. StackOK(Tail(stack), loop', pending') /\ FrameOK(Head(stack), loop', pending')
    BY <1>1, <2>1, TopFrame
  <2> DEFINE fr == AbortIo(Head(stack).copy \ {p})
  <2>3. fr.at = "abortIo" /\ fr.copy = Head(stack).copy \ {p}
    BY DEF AbortIo
  <2>4. fr \in Frame
    BY <1>2 DEF AbortIo, Frame
  <2>5. FrameOK(fr, loop', pending')
    BY <1>1, <2>2, <2>3 DEF FrameOK, Phases
  <2>6. Raise(p[2], TRUE) \in Frame /\ FrameOK(Raise(p[2], TRUE), loop', pending')
    BY <1>4, NewFrames DEF FrameOK, Phases
  <2> QED BY <1>3, <2>2, <2>4, <2>5, <2>6, PushTwoFrames
<1> QED BY <1>6, <1>7, <1>8, <1>9 DEF SchedInv

\* The queues go only in the teardown, where nobody looks them up by fiber-park.
LEMMA TakeParkQueuesKeeps ==
    ASSUME SchedInv, TakeParkQueues
    PROVE  SchedInv'
<1>1. stack # <<>> /\ Head(stack).at = "abortIo"
  BY DEF TakeParkQueues, Top
<1>2. ~Serving
  BY <1>1, TopFrame DEF SchedInv, FrameOK, Phases, Serving
<1>3. UNCHANGED loop /\ NoNewService
  BY SameLoop DEF TakeParkQueues, loopVars
<1>4. IoPart' /\ PendingShrinks
  BY SameIo DEF SchedInv, TakeParkQueues
<1>5. CoreOK'
  BY DEF SchedInv, CoreOK, TakeParkQueues, fiberVars, markVars, loopVars
<1>6. WaitPart'
  <2>1. IsTable(parkQueues', Keys, Seq(Fibers))
    BY DEF TakeParkQueues, IsTable, Empty
  <2> QED BY <1>2, <1>3, <2>1
          DEF SchedInv, WaitPart, JoinLookup, ParkLookup, TakeParkQueues, Serving
<1>7. StackOK(stack', loop', pending')
  <2> DEFINE S == UNION {Range(parkQueues[k]) : k \in DOMAIN parkQueues}
  <2>1. ASSUME NEW k \in DOMAIN parkQueues PROVE Range(parkQueues[k]) \subseteq Fibers
    <3>1. parkQueues[k] \in Seq(Fibers)
      BY DEF SchedInv, WaitPart, IsTable
    <3> QED BY <3>1, RangeSeq
  <2>2. S \in SUBSET Fibers
    BY <2>1
  <2>3. StackOK(Tail(stack), loop', pending')
    BY <1>1, <1>3, <1>4, FramesKept
  <2>4. stack' = <<AbortParked(S)>> \o Tail(stack)
    BY DEF TakeParkQueues
  <2> HIDE DEF S
  <2> QED BY <2>2, <2>3, <2>4, PushNew, NewFrames
<1> QED BY <1>4, <1>5, <1>6, <1>7 DEF SchedInv

\* Phase 1b marks and raises, one fiber at a time.
LEMMA AbortParkedOneKeeps ==
    ASSUME SchedInv, AbortParkedOne
    PROVE  SchedInv'
<1>1. stack # <<>> /\ Head(stack).at = "abortParked"
  BY DEF AbortParkedOne, Top
<1>2. Head(stack).todo \subseteq Fibers
  BY <1>1, FrameFields, TopFrame DEF SchedInv
<1>3. NoNewService
  BY DEF AbortParkedOne, NoNewService, Serving
<1>4. IoPart' /\ PendingShrinks
  BY SameIo DEF SchedInv, AbortParkedOne
<1>5. WaitPart'
  BY <1>3, SameWaits DEF SchedInv, AbortParkedOne
<1>6. CoreOK'
  <2>1. killed' \subseteq Fibers /\ loop' \in Loops
    BY <1>2 DEF SchedInv, CoreOK, AbortParkedOne, Loops
  <2> QED BY <2>1 DEF SchedInv, CoreOK, AbortParkedOne, fiberVars, markVars
<1>7. StackOK(stack', loop', pending')
  <2>1. StackOK(Tail(stack), loop', pending')
    BY <1>1, <1>3, <1>4, FramesKept
  <2>2. ASSUME NEW f \in Head(stack).todo,
               stack' = <<Raise(f, TRUE), AbortParked(Head(stack).todo \ {f})>> \o Tail(stack)
        PROVE  StackOK(stack', loop', pending')
    <3>1. f \in Fibers /\ Head(stack).todo \ {f} \in SUBSET Fibers
      BY <1>2
    <3> QED BY <2>1, <2>2, <3>1, PushTwoNew, NewFrames
  <2>3. \/ stack' = Tail(stack)
        \/ \E f \in Head(stack).todo :
             stack' = <<Raise(f, TRUE), AbortParked(Head(stack).todo \ {f})>> \o Tail(stack)
    BY DEF AbortParkedOne
  <2> QED BY <2>1, <2>2, <2>3
<1> QED BY <1>4, <1>5, <1>6, <1>7 DEF SchedInv

\* Phase 2 takes both halves of a pairing.
LEMMA UnwindCompletionKeeps ==
    ASSUME SchedInv, UnwindCompletion
    PROVE  SchedInv'
<1> DEFINE todo == Head(stack).todo
<1>1. stack # <<>> /\ Head(stack).at = "unwinding"
  BY DEF UnwindCompletion, Top
<1>2. todo \subseteq Ids
  BY <1>1, FrameFields, TopFrame DEF SchedInv
<1>3. /\ NoNewService /\ UNCHANGED <<fiberVars, markVars, loopVars>>
      /\ UNCHANGED <<runnable, inflight, forwarded, completed>>
  BY SameLoop DEF UnwindCompletion, loopVars
<1>4. WaitPart'
  BY <1>3, SameWaits DEF SchedInv, UnwindCompletion
<1>5. CoreOK'
  BY <1>3 DEF SchedInv, CoreOK, fiberVars, markVars, loopVars
<1>6. \/ \E id \in todo :
           /\ id \in DOMAIN pending
           /\ DropPair(id, pending[id])
           /\ stack' \in {<<Resume(pending[id])>> \o (<<Unwinding(todo \ {id})>> \o Tail(stack)),
                          <<Unwinding(todo \ {id})>> \o Tail(stack)}
      \/ /\ UNCHANGED <<pending, fiberIo>>
         /\ \/ stack' = Tail(stack)
            \/ \E id \in todo : stack' = <<Unwinding(todo \ {id})>> \o Tail(stack)
  BY DEF UnwindCompletion
<1>7. IoPart' /\ PendingShrinks
  <2>1. CASE UNCHANGED <<pending, fiberIo>>
    BY <1>3, <2>1, SameIo DEF SchedInv, ioVars
  <2>2. ASSUME NEW id \in DOMAIN pending, DropPair(id, pending[id])
        PROVE  IoPart' /\ PendingShrinks
    BY <1>3, <2>2, DropPairKeeps DEF SchedInv
  <2> QED BY <1>6, <2>1, <2>2
<1>8. StackOK(Tail(stack), loop', pending')
  BY <1>1, <1>3, <1>7, FramesKept
<1>9. ASSUME NEW id \in todo
      PROVE  /\ StackOK(<<Unwinding(todo \ {id})>> \o Tail(stack), loop', pending')
             /\ id \in DOMAIN pending => pending[id] \in Fibers
  <2>1. todo \ {id} \in SUBSET Ids
    BY <1>2
  <2>2. loop' \notin {"drain", "wait", "after"}
    BY <1>1, <1>3, TopFrame DEF SchedInv, FrameOK, Phases, loopVars
  <2>3. Unwinding(todo \ {id}) \in Frame /\ FrameOK(Unwinding(todo \ {id}), loop', pending')
    BY <2>1, <2>2, NewFrames DEF FrameOK
  <2> QED BY <1>8, <2>3, PushFrame DEF SchedInv, IoPart, IsTable
<1> HIDE DEF todo
<1>10. StackOK(stack', loop', pending')
  BY <1>6, <1>8, <1>9, PushNew, NewFrames
<1> QED BY <1>4, <1>5, <1>7, <1>10 DEF SchedInv

\* The loop pops a fiber, and completes it if it is already over.
LEMMA DrainOneKeeps ==
    ASSUME SchedInv, DrainOne
    PROVE  SchedInv'
<1> DEFINE f == Last(runnable)
           q == Front(runnable)
<1>1. /\ UNCHANGED <<fiberVars, markVars, loopVars, forwarded>> /\ NoNewService
      /\ runnable # <<>>
  BY SameLoop DEF DrainOne, loopVars
<1>2. f \in Fibers /\ q \in Seq(Fibers)
  BY <1>1, PopRange DEF SchedInv, CoreOK
<1> HIDE DEF f, q
<1>3. CASE CompleteFiber(f, Verdict(st[f]), q, <<>>)
  <2>1. /\ runnable' \in Seq(Fibers) /\ IsTable(completed', Fibers, {"ok", "error"})
        /\ WaitPart' /\ IoPart' /\ \A lp, pd : StackOK(<<>>, lp, pd) => StackOK(stack', lp, pd)
    BY <1>1, <1>2, <1>3, CompleteFiberKeeps, VerdictType DEF SchedInv
  <2>2. CoreOK'
    BY <1>1, <2>1 DEF SchedInv, CoreOK, fiberVars, markVars, loopVars
  <2> QED BY <2>1, <2>2, NoFrames DEF SchedInv
<1>4. CASE runnable' = q /\ stack' = <<Resume(f)>> /\ UNCHANGED <<ioVars, waitVars, completed>>
  <2>1. IoPart' /\ WaitPart'
    BY <1>1, <1>4, SameIo, SameWaits DEF SchedInv
  <2>2. CoreOK'
    BY <1>1, <1>2, <1>4 DEF SchedInv, CoreOK, fiberVars, markVars, loopVars
  <2>3. StackOK(stack', loop', pending')
    BY <1>2, <1>4, NewFrames, OneFrame DEF FrameOK, Phases
  <2> QED BY <2>1, <2>2, <2>3 DEF SchedInv
<1> QED BY <1>3, <1>4 DEF DrainOne, f, q

\* do-shutdown takes its copy: it agrees with the table it was taken from.
LEMMA BeginShutdownKeeps ==
    ASSUME SchedInv, NEW b \in {"unbounded", "bounded"}, BeginShutdown(b),
           UNCHANGED <<fiberVars, runnable, ioVars, waitVars, markVars, killed, mode,
                       forwarded, completed>>
    PROVE  SchedInv'
<1>1. NoNewService
  BY DEF BeginShutdown, NoNewService, Serving
<1>2. IoPart' /\ WaitPart'
  BY <1>1, SameIo, SameWaits DEF SchedInv
<1>3. CoreOK'
  BY DEF SchedInv, CoreOK, BeginShutdown, fiberVars, markVars, Loops
<1>4. StackOK(stack', loop', pending')
  <2> DEFINE P == {<<id, pending[id]>> : id \in DOMAIN pending}
             fr == AbortIo(P)
  <2>1. stack' = <<fr>> /\ loop' = "shutdown" /\ pending' = pending
    BY DEF BeginShutdown, ioVars
  <2>2. P \in SUBSET (Ids \X Fibers)
    BY DEF SchedInv, IoPart, IsTable
  <2>3. fr.at = "abortIo" /\ fr.copy = P /\ fr \in Frame
    <3> HIDE DEF P
    <3> QED BY <2>2 DEF AbortIo, Frame
  <2>4. \A p \in P : p[1] \in DOMAIN pending => pending[p[1]] = p[2]
    OBVIOUS
  <2>5. FrameOK(fr, loop', pending')
    <3> HIDE DEF P, fr
    <3> QED BY <2>1, <2>3, <2>4 DEF FrameOK, Phases
  <2> HIDE DEF P, fr
  <2> QED BY <2>1, <2>3, <2>5, OneFrame
<1> QED BY <1>2, <1>3, <1>4 DEF SchedInv

\* step goes on to wait, to tear down or to finish.
LEMMA StepDecideKeeps ==
    ASSUME SchedInv, StepDecide
    PROVE  SchedInv'
<1>1. UNCHANGED <<fiberVars, runnable, ioVars, waitVars, markVars, killed, mode, forwarded, completed>>
  BY DEF StepDecide
<1>2. CASE loop' \in {"tail", "wait"} /\ UNCHANGED <<stack, shutdownReq>>
  <2>1. NoNewService
    BY DEF NoNewService, Serving, StepDecide, At
  <2>2. IoPart' /\ PendingShrinks
    BY <1>1, SameIo DEF SchedInv
  <2>3. WaitPart'
    BY <1>1, <2>1, SameWaits DEF SchedInv
  <2>4. CoreOK'
    BY <1>1, <1>2 DEF SchedInv, CoreOK, fiberVars, markVars, Loops
  <2> QED BY <1>2, <2>1, <2>2, <2>3, <2>4, FramesKept DEF SchedInv
<1>3. CASE ShutdownAsked /\ BeginShutdown(shutdownReq)
  BY <1>1, <1>3, BeginShutdownKeeps DEF SchedInv, CoreOK, ShutdownAsked
<1> QED BY <1>2, <1>3 DEF StepDecide

\* :pump takes its other step, or tears down.
LEMMA PumpDecideKeeps ==
    ASSUME SchedInv, PumpDecide
    PROVE  SchedInv'
<1>1. UNCHANGED <<fiberVars, runnable, ioVars, waitVars, markVars, killed, forwarded, completed>>
  BY DEF PumpDecide
<1>2. CASE mode' \in {"poll", "block"} /\ loop' = "drain" /\ UNCHANGED <<stack, shutdownReq>>
  <2>1. NoNewService
    BY DEF NoNewService, Serving, PumpDecide, At
  <2>2. IoPart' /\ PendingShrinks
    BY <1>1, SameIo DEF SchedInv
  <2>3. WaitPart'
    BY <1>1, <2>1, SameWaits DEF SchedInv
  <2>4. CoreOK'
    BY <1>1, <1>2 DEF SchedInv, CoreOK, fiberVars, markVars, Loops
  <2> QED BY <1>2, <2>1, <2>2, <2>3, <2>4, FramesKept DEF SchedInv
<1>3. CASE BeginShutdown("bounded") /\ UNCHANGED mode
  BY <1>1, <1>3, BeginShutdownKeeps
<1> QED BY <1>2, <1>3 DEF PumpDecide

\* Phase 2 goes round.
LEMMA UnwindKeeps ==
    ASSUME SchedInv, Unwind
    PROVE  SchedInv'
<1>1. NoNewService
  BY DEF Unwind, At, NoNewService, Serving
<1>2. IoPart' /\ PendingShrinks
  BY SameIo DEF SchedInv, Unwind
<1>3. WaitPart'
  BY <1>1, SameWaits DEF SchedInv, Unwind
<1>4. CoreOK'
  BY DEF SchedInv, CoreOK, Unwind, fiberVars, markVars, Loops
<1> QED BY <1>1, <1>2, <1>3, <1>4, FramesKept DEF SchedInv, Unwind

\* Phase 2 ends.
LEMMA UnwindEndKeeps ==
    ASSUME SchedInv, UnwindEnd
    PROVE  SchedInv'
<1>1. NoNewService
  BY DEF UnwindEnd, At, NoNewService, Serving
<1>2. IoPart' /\ PendingShrinks
  BY SameIo DEF SchedInv, UnwindEnd
<1>3. WaitPart'
  BY <1>1, SameWaits DEF SchedInv, UnwindEnd
<1>4. CoreOK'
  BY DEF SchedInv, CoreOK, UnwindEnd, fiberVars, markVars, Loops
<1> QED BY <1>1, <1>2, <1>3, <1>4, FramesKept DEF SchedInv, UnwindEnd

\* A wait that answers with nothing.
LEMMA IoWaitEmptyKeeps ==
    ASSUME SchedInv, IoWaitEmpty
    PROVE  SchedInv'
<1>1. NoNewService
  BY DEF IoWaitEmpty, At, NoNewService, Serving
<1>2. IoPart' /\ PendingShrinks
  BY SameIo DEF SchedInv, IoWaitEmpty
<1>3. WaitPart'
  BY <1>1, SameWaits DEF SchedInv, IoWaitEmpty
<1>4. CoreOK'
  BY DEF SchedInv, CoreOK, IoWaitEmpty, fiberVars, markVars, Loops
<1> QED BY <1>1, <1>2, <1>3, <1>4, FramesKept DEF SchedInv, IoWaitEmpty

\* A wait that answers with completions.
LEMMA IoWaitKeeps ==
    ASSUME SchedInv, NEW B \in SUBSET inflight, IoWait(B)
    PROVE  SchedInv'
<1>1. NoNewService
  BY DEF IoWait, At, NoNewService, Serving
<1>2. IoPart'
  BY DEF SchedInv, IoPart, IoLookup, IoWait
<1>3. WaitPart'
  BY <1>1, SameWaits DEF SchedInv, IoWait
<1>4. CoreOK'
  BY DEF SchedInv, CoreOK, IoWait, fiberVars, markVars, Loops
<1>5. StackOK(stack', loop', pending')
  <2>1. B \in SUBSET Ids /\ {} \in SUBSET Keys
    BY DEF SchedInv, IoPart
  <2>2. Completions(B, {}) \in Frame /\ FrameOK(Completions(B, {}), loop', pending')
    BY <2>1, NewFrames DEF FrameOK, Phases
  <2> QED BY <2>2, OneFrame DEF IoWait
<1> QED BY <1>2, <1>3, <1>4, <1>5 DEF SchedInv

\* A wait of phase 2.
LEMMA UnwindWaitKeeps ==
    ASSUME SchedInv, NEW B \in SUBSET inflight, UnwindWait(B)
    PROVE  SchedInv'
<1>1. NoNewService
  BY DEF UnwindWait, At, NoNewService, Serving
<1>2. IoPart'
  BY DEF SchedInv, IoPart, IoLookup, UnwindWait
<1>3. WaitPart'
  BY <1>1, SameWaits DEF SchedInv, UnwindWait
<1>4. CoreOK'
  BY DEF SchedInv, CoreOK, UnwindWait, fiberVars, markVars, Loops
<1>5. StackOK(stack', loop', pending')
  <2>1. B \in SUBSET Ids /\ {} \in SUBSET Keys
    BY DEF SchedInv, IoPart
  <2>2. Unwinding(B) \in Frame /\ FrameOK(Unwinding(B), loop', pending')
    BY <2>1, NewFrames DEF FrameOK, UnwindWait
  <2> QED BY <2>2, OneFrame DEF UnwindWait
<1> QED BY <1>2, <1>3, <1>4, <1>5 DEF SchedInv

\* Phase 3 drops every submission, and by the lookups every fiber-io with them.
LEMMA CancelStragglersKeeps ==
    ASSUME SchedInv, CancelStragglers
    PROVE  SchedInv'
<1> DEFINE P == {pending[id] : id \in DOMAIN pending}
           F == P \cup Range(runnable)
<1>1. NoNewService
  BY DEF CancelStragglers, NoNewService, Serving
<1>2. P \subseteq Fibers /\ F \subseteq Fibers
  BY RangeSeq DEF SchedInv, CoreOK, IoPart, IsTable
<1>3. DOMAIN fiberIo \subseteq P
  BY DEF SchedInv, IoPart, IoLookup
<1>4. /\ st' = [f \in Fibers |-> IF f \in F THEN AfterCancel(st[f]) ELSE st[f]]
      /\ killed' = killed \cup F
      /\ fiberIo' = [f \in DOMAIN fiberIo \ P |-> fiberIo[f]]
      /\ inflight' \subseteq inflight /\ pending' = Empty /\ runnable' = <<>> /\ loop' = "tail"
      /\ UNCHANGED <<budget, waitVars, markVars, shutdownReq, mode, forwarded, completed, stack>>
  BY DEF CancelStragglers
<1> HIDE DEF P, F
<1>5. DOMAIN fiberIo' = {} /\ DOMAIN pending' = {}
  BY <1>3, <1>4 DEF Empty
<1>6. IoPart' /\ PendingShrinks
  BY <1>4, <1>5 DEF SchedInv, IoPart, IoLookup, IsTable, PendingShrinks
<1>7. WaitPart'
  BY <1>1, <1>4, SameWaits DEF SchedInv
<1>8. CoreOK'
  <2>1. st' \in [Fibers -> Status]
    <3>1. \A s \in Status : AfterCancel(s) \in Status
      BY DEF AfterCancel, Status
    <3> QED BY <1>4, <3>1 DEF SchedInv, CoreOK
  <2> QED BY <1>2, <1>4, <2>1 DEF SchedInv, CoreOK, markVars, Loops
<1> QED BY <1>1, <1>4, <1>6, <1>7, <1>8, FramesKept DEF SchedInv

\* forget-fibers empties every table.
LEMMA PumpTailKeeps ==
    ASSUME SchedInv, PumpTail
    PROVE  SchedInv'
<1>1. loop' \in {"returned", "raised"} /\ NoNewService /\ ~Serving'
  BY DEF PumpTail, NoNewService, Serving
<1>2. IoPart' /\ PendingShrinks
  BY EmptyTable DEF SchedInv, IoPart, IoLookup, PendingShrinks, PumpTail
<1>3. WaitPart'
  BY <1>1, EmptyTable DEF SchedInv, WaitPart, JoinLookup, ParkLookup, PumpTail
<1>4. CoreOK'
  BY <1>1, EmptyTable DEF SchedInv, CoreOK, PumpTail, fiberVars, Loops
<1> QED BY <1>1, <1>2, <1>3, <1>4, FramesKept DEF SchedInv, PumpTail

-----------------------------------------------------------------------------
(* The theorems.                                                           *)

\* The loop starts with sound tables.
LEMMA InitHolds == Init => SchedInv
<1> SUFFICES ASSUME Init PROVE SchedInv
  OBVIOUS
<1>1. IoPart
  BY EmptyTable DEF Init, IoPart, IoLookup
<1>2. WaitPart
  BY EmptyTable DEF Init, WaitPart, JoinLookup, ParkLookup
<1>3. CoreOK
  <2>1. st \in [Fibers -> Status] /\ budget \in [Fibers -> 0..MaxOps]
    BY SchedAssumption DEF Init, Status
  <2> QED BY <2>1, EmptyTable, SchedAssumption DEF Init, CoreOK, Loops
<1> QED BY <1>1, <1>2, <1>3, NoFrames DEF Init, SchedInv

\* A running fiber keeps the invariant, whatever it asks for.
LEMMA FiberStepKeeps == ASSUME SchedInv, NEW f \in Fibers, FiberStep(f) PROVE SchedInv'
<1>1. Spawned \subseteq Fibers
  BY DEF Spawned
<1>2. CASE FiberReturn(f) \/ FiberError(f) \/ FiberYield(f) \/ SubmitIo(f) \/ RefuseIo(f)
           \/ RequestShutdown(f)
  BY <1>2, FiberReturnKeeps, FiberErrorKeeps, FiberYieldKeeps, SubmitIoKeeps, RefuseIoKeeps,
     RequestShutdownKeeps
<1>3. CASE \E t \in Spawned : HandleJoin(f, t) \/ HandleAbort(f, t)
  BY <1>1, <1>3, HandleJoinKeeps, HandleAbortKeeps
<1>4. CASE \E S \in SUBSET Spawned \ {{}} : HandleSelect(f, S)
  <2>1. PICK S \in SUBSET Spawned \ {{}} : HandleSelect(f, S)
    BY <1>4
  <2>2. S \in SUBSET Fibers
    BY <1>1
  <2> QED BY <2>1, <2>2, HandleSelectKeeps
<1>5. CASE \E k \in Keys : HandlePark(f, k) \/ HandleIoForward(f, k)
  BY <1>5, HandleParkKeeps, HandleIoForwardKeeps
<1>6. CASE \E k \in Keys, n \in 1..MaxWake : HandleNotify(f, k, n)
  BY <1>6, HandleNotifyKeeps
<1>7. CASE \E id \in Ids : HandleIoForwardCancel(f, id)
  BY <1>7, HandleIoForwardCancelKeeps
<1>8. CASE \E g \in Fibers : Spawn(f, g) \/ KillFiber(f, g)
  BY <1>8, SpawnKeeps, KillFiberKeeps
<1> QED BY <1>2, <1>3, <1>4, <1>5, <1>6, <1>7, <1>8 DEF FiberStep

\* Every step of the specification keeps the invariant.
LEMMA NextKeeps == ASSUME SchedInv, [Next]_vars PROVE SchedInv'
<1>1. CASE \E f \in Fibers : FiberStep(f)
  BY <1>1, FiberStepKeeps
<1>2. CASE HandlerStep
  BY <1>2, FiberResumeKeeps, FiberAbortKeeps, CompleteJoinsKeeps, CompleteSelectsKeeps,
     WakeParkedKeeps, RouteCompletionKeeps, WakeForwardedKeeps, AbortIoOneKeeps,
     TakeParkQueuesKeeps, AbortParkedOneKeeps, UnwindCompletionKeeps DEF HandlerStep
<1>3. CASE LoopStep
  BY <1>3, DrainOneKeeps, StepDecideKeeps, PumpDecideKeeps, UnwindKeeps, UnwindEndKeeps,
     CancelStragglersKeeps, PumpTailKeeps DEF LoopStep
<1>4. CASE \E B \in SUBSET inflight : IoWait(B) \/ UnwindWait(B)
  BY <1>4, IoWaitKeeps, UnwindWaitKeeps
<1>5. CASE IoWaitEmpty
  BY <1>5, IoWaitEmptyKeeps
<1>6. CASE UNCHANGED vars
  BY <1>6 DEF vars, SchedInv, CoreOK, IoPart, IoLookup, WaitPart, JoinLookup, ParkLookup,
              Serving, StackOK
<1> QED BY <1>1, <1>2, <1>3, <1>4, <1>5, <1>6 DEF Next

\* The inductive invariant holds, whatever programs do: for every set of
\* fibers, keys and ids, every bound and every Careless.
THEOREM SchedInvariant == Spec => []SchedInv
<1>1. Init => SchedInv
  BY InitHolds
<1>2. SchedInv /\ [Next]_vars => SchedInv'
  BY NextKeeps
<1> QED BY <1>1, <1>2, PTL DEF Spec

\* Every table of the scheduler stays well typed: no handler ever stores a
\* key, a fiber or a submission the others could not read.
THEOREM TypesHold == Spec => []TypeOK
<1>1. SchedInv => TypeOK
  BY DEF SchedInv, CoreOK, IoPart, WaitPart, StackOK, TypeOK
<1> QED BY <1>1, SchedInvariant, PTL

\* The reverse lookups are sound whatever programs do: io/cancel never takes
\* another fiber's operation away, and leave-waits finds the list and the
\* queue it leaves.
THEOREM LookupsHold == Spec => []LookupsSound
<1>1. SchedInv => LookupsSound
  BY DEF SchedInv, IoPart, WaitPart, LookupsSound
<1> QED BY <1>1, SchedInvariant, PTL
=============================================================================
