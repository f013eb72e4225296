----------------------------- MODULE PoolProofs -----------------------------
(***************************************************************************)
(* The handover of jobs between the main thread and the workers is safe    *)
(* for every number of operations and workers, every keepalive and every   *)
(* choice of which operations can be stopped.                              *)
(***************************************************************************)
EXTENDS PoolProps, TableFacts, FiniteSetTheorems

\* A handoff is posted once, by a worker that has nothing else to do.
HandoffsSound ==
    /\ Distinct(parked)
    /\ \A w \in Range(parked) :
         pc[w] \in {"publishing", "waiting", "expired"} /\ slot[w] = None
    /\ main # "dropped" => slotClosed = {}
    /\ main = "dropped" => closed /\ parked = <<>>

\* A worker holds a job exactly while it runs one or has its result to send.
HoldsWhileBusy ==
    \A w \in Workers :
        job[w] # None <=> pc[w] \in {"running", "publishing", "leaving"}

\* Whatever is on its way was submitted.
OnlyMinted ==
    /\ \A w \in Workers : slot[w] \in minted \cup {None} /\ job[w] \in minted \cup {None}
    /\ Range(channel) \subseteq minted
    /\ main = "claimed" => hand.job \in minted

PoolInv ==
    PoolTypeOK /\ HandoffsSound /\ NoStrandedJob /\ HoldsWhileBusy /\ OnlyMinted
    /\ JobInOnePlace

-----------------------------------------------------------------------------
\* The first state of a backend satisfies the invariant.
LEMMA PoolInitInv == Init => PoolInv
<1> USE PoolAssumption
<1> SUFFICES ASSUME Init PROVE PoolInv
  OBVIOUS
<1>1. Range(<<>>) = {}
  BY DEF Range
<1>2. PoolTypeOK
  <2>1. hand \in [worker : Workers \cup {None}, job : Jobs \cup {None}]
    BY DEF Init, NoClaim
  <2>2. closed \in BOOLEAN /\ lapsed \in BOOLEAN
    BY Zenon DEF Init
  <2>3. parked \in Seq(Workers) /\ channel \in Seq(Jobs)
    BY DEF Init
  <2> QED BY <2>1, <2>2, <2>3 DEF Init, PoolTypeOK
<1>3. HandoffsSound /\ NoStrandedJob /\ HoldsWhileBusy /\ OnlyMinted /\ JobInOnePlace
  BY <1>1 DEF Init, HandoffsSound, NoStrandedJob, HoldsWhileBusy, OnlyMinted,
     JobInOnePlace, Distinct, Left, Held, Sent, Claimed
<1> QED BY <1>2, <1>3 DEF PoolInv

\* What a worker does when its operation has ended.
LEMMA FinishCases ==
    ASSUME NEW w, FinishJob(w)
    PROVE  /\ pc[w] = "running"
           /\ \/ /\ ~closed
                 /\ parked' = Append(parked, w)
                 /\ pc' = [pc EXCEPT ![w] = "publishing"]
              \/ /\ parked' = parked
                 /\ pc' = [pc EXCEPT ![w] = "leaving"]
BY Zenon DEF FinishJob

\* One receive of the teardown.
LEMMA QuiesceReceives ==
    ASSUME QuiesceReceive, channel # <<>>
    PROVE  /\ channel' = Tail(channel)
           /\ CountDown(1)
           /\ entries' = entries \ {Head(channel)}
           /\ stops' = stops \ {Head(channel)} /\ told' = told \ {Head(channel)}
           /\ cancelled' = cancelled \ {Head(channel)}
           /\ stopAsked' = stopAsked \ {Head(channel)} /\ gone' = gone \ {Head(channel)}
           /\ lapsed' = lapsed
           /\ main = "quiesce"
           /\ UNCHANGED <<crewVars, main, hand, minted, awaited>>
BY Zenon DEF QuiesceReceive

\* Every step keeps every variable in its type.
LEMMA PoolTypeStep ==
    ASSUME PoolInv, [Next]_vars
    PROVE  PoolTypeOK'
<1> USE PoolAssumption DEF PoolInv
<1>1. ASSUME NEW w \in Workers, FinishJob(w) PROVE PoolTypeOK'
  <2>1. parked' \in Seq(Workers)
    <3>1. parked' = Append(parked, w) \/ parked' = parked
      BY <1>1, FinishCases, Zenon
    <3>2. parked \in Seq(Workers) /\ Append(parked, w) \in Seq(Workers)
      BY AppendRange DEF PoolTypeOK
    <3> QED BY <3>1, <3>2
  <2>2. pc' \in [Workers -> {"unborn", "running", "publishing", "leaving",
                            "waiting", "expired", "committed", "retired"}]
    BY <1>1, FinishCases DEF PoolTypeOK
  <2> QED BY <1>1, <2>1, <2>2 DEF FinishJob, PoolTypeOK, tableVars, restVars
<1>2. ASSUME NEW w \in Workers, Publish(w) PROVE PoolTypeOK'
  <2>1. job[w] \in Jobs
    BY <1>2 DEF Publish, HoldsWhileBusy, PoolTypeOK
  <2> QED BY <1>2, <2>1, AppendRange DEF Publish, PoolTypeOK, tableVars, restVars
<1>3. ASSUME NEW w \in Workers, TakeJob(w) PROVE PoolTypeOK'
  BY <1>3 DEF TakeJob, EmptySlot, PoolTypeOK, tableVars, restVars
<1>4. ASSUME NEW w \in Workers, WaitEnds(w) PROVE PoolTypeOK'
  BY <1>4 DEF WaitEnds, PoolTypeOK, tableVars, restVars
<1>5. ASSUME NEW w \in Workers, RetireOrWait(w) PROVE PoolTypeOK'
  BY <1>5, LeaveArrayRange DEF RetireOrWait, PoolTypeOK, tableVars, restVars
<1>6. ASSUME NEW w \in Workers, CommittedEnds(w) PROVE PoolTypeOK'
  BY <1>6 DEF CommittedEnds, PoolTypeOK, tableVars, restVars
<1>7. ASSUME NEW j \in Jobs, ClaimParked(j) PROVE PoolTypeOK'
  BY <1>7, PopRange DEF ClaimParked, Mint, OpenPipe, PoolTypeOK, restVars
<1>8. CASE Fill
  <2>1. hand.job \in Jobs
    BY <1>8 DEF Fill, OnlyMinted, PoolTypeOK
  <2>2. hand' \in [worker : Workers \cup {None}, job : Jobs \cup {None}]
    BY <1>8 DEF Fill, NoClaim
  <2>3. slot' \in [Workers -> Jobs \cup {None}] /\ entries' \subseteq Jobs
    BY <1>8, <2>1 DEF Fill, Accept, PoolTypeOK
  <2>4. inFlight' \in Nat
    BY <1>8 DEF Fill, Accept, PoolTypeOK
  <2> QED BY <1>8, <2>2, <2>3, <2>4 DEF Fill, PoolTypeOK, restVars
<1>9. ASSUME NEW j \in Jobs, NEW w \in Workers, StartWorker(j, w) PROVE PoolTypeOK'
  BY <1>9 DEF StartWorker, Mint, Accept, OpenPipe, PoolTypeOK, restVars
<1>10. ASSUME NEW j \in Jobs, RefuseThread(j) \/ Cancel(j) \/ AskerEnds(j) PROVE PoolTypeOK'
  BY <1>10 DEF RefuseThread, Cancel, AskerEnds, Mint, ForgetStop, PoolTypeOK,
     crewVars, tableVars, restVars
<1>11. CASE Poll \/ WaitBlocks \/ Receive \/ ReceiveTimesOut
  <2>1. Len(channel) \in Nat
    BY DEF PoolTypeOK
  <2>2. DrainReady /\ main' \in {"idle", "blocked"}
    BY <1>11 DEF Poll, WaitBlocks, Receive, ReceiveTimesOut
  <2>3. inFlight' \in Nat
    BY <2>1, <2>2 DEF DrainReady, CountDown, PoolTypeOK
  <2> QED BY <2>2, <2>3 DEF DrainReady, OrphanedToStop, PoolTypeOK, crewVars, restVars
<1>12. CASE Quiesce \/ QuiesceEnds
  BY <1>12 DEF Quiesce, QuiesceEnds, PoolTypeOK, crewVars, tableVars, restVars
<1>13. CASE QuiesceReceive
  <2>1. CASE channel # <<>>
    <3>1. channel' \in Seq(Jobs)
      BY <1>13, <2>1, TailRange, QuiesceReceives DEF PoolTypeOK
    <3>2. inFlight' \in Nat
      BY <1>13, <2>1, QuiesceReceives DEF CountDown, PoolTypeOK
    <3>3. waits' \in Nat
      BY <1>13 DEF QuiesceReceive, PoolTypeOK
    <3> QED BY <1>13, <2>1, <3>1, <3>2, <3>3, QuiesceReceives DEF PoolTypeOK, crewVars
  <2>2. CASE channel = <<>>
    <3>1. lapsed' \in BOOLEAN
      BY <1>13, <2>2 DEF QuiesceReceive
    <3>2. waits' \in Nat
      BY <1>13 DEF QuiesceReceive, PoolTypeOK
    <3>3. UNCHANGED <<channel, gone, tableVars>>
      BY <1>13, <2>2 DEF QuiesceReceive
    <3> QED BY <1>13, <3>1, <3>2, <3>3 DEF QuiesceReceive, PoolTypeOK, crewVars, tableVars
  <2> QED BY <2>1, <2>2
<1>14. CASE Drop
  <2>1. closed' \in BOOLEAN
    BY <1>14 DEF Drop, ClosePool
  <2>2. parked' \in Seq(Workers)
    BY <1>14 DEF Drop
  <2>3. slotClosed' \subseteq Workers
    BY <1>14, RangeSeq DEF Drop, ClosePool, PoolTypeOK
  <2> QED BY <1>14, <2>1, <2>2, <2>3 DEF Drop, PoolTypeOK, restVars
<1>15. CASE UNCHANGED vars
  BY <1>15 DEF vars, PoolTypeOK
<1> QED
  BY <1>1, <1>2, <1>3, <1>4, <1>5, <1>6, <1>7, <1>8, <1>9, <1>10, <1>11, <1>12,
     <1>13, <1>14, <1>15 DEF Next, CrewStep

\* Every step keeps the handoffs sound, and no job is stranded by it.
LEMMA HandoffStep ==
    ASSUME PoolInv, PoolTypeOK', [Next]_vars
    PROVE  HandoffsSound' /\ NoStrandedJob'
<1> USE PoolAssumption
<1> DEFINE P == Range(parked)
<1>0. /\ parked \in Seq(Workers) /\ P \subseteq Workers
      /\ pc \in [Workers -> {"unborn", "running", "publishing", "leaving",
                             "waiting", "expired", "committed", "retired"}]
      /\ slot \in [Workers -> Jobs \cup {None}]
      /\ HandoffsSound /\ NoStrandedJob /\ OnlyMinted /\ minted \subseteq Jobs
  BY RangeSeq DEF PoolInv, PoolTypeOK
<1>1. ASSUME NEW w \in Workers, FinishJob(w) PROVE HandoffsSound' /\ NoStrandedJob'
  <2>1. /\ pc[w] = "running"
        /\ UNCHANGED <<slot, slotClosed, closed, main, hand>>
    BY <1>1, Zenon DEF FinishJob
  <2>2. w \notin P /\ slot[w] = None /\ ~(main = "claimed" /\ hand.worker = w)
    BY <1>0, <2>1 DEF HandoffsSound, NoStrandedJob
  <2>3. CASE ~closed /\ parked' = Append(parked, w) /\ pc' = [pc EXCEPT ![w] = "publishing"]
    <3>1. Range(parked') = P \cup {w} /\ Distinct(parked')
      BY <1>0, <2>2, <2>3, AppendRange DEF HandoffsSound
    <3>2. main # "dropped"
      BY <1>0, <2>3, Zenon DEF HandoffsSound
    <3> HIDE DEF P
    <3>3. HandoffsSound'
      BY <1>0, <2>1, <2>2, <2>3, <3>1, <3>2 DEF HandoffsSound, P
    <3> QED BY <1>0, <2>1, <2>2, <2>3, <3>1, <3>3 DEF NoStrandedJob, P
  <2>4. CASE parked' = parked /\ pc' = [pc EXCEPT ![w] = "leaving"]
    BY <1>0, <2>1, <2>2, <2>4 DEF HandoffsSound, NoStrandedJob
  <2> QED BY <1>1, <2>3, <2>4, FinishCases, Zenon
<1>2. ASSUME NEW w \in Workers, Publish(w) \/ WaitEnds(w) \/ CommittedEnds(w)
      PROVE  HandoffsSound' /\ NoStrandedJob'
  <2>1. UNCHANGED <<slot, slotClosed, parked, closed, main, hand>>
    BY <1>2, Zenon DEF Publish, WaitEnds, CommittedEnds
  <2>2. \/ pc[w] = "publishing" /\ pc' = [pc EXCEPT ![w] = "waiting"]
        \/ pc[w] = "leaving" /\ pc' = [pc EXCEPT ![w] = "retired"]
        \/ pc[w] = "waiting" /\ pc' = [pc EXCEPT ![w] = "expired"]
        \/ /\ pc[w] = "committed" /\ pc' = [pc EXCEPT ![w] = "retired"]
           /\ slot[w] = None /\ w \in slotClosed
    BY <1>2 DEF Publish, WaitEnds, CommittedEnds
  <2> QED BY <1>0, <2>1, <2>2 DEF HandoffsSound, NoStrandedJob
<1>3. ASSUME NEW w \in Workers, TakeJob(w) PROVE HandoffsSound' /\ NoStrandedJob'
  BY <1>0, <1>3 DEF TakeJob, EmptySlot, HandoffsSound, NoStrandedJob
<1>4. ASSUME NEW w \in Workers, RetireOrWait(w) PROVE HandoffsSound' /\ NoStrandedJob'
  <2>1. pc[w] = "expired" /\ UNCHANGED <<slot, slotClosed, closed, main, hand>>
    BY <1>4 DEF RetireOrWait
  <2>2. CASE w \in P
    <3>1. parked' = LeaveArray(parked, w) /\ pc' = [pc EXCEPT ![w] = "retired"]
      BY <1>4, <2>2 DEF RetireOrWait, Posted
    <3>2. Range(parked') = P \ {w} /\ Distinct(parked')
      BY <1>0, <3>1, LeaveArrayRange DEF HandoffsSound
    <3>3. parked # <<>>
      BY <2>2 DEF Range
    <3> HIDE DEF P
    <3>4. HandoffsSound'
      BY <1>0, <2>1, <2>2, <3>1, <3>2, <3>3 DEF HandoffsSound, P
    <3> QED BY <1>0, <2>1, <2>2, <3>1, <3>2, <3>4 DEF NoStrandedJob, P
  <2>3. CASE w \notin P
    BY <1>0, <1>4, <2>1, <2>3 DEF RetireOrWait, Posted, HandoffsSound, NoStrandedJob
  <2> QED BY <2>2, <2>3
<1>5. ASSUME NEW j \in Jobs, ClaimParked(j) PROVE HandoffsSound' /\ NoStrandedJob'
  <2> DEFINE w == Last(parked)
  <2>1. /\ parked # <<>> /\ parked' = Front(parked)
        /\ main = "idle" /\ main' = "claimed"
        /\ hand' = [worker |-> w, job |-> j]
        /\ UNCHANGED <<pc, slot, slotClosed, closed>>
    BY <1>5, Zenon DEF ClaimParked, Mint
  <2>2. w \in P /\ Range(parked') \subseteq P /\ Distinct(parked') /\ w \notin Range(parked')
    BY <1>0, <2>1, PopRange DEF HandoffsSound
  <2>3. hand'.worker = w
    BY <2>1
  <2> HIDE DEF P, w
  <2>4. HandoffsSound'
    BY <1>0, <2>1, <2>2 DEF HandoffsSound, P
  <2> QED BY <1>0, <2>1, <2>2, <2>3, <2>4 DEF HandoffsSound, NoStrandedJob, P
<1>6. CASE Fill
  <2>1. /\ main = "claimed" /\ main' = "idle"
        /\ slot' = [slot EXCEPT ![hand.worker] = hand.job]
        /\ UNCHANGED <<pc, slotClosed, parked, closed>>
    BY <1>6, Zenon DEF Fill
  <2>2. hand.worker \in Workers
    BY <1>0, <2>1 DEF NoStrandedJob
  <2> QED BY <1>0, <2>1, <2>2 DEF HandoffsSound, NoStrandedJob
<1>7. ASSUME NEW j \in Jobs, NEW w \in Workers, StartWorker(j, w)
      PROVE  HandoffsSound' /\ NoStrandedJob'
  BY <1>0, <1>7 DEF StartWorker, Mint, HandoffsSound, NoStrandedJob
<1>8. ASSUME UNCHANGED crewVars, main' = "claimed" <=> main = "claimed",
             main' = "dropped" <=> main = "dropped", hand' = hand
      PROVE  HandoffsSound' /\ NoStrandedJob'
  BY <1>0, <1>8 DEF crewVars, HandoffsSound, NoStrandedJob
<1>9. ASSUME NEW j \in Jobs, RefuseThread(j) \/ Cancel(j) \/ AskerEnds(j)
      PROVE  HandoffsSound' /\ NoStrandedJob'
  BY <1>8, <1>9 DEF RefuseThread, Cancel, AskerEnds
<1>10. CASE Poll \/ WaitBlocks \/ Receive \/ ReceiveTimesOut
  BY <1>8, <1>10 DEF Poll, WaitBlocks, Receive, ReceiveTimesOut, DrainReady
<1>11. CASE Quiesce \/ QuiesceReceive \/ QuiesceEnds
  <2>1. UNCHANGED <<crewVars, hand>> /\ main \in {"idle", "quiesce"}
        /\ main' \in {"quiesce", "rest"}
    BY <1>11 DEF Quiesce, QuiesceReceive, QuiesceEnds
  <2> QED BY <1>8, <2>1
<1>12. CASE Drop
  <2>1. /\ main = "rest" /\ main' = "dropped" /\ parked' = <<>> /\ closed'
        /\ slotClosed' = slotClosed \cup P
        /\ UNCHANGED <<pc, slot, hand>>
    BY <1>12, Zenon DEF Drop, ClosePool
  <2>2. Range(parked') = {} /\ Distinct(parked')
    BY <2>1 DEF Range, Distinct
  <2> HIDE DEF P
  <2>3. HandoffsSound'
    BY <2>1, <2>2 DEF HandoffsSound
  <2> QED BY <1>0, <2>1, <2>2, <2>3 DEF HandoffsSound, NoStrandedJob, P
<1>13. CASE UNCHANGED vars
  BY <1>8, <1>13 DEF vars, crewVars
<1> QED
  BY <1>1, <1>2, <1>3, <1>4, <1>5, <1>6, <1>7, <1>9, <1>10, <1>11, <1>12, <1>13
  DEF Next, CrewStep

\* Every step leaves every job in one place.
LEMMA PlaceStep ==
    ASSUME PoolInv, PoolTypeOK', [Next]_vars
    PROVE  HoldsWhileBusy' /\ OnlyMinted' /\ JobInOnePlace'
<1> USE PoolAssumption
<1> DEFINE C == Range(channel)
           Goal == HoldsWhileBusy' /\ OnlyMinted' /\ JobInOnePlace'
<1>0. /\ channel \in Seq(Jobs) /\ C \subseteq Jobs /\ minted \subseteq Jobs
      /\ pc \in [Workers -> {"unborn", "running", "publishing", "leaving",
                             "waiting", "expired", "committed", "retired"}]
      /\ slot \in [Workers -> Jobs \cup {None}]
      /\ job \in [Workers -> Jobs \cup {None}]
      /\ HoldsWhileBusy /\ OnlyMinted /\ JobInOnePlace /\ NoStrandedJob
  BY RangeSeq DEF PoolInv, PoolTypeOK
\* Steps that move no job.
<1>1. ASSUME UNCHANGED <<job, slot, channel, hand>>, minted \subseteq minted',
             main' = "claimed" <=> main = "claimed",
             \A w \in Workers : pc'[w] \in {"running", "publishing", "leaving"}
                               <=> pc[w] \in {"running", "publishing", "leaving"}
      PROVE  Goal
  BY <1>0, <1>1 DEF HoldsWhileBusy, OnlyMinted, JobInOnePlace, Left, Held, Sent, Claimed
<1>2. ASSUME NEW w \in Workers, FinishJob(w) PROVE Goal
  <2>1. UNCHANGED <<job, slot, channel, hand, minted, main>>
    BY <1>2, Zenon DEF FinishJob
  <2>2. /\ pc[w] = "running"
        /\ pc' = [pc EXCEPT ![w] = "publishing"] \/ pc' = [pc EXCEPT ![w] = "leaving"]
    BY <1>2, FinishCases, Zenon
  <2> QED BY <1>0, <1>1, <2>1, <2>2
<1>3. ASSUME NEW w \in Workers, WaitEnds(w) \/ RetireOrWait(w) \/ CommittedEnds(w) PROVE Goal
  <2>1. /\ UNCHANGED <<job, slot, channel, hand, minted, main>>
        /\ pc[w] \in {"waiting", "expired", "committed"}
        /\ \E p \in {"expired", "committed", "retired"} : pc' = [pc EXCEPT ![w] = p]
    BY <1>3 DEF WaitEnds, RetireOrWait, CommittedEnds
  <2> QED BY <1>0, <1>1, <2>1
\* The completion goes from its worker to the channel.
<1>4. ASSUME NEW w \in Workers, Publish(w) PROVE Goal
  <2>1. /\ pc[w] \in {"publishing", "leaving"}
        /\ \E p \in {"waiting", "retired"} : pc' = [pc EXCEPT ![w] = p]
        /\ job' = [job EXCEPT ![w] = None]
        /\ channel' = Append(channel, job[w]) \/ channel' = channel
        /\ UNCHANGED <<slot, hand, minted, main>>
    BY <1>4 DEF Publish
  <2>2. job[w] \in Jobs /\ job[w] \in minted /\ job[w] \notin C
    BY <1>0, <2>1 DEF HoldsWhileBusy, OnlyMinted, JobInOnePlace, Held, Sent
  <2>3. HoldsWhileBusy'
    BY <1>0, <2>1 DEF HoldsWhileBusy
  <2>4. Range(channel') \subseteq C \cup {job[w]} /\ Distinct(channel')
    <3>1. Distinct(channel)
      BY <1>0 DEF JobInOnePlace
    <3>2. /\ Range(Append(channel, job[w])) = C \cup {job[w]}
          /\ Distinct(Append(channel, job[w]))
      BY <1>0, <2>2, <3>1, AppendRange
    <3> QED BY <2>1, <3>1, <3>2
  <2> HIDE DEF C
  <2>5. OnlyMinted'
    BY <1>0, <2>1, <2>2, <2>4 DEF OnlyMinted, C
  <2>6. JobInOnePlace'
    BY <1>0, <2>1, <2>2, <2>4 DEF JobInOnePlace, Left, Held, Sent, Claimed, C
  <2> QED BY <2>3, <2>5, <2>6
\* The job goes from the slot to the worker that owns it.
<1>5. ASSUME NEW w \in Workers, TakeJob(w) PROVE Goal
  <2>1. /\ pc[w] \in {"waiting", "committed"} /\ slot[w] # None
        /\ job' = [job EXCEPT ![w] = slot[w]]
        /\ slot' = [slot EXCEPT ![w] = None]
        /\ pc' = [pc EXCEPT ![w] = "running"]
        /\ UNCHANGED <<channel, hand, minted, main>>
    BY <1>5, Zenon DEF TakeJob, EmptySlot
  <2>2. HoldsWhileBusy' /\ OnlyMinted'
    BY <1>0, <2>1 DEF HoldsWhileBusy, OnlyMinted
  <2>3. JobInOnePlace'
    BY <1>0, <2>1 DEF JobInOnePlace, Left, Held, Sent, Claimed
  <2> QED BY <2>2, <2>3
\* A new job is in nobody's hands.
<1>6. ASSUME NEW j \in Jobs \ minted
      PROVE  /\ j \notin C
             /\ \A w \in Workers : slot[w] # j /\ job[w] # j
  BY <1>0, <1>6 DEF OnlyMinted
<1>7. ASSUME NEW j \in Jobs, ClaimParked(j) PROVE Goal
  <2>1. /\ j \notin minted /\ minted' = minted \cup {j}
        /\ main = "idle" /\ main' = "claimed"
        /\ hand' = [worker |-> Last(parked), job |-> j]
        /\ UNCHANGED <<pc, job, slot, channel>>
    BY <1>7 DEF ClaimParked, Mint
  <2>2. hand'.job = j
    BY <2>1
  <2> HIDE DEF C
  <2>3. HoldsWhileBusy' /\ OnlyMinted'
    BY <1>0, <2>1, <2>2 DEF HoldsWhileBusy, OnlyMinted
  <2>4. JobInOnePlace'
    BY <1>0, <1>6, <2>1, <2>2 DEF JobInOnePlace, Left, Held, Sent, Claimed, C
  <2> QED BY <2>3, <2>4
<1>8. ASSUME NEW j \in Jobs, NEW w \in Workers, StartWorker(j, w) PROVE Goal
  <2>1. /\ j \notin minted /\ minted' = minted \cup {j}
        /\ pc[w] = "unborn" /\ pc' = [pc EXCEPT ![w] = "running"]
        /\ job' = [job EXCEPT ![w] = j]
        /\ main = "idle"
        /\ UNCHANGED <<slot, channel, main, hand>>
    BY <1>8 DEF StartWorker, Mint
  <2> HIDE DEF C
  <2>2. HoldsWhileBusy' /\ OnlyMinted'
    BY <1>0, <2>1 DEF HoldsWhileBusy, OnlyMinted
  <2>3. JobInOnePlace'
    BY <1>0, <1>6, <2>1 DEF JobInOnePlace, Left, Held, Sent, Claimed, C
  <2> QED BY <2>2, <2>3
\* The job goes from the main thread's hands to the slot.
<1>9. CASE Fill
  <2>1. /\ main = "claimed" /\ main' = "idle"
        /\ slot' = [slot EXCEPT ![hand.worker] = hand.job]
        /\ UNCHANGED <<pc, job, channel, minted>>
    BY <1>9, Zenon DEF Fill
  <2>2. hand.worker \in Workers /\ hand.job \in minted
    BY <1>0, <2>1 DEF NoStrandedJob, OnlyMinted
  <2>3. HoldsWhileBusy' /\ OnlyMinted'
    BY <1>0, <2>1, <2>2 DEF HoldsWhileBusy, OnlyMinted
  <2>4. JobInOnePlace'
    BY <1>0, <2>1, <2>2 DEF JobInOnePlace, Left, Held, Sent, Claimed
  <2> QED BY <2>3, <2>4
\* Completions leave the channel.
<1>10. ASSUME UNCHANGED <<pc, job, slot, hand, minted>>, channel' \in Seq(Jobs),
              main' = "claimed" <=> main = "claimed",
              Range(channel') \subseteq C, Distinct(channel')
       PROVE  Goal
  BY <1>0, <1>10 DEF HoldsWhileBusy, OnlyMinted, JobInOnePlace, Left, Held, Sent, Claimed
<1>11. ASSUME NEW j \in Jobs, RefuseThread(j) \/ Cancel(j) \/ AskerEnds(j) PROVE Goal
  BY <1>1, <1>11 DEF RefuseThread, Cancel, AskerEnds, Mint, crewVars
<1>12. CASE Poll \/ WaitBlocks \/ Receive \/ ReceiveTimesOut
  <2>1. /\ UNCHANGED <<pc, job, slot, hand, minted>> /\ channel' = <<>>
        /\ main' = "claimed" <=> main = "claimed"
    BY <1>12 DEF Poll, WaitBlocks, Receive, ReceiveTimesOut, DrainReady, crewVars
  <2>2. Range(channel') = {} /\ Distinct(channel') /\ channel' \in Seq(Jobs)
    BY <2>1 DEF Range, Distinct
  <2> QED BY <1>10, <2>1, <2>2
<1>13. CASE QuiesceReceive
  <2>1. CASE channel # <<>>
    <3>1. /\ UNCHANGED <<pc, job, slot, hand, minted, main>>
          /\ channel' = Tail(channel)
      BY <1>13, <2>1, QuiesceReceives DEF crewVars
    <3>2. Range(channel') \subseteq C /\ Distinct(channel') /\ channel' \in Seq(Jobs)
      BY <1>0, <2>1, <3>1, TailRange DEF JobInOnePlace
    <3> QED BY <1>10, <3>1, <3>2
  <2>2. CASE channel = <<>>
    <3>1. UNCHANGED <<pc, job, slot, channel, hand, minted, main>>
      BY <1>13, <2>2, Zenon DEF QuiesceReceive, crewVars
    <3> QED BY <1>1, <3>1
  <2> QED BY <2>1, <2>2
<1>14. CASE Quiesce \/ QuiesceEnds \/ Drop
  <2>1. /\ UNCHANGED <<pc, job, slot, channel, hand, minted>>
        /\ main \in {"idle", "quiesce", "rest"} /\ main' \in {"quiesce", "rest", "dropped"}
    BY <1>14 DEF Quiesce, QuiesceEnds, Drop, crewVars
  <2> QED BY <1>1, <2>1
<1>15. CASE UNCHANGED vars
  BY <1>1, <1>15 DEF vars
<1> QED
  BY <1>2, <1>3, <1>4, <1>5, <1>7, <1>8, <1>9, <1>11, <1>12, <1>13, <1>14, <1>15
  DEF Next, CrewStep

-----------------------------------------------------------------------------
\* The invariant holds in every state of every backend.
THEOREM PoolInvariant == Spec => []PoolInv
<1>1. PoolInv /\ [Next]_vars => PoolInv'
  BY PoolTypeStep, HandoffStep, PlaceStep DEF PoolInv
<1> QED BY PoolInitInv, <1>1, PTL DEF Spec

\* A worker that somebody claimed or left a job for is there to take it, for
\* any number of workers and submissions.
THEOREM ClaimedWorkerStays == Spec => []NoStrandedJob
<1>1. PoolInv => NoStrandedJob
  BY DEF PoolInv
<1> QED BY PoolInvariant, <1>1, PTL

\* Every operation runs once and its completion is sent once.
THEOREM JobsRunOnce == Spec => []JobInOnePlace
<1>1. PoolInv => JobInOnePlace
  BY DEF PoolInv
<1> QED BY PoolInvariant, <1>1, PTL

-----------------------------------------------------------------------------
(* The pending table and the stop pipes.                                   *)

\* What the table says of an operation, it says while the operation is in it;
\* and an operation it says nobody reads has been told to stop, if it can be.
TableInv ==
    /\ entries \subseteq minted
    /\ cancelled \subseteq entries /\ stopAsked \subseteq entries /\ gone \subseteq entries
    /\ main = "claimed" => hand.job \in minted \ entries
    /\ PipesOwned
    /\ \A j \in entries \cap stops : j \in cancelled \cup stopAsked => j \in told
    /\ BlocksForReaders

\* Every step keeps the table and the pipes in agreement.
LEMMA TableStep == TableInv /\ [Next]_vars => TableInv'
<1> SUFFICES ASSUME TableInv, [Next]_vars PROVE TableInv'
  OBVIOUS
<1> USE DEF TableInv, PipesOwned, BlocksForReaders
<1>1. ASSUME UNCHANGED <<minted, gone, main, hand, tableVars>> PROVE TableInv'
  BY <1>1 DEF tableVars
<1>2. ASSUME NEW w \in Workers, FinishJob(w) \/ CrewStep(w) PROVE TableInv'
  <2>1. UNCHANGED <<minted, gone, main, hand, tableVars>>
    BY <1>2, Zenon DEF FinishJob, CrewStep, Publish, TakeJob, WaitEnds, RetireOrWait,
       CommittedEnds
  <2> QED BY <1>1, <2>1
<1>3. ASSUME NEW j \in Jobs, ClaimParked(j) PROVE TableInv'
  <2>1. hand'.job = j
    BY <1>3 DEF ClaimParked
  <2> QED BY <1>3, <2>1 DEF ClaimParked, Mint, OpenPipe
<1>4. CASE Fill
  BY <1>4 DEF Fill, Accept
<1>5. ASSUME NEW j \in Jobs, NEW w \in Workers, StartWorker(j, w) PROVE TableInv'
  BY <1>5 DEF StartWorker, Mint, OpenPipe, Accept
<1>6. ASSUME NEW j \in Jobs, RefuseThread(j) PROVE TableInv'
  BY <1>6 DEF RefuseThread, Mint, ForgetStop
<1>7. ASSUME NEW j \in Jobs, Cancel(j) \/ AskerEnds(j) PROVE TableInv'
  BY <1>7 DEF Cancel, AskerEnds, tableVars
<1>8. CASE Poll \/ WaitBlocks \/ Receive \/ ReceiveTimesOut
  <2>1. /\ DrainReady
        /\ main \in {"idle", "blocked"} /\ main' \in {"idle", "blocked"}
    BY <1>8 DEF Poll, WaitBlocks, Receive, ReceiveTimesOut
  <2> DEFINE T == Range(channel)
             A == OrphanedToStop(entries \ T)
  <2>2. /\ entries' = entries \ T /\ stops' = stops \ T /\ cancelled' = cancelled \ T
        /\ stopAsked' = (stopAsked \ T) \cup A /\ told' = (told \ T) \cup (A \cap stops)
        /\ gone' = gone \ T /\ UNCHANGED <<minted, hand>>
    BY <2>1 DEF DrainReady
  <2>3. A = {id \in (entries \ T) \cap gone : id \notin cancelled \cup stopAsked}
    BY DEF OrphanedToStop
  <2> HIDE DEF T, A
  <2> QED BY <2>1, <2>2, <2>3
<1>9. CASE Quiesce
  BY <1>9 DEF Quiesce
<1>10. CASE QuiesceReceive
  <2>1. CASE channel # <<>>
    BY <1>10, <2>1, QuiesceReceives
  <2>2. CASE channel = <<>>
    <3>1. UNCHANGED <<minted, gone, main, hand, tableVars>>
      BY <1>10, <2>2, Zenon DEF QuiesceReceive
    <3> QED BY <1>1, <3>1
  <2> QED BY <2>1, <2>2
<1>11. CASE QuiesceEnds \/ Drop
  BY <1>11 DEF QuiesceEnds, Drop, tableVars
<1>12. CASE UNCHANGED vars
  BY <1>1, <1>12 DEF vars, tableVars
<1> QED
  BY <1>2, <1>3, <1>4, <1>5, <1>6, <1>7, <1>8, <1>9, <1>10, <1>11, <1>12 DEF Next

\* The pipes and the table agree in every state of every backend.
LEMMA TableInvariant == Spec => []TableInv
<1>1. Init => TableInv
  BY DEF Init, TableInv, PipesOwned, BlocksForReaders
<1> QED BY <1>1, TableStep, PTL DEF Spec

\* No stop pipe outlives its operation.
THEOREM NoPipeLeaks == Spec => []PipesOwned
<1>1. TableInv => PipesOwned
  BY DEF TableInv
<1> QED BY TableInvariant, <1>1, PTL

\* A wait never blocks for an operation nobody reads without having asked it
\* to stop.
THEOREM WaitsAskFirst == Spec => []BlocksForReaders
<1>1. TableInv => BlocksForReaders
  BY DEF TableInv
<1> QED BY TableInvariant, <1>1, PTL

-----------------------------------------------------------------------------
(* The hub's count, and what a teardown leaves behind.                     *)

\* Whatever is on its way between a submission and its receipt has an entry.
OutInTable ==
    main # "dropped" =>
        /\ \A w \in Workers : job[w] \in entries \cup {None} /\ slot[w] \in entries \cup {None}
        /\ Range(channel) \subseteq entries

\* The count is the number of entries, which are finitely many.
Counted == main # "dropped" => IsFiniteSet(entries) /\ inFlight = Cardinality(entries)

CountInv == PoolInv /\ TableInv /\ OutInTable /\ Counted

\* Every operation in flight that can be stopped has its pipe still.
PipesKept ==
    main # "dropped" =>
        /\ entries \cap Piped \subseteq stops
        /\ main = "claimed" => {hand.job} \cap Piped \subseteq stops

\* A teardown waits for every operation that can be stopped; each receive that
\* does not time out takes one entry, and it ends when nothing awaited is left.
TeardownCounts ==
    /\ main \in {"quiesce", "rest"} => entries \cap Piped \subseteq awaited
    /\ main \in {"idle", "claimed", "blocked"} => waits = 0
    /\ main = "quiesce" /\ ~lapsed => waits + Cardinality(entries) <= MaxWaits
    /\ main = "rest" /\ ~lapsed => awaited \cap entries = {}

\* No more operations are in flight than a teardown has receives for.
ReceivesSuffice == main # "dropped" => inFlight <= MaxWaits

\* An array without repetitions has as many values as places.
LEMMA DistinctCount ==
    ASSUME NEW S, NEW q \in Seq(S), Distinct(q)
    PROVE  IsFiniteSet(Range(q)) /\ Cardinality(Range(q)) = Len(q)
<1>1. Len(q) \in Nat /\ DOMAIN q = 1..Len(q)
  OBVIOUS
<1>2. IsFiniteSet(1..Len(q)) /\ Cardinality(1..Len(q)) = Len(q)
  BY <1>1, FS_Interval
<1>3. q \in [1..Len(q) -> Range(q)]
  BY <1>1 DEF Range
<1>4. q \in Bijection(1..Len(q), Range(q))
  BY <1>1, <1>3 DEF Bijection, Injection, Surjection, IsInjective, Distinct, Range
<1>5. ExistsBijection(1..Len(q), Range(q))
  BY <1>4 DEF ExistsBijection
<1> QED BY <1>2, <1>5, FS_Bijection

\* A drain takes exactly the entries whose completions are in the channel.
LEMMA DrainCounts ==
    ASSUME CountInv, main # "dropped", DrainReady
    PROVE  /\ IsFiniteSet(entries') /\ inFlight' = Cardinality(entries')
           /\ \A w \in Workers : job[w] \in entries' \cup {None} /\ slot[w] \in entries' \cup {None}
           /\ channel' = <<>> /\ UNCHANGED <<job, slot>>
<1> USE DEF CountInv, PoolInv
<1>1. /\ channel \in Seq(Jobs) /\ Distinct(channel) /\ Range(channel) \subseteq entries
      /\ IsFiniteSet(entries) /\ inFlight = Cardinality(entries)
  BY DEF PoolTypeOK, JobInOnePlace, OutInTable, Counted
<1>2. IsFiniteSet(Range(channel)) /\ Cardinality(Range(channel)) = Len(channel)
  BY <1>1, DistinctCount
<1>3. /\ entries' = entries \ Range(channel) /\ CountDown(Len(channel))
      /\ channel' = <<>> /\ UNCHANGED <<job, slot>>
  BY DEF DrainReady, crewVars
<1>4. entries \cap Range(channel) = Range(channel)
  BY <1>1
<1>5. IsFiniteSet(entries') /\ Cardinality(entries') = Cardinality(entries) - Len(channel)
  <2>1. /\ IsFiniteSet(entries \ Range(channel))
        /\ Cardinality(entries \ Range(channel))
             = Cardinality(entries) - Cardinality(entries \cap Range(channel))
    BY <1>1, FS_Difference
  <2> QED BY <2>1, <1>2, <1>3, <1>4
<1>6. Cardinality(entries') \in Nat /\ Cardinality(entries) \in Nat /\ Len(channel) \in Nat
  BY <1>1, <1>5, FS_CardinalityType
<1>7. inFlight' = Cardinality(entries')
  BY <1>1, <1>3, <1>5, <1>6 DEF CountDown
<1>8. ASSUME NEW w \in Workers
      PROVE  job[w] \in entries' \cup {None} /\ slot[w] \in entries' \cup {None}
  <2>1. job[w] \in Range(channel) => job[w] = None
    BY DEF PoolTypeOK, JobInOnePlace, Held, Sent
  <2>2. slot[w] \in Range(channel) => slot[w] = None
    BY DEF PoolTypeOK, JobInOnePlace, Left, Sent
  <2> QED BY <1>3, <2>1, <2>2 DEF OutInTable
<1> QED BY <1>3, <1>5, <1>7, <1>8

\* One receive of a teardown takes one entry.
LEMMA QuiesceCounts ==
    ASSUME CountInv, QuiesceReceive, channel # <<>>
    PROVE  /\ IsFiniteSet(entries') /\ inFlight' = Cardinality(entries')
           /\ Cardinality(entries') = Cardinality(entries) - 1
           /\ \A w \in Workers : job[w] \in entries' \cup {None} /\ slot[w] \in entries' \cup {None}
           /\ Range(channel') \subseteq entries' /\ UNCHANGED <<job, slot, main>>
<1> USE DEF CountInv, PoolInv
<1>0. main = "quiesce"
  BY DEF QuiesceReceive
<1>1. /\ channel \in Seq(Jobs) /\ Distinct(channel) /\ Range(channel) \subseteq entries
      /\ IsFiniteSet(entries) /\ inFlight = Cardinality(entries)
  BY <1>0 DEF PoolTypeOK, JobInOnePlace, OutInTable, Counted
<1>2. /\ entries' = entries \ {Head(channel)} /\ CountDown(1)
      /\ channel' = Tail(channel) /\ UNCHANGED <<job, slot, main>>
  BY QuiesceReceives DEF crewVars
<1>3. Range(channel) = {Head(channel)} \cup Range(Tail(channel)) /\ Head(channel) \notin Range(Tail(channel))
  BY <1>1, TailRange
<1>4. IsFiniteSet(entries') /\ Cardinality(entries') = Cardinality(entries) - 1
  BY <1>1, <1>2, <1>3, FS_RemoveElement
<1>5. Cardinality(entries') \in Nat /\ Cardinality(entries) \in Nat
  BY <1>1, <1>4, FS_CardinalityType
<1>6. inFlight' = Cardinality(entries')
  BY <1>1, <1>2, <1>4, <1>5 DEF CountDown
<1>7. ASSUME NEW w \in Workers
      PROVE  job[w] \in entries' \cup {None} /\ slot[w] \in entries' \cup {None}
  <2>1. job[w] = Head(channel) => job[w] = None
    BY <1>3 DEF PoolTypeOK, JobInOnePlace, Held, Sent
  <2>2. slot[w] = Head(channel) => slot[w] = None
    BY <1>3 DEF PoolTypeOK, JobInOnePlace, Left, Sent
  <2> QED BY <1>0, <1>2, <2>1, <2>2 DEF OutInTable
<1>8. Range(channel') \subseteq entries'
  BY <1>1, <1>2, <1>3
<1> QED BY <1>2, <1>4, <1>6, <1>7, <1>8

\* Every step keeps the table and the count in agreement with what is out.
LEMMA CountStep ==
    ASSUME CountInv, [Next]_vars
    PROVE  OutInTable' /\ Counted'
<1> USE DEF CountInv, PoolInv
<1>1. ASSUME NEW w \in Workers, FinishJob(w) \/ WaitEnds(w) \/ RetireOrWait(w) \/ CommittedEnds(w)
      PROVE  OutInTable' /\ Counted'
  <2>1. UNCHANGED <<job, slot, main, channel, entries, inFlight>>
    BY <1>1, Zenon DEF FinishJob, WaitEnds, RetireOrWait, CommittedEnds, tableVars
  <2> QED BY <2>1 DEF OutInTable, Counted
<1>2. ASSUME NEW w \in Workers, Publish(w) PROVE OutInTable' /\ Counted'
  <2>1. UNCHANGED <<slot, main, entries, inFlight>> /\ job' = [job EXCEPT ![w] = None]
        /\ (main # "dropped" => channel' = Append(channel, job[w]))
    BY <1>2 DEF Publish, tableVars
  <2>2. job[w] # None /\ job[w] \in Jobs /\ channel \in Seq(Jobs)
    BY <1>2 DEF Publish, HoldsWhileBusy, PoolTypeOK
  <2>3. Range(Append(channel, job[w])) = Range(channel) \cup {job[w]}
    BY <2>2, AppendRange
  <2>4. Counted'
    BY <2>1 DEF Counted
  <2>5. ASSUME main # "dropped" PROVE Range(channel') \subseteq entries'
    <3>1. job[w] \in entries /\ Range(channel) \subseteq entries
      BY <2>2, <2>5 DEF OutInTable
    <3>2. Range(channel') = Range(channel) \cup {job[w]} /\ entries' = entries
      BY <2>1, <2>3, <2>5
    <3> QED BY <3>1, <3>2
  <2>6. ASSUME main # "dropped", NEW v \in Workers
        PROVE  job'[v] \in entries' \cup {None} /\ slot'[v] \in entries' \cup {None}
    BY <2>1, <2>6 DEF OutInTable, PoolTypeOK
  <2> QED BY <2>1, <2>4, <2>5, <2>6 DEF OutInTable
<1>3. ASSUME NEW w \in Workers, TakeJob(w) PROVE OutInTable' /\ Counted'
  <2>1. UNCHANGED <<main, channel, entries, inFlight>> /\ job' = [job EXCEPT ![w] = slot[w]]
        /\ slot' = [slot EXCEPT ![w] = None]
    BY <1>3 DEF TakeJob, EmptySlot, tableVars
  <2> QED BY <2>1 DEF OutInTable, Counted, PoolTypeOK
<1>4. ASSUME NEW j \in Jobs, ClaimParked(j) \/ RefuseThread(j) \/ Cancel(j) \/ AskerEnds(j)
      PROVE  OutInTable' /\ Counted'
  <2>1. UNCHANGED <<job, slot, channel, entries, inFlight>> /\ main # "dropped"
    BY <1>4 DEF ClaimParked, RefuseThread, Cancel, AskerEnds, Mint, crewVars, tableVars
  <2> QED BY <2>1 DEF OutInTable, Counted
<1>5. ASSUME NEW j \in Jobs, j \notin entries, Accept(j), main # "dropped"
      PROVE  Counted' /\ entries \subseteq entries' /\ j \in entries'
  <2>1. /\ IsFiniteSet(entries) /\ inFlight = Cardinality(entries)
        /\ inFlight' = inFlight + 1 /\ entries' = entries \cup {j}
    BY <1>5 DEF Accept, Counted
  <2>2. IsFiniteSet(entries') /\ Cardinality(entries') = Cardinality(entries) + 1
    BY <1>5, <2>1, FS_AddElement
  <2> QED BY <2>1, <2>2 DEF Counted
<1>6. CASE Fill
  <2>1. /\ main = "claimed" /\ hand.job \in Jobs /\ hand.job \notin entries /\ Accept(hand.job)
        /\ slot' = [slot EXCEPT ![hand.worker] = hand.job] /\ UNCHANGED <<job, channel>>
    BY <1>6 DEF Fill, TableInv, OnlyMinted, PoolTypeOK
  <2>2. Counted' /\ entries \subseteq entries' /\ hand.job \in entries'
    BY <1>5, <2>1
  <2> QED BY <2>1, <2>2 DEF OutInTable, PoolTypeOK
<1>7. ASSUME NEW j \in Jobs, NEW w \in Workers, StartWorker(j, w) PROVE OutInTable' /\ Counted'
  <2>1. /\ main = "idle" /\ j \notin entries /\ Accept(j)
        /\ job' = [job EXCEPT ![w] = j] /\ UNCHANGED <<slot, channel>>
    BY <1>7 DEF StartWorker, Mint, TableInv
  <2>2. Counted' /\ entries \subseteq entries' /\ j \in entries'
    BY <1>5, <2>1
  <2> QED BY <2>1, <2>2 DEF OutInTable, PoolTypeOK
<1>8. CASE Poll \/ WaitBlocks \/ Receive \/ ReceiveTimesOut
  <2>1. DrainReady /\ main # "dropped" /\ main' # "dropped"
    BY <1>8 DEF Poll, WaitBlocks, Receive, ReceiveTimesOut
  <2>2. Range(<<>>) = {}
    BY DEF Range
  <2> QED BY <2>1, <2>2, DrainCounts DEF OutInTable, Counted
<1>9. CASE Quiesce \/ QuiesceEnds
  <2>1. UNCHANGED <<job, slot, channel, entries, inFlight>> /\ main # "dropped"
    BY <1>9 DEF Quiesce, QuiesceEnds, crewVars, tableVars
  <2> QED BY <2>1 DEF OutInTable, Counted
<1>10. CASE QuiesceReceive
  <2>1. CASE channel # <<>>
    BY <1>10, <2>1, QuiesceCounts DEF OutInTable, Counted
  <2>2. CASE channel = <<>>
    <3>1. UNCHANGED <<job, slot, main, channel, entries, inFlight>>
      BY <1>10, <2>2, Zenon DEF QuiesceReceive, crewVars, tableVars
    <3> QED BY <3>1 DEF OutInTable, Counted
  <2> QED BY <2>1, <2>2
<1>11. CASE Drop
  BY <1>11 DEF Drop, OutInTable, Counted
<1>12. CASE UNCHANGED vars
  <2>1. UNCHANGED <<job, slot, main, channel, entries, inFlight>>
    BY <1>12, Zenon DEF vars
  <2> QED BY <2>1 DEF OutInTable, Counted
<1> QED
  BY <1>1, <1>2, <1>3, <1>4, <1>6, <1>7, <1>8, <1>9, <1>10, <1>11, <1>12 DEF Next, CrewStep

\* The count agrees with the table in every state of every backend.
LEMMA CountInvariant == Spec => []CountInv
<1>1. Init => OutInTable /\ Counted
  <2>1. Range(<<>>) = {}
    BY DEF Range
  <2> QED BY <2>1, FS_EmptySet DEF Init, OutInTable, Counted
<1>2. OutInTable /\ Counted /\ PoolInv /\ TableInv /\ [Next]_vars => OutInTable' /\ Counted'
  BY CountStep DEF CountInv
<1>3. PoolInv /\ TableInv /\ OutInTable /\ Counted => CountInv
  BY DEF CountInv
<1> QED BY <1>1, <1>2, <1>3, PoolInvariant, TableInvariant, PTL DEF Spec

\* The hub's count is the number of operations submitted and not reaped, for any
\* number of operations and workers: it never drifts, though it is counted up on
\* one path and down on three, and saturates at zero (hub.rs, note_submit and
\* drain_raw).
THEOREM CountIsExact == Spec => []InFlightExact
<1>1. CountInv => InFlightExact
  BY DEF CountInv, Counted, InFlightExact
<1> QED BY CountInvariant, <1>1, PTL

\* A stop pipe stays as long as its operation is in flight.
LEMMA PipesStep ==
    ASSUME CountInv, PipesKept, [Next]_vars
    PROVE  PipesKept'
<1> USE DEF CountInv, TableInv, PipesKept
<1>1. ASSUME NEW w \in Workers, FinishJob(w) \/ CrewStep(w) PROVE PipesKept'
  <2>1. UNCHANGED <<main, hand, entries, stops>>
    BY <1>1, Zenon DEF FinishJob, CrewStep, Publish, TakeJob, WaitEnds, RetireOrWait,
       CommittedEnds, tableVars
  <2> QED BY <2>1
<1>2. ASSUME NEW j \in Jobs, ClaimParked(j) PROVE PipesKept'
  BY <1>2 DEF ClaimParked, OpenPipe, Mint
<1>3. ASSUME NEW j \in Jobs, RefuseThread(j) PROVE PipesKept'
  BY <1>3 DEF RefuseThread, ForgetStop, Mint
<1>4. ASSUME NEW j \in Jobs, Cancel(j) \/ AskerEnds(j) PROVE PipesKept'
  BY <1>4 DEF Cancel, AskerEnds, tableVars
<1>5. ASSUME NEW j \in Jobs, NEW w \in Workers, StartWorker(j, w) PROVE PipesKept'
  BY <1>5 DEF StartWorker, OpenPipe, Accept, Mint
<1>6. CASE Fill
  BY <1>6 DEF Fill, Accept
<1>7. CASE Poll \/ WaitBlocks \/ Receive \/ ReceiveTimesOut
  <2>1. DrainReady /\ main # "dropped" /\ main' \in {"idle", "blocked"}
    BY <1>7 DEF Poll, WaitBlocks, Receive, ReceiveTimesOut
  <2>2. entries' = entries \ Range(channel) /\ stops' = stops \ Range(channel)
    BY <2>1 DEF DrainReady
  <2> QED BY <2>1, <2>2
<1>8. CASE Quiesce \/ QuiesceEnds
  <2>1. UNCHANGED <<entries, stops>> /\ main # "dropped" /\ main' \in {"quiesce", "rest"}
    BY <1>8 DEF Quiesce, QuiesceEnds, tableVars
  <2> QED BY <2>1
<1>9. CASE QuiesceReceive
  <2>1. main = "quiesce" /\ main' = "quiesce"
    BY <1>9 DEF QuiesceReceive
  <2>2. CASE channel # <<>>
    BY <1>9, <2>1, <2>2, QuiesceReceives
  <2>3. CASE channel = <<>>
    <3>1. UNCHANGED <<entries, stops>>
      BY <1>9, <2>3, Zenon DEF QuiesceReceive, tableVars
    <3> QED BY <2>1, <3>1
  <2> QED BY <2>2, <2>3
<1>10. CASE Drop
  BY <1>10 DEF Drop
<1>11. CASE UNCHANGED vars
  BY <1>11 DEF vars
<1> QED
  BY <1>1, <1>2, <1>3, <1>4, <1>5, <1>6, <1>7, <1>8, <1>9, <1>10, <1>11 DEF Next

\* A teardown makes progress towards its end with every receive.
LEMMA TeardownStep ==
    ASSUME CountInv, PipesKept, TeardownCounts, ReceivesSuffice, [Next]_vars
    PROVE  TeardownCounts'
<1> USE DEF TeardownCounts
<1>1. ASSUME NEW w \in Workers, FinishJob(w) \/ CrewStep(w) PROVE TeardownCounts'
  <2>1. UNCHANGED <<main, entries, awaited, waits, lapsed>>
    BY <1>1, Zenon DEF FinishJob, CrewStep, Publish, TakeJob, WaitEnds, RetireOrWait,
       CommittedEnds, tableVars, restVars
  <2> QED BY <2>1
<1>2. ASSUME main \in {"idle", "claimed", "blocked"}, main' \in {"idle", "claimed", "blocked"},
             waits' = waits
      PROVE  TeardownCounts'
  BY <1>2
<1>3. ASSUME NEW j \in Jobs, ClaimParked(j) \/ RefuseThread(j) \/ Cancel(j) \/ AskerEnds(j)
      PROVE  TeardownCounts'
  BY <1>2, <1>3 DEF ClaimParked, RefuseThread, Cancel, AskerEnds, Mint, restVars
<1>4. ASSUME NEW j \in Jobs, NEW w \in Workers, StartWorker(j, w) PROVE TeardownCounts'
  BY <1>2, <1>4 DEF StartWorker, Mint, restVars
<1>5. CASE Fill \/ Poll \/ WaitBlocks \/ Receive \/ ReceiveTimesOut
  BY <1>2, <1>5 DEF Fill, Poll, WaitBlocks, Receive, ReceiveTimesOut, DrainReady, restVars
<1>6. CASE Quiesce
  <2>1. /\ main = "idle" /\ entries' = entries /\ waits' = waits /\ awaited' = stops \cap entries
        /\ main' \in {"quiesce", "rest"} /\ (main' = "rest" => awaited' = {})
    BY <1>6 DEF Quiesce
  <2>2. entries \cap Piped \subseteq awaited'
    BY <2>1 DEF PipesKept
  <2>3. waits = 0 /\ Cardinality(entries) <= MaxWaits /\ Cardinality(entries) \in Nat
    BY <2>1, FS_CardinalityType DEF CountInv, Counted, ReceivesSuffice
  <2>4. waits' + Cardinality(entries') <= MaxWaits
    BY <2>1, <2>3
  <2> QED BY <2>1, <2>2, <2>4
<1>7. CASE QuiesceReceive
  <2>1. /\ main = "quiesce" /\ main' = "quiesce" /\ awaited' = awaited /\ waits' = waits + 1
        /\ waits \in Nat
    BY <1>7 DEF QuiesceReceive, CountInv, PoolInv, PoolTypeOK
  <2>2. CASE channel # <<>>
    <3>1. entries' = entries \ {Head(channel)} /\ lapsed' = lapsed
      BY <1>7, <2>2, QuiesceReceives
    <3>2. Cardinality(entries') = Cardinality(entries) - 1
      BY <1>7, <2>2, QuiesceCounts
    <3>3. Cardinality(entries) \in Nat
      BY <2>1, FS_CardinalityType DEF CountInv, Counted
    <3>4. ~lapsed' => waits' + Cardinality(entries') <= MaxWaits
      BY <2>1, <3>1, <3>2, <3>3, PoolAssumption
    <3> QED BY <2>1, <3>1, <3>4
  <2>3. CASE channel = <<>>
    <3>1. UNCHANGED entries /\ lapsed'
      BY <1>7, <2>3, Zenon DEF QuiesceReceive, tableVars
    <3> QED BY <2>1, <3>1
  <2> QED BY <2>2, <2>3
<1>8. CASE QuiesceEnds
  <2>1. /\ main = "quiesce" /\ main' = "rest" /\ UNCHANGED <<entries, awaited, waits, lapsed>>
        /\ (awaited \cap entries = {} \/ ~(waits < MaxWaits))
    BY <1>8 DEF QuiesceEnds, QuiesceLoops, tableVars, restVars
  <2>2. ASSUME ~lapsed, ~(waits < MaxWaits) PROVE entries = {}
    <3>1. IsFiniteSet(entries) /\ Cardinality(entries) \in Nat /\ waits \in Nat
      BY <2>1, FS_CardinalityType DEF CountInv, Counted, PoolInv, PoolTypeOK
    <3>2. Cardinality(entries) = 0
      BY <2>1, <2>2, <3>1, PoolAssumption
    <3> QED BY <3>1, <3>2, FS_EmptySet
  <2> QED BY <2>1, <2>2
<1>9. CASE Drop
  BY <1>9 DEF Drop
<1>10. CASE UNCHANGED vars
  BY <1>10 DEF vars
<1> QED
  BY <1>1, <1>3, <1>4, <1>5, <1>6, <1>7, <1>8, <1>9, <1>10 DEF Next

\* Once the backend is at rest, and no receive of its teardown timed out, no
\* worker runs an operation that addresses the heap, provided that never more
\* operations were in flight than a teardown has receives for: 64 in the code
\* (aio/drain.rs, quiesce_workers).
THEOREM TeardownIsQuiet == Spec /\ []ReceivesSuffice => []RestIsQuiet
<1>1. Init => PipesKept /\ TeardownCounts
  BY DEF Init, PipesKept, TeardownCounts
<1>2. CountInv /\ PipesKept /\ [Next]_vars => PipesKept'
  BY PipesStep
<1>3. CountInv /\ PipesKept /\ TeardownCounts /\ ReceivesSuffice /\ [Next]_vars => TeardownCounts'
  BY TeardownStep
<1>4. CountInv /\ PipesKept /\ TeardownCounts => RestIsQuiet
  <2> SUFFICES ASSUME CountInv, TeardownCounts, main = "rest", ~lapsed,
                      NEW w \in Workers, pc[w] = "running"
               PROVE  job[w] \notin Piped
    BY DEF RestIsQuiet
  <2>1. job[w] \in entries
    BY DEF CountInv, PoolInv, HoldsWhileBusy, OutInTable
  <2> QED BY <2>1 DEF TeardownCounts
<1> QED BY <1>1, <1>2, <1>3, <1>4, CountInvariant, PTL DEF Spec
=============================================================================
