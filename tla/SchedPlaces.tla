----------------------------- MODULE SchedPlaces ----------------------------
(***************************************************************************)
(* A fiber is in one place at a time, proved for every set of fibers, keys *)
(* and ids, for programs that keep the discipline: Careless = {}.          *)
(*                                                                         *)
(* SingleWait says where a fiber may not be together.  It is not inductive *)
(* alone, because which move a handler makes depends on what the fiber's   *)
(* status says and on what the tables say of each other; so the proof      *)
(* carries the status of a fiber in each place, the pairing of the tables, *)
(* the shape of the stack, and what the teardown's copies still know.      *)
(***************************************************************************)
EXTENDS SchedProofs

\* The programs do none of what the scheduler does not guard against.
Careful == Careless = {}

-----------------------------------------------------------------------------
(* The inductive invariant.                                                *)

\* The functions that :pump itself calls: nothing is in progress under them.
Base == {"completions", "abortIo", "abortParked", "unwinding"}

\* How a fiber ends that the program killed while it was queued or in an operation.
Over == {"error", "dead", "cancelled"}

\* What a frame holds: fibers the teardown will abort, submissions it copied,
\* and the candidates of a wake.
DoomedBy(fr) == IF fr.at = "abortParked" THEN fr.todo ELSE {}
CopiedBy(fr) == IF fr.at = "abortIo" THEN fr.copy ELSE {}
CandidatesOf(fr) == IF fr.at = "wake" THEN Range(fr.todo) ELSE {}

\* What the frames of a stack hold.
OwnersOf(s) == {Owner(fr) : fr \in Range(s)} \ {None}
Doomed(s) == UNION {DoomedBy(fr) : fr \in Range(s)}
Copied(s) == UNION {CopiedBy(fr) : fr \in Range(s)}
Candidates(s) == UNION {CandidatesOf(fr) : fr \in Range(s)}
Raised(s) == IF s # <<>> /\ Head(s).at = "raise" THEN {Head(s).fiber} ELSE {}

\* No fiber has two frames; a function of :pump is the outermost one; only the
\* innermost frame runs a fiber or raises in one.
Unique(s) ==
    \A i, j \in 1..Len(s) : Owner(s[i]) = Owner(s[j]) /\ Owner(s[i]) # None => i = j
BaseLast(s) == \A i \in 1..Len(s) : s[i].at \in Base => i = Len(s)
Deep(s) == \A fr \in Range(s) : fr.at \notin {"run", "raise"}

\* What a frame takes for granted of the fibers it names, and of the loop.
FrameSound(fr, status, lp) ==
    /\ fr.at = "resume" => status[fr.fiber] \in {"new", "paused"}
    /\ fr.at = "raise" /\ ~fr.protect => status[fr.fiber] \in {"new", "paused"}
    /\ fr.at = "run" => status[fr.fiber] = "alive"
    /\ fr.at = "wake" /\ fr.caller # None => status[fr.caller] = "paused"
    /\ fr.at \in {"joins", "selects"} => Terminated(status[fr.target])
    /\ fr.at \in {"abortIo", "abortParked", "unwinding"} => lp \notin {"drain", "wait", "after"}
    /\ fr.at = "completions" => lp \in {"drain", "wait", "after"}

StackSound(s, status, lp) ==
    /\ s \in Seq(Frame) /\ Unique(s) /\ BaseLast(s)
    /\ \A fr \in Range(s) : FrameSound(fr, status, lp)

Frames == StackSound(stack, st, loop) /\ (stack # <<>> => Deep(Tail(stack)))

\* A table t of arrays and a lookup r into it: r knows where everybody is, and
\* nobody is in an array twice.
Knows(r, t) == \A k \in DOMAIN t : \A w \in Range(t[k]) : w \in DOMAIN r /\ r[w] = k
AllDistinct(t) == \A k \in DOMAIN t : Distinct(t[k])
Within(t, w) == \E k \in DOMAIN t : w \in Range(t[k])

\* The fibers in some park queue.
InPark == {f \in Fibers : Within(parkQueues, f)}

\* No fiber is in two places.  (A fiber that was never resumed may be aborted
\* while it is queued; complete-fiber takes it out of the queue.)
Apart ==
    \A f \in Fibers :
        /\ f \in Range(runnable) =>
             /\ f \notin DOMAIN fiberIo /\ f \notin InPark /\ f \notin DOMAIN fiberJoin
             /\ f \notin DOMAIN selectSets /\ f \notin OwnersOf(stack) /\ f \notin Doomed(stack)
             /\ f \in Raised(stack) => st[f] = "new"
        /\ f \in DOMAIN fiberIo =>
             /\ f \notin InPark /\ f \notin DOMAIN fiberJoin /\ f \notin DOMAIN selectSets
             /\ f \notin OwnersOf(stack) /\ f \notin Doomed(stack) /\ f \notin Raised(stack)
        /\ f \in InPark =>
             /\ f \notin DOMAIN fiberJoin /\ f \notin DOMAIN selectSets
             /\ f \notin OwnersOf(stack) /\ f \notin Doomed(stack) /\ f \notin Raised(stack)
        /\ f \in DOMAIN fiberJoin =>
             /\ f \notin DOMAIN selectSets
             /\ f \notin OwnersOf(stack) /\ f \notin Doomed(stack) /\ f \notin Raised(stack)
        /\ f \in DOMAIN selectSets =>
             f \notin OwnersOf(stack) /\ f \notin Doomed(stack) /\ f \notin Raised(stack)
        /\ f \in OwnersOf(stack) => f \notin Doomed(stack) /\ f \notin Raised(stack)
        /\ f \in Doomed(stack) => f \notin Raised(stack)

\* What the place of a fiber says of its status.
Statuses ==
    \A f \in Fibers :
        /\ f \in InPark \/ f \in DOMAIN fiberJoin \/ f \in DOMAIN selectSets
             \/ f \in Doomed(stack) => st[f] = "paused"
        /\ f \in Range(runnable) => st[f] \in {"new", "paused"} \cup Over
        /\ f \in DOMAIN fiberIo => st[f] \in {"paused"} \cup Over
        /\ f \in Raised(stack) => st[f] \in {"new", "paused"} \cup Over
        /\ st[f] = "alive" => f \in OwnersOf(stack)

\* What the tables hold, their reverse lookups name.
IoReaders == \A id \in DOMAIN pending :
    pending[id] \in DOMAIN fiberIo /\ fiberIo[pending[id]] = id
WaitReaders ==
    /\ Knows(fiberJoin, waiters) /\ AllDistinct(waiters)
    /\ Knows(fiberPark, parkQueues) /\ AllDistinct(parkQueues)

\* A candidate of a wake that fiber-park still names is in its queue, although
\* the teardown takes queues away and leaves fiber-park behind.
CandidatesFresh == Candidates(stack) \cap DOMAIN fiberPark \subseteq InPark

\* Once the teardown has begun, an operation is its fiber's own or still to be
\* aborted; and a submission of the copy is pending, or its fiber has ended.
Teardown ==
    /\ ~Serving => \A f \in DOMAIN fiberIo :
          st[f] = "paused" \/ <<fiberIo[f], f>> \in Copied(stack)
    /\ \A p \in Copied(stack) :
          /\ (p[1] \in DOMAIN pending /\ pending[p[1]] = p[2]) \/ st[p[2]] \in Over
          /\ p[2] \notin Range(runnable)
          /\ \A q \in Copied(stack) : p[2] = q[2] => p = q

PlaceInv ==
    /\ Frames /\ Apart /\ Statuses /\ Distinct(runnable)
    /\ IoReaders /\ WaitReaders /\ CandidatesFresh /\ Teardown

-----------------------------------------------------------------------------
(* The stack.                                                              *)

\* Nothing is in progress.
LEMMA EmptyStack ==
    /\ \A status, lp : StackSound(<<>>, status, lp)
    /\ Deep(<<>>) /\ OwnersOf(<<>>) = {} /\ Doomed(<<>>) = {} /\ Copied(<<>>) = {}
    /\ Candidates(<<>>) = {} /\ Raised(<<>>) = {}
<1>1. <<>> \in Seq(Frame) /\ Range(<<>>) = {} /\ Len(<<>>) = 0
  BY DEF Range
<1> QED BY <1>1 DEF StackSound, Unique, BaseLast, Deep, OwnersOf, Doomed, Copied, Candidates, Raised

\* The innermost function returns.
LEMMA PopStack ==
    ASSUME NEW s, NEW status, NEW lp, StackSound(s, status, lp), s # <<>>
    PROVE  /\ StackSound(Tail(s), status, lp)
           /\ Head(s) \in Frame /\ FrameSound(Head(s), status, lp)
           /\ OwnersOf(Tail(s)) = OwnersOf(s) \ {Owner(Head(s))}
           /\ Owner(Head(s)) # None => Owner(Head(s)) \in OwnersOf(s)
           /\ Doomed(s) = DoomedBy(Head(s)) \cup Doomed(Tail(s))
           /\ Copied(s) = CopiedBy(Head(s)) \cup Copied(Tail(s))
           /\ Candidates(s) = CandidatesOf(Head(s)) \cup Candidates(Tail(s))
           /\ Head(s).at \in Base => Tail(s) = <<>>
<1> DEFINE r == Tail(s)
<1>1. s \in Seq(Frame) /\ Unique(s) /\ BaseLast(s)
  BY DEF StackSound
<1>2. r \in Seq(Frame) /\ Head(s) \in Frame /\ Range(s) = {Head(s)} \cup Range(r)
  BY <1>1, TailRange
<1>3. /\ Len(s) \in Nat /\ Len(r) \in Nat /\ Len(s) = Len(r) + 1 /\ Head(s) = s[1]
      /\ \A i \in 1..Len(r) : r[i] = s[i + 1]
  BY <1>1
<1> HIDE DEF r
<1>4. Unique(r)
  <2> SUFFICES ASSUME NEW i \in 1..Len(r), NEW j \in 1..Len(r),
                      Owner(r[i]) = Owner(r[j]), Owner(r[i]) # None
               PROVE  i = j
    BY DEF Unique
  <2>1. i + 1 \in 1..Len(s) /\ j + 1 \in 1..Len(s)
    BY <1>3
  <2>2. i + 1 = j + 1
    BY <1>1, <1>3, <2>1 DEF Unique
  <2> QED BY <1>3, <2>2
<1>5. BaseLast(r)
  <2> SUFFICES ASSUME NEW i \in 1..Len(r), r[i].at \in Base PROVE i = Len(r)
    BY DEF BaseLast
  <2>1. i + 1 \in 1..Len(s)
    BY <1>3
  <2>2. i + 1 = Len(s)
    BY <1>1, <1>3, <2>1 DEF BaseLast
  <2> QED BY <1>3, <2>2
<1>6. ASSUME Owner(Head(s)) # None PROVE Owner(Head(s)) \notin OwnersOf(r)
  <2> SUFFICES ASSUME NEW fr \in Range(r), Owner(fr) = Owner(Head(s)) PROVE FALSE
    BY DEF OwnersOf
  <2>1. PICK i \in 1..Len(r) : r[i] = fr
    BY <1>2, RangeSeq
  <2>2. i + 1 \in 1..Len(s) /\ 1 \in 1..Len(s) /\ i + 1 # 1
    BY <1>3
  <2> QED BY <1>1, <1>3, <1>6, <2>1, <2>2 DEF Unique
<1>7. ASSUME Head(s).at \in Base PROVE r = <<>>
  <2>1. 1 \in 1..Len(s)
    BY <1>3
  <2>2. Len(s) = 1
    BY <1>1, <1>3, <1>7, <2>1 DEF BaseLast
  <2>3. Len(r) = 0
    BY <1>3, <2>2
  <2> QED BY <1>2, <2>3
<1>8. /\ OwnersOf(r) = OwnersOf(s) \ {Owner(Head(s))}
      /\ Owner(Head(s)) # None => Owner(Head(s)) \in OwnersOf(s)
  BY <1>2, <1>6 DEF OwnersOf
<1>9. /\ Doomed(s) = DoomedBy(Head(s)) \cup Doomed(r)
      /\ Copied(s) = CopiedBy(Head(s)) \cup Copied(r)
      /\ Candidates(s) = CandidatesOf(Head(s)) \cup Candidates(r)
  BY <1>2 DEF Doomed, Copied, Candidates
<1>10. FrameSound(Head(s), status, lp) /\ \A fr \in Range(r) : FrameSound(fr, status, lp)
  BY <1>2 DEF StackSound
<1>11. StackSound(r, status, lp)
  BY <1>2, <1>4, <1>5, <1>10 DEF StackSound
<1> QED BY <1>2, <1>7, <1>8, <1>9, <1>10, <1>11 DEF r

\* A function is called.
LEMMA PushStack ==
    ASSUME NEW s, NEW status, NEW lp, StackSound(s, status, lp),
           NEW fr \in Frame, FrameSound(fr, status, lp), Owner(fr) \notin OwnersOf(s),
           fr.at \in Base => s = <<>>
    PROVE  /\ StackSound(<<fr>> \o s, status, lp)
           /\ <<fr>> \o s # <<>> /\ Head(<<fr>> \o s) = fr /\ Tail(<<fr>> \o s) = s
           /\ OwnersOf(<<fr>> \o s) = OwnersOf(s) \cup ({Owner(fr)} \ {None})
           /\ Doomed(<<fr>> \o s) = DoomedBy(fr) \cup Doomed(s)
           /\ Copied(<<fr>> \o s) = CopiedBy(fr) \cup Copied(s)
           /\ Candidates(<<fr>> \o s) = CandidatesOf(fr) \cup Candidates(s)
           /\ Raised(<<fr>> \o s) = (IF fr.at = "raise" THEN {fr.fiber} ELSE {})
           /\ Deep(s) /\ fr.at \notin {"run", "raise"} => Deep(<<fr>> \o s)
<1> DEFINE r == <<fr>> \o s
<1>1. s \in Seq(Frame) /\ Unique(s) /\ BaseLast(s)
  BY DEF StackSound
<1>2. r \in Seq(Frame) /\ Range(r) = {fr} \cup Range(s)
  BY <1>1, PushRange
<1>3. /\ r # <<>> /\ Head(r) = fr /\ Tail(r) = s /\ Len(r) = Len(s) + 1 /\ r[1] = fr
      /\ \A i \in 1..Len(s) : r[i + 1] = s[i]
  BY <1>1, PushShape
<1> HIDE DEF r
<1>4. Len(s) \in Nat
  BY <1>1
<1>5. ASSUME NEW i \in 1..Len(r), i # 1
      PROVE  i - 1 \in 1..Len(s) /\ r[i] = s[i - 1]
  <2>1. i - 1 \in 1..Len(s) /\ (i - 1) + 1 = i
    BY <1>3, <1>4, <1>5
  <2> QED BY <1>3, <2>1
<1>6. \A i \in 1..Len(s) : Owner(s[i]) # None => Owner(s[i]) \in OwnersOf(s)
  BY <1>1, RangeSeq DEF OwnersOf
<1>7. Unique(r)
  <2> SUFFICES ASSUME NEW i \in 1..Len(r), NEW j \in 1..Len(r),
                      Owner(r[i]) = Owner(r[j]), Owner(r[i]) # None
               PROVE  i = j
    BY DEF Unique
  <2>1. CASE i = 1 /\ j = 1
    BY <2>1
  <2>2. CASE i = 1 /\ j # 1
    BY <1>3, <1>5, <1>6, <2>2
  <2>3. CASE i # 1 /\ j = 1
    BY <1>3, <1>5, <1>6, <2>3
  <2>4. CASE i # 1 /\ j # 1
    <3>1. i - 1 = j - 1
      BY <1>1, <1>5, <2>4 DEF Unique
    <3> QED BY <1>3, <1>4, <3>1
  <2> QED BY <2>1, <2>2, <2>3, <2>4
<1>8. BaseLast(r)
  <2> SUFFICES ASSUME NEW i \in 1..Len(r), r[i].at \in Base PROVE i = Len(r)
    BY DEF BaseLast
  <2>1. CASE i = 1
    BY <1>3, <2>1
  <2>2. CASE i # 1
    <3>1. i - 1 = Len(s)
      BY <1>1, <1>5, <2>2 DEF BaseLast
    <3> QED BY <1>3, <1>4, <3>1
  <2> QED BY <2>1, <2>2
<1>9. /\ OwnersOf(r) = OwnersOf(s) \cup ({Owner(fr)} \ {None})
      /\ Doomed(r) = DoomedBy(fr) \cup Doomed(s)
      /\ Copied(r) = CopiedBy(fr) \cup Copied(s)
      /\ Candidates(r) = CandidatesOf(fr) \cup Candidates(s)
  BY <1>2 DEF OwnersOf, Doomed, Copied, Candidates
<1>10. Raised(r) = (IF fr.at = "raise" THEN {fr.fiber} ELSE {})
  BY <1>3 DEF Raised
<1>11. Deep(s) /\ fr.at \notin {"run", "raise"} => Deep(r)
  BY <1>2 DEF Deep
<1>12. StackSound(r, status, lp)
  BY <1>2, <1>7, <1>8 DEF StackSound
<1> QED BY <1>3, <1>9, <1>10, <1>11, <1>12 DEF r

\* A frame is sound as long as the fibers it names keep their status.
LEMMA StatusKept ==
    ASSUME NEW s, NEW status, NEW lp, StackSound(s, status, lp),
           \A fr \in Range(s) : fr.at # "raise",
           NEW new, \A f \in Fibers : \/ new[f] = status[f]
                                      \/ f \notin OwnersOf(s) /\ ~Terminated(status[f])
                                      \/ f \notin OwnersOf(s) /\ Terminated(new[f])
    PROVE  StackSound(s, new, lp)
<1>1. s \in Seq(Frame) /\ \A fr \in Range(s) : fr \in Frame
  BY RangeSeq DEF StackSound
<1>2. ASSUME NEW fr \in Range(s) PROVE FrameSound(fr, new, lp)
  <2>1. FrameSound(fr, status, lp) /\ fr \in Frame /\ fr.at # "raise"
    BY <1>1 DEF StackSound
  <2>2. Owner(fr) # None => Owner(fr) \in OwnersOf(s)
    BY DEF OwnersOf
  <2>3. /\ fr.at \in {"resume", "run"} => fr.fiber \in Fibers /\ fr.fiber \in OwnersOf(s)
        /\ fr.at = "wake" /\ fr.caller # None => fr.caller \in Fibers /\ fr.caller \in OwnersOf(s)
        /\ fr.at \in {"joins", "selects"} => fr.target \in Fibers
    BY <2>1, <2>2, FrameFields, SchedAssumption DEF Owner
  <2> QED BY <2>1, <2>3 DEF FrameSound
<1> QED BY <1>2 DEF StackSound

\* What the constructors put into a frame.
LEMMA FrameParts ==
    ASSUME NEW f \in Fibers
    PROVE  /\ Resume(f).at = "resume" /\ Resume(f).fiber = f /\ Owner(Resume(f)) = f
           /\ \A p : /\ Raise(f, p).at = "raise" /\ Raise(f, p).fiber = f
                     /\ Raise(f, p).protect = p /\ Owner(Raise(f, p)) = None
           /\ \A how : Run(f, how).at = "run" /\ Run(f, how).fiber = f /\ Owner(Run(f, how)) = f
           /\ Joins(f).at = "joins" /\ Joins(f).target = f /\ Owner(Joins(f)) = None
           /\ \A S : /\ Selects(f, S).at = "selects" /\ Selects(f, S).target = f
                     /\ Selects(f, S).todo = S /\ Owner(Selects(f, S)) = None
<1>1. Resume(f).at = "resume" /\ Resume(f).fiber = f
  BY DEF Resume
<1>2. \A p : Raise(f, p).at = "raise" /\ Raise(f, p).fiber = f /\ Raise(f, p).protect = p
  BY DEF Raise
<1>3. \A how : Run(f, how).at = "run" /\ Run(f, how).fiber = f
  BY DEF Run
<1>4. Joins(f).at = "joins" /\ Joins(f).target = f
  BY DEF Joins
<1>5. \A S : Selects(f, S).at = "selects" /\ Selects(f, S).target = f /\ Selects(f, S).todo = S
  BY DEF Selects
<1> QED BY <1>1, <1>2, <1>3, <1>4, <1>5 DEF Owner

\* The stack r is s with a frame on top that holds no fiber but own and raises in
\* no fiber but raised.
Extends(r, s, own, raised) ==
    /\ r # <<>> /\ Tail(r) = s
    /\ OwnersOf(r) = OwnersOf(s) \cup own /\ Raised(r) = raised
    /\ Doomed(r) = Doomed(s) /\ Copied(r) = Copied(s) /\ Candidates(r) = Candidates(s)

\* A function is called that has no list of its own.
LEMMA PushPlain ==
    ASSUME NEW s, NEW status, NEW lp, StackSound(s, status, lp),
           NEW fr \in Frame, FrameSound(fr, status, lp), Owner(fr) \notin OwnersOf(s),
           fr.at \in {"resume", "raise", "run", "joins", "selects"}
    PROVE  /\ StackSound(<<fr>> \o s, status, lp)
           /\ Extends(<<fr>> \o s, s, {Owner(fr)} \ {None},
                      IF fr.at = "raise" THEN {fr.fiber} ELSE {})
           /\ Deep(s) /\ fr.at \notin {"run", "raise"} => Deep(<<fr>> \o s)
<1>1. fr.at \notin Base /\ DoomedBy(fr) = {} /\ CopiedBy(fr) = {} /\ CandidatesOf(fr) = {}
  BY DEF Base, DoomedBy, CopiedBy, CandidatesOf
<1>2. /\ StackSound(<<fr>> \o s, status, lp)
      /\ <<fr>> \o s # <<>> /\ Head(<<fr>> \o s) = fr /\ Tail(<<fr>> \o s) = s
      /\ OwnersOf(<<fr>> \o s) = OwnersOf(s) \cup ({Owner(fr)} \ {None})
      /\ Doomed(<<fr>> \o s) = DoomedBy(fr) \cup Doomed(s)
      /\ Copied(<<fr>> \o s) = CopiedBy(fr) \cup Copied(s)
      /\ Candidates(<<fr>> \o s) = CandidatesOf(fr) \cup Candidates(s)
      /\ Raised(<<fr>> \o s) = (IF fr.at = "raise" THEN {fr.fiber} ELSE {})
      /\ Deep(s) /\ fr.at \notin {"run", "raise"} => Deep(<<fr>> \o s)
  BY <1>1, PushStack
<1> QED BY <1>1, <1>2 DEF Extends

\* f is resumed.
LEMMA PushResume ==
    ASSUME NEW s, NEW status, NEW lp, StackSound(s, status, lp), NEW f \in Fibers,
           f \notin OwnersOf(s), status[f] \in {"new", "paused"}
    PROVE  /\ StackSound(<<Resume(f)>> \o s, status, lp)
           /\ Extends(<<Resume(f)>> \o s, s, {f}, {})
           /\ Deep(s) => Deep(<<Resume(f)>> \o s)
<1>1. Resume(f) \in Frame /\ Resume(f).at = "resume" /\ Resume(f).fiber = f /\ Owner(Resume(f)) = f
  BY NewFrames, FrameParts
<1>2. FrameSound(Resume(f), status, lp)
  BY <1>1 DEF FrameSound
<1>3. f # None
  BY SchedAssumption
<1>4. /\ StackSound(<<Resume(f)>> \o s, status, lp)
      /\ Extends(<<Resume(f)>> \o s, s, {Owner(Resume(f))} \ {None},
                 IF Resume(f).at = "raise" THEN {Resume(f).fiber} ELSE {})
      /\ Deep(s) => Deep(<<Resume(f)>> \o s)
  BY <1>1, <1>2, PushPlain
<1>5. {Owner(Resume(f))} \ {None} = {f} /\ (IF Resume(f).at = "raise" THEN {Resume(f).fiber} ELSE {}) = {}
  BY <1>1, <1>3
<1> QED BY <1>4, <1>5

\* An error is raised in f.
LEMMA PushRaise ==
    ASSUME NEW s, NEW status, NEW lp, StackSound(s, status, lp), NEW f \in Fibers,
           NEW p \in BOOLEAN, p \/ status[f] \in {"new", "paused"}
    PROVE  /\ StackSound(<<Raise(f, p)>> \o s, status, lp)
           /\ Extends(<<Raise(f, p)>> \o s, s, {}, {f})
<1>1. /\ Raise(f, p) \in Frame /\ Raise(f, p).at = "raise" /\ Raise(f, p).fiber = f
      /\ Raise(f, p).protect = p /\ Owner(Raise(f, p)) = None
  BY NewFrames, FrameParts
<1>2. FrameSound(Raise(f, p), status, lp)
  BY <1>1 DEF FrameSound
<1>3. None \notin OwnersOf(s)
  BY DEF OwnersOf
<1>4. /\ StackSound(<<Raise(f, p)>> \o s, status, lp)
      /\ Extends(<<Raise(f, p)>> \o s, s, {Owner(Raise(f, p))} \ {None},
                 IF Raise(f, p).at = "raise" THEN {Raise(f, p).fiber} ELSE {})
  BY <1>1, <1>2, <1>3, PushPlain
<1>5. /\ {Owner(Raise(f, p))} \ {None} = {}
      /\ (IF Raise(f, p).at = "raise" THEN {Raise(f, p).fiber} ELSE {}) = {f}
  BY <1>1
<1> QED BY <1>4, <1>5

\* f runs.
LEMMA PushRun ==
    ASSUME NEW s, NEW status, NEW lp, StackSound(s, status, lp), NEW f \in Fibers,
           NEW how \in {"resume", "abort"}, f \notin OwnersOf(s), status[f] = "alive"
    PROVE  /\ StackSound(<<Run(f, how)>> \o s, status, lp)
           /\ Extends(<<Run(f, how)>> \o s, s, {f}, {})
<1>1. /\ Run(f, how) \in Frame /\ Run(f, how).at = "run" /\ Run(f, how).fiber = f
      /\ Owner(Run(f, how)) = f
  BY NewFrames, FrameParts
<1>2. FrameSound(Run(f, how), status, lp)
  BY <1>1 DEF FrameSound
<1>3. f # None
  BY SchedAssumption
<1>4. /\ StackSound(<<Run(f, how)>> \o s, status, lp)
      /\ Extends(<<Run(f, how)>> \o s, s, {Owner(Run(f, how))} \ {None},
                 IF Run(f, how).at = "raise" THEN {Run(f, how).fiber} ELSE {})
  BY <1>1, <1>2, PushPlain
<1>5. /\ {Owner(Run(f, how))} \ {None} = {f}
      /\ (IF Run(f, how).at = "raise" THEN {Run(f, how).fiber} ELSE {}) = {}
  BY <1>1, <1>3
<1> QED BY <1>4, <1>5

\* The waiters of f are answered.
LEMMA PushJoins ==
    ASSUME NEW s, NEW status, NEW lp, StackSound(s, status, lp), NEW f \in Fibers,
           Terminated(status[f])
    PROVE  /\ StackSound(<<Joins(f)>> \o s, status, lp)
           /\ Extends(<<Joins(f)>> \o s, s, {}, {})
           /\ Deep(s) => Deep(<<Joins(f)>> \o s)
<1>1. Joins(f) \in Frame /\ Joins(f).at = "joins" /\ Joins(f).target = f /\ Owner(Joins(f)) = None
  BY NewFrames, FrameParts
<1>2. FrameSound(Joins(f), status, lp)
  BY <1>1 DEF FrameSound
<1>3. None \notin OwnersOf(s)
  BY DEF OwnersOf
<1>4. /\ StackSound(<<Joins(f)>> \o s, status, lp)
      /\ Extends(<<Joins(f)>> \o s, s, {Owner(Joins(f))} \ {None},
                 IF Joins(f).at = "raise" THEN {Joins(f).fiber} ELSE {})
      /\ Deep(s) => Deep(<<Joins(f)>> \o s)
  BY <1>1, <1>2, <1>3, PushPlain
<1>5. /\ {Owner(Joins(f))} \ {None} = {}
      /\ (IF Joins(f).at = "raise" THEN {Joins(f).fiber} ELSE {}) = {}
  BY <1>1
<1> QED BY <1>4, <1>5

\* The fibers that select over f are answered.
LEMMA PushSelects ==
    ASSUME NEW s, NEW status, NEW lp, StackSound(s, status, lp), NEW f \in Fibers,
           NEW S \in SUBSET Fibers, Terminated(status[f])
    PROVE  /\ StackSound(<<Selects(f, S)>> \o s, status, lp)
           /\ Extends(<<Selects(f, S)>> \o s, s, {}, {})
           /\ Deep(s) => Deep(<<Selects(f, S)>> \o s)
<1>1. /\ Selects(f, S) \in Frame /\ Selects(f, S).at = "selects" /\ Selects(f, S).target = f
      /\ Owner(Selects(f, S)) = None
  BY NewFrames, FrameParts
<1>2. FrameSound(Selects(f, S), status, lp)
  BY <1>1 DEF FrameSound
<1>3. None \notin OwnersOf(s)
  BY DEF OwnersOf
<1>4. /\ StackSound(<<Selects(f, S)>> \o s, status, lp)
      /\ Extends(<<Selects(f, S)>> \o s, s, {Owner(Selects(f, S))} \ {None},
                 IF Selects(f, S).at = "raise" THEN {Selects(f, S).fiber} ELSE {})
      /\ Deep(s) => Deep(<<Selects(f, S)>> \o s)
  BY <1>1, <1>2, <1>3, PushPlain
<1>5. /\ {Owner(Selects(f, S))} \ {None} = {}
      /\ (IF Selects(f, S).at = "raise" THEN {Selects(f, S).fiber} ELSE {}) = {}
  BY <1>1
<1> QED BY <1>4, <1>5

-----------------------------------------------------------------------------
(* What the shared helpers take away.                                      *)

\* f waits on no operation any more, and every other fiber as before.
IoWithout(f) ==
    /\ DOMAIN fiberIo' = DOMAIN fiberIo \ {f}
    /\ \A g \in DOMAIN fiberIo' : fiberIo'[g] = fiberIo[g]
    /\ \A id \in DOMAIN pending' :
         id \in DOMAIN pending /\ pending'[id] = pending[id] /\ pending[id] # f
    /\ \A id \in DOMAIN pending : pending[id] # f => id \in DOMAIN pending'

\* f is in no park queue, waiter list or select set any more.
WaitsWithout(f) ==
    /\ InPark' = InPark \ {f}
    /\ DOMAIN fiberPark' = DOMAIN fiberPark \ {f}
    /\ DOMAIN fiberJoin' = DOMAIN fiberJoin \ {f}
    /\ DOMAIN selectSets' = DOMAIN selectSets \ {f}

\* Both halves of the pairing go, and no other.
LEMMA PairGone ==
    ASSUME IoPart, IoReaders, NEW id, NEW f, DropPair(id, f),
           id \in DOMAIN pending /\ pending[id] = f
    PROVE  IoReaders' /\ IoWithout(f)
<1>1. /\ DOMAIN pending' = DOMAIN pending \ {id}
      /\ \A x \in DOMAIN pending \ {id} : pending'[x] = pending[x]
  BY DEF DropPair, Del
<1>2. /\ DOMAIN fiberIo' = DOMAIN fiberIo \ {f}
      /\ \A x \in DOMAIN fiberIo \ {f} : fiberIo'[x] = fiberIo[x]
  BY DEF DropPair, Del
<1>3. f \in DOMAIN fiberIo /\ fiberIo[f] = id
  BY DEF IoReaders
<1>4. \A x \in DOMAIN pending \ {id} : pending[x] # f
  BY <1>3 DEF IoReaders
<1> QED BY <1>1, <1>2, <1>3, <1>4 DEF IoReaders, IoWithout

\* The same where the operation is given back, if there is one.
LEMMA IoGone ==
    ASSUME IoPart, IoReaders, NEW f, CancelIo(f)
    PROVE  IoReaders' /\ IoWithout(f)
<1>1. CASE f \in DOMAIN fiberIo
  <2>1. DropPair(fiberIo[f], f) /\ fiberIo[f] \in DOMAIN pending /\ pending[fiberIo[f]] = f
    BY <1>1 DEF CancelIo, DropPair, IoPart, IoLookup
  <2> QED BY <2>1, PairGone
<1>2. CASE f \notin DOMAIN fiberIo
  <2>1. UNCHANGED <<pending, fiberIo>>
    BY <1>2 DEF CancelIo, ioVars
  <2> QED BY <1>2, <2>1 DEF IoReaders, IoWithout
<1> QED BY <1>1, <1>2

\* Leaving takes f out of the arrays, and nobody else.
LEMMA LeaveReaders ==
    ASSUME NEW K, NEW t, IsTable(t, K, Seq(Fibers)), NEW r, IsTable(r, Fibers, K), NEW f,
           Knows(r, t), AllDistinct(t)
    PROVE  LET t2 == IF f \in DOMAIN r THEN LeaveQueue(t, r[f], f) ELSE t
               r2 == Del(r, f)
           IN  /\ DOMAIN r2 = DOMAIN r \ {f}
               /\ Knows(r2, t2) /\ AllDistinct(t2)
               /\ \A w : Within(t2, w) <=> w # f /\ Within(t, w)
<1> DEFINE t2 == IF f \in DOMAIN r THEN LeaveQueue(t, r[f], f) ELSE t
           r2 == Del(r, f)
<1> SUFFICES /\ DOMAIN r2 = DOMAIN r \ {f}
             /\ Knows(r2, t2) /\ AllDistinct(t2)
             /\ \A w : Within(t2, w) <=> w # f /\ Within(t, w)
  OBVIOUS
<1> USE DEF Knows, AllDistinct, Within
<1>1. DOMAIN r2 = DOMAIN r \ {f} /\ \A w \in DOMAIN r \ {f} : r2[w] = r[w]
  BY DEF Del
<1>2. CASE f \notin DOMAIN r
  <2>1. t2 = t /\ \A k \in DOMAIN t : f \notin Range(t[k])
    BY <1>2
  <2> QED BY <1>1, <1>2, <2>1
<1>3. CASE f \in DOMAIN r
  <2>1. r[f] \in K /\ t2 = LeaveQueue(t, r[f], f)
    BY <1>3 DEF IsTable
  <2>2. \A x, y : x \in DOMAIN t /\ y \in Range(t[x]) /\ y # f => x \in DOMAIN t2 /\ y \in Range(t2[x])
    BY <2>1, LeaveQueueTable
  <2>3. \A x \in DOMAIN t2 :
          /\ x \in DOMAIN t /\ Range(t2[x]) \subseteq Range(t[x]) /\ Distinct(t2[x])
          /\ x = r[f] => f \notin Range(t2[x])
    BY <2>1, LeaveQueueExact
  <2>4. \A k \in DOMAIN t2 : f \notin Range(t2[k])
    BY <2>3
  <2>5. \A k \in DOMAIN t2 : \A w \in Range(t2[k]) : w \in DOMAIN r2 /\ r2[w] = k
    BY <1>1, <2>3, <2>4
  <2>6. \A w : (\E k \in DOMAIN t2 : w \in Range(t2[k]))
                 <=> w # f /\ \E k \in DOMAIN t : w \in Range(t[k])
    BY <2>2, <2>3, <2>4
  <2> QED BY <1>1, <2>3, <2>5, <2>6
<1> QED BY <1>2, <1>3

\* leave-waits takes the fiber out of every wait.
LEMMA WaitsGone ==
    ASSUME WaitPart, WaitReaders, NEW f, LeaveWaits(f)
    PROVE  WaitReaders' /\ WaitsWithout(f)
<1>1. /\ DOMAIN fiberPark' = DOMAIN fiberPark \ {f}
      /\ Knows(fiberPark', parkQueues') /\ AllDistinct(parkQueues')
      /\ \A w : Within(parkQueues', w) <=> w # f /\ Within(parkQueues, w)
  <2>1. /\ IsTable(parkQueues, Keys, Seq(Fibers)) /\ IsTable(fiberPark, Fibers, Keys)
        /\ Knows(fiberPark, parkQueues) /\ AllDistinct(parkQueues)
    BY DEF WaitPart, WaitReaders
  <2>2. /\ parkQueues' = IF f \in DOMAIN fiberPark
                         THEN LeaveQueue(parkQueues, fiberPark[f], f) ELSE parkQueues
        /\ fiberPark' = Del(fiberPark, f)
    BY DEF LeaveWaits
  <2> QED BY <2>1, <2>2, LeaveReaders
<1>2. /\ DOMAIN fiberJoin' = DOMAIN fiberJoin \ {f}
      /\ Knows(fiberJoin', waiters') /\ AllDistinct(waiters')
  <2>1. /\ IsTable(waiters, Fibers, Seq(Fibers)) /\ IsTable(fiberJoin, Fibers, Fibers)
        /\ Knows(fiberJoin, waiters) /\ AllDistinct(waiters)
    BY DEF WaitPart, WaitReaders
  <2>2. /\ waiters' = IF f \in DOMAIN fiberJoin
                      THEN LeaveQueue(waiters, fiberJoin[f], f) ELSE waiters
        /\ fiberJoin' = Del(fiberJoin, f)
    BY DEF LeaveWaits
  <2> QED BY <2>1, <2>2, LeaveReaders
<1>3. DOMAIN selectSets' = DOMAIN selectSets \ {f}
  BY DEF LeaveWaits, Del
<1>4. InPark' = InPark \ {f}
  BY <1>1 DEF InPark
<1> QED BY <1>1, <1>2, <1>3, <1>4 DEF WaitReaders, WaitsWithout

\* complete-fiber takes the fiber out of every place, and goes on with rest.
LEMMA CompletePlaces ==
    ASSUME SchedInv, PlaceInv, loop' = loop, NEW f \in Fibers, NEW status,
           NEW q \in Seq(Fibers), Distinct(q), Range(q) \subseteq Range(runnable),
           NEW rest, BeginComplete(f, status, q, rest), IoReaders', IoWithout(f),
           StackSound(rest, st', loop), Deep(rest),
           OwnersOf(rest) \subseteq OwnersOf(stack), f \notin OwnersOf(rest),
           Doomed(rest) \subseteq Doomed(stack), f \notin Doomed(rest),
           Copied(rest) = Copied(stack), Candidates(rest) \subseteq Candidates(stack),
           Terminated(st'[f]),
           \A g \in Fibers : g = f \/ st'[g] = st[g] \/ (st[g] = "alive" /\ st'[g] = "paused"),
           \A g \in Fibers : st'[g] = "alive" => g \in OwnersOf(rest),
           \A p \in Copied(stack) : p[2] = f => st'[f] \in Over
    PROVE  PlaceInv'
<1>1. WaitReaders' /\ WaitsWithout(f)
  BY WaitsGone DEF BeginComplete, SchedInv, PlaceInv
<1>2. Distinct(runnable') /\ Range(runnable') \subseteq Range(runnable) \ {f}
  BY LeaveArrayRange DEF BeginComplete
<1>3. stack' = <<Joins(f)>> \o rest
  BY DEF BeginComplete
<1>4. /\ StackSound(<<Joins(f)>> \o rest, st', loop)
      /\ Extends(<<Joins(f)>> \o rest, rest, {}, {})
  <2>1. StackSound(rest, st', loop) /\ Terminated(st'[f])
    OBVIOUS
  <2> QED BY ONLY <2>1, f \in Fibers, PushJoins
<1>6. /\ StackSound(stack', st', loop') /\ Tail(stack') = rest
      /\ OwnersOf(stack') = OwnersOf(rest) /\ Doomed(stack') = Doomed(rest)
      /\ Copied(stack') = Copied(stack) /\ Candidates(stack') = Candidates(rest)
      /\ Raised(stack') = {}
  BY <1>3, <1>4 DEF Extends
<1>7. Frames'
  BY <1>6 DEF Frames
<1>8. Apart'
  BY <1>1, <1>2, <1>6 DEF PlaceInv, Apart, IoWithout, WaitsWithout
<1>9. Statuses'
  BY <1>1, <1>2, <1>6 DEF PlaceInv, Apart, Statuses, IoWithout, WaitsWithout, Terminated, Failed, IsDead
<1>10. CandidatesFresh'
  BY <1>1, <1>6 DEF PlaceInv, CandidatesFresh, WaitsWithout
<1>11. Teardown'
  <2>1. Copied(stack) \subseteq Ids \X Fibers
    <3>1. ASSUME NEW fr \in Range(stack) PROVE CopiedBy(fr) \subseteq Ids \X Fibers
      <4>1. fr \in Frame
        BY RangeSeq DEF PlaceInv, Frames, StackSound
      <4> QED BY <4>1, FrameFields DEF CopiedBy
    <3> QED BY <3>1 DEF Copied
  <2>2. ASSUME ~Serving', NEW g \in DOMAIN fiberIo'
        PROVE  st'[g] = "paused" \/ <<fiberIo'[g], g>> \in Copied(stack')
    <3>1. ~Serving /\ g \in DOMAIN fiberIo /\ g # f /\ fiberIo'[g] = fiberIo[g] /\ g \in Fibers
      BY <2>2 DEF Serving, IoWithout, SchedInv, IoPart, IsTable
    <3>2. st[g] # "alive"
      BY <3>1 DEF PlaceInv, Statuses, Over
    <3> QED BY <1>6, <3>1, <3>2 DEF PlaceInv, Teardown
  <2>3. ASSUME NEW p \in Copied(stack')
        PROVE  (p[1] \in DOMAIN pending' /\ pending'[p[1]] = p[2]) \/ st'[p[2]] \in Over
    <3>1. /\ p \in Copied(stack) /\ p[2] \in Fibers
          /\ (p[1] \in DOMAIN pending /\ pending[p[1]] = p[2]) \/ st[p[2]] \in Over
      BY <1>6, <2>1 DEF PlaceInv, Teardown
    <3>2. CASE p[2] = f
      BY <3>1, <3>2
    <3>3. CASE p[2] # f
      BY <3>1, <3>3 DEF IoWithout, Over
    <3> QED BY <3>2, <3>3
  <2> QED BY <1>2, <1>6, <2>2, <2>3 DEF PlaceInv, Teardown
<1> QED BY <1>1, <1>2, <1>7, <1>8, <1>9, <1>10, <1>11 DEF PlaceInv

-----------------------------------------------------------------------------
(* Moving from place to place.                                             *)

\* g is where it was, or in fewer places, and its status is the same.
Stays(g) ==
    /\ g \in Range(runnable') => g \in Range(runnable)
    /\ g \in DOMAIN fiberIo' => g \in DOMAIN fiberIo
    /\ g \in InPark' => g \in InPark
    /\ g \in DOMAIN fiberJoin' => g \in DOMAIN fiberJoin
    /\ g \in DOMAIN selectSets' => g \in DOMAIN selectSets
    /\ g \in OwnersOf(stack') => g \in OwnersOf(stack)
    /\ g \in Doomed(stack') => g \in Doomed(stack)
    /\ g \in Raised(stack') => g \in Raised(stack)
    /\ st'[g] = st[g]
    /\ st'[g] = "alive" => g \in OwnersOf(stack')

\* g is in the place named, and in no other, with a status that fits it.
Moves(g, where) ==
    /\ g \in Range(runnable') => where \in {"queue", "condemned"}
    /\ g \in DOMAIN fiberIo' => where = "io"
    /\ g \in InPark' => where = "park"
    /\ g \in DOMAIN fiberJoin' => where = "join"
    /\ g \in DOMAIN selectSets' => where = "select"
    /\ g \in OwnersOf(stack') => where = "held"
    /\ g \in Doomed(stack') => where = "doomed"
    /\ g \in Raised(stack') => where \in {"raised", "condemned"}
    /\ where \in {"park", "join", "select", "doomed"} => st'[g] = "paused"
    /\ where = "io" => st'[g] \in {"paused"} \cup Over
    /\ where \in {"queue", "raised"} => st'[g] \in {"new", "paused"} \cup Over
    /\ where = "condemned" => st'[g] = "new"
    /\ st'[g] = "alive" => g \in OwnersOf(stack')

\* Nobody is in two places if everybody stays or moves to one.
LEMMA PlacesKept ==
    ASSUME Apart, Statuses, \A g \in Fibers : Stays(g) \/ \E where : Moves(g, where)
    PROVE  Apart' /\ Statuses'
BY DEF Apart, Statuses, Stays, Moves, Over

\* Whoever a function in progress holds is alive or will be resumed.
LEMMA OwnersLive ==
    ASSUME Frames, NEW f \in OwnersOf(stack)
    PROVE  f \in Fibers /\ st[f] \in {"new", "paused", "alive"}
<1>1. PICK fr \in Range(stack) : Owner(fr) = f /\ f # None
  BY DEF OwnersOf
<1>2. fr \in Frame /\ FrameSound(fr, st, loop)
  BY RangeSeq DEF Frames, StackSound
<1> QED BY <1>1, <1>2, FrameFields DEF Owner, FrameSound

\* Under a stack that raises and runs nothing there is none that does.
LEMMA DeepTail ==
    ASSUME NEW s \in Seq(Frame), s # <<>>, Deep(s)
    PROVE  Deep(Tail(s)) /\ Raised(s) = {}
<1>1. Range(s) = {Head(s)} \cup Range(Tail(s))
  BY TailRange
<1> QED BY <1>1 DEF Deep, Raised

\* A function returns into the ones below it.
LEMMA FramesPop ==
    ASSUME NEW s, StackSound(s, st', loop'), Deep(s), stack' = s
    PROVE  Frames' /\ Raised(stack') = {}
<1>1. s \in Seq(Frame)
  BY DEF StackSound
<1>2. CASE s = <<>>
  BY <1>2, EmptyStack DEF Frames
<1>3. CASE s # <<>>
  BY <1>1, <1>3, DeepTail DEF Frames
<1> QED BY <1>2, <1>3

\* The fibers of the copy are waiting for their operation, or have ended.
LEMMA CopiedFibers ==
    ASSUME SchedInv, PlaceInv, NEW p \in Copied(stack)
    PROVE  /\ p[2] \in Fibers /\ st[p[2]] \in {"paused"} \cup Over
           /\ p[2] \in DOMAIN fiberIo \/ st[p[2]] \in Over
<1>1. PICK fr \in Range(stack) : p \in CopiedBy(fr)
  BY DEF Copied
<1>2. fr \in Frame
  BY RangeSeq DEF PlaceInv, Frames, StackSound
<1>3. p \in Ids \X Fibers
  BY <1>1, <1>2, FrameFields DEF CopiedBy
<1>4. p[2] \in DOMAIN fiberIo \/ st[p[2]] \in Over
  BY DEF PlaceInv, Teardown, IoReaders
<1>5. p[2] \in DOMAIN fiberIo => st[p[2]] \in {"paused"} \cup Over
  BY <1>3 DEF PlaceInv, Statuses
<1> QED BY <1>3, <1>4, <1>5

\* f is in no table and in no list.
WaitsNowhere(f) ==
    /\ f \notin Range(runnable) /\ f \notin DOMAIN fiberIo /\ f \notin InPark
    /\ f \notin DOMAIN fiberJoin /\ f \notin DOMAIN selectSets /\ f \notin Doomed(stack)
    /\ \A p \in Copied(stack) : p[2] # f

\* What is under the innermost function, when that holds f or nobody.
Below(f) ==
    /\ stack # <<>> /\ Deep(Tail(stack))
    /\ StackSound(Tail(stack), st, loop)
    /\ OwnersOf(Tail(stack)) = OwnersOf(stack) \ {f}
    /\ Doomed(Tail(stack)) = Doomed(stack) /\ Copied(Tail(stack)) = Copied(stack)
    /\ Candidates(Tail(stack)) = Candidates(stack)

\* The innermost function has no list of its own.
LEMMA BelowTop ==
    ASSUME PlaceInv, stack # <<>>,
           Head(stack).at \in {"resume", "raise", "run", "joins", "selects"}
    PROVE  Below(Owner(Head(stack)))
<1>1. StackSound(stack, st, loop) /\ Deep(Tail(stack))
  BY DEF PlaceInv, Frames
<1>2. /\ DoomedBy(Head(stack)) = {} /\ CopiedBy(Head(stack)) = {}
      /\ CandidatesOf(Head(stack)) = {}
  BY DEF DoomedBy, CopiedBy, CandidatesOf
<1>3. /\ StackSound(Tail(stack), st, loop)
      /\ OwnersOf(Tail(stack)) = OwnersOf(stack) \ {Owner(Head(stack))}
      /\ Doomed(stack) = DoomedBy(Head(stack)) \cup Doomed(Tail(stack))
      /\ Copied(stack) = CopiedBy(Head(stack)) \cup Copied(Tail(stack))
      /\ Candidates(stack) = CandidatesOf(Head(stack)) \cup Candidates(Tail(stack))
  BY <1>1, PopStack
<1>4. /\ Doomed(Tail(stack)) = Doomed(stack) /\ Copied(Tail(stack)) = Copied(stack)
      /\ Candidates(Tail(stack)) = Candidates(stack)
  BY <1>2, <1>3
<1> QED BY <1>1, <1>3, <1>4 DEF Below

\* A running fiber is the only one, and waits nowhere.
LEMMA RunnerPlace ==
    ASSUME SchedInv, PlaceInv, NEW f \in Fibers, Top("run"), Head(stack).fiber = f
    PROVE  /\ st[f] = "alive" /\ f \in OwnersOf(stack) /\ Raised(stack) = {}
           /\ WaitsNowhere(f) /\ Below(f)
           /\ \A g \in Fibers : st[g] = "alive" => g = f
<1>1. stack # <<>> /\ Head(stack).at = "run" /\ Owner(Head(stack)) = f
  BY DEF Top, Owner
<1>2. StackSound(stack, st, loop) /\ Deep(Tail(stack)) /\ stack \in Seq(Frame)
  BY <1>1 DEF PlaceInv, Frames, StackSound
<1>3. f # None
  BY SchedAssumption
<1>4. FrameSound(Head(stack), st, loop) /\ f \in OwnersOf(stack)
  BY <1>1, <1>2, <1>3, PopStack
<1>5. st[f] = "alive"
  BY <1>1, <1>4 DEF FrameSound
<1>6. Raised(stack) = {}
  BY <1>1 DEF Raised
<1>7. Below(f)
  BY <1>1, BelowTop
<1>8. WaitsNowhere(f)
  <2>1. \A p \in Copied(stack) : p[2] # f
    BY <1>5, CopiedFibers DEF Over
  <2> QED BY <1>4, <1>5, <2>1 DEF WaitsNowhere, PlaceInv, Apart
<1>9. ASSUME NEW g \in Fibers, st[g] = "alive" PROVE g = f
  <2>1. g \in OwnersOf(stack)
    BY <1>9 DEF PlaceInv, Statuses
  <2>2. PICK fr \in Range(stack) : Owner(fr) = g /\ g # None
    BY <2>1 DEF OwnersOf
  <2>3. fr \in Frame /\ FrameSound(fr, st, loop)
    BY <1>2, RangeSeq DEF StackSound
  <2>4. fr.at = "run"
    BY <1>9, <2>2, <2>3 DEF Owner, FrameSound
  <2>5. Range(stack) = {Head(stack)} \cup Range(Tail(stack))
    BY <1>1, <1>2, TailRange
  <2>6. fr = Head(stack)
    BY <1>2, <2>4, <2>5 DEF Deep
  <2> QED BY <1>1, <2>2, <2>6
<1> QED BY <1>4, <1>5, <1>6, <1>7, <1>8, <1>9

\* A request suspends the running fiber, and nobody runs.
LEMMA Suspends ==
    ASSUME SchedInv, PlaceInv, NEW f \in Fibers, NEW op, Requests(f, op)
    PROVE  /\ st[f] = "alive" /\ f \in OwnersOf(stack) /\ Raised(stack) = {}
           /\ WaitsNowhere(f) /\ Below(f) /\ f \notin OwnersOf(Tail(stack))
           /\ st'[f] = "paused" /\ \A g \in Fibers : g # f => st'[g] = st[g]
           /\ \A g \in Fibers : st'[g] # "alive"
           /\ StackSound(Tail(stack), st', loop)
<1>1. Top("run") /\ Head(stack).fiber = f
  BY DEF Requests, Running
<1>2. /\ st[f] = "alive" /\ f \in OwnersOf(stack) /\ Raised(stack) = {}
      /\ WaitsNowhere(f) /\ Below(f)
      /\ \A g \in Fibers : st[g] = "alive" => g = f
  BY <1>1, RunnerPlace
<1>3. st'[f] = "paused" /\ \A g \in Fibers : g # f => st'[g] = st[g]
  BY DEF Requests, SchedInv, CoreOK
<1>4. f \notin OwnersOf(Tail(stack))
  BY <1>2 DEF Below
<1>5. StackSound(Tail(stack), st', loop)
  <2>1. StackSound(Tail(stack), st, loop) /\ \A fr \in Range(Tail(stack)) : fr.at # "raise"
    BY <1>2 DEF Below, Deep
  <2>2. \A g \in Fibers : \/ st'[g] = st[g]
                          \/ g \notin OwnersOf(Tail(stack)) /\ ~Terminated(st[g])
    BY <1>2, <1>3, <1>4 DEF Terminated, Failed, IsDead
  <2> QED BY <2>1, <2>2, StatusKept
<1> QED BY <1>2, <1>3, <1>4, <1>5

\* The teardown's copy is as good as it was when nothing happens but to a fiber
\* that waits nowhere.
LEMMA TeardownKept ==
    ASSUME SchedInv, PlaceInv, NEW f \in Fibers, WaitsNowhere(f), UNCHANGED <<pending, fiberIo, loop>>,
           Copied(stack') = Copied(stack), \A g \in Fibers : g # f => st'[g] = st[g],
           Range(runnable') \subseteq Range(runnable) \cup {f}
    PROVE  Teardown'
<1>1. ASSUME ~Serving', NEW g \in DOMAIN fiberIo'
      PROVE  st'[g] = "paused" \/ <<fiberIo'[g], g>> \in Copied(stack')
  <2>1. ~Serving /\ g \in DOMAIN fiberIo /\ g # f /\ g \in Fibers
    BY <1>1 DEF Serving, WaitsNowhere, SchedInv, IoPart, IsTable
  <2> QED BY <2>1 DEF PlaceInv, Teardown
<1>2. ASSUME NEW p \in Copied(stack')
      PROVE  /\ (p[1] \in DOMAIN pending' /\ pending'[p[1]] = p[2]) \/ st'[p[2]] \in Over
             /\ p[2] \notin Range(runnable')
  <2>1. p \in Copied(stack) /\ p[2] \in Fibers /\ p[2] # f
    BY CopiedFibers DEF WaitsNowhere
  <2> QED BY <2>1 DEF PlaceInv, Teardown
<1>3. \A p, q \in Copied(stack') : p[2] = q[2] => p = q
  BY DEF PlaceInv, Teardown
<1> QED BY <1>1, <1>2, <1>3 DEF Teardown

\* The fiber suspends, the tables stay as they are, and whoever answers it is on
\* the stack.
LEMMA SuspendTo ==
    ASSUME SchedInv, PlaceInv, NEW f \in Fibers, NEW op, Requests(f, op),
           UNCHANGED <<runnable, pending, fiberIo, waitVars, loop>>,
           StackSound(stack', st', loop), stack' # <<>> => Deep(Tail(stack')),
           OwnersOf(stack') \subseteq OwnersOf(stack), Doomed(stack') = Doomed(stack),
           Copied(stack') = Copied(stack), Candidates(stack') \subseteq Candidates(stack) \cup InPark,
           Raised(stack') \subseteq {f}, Raised(stack') # {} => f \notin OwnersOf(stack')
    PROVE  PlaceInv'
<1>1. /\ WaitsNowhere(f) /\ st'[f] = "paused" /\ \A g \in Fibers : g # f => st'[g] = st[g]
      /\ \A g \in Fibers : st'[g] # "alive"
  BY Suspends
<1>2. InPark' = InPark
  BY DEF InPark, Within, waitVars
<1>3. \A g \in Fibers : Stays(g) \/ \E where : Moves(g, where)
  <2>1. \A g \in Fibers : g # f => Stays(g)
    BY <1>1, <1>2 DEF Stays, waitVars
  <2>2. CASE Raised(stack') = {}
    <3>1. Moves(f, "held")
      BY <1>1, <1>2, <2>2 DEF Moves, WaitsNowhere, waitVars
    <3> QED BY <2>1, <3>1
  <2>3. CASE Raised(stack') # {}
    <3>1. Moves(f, "raised")
      BY <1>1, <1>2, <2>3 DEF Moves, WaitsNowhere, waitVars
    <3> QED BY <2>1, <3>1
  <2> QED BY <2>2, <2>3
<1>4. Apart' /\ Statuses'
  BY <1>3, PlacesKept DEF PlaceInv
<1>5. Frames'
  BY DEF Frames
<1>6. Distinct(runnable)' /\ IoReaders' /\ WaitReaders'
  BY DEF PlaceInv, IoReaders, WaitReaders, waitVars
<1>7. CandidatesFresh'
  BY <1>2 DEF PlaceInv, CandidatesFresh, waitVars
<1>8. Teardown'
  BY <1>1, TeardownKept
<1> QED BY <1>4, <1>5, <1>6, <1>7, <1>8 DEF PlaceInv

-----------------------------------------------------------------------------
(* One lemma for each action that a running fiber takes.                   *)

\* The running fiber is resumed at once.
LEMMA AnsweredPlaces ==
    ASSUME SchedInv, PlaceInv, NEW f \in Fibers, NEW op, Requests(f, op),
           UNCHANGED <<runnable, pending, fiberIo, waitVars, loop>>,
           stack' = <<Resume(f)>> \o Tail(stack)
    PROVE  PlaceInv'
<1>1. /\ Below(f) /\ f \notin OwnersOf(Tail(stack)) /\ f \in OwnersOf(stack)
      /\ st'[f] = "paused" /\ StackSound(Tail(stack), st', loop)
  BY Suspends
<1>2. StackSound(stack', st', loop) /\ Extends(stack', Tail(stack), {f}, {})
  BY <1>1, PushResume
<1> QED BY <1>1, <1>2, SuspendTo DEF Below, Extends

\* A yield queues the fiber.
LEMMA FiberYieldPlaces ==
    ASSUME SchedInv, PlaceInv, NEW f \in Fibers, FiberYield(f) PROVE PlaceInv'
<1>1. Requests(f, "yield") /\ stack' = Tail(stack) /\ runnable' = Append(runnable, f)
  BY DEF FiberYield
<1>2. UNCHANGED <<pending, fiberIo, waitVars, loop>>
  BY DEF FiberYield, ioVars, loopVars
<1>3. /\ WaitsNowhere(f) /\ st'[f] = "paused" /\ \A g \in Fibers : g # f => st'[g] = st[g]
      /\ \A g \in Fibers : st'[g] # "alive"
      /\ Below(f) /\ f \notin OwnersOf(Tail(stack)) /\ StackSound(Tail(stack), st', loop)
  BY <1>1, Suspends
<1>4. Frames' /\ Raised(stack') = {}
  BY <1>1, <1>2, <1>3, FramesPop DEF Below
<1>5. Range(runnable') = Range(runnable) \cup {f} /\ Distinct(runnable')
  <2>1. runnable \in Seq(Fibers) /\ Distinct(runnable) /\ f \notin Range(runnable)
    BY <1>3 DEF SchedInv, CoreOK, PlaceInv, WaitsNowhere
  <2> QED BY <1>1, <2>1, AppendRange
<1>6. InPark' = InPark
  BY <1>2 DEF InPark, Within, waitVars
<1>7. \A g \in Fibers : Stays(g) \/ \E where : Moves(g, where)
  <2>1. \A g \in Fibers : g # f => Stays(g)
    BY <1>1, <1>2, <1>3, <1>4, <1>5, <1>6 DEF Stays, Below, waitVars
  <2>2. Moves(f, "queue")
    BY <1>1, <1>2, <1>3, <1>4, <1>6 DEF Moves, Below, WaitsNowhere, waitVars
  <2> QED BY <2>1, <2>2
<1>8. Apart' /\ Statuses'
  BY <1>7, PlacesKept DEF PlaceInv
<1>9. IoReaders' /\ WaitReaders'
  BY <1>2 DEF PlaceInv, IoReaders, WaitReaders, waitVars
<1>10. CandidatesFresh'
  BY <1>1, <1>2, <1>3, <1>6 DEF PlaceInv, CandidatesFresh, Below, waitVars
<1>11. Teardown'
  BY <1>1, <1>2, <1>3, <1>5, TeardownKept DEF Below
<1> QED BY <1>4, <1>5, <1>8, <1>9, <1>10, <1>11 DEF PlaceInv

\* A refused submission is raised in the fiber.
LEMMA RefuseIoPlaces ==
    ASSUME SchedInv, PlaceInv, NEW f \in Fibers, RefuseIo(f) PROVE PlaceInv'
<1>1. PICK op : Requests(f, op)
  BY DEF RefuseIo
<1>2. /\ stack' = <<Raise(f, FALSE)>> \o Tail(stack)
      /\ UNCHANGED <<runnable, pending, fiberIo, waitVars, loop>>
  BY DEF RefuseIo, ioVars, loopVars
<1>3. /\ Below(f) /\ f \notin OwnersOf(Tail(stack)) /\ f \in OwnersOf(stack)
      /\ st'[f] = "paused" /\ StackSound(Tail(stack), st', loop)
  BY <1>1, Suspends
<1>4. StackSound(stack', st', loop) /\ Extends(stack', Tail(stack), {}, {f})
  BY <1>2, <1>3, PushRaise
<1> QED BY <1>1, <1>2, <1>3, <1>4, SuspendTo DEF Below, Extends

\* A submission pairs the fiber with an id that nobody names.
LEMMA SubmitIoPlaces ==
    ASSUME SchedInv, PlaceInv, NEW f \in Fibers, SubmitIo(f) PROVE PlaceInv'
<1>1. Requests(f, "io") /\ stack' = Tail(stack)
  BY DEF SubmitIo
<1>2. UNCHANGED <<runnable, waitVars, loop>>
  BY DEF SubmitIo, loopVars
<1>3. /\ WaitsNowhere(f) /\ st'[f] = "paused" /\ \A g \in Fibers : g # f => st'[g] = st[g]
      /\ \A g \in Fibers : st'[g] # "alive"
      /\ Below(f) /\ f \notin OwnersOf(Tail(stack)) /\ StackSound(Tail(stack), st', loop)
  BY <1>1, Suspends
<1>4. Frames' /\ Raised(stack') = {}
  BY <1>1, <1>2, <1>3, FramesPop DEF Below
<1>5. PICK id \in FreeIds : pending' = Put(pending, id, f) /\ fiberIo' = Put(fiberIo, f, id)
  BY DEF SubmitIo
<1>6. /\ id \notin DOMAIN pending /\ DOMAIN pending' = DOMAIN pending \cup {id}
      /\ pending'[id] = f /\ \A x \in DOMAIN pending : pending'[x] = pending[x]
  BY <1>5 DEF FreeIds, Put
<1>7. /\ DOMAIN fiberIo' = DOMAIN fiberIo \cup {f} /\ fiberIo'[f] = id
      /\ \A x \in DOMAIN fiberIo : fiberIo'[x] = fiberIo[x]
  BY <1>3, <1>5 DEF Put, WaitsNowhere
<1>8. InPark' = InPark
  BY <1>2 DEF InPark, Within, waitVars
<1>9. \A g \in Fibers : Stays(g) \/ \E where : Moves(g, where)
  <2>1. \A g \in Fibers : g # f => Stays(g)
    BY <1>1, <1>2, <1>3, <1>4, <1>7, <1>8 DEF Stays, Below, waitVars
  <2>2. Moves(f, "io")
    BY <1>1, <1>2, <1>3, <1>4, <1>8 DEF Moves, Below, WaitsNowhere, waitVars
  <2> QED BY <2>1, <2>2
<1>10. Apart' /\ Statuses'
  BY <1>9, PlacesKept DEF PlaceInv
<1>11. IoReaders'
  BY <1>6, <1>7 DEF PlaceInv, IoReaders
<1>12. WaitReaders' /\ Distinct(runnable)'
  BY <1>2 DEF PlaceInv, WaitReaders, waitVars
<1>13. CandidatesFresh'
  BY <1>1, <1>2, <1>3, <1>8 DEF PlaceInv, CandidatesFresh, Below, waitVars
<1>14. Teardown'
  <2>1. Copied(stack') = Copied(stack)
    BY <1>1, <1>3 DEF Below
  <2>2. ASSUME ~Serving', NEW g \in DOMAIN fiberIo'
        PROVE  st'[g] = "paused" \/ <<fiberIo'[g], g>> \in Copied(stack')
    <3>1. CASE g = f
      BY <1>3, <3>1
    <3>2. CASE g # f
      <4>1. ~Serving /\ g \in DOMAIN fiberIo /\ g \in Fibers
        BY <1>2, <1>7, <2>2, <3>2 DEF Serving, SchedInv, IoPart, IsTable
      <4> QED BY <1>3, <1>7, <2>1, <3>2, <4>1 DEF PlaceInv, Teardown
    <3> QED BY <3>1, <3>2
  <2>3. ASSUME NEW p \in Copied(stack')
        PROVE  /\ (p[1] \in DOMAIN pending' /\ pending'[p[1]] = p[2]) \/ st'[p[2]] \in Over
               /\ p[2] \notin Range(runnable')
    <3>1. p \in Copied(stack) /\ p[2] \in Fibers /\ p[2] # f
      BY <1>3, <2>1, CopiedFibers DEF WaitsNowhere
    <3> QED BY <1>2, <1>3, <1>6, <3>1 DEF PlaceInv, Teardown
  <2>4. \A p, q \in Copied(stack') : p[2] = q[2] => p = q
    BY <2>1 DEF PlaceInv, Teardown
  <2> QED BY <2>2, <2>3, <2>4 DEF Teardown
<1> QED BY <1>4, <1>10, <1>11, <1>12, <1>13, <1>14 DEF PlaceInv

\* Entering puts f at the end of one array, and moves nobody.
LEMMA EnterReaders ==
    ASSUME NEW K, NEW t, IsTable(t, K, Seq(Fibers)), NEW r, NEW f \in Fibers, NEW k \in K,
           Knows(r, t), AllDistinct(t), ~Within(t, f)
    PROVE  LET t2 == Put(t, k, Append(Array(t, k), f))
               r2 == Put(r, f, k)
           IN  /\ DOMAIN r2 = DOMAIN r \cup {f}
               /\ Knows(r2, t2) /\ AllDistinct(t2)
               /\ \A w : Within(t2, w) <=> w = f \/ Within(t, w)
<1> DEFINE t2 == Put(t, k, Append(Array(t, k), f))
           r2 == Put(r, f, k)
<1> SUFFICES /\ DOMAIN r2 = DOMAIN r \cup {f}
             /\ Knows(r2, t2) /\ AllDistinct(t2)
             /\ \A w : Within(t2, w) <=> w = f \/ Within(t, w)
  OBVIOUS
<1>1. DOMAIN r2 = DOMAIN r \cup {f} /\ r2[f] = k /\ \A w \in DOMAIN r \ {f} : r2[w] = r[w]
  BY DEF Put
<1>2. Array(t, k) \in Seq(Fibers)
  BY ArrayType
<1>3. Range(Array(t, k)) = IF k \in DOMAIN t THEN Range(t[k]) ELSE {}
  BY RangeSeq DEF Array, Range
<1>4. Distinct(Array(t, k)) /\ f \notin Range(Array(t, k))
  <2>1. CASE k \in DOMAIN t
    BY <2>1 DEF Array, Within, AllDistinct
  <2>2. CASE k \notin DOMAIN t
    <3>1. Array(t, k) = <<>> /\ Len(<<>>) = 0
      BY <2>2 DEF Array
    <3> QED BY <1>3, <2>2, <3>1 DEF Distinct
  <2> QED BY <2>1, <2>2
<1>5. /\ Range(Append(Array(t, k), f)) = Range(Array(t, k)) \cup {f}
      /\ Distinct(Append(Array(t, k), f))
  BY <1>2, <1>4, AppendRange
<1>6. /\ DOMAIN t2 = DOMAIN t \cup {k} /\ t2[k] = Append(Array(t, k), f)
      /\ \A x \in DOMAIN t \ {k} : t2[x] = t[x]
  BY DEF Put
<1> HIDE DEF t2, r2
<1>7. \A x \in DOMAIN t2 :
        Range(t2[x]) = (IF x \in DOMAIN t THEN Range(t[x]) ELSE {}) \cup (IF x = k THEN {f} ELSE {})
  BY <1>3, <1>5, <1>6
<1>8. Knows(r2, t2)
  BY <1>1, <1>7 DEF Knows, Within
<1>9. AllDistinct(t2)
  BY <1>5, <1>6 DEF AllDistinct
<1>10. \A w : Within(t2, w) <=> w = f \/ Within(t, w)
  BY <1>6, <1>7 DEF Within
<1> QED BY <1>1, <1>8, <1>9, <1>10

\* handle-park queues the fiber on the key, or answers it at once.
LEMMA HandleParkPlaces ==
    ASSUME SchedInv, PlaceInv, NEW f \in Fibers, NEW k \in Keys, HandlePark(f, k)
    PROVE  PlaceInv'
<1>1. Requests(f, "park") /\ UNCHANGED <<runnable, pending, fiberIo, fiberJoin, waiters, selectSets, loop>>
  BY DEF HandlePark, ioVars, loopVars
<1>2. CASE stack' = <<Resume(f)>> \o Tail(stack) /\ UNCHANGED <<parkQueues, fiberPark>>
  BY <1>1, <1>2, AnsweredPlaces DEF waitVars
<1>3. CASE /\ parkQueues' = Put(parkQueues, k, Append(Array(parkQueues, k), f))
           /\ fiberPark' = Put(fiberPark, f, k)
           /\ stack' = Tail(stack)
  <2>1. /\ WaitsNowhere(f) /\ st'[f] = "paused" /\ \A g \in Fibers : g # f => st'[g] = st[g]
        /\ \A g \in Fibers : st'[g] # "alive"
        /\ Below(f) /\ f \notin OwnersOf(Tail(stack)) /\ StackSound(Tail(stack), st', loop)
    BY <1>1, Suspends
  <2>2. Frames' /\ Raised(stack') = {}
    BY <1>1, <1>3, <2>1, FramesPop DEF Below
  <2>3. /\ DOMAIN fiberPark' = DOMAIN fiberPark \cup {f}
        /\ Knows(fiberPark', parkQueues') /\ AllDistinct(parkQueues')
        /\ \A w : Within(parkQueues', w) <=> w = f \/ Within(parkQueues, w)
    <3>1. IsTable(parkQueues, Keys, Seq(Fibers)) /\ Knows(fiberPark, parkQueues) /\ AllDistinct(parkQueues)
      BY DEF SchedInv, WaitPart, PlaceInv, WaitReaders
    <3>2. ~Within(parkQueues, f)
      BY <2>1 DEF WaitsNowhere, InPark
    <3>3. DOMAIN Put(fiberPark, f, k) = DOMAIN fiberPark \cup {f}
      BY DEF Put
    <3> DEFINE t2 == Put(parkQueues, k, Append(Array(parkQueues, k), f))
               r2 == Put(fiberPark, f, k)
    <3>4. Knows(r2, t2) /\ AllDistinct(t2) /\ \A w : Within(t2, w) <=> w = f \/ Within(parkQueues, w)
      BY <3>1, <3>2, EnterReaders
    <3> QED BY <1>3, <3>3, <3>4
  <2>4. InPark' = InPark \cup {f}
    BY <2>3 DEF InPark
  <2>5. \A g \in Fibers : Stays(g) \/ \E where : Moves(g, where)
    <3>1. \A g \in Fibers : g # f => Stays(g)
      BY <1>1, <1>3, <2>1, <2>2, <2>4 DEF Stays, Below
    <3>2. Moves(f, "park")
      BY <1>1, <1>3, <2>1, <2>2 DEF Moves, Below, WaitsNowhere
    <3> QED BY <3>1, <3>2
  <2>6. Apart' /\ Statuses'
    BY <2>5, PlacesKept DEF PlaceInv
  <2>7. IoReaders' /\ WaitReaders' /\ Distinct(runnable)'
    BY <1>1, <2>3 DEF PlaceInv, IoReaders, WaitReaders
  <2>8. CandidatesFresh'
    BY <1>3, <2>1, <2>3, <2>4 DEF PlaceInv, CandidatesFresh, Below
  <2>9. Teardown'
    BY <1>1, <1>3, <2>1, TeardownKept DEF Below
  <2> QED BY <2>2, <2>6, <2>7, <2>8, <2>9 DEF PlaceInv
<1> QED BY <1>2, <1>3 DEF HandlePark

\* The stack r is s with a frame on top that holds own and the lists named.
Carries(r, s, own, doomed, copied, candidates) ==
    /\ r # <<>> /\ Tail(r) = s /\ Raised(r) = {}
    /\ OwnersOf(r) = OwnersOf(s) \cup own
    /\ Doomed(r) = doomed \cup Doomed(s)
    /\ Copied(r) = copied \cup Copied(s)
    /\ Candidates(r) = candidates \cup Candidates(s)
    /\ Deep(s) => Deep(r)

\* A function is called that neither runs a fiber nor raises in one.
LEMMA PushCarry ==
    ASSUME NEW s, NEW status, NEW lp, StackSound(s, status, lp),
           NEW fr \in Frame, FrameSound(fr, status, lp), Owner(fr) \notin OwnersOf(s),
           fr.at \in Base => s = <<>>, fr.at \notin {"run", "raise"}
    PROVE  /\ StackSound(<<fr>> \o s, status, lp)
           /\ Carries(<<fr>> \o s, s, {Owner(fr)} \ {None}, DoomedBy(fr), CopiedBy(fr), CandidatesOf(fr))
<1>1. /\ StackSound(<<fr>> \o s, status, lp)
      /\ <<fr>> \o s # <<>> /\ Head(<<fr>> \o s) = fr /\ Tail(<<fr>> \o s) = s
      /\ OwnersOf(<<fr>> \o s) = OwnersOf(s) \cup ({Owner(fr)} \ {None})
      /\ Doomed(<<fr>> \o s) = DoomedBy(fr) \cup Doomed(s)
      /\ Copied(<<fr>> \o s) = CopiedBy(fr) \cup Copied(s)
      /\ Candidates(<<fr>> \o s) = CandidatesOf(fr) \cup Candidates(s)
      /\ Raised(<<fr>> \o s) = (IF fr.at = "raise" THEN {fr.fiber} ELSE {})
      /\ Deep(s) /\ fr.at \notin {"run", "raise"} => Deep(<<fr>> \o s)
  BY PushStack
<1> QED BY <1>1 DEF Carries

\* wake-parked is called.
LEMMA PushWake ==
    ASSUME NEW s, NEW status, NEW lp, StackSound(s, status, lp),
           NEW k \in Keys, NEW q \in Seq(Fibers), NEW n \in Nat, NEW c \in Fibers \cup {None},
           c = None \/ (c \notin OwnersOf(s) /\ status[c] = "paused")
    PROVE  /\ StackSound(<<Wake(k, q, n, c)>> \o s, status, lp)
           /\ Carries(<<Wake(k, q, n, c)>> \o s, s, {c} \ {None}, {}, {}, Range(q))
<1> DEFINE fr == Wake(k, q, n, c)
<1>1. fr \in Frame /\ fr.at = "wake" /\ fr.caller = c /\ fr.todo = q
  BY NewFrames DEF Wake
<1> HIDE DEF fr
<1>2. /\ Owner(fr) = c /\ fr.at \notin Base /\ DoomedBy(fr) = {} /\ CopiedBy(fr) = {}
      /\ CandidatesOf(fr) = Range(q)
  BY <1>1 DEF Owner, Base, DoomedBy, CopiedBy, CandidatesOf
<1>3. FrameSound(fr, status, lp)
  BY <1>1 DEF FrameSound
<1>4. Owner(fr) \notin OwnersOf(s)
  BY <1>2 DEF OwnersOf
<1>5. /\ StackSound(<<fr>> \o s, status, lp)
      /\ Carries(<<fr>> \o s, s, {Owner(fr)} \ {None}, DoomedBy(fr), CopiedBy(fr), CandidatesOf(fr))
  BY <1>1, <1>2, <1>3, <1>4, PushCarry
<1> QED BY <1>2, <1>5 DEF fr

\* The fibers on a key are in a park queue.
LEMMA ArrayParked ==
    ASSUME SchedInv, NEW k \in Keys
    PROVE  Array(parkQueues, k) \in Seq(Fibers) /\ Range(Array(parkQueues, k)) \subseteq InPark
<1>1. IsTable(parkQueues, Keys, Seq(Fibers))
  BY DEF SchedInv, WaitPart
<1>2. Array(parkQueues, k) \in Seq(Fibers)
  BY <1>1, ArrayType
<1>3. CASE k \in DOMAIN parkQueues
  BY <1>2, <1>3, RangeSeq DEF Array, InPark, Within
<1>4. CASE k \notin DOMAIN parkQueues
  <2>1. Array(parkQueues, k) = <<>> /\ Range(<<>>) = {}
    BY <1>4 DEF Array, Range
  <2> QED BY <1>2, <2>1
<1> QED BY <1>2, <1>3, <1>4

\* handle-notify calls wake-parked, and answers the fiber afterwards.
LEMMA HandleNotifyPlaces ==
    ASSUME SchedInv, PlaceInv, NEW f \in Fibers, NEW k \in Keys, NEW n \in 1..MaxWake,
           HandleNotify(f, k, n)
    PROVE  PlaceInv'
<1>1. /\ Requests(f, "notify") /\ UNCHANGED <<runnable, pending, fiberIo, waitVars, loop>>
      /\ stack' = <<Wake(k, Array(parkQueues, k), n, f)>> \o Tail(stack)
  BY DEF HandleNotify, ioVars, loopVars
<1>2. /\ Below(f) /\ f \notin OwnersOf(Tail(stack)) /\ f \in OwnersOf(stack)
      /\ st'[f] = "paused" /\ StackSound(Tail(stack), st', loop)
  BY <1>1, Suspends
<1>3. Array(parkQueues, k) \in Seq(Fibers) /\ Range(Array(parkQueues, k)) \subseteq InPark
  BY ArrayParked
<1>4. n \in Nat
  BY SchedAssumption
<1>5. /\ StackSound(stack', st', loop)
      /\ Carries(stack', Tail(stack), {f} \ {None}, {}, {}, Range(Array(parkQueues, k)))
  BY <1>1, <1>2, <1>3, <1>4, PushWake
<1> QED BY <1>1, <1>2, <1>3, <1>5, SuspendTo DEF Below, Carries

\* handle-io-forward and handle-io-forward-cancel answer the fiber at once.
LEMMA ForwardPlaces ==
    ASSUME SchedInv, PlaceInv, NEW f \in Fibers,
           (\E k \in Keys : HandleIoForward(f, k)) \/ (\E id \in Ids : HandleIoForwardCancel(f, id))
    PROVE  PlaceInv'
<1>1. PICK op : Requests(f, op)
  BY DEF HandleIoForward, HandleIoForwardCancel
<1>2. /\ UNCHANGED <<runnable, pending, fiberIo, waitVars, loop>>
      /\ stack' = <<Resume(f)>> \o Tail(stack)
  BY DEF HandleIoForward, HandleIoForwardCancel, loopVars
<1> QED BY <1>1, <1>2, AnsweredPlaces

\* ev/shutdown only leaves a note.
LEMMA RequestShutdownPlaces ==
    ASSUME PlaceInv, NEW f, RequestShutdown(f) PROVE PlaceInv'
<1>1. UNCHANGED <<st, runnable, pending, fiberIo, waitVars, loop, stack>>
  BY DEF RequestShutdown, ioVars
<1> QED BY <1>1 DEF PlaceInv, Frames, Apart, Statuses, IoReaders, WaitReaders, CandidatesFresh,
                    Teardown, InPark, Serving, waitVars

\* handle-join, where the target has not ended: the fiber joins the waiter list.
LEMMA JoinWaits ==
    ASSUME SchedInv, PlaceInv, NEW c \in Fibers, NEW t \in Fibers, NEW op, Requests(c, op),
           waiters' = Put(waiters, t, Append(Array(waiters, t), c)),
           fiberJoin' = Put(fiberJoin, c, t), stack' = Tail(stack),
           UNCHANGED <<runnable, pending, fiberIo, fiberPark, parkQueues, selectSets, loop>>
    PROVE  PlaceInv'
<1>1. /\ WaitsNowhere(c) /\ st'[c] = "paused" /\ \A g \in Fibers : g # c => st'[g] = st[g]
      /\ \A g \in Fibers : st'[g] # "alive"
      /\ Below(c) /\ c \notin OwnersOf(Tail(stack)) /\ StackSound(Tail(stack), st', loop)
  BY Suspends
<1>2. Frames' /\ Raised(stack') = {}
  BY <1>1, FramesPop DEF Below
<1>3. /\ DOMAIN fiberJoin' = DOMAIN fiberJoin \cup {c}
      /\ Knows(fiberJoin', waiters') /\ AllDistinct(waiters')
  <2>1. IsTable(waiters, Fibers, Seq(Fibers)) /\ Knows(fiberJoin, waiters) /\ AllDistinct(waiters)
    BY DEF SchedInv, WaitPart, PlaceInv, WaitReaders
  <2>2. ~Within(waiters, c)
    BY <1>1, <2>1 DEF WaitsNowhere, Within, Knows
  <2>3. DOMAIN Put(fiberJoin, c, t) = DOMAIN fiberJoin \cup {c}
    BY DEF Put
  <2> DEFINE t2 == Put(waiters, t, Append(Array(waiters, t), c))
             r2 == Put(fiberJoin, c, t)
  <2>4. Knows(r2, t2) /\ AllDistinct(t2) /\ \A w : Within(t2, w) <=> w = c \/ Within(waiters, w)
    BY <2>1, <2>2, EnterReaders
  <2> QED BY <2>3, <2>4
<1>4. InPark' = InPark
  BY DEF InPark, Within
<1>5. \A g \in Fibers : Stays(g) \/ \E where : Moves(g, where)
  <2>1. \A g \in Fibers : g # c => Stays(g)
    BY <1>1, <1>2, <1>3, <1>4 DEF Stays, Below
  <2>2. Moves(c, "join")
    BY <1>1, <1>2, <1>4 DEF Moves, Below, WaitsNowhere
  <2> QED BY <2>1, <2>2
<1>6. Apart' /\ Statuses'
  BY <1>5, PlacesKept DEF PlaceInv
<1>7. IoReaders' /\ WaitReaders' /\ Distinct(runnable)'
  BY <1>3 DEF PlaceInv, IoReaders, WaitReaders
<1>8. CandidatesFresh'
  BY <1>1, <1>4 DEF PlaceInv, CandidatesFresh, Below
<1>9. Teardown'
  BY <1>1, TeardownKept DEF Below
<1> QED BY <1>2, <1>6, <1>7, <1>8, <1>9 DEF PlaceInv

\* handle-select, where no candidate has ended.
LEMMA SelectWaits ==
    ASSUME SchedInv, PlaceInv, NEW c \in Fibers, NEW S, NEW op, Requests(c, op),
           selectSets' = Put(selectSets, c, S), stack' = Tail(stack),
           UNCHANGED <<runnable, pending, fiberIo, fiberPark, parkQueues, fiberJoin, waiters, loop>>
    PROVE  PlaceInv'
<1>1. /\ WaitsNowhere(c) /\ st'[c] = "paused" /\ \A g \in Fibers : g # c => st'[g] = st[g]
      /\ \A g \in Fibers : st'[g] # "alive"
      /\ Below(c) /\ c \notin OwnersOf(Tail(stack)) /\ StackSound(Tail(stack), st', loop)
  BY Suspends
<1>2. Frames' /\ Raised(stack') = {}
  BY <1>1, FramesPop DEF Below
<1>3. DOMAIN selectSets' = DOMAIN selectSets \cup {c}
  BY DEF Put
<1>4. InPark' = InPark
  BY DEF InPark, Within
<1>5. \A g \in Fibers : Stays(g) \/ \E where : Moves(g, where)
  <2>1. \A g \in Fibers : g # c => Stays(g)
    BY <1>1, <1>2, <1>3, <1>4 DEF Stays, Below
  <2>2. Moves(c, "select")
    BY <1>1, <1>2, <1>4 DEF Moves, Below, WaitsNowhere
  <2> QED BY <2>1, <2>2
<1>6. Apart' /\ Statuses'
  BY <1>5, PlacesKept DEF PlaceInv
<1>7. IoReaders' /\ WaitReaders' /\ Distinct(runnable)'
  BY DEF PlaceInv, IoReaders, WaitReaders
<1>8. CandidatesFresh'
  BY <1>1, <1>4 DEF PlaceInv, CandidatesFresh, Below
<1>9. Teardown'
  BY <1>1, TeardownKept DEF Below
<1> QED BY <1>2, <1>6, <1>7, <1>8, <1>9 DEF PlaceInv

\* A fiber that has ended is held by nobody, and the copy knows how it ended.
LEMMA EndedPlace ==
    ASSUME SchedInv, PlaceInv, NEW t \in Fibers, Terminated(st[t])
    PROVE  /\ t \notin OwnersOf(stack) /\ t \notin Doomed(stack)
           /\ \A p \in Copied(stack) : p[2] = t => st[t] \in Over
<1>1. t \notin OwnersOf(stack)
  BY OwnersLive DEF PlaceInv, Terminated, Failed, IsDead
<1>2. t \notin Doomed(stack)
  BY DEF PlaceInv, Statuses, Terminated, Failed, IsDead
<1>3. \A p \in Copied(stack) : p[2] = t => st[t] \in Over
  BY CopiedFibers DEF Terminated, Failed, IsDead
<1> QED BY <1>1, <1>2, <1>3

\* A handler that finds its target finished answers the caller, and completes
\* the target first where nobody had noticed.
LEMMA FoundPlaces ==
    ASSUME SchedInv, PlaceInv, NEW c \in Fibers, NEW t \in Fibers, NEW op, Requests(c, op),
           FoundFinished(t, <<Resume(c)>> \o Tail(stack)), UNCHANGED loop
    PROVE  PlaceInv'
<1> DEFINE rest == <<Resume(c)>> \o Tail(stack)
<1>1. CASE stack' = rest /\ UNCHANGED <<runnable, ioVars, waitVars, completed>>
  BY <1>1, AnsweredPlaces DEF ioVars
<1>2. CASE Unnoticed(t) /\ CompleteFiber(t, Verdict(st[t]), runnable, rest)
  <2>1. /\ Below(c) /\ c \notin OwnersOf(Tail(stack)) /\ c \in OwnersOf(stack)
        /\ st[c] = "alive" /\ st'[c] = "paused" /\ StackSound(Tail(stack), st', loop)
        /\ \A g \in Fibers : g # c => st'[g] = st[g]
        /\ \A g \in Fibers : st'[g] # "alive"
    BY Suspends
  <2>2. Terminated(st[t]) /\ t # c
    BY <1>2, <2>1 DEF Unnoticed, Terminated, Failed, IsDead
  <2>3. /\ t \notin OwnersOf(stack) /\ t \notin Doomed(stack)
        /\ \A p \in Copied(stack) : p[2] = t => st[t] \in Over
    BY <2>2, EndedPlace
  <2>4. StackSound(rest, st', loop) /\ Extends(rest, Tail(stack), {c}, {}) /\ Deep(rest)
    BY <2>1, PushResume DEF Below
  <2> HIDE DEF rest
  <2>5. IoReaders' /\ IoWithout(t) /\ BeginComplete(t, Verdict(st[t]), runnable, rest)
    BY <1>2, IoGone DEF CompleteFiber, SchedInv, PlaceInv
  <2>6. runnable \in Seq(Fibers) /\ Distinct(runnable)
    BY DEF SchedInv, CoreOK, PlaceInv
  <2>7. /\ OwnersOf(rest) \subseteq OwnersOf(stack) /\ t \notin OwnersOf(rest)
        /\ Doomed(rest) = Doomed(stack) /\ Copied(rest) = Copied(stack)
        /\ Candidates(rest) = Candidates(stack)
    BY <2>1, <2>3, <2>4 DEF Extends, Below
  <2>8. Terminated(st'[t]) /\ \A p \in Copied(stack) : p[2] = t => st'[t] \in Over
    BY <2>1, <2>2, <2>3
  <2>9. \A g \in Fibers : g = t \/ st'[g] = st[g] \/ (st[g] = "alive" /\ st'[g] = "paused")
    BY <2>1
  <2> QED BY <2>1, <2>3, <2>4, <2>5, <2>6, <2>7, <2>8, <2>9, CompletePlaces
<1> QED BY <1>1, <1>2 DEF FoundFinished

\* handle-join
LEMMA HandleJoinPlaces ==
    ASSUME SchedInv, PlaceInv, NEW c \in Fibers, NEW t \in Fibers, HandleJoin(c, t)
    PROVE  PlaceInv'
<1>1. Requests(c, "join") /\ UNCHANGED loop
  BY DEF HandleJoin, loopVars
<1>2. CASE FoundFinished(t, <<Resume(c)>> \o Tail(stack))
  BY <1>1, <1>2, FoundPlaces
<1>3. CASE /\ waiters' = Put(waiters, t, Append(Array(waiters, t), c))
           /\ fiberJoin' = Put(fiberJoin, c, t) /\ stack' = Tail(stack)
           /\ UNCHANGED <<runnable, ioVars, fiberPark, parkQueues, selectSets>>
  BY <1>1, <1>3, JoinWaits DEF ioVars
<1> QED BY <1>2, <1>3 DEF HandleJoin

\* handle-select
LEMMA HandleSelectPlaces ==
    ASSUME SchedInv, PlaceInv, NEW c \in Fibers, NEW S \in SUBSET Fibers, HandleSelect(c, S)
    PROVE  PlaceInv'
<1>1. Requests(c, "select") /\ UNCHANGED loop
  BY DEF HandleSelect, loopVars
<1>2. CASE \E d \in S : FoundFinished(d, <<Resume(c)>> \o Tail(stack))
  BY <1>1, <1>2, FoundPlaces
<1>3. CASE /\ selectSets' = Put(selectSets, c, S) /\ stack' = Tail(stack)
           /\ UNCHANGED <<runnable, ioVars, fiberPark, parkQueues, fiberJoin, waiters>>
  BY <1>1, <1>3, SelectWaits DEF ioVars
<1> QED BY <1>2, <1>3 DEF HandleSelect

\* A fiber ends, and complete-fiber starts.
LEMMA EndPlaces ==
    ASSUME SchedInv, PlaceInv, NEW f \in Fibers, Top("run"), Head(stack).fiber = f,
           NEW s, Terminated(s), st' = [st EXCEPT ![f] = s], NEW status,
           CompleteFiber(f, status, runnable, Tail(stack)), UNCHANGED loop
    PROVE  PlaceInv'
<1>1. /\ st[f] = "alive" /\ WaitsNowhere(f) /\ Below(f)
      /\ \A g \in Fibers : st[g] = "alive" => g = f
  BY RunnerPlace
<1>2. st'[f] = s /\ \A g \in Fibers : g # f => st'[g] = st[g]
  BY DEF SchedInv, CoreOK
<1>3. f \notin OwnersOf(Tail(stack)) /\ Deep(Tail(stack))
  BY <1>1 DEF Below
<1>4. StackSound(Tail(stack), st', loop)
  <2>1. StackSound(Tail(stack), st, loop) /\ \A fr \in Range(Tail(stack)) : fr.at # "raise"
    BY <1>1 DEF Below, Deep
  <2>2. \A g \in Fibers : \/ st'[g] = st[g]
                          \/ g \notin OwnersOf(Tail(stack)) /\ Terminated(st'[g])
    BY <1>2, <1>3
  <2> QED BY <2>1, <2>2, StatusKept
<1>5. IoReaders' /\ IoWithout(f) /\ BeginComplete(f, status, runnable, Tail(stack))
  BY IoGone DEF CompleteFiber, SchedInv, PlaceInv
<1>6. runnable \in Seq(Fibers) /\ Distinct(runnable)
  BY DEF SchedInv, CoreOK, PlaceInv
<1>7. /\ OwnersOf(Tail(stack)) \subseteq OwnersOf(stack)
      /\ Doomed(Tail(stack)) \subseteq Doomed(stack) /\ f \notin Doomed(Tail(stack))
      /\ Copied(Tail(stack)) = Copied(stack) /\ Candidates(Tail(stack)) \subseteq Candidates(stack)
  BY <1>1 DEF Below, WaitsNowhere
<1>8. /\ Terminated(st'[f]) /\ \A p \in Copied(stack) : p[2] = f => st'[f] \in Over
      /\ \A g \in Fibers : g = f \/ st'[g] = st[g]
      /\ \A g \in Fibers : st'[g] # "alive"
  BY <1>1, <1>2 DEF WaitsNowhere, Terminated, Failed, IsDead
<1> QED BY <1>3, <1>4, <1>5, <1>6, <1>7, <1>8, CompletePlaces

\* The fiber returns or fails.
LEMMA FiberEndPlaces ==
    ASSUME SchedInv, PlaceInv, NEW f \in Fibers, FiberReturn(f) \/ FiberError(f)
    PROVE  PlaceInv'
<1>1. CASE FiberReturn(f)
  <2>1. Terminated("dead")
    BY DEF Terminated, IsDead
  <2> QED BY <1>1, <2>1, EndPlaces DEF FiberReturn, Running, loopVars
<1>2. CASE FiberError(f)
  <2>1. Terminated(AfterError(Head(stack).how))
    BY DEF Terminated, Failed, AfterError
  <2> QED BY <1>2, <2>1, EndPlaces DEF FiberError, loopVars
<1> QED BY <1>1, <1>2

\* Before the teardown nobody is doomed and nothing is copied.
LEMMA ServingHolds ==
    ASSUME Frames, Serving PROVE Doomed(stack) = {} /\ Copied(stack) = {}
<1>1. ASSUME NEW fr \in Range(stack) PROVE DoomedBy(fr) = {} /\ CopiedBy(fr) = {}
  <2>1. FrameSound(fr, st, loop)
    BY DEF Frames, StackSound
  <2>2. fr.at \notin {"abortIo", "abortParked"}
    BY <2>1 DEF FrameSound, Serving
  <2> QED BY <2>2 DEF DoomedBy, CopiedBy
<1> QED BY <1>1 DEF Doomed, Copied

\* A careful abort takes the target out of whatever it waits for and raises in it.
LEMMA HandleAbortPlaces ==
    ASSUME SchedInv, PlaceInv, Careful, NEW c \in Fibers, NEW t \in Spawned, HandleAbort(c, t)
    PROVE  PlaceInv'
<1>0. t \in Fibers /\ st[t] # "none"
  BY DEF Spawned
<1>1. Requests(c, "abort") /\ UNCHANGED loop
  BY DEF HandleAbort, loopVars
<1>2. CASE FoundFinished(t, <<Resume(c)>> \o Tail(stack))
  BY <1>0, <1>1, <1>2, FoundPlaces
<1>3. CASE /\ ~Recorded(t) /\ ~Unnoticed(t) /\ CancelIo(t) /\ LeaveWaits(t)
           /\ stack' = <<Raise(t, FALSE), Resume(c)>> \o Tail(stack) /\ UNCHANGED runnable
  <2>1. t # c /\ ~Busy(t) /\ (st[t] = "new" \/ t \notin Range(runnable)) /\ Serving
    BY DEF HandleAbort, MayAbort, Careful
  <2>2. /\ Below(c) /\ c \notin OwnersOf(Tail(stack)) /\ c \in OwnersOf(stack) /\ WaitsNowhere(c)
        /\ st[c] = "alive" /\ st'[c] = "paused" /\ StackSound(Tail(stack), st', loop)
        /\ \A g \in Fibers : g # c => st'[g] = st[g]
        /\ \A g \in Fibers : st'[g] # "alive"
    BY <1>1, Suspends
  <2>3. st'[t] = st[t] /\ st[t] \in {"new", "paused"}
    <3>1. st[t] \in Status /\ ~Terminated(st[t])
      BY <1>0, <1>3 DEF Recorded, Unnoticed, SchedInv, CoreOK
    <3> QED BY <1>0, <2>1, <2>2, <3>1 DEF Status, Terminated, Failed, IsDead
  <2>4. Doomed(stack) = {} /\ Copied(stack) = {}
    BY <2>1, ServingHolds DEF PlaceInv
  <2>5. t \notin OwnersOf(stack)
    <3>1. stack \in Seq(Frame)
      BY DEF PlaceInv, Frames, StackSound
    <3> QED BY <2>1, <3>1, RangeSeq DEF OwnersOf, Busy
  <2>6. IoReaders' /\ IoWithout(t) /\ WaitReaders' /\ WaitsWithout(t)
    BY <1>3, IoGone, WaitsGone DEF SchedInv, PlaceInv
  <2> DEFINE rest == <<Resume(c)>> \o Tail(stack)
  <2>7. StackSound(rest, st', loop) /\ Extends(rest, Tail(stack), {c}, {}) /\ Deep(rest)
    BY <2>2, PushResume DEF Below
  <2>8. stack' = <<Raise(t, FALSE)>> \o rest
    <3>1. Tail(stack) \in Seq(Frame) /\ Raise(t, FALSE) \in Frame /\ Resume(c) \in Frame
      BY <1>0, <2>2, NewFrames DEF StackSound
    <3> QED BY <1>3, <3>1, PushTwoSplit
  <2> HIDE DEF rest
  <2>9. StackSound(stack', st', loop) /\ Extends(stack', rest, {}, {t})
    BY <1>0, <2>3, <2>7, <2>8, PushRaise
  <2>10. /\ OwnersOf(stack') = OwnersOf(stack) /\ Raised(stack') = {t}
         /\ Doomed(stack') = {} /\ Copied(stack') = {} /\ Candidates(stack') = Candidates(stack)
    BY <2>2, <2>4, <2>7, <2>9 DEF Extends, Below
  <2>11. Frames'
    BY <1>1, <2>7, <2>9 DEF Frames, Extends
  <2>12. \A g \in Fibers : Stays(g) \/ \E where : Moves(g, where)
    <3>1. \A g \in Fibers : g # t /\ g # c => Stays(g)
      BY <1>3, <2>2, <2>6, <2>10 DEF Stays, IoWithout, WaitsWithout
    <3>2. Moves(c, "held")
      BY <1>3, <2>1, <2>2, <2>6, <2>10 DEF Moves, IoWithout, WaitsWithout, WaitsNowhere
    <3>3. CASE t \in Range(runnable)
      <4>1. Moves(t, "condemned")
        BY <1>3, <2>1, <2>3, <2>5, <2>6, <2>10, <3>3 DEF Moves, IoWithout, WaitsWithout
      <4> QED BY <3>1, <3>2, <4>1
    <3>4. CASE t \notin Range(runnable)
      <4>1. Moves(t, "raised")
        BY <1>3, <2>1, <2>3, <2>5, <2>6, <2>10, <3>4 DEF Moves, IoWithout, WaitsWithout
      <4> QED BY <3>1, <3>2, <4>1
    <3> QED BY <3>3, <3>4
  <2>13. Apart' /\ Statuses'
    BY <2>12, PlacesKept DEF PlaceInv
  <2>14. CandidatesFresh'
    BY <2>6, <2>10 DEF PlaceInv, CandidatesFresh, WaitsWithout
  <2>15. Teardown' /\ Distinct(runnable)'
    BY <1>1, <1>3, <2>1, <2>10 DEF PlaceInv, Teardown, Serving
  <2> QED BY <2>6, <2>11, <2>13, <2>14, <2>15 DEF PlaceInv
<1> QED BY <1>2, <1>3 DEF HandleAbort

\* While a fiber runs nothing is raised, so the stack minds only its owners.
LEMMA RunningStack ==
    ASSUME PlaceInv, Top("run"), NEW g \in Fibers, g \notin OwnersOf(stack), NEW s,
           ~Terminated(st[g]) \/ Terminated(s), st' = [st EXCEPT ![g] = s],
           st \in [Fibers -> Status]
    PROVE  StackSound(stack, st', loop)
<1>1. StackSound(stack, st, loop) /\ Deep(Tail(stack)) /\ stack \in Seq(Frame) /\ stack # <<>>
  BY DEF PlaceInv, Frames, StackSound, Top
<1>2. \A fr \in Range(stack) : fr.at # "raise"
  BY <1>1, TailRange DEF Deep, Top
<1>3. \A x \in Fibers : \/ st'[x] = st[x]
                        \/ x \notin OwnersOf(stack) /\ ~Terminated(st[x])
                        \/ x \notin OwnersOf(stack) /\ Terminated(st'[x])
  OBVIOUS
<1> QED BY <1>1, <1>2, <1>3, StatusKept

\* A spawned fiber is new, and in the runnable queue only.
LEMMA SpawnPlaces ==
    ASSUME SchedInv, PlaceInv, NEW f \in Fibers, NEW g \in Fibers, Spawn(f, g)
    PROVE  PlaceInv'
<1>1. /\ Top("run") /\ Head(stack).fiber = f /\ st[g] = "none"
      /\ st' = [st EXCEPT ![g] = "new"] /\ runnable' = Append(runnable, g)
      /\ UNCHANGED <<pending, fiberIo, fiberPark, parkQueues, fiberJoin, waiters, loop, stack>>
  BY DEF Spawn, Running, ioVars, loopVars
<1>2. DOMAIN selectSets' = DOMAIN selectSets
  BY DEF Spawn
<1>3. Raised(stack) = {}
  BY <1>1, RunnerPlace
<1>4. st \in [Fibers -> Status] /\ runnable \in Seq(Fibers)
  BY DEF SchedInv, CoreOK
<1>5. g \notin OwnersOf(stack)
  BY <1>1, OwnersLive DEF PlaceInv
<1>6. WaitsNowhere(g)
  <2>1. \A p \in Copied(stack) : p[2] # g
    BY <1>1, CopiedFibers DEF Over
  <2> QED BY <1>1, <2>1 DEF WaitsNowhere, PlaceInv, Statuses, Over
<1>7. st'[g] = "new" /\ \A x \in Fibers : x # g => st'[x] = st[x]
  BY <1>1, <1>4
<1>8. Frames'
  <2>1. StackSound(stack, st', loop)
    BY <1>1, <1>4, <1>5, RunningStack DEF Terminated, Failed, IsDead
  <2> QED BY <1>1, <2>1 DEF PlaceInv, Frames
<1>9. Range(runnable') = Range(runnable) \cup {g} /\ Distinct(runnable')
  BY <1>1, <1>4, <1>6, AppendRange DEF WaitsNowhere, PlaceInv
<1>10. InPark' = InPark
  BY <1>1 DEF InPark, Within
<1>11. \A x \in Fibers : Stays(x) \/ \E where : Moves(x, where)
  <2>1. \A x \in Fibers : x # g => Stays(x)
    BY <1>1, <1>2, <1>7, <1>9, <1>10 DEF Stays, PlaceInv, Statuses
  <2>2. Moves(g, "queue")
    BY <1>1, <1>2, <1>3, <1>5, <1>6, <1>7, <1>10 DEF Moves, WaitsNowhere
  <2> QED BY <2>1, <2>2
<1>12. Apart' /\ Statuses'
  BY <1>11, PlacesKept DEF PlaceInv
<1>13. IoReaders' /\ WaitReaders'
  BY <1>1 DEF PlaceInv, IoReaders, WaitReaders
<1>14. CandidatesFresh'
  BY <1>1, <1>10 DEF PlaceInv, CandidatesFresh
<1>15. Teardown'
  BY <1>1, <1>6, <1>7, <1>9, TeardownKept
<1> QED BY <1>8, <1>9, <1>12, <1>13, <1>14, <1>15 DEF PlaceInv

\* A careful program ends a fiber only where the loop will find out: in the
\* runnable queue or in an operation, and before the teardown.
LEMMA KillFiberPlaces ==
    ASSUME SchedInv, PlaceInv, Careful, NEW f \in Fibers, NEW g \in Fibers, KillFiber(f, g)
    PROVE  PlaceInv'
<1>1. /\ Top("run") /\ Head(stack).fiber = f /\ st[g] \in {"new", "paused"} /\ Serving
      /\ g \in DOMAIN fiberIo \cup Range(runnable)
      /\ UNCHANGED <<runnable, pending, fiberIo, waitVars, loop, stack>>
  BY DEF KillFiber, Running, ioVars, loopVars, Careful
<1>2. PICK s \in Over : st' = [st EXCEPT ![g] = s]
  BY DEF KillFiber, Over
<1>3. Raised(stack) = {}
  BY <1>1, RunnerPlace
<1>4. st \in [Fibers -> Status]
  BY DEF SchedInv, CoreOK
<1>5. g \notin OwnersOf(stack)
  BY <1>1 DEF PlaceInv, Apart
<1>6. st'[g] \in Over /\ \A x \in Fibers : x # g => st'[x] = st[x]
  BY <1>2, <1>4
<1>7. Frames'
  <2>1. ~Terminated(st[g])
    BY <1>1 DEF Terminated, Failed, IsDead
  <2>2. StackSound(stack, st', loop)
    BY <1>1, <1>2, <1>4, <1>5, <2>1, RunningStack
  <2> QED BY <1>1, <2>2 DEF PlaceInv, Frames
<1>8. InPark' = InPark
  BY <1>1 DEF InPark, Within, waitVars
<1>9. Doomed(stack) = {} /\ Copied(stack) = {}
  BY <1>1, ServingHolds DEF PlaceInv
<1>10. \A x \in Fibers : Stays(x) \/ \E where : Moves(x, where)
  <2>1. \A x \in Fibers : x # g => Stays(x)
    BY <1>1, <1>6, <1>8 DEF Stays, PlaceInv, Statuses, waitVars
  <2>2. CASE g \in Range(runnable)
    <3>1. Moves(g, "queue")
      BY <1>1, <1>3, <1>6, <1>8, <2>2 DEF Moves, PlaceInv, Apart, Over, waitVars
    <3> QED BY <2>1, <3>1
  <2>3. CASE g \in DOMAIN fiberIo
    <3>1. Moves(g, "io")
      BY <1>1, <1>3, <1>6, <1>8, <2>3 DEF Moves, PlaceInv, Apart, Over, waitVars
    <3> QED BY <2>1, <3>1
  <2> QED BY <1>1, <2>2, <2>3
<1>11. Apart' /\ Statuses'
  BY <1>10, PlacesKept DEF PlaceInv
<1>12. IoReaders' /\ WaitReaders' /\ Distinct(runnable)'
  BY <1>1 DEF PlaceInv, IoReaders, WaitReaders, waitVars
<1>13. CandidatesFresh'
  BY <1>1, <1>8 DEF PlaceInv, CandidatesFresh, waitVars
<1>14. Teardown'
  BY <1>1, <1>9 DEF Teardown, Serving
<1> QED BY <1>7, <1>11, <1>12, <1>13, <1>14 DEF PlaceInv

-----------------------------------------------------------------------------
(* One lemma for each step of a function in progress.                      *)

\* A function of :pump is called, or goes on, with nothing under it.
LEMMA PushBase ==
    ASSUME NEW status, NEW lp
    PROVE  /\ \A B \in SUBSET Ids, K \in SUBSET Keys : lp \in {"drain", "wait", "after"} =>
                /\ StackSound(<<Completions(B, K)>> \o <<>>, status, lp)
                /\ Carries(<<Completions(B, K)>> \o <<>>, <<>>, {}, {}, {}, {})
           /\ \A P \in SUBSET (Ids \X Fibers) : lp \notin {"drain", "wait", "after"} =>
                /\ StackSound(<<AbortIo(P)>> \o <<>>, status, lp)
                /\ Carries(<<AbortIo(P)>> \o <<>>, <<>>, {}, {}, P, {})
           /\ \A S \in SUBSET Fibers : lp \notin {"drain", "wait", "after"} =>
                /\ StackSound(<<AbortParked(S)>> \o <<>>, status, lp)
                /\ Carries(<<AbortParked(S)>> \o <<>>, <<>>, {}, S, {}, {})
           /\ \A B \in SUBSET Ids : lp \notin {"drain", "wait", "after"} =>
                /\ StackSound(<<Unwinding(B)>> \o <<>>, status, lp)
                /\ Carries(<<Unwinding(B)>> \o <<>>, <<>>, {}, {}, {}, {})
<1>0. StackSound(<<>>, status, lp) /\ OwnersOf(<<>>) = {}
  BY EmptyStack
<1>1. ASSUME NEW fr \in Frame, fr.at \in Base, FrameSound(fr, status, lp)
      PROVE  /\ StackSound(<<fr>> \o <<>>, status, lp)
             /\ Carries(<<fr>> \o <<>>, <<>>, {}, DoomedBy(fr), CopiedBy(fr), {})
  <2>1. Owner(fr) = None /\ CandidatesOf(fr) = {} /\ fr.at \notin {"run", "raise"}
    BY <1>1 DEF Base, Owner, CandidatesOf
  <2>2. /\ StackSound(<<fr>> \o <<>>, status, lp)
        /\ Carries(<<fr>> \o <<>>, <<>>, {Owner(fr)} \ {None}, DoomedBy(fr), CopiedBy(fr), CandidatesOf(fr))
    BY <1>0, <1>1, <2>1, PushCarry
  <2>3. {Owner(fr)} \ {None} = {}
    BY <2>1
  <2> QED BY <2>1, <2>2, <2>3
<1>2. ASSUME NEW B \in SUBSET Ids, NEW K \in SUBSET Keys, lp \in {"drain", "wait", "after"}
      PROVE  /\ StackSound(<<Completions(B, K)>> \o <<>>, status, lp)
             /\ Carries(<<Completions(B, K)>> \o <<>>, <<>>, {}, {}, {}, {})
  <2> DEFINE fr == Completions(B, K)
  <2>1. fr \in Frame /\ fr.at = "completions"
    BY NewFrames DEF Completions
  <2> HIDE DEF fr
  <2>2. fr.at \in Base /\ DoomedBy(fr) = {} /\ CopiedBy(fr) = {} /\ FrameSound(fr, status, lp)
    BY <1>2, <2>1 DEF Base, DoomedBy, CopiedBy, FrameSound
  <2>3. StackSound(<<fr>> \o <<>>, status, lp) /\ Carries(<<fr>> \o <<>>, <<>>, {}, {}, {}, {})
    BY <1>1, <2>1, <2>2
  <2> QED BY <2>3 DEF fr
<1>3. ASSUME NEW P \in SUBSET (Ids \X Fibers), lp \notin {"drain", "wait", "after"}
      PROVE  /\ StackSound(<<AbortIo(P)>> \o <<>>, status, lp)
             /\ Carries(<<AbortIo(P)>> \o <<>>, <<>>, {}, {}, P, {})
  <2> DEFINE fr == AbortIo(P)
  <2>1. fr \in Frame /\ fr.at = "abortIo" /\ fr.copy = P
    BY DEF AbortIo, Frame
  <2> HIDE DEF fr
  <2>2. fr.at \in Base /\ DoomedBy(fr) = {} /\ CopiedBy(fr) = P /\ FrameSound(fr, status, lp)
    BY <1>3, <2>1 DEF Base, DoomedBy, CopiedBy, FrameSound
  <2>3. StackSound(<<fr>> \o <<>>, status, lp) /\ Carries(<<fr>> \o <<>>, <<>>, {}, {}, P, {})
    BY <1>1, <2>1, <2>2
  <2> QED BY <2>3 DEF fr
<1>4. ASSUME NEW S \in SUBSET Fibers, lp \notin {"drain", "wait", "after"}
      PROVE  /\ StackSound(<<AbortParked(S)>> \o <<>>, status, lp)
             /\ Carries(<<AbortParked(S)>> \o <<>>, <<>>, {}, S, {}, {})
  <2> DEFINE fr == AbortParked(S)
  <2>1. fr \in Frame /\ fr.at = "abortParked" /\ fr.todo = S
    BY NewFrames DEF AbortParked
  <2> HIDE DEF fr
  <2>2. fr.at \in Base /\ DoomedBy(fr) = S /\ CopiedBy(fr) = {} /\ FrameSound(fr, status, lp)
    BY <1>4, <2>1 DEF Base, DoomedBy, CopiedBy, FrameSound
  <2>3. StackSound(<<fr>> \o <<>>, status, lp) /\ Carries(<<fr>> \o <<>>, <<>>, {}, S, {}, {})
    BY <1>1, <2>1, <2>2
  <2> QED BY <2>3 DEF fr
<1>5. ASSUME NEW B \in SUBSET Ids, lp \notin {"drain", "wait", "after"}
      PROVE  /\ StackSound(<<Unwinding(B)>> \o <<>>, status, lp)
             /\ Carries(<<Unwinding(B)>> \o <<>>, <<>>, {}, {}, {}, {})
  <2> DEFINE fr == Unwinding(B)
  <2>1. fr \in Frame /\ fr.at = "unwinding"
    BY NewFrames DEF Unwinding
  <2> HIDE DEF fr
  <2>2. fr.at \in Base /\ DoomedBy(fr) = {} /\ CopiedBy(fr) = {} /\ FrameSound(fr, status, lp)
    BY <1>5, <2>1 DEF Base, DoomedBy, CopiedBy, FrameSound
  <2>3. StackSound(<<fr>> \o <<>>, status, lp) /\ Carries(<<fr>> \o <<>>, <<>>, {}, {}, {}, {})
    BY <1>1, <2>1, <2>2
  <2> QED BY <2>3 DEF fr
<1> QED BY <1>2, <1>3, <1>4, <1>5

\* A handler takes the fibers T out of where they wait, and resumes or raises in
\* them; everybody else is left alone.
LEMMA HandlerTo ==
    ASSUME SchedInv, PlaceInv, UNCHANGED <<st, runnable, loop>>, IoReaders', WaitReaders',
           NEW T \in SUBSET Fibers,
           DOMAIN fiberIo' \subseteq DOMAIN fiberIo,
           \A g \in DOMAIN fiberIo' : fiberIo'[g] = fiberIo[g],
           \A id \in DOMAIN pending :
              pending[id] \notin T => id \in DOMAIN pending' /\ pending'[id] = pending[id],
           InPark' \subseteq InPark, DOMAIN fiberPark' \subseteq DOMAIN fiberPark,
           \A g \in InPark : g \in DOMAIN fiberPark' => g \in InPark',
           DOMAIN fiberJoin' \subseteq DOMAIN fiberJoin, DOMAIN selectSets' \subseteq DOMAIN selectSets,
           StackSound(stack', st, loop), stack' # <<>> => Deep(Tail(stack')),
           OwnersOf(stack) \subseteq OwnersOf(stack'), OwnersOf(stack') \subseteq OwnersOf(stack) \cup T,
           Raised(stack') \subseteq T, T \cap OwnersOf(stack') \cap Raised(stack') = {},
           Doomed(stack') \subseteq Doomed(stack), Candidates(stack') \subseteq Candidates(stack) \cup InPark',
           Copied(stack') \subseteq Copied(stack),
           \A p \in Copied(stack) : p \in Copied(stack') \/ p[2] \in T,
           \A p \in Copied(stack') : p[2] \in T => st[p[2]] \in Over,
           \A w \in T : /\ w \notin Range(runnable) /\ w \notin DOMAIN fiberIo' /\ w \notin InPark'
                        /\ w \notin DOMAIN fiberJoin' /\ w \notin DOMAIN selectSets'
                        /\ w \notin Doomed(stack') /\ st[w] \in {"new", "paused"} \cup Over
    PROVE  PlaceInv'
<1>1. \A g \in Fibers : Stays(g) \/ \E where : Moves(g, where)
  <2>1. \A g \in Fibers : g \notin T => Stays(g)
    BY DEF Stays, PlaceInv, Statuses
  <2>2. \A g \in T : Moves(g, "held") \/ Moves(g, "raised")
    BY DEF Moves, Over
  <2> QED BY <2>1, <2>2
<1>2. Apart' /\ Statuses'
  BY <1>1, PlacesKept DEF PlaceInv
<1>3. Frames' /\ Distinct(runnable)'
  BY DEF Frames, PlaceInv
<1>4. CandidatesFresh'
  BY DEF PlaceInv, CandidatesFresh
<1>5. Teardown'
  <2>1. ASSUME ~Serving', NEW g \in DOMAIN fiberIo'
        PROVE  st'[g] = "paused" \/ <<fiberIo'[g], g>> \in Copied(stack')
    <3>1. ~Serving /\ g \in DOMAIN fiberIo /\ g \notin T
      BY <2>1 DEF Serving
    <3>2. st[g] = "paused" \/ <<fiberIo[g], g>> \in Copied(stack)
      BY <3>1 DEF PlaceInv, Teardown
    <3> QED BY <3>1, <3>2
  <2>2. ASSUME NEW p \in Copied(stack')
        PROVE  /\ (p[1] \in DOMAIN pending' /\ pending'[p[1]] = p[2]) \/ st'[p[2]] \in Over
               /\ p[2] \notin Range(runnable')
    BY DEF PlaceInv, Teardown
  <2>3. \A p, q \in Copied(stack') : p[2] = q[2] => p = q
    BY DEF PlaceInv, Teardown
  <2> QED BY <2>1, <2>2, <2>3 DEF Teardown
<1> QED BY <1>2, <1>3, <1>4, <1>5 DEF PlaceInv

\* A function in progress goes on, and takes nobody up.
LEMMA GoesOn ==
    ASSUME SchedInv, PlaceInv, UNCHANGED <<st, runnable, pending, fiberIo, fiberPark, parkQueues, loop>>,
           WaitReaders', DOMAIN fiberJoin' \subseteq DOMAIN fiberJoin,
           DOMAIN selectSets' \subseteq DOMAIN selectSets,
           StackSound(stack', st, loop), stack' # <<>> => Deep(Tail(stack')),
           OwnersOf(stack') = OwnersOf(stack), Raised(stack') = {},
           Doomed(stack') = Doomed(stack), Copied(stack') = Copied(stack),
           Candidates(stack') \subseteq Candidates(stack) \cup InPark
    PROVE  PlaceInv'
<1>1. IoReaders'
  BY DEF PlaceInv, IoReaders
<1>2. InPark' = InPark
  BY DEF InPark, Within
<1>3. Candidates(stack') \subseteq Candidates(stack) \cup InPark'
  BY <1>2
<1> QED BY <1>1, <1>2, <1>3, HandlerTo

\* A handler that takes one fiber out of a wait and resumes it.
LEMMA TakesUp ==
    ASSUME SchedInv, PlaceInv, UNCHANGED <<st, runnable, pending, fiberIo, loop>>, WaitReaders',
           NEW w \in Fibers, w \notin OwnersOf(stack), st[w] = "paused",
           w \notin Range(runnable), w \notin DOMAIN fiberIo, w \notin InPark',
           w \notin DOMAIN fiberJoin', w \notin DOMAIN selectSets', w \notin Doomed(stack),
           InPark \ {w} \subseteq InPark', InPark' \subseteq InPark,
           DOMAIN fiberPark' \subseteq DOMAIN fiberPark, w \in InPark => w \notin DOMAIN fiberPark',
           DOMAIN fiberJoin' \subseteq DOMAIN fiberJoin, DOMAIN selectSets' \subseteq DOMAIN selectSets,
           NEW rest, StackSound(rest, st, loop), Deep(rest), stack' = <<Resume(w)>> \o rest,
           OwnersOf(rest) = OwnersOf(stack), Doomed(rest) = Doomed(stack), Copied(rest) = Copied(stack),
           Candidates(rest) \subseteq Candidates(stack)
    PROVE  PlaceInv'
<1>1. StackSound(stack', st, loop) /\ Extends(stack', rest, {w}, {})
  BY PushResume
<1>2. IoReaders'
  BY DEF PlaceInv, IoReaders
<1>3. \A p \in Copied(stack) : p[2] # w
  BY CopiedFibers DEF Over
<1>4. /\ stack' # <<>> /\ Tail(stack') = rest /\ OwnersOf(stack') = OwnersOf(stack) \cup {w}
      /\ Raised(stack') = {} /\ Doomed(stack') = Doomed(stack) /\ Copied(stack') = Copied(stack)
      /\ Candidates(stack') \subseteq Candidates(stack)
  BY <1>1 DEF Extends
<1> DEFINE T == {w}
<1>5. /\ T \in SUBSET Fibers /\ OwnersOf(stack) \subseteq OwnersOf(stack')
      /\ OwnersOf(stack') \subseteq OwnersOf(stack) \cup T
      /\ Raised(stack') \subseteq T /\ T \cap OwnersOf(stack') \cap Raised(stack') = {}
      /\ Doomed(stack') \subseteq Doomed(stack) /\ Candidates(stack') \subseteq Candidates(stack) \cup InPark'
      /\ Copied(stack') \subseteq Copied(stack)
      /\ \A p \in Copied(stack) : p \in Copied(stack') \/ p[2] \in T
      /\ \A p \in Copied(stack') : p[2] \in T => st[p[2]] \in Over
      /\ \A g \in InPark : g \in DOMAIN fiberPark' => g \in InPark'
      /\ \A x \in T : /\ x \notin Range(runnable) /\ x \notin DOMAIN fiberIo' /\ x \notin InPark'
                      /\ x \notin DOMAIN fiberJoin' /\ x \notin DOMAIN selectSets'
                      /\ x \notin Doomed(stack') /\ st[x] \in {"new", "paused"} \cup Over
  BY <1>3, <1>4
<1> HIDE DEF T
<1> QED BY <1>1, <1>2, <1>4, <1>5, HandlerTo

\* complete-fiber answers the first of the waiters, or goes on to the selectors.
LEMMA CompleteJoinsPlaces ==
    ASSUME SchedInv, PlaceInv, CompleteJoins PROVE PlaceInv'
<1> DEFINE f == Head(stack).target
<1>1. /\ stack # <<>> /\ Head(stack).at = "joins"
      /\ UNCHANGED <<st, runnable, pending, fiberIo, fiberPark, parkQueues, selectSets, loop>>
  BY DEF CompleteJoins, Top, fiberVars, ioVars, loopVars
<1>2. /\ StackSound(stack, st, loop) /\ stack \in Seq(Frame) /\ Deep(Tail(stack))
  BY <1>1 DEF PlaceInv, Frames, StackSound
<1>3. Head(stack) \in Frame /\ FrameSound(Head(stack), st, loop)
  BY <1>1, <1>2, PopStack
<1>4. f \in Fibers /\ Terminated(st[f])
  BY <1>1, <1>3, FrameFields DEF FrameSound
<1>5. Below(None) /\ None \notin OwnersOf(stack)
  BY <1>1, BelowTop DEF Owner, OwnersOf
<1>6. Deep(stack)
  BY <1>1, <1>2, TailRange DEF Deep
<1>7. InPark' = InPark
  BY <1>1 DEF InPark, Within
<1> HIDE DEF f
<1>8. CASE f \in DOMAIN waiters /\ waiters[f] # <<>>
  <2> DEFINE w == Head(waiters[f])
  <2>1. /\ waiters' = Put(waiters, f, Tail(waiters[f])) /\ fiberJoin' = Del(fiberJoin, w)
        /\ stack' = <<Resume(w)>> \o stack
    BY <1>8 DEF CompleteJoins, f
  <2>2. waiters[f] \in Seq(Fibers) /\ Distinct(waiters[f])
    BY <1>8 DEF SchedInv, WaitPart, IsTable, PlaceInv, WaitReaders, AllDistinct
  <2>3. /\ w \in Fibers /\ Range(waiters[f]) = {w} \cup Range(Tail(waiters[f]))
        /\ Distinct(Tail(waiters[f])) /\ w \notin Range(Tail(waiters[f]))
    BY <1>8, <2>2, TailRange
  <2> HIDE DEF w
  <2>4. w \in DOMAIN fiberJoin /\ fiberJoin[w] = f
    BY <1>8, <2>3 DEF PlaceInv, WaitReaders, Knows
  <2>5. DOMAIN fiberJoin' = DOMAIN fiberJoin \ {w} /\ \A g \in DOMAIN fiberJoin' : fiberJoin'[g] = fiberJoin[g]
    BY <2>1 DEF Del
  <2>6. /\ DOMAIN waiters' = DOMAIN waiters /\ waiters'[f] = Tail(waiters[f])
        /\ \A k \in DOMAIN waiters : k # f => waiters'[k] = waiters[k]
    BY <1>8, <2>1 DEF Put
  <2>7. Knows(fiberJoin', waiters') /\ AllDistinct(waiters')
    <3>1. Knows(fiberJoin, waiters) /\ AllDistinct(waiters)
      BY DEF PlaceInv, WaitReaders
    <3>2. ASSUME NEW k \in DOMAIN waiters', NEW g \in Range(waiters'[k])
          PROVE  g \in DOMAIN fiberJoin' /\ fiberJoin'[g] = k
      BY <2>3, <2>4, <2>5, <2>6, <3>1 DEF Knows
    <3>3. AllDistinct(waiters')
      BY <2>3, <2>6, <3>1 DEF AllDistinct
    <3> QED BY <3>2, <3>3 DEF Knows
  <2>8. WaitReaders'
    BY <1>1, <2>7 DEF WaitReaders, PlaceInv
  <2>9. /\ st[w] = "paused" /\ w \notin OwnersOf(stack) /\ w \notin Range(runnable)
        /\ w \notin DOMAIN fiberIo /\ w \notin InPark /\ w \notin DOMAIN selectSets
        /\ w \notin Doomed(stack)
    BY <2>3, <2>4 DEF PlaceInv, Apart, Statuses
  <2> QED BY <1>1, <1>2, <1>6, <1>7, <2>1, <2>3, <2>5, <2>8, <2>9, TakesUp
<1>9. CASE ~(f \in DOMAIN waiters /\ waiters[f] # <<>>)
  <2>1. /\ waiters' = Del(waiters, f) /\ UNCHANGED fiberJoin
        /\ stack' = <<Selects(f, DOMAIN selectSets)>> \o Tail(stack)
    BY <1>9 DEF CompleteJoins, f
  <2>2. DOMAIN selectSets \in SUBSET Fibers
    BY DEF SchedInv, WaitPart, IsTable
  <2>3. WaitReaders'
    <3>1. Knows(fiberJoin, waiters) /\ AllDistinct(waiters)
      BY DEF PlaceInv, WaitReaders
    <3>2. DOMAIN waiters' = DOMAIN waiters \ {f} /\ \A k \in DOMAIN waiters' : waiters'[k] = waiters[k]
      BY <2>1 DEF Del
    <3>3. Knows(fiberJoin', waiters') /\ AllDistinct(waiters')
      BY <2>1, <3>1, <3>2 DEF Knows, AllDistinct
    <3> QED BY <1>1, <3>3 DEF WaitReaders, PlaceInv
  <2>4. StackSound(stack', st, loop) /\ Extends(stack', Tail(stack), {}, {})
    BY <1>4, <1>5, <2>1, <2>2, PushSelects DEF Below
  <2>5. /\ stack' # <<>> => Deep(Tail(stack'))
        /\ OwnersOf(stack') = OwnersOf(stack) /\ Raised(stack') = {}
        /\ Doomed(stack') = Doomed(stack) /\ Copied(stack') = Copied(stack)
        /\ Candidates(stack') \subseteq Candidates(stack) \cup InPark
    BY <1>5, <2>4 DEF Below, Extends
  <2> QED BY <1>1, <2>1, <2>3, <2>4, <2>5, GoesOn
<1> QED BY <1>8, <1>9

\* wake-select-waiters answers one selector, passes over one, or ends.
LEMMA CompleteSelectsPlaces ==
    ASSUME SchedInv, PlaceInv, CompleteSelects PROVE PlaceInv'
<1> DEFINE f == Head(stack).target
           todo == Head(stack).todo
<1>1. /\ stack # <<>> /\ Head(stack).at = "selects"
      /\ UNCHANGED <<st, runnable, pending, fiberIo, fiberPark, parkQueues, fiberJoin, waiters, loop>>
  BY DEF CompleteSelects, Top, fiberVars, ioVars, loopVars
<1>2. StackSound(stack, st, loop) /\ stack \in Seq(Frame) /\ Deep(Tail(stack))
  BY <1>1 DEF PlaceInv, Frames, StackSound
<1>3. Head(stack) \in Frame /\ FrameSound(Head(stack), st, loop)
  BY <1>1, <1>2, PopStack
<1>4. f \in Fibers /\ Terminated(st[f]) /\ todo \subseteq Fibers
  BY <1>1, <1>3, FrameFields DEF FrameSound
<1>5. Below(None) /\ None \notin OwnersOf(stack)
  BY <1>1, BelowTop DEF Owner, OwnersOf
<1>6. WaitReaders' /\ InPark' = InPark
  BY <1>1 DEF PlaceInv, WaitReaders, InPark, Within
<1> HIDE DEF f, todo
<1>7. CASE \E w \in todo :
             IF Names(w, f)
             THEN /\ selectSets' = Del(selectSets, w)
                  /\ stack' = <<Resume(w), Selects(f, todo \ {w})>> \o Tail(stack)
             ELSE /\ stack' = <<Selects(f, todo \ {w})>> \o Tail(stack)
                  /\ UNCHANGED selectSets
  <2>1. PICK w \in todo :
             IF Names(w, f)
             THEN /\ selectSets' = Del(selectSets, w)
                  /\ stack' = <<Resume(w), Selects(f, todo \ {w})>> \o Tail(stack)
             ELSE /\ stack' = <<Selects(f, todo \ {w})>> \o Tail(stack)
                  /\ UNCHANGED selectSets
    BY <1>7
  <2> DEFINE rest == <<Selects(f, todo \ {w})>> \o Tail(stack)
  <2>2. StackSound(rest, st, loop) /\ Extends(rest, Tail(stack), {}, {}) /\ Deep(rest)
    BY <1>4, <1>5, PushSelects DEF Below
  <2>3. /\ rest # <<>> => Deep(Tail(rest))
        /\ OwnersOf(rest) = OwnersOf(stack) /\ Raised(rest) = {}
        /\ Doomed(rest) = Doomed(stack) /\ Copied(rest) = Copied(stack)
        /\ Candidates(rest) = Candidates(stack)
    BY <1>5, <2>2 DEF Below, Extends
  <2>4. CASE Names(w, f)
    <3>1. w \in Fibers /\ w \in DOMAIN selectSets
      BY <1>4, <2>4 DEF Names
    <3>2. stack' = <<Resume(w)>> \o rest /\ selectSets' = Del(selectSets, w)
      <4>1. Tail(stack) \in Seq(Frame) /\ Resume(w) \in Frame /\ Selects(f, todo \ {w}) \in Frame
        BY <1>4, <1>5, <3>1, NewFrames DEF Below, StackSound
      <4> QED BY <2>1, <2>4, <4>1, PushTwoSplit
    <3>3. DOMAIN selectSets' = DOMAIN selectSets \ {w}
      BY <3>2 DEF Del
    <3>4. /\ st[w] = "paused" /\ w \notin OwnersOf(stack) /\ w \notin Range(runnable)
          /\ w \notin DOMAIN fiberIo /\ w \notin InPark /\ w \notin DOMAIN fiberJoin
          /\ w \notin Doomed(stack)
      BY <3>1 DEF PlaceInv, Apart, Statuses
    <3> HIDE DEF rest
    <3> QED BY <1>1, <1>6, <2>2, <2>3, <3>1, <3>2, <3>3, <3>4, TakesUp
  <2>5. CASE ~Names(w, f)
    <3>1. stack' = rest /\ UNCHANGED selectSets
      BY <2>1, <2>5
    <3> HIDE DEF rest
    <3> QED BY <1>1, <1>6, <2>2, <2>3, <3>1, GoesOn
  <2> QED BY <2>4, <2>5
<1>8. CASE stack' = Tail(stack) /\ UNCHANGED selectSets
  <2>1. StackSound(stack', st, loop) /\ Frames' /\ Raised(stack') = {}
    BY <1>1, <1>5, <1>8, FramesPop DEF Below
  <2> QED BY <1>1, <1>5, <1>6, <1>8, <2>1, GoesOn DEF Below, Frames
<1> QED BY <1>7, <1>8 DEF CompleteSelects, f, todo

\* wake-parked resumes a candidate, passes over one, or answers its caller.
LEMMA WakeParkedPlaces ==
    ASSUME SchedInv, PlaceInv, WakeParked PROVE PlaceInv'
<1> DEFINE fr == Head(stack)
           rest == Tail(stack)
           c == fr.caller
<1>1. /\ stack # <<>> /\ fr.at = "wake"
      /\ UNCHANGED <<st, runnable, pending, fiberIo, fiberJoin, waiters, selectSets, loop>>
  BY DEF WakeParked, Top, fiberVars, ioVars, loopVars
<1>2. StackSound(stack, st, loop) /\ stack \in Seq(Frame) /\ Deep(rest)
  BY <1>1 DEF PlaceInv, Frames, StackSound
<1>3. /\ StackSound(rest, st, loop) /\ fr \in Frame /\ FrameSound(fr, st, loop)
      /\ OwnersOf(rest) = OwnersOf(stack) \ {Owner(fr)}
      /\ Owner(fr) # None => Owner(fr) \in OwnersOf(stack)
      /\ Doomed(stack) = DoomedBy(fr) \cup Doomed(rest)
      /\ Copied(stack) = CopiedBy(fr) \cup Copied(rest)
      /\ Candidates(stack) = CandidatesOf(fr) \cup Candidates(rest)
  BY <1>1, <1>2, PopStack
<1>4. /\ Owner(fr) = c /\ DoomedBy(fr) = {} /\ CopiedBy(fr) = {} /\ CandidatesOf(fr) = Range(fr.todo)
  BY <1>1 DEF Owner, DoomedBy, CopiedBy, CandidatesOf
<1>5. /\ fr.key \in Keys /\ fr.todo \in Seq(Fibers) /\ fr.left \in Nat /\ c \in Fibers \cup {None}
  BY <1>1, <1>3, FrameFields
<1>6. c = None \/ (c \notin OwnersOf(rest) /\ st[c] = "paused")
  BY <1>1, <1>3, <1>4 DEF FrameSound
<1>7. /\ OwnersOf(rest) \cup ({c} \ {None}) = OwnersOf(stack)
      /\ Doomed(rest) = Doomed(stack) /\ Copied(rest) = Copied(stack)
      /\ Candidates(stack) = Range(fr.todo) \cup Candidates(rest)
  <2>1. None \notin OwnersOf(stack)
    BY DEF OwnersOf
  <2> QED BY <1>3, <1>4, <2>1
<1>8. CASE fr.todo = <<>>
  <2>1. /\ stack' = IF c = None THEN rest ELSE <<Resume(c)>> \o rest
        /\ UNCHANGED <<fiberPark, parkQueues>>
    BY <1>8 DEF WakeParked
  <2>2. WaitReaders'
    BY <1>1, <2>1 DEF PlaceInv, WaitReaders
  <2>3. CASE c = None
    <3> HIDE DEF rest, c, fr
    <3>1. stack' = rest
      BY <2>1, <2>3
    <3>2. Frames' /\ Raised(stack') = {}
      BY <1>1, <1>2, <1>3, <3>1, FramesPop
    <3>3. OwnersOf(stack') = OwnersOf(stack)
      BY <1>7, <2>3, <3>1
    <3>4. StackSound(stack', st, loop) /\ (stack' # <<>> => Deep(Tail(stack')))
      BY <1>1, <3>2 DEF Frames
    <3> QED BY <1>1, <1>7, <2>1, <2>2, <3>1, <3>2, <3>3, <3>4, GoesOn
  <2>4. CASE c # None
    <3> HIDE DEF rest, c, fr
    <3>1. stack' = <<Resume(c)>> \o rest /\ c \in Fibers
      BY <1>5, <2>1, <2>4
    <3>2. StackSound(stack', st, loop) /\ Extends(stack', rest, {c}, {})
      BY <1>3, <1>6, <2>4, <3>1, PushResume
    <3>3. OwnersOf(stack') = OwnersOf(stack)
      BY <1>7, <2>4, <3>2 DEF Extends
    <3> QED BY <1>1, <1>2, <1>7, <2>1, <2>2, <3>2, <3>3, GoesOn DEF Extends
  <2> QED BY <2>3, <2>4
<1>9. CASE fr.todo # <<>>
  <2> DEFINE f == Head(fr.todo)
             more == Tail(fr.todo)
  <2>1. f \in Fibers /\ more \in Seq(Fibers) /\ Range(fr.todo) = {f} \cup Range(more)
    BY <1>5, <1>9, TailRange
  <2>2. ASSUME NEW n \in Nat
        PROVE  LET r == <<Wake(fr.key, more, n, c)>> \o rest
               IN  /\ StackSound(r, st, loop) /\ Deep(r) /\ Deep(Tail(r)) /\ Raised(r) = {}
                   /\ OwnersOf(r) = OwnersOf(stack) /\ Doomed(r) = Doomed(stack)
                   /\ Copied(r) = Copied(stack) /\ Candidates(r) \subseteq Candidates(stack)
    <3> HIDE DEF rest, c, more, fr
    <3> DEFINE r == <<Wake(fr.key, more, n, c)>> \o rest
    <3>1. StackSound(r, st, loop) /\ Carries(r, rest, {c} \ {None}, {}, {}, Range(more))
      BY <1>3, <1>5, <1>6, <2>1, PushWake
    <3> HIDE DEF r
    <3>2. /\ Deep(r) /\ Deep(Tail(r)) /\ Raised(r) = {}
          /\ OwnersOf(r) = OwnersOf(stack) /\ Doomed(r) = Doomed(stack)
          /\ Copied(r) = Copied(stack) /\ Candidates(r) \subseteq Candidates(stack)
      BY <1>2, <1>7, <2>1, <3>1 DEF Carries
    <3> QED BY <3>1, <3>2 DEF r
  <2>3. CASE Permit(fr, f)
    <3> DEFINE next == <<Wake(fr.key, more, fr.left - 1, c)>> \o rest
    <3>1. /\ fiberPark' = Del(fiberPark, f) /\ parkQueues' = LeaveQueue(parkQueues, fr.key, f)
          /\ stack' = <<Resume(f), Wake(fr.key, more, fr.left - 1, c)>> \o rest
      BY <1>9, <2>3 DEF WakeParked
    <3>2. f \in DOMAIN fiberPark /\ fiberPark[f] = fr.key /\ fr.left - 1 \in Nat
      BY <1>5, <2>3 DEF Permit
    <3>3. /\ StackSound(next, st, loop) /\ Deep(next)
          /\ OwnersOf(next) = OwnersOf(stack) /\ Doomed(next) = Doomed(stack)
          /\ Copied(next) = Copied(stack) /\ Candidates(next) \subseteq Candidates(stack)
      BY <2>2, <3>2
    <3>4. stack' = <<Resume(f)>> \o next
      <4>1. /\ rest \in Seq(Frame) /\ Resume(f) \in Frame
            /\ Wake(fr.key, more, fr.left - 1, c) \in Frame
        BY <1>3, <1>5, <2>1, <3>2, NewFrames DEF StackSound
      <4> HIDE DEF rest, f
      <4> QED BY <3>1, <4>1, PushTwoSplit
    <3>5. f \in InPark
      BY <1>7, <2>1, <3>2 DEF PlaceInv, CandidatesFresh
    <3>6. /\ DOMAIN fiberPark' = DOMAIN fiberPark \ {f}
          /\ Knows(fiberPark', parkQueues') /\ AllDistinct(parkQueues')
          /\ \A w : Within(parkQueues', w) <=> w # f /\ Within(parkQueues, w)
      <4>1. /\ IsTable(parkQueues, Keys, Seq(Fibers)) /\ IsTable(fiberPark, Fibers, Keys)
            /\ Knows(fiberPark, parkQueues) /\ AllDistinct(parkQueues)
        BY DEF SchedInv, WaitPart, PlaceInv, WaitReaders
      <4>2. /\ parkQueues' = IF f \in DOMAIN fiberPark
                             THEN LeaveQueue(parkQueues, fiberPark[f], f) ELSE parkQueues
            /\ fiberPark' = Del(fiberPark, f)
        BY <3>1, <3>2
      <4> HIDE DEF f
      <4> QED BY <4>1, <4>2, LeaveReaders
    <3> HIDE DEF next, rest, f, fr, c, more
    <3>7. InPark' = InPark \ {f}
      BY <3>6 DEF InPark
    <3>8. WaitReaders'
      BY <1>1, <3>6 DEF WaitReaders, PlaceInv
    <3>9. /\ st[f] = "paused" /\ f \notin OwnersOf(stack) /\ f \notin Range(runnable)
          /\ f \notin DOMAIN fiberIo /\ f \notin DOMAIN selectSets /\ f \notin DOMAIN fiberJoin
          /\ f \notin Doomed(stack)
      BY <2>1, <3>5 DEF PlaceInv, Apart, Statuses
    <3> QED BY <1>1, <2>1, <3>3, <3>4, <3>6, <3>7, <3>8, <3>9, TakesUp
  <2>4. CASE ~Permit(fr, f)
    <3>1. stack' = <<Wake(fr.key, more, fr.left, c)>> \o rest /\ UNCHANGED <<fiberPark, parkQueues>>
      BY <1>9, <2>4 DEF WakeParked
    <3>2. /\ StackSound(stack', st, loop) /\ Deep(Tail(stack')) /\ Raised(stack') = {}
          /\ OwnersOf(stack') = OwnersOf(stack) /\ Doomed(stack') = Doomed(stack)
          /\ Copied(stack') = Copied(stack) /\ Candidates(stack') \subseteq Candidates(stack)
      BY <1>5, <2>2, <3>1
    <3>3. WaitReaders'
      BY <1>1, <3>1 DEF PlaceInv, WaitReaders
    <3> QED BY <1>1, <3>1, <3>2, <3>3, GoesOn
  <2> QED BY <2>3, <2>4
<1> QED BY <1>8, <1>9

\* A fiber that waits nowhere is entered.
LEMMA EnterPlaces ==
    ASSUME SchedInv, PlaceInv, NEW f \in Fibers, WaitsNowhere(f), ~Terminated(st[f]),
           f \notin OwnersOf(Tail(stack)), StackSound(Tail(stack), st, loop), Deep(Tail(stack)),
           OwnersOf(stack) \ {f} = OwnersOf(Tail(stack)) \ {f},
           Doomed(Tail(stack)) = Doomed(stack), Copied(Tail(stack)) = Copied(stack),
           Candidates(Tail(stack)) = Candidates(stack),
           NEW how \in {"resume", "abort"}, stack' = <<Run(f, how)>> \o Tail(stack),
           st' = [st EXCEPT ![f] = "alive"], UNCHANGED <<runnable, pending, fiberIo, waitVars, loop>>
    PROVE  PlaceInv'
<1>0. st \in [Fibers -> Status]
  BY DEF SchedInv, CoreOK
<1>1. st'[f] = "alive" /\ \A g \in Fibers : g # f => st'[g] = st[g]
  BY <1>0
<1>2. StackSound(Tail(stack), st', loop)
  <2>1. \A fr \in Range(Tail(stack)) : fr.at # "raise"
    BY DEF Deep
  <2>2. \A g \in Fibers : \/ st'[g] = st[g]
                          \/ g \notin OwnersOf(Tail(stack)) /\ ~Terminated(st[g])
    BY <1>1
  <2> QED BY <2>1, <2>2, StatusKept
<1>3. StackSound(stack', st', loop) /\ Extends(stack', Tail(stack), {f}, {})
  BY <1>1, <1>2, PushRun
<1>4. /\ stack' # <<>> /\ Tail(stack') = Tail(stack) /\ Raised(stack') = {}
      /\ OwnersOf(stack') = OwnersOf(stack) \cup {f}
      /\ Doomed(stack') = Doomed(stack) /\ Copied(stack') = Copied(stack)
      /\ Candidates(stack') = Candidates(stack)
  BY <1>3 DEF Extends
<1>5. InPark' = InPark
  BY DEF InPark, Within, waitVars
<1>6. \A g \in Fibers : Stays(g) \/ \E where : Moves(g, where)
  <2>1. \A g \in Fibers : g # f => Stays(g)
    BY <1>1, <1>4, <1>5 DEF Stays, PlaceInv, Statuses, waitVars
  <2>2. Moves(f, "held")
    BY <1>1, <1>4, <1>5 DEF Moves, WaitsNowhere, waitVars
  <2> QED BY <2>1, <2>2
<1>7. Apart' /\ Statuses'
  BY <1>6, PlacesKept DEF PlaceInv
<1>8. Frames'
  BY <1>3, <1>4 DEF Frames
<1>9. IoReaders' /\ WaitReaders' /\ Distinct(runnable)'
  BY DEF PlaceInv, IoReaders, WaitReaders, waitVars
<1>10. CandidatesFresh'
  BY <1>4, <1>5 DEF PlaceInv, CandidatesFresh, waitVars
<1>11. Teardown'
  BY <1>1, <1>4, TeardownKept
<1> QED BY <1>7, <1>8, <1>9, <1>10, <1>11 DEF PlaceInv

\* fiber/resume never finds a fiber it refuses: the loop does not crash.
LEMMA FiberResumePlaces ==
    ASSUME SchedInv, PlaceInv, FiberResume PROVE PlaceInv'
<1> DEFINE f == Head(stack).fiber
<1>1. /\ stack # <<>> /\ Head(stack).at = "resume" /\ Owner(Head(stack)) = f
      /\ UNCHANGED <<runnable, pending, fiberIo, waitVars>>
  BY DEF FiberResume, Top, ioVars, Owner
<1>2. StackSound(stack, st, loop)
  BY DEF PlaceInv, Frames
<1>3. Head(stack) \in Frame /\ FrameSound(Head(stack), st, loop)
  BY <1>1, <1>2, PopStack
<1>4. f \in Fibers /\ st[f] \in {"new", "paused"}
  BY <1>1, <1>3, FrameFields DEF FrameSound
<1>5. Owner(Head(stack)) # None => Owner(Head(stack)) \in OwnersOf(stack)
  BY <1>1, <1>2, PopStack
<1>6. Below(f) /\ f \in OwnersOf(stack)
  BY <1>1, <1>4, <1>5, BelowTop, SchedAssumption
<1>7. /\ st' = [st EXCEPT ![f] = "alive"] /\ stack' = <<Run(f, "resume")>> \o Tail(stack)
      /\ UNCHANGED loop
  BY <1>4 DEF FiberResume, CanResume, loopVars
<1> HIDE DEF f
<1>8. WaitsNowhere(f)
  <2>1. \A p \in Copied(stack) : p[2] # f
    BY <1>4, <1>6, CopiedFibers DEF PlaceInv, Apart, Over
  <2> QED BY <1>4, <1>6, <2>1 DEF WaitsNowhere, PlaceInv, Apart
<1>9. ~Terminated(st[f])
  BY <1>4 DEF Terminated, Failed, IsDead
<1> QED BY <1>1, <1>4, <1>6, <1>7, <1>8, <1>9, EnterPlaces DEF Below

\* fiber/abort enters the fiber, or completes it where it stands, and refuses
\* only where do-shutdown protects the call: the loop does not crash.
LEMMA FiberAbortPlaces ==
    ASSUME SchedInv, PlaceInv, FiberAbort PROVE PlaceInv'
<1> DEFINE f == Head(stack).fiber
<1>1. /\ stack # <<>> /\ Head(stack).at = "raise" /\ Owner(Head(stack)) = None /\ Raised(stack) = {f}
  BY DEF FiberAbort, Top, Owner, Raised
<1>2. StackSound(stack, st, loop) /\ Deep(Tail(stack))
  BY <1>1 DEF PlaceInv, Frames
<1>3. Head(stack) \in Frame /\ FrameSound(Head(stack), st, loop)
  BY <1>1, <1>2, PopStack
<1>4. f \in Fibers /\ (Head(stack).protect \/ st[f] \in {"new", "paused"})
  BY <1>1, <1>3, FrameFields DEF FrameSound
<1>5. Below(None) /\ None \notin OwnersOf(stack)
  BY <1>1, BelowTop DEF OwnersOf
<1>6. /\ f \notin DOMAIN fiberIo /\ f \notin InPark /\ f \notin DOMAIN fiberJoin
      /\ f \notin DOMAIN selectSets /\ f \notin OwnersOf(stack) /\ f \notin Doomed(stack)
      /\ f \in Range(runnable) => st[f] = "new"
      /\ st[f] \in {"new", "paused"} \cup Over
  BY <1>1, <1>4 DEF PlaceInv, Apart, Statuses
<1>7. \A p \in Copied(stack) : p[2] = f => st[f] \in Over
  BY <1>6, CopiedFibers
<1>8. /\ StackSound(Tail(stack), st, loop) /\ OwnersOf(Tail(stack)) = OwnersOf(stack)
      /\ Doomed(Tail(stack)) = Doomed(stack) /\ Copied(Tail(stack)) = Copied(stack)
      /\ Candidates(Tail(stack)) = Candidates(stack)
  BY <1>5 DEF Below
<1>9. runnable \in Seq(Fibers) /\ Distinct(runnable) /\ st \in [Fibers -> Status]
  BY DEF SchedInv, CoreOK, PlaceInv
<1>10. CASE /\ CanRaise(st[f]) /\ st' = [st EXCEPT ![f] = "alive"]
            /\ stack' = <<Run(f, "abort")>> \o Tail(stack)
            /\ UNCHANGED <<ioVars, waitVars, loopVars, runnable, completed>>
  <2> HIDE DEF f
  <2>1. st[f] = "paused"
    BY <1>6, <1>10 DEF CanRaise, Over
  <2>2. WaitsNowhere(f) /\ ~Terminated(st[f])
    BY <1>6, <1>7, <2>1 DEF WaitsNowhere, Over, Terminated, Failed, IsDead
  <2> QED BY <1>2, <1>4, <1>6, <1>8, <1>10, <2>2, EnterPlaces DEF ioVars, loopVars
<1>11. CASE /\ st[f] = "new" /\ st' = [st EXCEPT ![f] = "error"]
            /\ CompleteFiber(f, "error", runnable, Tail(stack)) /\ UNCHANGED loopVars
  <2> HIDE DEF f
  <2>1. st'[f] = "error" /\ \A g \in Fibers : g # f => st'[g] = st[g]
    BY <1>4, <1>9, <1>11
  <2>2. Terminated(st'[f]) /\ st'[f] \in Over
    BY <2>1 DEF Terminated, Failed, Over
  <2>3. StackSound(Tail(stack), st', loop)
    <3>1. \A fr \in Range(Tail(stack)) : fr.at # "raise"
      BY <1>2 DEF Deep
    <3>2. \A g \in Fibers : \/ st'[g] = st[g]
                            \/ g \notin OwnersOf(Tail(stack)) /\ Terminated(st'[g])
      BY <1>6, <1>8, <2>1, <2>2
    <3> QED BY <1>8, <3>1, <3>2, StatusKept
  <2>4. IoReaders' /\ IoWithout(f) /\ BeginComplete(f, "error", runnable, Tail(stack))
    BY <1>11, IoGone DEF CompleteFiber, SchedInv, PlaceInv
  <2>5. \A g \in Fibers : st'[g] = "alive" => g \in OwnersOf(Tail(stack))
    BY <1>8, <2>1 DEF PlaceInv, Statuses
  <2>6. \A g \in Fibers : g = f \/ st'[g] = st[g]
    BY <2>1
  <2>7. loop' = loop
    BY <1>11 DEF loopVars
  <2> QED BY <1>2, <1>4, <1>6, <1>8, <1>9, <2>2, <2>3, <2>4, <2>5, <2>6, <2>7, CompletePlaces
<1>12. CASE /\ IsDead(st[f]) /\ CompleteFiber(f, Verdict(st[f]), runnable, Tail(stack))
            /\ UNCHANGED <<st, loopVars>>
  <2> HIDE DEF f
  <2>1. Terminated(st'[f]) /\ st'[f] \in Over
    BY <1>12 DEF Terminated, IsDead, Over
  <2>2. IoReaders' /\ IoWithout(f) /\ BeginComplete(f, Verdict(st[f]), runnable, Tail(stack))
    BY <1>12, IoGone DEF CompleteFiber, SchedInv, PlaceInv
  <2>3. \A g \in Fibers : st'[g] = "alive" => g \in OwnersOf(Tail(stack))
    BY <1>8, <1>12 DEF PlaceInv, Statuses
  <2>4. loop' = loop /\ StackSound(Tail(stack), st', loop) /\ \A g \in Fibers : st'[g] = st[g]
    BY <1>8, <1>12 DEF loopVars
  <2> QED BY <1>2, <1>4, <1>6, <1>8, <1>9, <2>1, <2>2, <2>3, <2>4, CompletePlaces
<1>13. CASE /\ RefusesAbort(st[f])
            /\ IF Head(stack).protect THEN stack' = Tail(stack) /\ UNCHANGED loopVars ELSE Crash
            /\ UNCHANGED <<st, ioVars, waitVars, runnable, completed>>
  <2>1. stack' = Tail(stack) /\ UNCHANGED <<st, runnable, pending, fiberIo, waitVars, loop>>
    BY <1>4, <1>13 DEF RefusesAbort, ioVars, loopVars
  <2>2. Frames' /\ Raised(stack') = {}
    BY <1>2, <1>8, <2>1, FramesPop
  <2>3. WaitReaders'
    BY <2>1 DEF PlaceInv, WaitReaders, waitVars
  <2> QED BY <1>8, <2>1, <2>2, <2>3, GoesOn DEF Frames, waitVars
<1> QED BY <1>10, <1>11, <1>12, <1>13 DEF FiberAbort

\* With a function of :pump innermost, nothing else is in progress.
LEMMA BaseTop ==
    ASSUME PlaceInv, stack # <<>>, Head(stack).at \in Base
    PROVE  /\ Tail(stack) = <<>> /\ OwnersOf(stack) = {} /\ Candidates(stack) = {} /\ Raised(stack) = {}
           /\ Doomed(stack) = DoomedBy(Head(stack)) /\ Copied(stack) = CopiedBy(Head(stack))
           /\ Head(stack) \in Frame /\ FrameSound(Head(stack), st, loop)
<1>1. StackSound(stack, st, loop)
  BY DEF PlaceInv, Frames
<1>2. /\ Tail(stack) = <<>> /\ Head(stack) \in Frame /\ FrameSound(Head(stack), st, loop)
      /\ OwnersOf(Tail(stack)) = OwnersOf(stack) \ {Owner(Head(stack))}
      /\ Doomed(stack) = DoomedBy(Head(stack)) \cup Doomed(Tail(stack))
      /\ Copied(stack) = CopiedBy(Head(stack)) \cup Copied(Tail(stack))
      /\ Candidates(stack) = CandidatesOf(Head(stack)) \cup Candidates(Tail(stack))
  BY <1>1, PopStack
<1>3. Owner(Head(stack)) = None /\ CandidatesOf(Head(stack)) = {} /\ Head(stack).at # "raise"
  BY DEF Base, Owner, CandidatesOf
<1>4. None \notin OwnersOf(stack)
  BY DEF OwnersOf
<1>5. /\ OwnersOf(<<>>) = {} /\ Doomed(<<>>) = {} /\ Copied(<<>>) = {} /\ Candidates(<<>>) = {}
  BY EmptyStack
<1> QED BY <1>2, <1>3, <1>4, <1>5 DEF Raised

\* The stack of one function of :pump that holds these lists.
OnBase(r, doomed, copied) ==
    /\ StackSound(r, st, loop) /\ r # <<>> /\ Deep(r) /\ Deep(Tail(r)) /\ Raised(r) = {}
    /\ OwnersOf(r) = {} /\ Candidates(r) = {} /\ Doomed(r) = doomed /\ Copied(r) = copied

\* A function of :pump goes on.
LEMMA BaseGoesOn ==
    ASSUME PlaceInv, stack # <<>>, Head(stack).at \in Base
    PROVE  /\ \A B \in SUBSET Ids, K \in SUBSET Keys :
                Serving => OnBase(<<Completions(B, K)>> \o Tail(stack), {}, {})
           /\ \A P \in SUBSET (Ids \X Fibers) :
                ~Serving => OnBase(<<AbortIo(P)>> \o Tail(stack), {}, P)
           /\ \A S \in SUBSET Fibers :
                ~Serving => OnBase(<<AbortParked(S)>> \o Tail(stack), S, {})
           /\ \A B \in SUBSET Ids :
                ~Serving => OnBase(<<Unwinding(B)>> \o Tail(stack), {}, {})
<1>1. Tail(stack) = <<>>
  BY BaseTop
<1>2. ASSUME NEW r, NEW d, NEW p, StackSound(r, st, loop), Carries(r, <<>>, {}, d, p, {})
      PROVE  OnBase(r, d, p)
  <2>1. /\ OwnersOf(<<>>) = {} /\ Doomed(<<>>) = {} /\ Copied(<<>>) = {} /\ Candidates(<<>>) = {}
        /\ Deep(<<>>)
    BY EmptyStack
  <2> QED BY <1>2, <2>1 DEF Carries, OnBase
<1>3. ASSUME NEW B \in SUBSET Ids, NEW K \in SUBSET Keys, Serving
      PROVE  OnBase(<<Completions(B, K)>> \o Tail(stack), {}, {})
  BY <1>1, <1>2, <1>3, PushBase DEF Serving
<1>4. ASSUME NEW P \in SUBSET (Ids \X Fibers), ~Serving
      PROVE  OnBase(<<AbortIo(P)>> \o Tail(stack), {}, P)
  BY <1>1, <1>2, <1>4, PushBase DEF Serving
<1>5. ASSUME NEW S \in SUBSET Fibers, ~Serving
      PROVE  OnBase(<<AbortParked(S)>> \o Tail(stack), S, {})
  BY <1>1, <1>2, <1>5, PushBase DEF Serving
<1>6. ASSUME NEW B \in SUBSET Ids, ~Serving
      PROVE  OnBase(<<Unwinding(B)>> \o Tail(stack), {}, {})
  BY <1>1, <1>2, <1>6, PushBase DEF Serving
<1> QED BY <1>3, <1>4, <1>5, <1>6

\* The submissions p are those of the teardown's copy that are not f's.
Others(p, f) == p \subseteq Copied(stack) /\ \A x \in Copied(stack) : x \in p <=> x[2] # f

\* A function of :pump has taken one fiber off its list: it goes on with rest, or
\* resumes the fiber or raises in it first.
LEMMA BaseTakes ==
    ASSUME SchedInv, PlaceInv, stack # <<>>, Head(stack).at \in Base,
           UNCHANGED <<st, runnable, waitVars, loop>>, IoReaders', NEW f \in Fibers, IoWithout(f),
           f \notin Range(runnable), f \notin InPark, f \notin DOMAIN fiberJoin,
           f \notin DOMAIN selectSets, st[f] \in {"paused"} \cup Over,
           NEW d, NEW p, NEW rest, OnBase(rest, d, p), d \subseteq Doomed(stack), f \notin d,
           Others(p, f),
           \/ stack' = rest
           \/ st[f] = "paused" /\ stack' = <<Resume(f)>> \o rest
           \/ \E b \in BOOLEAN : (b \/ st[f] = "paused") /\ stack' = <<Raise(f, b)>> \o rest
    PROVE  PlaceInv'
<1>1. OwnersOf(stack) = {} /\ Candidates(stack) = {}
  BY BaseTop
<1>2. /\ StackSound(rest, st, loop) /\ rest # <<>> /\ Deep(rest) /\ Deep(Tail(rest)) /\ Raised(rest) = {}
      /\ OwnersOf(rest) = {} /\ Candidates(rest) = {} /\ Doomed(rest) = d /\ Copied(rest) = p
  BY DEF OnBase
<1>3. /\ StackSound(stack', st, loop) /\ (stack' # <<>> => Deep(Tail(stack')))
      /\ Candidates(stack') = {} /\ Doomed(stack') = d /\ Copied(stack') = p
      /\ OwnersOf(stack') \subseteq {f} /\ Raised(stack') \subseteq {f}
      /\ OwnersOf(stack') = {} \/ Raised(stack') = {}
  <2>1. CASE stack' = rest
    BY <1>2, <2>1
  <2>2. CASE st[f] = "paused" /\ stack' = <<Resume(f)>> \o rest
    <3>1. StackSound(stack', st, loop) /\ Extends(stack', rest, {f}, {})
      BY <1>2, <2>2, PushResume
    <3> QED BY <1>2, <3>1 DEF Extends
  <2>3. CASE \E b \in BOOLEAN : (b \/ st[f] = "paused") /\ stack' = <<Raise(f, b)>> \o rest
    <3>1. PICK b \in BOOLEAN : (b \/ st[f] = "paused") /\ stack' = <<Raise(f, b)>> \o rest
      BY <2>3
    <3>2. StackSound(stack', st, loop) /\ Extends(stack', rest, {}, {f})
      BY <1>2, <3>1, PushRaise
    <3> QED BY <1>2, <3>2 DEF Extends
  <2> QED BY <2>1, <2>2, <2>3
<1>4. InPark' = InPark /\ WaitReaders'
  BY DEF InPark, Within, waitVars, PlaceInv, WaitReaders
<1> DEFINE T == {f}
<1>5. /\ T \in SUBSET Fibers /\ OwnersOf(stack) \subseteq OwnersOf(stack')
      /\ OwnersOf(stack') \subseteq OwnersOf(stack) \cup T
      /\ Raised(stack') \subseteq T /\ T \cap OwnersOf(stack') \cap Raised(stack') = {}
      /\ Doomed(stack') \subseteq Doomed(stack) /\ Candidates(stack') \subseteq Candidates(stack) \cup InPark'
      /\ Copied(stack') \subseteq Copied(stack)
      /\ \A x \in Copied(stack) : x \in Copied(stack') \/ x[2] \in T
      /\ \A x \in Copied(stack') : x[2] \in T => st[x[2]] \in Over
  BY <1>1, <1>3 DEF Others
<1>6. /\ DOMAIN fiberIo' \subseteq DOMAIN fiberIo /\ \A g \in DOMAIN fiberIo' : fiberIo'[g] = fiberIo[g]
      /\ \A id \in DOMAIN pending :
           pending[id] \notin T => id \in DOMAIN pending' /\ pending'[id] = pending[id]
  BY DEF IoWithout
<1>7. \A w \in T : /\ w \notin Range(runnable) /\ w \notin DOMAIN fiberIo' /\ w \notin InPark'
                   /\ w \notin DOMAIN fiberJoin' /\ w \notin DOMAIN selectSets'
                   /\ w \notin Doomed(stack') /\ st[w] \in {"new", "paused"} \cup Over
  BY <1>3, <1>4 DEF IoWithout, waitVars
<1>8. /\ InPark' \subseteq InPark /\ DOMAIN fiberPark' \subseteq DOMAIN fiberPark
      /\ \A g \in InPark : g \in DOMAIN fiberPark' => g \in InPark'
      /\ DOMAIN fiberJoin' \subseteq DOMAIN fiberJoin /\ DOMAIN selectSets' \subseteq DOMAIN selectSets
  BY <1>4 DEF waitVars
<1> HIDE DEF T
<1> QED BY <1>3, <1>4, <1>5, <1>6, <1>7, <1>8, HandlerTo

\* process-completions routes a completion: nobody but the fiber it is for moves.
LEMMA RouteCompletionPlaces ==
    ASSUME SchedInv, PlaceInv, NEW id \in Ids, RouteCompletion(id) PROVE PlaceInv'
<1> DEFINE B == Head(stack).todo \ {id}
           K == Head(stack).keys
           rest == <<Completions(B, K)>> \o Tail(stack)
           f == pending[id]
<1>1. /\ stack # <<>> /\ Head(stack).at = "completions" /\ Head(stack).at \in Base
      /\ UNCHANGED <<st, loop>>
  BY DEF RouteCompletion, Top, Base, fiberVars, loopVars
<1>2. /\ OwnersOf(stack) = {} /\ Candidates(stack) = {}
      /\ Doomed(stack) = DoomedBy(Head(stack)) /\ Copied(stack) = CopiedBy(Head(stack))
      /\ Head(stack) \in Frame /\ FrameSound(Head(stack), st, loop)
  BY <1>1, BaseTop
<1>3. /\ B \in SUBSET Ids /\ K \in SUBSET Keys /\ Serving /\ Doomed(stack) = {} /\ Copied(stack) = {}
  BY <1>1, <1>2, FrameFields DEF FrameSound, Serving, DoomedBy, CopiedBy
<1>4. \A L \in SUBSET Keys : OnBase(<<Completions(B, L)>> \o Tail(stack), {}, {})
  <2> HIDE DEF B
  <2> QED BY <1>1, <1>3, BaseGoesOn
<1>5. OnBase(rest, {}, {})
  BY <1>3, <1>4
<1>6. CASE id \in DOMAIN pending
  <2>1. f \in Fibers
    BY <1>6 DEF SchedInv, IoPart, IsTable
  <2>2. IoReaders' /\ IoWithout(f)
    BY <1>6, PairGone DEF RouteCompletion, SchedInv, PlaceInv
  <2>3. f \in DOMAIN fiberIo
    BY <1>6 DEF PlaceInv, IoReaders
  <2>4. /\ f \notin Range(runnable) /\ f \notin InPark /\ f \notin DOMAIN fiberJoin
        /\ f \notin DOMAIN selectSets /\ st[f] \in {"paused"} \cup Over
    BY <2>1, <2>3 DEF PlaceInv, Apart, Statuses
  <2>5. CASE stack' = rest /\ UNCHANGED <<runnable, waitVars>>
    <3> HIDE DEF rest, f
    <3> QED BY <1>1, <1>3, <1>5, <2>1, <2>2, <2>4, <2>5, BaseTakes DEF Others
  <2>6. CASE Unnoticed(f) /\ BeginComplete(f, Verdict(st[f]), runnable, rest)
    <3>1. runnable \in Seq(Fibers) /\ Distinct(runnable) /\ Terminated(st'[f])
      BY <1>1, <2>6 DEF SchedInv, CoreOK, PlaceInv, Unnoticed
    <3>2. /\ StackSound(rest, st', loop) /\ Deep(rest) /\ OwnersOf(rest) = {} /\ Doomed(rest) = {}
          /\ Copied(rest) = {} /\ Candidates(rest) = {}
      BY <1>1, <1>5 DEF OnBase
    <3>3. \A g \in Fibers : st'[g] = st[g] /\ st'[g] # "alive"
      BY <1>1, <1>2 DEF PlaceInv, Statuses
    <3> HIDE DEF rest, f
    <3> QED BY <1>1, <1>2, <1>3, <2>1, <2>2, <2>6, <3>1, <3>2, <3>3, CompletePlaces
  <2>7. CASE /\ ~Recorded(f) /\ ~Unnoticed(f) /\ UNCHANGED <<runnable, waitVars>>
             /\ stack' \in {<<Resume(f)>> \o rest, <<Raise(f, FALSE)>> \o rest}
    <3>1. st[f] = "paused"
      BY <2>4, <2>7 DEF Unnoticed, Terminated, Failed, IsDead, Over
    <3>2. \/ st[f] = "paused" /\ stack' = <<Resume(f)>> \o rest
          \/ \E b \in BOOLEAN : (b \/ st[f] = "paused") /\ stack' = <<Raise(f, b)>> \o rest
      BY <2>7, <3>1
    <3> HIDE DEF rest, f
    <3> QED BY <1>1, <1>3, <1>5, <2>1, <2>2, <2>4, <2>7, <3>2, BaseTakes DEF Others
  <2> QED BY <1>6, <2>5, <2>6, <2>7 DEF RouteCompletion
<1>7. CASE id \notin DOMAIN pending
  <2>1. /\ UNCHANGED <<runnable, pending, fiberIo, waitVars>>
        /\ stack' = IF id \in DOMAIN forwarded
                    THEN <<Completions(B, K \cup {forwarded[id]})>> \o Tail(stack)
                    ELSE rest
    BY <1>7 DEF RouteCompletion
  <2>2. OnBase(stack', {}, {})
    <3>1. CASE id \in DOMAIN forwarded
      <4>1. K \cup {forwarded[id]} \in SUBSET Keys
        BY <1>3, <3>1 DEF SchedInv, CoreOK, IsTable
      <4> HIDE DEF B, K
      <4> QED BY <1>4, <2>1, <3>1, <4>1
    <3>2. CASE id \notin DOMAIN forwarded
      BY <1>5, <2>1, <3>2
    <3> QED BY <3>1, <3>2
  <2>3. WaitReaders' /\ UNCHANGED <<fiberPark, parkQueues, fiberJoin, selectSets>>
    BY <2>1 DEF PlaceInv, WaitReaders, waitVars
  <2>4. /\ StackSound(stack', st, loop) /\ Deep(Tail(stack')) /\ OwnersOf(stack') = {}
        /\ Raised(stack') = {} /\ Doomed(stack') = {} /\ Copied(stack') = {} /\ Candidates(stack') = {}
    BY <2>2 DEF OnBase
  <2> QED BY <1>1, <1>2, <1>3, <2>1, <2>3, <2>4, GoesOn
<1> QED BY <1>6, <1>7

\* process-completions wakes everybody on a forwarded key, or returns.
LEMMA WakeForwardedPlaces ==
    ASSUME SchedInv, PlaceInv, WakeForwarded PROVE PlaceInv'
<1> DEFINE K == Head(stack).keys
<1>1. /\ stack # <<>> /\ Head(stack).at = "completions" /\ Head(stack).at \in Base
      /\ UNCHANGED <<st, runnable, pending, fiberIo, fiberPark, parkQueues, fiberJoin,
                     waiters, selectSets, loop>>
  BY DEF WakeForwarded, Top, Base, fiberVars, ioVars, waitVars, loopVars
<1>2. /\ Tail(stack) = <<>> /\ OwnersOf(stack) = {} /\ Candidates(stack) = {}
      /\ Doomed(stack) = DoomedBy(Head(stack)) /\ Copied(stack) = CopiedBy(Head(stack))
      /\ Head(stack) \in Frame /\ FrameSound(Head(stack), st, loop)
  BY <1>1, BaseTop
<1>3. K \in SUBSET Keys /\ Serving /\ Doomed(stack) = {} /\ Copied(stack) = {}
  BY <1>1, <1>2, FrameFields DEF FrameSound, Serving, DoomedBy, CopiedBy
<1>4. WaitReaders'
  BY <1>1 DEF PlaceInv, WaitReaders
<1>5. ASSUME NEW k \in K,
             stack' = <<Wake(k, Array(parkQueues, k), Len(Array(parkQueues, k)), None),
                        Completions({}, K \ {k})>> \o Tail(stack)
      PROVE  PlaceInv'
  <2> DEFINE q == Array(parkQueues, k)
             n == Len(q)
             L == K \ {k}
             rest == <<Completions({}, L)>> \o Tail(stack)
  <2>1. k \in Keys /\ L \in SUBSET Keys /\ {} \in SUBSET Ids
    BY <1>3
  <2>2. q \in Seq(Fibers) /\ Range(q) \subseteq InPark /\ n \in Nat
    BY <2>1, ArrayParked
  <2> HIDE DEF q, n, L
  <2>3. OnBase(rest, {}, {})
    BY <1>1, <1>3, <2>1, BaseGoesOn
  <2>4. stack' = <<Wake(k, q, n, None)>> \o rest
    <3>0. <<>> \in Seq(Frame)
      OBVIOUS
    <3>1. /\ Tail(stack) \in Seq(Frame) /\ Wake(k, q, n, None) \in Frame
          /\ Completions({}, L) \in Frame
      <4>1. Tail(stack) \in Seq(Frame)
        BY <1>2, <3>0
      <4> QED BY <2>1, <2>2, <4>1, NewFrames
    <3>2. stack' = <<Wake(k, q, n, None), Completions({}, L)>> \o Tail(stack)
      BY <1>5 DEF q, n, L
    <3> QED BY <3>1, <3>2, PushTwoSplit
  <2> HIDE DEF rest
  <2>5. StackSound(rest, st, loop) /\ None \in Fibers \cup {None}
    BY <2>3 DEF OnBase
  <2>6. StackSound(stack', st, loop) /\ Carries(stack', rest, {None} \ {None}, {}, {}, Range(q))
    BY <2>1, <2>2, <2>4, <2>5, PushWake
  <2>7. /\ Deep(Tail(stack')) /\ OwnersOf(stack') = {} /\ Raised(stack') = {} /\ Doomed(stack') = {}
        /\ Copied(stack') = {} /\ Candidates(stack') \subseteq InPark
    BY <2>2, <2>3, <2>6 DEF Carries, OnBase
  <2> QED BY <1>1, <1>2, <1>3, <1>4, <2>6, <2>7, GoesOn
<1>6. CASE stack' = Tail(stack)
  <2>1. /\ StackSound(stack', st, loop) /\ stack' = <<>> /\ OwnersOf(stack') = {} /\ Raised(stack') = {}
        /\ Doomed(stack') = {} /\ Copied(stack') = {} /\ Candidates(stack') = {}
    BY <1>2, <1>6, EmptyStack
  <2> QED BY <1>1, <1>2, <1>3, <1>4, <2>1, GoesOn
<1> QED BY <1>5, <1>6 DEF WakeForwarded

\* do-shutdown aborts one fiber of its copy.  Its operation is still pending, or
\* the fiber has ended and the copy is the last that knows of it.
LEMMA AbortIoOnePlaces ==
    ASSUME SchedInv, PlaceInv, AbortIoOne PROVE PlaceInv'
<1> DEFINE P == Head(stack).copy
<1>1. /\ stack # <<>> /\ Head(stack).at = "abortIo" /\ Head(stack).at \in Base
      /\ UNCHANGED <<st, runnable, waitVars, loop>>
  BY DEF AbortIoOne, Top, Base, fiberVars
<1>2. /\ Tail(stack) = <<>> /\ OwnersOf(stack) = {} /\ Copied(stack) = CopiedBy(Head(stack))
      /\ Head(stack) \in Frame /\ FrameSound(Head(stack), st, loop)
  BY <1>1, BaseTop
<1>3. Copied(stack) = P /\ P \subseteq Ids \X Fibers /\ ~Serving
  BY <1>1, <1>2, FrameFields DEF CopiedBy, FrameSound, Serving
<1> HIDE DEF P
<1>4. PICK p \in P : /\ DropPair(p[1], p[2])
                     /\ stack' = <<Raise(p[2], TRUE), AbortIo(P \ {p})>> \o Tail(stack)
  BY DEF AbortIoOne, P
<1> DEFINE f == p[2]
           rest == <<AbortIo(P \ {p})>> \o Tail(stack)
<1>5. p[1] \in Ids /\ f \in Fibers /\ P \ {p} \in SUBSET (Ids \X Fibers)
  BY <1>3
<1>6. OnBase(rest, {}, P \ {p})
  <2> DEFINE Q == P \ {p}
  <2> HIDE DEF Q
  <2>1. Q \in SUBSET (Ids \X Fibers)
    BY <1>5 DEF Q
  <2>2. OnBase(<<AbortIo(Q)>> \o Tail(stack), {}, Q)
    BY <1>1, <1>3, <2>1, BaseGoesOn
  <2> QED BY <2>2 DEF Q
<1>7. stack' = <<Raise(f, TRUE)>> \o rest
  <2>1. Tail(stack) \in Seq(Frame)
    <3>1. <<>> \in Seq(Frame)
      OBVIOUS
    <3> QED BY <1>2, <3>1
  <2>2. Raise(f, TRUE) \in Frame /\ AbortIo(P \ {p}) \in Frame
    BY <1>5, NewFrames DEF AbortIo, Frame
  <2> HIDE DEF f
  <2> QED BY <1>4, <2>1, <2>2, PushTwoSplit DEF f
<1>8. /\ (p[1] \in DOMAIN pending /\ pending[p[1]] = f) \/ st[f] \in Over
      /\ f \notin Range(runnable)
      /\ \A q \in Copied(stack) : f = q[2] => p = q
  BY <1>3, <1>4 DEF PlaceInv, Teardown
<1>9. st[f] \in {"paused"} \cup Over /\ (f \in DOMAIN fiberIo \/ st[f] \in Over)
  BY <1>3, <1>4, CopiedFibers
<1>10. f \notin InPark /\ f \notin DOMAIN fiberJoin /\ f \notin DOMAIN selectSets
  BY <1>5, <1>9 DEF PlaceInv, Apart, Statuses, Over
<1>11. IoReaders' /\ IoWithout(f)
  <2>1. CASE p[1] \in DOMAIN pending
    <3>1. pending[p[1]] = f
      <4>1. FrameOK(Head(stack), loop, pending)
        BY <1>1, TopFrame DEF SchedInv
      <4> QED BY <1>1, <1>4, <2>1, <4>1 DEF FrameOK, P
    <3> QED BY <1>4, <2>1, <3>1, PairGone DEF SchedInv, PlaceInv
  <2>2. CASE p[1] \notin DOMAIN pending
    <3>1. st[f] \in Over
      BY <1>8, <2>2
    <3>2. ASSUME f \in DOMAIN fiberIo PROVE FALSE
      <4>1. fiberIo[f] \in DOMAIN pending
        BY <3>2 DEF SchedInv, IoPart, IoLookup
      <4>2. <<fiberIo[f], f>> \in Copied(stack)
        BY <1>3, <3>1, <3>2 DEF PlaceInv, Teardown, Over
      <4>3. <<fiberIo[f], f>>[2] = f /\ <<fiberIo[f], f>>[1] = fiberIo[f]
        OBVIOUS
      <4>4. p = <<fiberIo[f], f>>
        BY <1>8, <4>2, <4>3
      <4> QED BY <2>2, <4>1, <4>3, <4>4
    <3>3. \A id \in DOMAIN pending : pending[id] # f
      BY <3>2 DEF PlaceInv, IoReaders
    <3>4. DOMAIN pending' = DOMAIN pending /\ \A x \in DOMAIN pending : pending'[x] = pending[x]
      BY <1>4, <2>2 DEF DropPair, Del
    <3>5. DOMAIN fiberIo' = DOMAIN fiberIo /\ \A x \in DOMAIN fiberIo : fiberIo'[x] = fiberIo[x]
      BY <1>4, <3>2 DEF DropPair, Del
    <3> QED BY <3>2, <3>3, <3>4, <3>5 DEF IoWithout, IoReaders, PlaceInv
  <2> QED BY <2>1, <2>2
<1>12. /\ P \ {p} \subseteq Copied(stack)
       /\ \A x \in Copied(stack) : x \in P \ {p} <=> x[2] # f
  BY <1>3, <1>4, <1>8
<1>13. \E b \in BOOLEAN : (b \/ st[f] = "paused") /\ stack' = <<Raise(f, b)>> \o rest
  BY <1>7
<1> DEFINE Q == P \ {p}
           d == {}
<1>14. OnBase(rest, d, Q) /\ Others(Q, f) /\ d \subseteq Doomed(stack) /\ f \notin d
  BY <1>6, <1>12 DEF Others
<1>15. f \in Fibers /\ f \notin Range(runnable) /\ st[f] \in {"paused"} \cup Over
  BY <1>5, <1>8, <1>9
<1>16. /\ stack # <<>> /\ Head(stack).at \in Base /\ UNCHANGED <<st, runnable, waitVars, loop>>
       /\ IoReaders' /\ IoWithout(f)
       /\ f \notin InPark /\ f \notin DOMAIN fiberJoin /\ f \notin DOMAIN selectSets
  BY <1>1, <1>10, <1>11
<1> HIDE DEF f, rest, Q, d
<1> QED BY <1>13, <1>14, <1>15, <1>16, BaseTakes

\* do-shutdown has taken the park queues: whoever was parked is doomed.
LEMMA TakeParkQueuesPlaces ==
    ASSUME SchedInv, PlaceInv, TakeParkQueues PROVE PlaceInv'
<1> DEFINE S == UNION {Range(parkQueues[k]) : k \in DOMAIN parkQueues}
<1>1. /\ stack # <<>> /\ Head(stack).at = "abortIo" /\ Head(stack).at \in Base
      /\ UNCHANGED <<st, runnable, pending, fiberIo, fiberPark, fiberJoin, waiters, selectSets, loop>>
      /\ parkQueues' = Empty /\ Head(stack).copy = {}
      /\ stack' = <<AbortParked(S)>> \o Tail(stack)
  BY DEF TakeParkQueues, Top, Base, fiberVars, ioVars, loopVars
<1>2. /\ OwnersOf(stack) = {} /\ Raised(stack) = {} /\ Candidates(stack) = {}
      /\ Doomed(stack) = DoomedBy(Head(stack)) /\ Copied(stack) = CopiedBy(Head(stack))
      /\ FrameSound(Head(stack), st, loop)
  BY <1>1, BaseTop
<1>3. Doomed(stack) = {} /\ Copied(stack) = {} /\ ~Serving
  BY <1>1, <1>2 DEF CopiedBy, DoomedBy, FrameSound, Serving
<1>4. S = InPark /\ S \in SUBSET Fibers
  <2>1. \A k \in DOMAIN parkQueues : Range(parkQueues[k]) \subseteq Fibers
    BY RangeSeq DEF SchedInv, WaitPart, IsTable
  <2> QED BY <2>1 DEF InPark, Within
<1> HIDE DEF S
<1>5. OnBase(stack', S, {})
  BY <1>1, <1>3, <1>4, BaseGoesOn
<1>6. InPark' = {} /\ Knows(fiberPark', parkQueues') /\ AllDistinct(parkQueues')
  BY <1>1 DEF InPark, Within, Knows, AllDistinct, Empty
<1>7. \A g \in Fibers : Stays(g) \/ \E where : Moves(g, where)
  <2>1. \A g \in Fibers : g \in S => Moves(g, "doomed")
    BY <1>1, <1>4, <1>5, <1>6 DEF Moves, PlaceInv, Apart, Statuses, OnBase
  <2>2. \A g \in Fibers : g \notin S => Stays(g)
    BY <1>1, <1>2, <1>5, <1>6 DEF Stays, PlaceInv, Statuses, OnBase
  <2> QED BY <2>1, <2>2
<1>8. Apart' /\ Statuses'
  BY <1>7, PlacesKept DEF PlaceInv
<1>9. Frames'
  BY <1>1, <1>5 DEF OnBase, Frames
<1>10. IoReaders' /\ WaitReaders' /\ Distinct(runnable)' /\ CandidatesFresh'
  BY <1>1, <1>5, <1>6 DEF PlaceInv, IoReaders, WaitReaders, CandidatesFresh, OnBase
<1>11. Teardown'
  BY <1>1, <1>3, <1>5 DEF PlaceInv, Teardown, OnBase, Serving
<1> QED BY <1>8, <1>9, <1>10, <1>11 DEF PlaceInv

\* :pump goes from place to place with nothing in progress; a copy of pending it
\* makes on the way is exact.
LEMMA LoopMoves ==
    ASSUME SchedInv, PlaceInv, UNCHANGED <<st, runnable, pending, fiberIo, waitVars>>,
           OwnersOf(stack) = {}, StackSound(stack', st, loop'), stack' # <<>> => Deep(Tail(stack')),
           OwnersOf(stack') = {}, Raised(stack') = {}, Doomed(stack') = {}, Candidates(stack') = {},
           Copied(stack') \subseteq Ids \X Fibers,
           \A p \in Copied(stack') : p[1] \in DOMAIN pending /\ pending[p[1]] = p[2],
           ~Serving' => \A f \in DOMAIN fiberIo :
                           st[f] = "paused" \/ <<fiberIo[f], f>> \in Copied(stack')
    PROVE  PlaceInv'
<1>1. InPark' = InPark /\ WaitReaders' /\ IoReaders' /\ Distinct(runnable)'
  BY DEF InPark, Within, waitVars, PlaceInv, WaitReaders, IoReaders
<1>2. \A g \in Fibers : Stays(g)
  BY <1>1 DEF Stays, PlaceInv, Statuses, waitVars
<1>3. Apart' /\ Statuses'
  BY <1>2, PlacesKept DEF PlaceInv
<1>4. Frames' /\ CandidatesFresh'
  BY DEF Frames, CandidatesFresh
<1>5. ASSUME NEW p \in Copied(stack')
      PROVE  p[2] \notin Range(runnable') /\ fiberIo[p[2]] = p[1] /\ p = <<p[1], p[2]>>
  BY DEF PlaceInv, IoReaders, Apart
<1>6. Teardown'
  BY <1>5 DEF Teardown
<1> QED BY <1>1, <1>3, <1>4, <1>6 DEF PlaceInv

\* Nothing is in progress.
LEMMA NothingOn ==
    ASSUME SchedInv, PlaceInv, stack = <<>>
    PROVE  /\ OwnersOf(stack) = {} /\ Raised(stack) = {} /\ Doomed(stack) = {}
           /\ Copied(stack) = {} /\ Candidates(stack) = {}
           /\ \A g \in Fibers : st[g] # "alive"
           /\ ~Serving => \A f \in DOMAIN fiberIo : st[f] = "paused"
<1>1. /\ OwnersOf(stack) = {} /\ Raised(stack) = {} /\ Doomed(stack) = {}
      /\ Copied(stack) = {} /\ Candidates(stack) = {}
  BY EmptyStack
<1> QED BY <1>1 DEF PlaceInv, Statuses, Teardown

\* The loop moves on, and calls nothing.
LEMMA LoopIdles ==
    ASSUME SchedInv, PlaceInv, UNCHANGED <<st, runnable, pending, fiberIo, waitVars>>,
           OwnersOf(stack) = {}, stack' = <<>>,
           ~Serving' => \A f \in DOMAIN fiberIo : st[f] = "paused"
    PROVE  PlaceInv'
<1>1. /\ StackSound(stack', st, loop') /\ OwnersOf(stack') = {} /\ Raised(stack') = {}
      /\ Doomed(stack') = {} /\ Copied(stack') = {} /\ Candidates(stack') = {}
  BY EmptyStack
<1> QED BY <1>1, LoopMoves

\* do-shutdown aborts one parked fiber, or its first phase is over.
LEMMA AbortParkedOnePlaces ==
    ASSUME SchedInv, PlaceInv, AbortParkedOne PROVE PlaceInv'
<1> DEFINE S == Head(stack).todo
<1>1. /\ stack # <<>> /\ Head(stack).at = "abortParked" /\ Head(stack).at \in Base
      /\ UNCHANGED <<st, runnable, pending, fiberIo, waitVars>>
  BY DEF AbortParkedOne, Top, Base, fiberVars, ioVars
<1>2. /\ Tail(stack) = <<>> /\ OwnersOf(stack) = {} /\ Copied(stack) = CopiedBy(Head(stack))
      /\ Doomed(stack) = DoomedBy(Head(stack))
      /\ Head(stack) \in Frame /\ FrameSound(Head(stack), st, loop)
  BY <1>1, BaseTop
<1>3. Doomed(stack) = S /\ Copied(stack) = {} /\ S \subseteq Fibers /\ ~Serving
  BY <1>1, <1>2, FrameFields DEF CopiedBy, DoomedBy, FrameSound, Serving
<1>4. ASSUME NEW f \in S, UNCHANGED loop,
             stack' = <<Raise(f, TRUE), AbortParked(S \ {f})>> \o Tail(stack)
      PROVE  PlaceInv'
  <2> DEFINE d == S \ {f}
             rest == <<AbortParked(d)>> \o Tail(stack)
  <2>1. f \in Fibers /\ d \in SUBSET Fibers /\ d \subseteq Doomed(stack) /\ f \notin d
    BY <1>3
  <2>2. OnBase(rest, d, {})
    <3> HIDE DEF d
    <3> QED BY <1>1, <1>3, <2>1, BaseGoesOn
  <2>3. \E b \in BOOLEAN : (b \/ st[f] = "paused") /\ stack' = <<Raise(f, b)>> \o rest
    <3>0. <<>> \in Seq(Frame)
      OBVIOUS
    <3>1. Tail(stack) \in Seq(Frame) /\ Raise(f, TRUE) \in Frame
      BY <1>2, <2>1, <3>0, NewFrames
    <3>2. AbortParked(d) \in Frame
      BY <2>1, NewFrames
    <3>3. stack' = <<Raise(f, TRUE)>> \o rest
      BY <1>4, <3>1, <3>2, PushTwoSplit
    <3> QED BY <3>3
  <2>4. /\ f \notin Range(runnable) /\ f \notin InPark /\ f \notin DOMAIN fiberJoin
        /\ f \notin DOMAIN selectSets /\ f \notin DOMAIN fiberIo /\ st[f] = "paused"
    BY <1>3, <2>1 DEF PlaceInv, Apart, Statuses
  <2>5. IoReaders' /\ IoWithout(f)
    BY <1>1, <2>4 DEF IoWithout, IoReaders, PlaceInv
  <2> HIDE DEF d, rest
  <2> QED BY <1>1, <1>3, <1>4, <2>1, <2>2, <2>3, <2>4, <2>5, BaseTakes DEF Others
<1>5. CASE S = {} /\ stack' = Tail(stack) /\ loop' = IF shutdownReq = "bounded" THEN "unwind" ELSE "stragglers"
  <2>1. ~Serving' /\ stack' = <<>>
    BY <1>2, <1>5 DEF Serving
  <2>2. \A f \in DOMAIN fiberIo : st[f] = "paused"
    BY <1>3 DEF PlaceInv, Teardown
  <2> QED BY <1>1, <1>2, <2>1, <2>2, LoopIdles
<1> QED BY <1>4, <1>5 DEF AbortParkedOne, S

\* Phase 2 of do-shutdown resumes the fiber of a completion, or drops it.
LEMMA UnwindCompletionPlaces ==
    ASSUME SchedInv, PlaceInv, UnwindCompletion PROVE PlaceInv'
<1> DEFINE todo == Head(stack).todo
<1>1. /\ stack # <<>> /\ Head(stack).at = "unwinding" /\ Head(stack).at \in Base
      /\ UNCHANGED <<st, runnable, waitVars, loop>>
  BY DEF UnwindCompletion, Top, Base, fiberVars, loopVars
<1>2. /\ Tail(stack) = <<>> /\ OwnersOf(stack) = {} /\ Copied(stack) = CopiedBy(Head(stack))
      /\ Doomed(stack) = DoomedBy(Head(stack)) /\ Candidates(stack) = {}
      /\ Head(stack) \in Frame /\ FrameSound(Head(stack), st, loop)
  BY <1>1, BaseTop
<1>3. Doomed(stack) = {} /\ Copied(stack) = {} /\ todo \subseteq Ids /\ ~Serving
  BY <1>1, <1>2, FrameFields DEF CopiedBy, DoomedBy, FrameSound, Serving
<1>4. \A f \in DOMAIN fiberIo : st[f] = "paused"
  BY <1>3 DEF PlaceInv, Teardown
<1>5. ASSUME NEW id \in todo,
             LET rest == <<Unwinding(todo \ {id})>> \o Tail(stack) IN
             IF id \in DOMAIN pending
             THEN /\ DropPair(id, pending[id])
                  /\ stack' \in {<<Resume(pending[id])>> \o rest, rest}
             ELSE stack' = rest /\ UNCHANGED <<pending, fiberIo>>
      PROVE  PlaceInv'
  <2> DEFINE B == todo \ {id}
             rest == <<Unwinding(B)>> \o Tail(stack)
             f == pending[id]
  <2>1. B \in SUBSET Ids
    BY <1>3
  <2>2. OnBase(rest, {}, {})
    <3> HIDE DEF B
    <3> QED BY <1>1, <1>3, <2>1, BaseGoesOn
  <2>3. CASE id \in DOMAIN pending
    <3>1. DropPair(id, f) /\ (stack' = rest \/ stack' = <<Resume(f)>> \o rest)
      BY <1>5, <2>3
    <3>2. f \in Fibers /\ f \in DOMAIN fiberIo
      BY <2>3 DEF SchedInv, IoPart, IsTable, PlaceInv, IoReaders
    <3>3. IoReaders' /\ IoWithout(f)
      BY <2>3, <3>1, PairGone DEF SchedInv, PlaceInv
    <3>4. /\ f \notin Range(runnable) /\ f \notin InPark /\ f \notin DOMAIN fiberJoin
          /\ f \notin DOMAIN selectSets /\ st[f] = "paused"
      BY <1>4, <3>2 DEF PlaceInv, Apart
    <3> HIDE DEF rest, f
    <3> QED BY <1>1, <1>3, <2>2, <3>1, <3>2, <3>3, <3>4, BaseTakes DEF Others
  <2>4. CASE id \notin DOMAIN pending
    <3>1. stack' = rest /\ UNCHANGED <<pending, fiberIo>>
      BY <1>5, <2>4
    <3>2. WaitReaders' /\ UNCHANGED <<fiberPark, parkQueues, fiberJoin, selectSets>>
      BY <1>1 DEF PlaceInv, WaitReaders, waitVars
    <3>3. /\ StackSound(stack', st, loop) /\ Deep(Tail(stack')) /\ OwnersOf(stack') = {}
          /\ Raised(stack') = {} /\ Doomed(stack') = {} /\ Copied(stack') = {} /\ Candidates(stack') = {}
      BY <2>2, <3>1 DEF OnBase
    <3> QED BY <1>1, <1>2, <1>3, <3>1, <3>2, <3>3, GoesOn
  <2> QED BY <2>3, <2>4
<1>6. CASE stack' = Tail(stack) /\ UNCHANGED <<pending, fiberIo>>
  BY <1>1, <1>2, <1>4, <1>6, LoopIdles
<1> QED BY <1>5, <1>6 DEF UnwindCompletion

-----------------------------------------------------------------------------
(* One lemma for each step of :pump.                                       *)

\* A function that is called while nothing is in progress.
LEMMA OneFunction == ASSUME NEW fr PROVE <<fr>> \o <<>> = <<fr>>
OBVIOUS

\* The loop pops a fiber, and resumes it or finds that the program ended it.
LEMMA DrainOnePlaces ==
    ASSUME SchedInv, PlaceInv, DrainOne PROVE PlaceInv'
<1> DEFINE f == Last(runnable)
           q == Front(runnable)
<1>1. stack = <<>> /\ UNCHANGED <<st, loop>> /\ runnable # <<>>
  BY DEF DrainOne, fiberVars, loopVars
<1>2. /\ OwnersOf(stack) = {} /\ Raised(stack) = {} /\ Doomed(stack) = {}
      /\ Copied(stack) = {} /\ Candidates(stack) = {} /\ \A g \in Fibers : st[g] # "alive"
  BY <1>1, NothingOn
<1>3. runnable \in Seq(Fibers) /\ Distinct(runnable)
  BY DEF SchedInv, CoreOK, PlaceInv
<1>4. /\ f \in Fibers /\ f \in Range(runnable) /\ q \in Seq(Fibers) /\ Distinct(q)
      /\ Range(q) \subseteq Range(runnable) /\ f \notin Range(q)
  BY <1>1, <1>3, PopRange
<1>5. /\ f \notin DOMAIN fiberIo /\ f \notin InPark /\ f \notin DOMAIN fiberJoin
      /\ f \notin DOMAIN selectSets /\ st[f] \in {"new", "paused"} \cup Over
  BY <1>4 DEF PlaceInv, Apart, Statuses
<1>6. CASE (IsDead(st[f]) \/ st[f] = "error") /\ CompleteFiber(f, Verdict(st[f]), q, <<>>)
  <2> HIDE DEF f, q
  <2>1. IoReaders' /\ IoWithout(f) /\ BeginComplete(f, Verdict(st[f]), q, <<>>)
    BY <1>6, IoGone DEF CompleteFiber, SchedInv, PlaceInv
  <2>2. Terminated(st'[f])
    BY <1>1, <1>6 DEF Terminated, Failed
  <2>3. /\ StackSound(<<>>, st', loop) /\ Deep(<<>>) /\ OwnersOf(<<>>) = {} /\ Doomed(<<>>) = {}
        /\ Copied(<<>>) = {} /\ Candidates(<<>>) = {}
    BY EmptyStack
  <2>4. \A g \in Fibers : st'[g] = st[g] /\ st'[g] # "alive"
    BY <1>1, <1>2
  <2> QED BY <1>1, <1>2, <1>4, <2>1, <2>2, <2>3, <2>4, CompletePlaces
<1>7. CASE /\ ~(IsDead(st[f]) \/ st[f] = "error") /\ runnable' = q /\ stack' = <<Resume(f)>>
           /\ UNCHANGED <<ioVars, waitVars>>
  <2> HIDE DEF f, q
  <2>1. st[f] \in {"new", "paused"}
    BY <1>5, <1>7 DEF Over, IsDead
  <2>2. /\ StackSound(<<>>, st, loop) /\ Deep(<<>>) /\ OwnersOf(<<>>) = {} /\ Doomed(<<>>) = {}
        /\ Copied(<<>>) = {} /\ Candidates(<<>>) = {}
    BY EmptyStack
  <2>3. stack' = <<Resume(f)>> \o <<>>
    BY <1>7, OneFunction
  <2>4. StackSound(stack', st, loop) /\ Extends(stack', <<>>, {f}, {})
    BY <1>4, <2>1, <2>2, <2>3, PushResume
  <2>5. /\ Tail(stack') = <<>> /\ OwnersOf(stack') = {f} /\ Raised(stack') = {} /\ Doomed(stack') = {}
        /\ Copied(stack') = {} /\ Candidates(stack') = {}
    BY <2>2, <2>4 DEF Extends
  <2>6. InPark' = InPark /\ IoReaders' /\ WaitReaders' /\ UNCHANGED <<fiberIo, pending>>
    BY <1>7 DEF InPark, Within, PlaceInv, IoReaders, WaitReaders, ioVars, waitVars
  <2>7. \A g \in Fibers : Stays(g) \/ \E where : Moves(g, where)
    <3>1. \A g \in Fibers : g # f => Stays(g)
      BY <1>1, <1>2, <1>4, <1>7, <2>5, <2>6 DEF Stays, waitVars
    <3>2. Moves(f, "held")
      BY <1>1, <1>2, <1>4, <1>5, <1>7, <2>5, <2>6 DEF Moves, waitVars
    <3> QED BY <3>1, <3>2
  <2>8. Apart' /\ Statuses'
    BY <2>7, PlacesKept DEF PlaceInv
  <2>9. Frames' /\ CandidatesFresh' /\ Distinct(runnable)'
    BY <1>1, <1>4, <1>7, <2>2, <2>4, <2>5 DEF Frames, CandidatesFresh
  <2>10. Teardown'
    BY <1>1, <1>2, <2>5, <2>6 DEF PlaceInv, Teardown, Serving
  <2> QED BY <2>6, <2>8, <2>9, <2>10 DEF PlaceInv
<1> QED BY <1>6, <1>7 DEF DrainOne, f, q

\* do-shutdown starts with an exact copy of pending.
LEMMA BeginShutdownPlaces ==
    ASSUME SchedInv, PlaceInv, stack = <<>>, NEW b, BeginShutdown(b),
           UNCHANGED <<st, runnable, pending, fiberIo, waitVars>>
    PROVE  PlaceInv'
<1> DEFINE P == {<<id, pending[id]>> : id \in DOMAIN pending}
<1>1. P \in SUBSET (Ids \X Fibers) /\ loop' \notin {"drain", "wait", "after"}
  BY DEF SchedInv, IoPart, IsTable, BeginShutdown
<1>2. /\ \A p \in P : p[1] \in DOMAIN pending /\ pending[p[1]] = p[2]
      /\ \A f \in DOMAIN fiberIo : <<fiberIo[f], f>> \in P
  BY DEF SchedInv, IoPart, IoLookup
<1>3. stack' = <<AbortIo(P)>> \o <<>>
  BY OneFunction DEF BeginShutdown
<1> HIDE DEF P
<1>4. StackSound(stack', st, loop') /\ Carries(stack', <<>>, {}, {}, P, {})
  BY <1>1, <1>3, PushBase
<1>5. /\ OwnersOf(<<>>) = {} /\ Doomed(<<>>) = {} /\ Copied(<<>>) = {} /\ Candidates(<<>>) = {}
      /\ Deep(<<>>)
  BY EmptyStack
<1>6. /\ Tail(stack') = <<>> /\ OwnersOf(stack') = {} /\ Raised(stack') = {} /\ Doomed(stack') = {}
      /\ Copied(stack') = P /\ Candidates(stack') = {} /\ Deep(Tail(stack'))
  BY <1>4, <1>5 DEF Carries
<1>7. OwnersOf(stack) = {}
  BY NothingOn
<1> QED BY <1>1, <1>2, <1>4, <1>6, <1>7, LoopMoves

\* step, :pump and phase 2 go on, or start the teardown.
LEMMA DecidePlaces ==
    ASSUME SchedInv, PlaceInv, StepDecide \/ PumpDecide \/ Unwind \/ UnwindEnd \/ IoWaitEmpty
    PROVE  PlaceInv'
<1>1. stack = <<>> /\ UNCHANGED <<st, runnable, pending, fiberIo, waitVars>>
  BY DEF StepDecide, PumpDecide, Unwind, UnwindEnd, IoWaitEmpty, At, fiberVars, ioVars
<1>2. OwnersOf(stack) = {} /\ (~Serving => \A f \in DOMAIN fiberIo : st[f] = "paused")
  BY <1>1, NothingOn
<1>3. CASE \E b : BeginShutdown(b)
  BY <1>1, <1>3, BeginShutdownPlaces
<1>4. CASE stack' = stack /\ (loop' \in {"wait", "after", "drain"} \/ ~Serving)
  <2>1. stack' = <<>> /\ (~Serving' => \A f \in DOMAIN fiberIo : st[f] = "paused")
    BY <1>1, <1>2, <1>4 DEF Serving
  <2> QED BY <1>1, <1>2, <2>1, LoopIdles
<1>5. CASE stack' = stack /\ Idle
  <2>1. DOMAIN fiberIo = {}
    BY <1>5 DEF Idle, SchedInv, IoPart, IoLookup
  <2> QED BY <1>1, <1>2, <1>5, <2>1, LoopIdles
<1>6. StepDecide => <1>3!1 \/ <1>4!1 \/ <1>5!1
  BY DEF StepDecide
<1>7. PumpDecide => <1>3!1 \/ <1>4!1
  BY DEF PumpDecide
<1>8. Unwind \/ UnwindEnd \/ IoWaitEmpty => <1>4!1
  BY DEF Unwind, UnwindEnd, IoWaitEmpty, At, Serving
<1> QED BY <1>3, <1>4, <1>5, <1>6, <1>7, <1>8

\* The backend answers: the completions are routed one by one.
LEMMA WaitPlaces ==
    ASSUME SchedInv, PlaceInv, NEW B \in SUBSET inflight, IoWait(B) \/ UnwindWait(B)
    PROVE  PlaceInv'
<1>1. stack = <<>> /\ UNCHANGED <<st, runnable, pending, fiberIo, waitVars>>
  BY DEF IoWait, UnwindWait, At, fiberVars
<1>2. OwnersOf(stack) = {} /\ (~Serving => \A f \in DOMAIN fiberIo : st[f] = "paused")
  BY <1>1, NothingOn
<1>3. B \in SUBSET Ids /\ {} \in SUBSET Keys
  BY DEF SchedInv, IoPart
<1>4. StackSound(stack', st, loop') /\ Carries(stack', <<>>, {}, {}, {}, {})
  <2>1. CASE IoWait(B)
    <3>1. stack' = <<Completions(B, {})>> \o <<>> /\ loop' \in {"drain", "wait", "after"}
      BY <2>1, OneFunction DEF IoWait
    <3> QED BY <1>3, <3>1, PushBase
  <2>2. CASE UnwindWait(B)
    <3>1. stack' = <<Unwinding(B)>> \o <<>> /\ loop' \notin {"drain", "wait", "after"}
      BY <2>2, OneFunction DEF UnwindWait
    <3> QED BY <1>3, <3>1, PushBase
  <2> QED BY <2>1, <2>2
<1>5. /\ OwnersOf(<<>>) = {} /\ Doomed(<<>>) = {} /\ Copied(<<>>) = {} /\ Candidates(<<>>) = {}
      /\ Deep(<<>>)
  BY EmptyStack
<1>6. /\ Deep(Tail(stack')) /\ OwnersOf(stack') = {} /\ Raised(stack') = {} /\ Doomed(stack') = {}
      /\ Copied(stack') = {} /\ Candidates(stack') = {}
  BY <1>4, <1>5 DEF Carries
<1>7. ~Serving' => ~Serving
  BY DEF IoWait, UnwindWait, At, Serving
<1> QED BY <1>1, <1>2, <1>4, <1>6, <1>7, LoopMoves

\* Phase 3 of do-shutdown cancels whoever is queued or in an operation.
LEMMA CancelStragglersPlaces ==
    ASSUME SchedInv, PlaceInv, CancelStragglers PROVE PlaceInv'
<1> DEFINE P == {pending[id] : id \in DOMAIN pending}
           F == P \cup Range(runnable)
<1>1. /\ stack = <<>> /\ stack' = <<>> /\ UNCHANGED waitVars /\ runnable' = <<>> /\ pending' = Empty
      /\ st' = [f \in Fibers |-> IF f \in F THEN AfterCancel(st[f]) ELSE st[f]]
      /\ fiberIo' = [f \in DOMAIN fiberIo \ P |-> fiberIo[f]]
  BY DEF CancelStragglers, At
<1>2. /\ OwnersOf(stack) = {} /\ Raised(stack) = {} /\ Doomed(stack) = {}
      /\ Copied(stack) = {} /\ Candidates(stack) = {} /\ \A g \in Fibers : st[g] # "alive"
  BY <1>1, NothingOn
<1>3. DOMAIN fiberIo \subseteq P /\ P \subseteq DOMAIN fiberIo
  BY DEF SchedInv, IoPart, IoLookup, PlaceInv, IoReaders
<1>4. DOMAIN fiberIo' = {} /\ DOMAIN pending' = {} /\ Range(runnable') = {} /\ Distinct(runnable')
  BY <1>1, <1>3 DEF Empty, Range, Distinct
<1>5. \A g \in Fibers : st'[g] = IF g \in F THEN AfterCancel(st[g]) ELSE st[g]
  BY <1>1
<1>6. InPark' = InPark /\ WaitReaders'
  BY <1>1 DEF InPark, Within, PlaceInv, WaitReaders, waitVars
<1>7. \A g \in F : g \notin InPark /\ g \notin DOMAIN fiberJoin /\ g \notin DOMAIN selectSets
  <2>1. F \subseteq Fibers
    BY RangeSeq DEF SchedInv, IoPart, CoreOK, IsTable
  <2>2. ASSUME NEW g \in F
        PROVE  g \notin InPark /\ g \notin DOMAIN fiberJoin /\ g \notin DOMAIN selectSets
    <3>1. g \in Fibers /\ (g \in Range(runnable) \/ g \in DOMAIN fiberIo)
      BY <1>3, <2>1
    <3> QED BY <3>1 DEF PlaceInv, Apart
  <2> QED BY <2>2
<1> HIDE DEF F
<1>8. \A g \in Fibers : Stays(g) \/ \E where : Moves(g, where)
  <2>1. ASSUME NEW g \in Fibers, g \in F PROVE Moves(g, "gone")
    BY <1>1, <1>2, <1>4, <1>5, <1>6, <1>7, <2>1 DEF Moves, AfterCancel, IsDead, waitVars
  <2>2. ASSUME NEW g \in Fibers, g \notin F PROVE Stays(g)
    BY <1>1, <1>2, <1>4, <1>5, <1>6, <2>2 DEF Stays, waitVars
  <2> QED BY <2>1, <2>2
<1>9. Apart' /\ Statuses'
  BY <1>8, PlacesKept DEF PlaceInv
<1>10. Frames' /\ CandidatesFresh'
  BY <1>1, <1>2, EmptyStack DEF Frames, CandidatesFresh
<1>11. IoReaders' /\ Teardown'
  BY <1>1, <1>2, <1>4 DEF IoReaders, Teardown
<1> QED BY <1>4, <1>6, <1>9, <1>10, <1>11 DEF PlaceInv

\* The tail of :pump forgets everybody.
LEMMA PumpTailPlaces ==
    ASSUME SchedInv, PlaceInv, PumpTail PROVE PlaceInv'
<1>1. /\ stack = <<>> /\ stack' = <<>> /\ st' = st /\ runnable' = <<>> /\ pending' = Empty
      /\ fiberIo' = Empty /\ fiberPark' = Empty /\ parkQueues' = Empty
      /\ fiberJoin' = Empty /\ waiters' = Empty /\ selectSets' = Empty
  BY DEF PumpTail, At, fiberVars
<1>2. DOMAIN Empty = {} /\ Range(<<>>) = {} /\ Distinct(<<>>)
  BY DEF Empty, Range, Distinct
<1>3. /\ OwnersOf(stack) = {} /\ Raised(stack) = {} /\ Doomed(stack) = {}
      /\ Copied(stack) = {} /\ Candidates(stack) = {} /\ \A g \in Fibers : st[g] # "alive"
  BY <1>1, NothingOn
<1>4. InPark' = {}
  BY <1>1, <1>2 DEF InPark, Within
<1>5. \A g \in Fibers : Stays(g)
  BY <1>1, <1>2, <1>3, <1>4 DEF Stays
<1>6. Apart' /\ Statuses'
  BY <1>5, PlacesKept DEF PlaceInv
<1>7. Frames' /\ CandidatesFresh'
  BY <1>1, <1>3, EmptyStack DEF Frames, CandidatesFresh
<1>8. IoReaders' /\ Teardown' /\ WaitReaders' /\ Distinct(runnable)'
  BY <1>1, <1>2, <1>3 DEF IoReaders, Teardown, WaitReaders, Knows, AllDistinct
<1> QED BY <1>6, <1>7, <1>8 DEF PlaceInv

-----------------------------------------------------------------------------
(* The invariant, and what it says.                                        *)

\* ev/run spawns a fiber for every thunk, and each of them once.
LEMMA InitPlaces == ASSUME Init PROVE PlaceInv
<1>1. /\ runnable = Start /\ pending = Empty /\ fiberIo = Empty /\ fiberPark = Empty
      /\ parkQueues = Empty /\ fiberJoin = Empty /\ waiters = Empty /\ selectSets = Empty
      /\ stack = <<>> /\ loop = "drain"
      /\ st = [f \in Fibers |-> IF f \in Range(Start) THEN "new" ELSE "none"]
  BY DEF Init
<1>2. DOMAIN Empty = {}
  BY DEF Empty
<1>3. /\ StackSound(stack, st, loop) /\ OwnersOf(stack) = {} /\ Raised(stack) = {} /\ Doomed(stack) = {}
      /\ Copied(stack) = {} /\ Candidates(stack) = {}
  BY <1>1, EmptyStack
<1>4. InPark = {}
  BY <1>1, <1>2 DEF InPark, Within
<1>5. Apart /\ Statuses
  BY <1>1, <1>2, <1>3, <1>4 DEF Apart, Statuses
<1>6. Frames /\ CandidatesFresh /\ Distinct(runnable)
  BY <1>1, <1>3, SchedAssumption DEF Frames, CandidatesFresh
<1>7. IoReaders /\ WaitReaders /\ Teardown
  BY <1>1, <1>2, <1>3 DEF IoReaders, WaitReaders, Teardown, Knows, AllDistinct
<1> QED BY <1>5, <1>6, <1>7 DEF PlaceInv

\* A running fiber of a careful program keeps everybody in one place.
LEMMA FiberStepPlaces ==
    ASSUME SchedInv, PlaceInv, Careful, NEW f \in Fibers, FiberStep(f) PROVE PlaceInv'
<1>1. Spawned \subseteq Fibers
  BY DEF Spawned
<1>2. CASE FiberReturn(f) \/ FiberError(f) \/ FiberYield(f) \/ SubmitIo(f) \/ RefuseIo(f)
           \/ RequestShutdown(f)
  BY <1>2, FiberEndPlaces, FiberYieldPlaces, SubmitIoPlaces, RefuseIoPlaces, RequestShutdownPlaces
<1>3. CASE \E t \in Spawned : HandleJoin(f, t) \/ HandleAbort(f, t)
  BY <1>1, <1>3, HandleJoinPlaces, HandleAbortPlaces
<1>4. CASE \E S \in SUBSET Spawned \ {{}} : HandleSelect(f, S)
  <2>1. PICK S \in SUBSET Spawned \ {{}} : HandleSelect(f, S)
    BY <1>4
  <2>2. S \in SUBSET Fibers
    BY <1>1
  <2> QED BY <2>1, <2>2, HandleSelectPlaces
<1>5. CASE \E k \in Keys : HandlePark(f, k)
  BY <1>5, HandleParkPlaces
<1>6. CASE \E k \in Keys, n \in 1..MaxWake : HandleNotify(f, k, n)
  BY <1>6, HandleNotifyPlaces
<1>7. CASE (\E k \in Keys : HandleIoForward(f, k)) \/ (\E id \in Ids : HandleIoForwardCancel(f, id))
  BY <1>7, ForwardPlaces
<1>8. CASE \E g \in Fibers : Spawn(f, g) \/ KillFiber(f, g)
  BY <1>8, SpawnPlaces, KillFiberPlaces
<1> QED BY <1>2, <1>3, <1>4, <1>5, <1>6, <1>7, <1>8 DEF FiberStep

\* Every step of a careful program keeps everybody in one place.
LEMMA NextPlaces == ASSUME SchedInv, PlaceInv, Careful, [Next]_vars PROVE PlaceInv'
<1>1. CASE \E f \in Fibers : FiberStep(f)
  BY <1>1, FiberStepPlaces
<1>2. CASE HandlerStep
  BY <1>2, FiberResumePlaces, FiberAbortPlaces, CompleteJoinsPlaces, CompleteSelectsPlaces,
     WakeParkedPlaces, RouteCompletionPlaces, WakeForwardedPlaces, AbortIoOnePlaces,
     TakeParkQueuesPlaces, AbortParkedOnePlaces, UnwindCompletionPlaces DEF HandlerStep
<1>3. CASE LoopStep
  BY <1>3, DrainOnePlaces, DecidePlaces, CancelStragglersPlaces, PumpTailPlaces DEF LoopStep
<1>4. CASE \E B \in SUBSET inflight : IoWait(B) \/ UnwindWait(B)
  BY <1>4, WaitPlaces
<1>5. CASE IoWaitEmpty
  BY <1>5, DecidePlaces
<1>6. CASE UNCHANGED vars
  BY <1>6 DEF vars, PlaceInv, Frames, Apart, Statuses, InPark, Within, IoReaders, WaitReaders,
              CandidatesFresh, Teardown, Serving
<1> QED BY <1>1, <1>2, <1>3, <1>4, <1>5, <1>6 DEF Next

\* The inductive invariant of this module holds of careful programs.
THEOREM PlaceInvariant == ASSUME Careful PROVE Spec => []PlaceInv
<1>1. Init => PlaceInv
  BY InitPlaces
<1>2. SchedInv /\ PlaceInv /\ [Next]_vars => PlaceInv'
  BY NextPlaces
<1> QED BY <1>1, <1>2, SchedInvariant, PTL DEF Spec

\* A function in progress holds f just when f owns a frame.
LEMMA BusyOwns == ASSUME PlaceInv, NEW f \in Fibers PROVE Busy(f) <=> f \in OwnersOf(stack)
<1>1. stack \in Seq(Frame)
  BY DEF PlaceInv, Frames, StackSound
<1> QED BY <1>1, RangeSeq, SchedAssumption DEF Busy, OwnersOf

\* A fiber is in one place at a time: nobody is resumed by one function of the
\* scheduler while it waits for another.
THEOREM OnePlaceAtATime == ASSUME Careful PROVE Spec => []SingleWait
<1>1. PlaceInv => SingleWait
  <2> SUFFICES ASSUME PlaceInv PROVE SingleWait
    OBVIOUS
  <2>1. ASSUME NEW f \in Fibers
        PROVE  /\ Busy(f) <=> f \in OwnersOf(stack)
               /\ Parked(f) <=> f \in InPark
               /\ Raising(f) <=> f \in Raised(stack)
    BY BusyOwns DEF Parked, InPark, Within, Raising, Raised, Top
  <2>2. \A f \in Fibers :
          /\ Queued(f) => ~InIo(f) /\ ~Parked(f) /\ ~Joining(f) /\ ~Selecting(f) /\ ~Busy(f)
          /\ InIo(f) => ~Parked(f) /\ ~Joining(f) /\ ~Selecting(f) /\ ~Busy(f)
          /\ Parked(f) => ~Joining(f) /\ ~Selecting(f) /\ ~Busy(f)
          /\ Joining(f) => ~Selecting(f) /\ ~Busy(f)
          /\ Selecting(f) => ~Busy(f)
          /\ Raising(f) => ~InIo(f) /\ ~Parked(f) /\ ~Joining(f) /\ ~Selecting(f) /\ ~Busy(f)
    BY <2>1 DEF PlaceInv, Apart, Queued, InIo, Joining, Selecting
  <2>3. /\ Distinct(runnable)
        /\ \A k \in DOMAIN parkQueues : Distinct(parkQueues[k])
        /\ \A t \in DOMAIN waiters : Distinct(waiters[t])
        /\ Unique(stack)
    BY DEF PlaceInv, WaitReaders, AllDistinct, Frames, StackSound
  <2> QED BY <2>2, <2>3 DEF SingleWait, Unique
<1> QED BY <1>1, PlaceInvariant, PTL

\* The two halves of a submission stand and fall together.
THEOREM HalvesTogether == ASSUME Careful PROVE Spec => []IoPaired
<1>1. SchedInv /\ PlaceInv => IoPaired
  BY DEF SchedInv, IoPart, PlaceInv, IoReaders, IoPaired
<1> QED BY <1>1, SchedInvariant, PlaceInvariant, PTL

\* leave-waits finds a fiber exactly where it waits.
THEOREM WaitsTogether == ASSUME Careful PROVE Spec => []WaitsPaired
<1>1. SchedInv /\ PlaceInv => WaitsPaired
  BY DEF SchedInv, WaitPart, PlaceInv, WaitReaders, Knows, WaitsPaired
<1> QED BY <1>1, SchedInvariant, PlaceInvariant, PTL

\* No fiber that ended is in a park queue, a waiter list or a select set.
THEOREM OnlyTheLivingWait == ASSUME Careful PROVE Spec => []OnlyLiveWait
<1>1. PlaceInv => OnlyLiveWait
  BY DEF PlaceInv, Statuses, OnlyLiveWait, Parked, Joining, Selecting, InPark, Within,
         Terminated, Failed, IsDead
<1> QED BY <1>1, PlaceInvariant, PTL

\* fiber/resume, and fiber/abort outside the teardown, are only ever called on a
\* fiber that has not ended.
THEOREM ResumesAreLive == ASSUME Careful PROVE Spec => []ResumesOnlyLive
<1>1. PlaceInv => ResumesOnlyLive
  <2> SUFFICES ASSUME PlaceInv, stack # <<>>, Top("resume") \/ (Top("raise") /\ ~Head(stack).protect)
               PROVE  st[Head(stack).fiber] \in {"new", "paused"}
    BY DEF ResumesOnlyLive
  <2>1. FrameSound(Head(stack), st, loop)
    BY PopStack DEF PlaceInv, Frames
  <2> QED BY <2>1 DEF FrameSound, Top
<1> QED BY <1>1, PlaceInvariant, PTL
=============================================================================
