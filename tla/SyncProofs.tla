----------------------------- MODULE SyncProofs -----------------------------
(***************************************************************************)
(* What the synchronisation library guarantees, proved for every set of    *)
(* fibers, every number of permits, every capacity and every bound.        *)
(*                                                                         *)
(* A fiber is always somewhere in one of the few operations a program      *)
(* calls on the object, so its code is one of a few sequences.  The proofs *)
(* name those sequences, say what each action does to them, and count the  *)
(* fibers that are past the point where the object let them in.            *)
(***************************************************************************)
EXTENDS SyncProps, TableFacts, FiniteSetTheorems

-----------------------------------------------------------------------------
(* The code of a fiber.                                                    *)

\* What an abort leaves of the code c of a suspended fiber.
AfterAbort(c) == IF Entered(c) \/ InCondWait(c) THEN Unwound(c) ELSE <<>>

\* The section of a lock, a semaphore or a monitor: called, entered, left.
Enter(a) == <<<<a, "main">>, <<"body", "held">>, <<"ensure", "main">>>>
Held == <<<<"body", "held">>, <<"ensure", "main">>>>
Out(x) == <<<<"ensure", x>>>>

\* A call from the body of mon:with, and the steps of a condition wait.
Ask(op) == <<<<op, "cv">>, <<"body", "held">>, <<"ensure", "main">>>>
CvRelease == <<<<"release", "cv">>, <<"park", "cv">>, <<"acquire", "cv">>, <<"body", "held">>, <<"ensure", "main">>>>
CvPark == <<<<"park", "cv">>, <<"acquire", "cv">>, <<"body", "held">>, <<"ensure", "main">>>>
CvBack == <<<<"acquire", "cv">>, <<"body", "held">>, <<"ensure", "main">>>>

\* The section of a read-write lock: called, waiting, entered.
RwEnter(a) == <<<<a, "main">>, <<"body", a>>, <<"ensure", a>>>>
RwPark(a) == <<<<"park", "main">>, <<a, "main">>, <<"body", a>>, <<"ensure", a>>>>
RwIn(a) == <<<<"body", a>>, <<"ensure", a>>>>

\* A gate to pass, what opens the latch, and the once cell's thunk.
Gate(op) == <<<<op, "main">>, <<"body", "passed">>>>
Passed == <<<<"body", "passed">>>>
Opening == <<<<"open", "main">>>>
Thunk == <<<<"body", "thunk">>, <<"ensure", "done">>, <<"body", "passed">>>>
Settle == <<<<"ensure", "done">>, <<"body", "passed">>>>

\* A call of the queue before it takes effect, waiting or not, and after.
QAct(a) == <<<<a, "main">>>>
QBack(x, a) == <<<<"acquire", x>>, <<a, "main">>>>
QWait(x, a) == <<<<"wait", x>>, <<a, "main">>>>
QRelease(x, a) == <<<<"release", x>>, <<"park", x>>, <<"acquire", x>>, <<a, "main">>>>
QPark(x, a) == <<<<"park", x>>, <<"acquire", x>>, <<a, "main">>>>
QNotify(x) == <<<<"notify", x>>, <<"release", "main">>>>
QClose == <<<<"broadcast", "full">>, <<"broadcast", "empty">>, <<"release", "main">>>>
QClosing == <<<<"broadcast", "empty">>, <<"release", "main">>>>
QDone == <<<<"release", "main">>>>

\* The code starts with the instruction <<op, x>> and goes on with d, and an
\* abort leaves e of it.
Shape(c, op, x, d, e) ==
    c # <<>> /\ Head(c)[1] = op /\ Head(c)[2] = x /\ Head(c) = <<op, x>> /\ Tail(c) = d /\ AfterAbort(c) = e

\* An abort runs the one protected release there is, or nothing.
LEMMA UnwindOne ==
    ASSUME NEW c, NEW n \in 1..Len(c), c[n][1] = "ensure", \A i \in 1..Len(c) : c[i][1] = "ensure" => i = n
    PROVE  Unwound(c) = <<c[n]>>
<1> DEFINE E == {i \in 1..Len(c) : c[i][1] = "ensure"}
<1>1. E = {n}
  OBVIOUS
<1>2. (CHOOSE j \in E : \A k \in E : j <= k) \in E
  BY <1>1
<1>3. (CHOOSE j \in E : \A k \in E : j <= k) = n
  BY <1>1, <1>2
<1> QED BY <1>1, <1>3 DEF Unwound

\* Without a protected release nothing is left.
LEMMA UnwindNone ==
    ASSUME NEW c, \A i \in 1..Len(c) : c[i][1] # "ensure" PROVE Unwound(c) = <<>>
BY DEF Unwound

\* Sequences of up to five instructions, taken apart and put together.
LEMMA Pieces ==
    /\ \A a : Tail(<<a>>) = <<>> /\ Head(<<a>>) = a /\ <<a>> # <<>> /\ Len(<<a>>) = 1
    /\ \A a, b : Tail(<<a, b>>) = <<b>> /\ Head(<<a, b>>) = a /\ <<a, b>> # <<>> /\ Len(<<a, b>>) = 2
    /\ \A a, b, c : /\ Tail(<<a, b, c>>) = <<b, c>> /\ Head(<<a, b, c>>) = a /\ <<a, b, c>> # <<>>
                    /\ Len(<<a, b, c>>) = 3
    /\ \A a, b, c, d : /\ Tail(<<a, b, c, d>>) = <<b, c, d>> /\ Head(<<a, b, c, d>>) = a /\ <<a, b, c, d>> # <<>>
                       /\ Len(<<a, b, c, d>>) = 4
    /\ \A a, b, c, d, e : /\ Tail(<<a, b, c, d, e>>) = <<b, c, d, e>> /\ Head(<<a, b, c, d, e>>) = a
                          /\ <<a, b, c, d, e>> # <<>> /\ Len(<<a, b, c, d, e>>) = 5
OBVIOUS

\* Two sequences that agree everywhere are the same, here for one put together.
LEMMA JoinIs ==
    ASSUME NEW S, NEW p \in Seq(S), NEW q \in Seq(S), NEW r \in Seq(S), Len(r) = Len(p) + Len(q),
           \A i \in 1..Len(p) : r[i] = p[i], \A i \in 1..Len(q) : r[Len(p) + i] = q[i]
    PROVE  p \o q = r
<1>1. /\ p \o q \in Seq(S) /\ Len(p \o q) = Len(p) + Len(q)
      /\ \A i \in 1..(Len(p) + Len(q)) : (p \o q)[i] = IF i <= Len(p) THEN p[i] ELSE q[i - Len(p)]
  BY ConcatProperties
<1>2. Len(p) \in Nat /\ Len(q) \in Nat
  OBVIOUS
<1> DEFINE j == p \o q
<1> HIDE DEF j
<1>3. ASSUME NEW i \in 1..Len(r) PROVE j[i] = r[i]
  <2>1. CASE i <= Len(p)
    BY <1>1, <1>2, <2>1 DEF j
  <2>2. CASE ~(i <= Len(p))
    <3>1. i - Len(p) \in 1..Len(q) /\ Len(p) + (i - Len(p)) = i
      BY <1>2, <2>2
    <3>2. r[Len(p) + (i - Len(p))] = q[i - Len(p)]
      BY <3>1
    <3> QED BY <1>1, <1>2, <2>2, <3>1, <3>2 DEF j
  <2> QED BY <2>1, <2>2
<1> QED BY <1>1, <1>3, SeqEqual DEF j

\* The instructions an operation is put together from.
LEMMA Joined ==
    /\ \A a : <<a>> \o <<>> = <<a>>
    /\ \A a, b : <<a>> \o <<b>> = <<a, b>>
    /\ \A a, b, c : <<a>> \o <<b, c>> = <<a, b, c>>
    /\ \A a, b, c, d : <<a>> \o <<b, c, d>> = <<a, b, c, d>>
    /\ \A a, b, c, d : <<a, b>> \o <<c, d>> = <<a, b, c, d>>
    /\ \A a, b, c : <<a, b>> \o <<c>> = <<a, b, c>>
    /\ \A a, b, c, d : <<a, b, c>> \o <<d>> = <<a, b, c, d>>
    /\ \A a, b, c, d, e : <<a, b, c>> \o <<d, e>> = <<a, b, c, d, e>>
<1>1. ASSUME NEW a PROVE <<a>> \o <<>> = <<a>>
  <2> DEFINE S == {a}  p == <<a>>  q == <<>>  r == <<a>>
  <2>1. p \in Seq(S) /\ q \in Seq(S) /\ r \in Seq(S) /\ Len(p) = 1 /\ Len(q) = 0 /\ Len(r) = 1
    OBVIOUS
  <2>2. (\A i \in 1..1 : r[i] = p[i]) /\ (\A i \in 1..0 : r[1 + i] = q[i])
    OBVIOUS
  <2> HIDE DEF S, p, q, r
  <2>3. /\ Len(r) = Len(p) + Len(q) /\ \A i \in 1..Len(p) : r[i] = p[i]
        /\ \A i \in 1..Len(q) : r[Len(p) + i] = q[i]
    BY <2>1, <2>2
  <2>4. p \o q = r
    BY ONLY <2>1, <2>3, JoinIs
  <2> QED BY <2>4 DEF p, q, r
<1>2. ASSUME NEW a, NEW b PROVE <<a>> \o <<b>> = <<a, b>>
  <2> DEFINE S == {a, b}  p == <<a>>  q == <<b>>  r == <<a, b>>
  <2>1. p \in Seq(S) /\ q \in Seq(S) /\ r \in Seq(S) /\ Len(p) = 1 /\ Len(q) = 1 /\ Len(r) = 2
    OBVIOUS
  <2>2. (\A i \in 1..1 : r[i] = p[i]) /\ (\A i \in 1..1 : r[1 + i] = q[i])
    OBVIOUS
  <2> HIDE DEF S, p, q, r
  <2>3. /\ Len(r) = Len(p) + Len(q) /\ \A i \in 1..Len(p) : r[i] = p[i]
        /\ \A i \in 1..Len(q) : r[Len(p) + i] = q[i]
    BY <2>1, <2>2
  <2>4. p \o q = r
    BY ONLY <2>1, <2>3, JoinIs
  <2> QED BY <2>4 DEF p, q, r
<1>3. ASSUME NEW a, NEW b, NEW c PROVE <<a>> \o <<b, c>> = <<a, b, c>>
  <2> DEFINE S == {a, b, c}  p == <<a>>  q == <<b, c>>  r == <<a, b, c>>
  <2>1. p \in Seq(S) /\ q \in Seq(S) /\ r \in Seq(S) /\ Len(p) = 1 /\ Len(q) = 2 /\ Len(r) = 3
    OBVIOUS
  <2>2. (\A i \in 1..1 : r[i] = p[i]) /\ (\A i \in 1..2 : r[1 + i] = q[i])
    OBVIOUS
  <2> HIDE DEF S, p, q, r
  <2>3. /\ Len(r) = Len(p) + Len(q) /\ \A i \in 1..Len(p) : r[i] = p[i]
        /\ \A i \in 1..Len(q) : r[Len(p) + i] = q[i]
    BY <2>1, <2>2
  <2>4. p \o q = r
    BY ONLY <2>1, <2>3, JoinIs
  <2> QED BY <2>4 DEF p, q, r
<1>4. ASSUME NEW a, NEW b, NEW c, NEW d PROVE <<a>> \o <<b, c, d>> = <<a, b, c, d>>
  <2> DEFINE S == {a, b, c, d}  p == <<a>>  q == <<b, c, d>>  r == <<a, b, c, d>>
  <2>1. p \in Seq(S) /\ q \in Seq(S) /\ r \in Seq(S) /\ Len(p) = 1 /\ Len(q) = 3 /\ Len(r) = 4
    OBVIOUS
  <2>2. (\A i \in 1..1 : r[i] = p[i]) /\ (\A i \in 1..3 : r[1 + i] = q[i])
    OBVIOUS
  <2> HIDE DEF S, p, q, r
  <2>3. /\ Len(r) = Len(p) + Len(q) /\ \A i \in 1..Len(p) : r[i] = p[i]
        /\ \A i \in 1..Len(q) : r[Len(p) + i] = q[i]
    BY <2>1, <2>2
  <2>4. p \o q = r
    BY ONLY <2>1, <2>3, JoinIs
  <2> QED BY <2>4 DEF p, q, r
<1>5. ASSUME NEW a, NEW b, NEW c, NEW d PROVE <<a, b>> \o <<c, d>> = <<a, b, c, d>>
  <2> DEFINE S == {a, b, c, d}  p == <<a, b>>  q == <<c, d>>  r == <<a, b, c, d>>
  <2>1. p \in Seq(S) /\ q \in Seq(S) /\ r \in Seq(S) /\ Len(p) = 2 /\ Len(q) = 2 /\ Len(r) = 4
    OBVIOUS
  <2>2. (\A i \in 1..2 : r[i] = p[i]) /\ (\A i \in 1..2 : r[2 + i] = q[i])
    OBVIOUS
  <2> HIDE DEF S, p, q, r
  <2>3. /\ Len(r) = Len(p) + Len(q) /\ \A i \in 1..Len(p) : r[i] = p[i]
        /\ \A i \in 1..Len(q) : r[Len(p) + i] = q[i]
    BY <2>1, <2>2
  <2>4. p \o q = r
    BY ONLY <2>1, <2>3, JoinIs
  <2> QED BY <2>4 DEF p, q, r
<1>6. ASSUME NEW a, NEW b, NEW c PROVE <<a, b>> \o <<c>> = <<a, b, c>>
  <2> DEFINE S == {a, b, c}  p == <<a, b>>  q == <<c>>  r == <<a, b, c>>
  <2>1. p \in Seq(S) /\ q \in Seq(S) /\ r \in Seq(S) /\ Len(p) = 2 /\ Len(q) = 1 /\ Len(r) = 3
    OBVIOUS
  <2>2. (\A i \in 1..2 : r[i] = p[i]) /\ (\A i \in 1..1 : r[2 + i] = q[i])
    OBVIOUS
  <2> HIDE DEF S, p, q, r
  <2>3. /\ Len(r) = Len(p) + Len(q) /\ \A i \in 1..Len(p) : r[i] = p[i]
        /\ \A i \in 1..Len(q) : r[Len(p) + i] = q[i]
    BY <2>1, <2>2
  <2>4. p \o q = r
    BY ONLY <2>1, <2>3, JoinIs
  <2> QED BY <2>4 DEF p, q, r
<1>7. ASSUME NEW a, NEW b, NEW c, NEW d PROVE <<a, b, c>> \o <<d>> = <<a, b, c, d>>
  <2> DEFINE S == {a, b, c, d}  p == <<a, b, c>>  q == <<d>>  r == <<a, b, c, d>>
  <2>1. p \in Seq(S) /\ q \in Seq(S) /\ r \in Seq(S) /\ Len(p) = 3 /\ Len(q) = 1 /\ Len(r) = 4
    OBVIOUS
  <2>2. (\A i \in 1..3 : r[i] = p[i]) /\ (\A i \in 1..1 : r[3 + i] = q[i])
    OBVIOUS
  <2> HIDE DEF S, p, q, r
  <2>3. /\ Len(r) = Len(p) + Len(q) /\ \A i \in 1..Len(p) : r[i] = p[i]
        /\ \A i \in 1..Len(q) : r[Len(p) + i] = q[i]
    BY <2>1, <2>2
  <2>4. p \o q = r
    BY ONLY <2>1, <2>3, JoinIs
  <2> QED BY <2>4 DEF p, q, r
<1>8. ASSUME NEW a, NEW b, NEW c, NEW d, NEW e PROVE <<a, b, c>> \o <<d, e>> = <<a, b, c, d, e>>
  <2> DEFINE S == {a, b, c, d, e}  p == <<a, b, c>>  q == <<d, e>>  r == <<a, b, c, d, e>>
  <2>1. p \in Seq(S) /\ q \in Seq(S) /\ r \in Seq(S) /\ Len(p) = 3 /\ Len(q) = 2 /\ Len(r) = 5
    OBVIOUS
  <2>2. (\A i \in 1..3 : r[i] = p[i]) /\ (\A i \in 1..2 : r[3 + i] = q[i])
    OBVIOUS
  <2> HIDE DEF S, p, q, r
  <2>3. /\ Len(r) = Len(p) + Len(q) /\ \A i \in 1..Len(p) : r[i] = p[i]
        /\ \A i \in 1..Len(q) : r[Len(p) + i] = q[i]
    BY <2>1, <2>2
  <2>4. p \o q = r
    BY ONLY <2>1, <2>3, JoinIs
  <2> QED BY <2>4 DEF p, q, r
<1> QED BY <1>1, <1>2, <1>3, <1>4, <1>5, <1>6, <1>7, <1>8

-----------------------------------------------------------------------------
(* Every code, taken apart.                                                *)

\* The codes of a lock, a semaphore and a monitor.
LEMMA SectionShapes ==
    /\ \A a \in {"acquire", "down"} : Shape(Enter(a), a, "main", Held, <<>>)
    /\ Shape(Enter("try"), "try", "main", Held, Out("main"))
    /\ Shape(CvBack, "acquire", "cv", Held, Out("main"))
    /\ Shape(Held, "body", "held", Out("main"), Out("main"))
    /\ \A x : Shape(Out(x), "ensure", x, <<>>, Out(x))
    /\ \A op \in {"wait", "notify", "broadcast"} : Shape(Ask(op), op, "cv", Held, Out("main"))
    /\ Shape(CvRelease, "release", "cv", CvPark, Out("main"))
    /\ Shape(CvPark, "park", "cv", CvBack, Out("main"))
<1>1. ASSUME NEW a \in {"acquire", "down"} PROVE Shape(Enter(a), a, "main", Held, <<>>)
  <2>1. Enter(a) # <<>> /\ Len(Enter(a)) = 3 /\ Head(Enter(a)) = <<a, "main">> /\ Tail(Enter(a)) = Held
    BY Pieces DEF Enter, Held
  <2>2. ~Entered(Enter(a)) /\ ~InCondWait(Enter(a))
    BY <2>1 DEF Entered, InCondWait, Enter
  <2> QED BY <2>1, <2>2 DEF Shape, AfterAbort
<1>2. Shape(Enter("try"), "try", "main", Held, Out("main"))
  <2>1. Enter("try") # <<>> /\ Len(Enter("try")) = 3 /\ Head(Enter("try")) = <<"try", "main">> /\ Tail(Enter("try")) = Held
    BY Pieces DEF Enter, Held
  <2>2. Entered(Enter("try")) \/ InCondWait(Enter("try"))
    BY <2>1 DEF Entered, InCondWait, Enter
  <2>3. 3 \in 1..Len(Enter("try")) /\ Enter("try")[3][1] = "ensure" /\ \A i \in 1..Len(Enter("try")) : Enter("try")[i][1] = "ensure" => i = 3
    BY <2>1 DEF Enter
  <2>4. Unwound(Enter("try")) = <<Enter("try")[3]>>
    BY <2>3, UnwindOne
  <2>5. <<Enter("try")[3]>> = Out("main")
    BY DEF Enter, Out
  <2> QED BY <2>1, <2>2, <2>4, <2>5 DEF Shape, AfterAbort
<1>3. Shape(CvBack, "acquire", "cv", Held, Out("main"))
  <2>1. CvBack # <<>> /\ Len(CvBack) = 3 /\ Head(CvBack) = <<"acquire", "cv">> /\ Tail(CvBack) = Held
    BY Pieces DEF CvBack, Held
  <2>2. Entered(CvBack) \/ InCondWait(CvBack)
    BY <2>1 DEF Entered, InCondWait, CvBack
  <2>3. 3 \in 1..Len(CvBack) /\ CvBack[3][1] = "ensure" /\ \A i \in 1..Len(CvBack) : CvBack[i][1] = "ensure" => i = 3
    BY <2>1 DEF CvBack
  <2>4. Unwound(CvBack) = <<CvBack[3]>>
    BY <2>3, UnwindOne
  <2>5. <<CvBack[3]>> = Out("main")
    BY DEF CvBack, Out
  <2> QED BY <2>1, <2>2, <2>4, <2>5 DEF Shape, AfterAbort
<1>4. Shape(Held, "body", "held", Out("main"), Out("main"))
  <2>1. Held # <<>> /\ Len(Held) = 2 /\ Head(Held) = <<"body", "held">> /\ Tail(Held) = Out("main")
    BY Pieces DEF Held, Out
  <2>2. Entered(Held) \/ InCondWait(Held)
    BY <2>1 DEF Entered, InCondWait, Held
  <2>3. 2 \in 1..Len(Held) /\ Held[2][1] = "ensure" /\ \A i \in 1..Len(Held) : Held[i][1] = "ensure" => i = 2
    BY <2>1 DEF Held
  <2>4. Unwound(Held) = <<Held[2]>>
    BY <2>3, UnwindOne
  <2>5. <<Held[2]>> = Out("main")
    BY DEF Held, Out
  <2> QED BY <2>1, <2>2, <2>4, <2>5 DEF Shape, AfterAbort
<1>5. ASSUME NEW x PROVE Shape(Out(x), "ensure", x, <<>>, Out(x))
  <2>1. Out(x) # <<>> /\ Len(Out(x)) = 1 /\ Head(Out(x)) = <<"ensure", x>> /\ Tail(Out(x)) = <<>>
    BY Pieces DEF Out
  <2>2. Entered(Out(x)) \/ InCondWait(Out(x))
    BY <2>1 DEF Entered, InCondWait, Out
  <2>3. 1 \in 1..Len(Out(x)) /\ Out(x)[1][1] = "ensure" /\ \A i \in 1..Len(Out(x)) : Out(x)[i][1] = "ensure" => i = 1
    BY <2>1 DEF Out
  <2>4. Unwound(Out(x)) = <<Out(x)[1]>>
    BY <2>3, UnwindOne
  <2>5. <<Out(x)[1]>> = Out(x)
    BY DEF Out, Out
  <2> QED BY <2>1, <2>2, <2>4, <2>5 DEF Shape, AfterAbort
<1>6. ASSUME NEW op \in {"wait", "notify", "broadcast"} PROVE Shape(Ask(op), op, "cv", Held, Out("main"))
  <2>1. Ask(op) # <<>> /\ Len(Ask(op)) = 3 /\ Head(Ask(op)) = <<op, "cv">> /\ Tail(Ask(op)) = Held
    BY Pieces DEF Ask, Held
  <2>2. Entered(Ask(op)) \/ InCondWait(Ask(op))
    BY <2>1 DEF Entered, InCondWait, Ask
  <2>3. 3 \in 1..Len(Ask(op)) /\ Ask(op)[3][1] = "ensure" /\ \A i \in 1..Len(Ask(op)) : Ask(op)[i][1] = "ensure" => i = 3
    BY <2>1 DEF Ask
  <2>4. Unwound(Ask(op)) = <<Ask(op)[3]>>
    BY <2>3, UnwindOne
  <2>5. <<Ask(op)[3]>> = Out("main")
    BY DEF Ask, Out
  <2> QED BY <2>1, <2>2, <2>4, <2>5 DEF Shape, AfterAbort
<1>7. Shape(CvRelease, "release", "cv", CvPark, Out("main"))
  <2>1. CvRelease # <<>> /\ Len(CvRelease) = 5 /\ Head(CvRelease) = <<"release", "cv">> /\ Tail(CvRelease) = CvPark
    BY Pieces DEF CvRelease, CvPark
  <2>2. Entered(CvRelease) \/ InCondWait(CvRelease)
    BY <2>1 DEF Entered, InCondWait, CvRelease
  <2>3. 5 \in 1..Len(CvRelease) /\ CvRelease[5][1] = "ensure" /\ \A i \in 1..Len(CvRelease) : CvRelease[i][1] = "ensure" => i = 5
    BY <2>1 DEF CvRelease
  <2>4. Unwound(CvRelease) = <<CvRelease[5]>>
    BY <2>3, UnwindOne
  <2>5. <<CvRelease[5]>> = Out("main")
    BY DEF CvRelease, Out
  <2> QED BY <2>1, <2>2, <2>4, <2>5 DEF Shape, AfterAbort
<1>8. Shape(CvPark, "park", "cv", CvBack, Out("main"))
  <2>1. CvPark # <<>> /\ Len(CvPark) = 4 /\ Head(CvPark) = <<"park", "cv">> /\ Tail(CvPark) = CvBack
    BY Pieces DEF CvPark, CvBack
  <2>2. Entered(CvPark) \/ InCondWait(CvPark)
    BY <2>1 DEF Entered, InCondWait, CvPark
  <2>3. 4 \in 1..Len(CvPark) /\ CvPark[4][1] = "ensure" /\ \A i \in 1..Len(CvPark) : CvPark[i][1] = "ensure" => i = 4
    BY <2>1 DEF CvPark
  <2>4. Unwound(CvPark) = <<CvPark[4]>>
    BY <2>3, UnwindOne
  <2>5. <<CvPark[4]>> = Out("main")
    BY DEF CvPark, Out
  <2> QED BY <2>1, <2>2, <2>4, <2>5 DEF Shape, AfterAbort
<1> QED BY <1>1, <1>2, <1>3, <1>4, <1>5, <1>6, <1>7, <1>8

\* The codes of a read-write lock.
LEMMA RwShapes ==
    /\ \A a \in {"read", "write"} : Shape(RwEnter(a), a, "main", RwIn(a), <<>>)
    /\ \A a \in {"read", "write"} : Shape(RwPark(a), "park", "main", RwEnter(a), <<>>)
    /\ \A a \in {"read", "write"} : Shape(RwIn(a), "body", a, Out(a), Out(a))
<1>1. ASSUME NEW a \in {"read", "write"} PROVE Shape(RwEnter(a), a, "main", RwIn(a), <<>>)
  <2>1. RwEnter(a) # <<>> /\ Len(RwEnter(a)) = 3 /\ Head(RwEnter(a)) = <<a, "main">> /\ Tail(RwEnter(a)) = RwIn(a)
    BY Pieces DEF RwEnter, RwIn
  <2>2. ~Entered(RwEnter(a)) /\ ~InCondWait(RwEnter(a))
    BY <2>1 DEF Entered, InCondWait, RwEnter
  <2> QED BY <2>1, <2>2 DEF Shape, AfterAbort
<1>2. ASSUME NEW a \in {"read", "write"} PROVE Shape(RwPark(a), "park", "main", RwEnter(a), <<>>)
  <2>1. RwPark(a) # <<>> /\ Len(RwPark(a)) = 4 /\ Head(RwPark(a)) = <<"park", "main">> /\ Tail(RwPark(a)) = RwEnter(a)
    BY Pieces DEF RwPark, RwEnter
  <2>2. ~Entered(RwPark(a)) /\ ~InCondWait(RwPark(a))
    BY <2>1 DEF Entered, InCondWait, RwPark
  <2> QED BY <2>1, <2>2 DEF Shape, AfterAbort
<1>3. ASSUME NEW a \in {"read", "write"} PROVE Shape(RwIn(a), "body", a, Out(a), Out(a))
  <2>1. RwIn(a) # <<>> /\ Len(RwIn(a)) = 2 /\ Head(RwIn(a)) = <<"body", a>> /\ Tail(RwIn(a)) = Out(a)
    BY Pieces DEF RwIn, Out
  <2>2. Entered(RwIn(a)) \/ InCondWait(RwIn(a))
    BY <2>1 DEF Entered, InCondWait, RwIn
  <2>3. 2 \in 1..Len(RwIn(a)) /\ RwIn(a)[2][1] = "ensure" /\ \A i \in 1..Len(RwIn(a)) : RwIn(a)[i][1] = "ensure" => i = 2
    BY <2>1 DEF RwIn
  <2>4. Unwound(RwIn(a)) = <<RwIn(a)[2]>>
    BY <2>3, UnwindOne
  <2>5. <<RwIn(a)[2]>> = Out(a)
    BY DEF RwIn, Out
  <2> QED BY <2>1, <2>2, <2>4, <2>5 DEF Shape, AfterAbort
<1> QED BY <1>1, <1>2, <1>3

\* The codes of a barrier, a latch and a once cell.
LEMMA GateShapes ==
    /\ \A op \in {"arrive", "gate", "get", "park"} : Shape(Gate(op), op, "main", Passed, <<>>)
    /\ Shape(Passed, "body", "passed", <<>>, <<>>)
    /\ Shape(Opening, "open", "main", <<>>, <<>>)
    /\ Shape(Thunk, "body", "thunk", Settle, Out("done"))
    /\ Shape(Settle, "ensure", "done", Passed, Out("done"))
<1>1. ASSUME NEW op \in {"arrive", "gate", "get", "park"} PROVE Shape(Gate(op), op, "main", Passed, <<>>)
  <2>1. Gate(op) # <<>> /\ Len(Gate(op)) = 2 /\ Head(Gate(op)) = <<op, "main">> /\ Tail(Gate(op)) = Passed
    BY Pieces DEF Gate, Passed
  <2>2. \A i \in 1..Len(Gate(op)) : Gate(op)[i][1] # "ensure"
    BY <2>1 DEF Gate
  <2>3. Unwound(Gate(op)) = <<>>
    BY <2>2, UnwindNone
  <2> QED BY <2>1, <2>3 DEF Shape, AfterAbort
<1>2. Shape(Passed, "body", "passed", <<>>, <<>>)
  <2>1. Passed # <<>> /\ Len(Passed) = 1 /\ Head(Passed) = <<"body", "passed">> /\ Tail(Passed) = <<>>
    BY Pieces DEF Passed
  <2>2. \A i \in 1..Len(Passed) : Passed[i][1] # "ensure"
    BY <2>1 DEF Passed
  <2>3. Unwound(Passed) = <<>>
    BY <2>2, UnwindNone
  <2> QED BY <2>1, <2>3 DEF Shape, AfterAbort
<1>3. Shape(Opening, "open", "main", <<>>, <<>>)
  <2>1. Opening # <<>> /\ Len(Opening) = 1 /\ Head(Opening) = <<"open", "main">> /\ Tail(Opening) = <<>>
    BY Pieces DEF Opening
  <2>2. \A i \in 1..Len(Opening) : Opening[i][1] # "ensure"
    BY <2>1 DEF Opening
  <2>3. Unwound(Opening) = <<>>
    BY <2>2, UnwindNone
  <2> QED BY <2>1, <2>3 DEF Shape, AfterAbort
<1>4. Shape(Thunk, "body", "thunk", Settle, Out("done"))
  <2>1. Thunk # <<>> /\ Len(Thunk) = 3 /\ Head(Thunk) = <<"body", "thunk">> /\ Tail(Thunk) = Settle
    BY Pieces DEF Thunk, Settle
  <2>2. Entered(Thunk) \/ InCondWait(Thunk)
    BY <2>1 DEF Entered, InCondWait, Thunk
  <2>3. 2 \in 1..Len(Thunk) /\ Thunk[2][1] = "ensure" /\ \A i \in 1..Len(Thunk) : Thunk[i][1] = "ensure" => i = 2
    BY <2>1 DEF Thunk
  <2>4. Unwound(Thunk) = <<Thunk[2]>>
    BY <2>3, UnwindOne
  <2>5. <<Thunk[2]>> = Out("done")
    BY DEF Thunk, Out
  <2> QED BY <2>1, <2>2, <2>4, <2>5 DEF Shape, AfterAbort
<1>5. Shape(Settle, "ensure", "done", Passed, Out("done"))
  <2>1. Settle # <<>> /\ Len(Settle) = 2 /\ Head(Settle) = <<"ensure", "done">> /\ Tail(Settle) = Passed
    BY Pieces DEF Settle, Passed
  <2>2. Entered(Settle) \/ InCondWait(Settle)
    BY <2>1 DEF Entered, InCondWait, Settle
  <2>3. 1 \in 1..Len(Settle) /\ Settle[1][1] = "ensure" /\ \A i \in 1..Len(Settle) : Settle[i][1] = "ensure" => i = 1
    BY <2>1 DEF Settle
  <2>4. Unwound(Settle) = <<Settle[1]>>
    BY <2>3, UnwindOne
  <2>5. <<Settle[1]>> = Out("done")
    BY DEF Settle, Out
  <2> QED BY <2>1, <2>2, <2>4, <2>5 DEF Shape, AfterAbort
<1> QED BY <1>1, <1>2, <1>3, <1>4, <1>5

\* The codes of a queue.
LEMMA QueueShapes ==
    /\ \A a \in {"put", "take", "close"} : Shape(QAct(a), a, "main", <<>>, <<>>)
    /\ \A a \in {"put", "take", "close"}, x \in {"main", "full", "empty"} : Shape(QBack(x, a), "acquire", x, QAct(a), <<>>)
    /\ \A a \in {"put", "take", "close"}, x \in {"main", "full", "empty"} : Shape(QWait(x, a), "wait", x, QAct(a), <<>>)
    /\ \A a \in {"put", "take", "close"}, x \in {"main", "full", "empty"} : Shape(QRelease(x, a), "release", x, QPark(x, a), <<>>)
    /\ \A a \in {"put", "take", "close"}, x \in {"main", "full", "empty"} : Shape(QPark(x, a), "park", x, QBack(x, a), <<>>)
    /\ \A x : Shape(QNotify(x), "notify", x, QDone, <<>>)
    /\ Shape(QClose, "broadcast", "full", QClosing, <<>>)
    /\ Shape(QClosing, "broadcast", "empty", QDone, <<>>)
    /\ Shape(QDone, "release", "main", <<>>, <<>>)
<1>1. ASSUME NEW a \in {"put", "take", "close"} PROVE Shape(QAct(a), a, "main", <<>>, <<>>)
  <2>1. QAct(a) # <<>> /\ Len(QAct(a)) = 1 /\ Head(QAct(a)) = <<a, "main">> /\ Tail(QAct(a)) = <<>>
    BY Pieces DEF QAct
  <2>2. \A i \in 1..Len(QAct(a)) : QAct(a)[i][1] # "ensure"
    BY <2>1 DEF QAct
  <2>3. Unwound(QAct(a)) = <<>>
    BY <2>2, UnwindNone
  <2> QED BY <2>1, <2>3 DEF Shape, AfterAbort
<1>2. ASSUME NEW a \in {"put", "take", "close"}, NEW x \in {"main", "full", "empty"} PROVE Shape(QBack(x, a), "acquire", x, QAct(a), <<>>)
  <2>1. QBack(x, a) # <<>> /\ Len(QBack(x, a)) = 2 /\ Head(QBack(x, a)) = <<"acquire", x>> /\ Tail(QBack(x, a)) = QAct(a)
    BY Pieces DEF QBack, QAct
  <2>2. \A i \in 1..Len(QBack(x, a)) : QBack(x, a)[i][1] # "ensure"
    BY <2>1 DEF QBack
  <2>3. Unwound(QBack(x, a)) = <<>>
    BY <2>2, UnwindNone
  <2> QED BY <2>1, <2>3 DEF Shape, AfterAbort
<1>3. ASSUME NEW a \in {"put", "take", "close"}, NEW x \in {"main", "full", "empty"} PROVE Shape(QWait(x, a), "wait", x, QAct(a), <<>>)
  <2>1. QWait(x, a) # <<>> /\ Len(QWait(x, a)) = 2 /\ Head(QWait(x, a)) = <<"wait", x>> /\ Tail(QWait(x, a)) = QAct(a)
    BY Pieces DEF QWait, QAct
  <2>2. \A i \in 1..Len(QWait(x, a)) : QWait(x, a)[i][1] # "ensure"
    BY <2>1 DEF QWait
  <2>3. Unwound(QWait(x, a)) = <<>>
    BY <2>2, UnwindNone
  <2> QED BY <2>1, <2>3 DEF Shape, AfterAbort
<1>4. ASSUME NEW a \in {"put", "take", "close"}, NEW x \in {"main", "full", "empty"} PROVE Shape(QRelease(x, a), "release", x, QPark(x, a), <<>>)
  <2>1. QRelease(x, a) # <<>> /\ Len(QRelease(x, a)) = 4 /\ Head(QRelease(x, a)) = <<"release", x>> /\ Tail(QRelease(x, a)) = QPark(x, a)
    BY Pieces DEF QRelease, QPark
  <2>2. \A i \in 1..Len(QRelease(x, a)) : QRelease(x, a)[i][1] # "ensure"
    BY <2>1 DEF QRelease
  <2>3. Unwound(QRelease(x, a)) = <<>>
    BY <2>2, UnwindNone
  <2> QED BY <2>1, <2>3 DEF Shape, AfterAbort
<1>5. ASSUME NEW a \in {"put", "take", "close"}, NEW x \in {"main", "full", "empty"} PROVE Shape(QPark(x, a), "park", x, QBack(x, a), <<>>)
  <2>1. QPark(x, a) # <<>> /\ Len(QPark(x, a)) = 3 /\ Head(QPark(x, a)) = <<"park", x>> /\ Tail(QPark(x, a)) = QBack(x, a)
    BY Pieces DEF QPark, QBack
  <2>2. \A i \in 1..Len(QPark(x, a)) : QPark(x, a)[i][1] # "ensure"
    BY <2>1 DEF QPark
  <2>3. Unwound(QPark(x, a)) = <<>>
    BY <2>2, UnwindNone
  <2> QED BY <2>1, <2>3 DEF Shape, AfterAbort
<1>6. ASSUME NEW x PROVE Shape(QNotify(x), "notify", x, QDone, <<>>)
  <2>1. QNotify(x) # <<>> /\ Len(QNotify(x)) = 2 /\ Head(QNotify(x)) = <<"notify", x>> /\ Tail(QNotify(x)) = QDone
    BY Pieces DEF QNotify, QDone
  <2>2. \A i \in 1..Len(QNotify(x)) : QNotify(x)[i][1] # "ensure"
    BY <2>1 DEF QNotify
  <2>3. Unwound(QNotify(x)) = <<>>
    BY <2>2, UnwindNone
  <2> QED BY <2>1, <2>3 DEF Shape, AfterAbort
<1>7. Shape(QClose, "broadcast", "full", QClosing, <<>>)
  <2>1. QClose # <<>> /\ Len(QClose) = 3 /\ Head(QClose) = <<"broadcast", "full">> /\ Tail(QClose) = QClosing
    BY Pieces DEF QClose, QClosing
  <2>2. \A i \in 1..Len(QClose) : QClose[i][1] # "ensure"
    BY <2>1 DEF QClose
  <2>3. Unwound(QClose) = <<>>
    BY <2>2, UnwindNone
  <2> QED BY <2>1, <2>3 DEF Shape, AfterAbort
<1>8. Shape(QClosing, "broadcast", "empty", QDone, <<>>)
  <2>1. QClosing # <<>> /\ Len(QClosing) = 2 /\ Head(QClosing) = <<"broadcast", "empty">> /\ Tail(QClosing) = QDone
    BY Pieces DEF QClosing, QDone
  <2>2. \A i \in 1..Len(QClosing) : QClosing[i][1] # "ensure"
    BY <2>1 DEF QClosing
  <2>3. Unwound(QClosing) = <<>>
    BY <2>2, UnwindNone
  <2> QED BY <2>1, <2>3 DEF Shape, AfterAbort
<1>9. Shape(QDone, "release", "main", <<>>, <<>>)
  <2>1. QDone # <<>> /\ Len(QDone) = 1 /\ Head(QDone) = <<"release", "main">> /\ Tail(QDone) = <<>>
    BY Pieces DEF QDone
  <2>2. \A i \in 1..Len(QDone) : QDone[i][1] # "ensure"
    BY <2>1 DEF QDone
  <2>3. Unwound(QDone) = <<>>
    BY <2>2, UnwindNone
  <2> QED BY <2>1, <2>3 DEF Shape, AfterAbort
<1> QED BY <1>1, <1>2, <1>3, <1>4, <1>5, <1>6, <1>7, <1>8, <1>9

-----------------------------------------------------------------------------
(* Every fiber is somewhere in an operation of the object.                 *)

LockCodes(A) == {<<>>, Held, Out("main")} \cup {Enter(a) : a \in A}
MonitorCodes == LockCodes({"acquire"}) \cup {CvRelease, CvPark, CvBack}
                \cup {Ask(op) : op \in {"wait", "notify", "broadcast"}}
RwCodes == {<<>>} \cup UNION {{RwEnter(a), RwPark(a), RwIn(a), Out(a)} : a \in {"read", "write"}}
GateCodes(A) == {<<>>, Passed} \cup {Gate(op) : op \in A}
OnceCodes == GateCodes({"get", "park"}) \cup {Thunk, Settle, Out("done")}
\* The codes of a call that was not answered yet, and of one that was.
Unanswered == UNION {{QAct(a)} \cup UNION {{QBack(x, a), QWait(x, a), QRelease(x, a), QPark(x, a)} :
                                            x \in {"main", "full", "empty"}} :
                      a \in {"put", "take", "close"}}
Served == {<<>>, QNotify("full"), QNotify("empty"), QClose, QClosing, QDone}

\* The codes of the fibers that share an object of kind k.
Codes(k) == CASE k = "lock" -> LockCodes({"acquire", "try"})
              [] k = "semaphore" -> LockCodes({"down", "try"})
              [] k = "monitor" -> MonitorCodes
              [] k = "rwlock" -> RwCodes
              [] k = "barrier" -> GateCodes({"arrive", "park"})
              [] k = "latch" -> GateCodes({"gate", "park"}) \cup {Opening}
              [] k = "once" -> OnceCodes
              [] k = "queue" -> Unanswered \cup Served

CodesHold == code \in [Fibers -> Codes(kind)] /\ kind \in AllKinds

Op(c) == Head(c)[1]
Arg(c) == Head(c)[2]

\* What a step may put in the place of the code c of a fiber.
Move(c, d) ==
    \/ c = <<>> /\ d \in Operations
    \/ c # <<>> /\ d = AfterAbort(c)
    \/ c # <<>> /\ Op(c) \notin {"wait", "gate", "put", "take", "close"} /\ d = Tail(c)
    \/ c # <<>> /\ Op(c) = "try" /\ d = <<>>
    \/ /\ c # <<>> /\ Op(c) = "wait"
       /\ d = <<<<"release", Arg(c)>>, <<"park", Arg(c)>>, <<"acquire", Arg(c)>>>> \o Tail(c)
    \/ c # <<>> /\ Op(c) \in {"read", "write"} /\ d = <<<<"park", "main">>>> \o c
    \/ c # <<>> /\ Op(c) \in {"arrive", "gate", "get"} /\ d = <<<<"park", "main">>>> \o Tail(c)
    \/ c # <<>> /\ Op(c) = "get" /\ d = <<<<"body", "thunk">>, <<"ensure", "done">>>> \o Tail(c)
    \/ c # <<>> /\ Op(c) \in {"put", "take"} /\ \E x \in {"full", "empty"} : d = <<<<"wait", x>>>> \o c
    \/ c # <<>> /\ Op(c) \in {"put", "take"} /\ d \in {QDone, QNotify("full"), QNotify("empty")}
    \/ c # <<>> /\ Op(c) = "close" /\ d = QClose
    \/ /\ kind = "monitor" /\ c # <<>> /\ Op(c) = "body"
       /\ \E op \in {"wait", "notify", "broadcast"} : d = <<<<op, "cv">>>> \o c

\* A step changes the code of one fiber at most, in one of those ways.
MovesOne == code' = code \/ \E f \in Fibers : \E d : code' = [code EXCEPT ![f] = d] /\ Move(code[f], d)

\* What each call of the library needs of the fiber's code.
LEMMA CallOps ==
    ASSUME NEW f \in Fibers, Call(f)
    PROVE  /\ Running(f) /\ code[f] # <<>>
           /\ \/ FutexWait(f) /\ Op(code[f]) = "park"
              \/ Acquire(f) /\ Op(code[f]) = "acquire"
              \/ TryAcquire(f) /\ Op(code[f]) = "try"
              \/ Release(f) /\ Op(code[f]) \in {"release", "ensure"} /\ kind \in {"lock", "queue", "monitor"}
              \/ SemAcquire(f) /\ Op(code[f]) = "down"
              \/ SemRelease(f) /\ Op(code[f]) = "ensure" /\ kind = "semaphore"
              \/ CvWait(f) /\ Op(code[f]) = "wait"
              \/ Notify(f) /\ Op(code[f]) \in {"notify", "broadcast"}
              \/ RwAcquire(f) /\ Op(code[f]) \in {"read", "write"}
              \/ RwRelease(f) /\ Op(code[f]) = "ensure" /\ kind = "rwlock"
              \/ BarrierWait(f) /\ Op(code[f]) = "arrive"
              \/ LatchWait(f) /\ Op(code[f]) = "gate"
              \/ OnceGet(f) /\ Op(code[f]) = "get"
              \/ Open(f) /\ (Op(code[f]) = "open" \/ (Op(code[f]) = "ensure" /\ kind = "once"))
              \/ QueuePut(f) /\ Op(code[f]) = "put"
              \/ QueueTake(f) /\ Op(code[f]) = "take"
              \/ QueueClose(f) /\ Op(code[f]) = "close"
<1>1. ASSUME NEW op, Doing(f, op) PROVE Running(f) /\ code[f] # <<>> /\ Op(code[f]) = op
  BY <1>1 DEF Doing, Op
<1>2. CASE FutexWait(f) BY <1>1, <1>2 DEF FutexWait
<1>3. CASE Acquire(f) BY <1>1, <1>3 DEF Acquire
<1>4. CASE TryAcquire(f) BY <1>1, <1>4 DEF TryAcquire
<1>5. CASE Release(f) BY <1>1, <1>5 DEF Release
<1>6. CASE SemAcquire(f) BY <1>1, <1>6 DEF SemAcquire
<1>7. CASE SemRelease(f) BY <1>1, <1>7 DEF SemRelease
<1>8. CASE CvWait(f) BY <1>1, <1>8 DEF CvWait
<1>9. CASE Notify(f)
  <2>1. Doing(f, "notify") \/ Doing(f, "broadcast")
    BY <1>9 DEF Notify
  <2> QED BY <1>1, <1>9, <2>1
<1>10. CASE RwAcquire(f) BY <1>1, <1>10 DEF RwAcquire
<1>11. CASE RwRelease(f) BY <1>1, <1>11 DEF RwRelease
<1>12. CASE BarrierWait(f) BY <1>1, <1>12 DEF BarrierWait
<1>13. CASE LatchWait(f) BY <1>1, <1>13 DEF LatchWait
<1>14. CASE OnceGet(f) BY <1>1, <1>14 DEF OnceGet
<1>15. CASE Open(f) BY <1>1, <1>15 DEF Open
<1>16. CASE QueuePut(f) BY <1>1, <1>16 DEF QueuePut
<1>17. CASE QueueTake(f) BY <1>1, <1>17 DEF QueueTake
<1>18. CASE QueueClose(f) BY <1>1, <1>18 DEF QueueClose
<1> HIDE DEF Op
<1> QED BY <1>2, <1>3, <1>4, <1>5, <1>6, <1>7, <1>8, <1>9, <1>10, <1>11, <1>12, <1>13, <1>14, <1>15, <1>16, <1>17, <1>18 DEF Call

\* Nothing but the calls, Begin, the end of a body, a call from the monitor's
\* body and an abort changes a fiber's code.
LEMMA CodeStep == ASSUME Next PROVE MovesOne
<1>1. CASE WakeNext \/ WakeReady
  BY <1>1 DEF WakeNext, WakeReady, MovesOne
<1>2. ASSUME NEW f \in Fibers, Call(f) PROVE MovesOne
  <2>0. code[f] # <<>>
    BY <1>2, CallOps
  <2>1. CASE FutexWait(f) /\ Op(code[f]) = "park"
    BY <2>0, <2>1 DEF FutexWait, Go, Goto, MovesOne, Move
  <2>2. CASE Acquire(f) /\ Op(code[f]) = "acquire"
    BY <2>0, <2>2 DEF Acquire, Go, Goto, MovesOne, Move
  <2>3. CASE TryAcquire(f) /\ Op(code[f]) = "try"
    BY <2>0, <2>3 DEF TryAcquire, Go, Goto, MovesOne, Move
  <2>4. CASE Release(f) /\ Op(code[f]) \in {"release", "ensure"}
    BY <2>0, <2>4 DEF Release, Go, Goto, MovesOne, Move
  <2>5. CASE SemAcquire(f) /\ Op(code[f]) = "down"
    BY <2>0, <2>5 DEF SemAcquire, Go, Goto, MovesOne, Move
  <2>6. CASE SemRelease(f) /\ Op(code[f]) = "ensure"
    BY <2>0, <2>6 DEF SemRelease, Go, Goto, MovesOne, Move
  <2>7. CASE CvWait(f) /\ Op(code[f]) = "wait"
    BY <2>0, <2>7 DEF CvWait, Go, Goto, MovesOne, Move, Arg
  <2>8. CASE Notify(f) /\ Op(code[f]) \in {"notify", "broadcast"}
    BY <2>0, <2>8 DEF Notify, Go, Goto, MovesOne, Move
  <2>9. CASE RwAcquire(f) /\ Op(code[f]) \in {"read", "write"}
    BY <2>0, <2>9 DEF RwAcquire, Go, Goto, MovesOne, Move
  <2>10. CASE RwRelease(f) /\ Op(code[f]) = "ensure"
    BY <2>0, <2>10 DEF RwRelease, Go, Goto, MovesOne, Move
  <2>11. CASE BarrierWait(f) /\ Op(code[f]) = "arrive"
    BY <2>0, <2>11 DEF BarrierWait, Go, Goto, MovesOne, Move
  <2>12. CASE LatchWait(f) /\ Op(code[f]) = "gate"
    BY <2>0, <2>12 DEF LatchWait, Go, Goto, MovesOne, Move
  <2>13. CASE OnceGet(f) /\ Op(code[f]) = "get"
    BY <2>0, <2>13 DEF OnceGet, Go, Goto, MovesOne, Move
  <2>14. CASE Open(f) /\ (Op(code[f]) = "open" \/ Op(code[f]) = "ensure")
    BY <2>0, <2>14 DEF Open, Go, Goto, MovesOne, Move
  <2>15. CASE QueuePut(f) /\ Op(code[f]) = "put"
    BY <2>0, <2>15 DEF QueuePut, WaitAndLook, Goto, MovesOne, Move, QDone, QNotify
  <2>16. CASE QueueTake(f) /\ Op(code[f]) = "take"
    BY <2>0, <2>16 DEF QueueTake, WaitAndLook, Goto, MovesOne, Move, QDone, QNotify
  <2>17. CASE QueueClose(f) /\ Op(code[f]) = "close"
    BY <2>0, <2>17 DEF QueueClose, Goto, MovesOne, Move, QClose
  <2> QED BY <1>2, CallOps, <2>1, <2>2, <2>3, <2>4, <2>5, <2>6, <2>7, <2>8, <2>9, <2>10, <2>11, <2>12, <2>13, <2>14, <2>15, <2>16, <2>17
<1>3. ASSUME NEW f \in Fibers, Begin(f) PROVE MovesOne
  BY <1>3 DEF Begin, Goto, MovesOne, Move
<1>4. ASSUME NEW f \in Fibers, LeaveBody(f) PROVE MovesOne
  BY <1>4 DEF LeaveBody, Doing, Go, Goto, MovesOne, Move, Op
<1>5. ASSUME NEW f \in Fibers, InMonitor(f) PROVE MovesOne
  BY <1>5 DEF InMonitor, Doing, Goto, MovesOne, Move, Op
<1>6. ASSUME NEW f \in Fibers, Suspend(f) \/ Resume(f) PROVE MovesOne
  BY <1>6 DEF Suspend, Resume, MovesOne
<1>7. ASSUME NEW f \in Fibers, NEW g \in Fibers, Abort(f, g) PROVE MovesOne
  BY <1>7 DEF Abort, Goto, MovesOne, Move, AfterAbort
<1> QED BY <1>1, <1>2, <1>3, <1>4, <1>5, <1>6, <1>7 DEF Next

\* A fiber that moves stays in an operation of the object.
LEMMA MoveKept ==
    ASSUME NEW c \in Codes(kind), NEW d, Move(c, d), kind \in AllKinds
    PROVE  d \in Codes(kind)
<1>s. ASSUME NEW b, NEW op, NEW x, NEW t, NEW e, Shape(b, op, x, t, e)
      PROVE  b # <<>> /\ Op(b) = op /\ Arg(b) = x /\ Tail(b) = t /\ AfterAbort(b) = e
  BY <1>s DEF Shape, Op, Arg
<1>o. <<>> \in Codes(kind)
  BY DEF Codes, AllKinds, LockCodes, MonitorCodes, RwCodes, GateCodes, OnceCodes, Served
<1>1. CASE kind \in {"lock", "semaphore"}
  <2> PICK A : A = IF kind = "lock" THEN {"acquire", "try"} ELSE {"down", "try"}
    OBVIOUS
  <2>1. Codes(kind) = LockCodes(A)
    BY <1>1 DEF Codes
  <2>2. Operations = {Enter(a) : a \in A}
    BY <1>1 DEF Operations, Enter
  <2>3. ASSUME NEW a \in A, c = Enter(a) PROVE d \in {Held, <<>>, Out("main")}
    <3>1. c # <<>> /\ Op(c) = a /\ Tail(c) = Held /\ AfterAbort(c) \in {<<>>, Out("main")}
      BY <2>3, <1>s, SectionShapes
    <3> QED BY <3>1, <1>1 DEF Move
  <2>4. CASE c = Held
    <3>1. c # <<>> /\ Op(c) = "body" /\ Tail(c) = Out("main") /\ AfterAbort(c) = Out("main")
      BY <2>4, <1>s, SectionShapes
    <3> QED BY <3>1, <1>1, <2>1 DEF Move, LockCodes
  <2>5. CASE c = Out("main")
    <3>1. c # <<>> /\ Op(c) = "ensure" /\ Tail(c) = <<>> /\ AfterAbort(c) = Out("main")
      BY <2>5, <1>s, SectionShapes
    <3> QED BY <3>1, <1>1, <2>1 DEF Move, LockCodes
  <2>6. CASE c = <<>>
    BY <2>1, <2>2, <2>6 DEF Move, LockCodes
  <2> QED BY <2>1, <2>3, <2>4, <2>5, <2>6 DEF LockCodes
<1>2. CASE kind = "monitor"
  <2>1. Codes(kind) = MonitorCodes
    BY <1>2 DEF Codes
  <2>2. Operations = {Enter("acquire")}
    BY <1>2 DEF Operations, Enter
  <2>3. ASSUME c = Enter("acquire") PROVE d \in MonitorCodes
    <3>1. c # <<>> /\ Op(c) = "acquire" /\ Tail(c) = Held /\ AfterAbort(c) = <<>>
      BY <2>3, <1>s, SectionShapes
    <3> QED BY <3>1 DEF Move, MonitorCodes, LockCodes
  <2>4. CASE c = Held
    <3>1. c # <<>> /\ Op(c) = "body" /\ Tail(c) = Out("main") /\ AfterAbort(c) = Out("main")
      BY <2>4, <1>s, SectionShapes
    <3>2. \A op : <<<<op, "cv">>>> \o c = Ask(op)
      BY <2>4, Joined DEF Held, Ask
    <3> QED BY <3>1, <3>2, <2>1 DEF Move, MonitorCodes, LockCodes
  <2>5. CASE c = Out("main")
    <3>1. c # <<>> /\ Op(c) = "ensure" /\ Tail(c) = <<>> /\ AfterAbort(c) = Out("main")
      BY <2>5, <1>s, SectionShapes
    <3> QED BY <3>1, <2>1 DEF Move, MonitorCodes, LockCodes
  <2>6. CASE c = <<>>
    BY <2>1, <2>2, <2>6 DEF Move, MonitorCodes, LockCodes
  <2>7. ASSUME NEW op \in {"wait", "notify", "broadcast"}, c = Ask(op) PROVE d \in MonitorCodes
    <3>1. c # <<>> /\ Op(c) = op /\ Arg(c) = "cv" /\ Tail(c) = Held /\ AfterAbort(c) = Out("main")
      BY <2>7, <1>s, SectionShapes
    <3>2. <<<<"release", "cv">>, <<"park", "cv">>, <<"acquire", "cv">>>> \o Held = CvRelease
      BY Joined DEF Held, CvRelease
    <3> QED BY <3>1, <3>2 DEF Move, MonitorCodes, LockCodes
  <2>8. CASE c = CvRelease
    <3>1. c # <<>> /\ Op(c) = "release" /\ Tail(c) = CvPark /\ AfterAbort(c) = Out("main")
      BY <2>8, <1>s, SectionShapes
    <3> QED BY <3>1, <2>1 DEF Move, MonitorCodes, LockCodes
  <2>9. CASE c = CvPark
    <3>1. c # <<>> /\ Op(c) = "park" /\ Tail(c) = CvBack /\ AfterAbort(c) = Out("main")
      BY <2>9, <1>s, SectionShapes
    <3> QED BY <3>1, <2>1 DEF Move, MonitorCodes, LockCodes
  <2>10. CASE c = CvBack
    <3>1. c # <<>> /\ Op(c) = "acquire" /\ Tail(c) = Held /\ AfterAbort(c) = Out("main")
      BY <2>10, <1>s, SectionShapes
    <3> QED BY <3>1, <2>1 DEF Move, MonitorCodes, LockCodes
  <2> QED BY <2>1, <2>3, <2>4, <2>5, <2>6, <2>7, <2>8, <2>9, <2>10 DEF MonitorCodes, LockCodes
<1>3. CASE kind = "rwlock"
  <2>1. Codes(kind) = RwCodes
    BY <1>3 DEF Codes
  <2>2. Operations = {RwEnter(a) : a \in {"read", "write"}}
    BY <1>3 DEF Operations, RwEnter
  <2>3. CASE c = <<>>
    BY <2>1, <2>2, <2>3 DEF Move, RwCodes
  <2>4. ASSUME NEW a \in {"read", "write"} PROVE RwEnter(a) \in RwCodes /\ RwPark(a) \in RwCodes /\ RwIn(a) \in RwCodes /\ Out(a) \in RwCodes /\ <<>> \in RwCodes
    BY DEF RwCodes
  <2>5. ASSUME NEW a \in {"read", "write"}, c = RwEnter(a) PROVE d \in RwCodes
    <3>1. c # <<>> /\ Op(c) = a /\ Tail(c) = RwIn(a) /\ AfterAbort(c) = <<>>
      BY <2>5, <1>s, RwShapes
    <3>2. <<<<"park", "main">>>> \o c = RwPark(a)
      BY <2>5, Joined DEF RwEnter, RwPark
    <3> QED BY <3>1, <3>2, <2>4 DEF Move
  <2>6. ASSUME NEW a \in {"read", "write"}, c = RwPark(a) PROVE d \in RwCodes
    <3>1. c # <<>> /\ Op(c) = "park" /\ Tail(c) = RwEnter(a) /\ AfterAbort(c) = <<>>
      BY <2>6, <1>s, RwShapes
    <3> QED BY <3>1, <2>4 DEF Move
  <2>7. ASSUME NEW a \in {"read", "write"}, c = RwIn(a) PROVE d \in RwCodes
    <3>1. c # <<>> /\ Op(c) = "body" /\ Tail(c) = Out(a) /\ AfterAbort(c) = Out(a)
      BY <2>7, <1>s, RwShapes
    <3> QED BY <3>1, <2>4, <1>3 DEF Move
  <2>8. ASSUME NEW a \in {"read", "write"}, c = Out(a) PROVE d \in RwCodes
    <3>1. c # <<>> /\ Op(c) = "ensure" /\ Tail(c) = <<>> /\ AfterAbort(c) = Out(a)
      BY <2>8, <1>s, SectionShapes
    <3> QED BY <3>1, <2>4 DEF Move
  <2> QED BY <2>1, <2>3, <2>5, <2>6, <2>7, <2>8 DEF RwCodes
<1>4. CASE kind \in {"barrier", "latch", "once"}
  <2> PICK k : k = IF kind = "barrier" THEN "arrive" ELSE IF kind = "latch" THEN "gate" ELSE "get"
    OBVIOUS
  <2>0. k \in {"arrive", "gate", "get", "park"} /\ "park" \in {"arrive", "gate", "get", "park"}
    OBVIOUS
  <2>1. Codes(kind) = GateCodes({k, "park"}) \cup (IF kind = "latch" THEN {Opening} ELSE IF kind = "once" THEN {Thunk, Settle, Out("done")} ELSE {})
    BY <1>4 DEF Codes, OnceCodes
  <2>2. Operations = {Gate(k)} \cup (IF kind = "latch" THEN {Opening} ELSE {})
    BY <1>4 DEF Operations, Gate, Opening
  <2>a. <<<<"park", "main">>>> \o Passed = Gate("park") /\ <<<<"body", "thunk">>, <<"ensure", "done">>>> \o Passed = Thunk
    BY Joined DEF Passed, Gate, Thunk
  <2>b. {<<>>, Passed, Gate(k), Gate("park")} \subseteq Codes(kind)
    BY <2>1 DEF GateCodes
  <2>3. CASE c = <<>>
    BY <2>1, <2>2, <2>b, <2>3 DEF Move
  <2>4. CASE c = Gate(k)
    <3>1. c # <<>> /\ Op(c) = k /\ Tail(c) = Passed /\ AfterAbort(c) = <<>>
      BY <2>0, <2>4, <1>s, GateShapes
    <3> QED BY <3>1, <2>1, <2>a, <2>b, <1>4 DEF Move
  <2>5. CASE c = Gate("park")
    <3>1. c # <<>> /\ Op(c) = "park" /\ Tail(c) = Passed /\ AfterAbort(c) = <<>>
      BY <2>0, <2>5, <1>s, GateShapes
    <3> QED BY <3>1, <2>b DEF Move
  <2>6. CASE c = Passed
    <3>1. c # <<>> /\ Op(c) = "body" /\ Tail(c) = <<>> /\ AfterAbort(c) = <<>>
      BY <2>6, <1>s, GateShapes
    <3> QED BY <3>1, <2>b, <1>4 DEF Move
  <2>7. CASE kind = "latch" /\ c = Opening
    <3>1. c # <<>> /\ Op(c) = "open" /\ Tail(c) = <<>> /\ AfterAbort(c) = <<>>
      BY <2>7, <1>s, GateShapes
    <3> QED BY <3>1, <2>b DEF Move
  <2>8. CASE kind = "once" /\ c = Thunk
    <3>1. c # <<>> /\ Op(c) = "body" /\ Tail(c) = Settle /\ AfterAbort(c) = Out("done")
      BY <2>8, <1>s, GateShapes
    <3> QED BY <3>1, <2>1, <2>8 DEF Move
  <2>9. CASE kind = "once" /\ c = Settle
    <3>1. c # <<>> /\ Op(c) = "ensure" /\ Tail(c) = Passed /\ AfterAbort(c) = Out("done")
      BY <2>9, <1>s, GateShapes
    <3> QED BY <3>1, <2>1, <2>b, <2>9 DEF Move
  <2>10. CASE kind = "once" /\ c = Out("done")
    <3>1. c # <<>> /\ Op(c) = "ensure" /\ Tail(c) = <<>> /\ AfterAbort(c) = Out("done")
      BY <2>10, <1>s, SectionShapes
    <3> QED BY <3>1, <2>1, <2>b, <2>10 DEF Move
  <2>c. c \in {<<>>, Passed, Gate(k), Gate("park")} \/ (kind = "latch" /\ c = Opening) \/ (kind = "once" /\ c \in {Thunk, Settle, Out("done")})
    BY <2>1 DEF GateCodes
  <2> QED BY <2>c, <2>3, <2>4, <2>5, <2>6, <2>7, <2>8, <2>9, <2>10
<1>5. CASE kind = "queue"
  <2>1. Codes(kind) = Unanswered \cup Served
    BY <1>5 DEF Codes
  <2>2. Operations = {QBack("main", a) : a \in {"put", "take", "close"}}
    BY <1>5 DEF Operations, QBack
  <2>3. ASSUME NEW a \in {"put", "take", "close"}, NEW x \in {"main", "full", "empty"}
        PROVE  /\ QAct(a) \in Codes(kind) /\ QBack(x, a) \in Codes(kind) /\ QWait(x, a) \in Codes(kind)
               /\ QRelease(x, a) \in Codes(kind) /\ QPark(x, a) \in Codes(kind)
    BY <2>1 DEF Unanswered
  <2>4. {<<>>, QNotify("full"), QNotify("empty"), QClose, QClosing, QDone} \subseteq Codes(kind)
    BY <2>1 DEF Served
  <2>5. CASE c = <<>>
    BY <2>2, <2>3, <2>5 DEF Move
  <2>6. ASSUME NEW a \in {"put", "take", "close"}, c = QAct(a) PROVE d \in Codes(kind)
    <3>1. c # <<>> /\ Op(c) = a /\ Tail(c) = <<>> /\ AfterAbort(c) = <<>>
      BY <2>6, <1>s, QueueShapes
    <3>2. \A x : <<<<"wait", x>>>> \o c = QWait(x, a)
      BY <2>6, Joined DEF QAct, QWait
    <3> QED BY <3>1, <3>2, <2>3, <2>4 DEF Move
  <2>7. ASSUME NEW a \in {"put", "take", "close"}, NEW x \in {"main", "full", "empty"}, c = QBack(x, a)
        PROVE  d \in Codes(kind)
    <3>0. Shape(QBack(x, a), "acquire", x, QAct(a), <<>>)
      BY QueueShapes
    <3>1. c # <<>> /\ Op(c) = "acquire" /\ Tail(c) = QAct(a) /\ AfterAbort(c) = <<>>
      BY <2>7, <3>0, <1>s
    <3> QED BY <3>1, <2>3, <2>4 DEF Move
  <2>8. ASSUME NEW a \in {"put", "take", "close"}, NEW x \in {"main", "full", "empty"}, c = QWait(x, a)
        PROVE  d \in Codes(kind)
    <3>0. Shape(QWait(x, a), "wait", x, QAct(a), <<>>)
      BY QueueShapes
    <3>1. c # <<>> /\ Op(c) = "wait" /\ Arg(c) = x /\ Tail(c) = QAct(a) /\ AfterAbort(c) = <<>>
      BY <2>8, <3>0, <1>s
    <3>2. <<<<"release", x>>, <<"park", x>>, <<"acquire", x>>>> \o QAct(a) = QRelease(x, a)
      BY Joined DEF QAct, QRelease
    <3> QED BY <3>1, <3>2, <2>3, <2>4 DEF Move
  <2>9. ASSUME NEW a \in {"put", "take", "close"}, NEW x \in {"main", "full", "empty"}, c = QRelease(x, a)
        PROVE  d \in Codes(kind)
    <3>0. Shape(QRelease(x, a), "release", x, QPark(x, a), <<>>)
      BY QueueShapes
    <3>1. c # <<>> /\ Op(c) = "release" /\ Tail(c) = QPark(x, a) /\ AfterAbort(c) = <<>>
      BY <2>9, <3>0, <1>s
    <3> QED BY <3>1, <2>3, <2>4 DEF Move
  <2>10. ASSUME NEW a \in {"put", "take", "close"}, NEW x \in {"main", "full", "empty"}, c = QPark(x, a)
        PROVE  d \in Codes(kind)
    <3>0. Shape(QPark(x, a), "park", x, QBack(x, a), <<>>)
      BY QueueShapes
    <3>1. c # <<>> /\ Op(c) = "park" /\ Tail(c) = QBack(x, a) /\ AfterAbort(c) = <<>>
      BY <2>10, <3>0, <1>s
    <3> QED BY <3>1, <2>3, <2>4 DEF Move
  <2>11. ASSUME NEW x, c = QNotify(x) PROVE d \in Codes(kind)
    <3>0. Shape(QNotify(x), "notify", x, QDone, <<>>)
      BY QueueShapes
    <3>1. c # <<>> /\ Op(c) = "notify" /\ Tail(c) = QDone /\ AfterAbort(c) = <<>>
      BY <2>11, <3>0, <1>s
    <3> QED BY <3>1, <2>4 DEF Move
  <2>12. CASE c \in {QClose, QClosing, QDone}
    <3>1. c # <<>> /\ Op(c) \in {"broadcast", "release"} /\ Tail(c) \in {QClosing, QDone, <<>>} /\ AfterAbort(c) = <<>>
      BY <2>12, <1>s, QueueShapes
    <3> QED BY <3>1, <2>4 DEF Move
  <2> QED BY <2>1, <2>5, <2>6, <2>7, <2>8, <2>9, <2>10, <2>11, <2>12 DEF Unanswered, Served
<1> QED BY <1>1, <1>2, <1>3, <1>4, <1>5 DEF AllKinds

\* The object and who serves it never change.
LEMMA SameObject == ASSUME Next PROVE UNCHANGED <<kind, host>>
<1>1. CASE WakeNext \/ WakeReady
  BY <1>1 DEF WakeNext, WakeReady, restVars
<1>2. ASSUME NEW f \in Fibers, Call(f) PROVE UNCHANGED <<kind, host>>
  BY <1>2 DEF Call, FutexWait, Acquire, TryAcquire, Release, SemAcquire, SemRelease, CvWait, Notify, RwAcquire,
              RwRelease, BarrierWait, LatchWait, OnceGet, Open, QueuePut, QueueTake, QueueClose, restVars
<1>3. ASSUME NEW f \in Fibers,
             \/ Begin(f) \/ LeaveBody(f) \/ InMonitor(f) \/ Suspend(f) \/ Resume(f)
             \/ \E g \in Fibers : Abort(f, g)
      PROVE  UNCHANGED <<kind, host>>
  BY <1>3 DEF Begin, LeaveBody, InMonitor, Suspend, Resume, Abort, restVars
<1> QED BY <1>1, <1>2, <1>3 DEF Next

\* Every fiber stays in the operations of the object.
LEMMA CodesKept == ASSUME CodesHold, [Next]_vars PROVE CodesHold'
<1>1. CASE UNCHANGED vars
  BY <1>1 DEF CodesHold, Codes, vars
<1>2. CASE Next
  <2>1. kind' = kind /\ kind \in AllKinds /\ code \in [Fibers -> Codes(kind)]
    BY <1>2, SameObject DEF CodesHold
  <2>2. CASE code' = code
    BY <2>1, <2>2 DEF CodesHold
  <2>3. ASSUME NEW f \in Fibers, NEW d, code' = [code EXCEPT ![f] = d], Move(code[f], d) PROVE CodesHold'
    <3>1. code[f] \in Codes(kind)
      BY <2>1
    <3>2. d \in Codes(kind)
      BY <2>1, <2>3, <3>1, MoveKept
    <3>3. code' \in [Fibers -> Codes(kind)]
      BY <2>1, <2>3, <3>2
    <3> QED BY <2>1, <3>3 DEF CodesHold
  <2> QED BY <1>2, <2>2, <2>3, CodeStep DEF MovesOne
<1> QED BY <1>1, <1>2

\* At first no fiber is in an operation.
LEMMA CodesStart == ASSUME Init PROVE CodesHold
<1>1. kind \in AllKinds
  BY SyncAssumption DEF Init
<1>2. <<>> \in Codes(kind)
  BY <1>1 DEF Codes, AllKinds, LockCodes, MonitorCodes, RwCodes, GateCodes, OnceCodes, Served
<1> QED BY <1>1, <1>2 DEF Init, CodesHold

-----------------------------------------------------------------------------
(* Sections: locks, semaphores, monitors.                                  *)

\* The code of a fiber the object let in and that has not left yet.
Inside(c) == c # <<>> /\ Op(c) \in {"body", "ensure", "wait", "notify", "broadcast", "release"}

Sections == {"lock", "semaphore", "monitor"}

\* The three codes of a condition wait in which the lock is, or will be, away.
LEMMA CondWaits == InCondWait(CvRelease) /\ InCondWait(CvPark) /\ InCondWait(CvBack)
<1>1. CvRelease[3] = <<"acquire", "cv">> /\ 3 \in 1..Len(CvRelease)
  BY DEF CvRelease
<1>2. CvPark[2] = <<"acquire", "cv">> /\ 2 \in 1..Len(CvPark)
  BY DEF CvPark
<1>3. CvBack[1] = <<"acquire", "cv">> /\ 1 \in 1..Len(CvBack)
  BY DEF CvBack
<1> QED BY <1>1, <1>2, <1>3 DEF InCondWait

\* What is left of a code after an instruction, and which instructions take a
\* fiber in and out.
SectionCode(c) ==
    /\ kind = "lock" => Op(c) \in {"acquire", "try", "body", "ensure"}
    /\ kind = "semaphore" => Op(c) \in {"down", "try", "body", "ensure"}
    /\ kind = "monitor" => Op(c) \in {"acquire", "body", "ensure", "wait", "notify", "broadcast", "release", "park"}
    /\ Op(c) \in {"notify", "broadcast", "wait"} => Arg(c) = "cv"
    /\ Op(c) \in {"acquire", "try", "down"} => Inside(Tail(c)) /\ Op(Tail(c)) # "try"
    /\ Op(c) \in {"body", "notify", "broadcast"} => Inside(Tail(c))
    /\ Op(c) = "wait" =>
         Inside(<<<<"release", Arg(c)>>, <<"park", Arg(c)>>, <<"acquire", Arg(c)>>>> \o Tail(c))
    /\ Op(c) = "body" /\ kind = "monitor" =>
         \A op \in {"wait", "notify", "broadcast"} : Inside(<<<<op, "cv">>>> \o c)
    /\ Op(c) \in {"ensure", "release", "park"} =>
         ~Inside(Tail(c)) /\ (Tail(c) # <<>> => Op(Tail(c)) # "try")
    /\ ~InCondWait(c) /\ Op(c) # "try" => (Inside(AfterAbort(c)) <=> Inside(c))
    /\ AfterAbort(c) # <<>> => Op(AfterAbort(c)) # "try"

\* The codes of the sections are such codes.
LEMMA SectionCodes ==
    ASSUME kind \in Sections, NEW c \in Codes(kind), c # <<>>
    PROVE  SectionCode(c)
<1>s. ASSUME NEW b, NEW op, NEW x, NEW t, NEW e, Shape(b, op, x, t, e)
      PROVE  b # <<>> /\ Op(b) = op /\ Arg(b) = x /\ Tail(b) = t /\ AfterAbort(b) = e
  BY <1>s DEF Shape, Op, Arg
<1>h. Inside(Held) /\ Op(Held) = "body" /\ ~Inside(<<>>)
  BY <1>s, SectionShapes DEF Inside
<1>o. Inside(Out("main")) /\ Op(Out("main")) = "ensure" /\ Out("main") # <<>>
  BY <1>s, SectionShapes DEF Inside
<1>1. CASE c = Held
  <2>1. Op(c) = "body" /\ Tail(c) = Out("main") /\ AfterAbort(c) = Out("main")
    BY <1>1, <1>s, SectionShapes
  <2>2. ASSUME NEW op \in {"wait", "notify", "broadcast"} PROVE Inside(<<<<op, "cv">>>> \o c)
    <3>1. <<<<op, "cv">>>> \o c = Ask(op)
      BY <1>1, Joined DEF Held, Ask
    <3>2. Ask(op) # <<>> /\ Op(Ask(op)) = op
      BY <1>s, SectionShapes
    <3> QED BY <3>1, <3>2 DEF Inside
  <2> QED BY <1>1, <2>1, <2>2, <1>o, <1>h DEF SectionCode, Sections
<1>2. CASE c = Out("main")
  <2>1. Op(c) = "ensure" /\ Tail(c) = <<>> /\ AfterAbort(c) = Out("main")
    BY <1>2, <1>s, SectionShapes
  <2> QED BY <1>2, <2>1, <1>o, <1>h DEF SectionCode, Sections
<1>3. ASSUME NEW a \in {"acquire", "down"}, c = Enter(a), kind = "semaphore" => a = "down", kind # "semaphore" => a = "acquire"
      PROVE  SectionCode(c)
  <2>1. Op(c) = a /\ Tail(c) = Held /\ AfterAbort(c) = <<>>
    BY <1>3, <1>s, SectionShapes
  <2>2. ~Inside(c)
    BY <2>1 DEF Inside
  <2> QED BY <1>3, <2>1, <2>2, <1>h DEF SectionCode, Sections
<1>4. ASSUME c = Enter("try"), kind # "monitor" PROVE SectionCode(c)
  <2>1. Op(c) = "try" /\ Tail(c) = Held /\ AfterAbort(c) = Out("main")
    BY <1>4, <1>s, SectionShapes
  <2> QED BY <1>4, <2>1, <1>h, <1>o DEF SectionCode, Sections
<1>5. ASSUME kind = "monitor", NEW op \in {"wait", "notify", "broadcast"}, c = Ask(op) PROVE SectionCode(c)
  <2>0. Shape(Ask(op), op, "cv", Held, Out("main"))
    BY SectionShapes
  <2>1. Op(c) = op /\ Arg(c) = "cv" /\ Tail(c) = Held /\ AfterAbort(c) = Out("main")
    BY <1>5, <2>0, <1>s
  <2>2. <<<<"release", "cv">>, <<"park", "cv">>, <<"acquire", "cv">>>> \o Held = CvRelease
    BY Joined DEF Held, CvRelease
  <2>3. Inside(CvRelease)
    BY <1>s, SectionShapes DEF Inside
  <2>4. Inside(c)
    BY <2>1, <1>5 DEF Inside
  <2> QED BY <1>5, <2>1, <2>2, <2>3, <2>4, <1>h, <1>o DEF SectionCode, Sections
<1>6. ASSUME kind = "monitor", c \in {CvRelease, CvPark, CvBack} PROVE SectionCode(c)
  <2>0. AfterAbort(CvRelease) = Out("main") /\ AfterAbort(CvPark) = Out("main") /\ AfterAbort(CvBack) = Out("main")
    BY <1>s, SectionShapes
  <2>1. InCondWait(c) /\ AfterAbort(c) = Out("main")
    BY <1>6, <2>0, CondWaits
  <2>2. /\ Op(CvRelease) = "release" /\ Tail(CvRelease) = CvPark /\ Op(CvPark) = "park" /\ Tail(CvPark) = CvBack
        /\ Op(CvBack) = "acquire" /\ Tail(CvBack) = Held
    BY <1>s, SectionShapes
  <2>3. ~Inside(CvPark) /\ ~Inside(CvBack)
    BY <2>2 DEF Inside
  <2> QED BY <1>6, <2>1, <2>2, <2>3, <1>h, <1>o DEF SectionCode, Sections
<1>7. CASE kind \in {"lock", "semaphore"}
  <2>1. c \in LockCodes(IF kind = "lock" THEN {"acquire", "try"} ELSE {"down", "try"})
    BY <1>7 DEF Codes
  <2> QED BY <1>1, <1>2, <1>3, <1>4, <1>7, <2>1 DEF LockCodes
<1>8. CASE kind = "monitor"
  <2>1. c \in MonitorCodes
    BY <1>8 DEF Codes
  <2> QED BY <1>1, <1>2, <1>3, <1>5, <1>6, <1>8, <2>1 DEF LockCodes, MonitorCodes
<1> QED BY <1>7, <1>8 DEF Sections

-----------------------------------------------------------------------------
(* The scheduler under the library: the stack of what runs, the parked.    *)

Frames == [at : {"run"}, fiber : Fibers]
          \cup [at : {"wake"}, x : Futexes, todo : Seq(Fibers), left : Int, keep : Seq(Fibers)]

SchedTypes ==
    /\ word \in [Futexes -> Int]
    /\ parked \in [Futexes -> Seq(Fibers)]
    /\ stack \in Seq(Frames)

\* The fibers and the wakes that a step may put on the stack, take off it, park
\* and take out of a bucket.
Shift ==
    \/ UNCHANGED <<parked, stack>>
    \/ \E f \in Fibers, x \in Futexes : Running(f) /\ Park(f, x)
    \/ \E x \in Futexes, n \in Int : Wake(x, n)
    \/ stack # <<>> /\ Head(stack).at = "wake" /\ (LoopWakes(Head(stack)) \/ ProcessWakes(Head(stack)))
    \/ \E f \in Fibers : Running(f) /\ stack' = Tail(stack) /\ UNCHANGED parked
    \/ \E f \in Fibers : stack = <<>> /\ Waits(f) = {} /\ stack' = <<Run(f)>> /\ UNCHANGED parked
    \/ \E g \in Fibers :
          /\ \A i \in 1..Len(stack) : stack[i] # Run(g)
          /\ parked' = IF host = "process" THEN parked ELSE [x \in Futexes |-> LeaveArray(parked[x], g)]
          /\ stack' = <<Run(g)>> \o stack

\* An instruction that names a futex names one there is.
LEMMA ArgsKnown ==
    ASSUME CodesHold, NEW f \in Fibers, code[f] # <<>>, Op(code[f]) \in {"park", "notify", "broadcast", "wait"}
    PROVE  Arg(code[f]) \in Futexes
<1>s. ASSUME NEW b, NEW op, NEW x, NEW t, NEW e, Shape(b, op, x, t, e) PROVE Op(b) = op /\ Arg(b) = x
  BY <1>s DEF Shape, Op, Arg
<1> PICK c : c = code[f]
  OBVIOUS
<1>0. c \in Codes(kind) /\ kind \in AllKinds /\ c # <<>> /\ Op(c) \in {"park", "notify", "broadcast", "wait"}
  BY DEF CodesHold
<1>1. CASE kind \in Sections
  <2>1. c \in MonitorCodes \cup {Enter("try"), Enter("down")}
    BY <1>0, <1>1 DEF Codes, MonitorCodes, LockCodes, Sections
  <2>2. Op(Held) = "body" /\ Op(Out("main")) = "ensure" /\ Op(CvRelease) = "release" /\ Arg(CvPark) = "cv" /\ Op(CvBack) = "acquire"
    BY <1>s, SectionShapes
  <2>3. Op(Enter("acquire")) = "acquire" /\ Op(Enter("down")) = "down" /\ Op(Enter("try")) = "try"
    BY <1>s, SectionShapes
  <2>4. ASSUME NEW op \in {"wait", "notify", "broadcast"} PROVE Arg(Ask(op)) = "cv"
    <3>1. Shape(Ask(op), op, "cv", Held, Out("main"))
      BY SectionShapes
    <3> QED BY <3>1, <1>s
  <2> QED BY <1>0, <2>1, <2>2, <2>3, <2>4 DEF MonitorCodes, LockCodes, Futexes
<1>2. CASE kind = "rwlock"
  <2>1. c \in RwCodes
    BY <1>0, <1>2 DEF Codes
  <2>2. ASSUME NEW a \in {"read", "write"}
        PROVE  Op(RwEnter(a)) = a /\ Arg(RwPark(a)) = "main" /\ Op(RwIn(a)) = "body" /\ Op(Out(a)) = "ensure"
    BY <1>s, RwShapes, SectionShapes
  <2> QED BY <1>0, <2>1, <2>2 DEF RwCodes, Futexes
<1>3. CASE kind \in {"barrier", "latch", "once"}
  <2>1. c \in {Passed, Opening, Thunk, Settle, Out("done")} \cup {Gate(op) : op \in {"arrive", "gate", "get", "park"}}
    BY <1>0, <1>3 DEF Codes, GateCodes, OnceCodes
  <2>2. ASSUME NEW op \in {"arrive", "gate", "get", "park"} PROVE Arg(Gate(op)) = "main"
    BY <1>s, GateShapes
  <2>3. Op(Passed) = "body" /\ Op(Opening) = "open" /\ Op(Thunk) = "body" /\ Op(Settle) = "ensure" /\ Op(Out("done")) = "ensure"
    BY <1>s, GateShapes, SectionShapes
  <2> QED BY <1>0, <2>1, <2>2, <2>3 DEF Futexes
<1>4. CASE kind = "queue"
  <2>1. c \in Unanswered \cup Served
    BY <1>0, <1>4 DEF Codes
  <2>2. ASSUME NEW a \in {"put", "take", "close"}, NEW x \in {"main", "full", "empty"}
        PROVE  Op(QAct(a)) = a /\ Arg(QBack(x, a)) = x /\ Arg(QWait(x, a)) = x /\ Arg(QRelease(x, a)) = x /\ Arg(QPark(x, a)) = x
    <3>1. /\ Shape(QAct(a), a, "main", <<>>, <<>>) /\ Shape(QBack(x, a), "acquire", x, QAct(a), <<>>)
          /\ Shape(QWait(x, a), "wait", x, QAct(a), <<>>) /\ Shape(QRelease(x, a), "release", x, QPark(x, a), <<>>)
          /\ Shape(QPark(x, a), "park", x, QBack(x, a), <<>>)
      BY QueueShapes
    <3> QED BY <3>1, <1>s
  <2>3. /\ Arg(QNotify("full")) = "full" /\ Arg(QNotify("empty")) = "empty" /\ Arg(QClose) = "full" /\ Arg(QClosing) = "empty"
        /\ Op(QDone) = "release"
    <3>1. /\ Shape(QNotify("full"), "notify", "full", QDone, <<>>) /\ Shape(QNotify("empty"), "notify", "empty", QDone, <<>>)
          /\ Shape(QClose, "broadcast", "full", QClosing, <<>>) /\ Shape(QClosing, "broadcast", "empty", QDone, <<>>)
          /\ Shape(QDone, "release", "main", <<>>, <<>>)
      BY QueueShapes
    <3> QED BY <3>1, <1>s
  <2> QED BY <1>0, <2>1, <2>2, <2>3 DEF Unanswered, Served, Futexes
<1> QED BY <1>0, <1>1, <1>2, <1>3, <1>4 DEF AllKinds, Sections

\* The number of fibers.
LEMMA EveryoneNat == Everyone \in Nat /\ IsFiniteSet(Fibers)
BY SyncAssumption, FS_CardinalityType DEF Everyone

\* Every step is one of those.
LEMMA StackStep == ASSUME CodesHold, Next PROVE Shift
<1>m. "main" \in Futexes /\ 1 \in Int /\ -1 \in Int /\ Everyone \in Int
  BY EveryoneNat DEF Futexes
<1>1. CASE WakeNext
  BY <1>1 DEF WakeNext, Shift
<1>2. CASE WakeReady
  BY <1>2, <1>m DEF WakeReady, Shift
<1>3. ASSUME NEW f \in Fibers, Call(f) PROVE Shift
  <2>0. code[f] # <<>> /\ Running(f)
    BY <1>3, CallOps
  <2>a. Arg(code[f]) = Head(code[f])[2]
    BY DEF Arg
  <2>1. CASE FutexWait(f) /\ Op(code[f]) = "park"
    <3>1. Head(code[f])[2] \in Futexes
      BY <2>0, <2>1, <2>a, ArgsKnown
    <3>2. Park(f, Head(code[f])[2]) \/ UNCHANGED <<parked, stack>>
      BY <2>1 DEF FutexWait
    <3> QED BY <2>0, <3>1, <3>2 DEF Shift
  <2>2. CASE Acquire(f)
    BY <2>0, <2>2, <1>m DEF Acquire, Shift
  <2>3. CASE TryAcquire(f)
    BY <2>3 DEF TryAcquire, Shift
  <2>4. CASE Release(f)
    BY <2>4, <1>m DEF Release, WakeOne, Shift
  <2>5. CASE SemAcquire(f)
    BY <2>0, <2>5, <1>m DEF SemAcquire, Shift
  <2>6. CASE SemRelease(f)
    BY <2>6, <1>m DEF SemRelease, WakeOne, Shift
  <2>7. CASE CvWait(f)
    BY <2>7 DEF CvWait, Shift
  <2>8. CASE Notify(f) /\ Op(code[f]) \in {"notify", "broadcast"}
    <3>1. Head(code[f])[2] \in Futexes
      BY <2>0, <2>8, <2>a, ArgsKnown
    <3>2. \E n \in {1, Everyone} : Wake(Head(code[f])[2], n)
      BY <2>8 DEF Notify
    <3> QED BY <3>1, <3>2, <1>m DEF Shift
  <2>9. CASE RwAcquire(f)
    BY <2>9 DEF RwAcquire, Shift
  <2>10. CASE RwRelease(f)
    BY <2>10, <1>m DEF RwRelease, Shift
  <2>11. CASE BarrierWait(f)
    BY <2>11, <1>m DEF BarrierWait, Shift
  <2>12. CASE LatchWait(f)
    BY <2>12 DEF LatchWait, Shift
  <2>13. CASE OnceGet(f)
    BY <2>13 DEF OnceGet, Shift
  <2>14. CASE Open(f)
    BY <2>14, <1>m DEF Open, Shift
  <2>15. CASE QueuePut(f)
    BY <2>15 DEF QueuePut, Shift
  <2>16. CASE QueueTake(f)
    BY <2>16 DEF QueueTake, Shift
  <2>17. CASE QueueClose(f)
    BY <2>17 DEF QueueClose, Shift
  <2> QED BY <1>3, CallOps, <2>1, <2>2, <2>3, <2>4, <2>5, <2>6, <2>7, <2>8, <2>9, <2>10, <2>11, <2>12, <2>13, <2>14, <2>15, <2>16, <2>17
<1>4. ASSUME NEW f \in Fibers, Begin(f) \/ LeaveBody(f) \/ InMonitor(f) PROVE Shift
  BY <1>4 DEF Begin, LeaveBody, InMonitor, Shift
<1>5. ASSUME NEW f \in Fibers, Suspend(f) PROVE Shift
  BY <1>5 DEF Suspend, InBody, Shift
<1>6. ASSUME NEW f \in Fibers, Resume(f) PROVE Shift
  BY <1>6 DEF Resume, Shift
<1>7. ASSUME NEW f \in Fibers, NEW g \in Fibers, Abort(f, g) PROVE Shift
  BY <1>7 DEF Abort, Shift
<1> QED BY <1>1, <1>2, <1>3, <1>4, <1>5, <1>6, <1>7 DEF Next

\* A step that changes a word leaves an integer there.
LEMMA WordsKept == ASSUME CodesHold, word \in [Futexes -> Int], Next PROVE word' \in [Futexes -> Int]
<1>m. "main" \in Futexes /\ Everyone \in Int
  BY EveryoneNat DEF Futexes
<1>s. ASSUME NEW x \in Futexes, NEW v \in Int, Set(x, v) PROVE word' \in [Futexes -> Int]
  BY <1>s DEF Set
<1>n. ASSUME NEW x \in Futexes, NextGeneration(x) PROVE word' \in [Futexes -> Int]
  <2>1. word[x] + 1 \in Int
    OBVIOUS
  <2> QED BY <1>n, <2>1, <1>s DEF NextGeneration
<1>w. word["main"] \in Int /\ word["main"] + 1 \in Int /\ word["main"] - 1 \in Int
  BY <1>m
<1>1. CASE WakeNext \/ WakeReady
  BY <1>1 DEF WakeNext, WakeReady
<1>3. ASSUME NEW f \in Fibers, Call(f) PROVE word' \in [Futexes -> Int]
  <2>0. code[f] # <<>> /\ Running(f)
    BY <1>3, CallOps
  <2>1. CASE FutexWait(f) \/ CvWait(f) \/ RwAcquire(f) \/ LatchWait(f) \/ QueuePut(f) \/ QueueTake(f) \/ QueueClose(f)
    BY <2>1 DEF FutexWait, CvWait, RwAcquire, LatchWait, QueuePut, QueueTake, QueueClose
  <2>2. CASE Acquire(f)
    BY <2>2, <1>m, <1>s DEF Acquire
  <2>3. CASE TryAcquire(f)
    <3>1. (IF kind = "semaphore" THEN word["main"] - 1 ELSE 1) \in Int
      BY <1>w
    <3> QED BY <2>3, <3>1, <1>m, <1>s DEF TryAcquire
  <2>4. CASE Release(f)
    BY <2>4, <1>m, <1>s DEF Release
  <2>5. CASE SemAcquire(f)
    BY <2>5, <1>m, <1>w, <1>s DEF SemAcquire
  <2>6. CASE SemRelease(f)
    BY <2>6, <1>m, <1>w, <1>s DEF SemRelease
  <2>8. CASE Notify(f) /\ Op(code[f]) \in {"notify", "broadcast"}
    <3>1. Head(code[f])[2] \in Futexes
      BY <2>0, <2>8, ArgsKnown DEF Arg
    <3>2. NextGeneration(Head(code[f])[2])
      BY <2>8 DEF Notify
    <3> QED BY <3>1, <3>2, <1>n
  <2>10. CASE RwRelease(f)
    BY <2>10, <1>m, <1>n DEF RwRelease
  <2>11. CASE BarrierWait(f)
    BY <2>11, <1>m, <1>w, <1>s DEF BarrierWait
  <2>13. CASE OnceGet(f)
    BY <2>13, <1>m, <1>s DEF OnceGet
  <2>14. CASE Open(f)
    <3>1. (IF kind = "once" THEN 2 ELSE 1) \in Int
      OBVIOUS
    <3> QED BY <2>14, <3>1, <1>m, <1>s DEF Open
  <2> QED BY <1>3, CallOps, <2>1, <2>2, <2>3, <2>4, <2>5, <2>6, <2>8, <2>10, <2>11, <2>13, <2>14
<1>4. ASSUME NEW f \in Fibers, Begin(f) \/ LeaveBody(f) \/ InMonitor(f) \/ Suspend(f) \/ Resume(f) \/ \E g \in Fibers : Abort(f, g)
      PROVE  word' \in [Futexes -> Int]
  BY <1>4 DEF Begin, LeaveBody, InMonitor, Suspend, Resume, Abort
<1> QED BY <1>1, <1>3, <1>4 DEF Next

\* No fiber is on the stack twice.
RunsOnce(s) == \A i, j \in 1..Len(s) : s[i] = s[j] /\ s[i].at = "run" => i = j

\* The loop holds a fiber in one place: it runs, or it is parked in one bucket,
\* once.
OnePlaced ==
    /\ RunsOnce(stack)
    /\ \A x \in Futexes : Distinct(parked[x])
    /\ \A f \in Fibers, x \in Futexes, y \in Futexes :
          f \in Range(parked[x]) /\ f \in Range(parked[y]) => x = y
    /\ \A f \in Fibers, x \in Futexes : Run(f) \in Range(stack) => f \notin Range(parked[x])

PlaceHolds == SchedTypes /\ (host = "loop" => OnePlaced)

\* Frames of a stack.
LEMMA FrameFacts ==
    /\ \A f \in Fibers : Run(f) \in Frames /\ Run(f).at = "run" /\ Run(f).fiber = f
    /\ \A fr \in Frames : fr.at = "run" => \E f \in Fibers : fr = Run(f)
    /\ \A x \in Futexes, t \in Seq(Fibers), n \in Int :
          [at |-> "wake", x |-> x, todo |-> t, left |-> n, keep |-> <<>>] \in Frames
<1>1. \A f \in Fibers : Run(f) \in Frames /\ Run(f).at = "run" /\ Run(f).fiber = f
  BY DEF Frames, Run
<1>2. \A fr \in Frames : fr.at = "run" => \E f \in Fibers : fr = Run(f)
  BY DEF Frames, Run
<1>3. <<>> \in Seq(Fibers)
  OBVIOUS
<1>4. \A x \in Futexes, t \in Seq(Fibers), n \in Int :
          [at |-> "wake", x |-> x, todo |-> t, left |-> n, keep |-> <<>>] \in Frames
  BY <1>3 DEF Frames
<1> QED BY <1>1, <1>2, <1>4

\* A wake in progress, and what it becomes.
LEMMA WakeFrames ==
    ASSUME NEW fr \in Frames, fr.at = "wake"
    PROVE  /\ fr.x \in Futexes /\ fr.todo \in Seq(Fibers) /\ fr.left \in Int /\ fr.keep \in Seq(Fibers)
           /\ \A t \in Seq(Fibers) : LET r == [fr EXCEPT !.todo = t]
                                     IN  r \in Frames /\ r.at = "wake" /\ r.left = fr.left /\ r.keep = fr.keep
           /\ \A n \in Int : [fr EXCEPT !.left = n] \in Frames /\ [fr EXCEPT !.left = n].at = "wake"
           /\ \A k \in Seq(Fibers) : [fr EXCEPT !.keep = k] \in Frames /\ [fr EXCEPT !.keep = k].at = "wake"
<1>1. fr \in [at : {"wake"}, x : Futexes, todo : Seq(Fibers), left : Int, keep : Seq(Fibers)]
  BY DEF Frames
<1>2. fr.x \in Futexes /\ fr.todo \in Seq(Fibers) /\ fr.left \in Int /\ fr.keep \in Seq(Fibers)
  BY <1>1
<1>3. ASSUME NEW t \in Seq(Fibers)
      PROVE  /\ [fr EXCEPT !.todo = t] \in Frames /\ [fr EXCEPT !.todo = t].at = "wake"
             /\ [fr EXCEPT !.todo = t].left = fr.left /\ [fr EXCEPT !.todo = t].keep = fr.keep
  BY <1>1 DEF Frames
<1>4. ASSUME NEW n \in Int PROVE [fr EXCEPT !.left = n] \in Frames /\ [fr EXCEPT !.left = n].at = "wake"
  BY <1>1 DEF Frames
<1>5. ASSUME NEW k \in Seq(Fibers) PROVE [fr EXCEPT !.keep = k] \in Frames /\ [fr EXCEPT !.keep = k].at = "wake"
  BY <1>1 DEF Frames
<1> QED BY <1>2, <1>3, <1>4, <1>5

\* Taking the top off a stack.
LEMMA PopStack ==
    ASSUME NEW s \in Seq(Frames), s # <<>>
    PROVE  /\ Tail(s) \in Seq(Frames) /\ Head(s) \in Frames
           /\ Range(s) = {Head(s)} \cup Range(Tail(s))
           /\ RunsOnce(s) => RunsOnce(Tail(s)) /\ (Head(s).at = "run" => Head(s) \notin Range(Tail(s)))
<1>1. /\ Tail(s) \in Seq(Frames) /\ Head(s) \in Frames
      /\ Range(s) = {Head(s)} \cup Range(Tail(s))
  BY TailRange
<1>2. /\ Len(Tail(s)) = Len(s) - 1 /\ Len(s) \in Nat \ {0} /\ Head(s) = s[1]
      /\ \A i \in 1..Len(Tail(s)) : Tail(s)[i] = s[i + 1]
  BY HeadTailProperties
<1>3. ASSUME RunsOnce(s) PROVE RunsOnce(Tail(s))
  BY <1>2, <1>3 DEF RunsOnce
<1>4. ASSUME RunsOnce(s), Head(s).at = "run", Head(s) \in Range(Tail(s)) PROVE FALSE
  <2>1. PICK i \in 1..Len(Tail(s)) : Tail(s)[i] = Head(s)
    BY <1>1, <1>4, RangeSeq
  <2>2. i + 1 \in 1..Len(s) /\ 1 \in 1..Len(s) /\ i + 1 # 1 /\ s[i + 1] = s[1]
    BY <1>2, <2>1
  <2> QED BY <1>2, <1>4, <2>2 DEF RunsOnce
<1> QED BY <1>1, <1>3, <1>4

\* Putting a frame on a stack.
LEMMA PushStack ==
    ASSUME NEW s \in Seq(Frames), NEW fr \in Frames
    PROVE  /\ <<fr>> \o s \in Seq(Frames) /\ <<fr>> \o s # <<>>
           /\ Head(<<fr>> \o s) = fr /\ Tail(<<fr>> \o s) = s
           /\ Range(<<fr>> \o s) = {fr} \cup Range(s)
           /\ RunsOnce(s) /\ (fr.at = "run" => fr \notin Range(s)) => RunsOnce(<<fr>> \o s)
<1> PICK r : r = <<fr>> \o s
  OBVIOUS
<1>1. /\ r \in Seq(Frames) /\ Range(r) = {fr} \cup Range(s)
      /\ r # <<>> /\ Head(r) = fr /\ Tail(r) = s /\ Len(r) = Len(s) + 1 /\ r[1] = fr
      /\ \A i \in 1..Len(s) : r[i + 1] = s[i]
  BY PushRange, PushShape
<1>2. ASSUME RunsOnce(s), fr.at = "run" => fr \notin Range(s) PROVE RunsOnce(r)
  <2>1. ASSUME NEW i \in 1..Len(r), NEW j \in 1..Len(r), r[i] = r[j], r[i].at = "run", i < j PROVE FALSE
    <3>2. j - 1 \in 1..Len(s) /\ (j - 1) + 1 = j /\ Len(s) \in Nat
      BY <1>1, <2>1
    <3>3. r[j] = s[j - 1]
      BY <1>1, <3>2
    <3>4. CASE i = 1
      <4>1. s[j - 1] = fr
        BY <1>1, <2>1, <3>3, <3>4
      <4>2. fr \in Range(s)
        BY <3>2, <4>1, RangeSeq
      <4> QED BY <1>1, <1>2, <2>1, <3>4, <4>2
    <3>5. CASE i # 1
      <4>1. i - 1 \in 1..Len(s) /\ (i - 1) + 1 = i
        BY <1>1, <2>1, <3>2, <3>5
      <4>2. r[i] = s[i - 1]
        BY <1>1, <4>1
      <4>3. i - 1 = j - 1
        BY <1>2, <2>1, <3>2, <3>3, <4>1, <4>2 DEF RunsOnce
      <4> QED BY <2>1, <4>3
    <3> QED BY <3>4, <3>5
  <2>2. ASSUME NEW i \in 1..Len(r), NEW j \in 1..Len(r), r[i] = r[j], r[i].at = "run" PROVE i = j
    <3>1. r[j].at = "run"
      BY <2>2
    <3>2. ~(i < j) /\ ~(j < i)
      BY <2>1, <2>2, <3>1
    <3> QED BY <3>2
  <2> QED BY <2>2 DEF RunsOnce
<1> QED BY <1>1, <1>2

\* A fiber waits where it is parked.
LEMMA WaitsParked ==
    ASSUME SchedTypes, NEW f \in Fibers, NEW x \in Futexes
    PROVE  x \in Waits(f) <=> f \in Range(parked[x])
<1>1. parked[x] \in Seq(Fibers)
  BY DEF SchedTypes
<1>2. f \in Range(parked[x]) <=> \E i \in 1..Len(parked[x]) : parked[x][i] = f
  BY <1>1, RangeSeq
<1>3. DOMAIN parked[x] = 1..Len(parked[x])
  BY <1>1
<1> QED BY <1>2, <1>3 DEF Waits

\* What runs is on the stack, with nobody else above it.
LEMMA RunningTop ==
    ASSUME SchedTypes, NEW f \in Fibers
    PROVE  /\ Running(f) => stack # <<>> /\ Head(stack) = Run(f) /\ Run(f) \in Range(stack)
           /\ \A g \in Fibers : Running(f) /\ Running(g) => f = g
           /\ (\A i \in 1..Len(stack) : stack[i] # Run(f)) <=> Run(f) \notin Range(stack)
<1>1. stack \in Seq(Frames)
  BY DEF SchedTypes
<1>2. Running(f) => stack # <<>> /\ Head(stack) = Run(f) /\ Run(f) \in Range(stack)
  BY <1>1, PopStack DEF Running
<1>3. \A g \in Fibers : Running(f) /\ Running(g) => f = g
  BY FrameFacts DEF Running
<1> QED BY <1>1, <1>2, <1>3, RangeSeq

\* The loop keeps every fiber in one place, and both schedulers keep their
\* stacks and buckets well formed.
LEMMA PlaceKept == ASSUME CodesHold, PlaceHolds, [Next]_vars PROVE PlaceHolds'
<1>u. CASE UNCHANGED vars
  BY <1>u DEF PlaceHolds, SchedTypes, OnePlaced, RunsOnce, vars, Frames
<1>n. CASE Next
  <2>0. host' = host /\ word' \in [Futexes -> Int] /\ Shift
    BY <1>n, SameObject, WordsKept, StackStep DEF PlaceHolds, SchedTypes
  <2>t. SchedTypes /\ parked \in [Futexes -> Seq(Fibers)] /\ stack \in Seq(Frames) /\ <<>> \in Seq(Fibers) /\ <<>> \in Seq(Frames)
    BY DEF PlaceHolds, SchedTypes
  <2>p. host = "loop" => OnePlaced
    BY DEF PlaceHolds
  <2> DEFINE Kept == parked' \in [Futexes -> Seq(Fibers)] /\ stack' \in Seq(Frames) /\ (host = "loop" => OnePlaced')
  <2>q. SUFFICES Kept
    BY <2>0 DEF PlaceHolds, SchedTypes, Frames
  <2>1. CASE UNCHANGED <<parked, stack>>
    BY <2>1, <2>t, <2>p DEF OnePlaced, RunsOnce
  <2>2. ASSUME NEW f \in Fibers, NEW x \in Futexes, Running(f), Park(f, x) PROVE Kept
    <3>1. stack # <<>> /\ Head(stack) = Run(f) /\ Run(f) \in Range(stack)
      BY <2>2, <2>t, RunningTop
    <3>2. /\ Tail(stack) \in Seq(Frames) /\ Range(stack) = {Run(f)} \cup Range(Tail(stack))
          /\ RunsOnce(stack) => RunsOnce(Tail(stack)) /\ Run(f) \notin Range(Tail(stack))
      BY <3>1, <2>t, PopStack, FrameFacts
    <3>3. stack' = Tail(stack) /\ parked' = [parked EXCEPT ![x] = Append(parked[x], f)]
      BY <2>2 DEF Park
    <3>4. parked[x] \in Seq(Fibers)
      BY <2>t
    <3>5. /\ Append(parked[x], f) \in Seq(Fibers)
          /\ Range(Append(parked[x], f)) = Range(parked[x]) \cup {f}
          /\ Distinct(parked[x]) /\ f \notin Range(parked[x]) => Distinct(Append(parked[x], f))
      BY <3>4, AppendRange
    <3>6. parked' \in [Futexes -> Seq(Fibers)]
      BY <3>3, <3>5, <2>t
    <3>7. ASSUME host = "loop" PROVE OnePlaced'
      <4>1. \A y \in Futexes : f \notin Range(parked[y])
        BY <3>1, <3>7, <2>p DEF OnePlaced
      <4>2. RunsOnce(stack')
        BY <3>2, <3>3, <3>7, <2>p DEF OnePlaced
      <4>3. \A y \in Futexes : Distinct(parked'[y])
        BY <3>3, <3>5, <3>7, <4>1, <2>p, <2>t DEF OnePlaced
      <4>4. \A y \in Futexes : Range(parked'[y]) = IF y = x THEN Range(parked[y]) \cup {f} ELSE Range(parked[y])
        BY <3>3, <3>5, <2>t
      <4>5. \A g \in Fibers, y \in Futexes, z \in Futexes : g \in Range(parked'[y]) /\ g \in Range(parked'[z]) => y = z
        <5>1. \A g \in Fibers, y \in Futexes, z \in Futexes : g \in Range(parked[y]) /\ g \in Range(parked[z]) => y = z
          BY <3>7, <2>p DEF OnePlaced
        <5>2. \A g \in Fibers, y \in Futexes : g \in Range(parked'[y]) => g \in Range(parked[y]) \/ (g = f /\ y = x)
          BY <4>4
        <5> QED BY <5>1, <5>2, <4>1
      <4>6. \A g \in Fibers, y \in Futexes : Run(g) \in Range(stack') => g \notin Range(parked'[y])
        <5>1. \A g \in Fibers, y \in Futexes : Run(g) \in Range(stack) => g \notin Range(parked[y])
          BY <3>7, <2>p DEF OnePlaced
        <5>2. \A g \in Fibers : Run(g) \in Range(stack') => Run(g) \in Range(stack) /\ g # f
          BY <3>2, <3>3, <3>7, <2>p DEF OnePlaced
        <5>3. \A g \in Fibers, y \in Futexes : g \in Range(parked'[y]) => g \in Range(parked[y]) \/ g = f
          BY <4>4
        <5> QED BY <5>1, <5>2, <5>3
      <4> QED BY <4>2, <4>3, <4>5, <4>6 DEF OnePlaced
    <3> QED BY <3>2, <3>3, <3>6, <3>7
  <2>3. ASSUME NEW x \in Futexes, NEW n \in Int, Wake(x, n) PROVE Kept
    <3>1. CASE parked[x] = <<>>
      BY <2>1, <2>3, <3>1 DEF Wake
    <3>2. CASE parked[x] # <<>>
      <4> PICK fr : fr = WakeFrame(x, n)
        OBVIOUS
      <4>1. fr \in Frames /\ fr.at = "wake"
        BY <2>t, FrameFacts DEF WakeFrame
      <4>2. stack' = <<fr>> \o stack /\ parked' = IF host = "process" THEN [parked EXCEPT ![x] = <<>>] ELSE parked
        BY <2>3, <3>2 DEF Wake
      <4>3. /\ <<fr>> \o stack \in Seq(Frames) /\ Range(<<fr>> \o stack) = {fr} \cup Range(stack)
            /\ RunsOnce(stack) => RunsOnce(<<fr>> \o stack)
        BY <4>1, <2>t, PushStack
      <4>4. parked' \in [Futexes -> Seq(Fibers)]
        BY <4>2, <2>t
      <4>5. \A g \in Fibers : Run(g) \in Range(stack') => Run(g) \in Range(stack)
        BY <4>1, <4>2, <4>3, FrameFacts
      <4>6. host = "loop" => OnePlaced'
        BY <4>2, <4>3, <4>5, <2>p DEF OnePlaced
      <4> QED BY <4>2, <4>3, <4>4, <4>6
    <3> QED BY <3>1, <3>2
  <2>4. ASSUME stack # <<>>, Head(stack).at = "wake", LoopWakes(Head(stack)) PROVE Kept
    <3> PICK fr : fr = Head(stack)
      OBVIOUS
    <3>1. /\ fr \in Frames /\ Tail(stack) \in Seq(Frames) /\ Range(stack) = {fr} \cup Range(Tail(stack))
          /\ RunsOnce(stack) => RunsOnce(Tail(stack))
      BY <2>4, <2>t, PopStack
    <3>h. host = "loop" /\ OnePlaced
      BY <2>4, <2>p DEF LoopWakes
    <3>2. CASE fr.todo = <<>> \/ fr.left = 0
      <4>1. stack' = Tail(stack) /\ parked' = parked
        BY <2>4, <3>2 DEF LoopWakes
      <4> QED BY <4>1, <3>1, <3>h, <2>t DEF OnePlaced
    <3>3. CASE ~(fr.todo = <<>> \/ fr.left = 0)
      <4> PICK g, rest : g = Head(fr.todo) /\ rest = [fr EXCEPT !.todo = Tail(fr.todo)]
        OBVIOUS
      <4>1. fr.x \in Futexes /\ fr.todo \in Seq(Fibers) /\ fr.left \in Int
        BY <2>4, <3>1, WakeFrames
      <4>2. g \in Fibers /\ Tail(fr.todo) \in Seq(Fibers)
        BY <3>3, <4>1, TailRange
      <4>3. rest \in Frames /\ rest.at = "wake" /\ rest.left = fr.left
        BY <2>4, <3>1, <4>2, WakeFrames
      <4>4. CASE fr.x \in Waits(g)
        <5> PICK r : r = [rest EXCEPT !.left = rest.left - 1]
          OBVIOUS
        <5>1. r \in Frames /\ r.at = "wake"
          <6>1. rest.left - 1 \in Int
            BY <4>1, <4>3
          <6> QED BY <6>1, <4>3, WakeFrames
        <5>2. /\ parked' = [parked EXCEPT ![fr.x] = LeaveArray(parked[fr.x], g)]
              /\ stack' = <<Run(g), r>> \o Tail(stack)
          BY <2>4, <3>3, <4>4 DEF LoopWakes
        <5>3. Run(g) \in Frames /\ Run(g).at = "run"
          BY <4>2, FrameFacts
        <5>4. <<Run(g), r>> \o Tail(stack) = <<Run(g)>> \o (<<r>> \o Tail(stack))
          BY <5>1, <5>3, <3>1, PushTwoSplit
        <5> PICK s : s = <<r>> \o Tail(stack)
          OBVIOUS
        <5>5. s \in Seq(Frames) /\ Range(s) = {r} \cup Range(Tail(stack)) /\ RunsOnce(s)
          BY <5>1, <3>1, <3>h, PushStack DEF OnePlaced
        <5>6. g \in Range(parked[fr.x])
          BY <4>1, <4>2, <4>4, <2>t, WaitsParked
        <5>7. Run(g) \notin Range(stack)
          BY <5>6, <4>1, <4>2, <3>h DEF OnePlaced
        <5>8. Run(g) \notin Range(s)
          BY <5>1, <5>3, <5>5, <5>7, <3>1
        <5>9. stack' \in Seq(Frames) /\ Range(stack') = {Run(g), r} \cup Range(Tail(stack)) /\ RunsOnce(stack')
          <6>1. stack' = <<Run(g)>> \o s
            BY <5>2, <5>4
          <6>2. /\ <<Run(g)>> \o s \in Seq(Frames) /\ Range(<<Run(g)>> \o s) = {Run(g)} \cup Range(s)
                /\ RunsOnce(<<Run(g)>> \o s)
            BY <5>3, <5>5, <5>8, PushStack
          <6> QED BY <6>1, <6>2, <5>5
        <5>10. parked[fr.x] \in Seq(Fibers) /\ Distinct(parked[fr.x])
          BY <4>1, <2>t, <3>h DEF OnePlaced
        <5>11. /\ LeaveArray(parked[fr.x], g) \in Seq(Fibers)
               /\ Range(LeaveArray(parked[fr.x], g)) \subseteq Range(parked[fr.x])
               /\ Distinct(LeaveArray(parked[fr.x], g)) /\ g \notin Range(LeaveArray(parked[fr.x], g))
          BY <5>10, LeaveArrayRange
        <5>12. parked' \in [Futexes -> Seq(Fibers)]
          BY <5>2, <5>11, <2>t
        <5>13. \A y \in Futexes : Distinct(parked'[y]) /\ Range(parked'[y]) \subseteq Range(parked[y]) /\ g \notin Range(parked'[y])
          BY <5>2, <5>6, <5>11, <4>1, <4>2, <2>t, <3>h DEF OnePlaced
        <5>14. \A h \in Fibers : Run(h) \in Range(stack') => h = g \/ Run(h) \in Range(stack)
          BY <5>1, <5>9, <3>1, <4>2, FrameFacts
        <5>15. OnePlaced'
          <6>1. \A h \in Fibers, x \in Futexes, y \in Futexes : h \in Range(parked'[x]) /\ h \in Range(parked'[y]) => x = y
            BY <5>13, <3>h DEF OnePlaced
          <6>2. \A h \in Fibers, x \in Futexes : Run(h) \in Range(stack') => h \notin Range(parked'[x])
            BY <5>13, <5>14, <3>h DEF OnePlaced
          <6> QED BY <5>9, <5>13, <6>1, <6>2 DEF OnePlaced
        <5> QED BY <5>9, <5>12, <5>15
      <4>5. CASE fr.x \notin Waits(g)
        <5>1. stack' = <<rest>> \o Tail(stack) /\ parked' = parked
          BY <2>4, <3>3, <4>5 DEF LoopWakes
        <5>2. /\ stack' \in Seq(Frames) /\ Range(stack') = {rest} \cup Range(Tail(stack)) /\ RunsOnce(stack')
          BY <5>1, <4>3, <3>1, <3>h, PushStack DEF OnePlaced
        <5>3. \A h \in Fibers : Run(h) \in Range(stack') => Run(h) \in Range(stack)
          BY <5>2, <4>3, <3>1, FrameFacts
        <5> QED BY <5>1, <5>2, <5>3, <3>h, <2>t DEF OnePlaced
      <4> QED BY <4>4, <4>5
    <3> QED BY <3>2, <3>3
  <2>5. ASSUME stack # <<>>, Head(stack).at = "wake", ProcessWakes(Head(stack)) PROVE Kept
    <3> PICK fr : fr = Head(stack)
      OBVIOUS
    <3>1. fr \in Frames /\ Tail(stack) \in Seq(Frames)
      BY <2>5, <2>t, PopStack
    <3>h. host # "loop"
      BY <2>5 DEF ProcessWakes
    <3>x. fr.x \in Futexes /\ fr.todo \in Seq(Fibers) /\ fr.left \in Int /\ fr.keep \in Seq(Fibers)
      BY <2>5, <3>1, WakeFrames
    <3>2. CASE fr.todo = <<>>
      <4>1. stack' = Tail(stack) /\ parked' = [parked EXCEPT ![fr.x] = fr.keep \o parked[fr.x]]
        BY <2>5, <3>2 DEF ProcessWakes
      <4>2. fr.keep \o parked[fr.x] \in Seq(Fibers)
        BY <3>x, <2>t
      <4> QED BY <4>1, <4>2, <3>1, <3>h, <2>t
    <3>3. CASE fr.todo # <<>>
      <4> PICK g, rest, picked, runs, r, k :
             /\ g = Head(fr.todo) /\ rest = [fr EXCEPT !.todo = Tail(fr.todo)]
             /\ picked = (IF fr.left = -1 THEN Changed(g, fr.x) ELSE fr.left > 0)
             /\ runs = (IF Ended(g) THEN <<>> ELSE <<Run(g)>>)
             /\ r = [rest EXCEPT !.left = IF rest.left > 0 THEN rest.left - 1 ELSE rest.left]
             /\ k = [rest EXCEPT !.keep = Append(rest.keep, g)]
        OBVIOUS
      <4>2. g \in Fibers /\ Tail(fr.todo) \in Seq(Fibers)
        BY <3>3, <3>x, TailRange
      <4>3. rest \in Frames /\ rest.at = "wake" /\ rest.left = fr.left /\ rest.keep = fr.keep
        BY <2>5, <3>1, <4>2, WakeFrames
      <4>4. r \in Frames /\ k \in Frames
        <5>1. (IF rest.left > 0 THEN rest.left - 1 ELSE rest.left) \in Int /\ Append(rest.keep, g) \in Seq(Fibers)
          BY <4>2, <4>3, <3>x
        <5> QED BY <5>1, <4>3, WakeFrames
      <4>5. /\ parked' = parked
            /\ stack' = (IF picked THEN runs \o <<r>> ELSE <<k>>) \o Tail(stack)
        BY <2>5, <3>3 DEF ProcessWakes
      <4>6. runs \in Seq(Frames) /\ <<r>> \in Seq(Frames) /\ <<k>> \in Seq(Frames)
        BY <4>2, <4>4, FrameFacts
      <4>7. stack' \in Seq(Frames)
        BY <4>5, <4>6, <3>1
      <4> QED BY <4>5, <4>7, <3>h, <2>t
    <3> QED BY <3>2, <3>3
  <2>6. ASSUME NEW f \in Fibers, Running(f), stack' = Tail(stack), UNCHANGED parked PROVE Kept
    <3>1. /\ Tail(stack) \in Seq(Frames) /\ Range(Tail(stack)) \subseteq Range(stack)
          /\ RunsOnce(stack) => RunsOnce(Tail(stack))
      BY <2>6, <2>t, PopStack DEF Running
    <3> QED BY <2>6, <3>1, <2>t, <2>p DEF OnePlaced
  <2>7. ASSUME NEW f \in Fibers, stack = <<>>, Waits(f) = {}, stack' = <<Run(f)>>, UNCHANGED parked PROVE Kept
    <3>1. Run(f) \in Frames
      BY FrameFacts
    <3>2. <<Run(f)>> \in Seq(Frames) /\ Len(<<Run(f)>>) = 1 /\ <<Run(f)>>[1] = Run(f)
      BY <3>1
    <3>3. \A fr : fr \in Range(stack') => fr = Run(f)
      <4>1. \A fr : fr \in Range(<<Run(f)>>) <=> \E i \in 1..Len(<<Run(f)>>) : <<Run(f)>>[i] = fr
        BY <3>2, RangeSeq
      <4> QED BY <2>7, <3>2, <4>1
    <3>4. RunsOnce(stack')
      BY <2>7, <3>2 DEF RunsOnce
    <3>5. \A y \in Futexes : f \notin Range(parked[y])
      BY <2>7, <2>t, WaitsParked
    <3>6. \A g \in Fibers : Run(g) \in Range(stack') => g = f
      BY <3>3, FrameFacts
    <3> QED BY <2>7, <3>2, <3>4, <3>5, <3>6, <2>t, <2>p DEF OnePlaced
  <2>8. ASSUME NEW g \in Fibers, \A i \in 1..Len(stack) : stack[i] # Run(g),
               parked' = IF host = "process" THEN parked ELSE [x \in Futexes |-> LeaveArray(parked[x], g)],
               stack' = <<Run(g)>> \o stack
        PROVE  Kept
    <3>1. Run(g) \in Frames /\ Run(g) \notin Range(stack)
      BY <2>8, <2>t, FrameFacts, RunningTop
    <3>2. /\ stack' \in Seq(Frames) /\ Range(stack') = {Run(g)} \cup Range(stack)
          /\ RunsOnce(stack) => RunsOnce(stack')
      BY <3>1, <2>8, <2>t, PushStack
    <3>3. ASSUME NEW x \in Futexes
          PROVE  /\ LeaveArray(parked[x], g) \in Seq(Fibers)
                 /\ Range(LeaveArray(parked[x], g)) \subseteq Range(parked[x])
                 /\ Distinct(parked[x]) => Distinct(LeaveArray(parked[x], g)) /\ g \notin Range(LeaveArray(parked[x], g))
      BY <2>t, LeaveArrayRange
    <3>4. parked' \in [Futexes -> Seq(Fibers)]
      BY <2>8, <3>3, <2>t
    <3>5. ASSUME host = "loop" PROVE OnePlaced'
      <4>1. OnePlaced
        BY <3>5, <2>p
      <4>2. \A x \in Futexes : Distinct(parked'[x]) /\ Range(parked'[x]) \subseteq Range(parked[x]) /\ g \notin Range(parked'[x])
        BY <2>8, <3>3, <3>5, <4>1 DEF OnePlaced
      <4>3. \A h \in Fibers : Run(h) \in Range(stack') => h = g \/ Run(h) \in Range(stack)
        BY <3>2, FrameFacts
      <4> QED BY <4>1, <4>2, <4>3, <3>2 DEF OnePlaced
    <3> QED BY <3>2, <3>4, <3>5
  <2> QED BY <2>0, <2>1, <2>2, <2>3, <2>4, <2>5, <2>6, <2>7, <2>8 DEF Shift
<1> QED BY <1>u, <1>n

-----------------------------------------------------------------------------
(* Who is inside.                                                          *)

In == {f \in Fibers : Inside(code[f])}

\* A fiber that tries and does not wait has not been suspended since it began.
TryRuns == \A f \in Fibers : code[f] # <<>> /\ Op(code[f]) = "try" => Running(f)

\* A step lets nobody in or out, or lets one fiber in and takes the lock or a
\* permit, or lets one out and gives it back.
SectionMove ==
    \/ In' = In /\ word'["main"] = word["main"]
    \/ \E f \in Fibers \ In :
          /\ In' = In \cup {f}
          /\ kind = "semaphore" => word["main"] > 0 /\ word'["main"] = word["main"] - 1
          /\ kind # "semaphore" => word["main"] = 0 /\ word'["main"] = 1
    \/ \E f \in In :
          /\ In' = In \ {f}
          /\ kind = "semaphore" => word'["main"] = word["main"] + 1
          /\ kind # "semaphore" => word'["main"] = 0

\* The steps of a section.
LEMMA SectionStep ==
    ASSUME kind \in Sections, ~AbortsWaits, CodesHold, PlaceHolds, TryRuns, Next
    PROVE  TryRuns' /\ SectionMove
<1>t. SchedTypes /\ code \in [Fibers -> Codes(kind)] /\ word \in [Futexes -> Int] /\ "main" \in Futexes /\ "cv" \in Futexes
  BY DEF PlaceHolds, SchedTypes, CodesHold, Futexes
<1>c. \A f \in Fibers : code[f] # <<>> => SectionCode(code[f])
  BY <1>t, SectionCodes
<1>w. \A v : Set("main", v) => word'["main"] = v
  BY <1>t DEF Set
<1>e. ASSUME NEW f \in Fibers, NEW d, Goto(f, d)
      PROVE  /\ code' = [code EXCEPT ![f] = d] /\ code'[f] = d
             /\ (Inside(d) <=> Inside(code[f])) => In' = In
             /\ Inside(d) /\ ~Inside(code[f]) => In' = In \cup {f} /\ f \in Fibers \ In
             /\ ~Inside(d) /\ Inside(code[f]) => In' = In \ {f} /\ f \in In
  BY <1>e, <1>t DEF Goto, In
<1>r. ASSUME NEW f \in Fibers, Running(f), NEW d, Goto(f, d), d # <<>> => Op(d) # "try" PROVE TryRuns'
  <2>1. ASSUME NEW g \in Fibers, g # f PROVE ~(code[g] # <<>> /\ Op(code[g]) = "try")
    BY <1>r, <1>t, <2>1, RunningTop DEF TryRuns
  <2>2. \A g \in Fibers : code'[g] = IF g = f THEN d ELSE code[g]
    BY <1>r, <1>t DEF Goto
  <2> QED BY <1>r, <2>1, <2>2 DEF TryRuns, Op
<1>g. ASSUME NEW f \in Fibers, Running(f), code[f] # <<>>, Go(f), Op(code[f]) \notin {"wait"} PROVE TryRuns'
  <2>1. Tail(code[f]) # <<>> => Op(Tail(code[f])) # "try"
    BY <1>g, <1>c DEF SectionCode, Inside, Sections
  <2> QED BY <1>g, <2>1, <1>r DEF Go
<1>1. CASE WakeNext \/ WakeReady
  <2>1. code' = code /\ word' = word
    BY <1>1 DEF WakeNext, WakeReady
  <2>2. \A f \in Fibers : ~Running(f)
    BY <1>1, FrameFacts DEF WakeNext, WakeReady, Running
  <2> QED BY <2>1, <2>2 DEF TryRuns, SectionMove, In
<1>2. ASSUME NEW f \in Fibers, Call(f) PROVE TryRuns' /\ SectionMove
  <2>0. code[f] # <<>> /\ Running(f) /\ SectionCode(code[f])
    BY <1>2, <1>c, CallOps
  <2>1. CASE FutexWait(f) /\ Op(code[f]) = "park"
    <3>1. CASE UNCHANGED code /\ word' = word
      <4>1. \A g \in Fibers : ~(code[g] # <<>> /\ Op(code[g]) = "try")
        BY <2>0, <2>1, <1>t, RunningTop DEF TryRuns
      <4> QED BY <3>1, <4>1 DEF TryRuns, SectionMove, In
    <3>2. CASE Go(f) /\ word' = word
      <4>1. ~Inside(Tail(code[f])) /\ ~Inside(code[f])
        BY <2>0, <2>1 DEF SectionCode, Inside
      <4>2. In' = In
        BY <3>2, <4>1, <1>e DEF Go
      <4>3. TryRuns'
        BY <2>0, <2>1, <3>2, <1>g
      <4> QED BY <3>2, <4>2, <4>3 DEF SectionMove
    <3> QED BY <2>1, <3>1, <3>2 DEF FutexWait
  <2>2. CASE (Acquire(f) /\ Op(code[f]) = "acquire") \/ (SemAcquire(f) /\ Op(code[f]) = "down")
    <3>k. (Op(code[f]) = "acquire" => kind # "semaphore") /\ (Op(code[f]) = "down" => kind = "semaphore")
      BY <2>0 DEF SectionCode, Sections
    <3>1. CASE UNCHANGED code /\ word' = word
      <4>1. \A g \in Fibers : ~(code[g] # <<>> /\ Op(code[g]) = "try")
        BY <2>0, <2>2, <1>t, RunningTop DEF TryRuns
      <4> QED BY <3>1, <4>1 DEF TryRuns, SectionMove, In
    <3>2. CASE /\ Go(f)
               /\ kind = "semaphore" => word["main"] > 0 /\ word'["main"] = word["main"] - 1
               /\ kind # "semaphore" => word["main"] = 0 /\ word'["main"] = 1
      <4>1. Inside(Tail(code[f])) /\ ~Inside(code[f])
        BY <2>0, <2>2 DEF SectionCode, Inside
      <4>2. In' = In \cup {f} /\ f \in Fibers \ In
        BY <3>2, <4>1, <1>e DEF Go
      <4>3. TryRuns'
        BY <2>0, <2>2, <3>2, <1>g
      <4> QED BY <3>2, <4>2, <4>3 DEF SectionMove
    <3> QED BY <2>2, <3>1, <3>2, <3>k, <1>w DEF Acquire, SemAcquire
  <2>3. CASE TryAcquire(f) /\ Op(code[f]) = "try"
    <3>1. CASE /\ Go(f)
               /\ kind = "semaphore" => word["main"] > 0 /\ word'["main"] = word["main"] - 1
               /\ kind # "semaphore" => word["main"] = 0 /\ word'["main"] = 1
      <4>1. Inside(Tail(code[f])) /\ ~Inside(code[f])
        BY <2>0, <2>3 DEF SectionCode, Inside
      <4>2. In' = In \cup {f} /\ f \in Fibers \ In
        BY <3>1, <4>1, <1>e DEF Go
      <4>3. TryRuns'
        BY <2>0, <2>3, <3>1, <1>g
      <4> QED BY <3>1, <4>2, <4>3 DEF SectionMove
    <3>2. CASE Goto(f, <<>>) /\ word' = word
      <4>1. ~Inside(<<>>) /\ ~Inside(code[f])
        BY <2>3 DEF Inside
      <4> QED BY <2>0, <3>2, <4>1, <1>e, <1>r DEF SectionMove
    <3> QED BY <2>3, <3>1, <3>2, <1>w DEF TryAcquire
  <2>4. CASE \/ Release(f) /\ Op(code[f]) \in {"release", "ensure"} /\ kind \in {"lock", "queue", "monitor"}
             \/ SemRelease(f) /\ Op(code[f]) = "ensure" /\ kind = "semaphore"
    <3>1. /\ Go(f)
          /\ kind = "semaphore" => word'["main"] = word["main"] + 1
          /\ kind # "semaphore" => word'["main"] = 0
      BY <2>4, <1>w DEF Release, SemRelease
    <3>2. ~Inside(Tail(code[f])) /\ Inside(code[f])
      BY <2>0, <2>4 DEF SectionCode, Inside
    <3>3. In' = In \ {f} /\ f \in In
      BY <3>1, <3>2, <1>e DEF Go
    <3>4. TryRuns'
      BY <2>0, <2>4, <3>1, <1>g
    <3> QED BY <3>1, <3>3, <3>4 DEF SectionMove
  <2>5. CASE CvWait(f) /\ Op(code[f]) = "wait"
    <3> PICK d : d = <<<<"release", Arg(code[f])>>, <<"park", Arg(code[f])>>, <<"acquire", Arg(code[f])>>>> \o Tail(code[f])
      OBVIOUS
    <3>1. Goto(f, d) /\ word' = word
      BY <2>5 DEF CvWait, Arg
    <3>2. Inside(d) /\ Inside(code[f])
      BY <2>0, <2>5 DEF SectionCode, Inside
    <3>3. d # <<>> => Op(d) # "try"
      BY <3>2 DEF Inside
    <3> QED BY <2>0, <3>1, <3>2, <3>3, <1>e, <1>r DEF SectionMove
  <2>6. CASE Notify(f) /\ Op(code[f]) \in {"notify", "broadcast"}
    <3>1. Go(f) /\ NextGeneration("cv")
      BY <2>0, <2>6 DEF Notify, SectionCode, Arg
    <3>2. word'["main"] = word["main"]
      BY <3>1, <1>t DEF NextGeneration, Set
    <3>3. Inside(Tail(code[f])) /\ Inside(code[f])
      BY <2>0, <2>6 DEF SectionCode, Inside
    <3>4. In' = In
      BY <3>1, <3>3, <1>e DEF Go
    <3>5. TryRuns'
      BY <2>0, <2>6, <3>1, <1>g
    <3> QED BY <3>2, <3>4, <3>5 DEF SectionMove
  <2>7. Op(code[f]) \in {"acquire", "try", "down", "body", "ensure", "wait", "notify", "broadcast", "release", "park"}
    BY <2>0 DEF SectionCode, Sections
  <2>8. kind \notin {"rwlock", "once"}
    BY DEF Sections
  <2> QED BY <1>2, <2>7, <2>8, CallOps, <2>1, <2>2, <2>3, <2>4, <2>5, <2>6
<1>3. ASSUME NEW f \in Fibers, Begin(f) PROVE TryRuns' /\ SectionMove
  <2>1. PICK d \in Operations : Goto(f, d) /\ word' = word /\ stack' = stack /\ Running(f) /\ code[f] = <<>>
    BY <1>3 DEF Begin
  <2>2. d \in {Enter(a) : a \in {"acquire", "down", "try"}}
    BY <2>1 DEF Operations, Sections, Enter
  <2>3. ~Inside(d) /\ ~Inside(code[f])
    <3>1. Op(Enter("acquire")) = "acquire" /\ Op(Enter("down")) = "down" /\ Op(Enter("try")) = "try"
      BY SectionShapes DEF Shape, Op
    <3> QED BY <2>1, <2>2, <3>1 DEF Inside
  <2>4. In' = In
    BY <2>1, <2>3, <1>e
  <2>5. ASSUME NEW g \in Fibers, g # f PROVE code'[g] = code[g]
    BY <2>1, <2>5, <1>t DEF Goto
  <2>6. \A g \in Fibers : Running(g)' <=> Running(g)
    BY <2>1 DEF Running
  <2>7. TryRuns'
    BY <2>1, <2>5, <2>6 DEF TryRuns, Op
  <2> QED BY <2>1, <2>4, <2>7 DEF SectionMove
<1>4. ASSUME NEW f \in Fibers, LeaveBody(f) PROVE TryRuns' /\ SectionMove
  <2>1. Running(f) /\ code[f] # <<>> /\ Op(code[f]) = "body" /\ Go(f) /\ word' = word
    BY <1>4 DEF LeaveBody, Doing, Op
  <2>2. Inside(Tail(code[f])) /\ Inside(code[f])
    BY <2>1, <1>c DEF SectionCode, Inside
  <2>3. In' = In
    BY <2>1, <2>2, <1>e DEF Go
  <2>4. TryRuns'
    BY <2>1, <1>g
  <2> QED BY <2>1, <2>3, <2>4 DEF SectionMove
<1>5. ASSUME NEW f \in Fibers, InMonitor(f) PROVE TryRuns' /\ SectionMove
  <2>1. PICK op \in {"wait", "notify", "broadcast"} : Goto(f, <<<<op, "cv">>>> \o code[f])
    BY <1>5 DEF InMonitor
  <2>2. kind = "monitor" /\ Running(f) /\ code[f] # <<>> /\ Op(code[f]) = "body" /\ word' = word
    BY <1>5 DEF InMonitor, Doing, Op
  <2> PICK d : d = <<<<op, "cv">>>> \o code[f]
    OBVIOUS
  <2>3. Inside(d) /\ Inside(code[f])
    BY <2>2, <1>c DEF SectionCode, Inside
  <2>4. d # <<>> => Op(d) # "try"
    BY <2>3 DEF Inside
  <2> QED BY <2>1, <2>2, <2>3, <2>4, <1>e, <1>r DEF SectionMove
<1>6. ASSUME NEW f \in Fibers, Suspend(f) \/ Resume(f) PROVE TryRuns' /\ SectionMove
  <2>1. code' = code /\ word' = word
    BY <1>6 DEF Suspend, Resume
  <2>2. \A g \in Fibers : ~(code[g] # <<>> /\ Op(code[g]) = "try")
    <3>1. CASE Suspend(f)
      BY <3>1, <1>t, RunningTop DEF Suspend, InBody, TryRuns, Op
    <3>2. CASE Resume(f)
      BY <3>2 DEF Resume, TryRuns, Running
    <3> QED BY <1>6, <3>1, <3>2
  <2> QED BY <2>1, <2>2 DEF TryRuns, SectionMove, In
<1>7. ASSUME NEW f \in Fibers, NEW g \in Fibers, Abort(f, g) PROVE TryRuns' /\ SectionMove
  <2>1. Goto(g, AfterAbort(code[g])) /\ word' = word /\ InBody(f) /\ code[g] # <<>> /\ ~InCondWait(code[g])
    BY <1>7 DEF Abort, AfterAbort
  <2>2. \A h \in Fibers : ~(code[h] # <<>> /\ Op(code[h]) = "try")
    BY <2>1, <1>t, RunningTop DEF InBody, TryRuns, Op
  <2>3. Inside(AfterAbort(code[g])) <=> Inside(code[g])
    BY <2>1, <2>2, <1>c DEF SectionCode
  <2>4. AfterAbort(code[g]) # <<>> => Op(AfterAbort(code[g])) # "try"
    BY <2>1, <1>c DEF SectionCode
  <2>5. In' = In
    BY <2>1, <2>3, <1>e
  <2>6. \A h \in Fibers : code'[h] = IF h = g THEN AfterAbort(code[g]) ELSE code[h]
    BY <2>1, <1>t DEF Goto
  <2>7. TryRuns'
    BY <2>2, <2>4, <2>6 DEF TryRuns, Op
  <2> QED BY <2>1, <2>5, <2>7 DEF SectionMove
<1> QED BY <1>1, <1>2, <1>3, <1>4, <1>5, <1>6, <1>7 DEF Next

-----------------------------------------------------------------------------
(* The read-write lock.                                                    *)

\* The side on which a fiber with code c is in: "read" or "write".
Side(c) == IF c # <<>> /\ Op(c) \in {"body", "ensure"} THEN Arg(c) ELSE "none"
Among(a) == {f \in Fibers : Side(code[f]) = a}

RwCode(c) ==
    /\ Op(c) \in {"read", "write", "park", "body", "ensure"}
    /\ Op(c) \in {"read", "write"} => Side(Tail(c)) = Op(c) /\ Side(<<<<"park", "main">>>> \o c) = "none"
    /\ Op(c) = "park" => Side(Tail(c)) = "none"
    /\ Op(c) = "body" => Side(Tail(c)) = Side(c)
    /\ Op(c) = "ensure" => Side(Tail(c)) = "none" /\ Arg(c) \in {"read", "write"}
    /\ Side(AfterAbort(c)) = Side(c)

\* The codes of the read-write lock are such codes.
LEMMA RwCodesAre == ASSUME kind = "rwlock", NEW c \in Codes(kind), c # <<>> PROVE RwCode(c)
<1>s. ASSUME NEW b, NEW op, NEW x, NEW t, NEW e, Shape(b, op, x, t, e)
      PROVE  b # <<>> /\ Op(b) = op /\ Arg(b) = x /\ Tail(b) = t /\ AfterAbort(b) = e
  BY <1>s DEF Shape, Op, Arg
<1>0. Side(<<>>) = "none"
  BY DEF Side
<1>1. ASSUME NEW a \in {"read", "write"} PROVE RwCode(RwEnter(a)) /\ RwCode(RwPark(a)) /\ RwCode(RwIn(a)) /\ RwCode(Out(a))
  <2>1. /\ Shape(RwEnter(a), a, "main", RwIn(a), <<>>) /\ Shape(RwPark(a), "park", "main", RwEnter(a), <<>>)
        /\ Shape(RwIn(a), "body", a, Out(a), Out(a)) /\ Shape(Out(a), "ensure", a, <<>>, Out(a))
    BY RwShapes, SectionShapes
  <2>2. /\ Op(RwEnter(a)) = a /\ Tail(RwEnter(a)) = RwIn(a) /\ AfterAbort(RwEnter(a)) = <<>>
        /\ Op(RwPark(a)) = "park" /\ Tail(RwPark(a)) = RwEnter(a) /\ AfterAbort(RwPark(a)) = <<>>
    BY <2>1, <1>s
  <2>3. /\ Op(RwIn(a)) = "body" /\ Arg(RwIn(a)) = a /\ Tail(RwIn(a)) = Out(a) /\ AfterAbort(RwIn(a)) = Out(a) /\ RwIn(a) # <<>>
        /\ Op(Out(a)) = "ensure" /\ Arg(Out(a)) = a /\ Tail(Out(a)) = <<>> /\ AfterAbort(Out(a)) = Out(a) /\ Out(a) # <<>>
    BY <2>1, <1>s
  <2>4. Side(RwEnter(a)) = "none" /\ Side(RwPark(a)) = "none" /\ Side(RwIn(a)) = a /\ Side(Out(a)) = a
    BY <2>2, <2>3 DEF Side
  <2>5. <<<<"park", "main">>>> \o RwEnter(a) = RwPark(a)
    BY Joined DEF RwEnter, RwPark
  <2> QED BY <1>0, <2>2, <2>3, <2>4, <2>5 DEF RwCode
<1>2. c \in RwCodes
  BY DEF Codes
<1> QED BY <1>1, <1>2 DEF RwCodes

\* A step lets nobody in or out, or one reader, or one writer.
RwMove ==
    \/ rw' = rw /\ Among("read")' = Among("read") /\ Among("write")' = Among("write")
    \/ \E f \in Fibers \ Among("read") :
          rw >= 0 /\ rw' = rw + 1 /\ Among("read")' = Among("read") \cup {f} /\ Among("write")' = Among("write")
    \/ \E f \in Fibers \ Among("write") :
          rw = 0 /\ rw' = -1 /\ Among("write")' = Among("write") \cup {f} /\ Among("read")' = Among("read")
    \/ \E f \in Among("read") :
          rw' = rw - 1 /\ Among("read")' = Among("read") \ {f} /\ Among("write")' = Among("write")
    \/ \E f \in Among("write") :
          rw' = 0 /\ Among("write")' = Among("write") \ {f} /\ Among("read")' = Among("read")

\* The steps of a read-write lock.
LEMMA RwStep == ASSUME kind = "rwlock", CodesHold, Next PROVE RwMove
<1>t. code \in [Fibers -> Codes(kind)]
  BY DEF CodesHold
<1>c. \A f \in Fibers : code[f] # <<>> => RwCode(code[f])
  BY <1>t, RwCodesAre
<1>e. ASSUME NEW f \in Fibers, NEW d, Goto(f, d)
      PROVE  \A a \in {"read", "write"} :
                /\ Side(d) = Side(code[f]) => Among(a)' = Among(a)
                /\ Side(d) # a /\ Side(code[f]) # a => Among(a)' = Among(a)
                /\ Side(d) = a /\ Side(code[f]) # a => Among(a)' = Among(a) \cup {f} /\ f \in Fibers \ Among(a)
                /\ Side(d) # a /\ Side(code[f]) = a => Among(a)' = Among(a) \ {f} /\ f \in Among(a)
  BY <1>e, <1>t DEF Goto, Among
<1>q. ASSUME NEW f \in Fibers, NEW d, Goto(f, d), Side(d) = Side(code[f]), rw' = rw PROVE RwMove
  BY <1>q, <1>e DEF RwMove
<1>u. ASSUME code' = code, rw' = rw PROVE RwMove
  BY <1>u DEF RwMove, Among
<1>1. CASE WakeNext \/ WakeReady
  BY <1>1, <1>u DEF WakeNext, WakeReady, dataVars
<1>2. ASSUME NEW f \in Fibers, Call(f) PROVE RwMove
  <2>0. code[f] # <<>> /\ RwCode(code[f])
    BY <1>2, <1>c, CallOps
  <2>1. CASE FutexWait(f) /\ Op(code[f]) = "park"
    <3>1. Side(Tail(code[f])) = Side(code[f])
      BY <2>0, <2>1 DEF RwCode, Side
    <3> QED BY <2>1, <3>1, <1>q, <1>u DEF FutexWait, Go, dataVars
  <2>2. CASE RwAcquire(f) /\ Op(code[f]) \in {"read", "write"}
    <3>0. Side(code[f]) = "none"
      BY <2>2 DEF Side
    <3>1. CASE MayRead(f) \/ MayWrite(f)
      <4>1. Go(f) /\ Side(Tail(code[f])) = Op(code[f])
        BY <2>0, <2>2, <3>1 DEF RwAcquire, RwCode
      <4>2. CASE Op(code[f]) = "read"
        <5>1. rw >= 0 /\ rw' = rw + 1
          BY <2>2, <3>1, <4>2 DEF RwAcquire, MayRead, MayWrite, Doing, Op
        <5>2. Among("read")' = Among("read") \cup {f} /\ f \in Fibers \ Among("read") /\ Among("write")' = Among("write")
          BY <3>0, <4>1, <4>2, <1>e DEF Go
        <5> QED BY <5>1, <5>2 DEF RwMove
      <4>3. CASE Op(code[f]) = "write"
        <5>1. rw = 0 /\ rw' = -1
          BY <2>2, <3>1, <4>3 DEF RwAcquire, MayRead, MayWrite, Doing, Op
        <5>2. Among("write")' = Among("write") \cup {f} /\ f \in Fibers \ Among("write") /\ Among("read")' = Among("read")
          BY <3>0, <4>1, <4>3, <1>e DEF Go
        <5> QED BY <5>1, <5>2 DEF RwMove
      <4> QED BY <2>2, <4>2, <4>3
    <3>2. CASE ~(MayRead(f) \/ MayWrite(f))
      <4>1. Goto(f, <<<<"park", "main">>>> \o code[f]) /\ rw' = rw
        BY <2>2, <3>2 DEF RwAcquire
      <4>2. Side(<<<<"park", "main">>>> \o code[f]) = Side(code[f])
        BY <2>0, <2>2, <3>0 DEF RwCode
      <4> QED BY <4>1, <4>2, <1>q
    <3> QED BY <3>1, <3>2
  <2>3. CASE RwRelease(f) /\ Op(code[f]) = "ensure"
    <3>1. /\ Go(f) /\ rw' = IF Arg(code[f]) = "read" THEN rw - 1 ELSE 0
          /\ Side(Tail(code[f])) = "none" /\ Arg(code[f]) \in {"read", "write"} /\ Side(code[f]) = Arg(code[f])
      BY <2>0, <2>3 DEF RwRelease, RwCode, Arg, Side
    <3>2. CASE Arg(code[f]) = "read"
      <4>1. Among("read")' = Among("read") \ {f} /\ f \in Among("read") /\ Among("write")' = Among("write")
        BY <3>1, <3>2, <1>e DEF Go
      <4> QED BY <3>1, <3>2, <4>1 DEF RwMove
    <3>3. CASE Arg(code[f]) = "write"
      <4>1. Among("write")' = Among("write") \ {f} /\ f \in Among("write") /\ Among("read")' = Among("read")
        BY <3>1, <3>3, <1>e DEF Go
      <4> QED BY <3>1, <3>3, <4>1 DEF RwMove
    <3> QED BY <3>1, <3>2, <3>3
  <2>4. Op(code[f]) \in {"read", "write", "park", "body", "ensure"}
    BY <2>0 DEF RwCode
  <2> QED BY <1>2, <2>1, <2>2, <2>3, <2>4, CallOps
<1>3. ASSUME NEW f \in Fibers, Begin(f) PROVE RwMove
  <2>1. PICK d \in Operations : Goto(f, d) /\ rw' = rw /\ code[f] = <<>>
    BY <1>3 DEF Begin, dataVars
  <2>2. PICK a \in {"read", "write"} : d = RwEnter(a)
    BY <2>1 DEF Operations, RwEnter
  <2>3. Side(d) = "none"
    BY <2>2, RwShapes DEF Shape, Op, Side
  <2>4. Side(code[f]) = "none"
    BY <2>1 DEF Side
  <2> QED BY <2>1, <2>3, <2>4, <1>q
<1>4. ASSUME NEW f \in Fibers, LeaveBody(f) PROVE RwMove
  <2>1. code[f] # <<>> /\ Op(code[f]) = "body" /\ Go(f) /\ rw' = rw
    BY <1>4 DEF LeaveBody, Doing, Op, dataVars
  <2>2. Side(Tail(code[f])) = Side(code[f])
    BY <2>1, <1>c DEF RwCode
  <2> QED BY <2>1, <2>2, <1>q DEF Go
<1>5. ASSUME NEW f \in Fibers, InMonitor(f) \/ Suspend(f) \/ Resume(f) PROVE RwMove
  BY <1>5, <1>u DEF InMonitor, Suspend, Resume, dataVars
<1>6. ASSUME NEW f \in Fibers, NEW g \in Fibers, Abort(f, g) PROVE RwMove
  <2>1. Goto(g, AfterAbort(code[g])) /\ rw' = rw /\ code[g] # <<>>
    BY <1>6 DEF Abort, AfterAbort, dataVars
  <2>2. Side(AfterAbort(code[g])) = Side(code[g])
    BY <2>1, <1>c DEF RwCode
  <2> QED BY <2>1, <2>2, <1>q
<1> QED BY <1>1, <1>2, <1>3, <1>4, <1>5, <1>6 DEF Next

-----------------------------------------------------------------------------
(* Exclusion.                                                              *)

\* A lock that is taken is taken by the one fiber that is inside.
MutexInv == In = {} \/ (word["main"] # 0 /\ \E f \in Fibers : In = {f})
\* A permit is in the semaphore or with a fiber that is inside.
PermitInv == word["main"] \in Nat /\ word["main"] + Cardinality(In) = Permits
\* The read-write lock counts its readers, and has a writer alone or none.
RwInv == /\ rw \in Int
         /\ \/ rw = -1 /\ Among("read") = {} /\ \E f \in Fibers : Among("write") = {f}
            \/ Among("write") = {} /\ rw = Cardinality(Among("read"))

SectionInv ==
    /\ kind \in Sections => TryRuns
    /\ kind \in {"lock", "monitor"} => MutexInv
    /\ kind = "semaphore" => PermitInv
    /\ kind = "rwlock" => RwInv

SyncInv == CodesHold /\ PlaceHolds

\* The codes and the places hold, whatever is aborted.
LEMMA SyncInvariant == Spec => []SyncInv
<1>1. ASSUME Init PROVE SyncInv
  <2>1. CodesHold
    BY <1>1, CodesStart
  <2>2. word \in [Futexes -> Int] /\ parked = [x \in Futexes |-> <<>>] /\ stack = <<>>
    BY <1>1, SyncAssumption DEF Init
  <2>3. <<>> \in Seq(Fibers) /\ <<>> \in Seq(Frames) /\ Len(<<>>) = 0
    OBVIOUS
  <2>5. SchedTypes
    BY <2>2, <2>3 DEF SchedTypes
  <2>6. \A y : y \notin Range(<<>>)
    <3>1. \A y : y \in Range(<<>>) <=> \E i \in 1..Len(<<>>) : <<>>[i] = y
      BY <2>3, RangeSeq
    <3> QED BY <2>3, <3>1
  <2>7. OnePlaced
    BY <2>2, <2>3, <2>6 DEF OnePlaced, RunsOnce, Distinct
  <2> QED BY <2>1, <2>5, <2>7 DEF SyncInv, PlaceHolds
<1>2. ASSUME SyncInv, [Next]_vars PROVE SyncInv'
  BY <1>2, CodesKept, PlaceKept DEF SyncInv
<1> QED BY <1>1, <1>2, PTL DEF Spec

\* At first nobody is inside.
LEMMA SectionStart == ASSUME Init PROVE SectionInv
<1>1. \A f \in Fibers : code[f] = <<>>
  BY DEF Init
<1>2. In = {} /\ Among("read") = {} /\ Among("write") = {}
  BY <1>1 DEF In, Inside, Among, Side
<1>3. Cardinality({}) = 0
  BY FS_EmptySet
<1>4. kind = "semaphore" => word["main"] = Permits
  BY DEF Init, Futexes
<1>5. PermitInv \/ kind # "semaphore"
  BY <1>2, <1>3, <1>4, SyncAssumption DEF PermitInv
<1>6. RwInv
  <2>1. rw = 0
    BY DEF Init
  <2>2. Cardinality(Among("read")) = 0
    BY <1>2, <1>3
  <2> QED BY <1>2, <2>1, <2>2 DEF RwInv
<1>7. TryRuns /\ MutexInv
  BY <1>1, <1>2 DEF TryRuns, MutexInv
<1> QED BY <1>5, <1>6, <1>7 DEF SectionInv

\* What a section admits is kept by every step.
LEMMA SectionKept == ASSUME ~AbortsWaits, SyncInv, SectionInv, [Next]_vars PROVE SectionInv'
<1>u. CASE UNCHANGED vars
  BY <1>u DEF SectionInv, TryRuns, MutexInv, PermitInv, RwInv, In, Among, Running, vars
<1>n. CASE Next
  <2>0. kind' = kind /\ CodesHold /\ PlaceHolds /\ word["main"] \in Int /\ IsFiniteSet(Fibers)
    BY <1>n, SameObject, EveryoneNat DEF SyncInv, PlaceHolds, SchedTypes, Futexes
  <2>1. kind \in Sections => TryRuns' /\ SectionMove
    BY <1>n, <2>0, SectionStep DEF SectionInv
  <2>2. kind \in {"lock", "monitor"} => MutexInv'
    <3>1. SUFFICES ASSUME kind \in {"lock", "monitor"} PROVE MutexInv'
      OBVIOUS
    <3>2. MutexInv /\ SectionMove /\ kind # "semaphore"
      BY <2>1, <3>1 DEF SectionInv, Sections
    <3>3. CASE In' = In /\ word'["main"] = word["main"]
      BY <3>2, <3>3 DEF MutexInv
    <3>4. ASSUME NEW f \in Fibers \ In, In' = In \cup {f}, word["main"] = 0, word'["main"] = 1 PROVE MutexInv'
      <4>1. In' = {f}
        BY <3>2, <3>4 DEF MutexInv
      <4> QED BY <3>4, <4>1 DEF MutexInv
    <3>5. ASSUME NEW f \in In, In' = In \ {f} PROVE MutexInv'
      BY <3>2, <3>5 DEF MutexInv
    <3> QED BY <3>2, <3>3, <3>4, <3>5 DEF SectionMove
  <2>3. kind = "semaphore" => PermitInv'
    <3>1. SUFFICES ASSUME kind = "semaphore" PROVE PermitInv'
      OBVIOUS
    <3>2. PermitInv /\ SectionMove
      BY <2>1, <3>1 DEF SectionInv, Sections
    <3>3. IsFiniteSet(In) /\ Cardinality(In) \in Nat
      BY <2>0, FS_Subset, FS_CardinalityType DEF In
    <3>4. CASE In' = In /\ word'["main"] = word["main"]
      BY <3>2, <3>4 DEF PermitInv
    <3>5. ASSUME NEW f \in Fibers \ In, In' = In \cup {f}, word["main"] > 0, word'["main"] = word["main"] - 1 PROVE PermitInv'
      <4>1. Cardinality(In \cup {f}) = Cardinality(In) + 1
        BY <3>3, <3>5, FS_AddElement
      <4> QED BY <3>2, <3>3, <3>5, <4>1 DEF PermitInv
    <3>6. ASSUME NEW f \in In, In' = In \ {f}, word'["main"] = word["main"] + 1 PROVE PermitInv'
      <4>1. Cardinality(In \ {f}) = Cardinality(In) - 1
        BY <3>3, <3>6, FS_RemoveElement
      <4> QED BY <3>2, <3>3, <3>6, <4>1 DEF PermitInv
    <3> QED BY <3>1, <3>2, <3>4, <3>5, <3>6 DEF SectionMove
  <2>4. kind = "rwlock" => RwInv'
    <3>1. SUFFICES ASSUME kind = "rwlock" PROVE RwInv'
      OBVIOUS
    <3>2. RwInv /\ RwMove
      BY <1>n, <2>0, <3>1, RwStep DEF SectionInv
    <3>3. IsFiniteSet(Among("read")) /\ Cardinality(Among("read")) \in Nat
      BY <2>0, FS_Subset, FS_CardinalityType DEF Among
    <3>4. CASE rw' = rw /\ Among("read")' = Among("read") /\ Among("write")' = Among("write")
      BY <3>2, <3>4 DEF RwInv
    <3>5. ASSUME NEW f \in Fibers \ Among("read"), rw >= 0, rw' = rw + 1,
                 Among("read")' = Among("read") \cup {f}, Among("write")' = Among("write")
          PROVE  RwInv'
      <4>1. Cardinality(Among("read") \cup {f}) = Cardinality(Among("read")) + 1
        BY <3>3, <3>5, FS_AddElement
      <4>2. Among("write") = {} /\ rw = Cardinality(Among("read"))
        BY <3>2, <3>5 DEF RwInv
      <4> QED BY <3>3, <3>5, <4>1, <4>2 DEF RwInv
    <3>6. ASSUME NEW f \in Fibers \ Among("write"), rw = 0, rw' = -1,
                 Among("write")' = Among("write") \cup {f}, Among("read")' = Among("read")
          PROVE  RwInv'
      <4>1. Among("write") = {} /\ Cardinality(Among("read")) = 0
        BY <3>2, <3>6 DEF RwInv
      <4>2. Among("read") = {}
        BY <3>3, <4>1, FS_EmptySet
      <4> QED BY <3>6, <4>1, <4>2 DEF RwInv
    <3>7. ASSUME NEW f \in Among("read"), rw' = rw - 1,
                 Among("read")' = Among("read") \ {f}, Among("write")' = Among("write")
          PROVE  RwInv'
      <4>1. Cardinality(Among("read") \ {f}) = Cardinality(Among("read")) - 1
        BY <3>3, <3>7, FS_RemoveElement
      <4>2. Among("write") = {} /\ rw = Cardinality(Among("read"))
        BY <3>2, <3>7 DEF RwInv
      <4>3. Cardinality(Among("read")') = Cardinality(Among("read")) - 1
        BY <3>7, <4>1
      <4>4. rw' \in Int /\ rw' = Cardinality(Among("read")') /\ Among("write")' = {}
        BY <3>3, <3>7, <4>2, <4>3
      <4> QED BY <4>4 DEF RwInv
    <3>8. ASSUME NEW f \in Among("write"), rw' = 0,
                 Among("write")' = Among("write") \ {f}, Among("read")' = Among("read")
          PROVE  RwInv'
      <4>1. Among("read") = {} /\ Among("write") = {f}
        BY <3>2, <3>8 DEF RwInv
      <4>2. Cardinality({}) = 0
        BY FS_EmptySet
      <4> QED BY <3>8, <4>1, <4>2 DEF RwInv
    <3> QED BY <3>2, <3>4, <3>5, <3>6, <3>7, <3>8 DEF RwMove
  <2> QED BY <2>0, <2>1, <2>2, <2>3, <2>4 DEF SectionInv
<1> QED BY <1>u, <1>n

\* Only the read-write lock has a writer's section, and only a gate is passed.
LEMMA BodiesOf ==
    ASSUME CodesHold, NEW f \in Fibers, code[f] # <<>>, Op(code[f]) = "body"
    PROVE  /\ kind # "rwlock" => Arg(code[f]) # "write"
           /\ kind \notin {"barrier", "latch", "once"} => Arg(code[f]) # "passed"
<1>s. ASSUME NEW b, NEW op, NEW x, NEW t, NEW e, Shape(b, op, x, t, e) PROVE Op(b) = op /\ Arg(b) = x
  BY <1>s DEF Shape, Op, Arg
<1> PICK c : c = code[f]
  OBVIOUS
<1>0. c \in Codes(kind) /\ kind \in AllKinds /\ c # <<>> /\ Op(c) = "body"
  BY DEF CodesHold
<1>1. CASE kind \in Sections
  <2>1. c \in MonitorCodes \cup {Enter("try"), Enter("down")}
    BY <1>0, <1>1 DEF Codes, MonitorCodes, LockCodes, Sections
  <2>2. Arg(Held) = "held" /\ Op(Out("main")) = "ensure" /\ Op(CvRelease) = "release" /\ Arg(CvPark) = "cv" /\ Op(CvBack) = "acquire"
    BY <1>s, SectionShapes
  <2>3. Op(Enter("acquire")) = "acquire" /\ Op(Enter("down")) = "down" /\ Op(Enter("try")) = "try"
    BY <1>s, SectionShapes
  <2>4. ASSUME NEW op \in {"wait", "notify", "broadcast"} PROVE Arg(Ask(op)) = "cv"
    <3>1. Shape(Ask(op), op, "cv", Held, Out("main"))
      BY SectionShapes
    <3> QED BY <3>1, <1>s
  <2> QED BY <1>0, <2>1, <2>2, <2>3, <2>4 DEF MonitorCodes, LockCodes
<1>2. CASE kind = "rwlock"
  <2>1. c \in RwCodes
    BY <1>0, <1>2 DEF Codes
  <2>2. ASSUME NEW a \in {"read", "write"}
        PROVE  Op(RwEnter(a)) = a /\ Arg(RwPark(a)) = "main" /\ Arg(RwIn(a)) = a /\ Op(Out(a)) = "ensure"
    BY <1>s, RwShapes, SectionShapes
  <2> QED BY <1>0, <1>2, <2>1, <2>2 DEF RwCodes
<1>3. CASE kind \in {"barrier", "latch", "once"}
  <2>1. c \in {Passed, Opening, Thunk, Settle, Out("done")} \cup {Gate(op) : op \in {"arrive", "gate", "get", "park"}}
    BY <1>0, <1>3 DEF Codes, GateCodes, OnceCodes
  <2>2. ASSUME NEW op \in {"arrive", "gate", "get", "park"} PROVE Arg(Gate(op)) = "main"
    BY <1>s, GateShapes
  <2>3. Arg(Passed) = "passed" /\ Op(Opening) = "open" /\ Arg(Thunk) = "thunk" /\ Op(Settle) = "ensure" /\ Op(Out("done")) = "ensure"
    BY <1>s, GateShapes, SectionShapes
  <2> QED BY <1>0, <1>3, <2>1, <2>2, <2>3
<1>4. CASE kind = "queue"
  <2>1. c \in Unanswered \cup Served
    BY <1>0, <1>4 DEF Codes
  <2>2. ASSUME NEW a \in {"put", "take", "close"}, NEW x \in {"main", "full", "empty"}
        PROVE  Op(QAct(a)) = a /\ Op(QBack(x, a)) = "acquire" /\ Op(QWait(x, a)) = "wait" /\ Op(QRelease(x, a)) = "release" /\ Op(QPark(x, a)) = "park"
    <3>1. /\ Shape(QAct(a), a, "main", <<>>, <<>>) /\ Shape(QBack(x, a), "acquire", x, QAct(a), <<>>)
          /\ Shape(QWait(x, a), "wait", x, QAct(a), <<>>) /\ Shape(QRelease(x, a), "release", x, QPark(x, a), <<>>)
          /\ Shape(QPark(x, a), "park", x, QBack(x, a), <<>>)
      BY QueueShapes
    <3> QED BY <3>1, <1>s
  <2>3. /\ Op(QNotify("full")) = "notify" /\ Op(QNotify("empty")) = "notify" /\ Op(QClose) = "broadcast" /\ Op(QClosing) = "broadcast"
        /\ Op(QDone) = "release"
    <3>1. /\ Shape(QNotify("full"), "notify", "full", QDone, <<>>) /\ Shape(QNotify("empty"), "notify", "empty", QDone, <<>>)
          /\ Shape(QClose, "broadcast", "full", QClosing, <<>>) /\ Shape(QClosing, "broadcast", "empty", QDone, <<>>)
          /\ Shape(QDone, "release", "main", <<>>, <<>>)
      BY QueueShapes
    <3> QED BY <3>1, <1>s
  <2> QED BY <1>0, <2>1, <2>2, <2>3 DEF Unanswered, Served
<1> QED BY <1>0, <1>1, <1>2, <1>3, <1>4 DEF AllKinds, Sections

\* Who is inside is as many as the object admits.
LEMMA SectionSuffices == ASSUME SyncInv, SectionInv PROVE Exclusion
<1>0. IsFiniteSet(Fibers) /\ CodesHold
  BY EveryoneNat DEF SyncInv
<1>1. Holding \subseteq In /\ Readers \subseteq Among("read") /\ Writers \subseteq Among("write")
  BY DEF Holding, Readers, Writers, At, In, Inside, Among, Side, Op, Arg
<1>2. IsFiniteSet(In) /\ Cardinality(In) \in Nat
  BY <1>0, FS_Subset, FS_CardinalityType DEF In
<1>3. Cardinality(Holding) <= Cardinality(In) /\ Cardinality(Holding) \in Nat
  BY <1>1, <1>2, FS_Subset, FS_CardinalityType
<1>4. kind \in {"lock", "monitor"} => Cardinality(Holding) <= 1
  <2>1. Cardinality({}) = 0 /\ \A f : Cardinality({f}) = 1
    BY FS_EmptySet, FS_Singleton
  <2>2. kind \in {"lock", "monitor"} => Cardinality(In) <= 1
    BY <2>1 DEF SectionInv, MutexInv
  <2> QED BY <1>2, <1>3, <2>2
<1>5. kind = "semaphore" => Cardinality(Holding) <= Permits
  BY <1>2, <1>3, SyncAssumption DEF SectionInv, PermitInv
<1>6. Writers # {} => Readers = {} /\ Cardinality(Writers) = 1
  <2>1. SUFFICES ASSUME Writers # {} PROVE Readers = {} /\ Cardinality(Writers) = 1
    OBVIOUS
  <2>2. kind = "rwlock"
    <3>1. PICK f \in Fibers : code[f] # <<>> /\ Op(code[f]) = "body" /\ Arg(code[f]) = "write"
      BY <2>1 DEF Writers, At, Op, Arg
    <3> QED BY <3>1, <1>0, BodiesOf
  <2>3. PICK f \in Fibers : Among("read") = {} /\ Among("write") = {f}
    BY <1>1, <2>1, <2>2 DEF SectionInv, RwInv
  <2>4. Writers = {f} /\ Readers = {}
    BY <1>1, <2>1, <2>3
  <2> QED BY <2>4, FS_Singleton
<1> QED BY <1>4, <1>5, <1>6 DEF Exclusion

\* Nobody but the fiber that acquired the lock or the monitor is in its section,
\* the semaphore admits as many as it has permits, and a writer is alone: for
\* any number of fibers, of permits, of calls and of aborts, under the event
\* loop and under a process scheduler, as long as nobody is aborted inside a
\* condition wait (what happens then is the run MonitorAbort).
THEOREM SectionsExclude == ASSUME ~AbortsWaits PROVE Spec => []Exclusion
<1>1. Init => SectionInv
  BY SectionStart
<1>2. SyncInv /\ SectionInv /\ [Next]_vars => SectionInv'
  BY SectionKept
<1>3. SyncInv /\ SectionInv => Exclusion
  BY SectionSuffices
<1> QED BY <1>1, <1>2, <1>3, SyncInvariant, PTL DEF Spec

-----------------------------------------------------------------------------
(* Gates: barriers, latches, once cells.                                   *)

Gates == {"barrier", "latch", "once"}

\* The code of a fiber past the gate, and of one that waits in front of it.
Past(c) == c # <<>> /\ Op(c) = "body" /\ Arg(c) = "passed"
Stopped(c) == c # <<>> /\ Op(c) = "park"
Neither(c) == ~Past(c) /\ ~Stopped(c)

GateCode(c) ==
    /\ kind = "barrier" => Op(c) \in {"arrive", "park", "body"}
    /\ kind = "latch" => Op(c) \in {"gate", "park", "body", "open"}
    /\ kind = "once" => Op(c) \in {"get", "park", "body", "ensure"}
    /\ Op(c) \in {"arrive", "gate", "get", "park"} =>
         /\ Past(Tail(c)) /\ ~Stopped(Tail(c)) /\ Arg(c) = "main"
         /\ Stopped(<<<<"park", "main">>>> \o Tail(c)) /\ ~Past(<<<<"park", "main">>>> \o Tail(c))
         /\ Op(<<<<"park", "main">>>> \o Tail(c)) = "park"
         /\ Neither(<<<<"body", "thunk">>, <<"ensure", "done">>>> \o Tail(c))
    /\ Op(c) \in {"body", "open"} => Neither(Tail(c))
    /\ Op(c) = "ensure" => ~Stopped(Tail(c))
    /\ kind = "barrier" /\ Op(c) = "body" => Tail(c) = <<>>
    /\ Neither(AfterAbort(c))
    /\ kind = "barrier" => AfterAbort(c) = <<>>

\* The codes of the gates are such codes.
LEMMA GateCodesAre == ASSUME kind \in Gates, NEW c \in Codes(kind), c # <<>> PROVE GateCode(c)
<1>s. ASSUME NEW b, NEW op, NEW x, NEW t, NEW e, Shape(b, op, x, t, e)
      PROVE  b # <<>> /\ Op(b) = op /\ Arg(b) = x /\ Tail(b) = t /\ AfterAbort(b) = e
  BY <1>s DEF Shape, Op, Arg
<1>0. Neither(<<>>)
  BY DEF Neither, Past, Stopped
<1>p. /\ Passed # <<>> /\ Op(Passed) = "body" /\ Arg(Passed) = "passed" /\ Tail(Passed) = <<>> /\ AfterAbort(Passed) = <<>>
      /\ Past(Passed) /\ ~Stopped(Passed)
  BY <1>s, GateShapes DEF Past, Stopped
<1>g. ASSUME NEW op \in {"arrive", "gate", "get", "park"}
      PROVE  Gate(op) # <<>> /\ Op(Gate(op)) = op /\ Arg(Gate(op)) = "main" /\ Tail(Gate(op)) = Passed /\ AfterAbort(Gate(op)) = <<>>
  BY <1>s, GateShapes
<1>t. /\ Op(Thunk) = "body" /\ Arg(Thunk) = "thunk" /\ Tail(Thunk) = Settle /\ AfterAbort(Thunk) = Out("done")
      /\ Op(Settle) = "ensure" /\ Tail(Settle) = Passed /\ AfterAbort(Settle) = Out("done")
      /\ Op(Opening) = "open" /\ Tail(Opening) = <<>> /\ AfterAbort(Opening) = <<>>
  BY <1>s, GateShapes
<1>o. Op(Out("done")) = "ensure" /\ Tail(Out("done")) = <<>> /\ AfterAbort(Out("done")) = Out("done")
  BY <1>s, SectionShapes
<1>n. Neither(Thunk) /\ Neither(Settle) /\ Neither(Out("done")) /\ ~Stopped(<<>>)
  BY <1>t, <1>o DEF Neither, Past, Stopped
<1>j. <<<<"park", "main">>>> \o Passed = Gate("park") /\ <<<<"body", "thunk">>, <<"ensure", "done">>>> \o Passed = Thunk
  BY Joined DEF Passed, Gate, Thunk
<1>k. Stopped(Gate("park")) /\ ~Past(Gate("park")) /\ Op(Gate("park")) = "park"
  BY <1>g DEF Stopped, Past
<1>1. ASSUME NEW op \in {"arrive", "gate", "get", "park"}, c = Gate(op),
             kind = "barrier" => op \in {"arrive", "park"}, kind = "latch" => op \in {"gate", "park"},
             kind = "once" => op \in {"get", "park"}
      PROVE  GateCode(c)
  <2>1. Op(c) = op /\ Arg(c) = "main" /\ Tail(c) = Passed /\ AfterAbort(c) = <<>>
    BY <1>1, <1>g
  <2> QED BY <1>1, <2>1, <1>0, <1>p, <1>n, <1>j, <1>k DEF GateCode
<1>2. ASSUME c = Passed PROVE GateCode(c)
  BY <1>2, <1>0, <1>p DEF GateCode
<1>3. ASSUME c = Opening, kind = "latch" PROVE GateCode(c)
  BY <1>3, <1>0, <1>t DEF GateCode
<1>4. ASSUME c \in {Thunk, Settle, Out("done")}, kind = "once" PROVE GateCode(c)
  <2>1. CASE c = Thunk
    BY <1>4, <2>1, <1>t, <1>n DEF GateCode
  <2>2. CASE c = Settle
    BY <1>4, <2>2, <1>t, <1>n, <1>p DEF GateCode
  <2>3. CASE c = Out("done")
    BY <1>4, <2>3, <1>o, <1>n DEF GateCode
  <2> QED BY <1>4, <2>1, <2>2, <2>3
<1>5. \/ kind = "barrier" /\ c \in GateCodes({"arrive", "park"})
      \/ kind = "latch" /\ c \in GateCodes({"gate", "park"}) \cup {Opening}
      \/ kind = "once" /\ c \in GateCodes({"get", "park"}) \cup {Thunk, Settle, Out("done")}
  BY DEF Gates, Codes, OnceCodes
<1> QED BY <1>1, <1>2, <1>3, <1>4, <1>5 DEF GateCodes

\* The latch: a fiber in front of it expects it shut.
LatchInv ==
    /\ word["main"] \in {0, 1} /\ mem \in [Fibers -> Int]
    /\ \A f \in Fibers : (Stopped(code[f]) => mem[f] = 0) /\ (Past(code[f]) => word["main"] = 1)

\* The once cell: a fiber in front of it found the thunk running.
OnceInv ==
    /\ word["main"] \in {0, 1, 2} /\ mem \in [Fibers -> Int]
    /\ \A f \in Fibers : (Stopped(code[f]) => mem[f] = 1 /\ word["main"] # 0) /\ (Past(code[f]) => word["main"] = 2)

\* The steps of a latch and of a once cell.
LEMMA LatchOnceStep ==
    ASSUME kind \in {"latch", "once"}, SyncInv, Next,
           kind = "latch" => LatchInv, kind = "once" => OnceInv
    PROVE  (kind = "latch" => LatchInv') /\ (kind = "once" => OnceInv')
<1> DEFINE Kept == (kind = "latch" => LatchInv') /\ (kind = "once" => OnceInv')
<1>t. code \in [Fibers -> Codes(kind)] /\ word \in [Futexes -> Int] /\ "main" \in Futexes
  BY DEF SyncInv, CodesHold, PlaceHolds, SchedTypes, Futexes
<1>c. \A f \in Fibers : code[f] # <<>> => GateCode(code[f])
  BY <1>t, GateCodesAre DEF Gates
<1>w. \A v : Set("main", v) => word'["main"] = v
  BY <1>t DEF Set
<1>g. ASSUME NEW f \in Fibers, NEW d, Goto(f, d) PROVE \A g \in Fibers : code'[g] = IF g = f THEN d ELSE code[g]
  BY <1>g, <1>t DEF Goto
<1>u. ASSUME code' = code, word' = word, mem' = mem PROVE Kept
  BY <1>u DEF LatchInv, OnceInv
<1>q. ASSUME NEW f \in Fibers, NEW d, Goto(f, d), Neither(d), word' = word, mem' = mem PROVE Kept
  BY <1>q, <1>g DEF LatchInv, OnceInv, Neither
<1>1. CASE WakeNext \/ WakeReady
  BY <1>1, <1>u DEF WakeNext, WakeReady
<1>2. ASSUME NEW f \in Fibers, Call(f) PROVE Kept
  <2>0. code[f] # <<>> /\ GateCode(code[f])
    BY <1>2, <1>c, CallOps
  <2>1. CASE FutexWait(f) /\ Op(code[f]) = "park"
    <3>1. Stopped(code[f]) /\ Past(Tail(code[f])) /\ ~Stopped(Tail(code[f])) /\ Arg(code[f]) = "main"
      BY <2>0, <2>1 DEF GateCode, Stopped
    <3>2. CASE word["main"] = mem[f]
      <4>1. code' = code /\ word' = word /\ mem' = mem
        BY <2>1, <3>1, <3>2 DEF FutexWait, Arg
      <4> QED BY <4>1, <1>u
    <3>3. CASE word["main"] # mem[f]
      <4>1. Goto(f, Tail(code[f])) /\ word' = word /\ mem' = mem
        BY <2>1, <3>1, <3>3 DEF FutexWait, Arg, Go
      <4>2. (kind = "latch" => word["main"] = 1) /\ (kind = "once" => word["main"] = 2)
        BY <3>1, <3>3 DEF LatchInv, OnceInv
      <4> QED BY <3>1, <4>1, <4>2, <1>g DEF LatchInv, OnceInv
    <3> QED BY <3>2, <3>3
  <2>2. CASE LatchWait(f) /\ Op(code[f]) = "gate"
    <3> PICK d : d = <<<<"park", "main">>>> \o Tail(code[f])
      OBVIOUS
    <3>1. Goto(f, d) /\ word' = word /\ mem' = [mem EXCEPT ![f] = 0]
      BY <2>2 DEF LatchWait
    <3>2. kind = "latch" /\ Stopped(d) /\ ~Past(d)
      BY <2>0, <2>2 DEF GateCode
    <3>3. mem' \in [Fibers -> Int] /\ \A g \in Fibers : mem'[g] = IF g = f THEN 0 ELSE mem[g]
      BY <3>1, <3>2 DEF LatchInv
    <3> QED BY <3>1, <3>2, <3>3, <1>g DEF LatchInv
  <2>3. CASE OnceGet(f) /\ Op(code[f]) = "get"
    <3>0. kind = "once" /\ Past(Tail(code[f])) /\ ~Stopped(Tail(code[f])) /\ mem \in [Fibers -> Int]
      BY <2>0, <2>3 DEF GateCode, OnceInv
    <3>1. CASE word["main"] = 2
      <4>1. Goto(f, Tail(code[f])) /\ word' = word /\ mem' = mem
        BY <2>3, <3>1 DEF OnceGet, Go
      <4> QED BY <3>0, <3>1, <4>1, <1>g DEF OnceInv
    <3>2. CASE word["main"] = 1
      <4> PICK d : d = <<<<"park", "main">>>> \o Tail(code[f])
        OBVIOUS
      <4>1. Goto(f, d) /\ word' = word /\ mem' = [mem EXCEPT ![f] = 1]
        BY <2>3, <3>2 DEF OnceGet
      <4>2. Stopped(d) /\ ~Past(d)
        BY <2>0, <2>3 DEF GateCode
      <4>3. mem' \in [Fibers -> Int] /\ \A g \in Fibers : mem'[g] = IF g = f THEN 1 ELSE mem[g]
        BY <4>1, <3>0
      <4> QED BY <3>0, <3>2, <4>1, <4>2, <4>3, <1>g DEF OnceInv
    <3>3. CASE word["main"] \notin {1, 2}
      <4> PICK d : d = <<<<"body", "thunk">>, <<"ensure", "done">>>> \o Tail(code[f])
        OBVIOUS
      <4>1. Goto(f, d) /\ Set("main", 1) /\ mem' = mem
        BY <2>3, <3>3 DEF OnceGet
      <4>2. Neither(d)
        BY <2>0, <2>3 DEF GateCode
      <4>3. word["main"] = 0 /\ word'["main"] = 1
        BY <3>0, <3>3, <4>1, <1>w DEF OnceInv
      <4>4. \A g \in Fibers : Neither(code[g])
        BY <3>0, <4>3 DEF OnceInv, Neither
      <4>5. \A g \in Fibers : Neither(code'[g])
        BY <4>1, <4>2, <4>4, <1>g
      <4>6. OnceInv'
        BY <3>0, <4>1, <4>3, <4>5 DEF OnceInv, Neither
      <4> QED BY <3>0, <4>6
    <3> QED BY <3>1, <3>2, <3>3
  <2>4. CASE Open(f) /\ (Op(code[f]) = "open" \/ (Op(code[f]) = "ensure" /\ kind = "once"))
    <3>1. Goto(f, Tail(code[f])) /\ Set("main", IF kind = "once" THEN 2 ELSE 1) /\ mem' = mem
      BY <2>4 DEF Open, Go
    <3>2. ~Stopped(Tail(code[f]))
      BY <2>0, <2>4 DEF GateCode, Neither
    <3>3. word'["main"] = IF kind = "once" THEN 2 ELSE 1
      BY <3>1, <1>w
    <3> QED BY <3>1, <3>2, <3>3, <1>g DEF LatchInv, OnceInv
  <2>5. Op(code[f]) \in {"gate", "get", "park", "body", "open", "ensure"}
    BY <2>0 DEF GateCode
  <2> QED BY <1>2, <2>1, <2>2, <2>3, <2>4, <2>5, CallOps
<1>3. ASSUME NEW f \in Fibers, Begin(f) PROVE Kept
  <2>1. PICK d \in Operations : Goto(f, d) /\ word' = word /\ mem' = mem
    BY <1>3 DEF Begin
  <2>2. d \in {Gate("gate"), Gate("get"), Opening}
    BY <2>1 DEF Operations, Gate, Opening
  <2>3. Op(Gate("gate")) = "gate" /\ Op(Gate("get")) = "get" /\ Op(Opening) = "open"
    BY GateShapes DEF Shape, Op
  <2>4. Neither(d)
    BY <2>2, <2>3 DEF Neither, Past, Stopped
  <2> QED BY <2>1, <2>4, <1>q
<1>4. ASSUME NEW f \in Fibers, LeaveBody(f) PROVE Kept
  <2>1. Op(code[f]) = "body" /\ code[f] # <<>> /\ Goto(f, Tail(code[f])) /\ word' = word /\ mem' = mem
    BY <1>4 DEF LeaveBody, Doing, Go, Op
  <2>2. Neither(Tail(code[f]))
    BY <2>1, <1>c DEF GateCode
  <2> QED BY <2>1, <2>2, <1>q
<1>5. ASSUME NEW f \in Fibers, InMonitor(f) \/ Suspend(f) \/ Resume(f) PROVE Kept
  BY <1>5, <1>u DEF InMonitor, Suspend, Resume
<1>6. ASSUME NEW f \in Fibers, NEW g \in Fibers, Abort(f, g) PROVE Kept
  <2>1. Goto(g, AfterAbort(code[g])) /\ code[g] # <<>> /\ word' = word /\ mem' = mem
    BY <1>6 DEF Abort, AfterAbort
  <2>2. Neither(AfterAbort(code[g]))
    BY <2>1, <1>c DEF GateCode
  <2> QED BY <2>1, <2>2, <1>q
<1> QED BY <1>1, <1>2, <1>3, <1>4, <1>5, <1>6 DEF Next

-----------------------------------------------------------------------------
(* The barrier.                                                            *)

\* The fibers that came to the barrier, or were aborted.
Arrived == {f \in Fibers : budget[f] < MaxOps /\ ~(code[f] # <<>> /\ Op(code[f]) = "arrive")}

\* A fiber comes to the barrier once, and is counted at most once.
CountInv ==
    /\ budget \in [Fibers -> 0..MaxOps]
    /\ \A f \in Fibers : code[f] # <<>> => budget[f] < MaxOps
    /\ word["main"] <= Cardinality(Arrived)

\* The fibers that are counted are some of all.
LEMMA ArrivedFew == Cardinality(Arrived) \in Nat /\ IsFiniteSet(Arrived) /\ Cardinality(Arrived) <= Everyone
BY EveryoneNat, FS_Subset, FS_CardinalityType DEF Arrived, Everyone

\* While one fiber has not come, the count is short.
LEMMA CountShort ==
    ASSUME CountInv, word["main"] \in Int, NEW f \in Fibers, f \notin Arrived
    PROVE  word["main"] < Everyone
<1>1. Cardinality(Arrived) # Everyone
  BY EveryoneNat, FS_Subset DEF Arrived, Everyone
<1> QED BY <1>1, ArrivedFew, EveryoneNat DEF CountInv

\* The count of the barrier is right after every step.
LEMMA CountKept ==
    ASSUME kind = "barrier", SyncInv, CountInv, Next
    PROVE  CountInv' /\ \A f \in Fibers : BarrierWait(f) => word["main"] < Everyone
<1>t. code \in [Fibers -> Codes(kind)] /\ word \in [Futexes -> Int] /\ "main" \in Futexes /\ word["main"] \in Int
  BY DEF SyncInv, CodesHold, PlaceHolds, SchedTypes, Futexes
<1>c. \A f \in Fibers : code[f] # <<>> => GateCode(code[f])
  BY <1>t, GateCodesAre DEF Gates
<1>m. MaxOps \in Nat \ {0} /\ budget \in [Fibers -> 0..MaxOps]
  BY SyncAssumption DEF CountInv
<1>g. ASSUME NEW f \in Fibers, NEW d, Goto(f, d) PROVE \A g \in Fibers : code'[g] = IF g = f THEN d ELSE code[g]
  BY <1>g, <1>t DEF Goto
<1>b. ASSUME NEW f \in Fibers, BarrierWait(f) PROVE f \notin Arrived /\ word["main"] < Everyone /\ code[f] # <<>> /\ Op(code[f]) = "arrive"
  <2>1. code[f] # <<>> /\ Op(code[f]) = "arrive"
    BY <1>b DEF BarrierWait, Doing, Op
  <2>2. f \notin Arrived
    BY <2>1 DEF Arrived
  <2> QED BY <2>1, <2>2, <1>t, CountShort
<1>u. ASSUME code' = code, word' = word, budget' = budget PROVE CountInv'
  BY <1>u DEF CountInv, Arrived
<1>q. ASSUME NEW f \in Fibers, NEW d, Goto(f, d), d # <<>> => Op(d) # "arrive", code[f] # <<>>, word' = word, budget' = budget
      PROVE  CountInv'
  <2>1. Arrived \subseteq Arrived'
    BY <1>q, <1>g DEF Arrived, Op
  <2>2. IsFiniteSet(Arrived') /\ Cardinality(Arrived') \in Nat
    BY EveryoneNat, FS_Subset, FS_CardinalityType DEF Arrived
  <2>3. Cardinality(Arrived) <= Cardinality(Arrived')
    BY <2>1, <2>2, FS_Subset
  <2>4. word'["main"] <= Cardinality(Arrived')
    BY <1>q, <1>t, <2>2, <2>3, ArrivedFew DEF CountInv
  <2>5. \A g \in Fibers : code'[g] # <<>> => budget'[g] < MaxOps
    BY <1>q, <1>g DEF CountInv
  <2> QED BY <1>q, <1>m, <2>4, <2>5 DEF CountInv
<1>1. ASSUME WakeNext \/ WakeReady PROVE CountInv'
  BY <1>1, <1>u DEF WakeNext, WakeReady, restVars
<1>2. ASSUME NEW f \in Fibers, Call(f) PROVE CountInv'
  <2>0. code[f] # <<>> /\ GateCode(code[f])
    BY <1>2, <1>c, CallOps
  <2>1. CASE FutexWait(f) /\ Op(code[f]) = "park"
    <3>1. Tail(code[f]) # <<>> /\ Op(Tail(code[f])) = "body"
      BY <2>0, <2>1 DEF GateCode, Past
    <3>2. word' = word /\ budget' = budget /\ (code' = code \/ Goto(f, Tail(code[f])))
      BY <2>1 DEF FutexWait, Go, restVars
    <3> QED BY <2>0, <3>1, <3>2, <1>u, <1>q
  <2>2. CASE BarrierWait(f)
    <3>1. f \notin Arrived /\ code[f] # <<>> /\ Op(code[f]) = "arrive"
      BY <2>2, <1>b
    <3>2. PICK d : Goto(f, d) /\ d # <<>> /\ Op(d) # "arrive"
      <4>1. CASE Full(word["main"] + 1)
        <5>1. Goto(f, Tail(code[f]))
          BY <2>2, <4>1 DEF BarrierWait, Go
        <5>2. Tail(code[f]) # <<>> /\ Op(Tail(code[f])) = "body"
          BY <2>0, <3>1 DEF GateCode, Past
        <5> QED BY <5>1, <5>2
      <4>2. CASE ~Full(word["main"] + 1)
        <5>1. Goto(f, <<<<"park", "main">>>> \o Tail(code[f]))
          BY <2>2, <4>2 DEF BarrierWait
        <5>2. Stopped(<<<<"park", "main">>>> \o Tail(code[f]))
          BY <2>0, <3>1 DEF GateCode
        <5> QED BY <5>1, <5>2 DEF Stopped
      <4> QED BY <4>1, <4>2
    <3>3. word'["main"] = word["main"] + 1 /\ budget' = budget
      BY <2>2, <1>t DEF BarrierWait, Set, restVars
    <3>4. Arrived' = Arrived \cup {f}
      BY <3>1, <3>2, <3>3, <1>g DEF Arrived, CountInv, Op
    <3>5. Cardinality(Arrived') = Cardinality(Arrived) + 1
      BY <3>1, <3>4, ArrivedFew, FS_AddElement
    <3>6. word'["main"] <= Cardinality(Arrived')
      BY <3>3, <3>5, <1>t, ArrivedFew DEF CountInv
    <3>7. \A g \in Fibers : code'[g] # <<>> => budget'[g] < MaxOps
      BY <3>1, <3>2, <3>3, <1>g DEF CountInv
    <3> QED BY <3>3, <3>6, <3>7, <1>m DEF CountInv
  <2>3. Op(code[f]) \in {"arrive", "park", "body"}
    BY <2>0 DEF GateCode
  <2> QED BY <1>2, <2>1, <2>2, <2>3, CallOps
<1>3. ASSUME NEW f \in Fibers, Begin(f) PROVE CountInv'
  <2>1. PICK d \in Operations : Goto(f, d)
    BY <1>3 DEF Begin
  <2>2. word' = word /\ budget' = [budget EXCEPT ![f] = budget[f] - 1] /\ budget[f] > MaxOps - 1
    BY <1>3 DEF Begin
  <2>3. d = Gate("arrive")
    BY <2>1 DEF Operations, Gate
  <2>4. d # <<>> /\ Op(d) = "arrive"
    BY <2>3, GateShapes DEF Shape, Op
  <2>5. budget[f] = MaxOps /\ budget'[f] = MaxOps - 1 /\ budget' \in [Fibers -> 0..MaxOps] /\ \A g \in Fibers : g # f => budget'[g] = budget[g]
    BY <2>2, <1>m
  <2>6. Arrived' = Arrived
    BY <2>1, <2>4, <2>5, <1>g, <1>m DEF Arrived, Op
  <2>7. \A g \in Fibers : code'[g] # <<>> => budget'[g] < MaxOps
    BY <2>1, <2>5, <1>g, <1>m DEF CountInv
  <2> QED BY <2>2, <2>5, <2>6, <2>7 DEF CountInv
<1>4. ASSUME NEW f \in Fibers, LeaveBody(f) PROVE CountInv'
  <2>1. Op(code[f]) = "body" /\ code[f] # <<>> /\ Goto(f, Tail(code[f])) /\ word' = word /\ budget' = budget
    BY <1>4 DEF LeaveBody, Doing, Go, Op, restVars
  <2>2. Tail(code[f]) = <<>>
    BY <2>1, <1>c DEF GateCode
  <2> QED BY <2>1, <2>2, <1>q
<1>5. ASSUME NEW f \in Fibers, InMonitor(f) \/ Suspend(f) \/ Resume(f) PROVE CountInv'
  BY <1>5, <1>u DEF InMonitor, Suspend, Resume, restVars
<1>6. ASSUME NEW f \in Fibers, NEW g \in Fibers, Abort(f, g) PROVE CountInv'
  <2>1. Goto(g, AfterAbort(code[g])) /\ code[g] # <<>> /\ word' = word /\ budget' = [budget EXCEPT ![g] = 0]
    BY <1>6 DEF Abort, AfterAbort
  <2>2. AfterAbort(code[g]) = <<>>
    BY <2>1, <1>c DEF GateCode
  <2>3. budget' \in [Fibers -> 0..MaxOps] /\ \A h \in Fibers : budget'[h] = IF h = g THEN 0 ELSE budget[h]
    BY <2>1, <1>m
  <2>4. Arrived \subseteq Arrived'
    BY <2>1, <2>2, <2>3, <1>g, <1>m DEF Arrived, Op
  <2>5. IsFiniteSet(Arrived') /\ Cardinality(Arrived') \in Nat
    BY EveryoneNat, FS_Subset, FS_CardinalityType DEF Arrived
  <2>6. Cardinality(Arrived) <= Cardinality(Arrived')
    BY <2>4, <2>5, FS_Subset
  <2>7. word'["main"] <= Cardinality(Arrived')
    BY <2>1, <1>t, <2>5, <2>6, ArrivedFew DEF CountInv
  <2>8. \A h \in Fibers : code'[h] # <<>> => budget'[h] < MaxOps
    BY <2>1, <2>2, <2>3, <1>g, <1>m DEF CountInv
  <2> QED BY <2>3, <2>7, <2>8 DEF CountInv
<1> QED BY <1>b, <1>1, <1>2, <1>3, <1>4, <1>5, <1>6 DEF Next

\* Nobody goes past the barrier before everyone came.  A fiber in front of it
\* runs, and then the count is the one it took or full, or is parked; it is not
\* under another one on the stack; and nobody is woken before the count is full.
BarrierInv ==
    /\ host = "loop" /\ CountInv /\ mem \in [Fibers -> Int]
    /\ \A f \in Fibers : Past(code[f]) => word["main"] = Everyone
    /\ \A f \in Fibers : Stopped(code[f]) => Running(f) \/ f \in Range(parked["main"])
    /\ \A f \in Fibers : Stopped(code[f]) /\ Running(f) => word["main"] \in {mem[f], Everyone}
    /\ \A fr \in Range(stack) : fr.at = "wake" => word["main"] = Everyone
    /\ stack # <<>> => \A f \in Fibers : Run(f) \in Range(Tail(stack)) => ~Stopped(code[f])

\* The steps of a barrier under the event loop.
LEMMA BarrierStep == ASSUME kind = "barrier", SyncInv, BarrierInv, Next PROVE BarrierInv'
<1>t. /\ code \in [Fibers -> Codes(kind)] /\ word \in [Futexes -> Int] /\ "main" \in Futexes /\ word["main"] \in Int
      /\ SchedTypes /\ OnePlaced /\ stack \in Seq(Frames) /\ parked \in [Futexes -> Seq(Fibers)]
  BY DEF SyncInv, CodesHold, PlaceHolds, SchedTypes, Futexes, BarrierInv
<1>c. \A f \in Fibers : code[f] # <<>> => GateCode(code[f])
  BY <1>t, GateCodesAre DEF Gates
<1>g. ASSUME NEW f \in Fibers, NEW d, Goto(f, d) PROVE \A g \in Fibers : code'[g] = IF g = f THEN d ELSE code[g]
  BY <1>g, <1>t DEF Goto
<1>k. CountInv' /\ host' = host /\ host = "loop" /\ \A f \in Fibers : BarrierWait(f) => word["main"] < Everyone
  BY CountKept, SameObject DEF BarrierInv
<1>i. /\ mem \in [Fibers -> Int]
      /\ \A f \in Fibers : Past(code[f]) => word["main"] = Everyone
      /\ \A f \in Fibers : Stopped(code[f]) => Running(f) \/ f \in Range(parked["main"])
      /\ \A f \in Fibers : Stopped(code[f]) /\ Running(f) => word["main"] \in {mem[f], Everyone}
      /\ \A fr \in Range(stack) : fr.at = "wake" => word["main"] = Everyone
      /\ stack # <<>> => \A f \in Fibers : Run(f) \in Range(Tail(stack)) => ~Stopped(code[f])
  BY DEF BarrierInv
\* The top of the stack goes, and the code of the fiber that ran is not in
\* front of the barrier, or it is parked.
<1>p. ASSUME stack # <<>>, stack' = Tail(stack), code' = code, word' = word, mem' = mem,
             \A f \in Fibers : f \in Range(parked["main"]) => f \in Range(parked'["main"]),
             \A f \in Fibers : Running(f) /\ Stopped(code[f]) => f \in Range(parked'["main"])
      PROVE  BarrierInv'
  <2>1. Tail(stack) \in Seq(Frames) /\ Range(stack) = {Head(stack)} \cup Range(Tail(stack))
    BY <1>p, <1>t, PopStack
  <2>2. \A f \in Fibers : Running(f)' => ~Stopped(code'[f])
    <3>1. ASSUME NEW f \in Fibers, Running(f)' PROVE ~Stopped(code'[f])
      <4>1. Tail(stack) # <<>> /\ Head(Tail(stack)) = Run(f)
        BY <1>p, <3>1 DEF Running
      <4> PICK s : s = Tail(stack)
        OBVIOUS
      <4>3. Range(s) = {Head(s)} \cup Range(Tail(s))
        BY <2>1, <4>1, PopStack
      <4>2. Run(f) \in Range(Tail(stack))
        BY <4>1, <4>3
      <4> QED BY <1>p, <4>2, <1>i
    <3> QED BY <3>1
  <2>3. \A f \in Fibers : Stopped(code'[f]) => f \in Range(parked'["main"])
    BY <1>p, <1>i
  <2>4. stack' # <<>> => \A f \in Fibers : Run(f) \in Range(Tail(stack')) => ~Stopped(code'[f])
    <3>1. SUFFICES ASSUME stack' # <<>> PROVE \A f \in Fibers : Run(f) \in Range(Tail(stack')) => ~Stopped(code'[f])
      OBVIOUS
    <3> PICK s : s = Tail(stack)
      OBVIOUS
    <3>3. Range(s) = {Head(s)} \cup Range(Tail(s))
      BY <1>p, <2>1, <3>1, PopStack
    <3>2. Range(Tail(stack')) \subseteq Range(Tail(stack))
      BY <1>p, <3>3
    <3> QED BY <1>p, <3>2, <1>i
  <2>5. \A fr \in Range(stack') : fr.at = "wake" => word'["main"] = Everyone
    BY <1>p, <2>1, <1>i
  <2>6. \A f \in Fibers : Past(code'[f]) => word'["main"] = Everyone
    BY <1>p, <1>i
  <2> QED BY <1>p, <2>2, <2>3, <2>4, <2>5, <2>6, <1>k, <1>i DEF BarrierInv
\* Only the code of the fiber that runs changes.
<1>q. ASSUME NEW f \in Fibers, NEW d, Goto(f, d), Running(f), stack' = stack, parked' = parked, word' = word, mem' = mem,
             ~Stopped(d), Past(d) => word["main"] = Everyone
      PROVE  BarrierInv'
  <2>1. \A g \in Fibers : Running(g)' <=> Running(g)
    BY <1>q DEF Running
  <2>2. \A g \in Fibers : Stopped(code'[g]) => Stopped(code[g])
    BY <1>q, <1>g
  <2>3. \A g \in Fibers : Past(code'[g]) => word["main"] = Everyone
    BY <1>q, <1>g, <1>i
  <2> QED BY <1>q, <2>1, <2>2, <2>3, <1>k, <1>i DEF BarrierInv
<1>1. CASE WakeNext
  <2>1. stack # <<>> /\ Head(stack).at = "wake" /\ code' = code /\ word' = word /\ mem' = mem /\ LoopWakes(Head(stack))
    BY <1>1, <1>k DEF WakeNext, ProcessWakes
  <2> PICK fr : fr = Head(stack)
    OBVIOUS
  <2>2. fr \in Frames /\ Tail(stack) \in Seq(Frames) /\ Range(stack) = {fr} \cup Range(Tail(stack)) /\ fr.at = "wake"
    BY <2>1, <1>t, PopStack
  <2>3. word["main"] = Everyone
    BY <2>2, <1>i
  <2>4. \A f \in Fibers : ~Running(f)
    BY <2>1, FrameFacts DEF Running
  <2>5. \A f \in Fibers : Stopped(code[f]) => f \in Range(parked["main"])
    BY <2>4, <1>i
  <2>6. CASE fr.todo = <<>> \/ fr.left = 0
    <3>1. stack' = Tail(stack) /\ parked' = parked
      BY <2>1, <2>6 DEF LoopWakes
    <3> QED BY <2>1, <2>4, <3>1, <1>p
  <2>7. CASE ~(fr.todo = <<>> \/ fr.left = 0)
    <3> PICK g, rest : g = Head(fr.todo) /\ rest = [fr EXCEPT !.todo = Tail(fr.todo)]
      OBVIOUS
    <3>1. fr.x \in Futexes /\ fr.todo \in Seq(Fibers) /\ fr.left \in Int
      BY <2>2, WakeFrames
    <3>2. g \in Fibers /\ Tail(fr.todo) \in Seq(Fibers)
      BY <2>7, <3>1, TailRange
    <3>3. rest \in Frames /\ rest.at = "wake" /\ rest.left = fr.left
      BY <2>2, <3>2, WakeFrames
    <3>4. CASE fr.x \in Waits(g)
      <4> PICK r : r = [rest EXCEPT !.left = rest.left - 1]
        OBVIOUS
      <4>1. r \in Frames /\ r.at = "wake"
        <5>1. rest.left - 1 \in Int
          BY <3>1, <3>3
        <5> QED BY <5>1, <3>3, WakeFrames
      <4>2. /\ parked' = [parked EXCEPT ![fr.x] = LeaveArray(parked[fr.x], g)]
            /\ stack' = <<Run(g), r>> \o Tail(stack)
        BY <2>1, <2>7, <3>4 DEF LoopWakes
      <4>3. Run(g) \in Frames /\ Run(g).at = "run"
        BY <3>2, FrameFacts
      <4> PICK s : s = <<r>> \o Tail(stack)
        OBVIOUS
      <4>4. s \in Seq(Frames) /\ Range(s) = {r} \cup Range(Tail(stack))
        BY <4>1, <2>2, PushStack
      <4>5. stack' = <<Run(g)>> \o s
        BY <4>1, <4>2, <4>3, <2>2, PushTwoSplit
      <4>6. stack' # <<>> /\ Head(stack') = Run(g) /\ Tail(stack') = s /\ Range(stack') = {Run(g)} \cup Range(s)
        BY <4>3, <4>4, <4>5, PushStack
      <4>7. \A f \in Fibers : Running(f)' <=> f = g
        BY <4>6, <3>2, FrameFacts DEF Running
      <4>8. \A f \in Fibers : f # g /\ f \in Range(parked["main"]) => f \in Range(parked'["main"])
        <5>1. parked[fr.x] \in Seq(Fibers)
          BY <3>1, <1>t
        <5>2. Range(parked[fr.x]) \ {g} \subseteq Range(LeaveArray(parked[fr.x], g))
          BY <5>1, LeaveArrayRange
        <5> QED BY <4>2, <5>2, <1>t
      <4>9. \A f \in Fibers : Stopped(code'[f]) => Running(f)' \/ f \in Range(parked'["main"])
        BY <2>1, <2>5, <4>7, <4>8
      <4>10. \A f \in Fibers : Run(f) \in Range(Tail(stack')) => ~Stopped(code'[f])
        <5>1. \A f \in Fibers : Run(f) \in Range(s) => Run(f) \in Range(Tail(stack))
          BY <4>1, <4>4, FrameFacts
        <5> QED BY <5>1, <4>6, <2>1, <1>i
      <4> QED BY <2>1, <2>3, <4>6, <4>9, <4>10, <1>i, <1>k DEF BarrierInv
    <3>5. CASE fr.x \notin Waits(g)
      <4>1. stack' = <<rest>> \o Tail(stack) /\ parked' = parked
        BY <2>1, <2>7, <3>5 DEF LoopWakes
      <4>2. stack' # <<>> /\ Head(stack') = rest /\ Tail(stack') = Tail(stack)
        BY <4>1, <3>3, <2>2, PushStack
      <4>3. \A f \in Fibers : ~Running(f)'
        BY <4>2, <3>3, FrameFacts DEF Running
      <4> QED BY <2>1, <2>3, <2>5, <4>1, <4>2, <4>3, <1>i, <1>k DEF BarrierInv
    <3> QED BY <3>4, <3>5
  <2> QED BY <2>6, <2>7
<1>2. ASSUME WakeReady PROVE FALSE
  BY <1>2, <1>k DEF WakeReady
<1>3. ASSUME NEW f \in Fibers, Call(f) PROVE BarrierInv'
  <2>0. code[f] # <<>> /\ GateCode(code[f]) /\ Running(f) /\ stack # <<>> /\ Head(stack) = Run(f)
    BY <1>3, <1>c, CallOps DEF Running
  <2>s. /\ Range(stack) = {Run(f)} \cup Range(Tail(stack)) /\ Run(f) \notin Range(Tail(stack))
    BY <2>0, <1>t, PopStack, FrameFacts DEF OnePlaced
  <2>r. \A g \in Fibers : Running(g) => g = f
    BY <2>0, <1>t, RunningTop
  <2>1. CASE FutexWait(f) /\ Op(code[f]) = "park"
    <3>1. Stopped(code[f]) /\ Past(Tail(code[f])) /\ ~Stopped(Tail(code[f])) /\ Arg(code[f]) = "main"
      BY <2>0, <2>1 DEF GateCode, Stopped
    <3>2. CASE word["main"] = mem[f]
      <4>1. code' = code /\ word' = word /\ mem' = mem /\ stack' = Tail(stack) /\ parked' = [parked EXCEPT !["main"] = Append(parked["main"], f)]
        BY <2>1, <3>1, <3>2 DEF FutexWait, Arg, Park
      <4>2. Range(parked'["main"]) = Range(parked["main"]) \cup {f}
        BY <4>1, <1>t, AppendRange
      <4> QED BY <2>0, <2>r, <4>1, <4>2, <1>p
    <3>3. CASE word["main"] # mem[f]
      <4>1. Goto(f, Tail(code[f])) /\ word' = word /\ mem' = mem /\ stack' = stack /\ parked' = parked
        BY <2>1, <3>1, <3>3 DEF FutexWait, Arg, Go
      <4>2. word["main"] = Everyone
        BY <2>0, <3>1, <3>3, <1>i
      <4> QED BY <2>0, <3>1, <4>1, <4>2, <1>q
    <3> QED BY <3>2, <3>3
  <2>2. CASE BarrierWait(f) /\ Op(code[f]) = "arrive"
    <3>1. word["main"] < Everyone /\ word'["main"] = word["main"] + 1
      BY <2>2, <1>k, <1>t DEF BarrierWait, Set
    <3>2. (\A g \in Fibers : ~Past(code[g])) /\ (\A fr \in Range(stack) : fr.at # "wake")
      BY <3>1, <1>i, EveryoneNat, <1>t
    <3>3. CASE Full(word["main"] + 1)
      <4>1. Goto(f, Tail(code[f])) /\ mem' = mem /\ Wake("main", Everyone)
        BY <2>2, <3>3 DEF BarrierWait, Go
      <4>2. word'["main"] = Everyone
        BY <3>1, <3>3 DEF Full
      <4>3. Past(Tail(code[f])) /\ ~Stopped(Tail(code[f]))
        BY <2>0, <2>2 DEF GateCode
      <4>4. parked' = parked
        BY <4>1, <1>k DEF Wake
      <4>5. \A g \in Fibers : Stopped(code'[g]) => g # f /\ Stopped(code[g])
        BY <4>1, <4>3, <1>g
      <4>6. \A g \in Fibers : Stopped(code'[g]) => g \in Range(parked'["main"])
        BY <4>4, <4>5, <2>r, <1>i
      <4>7. stack' # <<>> => \A g \in Fibers : Run(g) \in Range(Tail(stack')) => ~Stopped(code'[g])
        <5>0. \A g \in Fibers : Run(g) \in Range(stack) => ~Stopped(code'[g])
          <6>1. ASSUME NEW g \in Fibers, Run(g) \in Range(stack) PROVE ~Stopped(code'[g])
            <7>1. CASE Run(g) = Run(f)
              <8>1. g = f
                BY <7>1, FrameFacts
              <8> QED BY <8>1, <4>5
            <7>2. CASE Run(g) \in Range(Tail(stack))
              BY <7>2, <4>5, <2>0, <1>i
            <7> QED BY <6>1, <7>1, <7>2, <2>s
          <6> QED BY <6>1
        <5>1. CASE stack' = stack
          BY <5>0, <5>1, <2>s
        <5>2. CASE stack' = <<WakeFrame("main", Everyone)>> \o stack
          <6> PICK fr : fr = WakeFrame("main", Everyone)
            OBVIOUS
          <6>1. fr \in Frames
            BY <1>t, FrameFacts, EveryoneNat DEF WakeFrame
          <6>2. Tail(stack') = stack
            BY <5>2, <6>1, <1>t, PushStack
          <6> QED BY <5>0, <6>2
        <5> QED BY <4>1, <5>1, <5>2 DEF Wake
      <4> QED BY <4>1, <4>2, <4>6, <4>7, <1>i, <1>k DEF BarrierInv
    <3>4. CASE ~Full(word["main"] + 1)
      <4> PICK d : d = <<<<"park", "main">>>> \o Tail(code[f])
        OBVIOUS
      <4>1. Goto(f, d) /\ mem' = [mem EXCEPT ![f] = word["main"] + 1] /\ stack' = stack /\ parked' = parked
        BY <2>2, <3>4 DEF BarrierWait
      <4>2. Stopped(d) /\ ~Past(d)
        BY <2>0, <2>2 DEF GateCode
      <4>3. mem' \in [Fibers -> Int] /\ mem'[f] = word'["main"]
        BY <4>1, <3>1, <1>i, <1>t
      <4>4. \A g \in Fibers : Running(g)' <=> g = f
        BY <4>1, <2>0, <2>r DEF Running
      <4>5. \A g \in Fibers : ~Past(code'[g])
        BY <3>2, <4>1, <4>2, <1>g
      <4>6. \A g \in Fibers : Stopped(code'[g]) => Running(g)' \/ g \in Range(parked'["main"])
        <5>1. ASSUME NEW g \in Fibers, Stopped(code'[g]), g # f PROVE g \in Range(parked'["main"])
          <6>1. Stopped(code[g])
            BY <5>1, <4>1, <1>g
          <6> QED BY <6>1, <5>1, <2>r, <4>1, <1>i
        <5> QED BY <5>1, <4>4
      <4>7. \A g \in Fibers : Run(g) \in Range(Tail(stack')) => ~Stopped(code'[g])
        <5>1. ASSUME NEW g \in Fibers, Run(g) \in Range(Tail(stack)) PROVE ~Stopped(code'[g])
          <6>1. g # f
            BY <5>1, <2>s
          <6> QED BY <6>1, <5>1, <4>1, <2>0, <1>g, <1>i
        <5> QED BY <5>1, <4>1
      <4>8. \A g \in Fibers : Stopped(code'[g]) /\ Running(g)' => word'["main"] \in {mem'[g], Everyone}
        BY <4>3, <4>4
      <4>9. \A fr \in Range(stack') : fr.at = "wake" => word'["main"] = Everyone
        BY <3>2, <4>1
      <4> QED BY <4>3, <4>5, <4>6, <4>7, <4>8, <4>9, <1>k DEF BarrierInv
    <3> QED BY <3>3, <3>4
  <2>3. Op(code[f]) \in {"arrive", "park", "body"}
    BY <2>0 DEF GateCode
  <2> QED BY <1>3, <2>1, <2>2, <2>3, CallOps
<1>4. ASSUME NEW f \in Fibers, Begin(f) PROVE BarrierInv'
  <2>1. PICK d \in Operations : Goto(f, d)
    BY <1>4 DEF Begin
  <2>2. word' = word /\ mem' = mem /\ stack' = stack /\ parked' = parked /\ Running(f)
    BY <1>4 DEF Begin
  <2>3. d = Gate("arrive")
    BY <2>1 DEF Operations, Gate
  <2>4. Op(d) = "arrive"
    BY <2>3, GateShapes DEF Shape, Op
  <2>5. ~Stopped(d) /\ ~Past(d)
    BY <2>4 DEF Stopped, Past
  <2> QED BY <2>1, <2>2, <2>5, <1>q
<1>5. ASSUME NEW f \in Fibers, LeaveBody(f) PROVE BarrierInv'
  <2>1. /\ Op(code[f]) = "body" /\ code[f] # <<>> /\ Goto(f, Tail(code[f])) /\ Running(f)
        /\ word' = word /\ mem' = mem /\ stack' = stack /\ parked' = parked
    BY <1>5 DEF LeaveBody, Doing, Go, Op
  <2>2. Neither(Tail(code[f]))
    BY <2>1, <1>c DEF GateCode
  <2> QED BY <2>1, <2>2, <1>q DEF Neither
<1>6. ASSUME NEW f \in Fibers, InMonitor(f) PROVE FALSE
  BY <1>6 DEF InMonitor
<1>7. ASSUME NEW f \in Fibers, Suspend(f) PROVE BarrierInv'
  <2>1. InBody(f) /\ stack' = Tail(stack) /\ code' = code /\ word' = word /\ mem' = mem /\ parked' = parked
    BY <1>7 DEF Suspend
  <2>2. stack # <<>> /\ ~Stopped(code[f]) /\ \A g \in Fibers : Running(g) => g = f
    BY <2>1, <1>t, RunningTop DEF InBody, Running, Stopped, Op
  <2> QED BY <2>1, <2>2, <1>p
<1>8. ASSUME NEW f \in Fibers, Resume(f) PROVE BarrierInv'
  <2>1. stack = <<>> /\ Waits(f) = {} /\ stack' = <<Run(f)>> /\ code' = code /\ word' = word /\ mem' = mem /\ parked' = parked
    BY <1>8 DEF Resume
  <2>2. \A g \in Fibers : ~Running(g)
    BY <2>1 DEF Running
  <2>3. f \notin Range(parked["main"])
    BY <2>1, <1>t, WaitsParked
  <2>4. ~Stopped(code[f]) /\ \A g \in Fibers : Stopped(code[g]) => g \in Range(parked["main"])
    BY <2>2, <2>3, <1>i
  <2>5. Run(f) \in Frames /\ Run(f).at = "run"
    BY FrameFacts
  <2>6. Head(<<Run(f)>>) = Run(f) /\ Tail(<<Run(f)>>) = <<>> /\ <<Run(f)>> # <<>> /\ <<>> \in Seq(Frames) /\ <<Run(f)>> \in Seq(Frames)
    BY <2>5, Pieces
  <2>7. \A fr : fr \notin Range(<<>>)
    <3>1. \A y : y \in Range(<<>>) <=> \E i \in 1..Len(<<>>) : <<>>[i] = y
      BY <2>6, RangeSeq
    <3> QED BY <3>1
  <2>8. Range(stack') = {Run(f)} \cup Range(<<>>)
    BY <2>1, <2>6, PopStack
  <2>9. \A g \in Fibers : Running(g)' => g = f
    BY <2>1, <2>6, FrameFacts DEF Running
  <2>10. \A fr \in Range(stack') : fr.at # "wake"
    BY <2>5, <2>7, <2>8
  <2>11. \A g \in Fibers : Run(g) \notin Range(Tail(stack'))
    BY <2>1, <2>6, <2>7
  <2> QED BY <2>1, <2>4, <2>9, <2>10, <2>11, <1>i, <1>k DEF BarrierInv
<1>9. ASSUME NEW f \in Fibers, NEW g \in Fibers, Abort(f, g) PROVE BarrierInv'
  <2>1. /\ Goto(g, AfterAbort(code[g])) /\ code[g] # <<>> /\ word' = word /\ mem' = mem /\ InBody(f)
        /\ stack' = <<Run(g)>> \o stack /\ parked' = [x \in Futexes |-> LeaveArray(parked[x], g)]
    BY <1>9, <1>k DEF Abort, AfterAbort
  <2>2. ~Stopped(AfterAbort(code[g])) /\ ~Past(AfterAbort(code[g]))
    BY <2>1, <1>c DEF GateCode, Neither
  <2>3. Run(g) \in Frames /\ Run(g).at = "run"
    BY FrameFacts
  <2>4. stack' # <<>> /\ Head(stack') = Run(g) /\ Tail(stack') = stack /\ Range(stack') = {Run(g)} \cup Range(stack)
    BY <2>1, <2>3, <1>t, PushStack
  <2>5. stack # <<>> /\ ~Stopped(code[f]) /\ Head(stack) = Run(f) /\ \A h \in Fibers : Running(h) => h = f
    BY <2>1, <1>t, RunningTop DEF InBody, Running, Stopped, Op
  <2>6. \A h \in Fibers : code'[h] = IF h = g THEN AfterAbort(code[g]) ELSE code[h]
    BY <2>1, <1>g
  <2>7. \A h \in Fibers : Stopped(code'[h]) => h # g /\ Stopped(code[h])
    BY <2>2, <2>6
  <2>8. \A h \in Fibers : Past(code'[h]) => Past(code[h])
    BY <2>2, <2>6
  <2>9. \A h \in Fibers : Stopped(code'[h]) => h \in Range(parked'["main"])
    <3>1. \A h \in Fibers : Stopped(code'[h]) => h \in Range(parked["main"]) /\ h # g
      BY <2>5, <2>7, <1>i
    <3>2. Range(parked["main"]) \ {g} \subseteq Range(LeaveArray(parked["main"], g))
      BY <1>t, LeaveArrayRange
    <3> QED BY <2>1, <3>1, <3>2, <1>t
  <2>10. \A h \in Fibers : Running(h)' => h = g
    BY <2>4, FrameFacts DEF Running
  <2>11. \A h \in Fibers : Run(h) \in Range(Tail(stack')) => ~Stopped(code'[h])
    <3>1. Range(stack) = {Run(f)} \cup Range(Tail(stack))
      BY <2>5, <1>t, PopStack
    <3>2. \A h \in Fibers : Run(h) = Run(f) => h = f
      BY FrameFacts
    <3> QED BY <2>4, <2>5, <2>7, <3>1, <3>2, <1>i
  <2>12. \A fr \in Range(stack') : fr.at = "wake" => word'["main"] = Everyone
    BY <2>1, <2>3, <2>4, <1>i
  <2> QED BY <2>1, <2>7, <2>8, <2>9, <2>10, <2>11, <2>12, <1>i, <1>k DEF BarrierInv
<1> QED BY <1>1, <1>2, <1>3, <1>4, <1>5, <1>6, <1>7, <1>8, <1>9 DEF Next

-----------------------------------------------------------------------------
(* All the gates.                                                          *)

GateInv ==
    /\ kind = "latch" => LatchInv
    /\ kind = "once" => OnceInv
    /\ kind = "barrier" => BarrierInv

\* At first nobody came to a gate, and the loop serves the barrier.
LEMMA GateStart == ASSUME Init, "barrier" \notin Hosted PROVE GateInv
<1>1. \A f \in Fibers : ~Past(code[f]) /\ ~Stopped(code[f]) /\ code[f] = <<>>
  BY DEF Init, Past, Stopped
<1>2. mem \in [Fibers -> Int] /\ stack = <<>> /\ budget = [f \in Fibers |-> MaxOps]
  BY DEF Init
<1>3. kind # "semaphore" => word["main"] = 0
  BY DEF Init, Futexes
<1>4. kind = "barrier" => host = "loop"
  BY DEF Init
<1>5. kind = "barrier" => CountInv
  <2>1. budget \in [Fibers -> 0..MaxOps]
    BY <1>2, SyncAssumption
  <2> QED BY <1>1, <1>3, <2>1, ArrivedFew DEF CountInv
<1>6. \A y : y \notin Range(<<>>)
  <2>1. <<>> \in Seq(Frames) /\ Len(<<>>) = 0
    OBVIOUS
  <2>2. \A y : y \in Range(<<>>) <=> \E i \in 1..Len(<<>>) : <<>>[i] = y
    BY <2>1, RangeSeq
  <2> QED BY <2>1, <2>2
<1>7. kind = "barrier" => BarrierInv
  BY <1>1, <1>2, <1>4, <1>5, <1>6 DEF BarrierInv
<1> QED BY <1>1, <1>2, <1>3, <1>7 DEF GateInv, LatchInv, OnceInv

\* What the gates rest on is kept by every step.
LEMMA GateKept == ASSUME SyncInv, GateInv, [Next]_vars PROVE GateInv'
<1>1. CASE UNCHANGED vars
  BY <1>1 DEF GateInv, LatchInv, OnceInv, BarrierInv, CountInv, Arrived, Running, vars
<1>2. CASE Next
  <2>1. kind' = kind
    BY <1>2, SameObject
  <2>2. kind = "latch" => LatchInv'
    BY <1>2, LatchOnceStep DEF GateInv
  <2>3. kind = "once" => OnceInv'
    BY <1>2, LatchOnceStep DEF GateInv
  <2>4. kind = "barrier" => BarrierInv'
    BY <1>2, BarrierStep DEF GateInv
  <2> QED BY <2>1, <2>2, <2>3, <2>4 DEF GateInv
<1> QED BY <1>1, <1>2

\* Who is past a gate found it open.
LEMMA GateSuffices == ASSUME SyncInv, GateInv PROVE GatesHold
<1>1. SUFFICES ASSUME NEW f \in Fibers, At(f, "body", "passed")
               PROVE  word["main"] = CASE kind = "barrier" -> Everyone
                                       [] kind = "latch" -> 1
                                       [] kind = "once" -> 2
  BY DEF GatesHold
<1>2. code[f] # <<>> /\ Op(code[f]) = "body" /\ Arg(code[f]) = "passed"
  BY <1>1 DEF At, Op, Arg
<1>3. Past(code[f])
  BY <1>2 DEF Past
<1>4. kind \in {"barrier", "latch", "once"}
  BY <1>2, BodiesOf DEF SyncInv
<1> QED BY <1>3, <1>4 DEF GateInv, LatchInv, OnceInv, BarrierInv

\* Nobody is past the barrier before every fiber came to it, past the latch
\* before it opened, or past once:get before the thunk ended: for any number of
\* fibers, of calls and of aborts, and for latches and once cells under a
\* process scheduler too.  A barrier there lets an early fiber go (the run
\* BarrierInProcess).
THEOREM GatesStayShut == ASSUME "barrier" \notin Hosted PROVE Spec => []GatesHold
<1>1. Init => GateInv
  BY GateStart
<1>2. SyncInv /\ GateInv /\ [Next]_vars => GateInv'
  BY GateKept
<1>3. SyncInv /\ GateInv => GatesHold
  BY GateSuffices
<1> QED BY <1>1, <1>2, <1>3, SyncInvariant, PTL DEF Spec

-----------------------------------------------------------------------------
(* The queue.                                                              *)

QCalls == {"put", "take", "close"}

\* The call of the queue in a code that was not answered.
WantOf(c) ==
    LET W == {a \in QCalls : \E i \in DOMAIN c : c[i][1] = a} IN
    IF W = {} THEN "none" ELSE CHOOSE a \in W : TRUE

\* A code with one call in it wants that call.
LEMMA WantsOne ==
    ASSUME NEW c, NEW a \in QCalls, NEW n \in DOMAIN c, c[n][1] = a, \A i \in DOMAIN c : c[i][1] \in QCalls => c[i][1] = a
    PROVE  WantOf(c) = a
<1> DEFINE W == {b \in QCalls : \E i \in DOMAIN c : c[i][1] = b}
<1>1. W = {a}
  OBVIOUS
<1>2. (CHOOSE b \in W : TRUE) = a
  BY <1>1
<1> QED BY <1>1, <1>2 DEF WantOf

\* A code without one wants nothing.
LEMMA WantsNone ==
    ASSUME NEW c, \A i \in DOMAIN c : c[i][1] \notin QCalls PROVE WantOf(c) = "none"
BY DEF WantOf

\* What the codes of the queue want.
LEMMA QueueWants ==
    /\ \A a \in QCalls : WantOf(QAct(a)) = a
    /\ \A a \in QCalls : \A x \in {"main", "full", "empty"} :
         WantOf(QBack(x, a)) = a /\ WantOf(QWait(x, a)) = a /\ WantOf(QRelease(x, a)) = a /\ WantOf(QPark(x, a)) = a
    /\ \A c \in Served : WantOf(c) = "none"
<1>1. ASSUME NEW a \in QCalls PROVE WantOf(QAct(a)) = a
  <2>1. 1 \in DOMAIN QAct(a) /\ QAct(a)[1][1] = a /\ \A i \in DOMAIN QAct(a) : QAct(a)[i][1] \in QCalls => QAct(a)[i][1] = a
    BY DEF QAct
  <2> QED BY <2>1, WantsOne
<1>2. ASSUME NEW a \in QCalls, NEW x \in {"main", "full", "empty"} PROVE WantOf(QBack(x, a)) = a
  <2>1. 2 \in DOMAIN QBack(x, a) /\ QBack(x, a)[2][1] = a /\ \A i \in DOMAIN QBack(x, a) : QBack(x, a)[i][1] \in QCalls => QBack(x, a)[i][1] = a
    BY DEF QBack, QCalls
  <2> QED BY <2>1, WantsOne
<1>3. ASSUME NEW a \in QCalls, NEW x \in {"main", "full", "empty"} PROVE WantOf(QWait(x, a)) = a
  <2>1. 2 \in DOMAIN QWait(x, a) /\ QWait(x, a)[2][1] = a /\ \A i \in DOMAIN QWait(x, a) : QWait(x, a)[i][1] \in QCalls => QWait(x, a)[i][1] = a
    BY DEF QWait, QCalls
  <2> QED BY <2>1, WantsOne
<1>4. ASSUME NEW a \in QCalls, NEW x \in {"main", "full", "empty"} PROVE WantOf(QRelease(x, a)) = a
  <2>1. 4 \in DOMAIN QRelease(x, a) /\ QRelease(x, a)[4][1] = a /\ \A i \in DOMAIN QRelease(x, a) : QRelease(x, a)[i][1] \in QCalls => QRelease(x, a)[i][1] = a
    BY DEF QRelease, QCalls
  <2> QED BY <2>1, WantsOne
<1>5. ASSUME NEW a \in QCalls, NEW x \in {"main", "full", "empty"} PROVE WantOf(QPark(x, a)) = a
  <2>1. 3 \in DOMAIN QPark(x, a) /\ QPark(x, a)[3][1] = a /\ \A i \in DOMAIN QPark(x, a) : QPark(x, a)[i][1] \in QCalls => QPark(x, a)[i][1] = a
    BY DEF QPark, QCalls
  <2> QED BY <2>1, WantsOne
<1>6. ASSUME NEW c \in Served PROVE WantOf(c) = "none"
  <2>1. \A i \in DOMAIN c : c[i][1] \notin QCalls
    <3>1. CASE c = <<>>
      BY <3>1
    <3>2. CASE c = QNotify("full") \/ c = QNotify("empty")
      BY <3>2 DEF QNotify, QCalls
    <3>3. CASE c = QClose
      BY <3>3 DEF QClose, QCalls
    <3>4. CASE c = QClosing
      BY <3>4 DEF QClosing, QCalls
    <3>5. CASE c = QDone
      BY <3>5 DEF QDone, QCalls
    <3> QED BY <3>1, <3>2, <3>3, <3>4, <3>5 DEF Served
  <2> QED BY <2>1, WantsNone
<1> QED BY <1>1, <1>2, <1>3, <1>4, <1>5, <1>6

\* What the steps of the queue do to a fiber's call.
QueueCode(c) ==
    /\ Op(c) \in QCalls \cup {"acquire", "wait", "release", "park", "notify", "broadcast"}
    /\ Op(c) \in QCalls => WantOf(c) = Op(c) /\ \A x \in {"full", "empty"} : WantOf(<<<<"wait", x>>>> \o c) = Op(c)
    /\ Op(c) \notin QCalls \cup {"wait"} => WantOf(Tail(c)) = WantOf(c)
    /\ Op(c) = "wait" => WantOf(<<<<"release", Arg(c)>>, <<"park", Arg(c)>>, <<"acquire", Arg(c)>>>> \o Tail(c)) = WantOf(c)
    /\ AfterAbort(c) = <<>>

\* The codes of the queue are such codes.
LEMMA QueueCodesAre == ASSUME NEW c \in Codes("queue"), c # <<>> PROVE QueueCode(c)
<1>s. ASSUME NEW b, NEW op, NEW x, NEW t, NEW e, Shape(b, op, x, t, e)
      PROVE  Op(b) = op /\ Arg(b) = x /\ Tail(b) = t /\ AfterAbort(b) = e
  BY <1>s DEF Shape, Op, Arg
<1>0. c \in Unanswered \cup Served
  BY DEF Codes
<1>1. ASSUME NEW a \in QCalls, c = QAct(a) PROVE QueueCode(c)
  <2>1. Shape(QAct(a), a, "main", <<>>, <<>>)
    BY QueueShapes DEF QCalls
  <2>2. Op(c) = a /\ AfterAbort(c) = <<>>
    BY <1>1, <2>1, <1>s
  <2>3. ASSUME NEW x \in {"full", "empty"} PROVE WantOf(<<<<"wait", x>>>> \o c) = a
    <3>1. <<<<"wait", x>>>> \o QAct(a) = QWait(x, a)
      BY Joined DEF QAct, QWait
    <3>2. WantOf(QWait(x, a)) = a
      BY QueueWants
    <3> QED BY <1>1, <3>1, <3>2
  <2>4. WantOf(c) = a
    BY <1>1, QueueWants
  <2>5. Op(c) # "wait"
    BY <2>2 DEF QCalls
  <2> QED BY <2>2, <2>3, <2>4, <2>5 DEF QueueCode
<1>2. ASSUME NEW a \in QCalls, NEW x \in {"main", "full", "empty"}, c \in {QBack(x, a), QWait(x, a), QRelease(x, a), QPark(x, a)}
      PROVE  QueueCode(c)
  <2>1. /\ Shape(QBack(x, a), "acquire", x, QAct(a), <<>>)
        /\ Shape(QWait(x, a), "wait", x, QAct(a), <<>>) /\ Shape(QRelease(x, a), "release", x, QPark(x, a), <<>>)
        /\ Shape(QPark(x, a), "park", x, QBack(x, a), <<>>)
    BY QueueShapes DEF QCalls
  <2>2. /\ WantOf(QAct(a)) = a /\ WantOf(QBack(x, a)) = a /\ WantOf(QWait(x, a)) = a /\ WantOf(QRelease(x, a)) = a
        /\ WantOf(QPark(x, a)) = a
    BY QueueWants
  <2>3. "acquire" \notin QCalls /\ "wait" \notin QCalls /\ "release" \notin QCalls /\ "park" \notin QCalls
    BY DEF QCalls
  <2>4. CASE c = QBack(x, a)
    <3>1. Op(c) = "acquire" /\ Tail(c) = QAct(a) /\ AfterAbort(c) = <<>>
      BY <2>4, <2>1, <1>s
    <3> QED BY <3>1, <2>2, <2>3, <2>4 DEF QueueCode
  <2>5. CASE c = QWait(x, a)
    <3>1. Op(c) = "wait" /\ Arg(c) = x /\ Tail(c) = QAct(a) /\ AfterAbort(c) = <<>>
      BY <2>5, <2>1, <1>s
    <3>2. <<<<"release", x>>, <<"park", x>>, <<"acquire", x>>>> \o QAct(a) = QRelease(x, a)
      BY Joined DEF QAct, QRelease
    <3> QED BY <3>1, <3>2, <2>2, <2>3, <2>5 DEF QueueCode
  <2>6. CASE c = QRelease(x, a)
    <3>1. Op(c) = "release" /\ Tail(c) = QPark(x, a) /\ AfterAbort(c) = <<>>
      BY <2>6, <2>1, <1>s
    <3> QED BY <3>1, <2>2, <2>3, <2>6 DEF QueueCode
  <2>7. CASE c = QPark(x, a)
    <3>1. Op(c) = "park" /\ Tail(c) = QBack(x, a) /\ AfterAbort(c) = <<>>
      BY <2>7, <2>1, <1>s
    <3> QED BY <3>1, <2>2, <2>3, <2>7 DEF QueueCode
  <2> QED BY <1>2, <2>4, <2>5, <2>6, <2>7
<1>3. ASSUME c \in Served PROVE QueueCode(c)
  <2>1. /\ Shape(QNotify("full"), "notify", "full", QDone, <<>>) /\ Shape(QNotify("empty"), "notify", "empty", QDone, <<>>)
        /\ Shape(QClose, "broadcast", "full", QClosing, <<>>) /\ Shape(QClosing, "broadcast", "empty", QDone, <<>>)
        /\ Shape(QDone, "release", "main", <<>>, <<>>)
    BY QueueShapes
  <2>2. WantOf(c) = "none" /\ WantOf(QDone) = "none" /\ WantOf(QClosing) = "none" /\ WantOf(<<>>) = "none"
    BY <1>3, QueueWants DEF Served
  <2>3. Op(c) \in {"notify", "broadcast", "release"} /\ Tail(c) \in {QDone, QClosing, <<>>} /\ AfterAbort(c) = <<>>
    BY <1>3, <2>1, <1>s DEF Served
  <2> QED BY <2>2, <2>3 DEF QueueCode, QCalls
<1> QED BY <1>0, <1>1, <1>2, <1>3 DEF Unanswered, QCalls

\* No other object's code calls the queue.
LEMMA NoQueueCall ==
    ASSUME NEW k \in AllKinds, k # "queue", NEW c \in Codes(k)
    PROVE  WantOf(c) = "none" /\ (c # <<>> => Op(c) \notin QCalls)
<1> DEFINE Silent(d) == WantOf(d) = "none" /\ (d # <<>> => Op(d) \notin QCalls)
<1>1. Silent(<<>>)
  BY WantsNone
<1>2. ASSUME NEW a, a \notin QCalls, NEW x PROVE Silent(<<<<a, x>>>>)
  BY <1>2, WantsNone DEF Op
<1>3. ASSUME NEW a, a \notin QCalls, NEW b, b \notin QCalls, NEW x, NEW y PROVE Silent(<<<<a, x>>, <<b, y>>>>)
  BY <1>3, WantsNone DEF Op
<1>4. ASSUME NEW a, a \notin QCalls, NEW b, b \notin QCalls, NEW d, d \notin QCalls, NEW x, NEW y, NEW z
      PROVE  Silent(<<<<a, x>>, <<b, y>>, <<d, z>>>>)
  BY <1>4, WantsNone DEF Op
<1>5. ASSUME NEW a, a \notin QCalls, NEW b, b \notin QCalls, NEW d, d \notin QCalls, NEW e, e \notin QCalls, NEW x, NEW y, NEW z, NEW w
      PROVE  Silent(<<<<a, x>>, <<b, y>>, <<d, z>>, <<e, w>>>>)
  BY <1>5, WantsNone DEF Op
<1>6. Silent(CvRelease)
  <2>1. \A i \in DOMAIN CvRelease : CvRelease[i][1] \notin QCalls
    BY DEF CvRelease, QCalls
  <2>2. Op(CvRelease) = "release"
    BY Pieces DEF CvRelease, Op
  <2> QED BY <2>1, <2>2, WantsNone DEF QCalls
<1> HIDE DEF Silent
<1>n. /\ "acquire" \notin QCalls /\ "down" \notin QCalls /\ "try" \notin QCalls /\ "body" \notin QCalls /\ "ensure" \notin QCalls
      /\ "wait" \notin QCalls /\ "notify" \notin QCalls /\ "broadcast" \notin QCalls /\ "park" \notin QCalls /\ "read" \notin QCalls
      /\ "write" \notin QCalls /\ "arrive" \notin QCalls /\ "gate" \notin QCalls /\ "get" \notin QCalls /\ "open" \notin QCalls
  BY DEF QCalls
<1>7. CASE k \in Sections
  <2>1. c \in MonitorCodes \cup {Enter("try"), Enter("down")}
    BY <1>7 DEF Codes, MonitorCodes, LockCodes, Sections
  <2>2. \A a \in {"acquire", "down", "try"} : Silent(Enter(a))
    BY <1>n, <1>4 DEF Enter
  <2>3. \A op \in {"wait", "notify", "broadcast"} : Silent(Ask(op))
    BY <1>n, <1>4 DEF Ask
  <2>4. Silent(Held) /\ Silent(Out("main"))
    BY <1>n, <1>2, <1>3 DEF Held, Out
  <2>5. Silent(CvPark) /\ Silent(CvBack)
    BY <1>n, <1>4, <1>5 DEF CvPark, CvBack
  <2>6. Silent(c)
    BY <2>1, <2>2, <2>3, <2>4, <2>5, <1>6, <1>1 DEF MonitorCodes, LockCodes
  <2> QED BY <2>6 DEF Silent
<1>8. CASE k = "rwlock"
  <2>1. c \in RwCodes
    BY <1>8 DEF Codes
  <2>2. ASSUME NEW a \in {"read", "write"} PROVE Silent(RwEnter(a)) /\ Silent(RwPark(a)) /\ Silent(RwIn(a)) /\ Silent(Out(a))
    <3>1. a \notin QCalls
      BY DEF QCalls
    <3>2. Silent(RwEnter(a))
      BY <1>n, <3>1, <1>4 DEF RwEnter
    <3>3. Silent(RwPark(a))
      BY <1>n, <3>1, <1>5 DEF RwPark
    <3>4. Silent(RwIn(a)) /\ Silent(Out(a))
      BY <1>n, <1>2, <1>3 DEF RwIn, Out
    <3> QED BY <3>2, <3>3, <3>4
  <2>3. Silent(c)
    BY <2>1, <2>2, <1>1 DEF RwCodes
  <2> QED BY <2>3 DEF Silent
<1>9. CASE k \in {"barrier", "latch", "once"}
  <2>1. c \in {<<>>, Passed, Opening, Thunk, Settle, Out("done")} \cup {Gate(op) : op \in {"arrive", "gate", "get", "park"}}
    BY <1>9 DEF Codes, GateCodes, OnceCodes
  <2>2. \A op \in {"arrive", "gate", "get", "park"} : Silent(Gate(op))
    BY <1>n, <1>3 DEF Gate
  <2>3. Silent(Passed) /\ Silent(Opening) /\ Silent(Out("done"))
    BY <1>n, <1>2 DEF Passed, Opening, Out
  <2>4. Silent(Thunk) /\ Silent(Settle)
    BY <1>n, <1>3, <1>4 DEF Thunk, Settle
  <2>5. Silent(c)
    BY <2>1, <2>2, <2>3, <2>4, <1>1
  <2> QED BY <2>5 DEF Silent
<1> QED BY <1>7, <1>8, <1>9 DEF AllKinds, Sections

\* Nothing but the queue's own calls changes what is in it.
LEMMA QueueData ==
    ASSUME Next
    PROVE  \/ UNCHANGED <<buf, closed, got>>
           \/ \E f \in Fibers : QueuePut(f) \/ QueueTake(f) \/ QueueClose(f)
<1>1. CASE WakeNext \/ WakeReady
  BY <1>1 DEF WakeNext, WakeReady, dataVars
<1>2. ASSUME NEW f \in Fibers, Call(f), ~QueuePut(f), ~QueueTake(f), ~QueueClose(f) PROVE UNCHANGED <<buf, closed, got>>
  BY <1>2 DEF Call, FutexWait, Acquire, TryAcquire, Release, SemAcquire, SemRelease, CvWait, Notify, RwAcquire,
              RwRelease, BarrierWait, LatchWait, OnceGet, Open, dataVars
<1>3. ASSUME NEW f \in Fibers,
             \/ Begin(f) \/ LeaveBody(f) \/ InMonitor(f) \/ Suspend(f) \/ Resume(f)
             \/ \E g \in Fibers : Abort(f, g)
      PROVE  UNCHANGED <<buf, closed, got>>
  BY <1>3 DEF Begin, LeaveBody, InMonitor, Suspend, Resume, Abort, dataVars
<1> QED BY <1>1, <1>2, <1>3 DEF Next

\* What the queue holds are items, an item being the fiber that put it.
BufHolds == buf \in Seq(Fibers)

\* The items stay items.
LEMMA BufKept == ASSUME BufHolds, [Next]_vars PROVE BufHolds'
<1>1. CASE UNCHANGED <<buf, closed, got>>
  BY <1>1 DEF BufHolds
<1>2. ASSUME NEW f \in Fibers, QueuePut(f) PROVE BufHolds'
  <2>1. buf' = buf \/ buf' = Append(buf, f)
    BY <1>2 DEF QueuePut
  <2> QED BY <2>1, AppendProperties DEF BufHolds
<1>3. ASSUME NEW f \in Fibers, QueueTake(f) PROVE BufHolds'
  <2>1. buf' = buf \/ (buf # <<>> /\ buf' = Tail(buf))
    BY <1>3 DEF QueueTake
  <2> QED BY <2>1, HeadTailProperties DEF BufHolds
<1>4. ASSUME NEW f \in Fibers, QueueClose(f) PROVE BufHolds'
  BY <1>4 DEF QueueClose, BufHolds
<1>5. CASE UNCHANGED vars
  BY <1>5 DEF vars, BufHolds
<1> QED BY <1>1, <1>2, <1>3, <1>4, <1>5, QueueData

\* What each fiber wants, and how a step that moves one fiber changes it.
LEMMA WantsStep ==
    ASSUME CodesHold, NEW f \in Fibers, NEW d, Goto(f, d)
    PROVE  /\ \A g \in Fibers : Wanted(g) = WantOf(code[g])
           /\ [g \in Fibers |-> Wanted(g)'] = [[g \in Fibers |-> Wanted(g)] EXCEPT ![f] = WantOf(d)]
<1>1. \A g \in Fibers : Wanted(g) = WantOf(code[g])
  BY DEF Wanted, WantOf, QCalls
<1>2. \A g \in Fibers : Wanted(g)' = WantOf(code'[g])
  BY DEF Wanted, WantOf, QCalls
<1>3. \A g \in Fibers : code'[g] = IF g = f THEN d ELSE code[g]
  BY DEF CodesHold, Goto
<1>4. \A g \in Fibers : Wanted(g)' = IF g = f THEN WantOf(d) ELSE Wanted(g)
  BY <1>1, <1>2, <1>3
<1> QED BY <1>1, <1>4

\* A step of the library is a step of the bounded queue, or none.
LEMMA QueueStep == ASSUME SyncInv, BufHolds, [Next]_vars PROVE [Queue!Next]_(Queue!vars)
<1>c. CodesHold
  BY DEF SyncInv
<1>w. \A g \in Fibers : Wanted(g) = WantOf(code[g]) /\ Wanted(g)' = WantOf(code'[g])
  BY DEF Wanted, WantOf, QCalls
\* The fibers want what they wanted and the queue is as it was.
<1>q. ASSUME UNCHANGED <<buf, closed, got>>, \A g \in Fibers : Wanted(g)' = Wanted(g) PROVE UNCHANGED Queue!vars
  <2>1. [g \in Fibers |-> Wanted(g)'] = [g \in Fibers |-> Wanted(g)]
    BY <1>q
  <2> QED BY <1>q, <2>1 DEF Queue!vars
<1>u. CASE UNCHANGED vars
  <2>1. code' = code /\ UNCHANGED <<buf, closed, got>>
    BY <1>u DEF vars
  <2> QED BY <2>1, <1>w, <1>q
<1>o. CASE Next /\ kind # "queue"
  <2>1. kind' # "queue" /\ CodesHold'
    BY <1>o, <1>c, SameObject, CodesKept
  <2>2. \A g \in Fibers : WantOf(code[g]) = "none" /\ (code[g] # <<>> => Op(code[g]) \notin QCalls)
    BY <1>o, <1>c, NoQueueCall DEF CodesHold
  <2>3. \A g \in Fibers : WantOf(code'[g]) = "none"
    BY <2>1, NoQueueCall DEF CodesHold
  <2>4. \A g \in Fibers : ~QueuePut(g) /\ ~QueueTake(g) /\ ~QueueClose(g)
    BY <2>2 DEF QueuePut, QueueTake, QueueClose, Doing, Op, QCalls
  <2>5. UNCHANGED <<buf, closed, got>>
    BY <1>o, <2>4, QueueData
  <2> QED BY <2>2, <2>3, <2>5, <1>w, <1>q
<1>n. CASE Next /\ kind = "queue"
  <2>c. \A g \in Fibers : code[g] # <<>> => QueueCode(code[g])
    BY <1>n, <1>c, QueueCodesAre DEF CodesHold
  <2>d. WantOf(<<>>) = "none" /\ WantOf(QDone) = "none" /\ WantOf(QNotify("full")) = "none" /\ WantOf(QNotify("empty")) = "none" /\ WantOf(QClose) = "none"
    BY QueueWants DEF Served
  <2>1. ASSUME NEW f \in Fibers, QueuePut(f) PROVE [Queue!Next]_(Queue!vars)
    <3>1. code[f] # <<>> /\ Op(code[f]) = "put"
      BY <2>1 DEF QueuePut, Doing, Op
    <3>2. Wanted(f) = "put" /\ \A x \in {"full", "empty"} : WantOf(<<<<"wait", x>>>> \o code[f]) = "put"
      BY <3>1, <2>c, <1>w DEF QueueCode, QCalls
    <3>3. UNCHANGED <<closed, got>>
      BY <2>1 DEF QueuePut
    <3>4. CASE ~closed /\ Len(buf) >= Cap
      <4>1. Goto(f, <<<<"wait", "full">>>> \o code[f]) /\ UNCHANGED buf
        BY <2>1, <3>4 DEF QueuePut, WaitAndLook
      <4>2. \A g \in Fibers : code'[g] = IF g = f THEN <<<<"wait", "full">>>> \o code[f] ELSE code[g]
        BY <4>1, <1>c DEF Goto, CodesHold
      <4>3. \A g \in Fibers : Wanted(g)' = Wanted(g)
        BY <4>2, <3>2, <1>w
      <4> QED BY <3>3, <4>1, <4>3, <1>q
    <3>5. CASE closed
      <4>1. Goto(f, QDone) /\ UNCHANGED buf
        BY <2>1, <3>5 DEF QueuePut, QDone
      <4>2. [g \in Fibers |-> Wanted(g)'] = [[g \in Fibers |-> Wanted(g)] EXCEPT ![f] = "none"]
        BY <4>1, <1>c, <2>d, WantsStep
      <4>3. Queue!Put(f)
        BY <3>2, <3>3, <3>5, <4>1, <4>2 DEF Queue!Put, Queue!Answered
      <4> QED BY <4>3 DEF Queue!Next
    <3>6. CASE ~closed /\ ~(Len(buf) >= Cap)
      <4>1. Goto(f, QNotify("empty")) /\ buf' = Append(buf, f)
        BY <2>1, <3>6 DEF QueuePut, QNotify
      <4>2. [g \in Fibers |-> Wanted(g)'] = [[g \in Fibers |-> Wanted(g)] EXCEPT ![f] = "none"]
        BY <4>1, <1>c, <2>d, WantsStep
      <4>3. Len(buf) < Cap
        BY <3>6, SyncAssumption DEF BufHolds
      <4>4. Queue!Put(f)
        BY <3>2, <3>3, <3>6, <4>1, <4>2, <4>3 DEF Queue!Put, Queue!Answered
      <4> QED BY <4>4 DEF Queue!Next
    <3> QED BY <3>4, <3>5, <3>6
  <2>2. ASSUME NEW f \in Fibers, QueueTake(f) PROVE [Queue!Next]_(Queue!vars)
    <3>1. code[f] # <<>> /\ Op(code[f]) = "take"
      BY <2>2 DEF QueueTake, Doing, Op
    <3>2. Wanted(f) = "take" /\ \A x \in {"full", "empty"} : WantOf(<<<<"wait", x>>>> \o code[f]) = "take"
      BY <3>1, <2>c, <1>w DEF QueueCode, QCalls
    <3>3. UNCHANGED closed
      BY <2>2 DEF QueueTake
    <3>4. CASE ~closed /\ buf = <<>>
      <4>1. Goto(f, <<<<"wait", "empty">>>> \o code[f]) /\ UNCHANGED <<buf, got>>
        BY <2>2, <3>4 DEF QueueTake, WaitAndLook
      <4>2. \A g \in Fibers : code'[g] = IF g = f THEN <<<<"wait", "empty">>>> \o code[f] ELSE code[g]
        BY <4>1, <1>c DEF Goto, CodesHold
      <4>3. \A g \in Fibers : Wanted(g)' = Wanted(g)
        BY <4>2, <3>2, <1>w
      <4> QED BY <3>3, <4>1, <4>3, <1>q
    <3>5. CASE closed /\ buf = <<>>
      <4>1. Goto(f, QDone) /\ UNCHANGED buf /\ got' = [got EXCEPT ![f] = <<>>]
        BY <2>2, <3>5 DEF QueueTake, QDone
      <4>2. [g \in Fibers |-> Wanted(g)'] = [[g \in Fibers |-> Wanted(g)] EXCEPT ![f] = "none"]
        BY <4>1, <1>c, <2>d, WantsStep
      <4>3. Queue!Take(f)
        BY <3>2, <3>3, <3>5, <4>1, <4>2 DEF Queue!Take, Queue!Answered
      <4> QED BY <4>3 DEF Queue!Next
    <3>6. CASE buf # <<>>
      <4>1. Goto(f, QNotify("full")) /\ buf' = Tail(buf) /\ got' = [got EXCEPT ![f] = <<Head(buf)>>]
        BY <2>2, <3>6 DEF QueueTake, QNotify
      <4>2. [g \in Fibers |-> Wanted(g)'] = [[g \in Fibers |-> Wanted(g)] EXCEPT ![f] = "none"]
        BY <4>1, <1>c, <2>d, WantsStep
      <4>3. Queue!Take(f)
        BY <3>2, <3>3, <3>6, <4>1, <4>2 DEF Queue!Take, Queue!Answered
      <4> QED BY <4>3 DEF Queue!Next
    <3> QED BY <3>4, <3>5, <3>6
  <2>3. ASSUME NEW f \in Fibers, QueueClose(f) PROVE [Queue!Next]_(Queue!vars)
    <3>1. code[f] # <<>> /\ Op(code[f]) = "close"
      BY <2>3 DEF QueueClose, Doing, Op
    <3>2. Wanted(f) = "close"
      BY <3>1, <2>c, <1>w DEF QueueCode, QCalls
    <3>3. Goto(f, QClose) /\ closed' = TRUE /\ UNCHANGED <<buf, got>>
      BY <2>3 DEF QueueClose, QClose
    <3>4. [g \in Fibers |-> Wanted(g)'] = [[g \in Fibers |-> Wanted(g)] EXCEPT ![f] = "none"]
      BY <3>3, <1>c, <2>d, WantsStep
    <3>5. Queue!Close(f)
      BY <3>2, <3>3, <3>4 DEF Queue!Close, Queue!Answered
    <3> QED BY <3>5 DEF Queue!Next
  <2>4. ASSUME \A f \in Fibers : ~QueuePut(f) /\ ~QueueTake(f) /\ ~QueueClose(f) PROVE [Queue!Next]_(Queue!vars)
    <3>1. UNCHANGED <<buf, closed, got>>
      BY <1>n, <2>4, QueueData
    <3>2. CASE code' = code
      BY <3>1, <3>2, <1>w, <1>q
    \* Begin: the fiber calls the queue.
    <3>3. ASSUME NEW f \in Fibers, Begin(f) PROVE [Queue!Next]_(Queue!vars)
      <4>1. PICK a \in QCalls : Goto(f, QBack("main", a))
        BY <3>3, <1>n DEF Begin, Operations, QBack, QCalls
      <4>2. Wanted(f) = "none" /\ WantOf(QBack("main", a)) = a
        BY <3>3, <2>d, <1>w, QueueWants DEF Begin
      <4>3. [g \in Fibers |-> Wanted(g)'] = [[g \in Fibers |-> Wanted(g)] EXCEPT ![f] = a]
        BY <4>1, <4>2, <1>c, WantsStep
      <4>4. Queue!Call(f)
        BY <3>1, <4>2, <4>3 DEF Queue!Call, QCalls
      <4> QED BY <4>4 DEF Queue!Next
    \* An abort: the fiber gives its call up, if it had one.
    <3>4. ASSUME NEW f \in Fibers, NEW g \in Fibers, Abort(f, g) PROVE [Queue!Next]_(Queue!vars)
      <4>1. code[g] # <<>> /\ Goto(g, AfterAbort(code[g]))
        BY <3>4 DEF Abort, AfterAbort
      <4>2. Goto(g, <<>>)
        BY <4>1, <2>c DEF QueueCode
      <4>3. [h \in Fibers |-> Wanted(h)'] = [[h \in Fibers |-> Wanted(h)] EXCEPT ![g] = "none"]
        BY <4>2, <1>c, <2>d, WantsStep
      <4>4. CASE Wanted(g) # "none"
        <5>1. Queue!GiveUp(g)
          BY <3>1, <4>3, <4>4 DEF Queue!GiveUp, Queue!Answered
        <5> QED BY <5>1 DEF Queue!Next
      <4>5. CASE Wanted(g) = "none"
        <5>1. \A h \in Fibers : code'[h] = IF h = g THEN <<>> ELSE code[h]
          BY <4>2, <1>c DEF Goto, CodesHold
        <5>2. \A h \in Fibers : Wanted(h)' = Wanted(h)
          BY <5>1, <4>5, <2>d, <1>w
        <5> QED BY <3>1, <5>2, <1>q
      <4> QED BY <4>4, <4>5
    \* The other calls go on to the next instruction, or begin a wait.
    <3>5. ASSUME NEW f \in Fibers, NEW d, Goto(f, d), code[f] # <<>>,
                 \/ Op(code[f]) \notin QCalls \cup {"wait"} /\ d = Tail(code[f])
                 \/ /\ Op(code[f]) = "wait"
                    /\ d = <<<<"release", Arg(code[f])>>, <<"park", Arg(code[f])>>, <<"acquire", Arg(code[f])>>>> \o Tail(code[f])
          PROVE  [Queue!Next]_(Queue!vars)
      <4>1. WantOf(d) = WantOf(code[f])
        BY <3>5, <2>c DEF QueueCode
      <4>2. \A h \in Fibers : code'[h] = IF h = f THEN d ELSE code[h]
        BY <3>5, <1>c DEF Goto, CodesHold
      <4>3. \A h \in Fibers : Wanted(h)' = Wanted(h)
        BY <4>1, <4>2, <1>w
      <4> QED BY <3>1, <4>3, <1>q
    <3>6. ASSUME NEW f \in Fibers, Call(f) PROVE [Queue!Next]_(Queue!vars)
      <4>1. code[f] # <<>> /\ Op(code[f]) \in QCalls \cup {"acquire", "wait", "release", "park", "notify", "broadcast"}
        BY <3>6, <2>c, CallOps DEF QueueCode
      <4>2. CASE FutexWait(f) /\ Op(code[f]) = "park"
        <5>1. code' = code \/ Goto(f, Tail(code[f]))
          BY <4>2 DEF FutexWait, Go
        <5> QED BY <5>1, <4>1, <4>2, <3>2, <3>5 DEF QCalls
      <4>3. CASE Acquire(f) /\ Op(code[f]) = "acquire"
        <5>1. code' = code \/ Goto(f, Tail(code[f]))
          BY <4>3 DEF Acquire, Go
        <5> QED BY <5>1, <4>1, <4>3, <3>2, <3>5 DEF QCalls
      <4>4. CASE Release(f) /\ Op(code[f]) \in {"release", "ensure"}
        <5>1. Goto(f, Tail(code[f]))
          BY <4>4 DEF Release, Go
        <5> QED BY <5>1, <4>1, <4>4, <3>5 DEF QCalls
      <4>5. CASE CvWait(f) /\ Op(code[f]) = "wait"
        <5>1. Goto(f, <<<<"release", Arg(code[f])>>, <<"park", Arg(code[f])>>, <<"acquire", Arg(code[f])>>>> \o Tail(code[f]))
          BY <4>5 DEF CvWait, Arg
        <5> QED BY <5>1, <4>1, <4>5, <3>5
      <4>6. CASE Notify(f) /\ Op(code[f]) \in {"notify", "broadcast"}
        <5>1. Goto(f, Tail(code[f]))
          BY <4>6 DEF Notify, Go
        <5> QED BY <5>1, <4>1, <4>6, <3>5 DEF QCalls
      <4> QED BY <3>6, <4>1, <4>2, <4>3, <4>4, <4>5, <4>6, <2>4, CallOps DEF QCalls
    <3>7. ASSUME NEW f \in Fibers, LeaveBody(f) \/ InMonitor(f) PROVE [Queue!Next]_(Queue!vars)
      <4>1. code[f] # <<>> /\ Op(code[f]) = "body"
        BY <3>7 DEF LeaveBody, InMonitor, Doing, Op
      <4> QED BY <4>1, <2>c DEF QueueCode, QCalls
    <3>8. ASSUME NEW f \in Fibers, Suspend(f) \/ Resume(f) PROVE code' = code
      BY <3>8 DEF Suspend, Resume
    <3>9. ASSUME WakeNext \/ WakeReady PROVE code' = code
      BY <3>9 DEF WakeNext, WakeReady
    <3> QED BY <1>n, <3>2, <3>3, <3>4, <3>6, <3>7, <3>8, <3>9 DEF Next
  <2> QED BY <2>1, <2>2, <2>3, <2>4
<1> QED BY <1>u, <1>o, <1>n

\* make-queue does nothing a bounded FIFO queue would not: an item goes in when
\* there is room and comes out once and in order, a call is answered once, and a
\* closed queue takes no more.  That every call that can be answered is answered
\* in the end is the liveness part of ImplementsBoundedQueue.
THEOREM QueueIsBounded == Spec => Queue!Init /\ [][Queue!Next]_(Queue!vars)
<1>1. Init => Queue!Init /\ BufHolds
  <2>1. SUFFICES ASSUME Init PROVE Queue!Init /\ BufHolds
    OBVIOUS
  <2>2. \A f \in Fibers : Wanted(f) = "none"
    <3>1. \A f \in Fibers : Wanted(f) = WantOf(code[f]) /\ code[f] = <<>>
      BY <2>1 DEF Wanted, WantOf, QCalls, Init
    <3>2. WantOf(<<>>) = "none"
      BY QueueWants DEF Served
    <3> QED BY <3>1, <3>2
  <2>3. buf = <<>> /\ closed = FALSE /\ got = [f \in Fibers |-> <<>>]
    BY <2>1 DEF Init
  <2> QED BY <2>2, <2>3 DEF Queue!Init, BufHolds
<1>2. BufHolds /\ [Next]_vars => BufHolds'
  BY BufKept
<1>3. SyncInv /\ BufHolds /\ [Next]_vars => [Queue!Next]_(Queue!vars)
  BY QueueStep
<1> QED BY <1>1, <1>2, <1>3, SyncInvariant, PTL DEF Spec

=============================================================================
