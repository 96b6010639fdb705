------------------------- MODULE EventStream_proofs -------------------------
(* Proofs about EventStream: its type invariant, that a tab behind its      *)
(* snapshot has every event of the step in progress once and in order, and  *)
(* that a connection brings every stored step, for any number of steps,     *)
(* events and faults.                                                       *)
EXTENDS EventStream, SequenceTheorems, WellFoundedInduction, TLAPS

(***************************************************************************)
(* Induction over the naturals, from the library's theorem that < is well-  *)
(* founded: a set of naturals has a least element.                          *)
(***************************************************************************)
Less == {pair \in Nat \X Nat : pair[1] < pair[2]}

LEMMA LessIsWellFounded == IsWellFoundedOn(Less, Nat)
BY NatLessThanWellFounded, Zenon DEF OpToRel, Less

LEMMA LeastElement ==
  ASSUME NEW S, S \subseteq Nat, S # {}
  PROVE  \E n \in S : \A m \in S : n <= m
<1>1. \E x \in S : \A y \in S : ~ (<<y, x>> \in Less)
  BY LessIsWellFounded, WFMin, Zenon
<1>2. ASSUME NEW x \in S, NEW y \in S, ~ (<<y, x>> \in Less)
      PROVE  x <= y
  <2>1. x \in Nat /\ y \in Nat  OBVIOUS
  <2>2. ~(y < x) BY <2>1, <1>2 DEF Less
  <2> QED BY <2>1, <2>2
<1> QED BY <1>1, <1>2, Zenon

LEMMA Induction ==
  ASSUME NEW S, 0 \in S, \A n \in Nat : n \in S => n + 1 \in S
  PROVE  Nat \subseteq S
<1> DEFINE T == Nat \ S
<1>1. SUFFICES ASSUME T # {} PROVE FALSE OBVIOUS
<1>2. PICK n \in T : \A m \in T : n <= m
  <2>1. T \subseteq Nat OBVIOUS
  <2> HIDE DEF T
  <2> QED BY <1>1, <2>1, LeastElement, Zenon
<1>3. n \in Nat /\ n # 0 OBVIOUS
<1>4. n - 1 \in Nat /\ n - 1 \notin T BY <1>2, <1>3
<1> QED BY <1>3, <1>4

LEMMA GreatestElement ==
  ASSUME NEW N \in Nat, NEW S, S \subseteq 0..N, S # {}
  PROVE  \E n \in S : \A m \in S : m <= n
<1> DEFINE T == {N - n : n \in S}
<1>1. T \subseteq Nat OBVIOUS
<1>2. T # {} OBVIOUS
<1>3. PICK d \in T : \A m \in T : d <= m
  <2> HIDE DEF T
  <2> QED BY <1>1, <1>2, LeastElement, Zenon
<1>4. PICK n \in S : d = N - n OBVIOUS
<1>5. ASSUME NEW m \in S PROVE m <= n
  <2>1. N - m \in T OBVIOUS
  <2>2. N - n <= N - m BY <1>3, <1>4, <2>1
  <2>3. m \in 0..N /\ n \in 0..N OBVIOUS
  <2> QED BY <2>2, <2>3
<1> QED BY <1>4, <1>5

-----------------------------------------------------------------------------
(* Frames.                                                                  *)

Frame ==
  [kind : {"event"}, event : Event]
    \cup [kind : {"completed"}, step : Step, level : 1..2]
    \cup [kind : {"snapshot"}, step : 0..MaxStep, events : Seq(Nat), cursor : Nat]
    \cup [kind : {"close"}]

\* What a frame is made of.
LEMMA FrameParts ==
  ASSUME NEW f \in Frame
  PROVE  /\ f.kind \in {"event", "completed", "snapshot", "close"}
         /\ f.kind = "event" =>
              /\ f.event \in Event /\ f.event.step \in Step
              /\ f.event.n \in Nat /\ f.event.cursor \in Nat
         /\ f.kind = "completed" => f.step \in Step /\ f.level \in 1..2
         /\ f.kind = "snapshot" =>
              f.step \in 0..MaxStep /\ f.events \in Seq(Nat) /\ f.cursor \in Nat
BY DEF Frame, Event

LEMMA FramesAreFrames ==
  /\ \A e \in Event : EventFrame(e) \in Frame
  /\ \A s \in Step, level \in 1..2 : CompletedFrame(s, level) \in Frame
  /\ \A s \in 0..MaxStep, es \in Seq(Nat), c \in Nat : SnapshotFrame(s, es, c) \in Frame
  /\ CloseFrame \in Frame
BY DEF Frame, EventFrame, CompletedFrame, SnapshotFrame, CloseFrame

-----------------------------------------------------------------------------
(* The frames that CompletedFrames builds, one for each of the steps.       *)

FramesUpTo(g, steps, levels, n) ==
  g = [s \in 0..n |->
         IF s = 0 THEN <<>>
         ELSE IF s \in steps THEN Append(g[s - 1], CompletedFrame(s, levels[s])) ELSE g[s - 1]]

LEMMA FramesRecursion ==
  ASSUME NEW steps, NEW levels, NEW N \in Nat
  PROVE  \E g : FramesUpTo(g, steps, levels, N)
<1> DEFINE Body(g, s) ==
             IF s = 0 THEN <<>>
             ELSE IF s \in steps THEN Append(g[s - 1], CompletedFrame(s, levels[s])) ELSE g[s - 1]
           S == {n \in Nat : \E g : FramesUpTo(g, steps, levels, n)}
<1>1. 0 \in S
  <2> DEFINE g == [s \in 0..0 |-> <<>>]
  <2>1. FramesUpTo(g, steps, levels, 0) BY DEF FramesUpTo
  <2> QED BY <2>1
<1>2. ASSUME NEW n \in Nat, n \in S PROVE n + 1 \in S
  <2>1. PICK g : FramesUpTo(g, steps, levels, n) BY <1>2
  <2> DEFINE h == [s \in 0..n + 1 |-> IF s = n + 1 THEN Body(g, n + 1) ELSE g[s]]
  <2>2. ASSUME NEW s \in 0..n + 1 PROVE h[s] = Body(h, s)
    <3>1. CASE s = 0  BY <3>1, <2>1 DEF FramesUpTo
    <3>2. CASE s # 0
      <4>1. s - 1 \in 0..n /\ s - 1 # n + 1 /\ s - 1 \in 0..n + 1 BY <3>2
      <4>2. h[s - 1] = g[s - 1] BY <4>1
      <4>3. Body(h, s) = Body(g, s) BY <4>2
      <4>4. CASE s = n + 1 BY <4>3, <4>4
      <4>5. CASE s # n + 1
        <5>1. s \in 0..n BY <4>5
        <5>2. g[s] = Body(g, s) BY <5>1, <2>1 DEF FramesUpTo
        <5> QED BY <4>3, <4>5, <5>2
      <4> QED BY <4>4, <4>5
    <3> QED BY <3>1, <3>2
  <2>3. h = [s \in 0..n + 1 |-> Body(h, s)] BY <2>2
  <2>4. FramesUpTo(h, steps, levels, n + 1) BY <2>3, Zenon DEF FramesUpTo
  <2> QED BY <2>4
<1> HIDE DEF S
<1>3. N \in S BY <1>1, <1>2, Induction
<1> QED BY <1>3 DEF S

\* All frames are completed frames of the steps, and each step has one.
LEMMA CompletedFramesFacts ==
  ASSUME NEW steps \in SUBSET Step, NEW levels, \A s \in steps : levels[s] \in 1..2
  PROVE  LET fs == CompletedFrames(steps, levels)
         IN  /\ fs \in Seq(Frame)
             /\ \A i \in 1..Len(fs) : fs[i].kind = "completed" /\ fs[i].step \in steps
             /\ \A s \in steps : \E i \in 1..Len(fs) : fs[i].step = s
<1> DEFINE g == CHOOSE h : FramesUpTo(h, steps, levels, MaxStep)
           Good(n) ==
             /\ g[n] \in Seq(Frame)
             /\ \A i \in 1..Len(g[n]) : g[n][i].kind = "completed" /\ g[n][i].step \in steps
             /\ \A s \in steps : s <= n => \E i \in 1..Len(g[n]) : g[n][i].step = s
           S == {n \in Nat : n <= MaxStep => Good(n)}
<1>1. CompletedFrames(steps, levels) = g[MaxStep] BY DEF CompletedFrames, FramesUpTo
<1>2. MaxStep \in Nat BY StreamAssumption
<1>3. FramesUpTo(g, steps, levels, MaxStep) BY FramesRecursion, <1>2
<1> HIDE DEF g
<1>4. g[0] = <<>> BY <1>2, <1>3 DEF FramesUpTo
<1>5. ASSUME NEW n \in Nat, n + 1 <= MaxStep
      PROVE  g[n + 1] = IF n + 1 \in steps
                        THEN Append(g[n], CompletedFrame(n + 1, levels[n + 1])) ELSE g[n]
  <2>1. n + 1 \in 0..MaxStep /\ n + 1 # 0 /\ (n + 1) - 1 = n BY <1>2, <1>5
  <2> QED BY <2>1, <1>3 DEF FramesUpTo
<1>6. 0 \in S
  <2>1. Good(0) BY <1>4 DEF Step
  <2> QED BY <2>1
<1>7. ASSUME NEW n \in Nat, n \in S PROVE n + 1 \in S
  <2>1. SUFFICES ASSUME n + 1 <= MaxStep PROVE Good(n + 1) OBVIOUS
  <2>2. Good(n) BY <1>2, <1>7, <2>1
  <2>3. CASE n + 1 \in steps
    <3> DEFINE f == CompletedFrame(n + 1, levels[n + 1])
    <3>1. f \in Frame /\ f.kind = "completed" /\ f.step = n + 1
      BY <2>3, FramesAreFrames DEF CompletedFrame
    <3>2. g[n + 1] = Append(g[n], f) BY <1>5, <2>1, <2>3
    <3> HIDE DEF f
    <3>3. g[n + 1] \in Seq(Frame) BY <2>2, <3>1, <3>2
    <3>4. Len(g[n + 1]) = Len(g[n]) + 1 /\ g[n + 1][Len(g[n]) + 1] = f
      BY <2>2, <3>1, <3>2
    <3>5. \A i \in 1..Len(g[n]) : g[n + 1][i] = g[n][i] BY <2>2, <3>1, <3>2
    <3>6. Len(g[n]) \in Nat BY <2>2
    <3>7. ASSUME NEW i \in 1..Len(g[n + 1])
          PROVE  g[n + 1][i].kind = "completed" /\ g[n + 1][i].step \in steps
      <4>1. CASE i = Len(g[n]) + 1 BY <2>3, <3>1, <3>4, <4>1
      <4>2. CASE i # Len(g[n]) + 1
        <5>1. i \in 1..Len(g[n]) BY <3>4, <3>6, <4>2
        <5> QED BY <2>2, <3>5, <5>1
      <4> QED BY <4>1, <4>2
    <3>8. ASSUME NEW s \in steps, s <= n + 1 PROVE \E i \in 1..Len(g[n + 1]) : g[n + 1][i].step = s
      <4>1. CASE s = n + 1 BY <3>1, <3>4, <3>6, <4>1
      <4>2. CASE s # n + 1
        <5>1. s <= n BY <3>8, <4>2 DEF Step
        <5>2. PICK i \in 1..Len(g[n]) : g[n][i].step = s BY <2>2, <5>1
        <5>3. i \in 1..Len(g[n + 1]) BY <3>4, <3>6
        <5>4. g[n + 1][i].step = s BY <3>5, <5>2
        <5> QED BY <5>3, <5>4
      <4> QED BY <4>1, <4>2
    <3> QED BY <3>3, <3>7, <3>8
  <2>4. CASE n + 1 \notin steps
    <3>1. g[n + 1] = g[n] BY <1>5, <2>1, <2>4
    <3>2. \A s \in steps : s <= n + 1 => s <= n BY <2>4 DEF Step
    <3> QED BY <2>2, <3>1, <3>2
  <2> QED BY <2>3, <2>4
<1> HIDE DEF S
<1>8. MaxStep \in S BY <1>2, <1>6, <1>7, Induction
<1>9. Good(MaxStep) BY <1>2, <1>8 DEF S
<1>10. \A s \in steps : s <= MaxStep BY <1>2 DEF Step
<1> QED BY <1>1, <1>9, <1>10

-----------------------------------------------------------------------------
(* What AddAll makes of the view: it adds the events after a cursor.        *)

LEMMA ShownRecord ==
  ASSUME NEW level \in 0..2, NEW live \in Seq(Nat)
  PROVE  \E r \in Shown : /\ r = [level |-> level, live |-> live]
                          /\ r.level = level /\ r.live = live
<1> DEFINE r == [level |-> level, live |-> live]
<1>1. r \in Shown BY DEF Shown
<1>2. r.level = level /\ r.live = live OBVIOUS
<1> QED BY <1>1, <1>2, Zenon

\* One more event of a step.
LEMMA AddEventFacts ==
  ASSUME NEW v \in [Step -> Shown], NEW e \in Event
  PROVE  /\ AddEvent(v, e) \in [Step -> Shown]
         /\ e.step \in Step
         /\ \A s \in Step : AddEvent(v, e)[s].level = v[s].level
         /\ \A s \in Step : s # e.step => AddEvent(v, e)[s] = v[s]
         /\ AddEvent(v, e)[e.step].live = Append(v[e.step].live, e.n)
<1>1. e.step \in Step /\ e.n \in Nat BY DEF Event
<1>2. v[e.step] \in Shown BY <1>1
<1> DEFINE r == [v[e.step] EXCEPT !.live = Append(@, e.n)]
<1>3. Append(v[e.step].live, e.n) \in Seq(Nat) BY <1>1, <1>2 DEF Shown
<1>4. r \in Shown /\ r.level = v[e.step].level /\ r.live = Append(v[e.step].live, e.n)
  BY <1>2, <1>3 DEF Shown
<1>5. AddEvent(v, e) = [v EXCEPT ![e.step] = r] BY DEF AddEvent
<1> HIDE DEF r
<1> QED BY <1>1, <1>4, <1>5

AddedUpTo(g, v, es, c, n) ==
  g = [i \in 0..n |->
         IF i = 0 THEN v ELSE IF es[i].cursor > c THEN AddEvent(g[i - 1], es[i]) ELSE g[i - 1]]

LEMMA AddedRecursion ==
  ASSUME NEW v, NEW es, NEW c, NEW N \in Nat
  PROVE  \E g : AddedUpTo(g, v, es, c, N)
<1> DEFINE Body(g, i) ==
             IF i = 0 THEN v
             ELSE IF es[i].cursor > c THEN AddEvent(g[i - 1], es[i]) ELSE g[i - 1]
           S == {n \in Nat : \E g : AddedUpTo(g, v, es, c, n)}
<1>1. 0 \in S
  <2> DEFINE g == [i \in 0..0 |-> v]
  <2>1. AddedUpTo(g, v, es, c, 0) BY DEF AddedUpTo
  <2> QED BY <2>1
<1>2. ASSUME NEW n \in Nat, n \in S PROVE n + 1 \in S
  <2>1. PICK g : AddedUpTo(g, v, es, c, n) BY <1>2
  <2> DEFINE h == [i \in 0..n + 1 |-> IF i = n + 1 THEN Body(g, n + 1) ELSE g[i]]
  <2>2. ASSUME NEW i \in 0..n + 1 PROVE h[i] = Body(h, i)
    <3>1. CASE i = 0  BY <3>1, <2>1 DEF AddedUpTo
    <3>2. CASE i # 0
      <4>1. i - 1 \in 0..n /\ i - 1 # n + 1 /\ i - 1 \in 0..n + 1 BY <3>2
      <4>2. h[i - 1] = g[i - 1] BY <4>1
      <4>3. Body(h, i) = Body(g, i) BY <4>2
      <4>4. CASE i = n + 1 BY <4>3, <4>4
      <4>5. CASE i # n + 1
        <5>1. i \in 0..n BY <4>5
        <5>2. g[i] = Body(g, i) BY <5>1, <2>1 DEF AddedUpTo
        <5> QED BY <4>3, <4>5, <5>2
      <4> QED BY <4>4, <4>5
    <3> QED BY <3>1, <3>2
  <2>3. h = [i \in 0..n + 1 |-> Body(h, i)] BY <2>2
  <2>4. AddedUpTo(h, v, es, c, n + 1) BY <2>3, Zenon DEF AddedUpTo
  <2> QED BY <2>4
<1> HIDE DEF S
<1>3. N \in S BY <1>1, <1>2, Induction
<1> QED BY <1>3 DEF S

\* What is shown of a step afterwards: what was, and then only events of the
\* step that are after the cursor.
Grown(old, new, s, es, c) ==
  /\ Len(old) <= Len(new)
  /\ \A i \in 1..Len(old) : new[i] = old[i]
  /\ \A i \in 1..Len(new) : i > Len(old) =>
       \E k \in 1..Len(es) : es[k].step = s /\ es[k].cursor > c /\ new[i] = es[k].n

LEMMA GrownOnce ==
  ASSUME NEW T, NEW old \in Seq(T), NEW mid \in Seq(T), NEW n \in T, NEW s, NEW es, NEW c,
         Grown(old, mid, s, es, c), NEW k \in 1..Len(es),
         es[k].step = s, es[k].cursor > c, n = es[k].n
  PROVE  Grown(old, Append(mid, n), s, es, c)
<1> DEFINE new == Append(mid, n)
<1>1. /\ Len(new) = Len(mid) + 1 /\ Len(mid) \in Nat /\ Len(old) \in Nat
      /\ \A i \in 1..Len(mid) : new[i] = mid[i]
      /\ new[Len(mid) + 1] = n
  OBVIOUS
<1> HIDE DEF new
<1>2. Len(old) <= Len(mid) BY DEF Grown
<1>3. \A i \in 1..Len(old) : new[i] = old[i]
  <2>1. \A i \in 1..Len(old) : i \in 1..Len(mid) BY <1>1, <1>2
  <2> QED BY <1>1, <2>1 DEF Grown
<1>4. ASSUME NEW i \in 1..Len(new), i > Len(old)
      PROVE  \E j \in 1..Len(es) : es[j].step = s /\ es[j].cursor > c /\ new[i] = es[j].n
  <2>1. CASE i \in 1..Len(mid)
    <3>1. new[i] = mid[i] BY <1>1, <2>1
    <3> QED BY <1>4, <2>1, <3>1 DEF Grown
  <2>2. CASE i \notin 1..Len(mid)
    <3>1. i = Len(mid) + 1 BY <1>1, <2>2
    <3>2. new[i] = n BY <1>1, <3>1
    <3> QED BY <3>2
  <2> QED BY <2>1, <2>2
<1>5. Len(old) <= Len(new) BY <1>1, <1>2
<1>6. Grown(old, new, s, es, c) BY <1>3, <1>4, <1>5 DEF Grown
<1> QED BY <1>6 DEF new

\* Levels stay, and the live events grow.
LEMMA AddAllFacts ==
  ASSUME NEW v \in [Step -> Shown], NEW es \in Seq(Event), NEW c \in Nat
  PROVE  /\ AddAll(v, es, c) \in [Step -> Shown]
         /\ \A s \in Step : AddAll(v, es, c)[s].level = v[s].level
         /\ \A s \in Step : Grown(v[s].live, AddAll(v, es, c)[s].live, s, es, c)
<1> DEFINE g == CHOOSE h : AddedUpTo(h, v, es, c, Len(es))
           Good(n) ==
             /\ g[n] \in [Step -> Shown]
             /\ \A s \in Step : g[n][s].level = v[s].level
             /\ \A s \in Step : Grown(v[s].live, g[n][s].live, s, es, c)
           S == {n \in Nat : n <= Len(es) => Good(n)}
<1>1. AddAll(v, es, c) = g[Len(es)] BY DEF AddAll, AddedUpTo
<1>2. Len(es) \in Nat OBVIOUS
<1>3. AddedUpTo(g, v, es, c, Len(es)) BY AddedRecursion, <1>2
<1> HIDE DEF g
<1>4. g[0] = v BY <1>2, <1>3 DEF AddedUpTo
<1>5. ASSUME NEW n \in Nat, n + 1 <= Len(es)
      PROVE  g[n + 1] = IF es[n + 1].cursor > c THEN AddEvent(g[n], es[n + 1]) ELSE g[n]
  <2>1. n + 1 \in 0..Len(es) /\ n + 1 # 0 /\ (n + 1) - 1 = n BY <1>2, <1>5
  <2> QED BY <2>1, <1>3 DEF AddedUpTo
<1>6. 0 \in S
  <2>1. ASSUME NEW s \in Step PROVE Grown(v[s].live, v[s].live, s, es, c)
    <3>1. Len(v[s].live) \in Nat BY DEF Shown
    <3> QED BY <3>1 DEF Grown
  <2>2. Good(0) BY <1>4, <2>1
  <2> QED BY <2>2
<1>7. ASSUME NEW n \in Nat, n \in S PROVE n + 1 \in S
  <2>1. SUFFICES ASSUME n + 1 <= Len(es) PROVE Good(n + 1) OBVIOUS
  <2>2. Good(n) BY <1>2, <1>7, <2>1
  <2>3. n + 1 \in 1..Len(es) /\ es[n + 1] \in Event BY <1>2, <2>1
  <2>4. es[n + 1].cursor \in Nat /\ es[n + 1].n \in Nat BY <2>3 DEF Event
  <2>5. CASE es[n + 1].cursor > c
    <3>1. g[n + 1] = AddEvent(g[n], es[n + 1]) BY <1>5, <2>1, <2>5
    <3>2. g[n] \in [Step -> Shown] BY <2>2
    <3>3. /\ AddEvent(g[n], es[n + 1]) \in [Step -> Shown]
          /\ \A s \in Step : AddEvent(g[n], es[n + 1])[s].level = g[n][s].level
          /\ \A s \in Step :
               s # es[n + 1].step => AddEvent(g[n], es[n + 1])[s] = g[n][s]
          /\ AddEvent(g[n], es[n + 1])[es[n + 1].step].live
               = Append(g[n][es[n + 1].step].live, es[n + 1].n)
      BY <2>3, <3>2, AddEventFacts, Zenon
    <3>4. ASSUME NEW s \in Step PROVE Grown(v[s].live, g[n + 1][s].live, s, es, c)
      <4>1. v[s].live \in Seq(Nat) /\ g[n][s].live \in Seq(Nat) BY <3>2 DEF Shown
      <4>2. Grown(v[s].live, g[n][s].live, s, es, c) BY <2>2
      <4>3. CASE s # es[n + 1].step
        <5>1. g[n + 1][s] = g[n][s] BY <3>1, <3>3, <4>3
        <5> QED BY <4>2, <5>1
      <4>4. CASE s = es[n + 1].step
        <5>1. g[n + 1][s].live = Append(g[n][s].live, es[n + 1].n) BY <3>1, <3>3, <4>4
        <5>2. PICK j \in 1..Len(es) : j = n + 1 BY <2>3
        <5>3. es[j].step = s /\ es[j].cursor > c /\ es[j].n \in Nat
          BY <2>4, <2>5, <4>4, <5>2
        <5>4. Grown(v[s].live, Append(g[n][s].live, es[j].n), s, es, c)
          BY <4>1, <4>2, <5>3, GrownOnce
        <5> QED BY <5>1, <5>2, <5>4
      <4> QED BY <4>3, <4>4
    <3> QED BY <2>2, <3>1, <3>3, <3>4
  <2>6. CASE ~(es[n + 1].cursor > c)
    <3>1. g[n + 1] = g[n] BY <1>5, <2>1, <2>6
    <3> QED BY <2>2, <3>1
  <2> QED BY <2>5, <2>6
<1> HIDE DEF S
<1>8. Len(es) \in S BY <1>2, <1>6, <1>7, Induction
<1>9. Good(Len(es)) BY <1>2, <1>8 DEF S
<1> QED BY <1>1, <1>9

\* A step with a complete prefix, or none.
LEMMA SafeThroughType == SafeThrough \in 0..MaxStep
<1> DEFINE safe == {s \in Step : saved[s] = 2 /\ \A t \in 1..s : saved[t] # 1}
<1>1. MaxStep \in Nat BY StreamAssumption
<1>2. safe \subseteq 0..MaxStep BY <1>1 DEF Step
<1> DEFINE last == CHOOSE s \in safe : \A t \in safe : t <= s
<1>3. SafeThrough = IF safe = {} THEN 0 ELSE last
  BY DEF SafeThrough
<1> HIDE DEF safe
<1>4. safe # {} => \E s \in safe : \A t \in safe : t <= s
  BY <1>1, <1>2, GreatestElement
<1>5. safe # {} => last \in safe
  BY <1>4
<1> HIDE DEF last
<1> QED BY <1>1, <1>2, <1>3, <1>5

-----------------------------------------------------------------------------
(* The inductive invariant.                                                 *)

Frames == 1..Len(channel)
IsEvent(k, s) == channel[k].kind = "event" /\ channel[k].event.step = s
IsCompleted(k, s) == channel[k].kind = "completed" /\ channel[k].step = s
IsSnapshot(k) == channel[k].kind = "snapshot"

\* The type invariant, with the frames under way.
TypeInv == TypeOK /\ channel \in Seq(Frame)

\* The bus knows a step from its start until its result is announced.
BusInv ==
  /\ pc = "open" => active = step /\ step # 0
  /\ active # 0 => pc \in {"open", "over", "clear"}
  /\ pc = "clear" /\ active # 0 => saved[active] = 0
  /\ \A s \in Step : saved[s] > 0 => s <= step

\* The step in progress, and those that have not begun.
Fresh(s) == s \in Step /\ (s > step \/ s = active)

\* The bus has the last events of a fresh step in order; older ones it forgot.
Older(s) == published[s] - Len(buffer[s])

BufferInv ==
  \A s \in Step : Fresh(s) =>
    /\ Older(s) \in Nat
    /\ \A i \in 1..Len(buffer[s]) : buffer[s][i] = Older(s) + i

\* No event is known that was not published.
NumbersInv ==
  /\ \A s \in Step : \A i \in 1..Len(view[s].live) : view[s].live[i] <= published[s]
  /\ \A i \in 1..Len(pending) : pending[i].n <= published[pending[i].step]
  /\ \A k \in Frames : channel[k].kind = "event" =>
       channel[k].event.n <= published[channel[k].event.step]
  /\ \A k \in Frames : IsSnapshot(k) /\ channel[k].step \in Step =>
       \A i \in 1..Len(channel[k].events) : channel[k].events[i] <= published[channel[k].step]

\* An event of a fresh step is not newer than the cursor, or forgotten.
PastInv ==
  \A s \in Step : Fresh(s) =>
    /\ \A i \in 1..Len(pending) : pending[i].step = s =>
         pending[i].cursor <= cursor \/ pending[i].n <= Older(s)
    /\ \A k \in Frames : IsEvent(k, s) =>
         channel[k].event.cursor <= cursor \/ channel[k].event.n <= Older(s)

\* A tab that is not connected has no socket; nothing is sent after a close.
ClosedInv ==
  /\ mode # "online" => conn = "none" /\ channel = <<>> /\ ~snapped /\ pending = <<>>
  /\ conn = "none" => announced = {}
  /\ \A k \in Frames : channel[k].kind = "close" => k = Len(channel) /\ conn = "none"

\* A connection gets one snapshot, between its setup and what follows.
SnapshotInv ==
  /\ conn \in {"reading", "read"} => ~snapped
  /\ conn \in {"reading", "read"} \/ (conn = "open" /\ snapped) => \A k \in Frames : ~IsSnapshot(k)
  /\ conn = "open" /\ ~snapped => \E k \in Frames : IsSnapshot(k)
  /\ conn = "open" => \A j, k \in Frames : IsSnapshot(j) /\ IsSnapshot(k) => j = k

\* The step is shown as stored, or will be by a frame under way; no snapshot
\* under way takes it back.
Settled(s) ==
  \/ view[s].level > 0 /\ \A k \in Frames : ~(IsSnapshot(k) /\ channel[k].step = s)
  \/ \E k \in Frames : /\ IsCompleted(k, s)
                       /\ \A j \in Frames : j > k => ~(IsSnapshot(j) /\ channel[j].step = s)

\* The steps announced to the socket are over, and settled in its tab.
AnnouncedInv ==
  /\ \A s \in announced : s <= step /\ s # active
  /\ conn # "none" => \A k \in Frames : channel[k].kind = "completed" => channel[k].step \in announced
  /\ \A s \in announced : Settled(s)

\* A stored step after the cursor is announced, read, or in progress.
DeliveredInv ==
  /\ conn = "read" => \A s \in Step :
       /\ rows[s] > 0 => saved[s] > 0
       /\ saved[s] > 0 /\ s > after /\ s # active => s \in announced \/ rows[s] > 0
  /\ conn = "open" => \A s \in Step :
       saved[s] > 0 /\ s > after /\ s # active => s \in announced

\* Of the events after the first b, these are those up to m, in order.
Has(live, b, m) ==
  /\ \A i \in 1..Len(live) : live[i] <= m
  /\ \A i, j \in 1..Len(live) : i < j /\ live[i] > b /\ live[j] > b => live[i] < live[j]
  /\ \A n \in b + 1..m : \E i \in 1..Len(live) : live[i] = n

\* The frames after the first p bring the events of the step after the first
\* m, each once and in order.
Follows(p, s, m) ==
  /\ \A k \in Frames : k > p /\ IsEvent(k, s) => channel[k].event.n \in m + 1..published[s]
  /\ \A j, k \in Frames :
       p < j /\ j < k /\ IsEvent(j, s) /\ IsEvent(k, s) =>
         channel[j].event.n < channel[k].event.n
  /\ \A n \in m + 1..published[s] :
       \E k \in Frames : k > p /\ IsEvent(k, s) /\ channel[k].event.n = n

\* Behind the snapshot: what is shown, and the frames under way.
Live(s) ==
  \E m \in missed[s]..published[s] : Has(view[s].live, missed[s], m) /\ Follows(0, s, m)

LiveInv == conn = "open" /\ snapped => \A s \in Step : Fresh(s) => Live(s)

\* Before it: what the snapshot brings of a step, and the frames after it ...
Brings(p, s) ==
  IF channel[p].step = s
    THEN /\ missed[s] + Len(channel[p].events) <= published[s]
         /\ \A i \in 1..Len(channel[p].events) : channel[p].events[i] = missed[s] + i
         /\ Follows(p, s, missed[s] + Len(channel[p].events))
    ELSE /\ missed[s] <= published[s]
         /\ \A i \in 1..Len(view[s].live) : view[s].live[i] <= missed[s]
         /\ Follows(p, s, missed[s])

\* ... and the events before it are older than the connection or in it.
Skips(p, s) ==
  /\ \A i \in 1..Len(pending) : pending[i].step = s =>
       pending[i].cursor <= channel[p].cursor \/ pending[i].n <= missed[s]
  /\ \A k \in Frames : k < p /\ IsEvent(k, s) =>
       channel[k].event.cursor <= channel[p].cursor \/ channel[k].event.n <= missed[s]

AheadInv ==
  conn = "open" /\ ~snapped =>
    \A p \in Frames : IsSnapshot(p) => \A s \in Step : Fresh(s) => Brings(p, s) /\ Skips(p, s)

\* What is known of events and frames, and what depends on how the run goes on.
DataInv == /\ BufferInv /\ NumbersInv /\ PastInv /\ ClosedInv /\ SnapshotInv /\ AnnouncedInv
           /\ LiveInv /\ AheadInv

IInv == TypeInv /\ BusInv /\ DeliveredInv /\ DataInv

-----------------------------------------------------------------------------
(* How the frames under way change.                                         *)

LEMMA AppendFacts ==
  ASSUME NEW T, NEW c \in Seq(T), NEW f \in T
  PROVE  /\ Append(c, f) \in Seq(T) /\ Len(c) \in Nat
         /\ Len(Append(c, f)) = Len(c) + 1
         /\ \A k \in 1..Len(c) : Append(c, f)[k] = c[k]
         /\ Append(c, f)[Len(c) + 1] = f
OBVIOUS

\* What is sent comes behind the frames under way.
LEMMA SendFacts ==
  ASSUME channel \in Seq(Frame), NEW f \in Frame, Send(f)
  PROVE  /\ channel' \in Seq(Frame) /\ Len(channel) \in Nat
         /\ Len(channel') = Len(channel) + 1
         /\ \A k \in Frames : k \in Frames' /\ channel'[k] = channel[k] /\ k <= Len(channel)
         /\ channel'[Len(channel) + 1] = f
         /\ Len(channel) + 1 \in Frames'
         /\ \A k \in Frames' : k \in Frames \/ k = Len(channel) + 1
<1>1. /\ channel' \in Seq(Frame) /\ Len(channel) \in Nat
      /\ Len(channel') = Len(channel) + 1
      /\ \A k \in 1..Len(channel) : channel'[k] = channel[k]
      /\ channel'[Len(channel) + 1] = f
  BY AppendFacts DEF Send
<1> QED BY <1>1 DEF Frames

\* Two sequences and one more element.
LEMMA ConcatFacts ==
  ASSUME NEW T, NEW c \in Seq(T), NEW d \in Seq(T), NEW f \in T
  PROVE  LET all == (c \o d) \o <<f>>
         IN  /\ all \in Seq(T) /\ Len(c) \in Nat /\ Len(d) \in Nat
             /\ Len(all) = Len(c) + Len(d) + 1
             /\ \A k \in 1..Len(c) : all[k] = c[k]
             /\ \A i \in 1..Len(d) : all[Len(c) + i] = d[i]
             /\ all[Len(c) + Len(d) + 1] = f
<1>1. /\ c \o d \in Seq(T) /\ Len(c) \in Nat /\ Len(d) \in Nat /\ Len(c \o d) = Len(c) + Len(d)
      /\ \A k \in 1..Len(c) : (c \o d)[k] = c[k]
      /\ \A i \in 1..Len(d) : (c \o d)[Len(c) + i] = d[i]
  OBVIOUS
<1> DEFINE cd == c \o d
           all == cd \o <<f>>
<1>2. cd \in Seq(T) /\ Len(cd) \in Nat BY <1>1
<1> HIDE DEF cd
<1>3. /\ all \in Seq(T) /\ Len(all) = Len(cd) + 1
      /\ \A k \in 1..Len(cd) : all[k] = cd[k]
      /\ all[Len(cd) + 1] = f
  BY <1>2
<1> HIDE DEF all
<1>4. \A k \in 1..Len(c) : k \in 1..Len(cd) /\ cd[k] = c[k] BY <1>1 DEF cd
<1>5. \A i \in 1..Len(d) : Len(c) + i \in 1..Len(cd) /\ cd[Len(c) + i] = d[i] BY <1>1 DEF cd
<1>6. Len(cd) = Len(c) + Len(d) BY <1>1 DEF cd
<1> QED BY <1>1, <1>3, <1>4, <1>5, <1>6 DEF all, cd

LEMMA TailFacts ==
  ASSUME NEW T, NEW c \in Seq(T), c # <<>>
  PROVE  /\ Tail(c) \in Seq(T) /\ Len(c) \in Nat \ {0}
         /\ Head(c) = c[1] /\ c[1] \in T
         /\ Len(Tail(c)) = Len(c) - 1
         /\ \A k \in 1..Len(c) - 1 : Tail(c)[k] = c[k + 1] /\ k + 1 \in 1..Len(c)
OBVIOUS

\* The first frame is received, the others move up.
LEMMA ReceiveFacts ==
  ASSUME channel \in Seq(Frame), channel # <<>>, channel' = Tail(channel)
  PROVE  /\ channel' \in Seq(Frame) /\ Len(channel) \in Nat \ {0}
         /\ Len(channel') = Len(channel) - 1
         /\ 1 \in Frames /\ Head(channel) = channel[1] /\ channel[1] \in Frame
         /\ \A k \in Frames' : /\ k \in Nat /\ k > 0 /\ k + 1 \in Frames
                               /\ channel'[k] = channel[k + 1]
         /\ \A k \in Frames : k # 1 => /\ k - 1 \in Frames' /\ k - 1 \in Nat /\ (k - 1) + 1 = k
                                       /\ channel'[k - 1] = channel[k]
<1>1. /\ channel' \in Seq(Frame) /\ Len(channel) \in Nat \ {0}
      /\ Head(channel) = channel[1] /\ channel[1] \in Frame
      /\ Len(channel') = Len(channel) - 1
      /\ \A k \in 1..Len(channel) - 1 : channel'[k] = channel[k + 1] /\ k + 1 \in 1..Len(channel)
  BY TailFacts
<1>2. \A k \in Frames' : k \in 1..Len(channel) - 1 BY <1>1 DEF Frames
<1>3. ASSUME NEW k \in Frames, k # 1
      PROVE  /\ k - 1 \in Frames' /\ k - 1 \in Nat /\ (k - 1) + 1 = k
             /\ channel'[k - 1] = channel[k]
  <2>1. PICK j \in Nat : k = j + 1 /\ j \in 1..Len(channel) - 1 BY <1>1, <1>3 DEF Frames
  <2>2. k - 1 = j BY <2>1
  <2>3. channel'[j] = channel[k] /\ j \in Frames' BY <1>1, <2>1 DEF Frames
  <2> QED BY <2>1, <2>2, <2>3
<1> QED BY <1>1, <1>2, <1>3 DEF Frames

LEMMA ReceiveSettled ==
  ASSUME channel \in Seq(Frame), channel # <<>>, channel' = Tail(channel),
         NEW s, Settled(s), IsCompleted(1, s) => view'[s].level > 0,
         view[s].level > 0 /\ ~(IsSnapshot(1) /\ channel[1].step = s) => view'[s].level > 0
  PROVE  Settled(s)'
<1>1. /\ 1 \in Frames
      /\ \A k \in Frames' : /\ k \in Nat /\ k > 0 /\ k + 1 \in Frames
                            /\ channel'[k] = channel[k + 1]
      /\ \A k \in Frames : k # 1 => /\ k - 1 \in Frames' /\ k - 1 \in Nat /\ (k - 1) + 1 = k
                                    /\ channel'[k - 1] = channel[k]
  BY ReceiveFacts
<1>2. \A j \in Frames' : IsSnapshot(j)' /\ channel'[j].step = s =>
        j + 1 \in Frames /\ IsSnapshot(j + 1) /\ channel[j + 1].step = s
  BY <1>1 DEF IsSnapshot
<1>3. CASE view[s].level > 0 /\ \A k \in Frames : ~(IsSnapshot(k) /\ channel[k].step = s)
  <2>1. \A j \in Frames' : ~(IsSnapshot(j)' /\ channel'[j].step = s) BY <1>1, <1>2, <1>3
  <2> QED BY <1>1, <1>3, <2>1 DEF Settled
<1>4. ASSUME NEW k \in Frames, IsCompleted(k, s),
             \A j \in Frames : j > k => ~(IsSnapshot(j) /\ channel[j].step = s)
      PROVE  Settled(s)'
  <2>1. CASE k = 1
    <3>1. \A j \in Frames' : j + 1 > 1 BY <1>1
    <3>2. \A j \in Frames' : ~(IsSnapshot(j)' /\ channel'[j].step = s) BY <1>1, <1>2, <1>4, <2>1, <3>1
    <3> QED BY <1>4, <2>1, <3>2 DEF Settled
  <2>2. CASE k # 1
    <3>1. PICK i \in Frames' : i + 1 = k /\ channel'[i] = channel[k] BY <1>1, <2>2
    <3>2. IsCompleted(i, s)' BY <1>4, <3>1 DEF IsCompleted
    <3>3. \A j \in Frames' : j > i => j + 1 > k BY <1>1, <3>1
    <3>4. \A j \in Frames' : j > i => ~(IsSnapshot(j)' /\ channel'[j].step = s)
      BY <1>1, <1>2, <1>4, <3>3
    <3> QED BY <3>2, <3>4 DEF Settled
  <2> QED BY <2>1, <2>2
<1> QED BY <1>3, <1>4 DEF Settled

\* A frame at the end that is no event of the step.
LEMMA OtherFollows ==
  ASSUME NEW s, NEW p \in Nat, NEW m \in Nat, Follows(p, s, m), channel \in Seq(Frame),
         NEW f \in Frame, Send(f),
         ~(f.kind = "event" /\ f.event.step = s),
         published'[s] = published[s]
  PROVE  Follows(p, s, m)'
<1>1. /\ Len(channel) \in Nat /\ Len(channel') = Len(channel) + 1
      /\ \A k \in Frames : channel'[k] = channel[k]
      /\ channel'[Len(channel) + 1] = f
  BY AppendFacts DEF Frames, Send
<1>2. \A k \in Frames' : IsEvent(k, s)' => k \in Frames /\ IsEvent(k, s)
  BY <1>1 DEF Frames, IsEvent
<1>3. \A k \in Frames : k \in Frames' /\ (IsEvent(k, s) => IsEvent(k, s)')
  BY <1>1 DEF Frames, IsEvent
<1>4. \A k \in Frames' : k > p /\ IsEvent(k, s)' => channel'[k].event.n \in m + 1..published[s]
  BY <1>1, <1>2 DEF Follows
<1>5. \A j, k \in Frames' :
        p < j /\ j < k /\ IsEvent(j, s)' /\ IsEvent(k, s)' =>
          channel'[j].event.n < channel'[k].event.n
  BY <1>1, <1>2 DEF Follows
<1>6. \A n \in m + 1..published[s] :
        \E k \in Frames' : k > p /\ IsEvent(k, s)' /\ channel'[k].event.n = n
  BY <1>1, <1>3 DEF Follows
<1> QED BY <1>4, <1>5, <1>6 DEF Follows

\* The next event of the step at the end.
LEMMA NextFollows ==
  ASSUME NEW s, NEW p \in Nat, p <= Len(channel), NEW m \in Nat, m <= published[s], published[s] \in Nat,
         Follows(p, s, m), channel \in Seq(Frame),
         NEW f \in Frame, Send(f),
         f.kind = "event", f.event.step = s, f.event.n = published[s] + 1,
         published'[s] = published[s] + 1
  PROVE  Follows(p, s, m)'
<1>1. /\ Len(channel) \in Nat /\ Len(channel') = Len(channel) + 1
      /\ \A k \in Frames : channel'[k] = channel[k]
      /\ channel'[Len(channel) + 1] = f
  BY AppendFacts DEF Frames, Send
<1>2. \A k \in Frames' : k \in Frames \/ k = Len(channel) + 1  BY <1>1 DEF Frames
<1>3. \A k \in Frames : k \in Frames' /\ (IsEvent(k, s)' <=> IsEvent(k, s))
  BY <1>1 DEF Frames, IsEvent
<1>4. ASSUME NEW k \in Frames', k > p, IsEvent(k, s)'
      PROVE  channel'[k].event.n \in m + 1..published[s] + 1
  <2>1. CASE k \in Frames
    <3>1. channel'[k].event.n \in m + 1..published[s] BY <1>1, <1>3, <1>4, <2>1 DEF Follows
    <3> QED BY <3>1
  <2>2. CASE k = Len(channel) + 1 BY <1>1, <2>2
  <2> QED BY <1>2, <2>1, <2>2
<1>5. ASSUME NEW j \in Frames', NEW k \in Frames', p < j, j < k,
             IsEvent(j, s)', IsEvent(k, s)'
      PROVE  channel'[j].event.n < channel'[k].event.n
  <2>1. j \in Frames BY <1>1, <1>2, <1>5 DEF Frames
  <2>2. channel'[j].event.n \in m + 1..published[s] BY <1>1, <1>3, <1>5, <2>1 DEF Follows
  <2>3. CASE k \in Frames BY <1>1, <1>3, <1>5, <2>1, <2>3 DEF Follows
  <2>4. CASE k = Len(channel) + 1 BY <1>1, <2>2, <2>4
  <2> QED BY <1>2, <2>3, <2>4
<1>6. ASSUME NEW n \in m + 1..published[s] + 1
      PROVE  \E k \in Frames' : k > p /\ IsEvent(k, s)' /\ channel'[k].event.n = n
  <2>1. CASE n <= published[s] BY <1>1, <1>3, <2>1 DEF Follows
  <2>2. CASE n = published[s] + 1
    <3>1. PICK k \in Nat : k = Len(channel) + 1 BY <1>1
    <3>2. k \in Frames' /\ k > p /\ channel'[k] = f BY <1>1, <3>1 DEF Frames
    <3>3. IsEvent(k, s)' BY <3>2 DEF IsEvent
    <3> QED BY <2>2, <3>2, <3>3
  <2> QED BY <2>1, <2>2
<1> QED BY <1>4, <1>5, <1>6 DEF Follows

\* The first frame is received, before those that follow a snapshot.
LEMMA TailFollows ==
  ASSUME NEW s, NEW p \in Nat, NEW m \in Nat, Follows(p + 1, s, m), channel \in Seq(Frame),
         channel # <<>>, channel' = Tail(channel),
         published'[s] = published[s]
  PROVE  Follows(p, s, m)'
<1>1. /\ Len(channel) \in Nat \ {0} /\ Len(channel') = Len(channel) - 1
      /\ \A k \in 1..Len(channel) - 1 : channel'[k] = channel[k + 1] /\ k + 1 \in Frames
  BY TailFacts DEF Frames
<1>2. \A k \in Frames' : k \in 1..Len(channel) - 1 BY <1>1 DEF Frames
<1>3. \A k \in Frames' : IsEvent(k, s)' <=> IsEvent(k + 1, s)
  BY <1>1, <1>2 DEF IsEvent
<1>4. \A k \in Frames' : k > p /\ IsEvent(k, s)' => channel'[k].event.n \in m + 1..published[s]
  BY <1>1, <1>2, <1>3 DEF Follows
<1>5. ASSUME NEW j \in Frames', NEW k \in Frames', p < j, j < k,
             IsEvent(j, s)', IsEvent(k, s)'
      PROVE  channel'[j].event.n < channel'[k].event.n
  <2>1. /\ j + 1 \in Frames /\ k + 1 \in Frames /\ p + 1 < j + 1 /\ j + 1 < k + 1
        /\ channel'[j] = channel[j + 1] /\ channel'[k] = channel[k + 1]
    BY <1>1, <1>2, <1>5
  <2>2. IsEvent(j + 1, s) /\ IsEvent(k + 1, s) BY <1>3, <1>5
  <2> QED BY <2>1, <2>2 DEF Follows
<1>6. ASSUME NEW n \in m + 1..published[s]
      PROVE  \E k \in Frames' : k > p /\ IsEvent(k, s)' /\ channel'[k].event.n = n
  <2>1. PICK k \in Frames : k > p + 1 /\ IsEvent(k, s) /\ channel[k].event.n = n
    BY DEF Follows
  <2>2. k - 1 \in Frames' /\ k - 1 > p /\ channel'[k - 1] = channel[k] /\ (k - 1) + 1 = k
    BY <1>1, <2>1 DEF Frames
  <2>3. IsEvent(k - 1, s)' BY <1>3, <2>1, <2>2
  <2> QED BY <2>1, <2>2, <2>3
<1> QED BY <1>4, <1>5, <1>6 DEF Follows

\* The first frame is received behind the snapshot: the next event of the step, or something else.
LEMMA HeadFollows ==
  ASSUME NEW s, NEW m \in Nat, Follows(0, s, m), published[s] \in Nat, channel \in Seq(Frame),
         channel # <<>>
  PROVE  IF IsEvent(1, s) THEN channel[1].event.n = m + 1 /\ Follows(1, s, m + 1)
                               ELSE Follows(1, s, m)
<1>1. Len(channel) \in Nat /\ 1 \in Frames /\ \A k \in Frames : k \in Nat /\ k > 0
  BY DEF Frames
<1>2. CASE IsEvent(1, s)
  <2>1. channel[1].event.n \in m + 1..published[s] BY <1>1, <1>2 DEF Follows
  <2>2. PICK k \in Frames : IsEvent(k, s) /\ channel[k].event.n = m + 1
    <3>1. m + 1 \in m + 1..published[s] BY <2>1
    <3> QED BY <3>1 DEF Follows
  <2>3. k = 1
    <3>1. k > 1 => channel[1].event.n < channel[k].event.n BY <1>1, <1>2, <2>2 DEF Follows
    <3> QED BY <1>1, <2>1, <2>2, <3>1
  <2>4. channel[1].event.n = m + 1 BY <2>2, <2>3
  <2>5. ASSUME NEW i \in Frames, i > 1, IsEvent(i, s)
        PROVE  channel[i].event.n \in (m + 1) + 1..published[s]
    <3>1. channel[i].event.n \in m + 1..published[s] BY <1>1, <2>5 DEF Follows
    <3>2. channel[1].event.n < channel[i].event.n BY <1>1, <1>2, <2>5 DEF Follows
    <3> QED BY <2>4, <3>1, <3>2
  <2>6. \A i, j \in Frames :
          1 < i /\ i < j /\ IsEvent(i, s) /\ IsEvent(j, s) =>
            channel[i].event.n < channel[j].event.n
    BY <1>1 DEF Follows
  <2>7. ASSUME NEW n \in (m + 1) + 1..published[s]
        PROVE  \E i \in Frames : i > 1 /\ IsEvent(i, s) /\ channel[i].event.n = n
    <3>1. PICK i \in Frames : IsEvent(i, s) /\ channel[i].event.n = n
      <4>1. n \in m + 1..published[s] OBVIOUS
      <4> QED BY <4>1 DEF Follows
    <3>2. i # 1 BY <2>4, <3>1
    <3> QED BY <1>1, <3>1, <3>2
  <2> QED BY <1>2, <2>4, <2>5, <2>6, <2>7 DEF Follows
<1>3. CASE ~IsEvent(1, s)
  <2>1. \A i \in Frames : IsEvent(i, s) => i > 1 BY <1>1, <1>3
  <2> QED BY <1>1, <1>3, <2>1 DEF Follows
<1> QED BY <1>2, <1>3

-----------------------------------------------------------------------------
(* What several steps have in common.                                       *)

\* The types of frames under way and of pending events.
LEMMA InFlight ==
  ASSUME TypeInv
  PROVE  /\ Len(channel) \in Nat
         /\ \A k \in Frames :
              /\ k \in Nat /\ k > 0 /\ channel[k] \in Frame
              /\ channel[k].kind \in {"event", "completed", "snapshot", "close"}
              /\ channel[k].kind = "event" =>
                   /\ channel[k].event \in Event /\ channel[k].event.step \in Step
                   /\ channel[k].event.n \in Nat /\ channel[k].event.cursor \in Nat
              /\ channel[k].kind = "completed" =>
                   channel[k].step \in Step /\ channel[k].level \in 1..2
              /\ channel[k].kind = "snapshot" =>
                   /\ channel[k].step \in 0..MaxStep /\ channel[k].events \in Seq(Nat)
                   /\ channel[k].cursor \in Nat
         /\ \A i \in 1..Len(pending) :
              /\ pending[i] \in Event /\ pending[i].step \in Step /\ pending[i].n \in Nat
              /\ pending[i].cursor \in Nat
<1>1. channel \in Seq(Frame) /\ pending \in Seq(Event) BY DEF TypeInv, TypeOK
<1>2. Len(channel) \in Nat /\ \A k \in Frames : k \in Nat /\ k > 0 /\ channel[k] \in Frame
  BY <1>1 DEF Frames
<1>3. \A i \in 1..Len(pending) : pending[i] \in Event BY <1>1
<1>4. \A e \in Event : e.step \in Step /\ e.n \in Nat /\ e.cursor \in Nat BY DEF Event
<1> QED BY <1>2, <1>3, <1>4, FrameParts

\* The types of what is kept for each step.
LEMMA StepTypes ==
  ASSUME TypeInv, NEW s \in Step
  PROVE  /\ s \in Nat /\ s # 0 /\ step \in Nat /\ cursor \in Nat /\ MaxStep \in Nat
         /\ published[s] \in Nat /\ missed[s] \in Nat
         /\ buffer[s] \in Seq(Nat) /\ Len(buffer[s]) \in Nat
         /\ Older(s) \in Int /\ published[s] = Older(s) + Len(buffer[s])
         /\ view[s] \in Shown /\ view[s].live \in Seq(Nat) /\ Len(view[s].live) \in Nat
         /\ \A i \in 1..Len(view[s].live) : view[s].live[i] \in Nat
<1>1. /\ s \in Nat /\ s # 0 /\ step \in Nat /\ cursor \in Nat /\ MaxStep \in Nat
      /\ published[s] \in Nat /\ missed[s] \in Nat /\ buffer[s] \in Seq(Nat) /\ view[s] \in Shown
  BY StreamAssumption DEF TypeInv, TypeOK, Step
<1>2. Len(buffer[s]) \in Nat BY <1>1
<1>3. view[s].live \in Seq(Nat) BY <1>1 DEF Shown
<1>4. Len(view[s].live) \in Nat /\ \A i \in 1..Len(view[s].live) : view[s].live[i] \in Nat
  BY <1>3
<1> QED BY <1>1, <1>2, <1>3, <1>4 DEF Older

\* What is known of the events of the fresh steps does not depend on the rest.
streamVars == <<published, missed, conn, snapped, pending, channel, view>>

LEMMA StreamKept ==
  ASSUME LiveInv, AheadInv, UNCHANGED streamVars,
         \A s \in Step : Fresh(s)' => Fresh(s)
  PROVE  LiveInv' /\ AheadInv'
<1>1. /\ published' = published /\ missed' = missed /\ conn' = conn /\ snapped' = snapped
      /\ pending' = pending /\ channel' = channel /\ view' = view
  BY DEF streamVars
<1>2. \A s, p, m : Follows(p, s, m) => Follows(p, s, m)'
  BY <1>1 DEF Follows, Frames, IsEvent
<1>3. ASSUME NEW s \in Step, Live(s) PROVE Live(s)'
  BY <1>1, <1>2, <1>3 DEF Live
<1>4. ASSUME NEW s \in Step, NEW p \in Frames, Brings(p, s) PROVE Brings(p, s)'
  <2>1. CASE channel[p].step = s
    <3>1. PICK m : m = missed[s] + Len(channel[p].events) OBVIOUS
    <3> QED BY <1>1, <1>2, <1>4, <2>1, <3>1 DEF Brings
  <2>2. CASE channel[p].step # s
    <3>1. PICK m : m = missed[s] OBVIOUS
    <3> QED BY <1>1, <1>2, <1>4, <2>2, <3>1 DEF Brings
  <2> QED BY <2>1, <2>2
<1>5. ASSUME NEW s \in Step, NEW p \in Frames, Skips(p, s) PROVE Skips(p, s)'
  BY <1>1, <1>5 DEF Skips, Frames, IsEvent
<1>6. Frames' = Frames /\ \A p : IsSnapshot(p)' <=> IsSnapshot(p)
  BY <1>1 DEF Frames, IsSnapshot
<1>7. LiveInv' BY <1>1, <1>3 DEF LiveInv
<1>8. AheadInv'
  <2> SUFFICES ASSUME conn = "open", ~snapped, NEW p \in Frames, IsSnapshot(p),
                      NEW s \in Step, Fresh(s)'
               PROVE  Brings(p, s)' /\ Skips(p, s)'
    BY <1>1, <1>6 DEF AheadInv
  <2>1. Brings(p, s) /\ Skips(p, s) BY DEF AheadInv
  <2> QED BY <1>4, <1>5, <2>1
<1> QED BY <1>7, <1>8

\* Frames and the view do not change, and no announced step is begun.
LEMMA SettledKept ==
  ASSUME AnnouncedInv, UNCHANGED <<channel, view, announced, conn>>,
         \A s \in announced : s <= step' /\ s # active'
  PROVE  AnnouncedInv'
<1>1. \A s : Settled(s) => Settled(s)' BY DEF Settled, Frames, IsSnapshot, IsCompleted
<1> QED BY <1>1 DEF AnnouncedInv, Frames

\* A step of the program that has nothing to do with the events.
dataVars == <<step, active, cursor, buffer, announced, mode, streamVars>>

LEMMA DataKept ==
  ASSUME DataInv, UNCHANGED dataVars
  PROVE  DataInv'
<1>1. /\ step' = step /\ active' = active /\ cursor' = cursor /\ buffer' = buffer
      /\ announced' = announced /\ mode' = mode /\ UNCHANGED streamVars
  BY DEF dataVars
<1>2. /\ published' = published /\ missed' = missed /\ conn' = conn /\ snapped' = snapped
      /\ pending' = pending /\ channel' = channel /\ view' = view
  BY <1>1 DEF streamVars
<1>3. \A s \in Step : (Fresh(s)' <=> Fresh(s)) /\ Older(s)' = Older(s) BY <1>1, <1>2 DEF Fresh, Older
<1>4. LiveInv' /\ AheadInv' BY <1>1, <1>3, StreamKept DEF DataInv
<1>5. BufferInv' BY <1>1, <1>3 DEF DataInv, BufferInv
<1>6. NumbersInv' BY <1>2 DEF DataInv, NumbersInv, Frames, IsSnapshot
<1>7. PastInv' BY <1>1, <1>2, <1>3 DEF DataInv, PastInv, Frames, IsEvent
<1>8. ClosedInv' /\ SnapshotInv'
  BY <1>1, <1>2 DEF DataInv, ClosedInv, SnapshotInv, Frames, IsSnapshot
<1>9. AnnouncedInv' BY <1>1, <1>2, SettledKept DEF DataInv, AnnouncedInv
<1> QED BY <1>4, <1>5, <1>6, <1>7, <1>8, <1>9 DEF DataInv

\* Events a process publishes: the next of their step, in the buffer and as
\* the last frame.
emitKeeps == <<step, active, conn, announced, missed, view, pending, snapped, mode>>

LEMMA EmitFacts ==
  ASSUME TypeInv, NEW s \in Step, Emit(s)
  PROVE  /\ published' \in [Step -> Nat] /\ cursor' \in Nat /\ buffer' \in [Step -> Seq(Nat)]
         /\ cursor' = cursor + 1 /\ published'[s] = published[s] + 1
         /\ Len(buffer[s]) \in Nat /\ Len(buffer'[s]) = Len(buffer[s]) + 1
         /\ \A i \in 1..Len(buffer[s]) : buffer'[s][i] = buffer[s][i]
         /\ buffer'[s][Len(buffer[s]) + 1] = published[s] + 1
         /\ \A t \in Step : t # s => published'[t] = published[t] /\ buffer'[t] = buffer[t]
<1>1. /\ published \in [Step -> Nat] /\ cursor \in Nat /\ buffer \in [Step -> Seq(Nat)]
  BY DEF TypeInv, TypeOK
<1>2. /\ published' = [published EXCEPT ![s] = @ + 1] /\ cursor' = cursor + 1
      /\ buffer' = [buffer EXCEPT ![s] = Append(@, published[s] + 1)]
  BY DEF Emit
<1>3. published[s] + 1 \in Nat /\ buffer[s] \in Seq(Nat) BY <1>1
<1>4. /\ Append(buffer[s], published[s] + 1) \in Seq(Nat) /\ Len(buffer[s]) \in Nat
      /\ Len(Append(buffer[s], published[s] + 1)) = Len(buffer[s]) + 1
      /\ \A i \in 1..Len(buffer[s]) : Append(buffer[s], published[s] + 1)[i] = buffer[s][i]
      /\ Append(buffer[s], published[s] + 1)[Len(buffer[s]) + 1] = published[s] + 1
  BY <1>3, AppendFacts
<1> QED BY <1>1, <1>2, <1>3, <1>4

\* The frame, if there is a socket.
LEMMA EmitFrame ==
  ASSUME TypeInv, NEW s \in Step, Emit(s)
  PROVE  \E f \in Frame :
           /\ f.kind = "event" /\ f.event.step = s /\ f.event.n = published[s] + 1
           /\ f.event.cursor = cursor + 1
           /\ IF conn # "none" THEN Send(f) ELSE channel' = channel
<1> DEFINE e == [step |-> s, n |-> published[s] + 1, cursor |-> cursor + 1]
<1>1. e \in Event BY StepTypes DEF Event
<1>2. e.step = s /\ e.n = published[s] + 1 /\ e.cursor = cursor + 1 OBVIOUS
<1>3. IF conn # "none" THEN Send(EventFrame(e)) ELSE channel' = channel
  BY DEF Emit, Subscribed
<1> HIDE DEF e
<1>4. EventFrame(e) \in Frame BY <1>1, FramesAreFrames
<1>5. EventFrame(e).kind = "event" /\ EventFrame(e).event = e BY DEF EventFrame
<1> QED BY <1>2, <1>3, <1>4, <1>5

LEMMA EmitData ==
  ASSUME TypeInv, DataInv, NEW s \in Step, Emit(s), UNCHANGED emitKeeps
  PROVE  channel' \in Seq(Frame) /\ DataInv'
<1>0. /\ BufferInv /\ NumbersInv /\ PastInv /\ ClosedInv /\ SnapshotInv /\ AnnouncedInv
      /\ LiveInv /\ AheadInv
  BY DEF DataInv
<1>1. /\ step' = step /\ active' = active /\ conn' = conn /\ announced' = announced
      /\ missed' = missed /\ view' = view /\ pending' = pending /\ snapped' = snapped
      /\ mode' = mode
  BY DEF emitKeeps
<1>2. /\ cursor' = cursor + 1 /\ published'[s] = published[s] + 1
      /\ Len(buffer[s]) \in Nat /\ Len(buffer'[s]) = Len(buffer[s]) + 1
      /\ \A i \in 1..Len(buffer[s]) : buffer'[s][i] = buffer[s][i]
      /\ buffer'[s][Len(buffer[s]) + 1] = published[s] + 1
      /\ \A t \in Step : t # s => published'[t] = published[t] /\ buffer'[t] = buffer[t]
  BY EmitFacts
<1>3. PICK f \in Frame :
        /\ f.kind = "event" /\ f.event.step = s /\ f.event.n = published[s] + 1
        /\ f.event.cursor = cursor + 1
        /\ IF conn # "none" THEN Send(f) ELSE channel' = channel
  BY EmitFrame
<1>4. /\ channel \in Seq(Frame) /\ cursor \in Nat /\ Len(channel) \in Nat
      /\ \A t \in Step : published[t] \in Nat /\ Older(t) \in Int /\ missed[t] \in Nat
                         /\ published[t] = Older(t) + Len(buffer[t])
  BY StepTypes, InFlight DEF TypeInv, TypeOK
<1>5. \A t \in Step : /\ Fresh(t)' <=> Fresh(t)
                      /\ Older(t)' = Older(t)
                      /\ published'[t] \in Nat /\ published[t] <= published'[t]
  <2>1. \A t \in Step : Fresh(t)' <=> Fresh(t) BY <1>1 DEF Fresh
  <2>2. ASSUME NEW t \in Step
        PROVE  Older(t)' = Older(t) /\ published'[t] \in Nat /\ published[t] <= published'[t]
    <3>1. CASE t = s
      <4>1. published'[t] = published[t] + 1 /\ Len(buffer'[t]) = Len(buffer[t]) + 1
        BY <1>2, <3>1
      <4>2. published[t] \in Nat /\ Len(buffer[t]) \in Nat BY <1>2, <1>4, <3>1
      <4> QED BY <4>1, <4>2 DEF Older
    <3>2. CASE t # s BY <1>2, <1>4, <3>2 DEF Older
    <3> QED BY <3>1, <3>2
  <2> QED BY <2>1, <2>2
<1>6. /\ channel' \in Seq(Frame)
      /\ \A k \in Frames : /\ k \in Frames' /\ k \in Nat /\ channel'[k] = channel[k]
                           /\ k <= Len(channel)
  <2>1. \A k \in Frames : k \in Nat /\ k <= Len(channel) BY <1>4 DEF Frames
  <2>2. CASE conn = "none" BY <1>3, <1>4, <2>1, <2>2 DEF Frames
  <2>3. CASE conn # "none"
    <3>1. Send(f) BY <1>3, <2>3
    <3> QED BY <1>4, <2>1, <3>1, SendFacts
  <2> QED BY <2>2, <2>3
<1>7. ASSUME NEW k \in Frames', k \notin Frames
      PROVE  /\ conn # "none" /\ k = Len(channel) + 1 /\ channel'[k] = f
  BY <1>3, <1>4, <1>7, SendFacts DEF Frames
<1>8. /\ \A k \in Frames' : channel'[k].kind # "event" => k \in Frames
      /\ \A k \in Frames' : IsSnapshot(k)' => k \in Frames /\ IsSnapshot(k)
      /\ \A k \in Frames : IsSnapshot(k) => IsSnapshot(k)'
  BY <1>3, <1>6, <1>7 DEF IsSnapshot
<1>9. ASSUME NEW t \in Step, NEW p \in Nat, p <= Len(channel), NEW m \in Nat,
             m <= published[t], Follows(p, t, m), conn # "none"
      PROVE  Follows(p, t, m)'
  <2>1. Send(f) BY <1>3, <1>9
  <2>2. CASE t = s BY <1>2, <1>3, <1>4, <1>9, <2>1, <2>2, NextFollows
  <2>3. CASE t # s BY <1>2, <1>3, <1>4, <1>9, <2>1, <2>3, OtherFollows
  <2> QED BY <2>2, <2>3
<1>51. BufferInv'
  <2> SUFFICES ASSUME NEW t \in Step, Fresh(t)'
               PROVE  /\ Older(t)' \in Nat
                      /\ \A i \in 1..Len(buffer'[t]) : buffer'[t][i] = Older(t)' + i
    BY DEF BufferInv
  <2>1. Older(t) \in Nat /\ \A i \in 1..Len(buffer[t]) : buffer[t][i] = Older(t) + i
    BY <1>0, <1>5 DEF BufferInv
  <2>2. CASE t # s BY <1>2, <1>5, <2>1, <2>2
  <2>3. CASE t = s
    <3>1. \A i \in 1..Len(buffer'[s]) : i \in 1..Len(buffer[s]) \/ i = Len(buffer[s]) + 1
      BY <1>2
    <3>2. published[s] + 1 = Older(s) + (Len(buffer[s]) + 1) BY <1>2, <1>4
    <3> QED BY <1>2, <1>5, <2>1, <2>3, <3>1, <3>2
  <2> QED BY <2>2, <2>3
<1>52. NumbersInv'
  <2>1. ASSUME NEW t \in Step, NEW i \in 1..Len(view[t].live)
        PROVE  view[t].live[i] <= published'[t]
    <3>1. view[t].live[i] \in Nat BY StepTypes
    <3>2. view[t].live[i] <= published[t] BY <1>0 DEF NumbersInv
    <3> QED BY <1>4, <1>5, <3>1, <3>2
  <2>2. ASSUME NEW i \in 1..Len(pending) PROVE pending[i].n <= published'[pending[i].step]
    <3>1. pending[i].step \in Step /\ pending[i].n \in Nat BY InFlight
    <3>2. pending[i].n <= published[pending[i].step] BY <1>0 DEF NumbersInv
    <3> QED BY <1>4, <1>5, <3>1, <3>2
  <2>3. ASSUME NEW k \in Frames', channel'[k].kind = "event"
        PROVE  channel'[k].event.n <= published'[channel'[k].event.step]
    <3>1. CASE k \in Frames
      <4>1. channel'[k] = channel[k] BY <1>6, <3>1
      <4>2. channel[k].event.step \in Step /\ channel[k].event.n \in Nat
        BY <2>3, <3>1, <4>1, InFlight
      <4>3. channel[k].event.n <= published[channel[k].event.step]
        BY <1>0, <2>3, <3>1, <4>1 DEF NumbersInv
      <4> QED BY <1>4, <1>5, <4>1, <4>2, <4>3
    <3>2. CASE k \notin Frames BY <1>2, <1>3, <1>4, <1>7, <3>2
    <3> QED BY <3>1, <3>2
  <2>4. ASSUME NEW k \in Frames', IsSnapshot(k)', channel'[k].step \in Step,
               NEW i \in 1..Len(channel'[k].events)
        PROVE  channel'[k].events[i] <= published'[channel'[k].step]
    <3>1. k \in Frames /\ IsSnapshot(k) /\ channel'[k] = channel[k] BY <1>6, <1>8, <2>4
    <3>2. channel[k].events[i] <= published[channel[k].step] BY <1>0, <2>4, <3>1 DEF NumbersInv
    <3>3. channel[k].events[i] \in Nat
      <4>1. channel[k].events \in Seq(Nat) BY <3>1, InFlight DEF IsSnapshot
      <4> QED BY <2>4, <3>1, <4>1
    <3> QED BY <1>4, <1>5, <2>4, <3>1, <3>2, <3>3
  <2> QED BY <1>1, <2>1, <2>2, <2>3, <2>4 DEF NumbersInv
<1>53. PastInv'
  <2> SUFFICES ASSUME NEW t \in Step, Fresh(t)'
               PROVE  /\ \A i \in 1..Len(pending) : pending[i].step = t =>
                           pending[i].cursor <= cursor' \/ pending[i].n <= Older(t)'
                      /\ \A k \in Frames' : IsEvent(k, t)' =>
                           \/ channel'[k].event.cursor <= cursor'
                           \/ channel'[k].event.n <= Older(t)'
    BY <1>1 DEF PastInv
  <2>1. Fresh(t) /\ Older(t)' = Older(t) BY <1>5
  <2>2. ASSUME NEW i \in 1..Len(pending), pending[i].step = t
        PROVE  pending[i].cursor <= cursor' \/ pending[i].n <= Older(t)'
    <3>1. pending[i].cursor \in Nat BY InFlight
    <3>2. pending[i].cursor <= cursor \/ pending[i].n <= Older(t) BY <1>0, <2>1, <2>2 DEF PastInv
    <3> QED BY <1>2, <1>4, <2>1, <3>1, <3>2
  <2>3. ASSUME NEW k \in Frames', IsEvent(k, t)'
        PROVE  channel'[k].event.cursor <= cursor' \/ channel'[k].event.n <= Older(t)'
    <3>1. CASE k \in Frames
      <4>1. channel'[k] = channel[k] /\ IsEvent(k, t) BY <1>6, <2>3, <3>1 DEF IsEvent
      <4>2. channel[k].event.cursor \in Nat BY <3>1, <4>1, InFlight DEF IsEvent
      <4>3. channel[k].event.cursor <= cursor \/ channel[k].event.n <= Older(t)
        BY <1>0, <2>1, <3>1, <4>1 DEF PastInv
      <4> QED BY <1>2, <1>4, <2>1, <4>1, <4>2, <4>3
    <3>2. CASE k \notin Frames BY <1>2, <1>3, <1>4, <1>7, <3>2
    <3> QED BY <3>1, <3>2
  <2> QED BY <2>2, <2>3
<1>54. ClosedInv'
  <2>1. mode # "online" => channel' = channel BY <1>0, <1>3 DEF ClosedInv
  <2>2. ASSUME NEW k \in Frames', channel'[k].kind = "close"
        PROVE  k = Len(channel') /\ conn = "none"
    <3>1. k \in Frames BY <1>8, <2>2
    <3>2. conn = "none" /\ k = Len(channel) BY <1>0, <1>6, <2>2, <3>1 DEF ClosedInv
    <3>3. channel' = channel BY <1>3, <3>2
    <3> QED BY <3>2, <3>3
  <2> QED BY <1>0, <1>1, <2>1, <2>2 DEF ClosedInv
<1>55. SnapshotInv'
  BY <1>0, <1>1, <1>6, <1>8 DEF SnapshotInv
<1>56. AnnouncedInv'
  <2>1. \A k \in Frames' : channel'[k].kind = "completed" => k \in Frames BY <1>8
  <2>2. ASSUME NEW t \in announced PROVE Settled(t)'
    <3>1. Settled(t) BY <1>0 DEF AnnouncedInv
    <3> QED BY <1>1, <1>6, <1>8, <3>1 DEF Settled, IsCompleted
  <2> QED BY <1>0, <1>1, <1>6, <2>1, <2>2 DEF AnnouncedInv
<1>57. LiveInv'
  <2> SUFFICES ASSUME conn = "open", snapped, NEW t \in Step, Fresh(t)' PROVE Live(t)'
    BY <1>1 DEF LiveInv
  <2>1. Live(t) BY <1>0, <1>5 DEF LiveInv
  <2>2. PICK m \in missed[t]..published[t] : Has(view[t].live, missed[t], m) /\ Follows(0, t, m)
    BY <2>1 DEF Live
  <2>3. m \in Nat /\ m <= published[t] /\ m \in missed[t]..published'[t] BY <1>2, <1>4, <2>2
  <2>4. Follows(0, t, m)' BY <1>4, <1>9, <2>2, <2>3
  <2> QED BY <1>1, <2>2, <2>3, <2>4 DEF Live, Has
<1>58. AheadInv'
  <2> SUFFICES ASSUME conn = "open", ~snapped, NEW p \in Frames', IsSnapshot(p)',
                      NEW t \in Step, Fresh(t)'
               PROVE  Brings(p, t)' /\ Skips(p, t)'
    BY <1>1 DEF AheadInv
  <2>1. p \in Frames /\ IsSnapshot(p) /\ channel'[p] = channel[p] /\ p \in Nat /\ p <= Len(channel)
    BY <1>6, <1>8
  <2>2. Brings(p, t) /\ Skips(p, t) BY <1>0, <1>5, <2>1 DEF AheadInv
  <2>3. Brings(p, t)'
    <3>1. CASE channel[p].step = t
      <4>1. Len(channel[p].events) \in Nat
        <5>1. channel[p].events \in Seq(Nat) BY <2>1, InFlight DEF IsSnapshot
        <5> QED BY <5>1
      <4>2. PICK m \in Nat : m = missed[t] + Len(channel[p].events) BY <1>4, <4>1
      <4>3. m <= published[t] /\ Follows(p, t, m) BY <2>2, <3>1, <4>2 DEF Brings
      <4>4. Follows(p, t, m)' BY <1>9, <2>1, <4>3
      <4>5. m <= published'[t] BY <1>2, <1>4, <4>3
      <4> QED BY <1>1, <2>1, <2>2, <3>1, <4>2, <4>4, <4>5 DEF Brings
    <3>2. CASE channel[p].step # t
      <4>1. PICK m \in Nat : m = missed[t] BY <1>4
      <4>2. m <= published[t] /\ Follows(p, t, m) BY <2>2, <3>2, <4>1 DEF Brings
      <4>3. Follows(p, t, m)' BY <1>9, <2>1, <4>2
      <4>4. m <= published'[t] BY <1>2, <1>4, <4>2
      <4> QED BY <1>1, <2>1, <2>2, <3>2, <4>1, <4>3, <4>4 DEF Brings
    <3> QED BY <3>1, <3>2
  <2>4. Skips(p, t)'
    <3>1. ASSUME NEW k \in Frames', k < p, IsEvent(k, t)'
          PROVE  k \in Frames /\ IsEvent(k, t) /\ channel'[k] = channel[k]
      <4>1. k \in Frames BY <1>4, <1>7, <2>1, <3>1
      <4> QED BY <1>6, <3>1, <4>1 DEF IsEvent
    <3> QED BY <1>1, <2>1, <2>2, <3>1 DEF Skips
  <2> QED BY <2>3, <2>4
<1> QED BY <1>6, <1>51, <1>52, <1>53, <1>54, <1>55, <1>56, <1>57, <1>58 DEF DataInv

\* The same for an event of the next step, if the bound has one.
LEMMA EmitAheadData ==
  ASSUME TypeInv, DataInv, EmitAhead, UNCHANGED emitKeeps
  PROVE  /\ published' \in [Step -> Nat] /\ cursor' \in Nat /\ buffer' \in [Step -> Seq(Nat)]
         /\ channel' \in Seq(Frame) /\ DataInv'
<1>1. CASE step < MaxStep
  <2>1. step \in 0..MaxStep /\ MaxStep \in Nat BY StreamAssumption DEF TypeInv, TypeOK
  <2>2. PICK s \in Step : s = step + 1 BY <1>1, <2>1 DEF Step
  <2>3. Emit(s) BY <1>1, <2>2 DEF EmitAhead
  <2> QED BY <2>3, EmitFacts, EmitData
<1>2. CASE ~(step < MaxStep)
  <2>1. UNCHANGED <<published, cursor, buffer, channel>> BY <1>2 DEF EmitAhead
  <2>2. UNCHANGED dataVars BY <2>1 DEF dataVars, streamVars, emitKeeps
  <2>3. DataInv' BY <2>2, DataKept
  <2> QED BY <2>1, <2>3 DEF TypeInv, TypeOK
<1> QED BY <1>1, <1>2

-----------------------------------------------------------------------------
(* Every step preserves the invariant: the executor.                        *)

\* A step begins: the bus has what was published ahead of it.
LEMMA BeginStep == ASSUME IInv, Begin PROVE IInv'
<1>0. TypeInv /\ BusInv /\ DeliveredInv /\ DataInv BY DEF IInv
<1>1. /\ pc = "between" /\ step < MaxStep
      /\ step' = step + 1 /\ pc' = "open" /\ active' = step + 1
      /\ buffer' = [s \in Step |-> IF s > step THEN buffer[s] ELSE <<>>]
      /\ status' = status /\ saved' = saved /\ cursor' = cursor /\ published' = published
      /\ since' = since /\ conn' = conn
      /\ after' = after /\ rows' = rows /\ announced' = announced /\ checks' = checks
      /\ channel' = channel /\ mode' = mode /\ snapped' = snapped /\ pending' = pending
      /\ view' = view /\ through' = through /\ missed' = missed /\ quiet' = quiet
      /\ faults' = faults
  BY DEF Begin, dbVars, connVars, tabVars, connHistory
<1>2. /\ step \in Nat /\ step + 1 \in Step /\ active = 0 /\ MaxStep \in Nat /\ since \in 0..step
  BY <1>0, <1>1, StreamAssumption DEF TypeInv, TypeOK, BusInv, Step
<1>3. \A s \in Step : s \in Nat /\ s # 0 BY DEF Step
<1>4. \A s \in Step : Fresh(s)' => Fresh(s) /\ s > step BY <1>1, <1>2, <1>3 DEF Fresh
<1>5. \A s \in Step : s > step => buffer'[s] = buffer[s] /\ Older(s)' = Older(s)
  BY <1>1 DEF Older
<1>51. TypeInv'
  <2>1. step' \in 0..MaxStep /\ active' \in {0, step'} /\ since' \in 0..step'
    BY <1>1, <1>2 DEF Step
  <2>2. buffer' \in [Step -> Seq(Nat)]
    <3>1. buffer \in [Step -> Seq(Nat)] BY <1>0 DEF TypeInv, TypeOK
    <3> QED BY <1>1, <3>1
  <2>3. pc' \in ExecutorState BY <1>1 DEF ExecutorState
  <2> QED BY <1>0, <1>1, <2>1, <2>2, <2>3 DEF TypeInv, TypeOK
<1>52. BusInv'
  BY <1>0, <1>1, <1>2, <1>3 DEF BusInv
<1>53. DeliveredInv'
  BY <1>0, <1>1, <1>2, <1>3 DEF DeliveredInv
<1>54. BufferInv'
  BY <1>0, <1>4, <1>5 DEF DataInv, BufferInv
<1>55. NumbersInv'
  BY <1>0, <1>1 DEF DataInv, NumbersInv, Frames, IsSnapshot
<1>56. PastInv'
  BY <1>0, <1>1, <1>4, <1>5 DEF DataInv, PastInv, Frames, IsEvent
<1>57. ClosedInv' /\ SnapshotInv'
  BY <1>0, <1>1 DEF DataInv, ClosedInv, Frames, SnapshotInv, IsSnapshot
<1>58. AnnouncedInv'
  <2>1. announced \subseteq Step BY <1>0 DEF TypeInv, TypeOK
  <2>2. \A s \in announced : s <= step' /\ s # active'
    BY <1>0, <1>1, <1>2, <1>3, <2>1 DEF DataInv, AnnouncedInv
  <2> QED BY <1>0, <1>1, <2>2, SettledKept DEF DataInv
<1>59. LiveInv' /\ AheadInv'
  BY <1>0, <1>1, <1>4, StreamKept DEF DataInv, streamVars
<1> QED BY <1>51, <1>52, <1>53, <1>54, <1>55, <1>56, <1>57, <1>58, <1>59 DEF IInv, DataInv

\* An event of a step that has begun.
LEMMA PublishStep == ASSUME IInv, NEW s \in Step, Publish(s) PROVE IInv'
<1>0. TypeInv /\ BusInv /\ DeliveredInv /\ DataInv BY DEF IInv
<1>1. /\ status' = status /\ saved' = saved /\ pc' = pc /\ step' = step /\ since' = since
      /\ active' = active /\ conn' = conn /\ after' = after /\ rows' = rows
      /\ announced' = announced /\ checks' = checks /\ mode' = mode /\ snapped' = snapped
      /\ pending' = pending /\ view' = view /\ through' = through /\ missed' = missed
      /\ quiet' = quiet /\ faults' = faults
  BY DEF Publish, dbVars, connVars, tabVars, connHistory
<1>2. Emit(s) BY DEF Publish
<1>3. UNCHANGED emitKeeps BY <1>1 DEF emitKeeps
<1>4. /\ published' \in [Step -> Nat] /\ cursor' \in Nat /\ buffer' \in [Step -> Seq(Nat)]
      /\ channel' \in Seq(Frame) /\ DataInv'
  BY <1>0, <1>2, <1>3, EmitFacts, EmitData
<1>51. TypeInv' BY <1>0, <1>1, <1>4 DEF TypeInv, TypeOK
<1>52. BusInv' BY <1>0, <1>1 DEF BusInv
<1>53. DeliveredInv' BY <1>0, <1>1 DEF DeliveredInv
<1> QED BY <1>4, <1>51, <1>52, <1>53 DEF IInv

\* The step in progress gets a result.
LEMMA SaveStep == ASSUME IInv, Save PROVE IInv'
<1>0. TypeInv /\ BusInv /\ DeliveredInv /\ DataInv BY DEF IInv
<1>1. /\ pc = "open" /\ saved[step] < 2
      /\ \E level \in (saved[step] + 1)..2 : saved' = [saved EXCEPT ![step] = level]
      /\ status' = status /\ pc' = pc /\ step' = step /\ published' = published
      /\ since' = since
      /\ active' = active /\ cursor' = cursor /\ buffer' = buffer /\ conn' = conn
      /\ after' = after /\ rows' = rows /\ announced' = announced /\ checks' = checks
      /\ channel' = channel /\ mode' = mode /\ snapped' = snapped /\ pending' = pending
      /\ view' = view /\ through' = through /\ missed' = missed /\ quiet' = quiet
      /\ faults' = faults
  BY DEF Save, execVars, busVars, connVars, tabVars, connHistory
<1>2. active = step /\ step \in Step /\ step # 0
  BY <1>0, <1>1 DEF TypeInv, TypeOK, BusInv, Step
<1>3. saved \in [Step -> 0..2] BY <1>0 DEF TypeInv, TypeOK
<1>4. /\ saved' \in [Step -> 0..2] /\ saved'[step] > 0
      /\ \A s \in Step : s # step => saved'[s] = saved[s]
  BY <1>1, <1>2, <1>3
<1>51. TypeInv'
  BY <1>0, <1>1, <1>4 DEF TypeInv, TypeOK
<1>52. BusInv'
  <2>1. \A s \in Step : saved'[s] > 0 => s <= step BY <1>0, <1>2, <1>4 DEF BusInv, Step
  <2> QED BY <1>0, <1>1, <2>1 DEF BusInv
<1>53. DeliveredInv'
  BY <1>0, <1>1, <1>2, <1>4 DEF DeliveredInv
<1>54. DataInv'
  BY <1>0, <1>1, DataKept DEF dataVars, streamVars
<1> QED BY <1>51, <1>52, <1>53, <1>54 DEF IInv

\* The step in progress is over: a socket is told so, as the last frame.
LEMMA StepOver ==
  ASSUME IInv, PublishStepCompleted,
         UNCHANGED <<saved, step, published, cursor, buffer, conn, after, rows, tabVars, missed>>
  PROVE  /\ channel' \in Seq(Frame) /\ announced' \subseteq Step
         /\ active' \in {0, step} /\ (active' # 0 => active' = active /\ saved[active] = 0)
         /\ step # 0 /\ saved[step] # 0 => active' = 0
         /\ DeliveredInv' /\ DataInv'
<1>0. /\ TypeInv /\ DeliveredInv /\ DataInv
      /\ BufferInv /\ NumbersInv /\ PastInv /\ ClosedInv /\ SnapshotInv /\ AnnouncedInv
      /\ LiveInv /\ AheadInv
  BY DEF IInv, DataInv
<1>1. /\ saved' = saved /\ step' = step /\ published' = published /\ cursor' = cursor
      /\ buffer' = buffer /\ conn' = conn /\ after' = after /\ rows' = rows
      /\ mode' = mode /\ snapped' = snapped /\ pending' = pending /\ view' = view
      /\ through' = through /\ missed' = missed
  BY DEF tabVars
<1>2. /\ channel \in Seq(Frame) /\ announced \subseteq Step /\ active \in {0, step}
      /\ saved \in [Step -> 0..2] /\ step \in 0..MaxStep /\ MaxStep \in Nat /\ cursor \in Nat
  BY <1>0, StreamAssumption DEF TypeInv, TypeOK
<1>3. CASE step = 0 \/ saved[step] = 0
  <2>1. active' = active /\ announced' = announced /\ channel' = channel
    BY <1>3 DEF PublishStepCompleted
  <2>2. active # 0 => saved[active] = 0 BY <1>2, <1>3
  <2>3. DataInv' BY <1>0, <1>1, <2>1, DataKept DEF dataVars, streamVars
  <2>4. DeliveredInv' BY <1>0, <1>1, <2>1 DEF DeliveredInv
  <2> QED BY <1>2, <1>3, <2>1, <2>2, <2>3, <2>4
<1>4. CASE ~(step = 0 \/ saved[step] = 0)
  <2>1. step \in Step /\ step # 0 /\ saved[step] \in 1..2 BY <1>2, <1>4 DEF Step
  <2>2. active' = 0 BY <1>4 DEF PublishStepCompleted
  <2>3. \A s \in Step : s # 0 BY DEF Step
  <2>4. \A s \in Step : Fresh(s)' => Fresh(s) BY <1>1, <2>2, <2>3 DEF Fresh
  <2>5. \A s : Older(s)' = Older(s) BY <1>1 DEF Older
  <2>6. CASE conn = "none"
    <3>1. announced' = announced /\ channel' = channel
      BY <1>4, <2>6 DEF PublishStepCompleted, Subscribed
    <3>2. ClosedInv' /\ SnapshotInv' /\ DeliveredInv' /\ NumbersInv'
      BY <1>0, <1>1, <2>6, <3>1
      DEF ClosedInv, SnapshotInv, DeliveredInv, NumbersInv, Frames, IsSnapshot
    <3>3. AnnouncedInv'
      BY <1>0, <1>1, <1>2, <2>2, <2>3, <2>6, <3>1
      DEF AnnouncedInv, Settled, Frames, IsSnapshot, IsCompleted
    <3>4. LiveInv' /\ AheadInv' BY <1>0, <1>1, <2>4, <3>1, StreamKept DEF streamVars
    <3>5. BufferInv' /\ PastInv'
      BY <1>0, <1>1, <2>4, <2>5, <3>1 DEF BufferInv, PastInv, Frames, IsEvent
    <3> QED BY <1>2, <1>4, <2>2, <3>1, <3>2, <3>3, <3>4, <3>5 DEF DataInv
  <2>7. CASE conn # "none"
    <3>1. PICK f \in Frame : f.kind = "completed" /\ f.step = step /\ Send(f)
      <4>1. Send(CompletedFrame(step, saved[step]))
        BY <1>4, <2>7 DEF PublishStepCompleted, Subscribed
      <4>2. CompletedFrame(step, saved[step]) \in Frame BY <2>1, FramesAreFrames
      <4>3. /\ CompletedFrame(step, saved[step]).kind = "completed"
            /\ CompletedFrame(step, saved[step]).step = step
        BY DEF CompletedFrame
      <4> QED BY <4>1, <4>2, <4>3, Zenon
    <3>2. announced' = announced \cup {step}
      BY <1>4, <2>7 DEF PublishStepCompleted, Subscribed
    <3>3. /\ channel' \in Seq(Frame) /\ Len(channel) \in Nat
          /\ Len(channel') = Len(channel) + 1
          /\ \A k \in Frames : k \in Frames' /\ channel'[k] = channel[k] /\ k <= Len(channel)
          /\ channel'[Len(channel) + 1] = f
          /\ Len(channel) + 1 \in Frames'
          /\ \A k \in Frames' : k \in Frames \/ k = Len(channel) + 1
      BY <1>2, <3>1, SendFacts
    <3>4. PICK last \in Frames' : last = Len(channel) + 1 /\ channel'[last] = f
      BY <3>3
    <3>5. \A k \in Frames' : k \in Frames \/ k = last BY <3>3, <3>4
    <3>6. \A k \in Frames : k \in Frames' /\ channel'[k] = channel[k] BY <3>3
    <3>7. \A k \in Frames' : IsSnapshot(k)' => k \in Frames /\ IsSnapshot(k)
      BY <3>1, <3>4, <3>5, <3>6 DEF IsSnapshot
    <3>8. \A k \in Frames : IsSnapshot(k) => IsSnapshot(k)' BY <3>6 DEF IsSnapshot
    <3>81. \A s \in Step, k \in Frames' : IsEvent(k, s)' => k \in Frames /\ IsEvent(k, s)
      BY <3>1, <3>4, <3>5, <3>6 DEF IsEvent
    <3>9. ClosedInv'
      <4>1. mode = "online" BY <1>0, <2>7 DEF ClosedInv
      <4>2. \A k \in Frames' : channel'[k].kind # "close"
        BY <1>0, <2>7, <3>1, <3>4, <3>5, <3>6 DEF ClosedInv
      <4> QED BY <1>1, <2>7, <4>1, <4>2 DEF ClosedInv
    <3>10. SnapshotInv' BY <1>0, <1>1, <3>6, <3>7, <3>8 DEF SnapshotInv
    <3>11. AnnouncedInv'
      <4>1. \A s \in announced' : s <= step /\ s # 0
        BY <1>0, <1>2, <2>1, <2>3, <3>2 DEF AnnouncedInv
      <4>2. \A k \in Frames' : channel'[k].kind = "completed" => channel'[k].step \in announced'
        BY <1>0, <2>7, <3>1, <3>2, <3>4, <3>5, <3>6 DEF AnnouncedInv
      <4>3. ASSUME NEW s \in announced PROVE Settled(s)'
        <5>1. Settled(s) BY <1>0 DEF AnnouncedInv
        <5> QED BY <1>1, <3>6, <3>7, <5>1 DEF Settled, IsCompleted
      <4>4. ASSUME NEW s \in Step, s = step PROVE Settled(s)'
        <5>1. IsCompleted(last, s)' BY <3>1, <3>4, <4>4 DEF IsCompleted
        <5>2. \A j \in Frames' : ~(j > last) BY <3>3, <3>4, <3>5
        <5> QED BY <5>1, <5>2 DEF Settled
      <4>5. \A s \in announced' : Settled(s)' BY <2>1, <3>2, <4>3, <4>4
      <4> QED BY <1>1, <2>2, <4>1, <4>2, <4>5 DEF AnnouncedInv
    <3>12. DeliveredInv'
      <4>1. active \in {0, step} BY <1>2
      <4> QED BY <1>0, <1>1, <2>2, <2>3, <3>2, <4>1 DEF DeliveredInv
    <3>13. announced' \subseteq Step BY <1>2, <2>1, <3>2
    <3>14. BufferInv' BY <1>0, <1>1, <2>4, <2>5 DEF BufferInv
    <3>15. NumbersInv'
      <4>1. \A k \in Frames' : channel'[k].kind = "event" => k \in Frames
        BY <3>1, <3>4, <3>5
      <4> QED BY <1>0, <1>1, <3>6, <3>7, <4>1 DEF NumbersInv
    <3>16. PastInv'
      <4> SUFFICES ASSUME NEW s \in Step, Fresh(s)'
                   PROVE  /\ \A i \in 1..Len(pending) : pending[i].step = s =>
                               pending[i].cursor <= cursor \/ pending[i].n <= Older(s)
                          /\ \A k \in Frames' : IsEvent(k, s)' =>
                               \/ channel'[k].event.cursor <= cursor
                               \/ channel'[k].event.n <= Older(s)
        BY <1>1, <2>5 DEF PastInv
      <4>1. Fresh(s) BY <2>4
      <4> QED BY <1>0, <3>6, <3>81, <4>1 DEF PastInv
    <3>17. ASSUME NEW s \in Step, NEW p \in Nat, NEW m \in Nat, Follows(p, s, m)
           PROVE  Follows(p, s, m)'
      <4>1. f.kind # "event" /\ published'[s] = published[s] BY <1>1, <3>1
      <4> QED BY <1>2, <3>1, <3>17, <4>1, OtherFollows
    <3>18. LiveInv'
      <4> SUFFICES ASSUME conn = "open", snapped, NEW s \in Step, Fresh(s)' PROVE Live(s)'
        BY <1>1 DEF LiveInv
      <4>1. Live(s) BY <1>0, <2>4 DEF LiveInv
      <4>2. PICK m \in missed[s]..published[s] :
              Has(view[s].live, missed[s], m) /\ Follows(0, s, m)
        BY <4>1 DEF Live
      <4>3. missed[s] \in Nat /\ published[s] \in Nat BY <1>0, StepTypes
      <4>4. m \in Nat BY <4>2, <4>3
      <4> QED BY <1>1, <3>17, <4>2, <4>4 DEF Live, Has
    <3>19. AheadInv'
      <4> SUFFICES ASSUME conn = "open", ~snapped, NEW p \in Frames', IsSnapshot(p)',
                          NEW s \in Step, Fresh(s)'
                   PROVE  Brings(p, s)' /\ Skips(p, s)'
        BY <1>1 DEF AheadInv
      <4>1. p \in Frames /\ IsSnapshot(p) /\ channel'[p] = channel[p] BY <3>6, <3>7
      <4>2. Brings(p, s) /\ Skips(p, s) BY <1>0, <2>4, <4>1 DEF AheadInv
      <4>3. p \in Nat /\ missed[s] \in Nat BY <1>0, <4>1, InFlight, StepTypes
      <4>4. Brings(p, s)'
        <5>1. CASE channel[p].step = s
          <6>1. Len(channel[p].events) \in Nat
            <7>1. channel[p].events \in Seq(Nat) BY <1>0, <4>1, InFlight DEF IsSnapshot
            <7> QED BY <7>1
          <6>2. PICK m \in Nat : m = missed[s] + Len(channel[p].events) BY <4>3, <6>1
          <6>3. Follows(p, s, m)' BY <3>17, <4>2, <4>3, <5>1, <6>2 DEF Brings
          <6> QED BY <1>1, <4>1, <4>2, <5>1, <6>2, <6>3 DEF Brings
        <5>2. CASE channel[p].step # s
          <6>1. PICK m \in Nat : m = missed[s] BY <4>3
          <6>2. Follows(p, s, m)' BY <3>17, <4>2, <4>3, <5>2, <6>1 DEF Brings
          <6> QED BY <1>1, <4>1, <4>2, <5>2, <6>1, <6>2 DEF Brings
        <5> QED BY <5>1, <5>2
      <4>5. Skips(p, s)' BY <1>1, <3>6, <3>81, <4>1, <4>2 DEF Skips
      <4> QED BY <4>4, <4>5
    <3> QED BY <1>4, <2>2, <3>3, <3>9, <3>10, <3>11, <3>12, <3>13, <3>14, <3>15, <3>16, <3>18, <3>19
        DEF DataInv
  <2> QED BY <2>6, <2>7
<1> QED BY <1>3, <1>4

\* A complete step is over.
LEMMA CompleteStepStep == ASSUME IInv, CompleteStep PROVE IInv'
<1>0. TypeInv /\ BusInv BY DEF IInv
<1>1. /\ pc = "open" /\ saved[step] = 2
      /\ pc' = "between"
      /\ status' = status /\ saved' = saved /\ step' = step /\ published' = published
      /\ since' = since
      /\ cursor' = cursor /\ buffer' = buffer /\ conn' = conn /\ after' = after
      /\ rows' = rows /\ checks' = checks /\ mode' = mode /\ snapped' = snapped
      /\ pending' = pending /\ view' = view /\ through' = through /\ missed' = missed
      /\ quiet' = quiet /\ faults' = faults
  BY DEF CompleteStep, dbVars, tabVars, connHistory
<1>2. /\ channel' \in Seq(Frame) /\ announced' \subseteq Step
      /\ active' \in {0, step} /\ (active' # 0 => active' = active /\ saved[active] = 0)
      /\ step # 0 /\ saved[step] # 0 => active' = 0
      /\ DeliveredInv' /\ DataInv'
  BY <1>1, StepOver DEF CompleteStep, tabVars
<1>51. TypeInv'
  <2>1. pc' \in ExecutorState BY <1>1 DEF ExecutorState
  <2>2. active' \in {0, step'} BY <1>1, <1>2
  <2> QED BY <1>0, <1>1, <1>2, <2>1, <2>2 DEF TypeInv, TypeOK
<1>52. BusInv'
  <2>1. step # 0 /\ saved[step] # 0 BY <1>0, <1>1 DEF BusInv
  <2> QED BY <1>0, <1>1, <1>2, <2>1 DEF BusInv
<1> QED BY <1>2, <1>51, <1>52 DEF IInv

\* The last step of a run is over, complete or not.
LEMMA CompleteLastStep == ASSUME IInv, CompleteLast PROVE IInv'
<1>0. TypeInv /\ BusInv BY DEF IInv
<1>1. /\ pc = "over"
      /\ pc' = "clear"
      /\ status' = status /\ saved' = saved /\ step' = step /\ published' = published
      /\ since' = since
      /\ cursor' = cursor /\ buffer' = buffer /\ conn' = conn /\ after' = after
      /\ rows' = rows /\ checks' = checks /\ mode' = mode /\ snapped' = snapped
      /\ pending' = pending /\ view' = view /\ through' = through /\ missed' = missed
      /\ quiet' = quiet /\ faults' = faults
  BY DEF CompleteLast, dbVars, tabVars, connHistory
<1>2. /\ channel' \in Seq(Frame) /\ announced' \subseteq Step
      /\ active' \in {0, step} /\ (active' # 0 => active' = active /\ saved[active] = 0)
      /\ step # 0 /\ saved[step] # 0 => active' = 0
      /\ DeliveredInv' /\ DataInv'
  BY <1>1, StepOver DEF CompleteLast, tabVars
<1>51. TypeInv'
  <2>1. pc' \in ExecutorState BY <1>1 DEF ExecutorState
  <2>2. active' \in {0, step'} BY <1>1, <1>2
  <2> QED BY <1>0, <1>1, <1>2, <2>1, <2>2 DEF TypeInv, TypeOK
<1>52. BusInv'
  BY <1>0, <1>1, <1>2 DEF BusInv
<1> QED BY <1>2, <1>51, <1>52 DEF IInv

\* The run ends in a step, which is still in progress.
LEMMA EndInStepStep == ASSUME IInv, EndInStep PROVE IInv'
<1>0. TypeInv /\ BusInv /\ DeliveredInv /\ DataInv BY DEF IInv
<1>1. /\ pc = "open" /\ pc' = "over"
      /\ status' \in IF status = "canceling" THEN Ended ELSE {"over"}
      /\ saved' = saved /\ step' = step /\ published' = published /\ since' = since
      /\ active' = active
      /\ cursor' = cursor /\ buffer' = buffer /\ conn' = conn /\ after' = after
      /\ rows' = rows /\ announced' = announced /\ checks' = checks /\ channel' = channel
      /\ mode' = mode /\ snapped' = snapped /\ pending' = pending /\ view' = view
      /\ through' = through /\ missed' = missed /\ quiet' = quiet /\ faults' = faults
  BY DEF EndInStep, busVars, connVars, tabVars, connHistory
<1>51. TypeInv'
  <2>1. status' \in Ended BY <1>1 DEF Ended
  <2>2. pc' \in ExecutorState BY <1>1 DEF ExecutorState
  <2> QED BY <1>0, <1>1, <2>1, <2>2 DEF TypeInv, TypeOK
<1>52. BusInv' /\ DeliveredInv'
  BY <1>0, <1>1 DEF BusInv, DeliveredInv
<1>53. DataInv'
  BY <1>0, <1>1, DataKept DEF dataVars, streamVars
<1> QED BY <1>51, <1>52, <1>53 DEF IInv

\* The bus forgets the run: a step it still knows has no result.
LEMMA ClearStep == ASSUME IInv, Clear PROVE IInv'
<1>0. TypeInv /\ BusInv /\ DeliveredInv /\ DataInv BY DEF IInv
<1>1. /\ pc = "clear"
      /\ pc' = "off" /\ active' = 0 /\ cursor' = 0 /\ buffer' = NoRows
      /\ checks' = IF Subscribed THEN checks + 1 ELSE checks
      /\ status' = status /\ saved' = saved /\ step' = step /\ published' = published
      /\ since' = since
      /\ conn' = conn /\ after' = after /\ rows' = rows /\ announced' = announced
      /\ channel' = channel /\ mode' = mode /\ snapped' = snapped /\ pending' = pending
      /\ view' = view /\ through' = through /\ missed' = missed /\ quiet' = quiet
      /\ faults' = faults
  BY DEF Clear, dbVars, tabVars, connHistory
<1>2. /\ checks \in Nat /\ announced \subseteq Step /\ \A s \in Step : s # 0
  BY <1>0 DEF TypeInv, TypeOK, Step
<1>3. active # 0 => saved[active] = 0 BY <1>0, <1>1 DEF BusInv
<1>4. \A s \in Step : Fresh(s)' => Fresh(s) BY <1>1, <1>2 DEF Fresh
<1>5. \A s \in Step : Older(s)' = published[s] /\ published[s] \in Nat /\ buffer'[s] = <<>>
  BY <1>0, <1>1, StepTypes DEF Older, NoRows
<1>51. TypeInv'
  <2>1. buffer' \in [Step -> Seq(Nat)] BY <1>1 DEF NoRows
  <2>2. checks' \in Nat BY <1>1, <1>2
  <2>3. cursor' \in Nat /\ active' \in {0, step} BY <1>1
  <2>4. pc' \in ExecutorState BY <1>1 DEF ExecutorState
  <2> QED BY <1>0, <1>1, <2>1, <2>2, <2>3, <2>4 DEF TypeInv, TypeOK
<1>52. BusInv'
  BY <1>0, <1>1 DEF BusInv
<1>53. DeliveredInv'
  BY <1>0, <1>1, <1>2, <1>3 DEF DeliveredInv
<1>54. BufferInv'
  BY <1>5 DEF BufferInv
<1>55. NumbersInv'
  BY <1>0, <1>1 DEF DataInv, NumbersInv, Frames, IsSnapshot
<1>56. PastInv'
  <2>1. \A i \in 1..Len(pending) : pending[i].n <= published[pending[i].step]
    BY <1>0 DEF DataInv, NumbersInv
  <2>2. \A k \in Frames : channel[k].kind = "event" =>
          channel[k].event.n <= published[channel[k].event.step]
    BY <1>0 DEF DataInv, NumbersInv
  <2> QED BY <1>1, <1>5, <2>1, <2>2 DEF PastInv, Frames, IsEvent
<1>57. ClosedInv' /\ SnapshotInv'
  BY <1>0, <1>1 DEF DataInv, ClosedInv, Frames, SnapshotInv, IsSnapshot
<1>58. AnnouncedInv'
  <2>1. \A s \in announced : s <= step' /\ s # active'
    BY <1>0, <1>1, <1>2 DEF DataInv, AnnouncedInv
  <2> QED BY <1>0, <1>1, <2>1, SettledKept DEF DataInv
<1>59. LiveInv' /\ AheadInv'
  BY <1>0, <1>1, <1>4, StreamKept DEF DataInv, streamVars
<1> QED BY <1>51, <1>52, <1>53, <1>54, <1>55, <1>56, <1>57, <1>58, <1>59 DEF IInv, DataInv


-----------------------------------------------------------------------------
(* Ends, cancels, resumptions and recoveries of the run.                    *)

\* What they have in common: perhaps an event of the next step.
LEMMA PerhapsAhead ==
  ASSUME TypeInv, DataInv, UNCHANGED emitKeeps,
         EmitAhead \/ UNCHANGED <<published, cursor, buffer, channel>>
  PROVE  /\ published' \in [Step -> Nat] /\ cursor' \in Nat /\ buffer' \in [Step -> Seq(Nat)]
         /\ channel' \in Seq(Frame) /\ DataInv'
<1>1. CASE EmitAhead BY <1>1, EmitAheadData
<1>2. CASE UNCHANGED <<published, cursor, buffer, channel>>
  <2>1. UNCHANGED dataVars BY <1>2 DEF dataVars, streamVars, emitKeeps
  <2>2. DataInv' BY <2>1, DataKept
  <2> QED BY <1>2, <2>2 DEF TypeInv, TypeOK
<1> QED BY <1>1, <1>2

LEMMA EndBetweenStep == ASSUME IInv, EndBetween PROVE IInv'
<1>0. TypeInv /\ BusInv /\ DeliveredInv /\ DataInv BY DEF IInv
<1>1. /\ pc \in {"starting", "between"} /\ pc' = "clear"
      /\ status' = IF status = "canceling" THEN "canceled" ELSE "over"
      /\ saved' = saved /\ step' = step /\ since' = since /\ active' = active /\ conn' = conn
      /\ after' = after /\ rows' = rows /\ announced' = announced /\ checks' = checks
      /\ mode' = mode /\ snapped' = snapped /\ pending' = pending /\ view' = view
      /\ through' = through /\ missed' = missed /\ quiet' = quiet /\ faults' = faults
  BY DEF EndBetween, connVars, tabVars, connHistory
<1>2. EmitAhead \/ UNCHANGED <<published, cursor, buffer, channel>> BY DEF EndBetween
<1>3. UNCHANGED emitKeeps BY <1>1 DEF emitKeeps
<1>4. /\ published' \in [Step -> Nat] /\ cursor' \in Nat /\ buffer' \in [Step -> Seq(Nat)]
      /\ channel' \in Seq(Frame) /\ DataInv'
  BY <1>0, <1>2, <1>3, PerhapsAhead
<1>51. TypeInv'
  <2>1. status' \in Ended /\ pc' \in ExecutorState BY <1>1 DEF Ended, ExecutorState
  <2> QED BY <1>0, <1>1, <1>4, <2>1 DEF TypeInv, TypeOK
<1>52. BusInv' /\ DeliveredInv' BY <1>0, <1>1 DEF BusInv, DeliveredInv
<1> QED BY <1>4, <1>51, <1>52 DEF IInv

LEMMA CancelStep == ASSUME IInv, Cancel PROVE IInv'
<1>0. TypeInv /\ BusInv /\ DeliveredInv /\ DataInv BY DEF IInv
<1>1. /\ status' = "canceling"
      /\ saved' = saved /\ pc' = pc /\ step' = step /\ published' = published /\ since' = since
      /\ active' = active /\ cursor' = cursor /\ buffer' = buffer /\ conn' = conn
      /\ after' = after /\ rows' = rows /\ announced' = announced /\ checks' = checks
      /\ channel' = channel /\ mode' = mode /\ snapped' = snapped /\ pending' = pending
      /\ view' = view /\ through' = through /\ missed' = missed /\ quiet' = quiet
      /\ faults' = faults
  BY DEF Cancel, execVars, busVars, connVars, tabVars, connHistory
<1>2. TypeInv' BY <1>0, <1>1 DEF TypeInv, TypeOK
<1>3. BusInv' /\ DeliveredInv' BY <1>0, <1>1 DEF BusInv, DeliveredInv
<1>4. DataInv' BY <1>0, <1>1, DataKept DEF dataVars, streamVars
<1> QED BY <1>2, <1>3, <1>4 DEF IInv

LEMMA ResumeStep == ASSUME IInv, Resume PROVE IInv'
<1>0. TypeInv /\ BusInv /\ DeliveredInv /\ DataInv BY DEF IInv
<1>1. /\ status' = "live" /\ pc = "off" /\ pc' = "resumed"
      /\ saved' = saved /\ step' = step /\ published' = published /\ since' = since
      /\ active' = active /\ cursor' = cursor /\ buffer' = buffer /\ conn' = conn
      /\ after' = after /\ rows' = rows /\ announced' = announced /\ checks' = checks
      /\ channel' = channel /\ mode' = mode /\ snapped' = snapped /\ pending' = pending
      /\ view' = view /\ through' = through /\ missed' = missed /\ quiet' = quiet
  BY DEF Resume, busVars, connVars, tabVars, connHistory
<1>2. TypeInv'
  <2>1. pc' \in ExecutorState BY <1>1 DEF ExecutorState
  <2> QED BY <1>0, <1>1, <2>1 DEF TypeInv, TypeOK
<1>3. BusInv' /\ DeliveredInv' BY <1>0, <1>1 DEF BusInv, DeliveredInv
<1>4. DataInv' BY <1>0, <1>1, DataKept DEF dataVars, streamVars
<1> QED BY <1>2, <1>3, <1>4 DEF IInv

LEMMA ListStep == ASSUME IInv, List PROVE IInv'
<1>0. TypeInv /\ BusInv /\ DeliveredInv /\ DataInv BY DEF IInv
<1>1. /\ pc = "down" /\ pc' = "listed" /\ status' = status
      /\ saved' = saved /\ step' = step /\ published' = published /\ since' = since
      /\ active' = active /\ cursor' = cursor /\ buffer' = buffer /\ conn' = conn
      /\ after' = after /\ rows' = rows /\ announced' = announced /\ checks' = checks
      /\ channel' = channel /\ mode' = mode /\ snapped' = snapped /\ pending' = pending
      /\ view' = view /\ through' = through /\ missed' = missed /\ quiet' = quiet
  BY DEF List, dbVars, busVars, connVars, tabVars, connHistory
<1>2. TypeInv'
  <2>1. pc' \in ExecutorState BY <1>1 DEF ExecutorState
  <2> QED BY <1>0, <1>1, <2>1 DEF TypeInv, TypeOK
<1>3. BusInv' /\ DeliveredInv' BY <1>0, <1>1 DEF BusInv, DeliveredInv
<1>4. DataInv' BY <1>0, <1>1, DataKept DEF dataVars, streamVars
<1> QED BY <1>2, <1>3, <1>4 DEF IInv

LEMMA RecoverCancelingStep == ASSUME IInv, RecoverCanceling PROVE IInv'
<1>0. TypeInv /\ BusInv /\ DeliveredInv /\ DataInv BY DEF IInv
<1>1. /\ pc = "down" /\ pc' = "off" /\ status' = "canceled"
      /\ quiet' = (conn = "open" /\ checks = 0)
      /\ saved' = saved /\ step' = step /\ published' = published /\ since' = since
      /\ active' = active /\ cursor' = cursor /\ buffer' = buffer /\ conn' = conn
      /\ after' = after /\ rows' = rows /\ announced' = announced /\ checks' = checks
      /\ channel' = channel /\ mode' = mode /\ snapped' = snapped /\ pending' = pending
      /\ view' = view /\ through' = through /\ missed' = missed
  BY DEF RecoverCanceling, busVars, connVars, tabVars
<1>2. TypeInv'
  <2>1. pc' \in ExecutorState /\ status' \in Ended BY <1>1 DEF ExecutorState, Ended
  <2>2. quiet' \in BOOLEAN BY <1>1
  <2> QED BY <1>0, <1>1, <2>1, <2>2 DEF TypeInv, TypeOK
<1>3. BusInv' /\ DeliveredInv' BY <1>0, <1>1 DEF BusInv, DeliveredInv
<1>4. DataInv' BY <1>0, <1>1, DataKept DEF dataVars, streamVars
<1> QED BY <1>2, <1>3, <1>4 DEF IInv

\* A run starts again, with the event of its recovery or its answer.
LEMMA StartsAgain ==
  ASSUME IInv, Launch \/ RecoverLive
  PROVE  IInv'
<1>0. TypeInv /\ BusInv /\ DeliveredInv /\ DataInv BY DEF IInv
<1>1. /\ pc \in {"resumed", "listed"} /\ pc' = "starting" /\ status' = status
      /\ saved' = saved /\ step' = step /\ since' = since /\ active' = active /\ conn' = conn
      /\ after' = after /\ rows' = rows /\ announced' = announced /\ checks' = checks
      /\ mode' = mode /\ snapped' = snapped /\ pending' = pending /\ view' = view
      /\ through' = through /\ missed' = missed /\ quiet' = quiet /\ faults' = faults
  BY DEF Launch, RecoverLive, dbVars, connVars, tabVars, connHistory
<1>2. EmitAhead BY DEF Launch, RecoverLive
<1>3. UNCHANGED emitKeeps BY <1>1 DEF emitKeeps
<1>4. /\ published' \in [Step -> Nat] /\ cursor' \in Nat /\ buffer' \in [Step -> Seq(Nat)]
      /\ channel' \in Seq(Frame) /\ DataInv'
  BY <1>0, <1>2, <1>3, EmitAheadData
<1>51. TypeInv'
  <2>1. pc' \in ExecutorState BY <1>1 DEF ExecutorState
  <2> QED BY <1>0, <1>1, <1>4, <2>1 DEF TypeInv, TypeOK
<1>52. BusInv' /\ DeliveredInv' BY <1>0, <1>1 DEF BusInv, DeliveredInv
<1> QED BY <1>4, <1>51, <1>52 DEF IInv

\* The executor completes what an earlier one left: no step without a result
\* gets one.
LEMMA StartStep == ASSUME IInv, Start PROVE IInv'
<1>0. TypeInv /\ BusInv /\ DeliveredInv /\ DataInv BY DEF IInv
<1>1. /\ pc = "starting" /\ pc' = "between" /\ status' = status
      /\ saved' = [s \in Step |-> IF saved[s] = 1 THEN 2 ELSE saved[s]]
      /\ step' = step /\ since' = since /\ active' = active /\ conn' = conn
      /\ after' = after /\ rows' = rows /\ announced' = announced /\ checks' = checks
      /\ mode' = mode /\ snapped' = snapped /\ pending' = pending /\ view' = view
      /\ through' = through /\ missed' = missed /\ quiet' = quiet /\ faults' = faults
  BY DEF Start, connVars, tabVars, connHistory
<1>2. EmitAhead \/ UNCHANGED <<published, cursor, buffer, channel>> BY DEF Start
<1>3. UNCHANGED emitKeeps BY <1>1 DEF emitKeeps
<1>4. /\ published' \in [Step -> Nat] /\ cursor' \in Nat /\ buffer' \in [Step -> Seq(Nat)]
      /\ channel' \in Seq(Frame) /\ DataInv'
  BY <1>0, <1>2, <1>3, PerhapsAhead
<1>5. /\ saved' \in [Step -> 0..2]
      /\ \A s \in Step : saved'[s] > 0 <=> saved[s] > 0
  <2>1. saved \in [Step -> 0..2] BY <1>0 DEF TypeInv, TypeOK
  <2> QED BY <1>1, <2>1
<1>51. TypeInv'
  <2>1. pc' \in ExecutorState BY <1>1 DEF ExecutorState
  <2> QED BY <1>0, <1>1, <1>4, <1>5, <2>1 DEF TypeInv, TypeOK
<1>52. BusInv'
  <2>1. active = 0 BY <1>0, <1>1 DEF BusInv
  <2> QED BY <1>0, <1>1, <1>5, <2>1 DEF BusInv
<1>53. DeliveredInv' BY <1>0, <1>1, <1>5 DEF DeliveredInv
<1> QED BY <1>4, <1>51, <1>52, <1>53 DEF IInv

-----------------------------------------------------------------------------
(* Lost connections, crashes and failed loads.                              *)

\* Nothing is under way any more.
LEMMA Apart ==
  ASSUME TypeInv, DataInv, Disconnected, BufferInv', view' = view, published' = published
  PROVE  DeliveredInv' /\ DataInv'
<1>1. /\ conn' = "none" /\ announced' = {} /\ channel' = <<>> /\ snapped' = FALSE
      /\ pending' = <<>> /\ mode' # "online"
  BY DEF Disconnected
<1>2. Frames' = {} /\ 1..Len(pending') = {} BY <1>1 DEF Frames
<1>3. NumbersInv' BY <1>1, <1>2 DEF DataInv, NumbersInv
<1>4. PastInv' BY <1>2 DEF PastInv
<1>5. ClosedInv' BY <1>1, <1>2 DEF ClosedInv
<1>6. SnapshotInv' BY <1>1, <1>2 DEF SnapshotInv
<1>7. AnnouncedInv' BY <1>1, <1>2 DEF AnnouncedInv
<1>8. LiveInv' /\ AheadInv' /\ DeliveredInv' BY <1>1 DEF LiveInv, AheadInv, DeliveredInv
<1> QED BY <1>3, <1>4, <1>5, <1>6, <1>7, <1>8 DEF DataInv

LEMMA DisconnectedTypes ==
  ASSUME TypeInv, Disconnected
  PROVE  /\ conn' = "none" /\ checks' \in Nat /\ announced' \subseteq Step
         /\ rows' \in [Step -> 0..2] /\ after' \in 0..MaxStep /\ channel' \in Seq(Frame)
         /\ mode' \in {"closed", "offline", "done"} /\ snapped' = FALSE /\ pending' \in Seq(Event)
         /\ missed' \in [Step -> Nat] /\ quiet' \in BOOLEAN
<1>1. MaxStep \in Nat BY StreamAssumption
<1>2. mode \in {"closed", "offline", "online", "done"} BY DEF TypeInv, TypeOK
<1>3. /\ conn' = "none" /\ checks' = 0 /\ announced' = {} /\ rows' = [s \in Step |-> 0]
      /\ after' = 0 /\ channel' = <<>> /\ mode' = IF mode = "online" THEN "closed" ELSE mode
      /\ snapped' = FALSE /\ pending' = <<>> /\ missed' = [s \in Step |-> 0] /\ quiet' = FALSE
  BY DEF Disconnected, NoneOf
<1>4. rows' \in [Step -> 0..2] /\ missed' \in [Step -> Nat] BY <1>3
<1>5. channel' \in Seq(Frame) /\ pending' \in Seq(Event) BY <1>3
<1>6. after' \in 0..MaxStep BY <1>1, <1>3
<1>7. mode' \in {"closed", "offline", "done"} BY <1>2, <1>3
<1> QED BY <1>3, <1>4, <1>5, <1>6, <1>7

LEMMA DropStep == ASSUME IInv, Drop PROVE IInv'
<1>0. TypeInv /\ BusInv /\ DataInv BY DEF IInv
<1>1. /\ Disconnected
      /\ status' = status /\ saved' = saved /\ pc' = pc /\ step' = step
      /\ published' = published /\ since' = since /\ active' = active /\ cursor' = cursor
      /\ buffer' = buffer /\ view' = view /\ through' = through
  BY DEF Drop, dbVars, execVars, busVars
<1>2. BufferInv' BY <1>0, <1>1 DEF DataInv, BufferInv, Fresh, Older
<1>3. DeliveredInv' /\ DataInv' BY <1>0, <1>1, <1>2, Apart
<1>4. TypeInv' BY <1>0, <1>1, DisconnectedTypes DEF TypeInv, TypeOK
<1>5. BusInv' BY <1>0, <1>1 DEF BusInv
<1> QED BY <1>3, <1>4, <1>5 DEF IInv

LEMMA CrashStep == ASSUME IInv, Crash PROVE IInv'
<1>0. TypeInv /\ BusInv /\ DataInv BY DEF IInv
<1>1. /\ Disconnected
      /\ status' = status /\ saved' = saved /\ pc' = IF status \in Ended THEN "off" ELSE "down"
      /\ step' = step /\ published' = published /\ since' = step /\ active' = 0 /\ cursor' = 0
      /\ buffer' = NoRows /\ view' = view /\ through' = through
  BY DEF Crash, dbVars
<1>2. BufferInv'
  <2>1. \A s \in Step : Older(s)' = published[s] /\ published[s] \in Nat /\ buffer'[s] = <<>>
    BY <1>0, <1>1, StepTypes DEF Older, NoRows
  <2> QED BY <2>1 DEF BufferInv
<1>3. DeliveredInv' /\ DataInv' BY <1>0, <1>1, <1>2, Apart
<1>4. TypeInv'
  <2>1. pc' \in ExecutorState BY <1>1 DEF ExecutorState
  <2>2. step' \in 0..MaxStep /\ since' \in 0..step' BY <1>0, <1>1 DEF TypeInv, TypeOK
  <2>3. buffer' \in [Step -> Seq(Nat)] BY <1>1 DEF NoRows
  <2>4. active' \in {0, step'} /\ cursor' \in Nat BY <1>1
  <2> QED BY <1>0, <1>1, <2>1, <2>2, <2>3, <2>4, DisconnectedTypes DEF TypeInv, TypeOK
<1>5. BusInv' BY <1>0, <1>1 DEF BusInv
<1> QED BY <1>3, <1>4, <1>5 DEF IInv

LEMMA RefreshFailsStep == ASSUME IInv, RefreshFails PROVE IInv'
<1>0. TypeInv /\ BusInv /\ DeliveredInv /\ DataInv BY DEF IInv
<1>1. /\ mode = "closed" /\ mode' = "offline"
      /\ status' = status /\ saved' = saved /\ pc' = pc /\ step' = step /\ published' = published
      /\ since' = since /\ active' = active /\ cursor' = cursor /\ buffer' = buffer
      /\ conn' = conn /\ after' = after /\ rows' = rows /\ announced' = announced
      /\ checks' = checks /\ channel' = channel /\ snapped' = snapped /\ pending' = pending
      /\ view' = view /\ through' = through /\ missed' = missed /\ quiet' = quiet
  BY DEF RefreshFails, dbVars, execVars, busVars, connVars, connHistory
<1>2. TypeInv' BY <1>0, <1>1 DEF TypeInv, TypeOK
<1>3. BusInv' /\ DeliveredInv' BY <1>0, <1>1 DEF BusInv, DeliveredInv
<1>4. DataInv'
  <2>1. UNCHANGED streamVars BY <1>1 DEF streamVars
  <2>2. \A s \in Step : Fresh(s)' <=> Fresh(s) BY <1>1 DEF Fresh
  <2>3. LiveInv' /\ AheadInv' BY <1>0, <2>1, <2>2, StreamKept DEF DataInv
  <2>4. BufferInv' /\ NumbersInv' /\ PastInv'
    BY <1>0, <1>1 DEF DataInv, BufferInv, NumbersInv, PastInv, Fresh, Older, Frames, IsEvent,
                      IsSnapshot
  <2>5. ClosedInv' /\ SnapshotInv'
    BY <1>0, <1>1 DEF DataInv, ClosedInv, SnapshotInv, Frames, IsSnapshot
  <2>6. AnnouncedInv' BY <1>0, <1>1, SettledKept DEF DataInv, AnnouncedInv
  <2> QED BY <2>3, <2>4, <2>5, <2>6 DEF DataInv
<1> QED BY <1>2, <1>3, <1>4 DEF IInv

-----------------------------------------------------------------------------
(* The socket.                                                              *)

\* The socket reads the steps after its cursor.
LEMMA ReadStepsStep == ASSUME IInv, ReadSteps PROVE IInv'
<1>0. TypeInv /\ BusInv /\ DeliveredInv /\ DataInv BY DEF IInv
<1>1. /\ conn = "reading" /\ conn' = "read" /\ rows' = SavedAfter
      /\ status' = status /\ saved' = saved /\ pc' = pc /\ step' = step /\ published' = published
      /\ since' = since /\ active' = active /\ cursor' = cursor /\ buffer' = buffer
      /\ after' = after /\ announced' = announced /\ checks' = checks /\ channel' = channel
      /\ mode' = mode /\ snapped' = snapped /\ pending' = pending /\ view' = view
      /\ through' = through /\ missed' = missed /\ quiet' = quiet
  BY DEF ReadSteps, dbVars, execVars, busVars, tabVars, connHistory
<1>2. saved \in [Step -> 0..2] BY <1>0 DEF TypeInv, TypeOK
<1>3. /\ rows' \in [Step -> 0..2]
      /\ \A s \in Step : (rows'[s] > 0 => saved[s] > 0) /\ (s > after => rows'[s] = saved[s])
  BY <1>1, <1>2 DEF SavedAfter
<1>51. TypeInv' BY <1>0, <1>1, <1>3 DEF TypeInv, TypeOK
<1>52. BusInv' BY <1>0, <1>1 DEF BusInv
<1>53. DeliveredInv' BY <1>1, <1>3 DEF DeliveredInv
<1>54. BufferInv' /\ NumbersInv' /\ PastInv'
  BY <1>0, <1>1 DEF DataInv, BufferInv, NumbersInv, PastInv, Fresh, Older, Frames, IsEvent,
                    IsSnapshot
<1>55. ClosedInv' /\ SnapshotInv'
  BY <1>0, <1>1 DEF DataInv, ClosedInv, SnapshotInv, Frames, IsSnapshot
<1>56. AnnouncedInv'
  BY <1>0, <1>1 DEF DataInv, AnnouncedInv, Settled, Frames, IsSnapshot, IsCompleted
<1>57. LiveInv' /\ AheadInv' BY <1>1 DEF LiveInv, AheadInv
<1> QED BY <1>51, <1>52, <1>53, <1>54, <1>55, <1>56, <1>57 DEF IInv, DataInv

\* A tab that is not connected has nothing under way, and connects.
LEMMA ConnectStep == ASSUME IInv, Connect PROVE IInv'
<1>0. TypeInv /\ BusInv /\ DeliveredInv /\ DataInv BY DEF IInv
<1>1. /\ mode = "offline" /\ mode' = "online" /\ snapped' = FALSE /\ pending' = <<>>
      /\ conn' = "reading" /\ after' = through /\ announced' = {} /\ checks' = 0
      /\ status' = status /\ saved' = saved /\ pc' = pc /\ step' = step /\ published' = published
      /\ since' = since /\ active' = active /\ cursor' = cursor /\ buffer' = buffer
      /\ rows' = rows /\ channel' = channel /\ view' = view /\ through' = through
      /\ missed' = missed /\ quiet' = quiet
  BY DEF Connect, dbVars, execVars, busVars, connHistory
<1>2. channel = <<>> /\ conn = "none" BY <1>0, <1>1 DEF DataInv, ClosedInv
<1>3. Frames' = {} /\ 1..Len(pending') = {} BY <1>1, <1>2 DEF Frames
<1>51. TypeInv'
  <2>1. pending' \in Seq(Event) /\ announced' \subseteq Step /\ checks' \in Nat BY <1>1
  <2>2. after' \in 0..MaxStep BY <1>0, <1>1 DEF TypeInv, TypeOK
  <2> QED BY <1>0, <1>1, <2>1, <2>2 DEF TypeInv, TypeOK
<1>52. BusInv' BY <1>0, <1>1 DEF BusInv
<1>53. DeliveredInv' BY <1>1 DEF DeliveredInv
<1>54. BufferInv' BY <1>0, <1>1 DEF DataInv, BufferInv, Fresh, Older
<1>55. NumbersInv' BY <1>0, <1>1, <1>3 DEF DataInv, NumbersInv
<1>56. PastInv' BY <1>3 DEF PastInv
<1>57. ClosedInv' /\ SnapshotInv' BY <1>1, <1>3 DEF ClosedInv, SnapshotInv
<1>58. AnnouncedInv' BY <1>1, <1>3 DEF AnnouncedInv
<1>59. LiveInv' /\ AheadInv' BY <1>1 DEF LiveInv, AheadInv
<1> QED BY <1>51, <1>52, <1>53, <1>54, <1>55, <1>56, <1>57, <1>58, <1>59 DEF IInv, DataInv

\* The socket has nothing left to say of a run that has ended, and is closed.
LEMMA CheckStep == ASSUME IInv, Check PROVE IInv'
<1>0. TypeInv /\ BusInv /\ DeliveredInv /\ DataInv BY DEF IInv
<1>1. /\ conn # "none" /\ checks > 0
      /\ status' = status /\ saved' = saved /\ pc' = pc /\ step' = step /\ published' = published
      /\ since' = since /\ active' = active /\ cursor' = cursor /\ buffer' = buffer
      /\ mode' = mode /\ snapped' = snapped /\ pending' = pending /\ view' = view
      /\ through' = through /\ quiet' = quiet
  BY DEF Check, dbVars, execVars, busVars, tabVars
<1>2. /\ channel \in Seq(Frame) /\ MaxStep \in Nat /\ saved \in [Step -> 0..2] /\ checks \in Nat
  BY <1>0, StreamAssumption DEF TypeInv, TypeOK
<1>3. CASE status \notin Ended
  <2>1. /\ checks' = checks - 1 /\ channel' = channel /\ conn' = conn /\ announced' = announced
        /\ rows' = rows /\ after' = after /\ missed' = missed
    BY <1>3 DEF Check
  <2>2. checks' \in Nat BY <1>1, <1>2, <2>1
  <2>3. TypeInv' BY <1>0, <1>1, <2>1, <2>2 DEF TypeInv, TypeOK
  <2>4. BusInv' /\ DeliveredInv' BY <1>0, <1>1, <2>1 DEF BusInv, DeliveredInv
  <2>5. DataInv' BY <1>0, <1>1, <2>1, DataKept DEF dataVars, streamVars
  <2> QED BY <2>3, <2>4, <2>5 DEF IInv
<1>4. CASE status \in Ended
  <2> DEFINE steps == {s \in Step : SavedAfter[s] > 0} \ announced
  <2>1. /\ conn' = "none" /\ checks' = 0 /\ announced' = {} /\ after' = 0
        /\ rows' = [s \in Step |-> 0] /\ missed' = [s \in Step |-> 0]
        /\ channel' = (channel \o CompletedFrames(steps, saved)) \o <<CloseFrame>>
    BY <1>4 DEF Check, NoneOf
  <2>2. steps \in SUBSET Step /\ \A s \in steps : saved[s] \in 1..2 BY <1>2 DEF SavedAfter
  <2> HIDE DEF steps
  <2>4. PICK fs \in Seq(Frame) :
          /\ fs = CompletedFrames(steps, saved)
          /\ \A i \in 1..Len(fs) : fs[i].kind = "completed" /\ fs[i].step \in steps
    BY <2>2, CompletedFramesFacts
  <2>5. PICK f \in Frame : f.kind = "close" /\ channel' = (channel \o fs) \o <<f>>
    <3>1. CloseFrame \in Frame /\ CloseFrame.kind = "close" BY FramesAreFrames DEF CloseFrame
    <3> QED BY <3>1, <2>1, <2>4
  <2>6. /\ channel' \in Seq(Frame) /\ Len(channel) \in Nat /\ Len(fs) \in Nat
        /\ Len(channel') = Len(channel) + Len(fs) + 1
        /\ \A k \in 1..Len(channel) : channel'[k] = channel[k]
        /\ \A i \in 1..Len(fs) : channel'[Len(channel) + i] = fs[i]
        /\ channel'[Len(channel) + Len(fs) + 1] = f
    BY <1>2, <2>5, ConcatFacts
  <2>7. PICK last \in Frames' : last = Len(channel') /\ channel'[last] = f
    BY <2>6 DEF Frames
  <2>8. \A k \in Frames : k \in Frames' /\ channel'[k] = channel[k] BY <2>6 DEF Frames
  <2>9. ASSUME NEW k \in Frames', k \notin Frames, k # last
        PROVE  channel'[k].kind = "completed" /\ channel'[k].step \in steps
    <3>1. PICK i \in 1..Len(fs) : k = Len(channel) + i
      <4>1. /\ k \in Nat /\ ~(k <= Len(channel)) /\ k <= Len(channel') /\ k # Len(channel')
        BY <2>6, <2>7, <2>9 DEF Frames
      <4>2. Len(channel) \in Nat /\ Len(fs) \in Nat /\ Len(channel') = Len(channel) + Len(fs) + 1
        BY <2>6
      <4>3. k - Len(channel) \in 1..Len(fs) /\ k = Len(channel) + (k - Len(channel))
        BY <4>1, <4>2
      <4> QED BY <4>3
    <3> QED BY <2>4, <2>6, <3>1
  <2>10. \A k \in Frames' : channel'[k].kind \in {"event", "snapshot"} => k \in Frames
    BY <2>5, <2>7, <2>9
  <2>51. TypeInv'
    <3>1. /\ rows' \in [Step -> 0..2] /\ checks' \in Nat /\ announced' \subseteq Step
          /\ after' \in 0..MaxStep /\ missed' \in [Step -> Nat]
      BY <2>1, <1>2
    <3> QED BY <1>0, <1>1, <2>1, <2>6, <3>1 DEF TypeInv, TypeOK
  <2>52. ClosedInv'
    <3>1. \A k \in Frames' : channel'[k].kind = "close" => k = Len(channel')
      BY <1>0, <1>1, <2>7, <2>8, <2>9 DEF DataInv, ClosedInv
    <3>2. mode = "online" BY <1>0, <1>1 DEF DataInv, ClosedInv
    <3> QED BY <1>1, <2>1, <3>1, <3>2 DEF ClosedInv
  <2>53. SnapshotInv' /\ AnnouncedInv' /\ DeliveredInv' /\ LiveInv' /\ AheadInv'
    BY <2>1 DEF SnapshotInv, AnnouncedInv, DeliveredInv, LiveInv, AheadInv
  <2>54. BufferInv' BY <1>0, <1>1 DEF DataInv, BufferInv, Fresh, Older
  <2>55. NumbersInv'
    BY <1>0, <1>1, <2>8, <2>10 DEF DataInv, NumbersInv, IsSnapshot
  <2>56. PastInv'
    <3>1. \A s \in Step : (Fresh(s)' <=> Fresh(s)) /\ Older(s)' = Older(s)
      BY <1>1 DEF Fresh, Older
    <3>2. \A s \in Step, k \in Frames' : IsEvent(k, s)' =>
            k \in Frames /\ IsEvent(k, s) /\ channel'[k] = channel[k]
      BY <2>8, <2>10 DEF IsEvent
    <3> QED BY <1>0, <1>1, <3>1, <3>2 DEF DataInv, PastInv
  <2>57. BusInv' BY <1>0, <1>1 DEF BusInv
  <2> QED BY <2>51, <2>52, <2>53, <2>54, <2>55, <2>56, <2>57 DEF IInv, DataInv
<1> QED BY <1>3, <1>4

\* What was read and is not announced is sent, and the snapshot last: of the
\* step in progress it has the buffer, and what it lacks is missed for good.
LEMMA ReplayStep == ASSUME IInv, Replay PROVE IInv'
<1>0. TypeInv /\ BusInv /\ DeliveredInv /\ DataInv BY DEF IInv
<1>1. /\ conn = "read" /\ conn' = "open"
      /\ rows' = [s \in Step |-> 0] /\ checks' = checks + 1
      /\ missed' = [s \in Step |-> published[s] - (IF s = active THEN Len(buffer[s]) ELSE 0)]
      /\ status' = status /\ saved' = saved /\ pc' = pc /\ step' = step /\ published' = published
      /\ since' = since /\ active' = active /\ cursor' = cursor /\ buffer' = buffer
      /\ after' = after /\ mode' = mode /\ snapped' = snapped /\ pending' = pending
      /\ view' = view /\ through' = through /\ quiet' = quiet
  BY DEF Replay, ReplayWith, dbVars, execVars, busVars, tabVars
<1> DEFINE steps == {s \in Step : rows[s] > 0 /\ s # active} \ announced
<1>2. /\ channel \in Seq(Frame) /\ steps \in SUBSET Step /\ \A s \in steps : rows[s] \in 1..2
      /\ step \in 0..MaxStep /\ MaxStep \in Nat /\ active \in {0, step} /\ cursor \in Nat
      /\ conn # "none" /\ announced \subseteq Step
      /\ checks \in Nat /\ ~snapped /\ mode = "online"
  <2>1. rows \in [Step -> 0..2] BY <1>0 DEF TypeInv, TypeOK
  <2>2. \A s \in steps : rows[s] \in 1..2 BY <2>1
  <2> QED BY <1>0, <1>1, <2>2, StreamAssumption DEF TypeInv, TypeOK, DataInv, SnapshotInv, ClosedInv
<1>3. PICK fs \in Seq(Frame) :
        /\ fs = CompletedFrames(steps, rows)
        /\ \A i \in 1..Len(fs) : fs[i].kind = "completed" /\ fs[i].step \in steps
        /\ \A s \in steps : \E i \in 1..Len(fs) : fs[i].step = s
  <2>1. steps \in SUBSET Step /\ \A s \in steps : rows[s] \in 1..2 BY <1>2
  <2> HIDE DEF steps
  <2>2. /\ CompletedFrames(steps, rows) \in Seq(Frame)
        /\ \A i \in 1..Len(CompletedFrames(steps, rows)) :
             /\ CompletedFrames(steps, rows)[i].kind = "completed"
             /\ CompletedFrames(steps, rows)[i].step \in steps
        /\ \A s \in steps : \E i \in 1..Len(CompletedFrames(steps, rows)) :
             CompletedFrames(steps, rows)[i].step = s
    BY <2>1, CompletedFramesFacts
  <2> QED BY <2>2, Zenon
<1>4. PICK f \in Frame :
        /\ f.kind = "snapshot" /\ f.step = active /\ f.cursor = cursor
        /\ active \in Step => f.events = buffer[active]
        /\ channel' = (channel \o fs) \o <<f>>
  <2>1. RowsOf(active) \in Seq(Nat) /\ (active \in Step => RowsOf(active) = buffer[active])
    <3>1. active = 0 \/ (active \in Step /\ active # 0) BY <1>2 DEF Step
    <3>2. \A s \in Step : s # 0 BY DEF Step
    <3> QED BY <1>0, <3>1, <3>2 DEF RowsOf, TypeInv, TypeOK
  <2>2. Snapshot = SnapshotFrame(active, RowsOf(active), cursor) BY DEF Snapshot
  <2>3. active \in 0..MaxStep BY <1>2
  <2>4. Snapshot \in Frame BY <1>2, <2>1, <2>2, <2>3, FramesAreFrames
  <2>5. /\ Snapshot.kind = "snapshot" /\ Snapshot.step = active /\ Snapshot.cursor = cursor
        /\ Snapshot.events = RowsOf(active)
    BY <2>2 DEF SnapshotFrame
  <2>6. channel' = (channel \o fs) \o <<Snapshot>> BY <1>3 DEF Replay, ReplayWith
  <2> QED BY <2>1, <2>4, <2>5, <2>6
<1>5. /\ channel' \in Seq(Frame) /\ Len(channel) \in Nat /\ Len(fs) \in Nat
      /\ Len(channel') = Len(channel) + Len(fs) + 1
      /\ \A k \in 1..Len(channel) : channel'[k] = channel[k]
      /\ \A i \in 1..Len(fs) : channel'[Len(channel) + i] = fs[i]
      /\ channel'[Len(channel) + Len(fs) + 1] = f
  BY <1>2, <1>4, ConcatFacts
<1>6. PICK last \in Frames' : last = Len(channel') /\ channel'[last] = f
                              /\ \A k \in Frames' : k \in Nat /\ k <= last
  BY <1>5 DEF Frames
<1>7. \A k \in Frames : k \in Frames' /\ channel'[k] = channel[k] /\ k < last BY <1>5, <1>6 DEF Frames
<1>8. ASSUME NEW k \in Frames', k \notin Frames, k # last
      PROVE  channel'[k].kind = "completed" /\ channel'[k].step \in steps
  <2>1. PICK i \in 1..Len(fs) : k = Len(channel) + i
    <3>1. /\ k \in Nat /\ ~(k <= Len(channel)) /\ k <= Len(channel') /\ k # Len(channel')
      BY <1>5, <1>6, <1>8 DEF Frames
    <3>2. Len(channel) \in Nat /\ Len(fs) \in Nat /\ Len(channel') = Len(channel) + Len(fs) + 1
      BY <1>5
    <3>3. k - Len(channel) \in 1..Len(fs) /\ k = Len(channel) + (k - Len(channel))
      BY <3>1, <3>2
    <3> QED BY <3>3
  <2> QED BY <1>3, <1>5, <2>1
<1>9. announced' = announced \cup steps BY DEF Replay, ReplayWith
<1>10. ASSUME NEW s \in steps
       PROVE  \E k \in Frames' : k # last /\ channel'[k].kind = "completed" /\ channel'[k].step = s
  <2>1. PICK i \in 1..Len(fs) : fs[i].kind = "completed" /\ fs[i].step = s BY <1>3
  <2>2. PICK k \in Nat : k = Len(channel) + i BY <1>5
  <2>3. k \in Frames' /\ k # last /\ channel'[k] = fs[i] BY <1>5, <1>6, <2>2 DEF Frames
  <2> QED BY <2>1, <2>3
<1>11. \A s \in steps : s <= step /\ s # active
  BY <1>0, <1>1, <1>2 DEF DeliveredInv, BusInv
<1>12. \A s \in announced' : s \in steps \/ s \in announced BY <1>9
<1>13. \A s \in Step : rows[s] > 0 /\ s # active => s \in announced' BY <1>9
<1> HIDE DEF steps
<1>14. \A k \in Frames : ~IsSnapshot(k) BY <1>0, <1>1 DEF DataInv, SnapshotInv
<1>15. \A k \in Frames' : IsSnapshot(k)' => k = last
  BY <1>7, <1>8, <1>14 DEF IsSnapshot
<1>16. \A s \in Step, k \in Frames' :
         IsEvent(k, s)' => k \in Frames /\ IsEvent(k, s) /\ channel'[k] = channel[k]
  BY <1>4, <1>6, <1>7, <1>8 DEF IsEvent
<1>17. \A s \in Step : (Fresh(s)' <=> Fresh(s)) /\ Older(s)' = Older(s)
  BY <1>1 DEF Fresh, Older
<1>18. ASSUME NEW s \in Step
       PROVE  /\ s = active => missed'[s] = Older(s)
              /\ s # active => missed'[s] = published[s]
              /\ published[s] \in Nat /\ Older(s) \in Int /\ Len(buffer[s]) \in Nat
              /\ published[s] = Older(s) + Len(buffer[s])
  <2>1. published[s] \in Nat /\ Older(s) \in Int /\ Len(buffer[s]) \in Nat
        /\ published[s] = Older(s) + Len(buffer[s])
    BY <1>0, StepTypes
  <2> QED BY <1>1, <2>1 DEF Older
<1>50. /\ NumbersInv /\ PastInv /\ ClosedInv /\ AnnouncedInv /\ BufferInv BY <1>0 DEF DataInv
<1>51. TypeInv'
  <2>1. rows' \in [Step -> 0..2] /\ checks' \in Nat BY <1>1, <1>2
  <2>2. announced' \subseteq Step BY <1>2, <1>9
  <2>3. missed' \in [Step -> Nat]
    <3>1. ASSUME NEW s \in Step PROVE missed'[s] \in Nat
      <4>1. CASE s = active
        <5>1. Fresh(s) BY <4>1 DEF Fresh
        <5> QED BY <1>18, <1>50, <4>1, <5>1 DEF BufferInv
      <4>2. CASE s # active BY <1>18, <4>2
      <4> QED BY <4>1, <4>2
    <3> QED BY <1>1, <3>1
  <2> QED BY <1>0, <1>1, <1>5, <2>1, <2>2, <2>3 DEF TypeInv, TypeOK
<1>52. ClosedInv'
  <2>1. \A k \in Frames' : channel'[k].kind # "close"
    BY <1>50, <1>2, <1>4, <1>6, <1>7, <1>8 DEF ClosedInv
  <2> QED BY <1>1, <1>2, <2>1 DEF ClosedInv
<1>53. SnapshotInv'
  <2>1. IsSnapshot(last)' BY <1>4, <1>6 DEF IsSnapshot
  <2> QED BY <1>1, <1>2, <1>6, <1>15, <2>1 DEF SnapshotInv
<1>54. AnnouncedInv'
  <2>1. \A s \in announced' : s <= step /\ s # active
    BY <1>50, <1>11, <1>12 DEF AnnouncedInv
  <2>2. \A k \in Frames' : channel'[k].kind = "completed" => channel'[k].step \in announced'
    BY <1>50, <1>2, <1>4, <1>6, <1>7, <1>8, <1>9 DEF AnnouncedInv
  <2>3. \A s \in announced' : \A k \in Frames' : ~(IsSnapshot(k)' /\ channel'[k].step = s)
    BY <1>4, <1>6, <1>15, <2>1
  <2>4. ASSUME NEW s \in announced PROVE Settled(s)'
    <3>1. Settled(s) BY <1>50 DEF AnnouncedInv
    <3>2. s \in announced' BY <1>9
    <3> QED BY <1>1, <1>7, <2>3, <3>1, <3>2 DEF Settled, IsCompleted
  <2>5. ASSUME NEW s \in steps PROVE Settled(s)'
    <3>1. PICK k \in Frames' : IsCompleted(k, s)' BY <1>10 DEF IsCompleted
    <3>2. s \in announced' BY <1>9
    <3> QED BY <2>3, <3>1, <3>2 DEF Settled
  <2>6. \A s \in announced' : Settled(s)' BY <1>12, <2>4, <2>5
  <2> QED BY <1>1, <2>1, <2>2, <2>6 DEF AnnouncedInv
<1>55. DeliveredInv'
  <2>1. \A s \in Step : saved[s] > 0 /\ s > after /\ s # active => s \in announced'
    BY <1>0, <1>1, <1>9, <1>13 DEF DeliveredInv
  <2> QED BY <1>1, <2>1 DEF DeliveredInv
<1>56. BufferInv' BY <1>1, <1>17, <1>50 DEF BufferInv
<1>57. NumbersInv'
  <2>1. \A k \in Frames' : channel'[k].kind = "event" => k \in Frames
    BY <1>4, <1>6, <1>8
  <2>2. ASSUME NEW k \in Frames', IsSnapshot(k)', channel'[k].step \in Step,
               NEW i \in 1..Len(channel'[k].events)
        PROVE  channel'[k].events[i] <= published[channel'[k].step]
    <3>1. channel'[k] = f BY <1>6, <1>15, <2>2
    <3>2. PICK s \in Step : s = active BY <1>4, <2>2, <3>1
    <3>3. f.step = s /\ f.events = buffer[s] BY <1>4, <3>2
    <3>4. i \in 1..Len(buffer[s]) BY <2>2, <3>1, <3>3
    <3>5. buffer[s][i] = Older(s) + i BY <1>50, <3>2, <3>4 DEF BufferInv, Fresh
    <3>6. Older(s) + i <= published[s] BY <1>18, <3>4
    <3> QED BY <3>1, <3>3, <3>5, <3>6
  <2> QED BY <1>1, <1>7, <1>50, <2>1, <2>2 DEF NumbersInv
<1>58. PastInv' BY <1>1, <1>16, <1>17, <1>50 DEF PastInv
<1>59. LiveInv' BY <1>1, <1>2 DEF LiveInv
<1>60. AheadInv'
  <2> SUFFICES ASSUME NEW s \in Step, Fresh(s)
               PROVE  Brings(last, s)' /\ Skips(last, s)'
    BY <1>15, <1>17 DEF AheadInv
  <2>1. \A k \in Frames' : ~(k > last) BY <1>6
  <2>2. ASSUME NEW m, m + 1..published'[s] = {} PROVE Follows(last, s, m)'
    <3>1. \A j, k \in Frames' : ~(last < j /\ j < k) BY <1>6
    <3> QED BY <2>1, <2>2, <3>1 DEF Follows
  <2>3. CASE s = active
    <3>1. PICK m \in Nat : m = missed'[s] BY <1>51 DEF TypeInv, TypeOK
    <3>2. f.step = s /\ f.events = buffer[s] /\ m = Older(s) /\ published'[s] = m + Len(buffer[s])
          /\ Len(buffer[s]) \in Nat
      BY <1>1, <1>4, <1>18, <2>3, <3>1
    <3>3. PICK e \in Nat : e = m + Len(f.events) BY <3>2
    <3>4. e = published'[s] BY <3>2, <3>3
    <3>5. e + 1..published'[s] = {} BY <3>4
    <3>6. Follows(last, s, e)' BY <2>2, <3>5
    <3>7. \A i \in 1..Len(f.events) : f.events[i] = m + i
      BY <1>50, <2>3, <3>2 DEF BufferInv, Fresh
    <3>8. e <= published'[s] BY <3>4
    <3>9. Brings(last, s)' BY <1>6, <3>1, <3>2, <3>3, <3>6, <3>7, <3>8 DEF Brings
    <3>10. Skips(last, s)'
      <4>1. channel'[last].cursor = cursor /\ missed'[s] = Older(s) BY <1>4, <1>6, <3>1, <3>2
      <4>2. \A i \in 1..Len(pending) : pending[i].step = s =>
              pending[i].cursor <= cursor \/ pending[i].n <= Older(s)
        BY <1>50 DEF PastInv
      <4>3. ASSUME NEW k \in Frames', IsEvent(k, s)'
            PROVE  channel'[k].event.cursor <= cursor \/ channel'[k].event.n <= Older(s)
        <5>1. k \in Frames /\ IsEvent(k, s) /\ channel'[k] = channel[k] BY <1>16, <4>3
        <5>2. channel[k].event.cursor <= cursor \/ channel[k].event.n <= Older(s)
          BY <1>50, <5>1 DEF PastInv
        <5> QED BY <5>1, <5>2
      <4> QED BY <1>1, <4>1, <4>2, <4>3 DEF Skips
    <3> QED BY <3>9, <3>10
  <2>4. CASE s # active
    <3>1. PICK m \in Nat : m = missed'[s] /\ m = published[s] BY <1>18, <2>4
    <3>2. f.step # s BY <1>4, <2>4
    <3>3. m + 1..published'[s] = {} BY <1>1, <3>1
    <3>4. Follows(last, s, m)' BY <2>2, <3>3
    <3>5. \A i \in 1..Len(view[s].live) : view[s].live[i] <= m BY <1>50, <3>1 DEF NumbersInv
    <3>6. m <= published'[s] BY <1>1, <3>1
    <3>7. Brings(last, s)' BY <1>1, <1>6, <3>1, <3>2, <3>4, <3>5, <3>6 DEF Brings
    <3>8. \A i \in 1..Len(pending) : pending[i].step = s => pending[i].n <= m
      BY <1>50, <3>1 DEF NumbersInv
    <3>9. \A k \in Frames' : IsEvent(k, s)' => channel'[k].event.n <= m
      BY <1>16, <1>50, <3>1 DEF NumbersInv, IsEvent
    <3>10. Skips(last, s)' BY <1>1, <3>1, <3>8, <3>9 DEF Skips
    <3> QED BY <3>7, <3>10
  <2> QED BY <2>3, <2>4
<1>61. BusInv' BY <1>0, <1>1 DEF BusInv
<1> QED BY <1>51, <1>52, <1>53, <1>54, <1>55, <1>56, <1>57, <1>58, <1>59, <1>60, <1>61
    DEF IInv, DataInv

-----------------------------------------------------------------------------
(* The tab.                                                                 *)

\* What the receipt of a frame keeps, whatever the tab makes of it.
LEMMA ReceiptKeeps ==
  ASSUME TypeInv, ClosedInv, SnapshotInv, AnnouncedInv, NumbersInv, PastInv,
         mode = "online", channel # <<>>, channel' = Tail(channel),
         UNCHANGED <<conn, announced, published, step, active, cursor, buffer>>
  PROVE  /\ 1 \in Frames /\ Head(channel) = channel[1] /\ channel[1] \in Frame
         /\ channel' \in Seq(Frame)
         /\ \A k \in Frames' : channel'[k].kind = "close" => k = Len(channel') /\ conn = "none"
         /\ conn # "none" => \A k \in Frames' :
              channel'[k].kind = "completed" => channel'[k].step \in announced
         /\ ~IsSnapshot(1) /\ snapped' = snapped => SnapshotInv'
         /\ \A k \in Frames' : channel'[k].kind = "event" =>
              channel'[k].event.n <= published[channel'[k].event.step]
         /\ \A k \in Frames' : IsSnapshot(k)' /\ channel'[k].step \in Step =>
              \A i \in 1..Len(channel'[k].events) :
                channel'[k].events[i] <= published[channel'[k].step]
         /\ \A s \in Step : Fresh(s) => \A k \in Frames' : IsEvent(k, s)' =>
              channel'[k].event.cursor <= cursor \/ channel'[k].event.n <= Older(s)
         /\ \A s \in Step : (Fresh(s)' <=> Fresh(s)) /\ Older(s)' = Older(s)
<1>1. channel \in Seq(Frame) BY DEF TypeInv
<1>2. /\ channel' \in Seq(Frame) /\ Len(channel) \in Nat \ {0}
      /\ Len(channel') = Len(channel) - 1
      /\ 1 \in Frames /\ Head(channel) = channel[1] /\ channel[1] \in Frame
      /\ \A k \in Frames' : /\ k \in Nat /\ k > 0 /\ k + 1 \in Frames
                            /\ channel'[k] = channel[k + 1]
      /\ \A k \in Frames : k # 1 => /\ k - 1 \in Frames' /\ k - 1 \in Nat /\ (k - 1) + 1 = k
                                    /\ channel'[k - 1] = channel[k]
  BY <1>1, ReceiveFacts
<1>3. ASSUME NEW k \in Frames', channel'[k].kind = "close" PROVE k = Len(channel') /\ conn = "none"
  <2>1. k + 1 = Len(channel) /\ conn = "none" BY <1>2, <1>3 DEF ClosedInv
  <2> QED BY <1>2, <2>1
<1>4. ASSUME conn # "none", NEW k \in Frames', channel'[k].kind = "completed"
      PROVE  channel'[k].step \in announced
  <2>1. k + 1 \in Frames /\ channel'[k] = channel[k + 1] BY <1>2
  <2> QED BY <1>4, <2>1 DEF AnnouncedInv
<1>5. \A k \in Frames' : IsSnapshot(k)' <=> IsSnapshot(k + 1) BY <1>2 DEF IsSnapshot
<1>6. ASSUME ~IsSnapshot(1), snapped' = snapped PROVE SnapshotInv'
  <2>1. (\E k \in Frames : IsSnapshot(k)) => \E k \in Frames' : IsSnapshot(k)'
    <3>1. ASSUME NEW k \in Frames, IsSnapshot(k) PROVE \E j \in Frames' : IsSnapshot(j)'
      <4>1. PICK j \in Frames' : j + 1 = k BY <1>2, <1>6, <3>1
      <4> QED BY <1>5, <3>1, <4>1
    <3> QED BY <3>1
  <2>2. ASSUME conn = "open", NEW i \in Frames', NEW j \in Frames', IsSnapshot(i)', IsSnapshot(j)'
        PROVE  i = j
    <3>1. i + 1 = j + 1 BY <1>2, <1>5, <2>2 DEF SnapshotInv
    <3> QED BY <1>2, <3>1
  <2>3. (\A k \in Frames : ~IsSnapshot(k)) => \A k \in Frames' : ~IsSnapshot(k)' BY <1>2, <1>5
  <2> QED BY <1>6, <2>1, <2>2, <2>3 DEF SnapshotInv
<1>7. ASSUME NEW k \in Frames', channel'[k].kind = "event"
      PROVE  channel'[k].event.n <= published[channel'[k].event.step]
  <2>1. k + 1 \in Frames /\ channel'[k] = channel[k + 1] BY <1>2
  <2> QED BY <1>7, <2>1 DEF NumbersInv
<1>8. ASSUME NEW k \in Frames', IsSnapshot(k)', channel'[k].step \in Step,
             NEW i \in 1..Len(channel'[k].events)
      PROVE  channel'[k].events[i] <= published[channel'[k].step]
  <2>1. k + 1 \in Frames /\ channel'[k] = channel[k + 1] /\ IsSnapshot(k + 1) BY <1>2, <1>5, <1>8
  <2> QED BY <1>8, <2>1 DEF NumbersInv
<1>9. ASSUME NEW s \in Step, Fresh(s), NEW k \in Frames', IsEvent(k, s)'
      PROVE  channel'[k].event.cursor <= cursor \/ channel'[k].event.n <= Older(s)
  <2>1. k + 1 \in Frames /\ IsEvent(k + 1, s) /\ channel'[k] = channel[k + 1]
    BY <1>2, <1>9 DEF IsEvent
  <2> QED BY <1>9, <2>1 DEF PastInv
<1>10. \A s \in Step : (Fresh(s)' <=> Fresh(s)) /\ Older(s)' = Older(s) BY DEF Fresh, Older
<1> QED BY <1>2, <1>3, <1>4, <1>6, <1>7, <1>8, <1>9, <1>10

\* The first frame goes to a tab that has no snapshot yet: the others behind
\* the snapshot stay, and those before it.
LEMMA ReceiptAhead ==
  ASSUME TypeInv, AheadInv, channel # <<>>, channel' = Tail(channel),
         UNCHANGED <<conn, snapped, published, missed, step, active>>,
         \A s \in Step : Fresh(s) /\ conn = "open" => view'[s] = view[s],
         \A i \in 1..Len(pending') :
           \/ i \in 1..Len(pending) /\ pending'[i] = pending[i]
           \/ channel[1].kind = "event" /\ pending'[i] = channel[1].event
  PROVE  AheadInv'
<1> SUFFICES ASSUME conn = "open", ~snapped, NEW p \in Frames', IsSnapshot(p)',
                    NEW s \in Step, Fresh(s)
             PROVE  Brings(p, s)' /\ Skips(p, s)'
  BY DEF AheadInv, Fresh
<1>1. channel \in Seq(Frame) BY DEF TypeInv
<1>2. /\ 1 \in Frames
      /\ \A k \in Frames' : /\ k \in Nat /\ k > 0 /\ k + 1 \in Frames
                            /\ channel'[k] = channel[k + 1]
  BY <1>1, ReceiveFacts
<1>3. PICK q \in Frames : q = p + 1 /\ IsSnapshot(q) /\ channel'[p] = channel[q] /\ q > 1
  <2>1. p \in Nat /\ p > 0 /\ p + 1 \in Frames /\ channel'[p] = channel[p + 1] BY <1>2, Zenon
  <2>2. IsSnapshot(p + 1) BY <2>1 DEF IsSnapshot
  <2>3. p + 1 > 1 BY <2>1
  <2> QED BY <2>1, <2>2, <2>3, Zenon
<1>4. Brings(q, s) /\ Skips(q, s) BY <1>3 DEF AheadInv
<1>5. view'[s] = view[s] /\ p \in Nat /\ missed[s] \in Nat BY <1>2, StepTypes
<1>6. ASSUME NEW m \in Nat, Follows(q, s, m) PROVE Follows(p, s, m)'
  BY <1>1, <1>3, <1>5, <1>6, TailFollows
<1>7. Brings(p, s)'
  <2>1. CASE channel[q].step = s
    <3>1. channel[q].events \in Seq(Nat) BY <1>3, InFlight DEF IsSnapshot
    <3>2. PICK m \in Nat : m = missed[s] + Len(channel[q].events) BY <1>5, <3>1
    <3>3. Follows(p, s, m)' BY <1>4, <1>6, <2>1, <3>2 DEF Brings
    <3> QED BY <1>3, <1>4, <2>1, <3>2, <3>3 DEF Brings
  <2>2. CASE channel[q].step # s
    <3>1. PICK m \in Nat : m = missed[s] BY <1>5
    <3>2. Follows(p, s, m)' BY <1>4, <1>6, <2>2, <3>1 DEF Brings
    <3> QED BY <1>3, <1>4, <1>5, <2>2, <3>1, <3>2 DEF Brings
  <2> QED BY <2>1, <2>2
<1>8. Skips(p, s)'
  <2>1. ASSUME NEW i \in 1..Len(pending'), pending'[i].step = s
        PROVE  pending'[i].cursor <= channel'[p].cursor \/ pending'[i].n <= missed[s]
    <3>1. CASE i \in 1..Len(pending) /\ pending'[i] = pending[i]
      BY <1>3, <1>4, <2>1, <3>1 DEF Skips
    <3>2. CASE channel[1].kind = "event" /\ pending'[i] = channel[1].event
      <4>1. IsEvent(1, s) BY <2>1, <3>2 DEF IsEvent
      <4> QED BY <1>2, <1>3, <1>4, <3>2, <4>1 DEF Skips
    <3> QED BY <3>1, <3>2
  <2>2. ASSUME NEW k \in Frames', k < p, IsEvent(k, s)'
        PROVE  channel'[k].event.cursor <= channel'[p].cursor \/ channel'[k].event.n <= missed[s]
    <3>1. k + 1 \in Frames /\ k \in Nat /\ channel'[k] = channel[k + 1] BY <1>2
    <3>2. k + 1 < q BY <1>3, <1>5, <2>2, <3>1
    <3>3. IsEvent(k + 1, s) BY <2>2, <3>1 DEF IsEvent
    <3> QED BY <1>3, <1>4, <3>1, <3>2, <3>3 DEF Skips
  <2> QED BY <2>1, <2>2 DEF Skips
<1> QED BY <1>7, <1>8

\* One more event behind those up to m.
LEMMA HasNext ==
  ASSUME NEW live \in Seq(Nat), NEW b \in Nat, NEW m \in Nat, Has(live, b, m)
  PROVE  Has(Append(live, m + 1), b, m + 1)
<1> DEFINE new == Append(live, m + 1)
<1>1. /\ Len(live) \in Nat /\ Len(new) = Len(live) + 1
      /\ \A i \in 1..Len(live) : new[i] = live[i] /\ live[i] \in Nat
      /\ new[Len(live) + 1] = m + 1
  OBVIOUS
<1> HIDE DEF new
<1>2. \A i \in 1..Len(new) : i \in 1..Len(live) \/ i = Len(live) + 1 BY <1>1
<1>3. \A i \in 1..Len(live) : live[i] <= m BY DEF Has
<1>4. \A i \in 1..Len(new) : new[i] <= m + 1 BY <1>1, <1>2, <1>3
<1>5. ASSUME NEW i \in 1..Len(new), NEW j \in 1..Len(new), i < j, new[i] > b, new[j] > b
      PROVE  new[i] < new[j]
  <2>1. i \in 1..Len(live) BY <1>1, <1>2, <1>5
  <2>2. CASE j \in 1..Len(live) BY <1>1, <1>5, <2>1, <2>2 DEF Has
  <2>3. CASE j = Len(live) + 1 BY <1>1, <1>3, <2>1, <2>3
  <2> QED BY <1>2, <2>2, <2>3
<1>6. ASSUME NEW n \in b + 1..m + 1 PROVE \E i \in 1..Len(new) : new[i] = n
  <2>1. CASE n = m + 1
    <3>1. PICK i \in 1..Len(new) : i = Len(live) + 1 BY <1>1
    <3> QED BY <1>1, <2>1, <3>1
  <2>2. CASE n # m + 1
    <3>1. n \in b + 1..m BY <2>2
    <3>2. PICK i \in 1..Len(live) : live[i] = n BY <3>1 DEF Has
    <3>3. i \in 1..Len(new) /\ new[i] = n BY <1>1, <3>2
    <3> QED BY <3>3
  <2> QED BY <2>1, <2>2
<1>7. Has(new, b, m + 1) BY <1>4, <1>5, <1>6 DEF Has
<1> QED BY <1>7 DEF new

\* The rows of a buffer.
LEMMA HasRows ==
  ASSUME NEW live \in Seq(Nat), NEW b \in Nat, \A i \in 1..Len(live) : live[i] = b + i
  PROVE  Has(live, b, b + Len(live))
<1>1. Len(live) \in Nat OBVIOUS
<1>2. ASSUME NEW n \in b + 1..b + Len(live) PROVE \E i \in 1..Len(live) : live[i] = n
  <2>1. PICK i \in 1..Len(live) : n = b + i
    <3>1. n - b \in 1..Len(live) /\ n = b + (n - b) BY <1>1
    <3> QED BY <3>1
  <2> QED BY <2>1
<1>3. \A i \in 1..Len(live) : live[i] <= b + Len(live) BY <1>1
<1>4. \A i, j \in 1..Len(live) : i < j => live[i] < live[j] BY <1>1
<1> QED BY <1>2, <1>3, <1>4 DEF Has

\* Events that are not asked for do not matter.
LEMMA HasMore ==
  ASSUME NEW old \in Seq(Nat), NEW new \in Seq(Nat), NEW b \in Nat, NEW m \in Nat, b <= m,
         Has(old, b, m), NEW s, NEW es, NEW c,
         Grown(old, new, s, es, c),
         \A k \in 1..Len(es) : es[k].step = s /\ es[k].cursor > c => es[k].n <= b
  PROVE  Has(new, b, m)
<1>1. /\ Len(old) \in Nat /\ Len(new) \in Nat /\ Len(old) <= Len(new)
      /\ \A i \in 1..Len(old) : old[i] \in Nat /\ i \in 1..Len(new) /\ new[i] = old[i]
      /\ \A i \in 1..Len(new) : new[i] \in Nat
  BY DEF Grown
<1>2. ASSUME NEW i \in 1..Len(new), i \notin 1..Len(old) PROVE new[i] <= b
  <2>1. i > Len(old) BY <1>1, <1>2
  <2>2. PICK k \in 1..Len(es) : es[k].step = s /\ es[k].cursor > c /\ new[i] = es[k].n
    BY <2>1 DEF Grown
  <2> QED BY <2>2
<1>3. ASSUME NEW i \in 1..Len(new) PROVE new[i] <= m
  <2>1. CASE i \in 1..Len(old) BY <1>1, <2>1 DEF Has
  <2>2. CASE i \notin 1..Len(old)
    <3>1. new[i] <= b /\ new[i] \in Nat BY <1>1, <1>2, <2>2
    <3> QED BY <3>1
  <2> QED BY <2>1, <2>2
<1>4. ASSUME NEW i \in 1..Len(new), NEW j \in 1..Len(new), i < j, new[i] > b, new[j] > b
      PROVE  new[i] < new[j]
  <2>1. i \in 1..Len(old) /\ j \in 1..Len(old) BY <1>1, <1>2, <1>4
  <2> QED BY <1>1, <1>4, <2>1 DEF Has
<1>5. \A n \in b + 1..m : \E i \in 1..Len(new) : new[i] = n BY <1>1 DEF Has
<1> QED BY <1>3, <1>4, <1>5 DEF Has

\* An event is received: behind the snapshot it is the next one shown.
LEMMA ReceiveEventStep == ASSUME IInv, ReceiveEvent PROVE IInv'
<1>0. /\ TypeInv /\ BusInv /\ DeliveredInv /\ BufferInv /\ NumbersInv /\ PastInv /\ ClosedInv
      /\ SnapshotInv /\ AnnouncedInv /\ LiveInv /\ AheadInv
  BY DEF IInv, DataInv
<1>1. /\ mode = "online" /\ channel # <<>> /\ Head(channel).kind = "event"
      /\ channel' = Tail(channel)
      /\ status' = status /\ saved' = saved /\ pc' = pc /\ step' = step /\ published' = published
      /\ since' = since /\ active' = active /\ cursor' = cursor /\ buffer' = buffer
      /\ conn' = conn /\ after' = after /\ rows' = rows /\ announced' = announced
      /\ checks' = checks /\ mode' = mode /\ snapped' = snapped /\ through' = through
      /\ missed' = missed /\ quiet' = quiet
  BY DEF ReceiveEvent, Receives, dbVars, execVars, busVars, connVars, connHistory
<1>2. /\ 1 \in Frames /\ Head(channel) = channel[1] /\ channel[1] \in Frame
      /\ channel' \in Seq(Frame)
      /\ \A k \in Frames' : channel'[k].kind = "close" => k = Len(channel') /\ conn = "none"
      /\ conn # "none" => \A k \in Frames' :
           channel'[k].kind = "completed" => channel'[k].step \in announced
      /\ ~IsSnapshot(1) => SnapshotInv'
      /\ \A k \in Frames' : channel'[k].kind = "event" =>
           channel'[k].event.n <= published[channel'[k].event.step]
      /\ \A k \in Frames' : IsSnapshot(k)' /\ channel'[k].step \in Step =>
           \A i \in 1..Len(channel'[k].events) :
             channel'[k].events[i] <= published[channel'[k].step]
      /\ \A s \in Step : Fresh(s) => \A k \in Frames' : IsEvent(k, s)' =>
           channel'[k].event.cursor <= cursor \/ channel'[k].event.n <= Older(s)
      /\ \A s \in Step : (Fresh(s)' <=> Fresh(s)) /\ Older(s)' = Older(s)
  BY <1>0, <1>1, ReceiptKeeps
<1>3. PICK e \in Event : e = channel[1].event /\ e = Head(channel).event /\ channel[1].kind = "event"
  BY <1>1, <1>2, FrameParts
<1>4. snapped => view' = AddEvent(view, e) /\ pending' = pending BY <1>3 DEF ReceiveEvent
<1>5. ~snapped => view' = view /\ pending' = Append(pending, e) BY <1>3 DEF ReceiveEvent
<1>6. /\ view \in [Step -> Shown] /\ pending \in Seq(Event) /\ (snapped => pending = <<>>)
      /\ channel \in Seq(Frame)
  BY <1>0 DEF TypeInv, TypeOK
<1>7. /\ view' \in [Step -> Shown]
      /\ \A s \in Step : view'[s].level = view[s].level
      /\ \A s \in Step : s # e.step => view'[s] = view[s]
      /\ snapped => view'[e.step].live = Append(view[e.step].live, e.n)
      /\ e.step \in Step
  BY <1>4, <1>5, <1>6, AddEventFacts
<1>8. /\ pending' \in Seq(Event)
      /\ \A i \in 1..Len(pending') : \/ i \in 1..Len(pending) /\ pending'[i] = pending[i]
                                     \/ ~snapped /\ pending'[i] = e
  <2>1. CASE snapped BY <1>4, <1>6, <2>1
  <2>2. CASE ~snapped
    <3>1. /\ Append(pending, e) \in Seq(Event) /\ Len(pending) \in Nat
          /\ Len(Append(pending, e)) = Len(pending) + 1
          /\ \A k \in 1..Len(pending) : Append(pending, e)[k] = pending[k]
          /\ Append(pending, e)[Len(pending) + 1] = e
      BY <1>6, AppendFacts
    <3>2. pending' = Append(pending, e) BY <1>5, <2>2
    <3>3. \A i \in 1..Len(pending) + 1 : i \in 1..Len(pending) \/ i = Len(pending) + 1 BY <3>1
    <3> QED BY <2>2, <3>1, <3>2, <3>3
  <2> QED BY <2>1, <2>2
<1>9. ~IsSnapshot(1) /\ (\A s : ~IsCompleted(1, s)) /\ IsEvent(1, e.step)
  BY <1>3 DEF IsSnapshot, IsCompleted, IsEvent
<1>10. e.n \in Nat /\ e.cursor \in Nat /\ e.n <= published[e.step]
  <2>1. e.n \in Nat /\ e.cursor \in Nat BY DEF Event
  <2>2. e.n <= published[e.step] BY <1>0, <1>2, <1>3 DEF NumbersInv
  <2> QED BY <2>1, <2>2
<1>51. TypeInv'
  <2>1. snapped' => pending' = <<>> BY <1>1, <1>4, <1>6
  <2> QED BY <1>0, <1>1, <1>2, <1>7, <1>8, <2>1 DEF TypeInv, TypeOK
<1>52. BusInv' /\ DeliveredInv' BY <1>0, <1>1 DEF BusInv, DeliveredInv
<1>53. BufferInv' BY <1>0, <1>1, <1>2 DEF BufferInv
<1>54. NumbersInv'
  <2>1. ASSUME NEW s \in Step, NEW i \in 1..Len(view'[s].live)
        PROVE  view'[s].live[i] <= published[s]
    <3>1. CASE snapped /\ s = e.step
      <4>1. view[s].live \in Seq(Nat) BY <1>0, StepTypes
      <4>2. view'[s].live = Append(view[s].live, e.n) BY <1>7, <3>1
      <4>3. \/ i \in 1..Len(view[s].live) /\ view'[s].live[i] = view[s].live[i]
            \/ view'[s].live[i] = e.n
        BY <1>10, <2>1, <4>1, <4>2, AppendFacts
      <4> QED BY <1>0, <1>10, <3>1, <4>3 DEF NumbersInv
    <3>2. CASE ~(snapped /\ s = e.step)
      <4>1. view'[s] = view[s] BY <1>5, <1>7, <3>2
      <4> QED BY <1>0, <2>1, <4>1 DEF NumbersInv
    <3> QED BY <3>1, <3>2
  <2>2. ASSUME NEW i \in 1..Len(pending') PROVE pending'[i].n <= published[pending'[i].step]
    <3>1. CASE i \in 1..Len(pending) /\ pending'[i] = pending[i]
      BY <1>0, <3>1 DEF NumbersInv
    <3>2. CASE pending'[i] = e BY <1>10, <3>2
    <3> QED BY <1>8, <3>1, <3>2
  <2> QED BY <1>1, <1>2, <2>1, <2>2 DEF NumbersInv
<1>55. PastInv'
  <2> SUFFICES ASSUME NEW s \in Step, Fresh(s), NEW i \in 1..Len(pending'), pending'[i].step = s
               PROVE  pending'[i].cursor <= cursor \/ pending'[i].n <= Older(s)
    BY <1>1, <1>2 DEF PastInv
  <2>1. CASE i \in 1..Len(pending) /\ pending'[i] = pending[i] BY <1>0, <2>1 DEF PastInv
  <2>2. CASE pending'[i] = e
    <3>1. IsEvent(1, s) BY <1>9, <2>2
    <3> QED BY <1>0, <1>2, <1>3, <2>2, <3>1 DEF PastInv
  <2> QED BY <1>8, <2>1, <2>2
<1>56. ClosedInv'
  BY <1>0, <1>1, <1>2 DEF ClosedInv
<1>57. SnapshotInv' BY <1>2, <1>9
<1>58. AnnouncedInv'
  <2>1. ASSUME NEW s \in announced PROVE Settled(s)'
    <3>1. Settled(s) /\ s \in Step BY <1>0 DEF AnnouncedInv, TypeInv, TypeOK
    <3>2. ~IsCompleted(1, s) BY <1>9
    <3>3. view[s].level > 0 => view'[s].level > 0 BY <1>7, <3>1
    <3> QED BY <1>1, <1>6, <3>1, <3>2, <3>3, ReceiveSettled
  <2> QED BY <1>0, <1>1, <1>2, <2>1 DEF AnnouncedInv
<1>59. LiveInv'
  <2> SUFFICES ASSUME conn = "open", snapped, NEW s \in Step, Fresh(s) PROVE Live(s)'
    BY <1>1, <1>2 DEF LiveInv
  <2>1. Live(s) BY <1>0 DEF LiveInv
  <2>2. /\ missed[s] \in Nat /\ published[s] \in Nat /\ view[s].live \in Seq(Nat)
    BY <1>0, StepTypes
  <2>3. PICK m \in Nat : /\ m \in missed[s]..published[s]
                         /\ Has(view[s].live, missed[s], m) /\ Follows(0, s, m)
    BY <2>1, <2>2 DEF Live
  <2>4. CASE e.step = s
    <3>1. IsEvent(1, s) BY <1>9, <2>4
    <3>2. e.n = m + 1 /\ Follows(1, s, m + 1) BY <1>1, <1>3, <1>6, <2>2, <2>3, <3>1, HeadFollows
    <3>3. PICK l \in Nat : l = m + 1 OBVIOUS
    <3>4. Follows(0 + 1, s, l) BY <3>2, <3>3
    <3>5. Follows(0, s, l)' BY <1>1, <1>6, <3>4, TailFollows
    <3>6. Has(Append(view[s].live, m + 1), missed[s], m + 1) BY <2>2, <2>3, HasNext
    <3>7. Has(view'[s].live, missed'[s], l) BY <1>1, <1>7, <2>4, <3>2, <3>3, <3>6
    <3>8. l \in missed'[s]..published'[s] BY <1>1, <1>10, <2>2, <2>3, <2>4, <3>2, <3>3
    <3> QED BY <3>5, <3>7, <3>8 DEF Live, Has
  <2>5. CASE e.step # s
    <3>1. ~IsEvent(1, s) BY <1>3, <2>5 DEF IsEvent
    <3>2. Follows(0 + 1, s, m) BY <1>1, <1>6, <2>2, <2>3, <3>1, HeadFollows
    <3>3. Follows(0, s, m)' BY <1>1, <1>6, <2>3, <3>2, TailFollows
    <3>4. view'[s] = view[s] BY <1>7, <2>5
    <3> QED BY <1>1, <2>3, <3>3, <3>4 DEF Live, Has
  <2> QED BY <2>4, <2>5
<1>60. AheadInv'
  <2>1. CASE snapped BY <1>1, <2>1 DEF AheadInv
  <2>2. CASE ~snapped
    <3>1. view' = view BY <1>5, <2>2
    <3>2. \A i \in 1..Len(pending') :
            \/ i \in 1..Len(pending) /\ pending'[i] = pending[i]
            \/ channel[1].kind = "event" /\ pending'[i] = channel[1].event
      BY <1>3, <1>8
    <3> QED BY <1>0, <1>1, <3>1, <3>2, ReceiptAhead
  <2> QED BY <2>1, <2>2
<1> QED BY <1>51, <1>52, <1>53, <1>54, <1>55, <1>56, <1>57, <1>58, <1>59, <1>60 DEF IInv, DataInv

\* A stored step is received: no tab that has a socket has it in progress.
LEMMA ReceiveCompletedStep == ASSUME IInv, ReceiveCompleted PROVE IInv'
<1>0. /\ TypeInv /\ BusInv /\ DeliveredInv /\ BufferInv /\ NumbersInv /\ PastInv /\ ClosedInv
      /\ SnapshotInv /\ AnnouncedInv /\ LiveInv /\ AheadInv
  BY DEF IInv, DataInv
<1>1. /\ mode = "online" /\ channel # <<>> /\ Head(channel).kind = "completed"
      /\ channel' = Tail(channel)
      /\ status' = status /\ saved' = saved /\ pc' = pc /\ step' = step /\ published' = published
      /\ since' = since /\ active' = active /\ cursor' = cursor /\ buffer' = buffer
      /\ conn' = conn /\ after' = after /\ rows' = rows /\ announced' = announced
      /\ checks' = checks /\ mode' = mode /\ snapped' = snapped /\ pending' = pending
      /\ missed' = missed /\ quiet' = quiet
  BY DEF ReceiveCompleted, Receives, dbVars, execVars, busVars, connVars, connHistory
<1>2. /\ 1 \in Frames /\ Head(channel) = channel[1] /\ channel[1] \in Frame
      /\ channel' \in Seq(Frame)
      /\ \A k \in Frames' : channel'[k].kind = "close" => k = Len(channel') /\ conn = "none"
      /\ conn # "none" => \A k \in Frames' :
           channel'[k].kind = "completed" => channel'[k].step \in announced
      /\ ~IsSnapshot(1) => SnapshotInv'
      /\ \A k \in Frames' : channel'[k].kind = "event" =>
           channel'[k].event.n <= published[channel'[k].event.step]
      /\ \A k \in Frames' : IsSnapshot(k)' /\ channel'[k].step \in Step =>
           \A i \in 1..Len(channel'[k].events) :
             channel'[k].events[i] <= published[channel'[k].step]
      /\ \A s \in Step : Fresh(s) => \A k \in Frames' : IsEvent(k, s)' =>
           channel'[k].event.cursor <= cursor \/ channel'[k].event.n <= Older(s)
      /\ \A s \in Step : (Fresh(s)' <=> Fresh(s)) /\ Older(s)' = Older(s)
  BY <1>0, <1>1, ReceiptKeeps
<1>3. PICK f \in Frame : /\ f = channel[1] /\ f.kind = "completed"
                         /\ f.step \in Step /\ f.level \in 1..2
                         /\ view' = [view EXCEPT ![f.step] = [level |-> f.level, live |-> <<>>]]
                         /\ through' = IF f.step > through THEN f.step ELSE through
  <2>1. Head(channel).step \in Step /\ Head(channel).level \in 1..2 BY <1>1, <1>2, FrameParts
  <2> QED BY <1>1, <1>2, <2>1 DEF ReceiveCompleted
<1>4. /\ view \in [Step -> Shown] /\ through \in 0..MaxStep /\ MaxStep \in Nat
      /\ channel \in Seq(Frame)
  BY <1>0, StreamAssumption DEF TypeInv, TypeOK
<1>5. /\ view' \in [Step -> Shown]
      /\ view'[f.step].level > 0 /\ view'[f.step].live = <<>>
      /\ \A s \in Step : s # f.step => view'[s] = view[s]
  <2>1. PICK r \in Shown : r = [level |-> f.level, live |-> <<>>] /\ r.level = f.level /\ r.live = <<>>
    <3>1. f.level \in 0..2 BY <1>3
    <3>2. <<>> \in Seq(Nat) OBVIOUS
    <3>3. \E r \in Shown : /\ r = [level |-> f.level, live |-> <<>>]
                           /\ r.level = f.level /\ r.live = <<>>
      BY <3>1, <3>2, ShownRecord, Zenon
    <3> QED BY <3>3, Zenon
  <2>2. view' = [view EXCEPT ![f.step] = r] BY <1>3, <2>1
  <2> QED BY <1>3, <1>4, <2>1, <2>2
<1>6. ~IsSnapshot(1) /\ (\A s : ~IsEvent(1, s)) /\ channel[1].kind # "event"
  BY <1>3 DEF IsSnapshot, IsEvent
<1>7. \A s \in Step : Fresh(s) /\ conn # "none" => view'[s] = view[s]
  <2>1. conn # "none" => f.step \in announced BY <1>0, <1>2, <1>3 DEF AnnouncedInv
  <2>2. conn # "none" => f.step <= step /\ f.step # active BY <1>0, <2>1 DEF AnnouncedInv
  <2>3. step \in Nat /\ \A s \in Step : s \in Nat BY <1>0 DEF TypeInv, TypeOK, Step
  <2>4. conn # "none" => ~Fresh(f.step) BY <1>3, <2>2, <2>3 DEF Fresh
  <2> QED BY <1>5, <2>4
<1>51. TypeInv'
  <2>1. through' \in 0..MaxStep BY <1>3, <1>4 DEF Step
  <2> QED BY <1>0, <1>1, <1>2, <1>5, <2>1 DEF TypeInv, TypeOK
<1>52. BusInv' /\ DeliveredInv' BY <1>0, <1>1 DEF BusInv, DeliveredInv
<1>53. BufferInv' BY <1>0, <1>1, <1>2 DEF BufferInv
<1>54. NumbersInv'
  <2>1. ASSUME NEW s \in Step, NEW i \in 1..Len(view'[s].live)
        PROVE  view'[s].live[i] <= published[s]
    <3>1. s # f.step BY <1>5, <2>1
    <3>2. view'[s] = view[s] BY <1>5, <3>1
    <3> QED BY <1>0, <2>1, <3>2 DEF NumbersInv
  <2>2. \A i \in 1..Len(pending) : pending[i].n <= published[pending[i].step]
    BY <1>0 DEF NumbersInv
  <2> QED BY <1>1, <1>2, <2>1, <2>2 DEF NumbersInv
<1>55. PastInv' BY <1>0, <1>1, <1>2 DEF PastInv
<1>56. ClosedInv'
  BY <1>0, <1>1, <1>2 DEF ClosedInv
<1>57. SnapshotInv' BY <1>2, <1>6
<1>58. AnnouncedInv'
  <2>1. ASSUME NEW s \in announced PROVE Settled(s)'
    <3>1. Settled(s) /\ s \in Step BY <1>0 DEF AnnouncedInv, TypeInv, TypeOK
    <3>2. IsCompleted(1, s) => view'[s].level > 0 BY <1>3, <1>5 DEF IsCompleted
    <3>3. view[s].level > 0 => view'[s].level > 0 BY <1>5, <3>1
    <3> QED BY <1>1, <1>4, <3>1, <3>2, <3>3, ReceiveSettled
  <2> QED BY <1>0, <1>1, <1>2, <2>1 DEF AnnouncedInv
<1>59. LiveInv'
  <2> SUFFICES ASSUME conn = "open", snapped, NEW s \in Step, Fresh(s) PROVE Live(s)'
    BY <1>1, <1>2 DEF LiveInv
  <2>1. Live(s) BY <1>0 DEF LiveInv
  <2>2. missed[s] \in Nat /\ published[s] \in Nat BY <1>0, StepTypes
  <2>3. PICK m \in Nat : /\ m \in missed[s]..published[s]
                         /\ Has(view[s].live, missed[s], m) /\ Follows(0, s, m)
    BY <2>1, <2>2 DEF Live
  <2>4. Follows(0 + 1, s, m) BY <1>1, <1>4, <1>6, <2>2, <2>3, HeadFollows
  <2>5. Follows(0, s, m)' BY <1>1, <1>4, <2>3, <2>4, TailFollows
  <2>6. view'[s] = view[s] BY <1>7
  <2> QED BY <1>1, <2>3, <2>5, <2>6 DEF Live, Has
<1>60. AheadInv'
  <2>1. \A s \in Step : Fresh(s) /\ conn = "open" => view'[s] = view[s] BY <1>7
  <2>2. \A i \in 1..Len(pending') : i \in 1..Len(pending) /\ pending'[i] = pending[i] BY <1>1
  <2> QED BY <1>0, <1>1, <2>1, <2>2, ReceiptAhead
<1> QED BY <1>51, <1>52, <1>53, <1>54, <1>55, <1>56, <1>57, <1>58, <1>59, <1>60 DEF IInv, DataInv

\* The snapshot is received: with what is behind it, all that was not missed.
LEMMA ReceiveSnapshotStep == ASSUME IInv, ReceiveSnapshot PROVE IInv'
<1>0. /\ TypeInv /\ BusInv /\ DeliveredInv /\ BufferInv /\ NumbersInv /\ PastInv /\ ClosedInv
      /\ SnapshotInv /\ AnnouncedInv /\ LiveInv /\ AheadInv
  BY DEF IInv, DataInv
<1>1. /\ mode = "online" /\ channel # <<>> /\ Head(channel).kind = "snapshot"
      /\ channel' = Tail(channel) /\ snapped' = TRUE /\ pending' = <<>>
      /\ status' = status /\ saved' = saved /\ pc' = pc /\ step' = step /\ published' = published
      /\ since' = since /\ active' = active /\ cursor' = cursor /\ buffer' = buffer
      /\ conn' = conn /\ after' = after /\ rows' = rows /\ announced' = announced
      /\ checks' = checks /\ mode' = mode /\ through' = through
      /\ missed' = missed /\ quiet' = quiet
  BY DEF ReceiveSnapshot, Receives, PendingGone, dbVars, execVars, busVars, connVars, connHistory
<1>2. /\ 1 \in Frames /\ Head(channel) = channel[1] /\ channel[1] \in Frame
      /\ channel' \in Seq(Frame)
      /\ \A k \in Frames' : channel'[k].kind = "close" => k = Len(channel') /\ conn = "none"
      /\ conn # "none" => \A k \in Frames' :
           channel'[k].kind = "completed" => channel'[k].step \in announced
      /\ \A k \in Frames' : channel'[k].kind = "event" =>
           channel'[k].event.n <= published[channel'[k].event.step]
      /\ \A k \in Frames' : IsSnapshot(k)' /\ channel'[k].step \in Step =>
           \A i \in 1..Len(channel'[k].events) :
             channel'[k].events[i] <= published[channel'[k].step]
      /\ \A s \in Step : Fresh(s) => \A k \in Frames' : IsEvent(k, s)' =>
           channel'[k].event.cursor <= cursor \/ channel'[k].event.n <= Older(s)
      /\ \A s \in Step : (Fresh(s)' <=> Fresh(s)) /\ Older(s)' = Older(s)
  BY <1>0, <1>1, ReceiptKeeps
<1>3. PICK f \in Frame : /\ f = channel[1] /\ f = Head(channel) /\ f.kind = "snapshot"
                         /\ f.step \in 0..MaxStep /\ f.events \in Seq(Nat) /\ f.cursor \in Nat
  BY <1>1, <1>2, FrameParts
<1>4. /\ view \in [Step -> Shown] /\ pending \in Seq(Event) /\ MaxStep \in Nat
      /\ channel \in Seq(Frame)
  BY <1>0, StreamAssumption DEF TypeInv, TypeOK
<1>5. PICK v \in [Step -> Shown] :
        /\ \A s \in Step : s # f.step => v[s] = view[s]
        /\ f.step # 0 => v[f.step].live = f.events
        /\ view' = AddAll(v, pending, f.cursor)
  <2>1. CASE f.step = 0
    <3>1. view' = AddAll(view, pending, f.cursor) BY <1>3, <2>1 DEF ReceiveSnapshot, AddNewer
    <3> QED BY <1>4, <2>1, <3>1
  <2>2. CASE f.step # 0
    <3>1. PICK r \in Shown : r = [level |-> 0, live |-> f.events] /\ r.live = f.events
      <4>1. 0 \in 0..2 OBVIOUS
      <4>2. f.events \in Seq(Nat) BY <1>3
      <4>3. \E r \in Shown : /\ r = [level |-> 0, live |-> f.events]
                             /\ r.level = 0 /\ r.live = f.events
        BY <4>1, <4>2, ShownRecord, Zenon
      <4> QED BY <4>3, Zenon
    <3> DEFINE w == [view EXCEPT ![f.step] = r]
    <3>2. f.step \in Step BY <1>3, <1>4, <2>2 DEF Step
    <3>3. /\ w \in [Step -> Shown] /\ \A s \in Step : s # f.step => w[s] = view[s]
          /\ w[f.step].live = f.events
      BY <1>4, <3>1, <3>2
    <3>4. view' = AddAll(w, pending, f.cursor)
      BY <1>3, <2>2, <3>1 DEF ReceiveSnapshot, AddNewer
    <3> HIDE DEF w
    <3> QED BY <3>3, <3>4
  <2> QED BY <2>1, <2>2
<1>6. /\ view' \in [Step -> Shown]
      /\ \A s \in Step : view'[s].level = v[s].level
      /\ \A s \in Step : Grown(v[s].live, view'[s].live, s, pending, f.cursor)
  <2>1. pending \in Seq(Event) /\ f.cursor \in Nat BY <1>3, <1>4
  <2>2. view' = AddAll(v, pending, f.cursor) BY <1>5
  <2>3. /\ AddAll(v, pending, f.cursor) \in [Step -> Shown]
        /\ \A s \in Step : AddAll(v, pending, f.cursor)[s].level = v[s].level
        /\ \A s \in Step : Grown(v[s].live, AddAll(v, pending, f.cursor)[s].live, s, pending, f.cursor)
    BY <2>1, AddAllFacts, Zenon
  <2> QED BY <2>2, <2>3, Zenon
<1>7. IsSnapshot(1) BY <1>3 DEF IsSnapshot
<1>8. conn \notin {"reading", "read"} /\ (conn = "open" => ~snapped)
  BY <1>0, <1>2, <1>7 DEF SnapshotInv
<1>9. conn = "open" => \A k \in Frames' : ~IsSnapshot(k)'
  <2>1. ASSUME conn = "open", NEW k \in Frames', IsSnapshot(k)' PROVE FALSE
    <3>1. k \in Nat /\ k > 0 /\ k + 1 \in Frames /\ channel'[k] = channel[k + 1]
      BY <1>1, <1>4, ReceiveFacts
    <3>2. IsSnapshot(k + 1) BY <2>1, <3>1 DEF IsSnapshot
    <3>3. k + 1 = 1 BY <1>0, <1>2, <1>7, <2>1, <3>1, <3>2 DEF SnapshotInv
    <3> QED BY <3>1, <3>3
  <2> QED BY <2>1
<1>10. \A s \in Step : v[s].live \in Seq(Nat) /\ view'[s].live \in Seq(Nat) BY <1>6 DEF Shown
<1>51. TypeInv'
  <2>1. pending' \in Seq(Event) /\ snapped' \in BOOLEAN BY <1>1
  <2> QED BY <1>0, <1>1, <1>2, <1>6, <2>1 DEF TypeInv, TypeOK
<1>52. BusInv' /\ DeliveredInv' BY <1>0, <1>1 DEF BusInv, DeliveredInv
<1>53. BufferInv' BY <1>0, <1>1, <1>2 DEF BufferInv
<1>54. NumbersInv'
  <2>1. ASSUME NEW s \in Step, NEW i \in 1..Len(view'[s].live)
        PROVE  view'[s].live[i] <= published[s]
    <3>1. Grown(v[s].live, view'[s].live, s, pending, f.cursor) BY <1>6
    <3>2. Len(v[s].live) \in Nat /\ Len(view'[s].live) \in Nat BY <1>10
    <3>3. CASE i \in 1..Len(v[s].live)
      <4>1. view'[s].live[i] = v[s].live[i] BY <3>1, <3>3 DEF Grown
      <4>2. CASE s # f.step
        <5>1. v[s] = view[s] BY <1>5, <4>2
        <5> QED BY <1>0, <3>3, <4>1, <5>1 DEF NumbersInv
      <4>3. CASE s = f.step
        <5>1. v[s].live = channel[1].events
          <6>1. f.step # 0 BY <4>3 DEF Step
          <6> QED BY <1>3, <1>5, <4>3, <6>1
        <5>2. channel[1].step = s /\ channel[1].step \in Step BY <1>3, <4>3
        <5> QED BY <1>0, <1>2, <1>7, <3>3, <4>1, <5>1, <5>2 DEF NumbersInv
      <4> QED BY <4>2, <4>3
    <3>4. CASE i \notin 1..Len(v[s].live)
      <4>1. i > Len(v[s].live) BY <3>2, <3>4
      <4>2. PICK k \in 1..Len(pending) : pending[k].step = s /\ view'[s].live[i] = pending[k].n
        BY <3>1, <4>1 DEF Grown
      <4> QED BY <1>0, <4>2 DEF NumbersInv
    <3> QED BY <3>3, <3>4
  <2>2. 1..Len(pending') = {} BY <1>1
  <2> QED BY <1>1, <1>2, <2>1, <2>2 DEF NumbersInv
<1>55. PastInv'
  <2>1. 1..Len(pending') = {} BY <1>1
  <2> QED BY <1>1, <1>2, <2>1 DEF PastInv
<1>56. ClosedInv'
  BY <1>0, <1>1, <1>2 DEF ClosedInv
<1>57. SnapshotInv' BY <1>1, <1>8, <1>9 DEF SnapshotInv
<1>58. AnnouncedInv'
  <2>1. ASSUME NEW s \in announced PROVE Settled(s)'
    <3>1. Settled(s) /\ s \in Step BY <1>0 DEF AnnouncedInv, TypeInv, TypeOK
    <3>2. ~IsCompleted(1, s) BY <1>3 DEF IsCompleted
    <3>3. view[s].level > 0 /\ ~(IsSnapshot(1) /\ channel[1].step = s) => view'[s].level > 0
      BY <1>3, <1>5, <1>6, <1>7, <3>1
    <3> QED BY <1>1, <1>4, <3>1, <3>2, <3>3, ReceiveSettled
  <2> QED BY <1>0, <1>1, <1>2, <2>1 DEF AnnouncedInv
<1>59. LiveInv'
  <2> SUFFICES ASSUME conn = "open", NEW s \in Step, Fresh(s) PROVE Live(s)'
    BY <1>1, <1>2 DEF LiveInv
  <2>1. Brings(1, s) /\ Skips(1, s) BY <1>0, <1>2, <1>7, <1>8 DEF AheadInv
  <2>2. missed[s] \in Nat /\ published[s] \in Nat /\ s # 0 BY <1>0, StepTypes
  <2>3. PICK m \in Nat : /\ m \in missed[s]..published[s] /\ Has(v[s].live, missed[s], m)
                         /\ Follows(1, s, m)
    <3>1. CASE f.step = s
      <4>1. v[s].live = f.events /\ Len(f.events) \in Nat BY <1>3, <1>5, <2>2, <3>1
      <4>2. PICK m \in Nat : m = missed[s] + Len(f.events) BY <2>2, <4>1
      <4>3. m <= published[s] /\ Follows(1, s, m) BY <1>3, <2>1, <3>1, <4>2 DEF Brings
      <4>4. \A i \in 1..Len(f.events) : f.events[i] = missed[s] + i
        BY <1>3, <2>1, <3>1 DEF Brings
      <4>5. Has(f.events, missed[s], missed[s] + Len(f.events)) BY <1>3, <2>2, <4>4, HasRows
      <4> QED BY <2>2, <4>1, <4>2, <4>3, <4>5
    <3>2. CASE f.step # s
      <4>1. v[s].live = view[s].live BY <1>5, <3>2
      <4>2. PICK m \in Nat : m = missed[s] BY <2>2
      <4>3. /\ m <= published[s] /\ Follows(1, s, m)
            /\ \A i \in 1..Len(view[s].live) : view[s].live[i] <= m
        BY <1>3, <2>1, <3>2, <4>2 DEF Brings
      <4>4. m + 1..m = {} OBVIOUS
      <4>5. view[s].live \in Seq(Nat) BY <1>0, StepTypes
      <4>6. \A i \in 1..Len(view[s].live) : ~(view[s].live[i] > m)
        <5>1. \A i \in 1..Len(view[s].live) : view[s].live[i] \in Nat BY <4>5
        <5> QED BY <4>3, <5>1
      <4>7. Has(view[s].live, m, m) BY <4>3, <4>4, <4>6 DEF Has
      <4> QED BY <2>2, <4>1, <4>2, <4>3, <4>7
    <3> QED BY <3>1, <3>2
  <2>4. \A k \in 1..Len(pending) : pending[k].step = s /\ pending[k].cursor > f.cursor =>
          pending[k].n <= missed[s]
    <3>1. \A k \in 1..Len(pending) : pending[k].cursor \in Nat BY <1>0, InFlight
    <3> QED BY <1>3, <2>1, <3>1 DEF Skips
  <2>5. Grown(v[s].live, view'[s].live, s, pending, f.cursor) BY <1>6
  <2>6. v[s].live \in Seq(Nat) /\ view'[s].live \in Seq(Nat) BY <1>10
  <2>7. missed[s] <= m BY <2>2, <2>3
  <2>8. Has(view'[s].live, missed[s], m)
    <3>1. PICK b \in Nat : b = missed[s] BY <2>2
    <3>2. PICK old \in Seq(Nat) : old = v[s].live BY <2>6
    <3>3. PICK new \in Seq(Nat) : new = view'[s].live BY <2>6
    <3>4. PICK es, c : es = pending /\ c = f.cursor OBVIOUS
    <3>5. Has(old, b, m) /\ Grown(old, new, s, es, c) /\ b <= m
      BY <2>3, <2>5, <2>7, <3>1, <3>2, <3>3, <3>4
    <3>6. \A k \in 1..Len(es) : es[k].step = s /\ es[k].cursor > c => es[k].n <= b
      BY <2>4, <3>1, <3>4
    <3>7. Has(new, b, m) BY <3>5, <3>6, HasMore
    <3> QED BY <3>1, <3>3, <3>7
  <2>9. Follows(0, s, m)'
    <3>1. Follows(0 + 1, s, m) BY <2>3
    <3> QED BY <1>1, <1>4, <3>1, TailFollows
  <2> QED BY <1>1, <2>3, <2>8, <2>9 DEF Live, Has
<1>60. AheadInv' BY <1>1 DEF AheadInv
<1> QED BY <1>51, <1>52, <1>53, <1>54, <1>55, <1>56, <1>57, <1>58, <1>59, <1>60 DEF IInv, DataInv

\* The close is the last frame.
LEMMA ReceiveCloseStep == ASSUME IInv, ReceiveClose PROVE IInv'
<1>0. /\ TypeInv /\ BusInv /\ DeliveredInv /\ BufferInv /\ NumbersInv /\ PastInv /\ ClosedInv
      /\ SnapshotInv /\ AnnouncedInv /\ LiveInv /\ AheadInv
  BY DEF IInv, DataInv
<1>1. /\ mode = "online" /\ channel # <<>> /\ Head(channel).kind = "close"
      /\ channel' = Tail(channel) /\ mode' = "closed" /\ snapped' = FALSE /\ pending' = <<>>
      /\ status' = status /\ saved' = saved /\ pc' = pc /\ step' = step /\ published' = published
      /\ since' = since /\ active' = active /\ cursor' = cursor /\ buffer' = buffer
      /\ conn' = conn /\ after' = after /\ rows' = rows /\ announced' = announced
      /\ checks' = checks /\ view' = view /\ through' = through
      /\ missed' = missed /\ quiet' = quiet
  BY DEF ReceiveClose, Receives, dbVars, execVars, busVars, connVars, connHistory
<1>2. /\ 1 \in Frames /\ Head(channel) = channel[1] /\ Len(channel') = Len(channel) - 1
      /\ channel' \in Seq(Frame) /\ Len(channel) \in Nat
  <2>1. channel \in Seq(Frame) BY <1>0 DEF TypeInv
  <2> QED BY <1>1, <2>1, ReceiveFacts
<1>3. conn = "none" /\ Len(channel') = 0 /\ announced = {} BY <1>0, <1>1, <1>2 DEF ClosedInv
<1>4. channel' = <<>> BY <1>2, <1>3
<1>5. Frames' = {} /\ 1..Len(pending') = {} BY <1>1, <1>4 DEF Frames
<1>51. TypeInv'
  <2>1. pending' \in Seq(Event) BY <1>1
  <2> QED BY <1>0, <1>1, <1>2, <2>1 DEF TypeInv, TypeOK
<1>52. BusInv' /\ DeliveredInv' BY <1>0, <1>1 DEF BusInv, DeliveredInv
<1>53. BufferInv' BY <1>0, <1>1 DEF BufferInv, Fresh, Older
<1>54. NumbersInv' BY <1>0, <1>1, <1>5 DEF NumbersInv
<1>55. PastInv' BY <1>5 DEF PastInv
<1>56. ClosedInv' BY <1>1, <1>3, <1>4, <1>5 DEF ClosedInv
<1>57. SnapshotInv' BY <1>1, <1>3 DEF SnapshotInv
<1>58. AnnouncedInv' BY <1>1, <1>3, <1>5 DEF AnnouncedInv
<1>59. LiveInv' /\ AheadInv' BY <1>1, <1>3 DEF LiveInv, AheadInv
<1> QED BY <1>51, <1>52, <1>53, <1>54, <1>55, <1>56, <1>57, <1>58, <1>59 DEF IInv, DataInv

\* The tab loads the history; events it shows are those it had.
LEMMA RefreshStep == ASSUME IInv, Refresh PROVE IInv'
<1>0. /\ TypeInv /\ BusInv /\ DeliveredInv /\ BufferInv /\ NumbersInv /\ PastInv /\ ClosedInv
      /\ SnapshotInv /\ AnnouncedInv /\ LiveInv /\ AheadInv
  BY DEF IInv, DataInv
<1>1. /\ mode = "closed"
      /\ status' = status /\ saved' = saved /\ pc' = pc /\ step' = step /\ published' = published
      /\ since' = since /\ active' = active /\ cursor' = cursor /\ buffer' = buffer
      /\ conn' = conn /\ after' = after /\ rows' = rows /\ announced' = announced
      /\ checks' = checks /\ channel' = channel /\ snapped' = snapped /\ pending' = pending
      /\ missed' = missed /\ quiet' = quiet
  BY DEF Refresh, dbVars, execVars, busVars, connVars, connHistory
<1>2. conn = "none" /\ channel = <<>> /\ ~snapped /\ pending = <<>> /\ announced = {}
  BY <1>0, <1>1 DEF ClosedInv
<1>3. /\ mode' \in {"offline", "done"} /\ view' \in {Merged, History}
      /\ through' \in {SafeThrough, 0}
  BY DEF Refresh
<1>4. saved \in [Step -> 0..2] /\ view \in [Step -> Shown] /\ MaxStep \in Nat
  BY <1>0, StreamAssumption DEF TypeInv, TypeOK
<1>5. History \in [Step -> Shown] /\ Merged \in [Step -> Shown]
  <2>1. \A s \in Step : [level |-> saved[s], live |-> <<>>] \in Shown BY <1>4 DEF Shown
  <2>2. History \in [Step -> Shown] BY <2>1 DEF History
  <2> QED BY <1>4, <2>2 DEF Merged
<1>6. Frames' = {} /\ 1..Len(pending') = {} BY <1>1, <1>2 DEF Frames
<1>51. TypeInv'
  <2>1. through' \in 0..MaxStep BY <1>3, <1>4, SafeThroughType
  <2>2. view' \in [Step -> Shown] BY <1>3, <1>5
  <2>3. mode' \in {"closed", "offline", "online", "done"} BY <1>3
  <2> QED BY <1>0, <1>1, <2>1, <2>2, <2>3 DEF TypeInv, TypeOK
<1>52. BusInv' /\ DeliveredInv' BY <1>0, <1>1 DEF BusInv, DeliveredInv
<1>53. BufferInv' BY <1>0, <1>1 DEF BufferInv, Fresh, Older
<1>54. NumbersInv'
  <2>1. ASSUME NEW s \in Step, NEW i \in 1..Len(view'[s].live)
        PROVE  view'[s].live[i] <= published[s]
    <3>1. History[s].live = <<>> BY DEF History
    <3>2. Merged[s] = view[s] \/ Merged[s] = History[s] BY DEF Merged
    <3>3. view'[s].live # <<>> BY <2>1
    <3>4. view'[s] = view[s] BY <1>3, <3>1, <3>2, <3>3
    <3> QED BY <1>0, <2>1, <3>4 DEF NumbersInv
  <2> QED BY <1>1, <1>6, <2>1 DEF NumbersInv
<1>55. PastInv' BY <1>6 DEF PastInv
<1>56. ClosedInv' BY <1>0, <1>1, <1>2, <1>6 DEF ClosedInv
<1>57. SnapshotInv' BY <1>1, <1>2 DEF SnapshotInv
<1>58. AnnouncedInv' BY <1>1, <1>2, <1>6 DEF AnnouncedInv
<1>59. LiveInv' /\ AheadInv' BY <1>1, <1>2 DEF LiveInv, AheadInv
<1> QED BY <1>51, <1>52, <1>53, <1>54, <1>55, <1>56, <1>57, <1>58, <1>59 DEF IInv, DataInv

-----------------------------------------------------------------------------
(* The invariant of the specification.                                      *)

LEMMA InitInv == Init => IInv
<1> SUFFICES ASSUME Init PROVE IInv OBVIOUS
<1>1. MaxStep \in Nat BY StreamAssumption
<1>2. Frames = {} BY DEF Init, Frames
<1>3. saved \in [Step -> 0..2] /\ rows \in [Step -> 0..2] /\ \A s \in Step : saved[s] = 0
  BY DEF Init
<1>4. Blank \in Shown
  <2>1. <<>> \in Seq(Nat) OBVIOUS
  <2> QED BY <2>1 DEF Blank, Shown
<1>5. view \in [Step -> Shown] /\ \A s \in Step : view[s].live = <<>>
  <2>1. Blank.live = <<>> BY DEF Blank
  <2> QED BY <1>4, <2>1 DEF Init
<1>6. /\ pending = <<>> /\ channel = <<>> /\ announced = {} /\ active = 0 /\ step = 0
      /\ conn = "none" /\ ~snapped /\ mode = "closed" /\ cursor = 0 /\ pc = "starting"
      /\ status = "live" /\ after = 0 /\ checks = 0 /\ through = 0 /\ since = 0 /\ quiet = FALSE
  BY Zenon DEF Init
<1>7. /\ buffer \in [Step -> Seq(Nat)] /\ published \in [Step -> Nat] /\ missed \in [Step -> Nat]
      /\ \A s \in Step : buffer[s] = <<>> /\ published[s] = 0
  BY DEF Init, NoRows, NoneOf
<1>8. TypeInv
  <2>1. pending \in Seq(Event) /\ channel \in Seq(Frame) BY <1>6
  <2>2. /\ status \in {"live", "canceling"} \cup Ended /\ pc \in ExecutorState
        /\ step \in 0..MaxStep /\ after \in 0..MaxStep /\ checks \in Nat /\ through \in 0..MaxStep
        /\ active \in {0, step} /\ cursor \in Nat /\ announced \subseteq Step
        /\ conn \in {"none", "reading", "read", "open"}
        /\ mode \in {"closed", "offline", "online", "done"} /\ since \in 0..step
    BY <1>1, <1>6 DEF ExecutorState
  <2>3. snapped \in BOOLEAN /\ quiet \in BOOLEAN BY DEF Init
  <2> QED BY <1>3, <1>5, <1>6, <1>7, <2>1, <2>2, <2>3 DEF TypeInv, TypeOK
<1>9. BusInv BY <1>3, <1>6 DEF BusInv
<1>10. BufferInv BY <1>7 DEF BufferInv, Older
<1>11. NumbersInv BY <1>2, <1>5, <1>6 DEF NumbersInv
<1>12. PastInv BY <1>2, <1>6 DEF PastInv
<1>13. ClosedInv /\ SnapshotInv BY <1>2, <1>6 DEF ClosedInv, SnapshotInv
<1>14. AnnouncedInv /\ DeliveredInv BY <1>2, <1>6 DEF AnnouncedInv, DeliveredInv
<1>15. LiveInv /\ AheadInv BY <1>6 DEF LiveInv, AheadInv
<1> QED BY <1>8, <1>9, <1>10, <1>11, <1>12, <1>13, <1>14, <1>15 DEF IInv, DataInv

\* A step in which nothing changes.
LEMMA StutterStep == ASSUME IInv, UNCHANGED vars PROVE IInv'
<1>0. TypeInv /\ BusInv /\ DeliveredInv /\ DataInv BY DEF IInv
<1>1. /\ status' = status /\ saved' = saved /\ pc' = pc /\ step' = step /\ published' = published
      /\ since' = since /\ active' = active /\ cursor' = cursor /\ buffer' = buffer
      /\ conn' = conn /\ after' = after /\ rows' = rows /\ announced' = announced
      /\ checks' = checks /\ channel' = channel /\ mode' = mode /\ snapped' = snapped
      /\ pending' = pending /\ view' = view /\ through' = through /\ missed' = missed
      /\ quiet' = quiet
  BY DEF vars, dbVars, execVars, busVars, connVars, tabVars, connHistory
<1>2. TypeInv' BY <1>0, <1>1 DEF TypeInv, TypeOK
<1>3. BusInv' /\ DeliveredInv' BY <1>0, <1>1 DEF BusInv, DeliveredInv
<1>4. DataInv' BY <1>0, <1>1, DataKept DEF dataVars, streamVars
<1> QED BY <1>2, <1>3, <1>4 DEF IInv

LEMMA NextInv == IInv /\ [Next]_vars => IInv'
<1> SUFFICES ASSUME IInv, [Next]_vars PROVE IInv' OBVIOUS
<1>1. CASE Execute
  BY <1>1, BeginStep, PublishStep, SaveStep, CompleteStepStep, EndInStepStep, EndBetweenStep,
     CompleteLastStep, ClearStep, StartStep, Zenon
  DEF Execute
<1>2. CASE Control
  BY <1>2, CancelStep, ResumeStep, StartsAgain, ListStep, RecoverCancelingStep, Zenon DEF Control
<1>3. CASE Serve BY <1>3, ReadStepsStep, ReplayStep, CheckStep, Zenon DEF Serve
<1>4. CASE Follow
  BY <1>4, ConnectStep, ReceiveEventStep, ReceiveCompletedStep, ReceiveSnapshotStep,
     ReceiveCloseStep, RefreshStep, Zenon
  DEF Follow
<1>5. CASE Drop BY <1>5, DropStep
<1>6. CASE Crash BY <1>6, CrashStep
<1>7. CASE RefreshFails BY <1>7, RefreshFailsStep
<1>8. CASE UNCHANGED vars BY <1>8, StutterStep
<1> QED BY <1>1, <1>2, <1>3, <1>4, <1>5, <1>6, <1>7, <1>8, Zenon DEF Next

(***************************************************************************)
(* The inductive invariant holds in every state of the specification: the   *)
(* executor, its bus, the socket, the frames under way and the tab agree.   *)
(***************************************************************************)
THEOREM StreamInvariant == Spec => []IInv
<1> QED BY InitInv, NextInv, PTL DEF Spec

(***************************************************************************)
(* Every variable keeps its type, and a tab behind its snapshot has no      *)
(* pending events left.                                                     *)
(***************************************************************************)
THEOREM StreamTypes == Spec => []TypeOK
<1>1. IInv => TypeOK BY DEF IInv, TypeInv
<1> QED BY <1>1, StreamInvariant, PTL

-----------------------------------------------------------------------------
(* What the tab gets.                                                       *)

LEMMA DeliveredFromInv == IInv => StepsDelivered
<1> SUFFICES ASSUME IInv, mode = "online", snapped, Subscribed, NEW s \in Step,
                    saved[s] > 0, s > after, s # active
             PROVE  \/ view[s].level > 0
                    \/ \E i \in DOMAIN channel : channel[i].kind = "completed" /\ channel[i].step = s
  BY Zenon DEF StepsDelivered
<1>1. conn = "open"
  <2>1. conn \in {"none", "reading", "read", "open"} BY DEF IInv, TypeInv, TypeOK
  <2> QED BY <2>1 DEF IInv, DataInv, SnapshotInv, Subscribed
<1>2. s \in announced BY <1>1 DEF IInv, DeliveredInv
<1>3. Settled(s) BY <1>2 DEF IInv, DataInv, AnnouncedInv
<1>4. DOMAIN channel = Frames
  <2>1. channel \in Seq(Frame) BY DEF IInv, TypeInv
  <2> QED BY <2>1 DEF Frames
<1> QED BY <1>3, <1>4 DEF Settled, IsCompleted

(***************************************************************************)
(* A connection brings every step after its cursor that has a result and is *)
(* not in progress, whether it was stored before the connection, while the  *)
(* socket read the steps, or after (subscribeRun in src/server).            *)
(***************************************************************************)
THEOREM StepsAreDelivered == Spec => []StepsDelivered
<1> QED BY DeliveredFromInv, StreamInvariant, PTL

EventsUpTo(g, s, n) ==
  g = [k \in 0..n |->
         IF k = 0 THEN <<>>
         ELSE IF channel[k].kind = "event" /\ channel[k].event.step = s
              THEN Append(g[k - 1], channel[k].event.n)
              ELSE g[k - 1]]

LEMMA EventsRecursion ==
  ASSUME NEW s, NEW N \in Nat
  PROVE  \E g : EventsUpTo(g, s, N)
<1> DEFINE Body(g, k) ==
             IF k = 0 THEN <<>>
             ELSE IF channel[k].kind = "event" /\ channel[k].event.step = s
                  THEN Append(g[k - 1], channel[k].event.n)
                  ELSE g[k - 1]
           S == {n \in Nat : \E g : EventsUpTo(g, s, n)}
<1>1. 0 \in S
  <2> DEFINE g == [k \in 0..0 |-> <<>>]
  <2>1. EventsUpTo(g, s, 0) BY DEF EventsUpTo
  <2> QED BY <2>1
<1>2. ASSUME NEW n \in Nat, n \in S PROVE n + 1 \in S
  <2>1. PICK g : EventsUpTo(g, s, n) BY <1>2
  <2> DEFINE h == [k \in 0..n + 1 |-> IF k = n + 1 THEN Body(g, n + 1) ELSE g[k]]
  <2>2. ASSUME NEW k \in 0..n + 1 PROVE h[k] = Body(h, k)
    <3>1. CASE k = 0  BY <3>1, <2>1 DEF EventsUpTo
    <3>2. CASE k # 0
      <4>1. k - 1 \in 0..n /\ k - 1 # n + 1 /\ k - 1 \in 0..n + 1 BY <3>2
      <4>2. h[k - 1] = g[k - 1] BY <4>1
      <4>3. Body(h, k) = Body(g, k) BY <4>2
      <4>4. CASE k = n + 1 BY <4>3, <4>4
      <4>5. CASE k # n + 1
        <5>1. k \in 0..n BY <4>5
        <5>2. g[k] = Body(g, k) BY <5>1, <2>1 DEF EventsUpTo
        <5> QED BY <4>3, <4>5, <5>2
      <4> QED BY <4>4, <4>5
    <3> QED BY <3>1, <3>2
  <2>3. h = [k \in 0..n + 1 |-> Body(h, k)] BY <2>2
  <2>4. EventsUpTo(h, s, n + 1) BY <2>3, Zenon DEF EventsUpTo
  <2> QED BY <2>4
<1> HIDE DEF S
<1>3. N \in S BY <1>1, <1>2, Induction
<1> QED BY <1>3 DEF S

\* Counting on by one.
LEMMA CountAppend ==
  ASSUME NEW m \in Nat, NEW x \in Nat
  PROVE  Append([i \in 1..x |-> m + i], m + (x + 1)) = [i \in 1..x + 1 |-> m + i]
<1> DEFINE c == [i \in 1..x |-> m + i]
           d == [i \in 1..x + 1 |-> m + i]
<1>1. c \in Seq(Nat) /\ Len(c) = x /\ \A i \in 1..x : c[i] = m + i OBVIOUS
<1>2. d \in Seq(Nat) /\ Len(d) = x + 1 /\ \A i \in 1..x + 1 : d[i] = m + i OBVIOUS
<1> HIDE DEF c, d
<1>3. /\ Append(c, m + (x + 1)) \in Seq(Nat) /\ Len(Append(c, m + (x + 1))) = x + 1
      /\ \A i \in 1..x : Append(c, m + (x + 1))[i] = c[i]
      /\ Append(c, m + (x + 1))[x + 1] = m + (x + 1)
  BY <1>1, AppendFacts
<1>4. \A i \in 1..x + 1 : Append(c, m + (x + 1))[i] = d[i]
  <2>1. \A i \in 1..x + 1 : i \in 1..x \/ i = x + 1 OBVIOUS
  <2> QED BY <1>1, <1>2, <1>3, <2>1
<1>5. Append(c, m + (x + 1)) = d BY <1>2, <1>3, <1>4, SeqEqual
<1> QED BY <1>5 DEF c, d

\* The events under way are those that the frames bring, in order.
LEMMA EventsFollow ==
  ASSUME NEW m \in Nat, NEW s, Follows(0, s, m), channel \in Seq(Frame),
         NEW last \in Nat, last = published[s], m <= last
  PROVE  EventsOf(s) = [i \in 1..last - m |-> m + i]
<1> DEFINE g == CHOOSE h : EventsUpTo(h, s, Len(channel))
           N == Len(channel)
           \* The first k frames bring the events up to m + x.
           Good(k, x) ==
             /\ m + x <= last
             /\ g[k] = [i \in 1..x |-> m + i]
             /\ \A j \in Frames : j <= k /\ IsEvent(j, s) => channel[j].event.n <= m + x
             /\ \A j \in Frames : j > k /\ IsEvent(j, s) => channel[j].event.n > m + x
           S == {k \in Nat : k <= N => \E x \in Nat : Good(k, x)}
<1>1. EventsOf(s) = g[N] BY DEF EventsOf, EventsUpTo
<1>2. N \in Nat /\ \A k \in Frames : k \in Nat /\ k > 0 /\ k <= N BY DEF Frames
<1>3. EventsUpTo(g, s, N) BY EventsRecursion, <1>2
<1> HIDE DEF g
<1>4. g[0] = <<>> BY <1>2, <1>3 DEF EventsUpTo
<1>5. ASSUME NEW k \in Nat, k + 1 <= N
      PROVE  g[k + 1] = IF IsEvent(k + 1, s)
                        THEN Append(g[k], channel[k + 1].event.n) ELSE g[k]
  <2>1. k + 1 \in 0..N /\ k + 1 # 0 /\ (k + 1) - 1 = k BY <1>2, <1>5
  <2> QED BY <2>1, <1>3 DEF EventsUpTo, IsEvent
<1>6. \A k \in Frames : IsEvent(k, s) => channel[k].event.n \in m + 1..last
  BY <1>2 DEF Follows
<1>7. \A j, k \in Frames :
        j < k /\ IsEvent(j, s) /\ IsEvent(k, s) => channel[j].event.n < channel[k].event.n
  BY <1>2 DEF Follows
<1>8. \A n \in m + 1..last : \E k \in Frames : IsEvent(k, s) /\ channel[k].event.n = n
  BY DEF Follows
<1> HIDE DEF N, Good
<1>9. 0 \in S
  <2>1. [i \in 1..0 |-> m + i] = <<>> OBVIOUS
  <2>2. Good(0, 0)
    <3>1. \A j \in Frames : ~(j <= 0) /\ (IsEvent(j, s) => channel[j].event.n > m)
      BY <1>2, <1>6
    <3> QED BY <1>4, <2>1, <3>1 DEF Good
  <2> QED BY <2>2
<1>10. ASSUME NEW k \in Nat, k \in S PROVE k + 1 \in S
  <2>1. SUFFICES ASSUME k + 1 <= N PROVE \E x \in Nat : Good(k + 1, x) OBVIOUS
  <2>2. k + 1 \in Frames BY <2>1, <1>2 DEF Frames, N
  <2>3. PICK x \in Nat : Good(k, x) BY <1>2, <1>10, <2>1
  <2>4. \A j \in Frames : j <= k + 1 => j <= k \/ j = k + 1 BY <1>2
  <2>5. \A j \in Frames : j > k + 1 => j > k BY <1>2
  <2>6. CASE IsEvent(k + 1, s)
    <3>1. PICK n \in m + 1..last : n = channel[k + 1].event.n BY <1>6, <2>2, <2>6
    <3>2. n > m + x BY <2>2, <2>3, <2>6, <3>1 DEF Good
    <3>3. n = m + x + 1
      <4>1. SUFFICES ASSUME n > m + x + 1 PROVE FALSE BY <3>1, <3>2
      <4>2. m + x + 1 \in m + 1..last BY <3>1, <4>1
      <4>3. PICK j \in Frames : IsEvent(j, s) /\ channel[j].event.n = m + x + 1
        BY <1>8, <4>2
      <4>4. ~(j <= k) BY <2>3, <4>3 DEF Good
      <4>5. j # k + 1 BY <3>1, <4>1, <4>3
      <4>6. j > k + 1 BY <1>2, <4>4, <4>5
      <4>7. channel[k + 1].event.n < channel[j].event.n BY <1>7, <2>2, <2>6, <4>3, <4>6
      <4> QED BY <3>1, <4>1, <4>3, <4>7
    <3>4. g[k + 1] = Append([i \in 1..x |-> m + i], m + (x + 1))
      <4>1. g[k] = [i \in 1..x |-> m + i] BY <2>3 DEF Good
      <4>2. g[k + 1] = Append(g[k], n) BY <1>5, <2>1, <2>6, <3>1
      <4>3. n = m + (x + 1) BY <3>3
      <4> QED BY <4>1, <4>2, <4>3, Zenon
    <3>5. g[k + 1] = [i \in 1..x + 1 |-> m + i]
      BY <3>4, CountAppend
    <3>6. m + (x + 1) <= last BY <3>1, <3>3
    <3>7. \A j \in Frames : j <= k + 1 /\ IsEvent(j, s) => channel[j].event.n <= m + (x + 1)
      <4>1. \A j \in Frames : j <= k /\ IsEvent(j, s) => channel[j].event.n <= m + x
        BY <2>3 DEF Good
      <4>2. \A j \in Frames : IsEvent(j, s) => channel[j].event.n \in Nat BY <1>6
      <4>3. ASSUME NEW j \in Frames, j <= k + 1, IsEvent(j, s)
            PROVE  channel[j].event.n <= m + (x + 1)
        <5>1. CASE j <= k
          <6>1. channel[j].event.n <= m + x /\ channel[j].event.n \in Nat
            BY <4>1, <4>2, <4>3, <5>1
          <6> QED BY <6>1
        <5>2. CASE j = k + 1
          <6>1. channel[j].event.n = n BY <3>1, <5>2
          <6>2. n <= m + (x + 1) BY <3>3
          <6> QED BY <6>1, <6>2
        <5> QED BY <2>4, <4>3, <5>1, <5>2, Zenon
      <4> QED BY <4>3, Zenon
    <3>8. \A j \in Frames : j > k + 1 /\ IsEvent(j, s) => channel[j].event.n > m + (x + 1)
      <4>1. ASSUME NEW j \in Frames, j > k + 1, IsEvent(j, s)
            PROVE  channel[j].event.n > n /\ channel[j].event.n \in Nat
        BY <1>6, <1>7, <2>2, <2>6, <3>1, <4>1
      <4> QED BY <3>3, <4>1
    <3>9. Good(k + 1, x + 1) BY <3>5, <3>6, <3>7, <3>8 DEF Good
    <3> QED BY <3>9
  <2>7. CASE ~IsEvent(k + 1, s)
    <3>1. g[k + 1] = g[k] BY <1>5, <2>1, <2>7
    <3>2. Good(k + 1, x) BY <2>3, <2>4, <2>5, <2>7, <3>1 DEF Good
    <3> QED BY <3>2
  <2> QED BY <2>6, <2>7
<1> HIDE DEF S
<1>11. N \in S BY <1>2, <1>9, <1>10, Induction
<1>12. PICK x \in Nat : Good(N, x) BY <1>2, <1>11 DEF S
<1>13. x = last - m
  <2>1. SUFFICES ASSUME m + x < last PROVE FALSE BY <1>12 DEF Good
  <2>2. m + x + 1 \in m + 1..last BY <2>1
  <2>3. PICK j \in Frames : IsEvent(j, s) /\ channel[j].event.n = m + x + 1 BY <1>8, <2>2
  <2>4. j <= N BY <1>2
  <2> QED BY <1>6, <1>12, <2>3, <2>4 DEF Good
<1> QED BY <1>1, <1>12, <1>13 DEF Good

\* What is known of the events after b is each of them, once and in order.
Exact(known, b, last) ==
  LET new == {i \in DOMAIN known : known[i] > b}
  IN  /\ \A n \in (b + 1)..last : \E i \in new : known[i] = n
      /\ \A i, j \in new : i < j => known[i] < known[j]

\* The newer events of a step, and then all that follow.
LEMMA HasAndRest ==
  ASSUME NEW live \in Seq(Nat), NEW b \in Nat, NEW m \in Nat, NEW last \in Nat,
         b <= m, m <= last, Has(live, b, m)
  PROVE  Exact(live \o [i \in 1..last - m |-> m + i], b, last)
<1> DEFINE c == [i \in 1..last - m |-> m + i]
           known == live \o c
<1>1. c \in Seq(Nat) /\ Len(c) = last - m /\ \A i \in 1..last - m : c[i] = m + i OBVIOUS
<1> HIDE DEF c
<1>2. /\ known \in Seq(Nat) /\ Len(live) \in Nat /\ Len(known) = Len(live) + (last - m)
      /\ \A i \in 1..Len(live) : known[i] = live[i] /\ live[i] \in Nat
      /\ \A i \in 1..last - m : known[Len(live) + i] = c[i]
  BY <1>1
<1> HIDE DEF known
<1>3. DOMAIN known = 1..Len(known) BY <1>2
<1>4. ASSUME NEW i \in 1..Len(known), i \notin 1..Len(live)
      PROVE  i > Len(live) /\ known[i] = m + (i - Len(live))
  <2>1. PICK x \in 1..last - m : i = Len(live) + x
    <3>1. i - Len(live) \in 1..last - m /\ i = Len(live) + (i - Len(live)) BY <1>2, <1>4
    <3> QED BY <3>1
  <2>2. known[i] = m + x BY <1>1, <1>2, <2>1
  <2> QED BY <1>2, <2>1, <2>2
<1>5. \A i \in 1..Len(live) : live[i] <= m BY DEF Has
<1>6. ASSUME NEW n \in b + 1..last
      PROVE  \E i \in DOMAIN known : known[i] > b /\ known[i] = n
  <2>1. CASE n <= m
    <3>1. n \in b + 1..m BY <2>1
    <3>2. PICK i \in 1..Len(live) : live[i] = n BY <3>1 DEF Has
    <3>3. i \in 1..Len(known) /\ known[i] = n BY <1>2, <3>2
    <3> QED BY <1>3, <3>3
  <2>2. CASE ~(n <= m)
    <3>1. PICK x \in 1..last - m : n = m + x
      <4>1. n - m \in 1..last - m /\ n = m + (n - m) BY <2>2
      <4> QED BY <4>1
    <3>2. PICK i \in Nat : i = Len(live) + x BY <1>2
    <3>3. c[x] = m + x /\ known[Len(live) + x] = c[x] BY <1>1, <1>2
    <3>4. i \in 1..Len(known)
      <4>1. Len(known) = Len(live) + (last - m) /\ Len(live) \in Nat BY <1>2
      <4>2. x >= 1 /\ x <= last - m OBVIOUS
      <4> QED BY <3>2, <4>1, <4>2
    <3>5. known[i] = n BY <3>1, <3>2, <3>3
    <3>6. i \in DOMAIN known BY <1>3, <3>4
    <3>7. n > b OBVIOUS
    <3> QED BY <3>5, <3>6, <3>7, Zenon
  <2> QED BY <2>1, <2>2
<1>7. ASSUME NEW i \in DOMAIN known, NEW j \in DOMAIN known, known[i] > b, known[j] > b, i < j
      PROVE  known[i] < known[j]
  <2>0. i \in 1..Len(known) /\ j \in 1..Len(known) BY <1>3
  <2>1. CASE j \in 1..Len(live)
    <3>1. i \in 1..Len(live) BY <1>7, <2>0, <2>1
    <3> QED BY <1>2, <1>7, <2>1, <3>1 DEF Has
  <2>2. CASE i \in 1..Len(live) /\ j \notin 1..Len(live)
    <3>1. known[i] <= m /\ known[i] \in Nat BY <1>2, <1>5, <2>2
    <3>2. j > Len(live) /\ known[j] = m + (j - Len(live)) BY <1>4, <2>0, <2>2
    <3> QED BY <1>2, <2>0, <3>1, <3>2
  <2>3. CASE i \notin 1..Len(live) /\ j \notin 1..Len(live)
    <3>1. known[i] = m + (i - Len(live)) /\ known[j] = m + (j - Len(live)) BY <1>4, <2>0, <2>3
    <3> QED BY <1>2, <1>7, <2>0, <3>1
  <2> QED BY <2>1, <2>2, <2>3
<1>8. Exact(known, b, last) BY <1>6, <1>7, Zenon DEF Exact
<1> QED BY <1>8 DEF known, c

LEMMA LiveFromInv == IInv => LiveStepExact
<1> DEFINE known == view[active].live \o EventsOf(active)
<1> SUFFICES ASSUME IInv, mode = "online", snapped, Subscribed, active # 0
             PROVE  Exact(known, missed[active], published[active])
  BY Zenon DEF LiveStepExact, Exact
<1>1. conn = "open"
  <2>1. conn \in {"none", "reading", "read", "open"} BY DEF IInv, TypeInv, TypeOK
  <2> QED BY <2>1 DEF IInv, DataInv, SnapshotInv, Subscribed
<1>2. PICK s \in Step : s = active
  BY StreamAssumption DEF IInv, TypeInv, TypeOK, Step
<1>3. /\ channel \in Seq(Frame) /\ published[s] \in Nat /\ missed[s] \in Nat
      /\ view[s].live \in Seq(Nat)
  BY StepTypes DEF IInv, TypeInv
<1>4. Live(s) BY <1>1, <1>2 DEF IInv, DataInv, LiveInv, Fresh
<1>5. PICK m \in Nat : /\ m \in missed[s]..published[s]
                       /\ Has(view[s].live, missed[s], m) /\ Follows(0, s, m)
  BY <1>3, <1>4 DEF Live
<1>6. PICK last \in Nat : last = published[s] BY <1>3
<1>7. PICK b \in Nat : b = missed[s] BY <1>3
<1>8. PICK live \in Seq(Nat) : live = view[s].live BY <1>3
<1>9. b <= m /\ m <= last /\ Has(live, b, m) BY <1>5, <1>6, <1>7, <1>8
<1>10. EventsOf(s) = [i \in 1..last - m |-> m + i] BY <1>3, <1>5, <1>6, <1>9, EventsFollow
<1>11. Exact(live \o [i \in 1..last - m |-> m + i], b, last)
  BY <1>9, HasAndRest
<1>12. known = live \o [i \in 1..last - m |-> m + i] BY <1>2, <1>8, <1>10
<1> QED BY <1>2, <1>6, <1>7, <1>11, <1>12

(***************************************************************************)
(* Behind its snapshot a tab has, with the frames under way, every event of *)
(* the step in progress once and in order, those that this process          *)
(* published before the step began included: none that was published while  *)
(* the socket was set up is lost or shown twice (subscribeRun in            *)
(* src/server, useRunSocket in src/web).  Events of an earlier process and  *)
(* those that went ahead of a step before the snapshot are not counted.     *)
(***************************************************************************)
THEOREM LiveStepIsExact == Spec => []LiveStepExact
<1> QED BY LiveFromInv, StreamInvariant, PTL

=============================================================================
