------------------------ MODULE ThreadHistory_proofs ------------------------
(* Proofs about ThreadHistory: its type invariant, that a request pairs      *)
(* calls with results, that a run writes its input once and first, that a    *)
(* restart would load the context, and that history is lost to no run of     *)
(* the branch; for any number of runs, messages, calls and summaries.        *)
EXTENDS ThreadHistory, FiniteSetTheorems, SequenceTheorems, WellFoundedInduction, TLAPS

(***************************************************************************)
(* Induction over the naturals, from the library's theorem that < is well-  *)
(* founded: a set of naturals has a least element.                          *)
(***************************************************************************)
Less == {pair \in Nat \X Nat : pair[1] < pair[2]}

LEMMA LessIsWellFounded == IsWellFoundedOn(Less, Nat)
BY NatLessThanWellFounded, Zenon DEF OpToRel, Less

LEMMA LeastElement ==
  ASSUME NEW S, S \subseteq Nat, S # {}
  PROVE  \E n \in S : \A m \in S : n <= m
<1>1. \E x \in S : \A y \in S : ~ (<<y, x>> \in Less)
  BY LessIsWellFounded, WFMin, Zenon
<1>2. ASSUME NEW x \in S, NEW y \in S, ~ (<<y, x>> \in Less)
      PROVE  x <= y
  <2>1. x \in Nat /\ y \in Nat  OBVIOUS
  <2>2. ~(y < x) BY <2>1, <1>2 DEF Less
  <2> QED BY <2>1, <2>2
<1> QED BY <1>1, <1>2, Zenon

LEMMA Induction ==
  ASSUME NEW S, 0 \in S, \A n \in Nat : n \in S => n + 1 \in S
  PROVE  Nat \subseteq S
<1> DEFINE T == Nat \ S
<1>1. SUFFICES ASSUME T # {} PROVE FALSE OBVIOUS
<1>2. PICK n \in T : \A m \in T : n <= m
  <2>1. T \subseteq Nat OBVIOUS
  <2> HIDE DEF T
  <2> QED BY <1>1, <2>1, LeastElement, Zenon
<1>3. n \in Nat /\ n # 0 OBVIOUS
<1>4. n - 1 \in Nat /\ n - 1 \notin T BY <1>2, <1>3
<1> QED BY <1>3, <1>4

LEMMA GreatestElement ==
  ASSUME NEW N \in Nat, NEW S, S \subseteq 0..N, S # {}
  PROVE  \E n \in S : \A m \in S : m <= n
<1> DEFINE T == {N - n : n \in S}
<1>1. T \subseteq Nat OBVIOUS
<1>2. T # {} OBVIOUS
<1>3. PICK d \in T : \A m \in T : d <= m
  <2> HIDE DEF T
  <2> QED BY <1>1, <1>2, LeastElement, Zenon
<1>4. PICK n \in S : d = N - n OBVIOUS
<1>5. ASSUME NEW m \in S PROVE m <= n
  <2>1. N - m \in T OBVIOUS
  <2>2. N - n <= N - m BY <1>3, <1>4, <2>1
  <2>3. m \in 0..N /\ n \in 0..N OBVIOUS
  <2> QED BY <2>2, <2>3
<1> QED BY <1>4, <1>5

LEMMA MaxFacts ==
  ASSUME NEW N \in Nat, NEW S, S \subseteq 0..N, S # {}
  PROVE  Max(S) \in S /\ \A y \in S : y <= Max(S)
<1>1. \E n \in S : \A m \in S : m <= n BY GreatestElement, Zenon
<1>2. \A m, n \in S : m <= n => n >= m OBVIOUS
<1>3. \E n \in S : \A m \in S : n >= m BY <1>1, <1>2
<1>4. Max(S) \in S /\ \A y \in S : Max(S) >= y BY <1>3, Zenon DEF Max
<1>5. \A m, n \in S : n >= m => m <= n OBVIOUS
<1> QED BY <1>4, <1>5

LEMMA MinFacts ==
  ASSUME NEW S, S \subseteq Nat, S # {}
  PROVE  Min(S) \in S /\ \A y \in S : Min(S) <= y
<1>1. \E n \in S : \A m \in S : n <= m BY LeastElement, Zenon
<1> QED BY <1>1, Zenon DEF Min

LEMMA ElementOf ==
  ASSUME NEW T, NEW s \in Seq(T), NEW k \in 1..Len(s)
  PROVE  s[k] \in T
OBVIOUS

LEMMA SeqWiden ==
  ASSUME NEW A, NEW B, A \subseteq B, NEW s \in Seq(A)
  PROVE  s \in Seq(B)
OBVIOUS

LEMMA AppendFacts ==
  ASSUME NEW T, NEW c \in Seq(T), NEW f \in T
  PROVE  /\ Append(c, f) \in Seq(T) /\ Len(c) \in Nat
         /\ Len(Append(c, f)) = Len(c) + 1
         /\ \A k \in 1..Len(c) : Append(c, f)[k] = c[k]
         /\ Append(c, f)[Len(c) + 1] = f
OBVIOUS

LEMMA ConcatFacts ==
  ASSUME NEW T, NEW c \in Seq(T), NEW d \in Seq(T)
  PROVE  /\ c \o d \in Seq(T) /\ Len(c) \in Nat /\ Len(d) \in Nat
         /\ Len(c \o d) = Len(c) + Len(d)
         /\ \A k \in 1..Len(c) : (c \o d)[k] = c[k]
         /\ \A k \in 1..Len(d) : (c \o d)[Len(c) + k] = d[k]
OBVIOUS

\* t is b behind a.
Joined(t, a, b) ==
  /\ Len(t) = Len(a) + Len(b)
  /\ \A k \in 1..Len(a) : t[k] = a[k]
  /\ \A k \in 1..Len(b) : t[Len(a) + k] = b[k]

LEMMA JoinFacts ==
  ASSUME NEW T, NEW a \in Seq(T), NEW b \in Seq(T)
  PROVE  a \o b \in Seq(T) /\ Len(a) \in Nat /\ Len(b) \in Nat /\ Joined(a \o b, a, b)
BY ConcatFacts DEF Joined

-----------------------------------------------------------------------------
(* Parts of a sequence.                                                     *)

\* t has the elements of s at the positions pos, in their order.
Increasing(pos, n) ==
  /\ pos \in Seq(1..n)
  /\ \A p, q \in 1..Len(pos) : p < q => pos[p] < pos[q]

At(k, pos) == \E q \in 1..Len(pos) : pos[q] = k

Selects(t, s, pos) ==
  /\ Len(t) = Len(pos)
  /\ \A q \in 1..Len(pos) : t[q] = s[pos[q]]

LEMMA NextPosition ==
  ASSUME NEW n \in Nat, NEW pos, Increasing(pos, n), NEW q \in 1..Len(pos),
         At(pos[q] + 1, pos)
  PROVE  q + 1 \in 1..Len(pos) /\ pos[q + 1] = pos[q] + 1
<1>1. /\ pos \in Seq(1..n) /\ Len(pos) \in Nat
      /\ \A p, r \in 1..Len(pos) : p < r => pos[p] < pos[r]
      /\ \A r \in 1..Len(pos) : pos[r] \in Nat
  BY DEF Increasing
<1>2. PICK r \in 1..Len(pos) : pos[r] = pos[q] + 1 BY DEF At
<1>3. q < r
  <2>1. CASE r < q BY <1>1, <1>2, <2>1
  <2>2. CASE r = q BY <1>1, <1>2, <2>2
  <2> QED BY <2>1, <2>2
<1>4. q + 1 \in 1..Len(pos) BY <1>1, <1>3
<1>5. r = q + 1
  <2>1. SUFFICES ASSUME q + 1 < r PROVE FALSE BY <1>3
  <2>2. pos[q] < pos[q + 1] /\ pos[q + 1] < pos[r] BY <1>1, <1>4, <2>1
  <2> QED BY <1>1, <1>2, <1>4, <2>2
<1> QED BY <1>2, <1>4, <1>5

\* The position after a stretch of positions.
LEMMA PositionAfter ==
  ASSUME NEW n \in Nat, NEW pos, Increasing(pos, n), NEW q \in 1..Len(pos), NEW m \in Nat,
         \A c \in 1..m : At(pos[q] + c, pos)
  PROVE  \A c \in 0..m : q + c \in 1..Len(pos) /\ pos[q + c] = pos[q] + c
<1> DEFINE S == {c \in Nat : c <= m => q + c \in 1..Len(pos) /\ pos[q + c] = pos[q] + c}
<1>1. pos \in Seq(1..n) /\ Len(pos) \in Nat /\ \A r \in 1..Len(pos) : pos[r] \in Nat
  BY DEF Increasing
<1>2. 0 \in S BY <1>1
<1>3. ASSUME NEW c \in Nat, c \in S PROVE c + 1 \in S
  <2>1. SUFFICES ASSUME c + 1 <= m
                 PROVE  q + (c + 1) \in 1..Len(pos) /\ pos[q + (c + 1)] = pos[q] + (c + 1)
    OBVIOUS
  <2>2. q + c \in 1..Len(pos) /\ pos[q + c] = pos[q] + c BY <1>3, <2>1
  <2>3. At(pos[q] + (c + 1), pos) BY <2>1
  <2>4. pos[q + c] + 1 = pos[q] + (c + 1)
    <3>1. PICK x \in Nat : x = pos[q] BY <1>1
    <3>2. x + c + 1 = x + (c + 1) BY <3>1
    <3> QED BY <2>2, <3>1, <3>2
  <2>5. PICK r \in 1..Len(pos) : r = q + c BY <2>2
  <2>6. r + 1 \in 1..Len(pos) /\ pos[r + 1] = pos[r] + 1
    BY <2>3, <2>4, <2>5, NextPosition
  <2>7. r + 1 = q + (c + 1) BY <2>5
  <2> QED BY <2>4, <2>5, <2>6, <2>7
<1> HIDE DEF S
<1>4. Nat \subseteq S BY <1>2, <1>3, Induction
<1> QED BY <1>4 DEF S

-----------------------------------------------------------------------------
(* What Only leaves of a sequence.                                          *)

OnlyUpTo(g, s, S, N) ==
  g = [n \in 0..N |->
         IF n = 0 THEN <<>>
         ELSE IF s[n] \in S THEN Append(g[n-1], s[n]) ELSE g[n-1]]

LEMMA OnlyRecursion ==
  ASSUME NEW s, NEW S, NEW N \in Nat
  PROVE  \E g : OnlyUpTo(g, s, S, N)
<1> DEFINE Body(g, n) == IF n = 0 THEN <<>>
                         ELSE IF s[n] \in S THEN Append(g[n-1], s[n]) ELSE g[n-1]
           R == {n \in Nat : \E g : OnlyUpTo(g, s, S, n)}
<1>1. 0 \in R
  <2> DEFINE g == [n \in 0..0 |-> <<>>]
  <2>1. OnlyUpTo(g, s, S, 0) BY DEF OnlyUpTo
  <2> QED BY <2>1
<1>2. ASSUME NEW n \in Nat, n \in R PROVE n + 1 \in R
  <2>1. PICK g : OnlyUpTo(g, s, S, n) BY <1>2
  <2> DEFINE h == [k \in 0..n + 1 |-> IF k = n + 1 THEN Body(g, n + 1) ELSE g[k]]
  <2>2. ASSUME NEW k \in 0..n + 1 PROVE h[k] = Body(h, k)
    <3>1. CASE k = 0  BY <3>1, <2>1 DEF OnlyUpTo
    <3>2. CASE k # 0
      <4>1. k - 1 \in 0..n /\ k - 1 # n + 1 /\ k - 1 \in 0..n + 1 BY <3>2
      <4>2. h[k - 1] = g[k - 1] BY <4>1
      <4>3. Body(h, k) = Body(g, k) BY <4>2
      <4>4. CASE k = n + 1 BY <4>3, <4>4
      <4>5. CASE k # n + 1
        <5>1. k \in 0..n BY <4>5
        <5>2. g[k] = Body(g, k) BY <5>1, <2>1 DEF OnlyUpTo
        <5> QED BY <4>3, <4>5, <5>2
      <4> QED BY <4>4, <4>5
    <3> QED BY <3>1, <3>2
  <2>3. h = [k \in 0..n + 1 |-> Body(h, k)] BY <2>2
  <2>4. OnlyUpTo(h, s, S, n + 1) BY <2>3, Zenon DEF OnlyUpTo
  <2> QED BY <2>4
<1> HIDE DEF R
<1>3. N \in R BY <1>1, <1>2, Induction
<1> QED BY <1>3 DEF R

\* The positions of the first n elements that are in S.
PicksUpTo(pos, t, s, S, n) ==
  /\ pos \in Seq(1..Len(s)) /\ Len(t) = Len(pos)
  /\ \A q \in 1..Len(pos) : pos[q] <= n /\ s[pos[q]] \in S /\ t[q] = s[pos[q]]
  /\ \A p, q \in 1..Len(pos) : p < q => pos[p] < pos[q]
  /\ \A k \in 1..n : s[k] \in S => \E q \in 1..Len(pos) : pos[q] = k

LEMMA PickNext ==
  ASSUME NEW T, NEW s \in Seq(T), NEW S, NEW n \in Nat, n + 1 <= Len(s),
         NEW t \in Seq(T), NEW pos, PicksUpTo(pos, t, s, S, n), s[n + 1] \in S
  PROVE  /\ Append(t, s[n + 1]) \in Seq(T)
         /\ \E more : PicksUpTo(more, Append(t, s[n + 1]), s, S, n + 1)
<1> DEFINE more == Append(pos, n + 1)
           u == Append(t, s[n + 1])
<1>1. Len(s) \in Nat /\ n + 1 \in 1..Len(s) /\ s[n + 1] \in T OBVIOUS
<1>2. /\ pos \in Seq(1..Len(s)) /\ Len(t) = Len(pos) /\ Len(pos) \in Nat
      /\ \A q \in 1..Len(pos) : pos[q] \in Nat
  BY DEF PicksUpTo
<1>3. /\ more \in Seq(1..Len(s)) /\ Len(more) = Len(pos) + 1
      /\ \A q \in 1..Len(pos) : more[q] = pos[q]
      /\ more[Len(pos) + 1] = n + 1
  BY <1>1, <1>2, AppendFacts
<1>4. /\ u \in Seq(T) /\ Len(u) = Len(pos) + 1
      /\ \A q \in 1..Len(pos) : u[q] = t[q]
      /\ u[Len(pos) + 1] = s[n + 1]
  BY <1>1, <1>2, AppendFacts
<1> HIDE DEF more, u
<1>5. \A q \in 1..Len(more) : q \in 1..Len(pos) \/ q = Len(pos) + 1 BY <1>2, <1>3
<1>6. \A q \in 1..Len(more) : more[q] <= n + 1 /\ s[more[q]] \in S /\ u[q] = s[more[q]]
  <2>1. ASSUME NEW q \in 1..Len(pos)
        PROVE  more[q] <= n + 1 /\ s[more[q]] \in S /\ u[q] = s[more[q]]
    <3>1. pos[q] <= n /\ pos[q] \in Nat BY <1>2 DEF PicksUpTo
    <3>2. pos[q] <= n + 1 BY <3>1
    <3> QED BY <1>3, <1>4, <3>2 DEF PicksUpTo
  <2>2. /\ more[Len(pos) + 1] <= n + 1 /\ s[more[Len(pos) + 1]] \in S
        /\ u[Len(pos) + 1] = s[more[Len(pos) + 1]]
    BY <1>1, <1>3, <1>4
  <2> QED BY <1>5, <2>1, <2>2
<1>7. ASSUME NEW p \in 1..Len(more), NEW q \in 1..Len(more), p < q PROVE more[p] < more[q]
  <2>1. p \in 1..Len(pos) BY <1>2, <1>3, <1>7
  <2>2. CASE q \in 1..Len(pos) BY <1>3, <1>7, <2>1, <2>2 DEF PicksUpTo
  <2>3. CASE q = Len(pos) + 1
    <3>1. pos[p] <= n /\ pos[p] \in Nat BY <1>2, <2>1 DEF PicksUpTo
    <3>2. pos[p] < n + 1 BY <3>1
    <3> QED BY <1>3, <2>1, <2>3, <3>2
  <2> QED BY <1>5, <2>2, <2>3
<1>8. ASSUME NEW k \in 1..n + 1, s[k] \in S PROVE \E q \in 1..Len(more) : more[q] = k
  <2>1. CASE k = n + 1
    <3>1. PICK q \in Nat : q = Len(pos) + 1 BY <1>2
    <3>2. q \in 1..Len(more) /\ more[q] = k BY <1>2, <1>3, <2>1, <3>1
    <3> QED BY <3>2
  <2>2. CASE k # n + 1
    <3>1. k \in 1..n BY <2>2
    <3>2. PICK q \in 1..Len(pos) : pos[q] = k BY <1>8, <3>1 DEF PicksUpTo
    <3>3. q \in 1..Len(more) BY <1>2, <1>3
    <3> QED BY <1>3, <3>2, <3>3
  <2> QED BY <2>1, <2>2
<1>9. PicksUpTo(more, u, s, S, n + 1) BY <1>2, <1>3, <1>4, <1>6, <1>7, <1>8 DEF PicksUpTo
<1> QED BY <1>4, <1>9 DEF u

\* Only selects the positions of the elements of S, all of them.
LEMMA OnlyPositions ==
  ASSUME NEW T, NEW s \in Seq(T), NEW S
  PROVE  /\ Only(s, S) \in Seq(T)
         /\ \E pos : /\ Increasing(pos, Len(s)) /\ Selects(Only(s, S), s, pos)
                     /\ \A k \in 1..Len(s) : At(k, pos) <=> s[k] \in S
<1> DEFINE g == CHOOSE h : OnlyUpTo(h, s, S, Len(s))
           Good(n) == g[n] \in Seq(T) /\ \E pos : PicksUpTo(pos, g[n], s, S, n)
           R == {n \in Nat : n <= Len(s) => Good(n)}
<1>1. Only(s, S) = g[Len(s)] BY DEF Only, OnlyUpTo
<1>2. Len(s) \in Nat OBVIOUS
<1>3. OnlyUpTo(g, s, S, Len(s)) BY OnlyRecursion, <1>2
<1> HIDE DEF g
<1>4. g[0] = <<>> BY <1>2, <1>3 DEF OnlyUpTo
<1>5. ASSUME NEW n \in Nat, n + 1 <= Len(s)
      PROVE  g[n + 1] = IF s[n + 1] \in S THEN Append(g[n], s[n + 1]) ELSE g[n]
  <2>1. n + 1 \in 0..Len(s) /\ n + 1 # 0 /\ (n + 1) - 1 = n BY <1>2, <1>5
  <2> QED BY <2>1, <1>3 DEF OnlyUpTo
<1>6. 0 \in R
  <2>1. <<>> \in Seq(1..Len(s)) /\ Len(<<>>) = 0 /\ 1..0 = {} OBVIOUS
  <2>2. PicksUpTo(<<>>, g[0], s, S, 0) BY <1>4, <2>1 DEF PicksUpTo
  <2>3. g[0] \in Seq(T) BY <1>4
  <2> QED BY <2>2, <2>3
<1>7. ASSUME NEW n \in Nat, n \in R PROVE n + 1 \in R
  <2>1. SUFFICES ASSUME n + 1 <= Len(s) PROVE Good(n + 1) OBVIOUS
  <2>2. Good(n) BY <1>2, <1>7, <2>1
  <2>3. PICK pos : PicksUpTo(pos, g[n], s, S, n) BY <2>2
  <2>4. CASE s[n + 1] \in S
    <3>1. g[n + 1] = Append(g[n], s[n + 1]) BY <1>5, <2>1, <2>4
    <3>2. g[n] \in Seq(T) BY <2>2
    <3> QED BY <2>1, <2>3, <2>4, <3>1, <3>2, PickNext
  <2>5. CASE s[n + 1] \notin S
    <3>1. g[n + 1] = g[n] BY <1>5, <2>1, <2>5
    <3>2. \A k \in 1..n + 1 : k \in 1..n \/ k = n + 1 OBVIOUS
    <3>3. \A q \in 1..Len(pos) : pos[q] <= n + 1
      <4>1. ASSUME NEW q \in 1..Len(pos) PROVE pos[q] <= n + 1
        <5>1. pos[q] <= n /\ pos[q] \in Nat BY <2>3 DEF PicksUpTo
        <5> QED BY <5>1
      <4> QED BY <4>1
    <3>4. PicksUpTo(pos, g[n], s, S, n + 1) BY <2>3, <2>5, <3>2, <3>3 DEF PicksUpTo
    <3> QED BY <2>2, <3>1, <3>4
  <2> QED BY <2>4, <2>5
<1> HIDE DEF R, Good
<1>8. Len(s) \in R BY <1>2, <1>6, <1>7, Induction
<1>9. Good(Len(s)) BY <1>2, <1>8 DEF R
<1>10. PICK pos : PicksUpTo(pos, g[Len(s)], s, S, Len(s)) BY <1>9 DEF Good
<1>11. Increasing(pos, Len(s)) BY <1>10 DEF PicksUpTo, Increasing
<1>12. Selects(Only(s, S), s, pos) BY <1>1, <1>10 DEF PicksUpTo, Selects
<1>13. \A k \in 1..Len(s) : At(k, pos) <=> s[k] \in S BY <1>10 DEF PicksUpTo, At
<1>14. Only(s, S) \in Seq(T) BY <1>1, <1>9 DEF Good
<1> QED BY <1>11, <1>12, <1>13, <1>14

Has(ids, i) == \E k \in 1..Len(ids) : ids[k] = i

\* The elements that Only leaves.
LEMMA OnlyHas ==
  ASSUME NEW T, NEW s \in Seq(T), NEW S
  PROVE  Only(s, S) \in Seq(T) /\ \A i : Has(Only(s, S), i) <=> Has(s, i) /\ i \in S
<1>1. Only(s, S) \in Seq(T) BY OnlyPositions
<1>2. PICK pos : /\ Increasing(pos, Len(s)) /\ Selects(Only(s, S), s, pos)
                 /\ \A k \in 1..Len(s) : At(k, pos) <=> s[k] \in S
  BY OnlyPositions
<1> DEFINE t == Only(s, S)
<1>4. Len(t) = Len(pos) /\ \A q \in 1..Len(pos) : t[q] = s[pos[q]] /\ pos[q] \in 1..Len(s)
  BY <1>2 DEF Selects, Increasing
<1> HIDE DEF t
<1>5. \A i : Has(t, i) => Has(s, i) /\ i \in S BY <1>2, <1>4 DEF At, Has
<1>6. \A i : Has(s, i) /\ i \in S => Has(t, i) BY <1>2, <1>4 DEF At, Has
<1> QED BY <1>1, <1>5, <1>6 DEF t

-----------------------------------------------------------------------------
(* Messages as values: what the rows m say of ids.                          *)

ToolIn(m, i) == i # 0 /\ m[i].role = "tool"
SummaryIn(m, i) == i # 0 /\ m[i].role = "summary"
CallsIn(m, i) == IF i = 0 THEN 0 ELSE m[i].calls

\* t is the result of call c of the step a.
ResultOf(m, t, a, c) == ToolIn(m, t) /\ m[t].step = a /\ m[t].call = c

Covers(m, s, i) == \E k \in 1..Len(m[s].covers) : m[s].covers[k] = i

\* Calls are made by assistant messages and answered in order, once, by the
\* same run; summaries cover what was written before them.
PlainRow(m, i) ==
  /\ m[i].calls > 0 => m[i].role = "assistant"
  /\ m[i].covers # <<>> => m[i].role = "summary"
  /\ \A k \in 1..Len(m[i].covers) : m[i].covers[k] < i

ToolRowAfter(m, i) ==
  ToolIn(m, i) =>
    /\ m[i].step > 0 /\ m[i].step < i
    /\ m[i].call > 0 /\ m[i].call <= m[m[i].step].calls
    /\ m[m[i].step].run = m[i].run
    /\ \A c \in 1..m[i].call : \E j \in 1..i : ResultOf(m, j, m[i].step, c)

History(m) ==
  /\ \A i \in 1..Len(m) : PlainRow(m, i) /\ ToolRowAfter(m, i)
  /\ \A i, j \in 1..Len(m) : i < j /\ ToolIn(m, i) /\ ToolIn(m, j) /\ m[i].step = m[j].step =>
       m[i].call < m[j].call

\* A set of ids with the results of all their calls and the calls of all
\* their results.
Whole(m, ids) ==
  \A i \in ids : /\ ToolIn(m, i) => m[i].step \in ids
                 /\ \A c \in 1..CallsIn(m, i) : \E t \in ids : ResultOf(m, t, i, c)

\* A result stands by the call it answers.
Key(m, i) == IF m[i].role = "tool" THEN m[i].step ELSE i
Before(m, i, j) == Key(m, i) < Key(m, j) \/ (Key(m, i) = Key(m, j) /\ i < j)

\* The messages of a sequence but summaries are in order.
RegularIn(m, i) == i # 0 /\ ~SummaryIn(m, i)
Ordered(m, ids) ==
  \A j, k \in 1..Len(ids) :
    j < k /\ RegularIn(m, ids[j]) /\ RegularIn(m, ids[k]) => Before(m, ids[j], ids[k])

\* Every result is where its call wants it.
Follows(m, ids, k) ==
  m[ids[k]].call < k /\ ids[k - m[ids[k]].call] = m[ids[k]].step
ResultsFollow(m, ids) == \A k \in 1..Len(ids) : ToolIn(m, ids[k]) => Follows(m, ids, k)

\* Every call is followed by its results.
Followed(m, ids, k) ==
  \A c \in 1..CallsIn(m, ids[k]) : k + c <= Len(ids) /\ ResultOf(m, ids[k + c], ids[k], c)
CallsFollowed(m, ids) == \A k \in 1..Len(ids) : Followed(m, ids, k)

\* The first n elements but 0 are summaries of others than the executor.
System(m, ids, made, n) ==
  \A k \in 1..n : ids[k] = 0 \/ (SummaryIn(m, ids[k]) /\ ids[k] \notin made)

SystemFront(m, ids, made) ==
  \A k \in 1..Len(ids) : SummaryIn(m, ids[k]) /\ ids[k] \notin made => System(m, ids, made, k)

-----------------------------------------------------------------------------
(* The inductive invariant.                                                 *)

\* The executor has its context, and has not given up.
Working == exec \in {"top", "fold", "compact", "asked", "replied", "tools", "pause"}

\* It is in a step whose answer is in the context.
InRound == exec \in {"replied", "tools", "pause"}

\* A run that executes exists; parents come first; only the latest run writes
\* new messages, and it waits, or works, with some of its own.
RunInv ==
  /\ \A i \in Ids : messages[i].run <= Latest
  /\ exec # "none" \/ status # "none" => Latest > 0
  /\ status \in {"none", "waiting", "error", "ended"} => exec = "none"
  /\ Working \/ status = "waiting" => HasMessages(Latest)
  /\ \A n \in 1..Latest : parent[n] < n

\* The messages of the latest run begin with its input, the only one.
FirstInput(m, r, i) ==
  /\ m[i].run = r /\ m[i].role = "input"
  /\ \A j \in 1..Len(m) : m[j].run = r /\ j # i => j > i /\ m[j].role # "input"
InputInv == HasMessages(Latest) => \E i \in Ids : FirstInput(messages, Latest, i)

MessageInv == History(messages)

\* Marked messages are whole rounds, each covered by a summary, which for a
\* summary is one of its own run.
Marked(m, i) ==
  \E s \in 1..Len(m) : Covers(m, s, i) /\ (SummaryIn(m, i) => m[s].run = m[i].run)
MarkInv == Whole(messages, summarized) /\ \A i \in summarized : Marked(messages, i)

\* What is about to be marked is covered by a summary of the run that marks.
FoldInv ==
  /\ exec # "fold" => folding = {}
  /\ Whole(messages, folding)
  /\ folding # {} => \E s \in Ids :
       messages[s].run = Latest /\ \A i \in folding : Covers(messages, s, i)
  /\ \A i \in folding : SummaryIn(messages, i) => messages[i].run = Latest

\* The calls q to be answered are the next ones of their steps, in order.
NextCalls(m, q, marked) ==
  /\ \A k \in 1..Len(q) :
       /\ q[k][1] \notin marked
       /\ q[k][2] <= CallsIn(m, q[k][1])
       /\ \A t \in 1..Len(m) : ToolIn(m, t) /\ m[t].step = q[k][1] => m[t].call < q[k][2]
       /\ \A c \in 1..q[k][2] - 1 : \/ \E t \in 1..Len(m) : ResultOf(m, t, q[k][1], c)
                                    \/ \E j \in 1..k - 1 : q[j] = <<q[k][1], c>>
  /\ \A j, k \in 1..Len(q) : j < k /\ q[j][1] = q[k][1] => q[j][2] < q[k][2]

\* A message that a run sees.
Visible(i) == messages[i].run \in Chain(Latest) /\ i \notin summarized

MissingInv ==
  /\ exec \notin {"repair", "mend"} => missing = <<>>
  /\ NextCalls(messages, missing, summarized)
  /\ exec = "repair" =>
       \A i \in Ids : Visible(i) =>
         \A c \in 1..CallsIn(messages, i) : \/ \E t \in Ids : ResultOf(messages, t, i, c)
                                            \/ Has(missing, <<i, c>>)

\* What an execution knows.
OwnInv ==
  /\ exec \in {"none", "start", "repair"} =>
       context = <<>> /\ unsaved = 0 /\ fresh = {} /\ dropped = {}
  /\ unsaved # 0 => messages[unsaved].role = "input"
  /\ \A i \in fresh : SummaryIn(messages, i) /\ messages[i].run = Latest

\* The context has what the run sees, but for what it has dropped or is about
\* to mark.
SetInv ==
  Working => \A i \in Ids : ~SummaryIn(messages, i) =>
    (Has(context, i) <=> Visible(i) /\ i \notin folding /\ i \notin dropped)

OrderInv == Working => Ordered(messages, context)

PairInv ==
  /\ Working => ResultsFollow(messages, context)
  /\ Working /\ ~InRound => CallsFollowed(messages, context)

\* In a round the context ends with the step a and its first n results.
RoundEnd(m, ids, a, n) ==
  /\ Len(m) = a + n /\ Len(ids) > n
  /\ \A c \in 0..n : ids[Len(ids) - n + c] = a + c
  /\ \A c \in 1..n : ResultOf(m, a + c, a, c)
  /\ \A k \in 1..Len(ids) - n - 1 : \A c \in 1..CallsIn(m, ids[k]) :
       k + c < Len(ids) - n /\ ResultOf(m, ids[k + c], ids[k], c)
RoundInv ==
  InRound =>
    \E n \in 0..Calls(Step) :
      /\ Step > 0 /\ messages[Step].run = Latest
      /\ exec = "replied" => n = 0
      /\ RoundEnd(messages, context, Step, n)

\* Summaries of earlier executions are at the front of the context.
FrontInv == Working => SystemFront(messages, context, fresh)

IInv == /\ TypeOK /\ RunInv /\ InputInv /\ MessageInv /\ MarkInv /\ FoldInv /\ MissingInv
        /\ OwnInv /\ SetInv /\ OrderInv /\ PairInv /\ RoundInv /\ FrontInv

-----------------------------------------------------------------------------
(* Rows that are added.                                                     *)

LEMMA RowTypes ==
  ASSUME NEW m \in Seq(Message), NEW i \in 1..Len(m)
  PROVE  /\ m[i] \in Message
         /\ m[i].run \in 1..MaxRuns /\ m[i].role \in Role /\ m[i].calls \in Nat
         /\ m[i].step \in Nat /\ m[i].call \in Nat
         /\ m[i].covers \in Seq(1..MaxMessages)
<1>1. m[i] \in Message OBVIOUS
<1>2. m[i].run \in 1..MaxRuns /\ m[i].role \in Role /\ m[i].calls \in 0..MaxCalls
      /\ m[i].step \in 0..MaxMessages /\ m[i].call \in 0..MaxCalls
      /\ m[i].covers \in Seq(1..MaxMessages)
  BY <1>1 DEF Message
<1> QED BY <1>1, <1>2, BoundAssumption

LEMMA CallsTypes ==
  ASSUME NEW m \in Seq(Message), NEW i \in 0..Len(m)
  PROVE  CallsIn(m, i) \in Nat
BY RowTypes DEF CallsIn

\* m2 has the rows of m, and maybe more.
Extends(m, m2) ==
  /\ m \in Seq(Message) /\ m2 \in Seq(Message) /\ Len(m) <= Len(m2)
  /\ \A i \in 1..Len(m) : m2[i] = m[i]

LEMMA SameRows ==
  ASSUME NEW m, NEW m2, Extends(m, m2), NEW i \in 0..Len(m)
  PROVE  /\ i \in 0..Len(m2)
         /\ ToolIn(m2, i) = ToolIn(m, i) /\ SummaryIn(m2, i) = SummaryIn(m, i)
         /\ CallsIn(m2, i) = CallsIn(m, i) /\ RegularIn(m2, i) = RegularIn(m, i)
<1>1. m \in Seq(Message) /\ m2 \in Seq(Message) /\ Len(m) <= Len(m2)
      /\ Len(m) \in Nat /\ Len(m2) \in Nat
      /\ \A k \in 1..Len(m) : m2[k] = m[k]
  BY DEF Extends
<1>2. i # 0 => m2[i] = m[i] BY <1>1
<1>3. i \in 0..Len(m2) BY <1>1
<1>4. ToolIn(m2, i) = ToolIn(m, i) BY <1>2 DEF ToolIn
<1>5. SummaryIn(m2, i) = SummaryIn(m, i) BY <1>2 DEF SummaryIn
<1>6. CallsIn(m2, i) = CallsIn(m, i) BY <1>2 DEF CallsIn
<1>7. RegularIn(m2, i) = RegularIn(m, i) BY <1>5 DEF RegularIn
<1> QED BY <1>3, <1>4, <1>5, <1>6, <1>7

LEMMA SameResults ==
  ASSUME NEW m, NEW m2, Extends(m, m2), NEW t \in 0..Len(m), NEW a, NEW c
  PROVE  ResultOf(m2, t, a, c) = ResultOf(m, t, a, c)
<1>1. t # 0 => m2[t] = m[t] BY DEF Extends
<1> QED BY <1>1 DEF ResultOf, ToolIn

LEMMA AppendExtends ==
  ASSUME NEW m \in Seq(Message), NEW row \in Message
  PROVE  /\ Extends(m, Append(m, row)) /\ Len(m) \in Nat
         /\ Len(Append(m, row)) = Len(m) + 1
         /\ Append(m, row)[Len(m) + 1] = row
<1>1. Len(m) <= Len(m) + 1 OBVIOUS
<1> QED BY <1>1, AppendFacts DEF Extends

LEMMA WholeKept ==
  ASSUME NEW m, NEW m2, Extends(m, m2), NEW ids \in SUBSET (1..Len(m)), Whole(m, ids)
  PROVE  Whole(m2, ids)
<1>1. ASSUME NEW i \in ids
      PROVE  /\ ToolIn(m2, i) => m2[i].step \in ids
             /\ \A c \in 1..CallsIn(m2, i) : \E t \in ids : ResultOf(m2, t, i, c)
  <2>1. i \in 0..Len(m) /\ i \in 1..Len(m) /\ m2[i] = m[i] BY DEF Extends
  <2>2. ToolIn(m2, i) = ToolIn(m, i) /\ CallsIn(m2, i) = CallsIn(m, i) BY <2>1, SameRows
  <2>3. ASSUME NEW c \in 1..CallsIn(m, i) PROVE \E t \in ids : ResultOf(m2, t, i, c)
    <3>1. PICK t \in ids : ResultOf(m, t, i, c) BY DEF Whole
    <3>2. t \in 0..Len(m) BY DEF Extends
    <3> QED BY <3>1, <3>2, SameResults
  <2> QED BY <2>1, <2>2, <2>3 DEF Whole
<1> QED BY <1>1 DEF Whole

LEMMA CoversKept ==
  ASSUME NEW m, NEW m2, Extends(m, m2), NEW s \in 1..Len(m), NEW i
  PROVE  Covers(m2, s, i) = Covers(m, s, i)
<1>1. m2[s] = m[s] BY DEF Extends
<1> QED BY <1>1 DEF Covers

LEMMA MarkedKept ==
  ASSUME NEW m, NEW m2, Extends(m, m2), NEW i \in 1..Len(m), Marked(m, i)
  PROVE  Marked(m2, i)
<1>1. PICK s \in 1..Len(m) : Covers(m, s, i) /\ (SummaryIn(m, i) => m[s].run = m[i].run)
  BY DEF Marked
<1>2. s \in 1..Len(m2) /\ m2[s] = m[s] /\ m2[i] = m[i] /\ i \in 0..Len(m) BY DEF Extends
<1>3. Covers(m2, s, i) BY <1>1, CoversKept
<1>4. SummaryIn(m2, i) = SummaryIn(m, i) BY <1>2, SameRows
<1> QED BY <1>1, <1>2, <1>3, <1>4 DEF Marked

LEMMA OrderedKept ==
  ASSUME NEW m, NEW m2, Extends(m, m2), NEW ids \in Seq(0..Len(m)), Ordered(m, ids)
  PROVE  Ordered(m2, ids)
<1>1. ASSUME NEW j \in 1..Len(ids), NEW k \in 1..Len(ids), j < k,
             RegularIn(m2, ids[j]), RegularIn(m2, ids[k])
      PROVE  Before(m2, ids[j], ids[k])
  <2>1. ids[j] \in 0..Len(m) /\ ids[k] \in 0..Len(m) OBVIOUS
  <2>2. RegularIn(m, ids[j]) /\ RegularIn(m, ids[k]) BY <1>1, <2>1, SameRows
  <2>3. ids[j] # 0 /\ ids[k] # 0 BY <1>1 DEF RegularIn
  <2>4. m2[ids[j]] = m[ids[j]] /\ m2[ids[k]] = m[ids[k]] BY <2>1, <2>3 DEF Extends
  <2>5. Before(m, ids[j], ids[k]) BY <1>1, <2>2 DEF Ordered
  <2> QED BY <2>4, <2>5 DEF Before, Key
<1> QED BY <1>1 DEF Ordered

LEMMA FollowsKept ==
  ASSUME NEW m, NEW m2, Extends(m, m2), NEW ids \in Seq(0..Len(m)), ResultsFollow(m, ids)
  PROVE  ResultsFollow(m2, ids)
<1>1. ASSUME NEW k \in 1..Len(ids), ToolIn(m2, ids[k]) PROVE Follows(m2, ids, k)
  <2>1. ids[k] \in 0..Len(m) OBVIOUS
  <2>2. ToolIn(m, ids[k]) BY <1>1, <2>1, SameRows
  <2>3. Follows(m, ids, k) BY <2>2 DEF ResultsFollow
  <2>4. m2[ids[k]] = m[ids[k]] BY <2>1, <2>2 DEF Extends, ToolIn
  <2> QED BY <2>3, <2>4 DEF Follows
<1> QED BY <1>1 DEF ResultsFollow

LEMMA FollowedKept ==
  ASSUME NEW m, NEW m2, Extends(m, m2), NEW ids \in Seq(0..Len(m)),
         NEW k \in 1..Len(ids), Followed(m, ids, k)
  PROVE  Followed(m2, ids, k)
<1>1. ASSUME NEW c \in 1..CallsIn(m2, ids[k])
      PROVE  k + c <= Len(ids) /\ ResultOf(m2, ids[k + c], ids[k], c)
  <2>1. ids[k] \in 0..Len(m) OBVIOUS
  <2>2. c \in 1..CallsIn(m, ids[k]) BY <2>1, SameRows
  <2>3. k + c <= Len(ids) /\ ResultOf(m, ids[k + c], ids[k], c) BY <2>2 DEF Followed
  <2>4. m \in Seq(Message) BY DEF Extends
  <2>5. CallsIn(m, ids[k]) \in Nat BY <2>1, <2>4, CallsTypes
  <2>6. k + c \in 1..Len(ids) BY <2>2, <2>3, <2>5
  <2>7. ids[k + c] \in 0..Len(m) BY <2>6
  <2> QED BY <2>3, <2>7, SameResults
<1> QED BY <1>1 DEF Followed

LEMMA CallsKept ==
  ASSUME NEW m, NEW m2, Extends(m, m2), NEW ids \in Seq(0..Len(m)), CallsFollowed(m, ids)
  PROVE  CallsFollowed(m2, ids)
BY FollowedKept DEF CallsFollowed

LEMMA SystemFrontKept ==
  ASSUME NEW m, NEW m2, Extends(m, m2), NEW ids \in Seq(0..Len(m)), NEW made,
         SystemFront(m, ids, made)
  PROVE  SystemFront(m2, ids, made)
<1>1. \A k \in 1..Len(ids) : SummaryIn(m2, ids[k]) = SummaryIn(m, ids[k]) BY SameRows
<1>2. ASSUME NEW k \in 1..Len(ids), SummaryIn(m2, ids[k]), ids[k] \notin made
      PROVE  System(m2, ids, made, k)
  <2>1. System(m, ids, made, k) BY <1>1, <1>2 DEF SystemFront
  <2>2. \A j \in 1..k : j \in 1..Len(ids) OBVIOUS
  <2> QED BY <1>1, <2>1, <2>2 DEF System
<1> QED BY <1>2 DEF SystemFront

\* What a row must say to be added.
Fits(m, row) ==
  /\ row \in Message
  /\ row.calls > 0 => row.role = "assistant"
  /\ row.covers # <<>> => row.role = "summary"
  /\ \A k \in 1..Len(row.covers) : row.covers[k] <= Len(m)
  /\ row.role = "tool" =>
       /\ row.step > 0 /\ row.step <= Len(m)
       /\ row.call > 0 /\ row.call <= m[row.step].calls
       /\ m[row.step].run = row.run
       /\ \A c \in 1..row.call - 1 : \E j \in 1..Len(m) : ResultOf(m, j, row.step, c)
       /\ \A t \in 1..Len(m) : ToolIn(m, t) /\ m[t].step = row.step => m[t].call < row.call

LEMMA HistoryAppend ==
  ASSUME NEW m \in Seq(Message), NEW row, Fits(m, row), History(m)
  PROVE  History(Append(m, row))
<1> DEFINE m2 == Append(m, row)
           l == Len(m) + 1
<1>1. row \in Message BY DEF Fits
<1>2. Extends(m, m2) /\ Len(m) \in Nat /\ Len(m2) = l /\ m2[l] = row BY <1>1, AppendExtends
<1> HIDE DEF m2
<1>3. \A i \in 1..Len(m2) : i \in 1..Len(m) \/ i = l BY <1>2
<1>4. \A i \in 1..Len(m) : m2[i] = m[i] /\ i \in 1..Len(m2) BY <1>2 DEF Extends
<1>5. ASSUME NEW i \in 1..Len(m) PROVE PlainRow(m2, i) /\ ToolRowAfter(m2, i)
  <2>1. m2[i] = m[i] BY <1>4
  <2>2. PlainRow(m, i) /\ ToolRowAfter(m, i) BY DEF History
  <2>3. PlainRow(m2, i) BY <2>1, <2>2 DEF PlainRow
  <2>4. ASSUME ToolIn(m2, i)
        PROVE  /\ m2[i].step > 0 /\ m2[i].step < i
               /\ m2[i].call > 0 /\ m2[i].call <= m2[m2[i].step].calls
               /\ m2[m2[i].step].run = m2[i].run
               /\ \A c \in 1..m2[i].call : \E j \in 1..i : ResultOf(m2, j, m2[i].step, c)
    <3>1. ToolIn(m, i) BY <2>1, <2>4 DEF ToolIn
    <3>2. m[i].step > 0 /\ m[i].step < i /\ m[i].step \in Nat
          /\ m[i].call > 0 /\ m[i].call <= m[m[i].step].calls
          /\ m[m[i].step].run = m[i].run
          /\ \A c \in 1..m[i].call : \E j \in 1..i : ResultOf(m, j, m[i].step, c)
      BY <2>2, <3>1, RowTypes DEF ToolRowAfter
    <3>3. m[i].step \in 1..Len(m) BY <3>2
    <3>4. m2[m[i].step] = m[m[i].step] BY <3>3, <1>4
    <3>5. ASSUME NEW c \in 1..m[i].call PROVE \E j \in 1..i : ResultOf(m2, j, m[i].step, c)
      <4>1. PICK j \in 1..i : ResultOf(m, j, m[i].step, c) BY <3>2
      <4>2. j \in 0..Len(m) OBVIOUS
      <4>3. ResultOf(m2, j, m[i].step, c) BY <1>2, <4>1, <4>2, SameResults
      <4> QED BY <4>3
    <3> QED BY <2>1, <3>2, <3>4, <3>5
  <2> QED BY <2>3, <2>4 DEF ToolRowAfter
<1>6. PlainRow(m2, l)
  <2>1. row.covers \in Seq(1..MaxMessages) BY <1>1 DEF Message
  <2>2. \A k \in 1..Len(row.covers) : row.covers[k] \in Nat
    <3>1. \A k \in 1..Len(row.covers) : row.covers[k] \in 1..MaxMessages
      BY <2>1, ElementOf
    <3> QED BY <3>1, BoundAssumption
  <2>3. \A k \in 1..Len(row.covers) : row.covers[k] < l BY <1>2, <2>2 DEF Fits
  <2> QED BY <1>2, <2>3 DEF PlainRow, Fits
<1>7. ToolRowAfter(m2, l)
  <2>1. SUFFICES ASSUME ToolIn(m2, l)
        PROVE  /\ row.step > 0 /\ row.step < l
               /\ row.call > 0 /\ row.call <= m2[row.step].calls
               /\ m2[row.step].run = row.run
               /\ \A c \in 1..row.call : \E j \in 1..l : ResultOf(m2, j, row.step, c)
    BY <1>2 DEF ToolRowAfter
  <2>2. row.role = "tool" BY <1>2, <2>1 DEF ToolIn
  <2>3. row.step \in 0..MaxMessages /\ row.call \in 0..MaxCalls BY <1>1 DEF Message
  <2>4. row.step \in Nat /\ row.call \in Nat BY <2>3, BoundAssumption
  <2>5. row.step \in 1..Len(m) /\ row.step < l BY <1>2, <2>2, <2>4 DEF Fits
  <2>6. m2[row.step] = m[row.step] BY <1>4, <2>5
  <2>7. ASSUME NEW c \in 1..row.call PROVE \E j \in 1..l : ResultOf(m2, j, row.step, c)
    <3>1. CASE c = row.call
      <4>1. l # 0 /\ l \in 1..l BY <1>2
      <4>2. ResultOf(m2, l, row.step, c) BY <1>2, <2>1, <3>1 DEF ResultOf
      <4> QED BY <4>1, <4>2
    <3>2. CASE c # row.call
      <4>1. c \in 1..row.call - 1 BY <2>4, <3>2
      <4>2. PICK j \in 1..Len(m) : ResultOf(m, j, row.step, c) BY <2>2, <4>1 DEF Fits
      <4>3. j \in 0..Len(m) /\ j \in 1..l BY <1>2
      <4>4. ResultOf(m2, j, row.step, c) BY <1>2, <4>2, <4>3, SameResults
      <4> QED BY <4>3, <4>4
    <3> QED BY <3>1, <3>2
  <2> QED BY <2>2, <2>5, <2>6, <2>7 DEF Fits
<1>8. ASSUME NEW i \in 1..Len(m2), NEW j \in 1..Len(m2), i < j,
             ToolIn(m2, i), ToolIn(m2, j), m2[i].step = m2[j].step
      PROVE  m2[i].call < m2[j].call
  <2>1. i \in 1..Len(m) BY <1>2, <1>8
  <2>2. m2[i] = m[i] BY <1>4, <2>1
  <2>3. ToolIn(m, i) BY <1>8, <2>2 DEF ToolIn
  <2>4. CASE j \in 1..Len(m)
    <3>1. m2[j] = m[j] BY <1>4, <2>4
    <3>2. ToolIn(m, j) BY <1>8, <3>1 DEF ToolIn
    <3> QED BY <1>8, <2>1, <2>2, <2>3, <2>4, <3>1, <3>2 DEF History
  <2>5. CASE j = l
    <3>1. row.role = "tool" BY <1>2, <1>8, <2>5 DEF ToolIn
    <3> QED BY <1>2, <1>8, <2>1, <2>2, <2>3, <2>5, <3>1 DEF Fits
  <2> QED BY <1>3, <2>4, <2>5
<1> QED BY <1>2, <1>3, <1>5, <1>6, <1>7, <1>8 DEF History, m2

-----------------------------------------------------------------------------
(* Rounds of a sequence of messages.                                        *)

Paired(m, ids) == ResultsFollow(m, ids) /\ CallsFollowed(m, ids)

LEMMA Backward ==
  ASSUME NEW l \in Nat, NEW k \in 1..l, NEW c \in Nat \ {0}, c < k
  PROVE  k - c \in 1..l
OBVIOUS

LEMMA Forward ==
  ASSUME NEW f \in Nat, NEW e \in Nat, NEW q \in 1..e - f
  PROVE  f + q \in f + 1..e
OBVIOUS

LEMMA Within ==
  ASSUME NEW a, NEW c \in Nat \ {0}, NEW n \in Nat, a \in 1..c, c <= n
  PROVE  a \in 1..n
OBVIOUS

\* A result in a sequence: its call is before it.
LEMMA CallOfResult ==
  ASSUME NEW m \in Seq(Message), History(m), NEW ids \in Seq(0..Len(m)),
         NEW k \in 1..Len(ids), ToolIn(m, ids[k]), Follows(m, ids, k)
  PROVE  /\ m[ids[k]].call \in Nat \ {0} /\ k - m[ids[k]].call \in 1..Len(ids)
         /\ ids[k - m[ids[k]].call] = m[ids[k]].step
         /\ m[ids[k]].step \in 1..Len(m) /\ m[m[ids[k]].step].role = "assistant"
         /\ m[ids[k]].call <= CallsIn(m, m[ids[k]].step)
<1>1. ids[k] \in 1..Len(m)
  <2>1. ids[k] \in 0..Len(m) BY ElementOf
  <2> QED BY <2>1 DEF ToolIn
<1>2. PICK i \in 1..Len(m) : i = ids[k] BY <1>1
<1>3. ToolIn(m, i) BY <1>2
<1>4. /\ m[i].step > 0 /\ m[i].step < i /\ m[i].step \in Nat
      /\ m[i].call > 0 /\ m[i].call <= m[m[i].step].calls /\ m[i].call \in Nat
  BY <1>3, RowTypes DEF History, ToolRowAfter
<1>5. m[i].step \in 1..Len(m) BY <1>4
<1>6. m[m[i].step].calls \in Nat /\ m[m[i].step].calls > 0
  <2>1. PICK a \in 1..Len(m) : a = m[i].step BY <1>5
  <2>2. m[a].calls \in Nat BY RowTypes
  <2>3. m[i].call > 0 /\ m[i].call \in Nat /\ m[i].call <= m[a].calls BY <1>4, <2>1
  <2> QED BY <2>1, <2>2, <2>3
<1>7. m[m[i].step].role = "assistant" BY <1>5, <1>6 DEF History, PlainRow
<1>8. CallsIn(m, m[i].step) = m[m[i].step].calls BY <1>4 DEF CallsIn
<1>9. m[i].call < k /\ ids[k - m[i].call] = m[i].step BY <1>2 DEF Follows
<1>10. m[i].call \in Nat \ {0} /\ k - m[i].call \in 1..Len(ids)
  <2>1. m[i].call \in Nat \ {0} BY <1>4
  <2>2. Len(ids) \in Nat OBVIOUS
  <2> QED BY <1>9, <2>1, <2>2, Backward
<1> QED BY <1>2, <1>4, <1>5, <1>7, <1>8, <1>9, <1>10

LEMMA Offset ==
  ASSUME NEW k \in Int, NEW c \in Int, NEW j \in Int, k - c < j, j <= k
  PROVE  j - (k - c) \in 1..c
OBVIOUS

\* Between a call and its result there are only results.
LEMMA ResultsBetween ==
  ASSUME NEW m \in Seq(Message), History(m), NEW ids \in Seq(0..Len(m)), Paired(m, ids),
         NEW k \in 1..Len(ids), ToolIn(m, ids[k]),
         NEW j \in Nat, k - m[ids[k]].call < j, j <= k
  PROVE  j \in 1..Len(ids) /\ ToolIn(m, ids[j])
<1>1. Follows(m, ids, k) BY DEF Paired, ResultsFollow
<1>2. /\ m[ids[k]].call \in Nat \ {0} /\ k - m[ids[k]].call \in 1..Len(ids)
      /\ ids[k - m[ids[k]].call] = m[ids[k]].step /\ m[ids[k]].step \in 1..Len(m)
      /\ m[ids[k]].call <= CallsIn(m, m[ids[k]].step)
  BY <1>1, CallOfResult
<1>3. PICK c \in Nat \ {0} : c = m[ids[k]].call BY <1>2
<1>4. PICK p \in 1..Len(ids) : p = k - c BY <1>2, <1>3
<1>5. CallsIn(m, ids[p]) \in Nat
  <2>1. ids[p] \in 0..Len(m) BY ElementOf
  <2> QED BY <2>1, CallsTypes
<1>6. PICK d \in 1..CallsIn(m, ids[p]) : j = p + d
  <2>0. k - c < j BY <1>3
  <2>1. j - p \in 1..c 
    <3>1. k \in Int /\ c \in Int /\ j \in Int OBVIOUS
    <3>2. j - (k - c) \in 1..c BY <2>0, <3>1, Offset
    <3> QED BY <1>4, <3>2
  <2>2. j - p \in 1..CallsIn(m, ids[p])
    <3>1. c <= CallsIn(m, ids[p]) BY <1>2, <1>3, <1>4
    <3> QED BY <1>5, <2>1, <3>1, Within
  <2>3. j = p + (j - p) BY <1>4
  <2> QED BY <2>2, <2>3
<1>7. p + d <= Len(ids) /\ ResultOf(m, ids[p + d], ids[p], d)
  BY <1>4, <1>6 DEF Paired, CallsFollowed, Followed
<1> QED BY <1>4, <1>6, <1>7 DEF ResultOf

Stretch(k, n, pos) == \A d \in 1..n : At(k + d, pos)

LEMMA StretchPosition ==
  ASSUME NEW l \in Nat, NEW pos, Increasing(pos, l), NEW q \in 1..Len(pos), NEW n \in Nat,
         Stretch(pos[q], n, pos), NEW c \in 1..n
  PROVE  q + c \in 1..Len(pos) /\ pos[q + c] = pos[q] + c
<1>1. \A d \in 1..n : At(pos[q] + d, pos) BY DEF Stretch
<1>2. \A d \in 0..n : q + d \in 1..Len(pos) /\ pos[q + d] = pos[q] + d BY <1>1, PositionAfter
<1> QED BY <1>2

\* The positions pos are those of whole rounds.
Rounds(m, ids, pos) ==
  \A k \in 1..Len(ids) : At(k, pos) =>
    /\ \A c \in 1..CallsIn(m, ids[k]) : At(k + c, pos)
    /\ ToolIn(m, ids[k]) => At(k - m[ids[k]].call, pos)

\* A selection of whole rounds keeps the pairs.
LEMMA SelectPaired ==
  ASSUME NEW m \in Seq(Message), History(m), NEW ids \in Seq(0..Len(m)), Paired(m, ids),
         NEW pos, Increasing(pos, Len(ids)), NEW t, Selects(t, ids, pos),
         Rounds(m, ids, pos)
  PROVE  Paired(m, t)
<1>1. /\ pos \in Seq(1..Len(ids)) /\ Len(pos) \in Nat /\ Len(t) = Len(pos) /\ Len(ids) \in Nat
      /\ \A q \in 1..Len(pos) : pos[q] \in 1..Len(ids) /\ t[q] = ids[pos[q]] /\ At(pos[q], pos)
  BY DEF Increasing, Selects, At
<1>2. ASSUME NEW q \in 1..Len(pos), NEW k \in 1..Len(ids), k = pos[q],
             NEW c \in 1..CallsIn(m, ids[k])
      PROVE  q + c \in 1..Len(pos) /\ pos[q + c] = k + c
  <2>1. ids[k] \in 0..Len(m) BY ElementOf
  <2>2. CallsIn(m, ids[k]) \in Nat BY <2>1, CallsTypes
  <2>3. PICK n \in Nat : n = CallsIn(m, ids[k]) BY <2>2
  <2>4. Stretch(pos[q], n, pos) BY <1>1, <1>2, <2>3 DEF Rounds, Stretch
  <2>5. c \in 1..n BY <2>3
  <2>6. Len(ids) \in Nat BY <1>1
  <2>7. q + c \in 1..Len(pos) /\ pos[q + c] = pos[q] + c BY <2>3, <2>4, <2>5, <2>6, StretchPosition
  <2> QED BY <1>2, <2>7
<1>3. ASSUME NEW q \in 1..Len(t) PROVE Followed(m, t, q)
  <2>1. PICK k \in 1..Len(ids) : k = pos[q] BY <1>1
  <2>2. t[q] = ids[k] BY <1>1, <2>1
  <2>3. ASSUME NEW c \in 1..CallsIn(m, ids[k])
        PROVE  q + c <= Len(t) /\ ResultOf(m, t[q + c], ids[k], c)
    <3>1. q + c \in 1..Len(pos) /\ pos[q + c] = k + c BY <1>1, <1>2, <2>1
    <3>2. t[q + c] = ids[k + c] BY <1>1, <3>1
    <3>3. ResultOf(m, ids[k + c], ids[k], c) BY DEF Paired, CallsFollowed, Followed
    <3> QED BY <1>1, <3>1, <3>2, <3>3
  <2> QED BY <2>2, <2>3 DEF Followed
<1>4. ASSUME NEW q \in 1..Len(t), ToolIn(m, t[q]) PROVE Follows(m, t, q)
  <2>1. PICK k \in 1..Len(ids) : k = pos[q] BY <1>1
  <2>2. t[q] = ids[k] /\ ToolIn(m, ids[k]) /\ At(k, pos) BY <1>1, <1>4, <2>1
  <2>3. Follows(m, ids, k) BY <2>2 DEF Paired, ResultsFollow
  <2>4. /\ m[ids[k]].call \in Nat \ {0} /\ k - m[ids[k]].call \in 1..Len(ids)
        /\ ids[k - m[ids[k]].call] = m[ids[k]].step
        /\ m[ids[k]].call <= CallsIn(m, m[ids[k]].step)
    BY <2>2, <2>3, CallOfResult
  <2>5. PICK c \in Nat \ {0} : c = m[ids[k]].call BY <2>4
  <2>6. PICK b \in 1..Len(ids) : b = k - c BY <2>4, <2>5
  <2>7. At(b, pos) BY <2>2, <2>5, <2>6 DEF Rounds
  <2>8. PICK p \in 1..Len(pos) : pos[p] = b BY <2>7 DEF At
  <2>9. c \in 1..CallsIn(m, ids[b])
    <3>1. ids[b] \in 0..Len(m) BY ElementOf
    <3>2. CallsIn(m, ids[b]) \in Nat BY <3>1, CallsTypes
    <3>3. c <= CallsIn(m, ids[b]) BY <2>4, <2>5, <2>6
    <3>4. c \in 1..c OBVIOUS
    <3> QED BY <3>2, <3>3, <3>4, Within
  <2>10. p + c \in 1..Len(pos) /\ pos[p + c] = b + c BY <1>2, <2>8, <2>9
  <2>11. PICK r \in 1..Len(pos) : r = p + c BY <2>10
  <2>12. pos[r] = pos[q] BY <2>1, <2>6, <2>10, <2>11
  <2>13. r = q
    <3>1. q \in 1..Len(pos) BY <1>1
    <3>2. r < q => pos[r] < pos[q] BY <3>1 DEF Increasing
    <3>3. q < r => pos[q] < pos[r] BY <3>1 DEF Increasing
    <3>4. pos[q] \in Nat BY <2>1
    <3> QED BY <2>12, <3>1, <3>2, <3>3, <3>4
  <2>14. p = q - c BY <2>11, <2>13
  <2>15. c < q BY <2>8, <2>14
  <2>16. t[p] = ids[b] BY <1>1, <2>8
  <2> QED BY <2>2, <2>4, <2>5, <2>6, <2>14, <2>15, <2>16 DEF Follows
<1> QED BY <1>3, <1>4 DEF Paired, CallsFollowed, ResultsFollow

\* A selection keeps the order.
LEMMA SelectOrdered ==
  ASSUME NEW m, NEW ids, Ordered(m, ids),
         NEW pos, Len(ids) \in Nat, Increasing(pos, Len(ids)), NEW t, Selects(t, ids, pos)
  PROVE  Ordered(m, t)
<1>1. \A q \in 1..Len(pos) : pos[q] \in 1..Len(ids) BY DEF Increasing
<1>2. ASSUME NEW p \in 1..Len(t), NEW q \in 1..Len(t), p < q,
             RegularIn(m, t[p]), RegularIn(m, t[q])
      PROVE  Before(m, t[p], t[q])
  <2>1. t[p] = ids[pos[p]] /\ t[q] = ids[pos[q]] /\ pos[p] < pos[q]
    BY <1>2 DEF Selects, Increasing
  <2>2. pos[p] \in 1..Len(ids) /\ pos[q] \in 1..Len(ids) BY <1>1 DEF Selects
  <2> QED BY <1>2, <2>1, <2>2 DEF Ordered
<1> QED BY <1>2 DEF Ordered

LEMMA ConcatFollow ==
  ASSUME NEW m, NEW T, NEW a \in Seq(T), NEW b \in Seq(T),
         \A k \in 1..Len(b) : ToolIn(m, b[k]) => m[b[k]].call \in Nat \ {0},
         \A k \in 1..Len(a) : ToolIn(m, a[k]) => m[a[k]].call \in Nat \ {0},
         ResultsFollow(m, a), ResultsFollow(m, b)
  PROVE  ResultsFollow(m, a \o b)
<1> DEFINE s == a \o b
<1>1. /\ Len(a) \in Nat /\ Len(b) \in Nat /\ Len(s) = Len(a) + Len(b)
      /\ \A k \in 1..Len(a) : s[k] = a[k]
      /\ \A k \in 1..Len(b) : s[Len(a) + k] = b[k]
  BY ConcatFacts
<1> HIDE DEF s
<1>2. ASSUME NEW k \in 1..Len(a), ToolIn(m, s[k]) PROVE Follows(m, s, k)
  <2>1. ToolIn(m, a[k]) /\ s[k] = a[k] BY <1>1, <1>2
  <2>2. PICK c \in Nat \ {0} : c = m[a[k]].call BY <2>1
  <2>3. c < k /\ a[k - c] = m[a[k]].step BY <2>1, <2>2 DEF ResultsFollow, Follows
  <2>4. k - c \in 1..Len(a) BY <2>3
  <2> QED BY <1>1, <2>1, <2>2, <2>3, <2>4 DEF Follows
<1>3. ASSUME NEW k \in 1..Len(b), ToolIn(m, s[Len(a) + k]) PROVE Follows(m, s, Len(a) + k)
  <2>1. ToolIn(m, b[k]) /\ s[Len(a) + k] = b[k] BY <1>1, <1>3
  <2>2. PICK c \in Nat \ {0} : c = m[b[k]].call BY <2>1
  <2>3. c < k /\ b[k - c] = m[b[k]].step BY <2>1, <2>2 DEF ResultsFollow, Follows
  <2>4. k - c \in 1..Len(b) /\ Len(a) + k - c = Len(a) + (k - c) /\ c < Len(a) + k BY <1>1, <2>3
  <2>5. s[Len(a) + k - c] = b[k - c] BY <1>1, <2>4
  <2> QED BY <2>1, <2>2, <2>3, <2>4, <2>5 DEF Follows
<1>4. ASSUME NEW k \in 1..Len(s), ToolIn(m, s[k]) PROVE Follows(m, s, k)
  <2>1. CASE k \in 1..Len(a) BY <1>2, <1>4, <2>1
  <2>2. CASE k \notin 1..Len(a)
    <3>1. k - Len(a) \in 1..Len(b) /\ k = Len(a) + (k - Len(a)) BY <1>1, <2>2
    <3> QED BY <1>3, <1>4, <3>1
  <2> QED BY <2>1, <2>2
<1> QED BY <1>4 DEF ResultsFollow, s

LEMMA ConcatFollowed ==
  ASSUME NEW m, NEW T, NEW a \in Seq(T), NEW b \in Seq(T),
         \A i \in T : CallsIn(m, i) \in Nat,
         CallsFollowed(m, a), CallsFollowed(m, b)
  PROVE  CallsFollowed(m, a \o b)
<1> DEFINE s == a \o b
<1>1. /\ Len(a) \in Nat /\ Len(b) \in Nat /\ Len(s) = Len(a) + Len(b)
      /\ \A k \in 1..Len(a) : s[k] = a[k] /\ a[k] \in T
      /\ \A k \in 1..Len(b) : s[Len(a) + k] = b[k] /\ b[k] \in T
  BY ConcatFacts, ElementOf
<1> HIDE DEF s
<1>2. ASSUME NEW k \in 1..Len(a), NEW c \in 1..CallsIn(m, a[k])
      PROVE  k + c <= Len(s) /\ ResultOf(m, s[k + c], a[k], c)
  <2>1. k + c <= Len(a) /\ ResultOf(m, a[k + c], a[k], c) BY DEF CallsFollowed, Followed
  <2>2. CallsIn(m, a[k]) \in Nat BY <1>1
  <2>3. k + c \in 1..Len(a) BY <1>1, <2>1, <2>2
  <2> QED BY <1>1, <2>1, <2>3
<1>3. ASSUME NEW k \in 1..Len(b), NEW c \in 1..CallsIn(m, b[k])
      PROVE  Len(a) + k + c <= Len(s) /\ ResultOf(m, s[Len(a) + k + c], b[k], c)
  <2>1. k + c <= Len(b) /\ ResultOf(m, b[k + c], b[k], c) BY DEF CallsFollowed, Followed
  <2>2. CallsIn(m, b[k]) \in Nat BY <1>1
  <2>3. k + c \in 1..Len(b) /\ Len(a) + k + c = Len(a) + (k + c) BY <1>1, <2>1, <2>2
  <2>4. s[Len(a) + k + c] = b[k + c] BY <1>1, <2>3
  <2> QED BY <1>1, <2>1, <2>3, <2>4
<1>4. ASSUME NEW k \in 1..Len(s) PROVE Followed(m, s, k)
  <2>1. CASE k \in 1..Len(a) BY <1>1, <1>2, <2>1 DEF Followed
  <2>2. CASE k \notin 1..Len(a)
    <3>1. PICK j \in 1..Len(b) : k = Len(a) + j
      <4>1. k - Len(a) \in 1..Len(b) /\ k = Len(a) + (k - Len(a)) BY <1>1, <2>2
      <4> QED BY <4>1
    <3>2. s[k] = b[j] BY <1>1, <3>1
    <3> QED BY <1>3, <3>1, <3>2 DEF Followed
  <2> QED BY <2>1, <2>2
<1> QED BY <1>4 DEF CallsFollowed, s

\* Positive calls of results, wherever they stand.
LEMMA ResultCalls ==
  ASSUME NEW m \in Seq(Message), History(m), NEW i \in 0..Len(m), ToolIn(m, i)
  PROVE  m[i].call \in Nat \ {0}
<1>1. i \in 1..Len(m) BY DEF ToolIn
<1> QED BY <1>1, RowTypes DEF History, ToolRowAfter

LEMMA ConcatPaired ==
  ASSUME NEW m \in Seq(Message), History(m), NEW a \in Seq(0..Len(m)), NEW b \in Seq(0..Len(m)),
         Paired(m, a), Paired(m, b)
  PROVE  Paired(m, a \o b)
<1>1. \A k \in 1..Len(a) : ToolIn(m, a[k]) => m[a[k]].call \in Nat \ {0}
  BY ResultCalls, ElementOf
<1>2. \A k \in 1..Len(b) : ToolIn(m, b[k]) => m[b[k]].call \in Nat \ {0}
  BY ResultCalls, ElementOf
<1>3. \A i \in 0..Len(m) : CallsIn(m, i) \in Nat BY CallsTypes
<1>4. ResultsFollow(m, a \o b) BY <1>1, <1>2, ConcatFollow DEF Paired
<1>5. CallsFollowed(m, a \o b) BY <1>3, ConcatFollowed DEF Paired
<1> QED BY <1>4, <1>5 DEF Paired

LEMMA ConcatOrdered ==
  ASSUME NEW m, NEW T, NEW a \in Seq(T), NEW b \in Seq(T), Ordered(m, a), Ordered(m, b),
         \A j \in 1..Len(a), k \in 1..Len(b) :
           RegularIn(m, a[j]) /\ RegularIn(m, b[k]) => Before(m, a[j], b[k])
  PROVE  Ordered(m, a \o b)
<1> DEFINE s == a \o b
<1>1. /\ Len(a) \in Nat /\ Len(b) \in Nat /\ Len(s) = Len(a) + Len(b)
      /\ \A k \in 1..Len(a) : s[k] = a[k]
      /\ \A k \in 1..Len(b) : s[Len(a) + k] = b[k]
  BY ConcatFacts
<1> HIDE DEF s
<1>2. ASSUME NEW k \in 1..Len(s), k \notin 1..Len(a)
      PROVE  k - Len(a) \in 1..Len(b) /\ s[k] = b[k - Len(a)]
  <2>1. k - Len(a) \in 1..Len(b) /\ k = Len(a) + (k - Len(a)) BY <1>1, <1>2
  <2> QED BY <1>1, <2>1
<1>3. ASSUME NEW j \in 1..Len(s), NEW k \in 1..Len(s), j < k,
             RegularIn(m, s[j]), RegularIn(m, s[k])
      PROVE  Before(m, s[j], s[k])
  <2>1. CASE k \in 1..Len(a)
    <3>1. j \in 1..Len(a) BY <1>1, <1>3, <2>1
    <3> QED BY <1>1, <1>3, <2>1, <3>1 DEF Ordered
  <2>2. CASE k \notin 1..Len(a) /\ j \in 1..Len(a) BY <1>1, <1>2, <1>3, <2>2
  <2>3. CASE k \notin 1..Len(a) /\ j \notin 1..Len(a)
    <3>1. PICK p \in 1..Len(b) : p = j - Len(a) /\ s[j] = b[p] BY <1>2, <2>3
    <3>2. PICK q \in 1..Len(b) : q = k - Len(a) /\ s[k] = b[q] BY <1>2, <2>3
    <3>3. p < q BY <1>1, <1>3, <3>1, <3>2
    <3> QED BY <1>3, <3>1, <3>2, <3>3 DEF Ordered
  <2> QED BY <2>1, <2>2, <2>3
<1> QED BY <1>3 DEF Ordered, s

-----------------------------------------------------------------------------
(* Where a sequence of messages may be cut.                                 *)

\* No result behind n answers a call at or before n.
Cut(m, ids, n) ==
  \A k \in 1..Len(ids) : k > n /\ ToolIn(m, ids[k]) => k - m[ids[k]].call > n

\* Neither a call nor a result.
Single(m, i) == ~ToolIn(m, i) /\ CallsIn(m, i) = 0

LEMMA CallOfPaired ==
  ASSUME NEW m \in Seq(Message), History(m), NEW ids \in Seq(0..Len(m)), Paired(m, ids),
         NEW k \in 1..Len(ids), ToolIn(m, ids[k])
  PROVE  \E p \in 1..Len(ids), c \in Nat \ {0} :
           /\ c = m[ids[k]].call /\ p = k - c /\ ids[p] = m[ids[k]].step
           /\ c \in 1..CallsIn(m, ids[p]) /\ ~ToolIn(m, ids[p])
<1>1. Follows(m, ids, k) BY DEF Paired, ResultsFollow
<1>2. /\ m[ids[k]].call \in Nat \ {0} /\ k - m[ids[k]].call \in 1..Len(ids)
      /\ ids[k - m[ids[k]].call] = m[ids[k]].step /\ m[ids[k]].step \in 1..Len(m)
      /\ m[m[ids[k]].step].role = "assistant"
      /\ m[ids[k]].call <= CallsIn(m, m[ids[k]].step)
  BY <1>1, CallOfResult
<1>3. PICK c \in Nat \ {0} : c = m[ids[k]].call BY <1>2
<1>4. PICK p \in 1..Len(ids) : p = k - c BY <1>2, <1>3
<1>5. ids[p] = m[ids[k]].step BY <1>2, <1>3, <1>4
<1>6. CallsIn(m, ids[p]) \in Nat
  <2>1. ids[p] \in 0..Len(m) BY ElementOf
  <2> QED BY <2>1, CallsTypes
<1>7. c \in 1..CallsIn(m, ids[p]) BY <1>2, <1>3, <1>5, <1>6
<1>8. ~ToolIn(m, ids[p]) BY <1>2, <1>5 DEF ToolIn
<1> QED BY <1>3, <1>4, <1>5, <1>7, <1>8

LEMMA CutAt ==
  ASSUME NEW m \in Seq(Message), History(m), NEW ids \in Seq(0..Len(m)), Paired(m, ids),
         NEW n \in 0..Len(ids),
         \/ n = 0 \/ n = Len(ids)
         \/ n > 0 /\ Single(m, ids[n])
         \/ n < Len(ids) /\ ~ToolIn(m, ids[n + 1])
  PROVE  Cut(m, ids, n)
<1>1. SUFFICES ASSUME NEW k \in 1..Len(ids), k > n, ToolIn(m, ids[k]), ~(k - m[ids[k]].call > n)
               PROVE  FALSE
  BY DEF Cut
<1>2. PICK p \in 1..Len(ids), c \in Nat \ {0} :
           /\ c = m[ids[k]].call /\ p = k - c /\ ids[p] = m[ids[k]].step
           /\ c \in 1..CallsIn(m, ids[p]) /\ ~ToolIn(m, ids[p])
  BY <1>1, CallOfPaired
<1>3. p <= n /\ n < k /\ k <= Len(ids) /\ p >= 1 /\ Len(ids) \in Nat BY <1>1, <1>2
<1>4. ASSUME NEW j \in Nat, p < j, j <= k PROVE j \in 1..Len(ids) /\ ToolIn(m, ids[j])
  <2>1. k - m[ids[k]].call < j BY <1>2, <1>4
  <2> QED BY <1>1, <1>4, <2>1, ResultsBetween
<1>5. CASE n = 0 BY <1>3, <1>5
<1>6. CASE n = Len(ids) BY <1>3, <1>6
<1>7. CASE n > 0 /\ Single(m, ids[n])
  <2>1. CASE n = p BY <1>2, <1>7, <2>1 DEF Single
  <2>2. CASE n # p
    <3>1. n \in Nat /\ p < n /\ n <= k BY <1>3, <2>2
    <3> QED BY <1>4, <1>7, <3>1 DEF Single
  <2> QED BY <2>1, <2>2
<1>8. CASE n < Len(ids) /\ ~ToolIn(m, ids[n + 1])
  <2>1. n + 1 \in Nat /\ p < n + 1 /\ n + 1 <= k BY <1>3
  <2> QED BY <1>4, <1>8, <2>1
<1> QED BY <1>5, <1>6, <1>7, <1>8

\* Between two cuts there are whole rounds.
LEMMA CutRounds ==
  ASSUME NEW m \in Seq(Message), History(m), NEW ids \in Seq(0..Len(m)), Paired(m, ids),
         NEW f \in 0..Len(ids), NEW e \in 0..Len(ids), Cut(m, ids, f), Cut(m, ids, e),
         NEW k \in f+1..e
  PROVE  /\ k \in 1..Len(ids)
         /\ \A c \in 1..CallsIn(m, ids[k]) :
              k + c \in f+1..e /\ ResultOf(m, ids[k + c], ids[k], c)
         /\ ToolIn(m, ids[k]) =>
              k - m[ids[k]].call \in f+1..e /\ ids[k - m[ids[k]].call] = m[ids[k]].step
<1>1. k \in 1..Len(ids) /\ k > f /\ k <= e /\ Len(ids) \in Nat OBVIOUS
<1>2. ASSUME NEW c \in 1..CallsIn(m, ids[k])
      PROVE  k + c \in f+1..e /\ ResultOf(m, ids[k + c], ids[k], c)
  <2>1. ids[k] \in 0..Len(m) BY <1>1, ElementOf
  <2>2. CallsIn(m, ids[k]) \in Nat BY <2>1, CallsTypes
  <2>3. k + c <= Len(ids) /\ ResultOf(m, ids[k + c], ids[k], c)
    BY <1>1 DEF Paired, CallsFollowed, Followed
  <2>4. PICK j \in 1..Len(ids) : j = k + c BY <1>1, <2>2, <2>3
  <2>5. ToolIn(m, ids[j]) /\ m[ids[j]].call = c BY <2>3, <2>4 DEF ResultOf
  <2>6. j > e => j - c > e BY <2>5 DEF Cut
  <2> QED BY <1>1, <2>2, <2>3, <2>4, <2>6
<1>3. ASSUME ToolIn(m, ids[k])
      PROVE  k - m[ids[k]].call \in f+1..e /\ ids[k - m[ids[k]].call] = m[ids[k]].step
  <2>1. PICK p \in 1..Len(ids), c \in Nat \ {0} :
           /\ c = m[ids[k]].call /\ p = k - c /\ ids[p] = m[ids[k]].step
           /\ c \in 1..CallsIn(m, ids[p]) /\ ~ToolIn(m, ids[p])
    BY <1>1, <1>3, CallOfPaired
  <2>2. k - m[ids[k]].call > f BY <1>1, <1>3 DEF Cut
  <2>3. p \in f+1..e
    <3>1. p = k - c /\ p > f BY <2>1, <2>2
    <3> QED BY <1>1, <3>1
  <2> QED BY <2>1, <2>3
<1> QED BY <1>1, <1>2, <1>3

LEMMA SubSeqFacts ==
  ASSUME NEW T, NEW s \in Seq(T), NEW f \in 0..Len(s), NEW e \in f..Len(s)
  PROVE  /\ SubSeq(s, f + 1, e) \in Seq(T) /\ Len(SubSeq(s, f + 1, e)) = e - f
         /\ \A q \in 1..e - f : SubSeq(s, f + 1, e)[q] = s[f + q] /\ f + q \in 1..Len(s)
<1>1. Len(s) \in Nat OBVIOUS
<1>2. \A q \in 1..e - f : f + q \in 1..Len(s) BY <1>1
<1>3. SubSeq(s, f + 1, e) = [q \in 1..e - f |-> s[f + q]]
  <2>1. e - (f + 1) + 1 = e - f BY <1>1
  <2>2. \A q \in 1..e - f : f + 1 + q - 1 = f + q BY <1>1
  <2> QED BY <1>1, <2>1, <2>2
<1>4. e - f \in Nat BY <1>1
<1>5. \A q \in 1..e - f : s[f + q] \in T BY <1>2, ElementOf
<1> QED BY <1>2, <1>3, <1>4, <1>5

LEMMA CutPaired ==
  ASSUME NEW m \in Seq(Message), History(m), NEW ids \in Seq(0..Len(m)), Paired(m, ids),
         NEW f \in 0..Len(ids), NEW e \in f..Len(ids), Cut(m, ids, f), Cut(m, ids, e)
  PROVE  Paired(m, SubSeq(ids, f + 1, e))
<1> DEFINE t == SubSeq(ids, f + 1, e)
           pos == [q \in 1..e - f |-> f + q]
<1>1. Len(ids) \in Nat /\ e \in 0..Len(ids) /\ e - f \in Nat OBVIOUS
<1>2. t \in Seq(0..Len(m)) /\ Len(t) = e - f /\ \A q \in 1..e - f : t[q] = ids[f + q] /\ f + q \in 1..Len(ids)
  BY SubSeqFacts
<1>3. pos \in Seq(1..Len(ids)) /\ Len(pos) = e - f /\ \A q \in 1..e - f : pos[q] = f + q
  BY <1>1
<1>4. ASSUME NEW k PROVE At(k, pos) <=> k \in f+1..e
  <2>1. At(k, pos) => k \in f+1..e BY <1>1, <1>3 DEF At
  <2>2. ASSUME k \in f+1..e PROVE At(k, pos)
    <3>1. k - f \in 1..e - f /\ f + (k - f) = k BY <1>1, <2>2
    <3> QED BY <1>3, <3>1 DEF At
  <2> QED BY <2>1, <2>2
<1>5. Increasing(pos, Len(ids)) BY <1>1, <1>3 DEF Increasing
<1>6. Selects(t, ids, pos) BY <1>2, <1>3 DEF Selects
<1> HIDE DEF pos, t
<1>8. Rounds(m, ids, pos)
  <2>1. ASSUME NEW k \in 1..Len(ids), At(k, pos)
        PROVE  /\ \A c \in 1..CallsIn(m, ids[k]) : At(k + c, pos)
               /\ ToolIn(m, ids[k]) => At(k - m[ids[k]].call, pos)
    <3>1. k \in f+1..e BY <1>4, <2>1
    <3>2. \A c \in 1..CallsIn(m, ids[k]) : k + c \in f+1..e BY <1>1, <3>1, CutRounds
    <3>3. ToolIn(m, ids[k]) => k - m[ids[k]].call \in f+1..e BY <1>1, <3>1, CutRounds
    <3> QED BY <1>4, <3>2, <3>3
  <2> QED BY <2>1, Zenon DEF Rounds
<1> QED BY <1>5, <1>6, <1>8, SelectPaired DEF t

-----------------------------------------------------------------------------
(* The rows that a run sees, by key.                                        *)

LEMMA SortKeyFacts ==
  ASSUME messages \in Seq(Message), History(messages), NEW i \in Ids, NEW chain
  PROVE  /\ SortKey(i, chain) \in Nat
         /\ ~SummaryIn(messages, i) => SortKey(i, chain) = Key(messages, i)
<1> DEFINE folded == {k \in summarized : messages[k].run \in chain}
           old == messages[i].covers # <<>> /\ ToSet(messages[i].covers) \subseteq folded
<1>1. /\ i \in 1..Len(messages) /\ i \in Nat /\ i # 0
      /\ messages[i].step \in Nat /\ messages[i].covers \in Seq(1..MaxMessages)
  BY RowTypes DEF Ids
<1>2. messages[i].covers # <<>> => messages[i].role = "summary"
  BY <1>1 DEF History, PlainRow
<1>3. CASE old
  <2>1. SortKey(i, chain) = messages[i].covers[1] BY <1>2, <1>3 DEF SortKey
  <2>2. Len(messages[i].covers) \in Nat \ {0} BY <1>1, <1>3
  <2>3. 1 \in 1..Len(messages[i].covers) BY <2>2
  <2>4. messages[i].covers[1] \in 1..MaxMessages BY <1>1, <2>3, ElementOf
  <2>5. messages[i].covers[1] \in Nat BY <2>4, BoundAssumption
  <2> QED BY <1>1, <1>2, <1>3, <2>1, <2>5 DEF SummaryIn
<1>4. CASE ~old
  <2>1. CASE messages[i].role = "tool"
    <3>1. SortKey(i, chain) = messages[i].step BY <1>4, <2>1 DEF SortKey
    <3> QED BY <1>1, <2>1, <3>1 DEF Key
  <2>2. CASE messages[i].role # "tool"
    <3>1. SortKey(i, chain) = i BY <1>4, <2>2 DEF SortKey
    <3> QED BY <1>1, <2>2, <3>1 DEF Key
  <2> QED BY <2>1, <2>2
<1> QED BY <1>3, <1>4

SortedBy(key, s) ==
  \A j, k \in 1..Len(s) : j < k =>
    key[s[j]] < key[s[k]] \/ (key[s[j]] = key[s[k]] /\ s[j] < s[k])

LEMMA PrefixFacts ==
  ASSUME NEW T, NEW s \in Seq(T), NEW e \in 0..Len(s)
  PROVE  /\ SubSeq(s, 1, e) \in Seq(T) /\ Len(SubSeq(s, 1, e)) = e
         /\ \A q \in 1..e : SubSeq(s, 1, e)[q] = s[q] /\ q \in 1..Len(s)
<1>1. Len(s) \in Nat /\ \A q \in 1..e : q \in 1..Len(s) OBVIOUS
<1>2. SubSeq(s, 1, e) = [q \in 1..e |-> s[q]] BY <1>1
<1>3. \A q \in 1..e : s[q] \in T BY <1>1, ElementOf
<1> QED BY <1>1, <1>2, <1>3

LEMMA JoinedHas ==
  ASSUME NEW t, NEW a, NEW b, Joined(t, a, b), Len(a) \in Nat, Len(b) \in Nat, NEW i
  PROVE  Has(t, i) <=> Has(a, i) \/ Has(b, i)
<1>1. ASSUME NEW k \in 1..Len(t), t[k] = i PROVE Has(a, i) \/ Has(b, i)
  <2>1. CASE k \in 1..Len(a) BY <1>1, <2>1 DEF Joined, Has
  <2>2. CASE k \notin 1..Len(a)
    <3>1. PICK j \in 1..Len(b) : k = Len(a) + j
      <4>1. k - Len(a) \in 1..Len(b) /\ k = Len(a) + (k - Len(a)) BY <2>2 DEF Joined
      <4> QED BY <4>1
    <3> QED BY <1>1, <3>1 DEF Joined, Has
  <2> QED BY <2>1, <2>2
<1>2. ASSUME NEW k \in 1..Len(a), a[k] = i PROVE Has(t, i)
  <2>1. k \in 1..Len(t) /\ t[k] = i BY <1>2 DEF Joined
  <2> QED BY <2>1 DEF Has
<1>3. ASSUME NEW k \in 1..Len(b), b[k] = i PROVE Has(t, i)
  <2>1. PICK j \in 1..Len(t) : j = Len(a) + k BY DEF Joined
  <2>2. t[j] = i BY <1>3, <2>1 DEF Joined
  <2> QED BY <2>2 DEF Has
<1> QED BY <1>1, <1>2, <1>3 DEF Has

\* t is a, then x, then b.
Around(t, a, x, b) ==
  /\ Len(t) = Len(a) + 1 + Len(b)
  /\ \A k \in 1..Len(a) : t[k] = a[k]
  /\ t[Len(a) + 1] = x
  /\ \A k \in 1..Len(b) : t[Len(a) + 1 + k] = b[k]

LEMMA AroundFacts ==
  ASSUME NEW T, NEW a \in Seq(T), NEW x \in T, NEW b \in Seq(T)
  PROVE  a \o <<x>> \o b \in Seq(T) /\ Around(a \o <<x>> \o b, a, x, b)
<1> DEFINE u == <<x>>
           c == a \o u
           t == c \o b
<1>1. u \in Seq(T) /\ Len(u) = 1 /\ u[1] = x OBVIOUS
<1> HIDE DEF u
<1>2. c \in Seq(T) /\ Len(a) \in Nat /\ Joined(c, a, u) BY <1>1, JoinFacts
<1>3. /\ Len(c) = Len(a) + 1 /\ c[Len(a) + 1] = x
      /\ \A k \in 1..Len(a) : c[k] = a[k] /\ k \in 1..Len(c)
  <2>1. 1 \in 1..Len(u) BY <1>1
  <2> QED BY <1>1, <1>2, <2>1 DEF Joined
<1> HIDE DEF c
<1>4. t \in Seq(T) /\ Len(b) \in Nat /\ Joined(t, c, b) BY <1>2, JoinFacts
<1>5. Len(a) + 1 \in 1..Len(c) BY <1>2, <1>3
<1>6. Around(t, a, x, b) BY <1>2, <1>3, <1>4, <1>5 DEF Joined, Around
<1> QED BY <1>4, <1>6 DEF t, c, u

\* t is s with x at position p.
Inserted(t, s, p, x) ==
  \A k \in 1..Len(s) + 1 : t[k] = IF k < p THEN s[k] ELSE IF k = p THEN x ELSE s[k - 1]

LEMMA InsertFacts ==
  ASSUME NEW T, NEW s \in Seq(T), NEW p \in 1..Len(s) + 1, NEW x \in T
  PROVE  /\ InsertAt(s, p, x) \in Seq(T) /\ Len(InsertAt(s, p, x)) = Len(s) + 1
         /\ Inserted(InsertAt(s, p, x), s, p, x)
<1>1. Len(s) \in Nat /\ p - 1 \in 0..Len(s) /\ Len(s) \in (p - 1)..Len(s) /\ (p - 1) + 1 = p
  OBVIOUS
<1> DEFINE a == SubSeq(s, 1, p - 1)
           b == SubSeq(s, (p - 1) + 1, Len(s))
           t == a \o <<x>> \o b
<1>3. InsertAt(s, p, x) = t BY <1>1 DEF InsertAt
<1>4. a \in Seq(T) /\ Len(a) = p - 1 /\ \A q \in 1..p - 1 : a[q] = s[q]
  BY <1>1, PrefixFacts
<1>5. b \in Seq(T) /\ Len(b) = Len(s) - (p - 1) /\ \A q \in 1..Len(s) - (p - 1) : b[q] = s[(p - 1) + q]
  BY <1>1, SubSeqFacts
<1> HIDE DEF a, b
<1>6. t \in Seq(T) /\ Around(t, a, x, b) BY <1>4, <1>5, AroundFacts
<1> HIDE DEF t
<1>7. /\ t \in Seq(T) /\ Len(t) = Len(s) + 1
      /\ \A k \in 1..p - 1 : t[k] = s[k]
      /\ t[p] = x
      /\ \A k \in 1..Len(s) - (p - 1) : t[p + k] = s[(p - 1) + k]
  <2>1. Len(a) + 1 = p /\ p + Len(b) = Len(s) + 1 BY <1>1, <1>4, <1>5
  <2> QED BY <1>4, <1>5, <1>6, <2>1 DEF Around
<1>8. ASSUME NEW k \in 1..Len(s) + 1
      PROVE  t[k] = IF k < p THEN s[k] ELSE IF k = p THEN x ELSE s[k - 1]
  <2>1. CASE k < p
    <3>1. k \in 1..p - 1 BY <2>1
    <3> QED BY <1>7, <2>1, <3>1
  <2>2. CASE k = p BY <1>7, <2>2
  <2>3. CASE ~(k < p) /\ k # p
    <3>1. k - p \in 1..Len(s) - (p - 1) /\ p + (k - p) = k /\ (p - 1) + (k - p) = k - 1
      BY <1>1, <2>3
    <3>2. t[p + (k - p)] = s[(p - 1) + (k - p)] BY <1>7, <3>1
    <3> QED BY <2>3, <3>1, <3>2
  <2> QED BY <2>1, <2>2, <2>3
<1> QED BY <1>3, <1>7, <1>8 DEF Inserted

LEMMA InsertElements ==
  ASSUME NEW s, NEW t, NEW p, NEW x, NEW l \in Nat, Len(s) = l, Len(t) = l + 1,
         p \in 1..l + 1, Inserted(t, s, p, x), NEW i
  PROVE  Has(t, i) <=> i = x \/ Has(s, i)
<1>1. \A k \in 1..l + 1 : t[k] = IF k < p THEN s[k] ELSE IF k = p THEN x ELSE s[k - 1]
  BY DEF Inserted
<1>2. ASSUME NEW k \in 1..l + 1, t[k] = i PROVE i = x \/ Has(s, i)
  <2>1. CASE k < p
    <3>1. k \in 1..l /\ t[k] = s[k] BY <1>1, <2>1
    <3> QED BY <1>2, <3>1 DEF Has
  <2>2. CASE k = p BY <1>1, <1>2, <2>2
  <2>3. CASE ~(k < p) /\ k # p
    <3>1. k - 1 \in 1..l /\ t[k] = s[k - 1] BY <1>1, <2>3
    <3> QED BY <1>2, <3>1 DEF Has
  <2> QED BY <2>1, <2>2, <2>3
<1>3. Has(t, x)
  <2>1. t[p] = x BY <1>1
  <2> QED BY <2>1 DEF Has
<1>4. ASSUME NEW k \in 1..l, s[k] = i PROVE Has(t, i)
  <2>1. CASE k < p
    <3>1. k \in 1..l + 1 /\ t[k] = s[k] BY <1>1, <2>1
    <3> QED BY <1>4, <3>1 DEF Has
  <2>2. CASE ~(k < p)
    <3>1. PICK j \in 1..l + 1 : j = k + 1 OBVIOUS
    <3>2. ~(j < p) /\ j # p /\ j - 1 = k BY <2>2, <3>1
    <3>3. t[j] = s[k] BY <1>1, <3>2
    <3> QED BY <1>4, <3>3 DEF Has
  <2> QED BY <2>1, <2>2
<1> QED BY <1>2, <1>3, <1>4 DEF Has

LEMMA InsertOrder ==
  ASSUME NEW key, NEW s, NEW t, NEW p, NEW x \in Nat, NEW l \in Nat, Len(s) = l, Len(t) = l + 1,
         p \in 1..l + 1, Inserted(t, s, p, x), SortedBy(key, s), key[x] \in Nat,
         \A k \in 1..l : key[s[k]] \in Nat /\ s[k] \in Nat /\ s[k] < x,
         \A k \in 1..l : k < p => key[s[k]] <= key[x],
         \A k \in 1..l : ~(k < p) => key[x] < key[s[k]]
  PROVE  SortedBy(key, t)
<1>1. \A k \in 1..l + 1 : t[k] = IF k < p THEN s[k] ELSE IF k = p THEN x ELSE s[k - 1]
  BY DEF Inserted
<1>2. ASSUME NEW j \in 1..l + 1, NEW k \in 1..l + 1, j < k
       PROVE  key[t[j]] < key[t[k]] \/ (key[t[j]] = key[t[k]] /\ t[j] < t[k])
  <2>1. CASE k < p
    <3>1. j < p /\ j \in 1..l /\ k \in 1..l BY <1>2, <2>1
    <3>2. t[j] = s[j] /\ t[k] = s[k] BY <1>1, <2>1, <3>1
    <3> QED BY <1>2, <3>1, <3>2 DEF SortedBy
  <2>2. CASE k = p
    <3>1. j < p /\ j \in 1..l BY <1>2, <2>2
    <3>2. t[j] = s[j] /\ t[k] = x BY <1>1, <2>2, <3>1
    <3>3. key[s[j]] <= key[x] /\ s[j] < x /\ key[s[j]] \in Nat BY <3>1
    <3> QED BY <3>2, <3>3
  <2>3. CASE ~(k < p) /\ k # p /\ j = p
    <3>1. k - 1 \in 1..l /\ ~(k - 1 < p) BY <1>2, <2>3
    <3>2. t[j] = x /\ t[k] = s[k - 1] BY <1>1, <2>3
    <3>3. key[x] < key[s[k - 1]] BY <3>1
    <3> QED BY <3>2, <3>3
  <2>4. CASE ~(k < p) /\ k # p /\ j < p
    <3>1. PICK q \in 1..l : q = k - 1 /\ j \in 1..l /\ j < q BY <1>2, <2>4
    <3>2. t[j] = s[j] /\ t[k] = s[q] BY <1>1, <2>4, <3>1
    <3> QED BY <3>1, <3>2 DEF SortedBy
  <2>5. CASE ~(k < p) /\ k # p /\ ~(j < p) /\ j # p
    <3>1. PICK r \in 1..l, q \in 1..l : r = j - 1 /\ q = k - 1 /\ r < q BY <1>2, <2>5
    <3>2. t[j] = s[r] /\ t[k] = s[q] BY <1>1, <2>5, <3>1
    <3> QED BY <3>1, <3>2 DEF SortedBy
  <2> QED BY <2>1, <2>2, <2>3, <2>4, <2>5
<1> QED BY <1>2, Zenon DEF SortedBy

LEMMA PlaceFacts ==
  ASSUME NEW key, NEW s, NEW l \in Nat, Len(s) = l, NEW x, key[x] \in Nat, SortedBy(key, s),
         \A k \in 1..l : key[s[k]] \in Nat,
         NEW M, M = {0} \cup {k \in 1..l : key[s[k]] <= key[x]}
  PROVE  /\ Max(M) + 1 \in 1..l + 1
         /\ \A k \in 1..l : k < Max(M) + 1 => key[s[k]] <= key[x]
         /\ \A k \in 1..l : ~(k < Max(M) + 1) => key[x] < key[s[k]]
<1>1. M \subseteq 0..l /\ M # {} OBVIOUS
<1>2. Max(M) \in M /\ \A y \in M : y <= Max(M) BY <1>1, MaxFacts
<1>3. PICK z \in 0..l : z = Max(M) BY <1>1, <1>2
<1>4. z \in M /\ \A y \in M : y <= z BY <1>2, <1>3
<1>5. ASSUME NEW k \in 1..l, k < z + 1 PROVE key[s[k]] <= key[x]
  <2>1. z \in 1..l /\ key[s[z]] <= key[x] BY <1>4, <1>5
  <2>2. CASE k = z BY <2>1, <2>2
  <2>3. CASE k # z
    <3>1. k < z BY <1>5, <2>3
    <3>2. key[s[k]] < key[s[z]] \/ key[s[k]] = key[s[z]] BY <2>1, <3>1 DEF SortedBy
    <3>3. key[s[k]] \in Nat /\ key[s[z]] \in Nat BY <2>1
    <3> QED BY <2>1, <3>2, <3>3
  <2> QED BY <2>2, <2>3
<1>6. ASSUME NEW k \in 1..l, ~(k < z + 1) PROVE key[x] < key[s[k]]
  <2>1. k \notin M BY <1>4, <1>6
  <2>2. ~(key[s[k]] <= key[x]) BY <2>1
  <2>3. key[s[k]] \in Nat OBVIOUS
  <2> QED BY <2>2, <2>3
<1> QED BY <1>3, <1>5, <1>6

\* Behind the last key that is not greater.
PlaceOf(key, s, x) == Max({0} \cup {k \in 1..Len(s) : key[s[k]] <= key[x]}) + 1

KeysIn(key, N) == \A i \in 1..N : key[i] \in Nat
Below(s, x) == \A k \in 1..Len(s) : s[k] < x

LEMMA InsertSorted ==
  ASSUME NEW N \in Nat, NEW key, KeysIn(key, N),
         NEW s \in Seq(1..N), SortedBy(key, s),
         NEW x \in 1..N, Below(s, x), NEW p, p = PlaceOf(key, s, x)
  PROVE  /\ InsertAt(s, p, x) \in Seq(1..N) /\ SortedBy(key, InsertAt(s, p, x))
         /\ \A i : Has(InsertAt(s, p, x), i) <=> i = x \/ Has(s, i)
<1>1. PICK l \in Nat : l = Len(s) OBVIOUS
<1>2. \A k \in 1..l : s[k] \in 1..N BY <1>1, ElementOf
<1>3. \A k \in 1..l : key[s[k]] \in Nat /\ s[k] \in Nat /\ s[k] < x
  BY <1>1, <1>2 DEF KeysIn, Below
<1>4. key[x] \in Nat /\ x \in Nat BY DEF KeysIn
<1>5. PICK M : M = {0} \cup {k \in 1..l : key[s[k]] <= key[x]} OBVIOUS
<1>6. p = Max(M) + 1 BY <1>1, <1>5 DEF PlaceOf
<1>7. /\ Max(M) + 1 \in 1..l + 1
      /\ \A k \in 1..l : k < Max(M) + 1 => key[s[k]] <= key[x]
      /\ \A k \in 1..l : ~(k < Max(M) + 1) => key[x] < key[s[k]]
  BY <1>1, <1>3, <1>4, <1>5, PlaceFacts
<1>8. /\ p \in 1..l + 1
      /\ \A k \in 1..l : k < p => key[s[k]] <= key[x]
      /\ \A k \in 1..l : ~(k < p) => key[x] < key[s[k]]
  BY <1>6, <1>7
<1> DEFINE t == InsertAt(s, p, x)
<1>9. t \in Seq(1..N) /\ Len(t) = l + 1 /\ Inserted(t, s, p, x)
  BY <1>1, <1>8, InsertFacts
<1> HIDE DEF t
<1>10. SortedBy(key, t) BY <1>1, <1>3, <1>4, <1>8, <1>9, InsertOrder
<1>11. \A i : Has(t, i) <=> i = x \/ Has(s, i) BY <1>1, <1>8, <1>9, InsertElements
<1> QED BY <1>9, <1>10, <1>11 DEF t

KeyUpTo(g, ids, chain, N) ==
  g = [n \in 0..N |->
        IF n = 0 THEN <<>>
        ELSE LET sorted == g[n-1]
             IN  IF n \in ids THEN InsertAt(sorted, Place(sorted, n, chain), n) ELSE sorted]

LEMMA KeyRecursion ==
  ASSUME NEW ids, NEW chain, NEW N \in Nat
  PROVE  \E g : KeyUpTo(g, ids, chain, N)
<1> DEFINE Next1(s, n) == IF n \in ids THEN InsertAt(s, Place(s, n, chain), n) ELSE s
           Body(g, n) == IF n = 0 THEN <<>> ELSE Next1(g[n-1], n)
           R == {n \in Nat : \E g : g = [k \in 0..n |-> Body(g, k)]}
<1> HIDE DEF Next1
<1>1. 0 \in R
  <2> DEFINE g == [k \in 0..0 |-> <<>>]
  <2>1. g = [k \in 0..0 |-> Body(g, k)] OBVIOUS
  <2> QED BY <2>1
<1>2. ASSUME NEW n \in Nat, n \in R PROVE n + 1 \in R
  <2>1. PICK g : g = [k \in 0..n |-> Body(g, k)] BY <1>2
  <2> DEFINE h == [k \in 0..n + 1 |-> IF k = n + 1 THEN Body(g, n + 1) ELSE g[k]]
  <2>2. ASSUME NEW k \in 0..n + 1 PROVE h[k] = Body(h, k)
    <3>1. CASE k = 0  BY <3>1, <2>1
    <3>2. CASE k # 0
      <4>1. k - 1 \in 0..n /\ k - 1 # n + 1 /\ k - 1 \in 0..n + 1 BY <3>2
      <4>2. h[k - 1] = g[k - 1] BY <4>1
      <4>3. Body(h, k) = Body(g, k) BY <4>2
      <4>4. CASE k = n + 1 BY <4>3, <4>4
      <4>5. CASE k # n + 1
        <5>1. k \in 0..n BY <4>5
        <5>2. g[k] = Body(g, k) BY <5>1, <2>1
        <5> QED BY <4>3, <4>5, <5>2
      <4> QED BY <4>4, <4>5
    <3> QED BY <3>1, <3>2
  <2>3. h = [k \in 0..n + 1 |-> Body(h, k)] BY <2>2
  <2> HIDE DEF h
  <2> QED BY <2>3
<1> HIDE DEF R
<1>3. N \in R BY <1>1, <1>2, Induction
<1>4. PICK g : g = [k \in 0..N |-> Body(g, k)] BY <1>3 DEF R
<1>5. KeyUpTo(g, ids, chain, N) BY <1>4, Zenon DEF KeyUpTo, Next1
<1> QED BY <1>5

\* The rows ids in the order of their keys.
ByKeyKeys(chain) == [i \in Ids |-> SortKey(i, chain)]

LEMMA ByKeyFacts ==
  ASSUME messages \in Seq(Message), History(messages), NEW ids \in SUBSET Ids, NEW chain
  PROVE  /\ ByKey(ids, chain) \in Seq(Ids)
         /\ SortedBy(ByKeyKeys(chain), ByKey(ids, chain))
         /\ \A i : Has(ByKey(ids, chain), i) <=> i \in ids
<1> DEFINE N == Len(messages)
           key == ByKeyKeys(chain)
           g == CHOOSE h : KeyUpTo(h, ids, chain, N)
           Good(n) == /\ g[n] \in Seq(1..N) /\ SortedBy(key, g[n])
                      /\ \A i : Has(g[n], i) <=> i \in ids /\ i <= n
           R == {n \in Nat : n <= N => Good(n)}
<1>1. ByKey(ids, chain) = g[N] BY DEF ByKey, KeyUpTo
<1>2. N \in Nat /\ Ids = 1..N BY DEF Ids
<1>3. KeyUpTo(g, ids, chain, N) BY <1>2, KeyRecursion
<1>4. \A i \in 1..N : key[i] \in Nat /\ key[i] = SortKey(i, chain)
  BY <1>2, SortKeyFacts DEF ByKeyKeys
<1> HIDE DEF g, key, N
<1>5. g[0] = <<>> BY <1>2, <1>3 DEF KeyUpTo
<1>6. ASSUME NEW n \in Nat, n + 1 <= N
      PROVE  g[n + 1] = IF n + 1 \in ids
                          THEN InsertAt(g[n], Place(g[n], n + 1, chain), n + 1) ELSE g[n]
  <2>1. n + 1 \in 0..N /\ n + 1 # 0 /\ (n + 1) - 1 = n BY <1>2, <1>6
  <2> QED BY <2>1, <1>3 DEF KeyUpTo
<1>7. Good(0)
  <2>1. ~ \E k \in 1..Len(<<>>) : TRUE OBVIOUS
  <2>2. \A i : ~Has(<<>>, i) BY <2>1 DEF Has
  <2>3. ASSUME NEW i, i \in ids PROVE ~(i <= 0) BY <1>2, <2>3
  <2>4. SortedBy(key, <<>>) BY DEF SortedBy
  <2>5. <<>> \in Seq(1..N) OBVIOUS
  <2> QED BY <1>5, <2>2, <2>3, <2>4, <2>5
<1>8. ASSUME NEW n \in Nat, n + 1 <= N, Good(n) PROVE Good(n + 1)
  <2> DEFINE s == g[n]
             x == n + 1
             p == Place(s, x, chain)
  <2>1. s \in Seq(1..N) /\ SortedBy(key, s) /\ \A i : Has(s, i) <=> i \in ids /\ i <= n
    BY <1>8
  <2>2. x \in 1..N /\ n < x BY <1>2, <1>8
  <2>3. \A i \in ids : i \in Nat /\ (i <= x <=> i <= n \/ i = x) BY <1>2
  <2>4. CASE x \notin ids
    <3>1. g[x] = s BY <1>6, <1>8, <2>4
    <3>2. \A i : (i \in ids /\ i <= x) <=> (i \in ids /\ i <= n) BY <2>3, <2>4
    <3> QED BY <2>1, <3>1, <3>2
  <2>5. CASE x \in ids
    <3>1. g[x] = InsertAt(s, p, x) BY <1>6, <1>8, <2>5
    <3>2. \A k \in 1..Len(s) : s[k] \in 1..N BY <2>1, ElementOf
    <3>3. \A k \in 1..Len(s) : s[k] < x
      <4>1. \A k \in 1..Len(s) : Has(s, s[k]) BY DEF Has
      <4> QED BY <2>1, <2>2, <2>3, <3>2, <4>1
    <3>4. p = PlaceOf(key, s, x)
      <4>1. DOMAIN s = 1..Len(s) BY <2>1
      <4>2. {k \in DOMAIN s : SortKey(s[k], chain) <= SortKey(x, chain)}
              = {k \in 1..Len(s) : key[s[k]] <= key[x]}
        BY <1>4, <2>2, <3>2, <4>1
      <4> QED BY <4>2 DEF Place, PlaceOf
    <3> HIDE DEF p, s, x
    <3>5. /\ InsertAt(s, p, x) \in Seq(1..N) /\ SortedBy(key, InsertAt(s, p, x))
          /\ \A i : Has(InsertAt(s, p, x), i) <=> i = x \/ Has(s, i)
      <4>1. KeysIn(key, N) BY <1>4 DEF KeysIn
      <4>2. Below(s, x) BY <3>3 DEF Below
      <4> QED BY <1>2, <2>1, <2>2, <3>4, <4>1, <4>2, InsertSorted
    <3>6. \A i : (i \in ids /\ i <= x) <=> (i \in ids /\ i <= n) \/ i = x
      BY <2>3, <2>5 DEF x
    <3>7. Good(x) BY <2>1, <3>1, <3>5, <3>6
    <3> QED BY <3>7 DEF x
  <2> QED BY <2>4, <2>5
<1>9. 0 \in R BY <1>7
<1>10. ASSUME NEW n \in Nat, n \in R PROVE n + 1 \in R
  <2>1. SUFFICES ASSUME n + 1 <= N PROVE Good(n + 1) OBVIOUS
  <2>2. Good(n) BY <1>2, <1>10, <2>1
  <2> HIDE DEF Good
  <2> QED BY <1>8, <2>1, <2>2
<1> HIDE DEF R, Good
<1>11. N \in R BY <1>2, <1>9, <1>10, Induction
<1>12. Good(N) BY <1>2, <1>11 DEF R
<1>13. \A i \in ids : i <= N BY <1>2
<1> QED BY <1>1, <1>2, <1>12, <1>13 DEF Good, key

LEMMA OnlyAll ==
  ASSUME NEW T, NEW s \in Seq(T), NEW S, \A k \in 1..Len(s) : s[k] \in S
  PROVE  Only(s, S) = s
<1>1. PICK n \in Nat : n = Len(s) OBVIOUS
<1>2. Only(s, S) \in Seq(T) BY OnlyPositions
<1>3. PICK pos : /\ Increasing(pos, Len(s)) /\ Selects(Only(s, S), s, pos)
                 /\ \A k \in 1..Len(s) : At(k, pos) <=> s[k] \in S
  BY OnlyPositions
<1>4. /\ pos \in Seq(1..n) /\ Len(pos) \in Nat
      /\ \A p, q \in 1..Len(pos) : p < q => pos[p] < pos[q]
      /\ \A k \in 1..n : At(k, pos)
  BY <1>1, <1>3 DEF Increasing
<1>5. \A q \in 1..Len(pos) : pos[q] \in 1..n BY <1>4, ElementOf
<1>6. Len(pos) = n /\ \A q \in 1..n : pos[q] = q
  <2>1. CASE n = 0
    <3>1. ~ \E q \in 1..Len(pos) : TRUE BY <1>5, <2>1
    <3>2. Len(pos) = 0 BY <1>4, <3>1
    <3> QED BY <2>1, <3>2
  <2>2. CASE n # 0
    <3>1. At(1, pos) BY <1>1, <1>4, <2>2
    <3>2. PICK f \in 1..Len(pos) : pos[f] = 1 BY <3>1 DEF At
    <3>3. f = 1
      <4>1. SUFFICES ASSUME f # 1 PROVE FALSE OBVIOUS
      <4>2. 1 \in 1..Len(pos) /\ 1 < f BY <1>4, <4>1
      <4>3. pos[1] < pos[f] /\ pos[1] \in 1..n BY <1>4, <1>5, <4>2
      <4> QED BY <3>2, <4>3
    <3>4. 1 \in 1..Len(pos) /\ pos[1] = 1 BY <3>2, <3>3
    <3>5. \A c \in 1..n - 1 : At(pos[1] + c, pos) BY <1>1, <1>4, <3>4
    <3>6. PICK d \in Nat : d = n - 1 BY <1>1, <2>2
    <3>7. Stretch(pos[1], d, pos) BY <3>5, <3>6 DEF Stretch
    <3>8. Increasing(pos, n) BY <1>1, <1>3
    <3>9. ASSUME NEW c \in 1..d PROVE 1 + c \in 1..Len(pos) /\ pos[1 + c] = pos[1] + c
      <4>1. n \in Nat /\ d \in Nat /\ c \in 1..d /\ 1 \in 1..Len(pos) BY <1>1, <3>4, <3>6
      <4> QED BY <4>1, <3>7, <3>8, StretchPosition
    <3>10. ASSUME NEW q \in 1..n PROVE q \in 1..Len(pos) /\ pos[q] = q
      <4>1. CASE q = 1 BY <3>4, <4>1
      <4>2. CASE q # 1
        <5>1. PICK c \in 1..d : q = 1 + c
          <6>1. q - 1 \in 1..d /\ q = 1 + (q - 1) BY <1>1, <3>6, <4>2
          <6> QED BY <6>1
        <5> QED BY <3>4, <3>9, <5>1
      <4> QED BY <4>1, <4>2
    <3>11. Len(pos) = n
      <4>1. n \in 1..Len(pos) /\ pos[n] = n BY <1>1, <2>2, <3>10
      <4>2. SUFFICES ASSUME n # Len(pos) PROVE FALSE OBVIOUS
      <4>3. n < Len(pos) /\ Len(pos) \in 1..Len(pos) BY <1>1, <1>4, <4>1, <4>2
      <4>4. pos[n] < pos[Len(pos)] /\ pos[Len(pos)] \in 1..n BY <1>4, <1>5, <4>1, <4>3
      <4> QED BY <1>1, <4>1, <4>4
    <3> QED BY <3>10, <3>11
  <2> QED BY <2>1, <2>2
<1>7. Len(Only(s, S)) = Len(s) BY <1>1, <1>3, <1>6 DEF Selects
<1>8. \A q \in 1..Len(s) : Only(s, S)[q] = s[q] BY <1>1, <1>3, <1>6 DEF Selects
<1> QED BY <1>2, <1>7, <1>8, SeqEqual

-----------------------------------------------------------------------------
(* Messages in order.                                                       *)

Strict(m, b) == \A j, k \in 1..Len(b) : j < k => Before(m, b[j], b[k])

LEMMA KeyTypes ==
  ASSUME NEW m \in Seq(Message), NEW i \in 1..Len(m)
  PROVE  Key(m, i) \in Nat /\ i \in Nat
BY RowTypes DEF Key

LEMMA BeforeOrder ==
  ASSUME NEW m \in Seq(Message), NEW i \in 1..Len(m), NEW j \in 1..Len(m)
  PROVE  /\ ~Before(m, i, i)
         /\ ~(Before(m, i, j) /\ Before(m, j, i))
<1>1. Key(m, i) \in Nat /\ Key(m, j) \in Nat BY KeyTypes
<1> QED BY <1>1 DEF Before

LEMMA ResultFacts ==
  ASSUME NEW m \in Seq(Message), History(m), NEW t \in 1..Len(m), NEW a, NEW c, ResultOf(m, t, a, c)
  PROVE  /\ Key(m, t) = a /\ a \in 1..Len(m) /\ a < t /\ c \in Nat \ {0}
         /\ c <= m[a].calls /\ m[a].role = "assistant" /\ m[a].run = m[t].run
<1>1. ToolIn(m, t) /\ m[t].step = a /\ m[t].call = c /\ m[t].role = "tool" BY DEF ResultOf, ToolIn
<1>2. /\ a > 0 /\ a < t /\ c > 0 /\ c <= m[a].calls /\ m[a].run = m[t].run
      /\ a \in Nat /\ c \in Nat
  BY <1>1, RowTypes DEF History, ToolRowAfter
<1>3. a \in 1..Len(m) BY <1>2
<1>4. m[a].calls \in Nat BY <1>3, RowTypes
<1>5. m[a].role = "assistant" BY <1>2, <1>3, <1>4 DEF History, PlainRow
<1> QED BY <1>1, <1>2, <1>3, <1>5 DEF Key

LEMMA ResultOrder ==
  ASSUME NEW m \in Seq(Message), History(m), NEW a, NEW t \in 1..Len(m), NEW u \in 1..Len(m),
         NEW c, NEW d, ResultOf(m, t, a, c), ResultOf(m, u, a, d)
  PROVE  /\ t < u <=> c < d
         /\ t = u <=> c = d
<1>1. c \in Nat /\ d \in Nat BY ResultFacts
<1>2. /\ ToolIn(m, t) /\ m[t].step = a /\ m[t].call = c
      /\ ToolIn(m, u) /\ m[u].step = a /\ m[u].call = d
  BY DEF ResultOf
<1>3. t < u => c < d BY <1>2 DEF History
<1>4. u < t => d < c BY <1>2 DEF History
<1>5. t = u => c = d BY <1>2
<1> QED BY <1>1, <1>3, <1>4, <1>5

\* Between the result of a call, or the step itself, and that of the next
\* call there is nothing.
NthOf(m, w, a, c) == IF c = 0 THEN w = a ELSE ResultOf(m, w, a, c)

LEMMA NothingBetween ==
  ASSUME NEW m \in Seq(Message), History(m), NEW w \in 1..Len(m), NEW t \in 1..Len(m),
         NEW z \in 1..Len(m), NEW a, NEW c \in Nat, ~ToolIn(m, a),
         NthOf(m, w, a, c), ResultOf(m, t, a, c + 1), Before(m, w, z), Before(m, z, t)
  PROVE  FALSE
<1>1. Key(m, t) = a /\ a \in 1..Len(m) BY ResultFacts
<1>2. Key(m, a) = a BY <1>1 DEF Key, ToolIn
<1>3. Key(m, w) = a /\ a <= w
  <2>1. CASE c = 0 BY <1>1, <1>2, <2>1 DEF NthOf
  <2>2. CASE c # 0
    <3>1. ResultOf(m, w, a, c) BY <2>2 DEF NthOf
    <3>2. Key(m, w) = a /\ a < w BY <3>1, ResultFacts
    <3> QED BY <1>1, <3>2
  <2> QED BY <2>1, <2>2
<1>4. Key(m, z) \in Nat /\ a \in Nat BY <1>1, KeyTypes
<1>5. Key(m, z) = a BY <1>1, <1>3, <1>4 DEF Before
<1>6. w < z /\ z < t /\ a < z BY <1>1, <1>3, <1>4, <1>5 DEF Before
<1>7. m[z].role = "tool" /\ m[z].step = a BY <1>5, <1>6 DEF Key
<1>8. PICK d : d = m[z].call OBVIOUS
<1>9. ResultOf(m, z, a, d) BY <1>6, <1>7, <1>8 DEF ResultOf, ToolIn
<1>10. d \in Nat /\ d > 0 BY <1>9, ResultFacts
<1>11. d < c + 1
  <2>1. z < t <=> d < c + 1 BY <1>9, ResultOrder
  <2> QED BY <1>6, <2>1
<1>12. c < d
  <2>1. CASE c = 0 BY <1>10, <2>1
  <2>2. CASE c # 0
    <3>1. ResultOf(m, w, a, c) BY <2>2 DEF NthOf
    <3>2. w < z <=> c < d BY <1>9, <3>1, ResultOrder
    <3> QED BY <1>6, <3>2
  <2> QED BY <2>1, <2>2
<1> QED BY <1>10, <1>11, <1>12

LEMMA NthBefore ==
  ASSUME NEW m \in Seq(Message), History(m), NEW w \in 1..Len(m), NEW t \in 1..Len(m),
         NEW a, NEW c \in Nat, ~ToolIn(m, a), NthOf(m, w, a, c), ResultOf(m, t, a, c + 1)
  PROVE  Before(m, w, t) /\ w # t
<1>1. Key(m, t) = a /\ a \in 1..Len(m) /\ a < t BY ResultFacts
<1>2. Key(m, a) = a BY <1>1 DEF Key, ToolIn
<1>3. CASE c = 0 BY <1>1, <1>2, <1>3 DEF NthOf, Before
<1>4. CASE c # 0
  <2>1. ResultOf(m, w, a, c) BY <1>4 DEF NthOf
  <2>2. Key(m, w) = a BY <2>1, ResultFacts
  <2>3. w < t <=> c < c + 1 BY <2>1, ResultOrder
  <2>4. w < t BY <2>3
  <2> QED BY <1>1, <2>2, <2>4 DEF Before
<1> QED BY <1>3, <1>4

\* In a sequence in order the results of a step follow it.
LEMMA RoundInOrder ==
  ASSUME NEW m \in Seq(Message), History(m), NEW b \in Seq(1..Len(m)), Strict(m, b),
         NEW p \in 1..Len(b), NEW a, a = b[p], ~ToolIn(m, a), NEW n \in Nat,
         \A c \in 1..n : \E k \in 1..Len(b) : ResultOf(m, b[k], a, c)
  PROVE  \A c \in 0..n : p + c \in 1..Len(b) /\ NthOf(m, b[p + c], a, c)
<1> DEFINE S == {c \in Nat : c <= n => p + c \in 1..Len(b) /\ NthOf(m, b[p + c], a, c)}
<1>1. 0 \in S BY DEF NthOf
<1>2. ASSUME NEW c \in Nat, c \in S PROVE c + 1 \in S
  <2>1. SUFFICES ASSUME c + 1 <= n
                 PROVE  p + (c + 1) \in 1..Len(b) /\ NthOf(m, b[p + (c + 1)], a, c + 1)
    OBVIOUS
  <2>2. c <= n BY <2>1
  <2>3. PICK q \in 1..Len(b) : q = p + c /\ NthOf(m, b[q], a, c) BY <1>2, <2>2
  <2>4. c + 1 \in 1..n BY <2>1
  <2>5. PICK r \in 1..Len(b) : ResultOf(m, b[r], a, c + 1) BY <2>4
  <2>6. b[q] \in 1..Len(m) /\ b[r] \in 1..Len(m) BY ElementOf
  <2>7. Before(m, b[q], b[r]) /\ b[q] # b[r] BY <2>3, <2>5, <2>6, NthBefore
  <2>8. ~Before(m, b[r], b[q]) BY <2>6, <2>7, BeforeOrder
  <2>9. q < r
    <3>1. Len(b) \in Nat OBVIOUS
    <3>2. r < q => Before(m, b[r], b[q]) BY DEF Strict
    <3> QED BY <2>7, <2>8, <3>1, <3>2
  <2>10. q + 1 = r
    <3>1. SUFFICES ASSUME q + 1 # r PROVE FALSE OBVIOUS
    <3>2. PICK z \in 1..Len(b) : z = q + 1 BY <2>9
    <3>3. q < z /\ z < r BY <2>9, <3>1, <3>2
    <3>4. Before(m, b[q], b[z]) /\ Before(m, b[z], b[r]) BY <3>3 DEF Strict
    <3>5. b[z] \in 1..Len(m) BY ElementOf
    <3> QED BY <2>3, <2>5, <2>6, <3>4, <3>5, NothingBetween
  <2>11. r = p + (c + 1) BY <2>3, <2>10
  <2>12. NthOf(m, b[r], a, c + 1) BY <2>5 DEF NthOf
  <2> QED BY <2>11, <2>12
<1> HIDE DEF S
<1>3. Nat \subseteq S BY <1>1, <1>2, Induction
<1> QED BY <1>3 DEF S

-----------------------------------------------------------------------------
(* What a run sees.                                                         *)

ChainUpTo(p, g, N) == g = [n \in 0..N |-> IF n = 0 THEN {} ELSE {n} \cup g[p[n]]]

ParentsFirst(p) == \A n \in 1..Len(p) : p[n] \in Nat /\ p[n] < n

LEMMA ChainRecursion ==
  ASSUME NEW p, ParentsFirst(p), NEW N \in Nat, N <= Len(p), Len(p) \in Nat
  PROVE  \E g : ChainUpTo(p, g, N)
<1> DEFINE Body(g, n) == IF n = 0 THEN {} ELSE {n} \cup g[p[n]]
           R == {n \in Nat : n <= N => \E g : g = [k \in 0..n |-> Body(g, k)]}
<1>1. 0 \in R
  <2> DEFINE g == [k \in 0..0 |-> {}]
  <2>1. g = [k \in 0..0 |-> Body(g, k)] OBVIOUS
  <2> QED BY <2>1
<1>2. ASSUME NEW n \in Nat, n \in R PROVE n + 1 \in R
  <2>0. SUFFICES ASSUME n + 1 <= N PROVE \E g : g = [k \in 0..n + 1 |-> Body(g, k)] OBVIOUS
  <2>1. PICK g : g = [k \in 0..n |-> Body(g, k)] BY <1>2, <2>0
  <2> DEFINE h == [k \in 0..n + 1 |-> IF k = n + 1 THEN Body(g, n + 1) ELSE g[k]]
  <2>2. ASSUME NEW k \in 0..n + 1 PROVE h[k] = Body(h, k)
    <3>1. CASE k = 0  BY <3>1, <2>1
    <3>2. CASE k # 0
      <4>0. p[k] \in Nat /\ p[k] < k BY <2>0, <3>2 DEF ParentsFirst
      <4>1. p[k] \in 0..n /\ p[k] # n + 1 /\ p[k] \in 0..n + 1 BY <3>2, <4>0
      <4>2. h[p[k]] = g[p[k]] BY <4>1
      <4>3. Body(h, k) = Body(g, k) BY <4>2
      <4>4. CASE k = n + 1 BY <4>3, <4>4
      <4>5. CASE k # n + 1
        <5>1. k \in 0..n BY <4>5
        <5>2. g[k] = Body(g, k) BY <5>1, <2>1
        <5> QED BY <4>3, <4>5, <5>2
      <4> QED BY <4>4, <4>5
    <3> QED BY <3>1, <3>2
  <2>3. h = [k \in 0..n + 1 |-> Body(h, k)] BY <2>2
  <2> HIDE DEF h
  <2> QED BY <2>3
<1> HIDE DEF R
<1>3. N \in R BY <1>1, <1>2, Induction
<1>4. PICK g : g = [k \in 0..N |-> Body(g, k)] BY <1>3 DEF R
<1>5. ChainUpTo(p, g, N) BY <1>4, Zenon DEF ChainUpTo
<1> QED BY <1>5

\* A run sees itself and what its parent sees.
LEMMA ChainFacts ==
  ASSUME Len(parent) \in Nat, ParentsFirst(parent), NEW r \in 1..Len(parent)
  PROVE  Chain(r) = {r} \cup Chain(parent[r]) /\ Chain(0) = {}
<1> DEFINE g == CHOOSE h : ChainUpTo(parent, h, Len(parent))
<1>1. \A n : Chain(n) = g[n] BY DEF Chain, ChainUpTo
<1>2. ChainUpTo(parent, g, Len(parent)) BY ChainRecursion
<1> HIDE DEF g
<1>3. g[0] = {} BY <1>2 DEF ChainUpTo
<1>4. r \in 0..Len(parent) /\ r # 0 OBVIOUS
<1>5. g[r] = {r} \cup g[parent[r]] BY <1>2, <1>4 DEF ChainUpTo
<1> QED BY <1>1, <1>3, <1>5

LEMMA WholeResult ==
  ASSUME NEW m \in Seq(Message), History(m), NEW S \in SUBSET (1..Len(m)), Whole(m, S),
         NEW t \in 1..Len(m), NEW a \in S, NEW c, ResultOf(m, t, a, c)
  PROVE  t \in S
<1>1. c \in Nat \ {0} /\ c <= m[a].calls /\ a \in 1..Len(m) BY ResultFacts
<1>2. CallsIn(m, a) = m[a].calls /\ m[a].calls \in Nat BY <1>1, RowTypes DEF CallsIn
<1>3. c \in 1..CallsIn(m, a) BY <1>1, <1>2
<1>4. PICK u \in S : ResultOf(m, u, a, c) BY <1>3 DEF Whole
<1>5. u \in 1..Len(m) OBVIOUS
<1>6. t = u <=> c = c BY <1>4, <1>5, ResultOrder
<1> QED BY <1>6

\* What a run sees: the messages of its branch that are not marked.
Sees(r) == {i \in Ids : messages[i].run \in Chain(r) /\ i \notin summarized}

\* Messages of a round are seen together.
LEMMA SeesRounds ==
  ASSUME messages \in Seq(Message), History(messages), summarized \in SUBSET Ids,
         Whole(messages, summarized), NEW r, NEW t \in Ids, NEW a, NEW c,
         ResultOf(messages, t, a, c)
  PROVE  a \in Sees(r) <=> t \in Sees(r)
<1>1. Ids = 1..Len(messages) BY DEF Ids
<1>2. a \in Ids /\ messages[a].run = messages[t].run BY <1>1, ResultFacts
<1>3. a \in summarized => t \in summarized BY <1>1, WholeResult
<1>4. t \in summarized => a \in summarized BY DEF Whole, ResultOf
<1> QED BY <1>2, <1>3, <1>4 DEF Sees

\* The messages seen but summaries, in order.
SeenRegular(r) == Only(ByKey(Sees(r), Chain(r)), Ids \ Summaries)

LEMMA SeenOrder ==
  ASSUME messages \in Seq(Message), History(messages), NEW r
  PROVE  /\ SeenRegular(r) \in Seq(Ids)
         /\ \A i : Has(SeenRegular(r), i) <=> i \in Sees(r) /\ ~SummaryIn(messages, i)
         /\ Strict(messages, SeenRegular(r))
<1> DEFINE srt == ByKey(Sees(r), Chain(r))
           S == Ids \ Summaries
           B == Only(srt, S)
           key == ByKeyKeys(Chain(r))
<1>1. B = SeenRegular(r) BY DEF SeenRegular
<1>2. Sees(r) \in SUBSET Ids /\ 0 \notin Ids BY DEF Sees, Ids
<1>3. srt \in Seq(Ids) /\ SortedBy(key, srt) /\ \A i : Has(srt, i) <=> i \in Sees(r)
  BY <1>2, ByKeyFacts
<1>4. \A i \in Ids : i \in S <=> ~SummaryIn(messages, i)
  BY DEF Summaries, IsSummary, SummaryIn
<1>5. \A i \in S : key[i] = Key(messages, i)
  BY <1>4, SortKeyFacts DEF ByKeyKeys
<1> HIDE DEF srt, S, B, key
<1>6. /\ B \in Seq(Ids)
      /\ \A i : Has(B, i) <=> Has(srt, i) /\ i \in S
  BY <1>3, OnlyHas DEF B
<1>7. ASSUME NEW i PROVE Has(B, i) <=> i \in Sees(r) /\ ~SummaryIn(messages, i)
  BY <1>2, <1>3, <1>4, <1>6
<1>8. PICK pos : Increasing(pos, Len(srt)) /\ Selects(B, srt, pos)
  BY <1>3, OnlyPositions DEF B
<1>9. ASSUME NEW j \in 1..Len(B), NEW k \in 1..Len(B), j < k
      PROVE  Before(messages, B[j], B[k])
  <2>1. /\ pos[j] \in 1..Len(srt) /\ pos[k] \in 1..Len(srt) /\ pos[j] < pos[k]
        /\ B[j] = srt[pos[j]] /\ B[k] = srt[pos[k]]
    BY <1>8, <1>9 DEF Increasing, Selects
  <2>2. key[B[j]] < key[B[k]] \/ (key[B[j]] = key[B[k]] /\ B[j] < B[k])
    <3>1. PICK x \in 1..Len(srt), y \in 1..Len(srt) : x = pos[j] /\ y = pos[k] BY <2>1
    <3>2. x < y /\ B[j] = srt[x] /\ B[k] = srt[y] BY <2>1, <3>1
    <3> QED BY <1>3, <3>2 DEF SortedBy
  <2>3. B[j] \in S /\ B[k] \in S BY <1>6 DEF Has
  <2> QED BY <1>5, <2>2, <2>3 DEF Before
<1>10. Strict(messages, B) BY <1>9 DEF Strict
<1> QED BY <1>1, <1>6, <1>7, <1>10

LEMMA SeenRounds ==
  ASSUME messages \in Seq(Message), History(messages), summarized \in SUBSET Ids,
         Whole(messages, summarized), NEW r,
         NEW k \in 1..Len(SeenRegular(r)), NEW a, a = SeenRegular(r)[k], NEW n \in Nat,
         ~ToolIn(messages, a),
         \A c \in 1..n : \E t \in Ids : ResultOf(messages, t, a, c)
  PROVE  \A c \in 0..n : k + c \in 1..Len(SeenRegular(r)) /\ NthOf(messages, SeenRegular(r)[k + c], a, c)
<1> DEFINE B == SeenRegular(r)
<1>1. /\ B \in Seq(1..Len(messages)) /\ Strict(messages, B)
      /\ \A i : Has(B, i) <=> i \in Sees(r) /\ ~SummaryIn(messages, i)
  BY SeenOrder DEF Ids
<1>2. a \in Sees(r) BY <1>1 DEF Has
<1>3. ASSUME NEW c \in 1..n PROVE \E j \in 1..Len(B) : ResultOf(messages, B[j], a, c)
  <2>1. PICK t \in Ids : ResultOf(messages, t, a, c) OBVIOUS
  <2>2. t \in Sees(r) BY <1>2, <2>1, SeesRounds
  <2>3. ~SummaryIn(messages, t) BY <2>1 DEF SummaryIn, ResultOf, ToolIn
  <2>4. Has(B, t) BY <1>1, <2>2, <2>3
  <2> QED BY <2>1, <2>4 DEF Has
<1> HIDE DEF B
<1>4. k \in 1..Len(B) /\ a = B[k] BY DEF B
<1>5. \A c \in 0..n : k + c \in 1..Len(B) /\ NthOf(messages, B[k + c], a, c)
  BY <1>1, <1>3, <1>4, RoundInOrder
<1> QED BY <1>5 DEF B

SeenSummaries(r) == Only(ByKey(Sees(r), Chain(r)), Summaries)

\* The view of a run: its summaries, and then the rest in order.
LEMMA ViewParts ==
  ASSUME messages \in Seq(Message), History(messages), summarized \in SUBSET Ids,
         Whole(messages, summarized), NEW r
  PROVE  /\ SeenSummaries(r) \in Seq(Ids)
         /\ \A i : Has(SeenSummaries(r), i) <=> i \in Sees(r) /\ SummaryIn(messages, i)
         /\ View(r) = SeenSummaries(r) \o SeenRegular(r)
<1> DEFINE srt == ByKey(Sees(r), Chain(r))
           A == SeenSummaries(r)
           B == SeenRegular(r)
           s == A \o B
           called == ToSet(s) \ Tools
           kept == {i \in Ids : IsTool(i) => messages[i].step \in called}
<1>1. Ids = 1..Len(messages) /\ 0 \notin Ids /\ Sees(r) \in SUBSET Ids BY DEF Sees, Ids
<1>2. srt \in Seq(Ids) /\ \A i : Has(srt, i) <=> i \in Sees(r)
  BY <1>1, ByKeyFacts
<1>3. \A i \in Ids : i \in Summaries <=> SummaryIn(messages, i)
  BY DEF Summaries, IsSummary, SummaryIn
<1> HIDE DEF srt
<1>4. A \in Seq(Ids) /\ \A i : Has(A, i) <=> i \in Sees(r) /\ SummaryIn(messages, i)
  <2>1. A = Only(srt, Summaries) BY DEF SeenSummaries, srt
  <2>2. /\ Only(srt, Summaries) \in Seq(Ids)
        /\ \A i : Has(Only(srt, Summaries), i) <=> Has(srt, i) /\ i \in Summaries
    BY <1>2, OnlyHas
  <2>3. \A i : i \in Sees(r) /\ i \in Summaries <=> i \in Sees(r) /\ SummaryIn(messages, i)
    BY <1>1, <1>3
  <2> QED BY <1>2, <2>1, <2>2, <2>3
<1>5. /\ B \in Seq(Ids)
      /\ \A i : Has(B, i) <=> i \in Sees(r) /\ ~SummaryIn(messages, i)
  BY SeenOrder
<1>6. View(r) = Only(s, kept)
  BY DEF View, Sanitize, Sees, SeenSummaries, SeenRegular
<1> HIDE DEF A, B
<1>7. s \in Seq(Ids) /\ Len(A) \in Nat /\ Len(B) \in Nat /\ Joined(s, A, B)
  BY <1>4, <1>5, JoinFacts
<1>8. \A i : Has(s, i) <=> Has(A, i) \/ Has(B, i) BY <1>7, JoinedHas
<1>9. \A i : i \in ToSet(s) <=> i \in Sees(r)
  <2>1. \A i : i \in ToSet(s) <=> Has(s, i) BY <1>7 DEF ToSet, Has
  <2> QED BY <1>4, <1>5, <1>8, <2>1
<1> HIDE DEF s
<1>10. ASSUME NEW i \in Sees(r) PROVE i \in kept
  <2>1. i \in Ids BY <1>1
  <2>2. ASSUME IsTool(i) PROVE messages[i].step \in called
    <3>1. PICK a, c : a = messages[i].step /\ c = messages[i].call OBVIOUS
    <3>2. ResultOf(messages, i, a, c) BY <2>2, <3>1 DEF IsTool, ToolIn, ResultOf
    <3>3. a \in Sees(r) BY <2>1, <3>2, SeesRounds
    <3>4. a \notin Tools BY <1>1, <2>1, <3>2, ResultFacts DEF Tools, IsTool
    <3> QED BY <1>9, <3>1, <3>3, <3>4
  <2> HIDE DEF called
  <2> QED BY <2>1, <2>2
<1> HIDE DEF kept
<1>11. \A k \in 1..Len(s) : s[k] \in kept
  <2>1. \A k \in 1..Len(s) : Has(s, s[k]) BY DEF Has
  <2> QED BY <1>4, <1>5, <1>8, <1>10, <2>1
<1>12. Only(s, kept) = s BY <1>7, <1>11, OnlyAll
<1> QED BY <1>4, <1>6, <1>12 DEF s, A, B

\* All calls of the messages that a run sees have a result.
NothingMissing(r) ==
  \A i \in Sees(r) : \A c \in 1..CallsIn(messages, i) : \E t \in Ids : ResultOf(messages, t, i, c)

LEMMA SeenPaired ==
  ASSUME messages \in Seq(Message), History(messages), summarized \in SUBSET Ids,
         Whole(messages, summarized), NEW r
  PROVE  /\ ResultsFollow(messages, SeenRegular(r))
         /\ NothingMissing(r) => CallsFollowed(messages, SeenRegular(r))
<1> DEFINE B == SeenRegular(r)
<1>1. /\ B \in Seq(Ids) /\ Strict(messages, B) /\ Ids = 1..Len(messages)
      /\ \A i : Has(B, i) <=> i \in Sees(r) /\ ~SummaryIn(messages, i)
  BY SeenOrder DEF Ids
<1>2. \A k \in 1..Len(B) : B[k] \in Sees(r) /\ B[k] \in 1..Len(messages)
  BY <1>1, ElementOf DEF Has
<1>3. ASSUME NEW k \in 1..Len(B), ToolIn(messages, B[k]) PROVE Follows(messages, B, k)
  <2>1. PICK t \in 1..Len(messages) : t = B[k] BY <1>2
  <2>2. PICK a, n : a = messages[t].step /\ n = messages[t].call OBVIOUS
  <2>3. ResultOf(messages, t, a, n) BY <1>3, <2>1, <2>2 DEF ResultOf
  <2>4. a \in 1..Len(messages) /\ n \in Nat \ {0} /\ messages[a].role = "assistant"
    BY <2>3, ResultFacts
  <2>5. a \in Sees(r) BY <1>1, <1>2, <2>1, <2>3, SeesRounds
  <2>6. ~SummaryIn(messages, a) /\ ~ToolIn(messages, a) BY <2>4 DEF SummaryIn, ToolIn
  <2>7. PICK p \in 1..Len(B) : B[p] = a BY <1>1, <2>5, <2>6 DEF Has
  <2>8. \A c \in 1..n : \E j \in Ids : ResultOf(messages, j, a, c)
    <3>1. \A c \in 1..messages[t].call : \E j \in 1..t : ResultOf(messages, j, messages[t].step, c)
      BY <1>3, <2>1 DEF History, ToolRowAfter
    <3>2. \A j \in 1..t : j \in Ids BY <1>1
    <3> QED BY <2>2, <3>1, <3>2
  <2>9. \A c \in 0..n : p + c \in 1..Len(B) /\ NthOf(messages, B[p + c], a, c)
    BY <2>4, <2>6, <2>7, <2>8, SeenRounds
  <2>10. n \in 0..n BY <2>4
  <2>11. PICK q \in 1..Len(B) : q = p + n BY <2>9, <2>10
  <2>12. ResultOf(messages, B[q], a, n) BY <2>4, <2>9, <2>10, <2>11 DEF NthOf
  <2>13. B[q] = t
    <3>1. B[q] \in 1..Len(messages) BY <1>2
    <3>2. B[q] = t <=> n = n BY <2>3, <2>12, <3>1, ResultOrder
    <3> QED BY <3>2
  <2>14. q = k
    <3>1. ~Before(messages, t, t) BY BeforeOrder
    <3>2. ~(q < k) /\ ~(k < q) BY <1>1, <2>1, <2>13, <3>1 DEF Strict
    <3>3. Len(B) \in Nat BY <1>1
    <3> QED BY <3>2, <3>3
  <2>15. k - n = p /\ n < k
    <3>1. Len(B) \in Nat BY <1>1
    <3> QED BY <2>4, <2>11, <2>14, <3>1
  <2> QED BY <2>1, <2>2, <2>7, <2>15 DEF Follows
<1>4. ASSUME NothingMissing(r), NEW k \in 1..Len(B) PROVE Followed(messages, B, k)
  <2>1. PICK a \in 1..Len(messages) : a = B[k] BY <1>2
  <2>2. a \in 0..Len(messages) OBVIOUS
  <2>3. PICK n \in Nat : n = CallsIn(messages, a) BY <2>2, CallsTypes
  <2>4. CASE n = 0
    <3>1. ~ \E c \in 1..CallsIn(messages, B[k]) : TRUE BY <2>1, <2>3, <2>4
    <3> QED BY <3>1 DEF Followed
  <2>5. CASE n # 0
    <3>1. messages[a].role = "assistant"
      <4>1. n = messages[a].calls /\ n > 0 BY <2>1, <2>3, <2>5 DEF CallsIn
      <4> QED BY <4>1 DEF History, PlainRow
    <3>2. ~ToolIn(messages, a) BY <3>1 DEF ToolIn
    <3>3. a \in Sees(r) BY <1>2, <2>1
    <3>4. \A c \in 1..n : \E t \in Ids : ResultOf(messages, t, a, c)
      BY <1>4, <2>3, <3>3 DEF NothingMissing
    <3>5. \A c \in 0..n : k + c \in 1..Len(B) /\ NthOf(messages, B[k + c], a, c)
      BY <2>1, <2>3, <3>2, <3>4, SeenRounds
    <3>6. ASSUME NEW c \in 1..n PROVE k + c <= Len(B) /\ ResultOf(messages, B[k + c], a, c)
      <4>1. c \in 0..n /\ c # 0 BY <2>3
      <4>2. k + c \in 1..Len(B) /\ NthOf(messages, B[k + c], a, c) BY <3>5, <4>1
      <4>3. Len(B) \in Nat BY <1>1
      <4> QED BY <4>1, <4>2, <4>3 DEF NthOf
    <3> QED BY <2>1, <2>3, <3>6 DEF Followed
  <2> QED BY <2>4, <2>5
<1> QED BY <1>3, <1>4 DEF ResultsFollow, CallsFollowed

LEMMA ViewFacts ==
  ASSUME messages \in Seq(Message), History(messages), summarized \in SUBSET Ids,
         Whole(messages, summarized), NEW r
  PROVE  /\ View(r) \in Seq(Ids)
         /\ \A i : Has(View(r), i) <=> i \in Sees(r)
         /\ Ordered(messages, View(r))
         /\ ResultsFollow(messages, View(r))
         /\ NothingMissing(r) => CallsFollowed(messages, View(r))
         /\ SystemFront(messages, View(r), {})
<1> DEFINE A == SeenSummaries(r)
           B == SeenRegular(r)
           v == View(r)
<1>1. /\ A \in Seq(Ids) /\ \A i : Has(A, i) <=> i \in Sees(r) /\ SummaryIn(messages, i)
      /\ v = A \o B
  BY ViewParts
<1>2. /\ B \in Seq(Ids) /\ Strict(messages, B)
      /\ \A i : Has(B, i) <=> i \in Sees(r) /\ ~SummaryIn(messages, i)
  BY SeenOrder
<1>3. Ids = 1..Len(messages) BY DEF Ids
<1>4. v \in Seq(Ids) /\ Len(A) \in Nat /\ Len(B) \in Nat /\ Joined(v, A, B)
  BY <1>1, <1>2, JoinFacts
<1>5. \A i : Has(v, i) <=> i \in Sees(r)
  <2>1. \A i : Has(v, i) <=> Has(A, i) \/ Has(B, i) BY <1>4, JoinedHas
  <2> QED BY <1>1, <1>2, <2>1
<1>6. ASSUME NEW k \in 1..Len(A)
      PROVE  /\ SummaryIn(messages, A[k]) /\ ~ToolIn(messages, A[k])
             /\ CallsIn(messages, A[k]) = 0 /\ ~RegularIn(messages, A[k])
  <2>1. SummaryIn(messages, A[k]) /\ A[k] \in 1..Len(messages)
    BY <1>1, <1>3, ElementOf DEF Has
  <2>2. messages[A[k]].role = "summary" BY <2>1 DEF SummaryIn
  <2>3. messages[A[k]].calls \in Nat /\ ~(messages[A[k]].calls > 0)
    BY <2>1, <2>2, RowTypes DEF History, PlainRow
  <2>4. CallsIn(messages, A[k]) = 0 BY <2>1, <2>3 DEF CallsIn
  <2> QED BY <2>1, <2>2, <2>4 DEF ToolIn, RegularIn
<1>7. ASSUME NEW k \in 1..Len(B) PROVE ~SummaryIn(messages, B[k]) BY <1>2 DEF Has
<1> HIDE DEF A, B
<1>8. ResultsFollow(messages, v)
  <2>1. ResultsFollow(messages, A) BY <1>6 DEF ResultsFollow
  <2>2. ResultsFollow(messages, B) BY SeenPaired DEF B
  <2>3. \A k \in 1..Len(A) : ToolIn(messages, A[k]) => messages[A[k]].call \in Nat \ {0}
    BY <1>6
  <2>4. \A k \in 1..Len(B) : ToolIn(messages, B[k]) => messages[B[k]].call \in Nat \ {0}
    <3>1. \A k \in 1..Len(B) : B[k] \in 0..Len(messages) BY <1>2, <1>3, ElementOf
    <3> QED BY <3>1, ResultCalls
  <2> QED BY <1>1, <1>2, <2>1, <2>2, <2>3, <2>4, ConcatFollow
<1>9. ASSUME NothingMissing(r) PROVE CallsFollowed(messages, v)
  <2>1. \A k \in 1..Len(A) : ~ \E c \in 1..CallsIn(messages, A[k]) : TRUE BY <1>6
  <2>2. CallsFollowed(messages, A) BY <2>1 DEF CallsFollowed, Followed
  <2>3. CallsFollowed(messages, B) BY <1>9, SeenPaired DEF B
  <2>4. \A i \in Ids : CallsIn(messages, i) \in Nat BY <1>3, CallsTypes
  <2> QED BY <1>1, <1>2, <2>2, <2>3, <2>4, ConcatFollowed
<1>10. Ordered(messages, v)
  <2>1. Ordered(messages, A) BY <1>6 DEF Ordered
  <2>2. Ordered(messages, B) BY <1>2 DEF Ordered, Strict
  <2>3. \A j \in 1..Len(A), k \in 1..Len(B) :
           RegularIn(messages, A[j]) /\ RegularIn(messages, B[k]) => Before(messages, A[j], B[k])
    BY <1>6
  <2> QED BY <1>1, <1>2, <2>1, <2>2, <2>3, ConcatOrdered
<1>11. SystemFront(messages, v, {})
  <2>1. ASSUME NEW k \in 1..Len(v), SummaryIn(messages, v[k]) PROVE System(messages, v, {}, k)
    <3>1. k \in 1..Len(A)
      <4>1. SUFFICES ASSUME k \notin 1..Len(A) PROVE FALSE OBVIOUS
      <4>2. PICK j \in 1..Len(B) : k = Len(A) + j
        <5>1. k - Len(A) \in 1..Len(B) /\ k = Len(A) + (k - Len(A)) BY <1>4, <4>1 DEF Joined
        <5> QED BY <5>1
      <4>3. v[k] = B[j] BY <1>4, <4>2 DEF Joined
      <4> QED BY <1>7, <2>1, <4>3
    <3>2. \A j \in 1..k : j \in 1..Len(A) BY <1>4, <3>1
    <3>3. \A j \in 1..k : SummaryIn(messages, v[j]) BY <1>4, <1>6, <3>2 DEF Joined
    <3> QED BY <3>3 DEF System
  <2> QED BY <2>1 DEF SystemFront
<1> QED BY <1>4, <1>5, <1>8, <1>9, <1>10, <1>11

-----------------------------------------------------------------------------
(* The calls without result.                                                *)

FlattenUpTo(g, q, N) == g = [i \in 1..N |-> IF i = 1 THEN q[i] ELSE g[i-1] \o q[i]]

LEMMA FlattenRecursion ==
  ASSUME NEW q, NEW N \in Nat
  PROVE  \E g : FlattenUpTo(g, q, N)
<1> DEFINE Next1(s, n) == s \o q[n]
           Body(g, n) == IF n = 1 THEN q[n] ELSE Next1(g[n-1], n)
           R == {n \in Nat : \E g : g = [k \in 1..n |-> Body(g, k)]}
<1> HIDE DEF Next1
<1>1. 0 \in R
  <2> DEFINE g == [k \in 1..0 |-> {}]
  <2>1. \A k \in 1..0 : g[k] = Body(g, k) OBVIOUS
  <2>2. g = [k \in 1..0 |-> Body(g, k)] BY <2>1
  <2> HIDE DEF g
  <2> QED BY <2>2
<1>2. ASSUME NEW n \in Nat, n \in R PROVE n + 1 \in R
  <2>1. PICK g : g = [k \in 1..n |-> Body(g, k)] BY <1>2
  <2> DEFINE h == [k \in 1..n + 1 |-> IF k = n + 1 THEN Body(g, n + 1) ELSE g[k]]
  <2>2. ASSUME NEW k \in 1..n + 1 PROVE h[k] = Body(h, k)
    <3>1. CASE k = 1
      <4>1. CASE k = n + 1 BY <3>1, <4>1
      <4>2. CASE k # n + 1
        <5>1. k \in 1..n BY <4>2
        <5> QED BY <2>1, <3>1, <4>2, <5>1
      <4> QED BY <4>1, <4>2
    <3>2. CASE k # 1
      <4>1. k - 1 \in 1..n /\ k - 1 # n + 1 /\ k - 1 \in 1..n + 1 BY <3>2
      <4>2. h[k - 1] = g[k - 1] BY <4>1
      <4>3. Body(h, k) = Body(g, k) BY <3>2, <4>2
      <4>4. CASE k = n + 1 BY <4>3, <4>4
      <4>5. CASE k # n + 1
        <5>1. k \in 1..n BY <4>5
        <5>2. g[k] = Body(g, k) BY <5>1, <2>1
        <5> QED BY <4>3, <4>5, <5>2
      <4> QED BY <4>4, <4>5
    <3> QED BY <3>1, <3>2
  <2>3. h = [k \in 1..n + 1 |-> Body(h, k)] BY <2>2
  <2> HIDE DEF h
  <2> QED BY <2>3
<1> HIDE DEF R
<1>3. N \in R BY <1>1, <1>2, Induction
<1>4. PICK g : g = [k \in 1..N |-> Body(g, k)] BY <1>3 DEF R
<1>5. FlattenUpTo(g, q, N) BY <1>4, Zenon DEF FlattenUpTo, Next1
<1> QED BY <1>5

\* The place of x and y, in this order, among the first n parts of q.
InOrder(q, n, x, y) ==
  \/ \E j, k \in 1..n : j < k /\ Has(q[j], x) /\ Has(q[k], y)
  \/ \E j \in 1..n : \E a, b \in 1..Len(q[j]) : a < b /\ q[j][a] = x /\ q[j][b] = y

\* f has the elements of the first n parts of q, in their order.
Flattens(f, q, n) ==
  /\ \A x : Has(f, x) <=> \E k \in 1..n : Has(q[k], x)
  /\ \A a, b \in 1..Len(f) : a < b => InOrder(q, n, f[a], f[b])

LEMMA FlattenNext ==
  ASSUME NEW T, NEW q, NEW n \in Nat, NEW f \in Seq(T), Flattens(f, q, n), q[n + 1] \in Seq(T)
  PROVE  f \o q[n + 1] \in Seq(T) /\ Flattens(f \o q[n + 1], q, n + 1)
<1> DEFINE u == q[n + 1]
           t == f \o u
<1>1. t \in Seq(T) /\ Len(f) \in Nat /\ Len(u) \in Nat /\ Joined(t, f, u) BY JoinFacts
<1>2. \A k \in 1..n : k \in 1..n + 1 OBVIOUS
<1>3. n + 1 \in 1..n + 1 /\ \A k \in 1..n + 1 : k \in 1..n \/ k = n + 1 OBVIOUS
<1> HIDE DEF t
<1>4. ASSUME NEW x PROVE Has(t, x) <=> \E k \in 1..n + 1 : Has(q[k], x)
  <2>1. Has(t, x) <=> Has(f, x) \/ Has(u, x) BY <1>1, JoinedHas
  <2>2. Has(f, x) <=> \E k \in 1..n : Has(q[k], x) BY DEF Flattens
  <2> QED BY <1>2, <1>3, <2>1, <2>2
<1>5. ASSUME NEW a \in 1..Len(t), NEW b \in 1..Len(t), a < b PROVE InOrder(q, n + 1, t[a], t[b])
  <2>1. CASE b \in 1..Len(f)
    <3>1. a \in 1..Len(f) BY <1>1, <1>5, <2>1
    <3>2. t[a] = f[a] /\ t[b] = f[b] BY <1>1, <2>1, <3>1 DEF Joined
    <3>3. InOrder(q, n, f[a], f[b]) BY <1>5, <2>1, <3>1 DEF Flattens
    <3> QED BY <1>2, <3>2, <3>3 DEF InOrder
  <2>2. CASE b \notin 1..Len(f)
    <3>1. PICK c \in 1..Len(u) : b = Len(f) + c /\ t[b] = u[c]
      <4>1. b - Len(f) \in 1..Len(u) /\ b = Len(f) + (b - Len(f)) BY <1>1, <2>2 DEF Joined
      <4>2. t[Len(f) + (b - Len(f))] = u[b - Len(f)] BY <1>1, <4>1 DEF Joined
      <4> QED BY <4>1, <4>2
    <3>2. CASE a \in 1..Len(f)
      <4>1. t[a] = f[a] /\ Has(f, f[a]) BY <1>1, <3>2 DEF Joined, Has
      <4>2. PICK k \in 1..n : Has(q[k], f[a]) BY <4>1 DEF Flattens
      <4>3. Has(q[n + 1], t[b]) BY <3>1 DEF Has
      <4>4. k < n + 1 /\ k \in 1..n + 1 OBVIOUS
      <4> QED BY <1>3, <4>1, <4>2, <4>3, <4>4 DEF InOrder
    <3>3. CASE a \notin 1..Len(f)
      <4>1. PICK d \in 1..Len(u) : a = Len(f) + d /\ t[a] = u[d]
        <5>1. a - Len(f) \in 1..Len(u) /\ a = Len(f) + (a - Len(f)) BY <1>1, <3>3 DEF Joined
        <5>2. t[Len(f) + (a - Len(f))] = u[a - Len(f)] BY <1>1, <5>1 DEF Joined
        <5> QED BY <5>1, <5>2
      <4>2. d < c BY <1>1, <1>5, <3>1, <4>1
      <4> QED BY <1>3, <3>1, <4>1, <4>2 DEF InOrder
    <3> QED BY <3>2, <3>3
  <2> QED BY <2>1, <2>2
<1>6. Flattens(t, q, n + 1) BY <1>4, <1>5 DEF Flattens
<1> QED BY <1>1, <1>6 DEF t

LEMMA FlattenFacts ==
  ASSUME NEW T, NEW q, Len(q) \in Nat, \A k \in 1..Len(q) : q[k] \in Seq(T), q = <<>> <=> Len(q) = 0
  PROVE  FlattenSeq(q) \in Seq(T) /\ Flattens(FlattenSeq(q), q, Len(q))
<1> DEFINE N == Len(q)
           g == CHOOSE h : FlattenUpTo(h, q, N)
<1>1. CASE N = 0
  <2>1. FlattenSeq(q) = <<>> BY <1>1 DEF FlattenSeq
  <2>2. ~ \E k \in 1..Len(<<>>) : TRUE OBVIOUS
  <2>3. \A x : ~Has(<<>>, x) BY <2>2 DEF Has
  <2>4. ~ \E k \in 1..0 : TRUE OBVIOUS
  <2>5. Flattens(<<>>, q, 0) BY <2>2, <2>3, <2>4 DEF Flattens
  <2>6. <<>> \in Seq(T) OBVIOUS
  <2> QED BY <1>1, <2>1, <2>5, <2>6
<1>2. CASE N # 0
  <2>1. FlattenSeq(q) = g[N] BY <1>2 DEF FlattenSeq, FlattenUpTo
  <2>2. FlattenUpTo(g, q, N) BY FlattenRecursion
  <2> DEFINE Good(n) == g[n] \in Seq(T) /\ Flattens(g[n], q, n)
             R == {n \in Nat : n + 1 <= N => Good(n + 1)}
  <2> HIDE DEF g, N
  <2>3. N \in Nat \ {0} /\ \A k \in 1..N : q[k] \in Seq(T) BY <1>2 DEF N
  <2>4. g[1] = q[1] BY <2>2, <2>3 DEF FlattenUpTo
  <2>5. ASSUME NEW n \in Nat, n # 0, n + 1 <= N PROVE g[n + 1] = g[n] \o q[n + 1]
    <3>1. n + 1 \in 1..N /\ n + 1 # 1 /\ (n + 1) - 1 = n BY <2>3, <2>5
    <3> QED BY <2>2, <3>1 DEF FlattenUpTo
  <2>6. Good(1)
    <3>1. 1 \in 1..N /\ q[1] \in Seq(T) /\ \A k \in 1..1 : k = 1 BY <2>3
    <3>2. \A x : Has(q[1], x) <=> \E k \in 1..1 : Has(q[k], x) BY <3>1
    <3>3. \A a, b \in 1..Len(q[1]) : a < b => InOrder(q, 1, q[1][a], q[1][b]) BY <3>1 DEF InOrder
    <3> QED BY <2>4, <3>1, <3>2, <3>3 DEF Flattens
  <2>7. 0 \in R BY <2>6
  <2>8. ASSUME NEW n \in Nat, n \in R PROVE n + 1 \in R
    <3>1. SUFFICES ASSUME (n + 1) + 1 <= N PROVE Good((n + 1) + 1) OBVIOUS
    <3>2. PICK x \in Nat : x = n + 1 OBVIOUS
    <3>3. Good(x) /\ x # 0 /\ x + 1 <= N /\ x + 1 \in 1..N BY <2>3, <2>8, <3>1, <3>2
    <3>4. g[x + 1] = g[x] \o q[x + 1] BY <2>5, <3>3
    <3>5. q[x + 1] \in Seq(T) BY <2>3, <3>3
    <3>6. Good(x + 1) BY <3>2, <3>3, <3>4, <3>5, FlattenNext
    <3> QED BY <3>2, <3>6
  <2> HIDE DEF R, Good
  <2>9. N - 1 \in Nat /\ (N - 1) + 1 = N BY <2>3
  <2>10. N - 1 \in R BY <2>7, <2>8, <2>9, Induction
  <2>11. Good(N) BY <2>3, <2>9, <2>10 DEF R
  <2> QED BY <2>1, <2>11 DEF Good, N
<1> QED BY <1>1, <1>2

-----------------------------------------------------------------------------
(* The calls without result, of a sequence of messages and of a view.       *)

Answered(ids) == {<<messages[ids[k]].step, messages[ids[k]].call>> :
                    k \in {j \in DOMAIN ids : IsTool(ids[j])}}
CallsOf(i) == [c \in 1..Calls(i) |-> <<i, c>>]
Unanswered(i, answered) == Only(CallsOf(i), ToSet(CallsOf(i)) \ answered)
UnansweredOf(ids) == [k \in DOMAIN ids |-> Unanswered(ids[k], Answered(ids))]

LEMMA CallsSame ==
  ASSUME NEW i
  PROVE  /\ Calls(i) = CallsIn(messages, i) /\ (IsTool(i) <=> ToolIn(messages, i))
         /\ (IsSummary(i) <=> SummaryIn(messages, i))
BY DEF Calls, CallsIn, IsTool, ToolIn, IsSummary, SummaryIn

LEMMA UnansweredFacts ==
  ASSUME messages \in Seq(Message), NEW i \in Ids, NEW answered
  PROVE  /\ Unanswered(i, answered) \in Seq({i} \X (1..Calls(i)))
         /\ \A x : Has(Unanswered(i, answered), x) <=>
              x \in {i} \X (1..Calls(i)) /\ x \notin answered
         /\ \A a, b \in 1..Len(Unanswered(i, answered)) : a < b =>
              Unanswered(i, answered)[a][2] < Unanswered(i, answered)[b][2]
<1> DEFINE s == CallsOf(i)
           S == ToSet(s) \ answered
           t == Unanswered(i, answered)
           n == Calls(i)
<1>1. n \in Nat
  <2>1. i \in 0..Len(messages) BY DEF Ids
  <2> QED BY <2>1, CallsTypes, CallsSame
<1>2. s \in Seq({i} \X (1..n)) /\ Len(s) = n /\ \A c \in 1..n : s[c] = <<i, c>>
  BY <1>1 DEF CallsOf
<1>3. \A x : x \in ToSet(s) <=> x \in {i} \X (1..n)
  <2>1. ToSet(s) = {s[c] : c \in 1..n} BY <1>1 DEF ToSet, CallsOf
  <2> QED BY <1>2, <2>1
<1> HIDE DEF s, n
<1>4. t = Only(s, S) BY DEF Unanswered, s
<1> HIDE DEF t
<1>5. t \in Seq({i} \X (1..n)) /\ \A x : Has(t, x) <=> Has(s, x) /\ x \in S
  BY <1>2, <1>4, OnlyHas
<1>6. ASSUME NEW x PROVE Has(s, x) <=> x \in {i} \X (1..n)
  <2>1. ASSUME Has(s, x) PROVE x \in {i} \X (1..n) BY <1>2, <2>1 DEF Has
  <2>2. ASSUME x \in {i} \X (1..n) PROVE Has(s, x)
    <3>1. PICK c \in 1..n : x = <<i, c>> BY <2>2
    <3> QED BY <1>2, <3>1 DEF Has
  <2> QED BY <2>1, <2>2
<1>7. \A x : Has(t, x) <=> x \in {i} \X (1..n) /\ x \notin answered
  BY <1>3, <1>5, <1>6
<1>8. PICK pos : Increasing(pos, Len(s)) /\ Selects(t, s, pos) BY <1>2, <1>4, OnlyPositions
<1>9. ASSUME NEW a \in 1..Len(t), NEW b \in 1..Len(t), a < b PROVE t[a][2] < t[b][2]
  <2>1. Len(t) = Len(pos) /\ t[a] = s[pos[a]] /\ t[b] = s[pos[b]] BY <1>8, <1>9 DEF Selects
  <2>2. pos[a] \in 1..n /\ pos[b] \in 1..n /\ pos[a] < pos[b]
    BY <1>2, <1>8, <1>9, <2>1 DEF Increasing
  <2> QED BY <1>2, <2>1, <2>2
<1> QED BY <1>5, <1>7, <1>9 DEF t, n

\* Messages with calls occur once.
CallersOnce(ids) ==
  \A j, k \in 1..Len(ids) : ids[j] = ids[k] /\ CallsIn(messages, ids[j]) > 0 => j = k

OrderedCalls(q) ==
  \A j, k \in 1..Len(q) : j < k /\ q[j][1] = q[k][1] => q[j][2] < q[k][2]

LEMMA MissingFacts ==
  ASSUME messages \in Seq(Message), NEW ids \in Seq(Ids), CallersOnce(ids)
  PROVE  /\ FindMissing(ids) \in Seq(Ids \X (1..MaxCalls))
         /\ \A i, c : Has(FindMissing(ids), <<i, c>>) <=>
              Has(ids, i) /\ c \in 1..CallsIn(messages, i) /\ <<i, c>> \notin Answered(ids)
         /\ OrderedCalls(FindMissing(ids))
<1> DEFINE A == Answered(ids)
           q == UnansweredOf(ids)
           F == FindMissing(ids)
           n == Len(ids)
           T == Ids \X (1..MaxCalls)
<1>1. n \in Nat /\ DOMAIN ids = 1..n /\ \A k \in 1..n : ids[k] \in Ids OBVIOUS
<1>2. F = FlattenSeq(q)
  BY DEF FindMissing, UnansweredOf, Unanswered, CallsOf, Answered
<1>3. q = [k \in 1..n |-> Unanswered(ids[k], A)] BY <1>1 DEF UnansweredOf
<1> HIDE DEF q, F, A
<1>4. Len(q) = n /\ \A k \in 1..n : q[k] = Unanswered(ids[k], A) BY <1>1, <1>3
<1>5. q = <<>> <=> Len(q) = 0
  <2>1. q \in Seq({q[k] : k \in 1..n}) BY <1>1, <1>3
  <2> QED BY <2>1
<1>6. ASSUME NEW i \in Ids PROVE Calls(i) \in 0..MaxCalls /\ Calls(i) = CallsIn(messages, i)
  <2>1. i \in 1..Len(messages) /\ i # 0 BY DEF Ids
  <2>2. messages[i] \in Message BY <2>1, RowTypes
  <2> QED BY <2>1, <2>2, CallsSame DEF Calls, Message
<1>7. MaxCalls \in Nat BY BoundAssumption
<1>8. ASSUME NEW k \in 1..n
      PROVE  /\ q[k] \in Seq(T) /\ q[k] \in Seq({ids[k]} \X (1..Calls(ids[k])))
             /\ \A x : Has(q[k], x) <=> x \in {ids[k]} \X (1..Calls(ids[k])) /\ x \notin A
             /\ \A a, b \in 1..Len(q[k]) : a < b => q[k][a][2] < q[k][b][2]
  <2>1. ids[k] \in Ids BY <1>1
  <2>2. PICK i \in Ids : i = ids[k] BY <2>1
  <2>3. q[k] = Unanswered(i, A) BY <1>4, <2>2
  <2>4. /\ q[k] \in Seq({i} \X (1..Calls(i)))
        /\ \A x : Has(q[k], x) <=> x \in {i} \X (1..Calls(i)) /\ x \notin A
        /\ \A a, b \in 1..Len(q[k]) : a < b => q[k][a][2] < q[k][b][2]
    <3> DEFINE u == Unanswered(i, A)
    <3>1. /\ u \in Seq({i} \X (1..Calls(i)))
          /\ \A x : Has(u, x) <=> x \in {i} \X (1..Calls(i)) /\ x \notin A
          /\ \A a, b \in 1..Len(u) : a < b => u[a][2] < u[b][2]
      BY UnansweredFacts
    <3> HIDE DEF u
    <3>2. q[k] = u BY <2>3 DEF u
    <3> QED BY <3>1, <3>2, Zenon
  <2>5. {i} \X (1..Calls(i)) \subseteq T
    <3>1. Calls(i) \in 0..MaxCalls BY <1>6
    <3>2. 1..Calls(i) \subseteq 1..MaxCalls BY <1>7, <3>1
    <3> QED BY <3>2
  <2>6. Seq({i} \X (1..Calls(i))) \subseteq Seq(T)
    <3> DEFINE U == {i} \X (1..Calls(i))
    <3>1. U \subseteq T BY <2>5
    <3> HIDE DEF U, T
    <3>2. Seq(U) \subseteq Seq(T) BY <3>1
    <3> QED BY <3>2 DEF U
  <2>7. q[k] \in Seq(T) BY <2>4, <2>6
  <2> QED BY <2>2, <2>4, <2>7
<1>9. F \in Seq(T) /\ Flattens(F, q, n)
  <2>1. \A k \in 1..Len(q) : q[k] \in Seq(T) BY <1>4, <1>8
  <2> HIDE DEF T
  <2>2. FlattenSeq(q) \in Seq(T) /\ Flattens(FlattenSeq(q), q, Len(q))
    BY <1>1, <1>4, <1>5, <2>1, FlattenFacts
  <2> QED BY <1>2, <1>4, <2>2
<1>10. ASSUME NEW i, NEW c
       PROVE  Has(F, <<i, c>>) <=>
                Has(ids, i) /\ c \in 1..CallsIn(messages, i) /\ <<i, c>> \notin A
  <2>1. Has(F, <<i, c>>) <=> \E k \in 1..n : Has(q[k], <<i, c>>) BY <1>9 DEF Flattens
  <2>2. ASSUME NEW k \in 1..n
        PROVE  Has(q[k], <<i, c>>) <=>
                 ids[k] = i /\ c \in 1..CallsIn(messages, i) /\ <<i, c>> \notin A
    <3>1. Calls(ids[k]) = CallsIn(messages, ids[k]) BY CallsSame
    <3>2. Has(q[k], <<i, c>>) <=>
            <<i, c>> \in {ids[k]} \X (1..Calls(ids[k])) /\ <<i, c>> \notin A
      BY <1>8
    <3> QED BY <3>1, <3>2
  <2> QED BY <2>1, <2>2 DEF Has
<1>11. ASSUME NEW a \in 1..Len(F), NEW b \in 1..Len(F), a < b, F[a][1] = F[b][1]
       PROVE  F[a][2] < F[b][2]
  <2>1. InOrder(q, n, F[a], F[b]) BY <1>9, <1>11 DEF Flattens
  <2>2. ASSUME NEW j \in 1..n, NEW k \in 1..n, j < k, Has(q[j], F[a]), Has(q[k], F[b])
        PROVE  FALSE
    <3>1. F[a] \in {ids[j]} \X (1..Calls(ids[j])) BY <1>8, <2>2
    <3>2. F[b] \in {ids[k]} \X (1..Calls(ids[k])) BY <1>8, <2>2
    <3>3. ids[j] = ids[k] BY <1>11, <3>1, <3>2
    <3>4. 1..Calls(ids[j]) # {} BY <3>1
    <3>5. Calls(ids[j]) \in Nat /\ Calls(ids[j]) = CallsIn(messages, ids[j]) BY <1>1, <1>6, <1>7
    <3>6. CallsIn(messages, ids[j]) > 0 BY <3>4, <3>5
    <3>7. j = k BY <3>3, <3>6 DEF CallersOnce
    <3> QED BY <2>2, <3>7
  <2>3. ASSUME NEW j \in 1..n, NEW d \in 1..Len(q[j]), NEW e \in 1..Len(q[j]), d < e,
               q[j][d] = F[a], q[j][e] = F[b]
        PROVE  F[a][2] < F[b][2]
    <3>1. q[j][d][2] < q[j][e][2] BY <1>8, <2>3
    <3> QED BY <2>3, <3>1
  <2> QED BY <2>1, <2>2, <2>3 DEF InOrder
<1>12. OrderedCalls(F) BY <1>11 DEF OrderedCalls
<1> QED BY <1>9, <1>10, <1>12 DEF F, A, T

LEMMA OrderedOnce ==
  ASSUME messages \in Seq(Message), History(messages), NEW ids \in Seq(Ids), Ordered(messages, ids)
  PROVE  CallersOnce(ids)
<1> SUFFICES ASSUME NEW j \in 1..Len(ids), NEW k \in 1..Len(ids), ids[j] = ids[k],
                    CallsIn(messages, ids[j]) > 0
             PROVE  j = k
  BY DEF CallersOnce
<1>1. ids[j] \in 1..Len(messages) /\ ids[j] # 0 /\ Len(ids) \in Nat BY ElementOf DEF Ids
<1>2. PlainRow(messages, ids[j]) BY <1>1 DEF History
<1>3. messages[ids[j]].role = "assistant" BY <1>1, <1>2 DEF PlainRow, CallsIn
<1>4. RegularIn(messages, ids[j]) BY <1>1, <1>3 DEF RegularIn, SummaryIn
<1>5. ~Before(messages, ids[j], ids[j]) BY <1>1, BeforeOrder
<1>6. ~(j < k) BY <1>4, <1>5 DEF Ordered
<1>7. ~(k < j) BY <1>4, <1>5 DEF Ordered
<1> QED BY <1>1, <1>6, <1>7

\* What a run has to answer: the next calls of the steps that it sees.
LEMMA ViewMissing ==
  ASSUME messages \in Seq(Message), History(messages), summarized \in SUBSET Ids,
         Whole(messages, summarized), NEW r
  PROVE  /\ FindMissing(View(r)) \in Seq(Ids \X (1..MaxCalls))
         /\ NextCalls(messages, FindMissing(View(r)), summarized)
         /\ \A i \in Sees(r) : \A c \in 1..CallsIn(messages, i) :
              \/ \E t \in Ids : ResultOf(messages, t, i, c)
              \/ Has(FindMissing(View(r)), <<i, c>>)
<1> DEFINE v == View(r)
           F == FindMissing(v)
           A == Answered(v)
<1>1. v \in Seq(Ids) /\ Ordered(messages, v) /\ \A i : Has(v, i) <=> i \in Sees(r)
  BY ViewFacts
<1> HIDE DEF v
<1>2. CallersOnce(v) BY <1>1, OrderedOnce
<1>3. /\ F \in Seq(Ids \X (1..MaxCalls)) /\ OrderedCalls(F)
      /\ \A i, c : Has(F, <<i, c>>) <=>
              Has(v, i) /\ c \in 1..CallsIn(messages, i) /\ <<i, c>> \notin A
  BY <1>1, <1>2, MissingFacts
<1>4. ASSUME NEW i \in Sees(r), NEW c
      PROVE  <<i, c>> \in A <=> \E t \in Ids : ResultOf(messages, t, i, c)
  <2>1. ASSUME NEW t \in Ids, ResultOf(messages, t, i, c) PROVE <<i, c>> \in A
    <3>1. t \in Sees(r) BY <2>1, SeesRounds
    <3>2. PICK k \in 1..Len(v) : v[k] = t BY <1>1, <3>1 DEF Has
    <3>3. k \in DOMAIN v /\ IsTool(v[k]) BY <1>1, <2>1, <3>2, CallsSame DEF ResultOf
    <3> QED BY <2>1, <3>2, <3>3 DEF Answered, ResultOf
  <2>2. ASSUME <<i, c>> \in A PROVE \E t \in Ids : ResultOf(messages, t, i, c)
    <3>1. PICK k \in DOMAIN v : /\ IsTool(v[k])
                                /\ <<i, c>> = <<messages[v[k]].step, messages[v[k]].call>>
      BY <2>2 DEF Answered
    <3>2. v[k] \in Ids BY <1>1
    <3>3. messages[v[k]].step = i /\ messages[v[k]].call = c BY <3>1
    <3>4. ResultOf(messages, v[k], i, c) BY <3>1, <3>3, CallsSame DEF ResultOf
    <3> QED BY <3>2, <3>4
  <2> QED BY <2>1, <2>2
<1> HIDE DEF F, A
<1>5. ASSUME NEW k \in 1..Len(F)
      PROVE  \E i \in Sees(r), c \in Nat : /\ F[k] = <<i, c>> /\ i = F[k][1] /\ c = F[k][2]
                                           /\ c \in 1..CallsIn(messages, i) /\ <<i, c>> \notin A
  <2>1. F[k] \in Ids \X (1..MaxCalls) BY <1>3, ElementOf
  <2>2. PICK i \in Ids, c \in 1..MaxCalls : F[k] = <<i, c>> BY <2>1
  <2>3. Has(F, <<i, c>>) BY <2>2 DEF Has
  <2>4. Has(v, i) /\ c \in 1..CallsIn(messages, i) /\ <<i, c>> \notin A BY <1>3, <2>3
  <2>5. i \in Sees(r) BY <1>1, <2>4
  <2>6. i = F[k][1] /\ c = F[k][2] /\ c \in Nat BY <2>2
  <2> QED BY <2>2, <2>4, <2>5, <2>6
<1>6. ASSUME NEW k \in 1..Len(F)
      PROVE  /\ F[k][1] \notin summarized
             /\ F[k][2] <= CallsIn(messages, F[k][1])
             /\ \A t \in 1..Len(messages) : ToolIn(messages, t) /\ messages[t].step = F[k][1] =>
                  messages[t].call < F[k][2]
             /\ \A c \in 1..F[k][2] - 1 :
                  \/ \E t \in 1..Len(messages) : ResultOf(messages, t, F[k][1], c)
                  \/ \E j \in 1..k - 1 : F[j] = <<F[k][1], c>>
  <2>1. PICK i \in Sees(r), c \in Nat : /\ F[k] = <<i, c>> /\ i = F[k][1] /\ c = F[k][2]
                                        /\ c \in 1..CallsIn(messages, i) /\ <<i, c>> \notin A
    BY <1>5
  <2>2. i \notin summarized /\ i \in Ids BY DEF Sees
  <2>3. CallsIn(messages, i) \in Nat
    <3>1. i \in 0..Len(messages) BY <2>2 DEF Ids
    <3> QED BY <3>1, CallsTypes
  <2>4. c <= CallsIn(messages, i) BY <2>1, <2>3
  <2>5. ASSUME NEW t \in 1..Len(messages), ToolIn(messages, t), messages[t].step = i
        PROVE  messages[t].call < c
    <3>1. messages[t].call \in Nat BY RowTypes
    <3>2. ASSUME ~(messages[t].call < c) PROVE FALSE
      <4>1. c \in 1..messages[t].call BY <2>1, <2>3, <3>1, <3>2
      <4>2. ToolRowAfter(messages, t) BY DEF History
      <4>3. PICK j \in 1..t : ResultOf(messages, j, i, c) BY <2>5, <4>1, <4>2 DEF ToolRowAfter
      <4>4. j \in Ids
        <5>1. Len(messages) \in Nat OBVIOUS
        <5> QED BY <5>1 DEF Ids
      <4> QED BY <1>4, <2>1, <4>3, <4>4
    <3> QED BY <3>2
  <2>6. ASSUME NEW d \in 1..c - 1, ~ \E t \in 1..Len(messages) : ResultOf(messages, t, i, d)
        PROVE  \E j \in 1..k - 1 : F[j] = <<i, d>>
    <3>1. <<i, d>> \notin A BY <1>4, <2>6 DEF Ids
    <3>2. d \in 1..CallsIn(messages, i) BY <2>1, <2>3
    <3>3. Has(v, i) BY <1>1
    <3>4. Has(F, <<i, d>>) BY <1>3, <3>1, <3>2, <3>3
    <3>5. PICK j \in 1..Len(F) : F[j] = <<i, d>> BY <3>4 DEF Has
    <3>6. F[j][1] = i /\ F[j][2] = d /\ d < c BY <2>1, <3>5
    <3>7. j # k BY <2>1, <3>6
    <3>8. ~(k < j)
      <4>1. k < j => F[k][2] < F[j][2] BY <1>3, <2>1, <3>6 DEF OrderedCalls
      <4> QED BY <2>1, <3>6, <4>1
    <3>9. Len(F) \in Nat BY <1>3
    <3>10. j \in 1..k - 1 BY <3>7, <3>8, <3>9
    <3> QED BY <3>5, <3>10
  <2>7. F[k][1] = i /\ F[k][2] = c BY <2>1
  <2> QED BY <2>2, <2>4, <2>5, <2>6, <2>7
<1>7. NextCalls(messages, F, summarized) BY <1>3, <1>6 DEF NextCalls, OrderedCalls
<1>8. ASSUME NEW i \in Sees(r), NEW c \in 1..CallsIn(messages, i),
             ~ \E t \in Ids : ResultOf(messages, t, i, c)
      PROVE  Has(F, <<i, c>>)
  <2>1. <<i, c>> \notin A BY <1>4, <1>8
  <2>2. Has(v, i) BY <1>1
  <2> QED BY <1>3, <2>1, <2>2
<1> QED BY <1>3, <1>7, <1>8 DEF F, v

-----------------------------------------------------------------------------
(* Where compaction cuts a context.                                         *)

\* A context that may be compacted: whole rounds, in order.
Tidy(ids) ==
  /\ messages \in Seq(Message) /\ History(messages) /\ ids \in Seq(0..Len(messages))
  /\ Paired(messages, ids) /\ Ordered(messages, ids) /\ SystemFront(messages, ids, fresh)
  /\ \A i \in fresh : SummaryIn(messages, i)

\* What is neither an assistant message nor a result stands alone.
LEMMA SingleFacts ==
  ASSUME NEW m \in Seq(Message), History(m), NEW i \in 0..Len(m),
         \/ i = 0 \/ SummaryIn(m, i) \/ m[i].role \in {"input", "user"}
  PROVE  Single(m, i)
<1>1. CASE i = 0 BY <1>1 DEF Single, ToolIn, CallsIn
<1>2. CASE i # 0
  <2>1. i \in 1..Len(m) BY <1>2
  <2>2. m[i].role \in {"summary", "input", "user"} BY <1>2 DEF SummaryIn
  <2>3. m[i].calls \in Nat BY <2>1, RowTypes
  <2>4. PlainRow(m, i) BY <2>1 DEF History
  <2>5. m[i].calls = 0 BY <2>2, <2>3, <2>4 DEF PlainRow
  <2> QED BY <1>2, <2>2, <2>5 DEF Single, ToolIn, CallsIn
<1> QED BY <1>1, <1>2

\* Messages with calls are neither results nor anything but messages.
LEMMA CallerFacts ==
  ASSUME NEW m \in Seq(Message), History(m), NEW i \in 0..Len(m), CallsIn(m, i) > 0
  PROVE  i \in 1..Len(m) /\ m[i].role = "assistant" /\ ~ToolIn(m, i)
<1>1. i # 0 BY DEF CallsIn
<1>2. i \in 1..Len(m) BY <1>1
<1>3. m[i].calls > 0 BY <1>1 DEF CallsIn
<1>4. PlainRow(m, i) BY <1>2 DEF History
<1>5. m[i].role = "assistant" BY <1>3, <1>4 DEF PlainRow
<1> QED BY <1>2, <1>5 DEF ToolIn

IsSystem(i) == i = 0 \/ (IsSummary(i) /\ i \notin fresh)

LEMMA LeadingSystemFacts ==
  ASSUME NEW ids, Len(ids) \in Nat
  PROVE  /\ LeadingSystem(ids) \in 0..Len(ids)
         /\ System(messages, ids, fresh, LeadingSystem(ids))
         /\ \A n \in 0..Len(ids) : System(messages, ids, fresh, n) => n <= LeadingSystem(ids)
<1> DEFINE S == {n \in 0..Len(ids) : \A k \in 1..n : IsSystem(ids[k])}
<1>1. LeadingSystem(ids) = Max(S) BY DEF LeadingSystem, IsSystem
<1>2. \A k : IsSystem(ids[k]) <=> ids[k] = 0 \/ (SummaryIn(messages, ids[k]) /\ ids[k] \notin fresh)
  BY DEF IsSystem, IsSummary, SummaryIn
<1>3. \A n \in 0..Len(ids) : n \in S <=> System(messages, ids, fresh, n) BY <1>2 DEF System
<1>4. 0 \in S OBVIOUS
<1>5. S \subseteq 0..Len(ids) OBVIOUS
<1> HIDE DEF S
<1>6. Max(S) \in S /\ \A y \in S : y <= Max(S) BY <1>4, <1>5, MaxFacts
<1>7. Max(S) \in 0..Len(ids) BY <1>5, <1>6
<1> QED BY <1>1, <1>3, <1>6, <1>7

LEMMA FirstUser ==
  ASSUME NEW ids, Len(ids) \in Nat, \E k \in 1..Len(ids) : IsUser(ids[k])
  PROVE  SelectInSeq(ids, IsUser) \in 1..Len(ids) /\ IsUser(ids[SelectInSeq(ids, IsUser)])
<1> DEFINE I == {i \in 1..Len(ids) : IsUser(ids[i])}
<1>1. I # {} /\ I \subseteq Nat OBVIOUS
<1>2. SelectInSeq(ids, IsUser) = Min(I) BY <1>1 DEF SelectInSeq
<1>3. Min(I) \in I
  <2> HIDE DEF I
  <2> QED BY <1>1, MinFacts
<1> QED BY <1>2, <1>3

\* The protected front ends between two rounds, behind the system messages.
LEMMA ProtectedEndFacts ==
  ASSUME NEW ids, Tidy(ids)
  PROVE  /\ ProtectedEnd(ids) \in 0..Len(ids)
         /\ Cut(messages, ids, ProtectedEnd(ids))
         /\ \A k \in 1..Len(ids) :
              SummaryIn(messages, ids[k]) /\ ids[k] \notin fresh => k <= ProtectedEnd(ids)
<1> DEFINE f == ProtectedEnd(ids)
<1>1. /\ messages \in Seq(Message) /\ History(messages) /\ ids \in Seq(0..Len(messages))
      /\ Paired(messages, ids) /\ SystemFront(messages, ids, fresh)
  BY DEF Tidy
<1>2. Len(ids) \in Nat /\ DOMAIN ids = 1..Len(ids) BY <1>1
<1>3. CASE \E k \in 1..Len(ids) : IsUser(ids[k])
  <2>1. f = SelectInSeq(ids, IsUser) BY <1>2, <1>3 DEF ProtectedEnd
  <2>2. f \in 1..Len(ids) /\ IsUser(ids[f]) BY <1>2, <1>3, <2>1, FirstUser
  <2> HIDE DEF f
  <2>3. ids[f] \in 0..Len(messages) BY <1>1, <2>2, ElementOf
  <2>4. Single(messages, ids[f]) BY <1>1, <2>2, <2>3, SingleFacts DEF IsUser
  <2>5. f \in 0..Len(ids) /\ f > 0 BY <1>2, <2>2
  <2>6. Cut(messages, ids, f) BY <1>1, <2>4, <2>5, CutAt
  <2>7. ASSUME NEW k \in 1..Len(ids), SummaryIn(messages, ids[k]), ids[k] \notin fresh, ~(k <= f)
        PROVE  FALSE
    <3>1. System(messages, ids, fresh, k) BY <1>1, <2>7 DEF SystemFront
    <3>2. f \in 1..k BY <1>2, <2>2, <2>7
    <3>3. ids[f] = 0 \/ SummaryIn(messages, ids[f]) BY <3>1, <3>2 DEF System
    <3> QED BY <2>2, <3>3 DEF IsUser, SummaryIn
  <2> QED BY <2>5, <2>6, <2>7 DEF f
<1>4. CASE ~ \E k \in 1..Len(ids) : IsUser(ids[k])
  <2>1. f = LeadingSystem(ids) BY <1>2, <1>4 DEF ProtectedEnd
  <2>2. /\ f \in 0..Len(ids) /\ System(messages, ids, fresh, f)
        /\ \A n \in 0..Len(ids) : System(messages, ids, fresh, n) => n <= f
    BY <1>2, <2>1, LeadingSystemFacts
  <2> HIDE DEF f
  <2>3. Cut(messages, ids, f)
    <3>1. CASE f = 0 BY <1>1, <2>2, <3>1, CutAt
    <3>2. CASE f # 0
      <4>1. f > 0 /\ f \in 1..f /\ f \in 1..Len(ids) BY <1>2, <2>2, <3>2
      <4>2. ids[f] = 0 \/ SummaryIn(messages, ids[f]) BY <2>2, <4>1 DEF System
      <4>3. ids[f] \in 0..Len(messages) BY <1>1, <4>1, ElementOf
      <4>4. Single(messages, ids[f]) BY <1>1, <4>2, <4>3, SingleFacts
      <4> QED BY <1>1, <2>2, <4>1, <4>4, CutAt
    <3> QED BY <3>1, <3>2
  <2>4. ASSUME NEW k \in 1..Len(ids), SummaryIn(messages, ids[k]), ids[k] \notin fresh
        PROVE  k <= f
    <3>1. System(messages, ids, fresh, k) BY <1>1, <2>4 DEF SystemFront
    <3>2. k \in 0..Len(ids) BY <1>2
    <3> QED BY <2>2, <3>1, <3>2
  <2> QED BY <2>2, <2>3, <2>4 DEF f
<1> QED BY <1>3, <1>4

\* The candidate ends between two rounds.
LEMMA SummaryEndFacts ==
  ASSUME NEW ids, Tidy(ids)
  PROVE  SummaryEnd(ids) \in ProtectedEnd(ids)..Len(ids) /\ Cut(messages, ids, SummaryEnd(ids))
<1> DEFINE L == Len(ids)
           first == ProtectedEnd(ids)
           R == {first} \cup (first..L - KeepRecent)
           recent == Max(R)
           W == {n \in first..recent :
                   \A k \in n+1..L, j \in first+1..n :
                     IsTool(ids[k]) => messages[ids[k]].step # ids[j]}
           whole == BeforeSplitRound(ids, first, recent)
           N == {n \in first..whole : \A k \in n+1..whole : IsTool(ids[k])}
           results == Min(N)
           E == {n \in first..results : \A k \in n+1..results : Calls(ids[k]) > 0}
           e == Min(E)
<1>2. /\ messages \in Seq(Message) /\ History(messages) /\ ids \in Seq(0..Len(messages))
      /\ Paired(messages, ids)
  BY DEF Tidy
<1>3. L \in Nat /\ first \in 0..L /\ Cut(messages, ids, first) BY <1>2, ProtectedEndFacts
<1>4. SummaryEnd(ids) = e BY DEF SummaryEnd
<1>5. whole = Max(W) BY DEF BeforeSplitRound
<1> HIDE DEF first, L, whole
<1>6. recent \in first..L
  <2>1. R \subseteq 0..L /\ R # {} /\ R \subseteq first..L BY <1>3, BoundAssumption
  <2> HIDE DEF R
  <2>2. Max(R) \in R BY <1>3, <2>1, MaxFacts
  <2> QED BY <2>1, <2>2
<1> HIDE DEF recent
<1>7. whole \in first..L
  <2>1. first \in W BY <1>3, <1>6
  <2>2. W \subseteq 0..L /\ W \subseteq first..L BY <1>3, <1>6
  <2> HIDE DEF W
  <2>3. Max(W) \in W BY <1>3, <2>1, <2>2, MaxFacts
  <2> QED BY <1>5, <2>2, <2>3
<1>8. /\ results \in first..whole
      /\ \A n \in first..whole : (\A k \in n+1..whole : IsTool(ids[k])) => results <= n
      /\ \A k \in results+1..whole : IsTool(ids[k])
  <2>1. whole \in N BY <1>3, <1>7
  <2>2. N \subseteq Nat BY <1>3
  <2>3. Min(N) \in N /\ \A y \in N : Min(N) <= y
    <3> HIDE DEF N
    <3> QED BY <2>1, <2>2, MinFacts
  <2> QED BY <2>3
<1> HIDE DEF results
<1>9. /\ e \in first..results
      /\ \A n \in first..results : (\A k \in n+1..results : Calls(ids[k]) > 0) => e <= n
      /\ \A k \in e+1..results : Calls(ids[k]) > 0
  <2>1. results \in E BY <1>3, <1>8
  <2>2. E \subseteq Nat BY <1>3
  <2>3. Min(E) \in E /\ \A y \in E : Min(E) <= y
    <3> HIDE DEF E
    <3> QED BY <2>1, <2>2, MinFacts
  <2> QED BY <2>3
<1> HIDE DEF e
<1>10. e \in first..L BY <1>3, <1>7, <1>8, <1>9
<1>11. Cut(messages, ids, e)
  <2>1. CASE e = first BY <1>3, <2>1
  <2>2. CASE e < results
    <3>1. PICK k \in 1..L : k = e + 1 BY <1>3, <1>7, <1>8, <1>10, <2>2
    <3>2. k \in e+1..results BY <1>3, <1>7, <1>8, <1>10, <2>2, <3>1
    <3>3. CallsIn(messages, ids[k]) > 0 BY <1>9, <3>2, CallsSame
    <3>4. ids[k] \in 0..Len(messages) BY <1>2, <3>1, ElementOf DEF L
    <3>5. ~ToolIn(messages, ids[k]) BY <1>2, <3>3, <3>4, CallerFacts
    <3>6. e \in 0..L /\ e < L BY <1>3, <1>10, <3>1
    <3> QED BY <1>2, <3>1, <3>5, <3>6, CutAt DEF L
  <2>3. CASE e = results /\ e # first
    <3>1. e \in 1..L /\ e > 0 /\ e \in 0..L BY <1>3, <1>10, <2>3
    <3>2. PICK p \in first..results : p = e - 1 BY <1>3, <1>10, <1>8, <2>3
    <3>3. ~(Calls(ids[e]) > 0)
      <4>1. ASSUME Calls(ids[e]) > 0 PROVE FALSE
        <5>1. \A k \in p+1..results : k = e BY <2>3, <3>1, <3>2
        <5>2. e <= p BY <1>9, <3>2, <4>1, <5>1
        <5> QED BY <3>1, <3>2, <5>2
      <4> QED BY <4>1
    <3>4. ~IsTool(ids[e])
      <4>1. ASSUME IsTool(ids[e]) PROVE FALSE
        <5>1. \A k \in p+1..whole : k = e \/ k \in results+1..whole
          BY <1>3, <1>7, <1>8, <2>3, <3>1, <3>2
        <5>2. p \in first..whole BY <1>3, <1>7, <1>8, <3>2
        <5>3. results <= p BY <1>8, <4>1, <5>1, <5>2
        <5> QED BY <2>3, <3>1, <3>2, <5>3
      <4> QED BY <4>1
    <3>5. ids[e] \in 0..Len(messages) BY <1>2, <3>1, ElementOf DEF L
    <3>6. CallsIn(messages, ids[e]) \in Nat BY <1>2, <3>5, CallsTypes
    <3>7. Single(messages, ids[e]) BY <3>3, <3>4, <3>6, CallsSame DEF Single
    <3> QED BY <1>2, <3>1, <3>7, CutAt DEF L
  <2>4. e < results \/ e = results BY <1>3, <1>7, <1>8, <1>9
  <2> QED BY <2>1, <2>2, <2>3, <2>4
<1> QED BY <1>4, <1>10, <1>11 DEF first, L

-----------------------------------------------------------------------------
(* A summary in the place of older messages.                                *)

LEMMA RegularOnce ==
  ASSUME NEW ids, Tidy(ids), NEW j \in 1..Len(ids), NEW k \in 1..Len(ids),
         ids[j] = ids[k], RegularIn(messages, ids[j])
  PROVE  j = k
<1>1. messages \in Seq(Message) /\ ids \in Seq(0..Len(messages)) /\ Ordered(messages, ids)
  BY DEF Tidy
<1>2. ids[j] \in 1..Len(messages)
  <2>1. ids[j] \in 0..Len(messages) BY <1>1, ElementOf
  <2> QED BY <2>1 DEF RegularIn
<1>3. ~Before(messages, ids[j], ids[j]) BY <1>1, <1>2, BeforeOrder
<1>4. ~(j < k) BY <1>1, <1>3 DEF Ordered
<1>5. ~(k < j) BY <1>1, <1>3 DEF Ordered
<1>6. Len(ids) \in Nat BY <1>1
<1> QED BY <1>4, <1>5, <1>6

\* i is in the range to summarize.
InCandidate(ids, i) == \E k \in ProtectedEnd(ids) + 1..SummaryEnd(ids) : ids[k] = i

LEMMA CandidateFacts ==
  ASSUME NEW ids, Tidy(ids)
  PROVE  /\ Candidate(ids) \in Seq(0..Len(messages))
         /\ \A i : Has(Candidate(ids), i) <=> InCandidate(ids, i)
<1> DEFINE f == ProtectedEnd(ids)
           e == SummaryEnd(ids)
           c == Candidate(ids)
<1>1. ids \in Seq(0..Len(messages)) /\ Len(ids) \in Nat BY DEF Tidy
<1>2. f \in 0..Len(ids) /\ e \in f..Len(ids) BY ProtectedEndFacts, SummaryEndFacts
<1>3. c = SubSeq(ids, f + 1, e) BY DEF Candidate
<1> HIDE DEF f, e, c
<1>4. /\ c \in Seq(0..Len(messages)) /\ Len(c) = e - f
      /\ \A q \in 1..e - f : c[q] = ids[f + q]
  BY <1>1, <1>2, <1>3, SubSeqFacts
<1>5. ASSUME NEW i, Has(c, i) PROVE \E k \in f + 1..e : ids[k] = i
  <2>1. PICK q \in 1..e - f : c[q] = i BY <1>4, <1>5 DEF Has
  <2>2. ids[f + q] = i BY <1>4, <2>1
  <2>3. f \in Nat /\ e \in Nat BY <1>1, <1>2
  <2>4. f + q \in f + 1..e BY <2>3, Forward
  <2> QED BY <2>2, <2>4
<1>6. ASSUME NEW i, NEW k \in f + 1..e, ids[k] = i PROVE Has(c, i)
  <2>1. PICK q \in 1..e - f : k = f + q
    <3>1. k - f \in 1..e - f /\ k = f + (k - f) BY <1>1, <1>2
    <3> QED BY <3>1
  <2>2. c[q] = i /\ q \in 1..Len(c) BY <1>4, <1>6, <2>1
  <2> QED BY <2>2 DEF Has
<1> QED BY <1>4, <1>5, <1>6 DEF c, f, e, InCandidate

LEMMA SavedFacts ==
  ASSUME messages \in Seq(Message), NEW ids \in Seq(0..Len(messages))
  PROVE  /\ Saved(ids) \in Seq(Ids) /\ ToSet(Saved(ids)) \subseteq Ids
         /\ \A i : Has(Saved(ids), i) <=> Has(ids, i) /\ i \in Ids /\ i # unsaved
         /\ \A i : i \in ToSet(Saved(ids)) <=> Has(ids, i) /\ i \in Ids /\ i # unsaved
<1> DEFINE s == Saved(ids)
<1>1. s = Only(ids, Ids \ {unsaved}) BY DEF Saved
<1> HIDE DEF s
<1>2. s \in Seq(0..Len(messages)) /\ \A i : Has(s, i) <=> Has(ids, i) /\ i \in Ids \ {unsaved}
  BY <1>1, OnlyHas
<1>3. Len(s) \in Nat /\ s = [k \in 1..Len(s) |-> s[k]] BY <1>2
<1>4. \A k \in 1..Len(s) : s[k] \in Ids BY <1>2 DEF Has
<1>5. s \in Seq(Ids) BY <1>3, <1>4
<1>6. \A i : i \in ToSet(s) <=> Has(s, i)
  <2>1. DOMAIN s = 1..Len(s) BY <1>2
  <2> QED BY <2>1 DEF ToSet, Has
<1> QED BY <1>2, <1>5, <1>6 DEF s

\* What is folded: whole rounds of the candidate, and summaries that this
\* execution has made.
LEMMA FoldingFacts ==
  ASSUME NEW ids, Tidy(ids), unsaved # 0 => messages[unsaved].role = "input"
  PROVE  /\ SummarizedIds(ids) \in SUBSET Ids
         /\ Whole(messages, SummarizedIds(ids))
         /\ \A i : i \in SummarizedIds(ids) <=> InCandidate(ids, i) /\ i \in Ids /\ i # unsaved
         /\ \A i \in SummarizedIds(ids) : SummaryIn(messages, i) => i \in fresh
         /\ Saved(Candidate(ids)) \in Seq(Ids)
         /\ \A i \in SummarizedIds(ids) : Has(Saved(Candidate(ids)), i)
<1> DEFINE f == ProtectedEnd(ids)
           e == SummaryEnd(ids)
           c == Candidate(ids)
           S == SummarizedIds(ids)
<1>1. /\ messages \in Seq(Message) /\ History(messages)
      /\ ids \in Seq(0..Len(messages)) /\ Len(ids) \in Nat /\ Paired(messages, ids)
  BY DEF Tidy
<1>2. /\ f \in 0..Len(ids) /\ e \in f..Len(ids) /\ Cut(messages, ids, f) /\ Cut(messages, ids, e)
      /\ \A k \in 1..Len(ids) : SummaryIn(messages, ids[k]) /\ ids[k] \notin fresh => k <= f
  BY ProtectedEndFacts, SummaryEndFacts
<1>3. c \in Seq(0..Len(messages)) /\ \A i : Has(c, i) <=> InCandidate(ids, i) BY CandidateFacts
<1>4. S = ToSet(Saved(c)) BY DEF SummarizedIds
<1>5. \A i : InCandidate(ids, i) <=> \E k \in f + 1..e : ids[k] = i BY DEF InCandidate
<1> HIDE DEF f, e, c, S
<1>6. /\ S \subseteq Ids /\ Saved(c) \in Seq(Ids)
      /\ \A i : i \in S <=> InCandidate(ids, i) /\ i \in Ids /\ i # unsaved
      /\ \A i \in S : Has(Saved(c), i)
  BY <1>1, <1>3, <1>4, SavedFacts
<1>7. ASSUME NEW i \in S
      PROVE  /\ ToolIn(messages, i) => messages[i].step \in S
             /\ \A d \in 1..CallsIn(messages, i) : \E t \in S : ResultOf(messages, t, i, d)
  <2>1. PICK k \in f + 1..e : ids[k] = i BY <1>5, <1>6
  <2>2. /\ k \in 1..Len(ids)
        /\ \A d \in 1..CallsIn(messages, ids[k]) :
             k + d \in f+1..e /\ ResultOf(messages, ids[k + d], ids[k], d)
        /\ ToolIn(messages, ids[k]) =>
             k - messages[ids[k]].call \in f+1..e
             /\ ids[k - messages[ids[k]].call] = messages[ids[k]].step
    <3>1. e \in 0..Len(ids) BY <1>1, <1>2
    <3> QED BY <1>1, <1>2, <3>1, CutRounds
  <2>3. ASSUME NEW j \in f + 1..e, ids[j] # 0,
               messages[ids[j]].role = "tool" \/ messages[ids[j]].role = "assistant"
        PROVE  ids[j] \in S
    <3>1. j \in 1..Len(ids) BY <1>1, <1>2
    <3>2. ids[j] \in 0..Len(messages) BY <1>1, <3>1, ElementOf
    <3>3. ids[j] \in Ids BY <2>3, <3>2 DEF Ids
    <3>4. ids[j] # unsaved BY <2>3
    <3> QED BY <1>5, <1>6, <3>3, <3>4
  <2>4. ASSUME ToolIn(messages, i) PROVE messages[i].step \in S
    <3>1. PICK c1 \in Int : c1 = messages[i].call
      <4>1. i \in 0..Len(messages) BY <1>6 DEF Ids
      <4> QED BY <1>1, <2>4, <4>1, ResultCalls
    <3>2. PICK j \in f + 1..e : ids[j] = messages[i].step
      <4>1. k - c1 \in f + 1..e /\ ids[k - c1] = messages[i].step BY <2>1, <2>2, <2>4, <3>1
      <4> QED BY <4>1
    <3>3. messages[i].step \in 1..Len(messages) /\ messages[messages[i].step].role = "assistant"
      <4>1. Follows(messages, ids, k) BY <1>1, <2>1, <2>2, <2>4 DEF Paired, ResultsFollow
      <4> QED BY <1>1, <2>1, <2>2, <2>4, <4>1, CallOfResult
    <3>4. ids[j] # 0 BY <3>2, <3>3
    <3> QED BY <2>3, <3>2, <3>3, <3>4
  <2>5. ASSUME NEW d \in 1..CallsIn(messages, i)
        PROVE  \E t \in S : ResultOf(messages, t, i, d)
    <3>1. k + d \in f + 1..e /\ ResultOf(messages, ids[k + d], i, d) BY <2>1, <2>2, <2>5
    <3>2. ids[k + d] # 0 /\ messages[ids[k + d]].role = "tool" BY <3>1 DEF ResultOf, ToolIn
    <3> QED BY <2>3, <3>1, <3>2
  <2> QED BY <2>4, <2>5
<1>8. Whole(messages, S) BY <1>7 DEF Whole
<1>9. ASSUME NEW i \in S, SummaryIn(messages, i) PROVE i \in fresh
  <2>1. PICK k \in f + 1..e : ids[k] = i BY <1>5, <1>6
  <2>2. k \in 1..Len(ids) /\ ~(k <= f) BY <1>1, <1>2
  <2> QED BY <1>2, <1>9, <2>1, <2>2
<1> QED BY <1>6, <1>8, <1>9 DEF S, c

\* t is ids with s in the place of the elements behind f up to e.
Origin(t, ids, f, e, k, p) == t[k] = ids[p] /\ ((p <= f /\ k = p) \/ (p > e /\ k = p - e + f + 1))

Replaced(t, ids, f, e, s) ==
  /\ Len(t) = f + 1 + (Len(ids) - e) /\ t[f + 1] = s
  /\ \A k \in 1..Len(t) : k = f + 1 \/ \E p \in 1..Len(ids) : Origin(t, ids, f, e, k, p)
  /\ \A p \in 1..Len(ids) : (p > f /\ p <= e) \/ \E k \in 1..Len(t) : Origin(t, ids, f, e, k, p)

LEMMA ReplacedFacts ==
  ASSUME NEW T, NEW ids \in Seq(T), NEW f \in 0..Len(ids), NEW e \in f..Len(ids), NEW s \in T
  PROVE  /\ SubSeq(ids, 1, f) \o <<s>> \o SubSeq(ids, e + 1, Len(ids)) \in Seq(T)
         /\ Replaced(SubSeq(ids, 1, f) \o <<s>> \o SubSeq(ids, e + 1, Len(ids)), ids, f, e, s)
<1> DEFINE L == Len(ids)
           a == SubSeq(ids, 1, f)
           b == SubSeq(ids, e + 1, L)
           t == a \o <<s>> \o b
<1>1. L \in Nat /\ e \in 0..L /\ L \in e..L OBVIOUS
<1>2. a \in Seq(T) /\ Len(a) = f /\ \A q \in 1..f : a[q] = ids[q]
  BY PrefixFacts
<1>3. b \in Seq(T) /\ Len(b) = L - e /\ \A q \in 1..L - e : b[q] = ids[e + q]
  BY <1>1, SubSeqFacts
<1> HIDE DEF a, b
<1>4. t \in Seq(T) /\ Around(t, a, s, b) BY <1>2, <1>3, AroundFacts
<1> HIDE DEF t
<1>5. /\ Len(t) = f + 1 + (L - e) /\ t[f + 1] = s
      /\ \A k \in 1..f : t[k] = ids[k]
      /\ \A k \in 1..L - e : t[f + 1 + k] = ids[e + k]
  BY <1>2, <1>3, <1>4 DEF Around
<1> HIDE DEF L
<1>6. ASSUME NEW k \in 1..Len(t), k # f + 1
      PROVE  \E p \in 1..L : Origin(t, ids, f, e, k, p)
  <2>1. CASE k <= f
    <3>1. k \in 1..L /\ k \in 1..f BY <1>1, <2>1
    <3> QED BY <1>5, <2>1, <3>1 DEF Origin
  <2>2. CASE k > f
    <3>1. PICK q \in 1..L - e : k = f + 1 + q
      <4>1. k - (f + 1) \in 1..L - e /\ k = f + 1 + (k - (f + 1)) BY <1>1, <1>5, <1>6, <2>2
      <4> QED BY <4>1
    <3>2. PICK p \in 1..L : p = e + q
      <4>1. e + q \in 1..L BY <1>1
      <4> QED BY <4>1
    <3>3. t[k] = ids[p] BY <1>5, <3>1, <3>2
    <3>4. p > e /\ k = p - e + f + 1 BY <1>1, <3>1, <3>2
    <3> QED BY <3>3, <3>4 DEF Origin
  <2> QED BY <1>1, <2>1, <2>2
<1>7. ASSUME NEW p \in 1..L, ~(p > f /\ p <= e)
      PROVE  \E k \in 1..Len(t) : Origin(t, ids, f, e, k, p)
  <2>1. CASE p <= f
    <3>1. p \in 1..Len(t) /\ p \in 1..f BY <1>1, <1>5, <2>1
    <3> QED BY <1>5, <2>1, <3>1 DEF Origin
  <2>2. CASE p > e
    <3>1. PICK q \in 1..L - e : p = e + q
      <4>1. p - e \in 1..L - e /\ p = e + (p - e) BY <1>1, <2>2
      <4> QED BY <4>1
    <3>2. PICK k \in 1..Len(t) : k = f + 1 + q
      <4>1. f + 1 + q \in 1..Len(t) BY <1>1, <1>5
      <4> QED BY <4>1
    <3>3. t[k] = ids[p] BY <1>5, <3>1, <3>2
    <3>4. k = p - e + f + 1 BY <1>1, <3>1, <3>2
    <3> QED BY <2>2, <3>3, <3>4 DEF Origin
  <2> QED BY <1>1, <1>7, <2>1, <2>2
<1> QED BY <1>4, <1>5, <1>6, <1>7 DEF Replaced, L, t, a, b

\* The context after older messages are summarized.
Folded(ids, s) ==
  SubSeq(ids, 1, ProtectedEnd(ids)) \o <<s>> \o SubSeq(ids, SummaryEnd(ids) + 1, Len(ids))

LEMMA FoldedFacts ==
  ASSUME NEW ids, Tidy(ids), NEW m2, Extends(messages, m2), History(m2),
         NEW s, s = Len(messages) + 1, s = Len(m2), SummaryIn(m2, s)
  PROVE  /\ Folded(ids, s) \in Seq(0..Len(m2))
         /\ Paired(m2, Folded(ids, s)) /\ Ordered(m2, Folded(ids, s))
         /\ SystemFront(m2, Folded(ids, s), fresh \cup {s})
         /\ \A i : RegularIn(messages, i) /\ i \in Ids =>
              (Has(Folded(ids, s), i) <=> Has(ids, i) /\ ~InCandidate(ids, i))
<1> DEFINE f == ProtectedEnd(ids)
           e == SummaryEnd(ids)
           t == Folded(ids, s)
           T == 0..Len(m2)
           a == SubSeq(ids, 1, f)
           b == SubSeq(ids, e + 1, Len(ids))
<1>1. /\ messages \in Seq(Message) /\ History(messages)
      /\ ids \in Seq(0..Len(messages)) /\ Len(ids) \in Nat
      /\ Paired(messages, ids) /\ Ordered(messages, ids) /\ SystemFront(messages, ids, fresh)
  BY DEF Tidy
<1>2. /\ f \in 0..Len(ids) /\ e \in f..Len(ids) /\ Cut(messages, ids, f) /\ Cut(messages, ids, e)
      /\ \A k \in 1..Len(ids) : SummaryIn(messages, ids[k]) /\ ids[k] \notin fresh => k <= f
  BY ProtectedEndFacts, SummaryEndFacts
<1>3. ids \in Seq(T) /\ s \in T /\ Len(messages) \in Nat /\ Len(m2) \in Nat /\ m2 \in Seq(Message)
  <2>1. Len(messages) \in Nat /\ Len(m2) \in Nat /\ Len(messages) <= Len(m2) /\ m2 \in Seq(Message)
    BY DEF Extends
  <2>2. 0..Len(messages) \subseteq T BY <2>1
  <2>3. \A S : 0..Len(messages) \subseteq S => ids \in Seq(S) BY <1>1
  <2> QED BY <2>1, <2>2, <2>3
<1>4. t = a \o <<s>> \o b BY DEF Folded
<1> HIDE DEF f, e, t
<1>5. t \in Seq(T) /\ Replaced(t, ids, f, e, s)
  <2> HIDE DEF T
  <2> QED BY <1>2, <1>3, <1>4, ReplacedFacts
<1>6. Paired(m2, t)
  <2>1. /\ a \in Seq(0..Len(messages)) /\ b \in Seq(0..Len(messages))
        /\ Paired(messages, a) /\ Paired(messages, b)
    <3>1. 0 \in 0..Len(ids) /\ f \in 0..Len(ids) /\ f \in 0..f /\ e \in 0..Len(ids)
          /\ Len(ids) \in 0..Len(ids) /\ Len(ids) \in e..Len(ids) /\ 0 + 1 = 1
      BY <1>1, <1>2
    <3>2. Cut(messages, ids, 0) BY <1>1, <3>1, CutAt
    <3>3. Cut(messages, ids, Len(ids)) BY <1>1, <3>1, CutAt
    <3>4. Paired(messages, SubSeq(ids, 0 + 1, f)) BY <1>1, <1>2, <3>1, <3>2, CutPaired
    <3>5. Paired(messages, b) BY <1>1, <1>2, <3>1, <3>3, CutPaired
    <3>6. a \in Seq(0..Len(messages)) BY <1>1, <1>2, PrefixFacts
    <3>7. b \in Seq(0..Len(messages)) BY <1>1, <3>1, SubSeqFacts
    <3> QED BY <3>1, <3>4, <3>5, <3>6, <3>7
  <2> HIDE DEF a, b
  <2>2. Paired(m2, a) /\ Paired(m2, b)
    <3>1. ResultsFollow(messages, a) /\ CallsFollowed(messages, a)
          /\ ResultsFollow(messages, b) /\ CallsFollowed(messages, b)
      BY <2>1 DEF Paired
    <3>2. ResultsFollow(m2, a) /\ ResultsFollow(m2, b) BY <2>1, <3>1, FollowsKept
    <3>3. CallsFollowed(m2, a) /\ CallsFollowed(m2, b) BY <2>1, <3>1, CallsKept
    <3> QED BY <3>2, <3>3 DEF Paired
  <2>3. <<s>> \in Seq(T) /\ Len(<<s>>) = 1 /\ <<s>>[1] = s BY <1>3
  <2>4. Single(m2, s) BY <1>3, SingleFacts
  <2>5. Paired(m2, <<s>>)
    <3> DEFINE o == <<s>>
    <3>1. \A k \in 1..Len(o) : o[k] = s BY <2>3
    <3> HIDE DEF o
    <3>2. ~ \E c \in 1..CallsIn(m2, s) : TRUE BY <2>4 DEF Single
    <3>3. Paired(m2, o)
      BY <2>4, <3>1, <3>2 DEF Paired, ResultsFollow, CallsFollowed, Followed, Single
    <3> QED BY <3>3 DEF o
  <2>6. a \in Seq(T) /\ b \in Seq(T)
    <3>1. 0..Len(messages) \subseteq T BY <1>3
    <3>2. \A S : 0..Len(messages) \subseteq S => a \in Seq(S) /\ b \in Seq(S) BY <2>1
    <3> QED BY <3>1, <3>2
  <2>7. Paired(m2, a \o <<s>>) BY <1>3, <2>2, <2>3, <2>5, <2>6, ConcatPaired
  <2>8. a \o <<s>> \in Seq(T) BY <2>3, <2>6
  <2>9. Paired(m2, (a \o <<s>>) \o b) BY <1>3, <2>2, <2>6, <2>7, <2>8, ConcatPaired
  <2> QED BY <1>4, <2>9
<1>7. ASSUME NEW p \in 1..Len(ids)
      PROVE  /\ ids[p] \in 0..Len(messages) /\ ids[p] # s
             /\ RegularIn(m2, ids[p]) = RegularIn(messages, ids[p])
             /\ SummaryIn(m2, ids[p]) = SummaryIn(messages, ids[p])
  <2>1. ids[p] \in 0..Len(messages) BY <1>1, ElementOf
  <2>2. ids[p] # s BY <1>3, <2>1
  <2> QED BY <2>1, <2>2, SameRows
<1>8. ~RegularIn(m2, s) BY DEF RegularIn
<1>9. Ordered(m2, t)
  <2>1. SUFFICES ASSUME NEW j \in 1..Len(t), NEW k \in 1..Len(t), j < k,
                        RegularIn(m2, t[j]), RegularIn(m2, t[k])
                 PROVE  Before(m2, t[j], t[k])
    BY DEF Ordered
  <2>2. Ordered(m2, ids) BY <1>1, OrderedKept
  <2>3. j # f + 1 /\ k # f + 1 BY <1>5, <1>8, <2>1 DEF Replaced
  <2>4. PICK p \in 1..Len(ids) : Origin(t, ids, f, e, j, p) BY <1>5, <2>3 DEF Replaced
  <2>5. PICK q \in 1..Len(ids) : Origin(t, ids, f, e, k, q) BY <1>5, <2>3 DEF Replaced
  <2>6. p < q BY <1>1, <1>2, <2>1, <2>4, <2>5 DEF Origin
  <2>7. t[j] = ids[p] /\ t[k] = ids[q] BY <2>4, <2>5 DEF Origin
  <2> QED BY <2>1, <2>2, <2>6, <2>7 DEF Ordered
<1>10. SystemFront(m2, t, fresh \cup {s})
  <2>1. SUFFICES ASSUME NEW k \in 1..Len(t), SummaryIn(m2, t[k]), t[k] \notin fresh \cup {s}
                 PROVE  System(m2, t, fresh \cup {s}, k)
    BY DEF SystemFront
  <2>2. k # f + 1 BY <1>5, <2>1 DEF Replaced
  <2>3. PICK p \in 1..Len(ids) : Origin(t, ids, f, e, k, p) BY <1>5, <2>2 DEF Replaced
  <2>4. t[k] = ids[p] BY <2>3 DEF Origin
  <2>5. SummaryIn(messages, ids[p]) /\ ids[p] \notin fresh BY <1>7, <2>1, <2>4
  <2>6. p <= f BY <1>2, <2>5
  <2>7. k = p BY <1>1, <1>2, <2>3, <2>6 DEF Origin
  <2>8. System(messages, ids, fresh, p) BY <1>1, <2>5 DEF SystemFront
  <2>9. ASSUME NEW j \in 1..k PROVE t[j] = 0 \/ (SummaryIn(m2, t[j]) /\ t[j] \notin fresh \cup {s})
    <3>1. j \in 1..Len(t) /\ j # f + 1 /\ j <= f BY <1>1, <1>2, <2>6, <2>7, <1>5
    <3>2. PICK q \in 1..Len(ids) : Origin(t, ids, f, e, j, q) BY <1>5, <3>1 DEF Replaced
    <3>3. q = j /\ t[j] = ids[q] BY <1>1, <1>2, <3>1, <3>2 DEF Origin
    <3>4. ids[q] = 0 \/ (SummaryIn(messages, ids[q]) /\ ids[q] \notin fresh)
      BY <2>7, <2>8, <3>3 DEF System
    <3> QED BY <1>7, <3>3, <3>4
  <2> QED BY <2>9 DEF System
<1>11. ASSUME NEW i \in Ids, RegularIn(messages, i)
       PROVE  Has(t, i) <=> Has(ids, i) /\ ~InCandidate(ids, i)
  <2>1. i # s /\ i # 0 BY <1>3 DEF Ids
  <2>2. InCandidate(ids, i) <=> \E k \in f + 1..e : ids[k] = i BY DEF InCandidate, f, e
  <2>3. ASSUME Has(t, i) PROVE Has(ids, i) /\ ~InCandidate(ids, i)
    <3>1. PICK k \in 1..Len(t) : t[k] = i BY <2>3 DEF Has
    <3>2. k # f + 1 BY <1>5, <2>1, <3>1 DEF Replaced
    <3>3. PICK p \in 1..Len(ids) : Origin(t, ids, f, e, k, p) BY <1>5, <3>2 DEF Replaced
    <3>4. ids[p] = i BY <3>1, <3>3 DEF Origin
    <3>5. ASSUME NEW j \in f + 1..e, ids[j] = i PROVE FALSE
      <4>1. j \in 1..Len(ids) BY <1>1, <1>2
      <4>2. j = p BY <1>11, <3>4, <3>5, <4>1, RegularOnce
      <4> QED BY <1>1, <1>2, <3>3, <4>2 DEF Origin
    <3> QED BY <2>2, <3>4, <3>5 DEF Has
  <2>4. ASSUME Has(ids, i), ~InCandidate(ids, i) PROVE Has(t, i)
    <3>1. PICK p \in 1..Len(ids) : ids[p] = i BY <2>4 DEF Has
    <3>2. ~(p > f /\ p <= e)
      <4>1. SUFFICES ASSUME p > f, p <= e PROVE FALSE OBVIOUS
      <4>2. p \in f + 1..e BY <1>1, <1>2, <4>1
      <4> QED BY <2>2, <2>4, <3>1, <4>2
    <3>3. PICK k \in 1..Len(t) : Origin(t, ids, f, e, k, p) BY <1>5, <3>2 DEF Replaced
    <3> QED BY <3>1, <3>3 DEF Origin, Has
  <2> QED BY <2>3, <2>4
<1> QED BY <1>5, <1>6, <1>9, <1>10, <1>11 DEF t
-----------------------------------------------------------------------------
(* The sliding window.                                                      *)

WindowDesired(ids) ==
  Max({LeadingSystem(ids)} \cup (LeadingSystem(ids)..Len(ids) - KeepRecent)) + 1
WindowBegin(ids) ==
  Min({k \in WindowDesired(ids)..Len(ids)+1 : k > Len(ids) \/ ~IsTool(ids[k])})
InWindow(ids) ==
  1..LeadingSystem(ids)
    \cup {SelectInSeq(ids, IsUser), SelectLastInSeq(ids, LAMBDA i : i \in fresh)}
    \cup WindowBegin(ids)..Len(ids)

LEMMA WindowBeginFacts ==
  ASSUME NEW ids, Len(ids) \in Nat
  PROVE  WindowBegin(ids) \in 1..Len(ids) + 1
         /\ (WindowBegin(ids) > Len(ids) \/ ~IsTool(ids[WindowBegin(ids)]))
<1> DEFINE L == Len(ids)
           front == LeadingSystem(ids)
           R == {front} \cup (front..L - KeepRecent)
           d == WindowDesired(ids)
           B == {k \in d..L+1 : k > L \/ ~IsTool(ids[k])}
<1>1. front \in 0..L /\ L \in Nat BY LeadingSystemFacts
<1>2. d = Max(R) + 1 BY DEF WindowDesired
<1> HIDE DEF front, d
<1>3. d \in 1..L + 1
  <2>1. R \subseteq 0..L /\ R # {} BY <1>1, BoundAssumption
  <2> HIDE DEF R
  <2>2. Max(R) \in R BY <1>1, <2>1, MaxFacts
  <2>3. Max(R) \in 0..L BY <2>1, <2>2
  <2> QED BY <1>1, <1>2, <2>3
<1>4. Min(B) \in B
  <2>1. B # {}
    <3>1. L + 1 \in B BY <1>1, <1>3
    <3> QED BY <3>1
  <2>2. B \subseteq Nat BY <1>1, <1>3
  <2> HIDE DEF B
  <2> QED BY <2>1, <2>2, MinFacts
<1>5. WindowBegin(ids) = Min(B) BY DEF WindowBegin, d
<1> QED BY <1>1, <1>3, <1>4, <1>5

LEMMA FirstUserSelected ==
  ASSUME NEW ids, Len(ids) \in Nat
  PROVE  \/ SelectInSeq(ids, IsUser) = 0
         \/ SelectInSeq(ids, IsUser) \in 1..Len(ids) /\ IsUser(ids[SelectInSeq(ids, IsUser)])
<1>1. CASE \E k \in 1..Len(ids) : IsUser(ids[k]) BY <1>1, FirstUser
<1>2. CASE ~ \E k \in 1..Len(ids) : IsUser(ids[k])
  <2>1. {i \in 1..Len(ids) : IsUser(ids[i])} = {} BY <1>2
  <2> QED BY <2>1 DEF SelectInSeq
<1> QED BY <1>1, <1>2

LEMMA LastFreshSelected ==
  ASSUME NEW ids, Len(ids) \in Nat
  PROVE  \/ SelectLastInSeq(ids, LAMBDA i : i \in fresh) = 0
         \/ /\ SelectLastInSeq(ids, LAMBDA i : i \in fresh) \in 1..Len(ids)
            /\ ids[SelectLastInSeq(ids, LAMBDA i : i \in fresh)] \in fresh
<1> DEFINE I == {k \in 1..Len(ids) : ids[k] \in fresh}
           s == SelectLastInSeq(ids, LAMBDA i : i \in fresh)
<1>1. s = IF I # {} THEN Max(I) ELSE 0 BY DEF SelectLastInSeq
<1>2. I \subseteq 0..Len(ids) OBVIOUS
<1>3. I # {} => Max(I) \in I
  <2> HIDE DEF I
  <2> QED BY <1>2, MaxFacts
<1> HIDE DEF s
<1>4. s = 0 \/ (s \in 1..Len(ids) /\ ids[s] \in fresh) BY <1>1, <1>3
<1> QED BY <1>4 DEF s

\* The window keeps whole rounds.
LEMMA WindowRounds ==
  ASSUME NEW ids, Tidy(ids), WindowBegin(ids) \in 1..Len(ids),
         NEW pos, \A k \in 1..Len(ids) : At(k, pos) <=> k \in InWindow(ids)
  PROVE  Rounds(messages, ids, pos)
<1> DEFINE L == Len(ids)
           b == WindowBegin(ids)
<1>1. /\ messages \in Seq(Message) /\ History(messages)
      /\ ids \in Seq(0..Len(messages)) /\ L \in Nat /\ Paired(messages, ids)
      /\ \A i \in fresh : SummaryIn(messages, i)
  BY DEF Tidy
<1>2. b \in 1..L /\ ~IsTool(ids[b]) BY <1>1, WindowBeginFacts
<1>3. ~ToolIn(messages, ids[b]) BY <1>2, CallsSame
<1>4. PICK n \in 0..L : n + 1 = b
  <2>1. b - 1 \in 0..L /\ (b - 1) + 1 = b BY <1>1, <1>2
  <2> QED BY <2>1
<1>5. Cut(messages, ids, n) /\ Cut(messages, ids, L)
  <2>1. n < L /\ L \in 0..L BY <1>1, <1>2, <1>4
  <2> QED BY <1>1, <1>3, <1>4, <2>1, CutAt
<1>6. ASSUME NEW k \in b..L PROVE k \in 1..L /\ At(k, pos)
  <2>1. k \in 1..L BY <1>1, <1>2
  <2>2. k \in InWindow(ids) BY Zenon DEF InWindow
  <2> QED BY <2>1, <2>2
<1> HIDE DEF b, L
<1>7. SUFFICES ASSUME NEW k \in 1..L, At(k, pos)
               PROVE  /\ \A c \in 1..CallsIn(messages, ids[k]) : At(k + c, pos)
                      /\ ToolIn(messages, ids[k]) => At(k - messages[ids[k]].call, pos)
  BY DEF Rounds, L
<1>8. ids[k] \in 0..Len(messages) BY <1>1, ElementOf DEF L
<1>9. CASE k \in b..L
  <2>1. k \in n + 1..L BY <1>4, <1>9
  <2>2. /\ \A c \in 1..CallsIn(messages, ids[k]) : k + c \in n+1..L
        /\ ToolIn(messages, ids[k]) => k - messages[ids[k]].call \in n+1..L
    <3>1. L \in 0..L BY <1>1
    <3> QED BY <1>1, <1>5, <2>1, <3>1, CutRounds DEF L
  <2> QED BY <1>4, <1>6, <2>2
<1>10. CASE k \notin b..L
  <2>1. Single(messages, ids[k])
    <3>1. k \in InWindow(ids) BY <1>7 DEF L
    <3>2. k \in 1..LeadingSystem(ids) \/ k = SelectInSeq(ids, IsUser)
          \/ k = SelectLastInSeq(ids, LAMBDA i : i \in fresh)
      BY <1>10, <3>1 DEF InWindow, b, L
    <3>3. k # 0 BY <1>7
    <3>4. CASE k \in 1..LeadingSystem(ids)
      <4>1. System(messages, ids, fresh, LeadingSystem(ids)) BY <1>1, LeadingSystemFacts DEF L
      <4>2. ids[k] = 0 \/ SummaryIn(messages, ids[k]) BY <3>4, <4>1 DEF System
      <4> QED BY <1>1, <1>8, <4>2, SingleFacts
    <3>5. CASE k = SelectInSeq(ids, IsUser)
      <4>1. IsUser(ids[k]) BY <1>1, <3>3, <3>5, FirstUserSelected DEF L
      <4> QED BY <1>1, <1>8, <4>1, SingleFacts DEF IsUser
    <3>6. CASE k = SelectLastInSeq(ids, LAMBDA i : i \in fresh)
      <4> DEFINE s == SelectLastInSeq(ids, LAMBDA i : i \in fresh)
      <4>1. s = 0 \/ ids[s] \in fresh BY <1>1, LastFreshSelected DEF L
      <4> HIDE DEF s
      <4>2. k = s BY <3>6 DEF s
      <4>3. SummaryIn(messages, ids[k]) BY <1>1, <3>3, <4>1, <4>2
      <4> QED BY <1>1, <1>8, <4>3, SingleFacts
    <3> QED BY <3>2, <3>4, <3>5, <3>6
  <2>2. ~ \E c \in 1..CallsIn(messages, ids[k]) : TRUE BY <2>1 DEF Single
  <2> QED BY <2>1, <2>2 DEF Single
<1> QED BY <1>9, <1>10

LEMMA WindowFacts ==
  ASSUME NEW ids, Tidy(ids), Window(ids) # ids
  PROVE  /\ Window(ids) \in Seq(0..Len(messages))
         /\ Paired(messages, Window(ids)) /\ Ordered(messages, Window(ids))
         /\ SystemFront(messages, Window(ids), fresh)
         /\ \A i : Has(Window(ids), i) => Has(ids, i)
<1> DEFINE L == Len(ids)
           b == WindowBegin(ids)
           kept == InWindow(ids)
           id == [k \in DOMAIN ids |-> k]
           pos == Only(id, kept)
           w == Window(ids)
           T == 0..Len(messages)
<1>1. /\ messages \in Seq(Message) /\ History(messages)
      /\ ids \in Seq(0..Len(messages)) /\ L \in Nat
      /\ Paired(messages, ids) /\ Ordered(messages, ids) /\ SystemFront(messages, ids, fresh)
  BY DEF Tidy
<1>2. w = [k \in DOMAIN pos |-> ids[pos[k]]] /\ ~(b > L)
  BY DEF Window, WindowBegin, WindowDesired, InWindow
<1>3. b \in 1..L BY <1>1, <1>2, WindowBeginFacts
<1>4. DOMAIN ids = 1..L /\ id \in Seq(1..L) /\ Len(id) = L /\ \A k \in 1..L : id[k] = k BY <1>1
<1> HIDE DEF id, kept, w, b
<1>5. PICK p : /\ Increasing(p, Len(id)) /\ Selects(pos, id, p)
               /\ \A k \in 1..Len(id) : At(k, p) <=> id[k] \in kept
  BY <1>4, OnlyPositions
<1>6. pos \in Seq(1..L) /\ Len(pos) \in Nat BY <1>4, OnlyPositions
<1> HIDE DEF pos
<1>7. /\ p \in Seq(1..L) /\ Len(p) = Len(pos) /\ \A q \in 1..Len(pos) : p[q] \in 1..L
      /\ \A q \in 1..Len(pos) : pos[q] = p[q]
  <2>1. p \in Seq(1..L) BY <1>4, <1>5 DEF Increasing
  <2>2. Len(p) = Len(pos) BY <1>5 DEF Selects
  <2>3. ASSUME NEW q \in 1..Len(pos) PROVE p[q] \in 1..L /\ pos[q] = p[q]
    <3>1. q \in 1..Len(p) BY <2>2
    <3>2. p[q] \in 1..L BY <2>1, <3>1, ElementOf
    <3>3. pos[q] = id[p[q]] BY <1>5, <3>1 DEF Selects
    <3> QED BY <1>4, <3>2, <3>3
  <2> QED BY <2>1, <2>2, <2>3
<1>8. Increasing(p, L) BY <1>4, <1>5
<1>9. \A k \in 1..L : At(k, p) <=> k \in kept BY <1>4, <1>5
<1>10. /\ DOMAIN pos = 1..Len(pos) /\ \A q \in 1..Len(pos) : pos[q] \in 1..L BY <1>6
<1>11. \A k \in 1..L : ids[k] \in T BY <1>1
<1>12. w \in Seq(T) /\ Len(w) = Len(pos) /\ \A q \in 1..Len(pos) : w[q] = ids[pos[q]]
  <2> HIDE DEF T, L
  <2> QED BY <1>2, <1>6, <1>10, <1>11
<1>13. Selects(w, ids, p) BY <1>7, <1>12 DEF Selects
<1>14. Paired(messages, w)
  <2>1. Rounds(messages, ids, p) BY <1>3, <1>9, WindowRounds DEF b, kept
  <2> QED BY <1>1, <1>8, <1>13, <2>1, SelectPaired
<1>15. Ordered(messages, w) BY <1>1, <1>8, <1>13, SelectOrdered
<1>16. SystemFront(messages, w, fresh)
  <2>1. SUFFICES ASSUME NEW k \in 1..Len(w), SummaryIn(messages, w[k]), w[k] \notin fresh
                 PROVE  System(messages, w, fresh, k)
    BY DEF SystemFront
  <2>2. k \in 1..Len(pos) /\ w[k] = ids[p[k]] /\ p[k] \in 1..L BY <1>7, <1>12, <2>1
  <2>3. System(messages, ids, fresh, p[k]) BY <1>1, <2>1, <2>2 DEF SystemFront
  <2>4. ASSUME NEW j \in 1..k
        PROVE  w[j] = 0 \/ (SummaryIn(messages, w[j]) /\ w[j] \notin fresh)
    <3>1. j \in 1..Len(pos) BY <1>6, <2>2
    <3>2. w[j] = ids[p[j]] /\ p[j] \in 1..L BY <1>7, <1>12, <3>1
    <3>3. p[j] <= p[k]
      <4>1. CASE j = k BY <2>2, <4>1
      <4>2. CASE j # k
        <5>1. j < k BY <1>6, <2>2, <4>2
        <5>2. p[j] < p[k] BY <1>7, <1>8, <2>2, <3>1, <5>1 DEF Increasing
        <5> QED BY <2>2, <3>2, <5>2
      <4> QED BY <4>1, <4>2
    <3>4. p[j] \in 1..p[k] BY <1>1, <2>2, <3>2, <3>3
    <3> QED BY <2>3, <3>2, <3>4 DEF System
  <2> QED BY <2>4 DEF System
<1>17. \A i : Has(w, i) => Has(ids, i) BY <1>10, <1>12 DEF Has
<1> QED BY <1>12, <1>14, <1>15, <1>16, <1>17 DEF w, T
-----------------------------------------------------------------------------
(* A context to which a message is appended.                                *)

LEMMA AppendHas ==
  ASSUME NEW T, NEW ids \in Seq(T), NEW x \in T, NEW i
  PROVE  Has(Append(ids, x), i) <=> Has(ids, i) \/ i = x
<1> DEFINE t == Append(ids, x)
<1>1. /\ Len(ids) \in Nat /\ Len(t) = Len(ids) + 1
      /\ \A k \in 1..Len(ids) : t[k] = ids[k]
      /\ t[Len(ids) + 1] = x
  BY AppendFacts
<1> HIDE DEF t
<1>2. ASSUME Has(t, i) PROVE Has(ids, i) \/ i = x
  <2>1. PICK k \in 1..Len(t) : t[k] = i BY <1>2 DEF Has
  <2>2. k \in 1..Len(ids) \/ k = Len(ids) + 1 BY <1>1, <2>1
  <2> QED BY <1>1, <2>1, <2>2 DEF Has
<1>3. ASSUME Has(ids, i) PROVE Has(t, i)
  <2>1. PICK k \in 1..Len(ids) : ids[k] = i BY <1>3 DEF Has
  <2>2. k \in 1..Len(t) BY <1>1, <2>1
  <2> QED BY <1>1, <2>1, <2>2 DEF Has
<1>4. ASSUME i = x PROVE Has(t, i)
  <2>1. PICK k \in 1..Len(t) : k = Len(ids) + 1 BY <1>1
  <2> QED BY <1>1, <1>4, <2>1 DEF Has
<1> QED BY <1>2, <1>3, <1>4 DEF t

\* x behind the messages ids of m, in the rows m2.
Appends(m, m2, ids, x, t) ==
  /\ Extends(m, m2) /\ ids \in Seq(0..Len(m)) /\ x \in 0..Len(m2)
  /\ t = Append(ids, x)

LEMMA AppendsFacts ==
  ASSUME NEW m, NEW m2, NEW ids, NEW x, NEW t, Appends(m, m2, ids, x, t)
  PROVE  /\ t \in Seq(0..Len(m2)) /\ Len(ids) \in Nat /\ Len(t) = Len(ids) + 1
         /\ t[Len(ids) + 1] = x
         /\ \A k \in 1..Len(t) : k \in 1..Len(ids) \/ k = Len(ids) + 1
         /\ \A k \in 1..Len(ids) :
              /\ t[k] = ids[k] /\ k \in 1..Len(t) /\ ids[k] \in 0..Len(m)
              /\ ToolIn(m2, t[k]) = ToolIn(m, ids[k])
              /\ SummaryIn(m2, t[k]) = SummaryIn(m, ids[k])
              /\ RegularIn(m2, t[k]) = RegularIn(m, ids[k])
         /\ \A i : Has(t, i) <=> Has(ids, i) \/ i = x
<1>1. /\ Extends(m, m2) /\ ids \in Seq(0..Len(m)) /\ x \in 0..Len(m2) /\ t = Append(ids, x)
  BY DEF Appends
<1>2. /\ Len(m) \in Nat /\ Len(m2) \in Nat /\ Len(m) <= Len(m2) BY <1>1 DEF Extends
<1>3. ids \in Seq(0..Len(m2))
  <2>1. 0..Len(m) \subseteq 0..Len(m2) BY <1>2
  <2>2. ids \in Seq(0..Len(m)) BY <1>1
  <2> QED BY <2>1, <2>2, SeqWiden
<1>4. /\ t \in Seq(0..Len(m2)) /\ Len(ids) \in Nat /\ Len(t) = Len(ids) + 1
      /\ \A k \in 1..Len(ids) : t[k] = ids[k]
      /\ t[Len(ids) + 1] = x
  <2> DEFINE T == 0..Len(m2)
  <2>1. ids \in Seq(T) /\ x \in T BY <1>1, <1>3
  <2> HIDE DEF T
  <2>2. /\ Append(ids, x) \in Seq(T) /\ Len(ids) \in Nat
        /\ Len(Append(ids, x)) = Len(ids) + 1
        /\ \A k \in 1..Len(ids) : Append(ids, x)[k] = ids[k]
        /\ Append(ids, x)[Len(ids) + 1] = x
    BY <2>1, AppendFacts
  <2> QED BY <1>1, <2>2 DEF T
<1>5. \A k \in 1..Len(t) : k \in 1..Len(ids) \/ k = Len(ids) + 1 BY <1>4
<1>6. ASSUME NEW k \in 1..Len(ids)
      PROVE  /\ t[k] = ids[k] /\ k \in 1..Len(t) /\ ids[k] \in 0..Len(m)
             /\ ToolIn(m2, t[k]) = ToolIn(m, ids[k])
             /\ SummaryIn(m2, t[k]) = SummaryIn(m, ids[k])
             /\ RegularIn(m2, t[k]) = RegularIn(m, ids[k])
  <2>1. t[k] = ids[k] /\ k \in 1..Len(t) BY <1>4
  <2>2. ids[k] \in 0..Len(m) BY <1>1, ElementOf
  <2> QED BY <1>1, <2>1, <2>2, SameRows
<1>7. \A i : Has(t, i) <=> Has(ids, i) \/ i = x BY <1>1, <1>3, AppendHas
<1> QED BY <1>4, <1>5, <1>6, <1>7

LEMMA AppendOrdered ==
  ASSUME NEW m, NEW m2, NEW ids, NEW x, NEW t, Appends(m, m2, ids, x, t), Ordered(m, ids),
         RegularIn(m2, x) =>
           \A k \in 1..Len(ids) : RegularIn(m, ids[k]) => Before(m2, ids[k], x)
  PROVE  Ordered(m2, t)
<1>1. SUFFICES ASSUME NEW j \in 1..Len(t), NEW k \in 1..Len(t), j < k,
                      RegularIn(m2, t[j]), RegularIn(m2, t[k])
               PROVE  Before(m2, t[j], t[k])
  BY DEF Ordered
<1>2. /\ Len(ids) \in Nat /\ Len(t) = Len(ids) + 1 /\ t[Len(ids) + 1] = x
      /\ \A l \in 1..Len(t) : l \in 1..Len(ids) \/ l = Len(ids) + 1
      /\ \A l \in 1..Len(ids) : t[l] = ids[l] /\ RegularIn(m2, t[l]) = RegularIn(m, ids[l])
  BY AppendsFacts
<1>3. j \in 1..Len(ids) BY <1>1, <1>2
<1>4. t[j] = ids[j] /\ RegularIn(m, ids[j]) BY <1>1, <1>2, <1>3
<1>5. CASE k \in 1..Len(ids)
  <2>1. Ordered(m2, ids)
    <3>1. Extends(m, m2) /\ ids \in Seq(0..Len(m)) BY DEF Appends
    <3> QED BY <3>1, OrderedKept
  <2>2. t[k] = ids[k] BY <1>2, <1>5
  <2> QED BY <1>1, <1>3, <1>4, <1>5, <2>1, <2>2 DEF Ordered
<1>6. CASE k = Len(ids) + 1 BY <1>1, <1>2, <1>3, <1>4, <1>6
<1> QED BY <1>1, <1>2, <1>5, <1>6

LEMMA AppendResults ==
  ASSUME NEW m, NEW m2, NEW ids, NEW x, NEW t, Appends(m, m2, ids, x, t),
         ResultsFollow(m, ids),
         \A k \in 1..Len(ids) : ToolIn(m, ids[k]) => m[ids[k]].call \in Nat \ {0},
         ToolIn(m2, x) =>
           \E c \in 1..Len(ids) : /\ m2[x].call = c
                                  /\ ids[Len(ids) + 1 - c] = m2[x].step
  PROVE  ResultsFollow(m2, t)
<1>1. /\ Len(ids) \in Nat /\ Len(t) = Len(ids) + 1 /\ t[Len(ids) + 1] = x
      /\ \A l \in 1..Len(t) : l \in 1..Len(ids) \/ l = Len(ids) + 1
      /\ \A l \in 1..Len(ids) : t[l] = ids[l] /\ l \in 1..Len(t)
  BY AppendsFacts
<1>2. SUFFICES ASSUME NEW k \in 1..Len(t), ToolIn(m2, t[k]) PROVE Follows(m2, t, k)
  BY DEF ResultsFollow
<1>3. CASE k \in 1..Len(ids)
  <2>1. Extends(m, m2) /\ ids \in Seq(0..Len(m)) BY DEF Appends
  <2>2. ResultsFollow(m2, ids) BY <2>1, FollowsKept
  <2>3. t[k] = ids[k] BY <1>1, <1>3
  <2>4. Follows(m2, ids, k) BY <1>2, <1>3, <2>2, <2>3 DEF ResultsFollow
  <2>5. ToolIn(m, ids[k]) BY <1>2, <1>3, AppendsFacts
  <2>6. m2[ids[k]] = m[ids[k]]
    <3>1. ids[k] \in 0..Len(m) /\ ids[k] # 0 BY <1>3, <2>1, <2>5, ElementOf DEF ToolIn
    <3>2. ids[k] \in 1..Len(m) BY <3>1
    <3> QED BY <2>1, <3>2 DEF Extends
  <2>7. PICK c \in Nat \ {0} : c = m2[ids[k]].call BY <1>3, <2>5, <2>6
  <2>8. c < k /\ ids[k - c] = m2[ids[k]].step BY <2>4, <2>7 DEF Follows
  <2>9. PICK p \in 1..Len(ids) : p = k - c BY <1>1, <1>3, <2>7, <2>8
  <2>10. t[p] = ids[p] BY <1>1
  <2> QED BY <2>3, <2>7, <2>8, <2>9, <2>10 DEF Follows
<1>4. CASE k = Len(ids) + 1
  <2>1. t[k] = x BY <1>1, <1>4
  <2>2. PICK c \in 1..Len(ids) : m2[x].call = c /\ ids[Len(ids) + 1 - c] = m2[x].step
    BY <1>2, <2>1
  <2>3. PICK p \in 1..Len(ids) : p = k - c BY <1>1, <1>4, <2>2
  <2>4. t[p] = ids[p] /\ ids[p] = m2[x].step BY <1>1, <1>4, <2>2, <2>3
  <2>5. c < k BY <1>1, <1>4, <2>2
  <2> QED BY <2>1, <2>2, <2>3, <2>4, <2>5 DEF Follows
<1> QED BY <1>1, <1>3, <1>4

LEMMA AppendCalls ==
  ASSUME NEW m, NEW m2, NEW ids, NEW x, NEW t, Appends(m, m2, ids, x, t),
         CallsFollowed(m, ids), CallsIn(m2, x) = 0
  PROVE  CallsFollowed(m2, t)
<1>1. /\ Len(ids) \in Nat /\ Len(t) = Len(ids) + 1 /\ t[Len(ids) + 1] = x
      /\ \A l \in 1..Len(t) : l \in 1..Len(ids) \/ l = Len(ids) + 1
      /\ \A l \in 1..Len(ids) : t[l] = ids[l] /\ l \in 1..Len(t)
  BY AppendsFacts
<1>2. Extends(m, m2) /\ ids \in Seq(0..Len(m)) BY DEF Appends
<1>3. CallsFollowed(m2, ids) BY <1>2, CallsKept
<1>4. SUFFICES ASSUME NEW k \in 1..Len(t), NEW c \in 1..CallsIn(m2, t[k])
               PROVE  k + c <= Len(t) /\ ResultOf(m2, t[k + c], t[k], c)
  BY DEF CallsFollowed, Followed
<1>5. CASE k \in 1..Len(ids)
  <2>1. t[k] = ids[k] BY <1>1, <1>5
  <2>2. k + c <= Len(ids) /\ ResultOf(m2, ids[k + c], ids[k], c)
    BY <1>3, <1>4, <1>5, <2>1 DEF CallsFollowed, Followed
  <2>3. PICK p \in 1..Len(ids) : p = k + c BY <1>1, <1>5, <2>2
  <2>4. t[p] = ids[p] /\ p <= Len(t) BY <1>1
  <2> QED BY <2>1, <2>2, <2>3, <2>4
<1>6. CASE k = Len(ids) + 1
  <2>1. c \in 1..0 BY <1>1, <1>4, <1>6
  <2> QED BY <2>1
<1> QED BY <1>1, <1>5, <1>6

LEMMA AppendFront ==
  ASSUME NEW m, NEW m2, NEW ids, NEW x, NEW t, Appends(m, m2, ids, x, t),
         NEW made, NEW made2, SystemFront(m, ids, made),
         \A i \in 0..Len(m) : i \in made2 <=> i \in made,
         SummaryIn(m2, x) => x \in made2
  PROVE  SystemFront(m2, t, made2)
<1>1. /\ Len(ids) \in Nat /\ t[Len(ids) + 1] = x
      /\ \A l \in 1..Len(t) : l \in 1..Len(ids) \/ l = Len(ids) + 1
      /\ \A l \in 1..Len(ids) : /\ t[l] = ids[l] /\ ids[l] \in 0..Len(m)
                                /\ SummaryIn(m2, t[l]) = SummaryIn(m, ids[l])
  BY AppendsFacts
<1>2. SUFFICES ASSUME NEW k \in 1..Len(t), SummaryIn(m2, t[k]), t[k] \notin made2
               PROVE  System(m2, t, made2, k)
  BY DEF SystemFront
<1>3. k \in 1..Len(ids) BY <1>1, <1>2
<1>4. SummaryIn(m, ids[k]) /\ ids[k] \notin made BY <1>1, <1>2, <1>3
<1>5. System(m, ids, made, k) BY <1>3, <1>4 DEF SystemFront
<1>6. ASSUME NEW j \in 1..k PROVE t[j] = 0 \/ (SummaryIn(m2, t[j]) /\ t[j] \notin made2)
  <2>1. j \in 1..Len(ids) BY <1>1, <1>3
  <2>2. ids[j] = 0 \/ (SummaryIn(m, ids[j]) /\ ids[j] \notin made) BY <1>5 DEF System
  <2> QED BY <1>1, <2>1, <2>2
<1> QED BY <1>6 DEF System

-----------------------------------------------------------------------------
(* The round under way.                                                     *)

StepIn(m) == SelectLastInSeq(m, LAMBDA x : x.role = "assistant")

LEMMA StepIs ==
  ASSUME NEW m, Len(m) \in Nat, NEW a \in 1..Len(m), m[a].role = "assistant",
         \A j \in 1..Len(m) : j > a => m[j].role # "assistant"
  PROVE  StepIn(m) = a
<1> DEFINE I == {k \in 1..Len(m) : m[k].role = "assistant"}
<1>1. a \in I /\ I \subseteq 0..Len(m) OBVIOUS
<1>2. \A k \in I : k <= a /\ k \in Nat OBVIOUS
<1>3. StepIn(m) = IF I # {} THEN Max(I) ELSE 0 BY DEF StepIn, SelectLastInSeq
<1> HIDE DEF I
<1>4. Max(I) \in I /\ a <= Max(I) BY <1>1, MaxFacts
<1>5. Max(I) = a
  <2>1. PICK k \in Nat : k = Max(I) /\ k <= a /\ a <= k BY <1>2, <1>4
  <2> QED BY <2>1
<1> QED BY <1>1, <1>3, <1>5

LEMMA NextCallIs ==
  ASSUME messages \in Seq(Message), History(messages), NEW a \in 1..Len(messages), a = Step,
         NEW n \in Nat, Len(messages) = a + n,
         \A c \in 1..n : ResultOf(messages, a + c, a, c)
  PROVE  NextCall = n + 1
<1> DEFINE R == {i \in Ids : IsTool(i) /\ messages[i].step = Step}
<1>1. ASSUME NEW i \in a + 1..a + n PROVE i \in R
  <2>1. PICK c \in 1..n : i = a + c
    <3>1. i - a \in 1..n /\ i = a + (i - a) OBVIOUS
    <3> QED BY <3>1
  <2>2. ResultOf(messages, i, a, c) BY <2>1
  <2>3. i \in Ids BY <2>1 DEF Ids
  <2> QED BY <2>2, <2>3, CallsSame DEF ResultOf
<1>2. ASSUME NEW i \in R PROVE i \in a + 1..a + n
  <2>1. i \in 1..Len(messages) /\ ToolIn(messages, i) BY CallsSame DEF Ids
  <2>2. ToolRowAfter(messages, i) BY <2>1 DEF History
  <2>3. a < i BY <2>1, <2>2 DEF ToolRowAfter
  <2> QED BY <2>1, <2>3
<1>3. R = a + 1..a + n BY <1>1, <1>2
<1>4. a + 1 \in Int /\ a + n \in Int OBVIOUS
<1> HIDE DEF R
<1>5. Cardinality(R) = IF a + 1 > a + n THEN 0 ELSE (a + n) - (a + 1) + 1
  BY <1>3, <1>4, FS_Interval
<1>6. Cardinality(R) = n BY <1>5
<1>7. NextCall = 1 + Cardinality(R) BY DEF NextCall, R
<1> QED BY <1>6, <1>7

LEMMA RoundDone ==
  ASSUME NEW m \in Seq(Message), History(m), NEW ids \in Seq(0..Len(m)), NEW a \in 1..Len(m),
         NEW n \in Nat, n = CallsIn(m, a), RoundEnd(m, ids, a, n)
  PROVE  CallsFollowed(m, ids)
<1>1. /\ Len(m) = a + n /\ Len(ids) > n /\ Len(ids) \in Nat
      /\ \A c \in 0..n : ids[Len(ids) - n + c] = a + c
      /\ \A c \in 1..n : ResultOf(m, a + c, a, c)
  BY DEF RoundEnd
<1>2. SUFFICES ASSUME NEW k \in 1..Len(ids), NEW c \in 1..CallsIn(m, ids[k])
               PROVE  k + c <= Len(ids) /\ ResultOf(m, ids[k + c], ids[k], c)
  BY DEF CallsFollowed, Followed
<1>3. PICK l \in 1..Len(ids) : l = Len(ids) - n BY <1>1
<1>4. CASE k < l
  <2>1. k \in 1..Len(ids) - n - 1 BY <1>1, <1>3, <1>4
  <2>2. k + c < Len(ids) - n /\ ResultOf(m, ids[k + c], ids[k], c) BY <1>2, <2>1 DEF RoundEnd
  <2>3. k + c <= Len(ids) BY <1>1, <1>3, <2>2
  <2> QED BY <2>2, <2>3
<1>5. CASE k = l
  <2>1. ids[k] = a
    <3>1. 0 \in 0..n /\ Len(ids) - n + 0 = k /\ a + 0 = a BY <1>1, <1>3, <1>5
    <3>2. ids[Len(ids) - n + 0] = a + 0 BY <1>1, <3>1
    <3> QED BY <3>1, <3>2
  <2>2. c \in 1..n /\ c \in 0..n BY <1>2, <2>1
  <2>3. ids[Len(ids) - n + c] = a + c BY <1>1, <2>2
  <2>4. Len(ids) - n + c = k + c /\ k + c <= Len(ids) BY <1>1, <1>3, <1>5, <2>2
  <2> QED BY <1>1, <2>1, <2>2, <2>3, <2>4
<1>6. CASE k > l
  <2>1. PICK d \in 1..n : k = Len(ids) - n + d
    <3>1. Len(ids) \in Nat BY <1>1
    <3>2. k - l \in 1..n /\ k = Len(ids) - n + (k - l)
      <4>1. PICK L \in Nat, N \in Nat : L = Len(ids) /\ N = n BY <3>1
      <4>2. k \in Nat /\ k <= L /\ l \in Nat /\ l = L - N /\ k > l BY <1>3, <1>6, <4>1
      <4>3. k - l \in 1..N /\ k = L - N + (k - l) BY <4>2
      <4> QED BY <4>1, <4>3
    <3> QED BY <3>2
  <2>2. d \in 0..n BY <2>1
  <2>3. ids[k] = a + d BY <1>1, <2>1, <2>2
  <2>4. ToolIn(m, ids[k]) BY <1>1, <2>3 DEF ResultOf
  <2>5. ids[k] \in 0..Len(m) BY ElementOf
  <2>6. CallsIn(m, ids[k]) \in Nat BY <2>5, CallsTypes
  <2>7. CallsIn(m, ids[k]) > 0 BY <1>2, <2>6
  <2> QED BY <2>4, <2>5, <2>7, CallerFacts
<1> QED BY <1>3, <1>4, <1>5, <1>6

LEMMA RoundStart ==
  ASSUME NEW m, NEW m2, NEW ids, NEW x, NEW t, Appends(m, m2, ids, x, t), CallsFollowed(m, ids),
         x = Len(m2), History(m)
  PROVE  RoundEnd(m2, t, x, 0)
<1>1. /\ Len(ids) \in Nat /\ Len(t) = Len(ids) + 1 /\ t[Len(ids) + 1] = x
      /\ \A l \in 1..Len(ids) : t[l] = ids[l]
  BY AppendsFacts
<1>2. Extends(m, m2) /\ ids \in Seq(0..Len(m)) /\ x \in Nat
  <2>1. x \in 0..Len(m2) /\ Extends(m, m2) /\ ids \in Seq(0..Len(m)) BY DEF Appends
  <2> QED BY <2>1
<1>3. CallsFollowed(m2, ids) BY <1>2, CallsKept
<1>4. /\ Len(m2) = x + 0 /\ Len(t) > 0
      /\ \A c \in 0..0 : t[Len(t) - 0 + c] = x + c
  <2>1. Len(t) - 0 + 0 = Len(ids) + 1 /\ x + 0 = x BY <1>1, <1>2
  <2>2. t[Len(t) - 0 + 0] = x + 0 BY <1>1, <2>1
  <2>3. \A c \in 0..0 : c = 0 OBVIOUS
  <2> QED BY <1>1, <2>1, <2>2, <2>3
<1>5. ASSUME NEW k \in 1..Len(t) - 0 - 1, NEW c \in 1..CallsIn(m2, t[k])
      PROVE  k + c < Len(t) - 0 /\ ResultOf(m2, t[k + c], t[k], c)
  <2>1. k \in 1..Len(ids) BY <1>1
  <2>2. t[k] = ids[k] BY <1>1, <2>1
  <2>3. k + c <= Len(ids) /\ ResultOf(m2, ids[k + c], ids[k], c)
    BY <1>3, <1>5, <2>1, <2>2 DEF CallsFollowed, Followed
  <2>4. PICK p \in 1..Len(ids) : p = k + c BY <1>1, <2>1, <2>3
  <2>5. t[p] = ids[p] /\ p < Len(t) - 0 BY <1>1
  <2> QED BY <2>2, <2>3, <2>4, <2>5
<1>6. \A c \in 1..0 : ResultOf(m2, x + c, x, c) OBVIOUS
<1> QED BY <1>4, <1>5, <1>6 DEF RoundEnd

LEMMA RoundNext ==
  ASSUME NEW m, NEW m2, NEW ids, NEW x, NEW t, Appends(m, m2, ids, x, t),
         x = Len(m) + 1, x = Len(m2), NEW a \in 1..Len(m), NEW n \in Nat,
         RoundEnd(m, ids, a, n), ResultOf(m2, x, a, n + 1)
  PROVE  RoundEnd(m2, t, a, n + 1)
<1>1. /\ Len(ids) \in Nat /\ Len(t) = Len(ids) + 1 /\ t[Len(ids) + 1] = x
      /\ \A l \in 1..Len(ids) : t[l] = ids[l] /\ ids[l] \in 0..Len(m)
  BY AppendsFacts
<1>2. Extends(m, m2) /\ ids \in Seq(0..Len(m)) /\ Len(m) \in Nat BY DEF Appends, Extends
<1>3. /\ Len(m) = a + n /\ Len(ids) > n
      /\ \A c \in 0..n : ids[Len(ids) - n + c] = a + c
      /\ \A c \in 1..n : ResultOf(m, a + c, a, c)
  BY DEF RoundEnd
<1>4. PICK l \in 1..Len(ids) : l = Len(ids) - n /\ l = Len(t) - (n + 1)
  <2>1. Len(ids) \in Nat /\ Len(t) = Len(ids) + 1 /\ Len(ids) > n BY <1>1, <1>3
  <2>2. Len(ids) - n \in 1..Len(ids) /\ Len(ids) - n = Len(t) - (n + 1) BY <2>1
  <2> QED BY <2>2
<1>5. Len(m2) = a + (n + 1) /\ Len(t) > n + 1 BY <1>1, <1>2, <1>3
<1>6. ASSUME NEW c \in 0..n + 1 PROVE t[Len(t) - (n + 1) + c] = a + c
  <2>1. CASE c \in 0..n
    <3>1. PICK p \in 1..Len(ids) : p = Len(ids) - n + c /\ p = Len(t) - (n + 1) + c
      <4>1. Len(ids) - n + c \in 1..Len(ids) /\ Len(ids) - n + c = Len(t) - (n + 1) + c
        BY <1>1, <1>4, <2>1
      <4> QED BY <4>1
    <3> QED BY <1>1, <1>3, <2>1, <3>1
  <2>2. CASE c = n + 1
    <3>1. Len(t) - (n + 1) + c = Len(ids) + 1 /\ a + c = x BY <1>1, <1>2, <1>3, <2>2
    <3> QED BY <1>1, <3>1
  <2> QED BY <2>1, <2>2
<1>7. ASSUME NEW c \in 1..n + 1 PROVE ResultOf(m2, a + c, a, c)
  <2>1. CASE c \in 1..n
    <3>1. PICK w \in 0..Len(m) : w = a + c
      <4>1. Len(m) = a + n BY <1>3
      <4>2. a + c \in 0..Len(m) BY <2>1, <4>1
      <4> QED BY <4>2
    <3>2. ResultOf(m, w, a, c) BY <1>3, <2>1, <3>1
    <3>3. ResultOf(m2, w, a, c) = ResultOf(m, w, a, c) BY <1>2, SameResults
    <3> QED BY <3>1, <3>2, <3>3
  <2>2. CASE c = n + 1
    <3>1. a + c = x BY <1>2, <1>3, <2>2
    <3> QED BY <2>2, <3>1
  <2> QED BY <2>1, <2>2
<1>8. ASSUME NEW k \in 1..Len(t) - (n + 1) - 1, NEW c \in 1..CallsIn(m2, t[k])
      PROVE  k + c < Len(t) - (n + 1) /\ ResultOf(m2, t[k + c], t[k], c)
  <2>1. k \in 1..Len(ids) /\ k \in 1..Len(ids) - n - 1 BY <1>1, <1>4
  <2>2. t[k] = ids[k] BY <1>1, <2>1
  <2>3. CallsIn(m2, t[k]) = CallsIn(m, ids[k])
    <3>1. ids[k] \in 0..Len(m) BY <1>1, <2>1
    <3> QED BY <1>2, <2>2, <3>1, SameRows
  <2>4. k + c < Len(ids) - n /\ ResultOf(m, ids[k + c], ids[k], c)
    BY <1>8, <2>1, <2>3 DEF RoundEnd
  <2>5. PICK p \in 1..Len(ids) : p = k + c BY <1>1, <1>4, <2>1, <2>4
  <2>6. t[p] = ids[p] /\ ids[p] \in 0..Len(m) BY <1>1
  <2>7. ResultOf(m2, ids[p], ids[k], c)
    <3>1. PICK w \in 0..Len(m) : w = ids[p] BY <2>6
    <3>2. ResultOf(m, w, ids[k], c) BY <2>4, <2>5, <3>1
    <3>3. ResultOf(m2, w, ids[k], c) = ResultOf(m, w, ids[k], c) BY <1>2, SameResults
    <3> QED BY <3>1, <3>2, <3>3
  <2>8. k + c < Len(t) - (n + 1) BY <1>4, <2>4
  <2> QED BY <2>2, <2>5, <2>6, <2>7, <2>8
<1> QED BY <1>5, <1>6, <1>7, <1>8 DEF RoundEnd
-----------------------------------------------------------------------------
(* The invariant by parts: the rows, where the execution stands, and what    *)
(* an executor that works knows.                                             *)

RowsInv ==
  /\ \A i \in Ids : messages[i].run <= Latest
  /\ \A n \in 1..Latest : parent[n] < n
  /\ InputInv /\ MessageInv /\ MarkInv

StatusInv ==
  /\ exec # "none" \/ status # "none" => Latest > 0
  /\ status \in {"none", "waiting", "error", "ended"} => exec = "none"
  /\ Working \/ status = "waiting" => HasMessages(Latest)

ContextInv == SetInv /\ OrderInv /\ PairInv /\ RoundInv /\ FrontInv

LEMMA InvParts ==
  IInv <=> /\ TypeOK /\ RowsInv /\ StatusInv /\ FoldInv /\ MissingInv /\ OwnInv /\ ContextInv
BY DEF IInv, RunInv, RowsInv, StatusInv, ContextInv

LEMMA InvPartsNext ==
  ASSUME TypeOK', RowsInv', StatusInv', FoldInv', MissingInv', OwnInv', ContextInv'
  PROVE  IInv'
BY DEF IInv, RunInv, RowsInv, StatusInv, ContextInv

\* Facts about the rows, in every state of the invariant.
LEMMA RowFacts ==
  ASSUME TypeOK, RowsInv
  PROVE  /\ messages \in Seq(Message) /\ Len(messages) \in Nat /\ Ids = 1..Len(messages)
         /\ History(messages) /\ summarized \in SUBSET Ids /\ Whole(messages, summarized)
         /\ parent \in Seq(0..MaxRuns) /\ Latest \in Nat /\ Latest <= MaxRuns
         /\ MaxRuns \in Nat /\ MaxMessages \in Nat /\ MaxCalls \in Nat
         /\ ParentsFirst(parent)
<1>1. parent \in Seq(0..MaxRuns) /\ MaxRuns \in Nat /\ MaxMessages \in Nat /\ MaxCalls \in Nat
  BY BoundAssumption DEF TypeOK
<1>2. messages \in Seq(Message) /\ summarized \in SUBSET Ids BY DEF TypeOK
<1>3. Len(messages) \in Nat BY <1>2
<1>4. \A n \in 1..Len(parent) : parent[n] \in Nat /\ parent[n] < n
  <2>1. \A n \in 1..Len(parent) : parent[n] \in 0..MaxRuns BY <1>1
  <2> QED BY <1>1, <2>1 DEF RowsInv, Latest
<1>5. Latest \in Nat /\ Latest <= MaxRuns BY <1>1 DEF TypeOK, Latest
<1> QED BY <1>1, <1>2, <1>3, <1>4, <1>5 DEF Ids, RowsInv, MessageInv, MarkInv, ParentsFirst

LEMMA ChainSame ==
  ASSUME parent' = parent
  PROVE  Latest' = Latest /\ Chain(Latest)' = Chain(Latest)
<1>1. Latest' = Latest BY DEF Latest
<1> QED BY <1>1 DEF Chain

LEMMA RowsSame ==
  ASSUME messages' = messages
  PROVE  Ids' = Ids /\ HasMessages(Latest)' = \E i \in Ids : messages[i].run = Latest'
BY DEF Ids, HasMessages

LEMMA RowsKept ==
  ASSUME RowsInv, UNCHANGED <<messages, summarized, parent>>
  PROVE  RowsInv'
<1>1. Ids' = Ids /\ Latest' = Latest BY DEF Ids, Latest
<1>2. InputInv' = InputInv BY <1>1 DEF InputInv, HasMessages
<1>3. MessageInv' = MessageInv BY DEF MessageInv
<1>4. MarkInv' = MarkInv BY DEF MarkInv
<1> QED BY <1>1, <1>2, <1>3, <1>4 DEF RowsInv

\* A row of a run that has messages, and no input.
LEMMA RowsAppended ==
  ASSUME TypeOK, RowsInv, NEW row, Fits(messages, row), messages' = Append(messages, row),
         UNCHANGED <<summarized, parent>>,
         row.run <= Latest, row.run = Latest => HasMessages(Latest), row.role # "input"
  PROVE  /\ RowsInv' /\ Extends(messages, messages')
         /\ Len(messages') = Len(messages) + 1 /\ messages'[Len(messages) + 1] = row
         /\ Ids' = Ids \cup {Len(messages) + 1}
         /\ HasMessages(Latest)' <=> HasMessages(Latest)
<1>1. /\ messages \in Seq(Message) /\ Len(messages) \in Nat /\ Ids = 1..Len(messages)
      /\ History(messages) /\ summarized \in SUBSET Ids /\ Whole(messages, summarized)
  BY RowFacts
<1>2. /\ Extends(messages, messages') /\ Len(messages') = Len(messages) + 1
      /\ messages'[Len(messages) + 1] = row
  BY <1>1, AppendExtends DEF Fits
<1>3. /\ Ids' = 1..Len(messages) + 1 /\ Ids' = Ids \cup {Len(messages) + 1}
      /\ \A i \in Ids : messages'[i] = messages[i]
  BY <1>1, <1>2 DEF Ids, Extends
<1>4. Latest' = Latest BY DEF Latest
<1> DEFINE l == Len(messages) + 1
           m2 == messages'
<1>5. m2 = messages' /\ l = Len(messages) + 1 OBVIOUS
<1> HIDE DEF l, m2
<1>6. HasMessages(Latest)' <=> HasMessages(Latest)
  BY <1>2, <1>3, <1>4 DEF HasMessages
<1>7. \A i \in Ids' : m2[i].run <= Latest' BY <1>2, <1>3, <1>4, <1>5 DEF RowsInv
<1>8. \A n \in 1..Latest' : parent'[n] < n BY <1>4 DEF RowsInv
<1>9. InputInv'
  <2>1. SUFFICES ASSUME HasMessages(Latest)' PROVE \E i \in Ids' : FirstInput(m2, Latest', i)
    BY <1>5 DEF InputInv
  <2>2. PICK i \in Ids : FirstInput(messages, Latest, i) BY <1>6, <2>1 DEF RowsInv, InputInv
  <2>3. i \in Ids' /\ m2[i] = messages[i] BY <1>3, <1>5
  <2>4. ASSUME NEW j \in 1..Len(m2), m2[j].run = Latest, j # i
        PROVE  j > i /\ m2[j].role # "input"
    <3>1. CASE j = l
      <4>1. j > i BY <1>1, <1>5, <3>1
      <4> QED BY <1>2, <1>5, <3>1, <4>1
    <3>2. CASE j # l
      <4>1. j \in Ids BY <1>1, <1>2, <1>5, <3>2
      <4>2. m2[j] = messages[j] /\ j \in 1..Len(messages) BY <1>1, <1>3, <1>5, <4>1
      <4> QED BY <2>2, <2>4, <4>2 DEF FirstInput
    <3> QED BY <3>1, <3>2
  <2>5. FirstInput(m2, Latest, i) BY <2>2, <2>3, <2>4 DEF FirstInput
  <2> QED BY <1>4, <2>3, <2>5
<1>10. MessageInv' BY <1>1, HistoryAppend DEF MessageInv
<1>11. MarkInv'
  <2>1. Whole(m2, summarized) BY <1>1, <1>2, <1>5, WholeKept
  <2>2. \A i \in summarized : Marked(m2, i)
    <3>1. ASSUME NEW i \in summarized PROVE Marked(m2, i)
      <4>1. i \in 1..Len(messages) BY <1>1
      <4>2. Marked(messages, i) BY DEF RowsInv, MarkInv
      <4> QED BY <1>2, <1>5, <4>1, <4>2, MarkedKept
    <3> QED BY <3>1
  <2> QED BY <1>5, <2>1, <2>2 DEF MarkInv
<1>12. RowsInv' BY <1>5, <1>7, <1>8, <1>9, <1>10, <1>11 DEF RowsInv
<1> QED BY <1>2, <1>3, <1>6, <1>12

LEMMA NothingToCall ==
  ASSUME NEW m, NEW marked
  PROVE  NextCalls(m, <<>>, marked)
<1> DEFINE q == <<>>
<1>1. 1..Len(q) = {} OBVIOUS
<1> HIDE DEF q
<1>2. NextCalls(m, q, marked) BY <1>1 DEF NextCalls
<1> QED BY <1>2 DEF q

LEMMA NotWorking ==
  ASSUME ~Working'
  PROVE  ContextInv'
BY DEF ContextInv, SetInv, OrderInv, PairInv, RoundInv, FrontInv, Working, InRound
-----------------------------------------------------------------------------
(* Steps that leave the rows alone and end an execution, or leave its       *)
(* context alone.                                                           *)

StatusOK == status \in {"none", "active", "canceling", "waiting", "error", "ended"}

LEMMA IdleStep ==
  ASSUME IInv, Idle, UNCHANGED <<messages, summarized, parent>>,
         StatusOK', stopping' \in BOOLEAN, branches' \in 0..MaxBranches, stops' \in 0..MaxStops,
         status' # "none" => status # "none" \/ exec # "none",
         status' = "waiting" => HasMessages(Latest)
  PROVE  IInv'
<1>1. TypeOK /\ RowsInv /\ StatusInv BY InvParts
<1>2. exec' = "none" /\ ~Working' BY DEF Idle, Working
<1>3. Ids' = Ids /\ Latest' = Latest BY DEF Ids, Latest
<1>4. TypeOK'
  <2>1. messages' \in Seq(Message) /\ Len(messages') <= MaxMessages /\ summarized' \subseteq Ids'
        /\ parent' \in Seq(0..MaxRuns) /\ Len(parent') <= MaxRuns
    BY <1>1, <1>3 DEF TypeOK
  <2>2. /\ exec' \in ExecState /\ resume' \in BOOLEAN
        /\ missing' \in Seq(Ids' \X (1..MaxCalls)) /\ context' \in Seq(0..Len(messages'))
        /\ unsaved' \in 0..Len(messages')
    <3>1. Len(messages) \in Nat BY <1>1, RowFacts
    <3>2. /\ exec' = "none" /\ resume' = FALSE /\ missing' = <<>> /\ context' = <<>>
          /\ unsaved' = 0 /\ messages' = messages
      BY DEF Idle
    <3>3. \A S : <<>> \in Seq(S) OBVIOUS
    <3>4. 0 \in 0..Len(messages) BY <3>1
    <3> QED BY <3>2, <3>3, <3>4 DEF ExecState
  <2>3. fresh' \subseteq Ids' /\ folding' \subseteq Ids' /\ dropped' \subseteq Ids' BY DEF Idle
  <2> QED BY <2>1, <2>2, <2>3 DEF TypeOK, StatusOK
<1>5. RowsInv' BY <1>1, RowsKept
<1>6. StatusInv'
  <2>1. Latest > 0 \/ status' = "none" BY <1>1 DEF StatusInv
  <2>2. HasMessages(Latest)' <=> HasMessages(Latest) BY <1>3 DEF HasMessages
  <2> QED BY <1>2, <1>3, <2>1, <2>2 DEF StatusInv
<1>7. FoldInv'
  <2>1. folding' = {} BY DEF Idle
  <2>2. Whole(messages', {}) BY DEF Whole
  <2> QED BY <2>1, <2>2 DEF FoldInv
<1>8. MissingInv'
  <2>1. missing' = <<>> BY DEF Idle
  <2>2. NextCalls(messages', <<>>, summarized') BY NothingToCall
  <2> QED BY <1>2, <2>1, <2>2 DEF MissingInv
<1>9. OwnInv' BY DEF OwnInv, Idle
<1>10. ContextInv' BY <1>2, NotWorking
<1> QED BY <1>4, <1>5, <1>6, <1>7, <1>8, <1>9, <1>10, InvPartsNext

LEMMA RestartStep == ASSUME IInv, Restart PROVE IInv'
<1>1. TypeOK /\ RowsInv /\ StatusInv BY InvParts
<1>2. /\ Idle /\ UNCHANGED <<messages, summarized, parent, branches>>
      /\ status' = (IF status = "canceling" THEN "ended" ELSE status)
      /\ stopping' = FALSE /\ (stopping \/ stops < MaxStops)
      /\ stops' = (IF stopping THEN stops ELSE stops + 1)
  BY DEF Restart
<1>3. StatusOK' /\ branches' \in 0..MaxBranches /\ stopping' \in BOOLEAN
  BY <1>1, <1>2 DEF StatusOK, TypeOK
<1>4. stops' \in 0..MaxStops
  <2>1. MaxStops \in Nat /\ stops \in 0..MaxStops BY <1>1, BoundAssumption DEF TypeOK
  <2> QED BY <1>2, <2>1
<1>5. status' # "none" => status # "none" BY <1>2
<1>6. status' = "waiting" => HasMessages(Latest) BY <1>1, <1>2 DEF StatusInv
<1> QED BY <1>2, <1>3, <1>4, <1>5, <1>6, IdleStep

LEMMA EndStep ==
  ASSUME IInv, exec # "none", NEW s \in {"active", "canceling", "waiting", "error", "ended"},
         End(s), s = "waiting" => Working
  PROVE  IInv'
<1>1. TypeOK /\ RowsInv /\ StatusInv BY InvParts
<1>2. Idle /\ status' = s /\ UNCHANGED <<messages, summarized, parent, stopping, branches, stops>>
  BY DEF End
<1>3. /\ StatusOK' /\ stopping' \in BOOLEAN /\ branches' \in 0..MaxBranches
      /\ stops' \in 0..MaxStops
  BY <1>1, <1>2 DEF StatusOK, TypeOK
<1>4. status' = "waiting" => HasMessages(Latest) BY <1>1, <1>2 DEF StatusInv
<1> QED BY <1>2, <1>3, <1>4, IdleStep

\* The actions by which an executor returns.
Ends ==
  \/ NotStarted \/ LoopStops \/ AbnormalFinish \/ Finish \/ Pause \/ Stalled \/ Fails \/ Mended

LEMMA EndsStep == ASSUME IInv, Ends PROVE IInv'
<1>1. TypeOK /\ StatusInv BY InvParts
<1>2. status \in {"none", "active", "canceling", "waiting", "error", "ended"} BY <1>1 DEF TypeOK
<1>3. exec # "none" => status \in {"active", "canceling"} BY <1>1, <1>2 DEF StatusInv
<1>4. \A s : s = "waiting" /\ exec \in {"replied", "tools", "pause"} =>  Working
  BY DEF Working
<1>5. \E s \in {"active", "canceling", "waiting", "error", "ended"} :
        /\ exec # "none" /\ End(s) /\ (s = "waiting" => Working)
  <2>1. CASE NotStarted BY <1>3, <2>1 DEF NotStarted
  <2>2. CASE LoopStops BY <1>3, <2>2 DEF LoopStops
  <2>3. CASE AbnormalFinish BY <2>3 DEF AbnormalFinish
  <2>4. CASE Finish BY <2>4 DEF Finish
  <2>5. CASE Pause BY <1>4, <2>5 DEF Pause
  <2>6. CASE Stalled
    <3>1. exec \in {"replied", "tools"} BY <2>6 DEF Stalled, AtStop
    <3>2. PICK s \in {"waiting", "error"} : End(s) BY <2>6 DEF Stalled
    <3> QED BY <1>4, <3>1, <3>2
  <2>7. CASE Fails BY <2>7 DEF Fails
  <2>8. CASE Mended BY <1>3, <2>8 DEF Mended
  <2> QED BY <2>1, <2>2, <2>3, <2>4, <2>5, <2>6, <2>7, <2>8 DEF Ends
<1>6. PICK s \in {"active", "canceling", "waiting", "error", "ended"} :
        exec # "none" /\ End(s) /\ (s = "waiting" => Working)
  BY <1>5
<1> QED BY <1>6, EndStep

LEMMA StepSame ==
  ASSUME messages' = messages
  PROVE  Step' = Step /\ Calls(Step)' = Calls(Step)
<1>1. Step = StepIn(messages) /\ Step' = StepIn(messages') BY DEF Step, StepIn, SelectLastInSeq
<1>2. Step' = Step BY <1>1
<1>3. Calls(Step) = CallsIn(messages, Step) BY CallsSame
<1>4. Calls(Step)' = CallsIn(messages', Step') BY DEF Calls, CallsIn
<1> QED BY <1>2, <1>3, <1>4

\* The rows, the context and what the executor has made stay.
Stays == UNCHANGED <<messages, summarized, parent, context, unsaved, fresh, folding, dropped>>

LEMMA StaysStep ==
  ASSUME IInv, Stays,
         StatusOK', exec' \in ExecState, resume' \in BOOLEAN, stopping' \in BOOLEAN,
         branches' \in 0..MaxBranches, stops' \in 0..MaxStops,
         missing' \in Seq(Ids \X (1..MaxCalls)),
         exec' = exec \/ exec # "fold",
         exec' # "none" \/ status' # "none" => exec # "none" \/ status # "none",
         status' \in {"none", "waiting", "error", "ended"} => exec' = "none",
         status' = "waiting" => status = "waiting",
         Working' => Working,
         exec' \in {"none", "start", "repair"} => exec \in {"none", "start", "repair"},
         Working' /\ ~InRound' => ~InRound \/ CallsFollowed(messages, context),
         InRound' => InRound, exec' = "replied" => exec = "replied",
         MissingInv'
  PROVE  IInv'
<1>1. TypeOK /\ RowsInv /\ StatusInv /\ FoldInv /\ OwnInv /\ ContextInv BY InvParts
<1>2. UNCHANGED <<messages, summarized, parent, context, unsaved, fresh, folding, dropped>>
  BY DEF Stays
<1>3. Ids' = Ids /\ Latest' = Latest /\ Chain(Latest)' = Chain(Latest) BY <1>2, ChainSame DEF Ids
<1>4. TypeOK' BY <1>1, <1>2, <1>3 DEF TypeOK, StatusOK
<1>5. RowsInv' BY <1>1, <1>2, RowsKept
<1>6. StatusInv'
  <2>1. HasMessages(Latest)' <=> HasMessages(Latest) BY <1>2, <1>3 DEF HasMessages
  <2> QED BY <1>1, <1>3, <2>1 DEF StatusInv
<1>7. FoldInv'
  <2>1. folding' = folding /\ messages' = messages BY <1>2
  <2> QED BY <1>1, <1>3, <2>1 DEF FoldInv
<1>8. OwnInv' BY <1>1, <1>2, <1>3 DEF OwnInv
<1>9. ContextInv'
  <2>1. SetInv' BY <1>1, <1>2, <1>3 DEF ContextInv, SetInv, Visible
  <2>2. OrderInv' BY <1>1, <1>2 DEF ContextInv, OrderInv
  <2>3. PairInv' BY <1>1, <1>2 DEF ContextInv, PairInv
  <2>4. RoundInv'
    <3>1. Step' = Step /\ Calls(Step)' = Calls(Step) BY <1>2, StepSame
    <3> QED BY <1>1, <1>2, <1>3, <3>1 DEF ContextInv, RoundInv
  <2>5. FrontInv' BY <1>1, <1>2 DEF ContextInv, FrontInv
  <2> QED BY <2>1, <2>2, <2>3, <2>4, <2>5 DEF ContextInv
<1> QED BY <1>4, <1>5, <1>6, <1>7, <1>8, <1>9, InvPartsNext

-----------------------------------------------------------------------------
(* The round under way, in a state of the invariant.                        *)

LEMMA StepRole ==
  ASSUME Len(messages) \in Nat, Step > 0
  PROVE  Step \in 1..Len(messages) /\ messages[Step].role = "assistant"
<1> DEFINE I == {k \in 1..Len(messages) : messages[k].role = "assistant"}
<1>1. Step = IF I # {} THEN Max(I) ELSE 0 BY DEF Step, SelectLastInSeq
<1>2. I \subseteq 0..Len(messages) OBVIOUS
<1>3. I # {} => Max(I) \in I
  <2> HIDE DEF I
  <2> QED BY <1>2, MaxFacts
<1>4. Step \in I BY <1>1, <1>3
<1> QED BY <1>4

LEMMA RoundUnderWay ==
  ASSUME IInv, InRound
  PROVE  \E n \in Nat :
           /\ n <= CallsIn(messages, Step) /\ CallsIn(messages, Step) \in Nat
           /\ Calls(Step) = CallsIn(messages, Step)
           /\ Step \in 1..Len(messages) /\ messages[Step].role = "assistant"
           /\ messages[Step].run = Latest
           /\ exec = "replied" => n = 0
           /\ RoundEnd(messages, context, Step, n) /\ NextCall = n + 1
<1>1. TypeOK /\ RowsInv /\ ContextInv BY InvParts
<1>2. messages \in Seq(Message) /\ Len(messages) \in Nat /\ History(messages)
  BY <1>1, RowFacts
<1>3. PICK n \in 0..Calls(Step) :
        /\ Step > 0 /\ messages[Step].run = Latest /\ (exec = "replied" => n = 0)
        /\ RoundEnd(messages, context, Step, n)
  BY <1>1 DEF ContextInv, RoundInv
<1>4. Step \in 1..Len(messages) /\ messages[Step].role = "assistant" BY <1>2, <1>3, StepRole
<1>5. Calls(Step) = CallsIn(messages, Step) /\ CallsIn(messages, Step) \in Nat
  <2>1. Step \in 0..Len(messages) BY <1>4
  <2> QED BY <1>2, <2>1, CallsSame, CallsTypes
<1>6. n \in Nat /\ n <= CallsIn(messages, Step) BY <1>5
<1>7. NextCall = n + 1
  <2>1. Len(messages) = Step + n /\ \A c \in 1..n : ResultOf(messages, Step + c, Step, c)
    BY <1>3 DEF RoundEnd
  <2>2. PICK a \in 1..Len(messages) : a = Step BY <1>4
  <2>3. Len(messages) = a + n /\ \A c \in 1..n : ResultOf(messages, a + c, a, c) BY <2>1, <2>2
  <2> QED BY <1>2, <1>6, <2>2, <2>3, NextCallIs
<1> QED BY <1>3, <1>4, <1>5, <1>6, <1>7

\* The calls of the step have their results.
AllAnswered ==
  \/ exec = "replied" /\ Calls(Step) = 0
  \/ exec = "tools" /\ NextCall > Calls(Step)

LEMMA RoundComplete ==
  ASSUME IInv, AllAnswered
  PROVE  CallsFollowed(messages, context)
<1>1. InRound BY DEF AllAnswered, InRound
<1>2. PICK n \in Nat :
        /\ n <= CallsIn(messages, Step) /\ CallsIn(messages, Step) \in Nat
        /\ Calls(Step) = CallsIn(messages, Step)
        /\ Step \in 1..Len(messages)
        /\ exec = "replied" => n = 0
        /\ RoundEnd(messages, context, Step, n) /\ NextCall = n + 1
  BY <1>1, RoundUnderWay
<1>3. n = CallsIn(messages, Step) BY <1>2 DEF AllAnswered
<1>4. messages \in Seq(Message) /\ History(messages) /\ context \in Seq(0..Len(messages))
  BY InvParts, RowFacts DEF TypeOK
<1> QED BY <1>2, <1>3, <1>4, RoundDone

-----------------------------------------------------------------------------
(* The steps that leave rows and context alone.                             *)

LEMMA MissingKept ==
  ASSUME IInv, UNCHANGED <<messages, summarized, parent, missing>>,
         exec' = exec \/ (exec' \notin {"repair", "mend"} /\ exec \notin {"repair", "mend"})
  PROVE  MissingInv' /\ missing' \in Seq(Ids \X (1..MaxCalls))
<1>1. TypeOK /\ MissingInv BY InvParts
<1>2. Ids' = Ids /\ Latest' = Latest /\ Chain(Latest)' = Chain(Latest) BY ChainSame DEF Ids
<1>3. missing' \in Seq(Ids \X (1..MaxCalls)) BY <1>1 DEF TypeOK
<1>4. exec' \notin {"repair", "mend"} => missing' = <<>> BY <1>1 DEF MissingInv
<1>5. NextCalls(messages', missing', summarized') BY <1>1 DEF MissingInv
<1>6. ASSUME exec' = "repair", NEW i \in Ids', Visible(i)', NEW c \in 1..CallsIn(messages', i)
      PROVE  \/ \E t \in Ids' : ResultOf(messages', t, i, c)
             \/ Has(missing', <<i, c>>)
  <2>1. exec = "repair" /\ i \in Ids /\ Visible(i) BY <1>2, <1>6 DEF Visible
  <2> QED BY <1>1, <1>2, <1>6, <2>1 DEF MissingInv
<1> QED BY <1>3, <1>4, <1>5, <1>6 DEF MissingInv

\* Steps of the run that are no steps of its executor.
LEMMA OutsideStep ==
  ASSUME IInv, Continue \/ Cancel \/ Shutdown \/ Recover
  PROVE  IInv'
<1>1. TypeOK /\ RowsInv /\ StatusInv BY InvParts
<1>2. /\ exec \in ExecState /\ status \in {"none", "active", "canceling", "waiting", "error", "ended"}
      /\ branches \in 0..MaxBranches /\ stops \in 0..MaxStops
      /\ stopping \in BOOLEAN /\ resume \in BOOLEAN
  BY <1>1 DEF TypeOK
<1>3. UNCHANGED <<messages, summarized, parent, missing>> /\ Stays
  BY DEF Continue, Cancel, Shutdown, Recover, Start, rowVars, execVars, Stays
<1>4. exec' = exec \/ (exec = "none" /\ exec' = "start")
  BY <1>1 DEF Continue, Cancel, Shutdown, Recover, Start, execVars, StatusInv
<1>5. MissingInv' /\ missing' \in Seq(Ids \X (1..MaxCalls)) BY <1>3, <1>4, MissingKept
<1>6. /\ StatusOK' /\ exec' \in ExecState /\ resume' \in BOOLEAN /\ stopping' \in BOOLEAN
      /\ branches' \in 0..MaxBranches
  BY <1>2, <1>4
  DEF Continue, Cancel, Shutdown, Recover, Start, rowVars, execVars, StatusOK, ExecState
<1>7. stops' \in 0..MaxStops
  <2>1. CASE Shutdown BY <1>2, <2>1, BoundAssumption DEF Shutdown
  <2>2. CASE ~Shutdown BY <1>2, <2>2 DEF Continue, Cancel, Recover
  <2> QED BY <2>1, <2>2
<1>8. /\ exec' # "none" \/ status' # "none" => exec # "none" \/ status # "none"
      /\ status' \in {"none", "waiting", "error", "ended"} => exec' = "none"
      /\ status' = "waiting" => status = "waiting"
  BY <1>1, <1>2 DEF Continue, Cancel, Shutdown, Recover, Start, rowVars, execVars, StatusInv
<1>9. /\ exec' = exec \/ exec # "fold"
      /\ Working' => Working
      /\ exec' \in {"none", "start", "repair"} => exec \in {"none", "start", "repair"}
      /\ Working' /\ ~InRound' => ~InRound
      /\ InRound' => InRound
      /\ exec' = "replied" => exec = "replied"
  BY <1>4 DEF Working, InRound
<1> QED BY <1>3, <1>5, <1>6, <1>7, <1>8, <1>9, StaysStep

\* Steps of the executor between two states of the loop.
LEMMA GoStep ==
  ASSUME IInv, Ask \/ UseTools \/ ToolsDone
  PROVE  IInv'
<1>1. TypeOK /\ RowsInv /\ StatusInv BY InvParts
<1>2. /\ status \in {"none", "active", "canceling", "waiting", "error", "ended"}
      /\ branches \in 0..MaxBranches /\ stops \in 0..MaxStops
      /\ stopping \in BOOLEAN /\ resume \in BOOLEAN
  BY <1>1 DEF TypeOK
<1>3. /\ UNCHANGED <<messages, summarized, parent, status, missing, resume, stopping, branches, stops>>
      /\ Stays
  BY DEF Ask, UseTools, ToolsDone, Go, Elsewhere, rowVars, Stays
<1>4. \/ exec \in {"top", "compact"} /\ exec' = "asked"
      \/ exec = "replied" /\ exec' = "tools"
      \/ exec = "tools" /\ exec' = "top" /\ AllAnswered
  BY DEF Ask, InStep, UseTools, ToolsDone, Go, AllAnswered
<1>5. MissingInv' /\ missing' \in Seq(Ids \X (1..MaxCalls)) BY <1>3, <1>4, MissingKept
<1>6. /\ StatusOK' /\ exec' \in ExecState /\ resume' \in BOOLEAN /\ stopping' \in BOOLEAN
      /\ branches' \in 0..MaxBranches /\ stops' \in 0..MaxStops
  BY <1>2, <1>3, <1>4 DEF StatusOK, ExecState
<1>7. /\ exec' # "none" \/ status' # "none" => exec # "none" \/ status # "none"
      /\ status' \in {"none", "waiting", "error", "ended"} => exec' = "none"
      /\ status' = "waiting" => status = "waiting"
  BY <1>1, <1>3, <1>4 DEF StatusInv
<1>8. Working' /\ ~InRound' => ~InRound \/ CallsFollowed(messages, context)
  <2>1. AllAnswered => CallsFollowed(messages, context) BY RoundComplete
  <2> QED BY <1>4, <2>1 DEF InRound
<1>9. /\ exec' = exec \/ exec # "fold"
      /\ Working' => Working
      /\ exec' \in {"none", "start", "repair"} => exec \in {"none", "start", "repair"}
      /\ InRound' => InRound
      /\ exec' = "replied" => exec = "replied"
  BY <1>4 DEF Working, InRound
<1> QED BY <1>3, <1>5, <1>6, <1>7, <1>8, <1>9, StaysStep

\* Steps that look for calls without result.
LEMMA SearchStep ==
  ASSUME IInv, Load \/ AbortThrows
  PROVE  IInv'
<1>1. TypeOK /\ RowsInv /\ StatusInv /\ OwnInv BY InvParts
<1>2. /\ status \in {"none", "active", "canceling", "waiting", "error", "ended"}
      /\ branches \in 0..MaxBranches /\ stops \in 0..MaxStops
      /\ stopping \in BOOLEAN /\ resume \in BOOLEAN
  BY <1>1 DEF TypeOK
<1>3. /\ UNCHANGED <<messages, summarized, parent, status, resume, stopping, branches, stops>>
      /\ Stays
  BY DEF Load, AbortThrows, Elsewhere, rowVars, Stays
<1>4. \/ /\ exec = "start" /\ exec' = "repair" /\ status = "active"
         /\ missing' = IF ShouldRecover THEN FindMissing(View(Latest)) ELSE <<>>
      \/ /\ exec \in {"repair", "compact", "asked", "tools"} /\ exec' = "mend"
         /\ missing' = FindMissing(View(Latest))
  BY DEF Load, AbortThrows
<1>5. /\ messages \in Seq(Message) /\ Len(messages) \in Nat /\ Ids = 1..Len(messages)
      /\ History(messages) /\ summarized \in SUBSET Ids /\ Whole(messages, summarized)
      /\ parent \in Seq(0..MaxRuns) /\ Latest \in Nat /\ ParentsFirst(parent)
  BY <1>1, RowFacts
<1>6. Ids' = Ids /\ Latest' = Latest /\ Chain(Latest)' = Chain(Latest) BY <1>3, ChainSame DEF Ids
<1> DEFINE F == FindMissing(View(Latest))
<1>7. /\ F \in Seq(Ids \X (1..MaxCalls)) /\ NextCalls(messages, F, summarized)
      /\ \A i \in Sees(Latest) : \A c \in 1..CallsIn(messages, i) :
              \/ \E t \in Ids : ResultOf(messages, t, i, c)
              \/ Has(F, <<i, c>>)
  BY <1>5, ViewMissing
<1> HIDE DEF F
<1>8. missing' = F \/ (missing' = <<>> /\ exec' = "repair" /\ ~ShouldRecover)
  BY <1>4 DEF F
<1>9. missing' \in Seq(Ids \X (1..MaxCalls))
  <2>1. \A S : <<>> \in Seq(S) OBVIOUS
  <2> QED BY <1>7, <1>8, <2>1, Zenon
<1>10. NextCalls(messages, missing', summarized) BY <1>7, <1>8, NothingToCall
<1>11. ASSUME exec' = "repair", NEW i \in Ids, messages[i].run \in Chain(Latest), i \notin summarized,
              NEW c \in 1..CallsIn(messages, i)
       PROVE  \/ \E t \in Ids : ResultOf(messages, t, i, c)
              \/ Has(missing', <<i, c>>)
  <2>1. CASE missing' = F
    <3>1. i \in Sees(Latest) BY <1>11 DEF Sees
    <3> QED BY <1>7, <1>11, <2>1, <3>1
  <2>2. CASE ~ShouldRecover /\ exec = "start"
    <3>1. ~HasMessages(Latest) /\ parent[Latest] = 0 BY <2>2 DEF ShouldRecover
    <3>2. Latest \in 1..Len(parent) /\ Len(parent) \in Nat
      <4>1. Latest > 0 BY <1>1, <2>2 DEF StatusInv
      <4> QED BY <1>5, <4>1 DEF Latest
    <3>3. Chain(Latest) = {Latest} \cup Chain(parent[Latest]) /\ Chain(0) = {}
      BY <1>5, <3>2, ChainFacts
    <3>4. messages[i].run = Latest BY <1>11, <3>1, <3>3
    <3> QED BY <3>1, <3>4 DEF HasMessages
  <2> QED BY <1>4, <1>8, <1>11, <2>1, <2>2
<1>12. MissingInv'
  <2>1. exec' \in {"repair", "mend"} BY <1>4
  <2>2. \A i : Visible(i)' <=> messages[i].run \in Chain(Latest) /\ i \notin summarized
    BY <1>3, <1>6 DEF Visible
  <2> QED BY <1>3, <1>6, <1>10, <1>11, <2>1, <2>2 DEF MissingInv
<1>13. /\ StatusOK' /\ exec' \in ExecState /\ resume' \in BOOLEAN /\ stopping' \in BOOLEAN
       /\ branches' \in 0..MaxBranches /\ stops' \in 0..MaxStops
  BY <1>2, <1>3, <1>4 DEF StatusOK, ExecState
<1>14. /\ exec' # "none" \/ status' # "none" => exec # "none" \/ status # "none"
       /\ status' \in {"none", "waiting", "error", "ended"} => exec' = "none"
       /\ status' = "waiting" => status = "waiting"
  BY <1>1, <1>3, <1>4 DEF StatusInv
<1>15. /\ exec' = exec \/ exec # "fold"
       /\ Working' => Working
       /\ exec' \in {"none", "start", "repair"} => exec \in {"none", "start", "repair"}
       /\ Working' /\ ~InRound' => ~InRound
       /\ InRound' => InRound
       /\ exec' = "replied" => exec = "replied"
  BY <1>4 DEF Working, InRound
<1> QED BY <1>3, <1>9, <1>12, <1>13, <1>14, <1>15, StaysStep

-----------------------------------------------------------------------------
(* New runs, and the rows that are written before the context is built.     *)

LEMMA CreateRunStep ==
  ASSUME IInv, NEW p \in 0..Latest, CreateRun(p), branches' \in 0..MaxBranches
  PROVE  IInv'
<1>1. TypeOK /\ RowsInv /\ StatusInv /\ FoldInv /\ MissingInv /\ OwnInv BY InvParts
<1>2. /\ messages \in Seq(Message) /\ Len(messages) \in Nat /\ Ids = 1..Len(messages)
      /\ parent \in Seq(0..MaxRuns) /\ Latest \in Nat /\ MaxRuns \in Nat
      /\ ParentsFirst(parent)
  BY <1>1, RowFacts
<1>3. /\ Latest < MaxRuns /\ parent' = Append(parent, p) /\ status' = "active"
      /\ exec' = "start" /\ resume' = FALSE
      /\ UNCHANGED <<messages, summarized, missing, context, unsaved, fresh, folding, dropped,
                     stopping, stops>>
      /\ status \in {"none", "error", "ended"}
  BY DEF CreateRun, Start
<1>4. exec = "none" BY <1>1, <1>3 DEF StatusInv
<1>5. /\ parent' \in Seq(0..MaxRuns) /\ Latest' = Latest + 1 /\ Latest' <= MaxRuns
      /\ \A n \in 1..Latest : parent'[n] = parent[n] /\ parent'[Latest + 1] = p
  <2>1. p \in 0..MaxRuns BY <1>2, <1>3
  <2> DEFINE T == 0..MaxRuns
  <2>2. parent \in Seq(T) /\ p \in T BY <1>2, <2>1
  <2> HIDE DEF T
  <2>3. /\ Append(parent, p) \in Seq(T) /\ Len(parent) \in Nat
        /\ Len(Append(parent, p)) = Len(parent) + 1
        /\ \A k \in 1..Len(parent) : Append(parent, p)[k] = parent[k]
        /\ Append(parent, p)[Len(parent) + 1] = p
    BY <2>2, AppendFacts
  <2>4. Latest' = Latest + 1 BY <1>3, <2>3 DEF Latest
  <2> QED BY <1>2, <1>3, <2>3, <2>4 DEF Latest, T
<1>6. Ids' = Ids BY <1>3 DEF Ids
<1>7. TypeOK' BY <1>1, <1>3, <1>5, <1>6 DEF TypeOK, ExecState, Latest
<1>8. \A i \in Ids : messages[i].run \in Nat /\ messages[i].run <= Latest
  <2>1. \A i \in Ids : messages[i].run \in 1..MaxRuns BY <1>2, RowTypes
  <2> QED BY <1>1, <2>1 DEF RowsInv
<1>9. ~HasMessages(Latest)'
  <2>1. \A i \in Ids : messages[i].run # Latest' BY <1>2, <1>5, <1>8
  <2> QED BY <1>3, <1>6, <2>1 DEF HasMessages
<1>10. RowsInv'
  <2>1. \A i \in Ids : messages[i].run <= Latest' BY <1>2, <1>5, <1>8
  <2>2. \A n \in 1..Latest' : parent'[n] < n
    <3>1. \A n \in 1..Latest : parent[n] < n BY <1>1 DEF RowsInv
    <3>2. p < Latest + 1 BY <1>2
    <3>3. \A n \in 1..Latest' : n \in 1..Latest \/ n = Latest + 1 BY <1>2, <1>5
    <3>4. parent'[Latest + 1] = p
      <4>1. 0 \in Nat /\ parent'[Len(parent) + 1] = p BY <1>2, <1>3 DEF Latest
      <4> QED BY <4>1 DEF Latest
    <3>5. ASSUME NEW n \in 1..Latest' PROVE parent'[n] < n
      <4>1. CASE n \in 1..Latest BY <1>5, <3>1, <4>1
      <4>2. CASE n = Latest + 1 BY <3>2, <3>4, <4>2
      <4> QED BY <3>3, <4>1, <4>2
    <3> QED BY <3>5
  <2>3. InputInv' BY <1>9 DEF InputInv
  <2>4. MessageInv' BY <1>1, <1>3 DEF RowsInv, MessageInv
  <2>5. MarkInv' BY <1>1, <1>3 DEF RowsInv, MarkInv
  <2> QED BY <1>3, <1>6, <2>1, <2>2, <2>3, <2>4, <2>5 DEF RowsInv
<1>11. ~Working' BY <1>3 DEF Working
<1>12. StatusInv' BY <1>2, <1>3, <1>5, <1>11 DEF StatusInv
<1>13. FoldInv'
  <2>1. folding = {} BY <1>1, <1>4 DEF FoldInv
  <2>2. Whole(messages, {}) BY DEF Whole
  <2> QED BY <1>3, <2>1, <2>2 DEF FoldInv
<1>14. MissingInv'
  <2>1. missing = <<>> BY <1>1, <1>4 DEF MissingInv
  <2>2. NextCalls(messages, <<>>, summarized) BY NothingToCall
  <2> QED BY <1>3, <2>1, <2>2 DEF MissingInv
<1>15. OwnInv'
  <2>1. context = <<>> /\ unsaved = 0 /\ fresh = {} /\ dropped = {} BY <1>1, <1>4 DEF OwnInv
  <2> QED BY <1>3, <2>1 DEF OwnInv
<1>16. ContextInv' BY <1>11, NotWorking
<1> QED BY <1>7, <1>10, <1>12, <1>13, <1>14, <1>15, <1>16, InvPartsNext

LEMMA NewRunStep == ASSUME IInv, NewRun \/ Branch PROVE IInv'
<1>1. TypeOK /\ RowsInv BY InvParts
<1>2. Latest \in Nat /\ branches \in 0..MaxBranches /\ ParentsFirst(parent) /\ MaxBranches \in Nat
  BY <1>1, RowFacts, BoundAssumption DEF TypeOK
<1>3. CASE NewRun
  <2>1. CreateRun(Latest) /\ branches' = branches BY <1>3 DEF NewRun
  <2>2. Latest \in 0..Latest /\ branches' \in 0..MaxBranches BY <1>2, <2>1
  <2> QED BY <2>1, <2>2, CreateRunStep
<1>4. CASE Branch
  <2>1. /\ Latest > 0 /\ branches < MaxBranches /\ branches' = branches + 1
    BY <1>4 DEF Branch
  <2>2. PICK p \in 1..Latest - 1 \cup {parent[Latest]} : CreateRun(p) BY <1>4 DEF Branch
  <2>3. parent[Latest] \in Nat /\ parent[Latest] < Latest
    BY <1>2, <2>1 DEF ParentsFirst, Latest
  <2>4. p \in 0..Latest BY <1>2, <2>1, <2>3
  <2>5. branches' \in 0..MaxBranches BY <1>2, <2>1
  <2> QED BY <2>2, <2>4, <2>5, CreateRunStep
<1> QED BY <1>3, <1>4

\* A row is written while no executor has a context.
LEMMA WriteStep ==
  ASSUME IInv, NEW row, Fits(messages, row), messages' = Append(messages, row), HasRoom,
         row.run <= Latest, row.run = Latest => HasMessages(Latest), row.role # "input",
         UNCHANGED <<summarized, parent, context, unsaved, fresh, folding, dropped,
                     stopping, branches, stops>>,
         exec # "fold", ~Working', exec' \in ExecState, resume' \in BOOLEAN, StatusOK',
         exec' \in {"none", "start", "repair"} => exec \in {"none", "start", "repair"},
         exec' # "none" \/ status' # "none" => exec # "none" \/ status # "none",
         status' \in {"none", "waiting", "error", "ended"} => exec' = "none",
         status' = "waiting" => status = "waiting",
         missing' \in Seq(Ids' \X (1..MaxCalls)), MissingInv'
  PROVE  IInv'
<1>1. TypeOK /\ RowsInv /\ StatusInv /\ FoldInv /\ OwnInv BY InvParts
<1>2. /\ messages \in Seq(Message) /\ Len(messages) \in Nat /\ Ids = 1..Len(messages)
      /\ MaxMessages \in Nat
  BY <1>1, RowFacts
<1>3. /\ RowsInv' /\ Extends(messages, messages') /\ Len(messages') = Len(messages) + 1
      /\ Ids' = Ids \cup {Len(messages) + 1}
      /\ HasMessages(Latest)' <=> HasMessages(Latest)
  BY <1>1, RowsAppended
<1>4. Latest' = Latest BY DEF Latest
<1>5. TypeOK'
  <2>1. /\ messages' \in Seq(Message) /\ Len(messages') <= MaxMessages
    BY <1>2, <1>3 DEF Extends, HasRoom
  <2>2. summarized' \subseteq Ids' /\ fresh' \subseteq Ids' /\ folding' \subseteq Ids'
        /\ dropped' \subseteq Ids' /\ unsaved' \in 0..Len(messages')
    BY <1>1, <1>2, <1>3 DEF TypeOK
  <2>3. context' \in Seq(0..Len(messages'))
    <3>1. 0..Len(messages) \subseteq 0..Len(messages') BY <1>2, <1>3
    <3>2. context \in Seq(0..Len(messages)) BY <1>1 DEF TypeOK
    <3>3. context \in Seq(0..Len(messages')) BY <3>1, <3>2, SeqWiden
    <3> QED BY <3>3
  <2>4. /\ parent' \in Seq(0..MaxRuns) /\ Len(parent') <= MaxRuns /\ stopping' \in BOOLEAN
        /\ branches' \in 0..MaxBranches /\ stops' \in 0..MaxStops
    BY <1>1 DEF TypeOK
  <2> QED BY <2>1, <2>2, <2>3, <2>4 DEF TypeOK, StatusOK
<1>6. StatusInv' BY <1>1, <1>3, <1>4 DEF StatusInv
<1>7. folding' = {} /\ FoldInv'
  <2>1. folding = {} BY <1>1 DEF FoldInv
  <2>2. Whole(messages', {}) BY DEF Whole
  <2> QED BY <2>1, <2>2 DEF FoldInv
<1>8. OwnInv'
  <2>1. unsaved # 0 => messages'[unsaved].role = "input"
    <3>1. unsaved # 0 => unsaved \in 1..Len(messages) BY <1>1, <1>2 DEF TypeOK
    <3> QED BY <1>1, <1>3, <3>1 DEF OwnInv, Extends
  <2>2. ASSUME NEW i \in fresh PROVE SummaryIn(messages', i) /\ messages'[i].run = Latest
    <3>1. i \in 1..Len(messages) /\ i \in 0..Len(messages) BY <1>1, <1>2 DEF TypeOK
    <3>2. SummaryIn(messages', i) = SummaryIn(messages, i) BY <1>3, <3>1, SameRows
    <3>3. messages'[i] = messages[i] BY <1>3, <3>1 DEF Extends
    <3> QED BY <1>1, <3>2, <3>3 DEF OwnInv
  <2> QED BY <1>1, <1>4, <2>1, <2>2 DEF OwnInv
<1>9. ContextInv' BY NotWorking
<1> QED BY <1>3, <1>5, <1>6, <1>7, <1>8, <1>9, InvPartsNext

\* A row without calls, results and covers.
LEMMA PlainFits ==
  ASSUME TypeOK, Latest > 0, NEW role \in Role, role \notin {"tool"}, NEW n \in 0..MaxCalls,
         n > 0 => role = "assistant"
  PROVE  Fits(messages, Row(Latest, role, n, 0, 0, <<>>))
<1> DEFINE row == Row(Latest, role, n, 0, 0, <<>>)
<1>1. Latest \in 1..MaxRuns BY BoundAssumption DEF TypeOK, Latest
<1>2. 0 \in 0..MaxCalls /\ 0 \in 0..MaxMessages BY BoundAssumption
<1>3. <<>> \in Seq(1..MaxMessages) /\ 1..Len(<<>>) = {} OBVIOUS
<1>4. row \in Message BY <1>1, <1>2, <1>3 DEF Row, Message
<1>5. /\ row.calls = n /\ row.role = role /\ row.covers = <<>>
  BY DEF Row
<1> HIDE DEF row
<1>6. Fits(messages, row) BY <1>3, <1>4, <1>5 DEF Fits
<1> QED BY <1>6 DEF row

LEMMA AnswerStep == ASSUME IInv, Answer PROVE IInv'
<1>1. TypeOK /\ RowsInv /\ StatusInv /\ MissingInv BY InvParts
<1> DEFINE row == UserRow("user")
<1>2. /\ status = "waiting" /\ HasRoom /\ status' = "active" /\ messages' = Append(messages, row)
      /\ exec' = "start" /\ resume' = TRUE
      /\ UNCHANGED <<missing, context, unsaved, fresh, folding, dropped, summarized, parent,
                     stopping, branches, stops>>
  BY DEF Answer, Start
<1>3. exec = "none" /\ Latest > 0 /\ HasMessages(Latest) BY <1>1, <1>2 DEF StatusInv
<1>4. Fits(messages, row) /\ row.run = Latest /\ row.role = "user"
  <2>1. 0 \in 0..MaxCalls /\ "user" \in Role BY BoundAssumption DEF Role
  <2>2. Fits(messages, Row(Latest, "user", 0, 0, 0, <<>>)) BY <1>1, <1>3, <2>1, PlainFits
  <2> QED BY <2>2 DEF UserRow, Row
<1> HIDE DEF row
<1>5. ~Working' /\ exec' \in ExecState /\ StatusOK' BY <1>2 DEF Working, ExecState, StatusOK
<1>6. missing' = <<>> /\ missing' \in Seq(Ids' \X (1..MaxCalls))
  <2>1. missing = <<>> BY <1>1, <1>3 DEF MissingInv
  <2>2. \A S : <<>> \in Seq(S) OBVIOUS
  <2> QED BY <1>2, <2>1, <2>2, Zenon
<1>7. MissingInv'
  <2>1. NextCalls(messages', <<>>, summarized') BY NothingToCall
  <2> QED BY <1>2, <1>6, <2>1 DEF MissingInv
<1>8. Latest \in Nat /\ row.run <= Latest BY <1>1, <1>4, RowFacts
<1> QED BY <1>2, <1>3, <1>4, <1>5, <1>6, <1>7, <1>8, WriteStep

\* The row of the next result of a step.
LEMMA ToolFits ==
  ASSUME TypeOK, RowsInv, NEW a \in Ids, NEW c \in Nat, c > 0, c <= CallsIn(messages, a),
         \A d \in 1..c - 1 : \E j \in 1..Len(messages) : ResultOf(messages, j, a, d),
         \A t \in 1..Len(messages) : ToolIn(messages, t) /\ messages[t].step = a =>
           messages[t].call < c
  PROVE  /\ Fits(messages, ToolRow(a, c))
         /\ ToolRow(a, c).run = messages[a].run /\ ToolRow(a, c).run <= Latest
         /\ ToolRow(a, c).run = Latest => HasMessages(Latest)
         /\ ToolRow(a, c).role = "tool" /\ ToolRow(a, c).step = a /\ ToolRow(a, c).call = c
         /\ ToolRow(a, c).calls = 0
<1> DEFINE row == ToolRow(a, c)
<1>1. /\ messages \in Seq(Message) /\ Len(messages) \in Nat /\ Ids = 1..Len(messages)
      /\ MaxMessages \in Nat /\ MaxCalls \in Nat
  BY RowFacts
<1>2. messages[a] \in Message /\ messages[a].run \in 1..MaxRuns BY <1>1, RowTypes
<1>3. messages[a].calls \in 0..MaxCalls BY <1>2 DEF Message
<1>4. a # 0 /\ CallsIn(messages, a) = messages[a].calls /\ c <= messages[a].calls
  BY <1>1 DEF CallsIn
<1>5. c \in 0..MaxCalls /\ 0 \in 0..MaxCalls BY <1>1, <1>3, <1>4
<1>6. a \in 0..MaxMessages BY <1>1 DEF TypeOK
<1>7. <<>> \in Seq(1..MaxMessages) /\ 1..Len(<<>>) = {} OBVIOUS
<1>8. row \in Message BY <1>2, <1>5, <1>6, <1>7 DEF ToolRow, Row, Message, Role
<1>9. /\ row.run = messages[a].run /\ row.role = "tool" /\ row.step = a /\ row.call = c
      /\ row.calls = 0 /\ row.covers = <<>>
  BY DEF ToolRow, Row
<1> HIDE DEF row
<1>10. a > 0 /\ a <= Len(messages) BY <1>1
<1>11. Fits(messages, row) BY <1>4, <1>7, <1>8, <1>9, <1>10 DEF Fits
<1>12. row.run <= Latest BY <1>9 DEF RowsInv
<1>13. row.run = Latest => HasMessages(Latest) BY <1>9 DEF HasMessages
<1> QED BY <1>9, <1>11, <1>12, <1>13 DEF row

LEMMA TailFacts ==
  ASSUME NEW T, NEW q \in Seq(T), q # <<>>
  PROVE  /\ Tail(q) \in Seq(T) /\ Len(q) \in Nat \ {0} /\ Head(q) = q[1] /\ q[1] \in T
         /\ Len(Tail(q)) = Len(q) - 1
         /\ \A k \in 1..Len(Tail(q)) : Tail(q)[k] = q[k + 1] /\ k + 1 \in 1..Len(q)
<1>1. Len(q) \in Nat \ {0} OBVIOUS
<1>2. Tail(q) \in Seq(T) /\ Head(q) = q[1] /\ q[1] \in T BY <1>1
<1>3. Len(Tail(q)) = Len(q) - 1 /\ \A k \in 1..Len(Tail(q)) : Tail(q)[k] = q[k + 1]
  BY <1>1
<1>4. \A k \in 1..Len(Tail(q)) : k + 1 \in 1..Len(q) BY <1>1, <1>3
<1> QED BY <1>1, <1>2, <1>3, <1>4

LEMMA RecordInterruptedStep == ASSUME IInv, RecordInterrupted PROVE IInv'
<1>1. TypeOK /\ RowsInv /\ StatusInv /\ MissingInv BY InvParts
<1>2. /\ messages \in Seq(Message) /\ Len(messages) \in Nat /\ Ids = 1..Len(messages)
      /\ summarized \in SUBSET Ids
  BY <1>1, RowFacts
<1> DEFINE q == missing
           a == q[1][1]
           c == q[1][2]
           row == ToolRow(a, c)
           l == Len(messages) + 1
           m2 == messages'
<1>3. q \in Seq(Ids \X (1..MaxCalls)) BY <1>1 DEF TypeOK
<1>4. /\ exec \in {"repair", "mend"} /\ q # <<>> /\ HasRoom
      /\ messages' = Append(messages, ToolRow(Head(q)[1], Head(q)[2])) /\ missing' = Tail(q)
      /\ UNCHANGED <<summarized, status, exec, context, unsaved, fresh, folding, dropped,
                     parent, resume, stopping, branches, stops>>
  BY DEF RecordInterrupted, Elsewhere
<1>5. /\ Tail(q) \in Seq(Ids \X (1..MaxCalls)) /\ Len(q) \in Nat \ {0}
      /\ Head(q) = q[1] /\ q[1] \in Ids \X (1..MaxCalls)
      /\ Len(Tail(q)) = Len(q) - 1
      /\ \A k \in 1..Len(Tail(q)) : Tail(q)[k] = q[k + 1] /\ k + 1 \in 1..Len(q)
  BY <1>3, <1>4, TailFacts
<1>6. a \in Ids /\ c \in Nat /\ c > 0 /\ q[1] = <<a, c>> BY <1>5
<1>7. messages' = Append(messages, row) BY <1>4, <1>5
<1> HIDE DEF row, a, c, l, m2, q
<1>8. NextCalls(messages, q, summarized) BY <1>1 DEF MissingInv, q
<1>9. 1 \in 1..Len(q) BY <1>5
<1>10. /\ a \notin summarized /\ c <= CallsIn(messages, a)
       /\ \A t \in 1..Len(messages) : ToolIn(messages, t) /\ messages[t].step = a =>
            messages[t].call < c
       /\ \A d \in 1..c - 1 : \E j \in 1..Len(messages) : ResultOf(messages, j, a, d)
  <2>1. /\ q[1][1] \notin summarized /\ q[1][2] <= CallsIn(messages, q[1][1])
        /\ \A t \in 1..Len(messages) : ToolIn(messages, t) /\ messages[t].step = q[1][1] =>
             messages[t].call < q[1][2]
        /\ \A d \in 1..q[1][2] - 1 : \/ \E t \in 1..Len(messages) : ResultOf(messages, t, q[1][1], d)
                                     \/ \E j \in 1..1 - 1 : q[j] = <<q[1][1], d>>
    BY <1>8, <1>9 DEF NextCalls
  <2>2. ~ \E j \in 1..1 - 1 : TRUE OBVIOUS
  <2> QED BY <2>1, <2>2 DEF a, c
<1>11. /\ Fits(messages, row)
       /\ row.run <= Latest
       /\ row.run = Latest => HasMessages(Latest)
       /\ row.role = "tool" /\ row.step = a /\ row.call = c /\ row.calls = 0
  BY <1>1, <1>6, <1>10, ToolFits DEF row
<1>12. /\ Extends(messages, m2) /\ Len(m2) = l /\ m2[l] = row /\ Ids' = Ids \cup {l}
       /\ l \in Nat \ {0} /\ l = Len(messages) + 1
  BY <1>1, <1>2, <1>4, <1>7, <1>11, RowsAppended DEF l, m2
<1>13. ResultOf(m2, l, a, c) BY <1>11, <1>12 DEF ResultOf, ToolIn
<1>14. ASSUME NEW i \in 0..Len(messages)
       PROVE  CallsIn(m2, i) = CallsIn(messages, i) /\ ToolIn(m2, i) = ToolIn(messages, i)
  BY <1>12, SameRows
<1>15. missing' \in Seq(Ids' \X (1..MaxCalls))
  <2>1. Ids \X (1..MaxCalls) \subseteq Ids' \X (1..MaxCalls) BY <1>12
  <2> DEFINE A == Ids \X (1..MaxCalls)
             B == Ids' \X (1..MaxCalls)
  <2>2. A \subseteq B /\ Tail(q) \in Seq(A) BY <1>5, <2>1
  <2> HIDE DEF A, B
  <2>3. Tail(q) \in Seq(B) BY <2>2, SeqWiden
  <2> QED BY <1>4, <2>3 DEF B, q
<1> DEFINE u == Tail(q)
<1>16. u = missing' /\ Len(u) = Len(q) - 1 /\ \A k \in 1..Len(u) : u[k] = q[k + 1] /\ k + 1 \in 1..Len(q)
  BY <1>4, <1>5 DEF q
<1> HIDE DEF u
<1>17. NextCalls(m2, u, summarized)
  <2>1. ASSUME NEW k \in 1..Len(u)
        PROVE  /\ u[k][1] \notin summarized /\ u[k][2] <= CallsIn(m2, u[k][1])
               /\ \A t \in 1..Len(m2) : ToolIn(m2, t) /\ m2[t].step = u[k][1] => m2[t].call < u[k][2]
               /\ \A d \in 1..u[k][2] - 1 : \/ \E t \in 1..Len(m2) : ResultOf(m2, t, u[k][1], d)
                                            \/ \E j \in 1..k - 1 : u[j] = <<u[k][1], d>>
    <3>1. PICK p \in 1..Len(q) : p = k + 1 /\ u[k] = q[p] BY <1>16
    <3>2. PICK b \in Ids, e \in 1..MaxCalls : q[p] = <<b, e>>
      <4>1. q[p] \in Ids \X (1..MaxCalls) BY <1>3, ElementOf DEF q
      <4> QED BY <4>1
    <3>3. u[k][1] = b /\ u[k][2] = e /\ q[p][1] = b /\ q[p][2] = e BY <3>1, <3>2
    <3>4. /\ b \notin summarized /\ e <= CallsIn(messages, b)
          /\ \A t \in 1..Len(messages) : ToolIn(messages, t) /\ messages[t].step = b =>
               messages[t].call < e
          /\ \A d \in 1..e - 1 : \/ \E t \in 1..Len(messages) : ResultOf(messages, t, b, d)
                                 \/ \E j \in 1..p - 1 : q[j] = <<b, d>>
      BY <1>8, <3>3 DEF NextCalls
    <3>5. b \in 0..Len(messages) BY <1>2
    <3>6. e <= CallsIn(m2, b) BY <1>14, <3>4, <3>5
    <3>7. ASSUME NEW t \in 1..Len(m2), ToolIn(m2, t), m2[t].step = b PROVE m2[t].call < e
      <4>1. CASE t = l
        <5>1. b = a BY <1>11, <1>12, <3>7, <4>1
        <5>2. 1 < p /\ q[1][1] = q[p][1] BY <1>5, <1>6, <3>1, <3>3, <5>1
        <5>3. q[1][2] < q[p][2] BY <1>8, <1>9, <5>2 DEF NextCalls
        <5> QED BY <1>6, <1>11, <1>12, <3>3, <4>1, <5>3
      <4>2. CASE t # l
        <5>1. t \in 1..Len(messages) /\ t \in 0..Len(messages) BY <1>2, <1>12, <4>2
        <5>2. m2[t] = messages[t] /\ ToolIn(messages, t) BY <1>12, <1>14, <3>7, <5>1 DEF Extends
        <5> QED BY <3>4, <3>7, <5>1, <5>2
      <4> QED BY <4>1, <4>2
    <3>8. ASSUME NEW d \in 1..e - 1
          PROVE  \/ \E t \in 1..Len(m2) : ResultOf(m2, t, b, d)
                 \/ \E j \in 1..k - 1 : u[j] = <<b, d>>
      <4>1. CASE \E t \in 1..Len(messages) : ResultOf(messages, t, b, d)
        <5>1. PICK t \in 1..Len(messages) : ResultOf(messages, t, b, d) BY <4>1
        <5>2. t \in 0..Len(messages) /\ t \in 1..Len(m2) BY <1>2, <1>12
        <5>3. ResultOf(m2, t, b, d) BY <1>12, <5>1, <5>2, SameResults
        <5> QED BY <5>2, <5>3
      <4>2. CASE \E j \in 1..p - 1 : q[j] = <<b, d>>
        <5>1. PICK j \in 1..p - 1 : q[j] = <<b, d>> BY <4>2
        <5>2. CASE j = 1
          <6>1. b = a /\ d = c BY <1>6, <5>1, <5>2
          <6>2. l \in 1..Len(m2) BY <1>12
          <6> QED BY <1>13, <6>1, <6>2
        <5>3. CASE j # 1
          <6>1. PICK i \in 1..k - 1 : j = i + 1
            <7>1. j - 1 \in 1..k - 1 /\ j = (j - 1) + 1 BY <3>1, <5>1, <5>3
            <7> QED BY <7>1
          <6>2. i \in 1..Len(u) BY <1>5, <1>16
          <6>3. u[i] = q[i + 1] BY <1>16, <6>2
          <6> QED BY <5>1, <6>1, <6>3
        <5> QED BY <5>2, <5>3
      <4> QED BY <3>4, <4>1, <4>2
    <3> QED BY <3>3, <3>4, <3>6, <3>7, <3>8
  <2>2. ASSUME NEW j \in 1..Len(u), NEW k \in 1..Len(u), j < k, u[j][1] = u[k][1]
        PROVE  u[j][2] < u[k][2]
    <3>1. PICK x \in 1..Len(q), y \in 1..Len(q) : x = j + 1 /\ y = k + 1 /\ u[j] = q[x] /\ u[k] = q[y]
      BY <1>16
    <3>2. x < y BY <2>2, <3>1
    <3> QED BY <1>8, <2>2, <3>1, <3>2 DEF NextCalls
  <2> QED BY <2>1, <2>2 DEF NextCalls
<1>18. Latest' = Latest /\ Chain(Latest)' = Chain(Latest) BY <1>4, ChainSame
<1>19. ASSUME exec' = "repair", NEW i \in Ids', Visible(i)', NEW d \in 1..CallsIn(m2, i)
       PROVE  \/ \E t \in Ids' : ResultOf(m2, t, i, d)
              \/ Has(u, <<i, d>>)
  <2>1. CASE i = l
    <3>1. CallsIn(m2, l) = 0 BY <1>11, <1>12 DEF CallsIn
    <3> QED BY <1>19, <2>1, <3>1
  <2>2. CASE i # l
    <3>1. i \in Ids /\ i \in 0..Len(messages) /\ i \in 1..Len(messages) BY <1>2, <1>12, <2>2
    <3>2. m2[i] = messages[i] BY <1>12, <3>1 DEF Extends
    <3>3. Visible(i) BY <1>4, <1>18, <1>19, <3>2 DEF Visible, m2
    <3>4. d \in 1..CallsIn(messages, i) BY <1>14, <1>19, <3>1
    <3>5. exec = "repair" BY <1>4, <1>19
    <3>6. \/ \E t \in Ids : ResultOf(messages, t, i, d)
          \/ Has(q, <<i, d>>)
      BY <1>1, <3>1, <3>3, <3>4, <3>5 DEF MissingInv, q
    <3>7. CASE \E t \in Ids : ResultOf(messages, t, i, d)
      <4>1. PICK t \in Ids : ResultOf(messages, t, i, d) BY <3>7
      <4>2. t \in 0..Len(messages) /\ t \in Ids' BY <1>2, <1>12
      <4>3. ResultOf(m2, t, i, d) BY <1>12, <4>1, <4>2, SameResults
      <4> QED BY <4>2, <4>3
    <3>8. CASE Has(q, <<i, d>>)
      <4>1. PICK j \in 1..Len(q) : q[j] = <<i, d>> BY <3>8 DEF Has
      <4>2. CASE j = 1
        <5>1. i = a /\ d = c BY <1>6, <4>1, <4>2
        <5>2. l \in Ids' BY <1>12
        <5> QED BY <1>13, <5>1, <5>2
      <4>3. CASE j # 1
        <5>1. PICK k \in 1..Len(u) : j = k + 1
          <6>1. j - 1 \in 1..Len(u) /\ j = (j - 1) + 1 BY <1>5, <1>16, <4>1, <4>3
          <6> QED BY <6>1
        <5>2. u[k] = <<i, d>> BY <1>16, <4>1, <5>1
        <5> QED BY <5>2 DEF Has
      <4> QED BY <4>2, <4>3
    <3> QED BY <3>6, <3>7, <3>8
  <2> QED BY <2>1, <2>2
<1>20. MissingInv'
  <2>1. summarized' = summarized /\ exec' \in {"repair", "mend"} /\ missing' = u
    BY <1>4, <1>16
  <2> QED BY <1>17, <1>19, <2>1 DEF MissingInv, m2
<1>21. /\ exec' = exec /\ status' = status /\ exec' \in ExecState /\ StatusOK'
       /\ resume' \in BOOLEAN /\ ~Working' /\ exec # "fold"
  BY <1>1, <1>4 DEF TypeOK, StatusOK, Working
<1>22. /\ status' \in {"none", "waiting", "error", "ended"} => exec' = "none"
       /\ status' = "waiting" => status = "waiting"
       /\ exec' \in {"none", "start", "repair"} => exec \in {"none", "start", "repair"}
       /\ exec' # "none" \/ status' # "none" => exec # "none" \/ status # "none"
  BY <1>1, <1>21 DEF StatusInv
<1> QED BY <1>4, <1>7, <1>11, <1>15, <1>20, <1>21, <1>22, WriteStep
-----------------------------------------------------------------------------
(* The executor writes a row while it has its context.                      *)

\* The executor is in the same execution, with the context that ContextInv
\* says of.
LEMMA WorkStep ==
  ASSUME IInv, NEW row, Fits(messages, row), messages' = Append(messages, row), HasRoom,
         row.run = Latest, row.role # "input", Working, Working',
         UNCHANGED <<summarized, parent, status, resume, missing, unsaved, stopping,
                     branches, stops>>,
         context' \in Seq(0..Len(messages')),
         fresh' \subseteq Ids', dropped' \subseteq Ids', folding' \subseteq Ids', FoldInv',
         \A i \in fresh' : SummaryIn(messages', i) /\ messages'[i].run = Latest,
         ContextInv'
  PROVE  IInv'
<1>1. TypeOK /\ RowsInv /\ StatusInv /\ MissingInv /\ OwnInv BY InvParts
<1>2. /\ messages \in Seq(Message) /\ Len(messages) \in Nat /\ Ids = 1..Len(messages)
      /\ MaxMessages \in Nat /\ Latest \in Nat
  BY <1>1, RowFacts
<1>3. HasMessages(Latest) BY <1>1 DEF StatusInv
<1>4. /\ RowsInv' /\ Extends(messages, messages') /\ Len(messages') = Len(messages) + 1
      /\ Ids' = Ids \cup {Len(messages) + 1}
      /\ HasMessages(Latest)'
  <2>1. row.run <= Latest BY <1>2
  <2> QED BY <1>1, <1>3, <2>1, RowsAppended
<1>5. Latest' = Latest BY DEF Latest
<1>6. /\ exec # "none" /\ exec' \in ExecState
      /\ exec' \notin {"none", "start", "repair", "mend"} /\ exec \notin {"repair", "mend"}
  BY DEF Working, ExecState
<1>7. missing = <<>> BY <1>1, <1>6 DEF MissingInv
<1>8. TypeOK'
  <2>1. /\ messages' \in Seq(Message) /\ Len(messages') <= MaxMessages
    BY <1>2, <1>4 DEF Extends, HasRoom
  <2>2. summarized' \subseteq Ids' /\ unsaved' \in 0..Len(messages')
    BY <1>1, <1>2, <1>4 DEF TypeOK
  <2>3. missing' \in Seq(Ids' \X (1..MaxCalls))
    <3>1. \A S : <<>> \in Seq(S) OBVIOUS
    <3> QED BY <1>7, <3>1, Zenon
  <2>4. /\ parent' \in Seq(0..MaxRuns) /\ Len(parent') <= MaxRuns /\ stopping' \in BOOLEAN
        /\ branches' \in 0..MaxBranches /\ stops' \in 0..MaxStops /\ resume' \in BOOLEAN
        /\ status' \in {"none", "active", "canceling", "waiting", "error", "ended"}
    BY <1>1 DEF TypeOK
  <2> QED BY <1>6, <2>1, <2>2, <2>3, <2>4 DEF TypeOK
<1>9. StatusInv' BY <1>1, <1>4, <1>5, <1>6 DEF StatusInv
<1>10. MissingInv'
  <2>1. NextCalls(messages', <<>>, summarized') BY NothingToCall
  <2> QED BY <1>6, <1>7, <2>1 DEF MissingInv
<1>11. OwnInv'
  <2>1. unsaved # 0 => messages'[unsaved].role = "input"
    <3>1. unsaved # 0 => unsaved \in 1..Len(messages) BY <1>1, <1>2 DEF TypeOK
    <3> QED BY <1>1, <1>4, <3>1 DEF OwnInv, Extends
  <2> QED BY <1>5, <1>6, <2>1 DEF OwnInv
<1> QED BY <1>4, <1>8, <1>9, <1>10, <1>11, InvPartsNext

\* A message's key is not above its id.
LEMMA KeyBelow ==
  ASSUME NEW m \in Seq(Message), History(m), NEW i \in 1..Len(m)
  PROVE  Key(m, i) \in Nat /\ i \in Nat /\ Key(m, i) <= i
<1>1. Key(m, i) \in Nat /\ i \in Nat BY KeyTypes
<1>2. i # 0 BY <1>1
<1>3. m[i].role = "tool" => m[i].step < i BY <1>2 DEF History, ToolRowAfter, ToolIn
<1>4. CASE m[i].role = "tool"
  <2>1. Key(m, i) = m[i].step BY <1>4 DEF Key
  <2> QED BY <1>1, <1>3, <1>4, <2>1
<1>5. CASE m[i].role # "tool"
  <2>1. Key(m, i) = i BY <1>5 DEF Key
  <2> QED BY <1>1, <2>1
<1> QED BY <1>4, <1>5

LEMMA KeyKept ==
  ASSUME NEW m, NEW m2, Extends(m, m2), NEW i \in 1..Len(m)
  PROVE  Key(m2, i) = Key(m, i)
<1>1. m2[i] = m[i] BY DEF Extends
<1> QED BY <1>1 DEF Key

\* A new row that is no result comes after all others.
LEMMA NewestLast ==
  ASSUME NEW m \in Seq(Message), History(m), NEW m2, Extends(m, m2), Len(m2) = Len(m) + 1,
         NEW ids \in Seq(0..Len(m)), m2[Len(m2)].role # "tool"
  PROVE  \A k \in 1..Len(ids) : RegularIn(m, ids[k]) => Before(m2, ids[k], Len(m2))
<1>1. SUFFICES ASSUME NEW k \in 1..Len(ids), RegularIn(m, ids[k])
      PROVE  Before(m2, ids[k], Len(m2))
  OBVIOUS
<1>2. Len(m) \in Nat /\ ids[k] \in 0..Len(m) BY ElementOf
<1>3. ids[k] # 0 BY <1>1 DEF RegularIn
<1>4. PICK i \in 1..Len(m) : i = ids[k] BY <1>2, <1>3
<1>5. Key(m, i) \in Nat /\ i \in Nat /\ Key(m, i) <= i BY KeyBelow
<1>6. Key(m2, i) = Key(m, i) BY KeyKept
<1>7. Key(m2, Len(m2)) = Len(m2) BY DEF Key
<1>8. Key(m, i) < Len(m) + 1 BY <1>2, <1>5
<1> QED BY <1>4, <1>6, <1>7, <1>8 DEF Before

\* Every call number in a context is positive.
LEMMA PositiveCalls ==
  ASSUME NEW m \in Seq(Message), History(m), NEW ids \in Seq(0..Len(m))
  PROVE  \A k \in 1..Len(ids) : ToolIn(m, ids[k]) => m[ids[k]].call \in Nat \ {0}
BY ResultCalls, ElementOf

\* The row goes into the context as well.
LEMMA AddStep ==
  ASSUME IInv, NEW row, NEW next, AddRow(row, next), Fits(messages, row),
         row.run = Latest, row.role \notin {"input", "summary"},
         Working, exec # "fold", Working', next # "fold",
         OrderInv', PairInv', RoundInv'
  PROVE  IInv'
<1>1. TypeOK /\ RowsInv /\ StatusInv /\ FoldInv /\ OwnInv /\ ContextInv BY InvParts
<1>2. /\ messages \in Seq(Message) /\ Len(messages) \in Nat /\ Ids = 1..Len(messages)
      /\ summarized \in SUBSET Ids /\ Latest \in Nat /\ ParentsFirst(parent)
  BY <1>1, RowFacts
<1> DEFINE l == Len(messages) + 1
           m2 == messages'
<1>3. /\ HasRoom /\ messages' = Append(messages, row) /\ context' = Append(context, l)
      /\ exec' = next
      /\ UNCHANGED <<summarized, status, missing, unsaved, fresh, folding, dropped,
                     parent, resume, stopping, branches, stops>>
  BY DEF AddRow, Elsewhere
<1>4. HasMessages(Latest) BY <1>1 DEF StatusInv
<1>5. /\ Extends(messages, m2) /\ Len(m2) = l /\ m2[l] = row /\ Ids' = Ids \cup {l}
      /\ l \in Nat \ {0} /\ l = Len(messages) + 1
  <2>1. row.run <= Latest BY <1>2
  <2> QED BY <1>1, <1>2, <1>3, <1>4, <2>1, RowsAppended
<1>6. Appends(messages, m2, context, l, context')
  <2>1. context \in Seq(0..Len(messages)) BY <1>1 DEF TypeOK
  <2>2. l \in 0..Len(m2) BY <1>5
  <2> QED BY <1>3, <1>5, <2>1, <2>2 DEF Appends
<1>7. Latest' = Latest /\ Chain(Latest)' = Chain(Latest) BY <1>3, ChainSame
<1> HIDE DEF l, m2
<1>8. /\ context' \in Seq(0..Len(m2)) /\ \A i : Has(context', i) <=> Has(context, i) \/ i = l
  BY <1>6, AppendsFacts
<1>9. folding = {} /\ folding' = {} BY <1>1, <1>3 DEF FoldInv
<1>10. FoldInv'
  <2>1. Whole(m2, {}) BY DEF Whole
  <2> QED BY <1>9, <2>1 DEF FoldInv, m2
<1>11. ASSUME NEW i \in fresh PROVE SummaryIn(m2, i) /\ m2[i].run = Latest
  <2>1. i \in 1..Len(messages) /\ i \in 0..Len(messages) BY <1>1, <1>2 DEF TypeOK
  <2>2. SummaryIn(m2, i) = SummaryIn(messages, i) BY <1>5, <2>1, SameRows
  <2>3. m2[i] = messages[i] BY <1>5, <2>1 DEF Extends
  <2> QED BY <1>1, <2>2, <2>3 DEF OwnInv
<1>12. Latest \in Chain(Latest)
  <2>1. Latest > 0 BY <1>1, <1>4 DEF StatusInv, Working
  <2>2. Latest \in 1..Len(parent) /\ Len(parent) \in Nat BY <1>2, <2>1 DEF Latest
  <2> QED BY <1>2, <2>2, ChainFacts
<1>13. SetInv'
  <2>1. SUFFICES ASSUME NEW i \in Ids', ~SummaryIn(m2, i)
        PROVE  Has(context', i) <=> Visible(i)' /\ i \notin folding' /\ i \notin dropped'
    BY DEF SetInv, m2
  <2>2. CASE i = l
    <3>1. l \notin summarized /\ l \notin dropped BY <1>1, <1>2, <1>5 DEF TypeOK
    <3>2. Visible(i)' BY <1>3, <1>5, <1>7, <1>12, <2>2, <3>1 DEF Visible, m2
    <3> QED BY <1>3, <1>8, <1>9, <2>2, <3>1, <3>2
  <2>3. CASE i # l
    <3>1. i \in Ids /\ i \in 1..Len(messages) /\ i \in 0..Len(messages) BY <1>2, <1>5, <2>3
    <3>2. SummaryIn(m2, i) = SummaryIn(messages, i) /\ m2[i] = messages[i]
      BY <1>5, <3>1, SameRows DEF Extends
    <3>3. Visible(i)' <=> Visible(i) BY <1>3, <1>7, <3>2 DEF Visible, m2
    <3>4. Has(context, i) <=> Visible(i) /\ i \notin folding /\ i \notin dropped
      BY <1>1, <2>1, <3>1, <3>2 DEF ContextInv, SetInv
    <3> QED BY <1>3, <1>8, <2>3, <3>3, <3>4
  <2> QED BY <2>2, <2>3
<1>14. FrontInv'
  <2>1. SystemFront(messages, context, fresh) BY <1>1 DEF ContextInv, FrontInv
  <2>2. ~SummaryIn(m2, l) BY <1>5 DEF SummaryIn
  <2>3. SystemFront(m2, context', fresh) BY <1>6, <2>1, <2>2, AppendFront
  <2> QED BY <1>3, <2>3 DEF FrontInv, m2
<1>15. ContextInv' BY <1>13, <1>14 DEF ContextInv
<1>16. fresh' \subseteq Ids' /\ dropped' \subseteq Ids' /\ folding' \subseteq Ids'
  BY <1>1, <1>3, <1>5 DEF TypeOK
<1>17. \A i \in fresh' : SummaryIn(messages', i) /\ messages'[i].run = Latest
  BY <1>3, <1>11 DEF m2
<1>18. context' \in Seq(0..Len(messages')) BY <1>8 DEF m2
<1>19. row.role # "input" OBVIOUS
<1> QED BY <1>3, <1>10, <1>15, <1>16, <1>17, <1>18, <1>19, WorkStep
\* What a row for the context needs of the rows and the context so far.
LEMMA AddFacts ==
  ASSUME IInv, Working, NEW row, Fits(messages, row), row.run = Latest, row.role # "input",
         messages' = Append(messages, row), context' = Append(context, Len(messages) + 1),
         UNCHANGED <<summarized, parent>>
  PROVE  /\ Appends(messages, messages', context, Len(messages) + 1, context')
         /\ Extends(messages, messages') /\ messages' \in Seq(Message)
         /\ Len(messages) \in Nat /\ Len(messages') = Len(messages) + 1
         /\ messages'[Len(messages) + 1] = row
         /\ messages \in Seq(Message) /\ History(messages) /\ Ids = 1..Len(messages)
         /\ context \in Seq(0..Len(messages))
         /\ Ordered(messages, context) /\ ResultsFollow(messages, context)
<1>1. TypeOK /\ RowsInv /\ StatusInv /\ ContextInv BY InvParts
<1>2. /\ messages \in Seq(Message) /\ Len(messages) \in Nat /\ Ids = 1..Len(messages)
      /\ History(messages) /\ Latest \in Nat
  BY <1>1, RowFacts
<1>3. HasMessages(Latest) BY <1>1 DEF StatusInv
<1>4. /\ Extends(messages, messages') /\ Len(messages') = Len(messages) + 1
      /\ messages'[Len(messages) + 1] = row
  <2>1. row.run <= Latest BY <1>2
  <2> QED BY <1>1, <1>3, <2>1, RowsAppended
<1>5. context \in Seq(0..Len(messages)) BY <1>1 DEF TypeOK
<1>6. Len(messages) + 1 \in 0..Len(messages') BY <1>2, <1>4
<1>7. Appends(messages, messages', context, Len(messages) + 1, context')
  BY <1>4, <1>5, <1>6 DEF Appends
<1>8. Ordered(messages, context) /\ ResultsFollow(messages, context)
  BY <1>1 DEF ContextInv, OrderInv, PairInv
<1> QED BY <1>2, <1>4, <1>5, <1>7, <1>8 DEF Extends

\* A user message, after all calls of the context are answered.
LEMMA UserStep ==
  ASSUME IInv, Working, exec # "fold", CallsFollowed(messages, context),
         AddRow(UserRow("user"), "top")
  PROVE  IInv'
<1>1. TypeOK /\ RowsInv /\ StatusInv BY InvParts
<1> DEFINE row == UserRow("user")
           l == Len(messages) + 1
           m2 == messages'
<1>2. /\ messages' = Append(messages, row) /\ context' = Append(context, l) /\ exec' = "top"
      /\ UNCHANGED <<summarized, parent>>
  BY DEF AddRow, Elsewhere
<1>3. Latest > 0 BY <1>1 DEF StatusInv, Working
<1>4. Fits(messages, row) /\ row.run = Latest /\ row.role = "user" /\ row.calls = 0
  <2>1. 0 \in 0..MaxCalls /\ "user" \in Role BY BoundAssumption DEF Role
  <2>2. Fits(messages, Row(Latest, "user", 0, 0, 0, <<>>)) BY <1>1, <1>3, <2>1, PlainFits
  <2> QED BY <2>2 DEF UserRow, Row
<1>5. AddRow(row, "top") OBVIOUS
<1> HIDE DEF row
<1>6. /\ Appends(messages, m2, context, l, context') /\ Extends(messages, m2)
      /\ Len(m2) = l /\ m2[l] = row /\ messages \in Seq(Message) /\ History(messages)
      /\ context \in Seq(0..Len(messages)) /\ Len(messages) \in Nat
      /\ Ordered(messages, context) /\ ResultsFollow(messages, context)
  BY <1>2, <1>4, AddFacts
<1>7. Len(m2) = Len(messages) + 1 BY <1>6
<1> HIDE DEF l, m2
<1>8. ~ToolIn(m2, l) /\ CallsIn(m2, l) = 0 BY <1>4, <1>6 DEF ToolIn, CallsIn
<1>9. Ordered(m2, context')
  <2>1. m2[Len(m2)].role # "tool" BY <1>4, <1>6
  <2>2. \A k \in 1..Len(context) : RegularIn(messages, context[k]) => Before(m2, context[k], Len(m2))
    BY <1>6, <1>7, <2>1, NewestLast
  <2> QED BY <1>6, <2>2, AppendOrdered
<1>10. ResultsFollow(m2, context')
  <2>1. \A k \in 1..Len(context) : ToolIn(messages, context[k]) => messages[context[k]].call \in Nat \ {0}
    BY <1>6, PositiveCalls
  <2> QED BY <1>6, <1>8, <2>1, AppendResults
<1>11. CallsFollowed(m2, context') BY <1>6, <1>8, AppendCalls
<1>12. OrderInv' BY <1>9 DEF OrderInv, m2
<1>13. PairInv' BY <1>10, <1>11 DEF PairInv, m2
<1>14. RoundInv' BY <1>2 DEF RoundInv, InRound
<1>15. Working' BY <1>2 DEF Working
<1>16. row.role \notin {"input", "summary"} /\ "top" # "fold" BY <1>4
<1> QED BY <1>4, <1>5, <1>12, <1>13, <1>14, <1>15, <1>16, AddStep

LEMMA InputStep == ASSUME IInv, ApplyInput \/ StopFindsInput PROVE IInv'
<1>1. ContextInv BY InvParts
<1>2. CASE ApplyInput
  <2>1. exec = "top" /\ AddRow(UserRow("user"), "top") BY <1>2 DEF ApplyInput
  <2>2. Working /\ exec # "fold" /\ ~InRound BY <2>1 DEF Working, InRound
  <2>3. CallsFollowed(messages, context) BY <1>1, <2>2 DEF ContextInv, PairInv
  <2> QED BY <2>1, <2>2, <2>3, UserStep
<1>3. CASE StopFindsInput
  <2>1. AtStop /\ AddRow(UserRow("user"), "top") BY <1>3 DEF StopFindsInput
  <2>2. AllAnswered /\ Working /\ exec # "fold" BY <2>1 DEF AtStop, AllAnswered, Working
  <2>3. CallsFollowed(messages, context) BY <2>2, RoundComplete
  <2> QED BY <2>1, <2>2, <2>3, UserStep
<1> QED BY <1>2, <1>3

LEMMA StepNext == Step' = StepIn(messages')
BY DEF Step, StepIn, SelectLastInSeq

LEMMA ReplyStep == ASSUME IInv, Reply PROVE IInv'
<1>1. TypeOK /\ RowsInv /\ StatusInv /\ ContextInv BY InvParts
<1>2. PICK n \in 0..MaxCalls : AddRow(Row(Latest, "assistant", n, 0, 0, <<>>), "replied")
  BY DEF Reply
<1> DEFINE row == Row(Latest, "assistant", n, 0, 0, <<>>)
           l == Len(messages) + 1
           m2 == messages'
<1>3. /\ messages' = Append(messages, row) /\ context' = Append(context, l) /\ exec' = "replied"
      /\ UNCHANGED <<summarized, parent>> /\ exec = "asked"
  BY <1>2 DEF AddRow, Elsewhere, Reply
<1>4. Working /\ ~InRound /\ exec # "fold" /\ Working' BY <1>3 DEF Working, InRound
<1>5. Latest > 0 BY <1>1, <1>4 DEF StatusInv, Working
<1>6. Fits(messages, row) /\ row.run = Latest /\ row.role = "assistant" /\ row.calls = n
  <2>1. "assistant" \in Role BY DEF Role
  <2>2. Fits(messages, row) BY <1>1, <1>5, <2>1, PlainFits
  <2> QED BY <2>2 DEF Row
<1>7. AddRow(row, "replied") BY <1>2
<1> HIDE DEF row
<1>8. /\ Appends(messages, m2, context, l, context') /\ Extends(messages, m2)
      /\ Len(m2) = l /\ m2[l] = row /\ messages \in Seq(Message) /\ History(messages)
      /\ context \in Seq(0..Len(messages)) /\ Len(messages) \in Nat
      /\ Ordered(messages, context) /\ ResultsFollow(messages, context)
  BY <1>3, <1>4, <1>6, AddFacts
<1>9. Len(m2) = Len(messages) + 1 BY <1>8
<1>10. l \in Nat \ {0} BY <1>8
<1> HIDE DEF l, m2
<1>11. ~ToolIn(m2, l) BY <1>6, <1>8 DEF ToolIn
<1>12. Ordered(m2, context')
  <2>1. m2[Len(m2)].role # "tool" BY <1>6, <1>8
  <2>2. \A k \in 1..Len(context) : RegularIn(messages, context[k]) => Before(m2, context[k], Len(m2))
    BY <1>8, <1>9, <2>1, NewestLast
  <2> QED BY <1>8, <2>2, AppendOrdered
<1>13. ResultsFollow(m2, context')
  <2>1. \A k \in 1..Len(context) : ToolIn(messages, context[k]) => messages[context[k]].call \in Nat \ {0}
    BY <1>8, PositiveCalls
  <2> QED BY <1>8, <1>11, <2>1, AppendResults
<1>14. RoundEnd(m2, context', l, 0)
  <2>1. CallsFollowed(messages, context) BY <1>1, <1>4 DEF ContextInv, PairInv
  <2> QED BY <1>8, <2>1, RoundStart
<1>15. StepIn(m2) = l
  <2>1. Len(m2) \in Nat /\ l \in 1..Len(m2) /\ m2[l].role = "assistant" BY <1>6, <1>8, <1>10
  <2>2. \A j \in 1..Len(m2) : ~(j > l) BY <1>8, <1>10
  <2> QED BY <2>1, <2>2, StepIs
<1>16. Step' = l BY <1>15, StepNext DEF m2
<1>17. Calls(Step)' = n
  <2>1. Calls(Step)' = CallsIn(m2, Step') BY DEF Calls, CallsIn, m2
  <2>2. CallsIn(m2, l) = n BY <1>6, <1>8, <1>10 DEF CallsIn
  <2> QED BY <1>16, <2>1, <2>2
<1>18. Latest' = Latest BY <1>3 DEF Latest
<1>19. RoundInv'
  <2>1. MaxCalls \in Nat BY BoundAssumption
  <2>2. 0 \in 0..Calls(Step)' BY <1>17, <2>1
  <2>3. Step' > 0 /\ m2[Step'].run = Latest' BY <1>6, <1>8, <1>10, <1>16, <1>18
  <2>4. RoundEnd(m2, context', Step', 0) BY <1>14, <1>16
  <2> QED BY <2>2, <2>3, <2>4 DEF RoundInv, m2
<1>20. OrderInv' BY <1>12 DEF OrderInv, m2
<1>21. PairInv' BY <1>3, <1>13 DEF PairInv, InRound, m2
<1>22. row.role \notin {"input", "summary"} /\ "replied" # "fold" BY <1>6
<1> QED BY <1>4, <1>6, <1>7, <1>19, <1>20, <1>21, <1>22, AddStep
\* The next result of the step under way.
LEMMA ToolStep ==
  ASSUME IInv, exec = "tools", NextCall <= Calls(Step), NEW next \in {"tools", "pause"},
         AddRow(ToolRow(Step, NextCall), next)
  PROVE  IInv'
<1>1. TypeOK /\ RowsInv /\ StatusInv /\ ContextInv BY InvParts
<1>2. Working /\ InRound /\ exec # "fold" BY DEF Working, InRound
<1>3. PICK n \in Nat :
        /\ n <= CallsIn(messages, Step) /\ CallsIn(messages, Step) \in Nat
        /\ Calls(Step) = CallsIn(messages, Step)
        /\ Step \in 1..Len(messages) /\ messages[Step].role = "assistant"
        /\ messages[Step].run = Latest
        /\ RoundEnd(messages, context, Step, n) /\ NextCall = n + 1
  BY <1>2, RoundUnderWay
<1>4. PICK a \in 1..Len(messages) : a = Step BY <1>3
<1> DEFINE row == ToolRow(a, n + 1)
           l == Len(messages) + 1
           m2 == messages'
<1>5. Len(messages) \in Nat /\ Ids = 1..Len(messages) /\ messages \in Seq(Message)
      /\ History(messages)
  BY <1>1, RowFacts
<1>6. AddRow(row, next) BY <1>3, <1>4
<1>7. /\ messages' = Append(messages, row) /\ context' = Append(context, l) /\ exec' = next
      /\ UNCHANGED <<summarized, parent>>
  BY <1>6 DEF AddRow, Elsewhere
<1>8. /\ Len(messages) = a + n /\ Len(context) > n
      /\ \A c \in 0..n : context[Len(context) - n + c] = a + c
      /\ \A c \in 1..n : ResultOf(messages, a + c, a, c)
      /\ messages[a].role = "assistant" /\ messages[a].run = Latest
      /\ n + 1 <= CallsIn(messages, a)
  BY <1>3, <1>4 DEF RoundEnd
<1>9. /\ Fits(messages, row) /\ row.run = messages[a].run
      /\ row.role = "tool" /\ row.step = a /\ row.call = n + 1 /\ row.calls = 0
  <2>1. PICK c \in Nat : c = n + 1 /\ c > 0 OBVIOUS
  <2>2. c <= CallsIn(messages, a) /\ a \in Ids BY <1>5, <1>8, <2>1
  <2>3. \A d \in 1..c - 1 : \E j \in 1..Len(messages) : ResultOf(messages, j, a, d)
    <3>1. ASSUME NEW d \in 1..c - 1 PROVE \E j \in 1..Len(messages) : ResultOf(messages, j, a, d)
      <4>1. d \in 1..n /\ a + d \in 1..Len(messages) BY <1>8, <2>1
      <4> QED BY <1>8, <4>1
    <3> QED BY <3>1
  <2>4. ASSUME NEW t \in 1..Len(messages), ToolIn(messages, t), messages[t].step = a
        PROVE  messages[t].call < c
    <3>1. t > a
      <4>1. t # 0 /\ messages[t].step < t BY <1>5, <2>4 DEF History, ToolRowAfter
      <4> QED BY <2>4, <4>1
    <3>2. PICK d \in 1..n : t = a + d
      <4>1. t - a \in 1..n /\ t = a + (t - a) BY <1>8, <3>1
      <4> QED BY <4>1
    <3>3. messages[t].call = d BY <1>8, <3>2 DEF ResultOf
    <3> QED BY <2>1, <3>3
  <2>5. /\ Fits(messages, ToolRow(a, c)) /\ ToolRow(a, c).run = messages[a].run
        /\ ToolRow(a, c).role = "tool" /\ ToolRow(a, c).step = a /\ ToolRow(a, c).call = c
        /\ ToolRow(a, c).calls = 0
    BY <1>1, <2>1, <2>2, <2>3, <2>4, ToolFits
  <2> QED BY <2>1, <2>5
<1> HIDE DEF row
<1>10. /\ Appends(messages, m2, context, l, context') /\ Extends(messages, m2)
       /\ Len(m2) = l /\ m2[l] = row
       /\ context \in Seq(0..Len(messages))
       /\ Ordered(messages, context) /\ ResultsFollow(messages, context)
  BY <1>2, <1>7, <1>8, <1>9, AddFacts
<1>11. l = Len(messages) + 1 /\ l \in Nat \ {0} BY <1>5
<1> HIDE DEF l, m2
<1>12. ToolIn(m2, l) /\ CallsIn(m2, l) = 0 /\ ResultOf(m2, l, a, n + 1)
  BY <1>9, <1>10, <1>11 DEF ToolIn, CallsIn, ResultOf
<1>13. PICK p \in 1..Len(context) : p = Len(context) - n /\ Len(context) \in Nat
  <2>1. Len(context) \in Nat BY <1>10
  <2>2. Len(context) - n \in 1..Len(context) BY <1>8, <2>1
  <2> QED BY <2>1, <2>2
<1>14. context[p] = a
  <2>1. 0 \in 0..n /\ p + 0 = p /\ a + 0 = a OBVIOUS
  <2> QED BY <1>8, <1>13, <2>1
<1>15. Ordered(m2, context')
  <2>1. ASSUME NEW k \in 1..Len(context), RegularIn(messages, context[k])
        PROVE  Before(m2, context[k], l)
    <3>1. PICK i \in 1..Len(messages) : i = context[k]
      <4>1. context[k] \in 0..Len(messages) BY <1>10, ElementOf
      <4>2. context[k] # 0 BY <2>1 DEF RegularIn
      <4> QED BY <1>5, <4>1, <4>2
    <3>2. Key(m2, l) = a /\ Key(messages, a) = a BY <1>8, <1>9, <1>10 DEF Key
    <3>3. Key(m2, i) = Key(messages, i) /\ Key(messages, i) \in Nat /\ i < l
      BY <1>5, <1>10, <1>11, KeyKept, KeyTypes
    <3>4. Key(messages, i) <= a
      <4>1. CASE k < p
        <5>1. RegularIn(messages, a) BY <1>5, <1>8 DEF RegularIn, SummaryIn
        <5>2. Before(messages, i, a) BY <1>10, <1>14, <2>1, <3>1, <4>1, <5>1 DEF Ordered
        <5> QED BY <3>2, <3>3, <5>2 DEF Before
      <4>2. CASE ~(k < p)
        <5>1. PICK c \in 0..n : k = p + c
          <6>1. k - p \in 0..n /\ k = p + (k - p) BY <1>13, <4>2
          <6> QED BY <6>1
        <5>2. i = a + c BY <1>8, <1>13, <3>1, <5>1
        <5>3. CASE c = 0 BY <3>2, <5>2, <5>3
        <5>4. CASE c # 0
          <6>1. ResultOf(messages, i, a, c) BY <1>8, <5>2, <5>4
          <6>2. Key(messages, i) = a BY <6>1 DEF Key, ResultOf, ToolIn
          <6> QED BY <6>2
        <5> QED BY <5>3, <5>4
      <4> QED BY <4>1, <4>2
    <3> QED BY <3>1, <3>2, <3>3, <3>4 DEF Before
  <2> QED BY <1>10, <2>1, AppendOrdered
<1>16. ResultsFollow(m2, context')
  <2>1. \A k \in 1..Len(context) : ToolIn(messages, context[k]) => messages[context[k]].call \in Nat \ {0}
    BY <1>5, <1>10, PositiveCalls
  <2>2. \E c \in 1..Len(context) : m2[l].call = c /\ context[Len(context) + 1 - c] = m2[l].step
    <3>1. n + 1 \in 1..Len(context) BY <1>8, <1>13
    <3>2. Len(context) + 1 - (n + 1) = p BY <1>13
    <3> QED BY <1>9, <1>10, <1>14, <3>1, <3>2
  <2> QED BY <1>10, <2>1, <2>2, AppendResults
<1>17. RoundEnd(m2, context', a, n + 1)
  <2>1. RoundEnd(messages, context, a, n) BY <1>3, <1>4
  <2>2. l = Len(messages) + 1 /\ l = Len(m2) BY <1>10, <1>11
  <2> QED BY <1>10, <1>12, <2>1, <2>2, RoundNext
<1>18. a \in 1..Len(m2) /\ m2[a] = messages[a] BY <1>5, <1>10, <1>11 DEF Extends
<1>19. StepIn(m2) = a
  <2>1. ASSUME NEW j \in 1..Len(m2), j > a PROVE m2[j].role # "assistant"
    <3>1. CASE j = l BY <1>9, <1>10, <3>1
    <3>2. CASE j # l
      <4>1. PICK d \in 1..n : j = a + d
        <5>1. j - a \in 1..n /\ j = a + (j - a) BY <1>8, <1>10, <1>11, <2>1, <3>2
        <5> QED BY <5>1
      <4>2. j \in 1..Len(messages)
        <5>1. d \in Nat /\ d <= n /\ a \in Nat BY <1>5
        <5> QED BY <1>8, <2>1, <4>1, <5>1
      <4>3. m2[j] = messages[j] BY <1>10, <4>2 DEF Extends
      <4>4. messages[j].role = "tool" BY <1>8, <4>1 DEF ResultOf, ToolIn
      <4> QED BY <4>3, <4>4
    <3> QED BY <3>1, <3>2
  <2>2. Len(m2) \in Nat BY <1>10, <1>11
  <2> QED BY <1>8, <1>18, <2>1, <2>2, StepIs
<1>20. Step' = a BY <1>19, StepNext DEF m2
<1>21. Calls(Step)' = CallsIn(messages, a)
  <2>1. Calls(Step)' = CallsIn(m2, Step') BY DEF Calls, CallsIn, m2
  <2>2. CallsIn(m2, a) = CallsIn(messages, a) BY <1>18 DEF CallsIn
  <2> QED BY <1>20, <2>1, <2>2
<1>22. Latest' = Latest BY <1>7 DEF Latest
<1>23. RoundInv'
  <2>1. n + 1 \in 0..Calls(Step)' BY <1>3, <1>4, <1>8, <1>21
  <2>2. Step' > 0 /\ m2[Step'].run = Latest' BY <1>8, <1>18, <1>20, <1>22
  <2>3. RoundEnd(m2, context', Step', n + 1) BY <1>17, <1>20
  <2>4. exec' # "replied" BY <1>7
  <2> QED BY <2>1, <2>2, <2>3, <2>4 DEF RoundInv, m2
<1>24. OrderInv' BY <1>15 DEF OrderInv, m2
<1>25. Working' /\ InRound' BY <1>7 DEF Working, InRound
<1>26. PairInv' BY <1>16, <1>25 DEF PairInv, m2
<1>27. row.role \notin {"input", "summary"} /\ next # "fold" /\ row.run = Latest BY <1>8, <1>9
<1> QED BY <1>2, <1>6, <1>9, <1>23, <1>24, <1>25, <1>26, <1>27, AddStep

LEMMA ResultStep == ASSUME IInv, ToolResult \/ AskUser PROVE IInv'
<1>1. exec = "tools" /\ NextCall <= Calls(Step) BY DEF ToolResult, AskUser
<1>2. PICK next \in {"tools", "pause"} : AddRow(ToolRow(Step, NextCall), next)
  BY DEF ToolResult, AskUser
<1> QED BY <1>1, <1>2, ToolStep
-----------------------------------------------------------------------------
(* Compaction.                                                              *)

LEMMA ContextTidy ==
  ASSUME IInv, Working, CallsFollowed(messages, context)
  PROVE  Tidy(context)
<1>1. TypeOK /\ RowsInv /\ OwnInv /\ ContextInv BY InvParts
<1>2. messages \in Seq(Message) /\ History(messages) /\ context \in Seq(0..Len(messages))
  BY <1>1, RowFacts DEF TypeOK
<1>3. Paired(messages, context) BY <1>1 DEF ContextInv, PairInv, Paired
<1>4. Ordered(messages, context) /\ SystemFront(messages, context, fresh)
  BY <1>1 DEF ContextInv, OrderInv, FrontInv
<1> QED BY <1>1, <1>2, <1>3, <1>4 DEF Tidy, OwnInv

LEMMA InStepTidy ==
  ASSUME IInv, InStep
  PROVE  /\ Working /\ ~InRound /\ exec # "fold" /\ Tidy(context) /\ folding = {}
         /\ CallsFollowed(messages, context)
<1>1. Working /\ ~InRound /\ exec # "fold" BY DEF InStep, Working, InRound
<1>2. FoldInv /\ ContextInv BY InvParts
<1>3. CallsFollowed(messages, context) BY <1>1, <1>2 DEF ContextInv, PairInv
<1> QED BY <1>1, <1>2, <1>3, ContextTidy DEF FoldInv

\* The row of a summary.
LEMMA SummaryFits ==
  ASSUME TypeOK, Latest > 0, NEW s \in Seq(Ids)
  PROVE  /\ Fits(messages, SummaryRow(s)) /\ SummaryRow(s).run = Latest
         /\ SummaryRow(s).role = "summary" /\ SummaryRow(s).covers = s
         /\ SummaryRow(s).calls = 0
<1> DEFINE row == SummaryRow(s)
<1>1. Latest \in 1..MaxRuns BY BoundAssumption DEF TypeOK, Latest
<1>2. 0 \in 0..MaxCalls /\ 0 \in 0..MaxMessages BY BoundAssumption
<1>3. Len(messages) \in Nat /\ Len(messages) <= MaxMessages BY DEF TypeOK
<1>4. Ids \subseteq 1..MaxMessages BY <1>3, BoundAssumption DEF Ids
<1>5. s \in Seq(1..MaxMessages)
  <2> DEFINE A == Ids
             B == 1..MaxMessages
  <2>1. A \subseteq B /\ s \in Seq(A) BY <1>4
  <2> HIDE DEF A, B
  <2>2. s \in Seq(B) BY <2>1, SeqWiden
  <2> QED BY <2>2 DEF B
<1>6. row \in Message BY <1>1, <1>2, <1>5 DEF SummaryRow, Row, Message, Role
<1>7. /\ row.run = Latest /\ row.role = "summary" /\ row.covers = s /\ row.calls = 0
  BY DEF SummaryRow, Row
<1> HIDE DEF row
<1>8. \A k \in 1..Len(row.covers) : row.covers[k] <= Len(messages)
  <2>1. \A k \in 1..Len(s) : s[k] \in Ids BY ElementOf
  <2> QED BY <1>3, <1>7, <2>1 DEF Ids
<1>9. Fits(messages, row) BY <1>6, <1>7, <1>8 DEF Fits
<1> QED BY <1>7, <1>9 DEF row

LEMMA SummarizeOldStep == ASSUME IInv, SummarizeOld PROVE IInv'
<1>1. TypeOK /\ RowsInv /\ StatusInv /\ OwnInv /\ ContextInv BY InvParts
<1>2. /\ Working /\ ~InRound /\ exec # "fold" /\ Tidy(context) /\ folding = {}
  BY InStepTidy DEF SummarizeOld
<1> DEFINE l == Len(messages) + 1
           m2 == messages'
           old == Candidate(context)
           row == SummaryRow(Saved(old))
           F == SummarizedIds(context)
<1>3. /\ HasRoom /\ messages' = Append(messages, row) /\ context' = Folded(context, l)
      /\ fresh' = fresh \cup {l}
      /\ dropped' = dropped \cup (ToSet(old) \cap ({unsaved} \ {0}))
      /\ folding' = F /\ exec' = "fold"
      /\ UNCHANGED <<summarized, status, missing, unsaved, parent, resume, stopping, branches, stops>>
  BY DEF SummarizeOld, MaySummarize, Elsewhere, Folded
<1>4. /\ messages \in Seq(Message) /\ Len(messages) \in Nat /\ Ids = 1..Len(messages)
      /\ History(messages) /\ Latest \in Nat
  BY <1>1, RowFacts
<1>5. unsaved # 0 => messages[unsaved].role = "input" BY <1>1 DEF OwnInv
<1>6. /\ F \in SUBSET Ids /\ Whole(messages, F)
      /\ \A i : i \in F <=> InCandidate(context, i) /\ i \in Ids /\ i # unsaved
      /\ \A i \in F : SummaryIn(messages, i) => i \in fresh
      /\ Saved(old) \in Seq(Ids)
      /\ \A i \in F : Has(Saved(old), i)
  BY <1>2, <1>5, FoldingFacts
<1>7. /\ old \in Seq(0..Len(messages)) /\ \A i : Has(old, i) <=> InCandidate(context, i)
  BY <1>2, CandidateFacts
<1>8. Latest > 0 /\ HasMessages(Latest) BY <1>1, <1>2 DEF StatusInv, Working
<1>9. Fits(messages, row) /\ row.run = Latest /\ row.role = "summary" /\ row.covers = Saved(old)
  BY <1>1, <1>6, <1>8, SummaryFits
<1> HIDE DEF row
<1>10. /\ Extends(messages, m2) /\ Len(m2) = l /\ m2[l] = row /\ Ids' = Ids \cup {l} /\ RowsInv'
       /\ l = Len(messages) + 1 /\ l \in Nat \ {0}
  <2>1. row.run <= Latest /\ row.role # "input" BY <1>4, <1>9
  <2> QED BY <1>1, <1>3, <1>4, <1>8, <1>9, <2>1, RowsAppended
<1>11. Latest' = Latest /\ Chain(Latest)' = Chain(Latest) BY <1>3, ChainSame
<1>12. ToSet(old) = {i \in 0..Len(messages) : InCandidate(context, i)}
  <2>1. \A k \in 1..Len(old) : old[k] \in 0..Len(messages) BY <1>7, ElementOf
  <2>2. ToSet(old) = {old[k] : k \in 1..Len(old)} BY <1>7 DEF ToSet
  <2>3. \A i : i \in ToSet(old) <=> Has(old, i) BY <2>2 DEF Has
  <2> QED BY <1>7, <2>1, <2>3 DEF Has
<1> HIDE DEF l, m2, old, F
<1>13. History(m2) BY <1>10 DEF RowsInv, MessageInv, m2
<1>14. SummaryIn(m2, l) BY <1>9, <1>10 DEF SummaryIn
<1>15. /\ context' \in Seq(0..Len(m2))
       /\ Paired(m2, context') /\ Ordered(m2, context')
       /\ SystemFront(m2, context', fresh')
       /\ \A i : RegularIn(messages, i) /\ i \in Ids =>
            (Has(context', i) <=> Has(context, i) /\ ~InCandidate(context, i))
  <2>1. l = Len(m2) BY <1>10
  <2>2. /\ Folded(context, l) \in Seq(0..Len(m2))
        /\ Paired(m2, Folded(context, l)) /\ Ordered(m2, Folded(context, l))
        /\ SystemFront(m2, Folded(context, l), fresh \cup {l})
        /\ \A i : RegularIn(messages, i) /\ i \in Ids =>
             (Has(Folded(context, l), i) <=> Has(context, i) /\ ~InCandidate(context, i))
    BY <1>2, <1>10, <1>13, <1>14, <2>1, FoldedFacts
  <2> QED BY <1>3, <2>2
<1>16. Working' /\ ~InRound' BY <1>3 DEF Working, InRound
<1>17. SetInv'
  <2>1. SUFFICES ASSUME NEW i \in Ids', ~SummaryIn(m2, i)
        PROVE  Has(context', i) <=> Visible(i)' /\ i \notin folding' /\ i \notin dropped'
    BY DEF SetInv, m2
  <2>2. i \in Ids /\ i \in 1..Len(messages) /\ i \in 0..Len(messages) /\ i # 0
    BY <1>4, <1>10, <1>14, <2>1
  <2>3. SummaryIn(m2, i) = SummaryIn(messages, i) /\ m2[i] = messages[i]
    BY <1>10, <2>2, SameRows DEF Extends
  <2>4. Visible(i)' <=> Visible(i) BY <1>3, <1>11, <2>3 DEF Visible, m2
  <2>5. Has(context, i) <=> Visible(i) /\ i \notin dropped
    BY <1>1, <1>2, <2>1, <2>2, <2>3 DEF ContextInv, SetInv
  <2>6. RegularIn(messages, i) BY <2>1, <2>2, <2>3 DEF RegularIn
  <2>7. Has(context', i) <=> Has(context, i) /\ ~InCandidate(context, i) BY <1>15, <2>2, <2>6
  <2>8. i \in folding' <=> InCandidate(context, i) /\ i # unsaved BY <1>3, <1>6, <2>2
  <2>9. i \in dropped' <=> i \in dropped \/ (InCandidate(context, i) /\ i = unsaved)
    BY <1>3, <1>12, <2>2
  <2> QED BY <2>4, <2>5, <2>7, <2>8, <2>9
<1>18. OrderInv' BY <1>15 DEF OrderInv, m2
<1>19. PairInv' BY <1>15 DEF PairInv, Paired, m2
<1>20. RoundInv' BY <1>16 DEF RoundInv
<1>21. FrontInv' BY <1>15 DEF FrontInv, m2
<1>22. ContextInv' BY <1>17, <1>18, <1>19, <1>20, <1>21 DEF ContextInv
<1>23. ASSUME NEW i \in fresh' PROVE SummaryIn(m2, i) /\ m2[i].run = Latest
  <2>1. CASE i = l BY <1>9, <1>10, <1>14, <2>1
  <2>2. CASE i # l
    <3>1. i \in fresh BY <1>3, <2>2
    <3>2. i \in 1..Len(messages) /\ i \in 0..Len(messages) BY <1>1, <1>4, <3>1 DEF TypeOK
    <3>3. SummaryIn(m2, i) = SummaryIn(messages, i) BY <1>10, <3>2, SameRows
    <3>4. m2[i] = messages[i] BY <1>10, <3>2 DEF Extends
    <3> QED BY <1>1, <3>1, <3>3, <3>4 DEF OwnInv
  <2> QED BY <2>1, <2>2
<1>24. FoldInv'
  <2>1. Whole(m2, F) BY <1>4, <1>6, <1>10, WholeKept
  <2>2. \A i \in F : Covers(m2, l, i)
    <3>1. m2[l].covers = Saved(old) BY <1>9, <1>10
    <3> QED BY <1>6, <3>1 DEF Covers, Has
  <2>3. l \in Ids' /\ m2[l].run = Latest' BY <1>9, <1>10, <1>11
  <2>4. ASSUME NEW i \in F, SummaryIn(m2, i) PROVE m2[i].run = Latest'
    <3>1. i \in 1..Len(messages) /\ i \in 0..Len(messages) BY <1>4, <1>6
    <3>2. SummaryIn(messages, i) BY <1>10, <2>4, <3>1, SameRows
    <3>3. i \in fresh' BY <1>3, <1>6, <3>2
    <3> QED BY <1>11, <1>23, <3>3
  <2>5. /\ exec' = "fold" /\ folding' = F BY <1>3
  <2> QED BY <2>1, <2>2, <2>3, <2>4, <2>5 DEF FoldInv, m2
<1>25. fresh' \subseteq Ids' /\ dropped' \subseteq Ids' /\ folding' \subseteq Ids'
  <2>1. fresh \subseteq Ids /\ dropped \subseteq Ids /\ unsaved \in 0..Len(messages)
    BY <1>1 DEF TypeOK
  <2>2. {unsaved} \ {0} \subseteq Ids BY <1>4, <2>1
  <2> QED BY <1>3, <1>6, <1>10, <2>1, <2>2
<1>26. \A i \in fresh' : SummaryIn(messages', i) /\ messages'[i].run = Latest BY <1>23 DEF m2
<1>27. context' \in Seq(0..Len(messages')) BY <1>15 DEF m2
<1>28. row.role # "input" BY <1>9
<1> QED BY <1>2, <1>3, <1>9, <1>16, <1>22, <1>24, <1>25, <1>26, <1>27, <1>28, WorkStep
LEMMA MarkSummarizedStep == ASSUME IInv, MarkSummarized PROVE IInv'
<1>1. TypeOK /\ RowsInv /\ StatusInv /\ FoldInv /\ MissingInv /\ OwnInv /\ ContextInv BY InvParts
<1>2. /\ exec = "fold" /\ summarized' = summarized \cup folding /\ folding' = {}
      /\ exec' = "compact"
      /\ UNCHANGED <<messages, status, missing, context, unsaved, fresh, dropped,
                     parent, resume, stopping, branches, stops>>
  BY DEF MarkSummarized, Elsewhere
<1>3. Ids' = Ids BY <1>2 DEF Ids
<1>4. Latest' = Latest /\ Chain(Latest)' = Chain(Latest) BY <1>2, ChainSame
<1>5. Working /\ Working' /\ ~InRound /\ ~InRound' BY <1>2 DEF Working, InRound
<1>6. folding \subseteq Ids /\ summarized \subseteq Ids BY <1>1 DEF TypeOK
<1>7. TypeOK' BY <1>1, <1>2, <1>3, <1>6 DEF TypeOK, ExecState
<1>8. MarkInv'
  <2>1. Whole(messages, summarized \cup folding)
    <3>1. Whole(messages, summarized) /\ Whole(messages, folding)
      BY <1>1 DEF RowsInv, MarkInv, FoldInv
    <3>2. ASSUME NEW i \in summarized \cup folding
          PROVE  /\ ToolIn(messages, i) => messages[i].step \in summarized \cup folding
                 /\ \A c \in 1..CallsIn(messages, i) :
                      \E t \in summarized \cup folding : ResultOf(messages, t, i, c)
      BY <3>1 DEF Whole
    <3> QED BY <3>2 DEF Whole
  <2>2. ASSUME NEW i \in summarized \cup folding PROVE Marked(messages, i)
    <3>1. CASE i \in summarized BY <1>1, <3>1 DEF RowsInv, MarkInv
    <3>2. CASE i \in folding
      <4>1. PICK s \in Ids : messages[s].run = Latest /\ Covers(messages, s, i)
        BY <1>1, <3>2 DEF FoldInv
      <4>2. SummaryIn(messages, i) => messages[i].run = Latest BY <1>1, <3>2 DEF FoldInv
      <4> QED BY <4>1, <4>2 DEF Marked, Ids
    <3> QED BY <3>1, <3>2
  <2> QED BY <1>2, <2>1, <2>2 DEF MarkInv
<1>9. RowsInv'
  <2>1. InputInv' = InputInv BY <1>2, <1>3, <1>4 DEF InputInv, HasMessages
  <2>2. MessageInv' = MessageInv BY <1>2 DEF MessageInv
  <2> QED BY <1>1, <1>2, <1>3, <1>4, <1>8, <2>1, <2>2 DEF RowsInv
<1>10. StatusInv'
  <2>1. HasMessages(Latest)' = HasMessages(Latest) BY <1>2, <1>3, <1>4 DEF HasMessages
  <2> QED BY <1>1, <1>2, <1>4, <1>5, <2>1 DEF StatusInv
<1>11. FoldInv'
  <2>1. Whole(messages, {}) BY DEF Whole
  <2> QED BY <1>2, <2>1 DEF FoldInv
<1>12. MissingInv'
  <2>1. missing = <<>> BY <1>1, <1>2 DEF MissingInv
  <2>2. NextCalls(messages', <<>>, summarized') BY NothingToCall
  <2> QED BY <1>2, <2>1, <2>2 DEF MissingInv
<1>13. OwnInv' BY <1>1, <1>2, <1>4 DEF OwnInv
<1>14. SetInv'
  <2>1. ASSUME NEW i \in Ids, ~SummaryIn(messages, i)
        PROVE  Has(context, i) <=> Visible(i)' /\ i \notin dropped
    <3>1. Has(context, i) <=> Visible(i) /\ i \notin folding /\ i \notin dropped
      BY <1>1, <1>5, <2>1 DEF ContextInv, SetInv
    <3>2. Visible(i)' <=> Visible(i) /\ i \notin folding BY <1>2, <1>4 DEF Visible
    <3> QED BY <3>1, <3>2
  <2> QED BY <1>2, <1>3, <2>1 DEF SetInv
<1>15. OrderInv' BY <1>1, <1>2, <1>5 DEF ContextInv, OrderInv
<1>16. PairInv' BY <1>1, <1>2, <1>5 DEF ContextInv, PairInv
<1>17. RoundInv' BY <1>5 DEF RoundInv
<1>18. FrontInv' BY <1>1, <1>2, <1>5 DEF ContextInv, FrontInv
<1>19. ContextInv' BY <1>14, <1>15, <1>16, <1>17, <1>18 DEF ContextInv
<1> QED BY <1>7, <1>9, <1>10, <1>11, <1>12, <1>13, <1>19, InvPartsNext

\* The context changes, and no row does.
LEMMA ReworkStep ==
  ASSUME IInv, Working, exec # "fold", Working', exec' # "fold", exec' \in ExecState,
         UNCHANGED <<messages, summarized, parent, status, resume, missing, unsaved, fresh,
                     folding, stopping, branches, stops>>,
         context' \in Seq(0..Len(messages)), dropped' \subseteq Ids, ContextInv'
  PROVE  IInv'
<1>1. TypeOK /\ RowsInv /\ StatusInv /\ FoldInv /\ MissingInv /\ OwnInv BY InvParts
<1>2. Ids' = Ids /\ Latest' = Latest BY DEF Ids, Latest
<1>3. exec' \notin {"none", "start", "repair", "mend"} /\ exec \notin {"none", "repair", "mend"}
  BY DEF Working
<1>4. TypeOK' BY <1>1, <1>2 DEF TypeOK
<1>5. RowsInv' BY <1>1, RowsKept
<1>6. StatusInv'
  <2>1. HasMessages(Latest)' = HasMessages(Latest) BY <1>2 DEF HasMessages
  <2> QED BY <1>1, <1>2, <1>3, <2>1 DEF StatusInv
<1>7. FoldInv' BY <1>1, <1>2 DEF FoldInv
<1>8. MissingInv'
  <2>1. missing = <<>> BY <1>1, <1>3 DEF MissingInv
  <2>2. NextCalls(messages', <<>>, summarized') BY NothingToCall
  <2> QED BY <1>3, <2>1, <2>2 DEF MissingInv
<1>9. OwnInv' BY <1>1, <1>2, <1>3 DEF OwnInv
<1> QED BY <1>4, <1>5, <1>6, <1>7, <1>8, <1>9, InvPartsNext

LEMMA TrimWindowStep == ASSUME IInv, TrimWindow PROVE IInv'
<1>1. TypeOK /\ RowsInv /\ ContextInv BY InvParts
<1>2. Working /\ ~InRound /\ exec # "fold" /\ Tidy(context) /\ folding = {}
  BY InStepTidy DEF TrimWindow
<1> DEFINE w == Window(context)
<1>3. /\ w # context /\ context' = w
      /\ dropped' = dropped \cup ((ToSet(context) \ ToSet(w)) \ {0})
      /\ exec' = "compact"
      /\ UNCHANGED <<messages, summarized, parent, status, missing, unsaved, fresh, folding,
                     resume, stopping, branches, stops>>
  BY DEF TrimWindow, Elsewhere, rowVars
<1>4. Ids = 1..Len(messages) /\ Len(messages) \in Nat BY <1>1, RowFacts
<1>5. /\ w \in Seq(0..Len(messages))
      /\ Paired(messages, w) /\ Ordered(messages, w) /\ SystemFront(messages, w, fresh)
      /\ \A i : Has(w, i) => Has(context, i)
  BY <1>2, <1>3, WindowFacts
<1> HIDE DEF w
<1>6. context \in Seq(0..Len(messages)) BY <1>1 DEF TypeOK
<1>7. /\ \A i : i \in ToSet(context) <=> Has(context, i)
      /\ \A i : i \in ToSet(w) <=> Has(w, i)
  <2>1. ToSet(context) = {context[k] : k \in 1..Len(context)} BY <1>6 DEF ToSet
  <2>2. ToSet(w) = {w[k] : k \in 1..Len(w)} BY <1>5 DEF ToSet
  <2> QED BY <2>1, <2>2 DEF Has
<1>8. dropped' \subseteq Ids
  <2>1. ASSUME NEW i, Has(context, i), i # 0 PROVE i \in Ids
    <3>1. PICK k \in 1..Len(context) : context[k] = i BY <2>1 DEF Has
    <3>2. i \in 0..Len(messages) BY <1>6, <3>1, ElementOf
    <3> QED BY <1>4, <2>1, <3>2
  <2>2. dropped \subseteq Ids BY <1>1 DEF TypeOK
  <2> QED BY <1>3, <1>7, <2>1, <2>2
<1>9. Working' /\ ~InRound' /\ exec' \in ExecState /\ exec' # "fold"
  BY <1>3 DEF Working, InRound, ExecState
<1>10. Ids' = Ids BY <1>3 DEF Ids
<1>11. Latest' = Latest /\ Chain(Latest)' = Chain(Latest) BY <1>3, ChainSame
<1>12. SetInv'
  <2>1. ASSUME NEW i \in Ids, ~SummaryIn(messages, i)
        PROVE  Has(w, i) <=> Visible(i)' /\ i \notin folding' /\ i \notin dropped'
    <3>1. Has(context, i) <=> Visible(i) /\ i \notin dropped
      BY <1>1, <1>2, <2>1 DEF ContextInv, SetInv
    <3>2. Visible(i)' <=> Visible(i) BY <1>3, <1>11 DEF Visible
    <3>3. i # 0 BY <1>4
    <3>4. i \in dropped' <=> i \in dropped \/ (Has(context, i) /\ ~Has(w, i))
      BY <1>3, <1>7, <3>3
    <3> QED BY <1>2, <1>3, <1>5, <3>1, <3>2, <3>4
  <2> QED BY <1>3, <1>10, <2>1 DEF SetInv
<1>13. OrderInv' BY <1>3, <1>5 DEF OrderInv
<1>14. PairInv' BY <1>3, <1>5 DEF PairInv, Paired
<1>15. RoundInv' BY <1>9 DEF RoundInv
<1>16. FrontInv' BY <1>3, <1>5 DEF FrontInv
<1>17. ContextInv' BY <1>12, <1>13, <1>14, <1>15, <1>16 DEF ContextInv
<1>18. context' \in Seq(0..Len(messages)) BY <1>3, <1>5
<1> QED BY <1>2, <1>3, <1>8, <1>9, <1>17, <1>18, ReworkStep

LEMMA NoActionStep == ASSUME IInv, NoAction PROVE IInv'
<1>1. TypeOK /\ RowsInv /\ FoldInv /\ ContextInv BY InvParts
<1>2. /\ exec = "replied" /\ Calls(Step) = 0
      /\ context' = Append(context, 0) /\ exec' = "top"
      /\ UNCHANGED <<messages, summarized, parent, status, missing, unsaved, fresh, folding,
                     dropped, resume, stopping, branches, stops>>
  BY DEF NoAction, Elsewhere, rowVars
<1>3. Working /\ exec # "fold" /\ Working' /\ ~InRound' /\ exec' \in ExecState /\ exec' # "fold"
  BY <1>2 DEF Working, InRound, ExecState
<1>4. CallsFollowed(messages, context) BY <1>2, RoundComplete DEF AllAnswered
<1>5. /\ messages \in Seq(Message) /\ History(messages) /\ Len(messages) \in Nat
      /\ Ids = 1..Len(messages) /\ context \in Seq(0..Len(messages))
  BY <1>1, RowFacts DEF TypeOK
<1>6. Extends(messages, messages) BY <1>5 DEF Extends
<1>7. Appends(messages, messages, context, 0, context')
  <2>1. 0 \in 0..Len(messages) BY <1>5
  <2> QED BY <1>2, <1>5, <1>6, <2>1 DEF Appends
<1>8. /\ context' \in Seq(0..Len(messages)) /\ \A i : Has(context', i) <=> Has(context, i) \/ i = 0
  BY <1>7, AppendsFacts
<1>9. ~RegularIn(messages, 0) /\ ~ToolIn(messages, 0) /\ ~SummaryIn(messages, 0)
      /\ CallsIn(messages, 0) = 0
  BY DEF RegularIn, ToolIn, SummaryIn, CallsIn
<1>10. /\ Ordered(messages, context) /\ ResultsFollow(messages, context)
       /\ SystemFront(messages, context, fresh)
  BY <1>1, <1>3 DEF ContextInv, OrderInv, PairInv, FrontInv
<1>11. Ordered(messages, context') BY <1>7, <1>9, <1>10, AppendOrdered
<1>12. ResultsFollow(messages, context')
  <2>1. \A k \in 1..Len(context) : ToolIn(messages, context[k]) => messages[context[k]].call \in Nat \ {0}
    BY <1>5, PositiveCalls
  <2> QED BY <1>7, <1>9, <1>10, <2>1, AppendResults
<1>13. CallsFollowed(messages, context') BY <1>4, <1>7, <1>9, AppendCalls
<1>14. SystemFront(messages, context', fresh) BY <1>7, <1>9, <1>10, AppendFront
<1>15. Ids' = Ids BY <1>2 DEF Ids
<1>16. Latest' = Latest /\ Chain(Latest)' = Chain(Latest) BY <1>2, ChainSame
<1>17. SetInv'
  <2>1. ASSUME NEW i \in Ids, ~SummaryIn(messages, i)
        PROVE  Has(context', i) <=> Visible(i)' /\ i \notin folding /\ i \notin dropped
    <3>1. Has(context, i) <=> Visible(i) /\ i \notin folding /\ i \notin dropped
      BY <1>1, <1>3, <2>1 DEF ContextInv, SetInv
    <3>2. Visible(i)' <=> Visible(i) BY <1>2, <1>16 DEF Visible
    <3>3. i # 0 BY <1>5
    <3> QED BY <1>8, <3>1, <3>2, <3>3
  <2> QED BY <1>2, <1>15, <2>1 DEF SetInv
<1>18. OrderInv' BY <1>2, <1>11 DEF OrderInv
<1>19. PairInv' BY <1>2, <1>12, <1>13 DEF PairInv
<1>20. RoundInv' BY <1>3 DEF RoundInv
<1>21. FrontInv' BY <1>2, <1>14 DEF FrontInv
<1>22. ContextInv' BY <1>17, <1>18, <1>19, <1>20, <1>21 DEF ContextInv
<1>23. dropped' \subseteq Ids BY <1>1, <1>2 DEF TypeOK
<1> QED BY <1>2, <1>3, <1>8, <1>22, <1>23, ReworkStep
\* The round to summarize consists of messages.
LEMMA LatestRoundFacts ==
  ASSUME NEW ids \in Seq(0..Len(messages)), Len(messages) \in Nat, Ids = 1..Len(messages),
         LatestRound(ids) # 0
  PROVE  SubSeq(ids, LatestRound(ids), Len(ids)) \in Seq(Ids)
<1> DEFINE I == {k \in 1..Len(ids) : ~IsTool(ids[k])}
           b == SelectLastInSeq(ids, LAMBDA i : ~IsTool(i))
<1>1. b = IF I # {} THEN Max(I) ELSE 0 BY DEF SelectLastInSeq
<1>2. I \subseteq 0..Len(ids) /\ Len(ids) \in Nat OBVIOUS
<1>3. I # {} => Max(I) \in I /\ \A k \in I : k <= Max(I)
  <2> HIDE DEF I
  <2> QED BY <1>2, MaxFacts
<1>4. b # 0 /\ LatestRound(ids) = b /\ Calls(ids[b]) > 0 BY DEF LatestRound
<1> HIDE DEF b
<1>5. b \in 1..Len(ids) /\ \A k \in 1..Len(ids) : k > b => IsTool(ids[k])
  <2>1. b \in I /\ \A k \in I : k <= b BY <1>1, <1>3, <1>4
  <2>2. b \in Nat BY <1>2, <2>1
  <2> QED BY <1>2, <2>1, <2>2
<1>6. \A k \in b..Len(ids) : k \in 1..Len(ids) /\ ids[k] \in Ids
  <2>1. ASSUME NEW k \in b..Len(ids) PROVE k \in 1..Len(ids) /\ ids[k] \in Ids
    <3>1. k \in 1..Len(ids) /\ (k = b \/ k > b) BY <1>2, <1>5
    <3>2. ids[k] \in 0..Len(messages) BY <3>1, ElementOf
    <3>3. ids[k] # 0 BY <1>4, <1>5, <3>1 DEF Calls, IsTool
    <3> QED BY <3>1, <3>2, <3>3
  <2> QED BY <2>1
<1>7. PICK f \in 0..Len(ids) : b = f + 1
  <2>1. b - 1 \in 0..Len(ids) /\ b = (b - 1) + 1 BY <1>2, <1>5
  <2> QED BY <2>1
<1> DEFINE r == SubSeq(ids, f + 1, Len(ids))
<1>8. /\ r \in Seq(0..Len(messages)) /\ Len(r) = Len(ids) - f
      /\ \A q \in 1..Len(ids) - f : r[q] = ids[f + q]
  <2>1. PICK e \in f..Len(ids) : e = Len(ids) BY <1>2
  <2>2. /\ SubSeq(ids, f + 1, e) \in Seq(0..Len(messages))
        /\ Len(SubSeq(ids, f + 1, e)) = e - f
        /\ \A q \in 1..e - f : SubSeq(ids, f + 1, e)[q] = ids[f + q]
    BY SubSeqFacts
  <2> QED BY <2>1, <2>2, Zenon
<1> HIDE DEF r
<1>9. \A q \in 1..Len(r) : r[q] \in Ids
  <2>1. ASSUME NEW q \in 1..Len(r) PROVE r[q] \in Ids
    <3>1. q \in 1..Len(ids) - f /\ f + q \in b..Len(ids) BY <1>2, <1>7, <1>8
    <3> QED BY <1>6, <1>8, <3>1
  <2> QED BY <2>1
<1>10. r \in Seq(Ids)
  <2> DEFINE S == Ids
             T == 0..Len(messages)
  <2>1. \A q \in 1..Len(r) : r[q] \in S BY <1>9
  <2>2. r \in Seq(T) BY <1>8
  <2> HIDE DEF S, T
  <2>3. r \in Seq(S) BY <2>1, <2>2
  <2> QED BY <2>3 DEF S
<1> QED BY <1>4, <1>7, <1>10 DEF r

LEMMA SummarizeRoundStep == ASSUME IInv, SummarizeRound PROVE IInv'
<1>1. TypeOK /\ RowsInv /\ StatusInv /\ OwnInv /\ ContextInv BY InvParts
<1>2. /\ Working /\ ~InRound /\ exec # "fold" /\ Tidy(context) /\ folding = {}
      /\ CallsFollowed(messages, context)
  BY InStepTidy DEF SummarizeRound
<1> DEFINE l == Len(messages) + 1
           m2 == messages'
           round == SubSeq(context, LatestRound(context), Len(context))
           row == SummaryRow(round)
<1>3. /\ HasRoom /\ messages' = Append(messages, row) /\ context' = Append(context, l)
      /\ fresh' = fresh \cup {l} /\ exec' = "compact" /\ LatestRound(context) # 0
      /\ UNCHANGED <<summarized, status, missing, unsaved, folding, dropped, parent, resume,
                     stopping, branches, stops>>
  BY DEF SummarizeRound, MaySummarize, Elsewhere
<1>4. /\ messages \in Seq(Message) /\ Len(messages) \in Nat /\ Ids = 1..Len(messages)
      /\ History(messages) /\ Latest \in Nat /\ context \in Seq(0..Len(messages))
  BY <1>1, RowFacts DEF TypeOK
<1>5. round \in Seq(Ids) BY <1>3, <1>4, LatestRoundFacts
<1>6. Latest > 0 BY <1>1, <1>2 DEF StatusInv, Working
<1> HIDE DEF round
<1>7. Fits(messages, row) /\ row.run = Latest /\ row.role = "summary" /\ row.calls = 0
  BY <1>1, <1>5, <1>6, SummaryFits
<1> HIDE DEF row
<1>8. row.role # "input" BY <1>7
<1>9. /\ Appends(messages, m2, context, l, context') /\ Extends(messages, m2)
      /\ Len(m2) = l /\ m2[l] = row
      /\ Ordered(messages, context) /\ ResultsFollow(messages, context)
  BY <1>2, <1>3, <1>7, <1>8, AddFacts
<1>10. l = Len(messages) + 1 /\ l \in Nat \ {0} BY <1>4
<1> HIDE DEF l, m2
<1>11. Ids' = Ids \cup {l} BY <1>4, <1>9, <1>10 DEF Ids, m2
<1>12. SummaryIn(m2, l) /\ ~RegularIn(m2, l) /\ ~ToolIn(m2, l) /\ CallsIn(m2, l) = 0
  BY <1>7, <1>9, <1>10 DEF SummaryIn, RegularIn, ToolIn, CallsIn
<1>13. /\ context' \in Seq(0..Len(m2)) /\ \A i : Has(context', i) <=> Has(context, i) \/ i = l
  BY <1>9, AppendsFacts
<1>14. Ordered(m2, context') BY <1>9, <1>12, AppendOrdered
<1>15. ResultsFollow(m2, context')
  <2>1. \A k \in 1..Len(context) : ToolIn(messages, context[k]) => messages[context[k]].call \in Nat \ {0}
    BY <1>4, PositiveCalls
  <2> QED BY <1>9, <1>12, <2>1, AppendResults
<1>16. CallsFollowed(m2, context') BY <1>2, <1>9, <1>12, AppendCalls
<1>17. SystemFront(m2, context', fresh')
  <2>1. SystemFront(messages, context, fresh) BY <1>1, <1>2 DEF ContextInv, FrontInv
  <2>2. \A i \in 0..Len(messages) : i \in fresh' <=> i \in fresh BY <1>3, <1>4, <1>10
  <2>3. l \in fresh' BY <1>3
  <2> QED BY <1>9, <2>1, <2>2, <2>3, AppendFront
<1>18. Working' /\ ~InRound' BY <1>3 DEF Working, InRound
<1>19. Latest' = Latest /\ Chain(Latest)' = Chain(Latest) BY <1>3, ChainSame
<1>20. SetInv'
  <2>1. SUFFICES ASSUME NEW i \in Ids', ~SummaryIn(m2, i)
        PROVE  Has(context', i) <=> Visible(i)' /\ i \notin folding' /\ i \notin dropped'
    BY DEF SetInv, m2
  <2>2. i \in Ids /\ i \in 1..Len(messages) /\ i \in 0..Len(messages) /\ i # l
    BY <1>4, <1>11, <1>12, <2>1
  <2>3. SummaryIn(m2, i) = SummaryIn(messages, i) /\ m2[i] = messages[i]
    BY <1>9, <2>2, SameRows DEF Extends
  <2>4. Visible(i)' <=> Visible(i) BY <1>3, <1>19, <2>3 DEF Visible, m2
  <2>5. Has(context, i) <=> Visible(i) /\ i \notin folding /\ i \notin dropped
    BY <1>1, <1>2, <2>1, <2>2, <2>3 DEF ContextInv, SetInv
  <2> QED BY <1>3, <1>13, <2>2, <2>4, <2>5
<1>21. OrderInv' BY <1>14 DEF OrderInv, m2
<1>22. PairInv' BY <1>15, <1>16 DEF PairInv, m2
<1>23. RoundInv' BY <1>18 DEF RoundInv
<1>24. FrontInv' BY <1>17 DEF FrontInv, m2
<1>25. ContextInv' BY <1>20, <1>21, <1>22, <1>23, <1>24 DEF ContextInv
<1>26. ASSUME NEW i \in fresh' PROVE SummaryIn(m2, i) /\ m2[i].run = Latest
  <2>1. CASE i = l BY <1>7, <1>9, <1>12, <2>1
  <2>2. CASE i # l
    <3>1. i \in fresh BY <1>3, <2>2
    <3>2. i \in 1..Len(messages) /\ i \in 0..Len(messages) BY <1>1, <1>4, <3>1 DEF TypeOK
    <3>3. SummaryIn(m2, i) = SummaryIn(messages, i) BY <1>9, <3>2, SameRows
    <3>4. m2[i] = messages[i] BY <1>9, <3>2 DEF Extends
    <3> QED BY <1>1, <3>1, <3>3, <3>4 DEF OwnInv
  <2> QED BY <2>1, <2>2
<1>27. FoldInv'
  <2>1. Whole(m2, {}) BY DEF Whole
  <2> QED BY <1>2, <1>3, <2>1 DEF FoldInv, m2
<1>28. fresh' \subseteq Ids' /\ dropped' \subseteq Ids' /\ folding' \subseteq Ids'
  BY <1>1, <1>3, <1>11 DEF TypeOK
<1>29. \A i \in fresh' : SummaryIn(messages', i) /\ messages'[i].run = Latest BY <1>26 DEF m2
<1>30. context' \in Seq(0..Len(messages')) BY <1>13 DEF m2
<1> QED BY <1>2, <1>3, <1>7, <1>8, <1>18, <1>25, <1>27, <1>28, <1>29, <1>30, WorkStep
-----------------------------------------------------------------------------
(* The context is built.                                                    *)

LEMMA ViewReady ==
  ASSUME IInv, exec = "repair", missing = <<>>
  PROVE  /\ View(Latest) \in Seq(Ids)
         /\ \A i : Has(View(Latest), i) <=> i \in Ids /\ Visible(i)
         /\ Ordered(messages, View(Latest))
         /\ ResultsFollow(messages, View(Latest))
         /\ CallsFollowed(messages, View(Latest))
         /\ SystemFront(messages, View(Latest), {})
<1>1. TypeOK /\ RowsInv /\ MissingInv BY InvParts
<1>2. /\ messages \in Seq(Message) /\ History(messages)
      /\ summarized \in SUBSET Ids /\ Whole(messages, summarized)
  BY <1>1, RowFacts
<1>3. \A i : i \in Sees(Latest) <=> i \in Ids /\ Visible(i) BY DEF Sees, Visible
<1>4. \A x : ~Has(missing, x)
  <2>1. 1..Len(missing) = {} OBVIOUS
  <2> QED BY <2>1 DEF Has
<1>5. NothingMissing(Latest)
  <2>1. ASSUME NEW i \in Sees(Latest), NEW c \in 1..CallsIn(messages, i)
        PROVE  \E t \in Ids : ResultOf(messages, t, i, c)
    <3>1. i \in Ids /\ Visible(i) BY <1>3
    <3> QED BY <1>1, <1>4, <3>1 DEF MissingInv
  <2> QED BY <2>1 DEF NothingMissing
<1>6. /\ View(Latest) \in Seq(Ids)
      /\ \A i : Has(View(Latest), i) <=> i \in Sees(Latest)
      /\ Ordered(messages, View(Latest))
      /\ ResultsFollow(messages, View(Latest))
      /\ NothingMissing(Latest) => CallsFollowed(messages, View(Latest))
      /\ SystemFront(messages, View(Latest), {})
  BY <1>2, ViewFacts
<1> QED BY <1>3, <1>5, <1>6

\* A run that has messages loads them; nothing is written.
LEMMA LoadContextStep ==
  ASSUME IInv, BuildContext, HasMessages(Latest)
  PROVE  IInv'
<1>1. TypeOK /\ RowsInv /\ StatusInv /\ FoldInv /\ MissingInv /\ OwnInv BY InvParts
<1> DEFINE v == View(Latest)
<1>2. /\ exec = "repair" /\ missing = <<>> /\ exec' = "top" /\ context' = v
      /\ UNCHANGED <<messages, summarized, parent, status, missing, unsaved, fresh, folding,
                     dropped, resume, stopping, branches, stops>>
  BY DEF BuildContext, AppendsInput, Elsewhere
<1>3. /\ v \in Seq(Ids) /\ \A i : Has(v, i) <=> i \in Ids /\ Visible(i)
      /\ Ordered(messages, v) /\ ResultsFollow(messages, v) /\ CallsFollowed(messages, v)
      /\ SystemFront(messages, v, {})
  BY <1>2, ViewReady
<1> HIDE DEF v
<1>4. Ids = 1..Len(messages) /\ Len(messages) \in Nat BY <1>1, RowFacts
<1>5. v \in Seq(0..Len(messages))
  <2>1. Ids \subseteq 0..Len(messages) BY <1>4
  <2> QED BY <1>3, <2>1, SeqWiden
<1>6. unsaved = 0 /\ fresh = {} /\ dropped = {} /\ folding = {} BY <1>1, <1>2 DEF OwnInv, FoldInv
<1>7. Ids' = Ids BY <1>2 DEF Ids
<1>8. Latest' = Latest /\ Chain(Latest)' = Chain(Latest) BY <1>2, ChainSame
<1>9. Working' /\ ~InRound' /\ exec' = "top" BY <1>2 DEF Working, InRound
<1>10. TypeOK' BY <1>1, <1>2, <1>5, <1>7 DEF TypeOK, ExecState
<1>11. RowsInv' BY <1>1, <1>2, RowsKept
<1>12. StatusInv'
  <2>1. HasMessages(Latest)' BY <1>2, <1>7, <1>8 DEF HasMessages
  <2> QED BY <1>1, <1>2, <1>8, <1>9, <2>1 DEF StatusInv
<1>13. FoldInv' BY <1>1, <1>2, <1>6, <1>7, <1>8 DEF FoldInv
<1>14. MissingInv'
  <2>1. NextCalls(messages', <<>>, summarized') BY NothingToCall
  <2> QED BY <1>2, <2>1 DEF MissingInv
<1>15. OwnInv' BY <1>2, <1>6 DEF OwnInv
<1>16. SetInv'
  <2>1. ASSUME NEW i \in Ids PROVE Has(v, i) <=> Visible(i)'
    <3>1. Visible(i)' <=> Visible(i) BY <1>2, <1>8 DEF Visible
    <3> QED BY <1>3, <3>1
  <2> QED BY <1>2, <1>6, <1>7, <2>1 DEF SetInv
<1>17. OrderInv' BY <1>2, <1>3 DEF OrderInv
<1>18. PairInv' BY <1>2, <1>3 DEF PairInv
<1>19. RoundInv' BY <1>9 DEF RoundInv
<1>20. FrontInv' BY <1>2, <1>3, <1>6 DEF FrontInv
<1>21. ContextInv' BY <1>16, <1>17, <1>18, <1>19, <1>20 DEF ContextInv
<1> QED BY <1>10, <1>11, <1>12, <1>13, <1>14, <1>15, <1>21, InvPartsNext

\* A run without messages writes its input.
LEMMA WriteInputStep ==
  ASSUME IInv, BuildContext, ~HasMessages(Latest)
  PROVE  IInv'
<1>1. TypeOK /\ RowsInv /\ StatusInv /\ FoldInv /\ MissingInv /\ OwnInv BY InvParts
<1> DEFINE v == View(Latest)
           l == Len(messages) + 1
           row == UserRow("input")
           m2 == messages'
<1>2. /\ exec = "repair" /\ missing = <<>> /\ exec' = "top" /\ HasRoom
      /\ messages' = Append(messages, row) /\ unsaved' = l /\ context' = Append(v, l)
      /\ UNCHANGED <<summarized, parent, status, missing, fresh, folding,
                     dropped, resume, stopping, branches, stops>>
  BY DEF BuildContext, AppendsInput, Elsewhere
<1>3. /\ v \in Seq(Ids) /\ \A i : Has(v, i) <=> i \in Ids /\ Visible(i)
      /\ Ordered(messages, v) /\ ResultsFollow(messages, v) /\ CallsFollowed(messages, v)
      /\ SystemFront(messages, v, {})
  BY <1>2, ViewReady
<1> HIDE DEF v
<1>4. /\ Ids = 1..Len(messages) /\ Len(messages) \in Nat /\ messages \in Seq(Message)
      /\ History(messages) /\ MaxMessages \in Nat /\ Latest \in Nat /\ ParentsFirst(parent)
      /\ summarized \in SUBSET Ids /\ Whole(messages, summarized)
  BY <1>1, RowFacts
<1>5. Latest > 0 /\ status' \notin {"none", "waiting", "error", "ended"}
  BY <1>1, <1>2 DEF StatusInv
<1>6. /\ Fits(messages, row) /\ row.run = Latest /\ row.role = "input" /\ row.calls = 0
  <2>1. 0 \in 0..MaxCalls /\ "input" \in Role BY BoundAssumption DEF Role
  <2>2. Fits(messages, Row(Latest, "input", 0, 0, 0, <<>>)) BY <1>1, <1>5, <2>1, PlainFits
  <2> QED BY <2>2 DEF UserRow, Row
<1> HIDE DEF row
<1>7. /\ Extends(messages, m2) /\ Len(m2) = l /\ m2[l] = row
  BY <1>2, <1>4, <1>6, AppendExtends DEF Fits
<1>8. l = Len(messages) + 1 /\ l \in Nat \ {0} BY <1>4
<1>9. History(m2) BY <1>2, <1>4, <1>6, HistoryAppend
<1> HIDE DEF l, m2
<1>10. Ids' = Ids \cup {l} BY <1>4, <1>7, <1>8 DEF Ids, m2
<1>11. v \in Seq(0..Len(messages))
  <2>1. Ids \subseteq 0..Len(messages) BY <1>4
  <2> QED BY <1>3, <2>1, SeqWiden
<1>12. Appends(messages, m2, v, l, context')
  <2>1. l \in 0..Len(m2) BY <1>7, <1>8
  <2> QED BY <1>2, <1>7, <1>11, <2>1 DEF Appends
<1>13. /\ context' \in Seq(0..Len(m2)) /\ \A i : Has(context', i) <=> Has(v, i) \/ i = l
  BY <1>12, AppendsFacts
<1>14. ~ToolIn(m2, l) /\ ~SummaryIn(m2, l) /\ CallsIn(m2, l) = 0
  BY <1>6, <1>7, <1>8 DEF ToolIn, SummaryIn, CallsIn
<1>15. Ordered(m2, context')
  <2>1. m2[Len(m2)].role # "tool" /\ Len(m2) = Len(messages) + 1 BY <1>6, <1>7, <1>8
  <2>2. \A k \in 1..Len(v) : RegularIn(messages, v[k]) => Before(m2, v[k], Len(m2))
    BY <1>4, <1>7, <1>11, <2>1, NewestLast
  <2> QED BY <1>3, <1>7, <1>12, <2>2, AppendOrdered
<1>16. ResultsFollow(m2, context')
  <2>1. \A k \in 1..Len(v) : ToolIn(messages, v[k]) => messages[v[k]].call \in Nat \ {0}
    BY <1>4, <1>11, PositiveCalls
  <2> QED BY <1>3, <1>12, <1>14, <2>1, AppendResults
<1>17. CallsFollowed(m2, context') BY <1>3, <1>12, <1>14, AppendCalls
<1>18. SystemFront(m2, context', {}) BY <1>3, <1>12, <1>14, AppendFront
<1>19. unsaved = 0 /\ fresh = {} /\ dropped = {} /\ folding = {} BY <1>1, <1>2 DEF OwnInv, FoldInv
<1>20. Latest' = Latest /\ Chain(Latest)' = Chain(Latest) BY <1>2, ChainSame
<1>21. Working' /\ ~InRound' BY <1>2 DEF Working, InRound
<1>22. Latest \in Chain(Latest)
  <2>1. Latest \in 1..Len(parent) /\ Len(parent) \in Nat BY <1>4, <1>5 DEF Latest
  <2> QED BY <1>4, <2>1, ChainFacts
<1>23. SetInv'
  <2>1. SUFFICES ASSUME NEW i \in Ids' PROVE Has(context', i) <=> Visible(i)'
    BY <1>2, <1>19 DEF SetInv
  <2>2. CASE i = l
    <3>1. l \notin summarized BY <1>4, <1>8
    <3>2. Visible(i)' BY <1>2, <1>6, <1>7, <1>20, <1>22, <2>2, <3>1 DEF Visible, m2
    <3> QED BY <1>13, <2>2, <3>2
  <2>3. CASE i # l
    <3>1. i \in Ids /\ i \in 1..Len(messages) BY <1>4, <1>10, <2>3
    <3>2. m2[i] = messages[i] BY <1>7, <3>1 DEF Extends
    <3>3. Visible(i)' <=> Visible(i) BY <1>2, <1>20, <3>2 DEF Visible, m2
    <3> QED BY <1>3, <1>13, <2>3, <3>1, <3>3
  <2> QED BY <2>2, <2>3
<1>24. OrderInv' BY <1>15 DEF OrderInv, m2
<1>25. PairInv' BY <1>16, <1>17 DEF PairInv, m2
<1>26. RoundInv' BY <1>21 DEF RoundInv
<1>27. FrontInv' BY <1>2, <1>18, <1>19 DEF FrontInv, m2
<1>28. ContextInv' BY <1>23, <1>24, <1>25, <1>26, <1>27 DEF ContextInv
<1>29. TypeOK'
  <2>1. /\ messages' \in Seq(Message) /\ Len(messages') <= MaxMessages
    BY <1>2, <1>4, <1>7, <1>8 DEF Extends, HasRoom, m2
  <2>2. summarized' \subseteq Ids' /\ unsaved' \in 0..Len(messages') BY <1>2, <1>4, <1>7, <1>8, <1>10 DEF m2
  <2>3. fresh' \subseteq Ids' /\ folding' \subseteq Ids' /\ dropped' \subseteq Ids' BY <1>2, <1>19
  <2>4. missing' \in Seq(Ids' \X (1..MaxCalls))
    <3>1. \A S : <<>> \in Seq(S) OBVIOUS
    <3>2. missing' = <<>> BY <1>2
    <3> QED BY <3>1, <3>2, Zenon
  <2>5. /\ parent' \in Seq(0..MaxRuns) /\ Len(parent') <= MaxRuns /\ stopping' \in BOOLEAN
        /\ branches' \in 0..MaxBranches /\ stops' \in 0..MaxStops /\ resume' \in BOOLEAN
        /\ status' \in {"none", "active", "canceling", "waiting", "error", "ended"}
    BY <1>1, <1>2 DEF TypeOK
  <2>6. context' \in Seq(0..Len(messages')) BY <1>13 DEF m2
  <2>7. exec' \in ExecState BY <1>2 DEF ExecState
  <2> QED BY <2>1, <2>2, <2>3, <2>4, <2>5, <2>6, <2>7 DEF TypeOK
<1>30. HasMessages(Latest)' BY <1>6, <1>7, <1>10, <1>20 DEF HasMessages, m2
<1>31. InputInv'
  <2>1. FirstInput(m2, Latest, l)
    <3>1. ASSUME NEW j \in 1..Len(m2), m2[j].run = Latest, j # l PROVE FALSE
      <4>1. j \in 1..Len(messages) BY <1>4, <1>7, <1>8, <3>1
      <4>2. j \in Ids /\ messages[j].run = Latest BY <1>4, <1>7, <3>1, <4>1 DEF Extends
      <4> QED BY <4>2 DEF HasMessages
    <3> QED BY <1>6, <1>7, <3>1 DEF FirstInput
  <2>2. l \in Ids' BY <1>10
  <2> QED BY <1>20, <2>1, <2>2 DEF InputInv, m2
<1>32. MarkInv'
  <2>1. Whole(m2, summarized) BY <1>4, <1>7, WholeKept
  <2>2. ASSUME NEW i \in summarized PROVE Marked(m2, i)
    <3>1. i \in 1..Len(messages) BY <1>4
    <3>2. Marked(messages, i) BY <1>1 DEF RowsInv, MarkInv
    <3> QED BY <1>7, <3>1, <3>2, MarkedKept
  <2> QED BY <1>2, <2>1, <2>2 DEF MarkInv, m2
<1>33. RowsInv'
  <2>1. \A i \in Ids' : m2[i].run <= Latest
    <3>1. \A i \in Ids : m2[i] = messages[i] /\ messages[i].run <= Latest
      BY <1>1, <1>4, <1>7 DEF RowsInv, Extends
    <3> QED BY <1>4, <1>6, <1>7, <1>10, <3>1
  <2>2. \A n \in 1..Latest' : parent'[n] < n BY <1>1, <1>2, <1>20 DEF RowsInv
  <2>3. MessageInv' BY <1>9 DEF MessageInv, m2
  <2> QED BY <1>20, <1>31, <1>32, <2>1, <2>2, <2>3 DEF RowsInv, m2
<1>34. StatusInv' BY <1>1, <1>2, <1>5, <1>20, <1>30 DEF StatusInv
<1>35. FoldInv'
  <2>1. Whole(m2, {}) BY DEF Whole
  <2> QED BY <1>2, <1>19, <2>1 DEF FoldInv, m2
<1>36. MissingInv'
  <2>1. NextCalls(messages', <<>>, summarized') BY NothingToCall
  <2> QED BY <1>2, <2>1 DEF MissingInv
<1>37. OwnInv' BY <1>2, <1>6, <1>7, <1>19 DEF OwnInv, m2
<1> QED BY <1>28, <1>29, <1>33, <1>34, <1>35, <1>36, <1>37, InvPartsNext

LEMMA BuildContextStep == ASSUME IInv, BuildContext PROVE IInv'
BY LoadContextStep, WriteInputStep
-----------------------------------------------------------------------------
(* The invariant.                                                           *)

LEMMA InitInv == Init => IInv
<1>1. SUFFICES ASSUME Init PROVE IInv OBVIOUS
<1>2. /\ messages = <<>> /\ summarized = {} /\ parent = <<>> /\ status = "none"
      /\ exec = "none" /\ resume = FALSE /\ missing = <<>> /\ context = <<>>
      /\ unsaved = 0 /\ fresh = {} /\ folding = {} /\ dropped = {}
      /\ stopping = FALSE /\ branches = 0 /\ stops = 0
  BY <1>1 DEF Init
<1>3. Len(messages) = 0 /\ Ids = {} /\ Latest = 0 /\ 1..Latest = {} /\ 1..Len(messages) = {}
  BY <1>2 DEF Ids, Latest
<1>4. \A S : <<>> \in Seq(S) OBVIOUS
<1>5. TypeOK
  <2>1. /\ messages \in Seq(Message) /\ parent \in Seq(0..MaxRuns)
        /\ missing \in Seq(Ids \X (1..MaxCalls)) /\ context \in Seq(0..Len(messages))
    BY <1>2, <1>4, Zenon
  <2>2. Len(messages) <= MaxMessages /\ Len(parent) <= MaxRuns
    BY <1>2, <1>3, BoundAssumption DEF Latest
  <2>3. branches \in 0..MaxBranches /\ stops \in 0..MaxStops /\ unsaved \in 0..Len(messages)
    BY <1>2, <1>3, BoundAssumption
  <2> QED BY <1>2, <2>1, <2>2, <2>3 DEF TypeOK, ExecState
<1>6. ~HasMessages(Latest) BY <1>3 DEF HasMessages
<1>7. History(messages) BY <1>3 DEF History
<1>8. Whole(messages, {}) BY DEF Whole
<1>9. RowsInv
  <2>1. InputInv BY <1>6 DEF InputInv
  <2>2. MessageInv BY <1>7 DEF MessageInv
  <2>3. MarkInv BY <1>2, <1>8 DEF MarkInv
  <2> QED BY <1>3, <2>1, <2>2, <2>3 DEF RowsInv
<1>10. ~Working /\ ~InRound BY <1>2 DEF Working, InRound
<1>11. StatusInv BY <1>2, <1>10 DEF StatusInv
<1>12. FoldInv BY <1>2, <1>8 DEF FoldInv
<1>13. MissingInv
  <2>1. NextCalls(messages, <<>>, summarized) BY NothingToCall
  <2> QED BY <1>2, <2>1 DEF MissingInv
<1>14. OwnInv BY <1>2 DEF OwnInv
<1>15. ContextInv BY <1>10 DEF ContextInv, SetInv, OrderInv, PairInv, RoundInv, FrontInv
<1> QED BY <1>5, <1>9, <1>11, <1>12, <1>13, <1>14, <1>15, InvParts

LEMMA StutterStep == ASSUME IInv, UNCHANGED vars PROVE IInv'
<1>1. TypeOK /\ RowsInv /\ StatusInv /\ FoldInv /\ MissingInv /\ OwnInv /\ ContextInv BY InvParts
<1>2. /\ UNCHANGED <<messages, summarized, parent, status, exec, resume, missing, context,
                     unsaved, fresh, folding, dropped, stopping, branches, stops>>
  BY DEF vars, rowVars, execVars
<1>3. Stays /\ Working' = Working /\ InRound' = InRound
  BY <1>2 DEF Stays, Working, InRound
<1>4. MissingInv' /\ missing' \in Seq(Ids \X (1..MaxCalls)) BY <1>2, MissingKept
<1>5. /\ StatusOK' /\ exec' \in ExecState /\ resume' \in BOOLEAN /\ stopping' \in BOOLEAN
      /\ branches' \in 0..MaxBranches /\ stops' \in 0..MaxStops
  BY <1>1, <1>2 DEF TypeOK, StatusOK
<1>6. status' \in {"none", "waiting", "error", "ended"} => exec' = "none"
  BY <1>1, <1>2 DEF StatusInv
<1>7. Working' /\ ~InRound' => ~InRound BY <1>3
<1> QED BY <1>2, <1>3, <1>4, <1>5, <1>6, <1>7, StaysStep

LEMMA NextInv == IInv /\ [Next]_vars => IInv'
<1> SUFFICES ASSUME IInv, [Next]_vars PROVE IInv' OBVIOUS
<1>1. CASE NewRun \/ Branch BY <1>1, NewRunStep
<1>2. CASE Answer BY <1>2, AnswerStep
<1>3. CASE Continue \/ Cancel \/ Shutdown \/ Recover BY <1>3, OutsideStep
<1>4. CASE Restart BY <1>4, RestartStep
<1>5. CASE Ends BY <1>5, EndsStep
<1>6. CASE Load \/ AbortThrows BY <1>6, SearchStep
<1>7. CASE RecordInterrupted BY <1>7, RecordInterruptedStep
<1>8. CASE BuildContext BY <1>8, BuildContextStep
<1>9. CASE ApplyInput \/ StopFindsInput BY <1>9, InputStep
<1>10. CASE SummarizeOld BY <1>10, SummarizeOldStep
<1>11. CASE MarkSummarized BY <1>11, MarkSummarizedStep
<1>12. CASE TrimWindow BY <1>12, TrimWindowStep
<1>13. CASE SummarizeRound BY <1>13, SummarizeRoundStep
<1>14. CASE Ask \/ UseTools \/ ToolsDone BY <1>14, GoStep
<1>15. CASE Reply BY <1>15, ReplyStep
<1>16. CASE NoAction BY <1>16, NoActionStep
<1>17. CASE ToolResult \/ AskUser BY <1>17, ResultStep
<1>18. CASE UNCHANGED vars BY <1>18, StutterStep
<1> QED
  BY <1>1, <1>2, <1>3, <1>4, <1>5, <1>6, <1>7, <1>8, <1>9, <1>10, <1>11, <1>12, <1>13,
     <1>14, <1>15, <1>16, <1>17, <1>18
  DEF Next, Ends

\* Every state has the invariant.
THEOREM HistoryInvariant == Spec => []IInv
BY InitInv, NextInv, PTL DEF Spec

\* Every state is of the types that the tables and the executor give it.
THEOREM HistoryTypes == Spec => []TypeOK
<1>1. IInv => TypeOK BY DEF IInv
<1> QED BY <1>1, HistoryInvariant, PTL

\* A run that asks the model has written its input once, before its other
\* messages (executor.ts writes the input of a run without messages, however
\* it was started).
THEOREM InputIsFirst == Spec => []InputFirst
<1>1. IInv => InputFirst
  <2>1. SUFFICES ASSUME IInv, exec = "asked"
        PROVE  \E i \in {k \in Ids : messages[k].run = Latest} :
                 /\ messages[i].role = "input"
                 /\ \A j \in {k \in Ids : messages[k].run = Latest} \ {i} :
                      j > i /\ messages[j].role # "input"
    BY DEF InputFirst
  <2>2. RunInv /\ InputInv BY <2>1 DEF IInv
  <2>3. HasMessages(Latest) BY <2>1, <2>2 DEF RunInv, Working
  <2>4. PICK i \in Ids : FirstInput(messages, Latest, i) BY <2>2, <2>3 DEF InputInv
  <2> QED BY <2>4 DEF FirstInput, Ids
<1> QED BY <1>1, HistoryInvariant, PTL
-----------------------------------------------------------------------------
(* Requests.                                                                *)

\* What is sent of a context with whole rounds has whole rounds.
LEMMA SentPaired ==
  ASSUME messages \in Seq(Message), History(messages), Ids = 1..Len(messages),
         NEW ids \in Seq(0..Len(messages)), Paired(messages, ids)
  PROVE  Only(ids, Ids) \in Seq(Ids) /\ Paired(messages, Only(ids, Ids))
<1> DEFINE t == Only(ids, Ids)
<1>1. /\ t \in Seq(0..Len(messages))
      /\ \E pos : /\ Increasing(pos, Len(ids)) /\ Selects(t, ids, pos)
                  /\ \A k \in 1..Len(ids) : At(k, pos) <=> ids[k] \in Ids
  BY OnlyPositions
<1>2. \A i : Has(t, i) <=> Has(ids, i) /\ i \in Ids BY OnlyHas
<1> HIDE DEF t
<1>3. PICK pos : /\ Increasing(pos, Len(ids)) /\ Selects(t, ids, pos)
                 /\ \A k \in 1..Len(ids) : At(k, pos) <=> ids[k] \in Ids
  BY <1>1
<1>4. ASSUME NEW k \in 1..Len(ids), NEW c \in 1..CallsIn(messages, ids[k])
      PROVE  At(k + c, pos)
  <2>1. ids[k] \in 0..Len(messages) BY ElementOf
  <2>2. CallsIn(messages, ids[k]) \in Nat BY <2>1, CallsTypes
  <2>3. k + c <= Len(ids) /\ ResultOf(messages, ids[k + c], ids[k], c)
    BY DEF Paired, CallsFollowed, Followed
  <2>4. PICK j \in 1..Len(ids) : j = k + c
    <3>1. k + c \in 1..Len(ids) BY <2>2, <2>3
    <3> QED BY <3>1
  <2>5. ids[j] \in 0..Len(messages) BY ElementOf
  <2>6. ids[j] # 0 BY <2>3, <2>4 DEF ResultOf, ToolIn
  <2>7. ids[j] \in Ids BY <2>5, <2>6
  <2> QED BY <1>3, <2>4, <2>7
<1>5. ASSUME NEW k \in 1..Len(ids), ToolIn(messages, ids[k])
      PROVE  At(k - messages[ids[k]].call, pos)
  <2>1. Follows(messages, ids, k) BY <1>5 DEF Paired, ResultsFollow
  <2>2. /\ k - messages[ids[k]].call \in 1..Len(ids)
        /\ ids[k - messages[ids[k]].call] = messages[ids[k]].step
        /\ messages[ids[k]].step \in 1..Len(messages)
    BY <1>5, <2>1, CallOfResult
  <2> QED BY <1>3, <2>2
<1>6. Rounds(messages, ids, pos) BY <1>4, <1>5 DEF Rounds
<1>7. Paired(messages, t) BY <1>3, <1>6, SelectPaired
<1>8. t \in Seq(Ids)
  <2>1. \A q \in 1..Len(t) : t[q] \in Ids BY <1>2 DEF Has
  <2> DEFINE S == Ids
             T == 0..Len(messages)
  <2>2. t \in Seq(T) /\ \A q \in 1..Len(t) : t[q] \in S BY <1>1, <2>1
  <2> HIDE DEF S, T
  <2>3. t \in Seq(S) BY <2>2
  <2> QED BY <2>3 DEF S
<1> QED BY <1>7, <1>8 DEF t

\* A round in a sequence with whole rounds.
LEMMA RoundOfPaired ==
  ASSUME messages \in Seq(Message), NEW s \in Seq(0..Len(messages)), Paired(messages, s),
         NEW k \in 1..Len(s)
  PROVE  /\ k+1..k+Calls(s[k]) \subseteq 1..Len(s)
         /\ \A j \in k+1..k+Calls(s[k]) :
              IsTool(s[j]) /\ messages[s[j]].step = s[k]
         /\ Cardinality({messages[s[j]].call : j \in k+1..k+Calls(s[k])}) = Calls(s[k])
<1>1. s[k] \in 0..Len(messages) /\ Len(s) \in Nat BY ElementOf
<1>2. PICK n \in Nat : n = Calls(s[k]) /\ n = CallsIn(messages, s[k]) BY <1>1, CallsTypes, CallsSame
<1>3. ASSUME NEW c \in 1..n
      PROVE  k + c <= Len(s) /\ ResultOf(messages, s[k + c], s[k], c)
  BY <1>2 DEF Paired, CallsFollowed, Followed
<1>4. ASSUME NEW j \in k+1..k+n
      PROVE  j - k \in 1..n /\ j \in 1..Len(s) /\ ResultOf(messages, s[j], s[k], j - k)
  <2>1. PICK c \in 1..n : c = j - k /\ j = k + c
    <3>1. j - k \in 1..n /\ j = k + (j - k) BY <1>1
    <3> QED BY <3>1
  <2>2. k + c <= Len(s) /\ ResultOf(messages, s[k + c], s[k], c) BY <1>3
  <2> QED BY <1>1, <2>1, <2>2
<1>5. {messages[s[j]].call : j \in k+1..k+n} = 1..n
  <2>1. \A j \in k+1..k+n : messages[s[j]].call = j - k BY <1>4 DEF ResultOf
  <2>2. \A c \in 1..n : k + c \in k+1..k+n /\ (k + c) - k = c OBVIOUS
  <2>3. \A c \in 1..n : \E j \in k+1..k+n : messages[s[j]].call = c BY <2>1, <2>2
  <2>4. \A j \in k+1..k+n : messages[s[j]].call \in 1..n BY <1>4, <2>1
  <2>5. {messages[s[j]].call : j \in k+1..k+n} \subseteq 1..n BY <2>4
  <2>6. 1..n \subseteq {messages[s[j]].call : j \in k+1..k+n} BY <2>3
  <2> QED BY <2>5, <2>6
<1>6. Cardinality(1..n) = n
  <2>1. Cardinality(1..n) = IF 1 > n THEN 0 ELSE n - 1 + 1 BY FS_Interval
  <2> QED BY <2>1
<1> QED BY <1>2, <1>4, <1>5, <1>6, CallsSame DEF ResultOf

\* In every request a call is followed by exactly its results, and a result
\* has its call before it, whatever crash, abort, question, ancestor, window
\* or summary the context has been through (compaction.ts: never break
\* tool_call and tool_result pairs).
THEOREM RequestsArePaired == Spec => []RequestPaired
<1>1. IInv => RequestPaired
  <2>1. SUFFICES ASSUME IInv, exec = "asked" PROVE RequestPaired BY DEF RequestPaired
  <2>2. TypeOK /\ RowsInv /\ ContextInv BY <2>1, InvParts
  <2>3. /\ messages \in Seq(Message) /\ History(messages) /\ Ids = 1..Len(messages)
        /\ context \in Seq(0..Len(messages)) /\ Len(messages) \in Nat
    BY <2>2, RowFacts DEF TypeOK
  <2>4. Paired(messages, context)
    BY <2>1, <2>2 DEF ContextInv, PairInv, Working, InRound, Paired
  <2> DEFINE s == Sent
  <2>5. s \in Seq(Ids) /\ Paired(messages, s) BY <2>3, <2>4, SentPaired DEF Sent
  <2>6. RequestPaired <=>
          /\ \A k \in DOMAIN s :
               /\ k+1..k+Calls(s[k]) \subseteq DOMAIN s
               /\ \A j \in k+1..k+Calls(s[k]) : IsTool(s[j]) /\ messages[s[j]].step = s[k]
               /\ Cardinality({messages[s[j]].call : j \in k+1..k+Calls(s[k])}) = Calls(s[k])
          /\ \A j \in DOMAIN s :
               IsTool(s[j]) => \E k \in 1..j-1 : j \in k+1..k+Calls(s[k])
    BY <2>1 DEF RequestPaired
  <2> HIDE DEF s
  <2>7. s \in Seq(0..Len(messages)) /\ DOMAIN s = 1..Len(s) /\ Len(s) \in Nat
    <3>1. Ids \subseteq 0..Len(messages) BY <2>3
    <3>2. s \in Seq(0..Len(messages)) BY <2>5, <3>1, SeqWiden
    <3> QED BY <3>2
  <2>8. \A k \in 1..Len(s) :
          /\ k+1..k+Calls(s[k]) \subseteq 1..Len(s)
          /\ \A j \in k+1..k+Calls(s[k]) : IsTool(s[j]) /\ messages[s[j]].step = s[k]
          /\ Cardinality({messages[s[j]].call : j \in k+1..k+Calls(s[k])}) = Calls(s[k])
    BY <2>3, <2>5, <2>7, RoundOfPaired
  <2>9. ASSUME NEW j \in 1..Len(s), IsTool(s[j])
        PROVE  \E k \in 1..j-1 : j \in k+1..k+Calls(s[k])
    <3>1. ToolIn(messages, s[j]) BY <2>9, CallsSame
    <3>2. PICK p \in 1..Len(s), c \in Nat \ {0} :
            p = j - c /\ c \in 1..CallsIn(messages, s[p])
      BY <2>3, <2>5, <2>7, <3>1, CallOfPaired
    <3>3. PICK n \in Nat : n = Calls(s[p]) /\ c \in 1..n
      <4>1. s[p] \in 0..Len(messages) BY <2>7, ElementOf
      <4> QED BY <2>3, <3>2, <4>1, CallsTypes, CallsSame
    <3>4. p \in 1..j-1 /\ j \in p+1..p+n BY <2>7, <3>2, <3>3
    <3> QED BY <3>3, <3>4
  <2> QED BY <2>6, <2>7, <2>8, <2>9
<1> QED BY <1>1, HistoryInvariant, PTL
-----------------------------------------------------------------------------
(* A restart.                                                               *)

SameElements(a, b) == \A i : Has(a, i) <=> Has(b, i)

\* Sequences in order with the same elements agree as far as the first goes.
LEMMA OrderedAgree ==
  ASSUME NEW m \in Seq(Message), NEW a \in Seq(1..Len(m)), NEW b \in Seq(1..Len(m)),
         Strict(m, a), Strict(m, b), SameElements(a, b)
  PROVE  \A k \in 1..Len(a) : k <= Len(b) /\ a[k] = b[k]
<1> DEFINE D == {k \in 1..Len(a) : ~(k <= Len(b) /\ a[k] = b[k])}
<1>1. SUFFICES ASSUME D # {} PROVE FALSE OBVIOUS
<1>2. Len(a) \in Nat /\ Len(b) \in Nat OBVIOUS
<1>3. D \subseteq Nat BY <1>2
<1>4. PICK k \in D : \A j \in D : k <= j
  <2> HIDE DEF D
  <2> QED BY <1>1, <1>3, LeastElement
<1>5. k \in 1..Len(a) /\ ~(k <= Len(b) /\ a[k] = b[k]) OBVIOUS
<1>6. \A j \in 1..Len(a) : j < k => j <= Len(b) /\ a[j] = b[j] BY <1>4, <1>5
<1>7. \A j \in 1..Len(a), l \in 1..Len(a) : j < l => Before(m, a[j], a[l]) BY DEF Strict
<1>8. \A j \in 1..Len(b), l \in 1..Len(b) : j < l => Before(m, b[j], b[l]) BY DEF Strict
<1> HIDE DEF D
<1>9. PICK q \in 1..Len(b) : b[q] = a[k]
  <2>1. Has(a, a[k]) BY <1>5 DEF Has
  <2>2. Has(b, a[k]) BY <2>1 DEF SameElements
  <2> QED BY <2>2 DEF Has
<1>10. PICK x \in 1..Len(m) : x = a[k] BY <1>5, ElementOf
<1>11. ~(q < k)
  <2>1. SUFFICES ASSUME q < k PROVE FALSE OBVIOUS
  <2>2. q \in 1..Len(a) BY <1>2, <1>5, <2>1
  <2>3. a[q] = b[q] BY <1>6, <2>1, <2>2
  <2>4. Before(m, a[q], a[k]) BY <1>5, <1>7, <2>1, <2>2
  <2> QED BY <1>9, <1>10, <2>3, <2>4, BeforeOrder
<1>12. k <= Len(b) /\ q # k /\ q > k /\ k \in 1..Len(b) BY <1>2, <1>5, <1>9, <1>11
<1>13. Before(m, b[k], x) BY <1>8, <1>9, <1>10, <1>12
<1>14. PICK p \in 1..Len(a) : a[p] = b[k]
  <2>1. Has(b, b[k]) BY <1>12 DEF Has
  <2>2. Has(a, b[k]) BY <2>1 DEF SameElements
  <2> QED BY <2>2 DEF Has
<1>15. PICK y \in 1..Len(m) : y = b[k] BY <1>12, ElementOf
<1>16. CASE p < k
  <2>1. b[p] = b[k] /\ p \in 1..Len(b) BY <1>2, <1>6, <1>14, <1>16
  <2>2. Before(m, b[p], b[k]) BY <1>8, <1>12, <1>16, <2>1
  <2> QED BY <1>15, <2>1, <2>2, BeforeOrder
<1>17. CASE p = k BY <1>5, <1>12, <1>14, <1>17
<1>18. CASE p > k
  <2>1. Before(m, x, y) BY <1>5, <1>7, <1>10, <1>14, <1>15, <1>18
  <2>2. Before(m, y, x) BY <1>13, <1>15
  <2> QED BY <2>1, <2>2, BeforeOrder
<1> QED BY <1>2, <1>5, <1>16, <1>17, <1>18

LEMMA OrderedEqual ==
  ASSUME NEW m \in Seq(Message), NEW a \in Seq(1..Len(m)), NEW b \in Seq(1..Len(m)),
         Strict(m, a), Strict(m, b), SameElements(a, b)
  PROVE  a = b
<1>1. \A k \in 1..Len(a) : k <= Len(b) /\ a[k] = b[k] BY OrderedAgree
<1>2. SameElements(b, a) BY DEF SameElements
<1>3. \A k \in 1..Len(b) : k <= Len(a) /\ b[k] = a[k] BY <1>2, OrderedAgree
<1>4. Len(a) \in Nat /\ Len(b) \in Nat OBVIOUS
<1>5. Len(a) = Len(b)
  <2>1. Len(a) <= Len(b)
    <3>1. CASE Len(a) = 0 BY <1>4, <3>1
    <3>2. CASE Len(a) # 0
      <4>1. Len(a) \in 1..Len(a) BY <1>4, <3>2
      <4> QED BY <1>1, <4>1
    <3> QED BY <3>1, <3>2
  <2>2. Len(b) <= Len(a)
    <3>1. CASE Len(b) = 0 BY <1>4, <3>1
    <3>2. CASE Len(b) # 0
      <4>1. Len(b) \in 1..Len(b) BY <1>4, <3>2
      <4> QED BY <1>3, <4>1
    <3> QED BY <3>1, <3>2
  <2> QED BY <1>4, <2>1, <2>2
<1> QED BY <1>1, <1>5, SeqEqual

\* The messages of a sequence in order that are in S, but for summaries.
LEMMA RegularPart ==
  ASSUME messages \in Seq(Message), Ids = 1..Len(messages),
         NEW ids \in Seq(0..Len(messages)), Ordered(messages, ids),
         NEW S, S \subseteq Ids \ Summaries
  PROVE  /\ Only(ids, S) \in Seq(Ids) /\ Strict(messages, Only(ids, S))
         /\ \A i : Has(Only(ids, S), i) <=> Has(ids, i) /\ i \in S
<1> DEFINE t == Only(ids, S)
<1>1. /\ t \in Seq(0..Len(messages))
      /\ \E pos : Increasing(pos, Len(ids)) /\ Selects(t, ids, pos)
  BY OnlyPositions
<1>2. \A i : Has(t, i) <=> Has(ids, i) /\ i \in S BY OnlyHas
<1> HIDE DEF t
<1>3. PICK pos : Increasing(pos, Len(ids)) /\ Selects(t, ids, pos) BY <1>1
<1>4. Len(ids) \in Nat OBVIOUS
<1>5. Ordered(messages, t) BY <1>3, <1>4, SelectOrdered
<1>6. \A q \in 1..Len(t) : t[q] \in Ids /\ RegularIn(messages, t[q])
  <2>1. ASSUME NEW q \in 1..Len(t) PROVE t[q] \in Ids /\ RegularIn(messages, t[q])
    <3>1. Has(t, t[q]) BY DEF Has
    <3>2. t[q] \in Ids /\ t[q] \notin Summaries BY <1>2, <3>1
    <3>3. ~SummaryIn(messages, t[q]) BY <3>2, CallsSame DEF Summaries
    <3>4. t[q] # 0 BY <3>2
    <3> QED BY <3>2, <3>3, <3>4 DEF RegularIn
  <2> QED BY <2>1
<1>7. Strict(messages, t) BY <1>5, <1>6 DEF Strict, Ordered
<1>8. t \in Seq(Ids)
  <2> DEFINE A == Ids
             B == 0..Len(messages)
  <2>1. t \in Seq(B) /\ \A q \in 1..Len(t) : t[q] \in A BY <1>1, <1>6
  <2> HIDE DEF A, B
  <2>2. t \in Seq(A) BY <2>1
  <2> QED BY <2>2 DEF A
<1> QED BY <1>2, <1>7, <1>8 DEF t

\* A restart between any two steps of a run, whatever it has compacted so
\* far, would load what the context has, in the same order, but for what the
\* sliding window has dropped.
THEOREM ContextReloads == Spec => []ReloadAgrees
<1>1. IInv => ReloadAgrees
  <2>1. SUFFICES ASSUME IInv, exec = "asked"
        PROVE  Regular(context) = Only(Regular(View(Latest)), Ids \ dropped)
    BY DEF ReloadAgrees
  <2>2. TypeOK /\ RowsInv /\ FoldInv /\ ContextInv BY <2>1, InvParts
  <2>3. /\ messages \in Seq(Message) /\ History(messages) /\ Ids = 1..Len(messages)
        /\ context \in Seq(0..Len(messages)) /\ Len(messages) \in Nat
        /\ summarized \in SUBSET Ids /\ Whole(messages, summarized)
    BY <2>2, RowFacts DEF TypeOK
  <2>4. Ordered(messages, context) BY <2>1, <2>2 DEF ContextInv, OrderInv, Working
  <2> DEFINE v == View(Latest)
             R == Ids \ Summaries
             a == Regular(context)
             w == Regular(v)
             b == Only(w, Ids \ dropped)
  <2>5. /\ v \in Seq(Ids) /\ Ordered(messages, v)
        /\ \A i : Has(v, i) <=> i \in Ids /\ Visible(i)
    <3>1. \A i : i \in Sees(Latest) <=> i \in Ids /\ Visible(i) BY DEF Sees, Visible
    <3> QED BY <2>3, <3>1, ViewFacts
  <2> HIDE DEF v
  <2>6. v \in Seq(0..Len(messages))
    <3>1. Ids \subseteq 0..Len(messages) BY <2>3
    <3> QED BY <2>5, <3>1, SeqWiden
  <2>7. /\ a \in Seq(Ids) /\ Strict(messages, a)
        /\ \A i : Has(a, i) <=> Has(context, i) /\ i \in R
    BY <2>3, <2>4, RegularPart DEF Regular
  <2>8. /\ w \in Seq(Ids) /\ Strict(messages, w)
        /\ \A i : Has(w, i) <=> Has(v, i) /\ i \in R
    BY <2>3, <2>5, <2>6, RegularPart DEF Regular
  <2> HIDE DEF a, w
  <2>9. /\ b \in Seq(Ids) /\ \A i : Has(b, i) <=> Has(w, i) /\ i \in Ids \ dropped
    BY <2>8, OnlyHas
  <2>10. Strict(messages, b)
    <3>1. PICK pos : Increasing(pos, Len(w)) /\ Selects(b, w, pos)
      BY <2>8, OnlyPositions
    <3> HIDE DEF b
    <3>2. \A p \in 1..Len(b) : pos[p] \in 1..Len(w) /\ b[p] = w[pos[p]]
      BY <3>1 DEF Increasing, Selects
    <3>3. \A p \in 1..Len(b), q \in 1..Len(b) : p < q => pos[p] < pos[q]
      BY <3>1 DEF Increasing, Selects
    <3> QED BY <2>8, <3>2, <3>3 DEF Strict
  <2> HIDE DEF b
  <2>11. SameElements(a, b)
    <3>1. ASSUME NEW i PROVE Has(a, i) <=> Has(b, i)
      <4>1. CASE i \in R
        <5>1. i \in Ids /\ ~SummaryIn(messages, i) BY <4>1, CallsSame DEF Summaries
        <5>2. folding = {} BY <2>1, <2>2 DEF FoldInv
        <5>3. Has(context, i) <=> Visible(i) /\ i \notin dropped
          BY <2>1, <2>2, <5>1, <5>2 DEF ContextInv, SetInv, Working
        <5> QED BY <2>5, <2>7, <2>8, <2>9, <5>1, <5>3
      <4>2. CASE i \notin R BY <2>7, <2>8, <2>9, <4>2
      <4> QED BY <4>1, <4>2
    <3> QED BY <3>1 DEF SameElements
  <2>12. a = b BY <2>3, <2>7, <2>9, <2>10, <2>11, OrderedEqual
  <2> QED BY <2>12 DEF a, b, w, v
<1> QED BY <1>1, HistoryInvariant, PTL
-----------------------------------------------------------------------------
(* What the view tells.                                                     *)

\* What the messages tell, of which the last n are unfolded.
Unfold(told, n) ==
  IF Len(messages) + 1 - n \in told THEN ToSet(messages[Len(messages) + 1 - n].covers) ELSE {}
ToldUpTo(g, ids, N) ==
  g = [n \in 0..N |->
         IF n = 0 THEN ids
         ELSE LET i == Len(messages) + 1 - n
              IN  g[n-1] \cup IF i \in g[n-1] THEN ToSet(messages[i].covers) ELSE {}]

LEMMA ToldRecursion ==
  ASSUME NEW ids, NEW N \in Nat
  PROVE  \E g : ToldUpTo(g, ids, N)
<1> DEFINE Body(g, n) == IF n = 0 THEN ids ELSE g[n-1] \cup Unfold(g[n-1], n)
           R == {n \in Nat : \E g : g = [k \in 0..n |-> Body(g, k)]}
<1>1. 0 \in R
  <2> DEFINE g == [k \in 0..0 |-> ids]
  <2>1. g = [k \in 0..0 |-> Body(g, k)] OBVIOUS
  <2> QED BY <2>1
<1>2. ASSUME NEW n \in Nat, n \in R PROVE n + 1 \in R
  <2>1. PICK g : g = [k \in 0..n |-> Body(g, k)] BY <1>2
  <2> DEFINE h == [k \in 0..n + 1 |-> IF k = n + 1 THEN Body(g, n + 1) ELSE g[k]]
  <2>2. ASSUME NEW k \in 0..n + 1 PROVE h[k] = Body(h, k)
    <3>1. CASE k = 0 BY <3>1, <2>1
    <3>2. CASE k # 0
      <4>1. k - 1 \in 0..n /\ k - 1 # n + 1 /\ k - 1 \in 0..n + 1 BY <3>2
      <4>2. h[k - 1] = g[k - 1] BY <4>1
      <4>3. Body(h, k) = Body(g, k) BY <4>2
      <4>4. CASE k = n + 1 BY <4>3, <4>4
      <4>5. CASE k # n + 1
        <5>1. k \in 0..n BY <4>5
        <5>2. g[k] = Body(g, k) BY <5>1, <2>1
        <5> QED BY <4>3, <4>5, <5>2
      <4> QED BY <4>4, <4>5
    <3> QED BY <3>1, <3>2
  <2>3. h = [k \in 0..n + 1 |-> Body(h, k)] BY <2>2
  <2> HIDE DEF h
  <2>4. n + 1 \in Nat OBVIOUS
  <2> QED BY <2>3, <2>4
<1> HIDE DEF R
<1>3. N \in R BY <1>1, <1>2, Induction
<1>4. PICK g : g = [k \in 0..N |-> Body(g, k)] BY <1>3 DEF R
<1>5. ToldUpTo(g, ids, N) BY <1>4, Zenon DEF ToldUpTo, Unfold
<1> QED BY <1>5

\* The stages of the unfolding: a message in a stage stays in the later ones,
\* and the next stage has what it covers.
Stages(g, ids, N) ==
  /\ g[0] = ids
  /\ \A n \in 0..N, k \in 0..N : n <= k => g[n] \subseteq g[k]
  /\ \A n \in 1..N : Len(messages) + 1 - n \in g[n-1] =>
       ToSet(messages[Len(messages) + 1 - n].covers) \subseteq g[n]

LEMMA ToldStages ==
  ASSUME NEW ids, Len(messages) \in Nat
  PROVE  \E g : Told(ids) = g[Len(messages)] /\ Stages(g, ids, Len(messages))
<1> DEFINE g == CHOOSE h : ToldUpTo(h, ids, Len(messages))
<1>1. Told(ids) = g[Len(messages)] BY DEF Told, ToldUpTo
<1>2. ToldUpTo(g, ids, Len(messages)) BY ToldRecursion
<1> HIDE DEF g
<1>3. PICK N \in Nat : N = Len(messages) OBVIOUS
<1>4. g[0] = ids
  <2>1. 0 \in 0..N OBVIOUS
  <2> QED BY <1>2, <1>3, <2>1 DEF ToldUpTo
<1>5. \A n \in 1..N : g[n] = g[n-1] \cup Unfold(g[n-1], n)
  <2>1. \A n \in 1..N : n \in 0..N /\ n # 0 OBVIOUS
  <2> QED BY <1>2, <1>3, <2>1 DEF ToldUpTo, Unfold
<1>6. ASSUME NEW n \in 0..N, NEW k \in 0..N, n <= k PROVE g[n] \subseteq g[k]
  <2> DEFINE R == {d \in Nat : n + d <= N => g[n] \subseteq g[n + d]}
  <2>1. 0 \in R BY <1>6
  <2>2. ASSUME NEW d \in Nat, d \in R PROVE d + 1 \in R
    <3>1. SUFFICES ASSUME n + (d + 1) <= N PROVE g[n] \subseteq g[n + (d + 1)] OBVIOUS
    <3>2. g[n] \subseteq g[n + d] BY <2>2, <3>1
    <3>3. PICK j \in 1..N : j = n + (d + 1) /\ j - 1 = n + d BY <3>1
    <3>4. g[j - 1] \subseteq g[j] BY <1>5
    <3> QED BY <3>2, <3>3, <3>4
  <2> HIDE DEF R
  <2>3. k - n \in Nat /\ n + (k - n) = k BY <1>6
  <2>4. k - n \in R BY <2>1, <2>2, <2>3, Induction
  <2> QED BY <2>3, <2>4 DEF R
<1>7. \A n \in 1..N : Len(messages) + 1 - n \in g[n-1] =>
        ToSet(messages[Len(messages) + 1 - n].covers) \subseteq g[n]
  BY <1>5 DEF Unfold
<1>8. Stages(g, ids, N) BY <1>4, <1>6, <1>7 DEF Stages
<1> QED BY <1>1, <1>3, <1>8

LEMMA CoversFacts ==
  ASSUME messages \in Seq(Message), History(messages), NEW s \in 1..Len(messages), NEW i
  PROVE  /\ Covers(messages, s, i) <=> i \in ToSet(messages[s].covers)
         /\ Covers(messages, s, i) => i \in Nat /\ i < s /\ SummaryIn(messages, s)
<1>1. messages[s].covers \in Seq(1..MaxMessages) BY RowTypes
<1>2. DOMAIN messages[s].covers = 1..Len(messages[s].covers) BY <1>1
<1>3. Covers(messages, s, i) <=> i \in ToSet(messages[s].covers)
  BY <1>2 DEF Covers, ToSet
<1>4. ASSUME Covers(messages, s, i) PROVE i \in Nat /\ i < s /\ SummaryIn(messages, s)
  <2>1. PICK k \in 1..Len(messages[s].covers) : messages[s].covers[k] = i BY <1>4 DEF Covers
  <2>2. i \in 1..MaxMessages BY <1>1, <2>1, ElementOf
  <2>3. i \in Nat BY <2>2, BoundAssumption
  <2>4. i < s BY <2>1 DEF History, PlainRow
  <2>5. messages[s].covers # <<>>
    <3>1. 1..Len(<<>>) = {} OBVIOUS
    <3> QED BY <2>1, <3>1
  <2>6. messages[s].role = "summary" /\ s # 0 BY <2>5 DEF History, PlainRow
  <2> QED BY <2>3, <2>4, <2>6 DEF SummaryIn
<1> QED BY <1>3, <1>4

\* A summary of the branch is told before its place is reached.
LEMMA SummariesTold ==
  ASSUME messages \in Seq(Message), History(messages), NEW N \in Nat, N = Len(messages),
         summarized \in SUBSET (1..N), \A i \in summarized : Marked(messages, i),
         NEW chain, NEW ids, NEW g, Stages(g, ids, N),
         \A i \in 1..N : messages[i].run \in chain /\ i \notin summarized => i \in ids,
         NEW s \in 1..N, SummaryIn(messages, s), messages[s].run \in chain
  PROVE  s \in g[N - s]
<1> DEFINE Good(x) == SummaryIn(messages, x) /\ messages[x].run \in chain => x \in g[N - x]
           R == {d \in Nat : \A x \in 1..N : N - x <= d => Good(x)}
<1>1. \A n \in 0..N, k \in 0..N : n <= k => g[n] \subseteq g[k] BY DEF Stages
<1>2. ASSUME NEW x \in 1..N, SummaryIn(messages, x), messages[x].run \in chain,
             \A y \in 1..N : y > x => Good(y)
      PROVE  x \in g[N - x]
  <2>1. N - x \in 0..N /\ 0 \in 0..N /\ 0 <= N - x OBVIOUS
  <2>2. CASE x \notin summarized
    <3>1. x \in g[0] BY <1>2, <2>2 DEF Stages
    <3> QED BY <1>1, <2>1, <3>1
  <2>3. CASE x \in summarized
    <3>1. PICK y \in 1..N : Covers(messages, y, x) /\ messages[y].run = messages[x].run
      BY <1>2, <2>3 DEF Marked
    <3>2. /\ x \in ToSet(messages[y].covers) /\ x < y /\ SummaryIn(messages, y)
      BY <3>1, CoversFacts
    <3>3. y \in g[N - y] BY <1>2, <3>1, <3>2
    <3>4. PICK n \in 1..N : n = N + 1 - y /\ n - 1 = N - y /\ N + 1 - n = y /\ n <= N - x
      <4>1. /\ N + 1 - y \in 1..N /\ (N + 1 - y) - 1 = N - y /\ N + 1 - (N + 1 - y) = y
            /\ N + 1 - y <= N - x
        BY <3>2
      <4> QED BY <4>1
    <3>5. x \in g[n] BY <3>2, <3>3, <3>4 DEF Stages
    <3>6. g[n] \subseteq g[N - x] BY <1>1, <2>1, <3>4
    <3> QED BY <3>5, <3>6
  <2> QED BY <2>2, <2>3
<1>3. 0 \in R
  <2>1. ASSUME NEW x \in 1..N, N - x <= 0 PROVE Good(x)
    <3>1. \A y \in 1..N : ~(y > x) BY <2>1
    <3> QED BY <1>2, <3>1
  <2> QED BY <2>1
<1>4. ASSUME NEW d \in Nat, d \in R PROVE d + 1 \in R
  <2>1. \A y \in 1..N : N - y <= d => Good(y) BY <1>4
  <2> HIDE DEF R
  <2>2. ASSUME NEW x \in 1..N, N - x <= d + 1 PROVE Good(x)
    <3>1. \A y \in 1..N : y > x => N - y <= d BY <2>2
    <3>2. \A y \in 1..N : y > x => Good(y) BY <2>1, <3>1
    <3> QED BY <1>2, <3>2
  <2> QED BY <2>2 DEF R
<1> HIDE DEF R
<1>5. N \in R BY <1>3, <1>4, Induction
<1>6. \A x \in 1..N : N - x <= N => Good(x) BY <1>5 DEF R
<1>7. N - s <= N OBVIOUS
<1>8. Good(s) BY <1>6, <1>7
<1> QED BY <1>8

\* A message of the branch is in the view of its run, or a summary in the view
\* stands for it, in every state, so between any two writes of a compaction
\* (the summary and the marks are two statements): only a summary of a run
\* outside of the branch can take it away.
THEOREM HistoryIsKept == Spec => []HistoryKept
<1>1. IInv => HistoryKept
  <2>1. SUFFICES ASSUME IInv, NEW i \in Lost
        PROVE  \E s \in Ids : /\ messages[s].run \notin Chain(Latest)
                              /\ i \in ToSet(messages[s].covers)
    BY DEF HistoryKept
  <2>2. TypeOK /\ RowsInv BY <2>1, InvParts
  <2>3. /\ messages \in Seq(Message) /\ History(messages) /\ Ids = 1..Len(messages)
        /\ Len(messages) \in Nat
        /\ summarized \in SUBSET Ids /\ Whole(messages, summarized)
    BY <2>2, RowFacts
  <2>4. PICK N \in Nat : N = Len(messages) BY <2>3
  <2> DEFINE chain == Chain(Latest)
             ids == ToSet(View(Latest))
  <2>5. i \in 1..N /\ messages[i].run \in chain /\ i \notin Told(ids)
    BY <2>3, <2>4 DEF Lost
  <2>6. \A j \in 1..N : messages[j].run \in chain /\ j \notin summarized => j \in ids
    <3>1. /\ View(Latest) \in Seq(Ids) /\ \A j : Has(View(Latest), j) <=> j \in Sees(Latest)
      BY <2>3, ViewFacts
    <3>2. \A j : j \in ids <=> Has(View(Latest), j) BY <3>1 DEF ToSet, Has
    <3> QED BY <2>3, <2>4, <3>1, <3>2 DEF Sees
  <2> HIDE DEF ids, chain
  <2>7. PICK g : Told(ids) = g[N] /\ Stages(g, ids, N) BY <2>3, <2>4, ToldStages
  <2>8. \A n \in 0..N : g[n] \subseteq g[N] BY <2>7 DEF Stages
  <2>9. i \in summarized
    <3>1. SUFFICES ASSUME i \notin summarized PROVE FALSE OBVIOUS
    <3>2. i \in g[0] BY <2>5, <2>6, <2>7, <3>1 DEF Stages
    <3> QED BY <2>4, <2>5, <2>7, <2>8, <3>2
  <2>10. \A j \in summarized : Marked(messages, j) BY <2>2 DEF RowsInv, MarkInv
  <2>11. PICK s \in 1..N : Covers(messages, s, i) BY <2>4, <2>9, <2>10 DEF Marked
  <2>12. i \in ToSet(messages[s].covers) /\ SummaryIn(messages, s)
    BY <2>3, <2>4, <2>11, CoversFacts
  <2>13. messages[s].run \notin chain
    <3>1. SUFFICES ASSUME messages[s].run \in chain PROVE FALSE OBVIOUS
    <3>2. s \in g[N - s]
      BY <2>3, <2>4, <2>6, <2>7, <2>10, <2>12, <3>1, SummariesTold
    <3>3. PICK n \in 1..N : n = N + 1 - s /\ n - 1 = N - s /\ N + 1 - n = s OBVIOUS
    <3>4. s \in g[n-1] /\ s = Len(messages) + 1 - n BY <2>4, <3>2, <3>3
    <3>5. ToSet(messages[s].covers) \subseteq g[n] BY <2>7, <3>4 DEF Stages
    <3>6. i \in g[n] BY <2>12, <3>5
    <3> QED BY <2>5, <2>7, <2>8, <3>3, <3>6
  <2> QED BY <2>3, <2>4, <2>12, <2>13 DEF chain
<1> QED BY <1>1, HistoryInvariant, PTL
-----------------------------------------------------------------------------
(* What any run of the thread would load, in every state.                   *)

\* A run loads what its branch has not marked, regular messages in order, no
\* result without its call, and no call without its results once the calls
\* that an interruption left open have been answered.
ViewSound(r) ==
  /\ ToSet(View(r)) = {i \in Ids : messages[i].run \in Chain(r) /\ i \notin summarized}
  /\ Ordered(messages, View(r)) /\ ResultsFollow(messages, View(r))
  /\ NothingMissing(r) => CallsFollowed(messages, View(r))

\* Whatever the latest run is doing, the view of each run of the thread, so
\* that of a run that a user branches from as well, is sound (pgStore.ts:
\* loadThreadMessages).
THEOREM ViewsAreSound == Spec => [](\A r \in 1..Latest : ViewSound(r))
<1>1. ASSUME IInv, NEW r \in 1..Latest PROVE ViewSound(r)
  <2>1. /\ messages \in Seq(Message) /\ History(messages)
        /\ summarized \in SUBSET Ids /\ Whole(messages, summarized)
    <3>1. TypeOK /\ RowsInv BY <1>1, InvParts
    <3> QED BY <3>1, RowFacts
  <2>2. /\ View(r) \in Seq(Ids)
        /\ \A i : Has(View(r), i) <=> i \in Sees(r)
        /\ Ordered(messages, View(r)) /\ ResultsFollow(messages, View(r))
        /\ NothingMissing(r) => CallsFollowed(messages, View(r))
    BY <2>1, ViewFacts
  <2>3. \A i : i \in ToSet(View(r)) <=> Has(View(r), i) BY <2>2 DEF ToSet, Has
  <2>4. ToSet(View(r)) = Sees(r) BY <2>2, <2>3
  <2> QED BY <2>2, <2>4 DEF ViewSound, Sees
<1>2. IInv => \A r \in 1..Latest : ViewSound(r) BY <1>1
<1> QED BY <1>2, HistoryInvariant, PTL

\* What compaction marks in the database is whole rounds, in every state: no
\* restart or branch finds a call whose results are summarized, or a result
\* whose call is (compaction.ts: summaryEndBeforeSplitToolRound).
THEOREM MarkedRoundsAreWhole == Spec => []Whole(messages, summarized)
<1>1. IInv => Whole(messages, summarized) BY DEF IInv, MarkInv
<1> QED BY <1>1, HistoryInvariant, PTL
=============================================================================
