----------------------- MODULE LiveTranscriberProofs -----------------------
(***************************************************************************)
(* Proofs about LiveTranscriber: whatever is said, however its sound is    *)
(* cut into chunks and windows, the words are told once and in order.      *)
(*                                                                         *)
(* The argument: the window begins in no word and no word before it is     *)
(* left to commit, so every word after the committed point is heard whole  *)
(* or up to the far edge.  What is heard wrong there carries the end of    *)
(* its window, so two windows never agree on it, and the end of a phrase   *)
(* is far enough from the edge for its words to be heard right.  Hence     *)
(* what a step commits is what was said between the old and the new        *)
(* committed point.                                                        *)
(* A commit by force breaks this, a restart or a lost transaction leaves   *)
(* words out but repeats none: IInv has one part for each case.            *)
(***************************************************************************)
EXTENDS LiveTranscriber, SequenceTheorems, WellFoundedInduction, TLAPS

-----------------------------------------------------------------------------
(* Loops. *)

\* A set of naturals that is not empty has a least element.
LEMMA LeastNatural ==
  ASSUME NEW S \in SUBSET Nat, S # {}
  PROVE  \E m \in S : \A x \in S : m <= x
<1>1. IsWellFoundedOn(OpToRel(<, Nat), Nat)
  BY NatLessThanWellFounded
<1>2. PICK m \in S : \A y \in S : ~ (<<y, m>> \in OpToRel(<, Nat))
  BY <1>1, WFMin
<1>3. \A y \in S : ~(y < m)
  BY <1>2 DEF OpToRel
<1> QED
  BY <1>3

\* What holds at the start and is kept by each of N rounds holds after all of them.
LEMMA Climb ==
  ASSUME NEW N \in Nat, NEW S, 0 \in S, \A n \in 1..N : n - 1 \in S => n \in S
  PROVE  \A n \in 0..N : n \in S
<1> DEFINE Bad == {n \in 0..N : n \notin S}
<1> SUFFICES ASSUME Bad # {} PROVE FALSE
  OBVIOUS
<1>1. Bad \in SUBSET Nat
  OBVIOUS
<1>2. PICK m \in Bad : \A n \in Bad : m <= n
  <2> HIDE DEF Bad
  <2> QED BY <1>1, LeastNatural
<1>3. m \in 0..N /\ m # 0 /\ m \notin S
  BY <1>2
<1>4. m \in 1..N /\ m - 1 \in 0..N /\ ~(m <= m - 1)
  BY <1>3
<1>5. m - 1 \in S
  BY <1>2, <1>4
<1> QED BY <1>3, <1>4, <1>5

\* A loop of N rounds: round n makes Round[<<n, y>>] of y.
Loop(f, N, D, x, Round) ==
  f \in [0..N -> D] /\ f[0] = x /\ \A n \in 1..N : f[n] = Round[<<n, f[n - 1]>>]

\* A loop whose rounds stay in D runs.
LEMMA LoopRuns ==
  ASSUME NEW N \in Nat, NEW D, NEW x \in D, NEW Round \in [(1..N) \X D -> D]
  PROVE  \E f : Loop(f, N, D, x, Round)
<1> DEFINE Part(n) == {f \in [0..n -> D] : f[0] = x /\ \A i \in 1..n : f[i] = Round[<<i, f[i - 1]>>]}
           S == {n \in 0..N : Part(n) # {}}
<1>1. 0 \in S
  <2>1. [i \in 0..0 |-> x] \in Part(0)
    OBVIOUS
  <2> QED BY <2>1
<1>2. ASSUME NEW n \in 1..N, n - 1 \in S PROVE n \in S
  <2>1. PICK g \in Part(n - 1) : TRUE
    BY <1>2
  <2>2. g \in [0..(n - 1) -> D] /\ g[0] = x /\ \A i \in 1..(n - 1) : g[i] = Round[<<i, g[i - 1]>>]
    BY <2>1
  <2> DEFINE h == [i \in 0..n |-> IF i = n THEN Round[<<n, g[n - 1]>>] ELSE g[i]]
  <2>3. g[n - 1] \in D /\ <<n, g[n - 1]>> \in (1..N) \X D
    BY <2>2
  <2>4. Round[<<n, g[n - 1]>>] \in D
    BY <2>3
  <2>5. h \in [0..n -> D]
    <3>1. ASSUME NEW i \in 0..n, i # n PROVE i \in 0..(n - 1)
      BY <3>1
    <3> QED BY <2>2, <2>4, <3>1
  <2>6. h[0] = x
    BY <2>2
  <2>7. ASSUME NEW i \in 1..n PROVE h[i] = Round[<<i, h[i - 1]>>]
    <3>1. CASE i = n
      <4>1. h[i - 1] = g[n - 1] /\ h[i] = Round[<<n, g[n - 1]>>]
        BY <3>1
      <4> HIDE DEF h
      <4> QED BY <3>1, <4>1
    <3>2. CASE i # n
      <4>1. i \in 1..(n - 1) /\ i - 1 \in 0..(n - 1) /\ i \in 0..n /\ i - 1 \in 0..n /\ i - 1 # n
        BY <3>2
      <4>2. h[i] = g[i] /\ h[i - 1] = g[i - 1]
        BY <3>2, <4>1
      <4> QED BY <2>2, <4>1, <4>2
    <3> QED BY <3>1, <3>2
  <2>8. h \in Part(n)
    BY <2>5, <2>6, <2>7
  <2> HIDE DEF Part
  <2> QED BY <2>8
<1>3. \A n \in 0..N : n \in S
  <2> HIDE DEF S
  <2> QED BY <1>1, <1>2, Climb
<1>4. Part(N) # {}
  BY <1>3
<1>5. PICK f \in Part(N) : TRUE
  BY <1>4
<1> QED BY <1>5 DEF Loop

-----------------------------------------------------------------------------
(* Keep. *)

\* What n rounds of Keep make of ws.
Kept(r, ws, good, n) ==
  /\ r \in Seq(Word)
  /\ ToSet(r) = {ws[i] : i \in 1..n} \cap good
  /\ InOrder(r)
  /\ Len(r) <= n /\ ((\A i \in 1..n : ws[i] \in good) => Len(r) = n)

\* Keep gives the elements that are in good, in their order.
LEMMA KeepSelects ==
  ASSUME NEW ws \in Seq(Word), InOrder(ws), NEW good
  PROVE  Kept(Keep(ws, good), ws, good, Len(ws))
<1> DEFINE N == Len(ws)
           D == Seq(Word)
           Round == [p \in (1..N) \X D |-> IF ws[p[1]] \in good THEN Append(p[2], ws[p[1]]) ELSE p[2]]
           Rec(f) == [n \in 0..N |-> IF n = 0 THEN <<>>
                                     ELSE IF ws[n] \in good THEN Append(f[n - 1], ws[n]) ELSE f[n - 1]]
           kept == CHOOSE f : f = Rec(f)
<1>1. N \in Nat /\ <<>> \in D /\ \A n \in 1..N : ws[n] \in Word
  OBVIOUS
<1>2. Round \in [(1..N) \X D -> D]
  <2>1. ASSUME NEW n \in 1..N, NEW y \in D PROVE Append(y, ws[n]) \in D
    BY <1>1
  <2> QED BY <2>1
<1>3. PICK f : Loop(f, N, D, <<>>, Round)
  <2> HIDE DEF N, D, Round
  <2> QED BY <1>1, <1>2, LoopRuns
<1>4. f \in [0..N -> D] /\ f[0] = <<>> /\ \A n \in 1..N : f[n] = Round[<<n, f[n - 1]>>]
  BY <1>3 DEF Loop
<1>5. ASSUME NEW n \in 1..N
      PROVE  f[n] = IF ws[n] \in good THEN Append(f[n - 1], ws[n]) ELSE f[n - 1]
  <2>1. n - 1 \in 0..N
    OBVIOUS
  <2>2. f[n - 1] \in D
    BY <1>4, <2>1
  <2>3. <<n, f[n - 1]>> \in (1..N) \X D
    BY <2>2
  <2> QED BY <1>4, <2>3
<1>6. f = Rec(f)
  <2>1. ASSUME NEW n \in 0..N
        PROVE  f[n] = IF n = 0 THEN <<>>
                      ELSE IF ws[n] \in good THEN Append(f[n - 1], ws[n]) ELSE f[n - 1]
    <3>1. n = 0 \/ n \in 1..N
      BY <1>1
    <3>2. CASE n = 0
      BY <1>4, <3>2
    <3>3. CASE n # 0
      <4>1. n \in 1..N
        BY <3>1, <3>3
      <4> HIDE DEF N, D, Round
      <4> QED BY <1>5, <3>3, <4>1
    <3> QED BY <3>2, <3>3
  <2>2. DOMAIN f = 0..N /\ f = [n \in 0..N |-> f[n]]
    BY <1>4
  <2> HIDE DEF N, D, Round
  <2> DEFINE e(n) == IF n = 0 THEN <<>>
                     ELSE IF ws[n] \in good THEN Append(f[n - 1], ws[n]) ELSE f[n - 1]
  <2>3. [n \in 0..N |-> f[n]] = Rec(f)
    <3>1. \A n \in 0..N : f[n] = e(n)
      BY <2>1
    <3>2. Rec(f) = [n \in 0..N |-> e(n)]
      OBVIOUS
    <3> HIDE DEF Rec, e
    <3>3. [n \in 0..N |-> f[n]] = [n \in 0..N |-> e(n)]
      BY <3>1
    <3> QED BY <3>2, <3>3
  <2> QED BY <2>2, <2>3
<1>7. kept = Rec(kept)
  <2> HIDE DEF Rec
  <2> QED BY <1>6
<1>8. kept[0] = <<>> /\ \A n \in 1..N : kept[n] = IF ws[n] \in good THEN Append(kept[n - 1], ws[n]) ELSE kept[n - 1]
  <2>1. \A g : g = Rec(g) => /\ g[0] = <<>>
                            /\ \A n \in 1..N : g[n] = IF ws[n] \in good THEN Append(g[n - 1], ws[n]) ELSE g[n - 1]
    <3> SUFFICES ASSUME NEW g, g = Rec(g)
                 PROVE  /\ g[0] = <<>>
                        /\ \A n \in 1..N : g[n] = IF ws[n] \in good THEN Append(g[n - 1], ws[n]) ELSE g[n - 1]
      OBVIOUS
    <3>1. \A n \in 0..N : g[n] = Rec(g)[n]
      OBVIOUS
    <3> QED BY <1>1, <3>1
  <2> HIDE DEF kept, Rec
  <2> QED BY ONLY <1>7, <2>1
<1>9. Keep(ws, good) = kept[N]
  BY DEF Keep
<1> HIDE DEF kept, N, D, Round, Rec
<1> DEFINE S == {n \in 0..N : Kept(kept[n], ws, good, n)}
<1>10. 0 \in S
  <2>1. Kept(<<>>, ws, good, 0)
    BY DEF Kept, InOrder, ToSet
  <2> QED BY <1>1, <1>8, <2>1
<1>11. ASSUME NEW n \in 1..N, n - 1 \in S PROVE n \in S
  <2> DEFINE r == kept[n - 1]
  <2>1. Kept(r, ws, good, n - 1)
    BY <1>11
  <2>2. /\ r \in Seq(Word) /\ ToSet(r) = {ws[i] : i \in 1..(n - 1)} \cap good /\ InOrder(r)
        /\ Len(r) <= n - 1 /\ ((\A i \in 1..(n - 1) : ws[i] \in good) => Len(r) = n - 1)
    BY <2>1 DEF Kept
  <2>3. ws[n] \in Word /\ n \in 1..Len(ws)
    BY <1>1 DEF N
  <2>4. kept[n] = IF ws[n] \in good THEN Append(r, ws[n]) ELSE r
    BY <1>8
  <2> HIDE DEF r
  <2>5. {ws[i] : i \in 1..n} = {ws[i] : i \in 1..(n - 1)} \cup {ws[n]}
    <3>1. 1..n = (1..(n - 1)) \cup {n}
      BY <1>1
    <3> QED BY <3>1
  <2>6. CASE ws[n] \notin good
    <3>0. Len(r) <= n /\ ~(\A i \in 1..n : ws[i] \in good)
      BY <1>1, <2>2, <2>6
    <3>1. Kept(r, ws, good, n)
      BY <2>2, <2>5, <2>6, <3>0 DEF Kept
    <3> QED BY <1>1, <2>4, <2>6, <3>1
  <2>7. CASE ws[n] \in good
    <3> DEFINE a == Append(r, ws[n])
    <3>1. /\ a \in Seq(Word) /\ Len(a) = Len(r) + 1 /\ a[Len(r) + 1] = ws[n]
          /\ \A i \in 1..Len(r) : a[i] = r[i]
      BY <2>2, <2>3
    <3> HIDE DEF a
    <3>2. ToSet(a) = ToSet(r) \cup {ws[n]}
      <4>1. Len(r) \in Nat /\ DOMAIN a = 1..(Len(r) + 1) /\ DOMAIN r = 1..Len(r)
        BY <2>2, <3>1
      <4>2. DOMAIN a = DOMAIN r \cup {Len(r) + 1}
        BY <4>1
      <4> QED BY <3>1, <4>1, <4>2 DEF ToSet
    <3>3. \A i \in 1..Len(r) : r[i].end <= ws[n].start
      <4>1. ASSUME NEW i \in 1..Len(r) PROVE r[i].end <= ws[n].start
        <5>1. r[i] \in ToSet(r)
          BY <2>2 DEF ToSet
        <5>2. PICK k \in 1..(n - 1) : r[i] = ws[k]
          BY <2>2, <5>1
        <5>3. k \in 1..Len(ws) /\ k < n
          BY <1>1, <2>3
        <5> QED BY <2>3, <5>2, <5>3 DEF InOrder
      <4> QED BY <4>1
    <3>4. InOrder(a)
      <4>1. ASSUME NEW k \in 1..Len(a), NEW l \in 1..Len(a), k < l PROVE a[k].end <= a[l].start
        <5>0. Len(r) \in Nat
          BY <2>2
        <5>1. CASE l = Len(r) + 1
          <6>1. k \in 1..Len(r)
            BY <4>1, <5>0, <5>1, <3>1
          <6> QED BY <3>1, <3>3, <5>1, <6>1
        <5>2. CASE l # Len(r) + 1
          <6>1. k \in 1..Len(r) /\ l \in 1..Len(r)
            BY <4>1, <5>0, <5>2, <3>1
          <6> QED BY <2>2, <3>1, <4>1, <6>1 DEF InOrder
        <5> QED BY <5>1, <5>2
      <4> QED BY <4>1 DEF InOrder
    <3>5. Len(a) <= n /\ ((\A i \in 1..n : ws[i] \in good) => Len(a) = n)
      BY <1>1, <2>2, <3>1
    <3>6. Kept(a, ws, good, n)
      BY <2>2, <2>5, <2>7, <3>1, <3>2, <3>4, <3>5 DEF Kept
    <3>7. kept[n] = a
      BY <2>4, <2>7 DEF a
    <3> QED BY <1>1, <3>6, <3>7
  <2> QED BY <2>6, <2>7
<1>12. \A n \in 0..N : n \in S
  <2> HIDE DEF S
  <2> QED BY <1>1, <1>10, <1>11, Climb
<1>13. N \in 0..N
  BY <1>1
<1>14. Kept(kept[N], ws, good, N)
  BY <1>12, <1>13
<1> QED BY <1>9, <1>14 DEF N

-----------------------------------------------------------------------------
(* Sequences of words, cut in two and put together. *)

\* r holds n elements of s, those after element k.
IsPart(r, s, k, n, S) ==
  r \in Seq(S) /\ Len(r) = n /\ DOMAIN r = 1..n /\ \A i \in 1..n : r[i] = s[k + i]

\* The two parts that SubSeq makes of a sequence.
LEMMA Part ==
  ASSUME NEW S, NEW ws \in Seq(S), NEW n \in 0..Len(ws)
  PROVE  /\ IsPart(SubSeq(ws, 1, n), ws, 0, n, S)
         /\ IsPart(SubSeq(ws, n + 1, Len(ws)), ws, n, Len(ws) - n, S)
<1>1. SubSeq(ws, 1, n) \in Seq(S)
  OBVIOUS
<1>2. Len(SubSeq(ws, 1, n)) = n
  OBVIOUS
<1>3. \A i \in 1..n : SubSeq(ws, 1, n)[i] = ws[0 + i]
  OBVIOUS
<1>4. SubSeq(ws, n + 1, Len(ws)) \in Seq(S)
  OBVIOUS
<1>5. Len(SubSeq(ws, n + 1, Len(ws))) = Len(ws) - n
  OBVIOUS
<1>6. \A i \in 1..(Len(ws) - n) : SubSeq(ws, n + 1, Len(ws))[i] = ws[n + i]
  OBVIOUS
<1>7. DOMAIN SubSeq(ws, 1, n) = 1..n
  BY <1>1, <1>2
<1>8. DOMAIN SubSeq(ws, n + 1, Len(ws)) = 1..(Len(ws) - n)
  BY <1>4, <1>5
<1> QED BY <1>1, <1>2, <1>3, <1>4, <1>5, <1>6, <1>7, <1>8 DEF IsPart

\* A sequence is the first k elements and the rest.
LEMMA Halves ==
  ASSUME NEW ws \in Seq(Word), NEW n \in 0..Len(ws)
  PROVE  LET a == SubSeq(ws, 1, n)
             b == SubSeq(ws, n + 1, Len(ws))
         IN  /\ a \in Seq(Word) /\ Len(a) = n /\ \A i \in 1..n : a[i] = ws[i]
             /\ b \in Seq(Word) /\ Len(b) = Len(ws) - n /\ \A i \in 1..Len(b) : b[i] = ws[n + i]
             /\ ToSet(a) \cup ToSet(b) = ToSet(ws)
             /\ InOrder(ws) => InOrder(a) /\ InOrder(b) /\ Earlier(ToSet(a), ToSet(b))
<1> DEFINE a == SubSeq(ws, 1, n)
           b == SubSeq(ws, n + 1, Len(ws))
<1>0. Len(ws) \in Nat /\ n \in Nat /\ n <= Len(ws) /\ DOMAIN ws = 1..Len(ws)
  OBVIOUS
<1>a. IsPart(a, ws, 0, n, Word) /\ IsPart(b, ws, n, Len(ws) - n, Word)
  BY Part
<1> HIDE DEF a, b
<1>1. a \in Seq(Word) /\ Len(a) = n /\ (\A i \in 1..n : a[i] = ws[i]) /\ DOMAIN a = 1..n
  BY <1>a DEF IsPart
<1>2. /\ b \in Seq(Word) /\ Len(b) = Len(ws) - n /\ (\A i \in 1..Len(b) : b[i] = ws[n + i])
      /\ DOMAIN b = 1..Len(b)
  BY <1>a DEF IsPart
<1>3. ToSet(a) = {ws[i] : i \in 1..n} /\ ToSet(b) = {ws[n + i] : i \in 1..Len(b)}
  <2>1. ToSet(a) = {a[i] : i \in 1..n} /\ ToSet(b) = {b[i] : i \in 1..Len(b)}
    BY <1>1, <1>2 DEF ToSet
  <2>2. {a[i] : i \in 1..n} = {ws[i] : i \in 1..n}
    BY <1>1
  <2>3. {b[i] : i \in 1..Len(b)} = {ws[n + i] : i \in 1..Len(b)}
    BY <1>2
  <2> QED BY <2>1, <2>2, <2>3
<1>4. ToSet(a) \cup ToSet(b) = ToSet(ws)
  <2>1. ASSUME NEW w \in ToSet(ws) PROVE w \in ToSet(a) \cup ToSet(b)
    <3>1. PICK k \in 1..Len(ws) : w = ws[k]
      BY <1>0 DEF ToSet
    <3>2. CASE k <= n
      <4>1. k \in 1..n
        BY <1>0, <3>2
      <4> QED BY <1>3, <3>1, <4>1
    <3>3. CASE ~(k <= n)
      <4>1. k - n \in 1..Len(b) /\ n + (k - n) = k
        BY <1>0, <1>2, <3>3
      <4> QED BY <1>3, <3>1, <4>1
    <3> QED BY <3>2, <3>3
  <2>2. ToSet(a) \subseteq ToSet(ws)
    <3>1. \A i \in 1..n : i \in 1..Len(ws)
      BY <1>0
    <3> QED BY <1>0, <1>3, <3>1 DEF ToSet
  <2>3. ToSet(b) \subseteq ToSet(ws)
    <3>1. \A i \in 1..Len(b) : n + i \in 1..Len(ws)
      BY <1>0, <1>2
    <3> QED BY <1>0, <1>3, <3>1 DEF ToSet
  <2> QED BY <2>1, <2>2, <2>3
<1>5. ASSUME InOrder(ws) PROVE InOrder(a) /\ InOrder(b) /\ Earlier(ToSet(a), ToSet(b))
  <2>1. \A k, l \in 1..Len(ws) : k < l => ws[k].end <= ws[l].start
    BY <1>5 DEF InOrder
  <2>2. InOrder(a)
    <3>1. \A i \in 1..n : i \in 1..Len(ws)
      BY <1>0
    <3> QED BY <1>1, <2>1, <3>1 DEF InOrder
  <2>3. InOrder(b)
    <3>1. ASSUME NEW k \in 1..Len(b), NEW l \in 1..Len(b), k < l PROVE b[k].end <= b[l].start
      <4>1. n + k \in 1..Len(ws) /\ n + l \in 1..Len(ws) /\ n + k < n + l
        BY <1>0, <1>2, <3>1
      <4> QED BY <1>2, <2>1, <4>1
    <3> QED BY <3>1 DEF InOrder
  <2>4. ASSUME NEW v \in ToSet(a), NEW w \in ToSet(b) PROVE v.end <= w.start
    <3>1. PICK k \in 1..n : v = ws[k]
      BY <1>3
    <3>2. PICK l \in 1..Len(b) : w = ws[n + l]
      BY <1>3
    <3>3. k \in 1..Len(ws) /\ n + l \in 1..Len(ws) /\ k < n + l
      BY <1>0, <1>2
    <3> QED BY <2>1, <3>1, <3>2, <3>3
  <2> QED BY <2>2, <2>3, <2>4 DEF Earlier
<1> QED BY <1>1, <1>2, <1>4, <1>5 DEF a, b

\* r is a with b after it.
IsJoin(r, a, b, S) ==
  /\ r \in Seq(S) /\ Len(r) = Len(a) + Len(b)
  /\ \A i \in 1..Len(a) : r[i] = a[i]
  /\ \A i \in 1..Len(b) : r[Len(a) + i] = b[i]

\* What an append of two sequences gives.
LEMMA Join ==
  ASSUME NEW S, NEW a \in Seq(S), NEW b \in Seq(S)
  PROVE  IsJoin(a \o b, a, b, S)
BY DEF IsJoin

\* Words that follow each other, and later words that do so, follow each other.
LEMMA Joined ==
  ASSUME NEW a \in Seq(Word), NEW b \in Seq(Word)
  PROVE  /\ a \o b \in Seq(Word) /\ Len(a \o b) = Len(a) + Len(b)
         /\ ToSet(a \o b) = ToSet(a) \cup ToSet(b)
         /\ InOrder(a) /\ InOrder(b) /\ Earlier(ToSet(a), ToSet(b)) => InOrder(a \o b)
<1> DEFINE ws == a \o b
<1>1. /\ ws \in Seq(Word) /\ Len(ws) = Len(a) + Len(b) /\ Len(a) \in Nat /\ Len(b) \in Nat
      /\ \A i \in 1..Len(a) : ws[i] = a[i]
      /\ \A i \in 1..Len(b) : ws[Len(a) + i] = b[i]
      /\ DOMAIN a = 1..Len(a) /\ DOMAIN b = 1..Len(b) /\ DOMAIN ws = 1..Len(ws)
  OBVIOUS
<1> HIDE DEF ws
<1>2. \A k \in 1..Len(ws) : k \in 1..Len(a) \/ (k - Len(a) \in 1..Len(b) /\ Len(a) + (k - Len(a)) = k)
  BY <1>1
<1>3. (\A k \in 1..Len(a) : k \in 1..Len(ws)) /\ \A k \in 1..Len(b) : Len(a) + k \in 1..Len(ws)
  BY <1>1
<1>4. ToSet(ws) = ToSet(a) \cup ToSet(b)
  <2>1. ToSet(ws) \subseteq ToSet(a) \cup ToSet(b)
    <3>1. ASSUME NEW k \in 1..Len(ws) PROVE ws[k] \in ToSet(a) \cup ToSet(b)
      BY <1>1, <1>2 DEF ToSet
    <3> QED BY <1>1, <3>1 DEF ToSet
  <2>2. ToSet(a) \subseteq ToSet(ws) /\ ToSet(b) \subseteq ToSet(ws)
    <3>1. ASSUME NEW k \in 1..Len(a) PROVE a[k] \in ToSet(ws)
      <4>1. ws[k] \in ToSet(ws)
        BY <1>1, <1>3 DEF ToSet
      <4> QED BY <1>1, <4>1
    <3>2. ASSUME NEW k \in 1..Len(b) PROVE b[k] \in ToSet(ws)
      <4>1. ws[Len(a) + k] \in ToSet(ws)
        BY <1>1, <1>3 DEF ToSet
      <4> QED BY <1>1, <4>1
    <3> QED BY <1>1, <3>1, <3>2 DEF ToSet
  <2> QED BY <2>1, <2>2
<1>5. ASSUME InOrder(a), InOrder(b), Earlier(ToSet(a), ToSet(b)) PROVE InOrder(ws)
  <2>1. ASSUME NEW k \in 1..Len(ws), NEW l \in 1..Len(ws), k < l PROVE ws[k].end <= ws[l].start
    <3>1. CASE l \in 1..Len(a)
      <4>1. k \in 1..Len(a)
        BY <1>1, <2>1, <3>1
      <4> QED BY <1>1, <1>5, <2>1, <3>1, <4>1 DEF InOrder
    <3>2. CASE k \notin 1..Len(a)
      <4> DEFINE p == k - Len(a)
                 q == l - Len(a)
      <4>1. p \in 1..Len(b) /\ q \in 1..Len(b) /\ p < q /\ Len(a) + p = k /\ Len(a) + q = l
        BY <1>1, <2>1, <3>2
      <4>2. b[p].end <= b[q].start
        <5> HIDE DEF p, q
        <5> QED BY <1>5, <4>1 DEF InOrder
      <4>3. ws[Len(a) + p] = b[p] /\ ws[Len(a) + q] = b[q]
        <5> HIDE DEF p, q
        <5> QED BY <1>1, <4>1
      <4> HIDE DEF p, q
      <4> QED BY <4>1, <4>2, <4>3
    <3>3. CASE k \in 1..Len(a) /\ l \notin 1..Len(a)
      <4> DEFINE q == l - Len(a)
      <4>1. q \in 1..Len(b) /\ Len(a) + q = l
        BY <1>1, <2>1, <3>3
      <4> HIDE DEF q
      <4>2. a[k] \in ToSet(a) /\ b[q] \in ToSet(b)
        BY <1>1, <3>3, <4>1 DEF ToSet
      <4>3. ws[k] = a[k] /\ ws[l] = b[q]
        BY <1>1, <3>3, <4>1
      <4> QED BY <1>5, <4>2, <4>3 DEF Earlier
    <3> QED BY <3>1, <3>2, <3>3
  <2> QED BY <2>1 DEF InOrder
<1> QED BY <1>1, <1>4, <1>5 DEF ws

\* Runs of words, one list of them after the other.
LEMMA Runs ==
  ASSUME NEW ss \in Seq(Seq(Word)), NEW zz \in Seq(Seq(Word))
  PROVE  /\ ss \o zz \in Seq(Seq(Word))
         /\ WordsOf(ss \o zz) = WordsOf(ss) \cup WordsOf(zz)
         /\ Consecutive(ss \o zz) <=>
              Consecutive(ss) /\ Consecutive(zz) /\ Earlier(WordsOf(ss), WordsOf(zz))
<1> DEFINE all == ss \o zz
<1>1. /\ all \in Seq(Seq(Word)) /\ Len(all) = Len(ss) + Len(zz) /\ Len(ss) \in Nat /\ Len(zz) \in Nat
      /\ \A i \in 1..Len(ss) : all[i] = ss[i]
      /\ \A i \in 1..Len(zz) : all[Len(ss) + i] = zz[i]
  OBVIOUS
<1> HIDE DEF all
<1>0. Len(ss) \in Nat /\ Len(zz) \in Nat /\ Len(all) = Len(ss) + Len(zz)
  BY <1>1
<1>2. \A k \in 1..Len(all) : k \in 1..Len(ss) \/ (k - Len(ss) \in 1..Len(zz) /\ Len(ss) + (k - Len(ss)) = k)
  BY <1>0
<1>3. /\ \A k \in 1..Len(ss) : k \in 1..Len(all)
      /\ \A l \in 1..Len(zz) : Len(ss) + l \in 1..Len(all) /\ \A k \in 1..Len(ss) : k < Len(ss) + l
  BY <1>0
<1>4. WordsOf(all) = WordsOf(ss) \cup WordsOf(zz)
  <2>1. ASSUME NEW k \in 1..Len(all) PROVE ToSet(all[k]) \subseteq WordsOf(ss) \cup WordsOf(zz)
    <3>1. CASE k \in 1..Len(ss)
      BY <1>1, <3>1 DEF WordsOf
    <3>2. CASE k - Len(ss) \in 1..Len(zz) /\ Len(ss) + (k - Len(ss)) = k
      <4>1. all[k] = zz[k - Len(ss)]
        BY <1>1, <3>2
      <4> QED BY <3>2, <4>1 DEF WordsOf
    <3> QED BY <1>2, <3>1, <3>2
  <2>2. ASSUME NEW k \in 1..Len(ss) PROVE ToSet(ss[k]) \subseteq WordsOf(all)
    BY <1>1, <1>3 DEF WordsOf
  <2>3. ASSUME NEW k \in 1..Len(zz) PROVE ToSet(zz[k]) \subseteq WordsOf(all)
    <3>1. all[Len(ss) + k] = zz[k] /\ Len(ss) + k \in 1..Len(all)
      BY <1>1, <1>3
    <3> QED BY <3>1 DEF WordsOf
  <2> QED BY <2>1, <2>2, <2>3 DEF WordsOf
<1>5. ASSUME Consecutive(ss), Consecutive(zz), Earlier(WordsOf(ss), WordsOf(zz)) PROVE Consecutive(all)
  <2>1. ASSUME NEW k \in 1..Len(all) PROVE InOrder(all[k])
    <3>1. CASE k \in 1..Len(ss)
      BY <1>1, <1>5, <3>1 DEF Consecutive
    <3>2. CASE k - Len(ss) \in 1..Len(zz) /\ Len(ss) + (k - Len(ss)) = k
      <4>1. all[k] = zz[k - Len(ss)]
        BY <1>1, <3>2
      <4> QED BY <1>5, <3>2, <4>1 DEF Consecutive
    <3> QED BY <1>2, <3>1, <3>2
  <2>2. ASSUME NEW k \in 1..Len(all), NEW l \in 1..Len(all), k < l
        PROVE  Earlier(ToSet(all[k]), ToSet(all[l]))
    <3>1. CASE l \in 1..Len(ss)
      <4>1. k \in 1..Len(ss)
        BY <1>1, <2>2, <3>1
      <4> QED BY <1>1, <1>5, <2>2, <3>1, <4>1 DEF Consecutive
    <3>2. CASE k \notin 1..Len(ss)
      <4> DEFINE p == k - Len(ss)
                 q == l - Len(ss)
      <4>1. p \in 1..Len(zz) /\ q \in 1..Len(zz) /\ p < q /\ Len(ss) + p = k /\ Len(ss) + q = l
        BY <1>0, <2>2, <3>2
      <4> HIDE DEF p, q
      <4>2. Earlier(ToSet(zz[p]), ToSet(zz[q]))
        BY <1>5, <4>1 DEF Consecutive
      <4>3. all[k] = zz[p] /\ all[l] = zz[q]
        BY <1>1, <4>1
      <4> QED BY <4>2, <4>3
    <3>3. CASE k \in 1..Len(ss) /\ l \notin 1..Len(ss)
      <4> DEFINE q == l - Len(ss)
      <4>1. q \in 1..Len(zz) /\ Len(ss) + q = l
        BY <1>1, <2>2, <3>3
      <4> HIDE DEF q
      <4>2. all[k] = ss[k] /\ all[l] = zz[q]
        BY <1>1, <3>3, <4>1
      <4>3. ToSet(all[k]) \subseteq WordsOf(ss) /\ ToSet(all[l]) \subseteq WordsOf(zz)
        BY <3>3, <4>1, <4>2 DEF WordsOf
      <4> QED BY <1>5, <4>3 DEF Earlier
    <3> QED BY <3>1, <3>2, <3>3
  <2> QED BY <2>1, <2>2 DEF Consecutive
<1>6. ASSUME Consecutive(all) PROVE Consecutive(ss) /\ Consecutive(zz) /\ Earlier(WordsOf(ss), WordsOf(zz))
  <2>1. Consecutive(ss)
    BY <1>1, <1>3, <1>6 DEF Consecutive
  <2>2. ASSUME NEW k \in 1..Len(zz) PROVE InOrder(zz[k])
    <3>1. InOrder(all[Len(ss) + k])
      BY <1>3, <1>6 DEF Consecutive
    <3> QED BY <1>1, <3>1
  <2>3. ASSUME NEW k \in 1..Len(zz), NEW l \in 1..Len(zz), k < l PROVE Earlier(ToSet(zz[k]), ToSet(zz[l]))
    <3>1. Len(ss) + k < Len(ss) + l
      BY <1>1, <2>3
    <3>2. Earlier(ToSet(all[Len(ss) + k]), ToSet(all[Len(ss) + l]))
      BY <1>3, <1>6, <3>1 DEF Consecutive
    <3> QED BY <1>1, <3>2
  <2>4. ASSUME NEW v \in WordsOf(ss), NEW w \in WordsOf(zz) PROVE v.end <= w.start
    <3>1. PICK k \in 1..Len(ss) : v \in ToSet(ss[k])
      BY DEF WordsOf
    <3>2. PICK l \in 1..Len(zz) : w \in ToSet(zz[l])
      BY DEF WordsOf
    <3>3. k \in 1..Len(all) /\ Len(ss) + l \in 1..Len(all) /\ k < Len(ss) + l
      BY <1>3
    <3>4. Earlier(ToSet(all[k]), ToSet(all[Len(ss) + l]))
      BY <1>6, <3>3 DEF Consecutive
    <3>5. all[k] = ss[k] /\ all[Len(ss) + l] = zz[l]
      BY <1>1
    <3> QED BY <3>1, <3>2, <3>4, <3>5 DEF Earlier
  <2> QED BY <2>1, <2>2, <2>3, <2>4 DEF Consecutive, Earlier
<1>7. all \in Seq(Seq(Word))
  BY <1>1
<1>8. Consecutive(all) <=> Consecutive(ss) /\ Consecutive(zz) /\ Earlier(WordsOf(ss), WordsOf(zz))
  BY <1>5, <1>6
<1> QED BY <1>4, <1>7, <1>8 DEF all

\* In which order lists of runs are put together does not matter.
LEMMA RunsAssociate ==
  ASSUME NEW a \in Seq(Seq(Word)), NEW b \in Seq(Seq(Word)), NEW c \in Seq(Seq(Word))
  PROVE  (a \o b) \o c = a \o (b \o c)
BY ConcatAssociative

\* One run, and two of them.
LEMMA OneRun ==
  ASSUME NEW a \in Seq(Word)
  PROVE  <<a>> \in Seq(Seq(Word)) /\ WordsOf(<<a>>) = ToSet(a) /\ (Consecutive(<<a>>) <=> InOrder(a))
<1>1. /\ <<a>> \in Seq(Seq(Word)) /\ Len(<<a>>) = 1 /\ <<a>>[1] = a
      /\ (\A i \in 1..Len(<<a>>) : i = 1) /\ 1 \in 1..Len(<<a>>)
  OBVIOUS
<1> DEFINE aa == <<a>>
<1> HIDE DEF aa
<1>2. /\ aa \in Seq(Seq(Word)) /\ aa[1] = a
      /\ (\A i \in 1..Len(aa) : i = 1) /\ 1 \in 1..Len(aa)
  BY <1>1 DEF aa
<1>3. WordsOf(aa) = ToSet(a)
  BY <1>2 DEF WordsOf
<1>4. \A i, j \in 1..Len(aa) : ~(i < j)
  BY <1>2
<1>5. Consecutive(aa) <=> InOrder(a)
  BY <1>2, <1>4 DEF Consecutive
<1> QED BY <1>1, <1>3, <1>5 DEF aa

\* An utterance cut in two is as much in order as before.
LEMMA TwoRuns ==
  ASSUME NEW a \in Seq(Word), NEW b \in Seq(Word)
  PROVE  /\ <<a, b>> \in Seq(Seq(Word)) /\ WordsOf(<<a, b>>) = ToSet(a) \cup ToSet(b)
         /\ Consecutive(<<a, b>>) <=> InOrder(a) /\ InOrder(b) /\ Earlier(ToSet(a), ToSet(b))
<1> DEFINE aa == <<a>>
           bb == <<b>>
           W  == Seq(Word)
<1>1. aa \in Seq(W) /\ bb \in Seq(W)
  OBVIOUS
<1>2. <<a, b>> = aa \o bb
  <2>1. <<a, b>> \in Seq(W) /\ Len(<<a, b>>) = 2 /\ <<a, b>>[1] = a /\ <<a, b>>[2] = b
    OBVIOUS
  <2>2. Len(aa) = 1 /\ Len(bb) = 1 /\ aa[1] = a /\ bb[1] = b
    OBVIOUS
  <2> DEFINE cc == aa \o bb
  <2>3. cc \in Seq(W) /\ Len(cc) = 2 /\ cc[1] = a /\ cc[2] = b
    <3> HIDE DEF W, aa, bb
    <3>0. IsJoin(cc, aa, bb, W)
      BY ONLY <1>1, Join DEF cc
    <3> HIDE DEF cc
    <3>a. /\ cc \in Seq(W) /\ Len(cc) = Len(aa) + Len(bb)
          /\ \A i \in 1..Len(aa) : cc[i] = aa[i]
          /\ \A i \in 1..Len(bb) : cc[Len(aa) + i] = bb[i]
      BY ONLY <3>0 DEF IsJoin
    <3>1. cc \in Seq(W) /\ Len(cc) = 2
      BY <3>a, <2>2
    <3>2. cc[1] = a
      BY <3>a, <2>2
    <3>3. cc[2] = b
      <4>1. cc[Len(aa) + 1] = bb[1]
        BY <3>a, <2>2
      <4> QED BY <4>1, <2>2
    <3> QED BY <3>1, <3>2, <3>3
  <2> DEFINE dd == <<a, b>>
  <2>4. \A i \in 1..Len(dd) : dd[i] = cc[i]
    <3>1. \A i \in 1..Len(dd) : i = 1 \/ i = 2
      OBVIOUS
    <3> HIDE DEF cc
    <3> QED BY <2>1, <2>3, <3>1
  <2> HIDE DEF W, cc, dd
  <2>5. dd = cc
    BY <2>1, <2>3, <2>4, SeqEqual DEF dd
  <2> QED BY <2>5 DEF cc, dd
<1>3. /\ WordsOf(aa) = ToSet(a) /\ WordsOf(bb) = ToSet(b)
      /\ (Consecutive(aa) <=> InOrder(a)) /\ (Consecutive(bb) <=> InOrder(b))
  BY OneRun
<1> HIDE DEF aa, bb
<1>4. /\ aa \o bb \in Seq(Seq(Word))
      /\ WordsOf(aa \o bb) = WordsOf(aa) \cup WordsOf(bb)
      /\ Consecutive(aa \o bb) <=>
           Consecutive(aa) /\ Consecutive(bb) /\ Earlier(WordsOf(aa), WordsOf(bb))
  BY ONLY <1>1, Runs
<1> QED BY <1>2, <1>3, <1>4

-----------------------------------------------------------------------------
(* Pieces. *)

\* A split is inside of the utterance; none is needed if no pause is long.
LEMMA SplitGood ==
  ASSUME NEW v \in Seq(Word)
  PROVE  /\ SplitAt(v) = {} => Unbridged(v)
         /\ \A i \in SplitAt(v) : i \in 2..Len(v) /\ \A k \in 2..(i - 1) : Gap(v, k) < PauseSplit
<1>1. Len(v) \in Nat /\ PauseSplit \in Nat
  BY LiveAssumption
<1>2. ASSUME NEW k \in 2..Len(v) PROVE Gap(v, k) \in Int
  <2>1. k \in 1..Len(v) /\ k - 1 \in 1..Len(v)
    BY <1>1
  <2>2. v[k] \in Word /\ v[k - 1] \in Word
    BY <2>1
  <2>3. v[k].start \in Nat /\ v[k - 1].end \in Nat
    BY <2>2 DEF Word
  <2> QED BY <2>3 DEF Gap
<1>3. Pauses(v) \in SUBSET (2..Len(v))
  BY DEF Pauses
<1>4. \A k \in 2..Len(v) : k \notin Pauses(v) => Gap(v, k) < PauseSplit
  <2>1. ASSUME NEW k \in 2..Len(v), k \notin Pauses(v) PROVE ~(Gap(v, k) >= PauseSplit)
    BY <2>1 DEF Pauses
  <2> QED BY <1>1, <1>2, <2>1
<1>5. CASE Pauses(v) # {}
  <2> DEFINE m == CHOOSE i \in Pauses(v) : \A k \in Pauses(v) : i <= k
  <2>1. \E i \in Pauses(v) : \A k \in Pauses(v) : i <= k
    <3>1. Pauses(v) \in SUBSET Nat
      BY <1>1, <1>3
    <3> QED BY <1>5, <3>1, LeastNatural
  <2>2. m \in Pauses(v) /\ \A k \in Pauses(v) : m <= k
    BY <2>1
  <2>3. SplitAt(v) = {m}
    BY <1>5 DEF SplitAt
  <2> HIDE DEF m
  <2>4. m \in 2..Len(v)
    BY <1>3, <2>2
  <2>5. ASSUME NEW k \in 2..(m - 1) PROVE Gap(v, k) < PauseSplit
    <3>1. k \in 2..Len(v) /\ ~(m <= k)
      BY <1>1, <2>4
    <3> QED BY <1>4, <2>2, <3>1
  <2> QED BY <2>3, <2>4, <2>5
<1>6. CASE Pauses(v) = {}
  <2>1. \A k \in 2..Len(v) : Gap(v, k) < PauseSplit
    BY <1>4, <1>6
  <2>2. ASSUME NEW i \in SplitAt(v) PROVE i \in 2..Len(v)
    BY <1>6, <2>2 DEF SplitAt
  <2>3. ASSUME NEW i \in 2..Len(v), NEW k \in 2..(i - 1) PROVE k \in 2..Len(v)
    BY <1>1
  <2> QED BY <2>1, <2>2, <2>3 DEF Unbridged
<1> QED BY <1>5, <1>6

\* A list that is not empty is its front and its last element.
LEMMA FrontAndLast ==
  ASSUME NEW S, NEW ps \in Seq(S), ps # <<>>
  PROVE  /\ Len(ps) \in Nat \ {0} /\ Last(ps) \in S /\ Last(ps) = ps[Len(ps)]
         /\ Front(ps) \in Seq(S) /\ Len(Front(ps)) = Len(ps) - 1
         /\ \A i \in 1..(Len(ps) - 1) : Front(ps)[i] = ps[i]
         /\ ps = Front(ps) \o <<Last(ps)>>
<1> DEFINE n == Len(ps) - 1
           f == SubSeq(ps, 1, n)
           l == ps[Len(ps)]
<1>1. Len(ps) \in Nat \ {0} /\ l \in S /\ n \in 0..Len(ps)
  OBVIOUS
<1>2. IsPart(f, ps, 0, n, S)
  <2> HIDE DEF n
  <2> QED BY <1>1, Part
<1>3. f = Front(ps) /\ l = Last(ps)
  BY DEF Front, Last
<1> HIDE DEF f, l
<1>4. f \in Seq(S) /\ Len(f) = n /\ \A i \in 1..n : f[i] = ps[i]
  BY <1>1, <1>2 DEF IsPart
<1> DEFINE ll == <<l>>
           r == f \o ll
<1>5. ll \in Seq(S) /\ Len(ll) = 1 /\ ll[1] = l
  BY <1>1
<1> HIDE DEF ll
<1>6. IsJoin(r, f, ll, S)
  BY ONLY <1>4, <1>5, Join DEF r
<1> HIDE DEF r
<1>7. /\ r \in Seq(S) /\ Len(r) = Len(f) + Len(ll)
      /\ \A i \in 1..Len(f) : r[i] = f[i]
      /\ r[Len(f) + 1] = ll[1]
  <2>1. 1 \in 1..Len(ll)
    BY <1>5
  <2> QED BY <1>6, <2>1 DEF IsJoin
<1>8. ps = r
  <2>1. Len(ps) = Len(r)
    BY <1>1, <1>4, <1>5, <1>7
  <2>2. ASSUME NEW i \in 1..Len(ps) PROVE ps[i] = r[i]
    <3>1. CASE i = Len(ps)
      <4>1. Len(f) + 1 = i
        BY <1>1, <1>4, <3>1
      <4> QED BY <1>5, <1>7, <3>1, <4>1 DEF l
    <3>2. CASE i # Len(ps)
      <4>1. i \in 1..n
        BY <1>1, <3>2
      <4> QED BY <1>4, <1>7, <4>1
    <3> QED BY <3>1, <3>2
  <2> QED BY <1>7, <2>1, <2>2, SeqEqual
<1> QED BY <1>1, <1>3, <1>4, <1>8 DEF r, ll, l

\* What n rounds make of an utterance.
Cutting(ps, u, n) ==
  /\ ps \in Seq(Seq(Word)) /\ ps # <<>>
  /\ WordsOf(ps) = ToSet(u)
  /\ InOrder(u) => Consecutive(ps)
  /\ \A i \in 1..(Len(ps) - 1) : Unbridged(ps[i])
  /\ Unbridged(Last(ps)) \/ Len(Last(ps)) <= Len(u) - n

\* A round keeps the words and their order; it shortens the last piece or stops.
LEMMA CutLastGood ==
  ASSUME NEW u \in Seq(Word), NEW n \in 1..Len(u), NEW ps, Cutting(ps, u, n - 1)
  PROVE  Cutting(CutLast(ps), u, n)
<1> DEFINE v == Last(ps)
           f == Front(ps)
<1>1. /\ ps \in Seq(Seq(Word)) /\ ps # <<>> /\ WordsOf(ps) = ToSet(u)
      /\ InOrder(u) => Consecutive(ps)
      /\ \A i \in 1..(Len(ps) - 1) : Unbridged(ps[i])
      /\ Unbridged(v) \/ Len(v) <= Len(u) - (n - 1)
  BY DEF Cutting
<1>2. /\ Len(ps) \in Nat \ {0} /\ v \in Seq(Word) /\ f \in Seq(Seq(Word)) /\ Len(f) = Len(ps) - 1
      /\ \A i \in 1..(Len(ps) - 1) : f[i] = ps[i]
      /\ ps = f \o <<v>>
  BY <1>1, FrontAndLast
<1>3. Len(u) \in Nat /\ Len(v) \in Nat
  BY <1>2
<1>4. CASE v = <<>> \/ SplitAt(v) = {}
  <2>1. CutLast(ps) = ps
    BY <1>4 DEF CutLast
  <2>2. Unbridged(v)
    <3>1. CASE v = <<>>
      BY <3>1 DEF Unbridged
    <3>2. CASE SplitAt(v) = {}
      BY <1>2, <3>2, SplitGood
    <3> QED BY <1>4, <3>1, <3>2
  <2> QED BY <1>1, <2>1, <2>2 DEF Cutting
<1>5. CASE ~(v = <<>> \/ SplitAt(v) = {})
  <2> DEFINE i == CHOOSE k \in SplitAt(v) : TRUE
             a == SubSeq(v, 1, i - 1)
             b == SubSeq(v, i, Len(v))
             two == <<a, b>>
             r == f \o two
  <2>1. CutLast(ps) = r
    BY <1>5 DEF CutLast
  <2>2. i \in SplitAt(v)
    BY <1>5
  <2> HIDE DEF i
  <2>3. i \in 2..Len(v) /\ \A k \in 2..(i - 1) : Gap(v, k) < PauseSplit
    BY <1>2, <2>2, SplitGood
  <2>4. i - 1 \in 0..Len(v) /\ (i - 1) + 1 = i
    BY <1>3, <2>3
  <2>5. /\ a \in Seq(Word) /\ Len(a) = i - 1 /\ \A k \in 1..(i - 1) : a[k] = v[k]
        /\ b \in Seq(Word) /\ Len(b) = Len(v) - (i - 1) /\ \A k \in 1..Len(b) : b[k] = v[(i - 1) + k]
        /\ ToSet(a) \cup ToSet(b) = ToSet(v)
        /\ InOrder(v) => InOrder(a) /\ InOrder(b) /\ Earlier(ToSet(a), ToSet(b))
    <3> DEFINE m == i - 1
    <3>1. m \in 0..Len(v) /\ b = SubSeq(v, m + 1, Len(v)) /\ a = SubSeq(v, 1, m)
      BY <2>4
    <3> HIDE DEF m, a, b
    <3>2. /\ a \in Seq(Word) /\ Len(a) = m /\ \A k \in 1..m : a[k] = v[k]
          /\ b \in Seq(Word) /\ Len(b) = Len(v) - m /\ \A k \in 1..Len(b) : b[k] = v[m + k]
          /\ ToSet(a) \cup ToSet(b) = ToSet(v)
          /\ InOrder(v) => InOrder(a) /\ InOrder(b) /\ Earlier(ToSet(a), ToSet(b))
      BY ONLY <1>2, <3>1, Halves
    <3> QED BY <3>2 DEF m
  <2> HIDE DEF a, b
  <2>6. Unbridged(a)
    <3>1. ASSUME NEW k \in 2..Len(a) PROVE Gap(a, k) < PauseSplit
      <4>1. k \in 1..(i - 1) /\ k - 1 \in 1..(i - 1) /\ k \in 2..(i - 1)
        BY <2>3, <2>5
      <4>2. Gap(a, k) = Gap(v, k)
        BY <2>5, <4>1 DEF Gap
      <4> QED BY <2>3, <4>1, <4>2
    <3> QED BY <3>1 DEF Unbridged
  <2>7. ASSUME Unbridged(v) PROVE Unbridged(b)
    <3>1. ASSUME NEW k \in 2..Len(b) PROVE Gap(b, k) < PauseSplit
      <4> DEFINE p == (i - 1) + k
      <4>1. k \in 1..Len(b) /\ k - 1 \in 1..Len(b) /\ p \in 2..Len(v) /\ (i - 1) + (k - 1) = p - 1
        BY <1>3, <2>3, <2>5
      <4>2. b[k] = v[p] /\ b[k - 1] = v[(i - 1) + (k - 1)]
        BY <2>5, <4>1
      <4> HIDE DEF p
      <4>3. Gap(b, k) = Gap(v, p)
        BY <4>1, <4>2 DEF Gap
      <4> QED BY <2>7, <4>1, <4>3 DEF Unbridged
    <3> QED BY <3>1 DEF Unbridged
  <2>8. Unbridged(b) \/ Len(b) <= Len(u) - n
    BY <1>1, <1>3, <2>3, <2>5, <2>7
  <2>9. /\ two \in Seq(Seq(Word)) /\ WordsOf(two) = ToSet(v)
        /\ InOrder(v) => Consecutive(two)
    BY <2>5, TwoRuns
  <2>10. Len(two) = 2 /\ two[1] = a /\ two[2] = b /\ 1 \in 1..2 /\ 2 \in 1..2
    OBVIOUS
  <2> HIDE DEF two
  <2>11. IsJoin(r, f, two, Seq(Word))
    <3> DEFINE W == Seq(Word)
    <3>1. f \in Seq(W) /\ two \in Seq(W)
      BY <1>2, <2>9
    <3> HIDE DEF W
    <3>2. IsJoin(r, f, two, W)
      BY ONLY <3>1, Join DEF r
    <3> QED BY ONLY <3>2 DEF W
  <2>12. /\ WordsOf(r) = WordsOf(f) \cup WordsOf(two)
         /\ Consecutive(r) <=> Consecutive(f) /\ Consecutive(two) /\ Earlier(WordsOf(f), WordsOf(two))
    BY ONLY <1>2, <2>9, Runs DEF r
  <2> HIDE DEF r
  <2>13. /\ WordsOf(<<v>>) = ToSet(v) /\ <<v>> \in Seq(Seq(Word)) /\ (Consecutive(<<v>>) <=> InOrder(v))
    BY ONLY <1>2, OneRun
  <2>14. /\ WordsOf(ps) = WordsOf(f) \cup ToSet(v)
         /\ Consecutive(ps) <=> Consecutive(f) /\ InOrder(v) /\ Earlier(WordsOf(f), ToSet(v))
    <3> DEFINE vv == <<v>>
    <3>1. vv \in Seq(Seq(Word)) /\ f \in Seq(Seq(Word)) /\ ps = f \o vv
      BY <1>2, <2>13
    <3>2. WordsOf(vv) = ToSet(v) /\ (Consecutive(vv) <=> InOrder(v))
      BY <2>13
    <3> HIDE DEF vv
    <3>3. /\ WordsOf(f \o vv) = WordsOf(f) \cup WordsOf(vv)
          /\ Consecutive(f \o vv) <=> Consecutive(f) /\ Consecutive(vv) /\ Earlier(WordsOf(f), WordsOf(vv))
      BY ONLY <3>1, Runs
    <3> QED BY ONLY <3>1, <3>2, <3>3
  <2>15. WordsOf(r) = ToSet(u) /\ (InOrder(u) => Consecutive(r))
    BY ONLY <1>1, <2>9, <2>12, <2>14
  <2>16. /\ r \in Seq(Seq(Word)) /\ Len(r) = Len(ps) + 1 /\ r[Len(ps)] = a /\ r[Len(ps) + 1] = b
         /\ \A k \in 1..(Len(ps) - 1) : r[k] = ps[k]
    <3>1. r \in Seq(Seq(Word)) /\ Len(r) = Len(f) + 2 /\ r[Len(f) + 1] = a /\ r[Len(f) + 2] = b
      BY <2>10, <2>11 DEF IsJoin
    <3>2. \A k \in 1..Len(f) : r[k] = f[k]
      BY <2>11 DEF IsJoin
    <3>3. Len(f) + 1 = Len(ps) /\ Len(f) + 2 = Len(ps) + 1
      BY <1>2
    <3> QED BY <1>2, <3>1, <3>2, <3>3
  <2>17. Last(r) = b /\ r # <<>>
    BY <1>2, <2>16 DEF Last
  <2>18. ASSUME NEW k \in 1..(Len(r) - 1) PROVE Unbridged(r[k])
    <3>1. CASE k = Len(ps)
      BY <2>6, <2>16, <3>1
    <3>2. CASE k # Len(ps)
      <4>1. k \in 1..(Len(ps) - 1)
        BY <1>2, <2>16, <3>2
      <4> QED BY <1>1, <2>16, <4>1
    <3> QED BY <3>1, <3>2
  <2> QED BY <2>1, <2>8, <2>15, <2>16, <2>17, <2>18 DEF Cutting
<1> QED BY <1>4, <1>5

\* The pieces of an utterance are its words, in their order, and none holds a long pause.
LEMMA PiecesGood ==
  ASSUME NEW u \in Seq(Word)
  PROVE  /\ Pieces(u) \in Seq(Seq(Word)) /\ Pieces(u) # <<>>
         /\ WordsOf(Pieces(u)) = ToSet(u)
         /\ InOrder(u) => Consecutive(Pieces(u))
         /\ \A i \in 1..Len(Pieces(u)) : Unbridged(Pieces(u)[i])
<1> DEFINE N == Len(u)
           D == {ps \in Seq(Seq(Word)) : ps # <<>>}
           Round == [p \in (1..N) \X D |-> IF Cutting(p[2], u, p[1] - 1) THEN CutLast(p[2]) ELSE <<u>>]
           Rec(f) == [n \in 0..N |-> IF n = 0 THEN <<u>> ELSE CutLast(f[n - 1])]
           round == CHOOSE f : f = Rec(f)
<1>1. N \in Nat
  OBVIOUS
<1>2. <<u>> \in D /\ Cutting(<<u>>, u, 0)
  <2>1. /\ <<u>> \in Seq(Seq(Word)) /\ WordsOf(<<u>>) = ToSet(u) /\ (Consecutive(<<u>>) <=> InOrder(u))
    BY ONLY u \in Seq(Word), OneRun
  <2>2. <<u>> # <<>> /\ Len(<<u>>) = 1 /\ Last(<<u>>) = u
    BY DEF Last
  <2> DEFINE uu == <<u>>
  <2>3. /\ uu \in Seq(Seq(Word)) /\ WordsOf(uu) = ToSet(u) /\ (Consecutive(uu) <=> InOrder(u))
        /\ uu # <<>> /\ Len(uu) = 1 /\ Last(uu) = u
    BY ONLY <2>1, <2>2
  <2> HIDE DEF uu
  <2>4. Cutting(uu, u, 0)
    BY <1>1, <2>3 DEF Cutting
  <2> QED BY <2>3, <2>4 DEF uu
<1>3. ASSUME NEW n \in 1..N, NEW y, Cutting(y, u, n - 1)
      PROVE  y \in D /\ CutLast(y) \in D /\ Cutting(CutLast(y), u, n)
  <2>1. Cutting(CutLast(y), u, n)
    BY <1>3, CutLastGood
  <2> QED BY <1>3, <2>1 DEF Cutting
<1>4. Round \in [(1..N) \X D -> D]
  <2>1. ASSUME NEW n \in 1..N, NEW y \in D
        PROVE  (IF Cutting(y, u, n - 1) THEN CutLast(y) ELSE <<u>>) \in D
    <3> HIDE DEF D, N
    <3> QED BY <1>2, <1>3
  <2> HIDE DEF D, N
  <2>2. ASSUME NEW p \in (1..N) \X D
        PROVE  (IF Cutting(p[2], u, p[1] - 1) THEN CutLast(p[2]) ELSE <<u>>) \in D
    BY <2>1
  <2> QED BY <2>2
<1>5. PICK f : Loop(f, N, D, <<u>>, Round)
  <2> HIDE DEF N, D, Round
  <2> QED BY <1>1, <1>2, <1>4, LoopRuns
<1>6. f \in [0..N -> D] /\ f[0] = <<u>> /\ \A n \in 1..N : f[n] = Round[<<n, f[n - 1]>>]
  BY <1>5 DEF Loop
<1>7. ASSUME NEW n \in 1..N
      PROVE  f[n] = IF Cutting(f[n - 1], u, n - 1) THEN CutLast(f[n - 1]) ELSE <<u>>
  <2>1. n - 1 \in 0..N
    BY <1>1
  <2>2. f[n - 1] \in D
    BY <1>6, <2>1
  <2> HIDE DEF N, D
  <2>3. <<n, f[n - 1]>> \in (1..N) \X D
    BY <2>2
  <2> QED BY <1>6, <2>3
<1> HIDE DEF Round, D, N
<1> DEFINE S == {n \in 0..N : Cutting(f[n], u, n)}
<1>8. \A n \in 0..N : n \in S
  <2>1. 0 \in S
    BY <1>1, <1>2, <1>6
  <2>2. ASSUME NEW n \in 1..N, n - 1 \in S PROVE n \in S
    <3>1. Cutting(f[n - 1], u, n - 1)
      BY <2>2
    <3>2. f[n] = CutLast(f[n - 1])
      BY <1>7, <3>1
    <3>3. Cutting(f[n], u, n)
      BY <1>3, <3>1, <3>2
    <3> QED BY <1>1, <3>3
  <2> HIDE DEF S
  <2> QED BY <1>1, <2>1, <2>2, Climb
<1>9. f = Rec(f)
  <2> DEFINE e(n) == IF n = 0 THEN <<u>> ELSE CutLast(f[n - 1])
  <2>1. ASSUME NEW n \in 0..N PROVE f[n] = e(n)
    <3>1. CASE n = 0
      BY <1>6, <3>1
    <3>2. CASE n # 0
      <4>1. n \in 1..N /\ n - 1 \in 0..N
        BY <1>1, <3>2
      <4>2. Cutting(f[n - 1], u, n - 1)
        BY <1>8, <4>1
      <4> QED BY <1>7, <3>2, <4>1, <4>2
    <3> QED BY <3>1, <3>2
  <2>2. f = [n \in 0..N |-> f[n]]
    BY <1>6
  <2>3. Rec(f) = [n \in 0..N |-> e(n)]
    OBVIOUS
  <2> HIDE DEF Rec, e
  <2>4. [n \in 0..N |-> f[n]] = [n \in 0..N |-> e(n)]
    BY <2>1
  <2> QED BY <2>2, <2>3, <2>4
<1>10. round = Rec(round)
  <2> HIDE DEF Rec
  <2> QED BY <1>9
<1>11. round[0] = <<u>> /\ \A n \in 1..N : round[n] = CutLast(round[n - 1])
  <2>1. \A g : g = Rec(g) => g[0] = <<u>> /\ \A n \in 1..N : g[n] = CutLast(g[n - 1])
    <3> SUFFICES ASSUME NEW g, g = Rec(g) PROVE g[0] = <<u>> /\ \A n \in 1..N : g[n] = CutLast(g[n - 1])
      OBVIOUS
    <3>1. \A n \in 0..N : g[n] = Rec(g)[n]
      OBVIOUS
    <3>2. g[0] = <<u>>
      BY <1>1, <3>1
    <3>3. ASSUME NEW n \in 1..N PROVE g[n] = CutLast(g[n - 1])
      <4>1. n \in 0..N /\ n # 0
        BY <1>1
      <4> QED BY <3>1, <4>1
    <3> QED BY <3>2, <3>3
  <2> HIDE DEF round, Rec
  <2> QED BY ONLY <1>10, <2>1
<1>12. Pieces(u) = round[N]
  BY DEF Pieces, N
<1> HIDE DEF round, Rec
<1> DEFINE T == {n \in 0..N : Cutting(round[n], u, n)}
<1>13. \A n \in 0..N : n \in T
  <2>1. 0 \in T
    BY <1>1, <1>2, <1>11
  <2>2. ASSUME NEW n \in 1..N, n - 1 \in T PROVE n \in T
    <3>1. Cutting(round[n - 1], u, n - 1)
      BY <2>2
    <3>2. Cutting(round[n], u, n)
      BY <1>3, <1>11, <3>1
    <3> QED BY <1>1, <3>2
  <2> HIDE DEF T
  <2> QED BY <1>1, <2>1, <2>2, Climb
<1> DEFINE ps == Pieces(u)
<1>14. Cutting(ps, u, Len(u))
  <2>1. N \in T
    BY <1>1, <1>13
  <2> QED BY <1>12, <2>1 DEF N
<1> HIDE DEF ps
<1>15. /\ ps \in Seq(Seq(Word)) /\ ps # <<>> /\ WordsOf(ps) = ToSet(u)
       /\ InOrder(u) => Consecutive(ps)
       /\ \A i \in 1..(Len(ps) - 1) : Unbridged(ps[i])
       /\ Unbridged(Last(ps)) \/ Len(Last(ps)) <= Len(u) - Len(u)
  BY <1>14 DEF Cutting
<1>16. Len(ps) \in Nat \ {0} /\ Last(ps) \in Seq(Word) /\ Last(ps) = ps[Len(ps)]
  BY <1>15, FrontAndLast
<1>17. Unbridged(Last(ps))
  <2>1. Len(Last(ps)) <= 0 => Unbridged(Last(ps))
    BY <1>16 DEF Unbridged
  <2>2. Len(u) - Len(u) = 0
    OBVIOUS
  <2> QED BY <1>15, <2>1, <2>2
<1>18. ASSUME NEW i \in 1..Len(ps) PROVE Unbridged(ps[i])
  <2>1. i = Len(ps) \/ i \in 1..(Len(ps) - 1)
    BY <1>16
  <2> QED BY <1>15, <1>16, <1>17, <2>1
<1> QED BY <1>15, <1>18 DEF ps

-----------------------------------------------------------------------------
(* What a step gives out. *)

\* What Emit gives out and keeps of the utterance of x.
Given(r, x, close) ==
  /\ r \in [t : Transcriber, out : Seq(Segment)]
  /\ r.t.from = x.from /\ r.t.to = x.to /\ r.t.committed = x.committed /\ r.t.prev = x.prev
  /\ r.t.fresh = x.fresh
  /\ Texts(r.out) \in Seq(Seq(Word))
  /\ WordsOf(Texts(r.out) \o <<r.t.utterance>>) = ToSet(x.utterance)
  /\ InOrder(x.utterance) => Consecutive(Texts(r.out) \o <<r.t.utterance>>)
  /\ \A i \in 1..Len(r.out) : Unbridged(r.out[i].words)
  /\ close => r.t.utterance = <<>>
  /\ x.forced => r.t.forced \/ \E i \in 1..Len(r.out) : r.out[i].forced

\* A run without words follows and precedes any other.
LEMMA EmptyIsEarlier ==
  ASSUME NEW ss \in Seq(Seq(Word))
  PROVE  /\ WordsOf(ss \o << <<>> >>) = WordsOf(ss)
         /\ Consecutive(ss) => Consecutive(ss \o << <<>> >>)
<1> DEFINE none == <<>>
           one  == <<none>>
<1>1. none \in Seq(Word) /\ ToSet(none) = {} /\ InOrder(none)
  BY DEF ToSet, InOrder
<1> HIDE DEF none
<1>2. one \in Seq(Seq(Word)) /\ WordsOf(one) = {} /\ Consecutive(one)
  BY <1>1, OneRun
<1> HIDE DEF one
<1>3. /\ WordsOf(ss \o one) = WordsOf(ss) \cup WordsOf(one)
      /\ Consecutive(ss \o one) <=>
           Consecutive(ss) /\ Consecutive(one) /\ Earlier(WordsOf(ss), WordsOf(one))
  BY <1>2, Runs
<1>4. Earlier(WordsOf(ss), WordsOf(one))
  BY <1>2 DEF Earlier
<1>5. /\ WordsOf(ss \o one) = WordsOf(ss)
      /\ Consecutive(ss) => Consecutive(ss \o one)
  BY <1>2, <1>3, <1>4
<1> QED BY <1>5 DEF one, none

\* Emit gives out the words of the utterance, in order, and keeps the others.
LEMMA EmitGood ==
  ASSUME NEW x \in Transcriber, NEW close \in BOOLEAN
  PROVE  Given(Emit(x, close), x, close)
<1> DEFINE u     == x.utterance
           ps    == Pieces(u)
           whole == close /\ Last(ps) # <<>>
           ready == IF whole THEN ps ELSE Front(ps)
           left  == IF close THEN <<>> ELSE Last(ps)
           tt    == [x EXCEPT !.utterance = left, !.forced = x.forced /\ ready = <<>>]
           out   == [i \in 1..Len(ready) |-> Stable(ready[i], x.forced /\ i = 1)]
           r     == [t |-> tt, out |-> out]
<1>1. Emit(x, close) = r
  BY DEF Emit
<1>2. u \in Seq(Word) /\ x.forced \in BOOLEAN
  BY DEF Transcriber
<1> HIDE DEF u
<1>3. /\ ps \in Seq(Seq(Word)) /\ ps # <<>> /\ WordsOf(ps) = ToSet(u)
      /\ InOrder(u) => Consecutive(ps)
      /\ \A i \in 1..Len(ps) : Unbridged(ps[i])
  BY <1>2, PiecesGood
<1> HIDE DEF ps
<1>4. /\ Len(ps) \in Nat \ {0} /\ Last(ps) \in Seq(Word) /\ Front(ps) \in Seq(Seq(Word))
      /\ Len(Front(ps)) = Len(ps) - 1 /\ (\A i \in 1..(Len(ps) - 1) : Front(ps)[i] = ps[i])
      /\ ps = Front(ps) \o <<Last(ps)>>
  BY ONLY <1>3, FrontAndLast
<1>5. /\ ready \in Seq(Seq(Word)) /\ left \in Seq(Word)
      /\ \A i \in 1..Len(ready) : Unbridged(ready[i])
      /\ WordsOf(ready \o <<left>>) = ToSet(u)
      /\ InOrder(u) => Consecutive(ready \o <<left>>)
      /\ close => left = <<>>
  <2>1. CASE whole
    <3>1. ready = ps /\ left = <<>>
      BY <2>1
    <3> HIDE DEF ready, left
    <3>2. <<>> \in Seq(Word)
      OBVIOUS
    <3> QED BY <1>3, <3>1, <3>2, EmptyIsEarlier
  <2>2. CASE ~whole
    <3>1. ready = Front(ps) /\ left = Last(ps)
      BY <2>2
    <3>2. \A i \in 1..Len(Front(ps)) : Unbridged(Front(ps)[i])
      <4>1. ASSUME NEW i \in 1..Len(Front(ps)) PROVE Unbridged(Front(ps)[i])
        <5>1. i \in 1..(Len(ps) - 1) /\ i \in 1..Len(ps)
          BY <1>4
        <5> QED BY <1>3, <1>4, <5>1
      <4> QED BY <4>1
    <3>3. close => left = <<>>
      OBVIOUS
    <3> HIDE DEF ready, left
    <3> QED BY <1>3, <1>4, <3>1, <3>2, <3>3
  <2> QED BY <2>1, <2>2
<1>6. tt \in Transcriber /\ tt.utterance = left /\ tt.forced = (x.forced /\ ready = <<>>)
      /\ tt.from = x.from /\ tt.to = x.to /\ tt.committed = x.committed /\ tt.prev = x.prev
      /\ tt.fresh = x.fresh
  <2> DEFINE f == x.forced /\ ready = <<>>
  <2>1. f \in BOOLEAN /\ left \in Seq(Word)
    BY <1>5
  <2>2. tt = [x EXCEPT !.utterance = left, !.forced = f]
    OBVIOUS
  <2> HIDE DEF f, left, ready, tt
  <2>3. tt \in Transcriber
    BY <2>1, <2>2 DEF Transcriber
  <2>4. tt.utterance = left /\ tt.forced = f
      /\ tt.from = x.from /\ tt.to = x.to /\ tt.committed = x.committed /\ tt.prev = x.prev
      /\ tt.fresh = x.fresh
    BY <2>2 DEF Transcriber
  <2> QED BY <2>3, <2>4 DEF f
<1>7. /\ out \in Seq(Segment) /\ Len(out) = Len(ready)
      /\ \A i \in 1..Len(ready) : out[i].words = ready[i] /\ out[i].forced = (x.forced /\ i = 1)
  <2> HIDE DEF ready
  <2>1. Len(ready) \in Nat
    BY <1>5
  <2>2. ASSUME NEW i \in 1..Len(ready) PROVE Stable(ready[i], x.forced /\ i = 1) \in Segment
    <3> DEFINE f == x.forced /\ i = 1
    <3>1. f \in BOOLEAN /\ ready[i] \in Seq(Word)
      BY <1>5
    <3> HIDE DEF f
    <3>2. Stable(ready[i], f) \in Segment
      BY <3>1 DEF Stable, Segment
    <3> QED BY <3>2 DEF f
  <2>3. out \in Seq(Segment) /\ Len(out) = Len(ready)
    BY <2>1, <2>2
  <2>4. ASSUME NEW i \in 1..Len(ready) PROVE out[i].words = ready[i] /\ out[i].forced = (x.forced /\ i = 1)
    BY DEF Stable
  <2> QED BY <2>3, <2>4
<1>8. Texts(out) = ready
  <2> HIDE DEF ready, out
  <2>1. Texts(out) = [i \in 1..Len(ready) |-> ready[i]]
    BY <1>7 DEF Texts
  <2> QED BY <1>5, <2>1
<1>9. x.forced => tt.forced \/ \E i \in 1..Len(out) : out[i].forced
  <2> HIDE DEF ready, out, tt
  <2>1. ASSUME x.forced, ready # <<>> PROVE \E i \in 1..Len(out) : out[i].forced
    <3>1. 1 \in 1..Len(ready)
      BY <1>5, <2>1
    <3> QED BY <1>7, <2>1, <3>1
  <2> QED BY <1>6, <2>1
<1>10. r.t = tt /\ r.out = out
  OBVIOUS
<1>11. r \in [t : Transcriber, out : Seq(Segment)]
  <2> HIDE DEF tt, out
  <2> QED BY <1>6, <1>7
<1> HIDE DEF r, tt, out, ready, left
<1>12. \A i \in 1..Len(r.out) : Unbridged(r.out[i].words)
  BY <1>5, <1>7, <1>10
<1>13. Given(r, x, close)
  BY <1>5, <1>6, <1>8, <1>9, <1>10, <1>11, <1>12 DEF Given, u
<1> QED BY <1>1, <1>13

-----------------------------------------------------------------------------
(* What is heard in a window. *)

\* The recordings are as LiveAssumption says.
LEMMA ScriptGood ==
  ASSUME script \in Scripts
  PROVE  /\ script \in Seq(Word) /\ script # <<>> /\ InOrder(script)
         /\ \A w \in ToSet(script) : w \in Word /\ Whole(w) /\ w.end >= w.start + 2
         /\ \A w \in ToSet(script) : w.end <= Last(script).end
         /\ Total = Last(script).end + 4 /\ Last(script) \in Word /\ Total \in Nat
<1>1. /\ script \in Seq(Word) /\ script # <<>> /\ InOrder(script)
      /\ \A i \in 1..Len(script) : Whole(script[i]) /\ script[i].end >= script[i].start + 2
  BY LiveAssumption DEF MinSpeech
<1>2. Len(script) \in 1..Len(script) /\ Len(script) \in Nat /\ DOMAIN script = 1..Len(script)
  BY <1>1
<1>3. Last(script) \in Word /\ Last(script) = script[Len(script)]
  BY <1>1, <1>2 DEF Last
<1>4. ASSUME NEW w \in ToSet(script) PROVE w \in Word /\ Whole(w) /\ w.end >= w.start + 2 /\ w.end <= Last(script).end
  <2>1. PICK i \in 1..Len(script) : w = script[i]
    BY <1>2 DEF ToSet
  <2>2. w \in Word /\ Whole(w) /\ w.end >= w.start + 2
    BY <1>1, <2>1
  <2>3. CASE i = Len(script)
    BY <1>3, <2>1, <2>2, <2>3 DEF Word
  <2>4. CASE i # Len(script)
    <3> DEFINE l == Len(script)
    <3>0. i \in 1..l /\ l \in Nat /\ i # l
      BY <1>2, <2>4
    <3>1. i < l
      <4> HIDE DEF l
      <4> QED BY ONLY <3>0
    <3>a. script[i].end <= script[l].start
      <4>1. i \in 1..l /\ l \in 1..l /\ i < l
        BY <1>2, <2>1, <3>1
      <4>2. \A p, q \in 1..l : p < q => script[p].end <= script[q].start
        BY <1>1 DEF InOrder
      <4> HIDE DEF l
      <4> QED BY <4>1, <4>2
    <3>2. w.end <= Last(script).start
      BY <1>3, <2>1, <3>a
    <3>3. Last(script).end >= Last(script).start + 2
      BY <1>1, <1>2, <1>3
    <3>4. /\ w.end \in Nat /\ Last(script).start \in Nat /\ Last(script).end \in Nat
      BY <1>3, <2>2 DEF Word
    <3> QED BY <2>2, <3>2, <3>3, <3>4
  <2> QED BY <2>3, <2>4
<1>5. Total = Last(script).end + 4 /\ Total \in Nat
  BY <1>3 DEF Total, Context, Word
<1> QED BY <1>1, <1>3, <1>4, <1>5

\* A word that is heard in a window is the word itself or marked with the end of
\* the window.
LEMMA HeardGood ==
  ASSUME NEW w \in Word, Whole(w), NEW from \in Nat, NEW to \in Nat
  PROVE  /\ Heard(w, from, to) \in Word
         /\ Heard(w, from, to).start = Most(w.start, from)
         /\ Heard(w, from, to).end = Least(w.end, to)
         /\ Heard(w, from, to).end <= to /\ Heard(w, from, to).end <= w.end
         /\ Heard(w, from, to).start >= w.start
         /\ Heard(w, from, to).form = (IF w.start >= from /\ w.end <= to - 3 THEN 0 ELSE to)
         /\ w.start >= from /\ w.end <= to - 3 => Heard(w, from, to) = w
<1>1. w.start \in Nat /\ w.end \in Nat /\ w.form = 0
  BY DEF Word, Whole
<1>2. /\ Most(w.start, from) \in Nat /\ Least(w.end, to) \in Nat
      /\ Least(w.end, to) <= to /\ Least(w.end, to) <= w.end /\ Most(w.start, from) >= w.start
      /\ w.start >= from => Most(w.start, from) = w.start
      /\ w.end <= to - 3 => Least(w.end, to) = w.end
  BY <1>1 DEF Most, Least
<1> DEFINE a == Most(w.start, from)
           b == Least(w.end, to)
           c == IF w.start >= from /\ w.end <= to - 3 THEN 0 ELSE to
           h == [w EXCEPT !.start = a, !.end = b, !.form = c]
<1>3. Heard(w, from, to) = h
  BY DEF Heard, Context
<1>4. c \in Nat /\ a \in Nat /\ b \in Nat
  BY <1>2
<1> HIDE DEF a, b, c
<1>5. h \in Word /\ h.start = a /\ h.end = b /\ h.form = c
  BY <1>4 DEF Word
<1>6. ASSUME a = w.start, b = w.end, c = w.form PROVE h = w
  BY <1>6 DEF Word
<1> HIDE DEF h
<1>7. w.start >= from /\ w.end <= to - 3 => h = w
  BY <1>1, <1>2, <1>6 DEF a, b, c
<1> QED BY <1>2, <1>3, <1>5, <1>7 DEF a, b, c

\* No word is cut at a point of the recording.
Clear(pos) == \A w \in ToSet(script) : w.end <= pos \/ pos <= w.start

\* A hypothesis: words of the window in their order, and all that is heard right.
HeardIn(h, from, to) ==
  /\ h \in Seq(Word) /\ InOrder(h)
  /\ \A v \in ToSet(h) : \E w \in ToSet(script) : w.end > from /\ w.start < to /\ v = Heard(w, from, to)
  /\ \A w \in ToSet(script) : w.end > from /\ w.start >= from /\ w.end <= to - 3 => w \in ToSet(h)

\* What the recogniser makes of a window that cuts no word is a hypothesis in the
\* sense above.
LEMMA HypothesisGood ==
  ASSUME script \in Scripts, NEW from \in Nat, NEW to \in Nat, NEW h \in Hypotheses(from, to)
  PROVE  HeardIn(h, from, to)
<1> DEFINE good == {w \in ToSet(script) : w.end > from /\ w.start < to}
           ws == InWindow(from, to)
           g  == [i \in 1..Len(ws) |-> Heard(ws[i], from, to)]
<1>1. script \in Seq(Word) /\ InOrder(script) /\ \A w \in ToSet(script) : w \in Word /\ Whole(w) /\ w.end >= w.start + 2
  BY ScriptGood
<1>2. Kept(ws, script, good, Len(script))
  BY <1>1, KeepSelects DEF InWindow
<1>3. PICK n \in {m \in 0..Len(g) : \A i \in (m + 1)..Len(g) : ~Whole(g[i])} : h = SubSeq(g, 1, n)
  BY DEF Hypotheses
<1> HIDE DEF ws
<1>4. ws \in Seq(Word) /\ InOrder(ws) /\ ToSet(ws) = {script[i] : i \in 1..Len(script)} \cap good /\ Len(ws) \in Nat
  BY <1>2 DEF Kept
<1>5. {script[i] : i \in 1..Len(script)} = ToSet(script) /\ DOMAIN ws = 1..Len(ws)
  BY <1>1, <1>4 DEF ToSet
<1>6. ASSUME NEW i \in 1..Len(ws)
      PROVE  ws[i] \in ToSet(script) /\ ws[i].end > from /\ ws[i].start < to /\ ws[i] \in Word /\ Whole(ws[i])
  <2>1. ws[i] \in ToSet(ws)
    BY <1>5 DEF ToSet
  <2> QED BY <1>1, <1>4, <1>5, <2>1
<1>7. g \in Seq(Word) /\ Len(g) = Len(ws) /\ \A i \in 1..Len(ws) : g[i] = Heard(ws[i], from, to)
  <2>1. \A i \in 1..Len(ws) : Heard(ws[i], from, to) \in Word
    BY <1>6, HeardGood
  <2> QED BY <1>4, <2>1
<1> HIDE DEF g
<1>8. InOrder(g)
  <2>1. ASSUME NEW k \in 1..Len(g), NEW l \in 1..Len(g), k < l PROVE g[k].end <= g[l].start
    <3>1. ws[k].end <= ws[l].start
      BY <1>4, <1>7, <2>1 DEF InOrder
    <3>2. g[k].end <= ws[k].end /\ g[l].start >= ws[l].start
      BY <1>6, <1>7, HeardGood
    <3>3. g[k].end \in Nat /\ ws[k].end \in Nat /\ g[l].start \in Nat /\ ws[l].start \in Nat
      <4>1. g[k] \in Word /\ g[l] \in Word /\ ws[k] \in Word /\ ws[l] \in Word
        BY <1>6, <1>7
      <4> QED BY <4>1 DEF Word
    <3> QED BY <3>1, <3>2, <3>3
  <2> QED BY <2>1 DEF InOrder
<1>9. n \in 0..Len(g) /\ \A i \in (n + 1)..Len(g) : ~Whole(g[i])
  BY <1>3
<1>10. IsPart(h, g, 0, n, Word) /\ InOrder(h)
  BY <1>3, <1>7, <1>8, <1>9, Part, Halves
<1>11. h \in Seq(Word) /\ Len(h) = n /\ (\A i \in 1..n : h[i] = g[i]) /\ DOMAIN h = 1..n
  BY <1>9, <1>10 DEF IsPart
<1>12. ASSUME NEW v \in ToSet(h)
       PROVE  \E w \in ToSet(script) : w.end > from /\ w.start < to /\ v = Heard(w, from, to)
  <2>1. PICK i \in 1..n : v = h[i]
    BY <1>11 DEF ToSet
  <2>2. i \in 1..Len(ws)
    BY <1>7, <1>9
  <2>3. v = Heard(ws[i], from, to)
    BY <1>7, <1>11, <2>1, <2>2
  <2> QED BY <1>6, <2>2, <2>3
<1>13. ASSUME NEW w \in ToSet(script), w.end > from, w.start >= from, w.end <= to - 3 PROVE w \in ToSet(h)
  <2>1. w \in Word /\ Whole(w) /\ w.start \in Nat /\ w.end \in Nat /\ w.end >= w.start + 2
    BY <1>1 DEF Word
  <2>2. w.start < to
    BY <1>13, <2>1
  <2>3. w \in ToSet(ws)
    BY <1>4, <1>5, <1>13, <2>2
  <2>4. PICK i \in 1..Len(ws) : w = ws[i]
    BY <1>5, <2>3 DEF ToSet
  <2>5. g[i] = w
    BY <1>7, <1>13, <2>1, <2>4, HeardGood
  <2>6. i \in 1..n
    <3>1. CASE i <= n
      BY <1>4, <1>9, <3>1
    <3>2. CASE ~(i <= n)
      <4>1. i \in (n + 1)..Len(g)
        BY <1>4, <1>7, <1>9, <3>2
      <4> QED BY <1>9, <2>1, <2>5, <4>1
    <3> QED BY <3>1, <3>2
  <2>7. h[i] = w
    BY <1>11, <2>5, <2>6
  <2> QED BY <1>11, <2>6, <2>7 DEF ToSet
<1> QED BY <1>10, <1>11, <1>12, <1>13 DEF HeardIn

\* The end of a word is no point in another.
LEMMA EndIsClear ==
  ASSUME script \in Scripts, NEW v \in ToSet(script)
  PROVE  Clear(v.end)
<1>1. script \in Seq(Word) /\ InOrder(script) /\ \A w \in ToSet(script) : w \in Word /\ w.end >= w.start + 2
  BY ScriptGood
<1>2. DOMAIN script = 1..Len(script) /\ Len(script) \in Nat
  BY <1>1
<1>3. PICK i \in 1..Len(script) : v = script[i]
  BY <1>2 DEF ToSet
<1>4. ASSUME NEW w \in ToSet(script) PROVE w.end <= v.end \/ v.end <= w.start
  <2>1. PICK k \in 1..Len(script) : w = script[k]
    BY <1>2 DEF ToSet
  <2>2. w.end \in Nat /\ v.end \in Nat /\ w.start \in Nat /\ v.start \in Nat /\ v.end >= v.start + 2
    BY <1>1 DEF Word
  <2>3. CASE k = i
    BY <1>3, <2>1, <2>2, <2>3
  <2>4. CASE k < i
    <3>1. w.end <= v.start
      BY <1>1, <1>3, <2>1, <2>4 DEF InOrder
    <3> QED BY <2>2, <3>1
  <2>5. CASE i < k
    <3>1. v.end <= w.start
      BY <1>1, <1>3, <2>1, <2>5 DEF InOrder
    <3> QED BY <3>1
  <2> QED BY <1>3, <2>1, <2>3, <2>4, <2>5
<1> QED BY <1>4 DEF Clear

-----------------------------------------------------------------------------
(* The words that a step decides on. *)

\* The words of a hypothesis that are not committed yet: heard right or marked
\* with the end of the window, and all that the recogniser could hear right.
NewOf(hyp, x) ==
  /\ hyp \in Seq(Word) /\ InOrder(hyp)
  /\ \A v \in ToSet(hyp) : /\ v \in Word /\ x.committed < v.end /\ v.end <= x.to /\ v.start < v.end
                           /\ v.form = x.to \/ Whole(v)
                           /\ Whole(v) => v \in ToSet(script) /\ v.end <= x.to - 3
  /\ Clear(x.from) =>
       /\ \A v \in ToSet(hyp) : v.end <= x.to - 3 => Whole(v)
       /\ \A w \in ToSet(script) :
            w.end > x.from /\ w.end > x.committed /\ w.end <= x.to - 3 => w \in ToSet(hyp)
       /\ x.to = Total => \A v \in ToSet(hyp) : Whole(v)

\* The new words of a hypothesis miss nothing that was said and not committed.
LEMMA NewGood ==
  ASSUME script \in Scripts, NEW x \in Transcriber, x.from < x.to, NEW h, HeardIn(h, x.from, x.to)
  PROVE  NewOf(NewWords(x, h), x)
<1> DEFINE good == {w \in ToSet(h) : InSpeech(w, Speech(x.from, x.to)) /\ w.end > x.committed}
           hyp  == NewWords(x, h)
           from == x.from
           to   == x.to
<1>1. /\ h \in Seq(Word) /\ InOrder(h)
      /\ \A v \in ToSet(h) : \E w \in ToSet(script) : w.end > from /\ w.start < to /\ v = Heard(w, from, to)
      /\ \A w \in ToSet(script) : w.end > from /\ w.start >= from /\ w.end <= to - 3 => w \in ToSet(h)
  BY DEF HeardIn
<1>2. from \in Nat /\ to \in Nat /\ x.committed \in Nat /\ from < to
  BY DEF Transcriber
<1>3. Kept(hyp, h, good, Len(h))
  BY <1>1, KeepSelects DEF NewWords
<1>4. hyp \in Seq(Word) /\ InOrder(hyp) /\ ToSet(hyp) = good
  <2> HIDE DEF hyp
  <2>1. {h[i] : i \in 1..Len(h)} = ToSet(h)
    BY <1>1 DEF ToSet
  <2> QED BY <1>3, <2>1 DEF Kept
<1> HIDE DEF hyp
<1>5. /\ script \in Seq(Word) /\ InOrder(script) /\ Total = Last(script).end + 4
      /\ \A w \in ToSet(script) : w \in Word /\ Whole(w) /\ w.end >= w.start + 2 /\ w.end <= Last(script).end
      /\ Last(script) \in Word
  BY ScriptGood
<1>6. ASSUME NEW v \in ToSet(hyp)
      PROVE  /\ v \in Word /\ x.committed < v.end /\ v.end <= to /\ v.start < v.end
             /\ v.form = to \/ Whole(v)
             /\ Whole(v) => v \in ToSet(script) /\ v.end <= to - 3
             /\ Clear(from) => (v.end <= to - 3 => Whole(v)) /\ (to = Total => Whole(v))
  <2>1. v \in ToSet(h) /\ v.end > x.committed
    BY <1>4
  <2>2. PICK w \in ToSet(script) : w.end > from /\ w.start < to /\ v = Heard(w, from, to)
    BY <1>1, <2>1
  <2>3. w \in Word /\ w.form = 0 /\ Whole(w) /\ w.start \in Nat /\ w.end \in Nat /\ w.end >= w.start + 2
    BY <1>5 DEF Word, Whole
  <2>4. /\ v \in Word /\ v.start = Most(w.start, from) /\ v.end = Least(w.end, to)
        /\ v.form = (IF w.start >= from /\ w.end <= to - 3 THEN 0 ELSE to)
        /\ w.start >= from /\ w.end <= to - 3 => v = w
    BY <1>2, <2>2, <2>3, HeardGood
  <2>5. v.end <= to /\ v.start < v.end /\ (v.end <= to - 3 => w.end <= to - 3)
    BY <1>2, <2>2, <2>3, <2>4 DEF Most, Least
  <2>6. v.form = to \/ Whole(v)
    BY <2>4 DEF Whole
  <2>7. Whole(v) => w.start >= from /\ w.end <= to - 3
    BY <1>2, <2>4 DEF Whole
  <2>8. Whole(v) => v \in ToSet(script) /\ v.end <= to - 3
    BY <2>4, <2>7
  <2>9. Clear(from) => w.start >= from
    BY <1>2, <2>2, <2>3 DEF Clear
  <2>10. Clear(from) => (v.end <= to - 3 => Whole(v))
    BY <2>4, <2>5, <2>9 DEF Whole
  <2>11. to = Total => w.end <= to - 3
    BY <1>2, <1>5, <2>3 DEF Word
  <2>12. Clear(from) => (to = Total => Whole(v))
    BY <2>4, <2>9, <2>11 DEF Whole
  <2> QED BY <1>2, <2>1, <2>4, <2>5, <2>6, <2>8, <2>10, <2>12
<1>7. ASSUME Clear(from), NEW w \in ToSet(script), w.end > from, w.end > x.committed, w.end <= to - 3
      PROVE  w \in ToSet(hyp)
  <2>1. w \in Word /\ w.start \in Nat /\ w.end \in Nat /\ w.end >= w.start + 2
    BY <1>5 DEF Word
  <2>2. w.start >= from
    BY <1>2, <1>7, <2>1 DEF Clear
  <2>3. w \in ToSet(h)
    BY <1>1, <1>7, <2>2
  <2>4. w \in ToSet(InWindow(from, to))
    <3> DEFINE inside == {u \in ToSet(script) : u.end > from /\ u.start < to}
    <3>1. Kept(InWindow(from, to), script, inside, Len(script))
      BY <1>5, KeepSelects DEF InWindow
    <3>2. {script[i] : i \in 1..Len(script)} = ToSet(script)
      BY <1>5 DEF ToSet
    <3>3. w \in inside
      BY <1>2, <1>7, <2>1
    <3> HIDE DEF inside
    <3> QED BY <3>1, <3>2, <3>3 DEF Kept
  <2>5. Most(w.start, from) = w.start /\ Least(w.end, to) = w.end
    BY <1>2, <1>7, <2>1, <2>2 DEF Most, Least
  <2>6. <<w.start, w.end>> \in Speech(from, to)
    <3>1. <<w.start, w.end>> \in {<<Most(u.start, from), Least(u.end, to)>> : u \in ToSet(InWindow(from, to))}
      BY <2>4, <2>5
    <3>2. w.end - w.start >= MinSpeech
      BY <2>1 DEF MinSpeech
    <3> QED BY <3>1, <3>2 DEF Speech
  <2>7. InSpeech(w, Speech(from, to))
    <3>1. w.end > w.start - SpeechPad /\ w.start < w.end + SpeechPad
      BY <2>1 DEF SpeechPad
    <3> DEFINE iv == <<w.start, w.end>>
    <3>2. iv \in Speech(from, to) /\ w.end > iv[1] - SpeechPad /\ w.start < iv[2] + SpeechPad
      BY <2>6, <3>1
    <3> HIDE DEF iv
    <3>3. \E i \in Speech(from, to) : w.end > i[1] - SpeechPad /\ w.start < i[2] + SpeechPad
      <4> HIDE DEF from, to
      <4> QED BY ONLY <3>2
    <3> QED BY <3>3 DEF InSpeech
  <2> QED BY <1>4, <1>7, <2>3, <2>7
<1> HIDE DEF from, to
<1>8. NewOf(hyp, x)
  BY <1>4, <1>6, <1>7 DEF NewOf, from, to
<1> QED BY <1>8 DEF hyp

\* What two windows agree on begins the later hypothesis.
LEMMA AgreedGood ==
  ASSUME NEW prev \in Seq(Word), NEW hyp \in Seq(Word)
  PROVE  \E n \in 0..Len(hyp) : /\ Agreed(prev, hyp) = SubSeq(hyp, 1, n) /\ n <= Len(prev)
                                /\ \A i \in 1..n : prev[i].form = hyp[i].form
<1> DEFINE N == Least(Len(prev), Len(hyp))
           Agree(n) == \A i \in 1..n : SameWord(prev[i], hyp[i])
           Ends(n) == Agree(n) /\ (n < N => ~Agree(n + 1))
<1>1. N \in Nat /\ N <= Len(prev) /\ N <= Len(hyp) /\ Len(prev) \in Nat /\ Len(hyp) \in Nat
  BY DEF Least
<1>2. Agreed(prev, hyp) = SubSeq(hyp, 1, CHOOSE n \in 0..N : Ends(n))
  BY DEF Agreed
<1> HIDE DEF N
<1>3. \E n \in 0..N : Ends(n)
  <2> SUFFICES ASSUME \A n \in 0..N : ~Ends(n) PROVE FALSE
    OBVIOUS
  <2> DEFINE S == {n \in 0..N : Agree(n)}
  <2>1. 0 \in S
    BY <1>1
  <2>2. ASSUME NEW n \in 1..N, n - 1 \in S PROVE n \in S
    <3>1. n - 1 \in 0..N /\ n - 1 < N /\ (n - 1) + 1 = n /\ n \in 0..N
      BY <1>1
    <3>2. ~Ends(n - 1) /\ Agree(n - 1)
      BY <2>2, <3>1
    <3> HIDE DEF Agree
    <3> QED BY <3>1, <3>2
  <2>3. \A n \in 0..N : n \in S
    <3> HIDE DEF S
    <3> QED BY <1>1, <2>1, <2>2, Climb
  <2>4. N \in 0..N /\ ~(N < N)
    BY <1>1
  <2> QED BY <2>3, <2>4
<1> DEFINE n == CHOOSE n \in 0..N : Ends(n)
<1>4. n \in 0..N /\ Ends(n)
  <2> HIDE DEF Ends
  <2> QED BY <1>3
<1>5. Agreed(prev, hyp) = SubSeq(hyp, 1, n)
  BY <1>2
<1> HIDE DEF n
<1>6. \A i \in 1..n : prev[i].form = hyp[i].form
  BY <1>4 DEF SameWord
<1>7. n \in 0..Len(hyp) /\ n <= Len(prev)
  BY <1>1, <1>4
<1> QED BY <1>5, <1>6, <1>7

\* After the end of a phrase the sound suffices to hear its words right.
LEMMA TailGood ==
  ASSUME script \in Scripts, NEW x \in Transcriber, PhraseFinished(x)
  PROVE  TailEnd(x, FALSE) \in Int /\ TailEnd(x, FALSE) <= x.to - 3
<1> DEFINE E == SpeechEnd(x)
           S == {x.to - e : e \in E}
           m == CHOOSE e \in E : \A f \in E : f <= e
<1>1. x.from \in Nat /\ x.to \in Nat
  BY DEF Transcriber
<1>2. E \subseteq Int /\ \A e \in E : e <= x.to
  <2>1. ASSUME NEW e \in E PROVE e \in Int /\ e <= x.to
    <3>1. PICK iv \in Speech(x.from, x.to) : e = iv[2]
      BY DEF SpeechEnd
    <3>2. PICK w \in ToSet(InWindow(x.from, x.to)) : iv = <<Most(w.start, x.from), Least(w.end, x.to)>>
      BY <3>1 DEF Speech
    <3> DEFINE inside == {u \in ToSet(script) : u.end > x.from /\ u.start < x.to}
    <3>3. script \in Seq(Word) /\ InOrder(script)
      BY ScriptGood
    <3>4. Kept(InWindow(x.from, x.to), script, inside, Len(script))
      BY <3>3, KeepSelects DEF InWindow
    <3>5. InWindow(x.from, x.to) \in Seq(Word)
      BY <3>4 DEF Kept
    <3>6. w \in Word
      BY <3>5 DEF ToSet
    <3>7. w.end \in Nat
      BY <3>6 DEF Word
    <3>8. e = Least(w.end, x.to)
      BY <3>1, <3>2
    <3> QED BY <1>1, <3>7, <3>8 DEF Least
  <2> HIDE DEF E
  <2> QED BY ONLY <2>1
<1>3. E # {} /\ \A e \in E : x.to - e >= PhraseEnd
  BY DEF PhraseFinished
<1>4. PhraseEnd \in Nat /\ PhraseEnd >= 6
  BY LiveAssumption DEF Context, TailSlack
<1>5. \E e \in E : \A f \in E : f <= e
  <2> HIDE DEF E
  <2>1. S \in SUBSET Nat /\ S # {}
    <3>1. \A e \in E : x.to - e \in Nat
      BY <1>1, <1>2
    <3> QED BY <1>3, <3>1
  <2>2. PICK d \in S : \A y \in S : d <= y
    <3> HIDE DEF S
    <3> QED BY <2>1, LeastNatural
  <2>3. PICK e \in E : d = x.to - e
    BY <2>2
  <2>4. \A f \in E : x.to - e <= x.to - f
    BY <2>2, <2>3
  <2>5. \A f \in E : f <= e
    BY <1>1, <1>2, <2>3, <2>4
  <2> QED BY <2>3, <2>5
<1> HIDE DEF E
<1>6. m \in E
  BY <1>5
<1>7. TailEnd(x, FALSE) = m + 3
  BY DEF TailEnd, TailSlack, E
<1> HIDE DEF m
<1>8. m \in Int /\ x.to - m >= PhraseEnd
  BY <1>2, <1>3, <1>6
<1>9. m + 3 \in Int /\ m + 3 <= x.to - 3
  BY ONLY <1>1, <1>4, <1>8
<1> QED BY ONLY <1>7, <1>9

\* What a decision commits, some or all of the words of the hypothesis hyp.
Told(d, final) == IF final THEN d.now \o d.rest ELSE d.now

\* A decision: some or all of the words of the hypothesis hyp are committed.
\* Without force they are its first words, and all of them heard right.
Decided(d, x, hyp, final) ==
  /\ d.now \in Seq(Word) /\ d.rest \in Seq(Word) /\ d.forced \in BOOLEAN
  /\ ToSet(d.rest) \subseteq ToSet(hyp)
  /\ Told(d, final) \in Seq(Word) /\ InOrder(Told(d, final)) /\ ToSet(Told(d, final)) \subseteq ToSet(hyp)
  /\ final => ToSet(Told(d, final)) = ToSet(hyp)
  /\ ~d.forced =>
       /\ \A v \in ToSet(Told(d, final)), w \in ToSet(hyp) : w.end <= v.end => w \in ToSet(Told(d, final))
       /\ Clear(x.from) /\ (x.to = Total \/ \A v \in ToSet(x.prev) : Whole(v) \/ v.form < x.to) =>
            \A v \in ToSet(Told(d, final)) : Whole(v)

\* Every decision is such a one.
LEMMA DecideGood ==
  ASSUME script \in Scripts, NEW x \in Transcriber, NEW h, NEW final \in BOOLEAN,
         NewOf(NewWords(x, h), x), final => x.to = Total
  PROVE  Decided(Decide(x, h, final), x, NewWords(x, h), final)
<1> DEFINE hyp    == NewWords(x, h)
           a      == Agreed(x.prev, hyp)
           b      == SubSeq(hyp, Len(a) + 1, Len(hyp))
           good   == {w \in ToSet(b) : w.end <= TailEnd(x, final)}
           tail   == IF final \/ PhraseFinished(x) THEN Keep(b, good) ELSE <<>>
           now    == a \o tail
           left   == SubSeq(b, Len(tail) + 1, Len(b))
           forced == now = <<>> /\ x.to - x.from > MaxWindow /\ b # <<>>
           d      == [now    |-> IF forced THEN b ELSE now,
                      rest   |-> IF forced THEN <<>> ELSE left,
                      forced |-> forced]
<1>1. Decide(x, h, final) = d
  BY DEF Decide
<1>2. NewOf(hyp, x)
  OBVIOUS
<1> HIDE DEF hyp
<1>3. /\ hyp \in Seq(Word) /\ InOrder(hyp) /\ Len(hyp) \in Nat
      /\ \A v \in ToSet(hyp) : v \in Word /\ v.end <= x.to /\ v.start < v.end /\ (v.form = x.to \/ Whole(v))
  BY <1>2 DEF NewOf
<1>4. x.from \in Nat /\ x.to \in Nat /\ x.prev \in Seq(Word)
  BY DEF Transcriber
<1>5. PICK n \in 0..Len(hyp) : /\ a = SubSeq(hyp, 1, n) /\ n <= Len(x.prev)
                               /\ \A i \in 1..n : x.prev[i].form = hyp[i].form
  BY <1>3, <1>4, AgreedGood
<1> HIDE DEF a
<1>6. Len(a) = n
  <2>1. IsPart(SubSeq(hyp, 1, n), hyp, 0, n, Word)
    BY <1>3, Part
  <2> QED BY <1>5, <2>1 DEF IsPart
<1>7. b = SubSeq(hyp, n + 1, Len(hyp))
  BY <1>6
<1> HIDE DEF b
<1>8. /\ a \in Seq(Word) /\ (\A i \in 1..n : a[i] = hyp[i]) /\ b \in Seq(Word)
      /\ ToSet(a) \cup ToSet(b) = ToSet(hyp)
      /\ InOrder(a) /\ InOrder(b) /\ Earlier(ToSet(a), ToSet(b))
  <2>1. /\ SubSeq(hyp, 1, n) \in Seq(Word) /\ (\A i \in 1..n : SubSeq(hyp, 1, n)[i] = hyp[i])
        /\ SubSeq(hyp, n + 1, Len(hyp)) \in Seq(Word)
        /\ ToSet(SubSeq(hyp, 1, n)) \cup ToSet(SubSeq(hyp, n + 1, Len(hyp))) = ToSet(hyp)
        /\ InOrder(SubSeq(hyp, 1, n)) /\ InOrder(SubSeq(hyp, n + 1, Len(hyp)))
        /\ Earlier(ToSet(SubSeq(hyp, 1, n)), ToSet(SubSeq(hyp, n + 1, Len(hyp))))
    BY <1>3, Halves
  <2> QED BY <1>5, <1>7, <2>1
<1>9. /\ tail \in Seq(Word) /\ InOrder(tail) /\ ToSet(tail) \subseteq ToSet(b) /\ Len(tail) \in 0..Len(b)
      /\ final \/ PhraseFinished(x) => ToSet(tail) = good
      /\ ~(final \/ PhraseFinished(x)) => ToSet(tail) = {}
      /\ final => ToSet(tail) = ToSet(b) /\ Len(tail) = Len(b)
  <2>1. Len(b) \in Nat /\ ToSet(b) = {b[i] : i \in 1..Len(b)} /\ \A i \in 1..Len(b) : b[i] \in ToSet(b)
    BY <1>8 DEF ToSet
  <2>2. CASE final \/ PhraseFinished(x)
    <3>1. tail = Keep(b, good)
      BY <2>2
    <3>2. Kept(Keep(b, good), b, good, Len(b))
      <4> HIDE DEF good
      <4> QED BY <1>8, KeepSelects
    <3>3. final => \A i \in 1..Len(b) : b[i] \in good
      <4>1. final => TailEnd(x, final) = x.to
        BY DEF TailEnd
      <4> QED BY <1>3, <1>8, <2>1, <4>1
    <3>4. good \subseteq ToSet(b)
      OBVIOUS
    <3> HIDE DEF good, tail
    <3>5. /\ tail \in Seq(Word) /\ ToSet(tail) = ToSet(b) \cap good /\ InOrder(tail) /\ Len(tail) <= Len(b)
          /\ (\A i \in 1..Len(b) : b[i] \in good) => Len(tail) = Len(b)
      BY <2>1, <3>1, <3>2 DEF Kept
    <3>6. Len(tail) \in 0..Len(b)
      BY <2>1, <3>5
    <3>7. ToSet(tail) = good
      BY <3>4, <3>5
    <3>8. final => ToSet(b) \subseteq good
      BY <2>1, <3>3
    <3> QED BY <2>2, <3>3, <3>4, <3>5, <3>6, <3>7, <3>8
  <2>3. CASE ~(final \/ PhraseFinished(x))
    <3>1. tail = <<>>
      BY <2>3
    <3>2. <<>> \in Seq(Word) /\ InOrder(<<>>) /\ ToSet(<<>>) = {} /\ Len(<<>>) = 0
      BY DEF InOrder, ToSet
    <3> HIDE DEF tail
    <3> QED BY <2>1, <2>3, <3>1, <3>2
  <2> QED BY <2>2, <2>3
<1> HIDE DEF tail
<1>10. /\ now \in Seq(Word) /\ Len(now) = n + Len(tail) /\ ToSet(now) = ToSet(a) \cup ToSet(tail) /\ InOrder(now)
  <2>1. Earlier(ToSet(a), ToSet(tail))
    BY <1>8, <1>9 DEF Earlier
  <2> QED BY <1>6, <1>8, <1>9, <2>1, Joined
<1> HIDE DEF now
<1>11. left \in Seq(Word) /\ ToSet(left) \subseteq ToSet(b) /\ (final => left = <<>>)
  <2>1. IsPart(left, b, Len(tail), Len(b) - Len(tail), Word)
    BY <1>8, <1>9, Part
  <2> HIDE DEF left
  <2>2. /\ left \in Seq(Word) /\ Len(left) = Len(b) - Len(tail)
        /\ \A i \in 1..Len(left) : left[i] = b[Len(tail) + i]
    BY <2>1 DEF IsPart
  <2>3. Len(b) \in Nat /\ Len(tail) \in Nat
    BY <1>8, <1>9
  <2>4. ASSUME NEW i \in 1..Len(left) PROVE left[i] \in ToSet(b)
    <3>1. Len(tail) + i \in 1..Len(b)
      BY <2>2, <2>3
    <3> QED BY <1>8, <2>2, <3>1 DEF ToSet
  <2>5. ToSet(left) \subseteq ToSet(b)
    BY <2>2, <2>4 DEF ToSet
  <2>6. final => Len(left) = 0
    BY <1>9, <2>2, <2>3
  <2> QED BY <2>2, <2>5, <2>6
<1> HIDE DEF left
<1>12. final => ~forced
  <2>1. ASSUME final, forced PROVE FALSE
    <3>1. now = <<>> /\ b # <<>>
      BY <2>1
    <3>2. Len(tail) = Len(b) /\ Len(tail) \in Nat /\ Len(b) \in Nat /\ n \in Nat
      BY <1>8, <1>9, <2>1
    <3>3. Len(b) = 0
      BY <1>10, <3>1, <3>2
    <3> QED BY <1>8, <3>1, <3>3
  <2> QED BY <2>1
<1>13. d.now = (IF forced THEN b ELSE now) /\ d.rest = (IF forced THEN <<>> ELSE left) /\ d.forced = forced
  OBVIOUS
<1> HIDE DEF d
<1> DEFINE all == Told(d, final)
<1>14. all = IF forced THEN b ELSE now
  <2>1. CASE final
    <3>1. d.now = now /\ d.rest = <<>>
      BY <1>11, <1>12, <1>13, <2>1
    <3>2. now \o <<>> = now
      BY <1>10
    <3> QED BY <1>12, <2>1, <3>1, <3>2 DEF Told
  <2>2. CASE ~final
    BY <1>13, <2>2 DEF Told
  <2> QED BY <2>1, <2>2
<1>15. forced \in BOOLEAN
  OBVIOUS
<1> HIDE DEF forced, all
<1>16. /\ all \in Seq(Word) /\ InOrder(all) /\ ToSet(all) \subseteq ToSet(hyp)
       /\ d.now \in Seq(Word) /\ d.rest \in Seq(Word) /\ d.forced \in BOOLEAN /\ ToSet(d.rest) \subseteq ToSet(hyp)
  <2>1. ToSet(b) \subseteq ToSet(hyp) /\ ToSet(now) \subseteq ToSet(hyp) /\ ToSet(left) \subseteq ToSet(hyp)
    BY <1>8, <1>9, <1>10, <1>11
  <2>2. ToSet(<<>>) = {} /\ <<>> \in Seq(Word)
    BY DEF ToSet
  <2> QED BY <1>8, <1>10, <1>11, <1>13, <1>14, <1>15, <2>1, <2>2
<1>17. final => ToSet(all) = ToSet(hyp)
  BY <1>8, <1>9, <1>10, <1>12, <1>14
<1>18. ASSUME ~forced, NEW v \in ToSet(all), NEW w \in ToSet(hyp), w.end <= v.end PROVE w \in ToSet(all)
  <2>0. ToSet(all) = ToSet(a) \cup ToSet(tail)
    BY <1>10, <1>14, <1>18
  <2>1. w \in Word /\ v \in Word /\ v.start < v.end /\ w.start < w.end
    BY <1>3, <1>16
  <2>2. w.start \in Nat /\ w.end \in Nat /\ v.start \in Nat /\ v.end \in Nat
    BY <2>1 DEF Word
  <2>3. CASE w \in ToSet(a)
    BY <2>0, <2>3
  <2>4. CASE w \notin ToSet(a)
    <3>1. w \in ToSet(b)
      BY <1>8, <2>4
    <3>2. v \notin ToSet(a)
      <4>1. ASSUME v \in ToSet(a) PROVE FALSE
        <5>1. v.end <= w.start
          BY <1>8, <3>1, <4>1 DEF Earlier
        <5> QED BY <1>18, <2>1, <2>2, <5>1
      <4> QED BY <4>1
    <3>3. v \in ToSet(tail)
      BY <2>0, <3>2
    <3>4. final \/ PhraseFinished(x)
      BY <1>9, <3>3
    <3>5. ToSet(tail) = good
      BY <1>9, <3>4
    <3>6. TailEnd(x, final) \in Int
      <4>1. CASE final
        BY <1>4, <4>1 DEF TailEnd
      <4>2. CASE ~final
        <5>1. final = FALSE /\ PhraseFinished(x)
          BY <3>4, <4>2
        <5> QED BY <5>1, TailGood
      <4> QED BY <4>1, <4>2
    <3>7. v.end <= TailEnd(x, final)
      BY <3>3, <3>5
    <3>8. w.end <= TailEnd(x, final)
      BY <1>18, <2>2, <3>6, <3>7
    <3> QED BY <2>0, <3>1, <3>5, <3>8
  <2> QED BY <2>3, <2>4
<1>19. ASSUME ~forced, Clear(x.from), x.to = Total \/ \A v \in ToSet(x.prev) : Whole(v) \/ v.form < x.to,
              NEW v \in ToSet(all)
       PROVE  Whole(v)
  <2>0. ToSet(all) = ToSet(a) \cup ToSet(tail)
    BY <1>10, <1>14, <1>19
  <2>1. v \in ToSet(hyp)
    BY <1>16
  <2>2. (v.end <= x.to - 3 => Whole(v)) /\ (x.to = Total => Whole(v))
    BY <1>2, <1>19, <2>1 DEF NewOf
  <2>3. CASE x.to = Total
    BY <2>2, <2>3
  <2>4. CASE x.to # Total /\ v \in ToSet(a)
    <3>1. PICK i \in 1..n : v = a[i]
      BY <1>6, <1>8, <2>4 DEF ToSet
    <3>2. x.prev[i].form = v.form
      BY <1>5, <1>8, <3>1
    <3>3. i \in 1..Len(x.prev)
      BY <1>4, <1>5
    <3>4. x.prev[i] \in ToSet(x.prev) /\ x.prev[i] \in Word
      BY <1>4, <3>3 DEF ToSet
    <3>5. Whole(x.prev[i]) \/ x.prev[i].form < x.to
      BY <1>19, <2>4, <3>4
    <3>6. v.form = x.to \/ Whole(v)
      BY <1>3, <2>1
    <3> QED BY <1>4, <3>2, <3>5, <3>6 DEF Whole
  <2>5. CASE x.to # Total /\ v \in ToSet(tail)
    <3>1. ~final /\ PhraseFinished(x)
      BY <1>9, <2>5
    <3> DEFINE e == TailEnd(x, FALSE)
    <3>2. v.end <= e
      <4>1. final = FALSE
        BY <3>1
      <4> QED BY <1>9, <2>5, <3>1, <4>1
    <3>3. e \in Int /\ e <= x.to - 3
      BY <3>1, TailGood
    <3> HIDE DEF e
    <3>4. v.end \in Nat
      BY <1>3, <2>1 DEF Word
    <3>5. x.to \in Nat
      BY <1>4
    <3>6. v.end <= x.to - 3
      BY ONLY <3>2, <3>3, <3>4, <3>5
    <3> QED BY <2>2, <3>6
  <2> QED BY <2>0, <2>3, <2>4, <2>5
<1>20. Decided(d, x, hyp, final)
  BY <1>13, <1>16, <1>17, <1>18, <1>19 DEF Decided, all
<1> QED BY <1>1, <1>20 DEF hyp

-----------------------------------------------------------------------------
(* One step of the transcriber. *)

\* What every step does.
Stepped(r, x) ==
  /\ r \in [t : Transcriber, out : Seq(Segment)]
  /\ r.t.to = x.to /\ r.t.fresh = 0
  /\ x.from <= r.t.from /\ r.t.from <= x.to
  /\ x.committed <= r.t.committed /\ r.t.committed <= x.to
  /\ Texts(r.out) \in Seq(Seq(Word))
  /\ \A i \in 1..Len(r.out) : Unbridged(r.out[i].words)

\* A window that cuts no word and lies behind nothing that was not committed,
\* and words of the last window that were heard wrong at its end.
Fit(x) ==
  /\ Clear(x.from) /\ Clear(x.committed)
  /\ \A w \in ToSet(script) : w.end <= x.from => w.end <= x.committed
  /\ \A v \in ToSet(x.prev) : Whole(v) \/ v.form + x.fresh <= x.to

\* There is sound that the last window did not have, or there will be no more.
Sharp(x) == x.to = Total \/ \A v \in ToSet(x.prev) : Whole(v) \/ v.form < x.to

\* The words between two points of the recording.
Said(from, to) == {w \in ToSet(script) : from < w.end /\ w.end <= to}

\* What a step does that commits nothing by force.
Faithful(r, x, final) ==
  /\ Fit(r.t)
  /\ WordsOf(Texts(r.out) \o <<r.t.utterance>>) = ToSet(x.utterance) \cup Said(x.committed, r.t.committed)
  /\ InOrder(x.utterance) /\ Earlier(ToSet(x.utterance), Said(x.committed, r.t.committed)) =>
       Consecutive(Texts(r.out) \o <<r.t.utterance>>)
  /\ final => r.t.utterance = <<>> /\ \A w \in ToSet(script) : w.end <= r.t.committed

\* What a cut of the window leaves.
LEMMA TrimGood ==
  ASSUME NEW x \in Transcriber, x.from <= x.to, NEW pos \in Nat
  PROVE  /\ TrimTo(x, pos) \in Transcriber
         /\ TrimTo(x, pos) = [x EXCEPT !.from = TrimTo(x, pos).from]
         /\ x.from <= TrimTo(x, pos).from /\ TrimTo(x, pos).from <= x.to
         /\ pos <= x.to => TrimTo(x, pos).from = Most(pos, x.from)
<1> DEFINE f == Least(Most(pos, x.from), x.to)
<1>1. x.from \in Nat /\ x.to \in Nat
  BY DEF Transcriber
<1>2. f \in Nat /\ x.from <= f /\ f <= x.to /\ (pos <= x.to => f = Most(pos, x.from))
  BY <1>1 DEF Least, Most
<1>3. TrimTo(x, pos) = [x EXCEPT !.from = f]
  BY DEF TrimTo
<1> HIDE DEF f
<1>4. [x EXCEPT !.from = f] \in Transcriber /\ [x EXCEPT !.from = f].from = f
  BY <1>2 DEF Transcriber
<1> QED BY <1>2, <1>3, <1>4

\* What a commit makes of the committed point.
Grown(y, x, ws) ==
  /\ y \in Transcriber
  /\ y.from = x.from /\ y.to = x.to /\ y.fresh = x.fresh /\ y.prev = x.prev /\ y.forced = x.forced
  /\ y.utterance = x.utterance \o ws
  /\ x.committed <= y.committed /\ y.committed <= x.to
  /\ \A w \in ToSet(ws) : w.end <= y.committed
  /\ y.committed = x.committed \/ \E w \in ToSet(ws) : w.end = y.committed

\* A commit in order moves the committed point to the end of its last word.
LEMMA CommitGood ==
  ASSUME NEW x \in Transcriber, x.committed <= x.to, NEW ws \in Seq(Word), InOrder(ws),
         \A v \in ToSet(ws) : v.end <= x.to /\ v.start < v.end
  PROVE  Grown(Commit(x, ws), x, ws)
<1> DEFINE c == IF ws = <<>> THEN x.committed ELSE Most(x.committed, Last(ws).end)
           u == x.utterance \o ws
           y == [x EXCEPT !.utterance = u, !.committed = c]
<1>1. Commit(x, ws) = y
  BY DEF Commit
<1>2. x.committed \in Nat /\ x.to \in Nat /\ x.utterance \in Seq(Word)
  BY DEF Transcriber
<1>3. /\ c \in Nat /\ x.committed <= c /\ c <= x.to /\ \A w \in ToSet(ws) : w.end <= c
      /\ c = x.committed \/ \E w \in ToSet(ws) : w.end = c
  <2>1. CASE ws = <<>>
    <3>1. c = x.committed /\ ToSet(ws) = {}
      BY <2>1 DEF ToSet
    <3> QED BY <1>2, <3>1
  <2>2. CASE ws # <<>>
    <3> DEFINE l == Len(ws)
               v == Last(ws)
    <3>1. l \in Nat /\ l \in 1..l /\ DOMAIN ws = 1..l
      BY <2>2
    <3>2. v = ws[l]
      BY DEF Last
    <3>3. v \in ToSet(ws) /\ v \in Word
      BY <3>1, <3>2 DEF ToSet
    <3>4. c = Most(x.committed, v.end)
      BY <2>2
    <3> HIDE DEF l, v
    <3>5. v.end \in Nat /\ v.start \in Nat /\ v.end <= x.to /\ v.start < v.end
      BY <3>3 DEF Word
    <3> HIDE DEF c
    <3>6. c \in Nat /\ x.committed <= c /\ c <= x.to /\ v.end <= c /\ (c = x.committed \/ c = v.end)
      BY <1>2, <3>4, <3>5 DEF Most
    <3>7. ASSUME NEW w \in ToSet(ws) PROVE w.end <= c
      <4>1. PICK i \in 1..l : w = ws[i]
        BY <3>1 DEF ToSet
      <4>2. CASE i = l
        BY <3>2, <3>6, <4>1, <4>2
      <4>3. CASE i # l
        <5>0. i < l
          BY ONLY <3>1, <4>1, <4>3
        <5>1. w.end <= v.start
          BY <3>1, <3>2, <4>1, <5>0 DEF InOrder, l
        <5>2. w.end \in Nat
          <6>1. \A j \in 1..Len(ws) : ws[j] \in Word
            OBVIOUS
          <6>2. w \in Word
            BY <4>1, <6>1 DEF l
          <6> QED BY <6>2 DEF Word
        <5>3. w.end <= v.end /\ v.end <= c
          BY ONLY <3>5, <3>6, <5>1, <5>2
        <5> QED BY ONLY <3>5, <3>6, <5>2, <5>3
      <4> QED BY <4>2, <4>3
    <3> QED BY <3>3, <3>6, <3>7
  <2> QED BY <2>1, <2>2
<1>4. u \in Seq(Word)
  BY <1>2
<1> HIDE DEF c, u
<1>5. /\ y \in Transcriber /\ y.utterance = u /\ y.committed = c
      /\ y.from = x.from /\ y.to = x.to /\ y.fresh = x.fresh /\ y.prev = x.prev /\ y.forced = x.forced
  BY <1>3, <1>4 DEF Transcriber
<1> HIDE DEF y
<1>6. Grown(y, x, ws)
  BY <1>3, <1>5 DEF Grown, u
<1> QED BY <1>1, <1>6

\* Emit alone is a step.
LEMMA EmitSteps ==
  ASSUME script \in Scripts, NEW x \in Transcriber, NEW final \in BOOLEAN, NEW close \in BOOLEAN,
         x.fresh = 0, x.from <= x.to, x.committed <= x.to, final => close
  PROVE  /\ Stepped(Emit(x, close), x)
         /\ Fit(x) /\ (final => \A w \in ToSet(script) : w.end <= x.committed) =>
              Faithful(Emit(x, close), x, final)
<1> DEFINE r == Emit(x, close)
<1>1. Given(r, x, close)
  BY EmitGood
<1>2. x.from \in Nat /\ x.to \in Nat /\ x.committed \in Nat
  BY DEF Transcriber
<1> HIDE DEF r
<1>3. Stepped(r, x)
  BY <1>1, <1>2 DEF Given, Stepped
<1>4. ASSUME Fit(x), final => \A w \in ToSet(script) : w.end <= x.committed PROVE Faithful(r, x, final)
  <2>1. Fit(r.t)
    BY <1>1, <1>4 DEF Given, Fit
  <2>2. Said(x.committed, r.t.committed) = {}
    <3>1. ASSUME NEW w \in ToSet(script) PROVE ~(x.committed < w.end /\ w.end <= x.committed)
      <4>1. w.end \in Nat
        BY ScriptGood DEF Word
      <4> QED BY <1>2, <4>1
    <3> QED BY <1>1, <3>1 DEF Given, Said
  <2>3. /\ WordsOf(Texts(r.out) \o <<r.t.utterance>>) = ToSet(x.utterance)
        /\ InOrder(x.utterance) => Consecutive(Texts(r.out) \o <<r.t.utterance>>)
        /\ close => r.t.utterance = <<>>
        /\ r.t.committed = x.committed
    BY <1>1 DEF Given
  <2> QED BY <1>4, <2>1, <2>2, <2>3 DEF Faithful
<1> QED BY <1>3, <1>4 DEF r

\* Silence is dropped: no word that begins late is cut, none that ended is missed.
LEMMA DropSteps ==
  ASSUME script \in Scripts, NEW x \in Transcriber, NEW final \in BOOLEAN,
         x.fresh = 0, x.from <= x.to, x.committed <= x.to, final => x.to = Total, Quiet(x)
  PROVE  /\ Stepped(DropSilence(x, final), x)
         /\ Fit(x) => Faithful(DropSilence(x, final), x, final)
<1> DEFINE over == x.utterance # <<>> /\ x.to - Last(x.utterance).end >= PhraseEnd
           close == final \/ over
           q == Emit(x, close)
           pos == Most(x.committed, x.to - KeptSilence)
           r == [q EXCEPT !.t = TrimTo(q.t, pos)]
<1>1. DropSilence(x, final) = r
  BY DEF DropSilence
<1>2. x.from \in Nat /\ x.to \in Nat /\ x.committed \in Nat /\ pos \in Nat /\ pos <= x.to
  BY DEF Transcriber, Most, KeptSilence
<1>3. Given(q, x, close) /\ Stepped(q, x)
  <2>1. close \in BOOLEAN /\ (final => close)
    OBVIOUS
  <2> HIDE DEF close
  <2> QED BY <2>1, EmitGood, EmitSteps
<1>4. x.committed <= pos /\ (pos = x.committed \/ pos = x.to - 5)
  BY <1>2 DEF Most, KeptSilence
<1> HIDE DEF q, pos
<1>5. /\ q \in [t : Transcriber, out : Seq(Segment)] /\ q.t \in Transcriber
      /\ q.t.from = x.from /\ q.t.to = x.to /\ q.t.committed = x.committed /\ q.t.prev = x.prev /\ q.t.fresh = 0
  BY <1>3 DEF Given
<1> DEFINE y == TrimTo(q.t, pos)
<1>6. y \in Transcriber /\ y = [q.t EXCEPT !.from = y.from] /\ y.from = Most(pos, x.from)
      /\ x.from <= y.from /\ y.from <= x.to
  BY <1>2, <1>5, TrimGood
<1>7. r.t = y /\ r.out = q.out /\ r \in [t : Transcriber, out : Seq(Segment)]
  BY <1>5, <1>6
<1> HIDE DEF y, r
<1>8. y.to = x.to /\ y.committed = x.committed /\ y.prev = x.prev /\ y.fresh = 0 /\ y.utterance = q.t.utterance
  <2>1. /\ [q.t EXCEPT !.from = y.from].to = q.t.to /\ [q.t EXCEPT !.from = y.from].committed = q.t.committed
        /\ [q.t EXCEPT !.from = y.from].prev = q.t.prev /\ [q.t EXCEPT !.from = y.from].fresh = q.t.fresh
        /\ [q.t EXCEPT !.from = y.from].utterance = q.t.utterance
    BY <1>5 DEF Transcriber
  <2> QED BY <1>5, <1>6, <2>1
<1>9. Stepped(r, x)
  <2>1. Texts(q.out) \in Seq(Seq(Word)) /\ \A i \in 1..Len(q.out) : Unbridged(q.out[i].words)
    BY <1>3 DEF Stepped
  <2> QED BY <1>2, <1>6, <1>7, <1>8, <2>1 DEF Stepped
<1>10. ASSUME Fit(x) PROVE Faithful(r, x, final)
  <2>1. ASSUME NEW w \in ToSet(script)
        PROVE  /\ w.start \in Nat /\ w.end \in Nat /\ w.end >= w.start + 2
               /\ w.end <= x.committed \/ w.start >= x.to - 1
    <3>1. w \in Word /\ w.start \in Nat /\ w.end \in Nat /\ w.end >= w.start + 2
      BY ScriptGood DEF Word
    <3>2. (w.end <= x.from => w.end <= x.committed) /\ (w.end <= x.from \/ x.from <= w.start)
          /\ (w.end <= x.committed \/ x.committed <= w.start)
      BY <1>10 DEF Fit, Clear
    <3>3. CASE w.end <= x.from \/ w.start >= x.to
      BY <1>2, <3>1, <3>2, <3>3
    <3>4. CASE ~(w.end <= x.from \/ w.start >= x.to)
      <4> DEFINE iv == <<Most(w.start, x.from), Least(w.end, x.to)>>
      <4>1. w.end > x.from /\ w.start < x.to /\ x.from <= w.start
        BY <1>2, <3>1, <3>2, <3>4
      <4>2. Most(w.start, x.from) = w.start
        BY <1>2, <3>1, <4>1 DEF Most
      <4>3. w \in ToSet(InWindow(x.from, x.to))
        <5> DEFINE inside == {u \in ToSet(script) : u.end > x.from /\ u.start < x.to}
        <5>1. script \in Seq(Word) /\ InOrder(script)
          BY ScriptGood
        <5>2. Kept(InWindow(x.from, x.to), script, inside, Len(script))
          BY <5>1, KeepSelects DEF InWindow
        <5>3. {script[i] : i \in 1..Len(script)} = ToSet(script)
          BY <5>1 DEF ToSet
        <5>4. w \in inside
          BY <4>1
        <5> HIDE DEF inside
        <5> QED BY <5>2, <5>3, <5>4 DEF Kept
      <4>4. iv[2] - iv[1] >= MinSpeech => iv \in Speech(x.from, x.to)
        <5>1. iv \in {<<Most(u.start, x.from), Least(u.end, x.to)>> : u \in ToSet(InWindow(x.from, x.to))}
          BY <4>3
        <5> HIDE DEF iv
        <5> QED BY <5>1 DEF Speech
      <4>5. iv[1] = w.start /\ iv[2] = Least(w.end, x.to)
        BY <4>2
      <4> HIDE DEF iv
      <4>6. Least(w.end, x.to) - w.start >= 2 => Least(w.end, x.to) <= x.committed
        BY <4>4, <4>5 DEF Quiet, MinSpeech
      <4>7. CASE w.end <= x.to
        <5>1. Least(w.end, x.to) = w.end
          BY <1>2, <3>1, <4>7 DEF Least
        <5> QED BY <1>2, <3>1, <4>6, <5>1
      <4>8. CASE ~(w.end <= x.to)
        <5>1. Least(w.end, x.to) = x.to
          BY <1>2, <3>1, <4>8 DEF Least
        <5> QED BY <1>2, <3>1, <3>2, <4>1, <4>6, <4>8, <5>1
      <4> QED BY <4>7, <4>8
    <3> QED BY <3>1, <3>3, <3>4
  <2>2. y.from \in Nat /\ (y.from = x.from \/ y.from = x.committed \/ y.from = x.to - 5)
        /\ x.committed <= y.from /\ x.from <= y.from /\ y.from <= x.to
    BY <1>2, <1>4, <1>6 DEF Most
  <2>3. ASSUME NEW w \in ToSet(script)
        PROVE  /\ w.end <= y.from \/ y.from <= w.start
               /\ w.end <= y.from => w.end <= y.committed
               /\ final => w.end <= x.committed
    <3>1. /\ w.end <= x.from => w.end <= x.committed
          /\ w.end <= x.from \/ x.from <= w.start
          /\ w.end <= x.committed \/ x.committed <= w.start
      BY <1>10 DEF Fit, Clear
    <3>2. final => w.end <= x.to - 4
      <4> DEFINE e == Last(script).end
      <4>1. w.end <= e /\ Total = e + 4 /\ e \in Nat
        BY ScriptGood DEF Word
      <4> HIDE DEF e
      <4>2. final => x.to = e + 4
        BY <4>1
      <4> QED BY <2>1, <4>1, <4>2
    <3> QED BY <1>2, <1>8, <2>1, <2>2, <3>1, <3>2
  <2>4. Fit(y)
    <3>1. Clear(y.from) /\ Clear(y.committed)
      BY <1>8, <1>10, <2>3 DEF Clear, Fit
    <3>2. \A v \in ToSet(y.prev) : Whole(v) \/ v.form + y.fresh <= y.to
      BY <1>8, <1>10 DEF Fit
    <3> QED BY <2>3, <3>1, <3>2 DEF Fit
  <2>5. Faithful(q, x, final)
    <3>1. close \in BOOLEAN /\ (final => close)
      OBVIOUS
    <3>2. final => \A w \in ToSet(script) : w.end <= x.committed
      BY <2>3
    <3> HIDE DEF close
    <3> QED BY <1>10, <3>1, <3>2, EmitSteps DEF q
  <2> QED BY <1>5, <1>7, <1>8, <2>4, <2>5 DEF Faithful
<1> QED BY <1>1, <1>9, <1>10

\* A recognition commits what was said between the old and the new point.
LEMMA RecogniseSteps ==
  ASSUME script \in Scripts, NEW x \in Transcriber, NEW h, HeardIn(h, x.from, x.to), NEW final \in BOOLEAN,
         x.fresh = 0, x.from < x.to, x.committed <= x.to, final => x.to = Total
  PROVE  /\ Stepped(Recognise(x, h, final), x)
         /\ Fit(x) /\ Sharp(x) /\ Forced(Recognise(x, h, final)) = {} =>
              Faithful(Recognise(x, h, final), x, final)
<1> DEFINE hyp   == NewWords(x, h)
           d     == Decide(x, h, final)
           all   == Told(d, final)
           c     == Commit(x, all)
           p     == IF final THEN <<>> ELSE d.rest
           f     == c.forced \/ d.forced
           y     == [c EXCEPT !.prev = p, !.forced = f]
           close == final \/ (PhraseFinished(x) /\ d.rest = <<>>)
           q     == Emit(y, close)
           z     == IF x.to - x.from > MaxWindow THEN TrimTo(q.t, q.t.committed) ELSE q.t
           r     == [q EXCEPT !.t = z]
<1>1. Recognise(x, h, final) = r
  BY DEF Recognise, Told
<1>2. x.from \in Nat /\ x.to \in Nat /\ x.committed \in Nat /\ x.utterance \in Seq(Word)
  BY DEF Transcriber
<1>3. NewOf(hyp, x)
  BY NewGood
<1>4. Decided(d, x, hyp, final)
  BY <1>3, DecideGood
<1>5. close \in BOOLEAN /\ (final => close)
  OBVIOUS
<1> HIDE DEF hyp, d, close
<1>6. /\ \A v \in ToSet(hyp) : /\ v \in Word /\ x.committed < v.end /\ v.end <= x.to /\ v.start < v.end
                               /\ v.form = x.to \/ Whole(v)
                               /\ Whole(v) => v \in ToSet(script) /\ v.end <= x.to - 3
  BY <1>3 DEF NewOf
<1>7. /\ all \in Seq(Word) /\ InOrder(all) /\ ToSet(all) \subseteq ToSet(hyp)
      /\ d.rest \in Seq(Word) /\ d.forced \in BOOLEAN /\ ToSet(d.rest) \subseteq ToSet(hyp)
  BY <1>4 DEF Decided
<1> HIDE DEF all
<1>8. Grown(c, x, all)
  BY <1>6, <1>7, CommitGood
<1> HIDE DEF c
<1>9. /\ c \in Transcriber /\ c.from = x.from /\ c.to = x.to /\ c.fresh = 0
      /\ c.utterance = x.utterance \o all
      /\ x.committed <= c.committed /\ c.committed <= x.to /\ c.committed \in Nat
      /\ \A w \in ToSet(all) : w.end <= c.committed
      /\ c.committed = x.committed \/ \E w \in ToSet(all) : w.end = c.committed
  <2>1. c.committed \in Nat
    BY <1>8 DEF Grown, Transcriber
  <2> QED BY <1>8, <2>1 DEF Grown
<1>10. /\ p \in Seq(Word) /\ f \in BOOLEAN /\ (d.forced => f)
       /\ \A v \in ToSet(p) : Whole(v) \/ v.form = x.to
  <2>1. ToSet(p) \subseteq ToSet(hyp)
    <3>1. ToSet(<<>>) = {}
      BY DEF ToSet
    <3> QED BY <1>7, <3>1
  <2>2. p \in Seq(Word)
    BY <1>7
  <2>3. f \in BOOLEAN /\ (d.forced => f)
    BY <1>7, <1>9 DEF Transcriber
  <2> HIDE DEF p, f
  <2> QED BY <1>6, <2>1, <2>2, <2>3
<1> HIDE DEF p, f
<1>11. /\ y \in Transcriber /\ y.from = x.from /\ y.to = x.to /\ y.fresh = 0 /\ y.committed = c.committed
       /\ y.utterance = c.utterance /\ y.prev = p /\ y.forced = f
  BY <1>9, <1>10 DEF Transcriber
<1> HIDE DEF y
<1>12. Given(q, y, close)
  BY <1>5, <1>11, EmitGood
<1> HIDE DEF q
<1>13. /\ q \in [t : Transcriber, out : Seq(Segment)] /\ q.t \in Transcriber
       /\ q.t.from = x.from /\ q.t.to = x.to /\ q.t.committed = c.committed /\ q.t.prev = p /\ q.t.fresh = 0
       /\ Texts(q.out) \in Seq(Seq(Word))
       /\ \A i \in 1..Len(q.out) : Unbridged(q.out[i].words)
       /\ WordsOf(Texts(q.out) \o <<q.t.utterance>>) = ToSet(c.utterance)
       /\ InOrder(c.utterance) => Consecutive(Texts(q.out) \o <<q.t.utterance>>)
       /\ close => q.t.utterance = <<>>
       /\ f => q.t.forced \/ \E i \in 1..Len(q.out) : q.out[i].forced
  BY <1>11, <1>12 DEF Given
<1>14. /\ r \in [t : Transcriber, out : Seq(Segment)] /\ r.out = q.out
       /\ r.t.to = x.to /\ r.t.committed = c.committed /\ r.t.prev = p /\ r.t.fresh = 0
       /\ r.t.utterance = q.t.utterance /\ r.t.forced = q.t.forced
       /\ r.t.from = x.from \/ r.t.from = Most(c.committed, x.from)
  <2>1. /\ z \in Transcriber
        /\ z.to = q.t.to /\ z.committed = q.t.committed /\ z.prev = q.t.prev /\ z.fresh = q.t.fresh
        /\ z.utterance = q.t.utterance /\ z.forced = q.t.forced
        /\ z.from = x.from \/ z.from = Most(c.committed, x.from)
    <3>1. CASE x.to - x.from > MaxWindow
      <4> DEFINE s == q.t
                 k == c.committed
                 y2 == TrimTo(s, k)
      <4>1. s \in Transcriber /\ s.from <= s.to /\ k \in Nat /\ k <= s.to /\ s.from = x.from
        BY <1>2, <1>9, <1>13
      <4>2. z = y2
        BY <1>13, <3>1
      <4> HIDE DEF s, k
      <4>3. y2 \in Transcriber /\ y2 = [s EXCEPT !.from = y2.from] /\ y2.from = Most(k, s.from)
        BY <4>1, TrimGood
      <4> DEFINE n == y2.from
      <4>4. y2 = [s EXCEPT !.from = n]
        BY <4>3
      <4> HIDE DEF n, y2
      <4>5. /\ y2.to = s.to /\ y2.committed = s.committed /\ y2.prev = s.prev /\ y2.fresh = s.fresh
            /\ y2.utterance = s.utterance /\ y2.forced = s.forced
        BY <4>1, <4>4 DEF Transcriber
      <4> QED BY <4>1, <4>2, <4>3, <4>5 DEF s, k
    <3>2. CASE ~(x.to - x.from > MaxWindow)
      BY <1>13, <3>2
    <3> QED BY <3>1, <3>2
  <2> HIDE DEF z
  <2>2. r.t = z /\ r.out = q.out /\ r \in [t : Transcriber, out : Seq(Segment)]
    BY <1>13, <2>1
  <2> HIDE DEF r
  <2> QED BY <1>13, <2>1, <2>2
<1> HIDE DEF r
<1>15. /\ x.from <= r.t.from /\ r.t.from <= x.to
       /\ r.t.from = x.from \/ r.t.from = c.committed
       /\ r.t.from \in Nat
  BY <1>2, <1>9, <1>14 DEF Most
<1>16. Stepped(r, x)
  BY <1>9, <1>13, <1>14, <1>15 DEF Stepped
<1>17. ASSUME Fit(x), Sharp(x), Forced(r) = {} PROVE Faithful(r, x, final)
  <2>1. ~d.forced
    <3>1. ~(r.t.forced \/ \E i \in 1..Len(r.out) : r.out[i].forced)
      BY <1>17 DEF Forced
    <3> QED BY <1>10, <1>13, <1>14, <3>1
  <2>2. \A w \in ToSet(script) : /\ w.start \in Nat /\ w.end \in Nat /\ w.end >= w.start + 2
                                 /\ x.to = Total => w.end <= x.to - 3
    <3>1. ASSUME NEW w \in ToSet(script)
          PROVE  /\ w.start \in Nat /\ w.end \in Nat /\ w.end >= w.start + 2
                 /\ x.to = Total => w.end <= x.to - 3
      <4> DEFINE e == Last(script).end
      <4>1. w.end <= e /\ Total = e + 4 /\ e \in Nat
        BY ScriptGood DEF Word
      <4>2. w.start \in Nat /\ w.end \in Nat /\ w.end >= w.start + 2
        BY ScriptGood DEF Word
      <4> HIDE DEF e
      <4> QED BY <4>1, <4>2
    <3> QED BY <3>1
  <2>3. Clear(x.from) /\ Clear(x.committed) /\ \A w \in ToSet(script) : w.end <= x.from => w.end <= x.committed
    BY <1>17 DEF Fit
  <2>4. /\ \A v \in ToSet(all) : Whole(v) /\ v \in ToSet(script) /\ v.end <= x.to - 3 /\ x.committed < v.end
        /\ \A v \in ToSet(all), w \in ToSet(hyp) : w.end <= v.end => w \in ToSet(all)
        /\ final => ToSet(all) = ToSet(hyp)
    <3>1. /\ \A v \in ToSet(all) : Whole(v)
          /\ \A v \in ToSet(all), w \in ToSet(hyp) : w.end <= v.end => w \in ToSet(all)
          /\ final => ToSet(all) = ToSet(hyp)
      BY <1>4, <1>17, <2>1, <2>3 DEF Decided, Sharp, all
    <3> QED BY <1>6, <1>7, <3>1
  <2>5. \A w \in ToSet(script) : w.end > x.committed /\ w.end <= x.to - 3 => w \in ToSet(hyp)
    <3>1. ASSUME NEW w \in ToSet(script), w.end > x.committed, w.end <= x.to - 3 PROVE w \in ToSet(hyp)
      <4>1. w.end > x.from
        BY <1>2, <2>2, <2>3, <3>1
      <4> QED BY <1>3, <2>3, <3>1, <4>1 DEF NewOf
    <3> QED BY <3>1
  <2>6. Said(x.committed, c.committed) = ToSet(all)
    <3>1. ASSUME NEW w \in ToSet(all) PROVE w \in Said(x.committed, c.committed)
      BY <1>9, <2>4 DEF Said
    <3>2. ASSUME NEW w \in ToSet(script), x.committed < w.end, w.end <= c.committed PROVE w \in ToSet(all)
      <4>1. c.committed # x.committed
        BY <1>2, <2>2, <3>2
      <4>2. PICK v \in ToSet(all) : v.end = c.committed
        BY <1>9, <4>1
      <4>3. w.end <= v.end /\ v.end <= x.to - 3 /\ v.end \in Nat
        BY <1>9, <2>4, <3>2, <4>2
      <4>4. w.end <= x.to - 3
        BY <1>2, <2>2, <4>3
      <4>5. w \in ToSet(hyp)
        BY <2>5, <3>2, <4>4
      <4> QED BY <2>4, <4>3, <4>5
    <3> QED BY <3>1, <3>2 DEF Said
  <2>7. Clear(c.committed)
    <3>1. CASE c.committed = x.committed
      BY <2>3, <3>1
    <3>2. CASE c.committed # x.committed
      <4>1. PICK v \in ToSet(all) : v.end = c.committed
        BY <1>9, <3>2
      <4>2. v \in ToSet(script)
        BY <2>4
      <4>3. Clear(v.end)
        BY <4>2, EndIsClear
      <4> QED BY <4>1, <4>3
    <3> QED BY <3>1, <3>2
  <2>8. Fit(r.t)
    <3>1. Clear(r.t.from) /\ Clear(r.t.committed)
      BY <1>14, <1>15, <2>3, <2>7
    <3>2. ASSUME NEW w \in ToSet(script), w.end <= r.t.from PROVE w.end <= r.t.committed
      <4>1. w.end \in Nat
        BY <2>2
      <4>2. r.t.committed = c.committed
        BY <1>14
      <4>3. CASE r.t.from = x.from
        BY <1>2, <1>9, <2>3, <3>2, <4>1, <4>2, <4>3
      <4>4. CASE r.t.from = c.committed
        BY <3>2, <4>2, <4>4
      <4> QED BY <1>15, <4>3, <4>4
    <3>3. \A v \in ToSet(r.t.prev) : Whole(v) \/ v.form + r.t.fresh <= r.t.to
      BY <1>2, <1>10, <1>14
    <3> QED BY <3>1, <3>2, <3>3 DEF Fit
  <2>9. /\ ToSet(c.utterance) = ToSet(x.utterance) \cup ToSet(all)
        /\ InOrder(x.utterance) /\ Earlier(ToSet(x.utterance), ToSet(all)) => InOrder(c.utterance)
    BY <1>2, <1>7, <1>9, Joined
  <2>10. final => r.t.utterance = <<>> /\ \A w \in ToSet(script) : w.end <= r.t.committed
    <3>1. ASSUME final, NEW w \in ToSet(script) PROVE w.end <= c.committed
      <4>1. w.end \in Nat /\ w.end <= x.to - 3
        BY <2>2, <3>1
      <4>2. CASE w.end <= x.committed
        BY <1>2, <1>9, <4>1, <4>2
      <4>3. CASE ~(w.end <= x.committed)
        <5>1. w \in ToSet(hyp)
          BY <1>2, <2>5, <4>1, <4>3
        <5> QED BY <1>9, <2>4, <3>1, <5>1
      <4> QED BY <4>2, <4>3
    <3> QED BY <1>5, <1>13, <1>14, <3>1
  <2>11. /\ WordsOf(Texts(r.out) \o <<r.t.utterance>>) = ToSet(c.utterance)
         /\ InOrder(c.utterance) => Consecutive(Texts(r.out) \o <<r.t.utterance>>)
         /\ r.t.committed = c.committed
    BY <1>13, <1>14
  <2> QED BY <2>6, <2>8, <2>9, <2>10, <2>11 DEF Faithful
<1> QED BY <1>1, <1>16, <1>17

\* A step of the transcriber.
LEMMA StepGood ==
  ASSUME script \in Scripts, NEW x \in Transcriber, NEW h \in Hypotheses(x.from, x.to), NEW final \in BOOLEAN,
         x.from <= x.to, x.committed <= x.to, final => x.to = Total
  PROVE  /\ Stepped(Step(x, h, final), x)
         /\ Fit(x) /\ Sharp(x) /\ Forced(Step(x, h, final)) = {} => Faithful(Step(x, h, final), x, final)
<1> DEFINE y == [x EXCEPT !.fresh = 0]
           r == Step(x, h, final)
<1>1. /\ y \in Transcriber /\ y.from = x.from /\ y.to = x.to /\ y.committed = x.committed /\ y.prev = x.prev
      /\ y.utterance = x.utterance /\ y.fresh = 0
      /\ x.from \in Nat /\ x.to \in Nat /\ x.committed \in Nat /\ x.fresh \in Nat /\ x.prev \in Seq(Word)
  BY DEF Transcriber
<1>2. HeardIn(h, x.from, x.to)
  BY <1>1, HypothesisGood
<1>3. r = IF x.to - x.from < MinBuffer THEN Emit(y, final)
          ELSE IF Quiet(x) THEN DropSilence(y, final) ELSE Recognise(y, h, final)
  BY DEF Step
<1>4. Quiet(x) => Quiet(y)
  BY <1>1 DEF Quiet
<1>5. Fit(x) => Fit(y)
  <2>1. ASSUME Fit(x), NEW v \in ToSet(x.prev) PROVE Whole(v) \/ v.form + 0 <= x.to
    <3>0. v \in Word
      BY <1>1 DEF ToSet
    <3>1. v.form \in Nat
      BY <3>0 DEF Word
    <3>2. Whole(v) \/ v.form + x.fresh <= x.to
      BY <2>1 DEF Fit
    <3> QED BY <1>1, <3>1, <3>2
  <2> QED BY <1>1, <2>1 DEF Fit
<1>6. Sharp(x) => Sharp(y)
  BY <1>1 DEF Sharp
<1>7. final => y.to = Total
  BY <1>1
<1>8. y.from <= y.to /\ y.committed <= y.to
  BY <1>1
<1> HIDE DEF y, r
<1>9. Stepped(r, y) /\ (Fit(y) /\ Sharp(y) /\ Forced(r) = {} => Faithful(r, y, final))
  <2>1. CASE x.to - x.from < MinBuffer
    <3>1. r = Emit(y, final)
      BY <1>3, <2>1
    <3>2. ASSUME Fit(y), final, NEW w \in ToSet(script) PROVE w.end <= y.committed
      <4> DEFINE e == Last(script).end
      <4>1. w.end <= e /\ Total = e + 4 /\ e \in Nat /\ w.end \in Nat
        BY ScriptGood DEF Word
      <4>2. x.to - x.from < 2
        BY <2>1 DEF MinBuffer
      <4> HIDE DEF e
      <4>3. x.to = e + 4
        BY <1>1, <1>7, <3>2, <4>1
      <4>4. w.end <= y.from
        BY <1>1, <4>1, <4>2, <4>3
      <4> QED BY <3>2, <4>4 DEF Fit
    <3>3. /\ Stepped(Emit(y, final), y)
          /\ Fit(y) /\ (final => \A w \in ToSet(script) : w.end <= y.committed) =>
               Faithful(Emit(y, final), y, final)
      BY <1>1, <1>8, EmitSteps
    <3> QED BY <3>1, <3>2, <3>3
  <2>2. CASE ~(x.to - x.from < MinBuffer) /\ Quiet(x)
    <3>1. r = DropSilence(y, final)
      BY <1>3, <2>2
    <3> QED BY <1>1, <1>4, <1>7, <1>8, <2>2, <3>1, DropSteps
  <2>3. CASE ~(x.to - x.from < MinBuffer) /\ ~Quiet(x)
    <3>1. r = Recognise(y, h, final)
      BY <1>3, <2>3
    <3>2. y.from < y.to
      BY <1>1, <2>3 DEF MinBuffer
    <3>3. HeardIn(h, y.from, y.to)
      BY <1>1, <1>2
    <3> QED BY <1>1, <1>7, <1>8, <3>1, <3>2, <3>3, RecogniseSteps
  <2> QED BY <2>1, <2>2, <2>3
<1>10. Stepped(r, x)
  BY <1>1, <1>9 DEF Stepped
<1>11. ASSUME Fit(x), Sharp(x), Forced(r) = {} PROVE Faithful(r, x, final)
  BY <1>1, <1>5, <1>6, <1>9, <1>11 DEF Faithful
<1> QED BY <1>10, <1>11 DEF r

-----------------------------------------------------------------------------
(* The invariant. *)

\* What no failure changes.
Sane ==
  /\ script \in Scripts
  /\ t \in Transcriber
  /\ t.from <= t.to /\ t.to <= durable /\ durable <= Total
  /\ t.committed <= t.to /\ checkpoint <= t.committed /\ t.fresh <= t.to
  /\ durable \in Nat /\ checkpoint \in Nat
  /\ closed \in BOOLEAN /\ liveDone \in BOOLEAN
  /\ closed => durable = Total
  /\ segments \in Seq(Segment)
  /\ faults \subseteq {"forced", "asr", "write", "crash"}
  /\ \A i \in 1..Len(segments) : Unbridged(segments[i].words)

\* As long as nothing was committed by force: what is stored and what is about
\* to be stored are words of the recording in their order, those stored lie
\* before the checkpoint and those told before the committed point.
Sound ==
  /\ Fit(t) /\ Clear(checkpoint)
  /\ Consecutive(Texts(segments) \o <<t.utterance>>)
  /\ \A w \in WordsOf(Texts(segments)) : w \in ToSet(script) /\ w.end <= checkpoint
  /\ \A w \in ToSet(t.utterance) : w \in ToSet(script) /\ w.end <= t.committed

\* As long as nothing else than a recognition failed: nothing is left out.
Complete ==
  /\ \A w \in ToSet(script) : w.end <= t.committed => w \in WordsOf(Texts(segments) \o <<t.utterance>>)
  /\ liveDone => WordsOf(Texts(segments)) = ToSet(script)

\* The inductive invariant.
IInv ==
  /\ Sane
  /\ "forced" \notin faults => Sound
  /\ faults \subseteq {"asr"} => Complete

\* The transcriber with the sound that arrived.
LEMMA ReadGood ==
  ASSUME Sane, NEW n \in Nat
  PROVE  /\ Read(n) \in Transcriber
         /\ Read(n).from = t.from /\ Read(n).committed = t.committed /\ Read(n).prev = t.prev
         /\ Read(n).utterance = t.utterance
         /\ Read(n).from <= Read(n).to /\ Read(n).committed <= Read(n).to /\ Read(n).fresh <= Read(n).to
         /\ Read(n).to <= Arrived(n) /\ durable <= Arrived(n) /\ Arrived(n) <= Total /\ Arrived(n) \in Nat
         /\ closed => Arrived(n) = Total
         /\ CaughtUp(n) \in BOOLEAN /\ (CaughtUp(n) => Read(n).to = Total)
         /\ Fit(t) => Fit(Read(n)) /\ (Due(n) => Sharp(Read(n)))
<1> DEFINE a  == Arrived(n)
           to == Least(a, t.to + MaxRead)
           f  == t.fresh + to - t.to
           x  == [t EXCEPT !.to = to, !.fresh = f]
<1>1. /\ t \in Transcriber /\ t.from <= t.to /\ t.to <= durable /\ durable <= Total /\ t.committed <= t.to
      /\ t.fresh <= t.to /\ durable \in Nat /\ (closed => durable = Total) /\ closed \in BOOLEAN
      /\ t.from \in Nat /\ t.to \in Nat /\ t.committed \in Nat /\ t.fresh \in Nat /\ t.prev \in Seq(Word)
  BY DEF Sane, Transcriber
<1>2. Total \in Nat
  BY ScriptGood DEF Sane
<1>3. MaxRead \in Nat /\ StepLen \in Nat /\ StepLen > 0
  BY LiveAssumption
<1>4. Read(n) = x
  BY DEF Read, Push
<1>5. a \in Nat /\ durable <= a /\ a <= Total /\ (closed => a = Total)
  BY <1>1, <1>2 DEF Arrived, Least
<1> HIDE DEF a
<1>6. to \in Nat /\ t.to <= to /\ to <= a
  BY <1>1, <1>3, <1>5 DEF Least
<1> HIDE DEF to
<1>7. f \in Nat /\ f <= to /\ f = t.fresh + to - t.to
  BY <1>1, <1>6
<1> HIDE DEF f
<1>8. /\ x \in Transcriber /\ x.to = to /\ x.fresh = f /\ x.from = t.from /\ x.committed = t.committed
      /\ x.prev = t.prev /\ x.utterance = t.utterance
  BY <1>1, <1>6, <1>7 DEF Transcriber
<1> HIDE DEF x
<1>9. x.from <= x.to /\ x.committed <= x.to
  BY <1>1, <1>6, <1>8
<1>10. CaughtUp(n) \in BOOLEAN /\ (CaughtUp(n) => x.to = Total)
  BY <1>1, <1>4, <1>5 DEF CaughtUp, a
<1>11. ASSUME Fit(t), NEW v \in ToSet(x.prev) PROVE v.form \in Nat /\ (Whole(v) \/ v.form + f <= to)
  <2>1. v \in Word
    BY <1>1, <1>8 DEF ToSet
  <2>2. v.form \in Nat
    BY <2>1 DEF Word
  <2>3. Whole(v) \/ v.form + t.fresh <= t.to
    BY <1>8, <1>11 DEF Fit
  <2> QED BY <1>1, <1>6, <1>7, <2>2, <2>3
<1>12. Fit(t) => Fit(x)
  BY <1>8, <1>11 DEF Fit
<1>13. ASSUME Fit(t), Due(n) PROVE Sharp(x)
  <2>1. CASE CaughtUp(n)
    BY <1>10, <2>1 DEF Sharp
  <2>2. CASE ~CaughtUp(n)
    <3>1. f >= StepLen
      BY <1>4, <1>8, <1>13, <2>2 DEF Due, Ready
    <3>2. ASSUME NEW v \in ToSet(x.prev) PROVE Whole(v) \/ v.form < x.to
      <4>1. v.form \in Nat /\ (Whole(v) \/ v.form + f <= to)
        BY <1>11, <1>13
      <4> QED BY <1>3, <1>6, <1>7, <1>8, <3>1, <4>1
    <3> QED BY <3>2 DEF Sharp
  <2> QED BY <2>1, <2>2
<1> QED BY <1>4, <1>5, <1>6, <1>7, <1>8, <1>9, <1>10, <1>12, <1>13 DEF a

\* The texts of segments that are appended.
LEMMA TextsOf ==
  ASSUME NEW a \in Seq(Segment), NEW b \in Seq(Segment)
  PROVE  /\ Texts(a) \in Seq(Seq(Word)) /\ a \o b \in Seq(Segment)
         /\ Texts(a \o b) = Texts(a) \o Texts(b)
         /\ (\A i \in 1..Len(a) : Unbridged(a[i].words)) /\ (\A i \in 1..Len(b) : Unbridged(b[i].words)) =>
              \A i \in 1..Len(a \o b) : Unbridged((a \o b)[i].words)
<1> DEFINE r  == a \o b
           ta == Texts(a)
           tb == Texts(b)
           tr == Texts(r)
<1>1. IsJoin(r, a, b, Segment)
  BY Join
<1>2. Len(a) \in Nat /\ Len(b) \in Nat
  OBVIOUS
<1> HIDE DEF r
<1>3. /\ r \in Seq(Segment) /\ Len(r) = Len(a) + Len(b)
      /\ (\A i \in 1..Len(a) : r[i] = a[i]) /\ (\A i \in 1..Len(b) : r[Len(a) + i] = b[i])
  BY <1>1 DEF IsJoin
<1>4. /\ ta \in Seq(Seq(Word)) /\ Len(ta) = Len(a) /\ \A i \in 1..Len(a) : ta[i] = a[i].words
      /\ tb \in Seq(Seq(Word)) /\ Len(tb) = Len(b) /\ \A i \in 1..Len(b) : tb[i] = b[i].words
      /\ tr \in Seq(Seq(Word)) /\ Len(tr) = Len(r) /\ \A i \in 1..Len(r) : tr[i] = r[i].words
  <2>1. \A s \in Seq(Segment) : /\ Texts(s) \in Seq(Seq(Word)) /\ Len(Texts(s)) = Len(s)
                                /\ \A i \in 1..Len(s) : Texts(s)[i] = s[i].words
    <3> SUFFICES ASSUME NEW s \in Seq(Segment)
                 PROVE  /\ Texts(s) \in Seq(Seq(Word)) /\ Len(Texts(s)) = Len(s)
                        /\ \A i \in 1..Len(s) : Texts(s)[i] = s[i].words
      OBVIOUS
    <3>0. \A i \in 1..Len(s) : s[i] \in Segment
      OBVIOUS
    <3>1. \A i \in 1..Len(s) : s[i].words \in Seq(Word)
      BY <3>0 DEF Segment
    <3> QED BY <3>1 DEF Texts
  <2> QED BY <1>3, <2>1
<1> HIDE DEF ta, tb, tr
<1>0. Len(r) = Len(a) + Len(b)
  BY <1>3
<1>5. ASSUME NEW i \in 1..Len(r)
      PROVE  \/ i \in 1..Len(a) /\ r[i] = a[i]
             \/ i - Len(a) \in 1..Len(b) /\ r[i] = b[i - Len(a)]
  <2>1. CASE i <= Len(a)
    <3>1. i \in 1..Len(a)
      BY <1>2, <2>1
    <3> QED BY <1>3, <3>1
  <2>2. CASE ~(i <= Len(a))
    <3>1. i - Len(a) \in 1..Len(b) /\ Len(a) + (i - Len(a)) = i
      BY <1>0, <1>2, <2>2
    <3> QED BY <1>3, <3>1
  <2> QED BY <2>1, <2>2
<1>6. tr = ta \o tb
  <2> DEFINE j == ta \o tb
  <2>1. IsJoin(j, ta, tb, Seq(Word))
    BY <1>4, Join
  <2> HIDE DEF j
  <2>2. /\ j \in Seq(Seq(Word)) /\ Len(j) = Len(a) + Len(b)
        /\ (\A i \in 1..Len(a) : j[i] = ta[i]) /\ (\A i \in 1..Len(b) : j[Len(a) + i] = tb[i])
    BY <1>4, <2>1 DEF IsJoin
  <2>3. ASSUME NEW i \in 1..Len(r) PROVE tr[i] = j[i]
    <3>1. CASE i <= Len(a)
      <4>1. i \in 1..Len(a)
        BY <1>2, <3>1
      <4>2. r[i] = a[i] /\ j[i] = ta[i]
        BY <1>3, <2>2, <4>1
      <4> QED BY <1>4, <4>1, <4>2
    <3>2. CASE ~(i <= Len(a))
      <4>1. i - Len(a) \in 1..Len(b) /\ Len(a) + (i - Len(a)) = i
        BY <1>0, <1>2, <3>2
      <4>2. r[i] = b[i - Len(a)] /\ j[i] = tb[i - Len(a)]
        BY <1>3, <2>2, <4>1
      <4> QED BY <1>4, <4>1, <4>2
    <3> QED BY <3>1, <3>2
  <2>4. tr = j
    <3>1. tr = [i \in 1..Len(tr) |-> tr[i]] /\ j = [i \in 1..Len(j) |-> j[i]]
      BY <1>4, <2>2
    <3>2. Len(tr) = Len(j) /\ \A i \in 1..Len(tr) : tr[i] = j[i]
      BY <1>3, <1>4, <2>2, <2>3
    <3> QED BY <1>4, <2>2, <3>2, SeqEqual
  <2> QED BY <2>4 DEF j
<1>7. ASSUME \A i \in 1..Len(a) : Unbridged(a[i].words), \A i \in 1..Len(b) : Unbridged(b[i].words),
             NEW i \in 1..Len(r)
      PROVE  Unbridged(r[i].words)
  BY <1>5, <1>7
<1> QED BY <1>3, <1>4, <1>6, <1>7 DEF r, ta, tb, tr


\* A step keeps what is told in order and adds what was said.
Goes(r, n) ==
  /\ Consecutive(Texts(segments \o r.out) \o <<r.t.utterance>>)
  /\ Consecutive(Texts(segments) \o <<r.t.utterance>>)
  /\ \A w \in WordsOf(Texts(segments \o r.out)) \cup ToSet(r.t.utterance) :
       w \in ToSet(script) /\ w.end <= r.t.committed
  /\ WordsOf(Texts(segments \o r.out) \o <<r.t.utterance>>) =
       WordsOf(Texts(segments) \o <<t.utterance>>) \cup Said(t.committed, r.t.committed)
  /\ Clear(r.t.committed) /\ Fit(r.t)

\* The results of a step go on with what was told.
LEMMA StepGoes ==
  ASSUME Sane, Sound, NEW n \in Nat, NEW r, Stepped(r, Read(n)), Faithful(r, Read(n), CaughtUp(n))
  PROVE  Goes(r, n)
<1> DEFINE x   == Read(n)
           S   == Texts(segments)
           out == Texts(r.out)
           u   == r.t.utterance
           new == Said(t.committed, r.t.committed)
           ss  == out \o <<u>>
<1>1. x.committed = t.committed /\ x.utterance = t.utterance
  BY ReadGood
<1>2. /\ r.t \in Transcriber /\ out \in Seq(Seq(Word)) /\ r.out \in Seq(Segment)
      /\ t.committed <= r.t.committed
  BY <1>1 DEF Stepped
<1>3. /\ t \in Transcriber /\ segments \in Seq(Segment) /\ t.committed \in Nat /\ checkpoint \in Nat
      /\ checkpoint <= t.committed /\ t.utterance \in Seq(Word)
  BY DEF Sane, Transcriber
<1>4. u \in Seq(Word) /\ r.t.committed \in Nat
  BY <1>2 DEF Transcriber
<1>5. /\ S \in Seq(Seq(Word)) /\ Texts(segments \o r.out) = S \o out
  BY <1>2, <1>3, TextsOf
<1>6. /\ Fit(r.t) /\ WordsOf(ss) = ToSet(t.utterance) \cup new
      /\ InOrder(t.utterance) /\ Earlier(ToSet(t.utterance), new) => Consecutive(ss)
  BY <1>1 DEF Faithful
<1>7. /\ Fit(t) /\ Consecutive(S \o <<t.utterance>>)
      /\ \A w \in WordsOf(S) : w \in ToSet(script) /\ w.end <= checkpoint
      /\ \A w \in ToSet(t.utterance) : w \in ToSet(script) /\ w.end <= t.committed
  BY DEF Sound
<1>8. \A w \in ToSet(script) : w.start \in Nat /\ w.end \in Nat /\ w.end >= w.start + 2
  BY ScriptGood DEF Sane, Word
<1> HIDE DEF x, S, out, u, new, ss
<1>9. ASSUME NEW w \in new PROVE w \in ToSet(script) /\ t.committed <= w.start /\ w.end <= r.t.committed
  <2>1. w \in ToSet(script) /\ t.committed < w.end /\ w.end <= r.t.committed
    BY DEF new, Said
  <2>2. w.end <= t.committed \/ t.committed <= w.start
    BY <1>7, <2>1 DEF Fit, Clear
  <2> QED BY <1>3, <1>8, <2>1, <2>2
<1>10. /\ Consecutive(S) /\ InOrder(t.utterance) /\ Earlier(WordsOf(S), ToSet(t.utterance))
       /\ WordsOf(S \o <<t.utterance>>) = WordsOf(S) \cup ToSet(t.utterance)
  <2> DEFINE z == <<t.utterance>>
  <2>1. z \in Seq(Seq(Word)) /\ WordsOf(z) = ToSet(t.utterance) /\ (Consecutive(z) <=> InOrder(t.utterance))
    BY <1>3, OneRun
  <2>2. Consecutive(S \o z)
    BY <1>7
  <2> HIDE DEF z
  <2>3. /\ WordsOf(S \o z) = WordsOf(S) \cup WordsOf(z)
        /\ Consecutive(S) /\ Consecutive(z) /\ Earlier(WordsOf(S), WordsOf(z))
    BY <1>5, <2>1, <2>2, Runs
  <2> QED BY <2>1, <2>3 DEF z
<1>11. Earlier(ToSet(t.utterance), new) /\ Earlier(WordsOf(S), new)
  <2>1. ASSUME NEW v \in ToSet(t.utterance), NEW w \in new PROVE v.end <= w.start
    BY <1>3, <1>7, <1>8, <1>9
  <2>2. ASSUME NEW v \in WordsOf(S), NEW w \in new PROVE v.end <= w.start
    BY <1>3, <1>7, <1>8, <1>9
  <2> QED BY <2>1, <2>2 DEF Earlier
<1>12. Consecutive(ss)
  BY <1>6, <1>10, <1>11
<1>13. /\ <<u>> \in Seq(Seq(Word)) /\ WordsOf(<<u>>) = ToSet(u) /\ (Consecutive(<<u>>) <=> InOrder(u))
  BY <1>4, OneRun
<1> DEFINE z == <<u>>
<1>14. z \in Seq(Seq(Word)) /\ ss = out \o z
  BY <1>13 DEF ss
<1>15. WordsOf(z) = ToSet(u) /\ (Consecutive(z) <=> InOrder(u))
  BY <1>13
<1> HIDE DEF z
<1>16. ss \in Seq(Seq(Word)) /\ WordsOf(ss) = WordsOf(out) \cup WordsOf(z) /\ Consecutive(z)
  BY <1>2, <1>12, <1>14, Runs
<1>17. Earlier(WordsOf(S), WordsOf(ss)) /\ Earlier(WordsOf(S), WordsOf(z))
  <2>1. Earlier(WordsOf(S), WordsOf(ss))
    BY <1>6, <1>10, <1>11 DEF Earlier
  <2> QED BY <1>16, <2>1 DEF Earlier
<1>18. Consecutive(S \o ss) /\ Consecutive(S \o z) /\ WordsOf(S \o ss) = WordsOf(S) \cup WordsOf(ss)
  BY <1>5, <1>10, <1>12, <1>14, <1>16, <1>17, Runs
<1>19. S \o ss = (S \o out) \o z
  <2>1. (S \o out) \o z = S \o (out \o z)
    BY <1>2, <1>5, <1>14, RunsAssociate
  <2> QED BY <1>14, <2>1
<1>20. WordsOf(S \o out) = WordsOf(S) \cup WordsOf(out)
  BY <1>2, <1>5, Runs
<1>21. ASSUME NEW w \in WordsOf(S \o out) \cup ToSet(u) PROVE w \in ToSet(script) /\ w.end <= r.t.committed
  <2>1. w \in WordsOf(S) \/ w \in ToSet(t.utterance) \/ w \in new
    BY <1>6, <1>15, <1>16, <1>20
  <2> QED BY <1>2, <1>3, <1>4, <1>7, <1>8, <1>9, <2>1
<1>22. Clear(r.t.committed)
  BY <1>6 DEF Fit
<1> QED BY <1>5, <1>6, <1>10, <1>18, <1>19, <1>21, <1>22 DEF Goes, z, S, out, u, new


\* The results of a tick.
LEMMA ResultGood ==
  ASSUME Sane, NEW n \in Nat, NEW r \in Results(n)
  PROVE  /\ Stepped(r, Read(n))
         /\ Sound /\ Due(n) /\ Forced(r) = {} =>
              Goes(r, n) /\ (CaughtUp(n) => r.t.utterance = <<>> /\ \A w \in ToSet(script) : w.end <= r.t.committed)
<1> DEFINE x     == Read(n)
           final == CaughtUp(n)
<1>1. PICK h \in Hypotheses(x.from, x.to) : r = Step(x, h, final)
  BY DEF Results
<1>2. script \in Scripts
  BY DEF Sane
<1>3. /\ x \in Transcriber /\ x.from <= x.to /\ x.committed <= x.to
      /\ final \in BOOLEAN /\ (final => x.to = Total)
      /\ Fit(t) => Fit(x) /\ (Due(n) => Sharp(x))
  BY ReadGood
<1> HIDE DEF x, final
<1>4. Stepped(r, x) /\ (Fit(x) /\ Sharp(x) /\ Forced(r) = {} => Faithful(r, x, final))
  BY <1>1, <1>2, <1>3, StepGood
<1>5. ASSUME Sound, Due(n), Forced(r) = {}
      PROVE  Goes(r, n) /\ (final => r.t.utterance = <<>> /\ \A w \in ToSet(script) : w.end <= r.t.committed)
  <2>1. Faithful(r, x, final)
    BY <1>3, <1>4, <1>5 DEF Sound
  <2>2. Goes(r, n)
    BY <1>4, <1>5, <2>1, StepGoes DEF x, final
  <2> QED BY <2>1, <2>2 DEF Faithful
<1> QED BY <1>4, <1>5 DEF x, final

\* What a tick leaves sane.
LEMMA TickSane ==
  ASSUME Sane, NEW n \in Nat, NEW r, Stepped(r, Read(n)), t' = r.t, durable' = Arrived(n),
         script' = script, closed' = closed,
         segments' = segments \/ segments' = segments \o r.out,
         checkpoint' = checkpoint \/ checkpoint' = r.t.committed,
         liveDone' \in BOOLEAN, faults' \subseteq {"forced", "asr", "write", "crash"}
  PROVE  Sane'
<1>1. /\ script \in Scripts /\ segments \in Seq(Segment) /\ closed \in BOOLEAN
      /\ checkpoint \in Nat /\ checkpoint <= t.committed /\ t.committed \in Nat
      /\ \A i \in 1..Len(segments) : Unbridged(segments[i].words)
  BY DEF Sane, Transcriber
<1>2. /\ Read(n).committed = t.committed /\ Read(n).to <= Arrived(n) /\ Arrived(n) <= Total /\ Arrived(n) \in Nat
      /\ closed => Arrived(n) = Total
  BY ReadGood
<1>3. /\ r.t \in Transcriber /\ r.out \in Seq(Segment) /\ r.t.to = Read(n).to /\ r.t.fresh = 0
      /\ r.t.from <= r.t.to /\ t.committed <= r.t.committed /\ r.t.committed <= r.t.to
      /\ \A i \in 1..Len(r.out) : Unbridged(r.out[i].words)
  BY <1>2 DEF Stepped
<1>4. r.t.committed \in Nat /\ r.t.to \in Nat
  BY <1>3 DEF Transcriber
<1>5. segments' \in Seq(Segment) /\ \A i \in 1..Len(segments') : Unbridged(segments'[i].words)
  BY <1>1, <1>3, TextsOf
<1>6. Total' = Total
  BY DEF Total
<1>7. checkpoint' \in Nat /\ checkpoint' <= r.t.committed
  BY <1>1, <1>3, <1>4
<1>8. /\ t' \in Transcriber /\ t'.from <= t'.to /\ t'.to <= durable' /\ durable' <= Total' /\ durable' \in Nat
      /\ t'.committed <= t'.to /\ checkpoint' <= t'.committed /\ t'.fresh <= t'.to
      /\ closed' => durable' = Total'
  BY <1>2, <1>3, <1>4, <1>6, <1>7
<1>9. \A i \in (1..Len(segments))' : Unbridged(segments[i].words)'
  BY <1>5 DEF Unbridged, Gap
<1> QED BY <1>1, <1>5, <1>7, <1>8, <1>9 DEF Sane

\* A tick that stores its results keeps the invariant.
LEMMA TickKeeps ==
  ASSUME IInv, NEW n \in Nat, TickStep(n)
  PROVE  IInv'
<1>1. Sane /\ ("forced" \notin faults => Sound) /\ (faults \subseteq {"asr"} => Complete)
  BY DEF IInv
<1>2. PICK r \in Results(n) : /\ t' = r.t
                              /\ Write(r, n) \/ (Silent(r, n) /\ UNCHANGED stored)
                              /\ Note(Forced(r))
  BY DEF TickStep
<1>3. Due(n) /\ ~liveDone /\ durable' = Arrived(n) /\ script' = script /\ closed' = closed
  BY DEF TickStep, Ticks
<1>4. Stepped(r, Read(n)) /\ segments \in Seq(Segment) /\ r.out \in Seq(Segment)
  BY <1>1, ResultGood DEF Stepped, Sane
<1>5. /\ segments' = segments \o r.out
      /\ checkpoint' = r.t.committed \/ (checkpoint' = checkpoint /\ r.out = <<>>)
      /\ liveDone' = CaughtUp(n)
  <2>1. CASE Write(r, n)
    BY <2>1 DEF Write
  <2>2. CASE Silent(r, n) /\ UNCHANGED stored
    <3>1. r.out = <<>> /\ ~CaughtUp(n) /\ segments' = segments /\ checkpoint' = checkpoint /\ liveDone' = liveDone
      BY <2>2 DEF Silent, stored
    <3>2. segments \o <<>> = segments
      BY <1>4
    <3>3. CaughtUp(n) \in BOOLEAN /\ liveDone \in BOOLEAN
      BY <1>1, ReadGood DEF Sane
    <3> QED BY <1>3, <3>1, <3>2, <3>3
  <2> QED BY <1>2, <2>1, <2>2
<1>6. faults' = faults \cup Forced(r) /\ Forced(r) \subseteq {"forced"}
  BY <1>2 DEF Note, Forced
<1>7. Sane'
  <2>1. CaughtUp(n) \in BOOLEAN
    BY <1>1, ReadGood
  <2>2. faults' \subseteq {"forced", "asr", "write", "crash"}
    BY <1>1, <1>6 DEF Sane
  <2> QED BY <1>1, <1>2, <1>3, <1>4, <1>5, <2>1, <2>2, TickSane
<1>8. ASSUME "forced" \notin faults'
      PROVE  /\ Sound /\ Goes(r, n)
             /\ CaughtUp(n) => r.t.utterance = <<>> /\ \A w \in ToSet(script) : w.end <= r.t.committed
  <2>1. Forced(r) = {} /\ "forced" \notin faults
    BY <1>6, <1>8
  <2> QED BY <1>1, <1>3, <2>1, ResultGood
<1> DEFINE s == segments \o r.out
           S == Texts(s)
           u == r.t.utterance
<1>9. segments' = s /\ t'.utterance = u /\ t'.committed = r.t.committed /\ r.t.committed \in Nat
  BY <1>2, <1>4, <1>5 DEF Stepped, Transcriber
<1>10. Texts(segments)' = S
  BY <1>9 DEF Texts
<1>11. ASSUME "forced" \notin faults' PROVE Sound'
  <2>1. /\ Consecutive(S \o <<u>>) /\ Fit(r.t) /\ Clear(r.t.committed)
        /\ \A w \in WordsOf(S) \cup ToSet(u) : w \in ToSet(script) /\ w.end <= r.t.committed
    BY <1>8, <1>11 DEF Goes
  <2>2. Fit(t)' /\ Clear(checkpoint)'
    <3>1. Fit(t)'
      BY <1>2, <1>3, <2>1 DEF Fit, Clear
    <3>2. Clear(checkpoint)
      BY <1>8, <1>11 DEF Sound
    <3>3. Clear(checkpoint)'
      BY <1>3, <1>5, <2>1, <3>2 DEF Clear
    <3> QED BY <3>1, <3>3
  <2>3. \A w \in WordsOf(S) : w \in ToSet(script) /\ w.end <= checkpoint'
    <3>1. CASE checkpoint' = r.t.committed
      BY <2>1, <3>1
    <3>2. CASE checkpoint' = checkpoint /\ r.out = <<>>
      <4>1. s = segments
        BY <1>4, <3>2
      <4> HIDE DEF s
      <4> QED BY <1>8, <1>11, <3>2, <4>1 DEF Sound
    <3> QED BY <1>5, <3>1, <3>2
  <2>4. Consecutive(Texts(segments) \o <<t.utterance>>)'
    BY <1>9, <1>10, <2>1 DEF Consecutive, InOrder, Earlier
  <2>5. \A w \in WordsOf(Texts(segments))' : w \in ToSet(script)' /\ w.end <= checkpoint'
    <3>1. WordsOf(Texts(segments))' = WordsOf(S)
      BY <1>10 DEF WordsOf
    <3> QED BY <1>3, <2>3, <3>1
  <2>6. \A w \in ToSet(t.utterance)' : w \in ToSet(script)' /\ w.end <= t'.committed
    BY <1>3, <1>9, <2>1
  <2> HIDE DEF s, S, u
  <2> QED BY <2>2, <2>4, <2>5, <2>6 DEF Sound
<1>12. ASSUME faults' \subseteq {"asr"} PROVE Complete'
  <2>1. "forced" \notin faults' /\ faults \subseteq {"asr"}
    BY <1>6, <1>12
  <2>2. /\ WordsOf(S \o <<u>>) = WordsOf(Texts(segments) \o <<t.utterance>>) \cup Said(t.committed, r.t.committed)
        /\ \A w \in WordsOf(S) : w \in ToSet(script)
        /\ CaughtUp(n) => u = <<>> /\ \A w \in ToSet(script) : w.end <= r.t.committed
    BY <1>8, <2>1 DEF Goes
  <2>3. ASSUME NEW w \in ToSet(script), w.end <= r.t.committed PROVE w \in WordsOf(S \o <<u>>)
    <3>1. w.end \in Nat /\ t.committed \in Nat
      BY <1>1, ScriptGood DEF Sane, Word, Transcriber
    <3>2. w.end <= t.committed => w \in WordsOf(Texts(segments) \o <<t.utterance>>)
      BY <1>1, <2>1 DEF Complete
    <3>3. ~(w.end <= t.committed) => w \in Said(t.committed, r.t.committed)
      BY <2>3, <3>1 DEF Said
    <3> QED BY <2>2, <3>2, <3>3
  <2>4. CaughtUp(n) => WordsOf(S) = ToSet(script)
    <3>1. S \in Seq(Seq(Word))
      BY <1>4, TextsOf
    <3>2. WordsOf(S \o << <<>> >>) = WordsOf(S)
      <4> HIDE DEF S
      <4> QED BY <3>1, EmptyIsEarlier
    <3> HIDE DEF S, u
    <3> QED BY <2>2, <2>3, <3>2
  <2>5. WordsOf(Texts(segments) \o <<t.utterance>>)' = WordsOf(S \o <<u>>) /\ WordsOf(Texts(segments))' = WordsOf(S)
    BY <1>9, <1>10 DEF WordsOf
  <2> HIDE DEF s, S, u
  <2>6. \A w \in ToSet(script)' : w.end <= t'.committed => w \in WordsOf(Texts(segments) \o <<t.utterance>>)'
    BY <1>3, <1>9, <2>3, <2>5
  <2>7. liveDone' => WordsOf(Texts(segments))' = ToSet(script)'
    BY <1>3, <1>5, <2>4, <2>5
  <2> QED BY <2>6, <2>7 DEF Complete
<1> QED BY <1>7, <1>11, <1>12 DEF IInv


\* A lost transaction keeps it.
LEMMA WriteFailsKeeps ==
  ASSUME IInv, NEW n \in Nat, WriteFails(n)
  PROVE  IInv'
<1>1. Sane /\ ("forced" \notin faults => Sound)
  BY DEF IInv
<1>2. PICK r \in Results(n) : t' = r.t /\ Note({"write"} \cup Forced(r))
  BY DEF WriteFails
<1>3. /\ Due(n) /\ durable' = Arrived(n) /\ script' = script /\ closed' = closed
      /\ segments' = segments /\ checkpoint' = checkpoint /\ liveDone' = liveDone
  BY DEF WriteFails, Ticks, stored
<1>4. Stepped(r, Read(n)) /\ checkpoint <= t.committed /\ t.committed <= r.t.committed
  BY <1>1, ResultGood, ReadGood DEF Stepped, Sane
<1>5. faults' = faults \cup {"write"} \cup Forced(r) /\ Forced(r) \subseteq {"forced"}
  BY <1>2 DEF Note, Forced
<1>6. Sane'
  <2>1. liveDone' \in BOOLEAN /\ faults' \subseteq {"forced", "asr", "write", "crash"}
    BY <1>1, <1>3, <1>5 DEF Sane
  <2> QED BY <1>1, <1>2, <1>3, <1>4, <2>1, TickSane
<1>7. ASSUME "forced" \notin faults' PROVE Sound'
  <2>1. Forced(r) = {} /\ "forced" \notin faults
    BY <1>5, <1>7
  <2>2. Sound /\ Goes(r, n)
    BY <1>1, <1>3, <2>1, ResultGood
  <2>3. /\ Consecutive(Texts(segments) \o <<r.t.utterance>>) /\ Fit(r.t)
        /\ \A w \in ToSet(r.t.utterance) : w \in ToSet(script) /\ w.end <= r.t.committed
    BY <2>2 DEF Goes
  <2>4. Clear(checkpoint) /\ \A w \in WordsOf(Texts(segments)) : w \in ToSet(script) /\ w.end <= checkpoint
    BY <2>2 DEF Sound
  <2>5. Fit(t)' /\ Clear(checkpoint)'
    BY <1>2, <1>3, <2>3, <2>4 DEF Fit, Clear
  <2>6. Texts(segments)' = Texts(segments) /\ WordsOf(Texts(segments))' = WordsOf(Texts(segments))
    BY <1>3 DEF Texts, WordsOf
  <2>7. Consecutive(Texts(segments) \o <<t.utterance>>)'
    BY <1>2, <2>3, <2>6 DEF Consecutive, InOrder, Earlier
  <2>8. \A w \in WordsOf(Texts(segments))' : w \in ToSet(script)' /\ w.end <= checkpoint'
    BY <1>3, <2>4, <2>6
  <2>9. \A w \in ToSet(t.utterance)' : w \in ToSet(script)' /\ w.end <= t'.committed
    BY <1>2, <1>3, <2>3
  <2> QED BY <2>5, <2>7, <2>8, <2>9 DEF Sound
<1>8. ~(faults' \subseteq {"asr"})
  BY <1>5
<1> QED BY <1>6, <1>7, <1>8 DEF IInv

\* A tick without a result: the sound is in the window.
Waits(x, n) ==
  /\ x \in Transcriber
  /\ x.from = t.from /\ x.to = Read(n).to /\ x.committed = t.committed /\ x.prev = t.prev
  /\ x.utterance = t.utterance /\ x.fresh <= Read(n).fresh

\* More sound in the window keeps it.
LEMMA WaitKeeps ==
  ASSUME IInv, NEW n \in Nat, Waits(t', n), durable' = Arrived(n),
         script' = script, closed' = closed, segments' = segments, liveDone' = liveDone,
         checkpoint' \in {checkpoint, t.committed}, faults' = faults \/ faults' = faults \cup {"asr"}
  PROVE  IInv'
<1>1. Sane /\ ("forced" \notin faults => Sound) /\ (faults \subseteq {"asr"} => Complete)
  BY DEF IInv
<1>2. /\ t \in Transcriber /\ t.committed \in Nat /\ checkpoint \in Nat /\ checkpoint <= t.committed
      /\ t.from <= t.to /\ t.prev \in Seq(Word)
  BY <1>1 DEF Sane, Transcriber
<1>3. /\ Read(n) \in Transcriber
      /\ Read(n).from = t.from /\ Read(n).committed = t.committed /\ Read(n).prev = t.prev
      /\ Read(n).from <= Read(n).to /\ Read(n).committed <= Read(n).to /\ Read(n).fresh <= Read(n).to
      /\ Read(n).to <= Arrived(n) /\ Arrived(n) <= Total /\ Arrived(n) \in Nat
      /\ closed => Arrived(n) = Total
      /\ Fit(t) => Fit(Read(n))
  BY <1>1, ReadGood
<1>4. /\ t' \in Transcriber /\ t'.from = t.from /\ t'.to = Read(n).to /\ t'.committed = t.committed
      /\ t'.prev = t.prev /\ t'.utterance = t.utterance /\ t'.fresh <= Read(n).fresh
      /\ t'.fresh \in Nat /\ Read(n).fresh \in Nat /\ Read(n).to \in Nat
  BY <1>3 DEF Waits, Transcriber
<1>5. checkpoint' \in Nat /\ checkpoint' <= t'.committed /\ checkpoint <= checkpoint'
  BY <1>2, <1>4
<1>6. Total' = Total
  BY DEF Total
<1>7. Sane'
  <2>1. /\ t'.from <= t'.to /\ t'.to <= durable' /\ durable' <= Total' /\ t'.committed <= t'.to /\ t'.fresh <= t'.to
        /\ durable' \in Nat /\ closed' => durable' = Total'
    BY <1>3, <1>4, <1>6
  <2>2. \A i \in (1..Len(segments))' : Unbridged(segments[i].words)'
    BY <1>1 DEF Sane, Unbridged, Gap
  <2>3. faults' \subseteq {"forced", "asr", "write", "crash"}
    BY <1>1 DEF Sane
  <2> QED BY <1>1, <1>3, <1>4, <1>5, <1>6, <2>1, <2>2, <2>3 DEF Sane
<1>8. /\ Texts(segments)' = Texts(segments) /\ WordsOf(Texts(segments))' = WordsOf(Texts(segments))
      /\ WordsOf(Texts(segments) \o <<t.utterance>>)' = WordsOf(Texts(segments) \o <<t.utterance>>)
  BY <1>4 DEF Texts, WordsOf
<1>9. ASSUME "forced" \notin faults' PROVE Sound'
  <2>1. Sound
    BY <1>1, <1>9
  <2>2. Fit(t)'
    <3>1. ASSUME NEW v \in ToSet(t.prev) PROVE Whole(v) \/ v.form + t'.fresh <= t'.to
      <4>1. v \in Word
        BY <1>2 DEF ToSet
      <4>2. v.form \in Nat
        BY <4>1 DEF Word
      <4>3. Whole(v) \/ v.form + Read(n).fresh <= Read(n).to
        BY <1>3, <2>1 DEF Sound, Fit
      <4> QED BY <1>4, <4>2, <4>3
    <3>2. Clear(t'.from) /\ Clear(t'.committed) /\ \A w \in ToSet(script) : w.end <= t'.from => w.end <= t'.committed
      BY <1>4, <2>1 DEF Sound, Fit
    <3> QED BY <1>4, <3>1, <3>2 DEF Fit, Clear
  <2>3. Clear(checkpoint)'
    <3>1. Clear(checkpoint')
      BY <2>1 DEF Sound, Fit
    <3> QED BY <3>1 DEF Clear
  <2>4. Consecutive(Texts(segments) \o <<t.utterance>>)'
    BY <1>4, <1>8, <2>1 DEF Sound, Consecutive, InOrder, Earlier
  <2>5. \A w \in WordsOf(Texts(segments))' : w \in ToSet(script)' /\ w.end <= checkpoint'
    <3>1. ASSUME NEW w \in WordsOf(Texts(segments)) PROVE w \in ToSet(script) /\ w.end <= checkpoint'
      <4>1. w \in ToSet(script) /\ w.end <= checkpoint
        BY <2>1 DEF Sound
      <4>2. w.end \in Nat
        BY <1>1, <4>1, ScriptGood DEF Sane, Word
      <4> QED BY <1>2, <1>5, <4>1, <4>2
    <3> QED BY <1>8, <3>1
  <2>6. \A w \in ToSet(t.utterance)' : w \in ToSet(script)' /\ w.end <= t'.committed
    BY <1>4, <2>1 DEF Sound
  <2> QED BY <2>2, <2>3, <2>4, <2>5, <2>6 DEF Sound
<1>10. ASSUME faults' \subseteq {"asr"} PROVE Complete'
  <2>1. Complete
    BY <1>1, <1>10
  <2>2. \A w \in ToSet(script)' : w.end <= t'.committed => w \in WordsOf(Texts(segments) \o <<t.utterance>>)'
    BY <1>4, <1>8, <2>1 DEF Complete
  <2>3. liveDone' => WordsOf(Texts(segments))' = ToSet(script)'
    BY <1>8, <2>1 DEF Complete
  <2> QED BY <2>2, <2>3 DEF Complete
<1> QED BY <1>7, <1>9, <1>10 DEF IInv

\* A tick without a recognition keeps it.
LEMMA IdleKeeps ==
  ASSUME IInv, NEW n \in Nat, TickIdle(n)
  PROVE  IInv'
<1>1. Sane
  BY DEF IInv
<1>2. t' = Read(n) /\ Waits(Read(n), n)
  <2>1. Read(n).fresh \in Nat
    BY <1>1, ReadGood DEF Transcriber
  <2> QED BY <1>1, <2>1, ReadGood DEF TickIdle, Waits
<1>3. Waits(t', n)
  BY <1>2
<1>4. /\ durable' = Arrived(n) /\ script' = script /\ closed' = closed /\ segments' = segments
      /\ liveDone' = liveDone /\ checkpoint' \in {checkpoint, t.committed} /\ faults' = faults
  BY DEF TickIdle, Ticks
<1> QED BY <1>3, <1>4, WaitKeeps

\* A failure of the recogniser keeps it.
LEMMA AsrFailsKeeps ==
  ASSUME IInv, NEW n \in Nat, AsrFails(n)
  PROVE  IInv'
<1>1. Sane
  BY DEF IInv
<1> DEFINE y == [Read(n) EXCEPT !.fresh = 0]
<1>2. t' = y
  BY DEF AsrFails
<1>3. Waits(y, n)
  <2>1. /\ Read(n) \in Transcriber /\ Read(n).from = t.from /\ Read(n).committed = t.committed
        /\ Read(n).prev = t.prev /\ Read(n).utterance = t.utterance
    BY <1>1, ReadGood
  <2>2. Read(n).fresh \in Nat
    BY <2>1 DEF Transcriber
  <2>3. /\ y \in Transcriber /\ y.from = Read(n).from /\ y.to = Read(n).to /\ y.committed = Read(n).committed
        /\ y.prev = Read(n).prev /\ y.utterance = Read(n).utterance /\ y.fresh = 0
    BY <2>1 DEF Transcriber
  <2> HIDE DEF y
  <2> QED BY <2>1, <2>2, <2>3 DEF Waits
<1>4. Waits(t', n)
  BY <1>2, <1>3
<1>5. /\ durable' = Arrived(n) /\ script' = script /\ closed' = closed /\ segments' = segments
      /\ liveDone' = liveDone /\ checkpoint' \in {checkpoint, t.committed} /\ faults' = faults \cup {"asr"}
  BY DEF AsrFails, Ticks, Note, stored
<1> QED BY <1>4, <1>5, WaitKeeps


\* A restart at the checkpoint keeps it.
LEMMA RestartKeeps ==
  ASSUME IInv, Restart
  PROVE  IInv'
<1>1. Sane /\ ("forced" \notin faults => Sound)
  BY DEF IInv
<1>2. /\ t' = Opened(checkpoint) /\ faults' = faults \cup {"crash"} /\ script' = script /\ durable' = durable
      /\ closed' = closed /\ segments' = segments /\ checkpoint' = checkpoint /\ liveDone' = liveDone
  BY DEF Restart, Note, stored
<1>3. /\ t \in Transcriber /\ t.committed \in Nat /\ t.to \in Nat /\ checkpoint \in Nat /\ durable \in Nat
      /\ checkpoint <= t.committed /\ t.committed <= t.to /\ t.to <= durable
  BY <1>1 DEF Sane, Transcriber
<1>4. /\ t' \in Transcriber /\ t'.from = checkpoint /\ t'.to = checkpoint /\ t'.committed = checkpoint
      /\ t'.prev = <<>> /\ t'.utterance = <<>> /\ t'.fresh = 0
  BY <1>2, <1>3 DEF Opened, Transcriber
<1>5. Sane'
  <2>1. Total' = Total
    BY <1>2 DEF Total
  <2>2. t'.from <= t'.to /\ t'.to <= durable' /\ t'.committed <= t'.to /\ checkpoint' <= t'.committed /\ t'.fresh <= t'.to
    BY <1>2, <1>3, <1>4
  <2>3. \A i \in (1..Len(segments))' : Unbridged(segments[i].words)'
    BY <1>1, <1>2 DEF Sane, Unbridged, Gap
  <2>4. faults' \subseteq {"forced", "asr", "write", "crash"}
    BY <1>1, <1>2 DEF Sane
  <2> QED BY <1>1, <1>2, <1>4, <2>1, <2>2, <2>3, <2>4 DEF Sane
<1>6. ASSUME "forced" \notin faults' PROVE Sound'
  <2>1. Sound
    BY <1>1, <1>2, <1>6
  <2>2. Clear(checkpoint)
    BY <2>1 DEF Sound
  <2>3. ToSet(<<>>) = {}
    BY DEF ToSet
  <2>4. Fit(t)' /\ Clear(checkpoint)'
    BY <1>2, <1>4, <2>2, <2>3 DEF Fit, Clear
  <2>5. Consecutive(Texts(segments) \o << <<>> >>)
    <3> DEFINE S == Texts(segments)
               z == <<t.utterance>>
    <3>1. S \in Seq(Seq(Word))
      BY <1>1, TextsOf DEF Sane
    <3>2. z \in Seq(Seq(Word))
      BY <1>3 DEF Transcriber
    <3>3. Consecutive(S \o z)
      BY <2>1 DEF Sound
    <3> HIDE DEF S, z
    <3>4. Consecutive(S)
      BY <3>1, <3>2, <3>3, Runs
    <3> QED BY <3>1, <3>4, EmptyIsEarlier DEF S
  <2>6. Texts(segments)' = Texts(segments) /\ WordsOf(Texts(segments))' = WordsOf(Texts(segments))
    BY <1>2 DEF Texts, WordsOf
  <2>7. Consecutive(Texts(segments) \o <<t.utterance>>)'
    BY <1>4, <2>5, <2>6 DEF Consecutive, InOrder, Earlier
  <2>8. \A w \in WordsOf(Texts(segments))' : w \in ToSet(script)' /\ w.end <= checkpoint'
    BY <1>2, <2>1, <2>6 DEF Sound
  <2>9. \A w \in ToSet(t.utterance)' : w \in ToSet(script)' /\ w.end <= t'.committed
    BY <1>4, <2>3
  <2> QED BY <2>4, <2>7, <2>8, <2>9 DEF Sound
<1>7. ~(faults' \subseteq {"asr"})
  BY <1>2
<1> QED BY <1>5, <1>6, <1>7 DEF IInv

\* A step that changes nothing, or only closes the epoch.
LEMMA OthersKeep ==
  ASSUME IInv, CloseEpoch \/ UNCHANGED vars
  PROVE  IInv'
<1>1. Sane /\ ("forced" \notin faults => Sound) /\ (faults \subseteq {"asr"} => Complete)
  BY DEF IInv
<1>2. /\ script' = script /\ durable' = durable /\ t' = t /\ segments' = segments /\ checkpoint' = checkpoint
      /\ liveDone' = liveDone /\ faults' = faults
      /\ closed' = closed \/ (closed' = TRUE /\ durable = Total)
  BY DEF CloseEpoch, vars, stored
<1>3. Total' = Total
  BY <1>2 DEF Total
<1>4. closed' \in BOOLEAN /\ (closed' => durable = Total)
  <2>1. closed \in BOOLEAN /\ (closed => durable = Total)
    BY <1>1 DEF Sane
  <2>2. CASE closed' = closed
    BY <2>1, <2>2
  <2>3. CASE closed' = TRUE /\ durable = Total
    BY <2>3
  <2> QED BY <1>2, <2>2, <2>3
<1>5. Sane'
  <2>1. \A i \in (1..Len(segments))' : Unbridged(segments[i].words)'
    BY <1>1, <1>2 DEF Sane, Unbridged, Gap
  <2> QED BY <1>1, <1>2, <1>3, <1>4, <2>1 DEF Sane
<1>6. Texts(segments)' = Texts(segments) /\ WordsOf(Texts(segments))' = WordsOf(Texts(segments))
      /\ WordsOf(Texts(segments) \o <<t.utterance>>)' = WordsOf(Texts(segments) \o <<t.utterance>>)
  BY <1>2 DEF Texts, WordsOf
<1>7. Sound => Sound'
  <2> SUFFICES ASSUME Sound PROVE Sound'
    OBVIOUS
  <2>1. Fit(t)' /\ Clear(checkpoint)'
    BY <1>2 DEF Sound, Fit, Clear
  <2>2. Consecutive(Texts(segments) \o <<t.utterance>>)'
    <3>1. t'.utterance = t.utterance
      BY <1>2
    <3>2. Consecutive(Texts(segments) \o <<t.utterance>>)
      BY DEF Sound
    <3> QED BY <1>6, <3>1, <3>2 DEF Consecutive, InOrder, Earlier
  <2>3. /\ \A w \in WordsOf(Texts(segments))' : w \in ToSet(script)' /\ w.end <= checkpoint'
        /\ \A w \in ToSet(t.utterance)' : w \in ToSet(script)' /\ w.end <= t'.committed
    BY <1>2, <1>6 DEF Sound
  <2> QED BY <2>1, <2>2, <2>3 DEF Sound
<1>8. Complete => Complete'
  BY <1>2, <1>6 DEF Complete
<1> QED BY <1>1, <1>2, <1>5, <1>7, <1>8 DEF IInv

\* It holds initially.
LEMMA InitIsGood ==
  ASSUME Init
  PROVE  IInv
<1>1. /\ script \in Scripts /\ durable = 0 /\ closed = FALSE /\ t = Opened(0) /\ segments = <<>>
      /\ checkpoint = 0 /\ liveDone = FALSE /\ faults = {}
  BY DEF Init
<1>2. /\ t \in Transcriber /\ t.from = 0 /\ t.to = 0 /\ t.committed = 0 /\ t.prev = <<>> /\ t.utterance = <<>>
      /\ t.fresh = 0
  BY <1>1 DEF Opened, Transcriber
<1>3. Total \in Nat /\ \A w \in ToSet(script) : w.start \in Nat /\ w.end \in Nat /\ w.end >= w.start + 2
  BY <1>1, ScriptGood DEF Word
<1>4. Sane
  <2>1. segments \in Seq(Segment) /\ 1..Len(segments) = {}
    BY <1>1, EmptySeq
  <2>2. /\ t.from <= t.to /\ t.to <= durable /\ durable <= Total /\ t.committed <= t.to
        /\ checkpoint <= t.committed /\ t.fresh <= t.to /\ durable \in Nat /\ checkpoint \in Nat
    BY <1>1, <1>2, <1>3
  <2>3. closed \in BOOLEAN /\ liveDone \in BOOLEAN /\ (closed => durable = Total)
    BY <1>1
  <2>4. faults \subseteq {"forced", "asr", "write", "crash"}
    BY <1>1
  <2>5. \A i \in 1..Len(segments) : Unbridged(segments[i].words)
    BY <2>1
  <2> QED BY <1>1, <1>2, <2>1, <2>2, <2>3, <2>4, <2>5 DEF Sane
<1>5. Clear(0) /\ ToSet(<<>>) = {}
  BY <1>3 DEF Clear, ToSet
<1>6. Texts(segments) = <<>> /\ WordsOf(<<>>) = {} /\ Consecutive(<<>>)
  BY <1>1 DEF Texts, WordsOf, Consecutive
<1>7. Consecutive(<<>> \o << <<>> >>)
  <2>1. <<>> \in Seq(Seq(Word))
    BY EmptySeq
  <2> QED BY <1>6, <2>1, EmptyIsEarlier
<1>8. Fit(t)
  BY <1>2, <1>5 DEF Fit
<1>9. Sound
  BY <1>1, <1>2, <1>5, <1>6, <1>7, <1>8 DEF Sound
<1>10. Complete
  BY <1>1, <1>2, <1>3 DEF Complete
<1> QED BY <1>4, <1>9, <1>10 DEF IInv

\* Every step keeps it.
LEMMA NextKeeps ==
  ASSUME IInv, [Next]_vars
  PROVE  IInv'
<1>1. Chunks \cup {0} \subseteq Nat
  BY LiveAssumption
<1>2. ASSUME NEW n \in Chunks \cup {0}, TickStep(n) \/ TickIdle(n) \/ AsrFails(n) \/ WriteFails(n) PROVE IInv'
  BY <1>1, <1>2, TickKeeps, IdleKeeps, AsrFailsKeeps, WriteFailsKeeps
<1> QED BY <1>2, RestartKeeps, OthersKeep DEF Next

\* The inductive invariant: what is in the window, what is committed and what is
\* stored fit together in every state.
THEOREM Invariant == Spec => []IInv
<1>1. Init => IInv
  BY InitIsGood
<1>2. IInv /\ [Next]_vars => IInv'
  BY NextKeeps
<1> QED BY <1>1, <1>2, PTL DEF Spec

-----------------------------------------------------------------------------
(* What follows from it. *)

\* The variables have their types, whatever is said and whatever fails.
THEOREM TypeCorrect == Spec => []TypeOK
<1>1. IInv => TypeOK
  <2> SUFFICES ASSUME Sane PROVE TypeOK
    BY DEF IInv
  <2>1. /\ script \in Scripts /\ t \in Transcriber /\ durable \in Nat /\ checkpoint \in Nat
        /\ t.from <= t.to /\ t.to <= durable /\ durable <= Total /\ t.committed <= t.to
        /\ checkpoint <= t.committed /\ t.fresh <= t.to
    BY DEF Sane
  <2>2. t.from \in Nat /\ t.to \in Nat /\ t.committed \in Nat /\ t.fresh \in Nat
    BY <2>1 DEF Transcriber
  <2>3. Total \in Nat
    BY <2>1, ScriptGood
  <2>4. {durable, checkpoint, t.from, t.to, t.committed, t.fresh} \subseteq 0..Total
    BY <2>1, <2>2, <2>3
  <2> QED BY <2>4 DEF Sane, TypeOK
<1> QED BY <1>1, Invariant, PTL

\* No stored segment bridges a pause of PauseSplit, whatever fails.
THEOREM PausesSplit == Spec => []NoBridgedPause
<1>1. IInv => NoBridgedPause
  BY DEF IInv, Sane, NoBridgedPause
<1> QED BY <1>1, Invariant, PTL

\* Restarts and lost transactions repeat nothing and store nothing misheard.
THEOREM NothingIsToldTwice == Spec => []NothingTwice
<1>1. ASSUME IInv, "forced" \notin faults
      PROVE  Consecutive(Texts(segments)) /\ WordsOf(Texts(segments)) \subseteq ToSet(script)
  <2> DEFINE S == Texts(segments)
             z == <<t.utterance>>
  <2>1. Sane /\ Sound
    BY <1>1 DEF IInv
  <2>2. S \in Seq(Seq(Word))
    BY <2>1, TextsOf DEF Sane
  <2>3. z \in Seq(Seq(Word))
    BY <2>1 DEF Sane, Transcriber
  <2>4. Consecutive(S \o z) /\ WordsOf(S) \subseteq ToSet(script)
    BY <2>1 DEF Sound
  <2> HIDE DEF S, z
  <2>5. Consecutive(S)
    BY <2>2, <2>3, <2>4, Runs
  <2> QED BY <2>4, <2>5 DEF S
<1>2. IInv => NothingTwice
  BY <1>1 DEF NothingTwice
<1> QED BY <1>2, Invariant, PTL

\* Every word of every recording is committed once, in order and as it was said,
\* however the sound is cut into chunks and windows and whenever the recogniser
\* fails; when the epoch is done all of them are stored.
THEOREM EveryWordOnce == Spec => []OnceInOrder
<1>1. ASSUME IInv, faults \subseteq {"asr"}
      PROVE  /\ Consecutive(Texts(segments) \o <<t.utterance>>)
             /\ WordsOf(Texts(segments) \o <<t.utterance>>) = {w \in ToSet(script) : w.end <= t.committed}
             /\ liveDone => WordsOf(Texts(segments)) = ToSet(script)
  <2> DEFINE S == Texts(segments)
             z == <<t.utterance>>
  <2>1. Sane /\ Sound /\ Complete
    BY <1>1 DEF IInv
  <2>2. S \in Seq(Seq(Word))
    BY <2>1, TextsOf DEF Sane
  <2>3. z \in Seq(Seq(Word)) /\ WordsOf(z) = ToSet(t.utterance)
    BY <2>1, OneRun DEF Sane, Transcriber
  <2>4. /\ Consecutive(S \o z)
        /\ \A w \in WordsOf(S) : w \in ToSet(script) /\ w.end <= checkpoint
        /\ \A w \in WordsOf(z) : w \in ToSet(script) /\ w.end <= t.committed
    BY <2>1, <2>3 DEF Sound
  <2>5. \A w \in ToSet(script) : w.end <= t.committed => w \in WordsOf(S \o z)
    BY <2>1 DEF Complete
  <2> HIDE DEF S, z
  <2>6. WordsOf(S \o z) = WordsOf(S) \cup WordsOf(z)
    BY <2>2, <2>3, Runs
  <2>7. ASSUME NEW w \in WordsOf(S) PROVE w.end <= t.committed
    <3>1. w \in ToSet(script) /\ w.end <= checkpoint
      BY <2>4
    <3>2. w.end \in Nat /\ checkpoint \in Nat /\ t.committed \in Nat /\ checkpoint <= t.committed
      BY <2>1, <3>1, ScriptGood DEF Sane, Transcriber, Word
    <3> QED BY <3>1, <3>2
  <2>8. WordsOf(S \o z) = {w \in ToSet(script) : w.end <= t.committed}
    BY <2>4, <2>5, <2>6, <2>7
  <2> QED BY <2>1, <2>4, <2>8 DEF Complete, S, z
<1>2. IInv => OnceInOrder
  BY <1>1 DEF OnceInOrder
<1> QED BY <1>2, Invariant, PTL

=============================================================================
