---------------------------- MODULE IngestServerProofs ----------------------------
(***************************************************************************)
(* The inductive invariant of Ingest, and the proof that every step of the *)
(* server and every fault keeps it, for any number of connections, frames  *)
(* and crashes, any window of the tracker and any limit of the client's    *)
(* buffer.                                                                 *)
(*                                                                         *)
(* First, what accept() and report_lost() do to a tracker of which         *)
(* WellFormed and Truthful hold: the gaps that it declares lie in sound    *)
(* that the client dropped (D), it counts as received what it was given    *)
(* and nothing else, and its end agrees with its sequence numbers.         *)
(* _absorb and _expire_gaps are loops, recursive functions in the model.   *)
(* Induction over their rounds is done by hand: a set D that each round    *)
(* maps into itself contains the result (AbsorbRounds, ExpireRounds), from *)
(* the fact that a set of naturals has a least element.                    *)
(*                                                                         *)
(* Then the invariant. What the protocol promises (ReleasedIsSafe,         *)
(* NoFalseGap) relates the client's buffer to the server's disk and        *)
(* database, but the two talk through messages on their way, and each step *)
(* of the server's two loops works on what an earlier step has read. Inv   *)
(* says of each connection what its queues, its tracker and its loops may  *)
(* hold, so that an ACK, a report or a frame is right whenever it is taken.*)
(***************************************************************************)
EXTENDS Ingest, FiniteSetTheorems, WellFoundedInduction, TLAPS

\* A set of naturals that is not empty has a least element.
LEMMA LeastNatural ==
  ASSUME NEW S \in SUBSET Nat, S # {}
  PROVE  \E m \in S : \A x \in S : m <= x
<1>1. IsWellFoundedOn(OpToRel(<, Nat), Nat)
  BY NatLessThanWellFounded
<1>2. PICK m \in S : \A y \in S : ~ (<<y, m>> \in OpToRel(<, Nat))
  BY <1>1, WFMin
<1>3. \A y \in S : ~(y < m)
  BY <1>2 DEF OpToRel
<1> QED
  BY <1>3

\* The rounds of a loop: f[n] is what n rounds of Step make of x.
Iterates(f, D, x, Step) ==
  f \in [Nat -> D] /\ f[0] = x /\ \A n \in Nat : f[n + 1] = Step[f[n]]

\* A step that stays in D can be repeated for ever.
LEMMA Iteration ==
  ASSUME NEW D, NEW x \in D, NEW Step \in [D -> D]
  PROVE  \E f : Iterates(f, D, x, Step)
<1> DEFINE Approx(n) == {g \in [0..n -> D] : g[0] = x /\ \A i \in 1..n : g[i] = Step[g[i - 1]]}
<1>1. \A n \in Nat : Approx(n) # {}
  <2> DEFINE Bad == {n \in Nat : Approx(n) = {}}
  <2> SUFFICES ASSUME Bad # {} PROVE FALSE
    OBVIOUS
  <2>1. PICK m \in Bad : \A n \in Bad : m <= n
    BY LeastNatural
  <2>2. m # 0
    <3>1. [i \in 0..0 |-> x] \in Approx(0)
      OBVIOUS
    <3> QED BY <3>1, <2>1
  <2>3. PICK g \in Approx(m - 1) : TRUE
    <3>1. m - 1 \in Nat /\ ~(m <= m - 1)
      BY <2>1, <2>2
    <3>2. m - 1 \notin Bad
      BY <2>1, <3>1
    <3> QED BY <3>1, <3>2
  <2> DEFINE h == [i \in 0..m |-> IF i = m THEN Step[g[m - 1]] ELSE g[i]]
  <2>4. h \in [0..m -> D]
    BY <2>2, <2>3
  <2>5. h[0] = x
    BY <2>2, <2>3
  <2>6. \A i \in 1..m : h[i] = Step[h[i - 1]]
    BY <2>2, <2>3
  <2> QED
    BY <2>1, <2>4, <2>5, <2>6
<1>2. \A m, n \in Nat : m <= n => \A g \in Approx(m), h \in Approx(n) : g[m] = h[m]
  <2> SUFFICES ASSUME NEW m \in Nat, NEW n \in Nat, m <= n, NEW g \in Approx(m), NEW h \in Approx(n)
               PROVE  g[m] = h[m]
    OBVIOUS
  <2> DEFINE Bad == {i \in 0..m : g[i] # h[i]}
  <2>1. Bad = {}
    <3> SUFFICES ASSUME Bad # {} PROVE FALSE
      OBVIOUS
    <3>0. Bad \in SUBSET Nat
      OBVIOUS
    <3>1. PICK i \in Bad : \A j \in Bad : i <= j
      <4> HIDE DEF Bad
      <4> QED BY <3>0, LeastNatural
    <3>2. i # 0
      BY <3>1
    <3>3. i - 1 \in 0..m /\ i - 1 \notin Bad
      BY <3>1, <3>2
    <3>4. g[i - 1] = h[i - 1] /\ i \in 1..m /\ i \in 1..n
      BY <3>2, <3>3
    <3> QED BY <3>1, <3>4
  <2> QED BY <2>1
<1> DEFINE F(n) == CHOOSE g \in Approx(n) : TRUE
           f == [n \in Nat |-> F(n)[n]]
<1>3. \A n \in Nat : F(n) \in Approx(n)
  BY <1>1
<1> HIDE DEF F
<1>4. f \in [Nat -> D]
  BY <1>3
<1>5. f[0] = x
  BY <1>3
<1>6. ASSUME NEW n \in Nat PROVE f[n + 1] = Step[f[n]]
  <2>1. F(n + 1)[n + 1] = Step[F(n + 1)[n]]
    BY <1>3
  <2>2. F(n)[n] = F(n + 1)[n]
    <3>1. n + 1 \in Nat /\ n <= n + 1
      OBVIOUS
    <3>2. F(n) \in Approx(n) /\ F(n + 1) \in Approx(n + 1)
      BY <1>3, <3>1
    <3> HIDE DEF Approx
    <3> QED BY <1>2, <3>1, <3>2
  <2> QED BY <2>1, <2>2
<1> QED BY <1>4, <1>5, <1>6 DEF Iterates

\* What a round keeps holds after every round.
LEMMA Rounds ==
  ASSUME NEW D, NEW r, r[1] \in D, \A n \in Nat : r[n] \in D => r[n + 1] \in D
  PROVE  \A n \in Nat : n # 0 => r[n] \in D
<1> DEFINE Bad == {n \in Nat : n # 0 /\ r[n] \notin D}
<1> SUFFICES ASSUME Bad # {} PROVE FALSE
  OBVIOUS
<1>1. Bad \in SUBSET Nat
  OBVIOUS
<1>2. PICK m \in Bad : \A n \in Bad : m <= n
  <2> HIDE DEF Bad
  <2> QED BY <1>1, LeastNatural
<1>3. m \in Nat /\ m # 0 /\ r[m] \notin D
  BY <1>2
<1>4. m - 1 \in Nat /\ (m - 1) + 1 = m /\ ~(m <= m - 1)
  BY <1>3
<1>5. CASE m = 1
  BY <1>3, <1>5
<1>6. CASE m # 1
  <2>1. m - 1 # 0 /\ m - 1 \notin Bad
    BY <1>2, <1>4, <1>6
  <2>2. r[m - 1] \in D
    BY <2>1, <1>4
  <2> QED BY <2>2, <1>3, <1>4
<1> QED BY <1>5, <1>6

-----------------------------------------------------------------------------
(* The tracker. *)

\* What the first round and every later one of _absorb keeps, _absorb keeps.
LEMMA AbsorbRounds ==
  ASSUME NEW D, NEW t, AbsorbNext(t) \in D, \A d \in D : AbsorbNext(d) \in D,
         IsFiniteSet(Pending(t)), Pending(t) # {}
  PROVE  Absorb(t) \in D
<1> DEFINE E == D \cup {t}
           Step == [d \in E |-> AbsorbNext(d)]
           Unrolls(f) == f = [n \in Nat |-> IF n = 0 THEN t ELSE AbsorbNext(f[n - 1])]
           round == CHOOSE f : Unrolls(f)
<1>1. PICK f : Iterates(f, E, t, Step)
  <2>1. t \in E /\ Step \in [E -> E]
    OBVIOUS
  <2> HIDE DEF E, Step
  <2> QED BY <2>1, Iteration
<1>2. \A n \in Nat : f[n] = IF n = 0 THEN t ELSE AbsorbNext(f[n - 1])
  <2> TAKE n \in Nat
  <2>1. CASE n = 0
    BY <2>1, <1>1 DEF Iterates
  <2>2. CASE n # 0
    <3>1. n - 1 \in Nat /\ (n - 1) + 1 = n
      BY <2>2
    <3>2. f[n] = Step[f[n - 1]] /\ f[n - 1] \in E
      BY <1>1, <3>1 DEF Iterates
    <3> QED BY <3>2, <2>2
  <2> QED BY <2>1, <2>2
<1>3. Unrolls(f)
  <2>1. f = [n \in Nat |-> f[n]]
    BY <1>1 DEF Iterates
  <2> QED BY <1>2, <2>1
<1>4. Unrolls(round)
  BY <1>3
<1>5. Absorb(t) = round[Cardinality(Pending(t))]
  BY DEF Absorb
<1>6. \A n \in Nat : round[n] = IF n = 0 THEN t ELSE AbsorbNext(round[n - 1])
  BY <1>4
<1> HIDE DEF round
<1>7. round[1] \in D
  BY <1>6
<1>8. \A n \in Nat : round[n] \in D => round[n + 1] \in D
  BY <1>6
<1>9. \A n \in Nat : n # 0 => round[n] \in D
  BY <1>7, <1>8, Rounds
<1>10. Cardinality(Pending(t)) \in Nat /\ Cardinality(Pending(t)) # 0
  BY FS_CardinalityType, FS_EmptySet
<1> QED BY <1>5, <1>9, <1>10

\* With nothing pending there is nothing to absorb.
LEMMA AbsorbNothing ==
  ASSUME NEW t, Pending(t) = {}
  PROVE  Absorb(t) = t
<1> DEFINE Unrolls(f) == f = [n \in Nat |-> IF n = 0 THEN t ELSE AbsorbNext(f[n - 1])]
           round == CHOOSE f : Unrolls(f)
<1>1. AbsorbNext(t) = t
  BY DEF AbsorbNext
<1>2. Unrolls([n \in Nat |-> t])
  BY <1>1
<1>3. Unrolls(round)
  BY <1>2
<1>4. round[0] = t
  BY <1>3
<1>5. Cardinality(Pending(t)) = 0
  BY FS_EmptySet
<1> HIDE DEF round
<1> QED BY <1>4, <1>5 DEF Absorb, round

\* One round of _expire_gaps.
ExpireRound(r, late) == IF MustExpire(r.t, late) THEN ExpireFirst(r) ELSE r

\* The rounds of _expire_gaps, when D is a set that they stay in.
LEMMA ExpireUnrolls ==
  ASSUME NEW D, NEW t, NEW late, [t |-> t, gaps |-> <<>>] \in D,
         \A r \in D : MustExpire(r.t, late) => ExpireFirst(r) \in D
  PROVE  \E round :
           /\ Expire(t, late) = round[Cardinality(Pending(t))]
           /\ \A n \in Nat : round[n] = IF n = 0 THEN [t |-> t, gaps |-> <<>>] ELSE ExpireRound(round[n - 1], late)
<1> DEFINE x == [t |-> t, gaps |-> <<>>]
           Step == [d \in D |-> ExpireRound(d, late)]
           Unrolls(f) == f = [n \in Nat |-> IF n = 0 THEN x
                                ELSE IF MustExpire(f[n - 1].t, late) THEN ExpireFirst(f[n - 1])
                                ELSE f[n - 1]]
           round == CHOOSE f : Unrolls(f)
<1>1. PICK f : Iterates(f, D, x, Step)
  <2>1. x \in D /\ Step \in [D -> D]
    BY DEF ExpireRound
  <2> HIDE DEF x, Step
  <2> QED BY <2>1, Iteration
<1> HIDE DEF x
<1>2. \A n \in Nat : f[n] = IF n = 0 THEN x
                            ELSE IF MustExpire(f[n - 1].t, late) THEN ExpireFirst(f[n - 1])
                            ELSE f[n - 1]
  <2> TAKE n \in Nat
  <2>1. CASE n = 0
    BY <2>1, <1>1 DEF Iterates
  <2>2. CASE n # 0
    <3>1. n - 1 \in Nat /\ (n - 1) + 1 = n
      BY <2>2
    <3>2. f[n] = Step[f[n - 1]] /\ f[n - 1] \in D
      BY <1>1, <3>1 DEF Iterates
    <3> QED BY <3>2, <2>2 DEF ExpireRound
  <2> QED BY <2>1, <2>2
<1>3. Unrolls(f)
  <2>1. f = [n \in Nat |-> f[n]]
    BY <1>1 DEF Iterates
  <2> QED BY <1>2, <2>1
<1>4. Unrolls(round)
  BY <1>3
<1>5. Expire(t, late) = round[Cardinality(Pending(t))]
  BY DEF Expire, x
<1>6. \A n \in Nat : round[n] = IF n = 0 THEN x ELSE ExpireRound(round[n - 1], late)
  BY <1>4 DEF ExpireRound
<1> HIDE DEF round
<1> QED BY <1>5, <1>6 DEF x

\* What a round of _expire_gaps keeps, _expire_gaps keeps.
LEMMA ExpireRounds ==
  ASSUME NEW D, NEW t, NEW late, [t |-> t, gaps |-> <<>>] \in D,
         \A r \in D : MustExpire(r.t, late) => ExpireFirst(r) \in D,
         IsFiniteSet(Pending(t))
  PROVE  Expire(t, late) \in D
<1>1. PICK round :
        /\ Expire(t, late) = round[Cardinality(Pending(t))]
        /\ \A n \in Nat : round[n] = IF n = 0 THEN [t |-> t, gaps |-> <<>>] ELSE ExpireRound(round[n - 1], late)
  BY ExpireUnrolls
<1>2. round[0] \in D
  BY <1>1
<1>3. \A n \in Nat : round[n] \in D => round[n + 1] \in D
  BY <1>1 DEF ExpireRound
<1>4. \A n \in Nat : n # 0 => round[n] \in D
  BY <1>2, <1>3, Rounds
<1>5. Cardinality(Pending(t)) \in Nat
  BY FS_CardinalityType
<1> QED BY <1>1, <1>2, <1>4, <1>5

\* With nothing pending no gap expires.
LEMMA ExpireNothing ==
  ASSUME NEW t, NEW late, Pending(t) = {}
  PROVE  Expire(t, late) = [t |-> t, gaps |-> <<>>]
<1> DEFINE D == {[t |-> t, gaps |-> <<>>]}
<1>1. \A r \in D : ~MustExpire(r.t, late)
  BY DEF MustExpire
<1>2. [t |-> t, gaps |-> <<>>] \in D /\ IsFiniteSet(Pending(t))
  BY FS_EmptySet
<1>3. Expire(t, late) \in D
  <2> HIDE DEF D
  <2> QED BY <1>1, <1>2, ExpireRounds
<1> QED BY <1>3

-----------------------------------------------------------------------------
(* What a tracker says about the sound, when D is the sound the client dropped. *)

Items     == [start : Nat, end : Nat, last : Nat]
\* The gaps a tracker decides on.
Decisions == [from : Int, to : Int, start : 0..MaxFrames, end : 0..MaxFrames]
Pends     == UNION {[S -> Items] : S \in SUBSET Nat}
Trackers  == [seq : Nat \cup {-1}, end : Nat, pend : Pends, ranges : SUBSET Decisions]

\* The positions up to the watermark or up to the end of a pending item.
Upto(t) == {p \in Nat : p <= t.seq \/ \E m \in Pending(t) : p <= t.pend[m].last}

\* Items lie apart from each other and beyond the watermark.
WellFormed(t) ==
  /\ t \in Trackers
  /\ Upto(t) \subseteq 0..(MaxFrames - 1)
  /\ t.end <= t.seq + 1
  /\ \A n \in Pending(t) :
       /\ t.seq < n /\ t.pend[n].start <= n /\ n <= t.pend[n].last
       /\ t.pend[n].end <= t.pend[n].last + 1
  /\ \A m, n \in Pending(t) : m < n => t.pend[m].last < n

\* What is behind the watermark without having passed, what an item says is lost,
\* and what is missing before an item, was dropped.
Truthful(t, D) ==
  /\ \A p \in t.end..t.seq : p \in D
  /\ \A n \in Pending(t) : \A p \in (t.pend[n].end)..(t.pend[n].last) : p \in D
  /\ \A n \in Pending(t) : \A p \in (t.seq + 1)..(n - 1) :
       p \in D \/ \E m \in Pending(t) : m <= p /\ p <= t.pend[m].last

\* The end in samples agrees with the sequence numbers.
Exact(t) ==
  /\ t.end = t.seq + 1
  /\ \A n \in Pending(t) : t.pend[n].end = t.pend[n].last + 1

\* It does as soon as the next item is absorbed.
AlmostExact(t) ==
  /\ t.end = t.seq + 1 \/ t.seq + 1 \in Pending(t)
  /\ \A n \in Pending(t) : t.pend[n].end = t.pend[n].last + 1

\* The maximum and the minimum of two numbers, and of a set.
LEMMA MaxOfTwo ==
  ASSUME NEW a \in Int, NEW b \in Int
  PROVE  Max({a, b}) = IF a >= b THEN a ELSE b
<1> DEFINE m == IF a >= b THEN a ELSE b
<1>1. m \in {a, b} /\ \A y \in {a, b} : m >= y
  OBVIOUS
<1>2. \A x \in {a, b} : (\A y \in {a, b} : x >= y) => x = m
  OBVIOUS
<1> QED BY <1>1, <1>2 DEF Max

LEMMA MinOfTwo ==
  ASSUME NEW a \in Int, NEW b \in Int
  PROVE  Min({a, b}) = IF a <= b THEN a ELSE b
<1> DEFINE m == IF a <= b THEN a ELSE b
<1>1. m \in {a, b} /\ \A y \in {a, b} : m <= y
  OBVIOUS
<1>2. \A x \in {a, b} : (\A y \in {a, b} : x <= y) => x = m
  OBVIOUS
<1> QED BY <1>1, <1>2 DEF Min

LEMMA FirstPending ==
  ASSUME NEW S \in SUBSET Nat, S # {}
  PROVE  Min(S) \in S /\ \A y \in S : Min(S) <= y
BY LeastNatural DEF Min

\* The parts of a tracker.
LEMMA TrackerTypes ==
  ASSUME NEW t \in Trackers
  PROVE  /\ t.seq \in Int /\ t.seq >= -1 /\ t.end \in Nat /\ t # NoTracker
         /\ Pending(t) \in SUBSET Nat
         /\ \A n \in Pending(t) : t.pend[n] \in Items /\ t.pend[n].start \in Nat /\ t.pend[n].end \in Nat /\ t.pend[n].last \in Nat
         /\ t.pend \in [Pending(t) -> Items]
<1>1. t.seq \in Nat \cup {-1} /\ t.end \in Nat /\ t.pend \in Pends
  BY DEF Trackers
<1>2. PICK S \in SUBSET Nat : t.pend \in [S -> Items]
  BY <1>1 DEF Pends
<1>3. Pending(t) = S
  BY <1>2 DEF Pending
<1>4. \A n \in S : t.pend[n] \in Items
  BY <1>2
<1>5. \A i \in Items : i.start \in Nat /\ i.end \in Nat /\ i.last \in Nat
  BY DEF Items
<1>6. t # NoTracker
  <2>1. NoTracker.seq = -2
    BY DEF NoTracker
  <2> QED BY <2>1, <1>1
<1>7. t.seq \in Int /\ t.seq >= -1 /\ t.end \in Nat
  BY <1>1
<1>8. Pending(t) \in SUBSET Nat /\ t.pend \in [Pending(t) -> Items]
  BY <1>2, <1>3
<1>9. \A n \in Pending(t) : t.pend[n] \in Items
  BY <1>3, <1>4
<1> QED BY <1>5, <1>6, <1>7, <1>8, <1>9

\* Only finitely many items are pending.
LEMMA FinitelyPending ==
  ASSUME NEW t, WellFormed(t)
  PROVE  IsFiniteSet(Pending(t))
<1>1. \A n \in Pending(t) : n \in Upto(t)
  BY TrackerTypes DEF WellFormed, Upto
<1>2. Pending(t) \subseteq 0..(MaxFrames - 1)
  BY <1>1 DEF WellFormed
<1>3. IsFiniteSet(0..(MaxFrames - 1))
  BY FS_Interval, UploaderAssumption
<1> QED BY <1>2, <1>3, FS_Subset

\* A round of _absorb moves the watermark over the item that follows it.
LEMMA AbsorbNextKeeps ==
  ASSUME NEW t, NEW D, WellFormed(t), Truthful(t, D)
  PROVE  LET u == AbsorbNext(t)
         IN  /\ WellFormed(u) /\ Truthful(u, D) /\ Upto(u) = Upto(t)
             /\ u.seq >= t.seq
             /\ AlmostExact(t) => Exact(u)
<1> DEFINE u == AbsorbNext(t)
           nxt == t.seq + 1
<1>0. /\ t.seq \in Int /\ t.seq >= -1 /\ t.end \in Nat
      /\ Pending(t) \in SUBSET Nat
      /\ \A n \in Pending(t) : t.pend[n] \in Items /\ t.pend[n].start \in Nat /\ t.pend[n].end \in Nat /\ t.pend[n].last \in Nat
      /\ t.pend \in [Pending(t) -> Items]
      /\ t \in Trackers
  BY TrackerTypes DEF WellFormed
<1>1. CASE nxt \notin Pending(t)
  <2>1. u = t
    BY <1>1 DEF AbsorbNext
  <2> QED BY <2>1, <1>0, <1>1 DEF AlmostExact, Exact, WellFormed, Truthful
<1>2. CASE nxt \in Pending(t)
  <2> DEFINE i == t.pend[nxt]
  <2>1. Max({t.end, i.end}) = IF t.end >= i.end THEN t.end ELSE i.end
    BY <1>0, <1>2, MaxOfTwo
  <2>2. /\ u.seq = i.last /\ u.end = (IF t.end >= i.end THEN t.end ELSE i.end)
        /\ u.pend = [x \in Pending(t) \ {nxt} |-> t.pend[x]]
        /\ u.ranges = t.ranges
        /\ u \in Trackers
    <3>1. u = [t EXCEPT !.seq = i.last, !.end = Max({t.end, i.end}), !.pend = Restrict(t.pend, Pending(t) \ {nxt})]
      BY <1>2 DEF AbsorbNext, Pending
    <3>2. Restrict(t.pend, Pending(t) \ {nxt}) = [x \in Pending(t) \ {nxt} |-> t.pend[x]]
      BY DEF Restrict
    <3> DEFINE rest == [x \in Pending(t) \ {nxt} |-> t.pend[x]]
    <3>3. rest \in Pends
      <4>1. rest \in [Pending(t) \ {nxt} -> Items] /\ Pending(t) \ {nxt} \in SUBSET Nat
        BY <1>0
      <4> QED BY <4>1 DEF Pends
    <3>4. i.last \in Nat /\ i.end \in Nat
      BY <1>0, <1>2
    <3> HIDE DEF u, i, rest
    <3> QED BY <1>0, <2>1, <3>1, <3>2, <3>3, <3>4 DEF Trackers, rest
  <2>3. /\ Pending(u) = Pending(t) \ {nxt}
        /\ \A n \in Pending(u) : u.pend[n] = t.pend[n]
    BY <2>2 DEF Pending
  <2>4. /\ nxt <= i.last /\ i.end <= i.last + 1 /\ i.last \in Nat /\ i.end \in Nat
        /\ t.end <= t.seq + 1
    BY <1>0, <1>2 DEF WellFormed
  <2> HIDE DEF u, i
  <2>5. Upto(u) = Upto(t)
    <3>1. ASSUME NEW p \in Nat PROVE p \in Upto(u) <=> p \in Upto(t)
      <4>1. p <= t.seq => p <= u.seq
        BY <1>0, <2>2, <2>4
      <4>2. (\E m \in Pending(t) : p <= t.pend[m].last) => (p <= u.seq \/ \E m \in Pending(u) : p <= u.pend[m].last)
        BY <2>2, <2>3 DEF i
      <4>3. p <= u.seq => \E m \in Pending(t) : p <= t.pend[m].last
        BY <2>2, <1>2 DEF i
      <4>4. (\E m \in Pending(u) : p <= u.pend[m].last) => \E m \in Pending(t) : p <= t.pend[m].last
        BY <2>3
      <4> QED BY <4>1, <4>2, <4>3, <4>4 DEF Upto
    <3> QED BY <3>1 DEF Upto
  <2>6. WellFormed(u)
    <3>1. \A n \in Pending(u) : i.last < n
      BY <1>0, <1>2, <2>3 DEF WellFormed, i
    <3>2. u.end <= u.seq + 1
      BY <1>0, <2>2, <2>4
    <3> QED BY <2>2, <2>3, <2>5, <3>1, <3>2 DEF WellFormed
  <2>7. Truthful(u, D)
    <3>1. \A p \in u.end..u.seq : p \in D
      <4> SUFFICES ASSUME NEW p \in u.end..u.seq PROVE p \in D
        OBVIOUS
      <4>1. CASE p <= t.seq
        <5>1. p \in t.end..t.seq
          BY <4>1, <2>2, <2>4, <1>0
        <5> QED BY <5>1 DEF Truthful
      <4>2. CASE p > t.seq
        <5>1. p \in i.end..i.last
          BY <4>2, <2>2, <2>4, <1>0
        <5> QED BY <5>1, <1>2 DEF Truthful, i
      <4> QED BY <4>1, <4>2, <1>0, <2>2, <2>4
    <3>2. \A n \in Pending(u) : \A p \in (u.pend[n].end)..(u.pend[n].last) : p \in D
      BY <2>3 DEF Truthful
    <3>3. ASSUME NEW n \in Pending(u), NEW p \in (u.seq + 1)..(n - 1)
          PROVE  p \in D \/ \E m \in Pending(u) : m <= p /\ p <= u.pend[m].last
      <4>1. n \in Nat /\ p \in Int /\ i.last < p /\ p \in (t.seq + 1)..(n - 1)
        BY <1>0, <2>2, <2>3, <2>4
      <4>2. p \in D \/ \E m \in Pending(t) : m <= p /\ p <= t.pend[m].last
        BY <4>1, <2>3 DEF Truthful
      <4>3. ~(p <= t.pend[nxt].last)
        BY <4>1, <2>4 DEF i
      <4> QED BY <4>2, <4>3, <2>3
    <3> QED BY <3>1, <3>2, <3>3 DEF Truthful
  <2>8. AlmostExact(t) => Exact(u)
    <3> SUFFICES ASSUME AlmostExact(t) PROVE Exact(u)
      OBVIOUS
    <3>1. i.end = i.last + 1
      BY <1>2 DEF AlmostExact, i
    <3>2. u.end = u.seq + 1
      BY <3>1, <2>2, <2>4, <1>0
    <3> QED BY <3>2, <2>3 DEF AlmostExact, Exact
  <2>9. u.seq >= t.seq
    BY <2>2, <2>4, <1>0
  <2> QED BY <2>5, <2>6, <2>7, <2>8, <2>9 DEF u
<1> QED BY <1>1, <1>2

\* _absorb counts the same frames as received, and puts a lagging end right.
LEMMA AbsorbKeeps ==
  ASSUME NEW t, NEW D, WellFormed(t), Truthful(t, D)
  PROVE  LET u == Absorb(t)
         IN  /\ WellFormed(u) /\ Truthful(u, D) /\ Upto(u) = Upto(t)
             /\ u.seq >= t.seq
             /\ AlmostExact(t) => Exact(u)
<1> DEFINE Good(x) == /\ WellFormed(x) /\ Truthful(x, D) /\ Upto(x) = Upto(t)
                      /\ x.seq >= t.seq /\ (AlmostExact(t) => Exact(x))
           S == {x \in Trackers : Good(x)}
<1>1. t.seq \in Int
  BY TrackerTypes DEF WellFormed
<1>2. CASE Pending(t) = {}
  <2>1. Absorb(t) = t
    BY <1>2, AbsorbNothing
  <2>2. AlmostExact(t) => Exact(t)
    BY <1>2 DEF AlmostExact, Exact
  <2> QED BY <2>1, <2>2, <1>1
<1>3. CASE Pending(t) # {}
  <2>1. AbsorbNext(t) \in S
    <3>1. Good(AbsorbNext(t))
      BY AbsorbNextKeeps
    <3>2. AbsorbNext(t) \in Trackers
      BY <3>1 DEF WellFormed
    <3> HIDE DEF Good
    <3> QED BY <3>1, <3>2
  <2>2. ASSUME NEW x \in S PROVE AbsorbNext(x) \in S
    <3>1. Good(x)
      OBVIOUS
    <3>2. Exact(x) => AlmostExact(x)
      BY DEF Exact, AlmostExact
    <3>3. x.seq \in Int
      BY <3>1, TrackerTypes DEF WellFormed
    <3> DEFINE y == AbsorbNext(x)
    <3>4. /\ WellFormed(y) /\ Truthful(y, D) /\ Upto(y) = Upto(x)
          /\ y.seq >= x.seq /\ (AlmostExact(x) => Exact(y))
      BY <3>1, AbsorbNextKeeps
    <3>5. y \in Trackers /\ y.seq \in Int
      BY <3>4, TrackerTypes DEF WellFormed
    <3> HIDE DEF y
    <3>6. y.seq >= t.seq
      BY <3>1, <3>3, <3>4, <3>5, <1>1
    <3>7. Good(y)
      BY <3>1, <3>2, <3>4, <3>6
    <3>8. y \in S
      BY <3>7, <3>5
    <3> QED BY <3>8 DEF y
  <2>3. IsFiniteSet(Pending(t))
    BY FinitelyPending
  <2>4. Absorb(t) \in S
    <3> HIDE DEF S
    <3> QED BY <2>1, <2>2, <2>3, <1>3, AbsorbRounds
  <2>5. Good(Absorb(t))
    <3> HIDE DEF Good
    <3> QED BY <2>4
  <2> QED BY <2>5
<1> QED BY <1>2, <1>3

\* Giving up on what precedes the first pending item.
GaveUp(t) ==
  LET first == Min(Pending(t))
      gap   == GapDecision(t.seq + 1, first - 1, t.end, t.pend[first].start)
      real  == gap.end > gap.start \/ gap.to >= gap.from
  IN  [t |-> [t EXCEPT !.seq = first - 1, !.ranges = IF real THEN @ \cup {gap} ELSE @],
       gap |-> gap, real |-> real]

\* Giving up the first hole declares a gap that the client dropped.
LEMMA GaveUpKeeps ==
  ASSUME NEW t, NEW D, WellFormed(t), Truthful(t, D), Pending(t) # {}
  PROVE  LET g == GaveUp(t)
         IN  /\ WellFormed(g.t) /\ Truthful(g.t, D) /\ Upto(g.t) = Upto(t)
             /\ g.t.seq >= t.seq
             /\ Exact(t) => AlmostExact(g.t)
             /\ g.gap \in Decisions
             /\ \A p \in (g.gap.start)..(g.gap.end - 1) : p \in D
<1> DEFINE first == Min(Pending(t))
           gap   == GapDecision(t.seq + 1, first - 1, t.end, t.pend[first].start)
           real  == gap.end > gap.start \/ gap.to >= gap.from
           u     == [t EXCEPT !.seq = first - 1, !.ranges = IF real THEN @ \cup {gap} ELSE @]
<1>0. /\ t.seq \in Int /\ t.seq >= -1 /\ t.end \in Nat
      /\ Pending(t) \in SUBSET Nat
      /\ \A n \in Pending(t) : t.pend[n] \in Items /\ t.pend[n].start \in Nat /\ t.pend[n].end \in Nat /\ t.pend[n].last \in Nat
      /\ t.pend \in [Pending(t) -> Items]
      /\ t \in Trackers
  BY TrackerTypes DEF WellFormed
<1>1. first \in Pending(t) /\ \A n \in Pending(t) : first <= n
  BY <1>0, FirstPending
<1> HIDE DEF first
<1>2. first \in Nat /\ t.seq < first /\ t.pend[first].start <= first /\ first <= t.pend[first].last
  BY <1>0, <1>1 DEF WellFormed
<1>3. \A p \in Upto(t) : p <= MaxFrames - 1
  BY UploaderAssumption DEF WellFormed
<1>4. first <= MaxFrames - 1
  BY <1>1, <1>2, <1>3 DEF Upto
<1>5. t.end <= first
  BY <1>0, <1>2 DEF WellFormed
<1>6. gap \in Decisions
  BY <1>0, <1>1, <1>2, <1>4, <1>5, UploaderAssumption DEF Decisions, GapDecision
<1>7. \A p \in (gap.start)..(gap.end - 1) : p \in D
  <2> SUFFICES ASSUME NEW p \in (t.end)..(t.pend[first].start - 1) PROVE p \in D
    BY DEF GapDecision
  <2>1. p \in Int /\ p < first /\ t.end <= p
    BY <1>0, <1>1, <1>2
  <2>2. CASE p <= t.seq
    <3>1. p \in t.end..t.seq
      BY <2>1, <2>2, <1>0
    <3> QED BY <3>1 DEF Truthful
  <2>3. CASE p > t.seq
    <3>1. p \in (t.seq + 1)..(first - 1)
      BY <2>1, <2>3, <1>0, <1>2
    <3>2. \A m \in Pending(t) : ~(m <= p)
      BY <1>0, <1>1, <2>1
    <3> QED BY <3>1, <3>2, <1>1 DEF Truthful
  <2> QED BY <2>1, <2>2, <2>3, <1>0
<1> HIDE DEF gap, real
<1>8. /\ u \in Trackers /\ u.seq = first - 1 /\ u.end = t.end /\ u.pend = t.pend /\ Pending(u) = Pending(t)
  <2> DEFINE declared == IF real THEN t.ranges \cup {gap} ELSE t.ranges
  <2>1. declared \in SUBSET Decisions
    BY <1>0, <1>6 DEF Trackers
  <2>2. u = [t EXCEPT !.seq = first - 1, !.ranges = declared]
    OBVIOUS
  <2> HIDE DEF declared, u
  <2>3. first - 1 \in Nat \cup {-1}
    BY <1>2
  <2>4. /\ t.seq \in Nat \cup {-1} /\ t.end \in Nat /\ t.pend \in Pends
        /\ t = [seq |-> t.seq, end |-> t.end, pend |-> t.pend, ranges |-> t.ranges]
    BY <1>0 DEF Trackers
  <2>5. u = [seq |-> first - 1, end |-> t.end, pend |-> t.pend, ranges |-> declared]
    BY <2>2, <2>4
  <2>6. u \in Trackers
    BY <2>1, <2>3, <2>4, <2>5 DEF Trackers
  <2> QED BY <2>5, <2>6 DEF Pending
<1> HIDE DEF u
<1>9. Upto(u) = Upto(t)
  <2>1. ASSUME NEW p \in Nat PROVE p \in Upto(u) <=> p \in Upto(t)
    <3>1. p <= first - 1 => p <= t.pend[first].last
      BY <1>0, <1>1, <1>2
    <3>2. p <= t.seq => p <= first - 1
      BY <1>0, <1>2
    <3> QED BY <3>1, <3>2, <1>1, <1>8 DEF Upto
  <2> QED BY <2>1 DEF Upto
<1>10. WellFormed(u)
  <2>1. \A n \in Pending(u) : u.seq < n
    BY <1>0, <1>1, <1>2, <1>8
  <2>2. u.end <= u.seq + 1
    BY <1>0, <1>2, <1>5, <1>8
  <2> QED BY <2>1, <2>2, <1>8, <1>9 DEF WellFormed
<1>11. Truthful(u, D)
  <2>1. \A p \in u.end..u.seq : p \in D
    <3> SUFFICES ASSUME NEW p \in t.end..(first - 1) PROVE p \in D
      BY <1>8
    <3>1. CASE p <= t.seq
      <4>1. p \in t.end..t.seq
        BY <3>1, <1>0, <1>2
      <4> QED BY <4>1 DEF Truthful
    <3>2. CASE p > t.seq
      <4>1. p \in (t.seq + 1)..(first - 1)
        BY <3>2, <1>0, <1>2
      <4>2. \A m \in Pending(t) : ~(m <= p)
        BY <1>0, <1>1, <1>2
      <4> QED BY <4>1, <4>2, <1>1 DEF Truthful
    <3> QED BY <3>1, <3>2, <1>0, <1>2
  <2>2. ASSUME NEW n \in Pending(u), NEW p \in (u.seq + 1)..(n - 1)
        PROVE  p \in D \/ \E m \in Pending(u) : m <= p /\ p <= u.pend[m].last
    <3>1. n \in Pending(t) /\ n \in Nat /\ p \in (t.seq + 1)..(n - 1)
      BY <1>0, <1>2, <1>8
    <3> QED BY <3>1, <1>8 DEF Truthful
  <2> QED BY <2>1, <2>2, <1>8 DEF Truthful
<1>12. Exact(t) => AlmostExact(u)
  <2>1. u.seq + 1 \in Pending(u)
    BY <1>1, <1>2, <1>8
  <2> QED BY <2>1, <1>8 DEF Exact, AlmostExact
<1>13. u.seq >= t.seq
  BY <1>0, <1>2, <1>8
<1>14. GaveUp(t).t = u /\ GaveUp(t).gap = gap
  BY DEF GaveUp, u, gap, real, first
<1> QED BY <1>6, <1>7, <1>9, <1>10, <1>11, <1>12, <1>13, <1>14

\* What a list of gaps covers.
LEMMA CoveredTypes ==
  ASSUME NEW todo, NEW p
  PROVE  p \in Covered(todo) <=> \E i \in 1..Len(todo) : p \in (todo[i].start)..(todo[i].end - 1)
BY DEF Covered

LEMMA CoveredAppend ==
  ASSUME NEW T, NEW todo \in Seq(T), NEW gap \in T
  PROVE  /\ Append(todo, gap) \in Seq(T)
         /\ Covered(Append(todo, gap)) = Covered(todo) \cup (gap.start)..(gap.end - 1)
<1> DEFINE more == Append(todo, gap)
<1>1. /\ more \in Seq(T) /\ Len(more) = Len(todo) + 1 /\ Len(todo) \in Nat
      /\ more[Len(todo) + 1] = gap
      /\ \A i \in 1..Len(todo) : more[i] = todo[i]
  OBVIOUS
<1> HIDE DEF more
<1>2. ASSUME NEW p PROVE p \in Covered(more) <=> p \in Covered(todo) \/ p \in (gap.start)..(gap.end - 1)
  <2>1. ASSUME p \in Covered(more) PROVE p \in Covered(todo) \/ p \in (gap.start)..(gap.end - 1)
    <3>1. PICK i \in 1..Len(more) : p \in (more[i].start)..(more[i].end - 1)
      BY <2>1, CoveredTypes
    <3>2. CASE i = Len(todo) + 1
      BY <3>1, <3>2, <1>1
    <3>3. CASE i # Len(todo) + 1
      <4>1. i \in 1..Len(todo) /\ more[i] = todo[i]
        BY <1>1, <3>3
      <4> QED BY <3>1, <4>1, CoveredTypes
    <3> QED BY <3>2, <3>3
  <2>2. ASSUME p \in Covered(todo) PROVE p \in Covered(more)
    <3>1. PICK i \in 1..Len(todo) : p \in (todo[i].start)..(todo[i].end - 1)
      BY <2>2, CoveredTypes
    <3>2. i \in 1..Len(more) /\ more[i] = todo[i]
      BY <1>1
    <3> QED BY <3>1, <3>2, CoveredTypes
  <2>3. ASSUME p \in (gap.start)..(gap.end - 1) PROVE p \in Covered(more)
    <3>1. Len(todo) + 1 \in 1..Len(more) /\ more[Len(todo) + 1] = gap
      BY <1>1
    <3> QED BY <2>3, <3>1, CoveredTypes
  <2> QED BY <2>1, <2>2, <2>3
<1> QED BY <1>1, <1>2 DEF more

LEMMA CoveredNothing == Covered(<<>>) = {}
BY DEF Covered

LEMMA CoveredTail ==
  ASSUME NEW T, NEW todo \in Seq(T), todo # <<>>
  PROVE  /\ Tail(todo) \in Seq(T) /\ Head(todo) \in T
         /\ Covered(todo) = Covered(Tail(todo)) \cup (Head(todo).start)..(Head(todo).end - 1)
<1> DEFINE rest == Tail(todo)
<1>1. /\ rest \in Seq(T) /\ Len(rest) = Len(todo) - 1 /\ Len(todo) \in Nat /\ Len(todo) >= 1
      /\ Head(todo) = todo[1] /\ todo[1] \in T
      /\ \A i \in 1..Len(rest) : rest[i] = todo[i + 1]
  OBVIOUS
<1> HIDE DEF rest
<1>2. ASSUME NEW p PROVE p \in Covered(todo) <=> p \in Covered(rest) \/ p \in (todo[1].start)..(todo[1].end - 1)
  <2>1. ASSUME p \in Covered(todo) PROVE p \in Covered(rest) \/ p \in (todo[1].start)..(todo[1].end - 1)
    <3>1. PICK i \in 1..Len(todo) : p \in (todo[i].start)..(todo[i].end - 1)
      BY <2>1, CoveredTypes
    <3>2. CASE i = 1
      BY <3>1, <3>2
    <3>3. CASE i # 1
      <4>1. i - 1 \in 1..Len(rest) /\ rest[i - 1] = todo[i]
        BY <1>1, <3>3
      <4> QED BY <3>1, <4>1, CoveredTypes
    <3> QED BY <3>2, <3>3
  <2>2. ASSUME p \in Covered(rest) PROVE p \in Covered(todo)
    <3>1. PICK i \in 1..Len(rest) : p \in (rest[i].start)..(rest[i].end - 1)
      BY <2>2, CoveredTypes
    <3>2. i + 1 \in 1..Len(todo) /\ rest[i] = todo[i + 1]
      BY <1>1
    <3> QED BY <3>1, <3>2, CoveredTypes
  <2>3. ASSUME p \in (todo[1].start)..(todo[1].end - 1) PROVE p \in Covered(todo)
    <3>1. 1 \in 1..Len(todo)
      BY <1>1
    <3> QED BY <2>3, <3>1, CoveredTypes
  <2> QED BY <2>1, <2>2, <2>3
<1> QED BY <1>1, <1>2 DEF rest

\* A round of _expire_gaps gives up the first hole and absorbs.
LEMMA ExpireFirstIs ==
  ASSUME NEW r
  PROVE  LET g == GaveUp(r.t)
         IN  /\ ExpireFirst(r).t = Absorb(g.t)
             /\ ExpireFirst(r).gaps = IF g.real THEN Append(r.gaps, g.gap) ELSE r.gaps
             /\ ExpireFirst(r) = [t |-> ExpireFirst(r).t, gaps |-> ExpireFirst(r).gaps]
BY DEF ExpireFirst, GaveUp

\* _expire_gaps declares no gap in sound that was not dropped, however late a frame is.
LEMMA ExpireKeeps ==
  ASSUME NEW t, NEW late, NEW D, WellFormed(t), Truthful(t, D)
  PROVE  LET r == Expire(t, late)
         IN  /\ WellFormed(r.t) /\ Truthful(r.t, D) /\ Upto(r.t) = Upto(t)
             /\ r.t.seq >= t.seq
             /\ Exact(t) => Exact(r.t)
             /\ r \in [t : Trackers, gaps : Seq(Decisions)] /\ Covered(r.gaps) \subseteq D
<1> DEFINE Good(r) == /\ WellFormed(r.t) /\ Truthful(r.t, D) /\ Upto(r.t) = Upto(t)
                      /\ r.t.seq >= t.seq /\ (Exact(t) => Exact(r.t))
                      /\ Covered(r.gaps) \subseteq D
           S == {r \in [t : Trackers, gaps : Seq(Decisions)] : Good(r)}
<1>1. t.seq \in Int /\ t \in Trackers
  BY TrackerTypes DEF WellFormed
<1>2. [t |-> t, gaps |-> <<>>] \in S
  <2>1. Good([t |-> t, gaps |-> <<>>])
    BY <1>1, CoveredNothing
  <2> HIDE DEF Good
  <2> QED BY <1>1, <2>1
<1>3. ASSUME NEW r \in S, MustExpire(r.t, late) PROVE ExpireFirst(r) \in S
  <2> DEFINE g == GaveUp(r.t)
             u == Absorb(g.t)
             decided == IF g.real THEN Append(r.gaps, g.gap) ELSE r.gaps
  <2>1. Pending(r.t) # {}
    BY <1>3 DEF MustExpire
  <2>2. /\ Good(r) /\ r.gaps \in Seq(Decisions) /\ r.t.seq \in Int
    BY TrackerTypes DEF WellFormed
  <2>3. /\ WellFormed(g.t) /\ Truthful(g.t, D) /\ Upto(g.t) = Upto(r.t)
        /\ g.t.seq >= r.t.seq /\ (Exact(r.t) => AlmostExact(g.t))
        /\ g.gap \in Decisions /\ \A p \in (g.gap.start)..(g.gap.end - 1) : p \in D
    BY <2>1, <2>2, GaveUpKeeps
  <2>4. ExpireFirst(r) = [t |-> u, gaps |-> decided]
    BY ExpireFirstIs
  <2> HIDE DEF g
  <2>5. /\ WellFormed(u) /\ Truthful(u, D) /\ Upto(u) = Upto(g.t)
        /\ u.seq >= g.t.seq /\ (AlmostExact(g.t) => Exact(u))
    BY <2>3, AbsorbKeeps
  <2>6. decided \in Seq(Decisions) /\ Covered(decided) \subseteq D
    BY <2>2, <2>3, CoveredAppend
  <2> HIDE DEF u, decided
  <2>7. u \in Trackers /\ u.seq \in Int /\ g.t.seq \in Int
    BY <2>3, <2>5, TrackerTypes DEF WellFormed
  <2>8. u.seq >= t.seq
    BY <1>1, <2>2, <2>3, <2>5, <2>7
  <2>9. Good([t |-> u, gaps |-> decided])
    BY <2>2, <2>3, <2>5, <2>6, <2>8
  <2> HIDE DEF Good
  <2> QED BY <2>4, <2>6, <2>7, <2>9
<1>4. IsFiniteSet(Pending(t))
  BY FinitelyPending
<1>5. Expire(t, late) \in S
  <2> HIDE DEF S
  <2> QED BY <1>2, <1>3, <1>4, ExpireRounds
<1>6. Good(Expire(t, late)) /\ Expire(t, late) \in [t : Trackers, gaps : Seq(Decisions)]
  <2> HIDE DEF Good
  <2> QED BY <1>5
<1> QED BY <1>6

\* A new item pends next to the others.
LEMMA PutPending ==
  ASSUME NEW t \in Trackers, NEW n, NEW start, NEW end, NEW last, NEW u, u = Put(t, n, start, end, last)
  PROVE  Pending(u) = Pending(t) \cup {n} /\ u.pend[n].last = last
BY DEF Put, Pending, Trackers

\* An item that comes behind what was received or dropped keeps the tracker truthful.
LEMMA PutKeeps ==
  ASSUME NEW t, NEW D, WellFormed(t), Truthful(t, D),
         NEW n \in Nat, NEW start \in Nat, NEW end \in Nat, NEW last \in Nat,
         n \notin Upto(t), start <= n, n <= last, end <= last + 1, last <= MaxFrames - 1,
         \A p \in end..last : p \in D,
         \A p \in 0..(n - 1) : p \in Upto(t) \/ p \in D,
         NEW u, u = Put(t, n, start, end, last)
  PROVE  /\ WellFormed(u) /\ Truthful(u, D) /\ Upto(u) = 0..last
         /\ u.seq = t.seq /\ u.end = t.end
         /\ Exact(t) /\ end = last + 1 => Exact(u)
         /\ n = t.seq + 1 /\ Pending(t) = {} /\ end = last + 1 => AlmostExact(u)
<1> DEFINE item == [start |-> start, end |-> end, last |-> last]
           S == Pending(t) \cup {n}
           more == [x \in S |-> IF x = n THEN item ELSE t.pend[x]]
<1>0. /\ t.seq \in Int /\ t.seq >= -1 /\ t.end \in Nat
      /\ Pending(t) \in SUBSET Nat
      /\ \A m \in Pending(t) : t.pend[m] \in Items /\ t.pend[m].start \in Nat /\ t.pend[m].end \in Nat /\ t.pend[m].last \in Nat
      /\ t.pend \in [Pending(t) -> Items]
      /\ t \in Trackers
  BY TrackerTypes DEF WellFormed
<1>2. u = [t EXCEPT !.pend = more]
  BY DEF Put, Pending
<1>3. item \in Items /\ item.start = start /\ item.end = end /\ item.last = last
  BY DEF Items
<1> HIDE DEF item
<1>4. more \in [S -> Items] /\ S \in SUBSET Nat
  BY <1>0, <1>3
<1>5. more \in Pends
  BY <1>4 DEF Pends
<1>6. more[n] = item /\ \A m \in Pending(t) : m # n => more[m] = t.pend[m]
  OBVIOUS
<1> HIDE DEF more
<1>7. /\ u \in Trackers /\ u.seq = t.seq /\ u.end = t.end /\ u.pend = more
  BY <1>0, <1>2, <1>5 DEF Trackers
<1>8. Pending(u) = S
  BY <1>4, <1>7 DEF Pending
<1>9. t.seq < n /\ \A m \in Pending(t) : t.pend[m].last < n /\ m < n
  BY <1>0 DEF Upto, WellFormed
<1>10. u.pend[n] = item /\ \A m \in Pending(t) : u.pend[m] = t.pend[m]
  BY <1>6, <1>7, <1>9, <1>0
<1>11. Upto(u) = 0..last
  <2>1. ASSUME NEW p \in Nat PROVE p \in Upto(u) <=> p <= last
    <3>1. p <= last => p \in Upto(u)
      BY <1>3, <1>8, <1>10 DEF Upto
    <3>2. p <= t.seq => p <= last
      BY <1>0, <1>9
    <3>3. \A m \in Pending(u) : p <= u.pend[m].last => p <= last
      BY <1>0, <1>3, <1>8, <1>9, <1>10
    <3> QED BY <3>1, <3>2, <3>3, <1>7 DEF Upto
  <2> QED BY <2>1 DEF Upto
<1>12. WellFormed(u)
  <2>1. Upto(u) \subseteq 0..(MaxFrames - 1)
    BY <1>11, UploaderAssumption
  <2>2. u.end <= u.seq + 1
    BY <1>7 DEF WellFormed
  <2>3. ASSUME NEW m \in Pending(u)
        PROVE  u.seq < m /\ u.pend[m].start <= m /\ m <= u.pend[m].last /\ u.pend[m].end <= u.pend[m].last + 1
    <3>1. CASE m = n
      BY <3>1, <1>3, <1>7, <1>9, <1>10
    <3>2. CASE m # n
      <4>1. m \in Pending(t)
        BY <3>2, <1>8
      <4> QED BY <4>1, <1>7, <1>10 DEF WellFormed
    <3> QED BY <3>1, <3>2
  <2>4. ASSUME NEW i \in Pending(u), NEW j \in Pending(u), i < j PROVE u.pend[i].last < j
    <3>0. i \in Nat /\ j \in Nat
      BY <1>4, <1>8
    <3>1. CASE i = n
      <4>1. j = n \/ j < n
        BY <1>8, <1>9
      <4> QED BY <4>1, <3>1, <3>0, <2>4
    <3>2. CASE i # n /\ j = n
      <4>1. i \in Pending(t)
        BY <3>2, <1>8
      <4> QED BY <4>1, <3>2, <1>9, <1>10
    <3>3. CASE i # n /\ j # n
      <4>1. i \in Pending(t) /\ j \in Pending(t)
        BY <3>3, <1>8
      <4> QED BY <4>1, <2>4, <1>10 DEF WellFormed
    <3> QED BY <3>1, <3>2, <3>3
  <2> QED BY <1>7, <2>1, <2>2, <2>3, <2>4 DEF WellFormed
<1>13. Truthful(u, D)
  <2>1. \A p \in u.end..u.seq : p \in D
    BY <1>7 DEF Truthful
  <2>2. ASSUME NEW m \in Pending(u), NEW p \in (u.pend[m].end)..(u.pend[m].last) PROVE p \in D
    <3>1. CASE m = n
      BY <3>1, <1>3, <1>10
    <3>2. CASE m # n
      <4>1. m \in Pending(t)
        BY <3>2, <1>8
      <4> QED BY <4>1, <1>10 DEF Truthful
    <3> QED BY <3>1, <3>2
  <2>3. ASSUME NEW m \in Pending(u), NEW p \in (u.seq + 1)..(m - 1)
        PROVE  p \in D \/ \E i \in Pending(u) : i <= p /\ p <= u.pend[i].last
    <3>0. m \in Nat /\ p \in Nat /\ p > t.seq /\ p < m
      BY <1>0, <1>4, <1>7, <1>8
    <3>1. \A i \in Pending(t) : p < i => p \in D \/ \E j \in Pending(t) : j <= p /\ p <= t.pend[j].last
      BY <1>0, <3>0 DEF Truthful
    <3>2. CASE m \in Pending(t)
      <4>1. p \in D \/ \E j \in Pending(t) : j <= p /\ p <= t.pend[j].last
        BY <3>0, <3>1, <3>2
      <4> QED BY <4>1, <1>8, <1>10
    <3>3. CASE m = n
      <4>1. p \in Upto(t) \/ p \in D
        BY <3>0, <3>3
      <4>2. CASE p \in Upto(t)
        <5>1. PICK i \in Pending(t) : p <= t.pend[i].last
          BY <4>2, <3>0, <1>0 DEF Upto
        <5>2. p \in D \/ \E j \in Pending(t) : j <= p /\ p <= t.pend[j].last
          BY <5>1, <3>0, <3>1, <1>0
        <5> QED BY <5>2, <1>8, <1>10
      <4> QED BY <4>1, <4>2
    <3> QED BY <3>2, <3>3, <1>8
  <2> QED BY <2>1, <2>2, <2>3 DEF Truthful
<1>14. Exact(t) /\ end = last + 1 => Exact(u)
  BY <1>3, <1>7, <1>8, <1>10 DEF Exact
<1>15. n = t.seq + 1 /\ Pending(t) = {} /\ end = last + 1 => AlmostExact(u)
  BY <1>3, <1>7, <1>8, <1>10 DEF AlmostExact
<1> QED BY <1>7, <1>8, <1>10, <1>11, <1>12, <1>13, <1>14, <1>15 DEF item

\* accept(): the frame counts as received, nothing else does, and every gap that it
\* declares was dropped by the client.
THEOREM AcceptKeeps ==
  ASSUME NEW t, NEW D, WellFormed(t), Truthful(t, D), NEW n \in 0..(MaxFrames - 1), NEW late,
         n \notin Upto(t), \A p \in 0..(n - 1) : p \in Upto(t) \/ p \in D
  PROVE  LET r == Accept(t, n, n, 1, late)
         IN  /\ WellFormed(r.t) /\ Truthful(r.t, D) /\ Upto(r.t) = 0..n
             /\ r.t.seq >= t.seq
             /\ Exact(t) \/ (Pending(t) = {} /\ n = t.seq + 1) => Exact(r.t)
             /\ r.gaps \in Seq(Decisions) /\ Covered(r.gaps) \subseteq D
<1> DEFINE u == Put(t, n, n, n + 1, n)
           v == Absorb(u)
           r == Expire(v, late)
<1>1. t.seq \in Int /\ Pending(t) \in SUBSET Nat /\ \A m \in Pending(t) : t.pend[m].last \in Nat
  BY TrackerTypes DEF WellFormed
<1>2. ~IsDuplicate(t, n)
  <2>1. ~(n <= t.seq)
    BY DEF Upto
  <2>2. n \notin Pending(t)
    BY <1>1 DEF Upto, WellFormed
  <2> QED BY <2>1, <2>2 DEF IsDuplicate
<1>3. Accept(t, n, n, 1, late) = r
  BY <1>2 DEF Accept
<1>4. /\ WellFormed(u) /\ Truthful(u, D) /\ Upto(u) = 0..n /\ u.seq = t.seq
      /\ Exact(t) => Exact(u)
      /\ n = t.seq + 1 /\ Pending(t) = {} => AlmostExact(u)
  <2>1. /\ n \in Nat /\ n + 1 \in Nat /\ n <= n /\ n + 1 <= n + 1 /\ n <= MaxFrames - 1
        /\ \A p \in (n + 1)..n : p \in D
    BY UploaderAssumption
  <2>2. u = Put(t, n, n, n + 1, n)
    OBVIOUS
  <2> HIDE DEF u
  <2> QED BY <2>1, <2>2, PutKeeps
<1>5. Exact(u) => AlmostExact(u)
  BY DEF Exact, AlmostExact
<1> HIDE DEF u
<1>6. /\ WellFormed(v) /\ Truthful(v, D) /\ Upto(v) = Upto(u) /\ v.seq >= u.seq
      /\ AlmostExact(u) => Exact(v)
  BY <1>4, AbsorbKeeps
<1> HIDE DEF v
<1>7. /\ WellFormed(r.t) /\ Truthful(r.t, D) /\ Upto(r.t) = Upto(v) /\ r.t.seq >= v.seq
      /\ Exact(v) => Exact(r.t)
      /\ r.gaps \in Seq(Decisions) /\ Covered(r.gaps) \subseteq D
  BY <1>6, ExpireKeeps
<1> HIDE DEF r
<1>8. u.seq \in Int /\ v.seq \in Int /\ r.t.seq \in Int
  BY <1>4, <1>6, <1>7, TrackerTypes DEF WellFormed
<1>9. r.t.seq >= t.seq
  BY <1>1, <1>4, <1>6, <1>7, <1>8
<1> QED BY <1>3, <1>4, <1>5, <1>6, <1>7, <1>9

\* A list with one more gap at its head covers that gap too.
LEMMA CoveredCons ==
  ASSUME NEW T, NEW gap \in T, NEW todo \in Seq(T)
  PROVE  /\ <<gap>> \o todo \in Seq(T) /\ <<gap>> \o todo # <<>>
         /\ Covered(<<gap>> \o todo) = (gap.start)..(gap.end - 1) \cup Covered(todo)
<1> DEFINE more == <<gap>> \o todo
<1>1. more \in Seq(T) /\ more # <<>> /\ Head(more) = gap /\ Tail(more) = todo
  <2>1. <<gap>> \in Seq(T) /\ Len(<<gap>>) = 1 /\ <<gap>>[1] = gap
    OBVIOUS
  <2>2. more \in Seq(T) /\ Len(more) = Len(todo) + 1 /\ more[1] = gap
        /\ \A i \in 1..Len(todo) : more[i + 1] = todo[i]
    BY <2>1
  <2>3. Len(todo) \in Nat
    OBVIOUS
  <2> HIDE DEF more
  <2>4. more # <<>> /\ Head(more) = gap
    BY <2>2, <2>3
  <2>5. Tail(more) \in Seq(T) /\ Len(Tail(more)) = Len(todo) /\ \A i \in 1..Len(todo) : Tail(more)[i] = todo[i]
    BY <2>2, <2>3, <2>4
  <2>6. Tail(more) = todo
    BY <2>5
  <2> QED BY <2>2, <2>4, <2>6
<1> HIDE DEF more
<1>2. Covered(more) = Covered(Tail(more)) \cup (Head(more).start)..(Head(more).end - 1)
  BY <1>1, CoveredTail
<1> QED BY <1>1, <1>2 DEF more

\* A single item that follows the watermark is absorbed at once.
LEMMA AbsorbOnly ==
  ASSUME NEW t, NEW D, WellFormed(t), Truthful(t, D), Pending(t) = {t.seq + 1}
  PROVE  Pending(Absorb(t)) = {} /\ Absorb(t).seq = t.pend[t.seq + 1].last
<1> DEFINE u == AbsorbNext(t)
           none == Restrict(t.pend, Pending(t) \ {t.seq + 1})
           end == Max({t.end, t.pend[t.seq + 1].end})
<1>1. u = [t EXCEPT !.seq = t.pend[t.seq + 1].last, !.end = end, !.pend = none]
  BY DEF AbsorbNext, Pending
<1>2. DOMAIN none = {}
  BY DEF Restrict
<1> HIDE DEF none, end
<1>3. Pending(u) = {} /\ u.seq = t.pend[t.seq + 1].last
  <2>1. t.seq \in Nat \cup {-1} /\ t = [seq |-> t.seq, end |-> t.end, pend |-> t.pend, ranges |-> t.ranges]
    BY DEF WellFormed, Trackers
  <2>2. u = [seq |-> t.pend[t.seq + 1].last, end |-> end, pend |-> none, ranges |-> t.ranges]
    BY <1>1, <2>1
  <2> QED BY <1>2, <2>2 DEF Pending
<1>4. AbsorbNext(u) = u
  <2> HIDE DEF u
  <2> QED BY <1>3 DEF AbsorbNext
<1>5. Absorb(t) = u
  <2> DEFINE S == {u}
  <2>1. \A d \in S : AbsorbNext(d) \in S
    BY <1>4
  <2>2. AbsorbNext(t) \in S
    OBVIOUS
  <2>3. IsFiniteSet(Pending(t)) /\ Pending(t) # {}
    BY FinitelyPending
  <2> HIDE DEF S
  <2>4. Absorb(t) \in S
    BY <2>1, <2>2, <2>3, AbsorbRounds
  <2> QED BY <2>4 DEF S
<1> QED BY <1>3, <1>5

\* A declared range is added to the tracker, and changes nothing else.
LEMMA Declared ==
  ASSUME NEW u \in Trackers, NEW gap \in Decisions, NEW w, w = [u EXCEPT !.ranges = @ \cup {gap}]
  PROVE  w \in Trackers /\ w.seq = u.seq /\ w.end = u.end /\ w.pend = u.pend /\ Pending(w) = Pending(u)
<1>1. w.seq = u.seq /\ w.end = u.end /\ w.pend = u.pend
  BY DEF Trackers
<1>2. w \in Trackers
  BY DEF Trackers
<1> QED BY <1>1, <1>2 DEF Pending

\* report_lost(): the reported range counts as received, and every gap that is declared
\* was dropped by the client. The tracker has nothing pending: a report comes first.
THEOREM ReportLostKeeps ==
  ASSUME NEW t, NEW D, WellFormed(t), Truthful(t, D), Pending(t) = {},
         NEW from \in Nat, NEW to \in Nat, NEW lost \in Nat, NEW late,
         from <= to, to <= MaxFrames - 1, lost <= to - from + 1,
         \A p \in 0..to : p \in D \/ p <= t.seq,
         (\A p \in from..to : p \in D) => lost = to - from + 1
  PROVE  LET r == ReportLost(t, from, to, from, lost, late)
         IN  /\ WellFormed(r.t) /\ Truthful(r.t, D) /\ r.t.seq >= t.seq
             /\ to <= t.seq => r.t = t /\ r.gaps = <<>>
             /\ to > t.seq => /\ Upto(r.t) = 0..to /\ r.gaps # <<>>
                              /\ Exact(t) => Exact(r.t) \/ (Pending(r.t) = {} /\ r.t.seq = to)
             /\ r.gaps \in Seq(Decisions) /\ Covered(r.gaps) \subseteq D
<1> DEFINE r == ReportLost(t, from, to, from, lost, late)
<1>0. /\ t.seq \in Int /\ t.seq >= -1 /\ t.end \in Nat /\ t.end <= t.seq + 1 /\ t \in Trackers
  BY TrackerTypes DEF WellFormed
<1>1. CASE to <= t.seq
  <2>1. r = [t |-> t, gaps |-> <<>>]
    BY <1>1 DEF ReportLost
  <2>2. <<>> \in Seq(Decisions)
    OBVIOUS
  <2> QED BY <2>1, <2>2, <1>0, <1>1, CoveredNothing
<1>2. CASE to > t.seq
  <2> DEFINE stored == from <= t.seq
             f == IF stored THEN t.seq + 1 ELSE from
             s == IF stored THEN Max({from, t.end}) ELSE from
             len == IF stored THEN Max({0, from + lost - s}) ELSE lost
             gap == GapDecision(f, to, s, s + len)
             u == Put(t, f, s, s + len, to)
             w == [u EXCEPT !.ranges = @ \cup {gap}]
             v == Absorb(w)
             e == Expire(v, late)
  <2>1. r = [e EXCEPT !.gaps = <<gap>> \o @]
    BY <1>0, <1>2, SMTT(30) DEF ReportLost
  <2>2. /\ f \in Nat /\ s \in Nat /\ len \in Nat /\ s + len \in Nat /\ f > t.seq /\ s <= f /\ f <= to /\ s + len <= to + 1
        /\ ~stored => s + len = to + 1
        /\ stored => f = t.seq + 1
        /\ \A p \in s..(s + len - 1) : p \in D
        /\ \A p \in (s + len)..to : p \in D
        /\ \A p \in 0..(f - 1) : p \in D \/ p <= t.seq
    <3>1. CASE ~stored
      <4>1. lost = to - from + 1
        BY <1>0, <1>2, <3>1
      <4>2. f = from /\ s = from /\ len = lost
        BY <3>1
      <4> HIDE DEF f, s, len
      <4> QED BY <1>0, <1>2, <3>1, <4>1, <4>2
    <3>2. CASE stored
      <4>1. f = t.seq + 1 /\ s = (IF from >= t.end THEN from ELSE t.end)
        BY <1>0, <3>2, MaxOfTwo
      <4>2. s \in Nat /\ s >= t.end /\ s >= from /\ s <= t.seq + 1
        BY <1>0, <3>2, <4>1
      <4>3. len = Max({0, from + lost - s})
        BY <3>2
      <4> HIDE DEF f, s, len
      <4>4. len = IF from + lost - s <= 0 THEN 0 ELSE from + lost - s
        <5>1. from + lost - s \in Int
          BY <4>2
        <5> QED BY <4>3, <5>1, MaxOfTwo
      <4>5. \A p \in Nat : p >= t.end /\ p <= to => p \in D
        BY <1>0 DEF Truthful
      <4> HIDE DEF stored
      <4> QED BY <1>0, <1>2, <3>2, <4>1, <4>2, <4>4, <4>5
    <3> QED BY <3>1, <3>2
  <2> HIDE DEF f, s, len, stored
  <2>3. gap \in Decisions /\ gap.start = s /\ gap.end = s + len
    BY <2>2, UploaderAssumption DEF GapDecision, Decisions
  <2> HIDE DEF gap
  <2>4. /\ WellFormed(u) /\ Truthful(u, D) /\ Upto(u) = 0..to /\ u.seq = t.seq /\ Pending(u) = {f}
        /\ u.pend[f].last = to
        /\ ~stored => (Exact(t) => Exact(u))
    <3>1. f \notin Upto(t)
      BY <1>0, <2>2 DEF Upto
    <3>2. \A p \in 0..(f - 1) : p \in Upto(t) \/ p \in D
      BY <2>2 DEF Upto
    <3>3. u = Put(t, f, s, s + len, to)
      OBVIOUS
    <3> HIDE DEF u
    <3>4. WellFormed(u) /\ Truthful(u, D) /\ Upto(u) = 0..to /\ u.seq = t.seq /\ (~stored => (Exact(t) => Exact(u)))
      BY <2>2, <3>1, <3>2, <3>3, PutKeeps
    <3>5. Pending(u) = {f} /\ u.pend[f].last = to
      BY <1>0, <3>3, PutPending
    <3> QED BY <3>4, <3>5
  <2> HIDE DEF u
  <2>5. /\ w \in Trackers /\ w.seq = u.seq /\ w.end = u.end /\ w.pend = u.pend /\ Pending(w) = Pending(u)
    <3>1. w = [u EXCEPT !.ranges = @ \cup {gap}] /\ u \in Trackers
      BY <2>4 DEF WellFormed
    <3> HIDE DEF w
    <3> QED BY <3>1, <2>3, Declared
  <2> HIDE DEF w
  <2>6. WellFormed(w) /\ Truthful(w, D) /\ Upto(w) = Upto(u) /\ (Exact(u) => Exact(w))
    BY <2>4, <2>5 DEF WellFormed, Truthful, Upto, Exact
  <2>7. /\ WellFormed(v) /\ Truthful(v, D) /\ Upto(v) = Upto(w) /\ v.seq >= w.seq
        /\ Exact(w) => Exact(v)
    <3>1. Exact(w) => AlmostExact(w)
      BY DEF Exact, AlmostExact
    <3> QED BY <2>6, <3>1, AbsorbKeeps
  <2>8. stored => Pending(v) = {} /\ v.seq = to
    <3> SUFFICES ASSUME stored PROVE Pending(v) = {} /\ v.seq = to
      OBVIOUS
    <3>1. Pending(w) = {w.seq + 1} /\ w.pend[w.seq + 1].last = to
      BY <2>2, <2>4, <2>5
    <3> QED BY <3>1, <2>6, AbsorbOnly
  <2> HIDE DEF v
  <2>9. /\ WellFormed(e.t) /\ Truthful(e.t, D) /\ Upto(e.t) = Upto(v) /\ e.t.seq >= v.seq
        /\ Exact(v) => Exact(e.t)
        /\ e \in [t : Trackers, gaps : Seq(Decisions)] /\ Covered(e.gaps) \subseteq D
    BY <2>7, ExpireKeeps
  <2>10. stored => Pending(e.t) = {} /\ e.t.seq = to
    BY <2>8, ExpireNothing
  <2> HIDE DEF e
  <2>11. r.t = e.t /\ r.gaps = <<gap>> \o e.gaps
    BY <2>1, <2>9
  <2>12. r.gaps \in Seq(Decisions) /\ r.gaps # <<>> /\ Covered(r.gaps) \subseteq D
    <3>1. Covered(r.gaps) = (gap.start)..(gap.end - 1) \cup Covered(e.gaps) /\ r.gaps # <<>> /\ r.gaps \in Seq(Decisions)
      BY <2>3, <2>9, <2>11, CoveredCons
    <3> QED BY <3>1, <2>2, <2>3, <2>9
  <2>13. e.t.seq >= t.seq
    <3>1. e.t.seq \in Int /\ v.seq \in Int
      BY <2>7, <2>9, TrackerTypes DEF WellFormed
    <3> QED BY <3>1, <1>0, <2>4, <2>5, <2>7, <2>9
  <2>14. Exact(t) => Exact(e.t) \/ (Pending(e.t) = {} /\ e.t.seq = to)
    BY <2>4, <2>6, <2>7, <2>9, <2>10
  <2>15. Upto(e.t) = 0..to /\ WellFormed(e.t) /\ Truthful(e.t, D)
    BY <2>4, <2>6, <2>7, <2>9
  <2> HIDE DEF r, gap
  <2>16. /\ WellFormed(r.t) /\ Truthful(r.t, D) /\ r.t.seq >= t.seq
         /\ Upto(r.t) = 0..to /\ r.gaps # <<>> /\ r.gaps \in Seq(Decisions) /\ Covered(r.gaps) \subseteq D
         /\ Exact(t) => Exact(r.t) \/ (Pending(r.t) = {} /\ r.t.seq = to)
    BY <2>11, <2>12, <2>13, <2>14, <2>15
  <2> QED BY <1>0, <1>2, <2>16 DEF r
<1> QED BY <1>0, <1>1, <1>2

-----------------------------------------------------------------------------
(* The inductive invariant: the types of the variables, what the client and the *)
(* database know, and ten statements about each connection k.                   *)

\* The messages the two sides send in this model.
ToServer == {[type |-> "hello"], [type |-> "open"]} \cup [type : {"frame", "close"}, n : Int]
              \cup [type : {"gap"}, from : Nat, to : Nat, start : Nat, lost : Nat]

ToClient == {[type |-> "superseded"], [type |-> "welcome"]} \cup [type : {"ready", "ack", "closed"}, n : Int]

\* A row of the database.
Checkpoints == [seq : Nat \cup {-1}, end : Nat, closed : BOOLEAN]

\* The steps of the receive loop that a client of this kind causes: it sends no
\* frame twice on a connection, and stops only when everything is acknowledged.
RxOps == {"idle", "open", "write", "record", "sync", "ack", "persist", "epoch", "answer"}

\* The receive loop: idle, or in the middle of a message.
Receivers == [op : RxOps, n : Int, todo : Seq(Decisions \cup Checkpoints)]

\* The ticker: idle, or between two of its steps.
Tickers == [op : {"idle", "record", "sync", "synced", "checkpoint"}, n : Int, end : Int, todo : Seq(Decisions)]

\* The types of the variables.
Types ==
  /\ up \in [Conns -> BOOLEAN]
  /\ toSrv \in [Conns -> Seq(ToServer)]
  /\ toCli \in [Conns -> Seq(ToClient)]
  /\ ph \in [Conns -> {"off", "joining", "on", "closing", "leaving", "done"}]
  /\ prev \in [Conns -> 0..MaxConns]
  /\ rx \in [Conns -> Receivers]
  /\ tk \in [Conns -> Tickers]
  /\ trk \in [Conns -> Trackers \cup {NoTracker}]
  /\ buf \in [Conns -> SUBSET Nat]
  /\ dirty \in [Conns -> BOOLEAN]
  /\ closed \in [Conns -> BOOLEAN]
  /\ closedSeq \in [Conns -> Int]
  /\ acked \in [Conns -> [seq : Nat \cup {-1}, end : Nat]]
  /\ registry \in 0..MaxConns
  /\ disk \in SUBSET Nat
  /\ db \in Checkpoints
  /\ gaps \subseteq (0..MaxFrames) \X (0..MaxFrames)
  /\ crashes \in Nat
  /\ ws \in 0..MaxConns
  /\ live \in BOOLEAN /\ connected \in BOOLEAN /\ ready \in BOOLEAN /\ fatal \in BOOLEAN
  /\ next \in 0..MaxFrames
  /\ lo \in 0..next
  /\ pendingGap \in [type : {"gap"}, from : Nat, to : Nat, start : Nat, lost : Nat] \cup {NoGap}
  /\ stopped \in BOOLEAN /\ closeSent \in BOOLEAN /\ closeAcked \in BOOLEAN
  /\ dropped \in SUBSET Nat
  /\ congested \in BOOLEAN

\* The recording was stopped and every frame of it is released.
Finished == stopped /\ lo = next

\* A report of an overflow counts the frames of its range that were dropped.
Sound(g) ==
  /\ g \in [type : {"gap"}, from : Nat, to : Nat, start : Nat, lost : Nat]
  /\ g.start = g.from /\ g.from <= g.to /\ g.to < lo
  /\ g.lost <= g.to - g.from + 1
  /\ (\A p \in (g.from)..(g.to) : p \in dropped) => g.lost = g.to - g.from + 1

\* What the client knows: dropped frames lie before its buffer and are reported.
Client ==
  /\ \A p \in dropped : p < lo
  /\ next - 1 \notin dropped
  /\ live => ws # 0
  /\ connected => live
  /\ ready => connected
  /\ closeSent \/ closeAcked => Finished
  /\ pendingGap # NoGap => Sound(pendingGap) /\ \A p \in dropped : p <= pendingGap.to

\* The checkpoint names only frames that are on the disk or were dropped.
Database ==
  /\ db.seq < next /\ db.end = db.seq + 1
  /\ \A p \in 0..db.seq : p \in disk \cup dropped
  /\ db.closed => Finished
  /\ disk \subseteq 0..(next - 1)
  /\ registry # 0 => ph[registry] # "off"

\* The client sends frames on this connection.
Streaming(k) == ws = k /\ ready

\* An open socket belongs to the client's latest connection.
Socket(k) ==
  /\ up[k] => ws = k /\ live
  /\ toCli[k] # <<>> => ws = k /\ live
  /\ k > ws => ph[k] = "off" /\ toSrv[k] = <<>>
  /\ ws = k /\ connected => ph[k] \notin {"off", "joining"}
  /\ \A i \in 1..Len(toCli[k]) : toCli[k][i].type = "superseded" => ~up[k]

\* What a connection may hold in each phase of its life.
Phase(k) ==
  /\ ph[k] = "off" => toCli[k] = <<>> /\ toSrv[k] \in {<<>>, <<[type |-> "hello"]>>}
  /\ ph[k] # "off" => \A i \in 1..Len(toSrv[k]) : toSrv[k][i].type # "hello"
  /\ ph[k] = "joining" => /\ toSrv[k] = <<>>
                          /\ \A i \in 1..Len(toCli[k]) : toCli[k][i].type = "superseded"
  /\ ph[k] \in {"closing", "leaving", "done"} => toSrv[k] = <<>> /\ ~up[k]
  /\ ph[k] # "on" => rx[k] = Idle /\ tk[k] = Rest
  /\ ph[k] \in {"off", "joining", "done"} => ~Opened(k) /\ closedSeq[k] = -2
  /\ ~Opened(k) => acked[k] = [seq |-> -1, end |-> 0] /\ ~dirty[k] /\ ~closed[k] /\ tk[k] = Rest
  /\ buf[k] \subseteq 0..(next - 1)

\* Nothing has happened to the tracker since it was opened.
Fresh(k) ==
  /\ Pending(trk[k]) = {} /\ ~dirty[k] /\ ~closed[k] /\ tk[k] = Rest /\ rx[k] = Idle
  /\ trk[k].seq = acked[k].seq /\ trk[k].end = acked[k].end

\* The source is about to be opened.
Opening(k) == rx[k].op = "open" \/ \E i \in 1..Len(toSrv[k]) : toSrv[k][i].type = "open"

\* The order of the handshake: welcome, open, ready, and only then ACKs.
Handshake(k) ==
  /\ \A i \in 1..Len(toCli[k]) : toCli[k][i].type = "welcome" =>
       /\ i = 1 /\ \A j \in 2..Len(toCli[k]) : toCli[k][j].type = "superseded"
       /\ toSrv[k] = <<>> /\ rx[k] = Idle /\ ~Opened(k) /\ closedSeq[k] = -2 /\ ~connected
  /\ \A i \in 1..Len(toSrv[k]) : toSrv[k][i].type = "open" => Len(toSrv[k]) = 1 /\ rx[k] = Idle
  /\ rx[k].op = "open" => toSrv[k] = <<>>
  /\ Opening(k) =>
       /\ ph[k] = "on" /\ ~Opened(k) /\ closedSeq[k] = -2 /\ ~Streaming(k)
       /\ \A i \in 1..Len(toCli[k]) : toCli[k][i].type = "superseded"
       /\ ws = k /\ live => connected
  /\ \A i \in 1..Len(toCli[k]) : toCli[k][i].type = "ready" =>
       /\ i = 1 /\ connected /\ ~Streaming(k) /\ toSrv[k] = <<>> /\ rx[k] = Idle
       /\ toCli[k][i].n - 1 <= db.seq /\ toCli[k][i].n \in Nat
       /\ Opened(k) => Fresh(k) /\ toCli[k][i].n = acked[k].seq + 1
  /\ \A i \in 1..Len(toCli[k]) : toCli[k][i].type \in {"ack", "closed"} =>
       /\ toCli[k][1].type = "ready" \/ Streaming(k)
       /\ toCli[k][i].n <= db.seq
       /\ Opened(k) => toCli[k][i].n <= acked[k].seq
       /\ toCli[k][i].type = "closed" => Finished
  /\ up[k] /\ (Opened(k) \/ closedSeq[k] # -2) =>
       Streaming(k) \/ (toCli[k] # <<>> /\ toCli[k][1].type = "ready")

\* The j-th message on its way is frame p.
IsFrame(k, j, p) == toSrv[k][j].type = "frame" /\ toSrv[k][j].n = p

\* The end lags behind the watermark: a lost range was absorbed that was already
\* partly acknowledged. The next frame puts it right before anything is stored.
Lagging(k) ==
  /\ Pending(trk[k]) = {} /\ ~dirty[k] /\ ~closed[k] /\ tk[k] = Rest
  /\ rx[k].op \in {"idle", "record", "write"}
  /\ IF rx[k].op = "write" THEN rx[k].n = trk[k].seq + 1
     ELSE IF toSrv[k] = <<>> THEN ~up[k]
     ELSE IsFrame(k, 1, trk[k].seq + 1)

\* What a tracker counts as received is written, or lost at the client.
Tracking(k) ==
  Opened(k) =>
    /\ WellFormed(trk[k])
    /\ Truthful(trk[k], dropped)
    /\ Upto(trk[k]) \subseteq disk \cup buf[k] \cup dropped
    /\ \A p \in Upto(trk[k]) : p < next
    /\ acked[k].seq <= trk[k].seq /\ acked[k].end = acked[k].seq + 1
    /\ \A p \in 0..acked[k].seq : p \in disk \cup dropped
    /\ Exact(trk[k]) \/ Lagging(k)

\* Between two steps of a message the receive loop holds what it read before.
ReceiveLoop(k) ==
  /\ rx[k].op = "idle" => rx[k] = Idle
  /\ rx[k].op = "open" =>
       /\ Len(rx[k].todo) = 1 /\ rx[k].todo[1] \in Checkpoints
       /\ rx[k].todo[1].seq <= db.seq /\ rx[k].todo[1].end = rx[k].todo[1].seq + 1
       /\ rx[k].todo[1].closed => db.closed
  /\ rx[k].op = "write" =>
       /\ Opened(k) /\ ~closed[k] /\ rx[k].n \in 0..(next - 1) /\ rx[k].n \notin Upto(trk[k])
       /\ \A p \in 0..(rx[k].n - 1) : p \in Upto(trk[k]) \cup dropped
  /\ rx[k].op = "record" =>
       /\ Opened(k) /\ rx[k].todo \in Seq(Decisions) /\ rx[k].todo # <<>>
       /\ Covered(rx[k].todo) \subseteq dropped
  /\ rx[k].op \in {"sync", "ack", "persist", "epoch", "answer"} =>
       /\ Opened(k) /\ Finished /\ Pending(trk[k]) = {} /\ rx[k].todo = <<>>
       /\ acked[k].seq = next - 1 /\ trk[k].seq = next - 1
  /\ rx[k].op \in {"epoch", "answer"} => trk[k].seq <= db.seq
  /\ closed[k] => Finished
  /\ closedSeq[k] # -2 => closedSeq[k] <= db.seq /\ Finished

\* Between two steps the ticker holds what it read before: it acknowledges no more than
\* what was fsynced.
TickLoop(k) ==
  /\ tk[k].op = "idle" => tk[k] = Rest
  /\ tk[k].op # "idle" => Opened(k)
  /\ tk[k].op = "record" => Covered(tk[k].todo) \subseteq dropped
  /\ tk[k].op \in {"sync", "synced", "checkpoint"} =>
       /\ tk[k].todo = <<>> /\ tk[k].n >= -1 /\ tk[k].n <= trk[k].seq /\ tk[k].end = tk[k].n + 1
  /\ tk[k].op \in {"synced", "checkpoint"} => \A p \in 0..tk[k].n : p \in disk \cup dropped
  /\ tk[k].op = "checkpoint" => tk[k].n <= acked[k].seq

\* What was received, the frame being written included.
Passed(k) == Upto(trk[k]) \cup (IF rx[k].op = "write" THEN 0..rx[k].n ELSE {})

\* Frames arrive in order; what is skipped was dropped.
InOrder(k) ==
  /\ \A i, j \in 1..Len(toSrv[k]) :
       i < j /\ toSrv[k][i].type = "frame" /\ toSrv[k][j].type = "frame" => toSrv[k][i].n < toSrv[k][j].n
  /\ \A j \in 1..Len(toSrv[k]) : toSrv[k][j].type = "frame" =>
       /\ toSrv[k][j].n \in 0..(next - 1)
       /\ Opened(k) /\ ~closed[k] =>
            /\ toSrv[k][j].n \notin Passed(k)
            /\ \A p \in 0..(toSrv[k][j].n - 1) :
                 p \in Passed(k) \cup dropped \/ \E i \in 1..(j - 1) : IsFrame(k, i, p)

\* A report of an overflow comes first, and what follows it is not part of it.
Reports(k) ==
  \A i \in 1..Len(toSrv[k]) : toSrv[k][i].type = "gap" =>
    /\ i = 1 /\ Sound(toSrv[k][i])
    /\ \A j \in 2..Len(toSrv[k]) : toSrv[k][j].type = "frame" => toSrv[k][i].to < toSrv[k][j].n
    /\ Opened(k) =>
         /\ Fresh(k)
         /\ \A p \in 0..(toSrv[k][i].to) : p \in dropped \/ p <= trk[k].seq
         /\ toSrv[k][i].to > trk[k].seq =>
              IF Len(toSrv[k]) = 1 THEN ~up[k] ELSE IsFrame(k, 2, toSrv[k][i].to + 1)

\* A source is closed when everything it sent is acknowledged.
Closing(k) ==
  \A i \in 1..Len(toSrv[k]) : toSrv[k][i].type = "close" =>
    /\ i = Len(toSrv[k]) /\ Finished /\ toSrv[k][i].n = next - 1
    /\ Opened(k) => acked[k].seq = next - 1
    /\ ws = k /\ live => closeSent

\* The current connection resumes behind everything the client has released, and
\* every frame captured since is received or on its way.
Resuming(k) ==
  ws = k =>
    /\ Opened(k) => \A p \in 0..(lo - 1) : p \in dropped \/ p <= acked[k].seq
    /\ rx[k].op = "open" => \A p \in 0..(lo - 1) : p \in dropped \/ p <= rx[k].todo[1].seq
    /\ Streaming(k) /\ up[k] /\ Opened(k) /\ ~closed[k] =>
         \A p \in 0..(next - 1) :
           p \in Passed(k) \cup dropped \/ \E i \in 1..Len(toSrv[k]) : IsFrame(k, i, p)

\* All of it, for one connection.
Connection(k) ==
  /\ Socket(k) /\ Phase(k) /\ Handshake(k) /\ Tracking(k) /\ ReceiveLoop(k) /\ TickLoop(k)
  /\ InOrder(k) /\ Reports(k) /\ Closing(k) /\ Resuming(k)

\* The inductive invariant.
Inv ==
  /\ Types /\ Client /\ Database
  /\ \A k \in Conns : Connection(k)
  /\ ReleasedIsSafe /\ NoFalseGap

-----------------------------------------------------------------------------
(* Queues. *)

\* Taking the head of a queue.
LEMMA TailOf ==
  ASSUME NEW S, NEW q \in Seq(S), q # <<>>
  PROVE  /\ Tail(q) \in Seq(S) /\ Len(q) \in Nat \ {0} /\ Len(Tail(q)) = Len(q) - 1
         /\ Head(q) = q[1] /\ q[1] \in S /\ 1 \in 1..Len(q)
         /\ \A i \in 1..(Len(q) - 1) : Tail(q)[i] = q[i + 1] /\ i + 1 \in 1..Len(q) /\ i \in Nat
         /\ Tail(q) = <<>> <=> Len(q) = 1
<1>1. /\ Tail(q) \in Seq(S) /\ Len(q) \in Nat \ {0} /\ Len(Tail(q)) = Len(q) - 1
      /\ Head(q) = q[1] /\ q[1] \in S /\ 1 \in 1..Len(q)
  OBVIOUS
<1>2. \A i \in 1..(Len(q) - 1) : Tail(q)[i] = q[i + 1] /\ i + 1 \in 1..Len(q) /\ i \in Nat
  OBVIOUS
<1>3. Tail(q) = <<>> <=> Len(q) = 1
  <2> DEFINE r == Tail(q)
  <2>1. r \in Seq(S)
    BY <1>1
  <2> HIDE DEF r
  <2>2. r = <<>> <=> Len(r) = 0
    BY <2>1
  <2> QED BY <1>1, <2>2 DEF r
<1> QED BY <1>1, <1>2, <1>3

\* Putting messages at the end of a queue.
LEMMA Appended ==
  ASSUME NEW S, NEW q \in Seq(S), NEW m \in S
  PROVE  /\ q \o <<m>> \in Seq(S) /\ q \o <<m>> # <<>> /\ Len(q) \in Nat /\ Len(q \o <<m>>) = Len(q) + 1
         /\ (q \o <<m>>)[Len(q) + 1] = m
         /\ \A i \in 1..Len(q) : (q \o <<m>>)[i] = q[i]
         /\ q \o <<>> = q
OBVIOUS

-----------------------------------------------------------------------------
(* What a step at another connection leaves alone. *)

\* The step is not at connection j.
Same(j) ==
  /\ up'[j] = up[j] /\ toSrv'[j] = toSrv[j] /\ toCli'[j] = toCli[j] /\ ph'[j] = ph[j]
  /\ rx'[j] = rx[j] /\ tk'[j] = tk[j] /\ trk'[j] = trk[j] /\ buf'[j] = buf[j] /\ dirty'[j] = dirty[j]
  /\ closed'[j] = closed[j] /\ closedSeq'[j] = closedSeq[j] /\ acked'[j] = acked[j]

\* What is common to all connections only grows.
Growth ==
  /\ next <= next' /\ lo <= lo'
  /\ dropped \subseteq dropped' /\ \A p \in dropped' : p \in dropped \/ lo <= p
  /\ disk \subseteq disk' /\ db.seq <= db'.seq /\ (db.closed => db'.closed)
  /\ Finished => Finished'

\* The client's step concerns another connection, or it makes none.
Elsewhere(j) ==
  \/ UNCHANGED clientVars
  \/ ws' # j /\ (ws # j \/ ~live) /\ ws <= ws'

\* The messages that carry a number.
LEMMA MessageTypes ==
  /\ \A m \in ToClient : m.type \in {"ready", "ack", "closed"} => m.n \in Int
  /\ \A m \in ToServer : m.type \in {"frame", "close"} => m.n \in Int
BY DEF ToClient, ToServer

\* What the types say about the numbers of a connection, now and after a step.
LEMMA Numbers ==
  ASSUME NEW j \in Conns, Types
  PROVE  /\ next \in Nat /\ lo \in Nat /\ lo <= next /\ next <= MaxFrames /\ ws \in Nat /\ j \in Nat /\ j # 0
         /\ db.seq \in Int /\ db.seq >= -1 /\ db.end \in Nat /\ db.closed \in BOOLEAN /\ db \in Checkpoints
         /\ acked[j].seq \in Int /\ acked[j].seq >= -1 /\ acked[j].end \in Nat
         /\ rx[j].n \in Int /\ tk[j].n \in Int /\ tk[j].end \in Int /\ closedSeq[j] \in Int
         /\ rx[j].op \in RxOps /\ tk[j].op \in {"idle", "record", "sync", "synced", "checkpoint"}
         /\ rx[j].todo \in Seq(Decisions \cup Checkpoints) /\ tk[j].todo \in Seq(Decisions)
         /\ dropped \in SUBSET Nat /\ disk \in SUBSET Nat /\ buf[j] \in SUBSET Nat
         /\ Opened(j) => trk[j] \in Trackers
         /\ toSrv[j] \in Seq(ToServer) /\ toCli[j] \in Seq(ToClient)
<1>1. next \in Nat /\ lo \in Nat /\ lo <= next /\ next <= MaxFrames /\ ws \in Nat /\ j \in Nat /\ j # 0
  BY UploaderAssumption, MaxConnsAssumption DEF Types, Conns
<1>2. db \in Checkpoints /\ db.seq \in Int /\ db.seq >= -1 /\ db.end \in Nat /\ db.closed \in BOOLEAN
  BY DEF Types, Checkpoints
<1>3. acked[j].seq \in Int /\ acked[j].seq >= -1 /\ acked[j].end \in Nat
  <2>1. acked[j] \in [seq : Nat \cup {-1}, end : Nat]
    BY DEF Types
  <2> QED BY <2>1
<1>4. /\ rx[j].n \in Int /\ rx[j].op \in RxOps /\ rx[j].todo \in Seq(Decisions \cup Checkpoints)
  <2>1. rx[j] \in Receivers
    BY DEF Types
  <2> QED BY <2>1 DEF Receivers
<1>5. /\ tk[j].n \in Int /\ tk[j].end \in Int /\ tk[j].todo \in Seq(Decisions)
      /\ tk[j].op \in {"idle", "record", "sync", "synced", "checkpoint"}
  <2>1. tk[j] \in Tickers
    BY DEF Types
  <2> QED BY <2>1 DEF Tickers
<1>6. /\ dropped \in SUBSET Nat /\ disk \in SUBSET Nat /\ buf[j] \in SUBSET Nat /\ closedSeq[j] \in Int
      /\ toSrv[j] \in Seq(ToServer) /\ toCli[j] \in Seq(ToClient)
  BY DEF Types
<1>7. Opened(j) => trk[j] \in Trackers
  BY DEF Types, Opened
<1> QED BY <1>1, <1>2, <1>3, <1>4, <1>5, <1>6, <1>7

\* The numbers of the next state.
LEMMA NumbersNext ==
  ASSUME NEW j \in Conns, Types'
  PROVE  /\ next' \in Nat /\ lo' \in Nat /\ lo' <= next' /\ next' <= MaxFrames /\ ws' \in Nat
         /\ db'.seq \in Int /\ db'.seq >= -1 /\ db'.end \in Nat
         /\ acked'[j].seq \in Int /\ acked'[j].seq >= -1 /\ acked'[j].end \in Nat
         /\ rx'[j].n \in Int /\ tk'[j].n \in Int /\ tk'[j].end \in Int /\ closedSeq'[j] \in Int
         /\ dropped' \in SUBSET Nat /\ disk' \in SUBSET Nat /\ buf'[j] \in SUBSET Nat
         /\ toSrv'[j] \in Seq(ToServer) /\ toCli'[j] \in Seq(ToClient)
<1>1. next' \in Nat /\ lo' \in Nat /\ lo' <= next' /\ next' <= MaxFrames /\ ws' \in Nat
  BY UploaderAssumption, MaxConnsAssumption DEF Types
<1>2. db'.seq \in Int /\ db'.seq >= -1 /\ db'.end \in Nat
  BY DEF Types, Checkpoints
<1>3. acked'[j].seq \in Int /\ acked'[j].seq >= -1 /\ acked'[j].end \in Nat
  <2>1. acked'[j] \in [seq : Nat \cup {-1}, end : Nat]
    BY DEF Types
  <2> QED BY <2>1
<1>4. rx'[j].n \in Int
  <2>1. rx'[j] \in Receivers
    BY DEF Types
  <2> QED BY <2>1 DEF Receivers
<1>5. tk'[j].n \in Int /\ tk'[j].end \in Int
  <2>1. tk'[j] \in Tickers
    BY DEF Types
  <2> QED BY <2>1 DEF Tickers
<1>6. /\ dropped' \in SUBSET Nat /\ disk' \in SUBSET Nat /\ buf'[j] \in SUBSET Nat /\ closedSeq'[j] \in Int
      /\ toSrv'[j] \in Seq(ToServer) /\ toCli'[j] \in Seq(ToClient)
  BY DEF Types
<1> QED BY <1>1, <1>2, <1>3, <1>4, <1>5, <1>6

\* Each part of Connection(j) holds after a step elsewhere.
LEMMA SocketAside ==
  ASSUME NEW j \in Conns, Types, Types', Socket(j), Elsewhere(j),
         up'[j] = up[j], toSrv'[j] = toSrv[j], toCli'[j] = toCli[j], ph'[j] = ph[j]
  PROVE  Socket(j)'
BY Numbers, NumbersNext DEF Socket, Elsewhere, clientVars

LEMMA PhaseAside ==
  ASSUME NEW j \in Conns, Types, Types', Phase(j), Same(j), Growth
  PROVE  Phase(j)'
<1>1. 0..(next - 1) \subseteq 0..(next' - 1)
  BY Numbers, NumbersNext DEF Growth
<1> QED BY <1>1 DEF Phase, Same, Opened

\* A tracker stays truthful when more is dropped.
LEMMA TruthfulGrows ==
  ASSUME NEW t, NEW D, NEW E, Truthful(t, D), D \subseteq E
  PROVE  Truthful(t, E)
BY DEF Truthful

LEMMA TrackingAside ==
  ASSUME NEW j \in Conns, Types, Types', Tracking(j), Growth,
         trk'[j] = trk[j], acked'[j] = acked[j], buf[j] \subseteq buf'[j] \cup disk', Lagging(j) => Lagging(j)'
  PROVE  Tracking(j)'
<1>2. Truthful(trk[j], dropped) => Truthful(trk[j], dropped')
  BY TruthfulGrows DEF Growth
<1>3. Opened(j)' = Opened(j)
  BY DEF Opened
<1>4. SUFFICES ASSUME Opened(j) PROVE Tracking(j)'
  BY <1>3 DEF Tracking
<1>5. disk \cup buf[j] \cup dropped \subseteq disk' \cup buf'[j] \cup dropped'
  BY DEF Growth
<1>6. \A p \in Upto(trk[j]) : p < next => p < next'
  BY Numbers, NumbersNext DEF Growth, Upto
<1>7. /\ WellFormed(trk[j]) /\ Truthful(trk[j], dropped')
      /\ Upto(trk[j]) \subseteq disk' \cup buf'[j] \cup dropped'
      /\ \A p \in Upto(trk[j]) : p < next'
      /\ acked[j].seq <= trk[j].seq /\ acked[j].end = acked[j].seq + 1
      /\ \A p \in 0..acked[j].seq : p \in disk' \cup dropped'
      /\ Exact(trk[j]) \/ Lagging(j)'
  BY <1>2, <1>4, <1>5, <1>6 DEF Tracking, Growth
<1> QED BY <1>7 DEF Tracking

LEMMA ReceiverAside ==
  ASSUME NEW j \in Conns, Types, Types', ReceiveLoop(j), Growth, Finished => next' = next,
         rx'[j] = rx[j], trk'[j] = trk[j], closed'[j] = closed[j], closedSeq'[j] = closedSeq[j],
         acked[j].seq = next - 1 => acked'[j].seq = acked[j].seq
  PROVE  ReceiveLoop(j)'
<1>1. /\ Opened(j)' = Opened(j) /\ (Finished => Finished') /\ (db.closed => db'.closed)
      /\ \A n \in Int : n <= db.seq => n <= db'.seq
      /\ 0..(next - 1) \subseteq 0..(next' - 1) /\ dropped \subseteq dropped'
  BY Numbers, NumbersNext, SMTT(30) DEF Opened, Growth
<1>2. /\ rx[j].op = "open" => rx[j].todo[1].seq \in Int
      /\ trk[j] \in Trackers => trk[j].seq \in Int
      /\ closedSeq[j] \in Int
      /\ Opened(j) => trk[j] \in Trackers
  BY Numbers, TrackerTypes, SMTT(30) DEF ReceiveLoop, Checkpoints
<1> QED BY <1>1, <1>2 DEF ReceiveLoop

LEMMA TickerAside ==
  ASSUME NEW j \in Conns, TickLoop(j), Growth, tk'[j] = tk[j], trk'[j] = trk[j], acked'[j] = acked[j]
  PROVE  TickLoop(j)'
BY DEF TickLoop, Growth, Opened

LEMMA FramesAside ==
  ASSUME NEW j \in Conns, Types, Types', InOrder(j), Growth, toSrv'[j] = toSrv[j],
         Passed(j)' = Passed(j), Opened(j)' => Opened(j), closed'[j] = closed[j] \/ closed'[j]
  PROVE  InOrder(j)'
<1>1. \A i, p : IsFrame(j, i, p)' = IsFrame(j, i, p)
  BY DEF IsFrame
<1>2. 0..(next - 1) \subseteq 0..(next' - 1) /\ dropped \subseteq dropped'
  BY Numbers, NumbersNext DEF Growth
<1> QED BY <1>1, <1>2 DEF InOrder

\* A report of an overflow stays right.
LEMMA SoundStays ==
  ASSUME NEW g, Types, Types', Sound(g), Growth
  PROVE  Sound(g)'
<1>0. next \in Nat /\ lo \in Nat /\ next' \in Nat /\ lo' \in Nat /\ g.to \in Nat /\ g.from \in Nat
  BY DEF Sound, Types
<1>1. \A p \in (g.from)..(g.to) : p \in dropped' => p \in dropped
  BY <1>0 DEF Sound, Growth
<1> QED BY <1>0, <1>1 DEF Sound, Growth

LEMMA ReportsAside ==
  ASSUME NEW j \in Conns, Types, Types', Reports(j), Growth, toSrv'[j] = toSrv[j],
         up'[j] => up[j], Opened(j)' => Opened(j) /\ (Fresh(j) => Fresh(j)' /\ trk'[j].seq = trk[j].seq)
  PROVE  Reports(j)'
<1>1. \A i, p : IsFrame(j, i, p)' = IsFrame(j, i, p)
  BY DEF IsFrame
<1>2. \A g : Sound(g) => Sound(g)'
  BY SoundStays
<1>3. dropped \subseteq dropped'
  BY DEF Growth
<1> QED BY <1>1, <1>2, <1>3 DEF Reports

LEMMA ClosingAside ==
  ASSUME NEW j \in Conns, Types, Types', Closing(j), Growth, Elsewhere(j), Finished => next' = next,
         toSrv'[j] = toSrv[j], Opened(j)' => Opened(j), acked[j].seq = next - 1 => acked'[j].seq = acked[j].seq
  PROVE  Closing(j)'
<1>1. Finished => Finished'
  BY DEF Growth
<1>2. ws' = j /\ live' => ws = j /\ live /\ closeSent' = closeSent
  BY DEF Elsewhere, clientVars, sourceVars
<1> QED BY <1>1, <1>2 DEF Closing

LEMMA ResumingAside ==
  ASSUME NEW j \in Conns, Types, Types', Resuming(j), Elsewhere(j), toSrv'[j] = toSrv[j], up'[j] => up[j],
         Passed(j)' = Passed(j), Opened(j)' => Opened(j) /\ acked'[j].seq >= acked[j].seq,
         closed'[j] = closed[j] \/ closed'[j],
         rx'[j].op = "open" => rx'[j] = rx[j]
  PROVE  Resuming(j)'
<1>1. \A i, p : IsFrame(j, i, p)' = IsFrame(j, i, p)
  BY DEF IsFrame
<1>2. CASE UNCHANGED clientVars
  <2>1. /\ ws' = ws /\ lo' = lo /\ next' = next /\ dropped' = dropped /\ Streaming(j)' = Streaming(j)
    BY <1>2 DEF clientVars, sourceVars, Streaming
  <2>2. \A p \in Nat : Opened(j)' /\ p <= acked[j].seq => p <= acked'[j].seq
    BY Numbers, NumbersNext
  <2>3. 0..(lo - 1) \subseteq Nat
    BY Numbers
  <2> QED BY <1>1, <2>1, <2>2, <2>3 DEF Resuming
<1>3. CASE ws' # j
  BY <1>3 DEF Resuming
<1> QED BY <1>2, <1>3 DEF Elsewhere

LEMMA HandshakeAside ==
  ASSUME NEW j \in Conns, Types, Types', Handshake(j), Socket(j), Growth, Elsewhere(j),
         up'[j] => up[j], toSrv'[j] = toSrv[j], toCli'[j] = toCli[j], ph'[j] = ph[j],
         Opened(j)' = Opened(j), closedSeq'[j] = closedSeq[j],
         Idle = rx[j] => Idle = rx'[j], rx'[j].op = "open" => rx[j].op = "open",
         acked'[j].seq >= acked[j].seq, Fresh(j) => Fresh(j)' /\ acked'[j].seq = acked[j].seq
  PROVE  Handshake(j)'
<1>1. Opening(j)' => Opening(j)
  BY DEF Opening
<1>2. CASE UNCHANGED clientVars
  <2>1. ws' = ws /\ live' = live /\ connected' = connected /\ Streaming(j)' = Streaming(j) /\ Finished' = Finished
    BY <1>2 DEF clientVars, sourceVars, Streaming, Finished
  <2>2. \A i \in 1..Len(toCli[j]) : toCli[j][i].type \in {"ready", "ack", "closed"} => toCli[j][i].n \in Int
    <3>1. toCli[j] \in Seq(ToClient)
      BY Numbers
    <3> QED BY <3>1, MessageTypes
  <2>3. \A n \in Int : /\ (n - 1 <= db.seq => n - 1 <= db'.seq) /\ (n <= db.seq => n <= db'.seq)
                       /\ (n <= acked[j].seq => n <= acked'[j].seq)
    <3>1. db.seq \in Int /\ db'.seq \in Int /\ acked[j].seq \in Int /\ acked'[j].seq \in Int
      BY Numbers, NumbersNext
    <3> QED BY <3>1 DEF Growth
  <2> QED BY <1>1, <2>1, <2>2, <2>3 DEF Handshake
<1>3. CASE ws' # j /\ (ws # j \/ ~live)
  <2>1. toCli'[j] = <<>> /\ ~Streaming(j)' /\ Len(toCli'[j]) = 0 /\ ~up'[j]
    BY <1>3 DEF Socket, Streaming
  <2> QED BY <1>1, <1>3, <2>1 DEF Handshake
<1> QED BY <1>2, <1>3 DEF Elsewhere

\* A step elsewhere keeps everything that is known of connection j.
LEMMA Aside ==
  ASSUME NEW j \in Conns, Types, Types', Connection(j), Same(j), Growth, Elsewhere(j), Finished => next' = next
  PROVE  Connection(j)'
<1>1. /\ Socket(j) /\ Phase(j) /\ Handshake(j) /\ Tracking(j) /\ ReceiveLoop(j) /\ TickLoop(j)
      /\ InOrder(j) /\ Reports(j) /\ Closing(j) /\ Resuming(j)
  BY DEF Connection
<1>2. /\ up'[j] = up[j] /\ toSrv'[j] = toSrv[j] /\ toCli'[j] = toCli[j] /\ ph'[j] = ph[j]
      /\ rx'[j] = rx[j] /\ tk'[j] = tk[j] /\ trk'[j] = trk[j] /\ buf'[j] = buf[j]
      /\ closed'[j] = closed[j] /\ closedSeq'[j] = closedSeq[j] /\ acked'[j] = acked[j]
  BY DEF Same
<1>3. /\ Passed(j)' = Passed(j) /\ Opened(j)' = Opened(j) /\ (Fresh(j) => Fresh(j)') /\ (Lagging(j) => Lagging(j)')
      /\ acked'[j].seq >= acked[j].seq
  BY Numbers DEF Same, Passed, Opened, Fresh, Lagging, IsFrame
<1>4. Socket(j)' /\ Phase(j)'
  BY <1>1, <1>2, SocketAside, PhaseAside
<1>5. Handshake(j)'
  BY <1>1, <1>2, <1>3, HandshakeAside
<1>6. Tracking(j)' /\ ReceiveLoop(j)' /\ TickLoop(j)'
  BY <1>1, <1>2, <1>3, TrackingAside, ReceiverAside, TickerAside
<1>7. InOrder(j)' /\ Reports(j)'
  BY <1>1, <1>2, <1>3, FramesAside, ReportsAside
<1>8. Closing(j)' /\ Resuming(j)'
  BY <1>1, <1>2, <1>3, ClosingAside, ResumingAside
<1> QED BY <1>4, <1>5, <1>6, <1>7, <1>8 DEF Connection

-----------------------------------------------------------------------------
(* Steps of the server. *)

\* A step of the server at k is checked at k alone.
LEMMA ServerStepKeeps ==
  ASSUME NEW k \in Conns, Inv, Types', UNCHANGED clientVars, \A j \in Conns : j # k => Same(j),
         disk \subseteq disk', db.seq <= db'.seq, db.closed => db'.closed,
         Connection(k)', Database', NoFalseGap'
  PROVE  Inv'
<1>0. next' = next /\ lo' = lo /\ dropped' = dropped /\ Finished' = Finished /\ pendingGap' = pendingGap
  BY DEF clientVars, sourceVars, Finished
<1>1. Growth
  BY <1>0 DEF Growth, Inv, Types
<1>2. ASSUME NEW j \in Conns, j # k PROVE Connection(j)'
  <2>1. Types /\ Connection(j) /\ Same(j) /\ Elsewhere(j)
    BY <1>2 DEF Inv, Elsewhere
  <2> QED BY <1>0, <1>1, <2>1, Aside
<1>3. Client'
  <2>1. \A g : Sound(g)' = Sound(g)
    BY <1>0 DEF Sound
  <2> QED BY <1>0, <2>1 DEF Inv, Client, clientVars, sourceVars
<1>4. ReleasedIsSafe'
  <2>1. \A p \in 0..(lo - 1) : p <= db.seq => p <= db'.seq
    <3>1. db.seq \in Int /\ db'.seq \in Int /\ lo \in Nat
      BY Numbers, NumbersNext DEF Inv
    <3> QED BY <3>1
  <2> QED BY <1>0, <2>1 DEF Inv, ReleasedIsSafe
<1> QED BY <1>2, <1>3, <1>4 DEF Inv

\* Steps that leave the database and the rows of the gaps alone.
LEMMA QuietStepKeeps ==
  ASSUME NEW k \in Conns, Inv, Types', UNCHANGED clientVars, \A j \in Conns : j # k => Same(j),
         UNCHANGED <<db, gaps>>, disk' = disk \/ disk' = disk \cup buf[k],
         registry' # 0 => ph'[registry'] # "off", Connection(k)'
  PROVE  Inv'
<1>0. next' = next /\ dropped' = dropped /\ Finished' = Finished
  BY DEF clientVars, sourceVars, Finished
<1>1. buf[k] \subseteq 0..(next - 1)
  BY DEF Inv, Connection, Phase
<1>2. Database'
  BY <1>0, <1>1 DEF Inv, Database
<1>3. NoFalseGap'
  BY <1>0 DEF Inv, NoFalseGap
<1>4. disk \subseteq disk' /\ db.seq <= db'.seq /\ (db.closed => db'.closed)
  <2>1. db.seq \in Int
    BY Numbers DEF Inv
  <2> QED BY <2>1
<1> QED BY <1>2, <1>3, <1>4, ServerStepKeeps

\* The frames up to the watermark are received.
LEMMA Watermark ==
  ASSUME Inv, NEW k \in Conns, Opened(k)
  PROVE  /\ trk[k] \in Trackers /\ trk[k].seq \in Int /\ trk[k].seq >= -1 /\ trk[k].seq <= next - 1 /\ trk[k].end \in Nat
         /\ \A n \in Int : n <= trk[k].seq => \A p \in 0..n : p \in Upto(trk[k])
         /\ WellFormed(trk[k]) /\ Truthful(trk[k], dropped)
         /\ Upto(trk[k]) \subseteq disk \cup buf[k] \cup dropped
<1>1. trk[k] \in Trackers /\ WellFormed(trk[k]) /\ Truthful(trk[k], dropped) /\ Upto(trk[k]) \subseteq disk \cup buf[k] \cup dropped
  BY DEF Inv, Connection, Tracking, WellFormed
<1>2. trk[k].seq \in Int /\ trk[k].seq >= -1 /\ trk[k].end \in Nat
  BY <1>1, TrackerTypes
<1>3. \A n \in Int : n <= trk[k].seq => \A p \in 0..n : p \in Upto(trk[k])
  BY <1>2 DEF Upto
<1>4. next \in Nat
  BY Numbers DEF Inv
<1>5. trk[k].seq <= next - 1
  <2>1. CASE trk[k].seq = -1
    BY <2>1, <1>4
  <2>2. CASE trk[k].seq # -1
    <3>1. trk[k].seq \in Upto(trk[k])
      BY <2>2, <1>2 DEF Upto
    <3>2. trk[k].seq < next
      BY <3>1 DEF Inv, Connection, Tracking
    <3> QED BY <3>2, <1>2, <1>4
  <2> QED BY <2>1, <2>2
<1> QED BY <1>1, <1>2, <1>3, <1>5

-----------------------------------------------------------------------------
(* The ticker. *)

\* A step of the ticker that is under way leaves most of its connection alone.
LEMMA TickerParts ==
  ASSUME Inv, Types', NEW k \in Conns, UNCHANGED clientVars, Growth, tk[k] # Rest,
         up'[k] = up[k], toSrv'[k] = toSrv[k], ph'[k] = ph[k], rx'[k] = rx[k], trk'[k] = trk[k],
         closed'[k] = closed[k], closedSeq'[k] = closedSeq[k], buf'[k] \subseteq buf[k],
         acked'[k].seq >= acked[k].seq, acked[k].seq = next - 1 => acked'[k].seq = acked[k].seq
  PROVE  /\ ph[k] = "on" /\ Opened(k) /\ Opened(k)' /\ ~Fresh(k) /\ ~Lagging(k)
         /\ Phase(k)' /\ ReceiveLoop(k)' /\ InOrder(k)' /\ Reports(k)' /\ Closing(k)' /\ Resuming(k)'
<1>1. /\ ph[k] = "on" /\ Opened(k) /\ Opened(k)' /\ ~Fresh(k) /\ ~Lagging(k) /\ Passed(k)' = Passed(k)
  BY DEF Inv, Connection, Phase, TickLoop, Rest, Fresh, Lagging, Opened, Passed
<1>2. next' = next /\ Elsewhere(k)
  BY DEF clientVars, sourceVars, Elsewhere
<1>3. Types /\ Connection(k)
  BY DEF Inv
<1>4. Phase(k)'
  BY <1>1, <1>2, <1>3 DEF Connection, Phase
<1>5. ReceiveLoop(k)'
  BY <1>2, <1>3, ReceiverAside DEF Connection
<1>6. InOrder(k)' /\ Reports(k)'
  BY <1>1, <1>3, FramesAside, ReportsAside DEF Connection
<1>7. Closing(k)' /\ Resuming(k)'
  BY <1>1, <1>2, <1>3, ClosingAside, ResumingAside DEF Connection
<1> QED BY <1>1, <1>4, <1>5, <1>6, <1>7

\* The same, for the steps that send nothing.
LEMMA SilentTicker ==
  ASSUME Inv, Types', NEW k \in Conns, UNCHANGED clientVars, Growth, tk[k] # Rest,
         up'[k] = up[k], toSrv'[k] = toSrv[k], toCli'[k] = toCli[k], ph'[k] = ph[k], rx'[k] = rx[k], trk'[k] = trk[k],
         closed'[k] = closed[k], closedSeq'[k] = closedSeq[k], buf'[k] \subseteq buf[k],
         acked'[k].seq >= acked[k].seq, acked[k].seq = next - 1 => acked'[k].seq = acked[k].seq,
         Tracking(k)', TickLoop(k)'
  PROVE  Connection(k)'
<1>1. /\ Opened(k) /\ Opened(k)' /\ ~Fresh(k)
      /\ Phase(k)' /\ ReceiveLoop(k)' /\ InOrder(k)' /\ Reports(k)' /\ Closing(k)' /\ Resuming(k)'
  BY TickerParts
<1>2. Types /\ Connection(k) /\ Elsewhere(k)
  BY DEF Inv, Elsewhere
<1>3. Socket(k)'
  BY <1>2, SocketAside DEF Connection
<1>4. Handshake(k)'
  BY <1>1, <1>2, HandshakeAside DEF Connection
<1> QED BY <1>1, <1>3, <1>4 DEF Connection

\* What the ticker has flushed is fsynced, and only that.
LEMMA TickSyncKeeps ==
  ASSUME Inv, NEW k \in Conns, TickSync(k), UNCHANGED clientVars
  PROVE  Inv'
<1> USE DEF linkVars, dbVars
<1>1. Types'
  <2>1. tk' \in [Conns -> Tickers]
    <3>1. tk[k] \in Tickers
      BY DEF Inv, Types
    <3>2. [tk[k] EXCEPT !.op = "synced"] \in Tickers
      BY <3>1 DEF Tickers
    <3> QED BY <3>2 DEF Inv, Types, TickSync
  <2>2. buf' \in [Conns -> SUBSET Nat] /\ disk' \in SUBSET Nat
    BY DEF Inv, Types, TickSync, Fsync
  <2> QED BY <2>1, <2>2, SMTT(30) DEF Inv, Types, TickSync, clientVars, sourceVars
<1>2. \A j \in Conns : j # k => Same(j)
  BY DEF Inv, Types, TickSync, Fsync, Same
<1>3. /\ tk[k].op = "sync" /\ tk'[k].op = "synced" /\ tk'[k].n = tk[k].n /\ tk'[k].end = tk[k].end /\ tk'[k].todo = tk[k].todo
      /\ disk' = disk \cup buf[k] /\ buf'[k] = {}
      /\ UNCHANGED <<up, toSrv, toCli, ph, prev, rx, trk, dirty, closed, closedSeq, acked, registry, db, gaps, crashes>>
  <2>1. tk[k] \in Tickers
    BY DEF Inv, Types
  <2> QED BY <2>1 DEF Inv, Types, TickSync, Fsync, Tickers
<1> USE <1>3
<1>4. /\ next' = next /\ dropped' = dropped /\ Growth
  BY DEF clientVars, sourceVars, Growth, Finished, Inv, Types, Checkpoints
<1>5. Opened(k) /\ ~Lagging(k) /\ Opened(k)' = Opened(k) /\ tk[k] # Rest
  BY DEF Lagging, Opened, Inv, Connection, TickLoop, Rest
<1>6. Tracking(k)'
  BY <1>1, <1>4, <1>5, TrackingAside DEF Inv, Connection
<1>7. TickLoop(k)'
  <2>1. tk[k].n <= trk[k].seq => \A p \in 0..tk[k].n : p \in Upto(trk[k])
    BY <1>5, Watermark, Numbers DEF Inv
  <2> QED BY <1>4, <1>5, <2>1 DEF Inv, Connection, TickLoop, Tracking
<1>8. Connection(k)'
  BY <1>1, <1>4, <1>5, <1>6, <1>7, SilentTicker, Numbers, SMTT(30) DEF Inv
<1> QED BY <1>1, <1>2, <1>8, QuietStepKeeps DEF Inv, Database

\* The row of a gap.
LEMMA RowTypes ==
  ASSUME NEW gap \in Decisions
  PROVE  Row(gap) \in (0..MaxFrames) \X (0..MaxFrames) /\ Row(gap)[1] = gap.start /\ Row(gap)[2] = gap.end
BY DEF Row, Decisions

\* A step of the server alone.
LEMMA QuietGrowth ==
  ASSUME Types, UNCHANGED clientVars, disk \subseteq disk', db.seq <= db'.seq, db.closed => db'.closed
  PROVE  /\ Growth /\ \A j \in Conns : Elsewhere(j) /\ Streaming(j)' = Streaming(j)
         /\ ws' = ws /\ live' = live /\ connected' = connected /\ closeSent' = closeSent
         /\ next' = next /\ lo' = lo /\ dropped' = dropped /\ Finished' = Finished /\ pendingGap' = pendingGap
BY DEF Types, Growth, Finished, Streaming, Elsewhere, clientVars, sourceVars

\* _persist never moves the checkpoint back.
LEMMA PersistKeeps ==
  ASSUME NEW n \in Nat \cup {-1}, Persist(n, n + 1), db \in Checkpoints
  PROVE  /\ db' \in Checkpoints /\ db'.closed = db.closed /\ db.seq <= db'.seq /\ n <= db'.seq
         /\ db.end = db.seq + 1 => db'.end = db'.seq + 1
         /\ db'.seq = db.seq \/ db'.seq = n
<1>1. CASE db.seq <= n
  <2>1. db' = [db EXCEPT !.seq = n, !.end = n + 1]
    BY <1>1 DEF Persist
  <2>2. db = [seq |-> db.seq, end |-> db.end, closed |-> db.closed] /\ db.closed \in BOOLEAN
    BY DEF Checkpoints
  <2>3. db' = [seq |-> n, end |-> n + 1, closed |-> db.closed]
    BY <2>1, <2>2
  <2> QED BY <1>1, <2>2, <2>3 DEF Checkpoints
<1>2. CASE ~(db.seq <= n)
  <2>1. db' = db
    BY <1>2 DEF Persist
  <2> QED BY <1>2, <2>1 DEF Checkpoints
<1> QED BY <1>1, <1>2

\* Every message of a shorter queue was in the longer one.
LEMMA TailWithin ==
  ASSUME NEW S, NEW q \in Seq(S), q # <<>>
  PROVE  \A i \in 1..Len(Tail(q)) : i + 1 \in 2..Len(q) /\ Tail(q)[i] = q[i + 1]
OBVIOUS

\* An ACK is sent on a connection whose source was opened.
LEMMA AnswerKeeps ==
  ASSUME Inv, Types', NEW k \in Conns, UNCHANGED clientVars,
         NEW m \in ToClient, m.type \in {"ack", "closed"}, m.n <= db'.seq, Opened(k) => m.n <= acked'[k].seq,
         m.type = "closed" => Finished,
         toCli'[k] = IF up[k] THEN toCli[k] \o <<m>> ELSE toCli[k],
         toSrv'[k] = toSrv[k] \/ (toSrv[k] # <<>> /\ toSrv'[k] = Tail(toSrv[k])),
         rx'[k] = rx[k] \/ rx'[k] = Idle,
         Opened(k) \/ closedSeq[k] # -2, Fresh(k) => Fresh(k)' /\ acked'[k].seq = acked[k].seq,
         up'[k] = up[k], ph[k] = "on", ph'[k] = ph[k], db.seq <= db'.seq, acked[k].seq <= acked'[k].seq,
         Opened(k)' = Opened(k), closedSeq'[k] = closedSeq[k]
  PROVE  Socket(k)' /\ Handshake(k)'
<1>1. Socket(k) /\ Handshake(k) /\ Types
  BY DEF Inv, Connection
<1>2. /\ ws' = ws /\ live' = live /\ connected' = connected /\ Streaming(k)' = Streaming(k) /\ Finished' = Finished
      /\ closeSent' = closeSent
  BY DEF clientVars, sourceVars, Streaming, Finished
<1>3. toCli[k] \in Seq(ToClient) /\ toSrv[k] \in Seq(ToServer) /\ db.seq \in Int /\ db'.seq \in Int /\ acked[k].seq \in Int /\ acked'[k].seq \in Int /\ k <= ws
  <2>1. k \in Nat /\ ws \in Nat
    BY <1>1, Numbers
  <2> QED BY <1>1, <2>1, Numbers, NumbersNext DEF Socket
<1>4. /\ Len(toCli[k]) \in Nat /\ Len(toCli'[k]) \in Nat /\ Len(toCli[k]) <= Len(toCli'[k])
      /\ \A i \in 1..Len(toCli[k]) : toCli'[k][i] = toCli[k][i]
      /\ \A i \in 1..Len(toCli'[k]) : i \in 1..Len(toCli[k]) \/ (up[k] /\ toCli'[k][i] = m)
      /\ toCli[k] # <<>> <=> 1 \in 1..Len(toCli[k])
      /\ toCli'[k] # <<>> <=> 1 \in 1..Len(toCli'[k])
  BY <1>3, Appended
<1>5. \A i \in 1..Len(toSrv'[k]) : \E j \in 1..Len(toSrv[k]) : toSrv'[k][i] = toSrv[k][j]
  <2>1. CASE toSrv'[k] = toSrv[k]
    BY <2>1
  <2>2. CASE toSrv[k] # <<>> /\ toSrv'[k] = Tail(toSrv[k])
    BY <2>2, <1>3, TailWithin
  <2> QED BY <2>1, <2>2
<1>6. \A i \in 1..Len(toCli[k]) : toCli[k][i].type \in {"ready", "ack", "closed"} => toCli[k][i].n \in Int
  BY <1>3, MessageTypes
<1>7. Socket(k)'
  BY <1>1, <1>2, <1>3, <1>4 DEF Socket
<1>8. \A i \in 1..Len(toCli'[k]) : toCli'[k][i].type # "welcome"
  BY <1>1, <1>4 DEF Handshake
<1>9. /\ \A i \in 1..Len(toSrv[k]) : toSrv[k][i].type # "open"
      /\ \A i \in 1..Len(toSrv'[k]) : toSrv'[k][i].type # "open"
      /\ rx'[k].op # "open"
  BY <1>1, <1>5 DEF Handshake, Opening, Idle
<1>10. ~Opening(k)'
  BY <1>9 DEF Opening
<1>11. ASSUME NEW i \in 1..Len(toCli'[k]), toCli'[k][i].type = "ready"
       PROVE  /\ i = 1 /\ connected' /\ ~Streaming(k)' /\ toSrv'[k] = <<>> /\ rx'[k] = Idle
              /\ toCli'[k][i].n - 1 <= db'.seq /\ toCli'[k][i].n \in Nat
              /\ Opened(k)' => Fresh(k)' /\ toCli'[k][i].n = acked'[k].seq + 1
  <2>1. i \in 1..Len(toCli[k]) /\ toCli'[k][i] = toCli[k][i]
    BY <1>4, <1>11
  <2> QED BY <2>1, <1>1, <1>2, <1>3, <1>11 DEF Handshake
<1>12. ASSUME NEW i \in 1..Len(toCli'[k]), toCli'[k][i].type \in {"ack", "closed"}
       PROVE  /\ toCli'[k][1].type = "ready" \/ Streaming(k)'
              /\ toCli'[k][i].n <= db'.seq
              /\ Opened(k)' => toCli'[k][i].n <= acked'[k].seq
              /\ toCli'[k][i].type = "closed" => Finished'
  <2>1. CASE i \in 1..Len(toCli[k])
    <3>1. toCli'[k][i] = toCli[k][i] /\ toCli'[k][1] = toCli[k][1] /\ toCli[k][i].n \in Int
      BY <1>4, <1>6, <1>12, <2>1
    <3> QED BY <3>1, <2>1, <1>1, <1>2, <1>3, <1>12 DEF Handshake
  <2>2. CASE i \notin 1..Len(toCli[k])
    <3>1. up[k] /\ toCli'[k][i] = m
      BY <1>4, <2>2
    <3>2. toCli'[k][1].type = "ready" \/ Streaming(k)'
      BY <1>1, <1>2, <1>4, <3>1 DEF Handshake
    <3> QED BY <3>1, <3>2, <1>2
  <2> QED BY <2>1, <2>2
<1>13. up'[k] /\ (Opened(k)' \/ closedSeq'[k] # -2) => Streaming(k)' \/ (toCli'[k] # <<>> /\ toCli'[k][1].type = "ready")
  BY <1>1, <1>2, <1>4 DEF Handshake
<1>14. Handshake(k)'
  BY <1>8, <1>9, <1>10, <1>11, <1>12, <1>13 DEF Handshake
<1> QED BY <1>7, <1>14

\* The ticker records a gap that expired.
LEMMA TickRecordKeeps ==
  ASSUME Inv, NEW k \in Conns, TickRecord(k), UNCHANGED clientVars
  PROVE  Inv'
<1> USE DEF linkVars, dbVars
<1>1. /\ tk[k] \in Tickers /\ tk[k].op = "record" /\ tk[k] # Rest /\ Opened(k) /\ trk[k].seq \in Int /\ trk[k].end \in Nat
      /\ tk[k].todo \in Seq(Decisions) /\ Covered(tk[k].todo) \subseteq dropped /\ ~Lagging(k)
      /\ UNCHANGED <<up, toSrv, toCli, ph, prev, rx, trk, buf, closed, closedSeq, acked, registry, disk, db, crashes>>
  <2>1. tk[k] \in Tickers /\ tk[k].op = "record"
    BY DEF Inv, Types, TickRecord
  <2>2. Opened(k) /\ Covered(tk[k].todo) \subseteq dropped /\ tk[k] # Rest
    BY <2>1 DEF Inv, Connection, TickLoop, Rest
  <2>3. trk[k].seq \in Int /\ trk[k].end \in Nat
    BY <2>2, Watermark
  <2> QED BY <2>1, <2>2, <2>3 DEF Tickers, Lagging, TickRecord
<1> USE <1>1
<1>2. /\ next' = next /\ dropped' = dropped /\ Growth /\ Opened(k)'
  BY DEF clientVars, sourceVars, Growth, Finished, Inv, Types, Checkpoints, Opened
<1>3. CASE tk[k].todo # <<>>
  <2> DEFINE step == [op |-> "record", n |-> 0, end |-> 0, todo |-> Tail(tk[k].todo)]
  <2>1. /\ tk' = [tk EXCEPT ![k] = step] /\ gaps' = gaps \cup {Row(Head(tk[k].todo))} /\ dirty' = dirty
    BY <1>3 DEF TickRecord, Ticker
  <2>2. /\ Tail(tk[k].todo) \in Seq(Decisions) /\ Head(tk[k].todo) \in Decisions
        /\ Covered(tk[k].todo) = Covered(Tail(tk[k].todo)) \cup (Head(tk[k].todo).start)..(Head(tk[k].todo).end - 1)
    BY <1>3, CoveredTail
  <2>3. step \in Tickers
    BY <2>2 DEF Tickers
  <2>4. Types'
    <3>1. tk' \in [Conns -> Tickers]
      BY <2>1, <2>3 DEF Inv, Types
    <3>2. gaps' \subseteq (0..MaxFrames) \X (0..MaxFrames)
      BY <2>1, <2>2, RowTypes DEF Inv, Types
    <3> QED BY <2>1, <3>1, <3>2, SMTT(30) DEF Inv, Types, TickRecord, clientVars, sourceVars
  <2>5. tk'[k] = step
    BY <2>1 DEF Inv, Types
  <2>6. \A j \in Conns : j # k => Same(j)
    BY <2>1 DEF Inv, Types, Same
  <2>7. Tracking(k)' /\ TickLoop(k)'
    <3>1. Tracking(k)'
      BY <1>2, <2>4, TrackingAside DEF Inv, Connection
    <3>2. TickLoop(k)'
      BY <1>2, <2>2, <2>5 DEF TickLoop
    <3> QED BY <3>1, <3>2
  <2>8. Connection(k)'
    BY <1>2, <2>4, <2>7, SilentTicker, Numbers DEF Inv
  <2>9. NoFalseGap'
    <3>1. Row(Head(tk[k].todo))[1] = Head(tk[k].todo).start /\ Row(Head(tk[k].todo))[2] = Head(tk[k].todo).end
      BY <2>2, RowTypes
    <3> QED BY <1>2, <2>1, <2>2, <3>1 DEF Inv, NoFalseGap
  <2>10. Database'
    BY <1>2 DEF Inv, Database, Finished, clientVars, sourceVars
  <2> QED BY <2>4, <2>6, <2>8, <2>9, <2>10, ServerStepKeeps, Numbers, SMTT(30) DEF Inv
<1>4. CASE tk[k].todo = <<>>
  <2> DEFINE step == IF dirty[k] THEN [op |-> "sync", n |-> trk[k].seq, end |-> trk[k].end, todo |-> <<>>] ELSE Rest
  <2>1. /\ tk' = [tk EXCEPT ![k] = step] /\ gaps' = gaps /\ dirty' = [dirty EXCEPT ![k] = FALSE]
    BY <1>4 DEF TickRecord, TakeWatermark, Ticker
  <2>3. step \in Tickers
    BY DEF Tickers, Rest
  <2>4. Types'
    <3>1. tk' \in [Conns -> Tickers] /\ dirty' \in [Conns -> BOOLEAN]
      BY <2>1, <2>3 DEF Inv, Types
    <3> QED BY <2>1, <3>1, ZenonT(30) DEF Inv, Types, TickRecord, clientVars, sourceVars
  <2>5. tk'[k] = step
    BY <2>1 DEF Inv, Types
  <2>6. \A j \in Conns : j # k => Same(j)
    BY <2>1 DEF Inv, Types, Same
  <2>7. Tracking(k)' /\ TickLoop(k)'
    <3>1. Tracking(k)'
      BY <1>2, <2>4, TrackingAside DEF Inv, Connection
    <3>2. trk[k].end = trk[k].seq + 1 /\ trk[k].seq >= -1
      BY Watermark DEF Inv, Connection, Tracking, Exact
    <3>3. TickLoop(k)'
      BY <1>2, <2>5, <3>2 DEF TickLoop, Rest
    <3> QED BY <3>1, <3>3
  <2>8. Connection(k)'
    BY <1>2, <2>4, <2>7, SilentTicker, Numbers DEF Inv
  <2> QED BY <2>1, <2>4, <2>6, <2>8, QuietStepKeeps DEF Inv, Database
<1> QED BY <1>3, <1>4

\* The ticker acknowledges what was fsynced.
LEMMA TickAckKeeps ==
  ASSUME Inv, NEW k \in Conns, TickAck(k), UNCHANGED clientVars
  PROVE  Inv'
<1> USE DEF linkVars, dbVars
<1>1. /\ tk[k] \in Tickers /\ tk[k].op = "synced" /\ tk[k] # Rest /\ Opened(k) /\ ~Lagging(k)
      /\ tk[k].todo = <<>> /\ tk[k].n >= -1 /\ tk[k].n <= trk[k].seq /\ tk[k].end = tk[k].n + 1
      /\ \A p \in 0..tk[k].n : p \in disk \cup dropped
      /\ UNCHANGED <<up, toSrv, toCli, ph, prev, rx, trk, buf, dirty, closed, closedSeq, registry, disk, dbVars, crashes>>
  <2>1. tk[k] \in Tickers /\ tk[k].op = "synced"
    BY DEF Inv, Types, TickAck
  <2> QED BY <2>1 DEF Inv, Connection, TickLoop, Rest, Lagging, TickAck
<1> USE <1>1
<1>2. /\ next' = next /\ dropped' = dropped /\ Growth /\ Opened(k)'
  BY DEF clientVars, sourceVars, Growth, Finished, Inv, Types, Checkpoints, Opened
<1>3. /\ tk[k].n \in Int /\ acked[k].seq \in Int /\ trk[k].seq \in Int /\ trk[k].seq <= next - 1 /\ next \in Nat
  BY Numbers, Watermark DEF Inv
<1>4. CASE tk[k].n > acked[k].seq
  <2> DEFINE step == [tk[k] EXCEPT !.op = "checkpoint"]
             upto == [seq |-> tk[k].n, end |-> tk[k].end]
  <2>1. tk' = [tk EXCEPT ![k] = step] /\ acked' = [acked EXCEPT ![k] = upto]
    BY <1>4 DEF TickAck
  <2>2. step \in Tickers /\ step.op = "checkpoint" /\ step.n = tk[k].n /\ step.end = tk[k].end /\ step.todo = tk[k].todo
    BY DEF Tickers
  <2>3. upto \in [seq : Nat \cup {-1}, end : Nat]
    BY <1>3
  <2> HIDE DEF step
  <2>4. Types'
    <3>1. tk' \in [Conns -> Tickers] /\ acked' \in [Conns -> [seq : Nat \cup {-1}, end : Nat]]
      BY <2>1, <2>2, <2>3 DEF Inv, Types
    <3> QED BY <3>1, ZenonT(30) DEF Inv, Types, TickAck, clientVars, sourceVars
  <2>5. tk'[k] = step /\ acked'[k] = upto
    BY <2>1 DEF Inv, Types
  <2>6. \A j \in Conns : j # k => Same(j)
    BY <2>1 DEF Inv, Types, Same
  <2>7. Tracking(k)'
    BY <1>2, <2>5 DEF Inv, Connection, Tracking
  <2>8. TickLoop(k)'
    BY <1>2, <1>3, <2>2, <2>5 DEF TickLoop
  <2>9. acked'[k].seq >= acked[k].seq /\ (acked[k].seq = next - 1 => acked'[k].seq = acked[k].seq)
    BY <1>3, <1>4, <2>5
  <2>10. Connection(k)'
    BY <1>2, <2>4, <2>7, <2>8, <2>9, SilentTicker DEF Inv
  <2> QED BY <2>4, <2>6, <2>10, QuietStepKeeps DEF Inv, Database
<1>5. CASE ~(tk[k].n > acked[k].seq)
  <2>1. tk' = [tk EXCEPT ![k] = Rest] /\ acked' = acked
    BY <1>5 DEF TickAck
  <2>2. Rest \in Tickers
    BY DEF Tickers, Rest
  <2>4. Types'
    <3>1. tk' \in [Conns -> Tickers]
      BY <2>1, <2>2 DEF Inv, Types
    <3> QED BY <2>1, <3>1, SMTT(30) DEF Inv, Types, TickAck, clientVars, sourceVars
  <2>5. tk'[k] = Rest
    BY <2>1 DEF Inv, Types
  <2>6. \A j \in Conns : j # k => Same(j)
    BY <2>1 DEF Inv, Types, Same
  <2>7. Tracking(k)'
    BY <1>2, <2>1, <2>4, TrackingAside DEF Inv, Connection
  <2>8. TickLoop(k)'
    BY <1>2, <2>5 DEF TickLoop, Rest
  <2>10. Connection(k)'
    BY <1>2, <1>3, <2>1, <2>4, <2>7, <2>8, SilentTicker DEF Inv
  <2> QED BY <2>1, <2>4, <2>6, <2>10, QuietStepKeeps DEF Inv, Database
<1> QED BY <1>4, <1>5

\* The ticker writes the checkpoint.
LEMMA TickCheckpointKeeps ==
  ASSUME Inv, NEW k \in Conns, TickCheckpoint(k), UNCHANGED clientVars
  PROVE  Inv'
<1> USE DEF linkVars, dbVars
<1> DEFINE ack == [type |-> "ack", n |-> tk[k].n]
<1>1. /\ tk[k] \in Tickers /\ tk[k].op = "checkpoint" /\ tk[k] # Rest /\ Opened(k) /\ ~Lagging(k)
      /\ tk[k].n >= -1 /\ tk[k].n <= trk[k].seq /\ tk[k].end = tk[k].n + 1 /\ tk[k].n <= acked[k].seq
      /\ \A p \in 0..tk[k].n : p \in disk \cup dropped
      /\ UNCHANGED <<up, toSrv, ph, prev, rx, trk, buf, dirty, closed, closedSeq, acked, registry, disk, gaps, crashes>>
      /\ tk' = [tk EXCEPT ![k] = Rest]
      /\ Persist(tk[k].n, tk[k].n + 1)
      /\ toCli' = IF up[k] THEN [toCli EXCEPT ![k] = @ \o <<ack>>] ELSE toCli
  <2>1. tk[k] \in Tickers /\ tk[k].op = "checkpoint"
    BY DEF Inv, Types, TickCheckpoint
  <2>2. <<ack>> # <<>>
    OBVIOUS
  <2> QED BY <2>1, <2>2 DEF Inv, Connection, TickLoop, Rest, Lagging, TickCheckpoint, Reply, Queued
<1> USE <1>1
<1>2. /\ tk[k].n \in Int /\ tk[k].n \in Nat \cup {-1} /\ trk[k].seq \in Int /\ trk[k].seq <= next - 1 /\ next \in Nat
      /\ db \in Checkpoints /\ db.seq \in Int /\ db.seq >= -1 /\ db.closed \in BOOLEAN /\ toCli[k] \in Seq(ToClient)
      /\ acked[k].seq \in Int
  BY Numbers, Watermark DEF Inv
<1>3. /\ db' \in Checkpoints /\ db'.closed = db.closed /\ db.seq <= db'.seq /\ tk[k].n <= db'.seq
      /\ db.end = db.seq + 1 => db'.end = db'.seq + 1
      /\ db'.seq = db.seq \/ db'.seq = tk[k].n
  BY <1>2, PersistKeeps
<1>4. Types'
  <2>1. Rest \in Tickers
    BY DEF Tickers, Rest
  <2>2. tk' \in [Conns -> Tickers]
    BY <2>1 DEF Inv, Types
  <2>3. ack \in ToClient
    BY <1>2 DEF ToClient
  <2>4. toCli' \in [Conns -> Seq(ToClient)]
    <3>1. toCli[k] \o <<ack>> \in Seq(ToClient)
      BY <1>2, <2>3, Appended
    <3> QED BY <3>1 DEF Inv, Types
  <2> QED BY <1>3, <2>2, <2>4, SMTT(30) DEF Inv, Types, clientVars, sourceVars
<1>5. tk'[k] = Rest /\ toCli'[k] = IF up[k] THEN toCli[k] \o <<ack>> ELSE toCli[k]
  BY DEF Inv, Types
<1>6. \A j \in Conns : j # k => Same(j)
  BY DEF Inv, Types, Same
<1>7. /\ next' = next /\ dropped' = dropped /\ Growth /\ Opened(k)'
  BY <1>3 DEF clientVars, sourceVars, Growth, Finished, Inv, Types, Opened
<1>8. Tracking(k)'
  BY <1>4, <1>7, TrackingAside DEF Inv, Connection
<1>9. TickLoop(k)'
  BY <1>5 DEF TickLoop, Rest
<1>10. /\ ~Fresh(k) /\ ph[k] = "on"
       /\ Phase(k)' /\ ReceiveLoop(k)' /\ InOrder(k)' /\ Reports(k)' /\ Closing(k)' /\ Resuming(k)'
  BY <1>2, <1>4, <1>7, TickerParts DEF Inv
<1>11. Socket(k)' /\ Handshake(k)'
  <2>1. ack \in ToClient /\ ack.type = "ack" /\ ack.n = tk[k].n
    BY <1>2 DEF ToClient
  <2> HIDE DEF ack
  <2>2. /\ toCli'[k] = IF up[k] THEN toCli[k] \o <<ack>> ELSE toCli[k]
        /\ Opened(k)' = Opened(k) /\ rx'[k] = rx[k] /\ toSrv'[k] = toSrv[k] /\ up'[k] = up[k] /\ ph'[k] = ph[k]
        /\ closedSeq'[k] = closedSeq[k] /\ acked'[k].seq = acked[k].seq /\ acked[k].seq <= acked'[k].seq
    BY <1>2, <1>5, <1>7
  <2>3. ack.n <= db'.seq /\ (Opened(k) => ack.n <= acked'[k].seq) /\ db.seq <= db'.seq
    BY <1>3, <2>1
  <2>4. ack.type \in {"ack", "closed"} /\ (ack.type = "closed" => Finished)
    BY <2>1
  <2>5. Opened(k) \/ closedSeq[k] # -2
    OBVIOUS
  <2>6. Fresh(k) => Fresh(k)' /\ acked'[k].seq = acked[k].seq
    BY <1>10
  <2> HIDE <1>1
  <2> QED BY <1>4, <1>10, <2>1, <2>2, <2>3, <2>4, <2>5, <2>6, AnswerKeeps
<1>12. Connection(k)'
  BY <1>8, <1>9, <1>10, <1>11 DEF Connection
<1>13. Database'
  <2>1. \A p \in 0..db'.seq : p \in disk \cup dropped
    BY <1>2, <1>3 DEF Inv, Database
  <2> QED BY <1>2, <1>3, <1>7, <2>1 DEF Inv, Database, Finished, clientVars, sourceVars
<1>14. NoFalseGap'
  BY <1>7 DEF Inv, NoFalseGap
<1> QED BY <1>3, <1>4, <1>6, <1>12, <1>13, <1>14, ServerStepKeeps

\* The ticker expires gaps and flushes what was written.
LEMMA TickFlushKeeps ==
  ASSUME Inv, NEW k \in Conns, TickFlush(k), UNCHANGED clientVars
  PROVE  Inv'
<1> USE DEF linkVars, dbVars
<1>1. PICK late \in SUBSET Pending(trk[k]) : Flush(k, late)
  BY DEF TickFlush
<1> DEFINE r == Expire(trk[k], late)
<1>2. /\ ph[k] = "on" /\ tk[k] = Rest /\ Opened(k) /\ ~closed[k]
      /\ dirty[k] \/ r.gaps # <<>> \/ r.t # trk[k]
      /\ trk' = [trk EXCEPT ![k] = r.t]
      /\ UNCHANGED <<up, toSrv, toCli, ph, prev, rx, buf, closed, closedSeq, acked, registry, disk, db, gaps, crashes>>
  BY <1>1 DEF Flush
<1>3. /\ trk[k] \in Trackers /\ trk[k].seq \in Int /\ trk[k].seq >= -1 /\ trk[k].end \in Nat
      /\ WellFormed(trk[k]) /\ Truthful(trk[k], dropped)
      /\ Upto(trk[k]) \subseteq disk \cup buf[k] \cup dropped
  BY <1>2, Watermark
<1>4. /\ WellFormed(r.t) /\ Truthful(r.t, dropped) /\ Upto(r.t) = Upto(trk[k]) /\ r.t.seq >= trk[k].seq
      /\ Exact(trk[k]) => Exact(r.t)
      /\ r.gaps \in Seq(Decisions) /\ Covered(r.gaps) \subseteq dropped
      /\ r.t \in Trackers /\ r.t.seq \in Int /\ r.t.seq >= -1 /\ r.t.end \in Nat
  <2>1. /\ WellFormed(r.t) /\ Truthful(r.t, dropped) /\ Upto(r.t) = Upto(trk[k]) /\ r.t.seq >= trk[k].seq
        /\ Exact(trk[k]) => Exact(r.t)
        /\ r \in [t : Trackers, gaps : Seq(Decisions)] /\ Covered(r.gaps) \subseteq dropped
    BY <1>3, ExpireKeeps
  <2> HIDE DEF r
  <2>2. r.t \in Trackers /\ r.gaps \in Seq(Decisions)
    BY <2>1
  <2> QED BY <2>1, <2>2, TrackerTypes
<1>5. Pending(trk[k]) = {} => r.t = trk[k] /\ dirty[k]
  BY <1>2, ExpireNothing
<1> DEFINE step == IF r.gaps = <<>>
                   THEN IF dirty[k] THEN [op |-> "sync", n |-> r.t.seq, end |-> r.t.end, todo |-> <<>>] ELSE Rest
                   ELSE [op |-> "record", n |-> 0, end |-> 0, todo |-> r.gaps]
<1>6. tk' = [tk EXCEPT ![k] = step] /\ dirty' = [dirty EXCEPT ![k] = IF r.gaps = <<>> THEN FALSE ELSE @]
  <2>1. CASE r.gaps = <<>>
    BY <1>1, <2>1 DEF Flush, TakeWatermark, Ticker
  <2>2. CASE r.gaps # <<>>
    <3>1. tk' = [tk EXCEPT ![k] = step] /\ dirty' = dirty
      BY <1>1, <2>2 DEF Flush, Ticker
    <3> QED BY <3>1, <2>2 DEF Inv, Types
  <2> QED BY <2>1, <2>2
<1> HIDE DEF r
<1>7. step \in Tickers
  BY <1>4 DEF Tickers, Rest
<1>8. Types'
  <2>1. tk' \in [Conns -> Tickers] /\ trk' \in [Conns -> Trackers \cup {NoTracker}] /\ dirty' \in [Conns -> BOOLEAN]
    BY <1>2, <1>4, <1>6, <1>7 DEF Inv, Types
  <2> QED BY <1>2, <2>1, SMTT(30) DEF Inv, Types, clientVars, sourceVars
<1>9. tk'[k] = step /\ trk'[k] = r.t
  BY <1>2, <1>6 DEF Inv, Types
<1>10. \A j \in Conns : j # k => Same(j)
  BY <1>2, <1>6 DEF Inv, Types, Same
<1>11. /\ next' = next /\ dropped' = dropped /\ Growth /\ Elsewhere(k)
       /\ Types /\ Connection(k)
  <2>1. Types /\ Connection(k)
    BY DEF Inv
  <2>2. db.seq <= db.seq /\ disk \subseteq disk
    BY <2>1, Numbers
  <2> QED BY <1>2, <2>1, <2>2, QuietGrowth
<1>12. Opened(k)' /\ ~Fresh(k) /\ ~Lagging(k) /\ Passed(k)' = Passed(k) /\ (Opened(k)' = Opened(k))
  <2>1. Opened(k)'
    <3>1. r.t # NoTracker
      BY <1>4 DEF Trackers, NoTracker
    <3> QED BY <1>9, <3>1 DEF Opened
  <2>2. ~Fresh(k) /\ ~Lagging(k)
    BY <1>5 DEF Fresh, Lagging
  <2>3. Passed(k)' = Passed(k)
    BY <1>2, <1>4, <1>9 DEF Passed
  <2> QED BY <1>2, <2>1, <2>2, <2>3
<1>13. Exact(r.t)
  BY <1>2, <1>4, <1>11, <1>12 DEF Connection, Tracking
<1> HIDE DEF step
<1>14. Tracking(k)'
  <2>1. /\ Upto(trk[k]) \subseteq disk' \cup buf'[k] \cup dropped' /\ \A p \in Upto(trk[k]) : p < next'
        /\ acked'[k].seq <= r.t.seq /\ acked'[k].end = acked'[k].seq + 1
        /\ \A p \in 0..acked'[k].seq : p \in disk' \cup dropped'
    <3>1. acked[k].seq \in Int
      BY <1>11, Numbers
    <3> QED BY <3>1, <1>2, <1>3, <1>4, <1>11 DEF Connection, Tracking
  <2> QED BY <1>4, <1>9, <1>11, <1>13, <2>1 DEF Tracking
<1>15. TickLoop(k)'
  <2>1. r.t.end = r.t.seq + 1
    BY <1>13 DEF Exact
  <2> QED BY <1>4, <1>9, <1>11, <1>12, <2>1 DEF TickLoop, Rest, step
<1>16. ReceiveLoop(k)'
  <2>1. CASE Pending(trk[k]) = {}
    BY <2>1, <1>2, <1>5, <1>8, <1>9, <1>11, ReceiverAside DEF Connection
  <2>2. CASE Pending(trk[k]) # {}
    <3>1. Finished' = Finished
      BY DEF Finished, clientVars, sourceVars
    <3>2. rx[k].op \in RxOps
      BY <1>11, Numbers
    <3> QED BY <3>1, <3>2, <2>2, <1>2, <1>4, <1>9, <1>11, <1>12 DEF Connection, ReceiveLoop, RxOps
  <2> QED BY <2>1, <2>2
<1>17. Socket(k)' /\ Phase(k)'
  <2>1. Socket(k)'
    BY <1>2, <1>8, <1>11, SocketAside DEF Connection
  <2>2. Phase(k)'
    BY <1>2, <1>11, <1>12 DEF Connection, Phase
  <2> QED BY <2>1, <2>2
<1>18. Handshake(k)'
  <2>1. acked[k].seq >= acked[k].seq
    BY <1>11, Numbers
  <2> QED BY <1>2, <1>8, <1>11, <1>12, <2>1, HandshakeAside DEF Connection
<1>19. InOrder(k)' /\ Reports(k)'
  BY <1>2, <1>8, <1>11, <1>12, FramesAside, ReportsAside DEF Connection
<1>20. Closing(k)' /\ Resuming(k)'
  <2>1. acked[k].seq >= acked[k].seq
    BY <1>11, Numbers
  <2> QED BY <1>2, <1>8, <1>11, <1>12, <2>1, ClosingAside, ResumingAside DEF Connection
<1>21. Connection(k)'
  BY <1>14, <1>15, <1>16, <1>17, <1>18, <1>19, <1>20 DEF Connection
<1> QED BY <1>2, <1>8, <1>10, <1>21, QuietStepKeeps DEF Inv, Database

-----------------------------------------------------------------------------
(* The receive loop, in the middle of a message. *)

\* A step of the receive loop in the middle of a message leaves the queue alone.
LEMMA Busy ==
  ASSUME Inv, NEW k \in Conns, rx[k] # Idle
  PROVE  /\ ph[k] = "on" /\ ~Fresh(k)
         /\ rx[k].op = "open" \/ Opened(k)
         /\ rx[k].op = "open" => toSrv[k] = <<>> /\ ~Opened(k)
         /\ \A i \in 1..Len(toSrv[k]) : toSrv[k][i].type \in {"frame", "close"}
         /\ \A i \in 1..Len(toCli[k]) : toCli[k][i].type \in {"superseded", "ack", "closed"}
<1>1. Types /\ Phase(k) /\ Handshake(k) /\ ReceiveLoop(k) /\ Reports(k)
  BY DEF Inv, Connection
<1>2. ph[k] = "on" /\ ~Fresh(k)
  BY <1>1 DEF Phase, Fresh
<1>3. rx[k].op \in RxOps /\ toSrv[k] \in Seq(ToServer) /\ toCli[k] \in Seq(ToClient)
  BY <1>1, Numbers
<1>4. rx[k].op = "open" \/ Opened(k)
  BY <1>1, <1>3 DEF ReceiveLoop, RxOps
<1>5. rx[k].op = "open" => toSrv[k] = <<>> /\ ~Opened(k)
  BY <1>1 DEF Handshake, Opening
<1>6. ASSUME NEW i \in 1..Len(toSrv[k]) PROVE toSrv[k][i].type \in {"frame", "close"}
  <2>1. toSrv[k] # <<>>
    BY <1>3
  <2>2. Opened(k)
    BY <1>4, <1>5, <2>1
  <2>3. toSrv[k][i].type # "hello"
    BY <1>1, <1>2 DEF Phase
  <2>4. toSrv[k][i].type # "open"
    BY <1>1 DEF Handshake
  <2>5. toSrv[k][i].type # "gap"
    BY <1>1, <1>2, <2>2 DEF Reports
  <2>6. toSrv[k][i] \in ToServer
    BY <1>3
  <2> QED BY <2>3, <2>4, <2>5, <2>6 DEF ToServer
<1>7. ASSUME NEW i \in 1..Len(toCli[k]) PROVE toCli[k][i].type \in {"superseded", "ack", "closed"}
  <2>1. toCli[k][i] \in ToClient
    BY <1>3
  <2>2. toCli[k][i].type \notin {"welcome", "ready"}
    BY <1>1 DEF Handshake
  <2> QED BY <2>1, <2>2 DEF ToClient
<1> QED BY <1>2, <1>4, <1>5, <1>6, <1>7

\* The parts of the invariant that such a step cannot disturb.
LEMMA BusyParts ==
  ASSUME Inv, Types', NEW k \in Conns, UNCHANGED clientVars, Growth,
         rx[k] # Idle, rx[k].op # "open", rx'[k].op # "open",
         up'[k] = up[k], toSrv'[k] = toSrv[k], ph'[k] = ph[k], Opened(k)', Passed(k)' = Passed(k),
         closed'[k] = closed[k] \/ closed'[k], buf'[k] \subseteq 0..(next - 1),
         acked'[k].seq = acked[k].seq
  PROVE  /\ ph[k] = "on" /\ Opened(k) /\ (Opened(k)' = Opened(k)) /\ ~Fresh(k)
         /\ Phase(k)' /\ InOrder(k)' /\ Reports(k)' /\ Closing(k)' /\ Resuming(k)'
<1>1. /\ ph[k] = "on" /\ Opened(k) /\ (Opened(k)' = Opened(k)) /\ ~Fresh(k)
      /\ \A i \in 1..Len(toSrv[k]) : toSrv[k][i].type \in {"frame", "close"}
  BY Busy
<1>2. next' = next /\ Elsewhere(k)
  BY DEF clientVars, sourceVars, Elsewhere
<1>3. Types /\ Connection(k) /\ acked[k].seq >= acked[k].seq
  <2>1. Types /\ Connection(k)
    BY DEF Inv
  <2> QED BY <2>1, Numbers
<1>4. Phase(k)'
  BY <1>1, <1>2, <1>3 DEF Connection, Phase
<1>5. Reports(k)'
  BY <1>1 DEF Reports
<1>6. InOrder(k)'
  BY <1>1, <1>3, FramesAside DEF Connection
<1>7. Closing(k)'
  BY <1>1, <1>2, <1>3, ClosingAside DEF Connection
<1>8. Resuming(k)'
  BY <1>1, <1>2, <1>3, ResumingAside DEF Connection
<1> QED BY <1>1, <1>4, <1>5, <1>6, <1>7, <1>8

\* A step of the receive loop that answers nothing.
LEMMA SilentBusy ==
  ASSUME Inv, Types', NEW k \in Conns, UNCHANGED clientVars, Growth,
         rx[k] # Idle, rx[k].op # "open", rx'[k].op # "open",
         up'[k] = up[k], toSrv'[k] = toSrv[k], toCli'[k] = toCli[k], ph'[k] = ph[k], Opened(k)', Passed(k)' = Passed(k),
         closed'[k] = closed[k] \/ closed'[k], buf'[k] \subseteq 0..(next - 1),
         acked'[k].seq = acked[k].seq, Tracking(k)', ReceiveLoop(k)', TickLoop(k)'
  PROVE  Connection(k)'
<1>1. /\ ph[k] = "on" /\ Opened(k) /\ (Opened(k)' = Opened(k)) /\ ~Fresh(k)
      /\ Phase(k)' /\ InOrder(k)' /\ Reports(k)' /\ Closing(k)' /\ Resuming(k)'
  BY BusyParts
<1>2. /\ \A i \in 1..Len(toSrv[k]) : toSrv[k][i].type \in {"frame", "close"}
      /\ \A i \in 1..Len(toCli[k]) : toCli[k][i].type \in {"superseded", "ack", "closed"}
  BY Busy
<1>3. Types /\ Socket(k) /\ Handshake(k) /\ Elsewhere(k)
  BY DEF Inv, Connection, Elsewhere
<1>4. Socket(k)'
  BY <1>3, SocketAside
<1>5. /\ Streaming(k)' = Streaming(k) /\ Finished' = Finished
  BY DEF Streaming, Finished, clientVars, sourceVars
<1>6. \A i \in 1..Len(toCli[k]) : toCli[k][i].type \in {"ack", "closed"} => toCli[k][i].n <= db'.seq
  <2>1. toCli[k] \in Seq(ToClient) /\ db.seq \in Int /\ db'.seq \in Int
    BY <1>3, Numbers, NumbersNext
  <2>2. \A i \in 1..Len(toCli[k]) : toCli[k][i].type \in {"ack", "closed"} => toCli[k][i].n \in Int
    BY <2>1, MessageTypes
  <2> QED BY <1>3, <2>1, <2>2 DEF Handshake, Growth
<1>7. ~Opening(k)'
  BY <1>2 DEF Opening
<1>8. Handshake(k)'
  BY <1>1, <1>2, <1>3, <1>5, <1>6, <1>7 DEF Handshake
<1> QED BY <1>1, <1>4, <1>8 DEF Connection

\* The ticker does not mind that the watermark moves on.
LEMMA TickerFollows ==
  ASSUME Inv, Types', NEW k \in Conns, Growth, tk'[k] = tk[k], Opened(k) => Opened(k)' /\ trk[k].seq <= trk'[k].seq,
         acked[k].seq <= acked'[k].seq
  PROVE  TickLoop(k)'
<1>1. Types /\ TickLoop(k)
  BY DEF Inv, Connection
<1>2. /\ tk[k].n \in Int /\ acked[k].seq \in Int /\ acked'[k].seq \in Int
      /\ Opened(k) => trk[k].seq \in Int /\ trk'[k].seq \in Int
  <2>1. Opened(k)' => trk'[k] \in Trackers
    BY DEF Types, Opened
  <2> QED BY <1>1, <2>1, Numbers, NumbersNext, TrackerTypes
<1> QED BY <1>1, <1>2 DEF TickLoop, Growth

\* What every step in the middle of a message has in common.
LEMMA BusyFacts ==
  ASSUME Inv, NEW k \in Conns, rx[k].op \notin {"idle", "open"}
  PROVE  /\ rx[k] # Idle /\ Types /\ Connection(k) /\ Opened(k) /\ rx[k] \in Receivers
         /\ trk[k] \in Trackers /\ trk[k].seq \in Int /\ trk[k].seq <= trk[k].seq /\ acked[k].seq \in Int /\ acked[k].seq <= acked[k].seq
         /\ next \in Nat /\ db.seq \in Int /\ db.seq <= db.seq
         /\ disk \in SUBSET Nat /\ buf[k] \in SUBSET Nat /\ buf[k] \subseteq 0..(next - 1)
<1>1. rx[k] # Idle /\ Types /\ Connection(k) /\ rx[k] \in Receivers
  BY SMTT(30) DEF Idle, Inv, Types
<1>2. Opened(k)
  BY <1>1, Busy
<1>3. buf[k] \subseteq 0..(next - 1)
  BY <1>1 DEF Connection, Phase
<1>4. trk[k] \in Trackers /\ trk[k].seq \in Int
  BY <1>2, Watermark
<1>5. acked[k].seq \in Int /\ next \in Nat /\ db.seq \in Int /\ disk \in SUBSET Nat /\ buf[k] \in SUBSET Nat
  BY <1>1, Numbers
<1> QED BY <1>1, <1>2, <1>3, <1>4, <1>5

\* The frame is in the file: the tracker accepts it.
LEMMA FrameWrittenKeeps ==
  ASSUME Inv, NEW k \in Conns, FrameWritten(k), UNCHANGED clientVars
  PROVE  Inv'
<1> USE DEF linkVars, dbVars
<1>1. PICK late \in SUBSET Pending(trk[k]) :
        LET r == Accept(trk[k], rx[k].n, rx[k].n, 1, late)
        IN  /\ trk' = [trk EXCEPT ![k] = r.t]
            /\ Goto(k, IF r.gaps = <<>> THEN "idle" ELSE "record", 0, r.gaps)
  BY DEF FrameWritten
<1> DEFINE n == rx[k].n
           r == Accept(trk[k], n, n, 1, late)
           step == [op |-> IF r.gaps = <<>> THEN "idle" ELSE "record", n |-> 0, todo |-> r.gaps]
<1>2. /\ rx[k].op = "write" /\ trk' = [trk EXCEPT ![k] = r.t] /\ rx' = [rx EXCEPT ![k] = step]
      /\ buf' = [buf EXCEPT ![k] = @ \cup {n}] /\ dirty' = [dirty EXCEPT ![k] = TRUE]
      /\ UNCHANGED <<up, toSrv, toCli, ph, prev, tk, closed, closedSeq, acked, registry, disk, db, gaps, crashes>>
  BY <1>1 DEF FrameWritten, WriteFrame, Goto
<1>3. /\ rx[k] # Idle /\ Types /\ Connection(k) /\ Opened(k) /\ next \in Nat /\ acked[k].seq \in Int
      /\ trk[k] \in Trackers /\ trk[k].seq \in Int /\ disk \in SUBSET Nat /\ buf[k] \in SUBSET Nat
      /\ buf[k] \subseteq 0..(next - 1)
  BY <1>2, BusyFacts
<1>4. /\ n \in 0..(next - 1) /\ n \notin Upto(trk[k]) /\ ~closed[k]
      /\ \A p \in 0..(n - 1) : p \in Upto(trk[k]) \cup dropped
  BY <1>2, <1>3 DEF Connection, ReceiveLoop
<1>5. /\ WellFormed(trk[k]) /\ Truthful(trk[k], dropped) /\ acked[k].seq <= trk[k].seq /\ acked[k].end = acked[k].seq + 1
      /\ Upto(trk[k]) \subseteq disk \cup buf[k] \cup dropped
      /\ \A p \in 0..acked[k].seq : p \in disk \cup dropped
      /\ Exact(trk[k]) \/ Lagging(k)
  BY <1>3 DEF Connection, Tracking
<1>6. /\ WellFormed(r.t) /\ Truthful(r.t, dropped) /\ Upto(r.t) = 0..n /\ r.t.seq >= trk[k].seq
      /\ Exact(r.t) /\ r.gaps \in Seq(Decisions) /\ Covered(r.gaps) \subseteq dropped
  <2>1. n \in 0..(MaxFrames - 1)
    <3>1. next <= MaxFrames /\ MaxFrames \in Nat
      BY <1>3, Numbers, UploaderAssumption
    <3> HIDE DEF n
    <3> QED BY <1>3, <1>4, <3>1
  <2>2. \A p \in 0..(n - 1) : p \in Upto(trk[k]) \/ p \in dropped
    BY <1>4
  <2>3. Exact(trk[k]) \/ (Pending(trk[k]) = {} /\ n = trk[k].seq + 1)
    BY <1>2, <1>5 DEF Lagging
  <2> HIDE DEF n
  <2> QED BY <1>4, <1>5, <2>1, <2>2, <2>3, AcceptKeeps
<1> HIDE DEF r
<1>7. r.t \in Trackers /\ r.t.seq \in Int /\ r.t # NoTracker
  <2>1. r.t \in Trackers
    BY <1>6 DEF WellFormed
  <2> QED BY <2>1, TrackerTypes DEF Trackers, NoTracker
<1>8. step \in Receivers
  BY <1>6 DEF Receivers, RxOps
<1>9. Types'
  <2>1. rx' \in [Conns -> Receivers] /\ trk' \in [Conns -> Trackers \cup {NoTracker}]
    BY <1>2, <1>3, <1>7, <1>8 DEF Types
  <2>2. n \in Nat
    BY <1>4, <1>3
  <2>3. buf' \in [Conns -> SUBSET Nat] /\ dirty' \in [Conns -> BOOLEAN]
    BY <1>2, <1>3, <2>2 DEF Types
  <2> QED BY <1>2, <1>3, <2>1, <2>3, SMTT(30) DEF Types, clientVars, sourceVars
<1>10. \A j \in Conns : j # k => Same(j)
  BY <1>2, <1>3 DEF Types, Same
<1>11. rx'[k] = step /\ trk'[k] = r.t /\ buf'[k] = buf[k] \cup {n}
  BY <1>2, <1>3 DEF Types
<1>12. /\ Growth /\ next' = next /\ dropped' = dropped /\ Finished' = Finished
  <2>1. db.seq <= db.seq /\ disk \subseteq disk
    BY <1>3, Numbers
  <2> QED BY <1>2, <1>3, <2>1, QuietGrowth
<1>13. Opened(k)'
  BY <1>7, <1>11 DEF Opened
<1>14. Passed(k)' = Passed(k)
  <2>1. Upto(trk[k]) \subseteq 0..n
    <3>1. \A m \in Pending(trk[k]) : trk[k].pend[m].last \in Int
      BY <1>3, TrackerTypes
    <3>2. n \in Nat
      BY <1>3, <1>4
    <3> HIDE DEF n
    <3>3. ASSUME NEW p \in Upto(trk[k]) PROVE p <= n
      BY <1>3, <1>4, <3>1, <3>2 DEF Upto
    <3> QED BY <3>2, <3>3 DEF Upto
  <2>2. Upto(trk'[k]) = 0..n /\ rx'[k].op # "write"
    BY <1>6, <1>11
  <2>3. Passed(k) = Upto(trk[k]) \cup 0..n
    BY <1>2 DEF Passed
  <2>4. Passed(k)' = 0..n
    BY <2>2 DEF Passed
  <2> QED BY <2>1, <2>3, <2>4
<1>15. Tracking(k)'
  <2>1. 0..n \subseteq disk' \cup buf'[k] \cup dropped'
    <3>1. 0..n \subseteq 0..(n - 1) \cup {n}
      BY <1>4
    <3> HIDE DEF n
    <3> QED BY <1>2, <1>4, <1>5, <1>11, <1>12, <3>1
  <2>2. \A p \in 0..n : p < next
    BY <1>3, <1>4
  <2>3. acked[k].seq <= r.t.seq
    BY <1>3, <1>5, <1>6, <1>7
  <2> HIDE DEF n
  <2> QED BY <1>2, <1>5, <1>6, <1>11, <1>12, <2>1, <2>2, <2>3 DEF Tracking
<1>16. ReceiveLoop(k)'
  <2>1. (closed[k] => Finished) /\ (closedSeq[k] # -2 => closedSeq[k] <= db.seq /\ Finished)
    BY <1>3 DEF Connection, ReceiveLoop
  <2>2. r.gaps = <<>> => step = Idle
    BY DEF Idle
  <2>3. step.op = (IF r.gaps = <<>> THEN "idle" ELSE "record") /\ step.todo = r.gaps
    OBVIOUS
  <2> HIDE DEF step
  <2> QED BY <1>2, <1>6, <1>11, <1>12, <1>13, <2>1, <2>2, <2>3 DEF ReceiveLoop
<1>17. TickLoop(k)'
  BY <1>2, <1>3, <1>6, <1>9, <1>11, <1>12, <1>13, TickerFollows
<1>18. buf'[k] \subseteq 0..(next - 1)
  BY <1>3, <1>4, <1>11
<1>19. rx'[k].op # "open"
  BY <1>11
<1>20. Connection(k)'
  <2> HIDE DEF n, step
  <2> QED BY <1>2, <1>3, <1>9, <1>12, <1>13, <1>14, <1>15, <1>16, <1>17, <1>18, <1>19, SilentBusy
<1> QED BY <1>2, <1>9, <1>10, <1>20, QuietStepKeeps DEF Inv, Database

\* The receive loop records a gap.
LEMMA RecordGapKeeps ==
  ASSUME Inv, NEW k \in Conns, RecordGap(k), UNCHANGED clientVars
  PROVE  Inv'
<1> USE DEF linkVars, dbVars
<1>1. /\ rx[k].op = "record" /\ rx[k].todo # <<>>
      /\ UNCHANGED <<up, toSrv, toCli, ph, prev, tk, trk, buf, dirty, closed, closedSeq, acked, registry, disk, db, crashes>>
      /\ gaps' = gaps \cup {Row(Head(rx[k].todo))}
  <2>1. rx[k].op \in RxOps
    BY Numbers DEF Inv
  <2> QED BY <2>1 DEF RecordGap, RxOps
<1>2. /\ rx[k] # Idle /\ Types /\ Connection(k) /\ Opened(k) /\ rx[k] \in Receivers /\ db.seq <= db.seq
      /\ trk[k] \in Trackers /\ trk[k].seq <= trk[k].seq /\ acked[k].seq \in Int /\ acked[k].seq <= acked[k].seq
      /\ buf[k] \subseteq 0..(next - 1)
  BY <1>1, BusyFacts
<1>3. rx[k].todo \in Seq(Decisions) /\ Covered(rx[k].todo) \subseteq dropped
  BY <1>1, <1>2 DEF Connection, ReceiveLoop
<1>4. /\ Tail(rx[k].todo) \in Seq(Decisions) /\ Head(rx[k].todo) \in Decisions
      /\ Covered(rx[k].todo) = Covered(Tail(rx[k].todo)) \cup (Head(rx[k].todo).start)..(Head(rx[k].todo).end - 1)
  BY <1>1, <1>3, CoveredTail
<1> DEFINE step == IF Tail(rx[k].todo) = <<>> THEN Idle
                   ELSE [op |-> "record", n |-> rx[k].n, todo |-> Tail(rx[k].todo)]
<1>5. rx' = [rx EXCEPT ![k] = step]
  BY <1>1 DEF RecordGap, Goto
<1>6. step \in Receivers
  <2>1. rx[k].n \in Int
    BY <1>2 DEF Receivers
  <2> QED BY <1>4, <2>1 DEF Receivers, RxOps, Idle
<1>7. Types'
  <2>1. rx' \in [Conns -> Receivers]
    BY <1>2, <1>5, <1>6 DEF Types
  <2>2. gaps' \subseteq (0..MaxFrames) \X (0..MaxFrames)
    BY <1>1, <1>2, <1>4, RowTypes DEF Types
  <2> QED BY <1>1, <1>2, <2>1, <2>2 DEF Types, clientVars, sourceVars
<1>8. \A j \in Conns : j # k => Same(j)
  BY <1>1, <1>2, <1>5 DEF Types, Same
<1>9. rx'[k] = step
  BY <1>2, <1>5 DEF Types
<1>10. /\ Growth /\ next' = next /\ dropped' = dropped /\ Finished' = Finished
  BY <1>1, <1>2, QuietGrowth
<1>11. /\ Opened(k)' /\ Passed(k)' = Passed(k) /\ rx'[k].op # "open" /\ (Lagging(k) => Lagging(k)')
  <2>1. step.op \in {"idle", "record"}
    BY DEF Idle
  <2> HIDE DEF step
  <2> QED BY <1>1, <1>2, <1>9, <2>1 DEF Opened, Passed, Lagging, IsFrame
<1>12. Tracking(k)'
  BY <1>1, <1>2, <1>7, <1>10, <1>11, TrackingAside DEF Connection
<1>13. TickLoop(k)'
  BY <1>1, <1>2, <1>7, <1>10, <1>11, TickerFollows
<1>14. ReceiveLoop(k)'
  <2>1. (closed[k] => Finished) /\ (closedSeq[k] # -2 => closedSeq[k] <= db.seq /\ Finished)
    BY <1>2 DEF Connection, ReceiveLoop
  <2>2. \/ step = Idle /\ step.op = "idle"
        \/ step.op = "record" /\ step.todo = Tail(rx[k].todo) /\ Tail(rx[k].todo) # <<>>
    BY DEF Idle
  <2>3. Covered(Tail(rx[k].todo)) \subseteq dropped
    BY <1>3, <1>4
  <2> HIDE DEF step
  <2> QED BY <1>1, <1>4, <1>9, <1>10, <1>11, <2>1, <2>2, <2>3 DEF ReceiveLoop
<1>15. Connection(k)'
  <2> HIDE DEF step
  <2> QED BY <1>1, <1>2, <1>7, <1>10, <1>11, <1>12, <1>13, <1>14, SilentBusy
<1>16. NoFalseGap'
  <2>1. \A p \in (Head(rx[k].todo).start)..(Head(rx[k].todo).end - 1) : p \in dropped
    BY <1>3, <1>4
  <2>2. Row(Head(rx[k].todo))[1] = Head(rx[k].todo).start /\ Row(Head(rx[k].todo))[2] = Head(rx[k].todo).end
    BY <1>4, RowTypes
  <2> QED BY <1>1, <1>10, <2>1, <2>2 DEF Inv, NoFalseGap
<1>17. Database'
  BY <1>1, <1>10 DEF Inv, Database
<1> QED BY <1>1, <1>2, <1>7, <1>8, <1>15, <1>16, <1>17, ServerStepKeeps

\* What is known while a source is being closed.
LEMMA ClosingFacts ==
  ASSUME Inv, NEW k \in Conns, rx[k].op \in {"sync", "ack", "persist", "epoch", "answer"}
  PROVE  /\ rx[k] # Idle /\ Types /\ Connection(k) /\ Opened(k) /\ rx[k] \in Receivers /\ db.seq \in Int /\ db.seq <= db.seq
         /\ trk[k] \in Trackers /\ trk[k].seq \in Int /\ trk[k].seq <= trk[k].seq
         /\ acked[k].seq \in Int /\ acked[k].seq <= acked[k].seq
         /\ buf[k] \subseteq 0..(next - 1) /\ disk \in SUBSET Nat /\ buf[k] \in SUBSET Nat /\ next \in Nat
         /\ Finished /\ Pending(trk[k]) = {} /\ rx[k].todo = <<>> /\ rx[k].n \in Int
         /\ acked[k].seq = next - 1 /\ trk[k].seq = next - 1 /\ acked[k].end = acked[k].seq + 1
         /\ rx[k].op \in {"epoch", "answer"} => trk[k].seq <= db.seq
         /\ ~Lagging(k)
         /\ closed[k] => Finished
         /\ closedSeq[k] # -2 => closedSeq[k] <= db.seq /\ Finished
         /\ \A p \in 0..acked[k].seq : p \in disk \cup dropped
<1>1. rx[k].op \notin {"idle", "open"}
  OBVIOUS
<1>2. /\ rx[k] # Idle /\ Types /\ Connection(k) /\ Opened(k) /\ rx[k] \in Receivers /\ db.seq \in Int /\ db.seq <= db.seq
      /\ trk[k] \in Trackers /\ trk[k].seq \in Int /\ trk[k].seq <= trk[k].seq
      /\ acked[k].seq \in Int /\ acked[k].seq <= acked[k].seq
      /\ buf[k] \subseteq 0..(next - 1) /\ disk \in SUBSET Nat /\ buf[k] \in SUBSET Nat /\ next \in Nat
  BY <1>1, BusyFacts
<1>3. /\ Finished /\ Pending(trk[k]) = {} /\ rx[k].todo = <<>>
      /\ acked[k].seq = next - 1 /\ trk[k].seq = next - 1
      /\ rx[k].op \in {"epoch", "answer"} => trk[k].seq <= db.seq
      /\ closed[k] => Finished
      /\ closedSeq[k] # -2 => closedSeq[k] <= db.seq /\ Finished
  BY <1>2 DEF Connection, ReceiveLoop
<1>4. ~Lagging(k)
  BY DEF Lagging
<1>5. acked[k].end = acked[k].seq + 1 /\ \A p \in 0..acked[k].seq : p \in disk \cup dropped
  BY <1>2 DEF Connection, Tracking
<1>6. rx[k].n \in Int
  BY <1>2, Numbers
<1> QED BY <1>2, <1>3, <1>4, <1>5, <1>6

\* A step of the closing that touches neither the tracker nor the client.
LEMMA ClosingStep ==
  ASSUME Inv, NEW k \in Conns, Types', UNCHANGED clientVars, Growth,
         rx[k].op \in {"sync", "ack", "persist", "epoch"}, rx'[k].op \in {"ack", "persist", "epoch", "answer"},
         rx'[k].todo = <<>>, rx'[k].op \in {"epoch", "answer"} => trk[k].seq <= db'.seq,
         UNCHANGED <<linkVars, ph, tk, trk, acked>>, buf[k] \subseteq buf'[k] \cup disk', buf'[k] \subseteq buf[k],
         closed'[k] = closed[k] \/ closed'[k], closedSeq'[k] \in {closedSeq[k], -2} \/ closedSeq'[k] <= db'.seq
  PROVE  Connection(k)'
<1>1. /\ rx[k] # Idle /\ rx[k].op # "open" /\ Types /\ Connection(k) /\ Opened(k) /\ db.seq \in Int
      /\ trk[k] \in Trackers /\ trk[k].seq <= trk[k].seq /\ acked[k].seq <= acked[k].seq
      /\ buf[k] \subseteq 0..(next - 1) /\ Finished /\ Pending(trk[k]) = {}
      /\ acked[k].seq = next - 1 /\ trk[k].seq = next - 1 /\ ~Lagging(k)
      /\ closedSeq[k] # -2 => closedSeq[k] <= db.seq
  BY ClosingFacts
<1>2. /\ next' = next /\ Finished' /\ Opened(k)' /\ Passed(k)' = Passed(k) /\ rx'[k].op # "open" /\ db'.seq \in Int
      /\ db.seq <= db'.seq /\ closedSeq[k] \in Int
  <2>1. next' = next /\ Finished'
    BY <1>1 DEF Growth, Finished, clientVars, sourceVars
  <2>2. Opened(k)' /\ Passed(k)' = Passed(k)
    BY <1>1 DEF Opened, Passed
  <2> QED BY <1>1, <2>1, <2>2, Numbers, NumbersNext DEF Growth
<1>3. Tracking(k)'
  BY <1>1, TrackingAside DEF Connection
<1>4. TickLoop(k)'
  BY <1>1, <1>2, TickerFollows
<1>5. ReceiveLoop(k)'
  <2>1. closedSeq'[k] # -2 => closedSeq'[k] <= db'.seq
    BY <1>1, <1>2
  <2> QED BY <1>1, <1>2, <2>1 DEF ReceiveLoop
<1> QED BY <1>1, <1>2, <1>3, <1>4, <1>5, SilentBusy DEF linkVars

\* source_close: fsync, ACK, checkpoint, end of the epoch, answer.
LEMMA CloseSyncKeeps ==
  ASSUME Inv, NEW k \in Conns, CloseSync(k), UNCHANGED clientVars
  PROVE  Inv'
<1> USE DEF linkVars, dbVars
<1> DEFINE step == [op |-> "ack", n |-> rx[k].n, todo |-> <<>>]
<1>1. /\ rx[k].op = "sync" /\ rx' = [rx EXCEPT ![k] = step] /\ disk' = disk \cup buf[k] /\ buf' = [buf EXCEPT ![k] = {}]
      /\ UNCHANGED <<up, toSrv, toCli, ph, prev, tk, trk, dirty, closed, closedSeq, acked, registry, db, gaps, crashes>>
  BY DEF CloseSync, Goto, Fsync
<1>2. Types /\ rx[k].n \in Int /\ disk \in SUBSET Nat /\ buf[k] \in SUBSET Nat /\ db.seq <= db.seq
  BY <1>1, ClosingFacts
<1>3. Types'
  <2>1. step \in Receivers
    BY <1>2 DEF Receivers, RxOps
  <2>2. rx' \in [Conns -> Receivers] /\ disk' \in SUBSET Nat /\ buf' \in [Conns -> SUBSET Nat]
    BY <1>1, <1>2, <2>1 DEF Types
  <2> QED BY <1>1, <1>2, <2>2 DEF Types, clientVars, sourceVars
<1>4. \A j \in Conns : j # k => Same(j)
  BY <1>1, <1>2 DEF Types, Same
<1>5. rx'[k] = step /\ buf'[k] = {}
  BY <1>1, <1>2 DEF Types
<1>6. Growth
  BY <1>1, <1>2, QuietGrowth
<1>7. Connection(k)'
  BY <1>1, <1>3, <1>5, <1>6, ClosingStep
<1> QED BY <1>1, <1>3, <1>4, <1>7, QuietStepKeeps DEF Inv, Database

LEMMA CloseAckKeeps ==
  ASSUME Inv, NEW k \in Conns, CloseAck(k), UNCHANGED clientVars
  PROVE  Inv'
<1> USE DEF linkVars, dbVars
<1> DEFINE step == [op |-> "persist", n |-> 0, todo |-> <<>>]
<1>1. rx[k].op = "ack"
  BY DEF CloseAck
<1>2. Types /\ db.seq <= db.seq /\ acked[k].seq = trk[k].seq /\ trk[k].seq \in Int /\ Finished
  BY <1>1, ClosingFacts
<1>3. /\ rx' = [rx EXCEPT ![k] = step] /\ closed' = [closed EXCEPT ![k] = TRUE]
      /\ UNCHANGED <<up, toSrv, toCli, ph, prev, tk, trk, buf, dirty, closedSeq, acked, registry, disk, db, gaps, crashes>>
  <2>1. ~(trk[k].seq > acked[k].seq)
    BY <1>2
  <2> QED BY <2>1 DEF CloseAck, Goto
<1>4. Types'
  <2>1. step \in Receivers
    BY DEF Receivers, RxOps
  <2>2. rx' \in [Conns -> Receivers] /\ closed' \in [Conns -> BOOLEAN]
    BY <1>2, <1>3, <2>1 DEF Types
  <2> QED BY <1>2, <1>3, <2>2, SMTT(30) DEF Types, clientVars, sourceVars
<1>5. \A j \in Conns : j # k => Same(j)
  BY <1>2, <1>3 DEF Types, Same
<1>6. rx'[k] = step /\ closed'[k]
  BY <1>2, <1>3 DEF Types
<1>7. Growth
  BY <1>2, <1>3, QuietGrowth
<1>8. Connection(k)'
  <2>1. closed'[k] = closed[k] \/ closed'[k]
    BY <1>6
  <2>2. closedSeq'[k] \in {closedSeq[k], -2} /\ UNCHANGED <<linkVars, ph, tk, trk, acked>> /\ buf'[k] = buf[k]
    BY <1>3
  <2>3. rx'[k].op = "persist" /\ rx'[k].todo = <<>>
    BY <1>6
  <2> QED BY <1>1, <1>4, <1>7, <2>1, <2>2, <2>3, ClosingStep
<1> QED BY <1>3, <1>4, <1>5, <1>8, QuietStepKeeps DEF Inv, Database

LEMMA ClosePersistKeeps ==
  ASSUME Inv, NEW k \in Conns, ClosePersist(k), UNCHANGED clientVars
  PROVE  Inv'
<1> USE DEF linkVars, dbVars
<1> DEFINE step == [op |-> "epoch", n |-> 0, todo |-> <<>>]
<1>1. /\ rx[k].op = "persist" /\ rx' = [rx EXCEPT ![k] = step] /\ Persist(acked[k].seq, acked[k].end)
      /\ UNCHANGED <<up, toSrv, toCli, ph, prev, tk, trk, buf, dirty, closed, closedSeq, acked, registry, disk, gaps, crashes>>
  BY DEF ClosePersist, Goto
<1>2. /\ Types /\ db.seq \in Int /\ acked[k].seq = trk[k].seq /\ acked[k].end = acked[k].seq + 1 /\ acked[k].seq \in Int
      /\ trk[k].seq \in Int /\ trk[k].seq = next - 1 /\ next \in Nat
      /\ \A p \in 0..acked[k].seq : p \in disk \cup dropped
  BY <1>1, ClosingFacts
<1>3. /\ db' \in Checkpoints /\ db'.closed = db.closed /\ db.seq <= db'.seq /\ acked[k].seq <= db'.seq
      /\ db.end = db.seq + 1 => db'.end = db'.seq + 1
      /\ db'.seq = db.seq \/ db'.seq = acked[k].seq
  <2>1. acked[k].seq \in Nat \cup {-1} /\ db \in Checkpoints
    BY <1>2, Numbers
  <2> QED BY <1>1, <1>2, <2>1, PersistKeeps
<1>4. Types'
  <2>1. step \in Receivers
    BY DEF Receivers, RxOps
  <2>2. rx' \in [Conns -> Receivers]
    BY <1>1, <1>2, <2>1 DEF Types
  <2> QED BY <1>1, <1>2, <1>3, <2>2, SMTT(30) DEF Types, clientVars, sourceVars
<1>5. \A j \in Conns : j # k => Same(j)
  BY <1>1, <1>2 DEF Types, Same
<1>6. rx'[k] = step
  BY <1>1, <1>2 DEF Types
<1>7. Growth /\ next' = next /\ dropped' = dropped /\ Finished' = Finished
  BY <1>1, <1>2, <1>3, QuietGrowth
<1>8. Connection(k)'
  BY <1>1, <1>2, <1>3, <1>4, <1>6, <1>7, ClosingStep
<1>9. Database'
  <2>1. \A p \in 0..db'.seq : p \in disk \cup dropped
    BY <1>2, <1>3 DEF Inv, Database
  <2>2. db'.seq < next
    BY <1>2, <1>3 DEF Inv, Database
  <2> QED BY <1>1, <1>3, <1>7, <2>1, <2>2 DEF Inv, Database
<1>10. NoFalseGap'
  BY <1>1, <1>7 DEF Inv, NoFalseGap
<1> QED BY <1>1, <1>3, <1>4, <1>5, <1>8, <1>9, <1>10, ServerStepKeeps

LEMMA CloseEpochKeeps ==
  ASSUME Inv, NEW k \in Conns, CloseEpoch(k), UNCHANGED clientVars
  PROVE  Inv'
<1> USE DEF linkVars, dbVars
<1> DEFINE step == [op |-> "answer", n |-> 0, todo |-> <<>>]
<1>1. /\ rx[k].op = "epoch" /\ rx' = [rx EXCEPT ![k] = step] /\ db' = [db EXCEPT !.closed = TRUE]
      /\ closedSeq' = [closedSeq EXCEPT ![k] = trk[k].seq]
      /\ UNCHANGED <<up, toSrv, toCli, ph, prev, tk, trk, buf, dirty, closed, acked, registry, disk, gaps, crashes>>
  BY DEF CloseEpoch, Goto
<1>2. /\ Types /\ db.seq \in Int /\ trk[k].seq \in Int /\ trk[k].seq <= db.seq /\ Finished /\ db \in Checkpoints
  BY <1>1, ClosingFacts DEF Types
<1>3. /\ db' \in Checkpoints /\ db'.closed = TRUE /\ db'.seq = db.seq /\ db'.end = db.end
  BY <1>1, <1>2 DEF Checkpoints
<1>4. Types'
  <2>1. step \in Receivers
    BY DEF Receivers, RxOps
  <2>2. rx' \in [Conns -> Receivers] /\ closedSeq' \in [Conns -> Int]
    BY <1>1, <1>2, <2>1 DEF Types
  <2> QED BY <1>1, <1>2, <1>3, <2>2, SMTT(30) DEF Types, clientVars, sourceVars
<1>5. \A j \in Conns : j # k => Same(j)
  BY <1>1, <1>2 DEF Types, Same
<1>6. rx'[k] = step /\ closedSeq'[k] = trk[k].seq
  BY <1>1, <1>2 DEF Types
<1>7. /\ Growth /\ next' = next /\ dropped' = dropped /\ Finished' = Finished /\ db.seq <= db'.seq
  <2>1. db.seq <= db'.seq /\ (db.closed => db'.closed)
    BY <1>2, <1>3
  <2>2. disk \subseteq disk'
    BY <1>1
  <2> QED BY <1>2, <2>1, <2>2, QuietGrowth
<1>8. Connection(k)'
  BY <1>1, <1>2, <1>3, <1>4, <1>6, <1>7, ClosingStep
<1>9. Database'
  BY <1>1, <1>2, <1>3, <1>7 DEF Inv, Database
<1>10. NoFalseGap'
  BY <1>1, <1>7 DEF Inv, NoFalseGap
<1> QED BY <1>1, <1>3, <1>4, <1>5, <1>7, <1>8, <1>9, <1>10, ServerStepKeeps

LEMMA CloseAnswerKeeps ==
  ASSUME Inv, NEW k \in Conns, CloseAnswer(k), UNCHANGED clientVars
  PROVE  Inv'
<1> USE DEF linkVars, dbVars
<1> DEFINE answer == [type |-> "closed", n |-> trk[k].seq]
<1>1. /\ rx[k].op = "answer" /\ rx' = [rx EXCEPT ![k] = Idle] /\ disk' = disk \cup buf[k] /\ buf' = [buf EXCEPT ![k] = {}]
      /\ toCli' = IF up[k] THEN [toCli EXCEPT ![k] = @ \o <<answer>>] ELSE toCli
      /\ UNCHANGED <<up, toSrv, ph, prev, tk, trk, dirty, closed, closedSeq, acked, registry, db, gaps, crashes>>
  <2>1. <<answer>> # <<>>
    OBVIOUS
  <2> QED BY <2>1 DEF CloseAnswer, Fsync, Reply, Queued
<1>2. /\ rx[k] # Idle /\ Types /\ Connection(k) /\ Opened(k) /\ db.seq \in Int /\ db.seq <= db.seq
      /\ trk[k] \in Trackers /\ trk[k].seq \in Int /\ trk[k].seq <= trk[k].seq
      /\ acked[k].seq \in Int /\ acked[k].seq <= acked[k].seq /\ acked[k].seq = trk[k].seq
      /\ disk \in SUBSET Nat /\ buf[k] \in SUBSET Nat /\ trk[k].seq <= db.seq /\ Finished /\ ~Lagging(k)
      /\ closedSeq[k] # -2 => closedSeq[k] <= db.seq
  BY <1>1, ClosingFacts
<1>3. answer \in ToClient /\ answer.type = "closed" /\ answer.n = trk[k].seq
  BY <1>2 DEF ToClient
<1> HIDE DEF answer
<1>4. Types'
  <2>1. Idle \in Receivers
    BY DEF Receivers, RxOps, Idle
  <2>2. rx' \in [Conns -> Receivers] /\ disk' \in SUBSET Nat /\ buf' \in [Conns -> SUBSET Nat]
    BY <1>1, <1>2, <2>1 DEF Types
  <2>3. toCli' \in [Conns -> Seq(ToClient)]
    <3>1. toCli[k] \in Seq(ToClient)
      BY <1>2, Numbers
    <3>2. toCli[k] \o <<answer>> \in Seq(ToClient)
      BY <1>3, <3>1, Appended
    <3> QED BY <1>1, <1>2, <3>2 DEF Types
  <2> QED BY <1>1, <1>2, <2>2, <2>3, SMTT(30) DEF Types, clientVars, sourceVars
<1>5. \A j \in Conns : j # k => Same(j)
  BY <1>1, <1>2 DEF Types, Same
<1>6. rx'[k] = Idle /\ buf'[k] = {} /\ toCli'[k] = IF up[k] THEN toCli[k] \o <<answer>> ELSE toCli[k]
  BY <1>1, <1>2 DEF Types
<1>7. /\ Growth /\ next' = next /\ Finished' = Finished
  BY <1>1, <1>2, QuietGrowth
<1>8. /\ Opened(k)' /\ Passed(k)' = Passed(k) /\ rx'[k].op # "open" /\ (Opened(k)' = Opened(k))
  BY <1>1, <1>2, <1>6 DEF Opened, Passed, Idle
<1>9. /\ ph[k] = "on" /\ ~Fresh(k) /\ Phase(k)' /\ InOrder(k)' /\ Reports(k)' /\ Closing(k)' /\ Resuming(k)'
  BY <1>1, <1>2, <1>4, <1>6, <1>7, <1>8, BusyParts
<1>10. Socket(k)' /\ Handshake(k)'
  BY <1>1, <1>2, <1>3, <1>4, <1>6, <1>7, <1>8, <1>9, AnswerKeeps
<1>11. Tracking(k)'
  BY <1>1, <1>2, <1>4, <1>6, <1>7, TrackingAside DEF Connection
<1>12. TickLoop(k)'
  BY <1>1, <1>2, <1>4, <1>7, <1>8, TickerFollows
<1>13. ReceiveLoop(k)'
  BY <1>1, <1>2, <1>6, <1>7 DEF ReceiveLoop, Idle
<1>14. Connection(k)'
  BY <1>9, <1>10, <1>11, <1>12, <1>13 DEF Connection
<1> QED BY <1>1, <1>4, <1>5, <1>14, QuietStepKeeps DEF Inv, Database

\* Steps that this client never causes: it sends no frame twice on a connection
\* and closes a source only when everything is acknowledged.
LEMMA NeverNeeded ==
  ASSUME Inv, NEW k \in Conns
  PROVE  ~LateFrameWritten(k) /\ ~NarrowGap(k) /\ ~MissingAtClose(k) /\ ~CloseCheckpoint(k)
<1>1. rx[k].op \in RxOps
  BY Numbers DEF Inv
<1> QED BY <1>1 DEF RxOps, LateFrameWritten, NarrowGap, MissingAtClose, CloseCheckpoint

-----------------------------------------------------------------------------
(* The end of a connection. *)

\* The parts of the invariant that the end of a connection cannot disturb.
LEMMA EndingParts ==
  ASSUME Inv, Types', NEW k \in Conns, UNCHANGED clientVars, Growth,
         ph[k] \in {"on", "closing", "leaving"}, ph'[k] \in {"closing", "leaving", "done"}, ~up[k], rx[k] = Idle,
         up'[k] = up[k], toCli'[k] = toCli[k], toSrv'[k] = <<>>, rx'[k] = Idle, tk'[k] = Rest,
         Opened(k)' => Opened(k) /\ acked'[k].seq = acked[k].seq /\ (Fresh(k) => Fresh(k)'),
         closedSeq'[k] \in {closedSeq[k], -2}
  PROVE  /\ Socket(k)' /\ Handshake(k)' /\ TickLoop(k)'
         /\ InOrder(k)' /\ Reports(k)' /\ Closing(k)' /\ Resuming(k)'
<1>1. Types /\ Socket(k) /\ Handshake(k) /\ Resuming(k)
  BY DEF Inv, Connection
<1>2. /\ ws' = ws /\ live' = live /\ connected' = connected /\ Streaming(k)' = Streaming(k) /\ Finished' = Finished
      /\ lo' = lo /\ dropped' = dropped
  BY DEF clientVars, sourceVars, Streaming, Finished
<1>3. Len(toSrv'[k]) = 0
  OBVIOUS
<1>4. Socket(k)'
  BY <1>1, <1>2 DEF Socket
<1>5. ~Opening(k)'
  BY <1>3 DEF Opening, Idle
<1>6. /\ toCli[k] \in Seq(ToClient) /\ db.seq \in Int /\ db'.seq \in Int
      /\ \A i \in 1..Len(toCli[k]) : toCli[k][i].type \in {"ready", "ack", "closed"} => toCli[k][i].n \in Int
  <2>1. toCli[k] \in Seq(ToClient) /\ db.seq \in Int /\ db'.seq \in Int
    BY <1>1, Numbers, NumbersNext
  <2> QED BY <2>1, MessageTypes
<1>7. Handshake(k)'
  BY <1>1, <1>2, <1>3, <1>5, <1>6 DEF Handshake, Growth, Idle
<1>8. TickLoop(k)'
  BY DEF TickLoop, Rest
<1>9. InOrder(k)' /\ Reports(k)' /\ Closing(k)'
  BY <1>3 DEF InOrder, Reports, Closing
<1>10. Resuming(k)'
  BY <1>1, <1>2 DEF Resuming, Idle
<1> QED BY <1>4, <1>7, <1>8, <1>9, <1>10

\* The handler leaves its receive loop.
LEMMA DisconnectKeeps ==
  ASSUME Inv, NEW k \in Conns, Disconnect(k), UNCHANGED clientVars
  PROVE  Inv'
<1> USE DEF linkVars, dbVars
<1>1. /\ ph[k] = "on" /\ ~up[k] /\ rx[k] = Idle
      /\ ph' = [ph EXCEPT ![k] = "closing"] /\ tk' = [tk EXCEPT ![k] = Rest] /\ toSrv' = [toSrv EXCEPT ![k] = <<>>]
      /\ UNCHANGED <<up, toCli, prev, rx, trk, buf, dirty, closed, closedSeq, acked, registry, disk, db, crashes>>
      /\ gaps' = gaps \/ (tk[k].todo # <<>> /\ gaps' = gaps \cup {Row(Head(tk[k].todo))})
  BY DEF Disconnect
<1>2. Types /\ Connection(k) /\ tk[k].todo \in Seq(Decisions) /\ db.seq <= db.seq /\ acked[k].seq <= acked[k].seq
  <2>1. Types /\ Connection(k)
    BY DEF Inv
  <2> QED BY <2>1, Numbers
<1>3. tk[k].todo # <<>> =>
        /\ Head(tk[k].todo) \in Decisions
        /\ \A p \in (Head(tk[k].todo).start)..(Head(tk[k].todo).end - 1) : p \in dropped
  <2> SUFFICES ASSUME tk[k].todo # <<>>
               PROVE  /\ Head(tk[k].todo) \in Decisions
                      /\ \A p \in (Head(tk[k].todo).start)..(Head(tk[k].todo).end - 1) : p \in dropped
    OBVIOUS
  <2>1. tk[k].op = "record"
    <3>1. tk[k].op \in {"idle", "record", "sync", "synced", "checkpoint"}
      BY <1>2, Numbers
    <3> QED BY <3>1, <1>2 DEF Connection, TickLoop, Rest
  <2>2. Covered(tk[k].todo) \subseteq dropped
    BY <1>2, <2>1 DEF Connection, TickLoop
  <2> QED BY <1>2, <2>2, CoveredTail
<1>4. Types'
  <2>1. Rest \in Tickers
    BY DEF Tickers, Rest
  <2>2. /\ ph' \in [Conns -> {"off", "joining", "on", "closing", "leaving", "done"}]
        /\ tk' \in [Conns -> Tickers]
    BY <1>1, <1>2, <2>1 DEF Types
  <2>3. toSrv' \in [Conns -> Seq(ToServer)]
    <3>1. <<>> \in Seq(ToServer)
      OBVIOUS
    <3> QED BY <1>1, <1>2, <3>1 DEF Types
  <2>4. gaps' \subseteq (0..MaxFrames) \X (0..MaxFrames)
    BY <1>1, <1>2, <1>3, RowTypes DEF Types
  <2> QED BY <1>1, <1>2, <2>2, <2>3, <2>4, SMTT(30) DEF Types, clientVars, sourceVars
<1>5. \A j \in Conns : j # k => Same(j)
  BY <1>1, <1>2 DEF Types, Same
<1>6. ph'[k] = "closing" /\ tk'[k] = Rest /\ toSrv'[k] = <<>>
  BY <1>1, <1>2 DEF Types
<1>7. Growth /\ next' = next /\ dropped' = dropped /\ Finished' = Finished
  BY <1>1, <1>2, QuietGrowth
<1>8. Opened(k)' = Opened(k) /\ (Fresh(k) => Fresh(k)') /\ (Lagging(k) => Lagging(k)')
  BY <1>1, <1>6 DEF Opened, Fresh, Lagging, Idle
<1>9. /\ Socket(k)' /\ Handshake(k)' /\ TickLoop(k)' /\ InOrder(k)' /\ Reports(k)' /\ Closing(k)' /\ Resuming(k)'
  BY <1>1, <1>4, <1>6, <1>7, <1>8, EndingParts
<1>10. Phase(k)'
  BY <1>1, <1>2, <1>6, <1>7, <1>8 DEF Connection, Phase
<1>11. Tracking(k)' /\ ReceiveLoop(k)'
  BY <1>1, <1>2, <1>4, <1>7, <1>8, TrackingAside, ReceiverAside DEF Connection
<1>12. Connection(k)'
  BY <1>9, <1>10, <1>11 DEF Connection
<1>13. Database'
  <2>1. registry' # 0 => ph'[registry'] # "off"
    BY <1>1, <1>2 DEF Inv, Database, Types, Conns
  <2> QED BY <1>1, <1>7, <2>1 DEF Inv, Database
<1>14. NoFalseGap'
  BY <1>1, <1>3, <1>7, RowTypes DEF Inv, NoFalseGap
<1> QED BY <1>1, <1>2, <1>4, <1>5, <1>12, <1>13, <1>14, ServerStepKeeps

\* The writer is closed.
LEMMA CloseWriterKeeps ==
  ASSUME Inv, NEW k \in Conns, CloseWriter(k), UNCHANGED clientVars
  PROVE  Inv'
<1> USE DEF linkVars, dbVars
<1>1. /\ ph[k] = "closing" /\ ph' = [ph EXCEPT ![k] = "leaving"] /\ disk' = disk \cup buf[k] /\ buf' = [buf EXCEPT ![k] = {}]
      /\ UNCHANGED <<up, toSrv, toCli, prev, rx, tk, trk, dirty, closed, closedSeq, acked, registry, db, gaps, crashes>>
  BY DEF CloseWriter, Fsync
<1>2. /\ Types /\ Connection(k) /\ db.seq <= db.seq /\ disk \in SUBSET Nat /\ buf[k] \in SUBSET Nat /\ acked[k].seq <= acked[k].seq
      /\ ~up[k] /\ rx[k] = Idle /\ tk[k] = Rest /\ toSrv[k] = <<>>
  <2>1. Types /\ Connection(k)
    BY DEF Inv
  <2> QED BY <1>1, <2>1, Numbers DEF Connection, Phase
<1>3. Types'
  <2>1. /\ ph' \in [Conns -> {"off", "joining", "on", "closing", "leaving", "done"}]
        /\ disk' \in SUBSET Nat /\ buf' \in [Conns -> SUBSET Nat]
    BY <1>1, <1>2 DEF Types
  <2> QED BY <1>1, <1>2, <2>1 DEF Types, clientVars, sourceVars
<1>4. \A j \in Conns : j # k => Same(j)
  BY <1>1, <1>2 DEF Types, Same
<1>5. ph'[k] = "leaving" /\ buf'[k] = {}
  BY <1>1, <1>2 DEF Types
<1>6. Growth /\ next' = next /\ dropped' = dropped /\ Finished' = Finished
  BY <1>1, <1>2, QuietGrowth
<1>7. Opened(k)' = Opened(k) /\ (Fresh(k) => Fresh(k)') /\ (Lagging(k) => Lagging(k)')
  BY <1>1, <1>2 DEF Opened, Fresh, Lagging, IsFrame
<1>8. /\ Socket(k)' /\ Handshake(k)' /\ TickLoop(k)' /\ InOrder(k)' /\ Reports(k)' /\ Closing(k)' /\ Resuming(k)'
  BY <1>1, <1>2, <1>3, <1>6, <1>7, EndingParts
<1>9. Phase(k)'
  BY <1>1, <1>2, <1>5, <1>6, <1>7 DEF Connection, Phase
<1>10. Tracking(k)' /\ ReceiveLoop(k)'
  BY <1>1, <1>2, <1>3, <1>5, <1>6, <1>7, TrackingAside, ReceiverAside DEF Connection
<1>11. Connection(k)'
  BY <1>8, <1>9, <1>10 DEF Connection
<1>12. registry' # 0 => ph'[registry'] # "off"
  BY <1>1, <1>2 DEF Inv, Database, Types, Conns
<1> QED BY <1>1, <1>3, <1>4, <1>11, <1>12, QuietStepKeeps

\* The last checkpoint of the connection is written.
LEMMA LeaveKeeps ==
  ASSUME Inv, NEW k \in Conns, Leave(k), UNCHANGED clientVars
  PROVE  Inv'
<1> USE DEF linkVars, dbVars
<1> DEFINE none == [seq |-> -1, end |-> 0]
<1>1. /\ ph[k] = "leaving" /\ ph' = [ph EXCEPT ![k] = "done"] /\ trk' = [trk EXCEPT ![k] = NoTracker]
      /\ dirty' = [dirty EXCEPT ![k] = FALSE] /\ closed' = [closed EXCEPT ![k] = FALSE]
      /\ closedSeq' = [closedSeq EXCEPT ![k] = -2] /\ acked' = [acked EXCEPT ![k] = none]
      /\ registry' = IF registry = k THEN 0 ELSE registry
      /\ IF Opened(k) THEN Persist(acked[k].seq, acked[k].end) ELSE UNCHANGED db
      /\ UNCHANGED <<up, toSrv, toCli, prev, rx, tk, buf, disk, gaps, crashes>>
  BY DEF Leave
<1>2. /\ Types /\ Connection(k) /\ db \in Checkpoints /\ db.seq \in Int /\ next \in Nat
      /\ acked[k].seq \in Int /\ acked[k].seq >= -1
      /\ ~up[k] /\ rx[k] = Idle /\ tk[k] = Rest /\ toSrv[k] = <<>> /\ buf[k] \subseteq 0..(next - 1)
  <2>1. Types /\ Connection(k)
    BY DEF Inv
  <2> QED BY <1>1, <2>1, Numbers DEF Connection, Phase
<1>3. /\ db' \in Checkpoints /\ db'.closed = db.closed /\ db.seq <= db'.seq
      /\ db.end = db.seq + 1 => db'.end = db'.seq + 1
      /\ db'.seq = db.seq \/ (Opened(k) /\ db'.seq = acked[k].seq)
  <2>1. CASE Opened(k)
    <3>1. acked[k].end = acked[k].seq + 1 /\ acked[k].seq \in Nat \cup {-1}
      BY <1>2, <2>1 DEF Connection, Tracking
    <3>2. Persist(acked[k].seq, acked[k].seq + 1)
      BY <1>1, <2>1, <3>1
    <3>3. /\ db' \in Checkpoints /\ db'.closed = db.closed /\ db.seq <= db'.seq
          /\ db.end = db.seq + 1 => db'.end = db'.seq + 1
          /\ db'.seq = db.seq \/ db'.seq = acked[k].seq
      BY <1>2, <3>1, <3>2, PersistKeeps
    <3> QED BY <2>1, <3>3
  <2>2. CASE ~Opened(k)
    <3>1. db' = db
      BY <1>1, <2>2
    <3> QED BY <1>2, <3>1
  <2> QED BY <2>1, <2>2
<1>4. Types'
  <2>1. /\ ph' \in [Conns -> {"off", "joining", "on", "closing", "leaving", "done"}]
        /\ trk' \in [Conns -> Trackers \cup {NoTracker}]
        /\ dirty' \in [Conns -> BOOLEAN] /\ closed' \in [Conns -> BOOLEAN] /\ closedSeq' \in [Conns -> Int]
    BY <1>1, <1>2 DEF Types
  <2>2. acked' \in [Conns -> [seq : Nat \cup {-1}, end : Nat]]
    <3>1. none \in [seq : Nat \cup {-1}, end : Nat]
      OBVIOUS
    <3> HIDE DEF none
    <3> QED BY <1>1, <1>2, <3>1 DEF Types
  <2>3. registry' \in 0..MaxConns
    BY <1>1, <1>2, MaxConnsAssumption DEF Types
  <2> QED BY <1>1, <1>2, <1>3, <2>1, <2>2, <2>3, SMTT(30) DEF Types, clientVars, sourceVars
<1>5. \A j \in Conns : j # k => Same(j)
  BY <1>1, <1>2 DEF Types, Same
<1>6. /\ ph'[k] = "done" /\ trk'[k] = NoTracker /\ dirty'[k] = FALSE /\ closed'[k] = FALSE /\ closedSeq'[k] = -2
      /\ acked'[k] = none
  BY <1>1, <1>2 DEF Types
<1>7. Growth /\ next' = next /\ dropped' = dropped /\ Finished' = Finished
  BY <1>1, <1>2, <1>3, QuietGrowth
<1>8. ~Opened(k)'
  BY <1>6 DEF Opened
<1>9. /\ Socket(k)' /\ Handshake(k)' /\ TickLoop(k)' /\ InOrder(k)' /\ Reports(k)' /\ Closing(k)' /\ Resuming(k)'
  BY <1>1, <1>2, <1>4, <1>6, <1>7, <1>8, EndingParts
<1>10. Phase(k)'
  BY <1>1, <1>2, <1>6, <1>7, <1>8 DEF Phase
<1>11. Tracking(k)' /\ ReceiveLoop(k)'
  BY <1>1, <1>2, <1>6, <1>8 DEF Tracking, ReceiveLoop, Idle
<1>12. Connection(k)'
  BY <1>9, <1>10, <1>11 DEF Connection
<1>13. Database'
  <2>1. registry' # 0 => ph'[registry'] # "off"
    BY <1>1, <1>2 DEF Inv, Database, Types, Conns
  <2>2. Opened(k) => acked[k].seq < next /\ \A p \in 0..acked[k].seq : p \in disk \cup dropped
    <3> SUFFICES ASSUME Opened(k) PROVE acked[k].seq < next /\ \A p \in 0..acked[k].seq : p \in disk \cup dropped
      OBVIOUS
    <3>1. acked[k].seq <= trk[k].seq /\ \A p \in 0..acked[k].seq : p \in disk \cup dropped
      BY <1>2 DEF Connection, Tracking
    <3>2. trk[k].seq \in Int /\ trk[k].seq <= next - 1
      BY Watermark
    <3> QED BY <1>2, <3>1, <3>2
  <2>3. db'.seq < next /\ \A p \in 0..db'.seq : p \in disk \cup dropped
    BY <1>3, <2>2 DEF Inv, Database
  <2> QED BY <1>1, <1>3, <1>7, <2>1, <2>3 DEF Inv, Database
<1>14. NoFalseGap'
  BY <1>1, <1>7 DEF Inv, NoFalseGap
<1> QED BY <1>1, <1>3, <1>4, <1>5, <1>12, <1>13, <1>14, ServerStepKeeps

-----------------------------------------------------------------------------
(* Faults. *)

\* A connection breaks and loses what is on its way.
LEMMA DropKeeps ==
  ASSUME Inv, NEW k \in Conns, Drop(k), UNCHANGED clientVars
  PROVE  Inv'
<1> USE DEF linkVars, dbVars
<1>1. /\ up' = [up EXCEPT ![k] = FALSE]
      /\ UNCHANGED <<toSrv, toCli, ph, prev, rx, tk, trk, buf, dirty, closed, closedSeq, acked, registry, disk, db, gaps, crashes>>
  BY DEF Drop, serverVars, connVars
<1>2. /\ Types /\ Connection(k) /\ db.seq <= db.seq /\ acked[k].seq >= acked[k].seq
  <2>1. Types /\ Connection(k)
    BY DEF Inv
  <2> QED BY <2>1, Numbers
<1>3. Types'
  <2>1. up' \in [Conns -> BOOLEAN]
    BY <1>1, <1>2 DEF Types
  <2> QED BY <1>1, <1>2, <2>1, SMTT(30) DEF Types, clientVars, sourceVars
<1>4. \A j \in Conns : j # k => Same(j)
  BY <1>1, <1>2 DEF Types, Same
<1>5. up'[k] = FALSE
  BY <1>1, <1>2 DEF Types
<1>6. Growth /\ Elsewhere(k) /\ ws' = ws /\ live' = live /\ connected' = connected /\ next' = next /\ dropped' = dropped /\ Finished' = Finished
  BY <1>1, <1>2, QuietGrowth
<1>7. /\ Opened(k)' = Opened(k) /\ Fresh(k)' = Fresh(k) /\ (Lagging(k) => Lagging(k)') /\ Passed(k)' = Passed(k)
  BY <1>1, <1>5 DEF Opened, Fresh, Lagging, IsFrame, Passed
<1>8. Socket(k)' /\ Phase(k)'
  <2>1. Socket(k)'
    BY <1>1, <1>2, <1>5, <1>6 DEF Connection, Socket
  <2>2. Phase(k)'
    BY <1>1, <1>2, <1>5, <1>6, <1>7 DEF Connection, Phase
  <2> QED BY <2>1, <2>2
<1>9. Handshake(k)'
  BY <1>1, <1>2, <1>3, <1>5, <1>6, <1>7, HandshakeAside DEF Connection
<1>10. Tracking(k)' /\ ReceiveLoop(k)' /\ TickLoop(k)'
  BY <1>1, <1>2, <1>3, <1>6, <1>7, TrackingAside, ReceiverAside, TickerAside DEF Connection
<1>11. InOrder(k)' /\ Reports(k)' /\ Closing(k)' /\ Resuming(k)'
  BY <1>1, <1>2, <1>3, <1>5, <1>6, <1>7, FramesAside, ReportsAside, ClosingAside, ResumingAside DEF Connection
<1>12. Connection(k)'
  BY <1>8, <1>9, <1>10, <1>11 DEF Connection
<1> QED BY <1>1, <1>3, <1>4, <1>12, QuietStepKeeps DEF Inv, Database

\* The process dies: what was not fsynced is lost.
LEMMA CrashServerKeeps ==
  ASSUME Inv, CrashServer, UNCHANGED clientVars
  PROVE  Inv'
<1> USE DEF linkVars, dbVars
<1> DEFINE none == [seq |-> -1, end |-> 0]
<1>1. PICK survived \in SUBSET UNION {buf[k] : k \in Conns} : disk' = disk \cup survived
  BY DEF CrashServer
<1>2. /\ up'       = [k \in Conns |-> FALSE]
      /\ toSrv'    = [k \in Conns |-> <<>>]
      /\ ph'       = [k \in Conns |-> IF ph[k] = "off" /\ ~up[k] THEN "off" ELSE "done"]
      /\ prev'     = [k \in Conns |-> 0]
      /\ rx'       = [k \in Conns |-> Idle]
      /\ tk'       = [k \in Conns |-> Rest]
      /\ trk'      = [k \in Conns |-> NoTracker]
      /\ buf'      = [k \in Conns |-> {}]
      /\ dirty'    = [k \in Conns |-> FALSE]
      /\ closed'   = [k \in Conns |-> FALSE]
      /\ closedSeq' = [k \in Conns |-> -2]
      /\ acked'    = [k \in Conns |-> none]
      /\ registry' = 0 /\ crashes' = crashes + 1
      /\ UNCHANGED <<toCli, db, gaps>>
  BY DEF CrashServer
<1>3. Types /\ next \in Nat /\ db.seq \in Int /\ db.seq <= db.seq
  <2>1. Types
    BY DEF Inv
  <2>2. next \in Nat /\ db.seq \in Int
    BY <2>1, UploaderAssumption DEF Types, Checkpoints
  <2> QED BY <2>1, <2>2
<1>4. survived \subseteq 0..(next - 1) /\ survived \in SUBSET Nat
  <2>1. \A k \in Conns : buf[k] \subseteq 0..(next - 1)
    BY DEF Inv, Connection, Phase
  <2>2. survived \subseteq 0..(next - 1)
    BY <2>1
  <2> QED BY <1>3, <2>2
<1>5. Types'
  <2>1. /\ up' \in [Conns -> BOOLEAN] /\ prev' \in [Conns -> 0..MaxConns] /\ buf' \in [Conns -> SUBSET Nat]
        /\ dirty' \in [Conns -> BOOLEAN] /\ closed' \in [Conns -> BOOLEAN] /\ closedSeq' \in [Conns -> Int]
        /\ ph' \in [Conns -> {"off", "joining", "on", "closing", "leaving", "done"}]
        /\ trk' \in [Conns -> Trackers \cup {NoTracker}] /\ registry' \in 0..MaxConns
    BY <1>2, MaxConnsAssumption
  <2>2. toSrv' \in [Conns -> Seq(ToServer)]
    <3>1. <<>> \in Seq(ToServer)
      OBVIOUS
    <3> QED BY <1>2, <3>1
  <2>3. rx' \in [Conns -> Receivers] /\ tk' \in [Conns -> Tickers]
    <3>1. Idle \in Receivers /\ Rest \in Tickers
      BY DEF Receivers, RxOps, Idle, Tickers, Rest
    <3> QED BY <1>2, <3>1
  <2>4. acked' \in [Conns -> [seq : Nat \cup {-1}, end : Nat]]
    <3>1. none \in [seq : Nat \cup {-1}, end : Nat]
      OBVIOUS
    <3> HIDE DEF none
    <3> QED BY <1>2, <3>1
  <2>5. disk' \in SUBSET Nat /\ crashes' \in Nat
    BY <1>1, <1>2, <1>3, <1>4 DEF Types
  <2> QED BY <1>2, <1>3, <2>1, <2>2, <2>3, <2>4, <2>5 DEF Types, clientVars, sourceVars
<1>6. /\ Growth /\ next' = next /\ lo' = lo /\ dropped' = dropped /\ Finished' = Finished /\ pendingGap' = pendingGap
      /\ ws' = ws /\ live' = live /\ connected' = connected
      /\ \A j \in Conns : Streaming(j)' = Streaming(j)
  <2>1. disk \subseteq disk'
    BY <1>1
  <2> QED BY <1>2, <1>3, <2>1, QuietGrowth
<1>7. ASSUME NEW k \in Conns PROVE Connection(k)'
  <2>1. Socket(k) /\ Phase(k) /\ Handshake(k)
    BY DEF Inv, Connection
  <2>2. /\ up'[k] = FALSE /\ toSrv'[k] = <<>> /\ rx'[k] = Idle /\ tk'[k] = Rest /\ trk'[k] = NoTracker /\ buf'[k] = {}
        /\ dirty'[k] = FALSE /\ closed'[k] = FALSE /\ closedSeq'[k] = -2 /\ acked'[k] = none
        /\ ph'[k] = IF ph[k] = "off" /\ ~up[k] THEN "off" ELSE "done"
        /\ toCli'[k] = toCli[k] /\ db' = db
    BY <1>2
  <2>3. ~Opened(k)' /\ Len(toSrv'[k]) = 0
    BY <2>2 DEF Opened
  <2>4. Socket(k)'
    <3>1. k \in Nat /\ ws \in Nat
      BY <1>3, Numbers
    <3> QED BY <3>1, <1>6, <2>1, <2>2 DEF Socket
  <2>5. Phase(k)'
    BY <2>1, <2>2, <2>3 DEF Phase
  <2>6. ~Opening(k)'
    BY <2>2, <2>3 DEF Opening, Idle
  <2>7. Handshake(k)'
    BY <1>6, <2>1, <2>2, <2>3, <2>6 DEF Handshake, Idle
  <2>8. Tracking(k)' /\ ReceiveLoop(k)' /\ TickLoop(k)'
    BY <2>2, <2>3 DEF Tracking, ReceiveLoop, TickLoop, Idle, Rest
  <2>9. InOrder(k)' /\ Reports(k)' /\ Closing(k)'
    BY <2>3 DEF InOrder, Reports, Closing
  <2>10. Resuming(k)'
    BY <2>2, <2>3 DEF Resuming, Idle
  <2> QED BY <2>4, <2>5, <2>7, <2>8, <2>9, <2>10 DEF Connection
<1>8. Client'
  <2>1. \A g : Sound(g)' = Sound(g)
    BY <1>6 DEF Sound
  <2> QED BY <1>6, <2>1 DEF Inv, Client, clientVars, sourceVars
<1>9. Database'
  <2>1. disk' \subseteq 0..(next - 1)
    BY <1>1, <1>4 DEF Inv, Database
  <2> QED BY <1>1, <1>2, <1>6, <2>1 DEF Inv, Database
<1>10. ReleasedIsSafe' /\ NoFalseGap'
  BY <1>1, <1>2, <1>6 DEF Inv, ReleasedIsSafe, NoFalseGap
<1> QED BY <1>5, <1>7, <1>8, <1>9, <1>10 DEF Inv

-----------------------------------------------------------------------------
(* The receive loop takes a message. *)

\* A step of the server is checked against the parts it can disturb.
LEMMA ServerKeeps ==
  ASSUME Inv, Types', UNCHANGED clientVars, disk \subseteq disk', db.seq <= db'.seq, db.closed => db'.closed,
         \A j \in Conns : Connection(j)', Database', NoFalseGap'
  PROVE  Inv'
<1>0. next' = next /\ lo' = lo /\ dropped' = dropped /\ Finished' = Finished /\ pendingGap' = pendingGap
  BY DEF clientVars, sourceVars, Finished
<1>3. Client'
  <2>1. \A g : Sound(g)' = Sound(g)
    BY <1>0 DEF Sound
  <2> QED BY <1>0, <2>1 DEF Inv, Client, clientVars, sourceVars
<1>4. ReleasedIsSafe'
  <2>1. \A p \in 0..(lo - 1) : p <= db.seq => p <= db'.seq
    <3>1. db.seq \in Int /\ db'.seq \in Int /\ lo \in Nat
      BY DEF Inv, Types, Checkpoints
    <3> QED BY <3>1
  <2> QED BY <1>0, <2>1 DEF Inv, ReleasedIsSafe
<1> QED BY <1>3, <1>4 DEF Inv

\* Taking the first message of a queue.
LEMMA ConsumeParts ==
  ASSUME Inv, Types', NEW k \in Conns, UNCHANGED clientVars,
         ph[k] = "on", rx[k] = Idle, toSrv[k] # <<>>, Head(toSrv[k]).type \in {"frame", "gap", "close"},
         toSrv'[k] = Tail(toSrv[k]), up'[k] = up[k], ph'[k] = ph[k],
         Opened(k)' = Opened(k), acked'[k] = acked[k], dirty'[k] = dirty[k], closed'[k] = closed[k],
         buf'[k] = buf[k], ~Opened(k) => tk'[k] = tk[k]
  PROVE  /\ Phase(k)' /\ Reports(k)' /\ Closing(k)'
         /\ \A i \in 1..Len(toSrv[k]) : toSrv[k][i].type # "open"
         /\ \A i \in 1..Len(toCli[k]) : toCli[k][i].type \in {"superseded", "ack", "closed"}
<1>1. Types /\ Phase(k) /\ Handshake(k) /\ Reports(k) /\ Closing(k) /\ toSrv[k] \in Seq(ToServer) /\ toCli[k] \in Seq(ToClient)
  <2>1. Types /\ Phase(k) /\ Handshake(k) /\ Reports(k) /\ Closing(k)
    BY DEF Inv, Connection
  <2> QED BY <2>1, Numbers
<1>2. /\ next' = next /\ Finished' = Finished /\ ws' = ws /\ live' = live /\ closeSent' = closeSent
  BY DEF clientVars, sourceVars, Finished
<1>3. /\ Len(toSrv[k]) \in Nat \ {0} /\ Len(toSrv'[k]) = Len(toSrv[k]) - 1 /\ Head(toSrv[k]) = toSrv[k][1] /\ 1 \in 1..Len(toSrv[k])
      /\ \A i \in 1..Len(toSrv'[k]) : i \in Nat /\ i + 1 \in 2..Len(toSrv[k]) /\ i + 1 \in 1..Len(toSrv[k]) /\ toSrv'[k][i] = toSrv[k][i + 1]
  BY <1>1, TailOf
<1>4. Phase(k)'
  BY <1>1, <1>2, <1>3 DEF Phase
<1>5. ASSUME NEW i \in 1..Len(toSrv'[k]) PROVE toSrv'[k][i].type # "gap"
  <2>1. i + 1 # 1
    BY <1>3
  <2> QED BY <1>1, <1>3, <2>1 DEF Reports
<1>6. Reports(k)'
  BY <1>5 DEF Reports
<1>7. Closing(k)'
  <2> SUFFICES ASSUME NEW i \in 1..Len(toSrv'[k]), toSrv'[k][i].type = "close"
               PROVE  /\ i = Len(toSrv'[k]) /\ Finished' /\ toSrv'[k][i].n = next' - 1
                      /\ Opened(k)' => acked'[k].seq = next' - 1
                      /\ ws' = k /\ live' => closeSent'
    BY DEF Closing
  <2>1. /\ i + 1 = Len(toSrv[k]) /\ Finished /\ toSrv[k][i + 1].n = next - 1
        /\ Opened(k) => acked[k].seq = next - 1
        /\ ws = k /\ live => closeSent
    BY <1>1, <1>3 DEF Closing
  <2>2. i = Len(toSrv'[k])
    BY <1>3, <2>1
  <2> QED BY <1>2, <1>3, <2>1, <2>2
<1>8. \A i \in 1..Len(toSrv[k]) : toSrv[k][i].type # "open"
  BY <1>1, <1>3 DEF Handshake
<1>9. ASSUME NEW i \in 1..Len(toCli[k]) PROVE toCli[k][i].type \in {"superseded", "ack", "closed"}
  <2>1. toCli[k][i] \in ToClient
    BY <1>1
  <2>2. toCli[k][i].type \notin {"welcome", "ready"}
    BY <1>1 DEF Handshake
  <2> QED BY <2>1, <2>2 DEF ToClient
<1> QED BY <1>4, <1>6, <1>7, <1>8, <1>9

\* Taking a message without an answer.
LEMMA ConsumeSilently ==
  ASSUME Inv, Types', NEW k \in Conns, UNCHANGED clientVars,
         ph[k] = "on", rx[k] = Idle, toSrv[k] # <<>>, Head(toSrv[k]).type \in {"frame", "gap", "close"},
         toSrv'[k] = Tail(toSrv[k]), up'[k] = up[k], ph'[k] = ph[k], toCli'[k] = toCli[k],
         Opened(k)' = Opened(k), acked'[k] = acked[k], dirty'[k] = dirty[k], closed'[k] = closed[k],
         buf'[k] = buf[k], closedSeq'[k] = closedSeq[k], db' = db, rx'[k].op # "open", ~Opened(k) => tk'[k] = tk[k]
  PROVE  Socket(k)' /\ Handshake(k)' /\ Phase(k)' /\ Reports(k)' /\ Closing(k)'
<1>1. /\ Phase(k)' /\ Reports(k)' /\ Closing(k)'
      /\ \A i \in 1..Len(toSrv[k]) : toSrv[k][i].type # "open"
      /\ \A i \in 1..Len(toCli[k]) : toCli[k][i].type \in {"superseded", "ack", "closed"}
  BY ConsumeParts
<1>2. Socket(k) /\ Handshake(k) /\ toSrv[k] \in Seq(ToServer)
  <2>1. Types /\ Socket(k) /\ Handshake(k)
    BY DEF Inv, Connection
  <2> QED BY <2>1, Numbers
<1>3. /\ ws' = ws /\ live' = live /\ connected' = connected /\ Streaming(k)' = Streaming(k) /\ Finished' = Finished
  BY DEF clientVars, sourceVars, Streaming, Finished
<1>4. \A i \in 1..Len(toSrv'[k]) : i + 1 \in 1..Len(toSrv[k]) /\ toSrv'[k][i] = toSrv[k][i + 1]
  BY <1>2, TailOf
<1>5. Socket(k)'
  BY <1>2, <1>3 DEF Socket
<1>6. ~Opening(k)' /\ \A i \in 1..Len(toSrv'[k]) : toSrv'[k][i].type # "open"
  BY <1>1, <1>4 DEF Opening
<1>7. Handshake(k)'
  BY <1>1, <1>2, <1>3, <1>6 DEF Handshake
<1> QED BY <1>1, <1>5, <1>7

\* A frame leaves the queue, or something else does while no frame is waiting to
\* be written: what was received or was on its way still is.
LEMMA FramesConsumed ==
  ASSUME Inv, Types', NEW k \in Conns, UNCHANGED clientVars,
         toSrv[k] # <<>>, toSrv'[k] = Tail(toSrv[k]), Opened(k)' = Opened(k), closed'[k] = closed[k],
         up'[k] = up[k], acked'[k] = acked[k], rx'[k].op # "open",
         Opened(k) /\ ~closed[k] =>
           /\ Passed(k) \subseteq Passed(k)'
           /\ toSrv[k][1].type = "frame" => toSrv[k][1].n \in Passed(k)'
           /\ \A j \in 2..Len(toSrv[k]) : toSrv[k][j].type = "frame" => toSrv[k][j].n \notin Passed(k)'
  PROVE  InOrder(k)' /\ Resuming(k)'
<1>1. Types /\ InOrder(k) /\ Resuming(k) /\ toSrv[k] \in Seq(ToServer)
  <2>1. Types /\ InOrder(k) /\ Resuming(k)
    BY DEF Inv, Connection
  <2> QED BY <2>1, Numbers
<1>2. next' = next /\ lo' = lo /\ dropped' = dropped /\ ws' = ws /\ Streaming(k)' = Streaming(k) /\ next \in Nat
  <2>1. next \in Nat
    BY <1>1, Numbers
  <2> QED BY <2>1 DEF clientVars, sourceVars, Streaming
<1>3. /\ Len(toSrv[k]) \in Nat \ {0} /\ Len(toSrv'[k]) = Len(toSrv[k]) - 1 /\ 1 \in 1..Len(toSrv[k])
      /\ \A i \in 1..Len(toSrv'[k]) : i \in Nat /\ i + 1 \in 2..Len(toSrv[k]) /\ i + 1 \in 1..Len(toSrv[k]) /\ toSrv'[k][i] = toSrv[k][i + 1]
  BY <1>1, TailOf
<1>4. ASSUME NEW p \in Nat, NEW j \in 1..(Len(toSrv[k]) + 1), Opened(k), ~closed[k],
             p \in Passed(k) \cup dropped \/ \E i \in 1..(j - 1) : IsFrame(k, i, p)
      PROVE  p \in Passed(k)' \cup dropped' \/ \E i \in 1..(j - 2) : IsFrame(k, i, p)'
  <2>1. CASE p \in Passed(k) \cup dropped
    BY <2>1, <1>2, <1>4
  <2>2. CASE \E i \in 1..(j - 1) : IsFrame(k, i, p)
    <3>1. PICK i \in 1..(j - 1) : IsFrame(k, i, p)
      BY <2>2
    <3>2. CASE i = 1
      BY <3>1, <3>2, <1>4 DEF IsFrame
    <3>3. CASE i # 1
      <4>1. i - 1 \in 1..(j - 2) /\ i - 1 \in 1..Len(toSrv'[k]) /\ (i - 1) + 1 = i
        BY <1>3, <3>1, <3>3
      <4>2. toSrv'[k][i - 1] = toSrv[k][i]
        BY <1>3, <4>1
      <4>3. IsFrame(k, i - 1, p)'
        BY <3>1, <4>2 DEF IsFrame
      <4> QED BY <4>1, <4>3
    <3> QED BY <3>2, <3>3
  <2> QED BY <1>4, <2>1, <2>2
<1>5. InOrder(k)'
  <2>1. ASSUME NEW i \in 1..Len(toSrv'[k]), NEW j \in 1..Len(toSrv'[k]), i < j,
               toSrv'[k][i].type = "frame", toSrv'[k][j].type = "frame"
        PROVE  toSrv'[k][i].n < toSrv'[k][j].n
    <3>1. i + 1 \in 1..Len(toSrv[k]) /\ j + 1 \in 1..Len(toSrv[k]) /\ i + 1 < j + 1
          /\ toSrv'[k][i] = toSrv[k][i + 1] /\ toSrv'[k][j] = toSrv[k][j + 1]
      BY <1>3, <2>1
    <3> QED BY <1>1, <2>1, <3>1 DEF InOrder
  <2>2. ASSUME NEW j \in 1..Len(toSrv'[k]), toSrv'[k][j].type = "frame"
        PROVE  /\ toSrv'[k][j].n \in 0..(next' - 1)
               /\ Opened(k)' /\ ~closed'[k] =>
                    /\ toSrv'[k][j].n \notin Passed(k)'
                    /\ \A p \in 0..(toSrv'[k][j].n - 1) :
                         p \in Passed(k)' \cup dropped' \/ \E i \in 1..(j - 1) : IsFrame(k, i, p)'
    <3>1. j + 1 \in 1..Len(toSrv[k]) /\ j + 1 \in 2..Len(toSrv[k]) /\ toSrv'[k][j] = toSrv[k][j + 1]
      BY <1>3, <2>2
    <3>2. toSrv[k][j + 1].n \in 0..(next - 1)
      BY <1>1, <2>2, <3>1 DEF InOrder
    <3>3. ASSUME Opened(k), ~closed[k]
          PROVE  /\ toSrv[k][j + 1].n \notin Passed(k)'
                 /\ \A p \in 0..(toSrv[k][j + 1].n - 1) :
                      p \in Passed(k)' \cup dropped' \/ \E i \in 1..(j - 1) : IsFrame(k, i, p)'
      <4>1. \A p \in 0..(toSrv[k][j + 1].n - 1) :
              p \in Passed(k) \cup dropped \/ \E i \in 1..((j + 1) - 1) : IsFrame(k, i, p)
        BY <1>1, <2>2, <3>1, <3>3 DEF InOrder
      <4>2. toSrv[k][j + 1].n \notin Passed(k)'
        BY <2>2, <3>1, <3>3
      <4>3. ASSUME NEW p \in 0..(toSrv[k][j + 1].n - 1)
            PROVE  p \in Passed(k)' \cup dropped' \/ \E i \in 1..(j - 1) : IsFrame(k, i, p)'
        <5>1. p \in Nat /\ j + 1 \in 1..(Len(toSrv[k]) + 1) /\ (j + 1) - 2 = j - 1
          BY <1>3, <3>1, <3>2
        <5>2. p \in Passed(k) \cup dropped \/ \E i \in 1..((j + 1) - 1) : IsFrame(k, i, p)
          BY <4>1
        <5>3. p \in Passed(k)' \cup dropped' \/ \E i \in 1..((j + 1) - 2) : IsFrame(k, i, p)'
          BY <1>4, <3>3, <5>1, <5>2
        <5> QED BY <5>1, <5>3
      <4> QED BY <4>2, <4>3
    <3> QED BY <1>2, <3>1, <3>2, <3>3
  <2> QED BY <2>1, <2>2 DEF InOrder
<1>6. Resuming(k)'
  <2>1. ASSUME ws' = k, Streaming(k)', up'[k], Opened(k)', ~closed'[k], NEW p \in 0..(next' - 1)
        PROVE  p \in Passed(k)' \cup dropped' \/ \E i \in 1..Len(toSrv'[k]) : IsFrame(k, i, p)'
    <3>1. p \in Passed(k) \cup dropped \/ \E i \in 1..Len(toSrv[k]) : IsFrame(k, i, p)
      BY <1>1, <1>2, <2>1 DEF Resuming
    <3>2. /\ Len(toSrv[k]) + 1 \in 1..(Len(toSrv[k]) + 1) /\ (Len(toSrv[k]) + 1) - 1 = Len(toSrv[k])
          /\ (Len(toSrv[k]) + 1) - 2 = Len(toSrv'[k]) /\ p \in Nat
      BY <1>2, <1>3
    <3>3. p \in Passed(k)' \cup dropped' \/ \E i \in 1..((Len(toSrv[k]) + 1) - 2) : IsFrame(k, i, p)'
      BY <1>4, <2>1, <3>1, <3>2
    <3> QED BY <3>2, <3>3
  <2>2. ws' = k /\ Opened(k)' => \A p \in 0..(lo' - 1) : p \in dropped' \/ p <= acked'[k].seq
    BY <1>1, <1>2 DEF Resuming
  <2> QED BY <2>1, <2>2 DEF Resuming
<1> QED BY <1>5, <1>6

\* A frame arrives.
LEMMA FrameKeeps ==
  ASSUME Inv, NEW k \in Conns, Frame(k), UNCHANGED clientVars
  PROVE  Inv'
<1> USE DEF linkVars, dbVars
<1> DEFINE n == Head(toSrv[k]).n
           write == [op |-> "write", n |-> n, todo |-> <<>>]
<1>1. /\ ph[k] = "on" /\ rx[k] = Idle /\ toSrv[k] # <<>> /\ Head(toSrv[k]).type = "frame"
      /\ toSrv' = [toSrv EXCEPT ![k] = Tail(@)]
      /\ UNCHANGED <<up, toCli, ph, prev, tk, trk, buf, dirty, closed, closedSeq, acked, registry, disk, db, gaps, crashes>>
  BY DEF Frame, Receives, Consume
<1>2. /\ Types /\ Connection(k) /\ toSrv[k] \in Seq(ToServer) /\ next \in Nat /\ db.seq <= db.seq
  <2>1. Types /\ Connection(k)
    BY DEF Inv
  <2> QED BY <2>1, Numbers
<1>3. /\ Len(toSrv[k]) \in Nat \ {0} /\ Len(Tail(toSrv[k])) = Len(toSrv[k]) - 1 /\ Head(toSrv[k]) = toSrv[k][1] /\ 1 \in 1..Len(toSrv[k])
      /\ \A i \in 1..Len(Tail(toSrv[k])) : i \in Nat /\ i + 1 \in 1..Len(toSrv[k]) /\ Tail(toSrv[k])[i] = toSrv[k][i + 1]
      /\ Tail(toSrv[k]) \in Seq(ToServer) /\ n \in Int
  BY <1>1, <1>2, TailOf, MessageTypes
<1>4. Opened(k) /\ ~closed[k] => /\ n \in 0..(next - 1) /\ n \notin Upto(trk[k])
                                 /\ \A p \in 0..(n - 1) : p \in Upto(trk[k]) \cup dropped
  <2> SUFFICES ASSUME Opened(k), ~closed[k]
               PROVE  /\ n \in 0..(next - 1) /\ n \notin Upto(trk[k])
                      /\ \A p \in 0..(n - 1) : p \in Upto(trk[k]) \cup dropped
    OBVIOUS
  <2>1. Passed(k) = Upto(trk[k])
    BY <1>1 DEF Passed, Idle
  <2>2. /\ toSrv[k][1].n \in 0..(next - 1) /\ toSrv[k][1].n \notin Passed(k)
        /\ \A p \in 0..(toSrv[k][1].n - 1) : p \in Passed(k) \cup dropped \/ \E i \in 1..(1 - 1) : IsFrame(k, i, p)
    BY <1>1, <1>2, <1>3 DEF Connection, InOrder
  <2> QED BY <1>3, <2>1, <2>2
<1>5. Opened(k) /\ ~closed[k] => ~IsDuplicate(trk[k], n)
  <2> SUFFICES ASSUME Opened(k), ~closed[k] PROVE ~IsDuplicate(trk[k], n)
    OBVIOUS
  <2>1. n \in Nat /\ n \notin Upto(trk[k])
    BY <1>2, <1>4
  <2>2. n \in Pending(trk[k]) => n <= trk[k].pend[n].last
    BY Watermark DEF WellFormed
  <2> QED BY <2>1, <2>2 DEF IsDuplicate, Upto
<1>6. rx' = IF Opened(k) /\ ~closed[k] THEN [rx EXCEPT ![k] = write] ELSE rx
  BY <1>5 DEF Frame, Message, Goto
<1>7. Types'
  <2>1. toSrv' \in [Conns -> Seq(ToServer)]
    BY <1>1, <1>2, <1>3 DEF Types
  <2>2. write \in Receivers
    BY <1>3 DEF Receivers, RxOps
  <2>3. rx' \in [Conns -> Receivers]
    BY <1>2, <1>6, <2>2 DEF Types
  <2> QED BY <1>1, <1>2, <2>1, <2>3, SMTT(30) DEF Types, clientVars, sourceVars
<1>8. \A j \in Conns : j # k => Same(j)
  BY <1>1, <1>2, <1>6 DEF Types, Same
<1>9. toSrv'[k] = Tail(toSrv[k]) /\ rx'[k] = IF Opened(k) /\ ~closed[k] THEN write ELSE Idle
  BY <1>1, <1>2, <1>6 DEF Types
<1>10. /\ Growth /\ next' = next /\ dropped' = dropped /\ lo' = lo /\ ws' = ws /\ Streaming(k)' = Streaming(k) /\ Finished' = Finished
  BY <1>1, <1>2, QuietGrowth
<1>11. Opened(k)' = Opened(k) /\ rx'[k].op # "open"
  BY <1>1, <1>9 DEF Opened, Idle
<1>12. Socket(k)' /\ Handshake(k)' /\ Phase(k)' /\ Reports(k)' /\ Closing(k)'
  BY <1>1, <1>7, <1>9, <1>11, ConsumeSilently
<1>13. Tracking(k)'
  <2>1. Opened(k) /\ Lagging(k) => Lagging(k)'
    BY <1>1, <1>3, <1>9 DEF Lagging, IsFrame, Idle
  <2>2. CASE Opened(k)
    BY <2>1, <2>2, <1>1, <1>2, <1>7, <1>10, TrackingAside DEF Connection
  <2>3. CASE ~Opened(k)
    BY <2>3, <1>11 DEF Tracking
  <2> QED BY <2>2, <2>3
<1>14. TickLoop(k)'
  BY <1>1, <1>2, <1>10, TickerAside DEF Connection
<1>15. ReceiveLoop(k)'
  <2>1. (closed[k] => Finished) /\ (closedSeq[k] # -2 => closedSeq[k] <= db.seq /\ Finished)
    BY <1>2 DEF Connection, ReceiveLoop
  <2>2. CASE Opened(k) /\ ~closed[k]
    BY <1>1, <1>4, <1>9, <1>10, <1>11, <2>1, <2>2 DEF ReceiveLoop
  <2>3. CASE ~(Opened(k) /\ ~closed[k])
    BY <1>1, <1>9, <1>10, <2>1, <2>3 DEF ReceiveLoop, Idle
  <2> QED BY <2>2, <2>3
<1>16. Opened(k) /\ ~closed[k] => Passed(k) = Upto(trk[k]) /\ Passed(k)' = Upto(trk[k]) \cup 0..n
  BY <1>1, <1>9 DEF Passed, Idle
<1>17. InOrder(k)' /\ Resuming(k)'
  <2>1. Opened(k) /\ ~closed[k] =>
          /\ Passed(k) \subseteq Passed(k)'
          /\ toSrv[k][1].type = "frame" => toSrv[k][1].n \in Passed(k)'
          /\ \A j \in 2..Len(toSrv[k]) : toSrv[k][j].type = "frame" => toSrv[k][j].n \notin Passed(k)'
    <3> SUFFICES ASSUME Opened(k), ~closed[k]
                 PROVE  /\ Passed(k) \subseteq Passed(k)' /\ toSrv[k][1].n \in Passed(k)'
                        /\ \A j \in 2..Len(toSrv[k]) : toSrv[k][j].type = "frame" => toSrv[k][j].n \notin Passed(k)'
      OBVIOUS
    <3>1. n \in 0..n
      BY <1>2, <1>4
    <3>2. ASSUME NEW j \in 2..Len(toSrv[k]), toSrv[k][j].type = "frame" PROVE toSrv[k][j].n \notin Passed(k)'
      <4>1. j \in 1..Len(toSrv[k]) /\ 1 < j
        BY <1>3
      <4>2. n < toSrv[k][j].n /\ toSrv[k][j].n \notin Passed(k)
        BY <1>1, <1>2, <1>3, <3>2, <4>1 DEF Connection, InOrder
      <4> QED BY <1>3, <1>16, <4>2
    <3> QED BY <1>3, <1>16, <3>1, <3>2
  <2> QED BY <1>1, <1>7, <1>9, <1>10, <1>11, <2>1, FramesConsumed
<1>18. Connection(k)'
  BY <1>12, <1>13, <1>14, <1>15, <1>17 DEF Connection
<1> QED BY <1>1, <1>7, <1>8, <1>18, QuietStepKeeps DEF Inv, Database

\* What a report of an overflow says.
LEMMA SoundFacts ==
  ASSUME NEW g, Sound(g)
  PROVE  /\ g.from \in Nat /\ g.to \in Nat /\ g.lost \in Nat /\ g.start = g.from /\ g.from <= g.to /\ g.to < lo
         /\ g.lost <= g.to - g.from + 1
         /\ (\A p \in (g.from)..(g.to) : p \in dropped) => g.lost = g.to - g.from + 1
BY DEF Sound

\* The report of an overflow arrives: what it declares was dropped.
LEMMA GapReportKeeps ==
  ASSUME Inv, NEW k \in Conns, GapReport(k), UNCHANGED clientVars
  PROVE  Inv'
<1> USE DEF linkVars, dbVars
<1> DEFINE m == Head(toSrv[k])
<1>1. /\ ph[k] = "on" /\ rx[k] = Idle /\ toSrv[k] # <<>> /\ m.type = "gap"
      /\ toSrv' = [toSrv EXCEPT ![k] = Tail(@)]
      /\ UNCHANGED <<up, toCli, ph, prev, tk, buf, dirty, closed, closedSeq, acked, registry, disk, db, gaps, crashes>>
  BY DEF GapReport, Receives, Consume
<1>2. /\ Types /\ Connection(k) /\ toSrv[k] \in Seq(ToServer) /\ next \in Nat /\ db.seq <= db.seq /\ acked[k].seq \in Int
      /\ lo \in Nat /\ lo <= next /\ next <= MaxFrames /\ MaxFrames \in Nat
  <2>1. Types /\ Connection(k)
    BY DEF Inv
  <2> QED BY <2>1, Numbers, UploaderAssumption
<1>3. /\ Len(toSrv[k]) \in Nat \ {0} /\ Len(Tail(toSrv[k])) = Len(toSrv[k]) - 1 /\ m = toSrv[k][1] /\ 1 \in 1..Len(toSrv[k])
      /\ \A i \in 1..Len(Tail(toSrv[k])) : i \in Nat /\ i + 1 \in 1..Len(toSrv[k]) /\ Tail(toSrv[k])[i] = toSrv[k][i + 1]
      /\ Tail(toSrv[k]) \in Seq(ToServer) /\ (Tail(toSrv[k]) = <<>> <=> Len(toSrv[k]) = 1)
  BY <1>1, <1>2, TailOf
<1>4. /\ Sound(m)
      /\ \A j \in 2..Len(toSrv[k]) : toSrv[k][j].type = "frame" => m.to < toSrv[k][j].n
      /\ Opened(k) =>
           /\ Fresh(k)
           /\ \A p \in 0..(m.to) : p \in dropped \/ p <= trk[k].seq
           /\ m.to > trk[k].seq => IF Len(toSrv[k]) = 1 THEN ~up[k] ELSE IsFrame(k, 2, m.to + 1)
  BY <1>1, <1>2, <1>3 DEF Connection, Reports
<1>5. /\ m.from \in Nat /\ m.to \in Nat /\ m.lost \in Nat /\ m.start = m.from /\ m.from <= m.to /\ m.to < lo /\ m.to <= MaxFrames - 1
      /\ m.lost <= m.to - m.from + 1
      /\ (\A p \in (m.from)..(m.to) : p \in dropped) => m.lost = m.to - m.from + 1
  <2> HIDE DEF m
  <2>1. /\ m.from \in Nat /\ m.to \in Nat /\ m.lost \in Nat /\ m.start = m.from /\ m.from <= m.to /\ m.to < lo
        /\ m.lost <= m.to - m.from + 1
        /\ (\A p \in (m.from)..(m.to) : p \in dropped) => m.lost = m.to - m.from + 1
    BY <1>4, SoundFacts
  <2>2. m.to <= MaxFrames - 1
    BY <1>2, <2>1
  <2> QED BY <2>1, <2>2
<1> HIDE DEF m
<1>6. CASE ~Opened(k)
  <2>1. trk' = trk /\ rx' = rx
    BY <1>6 DEF GapReport
  <2>2. Types'
    <3>1. toSrv' \in [Conns -> Seq(ToServer)]
      BY <1>1, <1>2, <1>3 DEF Types
    <3> QED BY <1>1, <1>2, <2>1, <3>1, SMTT(30) DEF Types, clientVars, sourceVars
  <2>3. \A j \in Conns : j # k => Same(j)
    BY <1>1, <1>2, <2>1 DEF Types, Same
  <2>4. toSrv'[k] = Tail(toSrv[k])
    BY <1>1, <1>2 DEF Types
  <2>5. Growth /\ next' = next /\ dropped' = dropped /\ Finished' = Finished
    BY <1>1, <1>2, QuietGrowth
  <2>6. Opened(k)' = Opened(k) /\ rx'[k].op # "open"
    BY <1>1, <2>1 DEF Opened, Idle
  <2>7. Socket(k)' /\ Handshake(k)' /\ Phase(k)' /\ Reports(k)' /\ Closing(k)'
    BY <1>1, <2>1, <2>2, <2>4, <2>6, ConsumeSilently DEF m
  <2>8. Tracking(k)'
    BY <1>6, <2>6 DEF Tracking
  <2>9. TickLoop(k)' /\ ReceiveLoop(k)'
    BY <1>1, <1>2, <2>1, <2>2, <2>5, TickerAside, ReceiverAside DEF Connection
  <2>10. InOrder(k)' /\ Resuming(k)'
    BY <1>1, <1>6, <2>2, <2>4, <2>6, FramesConsumed
  <2>11. Connection(k)'
    BY <2>7, <2>8, <2>9, <2>10 DEF Connection
  <2> QED BY <1>1, <2>2, <2>3, <2>11, QuietStepKeeps DEF Inv, Database
<1>7. CASE Opened(k)
  <2>1. PICK late \in SUBSET Pending(trk[k]) :
          LET r == ReportLost(trk[k], m.from, m.to, m.start, m.lost, late)
          IN  /\ trk' = [trk EXCEPT ![k] = r.t]
              /\ Goto(k, IF r.gaps = <<>> THEN "idle" ELSE "record", 0, r.gaps)
    BY <1>7 DEF GapReport, Message, m
  <2> DEFINE r == ReportLost(trk[k], m.from, m.to, m.from, m.lost, late)
             step == [op |-> IF r.gaps = <<>> THEN "idle" ELSE "record", n |-> 0, todo |-> r.gaps]
  <2>2. trk' = [trk EXCEPT ![k] = r.t] /\ rx' = [rx EXCEPT ![k] = step]
    BY <1>5, <2>1 DEF Goto
  <2>3. /\ Fresh(k) /\ Pending(trk[k]) = {} /\ ~dirty[k] /\ ~closed[k] /\ tk[k] = Rest /\ trk[k].seq = acked[k].seq /\ trk[k].end = acked[k].end
        /\ \A p \in 0..(m.to) : p \in dropped \/ p <= trk[k].seq
        /\ m.to > trk[k].seq => IF Len(toSrv[k]) = 1 THEN ~up[k] ELSE IsFrame(k, 2, m.to + 1)
    BY <1>4, <1>7 DEF Fresh
  <2>4. /\ trk[k] \in Trackers /\ trk[k].seq \in Int /\ trk[k].seq >= -1 /\ WellFormed(trk[k]) /\ Truthful(trk[k], dropped)
        /\ Upto(trk[k]) \subseteq disk \cup buf[k] \cup dropped
    BY <1>7, Watermark
  <2>5. Exact(trk[k]) /\ acked[k].end = acked[k].seq + 1 /\ \A p \in 0..acked[k].seq : p \in disk \cup dropped
    BY <1>2, <1>7, <2>3 DEF Connection, Tracking, Exact
  <2>6. /\ WellFormed(r.t) /\ Truthful(r.t, dropped) /\ r.t.seq >= trk[k].seq
        /\ m.to <= trk[k].seq => r.t = trk[k] /\ r.gaps = <<>>
        /\ m.to > trk[k].seq => /\ Upto(r.t) = 0..(m.to) /\ r.gaps # <<>>
                                /\ Exact(r.t) \/ (Pending(r.t) = {} /\ r.t.seq = m.to)
        /\ r.gaps \in Seq(Decisions) /\ Covered(r.gaps) \subseteq dropped
    <3>1. \A p \in 0..(m.to) : p \in dropped \/ p <= trk[k].seq
      BY <2>3
    <3>2. LET x == ReportLost(trk[k], m.from, m.to, m.from, m.lost, late)
          IN  /\ WellFormed(x.t) /\ Truthful(x.t, dropped) /\ x.t.seq >= trk[k].seq
              /\ m.to <= trk[k].seq => x.t = trk[k] /\ x.gaps = <<>>
              /\ m.to > trk[k].seq => /\ Upto(x.t) = 0..(m.to) /\ x.gaps # <<>>
                                      /\ Exact(trk[k]) => Exact(x.t) \/ (Pending(x.t) = {} /\ x.t.seq = m.to)
              /\ x.gaps \in Seq(Decisions) /\ Covered(x.gaps) \subseteq dropped
      <4>1. Pending(trk[k]) = {} /\ WellFormed(trk[k]) /\ Truthful(trk[k], dropped)
        BY <2>3, <2>4
      <4> QED BY ONLY <1>5, <3>1, <4>1, ReportLostKeeps
    <3> QED BY <2>5, <3>2
  <2> HIDE DEF r
  <2>7. r.t \in Trackers /\ r.t.seq \in Int /\ r.t # NoTracker
    <3>1. r.t \in Trackers
      BY <2>6 DEF WellFormed
    <3> QED BY <3>1, TrackerTypes
  <2>8. Types'
    <3>1. step \in Receivers
      BY <2>6 DEF Receivers, RxOps
    <3>2. rx' \in [Conns -> Receivers] /\ trk' \in [Conns -> Trackers \cup {NoTracker}]
      BY <1>2, <2>2, <2>7, <3>1 DEF Types
    <3>3. toSrv' \in [Conns -> Seq(ToServer)]
      BY <1>1, <1>2, <1>3 DEF Types
    <3> QED BY <1>1, <1>2, <3>2, <3>3, SMTT(30) DEF Types, clientVars, sourceVars
  <2>9. \A j \in Conns : j # k => Same(j)
    BY <1>1, <1>2, <2>2 DEF Types, Same
  <2>10. toSrv'[k] = Tail(toSrv[k]) /\ trk'[k] = r.t /\ rx'[k] = step
    BY <1>1, <1>2, <2>2 DEF Types
  <2>11. Growth /\ next' = next /\ dropped' = dropped /\ Finished' = Finished
    BY <1>1, <1>2, QuietGrowth
  <2>12. Opened(k)' /\ (Opened(k)' = Opened(k)) /\ rx'[k].op # "open"
    BY <1>7, <2>7, <2>10 DEF Opened
  <2>13. Socket(k)' /\ Handshake(k)' /\ Phase(k)' /\ Reports(k)' /\ Closing(k)'
    BY <1>1, <1>7, <2>8, <2>10, <2>12, ConsumeSilently DEF m
  <2>14. m.to <= trk[k].seq => step = Idle
    BY <2>6 DEF Idle
  <2>15. Tracking(k)'
    <3>1. acked[k].seq <= r.t.seq
      BY <2>3, <2>6
    <3>2. CASE m.to <= trk[k].seq
      <4>1. r.t = trk[k]
        BY <2>6, <3>2
      <4> QED BY <1>1, <1>2, <1>7, <2>5, <2>10, <2>11, <4>1 DEF Connection, Tracking
    <3>3. CASE m.to > trk[k].seq
      <4>1. 0..(m.to) \subseteq disk \cup buf[k] \cup dropped
        BY <1>5, <2>3, <2>4 DEF Upto
      <4>2. \A p \in 0..(m.to) : p < next
        BY <1>2, <1>5
      <4>3. Pending(r.t) = {} /\ r.t.seq = m.to => Lagging(k)'
        <5>1. step.op = "record"
          BY <2>6, <3>3
        <5>2. IF toSrv'[k] = <<>> THEN ~up'[k] ELSE toSrv'[k][1].type = "frame" /\ toSrv'[k][1].n = m.to + 1
          <6>1. CASE Len(toSrv[k]) = 1
            BY <6>1, <1>1, <1>3, <2>3, <2>10, <3>3
          <6>2. CASE Len(toSrv[k]) # 1
            <7>1. toSrv'[k] # <<>> /\ 1 \in 1..Len(toSrv'[k])
              BY <1>3, <2>10, <6>2
            <7>2. toSrv'[k][1] = toSrv[k][1 + 1]
              BY <1>3, <2>10, <7>1
            <7>3. toSrv'[k][1] = toSrv[k][2]
              BY <7>2
            <7>4. IsFrame(k, 2, m.to + 1)
              BY <2>3, <3>3, <6>2
            <7> QED BY <7>1, <7>3, <7>4 DEF IsFrame
          <6> QED BY <6>1, <6>2
        <5> HIDE DEF step
        <5>3. Pending(r.t) = {} /\ r.t.seq = m.to => trk'[k].seq + 1 = m.to + 1 /\ Pending(trk'[k]) = {}
          BY <2>10
        <5>4. rx'[k].op = "record" /\ ~dirty'[k] /\ ~closed'[k] /\ tk'[k] = Rest
          BY <1>1, <2>3, <2>10, <5>1
        <5> QED BY <5>2, <5>3, <5>4 DEF Lagging, IsFrame
      <4> QED BY <1>1, <2>5, <2>6, <2>10, <2>11, <3>1, <3>3, <4>1, <4>2, <4>3 DEF Tracking
    <3> QED BY <1>5, <2>4, <3>2, <3>3
  <2>16. TickLoop(k)'
    BY <1>1, <2>3 DEF TickLoop, Rest
  <2>17. ReceiveLoop(k)'
    <3>1. (closed[k] => Finished) /\ (closedSeq[k] # -2 => closedSeq[k] <= db.seq /\ Finished)
      BY <1>2 DEF Connection, ReceiveLoop
    <3>2. \/ step = Idle /\ step.op = "idle"
          \/ step.op = "record" /\ step.todo = r.gaps /\ r.gaps # <<>>
      BY DEF Idle
    <3> HIDE DEF step
    <3> QED BY <1>1, <2>6, <2>10, <2>11, <2>12, <3>1, <3>2 DEF ReceiveLoop
  <2>18. InOrder(k)' /\ Resuming(k)'
    <3>1. Passed(k) = Upto(trk[k]) /\ Passed(k)' = Upto(r.t)
      BY <1>1, <2>10 DEF Passed, Idle
    <3>2. Upto(trk[k]) \subseteq Upto(r.t)
      BY <2>3, <2>4, <2>6, <2>7 DEF Upto
    <3>3. ASSUME NEW j \in 2..Len(toSrv[k]), toSrv[k][j].type = "frame"
          PROVE  toSrv[k][j].n \notin Passed(k)'
      <4>1. j \in 1..Len(toSrv[k])
        BY <1>3
      <4>2. m.to < toSrv[k][j].n /\ toSrv[k][j].n \in Int
        <5>1. toSrv[k][j] \in ToServer
          BY <1>2, <4>1
        <5> QED BY <1>4, <3>3, <5>1, MessageTypes
      <4>3. toSrv[k][j].n \notin Passed(k)
        BY <1>2, <1>7, <2>3, <3>3, <4>1 DEF Connection, InOrder
      <4> QED BY <1>5, <2>4, <2>6, <3>1, <4>2, <4>3
    <3>4. toSrv[k][1].type # "frame"
      BY <1>1, <1>3
    <3>5. Passed(k) \subseteq Passed(k)'
      BY <3>1, <3>2
    <3> QED BY <1>1, <2>8, <2>10, <2>12, <3>3, <3>4, <3>5, FramesConsumed
  <2>19. Connection(k)'
    BY <2>13, <2>15, <2>16, <2>17, <2>18 DEF Connection
  <2> QED BY <1>1, <2>8, <2>9, <2>19, QuietStepKeeps DEF Inv, Database
<1> QED BY <1>6, <1>7

-----------------------------------------------------------------------------
(* The handshake. *)

\* Nothing is on its way to the server.
LEMMA EmptyQueue ==
  ASSUME NEW k \in Conns, toSrv'[k] = <<>>
  PROVE  InOrder(k)' /\ Reports(k)' /\ Closing(k)' /\ Len(toSrv'[k]) = 0
<1>1. Len(toSrv'[k]) = 0
  OBVIOUS
<1> QED BY <1>1 DEF InOrder, Reports, Closing

\* Before the source is opened on it, an open connection has nothing to deliver.
LEMMA Quiet ==
  ASSUME Inv, NEW k \in Conns, \A i \in 1..Len(toCli[k]) : toCli[k][i].type = "superseded", up[k]
  PROVE  toCli[k] = <<>> /\ ws = k /\ live
<1>1. toCli[k] \in Seq(ToClient) /\ Socket(k)
  BY Numbers DEF Inv, Connection
<1>2. toCli[k] # <<>> => 1 \in 1..Len(toCli[k])
  BY <1>1
<1> QED BY <1>1, <1>2 DEF Socket

\* source_open: the checkpoint is read.
LEMMA OpenSourceKeeps ==
  ASSUME Inv, NEW k \in Conns, OpenSource(k), UNCHANGED clientVars
  PROVE  Inv'
<1> USE DEF linkVars, dbVars
<1> DEFINE step == [op |-> "open", n |-> db.seq, todo |-> <<db>>]
<1>1. /\ ph[k] = "on" /\ rx[k] = Idle /\ toSrv[k] # <<>> /\ Head(toSrv[k]).type = "open"
      /\ toSrv' = [toSrv EXCEPT ![k] = Tail(@)] /\ rx' = [rx EXCEPT ![k] = step]
      /\ UNCHANGED <<up, toCli, ph, prev, tk, trk, buf, dirty, closed, closedSeq, acked, registry, disk, db, gaps, crashes>>
  BY DEF OpenSource, Receives, Consume
<1>2. /\ Types /\ Connection(k) /\ toSrv[k] \in Seq(ToServer) /\ next \in Nat /\ lo \in Nat /\ db.seq <= db.seq /\ db.seq \in Int /\ db \in Checkpoints
  <2>1. Types /\ Connection(k)
    BY DEF Inv
  <2> QED BY <2>1, Numbers
<1>3. Len(toSrv[k]) = 1 /\ Opening(k) /\ Tail(toSrv[k]) = <<>>
  <2>1. 1 \in 1..Len(toSrv[k]) /\ Head(toSrv[k]) = toSrv[k][1] /\ (Tail(toSrv[k]) = <<>> <=> Len(toSrv[k]) = 1)
    BY <1>1, <1>2, TailOf
  <2>2. Len(toSrv[k]) = 1
    BY <1>1, <1>2, <2>1 DEF Connection, Handshake
  <2> QED BY <1>1, <2>1, <2>2 DEF Opening
<1>4. /\ ~Opened(k) /\ closedSeq[k] = -2 /\ ~Streaming(k)
      /\ \A i \in 1..Len(toCli[k]) : toCli[k][i].type = "superseded"
      /\ ws = k /\ live => connected
  BY <1>2, <1>3 DEF Connection, Handshake
<1>5. Types'
  <2>1. step \in Receivers
    <3>1. <<db>> \in Seq(Decisions \cup Checkpoints)
      BY <1>2
    <3> QED BY <1>2, <3>1 DEF Receivers, RxOps
  <2>2. rx' \in [Conns -> Receivers]
    BY <1>1, <1>2, <2>1 DEF Types
  <2>3. toSrv' \in [Conns -> Seq(ToServer)]
    <3>1. <<>> \in Seq(ToServer)
      OBVIOUS
    <3> QED BY <1>1, <1>2, <1>3, <3>1 DEF Types
  <2> QED BY <1>1, <1>2, <2>2, <2>3, SMTT(30) DEF Types, clientVars, sourceVars
<1>6. \A j \in Conns : j # k => Same(j)
  BY <1>1, <1>2 DEF Types, Same
<1>7. toSrv'[k] = <<>> /\ rx'[k] = step
  BY <1>1, <1>2, <1>3 DEF Types
<1>8. Growth /\ Streaming(k)' = Streaming(k) /\ ws' = ws /\ live' = live /\ connected' = connected /\ next' = next /\ lo' = lo /\ dropped' = dropped /\ Finished' = Finished
  BY <1>1, <1>2, QuietGrowth
<1>9. Opened(k)' = Opened(k)
  BY <1>1 DEF Opened
<1>10. InOrder(k)' /\ Reports(k)' /\ Closing(k)' /\ Len(toSrv'[k]) = 0
  BY <1>7, EmptyQueue
<1>11. Socket(k)' /\ Phase(k)'
  <2>1. Socket(k)'
    BY <1>1, <1>2, <1>7, <1>8 DEF Connection, Socket
  <2>2. Phase(k)'
    BY <1>1, <1>2, <1>7, <1>8, <1>9, <1>10 DEF Connection, Phase
  <2> QED BY <2>1, <2>2
<1>12. Handshake(k)'
  BY <1>1, <1>4, <1>7, <1>8, <1>9, <1>10 DEF Handshake
<1>13. Tracking(k)' /\ TickLoop(k)'
  <2>1. Tracking(k)'
    BY <1>4, <1>9 DEF Tracking
  <2> QED BY <1>1, <1>2, <1>8, <2>1, TickerAside DEF Connection
<1>14. ReceiveLoop(k)'
  <2>1. closed[k] => Finished
    BY <1>2 DEF Connection, ReceiveLoop
  <2>2. db.end = db.seq + 1
    BY DEF Inv, Database
  <2>3. Len(step.todo) = 1 /\ step.todo[1] = db /\ step.op = "open"
    OBVIOUS
  <2> HIDE DEF step
  <2> QED BY <1>1, <1>2, <1>4, <1>7, <1>8, <2>1, <2>2, <2>3 DEF ReceiveLoop
<1>15. Resuming(k)'
  <2>1. \A p \in 0..(lo - 1) : p \in dropped \/ p <= db.seq
    BY DEF Inv, ReleasedIsSafe
  <2>2. step.todo[1] = db
    OBVIOUS
  <2> HIDE DEF step
  <2> QED BY <1>1, <1>4, <1>7, <1>8, <1>9, <2>1, <2>2 DEF Resuming
<1>16. Connection(k)'
  BY <1>10, <1>11, <1>12, <1>13, <1>14, <1>15 DEF Connection
<1> QED BY <1>1, <1>5, <1>6, <1>16, QuietStepKeeps DEF Inv, Database

\* The hello is answered.
LEMMA WelcomeKeeps ==
  ASSUME Inv, NEW k \in Conns, Welcome(k), UNCHANGED clientVars
  PROVE  Inv'
<1> USE DEF linkVars, dbVars
<1> DEFINE m == [type |-> "welcome"]
<1>1. /\ ph[k] = "joining" /\ ph' = [ph EXCEPT ![k] = "on"] /\ prev' = [prev EXCEPT ![k] = 0]
      /\ toCli' = IF up[k] THEN [toCli EXCEPT ![k] = @ \o <<m>>] ELSE toCli
      /\ UNCHANGED <<up, toSrv, rx, tk, trk, buf, dirty, closed, closedSeq, acked, registry, disk, db, gaps, crashes>>
  BY DEF Welcome, Reply, Queued
<1>2. /\ Types /\ Connection(k) /\ toCli[k] \in Seq(ToClient) /\ db.seq <= db.seq /\ 0 \in 0..MaxConns
  <2>1. Types /\ Connection(k)
    BY DEF Inv
  <2> QED BY <2>1, Numbers, MaxConnsAssumption
<1>3. /\ toSrv[k] = <<>> /\ rx[k] = Idle /\ tk[k] = Rest /\ ~Opened(k) /\ closedSeq[k] = -2
      /\ \A i \in 1..Len(toCli[k]) : toCli[k][i].type = "superseded"
  BY <1>1, <1>2 DEF Connection, Phase
<1>4. up[k] => toCli[k] = <<>> /\ ws = k /\ live /\ ~connected
  BY <1>1, <1>2, <1>3, Quiet DEF Connection, Socket
<1>5. up[k] => toCli'[k] = <<m>>
  <2>1. <<>> \o <<m>> = <<m>>
    OBVIOUS
  <2> QED BY <1>1, <1>2, <1>4, <2>1 DEF Types
<1>6. ~up[k] => toCli'[k] = toCli[k]
  BY <1>1
<1>7. Types'
  <2>1. ph' \in [Conns -> {"off", "joining", "on", "closing", "leaving", "done"}] /\ prev' \in [Conns -> 0..MaxConns]
    BY <1>1, <1>2 DEF Types
  <2>2. toCli' \in [Conns -> Seq(ToClient)]
    <3>1. m \in ToClient
      BY DEF ToClient
    <3>2. toCli[k] \o <<m>> \in Seq(ToClient)
      BY <1>2, <3>1
    <3> HIDE DEF m
    <3> QED BY <1>1, <1>2, <3>2 DEF Types
  <2> QED BY <1>1, <1>2, <2>1, <2>2, ZenonT(30) DEF Types, clientVars, sourceVars
<1>8. \A j \in Conns : j # k => Same(j)
  BY <1>1, <1>2 DEF Types, Same
<1>9. ph'[k] = "on"
  BY <1>1, <1>2 DEF Types
<1>10. Growth /\ Streaming(k)' = Streaming(k) /\ ws' = ws /\ live' = live /\ connected' = connected /\ next' = next /\ lo' = lo /\ dropped' = dropped /\ Finished' = Finished
  BY <1>1, <1>2, QuietGrowth
<1>11. Opened(k)' = Opened(k)
  BY <1>1 DEF Opened
<1>12. InOrder(k)' /\ Reports(k)' /\ Closing(k)' /\ Len(toSrv'[k]) = 0
  BY <1>1, <1>3, EmptyQueue
<1>13. /\ up[k] => Len(toCli'[k]) = 1 /\ toCli'[k][1] = m
       /\ ~up[k] => \A i \in 1..Len(toCli'[k]) : toCli'[k][i].type = "superseded"
  <2>1. Len(<<m>>) = 1 /\ <<m>>[1] = m
    OBVIOUS
  <2> HIDE DEF m
  <2> QED BY <1>3, <1>5, <1>6, <2>1
<1>14. Socket(k)'
  <2>1. \A i \in 1..Len(toCli'[k]) : toCli'[k][i].type = "superseded" => ~up'[k]
    BY <1>1, <1>13
  <2>2. k > ws => FALSE
    BY <1>1, <1>2 DEF Connection, Socket
  <2>3. toCli'[k] # <<>> => ws = k /\ live
    BY <1>2, <1>4, <1>6 DEF Connection, Socket
  <2>4. up[k] => ws = k /\ live
    BY <1>4
  <2> QED BY <1>1, <1>9, <1>10, <2>1, <2>2, <2>3, <2>4 DEF Socket
<1>15. Phase(k)'
  BY <1>1, <1>2, <1>3, <1>9, <1>10, <1>11, <1>12 DEF Connection, Phase
<1>16. Handshake(k)'
  <2>1. ~Opening(k)'
    BY <1>1, <1>3, <1>12 DEF Opening, Idle
  <2>2. CASE up[k]
    <3>0. Len(toCli'[k]) = 1
      BY ONLY <1>13, <2>2
    <3>1. \A i \in 1..Len(toCli'[k]) : i = 1 /\ toCli'[k][i].type = "welcome"
      <4>1. 1..Len(toCli'[k]) = {1}
        BY <3>0
      <4>2. toCli'[k][1].type = "welcome"
        BY ONLY <1>13, <2>2
      <4> QED BY <4>1, <4>2
    <3>2. 2..Len(toCli'[k]) = {}
      BY <3>0
    <3> QED BY <1>1, <1>3, <1>4, <1>10, <1>11, <1>12, <2>1, <2>2, <3>1, <3>2 DEF Handshake, Idle
  <2>3. CASE ~up[k]
    BY <1>1, <1>3, <1>10, <1>11, <1>12, <1>13, <2>1, <2>3 DEF Handshake, Idle
  <2> QED BY <2>2, <2>3
<1>17. Tracking(k)' /\ TickLoop(k)'
  <2>1. Tracking(k)'
    BY <1>3, <1>11 DEF Tracking
  <2> QED BY <1>1, <1>2, <1>10, <2>1, TickerAside DEF Connection
<1>18. ReceiveLoop(k)'
  <2>1. closed[k] => Finished
    BY <1>2 DEF Connection, ReceiveLoop
  <2> QED BY <1>1, <1>3, <1>10, <1>11, <2>1 DEF ReceiveLoop, Idle
<1>19. Resuming(k)'
  BY <1>1, <1>3, <1>10, <1>11 DEF Resuming, Idle
<1>20. Connection(k)'
  BY <1>12, <1>14, <1>15, <1>16, <1>17, <1>18, <1>19 DEF Connection
<1>21. registry' # 0 => ph'[registry'] # "off"
  <2>1. registry # 0 => ph[registry] # "off" /\ registry \in Conns
    BY <1>2, MaxConnsAssumption DEF Inv, Database, Types, Conns
  <2> QED BY <1>1, <1>2, <2>1 DEF Types
<1> QED BY <1>1, <1>7, <1>8, <1>20, <1>21, QuietStepKeeps

\* The tracker of an opened source starts at the checkpoint.
LEMMA NewTrackerKeeps ==
  ASSUME Inv, NEW n \in Nat \cup {-1}, n <= db.seq
  PROVE  LET t == NewTracker(n, n + 1)
         IN  /\ WellFormed(t) /\ Truthful(t, dropped) /\ Exact(t) /\ Pending(t) = {}
             /\ t \in Trackers /\ t # NoTracker /\ t.seq = n /\ t.end = n + 1
             /\ Upto(t) \subseteq disk \cup dropped /\ \A p \in Upto(t) : p < next
             /\ \A p \in 0..n : p \in disk \cup dropped
<1> DEFINE t == NewTracker(n, n + 1)
<1>1. /\ db.seq \in Int /\ next \in Nat /\ next <= MaxFrames /\ MaxFrames \in Nat /\ db.seq < next
      /\ \A p \in 0..db.seq : p \in disk \cup dropped
  <2>1. db.seq \in Int /\ next \in Nat /\ next <= MaxFrames /\ db.seq < next /\ \A p \in 0..db.seq : p \in disk \cup dropped
    BY UploaderAssumption DEF Inv, Database, Types, Checkpoints
  <2> QED BY <2>1, UploaderAssumption
<1>2. t.seq = n /\ t.end = n + 1 /\ t.pend = <<>> /\ Pending(t) = {} /\ t.ranges = {}
  BY DEF NewTracker, Pending
<1>3. t \in Trackers
  <2>1. <<>> \in [{} -> Items]
    OBVIOUS
  <2>2. <<>> \in Pends
    BY <2>1 DEF Pends
  <2>3. n + 1 \in Nat
    OBVIOUS
  <2> QED BY <2>2, <2>3 DEF NewTracker, Trackers
<1>4. t # NoTracker
  BY <1>2 DEF NoTracker
<1> HIDE DEF t
<1>5. Upto(t) = 0..n
  BY <1>2 DEF Upto
<1>6. 0..n \subseteq 0..(MaxFrames - 1) /\ (\A p \in 0..n : p < next) /\ \A p \in 0..n : p \in disk \cup dropped
  BY <1>1
<1>7. WellFormed(t)
  BY <1>2, <1>3, <1>5, <1>6 DEF WellFormed
<1>8. Truthful(t, dropped)
  BY <1>2 DEF Truthful
<1>9. Exact(t)
  BY <1>2 DEF Exact
<1>10. /\ WellFormed(t) /\ Truthful(t, dropped) /\ Exact(t) /\ Pending(t) = {}
       /\ t \in Trackers /\ t # NoTracker /\ t.seq = n /\ t.end = n + 1
       /\ Upto(t) \subseteq disk \cup dropped /\ \A p \in Upto(t) : p < next
       /\ \A p \in 0..n : p \in disk \cup dropped
  BY <1>2, <1>3, <1>4, <1>5, <1>6, <1>7, <1>8, <1>9
<1> QED BY <1>10 DEF t

\* source_ready: the tracker starts and the client is told where to resume.
LEMMA SourceReadyKeeps ==
  ASSUME Inv, NEW k \in Conns, SourceReady(k), UNCHANGED clientVars
  PROVE  Inv'
<1> USE DEF linkVars, dbVars
<1> DEFINE opened == rx[k].todo[1]
           greeting == [type |-> "ready", n |-> opened.seq + 1]
           answer == [type |-> "closed", n |-> opened.seq]
           msgs == IF opened.closed THEN <<greeting, answer>> ELSE <<greeting>>
<1>1. /\ rx[k].op = "open" /\ rx' = [rx EXCEPT ![k] = Idle]
      /\ toCli' = IF up[k] THEN [toCli EXCEPT ![k] = @ \o msgs] ELSE toCli
      /\ UNCHANGED <<up, toSrv, ph, prev, tk, buf, dirty, closed, registry, disk, db, gaps, crashes>>
  <2>1. <<greeting, answer>> # <<>> /\ <<greeting>> # <<>>
    OBVIOUS
  <2> QED BY <2>1 DEF SourceReady, Reply, Queued
<1>2. /\ Types /\ Connection(k) /\ Opening(k) /\ toCli[k] \in Seq(ToClient) /\ next \in Nat /\ lo \in Nat /\ db.seq <= db.seq /\ db.seq \in Int
  <2>1. Types /\ Connection(k) /\ Opening(k)
    BY <1>1 DEF Inv, Opening
  <2> QED BY <2>1, Numbers
<1>3. /\ ph[k] = "on" /\ ~Opened(k) /\ closedSeq[k] = -2 /\ ~Streaming(k) /\ toSrv[k] = <<>>
      /\ \A i \in 1..Len(toCli[k]) : toCli[k][i].type = "superseded"
      /\ ws = k /\ live => connected
  BY <1>1, <1>2 DEF Connection, Handshake
<1>4. up[k] => toCli[k] = <<>> /\ ws = k /\ live /\ connected
  BY <1>3, Quiet
<1>5. /\ opened \in Checkpoints /\ opened.seq <= db.seq /\ opened.end = opened.seq + 1 /\ (opened.closed => db.closed)
      /\ opened.seq \in Nat \cup {-1} /\ opened.seq + 1 \in Nat /\ opened.closed \in BOOLEAN
      /\ (opened.closed => Finished)
  <2>1. opened \in Checkpoints /\ opened.seq <= db.seq /\ opened.end = opened.seq + 1 /\ (opened.closed => db.closed)
    BY <1>1, <1>2 DEF Connection, ReceiveLoop
  <2>2. db.closed => Finished
    BY DEF Inv, Database
  <2> HIDE DEF opened
  <2>3. opened.seq \in Nat \cup {-1} /\ opened.closed \in BOOLEAN
    BY <2>1 DEF Checkpoints
  <2>4. opened.seq + 1 \in Nat
    BY <2>3
  <2> QED BY <2>1, <2>2, <2>3, <2>4
<1>6. IF opened.closed
      THEN closedSeq' = [closedSeq EXCEPT ![k] = opened.seq] /\ trk' = trk /\ acked' = acked
      ELSE /\ trk' = [trk EXCEPT ![k] = NewTracker(opened.seq, opened.seq + 1)]
           /\ acked' = [acked EXCEPT ![k] = [seq |-> opened.seq, end |-> opened.seq + 1]]
           /\ closedSeq' = closedSeq
  BY <1>3, <1>5 DEF SourceReady
<1>7. msgs \in Seq(ToClient) /\ greeting.type = "ready" /\ greeting.n = opened.seq + 1
  <2>1. greeting \in ToClient /\ answer \in ToClient
    BY <1>5 DEF ToClient
  <2>2. greeting.type = "ready" /\ greeting.n = opened.seq + 1
    OBVIOUS
  <2> HIDE DEF opened, greeting, answer
  <2> QED BY <2>1, <2>2
<1>8. /\ msgs # <<>> /\ msgs[1] = greeting
      /\ \A i \in 1..Len(msgs) : (i = 1 /\ msgs[i] = greeting) \/ (i = 2 /\ msgs[i] = answer /\ opened.closed)
  <2> HIDE DEF opened, greeting, answer
  <2> QED OBVIOUS
<1>9. answer.type = "closed" /\ answer.n = opened.seq
  OBVIOUS
<1> DEFINE t == NewTracker(opened.seq, opened.seq + 1)
<1>10. /\ WellFormed(t) /\ Truthful(t, dropped) /\ Exact(t) /\ Pending(t) = {}
       /\ t \in Trackers /\ t # NoTracker /\ t.seq = opened.seq /\ t.end = opened.seq + 1
       /\ Upto(t) \subseteq disk \cup dropped /\ \A p \in Upto(t) : p < next
       /\ \A p \in 0..(opened.seq) : p \in disk \cup dropped
  <2> HIDE DEF opened
  <2> QED BY <1>5, NewTrackerKeeps
<1> HIDE DEF opened, greeting, answer, msgs, t
<1>11. /\ up[k] => toCli'[k] = msgs
       /\ ~up[k] => toCli'[k] = toCli[k]
  <2>1. <<>> \o msgs = msgs
    BY <1>7
  <2> QED BY <1>1, <1>2, <1>4, <2>1 DEF Types
<1>12. /\ rx'[k] = Idle
       /\ opened.closed => closedSeq'[k] = opened.seq /\ trk'[k] = trk[k] /\ acked'[k] = acked[k]
       /\ ~opened.closed => trk'[k] = t /\ acked'[k].seq = opened.seq /\ acked'[k].end = opened.seq + 1 /\ closedSeq'[k] = -2
  <2>1. rx'[k] = Idle
    BY <1>1, <1>2 DEF Types
  <2>2. opened.closed => closedSeq'[k] = opened.seq /\ trk'[k] = trk[k] /\ acked'[k] = acked[k]
    BY <1>2, <1>6 DEF Types
  <2>3. ~opened.closed => trk'[k] = t /\ closedSeq'[k] = -2
    BY <1>2, <1>3, <1>6 DEF Types, t
  <2>4. ~opened.closed => acked'[k] = [seq |-> opened.seq, end |-> opened.seq + 1]
    BY <1>2, <1>6 DEF Types
  <2> QED BY <2>1, <2>2, <2>3, <2>4
<1>13. Types'
  <2>1. rx' \in [Conns -> Receivers]
    <3>1. Idle \in Receivers
      BY DEF Receivers, RxOps, Idle
    <3> QED BY <1>1, <1>2, <3>1 DEF Types
  <2>2. toCli' \in [Conns -> Seq(ToClient)]
    <3>1. toCli[k] \o msgs \in Seq(ToClient)
      BY <1>2, <1>7
    <3> QED BY <1>1, <1>2, <3>1 DEF Types
  <2>3. trk' \in [Conns -> Trackers \cup {NoTracker}]
    BY <1>2, <1>6, <1>10 DEF Types, t
  <2>4. closedSeq' \in [Conns -> Int]
    BY <1>2, <1>5, <1>6 DEF Types
  <2>5. acked' \in [Conns -> [seq : Nat \cup {-1}, end : Nat]]
    <3>1. [seq |-> opened.seq, end |-> opened.seq + 1] \in [seq : Nat \cup {-1}, end : Nat]
      BY <1>5
    <3> QED BY <1>2, <1>6, <3>1 DEF Types
  <2> QED BY <1>1, <1>2, <2>1, <2>2, <2>3, <2>4, <2>5, SMTT(30) DEF Types, clientVars, sourceVars
<1>14. \A j \in Conns : j # k => Same(j)
  <2>1. \A j \in Conns : j # k => trk'[j] = trk[j] /\ acked'[j] = acked[j] /\ closedSeq'[j] = closedSeq[j]
    BY <1>2, <1>6 DEF Types
  <2>2. \A j \in Conns : j # k => rx'[j] = rx[j] /\ toCli'[j] = toCli[j]
    BY <1>1, <1>2 DEF Types
  <2> QED BY <1>1, <2>1, <2>2 DEF Same
<1>15. Growth /\ Streaming(k)' = Streaming(k) /\ ws' = ws /\ live' = live /\ connected' = connected /\ next' = next /\ lo' = lo /\ dropped' = dropped /\ Finished' = Finished
  BY <1>1, <1>2, QuietGrowth
<1>16. Opened(k)' = ~opened.closed
  BY <1>3, <1>5, <1>10, <1>12 DEF Opened
<1>17. InOrder(k)' /\ Reports(k)' /\ Closing(k)' /\ Len(toSrv'[k]) = 0
  BY <1>1, <1>3, EmptyQueue
<1>18. Opened(k)' => Fresh(k)' /\ opened.seq + 1 = acked'[k].seq + 1
  <2>1. ~dirty[k] /\ ~closed[k] /\ tk[k] = Rest
    BY <1>2, <1>3 DEF Connection, Phase
  <2> QED BY <1>1, <1>10, <1>12, <1>16, <2>1 DEF Fresh
<1>19. Socket(k)'
  <2>1. \A i \in 1..Len(toCli'[k]) : toCli'[k][i].type = "superseded" => ~up'[k]
    BY <1>1, <1>2, <1>7, <1>8, <1>9, <1>11 DEF Connection, Socket
  <2>2. toCli'[k] # <<>> => ws = k /\ live
    BY <1>2, <1>4, <1>11 DEF Connection, Socket
  <2> QED BY <1>1, <1>2, <1>3, <1>15, <2>1, <2>2 DEF Connection, Socket
<1>20. Phase(k)'
  BY <1>1, <1>2, <1>3, <1>12, <1>15, <1>16, <1>17 DEF Connection, Phase
<1>21. Handshake(k)'
  <2>1. ~Opening(k)' /\ rx'[k] = Idle
    BY <1>12, <1>17 DEF Opening, Idle
  <2>2. CASE up[k]
    <3>1. \A i \in 1..Len(toCli'[k]) :
             \/ i = 1 /\ toCli'[k][i].type = "ready" /\ toCli'[k][i].n = opened.seq + 1
             \/ toCli'[k][i].type = "closed" /\ toCli'[k][i].n = opened.seq /\ opened.closed
      BY <1>7, <1>8, <1>9, <1>11, <2>2
    <3>2. toCli'[k] # <<>> /\ toCli'[k][1].type = "ready"
      BY <1>7, <1>8, <1>11, <2>2
    <3>3. (opened.seq + 1) - 1 = opened.seq
      BY <1>5
    <3>4. toSrv'[k] = <<>> /\ rx'[k].op # "open"
      BY <1>1, <1>3, <1>12 DEF Idle
    <3>5. ASSUME NEW i \in 1..Len(toCli'[k]), toCli'[k][i].type = "ready"
          PROVE  /\ i = 1 /\ connected' /\ ~Streaming(k)' /\ toSrv'[k] = <<>> /\ rx'[k] = Idle
                 /\ toCli'[k][i].n - 1 <= db'.seq /\ toCli'[k][i].n \in Nat
                 /\ Opened(k)' => Fresh(k)' /\ toCli'[k][i].n = acked'[k].seq + 1
      <4>1. i = 1 /\ toCli'[k][i].n = opened.seq + 1
        BY ONLY <3>1, <3>5
      <4>2. connected' /\ ~Streaming(k)' /\ toSrv'[k] = <<>> /\ rx'[k] = Idle
        BY <1>3, <1>4, <1>15, <2>1, <2>2, <3>4
      <4> QED BY <1>1, <1>5, <1>18, <3>3, <4>1, <4>2
    <3>6. ASSUME NEW i \in 1..Len(toCli'[k]), toCli'[k][i].type \in {"ack", "closed"}
          PROVE  /\ toCli'[k][i].n <= db'.seq /\ (Opened(k)' => FALSE) /\ Finished'
      <4>1. toCli'[k][i].n = opened.seq /\ opened.closed
        BY ONLY <3>1, <3>6
      <4> QED BY <1>1, <1>5, <1>15, <1>16, <4>1
    <3>7. \A i \in 1..Len(toCli'[k]) : toCli'[k][i].type # "welcome"
      BY ONLY <3>1
    <3> QED BY <1>17, <2>1, <3>2, <3>4, <3>5, <3>6, <3>7 DEF Handshake
  <2>3. CASE ~up[k]
    BY <1>1, <1>3, <1>11, <1>15, <1>17, <2>1, <2>3 DEF Handshake, Idle
  <2> QED BY <2>2, <2>3
<1>22. Tracking(k)'
  <2> SUFFICES ASSUME ~opened.closed PROVE Tracking(k)'
    BY <1>5, <1>16 DEF Tracking
  <2>1. Upto(t) \subseteq disk' \cup buf'[k] \cup dropped'
    BY <1>1, <1>10, <1>15
  <2>2. acked'[k].seq <= t.seq /\ acked'[k].end = acked'[k].seq + 1
    BY <1>5, <1>10, <1>12
  <2>3. \A p \in 0..(acked'[k].seq) : p \in disk' \cup dropped'
    BY <1>1, <1>10, <1>12, <1>15
  <2> QED BY <1>10, <1>12, <1>15, <2>1, <2>2, <2>3 DEF Tracking
<1>23. TickLoop(k)'
  <2>1. tk[k] = Rest
    BY <1>2, <1>3 DEF Connection, Phase
  <2> QED BY <1>1, <2>1 DEF TickLoop, Rest
<1>24. ReceiveLoop(k)'
  <2>1. closed[k] => Finished
    BY <1>2 DEF Connection, ReceiveLoop
  <2> QED BY <1>1, <1>5, <1>12, <1>15, <1>16, <2>1 DEF ReceiveLoop, Idle
<1>25. Resuming(k)'
  <2>1. ws = k => \A p \in 0..(lo - 1) : p \in dropped \/ p <= opened.seq
    BY <1>1, <1>2 DEF Connection, Resuming, opened
  <2>2. Opened(k)' => acked'[k].seq = opened.seq
    BY <1>5, <1>12, <1>16
  <2> QED BY <1>3, <1>12, <1>15, <2>1, <2>2 DEF Resuming, Idle
<1>26. Connection(k)'
  BY <1>17, <1>19, <1>20, <1>21, <1>22, <1>23, <1>24, <1>25 DEF Connection
<1> QED BY <1>1, <1>13, <1>14, <1>26, QuietStepKeeps DEF Inv, Database

-----------------------------------------------------------------------------
(* The client closes the source. *)

\* source_close arrives when everything is acknowledged.
LEMMA SourceCloseKeeps ==
  ASSUME Inv, NEW k \in Conns, SourceClose(k), UNCHANGED clientVars
  PROVE  Inv'
<1> USE DEF linkVars, dbVars
<1> DEFINE m == [type |-> "closed", n |-> closedSeq[k]]
           step == [op |-> "sync", n |-> next - 1, todo |-> <<>>]
<1>1. /\ ph[k] = "on" /\ rx[k] = Idle /\ toSrv[k] # <<>> /\ Head(toSrv[k]).type = "close"
      /\ toSrv' = [toSrv EXCEPT ![k] = Tail(@)]
      /\ UNCHANGED <<up, ph, prev, tk, buf, dirty, closed, closedSeq, acked, registry, disk, db, gaps, crashes>>
  BY DEF SourceClose, Receives, Consume
<1>2. /\ Types /\ Connection(k) /\ toSrv[k] \in Seq(ToServer) /\ toCli[k] \in Seq(ToClient) /\ next \in Nat /\ db.seq <= db.seq /\ db.seq \in Int
      /\ closedSeq[k] \in Int /\ acked[k].seq \in Int /\ acked[k].seq <= acked[k].seq /\ acked[k].seq >= acked[k].seq
  <2>1. Types /\ Connection(k)
    BY DEF Inv
  <2> QED BY <2>1, Numbers
<1>3. /\ Len(toSrv[k]) \in Nat \ {0} /\ Head(toSrv[k]) = toSrv[k][1] /\ 1 \in 1..Len(toSrv[k]) /\ Tail(toSrv[k]) \in Seq(ToServer)
      /\ Len(Tail(toSrv[k])) = Len(toSrv[k]) - 1
  BY <1>1, <1>2, TailOf
<1>4. /\ Finished /\ Head(toSrv[k]).n = next - 1 /\ Len(toSrv[k]) = 1
      /\ Opened(k) => acked[k].seq = next - 1
  BY <1>1, <1>2, <1>3 DEF Connection, Closing
<1>5. ~Lagging(k) /\ rx[k].op = "idle"
  BY <1>1, <1>3 DEF Lagging, IsFrame, Idle
<1>6. Opened(k) => trk[k].seq = next - 1 /\ Pending(trk[k]) = {} /\ trk[k].seq \in Int
  <2> SUFFICES ASSUME Opened(k) PROVE trk[k].seq = next - 1 /\ Pending(trk[k]) = {} /\ trk[k].seq \in Int
    OBVIOUS
  <2>1. trk[k].seq \in Int /\ trk[k].seq <= next - 1 /\ WellFormed(trk[k])
    BY Watermark
  <2>2. trk[k].seq >= next - 1 /\ \A p \in Upto(trk[k]) : p < next
    BY <1>2, <1>4 DEF Connection, Tracking
  <2>3. ASSUME NEW n \in Pending(trk[k]) PROVE FALSE
    <3>1. n \in Nat /\ trk[k].pend[n].last \in Nat
      BY <2>1, <2>3, TrackerTypes DEF WellFormed
    <3>2. trk[k].seq < n /\ n <= trk[k].pend[n].last
      BY <2>1, <2>3 DEF WellFormed
    <3>3. n \in Upto(trk[k])
      BY <2>3, <3>1, <3>2 DEF Upto
    <3> QED BY <1>2, <2>1, <2>2, <3>1, <3>2, <3>3
  <2> QED BY <1>2, <2>1, <2>2, <2>3
<1>7. \/ closedSeq[k] # -2 /\ toCli' = Queued(k, toCli, <<m>>) /\ rx' = rx /\ trk' = trk
      \/ closedSeq[k] = -2 /\ ~Opened(k) /\ toCli' = toCli /\ rx' = rx /\ trk' = trk
      \/ closedSeq[k] = -2 /\ Opened(k) /\ toCli' = toCli /\ rx' = [rx EXCEPT ![k] = step] /\ trk' = trk
  <2>1. closedSeq[k] = -2 /\ Opened(k) => trk[k].seq >= Message(k).n /\ Message(k).n = next - 1
    BY <1>2, <1>4, <1>6 DEF Message
  <2> QED BY <2>1 DEF SourceClose, Reply, Goto
<1>8. trk' = trk /\ Opened(k)' = Opened(k)
  BY <1>7 DEF Opened
<1>9. /\ m \in ToClient /\ m.type \in {"ack", "closed"} /\ m.n = closedSeq[k] /\ <<m>> # <<>>
      /\ step \in Receivers /\ step # Idle /\ step.op = "sync" /\ step.todo = <<>>
  <2>1. m \in ToClient /\ m.type \in {"ack", "closed"} /\ m.n = closedSeq[k] /\ <<m>> # <<>>
    BY <1>2 DEF ToClient
  <2>2. step \in Receivers /\ step.op = "sync" /\ step.todo = <<>>
    BY <1>2 DEF Receivers, RxOps
  <2>3. step # Idle
    BY <2>2 DEF Idle
  <2> QED BY <2>1, <2>2, <2>3
<1> HIDE DEF m, step
<1>10. Types'
  <2>1. toSrv' \in [Conns -> Seq(ToServer)]
    BY <1>1, <1>2, <1>3 DEF Types
  <2>2. toCli' \in [Conns -> Seq(ToClient)]
    <3>1. toCli[k] \o <<m>> \in Seq(ToClient)
      BY <1>2, <1>9
    <3>2. toCli' = toCli \/ toCli' = [toCli EXCEPT ![k] = @ \o <<m>>]
      BY <1>7 DEF Queued
    <3> QED BY <1>2, <3>1, <3>2 DEF Types
  <2>3. rx' \in [Conns -> Receivers]
    BY <1>2, <1>7, <1>9 DEF Types
  <2> QED BY <1>1, <1>2, <1>8, <2>1, <2>2, <2>3, ZenonT(30) DEF Types, clientVars, sourceVars
<1>11. \A j \in Conns : j # k => Same(j)
  BY <1>1, <1>2, <1>7, <1>8 DEF Types, Same, Queued
<1>12. toSrv'[k] = Tail(toSrv[k])
  BY <1>1, <1>2 DEF Types
<1>13. /\ Growth /\ next' = next /\ dropped' = dropped /\ lo' = lo /\ ws' = ws /\ Streaming(k)' = Streaming(k) /\ Finished' = Finished
  BY <1>1, <1>2, QuietGrowth
<1>14. rx'[k] = Idle \/ rx'[k] = step
  BY <1>1, <1>2, <1>7 DEF Types
<1>15. rx'[k].op # "open" /\ rx'[k].op # "write" /\ Passed(k)' = Passed(k)
  BY <1>1, <1>8, <1>9, <1>14 DEF Passed, Idle
<1>16. Socket(k)' /\ Handshake(k)' /\ Phase(k)' /\ Reports(k)' /\ Closing(k)'
  <2>1. CASE closedSeq[k] # -2
    <3>1. toCli'[k] = IF up[k] THEN toCli[k] \o <<m>> ELSE toCli[k]
      BY <1>2, <1>7, <1>9, <2>1 DEF Types, Queued
    <3>2. rx'[k] = Idle
      BY <1>1, <1>7, <2>1
    <3>3. m.n <= db'.seq /\ (Opened(k) => m.n <= acked'[k].seq)
      <4>1. closedSeq[k] <= db.seq
        BY <1>2, <2>1 DEF Connection, ReceiveLoop
      <4>2. db.seq < next
        BY DEF Inv, Database
      <4>3. closedSeq[k] <= next - 1
        BY <1>2, <4>1, <4>2
      <4> QED BY <1>1, <1>4, <1>9, <4>1, <4>3
    <3>4. Phase(k)' /\ Reports(k)' /\ Closing(k)'
      BY <1>1, <1>8, <1>10, <1>12, ConsumeParts
    <3>5. Fresh(k) => Fresh(k)' /\ acked'[k].seq = acked[k].seq
      BY <1>1, <1>8, <3>2 DEF Fresh
    <3>6. Socket(k)' /\ Handshake(k)'
      BY <1>1, <1>2, <1>4, <1>8, <1>9, <1>10, <1>12, <2>1, <3>1, <3>2, <3>3, <3>5, AnswerKeeps
    <3> QED BY <3>4, <3>6
  <2>2. CASE closedSeq[k] = -2
    <3>1. toCli'[k] = toCli[k]
      BY <1>7, <2>2
    <3> QED BY <1>1, <1>8, <1>10, <1>12, <1>15, <3>1, ConsumeSilently
  <2> QED BY <2>1, <2>2
<1>17. Tracking(k)'
  BY <1>1, <1>2, <1>5, <1>8, <1>10, <1>13, TrackingAside DEF Connection
<1>18. TickLoop(k)'
  BY <1>1, <1>2, <1>8, <1>13, TickerAside DEF Connection
<1>19. ReceiveLoop(k)'
  <2>1. (closed[k] => Finished) /\ (closedSeq[k] # -2 => closedSeq[k] <= db.seq /\ Finished)
    BY <1>2 DEF Connection, ReceiveLoop
  <2>2. CASE rx'[k] = Idle
    BY <1>1, <1>13, <2>1, <2>2 DEF ReceiveLoop, Idle
  <2>3. CASE rx'[k] # Idle
    <3>1. rx'[k] = step /\ Opened(k)
      BY <1>1, <1>7, <1>14, <2>3
    <3> QED BY <1>1, <1>4, <1>6, <1>8, <1>9, <1>13, <2>1, <3>1 DEF ReceiveLoop
  <2> QED BY <2>2, <2>3
<1>20. InOrder(k)' /\ Resuming(k)'
  <2>1. /\ Passed(k) \subseteq Passed(k)'
        /\ toSrv[k][1].type = "frame" => toSrv[k][1].n \in Passed(k)'
        /\ \A j \in 2..Len(toSrv[k]) : toSrv[k][j].type = "frame" => toSrv[k][j].n \notin Passed(k)'
    BY <1>1, <1>3, <1>4, <1>15
  <2> QED BY <1>1, <1>8, <1>10, <1>12, <1>15, <2>1, FramesConsumed
<1>21. Connection(k)'
  BY <1>16, <1>17, <1>18, <1>19, <1>20 DEF Connection
<1> QED BY <1>1, <1>10, <1>11, <1>21, QuietStepKeeps DEF Inv, Database

-----------------------------------------------------------------------------
(* A new connection supersedes the registered one. *)

\* The superseded connection handles at most the message it was about to receive.
LEMMA SupersededKeeps ==
  ASSUME Inv, Types', NEW c \in Conns, UNCHANGED clientVars, Growth, ph[c] # "off",
         up'[c] = FALSE,
         toCli'[c] = IF up[c] THEN toCli[c] \o <<[type |-> "superseded"]>> ELSE toCli[c],
         toSrv'[c] = <<>> \/ (toSrv[c] # <<>> /\ ph[c] = "on" /\ rx[c] = Idle /\ Len(toSrv'[c]) = 1 /\ toSrv'[c][1] = toSrv[c][1]),
         ph'[c] = ph[c], rx'[c] = rx[c], tk'[c] = tk[c], trk'[c] = trk[c], buf'[c] = buf[c], dirty'[c] = dirty[c],
         closed'[c] = closed[c], closedSeq'[c] = closedSeq[c], acked'[c] = acked[c], disk' = disk, db' = db
  PROVE  Connection(c)'
<1> DEFINE m == [type |-> "superseded"]
<1>1. /\ Types /\ Connection(c) /\ toSrv[c] \in Seq(ToServer) /\ toCli[c] \in Seq(ToClient) /\ next \in Nat
      /\ c \in Nat /\ ws \in Nat /\ acked[c].seq >= acked[c].seq
  <2>1. Types /\ Connection(c)
    BY DEF Inv
  <2> QED BY <2>1, Numbers
<1>2. /\ ws' = ws /\ live' = live /\ connected' = connected /\ closeSent' = closeSent /\ next' = next /\ lo' = lo /\ dropped' = dropped
      /\ Streaming(c)' = Streaming(c) /\ Finished' = Finished /\ \A g : Sound(g)' = Sound(g)
  BY DEF clientVars, sourceVars, Streaming, Finished, Sound
<1>3. /\ Opened(c)' = Opened(c) /\ Passed(c)' = Passed(c) /\ Fresh(c)' = Fresh(c)
  BY DEF Opened, Passed, Fresh
<1>4. \A i \in 1..Len(toSrv'[c]) :
        /\ i = 1 /\ Len(toSrv'[c]) = 1 /\ 1 \in 1..Len(toSrv[c]) /\ toSrv'[c][i] = toSrv[c][1]
        /\ ph[c] = "on" /\ rx[c] = Idle
  <2>1. CASE toSrv'[c] = <<>>
    <3>1. Len(toSrv'[c]) = 0
      BY <2>1
    <3> QED BY <3>1
  <2>2. CASE toSrv'[c] # <<>>
    <3>1. toSrv[c] # <<>> /\ ph[c] = "on" /\ rx[c] = Idle /\ Len(toSrv'[c]) = 1 /\ toSrv'[c][1] = toSrv[c][1]
      BY <2>2
    <3>2. 1 \in 1..Len(toSrv[c])
      BY <1>1, <3>1
    <3> QED BY <3>1, <3>2
  <2> QED BY <2>1, <2>2
<1>5. /\ up[c] => Len(toCli'[c]) = Len(toCli[c]) + 1 /\ toCli'[c][Len(toCli[c]) + 1].type = "superseded"
      /\ ~up[c] => Len(toCli'[c]) = Len(toCli[c])
      /\ \A i \in 1..Len(toCli[c]) : toCli'[c][i] = toCli[c][i]
      /\ Len(toCli[c]) \in Nat /\ toCli'[c] \in Seq(ToClient)
  <2>1. m \in ToClient /\ m.type = "superseded"
    BY DEF ToClient
  <2>2. toCli'[c] = IF up[c] THEN toCli[c] \o <<m>> ELSE toCli[c]
    OBVIOUS
  <2> HIDE DEF m
  <2>3. toCli'[c] \in Seq(ToClient)
    BY <1>1, NumbersNext
  <2> QED BY <1>1, <2>1, <2>2, <2>3, Appended
<1>6. \A i \in 1..Len(toCli'[c]) : \/ i \in 1..Len(toCli[c]) /\ toCli'[c][i] = toCli[c][i]
                                   \/ i = Len(toCli[c]) + 1 /\ toCli'[c][i].type = "superseded"
  BY <1>5
<1>7. Socket(c)'
  <2>1. toCli'[c] # <<>> => ws = c /\ live
    <3>1. CASE up[c]
      BY <1>1, <3>1 DEF Connection, Socket
    <3>2. CASE ~up[c]
      BY <1>1, <3>2 DEF Connection, Socket
    <3> QED BY <3>1, <3>2
  <2>2. c > ws => FALSE
    BY <1>1 DEF Connection, Socket
  <2> QED BY <1>1, <1>2, <2>1, <2>2 DEF Connection, Socket
<1>8. Phase(c)'
  <2>1. ph[c] = "joining" => \A i \in 1..Len(toCli'[c]) : toCli'[c][i].type = "superseded"
    BY <1>1, <1>6 DEF Connection, Phase
  <2>2. \A i \in 1..Len(toSrv'[c]) : toSrv'[c][i].type # "hello"
    BY <1>1, <1>4 DEF Connection, Phase
  <2>3. ph[c] # "on" => toSrv'[c] = <<>>
    OBVIOUS
  <2> QED BY <1>1, <1>2, <1>3, <2>1, <2>2, <2>3 DEF Connection, Phase
<1>9. Handshake(c)'
  <2> USE <1>6
  <2>0. Handshake(c) /\ (toSrv[c] = <<>> => toSrv'[c] = <<>>)
    BY <1>1 DEF Connection
  <2>1. ASSUME NEW i \in 1..Len(toCli'[c]), toCli'[c][i].type = "welcome"
        PROVE  /\ i = 1 /\ \A j \in 2..Len(toCli'[c]) : toCli'[c][j].type = "superseded"
               /\ toSrv'[c] = <<>> /\ rx'[c] = Idle /\ ~Opened(c)' /\ closedSeq'[c] = -2 /\ ~connected'
    <3>1. i \in 1..Len(toCli[c]) /\ toCli[c][i].type = "welcome"
      BY <2>1
    <3>2. /\ i = 1 /\ \A j \in 2..Len(toCli[c]) : toCli[c][j].type = "superseded"
          /\ toSrv[c] = <<>> /\ rx[c] = Idle /\ ~Opened(c) /\ closedSeq[c] = -2 /\ ~connected
      BY <2>0, <3>1 DEF Handshake
    <3>3. ASSUME NEW j \in 2..Len(toCli'[c]) PROVE toCli'[c][j].type = "superseded"
      <4>1. j \in 1..Len(toCli'[c]) /\ (j \in 1..Len(toCli[c]) => j \in 2..Len(toCli[c]))
        OBVIOUS
      <4> QED BY <3>2, <4>1
    <3> QED BY <1>2, <1>3, <2>0, <3>2, <3>3
  <2>2. ASSUME NEW i \in 1..Len(toSrv'[c]), toSrv'[c][i].type = "open" PROVE Len(toSrv'[c]) = 1 /\ rx'[c] = Idle
    BY <1>4
  <2>3. rx'[c].op = "open" => toSrv'[c] = <<>>
    BY <2>0 DEF Handshake
  <2>4. Opening(c)' => Opening(c)
    BY <1>4 DEF Opening
  <2>5. Opening(c)' =>
          /\ ph'[c] = "on" /\ ~Opened(c)' /\ closedSeq'[c] = -2 /\ ~Streaming(c)'
          /\ \A i \in 1..Len(toCli'[c]) : toCli'[c][i].type = "superseded"
          /\ ws' = c /\ live' => connected'
    BY <1>2, <1>3, <2>0, <2>4 DEF Handshake
  <2>6. ASSUME NEW i \in 1..Len(toCli'[c]), toCli'[c][i].type = "ready"
        PROVE  /\ i = 1 /\ connected' /\ ~Streaming(c)' /\ toSrv'[c] = <<>> /\ rx'[c] = Idle
               /\ toCli'[c][i].n - 1 <= db'.seq /\ toCli'[c][i].n \in Nat
               /\ Opened(c)' => Fresh(c)' /\ toCli'[c][i].n = acked'[c].seq + 1
    <3>1. i \in 1..Len(toCli[c]) /\ toCli'[c][i] = toCli[c][i] /\ toCli[c][i].type = "ready"
      BY <2>6
    <3> HIDE <1>6
    <3> QED BY <1>2, <1>3, <2>0, <3>1 DEF Handshake
  <2>7. ASSUME NEW i \in 1..Len(toCli'[c]), toCli'[c][i].type \in {"ack", "closed"}
        PROVE  /\ toCli'[c][1].type = "ready" \/ Streaming(c)'
               /\ toCli'[c][i].n <= db'.seq
               /\ Opened(c)' => toCli'[c][i].n <= acked'[c].seq
               /\ toCli'[c][i].type = "closed" => Finished'
    <3>1. i \in 1..Len(toCli[c]) /\ toCli'[c][i] = toCli[c][i] /\ toCli[c][i].type \in {"ack", "closed"}
      BY <2>7
    <3>2. 1 \in 1..Len(toCli[c])
      BY <3>1
    <3>3. toCli'[c][1] = toCli[c][1]
      BY <1>5, <3>2
    <3> HIDE <1>6
    <3> QED BY <1>2, <1>3, <2>0, <3>1, <3>3 DEF Handshake
  <2> HIDE <1>6
  <2> QED BY <2>1, <2>2, <2>3, <2>5, <2>6, <2>7 DEF Handshake
<1>10. Tracking(c)'
  <2>1. Lagging(c) => Lagging(c)'
    <3>1. CASE toSrv'[c] = <<>>
      BY <3>1 DEF Lagging
    <3>2. CASE toSrv'[c] # <<>>
      BY <3>2 DEF Lagging, IsFrame
    <3> QED BY <3>1, <3>2
  <2> QED BY <1>1, <2>1, TrackingAside DEF Connection
<1>11. ReceiveLoop(c)' /\ TickLoop(c)'
  BY <1>1, <1>2, ReceiverAside, TickerAside DEF Connection
<1>12. InOrder(c)'
  <2>1. ASSUME NEW j \in 1..Len(toSrv'[c]), toSrv'[c][j].type = "frame"
        PROVE  /\ toSrv'[c][j].n \in 0..(next' - 1)
               /\ Opened(c)' /\ ~closed'[c] =>
                    /\ toSrv'[c][j].n \notin Passed(c)'
                    /\ \A p \in 0..(toSrv'[c][j].n - 1) : p \in Passed(c)' \cup dropped'
    <3>1. 1 \in 1..Len(toSrv[c]) /\ toSrv'[c][j] = toSrv[c][1] /\ toSrv[c][1].type = "frame"
      BY <1>4, <2>1
    <3>2. InOrder(c) /\ 1..(1 - 1) = {}
      BY <1>1 DEF Connection
    <3> QED BY <1>2, <1>3, <3>1, <3>2 DEF InOrder
  <2>2. \A i, j \in 1..Len(toSrv'[c]) : ~(i < j)
    BY <1>4
  <2> QED BY <2>1, <2>2 DEF InOrder
<1>13. Reports(c)'
  <2>1. ASSUME NEW i \in 1..Len(toSrv'[c]), toSrv'[c][i].type = "gap"
        PROVE  /\ i = 1 /\ Sound(toSrv[c][i])' /\ Len(toSrv'[c]) = 1
               /\ Opened(c)' => Fresh(c)' /\ \A p \in 0..(toSrv'[c][i].to) : p \in dropped' \/ p <= trk'[c].seq
    <3>1. i = 1 /\ Len(toSrv'[c]) = 1 /\ 1 \in 1..Len(toSrv[c]) /\ toSrv'[c][i] = toSrv[c][1] /\ toSrv[c][1].type = "gap"
      BY <1>4, <2>1
    <3>2. Reports(c)
      BY <1>1 DEF Connection
    <3>3. Sound(toSrv[c][1]) /\ (Opened(c) => Fresh(c) /\ \A p \in 0..(toSrv[c][1].to) : p \in dropped \/ p <= trk[c].seq)
      BY <3>1, <3>2 DEF Reports
    <3>4. Sound(toSrv[c][i])'
      <4>1. toSrv[c][1] = toSrv'[c][i]
        BY <3>1
      <4> HIDE <3>1
      <4>2. Sound(toSrv[c][1]) /\ dropped' = dropped /\ lo' = lo
        BY <1>2, <3>3
      <4> QED BY <4>1, <4>2 DEF Sound
    <3> QED BY <1>2, <1>3, <3>1, <3>3, <3>4
  <2>2. \A j \in 2..Len(toSrv'[c]) : FALSE
    BY <1>4
  <2> QED BY <2>1, <2>2 DEF Reports
<1>14. Closing(c)'
  <2>1. Closing(c)
    BY <1>1 DEF Connection
  <2>2. ASSUME NEW i \in 1..Len(toSrv'[c]), toSrv'[c][i].type = "close"
        PROVE  i = Len(toSrv'[c]) /\ 1 \in 1..Len(toSrv[c]) /\ toSrv'[c][i] = toSrv[c][1] /\ toSrv[c][1].type = "close"
    BY <1>4, <2>2
  <2> QED BY <1>2, <1>3, <2>1, <2>2 DEF Closing
<1>15. Resuming(c)'
  BY <1>1, <1>2, <1>3 DEF Connection, Resuming
<1> QED BY <1>7, <1>8, <1>9, <1>10, <1>11, <1>12, <1>13, <1>14, <1>15 DEF Connection

\* A queue with one message.
LEMMA FirstOnly ==
  ASSUME NEW S, NEW q \in Seq(S), Len(q) \in Nat \ {0}
  PROVE  SubSeq(q, 1, 1) \in Seq(S) /\ Len(SubSeq(q, 1, 1)) = 1 /\ SubSeq(q, 1, 1)[1] = q[1]
OBVIOUS

\* A hello is authenticated and takes the place of the connection before it.
LEMMA RegisterKeeps ==
  ASSUME Inv, NEW k \in Conns, Register(k), UNCHANGED clientVars
  PROVE  Inv'
<1> USE DEF linkVars, dbVars
<1> DEFINE c == registry
           m == [type |-> "superseded"]
           left == IF ph[c] = "on" /\ rx[c] = Idle THEN SubSeq(toSrv[c], 1, Min({1, Len(toSrv[c])})) ELSE <<>>
<1>1. /\ ph[k] = "off" /\ toSrv[k] # <<>> /\ rx[k] = Idle
      /\ registry' = k /\ prev' = [prev EXCEPT ![k] = c] /\ ph' = [ph EXCEPT ![k] = "joining"]
      /\ up' = [j \in Conns |-> up[j] /\ j # c]
      /\ toCli' = IF c = 0 THEN toCli ELSE Queued(c, toCli, <<m>>)
      /\ toSrv' = [j \in Conns |-> IF j = k THEN Tail(toSrv[j]) ELSE IF j # c THEN toSrv[j] ELSE left]
      /\ UNCHANGED <<rx, tk, trk, buf, dirty, closed, closedSeq, acked, disk, db, gaps, crashes>>
  BY DEF Register, Receives
<1>2. /\ Types /\ (\A j \in Conns : Connection(j)) /\ c \in 0..MaxConns /\ MaxConns \in Nat /\ db.seq <= db.seq
      /\ \A j \in Conns : toSrv[j] \in Seq(ToServer) /\ toCli[j] \in Seq(ToClient)
  <2>1. Types /\ (\A j \in Conns : Connection(j)) /\ c \in 0..MaxConns
    BY DEF Inv, Types
  <2>2. \A j \in Conns : toSrv[j] \in Seq(ToServer) /\ toCli[j] \in Seq(ToClient)
    BY <2>1, Numbers
  <2> QED BY <2>1, <2>2, Numbers, MaxConnsAssumption
<1>3. c # 0 => c \in Conns /\ c # k /\ ph[c] # "off"
  BY <1>1, <1>2 DEF Inv, Database, Conns
<1>4. 0 \notin Conns
  BY MaxConnsAssumption DEF Conns
<1>5. toCli[k] = <<>> /\ toSrv[k] = <<[type |-> "hello"]>>
  BY <1>1, <1>2 DEF Connection, Phase
<1>6. Tail(toSrv[k]) = <<>>
  BY <1>5
<1>7. ASSUME c # 0
      PROVE  /\ left \in Seq(ToServer)
             /\ \/ left = <<>>
                \/ toSrv[c] # <<>> /\ ph[c] = "on" /\ rx[c] = Idle /\ Len(left) = 1 /\ left[1] = toSrv[c][1]
  <2>1. toSrv[c] \in Seq(ToServer)
    BY <1>2, <1>3, <1>7
  <2>2. CASE toSrv[c] = <<>>
    <3>1. Min({1, Len(toSrv[c])}) = 0
      <4>1. Len(toSrv[c]) = 0
        BY <2>2
      <4> QED BY <4>1, MinOfTwo
    <3>2. SubSeq(toSrv[c], 1, 0) = <<>>
      BY <2>1
    <3>3. left = <<>>
      BY <3>1, <3>2
    <3> HIDE DEF left
    <3> QED BY <3>3
  <2>3. CASE toSrv[c] # <<>>
    <3>1. Len(toSrv[c]) \in Nat \ {0}
      BY <2>1, <2>3
    <3>2. Min({1, Len(toSrv[c])}) = 1
      BY <3>1, MinOfTwo
    <3>3. /\ SubSeq(toSrv[c], 1, 1) \in Seq(ToServer) /\ Len(SubSeq(toSrv[c], 1, 1)) = 1
          /\ SubSeq(toSrv[c], 1, 1)[1] = toSrv[c][1]
      BY <2>1, <3>1, FirstOnly
    <3>4. left = IF ph[c] = "on" /\ rx[c] = Idle THEN SubSeq(toSrv[c], 1, 1) ELSE <<>>
      BY <3>2
    <3> HIDE DEF left
    <3> QED BY <2>3, <3>3, <3>4
  <2> QED BY <2>2, <2>3
<1> HIDE DEF left
<1>8. Types'
  <2>1. up' \in [Conns -> BOOLEAN]
    BY <1>1, <1>2 DEF Types
  <2>2. toSrv' \in [Conns -> Seq(ToServer)]
    <3>1. <<>> \in Seq(ToServer)
      OBVIOUS
    <3> QED BY <1>1, <1>2, <1>4, <1>6, <1>7, <3>1
  <2>3. toCli' \in [Conns -> Seq(ToClient)]
    <3>1. CASE c = 0
      BY <1>1, <1>2, <3>1 DEF Types
    <3>2. CASE c # 0
      <4>1. m \in ToClient
        BY DEF ToClient
      <4>2. toCli[c] \o <<m>> \in Seq(ToClient)
        BY <1>2, <1>3, <3>2, <4>1
      <4> HIDE DEF m
      <4>3. toCli' = toCli \/ toCli' = [toCli EXCEPT ![c] = @ \o <<m>>]
        BY <1>1, <3>2 DEF Queued
      <4> QED BY <1>2, <4>2, <4>3 DEF Types
    <3> QED BY <3>1, <3>2
  <2>4. /\ ph' \in [Conns -> {"off", "joining", "on", "closing", "leaving", "done"}] /\ prev' \in [Conns -> 0..MaxConns]
        /\ registry' \in 0..MaxConns
    BY <1>1, <1>2, SMTT(30) DEF Types, Conns
  <2> QED BY <1>1, <1>2, <2>1, <2>2, <2>3, <2>4, ZenonT(30) DEF Types, clientVars, sourceVars
<1>9. Growth /\ ws' = ws /\ live' = live /\ connected' = connected /\ next' = next /\ lo' = lo /\ dropped' = dropped /\ Finished' = Finished
  BY <1>1, <1>2, QuietGrowth
<1>10. ASSUME NEW j \in Conns, j # k, j # c PROVE Connection(j)'
  <2>1. Same(j)
    BY <1>1, <1>2, <1>10 DEF Types, Same, Queued
  <2>2. Elsewhere(j)
    BY DEF Elsewhere
  <2> QED BY <1>2, <1>8, <1>9, <2>1, <2>2, Aside
<1>11. ASSUME NEW d \in Conns, d = c PROVE Connection(d)'
  <2>0. c # 0
    BY <1>4, <1>11
  <2>1. up'[d] = FALSE
    BY <1>1, <1>3, <1>11
  <2>2. toCli'[d] = IF up[d] THEN toCli[d] \o <<m>> ELSE toCli[d]
    <3>1. <<m>> # <<>>
      OBVIOUS
    <3> QED BY <1>1, <1>2, <1>3, <1>11, <2>0, <3>1 DEF Types, Queued
  <2>3. toSrv'[d] = <<>> \/ (toSrv[d] # <<>> /\ ph[d] = "on" /\ rx[d] = Idle /\ Len(toSrv'[d]) = 1 /\ toSrv'[d][1] = toSrv[d][1])
    <3>1. toSrv'[d] = left
      BY <1>1, <1>3, <1>11, <2>0
    <3> QED BY <1>7, <1>11, <2>0, <3>1
  <2>4. ph'[d] = ph[d] /\ ph[d] # "off"
    BY <1>1, <1>2, <1>3, <1>11, <2>0 DEF Types
  <2> HIDE DEF c
  <2> QED BY <1>1, <1>8, <1>9, <2>1, <2>2, <2>3, <2>4, SupersededKeeps
<1>12. Connection(k)'
  <2>1. Connection(k) /\ Elsewhere(k)
    BY <1>2 DEF Elsewhere
  <2>2. toSrv'[k] = <<>> /\ toCli'[k] = <<>> /\ ph'[k] = "joining" /\ up'[k] = up[k]
    <3>1. toSrv'[k] = <<>>
      BY <1>1, <1>6
    <3>2. toCli'[k] = <<>>
      BY <1>1, <1>2, <1>3, <1>5 DEF Types, Queued
    <3>3. ph'[k] = "joining"
      BY <1>1, <1>2 DEF Types
    <3>4. up'[k] = up[k]
      BY <1>1, <1>2, <1>3, <1>4 DEF Types
    <3> QED BY <3>1, <3>2, <3>3, <3>4
  <2>3. ~Opened(k) /\ ~Opened(k)' /\ closedSeq[k] = -2 /\ tk[k] = Rest
    BY <1>1, <2>1 DEF Connection, Phase, Opened
  <2>4. InOrder(k)' /\ Reports(k)' /\ Closing(k)' /\ Len(toSrv'[k]) = 0
    BY <2>2, EmptyQueue
  <2>5. Len(toCli'[k]) = 0
    BY <2>2
  <2>6. Socket(k)'
    <3>1. k > ws => FALSE
      BY <1>1, <2>1 DEF Connection, Socket
    <3>2. ~(ws = k /\ connected)
      BY <1>1, <2>1 DEF Connection, Socket
    <3> QED BY <1>9, <2>1, <2>2, <2>5, <3>1, <3>2 DEF Connection, Socket
  <2>7. Phase(k)'
    BY <1>1, <1>9, <2>1, <2>2, <2>3, <2>4, <2>5 DEF Connection, Phase
  <2>8. Handshake(k)'
    BY <1>1, <2>2, <2>3, <2>4, <2>5 DEF Handshake, Opening, Idle
  <2>9. Tracking(k)' /\ TickLoop(k)'
    BY <1>1, <2>3 DEF Tracking, TickLoop, Rest
  <2>10. ReceiveLoop(k)'
    BY <1>1, <1>9, <2>1, <2>3 DEF Connection, ReceiveLoop, Idle
  <2>11. Resuming(k)'
    BY <1>1, <2>3 DEF Resuming, Idle
  <2> QED BY <2>4, <2>6, <2>7, <2>8, <2>9, <2>10, <2>11 DEF Connection
<1>13. \A j \in Conns : Connection(j)'
  BY <1>10, <1>11, <1>12
<1>14. Database'
  <2>1. ph'[k] = "joining"
    BY <1>1, <1>2 DEF Types
  <2> QED BY <1>1, <1>9, <2>1 DEF Inv, Database
<1>15. NoFalseGap'
  BY <1>1, <1>9 DEF Inv, NoFalseGap
<1> QED BY <1>1, <1>2, <1>8, <1>13, <1>14, <1>15, ServerKeeps
=============================================================================
