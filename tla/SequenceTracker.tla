-------------------------- MODULE SequenceTracker --------------------------
(***************************************************************************)
(* SequenceTracker of hattama/ingest/store.py: the contiguity of one       *)
(* epoch's frames. A tracker is a record, a method is an operator on it:   *)
(*                                                                         *)
(*   seq     contiguous_seq, the ACK watermark                             *)
(*   end     contiguous_end, in samples                                    *)
(*   pend    _pending: first sequence number -> item                       *)
(*   ranges  gap_ranges, the declared gaps                                 *)
(*                                                                         *)
(* An item is a received frame (last = its own number) or a lost range.    *)
(* A method that may declare gaps returns [t |-> tracker, gaps |-> Seq].   *)
(* The clock is abstract: `late' is the set of pending items that have     *)
(* waited for reorder_timeout_s when the method is called.                 *)
(***************************************************************************)
EXTENDS Integers, Sequences, FiniteSets, FiniteSetsExt, Functions, TLC

CONSTANT Window   \* reorder_window

ASSUME WindowAssumption == Window \in Nat

\* Mutant: a tracker that ignores the checkpoint.
FreshTracker(seq, end) == [seq |-> -1, end |-> 0, pend |-> <<>>, ranges |-> {}]

NewTracker(seq, end) == [seq |-> seq, end |-> end, pend |-> <<>>, ranges |-> {}]

Pending(t) == DOMAIN t.pend

IsDuplicate(t, n) == n <= t.seq \/ n \in Pending(t)

InDeclaredGap(t, n) == \E r \in t.ranges : r.from <= n /\ n <= r.to

GapDecision(from, to, start, end) == [from |-> from, to |-> to, start |-> start, end |-> end]

\* One round of _absorb: the item that follows the watermark moves it.
AbsorbNext(t) ==
  LET nxt == t.seq + 1
  IN  IF nxt \notin Pending(t) THEN t
      ELSE [t EXCEPT !.seq  = t.pend[nxt].last,
                     !.end  = Max({@, t.pend[nxt].end}),
                     !.pend = Restrict(@, DOMAIN @ \ {nxt})]

Absorb(t) ==
  LET round[n \in Nat] == IF n = 0 THEN t ELSE AbsorbNext(round[n - 1])
  IN  round[Cardinality(Pending(t))]

MustExpire(t, late) ==
  /\ Pending(t) # {}
  /\ Cardinality(Pending(t)) > Window \/ Pending(t) \cap late # {}

\* Mutant: a hole of one frame is not declared.
ExpireFirstOffByOne(r) ==
  LET t     == r.t
      first == Min(Pending(t))
      gap   == GapDecision(t.seq + 1, first - 1, t.end, t.pend[first].start)
      real  == gap.to > gap.from
  IN  [t    |-> Absorb([t EXCEPT !.seq    = first - 1,
                                 !.ranges = IF real THEN @ \cup {gap} ELSE @]),
       gaps |-> IF real THEN Append(r.gaps, gap) ELSE r.gaps]

\* One round of _expire: give up on what precedes the first pending item.
ExpireFirst(r) ==
  LET t     == r.t
      first == Min(Pending(t))
      gap   == GapDecision(t.seq + 1, first - 1, t.end, t.pend[first].start)
      real  == gap.end > gap.start \/ gap.to >= gap.from
  IN  [t    |-> Absorb([t EXCEPT !.seq    = first - 1,
                                 !.ranges = IF real THEN @ \cup {gap} ELSE @]),
       gaps |-> IF real THEN Append(r.gaps, gap) ELSE r.gaps]

Expire(t, late) ==
  LET round[n \in Nat] ==
        IF n = 0 THEN [t |-> t, gaps |-> <<>>]
        ELSE IF MustExpire(round[n - 1].t, late) THEN ExpireFirst(round[n - 1])
        ELSE round[n - 1]
  IN  round[Cardinality(Pending(t))]

Put(t, n, start, end, last) ==
  [t EXCEPT !.pend = [x \in DOMAIN @ \cup {n} |->
                        IF x = n THEN [start |-> start, end |-> end, last |-> last] ELSE @[x]]]

\* accept: a frame that the caller has already written.
Accept(t, n, start, count, late) ==
  IF IsDuplicate(t, n) THEN [t |-> t, gaps |-> <<>>]
  ELSE Expire(Absorb(Put(t, n, start, start + count, n)), late)

\* report_lost: the part of a reported range that is already stored is cut off.
ReportLost(t, from, to, start, lost, late) ==
  LET stored == from <= t.seq
      f      == IF stored THEN t.seq + 1 ELSE from
      s      == IF stored THEN Max({start, t.end}) ELSE start
      len    == IF stored THEN Max({0, start + lost - s}) ELSE lost
      gap    == GapDecision(f, to, s, s + len)
      r      == Expire(Absorb([Put(t, f, s, s + len, to) EXCEPT !.ranges = @ \cup {gap}]), late)
  IN  IF to <= t.seq THEN [t |-> t, gaps |-> <<>>]
      ELSE [r EXCEPT !.gaps = <<gap>> \o @]
=============================================================================
