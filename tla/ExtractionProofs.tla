--------------------------- MODULE ExtractionProofs ---------------------------
(***************************************************************************)
(* Proofs about Extraction, for any number of segments, any sizes of the   *)
(* windows, any registry of tasks and any answers of the language model.   *)
(*                                                                         *)
(* The loop: that every segment lies in one window needs that a window     *)
(* never reaches behind the transcript and is never empty (LoopInv); the   *)
(* linker, which works on the answers, leaves the loop alone.              *)
(*                                                                         *)
(* The linker: each type of event is a function from tasks to tasks.  For  *)
(* each a lemma says that the result is a task again, that what makes a    *)
(* card wait for a person is still marked on it (Sound), and that it       *)
(* changes nothing agreed but by consent (Consents).  From these lemmas    *)
(* LinkInv is inductive, and both promises about the cards follow.         *)
(***************************************************************************)
EXTENDS Extraction, WellFoundedInduction, TLAPS

-----------------------------------------------------------------------------
(* The loop. *)

LoopInv ==
  /\ phase \in {"open", "fit", "events", "apply", "summary", "done"}
  /\ pos \in 0..Segments
  /\ phase = "open" => pos < Segments
  /\ phase \in {"fit", "events", "apply", "summary"} => window \in 1..Segments - pos
  /\ EverySegmentOnce

\* The window that is behind the loop now was the next one before.
LEMMA WindowBehind ==
  ASSUME LoopInv, phase \in {"fit", "events", "apply", "summary"}
  PROVE  /\ pos + window \in 0..Segments
         /\ InWindow \cap 1..pos = {}
         /\ 1..pos \cup InWindow = 1..pos + window
<1>1. pos \in Nat /\ window \in Nat /\ Segments \in Nat /\ window <= Segments - pos
  BY ExtractionAssumption DEF LoopInv
<1>2. QED
  BY <1>1 DEF InWindow

\* The loop goes on to the summary of the window, or behind the window.
LEMMA AfterWindow ==
  ASSUME LoopInv, phase \in {"fit", "events", "apply"}, window' = window, AfterEvents,
         extracted' \cap failed' = {}, extracted' \cup failed' = 1..pos + window
  PROVE  LoopInv'
<1>1. pos \in Nat /\ window \in Nat /\ Segments \in Nat /\ window \in 1..Segments - pos
  BY ExtractionAssumption DEF LoopInv
<1>2. CASE phase' = "summary" /\ pos' = pos
  BY <1>1, <1>2 DEF LoopInv, EverySegmentOnce
<1>3. CASE Advance
  <2>1. pos' = pos + window /\ phase' \in {"open", "done"} /\ (phase' = "open" => pos' < Segments)
    BY <1>3 DEF Advance
  <2>2. QED
    BY <1>1, <2>1 DEF LoopInv, EverySegmentOnce
<1>4. QED
  BY <1>2, <1>3 DEF AfterEvents

LEMMA GivenUp ==
  ASSUME LoopInv, phase \in {"fit", "events"}, WindowError
  PROVE  LoopInv'
<1>1. extracted \cap failed = {} /\ extracted \cup failed = 1..pos
  BY DEF LoopInv, EverySegmentOnce
<1>2. /\ InWindow \cap 1..pos = {}
      /\ 1..pos \cup InWindow = 1..pos + window
  BY WindowBehind
<1>3. failed' = failed \cup InWindow /\ extracted' = extracted /\ window' = window /\ AfterEvents
  BY DEF WindowError
<1>4. extracted' \cap failed' = {} /\ extracted' \cup failed' = 1..pos + window
  BY <1>1, <1>2, <1>3
<1>5. QED
  BY <1>3, <1>4, AfterWindow

LEMMA LoopStep ==
  ASSUME LoopInv, [Next]_vars
  PROVE  LoopInv'
<1>t. Segments \in Nat /\ pos \in Nat
  BY ExtractionAssumption DEF LoopInv
<1>1. CASE OpenWindow
  BY <1>t, <1>1 DEF OpenWindow, LoopInv, EverySegmentOnce
<1>2. CASE Fit
  BY <1>t, <1>2 DEF Fit, LoopInv, EverySegmentOnce
<1>3. CASE NothingFits \/ GiveUpEvents
  BY <1>3, GivenUp DEF NothingFits, GiveUpEvents
<1>4. CASE EventsExtracted
  <2>1. extracted \cap failed = {} /\ extracted \cup failed = 1..pos
    BY <1>4 DEF EventsExtracted, LoopInv, EverySegmentOnce
  <2>2. InWindow \cap 1..pos = {} /\ 1..pos \cup InWindow = 1..pos + window
    BY <1>4, WindowBehind DEF EventsExtracted
  <2>3. /\ phase = "events" /\ phase' = "apply" /\ extracted' = extracted \cup InWindow
        /\ UNCHANGED <<pos, window, failed>>
    BY <1>4 DEF EventsExtracted
  <2>4. EverySegmentOnce'
    BY <2>1, <2>2, <2>3 DEF EverySegmentOnce
  <2>5. QED
    BY <2>3, <2>4 DEF LoopInv
<1>5. CASE EventsDone
  BY <1>5, AfterWindow DEF EventsDone, LoopInv, EverySegmentOnce
<1>6. CASE SummaryDone
  <2>1. /\ phase = "summary" /\ pos' = pos + window /\ phase' \in {"open", "done"}
        /\ (phase' = "open" => pos' < Segments) /\ UNCHANGED <<extracted, failed>>
    BY <1>6 DEF SummaryDone, Advance
  <2>2. pos + window \in 0..Segments
    BY <2>1, WindowBehind
  <2>3. EverySegmentOnce'
    BY <2>1 DEF LoopInv, EverySegmentOnce
  <2>4. QED
    BY <2>1, <2>2, <2>3 DEF LoopInv
<1>7. CASE UNCHANGED <<phase, pos, window, extracted, failed>>
  BY <1>7 DEF LoopInv, EverySegmentOnce
<1>8. AskAgain("events") \/ AskAgain("summary") \/ ApplyEvent \/ OutsideWindow \/ Done \/ UNCHANGED vars
        => UNCHANGED <<phase, pos, window, extracted, failed>>
  BY DEF AskAgain, ApplyEvent, OutsideWindow, Receive, Done, vars, pipeVars
<1>9. QED
  BY <1>1, <1>2, <1>3, <1>4, <1>5, <1>6, <1>7, <1>8 DEF Next

\* The loop keeps its invariant.
LEMMA Looping == Spec => []LoopInv
<1>1. Init => LoopInv
  <2> SUFFICES ASSUME Init PROVE LoopInv
    OBVIOUS
  <2>1. Segments \in Nat
    BY ExtractionAssumption
  <2>2. /\ phase = (IF Segments = 0 THEN "done" ELSE "open")
        /\ pos = 0 /\ extracted = {} /\ failed = {}
    BY DEF Init
  <2>3. EverySegmentOnce
    BY <2>1, <2>2 DEF EverySegmentOnce
  <2>4. QED
    BY <2>1, <2>2, <2>3 DEF LoopInv
<1>2. QED
  BY <1>1, LoopStep, PTL DEF Spec

\* No segment of the transcript is passed over in silence, and none is counted twice.
THEOREM NothingPassedOver == Spec => []EverySegmentOnce
<1>1. LoopInv => EverySegmentOnce
  BY DEF LoopInv
<1>2. QED
  BY <1>1, Looping, PTL

-----------------------------------------------------------------------------
(* The tasks of the registry. *)

\* What a task, its proposals and its history are made of.
Reasons == {"proposed", "only_in_summary", "hold", "unquoted_condition", "deadline_in_summary"}

Proposal ==
  [field: {"deadline"}, value: Quotes, evidence: SUBSET Places, at: Nat]
    \cup [field: {"assignee"}, value: Persons, evidence: SUBSET Places, at: Nat]

Change ==
  [event: {"changed", "superseded", "rejected"}, field: Fields,
   old: Quotes \cup Persons, new: {None} \cup Quotes \cup Persons]

Tasks ==
  [action: Actions, status: Statuses, execution: {"open", "cancelled"},
   assignee: {None} \cup FieldValues(Persons), deadline: {None} \cup FieldValues(Quotes),
   hold: BOOLEAN, conditional: BOOLEAN, condition: {None} \cup SUBSET Places, to: {None} \cup Names,
   quoted: SUBSET Places, extra: SUBSET Places,
   pending: SUBSET Proposal, history: SUBSET Change, issues: SUBSET Fields, reasons: SUBSET Reasons]

\* Whatever is not agreed about a task, or puts it off, leaves a reason to review it.
Sound(t, now) ==
  /\ \A p \in t.pending : p.at <= now
  /\ t.hold => "hold" \in t.reasons
  /\ t.status = "proposed" \/ Is(t.deadline, "proposed") \/ Is(t.assignee, "proposed") => t.reasons # {}

\* The inductive invariant of the linker.
LinkInv ==
  /\ clock \in Nat
  /\ tasks \in Seq(Tasks)
  /\ windowRefs \in [Refs -> 0..Len(tasks)]
  /\ \A i \in DOMAIN tasks : Sound(tasks[i], clock)

\* What an event of a type may do to the status of a task, and to a field of it.
StatusConsent(s, r, type) == s = "proposed" /\ r = "agreed" => type \in {"accept", "assign"}

FieldConsent(f, fv, gv, history, type) ==
  /\ Is(fv, "agreed") => Is(gv, "agreed")
  /\ Is(fv, "agreed") /\ gv.value # fv.value =>
       /\ type \in {"accept", "change_deadline", "change_assignee"}
       /\ Entry("changed", f, fv.value, gv.value) \in history
  /\ Is(fv, "proposed") /\ Is(gv, "agreed") =>
       type \in {"accept", "assign", "change_deadline", "change_assignee"}

Consents(t, u, type) ==
  /\ StatusConsent(t.status, u.status, type)
  /\ FieldConsent("deadline", t.deadline, u.deadline, u.history, type)
  /\ FieldConsent("assignee", t.assignee, u.assignee, u.history, type)

\* An event; a task that a conditional decision starts comes from one without a reference.
Messages ==
  [type: Creating \cup Changing, task: Refs \cup {None}, action: Actions \cup {None, Generic},
   assignee: Names \cup {None}, deadline: Quotes \cup {None}, condition: BOOLEAN,
   found: {"here", "near", "missing"}, to: Names \cup {None}]

\* None is no value of anything.
LEMMA Apart ==
  /\ None \notin Actions /\ None \notin Names /\ None \notin Quotes /\ None \notin Persons
  /\ None \notin FieldValues(Quotes) /\ None \notin FieldValues(Persons)
  /\ None \notin SUBSET Places
  BY LinkerAssumption

\* What is found is found somewhere.
LEMMA FoundTyped == ASSUME NEW e \in Messages PROVE Found(e) \in SUBSET Places
  BY DEF Found, Messages, Places

\* The value of a name is a person, a department or a group, and of no name there is none.
LEMMA PersonTyped ==
  ASSUME NEW n \in Names \cup {None}
  PROVE  /\ AssigneeValue(n) \in {None} \cup Persons
         /\ n # None => AssigneeValue(n) \in Persons
<1>1. Match \in [Names -> [name : Names, score : 0..100]] /\ Kind \in [Names -> {"person", "department", "group"}]
  BY LinkerAssumption
<1>2. None \notin Names
  BY Apart
<1>3. ASSUME n # None PROVE AssigneeValue(n) \in Persons
  <2>1. /\ n \in Names /\ Match[n].name \in Names /\ Match[n].score \in 0..100
        /\ Kind[n] \in {"person", "department", "group"}
    BY <1>1, <1>3
  <2>2. CASE IsPerson(n) /\ Fits(n, 60)
    BY <1>3, <2>1, <2>2 DEF AssigneeValue, Persons
  <2>3. CASE ~(IsPerson(n) /\ Fits(n, 60))
    BY <1>3, <2>1, <2>3 DEF AssigneeValue, Persons
  <2> QED
    BY <2>2, <2>3
<1>4. n = None => AssigneeValue(n) = None
  BY DEF AssigneeValue
<1> QED
  BY <1>3, <1>4

\* A value with a status and its evidence.
LEMMA ValueTyped ==
  ASSUME NEW V, NEW v \in V, NEW s \in {"agreed", "proposed"}, NEW ev \in SUBSET Places
  PROVE  /\ FieldValue(v, s, ev) \in FieldValues(V)
         /\ FieldValue(v, s, ev).value = v /\ FieldValue(v, s, ev).status = s
         /\ FieldValue(v, s, ev).evidence = ev
  BY DEF FieldValue, FieldValues

\* More evidence changes neither the value nor its status.
LEMMA BackedTyped ==
  ASSUME NEW V, None \notin FieldValues(V), NEW fv \in {None} \cup FieldValues(V), NEW ev \in SUBSET Places
  PROVE  /\ Backed(fv, ev) \in {None} \cup FieldValues(V)
         /\ fv # None => Backed(fv, ev) # None /\ Backed(fv, ev).value = fv.value /\ Backed(fv, ev).status = fv.status
         /\ Backed(fv, ev) = None <=> fv = None
  BY DEF Backed, FieldValues

\* A field that keeps its value and its status has nothing to answer for.
LEMMA FieldKept ==
  ASSUME NEW f, NEW fv, NEW gv, NEW history, NEW type,
         fv # None => gv # None /\ gv.value = fv.value /\ gv.status = fv.status
  PROVE  FieldConsent(f, fv, gv, history, type)
  BY DEF FieldConsent, Is

\* Nor has a status that stays.
LEMMA StatusKept ==
  ASSUME NEW s, NEW type
  PROVE  StatusConsent(s, s, type)
  BY DEF StatusConsent

\* A set of naturals that is not empty has a least element.
LEMMA LeastNatural ==
  ASSUME NEW S \in SUBSET Nat, S # {}
  PROVE  \E m \in S : \A x \in S : m <= x
<1>1. IsWellFoundedOn(OpToRel(<, Nat), Nat)
  BY NatLessThanWellFounded
<1>2. PICK m \in S : \A y \in S : ~ (<<y, m>> \in OpToRel(<, Nat))
  BY <1>1, WFMin
<1>3. \A y \in S : ~(y < m)
  BY <1>2 DEF OpToRel
<1> QED
  BY <1>3

\* A set of naturals that has a bound has a greatest element.
LEMMA LatestIsOne ==
  ASSUME NEW ps, NEW now \in Nat, ps # {}, \A p \in ps : p.at \in Nat /\ p.at <= now
  PROVE  LatestOf(ps) \in ps
<1> DEFINE Left == {now - p.at : p \in ps}
<1>1. Left \in SUBSET Nat /\ Left # {}
  OBVIOUS
<1>2. PICK m \in Left : \A y \in Left : m <= y
  <2> HIDE DEF Left
  <2> QED
    BY <1>1, LeastNatural
<1>3. PICK p \in ps : m = now - p.at
  OBVIOUS
<1>4. ASSUME NEW o \in ps PROVE o.at <= p.at
  <2>1. o.at \in Nat /\ p.at \in Nat
    OBVIOUS
  <2>2. now - o.at \in Left
    OBVIOUS
  <2> HIDE DEF Left
  <2>3. now - p.at <= now - o.at
    BY <1>2, <1>3, <2>2
  <2> QED
    BY <2>1, <2>3
<1> QED
  BY <1>4 DEF LatestOf

\* A task that an event starts.
LEMMA NewTyped ==
  ASSUME NEW e \in Messages, e.action \in Actions, NEW s \in {"agreed", "proposed"}
  PROVE  LET u == NewTask(e, s)
         IN  /\ u \in Tasks /\ u.pending = {} /\ u.hold = FALSE /\ u.reasons = {} /\ u.status = s
             /\ \A fv \in {u.assignee, u.deadline} \ {None} : fv.status = s
<1>1. Found(e) \in SUBSET Places /\ Condition(e) \in {None} \cup SUBSET Places
  BY FoundTyped DEF Condition
<1>2. \A V : \A v \in {None} \cup V :
         /\ OrNone(v, s, Found(e)) \in {None} \cup FieldValues(V)
         /\ OrNone(v, s, Found(e)) = None \/ OrNone(v, s, Found(e)).status = s
  BY <1>1, ValueTyped DEF OrNone
<1> DEFINE d == OrNone(e.deadline, s, Found(e))
           a == OrNone(AssigneeValue(e.assignee), s, Found(e))
           u == NewTask(e, s)
<1>3. /\ AssigneeValue(e.assignee) \in {None} \cup Persons /\ e.deadline \in {None} \cup Quotes
      /\ e.to \in Names \cup {None}
  BY PersonTyped DEF Messages
<1>4a. d \in {None} \cup FieldValues(Quotes) /\ (d = None \/ d.status = s)
  BY ONLY <1>2, <1>3
<1>4b. a \in {None} \cup FieldValues(Persons) /\ (a = None \/ a.status = s)
  BY ONLY <1>2, <1>3
<1>4. /\ d \in {None} \cup FieldValues(Quotes) /\ (d = None \/ d.status = s)
      /\ a \in {None} \cup FieldValues(Persons) /\ (a = None \/ a.status = s)
  BY <1>4a, <1>4b
<1> DEFINE x == TaskState(e.action, s)
<1>5. x \in Tasks /\ x.pending = {} /\ x.hold = FALSE /\ x.reasons = {} /\ x.status = s
  BY Apart DEF TaskState, Tasks, Statuses
<1>6. u = [x EXCEPT !.assignee = a, !.deadline = d, !.condition = Condition(e), !.to = e.to, !.quoted = Found(e)]
  BY DEF NewTask
<1> HIDE DEF a, d, u, x
<1>7. u \in Tasks
  BY <1>1, <1>3, <1>4, <1>5, <1>6 DEF Tasks
<1>8. u.pending = {} /\ u.hold = FALSE /\ u.reasons = {} /\ u.status = s /\ u.assignee = a /\ u.deadline = d
  BY <1>5, <1>6 DEF Tasks
<1> QED
  BY <1>4, <1>7, <1>8 DEF u

\* What an event finds in a task is what the task says of its words.
LEMMA QuoteAdded ==
  ASSUME NEW t \in Tasks, NEW e \in Messages
  PROVE  LET u == WithQuote(t, e)
         IN  /\ u \in Tasks
             /\ u.status = t.status /\ u.deadline = t.deadline /\ u.assignee = t.assignee
             /\ u.pending = t.pending /\ u.hold = t.hold /\ u.reasons = t.reasons /\ u.history = t.history
<1>1. Found(e) \in SUBSET Places
  BY FoundTyped
<1>2. WithQuote(t, e) \in Tasks
  BY <1>1 DEF WithQuote, Tasks
<1> QED
  BY <1>2 DEF WithQuote, Tasks

\* A conflict is an issue of the task; its fields stay.
LEMMA ConflictsAdded ==
  ASSUME NEW t \in Tasks, NEW e \in Messages
  PROVE  LET u == WithConflicts(t, e)
         IN  /\ u \in Tasks
             /\ u.status = t.status /\ u.deadline = t.deadline /\ u.assignee = t.assignee
             /\ u.pending = t.pending /\ u.hold = t.hold /\ u.reasons = t.reasons /\ u.history = t.history
<1>1. Conflicts(t, e) \in SUBSET Fields
  BY DEF Conflicts, Fields
<1>2. WithConflicts(t, e) \in Tasks
  BY <1>1 DEF WithConflicts, Tasks
<1> QED
  BY <1>2 DEF WithConflicts, Tasks

\* A new value of a field, and the record of the change.
LEMMA DeadlineSet ==
  ASSUME NEW t \in Tasks, NEW fv \in FieldValues(Quotes)
  PROVE  LET u == SetField(t, "deadline", fv)
         IN  /\ u \in Tasks
             /\ u.deadline = fv /\ u.assignee = t.assignee /\ u.status = t.status
             /\ u.pending = t.pending /\ u.hold = t.hold /\ u.reasons = t.reasons
             /\ t.history \subseteq u.history
             /\ t.deadline # None /\ t.deadline.value # fv.value =>
                  Entry("changed", "deadline", t.deadline.value, fv.value) \in u.history
<1> DEFINE entry == Entry("changed", "deadline", t.deadline.value, fv.value)
           changes == t.deadline # None /\ t.deadline.value # fv.value
           h == IF changes THEN t.history \cup {entry} ELSE t.history
           u == SetField(t, "deadline", fv)
<1>1. u = [t EXCEPT !.deadline = fv, !.history = h]
  BY DEF SetField
<1>2. changes => entry \in Change
  BY DEF Entry, Change, Tasks, FieldValues, Fields
<1>3. h \in SUBSET Change /\ t.history \subseteq h /\ (changes => entry \in h)
  BY <1>2 DEF Tasks
<1> HIDE DEF h, u, entry
<1>4. u \in Tasks
  BY <1>1, <1>3 DEF Tasks
<1>5. /\ u.deadline = fv /\ u.history = h /\ u.assignee = t.assignee /\ u.status = t.status
      /\ u.pending = t.pending /\ u.hold = t.hold /\ u.reasons = t.reasons
  BY <1>1 DEF Tasks
<1> QED
  BY <1>3, <1>4, <1>5 DEF u, entry

\* The same of the assignee.
LEMMA AssigneeSet ==
  ASSUME NEW t \in Tasks, NEW fv \in FieldValues(Persons)
  PROVE  LET u == SetField(t, "assignee", fv)
         IN  /\ u \in Tasks
             /\ u.assignee = fv /\ u.deadline = t.deadline /\ u.status = t.status
             /\ u.pending = t.pending /\ u.hold = t.hold /\ u.reasons = t.reasons
             /\ t.history \subseteq u.history
             /\ t.assignee # None /\ t.assignee.value # fv.value =>
                  Entry("changed", "assignee", t.assignee.value, fv.value) \in u.history
<1> DEFINE entry == Entry("changed", "assignee", t.assignee.value, fv.value)
           changes == t.assignee # None /\ t.assignee.value # fv.value
           h == IF changes THEN t.history \cup {entry} ELSE t.history
           u == SetField(t, "assignee", fv)
<1>1. u = [t EXCEPT !.assignee = fv, !.history = h]
  BY DEF SetField
<1>2. changes => entry \in Change
  BY DEF Entry, Change, Tasks, FieldValues, Fields
<1>3. h \in SUBSET Change /\ t.history \subseteq h /\ (changes => entry \in h)
  BY <1>2 DEF Tasks
<1> HIDE DEF h, u, entry
<1>4. u \in Tasks
  BY <1>1, <1>3 DEF Tasks
<1>5. /\ u.assignee = fv /\ u.history = h /\ u.deadline = t.deadline /\ u.status = t.status
      /\ u.pending = t.pending /\ u.hold = t.hold /\ u.reasons = t.reasons
  BY <1>1 DEF Tasks
<1> QED
  BY <1>3, <1>4, <1>5 DEF u, entry

\* What an event makes of a task is a task again, and what it changes has been agreed to.
Keeps(t, u, now, type) == u \in Tasks /\ Sound(u, now) /\ Consents(t, u, type)

\* A proposal waits beside what was agreed.
LEMMA ProposedKeeps ==
  ASSUME NEW t \in Tasks, NEW e \in Messages, clock \in Nat, Sound(t, clock)
  PROVE  Keeps(t, Proposed(t, e), clock, "propose")
<1>1. Proposals(e, clock) \in SUBSET Proposal /\ \A p \in Proposals(e, clock) : p.at <= clock
  BY FoundTyped, PersonTyped, Apart DEF Proposals, Messages, Proposal
<1>2. /\ Proposed(t, e) \in Tasks
  BY <1>1 DEF Proposed, Tasks
<1> DEFINE u == Proposed(t, e)
<1>3. /\ u.pending = t.pending \cup Proposals(e, clock) /\ u.deadline = t.deadline /\ u.assignee = t.assignee
      /\ u.status = t.status /\ u.reasons = t.reasons /\ u.hold = t.hold
  BY DEF Proposed, Tasks
<1> HIDE DEF u
<1>4. Sound(u, clock)
  BY <1>1, <1>3 DEF Sound
<1>5. Consents(t, u, "propose")
  BY <1>3, FieldKept, StatusKept DEF Consents
<1> QED
  BY <1>2, <1>4, <1>5 DEF u, Keeps

\* A repeated assignment fills what is open, and agrees to a deadline that was only proposed.
LEMMA AssignedKeeps ==
  ASSUME NEW t \in Tasks, NEW e \in Messages, Sound(t, clock)
  PROVE  Keeps(t, Assigned(t, e), clock, "assign")
<1> DEFINE d == IF e.deadline # None /\ ~Is(t.deadline, "agreed")
                THEN FieldValue(e.deadline, "agreed", Found(e)) ELSE t.deadline
           a == IF t.assignee = None THEN OrNone(AssigneeValue(e.assignee), "agreed", Found(e)) ELSE t.assignee
           c == IF t.condition = None THEN Condition(e) ELSE t.condition
           s == IF t.status = "proposed" THEN "agreed" ELSE t.status
           u == [t EXCEPT !.deadline = d, !.assignee = a, !.condition = c, !.status = s]
           v == WithConflicts(WithQuote(u, e), e)
<1>1. Found(e) \in SUBSET Places /\ Condition(e) \in {None} \cup SUBSET Places
  BY FoundTyped DEF Condition
<1>2. /\ t.deadline \in {None} \cup FieldValues(Quotes) /\ t.assignee \in {None} \cup FieldValues(Persons)
      /\ t.condition \in {None} \cup SUBSET Places /\ t.status \in Statuses
  BY DEF Tasks
<1>3. /\ d \in {None} \cup FieldValues(Quotes)
      /\ (d = t.deadline \/ (~Is(t.deadline, "agreed") /\ d # None /\ d.status = "agreed"))
  <2>1. e.deadline # None => e.deadline \in Quotes
    BY DEF Messages
  <2>2. e.deadline # None => /\ FieldValue(e.deadline, "agreed", Found(e)) \in FieldValues(Quotes)
                             /\ FieldValue(e.deadline, "agreed", Found(e)).status = "agreed"
    BY <1>1, <2>1, ValueTyped
  <2> QED
    BY <1>2, <2>2, Apart
<1>4. /\ a \in {None} \cup FieldValues(Persons)
      /\ (a = t.assignee \/ (t.assignee = None /\ a # None /\ a.status = "agreed"))
  <2>1. AssigneeValue(e.assignee) \in {None} \cup Persons
    BY PersonTyped DEF Messages
  <2>2. AssigneeValue(e.assignee) # None =>
          /\ FieldValue(AssigneeValue(e.assignee), "agreed", Found(e)) \in FieldValues(Persons)
          /\ FieldValue(AssigneeValue(e.assignee), "agreed", Found(e)).status = "agreed"
    BY <1>1, <2>1, ValueTyped
  <2> QED
    BY <1>2, <2>2, Apart DEF OrNone
<1>5. c \in {None} \cup SUBSET Places /\ s \in Statuses \ {"proposed"} /\ (t.status # "proposed" => s = t.status)
  BY <1>1, <1>2 DEF Statuses
<1>6. Assigned(t, e) = v
  BY DEF Assigned
<1> HIDE DEF a, c, d, s
<1>7. u \in Tasks
  BY <1>3, <1>4, <1>5 DEF Tasks
<1>8. /\ u.deadline = d /\ u.assignee = a /\ u.status = s /\ u.pending = t.pending
      /\ u.reasons = t.reasons /\ u.hold = t.hold
  BY DEF Tasks
<1> HIDE DEF u
<1>9. /\ v \in Tasks
      /\ v.deadline = d /\ v.assignee = a /\ v.status = s /\ v.pending = t.pending
      /\ v.reasons = t.reasons /\ v.hold = t.hold
  BY <1>7, <1>8, QuoteAdded, ConflictsAdded
<1> HIDE DEF v
<1>10. Sound(v, clock)
  BY <1>3, <1>4, <1>5, <1>9 DEF Sound, Is
<1>11. Consents(t, v, "assign")
  <2>1. FieldConsent("deadline", t.deadline, d, v.history, "assign")
    BY <1>3 DEF FieldConsent, Is
  <2>2. FieldConsent("assignee", t.assignee, a, v.history, "assign")
    BY <1>4 DEF FieldConsent, Is
  <2>3. StatusConsent(t.status, s, "assign")
    BY DEF StatusConsent
  <2> QED
    BY <1>9, <2>1, <2>2, <2>3 DEF Consents
<1> QED
  BY <1>6, <1>9, <1>10, <1>11 DEF Keeps

\* A summary leaves a field its value and its status, or fills an empty one.
LEMMA RepeatedTyped ==
  ASSUME NEW V, None \notin FieldValues(V), NEW fv \in {None} \cup FieldValues(V), NEW v \in {None} \cup V,
         NEW e \in Messages
  PROVE  /\ Repeated(fv, v, e) \in {None} \cup FieldValues(V)
         /\ fv # None => /\ Repeated(fv, v, e) # None /\ Repeated(fv, v, e).value = fv.value
                         /\ Repeated(fv, v, e).status = fv.status
         /\ fv = None => ~Is(Repeated(fv, v, e), "proposed")
<1>1. Found(e) \in SUBSET Places
  BY FoundTyped
<1>2. CASE v = None
  BY <1>2 DEF Repeated, Is
<1>3. CASE v # None /\ fv = None
  <2>1. Repeated(fv, v, e) = FieldValue(v, "agreed", Found(e))
    BY <1>3 DEF Repeated
  <2> QED
    BY <1>1, <1>3, <2>1, ValueTyped DEF Is
<1>4. CASE v # None /\ fv # None
  <2>1. Repeated(fv, v, e) = Backed(fv, Found(e))
    BY <1>4 DEF Repeated
  <2> QED
    BY <1>1, <1>4, <2>1, BackedTyped
<1> QED
  BY <1>2, <1>3, <1>4

\* A summary overwrites nothing.
LEMMA RestatedKeeps ==
  ASSUME NEW t \in Tasks, NEW e \in Messages, Sound(t, clock), NEW type
  PROVE  Keeps(t, Restated(t, e), clock, type)
<1> DEFINE d == Repeated(t.deadline, e.deadline, e)
           a == Repeated(t.assignee, AssigneeValue(e.assignee), e)
           r == IF e.deadline # None /\ t.deadline = None
                THEN t.reasons \cup {"deadline_in_summary"} ELSE t.reasons
           u == [t EXCEPT !.deadline = d, !.assignee = a, !.reasons = r]
           w == IF Conflicts(t, e) # {} THEN WithConflicts(t, e) ELSE u
<1>1. /\ t.deadline \in {None} \cup FieldValues(Quotes) /\ t.assignee \in {None} \cup FieldValues(Persons)
      /\ t.reasons \in SUBSET Reasons
  BY DEF Tasks
<1>2. /\ d \in {None} \cup FieldValues(Quotes)
      /\ t.deadline # None => d # None /\ d.value = t.deadline.value /\ d.status = t.deadline.status
      /\ t.deadline = None => ~Is(d, "proposed")
  <2>1. e.deadline \in {None} \cup Quotes
    BY DEF Messages
  <2> QED
    BY <1>1, <2>1, RepeatedTyped, Apart
<1>3. /\ a \in {None} \cup FieldValues(Persons)
      /\ t.assignee # None => a # None /\ a.value = t.assignee.value /\ a.status = t.assignee.status
      /\ t.assignee = None => ~Is(a, "proposed")
  <2>1. AssigneeValue(e.assignee) \in {None} \cup Persons
    BY PersonTyped DEF Messages
  <2> QED
    BY <1>1, <2>1, RepeatedTyped, Apart
<1>4. r \in SUBSET Reasons /\ t.reasons \subseteq r
  BY <1>1 DEF Reasons
<1>5. Restated(t, e) = WithQuote(w, e)
  BY DEF Restated
<1> HIDE DEF a, d, r
<1>6. u \in Tasks
  BY <1>2, <1>3, <1>4 DEF Tasks
<1>7. /\ u.deadline = d /\ u.assignee = a /\ u.status = t.status /\ u.pending = t.pending
      /\ u.reasons = r /\ u.hold = t.hold
  BY DEF Tasks
<1> HIDE DEF u
<1>8. /\ w \in Tasks /\ w.status = t.status /\ w.pending = t.pending /\ w.hold = t.hold /\ t.reasons \subseteq w.reasons
      /\ t.deadline # None => w.deadline # None /\ w.deadline.value = t.deadline.value /\ w.deadline.status = t.deadline.status
      /\ t.deadline = None => ~Is(w.deadline, "proposed")
      /\ t.assignee # None => w.assignee # None /\ w.assignee.value = t.assignee.value /\ w.assignee.status = t.assignee.status
      /\ t.assignee = None => ~Is(w.assignee, "proposed")
  <2>1. CASE Conflicts(t, e) # {}
    BY <2>1, ConflictsAdded DEF Is
  <2>2. CASE Conflicts(t, e) = {}
    BY <2>2, <1>2, <1>3, <1>4, <1>6, <1>7
  <2> QED
    BY <2>1, <2>2
<1> HIDE DEF w
<1> DEFINE x == WithQuote(w, e)
<1>9. /\ x \in Tasks /\ x.status = w.status /\ x.deadline = w.deadline /\ x.assignee = w.assignee
      /\ x.pending = w.pending /\ x.hold = w.hold /\ x.reasons = w.reasons
  BY <1>8, QuoteAdded
<1> HIDE DEF x
<1>10. Sound(x, clock)
  BY <1>8, <1>9 DEF Sound, Is
<1>11. Consents(t, x, type)
  BY <1>8, <1>9, FieldKept, StatusKept DEF Consents
<1> QED
  BY <1>5, <1>9, <1>10, <1>11 DEF x, Keeps

\* A suspension is a reason to review the task, and stays one.
LEMMA SuspendedKeeps ==
  ASSUME NEW t \in Tasks, NEW e \in Messages, Sound(t, clock), NEW type
  PROVE  Keeps(t, Suspended(t, e), clock, type)
<1> DEFINE u == [t EXCEPT !.hold = TRUE, !.reasons = @ \cup {"hold"}]
           x == WithQuote(u, e)
<1>1. u \in Tasks
  BY DEF Tasks, Reasons
<1>2. /\ u.status = t.status /\ u.deadline = t.deadline /\ u.assignee = t.assignee /\ u.pending = t.pending
      /\ u.reasons = t.reasons \cup {"hold"}
  BY DEF Tasks
<1>3. Suspended(t, e) = x
  BY DEF Suspended
<1> HIDE DEF u
<1>4. /\ x \in Tasks /\ x.status = t.status /\ x.deadline = t.deadline /\ x.assignee = t.assignee
      /\ x.pending = t.pending /\ x.reasons = t.reasons \cup {"hold"}
  BY <1>1, <1>2, QuoteAdded
<1> HIDE DEF x
<1>5. Sound(x, clock)
  BY <1>4 DEF Sound
<1>6. Consents(t, x, type)
  BY <1>4, FieldKept, StatusKept DEF Consents
<1> QED
  BY <1>3, <1>4, <1>5, <1>6 DEF Keeps

\* A condition leaves the fields as they are.
LEMMA ConditionalKeeps ==
  ASSUME NEW t \in Tasks, NEW e \in Messages, Sound(t, clock), NEW type
  PROVE  Keeps(t, MadeConditional(t, e), clock, type)
<1> DEFINE c == IF e.condition THEN Condition(e) ELSE t.condition
           r == IF e.condition THEN t.reasons ELSE t.reasons \cup {"unquoted_condition"}
           u == [t EXCEPT !.conditional = TRUE, !.condition = c, !.reasons = r]
<1>1. c \in {None} \cup SUBSET Places /\ r \in SUBSET Reasons /\ t.reasons \subseteq r
  BY FoundTyped DEF Condition, Tasks, Reasons
<1>2. MadeConditional(t, e) = u
  BY DEF MadeConditional
<1> HIDE DEF c, r
<1>3. u \in Tasks
  BY <1>1 DEF Tasks
<1>4. /\ u.status = t.status /\ u.deadline = t.deadline /\ u.assignee = t.assignee /\ u.pending = t.pending
      /\ u.reasons = r /\ u.hold = t.hold
  BY DEF Tasks
<1> HIDE DEF u
<1>5. Sound(u, clock)
  BY <1>1, <1>4 DEF Sound
<1>6. Consents(t, u, type)
  BY <1>4, FieldKept, StatusKept DEF Consents
<1> QED
  BY <1>2, <1>3, <1>5, <1>6 DEF Keeps

\* A cancellation ends the task, with all that was agreed about it.
LEMMA CancelledKeeps ==
  ASSUME NEW t \in Tasks, NEW e \in Messages, Sound(t, clock), NEW type
  PROVE  Keeps(t, Cancelled(t, e), clock, type)
<1> DEFINE u == [t EXCEPT !.execution = "cancelled"]
           x == WithQuote(u, e)
<1>1. u \in Tasks
  BY DEF Tasks
<1>2. /\ u.status = t.status /\ u.deadline = t.deadline /\ u.assignee = t.assignee /\ u.pending = t.pending
      /\ u.reasons = t.reasons /\ u.hold = t.hold
  BY DEF Tasks
<1>3. Cancelled(t, e) = x
  BY DEF Cancelled
<1> HIDE DEF u
<1>4. /\ x \in Tasks /\ x.status = t.status /\ x.deadline = t.deadline /\ x.assignee = t.assignee
      /\ x.pending = t.pending /\ x.reasons = t.reasons /\ x.hold = t.hold
  BY <1>1, <1>2, QuoteAdded
<1> HIDE DEF x
<1>5. Sound(x, clock)
  BY <1>4 DEF Sound
<1>6. Consents(t, x, type)
  BY <1>4, FieldKept, StatusKept DEF Consents
<1> QED
  BY <1>3, <1>4, <1>5, <1>6 DEF Keeps

\* An explicit change of the deadline is one that was agreed to, and leaves a record.
LEMMA DeadlineChangedKeeps ==
  ASSUME NEW t \in Tasks, NEW e \in Messages, Sound(t, clock), e.deadline # None
  PROVE  Keeps(t, DeadlineChanged(t, e), clock, "change_deadline")
<1> DEFINE fv == FieldValue(e.deadline, "agreed", Found(e))
           u == SetField(t, "deadline", fv)
           x == [u EXCEPT !.pending = @ \ OfField(@, "deadline")]
<1>1. fv \in FieldValues(Quotes) /\ fv.status = "agreed"
  <2>1. e.deadline \in Quotes /\ Found(e) \in SUBSET Places
    BY FoundTyped DEF Messages
  <2> QED
    BY <2>1, ValueTyped
<1>2. DeadlineChanged(t, e) = x
  BY DEF DeadlineChanged
<1> HIDE DEF fv
<1>3. /\ u \in Tasks
      /\ u.deadline = fv /\ u.assignee = t.assignee /\ u.status = t.status
      /\ u.pending = t.pending /\ u.hold = t.hold /\ u.reasons = t.reasons
      /\ t.deadline # None /\ t.deadline.value # fv.value =>
           Entry("changed", "deadline", t.deadline.value, fv.value) \in u.history
  BY <1>1, DeadlineSet
<1> HIDE DEF u
<1>4. x \in Tasks
  BY <1>3 DEF Tasks
<1>5. /\ x.deadline = fv /\ x.assignee = t.assignee /\ x.status = t.status /\ x.history = u.history
      /\ x.pending \subseteq t.pending /\ x.hold = t.hold /\ x.reasons = t.reasons
  BY <1>3 DEF Tasks
<1> HIDE DEF x
<1>6. Sound(x, clock)
  BY <1>1, <1>5 DEF Sound, Is
<1>7. FieldConsent("deadline", t.deadline, fv, u.history, "change_deadline")
  BY <1>1, <1>3, Apart DEF FieldConsent, Is
<1>8. Consents(t, x, "change_deadline")
  BY <1>5, <1>7, FieldKept, StatusKept DEF Consents
<1> QED
  BY <1>2, <1>4, <1>6, <1>8 DEF Keeps

\* So is one of the assignee.
LEMMA AssigneeChangedKeeps ==
  ASSUME NEW t \in Tasks, NEW e \in Messages, Sound(t, clock), e.assignee # None
  PROVE  Keeps(t, AssigneeChanged(t, e), clock, "change_assignee")
<1> DEFINE fv == FieldValue(AssigneeValue(e.assignee), "agreed", Found(e))
           u == SetField(t, "assignee", fv)
<1>1. fv \in FieldValues(Persons) /\ fv.status = "agreed"
  <2>1. AssigneeValue(e.assignee) \in Persons /\ Found(e) \in SUBSET Places
    BY FoundTyped, PersonTyped DEF Messages
  <2> QED
    BY <2>1, ValueTyped
<1>2. AssigneeChanged(t, e) = u
  BY DEF AssigneeChanged
<1> HIDE DEF fv
<1>3. /\ u \in Tasks
      /\ u.assignee = fv /\ u.deadline = t.deadline /\ u.status = t.status
      /\ u.pending = t.pending /\ u.hold = t.hold /\ u.reasons = t.reasons
      /\ t.assignee # None /\ t.assignee.value # fv.value =>
           Entry("changed", "assignee", t.assignee.value, fv.value) \in u.history
  BY <1>1, AssigneeSet
<1> HIDE DEF u
<1>4. Sound(u, clock)
  BY <1>1, <1>3 DEF Sound, Is
<1>5. FieldConsent("assignee", t.assignee, fv, u.history, "change_assignee")
  BY <1>1, <1>3, Apart DEF FieldConsent, Is
<1>6. Consents(t, u, "change_assignee")
  BY <1>3, <1>5, FieldKept, StatusKept DEF Consents
<1> QED
  BY <1>2, <1>3, <1>4, <1>6 DEF Keeps

\* An objection agrees to nothing, and what was agreed it leaves alone.
LEMMA ObjectedKeeps ==
  ASSUME NEW t \in Tasks, NEW e \in Messages, Sound(t, clock)
  PROVE  Keeps(t, Objected(t, e), clock, "reject")
<1> DEFINE batch == Batch(t.pending)
           turned == {Entry("rejected", p.field, p.value, None) : p \in batch}
<1>1. batch \subseteq t.pending
  BY DEF Batch
<1>2. turned \in SUBSET Change
  BY <1>1 DEF Tasks, Proposal, Entry, Change, Fields
<1> HIDE DEF batch, turned
<1>3. CASE t.pending # {}
  <2> DEFINE u == [t EXCEPT !.pending = @ \ batch, !.history = @ \cup turned]
  <2>1. Objected(t, e) = u
    BY <1>3 DEF Objected, batch, turned
  <2>2. u \in Tasks
    BY <1>2 DEF Tasks
  <2>3. /\ u.status = t.status /\ u.deadline = t.deadline /\ u.assignee = t.assignee /\ u.pending \subseteq t.pending
        /\ u.reasons = t.reasons /\ u.hold = t.hold
    BY DEF Tasks
  <2> HIDE DEF u
  <2>4. Sound(u, clock)
    BY <2>3 DEF Sound
  <2>5. Consents(t, u, "reject")
    BY <2>3, FieldKept, StatusKept DEF Consents
  <2> QED
    BY <2>1, <2>2, <2>4, <2>5 DEF Keeps
<1>4. CASE t.pending = {} /\ Is(t.deadline, "proposed") /\ (e.deadline # None \/ t.status # "proposed")
  <2> DEFINE entry == Entry("rejected", "deadline", t.deadline.value, None)
             u == [t EXCEPT !.deadline = None, !.history = @ \cup {entry}]
  <2>1. Objected(t, e) = u
    BY <1>4 DEF Objected
  <2>2. entry \in Change
    BY <1>4 DEF Is, Tasks, FieldValues, Entry, Change, Fields
  <2> HIDE DEF entry
  <2>3. u \in Tasks
    BY <2>2 DEF Tasks
  <2>4. /\ u.status = t.status /\ u.deadline = None /\ u.assignee = t.assignee /\ u.pending = t.pending
        /\ u.reasons = t.reasons /\ u.hold = t.hold
    BY DEF Tasks
  <2> HIDE DEF u
  <2>5. Sound(u, clock)
    BY <2>4 DEF Sound, Is
  <2>6. FieldConsent("deadline", t.deadline, None, u.history, "reject")
    BY <1>4 DEF FieldConsent, Is
  <2>7. Consents(t, u, "reject")
    BY <2>4, <2>6, FieldKept, StatusKept DEF Consents
  <2> QED
    BY <2>1, <2>3, <2>5, <2>7 DEF Keeps
<1>5. CASE t.pending = {} /\ ~(Is(t.deadline, "proposed") /\ (e.deadline # None \/ t.status # "proposed"))
  <2> DEFINE s == IF t.status = "proposed" THEN "rejected" ELSE t.status
             u == [t EXCEPT !.status = s]
  <2>1. Objected(t, e) = u
    BY <1>5 DEF Objected
  <2>2. s \in Statuses /\ s # "proposed" /\ (t.status # "proposed" => s = t.status) /\ (t.status = "proposed" => s = "rejected")
    BY DEF Tasks, Statuses
  <2> HIDE DEF s
  <2>3. u \in Tasks
    BY <2>2 DEF Tasks
  <2>4. /\ u.status = s /\ u.deadline = t.deadline /\ u.assignee = t.assignee /\ u.pending = t.pending
        /\ u.reasons = t.reasons /\ u.hold = t.hold
    BY DEF Tasks
  <2> HIDE DEF u
  <2>5. Sound(u, clock)
    BY <2>2, <2>4 DEF Sound
  <2>6. StatusConsent(t.status, s, "reject")
    BY <2>2 DEF StatusConsent
  <2>7. Consents(t, u, "reject")
    BY <2>4, <2>6, FieldKept DEF Consents
  <2> QED
    BY <2>1, <2>3, <2>5, <2>7 DEF Keeps
<1> QED
  BY <1>3, <1>4, <1>5

\* What an objection proposes instead is a proposal like others.
LEMMA RejectedKeeps ==
  ASSUME NEW t \in Tasks, NEW e \in Messages, clock \in Nat, Sound(t, clock)
  PROVE  Keeps(t, Rejected(t, e), clock, "reject")
<1> DEFINE counter == IF SameDeadline(e.deadline, TurnedDown(t, e)) THEN None ELSE e.deadline
           own == [e EXCEPT !.deadline = counter, !.assignee = None]
           new == Proposals(own, clock)
           o == Objected(t, e)
           u == [o EXCEPT !.pending = @ \cup new]
<1>1. counter \in Quotes \cup {None}
  BY DEF Messages
<1> HIDE DEF counter
<1>2. own \in Messages
  BY <1>1 DEF Messages
<1> HIDE DEF own
<1>3. new \in SUBSET Proposal /\ \A p \in new : p.at <= clock
  BY <1>2, FoundTyped, PersonTyped, Apart DEF Proposals, Messages, Proposal
<1>4. o \in Tasks /\ Sound(o, clock) /\ Consents(t, o, "reject")
  BY ObjectedKeeps DEF Keeps
<1>5. Rejected(t, e) = u
  BY DEF Rejected, counter, own
<1> HIDE DEF new, o
<1>6. u \in Tasks
  BY <1>3, <1>4 DEF Tasks
<1>7. /\ u.status = o.status /\ u.deadline = o.deadline /\ u.assignee = o.assignee /\ u.pending = o.pending \cup new
      /\ u.reasons = o.reasons /\ u.hold = o.hold /\ u.history = o.history
  BY <1>4 DEF Tasks
<1> HIDE DEF u
<1>8. Sound(u, clock)
  BY <1>3, <1>4, <1>7 DEF Sound
<1>9. Consents(t, u, "reject")
  BY <1>4, <1>7 DEF Consents
<1> QED
  BY <1>5, <1>6, <1>8, <1>9 DEF Keeps

\* An acceptance that quotes a deadline: the deadline is agreed, and no proposal about it is left.
LEMMA QuotedAgreed ==
  ASSUME NEW t \in Tasks, NEW e \in Messages, clock \in Nat, Sound(t, clock), e.deadline # None
  PROVE  LET u == AgreeQuoted(t, e)
         IN  /\ u \in Tasks /\ Is(u.deadline, "agreed")
             /\ u.assignee = t.assignee /\ u.status = t.status /\ u.hold = t.hold /\ u.reasons = t.reasons
             /\ u.pending \subseteq t.pending /\ OfField(u.pending, "deadline") = {}
             /\ FieldConsent("deadline", t.deadline, u.deadline, u.history, "accept")
<1> DEFINE pend   == OfField(t.pending, "deadline")
           latest == LatestOf(pend)
           taken  == IF pend # {} /\ SameDeadline(latest.value, e.deadline) THEN {latest} ELSE {}
           kept   == taken = {} /\ t.deadline # None /\ SameDeadline(t.deadline.value, e.deadline)
           value  == CASE taken # {} -> FieldValue(latest.value, "agreed", latest.evidence \cup Found(e))
                       [] kept -> FieldValue(t.deadline.value, "agreed", t.deadline.evidence \cup Found(e))
                       [] OTHER -> FieldValue(e.deadline, "agreed", Found(e))
           u      == SetField(t, "deadline", value)
           closed == {Entry("superseded", "deadline", p.value, None) : p \in pend \ taken}
           x      == [u EXCEPT !.pending = @ \ pend, !.history = @ \cup closed]
<1>1. AgreeQuoted(t, e) = x
  BY DEF AgreeQuoted
<1>2. /\ Found(e) \in SUBSET Places /\ e.deadline \in Quotes
      /\ t.deadline \in {None} \cup FieldValues(Quotes)
  BY FoundTyped DEF Messages, Tasks
<1>3. /\ pend \subseteq t.pending
      /\ \A p \in pend : p.value \in Quotes /\ p.evidence \in SUBSET Places /\ p.at \in Nat /\ p.at <= clock
  BY DEF OfField, Tasks, Proposal, Sound
<1>4. pend # {} => latest \in pend
  <2> HIDE DEF pend
  <2> QED
    BY <1>3, LatestIsOne
<1>5. value \in FieldValues(Quotes) /\ value.status = "agreed"
  <2>1. CASE taken # {}
    <3>1. latest.value \in Quotes /\ latest.evidence \in SUBSET Places
      <4>1. pend # {}
        BY <2>1
      <4> HIDE DEF pend, latest
      <4> QED
        BY <1>3, <1>4, <4>1
    <3>2. value = FieldValue(latest.value, "agreed", latest.evidence \cup Found(e))
      BY <2>1
    <3> HIDE DEF latest, taken, value
    <3>3. latest.evidence \cup Found(e) \in SUBSET Places
      BY <1>2, <3>1
    <3> QED
      BY <3>1, <3>2, <3>3, ValueTyped
  <2>2. CASE taken = {} /\ kept
    <3>1. t.deadline.value \in Quotes /\ t.deadline.evidence \in SUBSET Places
      BY <1>2, <2>2 DEF FieldValues
    <3>2. value = FieldValue(t.deadline.value, "agreed", t.deadline.evidence \cup Found(e))
      BY <2>2
    <3> HIDE DEF taken, kept, value
    <3>3. t.deadline.evidence \cup Found(e) \in SUBSET Places
      BY <1>2, <3>1
    <3> QED
      BY <3>1, <3>2, <3>3, ValueTyped
  <2>3. CASE taken = {} /\ ~kept
    <3>1. value = FieldValue(e.deadline, "agreed", Found(e))
      BY <2>3
    <3> HIDE DEF taken, kept, value
    <3> QED
      BY <1>2, <3>1, ValueTyped
  <2> QED
    BY <2>1, <2>2, <2>3
<1>6. closed \in SUBSET Change
  <2> HIDE DEF pend, taken
  <2>1. \A p \in pend \ taken : Entry("superseded", "deadline", p.value, None) \in Change
    BY <1>3 DEF Entry, Change, Fields
  <2> QED
    BY <2>1
<1> HIDE DEF value, closed, taken, kept, latest
<1>7. /\ u \in Tasks
      /\ u.deadline = value /\ u.assignee = t.assignee /\ u.status = t.status
      /\ u.pending = t.pending /\ u.hold = t.hold /\ u.reasons = t.reasons
      /\ t.deadline # None /\ t.deadline.value # value.value =>
           Entry("changed", "deadline", t.deadline.value, value.value) \in u.history
  BY <1>5, DeadlineSet
<1> HIDE DEF u
<1>8. x \in Tasks
  BY <1>6, <1>7 DEF Tasks
<1>9. /\ x.deadline = value /\ x.assignee = t.assignee /\ x.status = t.status /\ x.history = u.history \cup closed
      /\ x.pending = t.pending \ pend /\ x.hold = t.hold /\ x.reasons = t.reasons
  BY <1>7 DEF Tasks
<1> HIDE DEF x
<1>10. OfField(x.pending, "deadline") = {}
  BY <1>9 DEF OfField
<1>11. value # None
  BY <1>5, Apart
<1>12. FieldConsent("deadline", t.deadline, value, x.history, "accept")
  BY <1>5, <1>7, <1>9, <1>11 DEF FieldConsent, Is
<1> QED
  BY <1>1, <1>5, <1>8, <1>9, <1>10, <1>11, <1>12 DEF Is

\* What is taken over of the proposals of one event.
LEMMA TakenDeadline ==
  ASSUME NEW t \in Tasks, NEW ps \in SUBSET Proposal, NEW now \in Nat, \A p \in ps : p.at <= now,
         NEW ev \in SUBSET Places
  PROVE  LET u == TakeOver(t, ps, "deadline", ev)
         IN  /\ u \in Tasks
             /\ u.assignee = t.assignee /\ u.status = t.status /\ u.hold = t.hold /\ u.reasons = t.reasons
             /\ u.pending = t.pending /\ t.history \subseteq u.history
             /\ u.deadline = t.deadline \/ Is(u.deadline, "agreed")
             /\ OfField(ps, "deadline") = {} => u = t
             /\ FieldConsent("deadline", t.deadline, u.deadline, u.history, "accept")
<1> DEFINE qs == OfField(ps, "deadline")
           p  == LatestOf(qs)
           fv == FieldValue(p.value, "agreed", p.evidence \cup ev)
<1>1. CASE qs = {}
  <2>1. TakeOver(t, ps, "deadline", ev) = t
    BY <1>1 DEF TakeOver
  <2>2. FieldConsent("deadline", t.deadline, t.deadline, t.history, "accept")
    BY FieldKept
  <2> QED
    BY <2>1, <2>2
<1>2. CASE qs # {}
  <2>1. \A q \in qs : q.value \in Quotes /\ q.evidence \in SUBSET Places /\ q.at \in Nat /\ q.at <= now
    BY DEF OfField, Proposal
  <2>2. p \in qs
    <3> HIDE DEF qs
    <3> QED
      BY <1>2, <2>1, LatestIsOne
  <2>3. TakeOver(t, ps, "deadline", ev) = SetField(t, "deadline", fv)
    BY <1>2 DEF TakeOver
  <2>4. fv \in FieldValues(Quotes) /\ fv.status = "agreed"
    <3> HIDE DEF p, qs
    <3>1. p.evidence \cup ev \in SUBSET Places /\ p.value \in Quotes
      BY <2>1, <2>2
    <3> QED
      BY <3>1, ValueTyped
  <2>5. OfField(ps, "deadline") # {}
    BY <1>2
  <2> DEFINE u == SetField(t, "deadline", fv)
  <2> HIDE DEF fv, p, qs
  <2>6. /\ u \in Tasks
        /\ u.deadline = fv /\ u.assignee = t.assignee /\ u.status = t.status
        /\ u.pending = t.pending /\ u.hold = t.hold /\ u.reasons = t.reasons
        /\ t.history \subseteq u.history
        /\ t.deadline # None /\ t.deadline.value # fv.value =>
             Entry("changed", "deadline", t.deadline.value, fv.value) \in u.history
    BY <2>4, DeadlineSet
  <2> HIDE DEF u
  <2>7. fv # None
    BY <2>4, Apart
  <2>8. FieldConsent("deadline", t.deadline, u.deadline, u.history, "accept") /\ Is(u.deadline, "agreed")
    BY <2>4, <2>6, <2>7 DEF FieldConsent, Is
  <2>9. TakeOver(t, ps, "deadline", ev) = u
    BY <2>3 DEF u
  <2> QED
    BY <2>5, <2>6, <2>8, <2>9
<1> QED
  BY <1>1, <1>2

\* The same of the assignee.
LEMMA TakenAssignee ==
  ASSUME NEW t \in Tasks, NEW ps \in SUBSET Proposal, NEW now \in Nat, \A p \in ps : p.at <= now,
         NEW ev \in SUBSET Places
  PROVE  LET u == TakeOver(t, ps, "assignee", ev)
         IN  /\ u \in Tasks
             /\ u.deadline = t.deadline /\ u.status = t.status /\ u.hold = t.hold /\ u.reasons = t.reasons
             /\ u.pending = t.pending /\ t.history \subseteq u.history
             /\ u.assignee = t.assignee \/ Is(u.assignee, "agreed")
             /\ FieldConsent("assignee", t.assignee, u.assignee, u.history, "accept")
<1> DEFINE qs == OfField(ps, "assignee")
           p  == LatestOf(qs)
           fv == FieldValue(p.value, "agreed", p.evidence \cup ev)
<1>1. CASE qs = {}
  <2>1. TakeOver(t, ps, "assignee", ev) = t
    BY <1>1 DEF TakeOver
  <2>2. FieldConsent("assignee", t.assignee, t.assignee, t.history, "accept")
    BY FieldKept
  <2> QED
    BY <2>1, <2>2
<1>2. CASE qs # {}
  <2>1. \A q \in qs : q.value \in Persons /\ q.evidence \in SUBSET Places /\ q.at \in Nat /\ q.at <= now
    BY DEF OfField, Proposal
  <2>2. p \in qs
    <3> HIDE DEF qs
    <3> QED
      BY <1>2, <2>1, LatestIsOne
  <2>3. TakeOver(t, ps, "assignee", ev) = SetField(t, "assignee", fv)
    BY <1>2 DEF TakeOver
  <2>4. fv \in FieldValues(Persons) /\ fv.status = "agreed"
    <3> HIDE DEF p, qs
    <3>1. p.evidence \cup ev \in SUBSET Places /\ p.value \in Persons
      BY <2>1, <2>2
    <3> QED
      BY <3>1, ValueTyped
  <2> DEFINE u == SetField(t, "assignee", fv)
  <2> HIDE DEF fv, p, qs
  <2>6. /\ u \in Tasks
        /\ u.assignee = fv /\ u.deadline = t.deadline /\ u.status = t.status
        /\ u.pending = t.pending /\ u.hold = t.hold /\ u.reasons = t.reasons
        /\ t.history \subseteq u.history
        /\ t.assignee # None /\ t.assignee.value # fv.value =>
             Entry("changed", "assignee", t.assignee.value, fv.value) \in u.history
    BY <2>4, AssigneeSet
  <2> HIDE DEF u
  <2>7. fv # None
    BY <2>4, Apart
  <2>8. FieldConsent("assignee", t.assignee, u.assignee, u.history, "accept") /\ Is(u.assignee, "agreed")
    BY <2>4, <2>6, <2>7 DEF FieldConsent, Is
  <2>9. TakeOver(t, ps, "assignee", ev) = u
    BY <2>3 DEF u
  <2> QED
    BY <2>6, <2>8, <2>9
<1> QED
  BY <1>1, <1>2

\* The proposals of the latest event are agreed to, each about another field.
LEMMA LatestAgreed ==
  ASSUME NEW t \in Tasks, NEW e \in Messages, clock \in Nat, Sound(t, clock)
  PROVE  LET u == AgreeLatest(t, e)
         IN  /\ u \in Tasks /\ u.status = t.status /\ u.hold = t.hold /\ u.reasons = t.reasons
             /\ u.pending \subseteq t.pending /\ t.history \subseteq u.history
             /\ u.deadline = t.deadline \/ Is(u.deadline, "agreed")
             /\ u.assignee = t.assignee \/ Is(u.assignee, "agreed")
             /\ OfField(t.pending, "deadline") = {} => u.deadline = t.deadline
             /\ FieldConsent("deadline", t.deadline, u.deadline, u.history, "accept")
             /\ FieldConsent("assignee", t.assignee, u.assignee, u.history, "accept")
<1> DEFINE batch == Batch(t.pending)
           d == TakeOver(t, batch, "deadline", Found(e))
           a == TakeOver(d, batch, "assignee", Found(e))
           x == [a EXCEPT !.pending = @ \ Batch(@)]
<1>1. CASE t.pending = {}
  <2>1. AgreeLatest(t, e) = t
    BY <1>1 DEF AgreeLatest
  <2> QED
    BY <2>1, FieldKept
<1>2. CASE t.pending # {}
  <2>1. AgreeLatest(t, e) = x
    BY <1>2 DEF AgreeLatest, SetFields
  <2>2. batch \subseteq t.pending
    BY DEF Batch
  <2>3. batch \in SUBSET Proposal /\ (\A p \in batch : p.at <= clock) /\ Found(e) \in SUBSET Places
    BY <2>2, FoundTyped DEF Tasks, Sound
  <2>4. OfField(t.pending, "deadline") = {} => OfField(batch, "deadline") = {}
    BY <2>2 DEF OfField
  <2> HIDE DEF batch
  <2>5. /\ d \in Tasks
        /\ d.assignee = t.assignee /\ d.status = t.status /\ d.hold = t.hold /\ d.reasons = t.reasons
        /\ d.pending = t.pending /\ t.history \subseteq d.history
        /\ d.deadline = t.deadline \/ Is(d.deadline, "agreed")
        /\ OfField(batch, "deadline") = {} => d = t
        /\ FieldConsent("deadline", t.deadline, d.deadline, d.history, "accept")
    BY <2>3, TakenDeadline
  <2> HIDE DEF d
  <2>6. /\ a \in Tasks
        /\ a.deadline = d.deadline /\ a.status = d.status /\ a.hold = d.hold /\ a.reasons = d.reasons
        /\ a.pending = d.pending /\ d.history \subseteq a.history
        /\ a.assignee = d.assignee \/ Is(a.assignee, "agreed")
        /\ FieldConsent("assignee", d.assignee, a.assignee, a.history, "accept")
    BY <2>3, <2>5, TakenAssignee
  <2> HIDE DEF a
  <2>7. x \in Tasks
    BY <2>6 DEF Tasks
  <2>8. /\ x.status = a.status /\ x.deadline = a.deadline /\ x.assignee = a.assignee /\ x.history = a.history
        /\ x.pending \subseteq a.pending /\ x.hold = a.hold /\ x.reasons = a.reasons
    BY <2>6 DEF Tasks
  <2> HIDE DEF x
  <2>9. FieldConsent("deadline", t.deadline, x.deadline, x.history, "accept")
    BY <2>5, <2>6, <2>8 DEF FieldConsent
  <2>10. FieldConsent("assignee", t.assignee, x.assignee, x.history, "accept")
    BY <2>5, <2>6, <2>8
  <2>11. /\ x.status = t.status /\ x.hold = t.hold /\ x.reasons = t.reasons
         /\ x.pending \subseteq t.pending /\ t.history \subseteq x.history
    BY <2>5, <2>6, <2>8
  <2>12. /\ x.deadline = t.deadline \/ Is(x.deadline, "agreed")
         /\ x.assignee = t.assignee \/ Is(x.assignee, "agreed")
         /\ OfField(t.pending, "deadline") = {} => x.deadline = t.deadline
    BY <2>4, <2>5, <2>6, <2>8
  <2> QED
    BY <2>1, <2>7, <2>9, <2>10, <2>11, <2>12
<1> QED
  BY <1>1, <1>2

\* A value that was proposed is agreed to, without a change.
LEMMA AgreedTyped ==
  ASSUME NEW V, None \notin FieldValues(V), NEW fv \in {None} \cup FieldValues(V), NEW ev \in SUBSET Places
  PROVE  /\ Agreed(fv, ev) \in {None} \cup FieldValues(V)
         /\ fv # None => Agreed(fv, ev) # None /\ Agreed(fv, ev).value = fv.value
         /\ Is(fv, "agreed") => Is(Agreed(fv, ev), "agreed")
         /\ ~Is(Agreed(fv, ev), "proposed")
<1>1. CASE Is(fv, "proposed")
  <2>1. fv # None /\ fv.status = "proposed"
    BY <1>1 DEF Is
  <2>2. fv.value \in V /\ fv.evidence \cup ev \in SUBSET Places
    BY <2>1 DEF FieldValues
  <2>3. Agreed(fv, ev) = FieldValue(fv.value, "agreed", fv.evidence \cup ev)
    BY <1>1 DEF Agreed
  <2>4. /\ Agreed(fv, ev) \in FieldValues(V) /\ Agreed(fv, ev).value = fv.value
        /\ Agreed(fv, ev).status = "agreed"
    BY <2>2, <2>3, ValueTyped
  <2> QED
    BY <2>1, <2>4 DEF Is
<1>2. CASE ~Is(fv, "proposed")
  BY <1>2 DEF Agreed
<1> QED
  BY <1>1, <1>2

\* What has been agreed so far stays agreed when the rest of the acceptance leaves the value.
LEMMA ConsentCarried ==
  ASSUME NEW f, NEW fv, NEW gv, NEW wv, NEW h, NEW k, FieldConsent(f, fv, gv, h, "accept"), h \subseteq k,
         gv # None => wv # None /\ wv.value = gv.value,
         Is(gv, "agreed") => Is(wv, "agreed")
  PROVE  FieldConsent(f, fv, wv, k, "accept")
  BY DEF FieldConsent, Is

\* With the task nothing about it remains a mere proposal.
LEMMA ShownAgreed ==
  ASSUME NEW t \in Tasks, NEW e \in Messages, Sound(t, clock)
  PROVE  LET u == AgreeShown(t, e)
         IN  /\ u \in Tasks /\ Sound(u, clock) /\ u.history = t.history
             /\ t.status = "proposed" \/ u.status = t.status
             /\ t.deadline # None => u.deadline # None /\ u.deadline.value = t.deadline.value
             /\ Is(t.deadline, "agreed") => Is(u.deadline, "agreed")
             /\ t.assignee # None => u.assignee # None /\ u.assignee.value = t.assignee.value
             /\ Is(t.assignee, "agreed") => Is(u.assignee, "agreed")
<1> DEFINE d == Agreed(t.deadline, Found(e))
           a == Agreed(t.assignee, {})
           r == t.reasons \ {"proposed"}
<1>1. /\ t.deadline \in {None} \cup FieldValues(Quotes) /\ t.assignee \in {None} \cup FieldValues(Persons)
      /\ Found(e) \in SUBSET Places /\ {} \in SUBSET Places
  BY FoundTyped DEF Tasks
<1>2. /\ d \in {None} \cup FieldValues(Quotes)
      /\ t.deadline # None => d # None /\ d.value = t.deadline.value
      /\ Is(t.deadline, "agreed") => Is(d, "agreed")
      /\ ~Is(d, "proposed")
  BY <1>1, AgreedTyped, Apart
<1>3. /\ a \in {None} \cup FieldValues(Persons)
      /\ t.assignee # None => a # None /\ a.value = t.assignee.value
      /\ Is(t.assignee, "agreed") => Is(a, "agreed")
      /\ ~Is(a, "proposed")
  BY <1>1, AgreedTyped, Apart
<1>4. CASE t.status = "proposed"
  <2> DEFINE u == [t EXCEPT !.deadline = d, !.assignee = a, !.status = "agreed", !.reasons = r]
  <2>1. AgreeShown(t, e) = u
    BY <1>4 DEF AgreeShown
  <2>2. r \in SUBSET Reasons /\ ("hold" \in t.reasons => "hold" \in r)
    BY DEF Tasks
  <2> HIDE DEF a, d, r
  <2>3. u \in Tasks
    BY <1>2, <1>3, <2>2 DEF Tasks, Statuses
  <2>4. /\ u.deadline = d /\ u.assignee = a /\ u.status = "agreed" /\ u.pending = t.pending /\ u.reasons = r
        /\ u.hold = t.hold /\ u.history = t.history
    BY DEF Tasks
  <2> HIDE DEF u
  <2>5. Sound(u, clock)
    BY <1>2, <1>3, <2>2, <2>4 DEF Sound
  <2> QED
    BY <1>2, <1>3, <1>4, <2>1, <2>3, <2>4, <2>5
<1>5. CASE t.status # "proposed"
  <2> DEFINE u == [t EXCEPT !.deadline = d]
  <2>1. AgreeShown(t, e) = u
    BY <1>5 DEF AgreeShown
  <2> HIDE DEF a, d
  <2>2. u \in Tasks
    BY <1>2 DEF Tasks
  <2>3. /\ u.deadline = d /\ u.assignee = t.assignee /\ u.status = t.status /\ u.pending = t.pending
        /\ u.reasons = t.reasons /\ u.hold = t.hold /\ u.history = t.history
    BY DEF Tasks
  <2> HIDE DEF u
  <2>4. Sound(u, clock)
    BY <1>2, <2>3 DEF Sound
  <2> QED
    BY <1>2, <2>1, <2>2, <2>3, <2>4
<1> QED
  BY <1>4, <1>5

\* An acceptance changes each field at most once, on the record.
LEMMA AcceptedKeeps ==
  ASSUME NEW t \in Tasks, NEW e \in Messages, clock \in Nat, Sound(t, clock)
  PROVE  Keeps(t, Accepted(t, e), clock, "accept")
<1> DEFINE q == AgreeQuoted(t, e)
           l == AgreeLatest(q, e)
           u == AgreeShown(l, e)
<1>1. /\ q \in Tasks /\ q.assignee = t.assignee /\ q.status = t.status /\ q.hold = t.hold /\ q.reasons = t.reasons
      /\ q.pending \subseteq t.pending
      /\ q = t \/ (Is(q.deadline, "agreed") /\ OfField(q.pending, "deadline") = {})
      /\ FieldConsent("deadline", t.deadline, q.deadline, q.history, "accept")
  <2>1. CASE e.deadline = None
    <3>1. q = t
      BY <2>1 DEF AgreeQuoted
    <3> HIDE DEF q
    <3> QED
      BY <3>1, FieldKept
  <2>2. CASE e.deadline # None
    <3> HIDE DEF l, u
    <3> QED
      BY <2>2, QuotedAgreed
  <2> QED
    BY <2>1, <2>2
<1>2. Accepted(t, e) = u
  BY DEF Accepted
<1> HIDE DEF q
<1>3. Sound(q, clock)
  BY <1>1 DEF Sound, Is
<1>4. /\ l \in Tasks /\ l.status = q.status /\ l.hold = q.hold /\ l.reasons = q.reasons
      /\ l.pending \subseteq q.pending /\ q.history \subseteq l.history
      /\ l.deadline = q.deadline \/ Is(l.deadline, "agreed")
      /\ l.assignee = q.assignee \/ Is(l.assignee, "agreed")
      /\ OfField(q.pending, "deadline") = {} => l.deadline = q.deadline
      /\ FieldConsent("deadline", q.deadline, l.deadline, l.history, "accept")
      /\ FieldConsent("assignee", q.assignee, l.assignee, l.history, "accept")
  BY <1>1, <1>3, LatestAgreed
<1> HIDE DEF l
<1>5. Sound(l, clock)
  BY <1>3, <1>4 DEF Sound, Is
<1>6. FieldConsent("deadline", t.deadline, l.deadline, l.history, "accept")
  <2>1. CASE q = t
    BY <1>4, <2>1
  <2>2. CASE OfField(q.pending, "deadline") = {}
    BY <1>1, <1>4, <2>2, ConsentCarried
  <2> QED
    BY <1>1, <2>1, <2>2
<1>7. FieldConsent("assignee", t.assignee, l.assignee, l.history, "accept")
  BY <1>1, <1>4
<1>8. /\ u \in Tasks /\ Sound(u, clock) /\ u.history = l.history
      /\ l.status = "proposed" \/ u.status = l.status
      /\ l.deadline # None => u.deadline # None /\ u.deadline.value = l.deadline.value
      /\ Is(l.deadline, "agreed") => Is(u.deadline, "agreed")
      /\ l.assignee # None => u.assignee # None /\ u.assignee.value = l.assignee.value
      /\ Is(l.assignee, "agreed") => Is(u.assignee, "agreed")
  BY <1>4, <1>5, ShownAgreed
<1> HIDE DEF u
<1>9. FieldConsent("deadline", t.deadline, u.deadline, u.history, "accept")
  BY <1>6, <1>8, ConsentCarried
<1>10. FieldConsent("assignee", t.assignee, u.assignee, u.history, "accept")
  BY <1>7, <1>8, ConsentCarried
<1>11. Consents(t, u, "accept")
  BY <1>9, <1>10 DEF Consents, StatusConsent
<1> QED
  BY <1>2, <1>8, <1>11 DEF Keeps

-----------------------------------------------------------------------------
(* An event and the registry. *)

\* Every task that was there is changed by consent only.
Consented == \A i \in DOMAIN tasks : Consents(tasks[i], tasks'[i], last')

\* What was proposed by now was proposed by any later time.
LEMMA SoundLater ==
  ASSUME NEW t \in Tasks, NEW now \in Nat, NEW later \in Nat, now <= later, Sound(t, now)
  PROVE  Sound(t, later)
  BY DEF Sound, Tasks, Proposal

\* A task that stays the same has nothing to answer for.
LEMMA Untouched == \A t, type : Consents(t, t, type)
  BY FieldKept, StatusKept DEF Consents

\* A step that adds no task and changes none but one.
LEMMA OneTaskKept ==
  ASSUME LinkInv, NEW i \in 1..Len(tasks), NEW u, Keeps(tasks[i], u, clock, last'),
         tasks' = [tasks EXCEPT ![i] = u], windowRefs' \in [Refs -> 0..Len(tasks)], clock' = clock + 1
  PROVE  LinkInv' /\ Consented
<1>1. /\ clock \in Nat /\ tasks \in Seq(Tasks) /\ Len(tasks) \in Nat /\ DOMAIN tasks = 1..Len(tasks)
      /\ \A j \in 1..Len(tasks) : tasks[j] \in Tasks /\ Sound(tasks[j], clock)
      /\ u \in Tasks /\ Sound(u, clock) /\ Consents(tasks[i], u, last')
  BY DEF LinkInv, Keeps
<1>2. tasks' \in Seq(Tasks) /\ Len(tasks') = Len(tasks) /\ DOMAIN tasks' = 1..Len(tasks)
  BY <1>1
<1>3. \A j \in 1..Len(tasks) : tasks'[j] = IF j = i THEN u ELSE tasks[j]
  BY <1>1
<1>4. ASSUME NEW j \in 1..Len(tasks) PROVE Sound(tasks'[j], clock')
  <2>1. tasks'[j] \in Tasks /\ Sound(tasks'[j], clock)
    BY <1>1, <1>3
  <2>2. clock + 1 \in Nat /\ clock <= clock + 1
    BY <1>1
  <2> QED
    BY <1>1, <2>1, <2>2, SoundLater
<1>5. LinkInv'
  <2>1. clock' \in Nat
    BY <1>1
  <2> QED
    BY <1>2, <1>4, <2>1 DEF LinkInv
<1>6. Consented
  BY <1>1, <1>3, Untouched DEF Consented
<1> QED
  BY <1>5, <1>6

\* A step that leaves the tasks alone.
LEMMA NoTaskTouched ==
  ASSUME LinkInv, UNCHANGED tasks, windowRefs' \in [Refs -> 0..Len(tasks)], clock' \in Nat, clock <= clock'
  PROVE  LinkInv' /\ Consented
<1>1. /\ clock \in Nat /\ tasks \in Seq(Tasks) /\ DOMAIN tasks = 1..Len(tasks)
      /\ \A j \in 1..Len(tasks) : tasks[j] \in Tasks /\ Sound(tasks[j], clock)
  BY DEF LinkInv
<1>2. \A j \in 1..Len(tasks) : Sound(tasks[j], clock')
  BY <1>1, SoundLater
<1>3. LinkInv'
  BY <1>1, <1>2 DEF LinkInv
<1>4. Consented
  BY Untouched DEF Consented
<1> QED
  BY <1>3, <1>4

\* A step that adds a task at the end.
LEMMA TaskAdded ==
  ASSUME LinkInv, NEW u \in Tasks, Sound(u, clock), tasks' = Append(tasks, u),
         windowRefs' \in [Refs -> 0..Len(tasks) + 1], clock' = clock + 1
  PROVE  LinkInv' /\ Consented
<1>1. /\ clock \in Nat /\ tasks \in Seq(Tasks) /\ Len(tasks) \in Nat /\ DOMAIN tasks = 1..Len(tasks)
      /\ \A j \in 1..Len(tasks) : tasks[j] \in Tasks /\ Sound(tasks[j], clock)
  BY DEF LinkInv
<1>2. tasks' \in Seq(Tasks) /\ Len(tasks') = Len(tasks) + 1 /\ DOMAIN tasks' = 1..Len(tasks) + 1
  BY <1>1
<1>3. \A j \in 1..Len(tasks) + 1 : tasks'[j] = IF j = Len(tasks) + 1 THEN u ELSE tasks[j]
  BY <1>1
<1>4. ASSUME NEW j \in 1..Len(tasks) + 1 PROVE Sound(tasks'[j], clock')
  <2>1. tasks'[j] \in Tasks /\ Sound(tasks'[j], clock)
    BY <1>1, <1>3
  <2>2. clock + 1 \in Nat /\ clock <= clock + 1
    BY <1>1
  <2> QED
    BY <1>1, <2>1, <2>2, SoundLater
<1>5. LinkInv'
  <2>1. clock' \in Nat
    BY <1>1
  <2> QED
    BY <1>2, <1>4, <2>1 DEF LinkInv
<1>6. \A j \in 1..Len(tasks) : tasks'[j] = tasks[j]
  BY <1>1, <1>3
<1>7. Consented
  BY <1>1, <1>6, Untouched DEF Consented
<1> QED
  BY <1>5, <1>7

\* A reference stands for a task of the registry, or for none.
LEMMA Resolved ==
  ASSUME LinkInv, NEW e \in Event
  PROVE  Resolve(e.task) \in 0..Len(tasks)
<1>1. e.task \in Refs /\ DOMAIN tasks = 1..Len(tasks) /\ Len(tasks) \in Nat
  BY DEF Event, LinkInv
<1>2. windowRefs[e.task] \in 0..Len(tasks)
  BY <1>1 DEF LinkInv
<1> QED
  BY <1>1, <1>2 DEF Resolve

\* A reference that is bound stands for the task it was bound to.
LEMMA Bound ==
  ASSUME LinkInv, NEW r, NEW n \in Nat, Len(tasks) <= n, NEW i \in 0..n, Bind(r, i)
  PROVE  windowRefs' \in [Refs -> 0..n]
<1>1. windowRefs \in [Refs -> 0..Len(tasks)] /\ Len(tasks) \in Nat
  BY DEF LinkInv
<1>2. windowRefs \in [Refs -> 0..n]
  BY <1>1
<1> QED
  BY <1>2 DEF Bind

\* An event that may start a task drops out, supports a task like it, or starts one.
LEMMA CreateKeeps ==
  ASSUME LinkInv, NEW e \in Messages, NEW u, e.action \in Actions => u \in Tasks /\ Sound(u, clock),
         Create(e, u), clock' = clock + 1
  PROVE  LinkInv' /\ Consented
<1>1. /\ clock \in Nat /\ tasks \in Seq(Tasks) /\ Len(tasks) \in Nat /\ DOMAIN tasks = 1..Len(tasks)
      /\ windowRefs \in [Refs -> 0..Len(tasks)]
      /\ \A j \in 1..Len(tasks) : tasks[j] \in Tasks /\ Sound(tasks[j], clock)
  BY DEF LinkInv
<1>2. CASE e.action \in {None, Generic}
  <2>1. UNCHANGED <<tasks, windowRefs>>
    BY <1>2 DEF Create, Drop
  <2>2. clock' \in Nat /\ clock <= clock'
    BY <1>1
  <2> QED
    BY <1>1, <2>1, <2>2, NoTaskTouched
<1>3. CASE e.action \notin {None, Generic} /\ Duplicates(e) # {}
  <2> DEFINE i == Min(Duplicates(e))
  <2>1. i \in 1..Len(tasks)
    <3>1. Duplicates(e) \in SUBSET Nat /\ Duplicates(e) \subseteq 1..Len(tasks)
      BY <1>1 DEF Duplicates
    <3>2. i \in Duplicates(e)
      <4>1. \E m \in Duplicates(e) : \A x \in Duplicates(e) : m <= x
        BY <1>3, <3>1, LeastNatural
      <4> QED
        BY <4>1 DEF Min
    <3> QED
      BY <3>1, <3>2
  <2>2. tasks' = [tasks EXCEPT ![i] = Restated(@, e)] /\ Bind(e.task, i)
    BY <1>3 DEF Create
  <2> HIDE DEF i
  <2>3. tasks' = [tasks EXCEPT ![i] = Restated(tasks[i], e)]
    BY <1>1, <2>1, <2>2
  <2>4. Keeps(tasks[i], Restated(tasks[i], e), clock, last')
    BY <1>1, <2>1, RestatedKeeps
  <2>5. windowRefs' \in [Refs -> 0..Len(tasks)]
    BY <1>1, <2>1, <2>2, Bound
  <2> QED
    BY <2>1, <2>3, <2>4, <2>5, OneTaskKept
<1>4. CASE e.action \notin {None, Generic} /\ Duplicates(e) = {}
  <2>1. tasks' = Append(tasks, u) /\ Bind(e.task, Len(tasks) + 1)
    BY <1>4 DEF Create
  <2>2. e.action \in Actions
    BY <1>4 DEF Messages
  <2>3. Len(tasks) + 1 \in Nat /\ Len(tasks) <= Len(tasks) + 1 /\ Len(tasks) + 1 \in 0..Len(tasks) + 1
    BY <1>1
  <2>4. windowRefs' \in [Refs -> 0..Len(tasks) + 1]
    BY <2>1, <2>3, Bound
  <2> QED
    BY <2>1, <2>2, <2>4, TaskAdded
<1> QED
  BY <1>2, <1>3, <1>4

\* An event of any type, applied.
LEMMA ApplyKeeps ==
  ASSUME LinkInv, NEW e \in Event, Apply(e), last' = e.type, clock' = clock + 1
  PROVE  LinkInv' /\ Consented
<1> DEFINE i == Resolve(e.task)
<1>1. /\ clock \in Nat /\ Len(tasks) \in Nat /\ DOMAIN tasks = 1..Len(tasks)
      /\ \A j \in 1..Len(tasks) : tasks[j] \in Tasks /\ Sound(tasks[j], clock)
  BY DEF LinkInv
<1>2. e \in Messages
  BY DEF Event, Messages
<1>3. i \in 0..Len(tasks)
  BY Resolved
<1> HIDE DEF i
<1>4. i # 0 => i \in 1..Len(tasks) /\ tasks[i] \in Tasks /\ Sound(tasks[i], clock)
  BY <1>1, <1>3
<1>5. UNCHANGED <<tasks, windowRefs>> => LinkInv' /\ Consented
  <2>1. clock' \in Nat /\ clock <= clock' /\ windowRefs \in [Refs -> 0..Len(tasks)]
    BY <1>1 DEF LinkInv
  <2> QED
    BY <2>1, NoTaskTouched
<1>6. ASSUME NEW u, i # 0, Update(i, u), Keeps(tasks[i], u, clock, e.type) PROVE LinkInv' /\ Consented
  <2>1. tasks' = [tasks EXCEPT ![i] = u] /\ windowRefs' \in [Refs -> 0..Len(tasks)]
    BY <1>6 DEF Update, LinkInv
  <2> QED
    BY <1>4, <1>6, <2>1, OneTaskKept
<1>7. \A s \in {"agreed", "proposed"} : e.action \in Actions => NewTask(e, s) \in Tasks /\ NewTask(e, s).status = s
  BY <1>2, NewTyped
<1>8. e.action \in Actions => NewTask(e, "agreed") \in Tasks /\ Sound(NewTask(e, "agreed"), clock)
  BY <1>2, NewTyped DEF Sound, Is
<1>9. ASSUME NEW r \in Reasons, e.action \in Actions
      PROVE  LET u == [NewTask(e, "proposed") EXCEPT !.reasons = {r}] IN u \in Tasks /\ Sound(u, clock)
  <2> DEFINE n == NewTask(e, "proposed")
             u == [n EXCEPT !.reasons = {r}]
  <2>1. n \in Tasks /\ n.pending = {} /\ n.hold = FALSE
    BY <1>2, <1>9, NewTyped
  <2> HIDE DEF n
  <2>2. u \in Tasks /\ u.pending = {} /\ u.hold = FALSE /\ u.reasons = {r}
    BY <2>1 DEF Tasks
  <2> HIDE DEF u
  <2>3. Sound(u, clock)
    BY <2>2 DEF Sound
  <2> QED
    BY <2>2, <2>3 DEF u, n
<1>10. CASE Unusable(e)
  BY <1>5, <1>10 DEF Apply, Drop
<1>11. CASE ~Unusable(e) /\ e.type = "assign"
  <2>1. OnAssign(e)
    BY <1>11 DEF Apply
  <2>2. CASE i = 0
    BY <1>2, <1>8, <2>1, <2>2, CreateKeeps DEF OnAssign, i
  <2>3. CASE i # 0
    BY <1>2, <1>4, <1>6, <1>11, <2>1, <2>3, AssignedKeeps DEF OnAssign, i
  <2> QED
    BY <2>2, <2>3
<1>12. CASE ~Unusable(e) /\ e.type = "propose"
  <2>1. OnPropose(e)
    BY <1>12 DEF Apply
  <2>2. CASE i = 0
    <3>1. Create(e, [NewTask(e, "proposed") EXCEPT !.reasons = {"proposed"}])
      BY <2>1, <2>2 DEF OnPropose, i
    <3>2. "proposed" \in Reasons
      BY DEF Reasons
    <3> QED
      BY <1>2, <1>9, <3>1, <3>2, CreateKeeps
  <2>3. CASE i # 0
    BY <1>1, <1>2, <1>4, <1>6, <1>12, <2>1, <2>3, ProposedKeeps DEF OnPropose, i
  <2> QED
    BY <2>2, <2>3
<1>13. CASE ~Unusable(e) /\ e.type = "restate"
  <2>1. OnRestate(e)
    BY <1>13 DEF Apply
  <2>2. CASE i = 0
    <3>1. Create(e, [NewTask(e, "proposed") EXCEPT !.reasons = {"only_in_summary"}])
      BY <2>1, <2>2 DEF OnRestate, i
    <3>2. "only_in_summary" \in Reasons
      BY DEF Reasons
    <3> QED
      BY <1>2, <1>9, <3>1, <3>2, CreateKeeps
  <2>3. CASE i # 0
    BY <1>1, <1>2, <1>4, <1>6, <1>13, <2>1, <2>3, RestatedKeeps DEF OnRestate, i
  <2> QED
    BY <2>2, <2>3
<1>14. CASE ~Unusable(e) /\ e.type = "suspend"
  <2>1. OnSuspend(e)
    BY <1>14 DEF Apply
  <2>2. CASE i = 0
    <3>1. Create(e, Suspended(NewTask(e, "agreed"), e))
      BY <2>1, <2>2 DEF OnSuspend, i
    <3>2. e.action \in Actions => Keeps(NewTask(e, "agreed"), Suspended(NewTask(e, "agreed"), e), clock, e.type)
      BY <1>2, <1>8, SuspendedKeeps
    <3> QED
      BY <1>2, <3>1, <3>2, CreateKeeps DEF Keeps
  <2>3. CASE i # 0
    BY <1>1, <1>2, <1>4, <1>6, <1>14, <2>1, <2>3, SuspendedKeeps DEF OnSuspend, i
  <2> QED
    BY <2>2, <2>3
<1>15. CASE ~Unusable(e) /\ e.type = "conditional"
  <2>1. OnConditional(e)
    BY <1>15 DEF Apply
  <2> DEFINE own == [e EXCEPT !.task = None]
             other == i # 0 /\ e.action # None /\ Unlike(e.action, tasks[i].action)
  <2>2. CASE i = 0
    <3>1. Create(e, MadeConditional(NewTask(e, "agreed"), e))
      BY <2>1, <2>2 DEF OnConditional, i
    <3>2. e.action \in Actions =>
            Keeps(NewTask(e, "agreed"), MadeConditional(NewTask(e, "agreed"), e), clock, e.type)
      BY <1>2, <1>8, ConditionalKeeps
    <3> QED
      BY <1>2, <3>1, <3>2, CreateKeeps DEF Keeps
  <2>3. CASE i # 0 /\ other
    <3>1. Create(own, MadeConditional(NewTask(own, "agreed"), own))
      BY <2>1, <2>3 DEF OnConditional, i
    <3>2. own \in Messages
      BY <1>2 DEF Messages
    <3> HIDE DEF own
    <3>3. own.action \in Actions => NewTask(own, "agreed") \in Tasks /\ Sound(NewTask(own, "agreed"), clock)
      BY <3>2, NewTyped DEF Sound, Is
    <3>4. own.action \in Actions =>
            Keeps(NewTask(own, "agreed"), MadeConditional(NewTask(own, "agreed"), own), clock, e.type)
      BY <3>2, <3>3, ConditionalKeeps
    <3> QED
      BY <3>1, <3>2, <3>4, CreateKeeps DEF Keeps
  <2>4. CASE i # 0 /\ ~other
    <3>1. Update(i, MadeConditional(tasks[i], e))
      BY <2>1, <2>4 DEF OnConditional, i
    <3> QED
      BY <1>2, <1>4, <1>6, <2>4, <3>1, ConditionalKeeps
  <2> QED
    BY <2>2, <2>3, <2>4
<1>16. CASE ~Unusable(e) /\ e.type = "accept"
  <2>1. OnAccept(e)
    BY <1>16 DEF Apply
  <2>2. CASE i = 0
    BY <1>5, <2>1, <2>2 DEF OnAccept, Nothing, i
  <2>3. CASE i # 0
    BY <1>1, <1>2, <1>4, <1>6, <1>16, <2>1, <2>3, AcceptedKeeps DEF OnAccept, i
  <2> QED
    BY <2>2, <2>3
<1>17. CASE ~Unusable(e) /\ e.type = "reject"
  <2>1. OnReject(e)
    BY <1>17 DEF Apply
  <2>2. CASE i = 0
    BY <1>5, <2>1, <2>2 DEF OnReject, Nothing, i
  <2>3. CASE i # 0
    BY <1>1, <1>2, <1>4, <1>6, <1>17, <2>1, <2>3, RejectedKeeps DEF OnReject, i
  <2> QED
    BY <2>2, <2>3
<1>18. CASE ~Unusable(e) /\ e.type = "change_deadline"
  <2>1. OnChangeDeadline(e)
    BY <1>18 DEF Apply
  <2>2. CASE i = 0 \/ e.deadline = None
    BY <1>5, <2>1, <2>2 DEF OnChangeDeadline, Nothing, i
  <2>3. CASE i # 0 /\ e.deadline # None
    BY <1>2, <1>4, <1>6, <1>18, <2>1, <2>3, DeadlineChangedKeeps DEF OnChangeDeadline, i
  <2> QED
    BY <2>2, <2>3
<1>19. CASE ~Unusable(e) /\ e.type = "change_assignee"
  <2>1. OnChangeAssignee(e)
    BY <1>19 DEF Apply
  <2>2. CASE i = 0 \/ e.assignee = None
    BY <1>5, <2>1, <2>2 DEF OnChangeAssignee, Nothing, i
  <2>3. CASE i # 0 /\ e.assignee # None
    BY <1>2, <1>4, <1>6, <1>19, <2>1, <2>3, AssigneeChangedKeeps DEF OnChangeAssignee, i
  <2> QED
    BY <2>2, <2>3
<1>20. CASE ~Unusable(e) /\ e.type = "cancel"
  <2>1. OnCancel(e)
    BY <1>20 DEF Apply
  <2>2. CASE i = 0
    BY <1>5, <2>1, <2>2 DEF OnCancel, i
  <2>3. CASE i # 0
    BY <1>2, <1>4, <1>6, <2>1, <2>3, CancelledKeeps DEF OnCancel, i
  <2> QED
    BY <2>2, <2>3
<1>21. e.type \in {"assign", "propose", "conditional", "suspend", "restate",
                   "accept", "reject", "change_deadline", "change_assignee", "cancel"}
  BY DEF Event, Creating, Changing
<1> QED
  BY <1>10, <1>11, <1>12, <1>13, <1>14, <1>15, <1>16, <1>17, <1>18, <1>19, <1>20, <1>21

\* What the steps of the loop do to the registry.
LEMMA LinkStep ==
  ASSUME LinkInv, [Next]_vars
  PROVE  LinkInv' /\ Consented
<1>1. /\ clock \in Nat /\ Len(tasks) \in Nat /\ DOMAIN tasks = 1..Len(tasks)
      /\ windowRefs \in [Refs -> 0..Len(tasks)]
  BY DEF LinkInv
<1>2. CASE ApplyEvent
  <2>1. PICK e \in Inputs : Receive(e.type) /\ Apply(e)
    BY <1>2 DEF ApplyEvent
  <2>2. e \in Event /\ last' = e.type /\ clock' = clock + 1
    BY <2>1, ExtractionAssumption DEF Receive
  <2> QED
    BY <2>1, <2>2, ApplyKeeps
<1>3. CASE OutsideWindow
  <2>1. UNCHANGED <<tasks, windowRefs>> /\ clock' \in Nat /\ clock <= clock'
    BY <1>1, <1>3 DEF OutsideWindow, Receive, Drop
  <2> QED
    BY <1>1, <2>1, NoTaskTouched
<1>4. CASE EventsExtracted
  <2>1. UNCHANGED <<tasks, clock>> /\ windowRefs' = NoRefs
    BY <1>4 DEF EventsExtracted
  <2>2. NoRefs \in [Refs -> 0..Len(tasks)]
    BY <1>1 DEF NoRefs
  <2>3. clock' \in Nat /\ clock <= clock'
    BY <1>1, <2>1
  <2> QED
    BY <2>1, <2>2, <2>3, NoTaskTouched
<1>5. CASE UNCHANGED <<tasks, windowRefs, clock>>
  <2>1. clock' \in Nat /\ clock <= clock'
    BY <1>1, <1>5
  <2> QED
    BY <1>1, <1>5, <2>1, NoTaskTouched
<1>6. \/ OpenWindow \/ Fit \/ NothingFits \/ AskAgain("events") \/ GiveUpEvents \/ EventsDone
      \/ AskAgain("summary") \/ SummaryDone \/ Done \/ UNCHANGED vars
      => UNCHANGED <<tasks, windowRefs, clock>>
  BY DEF OpenWindow, Fit, NothingFits, WindowError, AskAgain, GiveUpEvents, EventsDone, SummaryDone, Done,
         vars, linkVars
<1> QED
  BY <1>2, <1>3, <1>4, <1>5, <1>6 DEF Next

\* The registry is in order at all times.
LEMMA Linking == Spec => []LinkInv
<1>1. Init => LinkInv
  <2> SUFFICES ASSUME Init PROVE LinkInv
    OBVIOUS
  <2>1. tasks = <<>> /\ windowRefs = NoRefs /\ clock = 0
    BY DEF Init
  <2>2. <<>> \in Seq(Tasks) /\ Len(<<>>) = 0 /\ DOMAIN <<>> = {}
    OBVIOUS
  <2>3. NoRefs \in [Refs -> 0..0]
    BY DEF NoRefs
  <2> QED
    BY <2>1, <2>2, <2>3 DEF LinkInv
<1> QED
  BY <1>1, LinkStep, PTL DEF Spec

\* In the words of AgreementNeedsConsent.
LEMMA ConsentIsNeeded ==
  ASSUME Consented
  PROVE  \A i \in DOMAIN tasks :
           LET t == tasks[i]  u == tasks'[i]
           IN  /\ t.status = "proposed" /\ u.status = "agreed" => last' \in {"accept", "assign"}
               /\ \A f \in Fields :
                    /\ Is(t[f], "agreed") => Is(u[f], "agreed")
                    /\ Is(t[f], "agreed") /\ u[f].value # t[f].value =>
                         /\ last' \in {"accept", "change_deadline", "change_assignee"}
                         /\ Entry("changed", f, t[f].value, u[f].value) \in u.history
                    /\ Is(t[f], "proposed") /\ Is(u[f], "agreed") =>
                         last' \in {"accept", "assign", "change_deadline", "change_assignee"}
<1> TAKE i \in DOMAIN tasks
<1> DEFINE t == tasks[i]  u == tasks'[i]
<1>1. StatusConsent(t.status, u.status, last')
  BY DEF Consented, Consents
<1>2. \A f \in Fields : FieldConsent(f, t[f], u[f], u.history, last')
  BY DEF Consented, Consents, Fields
<1> HIDE DEF t, u
<1>3. t.status = "proposed" /\ u.status = "agreed" => last' \in {"accept", "assign"}
  BY <1>1 DEF StatusConsent
<1>4. \A f \in Fields :
                    /\ Is(t[f], "agreed") => Is(u[f], "agreed")
                    /\ Is(t[f], "agreed") /\ u[f].value # t[f].value =>
                         /\ last' \in {"accept", "change_deadline", "change_assignee"}
                         /\ Entry("changed", f, t[f].value, u[f].value) \in u.history
                    /\ Is(t[f], "proposed") /\ Is(u[f], "agreed") =>
                         last' \in {"accept", "assign", "change_deadline", "change_assignee"}
  BY <1>2 DEF FieldConsent
<1> QED
  BY <1>3, <1>4 DEF t, u

\* What was agreed is changed by consent alone, and on the record.
THEOREM OnlyConsentChanges == Spec => AgreementNeedsConsent
<1>1. LinkInv /\ [Next]_vars => Consented
  BY LinkStep
<1>2. Consented =>
        \A i \in DOMAIN tasks :
          LET t == tasks[i]  u == tasks'[i]
          IN  /\ t.status = "proposed" /\ u.status = "agreed" => last' \in {"accept", "assign"}
              /\ \A f \in Fields :
                   /\ Is(t[f], "agreed") => Is(u[f], "agreed")
                   /\ Is(t[f], "agreed") /\ u[f].value # t[f].value =>
                        /\ last' \in {"accept", "change_deadline", "change_assignee"}
                        /\ Entry("changed", f, t[f].value, u[f].value) \in u.history
                   /\ Is(t[f], "proposed") /\ Is(u[f], "agreed") =>
                        last' \in {"accept", "assign", "change_deadline", "change_assignee"}
  BY ConsentIsNeeded
<1> QED
  BY <1>1, <1>2, Linking, PTL DEF Spec, AgreementNeedsConsent

-----------------------------------------------------------------------------
(* The cards. *)

\* Each part of a card without concerns, from the concerns that it does not raise.
LEMMA CleanCard ==
  ASSUME NEW t \in Tasks, NEW now, Sound(t, now), ReviewState(t) = "proposed"
  PROVE  /\ t.status = "agreed" /\ Is(t.deadline, "agreed") /\ Is(t.assignee, "agreed")
         /\ ShownDeadline(t) = t.deadline /\ ShownAssignee(t) = t.assignee.value
         /\ Reading[t.deadline.value].date # None
         /\ t.assignee.value.kind = "department" \/ t.assignee.value.score >= 90
         /\ Evidence(t) = {{"here"}}
         /\ t.pending = {} /\ ~t.hold /\ (t.conditional => t.condition # None)
<1>1. t.status # "rejected" /\ Concerns(t) = {}
  BY DEF ReviewState
<1>2. /\ t.reasons = {} /\ AssigneeConcerns(t) = {} /\ DeadlineConcerns(t) = {} /\ EvidenceConcerns(t) = {}
      /\ t.pending = {} /\ (t.conditional => t.condition # None)
  BY <1>1 DEF Concerns
<1>3. /\ t.status \in Statuses /\ t.deadline \in {None} \cup FieldValues(Quotes)
      /\ t.assignee \in {None} \cup FieldValues(Persons) /\ t.condition \in {None} \cup SUBSET Places
      /\ t.quoted \in SUBSET Places /\ t.extra \in SUBSET Places /\ t.hold \in BOOLEAN
  BY DEF Tasks
<1>4. t.status = "agreed" /\ ~t.hold /\ ~Is(t.deadline, "proposed") /\ ~Is(t.assignee, "proposed")
  BY <1>1, <1>2, <1>3 DEF Sound, Statuses
<1>5. ShownDeadline(t) = t.deadline /\ t.deadline # None
  <2>1. OfField(t.pending, "deadline") = {}
    BY <1>2 DEF OfField
  <2>2. ShownDeadline(t) = t.deadline
    BY <2>1 DEF ShownDeadline
  <2> QED
    BY <1>2, <2>2 DEF DeadlineConcerns
<1>6. Is(t.deadline, "agreed") /\ t.deadline.value \in Quotes /\ t.deadline.evidence \in SUBSET Places
  BY <1>3, <1>4, <1>5 DEF Is, FieldValues
<1>7. Reading[t.deadline.value].date # None
  <2>1. Reading[t.deadline.value].kind \notin OpenKinds
    BY <1>2, <1>5 DEF DeadlineConcerns
  <2> QED
    BY <1>6, <2>1, LinkerAssumption
<1>8. /\ ~Guessed(t) /\ ShownAssignee(t) # None
      /\ LET a == ShownAssignee(t) IN a.kind # "group" /\ ~(a.kind = "person" /\ a.score \in 1..89)
                                      /\ ~(a.kind = "person" /\ a.score = 0)
  <2> DEFINE a == ShownAssignee(t)
  <2>1. a # None
    BY <1>2 DEF AssigneeConcerns
  <2> HIDE DEF a
  <2>2. {c \in {"guessed", "group", "inexact", "unlisted", "addressed"} :
              CASE c = "guessed"   -> Guessed(t)
                [] c = "group"     -> a.kind = "group"
                [] c = "inexact"   -> a.kind = "person" /\ a.score \in 1..89
                [] c = "unlisted"  -> a.kind = "person" /\ a.score = 0
                [] c = "addressed" -> t.to # None /\ t.to # a.name} = {}
    BY <1>2, <2>1 DEF AssigneeConcerns, a
  <2>3. ~Guessed(t) /\ a.kind # "group" /\ ~(a.kind = "person" /\ a.score \in 1..89) /\ ~(a.kind = "person" /\ a.score = 0)
    BY <2>2
  <2> QED
    BY <2>1, <2>3 DEF a
<1>9. t.assignee # None /\ ShownAssignee(t) = t.assignee.value
  BY <1>8 DEF ShownAssignee
<1>10. Is(t.assignee, "agreed") /\ t.assignee.value \in Persons /\ t.assignee.evidence \in SUBSET Places
  BY <1>3, <1>4, <1>9 DEF Is, FieldValues
<1>11. t.assignee.value.kind = "department" \/ t.assignee.value.score >= 90
  <2>1. t.assignee.value.kind \in {"person", "department", "group"} /\ t.assignee.value.score \in 0..100
    BY <1>10 DEF Persons
  <2> QED
    BY <1>8, <1>9, <2>1
<1>12. Evidence(t) = {{"here"}}
  <2>1. \A v \in Evidence(t) : v # {} /\ "near" \notin v
    BY <1>2 DEF EvidenceConcerns
  <2>2. \A v \in Evidence(t) : v \in SUBSET Places
    BY <1>3, <1>5, <1>6, <1>9, <1>10 DEF Evidence
  <2>3. \A v \in Evidence(t) : v = {"here"}
    BY <2>1, <2>2 DEF Places
  <2>4. t.quoted \cup t.extra \in Evidence(t)
    BY DEF Evidence
  <2> QED
    BY <2>3, <2>4
<1> QED
  BY <1>2, <1>4, <1>5, <1>6, <1>7, <1>9, <1>10, <1>11, <1>12

\* A card that is shown without a reason to review is one that the meeting settled.
THEOREM CleanCardsAreSettled == Spec => []CleanCardIsSettled
<1>1. LinkInv => CleanCardIsSettled
  <2> SUFFICES ASSUME LinkInv, NEW i \in DOMAIN tasks, Cards[i].review_state = "proposed"
               PROVE  LET t == tasks[i]  card == Cards[i]
                      IN  /\ card.agreement = "agreed" /\ Is(t.deadline, "agreed") /\ Is(t.assignee, "agreed")
                          /\ Reading[card.deadline.value].date # None
                          /\ card.assignee.kind = "department" \/ card.assignee.score >= 90
                          /\ card.evidence = {{"here"}}
                          /\ t.pending = {} /\ ~card.on_hold /\ (card.conditional => t.condition # None)
    BY DEF CleanCardIsSettled
  <2> DEFINE t == tasks[i]
  <2>1. t \in Tasks /\ Sound(t, clock)
    BY DEF LinkInv
  <2> HIDE DEF t
  <2>2. /\ Cards[i].review_state = ReviewState(t) /\ Cards[i].agreement = t.status /\ Cards[i].deadline = ShownDeadline(t)
        /\ Cards[i].assignee = ShownAssignee(t) /\ Cards[i].evidence = Evidence(t) /\ Cards[i].on_hold = t.hold
        /\ Cards[i].conditional = t.conditional
    BY DEF Cards, Card, t
  <2>3. /\ t.status = "agreed" /\ Is(t.deadline, "agreed") /\ Is(t.assignee, "agreed")
        /\ ShownDeadline(t) = t.deadline /\ ShownAssignee(t) = t.assignee.value
        /\ Reading[t.deadline.value].date # None
        /\ t.assignee.value.kind = "department" \/ t.assignee.value.score >= 90
        /\ Evidence(t) = {{"here"}}
        /\ t.pending = {} /\ ~t.hold /\ (t.conditional => t.condition # None)
    BY <2>1, <2>2, CleanCard
  <2> QED
    BY <2>2, <2>3 DEF t
<1> QED
  BY <1>1, Linking, PTL

-----------------------------------------------------------------------------
(* The declared shapes. *)

\* The counters of the loop, which LoopInv leaves open between windows.
LEMMA CountersTyped == Spec => [](attempts \in 0..Retries /\ window \in 0..Segments)
<1> DEFINE Typed == attempts \in 0..Retries /\ window \in 0..Segments
<1>1. {Segments, Retries} \subseteq Nat
  BY ExtractionAssumption
<1>2. Init => Typed
  <2>1. Init => attempts = 0 /\ window = 0
    BY DEF Init
  <2> QED
    BY <1>1, <2>1
<1>3. LoopInv /\ Typed /\ [Next]_vars => Typed'
  <2> SUFFICES ASSUME LoopInv, Typed, [Next]_vars PROVE Typed'
    OBVIOUS
  <2>1. pos \in Nat /\ window \in Nat /\ attempts \in Nat
    BY <1>1 DEF LoopInv
  <2>2. CASE OpenWindow
    BY <1>1, <2>1, <2>2 DEF OpenWindow
  <2>3. CASE Fit
    BY <1>1, <2>1, <2>3 DEF Fit
  <2>4. CASE AskAgain("events") \/ AskAgain("summary")
    BY <1>1, <2>1, <2>4 DEF AskAgain
  <2>5. CASE UNCHANGED window /\ (attempts' = 0 \/ UNCHANGED attempts)
    BY <1>1, <2>5
  <2>6. \/ NothingFits \/ EventsExtracted \/ GiveUpEvents \/ ApplyEvent \/ OutsideWindow \/ EventsDone
        \/ SummaryDone \/ Done \/ UNCHANGED vars
        => UNCHANGED window /\ (attempts' = 0 \/ UNCHANGED attempts)
    BY DEF NothingFits, EventsExtracted, GiveUpEvents, ApplyEvent, OutsideWindow, EventsDone, SummaryDone, Done,
           WindowError, Receive, vars, pipeVars
  <2> QED
    BY <2>2, <2>3, <2>4, <2>5, <2>6 DEF Next
<1>4. Spec => []LoopInv
  BY Looping
<1> QED
  BY <1>2, <1>3, <1>4, PTL DEF Spec

\* The state of linker and loop is of the declared shape.
THEOREM TypeCorrect == Spec => []TypeOK
<1>1. LinkInv /\ LoopInv /\ attempts \in 0..Retries /\ window \in 0..Segments => TypeOK
  <2> SUFFICES ASSUME LinkInv, LoopInv, attempts \in 0..Retries, window \in 0..Segments PROVE TypeOK
    OBVIOUS
  <2>1. ASSUME NEW i \in DOMAIN tasks
        PROVE  LET t == tasks[i]
               IN  /\ t.action \in Actions /\ t.status \in Statuses /\ t.execution \in {"open", "cancelled"}
                   /\ \A fv \in {t.assignee, t.deadline} \ {None} : fv.status \in {"agreed", "proposed"}
                   /\ \A p \in t.pending : p.field \in Fields /\ p.at \in 0..clock
    <3> DEFINE t == tasks[i]
    <3>1. t \in Tasks /\ Sound(t, clock) /\ clock \in Nat
      BY DEF LinkInv
    <3> HIDE DEF t
    <3>2. t.action \in Actions /\ t.status \in Statuses /\ t.execution \in {"open", "cancelled"}
      BY <3>1 DEF Tasks
    <3>3. \A fv \in {t.assignee, t.deadline} \ {None} : fv.status \in {"agreed", "proposed"}
      BY <3>1 DEF Tasks, FieldValues
    <3>4. \A p \in t.pending : p.field \in Fields /\ p.at \in 0..clock
      BY <3>1 DEF Tasks, Sound, Proposal, Fields
    <3> QED
      BY <3>2, <3>3, <3>4 DEF t
  <2> QED
    BY <2>1 DEF TypeOK, LinkInv, LoopInv
<1> QED
  BY <1>1, Linking, Looping, CountersTyped, PTL
===============================================================================
