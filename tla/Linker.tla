------------------------------- MODULE Linker -------------------------------
(***************************************************************************)
(* The linker: discussion events, which the language model extracts from a *)
(* window of the transcript, applied one by one to a registry of tasks,    *)
(* and the cards that the registry becomes.  The rules at stake are those  *)
(* of the head of linker.py: a summary overwrites nothing that was agreed, *)
(* a proposal is no agreement until it is accepted, what was rejected is   *)
(* history, conditions and suspensions stay.                               *)
(*                                                                         *)
(* Of an event the model keeps its type, the reference it names, the       *)
(* action, the assignee, the wording of the deadline, whether it quotes a  *)
(* condition, where in the transcript its quotes are found, and the name   *)
(* its segment begins with, as an address.  Wordings of actions are        *)
(* related by Similar and Unrelated, the two thresholds on their common    *)
(* words; wordings of deadlines by what normalize_deadline makes of them   *)
(* on the day of the meeting; names by what match_participant finds in the *)
(* list of participants.  Curator, collaborators, dependencies and topic   *)
(* are left out.  T<n> is task n of the sequence of tasks.                 *)
(***************************************************************************)
EXTENDS Naturals, Sequences, FiniteSetsExt, Functions

CONSTANTS
  None,       \* no value
  Actions,    \* wordings of what is to be done
  Generic,    \* a wording that names no task, without a quote to use in its place
  Names,      \* what people, departments and groups are called, apart by the stem of the first name
  Kind,       \* assignee_kind of a name
  Match,      \* the display name and the score, in percent, that match_participant finds for a name
  Quotes,     \* wordings of a deadline
  Reading,    \* the kind and the date that normalize_deadline reads in a wording
  Similar,    \* pairs of actions with 0.6 and more of their words in common
  Unrelated,  \* pairs of actions with less than 0.3 in common
  Directives, \* actions of which the quote looks like a directive
  NewRefs,    \* references N<n> of a window to tasks it starts
  MaxTasks    \* bound: tasks of a meeting

DateKinds == {"date", "relative", "range"}
OpenKinds == {"event", "ambiguous"}

\* where quotes are found, how people are called, and the fields of a task
Places         == {"here", "near"}
Persons        == [name: Names, kind: {"person", "department", "group"}, score: 0..100]
FieldValues(V) == [value: V, status: {"agreed", "proposed"}, evidence: SUBSET Places]

ASSUME LinkerAssumption ==
  /\ None \notin Actions \cup Names \cup Quotes \cup Persons
  /\ None \notin FieldValues(Quotes) \cup FieldValues(Persons)
  /\ \A found \in SUBSET Places : found # None
  /\ Generic \notin Actions \cup {None}
  /\ \A q \in Quotes : /\ Reading[q].kind \in DateKinds \cup OpenKinds
                       /\ Reading[q].date = None <=> Reading[q].kind \in OpenKinds
  /\ \A a \in Actions : <<a, a>> \in Similar
  /\ Similar \cap Unrelated = {}
  /\ Directives \subseteq Actions
  /\ Kind \in [Names -> {"person", "department", "group"}]
  /\ Match \in [Names -> [name : Names, score : 0..100]]
  /\ MaxTasks \in Nat

VARIABLES
  tasks,       \* Linker.tasks, T1, T2, ... in the order of their creation
  windowRefs,  \* Linker.window_refs: the task a reference of this window stands for, 0 for none
  dropped,     \* whether the last event went to rejected_events
  unlinked,    \* an issue unlinked_cancellation is among global_issues
  last,        \* type of the last event, "" when a window starts
  clock        \* index of the next event

linkVars == <<tasks, windowRefs, dropped, unlinked, last, clock>>

Fields    == {"deadline", "assignee"}
Statuses  == {"agreed", "proposed", "rejected"}
Creating  == {"assign", "propose", "conditional", "suspend", "restate"}
Changing  == {"accept", "reject", "change_deadline", "change_assignee", "cancel"}
TaskRefs  == 1..MaxTasks
Refs      == TaskRefs \cup NewRefs

\* evidence is the set of places in which quotes for the value were found; a quote that is absent
\* or found nowhere adds nothing, as to the checks on a card it is no evidence
FieldValue(v, s, ev) == [value |-> v, status |-> s, evidence |-> ev]
OrNone(v, s, ev)     == IF v = None THEN None ELSE FieldValue(v, s, ev)
Is(fv, s)            == fv # None /\ fv.status = s
Backed(fv, ev)       == IF fv = None THEN None ELSE [fv EXCEPT !.evidence = @ \cup ev]

Event == [type: Creating \cup Changing, task: Refs, action: Actions \cup {None, Generic}, assignee: Names \cup {None},
          deadline: Quotes \cup {None}, condition: BOOLEAN,
          found: {"here", "near", "missing"}, to: Names \cup {None}]

-----------------------------------------------------------------------------
(* What the linker reads in an event and in the registry. *)

Resolve(r) == IF r \in NewRefs \/ r \notin DOMAIN tasks THEN windowRefs[r] ELSE r

NamesUnknown(e) == e.task \in TaskRefs /\ Resolve(e.task) = 0

\* where verify finds the quotes of an event: in its segment, else in a neighbour of it
Found(e) == {e.found} \ {"missing"}

\* whether a name fits one of the participants well enough, in percent of certainty
Fits(n, least) == Match[n].score >= least

IsPerson(n) == Kind[n] = "person"

\* a person is called as the participant whose name fits well enough, others as they were
AssigneeValue(n) ==
  CASE n = None -> None
    [] n # None /\ IsPerson(n) /\ Fits(n, 60) ->
         [name |-> Match[n].name, kind |-> "person", score |-> Match[n].score]
    [] OTHER -> [name |-> n, kind |-> Kind[n], score |-> 0]

\* the event cannot be applied: a task that does not exist, unless the event can start one
Unusable(e) == NamesUnknown(e) /\ ~(e.type \in Creating /\ e.action # None)

\* the measures on wordings of actions, and whether a quote has a verb of an order
Like(a, b)  == <<a, b>> \in Similar
Unlike(a, b) == <<a, b>> \in Unrelated
LooksLikeDirective(a) == a \in Directives

SameDeadline(a, b) ==
  /\ a # None /\ b # None
  /\ a = b \/ /\ Reading[a].kind # "ambiguous" /\ Reading[a].date # None
              /\ Reading[a].date = Reading[b].date

Live(t) == t.status # "rejected" /\ t.execution # "cancelled"

Duplicates(e) == {i \in DOMAIN tasks :
  /\ Live(tasks[i])
  /\ tasks[i].assignee = None \/ e.assignee = None \/ tasks[i].assignee.value.name = e.assignee
  /\ Like(tasks[i].action, e.action)}

\* the fields in which an event departs from what was agreed
Conflicts(t, e) ==
  {f \in {"assignee"} : /\ e.assignee # None /\ Is(t.assignee, "agreed")
                        /\ t.assignee.value.name # AssigneeValue(e.assignee).name}
  \cup
  {f \in {"deadline"} : /\ e.deadline # None /\ Is(t.deadline, "agreed")
                        /\ Reading[t.deadline.value] # Reading[e.deadline]}

LatestOf(ps) == CHOOSE p \in ps : \A o \in ps : o.at <= p.at
Batch(ps)    == {p \in ps : p.at = LatestOf(ps).at}
OfField(ps, f) == {p \in ps : p.field = f}

Entry(kind, f, v, w) == [event |-> kind, field |-> f, old |-> v, new |-> w]

SetField(t, f, fv) ==
  LET changes == t[f] # None /\ t[f].value # fv.value
  IN  [t EXCEPT ![f] = fv,
                !.history = IF changes THEN @ \cup {Entry("changed", f, t[f].value, fv.value)} ELSE @]

\* the proposals of one event are taken over, at most one about each field
TakeOver(t, ps, f, ev) ==
  LET p == LatestOf(OfField(ps, f))
  IN  IF OfField(ps, f) = {} THEN t ELSE SetField(t, f, FieldValue(p.value, "agreed", p.evidence \cup ev))

SetFields(t, ps, ev) == TakeOver(TakeOver(t, ps, "deadline", ev), ps, "assignee", ev)

-----------------------------------------------------------------------------
(* What each type of event makes of a task. *)

\* the evidence of the condition that an event quotes
Condition(e) == IF e.condition THEN Found(e) ELSE None

TaskState(a, s) ==
  [action |-> a, status |-> s, execution |-> "open", assignee |-> None, deadline |-> None,
   hold |-> FALSE, conditional |-> FALSE, condition |-> None, to |-> None, quoted |-> {}, extra |-> {},
   pending |-> {}, history |-> {}, issues |-> {}, reasons |-> {}]

NewTask(e, s) ==
  [TaskState(e.action, s) EXCEPT
     !.assignee  = OrNone(AssigneeValue(e.assignee), s, Found(e)),
     !.deadline  = OrNone(e.deadline, s, Found(e)),
     !.condition = Condition(e),
     !.to = e.to, !.quoted = Found(e)]

WithQuote(t, e) == [t EXCEPT !.extra = @ \cup Found(e)]

WithConflicts(t, e) == [t EXCEPT !.issues = @ \cup Conflicts(t, e)]

Assigned(t, e) ==
  LET u == [t EXCEPT
              !.deadline  = IF e.deadline # None /\ ~Is(@, "agreed")
                            THEN FieldValue(e.deadline, "agreed", Found(e)) ELSE @,
              !.assignee  = IF @ = None THEN OrNone(AssigneeValue(e.assignee), "agreed", Found(e)) ELSE @,
              !.condition = IF @ = None THEN Condition(e) ELSE @,
              !.status    = IF @ = "proposed" THEN "agreed" ELSE @]
  IN  WithConflicts(WithQuote(u, e), e)

Proposals(e, at) ==
  {[field |-> "deadline", value |-> q, evidence |-> Found(e), at |-> at] : q \in {e.deadline} \ {None}} \cup
  {[field |-> "assignee", value |-> p, evidence |-> Found(e), at |-> at] : p \in {AssigneeValue(e.assignee)} \ {None}}

Proposed(t, e) == [t EXCEPT !.pending = @ \cup Proposals(e, clock)]

\* an acceptance that quotes a deadline agrees to that deadline and closes the proposals about it
AgreeQuoted(t, e) ==
  LET pend   == OfField(t.pending, "deadline")
      latest == LatestOf(pend)
      taken  == IF pend # {} /\ SameDeadline(latest.value, e.deadline) THEN {latest} ELSE {}
      kept   == taken = {} /\ t.deadline # None /\ SameDeadline(t.deadline.value, e.deadline)
      value  == CASE taken # {} -> FieldValue(latest.value, "agreed", latest.evidence \cup Found(e))
                  [] kept -> FieldValue(t.deadline.value, "agreed", t.deadline.evidence \cup Found(e))
                  [] OTHER -> FieldValue(e.deadline, "agreed", Found(e))
      u      == SetField(t, "deadline", value)
  IN  IF e.deadline = None THEN t
      ELSE [u EXCEPT
              !.pending = @ \ pend,
              !.history = @ \cup {Entry("superseded", "deadline", p.value, None) : p \in pend \ taken}]

AgreeLatest(t, e) ==
  IF t.pending = {} THEN t
  ELSE [SetFields(t, Batch(t.pending), Found(e)) EXCEPT !.pending = @ \ Batch(@)]

Agreed(fv, ev) == IF Is(fv, "proposed") THEN FieldValue(fv.value, "agreed", fv.evidence \cup ev) ELSE fv

\* Mutant: an acceptance settles every reason to look at the task.
AgreeShownSettled(t, e) ==
  [t EXCEPT !.deadline = Agreed(@, Found(e)), !.assignee = Agreed(@, {}), !.status = "agreed", !.reasons = {}]

AgreeShown(t, e) ==
  IF t.status = "proposed"
  THEN [t EXCEPT !.deadline = Agreed(@, Found(e)), !.assignee = Agreed(@, {}), !.status = "agreed",
                 !.reasons = @ \ {"proposed"}]
  ELSE [t EXCEPT !.deadline = Agreed(@, Found(e))]

Accepted(t, e) == AgreeShown(AgreeLatest(AgreeQuoted(t, e), e), e)

\* an objection: to the latest proposals, else to a proposed deadline, else to the task
Objected(t, e) ==
  LET batch == Batch(t.pending)
  IN  CASE t.pending # {} ->
             [t EXCEPT !.pending = @ \ batch,
                       !.history = @ \cup {Entry("rejected", p.field, p.value, None) : p \in batch}]
        [] /\ t.pending = {} /\ Is(t.deadline, "proposed")
           /\ e.deadline # None \/ t.status # "proposed" ->
             [t EXCEPT !.deadline = None,
                       !.history = @ \cup {Entry("rejected", "deadline", t.deadline.value, None)}]
        [] OTHER -> [t EXCEPT !.status = IF @ = "proposed" THEN "rejected" ELSE @]

\* the deadline that an objection turns down, None when it turns down something else
TurnedDown(t, e) ==
  LET ps == OfField(Batch(t.pending), "deadline")
  IN  IF t.pending # {}
      THEN IF ps = {} THEN None ELSE LatestOf(ps).value
      ELSE IF Is(t.deadline, "proposed") /\ (e.deadline # None \/ t.status # "proposed")
           THEN t.deadline.value ELSE None

Rejected(t, e) ==
  LET counter == IF SameDeadline(e.deadline, TurnedDown(t, e)) THEN None ELSE e.deadline
  IN  [Objected(t, e) EXCEPT !.pending = @ \cup Proposals([e EXCEPT !.deadline = counter, !.assignee = None], clock)]

DeadlineChanged(t, e) ==
  [SetField(t, "deadline", FieldValue(e.deadline, "agreed", Found(e)))
     EXCEPT !.pending = @ \ OfField(@, "deadline")]

AssigneeChanged(t, e) == SetField(t, "assignee", FieldValue(AssigneeValue(e.assignee), "agreed", Found(e)))

Cancelled(t, e) == WithQuote([t EXCEPT !.execution = "cancelled"], e)

Suspended(t, e) == WithQuote([t EXCEPT !.hold = TRUE, !.reasons = @ \cup {"hold"}], e)

MadeConditional(t, e) ==
  [t EXCEPT !.conditional = TRUE, !.condition = IF e.condition THEN Condition(e) ELSE @,
            !.reasons = IF e.condition THEN @ ELSE @ \cup {"unquoted_condition"}]

\* Mutant: the summary is right.
RestatedOver(t, e) ==
  WithQuote([t EXCEPT
    !.deadline = IF e.deadline = None THEN @ ELSE FieldValue(e.deadline, "agreed", Found(e)),
    !.assignee = IF @ = None THEN OrNone(AssigneeValue(e.assignee), "agreed", Found(e)) ELSE @], e)

\* what a summary repeats it supports, what is new in it is taken over
Repeated(fv, v, e) ==
  CASE v = None -> fv
    [] v # None /\ fv = None -> FieldValue(v, "agreed", Found(e))
    [] OTHER -> Backed(fv, Found(e))

Restated(t, e) ==
  LET u == [t EXCEPT
              !.deadline = Repeated(@, e.deadline, e),
              !.assignee = Repeated(@, AssigneeValue(e.assignee), e),
              !.reasons  = IF e.deadline # None /\ t.deadline = None
                           THEN @ \cup {"deadline_in_summary"} ELSE @]
  IN  WithQuote(IF Conflicts(t, e) # {} THEN WithConflicts(t, e) ELSE u, e)

-----------------------------------------------------------------------------
(* Applying an event. *)

Update(i, t) ==
  /\ tasks' = [tasks EXCEPT ![i] = t]
  /\ dropped' = FALSE
  /\ UNCHANGED <<windowRefs, unlinked>>

Nothing == dropped' = FALSE /\ UNCHANGED <<tasks, windowRefs, unlinked>>

Drop == dropped' = TRUE /\ UNCHANGED <<tasks, windowRefs, unlinked>>

\* a reference that names no task of the registry becomes a name of task i until the window ends
Bind(r, i) == windowRefs' = IF r \in Refs \ DOMAIN tasks THEN [windowRefs EXCEPT ![r] = i] ELSE windowRefs

\* _create: a task like one of the registry is a repetition of that one
Create(e, task) ==
  IF e.action \in {None, Generic} THEN Drop
  ELSE /\ dropped' = FALSE
       /\ UNCHANGED unlinked
       /\ IF Duplicates(e) # {}
          THEN LET i == Min(Duplicates(e))
               IN  /\ tasks' = [tasks EXCEPT ![i] = Restated(@, e)]
                   /\ Bind(e.task, i)
          ELSE /\ Len(tasks) < MaxTasks
               /\ tasks' = Append(tasks, task)
               /\ Bind(e.task, Len(tasks) + 1)

OnAssign(e) ==
  LET i == Resolve(e.task)
  IN  IF i = 0 THEN Create(e, NewTask(e, "agreed")) ELSE Update(i, Assigned(tasks[i], e))

OnPropose(e) ==
  LET i == Resolve(e.task)
  IN  IF i = 0 THEN Create(e, [NewTask(e, "proposed") EXCEPT !.reasons = {"proposed"}])
      ELSE Update(i, Proposed(tasks[i], e))

OnRestate(e) ==
  LET i == Resolve(e.task)
  IN  IF i = 0 THEN Create(e, [NewTask(e, "proposed") EXCEPT !.reasons = {"only_in_summary"}])
      ELSE Update(i, Restated(tasks[i], e))

OnSuspend(e) ==
  LET i == Resolve(e.task)
  IN  IF i = 0 THEN Create(e, Suspended(NewTask(e, "agreed"), e)) ELSE Update(i, Suspended(tasks[i], e))

\* a conditional decision about something else than the task it names is a task of its own, under a
\* reference that no other event uses
OnConditional(e) ==
  LET i     == Resolve(e.task)
      other == i # 0 /\ e.action # None /\ Unlike(e.action, tasks[i].action)
  IN  CASE i = 0 -> Create(e, MadeConditional(NewTask(e, "agreed"), e))
        [] other -> LET own == [e EXCEPT !.task = None]
                    IN  Create(own, MadeConditional(NewTask(own, "agreed"), own))
        [] OTHER -> Update(i, MadeConditional(tasks[i], e))

OnAccept(e) ==
  LET i == Resolve(e.task) IN IF i = 0 THEN Nothing ELSE Update(i, Accepted(tasks[i], e))

OnReject(e) ==
  LET i == Resolve(e.task) IN IF i = 0 THEN Nothing ELSE Update(i, Rejected(tasks[i], e))

OnChangeDeadline(e) ==
  LET i == Resolve(e.task)
  IN  IF i = 0 \/ e.deadline = None THEN Nothing ELSE Update(i, DeadlineChanged(tasks[i], e))

OnChangeAssignee(e) ==
  LET i == Resolve(e.task)
  IN  IF i = 0 \/ e.assignee = None THEN Nothing ELSE Update(i, AssigneeChanged(tasks[i], e))

OnCancel(e) ==
  LET i == Resolve(e.task)
  IN  IF i = 0
      THEN /\ unlinked' = TRUE /\ dropped' = FALSE
           /\ UNCHANGED <<tasks, windowRefs>>
      ELSE Update(i, Cancelled(tasks[i], e))

Apply(e) ==
  IF Unusable(e) THEN Drop
  ELSE CASE e.type = "assign"          -> OnAssign(e)
         [] e.type = "propose"         -> OnPropose(e)
         [] e.type = "accept"          -> OnAccept(e)
         [] e.type = "reject"          -> OnReject(e)
         [] e.type = "change_deadline" -> OnChangeDeadline(e)
         [] e.type = "change_assignee" -> OnChangeAssignee(e)
         [] e.type = "cancel"          -> OnCancel(e)
         [] e.type = "suspend"         -> OnSuspend(e)
         [] e.type = "conditional"     -> OnConditional(e)
         [] e.type = "restate"         -> OnRestate(e)

-----------------------------------------------------------------------------
(* The cards. *)

\* the deadline a card shows: the earliest proposal about it while there is no other
ShownDeadline(t) ==
  LET ps == OfField(t.pending, "deadline")
  IN  IF t.deadline = None /\ ps # {} THEN CHOOSE p \in ps : \A o \in ps : p.at <= o.at ELSE t.deadline

\* the assignee it shows: the one who is addressed where the task was started, when nobody is named
Guessed(t) == t.assignee = None /\ t.to # None /\ Fits(t.to, 75)

ShownAssignee(t) ==
  CASE t.assignee # None -> t.assignee.value
    [] Guessed(t) -> [name |-> Match[t.to].name, kind |-> "person", score |-> 70]
    [] OTHER -> None

\* who is to do it: nobody, a group, a guess, a name that fits badly, or one that is not listed
AssigneeConcerns(t) ==
  LET a == ShownAssignee(t)
  IN  IF a = None THEN {"no_assignee"}
      ELSE {c \in {"guessed", "group", "inexact", "unlisted", "addressed"} :
              CASE c = "guessed"   -> Guessed(t)
                [] c = "group"     -> a.kind = "group"
                [] c = "inexact"   -> a.kind = "person" /\ a.score \in 1..89
                [] c = "unlisted"  -> a.kind = "person" /\ a.score = 0
                [] c = "addressed" -> t.to # None /\ t.to # a.name}

DeadlineConcerns(t) ==
  IF ShownDeadline(t) = None THEN {"no_deadline"}
  ELSE IF Reading[ShownDeadline(t).value].kind \in OpenKinds THEN {"no_date"} ELSE {}

\* the evidence of the fields that a card shows
Evidence(t) ==
  {t.quoted \cup t.extra} \cup ({t.condition} \ {None})
  \cup {fv.evidence : fv \in {t.assignee, ShownDeadline(t)} \ {None}}

EvidenceConcerns(t) ==
  {IF ev = {} THEN "no_evidence" ELSE "evidence_near" : ev \in {v \in Evidence(t) : v = {} \/ "near" \in v}}
  \cup (IF t.quoted # {} /\ ~LooksLikeDirective(t.action) THEN {"no_directive"} ELSE {})

\* the reasons for which a card waits for a person
Concerns(t) ==
  t.reasons \cup AssigneeConcerns(t) \cup DeadlineConcerns(t) \cup EvidenceConcerns(t)
  \cup {"restatement_conflict" : f \in t.issues}
  \cup {"pending" : p \in t.pending}
  \cup (IF t.conditional /\ t.condition = None THEN {"no_condition"} ELSE {})

ReviewState(t) ==
  CASE t.status = "rejected" -> "rejected"
    [] t.status # "rejected" /\ Concerns(t) # {} -> "needs_review"
    [] OTHER -> "proposed"

Card(t) ==
  [assignee |-> ShownAssignee(t), deadline |-> ShownDeadline(t), agreement |-> t.status,
   conditional |-> t.conditional, on_hold |-> t.hold, evidence |-> Evidence(t),
   review_state |-> ReviewState(t)]

Cards == [i \in DOMAIN tasks |-> Card(tasks[i])]
=============================================================================
