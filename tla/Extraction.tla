----------------------------- MODULE Extraction -----------------------------
(***************************************************************************)
(* The extraction pipeline over one transcript: windows of consecutive     *)
(* segments, for each a call of the language model for discussion events,  *)
(* which the linker applies, and a call for summary items.  An answer      *)
(* that is cut, that is no JSON or that breaks the schema is asked for     *)
(* again a bounded number of times; then the window is an error that is    *)
(* reported.  How many segments a window takes, and how many of them fit   *)
(* into the context of the model, is left open, because the texts are.     *)
(***************************************************************************)
EXTENDS Linker

CONSTANTS
  Segments,    \* number of segments of the transcript
  Retries,     \* PipelineConfig.max_format_retries
  WithSummary, \* PipelineConfig.with_summary
  Inputs,      \* the events the language model may answer
  MaxEvents    \* bound: events of the whole transcript

ASSUME ExtractionAssumption ==
  /\ {Segments, Retries, MaxEvents} \subseteq Nat
  /\ WithSummary \in BOOLEAN
  /\ Inputs \subseteq Event

VARIABLES
  phase,      \* "open", "fit", "events", "apply", "summary", "done"
  pos,        \* segments before the window
  window,     \* number of segments of the window
  attempts,   \* calls of the model that failed for this window and phase
  extracted,  \* segments whose events were extracted
  failed      \* segments of the windows in window_errors, of kind "events"

pipeVars == <<phase, pos, window, attempts, extracted, failed>>
vars     == <<linkVars, pipeVars>>

NoRefs == [r \in Refs |-> 0]

Init ==
  /\ tasks = <<>> /\ windowRefs = NoRefs
  /\ dropped = FALSE /\ unlinked = FALSE
  /\ last = "" /\ clock = 0
  /\ phase = IF Segments = 0 THEN "done" ELSE "open"
  /\ pos = 0 /\ window = 0 /\ attempts = 0
  /\ extracted = {} /\ failed = {}

InWindow == pos + 1..pos + window

-----------------------------------------------------------------------------
(* The loop over the windows. *)

\* the next window: as many segments as its size allows, at least one
OpenWindow ==
  /\ phase = "open"
  /\ window' \in 1..Segments - pos
  /\ phase' = "fit"
  /\ UNCHANGED <<linkVars, pos, attempts, extracted, failed>>

\* Mutant: a window of which nothing fits is skipped without a segment.
FitNothing ==
  /\ phase = "fit"
  /\ window' \in 0..window
  /\ phase' = "events"
  /\ UNCHANGED <<linkVars, pos, attempts, extracted, failed>>

\* the window shrinks until the prompt fits into the context of the model
Fit ==
  /\ phase = "fit"
  /\ window' \in 1..window
  /\ phase' = "events"
  /\ UNCHANGED <<linkVars, pos, attempts, extracted, failed>>

\* the window is done with: the loop goes on behind it
Advance ==
  /\ pos' = pos + window
  /\ phase' = IF pos + window < Segments THEN "open" ELSE "done"

AfterEvents == IF WithSummary THEN phase' = "summary" /\ UNCHANGED pos ELSE Advance

\* Mutant: the window is given up without a report.
WindowErrorSilent ==
  /\ attempts' = 0
  /\ AfterEvents
  /\ UNCHANGED <<linkVars, window, extracted, failed>>

WindowError ==
  /\ failed' = failed \cup InWindow
  /\ attempts' = 0
  /\ AfterEvents
  /\ UNCHANGED <<linkVars, window, extracted>>

\* not even the first segment fits
NothingFits == phase = "fit" /\ WindowError

EventsExtracted ==
  /\ phase = "events"
  /\ phase' = "apply" /\ attempts' = 0
  /\ extracted' = extracted \cup InWindow
  /\ windowRefs' = NoRefs
  /\ UNCHANGED <<tasks, dropped, unlinked, last, clock, pos, window, failed>>

\* an answer that cannot be used is asked for again, until it is given up
AskAgain(p) ==
  /\ phase = p /\ attempts < Retries
  /\ attempts' = attempts + 1
  /\ UNCHANGED <<linkVars, phase, pos, window, extracted, failed>>

GiveUpEvents == phase = "events" /\ attempts = Retries /\ WindowError

Receive(type) == /\ phase = "apply" /\ clock < MaxEvents
                 /\ clock' = clock + 1 /\ last' = type
                 /\ UNCHANGED pipeVars

ApplyEvent == \E e \in Inputs : Receive(e.type) /\ Apply(e)

\* an event about a segment that is not in the window
OutsideWindow == Receive("outside") /\ window < Segments /\ Drop

EventsDone ==
  /\ phase = "apply"
  /\ AfterEvents
  /\ UNCHANGED <<linkVars, window, attempts, extracted, failed>>

\* the summary of the window, extracted or given up
SummaryDone ==
  /\ phase = "summary"
  /\ attempts' = 0
  /\ Advance
  /\ UNCHANGED <<linkVars, window, extracted, failed>>

Done == phase = "done" /\ UNCHANGED vars

Next ==
  \/ OpenWindow \/ Fit \/ NothingFits
  \/ AskAgain("events") \/ EventsExtracted \/ GiveUpEvents
  \/ ApplyEvent \/ OutsideWindow \/ EventsDone
  \/ AskAgain("summary") \/ SummaryDone
  \/ Done

\* the loop runs on its own; a call of the language model returns or raises
Spec == Init /\ [][Next]_vars /\ WF_vars(Next)

-----------------------------------------------------------------------------
(* Correctness. *)

(* The state of linker and loop is of the declared shape. *)
TypeOK ==
  /\ \A i \in DOMAIN tasks :
       LET t == tasks[i]
       IN  /\ t.action \in Actions /\ t.status \in Statuses /\ t.execution \in {"open", "cancelled"}
           /\ \A fv \in {t.assignee, t.deadline} \ {None} : fv.status \in {"agreed", "proposed"}
           /\ \A p \in t.pending : p.field \in Fields /\ p.at \in 0..clock
  /\ windowRefs \in [Refs -> 0..Len(tasks)]
  /\ phase \in {"open", "fit", "events", "apply", "summary", "done"}
  /\ attempts \in 0..Retries /\ pos \in 0..Segments /\ window \in 0..Segments

(* linker.py:3-8, evidence.py:1 and the field "agreement" of a card: a card that is shown without *)
(* a reason to review is one whose every part was agreed and has evidence in the segment it was   *)
(* taken from, with a calendar date and a responsible who is known, and that nothing puts off.    *)
CleanCardIsSettled ==
  \A i \in DOMAIN tasks :
    LET t == tasks[i]  card == Cards[i]
    IN  card.review_state = "proposed" =>
          /\ card.agreement = "agreed" /\ Is(t.deadline, "agreed") /\ Is(t.assignee, "agreed")
          /\ Reading[card.deadline.value].date # None
          /\ card.assignee.kind = "department" \/ card.assignee.score >= 90
          /\ card.evidence = {{"here"}}
          /\ t.pending = {} /\ ~card.on_hold /\ (card.conditional => t.condition # None)

(* linker.py:4-6: only an acceptance or an explicit change replaces what was agreed, and it leaves *)
(* a record of both values; only an acceptance, an assignment or an explicit change agrees to what *)
(* was proposed.  No summary does either, and nothing agreed disappears.                           *)
AgreementNeedsConsent ==
  [][\A i \in DOMAIN tasks :
       LET t == tasks[i]  u == tasks'[i]
       IN  /\ t.status = "proposed" /\ u.status = "agreed" => last' \in {"accept", "assign"}
           /\ \A f \in Fields :
                /\ Is(t[f], "agreed") => Is(u[f], "agreed")
                /\ Is(t[f], "agreed") /\ u[f].value # t[f].value =>
                     /\ last' \in {"accept", "change_deadline", "change_assignee"}
                     /\ Entry("changed", f, t[f].value, u[f].value) \in u.history
                /\ Is(t[f], "proposed") /\ Is(u[f], "agreed") =>
                     last' \in {"accept", "assign", "change_deadline", "change_assignee"}]_vars

(* pipeline.py:148-213: every segment behind the loop lies in exactly one window, of which the    *)
(* events were extracted or an error is reported.                                                 *)
EverySegmentOnce ==
  /\ extracted \cap failed = {}
  /\ extracted \cup failed =
       IF phase \in {"apply", "summary"} THEN 1..pos + window ELSE 1..pos

(* pipeline.py:4: the loop ends, whatever the model answers. *)
LoopEnds == <>(phase = "done")
=============================================================================
