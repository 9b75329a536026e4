----------------------------- MODULE ActionCard -----------------------------
(***************************************************************************)
(* One action card of a protocol: the passes of the pipeline that write    *)
(* it, the secretary's edits, the execution state its assignee reports,    *)
(* the accounts of the participants, and the reminders of its deadline.    *)
(*                                                                         *)
(* A card is known to a later pass by its fingerprint, so that cards do    *)
(* not affect each other.  A request and a pass are one transaction each.  *)
(* The version a page must present only makes an edit wait for a reload;   *)
(* a protocol that is approved takes no edits (module Meeting) and is left *)
(* out here.  Of the states of a review "needs_review" is like "proposed"  *)
(* and "confirmed" like "edited", of the execution "in_progress" is like   *)
(* "open" and "done" like "cancelled"; a card waits when it is conditional *)
(* or on hold.  Whom the passes of the pipeline name as assignee is text;  *)
(* only a person's edit ties the card to a participant of the meeting, and *)
(* to the account this participant has at that moment.                     *)
(***************************************************************************)
EXTENDS Naturals, FiniteSetsExt

CONSTANTS
  Users,        \* accounts
  Participants, \* participants of the meeting
  Member,       \* MeetingMember.role of an account, Nil for those who are no members
  Role,         \* User.role
  Nil, Same,   \* no value; a field that a request leaves alone
  Kinds,      \* the kinds of reminders that are followed
  Dates,      \* days a deadline may fall on
  Weekend,    \* the days that are no business days
  MaxDay      \* bound: the day the clock stops

ASSUME CardAssumption ==
  /\ Nil # Same /\ {Nil, Same} \cap (Users \cup Participants \cup Dates) = {}
  /\ Member \in [Users -> {"secretary", "manager", "viewer", Nil}]
  /\ Role \in [Users -> {"admin", "secretary", "manager", "assignee"}]
  /\ Kinds \subseteq {"due_soon", "due_today", "overdue"}
  /\ MaxDay \in Nat
  /\ Dates \subseteq 1..MaxDay
  /\ \A d \in Dates : \E b \in 0..d - 1 : b \notin Weekend

VARIABLES
  review,      \* ActionItem.review_state, "absent" before the row exists
  origin,      \* ActionItem.origin
  execution,   \* ActionItem.execution_state
  due, vague,  \* the normalised date of ActionItem.deadline, and whether it is ambiguous
  confirmed,   \* ActionItem.deadline_confirmed
  waiting,     \* ActionItem.conditional or ActionItem.on_hold
  person,      \* ActionItem.assignee_participant_id
  account,     \* ActionItem.assignee_user_id
  linked,      \* Participant.user_id
  note,        \* Notification.status per dedupe key, "absent" without a row
  today        \* how many times it has been nine o'clock

assigned == <<person, account>>
cardVars == <<review, origin, execution, due, vague, confirmed, waiting, assigned, linked>>
allVars     == <<cardVars, note, today>>

Protected == {"edited"}

\* The account behind an e-mail address, if there is one.
Accounts == Users \cup {Nil}
Keys      == Kinds \X Dates

-----------------------------------------------------------------------------
(* Reminders. *)

PrevBusinessDay(d) == Max({b \in 0..d - 1 : b \notin Weekend})

When(key) ==
  LET d == key[2]
  IN  CASE key[1] = "due_soon"  -> PrevBusinessDay(d)
        [] key[1] = "due_today" -> d
        [] key[1] = "overdue"   -> d + 1

\* plan: whether the card asks for reminders at all.
Planned == confirmed /\ due # Nil /\ ~waiting /\ execution = "open"

\* who is reminded: the account the card was given to, or the present one of the participant.
Recipient ==
  CASE account # Nil -> account
    [] account = Nil /\ person # Nil -> linked[person]
    [] OTHER -> Nil

\* The reminders that suit the card as it stands, and those it gets.
Suitable == IF Planned THEN Kinds \X {due} ELSE {}
Wanted   == IF Recipient # Nil THEN Suitable ELSE {}

\* Mutant: the reminders of an earlier deadline stay.
RescheduleAdding ==
  note' = [k \in Keys |-> IF note[k] = "absent" /\ k \in Wanted' THEN "scheduled" ELSE note[k]]

\* reschedule, at the end of every request that changes the card.
Reschedule ==
  LET wanted == Wanted'
  IN  note' = [k \in Keys |->
        IF note[k] = "scheduled" /\ k \notin wanted THEN "cancelled"
        ELSE IF note[k] = "absent" /\ k \in wanted THEN "scheduled"
        ELSE note[k]]

Due(k) == note[k] = "scheduled" /\ When(k) <= today

\* Mutant: only the reminders of this very day are looked at.
DeliverDueToday ==
  /\ \E k \in Keys : Due(k) /\ When(k) = today
  /\ note' = [k \in Keys |-> IF Due(k) /\ When(k) = today
                             THEN IF Planned THEN "delivered" ELSE "cancelled" ELSE note[k]]
  /\ UNCHANGED <<cardVars, today>>

DeliverDue ==
  /\ \E k \in Keys : Due(k)
  /\ note' = [k \in Keys |-> IF Due(k) THEN IF Planned THEN "delivered" ELSE "cancelled" ELSE note[k]]
  /\ UNCHANGED <<cardVars, today>>

-----------------------------------------------------------------------------

CardInit ==
  /\ review = "absent" /\ origin = "none" /\ execution = "open"
  /\ due = Nil /\ vague = FALSE /\ confirmed = FALSE
  /\ waiting = FALSE
  /\ person = Nil /\ account = Nil
  /\ linked \in [Participants -> Accounts]
  /\ note = [k \in Keys |-> "absent"]
  /\ today = 0

\* persist_cards for a pass that found the card: a card in human hands only gets
\* a proposal beside it, any other is created or overwritten.
PersistCard(kind) ==
  /\ review \notin Protected
  /\ origin' = IF review = "absent" THEN kind ELSE origin
  /\ review' \in {"proposed", "rejected"}
  /\ execution' \in {"open", "cancelled"}
  /\ due' \in Dates \cup {Nil}
  /\ vague' \in IF due' = Nil THEN {FALSE} ELSE BOOLEAN
  /\ waiting' \in BOOLEAN
  /\ UNCHANGED <<confirmed, assigned, linked, note, today>>

\* stage_extract: a final pass that did not find a card of the live transcript.
Supersede ==
  /\ origin = "live"
  /\ review \notin Protected
  /\ review' = "rejected"
  /\ UNCHANGED <<origin, execution, due, vague, confirmed, waiting, assigned, linked, note, today>>

PatchDeadline(date) ==
  IF date = Same THEN UNCHANGED <<due, vague>> ELSE due' = date /\ vague' = FALSE

Confirms(date, confirm) ==
  \/ confirm /\ due' # Nil /\ ~vague'
  \/ IF date = Same THEN confirmed ELSE date # Nil

\* The account is copied from the participant; a name that is no participant has none.
PatchAssignee(who) ==
  IF who = Same THEN UNCHANGED assigned
  ELSE person' = who /\ account' = IF who = Nil THEN Nil ELSE linked[who]

\* What a member of the meeting may do: meeting_for(.., "edit").
MayEdit(u) == Member[u] = "secretary"

\* patch_action: a verdict of its own, or the edit makes the card an edited one.
\* A hold stays when the condition is cleared.
Patch(u, date, who, verdict, confirm) ==
  /\ MayEdit(u)
  /\ review # "absent"
  /\ confirm => verdict = "edited"
  /\ PatchAssignee(who)
  /\ PatchDeadline(date)
  /\ waiting' \in BOOLEAN
  /\ review' = verdict
  /\ confirmed' = Confirms(date, confirm)
  /\ UNCHANGED <<origin, execution, linked, today>>
  /\ Reschedule

\* Whose card it is: can_view_action, and the scope "mine" of the registry.
Mine(u)      == account = u \/ (person # Nil /\ linked[person] = u)
CanView(u)   == Member[u] # Nil \/ Mine(u)
CanUpdate(u) == \/ Member[u] \in {"secretary", "manager"}
                \/ CanView(u) /\ Role[u] \in {"assignee", "manager", "secretary"}

\* set_execution: the assignee or the secretary, also of an approved protocol.
SetExecution(u, progress) ==
  /\ review # "absent"
  /\ CanUpdate(u)
  /\ progress # execution
  /\ execution' = progress
  /\ UNCHANGED <<review, origin, due, vague, confirmed, waiting, assigned, linked, today>>
  /\ Reschedule

\* patch_participant: another address for a participant.  The cards are not touched.
LinkUser(u, p, a) ==
  /\ MayEdit(u)
  /\ linked[p] # a
  /\ linked' = [linked EXCEPT ![p] = a]
  /\ UNCHANGED <<review, origin, execution, due, vague, confirmed, waiting, assigned, note, today>>

NineOClock ==
  /\ today <= MaxDay
  /\ today' = today + 1
  /\ UNCHANGED <<cardVars, note>>

CardNext ==
  \/ \E kind \in {"live", "final"} : PersistCard(kind)
  \/ Supersede
  \/ \E u \in Users, date \in Dates \cup {Nil, Same}, who \in Participants \cup {Nil, Same},
        verdict \in {"edited", "rejected", "proposed"}, confirm \in BOOLEAN :
       Patch(u, date, who, verdict, confirm)
  \/ \E u \in Users, progress \in {"open", "cancelled"} : SetExecution(u, progress)
  \/ \E u \in Users, p \in Participants, a \in Accounts : LinkUser(u, p, a)
  \/ DeliverDue
  \/ NineOClock

CardSpec == CardInit /\ [][CardNext]_allVars

\* The pipeline worker looks for due reminders every minute, and time passes.
CardFairSpec == CardSpec /\ WF_allVars(DeliverDue) /\ WF_allVars(NineOClock)

-----------------------------------------------------------------------------
(* Properties. *)

\* Every variable has its type.
CardTypeOK ==
  /\ review \in {"absent", "proposed", "edited", "rejected"}
  /\ origin \in {"none", "live", "final"}
  /\ execution \in {"open", "cancelled"}
  /\ due \in Dates \cup {Nil}
  /\ {vague, confirmed, waiting} \subseteq BOOLEAN
  /\ person \in Participants \cup {Nil}
  /\ account \in Accounts
  /\ linked \in [Participants -> Accounts]
  /\ note \in [Keys -> {"absent", "scheduled", "delivered", "cancelled"}]
  /\ today \in 0..MaxDay + 1

\* While a card is in human hands its schedule is its own: what is scheduled is
\* a reminder of its present deadline, and the card still asks for it, whatever
\* passes, edits, reports of progress and deliveries came before.
ProtectedSchedule ==
  review \in Protected => {k \in Keys : note[k] = "scheduled"} \subseteq Suitable

\* Every reminder that was scheduled is delivered or withdrawn in the end, also
\* after days without a worker.
EachReminderEnds ==
  \A k \in Keys : note[k] = "scheduled" ~> note[k] # "scheduled"
=============================================================================
