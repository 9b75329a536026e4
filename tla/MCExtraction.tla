---------------------------- MODULE MCExtraction ----------------------------
EXTENDS Extraction

CONSTANTS a1, a2, p1, p2, p3, q1, q2, q3, n1, d1

MCActions == {a1, a2}
MCNames   == {p1, p2, p3}
MCQuotes  == {q1, q2, q3}
MCNewRefs == {n1}

\* two wordings of one day, one of them relative, and one that names no day
MCReading == [q \in MCQuotes |->
  CASE q = q1 -> [kind |-> "date", date |-> d1]
    [] q = q2 -> [kind |-> "relative", date |-> d1]
    [] q = q3 -> [kind |-> "ambiguous", date |-> None]]

\* a participant, a group, and another name of the participant
MCKind  == [p \in MCNames |-> IF p = p2 THEN "group" ELSE "person"]
MCMatch == [p \in MCNames |->
  CASE p = p1 -> [name |-> p1, score |-> 100]
    [] p = p2 -> [name |-> p2, score |-> 0]
    [] p = p3 -> [name |-> p1, score |-> 75]]

MCSimilar   == {<<a, a>> : a \in MCActions}
MCUnrelated == {<<a1, a2>>, <<a2, a1>>}

Fill(type, refs, actions, names, quotes, conditions) ==
  {[type |-> type, task |-> r, action |-> a, assignee |-> p, deadline |-> q, condition |-> c,
    found |-> "here", to |-> None] :
     r \in refs, a \in actions, p \in names, q \in quotes, c \in conditions}

Elsewhere(es, places) == {[e EXCEPT !.found = w] : e \in es, w \in places}
Addressed(es, names)  == {[e EXCEPT !.to = p] : e \in es, p \in names}

Naming == {1} \cup NewRefs

MCInputs ==
  Fill("assign", {2}, {a1}, {p1}, {None, q1}, {FALSE})
    \cup Fill("assign", {2}, {a1}, {p2, p3}, {q1}, {FALSE})
    \cup Elsewhere(Fill("assign", {2}, {a1}, {p1}, {q1}, {FALSE}), {"near", "missing"})
    \cup Addressed(Fill("assign", {2}, {a1}, {None, p1}, {q1}, {FALSE}), {p3})
    \cup Fill("assign", {1}, {None}, {p1}, {None, q1}, {FALSE})
    \cup Fill("assign", NewRefs, {None, Generic, a2}, {None}, {None}, {FALSE})
    \cup Fill("propose", Naming, {a1}, {None, p1}, {None, q1}, {FALSE})
    \cup Fill("propose", {1}, {a1}, {None, p2}, {q3}, {FALSE})
    \cup Fill("restate", NewRefs, {a1}, {None, p3}, {None, q2}, {FALSE})
    \cup Fill("suspend", Naming, {a1}, {None}, {None}, {FALSE})
    \cup Fill("conditional", {1}, {a1, a2}, {None}, {None}, BOOLEAN)
    \cup Fill("accept", Naming, {None}, {None}, {None, q2}, {FALSE})
    \cup Elsewhere(Fill("accept", {1}, {None}, {None}, {q2}, {FALSE}), {"missing"})
    \cup Fill("reject", {1}, {None}, {None}, {None, q3}, {FALSE})
    \cup Fill("change_deadline", {1}, {None}, {None}, {q3}, {FALSE})
    \cup Fill("change_assignee", {1}, {None}, {p2}, {None}, {FALSE})
    \cup Fill("cancel", Naming, {None}, {None}, {None}, {FALSE})
=============================================================================
