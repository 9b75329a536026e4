---------------------------- MODULE MCActionCard ----------------------------
(* An instance of ActionCard for TLC: the secretary, and a participant who is *)
(* no member of the meeting.                                                  *)
EXTENDS ActionCard

CONSTANTS s, u

MCMember == [a \in {s, u} |-> IF a = s THEN "secretary" ELSE Nil]
MCRole   == [a \in {s, u} |-> IF a = s THEN "secretary" ELSE "assignee"]
=============================================================================
