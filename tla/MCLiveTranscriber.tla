------------------------- MODULE MCLiveTranscriber -------------------------
(* Instances of LiveTranscriber for TLC. *)
EXTENDS LiveTranscriber

\* A pause before a word, and whether the word before it ends a sentence:
\* almost none; one that ends a sentence; a finished phrase; a long one.
MCPauses == {<<1, FALSE>>, <<7, TRUE>>, <<9, FALSE>>, <<13, FALSE>>}

MCLength == 5
MCWords  == 4

\* All recordings of MCWords words with these pauses, after some silence.
Recording(p) ==
  LET starts[i \in 1..MCWords] ==
        IF i = 1 THEN 15 ELSE starts[i - 1] + MCLength + p[i - 1][1]
  IN  [i \in 1..MCWords |->
         [id |-> i, start |-> starts[i], end |-> starts[i] + MCLength,
          stop |-> i < MCWords /\ p[i][2], form |-> 0]]

MCScripts == {Recording(p) : p \in [1..MCWords - 1 -> MCPauses]}
=============================================================================
