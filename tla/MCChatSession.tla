---------------------------- MODULE MCChatSession ----------------------------
(***************************************************************************)
(* Two requests of one session: the first runs the research loop with two  *)
(* rounds and two tool calls, the second answers from what it reads of the *)
(* session with one call.  The middle of three abstracts reads like the    *)
(* two others.                                                             *)
(***************************************************************************)
EXTENDS ChatSession

CONSTANTS s1, s2, e1, e2, e3, find, read

MCStreams == {s1, s2}
MCEvidence == {e1, e2, e3}
MCSimilar == {<<e1, e2>>, <<e2, e1>>, <<e2, e3>>, <<e3, e2>>}
MCRounds == [s \in MCStreams |-> IF s = s1 THEN 2 ELSE 1]
MCBudget == [s \in MCStreams |-> IF s = s1 THEN 2 ELSE 0]
MCModes == [s \in MCStreams |-> IF s = s1 THEN {"strict"} ELSE {"audit"}]
MCMarks == [s \in MCStreams |-> IF s = s1 THEN 2 ELSE 1]
MCCalls == {find, read}
MCTool == [c \in MCCalls |-> IF c = find THEN "search" ELSE "paper_chunks"]
=============================================================================
