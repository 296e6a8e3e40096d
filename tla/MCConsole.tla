----------------------------- MODULE MCConsole -----------------------------
(***************************************************************************)
(* A visitor with one word to search for or ask, and two channels.         *)
(***************************************************************************)
EXTENDS Console

CONSTANTS a, all, frame, empty

MCTexts == {a}
MCTypes == {all, frame}
=============================================================================
