---------------------------- MODULE MCAskService ----------------------------
(***************************************************************************)
(* One visitor's request asks; the other asks the same question as that    *)
(* visitor or as nobody, or resumes the first one's run.                   *)
(***************************************************************************)
EXTENDS AskService

CONSTANTS r1, r2, k1

MCRequests == {r1, r2}
MCKeys == {k1}
MCWants ==
  [r \in MCRequests |->
     CASE r = r1 -> {<<"ask", k1>>}
       [] r = r2 -> {<<"ask", k1>>, <<"direct", k1>>, <<"resume", k1>>}]
DirectOnly ==
  [r \in MCRequests |-> {want \in MCWants[r] : want = <<"direct", k1>>}]
=============================================================================
