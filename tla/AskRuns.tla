------------------------------ MODULE AskRuns ------------------------------
(***************************************************************************)
(* Visitors' asks that outlive their stream (mcp: public/runs.py).  A run  *)
(* keeps every event of one loop for whoever follows it; the table holds,  *)
(* for each key, the run that is going or the answer that is kept.         *)
(*                                                                         *)
(* A run is named by the order in which the process started it.  Its       *)
(* events are counted, not spelled: activity lines, then an answer or an   *)
(* error unless it was cancelled.  The source returns from its last yield  *)
(* without awaiting, so that event and the end of the run are one step.    *)
(***************************************************************************)
EXTENDS Naturals, Sequences

CONSTANTS
  Keys,      \* a visitor's question and its tags
  Readers,   \* streams, each following at most one run
  MaxKept    \* MAX_KEPT

VARIABLES
  runs,     \* every Run of this process: its key, activity events and end
  table,    \* Runs._runs: the run a key names, or 0
  kept,     \* finished runs in the table, oldest first
  reader    \* each stream in follow(): run, events yielded, tick held, place

runsVars == <<runs, table, kept, reader>>

Ends == {"going", "answer", "error", "cancelled"}
Started == DOMAIN runs
Going(x) == runs[x].end = "going"

\* len(run.events), and how often _wake has replaced the tick.
Events(x) == runs[x].steps + (IF runs[x].end \in {"answer", "error"} THEN 1 ELSE 0)
Wakes(x) == Events(x) + (IF Going(x) THEN 0 ELSE 1)

NoReader == [run |-> 0, pos |-> 0, tick |-> 0, at |-> "none"]

RunsInit ==
  /\ runs = <<>>
  /\ table = [k \in Keys |-> 0]
  /\ kept = <<>>
  /\ reader = [r \in Readers |-> NoReader]

-----------------------------------------------------------------------------
(* The table *)

\* _sweep() drops the n oldest finished runs: those kept for longer than
\* KEEP_S, then as many as leaves MAX_KEPT.
Sweeps(n) == n \in 0..Len(kept) /\ Len(kept) - n <= MaxKept
Swept(n) ==
  [k \in Keys |-> IF \E i \in 1..n : kept[i] = table[k] THEN 0 ELSE table[k]]
KeptAfter(n) == SubSeq(kept, n + 1, Len(kept))

Follows(r, x) == reader' = [reader EXCEPT ![r] = [NoReader EXCEPT !.run = x, !.at = "out"]]

\* get() finds the key's run, and the stream follows it from its first event.
Join(r, k) ==
  \E n \in 0..Len(kept) :
    /\ Sweeps(n) /\ Swept(n)[k] # 0
    /\ table' = Swept(n) /\ kept' = KeptAfter(n)
    /\ Follows(r, table[k])
    /\ UNCHANGED runs

\* Mutant: start() without looking for the run it may find.
LaunchAnyway(r, k) ==
  \E n \in 0..Len(kept) :
    /\ Sweeps(n)
    /\ runs' = Append(runs, [key |-> k, steps |-> 0, end |-> "going"])
    /\ table' = [Swept(n) EXCEPT ![k] = Len(runs) + 1]
    /\ kept' = KeptAfter(n)
    /\ Follows(r, Len(runs) + 1)

\* get() finds none and start() makes it; the stream that asked follows it.
Launch(r, k) ==
  \E n \in 0..Len(kept) :
    /\ Sweeps(n) /\ Swept(n)[k] = 0
    /\ runs' = Append(runs, [key |-> k, steps |-> 0, end |-> "going"])
    /\ table' = [Swept(n) EXCEPT ![k] = Len(runs) + 1]
    /\ kept' = KeptAfter(n)
    /\ Follows(r, Len(runs) + 1)

\* get() finds none for a stream that only resumes.
Miss(k) ==
  \E n \in 0..Len(kept) :
    /\ Sweeps(n) /\ Swept(n)[k] = 0
    /\ table' = Swept(n) /\ kept' = KeptAfter(n)
    /\ UNCHANGED <<runs, reader>>

-----------------------------------------------------------------------------
(* A run *)

Emit(x) ==
  /\ Going(x)
  /\ runs' = [runs EXCEPT ![x].steps = @ + 1]
  /\ UNCHANGED <<table, kept, reader>>

\* _drive leaves its loop: an answer stays in the table, anything else is
\* dropped so that asking again starts afresh.
End(x, how) ==
  /\ Going(x)
  /\ runs' = [runs EXCEPT ![x].end = how]
  /\ IF how = "answer"
     THEN kept' = Append(kept, x) /\ UNCHANGED table
     ELSE /\ table' = [k \in Keys |-> IF table[k] = x THEN 0 ELSE table[k]]
          /\ UNCHANGED kept
  /\ UNCHANGED reader

-----------------------------------------------------------------------------
(* A reader *)

Following(r) == reader[r].at \in {"out", "sent", "waiting"}

\* The tick a pass of follow()'s loop holds: taken at its top, before the
\* events are counted, and kept over the yields of that pass.
TickOf(r) == IF reader[r].at = "sent" THEN reader[r].tick ELSE Wakes(reader[r].run)

\* Mutant: done is looked at before the events are drained.
PlaceDoneFirst(here, x) ==
  IF ~Going(x) THEN [here EXCEPT !.at = "finished", !.tick = 0]
  ELSE IF here.pos < Events(x) THEN [here EXCEPT !.pos = @ + 1, !.at = "sent"]
  ELSE [here EXCEPT !.at = "waiting"]

\* Where a pass goes: the next event, the end once all are out, or the wait.
Place(here, x) ==
  IF here.pos < Events(x) THEN [here EXCEPT !.pos = @ + 1, !.at = "sent"]
  ELSE IF ~Going(x) THEN [here EXCEPT !.at = "finished", !.tick = 0]
  ELSE [here EXCEPT !.at = "waiting"]

\* follow() up to its next yield, wait or return.
Advance(r) ==
  LET x == reader[r].run
  IN /\ Following(r)
     /\ reader[r].at = "waiting" => Wakes(x) > reader[r].tick
     /\ reader' = [reader EXCEPT ![r] = Place([@ EXCEPT !.tick = TickOf(r)], x)]
     /\ UNCHANGED <<runs, table, kept>>

\* The client drops the stream; the run goes on.
Leave(r) ==
  /\ Following(r)
  /\ reader' = [reader EXCEPT ![r] = [NoReader EXCEPT !.at = "left"]]
  /\ UNCHANGED <<runs, table, kept>>

-----------------------------------------------------------------------------
RunsNext ==
  \/ \E k \in Keys : Miss(k) \/ \E r \in Readers : Join(r, k) \/ Launch(r, k)
  \/ \E x \in Started : Emit(x) \/ \E how \in Ends \ {"going"} : End(x, how)
  \/ \E r \in Readers : Advance(r) \/ Leave(r)

RunsSpec == RunsInit /\ [][RunsNext]_runsVars

-----------------------------------------------------------------------------
RunsTypeOK ==
  /\ runs \in Seq([key : Keys, steps : Nat, end : Ends])
  /\ table \in [Keys -> 0..Len(runs)]
  /\ kept \in Seq(1..Len(runs))
  /\ reader \in [Readers ->
       [run : 0..Len(runs), pos : Nat, tick : Nat,
        at : {"none", "out", "sent", "waiting", "finished", "left"}]]

\* A run that is going is the one its key names, whatever was swept or dropped
\* around it: a second ask of the same question joins it instead of paying for
\* another loop, and close() finds it there to cancel.
RunningIsKept ==
  \A x \in Started : Going(x) => table[runs[x].key] = x
=============================================================================
