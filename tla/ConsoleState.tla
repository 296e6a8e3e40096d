---------------------------- MODULE ConsoleState ----------------------------
(***************************************************************************)
(* The public console's snapshot and reducer (web: console/url.ts,         *)
(* console/state.ts) as functions of a state: what the URL says, what is   *)
(* on screen in each mode, and the one request whose reply may still land. *)
(*                                                                         *)
(* A page of results is the query it was fetched with.  An ask's phase is  *)
(* "dropped" where the code's wasDropped() says so of a degraded one, and  *)
(* "refused" otherwise.                                                    *)
(***************************************************************************)
EXTENDS Naturals, Sequences

CONSTANTS
  Texts,    \* what a visitor types, trimmed
  Types,    \* the channels a search can be pinned to
  All,      \* the channel a URL does not spell
  NoText    \* the empty box

ASSUME ConsoleAssumption == All \in Types /\ NoText \notin Texts

Words == Texts \cup {NoText}
Modes == {"search", "ask"}
Outcomes == {"null", "ok", "bad"}
Feet == {"none", "loading", "failed"}
Phases == {"idle", "working", "answered", "refused", "dropped"}

-----------------------------------------------------------------------------
(* url.ts, on a deployment that has an ask *)

Snapshot(mode, q, type) == [mode |-> mode, q |-> q, type |-> type]

\* Mutant: an ask's URL carries the search's channel.
SerializeTyped(snap) == snap
\* A URL is the snapshot it parses to: an ask's spells no channel.
Serialize(snap) == IF snap.mode = "ask" THEN [snap EXCEPT !.type = All] ELSE snap

Urls == {Snapshot("search", q, t) : q \in Words, t \in Types}
          \cup {Snapshot("ask", q, All) : q \in Words}

SameSnapshot(a, b) == Serialize(a) = Serialize(b)

-----------------------------------------------------------------------------
(* state.ts *)

InitialState(snap, outcome) ==
  [mode      |-> snap.mode,
   draft     |-> snap.q,
   type      |-> snap.type,
   committed |-> snap,
   search    |-> [q       |-> IF snap.mode = "search" THEN snap.q ELSE NoText,
                  type    |-> snap.type,
                  outcome |-> outcome,
                  more    |-> <<>>,
                  foot    |-> "none"],
   pending   |-> FALSE,
   ask       |-> [question |-> IF snap.mode = "ask" THEN snap.q ELSE NoText,
                  phase    |-> "idle"],
   active    |-> 0]

\* Mutant: what was half drawn is left as it is.
SettlePlain(s) == [s EXCEPT !.active = 0]
\* Whatever was in flight stops counting, and its half-drawn state goes.
Settle(s) ==
  [s EXCEPT
     !.active = 0,
     !.pending = FALSE,
     !.search.foot = IF @ = "loading" THEN "none" ELSE @,
     !.ask.phase = IF @ = "working" THEN "idle" ELSE @]

Idle(s) == [s EXCEPT !.ask.phase = "idle"]

ToMode(s, mode) ==
  LET next == Settle([s EXCEPT !.mode = mode])
  IN  IF mode = "ask" /\ next.ask.question # s.draft THEN Idle(next) ELSE next

Commit(s, snap) == [s EXCEPT !.committed = snap]

NoSearch(s) ==
  [s EXCEPT !.search.q = NoText, !.search.outcome = "null", !.search.more = <<>>]

Cold(s) == [NoSearch(Settle(s)) EXCEPT !.search.foot = "none"]

Searching(s, id) == [Settle(s) EXCEPT !.active = id, !.pending = TRUE]

Searched(s, id, q, type, outcome) ==
  IF id # s.active THEN s
  ELSE [s EXCEPT
          !.active = 0,
          !.pending = FALSE,
          !.search = [q |-> q, type |-> type, outcome |-> outcome,
                      more |-> <<>>, foot |-> "none"]]

Paging(s, id) == [Settle(s) EXCEPT !.active = id, !.search.foot = "loading"]

MoreDone(s, id, q, type, outcome) ==
  IF id # s.active THEN s
  ELSE [s EXCEPT
          !.active = 0,
          !.search.more = IF outcome = "ok" THEN Append(@, <<q, type>>) ELSE @,
          !.search.foot = IF outcome = "ok" THEN "none" ELSE "failed"]

Asking(s, id, question) ==
  [Settle(s) EXCEPT
     !.active = id, !.ask = [question |-> question, phase |-> "working"]]

AskPhase(s, id, phase) ==
  IF id # s.active THEN s
  ELSE [s EXCEPT
          !.active = IF phase = "working" THEN @ ELSE 0,
          !.ask.phase = phase]

\* Mutant: an entry that names another question keeps the answer on screen.
RestoreKeepsPane(s, snap) ==
  LET next == Settle([s EXCEPT
                        !.mode = snap.mode,
                        !.draft = snap.q,
                        !.type = IF snap.mode = "search" THEN snap.type ELSE @,
                        !.committed = snap])
  IN  IF snap.mode = "search" /\ snap.q = NoText THEN NoSearch(next) ELSE next

Restore(s, snap) ==
  LET next == Settle([s EXCEPT
                        !.mode = snap.mode,
                        !.draft = snap.q,
                        !.type = IF snap.mode = "search" THEN snap.type ELSE @,
                        !.committed = snap])
  IN  IF snap.mode = "search" /\ snap.q = NoText THEN NoSearch(next)
      ELSE IF snap.mode = "ask" /\ next.ask.question # snap.q
           THEN Idle([next EXCEPT !.ask.question = snap.q])
      ELSE next

\* Whether the search on screen already answers this query.
Holds(s, q, type) ==
  s.search.outcome # "null" /\ s.search.q = q /\ s.search.type = type

\* Console.tsx: what disables the form's button, and a stream that died
\* without its last event.
Busy(s) == IF s.mode = "ask" THEN s.ask.phase = "working" ELSE s.pending
Dropped(s) == s.mode = "ask" /\ s.ask.phase = "dropped"
=============================================================================
