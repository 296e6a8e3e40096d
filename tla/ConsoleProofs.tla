--------------------------- MODULE ConsoleProofs ---------------------------
(***************************************************************************)
(* Theorems about Console for every set of words and channels and every    *)
(* number of clicks and mishaps: what is on screen answers the URL, an     *)
(* answer is never under another question, and what shows as busy waits    *)
(* for a request that may still land.                                      *)
(***************************************************************************)
EXTENDS Console, SequenceTheorems, TLAPS

Rows ==
  [q : Words, type : Types, outcome : Outcomes, more : Seq(Texts \X Types), foot : Feet]
Panes == [question : Words, phase : Phases]
Snapshots == [mode : Modes, q : Words, type : Types]
States ==
  [mode : Modes, draft : Words, type : Types, committed : Snapshots, search : Rows,
   pending : BOOLEAN, ask : Panes, active : Nat]
Flights(n) ==
  [id : 1..n, kind : Kinds, q : Texts, type : Types,
   stage : {"sent", "streaming", "failed"}, shown : BOOLEAN]

\* Whether anything on screen shows that a reply is awaited.
Waits(s) == s.pending \/ s.search.foot = "loading" \/ s.ask.phase = "working"

\* The rows all answer one query, and a pane that says something has a question.
RowsRight(s) ==
  /\ s.search.outcome # "null" => s.search.q # NoText
  /\ \A i \in DOMAIN s.search.more : s.search.more[i] = <<s.search.q, s.search.type>>
PaneNamed(s) == s.ask.phase # "idle" => s.ask.question # NoText

\* What holds of a state on its own: its rows' query is the committed one once
\* nothing is pending; its pane is the committed question's; and it awaits a
\* reply exactly while a request may land.
Sound(s) ==
  /\ RowsRight(s) /\ PaneNamed(s)
  /\ s.mode = s.committed.mode
  /\ s.mode = "ask" /\ s.ask.phase # "idle" => s.ask.question = s.committed.q
  /\ s.mode = "search" /\ s.committed.q # NoText /\ ~s.pending =>
       Holds(s, s.committed.q, s.committed.type)
  /\ Waits(s) <=> s.active # 0

\* What holds of a state and the request that nobody aborted: it is the one that
\* may land, of the kind that is awaited, and it asks what is committed.
Lands(s, f) ==
  /\ s.active \in {0, f.id}
  /\ s.active # 0 /\ s.pending => f.kind = "search"
  /\ s.active # 0 /\ s.search.foot = "loading" => f.kind = "more"
  /\ s.active # 0 /\ s.ask.phase = "working" => f.kind \in {"ask", "resume"} /\ f.shown
  /\ f.kind \in {"ask", "resume"} => s.mode = "ask" /\ s.committed.q = f.q
  /\ f.kind \in {"search", "more"} =>
       /\ s.mode = "search"
       /\ s.committed.q # NoText => s.committed.q = f.q /\ s.committed.type = f.type
  /\ f.kind = "more" => s.search.q = f.q /\ s.search.type = f.type

\* Only an answer comes as a stream and is shown in the pane, and a resume is
\* shown once it is one.
WellSent(f) ==
  /\ f.stage = "streaming" => f.kind \in {"ask", "resume"}
  /\ f.stage = "failed" => f.kind = "resume"
  /\ f.shown => f.kind \in {"ask", "resume"}
  /\ f.kind = "resume" /\ f.stage # "streaming" => ~f.shown

PageInv ==
  /\ state \in States /\ seq \in Nat /\ controller \in 0..seq
  /\ \A f \in flights : f \in Flights(seq) /\ WellSent(f)
  /\ \A f, g \in flights : f.id = g.id => f = g
  /\ Sound(state)
  /\ \A f \in flights : ~Aborted(f) => Lands(state, f)
  /\ state.active # 0 => \E f \in flights : f.id = state.active /\ ~Aborted(f)

\* The entries still to render lead from the one rendered to the location, each
\* another than the one before it.
EntryAt(i) == IF i = 0 THEN routed ELSE routes[i]
RoutesLead ==
  /\ EntryAt(Len(routes)) = loc
  /\ \A i \in 1..Len(routes) : EntryAt(i) # EntryAt(i - 1)

BrowserInv ==
  /\ loc \in Urls /\ routed \in Urls /\ routes \in Seq(Urls)
  /\ RoutesLead
  /\ routes = <<>> => Serialize(state.committed) = loc

WorldInv ==
  /\ visible \in BOOLEAN /\ online \in BOOLEAN
  /\ runs \in [Texts -> RunStates]
  /\ acts \in 0..MaxActs /\ mishaps \in 0..MaxMishaps

CInv == PageInv /\ BrowserInv /\ WorldInv
-----------------------------------------------------------------------------
(* The reducer *)

\* A state has its fields.
LEMMA StateFields ==
  ASSUME NEW s \in States
  PROVE  /\ s.mode \in Modes /\ s.draft \in Words /\ s.type \in Types
         /\ s.committed \in Snapshots /\ s.search \in Rows /\ s.ask \in Panes
         /\ s.committed.mode \in Modes /\ s.committed.q \in Words /\ s.committed.type \in Types
         /\ s.search.q \in Words /\ s.search.type \in Types /\ s.search.outcome \in Outcomes
         /\ s.search.more \in Seq(Texts \X Types) /\ s.search.foot \in Feet
         /\ s.ask.question \in Words /\ s.ask.phase \in Phases
         /\ s.pending \in BOOLEAN /\ s.active \in Nat
BY DEF States, Snapshots, Rows, Panes

\* What settling leaves: nothing is awaited.
LEMMA SettleFields ==
  ASSUME NEW s \in States
  PROVE  /\ Settle(s) \in States /\ ~Waits(Settle(s)) /\ Settle(s).active = 0
         /\ Settle(s).pending = FALSE
         /\ Settle(s).mode = s.mode /\ Settle(s).draft = s.draft /\ Settle(s).type = s.type
         /\ Settle(s).committed = s.committed
         /\ Settle(s).search.q = s.search.q /\ Settle(s).search.type = s.search.type
         /\ Settle(s).search.outcome = s.search.outcome /\ Settle(s).search.more = s.search.more
         /\ Settle(s).search.foot # "loading"
         /\ Settle(s).ask.question = s.ask.question
         /\ Settle(s).ask.phase = IF s.ask.phase = "working" THEN "idle" ELSE s.ask.phase
<1>1. Settle(s) \in States
  BY DEF Settle, States, Rows, Panes, Feet, Phases, Snapshots
<1>2. /\ Settle(s).mode = s.mode /\ Settle(s).draft = s.draft /\ Settle(s).type = s.type
      /\ Settle(s).committed = s.committed /\ Settle(s).active = 0 /\ Settle(s).pending = FALSE
  BY DEF Settle, States
<1>3. /\ Settle(s).search.q = s.search.q /\ Settle(s).search.type = s.search.type
      /\ Settle(s).search.outcome = s.search.outcome /\ Settle(s).search.more = s.search.more
      /\ Settle(s).search.foot # "loading"
  BY DEF Settle, States, Rows
<1>4. /\ Settle(s).ask.question = s.ask.question
      /\ Settle(s).ask.phase = IF s.ask.phase = "working" THEN "idle" ELSE s.ask.phase
  BY DEF Settle, States, Panes
<1> QED
  BY <1>1, <1>2, <1>3, <1>4 DEF Waits

\* A commit changes what the URL says and nothing on screen.
LEMMA CommitFields ==
  ASSUME NEW s \in States, NEW snap \in Snapshots
  PROVE  /\ Commit(s, snap) \in States /\ Commit(s, snap).committed = snap
         /\ Commit(s, snap).mode = s.mode /\ Commit(s, snap).draft = s.draft
         /\ Commit(s, snap).type = s.type /\ Commit(s, snap).search = s.search
         /\ Commit(s, snap).pending = s.pending /\ Commit(s, snap).ask = s.ask
         /\ Commit(s, snap).active = s.active
BY DEF Commit, States

\* A pane gone idle.
LEMMA IdleFields ==
  ASSUME NEW s \in States
  PROVE  /\ Idle(s) \in States /\ Idle(s).ask.phase = "idle"
         /\ Idle(s).ask.question = s.ask.question
         /\ Idle(s).committed = s.committed
         /\ Idle(s).mode = s.mode /\ Idle(s).draft = s.draft
         /\ Idle(s).type = s.type /\ Idle(s).search = s.search
         /\ Idle(s).pending = s.pending /\ Idle(s).active = s.active
<1>1. Idle(s) \in States
  BY DEF Idle, States, Panes, Phases
<1>2. Idle(s).ask.phase = "idle" /\ Idle(s).ask.question = s.ask.question
  BY DEF Idle, States, Panes
<1> QED
  BY <1>1, <1>2 DEF Idle, States

\* The other tab: settled, and with no answer to another draft.
LEMMA ToModeFields ==
  ASSUME NEW s \in States, NEW mode \in Modes
  PROVE  LET t == ToMode(s, mode)
         IN  /\ t \in States /\ ~Waits(t) /\ t.active = 0 /\ t.pending = FALSE
             /\ t.mode = mode /\ t.draft = s.draft /\ t.type = s.type
             /\ t.search.q = s.search.q /\ t.search.type = s.search.type
             /\ t.search.outcome = s.search.outcome /\ t.search.more = s.search.more
             /\ t.ask.question = s.ask.question
             /\ t.ask.phase # "idle" => s.ask.phase # "idle"
             /\ mode = "ask" /\ t.ask.phase # "idle" => t.ask.question = s.draft
<1> DEFINE m == [s EXCEPT !.mode = mode]
<1>1. /\ m \in States /\ m.mode = mode /\ m.draft = s.draft /\ m.type = s.type
      /\ m.search = s.search /\ m.ask = s.ask
  BY DEF States
<1> HIDE DEF m
<1> DEFINE n == Settle(m)
<1>2. ToMode(s, mode) = IF mode = "ask" /\ n.ask.question # s.draft THEN Idle(n) ELSE n
  BY DEF ToMode, m
<1>3. /\ n \in States /\ ~Waits(n) /\ n.active = 0 /\ n.pending = FALSE
      /\ n.mode = mode /\ n.draft = s.draft /\ n.type = s.type
      /\ n.search.q = s.search.q /\ n.search.type = s.search.type
      /\ n.search.outcome = s.search.outcome /\ n.search.more = s.search.more
      /\ n.ask.question = s.ask.question
      /\ n.ask.phase # "idle" => s.ask.phase # "idle"
  <2>1. m.ask.phase = s.ask.phase /\ m.ask.question = s.ask.question
    BY <1>1
  <2>2. n.ask.phase = IF m.ask.phase = "working" THEN "idle" ELSE m.ask.phase
    BY <1>1, SettleFields
  <2>3. n.ask.phase # "idle" => s.ask.phase # "idle"
    BY <2>1, <2>2
  <2>4. /\ n.search.q = m.search.q /\ n.search.type = m.search.type
        /\ n.search.outcome = m.search.outcome /\ n.search.more = m.search.more
        /\ n.ask.question = m.ask.question
    BY <1>1, SettleFields
  <2>5. /\ n \in States /\ ~Waits(n) /\ n.active = 0 /\ n.pending = FALSE
        /\ n.mode = m.mode /\ n.draft = m.draft /\ n.type = m.type
    BY <1>1, SettleFields
  <2> QED
    BY <1>1, <2>1, <2>3, <2>4, <2>5
<1> HIDE DEF n
<1>4. CASE mode = "ask" /\ n.ask.question # s.draft
  <2>1. ToMode(s, mode) = Idle(n)
    BY <1>2, <1>4
  <2> QED
    BY <1>3, <2>1, IdleFields DEF Waits
<1>5. CASE ~(mode = "ask" /\ n.ask.question # s.draft)
  <2>1. ToMode(s, mode) = n
    BY <1>2, <1>5
  <2> QED
    BY <1>3, <1>5, <2>1
<1> QED
  BY <1>4, <1>5

\* The cold page.
LEMMA ColdFields ==
  ASSUME NEW s \in States
  PROVE  /\ Cold(s) \in States /\ ~Waits(Cold(s)) /\ Cold(s).active = 0
         /\ Cold(s).pending = FALSE
         /\ Cold(s).mode = s.mode /\ Cold(s).committed = s.committed
         /\ Cold(s).search.outcome = "null" /\ Cold(s).search.more = <<>>
         /\ Cold(s).search.q = NoText
         /\ Cold(s).ask = Settle(s).ask
<1> DEFINE t == Settle(s)
<1>1. t \in States /\ ~Waits(t) /\ t.active = 0 /\ t.pending = FALSE
      /\ t.mode = s.mode /\ t.committed = s.committed
  BY SettleFields
<1>2. t.search \in Rows
  BY <1>1, StateFields
<1> HIDE DEF t
<1> DEFINE c == [t.search EXCEPT !.q = NoText, !.outcome = "null", !.more = <<>>, !.foot = "none"]
<1>3. Cold(s) = [t EXCEPT !.search = c]
  BY <1>1, <1>2 DEF Cold, NoSearch, States, Rows, t
<1>4. c \in Rows
  <2>1. NoText \in Words /\ "null" \in Outcomes /\ "none" \in Feet /\ <<>> \in Seq(Texts \X Types)
    BY DEF Words, Outcomes, Feet
  <2> QED
    BY <2>1, <1>2 DEF Rows
<1>5. c.q = NoText /\ c.outcome = "null" /\ c.more = <<>> /\ c.foot = "none"
  BY <1>2 DEF Rows
<1> HIDE DEF c
<1>6. Cold(s).search = c /\ Cold(s) \in States
  BY <1>1, <1>3, <1>4 DEF States
<1>7. /\ Cold(s).mode = t.mode /\ Cold(s).committed = t.committed
      /\ Cold(s).pending = t.pending /\ Cold(s).ask = t.ask /\ Cold(s).active = t.active
  BY <1>1, <1>3 DEF States
<1>8. /\ Cold(s).search.q = NoText /\ Cold(s).search.outcome = "null"
      /\ Cold(s).search.more = <<>> /\ Cold(s).search.foot = "none"
  BY <1>5, <1>6
<1> QED
  BY <1>1, <1>6, <1>7, <1>8 DEF Waits, t

\* A search that has gone out.
LEMMA SearchingFields ==
  ASSUME NEW s \in States, NEW id \in Nat
  PROVE  LET t == Searching(s, id)
         IN  /\ t \in States /\ t.active = id /\ t.pending = TRUE
             /\ t.mode = s.mode /\ t.committed = s.committed
             /\ t.search = Settle(s).search /\ t.ask = Settle(s).ask
<1> DEFINE n == Settle(s)
<1>1. n \in States /\ n.mode = s.mode /\ n.committed = s.committed
  BY SettleFields
<1> HIDE DEF n
<1>2. Searching(s, id) = [n EXCEPT !.active = id, !.pending = TRUE]
  BY DEF Searching, n
<1>3. /\ Searching(s, id) \in States
      /\ Searching(s, id).active = id /\ Searching(s, id).pending = TRUE
      /\ Searching(s, id).mode = n.mode /\ Searching(s, id).committed = n.committed
      /\ Searching(s, id).search = n.search /\ Searching(s, id).ask = n.ask
  BY <1>1, <1>2 DEF States
<1> QED
  BY <1>1, <1>3 DEF n

\* The reply that counts replaces the rows by its own.
LEMMA SearchedFields ==
  ASSUME NEW s \in States, NEW q \in Texts, NEW type \in Types, NEW outcome \in {"ok", "bad"},
         s.active # 0
  PROVE  LET t == Searched(s, s.active, q, type, outcome)
         IN  /\ t \in States /\ t.active = 0 /\ t.pending = FALSE
             /\ t.mode = s.mode /\ t.committed = s.committed /\ t.ask = s.ask
             /\ t.search = [q |-> q, type |-> type, outcome |-> outcome,
                            more |-> <<>>, foot |-> "none"]
<1> DEFINE r == [q |-> q, type |-> type, outcome |-> outcome, more |-> <<>>, foot |-> "none"]
           t == Searched(s, s.active, q, type, outcome)
<1>1. r \in Rows
  BY DEF Rows, Words, Outcomes, Feet
<1>2. t = [s EXCEPT !.active = 0, !.pending = FALSE, !.search = r]
  BY DEF Searched
<1> HIDE DEF r, t
<1>3. /\ t \in States /\ t.active = 0 /\ t.pending = FALSE
      /\ t.mode = s.mode /\ t.committed = s.committed /\ t.ask = s.ask /\ t.search = r
  BY <1>1, <1>2 DEF States
<1> QED
  BY <1>3 DEF r, t

\* A later page that has gone out.
LEMMA PagingFields ==
  ASSUME NEW s \in States, NEW id \in Nat
  PROVE  LET t == Paging(s, id)
         IN  /\ t \in States /\ t.active = id /\ t.pending = FALSE
             /\ t.mode = s.mode /\ t.committed = s.committed /\ t.ask = Settle(s).ask
             /\ t.search.q = s.search.q /\ t.search.type = s.search.type
             /\ t.search.outcome = s.search.outcome /\ t.search.more = s.search.more
             /\ t.search.foot = "loading"
<1> DEFINE n == Settle(s)
           t == Paging(s, id)
           r == [n.search EXCEPT !.foot = "loading"]
<1>1. /\ n \in States /\ n.mode = s.mode /\ n.committed = s.committed /\ n.pending = FALSE
      /\ n.search.q = s.search.q /\ n.search.type = s.search.type
      /\ n.search.outcome = s.search.outcome /\ n.search.more = s.search.more
  BY SettleFields
<1>2. n.search \in Rows
  BY <1>1, StateFields
<1> HIDE DEF n
<1>3. t = [n EXCEPT !.active = id, !.search = r]
  BY <1>1 DEF Paging, States, n
<1>4. /\ r \in Rows /\ r.q = n.search.q /\ r.type = n.search.type
      /\ r.outcome = n.search.outcome /\ r.more = n.search.more /\ r.foot = "loading"
  BY <1>2 DEF Rows, Feet
<1> HIDE DEF r, t
<1>5. /\ t \in States /\ t.active = id /\ t.pending = n.pending
      /\ t.mode = n.mode /\ t.committed = n.committed /\ t.ask = n.ask /\ t.search = r
  BY <1>1, <1>3, <1>4 DEF States
<1> QED
  BY <1>1, <1>4, <1>5 DEF t, n

\* Its reply adds a page of the query it was sent for, or says that it failed.
LEMMA MoreDoneFields ==
  ASSUME NEW s \in States, NEW q \in Texts, NEW type \in Types, NEW outcome \in {"ok", "bad"},
         s.active # 0
  PROVE  LET t == MoreDone(s, s.active, q, type, outcome)
         IN  /\ t \in States /\ t.active = 0 /\ t.pending = s.pending
             /\ t.mode = s.mode /\ t.committed = s.committed /\ t.ask = s.ask
             /\ t.search.q = s.search.q /\ t.search.type = s.search.type
             /\ t.search.outcome = s.search.outcome /\ t.search.foot # "loading"
             /\ t.search.more \in {s.search.more, Append(s.search.more, <<q, type>>)}
<1> DEFINE t == MoreDone(s, s.active, q, type, outcome)
           more == IF outcome = "ok" THEN Append(s.search.more, <<q, type>>) ELSE s.search.more
           foot == IF outcome = "ok" THEN "none" ELSE "failed"
           r == [s.search EXCEPT !.more = more, !.foot = foot]
<1>1. s.search \in Rows /\ s.search.more \in Seq(Texts \X Types)
  BY StateFields
<1>2. more \in Seq(Texts \X Types) /\ foot \in Feet /\ foot # "loading"
      /\ more \in {s.search.more, Append(s.search.more, <<q, type>>)}
  BY <1>1 DEF Feet
<1>3. t = [s EXCEPT !.active = 0, !.search = r]
  BY <1>1 DEF MoreDone, States, Rows
<1> HIDE DEF more, foot
<1>4. /\ r \in Rows /\ r.q = s.search.q /\ r.type = s.search.type
      /\ r.outcome = s.search.outcome /\ r.more = more /\ r.foot = foot
  BY <1>1, <1>2 DEF Rows
<1> HIDE DEF r, t
<1>5. /\ t \in States /\ t.active = 0 /\ t.pending = s.pending
      /\ t.mode = s.mode /\ t.committed = s.committed /\ t.ask = s.ask /\ t.search = r
  BY <1>3, <1>4 DEF States
<1> QED
  BY <1>2, <1>4, <1>5 DEF t

\* A question that has gone out.
LEMMA AskingFields ==
  ASSUME NEW s \in States, NEW id \in Nat, NEW question \in Words
  PROVE  LET t == Asking(s, id, question)
         IN  /\ t \in States /\ t.active = id /\ t.pending = FALSE
             /\ t.mode = s.mode /\ t.committed = s.committed
             /\ t.search = Settle(s).search
             /\ t.ask = [question |-> question, phase |-> "working"]
<1> DEFINE n == Settle(s)
           t == Asking(s, id, question)
           r == [question |-> question, phase |-> "working"]
<1>1. n \in States /\ n.mode = s.mode /\ n.committed = s.committed /\ n.pending = FALSE
  BY SettleFields
<1>2. r \in Panes
  BY DEF Panes, Phases
<1>3. t = [n EXCEPT !.active = id, !.ask = r]
  BY DEF Asking
<1> HIDE DEF n, t, r
<1>4. /\ t \in States /\ t.active = id /\ t.pending = n.pending
      /\ t.mode = n.mode /\ t.committed = n.committed /\ t.search = n.search /\ t.ask = r
  BY <1>1, <1>2, <1>3 DEF States
<1> QED
  BY <1>1, <1>4 DEF n, t, r

\* What a stream's events make of the pane: only the request that counts is heard.
LEMMA AskPhaseFields ==
  ASSUME NEW s \in States, NEW phase \in Phases, s.active # 0
  PROVE  LET t == AskPhase(s, s.active, phase)
         IN  /\ t \in States /\ t.pending = s.pending
             /\ t.active = IF phase = "working" THEN s.active ELSE 0
             /\ t.mode = s.mode /\ t.committed = s.committed /\ t.search = s.search
             /\ t.ask.question = s.ask.question /\ t.ask.phase = phase
<1> DEFINE t == AskPhase(s, s.active, phase)
           n == IF phase = "working" THEN s.active ELSE 0
           r == [s.ask EXCEPT !.phase = phase]
<1>1. s.ask \in Panes /\ s.active \in Nat
  BY StateFields
<1>2. r \in Panes /\ r.question = s.ask.question /\ r.phase = phase /\ n \in Nat
  BY <1>1 DEF Panes
<1>3. t = [s EXCEPT !.active = n, !.ask = r]
  BY DEF AskPhase, States
<1> HIDE DEF n, r, t
<1>4. /\ t \in States /\ t.pending = s.pending /\ t.active = n
      /\ t.mode = s.mode /\ t.committed = s.committed /\ t.search = s.search /\ t.ask = r
  BY <1>2, <1>3 DEF States
<1> QED
  BY <1>2, <1>4 DEF n, t

\* Back or Forward: the snapshot of the entry, and of what was on screen only
\* what still answers it.
LEMMA RestoreFields ==
  ASSUME NEW s \in States, NEW snap \in Snapshots
  PROVE  LET t == Restore(s, snap)
         IN  /\ t \in States /\ t.active = 0 /\ t.pending = FALSE /\ ~Waits(t)
             /\ t.mode = snap.mode /\ t.committed = snap
             /\ \/ /\ t.search.q = s.search.q /\ t.search.type = s.search.type
                   /\ t.search.outcome = s.search.outcome /\ t.search.more = s.search.more
                \/ /\ snap.mode = "search" /\ snap.q = NoText
                   /\ t.search.outcome = "null" /\ t.search.more = <<>>
             /\ t.ask.phase # "idle" =>
                  s.ask.phase # "idle" /\ t.ask.question = s.ask.question
             /\ snap.mode = "ask" /\ t.ask.phase # "idle" => t.ask.question = snap.q
<1> DEFINE type == IF snap.mode = "search" THEN snap.type ELSE s.type
           m == [s EXCEPT !.mode = snap.mode, !.draft = snap.q, !.type = type, !.committed = snap]
           n == Settle(m)
           t == Restore(s, snap)
<1>1. /\ snap.mode \in Modes /\ snap.q \in Words /\ type \in Types
  BY StateFields DEF Snapshots
<1>2. t = IF snap.mode = "search" /\ snap.q = NoText THEN NoSearch(n)
          ELSE IF snap.mode = "ask" /\ n.ask.question # snap.q
               THEN Idle([n EXCEPT !.ask.question = snap.q])
          ELSE n
  BY DEF Restore, States
<1> HIDE DEF type
<1>3. /\ m \in States /\ m.mode = snap.mode /\ m.committed = snap
      /\ m.search = s.search /\ m.ask = s.ask
  BY <1>1 DEF States
<1> HIDE DEF m
<1>4. /\ n \in States /\ ~Waits(n) /\ n.active = 0 /\ n.pending = FALSE
      /\ n.mode = snap.mode /\ n.committed = snap
  BY <1>3, SettleFields
<1>5. /\ n.search.q = s.search.q /\ n.search.type = s.search.type
      /\ n.search.outcome = s.search.outcome /\ n.search.more = s.search.more
  <2>1. /\ n.search.q = m.search.q /\ n.search.type = m.search.type
        /\ n.search.outcome = m.search.outcome /\ n.search.more = m.search.more
    BY <1>3, SettleFields
  <2> QED
    BY <1>3, <2>1
<1>6. n.ask.question = s.ask.question /\ (n.ask.phase # "idle" => s.ask.phase # "idle")
  <2>1. /\ n.ask.question = m.ask.question
        /\ n.ask.phase = IF m.ask.phase = "working" THEN "idle" ELSE m.ask.phase
    BY <1>3, SettleFields
  <2> QED
    BY <1>3, <2>1
<1>7. n.search \in Rows /\ n.ask \in Panes
  BY <1>4, StateFields
<1> HIDE DEF n, t
<1>8. CASE snap.mode = "search" /\ snap.q = NoText
  <2> DEFINE r == [n.search EXCEPT !.q = NoText, !.outcome = "null", !.more = <<>>]
  <2>1. t = [n EXCEPT !.search = r]
    BY <1>2, <1>4, <1>7, <1>8 DEF NoSearch, States, Rows
  <2>2. NoText \in Words /\ "null" \in Outcomes /\ <<>> \in Seq(Texts \X Types)
    BY DEF Words, Outcomes
  <2>3. r \in Rows /\ r.outcome = "null" /\ r.more = <<>> /\ r.foot = n.search.foot
    BY <1>7, <2>2 DEF Rows
  <2> HIDE DEF r
  <2>4. /\ t \in States /\ t.search = r /\ t.ask = n.ask /\ t.active = n.active
        /\ t.pending = n.pending /\ t.mode = n.mode /\ t.committed = n.committed
    BY <1>4, <2>1, <2>3 DEF States
  <2>5. ~Waits(t)
    BY <1>4, <2>3, <2>4 DEF Waits
  <2> QED
    BY <1>4, <1>6, <1>8, <2>3, <2>4, <2>5 DEF t
<1>9. CASE snap.mode = "ask" /\ n.ask.question # snap.q
  <2> DEFINE k == [n EXCEPT !.ask.question = snap.q]
             r == [n.ask EXCEPT !.question = snap.q]
  <2>1. t = Idle(k)
    BY <1>2, <1>9
  <2>2. k = [n EXCEPT !.ask = r]
    BY <1>4 DEF States
  <2>3. r \in Panes /\ r.phase = n.ask.phase
    BY <1>1, <1>7 DEF Panes
  <2> HIDE DEF r, k
  <2>4. /\ k \in States /\ k.search = n.search /\ k.ask = r /\ k.active = n.active
        /\ k.pending = n.pending /\ k.mode = n.mode /\ k.committed = n.committed
    BY <1>4, <2>2, <2>3 DEF States
  <2>5. /\ t \in States /\ t.search = n.search /\ t.ask.phase = "idle" /\ t.active = n.active
        /\ t.pending = n.pending /\ t.mode = n.mode /\ t.committed = n.committed
    BY <2>1, <2>4, IdleFields
  <2>6. ~Waits(t)
    BY <1>4, <2>5 DEF Waits
  <2> QED
    BY <1>4, <1>5, <2>5, <2>6 DEF t
<1>10. CASE /\ ~(snap.mode = "search" /\ snap.q = NoText)
            /\ ~(snap.mode = "ask" /\ n.ask.question # snap.q)
  <2>1. t = n
    BY <1>2, <1>10
  <2> QED
    BY <1>4, <1>5, <1>6, <1>10, <2>1 DEF t
<1> QED
  BY <1>8, <1>9, <1>10

-----------------------------------------------------------------------------
(* The page and its requests *)

\* The parts of what holds of the page.
LEMMA PageParts ==
  ASSUME PageInv
  PROVE  /\ state \in States /\ seq \in Nat /\ controller \in 0..seq
         /\ \A f \in flights : f \in Flights(seq) /\ WellSent(f)
         /\ \A f, g \in flights : f.id = g.id => f = g
         /\ Sound(state)
         /\ \A f \in flights : f.id = controller => Lands(state, f)
         /\ state.active # 0 =>
              \E f \in flights : f.id = state.active /\ f.id = controller
BY DEF PageInv, Aborted

\* A request has its fields.
LEMMA FlightFields ==
  ASSUME PageInv, NEW f \in flights
  PROVE  /\ f.id \in Nat /\ f.id # 0 /\ f.id <= seq /\ f.kind \in Kinds
         /\ f.q \in Texts /\ f.type \in Types /\ f.stage \in {"sent", "streaming", "failed"}
         /\ f.shown \in BOOLEAN
<1>1. f \in Flights(seq) /\ seq \in Nat
  BY PageParts
<1> QED
  BY <1>1 DEF Flights

\* A new request takes the place of the one before it.
LEMMA BeginStep ==
  ASSUME PageInv, state' \in States, Sound(state'),
         NEW kind \in Kinds, NEW q \in Texts, NEW type \in Types,
         NEW rest \in SUBSET flights,
         seq' = seq + 1, controller' = seq + 1,
         flights' = rest \cup {Flight(seq + 1, kind, q, type)},
         state'.active \in {0, seq + 1},
         Lands(state', Flight(seq + 1, kind, q, type))
  PROVE  PageInv'
<1> DEFINE new == Flight(seq + 1, kind, q, type)
<1>1. new \in Flights(seq + 1) /\ new.id = seq + 1 /\ seq \in Nat /\ WellSent(new)
  <2>1. seq \in Nat
    BY PageParts
  <2>2. /\ new.id = seq + 1 /\ new.kind = kind /\ new.stage = "sent"
        /\ new.shown = (kind = "ask")
    BY DEF Flight
  <2>3. WellSent(new)
    BY <2>2 DEF WellSent
  <2>4. new \in Flights(seq + 1)
    BY <2>1 DEF Flight, Flights
  <2> QED
    BY <2>1, <2>2, <2>3, <2>4
<1> HIDE DEF new
<1>2. \A f \in rest : f \in flights /\ f \in Flights(seq + 1) /\ f.id # seq + 1
  <2> SUFFICES ASSUME NEW f \in rest
               PROVE  f \in flights /\ f \in Flights(seq + 1) /\ f.id # seq + 1
    OBVIOUS
  <2>1. f \in flights /\ f \in Flights(seq) /\ seq \in Nat
    BY PageParts
  <2> QED
    BY <2>1 DEF Flights
<1>3. flights' = rest \cup {new} /\ Lands(state', new)
  BY DEF new
<1>4. \A f \in flights' : f \in Flights(seq') /\ WellSent(f)
  BY <1>1, <1>2, <1>3, PageParts
<1>5. \A f, g \in flights' : f.id = g.id => f = g
  BY <1>1, <1>2, <1>3, PageParts
<1>6. \A f \in flights' : f.id = controller' => Lands(state', f)
  BY <1>1, <1>2, <1>3
<1>7. state'.active # 0 => \E f \in flights' : f.id = state'.active /\ f.id = controller'
  BY <1>1, <1>3
<1> QED
  BY <1>1, <1>4, <1>5, <1>6, <1>7 DEF PageInv, Aborted

\* With the request aborted, or over, nothing may land.
LEMMA OverStep ==
  ASSUME PageInv, state' \in States, Sound(state'), state'.active = 0,
         seq' = seq, flights' \subseteq flights,
         \/ controller' = 0
         \/ controller' = controller /\ \A f \in flights' : f.id # controller
  PROVE  PageInv'
<1>1. \A f \in flights' : f \in flights /\ f \in Flights(seq) /\ f.id # 0 /\ WellSent(f)
  BY PageParts, FlightFields
<1>2. \A f, g \in flights' : f.id = g.id => f = g
  BY <1>1, PageParts
<1>3. \A f \in flights' : f.id # controller'
  BY <1>1
<1>4. controller' \in 0..seq' /\ seq' \in Nat
  BY PageParts
<1> QED
  BY <1>1, <1>2, <1>3, <1>4 DEF PageInv, Aborted

-----------------------------------------------------------------------------
(* What the handlers share *)

\* Settling takes nothing from the rows, and no question from the pane.
LEMMA SettleRight ==
  ASSUME NEW s \in States, RowsRight(s), PaneNamed(s)
  PROVE  RowsRight(Settle(s)) /\ PaneNamed(Settle(s))
<1> DEFINE t == Settle(s)
<1>1. /\ t.search.q = s.search.q /\ t.search.type = s.search.type
      /\ t.search.outcome = s.search.outcome /\ t.search.more = s.search.more
      /\ t.ask.question = s.ask.question
  BY SettleFields
<1>2. t.ask.phase # "idle" => s.ask.phase # "idle"
  <2>1. t.ask.phase = IF s.ask.phase = "working" THEN "idle" ELSE s.ask.phase
    BY SettleFields
  <2> QED
    BY <2>1
<1> HIDE DEF t
<1>3. RowsRight(t) /\ PaneNamed(t)
  BY <1>1, <1>2 DEF RowsRight, PaneNamed
<1> QED
  BY <1>3 DEF t

\* A search of what is committed, or of what the rows are of.
LEMMA SearchStep ==
  ASSUME PageInv, NEW s \in States, RowsRight(s), PaneNamed(s),
         s.mode = "search", s.committed.mode = "search",
         NEW q \in Words, NEW type \in Types,
         s.committed.q # NoText => s.committed.q = q /\ s.committed.type = type,
         Search(s, q, type)
  PROVE  PageInv' /\ state'.committed = s.committed
<1>1. seq + 1 \in Nat /\ seq + 1 # 0
  BY PageParts
<1>2. CASE q = NoText
  <2>1. state' = Cold(s) /\ Stop
    BY <1>2 DEF Search
  <2>2. /\ state' \in States /\ ~Waits(state') /\ state'.active = 0
        /\ state'.mode = "search" /\ state'.committed = s.committed
        /\ state'.search.outcome = "null" /\ state'.search.more = <<>>
        /\ state'.ask = Settle(s).ask
    BY <2>1, ColdFields
  <2>3. RowsRight(state')
    BY <2>2 DEF RowsRight
  <2>4. PaneNamed(state')
    BY <2>2, SettleRight DEF PaneNamed
  <2>5. s.committed.q = NoText
    BY <1>2
  <2>6. Sound(state')
    BY <2>2, <2>3, <2>4, <2>5 DEF Sound
  <2>7. PageInv'
    BY <2>1, <2>2, <2>6, OverStep DEF Stop
  <2> QED
    BY <2>2, <2>7
<1>3. CASE q # NoText
  <2>1. /\ state' = Searching(s, seq + 1)
        /\ seq' = seq + 1 /\ controller' = seq + 1
        /\ flights' = flights \cup {Flight(seq + 1, "search", q, type)}
    BY <1>3 DEF Search, Begin
  <2>2. /\ state' \in States /\ state'.active = seq + 1 /\ state'.pending = TRUE
        /\ state'.mode = "search" /\ state'.committed = s.committed
        /\ state'.search = Settle(s).search /\ state'.ask = Settle(s).ask
    BY <1>1, <2>1, SearchingFields
  <2>3. RowsRight(state') /\ PaneNamed(state')
    BY <2>2, SettleRight DEF RowsRight, PaneNamed
  <2>4. Sound(state')
    BY <1>1, <2>2, <2>3 DEF Sound, Waits
  <2>5. q \in Texts /\ "search" \in Kinds
    BY <1>3 DEF Words, Kinds
  <2>6. ~(state'.search.foot = "loading") /\ ~(state'.ask.phase = "working")
    <3>1. ~Waits(Settle(s))
      BY SettleFields
    <3> QED
      BY <2>2, <3>1 DEF Waits
  <2>7. Lands(state', Flight(seq + 1, "search", q, type))
    BY <2>2, <2>6 DEF Lands, Flight
  <2>8. PageInv'
    BY <2>1, <2>2, <2>4, <2>5, <2>7, BeginStep
  <2> QED
    BY <2>2, <2>8
<1> QED
  BY <1>2, <1>3

\* The parts of what holds of the browser.
LEMMA BrowserParts ==
  ASSUME BrowserInv
  PROVE  /\ loc \in Urls /\ routed \in Urls /\ routes \in Seq(Urls) /\ Len(routes) \in Nat
         /\ EntryAt(Len(routes)) = loc
         /\ \A i \in 1..Len(routes) : EntryAt(i) # EntryAt(i - 1)
         /\ routes = <<>> => Serialize(state.committed) = loc
BY DEF BrowserInv, RoutesLead

\* A snapshot has a URL, and a URL is the snapshot it parses to.
LEMMA SerializeUrl ==
  ASSUME NEW snap \in Snapshots
  PROVE  /\ Serialize(snap) \in Urls
         /\ Serialize(snap).mode = snap.mode /\ Serialize(snap).q = snap.q
         /\ snap.mode = "search" => Serialize(snap) = snap
<1>1. CASE snap.mode = "ask"
  <2>1. Serialize(snap) = [snap EXCEPT !.type = All]
    BY <1>1 DEF Serialize
  <2>2. Serialize(snap) = Snapshot("ask", snap.q, All) /\ snap.q \in Words
    BY <1>1, <2>1 DEF Snapshots, Snapshot
  <2> QED
    BY <1>1, <2>2 DEF Urls, Snapshot
<1>2. CASE snap.mode = "search"
  <2>1. Serialize(snap) = snap
    BY <1>2 DEF Serialize
  <2>2. snap = Snapshot("search", snap.q, snap.type) /\ snap.q \in Words /\ snap.type \in Types
    BY <1>2 DEF Snapshots, Snapshot
  <2> QED
    BY <1>2, <2>1, <2>2 DEF Urls
<1> QED
  BY <1>1, <1>2 DEF Snapshots, Modes

LEMMA UrlSnapshot ==
  ASSUME NEW url \in Urls
  PROVE  /\ url \in Snapshots /\ Serialize(url) = url
         /\ url.mode \in Modes /\ url.q \in Words /\ url.type \in Types
<1>1. CASE \E q \in Words, t \in Types : url = Snapshot("search", q, t)
  BY <1>1 DEF Snapshot, Snapshots, Serialize, Modes
<1>2. CASE \E q \in Words : url = Snapshot("ask", q, All)
  <2>1. PICK q \in Words : url = [mode |-> "ask", q |-> q, type |-> All]
    BY <1>2 DEF Snapshot
  <2>2. All \in Types
    BY ConsoleAssumption
  <2>3. [url EXCEPT !.type = All] = url
    BY <2>1
  <2> QED
    BY <2>1, <2>2, <2>3 DEF Snapshots, Serialize, Modes
<1> QED
  BY <1>1, <1>2 DEF Urls

\* An entry that is added is another than the last one, and becomes the location.
LEMMA EntryAdded ==
  ASSUME BrowserInv, NEW url \in Urls, url # loc,
         loc' = url, routed' = routed, routes' = Append(routes, url)
  PROVE  routes' \in Seq(Urls) /\ routes' # <<>> /\ RoutesLead'
<1>1. PICK n \in Nat : n = Len(routes) /\ routes \in Seq(Urls)
  BY BrowserParts
<1>2. /\ routes' \in Seq(Urls) /\ Len(routes') = n + 1 /\ routes' # <<>>
      /\ routes'[n + 1] = url
      /\ \A i \in 1..n : routes'[i] = routes[i]
  BY <1>1
<1>3. \A i \in 0..n : EntryAt(i)' = EntryAt(i)
  BY <1>1, <1>2 DEF EntryAt
<1>4. EntryAt(n + 1)' = url
  BY <1>1, <1>2 DEF EntryAt
<1>5. ASSUME NEW i \in 1..n + 1 PROVE EntryAt(i)' # EntryAt(i - 1)'
  <2>1. CASE i = n + 1
    BY <2>1, <1>1, <1>3, <1>4, BrowserParts
  <2>2. CASE i \in 1..n
    BY <2>2, <1>1, <1>3, BrowserParts
  <2> QED
    BY <1>1, <2>1, <2>2
<1>6. EntryAt(Len(routes))' = loc'
  BY <1>2, <1>4 DEF EntryAt
<1> QED
  BY <1>2, <1>5, <1>6 DEF RoutesLead

\* writeUrl leaves the location saying what was committed.
LEMMA PushStep ==
  ASSUME BrowserInv, NEW snap \in Snapshots, Push(snap), state'.committed = snap
  PROVE  BrowserInv'
<1> DEFINE url == Serialize(snap)
<1>1. url \in Urls
  BY SerializeUrl
<1>2. /\ loc' = url /\ routed' = routed
      /\ routes' = IF url = loc THEN routes ELSE Append(routes, url)
      /\ Serialize(state'.committed) = url
  BY DEF Push
<1> HIDE DEF url
<1>3. CASE url = loc
  <2>1. loc' = loc /\ routed' = routed /\ routes' = routes
    BY <1>2, <1>3
  <2>2. RoutesLead'
    BY <2>1, BrowserParts DEF RoutesLead, EntryAt
  <2> QED
    BY <1>1, <1>2, <2>1, <2>2, BrowserParts DEF BrowserInv
<1>4. CASE url # loc
  <2>1. routes' = Append(routes, url)
    BY <1>2, <1>4
  <2>2. routes' \in Seq(Urls) /\ routes' # <<>> /\ RoutesLead'
    BY <1>1, <1>2, <1>4, <2>1, EntryAdded
  <2> QED
    BY <1>1, <1>2, <2>2, BrowserParts DEF BrowserInv
<1> QED
  BY <1>3, <1>4

\* A snapshot the handlers make is one.
LEMMA SnapshotFields ==
  ASSUME NEW mode \in Modes, NEW q \in Words, NEW type \in Types
  PROVE  /\ Snapshot(mode, q, type) \in Snapshots
         /\ Snapshot(mode, q, type).mode = mode /\ Snapshot(mode, q, type).q = q
         /\ Snapshot(mode, q, type).type = type
BY DEF Snapshot, Snapshots

\* A search commits what it is of, and goes out or clears the page.
LEMMA RunStep ==
  ASSUME PageInv, BrowserInv, NEW s \in States, RowsRight(s), PaneNamed(s), s.mode = "search",
         NEW q \in Words, NEW type \in Types, Run(s, q, type)
  PROVE  PageInv' /\ BrowserInv'
<1> DEFINE snap == Snapshot("search", q, type)
           c == Commit(s, snap)
<1>1. Search(c, q, type) /\ Push(snap)
  BY DEF Run
<1>2. snap \in Snapshots /\ snap.mode = "search" /\ snap.q = q /\ snap.type = type
  BY SnapshotFields DEF Modes
<1> HIDE DEF snap
<1>3. /\ c \in States /\ c.committed = snap /\ c.mode = "search"
      /\ c.search = s.search /\ c.ask = s.ask
  BY <1>2, CommitFields
<1> HIDE DEF c
<1>4. RowsRight(c) /\ PaneNamed(c)
  BY <1>3 DEF RowsRight, PaneNamed
<1>5. PageInv' /\ state'.committed = snap
  BY <1>1, <1>2, <1>3, <1>4, SearchStep
<1>6. BrowserInv'
  BY <1>1, <1>2, <1>5, PushStep
<1> QED
  BY <1>5, <1>6

\* So does an ask.
LEMMA AskStep ==
  ASSUME PageInv, BrowserInv, NEW s \in States, RowsRight(s), s.mode = "ask",
         NEW question \in Words, Ask(s, question)
  PROVE  PageInv' /\ BrowserInv'
<1> DEFINE snap == Snapshot("ask", question, state.type)
           c == Commit(s, snap)
<1>1. /\ question # NoText /\ state' = Asking(c, seq + 1, question)
      /\ seq' = seq + 1 /\ controller' = seq + 1
      /\ flights' = flights \cup {Flight(seq + 1, "ask", question, All)}
      /\ Push(snap)
  BY DEF Ask, Begin
<1>2. snap \in Snapshots /\ snap.mode = "ask" /\ snap.q = question
  BY SnapshotFields, PageParts, StateFields DEF Modes
<1> HIDE DEF snap
<1>3. /\ c \in States /\ c.committed = snap /\ c.mode = "ask" /\ c.search = s.search
  BY <1>2, CommitFields
<1> HIDE DEF c
<1>4. seq + 1 \in Nat /\ seq + 1 # 0
  BY PageParts
<1> DEFINE n == Settle(c)
<1>5. /\ n.search.q = s.search.q /\ n.search.type = s.search.type
      /\ n.search.outcome = s.search.outcome /\ n.search.more = s.search.more
      /\ n.search.foot # "loading"
  <2>1. /\ n.search.q = c.search.q /\ n.search.type = c.search.type
        /\ n.search.outcome = c.search.outcome /\ n.search.more = c.search.more
        /\ n.search.foot # "loading"
    BY <1>3, SettleFields
  <2> QED
    BY <1>3, <2>1
<1>6. /\ state' \in States /\ state'.active = seq + 1 /\ state'.pending = FALSE
      /\ state'.mode = "ask" /\ state'.committed = snap /\ state'.search = n.search
      /\ state'.ask = [question |-> question, phase |-> "working"]
  BY <1>1, <1>3, <1>4, AskingFields
<1> HIDE DEF n
<1>7. RowsRight(state') /\ PaneNamed(state')
  BY <1>1, <1>5, <1>6 DEF RowsRight, PaneNamed
<1>8. Sound(state')
  BY <1>2, <1>4, <1>6, <1>7 DEF Sound, Waits
<1>9. Lands(state', Flight(seq + 1, "ask", question, All))
  BY <1>2, <1>5, <1>6 DEF Lands, Flight
<1>10. question \in Texts /\ "ask" \in Kinds /\ All \in Types
  BY <1>1, ConsoleAssumption DEF Words, Kinds
<1>11. PageInv'
  BY <1>1, <1>6, <1>8, <1>9, <1>10, BeginStep
<1>12. BrowserInv'
  BY <1>1, <1>2, <1>6, PushStep
<1> QED
  BY <1>11, <1>12

-----------------------------------------------------------------------------
(* The visitor *)

\* What holds of the state on screen.
LEMMA ScreenParts ==
  ASSUME PageInv
  PROVE  /\ RowsRight(state) /\ PaneNamed(state) /\ state.mode = state.committed.mode
         /\ state.mode = "ask" /\ state.ask.phase # "idle" =>
              state.ask.question = state.committed.q
         /\ state.mode = "search" /\ state.committed.q # NoText /\ ~state.pending =>
              Holds(state, state.committed.q, state.committed.type)
         /\ Waits(state) <=> state.active # 0
BY PageParts DEF Sound

\* The browser stays where it is, and so does what is committed.
LEMMA BrowserStays ==
  ASSUME BrowserInv, UNCHANGED browser, state'.committed = state.committed
  PROVE  BrowserInv'
BY DEF BrowserInv, RoutesLead, EntryAt, browser

\* A step that changes nothing the requests or the rows are of.
LEMMA PageStays ==
  ASSUME PageInv, state' \in States, UNCHANGED <<seq, controller, flights>>,
         state'.mode = state.mode, state'.committed = state.committed,
         state'.search = state.search, state'.pending = state.pending,
         state'.ask = state.ask, state'.active = state.active
  PROVE  PageInv'
<1>1. Sound(state')
  <2>1. RowsRight(state') /\ PaneNamed(state')
    BY ScreenParts DEF RowsRight, PaneNamed
  <2>2. Waits(state') <=> state'.active # 0
    BY ScreenParts DEF Waits
  <2>3. state'.mode = "search" /\ state'.committed.q # NoText /\ ~state'.pending =>
          Holds(state', state'.committed.q, state'.committed.type)
    BY ScreenParts DEF Holds
  <2>4. /\ state'.mode = state'.committed.mode
        /\ state'.mode = "ask" /\ state'.ask.phase # "idle" =>
             state'.ask.question = state'.committed.q
    BY ScreenParts
  <2> QED
    BY <2>1, <2>2, <2>3, <2>4 DEF Sound
<1>2. \A f \in flights : f.id = controller => Lands(state', f)
  BY PageParts DEF Lands
<1> QED
  BY <1>1, <1>2, PageParts DEF PageInv, Aborted

\* The box and the channel are nobody's business until they are sent.
LEMMA TypedFields ==
  ASSUME NEW s \in States, NEW q \in Words, NEW t \in Types
  PROVE  /\ \A x \in {[s EXCEPT !.draft = q], [s EXCEPT !.type = t],
                      [s EXCEPT !.draft = q, !.type = t]} :
              /\ x \in States /\ x.mode = s.mode /\ x.committed = s.committed
              /\ x.search = s.search /\ x.pending = s.pending /\ x.ask = s.ask
              /\ x.active = s.active
BY DEF States

LEMMA DraftKeeps ==
  ASSUME PageInv, BrowserInv, NEW w \in Words, Draft(w)
  PROVE  PageInv' /\ BrowserInv'
<1>1. state' = [state EXCEPT !.draft = w] /\ UNCHANGED <<seq, controller, flights, browser>>
  BY DEF Draft
<1>2. state.type \in Types /\ state \in States
  BY PageParts, StateFields
<1>3. /\ state' \in States /\ state'.mode = state.mode /\ state'.committed = state.committed
      /\ state'.search = state.search /\ state'.pending = state.pending
      /\ state'.ask = state.ask /\ state'.active = state.active
  BY <1>1, <1>2, TypedFields
<1> QED
  BY <1>1, <1>3, PageStays, BrowserStays

LEMMA SubmitKeeps ==
  ASSUME PageInv, BrowserInv, Submit
  PROVE  PageInv' /\ BrowserInv'
<1>1. state \in States /\ state.mode \in Modes /\ state.draft \in Words /\ state.type \in Types
  BY PageParts, StateFields
<1>2. CASE state.mode = "ask"
  BY <1>1, <1>2, ScreenParts, AskStep DEF Submit
<1>3. CASE state.mode = "search"
  BY <1>1, <1>3, ScreenParts, RunStep DEF Submit
<1> QED
  BY <1>1, <1>2, <1>3 DEF Modes

LEMMA AskAgainKeeps ==
  ASSUME PageInv, BrowserInv, AskAgain
  PROVE  PageInv' /\ BrowserInv'
<1>1. state \in States /\ state.draft \in Words
  BY PageParts, StateFields
<1> QED
  BY <1>1, ScreenParts, AskStep DEF AskAgain

LEMMA AskExampleKeeps ==
  ASSUME PageInv, BrowserInv, NEW q \in Texts, AskExample(q)
  PROVE  PageInv' /\ BrowserInv'
<1> DEFINE s == [state EXCEPT !.draft = q]
<1>1. q \in Words /\ state \in States /\ state.type \in Types
  BY PageParts, StateFields DEF Words
<1>2. state.mode = "ask" /\ Ask(s, q)
  BY DEF AskExample
<1>3. s \in States /\ s.mode = state.mode /\ s.search = state.search
  BY <1>1, TypedFields
<1> HIDE DEF s
<1>4. RowsRight(s)
  BY <1>3, ScreenParts DEF RowsRight
<1> QED
  BY <1>1, <1>2, <1>3, <1>4, AskStep

LEMMA PickChannelKeeps ==
  ASSUME PageInv, BrowserInv, NEW value \in Types, PickChannel(value)
  PROVE  PageInv' /\ BrowserInv'
<1> DEFINE s == [state EXCEPT !.type = value]
           snap == Snapshot("search", NoText, value)
<1>1. /\ state.mode = "search"
      /\ IF state.draft # NoText THEN Run(s, state.draft, value)
         ELSE /\ state' = Commit(s, snap) /\ Push(snap)
              /\ UNCHANGED <<seq, controller, flights>>
  BY DEF PickChannel
<1>2. state \in States /\ state.draft \in Words /\ NoText \in Words
  BY PageParts, StateFields DEF Words
<1>3. /\ s \in States /\ s.mode = "search" /\ s.search = state.search /\ s.ask = state.ask
      /\ s.pending = state.pending /\ s.active = state.active
  BY <1>1, <1>2, TypedFields
<1>4. snap \in Snapshots /\ snap.mode = "search" /\ snap.q = NoText
  BY <1>2, SnapshotFields DEF Modes
<1> HIDE DEF s, snap
<1>5. RowsRight(s) /\ PaneNamed(s)
  BY <1>3, ScreenParts DEF RowsRight, PaneNamed
<1>6. CASE state.draft # NoText
  BY <1>1, <1>2, <1>3, <1>5, <1>6, RunStep
<1>7. CASE state.draft = NoText
  <2>1. state' = Commit(s, snap) /\ Push(snap) /\ UNCHANGED <<seq, controller, flights>>
    BY <1>1, <1>7
  <2>2. /\ state' \in States /\ state'.committed = snap /\ state'.mode = "search"
        /\ state'.search = state.search /\ state'.ask = state.ask
        /\ state'.pending = state.pending /\ state'.active = state.active
    BY <1>3, <1>4, <2>1, CommitFields
  <2>3. Sound(state')
    BY <1>4, <2>2, ScreenParts DEF Sound, RowsRight, PaneNamed, Waits
  <2>4. \A f \in flights : f.id = controller => Lands(state', f)
    BY <1>1, <1>4, <2>2, PageParts DEF Lands
  <2>5. PageInv'
    BY <2>1, <2>2, <2>3, <2>4, PageParts DEF PageInv, Aborted
  <2>6. BrowserInv'
    BY <1>4, <2>1, <2>2, PushStep
  <2> QED
    BY <2>5, <2>6
<1> QED
  BY <1>6, <1>7

LEMMA SwitchModeKeeps ==
  ASSUME PageInv, BrowserInv, NEW mode \in Modes, SwitchMode(mode)
  PROVE  PageInv' /\ BrowserInv'
<1> DEFINE q == state.draft
           snap == Snapshot(mode, q, state.type)
           t == ToMode(state, mode)
           s == Commit(t, snap)
<1>1. /\ mode # state.mode
      /\ IF mode = "search" /\ q # NoText /\ ~Holds(state, q, state.type)
         THEN Run(t, q, state.type)
         ELSE /\ Push(snap)
              /\ state' = IF mode = "search" /\ q = NoText THEN Cold(s) ELSE s
              /\ IF Dropped(s) THEN Begin("resume", s.ask.question, All) ELSE Stop
  BY DEF SwitchMode
<1>2. state \in States /\ state.draft \in Words /\ state.type \in Types
  BY PageParts, StateFields
<1>3. snap \in Snapshots /\ snap.mode = mode /\ snap.q = q /\ snap.type = state.type
  BY <1>2, SnapshotFields
<1>4. /\ t \in States /\ ~Waits(t) /\ t.active = 0 /\ t.pending = FALSE /\ t.mode = mode
      /\ t.search.q = state.search.q /\ t.search.type = state.search.type
      /\ t.search.outcome = state.search.outcome /\ t.search.more = state.search.more
      /\ t.ask.question = state.ask.question
      /\ t.ask.phase # "idle" => state.ask.phase # "idle"
      /\ mode = "ask" /\ t.ask.phase # "idle" => t.ask.question = q
  BY <1>2, ToModeFields
<1> HIDE DEF snap, t
<1>5. RowsRight(t) /\ PaneNamed(t)
  BY <1>4, ScreenParts DEF RowsRight, PaneNamed
<1>6. /\ s \in States /\ s.committed = snap /\ s.mode = mode /\ s.search = t.search
      /\ s.ask = t.ask /\ s.pending = FALSE /\ s.active = 0
  BY <1>3, <1>4, CommitFields
<1> HIDE DEF s
<1>7. RowsRight(s) /\ PaneNamed(s) /\ ~Waits(s)
  BY <1>4, <1>5, <1>6 DEF RowsRight, PaneNamed, Waits
<1>8. CASE mode = "search" /\ q # NoText /\ ~Holds(state, q, state.type)
  BY <1>1, <1>2, <1>4, <1>5, <1>8, RunStep
<1>9. CASE mode = "search" /\ q = NoText
  <2>1. Push(snap) /\ state' = Cold(s) /\ Stop
    BY <1>1, <1>6, <1>9 DEF Dropped
  <2>2. /\ state' \in States /\ ~Waits(state') /\ state'.active = 0
        /\ state'.mode = "search" /\ state'.committed = snap
        /\ state'.search.outcome = "null" /\ state'.search.more = <<>>
        /\ state'.ask = Settle(s).ask
    BY <1>6, <1>9, <2>1, ColdFields
  <2>3. RowsRight(state')
    BY <2>2 DEF RowsRight
  <2>4. PaneNamed(state')
    BY <1>6, <1>7, <2>2, SettleRight DEF PaneNamed
  <2>5. Sound(state')
    BY <1>3, <1>9, <2>2, <2>3, <2>4 DEF Sound
  <2>6. PageInv'
    BY <2>1, <2>2, <2>5, OverStep DEF Stop
  <2>7. BrowserInv'
    BY <1>3, <2>1, <2>2, PushStep
  <2> QED
    BY <2>6, <2>7
<1>10. CASE mode = "search" /\ q # NoText /\ Holds(state, q, state.type)
  <2>1. Push(snap) /\ state' = s /\ Stop
    BY <1>1, <1>6, <1>10 DEF Dropped
  <2>2. Holds(s, snap.q, snap.type)
    BY <1>3, <1>4, <1>6, <1>10 DEF Holds
  <2>3. Sound(s)
    BY <1>3, <1>6, <1>7, <1>10, <2>2 DEF Sound
  <2>4. PageInv'
    BY <1>6, <2>1, <2>3, OverStep DEF Stop
  <2>5. BrowserInv'
    BY <1>3, <1>6, <2>1, PushStep
  <2> QED
    BY <2>4, <2>5
<1>11. CASE mode = "ask"
  <2>1. Push(snap) /\ state' = s
    BY <1>1, <1>11
  <2>2. Sound(s)
    BY <1>3, <1>4, <1>6, <1>7, <1>11 DEF Sound
  <2>3. BrowserInv'
    BY <1>3, <1>6, <2>1, PushStep
  <2>4. CASE Dropped(s)
    <3>1. /\ seq' = seq + 1 /\ controller' = seq + 1
          /\ flights' = flights \cup {Flight(seq + 1, "resume", s.ask.question, All)}
      BY <1>1, <1>11, <2>4 DEF Begin
    <3>2. s.ask.phase # "idle" /\ s.ask.question = snap.q /\ s.ask.question \in Texts
      BY <1>2, <1>3, <1>4, <1>6, <1>7, <1>11, <2>4 DEF Dropped, PaneNamed, Words
    <3>3. "resume" \in Kinds /\ All \in Types
      BY ConsoleAssumption DEF Kinds
    <3>4. Lands(s, Flight(seq + 1, "resume", s.ask.question, All))
      BY <1>6, <1>11, <3>2 DEF Lands, Flight
    <3>5. PageInv'
      BY <1>6, <2>1, <2>2, <3>1, <3>2, <3>3, <3>4, BeginStep
    <3> QED
      BY <2>3, <3>5
  <2>5. CASE ~Dropped(s)
    <3>1. Stop
      BY <1>1, <1>11, <2>5
    <3>2. PageInv'
      BY <1>6, <2>1, <2>2, <3>1, OverStep DEF Stop
    <3> QED
      BY <2>3, <3>2
  <2> QED
    BY <2>4, <2>5
<1> QED
  BY <1>8, <1>9, <1>10, <1>11 DEF Modes

LEMMA RunExampleKeeps ==
  ASSUME PageInv, BrowserInv, NEW q \in Words, NEW type \in Types, RunExample(q, type)
  PROVE  PageInv' /\ BrowserInv'
<1> DEFINE s == [state EXCEPT !.draft = q, !.type = type]
<1>1. state.mode = "search" /\ Run(s, q, type)
  BY DEF RunExample
<1>2. state \in States
  BY PageParts
<1>3. s \in States /\ s.mode = state.mode /\ s.search = state.search /\ s.ask = state.ask
  BY <1>2, TypedFields
<1> HIDE DEF s
<1>4. RowsRight(s) /\ PaneNamed(s)
  BY <1>3, ScreenParts DEF RowsRight, PaneNamed
<1> QED
  BY <1>1, <1>3, <1>4, RunStep

LEMMA RetryKeeps ==
  ASSUME PageInv, BrowserInv, Retry
  PROVE  PageInv' /\ BrowserInv'
<1>1. /\ state.mode = "search" /\ ~state.pending
      /\ Search(state, state.search.q, state.search.type) /\ UNCHANGED browser
  BY DEF Retry
<1>2. state \in States /\ state.search.q \in Words /\ state.search.type \in Types
  BY PageParts, StateFields
<1>3. state.committed.q # NoText =>
        state.committed.q = state.search.q /\ state.committed.type = state.search.type
  BY <1>1, ScreenParts DEF Holds
<1>4. PageInv' /\ state'.committed = state.committed
  BY <1>1, <1>2, <1>3, ScreenParts, SearchStep
<1> QED
  BY <1>1, <1>4, BrowserStays

LEMMA MoreKeeps ==
  ASSUME PageInv, BrowserInv, More
  PROVE  PageInv' /\ BrowserInv'
<1> DEFINE r == state.search
<1>1. /\ state.mode = "search" /\ r.outcome = "ok" /\ ~state.pending
      /\ state' = Paging(state, seq + 1)
      /\ seq' = seq + 1 /\ controller' = seq + 1
      /\ flights' = flights \cup {Flight(seq + 1, "more", r.q, r.type)}
      /\ UNCHANGED browser
  BY DEF More, Begin
<1>2. seq + 1 \in Nat /\ seq + 1 # 0 /\ state \in States
  BY PageParts
<1>3. /\ state' \in States /\ state'.active = seq + 1 /\ state'.pending = FALSE
      /\ state'.mode = "search" /\ state'.committed = state.committed
      /\ state'.ask = Settle(state).ask
      /\ state'.search.q = r.q /\ state'.search.type = r.type
      /\ state'.search.outcome = r.outcome /\ state'.search.more = r.more
      /\ state'.search.foot = "loading"
  BY <1>1, <1>2, PagingFields
<1>4. RowsRight(state')
  BY <1>3, ScreenParts DEF RowsRight
<1>5. PaneNamed(state') /\ state'.ask.phase # "working"
  <2>1. PaneNamed(Settle(state)) /\ ~Waits(Settle(state))
    BY <1>2, ScreenParts, SettleRight, SettleFields
  <2> QED
    BY <1>3, <2>1 DEF PaneNamed, Waits
<1>6. state.committed.q # NoText => state.committed.q = r.q /\ state.committed.type = r.type
  BY <1>1, ScreenParts DEF Holds
<1>7. Sound(state')
  <2>1. state'.committed.q # NoText => Holds(state', state'.committed.q, state'.committed.type)
    BY <1>1, <1>3, <1>6 DEF Holds
  <2> QED
    BY <1>1, <1>2, <1>3, <1>4, <1>5, <2>1, ScreenParts DEF Sound, Waits
<1>8. Lands(state', Flight(seq + 1, "more", r.q, r.type))
  BY <1>3, <1>5, <1>6 DEF Lands, Flight
<1>9. r.q \in Texts /\ r.type \in Types /\ "more" \in Kinds
  <2>1. r.q # NoText /\ r.q \in Words /\ r.type \in Types
    BY <1>1, <1>2, ScreenParts, StateFields DEF RowsRight
  <2> QED
    BY <2>1 DEF Words, Kinds
<1>10. PageInv'
  BY <1>1, <1>3, <1>7, <1>8, <1>9, BeginStep
<1> QED
  BY <1>1, <1>3, <1>10, BrowserStays

LEMMA TravelKeeps ==
  ASSUME PageInv, BrowserInv, NEW url \in Urls, Travel(url)
  PROVE  PageInv' /\ BrowserInv'
<1>1. /\ url # loc /\ loc' = url /\ routed' = routed /\ routes' = Append(routes, url)
      /\ UNCHANGED page
  BY DEF Travel
<1>2. routes' \in Seq(Urls) /\ routes' # <<>> /\ RoutesLead'
  BY <1>1, EntryAdded
<1>3. BrowserInv'
  BY <1>1, <1>2, BrowserParts DEF BrowserInv
<1>4. PageInv'
  BY <1>1 DEF page, PageInv, Aborted
<1> QED
  BY <1>3, <1>4

-----------------------------------------------------------------------------
(* The router and the phone *)

\* The restore effect shows the entry, from what is there or from a request.
LEMMA RestoreStep ==
  ASSUME PageInv, NEW snap \in Snapshots, RestoreTo(snap)
  PROVE  PageInv' /\ state'.committed = snap
<1> DEFINE s == Restore(state, snap)
<1>1. IF snap.mode = "search" /\ snap.q # NoText /\ ~Holds(state, snap.q, snap.type)
      THEN Search(s, snap.q, snap.type)
      ELSE /\ state' = s
           /\ IF snap.mode = "ask" /\ snap.q # NoText THEN Begin("resume", snap.q, All) ELSE Stop
  BY DEF RestoreTo
<1>2. snap.mode \in Modes /\ snap.q \in Words /\ snap.type \in Types /\ state \in States
  BY PageParts DEF Snapshots
<1>3. /\ s \in States /\ s.active = 0 /\ s.pending = FALSE /\ ~Waits(s)
      /\ s.mode = snap.mode /\ s.committed = snap
      /\ \/ /\ s.search.q = state.search.q /\ s.search.type = state.search.type
            /\ s.search.outcome = state.search.outcome /\ s.search.more = state.search.more
         \/ /\ snap.mode = "search" /\ snap.q = NoText
            /\ s.search.outcome = "null" /\ s.search.more = <<>>
      /\ s.ask.phase # "idle" => state.ask.phase # "idle" /\ s.ask.question = state.ask.question
      /\ snap.mode = "ask" /\ s.ask.phase # "idle" => s.ask.question = snap.q
  BY <1>2, RestoreFields
<1> HIDE DEF s
<1>4. RowsRight(s)
  BY <1>3, ScreenParts DEF RowsRight
<1>5. PaneNamed(s)
  BY <1>3, ScreenParts DEF PaneNamed
<1>6. CASE snap.mode = "search" /\ snap.q # NoText /\ ~Holds(state, snap.q, snap.type)
  BY <1>1, <1>2, <1>3, <1>4, <1>5, <1>6, SearchStep
<1>7. CASE ~(snap.mode = "search" /\ snap.q # NoText /\ ~Holds(state, snap.q, snap.type))
  <2>1. snap.mode = "search" /\ snap.q # NoText => Holds(s, snap.q, snap.type)
    BY <1>3, <1>7 DEF Holds
  <2>2. Sound(s)
    BY <1>3, <1>4, <1>5, <2>1 DEF Sound
  <2>3. CASE snap.mode = "ask" /\ snap.q # NoText
    <3>1. /\ state' = s /\ seq' = seq + 1 /\ controller' = seq + 1
          /\ flights' = flights \cup {Flight(seq + 1, "resume", snap.q, All)}
      BY <1>1, <2>3 DEF Begin
    <3>2. "resume" \in Kinds /\ All \in Types /\ snap.q \in Texts
      BY <1>2, <2>3, ConsoleAssumption DEF Kinds, Words
    <3>3. Lands(s, Flight(seq + 1, "resume", snap.q, All))
      BY <1>3, <2>3 DEF Lands, Flight
    <3> QED
      BY <1>3, <2>2, <3>1, <3>2, <3>3, BeginStep
  <2>4. CASE ~(snap.mode = "ask" /\ snap.q # NoText)
    <3>1. state' = s /\ Stop
      BY <1>1, <1>7, <2>4
    <3> QED
      BY <1>3, <2>2, <3>1, OverStep DEF Stop
  <2> QED
    BY <2>3, <2>4
<1> QED
  BY <1>6, <1>7

\* An entry that is rendered leaves the others leading to the location.
LEMMA EntryRendered ==
  ASSUME BrowserInv, routes # <<>>, loc' = loc, routed' = Head(routes), routes' = Tail(routes)
  PROVE  /\ routed' \in Urls /\ routes' \in Seq(Urls) /\ RoutesLead'
         /\ Head(routes) # routed
         /\ routes' = <<>> => Head(routes) = loc
<1>1. PICK n \in Nat : n = Len(routes) /\ routes \in Seq(Urls) /\ n # 0
  <2>1. routes \in Seq(Urls) /\ Len(routes) \in Nat
    BY BrowserParts
  <2>2. Len(routes) # 0
    BY <2>1
  <2> QED
    BY <2>1, <2>2
<1>2. /\ routed' = routes[1] /\ routes[1] \in Urls /\ routes' \in Seq(Urls)
      /\ Len(routes') = n - 1 /\ \A i \in 1..n - 1 : routes'[i] = routes[i + 1]
  BY <1>1
<1>3. \A i \in 0..n - 1 : EntryAt(i)' = EntryAt(i + 1)
  BY <1>1, <1>2 DEF EntryAt
<1>4. ASSUME NEW i \in 1..n - 1 PROVE EntryAt(i)' # EntryAt(i - 1)'
  <2>1. i \in 0..n - 1 /\ i - 1 \in 0..n - 1 /\ i + 1 \in 1..n /\ i - 1 + 1 = i /\ i + 1 - 1 = i
    BY <1>1
  <2>2. EntryAt(i)' = EntryAt(i + 1) /\ EntryAt(i - 1)' = EntryAt(i)
    BY <1>3, <2>1
  <2> QED
    BY <1>1, <2>1, <2>2, BrowserParts
<1>5. EntryAt(n - 1)' = loc
  <2>1. n - 1 \in 0..n - 1 /\ n - 1 + 1 = n
    BY <1>1
  <2> QED
    BY <1>1, <1>3, <2>1, BrowserParts
<1>6. RoutesLead'
  <2>1. EntryAt(Len(routes))' = EntryAt(n - 1)'
    BY <1>2 DEF EntryAt
  <2> QED
    BY <1>2, <1>4, <1>5, <2>1 DEF RoutesLead
<1>7. Head(routes) # routed
  <2>1. EntryAt(1) = routes[1] /\ EntryAt(0) = routed /\ 1 \in 1..n /\ 1 - 1 = 0
    BY <1>1 DEF EntryAt
  <2> QED
    BY <1>1, <2>1, BrowserParts
<1>8. routes' = <<>> => Head(routes) = loc
  <2>1. routes' = <<>> => n = 1
    <3>1. routes' = <<>> => Len(routes') = 0
      OBVIOUS
    <3> QED
      BY <1>1, <1>2, <3>1
  <2>2. n = 1 => EntryAt(n) = routes[1]
    BY DEF EntryAt
  <2> QED
    BY <1>1, <2>1, <2>2, BrowserParts
<1> QED
  BY <1>2, <1>6, <1>7, <1>8

LEMMA RouteKeeps ==
  ASSUME PageInv, BrowserInv, Route
  PROVE  PageInv' /\ BrowserInv'
<1> DEFINE url == Head(routes)
           turns == url # routed /\ url = loc /\ ~SameSnapshot(url, state.committed)
<1>1. /\ routes # <<>> /\ routed' = url /\ routes' = Tail(routes) /\ loc' = loc
      /\ IF turns THEN RestoreTo(url) ELSE UNCHANGED page
  BY DEF Route
<1>2. /\ routed' \in Urls /\ routes' \in Seq(Urls) /\ RoutesLead' /\ url # routed
      /\ routes' = <<>> => url = loc
  BY <1>1, EntryRendered
<1>3. url \in Snapshots /\ Serialize(url) = url /\ loc \in Urls
  BY <1>1, <1>2, UrlSnapshot, BrowserParts
<1>4. CASE turns
  <2>1. PageInv' /\ state'.committed = url
    BY <1>1, <1>3, <1>4, RestoreStep
  <2> QED
    BY <1>1, <1>2, <1>3, <2>1 DEF BrowserInv
<1>5. CASE ~turns
  <2>1. UNCHANGED page
    BY <1>1, <1>5
  <2>2. PageInv'
    BY <2>1 DEF page, PageInv, Aborted
  <2>3. routes' = <<>> => Serialize(state.committed) = loc
    BY <1>2, <1>3, <1>5 DEF SameSnapshot
  <2> QED
    BY <1>1, <1>2, <1>3, <2>1, <2>2, <2>3 DEF BrowserInv, page
<1> QED
  BY <1>4, <1>5

\* pickUp() asks for the run of the question that is committed.
LEMMA PickUpStep ==
  ASSUME PageInv, PickUp
  PROVE  PageInv' /\ state' = state
<1>1. CASE UNCHANGED page
  BY <1>1 DEF page, PageInv, Aborted
<1>2. CASE ~UNCHANGED page
  <2>1. /\ Dropped(state) /\ state' = state /\ seq' = seq + 1 /\ controller' = seq + 1
        /\ flights' = flights \cup {Flight(seq + 1, "resume", state.ask.question, All)}
    BY <1>2 DEF PickUp, Begin
  <2>2. state.mode = "ask" /\ state.ask.phase = "dropped"
    BY <2>1 DEF Dropped
  <2>3. state.ask.question = state.committed.q /\ state.ask.question \in Texts
    BY <2>2, ScreenParts, PageParts, StateFields DEF PaneNamed, Words
  <2>4. state.active = 0
    <3>1. ASSUME NEW f \in flights, f.id = controller, state.active # 0 PROVE FALSE
      <4>1. Lands(state, f) /\ Waits(state)
        BY <3>1, PageParts, ScreenParts
      <4> QED
        BY <2>2, <3>1, <4>1, FlightFields DEF Lands, Waits
    <3> QED
      BY <3>1, PageParts
  <2>5. "resume" \in Kinds /\ All \in Types
    BY ConsoleAssumption DEF Kinds
  <2>6. Lands(state, Flight(seq + 1, "resume", state.ask.question, All))
    BY <2>2, <2>3, <2>4 DEF Lands, Flight
  <2>7. state' \in States /\ Sound(state') /\ state'.active \in {0, seq + 1}
        /\ Lands(state', Flight(seq + 1, "resume", state.ask.question, All))
    BY <2>1, <2>4, <2>6, PageParts
  <2> QED
    BY <2>1, <2>3, <2>5, <2>7, BeginStep
<1> QED
  BY <1>1, <1>2

-----------------------------------------------------------------------------
(* The requests *)

\* The request that may land: what waits waits for it.
LEMMA Landing ==
  ASSUME PageInv, NEW f \in flights, f.id = controller
  PROVE  /\ state.active \in {0, f.id}
         /\ state.active # f.id => ~Waits(state)
         /\ state.active = f.id /\ f.kind = "search" =>
              state.search.foot # "loading" /\ state.ask.phase # "working"
         /\ state.active = f.id /\ f.kind = "more" =>
              ~state.pending /\ state.ask.phase # "working"
         /\ state.active = f.id /\ f.kind \in {"ask", "resume"} =>
              /\ ~state.pending /\ state.search.foot # "loading"
              /\ state.ask.phase = "working" /\ f.shown
<1>1. Lands(state, f) /\ f.id # 0 /\ (Waits(state) <=> state.active # 0)
  BY PageParts, FlightFields, ScreenParts
<1> QED
  BY <1>1 DEF Lands, Waits

\* Once it has ended, whatever it left on screen, a dropped pane asks again.
LEMMA RenderStep ==
  ASSUME PageInv, BrowserInv, NEW f \in flights, f.id = controller,
         NEW next \in States, Sound(next), next.active = 0, next.committed = state.committed,
         RenderWith(next, flights \ {f}), UNCHANGED browser
  PROVE  PageInv' /\ BrowserInv'
<1>1. state' = next
  BY DEF RenderWith
<1>2. BrowserInv'
  BY <1>1, BrowserStays
<1>3. CASE Dropped(next) /\ ~Dropped(state) /\ visible
  <2>1. /\ seq' = seq + 1 /\ controller' = seq + 1
        /\ flights' = (flights \ {f}) \cup {Flight(seq + 1, "resume", next.ask.question, All)}
    BY <1>3 DEF RenderWith
  <2>2. next.mode = "ask" /\ next.ask.phase = "dropped"
    BY <1>3 DEF Dropped
  <2>3. next.ask.question = next.committed.q /\ next.ask.question \in Texts
    BY <2>2, StateFields DEF Sound, PaneNamed, Words
  <2>4. "resume" \in Kinds /\ All \in Types
    BY ConsoleAssumption DEF Kinds
  <2>5. Lands(next, Flight(seq + 1, "resume", next.ask.question, All))
    BY <2>2, <2>3 DEF Lands, Flight
  <2>6. flights \ {f} \in SUBSET flights
    OBVIOUS
  <2> QED
    BY <1>1, <1>2, <2>1, <2>3, <2>4, <2>5, <2>6, BeginStep
<1>4. CASE ~(Dropped(next) /\ ~Dropped(state) /\ visible)
  <2>1. flights' = flights \ {f} /\ seq' = seq /\ controller' = controller
    BY <1>4 DEF RenderWith
  <2>2. \A g \in flights' : g.id # controller
    BY <2>1, PageParts
  <2> QED
    BY <1>1, <1>2, <2>1, <2>2, OverStep
<1> QED
  BY <1>3, <1>4

\* A reply to a search, or to a page of one, that counts or does not.
LEMMA RepliedStep ==
  ASSUME PageInv, NEW f \in flights, f.id = controller, f.kind \in {"search", "more"},
         NEW outcome \in {"ok", "bad"}
  PROVE  LET t == Replied(f, outcome)
         IN  t \in States /\ Sound(t) /\ t.active = 0 /\ t.committed = state.committed
<1> DEFINE t == Replied(f, outcome)
<1>1. state \in States /\ Sound(state)
  BY PageParts
<1>2. /\ f.q \in Texts /\ f.type \in Types /\ f.id # 0 /\ f.q # NoText
      /\ Lands(state, f)
  BY FlightFields, PageParts, ConsoleAssumption
<1>3. CASE state.active # f.id
  <2>1. t = state
    BY <1>3 DEF Replied, Searched, MoreDone
  <2> QED
    BY <1>1, <1>3, <2>1, Landing
<1>4. CASE state.active = f.id /\ f.kind = "search"
  <2> DEFINE u == Searched(state, state.active, f.q, f.type, outcome)
  <2>0. state.active # 0 /\ f.q \in Texts /\ f.type \in Types /\ outcome \in {"ok", "bad"}
    BY <1>2, <1>4
  <2>a. /\ u \in States /\ u.active = 0 /\ u.pending = FALSE
        /\ u.mode = state.mode /\ u.committed = state.committed /\ u.ask = state.ask
        /\ u.search = [q |-> f.q, type |-> f.type, outcome |-> outcome,
                       more |-> <<>>, foot |-> "none"]
    BY <1>1, <2>0, SearchedFields
  <2>1. t = u
    BY <1>4 DEF Replied
  <2> HIDE DEF u, t
  <2>2. /\ t \in States /\ t.active = 0 /\ t.pending = FALSE
        /\ t.mode = state.mode /\ t.committed = state.committed /\ t.ask = state.ask
        /\ t.search = [q |-> f.q, type |-> f.type, outcome |-> outcome,
                       more |-> <<>>, foot |-> "none"]
    BY <2>1, <2>a
  <2>3. RowsRight(t) /\ PaneNamed(t)
    BY <1>2, <2>2, ScreenParts DEF RowsRight, PaneNamed
  <2>4. ~Waits(t)
    BY <1>4, <2>2, Landing DEF Waits
  <2>5. t.committed.q # NoText => Holds(t, t.committed.q, t.committed.type)
    BY <1>2, <1>4, <2>2 DEF Holds, Lands
  <2>6. Sound(t)
    BY <2>2, <2>3, <2>4, <2>5, ScreenParts DEF Sound
  <2> QED
    BY <2>2, <2>6 DEF t
<1>5. CASE state.active = f.id /\ f.kind = "more"
  <2> DEFINE u == MoreDone(state, state.active, f.q, f.type, outcome)
  <2>0. state.active # 0 /\ f.q \in Texts /\ f.type \in Types /\ outcome \in {"ok", "bad"}
    BY <1>2, <1>5
  <2>a. /\ u \in States /\ u.active = 0 /\ u.pending = state.pending
        /\ u.mode = state.mode /\ u.committed = state.committed /\ u.ask = state.ask
        /\ u.search.q = state.search.q /\ u.search.type = state.search.type
        /\ u.search.outcome = state.search.outcome /\ u.search.foot # "loading"
        /\ u.search.more \in {state.search.more, Append(state.search.more, <<f.q, f.type>>)}
    BY <1>1, <2>0, MoreDoneFields
  <2>1. t = u
    BY <1>5 DEF Replied
  <2> HIDE DEF u, t
  <2>2. /\ t \in States /\ t.active = 0 /\ t.pending = state.pending
        /\ t.mode = state.mode /\ t.committed = state.committed /\ t.ask = state.ask
        /\ t.search.q = state.search.q /\ t.search.type = state.search.type
        /\ t.search.outcome = state.search.outcome /\ t.search.foot # "loading"
        /\ t.search.more \in {state.search.more, Append(state.search.more, <<f.q, f.type>>)}
    BY <2>1, <2>a
  <2>3. RowsRight(t)
    <3>1. /\ state.search.more \in Seq(Texts \X Types)
          /\ state.search.q = f.q /\ state.search.type = f.type
      BY <1>1, <1>2, <1>5, StateFields DEF Lands
    <3>2. \A i \in DOMAIN state.search.more : state.search.more[i] = <<f.q, f.type>>
      BY <3>1, ScreenParts DEF RowsRight
    <3>3. \A i \in DOMAIN t.search.more : t.search.more[i] = <<f.q, f.type>>
      <4> DEFINE m == state.search.more
                 e == <<f.q, f.type>>
      <4>1. m \in Seq(Texts \X Types) /\ e \in Texts \X Types /\ t.search.more \in {m, Append(m, e)}
        BY <1>2, <2>2, <3>1
      <4>2. \A i \in DOMAIN m : m[i] = e
        BY <3>2
      <4> HIDE DEF m, e
      <4>3. \A i \in DOMAIN Append(m, e) : Append(m, e)[i] = e
        BY <4>1, <4>2
      <4>4. \A i \in DOMAIN t.search.more : t.search.more[i] = e
        BY <4>1, <4>2, <4>3
      <4> QED
        BY <4>4 DEF e
    <3> QED
      BY <1>2, <2>2, <3>1, <3>3 DEF RowsRight
  <2>4. PaneNamed(t)
    BY <2>2, ScreenParts DEF PaneNamed
  <2>5. ~Waits(t) /\ ~state.pending
    BY <1>5, <2>2, Landing DEF Waits
  <2>6. t.mode = "search" /\ t.committed.q # NoText => Holds(t, t.committed.q, t.committed.type)
    BY <2>2, <2>5, ScreenParts DEF Holds
  <2>7. Sound(t)
    BY <2>2, <2>3, <2>4, <2>5, <2>6, ScreenParts DEF Sound
  <2> QED
    BY <2>2, <2>7 DEF t
<1> QED
  BY <1>3, <1>4, <1>5

\* The last event of a stream.
LEMMA PhaseStep ==
  ASSUME PageInv, NEW f \in flights, f.id = controller, f.kind \in {"ask", "resume"},
         NEW phase \in {"answered", "refused", "dropped"}
  PROVE  LET t == AskPhase(state, f.id, phase)
         IN  t \in States /\ Sound(t) /\ t.active = 0 /\ t.committed = state.committed
<1> DEFINE t == AskPhase(state, f.id, phase)
<1>1. state \in States /\ Sound(state) /\ f.id # 0
  BY PageParts, FlightFields
<1>2. CASE state.active # f.id
  <2>1. t = state
    BY <1>2 DEF AskPhase
  <2> QED
    BY <1>1, <1>2, <2>1, Landing
<1>3. CASE state.active = f.id
  <2>1. t = AskPhase(state, state.active, phase) /\ phase \in Phases /\ phase # "working"
    BY <1>3 DEF Phases
  <2>2. /\ t \in States /\ t.pending = state.pending /\ t.active = 0
        /\ t.mode = state.mode /\ t.committed = state.committed /\ t.search = state.search
        /\ t.ask.question = state.ask.question /\ t.ask.phase = phase
    BY <1>1, <1>3, <2>1, AskPhaseFields
  <2> HIDE DEF t
  <2>3. ~state.pending /\ state.search.foot # "loading" /\ state.ask.phase = "working"
    BY <1>3, Landing
  <2>4. RowsRight(t) /\ PaneNamed(t)
    BY <2>2, <2>3, ScreenParts DEF RowsRight, PaneNamed
  <2>5. ~Waits(t)
    BY <2>1, <2>2, <2>3 DEF Waits
  <2>6. t.mode = "ask" => t.ask.question = t.committed.q
    BY <2>2, <2>3, ScreenParts
  <2>7. t.mode = "search" /\ t.committed.q # NoText => Holds(t, t.committed.q, t.committed.type)
    BY <2>2, <2>3, ScreenParts DEF Holds
  <2>8. Sound(t)
    BY <2>2, <2>4, <2>5, <2>6, <2>7, ScreenParts DEF Sound
  <2> QED
    BY <2>2, <2>8 DEF t
<1> QED
  BY <1>2, <1>3

LEMMA SearchEndsKeeps ==
  ASSUME PageInv, BrowserInv, NEW f \in flights, f.id = controller, SearchEnds(f)
  PROVE  PageInv' /\ BrowserInv'
<1>1. f.kind \in {"search", "more"} /\ UNCHANGED browser
  BY DEF SearchEnds, Quiet
<1>2. PICK outcome \in {"ok", "bad"} : RenderWith(Replied(f, outcome), flights \ {f})
  BY DEF SearchEnds
<1> DEFINE t == Replied(f, outcome)
<1>3. t \in States /\ Sound(t) /\ t.active = 0 /\ t.committed = state.committed
  BY <1>1, RepliedStep
<1> HIDE DEF t
<1> QED
  BY <1>1, <1>2, <1>3, RenderStep DEF t

LEMMA AskRefusedKeeps ==
  ASSUME PageInv, BrowserInv, NEW f \in flights, f.id = controller, AskRefused(f)
  PROVE  PageInv' /\ BrowserInv'
<1>1. f.kind \in {"ask", "resume"} /\ UNCHANGED browser
  BY DEF AskRefused, Quiet
<1>2. PICK phase \in {"refused", "dropped"} :
        RenderWith(AskPhase(state, f.id, phase), flights \ {f})
  BY DEF AskRefused
<1> DEFINE t == AskPhase(state, f.id, phase)
<1>3. t \in States /\ Sound(t) /\ t.active = 0 /\ t.committed = state.committed
  BY <1>1, PhaseStep
<1> HIDE DEF t
<1> QED
  BY <1>1, <1>2, <1>3, RenderStep DEF t

LEMMA AnsweredKeeps ==
  ASSUME PageInv, BrowserInv, NEW f \in flights, f.id = controller, Answered(f)
  PROVE  PageInv' /\ BrowserInv'
<1>1. f.kind \in {"ask", "resume"} /\ UNCHANGED browser
  BY PageParts DEF Answered, Quiet, WellSent
<1>2. PICK phase \in {"answered", "refused"} :
        RenderWith(AskPhase(state, f.id, phase), flights \ {f})
  BY DEF Answered
<1> DEFINE t == AskPhase(state, f.id, phase)
<1>3. t \in States /\ Sound(t) /\ t.active = 0 /\ t.committed = state.committed
  BY <1>1, PhaseStep
<1> HIDE DEF t
<1> QED
  BY <1>1, <1>2, <1>3, RenderStep DEF t

\* A stream that breaks drops the pane it is shown in.
LEMMA BreaksKeeps ==
  ASSUME PageInv, BrowserInv, NEW f \in flights, f.id = controller, Breaks(f)
  PROVE  PageInv' /\ BrowserInv'
<1>1. f.shown /\ UNCHANGED browser
  BY DEF Breaks, Quiet
<1> DEFINE t == AskPhase(state, f.id, "dropped")
<1>2. RenderWith(t, flights \ {f})
  BY DEF Breaks
<1>3. t \in States /\ Sound(t) /\ t.active = 0 /\ t.committed = state.committed
  BY <1>1, PageParts, PhaseStep DEF WellSent
<1> HIDE DEF t
<1> QED
  BY <1>1, <1>2, <1>3, RenderStep

\* The request that may land goes on as a stream.
LEMMA StreamStep ==
  ASSUME PageInv, NEW f \in flights, f.id = controller,
         NEW g \in Flights(seq), g.id = f.id, WellSent(g),
         state' \in States, Sound(state'), Lands(state', g),
         flights' = (flights \ {f}) \cup {g}, UNCHANGED <<seq, controller>>
  PROVE  PageInv'
<1>1. \A h \in flights \ {f} : h.id # controller
  BY PageParts
<1>2. \A h \in flights' : h \in Flights(seq') /\ WellSent(h)
  BY PageParts
<1>3. \A h, k \in flights' : h.id = k.id => h = k
  BY <1>1, PageParts
<1>4. \A h \in flights' : h.id = controller' => Lands(state', h)
  BY <1>1
<1>5. state'.active # 0 => \E h \in flights' : h.id = state'.active /\ h.id = controller'
  BY DEF Lands
<1> QED
  BY <1>2, <1>3, <1>4, <1>5, PageParts DEF PageInv, Aborted

LEMMA AskArrivesKeeps ==
  ASSUME PageInv, BrowserInv, NEW f \in flights, f.id = controller, AskArrives(f)
  PROVE  PageInv' /\ BrowserInv'
<1> DEFINE g == [f EXCEPT !.stage = "streaming"]
<1>1. /\ f.kind = "ask" /\ flights' = (flights \ {f}) \cup {g}
      /\ UNCHANGED <<state, seq, controller>> /\ UNCHANGED browser
  BY DEF AskArrives, Quiet
<1>2. /\ g \in Flights(seq) /\ g.id = f.id /\ g.kind = f.kind /\ g.q = f.q
      /\ g.type = f.type /\ g.shown = f.shown /\ g.stage = "streaming"
  BY PageParts DEF Flights
<1> HIDE DEF g
<1>3. WellSent(g)
  BY <1>1, <1>2 DEF WellSent
<1>4. Lands(state', g)
  BY <1>1, <1>2, PageParts DEF Lands
<1>5. state' \in States /\ Sound(state')
  BY <1>1, PageParts
<1>6. PageInv'
  BY <1>1, <1>2, <1>3, <1>4, <1>5, StreamStep
<1> QED
  BY <1>1, <1>6, BrowserStays

\* A resume that fails leaves the page as it was.
LEMMA ResumeFailsKeeps ==
  ASSUME PageInv, BrowserInv, NEW f \in flights, f.id = controller, ResumeFails(f)
  PROVE  PageInv' /\ BrowserInv'
<1> DEFINE g == [f EXCEPT !.stage = "failed"]
<1>1. /\ f.kind = "resume" /\ f.stage = "sent"
      /\ UNCHANGED <<state, seq, controller>> /\ UNCHANGED browser
      /\ flights' = (flights \ {f}) \cup {g} \/ flights' = flights \ {f}
  BY DEF ResumeFails, Quiet
<1>2. /\ g \in Flights(seq) /\ g.id = f.id /\ g.kind = f.kind /\ g.q = f.q
      /\ g.type = f.type /\ g.shown = f.shown /\ g.stage = "failed"
  BY PageParts DEF Flights
<1> HIDE DEF g
<1>3. CASE flights' = flights \ {f}
  <2>1. \A h \in flights' : h.id # controller
    BY <1>3, PageParts
  <2>2. state.active = 0
    BY <1>1, PageParts, Landing DEF WellSent
  <2>3. PageInv'
    BY <1>1, <1>3, <2>1, <2>2, PageParts, OverStep
  <2> QED
    BY <1>1, <2>3, BrowserStays
<1>4. CASE flights' = (flights \ {f}) \cup {g}
  <2>1. WellSent(g)
    BY <1>1, <1>2, PageParts DEF WellSent
  <2>2. Lands(state', g)
    BY <1>1, <1>2, PageParts DEF Lands
  <2>3. state' \in States /\ Sound(state')
    BY <1>1, PageParts
  <2>4. PageInv'
    BY <1>1, <1>2, <1>4, <2>1, <2>2, <2>3, StreamStep
  <2> QED
    BY <1>1, <2>4, BrowserStays
<1> QED
  BY <1>1, <1>3, <1>4

\* A resume that found its run takes the pane, which is its question's.
LEMMA ResumeArrivesKeeps ==
  ASSUME PageInv, BrowserInv, NEW f \in flights, f.id = controller, ResumeArrives(f)
  PROVE  PageInv' /\ BrowserInv'
<1>1. /\ f.kind = "resume" /\ f.stage = "sent"
      /\ UNCHANGED <<seq, controller>> /\ UNCHANGED browser
  BY DEF ResumeArrives, Quiet
<1>2. state.active = 0 /\ ~Waits(state)
  BY <1>1, PageParts, Landing DEF WellSent
<1>3. CASE runs[f.q] = "none"
  <2>1. flights' = flights \ {f} /\ state' = state
    BY <1>3 DEF ResumeArrives
  <2>2. \A h \in flights' : h.id # controller
    BY <2>1, PageParts
  <2>3. PageInv'
    BY <1>1, <1>2, <2>1, <2>2, PageParts, OverStep
  <2> QED
    BY <1>1, <2>1, <2>3, BrowserStays
<1>4. CASE runs[f.q] # "none"
  <2> DEFINE g == [f EXCEPT !.stage = "streaming", !.shown = TRUE]
             a == Asking(state, f.id, f.q)
             t == AskPhase(a, f.id, "working")
  <2>1. flights' = (flights \ {f}) \cup {g} /\ state' = t
    BY <1>4 DEF ResumeArrives
  <2>2. /\ g \in Flights(seq) /\ g.id = f.id /\ g.kind = f.kind /\ g.q = f.q
        /\ g.type = f.type /\ g.shown /\ g.stage = "streaming"
    BY PageParts DEF Flights
  <2>3. f.id \in Nat /\ f.id # 0 /\ f.q \in Words /\ f.q # NoText /\ state \in States
    BY FlightFields, PageParts, ConsoleAssumption DEF Words
  <2>4. /\ a \in States /\ a.active = f.id /\ a.pending = FALSE
        /\ a.mode = state.mode /\ a.committed = state.committed
        /\ a.search = Settle(state).search
        /\ a.ask = [question |-> f.q, phase |-> "working"]
    BY <2>3, AskingFields
  <2> HIDE DEF a, g
  <2>5. /\ t \in States /\ t.active = f.id /\ t.pending = FALSE
        /\ t.mode = state.mode /\ t.committed = state.committed
        /\ t.search = Settle(state).search
        /\ t.ask.question = f.q /\ t.ask.phase = "working"
    <3>1. "working" \in Phases /\ a.active # 0 /\ a.active = f.id
      BY <2>3, <2>4 DEF Phases
    <3> DEFINE u == AskPhase(a, a.active, "working")
    <3>2. /\ u \in States /\ u.pending = a.pending /\ u.active = a.active
          /\ u.mode = a.mode /\ u.committed = a.committed /\ u.search = a.search
          /\ u.ask.question = a.ask.question /\ u.ask.phase = "working"
      BY <2>4, <3>1, AskPhaseFields
    <3>3. t = u
      BY <2>4
    <3> HIDE DEF t, u
    <3> QED
      BY <2>4, <3>2, <3>3
  <2> HIDE DEF t
  <2>6. /\ t.search.q = state.search.q /\ t.search.type = state.search.type
        /\ t.search.outcome = state.search.outcome /\ t.search.more = state.search.more
        /\ t.search.foot # "loading"
    <3> DEFINE r == Settle(state).search
    <3>1. /\ r.q = state.search.q /\ r.type = state.search.type
          /\ r.outcome = state.search.outcome /\ r.more = state.search.more
          /\ r.foot # "loading"
      BY <2>3, SettleFields
    <3>2. t.search = r
      BY <2>5
    <3> HIDE DEF r
    <3> QED
      BY <3>1, <3>2
  <2>7. Lands(state, f)
    BY PageParts
  <2>8. state.mode = "ask" /\ state.committed.q = f.q
    BY <1>1, <2>7 DEF Lands
  <2>9. Sound(t)
    <3>1. RowsRight(t)
      BY <2>6, ScreenParts DEF RowsRight
    <3>2. PaneNamed(t)
      BY <2>3, <2>5 DEF PaneNamed
    <3>3. Waits(t) /\ t.active # 0
      BY <2>3, <2>5 DEF Waits
    <3> QED
      BY <2>5, <2>8, <3>1, <3>2, <3>3, ScreenParts DEF Sound
  <2>10. WellSent(g)
    BY <1>1, <2>2 DEF WellSent
  <2>11. Lands(t, g)
    BY <1>1, <2>2, <2>5, <2>6, <2>8 DEF Lands
  <2>12. PageInv'
    BY <1>1, <2>1, <2>2, <2>5, <2>9, <2>10, <2>11, StreamStep
  <2> QED
    BY <1>1, <2>1, <2>5, <2>12, BrowserStays
<1> QED
  BY <1>3, <1>4

\* A request that was aborted ends with nothing to say: its id is no longer the
\* active one.
LEMMA AbortsKeeps ==
  ASSUME PageInv, BrowserInv, NEW f \in flights, Aborts(f)
  PROVE  PageInv' /\ BrowserInv'
<1>1. /\ f.id # controller /\ flights' = flights \ {f}
      /\ UNCHANGED <<seq, controller>> /\ UNCHANGED browser
  BY DEF Aborts, Aborted, Quiet
<1>2. f.id # state.active
  BY <1>1, PageParts, FlightFields
<1>3. state' = state
  BY <1>2 DEF Aborts, Replied, Searched, MoreDone, AskPhase
<1>4. state.active # 0 => \E h \in flights' : h.id = state.active /\ h.id = controller
  BY <1>1, PageParts
<1>5. PageInv'
  BY <1>1, <1>3, <1>4, PageParts DEF PageInv, Aborted
<1> QED
  BY <1>1, <1>3, <1>5, BrowserStays
-----------------------------------------------------------------------------
(* Every step *)

LEMMA VisitorKeeps ==
  ASSUME PageInv, BrowserInv, Visitor
  PROVE  PageInv' /\ BrowserInv'
<1>1. CASE \E w \in Words : Draft(w)
  BY <1>1, DraftKeeps
<1>2. CASE Submit
  BY <1>2, SubmitKeeps
<1>3. CASE AskAgain
  BY <1>3, AskAgainKeeps
<1>4. CASE \E q \in Texts : AskExample(q)
  BY <1>4, AskExampleKeeps
<1>5. CASE \E t \in Types : PickChannel(t)
  BY <1>5, PickChannelKeeps
<1>6. CASE \E m \in Modes : SwitchMode(m)
  BY <1>6, SwitchModeKeeps
<1>7. CASE \E w \in Words, t \in Types : RunExample(w, t)
  BY <1>7, RunExampleKeeps
<1>8. CASE Retry
  BY <1>8, RetryKeeps
<1>9. CASE More
  BY <1>9, MoreKeeps
<1>10. CASE \E u \in Urls : Travel(u)
  BY <1>10, TravelKeeps
<1> QED
  BY <1>1, <1>2, <1>3, <1>4, <1>5, <1>6, <1>7, <1>8, <1>9, <1>10 DEF Visitor

LEMMA NetworkKeeps ==
  ASSUME PageInv, BrowserInv, \A f \in flights : ~Aborted(f), Network
  PROVE  PageInv' /\ BrowserInv'
<1>1. PICK f \in flights : SearchEnds(f) \/ AskArrives(f) \/ AskRefused(f)
                             \/ ResumeArrives(f) \/ ResumeFails(f) \/ Breaks(f) \/ Answered(f)
  BY DEF Network
<1>2. f.id = controller
  BY DEF Aborted
<1>3. CASE SearchEnds(f)
  BY <1>2, <1>3, SearchEndsKeeps
<1>4. CASE AskArrives(f)
  BY <1>2, <1>4, AskArrivesKeeps
<1>5. CASE AskRefused(f)
  BY <1>2, <1>5, AskRefusedKeeps
<1>6. CASE ResumeArrives(f)
  BY <1>2, <1>6, ResumeArrivesKeeps
<1>7. CASE Breaks(f)
  BY <1>2, <1>7, BreaksKeeps
<1>8. CASE Answered(f)
  BY <1>2, <1>8, AnsweredKeeps
<1>9. CASE ResumeFails(f)
  BY <1>2, <1>9, ResumeFailsKeeps
<1> QED
  BY <1>1, <1>3, <1>4, <1>5, <1>6, <1>7, <1>8, <1>9

\* What is none of the page's is left as it is.
LEMMA RestStays ==
  ASSUME PageInv, BrowserInv, UNCHANGED <<page, browser>>
  PROVE  PageInv' /\ BrowserInv'
<1>1. PageInv'
  BY DEF page, PageInv, Aborted
<1> QED
  BY <1>1, BrowserStays DEF page

LEMMA TaskKeeps ==
  ASSUME PageInv, BrowserInv, \A f \in flights : ~Aborted(f), Task
  PROVE  PageInv' /\ BrowserInv'
<1>1. CASE Visitor
  BY <1>1, VisitorKeeps
<1>2. CASE Route
  BY <1>2, RouteKeeps
<1>3. CASE Leave
  BY <1>3, RestStays DEF Leave
<1>4. CASE Show
  BY <1>4, PickUpStep, BrowserStays DEF Show
<1>5. CASE Reconnect
  BY <1>5, PickUpStep, BrowserStays DEF Reconnect
<1>6. CASE Network
  BY <1>6, NetworkKeeps
<1>7. CASE RunEnds
  BY <1>7, RestStays DEF RunEnds
<1>8. CASE Forget
  BY <1>8, RestStays DEF Forget
<1> QED
  BY <1>1, <1>2, <1>3, <1>4, <1>5, <1>6, <1>7, <1>8 DEF Task

\* The phone, the server's runs and the counters keep their types.
LEMMA WorldStays ==
  ASSUME WorldInv, UNCHANGED <<phone, runs, acts, mishaps>>
  PROVE  WorldInv'
BY DEF WorldInv, phone

LEMMA ActCounted ==
  ASSUME WorldInv, Act
  PROVE  WorldInv'
<1>1. acts' \in 0..MaxActs
  BY BoundsAssumption DEF Act, WorldInv
<1> QED
  BY <1>1 DEF Act, WorldInv, phone

LEMMA MishapCounted ==
  ASSUME WorldInv, Mishap
  PROVE  mishaps' \in 0..MaxMishaps
BY BoundsAssumption DEF Mishap, WorldInv

LEMMA RunStarts ==
  ASSUME WorldInv, NEW q \in Texts
  PROVE  Started(q) \in [Texts -> RunStates]
BY DEF Started, WorldInv, RunStates

LEMMA VisitorWorld ==
  ASSUME WorldInv, Visitor
  PROVE  WorldInv'
<1>1. CASE \E w \in Words : Draft(w)
  BY <1>1, WorldStays DEF Draft
<1>2. CASE ~\E w \in Words : Draft(w)
  <2>1. Act
    BY <1>2 DEF Visitor, Submit, AskAgain, AskExample, PickChannel, SwitchMode, RunExample,
                Retry, More, Travel
  <2> QED
    BY <2>1, ActCounted
<1> QED
  BY <1>1, <1>2

LEMMA RequestWorld ==
  ASSUME PageInv, WorldInv, NEW f \in flights,
         \/ SearchEnds(f) \/ AskArrives(f) \/ AskRefused(f)
         \/ ResumeArrives(f) \/ ResumeFails(f) \/ Breaks(f) \/ Answered(f) \/ Aborts(f)
  PROVE  WorldInv'
<1>1. UNCHANGED <<phone, acts>>
  BY DEF SearchEnds, AskArrives, AskRefused, ResumeArrives, ResumeFails, Breaks, Answered, Aborts, Quiet
<1>2. runs' \in [Texts -> RunStates]
  <2>1. runs' \in {runs, Started(f.q)}
    BY DEF SearchEnds, AskArrives, AskRefused, ResumeArrives, ResumeFails, Breaks, Answered, Aborts
  <2> QED
    BY <2>1, RunStarts, FlightFields DEF WorldInv
<1>3. mishaps' \in 0..MaxMishaps
  <2>1. mishaps' = mishaps \/ Mishap
    BY DEF SearchEnds, AskArrives, AskRefused, ResumeArrives, ResumeFails, Breaks, Answered, Aborts
  <2> QED
    BY <2>1, MishapCounted DEF WorldInv
<1> QED
  BY <1>1, <1>2, <1>3 DEF WorldInv, phone

LEMMA TaskWorld ==
  ASSUME PageInv, WorldInv, Task
  PROVE  WorldInv'
<1>1. CASE Visitor
  BY <1>1, VisitorWorld
<1>2. CASE Route
  BY <1>2, WorldStays DEF Route
<1>3. CASE Leave
  BY <1>3, MishapCounted DEF Leave, WorldInv
<1>4. CASE Show
  BY <1>4 DEF Show, WorldInv
<1>5. CASE Reconnect
  BY <1>5 DEF Reconnect, WorldInv
<1>6. CASE Network
  BY <1>6, RequestWorld DEF Network
<1>7. CASE RunEnds
  BY <1>7 DEF RunEnds, WorldInv, RunStates, phone
<1>8. CASE Forget
  BY <1>8 DEF Forget, WorldInv, RunStates, phone
<1> QED
  BY <1>1, <1>2, <1>3, <1>4, <1>5, <1>6, <1>7, <1>8 DEF Task

LEMMA CInvStep ==
  ASSUME CInv, [Next]_vars
  PROVE  CInv'
<1>1. PageInv /\ BrowserInv /\ WorldInv
  BY DEF CInv
<1>2. CASE \E f \in flights : Aborts(f)
  <2>1. PageInv' /\ BrowserInv'
    BY <1>1, <1>2, AbortsKeeps
  <2>2. WorldInv'
    BY <1>1, <1>2, RequestWorld
  <2> QED
    BY <2>1, <2>2 DEF CInv
<1>3. CASE (\A f \in flights : ~Aborted(f)) /\ Task
  <2>1. PageInv' /\ BrowserInv'
    BY <1>1, <1>3, TaskKeeps
  <2>2. WorldInv'
    BY <1>1, <1>3, TaskWorld
  <2> QED
    BY <2>1, <2>2 DEF CInv
<1>4. CASE UNCHANGED vars
  <2>1. PageInv' /\ BrowserInv'
    BY <1>1, <1>4, RestStays DEF vars
  <2>2. WorldInv'
    BY <1>1, <1>4, WorldStays DEF vars
  <2> QED
    BY <2>1, <2>2 DEF CInv
<1> QED
  BY <1>2, <1>3, <1>4 DEF Next

\* The page as it loads.
LEMMA InitialFields ==
  ASSUME NEW snap \in Snapshots, NEW outcome \in Outcomes,
         outcome = "null" <=> snap.mode = "ask" \/ snap.q = NoText
  PROVE  LET t == InitialState(snap, outcome)
         IN  t \in States /\ Sound(t) /\ t.active = 0 /\ ~Waits(t)
               /\ t.committed = snap /\ t.mode = snap.mode
<1> DEFINE t == InitialState(snap, outcome)
<1>1. snap.mode \in Modes /\ snap.q \in Words /\ snap.type \in Types /\ NoText \in Words
  BY DEF Snapshots, Words
<1>2. t \in States
  BY <1>1 DEF InitialState, States, Rows, Panes, Feet, Phases
<1>3. /\ t.mode = snap.mode /\ t.committed = snap /\ t.pending = FALSE /\ t.active = 0
      /\ t.search.q = (IF snap.mode = "search" THEN snap.q ELSE NoText)
      /\ t.search.type = snap.type /\ t.search.outcome = outcome /\ t.search.more = <<>>
      /\ t.search.foot = "none" /\ t.ask.phase = "idle"
  BY DEF InitialState
<1> HIDE DEF t
<1>4. RowsRight(t) /\ PaneNamed(t) /\ ~Waits(t)
  BY <1>1, <1>3 DEF RowsRight, PaneNamed, Waits, Modes
<1>5. t.mode = "search" /\ t.committed.q # NoText => Holds(t, t.committed.q, t.committed.type)
  BY <1>3 DEF Holds
<1>6. Sound(t)
  BY <1>3, <1>4, <1>5 DEF Sound
<1> QED
  BY <1>2, <1>3, <1>4, <1>6 DEF t

LEMMA CInvInit ==
  ASSUME Init
  PROVE  CInv
<1>1. loc \in Urls /\ routed = loc /\ routes = <<>> /\ controller = seq
  BY DEF Init
<1>2. PICK outcome \in Outcomes :
        /\ outcome = "null" <=> loc.mode = "ask" \/ loc.q = NoText
        /\ state = InitialState(loc, outcome)
  BY DEF Init
<1>3. loc \in Snapshots /\ Serialize(loc) = loc /\ loc.q \in Words
  BY <1>1, UrlSnapshot
<1>4. /\ state \in States /\ Sound(state) /\ state.active = 0 /\ ~Waits(state)
      /\ state.committed = loc /\ state.mode = loc.mode
  BY <1>2, <1>3, InitialFields
<1>5. PageInv
  <2>1. CASE loc.mode = "ask" /\ loc.q # NoText
    <3> DEFINE f == Flight(1, "resume", loc.q, All)
    <3>1. seq = 1 /\ flights = {f}
      BY <2>1 DEF Init
    <3>2. f \in Flights(1) /\ WellSent(f) /\ f.id = 1
      <4>1. loc.q \in Texts /\ All \in Types
        BY <1>3, <2>1, ConsoleAssumption DEF Words
      <4>2. f.id = 1 /\ f.kind = "resume" /\ f.stage = "sent" /\ f.shown = ("resume" = "ask")
        BY DEF Flight
      <4>3. WellSent(f)
        BY <4>2 DEF WellSent
      <4>4. "resume" \in Kinds /\ 1 \in 1..1
        BY DEF Kinds
      <4>5. f \in Flights(1)
        BY <4>1, <4>4 DEF Flight, Flights
      <4> QED
        BY <4>2, <4>3, <4>5
    <3>3. Lands(state, f)
      BY <1>4, <2>1 DEF Lands, Flight
    <3> HIDE DEF f
    <3> QED
      BY <1>1, <1>4, <3>1, <3>2, <3>3 DEF PageInv
  <2>2. CASE ~(loc.mode = "ask" /\ loc.q # NoText)
    <3>1. seq = 0 /\ flights = {}
      BY <2>2 DEF Init
    <3> QED
      BY <1>1, <1>4, <3>1 DEF PageInv
  <2> QED
    BY <2>1, <2>2
<1>6. RoutesLead
  <2>1. Len(routes) = 0
    BY <1>1
  <2> QED
    BY <1>1, <2>1 DEF RoutesLead, EntryAt
<1>7. BrowserInv
  BY <1>1, <1>3, <1>4, <1>6 DEF BrowserInv
<1>8. WorldInv
  BY BoundsAssumption DEF Init, WorldInv, RunStates
<1> QED
  BY <1>5, <1>7, <1>8 DEF CInv

\* The inductive invariant: what is on screen answers what is committed, what
\* waits has the request nobody aborted, that request asks what is committed, and
\* the router's entries lead to the location.
THEOREM ConsoleInvariant == Spec => []CInv
<1>1. Init => CInv
  BY CInvInit
<1>2. CInv /\ [Next]_vars => CInv'
  BY CInvStep
<1> QED
  BY <1>1, <1>2, PTL DEF Spec

-----------------------------------------------------------------------------
\* The console keeps its types, the bounds of clicks and mishaps included.
THEOREM ConsoleTypes == Spec => []TypeOK
<1>1. ASSUME CInv PROVE TypeOK
  <2>1. PageInv /\ BrowserInv /\ WorldInv
    BY <1>1 DEF CInv
  <2>2. /\ state.mode \in Modes /\ state.draft \in Words /\ state.type \in Types
        /\ state.committed \in [mode : Modes, q : Words, type : Types]
        /\ state.search.q \in Words /\ state.search.type \in Types
        /\ state.search.outcome \in Outcomes /\ state.search.foot \in Feet
        /\ state.search.more \in Seq(Texts \X Types)
        /\ state.pending \in BOOLEAN
        /\ state.ask.question \in Words /\ state.ask.phase \in Phases
    BY <2>1, PageParts, StateFields DEF Snapshots
  <2>3. state.active \in 0..seq /\ controller \in 0..seq
    BY <2>1, PageParts
  <2>4. \A f \in flights :
          f \in [id : 1..seq, kind : Kinds, q : Texts, type : Types,
                 stage : {"sent", "streaming", "failed"}, shown : BOOLEAN]
    BY <2>1, PageParts DEF Flights
  <2> QED
    BY <2>1, <2>2, <2>3, <2>4 DEF TypeOK, BrowserInv, WorldInv
<1> QED
  BY <1>1, ConsoleInvariant, PTL

\* Once the router has caught up, what is on screen answers the location: the
\* mode is its mode, and with no search out every row is of its query.
THEOREM ScreenIsTheUrls == Spec => []ScreenAnswersUrl
<1>1. ASSUME CInv PROVE ScreenAnswersUrl
  <2>1. PageInv /\ BrowserInv
    BY <1>1 DEF CInv
  <2>2. SUFFICES ASSUME routes = <<>>
                 PROVE  /\ SameSnapshot(state.committed, loc) /\ state.mode = loc.mode
                        /\ loc.mode = "search" /\ loc.q # NoText /\ ~state.pending =>
                             /\ Holds(state, loc.q, loc.type)
                             /\ \A i \in DOMAIN state.search.more :
                                  state.search.more[i] = <<loc.q, loc.type>>
    BY DEF ScreenAnswersUrl
  <2>3. Serialize(state.committed) = loc /\ Serialize(loc) = loc
    BY <2>1, <2>2, BrowserParts, UrlSnapshot
  <2>4. /\ state.committed \in Snapshots /\ state.mode = state.committed.mode
        /\ loc.mode = state.committed.mode
        /\ loc.mode = "search" => state.committed = loc
    BY <2>1, <2>3, PageParts, StateFields, ScreenParts, SerializeUrl
  <2>5. ASSUME loc.mode = "search", loc.q # NoText, ~state.pending
        PROVE  /\ Holds(state, loc.q, loc.type)
               /\ \A i \in DOMAIN state.search.more : state.search.more[i] = <<loc.q, loc.type>>
    <3>1. Holds(state, loc.q, loc.type)
      BY <2>1, <2>4, <2>5, ScreenParts
    <3> QED
      BY <2>1, <3>1, ScreenParts DEF Holds, RowsRight
  <2> QED
    BY <2>3, <2>4, <2>5 DEF SameSnapshot
<1> QED
  BY <1>1, ConsoleInvariant, PTL

\* An answer, a refusal or an interruption is never shown under a question it is
\* not about, whatever reply lands after whatever move in the history.
THEOREM PaneIsTheUrls == Spec => []PaneAnswersUrl
<1>1. ASSUME CInv PROVE PaneAnswersUrl
  BY <1>1, ScreenParts DEF CInv, PaneAnswersUrl
<1> QED
  BY <1>1, ConsoleInvariant, PTL

\* No screen is left waiting for nothing: what shows as busy has a request that
\* is out, that nobody aborted and whose reply may land.
THEOREM NothingWaitsForNothing == Spec => []BusyIsBacked
<1>1. ASSUME CInv PROVE BusyIsBacked
  <2>1. PageInv
    BY <1>1 DEF CInv
  <2>2. SUFFICES ASSUME Waits(state)
                 PROVE  \E f \in flights :
                          /\ f.id = state.active /\ ~Aborted(f)
                          /\ state.pending => f.kind = "search"
                          /\ state.search.foot = "loading" => f.kind = "more"
                          /\ state.ask.phase = "working" =>
                               f.kind \in {"ask", "resume"} /\ f.shown
    BY DEF BusyIsBacked, Waits
  <2>3. PICK f \in flights : f.id = state.active /\ f.id = controller
    BY <2>1, <2>2, ScreenParts, PageParts
  <2>4. Lands(state, f) /\ state.active # 0
    BY <2>1, <2>2, <2>3, ScreenParts, PageParts
  <2> QED
    BY <2>3, <2>4 DEF Lands, Aborted
<1> QED
  BY <1>1, ConsoleInvariant, PTL
=============================================================================
