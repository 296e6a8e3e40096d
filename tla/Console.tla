------------------------------ MODULE Console ------------------------------
(***************************************************************************)
(* The public console at work (web: console/Console.tsx over               *)
(* console/requests.ts): a visitor's clicks, the browser's Back and        *)
(* Forward, the router that reports them late, a phone that goes to the    *)
(* background or out of reach, and the requests whose replies come back    *)
(* after any of these.                                                     *)
(*                                                                         *)
(* An action is one task of the page's event loop with the render and the  *)
(* effects it leads to.  The server is external: what AskRuns says of a    *)
(* run, in three words.                                                    *)
(***************************************************************************)
EXTENDS ConsoleState, FiniteSets

CONSTANTS
  MaxActs,    \* bound: clicks and history moves
  MaxMishaps  \* bound: times the page is hidden, the network goes, or a
              \* stream breaks under a page that is there

ASSUME BoundsAssumption == MaxActs \in Nat /\ MaxMishaps \in Nat

VARIABLES
  state,       \* the reducer's state
  seq,         \* flight.current.seq
  controller,  \* flight.current.controller, as the request it belongs to; 0 for none
  flights,     \* the requests that have not ended; and, as history, the last
               \* one if it was a resume that failed on a page in view
  loc,         \* window.location, as a URL
  routed,      \* the query the router last rendered
  routes,      \* the entries it has not rendered yet
  visible,     \* document.visibilityState
  online,      \* whether the network is there
  runs,        \* the server's run of each question
  acts, mishaps   \* counted against the bounds

page == <<state, seq, controller, flights>>
browser == <<loc, routed, routes>>
phone == <<visible, online>>
vars == <<page, browser, phone, runs, acts, mishaps>>

Kinds == {"search", "more", "ask", "resume"}
RunStates == {"none", "going", "answered"}

Aborted(f) == f.id # controller

\* streamAsk's `shown`: whether the pane is showing this request.
Flight(id, kind, q, type) ==
  [id |-> id, kind |-> kind, q |-> q, type |-> type,
   stage |-> "sent", shown |-> kind = "ask"]

-----------------------------------------------------------------------------
(* begin() and stop() *)

\* A new request: the one before it is aborted.
Begin(kind, q, type) ==
  /\ seq' = seq + 1
  /\ controller' = seq + 1
  /\ flights' = flights \cup {Flight(seq + 1, kind, q, type)}

Stop == controller' = 0 /\ UNCHANGED <<seq, flights>>

\* Mutant: a stream that drops under a page that is there waits for an event.
RenderUnheard(next, rest) ==
  state' = next /\ flights' = rest /\ UNCHANGED <<seq, controller>>

\* The render of a state whose pane is newly on a dropped stream picks the
\* run up, when the page can be seen.  `rest` are the requests still out.
RenderWith(next, rest) ==
  /\ state' = next
  /\ IF Dropped(next) /\ ~Dropped(state) /\ visible
     THEN /\ seq' = seq + 1
          /\ controller' = seq + 1
          /\ flights' = rest \cup {Flight(seq + 1, "resume", next.ask.question, All)}
     ELSE flights' = rest /\ UNCHANGED <<seq, controller>>

-----------------------------------------------------------------------------
(* What the handlers share *)

\* writeUrl: an entry is pushed unless the location already says it.
Push(snap) ==
  LET url == Serialize(snap)
  IN  /\ loc' = url
      /\ routes' = IF url = loc THEN routes ELSE Append(routes, url)
      /\ UNCHANGED routed

\* search(), its commit aside.
Search(s, q, type) ==
  IF q = NoText
  THEN state' = Cold(s) /\ Stop
  ELSE state' = Searching(s, seq + 1) /\ Begin("search", q, type)

\* search() with its commit.
Run(s, q, type) ==
  LET snap == Snapshot("search", q, type)
  IN  Search(Commit(s, snap), q, type) /\ Push(snap)

Ask(s, question) ==
  LET snap == Snapshot("ask", question, state.type)
  IN  /\ question # NoText
      /\ state' = Asking(Commit(s, snap), seq + 1, question)
      /\ Begin("ask", question, All)
      /\ Push(snap)

\* A click is made on a page that can be seen.
Act == visible /\ acts < MaxActs /\ acts' = acts + 1 /\ UNCHANGED <<phone, runs, mishaps>>

-----------------------------------------------------------------------------
(* The visitor *)

\* What is typed after the last click of an instance is not looked at.
Draft(value) ==
  /\ visible /\ acts < MaxActs
  /\ state' = [state EXCEPT !.draft = value]
  /\ UNCHANGED <<seq, controller, flights, browser, phone, runs, acts, mishaps>>

Submit ==
  /\ Act
  /\ ~Busy(state)
  /\ IF state.mode = "ask"
     THEN Ask(state, state.draft)
     ELSE Run(state, state.draft, state.type)

\* A degraded pane's button, and an example on the cold page.
AskAgain ==
  /\ Act
  /\ state.mode = "ask" /\ state.ask.phase \in {"refused", "dropped"}
  /\ Ask(state, state.draft)

AskExample(question) ==
  /\ Act
  /\ state.mode = "ask" /\ state.ask.phase = "idle"
  /\ Ask([state EXCEPT !.draft = question], question)

\* A chip re-runs the search, or pins the channel of a cold page.
PickChannel(value) ==
  LET s == [state EXCEPT !.type = value]
      snap == Snapshot("search", NoText, value)
  IN  /\ Act
      /\ state.mode = "search"
      /\ IF state.draft # NoText
         THEN Run(s, state.draft, value)
         ELSE /\ state' = Commit(s, snap)
              /\ Push(snap)
              /\ UNCHANGED <<seq, controller, flights>>

\* A pane that comes back on a dropped stream resumes it, as RenderWith has it.
SwitchMode(mode) ==
  LET q == state.draft
      snap == Snapshot(mode, q, state.type)
      switched == ToMode(state, mode)
      s == Commit(switched, snap)
  IN  /\ Act
      /\ mode # state.mode
      /\ IF mode = "search" /\ q # NoText /\ ~Holds(state, q, state.type)
         THEN Run(switched, q, state.type)
         ELSE /\ Push(snap)
              /\ state' = IF mode = "search" /\ q = NoText THEN Cold(s) ELSE s
              /\ IF Dropped(s) THEN Begin("resume", s.ask.question, All) ELSE Stop

\* runExample: a cold page's example, or one of an empty result's two ways out.
RunExample(q, type) ==
  /\ Act
  /\ state.mode = "search"
  /\ IF state.search.outcome = "null"
     THEN q # NoText
     ELSE /\ state.search.outcome = "ok" /\ type = All
          /\ q = NoText \/ (q = state.search.q /\ state.search.type # All)
  /\ Run([state EXCEPT !.draft = q, !.type = type], q, type)

Retry ==
  /\ Act
  /\ state.mode = "search" /\ state.search.outcome = "bad" /\ ~state.pending
  /\ Search(state, state.search.q, state.search.type)
  /\ UNCHANGED browser

\* Mutant: paging while page one of a newer search is out.
MoreWhilePending ==
  /\ Act
  /\ state.mode = "search" /\ state.search.outcome = "ok"
  /\ state' = Paging(state, seq + 1)
  /\ Begin("more", state.search.q, state.search.type)
  /\ UNCHANGED browser

More ==
  /\ Act
  /\ state.mode = "search" /\ state.search.outcome = "ok"
  /\ ~state.pending
  /\ state.search.foot # "loading"
  /\ state' = Paging(state, seq + 1)
  /\ Begin("more", state.search.q, state.search.type)
  /\ UNCHANGED browser

\* Back, Forward: the location moves now, the router says so later.
Travel(url) ==
  /\ Act
  /\ url # loc
  /\ loc' = url
  /\ routes' = Append(routes, url)
  /\ UNCHANGED <<page, routed>>

-----------------------------------------------------------------------------
(* The router and the phone *)

\* The restore effect.  A pane that comes back on a dropped stream is resumed
\* by two effects at once: the second request is the one that counts.
RestoreTo(snap) ==
  LET s == Restore(state, snap)
  IN  IF snap.mode = "search" /\ snap.q # NoText /\ ~Holds(state, snap.q, snap.type)
      THEN Search(s, snap.q, snap.type)
      ELSE /\ state' = s
           /\ IF snap.mode = "ask" /\ snap.q # NoText
              THEN Begin("resume", snap.q, All)
              ELSE Stop

\* The router renders its next entry; the effect runs when the query changed,
\* and believes only a query that is still the location's.
Route ==
  /\ routes # <<>>
  /\ routed' = Head(routes)
  /\ routes' = Tail(routes)
  /\ IF Head(routes) # routed /\ Head(routes) = loc
        /\ ~SameSnapshot(Head(routes), state.committed)
     THEN RestoreTo(Head(routes))
     ELSE UNCHANGED page
  /\ UNCHANGED <<loc, phone, runs, acts, mishaps>>

Mishap == mishaps < MaxMishaps /\ mishaps' = mishaps + 1

Leave ==
  /\ Mishap
  /\ visible' \in {visible, FALSE} /\ online' \in {online, FALSE}
  /\ <<visible', online'>> # phone
  /\ UNCHANGED <<page, browser, runs, acts>>

\* pickUp(), while its listeners are there.
PickUp ==
  IF Dropped(state) /\ visible'
  THEN Begin("resume", state.ask.question, All) /\ UNCHANGED state
  ELSE UNCHANGED page

\* visibilitychange.
Show ==
  /\ ~visible
  /\ visible' = TRUE
  /\ PickUp
  /\ UNCHANGED <<online, browser, runs, acts, mishaps>>

\* online.
Reconnect ==
  /\ ~online
  /\ online' = TRUE
  /\ UNCHANGED visible
  /\ PickUp
  /\ UNCHANGED <<browser, runs, acts, mishaps>>

-----------------------------------------------------------------------------
(* The requests *)

Quiet == UNCHANGED <<browser, phone, acts>>

\* What a reply to a search or to a page of one leaves on screen.
Replied(f, outcome) ==
  IF f.kind = "search"
  THEN Searched(state, f.id, f.q, f.type, outcome)
  ELSE MoreDone(state, f.id, f.q, f.type, outcome)

SearchEnds(f) ==
  /\ f.kind \in {"search", "more"}
  /\ \E outcome \in {"ok", "bad"} :
       /\ outcome = "ok" => online
       /\ RenderWith(Replied(f, outcome), flights \ {f})
  /\ Quiet /\ UNCHANGED <<runs, mishaps>>

\* The server starts a question's run, or finds it.
Started(q) == IF runs[q] = "none" THEN [runs EXCEPT ![q] = "going"] ELSE runs

\* An aborted request is over before the page's next task.  One whose body was
\* being read still reports a reply that makes no sense; an ask may have reached
\* the server.
Aborts(f) ==
  /\ Aborted(f)
  /\ \/ UNCHANGED state
     \/ f.kind \in {"search", "more"} /\ state' = Replied(f, "bad")
     \/ f.shown /\ state' = AskPhase(state, f.id, "refused")
  /\ flights' = flights \ {f}
  /\ runs' \in IF f.kind = "ask" /\ f.stage = "sent" /\ online
               THEN {runs, Started(f.q)} ELSE {runs}
  /\ UNCHANGED <<seq, controller, mishaps>> /\ Quiet

\* An ask reaches the server.
AskArrives(f) ==
  /\ f.kind = "ask" /\ f.stage = "sent" /\ online
  /\ runs' = Started(f.q)
  /\ flights' = (flights \ {f}) \cup {[f EXCEPT !.stage = "streaming"]}
  /\ UNCHANGED <<state, seq, controller, mishaps>> /\ Quiet

\* It is refused with a status code; a body that is not the server's own counts
\* as a server that could not be reached.
AskRefused(f) ==
  /\ f.kind = "ask" /\ f.stage = "sent" /\ online
  /\ \E phase \in {"refused", "dropped"} :
       RenderWith(AskPhase(state, f.id, phase), flights \ {f})
  /\ UNCHANGED <<runs, mishaps>> /\ Quiet

\* A resume is told of the visitor's run, or that there is none: only then is
\* the pane its own.
ResumeArrives(f) ==
  /\ f.kind = "resume" /\ f.stage = "sent" /\ online
  /\ IF runs[f.q] = "none"
     THEN flights' = flights \ {f} /\ UNCHANGED state
     ELSE /\ flights' = (flights \ {f}) \cup {[f EXCEPT !.stage = "streaming", !.shown = TRUE]}
          /\ state' = AskPhase(Asking(state, f.id, f.q), f.id, "working")
  /\ UNCHANGED <<seq, controller, runs, mishaps>> /\ Quiet

\* A reply that is not ok, or no reply: a resume that is not shown says nothing
\* and nobody sends it again.  Out of view or out of reach another one will be
\* sent when the page is back; in view there is no such cue.
ResumeFails(f) ==
  /\ f.kind = "resume" /\ f.stage = "sent"
  /\ flights' = IF visible /\ online
                 THEN (flights \ {f}) \cup {[f EXCEPT !.stage = "failed"]}
                 ELSE flights \ {f}
  /\ UNCHANGED <<state, seq, controller, runs, mishaps>> /\ Quiet

\* The network or the phone's system ends what the pane shows.
Breaks(f) ==
  /\ f.shown
  /\ \/ (~visible \/ ~online) /\ UNCHANGED mishaps
     \/ f.stage = "streaming" /\ Mishap
  /\ RenderWith(AskPhase(state, f.id, "dropped"), flights \ {f})
  /\ UNCHANGED runs /\ Quiet

\* The run's last event reaches the page: an answer, or an error.
Answered(f) ==
  /\ f.stage = "streaming" /\ online
  /\ runs[f.q] # "going"
  /\ \E phase \in {"answered", "refused"} :
       RenderWith(AskPhase(state, f.id, phase), flights \ {f})
  /\ UNCHANGED <<runs, mishaps>> /\ Quiet

Network ==
  \E f \in flights :
    SearchEnds(f) \/ AskArrives(f) \/ AskRefused(f)
      \/ ResumeArrives(f) \/ ResumeFails(f) \/ Breaks(f) \/ Answered(f)

\* The server's side: a run ends, and is kept for a while.
RunEnds ==
  /\ \E q \in Texts : runs[q] = "going" /\ runs' = [runs EXCEPT ![q] = "answered"]
  /\ UNCHANGED <<page, browser, phone, acts, mishaps>>

Forget ==
  /\ \E q \in Texts : runs[q] = "answered" /\ runs' = [runs EXCEPT ![q] = "none"]
  /\ UNCHANGED <<page, browser, phone, acts, mishaps>>

-----------------------------------------------------------------------------
\* The page has loaded: a search link with what the server read for it, a
\* question with its resume already sent, or a bare path.
Init ==
  /\ loc \in Urls
  /\ \E outcome \in Outcomes :
       /\ outcome = "null" <=> loc.mode = "ask" \/ loc.q = NoText
       /\ state = InitialState(loc, outcome)
  /\ LET resumes == loc.mode = "ask" /\ loc.q # NoText
     IN  /\ seq = IF resumes THEN 1 ELSE 0
         /\ flights = IF resumes THEN {Flight(1, "resume", loc.q, All)} ELSE {}
  /\ controller = seq
  /\ routed = loc
  /\ routes = <<>>
  /\ visible = TRUE
  /\ online = TRUE
  /\ runs \in [Texts -> {"none", "going"}]
  /\ acts = 0 /\ mishaps = 0

Visitor ==
  \/ \E w \in Words : Draft(w)
  \/ Submit
  \/ AskAgain
  \/ \E q \in Texts : AskExample(q)
  \/ \E t \in Types : PickChannel(t)
  \/ \E m \in Modes : SwitchMode(m)
  \/ \E w \in Words, t \in Types : RunExample(w, t)
  \/ Retry
  \/ More
  \/ \E u \in Urls : Travel(u)

Task ==
  \/ Visitor
  \/ Route
  \/ Leave
  \/ Show
  \/ Reconnect
  \/ Network
  \/ RunEnds
  \/ Forget

\* What an abort leads to comes before any other task.
Next ==
  \/ \E f \in flights : Aborts(f)
  \/ (\A f \in flights : ~Aborted(f)) /\ Task

Spec == Init /\ [][Next]_vars

\* A request ends, a run ends, the router renders what it was told, and a phone
\* comes back.  Nothing is assumed of the visitor, nor that the server forgets.
FairSpec ==
  /\ Spec
  /\ WF_vars(\E f \in flights : Aborts(f))
  /\ WF_vars((\A f \in flights : ~Aborted(f)) /\ Network)
  /\ WF_vars((\A f \in flights : ~Aborted(f)) /\ RunEnds)
  /\ WF_vars((\A f \in flights : ~Aborted(f)) /\ Route)
  /\ WF_vars((\A f \in flights : ~Aborted(f)) /\ Show)
  /\ WF_vars((\A f \in flights : ~Aborted(f)) /\ Reconnect)

-----------------------------------------------------------------------------
TypeOK ==
  /\ state.mode \in Modes /\ state.draft \in Words /\ state.type \in Types
  /\ state.committed \in [mode : Modes, q : Words, type : Types]
  /\ state.search.q \in Words /\ state.search.type \in Types
  /\ state.search.outcome \in Outcomes /\ state.search.foot \in Feet
  /\ state.search.more \in Seq(Texts \X Types)
  /\ state.pending \in BOOLEAN
  /\ state.ask.question \in Words /\ state.ask.phase \in Phases
  /\ state.active \in 0..seq /\ controller \in 0..seq
  /\ \A f \in flights :
       f \in [id : 1..seq, kind : Kinds, q : Texts, type : Types,
              stage : {"sent", "streaming", "failed"}, shown : BOOLEAN]
  /\ loc \in Urls /\ routed \in Urls /\ routes \in Seq(Urls)
  /\ visible \in BOOLEAN /\ online \in BOOLEAN
  /\ runs \in [Texts -> RunStates]
  /\ acts \in 0..MaxActs /\ mishaps \in 0..MaxMishaps

\* The URL is the snapshot: once the router has caught up, the page is in the
\* mode the location names, and with no search out the rows on screen, every
\* later page of them included, answer the location's query.  (A channel picked
\* over an emptied box commits a URL that names no query and leaves the rows;
\* of that URL nothing is said.)
ScreenAnswersUrl ==
  routes = <<>> =>
    /\ SameSnapshot(state.committed, loc) /\ state.mode = loc.mode
    /\ loc.mode = "search" /\ loc.q # NoText /\ ~state.pending =>
         /\ Holds(state, loc.q, loc.type)
         /\ \A i \in DOMAIN state.search.more : state.search.more[i] = <<loc.q, loc.type>>

\* An answer, or a refusal, is never on screen under another question: not when
\* a resume lands late, not when Back changes the question under it.
PaneAnswersUrl ==
  state.mode = "ask" /\ state.ask.phase # "idle" =>
    state.ask.question = state.committed.q

\* Whatever shows as busy is waiting for a request that is out, that nobody
\* aborted and whose reply may land: no screen is left waiting for nothing.
BusyIsBacked ==
  state.pending \/ state.search.foot = "loading" \/ state.ask.phase = "working" =>
    \E f \in flights :
      /\ f.id = state.active /\ ~Aborted(f)
      /\ state.pending => f.kind = "search"
      /\ state.search.foot = "loading" => f.kind = "more"
      /\ state.ask.phase = "working" => f.kind \in {"ask", "resume"} /\ f.shown

\* The pane of q stands on an interruption while the server has the run.
Interrupted(q) == Dropped(state) /\ state.ask.question = q /\ runs[q] # "none"

\* A stream the phone dropped is picked up: while the server has the run, the
\* pane does not stay on the interruption once the page is back, unless the
\* resume it sent on a page in view failed there.
DroppedIsPickedUp ==
  \A q \in Texts :
    Interrupted(q) ~>
      \/ ~Interrupted(q)
      \/ \E f \in flights : f.stage = "failed" /\ f.q = q /\ ~Aborted(f)
=============================================================================
