----------------------------- MODULE AskService -----------------------------
(***************************************************************************)
(* POST /api/ask and its resume (mcp: public/ask.py, public/ratelimit.py,  *)
(* llm.py, the lifespan of app.py), composed of the day's budget           *)
(* (AskBudget) and the runs that outlive a stream (AskRuns).               *)
(*                                                                         *)
(* The limiter charges the day before a handler runs.  An ask of a visitor *)
(* gets a run, or joins the one its question already has; any other ask is *)
(* a loop of its own request, watched as a stream or drained for one JSON  *)
(* answer.  The bill is settled where the loop ends: by _stream's finally, *)
(* by ask_endpoint, or by on_end of the run.                               *)
(*                                                                         *)
(* The minute buckets and MCP's own limits are left out: a request here    *)
(* is one they let through.                                                *)
(***************************************************************************)
EXTENDS AskBudget

CONSTANTS
  Requests,   \* HTTP requests, one each
  Wants,      \* the kinds and questions a request may be for
  Keys, MaxKept,
  MaxCalls,   \* completions one loop may start
  MaxBoots    \* bound: processes of an instance

Kinds == {"ask", "direct", "resume"}

ASSUME AskAssumption ==
  /\ Wants \in [Requests -> SUBSET (Kinds \X Keys)]
  /\ Cap \in Nat /\ MaxDay \in Nat /\ MaxKept \in Nat
  /\ MaxCalls \in Nat \ {0} /\ MaxBoots \in Nat \ {0}

VARIABLES
  phase,   \* of the process: up, or closing after its last request
  boots,   \* processes so far
  req,     \* each request: where it stands, its kind and question, its day
  bill,    \* each request's Billing and the call it has on the wire
  payer,   \* the request whose bill each run settles: on_end
  runs, table, kept, reader

Runs == INSTANCE AskRuns WITH Readers <- Requests

askVars == <<phase, boots, req, bill, payer>>
runsVars == <<runs, table, kept, reader>>
vars == <<askVars, budgetVars, runsVars>>

-----------------------------------------------------------------------------
(* The bill *)

\* One request's loop and its Billing: the day charged, the calls made, whether
\* another may follow, the one on the wire, the flag and what it was before that
\* call; and its history: whether a completion came, or was under way when its
\* answer was given up (made), whether, with none of that, a 5xx answered a call
\* (flap), and how often its day was charged and given back.
NoBill ==
  [day |-> 0, calls |-> 0, again |-> FALSE, wire |-> FALSE, paid |-> FALSE,
   was |-> FALSE, made |-> FALSE, flap |-> FALSE, charged |-> 0, back |-> 0]

\* What a loop leaves of its bill.  A call still on the wire is generated.
Over(b) ==
  [NoBill EXCEPT !.made = b.made \/ b.wire, !.charged = b.charged, !.back = b.back]

\* Mutant: the refund names the day it is made on.
GivesBackToday(r) ==
  LET over == Over(bill[r]) IN
  IF over.charged > 0
  THEN /\ Refund(day)
       /\ bill' = [bill EXCEPT ![r] = [over EXCEPT !.back = @ + 1]]
  ELSE bill' = [bill EXCEPT ![r] = over] /\ UNCHANGED budgetVars

\* refund(scope, "ask_global"), if the limiter charged this request.
GivesBack(r) ==
  LET over == Over(bill[r]) IN
  IF over.charged > 0
  THEN /\ Refund(bill[r].day)
       /\ bill' = [bill EXCEPT ![r] = [over EXCEPT !.back = @ + 1]]
  ELSE bill' = [bill EXCEPT ![r] = over] /\ UNCHANGED budgetVars

\* The three places that settle: nothing bought, nothing charged.
Settles(r) ==
  IF bill[r].paid
  THEN bill' = [bill EXCEPT ![r] = Over(bill[r])] /\ UNCHANGED budgetVars
  ELSE GivesBack(r)

\* Requests whose loop is their own, and those whose loop is a run.
OwnLoop(r) == req[r].at = "loop"
RunOf(r) == {x \in Runs!Started : payer[x] = r /\ Runs!Going(x)}
Looping(r) == phase # "closing" /\ (OwnLoop(r) \/ RunOf(r) # {})

-----------------------------------------------------------------------------
(* A request arrives *)

At(where) == [at |-> where, kind |-> "none", key |-> "none"]
Goes(r, where) == req' = [req EXCEPT ![r] = At(where)]

Init ==
  /\ phase = "up" /\ boots = 1
  /\ req = [r \in Requests |-> At("idle")]
  /\ bill = [r \in Requests |-> NoBill]
  /\ payer = <<>>
  /\ BudgetInit /\ Runs!RunsInit

\* Past the limiter; the handler now awaits the body.
Arrives(r) ==
  \E want \in Wants[r] :
    /\ phase = "up" /\ req[r].at = "idle"
    /\ req' = [req EXCEPT ![r] = [at |-> "reading", kind |-> want[1], key |-> want[2]]]
    /\ IF want[1] = "resume"
       THEN UNCHANGED <<bill, budgetVars>>
       ELSE Charge(day) /\ bill' = [bill EXCEPT ![r] = [NoBill EXCEPT !.day = day, !.charged = 1]]
    /\ UNCHANGED <<phase, boots, payer, runsVars>>

\* 429: the day is spent.
Refused(r) ==
  /\ phase = "up" /\ req[r].at = "idle"
  /\ \E want \in Wants[r] : want[1] # "resume"
  /\ Refuse(day)
  /\ Goes(r, "done")
  /\ UNCHANGED <<phase, boots, bill, payer, runsVars>>

Reading(r, kind) == req[r].at = "reading" /\ req[r].kind = kind

\* 400, or a body its client never finished sending.
BadBody(r) ==
  /\ \E kind \in Kinds : Reading(r, kind)
  /\ Settles(r)
  /\ Goes(r, "done")
  /\ UNCHANGED <<phase, boots, payer, runsVars>>

\* The question has a run: the day's token goes back as it came.
AskJoins(r) ==
  /\ Reading(r, "ask")
  /\ Runs!Join(r, req[r].key)
  /\ GivesBack(r)
  /\ Goes(r, "following")
  /\ UNCHANGED <<phase, boots, payer>>

AskLaunches(r) ==
  /\ Reading(r, "ask")
  /\ Runs!Launch(r, req[r].key)
  /\ payer' = Append(payer, r)
  /\ Goes(r, "following")
  /\ UNCHANGED <<phase, boots, bill, budgetVars>>

ResumeJoins(r) ==
  /\ Reading(r, "resume")
  /\ Runs!Join(r, req[r].key)
  /\ Goes(r, "following")
  /\ UNCHANGED <<phase, boots, bill, payer, budgetVars>>

\* 204
ResumeMisses(r) ==
  /\ Reading(r, "resume")
  /\ Runs!Miss(req[r].key)
  /\ Goes(r, "done")
  /\ UNCHANGED <<phase, boots, bill, payer, budgetVars>>

\* No visitor id, or an answer wanted as JSON.
DirectStarts(r) ==
  /\ Reading(r, "direct")
  /\ Goes(r, "loop")
  /\ UNCHANGED <<phase, boots, bill, payer, budgetVars, runsVars>>

-----------------------------------------------------------------------------
(* The loop, and the call it has on the wire *)

\* The loop ends: a run keeps or drops itself and wakes its readers, a request
\* of its own answers.  Either way the bill is settled in the same step.
LoopEnds(r, how) ==
  /\ Settles(r)
  /\ IF OwnLoop(r)
     THEN Goes(r, "done") /\ UNCHANGED runsVars
     ELSE /\ \E x \in RunOf(r) : Runs!End(x, how)
          /\ UNCHANGED req
  /\ UNCHANGED <<phase, boots, payer>>

\* Mutant: the flag goes up only when the answer is there.
RaisesLate(b) == [b EXCEPT !.wire = TRUE, !.calls = @ + 1, !.was = b.paid]
\* chat(): the flag goes up before the request is on the wire.
Raises(b) == [b EXCEPT !.wire = TRUE, !.calls = @ + 1, !.was = b.paid, !.paid = TRUE]
\* ... and down again only as far as it was before this call.
Lowers(b) == [b EXCEPT !.wire = FALSE, !.paid = b.was, !.was = FALSE]
\* What came back, or was generated and never came.
Made(b) == [b EXCEPT !.wire = FALSE, !.was = FALSE, !.made = TRUE, !.flap = FALSE]

\* The first completion, or another one after tools were read or nothing said.
Calls(r) ==
  /\ Looping(r) /\ ~bill[r].wire /\ bill[r].calls < MaxCalls
  /\ bill[r].calls > 0 => bill[r].again
  /\ bill' = [bill EXCEPT ![r] = Raises(bill[r])]
  /\ UNCHANGED <<phase, boots, req, payer, budgetVars, runsVars>>

\* Never connected, or a 4xx: a refusal, which the provider answers without
\* running a model.
CallRefused(r) ==
  /\ Looping(r) /\ bill[r].wire
  /\ bill' = [bill EXCEPT ![r] = Lowers(bill[r])]
  /\ UNCHANGED <<phase, boots, req, payer, budgetVars, runsVars>>

\* A 5xx: whether a model ran behind it nobody here can tell.  The flag comes
\* down as it does for a refusal.
CallFlaps(r) ==
  /\ Looping(r) /\ bill[r].wire
  /\ bill' = [bill EXCEPT ![r] = [Lowers(bill[r]) EXCEPT !.flap = ~bill[r].made]]
  /\ UNCHANGED <<phase, boots, req, payer, budgetVars, runsVars>>

\* A read timeout, or a body that is not JSON: the flag stays up.
CallLost(r) ==
  /\ Looping(r) /\ bill[r].wire
  /\ bill' = [bill EXCEPT ![r] = Made(bill[r])]
  /\ UNCHANGED <<phase, boots, req, payer, budgetVars, runsVars>>

\* The completion asks for tools; each step of them is an activity line.
ReadsTools(r) ==
  /\ Looping(r) /\ bill[r].wire
  /\ bill' = [bill EXCEPT ![r] = [Made(bill[r]) EXCEPT !.again = TRUE]]
  /\ IF OwnLoop(r) THEN UNCHANGED runsVars
     ELSE \E x \in RunOf(r) : Runs!Emit(x)
  /\ UNCHANGED <<phase, boots, req, payer, budgetVars>>

\* The completion has neither tools nor words: one last completion is asked for.
SaysNothing(r) ==
  /\ Looping(r) /\ bill[r].wire
  /\ bill' = [bill EXCEPT ![r] = [Made(bill[r]) EXCEPT !.again = TRUE]]
  /\ UNCHANGED <<phase, boots, req, payer, budgetVars, runsVars>>

\* The completion is the answer: the last event, and the end of the loop.
Answers(r) ==
  /\ Looping(r) /\ bill[r].wire
  /\ LoopEnds(r, "answer")

\* AskUnavailable: the call failed, the deadline passed, or no words came.
Fails(r) ==
  /\ Looping(r) /\ ~bill[r].wire
  /\ LoopEnds(r, "error")

\* The client drops a stream whose loop is its own, or the wait for a JSON
\* answer runs out: the loop is cancelled, with whatever is on the wire.
DirectLeaves(r) ==
  /\ OwnLoop(r)
  /\ LoopEnds(r, "cancelled")

-----------------------------------------------------------------------------
(* Readers of a run *)

\* A stream that returns or is dropped ends its request, never the run.
ReaderAdvances(r) ==
  /\ Runs!Advance(r)
  /\ IF reader'[r].at = "finished" THEN Goes(r, "done") ELSE UNCHANGED req
  /\ UNCHANGED <<phase, boots, bill, payer, budgetVars>>

ReaderLeaves(r) ==
  /\ Runs!Leave(r)
  /\ Goes(r, "done")
  /\ UNCHANGED <<phase, boots, bill, payer, budgetVars>>

-----------------------------------------------------------------------------
(* The drain, the clock, and the process *)

\* The task of the store writes one delta, or fails to (bound: one failure, on
\* the first day, before anything else was lost and with a restart to come).
MayFail ==
  boots < MaxBoots /\ day = 0 /\ \A d \in Days : lost[d] = 0 /\ owed[d] = 0
Drains ==
  /\ Drain \/ (MayFail /\ DrainFails)
  /\ UNCHANGED <<askVars, runsVars>>

\* (bound: only while a request is out).
Quiet == \A r \in Requests : req[r].at \in {"idle", "done", "crashed"}
MidnightPasses == ~Quiet /\ Midnight /\ UNCHANGED <<askVars, runsVars>>

\* The server has stopped accepting and its requests are over; Runs.close()
\* cancels what is going, then awaits it.
CloseRuns ==
  /\ phase = "up" /\ Quiet /\ phase' = "closing"
  /\ UNCHANGED <<boots, req, bill, payer, budgetVars, runsVars>>

\* Its task: CancelledError in the loop, whatever is on the wire.
RunCancelled(r) ==
  /\ phase = "closing" /\ RunOf(r) # {}
  /\ LoopEnds(r, "cancelled")

\* A process ends with all its memory, and its successor opens the budget.
NextProcess ==
  /\ boots < MaxBoots /\ boots' = boots + 1 /\ phase' = "up"
  /\ Restart
  /\ payer' = <<>> /\ runs' = <<>> /\ kept' = <<>>
  /\ table' = [k \in Keys |-> 0]
  /\ reader' = [r \in Requests |-> Runs!NoReader]

\* budget.close() has joined the queue, or waited five seconds for it.
StopsAndBoots ==
  /\ phase = "closing" /\ \A r \in Requests : RunOf(r) = {}
  /\ NextProcess
  /\ UNCHANGED <<req, bill>>

\* Killed: a request or a run that was not settled never will be.
Crashes ==
  /\ NextProcess
  /\ req' = [r \in Requests |->
       IF req[r].at = "idle" \/ (req[r].at = "done" /\ RunOf(r) = {}) THEN req[r]
       ELSE At("crashed")]
  /\ bill' = [r \in Requests |-> Over(bill[r])]

-----------------------------------------------------------------------------
HandlerStep(r) ==
  \/ BadBody(r) \/ AskJoins(r) \/ AskLaunches(r)
  \/ ResumeJoins(r) \/ ResumeMisses(r) \/ DirectStarts(r)

LoopStep(r) ==
  \/ Calls(r) \/ CallRefused(r) \/ CallFlaps(r) \/ CallLost(r)
  \/ ReadsTools(r) \/ SaysNothing(r) \/ Answers(r) \/ Fails(r)

Next ==
  \/ \E r \in Requests :
       \/ Arrives(r) \/ Refused(r) \/ HandlerStep(r)
       \/ LoopStep(r) \/ DirectLeaves(r)
       \/ ReaderAdvances(r) \/ ReaderLeaves(r) \/ RunCancelled(r)
  \/ Drains \/ MidnightPasses
  \/ CloseRuns \/ StopsAndBoots \/ Crashes

Spec == Init /\ [][Next]_vars

\* The event loop runs what is ready, and a loop has a deadline: while a loop or
\* a reader can go on, one of them does.  No fairness for clients, the provider,
\* midnight, the drain or the end of a process.
Progress(r) == LoopStep(r) \/ RunCancelled(r) \/ ReaderAdvances(r)
Fairness == WF_vars(\E r \in Requests : Progress(r))

FairSpec == Spec /\ Fairness

-----------------------------------------------------------------------------
TypeOK ==
  /\ phase \in {"up", "closing"} /\ boots \in 1..MaxBoots
  /\ req \in [Requests ->
       [at : {"idle", "reading", "loop", "following", "done", "crashed"},
        kind : Kinds \cup {"none"}, key : Keys \cup {"none"}]]
  /\ bill \in [Requests ->
       [day : Days, calls : 0..MaxCalls, again : BOOLEAN, wire : BOOLEAN,
        paid : BOOLEAN, was : BOOLEAN, made : BOOLEAN, flap : BOOLEAN,
        charged : 0..1, back : Nat]]
  /\ payer \in Seq(Requests) /\ Len(payer) = Len(runs)
  /\ BudgetTypeOK /\ Runs!RunsTypeOK

\* CapHolds and RowTellsTheBill are AskBudget's.

\* Every road out of an ask settles its bill once, by what its calls came to:
\* nothing is given back once a completion has come, or was under way when a
\* timeout, a hang-up or a cancel gave it up; a request that is over and whose
\* loop has ended is still charged only if there is such a completion; and no
\* request is given back more than it was charged.  A 5xx counts as no
\* completion here, which is what the code takes it for: FlapStaysPaid.
Settled(r) == req[r].at = "done" /\ RunOf(r) = {}
BillIsExact ==
  \A r \in Requests :
    /\ bill[r].back <= bill[r].charged
    /\ bill[r].back = 1 => ~bill[r].made
    /\ Settled(r) /\ bill[r].charged > bill[r].back => bill[r].made

\* Billing (llm.py:92-96): "A read timeout, a 5xx and a cancellation all stay
\* paid, because any of them can sit on top of a real generation."  The code
\* lowers the flag for a 5xx (llm.py:167-176).
FlapStaysPaid ==
  [][\A r \in Requests : bill[r].flap => bill'[r].back = 0]_vars

\* A question a visitor is already running is never run, and paid, again: a
\* run that is going is the one its key names (AskRuns).
RunningIsKept == Runs!RunningIsKept

\* No reader sleeps through the end of its run: every stream that follows one
\* returns with all of its events, unless its client or the process went.
EveryStreamEnds ==
  \A r \in Requests :
    Runs!Following(r) ~> \/ reader[r].at \in {"left", "none"}
                        \/ /\ reader[r].at = "finished"
                           /\ reader[r].pos = Runs!Events(reader[r].run)

\* What requests do to the budget is what AskBudget allows: they charge only
\* today, and give back only what is charged.
BudgetRefined == BudgetSpec
=============================================================================
