----------------------------- MODULE Dashboard -----------------------------
(***************************************************************************)
(* A dashboard page that follows a job (web: lib/dashboard/resource.ts,    *)
(* kit/write.ts) over the database it reads and writes (mcp: db/           *)
(* connection.py): the page's reads, its one control, the job runner's     *)
(* commits, and the network between them.                                  *)
(*                                                                         *)
(* An even version of the database is a job at work, an odd one a job that *)
(* ended; the runner ends it, the page's control stops it or starts it     *)
(* again.                                                                  *)
(***************************************************************************)
EXTENDS DbAccess

CONSTANTS
  NoRead,        \* of a page with no request out
  Form, Runner,  \* the two writers: the page's control and the job runner
  MaxMishaps     \* bound: refusals, cancellations, budgets that run out and
                 \* writes that fail

ASSUME DashboardAssumption ==
  /\ NoRead \notin Reads
  /\ Form # Runner /\ Writes = {Form, Runner}
  /\ MaxMishaps \in Nat

VARIABLES
  data, failed, controller, timer, waiting, mounted, release, lapsed,
  net,       \* a read's answer on its way back
  control,   \* useWrite: "idle", "sending", or "orphan" when its page left
  ack,       \* the write's answer on its way back: "none", "done", "failed"
  promised,  \* history: the version the page's own write promised this visit
  mishaps    \* counted against the bound

entryVars == <<data, failed, controller, timer, waiting, mounted, release, lapsed>>
pageVars == <<net, control, ack, promised, mishaps>>
vars == <<dbVars, entryVars, pageVars>>

NoData == -1
TooMany == -3
Live(payload) == payload % 2 = 0

Page == INSTANCE Resource WITH Payloads <- Versions

-----------------------------------------------------------------------------
(* Reads *)

Mishap == mishaps < MaxMishaps /\ mishaps' = mishaps + 1

\* A request that is not in use: which one makes no difference.
Unused(r) == rphase[r] = "idle" /\ net[r] = NoAnswer /\ r # controller
ARead == CHOOSE r \in Reads : Unused(r)

\* The request a step of the page sent, if it sent one, reaches the pool or is
\* refused by the limiter.
Sends(r) ==
  IF controller' = controller \/ controller' = NoRead
  THEN UNCHANGED <<dbVars, net, mishaps>>
  ELSE \/ ReadCall(r) /\ UNCHANGED <<net, mishaps>>
       \/ /\ Mishap
          /\ net' = [net EXCEPT ![r] = TooMany]
          /\ UNCHANGED dbVars

\* A step of the page that may read.
MayRead(step(_)) ==
  /\ \E r \in Reads : Unused(r)
  /\ step(ARead)
  /\ Sends(ARead)
  /\ UNCHANGED <<control, ack, promised>>

MountPage == MayRead(Page!Mount)
TimerFires == MayRead(Page!TimerFires)
TabBack == MayRead(Page!TabBack)

\* The page leaves, and a control whose write is out with it.
LeavePage ==
  /\ Page!Unmount
  /\ control' = IF control = "sending" THEN "orphan" ELSE control
  /\ promised' = 0
  /\ UNCHANGED <<dbVars, net, ack, mishaps>>

PageAlone ==
  /\ Page!Released \/ Page!WaitOver
  /\ UNCHANGED <<dbVars, pageVars>>

\* A read's thread has ended: its answer sets out, if its caller is there.
ReadDone(r) ==
  /\ ReadReturns(r)
  /\ net' = IF rphase[r] = "running" THEN [net EXCEPT ![r] = seen[r]] ELSE net
  /\ UNCHANGED <<entryVars, control, ack, promised, mishaps>>

\* Its caller is cancelled, and the page hears of a failure.
ReadDropped(r) ==
  /\ ReadCancel(r)
  /\ Mishap
  /\ net' = [net EXCEPT ![r] = Interrupted]
  /\ UNCHANGED <<entryVars, control, ack, promised>>

\* Mutant: an answer lands whoever's it is.
LandsAnyway(r) ==
  /\ net[r] # NoAnswer
  /\ net' = [net EXCEPT ![r] = NoAnswer]
  /\ \/ net[r] \in Versions /\ data' = net[r]
     \/ net[r] \notin Versions /\ UNCHANGED data
  /\ controller' = IF r = controller THEN NoRead ELSE controller
  /\ UNCHANGED <<failed, timer, waiting, mounted, release, lapsed>>
  /\ UNCHANGED <<dbVars, control, ack, promised, mishaps>>

\* Mutant: a refusal is taken for an answer.
LandsUnchecked(r) ==
  /\ net[r] # NoAnswer
  /\ net' = [net EXCEPT ![r] = NoAnswer]
  /\ IF r = controller THEN Page!Answered(r, net[r]) ELSE UNCHANGED entryVars
  /\ UNCHANGED <<dbVars, control, ack, promised, mishaps>>

\* The answer lands, unless the page aborted its request.
Lands(r) ==
  /\ net[r] # NoAnswer
  /\ net' = [net EXCEPT ![r] = NoAnswer]
  /\ \/ r # controller /\ UNCHANGED entryVars
     \/ net[r] = TooMany /\ Page!RateLimited(r)
     \/ net[r] = Interrupted /\ Page!Refused(r)
     \/ net[r] \in Versions /\ Page!Answered(r, net[r])
  /\ UNCHANGED <<dbVars, control, ack, promised, mishaps>>

ReadThread ==
  /\ \E r \in Reads :
       \/ (TakeConn(r) \/ Query(r) \/ QueryStops(r)) /\ UNCHANGED mishaps
       \/ QueryOverdue(r) /\ Mishap
  /\ UNCHANGED <<entryVars, net, control, ack, promised>>

-----------------------------------------------------------------------------
(* Writes *)

\* useWrite's run(): ignored while a write is out.
Click ==
  /\ mounted /\ control = "idle" /\ version < MaxVersion
  /\ WriteCall(Form)
  /\ control' = "sending"
  /\ UNCHANGED <<entryVars, net, ack, promised, mishaps>>

\* The runner commits while the job is at work.
RunnerWrites ==
  /\ Live(version) /\ version < MaxVersion
  /\ WriteCall(Runner)
  /\ UNCHANGED <<entryVars, pageVars>>

\* The runner's write finds nothing to do when the job has ended by then; no
\* write goes past the bound.
Moves(w) == version < MaxVersion /\ (w = Form \/ Live(version))

WriteThread ==
  /\ \E w \in Writes :
       \/ (TakeLock(w) \/ Begin(w)) /\ UNCHANGED mishaps
       \/ Moves(w) /\ Commit(w) /\ UNCHANGED mishaps
       \/ Rollback(w) /\ IF Moves(w) THEN Mishap ELSE UNCHANGED mishaps
  /\ UNCHANGED <<entryVars, net, control, ack, promised>>

WriteDone(w) ==
  /\ WriteReturns(w)
  /\ ack' = IF w = Form /\ wphase[w] = "running"
            THEN IF wstep[w] = "committed" THEN "done" ELSE "failed"
            ELSE ack
  /\ UNCHANGED <<entryVars, net, control, promised, mishaps>>

WriteDropped(w) ==
  /\ WriteCancel(w)
  /\ Mishap
  /\ ack' = IF w = Form THEN "failed" ELSE ack
  /\ UNCHANGED <<entryVars, net, control, promised>>

\* The control hears of its write; a page that is still there reads again.
Acked ==
  /\ ack # "none"
  /\ ack' = "none"
  /\ control' = "idle"
  /\ IF ack = "done" /\ control = "sending"
     THEN /\ \E r \in Reads : Unused(r)
          /\ Page!Reload(ARead)
          /\ Sends(ARead)
          /\ promised' = IF controller' = controller THEN promised ELSE version
     ELSE UNCHANGED <<dbVars, entryVars, net, promised, mishaps>>

-----------------------------------------------------------------------------
Init ==
  /\ DbInit
  /\ Page!ResourceInit
  /\ net = [r \in Reads |-> NoAnswer]
  /\ control = "idle"
  /\ ack = "none"
  /\ promised = 0
  /\ mishaps = 0

Network == \E r \in Reads : Lands(r)

\* What the process does on its own.
Serve ==
  \/ ReadThread \/ WriteThread
  \/ \E r \in Reads : ReadDone(r)
  \/ \E w \in Writes : WriteDone(w)

Next ==
  \/ MountPage \/ LeavePage \/ PageAlone \/ TimerFires \/ TabBack
  \/ Click \/ RunnerWrites \/ Acked
  \/ Serve \/ Network
  \/ \E r \in Reads : ReadDropped(r)
  \/ \E w \in Writes : WriteDropped(w)

Spec == Init /\ [][Next]_vars

\* What goes on without anybody's hand: threads, answers, timers.  Only a step of
\* it is owed, whichever it is.
Progress == Serve \/ Network \/ Acked \/ PageAlone \/ TimerFires

FairSpec == Spec /\ WF_vars(Progress)

-----------------------------------------------------------------------------
PageTypeOK ==
  /\ data \in Versions \cup {NoData}
  /\ failed \in BOOLEAN /\ waiting \in BOOLEAN /\ mounted \in BOOLEAN
  /\ release \in BOOLEAN /\ lapsed \in BOOLEAN
  /\ controller \in Reads \cup {NoRead}
  /\ timer \in {"none", "poll", "retry"}
  /\ net \in [Reads -> Versions \cup {NoAnswer, Interrupted, TooMany}]
  /\ control \in {"idle", "sending", "orphan"}
  /\ ack \in {"none", "done", "failed"}
  /\ promised \in Versions
  /\ mishaps \in 0..MaxMishaps

\* Every variable is what its comment says it may be.
TypeOK == DbTypeOK /\ PageTypeOK

\* What is on screen never goes back in time: not when the read of a page that
\* left and came back lands after the next one.
DataNeverGoesBack == [][data' >= data]_vars

\* A page that shows a job at work does not stay on what it shows once more
\* was committed, and a page that reads again after its own write comes to show
\* that write: unless it leaves, is shown a failure, or lost its poll in the
\* grace.
PageCatchesUp ==
  /\ \A v \in {u \in 0..(MaxVersion - 1) : Live(u)} :
       (mounted /\ data = v /\ version > v)
         ~> (data # v \/ ~mounted \/ failed \/ lapsed)
  /\ \A v \in 1..MaxVersion :
       (mounted /\ promised = v) ~> (data >= v \/ ~mounted \/ failed)
=============================================================================
