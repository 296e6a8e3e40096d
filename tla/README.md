# Vidtheque: models, checks and proofs

Vidtheque indexes videos into a searchable corpus.  An MCP server (Python,
`src/mcp/src/vidtheque_mcp/`) owns one SQLite database and a job queue; a GPU
worker (`src/worker/src/vidtheque_worker/`) runs the models; a web front end and
an Android app are clients.  This directory holds TLA+ models of the parts whose
correctness depends on interleavings, failures and restarts, TLC runs over small
instances, and TLAPS proofs for every instance.

Paths below are relative to `src/mcp/src/vidtheque_mcp/` unless they say otherwise.

## 1. Inventory

| Component | State | Operations | Hard behaviours | What makes it correct |
|---|---|---|---|---|
| Job queue and runner (`jobs/store.py`, `jobs/runner.py`) | rows of `jobs`, `job_items`; `_active`, the loop's position | claim, drive, fail/retry/defer, settle, cancel, sweep, start, stop | one loop, many callers; sweeps that must spare live claims; crash anywhere; a stop that cancels the loop at any await | the runner keeps its claim; no orphaned item; an ended job is complete; retries are bounded; every job ends |
| index-video (`tools/indexing.py`) | none of its own | sweep, look up, create the job, take over claims with `force_reindex` | reads before the transaction that uses them; a takeover of a claim somebody may be driving | one in-flight claim per video; a live claim is never taken over |
| Indexing pipeline (`pipeline/runner.py`, `pipeline/store.py`) | `videos.index_state`, `indexed_at`, the stage outputs | expand a container, land metadata, stages with checkpoints, finalize, settle the video | a video is known only after the fetch; failure, cancel or crash between stages; re-expansion | what was published stays published; a container expands once; a resumed stage repeats nothing and skips nothing |
| Database access (`db/connection.py`, `db/database.py`) | one writer lock, a read pool, deadlines | `Writer.run`, `ReadPool.run`, boot recovery | cancelled callers whose threads go on; a commit that fails | one transaction at a time; a connection is never in two threads, nor lost |
| GPU worker (`src/worker/.../lifecycle.py`) | a bounded queue, model slots, the GPU lease | submit, load, evict, reap, lease, drain | threads and hooks outlive a cancelled await; loads, inferences and hooks fail at any point; a stop anywhere | every request is answered; the lease is held while a model needs it and given back after; one thread at a time uses the card; stop returns and leaves nothing behind |
| Ask limits (`public/ratelimit.py`) | the day's counter, its cache, the queue of deltas and the row | charge, refund, drain, reload | midnight, restart, cancelled streams, a write that fails, a kill with deltas unwritten | the cap holds for a day whatever happens; row and queue are the bill |
| Ask loop (`public/ask.py`, `llm.py`) | `Billing` of each request | an ask as a run, a stream or a JSON answer; a resume | a client that leaves while a completion is on the wire | what may have been generated is paid for, what was not is given back, once |
| Ask runs (`public/runs.py`) | events of a run, the table, its readers | start, get, follow, sweep, close | readers that come late, leave early or come back | a question runs once; every reader gets every event, in order, and the end |
| Public console (`src/web/.../console/`) | the reducer's state, one controller, the URL | search, page, ask, resume, switch, Back and Forward | late replies, a router that lags, a phone that drops the stream | the screen answers the URL; nothing waits for nothing; a dropped stream is picked up |
| Dashboard reads (`src/web/src/lib/dashboard/resource.ts`, `kit/write.ts`) | a cache entry, its request and timer | mount, leave, poll, retry after a 429, reload after a write | pages that come back while their old read is out | the screen never goes back in time, and catches up |
| Follows (`follows/`) | due times, the seen ledger, daily budgets | tick, list, decide, enqueue, record | a check that dies half way through its decisions, which are recorded one by one, and is retried | a video is enqueued once; the day's budget holds |
| Profile and nightly (`profile/`) | topics, signals, the ledger of operations | claim the day, apply operations | restart in the middle of a night | one run per day |
| Verdicts, editions, brief, discover, push | rows per video, week and edition | judge, rank, render, notify | mostly sequential | - |
| Search, read models, dashboard, auth, HTTP export | read-only SQL, or single-transaction writes | - | little concurrency of their own | - |
| The rest of the web front end, Android, deployment, vendored agent skills | clients and scripts | - | presentation | - |

How they interact: every caller and the runner share the database through one
writer, so each write is one transaction in one total order.  Callers never call
the runner: they insert or mark rows and the loop finds them.  The one piece of
memory they share with the loop is `_active`, the jobs it is driving, which the
staleness sweeps read to spare its claims.  The pipeline raises `ItemFailed` or
`ItemCancelled` to the runner; it calls the worker over HTTP.  Inside the worker,
HTTP handlers put jobs in the queue and await futures; the consumer, the reaper and
`stop()` share the models and the lease under one lock.  A public ask passes the
limiter, which charges the day; its loop, a run or its own, settles the bill at its
end; the limiter's deltas reach their row through the database's writer.  The console
talks to search and ask over HTTP and to itself through the URL; the dashboard's pages
read through the pool, and write through the writer, what the runner writes too.

## 2. Plan

In the order in which they were built:

1. `JobLedger`, `JobQueue` with `MCJobQueue`: the queue, the runner, submission,
   the control of the pipeline, stop, crash and restart; `JobQueueProofs` and
   `JobQueueRowProofs`.
2. `GpuWorker` with `MCGpuWorker`: the worker's lifecycle; `GpuWorkerProofs`.
3. `AskBudget` and `AskRuns`, and `AskService` with `MCAskService`, which composes
   them; `AskBudgetProofs` and `AskServiceProofs`.
4. `ConsoleState` and `Console` with `MCConsole`: the public console; `ConsoleProofs`.
5. `DbAccess` and `Resource`, and `Dashboard` with `MCDashboard`, which composes them;
   `DbAccessProofs` and `DashboardProofs`.

What would add most after these: the stages of the pipeline (which outputs a resumed
or forced run keeps), and the follows with their daily budget over the abstract queue.
Every safety property and every action property the runs check is proved; liveness is
left to TLC.

## 3. Modules

`JobLedger` is the abstract specification: what a job handle promises.  A job is
opened once with its items, an item ends once and keeps its ending, items are
added only to an open job, and a job ends once, when all its items have, with a
result they add up to.  There is no process in it.

`JobQueue` is the detailed specification.

| Variables | Code |
|---|---|
| `jstate jreq jcancel jerr jwait` | `jobs.state`, `args`, `cancel_requested`, `error_code`, and whether `not_before` lies in the future |
| `istate iurl ivid itry imax ierr` | `job_items.state`, `source_url`, `video_id`, `attempts`, `max_attempts`, `error_code` |
| `vstate vindexed` | `videos.index_state` and whether `indexed_at` is set |
| `up stopping held` | the process, a `stop()` in progress and its snapshot of `_active` |
| `pc cur item ending active` | where `run_once`/`_drive`/`run_item` stand, the job and item in hand, the ending being carried out, `_active` |
| `tool toolHeld` | an index-video call between its sweep's two halves and its transaction |
| `loose` | history: the videos whose mark `indexing` its run let go of without settling it |
| `stops crashes` | counters of the bounds |

An action is one committed transaction, or one in-memory step between two awaits.
The correspondence, definition by definition, is the `map` of `PROJECT.json`.
The main lines: `RunnerSweep ClaimNext Activate` are `run_once` up to
`_active.add`; `CheckCancel CancelJob ClaimItem NoItemLeft` the loop of `_drive`;
`FeatureDisabled Expand FetchFails Land LandLocally StageFails Checkpoint Finalize
SettleVideo` are `run_item`; `Extend Defer Retire FinishItem` are `_fail_item` and the write that
ends an item; `Settle` is `_settle`; `ToolSweepRead ToolSweepWrite ToolRefused
IndexVideo` are an index-video call; `Boot StopBegin StopRelease Crash` the process.

Decisions that shape it:

* A heartbeat is not a variable.  A sweep may find quiet any running job outside
  its snapshot of `_active`, except claims made since the snapshot (`Young`): those
  are seconds old and staleness is minutes.
* What index-video read before its transaction is any subset of what exists when
  the transaction runs: rows are never removed in between, so that is what an
  earlier read can have returned.
* One index-video call is in flight at a time, and no request is served during a
  stop (the HTTP server is down by then).
* A stop or a crash may hit between any two actions.  An awaiter cancelled while
  its transaction is in a thread is the state after the action; one cancelled
  while it waits for the lock, the state before.
* Failure codes fall into the classes the code tells apart: a rate limit, another
  retryable code, one that is not retried, and an exception without a code.
* `Expand` stands for both places where a list is found, the listing stage and the probe
  of what looked like one video: each appends the entries and skips the item.
* A call whose every URL is current creates no job, unless it names one URL twice: the
  tool compares the length of a dictionary with that of the list.  The job is then all
  skipped items (`NamesTwice`).
* `loose` is history and guards nothing.  A video enters it where the code leaves the mark
  `indexing` behind: an exception without a code, which `run_item` does not settle, and a
  refused claim, whose run never learns the video it re-marked.  It leaves it with the mark.
* The log write between `_active.add` and the `try` block belongs to `Activate`;
  a database that fails a write is not modelled.
* Not modelled: follow-check and verdict jobs, the verdict that a finished index
  job enqueues, tags, job logs, `started_at`, what the stages write.

`MCJobQueue` gives the constants of the runs.

`GpuWorker` is the worker's `LifecycleManager` (`src/worker/src/vidtheque_worker/lifecycle.py`).

| Variables | Code |
|---|---|
| `queue fut runner job` | `_queue`, each caller's future, where `_run_queue`/`_execute` stand and the job taken |
| `lock pc victim why due` | who holds `_gpu_lock`, the await it stands at, the slot being unloaded and for what, the slots a sweep has still to visit |
| `loaded acquired tenant` | `Slot.loaded`, `hooks.acquired`, and whether the other user of the card runs (external) |
| `stray strayHooks` | the threads and hook processes whose awaiter was cancelled |
| `stopping expired` | `_stopping`; whether the grace period ran out under a thread |

An action runs from one await to the next.  Only the lock's holder touches models or
the lease, so its position is one variable, `pc`: `Enter Acquired Admit Loads
LoadRaises Infers DeviceFails` are `_execute`, `_ensure_loaded`, `_admit` and
`_job_raised`; `Unloads Released` are `_unload` and `_release_lease` for every caller
of theirs, and `why` says where `Return` goes back to; `Reap Sweep SweepEnds` are
`reap_idle` and the `_unload_all` of `stop()`; `Stop StopSweeps` are the rest of it.

Decisions that shape it:

* A future is absent, pending or done; what it holds when done is left out.
* A request is for one model, fixed by `Task`; two tasks served by one backend are one slot.
* NVML's answers are left open: an admission may proceed, evict any evictable model
  (the least recently used is one of them) or, when nothing is evictable, be refused.
* Any non-resident loaded models may be idle when the reaper looks.
* `backend.unload` does not raise: every shipped GPU backend swallows what
  `empty_cache` raises.
* A cancelled await leaves its thread running unless it had not started, and its hook
  running unless it was killed before it did anything; both are open at each stop.
  Cancelling before and after the awaited thread ended differ only in when the stray
  thread ends.
* A sweep visits its slots in any order; the code's is the order of the backends.

`MCGpuWorker` gives the constants of its runs.

`AskBudget` is the day's budget alone: `counter` (the limiter's), `cache` and `queue`
(the store's) and `row` (on disk).  `Charge`, `Refuse` and `Refund` are the limiter's
`check` and `refund`; `Drain` and `DrainFails` the task that writes; `Midnight` the
clock; `Restart` the end of a process, with what is queued, and the `open()` of the
next.  `admitted`, `lost` and `owed` are history: what the properties compare the row
with.  A day is a number.

`AskRuns` is `Run` and `Runs`: `Join`, `Launch` and `Miss` are `get` and `start` with
their sweep, `Emit` and `End` the drive of a run, `Advance` is `follow()` up to its next
yield, wait or return, with the tick it holds, and `Leave` a client that goes.

`AskService` is `POST /api/ask` and its resume over the two: it extends `AskBudget` and
takes `AskRuns` with `INSTANCE`.  An action is a handler's step between two awaits: `Arrives` the limiter and
the handler up to the body; `AskJoins AskLaunches ResumeJoins ResumeMisses DirectStarts
BadBody` what the body leads to; `Calls CallRefused CallFlaps CallLost ReadsTools
SaysNothing` the loop around `chat()`; `Answers Fails DirectLeaves RunCancelled` its ends, each with the
settling of the bill; `CloseRuns StopsAndBoots Crashes` the process.  `bill` is a
request's `Billing`, with the history of what was generated (`made`) and of what nobody
here can tell (`flap`).

* A call ends in one of four ways: it never reached a model (no connection, or a 4xx); it
  was answered with a 5xx, behind which a model may have run or not; it was lost (a
  timeout, a body that is not JSON); or it was answered.  The code lowers the flag in the
  first two alike.

* A request is charged to the one bucket that is modelled; the minute buckets are left
  out, and a request of the model is one they let through.
* A source returns from its last yield without awaiting, so the last event of a run and
  its end are one step.
* A body is read with no fairness: a client may never send it.
* A shutdown begins when no request is out (the server has drained them); the runs may
  still go on, and are cancelled.  A kill may come at any step.

`ConsoleState` is `state.ts` and `url.ts` as operators on a state, one per case of the
reducer.  `Console` is the rest: `seq` and `controller` are the box of the request in
flight, `flights` the requests that have not ended, `loc`, `routed` and `routes` the
browser's location, the query the router last rendered and the entries it has not,
`visible` and `online` the phone, `runs` the server.

* An action is one task of the page with the render and the effects it leads to; an
  aborted request rejects before the next task.
* A resume ends in one of five ways: it streams, it is told that the run is gone, it is
  aborted, it is refused or its request fails (`ResumeFails`; on a hidden or offline page
  the return tries again, on one in view nothing does), or the stream it got breaks.
* A URL is the snapshot it parses to, on a deployment with an ask; a page of results is
  the query it was fetched with.
* The router renders every entry in turn, late by any number of them.
* The server is external to this module: a question has no run, one that is going, or one
  that ended, which it may forget.

`DbAccess` is `ReadPool.run` and `Writer.run`, a call (`rphase`, `wphase`) and its thread
(`seen`, `wstep`) apart: a caller that is cancelled is `left` and its thread goes on.
The database is a version; a commit makes the next one.  `Resource` is a cache entry of
`resource.ts`.  `Dashboard` composes the two: a page that polls a job while it is at work
(even versions), its one control, the runner that commits beside it, and the network.

* Timers fire in any order, except that the `Retry-After` of a 429 is over before its
  retry fires.
* Which request object a page uses for its next read makes no difference, so the model
  chooses.
* Any read or write may be cancelled under its caller, which is more than the server does
  today (it lets a handler run on when the client has gone).
* A page is one subscriber; two components on one key, and eviction from the cache, are
  left out.

`MCAskService`, `MCConsole` and `MCDashboard` give the constants of their runs.

## 4. Runs

| Run | Instance | Question |
|---|---|---|
| `jobqueue_race` | 2 jobs, 1 video, plain or forced, rate limits and exceptions without a code, 1 stop, 1 crash | do the rows stay consistent, does the runner keep its claim, is an indexed video settled when its reindex ends, is the ledger implemented? |
| `jobqueue_expansion` | 1 job, a playlist of 2, alone or beside one of its videos, 1 stop, 1 crash, 2 kinds of failure | does a container expand once, does the cap hold, does a rate limit stay on the job? |
| `jobqueue_retries` | 1 job, 1 video, once by force or named twice, every kind of failure, 2 attempts, ceiling 4, 1 stop, 1 crash, fairness | is the retry budget kept, and does the job end? |
| `jobqueue_stop`, `jobqueue_indexing`, `jobqueue_failed` | as small as shows it | the queue's disagreements of section 7 |
| `gpu_worker` | 4 models (2 take the lease, 1 resident, 1 on the CPU), 5 requests, queue of 1, failing hooks, fairness | does the lease bracket the models, is the card used by one thread, is everybody answered, does stop return? |
| `gpu_worker_tenant` | 4 requests, hooks that do not fail | the worker's disagreement of section 7 |
| `ask_service` | 2 requests, 1 question, 1 ask a day, 2 days, 2 completions a loop, 2 processes, 1 failed write, fairness | do the cap and the bill hold, does a question run once, does every stream end, does the service use the budget as `AskBudget` allows? |
| `ask_service_flap` | 1 direct request, 1 day | the limiter's disagreement of section 7 |
| `console` | 1 word, 2 channels, 3 clicks or history moves, 1 mishap of phone or network, fairness | does the screen answer the URL, does anything wait for nothing, is a dropped stream picked up, when its resume does not fail in view? |
| `dashboard` | 2 requests over 1 connection, 2 writers, 2 commits, 1 mishap, fairness | are pool and writer exclusive, does the screen go back, does it catch up? |

The passing runs of `JobQueue` have 1.1 to 3.4 million distinct states, `ask_service` 0.3
million, `console` 1.3; each takes about three minutes or less on two workers.

Two jobs and one video are enough for every conflict over a claim: the partial
unique index and `inflight_claim` relate two items at a time, and a sweep treats
jobs independently.  Two kinds of request (plain, and forced at a higher priority)
give both orders of claiming.  The playlist of two with a cap of two lets an
expansion be cut, repeated, and repeated with another listing; naming one of its
videos beside it makes the duplicate.  Two attempts and a ceiling of four leave
room for an ordinary retry and two granted ones.
Naming a video twice makes two items of one job that turn out to be one video: the second
finds the claim taken or the video current.  The job that is all skipped (`NamesTwice`)
takes a second job after one that indexed the video, named twice: no run's instance has
that, and only the theorems speak of it.
For `IndexedStaysPublished` the second job of `jobqueue_race` reindexes what the first one
published, and ends by a failure with a code (the rate limit at its ceiling), one without,
a refused claim, a cancel, a stop or a crash; the code settles every code alike.
`EveryJobEnds` is asked of one job; of two that wait for each other's claim it is not.

Two models that take the lease make an eviction that must keep it, the resident one
an eviction that must give it back, and the CPU one a load that concerns neither.
Five requests, two of them for one model, let every model be loaded, evicted and
loaded again; a queue of one is full while another request runs.

In `ask_service`, a cap of one makes the second ask depend on the refund of the first,
and two days and two processes put a midnight and a restart between any charge and its
refund.  Two completions make a later call that must not give back an earlier one.  One
question means that at most one run is kept, so a sweep drops by age and never by
`MAX_KEPT`.  The clock passes midnight only while a request is out, and a write fails
once, on the first day, while a restart is still to come: elsewhere they change nothing that is compared.

In `console`, three acts are a request, a second one over it and a history move; one
word and the empty box are two questions, and two channels two queries of one word.
What is typed after the last click of an instance is not looked at.

In `dashboard`, two requests are a page's and the one it left behind; with one
connection they wait for each other.  Three versions are a job at work, ended, and at
work again, by the runner or by the page.

Each bound is a constant or a named guard: `MaxCalls`, `MaxBoots`, `MaxDay`, `MayFail`
and the guard of `MidnightPasses`; `MaxActs`, `MaxMishaps`; `MaxVersion`.

Fairness of `JobQueue` (`FairSpec`, for `EveryJobEnds` only): weak on the runner's steps, on a
request handler that was accepted, on boot and on the end of a stop, because one
event loop runs them and the service manager restarts the server; weak on the end
of each backoff, because the clock advances; strong on the runner's sweep finding a
given job quiet, because a claim nobody beats ages until it is found.  Nothing
makes a caller submit, cancel, stop or crash anything, and stops and crashes are
bounded: a server that is killed for ever ends no job.

Fairness of `GpuWorker`: weak on what the event loop resumes, on threads and hooks,
which return or time out, and on the reaper's finding every unused model idle (with
`IDLE_UNLOAD_SECONDS=0` there is no reaper, and `LeaseComesBack` is not promised);
strong on the consumer's entering the lock, because `asyncio.Lock` is first come first
served and the reaper sleeps between its turns.

Fairness of `AskService`: one weak fairness over the loops and the readers, because
`chat()` has a timeout, the loop a deadline, and the event loop runs what is ready; only
some step of some request is owed.  Nothing is assumed of clients, the provider's answers,
midnight, the drain or the end of a process.

Fairness of `Console`: weak on aborts, on the network as a whole, on the end of a run,
on the router, and on a phone's coming back and its network's return.  Nothing is assumed
of the visitor, nor that the server forgets.  Of `Dashboard`: one weak fairness over
everything that goes on without a hand (threads, answers, acknowledgements, timers), so
that only some step of it is owed.

The properties of `JobQueue`:

* `ClaimInHand`, `RunningItemHasRunningJob`, `TerminalJobIsComplete`,
  `OneInflightPerVideo`: the consistency of rows and memory, under every
  interleaving of the loop, two sweeps, callers and the process.
* `CancelNeverWaits`: a cancel that meets a deferral wins.
* `IndexedStaysPublished`: a video that was ever indexed is `ready` or `stale`, what a
  query reads, unless an item that is running works on it: a reindex that fails, is
  cancelled, stopped or killed settles it.  The exception is `loose`, the two ways out
  that settle nothing; what the code's words say of them is refuted by `jobqueue_indexing`
  and `jobqueue_failed`.
* `SupersedeSparesLive`: a forced reindex never ends an item that is being worked on.
* `AttemptsBounded`, `RetiredMeansSpent`, `RateLimitOutlived`: the retry budget is
  neither exceeded nor cut short.
* `ExpandedOnce`: no child twice, never more videos than `max_items`.
* `RateLimitSticky`: a job deferred by a rate limit still says so when it ends.
* `LedgerSpec`: JobQueue implements JobLedger.
* `EveryJobEnds`: liveness.

Those of `GpuWorker`:

* `CardIsOurs`: while a model that takes the lease is loaded, loading or running, the
  lease is held and the co-tenant is down, through evictions, failures and stops.
* `LeaseEndsWithModels`: outside the lock the lease is held exactly when such a model
  is loaded; after a stop it is not held and no model is left.
* `SerialGpu`: one thread at a time on the card, and no unload under it.
* `NobodyStranded`, `EveryCallerAnswered`, `StopEnds`: a stop resolves every future
  and returns; so does every job.
* `ResidentStays`: a resident model leaves only by its own failure or at shutdown.
* `LeaseComesBack`: when the callers stop coming, the lease is given back.

Those of `AskService`:

* `CapHolds`: over refunds, midnights and restarts, a day never has more asks on its bill
  than the cap, but for charges a kill or a failed write lost before they reached the row.
* `RowTellsTheBill`: with nothing lost, row and queue are the day's bill exactly.  The
  floors at zero are the hazard: a refund written before its charge would mint an ask.
* `BillIsExact`: no road out of an ask gives back an ask that bought a completion, an
  earlier one or one that was lost on the wire, keeps one that cannot have, or gives back
  twice.  A 5xx counts as no completion, as the code has it, although a model may have
  run behind it; the words of `Billing` on it are `FlapStaysPaid`, which `ask_service_flap`
  refutes.
* `RunningIsKept`: a run that is going is the one its question names, so nobody pays for it
  again and `close()` finds it.
* `EveryStreamEnds`: a reader that came at any moment gets the whole run and returns.
* `BudgetRefined`: the service's steps on the budget are steps of `AskBudget`, which is what
  `AskBudgetProofs` is about: it charges only today and gives back only what is charged.

Those of `Console`:

* `ScreenAnswersUrl`: once the router has caught up, mode, rows and every later page of them
  are the location's.
* `PaneAnswersUrl`: an answer is never under another question.
* `BusyIsBacked`: what shows as busy waits for a request that is out and may still land.
* `DroppedIsPickedUp`: while the server has the run, the pane does not stay interrupted,
  unless the resume it sent failed on a page in view: then nothing tries again (section 6).

Those of `Dashboard`:

* `OneThreadEach`: a connection is free or in one thread that has not ended, no query is
  stopped for another's sake, and only the lock's holder has a transaction.
* `DataNeverGoesBack`, `PageCatchesUp`: the screen.

Both `CardIsOurs` and the last part of `SerialGpu` exempt a shutdown whose grace
period ran out: the docstring of `stop()` accepts that race, and so does the model.

## 5. Proofs

`JobQueueProofs` proves the inductive invariant

    Inv == TypeOK /\ RowsInv /\ LoopInv /\ OneAtATime

None of the four properties of `RowsInv` is inductive alone.  That the running item
has a running job survives `Settle`, `Defer` and `CancelJob` only because the runner
has one item of its job running at a time (`OneAtATime`); that in turn needs the
loop's claim to stay its own (`LoopInv`: the job in hand is `running` and `_active` is
exactly that job while `_drive` is on it); and the claim stays its own because a
sweep spares `_active` and the young claims.  A cancel or a submission cannot take
it because both leave running jobs alone.  `Inv` was first checked with TLC on the
instance of `jobqueue_race`.

`JobQueueRowProofs` builds on `Inv`:

* `CancelIsPrompt` (`CancelNeverWaits`), through: a waiting job is queued or ended;
* `ReindexKeepsPublished` (`IndexedStaysPublished`), of every video at once, indexed
  before or not (`PublishedInv`): what reads `indexing` is held by a running item or is
  let go of.  That is not inductive as it stands: the item's ending is written steps after
  its video was settled.  So it also says that whenever the runner is outside the stages
  (`LetGo`) the video of the item in its hands has no mark left, or is let go of; and that
  no other item of the runner can be running (`OneAtATime`) is what makes a mark with
  nobody in the stages impossible (`PublishedEnd`);
* `SupersessionSparesLive` (`SupersedeSparesLive`), through: no ending in the
  runner's hands carries `E_SUPERSEDED`;
* `RetriesAreBounded` (`AttemptsBounded`), through a budget per item that counts the
  attempt a stop in progress is about to give back (`BudgetInv`);
* `RetiredAreSpent` and `RateLimitsAreWaitedOut` (`RetiredMeansSpent`,
  `RateLimitOutlived`).  Neither is inductive: the row is written steps after the
  decision.  `HandInv` says the same of the ending on its way to the row, and that an
  item `_fail_item` is about to judge for a rate limit was granted an attempt or is at
  the ceiling; and a row that is over is never claimed, so its two counters never move
  again (`RetiredRows`);
* `RateLimitIsSticky` (`RateLimitSticky`), step by step: only `_settle` ends a job as
  done or failed, and it reads the job's own code first;
* `ExpansionsAreOnce` (`ExpandedOnce`), inductive once `BudgetInv` says that a job that
  does not exist has no rows: the children an expansion adds are fresh and as many as
  the room that the count of URLs already listed leaves (`OnceExpand`, where the two
  counts are added up);
* `QueueIsALedger` (`LedgerSpec`): every step of the queue, seen through `Ended`, is a
  step of `JobLedger` or leaves it alone.  `Moves` says what a step does to one row
  and to one job, `MovesAreLedgerSteps` that such a step is the ledger's, and
  `LedgerMoves` that every action is such a step.  That no ended row moves needs the
  claim in hand (`LoopInv`): `FinishItem` and `Defer` write the row without asking for
  its state; that no row appears under a job that is over needs it too, for `Expand`.

All hold for every value of the constants that satisfies `QueueAssumption`, which only
types them and says that one expansion names finitely many entries.

`GpuWorkerProofs` proves, for every set of models and requests that satisfies
`WorkerAssumption`, the inductive invariant `IInv`: `Posts` says who stands where and
for what reason; `Lease` that the lease follows the models while the worker runs, where
the await decides what "follows" means (`Even`: held exactly when a lease-taking model
is loaded; `Covered`: held also for the model about to be loaded); `Spared` that no
sweep or eviction holds a resident model; `ReleasedEmpty` that the release hook,
awaited or stray, only ever runs for a card without such models; `Strays` what a stop
leaves behind and how far its sweep has come; `PendingIsHeld` that a pending future is
in the queue or in the consumer's hands.  `CardIsOurs` needs all of them: whether an
unload may give the lease back depends on why it was made, and after a stop on no
abandoned load being still under way when the sweep begins.  From it follow
`TypeCorrect`, `CardCovered`, `LeaseReturned`, `CardIsSerial`, `NobodyLeftWaiting` and
`ResidentsStay`.  `IInv` was first checked with TLC on the instance of `gpu_worker`.

`AskBudgetProofs` proves `CapHolds` and `RowTellsTheBill` of `AskBudget` for every cap and
number of days (`BudgetConstants`).  `CapHolds` is not inductive: a refund lowers the
counter that decides, and a restart rebuilds it from the row.  The invariant `BInv` says
that the counter is the cache of its day (`CounterIsCache`); that the cache knows every
charge of today that was not lost, and no day is charged before it comes (`Known`); that
what the row will be once the queue is written covers the bill but for what was lost
(`Owes`: what a restart reads back); and that with nothing lost the two are equal and no
prefix of the queue takes the row below zero (`Exact`: no write meets its floor).

`AskServiceProofs` proves that the service is such a budget: `ServiceIsABudget` is
`BudgetRefined`, and with it `CapHolds` and `RowTellsTheBill` hold of the service
(`ServiceKeepsTheCap`, `ServiceRowIsTheBill`).  A refund is a step of `AskBudget` only if
its day is charged for more than was given back, which no handler looks at; so the
invariant `SInv` ties the two together.  `Backed` says that the requests whose bill is
open and of one day are no more than the charges of that day, so a refund always finds
its own; `Post` that a run has one payer and that a request stands where what it waits
for is; `BillRight` and `OpenBill` what a bill says at each place, above all that
`paid` is up while a call is on the wire and what it goes back to keeps what an
earlier call bought (`was`).  From `BillRight` follows `BillsAreExact` (`BillIsExact`):
for a refusal, a loss and an answer, with a 5xx taken for a refusal;
from `RunsInv` (what is kept for replay is over, so a sweep drops no run that is going)
`RunningIsJoined` (`RunningIsKept`).

`ConsoleProofs` proves `ScreenIsTheUrls` (`ScreenAnswersUrl`), `PaneIsTheUrls`
(`PaneAnswersUrl`) and `NothingWaitsForNothing` (`BusyIsBacked`), for any words,
channels and numbers of clicks and mishaps (`BoundsAssumption`: the two bounds are
numbers).  The invariant `CInv` has a part for each thing that can come late.  `Sound`
is what holds of the reducer's state on its own: rows and pane are the committed
query's, and something is awaited exactly while a request may land.  `Lands` relates
that state to the one request nobody aborted: it is of the kind that is awaited and
asks what is committed, so its reply may be shown.  `WellSent` says how far a request
has come (a resume is shown only once it streams).  `RoutesLead` says that the entries
the router has yet to render lead from the one on screen to the location, each unlike
the one before: the restore effect runs only when the query changes, so this is why it
does look at the last entry, the location's.

`DbAccessProofs` proves `OneThreadEach` for any calls and connections, reads and writes
apart.  `DashboardProofs` proves that every step of `Dashboard` is one of `DbAccess` or
leaves it alone, and takes `OneThreadEach` over; and `ScreenNeverGoesBack`, through: an
answer on its way is a version that was committed, and one whose request is still the
page's is not older than the screen, because the request was sent after the screen landed
and a query sees the version of its time.  Their invariants were checked with TLC on the
instance of `dashboard` first.

`RetiredRows` and `HandInv`, `PublishedInv`, `SInv` and `CInv` were checked with TLC as
invariants of the instances of `jobqueue_retries`, of two jobs that reindex one video, `ask_service` and
`console`.

Only model-checked: liveness (`EveryJobEnds`, `EveryCallerAnswered`, `StopEnds`,
`LeaseComesBack`, `EveryStreamEnds`, `DroppedIsPickedUp`, `PageCatchesUp`), which is out
of the prover's reach, and the disagreements of section 7, which are
counterexamples.

## 6. Not modelled

The components with status `not_modelled` in `PROJECT.json` say why, one by one.  They
are of these kinds:

* The vendored agent skills (`src/tools/agent-skills/`): a third party's tool for coding
  agents.  No part of the service runs it, and it is most of the repository's JavaScript;
  the service's own logic is Python, TypeScript and a little Kotlin.
* Code whose correctness is in its data: ranking, prompts, rendering, extraction, search.
* Single-transaction writes with no concurrency of their own: authentication, the
  dashboard's other writes, verdicts, the profile's ledger.
* Follows and the stages of the pipeline, which have behaviour worth a model and have none
  yet (the pipeline's is a hazard of `PROJECT.json` without a property).

Left out of what is modelled: the minute token buckets, the framing of events, the MCP
tools' own limits; the cache's eviction and its second subscribers; and these behaviours,
seen while modelling, which the properties are worded around:

* `reload()` with a read already out only publishes (`resource.ts:256-263`), so a page can
  stay on what that older read brings after its own write, although `resource.ts:30` says
  "Ask again now".  `PageCatchesUp` counts a promise only when the reload sent a read.
* A poll that comes due in the grace after a page left finds no subscriber and is lost
  (`resource.ts:130`); a page that comes back within the grace then polls no more until it
  is reloaded.  `PageCatchesUp` exempts it (`lapsed`).
* A page that comes back within `FRESH_MS` shows the payload it has, which may be older
  than its own write of the visit before; a promise lasts one visit.
* A remount of fresh data schedules its poll inside a 429's `Retry-After`
  (`resource.ts:189-192`).
* A channel picked over an emptied box commits a URL without a query and leaves the rows
  (`Console.tsx:162-167`); `ScreenAnswersUrl` says nothing of that URL.
* A resume that is refused (429, 5xx) or whose request fails on a page in view with its
  network up returns false (`requests.ts:115`, `:160`), nobody looks at it, and nothing tries
  again before the next `visibilitychange` or `online`, although `Console.tsx:220` says that
  the run is picked up "once now in case it never hid".  The model has the step
  (`ResumeFails`), and `DroppedIsPickedUp` exempts a pane whose own resume failed so.
* `release_claims` gives back an item at any `attempts`, so after a stop the grant of one
  attempt may not keep a rate-limited item from being retired below the ceiling, although
  the log of `jobs/runner.py:453` says that it does; `AttemptsBounded` counts the stops, and
  `RateLimitOutlived` says what is left of the promise.
* `config.py:186` of the worker says a resident backend keeps `_any_lease_holder()` true
  forever, so that the release hook never fires while the worker is up.  The code leaves
  resident models out of the lease, gives it back beside them, and its tests agree.
* `ratelimit.py:202-205` puts the loss of a `kill -9` at one ask; it is one per delta still
  queued, which is what `lost` counts.

## 7. Where the code and its own words differ

* `jobs/runner.py:221` says a stop gives back "every claim this process was
  holding".  A stop between the commit of `claim_next` and `_active.add` leaves the
  job `running` until the next process sweeps it (`jobqueue_stop`).
* `pipeline/runner.py:255` says a failure "must not leave the row reading `indexing`
  forever".  A run whose claim on a new video is refused has already marked the row
  `indexing` and has no video id to settle it with (`jobqueue_indexing`).
  A video that was indexed before can be left so by the same refused re-mark.
* `pipeline/store.py:153` says "a failed reindex is `stale`", which keeps it searchable.
  An exception without a code passes `run_item`, which settles the video only for
  `ItemFailed` and `ItemCancelled`, and is retired by `_drive`: the reindexed video reads
  `indexing` with no job in flight, and no query reads it (`jobqueue_failed`).
* `src/deploy/.env.example:302` says the hooks let a box hand the card over "and get it
  back afterwards".  A stop that interrupts the acquire hook cancels the await, not the
  process: it can take the co-tenant down after the release hook brought it back
  (`gpu_worker_tenant`).
* `llm.py:94` says that a 5xx stays paid, because it can sit on top of a real generation.
  `chat` lowers the flag for every status of 400 and above, so an ask whose only call was
  answered with a 5xx gets its token back (`ask_service_flap`).
