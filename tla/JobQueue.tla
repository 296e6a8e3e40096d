------------------------------ MODULE JobQueue ------------------------------
(***************************************************************************)
(* The job queue of the MCP server: the rows of `jobs` and `job_items`,    *)
(* the state column of `videos`, the one PipelineRunner loop that drives   *)
(* them (jobs/runner.py), the callers that submit and cancel jobs          *)
(* (tools/indexing.py, jobs/store.py) and the process that is started,     *)
(* stopped and killed underneath.                                          *)
(*                                                                         *)
(* Every action is one committed transaction, or one in-memory step        *)
(* between two awaits.  A write that was waiting for the writer lock when  *)
(* its awaiter was cancelled never ran; one already in its thread commits  *)
(* (db/connection.py, Writer.run).  Those two outcomes are the states      *)
(* before and after the action, so stopping and crashing are enabled in    *)
(* both.                                                                   *)
(***************************************************************************)
EXTENDS Naturals, Sequences, FiniteSets

CONSTANTS
  Jobs,         \* job ids, in the order the rows are inserted
  MaxSeq,       \* bound: the largest job_items.seq
  Urls,         \* what an item names
  Containers,   \* the playlist and channel URLs among them, by look or by probe
  Videos,       \* rows the videos table can hold
  VideoOf,      \* the video each other URL resolves to
  Listing,      \* the entries a container can expand to
  Requests,     \* the index-video calls: [urls, force, priority]
  Failures,     \* how an item may fail in this instance
  MaxItems,     \* args.max_items, job-wide
  MaxAttempts,  \* job_items.max_attempts as the schema ships it
  Ceiling,      \* RATE_LIMIT_ATTEMPT_CEILING
  MaxStops,     \* bound: controlled shutdowns
  MaxCrashes,   \* bound: killed processes
  NoJob, NoVideo, NoUrl, NoRequest

Seqs == 0..MaxSeq
Items == Jobs \X Seqs
NoItem == <<NoJob, 0>>

Request == [urls: Seq(Urls), force: BOOLEAN, priority: Nat]

ASSUME QueueAssumption ==
  /\ Jobs \subseteq Nat /\ NoJob \notin Jobs
  /\ MaxSeq \in Nat /\ MaxItems \in Nat
  /\ MaxAttempts \in Nat \ {0} /\ Ceiling \in Nat
  /\ MaxStops \in Nat /\ MaxCrashes \in Nat
  /\ Containers \subseteq Urls /\ NoUrl \notin Urls
  /\ VideoOf \in [Urls \ Containers -> Videos] /\ NoVideo \notin Videos
  /\ Failures \subseteq {"E_RATE_LIMIT", "E_INTERNAL", "E_UNSUPPORTED_SOURCE",
                       "E_FEATURE_DISABLED", "exception"}
  /\ Listing \in [Containers -> SUBSET Urls]
  /\ \A c \in Containers : IsFiniteSet(Listing[c])
  /\ \A r \in Requests : r.urls \in Seq(Urls) /\ r.force \in BOOLEAN /\ r.priority \in Nat
  /\ NoRequest \notin Requests

VARIABLES
  \* jobs
  jstate, jreq, jcancel, jerr,
  jwait,        \* not_before lies in the future
  \* job_items
  istate, iurl, ivid, itry, imax, ierr,
  \* videos
  vstate,       \* videos.index_state, "absent" for no row
  vindexed,     \* videos.indexed_at is set
  loose,        \* history: the videos a run marked `indexing` and went away from
  \* the process
  up, pc, cur, item, ending,
  active,       \* PipelineRunner._active
  stopping, held,
  tool, toolHeld, \* an index-video call, and the _active it excluded
  stops, crashes

jobVars == <<jstate, jreq, jcancel, jerr, jwait>>
itemVars == <<istate, iurl, ivid, itry, imax, ierr>>
videoVars == <<vstate, vindexed, loose>>
runVars == <<pc, cur, item, ending, active>>
procVars == <<up, stopping, held, tool, toolHeld, stops, crashes>>
vars == <<jobVars, itemVars, videoVars, runVars, procVars>>

-----------------------------------------------------------------------------
(* Vocabulary *)

Terminal == {"done", "failed", "skipped", "cancelled"}
Inflight == {"queued", "running"}
ItemStates == {"absent"} \cup Inflight \cup Terminal

JobTerminal == {"done", "failed", "cancelled"}
JobStates == {"absent"} \cup Inflight \cup JobTerminal

VideoStates == {"absent", "pending", "indexing", "ready", "failed", "stale"}

\* E_INTERNAL stands for every retryable code but E_RATE_LIMIT, and
\* E_UNSUPPORTED_SOURCE for every code that is not retried.
SourceFailures == {"E_RATE_LIMIT", "E_INTERNAL", "E_UNSUPPORTED_SOURCE"}
Codes == SourceFailures \cup
  {"none", "E_INDEXING", "E_CRASHED", "E_SUPERSEDED", "E_EXPANDED",
   "E_DUPLICATE_ITEM", "E_ALREADY_INDEXED", "E_NOTHING_INDEXED", "E_FEATURE_DISABLED"}
Retryable(code) == code \in {"E_RATE_LIMIT", "E_INTERNAL"}

Ending == [state : Terminal, code : Codes]
End(state, code) == [state |-> state, code |-> code]
NoEnding == End("done", "none")

\* Where run_once, _drive and run_item stand.
Driving == {"check", "cancelling", "take", "work", "stages", "finalize",
            "unwind", "fail", "decide", "finish"}
InItem == {"work", "stages", "finalize", "unwind", "fail", "decide", "finish"}
PCs == {"off", "poll", "claim", "claimed", "settle"} \cup Driving

ItemsOf(j) == {i \in Items : i[1] = j /\ istate[i] # "absent"}

\* "state IN ('queued','running')", in _cancel_remaining, request_cancel and _settle
UnfinishedQueuedOnly(j) == {i \in ItemsOf(j) : istate[i] = "queued"}
Unfinished(j) == {i \in ItemsOf(j) : istate[i] \in Inflight}

HoldersOf(v) == {i \in Items : ivid[i] = v /\ istate[i] \in Inflight}

-----------------------------------------------------------------------------
(* Crash recovery: store.reclaim_stale, store.release_claims, _reset_video *)

(* heartbeat_at is not a variable: whether a running job has been quiet for *)
(* stale_after_s is chosen when a sweep asks.  Any of them may have been, a *)
(* claim in hand too (a blocked event loop), but for the claims made since  *)
(* the sweep took its snapshot of _active and the one whose commit _active  *)
(* is about to note: those are far younger than stale_after_s.              *)
Young(snapshot) == (active \ snapshot) \cup (IF pc = "claimed" THEN {cur} ELSE {})

StaleClaimsOfAll(exclude) == {j \in Jobs : jstate[j] = "running"}
StaleClaims(exclude) == {j \in Jobs \ exclude : jstate[j] = "running"}

InterruptedNone(S) == {}
Interrupted(S) == {i \in Items : i[1] \in S /\ istate[i] = "running"}

\* _reset_video on the video of every interrupted item
ResetVideos(cut) ==
  vstate' = [v \in Videos |->
    IF vstate[v] = "indexing" /\ \E i \in cut : ivid[i] = v
    THEN IF vindexed[v] THEN "stale" ELSE "pending"
    ELSE vstate[v]]

\* A mark that was written over is nobody's any more.
StillMarked == loose' = {v \in loose : vstate'[v] = "indexing"}

\* The jobs of S go back on the queue with their running items.
Requeue(S, spent) ==
  LET cut == Interrupted(S) IN
  /\ jstate' = [j \in Jobs |-> IF j \in S THEN "queued" ELSE jstate[j]]
  /\ istate' = [i \in Items |-> IF i \in spent THEN "failed"
                                ELSE IF i \in cut THEN "queued" ELSE istate[i]]
  /\ ierr' = [i \in Items |-> IF i \in spent THEN "E_CRASHED" ELSE ierr[i]]
  /\ ResetVideos(cut) /\ StillMarked
  /\ UNCHANGED <<jreq, jcancel, jerr, jwait, iurl, ivid, itry, imax, vindexed>>

SpentNever(i) == FALSE
SpentEarly(i) == itry[i] + 1 >= imax[i]
Spent(i) == itry[i] >= imax[i]

\* Boot, the runner and index-video sweep with the snapshot they each took.
ReclaimStale(snapshot, quiet) ==
  /\ quiet \in SUBSET (StaleClaims(snapshot) \ Young(snapshot))
  /\ Requeue(quiet, {i \in Interrupted(quiet) : Spent(i)})

ReleaseClaims(S) == Requeue({j \in S : jstate[j] = "running"}, {})

-----------------------------------------------------------------------------
(* index-video: sweep, then create the job in one transaction *)

ToolSweepRead ==
  /\ up /\ ~stopping /\ tool = "idle"
  /\ \E j \in Jobs : jstate[j] = "absent"
  /\ tool' = "sweeping" /\ toolHeld' = active
  /\ UNCHANGED <<jobVars, itemVars, videoVars, runVars, up, stopping, held, stops, crashes>>

ToolSweepWrite ==
  /\ tool = "sweeping"
  /\ \E quiet \in SUBSET Jobs : ReclaimStale(toolHeld, quiet)
  /\ tool' = "swept" /\ toolHeld' = {}
  /\ UNCHANGED <<runVars, up, stopping, held, stops, crashes>>

\* No job: every URL was current, or a claim stood in the way.
ToolRefused ==
  /\ tool = "swept"
  /\ tool' = "idle"
  /\ UNCHANGED <<jobVars, itemVars, videoVars, runVars, up, stopping, held, toolHeld,
                 stops, crashes>>

(* The row of position k.  `known` holds the videos _known read a row for, *)
(* `current` those _existing found ready: both were read before the        *)
(* transaction, so any video whose row exists may be missing from them.    *)
NewVideo(r, known, k) ==
  IF r.urls[k] \in Containers \/ VideoOf[r.urls[k]] \notin known
  THEN NoVideo ELSE VideoOf[r.urls[k]]

Skipped(r, known, current, k) == NewVideo(r, known, k) \in current

(* With nothing to queue there is no job, except that `existing` has one    *)
(* entry for a URL named twice: the call is longer, and the job all skips.  *)
NamesTwice(r) == \E k, m \in 1..Len(r.urls) : k # m /\ r.urls[k] = r.urls[m]

\* _create_job: force_reindex takes over a claim no runner is driving.
SupersedableAny(r, i) == r.force
Supersedable(r, i) == r.force /\ jstate[i[1]] # "running"

Submit(j, r, known, current) ==
  LET seqs == 0..(Len(r.urls) - 1)
      queued == {s \in seqs : ~Skipped(r, known, current, s + 1)}
      wanted(s) == NewVideo(r, known, s + 1)
      claims == {i \in Items : /\ istate[i] \in Inflight /\ ivid[i] # NoVideo
                               /\ \E s \in queued : ivid[i] = wanted(s)}
  IN
  /\ tool = "swept"
  /\ jstate[j] = "absent" /\ \A k \in Jobs : k < j => jstate[k] # "absent"
  /\ seqs \subseteq Seqs /\ (queued = {} => NamesTwice(r))
  /\ \A i \in claims : Supersedable(r, i)
  /\ \A s, t \in queued : s # t => wanted(s) # wanted(t) \/ wanted(s) = NoVideo
  /\ jstate' = [jstate EXCEPT ![j] = "queued"]
  /\ jreq' = [jreq EXCEPT ![j] = r]
  /\ istate' = [i \in Items |->
       IF i \in claims THEN "cancelled"
       ELSE IF i[1] = j /\ i[2] \in queued THEN "queued"
       ELSE IF i[1] = j /\ i[2] \in seqs THEN "skipped" ELSE istate[i]]
  /\ ierr' = [i \in Items |->
       IF i \in claims THEN "E_SUPERSEDED"
       ELSE IF i[1] = j /\ i[2] \in seqs \ queued THEN "E_ALREADY_INDEXED" ELSE ierr[i]]
  /\ iurl' = [i \in Items |-> IF i[1] = j /\ i[2] \in seqs THEN r.urls[i[2] + 1] ELSE iurl[i]]
  /\ ivid' = [i \in Items |-> IF i[1] = j /\ i[2] \in seqs THEN wanted(i[2]) ELSE ivid[i]]
  /\ tool' = "idle"
  /\ UNCHANGED <<jcancel, jerr, jwait, itry, imax, videoVars, runVars,
                 up, stopping, held, toolHeld, stops, crashes>>

IndexVideo ==
  \E j \in Jobs, r \in Requests :
    \E known \in SUBSET {v \in Videos : vstate[v] # "absent"} :
      \E current \in IF r.force THEN {{}} ELSE SUBSET {v \in known : vindexed[v]} :
        Submit(j, r, known, current)

-----------------------------------------------------------------------------
(* job-cancel: store.request_cancel *)

RequestCancel(j) ==
  /\ up /\ ~stopping
  /\ jstate[j] \in Inflight
  /\ jcancel' = [jcancel EXCEPT ![j] = TRUE]
  /\ IF jstate[j] = "queued"
     THEN /\ jstate' = [jstate EXCEPT ![j] = "cancelled"]
          /\ istate' = [i \in Items |-> IF i \in Unfinished(j) THEN "cancelled" ELSE istate[i]]
     ELSE /\ ~jcancel[j]
          /\ UNCHANGED <<jstate, istate>>
  /\ UNCHANGED <<jreq, jerr, jwait, iurl, ivid, itry, imax, ierr,
                 videoVars, runVars, procVars>>

-----------------------------------------------------------------------------
(* The runner: run_once and _drive *)

Goto(next) == pc' = next

\* reclaim_stale, awaited before every claim; nothing is active at this point
RunnerSweeps(quiet) ==
  /\ pc = "poll"
  /\ ReclaimStale(active, quiet)
  /\ Goto("claim")
  /\ UNCHANGED <<cur, item, ending, active, procVars>>

RunnerSweep == \E quiet \in SUBSET Jobs : RunnerSweeps(quiet)

RunnableUncancelled == {j \in Jobs : jstate[j] = "queued" /\ ~jwait[j] /\ ~jcancel[j]}
Runnable == {j \in Jobs : jstate[j] = "queued" /\ ~jwait[j]}

\* ORDER BY priority, id
Before(j, k) == \/ jreq[j].priority < jreq[k].priority
                \/ jreq[j].priority = jreq[k].priority /\ j <= k

ClaimNext ==
  /\ pc = "claim"
  /\ \E j \in Runnable :
       /\ \A k \in Runnable : Before(j, k)
       /\ jstate' = [jstate EXCEPT ![j] = "running"]
       /\ cur' = j
  /\ Goto("claimed")
  /\ UNCHANGED <<jreq, jcancel, jerr, jwait, itemVars, videoVars, item, ending, active, procVars>>

NothingToClaim ==
  /\ pc = "claim" /\ Runnable = {}
  /\ Goto("poll")
  /\ UNCHANGED <<jobVars, itemVars, videoVars, cur, item, ending, active, procVars>>

\* The awaited claim resumes: only now does _active know of the job.
Activate ==
  /\ pc = "claimed"
  /\ active' = active \cup {cur}
  /\ Goto("check")
  /\ UNCHANGED <<jobVars, itemVars, videoVars, cur, item, ending, procVars>>

CheckCancel ==
  /\ pc = "check"
  /\ Goto(IF jcancel[cur] THEN "cancelling" ELSE "take")
  /\ UNCHANGED <<jobVars, itemVars, videoVars, cur, item, ending, active, procVars>>

\* _drive returned: the finally block discards the job before it settles it.
LeaveDrive ==
  /\ Goto("settle")
  /\ active' = active \ {cur}
  /\ item' = NoItem /\ ending' = NoEnding
  /\ cur' = cur

CancelRemaining(j) ==
  /\ istate' = [i \in Items |-> IF i \in Unfinished(j) THEN "cancelled" ELSE istate[i]]
  /\ jstate' = [jstate EXCEPT ![j] = "cancelled"]
  /\ jerr' = [jerr EXCEPT ![j] = "none"]

CancelJob ==
  /\ pc = "cancelling"
  /\ CancelRemaining(cur)
  /\ LeaveDrive
  /\ UNCHANGED <<jreq, jcancel, jwait, iurl, ivid, itry, imax, ierr, videoVars, procVars>>

QueuedOf(j) == {i \in ItemsOf(j) : istate[i] = "queued"}

ClaimItem ==
  /\ pc = "take"
  /\ \E i \in QueuedOf(cur) :
       /\ \A k \in QueuedOf(cur) : i[2] <= k[2]
       /\ istate' = [istate EXCEPT ![i] = "running"]
       /\ itry' = [itry EXCEPT ![i] = @ + 1]
       /\ item' = i
  /\ Goto("work")
  /\ UNCHANGED <<jobVars, iurl, ivid, imax, ierr, videoVars, cur, ending, active, procVars>>

NoItemLeft ==
  /\ pc = "take" /\ QueuedOf(cur) = {}
  /\ LeaveDrive
  /\ UNCHANGED <<jobVars, itemVars, videoVars, procVars>>

-----------------------------------------------------------------------------
(* One item: IndexingPipeline.run_item *)

To(next, e) == Goto(next) /\ ending' = e /\ UNCHANGED <<cur, item, active>>

\* The source_urls the job already lists
SeenNothing(j) == {}
Seen(j) == {iurl[i] : i \in ItemsOf(j)}

\* What max_items leaves, counted over the children a job already lists
Room(j) ==
  LET taken == Cardinality(Seen(j) \ Containers)
  IN  IF taken < MaxItems THEN MaxItems - taken ELSE 0

(* append_items: the entries the job does not list yet, up to the room,     *)
(* written from `start`, the first free seq.                                *)
AppendItems(j, entries, start) ==
  LET fresh == entries \ Seen(j)
      added == IF Cardinality(fresh) < Room(j) THEN Cardinality(fresh) ELSE Room(j)
      kids == start..(start + added - 1)
  IN
  /\ \A s \in Seqs : s < start <=> istate[<<j, s>>] # "absent"
  /\ kids \subseteq Seqs
  /\ \E child \in [kids -> fresh] :
       /\ \A s, t \in kids : child[s] = child[t] => s = t
       /\ istate' = [i \in Items |-> IF i[1] = j /\ i[2] \in kids THEN "queued" ELSE istate[i]]
       /\ iurl' = [i \in Items |-> IF i[1] = j /\ i[2] \in kids THEN child[i[2]] ELSE iurl[i]]

\* _maybe_expand, and _stage_fetch where the URL did not look like a list but
\* the probe says so: the entries the source names now
Expand ==
  /\ pc = "work" /\ iurl[item] \in Containers
  /\ \E entries \in SUBSET Listing[iurl[item]], start \in 0..(MaxSeq + 1) :
       Cardinality(entries) <= MaxItems /\ AppendItems(cur, entries, start)
  /\ To("finish", End("skipped", "E_EXPANDED"))
  /\ UNCHANGED <<jobVars, ivid, itry, imax, ierr, videoVars, procVars>>

\* What the job asked for, this server does not index: skipped before any stage.
FeatureDisabled ==
  /\ pc = "work" /\ "E_FEATURE_DISABLED" \in Failures
  /\ To("finish", End("skipped", "E_FEATURE_DISABLED"))
  /\ UNCHANGED <<jobVars, itemVars, videoVars, procVars>>

\* The source refused before the item had a video of its own in this run.
FetchFails ==
  /\ pc = "work"
  /\ \E code \in Failures \cap SourceFailures : To("fail", End("failed", code))
  /\ UNCHANGED <<jobVars, itemVars, videoVars, procVars>>

Target == VideoOf[iurl[item]]
ClashesRunning == {i \in HoldersOf(Target) \ {item} : istate[i] = "running"}
Clashes == HoldersOf(Target) \ {item}

\* attach_video succeeded: the item holds its video.
Attach ==
  /\ Clashes = {}
  /\ ivid' = [ivid EXCEPT ![item] = Target]
  /\ vstate' = [vstate EXCEPT ![Target] = "indexing"] /\ loose' = loose \ {Target}
  /\ To("stages", NoEnding)

\* The partial unique index refused it: _claimed tells the two cases apart.
Refused ==
  /\ Clashes # {}
  /\ UNCHANGED ivid
  /\ IF \E i \in Clashes : i[1] = cur
     THEN To("finish", End("skipped", "E_DUPLICATE_ITEM"))
     ELSE To("fail", End("failed", "E_INDEXING"))

(* _land_metadata: the upsert writes `indexing` in the same transaction    *)
(* whether or not the claim is granted, and a refusal does not undo it.    *)
Land ==
  /\ pc = "work" /\ iurl[item] \notin Containers
  /\ \/ Attach
     \/ /\ Refused
        /\ vstate' = [vstate EXCEPT ![Target] = "indexing"] /\ loose' = loose \cup {Target}
  /\ UNCHANGED <<jobVars, istate, iurl, itry, imax, ierr, vindexed, procVars>>

\* _claim_indexed: nothing to fetch, so no upsert
LandLocally ==
  /\ pc = "work" /\ iurl[item] \notin Containers
  /\ ~jreq[cur].force /\ vstate[Target] # "absent"
  /\ \/ Attach
     \/ Refused /\ UNCHANGED <<vstate, loose>>
  /\ UNCHANGED <<jobVars, istate, iurl, itry, imax, ierr, vindexed, procVars>>

(* The stages themselves: a typed failure unwinds the video first, any     *)
(* other exception goes to _drive's own handler and leaves it alone.       *)
StageFails ==
  /\ pc = "stages"
  /\ \/ /\ \E code \in Failures \cap SourceFailures : To("unwind", End("failed", code))
        /\ UNCHANGED loose
     \/ /\ "exception" \in Failures /\ To("fail", End("failed", "E_INTERNAL"))
        /\ loose' = loose \cup ({ivid[item]} \cap Videos)
  /\ UNCHANGED <<jobVars, itemVars, vstate, vindexed, procVars>>

\* _checkpoint; the last one passed leads to _finalize
Checkpoint ==
  /\ pc = "stages"
  /\ IF jcancel[cur] THEN To("unwind", End("cancelled", "none"))
                     ELSE To("finalize", NoEnding)
  /\ UNCHANGED <<jobVars, itemVars, videoVars, procVars>>

\* mark_failed
FailedVideo(v) == IF vindexed[v] THEN "stale" ELSE "failed"

Finalize ==
  /\ pc = "finalize"
  /\ \/ /\ vstate' = [vstate EXCEPT ![ivid[item]] = "ready"]
        /\ vindexed' = [vindexed EXCEPT ![ivid[item]] = TRUE]
     \/ /\ vstate' = [vstate EXCEPT ![ivid[item]] = FailedVideo(ivid[item])]
        /\ UNCHANGED vindexed
  /\ loose' = loose \ {ivid[item]}
  /\ To("finish", End("done", "none"))
  /\ UNCHANGED <<jobVars, itemVars, procVars>>

\* _settle_video, "failed" or "interrupted"
UnwoundNever(v) == vstate[v]
Unwound(v) == IF ending.state = "failed" THEN FailedVideo(v)
              ELSE IF vindexed[v] THEN "stale" ELSE "pending"

SettleVideo ==
  /\ pc = "unwind"
  /\ vstate' = [vstate EXCEPT ![ivid[item]] = Unwound(ivid[item])]
  /\ loose' = loose \ {ivid[item]}
  /\ To(IF ending.state = "failed" THEN "fail" ELSE "finish", ending)
  /\ UNCHANGED <<jobVars, itemVars, vindexed, procVars>>

-----------------------------------------------------------------------------
(* _fail_item: extend, then defer, cancel or retire *)

GrantDueLate == ending.code = "E_RATE_LIMIT" /\ itry[item] > imax[item] /\ imax[item] < Ceiling
GrantDue == ending.code = "E_RATE_LIMIT" /\ itry[item] >= imax[item] /\ imax[item] < Ceiling

\* _extend_for_rate_limit
Extend ==
  /\ pc = "fail"
  /\ IF GrantDue
     THEN imax' = [imax EXCEPT ![item] = @ + 1]
     ELSE UNCHANGED imax
  /\ To("decide", ending)
  /\ UNCHANGED <<jobVars, istate, iurl, ivid, itry, ierr, videoVars, procVars>>

MayRetry == Retryable(ending.code) /\ itry[item] < imax[item]

\* defer_unless_cancelled: one transaction with the cancel check
CancelMissed(j) == FALSE
CancelSeen(j) == jcancel[j]

Defer ==
  /\ pc = "decide" /\ MayRetry
  /\ IF CancelSeen(cur)
     THEN /\ CancelRemaining(cur)
          /\ UNCHANGED jwait
     ELSE /\ istate' = [istate EXCEPT ![item] = "queued"]
          /\ jstate' = [jstate EXCEPT ![cur] = "queued"]
          /\ jwait' = [jwait EXCEPT ![cur] = TRUE]
          /\ jerr' = [jerr EXCEPT ![cur] =
                        IF ending.code = "E_RATE_LIMIT" THEN "E_RATE_LIMIT" ELSE @]
  /\ LeaveDrive
  /\ UNCHANGED <<jreq, jcancel, iurl, ivid, itry, imax, ierr, videoVars, procVars>>

Retire ==
  /\ pc = "decide" /\ ~MayRetry
  /\ To("finish", ending)
  /\ UNCHANGED <<jobVars, itemVars, videoVars, procVars>>

\* store.finish_item, then the next turn of _drive
FinishItem ==
  /\ pc = "finish"
  /\ istate' = [istate EXCEPT ![item] = ending.state]
  /\ ierr' = [ierr EXCEPT ![item] = ending.code]
  /\ Goto("check") /\ item' = NoItem /\ ending' = NoEnding
  /\ UNCHANGED <<jobVars, iurl, ivid, itry, imax, videoVars, cur, active, procVars>>

-----------------------------------------------------------------------------
(* _settle *)

InState(j, state) == {i \in ItemsOf(j) : istate[i] = state}

\* _job_error, as the set of its one answer
JobErrorForgetful(j) == {ierr[i] : i \in InState(j, "failed")} \cup
                        (IF InState(j, "failed") = {} THEN {"none"} ELSE {})
JobError(j) ==
  LET failed == InState(j, "failed") IN
  IF jerr[j] = "E_RATE_LIMIT" \/ \E i \in failed : ierr[i] = "E_RATE_LIMIT"
  THEN {"E_RATE_LIMIT"}
  ELSE IF failed = {} THEN {"none"}
  ELSE {ierr[i] : i \in {k \in failed : \A m \in failed : k[2] <= m[2]}}

JobResultOfSkips(j) == IF InState(j, "done") = {}
                      THEN IF InState(j, "failed") = {} THEN "skipped" ELSE "failed"
                      ELSE "done"
JobResult(j) == IF InState(j, "done") = {} /\ InState(j, "failed") # {} THEN "failed" ELSE "done"

Productive(j) == InState(j, "done") \cup InState(j, "failed") # {}

SettlesAnyState(j) == Unfinished(j) = {}
Settles(j) == jstate[j] \in Inflight /\ Unfinished(j) = {}

Settle ==
  /\ pc = "settle"
  /\ IF Settles(cur)
     THEN /\ jstate' = [jstate EXCEPT ![cur] = JobResult(cur)]
          /\ \E code \in IF Productive(cur) THEN JobError(cur) ELSE {"E_NOTHING_INDEXED"} :
               jerr' = [jerr EXCEPT ![cur] = code]
     ELSE UNCHANGED <<jstate, jerr>>
  /\ Goto(IF stopping THEN "off" ELSE "poll")
  /\ cur' = NoJob
  /\ UNCHANGED <<jreq, jcancel, jwait, itemVars, videoVars, item, ending, active, procVars>>

-----------------------------------------------------------------------------
(* The process *)

\* Database.open's _recover_crashed_jobs and PipelineRunner.start
Boot ==
  /\ ~up
  /\ \E quiet \in SUBSET Jobs : ReclaimStale({}, quiet)
  /\ up' = TRUE /\ Goto("poll")
  /\ UNCHANGED <<cur, item, ending, active, stopping, held, tool, toolHeld, stops, crashes>>

(* stop(): snapshot _active, cancel the task.  Inside _drive the finally    *)
(* block still settles; before _active.add, and in the settling write       *)
(* itself, nothing is left to run.  The server takes no request by then.    *)
StopBegin ==
  /\ up /\ ~stopping /\ tool = "idle" /\ stops < MaxStops
  /\ stopping' = TRUE /\ held' = active /\ stops' = stops + 1
  /\ IF pc \in Driving
     THEN LeaveDrive
     ELSE /\ Goto("off") /\ cur' = NoJob
          /\ UNCHANGED <<item, ending, active>>
  /\ UNCHANGED <<jobVars, itemVars, videoVars, up, tool, toolHeld, crashes>>

StopRelease ==
  /\ stopping /\ pc = "off"
  /\ ReleaseClaims(held)
  /\ up' = FALSE /\ stopping' = FALSE /\ held' = {}
  /\ UNCHANGED <<runVars, tool, toolHeld, stops, crashes>>

\* Killed: everything in memory is gone.
Crash ==
  /\ up /\ crashes < MaxCrashes
  /\ crashes' = crashes + 1
  /\ up' = FALSE /\ stopping' = FALSE /\ held' = {} /\ tool' = "idle" /\ toolHeld' = {}
  /\ Goto("off") /\ cur' = NoJob /\ item' = NoItem /\ ending' = NoEnding /\ active' = {}
  /\ UNCHANGED <<jobVars, itemVars, videoVars, stops>>

-----------------------------------------------------------------------------
(* The clock *)

Expire(j) ==
  /\ jwait[j]
  /\ jwait' = [jwait EXCEPT ![j] = FALSE]
  /\ UNCHANGED <<jstate, jreq, jcancel, jerr, itemVars, videoVars, runVars, procVars>>

-----------------------------------------------------------------------------

Init ==
  /\ jstate = [j \in Jobs |-> "absent"]
  /\ jreq = [j \in Jobs |-> NoRequest]
  /\ jcancel = [j \in Jobs |-> FALSE]
  /\ jerr = [j \in Jobs |-> "none"]
  /\ jwait = [j \in Jobs |-> FALSE]
  /\ istate = [i \in Items |-> "absent"]
  /\ iurl = [i \in Items |-> NoUrl]
  /\ ivid = [i \in Items |-> NoVideo]
  /\ itry = [i \in Items |-> 0]
  /\ imax = [i \in Items |-> MaxAttempts]
  /\ ierr = [i \in Items |-> "none"]
  /\ vstate = [v \in Videos |-> "absent"]
  /\ vindexed = [v \in Videos |-> FALSE] /\ loose = {}
  /\ up = FALSE /\ pc = "off" /\ cur = NoJob /\ item = NoItem /\ ending = NoEnding
  /\ active = {} /\ stopping = FALSE /\ held = {}
  /\ tool = "idle" /\ toolHeld = {} /\ stops = 0 /\ crashes = 0

\* What the runner does next; at most one of these is enabled at a time but
\* for the choices the outside world makes for it.
RunItem == FeatureDisabled \/ Expand \/ FetchFails \/ Land \/ LandLocally \/ StageFails
           \/ Checkpoint \/ Finalize \/ SettleVideo \/ Extend \/ Defer \/ Retire \/ FinishItem
RunnerStep == RunnerSweep \/ ClaimNext \/ NothingToClaim \/ Activate \/ CheckCancel
              \/ CancelJob \/ ClaimItem \/ NoItemLeft \/ RunItem \/ Settle

Next ==
  \/ ToolSweepRead \/ ToolSweepWrite \/ ToolRefused \/ IndexVideo
  \/ \E j \in Jobs : RequestCancel(j) \/ Expire(j)
  \/ RunnerStep
  \/ Boot \/ StopBegin \/ StopRelease \/ Crash

Spec == Init /\ [][Next]_vars
-----------------------------------------------------------------------------
(* Fairness: the event loop keeps running the loop's task and every request *)
(* handler it accepted, backoffs and heartbeats age with the clock, and a   *)
(* server that went down is started again.  Nothing makes a caller submit,  *)
(* cancel, stop or crash.                                                   *)

Fairness ==
  /\ WF_vars(RunnerStep) /\ WF_vars(Boot) /\ WF_vars(StopRelease)
  /\ WF_vars(ToolSweepWrite) /\ WF_vars(ToolRefused \/ IndexVideo)
  /\ \A j \in Jobs : WF_vars(Expire(j))
  /\ \A j \in Jobs : SF_vars(\E quiet \in SUBSET Jobs : j \in quiet /\ RunnerSweeps(quiet))

FairSpec == Spec /\ Fairness

-----------------------------------------------------------------------------
(* Properties *)

RowsTypeOK ==
  /\ jstate \in [Jobs -> JobStates]
  /\ jreq \in [Jobs -> Requests \cup {NoRequest}]
  /\ jcancel \in [Jobs -> BOOLEAN] /\ jwait \in [Jobs -> BOOLEAN]
  /\ jerr \in [Jobs -> Codes]
  /\ istate \in [Items -> ItemStates]
  /\ iurl \in [Items -> Urls \cup {NoUrl}]
  /\ ivid \in [Items -> Videos \cup {NoVideo}]
  /\ itry \in [Items -> Nat] /\ imax \in [Items -> Nat]
  /\ ierr \in [Items -> Codes]
  /\ vstate \in [Videos -> VideoStates] /\ vindexed \in [Videos -> BOOLEAN]
  /\ loose \in SUBSET Videos

ProcessTypeOK ==
  /\ up \in BOOLEAN /\ pc \in PCs /\ cur \in Jobs \cup {NoJob}
  /\ item \in Items \cup {NoItem} /\ ending \in Ending
  /\ active \in SUBSET Jobs /\ stopping \in BOOLEAN /\ held \in SUBSET Jobs
  /\ tool \in {"idle", "sweeping", "swept"} /\ toolHeld \in SUBSET Jobs
  /\ stops \in 0..MaxStops /\ crashes \in 0..MaxCrashes

\* The type invariant of the rows and of the runner's local state.
TypeOK == RowsTypeOK /\ ProcessTypeOK

(* While _drive runs, no sweep, no cancel and no submission takes its job   *)
(* or the item in its hands away: the rows still say `running`, and the     *)
(* job is in _active (runner.py: "must never reclaim its own work").        *)
ClaimInHand ==
  /\ pc \in Driving => jstate[cur] = "running" /\ cur \in active
  /\ pc \in InItem => item[1] = cur /\ istate[item] = "running"

(* A `running` item is always under a `running` job, whoever crashed,       *)
(* stopped, cancelled or reclaimed: otherwise no sweep would ever find it.  *)
RunningItemHasRunningJob ==
  \A i \in Items : istate[i] = "running" => jstate[i[1]] = "running"

(* A job that ended has no item left in flight: such an item would hold its *)
(* video through the one-inflight index with nobody to finish it.           *)
TerminalJobIsComplete ==
  \A j \in Jobs : jstate[j] \in JobTerminal => (\A i \in Items : i[1] = j => istate[i] \in Terminal \cup {"absent"})

\* The partial unique index job_items_one_inflight, across submission, late
\* attachment, retries and supersession.
OneInflightPerVideo ==
  \A i, k \in Items :
    /\ istate[i] \in Inflight /\ istate[k] \in Inflight
    /\ ivid[i] = ivid[k] /\ ivid[i] # NoVideo
    => i = k

(* No job sits out a backoff it was asked to give up (store.request_cancel, *)
(* runner.py defer_unless_cancelled).                                       *)
CancelNeverWaits ==
  \A j \in Jobs : ~(jstate[j] = "queued" /\ jwait[j] /\ jcancel[j])

(* The retry budget survives crashes and retries: an item that keeps        *)
(* killing the process retires (store.reclaim_stale), nothing but a stop    *)
(* gives an attempt beyond the allowance, and the allowance never passes    *)
(* the rate-limit ceiling.                                                  *)
AttemptsBounded ==
  \A i \in Items :
    /\ itry[i] <= imax[i] + stops
    /\ imax[i] <= MaxAttempts \/ imax[i] <= Ceiling

\* ... and an item retired for a retryable reason has used its allowance.
RetiredMeansSpent ==
  \A i \in Items :
    istate[i] = "failed" /\ ierr[i] \in {"E_INTERNAL", "E_CRASHED"} => itry[i] >= imax[i]

(* A rate limit retires an item only at the ceiling, as long as no stop has *)
(* handed out an attempt beyond the allowance (_extend_for_rate_limit).     *)
RateLimitOutlived ==
  stops = 0 => \A i \in Items :
    istate[i] = "failed" /\ ierr[i] = "E_RATE_LIMIT" => imax[i] >= Ceiling

(* A video that was ever indexed stays in what a query reads               *)
(* (QUERYABLE_INDEX_STATES, `ready` and `stale`) but while an item works on *)
(* it: however the reindex ends, typed failure, cancel, stop or kill, it is *)
(* settled (runner.py _settle_video, store.py mark_failed and _reset_video).*)
(* `loose` are the two ways out that settle nothing: an untyped exception   *)
(* and a refused claim that re-marked the row (see NoVideoLeftIndexing and  *)
(* FailedReindexIsStale); only their next run or sweep takes the mark away. *)
IndexedStaysPublished ==
  \A v \in Videos : vindexed[v] =>
    \/ vstate[v] \in {"ready", "stale"}
    \/ /\ vstate[v] = "indexing"
       /\ v \in loose \/ \E i \in HoldersOf(v) : istate[i] = "running"

(* Re-expanding a container after a crash between append_items and the      *)
(* item's ending adds nothing twice, and a job never lists more videos than *)
(* max_items (pipeline/store.py append_items).                              *)
ExpandedOnce ==
  \A j \in Jobs : jstate[j] # "absent" =>
    /\ \A i, k \in ItemsOf(j) :
         iurl[i] = iurl[k] /\ i # k => i[2] < Len(jreq[j].urls) /\ k[2] < Len(jreq[j].urls)
    /\ \/ Cardinality({iurl[i] : i \in ItemsOf(j)} \ Containers) <= MaxItems
       \/ Cardinality(ItemsOf(j)) <= Len(jreq[j].urls)

(* A force_reindex supersedes only claims nobody is driving: an item that   *)
(* is being worked on is never ended under the worker (_create_job).        *)
SupersedeSparesLive ==
  [][\A i \in Items : istate[i] = "running" => ierr'[i] # "E_SUPERSEDED" \/ ierr[i] = ierr'[i]]_vars

(* Once deferred for a rate limit, a job that ends with anything done or    *)
(* failed still says so (_job_error: the code survives a sibling's success, *)
(* a later failure of another kind, a crash and a restart).                 *)
RateLimitSticky ==
  [][\A j \in Jobs :
       /\ jerr[j] = "E_RATE_LIMIT"
       /\ jstate[j] \notin JobTerminal /\ jstate'[j] \in {"done", "failed"}
       /\ Productive(j)
       => jerr'[j] = "E_RATE_LIMIT"]_vars

\* The queue implements the ledger a job handle stands for.
Ended(state, ends) == IF state = "absent" THEN "none" ELSE IF state \in ends THEN state ELSE "open"
Ledger == INSTANCE JobLedger WITH
  Jobs <- Jobs, Items <- Items, Owner <- [i \in Items |-> i[1]],
  job <- [j \in Jobs |-> Ended(jstate[j], JobTerminal)],
  item <- [i \in Items |-> Ended(istate[i], Terminal)]
LedgerSpec == Ledger!Spec

(* Every job ends: no crash, stop, backoff, cancel or stale claim leaves it *)
(* queued or running for ever.                                              *)
EveryJobEnds ==
  \A j \in Jobs : jstate[j] = "queued" ~> jstate[j] \in JobTerminal

-----------------------------------------------------------------------------
(* What the code's own comments claim and its steps do not deliver *)

\* runner.py, stop(): "give back every claim this process was holding"
StopReleasesEveryClaim ==
  stops > 0 /\ crashes = 0 /\ ~up => \A j \in Jobs : jstate[j] # "running"

\* pipeline/runner.py, run_item: "must not leave the row reading `indexing` forever"
NoVideoLeftIndexing ==
  (\A j \in Jobs : jstate[j] \notin Inflight) => \A v \in Videos : vstate[v] # "indexing"

\* pipeline/store.py, mark_failed: "a failed reindex is `stale`"
FailedReindexIsStale ==
  (\A j \in Jobs : jstate[j] \notin Inflight) =>
    \A v \in Videos : vindexed[v] => vstate[v] \in {"ready", "stale"}
=============================================================================
