--------------------------- MODULE JobQueueProofs ---------------------------
(***************************************************************************)
(* Theorems about JobQueue for every set of jobs, URLs and videos and for  *)
(* every bound: the runner keeps its claims, a running item is under a     *)
(* running job, an ended job is complete, and one video is held once.      *)
(***************************************************************************)
EXTENDS JobQueue, TLAPS

\* Rows nobody wrote yet hold no video, and every row written names a URL.
RowsNamed ==
  \A i \in Items :
    /\ istate[i] # "absent" => iurl[i] \in Urls
    /\ istate[i] = "absent" => ivid[i] = NoVideo

RowsInv ==
  /\ RowsNamed
  /\ RunningItemHasRunningJob
  /\ TerminalJobIsComplete
  /\ OneInflightPerVideo

Waiting == {"claimed", "check", "cancelling", "take"}

\* Where the loop stands tells which claim it holds, and that _active knows.
LoopInv ==
  /\ active = IF pc \in Driving THEN {cur} ELSE {}
  /\ ~up => pc = "off"
  /\ pc \in Driving \cup {"claimed", "settle"} => cur \in Jobs
  /\ pc \in Driving \cup {"claimed"} => jstate[cur] = "running"
  /\ pc \in InItem => item \in Items /\ item[1] = cur /\ istate[item] = "running"

\* The runner runs one item of its job at a time.
OneAtATime ==
  \A i \in Items :
    i[1] = cur /\ istate[i] = "running" =>
      /\ pc \notin Waiting
      /\ pc \in InItem => i = item

Inv == TypeOK /\ RowsInv /\ LoopInv /\ OneAtATime

-----------------------------------------------------------------------------
\* Any ending the loop writes is a state and a code of item rows.
LEMMA EndType ==
  ASSUME NEW state \in Terminal, NEW code \in Codes
  PROVE  End(state, code) \in Ending
  BY DEF End, Ending

\* The blank ending is one too.
LEMMA NoEndingType == NoEnding \in Ending
  BY EndType DEF NoEnding, Terminal, Codes

\* The empty tables and the stopped process satisfy the invariant.
LEMMA InitInv == Init => Inv
<1> SUFFICES ASSUME Init PROVE Inv
  OBVIOUS
<1> USE DEF Init
<1>1. RowsTypeOK
  BY QueueAssumption DEF RowsTypeOK, Items, Seqs, JobStates, Codes, SourceFailures, ItemStates, VideoStates
<1>2. ProcessTypeOK
  <2>1. ending \in Ending
    BY NoEndingType
  <2>2. stops \in 0..MaxStops /\ crashes \in 0..MaxCrashes
    BY QueueAssumption
  <2> QED
    BY <2>1, <2>2 DEF ProcessTypeOK, PCs
<1>3. RowsInv
  BY DEF RowsInv, RowsNamed, RunningItemHasRunningJob, TerminalJobIsComplete,
         OneInflightPerVideo, JobTerminal, Inflight
<1>4. LoopInv
  BY DEF LoopInv, Driving, InItem
<1>5. OneAtATime
  BY DEF OneAtATime
<1> QED
  BY <1>1, <1>2, <1>3, <1>4, <1>5 DEF Inv, TypeOK

-----------------------------------------------------------------------------
(* Requeueing, the transaction the three sweeps and the stop share.  What  *)
(* it needs to know of its caller is that it takes running jobs only.      *)

\* A requeue keeps the rows consistent: items leave with their job.
LEMMA RequeueRows ==
  ASSUME RowsTypeOK, RowsInv, NEW S \in SUBSET Jobs, NEW spent \in SUBSET Interrupted(S),
         \A j \in S : jstate[j] = "running",
         Requeue(S, spent)
  PROVE  RowsTypeOK' /\ RowsInv'
<1> USE QueueAssumption DEF Items, Seqs
<1>0. Interrupted(S) = {i \in Items : i[1] \in S /\ istate[i] = "running"}
  BY DEF Interrupted
<1>1. RowsTypeOK'
  BY <1>0 DEF RowsTypeOK, Requeue, ResetVideos, StillMarked, JobStates, Inflight, ItemStates, Terminal,
         Codes, VideoStates
<1>2. RowsNamed'
  BY <1>0 DEF RowsInv, RowsNamed, Requeue, RowsTypeOK
<1>3. RunningItemHasRunningJob'
  BY <1>0 DEF RowsInv, RunningItemHasRunningJob, Requeue, RowsTypeOK
<1>4. TerminalJobIsComplete'
  BY <1>0 DEF RowsInv, TerminalJobIsComplete, Requeue, RowsTypeOK, JobTerminal, Terminal
<1>5. OneInflightPerVideo'
  BY <1>0 DEF RowsInv, OneInflightPerVideo, Requeue, RowsTypeOK, Inflight
<1> QED
  BY <1>1, <1>2, <1>3, <1>4, <1>5 DEF RowsInv

\* An item that still runs afterwards ran before, under a job that was spared.
LEMMA RequeueSpares ==
  ASSUME RowsTypeOK, NEW S \in SUBSET Jobs, NEW spent \in SUBSET Interrupted(S),
         Requeue(S, spent)
  PROVE  /\ \A j \in Jobs \ S : jstate'[j] = jstate[j]
         /\ \A i \in Items : i[1] \notin S => istate'[i] = istate[i]
         /\ \A i \in Items : istate'[i] = "running" => istate[i] = "running"
  BY DEF RowsTypeOK, Requeue, Interrupted

\* A sweep never selects the job the loop is driving, nor the one just claimed.
LEMMA SweepSparesClaim ==
  ASSUME Inv, NEW snapshot, NEW quiet, ReclaimStale(snapshot, quiet)
  PROVE  /\ quiet \in SUBSET Jobs
         /\ \A j \in quiet : jstate[j] = "running"
         /\ pc \in Driving \cup {"claimed"} => cur \notin quiet
<1>1. quiet \subseteq StaleClaims(snapshot) \ Young(snapshot)
  BY DEF ReclaimStale
<1>2. pc \in Driving => cur \in active
  BY DEF Inv, LoopInv
<1> QED
  BY <1>1, <1>2 DEF StaleClaims, Young

\* What a requeue does to the invariant wherever the loop stays where it was.
LEMMA RequeueInv ==
  ASSUME Inv, NEW S \in SUBSET Jobs, NEW spent \in SUBSET Interrupted(S),
         \A j \in S : jstate[j] = "running",
         pc \in Driving \cup {"claimed"} => cur \notin S,
         Requeue(S, spent), UNCHANGED <<up, runVars>>
  PROVE  RowsTypeOK' /\ RowsInv' /\ LoopInv' /\ OneAtATime'
<1>1. RowsTypeOK' /\ RowsInv'
  BY RequeueRows DEF Inv, TypeOK
<1>2. LoopInv'
  BY RequeueSpares DEF Inv, TypeOK, LoopInv, runVars, Driving, InItem
<1>3. OneAtATime'
  BY RequeueSpares DEF Inv, TypeOK, OneAtATime, runVars
<1> QED
  BY <1>1, <1>2, <1>3

\* A staleness sweep is a requeue that may retire some of the items it cut.
LEMMA ReclaimIsRequeue ==
  ASSUME NEW snapshot, NEW quiet, ReclaimStale(snapshot, quiet)
  PROVE  \E spent \in SUBSET Interrupted(quiet) : Requeue(quiet, spent)
  BY DEF ReclaimStale

\* The sweep of an index-video call, with the snapshot it took earlier.
LEMMA ToolSweepWriteInv == Inv /\ ToolSweepWrite => Inv'
<1> SUFFICES ASSUME Inv, ToolSweepWrite PROVE Inv'
  OBVIOUS
<1>1. PICK quiet : ReclaimStale(toolHeld, quiet)
  BY DEF ToolSweepWrite
<1>2. PICK spent \in SUBSET Interrupted(quiet) : Requeue(quiet, spent)
  BY <1>1, ReclaimIsRequeue
<1>3. UNCHANGED <<up, runVars>>
  BY DEF ToolSweepWrite
<1>4. RowsTypeOK' /\ RowsInv' /\ LoopInv' /\ OneAtATime'
  BY <1>1, <1>2, <1>3, SweepSparesClaim, RequeueInv
<1>5. ProcessTypeOK'
  BY DEF Inv, TypeOK, ProcessTypeOK, ToolSweepWrite, runVars, Items, Seqs, NoItem
<1> QED
  BY <1>4, <1>5 DEF Inv, TypeOK

\* The runner's own sweep, taken while it holds no claim.
LEMMA RunnerSweepInv == Inv /\ RunnerSweep => Inv'
<1> SUFFICES ASSUME Inv, RunnerSweep PROVE Inv'
  OBVIOUS
<1>1. PICK quiet : RunnerSweeps(quiet)
  BY DEF RunnerSweep
<1>2. PICK spent \in SUBSET Interrupted(quiet) : Requeue(quiet, spent)
  BY <1>1, ReclaimIsRequeue DEF RunnerSweeps
<1>3. quiet \in SUBSET Jobs /\ \A j \in quiet : jstate[j] = "running"
  BY <1>1, SweepSparesClaim DEF RunnerSweeps
<1>4. RowsTypeOK' /\ RowsInv'
  BY <1>2, <1>3, RequeueRows DEF Inv, TypeOK
<1>5. pc = "poll" /\ pc' = "claim" /\ UNCHANGED <<cur, item, ending, active, procVars>>
  BY <1>1 DEF RunnerSweeps, Goto
<1>6. ProcessTypeOK'
  BY <1>5 DEF Inv, TypeOK, ProcessTypeOK, procVars, PCs, Items, Seqs, NoItem
<1>7. LoopInv' /\ OneAtATime'
  BY <1>5 DEF Inv, LoopInv, OneAtATime, procVars, Driving, InItem, Waiting
<1> QED
  BY <1>4, <1>6, <1>7 DEF Inv, TypeOK

\* The sweep of a starting process, which has no claim to spare.
LEMMA BootInv == Inv /\ Boot => Inv'
<1> SUFFICES ASSUME Inv, Boot PROVE Inv'
  OBVIOUS
<1>1. PICK quiet : ReclaimStale({}, quiet)
  BY DEF Boot
<1>2. PICK spent \in SUBSET Interrupted(quiet) : Requeue(quiet, spent)
  BY <1>1, ReclaimIsRequeue
<1>3. RowsTypeOK' /\ RowsInv'
  BY <1>1, <1>2, SweepSparesClaim, RequeueRows DEF Inv, TypeOK
<1>4. pc = "off"
  BY DEF Inv, LoopInv, Boot
<1>5. ProcessTypeOK'
  BY DEF Inv, TypeOK, ProcessTypeOK, Boot, Goto, PCs, Items, Seqs, NoItem
<1>6. LoopInv' /\ OneAtATime'
  BY <1>4 DEF Inv, LoopInv, OneAtATime, Boot, Goto, Driving, InItem, Waiting
<1> QED
  BY <1>3, <1>5, <1>6 DEF Inv, TypeOK

\* The end of a controlled stop: the held claims go back.
LEMMA StopReleaseInv == Inv /\ StopRelease => Inv'
<1> SUFFICES ASSUME Inv, StopRelease PROVE Inv'
  OBVIOUS
<1> DEFINE S == {j \in held : jstate[j] = "running"}
<1>1. S \in SUBSET Jobs
  BY DEF Inv, TypeOK, ProcessTypeOK
<1>2. Requeue(S, {}) /\ pc = "off" /\ UNCHANGED runVars
  BY DEF StopRelease, ReleaseClaims
<1>3. RowsTypeOK' /\ RowsInv'
  BY <1>1, <1>2, RequeueRows DEF Inv, TypeOK
<1>4. ProcessTypeOK'
  BY <1>2 DEF Inv, TypeOK, ProcessTypeOK, StopRelease, runVars, Items, Seqs, NoItem
<1>5. LoopInv' /\ OneAtATime'
  BY <1>2 DEF Inv, LoopInv, OneAtATime, StopRelease, runVars, Driving, InItem, Waiting
<1> QED
  BY <1>3, <1>4, <1>5 DEF Inv, TypeOK

-----------------------------------------------------------------------------
(* Steps that write no row *)

\* Rows nobody writes stay consistent.
LEMMA SameRows ==
  ASSUME Inv, UNCHANGED <<jobVars, itemVars, videoVars>>
  PROVE  RowsTypeOK' /\ RowsInv'
<1>1. RowsTypeOK'
  BY DEF Inv, TypeOK, RowsTypeOK, jobVars, itemVars, videoVars
<1>2. RowsInv'
  BY DEF Inv, RowsInv, RowsNamed, RunningItemHasRunningJob, TerminalJobIsComplete,
         OneInflightPerVideo, jobVars, itemVars, videoVars
<1> QED
  BY <1>1, <1>2

\* A stuttering step keeps the invariant.
LEMMA Stutter == Inv /\ UNCHANGED vars => Inv'
<1> SUFFICES ASSUME Inv, UNCHANGED vars PROVE Inv'
  OBVIOUS
<1>1. RowsTypeOK' /\ RowsInv'
  BY SameRows DEF vars
<1>2. ProcessTypeOK'
  BY DEF Inv, TypeOK, ProcessTypeOK, vars, runVars, procVars
<1>3. LoopInv' /\ OneAtATime'
  BY DEF Inv, LoopInv, OneAtATime, vars, runVars, procVars, jobVars, itemVars
<1> QED
  BY <1>1, <1>2, <1>3 DEF Inv, TypeOK

\* The steps of an index-video call that write nothing.
LEMMA ToolInv == Inv /\ (ToolSweepRead \/ ToolRefused) => Inv'
<1> SUFFICES ASSUME Inv, ToolSweepRead \/ ToolRefused PROVE Inv'
  OBVIOUS
<1>1. UNCHANGED <<jobVars, itemVars, videoVars, runVars, up, stopping, held, stops, crashes>>
  BY DEF ToolSweepRead, ToolRefused
<1>2. RowsTypeOK' /\ RowsInv'
  BY <1>1, SameRows
<1>3. ProcessTypeOK'
  BY <1>1 DEF Inv, TypeOK, ProcessTypeOK, runVars, ToolSweepRead, ToolRefused
<1>4. LoopInv' /\ OneAtATime'
  BY <1>1 DEF Inv, LoopInv, OneAtATime, runVars, jobVars, itemVars
<1> QED
  BY <1>2, <1>3, <1>4 DEF Inv, TypeOK

\* The loop moves on, keeping its item, its job and _active.
LEMMA MoveInv ==
  ASSUME Inv, UNCHANGED <<jobVars, itemVars, videoVars, procVars, cur, item, active>>,
         pc' \in PCs, ending' \in Ending,
         \/ pc \in InItem /\ pc' \in InItem
         \/ pc = "check" /\ pc' \in {"cancelling", "take"}
         \/ pc = "claim" /\ pc' = "poll"
  PROVE  Inv'
<1>1. RowsTypeOK' /\ RowsInv'
  BY SameRows
<1>2. ProcessTypeOK'
  BY DEF Inv, TypeOK, ProcessTypeOK, procVars
<1>3. LoopInv'
  BY DEF Inv, LoopInv, procVars, jobVars, itemVars, Driving, InItem
<1>4. OneAtATime'
  BY DEF Inv, OneAtATime, itemVars, Waiting, InItem
<1> QED
  BY <1>1, <1>2, <1>3, <1>4 DEF Inv, TypeOK

\* Every move of the loop that writes no row and changes no claim.
LEMMA MovesInv ==
  Inv /\ (NothingToClaim \/ CheckCancel \/ FeatureDisabled \/ FetchFails \/ Checkpoint \/ Retire) => Inv'
<1> SUFFICES ASSUME Inv PROVE NothingToClaim \/ CheckCancel \/ FeatureDisabled \/ FetchFails
                              \/ Checkpoint \/ Retire => Inv'
  OBVIOUS
<1>0. ending \in Ending
  BY DEF Inv, TypeOK, ProcessTypeOK
<1>1. CASE NothingToClaim
  BY <1>0, <1>1, MoveInv DEF NothingToClaim, Goto, PCs
<1>2. CASE CheckCancel
  BY <1>0, <1>2, MoveInv DEF CheckCancel, Goto, PCs, Driving
<1>3. \A code \in Codes : End("failed", code) \in Ending
  BY EndType DEF Terminal
<1>4. CASE FetchFails
  BY <1>3, <1>4, MoveInv DEF FetchFails, To, Goto, PCs, Driving, InItem, Codes
<1>5. CASE FeatureDisabled
  <2>1. End("skipped", "E_FEATURE_DISABLED") \in Ending
    BY EndType DEF Terminal, Codes
  <2> QED
    BY <1>5, <2>1, MoveInv DEF FeatureDisabled, To, Goto, PCs, Driving, InItem
<1>6. End("cancelled", "none") \in Ending
  BY EndType DEF Terminal, Codes
<1>7. CASE Checkpoint
  BY <1>6, <1>7, NoEndingType, MoveInv DEF Checkpoint, To, Goto, PCs, Driving, InItem
<1>8. CASE Retire
  BY <1>0, <1>8, MoveInv DEF Retire, To, Goto, PCs, Driving, InItem
<1> QED
  BY <1>1, <1>2, <1>4, <1>5, <1>7, <1>8

\* The claim just committed becomes known to _active.
LEMMA ActivateInv == Inv /\ Activate => Inv'
<1> SUFFICES ASSUME Inv, Activate PROVE Inv'
  OBVIOUS
<1>1. RowsTypeOK' /\ RowsInv'
  BY SameRows DEF Activate
<1>2. ProcessTypeOK'
  BY DEF Inv, TypeOK, ProcessTypeOK, LoopInv, Activate, Goto, PCs, Driving, procVars
<1>3. LoopInv' /\ OneAtATime'
  BY DEF Inv, LoopInv, OneAtATime, Activate, Goto, Driving, InItem, Waiting, procVars,
         jobVars, itemVars
<1> QED
  BY <1>1, <1>2, <1>3 DEF Inv, TypeOK

\* The loop leaves a job none of whose items is queued.
LEMMA NoItemLeftInv == Inv /\ NoItemLeft => Inv'
<1> SUFFICES ASSUME Inv, NoItemLeft PROVE Inv'
  OBVIOUS
<1>1. RowsTypeOK' /\ RowsInv'
  BY SameRows DEF NoItemLeft
<1>2. ProcessTypeOK'
  BY NoEndingType
     DEF Inv, TypeOK, ProcessTypeOK, NoItemLeft, LeaveDrive, Goto, PCs, procVars
<1>3. LoopInv' /\ OneAtATime'
  BY DEF Inv, LoopInv, OneAtATime, NoItemLeft, LeaveDrive, Goto, Driving, InItem, Waiting,
         procVars, jobVars, itemVars
<1> QED
  BY <1>1, <1>2, <1>3 DEF Inv, TypeOK

\* A stop cancels the loop wherever it stands.
LEMMA StopBeginInv == Inv /\ StopBegin => Inv'
<1> SUFFICES ASSUME Inv, StopBegin PROVE Inv'
  OBVIOUS
<1>1. RowsTypeOK' /\ RowsInv'
  BY SameRows DEF StopBegin
<1>2. stops' \in 0..MaxStops
  BY QueueAssumption DEF Inv, TypeOK, ProcessTypeOK, StopBegin
<1>3. ProcessTypeOK'
  BY <1>2, NoEndingType
     DEF Inv, TypeOK, ProcessTypeOK, StopBegin, LeaveDrive, Goto, PCs
<1>4. LoopInv' /\ OneAtATime'
  BY DEF Inv, LoopInv, OneAtATime, StopBegin, LeaveDrive, Goto, Driving, InItem, Waiting,
         jobVars, itemVars
<1> QED
  BY <1>1, <1>3, <1>4 DEF Inv, TypeOK

\* A kill empties the memory and leaves the rows.
LEMMA CrashInv == Inv /\ Crash => Inv'
<1> SUFFICES ASSUME Inv, Crash PROVE Inv'
  OBVIOUS
<1>1. RowsTypeOK' /\ RowsInv'
  BY SameRows DEF Crash
<1>2. crashes' \in 0..MaxCrashes
  BY QueueAssumption DEF Inv, TypeOK, ProcessTypeOK, Crash
<1>3. ProcessTypeOK'
  BY <1>2, NoEndingType DEF Inv, TypeOK, ProcessTypeOK, Crash, Goto, PCs
<1>4. LoopInv' /\ OneAtATime'
  BY DEF LoopInv, OneAtATime, Crash, Goto, Driving, InItem, Waiting
<1> QED
  BY <1>1, <1>3, <1>4 DEF Inv, TypeOK

-----------------------------------------------------------------------------
(* Steps that write rows *)

\* A backoff that runs out changes no claim.
LEMMA ExpireInv == \A j \in Jobs : Inv /\ Expire(j) => Inv'
<1> SUFFICES ASSUME NEW j \in Jobs, Inv, Expire(j) PROVE Inv'
  OBVIOUS
<1>1. RowsTypeOK'
  BY DEF Inv, TypeOK, RowsTypeOK, Expire, itemVars, videoVars
<1>2. RowsInv'
  BY DEF Inv, RowsInv, RowsNamed, RunningItemHasRunningJob, TerminalJobIsComplete,
         OneInflightPerVideo, Expire, itemVars
<1>3. ProcessTypeOK'
  BY DEF Inv, TypeOK, ProcessTypeOK, Expire, runVars, procVars
<1>4. LoopInv' /\ OneAtATime'
  BY DEF Inv, LoopInv, OneAtATime, Expire, itemVars, runVars, procVars
<1> QED
  BY <1>1, <1>2, <1>3, <1>4 DEF Inv, TypeOK

\* A cancel ends a queued job with its items, or leaves a mark on a running one.
LEMMA RequestCancelInv == \A j \in Jobs : Inv /\ RequestCancel(j) => Inv'
<1> SUFFICES ASSUME NEW j \in Jobs, Inv, RequestCancel(j) PROVE Inv'
  OBVIOUS
<1> USE DEF Unfinished, ItemsOf
<1>1. RowsTypeOK'
  BY DEF Inv, TypeOK, RowsTypeOK, RequestCancel, videoVars, JobStates, JobTerminal,
         ItemStates, Terminal
<1>2. RowsNamed' /\ RunningItemHasRunningJob'
  <2>1. \A i \in Items : \/ istate'[i] = istate[i]
                         \/ istate[i] # "absent" /\ istate'[i] = "cancelled"
    BY DEF Inv, TypeOK, RowsTypeOK, RequestCancel
  <2>2. \A k \in Jobs : jstate'[k] = jstate[k] \/ jstate[k] = "queued"
    BY DEF Inv, TypeOK, RowsTypeOK, RequestCancel
  <2>3. iurl' = iurl /\ ivid' = ivid
    BY DEF RequestCancel
  <2> QED
    BY <2>1, <2>2, <2>3
       DEF Inv, RowsInv, RowsNamed, RunningItemHasRunningJob, Items
<1>3. TerminalJobIsComplete'
  BY DEF Inv, TypeOK, RowsTypeOK, RowsInv, TerminalJobIsComplete, RequestCancel,
         JobTerminal, Terminal, Inflight, ItemStates
<1>4. OneInflightPerVideo'
  BY DEF Inv, TypeOK, RowsTypeOK, RowsInv, OneInflightPerVideo, RequestCancel, Inflight
<1>5. ProcessTypeOK'
  BY DEF Inv, TypeOK, ProcessTypeOK, RequestCancel, runVars, procVars
<1>6. LoopInv' /\ OneAtATime'
  BY DEF Inv, TypeOK, RowsTypeOK, LoopInv, OneAtATime, RequestCancel, Driving, InItem,
         Inflight, runVars, procVars
<1> QED
  BY <1>1, <1>2, <1>3, <1>4, <1>5, <1>6 DEF Inv, TypeOK, RowsInv

\* The claim takes a queued job, none of whose items can be running.
LEMMA ClaimNextInv == Inv /\ ClaimNext => Inv'
<1> SUFFICES ASSUME Inv, ClaimNext PROVE Inv'
  OBVIOUS
<1>1. PICK j \in Runnable : jstate' = [jstate EXCEPT ![j] = "running"] /\ cur' = j
  BY DEF ClaimNext
<1>2. j \in Jobs /\ jstate[j] = "queued"
  BY DEF Runnable
<1> USE <1>1, <1>2 DEF ClaimNext, Goto
<1>3. RowsTypeOK'
  BY DEF Inv, TypeOK, RowsTypeOK, itemVars, videoVars, JobStates, Inflight
<1>4. RowsInv'
  BY DEF Inv, TypeOK, RowsTypeOK, RowsInv, RowsNamed, RunningItemHasRunningJob,
         TerminalJobIsComplete, OneInflightPerVideo, itemVars, JobTerminal, Items
<1>5. ProcessTypeOK'
  BY DEF Inv, TypeOK, ProcessTypeOK, procVars, PCs
<1>6. LoopInv' /\ OneAtATime'
  BY DEF Inv, TypeOK, RowsTypeOK, RowsInv, RunningItemHasRunningJob, LoopInv, OneAtATime,
         Driving, InItem, Waiting, itemVars, procVars
<1> QED
  BY <1>3, <1>4, <1>5, <1>6 DEF Inv, TypeOK

\* The item taken is the only running one of its job.
LEMMA ClaimItemInv == Inv /\ ClaimItem => Inv'
<1> SUFFICES ASSUME Inv, ClaimItem PROVE Inv'
  OBVIOUS
<1>1. PICK i \in QueuedOf(cur) :
        /\ istate' = [istate EXCEPT ![i] = "running"]
        /\ itry' = [itry EXCEPT ![i] = @ + 1]
        /\ item' = i
  BY DEF ClaimItem
<1>2. i \in Items /\ i[1] = cur /\ istate[i] = "queued"
  BY DEF QueuedOf, ItemsOf
<1>3. pc = "take" /\ pc' = "work"
      /\ UNCHANGED <<jobVars, iurl, ivid, imax, ierr, videoVars, cur, ending, active, procVars>>
  BY DEF ClaimItem, Goto
<1>4. cur \in Jobs /\ jstate[cur] = "running"
  BY <1>3 DEF Inv, LoopInv, Driving
<1> USE <1>1, <1>2, <1>3, <1>4
<1>5. RowsTypeOK'
  BY DEF Inv, TypeOK, RowsTypeOK, jobVars, videoVars, ItemStates, Inflight
<1>6. RowsNamed' /\ RunningItemHasRunningJob'
  BY DEF Inv, TypeOK, RowsTypeOK, RowsInv, RowsNamed, RunningItemHasRunningJob, jobVars
<1>7. TerminalJobIsComplete'
  BY DEF Inv, TypeOK, RowsTypeOK, RowsInv, TerminalJobIsComplete, jobVars, JobTerminal
<1>8. OneInflightPerVideo'
  BY DEF Inv, TypeOK, RowsTypeOK, RowsInv, OneInflightPerVideo, Inflight
<1>9. ProcessTypeOK'
  BY DEF Inv, TypeOK, ProcessTypeOK, procVars, PCs, Driving
<1>10. LoopInv' /\ OneAtATime'
  BY DEF Inv, TypeOK, RowsTypeOK, LoopInv, OneAtATime, Driving, InItem, Waiting, jobVars,
         procVars
<1> QED
  BY <1>5, <1>6, <1>7, <1>8, <1>9, <1>10 DEF Inv, TypeOK, RowsInv

\* A row's ending is written once the loop is done with it.
LEMMA FinishItemInv == Inv /\ FinishItem => Inv'
<1> SUFFICES ASSUME Inv, FinishItem PROVE Inv'
  OBVIOUS
<1>1. item \in Items /\ item[1] = cur /\ istate[item] = "running"
  BY DEF Inv, LoopInv, FinishItem, InItem
<1>2. ending.state \in Terminal /\ ending.code \in Codes
  BY DEF Inv, TypeOK, ProcessTypeOK, Ending
<1> USE <1>1, <1>2 DEF FinishItem, Goto
<1>3. RowsTypeOK'
  BY DEF Inv, TypeOK, RowsTypeOK, jobVars, videoVars, ItemStates
<1>4. RowsNamed' /\ RunningItemHasRunningJob'
  BY DEF Inv, TypeOK, RowsTypeOK, RowsInv, RowsNamed, RunningItemHasRunningJob, jobVars,
         Terminal
<1>5. TerminalJobIsComplete'
  BY DEF Inv, TypeOK, RowsTypeOK, RowsInv, TerminalJobIsComplete, jobVars
<1>6. OneInflightPerVideo'
  BY DEF Inv, TypeOK, RowsTypeOK, RowsInv, OneInflightPerVideo, Inflight, Terminal
<1>7. ProcessTypeOK'
  BY NoEndingType DEF Inv, TypeOK, ProcessTypeOK, procVars, PCs, Driving
<1>8. LoopInv' /\ OneAtATime'
  BY DEF Inv, TypeOK, RowsTypeOK, LoopInv, OneAtATime, Driving, InItem, Waiting, jobVars,
         procVars, Terminal
<1> QED
  BY <1>3, <1>4, <1>5, <1>6, <1>7, <1>8 DEF Inv, TypeOK, RowsInv

\* A granted attempt changes only the allowance.
LEMMA ExtendInv == Inv /\ Extend => Inv'
<1> SUFFICES ASSUME Inv, Extend PROVE Inv'
  OBVIOUS
<1> USE DEF Extend, To, Goto
<1>1. RowsTypeOK'
  BY DEF Inv, TypeOK, RowsTypeOK, jobVars, videoVars
<1>2. RowsInv'
  BY DEF Inv, RowsInv, RowsNamed, RunningItemHasRunningJob, TerminalJobIsComplete,
         OneInflightPerVideo, jobVars
<1>3. ProcessTypeOK'
  BY DEF Inv, TypeOK, ProcessTypeOK, procVars, PCs, Driving
<1>4. LoopInv' /\ OneAtATime'
  BY DEF Inv, LoopInv, OneAtATime, Driving, InItem, Waiting, jobVars, procVars
<1> QED
  BY <1>1, <1>2, <1>3, <1>4 DEF Inv, TypeOK

\* Finalize, SettleVideo and a failing stage write the video row at most.
LEMMA VideoRowInv ==
  ASSUME Inv, UNCHANGED <<jobVars, itemVars, procVars, cur, item, active>>,
         vstate' \in [Videos -> VideoStates], vindexed' \in [Videos -> BOOLEAN],
         loose' \in SUBSET Videos, pc \in InItem, pc' \in InItem, ending' \in Ending
  PROVE  Inv'
<1>1. RowsTypeOK'
  BY DEF Inv, TypeOK, RowsTypeOK, jobVars, itemVars
<1>2. RowsInv'
  BY DEF Inv, RowsInv, RowsNamed, RunningItemHasRunningJob, TerminalJobIsComplete,
         OneInflightPerVideo, jobVars, itemVars
<1>3. ProcessTypeOK'
  BY DEF Inv, TypeOK, ProcessTypeOK, procVars, InItem, PCs, Driving
<1>4. LoopInv' /\ OneAtATime'
  BY DEF Inv, LoopInv, OneAtATime, Driving, InItem, Waiting, jobVars, itemVars, procVars
<1> QED
  BY <1>1, <1>2, <1>3, <1>4 DEF Inv, TypeOK

\* The two writes of an item's video row, and the failure that skips them.
LEMMA FinalizeInv == Inv /\ (Finalize \/ SettleVideo \/ StageFails) => Inv'
<1> SUFFICES ASSUME Inv, Finalize \/ SettleVideo \/ StageFails PROVE Inv'
  OBVIOUS
<1>1. vstate \in [Videos -> VideoStates] /\ vindexed \in [Videos -> BOOLEAN]
      /\ loose \in SUBSET Videos /\ ending \in Ending
  BY DEF Inv, TypeOK, RowsTypeOK, ProcessTypeOK
<1>2. End("done", "none") \in Ending
  BY EndType DEF Terminal, Codes
<1>3. CASE Finalize
  <2>1. vstate' \in [Videos -> VideoStates] /\ vindexed' \in [Videos -> BOOLEAN]
    BY <1>1, <1>3 DEF Finalize, FailedVideo, VideoStates
  <2> QED
    BY <1>1, <1>2, <1>3, <2>1, VideoRowInv DEF Finalize, To, Goto, InItem
<1>4. CASE SettleVideo
  <2>1. vstate' \in [Videos -> VideoStates]
    BY <1>1, <1>4 DEF SettleVideo, Unwound, FailedVideo, VideoStates
  <2> QED
    BY <1>1, <1>4, <2>1, VideoRowInv DEF SettleVideo, To, Goto, InItem
<1>5. CASE StageFails
  <2>1. \A code \in Codes : End("failed", code) \in Ending
    BY EndType DEF Terminal
  <2>2. /\ pc = "stages" /\ pc' \in {"unwind", "fail"} /\ ending' \in Ending
        /\ UNCHANGED <<jobVars, itemVars, procVars, cur, item, active, vstate, vindexed>>
        /\ loose' \in SUBSET Videos
    BY <1>1, <1>5, <2>1 DEF StageFails, To, Goto, Codes, SourceFailures
  <2> QED
    BY <1>1, <2>2, VideoRowInv DEF InItem
<1> QED
  BY <1>3, <1>4, <1>5

\* Cancelling what is left of a running job ends it and every item in flight.
LEMMA CancelRemainingRows ==
  ASSUME RowsTypeOK, RowsInv, NEW j \in Jobs, jstate[j] = "running",
         CancelRemaining(j), UNCHANGED <<jreq, jcancel, jwait, iurl, ivid, itry, imax, ierr, videoVars>>
  PROVE  RowsTypeOK' /\ RowsInv'
<1> USE DEF CancelRemaining, Unfinished, ItemsOf
<1>1. RowsTypeOK'
  BY DEF RowsTypeOK, videoVars, JobStates, JobTerminal, ItemStates, Terminal, Codes
<1>2. \A i \in Items : \/ istate'[i] = istate[i]
                       \/ istate[i] # "absent" /\ istate'[i] = "cancelled"
  BY DEF RowsTypeOK
<1>3. \A i \in Items : i[1] = j => istate'[i] \notin Inflight
  BY DEF RowsTypeOK, Inflight
<1>4. RowsNamed'
  BY <1>2 DEF RowsInv, RowsNamed
<1>5. RunningItemHasRunningJob'
  BY <1>2, <1>3 DEF RowsInv, RunningItemHasRunningJob, RowsTypeOK, Inflight, Items
<1>6. TerminalJobIsComplete'
  BY <1>1, <1>2, <1>3 DEF RowsInv, TerminalJobIsComplete, RowsTypeOK, Inflight, Terminal, ItemStates
<1>7. OneInflightPerVideo'
  BY <1>2 DEF RowsInv, OneInflightPerVideo, Inflight
<1> QED
  BY <1>1, <1>4, <1>5, <1>6, <1>7 DEF RowsInv

\* Leaving _drive: _active forgets the job, and no claim is held any more.
LEMMA LeaveDriveInv ==
  ASSUME Inv, LeaveDrive, UNCHANGED procVars, pc \in Driving
  PROVE  ProcessTypeOK' /\ LoopInv' /\ OneAtATime'
<1>1. ProcessTypeOK'
  BY NoEndingType DEF Inv, TypeOK, ProcessTypeOK, LeaveDrive, Goto, PCs, procVars
<1>2. LoopInv' /\ OneAtATime'
  BY DEF Inv, LoopInv, OneAtATime, LeaveDrive, Goto, Driving, InItem, Waiting, procVars
<1> QED
  BY <1>1, <1>2

\* The loop honours a cancel between two items.
LEMMA CancelJobInv == Inv /\ CancelJob => Inv'
<1> SUFFICES ASSUME Inv, CancelJob PROVE Inv'
  OBVIOUS
<1>1. pc \in Driving /\ cur \in Jobs /\ jstate[cur] = "running"
  BY DEF Inv, LoopInv, CancelJob, Driving
<1>2. RowsTypeOK' /\ RowsInv'
  BY <1>1, CancelRemainingRows DEF Inv, TypeOK, CancelJob
<1>3. ProcessTypeOK' /\ LoopInv' /\ OneAtATime'
  BY <1>1, LeaveDriveInv DEF CancelJob
<1> QED
  BY <1>2, <1>3 DEF Inv, TypeOK

\* Deferring puts the job back with its only running item.
LEMMA DeferInv == Inv /\ Defer => Inv'
<1> SUFFICES ASSUME Inv, Defer PROVE Inv'
  OBVIOUS
<1>1. pc \in InItem /\ pc \in Driving /\ cur \in Jobs /\ jstate[cur] = "running"
      /\ item \in Items /\ item[1] = cur /\ istate[item] = "running"
  BY DEF Inv, LoopInv, Defer, Driving, InItem
<1>2. ProcessTypeOK' /\ LoopInv' /\ OneAtATime'
  BY <1>1, LeaveDriveInv DEF Defer
<1>3. CASE CancelSeen(cur)
  <2>1. RowsTypeOK' /\ RowsInv'
    BY <1>1, <1>3, CancelRemainingRows DEF Inv, TypeOK, Defer
  <2> QED
    BY <1>2, <2>1 DEF Inv, TypeOK
<1>4. CASE ~CancelSeen(cur)
  <2>1. /\ istate' = [istate EXCEPT ![item] = "queued"]
        /\ jstate' = [jstate EXCEPT ![cur] = "queued"]
        /\ jwait' = [jwait EXCEPT ![cur] = TRUE]
        /\ jerr' = [jerr EXCEPT ![cur] = IF ending.code = "E_RATE_LIMIT" THEN "E_RATE_LIMIT" ELSE @]
        /\ UNCHANGED <<jreq, jcancel, iurl, ivid, itry, imax, ierr, videoVars>>
    BY <1>4 DEF Defer
  <2>2. RowsTypeOK'
    BY <1>1, <2>1 DEF Inv, TypeOK, RowsTypeOK, videoVars, JobStates, ItemStates, Inflight,
                      Codes, SourceFailures
  <2>3. RowsNamed'
    BY <1>1, <2>1 DEF Inv, TypeOK, RowsTypeOK, RowsInv, RowsNamed
  <2>4. \A i \in Items : i[1] = cur => istate'[i] # "running"
    BY <1>1, <2>1 DEF Inv, TypeOK, RowsTypeOK, OneAtATime
  <2>5. RunningItemHasRunningJob'
    BY <1>1, <2>1, <2>4 DEF Inv, TypeOK, RowsTypeOK, RowsInv, RunningItemHasRunningJob
  <2>6. TerminalJobIsComplete'
    BY <1>1, <2>1 DEF Inv, TypeOK, RowsTypeOK, RowsInv, TerminalJobIsComplete, JobTerminal
  <2>7. OneInflightPerVideo'
    BY <1>1, <2>1 DEF Inv, TypeOK, RowsTypeOK, RowsInv, OneInflightPerVideo, Inflight
  <2> QED
    BY <1>2, <2>2, <2>3, <2>5, <2>6, <2>7 DEF Inv, TypeOK, RowsInv
<1> QED
  BY <1>3, <1>4

\* _settle ends a job only when none of its items is in flight.
LEMMA SettleInv == Inv /\ Settle => Inv'
<1> SUFFICES ASSUME Inv, Settle PROVE Inv'
  OBVIOUS
<1>1. cur \in Jobs /\ pc = "settle" /\ pc' \in {"off", "poll"} /\ cur' = NoJob
  BY DEF Inv, LoopInv, Settle, Goto
<1>2. ProcessTypeOK'
  BY <1>1 DEF Inv, TypeOK, ProcessTypeOK, Settle, PCs, procVars
<1>3. LoopInv' /\ OneAtATime'
  BY <1>1 DEF Inv, LoopInv, OneAtATime, Settle, Driving, InItem, Waiting, procVars
<1>4. \A j \in Jobs : \A code \in JobError(j) : code \in Codes
  BY DEF Inv, TypeOK, RowsTypeOK, JobError, InState, ItemsOf, Codes, SourceFailures
<1>5. RowsTypeOK' /\ RowsInv'
  <2>1. CASE Settles(cur)
    <3>1. /\ jstate' = [jstate EXCEPT ![cur] = JobResult(cur)]
          /\ \E code \in Codes : jerr' = [jerr EXCEPT ![cur] = code]
          /\ UNCHANGED <<jreq, jcancel, jwait, itemVars, videoVars>>
      BY <1>1, <1>4, <2>1 DEF Settle, Codes
    <3>2. JobResult(cur) \in JobTerminal
      BY DEF JobResult, JobTerminal
    <3>3. \A i \in Items : i[1] = cur => istate[i] \in Terminal \cup {"absent"}
      BY <2>1 DEF Settles, Unfinished, ItemsOf, Inv, TypeOK, RowsTypeOK, ItemStates
    <3>4. RowsTypeOK'
      BY <1>1, <3>1, <3>2 DEF Inv, TypeOK, RowsTypeOK, itemVars, videoVars, JobStates
    <3>5. RowsNamed' /\ OneInflightPerVideo'
      BY <3>1 DEF Inv, RowsInv, RowsNamed, OneInflightPerVideo, itemVars
    <3>6. RunningItemHasRunningJob'
      BY <1>1, <3>1, <3>3
         DEF Inv, TypeOK, RowsTypeOK, RowsInv, RunningItemHasRunningJob, itemVars, Terminal
    <3>7. TerminalJobIsComplete'
      BY <1>1, <3>1, <3>3
         DEF Inv, TypeOK, RowsTypeOK, RowsInv, TerminalJobIsComplete, itemVars
    <3> QED
      BY <3>4, <3>5, <3>6, <3>7 DEF RowsInv
  <2>2. CASE ~Settles(cur)
    BY <2>2, SameRows DEF Settle, jobVars
  <2> QED
    BY <2>1, <2>2
<1> QED
  BY <1>2, <1>3, <1>5 DEF Inv, TypeOK

\* The item in hand names a URL that resolves to a video.
LEMMA TargetType ==
  ASSUME Inv, pc = "work", iurl[item] \notin Containers
  PROVE  Target \in Videos
<1>1. item \in Items /\ istate[item] = "running"
  BY DEF Inv, LoopInv, InItem
<1>2. iurl[item] \in Urls
  BY <1>1 DEF Inv, RowsInv, RowsNamed
<1> QED
  BY <1>2, QueueAssumption DEF Target

\* Whether the claim is granted or refused, no second holder appears.
LEMMA LandInv == Inv /\ (Land \/ LandLocally) => Inv'
<1> SUFFICES ASSUME Inv, Land \/ LandLocally PROVE Inv'
  OBVIOUS
<1>1. /\ pc = "work" /\ iurl[item] \notin Containers
      /\ UNCHANGED <<jobVars, istate, iurl, itry, imax, ierr, vindexed, procVars>>
  BY DEF Land, LandLocally
<1>2. item \in Items /\ item[1] = cur /\ istate[item] = "running" /\ Target \in Videos
  BY <1>1, TargetType DEF Inv, LoopInv, InItem
<1>3. vstate' \in [Videos -> VideoStates] /\ loose' \in SUBSET Videos
  BY <1>2 DEF Inv, TypeOK, RowsTypeOK, Land, LandLocally, Attach, Refused, VideoStates
<1>4. \/ ivid' = ivid
      \/ /\ Clashes = {}
         /\ ivid' = [ivid EXCEPT ![item] = Target]
  BY DEF Land, LandLocally, Attach, Refused
<1>5. /\ pc' \in {"stages", "finish", "fail"} /\ ending' \in Ending
      /\ UNCHANGED <<cur, item, active>>
  <2>1. /\ End("skipped", "E_DUPLICATE_ITEM") \in Ending
        /\ End("failed", "E_INDEXING") \in Ending
    BY EndType DEF Terminal, Codes
  <2> QED
    BY <2>1, NoEndingType DEF Land, LandLocally, Attach, Refused, To, Goto
<1>6. RowsTypeOK'
  BY <1>1, <1>2, <1>3, <1>4 DEF Inv, TypeOK, RowsTypeOK, jobVars
<1>7. RowsNamed' /\ RunningItemHasRunningJob' /\ TerminalJobIsComplete'
  BY <1>1, <1>2, <1>4
     DEF Inv, TypeOK, RowsTypeOK, RowsInv, RowsNamed, RunningItemHasRunningJob,
         TerminalJobIsComplete, jobVars
<1>8. OneInflightPerVideo'
  <2>1. CASE ivid' = ivid
    BY <1>1, <2>1 DEF Inv, RowsInv, OneInflightPerVideo
  <2>2. CASE Clashes = {} /\ ivid' = [ivid EXCEPT ![item] = Target]
    <3>1. \A i \in Items : i # item /\ istate[i] \in Inflight => ivid[i] # Target
      BY <2>2 DEF Clashes, HoldersOf
    <3> QED
      BY <1>1, <1>2, <2>2, <3>1 DEF Inv, TypeOK, RowsTypeOK, RowsInv, OneInflightPerVideo
  <2> QED
    BY <1>4, <2>1, <2>2
<1>9. ProcessTypeOK'
  BY <1>1, <1>5 DEF Inv, TypeOK, ProcessTypeOK, procVars, PCs, Driving
<1>10. LoopInv' /\ OneAtATime'
  BY <1>1, <1>5 DEF Inv, LoopInv, OneAtATime, Driving, InItem, Waiting, jobVars, procVars
<1> QED
  BY <1>6, <1>7, <1>8, <1>9, <1>10 DEF Inv, TypeOK, RowsInv

\* Expansion writes rows nobody wrote before, under the job in hand.
LEMMA ExpandInv == Inv /\ Expand => Inv'
<1> SUFFICES ASSUME Inv, Expand PROVE Inv'
  OBVIOUS
<1>1. /\ pc = "work" /\ iurl[item] \in Containers /\ pc' = "finish" /\ ending' \in Ending
      /\ UNCHANGED <<jobVars, ivid, itry, imax, ierr, videoVars, procVars, cur, item, active>>
  <2>1. End("skipped", "E_EXPANDED") \in Ending
    BY EndType DEF Terminal, Codes
  <2> QED
    BY <2>1 DEF Expand, To, Goto
<1>2. /\ cur \in Jobs /\ jstate[cur] = "running"
      /\ item \in Items /\ item[1] = cur /\ istate[item] = "running"
  BY <1>1 DEF Inv, LoopInv, Driving, InItem
<1>3. PICK entries \in SUBSET Listing[iurl[item]], start \in 0..(MaxSeq + 1) :
        AppendItems(cur, entries, start)
  BY DEF Expand
<1> DEFINE fresh == entries \ Seen(cur)
           added == IF Cardinality(fresh) < Room(cur) THEN Cardinality(fresh) ELSE Room(cur)
           kids == start..(start + added - 1)
<1>31. /\ \A s \in Seqs : s < start <=> istate[<<cur, s>>] # "absent"
       /\ kids \subseteq Seqs
  BY <1>3 DEF AppendItems
<1>32. PICK child \in [kids -> fresh] :
        /\ istate' = [i \in Items |-> IF i[1] = cur /\ i[2] \in kids
                                      THEN "queued" ELSE istate[i]]
        /\ iurl' = [i \in Items |-> IF i[1] = cur /\ i[2] \in kids
                                    THEN child[i[2]] ELSE iurl[i]]
  BY <1>3 DEF AppendItems
<1>33. \A s \in kids : s \in Nat /\ start <= s
  BY <1>31 DEF Seqs
<1>34. fresh \subseteq Listing[iurl[item]]
  OBVIOUS
<1> HIDE DEF kids, fresh
<1>4. \A s \in kids : istate[<<cur, s>>] = "absent"
  BY <1>31, <1>33 DEF Seqs
<1>5. \A s \in kids : child[s] \in Urls
  <2>1. Listing[iurl[item]] \subseteq Urls
    BY <1>1, QueueAssumption
  <2> QED
    BY <1>32, <1>34, <2>1
<1>6. \A i \in Items : i = <<i[1], i[2]>> /\ i[1] \in Jobs
  BY DEF Items
<1>7. \A i \in Items :
        \/ istate'[i] = istate[i] /\ iurl'[i] = iurl[i]
        \/ istate[i] = "absent" /\ istate'[i] = "queued" /\ iurl'[i] \in Urls /\ i[1] = cur
  BY <1>32, <1>4, <1>5, <1>6
<1>8. RowsTypeOK'
  <2>1. istate' \in [Items -> ItemStates]
    BY <1>32, <1>7 DEF Inv, TypeOK, RowsTypeOK, ItemStates, Inflight
  <2>2. iurl' \in [Items -> Urls \cup {NoUrl}]
    BY <1>32, <1>7 DEF Inv, TypeOK, RowsTypeOK
  <2> QED
    BY <1>1, <2>1, <2>2 DEF Inv, TypeOK, RowsTypeOK, jobVars, videoVars
<1>9. RowsNamed'
  BY <1>1, <1>7 DEF Inv, RowsInv, RowsNamed
<1>10. RunningItemHasRunningJob'
  BY <1>1, <1>7 DEF Inv, RowsInv, RunningItemHasRunningJob, jobVars
<1>11. TerminalJobIsComplete'
  BY <1>1, <1>2, <1>7 DEF Inv, RowsInv, TerminalJobIsComplete, jobVars, JobTerminal
<1>12. OneInflightPerVideo'
  <2>1. \A i \in Items : istate[i] = "absent" => ivid[i] = NoVideo
    BY DEF Inv, RowsInv, RowsNamed
  <2> QED
    BY <1>1, <1>7, <2>1 DEF Inv, RowsInv, OneInflightPerVideo
<1>13. ProcessTypeOK'
  BY <1>1 DEF Inv, TypeOK, ProcessTypeOK, procVars, PCs, Driving
<1>14. LoopInv' /\ OneAtATime'
  BY <1>1, <1>2, <1>7 DEF Inv, LoopInv, OneAtATime, Driving, InItem, Waiting, jobVars, procVars
<1> QED
  BY <1>8, <1>9, <1>10, <1>11, <1>12, <1>13, <1>14 DEF Inv, TypeOK, RowsInv

\* A submission opens one job, and supersedes queued items only.
LEMMA IndexVideoInv == Inv /\ IndexVideo => Inv'
<1> SUFFICES ASSUME Inv, IndexVideo PROVE Inv'
  OBVIOUS
<1>1. PICK j \in Jobs, r \in Requests, known, current \in SUBSET Videos :
        Submit(j, r, known, current)
  BY DEF IndexVideo
<1> DEFINE seqs == 0..(Len(r.urls) - 1)
           queued == {s \in seqs : ~Skipped(r, known, current, s + 1)}
           wanted(s) == NewVideo(r, known, s + 1)
           claims == {i \in Items : /\ istate[i] \in Inflight /\ ivid[i] # NoVideo
                                    /\ \E s \in queued : ivid[i] = wanted(s)}
           new(i) == i[1] = j /\ i[2] \in seqs
<1>2. /\ jstate[j] = "absent"
      /\ \A i \in claims : Supersedable(r, i)
      /\ \A s, t \in queued : s # t => wanted(s) # wanted(t) \/ wanted(s) = NoVideo
      /\ jstate' = [jstate EXCEPT ![j] = "queued"]
      /\ jreq' = [jreq EXCEPT ![j] = r]
      /\ tool' = "idle"
      /\ UNCHANGED <<jcancel, jerr, jwait, itry, imax, videoVars, runVars,
                     up, stopping, held, toolHeld, stops, crashes>>
  BY <1>1 DEF Submit
<1>3. istate' = [i \in Items |->
        IF i \in claims THEN "cancelled"
        ELSE IF i[1] = j /\ i[2] \in queued THEN "queued"
        ELSE IF i[1] = j /\ i[2] \in seqs THEN "skipped" ELSE istate[i]]
  BY <1>1 DEF Submit
<1>4. ierr' = [i \in Items |->
        IF i \in claims THEN "E_SUPERSEDED"
        ELSE IF i[1] = j /\ i[2] \in seqs \ queued THEN "E_ALREADY_INDEXED" ELSE ierr[i]]
  BY <1>1 DEF Submit
<1>5. /\ iurl' = [i \in Items |-> IF new(i) THEN r.urls[i[2] + 1] ELSE iurl[i]]
      /\ ivid' = [i \in Items |-> IF new(i) THEN wanted(i[2]) ELSE ivid[i]]
  BY <1>1 DEF Submit
<1>6. \A s \in seqs : r.urls[s + 1] \in Urls
  BY QueueAssumption
<1>7. \A s \in seqs : wanted(s) \in Videos \cup {NoVideo}
  BY <1>6, QueueAssumption DEF NewVideo
<1>8. \A i \in claims : istate[i] = "queued" /\ jstate[i[1]] # "running"
  BY <1>2 DEF Supersedable, Inflight, Inv, RowsInv, RunningItemHasRunningJob
<1>9. queued \subseteq seqs
  OBVIOUS
<1>10. \A i \in claims : \E s \in queued : ivid[i] = wanted(s)
  OBVIOUS
<1>11. \A i \in Items : \A s \in queued :
         istate[i] \in Inflight /\ ivid[i] # NoVideo /\ ivid[i] = wanted(s) => i \in claims
  OBVIOUS
<1>12. \A i \in Items : i = <<i[1], i[2]>> /\ i[1] \in Jobs
  BY DEF Items
<1> HIDE DEF seqs, queued, wanted, claims
<1>13. RowsTypeOK'
  <2>1. istate' \in [Items -> ItemStates]
    BY <1>3 DEF Inv, TypeOK, RowsTypeOK, ItemStates, Inflight, Terminal
  <2>2. ierr' \in [Items -> Codes]
    BY <1>4 DEF Inv, TypeOK, RowsTypeOK, Codes
  <2>3. iurl' \in [Items -> Urls \cup {NoUrl}]
    BY <1>5, <1>6 DEF Inv, TypeOK, RowsTypeOK
  <2>4. ivid' \in [Items -> Videos \cup {NoVideo}]
    BY <1>5, <1>7 DEF Inv, TypeOK, RowsTypeOK
  <2> QED
    BY <1>2, <2>1, <2>2, <2>3, <2>4
       DEF Inv, TypeOK, RowsTypeOK, JobStates, Inflight, videoVars
<1>14. RowsNamed'
  <2> SUFFICES ASSUME NEW i \in Items
               PROVE  /\ istate'[i] # "absent" => iurl'[i] \in Urls
                      /\ istate'[i] = "absent" => ivid'[i] = NoVideo
    BY DEF RowsNamed
  <2>1. CASE new(i)
    BY <1>3, <1>5, <1>6, <1>9, <2>1
  <2>2. CASE ~new(i)
    BY <1>3, <1>5, <1>8, <1>9, <2>2 DEF Inv, RowsInv, RowsNamed
  <2> QED
    BY <2>1, <2>2
<1>15. RunningItemHasRunningJob'
  <2>1. \A i \in Items : istate'[i] = "running" => istate[i] = "running"
    BY <1>3
  <2> QED
    BY <1>2, <1>12, <2>1 DEF Inv, TypeOK, RowsTypeOK, RowsInv, RunningItemHasRunningJob
<1>16. TerminalJobIsComplete'
  <2>1. \A i \in Items : i[1] # j => istate'[i] = istate[i] \/ istate'[i] = "cancelled"
    BY <1>3
  <2> QED
    BY <1>2, <2>1
       DEF Inv, TypeOK, RowsTypeOK, RowsInv, TerminalJobIsComplete, JobTerminal, Terminal
<1>17. OneInflightPerVideo'
  <2>1. \A i \in Items : istate'[i] \in Inflight =>
          /\ i \notin claims
          /\ \/ i[1] = j /\ i[2] \in queued /\ ivid'[i] = wanted(i[2])
             \/ ~new(i) /\ istate[i] \in Inflight /\ ivid'[i] = ivid[i]
    BY <1>3, <1>5, <1>9 DEF Inflight
  <2> SUFFICES ASSUME NEW i \in Items, NEW k \in Items,
                      istate'[i] \in Inflight, istate'[k] \in Inflight,
                      ivid'[i] = ivid'[k], ivid'[i] # NoVideo
               PROVE  i = k
    BY DEF OneInflightPerVideo
  <2>2. CASE /\ i[1] = j /\ i[2] \in queued /\ ivid'[i] = wanted(i[2])
             /\ k[1] = j /\ k[2] \in queued /\ ivid'[k] = wanted(k[2])
    BY <1>2, <1>12, <2>2
  <2>3. CASE /\ i[1] = j /\ i[2] \in queued /\ ivid'[i] = wanted(i[2])
             /\ istate[k] \in Inflight /\ ivid'[k] = ivid[k]
    BY <1>11, <2>1, <2>3
  <2>4. CASE /\ k[1] = j /\ k[2] \in queued /\ ivid'[k] = wanted(k[2])
             /\ istate[i] \in Inflight /\ ivid'[i] = ivid[i]
    BY <1>11, <2>1, <2>4
  <2>5. CASE /\ istate[i] \in Inflight /\ ivid'[i] = ivid[i]
             /\ istate[k] \in Inflight /\ ivid'[k] = ivid[k]
    BY <2>5 DEF Inv, RowsInv, OneInflightPerVideo
  <2> QED
    BY <2>1, <2>2, <2>3, <2>4, <2>5
<1>18. ProcessTypeOK'
  BY <1>2 DEF Inv, TypeOK, ProcessTypeOK, runVars
<1>19. LoopInv' /\ OneAtATime'
  <2>1. \A i \in Items : istate[i] = "running" => istate'[i] = "running" /\ i \notin claims
    BY <1>2, <1>3, <1>8, <1>9 DEF Inv, RowsInv, RunningItemHasRunningJob
  <2>2. \A i \in Items : istate'[i] = "running" => istate[i] = "running"
    BY <1>3
  <2> QED
    BY <1>2, <2>1, <2>2
       DEF Inv, TypeOK, RowsTypeOK, LoopInv, OneAtATime, runVars, Driving, InItem
<1> QED
  BY <1>13, <1>14, <1>15, <1>16, <1>17, <1>18, <1>19 DEF Inv, TypeOK, RowsInv

-----------------------------------------------------------------------------
(* The theorems *)

\* Every step of the system keeps the invariant.
LEMMA StepInv == Inv /\ [Next]_vars => Inv'
  BY Stutter, ToolInv, ToolSweepWriteInv, IndexVideoInv, RequestCancelInv, ExpireInv,
     RunnerSweepInv, ClaimNextInv, MovesInv, ActivateInv, CancelJobInv, ClaimItemInv,
     NoItemLeftInv, ExpandInv, LandInv, FinalizeInv, ExtendInv, DeferInv, FinishItemInv,
     SettleInv, BootInv, StopBeginInv, StopReleaseInv, CrashInv
  DEF Next, RunnerStep, RunItem

\* The inductive invariant holds in every reachable state: where the loop
\* stands, what _active knows and what the rows say always agree.
THEOREM Invariance == Spec => []Inv
  BY InitInv, StepInv, PTL DEF Spec

(* Every variable keeps its type, whatever the jobs, URLs, videos, failures *)
(* and bounds of the instance.                                              *)
THEOREM TypeCorrect == Spec => []TypeOK
<1>1. Inv => TypeOK
  BY DEF Inv
<1> QED
  BY <1>1, Invariance, PTL

(* The claim the runner is driving is never taken away from it: no sweep,   *)
(* cancel, submission or stop of any interleaving changes the job's state   *)
(* or the item's while _drive is on it.                                     *)
THEOREM ClaimKept == Spec => []ClaimInHand
<1>1. Inv => ClaimInHand
  BY DEF Inv, LoopInv, ClaimInHand
<1> QED
  BY <1>1, Invariance, PTL

(* No running item is orphaned: its job is running too, where the staleness *)
(* sweep looks for it.                                                      *)
THEOREM NoOrphanedItem == Spec => []RunningItemHasRunningJob
<1>1. Inv => RunningItemHasRunningJob
  BY DEF Inv, RowsInv
<1> QED
  BY <1>1, Invariance, PTL

\* A job that ended left no item in flight.
THEOREM EndedJobsAreComplete == Spec => []TerminalJobIsComplete
<1>1. Inv => TerminalJobIsComplete
  BY DEF Inv, RowsInv
<1> QED
  BY <1>1, Invariance, PTL

\* The one-inflight index is never violated, by any writer.
THEOREM OneHolderPerVideo == Spec => []OneInflightPerVideo
<1>1. Inv => OneInflightPerVideo
  BY DEF Inv, RowsInv
<1> QED
  BY <1>1, Invariance, PTL
=============================================================================
