-------------------------- MODULE JobQueueRowProofs --------------------------
(***************************************************************************)
(* More theorems about JobQueue, each from an inductive invariant of its   *)
(* own on top of the one of JobQueueProofs: cancellation and backoff,      *)
(* publication, supersession, the retry budget and what retires an item,   *)
(* the answer to a rate limit, the ledger a handle stands for, expansion.  *)
(***************************************************************************)
EXTENDS JobQueueProofs, FiniteSetTheorems

-----------------------------------------------------------------------------
(* A cancelled job never sits out a backoff.  A job that waits was deferred *)
(* and is queued, or was cancelled since; so a sweep, which takes running   *)
(* jobs only, can put back a cancelled job but never a waiting one.         *)

WaitInv ==
  /\ \A j \in Jobs : jwait[j] => jstate[j] \notin {"absent", "running"}
  /\ CancelNeverWaits

\* A requeue takes running jobs, and none of those waits.
LEMMA WaitRequeue ==
  ASSUME Inv, WaitInv, NEW S \in SUBSET Jobs, NEW spent, \A j \in S : jstate[j] = "running",
         Requeue(S, spent)
  PROVE  WaitInv'
  BY DEF Inv, TypeOK, RowsTypeOK, WaitInv, CancelNeverWaits, Requeue

\* Steps that leave the wait, the mark and the state of jobs alone.
LEMMA WaitSame ==
  ASSUME WaitInv, UNCHANGED <<jstate, jwait, jcancel>>
  PROVE  WaitInv'
  BY DEF WaitInv, CancelNeverWaits

\* Every step keeps cancelled jobs out of their backoff.
LEMMA WaitStep == Inv /\ WaitInv /\ [Next]_vars => WaitInv'
<1> SUFFICES ASSUME Inv, WaitInv, [Next]_vars PROVE WaitInv'
  OBVIOUS
<1>1. ASSUME NEW snapshot, NEW quiet, ReclaimStale(snapshot, quiet) PROVE WaitInv'
  BY <1>1, SweepSparesClaim, WaitRequeue DEF ReclaimStale
<1>2. CASE ToolSweepWrite \/ RunnerSweep \/ Boot
  BY <1>1, <1>2 DEF ToolSweepWrite, RunnerSweep, RunnerSweeps, Boot
<1>3. CASE StopRelease
  <2>1. Requeue({j \in held : jstate[j] = "running"}, {}) /\ held \in SUBSET Jobs
    BY <1>3 DEF StopRelease, ReleaseClaims, Inv, TypeOK, ProcessTypeOK
  <2> QED
    BY <2>1, WaitRequeue
<1>4. CASE IndexVideo
  <2>1. PICK j \in Jobs, r \in Requests, known, current \in SUBSET Videos : Submit(j, r, known, current)
    BY <1>4 DEF IndexVideo
  <2>2. jstate[j] = "absent" /\ jstate' = [jstate EXCEPT ![j] = "queued"]
        /\ UNCHANGED <<jwait, jcancel>>
    BY <2>1 DEF Submit
  <2> QED
    BY <2>2 DEF Inv, TypeOK, RowsTypeOK, WaitInv, CancelNeverWaits
<1>5. ASSUME NEW j \in Jobs, RequestCancel(j) PROVE WaitInv'
  BY <1>5 DEF RequestCancel, Inv, TypeOK, RowsTypeOK, WaitInv, CancelNeverWaits, Inflight
<1>6. ASSUME NEW j \in Jobs, Expire(j) PROVE WaitInv'
  BY <1>6 DEF Expire, Inv, TypeOK, RowsTypeOK, WaitInv, CancelNeverWaits
<1>7. CASE ClaimNext
  BY <1>7 DEF ClaimNext, Runnable, Inv, TypeOK, RowsTypeOK, WaitInv, CancelNeverWaits
<1>8. CASE CancelJob
  <2>1. cur \in Jobs /\ jstate[cur] = "running"
    BY <1>8 DEF Inv, LoopInv, CancelJob, Driving
  <2> QED
    BY <1>8, <2>1 DEF CancelJob, CancelRemaining, Inv, TypeOK, RowsTypeOK, WaitInv, CancelNeverWaits
<1>9. CASE Defer
  <2>1. cur \in Jobs /\ jstate[cur] = "running"
    BY <1>9 DEF Inv, LoopInv, Defer, Driving
  <2>2. \/ ~jcancel[cur] /\ jstate' = [jstate EXCEPT ![cur] = "queued"]
                         /\ jwait' = [jwait EXCEPT ![cur] = TRUE] /\ jcancel' = jcancel
        \/ jstate' = [jstate EXCEPT ![cur] = "cancelled"] /\ UNCHANGED <<jwait, jcancel>>
    BY <1>9 DEF Defer, CancelRemaining, CancelSeen
  <2> QED
    BY <2>1, <2>2 DEF Inv, TypeOK, RowsTypeOK, WaitInv, CancelNeverWaits
<1>10. CASE Settle
  <2>1. cur \in Jobs /\ JobResult(cur) \in JobTerminal
    BY <1>10 DEF Inv, LoopInv, Settle, JobResult, JobTerminal
  <2> QED
    BY <1>10, <2>1
       DEF Settle, Inv, TypeOK, RowsTypeOK, WaitInv, CancelNeverWaits, JobTerminal
<1>11. CASE UNCHANGED <<jstate, jwait, jcancel>>
  BY <1>11, WaitSame
<1> QED
  BY <1>2, <1>3, <1>4, <1>5, <1>6, <1>7, <1>8, <1>9, <1>10, <1>11
  DEF Next, RunnerStep, RunItem, vars, jobVars, ToolSweepRead, ToolRefused, NothingToClaim,
      Activate, CheckCancel, ClaimItem, NoItemLeft, Expand, FeatureDisabled, FetchFails, Land,
      LandLocally, StageFails, Checkpoint, Finalize, SettleVideo, Extend, Retire, FinishItem, StopBegin, Crash

(* No job sits out a backoff it was asked to give up, whichever of the      *)
(* cancel and the deferral commits first.                                   *)
THEOREM CancelIsPrompt == Spec => []CancelNeverWaits
<1>1. Init => WaitInv
  BY DEF Init, WaitInv, CancelNeverWaits
<1>2. WaitInv => CancelNeverWaits
  BY DEF WaitInv
<1> QED
  BY <1>1, <1>2, WaitStep, Invariance, PTL DEF Spec

-----------------------------------------------------------------------------
(* What was indexed stays published.  A video that reads `indexing` is      *)
(* being worked on or was let go of, and by the time an item has left its   *)
(* stages, or before it enters them, only the second is left.               *)

LetGo == {"work", "fail", "decide", "finish"}

PublishedInv ==
  /\ \A v \in Videos : vindexed[v] => vstate[v] \in {"ready", "stale", "indexing"}
  /\ \A v \in Videos : vstate[v] = "indexing" =>
       v \in loose \/ \E i \in HoldersOf(v) : istate[i] = "running"
  /\ pc \in LetGo /\ ivid[item] \in Videos /\ vstate[ivid[item]] = "indexing" =>
       ivid[item] \in loose

\* Where the next item stands: it leaves no mark behind, or it is in its stages.
Lets == pc' \in LetGo =>
  \/ pc \in LetGo /\ item' = item /\ ivid'[item] = ivid[item]
  \/ ivid'[item'] \in Videos /\ vstate[ivid'[item']] = "indexing" => ivid'[item'] \in loose'

\* Steps that write no video row, and end no running item but one that let go.
LEMMA PublishedSame ==
  ASSUME PublishedInv, UNCHANGED <<vstate, vindexed>>, loose \subseteq loose', Lets,
         \A i \in Items : istate[i] = "running" =>
           \/ istate'[i] = "running" /\ ivid'[i] = ivid[i]
           \/ ivid[i] \in Videos /\ vstate[ivid[i]] = "indexing" => ivid[i] \in loose
  PROVE  PublishedInv'
<1>1. \A v \in Videos : vstate'[v] = "indexing" =>
        v \in loose' \/ \E i \in HoldersOf(v)' : istate'[i] = "running"
  <2> SUFFICES ASSUME NEW v \in Videos, vstate[v] = "indexing", v \notin loose'
               PROVE  \E i \in HoldersOf(v)' : istate'[i] = "running"
    OBVIOUS
  <2>1. PICK i \in HoldersOf(v) : istate[i] = "running"
    BY DEF PublishedInv
  <2>2. i \in Items /\ ivid[i] = v
    BY DEF HoldersOf
  <2>3. istate'[i] = "running" /\ ivid'[i] = ivid[i]
    BY <2>1, <2>2
  <2> QED
    BY <2>2, <2>3 DEF HoldersOf, Inflight
<1>2. pc' \in LetGo /\ ivid'[item'] \in Videos /\ vstate'[ivid'[item']] = "indexing" =>
        ivid'[item'] \in loose'
  BY DEF PublishedInv, Lets
<1> QED
  BY <1>1, <1>2 DEF PublishedInv

\* _reset_video takes every mark of an item that was cut.
LEMMA PublishedRequeue ==
  ASSUME Inv, PublishedInv, NEW S, NEW spent \in SUBSET Interrupted(S), Requeue(S, spent),
         pc' \notin LetGo \/ UNCHANGED <<pc, item>>
  PROVE  PublishedInv'
<1>1. /\ ivid' = ivid /\ vindexed' = vindexed
      /\ loose' = {v \in loose : vstate'[v] = "indexing"}
      /\ \A v \in Videos : vstate'[v] = "indexing" =>
           vstate[v] = "indexing" /\ \A i \in Interrupted(S) : ivid[i] # v
      /\ \A i \in Items \ Interrupted(S) : istate'[i] = istate[i]
  BY DEF Requeue, ResetVideos, StillMarked
<1>2. \A v \in Videos : vindexed'[v] => vstate'[v] \in {"ready", "stale", "indexing"}
  BY DEF PublishedInv, Requeue, ResetVideos
<1>3. \A v \in Videos : vstate'[v] = "indexing" =>
        v \in loose' \/ \E i \in HoldersOf(v)' : istate'[i] = "running"
  <2> SUFFICES ASSUME NEW v \in Videos, vstate'[v] = "indexing", v \notin loose
               PROVE  \E i \in HoldersOf(v)' : istate'[i] = "running"
    BY <1>1
  <2>1. PICK i \in HoldersOf(v) : istate[i] = "running"
    BY <1>1 DEF PublishedInv
  <2>2. i \in Items \ Interrupted(S) /\ ivid[i] = v
    BY <1>1 DEF HoldersOf
  <2> QED
    BY <1>1, <2>1, <2>2 DEF HoldersOf, Inflight
<1>4. pc' \in LetGo /\ ivid'[item'] \in Videos /\ vstate'[ivid'[item']] = "indexing" =>
        ivid'[item'] \in loose'
  BY <1>1 DEF PublishedInv
<1> QED
  BY <1>2, <1>3, <1>4 DEF PublishedInv

\* Every sweep and the stop's release are such a requeue.
LEMMA PublishedSweep ==
  Inv /\ PublishedInv /\ (ToolSweepWrite \/ RunnerSweep \/ Boot \/ StopRelease) => PublishedInv'
<1> SUFFICES ASSUME Inv, PublishedInv, ToolSweepWrite \/ RunnerSweep \/ Boot \/ StopRelease
             PROVE  PublishedInv'
  OBVIOUS
<1>1. pc' \notin LetGo \/ UNCHANGED <<pc, item>>
  BY DEF ToolSweepWrite, RunnerSweep, RunnerSweeps, Boot, StopRelease, runVars, Goto, LetGo
<1>2. CASE ToolSweepWrite \/ RunnerSweep \/ Boot
  <2>1. PICK snapshot, quiet : ReclaimStale(snapshot, quiet)
    BY <1>2 DEF ToolSweepWrite, RunnerSweep, RunnerSweeps, Boot
  <2>2. PICK spent \in SUBSET Interrupted(quiet) : Requeue(quiet, spent)
    BY <2>1, ReclaimIsRequeue
  <2> QED
    BY <1>1, <2>2, PublishedRequeue
<1>3. CASE StopRelease
  <2>1. {} \in SUBSET Interrupted({j \in held : jstate[j] = "running"})
    OBVIOUS
  <2>2. Requeue({j \in held : jstate[j] = "running"}, {})
    BY <1>3 DEF StopRelease, ReleaseClaims
  <2> QED
    BY <1>1, <2>1, <2>2, PublishedRequeue
<1> QED
  BY <1>2, <1>3

\* A granted claim marks its video and is the running item that holds it; a
\* refused one lets go of the mark as it writes it.
LEMMA PublishedLand == Inv /\ PublishedInv /\ (Land \/ LandLocally) => PublishedInv'
<1> SUFFICES ASSUME Inv, PublishedInv, Land \/ LandLocally PROVE PublishedInv'
  OBVIOUS
<1>1. /\ pc = "work" /\ iurl[item] \notin Containers /\ item' = item
      /\ UNCHANGED <<istate, vindexed>>
  BY DEF Land, LandLocally, Attach, Refused, To
<1>2. /\ item \in Items /\ istate[item] = "running" /\ Target \in Videos
      /\ ivid[item] \in Videos /\ vstate[ivid[item]] = "indexing" => ivid[item] \in loose
  BY <1>1, TargetType DEF Inv, LoopInv, InItem, PublishedInv, LetGo
<1>3. vstate \in [Videos -> VideoStates] /\ ivid \in [Items -> Videos \cup {NoVideo}]
  BY DEF Inv, TypeOK, RowsTypeOK
<1>4. CASE Attach
  <2>1. /\ ivid' = [ivid EXCEPT ![item] = Target] /\ pc' = "stages"
        /\ vstate' = [vstate EXCEPT ![Target] = "indexing"] /\ loose' = loose \ {Target}
    BY <1>4 DEF Attach, To, Goto
  <2>2. ASSUME NEW v \in Videos, vstate'[v] = "indexing", v \notin loose'
        PROVE  \E i \in HoldersOf(v)' : istate'[i] = "running"
    <3>1. CASE v = Target
      <4>1. ivid'[item] = v /\ istate'[item] = "running"
        BY <1>1, <1>2, <1>3, <2>1, <3>1
      <4> QED
        BY <1>2, <4>1 DEF HoldersOf, Inflight
    <3>2. CASE v # Target
      <4>1. vstate[v] = "indexing" /\ v \notin loose
        BY <1>3, <2>1, <2>2, <3>2
      <4>2. PICK i \in HoldersOf(v) : istate[i] = "running"
        BY <4>1 DEF PublishedInv
      <4>3. i \in Items /\ ivid[i] = v /\ i # item
        BY <1>2, <4>1 DEF HoldersOf
      <4> QED
        BY <1>1, <1>3, <2>1, <4>2, <4>3 DEF HoldersOf, Inflight
    <3> QED
      BY <3>1, <3>2
  <2> QED
    BY <1>1, <1>2, <1>3, <2>1, <2>2 DEF PublishedInv, LetGo
<1>5. CASE Refused
  <2>1. /\ ivid' = ivid
        /\ \/ UNCHANGED <<vstate, loose>>
           \/ /\ vstate' = [vstate EXCEPT ![Target] = "indexing"]
              /\ loose' = loose \cup {Target}
    BY <1>5 DEF Land, LandLocally, Attach, Refused, Clashes
  <2>2. ASSUME NEW v \in Videos, vstate'[v] = "indexing", v \notin loose'
        PROVE  \E i \in HoldersOf(v)' : istate'[i] = "running"
    <3>1. vstate[v] = "indexing" /\ v \notin loose
      BY <1>3, <2>1, <2>2
    <3>2. HoldersOf(v)' = HoldersOf(v)
      BY <1>1, <2>1 DEF HoldersOf
    <3> QED
      BY <1>1, <3>1, <3>2 DEF PublishedInv
  <2>3. ivid'[item'] \in Videos /\ vstate'[ivid'[item']] = "indexing" => ivid'[item'] \in loose'
    BY <1>1, <1>2, <1>3, <2>1
  <2> QED
    BY <1>1, <1>2, <1>3, <2>1, <2>2, <2>3 DEF PublishedInv
<1> QED
  BY <1>4, <1>5 DEF Land, LandLocally

\* An item that finalizes or is unwound takes its mark with it.
LEMMA PublishedSettle == Inv /\ PublishedInv /\ (Finalize \/ SettleVideo) => PublishedInv'
<1> SUFFICES ASSUME Inv, PublishedInv, Finalize \/ SettleVideo PROVE PublishedInv'
  OBVIOUS
<1> DEFINE v == ivid[item]
<1>1. UNCHANGED <<istate, ivid, item>> /\ loose' = loose \ {v}
  BY DEF Finalize, SettleVideo, To, itemVars
<1>2. PICK state :
        /\ vstate' = [vstate EXCEPT ![v] = state] /\ state # "indexing"
        /\ \/ UNCHANGED vindexed /\ (vindexed[v] => state \in {"ready", "stale"})
           \/ vindexed' = [vindexed EXCEPT ![v] = TRUE] /\ state = "ready"
  <2>1. CASE Finalize
    BY <2>1 DEF Finalize, FailedVideo
  <2>2. CASE SettleVideo
    BY <2>2 DEF SettleVideo, Unwound, FailedVideo
  <2> QED
    BY <2>1, <2>2
<1>3. /\ vstate \in [Videos -> VideoStates] /\ vindexed \in [Videos -> BOOLEAN]
      /\ \A u \in Videos : HoldersOf(u)' = HoldersOf(u)
  BY <1>1 DEF Inv, TypeOK, RowsTypeOK, HoldersOf
<1> HIDE DEF v
<1>4. \A u \in Videos : vindexed'[u] => vstate'[u] \in {"ready", "stale", "indexing"}
  BY <1>2, <1>3 DEF PublishedInv
<1>5. \A u \in Videos : vstate'[u] = "indexing" => vstate[u] = "indexing" /\ u # v
  BY <1>2, <1>3
<1>6. \A u \in Videos : vstate'[u] = "indexing" =>
        u \in loose' \/ \E i \in HoldersOf(u)' : istate'[i] = "running"
  BY <1>1, <1>3, <1>5 DEF PublishedInv
<1>7. ivid'[item'] \in Videos => vstate'[ivid'[item']] # "indexing"
  BY <1>1, <1>5 DEF v
<1> QED
  BY <1>4, <1>6, <1>7 DEF PublishedInv

\* An untyped exception leaves its mark, in `loose`.
LEMMA PublishedFails == Inv /\ PublishedInv /\ StageFails => PublishedInv'
<1> SUFFICES ASSUME Inv, PublishedInv, StageFails PROVE PublishedInv'
  OBVIOUS
<1>1. /\ UNCHANGED <<istate, ivid, item, vstate, vindexed>> /\ loose \subseteq loose'
      /\ pc' # "unwind" /\ ivid[item] \in Videos => ivid[item] \in loose'
  BY DEF StageFails, To, Goto, itemVars
<1>2. Lets
  BY <1>1 DEF Lets, LetGo
<1> QED
  BY <1>1, <1>2, PublishedSame

\* The runner claims an item only when nobody else is on its video.
LEMMA PublishedClaim == Inv /\ PublishedInv /\ ClaimItem => PublishedInv'
<1> SUFFICES ASSUME Inv, PublishedInv, ClaimItem PROVE PublishedInv'
  OBVIOUS
<1>1. PICK i \in Items : /\ istate[i] = "queued" /\ item' = i
                         /\ istate' = [istate EXCEPT ![i] = "running"]
  BY DEF ClaimItem, QueuedOf, ItemsOf
<1>2. UNCHANGED <<ivid, vstate, vindexed, loose>> /\ istate \in [Items -> ItemStates]
  BY DEF ClaimItem, videoVars, Inv, TypeOK, RowsTypeOK
<1>3. ivid[i] \in Videos /\ vstate[ivid[i]] = "indexing" => ivid[i] \in loose
  <2> SUFFICES ASSUME ivid[i] \in Videos, vstate[ivid[i]] = "indexing", ivid[i] \notin loose
               PROVE  FALSE
    OBVIOUS
  <2>1. PICK k \in HoldersOf(ivid[i]) : istate[k] = "running"
    BY DEF PublishedInv
  <2>2. ivid[i] # NoVideo
    BY QueueAssumption
  <2>3. k = i
    BY <1>1, <2>1, <2>2 DEF HoldersOf, Inflight, Inv, RowsInv, OneInflightPerVideo
  <2> QED
    BY <1>1, <2>1, <2>3
<1>4. Lets
  BY <1>1, <1>2, <1>3 DEF Lets
<1>5. \A k \in Items : istate[k] = "running" => istate'[k] = "running" /\ ivid'[k] = ivid[k]
  BY <1>1, <1>2
<1> QED
  BY <1>2, <1>4, <1>5, PublishedSame

\* Ending the item in hand, one way or the other, ends the only running one.
LEMMA PublishedEnd == Inv /\ PublishedInv /\ (FinishItem \/ Defer \/ CancelJob) => PublishedInv'
<1> SUFFICES ASSUME Inv, PublishedInv, FinishItem \/ Defer \/ CancelJob PROVE PublishedInv'
  OBVIOUS
<1>1. /\ UNCHANGED <<ivid, vstate, vindexed, loose>> /\ pc' \in {"check", "settle"}
      /\ istate \in [Items -> ItemStates]
  BY DEF FinishItem, Defer, CancelJob, LeaveDrive, Goto, videoVars, Inv, TypeOK, RowsTypeOK
<1>2. \A i \in Items : istate[i] = "running" /\ i[1] = cur => pc \in LetGo /\ i = item
  BY DEF FinishItem, Defer, CancelJob, Inv, OneAtATime, Waiting, InItem, LetGo
<1>3. \A i \in Items : istate[i] = "running" /\ i[1] # cur => istate'[i] = "running"
  <2>1. pc \in InItem => item[1] = cur
    BY DEF Inv, LoopInv
  <2> QED
    BY <1>1, <2>1 DEF FinishItem, Defer, CancelJob, CancelRemaining, Unfinished, ItemsOf, InItem
<1>4. \A i \in Items : istate[i] = "running" =>
        \/ istate'[i] = "running" /\ ivid'[i] = ivid[i]
        \/ ivid[i] \in Videos /\ vstate[ivid[i]] = "indexing" => ivid[i] \in loose
  BY <1>1, <1>2, <1>3 DEF PublishedInv
<1>5. Lets
  BY <1>1 DEF Lets, LetGo
<1> QED
  BY <1>1, <1>4, <1>5, PublishedSame

\* Callers and expansions add rows and end queued ones, never a running one.
LEMMA PublishedAround ==
  ASSUME Inv, PublishedInv, IndexVideo \/ Expand \/ \E j \in Jobs : RequestCancel(j)
  PROVE  PublishedInv'
<1>1. UNCHANGED <<vstate, vindexed, loose, item>>
  BY DEF IndexVideo, Submit, Expand, RequestCancel, To, videoVars, runVars
<1>2. \A i \in Items : istate[i] = "running" => istate'[i] = "running" /\ ivid'[i] = ivid[i]
  <2> SUFFICES ASSUME NEW i \in Items, istate[i] = "running"
               PROVE  istate'[i] = "running" /\ ivid'[i] = ivid[i]
    OBVIOUS
  <2>1. jstate[i[1]] = "running"
    BY DEF Inv, RowsInv, RunningItemHasRunningJob
  <2>2. CASE IndexVideo
    <3>1. PICK j \in Jobs, r \in Requests, known, current \in SUBSET Videos :
            Submit(j, r, known, current)
      BY <2>2 DEF IndexVideo
    <3> DEFINE seqs == 0..(Len(r.urls) - 1)
               queued == {s \in seqs : ~Skipped(r, known, current, s + 1)}
               claims == {k \in Items : /\ istate[k] \in Inflight /\ ivid[k] # NoVideo
                                        /\ \E s \in queued : ivid[k] = NewVideo(r, known, s + 1)}
    <3>2. /\ jstate[j] = "absent" /\ \A k \in claims : Supersedable(r, k)
          /\ istate' = [k \in Items |->
               IF k \in claims THEN "cancelled"
               ELSE IF k[1] = j /\ k[2] \in queued THEN "queued"
               ELSE IF k[1] = j /\ k[2] \in seqs THEN "skipped" ELSE istate[k]]
          /\ ivid' = [k \in Items |-> IF k[1] = j /\ k[2] \in seqs
                                      THEN NewVideo(r, known, k[2] + 1) ELSE ivid[k]]
      BY <3>1 DEF Submit
    <3>3. i \notin claims /\ i[1] # j
      BY <2>1, <3>2 DEF Supersedable
    <3> HIDE DEF seqs, queued, claims
    <3> QED
      BY <3>2, <3>3
  <2>3. CASE Expand
    <3>1. PICK entries \in SUBSET Listing[iurl[item]], start \in 0..(MaxSeq + 1) :
            AppendItems(cur, entries, start)
      BY <2>3 DEF Expand
    <3> DEFINE fresh == entries \ Seen(cur)
               added == IF Cardinality(fresh) < Room(cur) THEN Cardinality(fresh) ELSE Room(cur)
               kids == start..(start + added - 1)
    <3>2. /\ \A s \in Seqs : s < start <=> istate[<<cur, s>>] # "absent"
          /\ kids \subseteq Seqs
          /\ istate' = [k \in Items |-> IF k[1] = cur /\ k[2] \in kids
                                        THEN "queued" ELSE istate[k]]
      BY <3>1 DEF AppendItems
    <3>3. \A s \in kids : s \in Nat /\ start <= s
      BY <3>2 DEF Seqs
    <3> HIDE DEF kids, fresh
    <3>4. \A s \in kids : istate[<<cur, s>>] = "absent"
      BY <3>2, <3>3 DEF Seqs
    <3>5. i = <<i[1], i[2]>>
      BY DEF Items
    <3> QED
      BY <2>3, <3>2, <3>4, <3>5 DEF Expand
  <2>4. CASE \E j \in Jobs : RequestCancel(j)
    <3>1. PICK j \in Jobs : RequestCancel(j)
      BY <2>4
    <3>2. i[1] = j => jstate[j] = "running"
      BY <2>1
    <3> QED
      BY <3>1, <3>2 DEF RequestCancel, Unfinished, ItemsOf, Inv, TypeOK, RowsTypeOK
  <2> QED
    BY <2>2, <2>3, <2>4
<1>3. Lets
  <2>1. pc \in LetGo => item \in Items /\ istate[item] = "running"
    BY DEF Inv, LoopInv, LetGo, InItem
  <2>2. pc' \in LetGo => pc \in LetGo
    BY DEF IndexVideo, Submit, Expand, RequestCancel, runVars, LetGo
  <2> QED
    BY <1>1, <1>2, <2>1, <2>2 DEF Lets
<1> QED
  BY <1>1, <1>2, <1>3, PublishedSame

\* Every step keeps indexed videos published.
LEMMA PublishedStep == Inv /\ PublishedInv /\ [Next]_vars => PublishedInv'
<1> SUFFICES ASSUME Inv, PublishedInv, [Next]_vars PROVE PublishedInv'
  OBVIOUS
<1>1. CASE /\ UNCHANGED <<istate, ivid, vstate, vindexed, loose>>
           /\ \/ pc' \notin LetGo
              \/ pc \in LetGo /\ item' = item
  <2>1. Lets
    BY <1>1 DEF Lets
  <2> QED
    BY <1>1, <2>1, PublishedSame
<1>2. CASE \/ ToolSweepRead \/ ToolRefused \/ UNCHANGED vars \/ \E j \in Jobs : Expire(j)
  <2>1. UNCHANGED <<istate, ivid, vstate, vindexed, loose, pc, item>>
    BY <1>2 DEF vars, runVars, itemVars, videoVars, ToolSweepRead, ToolRefused, Expire
  <2> QED
    BY <1>1, <2>1
<1>3. CASE \/ ClaimNext \/ NothingToClaim \/ Activate \/ CheckCancel \/ NoItemLeft \/ Checkpoint
           \/ Settle \/ StopBegin \/ Crash
  <2>1. UNCHANGED <<istate, ivid, vstate, vindexed, loose>>
    BY <1>3 DEF itemVars, videoVars, ClaimNext, NothingToClaim, Activate, CheckCancel, NoItemLeft,
                Checkpoint, Settle, StopBegin, Crash
  <2>2. pc' \notin LetGo
    BY <1>3 DEF LetGo, Goto, To, LeaveDrive, ClaimNext, NothingToClaim, Activate, CheckCancel,
                NoItemLeft, Checkpoint, Settle, StopBegin, Crash
  <2> QED
    BY <1>1, <2>1, <2>2
<1>4. CASE FeatureDisabled \/ FetchFails \/ Extend \/ Retire
  <2>1. /\ UNCHANGED <<istate, ivid, vstate, vindexed, loose, item>>
        /\ pc \in LetGo
    BY <1>4 DEF itemVars, videoVars, To, LetGo, FeatureDisabled, FetchFails, Extend, Retire
  <2> QED
    BY <1>1, <2>1
<1> QED
  BY <1>2, <1>3, <1>4, PublishedSweep, PublishedLand, PublishedSettle, PublishedFails, PublishedClaim,
     PublishedEnd, PublishedAround
  DEF Next, RunnerStep, RunItem

(* A reindex that fails for a typed reason, is cancelled, stopped or killed *)
(* never takes a video that was indexed out of what queries read: once no   *)
(* item works on it, it is ready or stale, for any number of jobs over it,  *)
(* but for a mark let go of (`loose`).                                      *)
THEOREM ReindexKeepsPublished == Spec => []IndexedStaysPublished
<1>1. Init => PublishedInv
  BY DEF Init, PublishedInv, LetGo
<1>2. PublishedInv => IndexedStaysPublished
  BY DEF PublishedInv, IndexedStaysPublished
<1> QED
  BY <1>1, <1>2, PublishedStep, Invariance, PTL DEF Spec

-----------------------------------------------------------------------------
(* Supersession.  The one write of E_SUPERSEDED is the submission's, on     *)
(* items whose job no runner is driving; no ending carries the code, nor    *)
(* the one the sweeps retire with.                                          *)

EndingInv == ending.code \notin {"E_SUPERSEDED", "E_CRASHED"}

\* No ending in the runner's hands ever carries either code.
LEMMA EndingStep == Inv /\ EndingInv /\ [Next]_vars => EndingInv'
<1> SUFFICES ASSUME Inv, EndingInv, [Next]_vars PROVE EndingInv'
  OBVIOUS
<1>1. \A state, code : End(state, code).code = code
  BY DEF End
<1>2. CASE ending' = ending
  BY <1>2 DEF EndingInv
<1>3. CASE ending' = NoEnding
  BY <1>1, <1>3 DEF EndingInv, NoEnding
<1>4. CASE \E state, code : /\ code \notin {"E_SUPERSEDED", "E_CRASHED"}
                            /\ ending' = End(state, code)
  BY <1>1, <1>4 DEF EndingInv
<1>5. CASE Expand \/ FeatureDisabled \/ FetchFails \/ Land \/ LandLocally \/ StageFails \/ Checkpoint
           \/ Finalize \/ SettleVideo \/ Extend \/ Retire
  BY <1>2, <1>3, <1>4, <1>5
  DEF Expand, FeatureDisabled, FetchFails, Land, LandLocally, Attach, Refused, StageFails, Checkpoint,
      Finalize, SettleVideo, Extend, Retire, To, SourceFailures
<1>6. CASE CancelJob \/ NoItemLeft \/ Defer \/ FinishItem \/ StopBegin \/ Crash
  BY <1>2, <1>3, <1>6
  DEF CancelJob, NoItemLeft, Defer, LeaveDrive, FinishItem, StopBegin, Crash
<1> QED
  BY <1>2, <1>5, <1>6
  DEF Next, RunnerStep, RunItem, vars, runVars, ToolSweepRead, ToolSweepWrite, ToolRefused,
      IndexVideo, Submit, RequestCancel, Expire, RunnerSweep, RunnerSweeps, ClaimNext,
      NothingToClaim, Activate, CheckCancel, ClaimItem, Settle, Boot, StopRelease

SparesLive ==
  \A i \in Items : istate[i] = "running" => ierr'[i] # "E_SUPERSEDED" \/ ierr[i] = ierr'[i]

\* Every step spares the items being worked on.
LEMMA SparesLiveStep == Inv /\ EndingInv /\ [Next]_vars => SparesLive
<1> SUFFICES ASSUME Inv, EndingInv, [Next]_vars,
                    NEW i \in Items, istate[i] = "running"
             PROVE  ierr'[i] # "E_SUPERSEDED" \/ ierr[i] = ierr'[i]
  BY DEF SparesLive
<1>1. CASE IndexVideo
  <2>1. PICK j \in Jobs, r \in Requests, known, current \in SUBSET Videos : Submit(j, r, known, current)
    BY <1>1 DEF IndexVideo
  <2> DEFINE seqs == 0..(Len(r.urls) - 1)
             queued == {s \in seqs : ~Skipped(r, known, current, s + 1)}
             claims == {k \in Items : /\ istate[k] \in Inflight /\ ivid[k] # NoVideo
                                      /\ \E s \in queued : ivid[k] = NewVideo(r, known, s + 1)}
  <2>2. /\ \A k \in claims : Supersedable(r, k)
        /\ ierr' = [k \in Items |->
              IF k \in claims THEN "E_SUPERSEDED"
              ELSE IF k[1] = j /\ k[2] \in seqs \ queued THEN "E_ALREADY_INDEXED" ELSE ierr[k]]
    BY <2>1 DEF Submit
  <2>3. jstate[i[1]] = "running"
    BY DEF Inv, RowsInv, RunningItemHasRunningJob
  <2>4. i \notin claims
    BY <2>2, <2>3 DEF Supersedable
  <2> HIDE DEF seqs, queued, claims
  <2> QED
    BY <2>2, <2>4
<1>2. CASE ToolSweepWrite \/ RunnerSweep \/ Boot \/ StopRelease
  <2>1. PICK spent : ierr' = [k \in Items |-> IF k \in spent THEN "E_CRASHED" ELSE ierr[k]]
    BY <1>2 DEF ToolSweepWrite, RunnerSweep, RunnerSweeps, Boot, StopRelease,
                ReclaimStale, ReleaseClaims, Requeue
  <2> QED
    BY <2>1
<1>3. CASE FinishItem
  BY <1>3 DEF FinishItem, EndingInv, Inv, TypeOK, RowsTypeOK
<1>4. CASE UNCHANGED ierr
  BY <1>4
<1> QED
  BY <1>1, <1>2, <1>3, <1>4
  DEF Next, RunnerStep, RunItem, vars, itemVars, ToolSweepRead, ToolRefused, RequestCancel,
      Expire, ClaimNext, NothingToClaim, Activate, CheckCancel, CancelJob, ClaimItem,
      NoItemLeft, Expand, FeatureDisabled, FetchFails, Land, LandLocally, StageFails, Checkpoint, Finalize,
      SettleVideo, Extend, Defer, Retire, Settle, StopBegin, Crash

(* An item being worked on is never ended under the worker by a forced      *)
(* reindex, for any number of concurrent submissions and sweeps.            *)
THEOREM SupersessionSparesLive == Spec => SupersedeSparesLive
<1>1. Init => EndingInv
  BY DEF Init, EndingInv, NoEnding, End
<1>2. Spec => []EndingInv
  BY <1>1, EndingStep, Invariance, PTL DEF Spec
<1>3. SparesLive => [\A i \in Items : istate[i] = "running" =>
                        ierr'[i] # "E_SUPERSEDED" \/ ierr[i] = ierr'[i]]_vars
  BY DEF SparesLive
<1> QED
  BY <1>2, <1>3, SparesLiveStep, Invariance, PTL DEF Spec, SupersedeSparesLive

-----------------------------------------------------------------------------
(* The retry budget.  A queued item has an attempt left, counting one the   *)
(* stops so far may have given back; a running one has spent it, except     *)
(* while a stop is under way, when the attempt about to be given back is    *)
(* already counted in `stops` and nothing claims.                           *)

StopInv == stopping => up /\ pc \in {"off", "settle"}

BudgetOf(i) ==
  /\ MaxAttempts <= imax[i]
  /\ imax[i] <= MaxAttempts \/ imax[i] <= Ceiling
  /\ itry[i] <= imax[i] + stops
  /\ istate[i] = "absent" => itry[i] = 0
  /\ istate[i] = "queued" => itry[i] < imax[i] + stops
  /\ istate[i] = "running" /\ stopping => itry[i] < imax[i] + stops
  /\ jstate[i[1]] = "absent" => istate[i] = "absent"

BudgetInv == \A i \in Items : BudgetOf(i)

\* A stop in progress has the loop off or settling.
LEMMA StopStep == Inv /\ StopInv /\ [Next]_vars => StopInv'
<1> SUFFICES ASSUME Inv, StopInv, [Next]_vars PROVE StopInv'
  OBVIOUS
<1>1. CASE UNCHANGED <<stopping, up, pc>>
  BY <1>1 DEF StopInv
<1>2. CASE Boot \/ StopBegin \/ StopRelease \/ Crash \/ Settle
  BY <1>2 DEF StopInv, Boot, StopBegin, LeaveDrive, StopRelease, Crash, Settle, Goto, procVars
<1>3. CASE ~stopping /\ ~stopping'
  BY <1>3 DEF StopInv
<1>4. pc \notin {"off", "settle"} => ~stopping
  BY DEF StopInv
<1> QED
  BY <1>1, <1>2, <1>3, <1>4
  DEF Next, RunnerStep, RunItem, vars, runVars, procVars, ToolSweepRead, ToolSweepWrite,
      ToolRefused, IndexVideo, Submit, RequestCancel, Expire, RunnerSweep, RunnerSweeps,
      ClaimNext, NothingToClaim, Activate, CheckCancel, CancelJob, ClaimItem, NoItemLeft,
      Expand, FeatureDisabled, FetchFails, Land, LandLocally, StageFails, Checkpoint, Finalize, SettleVideo,
      Extend, Defer, Retire, FinishItem

\* An item keeps its budget when nothing spends, grants or requeues it.
LEMMA BudgetKept ==
  ASSUME NEW i \in Items, Inv, BudgetOf(i), UNCHANGED <<stops, stopping>>,
         itry'[i] = itry[i], imax'[i] = imax[i],
         istate'[i] # istate[i] => istate[i] # "absent" /\ istate'[i] \in Terminal,
         jstate'[i[1]] = jstate[i[1]] \/ jstate'[i[1]] # "absent"
  PROVE  BudgetOf(i)'
  BY DEF BudgetOf, Terminal

\* Steps that only end items, and open or keep jobs.
LEMMA BudgetSame ==
  ASSUME Inv, BudgetInv, UNCHANGED <<itry, imax, stops, stopping>>,
         \A i \in Items :
           istate'[i] # istate[i] => istate[i] # "absent" /\ istate'[i] \in Terminal,
         \A j \in Jobs : jstate'[j] = jstate[j] \/ jstate'[j] # "absent"
  PROVE  BudgetInv'
<1>1. \A i \in Items : i[1] \in Jobs
  BY DEF Items
<1> QED
  BY <1>1, BudgetKept DEF BudgetInv

\* A sweep retires an item that has no attempt left, and requeues the others.
LEMMA BudgetReclaim ==
  ASSUME Inv, BudgetInv, NEW S \in SUBSET Jobs,
         Requeue(S, {i \in Interrupted(S) : Spent(i)}),
         UNCHANGED <<stops, stopping>>
  PROVE  BudgetInv'
<1> SUFFICES ASSUME NEW i \in Items PROVE BudgetOf(i)'
  BY DEF BudgetInv
<1>1. /\ itry[i] \in Nat /\ imax[i] \in Nat /\ stops \in Nat /\ i[1] \in Jobs
      /\ BudgetOf(i)
  BY QueueAssumption DEF Inv, TypeOK, RowsTypeOK, ProcessTypeOK, BudgetInv, Items
<1>2. UNCHANGED <<itry, imax>> /\ (jstate[i[1]] # "absent" => jstate'[i[1]] # "absent")
      /\ (jstate'[i[1]] = "absent" => jstate[i[1]] = "absent")
  BY <1>1 DEF Requeue, Inv, TypeOK, RowsTypeOK
<1>3. CASE i \in Interrupted(S) /\ Spent(i)
  <2>1. istate'[i] = "failed" /\ istate[i] = "running"
    BY <1>3 DEF Requeue, Interrupted
  <2> QED
    BY <1>1, <1>2, <2>1 DEF BudgetOf
<1>4. CASE i \in Interrupted(S) /\ ~Spent(i)
  <2>1. istate'[i] = "queued" /\ istate[i] = "running" /\ itry[i] < imax[i]
    BY <1>1, <1>4 DEF Requeue, Interrupted, Spent
  <2> QED
    BY <1>1, <1>2, <2>1 DEF BudgetOf
<1>5. CASE i \notin Interrupted(S)
  <2>1. istate'[i] = istate[i]
    BY <1>5 DEF Requeue, Interrupted
  <2> QED
    BY <1>1, <1>2, <2>1 DEF BudgetOf
<1> QED
  BY <1>3, <1>4, <1>5

\* The attempt a stop gives back is counted as it begins.
LEMMA BudgetStop == Inv /\ BudgetInv /\ (StopBegin \/ StopRelease) => BudgetInv'
<1> SUFFICES ASSUME Inv, BudgetInv, StopBegin \/ StopRelease, NEW i \in Items
             PROVE  BudgetOf(i)'
  BY DEF BudgetInv
<1>1. /\ itry[i] \in Nat /\ imax[i] \in Nat /\ stops \in Nat /\ i[1] \in Jobs
      /\ BudgetOf(i)
  BY QueueAssumption DEF Inv, TypeOK, RowsTypeOK, ProcessTypeOK, BudgetInv, Items
<1>2. CASE StopBegin
  BY <1>1, <1>2 DEF StopBegin, BudgetOf, jobVars, itemVars
<1>3. CASE StopRelease
  <2> DEFINE S == {j \in held : jstate[j] = "running"}
  <2>1. Requeue(S, {}) /\ stopping /\ ~stopping' /\ stops' = stops
    BY <1>3 DEF StopRelease, ReleaseClaims, Inv, TypeOK, ProcessTypeOK
  <2>2. /\ UNCHANGED <<itry, imax>>
        /\ jstate'[i[1]] = "absent" => jstate[i[1]] = "absent"
        /\ istate'[i] # istate[i] => istate[i] = "running" /\ istate'[i] = "queued"
    BY <1>1, <2>1 DEF Requeue, Interrupted, Inv, TypeOK, RowsTypeOK
  <2> QED
    BY <1>1, <2>1, <2>2 DEF BudgetOf
<1> QED
  BY <1>2, <1>3

\* Claiming spends an attempt, never while stopping; a grant adds one, below
\* the ceiling; a deferral needs one left.
LEMMA BudgetInHand == Inv /\ StopInv /\ BudgetInv /\ (ClaimItem \/ Extend \/ Defer) => BudgetInv'
<1> SUFFICES ASSUME Inv, StopInv, BudgetInv, ClaimItem \/ Extend \/ Defer, NEW i \in Items
             PROVE  BudgetOf(i)'
  BY DEF BudgetInv
<1>1. /\ itry[i] \in Nat /\ imax[i] \in Nat /\ stops \in Nat /\ i[1] \in Jobs
      /\ BudgetOf(i)
  BY QueueAssumption DEF Inv, TypeOK, RowsTypeOK, ProcessTypeOK, BudgetInv, Items
<1>2. /\ MaxAttempts \in Nat /\ Ceiling \in Nat
      /\ ~stopping /\ ~stopping' /\ stops' = stops
  BY QueueAssumption DEF StopInv, ClaimItem, Extend, Defer, procVars
<1>3. CASE ClaimItem
  <2>1. PICK k \in Items : /\ istate[k] = "queued"
                           /\ istate' = [istate EXCEPT ![k] = "running"]
                           /\ itry' = [itry EXCEPT ![k] = @ + 1]
                           /\ UNCHANGED <<jstate, imax>>
    BY <1>3 DEF ClaimItem, QueuedOf, ItemsOf, jobVars
  <2>2. CASE i = k
    BY <1>1, <1>2, <2>1, <2>2 DEF BudgetOf, Inv, TypeOK, RowsTypeOK
  <2>3. CASE i # k
    BY <1>1, <1>2, <2>1, <2>3 DEF BudgetOf, Inv, TypeOK, RowsTypeOK
  <2> QED
    BY <2>2, <2>3
<1>4. CASE Extend
  <2>1. /\ UNCHANGED <<jstate, istate, itry>>
        /\ \/ imax' = imax
           \/ imax[item] < Ceiling /\ imax' = [imax EXCEPT ![item] = @ + 1]
    BY <1>4 DEF Extend, GrantDue, jobVars
  <2>2. CASE imax' = imax
    BY <1>1, <1>2, <2>1, <2>2 DEF BudgetOf
  <2>3. CASE imax[item] < Ceiling /\ imax' = [imax EXCEPT ![item] = @ + 1]
    <3>1. \/ imax'[i] = imax[i]
          \/ imax[i] < Ceiling /\ imax'[i] = imax[i] + 1
      BY <2>3 DEF Inv, TypeOK, RowsTypeOK
    <3> QED
      BY <1>1, <1>2, <2>1, <3>1 DEF BudgetOf
  <2> QED
    BY <2>1, <2>2, <2>3
<1>5. CASE Defer
  <2>1. item \in Items /\ item[1] = cur /\ istate[item] = "running" /\ cur \in Jobs
        /\ jstate[cur] = "running"
    BY <1>5 DEF Inv, LoopInv, Defer, InItem, Driving
  <2>2. /\ UNCHANGED <<itry, imax>>
        /\ istate'[i] # istate[i] =>
             \/ istate[i] # "absent" /\ istate'[i] = "cancelled"
             \/ i = item /\ istate'[i] = "queued"
        /\ itry[item] < imax[item]
        /\ jstate'[i[1]] # jstate[i[1]] => i[1] = cur
    <3>1. CASE CancelSeen(cur)
      BY <1>1, <1>5, <2>1, <3>1
         DEF Defer, MayRetry, CancelRemaining, Unfinished, ItemsOf, Inv, TypeOK, RowsTypeOK
    <3>2. CASE ~CancelSeen(cur)
      BY <1>1, <1>5, <2>1, <3>2 DEF Defer, MayRetry, Inv, TypeOK, RowsTypeOK
    <3> QED
      BY <3>1, <3>2
  <2>3. jstate'[i[1]] # "absent" \/ jstate'[i[1]] = jstate[i[1]]
    BY <1>1, <1>5, <2>1 DEF Defer, CancelRemaining, Inv, TypeOK, RowsTypeOK
  <2> QED
    BY <1>1, <1>2, <2>1, <2>2, <2>3 DEF BudgetOf
<1> QED
  BY <1>3, <1>4, <1>5

\* A submitted item starts with nothing spent, an expanded one too.
LEMMA BudgetNew == Inv /\ BudgetInv /\ (IndexVideo \/ Expand) => BudgetInv'
<1> SUFFICES ASSUME Inv, BudgetInv, IndexVideo \/ Expand, NEW i \in Items
             PROVE  BudgetOf(i)'
  BY DEF BudgetInv
<1>1. /\ itry[i] \in Nat /\ imax[i] \in Nat /\ stops \in Nat /\ i[1] \in Jobs
      /\ MaxAttempts \in Nat \ {0} /\ BudgetOf(i)
  BY QueueAssumption DEF Inv, TypeOK, RowsTypeOK, ProcessTypeOK, BudgetInv, Items
<1>2. SUFFICES /\ UNCHANGED <<itry, imax, stops, stopping>>
               /\ istate'[i] # istate[i] =>
                    \/ istate[i] # "absent" /\ istate'[i] = "cancelled"
                    \/ istate[i] = "absent" /\ istate'[i] \in {"queued", "skipped"}
               /\ jstate'[i[1]] = "absent" => istate'[i] = istate[i]
               /\ jstate'[i[1]] # jstate[i[1]] => jstate'[i[1]] # "absent"
  BY <1>1 DEF BudgetOf
<1>3. CASE IndexVideo
  <2>1. PICK j \in Jobs, r \in Requests, known, current \in SUBSET Videos : Submit(j, r, known, current)
    BY <1>3 DEF IndexVideo
  <2> DEFINE seqs == 0..(Len(r.urls) - 1)
             queued == {s \in seqs : ~Skipped(r, known, current, s + 1)}
             claims == {k \in Items : /\ istate[k] \in Inflight /\ ivid[k] # NoVideo
                                      /\ \E s \in queued : ivid[k] = NewVideo(r, known, s + 1)}
  <2>2. /\ jstate[j] = "absent" /\ jstate' = [jstate EXCEPT ![j] = "queued"]
        /\ istate' = [k \in Items |->
             IF k \in claims THEN "cancelled"
             ELSE IF k[1] = j /\ k[2] \in queued THEN "queued"
             ELSE IF k[1] = j /\ k[2] \in seqs THEN "skipped" ELSE istate[k]]
        /\ UNCHANGED <<itry, imax, stops, stopping>>
    BY <2>1 DEF Submit
  <2>3. \A k \in claims : istate[k] # "absent"
    BY DEF Inflight
  <2> HIDE DEF seqs, queued, claims
  <2>4. i[1] = j => istate[i] = "absent"
    BY <1>1, <2>2 DEF BudgetOf
  <2>5. jstate'[i[1]] = IF i[1] = j THEN "queued" ELSE jstate[i[1]]
    BY <1>1, <2>2 DEF Inv, TypeOK, RowsTypeOK
  <2>6. istate'[i] = IF i \in claims THEN "cancelled"
                     ELSE IF i[1] = j /\ i[2] \in queued THEN "queued"
                     ELSE IF i[1] = j /\ i[2] \in seqs THEN "skipped" ELSE istate[i]
    BY <2>2
  <2>7. i \in claims => istate[i] # "absent"
    BY <2>3
  <2>8. jstate'[i[1]] = "absent" => istate'[i] = istate[i]
    BY <1>1, <2>5, <2>6, <2>7 DEF BudgetOf
  <2> QED
    BY <2>2, <2>4, <2>5, <2>6, <2>7, <2>8
<1>4. CASE Expand
  <2>1. cur \in Jobs /\ jstate[cur] = "running"
    BY <1>4 DEF Inv, LoopInv, Expand, Driving
  <2>2. PICK entries \in SUBSET Listing[iurl[item]], start \in 0..(MaxSeq + 1) :
          AppendItems(cur, entries, start)
    BY <1>4 DEF Expand
  <2> DEFINE fresh == entries \ Seen(cur)
             added == IF Cardinality(fresh) < Room(cur) THEN Cardinality(fresh) ELSE Room(cur)
             kids == start..(start + added - 1)
  <2>3. /\ istate' = [k \in Items |-> IF k[1] = cur /\ k[2] \in kids THEN "queued" ELSE istate[k]]
        /\ UNCHANGED <<jstate, itry, imax, stops, stopping>>
    BY <1>4, <2>2 DEF AppendItems, Expand, jobVars, procVars
  <2>4. i = <<i[1], i[2]>>
    BY DEF Items
  <2>5. i[1] = cur /\ i[2] \in kids => istate[i] = "absent"
    <3> SUFFICES ASSUME i[1] = cur, i[2] \in kids PROVE istate[<<cur, i[2]>>] = "absent"
      BY <2>4
    <3>1. /\ \A s \in Seqs : s < start <=> istate[<<cur, s>>] # "absent"
          /\ kids \subseteq Seqs
      BY <2>2 DEF AppendItems
    <3>2. \A s \in kids : s \in Nat /\ start <= s
      BY <3>1 DEF Seqs
    <3> HIDE DEF kids
    <3>3. i[2] \in Seqs /\ i[2] \in Nat /\ start <= i[2] /\ start \in Nat
      BY <3>1, <3>2, QueueAssumption
    <3> QED
      BY <3>1, <3>2, <3>3
  <2> HIDE DEF kids
  <2>6. istate'[i] # istate[i] => i[1] = cur /\ istate[i] = "absent" /\ istate'[i] = "queued"
    BY <2>3, <2>5
  <2> QED
    BY <2>1, <2>3, <2>6
<1> QED
  BY <1>3, <1>4

\* Every step keeps the budget of every item.
LEMMA BudgetStep == Inv /\ StopInv /\ BudgetInv /\ [Next]_vars => BudgetInv'
<1> SUFFICES ASSUME Inv, StopInv, BudgetInv, [Next]_vars PROVE BudgetInv'
  OBVIOUS
<1>1. CASE ToolSweepWrite \/ RunnerSweep \/ Boot
  <2>1. PICK quiet \in SUBSET Jobs :
          /\ Requeue(quiet, {i \in Interrupted(quiet) : Spent(i)})
          /\ UNCHANGED <<stops, stopping>>
    BY <1>1, SweepSparesClaim DEF ToolSweepWrite, RunnerSweep, RunnerSweeps, Boot, ReclaimStale, procVars
  <2> QED
    BY <2>1, BudgetReclaim
<1>2. CASE StopBegin \/ StopRelease
  BY <1>2, BudgetStop
<1>3. CASE ClaimItem \/ Extend \/ Defer
  BY <1>3, BudgetInHand
<1>4. CASE IndexVideo \/ Expand
  BY <1>4, BudgetNew
<1>5. ASSUME NEW j \in Jobs, RequestCancel(j) PROVE BudgetInv'
  <2>1. /\ UNCHANGED <<itry, imax, stops, stopping>>
        /\ \A i \in Items : istate'[i] # istate[i] => istate[i] # "absent" /\ istate'[i] \in Terminal
        /\ \A k \in Jobs : jstate'[k] = jstate[k] \/ jstate'[k] # "absent"
    BY <1>5 DEF RequestCancel, Unfinished, ItemsOf, Terminal, procVars, Inv, TypeOK, RowsTypeOK
  <2> QED
    BY <2>1, BudgetSame
<1>6. CASE CancelJob
  <2>1. cur \in Jobs
    BY <1>6 DEF Inv, LoopInv, CancelJob, Driving
  <2>2. /\ UNCHANGED <<itry, imax, stops, stopping>>
        /\ \A i \in Items : istate'[i] # istate[i] => istate[i] # "absent" /\ istate'[i] \in Terminal
        /\ \A k \in Jobs : jstate'[k] = jstate[k] \/ jstate'[k] # "absent"
    BY <1>6, <2>1 DEF CancelJob, CancelRemaining, Unfinished, ItemsOf, Terminal, procVars,
                      Inv, TypeOK, RowsTypeOK
  <2> QED
    BY <2>2, BudgetSame
<1>7. CASE FinishItem
  <2>1. item \in Items /\ istate[item] = "running" /\ ending.state \in Terminal
    BY <1>7 DEF Inv, TypeOK, ProcessTypeOK, Ending, LoopInv, FinishItem, InItem
  <2>2. /\ UNCHANGED <<itry, imax, stops, stopping, jstate>>
        /\ istate' = [istate EXCEPT ![item] = ending.state]
    BY <1>7 DEF FinishItem, jobVars, procVars
  <2>3. \A i \in Items : istate'[i] # istate[i] => istate[i] # "absent" /\ istate'[i] \in Terminal
    BY <2>1, <2>2 DEF Inv, TypeOK, RowsTypeOK
  <2> QED
    BY <2>2, <2>3, BudgetSame
<1>8. CASE Settle \/ ClaimNext
  <2>1. /\ UNCHANGED <<itry, imax, stops, stopping, istate>>
        /\ \A j \in Jobs : jstate'[j] = jstate[j] \/ jstate'[j] # "absent"
    BY <1>8 DEF Settle, JobResult, ClaimNext, Runnable, itemVars, procVars,
                Inv, LoopInv, TypeOK, RowsTypeOK
  <2> QED
    BY <2>1, BudgetSame
<1>9. CASE UNCHANGED <<itry, imax, stops, stopping, istate, jstate>>
  BY <1>9, BudgetSame
<1>10. CASE Crash
  BY <1>10 DEF Crash, BudgetInv, BudgetOf, jobVars, itemVars
<1> QED
  BY <1>1, <1>2, <1>3, <1>4, <1>5, <1>6, <1>7, <1>8, <1>9, <1>10
  DEF Next, RunnerStep, RunItem, vars, jobVars, itemVars, procVars, ToolSweepRead,
      ToolRefused, Expire, NothingToClaim, Activate, CheckCancel, NoItemLeft, FeatureDisabled, FetchFails, Land,
      LandLocally, StageFails, Checkpoint, Finalize, SettleVideo, Retire

(* Whatever is retried, swept, crashed and resumed, an item never has more  *)
(* attempts than its allowance and the stops that gave one back, and no     *)
(* grant takes the allowance past the rate-limit ceiling.                   *)
THEOREM RetriesAreBounded == Spec => []AttemptsBounded
<1>1. Init => StopInv /\ BudgetInv
  BY QueueAssumption DEF Init, StopInv, BudgetInv, BudgetOf, Items
<1>2. BudgetInv => AttemptsBounded
  BY DEF BudgetInv, BudgetOf, AttemptsBounded
<1> QED
  BY <1>1, <1>2, StopStep, BudgetStep, Invariance, PTL DEF Spec

-----------------------------------------------------------------------------
(* Retirement.  A row that failed for a retryable reason says that its     *)
(* allowance is used up; so does an ending on its way to the row, and an   *)
(* item in the hands of _fail_item was granted another attempt or is at    *)
(* the ceiling by the time it decides.                                     *)

\* What a failed row says of its budget, by the code it failed with.
Earned(i, code) ==
  /\ code \in {"E_INTERNAL", "E_CRASHED"} => itry[i] >= imax[i]
  /\ code = "E_RATE_LIMIT" /\ stops = 0 => imax[i] >= Ceiling

RetiredRows == \A i \in Items : istate[i] = "failed" => Earned(i, ierr[i])

HandInv ==
  /\ pc = "finish" /\ ending.state = "failed" => Earned(item, ending.code)
  /\ pc = "decide" /\ ending.code = "E_RATE_LIMIT" /\ stops = 0 =>
       itry[item] < imax[item] \/ imax[item] >= Ceiling

\* The ending in hand stays as it was while another actor moves.
LEMMA HandSame ==
  ASSUME HandInv, UNCHANGED <<pc, item, ending, itry, imax, stops>>
  PROVE  HandInv'
  BY DEF HandInv, Earned

\* The grant of _extend_for_rate_limit comes before the decision it is for.
LEMMA HandExtend == Inv /\ BudgetInv /\ Extend => HandInv'
<1> SUFFICES ASSUME Inv, BudgetInv, Extend PROVE HandInv'
  OBVIOUS
<1>1. item \in Items
  BY DEF Inv, LoopInv, Extend, InItem
<1>2. /\ itry[item] \in Nat /\ imax[item] \in Nat /\ stops \in Nat
      /\ itry[item] <= imax[item] + stops /\ Ceiling \in Nat
  BY <1>1, QueueAssumption DEF Inv, TypeOK, RowsTypeOK, ProcessTypeOK, BudgetInv, BudgetOf
<1>3. /\ pc' = "decide" /\ UNCHANGED <<item, ending, itry, stops>>
      /\ imax' = IF GrantDue THEN [imax EXCEPT ![item] = @ + 1] ELSE imax
  BY DEF Extend, To, Goto, procVars
<1>4. imax'[item] = IF GrantDue THEN imax[item] + 1 ELSE imax[item]
  BY <1>1, <1>3 DEF Inv, TypeOK, RowsTypeOK
<1> QED
  BY <1>2, <1>3, <1>4 DEF HandInv, GrantDue

\* An item is retired when it may not be retried.
LEMMA HandRetire == Inv /\ EndingInv /\ HandInv /\ Retire => HandInv'
<1> SUFFICES ASSUME Inv, EndingInv, HandInv, Retire PROVE HandInv'
  OBVIOUS
<1>1. item \in Items
  BY DEF Inv, LoopInv, Retire, InItem
<1>2. /\ itry[item] \in Nat /\ imax[item] \in Nat
      /\ pc = "decide" /\ pc' = "finish" /\ UNCHANGED <<item, ending, itry, imax, stops>>
      /\ ~MayRetry
  BY <1>1 DEF Inv, TypeOK, RowsTypeOK, Retire, To, Goto, itemVars, procVars
<1> QED
  BY <1>2 DEF HandInv, Earned, MayRetry, Retryable, EndingInv

LEMMA HandStep ==
  Inv /\ BudgetInv /\ EndingInv /\ HandInv /\ [Next]_vars => HandInv'
<1> SUFFICES ASSUME Inv, BudgetInv, EndingInv, HandInv, [Next]_vars PROVE HandInv'
  OBVIOUS
<1>1. CASE UNCHANGED <<pc, item, ending, itry, imax, stops>>
  BY <1>1, HandSame
<1>2. CASE pc' \notin {"finish", "decide"}
  BY <1>2 DEF HandInv
<1>3. CASE Extend
  BY <1>3, HandExtend
<1>4. CASE Retire
  BY <1>4, HandRetire
<1>5. CASE pc' = "finish" /\ ending'.state # "failed"
  BY <1>5 DEF HandInv
<1>6. CASE FeatureDisabled \/ Expand \/ Land \/ LandLocally \/ Finalize \/ SettleVideo
  BY <1>2, <1>5, <1>6
  DEF FeatureDisabled, Expand, Land, LandLocally, Attach, Refused, Finalize, SettleVideo, To, Goto, End, NoEnding
<1>7. CASE FetchFails \/ StageFails \/ Checkpoint \/ FinishItem \/ Defer \/ CancelJob \/ NoItemLeft
           \/ ClaimItem \/ CheckCancel \/ Activate \/ NothingToClaim \/ ClaimNext \/ RunnerSweep
           \/ Settle \/ Boot \/ StopBegin \/ Crash
  BY <1>2, <1>7
  DEF FetchFails, StageFails, Checkpoint, FinishItem, Defer, CancelJob, NoItemLeft, LeaveDrive,
      ClaimItem, CheckCancel, Activate, NothingToClaim, ClaimNext, RunnerSweep, RunnerSweeps,
      Settle, Boot, StopBegin, Crash, To, Goto
<1>8. CASE ToolSweepRead \/ ToolSweepWrite \/ ToolRefused \/ IndexVideo \/ StopRelease
           \/ (\E j \in Jobs : RequestCancel(j) \/ Expire(j)) \/ UNCHANGED vars
  BY <1>1, <1>8
  DEF ToolSweepRead, ToolSweepWrite, ToolRefused, IndexVideo, Submit, StopRelease, ReclaimStale,
      ReleaseClaims, Requeue, RequestCancel, Expire, vars, itemVars, runVars, procVars
<1> QED
  BY <1>3, <1>4, <1>6, <1>7, <1>8 DEF Next, RunnerStep, RunItem

\* Rows that failed before keep what they say; rows that fail now say it too.
LEMMA RetiredKept ==
  ASSUME RetiredRows,
         stops' = stops \/ stops' # 0,
         \A i \in Items :
           istate'[i] = "failed" =>
             \/ istate[i] = "failed" /\ ierr'[i] = ierr[i] /\ itry'[i] = itry[i] /\ imax'[i] = imax[i]
             \/ Earned(i, ierr[i])'
  PROVE  RetiredRows'
  BY DEF RetiredRows, Earned

\* A sweep retires what has no attempt left.
LEMMA RetiredReclaim ==
  ASSUME Inv, RetiredRows, NEW S \in SUBSET Jobs, stops' = stops,
         Requeue(S, {i \in Interrupted(S) : Spent(i)})
  PROVE  RetiredRows'
<1> DEFINE spent == {i \in Interrupted(S) : Spent(i)}
<1>1. /\ istate' = [i \in Items |-> IF i \in spent THEN "failed"
                                    ELSE IF i \in Interrupted(S) THEN "queued" ELSE istate[i]]
      /\ ierr' = [i \in Items |-> IF i \in spent THEN "E_CRASHED" ELSE ierr[i]]
      /\ UNCHANGED <<itry, imax>>
  BY DEF Requeue
<1>2. \A i \in spent : itry[i] >= imax[i]
  BY DEF Spent
<1> HIDE DEF spent
<1>3. \A i \in Items :
        istate'[i] = "failed" =>
          \/ istate[i] = "failed" /\ ierr'[i] = ierr[i] /\ itry'[i] = itry[i] /\ imax'[i] = imax[i]
          \/ Earned(i, ierr[i])'
  BY <1>1, <1>2 DEF Earned
<1> QED
  BY <1>3, RetiredKept

LEMMA RetiredStep ==
  Inv /\ EndingInv /\ HandInv /\ RetiredRows /\ [Next]_vars => RetiredRows'
<1> SUFFICES ASSUME Inv, EndingInv, HandInv, RetiredRows, [Next]_vars PROVE RetiredRows'
  OBVIOUS
<1>1. CASE UNCHANGED <<istate, ierr, itry, imax>> /\ (stops' = stops \/ stops' # 0)
  BY <1>1, RetiredKept
<1>2. CASE ToolSweepWrite \/ RunnerSweep \/ Boot
  <2>1. PICK quiet \in SUBSET Jobs :
          Requeue(quiet, {i \in Interrupted(quiet) : Spent(i)}) /\ stops' = stops
    BY <1>2, SweepSparesClaim DEF ToolSweepWrite, RunnerSweep, RunnerSweeps, Boot, ReclaimStale, procVars
  <2> QED
    BY <2>1, RetiredReclaim
<1>3. CASE StopRelease
  <2>1. /\ \A i \in Items : istate'[i] = "failed" => istate[i] = "failed"
        /\ \A i \in Items : ierr'[i] = ierr[i]
        /\ UNCHANGED <<itry, imax, stops>>
    BY <1>3 DEF StopRelease, ReleaseClaims, Requeue
  <2> QED
    BY <2>1, RetiredKept
<1>4. CASE FinishItem
  <2>1. PICK k \in Items : k = item
    BY <1>4 DEF FinishItem, Inv, LoopInv, InItem
  <2>2. /\ UNCHANGED <<itry, imax, stops>> /\ pc = "finish"
        /\ istate' = [istate EXCEPT ![k] = ending.state]
        /\ ierr' = [ierr EXCEPT ![k] = ending.code]
    BY <1>4, <2>1 DEF FinishItem, procVars
  <2>3. /\ istate'[k] = ending.state /\ ierr'[k] = ending.code
        /\ \A i \in Items : i # k => istate'[i] = istate[i] /\ ierr'[i] = ierr[i]
    BY <2>2 DEF Inv, TypeOK, RowsTypeOK
  <2>4. ending.state = "failed" => Earned(k, ending.code)
    BY <2>1, <2>2 DEF HandInv
  <2>5. istate'[k] = "failed" => Earned(k, ierr[k])'
    BY <2>2, <2>3, <2>4 DEF Earned
  <2> QED
    BY <2>2, <2>3, <2>5, RetiredKept
<1>5. CASE ClaimItem
  <2>1. PICK k \in Items : /\ istate[k] = "queued"
                           /\ istate' = [istate EXCEPT ![k] = "running"]
                           /\ itry' = [itry EXCEPT ![k] = @ + 1]
                           /\ UNCHANGED <<ierr, imax, stops>>
    BY <1>5 DEF ClaimItem, QueuedOf, ItemsOf, procVars
  <2>2. \A i \in Items : istate'[i] = "failed" => istate[i] = "failed" /\ itry'[i] = itry[i]
    BY <2>1 DEF Inv, TypeOK, RowsTypeOK
  <2> QED
    BY <2>1, <2>2, RetiredKept
<1>6. CASE Extend
  <2>1. /\ item \in Items /\ istate[item] = "running" /\ UNCHANGED <<istate, ierr, itry, stops>>
        /\ \/ imax' = imax
           \/ imax' = [imax EXCEPT ![item] = @ + 1]
    BY <1>6 DEF Extend, Inv, LoopInv, InItem, procVars
  <2>2. \A i \in Items : i # item => imax'[i] = imax[i]
    BY <2>1 DEF Inv, TypeOK, RowsTypeOK
  <2> QED
    BY <2>1, <2>2, RetiredKept
<1>7. CASE IndexVideo
  <2>1. PICK j \in Jobs, r \in Requests, known, current \in SUBSET Videos : Submit(j, r, known, current)
    BY <1>7 DEF IndexVideo
  <2> DEFINE seqs == 0..(Len(r.urls) - 1)
             queued == {s \in seqs : ~Skipped(r, known, current, s + 1)}
             claims == {k \in Items : /\ istate[k] \in Inflight /\ ivid[k] # NoVideo
                                      /\ \E s \in queued : ivid[k] = NewVideo(r, known, s + 1)}
  <2>2. /\ istate' = [k \in Items |->
             IF k \in claims THEN "cancelled"
             ELSE IF k[1] = j /\ k[2] \in queued THEN "queued"
             ELSE IF k[1] = j /\ k[2] \in seqs THEN "skipped" ELSE istate[k]]
        /\ ierr' = [k \in Items |->
             IF k \in claims THEN "E_SUPERSEDED"
             ELSE IF k[1] = j /\ k[2] \in seqs \ queued THEN "E_ALREADY_INDEXED" ELSE ierr[k]]
        /\ UNCHANGED <<itry, imax, stops>>
    BY <2>1 DEF Submit
  <2> HIDE DEF seqs, queued, claims
  <2>3. \A i \in Items : istate'[i] = "failed" => istate[i] = "failed" /\ ierr'[i] = ierr[i]
    BY <2>2
  <2> QED
    BY <2>2, <2>3, RetiredKept
<1>8. CASE Expand \/ CancelJob \/ Defer \/ \E j \in Jobs : RequestCancel(j)
  <2>1. UNCHANGED <<ierr, itry, imax, stops>>
    BY <1>8 DEF Expand, CancelJob, Defer, RequestCancel, procVars
  <2>2. \A i \in Items : istate'[i] = "failed" => istate[i] = "failed"
    <3>1. CASE Expand
      BY <3>1 DEF Expand, AppendItems
    <3>2. CASE CancelJob \/ \E j \in Jobs : RequestCancel(j)
      BY <3>2 DEF CancelJob, CancelRemaining, RequestCancel
    <3>3. CASE Defer
      BY <3>3 DEF Defer, CancelRemaining, Inv, TypeOK, RowsTypeOK
    <3> QED
      BY <1>8, <3>1, <3>2, <3>3
  <2> QED
    BY <2>1, <2>2, RetiredKept
<1>9. CASE StopBegin \/ Crash
  <2>1. UNCHANGED <<istate, ierr, itry, imax>>
    BY <1>9 DEF StopBegin, Crash, itemVars
  <2>2. stops \in Nat /\ (stops' = stops \/ stops' = stops + 1)
    BY <1>9, QueueAssumption DEF StopBegin, Crash, Inv, TypeOK, ProcessTypeOK
  <2> QED
    BY <1>1, <2>1, <2>2
<1> QED
  BY <1>1, <1>2, <1>3, <1>4, <1>5, <1>6, <1>7, <1>8, <1>9
  DEF Next, RunnerStep, RunItem, vars, itemVars, procVars, ToolSweepRead, ToolRefused,
      Expire, ClaimNext, NothingToClaim, Activate, CheckCancel, NoItemLeft, FeatureDisabled, FetchFails, Land,
      LandLocally, StageFails, Checkpoint, Finalize, SettleVideo, Retire, Settle

LEMMA Retired == Spec => [](Inv /\ RetiredRows)
<1>1. Init => StopInv /\ BudgetInv /\ EndingInv /\ HandInv /\ RetiredRows
  BY QueueAssumption
  DEF Init, StopInv, BudgetInv, BudgetOf, Items, EndingInv, NoEnding, End, HandInv, RetiredRows
<1> QED
  BY <1>1, StopStep, BudgetStep, EndingStep, HandStep, RetiredStep, Invariance, PTL DEF Spec

(* No item is given up while it has an attempt left, whatever crashed,      *)
(* swept or stopped in between.                                             *)
THEOREM RetiredAreSpent == Spec => []RetiredMeansSpent
<1>1. Inv /\ RetiredRows => RetiredMeansSpent
  BY DEF RetiredRows, Earned, RetiredMeansSpent
<1> QED
  BY <1>1, Retired, PTL

(* A rate limit ends an item only at the ceiling, while no stop has handed  *)
(* out an attempt beyond the allowance.                                     *)
THEOREM RateLimitsAreWaitedOut == Spec => []RateLimitOutlived
<1>1. Inv /\ RetiredRows => RateLimitOutlived
  BY DEF RetiredRows, Earned, RateLimitOutlived
<1> QED
  BY <1>1, Retired, PTL

-----------------------------------------------------------------------------
(* The answer to a rate limit.  Only _settle ends a job as done or failed. *)

Sticky(j) ==
  /\ jerr[j] = "E_RATE_LIMIT"
  /\ jstate[j] \notin JobTerminal /\ jstate'[j] \in {"done", "failed"}
  /\ Productive(j)
  => jerr'[j] = "E_RATE_LIMIT"

LEMMA StickyStep == Inv /\ [Next]_vars => \A j \in Jobs : Sticky(j)
<1> SUFFICES ASSUME Inv, [Next]_vars, NEW j \in Jobs PROVE Sticky(j)
  OBVIOUS
<1> DEFINE Ends == jstate[j] \notin JobTerminal /\ jstate'[j] \in {"done", "failed"}
<1>1. CASE jstate'[j] = jstate[j]
  BY <1>1 DEF Sticky, JobTerminal
<1>2. CASE Settle
  <2>1. CASE jerr[j] = "E_RATE_LIMIT" /\ Productive(j) /\ jstate'[j] # jstate[j]
    <3>1. cur = j /\ Settles(cur)
      BY <1>2, <2>1 DEF Settle, Inv, TypeOK, RowsTypeOK
    <3>2. JobError(cur) = {"E_RATE_LIMIT"}
      BY <2>1, <3>1 DEF JobError
    <3>3. jerr' = [jerr EXCEPT ![j] = "E_RATE_LIMIT"]
      BY <1>2, <2>1, <3>1, <3>2 DEF Settle
    <3> QED
      BY <3>3 DEF Sticky, Inv, TypeOK, RowsTypeOK
  <2> QED
    BY <1>1, <2>1 DEF Sticky
<1>3. CASE jstate'[j] \notin {"done", "failed"}
  BY <1>3 DEF Sticky
<1>4. CASE ToolSweepWrite \/ RunnerSweep \/ Boot \/ StopRelease
  BY <1>1, <1>3, <1>4
  DEF ToolSweepWrite, RunnerSweep, RunnerSweeps, Boot, StopRelease, ReclaimStale, ReleaseClaims,
      Requeue
<1>5. CASE IndexVideo
  BY <1>1, <1>3, <1>5 DEF IndexVideo, Submit, Inv, TypeOK, RowsTypeOK
<1>6. CASE ClaimNext \/ CancelJob \/ Defer \/ \E k \in Jobs : RequestCancel(k)
  BY <1>1, <1>3, <1>6
  DEF ClaimNext, CancelJob, Defer, CancelRemaining, RequestCancel, Inv, TypeOK, RowsTypeOK
<1> QED
  BY <1>1, <1>2, <1>4, <1>5, <1>6
  DEF Next, RunnerStep, RunItem, vars, jobVars, ToolSweepRead, ToolRefused, Expire,
      NothingToClaim, Activate, CheckCancel, ClaimItem, NoItemLeft, Expand, FeatureDisabled, FetchFails, Land,
      LandLocally, StageFails, Checkpoint, Finalize, SettleVideo, Extend, Retire, FinishItem,
      StopBegin, Crash

(* Once deferred for a rate limit, a job that ends with anything done or    *)
(* failed still says so.                                                    *)
THEOREM RateLimitIsSticky == Spec => RateLimitSticky
<1>1. (\A j \in Jobs : Sticky(j)) =>
        [\A j \in Jobs :
           /\ jerr[j] = "E_RATE_LIMIT"
           /\ jstate[j] \notin JobTerminal /\ jstate'[j] \in {"done", "failed"}
           /\ Productive(j)
           => jerr'[j] = "E_RATE_LIMIT"]_vars
  BY DEF Sticky
<1> QED
  BY <1>1, StickyStep, Invariance, PTL DEF Spec, RateLimitSticky

-----------------------------------------------------------------------------
(* The ledger.  Every step moves each row as the ledger allows: an ending   *)
(* is kept, a row appears under a job that is being opened or is open, and  *)
(* a job ends with nothing of it in flight and the result its items add up  *)
(* to.                                                                      *)

ItemMoves(i) ==
  /\ istate[i] \in Terminal => istate'[i] = istate[i]
  /\ istate[i] \in Inflight => istate'[i] # "absent"
  /\ istate[i] = "absent" /\ istate'[i] # "absent" =>
       jstate[i[1]] \notin JobTerminal /\ jstate'[i[1]] \in Inflight

JobMoves(j) ==
  /\ jstate[j] \in JobTerminal => jstate'[j] = jstate[j]
  /\ jstate[j] \in Inflight => jstate'[j] # "absent"
  /\ jstate[j] = "absent" => jstate'[j] \notin JobTerminal
  /\ jstate'[j] # jstate[j] /\ jstate'[j] \in JobTerminal =>
       /\ \A i \in Items : i[1] = j => istate'[i] \notin Inflight
       /\ jstate'[j] = "failed" =>
            /\ \E i \in Items : i[1] = j /\ istate'[i] = "failed"
            /\ \A i \in Items : i[1] = j => istate'[i] # "done"
       /\ jstate'[j] = "done" =>
            \/ \E i \in Items : i[1] = j /\ istate'[i] = "done"
            \/ \A i \in Items : i[1] = j => istate'[i] # "failed"

Moves == (\A i \in Items : ItemMoves(i)) /\ (\A j \in Jobs : JobMoves(j))

\* Such a step is one of the ledger's.
LEMMA MovesAreLedgerSteps ==
  ASSUME RowsTypeOK, RowsTypeOK', Moves
  PROVE  Ledger!Step
<1> DEFINE jb == [j \in Jobs |-> Ended(jstate[j], JobTerminal)]
           ib == [i \in Items |-> Ended(istate[i], Terminal)]
           owner == [i \in Items |-> i[1]]
<1>1. /\ \A j \in Jobs : jb[j] = Ended(jstate[j], JobTerminal)
      /\ \A i \in Items : ib[i] = Ended(istate[i], Terminal)
      /\ \A j \in Jobs : jb'[j] = Ended(jstate'[j], JobTerminal)
      /\ \A i \in Items : ib'[i] = Ended(istate'[i], Terminal)
      /\ \A i \in Items : owner[i] = i[1] /\ i[1] \in Jobs
      /\ DOMAIN jb' = Jobs /\ DOMAIN ib' = Items
  BY DEF Items
<1>2. /\ Ledger!ItemEnd = Terminal /\ Ledger!JobEnd = JobTerminal
      /\ \A j : Ledger!Of(j) = {i \in Items : owner[i] = j}
  BY DEF Ledger!ItemEnd, Ledger!JobEnd, Ledger!Of, Terminal, JobTerminal
<1>3. \A j \in Jobs :
        /\ jb[j] \in JobTerminal <=> jstate[j] \in JobTerminal
        /\ jb'[j] \in JobTerminal <=> jstate'[j] \in JobTerminal
        /\ jb[j] = "none" <=> jstate[j] = "absent"
        /\ jb'[j] = "none" <=> jstate'[j] = "absent"
        /\ jb[j] = "open" <=> jstate[j] \in Inflight
        /\ jb'[j] = "open" <=> jstate'[j] \in Inflight
        /\ jstate[j] \in JobTerminal => jb[j] = jstate[j]
        /\ jstate'[j] \in JobTerminal => jb'[j] = jstate'[j]
        /\ jb'[j] \in {"none", "open"} \cup JobTerminal
  BY <1>1 DEF Ended, RowsTypeOK, JobStates, JobTerminal, Inflight
<1>4. \A i \in Items :
        /\ ib[i] \in Terminal <=> istate[i] \in Terminal
        /\ ib[i] = "none" <=> istate[i] = "absent"
        /\ ib'[i] = "none" <=> istate'[i] = "absent"
        /\ ib[i] = "open" <=> istate[i] \in Inflight
        /\ ib'[i] = "open" <=> istate'[i] \in Inflight
        /\ istate[i] \in Terminal => ib[i] = istate[i]
        /\ istate'[i] \in Terminal => ib'[i] = istate'[i]
        /\ ib'[i] \in Terminal => ib'[i] = istate'[i]
        /\ ib'[i] \in {"none", "open"} \cup Terminal
  BY <1>1 DEF Ended, RowsTypeOK, ItemStates, Terminal, Inflight
<1>5. jb' \in [Jobs -> {"none", "open"} \cup JobTerminal]
      /\ ib' \in [Items -> {"none", "open"} \cup Terminal]
  BY <1>3, <1>4
<1>6. \A j \in Jobs : jb'[j] # jb[j] => jstate'[j] # jstate[j]
  BY <1>1
<1> HIDE DEF jb, ib, owner
<1>7. ASSUME NEW i \in Items
      PROVE  /\ ib[i] \in Terminal => ib'[i] = ib[i]
             /\ ib[i] = "open" => ib'[i] # "none"
             /\ ib[i] = "none" /\ ib'[i] # "none" =>
                  jb[owner[i]] \in {"none", "open"} /\ jb'[owner[i]] = "open"
  <2>1. ItemMoves(i) /\ owner[i] = i[1] /\ i[1] \in Jobs
    BY <1>1 DEF Moves
  <2>2. jstate[i[1]] \notin JobTerminal => jb[i[1]] \in {"none", "open"}
    BY <1>3, <2>1 DEF RowsTypeOK, JobStates
  <2> QED
    BY <1>3, <1>4, <2>1, <2>2 DEF ItemMoves
<1>8. ASSUME NEW j \in Jobs
      PROVE  /\ jb[j] \in JobTerminal => jb'[j] = jb[j]
             /\ jb[j] = "open" => jb'[j] # "none"
             /\ jb[j] = "none" => jb'[j] \in {"none", "open"}
  BY <1>3 DEF Moves, JobMoves
<1>9. ASSUME NEW j \in Jobs, jb'[j] # jb[j], jb'[j] \in JobTerminal
      PROVE  /\ \A i \in Items : owner[i] = j => ib'[i] # "open"
             /\ jb'[j] = "failed" =>
                  /\ \E i \in Items : owner[i] = j /\ ib'[i] = "failed"
                  /\ \A i \in Items : owner[i] = j => ib'[i] # "done"
             /\ jb'[j] = "done" =>
                  \/ \E i \in Items : owner[i] = j /\ ib'[i] = "done"
                  \/ \A i \in Items : owner[i] = j => ib'[i] # "failed"
  <2>1. /\ jstate'[j] # jstate[j] /\ jstate'[j] \in JobTerminal /\ jb'[j] = jstate'[j]
        /\ JobMoves(j)
    BY <1>3, <1>6, <1>9 DEF Moves
  <2>2. "failed" \in Terminal /\ "done" \in Terminal
    BY DEF Terminal
  <2>3. \A i \in Items : owner[i] = i[1] /\ (ib'[i] = "failed" <=> istate'[i] = "failed")
                          /\ (ib'[i] = "done" <=> istate'[i] = "done")
                          /\ (ib'[i] = "open" <=> istate'[i] \in Inflight)
    BY <1>1, <1>4, <2>2
  <2> QED
    BY <2>1, <2>3 DEF JobMoves
<1>10. Ledger!ItemsMove
  BY <1>2, <1>5, <1>7 DEF Ledger!ItemsMove, jb, ib, owner
<1>11. ASSUME NEW j \in Jobs, jb'[j] # jb[j], jb'[j] \in JobTerminal
       PROVE  Ledger!Adds(j, jb'[j])
  <2> DEFINE result == jb'[j]
  <2>1. /\ \A i \in Ledger!Of(j) : ib'[i] \notin {"open"}
        /\ result = "failed" =>
             /\ \E i \in Ledger!Of(j) : ib'[i] = "failed"
             /\ \A i \in Ledger!Of(j) : ib'[i] # "done"
        /\ result = "done" =>
             \/ \E i \in Ledger!Of(j) : ib'[i] = "done"
             \/ \A i \in Ledger!Of(j) : ib'[i] # "failed"
    BY <1>2, <1>9, <1>11
  <2> HIDE DEF result
  <2>2. Ledger!Adds(j, result)
    BY <2>1 DEF Ledger!Adds, ib
  <2> QED
    BY <2>2 DEF result
<1>12. Ledger!JobsMove
  BY <1>2, <1>5, <1>8, <1>11 DEF Ledger!JobsMove, jb
<1> QED
  BY <1>10, <1>12 DEF Ledger!Step

\* A sweep takes running jobs back to the queue, and ends what it retires.
LEMMA RequeueMoves ==
  ASSUME Inv, NEW S \in SUBSET Jobs, NEW spent \in SUBSET Interrupted(S),
         \A j \in S : jstate[j] = "running", Requeue(S, spent)
  PROVE  Moves
<1>1. /\ \A j \in Jobs : jstate'[j] = IF j \in S THEN "queued" ELSE jstate[j]
      /\ \A i \in Items :
           \/ istate'[i] = istate[i]
           \/ istate[i] = "running" /\ istate'[i] \in {"queued", "failed"}
  BY DEF Requeue, Interrupted
<1>2. \A i \in Items : ItemMoves(i)
  BY <1>1 DEF ItemMoves, Terminal, Inflight
<1>3. \A j \in Jobs : JobMoves(j)
  BY <1>1 DEF JobMoves, JobTerminal, Inflight
<1> QED
  BY <1>2, <1>3 DEF Moves

\* A submission opens a job with its items, and ends what it supersedes.
LEMMA SubmitMoves == Inv /\ BudgetInv /\ IndexVideo => Moves
<1> SUFFICES ASSUME Inv, BudgetInv, IndexVideo PROVE Moves
  OBVIOUS
<1>1. PICK j \in Jobs, r \in Requests, known, current \in SUBSET Videos : Submit(j, r, known, current)
  BY DEF IndexVideo
<1> DEFINE seqs == 0..(Len(r.urls) - 1)
           queued == {s \in seqs : ~Skipped(r, known, current, s + 1)}
           claims == {k \in Items : /\ istate[k] \in Inflight /\ ivid[k] # NoVideo
                                    /\ \E s \in queued : ivid[k] = NewVideo(r, known, s + 1)}
<1>2. /\ jstate[j] = "absent" /\ jstate' = [jstate EXCEPT ![j] = "queued"]
      /\ istate' = [k \in Items |->
           IF k \in claims THEN "cancelled"
           ELSE IF k[1] = j /\ k[2] \in queued THEN "queued"
           ELSE IF k[1] = j /\ k[2] \in seqs THEN "skipped" ELSE istate[k]]
  BY <1>1 DEF Submit
<1>3. \A k \in claims : istate[k] \in Inflight
  OBVIOUS
<1> HIDE DEF seqs, queued, claims
<1>4. \A k \in Jobs : jstate'[k] = IF k = j THEN "queued" ELSE jstate[k]
  BY <1>2 DEF Inv, TypeOK, RowsTypeOK
<1>5. \A i \in Items : i[1] \in Jobs /\ (i[1] = j => istate[i] = "absent")
  BY <1>2 DEF BudgetInv, BudgetOf, Items
<1>6. \A i \in Items :
        \/ istate'[i] = istate[i]
        \/ istate[i] \in Inflight /\ istate'[i] = "cancelled"
        \/ i[1] = j /\ istate[i] = "absent" /\ istate'[i] # "absent"
  BY <1>2, <1>3, <1>5
<1>7. \A i \in Items : ItemMoves(i)
  BY <1>2, <1>4, <1>6 DEF ItemMoves, Terminal, Inflight, JobTerminal
<1>8. \A k \in Jobs : JobMoves(k)
  BY <1>2, <1>4 DEF JobMoves, JobTerminal, Inflight
<1> QED
  BY <1>7, <1>8 DEF Moves

\* An ending of the whole job takes every item in flight with it.
LEMMA CancelMoves ==
  ASSUME Inv, NEW j \in Jobs, jstate[j] \in Inflight,
         jstate' = [jstate EXCEPT ![j] = "cancelled"],
         istate' = [i \in Items |-> IF i \in Unfinished(j) THEN "cancelled" ELSE istate[i]]
  PROVE  Moves
<1>1. \A k \in Jobs : jstate'[k] = IF k = j THEN "cancelled" ELSE jstate[k]
  BY DEF Inv, TypeOK, RowsTypeOK
<1>2. \A i \in Items :
        istate'[i] = IF i[1] = j /\ istate[i] \in Inflight THEN "cancelled" ELSE istate[i]
  BY DEF Unfinished, ItemsOf, Inflight
<1>3. \A i \in Items : ItemMoves(i)
  BY <1>2 DEF ItemMoves, Terminal, Inflight
<1>4. \A k \in Jobs : JobMoves(k)
  BY <1>1, <1>2 DEF JobMoves, JobTerminal, Inflight
<1> QED
  BY <1>3, <1>4 DEF Moves

\* Steps that end no job and open none, and move items that are not over.
LEMMA QuietMoves ==
  ASSUME Inv,
         \A j \in Jobs :
           jstate'[j] = jstate[j] \/ (jstate[j] \in Inflight /\ jstate'[j] \in Inflight),
         \A i \in Items :
           \/ istate'[i] = istate[i]
           \/ istate[i] \in Inflight /\ istate'[i] # "absent"
           \/ istate[i] = "absent" /\ jstate[i[1]] = "running" /\ jstate'[i[1]] = "running"
  PROVE  Moves
<1>1. \A i \in Items : ItemMoves(i)
  BY DEF ItemMoves, Terminal, Inflight, JobTerminal
<1>2. \A j \in Jobs : JobMoves(j)
  BY DEF JobMoves, JobTerminal, Inflight
<1> QED
  BY <1>1, <1>2 DEF Moves

\* _settle ends a job with what its items add up to.
LEMMA SettleMoves == Inv /\ Settle => Moves
<1> SUFFICES ASSUME Inv, Settle PROVE Moves
  OBVIOUS
<1>1. cur \in Jobs /\ istate' = istate
  BY DEF Inv, LoopInv, Settle, itemVars
<1>2. CASE Settles(cur)
  <2>1. \A j \in Jobs : jstate'[j] = IF j = cur THEN JobResult(cur) ELSE jstate[j]
    BY <1>2 DEF Settle, Inv, TypeOK, RowsTypeOK
  <2>2. jstate[cur] \in Inflight /\ \A i \in Items : i[1] = cur => istate[i] \notin Inflight
    BY <1>2 DEF Settles, Unfinished, ItemsOf, Inflight
  <2>3. /\ JobResult(cur) \in {"done", "failed"}
        /\ JobResult(cur) = "failed" =>
             /\ \E i \in Items : i[1] = cur /\ istate[i] = "failed"
             /\ \A i \in Items : i[1] = cur => istate[i] # "done"
        /\ JobResult(cur) = "done" =>
             \/ \E i \in Items : i[1] = cur /\ istate[i] = "done"
             \/ \A i \in Items : i[1] = cur => istate[i] # "failed"
    BY DEF JobResult, InState, ItemsOf
  <2>4. \A i \in Items : ItemMoves(i)
    BY <1>1 DEF ItemMoves, Inflight
  <2>5. \A j \in Jobs : JobMoves(j)
    BY <1>1, <2>1, <2>2, <2>3 DEF JobMoves, JobTerminal, Inflight
  <2> QED
    BY <2>4, <2>5 DEF Moves
<1>3. CASE ~Settles(cur)
  BY <1>1, <1>3, QuietMoves DEF Settle
<1> QED
  BY <1>2, <1>3

\* The items an expansion adds are under the job being driven.
LEMMA ExpandMoves == Inv /\ Expand => Moves
<1> SUFFICES ASSUME Inv, Expand PROVE Moves
  OBVIOUS
<1>1. cur \in Jobs /\ jstate[cur] = "running" /\ jstate' = jstate
  BY DEF Inv, LoopInv, Expand, Driving, jobVars
<1>2. PICK entries \in SUBSET Listing[iurl[item]], start \in 0..(MaxSeq + 1) :
        AppendItems(cur, entries, start)
  BY DEF Expand
<1> DEFINE fresh == entries \ Seen(cur)
           added == IF Cardinality(fresh) < Room(cur) THEN Cardinality(fresh) ELSE Room(cur)
           kids == start..(start + added - 1)
<1>3. /\ istate' = [k \in Items |-> IF k[1] = cur /\ k[2] \in kids THEN "queued" ELSE istate[k]]
      /\ \A s \in Seqs : s < start <=> istate[<<cur, s>>] # "absent"
      /\ kids \subseteq Seqs
  BY <1>2 DEF AppendItems
<1>4. \A s \in kids : s \in Nat /\ start <= s /\ start \in Nat
  BY <1>3, QueueAssumption DEF Seqs
<1> HIDE DEF kids
<1>5. \A i \in Items : i[1] = cur /\ i[2] \in kids => istate[i] = "absent"
  <2> SUFFICES ASSUME NEW i \in Items, i[1] = cur, i[2] \in kids PROVE istate[i] = "absent"
    OBVIOUS
  <2>1. i = <<cur, i[2]>> /\ i[2] \in Seqs /\ i[2] \in Nat /\ start \in Nat /\ start <= i[2]
    BY <1>3, <1>4 DEF Items
  <2> QED
    BY <1>3, <2>1
<1> QED
  BY <1>1, <1>3, <1>5, QuietMoves

LEMMA LedgerMoves == Inv /\ BudgetInv /\ [Next]_vars => Moves
<1> SUFFICES ASSUME Inv, BudgetInv, [Next]_vars PROVE Moves
  OBVIOUS
<1>1. CASE UNCHANGED <<jstate, istate>>
  BY <1>1, QuietMoves
<1>2. CASE ToolSweepWrite \/ RunnerSweep \/ Boot
  <2>1. PICK snapshot, quiet : ReclaimStale(snapshot, quiet)
    BY <1>2 DEF ToolSweepWrite, RunnerSweep, RunnerSweeps, Boot
  <2>2. PICK spent \in SUBSET Interrupted(quiet) : Requeue(quiet, spent)
    BY <2>1, ReclaimIsRequeue
  <2> QED
    BY <2>1, <2>2, SweepSparesClaim, RequeueMoves
<1>3. CASE StopRelease
  <2> DEFINE S == {j \in held : jstate[j] = "running"}
  <2>1. S \in SUBSET Jobs /\ Requeue(S, {})
    BY <1>3 DEF Inv, TypeOK, ProcessTypeOK, StopRelease, ReleaseClaims
  <2> QED
    BY <2>1, RequeueMoves
<1>4. CASE IndexVideo
  BY <1>4, SubmitMoves
<1>5. ASSUME NEW j \in Jobs, RequestCancel(j) PROVE Moves
  <2>1. CASE jstate[j] = "queued"
    BY <1>5, <2>1, CancelMoves DEF RequestCancel
  <2>2. CASE jstate[j] # "queued"
    BY <1>1, <1>5, <2>2 DEF RequestCancel
  <2> QED
    BY <2>1, <2>2
<1>6. CASE ClaimNext
  <2>1. /\ \A j \in Jobs :
             jstate'[j] = jstate[j] \/ (jstate[j] = "queued" /\ jstate'[j] = "running")
        /\ istate' = istate
    BY <1>6 DEF ClaimNext, Runnable, itemVars, Inv, TypeOK, RowsTypeOK
  <2> QED
    BY <2>1, QuietMoves DEF Inflight
<1>7. CASE CancelJob
  <2>1. cur \in Jobs /\ jstate[cur] \in Inflight
    BY <1>7 DEF Inv, LoopInv, CancelJob, Driving, Inflight
  <2> QED
    BY <1>7, <2>1, CancelMoves DEF CancelJob, CancelRemaining
<1>8. CASE ClaimItem
  <2>1. PICK k \in Items : /\ istate[k] = "queued"
                           /\ istate' = [istate EXCEPT ![k] = "running"]
                           /\ jstate' = jstate
    BY <1>8 DEF ClaimItem, QueuedOf, ItemsOf, jobVars
  <2>2. \A i \in Items :
          istate'[i] = istate[i] \/ (istate[i] = "queued" /\ istate'[i] = "running")
    BY <2>1 DEF Inv, TypeOK, RowsTypeOK
  <2> QED
    BY <2>1, <2>2, QuietMoves DEF Inflight
<1>9. CASE Expand
  BY <1>9, ExpandMoves
<1>10. CASE Defer
  <2>1. /\ cur \in Jobs /\ jstate[cur] = "running"
        /\ item \in Items /\ istate[item] = "running"
    BY <1>10 DEF Inv, LoopInv, Defer, Driving, InItem
  <2>2. CASE CancelSeen(cur)
    BY <1>10, <2>1, <2>2, CancelMoves DEF Defer, CancelRemaining, Inflight
  <2>3. CASE ~CancelSeen(cur)
    <3>1. /\ \A j \in Jobs :
               jstate'[j] = jstate[j] \/ (jstate[j] = "running" /\ jstate'[j] = "queued")
          /\ \A i \in Items :
               istate'[i] = istate[i] \/ (istate[i] = "running" /\ istate'[i] = "queued")
      BY <1>10, <2>1, <2>3 DEF Defer, Inv, TypeOK, RowsTypeOK
    <3> QED
      BY <3>1, QuietMoves DEF Inflight
  <2> QED
    BY <2>2, <2>3
<1>11. CASE FinishItem
  <2>1. /\ item \in Items /\ istate[item] = "running" /\ ending.state \in Terminal
        /\ jstate' = jstate /\ istate' = [istate EXCEPT ![item] = ending.state]
    BY <1>11 DEF Inv, TypeOK, ProcessTypeOK, Ending, LoopInv, FinishItem, InItem, jobVars
  <2>2. \A i \in Items :
          istate'[i] = istate[i] \/ (istate[i] = "running" /\ istate'[i] # "absent")
    BY <2>1 DEF Inv, TypeOK, RowsTypeOK, Terminal
  <2> QED
    BY <2>1, <2>2, QuietMoves DEF Inflight
<1>12. CASE Settle
  BY <1>12, SettleMoves
<1> QED
  BY <1>1, <1>2, <1>3, <1>4, <1>5, <1>6, <1>7, <1>8, <1>9, <1>10, <1>11, <1>12
  DEF Next, RunnerStep, RunItem, vars, jobVars, itemVars, ToolSweepRead, ToolRefused, Expire,
      NothingToClaim, Activate, CheckCancel, NoItemLeft, FeatureDisabled, FetchFails, Land, LandLocally,
      StageFails, Checkpoint, Finalize, SettleVideo, Extend, Retire, StopBegin, Crash

(* The queue, with its crashes, stops, retries, sweeps and cancellations,   *)
(* implements the ledger: a job is opened once, an item ends once and keeps *)
(* its ending, and a job ends once, with what its items add up to.          *)
THEOREM QueueIsALedger == Spec => LedgerSpec
<1>1. Init => Ledger!Init
  BY DEF Init, Ledger!Init, Ended, JobTerminal, Terminal
<1>2. Init => StopInv /\ BudgetInv
  BY QueueAssumption DEF Init, StopInv, BudgetInv, BudgetOf, Items
<1>3. Inv /\ BudgetInv /\ Inv' /\ [Next]_vars => [Ledger!Step]_(Ledger!ledger)
  BY LedgerMoves, MovesAreLedgerSteps DEF Inv, TypeOK
<1> QED
  BY <1>1, <1>2, <1>3, StopStep, BudgetStep, Invariance, PTL
  DEF Spec, LedgerSpec, Ledger!Spec

-----------------------------------------------------------------------------
(* Expansion.  A job lists no child twice and no more videos than its limit *)
(* allows, however often the same container is expanded again.              *)

OnceOf(j) ==
  /\ \A i, k \in ItemsOf(j) :
       iurl[i] = iurl[k] /\ i # k => i[2] < Len(jreq[j].urls) /\ k[2] < Len(jreq[j].urls)
  /\ \/ Cardinality(Seen(j) \ Containers) <= MaxItems
     \/ Cardinality(ItemsOf(j)) <= Len(jreq[j].urls)

\* The property speaks of each job that exists.
LEMMA OnceOfEach == ExpandedOnce <=> \A j \in Jobs : jstate[j] # "absent" => OnceOf(j)
  BY DEF ExpandedOnce, OnceOf, Seen

\* A job lists finitely many items, so it names finitely many URLs.
LEMMA ListsFinitely ==
  ASSUME NEW j \in Jobs
  PROVE  IsFiniteSet(ItemsOf(j)) /\ IsFiniteSet(Seen(j)) /\ IsFiniteSet(Seen(j) \ Containers)
<1>1. IsFiniteSet({j}) /\ IsFiniteSet(Seqs)
  <2>1. IsFiniteSet({j})
    BY FS_Singleton
  <2>2. 0 \in Int /\ MaxSeq \in Int
    BY QueueAssumption
  <2>3. IsFiniteSet(0..MaxSeq)
    BY <2>2, FS_Interval
  <2> QED
    BY <2>1, <2>3 DEF Seqs
<1>2. IsFiniteSet({j} \X Seqs)
  BY <1>1, FS_Product
<1>3. ItemsOf(j) \in SUBSET ({j} \X Seqs)
  BY DEF ItemsOf, Items
<1>4. IsFiniteSet(ItemsOf(j))
  BY <1>2, <1>3, FS_Subset
<1>5. [i \in ItemsOf(j) |-> iurl[i]] \in Surjection(ItemsOf(j), Seen(j))
  BY DEF Surjection, Seen
<1>6. IsFiniteSet(Seen(j))
  BY <1>4, <1>5, FS_Surjection
<1> QED
  BY <1>4, <1>6, FS_Difference

\* What keeps a job's list, its URLs and its request keeps the property.
LEMMA OnceKept ==
  ASSUME NEW j \in Jobs, OnceOf(j), jreq'[j] = jreq[j],
         \A i \in Items : i[1] = j =>
           (istate'[i] = "absent" <=> istate[i] = "absent") /\ iurl'[i] = iurl[i]
  PROVE  OnceOf(j)'
<1>1. ItemsOf(j)' = ItemsOf(j)
  BY DEF ItemsOf
<1>2. \A i \in ItemsOf(j) : iurl'[i] = iurl[i]
  BY DEF ItemsOf
<1>3. Seen(j)' = Seen(j)
  BY <1>1, <1>2 DEF Seen
<1> QED
  BY <1>1, <1>2, <1>3 DEF OnceOf

\* A submission lists what was asked for.
LEMMA OnceSubmit == Inv /\ BudgetInv /\ ExpandedOnce /\ IndexVideo => ExpandedOnce'
<1> SUFFICES ASSUME Inv, BudgetInv, ExpandedOnce, IndexVideo PROVE ExpandedOnce'
  OBVIOUS
<1>1. PICK j \in Jobs, r \in Requests, known, current \in SUBSET Videos : Submit(j, r, known, current)
  BY DEF IndexVideo
<1> DEFINE seqs == 0..(Len(r.urls) - 1)
           queued == {s \in seqs : ~Skipped(r, known, current, s + 1)}
           claims == {k \in Items : /\ istate[k] \in Inflight /\ ivid[k] # NoVideo
                                    /\ \E s \in queued : ivid[k] = NewVideo(r, known, s + 1)}
<1>2. /\ jstate[j] = "absent" /\ jstate' = [jstate EXCEPT ![j] = "queued"]
      /\ jreq' = [jreq EXCEPT ![j] = r] /\ seqs \subseteq Seqs
      /\ istate' = [k \in Items |->
           IF k \in claims THEN "cancelled"
           ELSE IF k[1] = j /\ k[2] \in queued THEN "queued"
           ELSE IF k[1] = j /\ k[2] \in seqs THEN "skipped" ELSE istate[k]]
      /\ iurl' = [k \in Items |-> IF k[1] = j /\ k[2] \in seqs THEN r.urls[k[2] + 1] ELSE iurl[k]]
  BY <1>1 DEF Submit
<1>3. (\A k \in claims : istate[k] # "absent") /\ queued \subseteq seqs
  BY DEF Inflight
<1>4. Len(r.urls) \in Nat /\ (\A s \in seqs : s < Len(r.urls)) /\ IsFiniteSet(seqs)
  <2>1. Len(r.urls) \in Nat
    BY QueueAssumption
  <2> QED
    BY <2>1, FS_Interval
<1>5. Cardinality(seqs) = Len(r.urls)
  BY <1>4, FS_Interval
<1> HIDE DEF seqs, queued, claims
<1>6. /\ \A k \in Jobs : jstate'[k] = IF k = j THEN "queued" ELSE jstate[k]
      /\ \A k \in Jobs : jreq'[k] = IF k = j THEN r ELSE jreq[k]
  BY <1>2 DEF Inv, TypeOK, RowsTypeOK
<1>7. \A i \in Items : i[1] = j => istate[i] = "absent"
  BY <1>2 DEF BudgetInv, BudgetOf
<1>8. ASSUME NEW k \in Jobs, k # j, jstate'[k] # "absent" PROVE OnceOf(k)'
  <2>1. OnceOf(k) /\ jreq'[k] = jreq[k]
    BY <1>6, <1>8, OnceOfEach
  <2>2. ASSUME NEW i \in Items, i[1] = k
        PROVE  (istate'[i] = "absent" <=> istate[i] = "absent") /\ iurl'[i] = iurl[i]
    BY <1>2, <1>3, <1>8, <2>2
  <2> QED
    BY <2>1, <2>2, OnceKept
<1>9. OnceOf(j)'
  <2>1. ASSUME NEW i \in ItemsOf(j)' PROVE i \in {j} \X seqs
    <3>1. i \in Items /\ i[1] = j /\ istate'[i] # "absent"
      BY <2>1 DEF ItemsOf
    <3>2. istate[i] = "absent" /\ i \notin claims
      BY <1>3, <1>7, <3>1
    <3>3. i[2] \in seqs
      BY <1>2, <1>3, <3>1, <3>2
    <3> QED
      BY <3>1, <3>3 DEF Items
  <2>2. IsFiniteSet({j} \X seqs) /\ Cardinality({j} \X seqs) = Len(r.urls)
    <3>1. IsFiniteSet({j}) /\ Cardinality({j}) = 1
      BY FS_Singleton
    <3>2. /\ Cardinality({j} \X seqs) = Cardinality({j}) * Cardinality(seqs)
          /\ IsFiniteSet({j} \X seqs)
      BY <1>4, <3>1, FS_Product
    <3>3. 1 * Len(r.urls) = Len(r.urls)
      BY <1>4
    <3> QED
      BY <1>5, <3>1, <3>2, <3>3
  <2> DEFINE listed == ItemsOf(j)'
  <2>3. Cardinality(listed) <= Len(r.urls)
    <3>1. listed \in SUBSET ({j} \X seqs)
      BY <2>1
    <3> HIDE DEF listed
    <3> QED
      BY <2>2, <3>1, FS_Subset
  <2>4. \A i \in ItemsOf(j)' : i[2] < Len(r.urls)
    BY <1>4, <2>1
  <2> QED
    BY <1>6, <2>3, <2>4 DEF OnceOf
<1> QED
  BY <1>8, <1>9 DEF ExpandedOnce, OnceOf, Seen

\* An expansion adds children the job does not list, as many as it has room for.
LEMMA OnceExpand == Inv /\ ExpandedOnce /\ Expand => ExpandedOnce'
<1> SUFFICES ASSUME Inv, ExpandedOnce, Expand PROVE ExpandedOnce'
  OBVIOUS
<1>1. PICK mine \in Jobs :
        /\ mine = cur /\ jstate[mine] = "running" /\ UNCHANGED <<jstate, jreq>>
        /\ item \in Items /\ iurl[item] \in Containers
  BY DEF Inv, LoopInv, Expand, Driving, InItem, jobVars
<1>2. PICK entries \in SUBSET Listing[iurl[item]], start \in 0..(MaxSeq + 1) :
        AppendItems(mine, entries, start)
  BY <1>1 DEF Expand
<1> DEFINE fresh == entries \ Seen(mine)
           taken == Seen(mine) \ Containers
           added == IF Cardinality(fresh) < Room(mine) THEN Cardinality(fresh) ELSE Room(mine)
           kids == start..(start + added - 1)
<1>3. /\ \A s \in Seqs : s < start <=> istate[<<mine, s>>] # "absent"
      /\ kids \subseteq Seqs
  BY <1>2 DEF AppendItems
<1>4. PICK child \in [kids -> fresh] :
        /\ \A s, t \in kids : child[s] = child[t] => s = t
        /\ istate' = [i \in Items |-> IF i[1] = mine /\ i[2] \in kids THEN "queued" ELSE istate[i]]
        /\ iurl' = [i \in Items |-> IF i[1] = mine /\ i[2] \in kids THEN child[i[2]] ELSE iurl[i]]
  BY <1>2 DEF AppendItems
<1>5. /\ Cardinality(fresh) \in Nat /\ Cardinality(taken) \in Nat /\ IsFiniteSet(taken)
      /\ MaxItems \in Nat
  <2>1. IsFiniteSet(entries)
    <3>1. IsFiniteSet(Listing[iurl[item]])
      BY <1>1, QueueAssumption
    <3> QED
      BY <3>1, FS_Subset
  <2>2. IsFiniteSet(fresh)
    BY <2>1, FS_Difference
  <2>3. IsFiniteSet(taken)
    BY <1>1, ListsFinitely
  <2> QED
    BY <2>2, <2>3, FS_CardinalityType, QueueAssumption
<1>6. /\ added \in Nat /\ start \in Nat
      /\ added # 0 => Cardinality(taken) + added <= MaxItems
  BY <1>5, QueueAssumption DEF Room
<1>7. /\ IsFiniteSet(kids) /\ Cardinality(kids) = added
      /\ \A s \in kids : s \in Nat /\ start <= s
  <2> HIDE DEF added
  <2>1. start \in Int /\ start + added - 1 \in Int
    BY <1>6
  <2>2. /\ IsFiniteSet(kids)
        /\ Cardinality(kids) = IF start > start + added - 1 THEN 0 ELSE (start + added - 1) - start + 1
    BY <2>1, FS_Interval
  <2> QED
    BY <1>6, <2>1, <2>2
<1>8. added = 0 => kids = {}
  BY <1>6
<1>9. fresh \cap Seen(mine) = {}
  OBVIOUS
<1> DEFINE names == {child[s] : s \in kids}
<1> HIDE DEF fresh, added, kids, taken
<1>10. IsFiniteSet(names) /\ Cardinality(names) \in Nat /\ Cardinality(names) <= added
  <2>1. [s \in kids |-> child[s]] \in Surjection(kids, names)
    BY DEF Surjection
  <2> HIDE DEF names
  <2>2. IsFiniteSet(names) /\ Cardinality(names) <= added
    BY <1>7, <2>1, FS_Surjection
  <2> QED
    BY <2>2, FS_CardinalityType
<1>11. \A i \in Items : i[1] = mine /\ i[2] \in kids => istate[i] = "absent"
  <2> SUFFICES ASSUME NEW i \in Items, i[1] = mine, i[2] \in kids PROVE istate[i] = "absent"
    OBVIOUS
  <2>1. i = <<mine, i[2]>> /\ i[2] \in Seqs /\ i[2] \in Nat /\ start <= i[2]
    BY <1>3, <1>7 DEF Items
  <2> QED
    BY <1>3, <1>6, <2>1
<1>12. ASSUME NEW j \in Jobs, j # mine, jstate'[j] # "absent" PROVE OnceOf(j)'
  <2>1. OnceOf(j) /\ jreq'[j] = jreq[j]
    BY <1>1, <1>12, OnceOfEach
  <2>2. ASSUME NEW i \in Items, i[1] = j
        PROVE  (istate'[i] = "absent" <=> istate[i] = "absent") /\ iurl'[i] = iurl[i]
    BY <1>4, <1>12, <2>2
  <2> QED
    BY <2>1, <2>2, OnceKept
<1>13. OnceOf(mine)
  BY <1>1, OnceOfEach
<1>14. CASE added = 0
  <2>1. ASSUME NEW i \in Items, i[1] = mine
        PROVE  (istate'[i] = "absent" <=> istate[i] = "absent") /\ iurl'[i] = iurl[i]
    BY <1>4, <1>8, <1>14, <2>1
  <2>2. OnceOf(mine)'
    BY <1>1, <1>13, <2>1, OnceKept
  <2> QED
    BY <1>12, <2>2 DEF ExpandedOnce, OnceOf, Seen
<1>15. CASE added # 0
  <2>1. ASSUME NEW i \in ItemsOf(mine)'
        PROVE  /\ i \in Items /\ i[1] = mine
               /\ \/ i[2] \in kids /\ iurl'[i] = child[i[2]] /\ iurl'[i] \in fresh
                  \/ i[2] \notin kids /\ i \in ItemsOf(mine) /\ iurl'[i] = iurl[i] /\ iurl'[i] \in Seen(mine)
    <3>1. i \in Items /\ i[1] = mine /\ istate'[i] # "absent"
      BY <2>1 DEF ItemsOf
    <3>2. CASE i[2] \in kids
      BY <1>4, <3>1, <3>2
    <3>3. CASE i[2] \notin kids
      BY <1>4, <3>1, <3>3 DEF ItemsOf, Seen
    <3> QED
      BY <3>1, <3>2, <3>3
  <2>2. ASSUME NEW i \in ItemsOf(mine)', NEW k \in ItemsOf(mine)', iurl'[i] = iurl'[k], i # k
        PROVE  i[2] < Len(jreq'[mine].urls) /\ k[2] < Len(jreq'[mine].urls)
    <3>1. CASE i[2] \in kids /\ k[2] \in kids
      <4>1. i[2] = k[2] /\ i[1] = k[1]
        BY <1>4, <2>1, <2>2, <3>1
      <4> QED
        BY <2>1, <2>2, <4>1 DEF Items
    <3>2. CASE i[2] \notin kids /\ k[2] \notin kids
      BY <1>1, <1>13, <2>1, <2>2, <3>2 DEF OnceOf
    <3> QED
      BY <1>9, <2>1, <2>2, <3>1, <3>2
  <2> DEFINE after == Seen(mine)' \ Containers
  <2>3. after \subseteq taken \cup names
    BY <2>1 DEF Seen, taken
  <2>4. Cardinality(after) <= MaxItems
    <3> HIDE DEF after, names
    <3>1. /\ IsFiniteSet(taken \cup names)
          /\ Cardinality(taken \cup names)
               = Cardinality(taken) + Cardinality(names) - Cardinality(taken \cap names)
      BY <1>5, <1>10, FS_Union
    <3>2. Cardinality(taken \cap names) \in Nat /\ Cardinality(taken \cup names) \in Nat
      BY <1>5, <3>1, FS_Intersection, FS_CardinalityType
    <3>3. IsFiniteSet(after) /\ Cardinality(after) <= Cardinality(taken \cup names)
      BY <2>3, <3>1, FS_Subset
    <3>4. Cardinality(after) \in Nat
      BY <3>3, FS_CardinalityType
    <3> QED
      BY <1>5, <1>6, <1>10, <1>15, <3>1, <3>2, <3>3, <3>4
  <2>5. OnceOf(mine)'
    BY <2>2, <2>4 DEF OnceOf
  <2> QED
    BY <1>12, <2>5 DEF ExpandedOnce, OnceOf, Seen
<1> QED
  BY <1>14, <1>15

\* The other steps write no row that was absent and name no item anew.
LEMMA OnceStep == Inv /\ BudgetInv /\ ExpandedOnce /\ [Next]_vars => ExpandedOnce'
<1> SUFFICES ASSUME Inv, BudgetInv, ExpandedOnce, [Next]_vars PROVE ExpandedOnce'
  OBVIOUS
<1>1. SUFFICES \/ IndexVideo \/ Expand
               \/ /\ UNCHANGED <<jreq, iurl>>
                  /\ \A j \in Jobs : jstate[j] = "absent" => jstate'[j] = "absent"
                  /\ \A i \in Items : istate'[i] = "absent" <=> istate[i] = "absent"
  <2>1. ASSUME UNCHANGED <<jreq, iurl>>,
               \A j \in Jobs : jstate[j] = "absent" => jstate'[j] = "absent",
               \A i \in Items : istate'[i] = "absent" <=> istate[i] = "absent"
        PROVE  ExpandedOnce'
    <3>1. ASSUME NEW j \in Jobs, jstate'[j] # "absent" PROVE OnceOf(j)'
      BY <2>1, <3>1, OnceOfEach, OnceKept
    <3> QED
      BY <3>1 DEF ExpandedOnce, OnceOf, Seen
  <2> QED
    BY <2>1, OnceSubmit, OnceExpand
<1>2. CASE UNCHANGED <<jstate, jreq, istate, iurl>>
  BY <1>2
<1>3. CASE ToolSweepWrite \/ RunnerSweep \/ Boot
  <2>1. PICK snapshot, quiet : ReclaimStale(snapshot, quiet)
    BY <1>3 DEF ToolSweepWrite, RunnerSweep, RunnerSweeps, Boot
  <2>2. PICK spent \in SUBSET Interrupted(quiet) : Requeue(quiet, spent)
    BY <2>1, ReclaimIsRequeue
  <2> QED
    BY <2>1, <2>2, SweepSparesClaim DEF Requeue, Interrupted
<1>4. CASE StopRelease
  BY <1>4 DEF StopRelease, ReleaseClaims, Requeue, Interrupted
<1>5. ASSUME NEW j \in Jobs, RequestCancel(j)
      PROVE  /\ UNCHANGED <<jreq, iurl>>
             /\ \A k \in Jobs : jstate[k] = "absent" => jstate'[k] = "absent"
             /\ \A i \in Items : istate'[i] = "absent" <=> istate[i] = "absent"
  BY <1>5 DEF RequestCancel, Unfinished, ItemsOf, Inflight, Inv, TypeOK, RowsTypeOK
<1>6. CASE ClaimNext \/ Settle
  BY <1>6 DEF ClaimNext, Settle, Settles, Runnable, itemVars, Inflight, Inv, TypeOK, RowsTypeOK
<1>7. CASE CancelJob \/ Defer
  <2>1. cur \in Jobs /\ jstate[cur] = "running"
    BY <1>7 DEF Inv, LoopInv, CancelJob, Defer, Driving
  <2>2. Defer => item \in Items /\ istate[item] = "running"
    BY DEF Inv, LoopInv, Defer, InItem
  <2> QED
    BY <1>7, <2>1, <2>2 DEF CancelJob, Defer, CancelRemaining, Unfinished, ItemsOf,
                            Inv, TypeOK, RowsTypeOK
<1>8. CASE ClaimItem
  <2>1. PICK k \in Items : istate[k] = "queued" /\ istate' = [istate EXCEPT ![k] = "running"]
    BY <1>8 DEF ClaimItem, QueuedOf, ItemsOf
  <2> QED
    BY <1>8, <2>1 DEF ClaimItem, jobVars, Inv, TypeOK, RowsTypeOK
<1>9. CASE FinishItem
  <2>1. item \in Items /\ istate[item] = "running" /\ ending.state # "absent"
    BY <1>9 DEF Inv, TypeOK, ProcessTypeOK, Ending, Terminal, LoopInv, FinishItem, InItem
  <2> QED
    BY <1>9, <2>1 DEF FinishItem, jobVars, Inv, TypeOK, RowsTypeOK
<1> QED
  BY <1>2, <1>3, <1>4, <1>5, <1>6, <1>7, <1>8, <1>9
  DEF Next, RunnerStep, RunItem, vars, jobVars, itemVars, ToolSweepRead, ToolRefused, Expire,
      NothingToClaim, Activate, CheckCancel, NoItemLeft, FeatureDisabled, FetchFails, Land, LandLocally,
      StageFails, Checkpoint, Finalize, SettleVideo, Extend, Retire, StopBegin, Crash

(* However often a container is expanded again, after a crash between the   *)
(* children and the ending or after a retry, a job lists no child twice and *)
(* expands to no more videos than max_items (pipeline/store.py append_items).*)
THEOREM ExpansionsAreOnce == Spec => []ExpandedOnce
<1>1. Init => BudgetInv /\ StopInv
  BY QueueAssumption DEF Init, StopInv, BudgetInv, BudgetOf, Items
<1>2. Init => ExpandedOnce
  BY DEF Init, ExpandedOnce
<1> QED
  BY <1>1, <1>2, StopStep, BudgetStep, OnceStep, Invariance, PTL DEF Spec
=============================================================================
