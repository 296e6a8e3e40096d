-------------------------- MODULE DashboardProofs --------------------------
(***************************************************************************)
(* Theorems about Dashboard for every number of requests, connections,     *)
(* versions and mishaps: the page drives the database only by its own      *)
(* steps, and what is on screen never goes back.                           *)
(***************************************************************************)
EXTENDS Dashboard, DbAccessProofs

\* What was read was committed.
AnswersAreCommits ==
  /\ data <= version
  /\ \A r \in Reads : seen[r] <= version /\ net[r] <= version

\* What the controller's request saw is no older than what is on screen.
AnswersAreNewer ==
  \A r \in Reads : r = controller =>
    /\ net[r] \in Versions => net[r] >= data
    /\ Reading(r) /\ seen[r] \in Versions => seen[r] >= data

PageInv == PageTypeOK /\ AnswersAreCommits /\ AnswersAreNewer
DashInv == DbInv /\ PageInv

EntryTypeOK ==
  /\ failed \in BOOLEAN /\ waiting \in BOOLEAN /\ mounted \in BOOLEAN
  /\ release \in BOOLEAN /\ lapsed \in BOOLEAN
  /\ timer \in {"none", "poll", "retry"}

-----------------------------------------------------------------------------
(* The database's steps *)

\* Answers are numbers.
LEMMA Numbers ==
  ASSUME DashInv
  PROVE  /\ version \in Nat /\ data \in Int
         /\ \A r \in Reads : seen[r] \in Int /\ net[r] \in Int
BY DbAssumption
   DEF DashInv, DbInv, PageInv, DbTypeOK, PageTypeOK, Versions, NoData, NoAnswer,
       Interrupted, TooMany

\* No step of the database undoes a commit, and a query sees the last one.
LEMMA DbSees ==
  ASSUME DashInv, [DbNext]_dbVars
  PROVE  /\ version' \in Nat /\ version' >= version
         /\ \A r \in Reads : seen'[r] \in Int /\ seen'[r] <= version'
<1>1. version \in Nat /\ \A r \in Reads : seen[r] \in Int /\ seen[r] <= version
  BY Numbers DEF DashInv, PageInv, AnswersAreCommits
<1>2. seen \in [Reads -> Versions \cup {NoAnswer, Interrupted}] /\ version >= 0
  BY <1>1 DEF DashInv, DbInv, DbTypeOK
<1> USE DEF NoAnswer, Interrupted
<1>3. ASSUME NEW r \in Reads,
             \/ ReadCall(r) \/ TakeConn(r) \/ Query(r) \/ QueryStops(r)
             \/ QueryOverdue(r) \/ ReadReturns(r) \/ ReadCancel(r)
      PROVE  /\ version' \in Nat /\ version' >= version
             /\ \A s \in Reads : seen'[s] \in Int /\ seen'[s] <= version'
  <2>1. version' = version
    BY <1>3 DEF ReadCall, TakeConn, Query, QueryStops, QueryOverdue, ReadReturns, ReadCancel
  <2>2. \E x \in {seen[r], version, NoAnswer, Interrupted} : seen' = [seen EXCEPT ![r] = x]
    BY <1>2, <1>3 DEF ReadCall, TakeConn, Query, QueryStops, QueryOverdue, ReadReturns,
                      Release, ReadCancel
  <2> QED
    BY <1>1, <1>2, <2>1, <2>2
<1>4. ASSUME NEW w \in Writes,
             \/ WriteCall(w) \/ TakeLock(w) \/ Begin(w) \/ Commit(w)
             \/ Rollback(w) \/ WriteReturns(w) \/ WriteCancel(w)
      PROVE  /\ version' \in Nat /\ version' >= version
             /\ \A s \in Reads : seen'[s] \in Int /\ seen'[s] <= version'
  <2>1. seen' = seen
    BY <1>4 DEF WriteCall, TakeLock, Begin, Commit, Rollback, WriteReturns, WriteCancel,
                readVars
  <2>2. version' = version \/ version' = version + 1
    BY <1>4 DEF WriteCall, TakeLock, Begin, Commit, Rollback, WriteReturns, WriteCancel
  <2> QED
    BY <1>1, <2>1, <2>2
<1>5. CASE UNCHANGED dbVars
  BY <1>1, <1>5 DEF dbVars, readVars
<1> QED
  BY <1>3, <1>4, <1>5 DEF DbNext

\* Where the answers on their way and the screen stay as they are, so do the
\* facts about them.
LEMMA CommitsKept ==
  ASSUME DashInv, [DbNext]_dbVars, data' = data,
         \A r \in Reads : net'[r] \in {net[r], seen[r], NoAnswer, Interrupted, TooMany}
  PROVE  AnswersAreCommits'
<1>1. /\ version \in Nat /\ data \in Int /\ data <= version
      /\ \A r \in Reads : seen[r] \in Int /\ net[r] \in Int
           /\ seen[r] <= version /\ net[r] <= version
  BY Numbers DEF DashInv, PageInv, AnswersAreCommits
<1>2. /\ version' \in Nat /\ version' >= version
      /\ \A r \in Reads : seen'[r] \in Int /\ seen'[r] <= version'
  BY DbSees
<1>3. \A r \in Reads : net'[r] <= version'
  BY <1>1, <1>2 DEF NoAnswer, Interrupted, TooMany
<1> QED
  BY <1>1, <1>2, <1>3 DEF AnswersAreCommits

\* A step of the pool keeps the controller's request ahead of the screen.
LEMMA NewerKept ==
  ASSUME DashInv, UNCHANGED <<data, controller, net>>,
         \/ \E s \in Reads : TakeConn(s) \/ Query(s) \/ QueryStops(s) \/ QueryOverdue(s)
         \/ UNCHANGED readVars
  PROVE  AnswersAreNewer'
<1>1. /\ version \in Nat /\ data \in Int /\ data <= version
      /\ \A r \in Reads : seen[r] \in Int
  BY Numbers DEF DashInv, PageInv, AnswersAreCommits
<1>2. /\ seen \in [Reads -> Versions \cup {NoAnswer, Interrupted}]
      /\ rphase \in [Reads -> Calls]
  BY DEF DashInv, DbInv, DbTypeOK
<1> SUFFICES ASSUME NEW r \in Reads, r = controller
             PROVE  /\ net[r] \in Versions => net[r] >= data
                    /\ Reading(r)' /\ seen'[r] \in Versions => seen'[r] >= data
  BY DEF AnswersAreNewer
<1>3. /\ net[r] \in Versions => net[r] >= data
      /\ Reading(r) /\ seen[r] \in Versions => seen[r] >= data
  BY DEF DashInv, PageInv, AnswersAreNewer
<1>4. NoAnswer \notin Versions /\ Interrupted \notin Versions
  BY DbAssumption DEF Versions, NoAnswer, Interrupted
<1>5. CASE UNCHANGED readVars
  BY <1>3, <1>5 DEF readVars, Reading
<1>6. ASSUME NEW s \in Reads, TakeConn(s) PROVE Reading(r)' /\ seen'[r] \in Versions => seen'[r] >= data
  BY <1>2, <1>3, <1>4, <1>6 DEF TakeConn, Reading
<1>7. ASSUME NEW s \in Reads, Query(s) PROVE Reading(r)' /\ seen'[r] \in Versions => seen'[r] >= data
  BY <1>1, <1>2, <1>3, <1>7 DEF Query, Reading
<1>8. ASSUME NEW s \in Reads, QueryStops(s) \/ QueryOverdue(s)
      PROVE  Reading(r)' /\ seen'[r] \in Versions => seen'[r] >= data
  BY <1>2, <1>3, <1>4, <1>8 DEF QueryStops, QueryOverdue, Reading
<1> QED
  BY <1>3, <1>5, <1>6, <1>7, <1>8

-----------------------------------------------------------------------------
(* The page's steps *)

\* What a page that reads does to its entry.
LEMMA PageReads ==
  ASSUME PageTypeOK, NEW r \in Reads,
         Page!Mount(r) \/ Page!TimerFires(r) \/ Page!TabBack(r) \/ Page!Reload(r)
  PROVE  data' = data /\ controller' \in {controller, r} /\ EntryTypeOK'
<1> USE DEF PageTypeOK, EntryTypeOK
<1>1. CASE Page!Mount(r)
  BY <1>1 DEF Page!Mount, Page!Load
<1>2. CASE Page!TimerFires(r)
  BY <1>2 DEF Page!TimerFires, Page!Load
<1>3. CASE Page!TabBack(r)
  BY <1>3 DEF Page!TabBack, Page!Load
<1>4. CASE Page!Reload(r)
  BY <1>4 DEF Page!Reload
<1> QED
  BY <1>1, <1>2, <1>3, <1>4

\* A request that was not in use is ahead of the screen: it has seen nothing.
LEMMA SendingKeeps ==
  ASSUME DashInv, NEW r \in Reads, Unused(r),
         data' = data, controller' \in {controller, r}, EntryTypeOK', Sends(r),
         control' \in {"idle", "sending", "orphan"}, ack' \in {"none", "done", "failed"},
         promised' \in Versions
  PROVE  [DbNext]_dbVars /\ PageInv'
<1>1. /\ net \in [Reads -> Versions \cup {NoAnswer, Interrupted, TooMany}]
      /\ rphase \in [Reads -> Calls] /\ net[r] = NoAnswer /\ rphase[r] = "idle"
      /\ controller # r
  BY DEF DashInv, DbInv, PageInv, PageTypeOK, DbTypeOK, Unused
<1>2. NoAnswer \notin Versions /\ TooMany \notin Versions
  BY DbAssumption DEF Versions, NoAnswer, TooMany
<1>3. /\ ReadCall(r) \/ UNCHANGED dbVars
      /\ net' = net \/ net' = [net EXCEPT ![r] = TooMany]
      /\ mishaps' = mishaps \/ (mishaps < MaxMishaps /\ mishaps' = mishaps + 1)
  BY DEF Sends, Mishap
<1>4. [DbNext]_dbVars
  BY <1>3 DEF DbNext
<1>5. PageTypeOK'
  <2>1. mishaps' \in 0..MaxMishaps
    BY <1>3, DashboardAssumption DEF DashInv, PageInv, PageTypeOK
  <2> QED
    BY <1>1, <1>3, <2>1 DEF DashInv, PageInv, PageTypeOK, EntryTypeOK
<1>6. AnswersAreCommits'
  BY <1>1, <1>3, <1>4, CommitsKept
<1>7. AnswersAreNewer'
  <2>1. seen' = seen
    BY <1>3 DEF ReadCall, dbVars, readVars
  <2>2. \A s \in Reads : s # r => net'[s] = net[s] /\ rphase'[s] = rphase[s]
    BY <1>1, <1>3 DEF ReadCall, dbVars, readVars
  <2>3. net'[r] \notin Versions /\ rphase'[r] \in {"idle", "queued"}
    BY <1>1, <1>2, <1>3 DEF ReadCall, dbVars, readVars
  <2> QED
    BY <2>1, <2>2, <2>3 DEF DashInv, PageInv, AnswersAreNewer, Reading
<1> QED
  BY <1>4, <1>5, <1>6, <1>7 DEF PageInv

\* A step that leaves the database and the answers alone, and no controller but
\* perhaps none.
LEMMA QuietKeeps ==
  ASSUME DashInv, UNCHANGED <<dbVars, net, data>>,
         controller' \in {controller, NoRead}, PageTypeOK'
  PROVE  PageInv'
<1>1. NoRead \notin Reads
  BY DashboardAssumption
<1>2. AnswersAreCommits'
  BY DEF DashInv, PageInv, AnswersAreCommits, dbVars, readVars
<1>3. AnswersAreNewer'
  BY <1>1 DEF DashInv, PageInv, AnswersAreNewer, dbVars, readVars, Reading
<1> QED
  BY <1>2, <1>3 DEF PageInv

\* What a step owes: its database step, the invariant and the property.
Kept == [DbNext]_dbVars /\ PageInv' /\ data' >= data

LEMMA ReadingPageKeeps ==
  ASSUME DashInv, MountPage \/ TimerFires \/ TabBack
  PROVE  Kept
<1>1. ARead \in Reads /\ Unused(ARead)
  BY DEF MountPage, TimerFires, TabBack, MayRead, ARead
<1>2. /\ Page!Mount(ARead) \/ Page!TimerFires(ARead) \/ Page!TabBack(ARead)
      /\ Sends(ARead) /\ UNCHANGED <<control, ack, promised>>
  BY DEF MountPage, TimerFires, TabBack, MayRead
<1>3. PageTypeOK /\ data \in Int
  BY Numbers DEF DashInv, PageInv
<1>4. data' = data /\ controller' \in {controller, ARead} /\ EntryTypeOK'
  BY <1>1, <1>2, <1>3, PageReads
<1>5. /\ control' \in {"idle", "sending", "orphan"} /\ ack' \in {"none", "done", "failed"}
      /\ promised' \in Versions
  BY <1>2, <1>3 DEF PageTypeOK
<1>6. [DbNext]_dbVars /\ PageInv'
  BY <1>1, <1>2, <1>4, <1>5, SendingKeeps
<1> QED
  BY <1>3, <1>4, <1>6 DEF Kept

LEMMA AckKeeps ==
  ASSUME DashInv, Acked
  PROVE  Kept
<1>1. PageTypeOK /\ data \in Int /\ version \in Versions
  BY Numbers DEF DashInv, DbInv, DbTypeOK, PageInv
<1>2. control' = "idle" /\ ack' = "none"
  BY DEF Acked
<1>3. CASE ack = "done" /\ control = "sending"
  <2>1. ARead \in Reads /\ Unused(ARead) /\ Page!Reload(ARead) /\ Sends(ARead)
    BY <1>3 DEF Acked, ARead
  <2>2. promised' \in Versions
    BY <1>1, <1>3 DEF Acked, PageTypeOK
  <2>3. data' = data /\ controller' \in {controller, ARead} /\ EntryTypeOK'
    BY <1>1, <2>1, PageReads
  <2>4. [DbNext]_dbVars /\ PageInv'
    BY <1>2, <2>1, <2>2, <2>3, SendingKeeps
  <2> QED
    BY <1>1, <2>3, <2>4 DEF Kept
<1>4. CASE ~(ack = "done" /\ control = "sending")
  <2>1. UNCHANGED <<dbVars, entryVars, net, promised, mishaps>>
    BY <1>4 DEF Acked
  <2>2. PageTypeOK'
    BY <1>1, <1>2, <2>1 DEF PageTypeOK, entryVars, Versions
  <2>3. PageInv'
    BY <2>1, <2>2, QuietKeeps DEF entryVars
  <2> QED
    BY <1>1, <2>1, <2>3 DEF Kept, entryVars
<1> QED
  BY <1>3, <1>4

LEMMA LeavingKeeps ==
  ASSUME DashInv, LeavePage \/ PageAlone
  PROVE  Kept
<1>1. PageTypeOK /\ data \in Int /\ 0 \in Versions
  BY Numbers, DbAssumption DEF DashInv, PageInv, Versions
<1>2. UNCHANGED <<dbVars, net, data>> /\ controller' \in {controller, NoRead}
  BY DEF LeavePage, PageAlone, Page!Unmount, Page!Released, Page!WaitOver, pageVars
<1>3. PageTypeOK'
  BY <1>1 DEF PageTypeOK, Versions, LeavePage, PageAlone, Page!Unmount, Page!Released,
              Page!WaitOver, pageVars
<1> QED
  BY <1>1, <1>2, <1>3, QuietKeeps DEF Kept

-----------------------------------------------------------------------------
(* Answers *)

LEMMA ReadDoneKeeps ==
  ASSUME DashInv, NEW r \in Reads, ReadDone(r)
  PROVE  Kept
<1>1. /\ PageTypeOK /\ data \in Int
      /\ seen \in [Reads -> Versions \cup {NoAnswer, Interrupted}]
      /\ rphase \in [Reads -> Calls]
  BY Numbers DEF DashInv, DbInv, DbTypeOK, PageInv
<1>2. /\ ReadReturns(r) /\ UNCHANGED <<entryVars, control, ack, promised, mishaps>>
      /\ net' = IF rphase[r] = "running" THEN [net EXCEPT ![r] = seen[r]] ELSE net
  BY DEF ReadDone
<1>3. [DbNext]_dbVars
  BY <1>2 DEF DbNext
<1>4. PageTypeOK'
  BY <1>1, <1>2 DEF PageTypeOK, entryVars
<1>5. AnswersAreCommits'
  BY <1>1, <1>2, <1>3, CommitsKept DEF entryVars, PageTypeOK
<1>6. AnswersAreNewer'
  <2>1. Reading(r) /\ ~Reading(r)'
    BY <1>1, <1>2 DEF ReadReturns, Release, Reading
  <2>2. \A s \in Reads : s # r => /\ net'[s] = net[s] /\ rphase'[s] = rphase[s]
                                  /\ seen'[s] = seen[s]
    BY <1>1, <1>2 DEF ReadReturns, Release, PageTypeOK
  <2>3. net'[r] \in {net[r], seen[r]}
    BY <1>1, <1>2 DEF PageTypeOK
  <2> QED
    BY <1>2, <2>1, <2>2, <2>3 DEF DashInv, PageInv, AnswersAreNewer, Reading, entryVars
<1> QED
  BY <1>1, <1>2, <1>3, <1>4, <1>5, <1>6 DEF Kept, PageInv, entryVars

LEMMA ReadDroppedKeeps ==
  ASSUME DashInv, NEW r \in Reads, ReadDropped(r)
  PROVE  Kept
<1>1. PageTypeOK /\ data \in Int /\ rphase \in [Reads -> Calls]
  BY Numbers DEF DashInv, DbInv, DbTypeOK, PageInv
<1>2. /\ ReadCancel(r) /\ UNCHANGED <<entryVars, control, ack, promised>>
      /\ net' = [net EXCEPT ![r] = Interrupted]
      /\ mishaps < MaxMishaps /\ mishaps' = mishaps + 1
  BY DEF ReadDropped, Mishap
<1>3. [DbNext]_dbVars
  BY <1>2 DEF DbNext
<1>4. PageTypeOK'
  BY <1>1, <1>2, DashboardAssumption DEF PageTypeOK, entryVars
<1>5. AnswersAreCommits'
  BY <1>1, <1>2, <1>3, CommitsKept DEF entryVars, PageTypeOK
<1>6. AnswersAreNewer'
  <2>1. Interrupted \notin Versions
    BY DbAssumption DEF Versions, Interrupted
  <2>2. /\ net'[r] = Interrupted /\ seen' = seen
        /\ \A s \in Reads : s # r => net'[s] = net[s]
        /\ \A s \in Reads : Reading(s)' <=> Reading(s)
    BY <1>1, <1>2 DEF ReadCancel, PageTypeOK, Reading
  <2> QED
    BY <1>2, <2>1, <2>2 DEF DashInv, PageInv, AnswersAreNewer, entryVars
<1> QED
  BY <1>1, <1>2, <1>3, <1>4, <1>5, <1>6 DEF Kept, PageInv, entryVars

\* The one step that changes what is on screen: the controller's answer is no
\* older.
LEMMA LandsKeeps ==
  ASSUME DashInv, NEW r \in Reads, Lands(r)
  PROVE  Kept
<1>1. /\ PageTypeOK /\ data \in Int /\ version \in Nat /\ data <= version
      /\ net[r] \in Int /\ net[r] <= version /\ NoRead \notin Reads
  BY Numbers, DashboardAssumption DEF DashInv, PageInv, AnswersAreCommits
<1>2. /\ UNCHANGED <<dbVars, control, ack, promised, mishaps>>
      /\ net' = [net EXCEPT ![r] = NoAnswer]
  BY DEF Lands
<1>3. \A s \in Reads : net'[s] = IF s = r THEN NoAnswer ELSE net[s]
  BY <1>1, <1>2 DEF PageTypeOK
<1>4. NoAnswer \notin Versions /\ NoAnswer <= version
  BY <1>1, DbAssumption DEF Versions, NoAnswer
<1>5. CASE UNCHANGED entryVars
  <2>1. PageTypeOK'
    BY <1>1, <1>2, <1>5 DEF PageTypeOK, entryVars
  <2>2. AnswersAreCommits'
    BY <1>2, <1>3, <1>4, <1>5
       DEF DashInv, PageInv, AnswersAreCommits, entryVars, dbVars, readVars
  <2>3. AnswersAreNewer'
    BY <1>2, <1>3, <1>4, <1>5
       DEF DashInv, PageInv, AnswersAreNewer, Reading, entryVars, dbVars, readVars
  <2> QED
    BY <1>1, <1>2, <1>5, <2>1, <2>2, <2>3 DEF Kept, PageInv, entryVars
<1>6. CASE ~(UNCHANGED entryVars)
  <2>1. \/ Page!RateLimited(r) \/ Page!Refused(r)
        \/ Page!Answered(r, net[r]) /\ net[r] \in Versions
    BY <1>6 DEF Lands
  <2>2. r = controller /\ controller' = NoRead /\ EntryTypeOK'
    BY <1>1, <2>1 DEF Page!RateLimited, Page!Refused, Page!Answered, PageTypeOK, EntryTypeOK
  <2>3. data' = data \/ (data' = net[r] /\ net[r] \in Versions)
    BY <2>1 DEF Page!RateLimited, Page!Refused, Page!Answered
  <2>4. data' >= data /\ data' <= version
    BY <1>1, <2>2, <2>3 DEF DashInv, PageInv, AnswersAreNewer
  <2>5. PageTypeOK'
    BY <1>1, <1>2, <2>2, <2>3 DEF PageTypeOK, EntryTypeOK
  <2>6. AnswersAreCommits'
    BY <1>2, <1>3, <1>4, <2>4 DEF DashInv, PageInv, AnswersAreCommits, dbVars, readVars
  <2>7. AnswersAreNewer'
    BY <1>1, <2>2 DEF AnswersAreNewer
  <2> QED
    BY <1>2, <2>4, <2>5, <2>6, <2>7 DEF Kept, PageInv
<1> QED
  BY <1>5, <1>6

-----------------------------------------------------------------------------
(* Threads and writes *)

LEMMA ReadThreadKeeps ==
  ASSUME DashInv, ReadThread
  PROVE  Kept
<1>1. PageTypeOK /\ data \in Int
  BY Numbers DEF DashInv, PageInv
<1>2. /\ UNCHANGED <<entryVars, net, control, ack, promised>>
      /\ mishaps' = mishaps \/ (mishaps < MaxMishaps /\ mishaps' = mishaps + 1)
      /\ \E s \in Reads : TakeConn(s) \/ Query(s) \/ QueryStops(s) \/ QueryOverdue(s)
  BY DEF ReadThread, Mishap
<1>3. [DbNext]_dbVars
  BY <1>2 DEF DbNext
<1>4. mishaps' \in 0..MaxMishaps
  BY <1>1, <1>2, DashboardAssumption DEF PageTypeOK
<1>5. PageTypeOK'
  BY <1>1, <1>2, <1>4 DEF PageTypeOK, entryVars
<1>6. AnswersAreCommits'
  BY <1>1, <1>2, <1>3, CommitsKept DEF entryVars
<1>7. AnswersAreNewer'
  BY <1>2, NewerKept DEF entryVars
<1> QED
  BY <1>1, <1>2, <1>3, <1>5, <1>6, <1>7 DEF Kept, PageInv, entryVars

LEMMA WritesKeep ==
  ASSUME DashInv,
         \/ Click \/ RunnerWrites \/ WriteThread
         \/ \E w \in Writes : WriteDone(w) \/ WriteDropped(w)
  PROVE  Kept
<1>1. PageTypeOK /\ data \in Int /\ Form \in Writes /\ Runner \in Writes
  BY Numbers, DashboardAssumption DEF DashInv, PageInv
<1>2. \E w \in Writes : \/ WriteCall(w) \/ TakeLock(w) \/ Begin(w) \/ Commit(w)
                        \/ Rollback(w) \/ WriteReturns(w) \/ WriteCancel(w)
  BY <1>1 DEF Click, RunnerWrites, WriteThread, WriteDone, WriteDropped
<1>3. UNCHANGED readVars
  BY <1>2 DEF WriteCall, TakeLock, Begin, Commit, Rollback, WriteReturns, WriteCancel
<1>4. /\ UNCHANGED <<entryVars, net, promised>>
      /\ control' \in {control, "sending"} /\ ack' \in {ack, "done", "failed"}
      /\ mishaps' = mishaps \/ (mishaps < MaxMishaps /\ mishaps' = mishaps + 1)
  BY DEF Click, RunnerWrites, WriteThread, WriteDone, WriteDropped, Mishap, pageVars
<1>5. [DbNext]_dbVars
  BY <1>2 DEF DbNext
<1>6. mishaps' \in 0..MaxMishaps
  BY <1>1, <1>4, DashboardAssumption DEF PageTypeOK
<1>7. PageTypeOK'
  BY <1>1, <1>4, <1>6 DEF PageTypeOK, entryVars
<1>8. AnswersAreCommits'
  BY <1>1, <1>4, <1>5, CommitsKept DEF entryVars
<1>9. AnswersAreNewer'
  BY <1>3, <1>4, NewerKept DEF entryVars
<1> QED
  BY <1>1, <1>4, <1>5, <1>7, <1>8, <1>9 DEF Kept, PageInv, entryVars

-----------------------------------------------------------------------------
LEMMA DashInit == Init => DashInv
<1> SUFFICES ASSUME Init PROVE DashInv
  OBVIOUS
<1>1. DbInv
  BY DbInitInv DEF Init
<1>2. PageTypeOK
  <2>1. 0 \in Versions /\ 0 \in 0..MaxMishaps
    BY DbAssumption, DashboardAssumption DEF Versions
  <2>2. EntryTypeOK /\ data = NoData /\ controller = NoRead
    BY DEF Init, Page!ResourceInit, EntryTypeOK
  <2> QED
    BY <2>1, <2>2 DEF Init, PageTypeOK, EntryTypeOK
<1>3. AnswersAreCommits
  BY DEF Init, DbInit, Page!ResourceInit, AnswersAreCommits, NoData, NoAnswer
<1>4. AnswersAreNewer
  BY DashboardAssumption DEF Init, Page!ResourceInit, AnswersAreNewer
<1> QED
  BY <1>1, <1>2, <1>3, <1>4 DEF DashInv, PageInv

LEMMA DashStep ==
  ASSUME DashInv, [Next]_vars
  PROVE  DashInv' /\ Kept
<1>1. Kept
  <2>1. CASE UNCHANGED vars
    <3>1. PageTypeOK /\ data \in Int
      BY Numbers DEF DashInv, PageInv
    <3>2. PageTypeOK'
      BY <2>1, <3>1 DEF PageTypeOK, vars, entryVars, pageVars, Versions
    <3>3. PageInv'
      BY <2>1, <3>2, QuietKeeps DEF vars, entryVars, pageVars
    <3> QED
      BY <2>1, <3>1, <3>3 DEF Kept, vars, entryVars
  <2> QED
    BY <2>1, ReadingPageKeeps, AckKeeps, LeavingKeeps, ReadDoneKeeps, ReadDroppedKeeps,
       LandsKeeps, ReadThreadKeeps, WritesKeep DEF Next, Serve, Network
<1>2. DbInv'
  BY <1>1, DbStep DEF Kept, DashInv
<1> QED
  BY <1>1, <1>2 DEF Kept, DashInv

LEMMA DashInvariant == Spec => []DashInv
<1>1. DashInv /\ [Next]_vars => DashInv'
  BY DashStep
<1> QED
  BY <1>1, DashInit, PTL DEF Spec

\* The page, its network and the database keep their types.
THEOREM DashboardTypes == Spec => []TypeOK
<1>1. DashInv => TypeOK
  BY DEF DashInv, DbInv, PageInv, TypeOK
<1> QED
  BY <1>1, DashInvariant, PTL

\* With the page and the runner at it, the database is still used one thread to
\* a connection and one transaction to the lock: the composition implements
\* DbSpec, where ConnectionsAreOwned holds.
THEOREM DashboardUsesTheDatabase == Spec => DbSpec
<1>1. Init => DbInit
  BY DEF Init
<1>2. DashInv /\ [Next]_vars => [DbNext]_dbVars
  BY DashStep DEF Kept
<1> QED
  BY <1>1, <1>2, DashInvariant, PTL DEF Spec, DbSpec

\* So whatever the page and its network do, no connection serves two threads.
THEOREM DashboardOwnsThreads == Spec => []OneThreadEach
<1>1. DashInv => OneThreadEach
  BY InvIsOneThreadEach DEF DashInv
<1> QED
  BY <1>1, DashInvariant, PTL

\* A page never shows an older payload after a newer one: the read that lands is
\* the entry's controller, which was sent after what is shown had landed.
THEOREM ScreenNeverGoesBack == Spec => DataNeverGoesBack
<1>1. DashInv /\ [Next]_vars => [data' >= data]_vars
  BY DashStep, Zenon DEF Kept
<1> QED
  BY <1>1, DashInvariant, PTL DEF Spec, DataNeverGoesBack
=============================================================================
