--------------------------- MODULE DbAccessProofs ---------------------------
(***************************************************************************)
(* Theorems about DbAccess for every set of reads, writes and connections: *)
(* no connection ever serves two threads or is lost, and no BEGIN meets an *)
(* open transaction.                                                       *)
(***************************************************************************)
EXTENDS DbAccess, TLAPS

\* A read has a connection exactly while its thread has not ended.
ConnMeansThread == \A r \in Reads : conn[r] # NoConn <=> Reading(r)

\* Each connection is in the pool or with one thread.
PoolSplits ==
  /\ \A r \in Reads : conn[r] \notin free
  /\ \A c \in Conns : c \in free \/ \E r \in Reads : conn[r] = c
  /\ \A r, s \in Reads : r # s /\ conn[r] # NoConn => conn[r] # conn[s]

\* A raised flag is that of a caller that left or of a budget that ran out.
FlagsAreOwn ==
  \A r \in Reads :
    conn[r] \in flagged => rphase[r] = "left" \/ seen[r] = Interrupted

\* The lock is with the call whose thread has not ended, and the transaction
\* with the thread that opened it.
LockMeansThread == \A w \in Writes : lock = w <=> Writing(w)
OpenMeansTransaction ==
  \A w \in Writes : transaction = w <=> Writing(w) /\ wstep[w] = "open"

ReadInv == ConnMeansThread /\ PoolSplits /\ FlagsAreOwn
WriteInv == LockMeansThread /\ OpenMeansTransaction
DbInv == DbTypeOK /\ ReadInv /\ WriteInv

-----------------------------------------------------------------------------
\* A read's steps leave the writer's side alone, and a write's the pool's.
LEMMA WriteSideKept ==
  ASSUME WriteInv, UNCHANGED writeVars
  PROVE  WriteInv'
BY DEF WriteInv, LockMeansThread, OpenMeansTransaction, Writing, writeVars

LEMMA ReadSideKept ==
  ASSUME ReadInv, UNCHANGED readVars
  PROVE  ReadInv'
BY DEF ReadInv, ConnMeansThread, PoolSplits, FlagsAreOwn, Reading, readVars

-----------------------------------------------------------------------------
(* Types *)

LEMMA TypesInit == ASSUME DbInit PROVE DbTypeOK
BY DbAssumption DEF DbInit, DbTypeOK, Calls, Steps, Versions

\* A connection of a thread is one of the pool's.
LEMMA ThreadsConn ==
  ASSUME DbTypeOK, ReadInv, NEW r \in Reads, Reading(r)
  PROVE  conn[r] \in Conns /\ conn[r] # NoConn /\ conn[r] \notin free
BY DEF DbTypeOK, ReadInv, ConnMeansThread, PoolSplits

LEMMA ReadTypes ==
  ASSUME DbTypeOK, ReadInv, NEW r \in Reads,
         \/ ReadCall(r) \/ TakeConn(r) \/ Query(r) \/ QueryStops(r)
         \/ QueryOverdue(r) \/ ReadReturns(r) \/ ReadCancel(r)
  PROVE  DbTypeOK'
<1> USE DEF DbTypeOK, Calls, writeVars
<1>1. CASE ReadCall(r)
  BY <1>1 DEF ReadCall
<1>2. CASE TakeConn(r)
  BY <1>2 DEF TakeConn
<1>3. CASE Query(r)
  BY <1>3 DEF Query
<1>4. CASE QueryStops(r)
  BY <1>4 DEF QueryStops
<1>5. CASE QueryOverdue(r)
  BY <1>5, ThreadsConn DEF QueryOverdue
<1>6. CASE ReadReturns(r)
  BY <1>6, ThreadsConn DEF ReadReturns, Release
<1>7. CASE ReadCancel(r)
  <2>1. rphase' \in [Reads -> Calls]
    BY <1>7 DEF ReadCancel
  <2>2. CASE rphase[r] = "queued"
    BY <1>7, <2>1, <2>2 DEF ReadCancel
  <2>3. CASE rphase[r] = "running"
    BY <1>7, <2>1, <2>3, ThreadsConn DEF ReadCancel, Reading
  <2> QED
    BY <1>7, <2>2, <2>3 DEF ReadCancel
<1> QED
  BY <1>1, <1>2, <1>3, <1>4, <1>5, <1>6, <1>7

LEMMA WriteTypes ==
  ASSUME DbTypeOK, NEW w \in Writes,
         \/ WriteCall(w) \/ TakeLock(w) \/ Begin(w) \/ Commit(w)
         \/ Rollback(w) \/ WriteReturns(w) \/ WriteCancel(w)
  PROVE  DbTypeOK'
<1> USE DEF DbTypeOK, Calls, Steps, readVars
<1>1. CASE WriteCall(w)
  BY <1>1 DEF WriteCall
<1>2. CASE TakeLock(w)
  BY <1>2 DEF TakeLock
<1>3. CASE Begin(w)
  BY <1>3 DEF Begin
<1>4. CASE Commit(w)
  BY <1>4, DbAssumption DEF Commit, Versions
<1>5. CASE Rollback(w)
  BY <1>5 DEF Rollback
<1>6. CASE WriteReturns(w)
  BY <1>6 DEF WriteReturns
<1>7. CASE WriteCancel(w)
  BY <1>7 DEF WriteCancel
<1> QED
  BY <1>1, <1>2, <1>3, <1>4, <1>5, <1>6, <1>7

-----------------------------------------------------------------------------
(* The pool *)

LEMMA ReadInit == ASSUME DbInit PROVE ReadInv
BY DbAssumption DEF DbInit, ReadInv, ConnMeansThread, PoolSplits, FlagsAreOwn, Reading

\* Steps that change no connection.
LEMMA ReadStays ==
  ASSUME DbTypeOK, ReadInv, NEW r \in Reads,
         ReadCall(r) \/ Query(r) \/ QueryStops(r) \/ QueryOverdue(r) \/ ReadCancel(r)
  PROVE  ReadInv'
<1>1. UNCHANGED <<conn, free>>
  BY DEF ReadCall, Query, QueryStops, QueryOverdue, ReadCancel
<1>2. ConnMeansThread'
  <2>1. \A s \in Reads : Reading(s)' <=> Reading(s)
    BY DEF DbTypeOK, ReadCall, Query, QueryStops, QueryOverdue, ReadCancel, Reading
  <2> QED
    BY <1>1, <2>1 DEF ReadInv, ConnMeansThread
<1>3. PoolSplits'
  BY <1>1 DEF ReadInv, PoolSplits
<1>4. FlagsAreOwn'
  <2> SUFFICES ASSUME NEW s \in Reads, conn[s] \in flagged'
               PROVE  rphase'[s] = "left" \/ seen'[s] = Interrupted
    BY <1>1 DEF FlagsAreOwn
  <2>0. /\ conn[s] \in flagged => rphase[s] = "left" \/ seen[s] = Interrupted
        /\ Reading(r) => conn[r] # NoConn /\ (r # s => conn[r] # conn[s])
    BY DEF ReadInv, ConnMeansThread, PoolSplits, FlagsAreOwn
  <2>1. CASE ReadCall(r)
    BY <2>0, <2>1 DEF ReadCall, DbTypeOK, ReadInv, ConnMeansThread, Reading
  <2>2. CASE Query(r)
    BY <2>0, <2>2 DEF Query, DbTypeOK, Reading, Interrupted, NoAnswer
  <2>3. CASE QueryStops(r)
    BY <2>0, <2>3 DEF QueryStops, DbTypeOK
  <2>4. CASE QueryOverdue(r)
    BY <2>0, <2>4 DEF QueryOverdue, DbTypeOK
  <2>5. CASE ReadCancel(r)
    BY <2>0, <2>5 DEF ReadCancel, DbTypeOK, Reading
  <2> QED
    BY <2>1, <2>2, <2>3, <2>4, <2>5
<1> QED
  BY <1>2, <1>3, <1>4 DEF ReadInv

LEMMA ConnTaken ==
  ASSUME DbTypeOK, ReadInv, NEW r \in Reads, TakeConn(r)
  PROVE  ReadInv'
<1>0. /\ conn \in [Reads -> Conns \cup {NoConn}] /\ free \subseteq Conns
      /\ NoConn \notin Conns /\ rphase \in [Reads -> Calls]
  BY DbAssumption DEF DbTypeOK
<1>1. conn[r] = NoConn
  BY DEF TakeConn, ReadInv, ConnMeansThread, Reading
<1>2. PICK c \in free : /\ free' = free \ {c}
                        /\ conn' = [conn EXCEPT ![r] = c]
                        /\ flagged' = flagged \ {c}
  BY DEF TakeConn
<1>3. \A s \in Reads : conn'[s] = IF s = r THEN c ELSE conn[s]
  BY <1>0, <1>2
<1>4. ConnMeansThread'
  <2>1. \A s \in Reads : rphase'[s] = IF s = r THEN "running" ELSE rphase[s]
    BY <1>0 DEF TakeConn
  <2> QED
    BY <1>0, <1>2, <1>3, <2>1 DEF ReadInv, ConnMeansThread, Reading
<1>5. PoolSplits'
  <2>1. \A s \in Reads : conn'[s] \notin free'
    BY <1>2, <1>3 DEF ReadInv, PoolSplits
  <2>2. \A k \in Conns : k \in free' \/ \E s \in Reads : conn'[s] = k
    BY <1>0, <1>1, <1>2, <1>3 DEF ReadInv, PoolSplits
  <2>3. \A s, t \in Reads : s # t /\ conn'[s] # NoConn => conn'[s] # conn'[t]
    BY <1>2, <1>3 DEF ReadInv, PoolSplits
  <2> QED
    BY <2>1, <2>2, <2>3 DEF PoolSplits
<1>6. FlagsAreOwn'
  <2>1. \A s \in Reads : s # r => rphase'[s] = rphase[s] /\ seen'[s] = seen[s]
    BY DEF TakeConn, DbTypeOK
  <2> QED
    BY <1>2, <1>3, <2>1 DEF ReadInv, FlagsAreOwn
<1> QED
  BY <1>4, <1>5, <1>6 DEF ReadInv

LEMMA ConnReleased ==
  ASSUME DbTypeOK, ReadInv, NEW r \in Reads, ReadReturns(r)
  PROVE  ReadInv'
<1>0. /\ conn \in [Reads -> Conns \cup {NoConn}] /\ free \subseteq Conns
      /\ NoConn \notin Conns /\ rphase \in [Reads -> Calls]
      /\ seen \in [Reads -> Versions \cup {NoAnswer, Interrupted}]
  BY DbAssumption DEF DbTypeOK
<1>1. conn[r] \in Conns /\ conn[r] # NoConn
  BY ThreadsConn DEF ReadReturns
<1>2. /\ free' = free \cup {conn[r]} /\ flagged' = flagged \ {conn[r]}
      /\ \A s \in Reads : conn'[s] = IF s = r THEN NoConn ELSE conn[s]
      /\ \A s \in Reads : rphase'[s] = IF s = r THEN "idle" ELSE rphase[s]
      /\ \A s \in Reads : s # r => seen'[s] = seen[s]
  BY <1>0 DEF ReadReturns, Release
<1>3. ConnMeansThread'
  BY <1>2 DEF ReadInv, ConnMeansThread, Reading
<1>4. PoolSplits'
  <2>1. \A s \in Reads : conn'[s] \notin free'
    BY <1>0, <1>1, <1>2 DEF ReadInv, PoolSplits
  <2>2. \A k \in Conns : k \in free' \/ \E s \in Reads : conn'[s] = k
    BY <1>2 DEF ReadInv, PoolSplits
  <2>3. \A s, t \in Reads : s # t /\ conn'[s] # NoConn => conn'[s] # conn'[t]
    BY <1>2 DEF ReadInv, PoolSplits
  <2> QED
    BY <2>1, <2>2, <2>3 DEF PoolSplits
<1>5. FlagsAreOwn'
  <2>1. NoConn \notin flagged
    BY <1>0 DEF DbTypeOK
  <2> QED
    BY <1>2, <2>1 DEF ReadInv, FlagsAreOwn
<1> QED
  BY <1>3, <1>4, <1>5 DEF ReadInv

-----------------------------------------------------------------------------
(* The writer *)

LEMMA WriteInit == ASSUME DbInit PROVE WriteInv
BY DbAssumption DEF DbInit, WriteInv, LockMeansThread, OpenMeansTransaction, Writing

LEMMA WriteKeeps ==
  ASSUME DbTypeOK, WriteInv, NEW w \in Writes,
         \/ WriteCall(w) \/ TakeLock(w) \/ Begin(w) \/ Commit(w)
         \/ Rollback(w) \/ WriteReturns(w) \/ WriteCancel(w)
  PROVE  WriteInv'
<1> USE DbAssumption
    DEF DbTypeOK, WriteInv, LockMeansThread, OpenMeansTransaction, Writing
<1>1. CASE WriteCall(w)
  BY <1>1 DEF WriteCall
<1>2. CASE TakeLock(w)
  BY <1>2 DEF TakeLock
<1>3. CASE Begin(w)
  BY <1>3 DEF Begin
<1>4. CASE Commit(w)
  BY <1>4 DEF Commit
<1>5. CASE Rollback(w)
  BY <1>5 DEF Rollback
<1>6. CASE WriteReturns(w)
  BY <1>6 DEF WriteReturns
<1>7. CASE WriteCancel(w)
  BY <1>7 DEF WriteCancel
<1> QED
  BY <1>1, <1>2, <1>3, <1>4, <1>5, <1>6, <1>7

-----------------------------------------------------------------------------
LEMMA DbInitInv == DbInit => DbInv
BY TypesInit, ReadInit, WriteInit DEF DbInv

LEMMA DbStep ==
  ASSUME DbInv, [DbNext]_dbVars
  PROVE  DbInv'
<1> USE DEF DbInv
<1>1. ASSUME NEW r \in Reads,
             \/ ReadCall(r) \/ TakeConn(r) \/ Query(r) \/ QueryStops(r)
             \/ QueryOverdue(r) \/ ReadReturns(r) \/ ReadCancel(r)
      PROVE  DbInv'
  <2>1. UNCHANGED writeVars
    BY <1>1 DEF ReadCall, TakeConn, Query, QueryStops, QueryOverdue, ReadReturns,
                ReadCancel, writeVars
  <2> QED
    BY <1>1, <2>1, ReadTypes, ReadStays, ConnTaken, ConnReleased, WriteSideKept
<1>2. ASSUME NEW w \in Writes,
             \/ WriteCall(w) \/ TakeLock(w) \/ Begin(w) \/ Commit(w)
             \/ Rollback(w) \/ WriteReturns(w) \/ WriteCancel(w)
      PROVE  DbInv'
  <2>1. UNCHANGED readVars
    BY <1>2 DEF WriteCall, TakeLock, Begin, Commit, Rollback, WriteReturns,
                WriteCancel, readVars
  <2> QED
    BY <1>2, <2>1, WriteTypes, WriteKeeps, ReadSideKept
<1>3. CASE UNCHANGED dbVars
  <2>1. UNCHANGED readVars /\ UNCHANGED writeVars /\ UNCHANGED version
    BY <1>3 DEF dbVars
  <2>2. DbTypeOK'
    BY <2>1 DEF DbTypeOK, readVars, writeVars
  <2> QED
    BY <2>1, <2>2, ReadSideKept, WriteSideKept
<1> QED
  BY <1>1, <1>2, <1>3 DEF DbNext

LEMMA DbInvariant == DbSpec => []DbInv
<1> QED
  BY DbInitInv, DbStep, PTL DEF DbSpec

LEMMA InvIsOneThreadEach == DbInv => OneThreadEach
<1> SUFFICES ASSUME DbInv PROVE OneThreadEach
  OBVIOUS
<1>1. \A r \in Reads : Reading(r) <=> conn[r] # NoConn
  BY DEF DbInv, ReadInv, ConnMeansThread
<1>2. /\ \A c \in Conns :
           IF c \in free THEN \A r \in Reads : ~(Reading(r) /\ conn[r] = c)
           ELSE \E r \in Reads : Reading(r) /\ conn[r] = c
      /\ \A r, s \in Reads : r # s /\ Reading(r) /\ Reading(s) => conn[r] # conn[s]
  BY <1>1, DbAssumption DEF DbInv, ReadInv, PoolSplits
<1>3. \A r \in Reads :
        Reading(r) /\ conn[r] \in flagged => rphase[r] = "left" \/ seen[r] = Interrupted
  BY DEF DbInv, ReadInv, FlagsAreOwn
<1>4. /\ transaction # NoWrite => lock = transaction
      /\ \A w \in Writes : Writing(w) => lock = w
  BY DEF DbInv, DbTypeOK, WriteInv, LockMeansThread, OpenMeansTransaction
<1> QED
  BY <1>2, <1>3, <1>4 DEF OneThreadEach

\* The state of ReadPool and Writer has its type.
THEOREM DbTypes == DbSpec => []DbTypeOK
<1>1. DbInv => DbTypeOK
  BY DEF DbInv
<1> QED
  BY <1>1, DbInvariant, PTL

\* Whenever callers are cancelled, no connection serves two threads or is lost,
\* no query is stopped but by its own caller or budget, and the transaction is
\* that of the call that holds Writer._lock.
THEOREM ConnectionsAreOwned == DbSpec => []OneThreadEach
  BY DbInvariant, InvIsOneThreadEach, PTL
=============================================================================
