------------------------------ MODULE DbAccess ------------------------------
(***************************************************************************)
(* The process's way to its database (mcp: db/connection.py): a small pool *)
(* of read connections and the one write connection under its lock.        *)
(*                                                                         *)
(* A caller that is cancelled leaves at once; the thread it started does   *)
(* not, and what the thread uses stays taken until it ends.  The database  *)
(* is a version: a commit makes the next one, a query sees the one of its  *)
(* time.                                                                   *)
(***************************************************************************)
EXTENDS Integers, Sequences, FiniteSets

CONSTANTS
  Reads,      \* calls of ReadPool.run
  Writes,     \* calls of Writer.run
  Conns,      \* the pool's connections
  NoConn,     \* of a read that has none
  NoWrite,    \* of a lock, or a transaction, that nobody has
  MaxVersion  \* bound: the last version committed

ASSUME DbAssumption ==
  /\ NoConn \notin Conns
  /\ NoWrite \notin Writes
  /\ MaxVersion \in Nat

VARIABLES
  version,      \* the database's last commit
  rphase,       \* a read: "idle", "queued" for a connection, "running", "left"
  conn,         \* the connection its thread was given
  seen,         \* what its thread has so far: NoAnswer, Interrupted, a version
  free,         \* ReadPool._free
  flagged,      \* connections whose Cancellable says cancelled
  wphase,       \* a write: "idle", "queued" for the lock, "running", "left"
  wstep,        \* its thread: "ready", "open", "committed", "failed"
  lock,         \* the write whose call holds Writer._lock
  transaction   \* the write whose transaction is open on the connection

readVars == <<rphase, conn, seen, free, flagged>>
writeVars == <<wphase, wstep, lock, transaction>>
dbVars == <<version, readVars, writeVars>>

NoAnswer == -1
Interrupted == -2
Versions == 0..MaxVersion
Calls == {"idle", "queued", "running", "left"}
Steps == {"ready", "open", "committed", "failed"}

\* A call holds what it was given until its thread has ended and said so.
Reading(r) == rphase[r] \in {"running", "left"}
Writing(w) == wphase[w] \in {"running", "left"}

DbInit ==
  /\ version = 0
  /\ rphase = [r \in Reads |-> "idle"]
  /\ conn = [r \in Reads |-> NoConn]
  /\ seen = [r \in Reads |-> NoAnswer]
  /\ free = Conns
  /\ flagged = {}
  /\ wphase = [w \in Writes |-> "idle"]
  /\ wstep = [w \in Writes |-> "ready"]
  /\ lock = NoWrite
  /\ transaction = NoWrite

-----------------------------------------------------------------------------
(* ReadPool.run *)

ReadCall(r) ==
  /\ rphase[r] = "idle"
  /\ rphase' = [rphase EXCEPT ![r] = "queued"]
  /\ UNCHANGED <<version, conn, seen, free, flagged, writeVars>>

\* A free connection, armed, and a thread for it.
TakeConn(r) ==
  /\ rphase[r] = "queued"
  /\ \E c \in free :
       /\ free' = free \ {c}
       /\ conn' = [conn EXCEPT ![r] = c]
       /\ flagged' = flagged \ {c}
  /\ rphase' = [rphase EXCEPT ![r] = "running"]
  /\ seen' = [seen EXCEPT ![r] = NoAnswer]
  /\ UNCHANGED <<version, writeVars>>

\* The thread's statement runs.  A flag stops it if it is still at it when the
\* progress handler looks.
Query(r) ==
  /\ Reading(r) /\ seen[r] = NoAnswer
  /\ seen' = [seen EXCEPT ![r] = version]
  /\ UNCHANGED <<version, rphase, conn, free, flagged, writeVars>>

QueryStops(r) ==
  /\ Reading(r) /\ seen[r] = NoAnswer
  /\ conn[r] \in flagged
  /\ seen' = [seen EXCEPT ![r] = Interrupted]
  /\ UNCHANGED <<version, rphase, conn, free, flagged, writeVars>>

\* Its budget runs out: the handler sets the flag and stops it.
QueryOverdue(r) ==
  /\ Reading(r) /\ seen[r] = NoAnswer
  /\ flagged' = flagged \cup {conn[r]}
  /\ seen' = [seen EXCEPT ![r] = Interrupted]
  /\ UNCHANGED <<version, rphase, conn, free, writeVars>>

\* release(): the connection is disarmed and goes back.
Release(r) ==
  /\ flagged' = flagged \ {conn[r]}
  /\ free' = free \cup {conn[r]}
  /\ conn' = [conn EXCEPT ![r] = NoConn]
  /\ rphase' = [rphase EXCEPT ![r] = "idle"]
  /\ seen' = [seen EXCEPT ![r] = NoAnswer]

\* The thread has ended and its caller, if it is still there, is answered.
ReadReturns(r) ==
  /\ Reading(r) /\ seen[r] # NoAnswer
  /\ Release(r)
  /\ UNCHANGED <<version, writeVars>>

\* Mutant: the connection goes back with the caller.
ReadCancelFrees(r) ==
  /\ \/ /\ rphase[r] = "queued"
        /\ rphase' = [rphase EXCEPT ![r] = "idle"]
        /\ UNCHANGED <<free, flagged>>
     \/ /\ rphase[r] = "running"
        /\ rphase' = [rphase EXCEPT ![r] = "left"]
        /\ free' = free \cup {conn[r]}
        /\ UNCHANGED flagged
  /\ UNCHANGED <<version, conn, seen, writeVars>>

\* The caller is cancelled: it leaves, and its thread is told to stop.
ReadCancel(r) ==
  /\ \/ /\ rphase[r] = "queued"
        /\ rphase' = [rphase EXCEPT ![r] = "idle"]
        /\ UNCHANGED flagged
     \/ /\ rphase[r] = "running"
        /\ rphase' = [rphase EXCEPT ![r] = "left"]
        /\ flagged' = flagged \cup {conn[r]}
  /\ UNCHANGED <<version, conn, seen, free, writeVars>>

-----------------------------------------------------------------------------
(* Writer.run *)

WriteCall(w) ==
  /\ wphase[w] = "idle"
  /\ wphase' = [wphase EXCEPT ![w] = "queued"]
  /\ UNCHANGED <<version, readVars, wstep, lock, transaction>>

TakeLock(w) ==
  /\ wphase[w] = "queued"
  /\ lock = NoWrite
  /\ lock' = w
  /\ wphase' = [wphase EXCEPT ![w] = "running"]
  /\ wstep' = [wstep EXCEPT ![w] = "ready"]
  /\ UNCHANGED <<version, readVars, transaction>>

\* BEGIN IMMEDIATE; on a connection with an open transaction it raises.
Begin(w) ==
  /\ Writing(w) /\ wstep[w] = "ready"
  /\ IF transaction = NoWrite
     THEN transaction' = w /\ wstep' = [wstep EXCEPT ![w] = "open"]
     ELSE wstep' = [wstep EXCEPT ![w] = "failed"] /\ UNCHANGED transaction
  /\ UNCHANGED <<version, readVars, wphase, lock>>

\* fn returns and COMMIT succeeds.
Commit(w) ==
  /\ Writing(w) /\ wstep[w] = "open"
  /\ version < MaxVersion
  /\ version' = version + 1
  /\ transaction' = NoWrite
  /\ wstep' = [wstep EXCEPT ![w] = "committed"]
  /\ UNCHANGED <<readVars, wphase, lock>>

\* fn or COMMIT raises, and the transaction is rolled back.
Rollback(w) ==
  /\ Writing(w) /\ wstep[w] = "open"
  /\ transaction' = NoWrite
  /\ wstep' = [wstep EXCEPT ![w] = "failed"]
  /\ UNCHANGED <<version, readVars, wphase, lock>>

\* The thread has ended: the lock is released and the caller, if it is still
\* there, is answered.
WriteReturns(w) ==
  /\ Writing(w) /\ wstep[w] \in {"committed", "failed"}
  /\ lock' = NoWrite
  /\ wphase' = [wphase EXCEPT ![w] = "idle"]
  /\ wstep' = [wstep EXCEPT ![w] = "ready"]
  /\ UNCHANGED <<version, readVars, transaction>>

\* The caller is cancelled: it leaves, and the lock stays with its thread.
WriteCancel(w) ==
  /\ \/ wphase[w] = "queued" /\ wphase' = [wphase EXCEPT ![w] = "idle"]
     \/ wphase[w] = "running" /\ wphase' = [wphase EXCEPT ![w] = "left"]
  /\ UNCHANGED <<version, readVars, wstep, lock, transaction>>

-----------------------------------------------------------------------------
DbNext ==
  \/ \E r \in Reads :
       \/ ReadCall(r) \/ TakeConn(r) \/ Query(r) \/ QueryStops(r)
       \/ QueryOverdue(r) \/ ReadReturns(r) \/ ReadCancel(r)
  \/ \E w \in Writes :
       \/ WriteCall(w) \/ TakeLock(w) \/ Begin(w) \/ Commit(w)
       \/ Rollback(w) \/ WriteReturns(w) \/ WriteCancel(w)

DbSpec == DbInit /\ [][DbNext]_dbVars

-----------------------------------------------------------------------------
DbTypeOK ==
  /\ version \in Versions
  /\ rphase \in [Reads -> Calls]
  /\ conn \in [Reads -> Conns \cup {NoConn}]
  /\ seen \in [Reads -> Versions \cup {NoAnswer, Interrupted}]
  /\ free \subseteq Conns
  /\ flagged \subseteq Conns
  /\ wphase \in [Writes -> Calls]
  /\ wstep \in [Writes -> Steps]
  /\ lock \in Writes \cup {NoWrite}
  /\ transaction \in Writes \cup {NoWrite}

\* No connection is used by two threads and none is lost: each is in the pool
\* or with one thread that has not ended, however its caller ended.  No query
\* is stopped but by its own caller or its own budget.  And the writer's
\* transaction is that of the call that holds the lock, so no BEGIN meets one
\* that is open.
OneThreadEach ==
  /\ \A c \in Conns :
       IF c \in free THEN \A r \in Reads : ~(Reading(r) /\ conn[r] = c)
       ELSE \E r \in Reads : Reading(r) /\ conn[r] = c
  /\ \A r, s \in Reads : r # s /\ Reading(r) /\ Reading(s) => conn[r] # conn[s]
  /\ \A r \in Reads :
       Reading(r) /\ conn[r] \in flagged => rphase[r] = "left" \/ seen[r] = Interrupted
  /\ transaction # NoWrite => lock = transaction
  /\ \A w \in Writes : Writing(w) => lock = w
=============================================================================
