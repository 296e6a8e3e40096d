-------------------------- MODULE GpuWorkerProofs --------------------------
(***************************************************************************)
(* Theorems about GpuWorker for every set of models, requests and bounds:  *)
(* the lease brackets the models, the card is used by one thread at a      *)
(* time, nobody is stranded by a stop, and a resident model stays.         *)
(***************************************************************************)
EXTENDS GpuWorker, FiniteSetTheorems, TLAPS

\* Whether the models loaded and the lease agree.
Even == acquired <=> AnyHolder(loaded)

\* The lease covers what is loaded and the model that is about to be.
Covered ==
  /\ Model \notin loaded
  /\ Model \in TakesLease => acquired
  /\ Model \notin TakesLease => Even
  /\ AnyHolder(loaded) => acquired

\* Who stands where, and for what reason.
Posts ==
  /\ stopping <=> (pc \in {"grace", "stopped"} \/ lock = "stop")
  /\ pc \in {"acquiring", "admit", "loading", "inferring"} => lock = "runner"
  /\ pc = "sweep" => lock \in {"reaper", "stop"} /\ why = "sweep"
  /\ pc = "unloading" =>
       /\ victim \in Slots
       /\ lock = "runner" => why \in {"evict", "failed"}
       /\ lock # "runner" => why = "sweep"
  /\ pc = "releasing" =>
       /\ lock = "runner" => why \in {"evict", "failed"}
       /\ lock = "reaper" => why = "sweep"
       /\ lock = "stop" => why \in {"sweep", "final"}
  /\ why = "final" => due = {}
  /\ pc = "grace" => why = "sweep"

\* While the worker runs, the lease follows the models.
Lease ==
  ~stopping =>
    /\ pc \in {"none", "inferring", "sweep"} => Even
    /\ pc = "inferring" => Model \in loaded
    /\ pc \in {"admit", "loading"} => Covered
    /\ pc = "acquiring" => Covered /\ acquired /\ ~AnyHolder(loaded)
    /\ pc = "unloading" => victim \in loaded /\ (IF why = "evict" THEN Covered ELSE Even)
    /\ pc = "releasing" /\ why = "evict" => Covered
    /\ acquired /\ pc # "acquiring" => tenant = "down"

\* Nobody reaps or evicts a resident model.
Spared ==
  ~stopping =>
    /\ lock = "reaper" => due \cap Resident = {}
    /\ pc = "unloading" /\ why # "failed" => victim \notin Resident

\* The release hook runs for an empty card.
ReleasedEmpty ==
  /\ pc = "releasing" => ~acquired /\ (~expired => ~AnyHolder(loaded))
  /\ "releasing" \in strayHooks => ~AnyHolder(loaded) /\ Tracked = {}

\* What a stop leaves behind, and how far it has come.
Strays ==
  /\ stray # {} \/ strayHooks # {} \/ expired => stopping
  /\ \A t, u \in stray : t = u
  /\ pc = "grace" => ~expired
  /\ stopping /\ pc # "grace" /\ ~expired => Tracked = {}
  /\ lock = "stop" /\ ~expired =>
       \A s \in loaded : s \in due \/ (pc = "unloading" /\ s = victim)
  /\ pc = "stopped" => ~acquired /\ (~expired => loaded = {})

\* Every pending future is in the consumer's hands or in the queue.
PendingIsHeld ==
  /\ \A c \in Callers : fut[c] = "pending" => c \in Drained
  /\ stopping => queue = <<>>

IInv == TypeOK /\ Posts /\ Lease /\ Spared /\ CardIsOurs /\ ReleasedEmpty /\ Strays /\ PendingIsHeld
\* A submission keeps the invariant.
LEMMA SubmitInv ==
  ASSUME IInv, NEW c \in Callers, Submit(c)
  PROVE  IInv'
<1> USE WorkerAssumption DEF IInv, Submit, caller, holder, card, left
<1>1. TypeOK'
  <2>1. queue' \in Seq(Callers) /\ Len(queue') <= MaxQueue
    BY DEF TypeOK
  <2>2. fut' \in [Callers -> Futures]
    BY DEF TypeOK, Futures
  <2> QED
    BY <2>1, <2>2 DEF TypeOK
<1>2. Posts'
  BY DEF Posts
<1>3. Lease'
  BY DEF Lease, Covered, Even, Model
<1>4. Spared'
  BY DEF Spared
<1>5. ReleasedEmpty'
  BY DEF ReleasedEmpty, Tracked
<1>6. Strays'
  BY DEF Strays, Tracked
<1>7. CardIsOurs'
  BY DEF CardIsOurs, OnCard, Working, Current, Model
<1>8. PendingIsHeld'
  BY DEF TypeOK, PendingIsHeld, Drained
<1> QED
  BY <1>1, <1>2, <1>3, <1>4, <1>5, <1>6, <1>7, <1>8 DEF IInv

\* A caller that hangs up keeps the invariant.
LEMMA HangUpInv ==
  ASSUME IInv, NEW c \in Callers, HangUp(c)
  PROVE  IInv'
<1> USE WorkerAssumption DEF IInv, HangUp, caller, holder, card, left
<1>1. TypeOK'
  BY DEF TypeOK, Futures
<1>2. Posts'
  BY DEF Posts
<1>3. Lease'
  BY DEF Lease, Covered, Even, Model
<1>4. Spared'
  BY DEF Spared
<1>5. ReleasedEmpty'
  BY DEF ReleasedEmpty, Tracked
<1>6. Strays'
  BY DEF Strays, Tracked
<1>7. CardIsOurs'
  BY DEF CardIsOurs, OnCard, Working, Current, Model
<1>8. PendingIsHeld'
  BY DEF PendingIsHeld, Drained
<1> QED
  BY <1>1, <1>2, <1>3, <1>4, <1>5, <1>6, <1>7, <1>8 DEF IInv

\* Taking a job keeps the invariant.
LEMMA TakeInv ==
  ASSUME IInv, Take
  PROVE  IInv'
<1> USE WorkerAssumption DEF IInv, Take, caller, holder, card, left
<1>1. TypeOK'
  BY DEF TypeOK
<1>2. Posts'
  BY DEF Posts
<1>3. Lease'
  BY DEF TypeOK, Posts, Lease, Even
<1>4. Spared'
  BY DEF Spared
<1>5. ReleasedEmpty'
  BY DEF ReleasedEmpty, Tracked
<1>6. Strays'
  BY DEF Strays, Tracked
<1>7. CardIsOurs'
  BY DEF TypeOK, Posts, CardIsOurs, OnCard, Working, Current
<1>8. PendingIsHeld'
  <2>1. stopping' = stopping /\ fut' = fut /\ ~stopping
    BY DEF TypeOK
  <2> SUFFICES ASSUME NEW c \in Callers, fut[c] = "pending" PROVE c \in Drained'
    BY <2>1 DEF PendingIsHeld
  <2>2. c # job
    BY DEF TypeOK
  <2>3. PICK k \in 1..Len(queue) : queue[k] = c
    BY <2>2 DEF PendingIsHeld, Drained
  <2>4. CASE k = 1
    BY <2>3, <2>4 DEF Drained
  <2>5. CASE k # 1
    <3>1. queue \in Seq(Callers) /\ queue' = Tail(queue)
      BY DEF TypeOK
    <3>2. k - 1 \in 1..Len(queue') /\ queue'[k - 1] = c
      BY <2>3, <2>5, <3>1
    <3> QED
      BY <3>2 DEF Drained
  <2> QED
    BY <2>4, <2>5
<1> QED
  BY <1>1, <1>2, <1>3, <1>4, <1>5, <1>6, <1>7, <1>8 DEF IInv

\* Entering the lock keeps the invariant.
LEMMA EnterInv ==
  ASSUME IInv, Enter
  PROVE  IInv'
<1> USE WorkerAssumption DEF IInv, Enter, Dispatch, Leave, caller, holder, card, left
<1>1. TypeOK'
  BY DEF TypeOK, Futures
<1>2. Posts'
  BY DEF TypeOK, Posts
<1>3. Lease'
  BY DEF TypeOK, Posts, Lease, Covered, Even, Model
<1>4. Spared'
  BY DEF Spared
<1>5. ReleasedEmpty'
  BY DEF ReleasedEmpty, Tracked
<1>6. Strays'
  BY DEF TypeOK, Strays
<1>7. CardIsOurs'
  BY DEF CardIsOurs, OnCard, Working, Current, Model
<1>8. PendingIsHeld'
  BY DEF TypeOK, PendingIsHeld, Drained
<1> QED
  BY <1>1, <1>2, <1>3, <1>4, <1>5, <1>6, <1>7, <1>8 DEF IInv

\* The end of the acquire hook keeps the invariant.
LEMMA AcquiredInv ==
  ASSUME IInv, Acquired
  PROVE  IInv'
<1> USE WorkerAssumption DEF IInv, Acquired, Leave, caller, holder, card, left
<1>1. TypeOK'
  BY DEF TypeOK, Posts, Futures
<1>2. Posts'
  BY DEF Posts
<1>3. Lease'
  BY DEF Lease, Covered, Even, Model
<1>4. Spared'
  BY DEF Spared
<1>5. ReleasedEmpty'
  BY DEF ReleasedEmpty, Tracked
<1>6. Strays'
  BY DEF Strays, Tracked
<1>7. CardIsOurs'
  BY <1>3 DEF Posts, Lease, CardIsOurs, OnCard, Working, Current, AnyHolder, Strays
<1>8. PendingIsHeld'
  BY DEF TypeOK, PendingIsHeld, Drained
<1> QED
  BY <1>1, <1>2, <1>3, <1>4, <1>5, <1>6, <1>7, <1>8 DEF IInv

\* Admission keeps the invariant.
LEMMA AdmitInv ==
  ASSUME IInv, Admit
  PROVE  IInv'
<1> USE WorkerAssumption DEF IInv, Admit, LoadFails, HolderLeft, Leave, Evictable, caller, holder, card, left
<1>1. TypeOK'
  BY DEF TypeOK, Posts, Futures
<1>2. Posts'
  BY DEF Posts
<1>3. Lease'
  BY DEF Lease, Covered, Even, Model
<1>4. Spared'
  BY DEF Spared
<1>5. ReleasedEmpty'
  BY DEF ReleasedEmpty, Tracked
<1>6. Strays'
  BY DEF Strays, Tracked
<1>7. CardIsOurs'
  BY DEF Posts, Lease, Covered, CardIsOurs, OnCard, Working, Current, AnyHolder, Model, Strays
<1>8. PendingIsHeld'
  BY DEF TypeOK, PendingIsHeld, Drained
<1> QED
  BY <1>1, <1>2, <1>3, <1>4, <1>5, <1>6, <1>7, <1>8 DEF IInv

\* A load keeps the invariant.
LEMMA LoadsInv ==
  ASSUME IInv, Loads
  PROVE  IInv'
<1> USE WorkerAssumption DEF IInv, Loads, Dispatch, Leave, caller, holder, card, left
<1>1. TypeOK'
  BY DEF TypeOK, Posts, Model, Futures
<1>2. Posts'
  BY DEF Posts
<1>3. Lease'
  BY DEF Lease, Covered, Even, Model, AnyHolder
<1>4. Spared'
  BY DEF Spared
<1>5. ReleasedEmpty'
  BY DEF Posts, ReleasedEmpty, Strays
<1>6. Strays'
  BY DEF Strays, Tracked
<1>7. CardIsOurs'
  BY DEF Posts, Lease, Covered, CardIsOurs, OnCard, Working, Current, Model
<1>8. PendingIsHeld'
  BY DEF TypeOK, PendingIsHeld, Drained
<1> QED
  BY <1>1, <1>2, <1>3, <1>4, <1>5, <1>6, <1>7, <1>8 DEF IInv

\* A failed load keeps the invariant.
LEMMA LoadRaisesInv ==
  ASSUME IInv, LoadRaises
  PROVE  IInv'
<1> USE WorkerAssumption DEF IInv, LoadRaises, LoadFails, HolderLeft, Leave, caller, holder, card, left
<1>1. TypeOK'
  BY DEF TypeOK, Posts, Futures
<1>2. Posts'
  BY DEF Posts
<1>3. Lease'
  BY DEF Lease, Covered, Even
<1>4. Spared'
  BY DEF Spared
<1>5. ReleasedEmpty'
  BY DEF ReleasedEmpty, Tracked
<1>6. Strays'
  BY DEF Strays, Tracked
<1>7. CardIsOurs'
  BY DEF Posts, CardIsOurs, OnCard, Working, Current, AnyHolder, Strays
<1>8. PendingIsHeld'
  BY DEF TypeOK, PendingIsHeld, Drained
<1> QED
  BY <1>1, <1>2, <1>3, <1>4, <1>5, <1>6, <1>7, <1>8 DEF IInv

\* An inference keeps the invariant.
LEMMA InfersInv ==
  ASSUME IInv, Infers
  PROVE  IInv'
<1> USE WorkerAssumption DEF IInv, Infers, Leave, caller, holder, card, left
<1>1. TypeOK'
  BY DEF TypeOK, Posts, Futures
<1>2. Posts'
  BY DEF Posts
<1>3. Lease'
  BY DEF Lease, Even
<1>4. Spared'
  BY DEF Spared
<1>5. ReleasedEmpty'
  BY DEF ReleasedEmpty, Tracked
<1>6. Strays'
  BY DEF Strays, Tracked
<1>7. CardIsOurs'
  BY DEF CardIsOurs, OnCard, Working, Current
<1>8. PendingIsHeld'
  BY DEF TypeOK, PendingIsHeld, Drained
<1> QED
  BY <1>1, <1>2, <1>3, <1>4, <1>5, <1>6, <1>7, <1>8 DEF IInv

\* A device failure keeps the invariant.
LEMMA DeviceFailsInv ==
  ASSUME IInv, DeviceFails
  PROVE  IInv'
<1> USE WorkerAssumption DEF IInv, DeviceFails, caller, holder, card, left
<1>1. TypeOK'
  BY DEF TypeOK, Posts, Model
<1>2. Posts'
  BY DEF TypeOK, Posts, Model
<1>3. Lease'
  BY DEF Lease, Even
<1>4. Spared'
  BY DEF Spared
<1>5. ReleasedEmpty'
  BY DEF ReleasedEmpty, Tracked
<1>6. Strays'
  BY DEF Strays, Tracked
<1>7. CardIsOurs'
  BY DEF CardIsOurs, OnCard, Working, Current
<1>8. PendingIsHeld'
  BY DEF PendingIsHeld, Drained
<1> QED
  BY <1>1, <1>2, <1>3, <1>4, <1>5, <1>6, <1>7, <1>8 DEF IInv

\* An unload keeps the invariant.
LEMMA UnloadsInv ==
  ASSUME IInv, Unloads
  PROVE  IInv'
<1> USE WorkerAssumption DEF IInv, Unloads, Return, Leave, KeepLease, caller, holder, card, left
<1>1. TypeOK'
  BY DEF TypeOK, Posts, Futures
<1>2. Posts'
  BY DEF TypeOK, Posts
<1>3. Lease'
  BY DEF Posts, Lease, Covered, Even, Model, AnyHolder
<1>4. Spared'
  BY DEF Posts, Spared
<1>5. ReleasedEmpty'
  BY DEF Posts, ReleasedEmpty, Tracked, AnyHolder
<1>6. Strays'
  BY DEF Posts, Strays, Tracked
<1>7. CardIsOurs'
  <2>1. CASE ~stopping
    <3>1. Working' = {}
      BY <2>1, <1>2, <1>6 DEF Strays, Posts, Working, Current
    <3>2. OnCard' = loaded'
      BY <3>1 DEF OnCard
    <3>3. AnyHolder(loaded') => acquired' /\ tenant' = "down"
      BY <2>1, <1>3 DEF TypeOK, Posts, Lease, Covered, Even
    <3> QED
      BY <3>2, <3>3 DEF CardIsOurs, AnyHolder
  <2>2. CASE stopping
    <3>1. OnCard' \subseteq OnCard /\ tenant' = tenant
      BY <2>2, <1>2 DEF Posts, OnCard, Working, Current
    <3>2. acquired' = acquired \/ ~AnyHolder(loaded')
      OBVIOUS
    <3>3. ~expired => Working' = {}
      BY <2>2, <1>2, <1>6 DEF Posts, Strays, Tracked, Working, Current, Threads, TypeOK
    <3> QED
      BY <3>1, <3>2, <3>3 DEF CardIsOurs, OnCard, AnyHolder
  <2> QED
    BY <2>1, <2>2 DEF TypeOK
<1>8. PendingIsHeld'
  <2>1. queue' = queue /\ stopping' = stopping
    OBVIOUS
  <2>2. \/ fut' = fut /\ job' = job
        \/ fut' = [fut EXCEPT ![job] = "done"] /\ job' = NoCaller
    BY DEF TypeOK
  <2> QED
    BY <1>1, <2>1, <2>2 DEF TypeOK, PendingIsHeld, Drained
<1> QED
  BY <1>1, <1>2, <1>3, <1>4, <1>5, <1>6, <1>7, <1>8 DEF IInv

\* The end of the release hook keeps the invariant.
LEMMA ReleasedInv ==
  ASSUME IInv, Released
  PROVE  IInv'
<1> USE WorkerAssumption DEF IInv, Released, Return, Leave, caller, holder, card, left
<1>1. TypeOK'
  BY DEF TypeOK, Posts, Futures
<1>2. Posts'
  BY DEF TypeOK, Posts
<1>3. Lease'
  <2> SUFFICES ASSUME ~stopping PROVE Lease'
    BY DEF Lease
  <2>1. ~acquired /\ ~AnyHolder(loaded)
    BY DEF ReleasedEmpty, Strays
  <2>2. CASE why = "evict"
    BY <2>1, <2>2 DEF TypeOK, Posts, Lease, Covered, Even, Model
  <2>3. CASE why = "failed"
    BY <2>1, <2>3 DEF TypeOK, Posts, Lease, Even
  <2>4. CASE why = "sweep"
    BY <2>1, <2>4 DEF TypeOK, Posts, Lease, Even
  <2> QED
    BY <2>2, <2>3, <2>4 DEF TypeOK, Posts
<1>4. Spared'
  BY DEF TypeOK, Spared
<1>5. ReleasedEmpty'
  BY DEF ReleasedEmpty, Tracked
<1>6. Strays'
  BY DEF TypeOK, Posts, Strays, Tracked, ReleasedEmpty
<1>7. CardIsOurs'
  BY DEF TypeOK, CardIsOurs, OnCard, Working, Current, ReleasedEmpty
<1>8. PendingIsHeld'
  <2>1. queue' = queue /\ stopping' = stopping
    OBVIOUS
  <2>2. \/ fut' = fut /\ job' = job
        \/ fut' = [fut EXCEPT ![job] = "done"] /\ job' = NoCaller
    BY DEF TypeOK
  <2> QED
    BY <1>1, <2>1, <2>2 DEF TypeOK, PendingIsHeld, Drained
<1> QED
  BY <1>1, <1>2, <1>3, <1>4, <1>5, <1>6, <1>7, <1>8 DEF IInv

\* The start of a reaping sweep keeps the invariant.
LEMMA ReapInv ==
  ASSUME IInv, NEW idle \in SUBSET Slots, Reap(idle)
  PROVE  IInv'
<1> USE WorkerAssumption DEF IInv, Reap, caller, holder, card, left
<1>1. TypeOK'
  BY DEF TypeOK
<1>2. Posts'
  BY DEF Posts
<1>3. Lease'
  BY DEF TypeOK, Posts, Lease, Even
<1>4. Spared'
  BY DEF Spared
<1>5. ReleasedEmpty'
  BY DEF ReleasedEmpty, Tracked
<1>6. Strays'
  BY DEF Strays
<1>7. CardIsOurs'
  BY DEF CardIsOurs, OnCard, Working, Current
<1>8. PendingIsHeld'
  BY DEF PendingIsHeld, Drained
<1> QED
  BY <1>1, <1>2, <1>3, <1>4, <1>5, <1>6, <1>7, <1>8 DEF IInv

\* A step of a sweep keeps the invariant.
LEMMA SweepInv ==
  ASSUME IInv, Sweep
  PROVE  IInv'
<1> USE WorkerAssumption DEF IInv, Sweep, caller, holder, card, left
<1>1. TypeOK'
  BY DEF TypeOK
<1>2. Posts'
  BY DEF TypeOK, Posts
<1>3. Lease'
  BY DEF Posts, Lease, Even
<1>4. Spared'
  BY DEF Posts, Spared
<1>5. ReleasedEmpty'
  BY DEF ReleasedEmpty, Tracked
<1>6. Strays'
  BY DEF Strays, Tracked
<1>7. CardIsOurs'
  BY DEF CardIsOurs, OnCard, Working, Current
<1>8. PendingIsHeld'
  BY DEF PendingIsHeld, Drained
<1> QED
  BY <1>1, <1>2, <1>3, <1>4, <1>5, <1>6, <1>7, <1>8 DEF IInv

\* The end of a sweep keeps the invariant.
LEMMA SweepEndsInv ==
  ASSUME IInv, SweepEnds
  PROVE  IInv'
<1> USE WorkerAssumption DEF IInv, SweepEnds, caller, holder, card, left
<1>1. TypeOK'
  BY DEF TypeOK, Posts
<1>2. Posts'
  BY DEF Posts
<1>3. Lease'
  BY DEF Lease, Even
<1>4. Spared'
  BY DEF Spared
<1>5. ReleasedEmpty'
  BY DEF Posts, ReleasedEmpty, Strays, Tracked, AnyHolder
<1>6. Strays'
  BY DEF Posts, Strays, Tracked
<1>7. CardIsOurs'
  <2>1. CASE ~stopping
    BY <2>1, <1>1, <1>2, <1>3, <1>6
       DEF TypeOK, Posts, Lease, Covered, Even, CardIsOurs, OnCard, Working, Current, AnyHolder, Model, Strays
  <2>2. CASE stopping
    <3>1. OnCard' = OnCard /\ tenant' = tenant
      BY <2>2, <1>2 DEF Posts, OnCard, Working, Current
    <3>2. lock = "stop"
      BY <2>2 DEF Posts, TypeOK
    <3>3. ~expired => OnCard = {}
      BY <2>2, <3>2 DEF Posts, Strays, Tracked, OnCard, Working, Current, Threads, TypeOK
    <3> QED
      BY <3>1, <3>3 DEF CardIsOurs
  <2> QED
    BY <2>1, <2>2 DEF TypeOK
<1>8. PendingIsHeld'
  BY DEF PendingIsHeld, Drained
<1> QED
  BY <1>1, <1>2, <1>3, <1>4, <1>5, <1>6, <1>7, <1>8 DEF IInv

\* The start of a stop keeps the invariant.
LEMMA StopInv ==
  ASSUME IInv, Stop
  PROVE  IInv'
<1> USE WorkerAssumption DEF IInv, Stop, Abandoned, caller, holder, card, left
<1>1. TypeOK'
  BY DEF TypeOK, Posts, Model, Futures, Threads
<1>2. Posts'
  BY DEF Posts
<1>3. Lease'
  BY DEF Lease
<1>4. Spared'
  BY DEF Spared
<1>5. ReleasedEmpty'
  BY DEF ReleasedEmpty
<1>6. Strays'
  BY DEF Strays
<1>7. CardIsOurs'
  BY DEF CardIsOurs, OnCard, Working, Current
<1>8. PendingIsHeld'
  BY DEF PendingIsHeld
<1> QED
  BY <1>1, <1>2, <1>3, <1>4, <1>5, <1>6, <1>7, <1>8 DEF IInv

\* The end of the grace period keeps the invariant.
LEMMA StopSweepsInv ==
  ASSUME IInv, StopSweeps
  PROVE  IInv'
<1> USE WorkerAssumption DEF IInv, StopSweeps, Tracked, caller, holder, card, left
<1>1. TypeOK'
  BY DEF TypeOK
<1>2. Posts'
  BY DEF Posts
<1>3. Lease'
  BY DEF Posts, Lease
<1>4. Spared'
  BY DEF Spared
<1>5. ReleasedEmpty'
  BY DEF ReleasedEmpty
<1>6. Strays'
  BY DEF TypeOK, Strays
<1>7. CardIsOurs'
  BY DEF CardIsOurs, OnCard, Working, Current, Strays
<1>8. PendingIsHeld'
  BY DEF PendingIsHeld, Drained
<1> QED
  BY <1>1, <1>2, <1>3, <1>4, <1>5, <1>6, <1>7, <1>8 DEF IInv

\* The end of an abandoned thread keeps the invariant.
LEMMA ThreadEndsInv ==
  ASSUME IInv, ThreadEnds
  PROVE  IInv'
<1> USE WorkerAssumption DEF IInv, ThreadEnds, caller, holder, card, left
<1>1. TypeOK'
  BY DEF TypeOK, Threads
<1>2. Posts'
  BY DEF Posts
<1>3. Lease'
  BY DEF Lease, Strays
<1>4. Spared'
  BY DEF Spared
<1>5. ReleasedEmpty'
  BY DEF ReleasedEmpty, Strays, Tracked, AnyHolder
<1>6. Strays'
  BY DEF TypeOK, Strays, Tracked
<1>7. CardIsOurs'
  BY DEF CardIsOurs, OnCard, Working, Current, Model
<1>8. PendingIsHeld'
  BY DEF PendingIsHeld, Drained
<1> QED
  BY <1>1, <1>2, <1>3, <1>4, <1>5, <1>6, <1>7, <1>8 DEF IInv

\* The end of an abandoned hook keeps the invariant.
LEMMA HookEndsInv ==
  ASSUME IInv, HookEnds
  PROVE  IInv'
<1> USE WorkerAssumption DEF IInv, HookEnds, caller, holder, card, left
<1>1. TypeOK'
  BY DEF TypeOK, Futures
<1>2. Posts'
  BY DEF Posts
<1>3. Lease'
  BY DEF Lease, Strays
<1>4. Spared'
  BY DEF Spared
<1>5. ReleasedEmpty'
  BY DEF ReleasedEmpty, Tracked
<1>6. Strays'
  BY DEF Strays, Tracked
<1>7. CardIsOurs'
  <2>1. OnCard' = OnCard /\ stopping
    BY DEF OnCard, Working, Current, Model, Strays
  <2>2. PICK hook \in strayHooks : tenant' = (IF hook = "acquiring" THEN "down" ELSE "up") \/ tenant' = tenant
    OBVIOUS
  <2>3. hook = "releasing" => OnCard \cap TakesLease = {}
    BY <2>1 DEF ReleasedEmpty, Posts, Tracked, OnCard, Working, Current, AnyHolder, Threads, TypeOK
  <2> QED
    BY <2>1, <2>2, <2>3 DEF CardIsOurs, TypeOK
<1>8. PendingIsHeld'
  BY DEF PendingIsHeld, Drained
<1> QED
  BY <1>1, <1>2, <1>3, <1>4, <1>5, <1>6, <1>7, <1>8 DEF IInv

\* A step that changes nothing keeps the invariant.
LEMMA StutterInv == IInv /\ UNCHANGED vars => IInv'
<1> SUFFICES ASSUME IInv, UNCHANGED vars PROVE IInv'
  OBVIOUS
<1> USE DEF vars, caller, holder, card, left, Model
<1>1. TypeOK' /\ Posts' /\ PendingIsHeld'
  BY DEF IInv, TypeOK, Posts, PendingIsHeld, Drained
<1>2. Lease' /\ Spared' /\ ReleasedEmpty' /\ Strays'
  BY DEF IInv, Lease, Covered, Even, Spared, ReleasedEmpty, Strays, Tracked
<1>3. CardIsOurs'
  BY DEF IInv, CardIsOurs, OnCard, Working, Current
<1> QED
  BY <1>1, <1>2, <1>3 DEF IInv

\* The idle worker satisfies the invariant.
LEMMA InitInv == Init => IInv
<1> SUFFICES ASSUME Init PROVE IInv
  OBVIOUS
<1> USE WorkerAssumption DEF Init
<1>1. TypeOK
  <2>1. queue \in Seq(Callers) /\ Len(queue) <= MaxQueue
    OBVIOUS
  <2>2. fut \in [Callers -> Futures]
    BY DEF Futures
  <2> QED
    BY <2>1, <2>2 DEF TypeOK
<1>2. Posts /\ Lease /\ Spared
  BY DEF Posts, Lease, Spared, Even, AnyHolder
<1>3. ReleasedEmpty /\ Strays /\ PendingIsHeld
  BY DEF ReleasedEmpty, Strays, PendingIsHeld
<1>4. CardIsOurs
  BY DEF CardIsOurs, OnCard, Working, Current
<1> QED
  BY <1>1, <1>2, <1>3, <1>4 DEF IInv

\* Every step keeps the invariant.
LEMMA NextInv == IInv /\ [Next]_vars => IInv'
<1> SUFFICES ASSUME IInv, [Next]_vars PROVE IInv'
  OBVIOUS
<1>1. ASSUME NEW c \in Callers, Submit(c) \/ HangUp(c) PROVE IInv'
  BY <1>1, SubmitInv, HangUpInv
<1>2. CASE Take \/ Enter
  BY <1>2, TakeInv, EnterInv
<1>3. CASE HolderStep
  BY <1>3, AcquiredInv, AdmitInv, LoadsInv, LoadRaisesInv, InfersInv, DeviceFailsInv,
     UnloadsInv, ReleasedInv, SweepInv, SweepEndsInv DEF HolderStep
<1>4. ASSUME NEW idle \in SUBSET Slots, Reap(idle) PROVE IInv'
  BY <1>4, ReapInv
<1>5. CASE Stop \/ StopSweeps
  BY <1>5, StopInv, StopSweepsInv
<1>6. CASE ThreadEnds \/ HookEnds
  BY <1>6, ThreadEndsInv, HookEndsInv
<1>7. CASE UNCHANGED vars
  BY <1>7, StutterInv
<1> QED
  BY <1>1, <1>2, <1>3, <1>4, <1>5, <1>6, <1>7 DEF Next

(* The inductive invariant: where the lock's holder stands, the lease, the *)
(* models and what a stop left behind agree in every reachable state of    *)
(* lifecycle.py's manager.                                                 *)
THEOREM Invariance == Spec => []IInv
  BY InitInv, NextInv, PTL DEF Spec

(* Every variable keeps its type, and the queue its bound (check_capacity). *)
THEOREM TypeCorrect == Spec => []TypeOK
<1>1. IInv => TypeOK
  BY DEF IInv
<1> QED
  BY <1>1, Invariance, PTL

(* While a lease-taking model is on the card, the lease is held and the    *)
(* co-tenant is off it: _ensure_loaded, _unload and stop() together.       *)
THEOREM CardCovered == Spec => []CardIsOurs
<1>1. IInv => CardIsOurs
  BY DEF IInv
<1> QED
  BY <1>1, Invariance, PTL

(* Outside the lock the lease is held exactly when a lease-taking model is *)
(* loaded; after stop() it is not held and, if the grace period sufficed,  *)
(* no model is left.                                                       *)
THEOREM LeaseReturned == Spec => []LeaseEndsWithModels
<1>1. IInv => LeaseEndsWithModels
  BY DEF IInv, TypeOK, Posts, Lease, Even, Strays, LeaseEndsWithModels
<1> QED
  BY <1>1, Invariance, PTL

\* A set with at most one element has at most cardinality one.
LEMMA AtMostOne ==
  ASSUME NEW S, \A x, y \in S : x = y
  PROVE  Cardinality(S) <= 1
<1>1. CASE S = {}
  BY <1>1, FS_EmptySet
<1>2. ASSUME NEW x \in S PROVE Cardinality(S) <= 1
  <2>1. S = {x}
    BY <1>2
  <2> QED
    BY <2>1, FS_Singleton
<1> QED
  BY <1>1, <1>2

(* The card is used by one thread at a time, and no model is unloaded      *)
(* under it while stop() is within its grace period.                       *)
THEOREM CardIsSerial == Spec => []SerialGpu
<1>1. IInv => SerialGpu
  <2> SUFFICES ASSUME IInv PROVE SerialGpu
    OBVIOUS
  <2>1. \A t, u \in Working : t = u
    <3>1. CASE stopping
      BY <3>1 DEF IInv, TypeOK, Posts, Strays, Working, Current
    <3>2. CASE ~stopping
      BY <3>2 DEF IInv, Strays, Working, Current
    <3> QED
      BY <3>1, <3>2
  <2>2. ~expired /\ pc = "unloading" => Working = {}
    BY DEF IInv, TypeOK, Threads, Strays, Tracked, Working, Current
  <2> QED
    BY <2>1, <2>2, AtMostOne DEF SerialGpu
<1> QED
  BY <1>1, Invariance, PTL

(* Once stop() has cancelled the consumer no caller waits any more.        *)
THEOREM NobodyLeftWaiting == Spec => []NobodyStranded
<1>1. IInv => NobodyStranded
  BY WorkerAssumption DEF IInv, TypeOK, PendingIsHeld, Drained, NobodyStranded
<1> QED
  BY <1>1, Invariance, PTL

(* Neither an eviction nor the reaper takes a resident model off the card. *)
THEOREM ResidentsStay == Spec => ResidentStays
<1>1. IInv /\ [Next]_vars => (Resident \cap (loaded \ loaded') # {} => stopping \/ why = "failed")
  <2> SUFFICES ASSUME IInv, ~stopping, why # "failed", [Next]_vars, loaded' # loaded
               PROVE  Resident \cap (loaded \ loaded') = {}
    OBVIOUS
  <2>1. Loads \/ Unloads \/ ThreadEnds
    BY DEF Next, vars, caller, holder, card, left, HolderStep, Submit, HangUp, Take, Enter, Acquired,
           Admit, LoadRaises, Infers, DeviceFails, Released, Reap, Sweep, SweepEnds, Stop, StopSweeps, HookEnds
  <2>2. CASE Loads
    BY <2>2 DEF Loads
  <2>3. CASE Unloads
    BY <2>3 DEF Unloads, IInv, Spared
  <2>4. CASE ThreadEnds
    BY <2>4 DEF ThreadEnds, IInv, Strays
  <2> QED
    BY <2>1, <2>2, <2>3, <2>4
<1> QED
  BY <1>1, Invariance, PTL DEF Spec, ResidentStays
=============================================================================
