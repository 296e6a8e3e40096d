----------------------------- MODULE GpuWorker -----------------------------
(***************************************************************************)
(* The lifecycle manager of the GPU worker (worker: lifecycle.py): one     *)
(* queue and its consumer, the idle reaper, the lock both take, the models *)
(* they load and unload in threads, the lease hooks, and stop().           *)
(*                                                                         *)
(* Only the holder of the lock touches models or the lease, so one program *)
(* counter, `pc`, stands for whichever of them holds it.  An action runs   *)
(* from one await to the next.  Cancelling an await on a thread or on a    *)
(* shell hook does not stop the thread or the hook: those that nobody      *)
(* awaits any more are `stray`.                                            *)
(***************************************************************************)
EXTENDS Naturals, Sequences, FiniteSets

CONSTANTS
  Slots,       \* the distinct models; a task is named by the slot it maps to
  Gpu,         \* those whose vram_estimate_mb is above zero
  Resident,    \* those kept loaded
  Callers,     \* requests, one submission each
  Task,        \* the model each request is for
  MaxQueue,    \* the queue's bound
  HooksFail,   \* whether a hook command may fail in this instance
  NoSlot, NoCaller

ASSUME WorkerAssumption ==
  /\ Gpu \subseteq Slots /\ Resident \subseteq Slots /\ NoSlot \notin Slots
  /\ NoCaller \notin Callers /\ Task \in [Callers -> Slots]
  /\ MaxQueue \in Nat \ {0} /\ HooksFail \in BOOLEAN

VARIABLES
  queue,     \* _queue
  fut,       \* each caller's future: none yet, pending, or done
  runner,    \* the consumer: awaiting a job, the lock, inside it, or gone
  job,       \* the job it took
  lock,      \* who holds _gpu_lock
  pc,        \* where that holder stands
  victim,    \* the slot it is unloading
  why,       \* what it unloads or releases for
  due,       \* the slots a sweep still has to visit
  loaded,    \* the slots whose backend is loaded
  acquired,  \* hooks.acquired
  tenant,    \* whether the co-tenant of the card runs
  stray, strayHooks,
  stopping,
  expired    \* shutdown_grace_seconds ran out under a thread

caller == <<queue, fut>>
holder == <<lock, pc, victim, why, due>>
card == <<loaded, acquired, tenant>>
left == <<stray, strayHooks, stopping, expired>>
vars == <<caller, runner, job, holder, card, left>>

Threads == {"loading", "inferring", "unloading"} \X Slots
Futures == {"none", "pending", "done"}

-----------------------------------------------------------------------------
(* Slots and the lease *)

TakesLease == Gpu \ Resident

AnyHolder(models) == models \cap TakesLease # {}

\* _execute returns or raises: out of the lock, the future done, back to the queue.
Leave ==
  /\ fut' = [fut EXCEPT ![job] = "done"]
  /\ lock' = "free" /\ pc' = "none" /\ runner' = "get" /\ job' = NoCaller

-----------------------------------------------------------------------------
(* Callers: submit, check_capacity and the disconnect poll of the API *)

SubmitOverfull(c) ==
  /\ fut[c] = "none" /\ ~stopping
  /\ fut' = [fut EXCEPT ![c] = "pending"]
  /\ queue' = Append(queue, c)
  /\ UNCHANGED <<runner, job, holder, card, left>>

Submit(c) ==
  /\ fut[c] = "none"
  /\ IF stopping \/ Len(queue) >= MaxQueue
     THEN /\ fut' = [fut EXCEPT ![c] = "done"]
          /\ UNCHANGED queue
     ELSE /\ fut' = [fut EXCEPT ![c] = "pending"]
          /\ queue' = Append(queue, c)
  /\ UNCHANGED <<runner, job, holder, card, left>>

\* The client hung up: its future is cancelled, its job stays where it is.
HangUp(c) ==
  /\ fut[c] = "pending"
  /\ fut' = [fut EXCEPT ![c] = "done"]
  /\ UNCHANGED <<queue, runner, job, holder, card, left>>

-----------------------------------------------------------------------------
(* The consumer *)

\* A job whose caller is gone is dropped here, before anything is loaded.
Take ==
  /\ runner = "get" /\ queue # <<>>
  /\ queue' = Tail(queue)
  /\ IF fut[Head(queue)] = "pending"
     THEN runner' = "wait" /\ job' = Head(queue)
     ELSE UNCHANGED <<runner, job>>
  /\ UNCHANGED <<fut, holder, card, left>>

Model == Task[job]

\* After _ensure_loaded: run the job, unless its caller left meanwhile.
Dispatch ==
  IF fut[job] = "pending"
  THEN /\ lock' = "runner" /\ pc' = "inferring" /\ runner' = "in"
       /\ UNCHANGED <<job, fut>>
  ELSE Leave

\* The lock is granted: _ensure_loaded up to its first await.
Enter ==
  /\ runner = "wait" /\ lock = "free"
  /\ \/ /\ Model \in loaded
        /\ Dispatch
        /\ UNCHANGED acquired
     \/ /\ Model \notin loaded
        /\ lock' = "runner" /\ runner' = "in"
        /\ IF Model \in TakesLease /\ ~acquired
           THEN pc' = "acquiring" /\ acquired' = TRUE
           ELSE pc' = "admit" /\ UNCHANGED acquired
        /\ UNCHANGED <<job, fut>>
  /\ UNCHANGED <<queue, victim, why, due, loaded, tenant, left>>

\* The acquire hook returned; a failing one may have stopped the co-tenant.
Acquired ==
  /\ pc = "acquiring"
  /\ \/ /\ pc' = "admit" /\ tenant' = "down"
        /\ UNCHANGED <<lock, runner, job, fut, acquired>>
     \/ /\ HooksFail
        /\ Leave /\ acquired' = FALSE
        /\ tenant' \in {tenant, "down"}
  /\ UNCHANGED <<queue, victim, why, due, loaded, left>>

EvictableResident == (loaded \cap Gpu) \ {Model}
Evictable == ((loaded \cap Gpu) \ Resident) \ {Model}

(* The load failed or was refused: give back a lease no loaded model holds. *)
HolderLeftAlways(models) == TRUE
HolderLeft(models) == AnyHolder(models)

LoadFails ==
  IF Model \in TakesLease /\ ~HolderLeft(loaded) /\ acquired
  THEN /\ pc' = "releasing" /\ why' = "failed" /\ acquired' = FALSE
       /\ UNCHANGED <<lock, runner, job, fut>>
  ELSE /\ Leave
       /\ UNCHANGED <<why, acquired>>

(* _admit: what NVML says of the free memory, and which of the models is    *)
(* the least recently used, are left open.                                  *)
Admit ==
  /\ pc = "admit"
  /\ \/ /\ pc' = "loading"
        /\ UNCHANGED <<lock, runner, job, fut, victim, why, acquired>>
     \/ /\ Model \in Gpu
        /\ \E s \in Evictable :
             pc' = "unloading" /\ victim' = s /\ why' = "evict"
        /\ UNCHANGED <<lock, runner, job, fut, acquired>>
     \/ /\ Model \in Gpu /\ Evictable = {}
        /\ LoadFails
        /\ UNCHANGED victim
  /\ UNCHANGED <<queue, due, loaded, tenant, left>>

Loads ==
  /\ pc = "loading"
  /\ loaded' = loaded \cup {Model}
  /\ Dispatch
  /\ UNCHANGED <<queue, victim, why, due, acquired, tenant, left>>

LoadRaises ==
  /\ pc = "loading"
  /\ LoadFails
  /\ UNCHANGED <<queue, victim, due, loaded, tenant, left>>

Infers ==
  /\ pc = "inferring"
  /\ Leave
  /\ UNCHANGED <<queue, victim, why, due, card, left>>

\* _job_raised on a device failure: the model goes before the caller hears.
DeviceFails ==
  /\ pc = "inferring"
  /\ pc' = "unloading" /\ victim' = Model /\ why' = "failed"
  /\ UNCHANGED <<caller, runner, job, lock, due, card, left>>

-----------------------------------------------------------------------------
(* _unload and _release_lease, whoever calls them *)

KeepLeaseNever == FALSE
KeepLeaseOnEviction == why = "evict"
KeepLease == why = "evict" /\ Model \in TakesLease

\* Back to whoever asked for the unload or the release.
ReturnSilently(reason) ==
  CASE reason = "evict" -> pc' = "admit" /\ UNCHANGED <<lock, runner, job, fut>>
    [] reason = "failed" -> /\ lock' = "free" /\ pc' = "none" /\ runner' = "get"
                            /\ job' = NoCaller /\ UNCHANGED fut
    [] reason = "sweep" -> pc' = "sweep" /\ UNCHANGED <<lock, runner, job, fut>>
    [] reason = "final" -> /\ lock' = "free" /\ pc' = "stopped"
                           /\ UNCHANGED <<runner, job, fut>>

Return(reason) ==
  CASE reason = "evict" -> pc' = "admit" /\ UNCHANGED <<lock, runner, job, fut>>
    [] reason = "failed" -> Leave
    [] reason = "sweep" -> pc' = "sweep" /\ UNCHANGED <<lock, runner, job, fut>>
    [] reason = "final" -> /\ lock' = "free" /\ pc' = "stopped"
                           /\ UNCHANGED <<runner, job, fut>>

Unloads ==
  /\ pc = "unloading"
  /\ loaded' = loaded \ {victim} /\ victim' = NoSlot
  /\ IF ~KeepLease /\ ~AnyHolder(loaded \ {victim}) /\ acquired
     THEN /\ pc' = "releasing" /\ acquired' = FALSE
          /\ UNCHANGED <<lock, runner, job, fut>>
     ELSE /\ Return(why)
          /\ UNCHANGED acquired
  /\ UNCHANGED <<queue, why, due, tenant, left>>

\* The release hook returned; a failing one is logged and ignored.
Released ==
  /\ pc = "releasing"
  /\ \/ tenant' = "up"
     \/ HooksFail /\ UNCHANGED tenant
  /\ Return(why)
  /\ UNCHANGED <<queue, victim, why, due, loaded, acquired, left>>

-----------------------------------------------------------------------------
(* Sweeps: reap_idle, and _unload_all in stop() *)

\* Any non-resident model may have been idle for idle_unload_seconds.
Reap(idle) ==
  /\ ~stopping /\ lock = "free"
  /\ idle # {} /\ idle \subseteq loaded \ Resident
  /\ due' = idle
  /\ lock' = "reaper" /\ pc' = "sweep" /\ why' = "sweep"
  /\ UNCHANGED <<caller, runner, job, victim, card, left>>

SweepLoaded ==
  /\ pc = "sweep"
  /\ \E s \in due \cap loaded :
       due' = due \ {s} /\ pc' = "unloading" /\ victim' = s
  /\ UNCHANGED <<caller, runner, job, lock, why, card, left>>

Sweep ==
  /\ pc = "sweep"
  /\ \E s \in due :
       /\ due' = due \ {s}
       /\ IF s \in loaded
          THEN pc' = "unloading" /\ victim' = s
          ELSE UNCHANGED <<pc, victim>>
  /\ UNCHANGED <<caller, runner, job, lock, why, card, left>>

SweepEnds ==
  /\ pc = "sweep" /\ due = {}
  /\ IF lock = "reaper"
     THEN lock' = "free" /\ pc' = "none" /\ UNCHANGED <<why, acquired>>
     ELSE IF acquired
     THEN pc' = "releasing" /\ why' = "final" /\ acquired' = FALSE /\ UNCHANGED lock
     ELSE lock' = "free" /\ pc' = "stopped" /\ UNCHANGED <<why, acquired>>
  /\ UNCHANGED <<caller, runner, job, victim, due, loaded, tenant, left>>

-----------------------------------------------------------------------------
(* stop() *)

DrainedRunningOnly == {job}
\* Every future that stop's cancellation and drain resolve: the job in the
\* consumer's hands and those still in the queue.
Drained == {c \in Callers : c = job \/ \E k \in 1..Len(queue) : queue[k] = c}

\* What the cancelled await leaves behind: a thread that had not started
\* never will, and a hook may be killed before it did anything.
Abandoned ==
  LET thread == IF pc \in {"loading", "inferring"} THEN {<<pc, Model>>}
                ELSE IF pc = "unloading" THEN {<<pc, victim>>} ELSE {}
      hook == {pc} \cap {"acquiring", "releasing"}
  IN stray' \in {{}, thread} /\ strayHooks' \in {{}, hook}

Stop ==
  /\ ~stopping
  /\ stopping' = TRUE
  /\ fut' = [c \in Callers |-> IF c \in Drained THEN "done" ELSE fut[c]]
  /\ queue' = <<>> /\ runner' = "off" /\ job' = NoCaller
  /\ Abandoned
  /\ lock' = "free" /\ pc' = "grace" /\ victim' = NoSlot /\ why' = "sweep" /\ due' = {}
  /\ UNCHANGED <<card, expired>>

\* _await_inference knows of the last load or inference, not of unloads.
TrackedNone == {}
Tracked == {t \in stray : t[1] \in {"loading", "inferring"}}

StopSweeps ==
  /\ pc = "grace"
  /\ expired' = (Tracked # {})
  /\ lock' = "stop" /\ pc' = "sweep" /\ due' = Slots
  /\ UNCHANGED <<caller, runner, job, victim, why, card, stray, strayHooks, stopping>>

-----------------------------------------------------------------------------
(* What nobody awaits any more *)

ThreadEnds ==
  /\ \E t \in stray :
       /\ stray' = stray \ {t}
       /\ \/ t[1] = "loading" /\ loaded' = loaded \cup {t[2]}
          \/ t[1] = "unloading" /\ loaded' = loaded \ {t[2]}
          \/ t[1] # "unloading" /\ UNCHANGED loaded
  /\ UNCHANGED <<caller, runner, job, holder, acquired, tenant, strayHooks, stopping, expired>>

HookEnds ==
  /\ \E hook \in strayHooks :
       /\ strayHooks' = strayHooks \ {hook}
       /\ \/ tenant' = IF hook = "acquiring" THEN "down" ELSE "up"
          \/ HooksFail /\ UNCHANGED tenant
  /\ UNCHANGED <<caller, runner, job, holder, loaded, acquired, stray, stopping, expired>>

-----------------------------------------------------------------------------

Init ==
  /\ queue = <<>> /\ fut = [c \in Callers |-> "none"]
  /\ runner = "get" /\ job = NoCaller
  /\ lock = "free" /\ pc = "none" /\ victim = NoSlot /\ why = "sweep" /\ due = {}
  /\ loaded = {} /\ acquired = FALSE /\ tenant = "up"
  /\ stray = {} /\ strayHooks = {} /\ stopping = FALSE /\ expired = FALSE

\* The holder of the lock goes on; at most one of these is enabled at a time.
HolderStep == Acquired \/ Admit \/ Loads \/ LoadRaises \/ Infers \/ DeviceFails
              \/ Unloads \/ Released \/ Sweep \/ SweepEnds

Next ==
  \/ \E c \in Callers : Submit(c) \/ HangUp(c)
  \/ Take \/ Enter \/ HolderStep
  \/ \E idle \in SUBSET Slots : Reap(idle)
  \/ Stop \/ StopSweeps \/ ThreadEnds \/ HookEnds

Spec == Init /\ [][Next]_vars

(* Fairness: the event loop resumes what is ready, every thread returns and *)
(* every hook returns or times out; asyncio.Lock is first come first served,  *)
(* so the reaper cannot starve the consumer; a model nobody uses becomes idle. *)
Fairness ==
  /\ WF_vars(Take) /\ SF_vars(Enter) /\ WF_vars(HolderStep)
  /\ WF_vars(Reap(loaded \ Resident))
  /\ WF_vars(StopSweeps) /\ WF_vars(ThreadEnds) /\ WF_vars(HookEnds)

FairSpec == Spec /\ Fairness

-----------------------------------------------------------------------------
(* Properties *)

(* Types, the bound of the queue, and who stands where: the consumer has a  *)
(* job exactly between its get and its return, the lock's holder has a      *)
(* place in the code, and stop() has run the moment the consumer is gone.   *)
TypeOK ==
  /\ queue \in Seq(Callers) /\ Len(queue) <= MaxQueue
  /\ fut \in [Callers -> Futures]
  /\ runner \in {"get", "wait", "in", "off"} /\ job \in Callers \cup {NoCaller}
  /\ lock \in {"free", "runner", "reaper", "stop"}
  /\ pc \in {"none", "acquiring", "admit", "loading", "inferring", "unloading",
             "releasing", "sweep", "grace", "stopped"}
  /\ victim \in Slots \cup {NoSlot} /\ why \in {"evict", "failed", "sweep", "final"}
  /\ due \subseteq Slots /\ loaded \subseteq Slots
  /\ acquired \in BOOLEAN /\ tenant \in {"up", "down"}
  /\ stray \subseteq Threads /\ strayHooks \subseteq {"acquiring", "releasing"}
  /\ stopping \in BOOLEAN /\ expired \in BOOLEAN
  /\ (job # NoCaller) <=> (runner \in {"wait", "in"})
  /\ (runner = "in") <=> (lock = "runner")
  /\ (runner = "off") <=> stopping
  /\ (lock = "free") <=> (pc \in {"none", "grace", "stopped"})

\* The thread the lock's holder awaits.
Current == IF pc \in {"loading", "inferring"} THEN {<<pc, Model>>}
           ELSE IF pc = "unloading" THEN {<<pc, victim>>} ELSE {}

Working == {t \in Current \cup stray : t[1] # "unloading"}

OnCard == loaded \cup {t[2] : t \in Working}

(* While a model the lease is for is loaded, being loaded or running, the   *)
(* lease is held and the co-tenant is off the card, across evictions,       *)
(* failed loads, idle unloads, failing hooks and a stop at any await;       *)
(* only a shutdown whose grace period ran out is exempt (lifecycle.py:283). *)
CardIsOurs ==
  ~expired /\ OnCard \cap TakesLease # {} => acquired /\ tenant = "down"

(* Whenever nobody is inside the lock, the lease is held exactly when a     *)
(* model it is for is loaded; after stop() it is not held and no model is   *)
(* left behind, not even one whose load the stop interrupted.               *)
LeaseEndsWithModels ==
  /\ pc = "none" => (acquired <=> AnyHolder(loaded))
  /\ pc = "stopped" => ~acquired /\ (~expired => loaded = {})

(* One job on the GPU at a time, and no model is unloaded under the thread  *)
(* that loads or runs it, also when stop() abandons that thread and goes on *)
(* to unload everything (lifecycle.py:279-283).                             *)
SerialGpu ==
  /\ Cardinality(Working) <= 1
  /\ ~expired => \A t \in Working : pc = "unloading" => t[2] # victim

(* After stop() has cancelled the consumer no caller waits for a future     *)
(* nobody will resolve: neither the running job's, nor a queued one's, nor  *)
(* one submitted while stop() was under way (lifecycle.py:266-277).         *)
NobodyStranded == stopping => \A c \in Callers : fut[c] # "pending"

(* A resident model leaves the card only by a device failure of its own or  *)
(* at shutdown: neither an eviction nor the reaper takes it.                *)
ResidentStays ==
  [][Resident \cap (loaded \ loaded') # {} => stopping \/ why = "failed"]_vars

(* Every accepted job's caller hears something: a result, an error, or that *)
(* the worker shuts down.                                                   *)
EveryCallerAnswered == \A c \in Callers : fut[c] = "pending" ~> fut[c] # "pending"

(* stop() returns, whatever it interrupted.                                 *)
StopEnds == stopping ~> pc = "stopped"

(* When the callers have stopped coming, the lease is given back.           *)
LeaseComesBack == acquired ~> ~acquired

-----------------------------------------------------------------------------
(* What the documentation says *)

(* .env.example: the hooks exist so that the co-tenant can "hand the card   *)
(* over for a burst of indexing and get it back afterwards".  Said of a     *)
(* worker that has stopped, with every hook it started come to its end.     *)
TenantComesBack == pc = "stopped" /\ stray = {} /\ strayHooks = {} => tenant = "up"
=============================================================================
