------------------------------ MODULE JobLedger ------------------------------
(***************************************************************************)
(* What the queue promises to whoever holds a job handle (the state        *)
(* machine documented at the head of jobs/store.py), with no runner, no    *)
(* process and no clock: a job is opened once with its items, an item ends *)
(* once and keeps its ending, and a job ends once, when every item has     *)
(* ended, with the result its items add up to.  JobQueue implements this   *)
(* under crashes, stops, retries, sweeps and cancellations.                *)
(***************************************************************************)
CONSTANTS
  Jobs, Items,
  Owner         \* the job each item belongs to, in [Items -> Jobs]

VARIABLES
  job,   \* "none", "open", or how it ended
  item   \* "none", "open", or how it ended

ledger == <<job, item>>

ItemEnd == {"done", "failed", "skipped", "cancelled"}
JobEnd == {"done", "failed", "cancelled"}

Of(j) == {i \in Items : Owner[i] = j}

Init == job = [j \in Jobs |-> "none"] /\ item = [i \in Items |-> "none"]

\* One transaction may touch the items of several jobs: a sweep retires every
\* item of every dead claim, a forced reindex supersedes items as it opens a job.
ItemsMove ==
  /\ item' \in [Items -> {"none", "open"} \cup ItemEnd]
  /\ \A i \in Items :
       /\ item[i] \in ItemEnd => item'[i] = item[i]
       /\ item[i] = "open" => item'[i] # "none"
       /\ item[i] = "none" /\ item'[i] # "none" =>
            job[Owner[i]] \in {"none", "open"} /\ job'[Owner[i]] = "open"

\* What a job that just ended is allowed to say about its items.
Adds(j, result) ==
  /\ \A i \in Of(j) : item'[i] \notin {"open"}
  /\ result = "failed" => /\ \E i \in Of(j) : item'[i] = "failed"
                          /\ \A i \in Of(j) : item'[i] # "done"
  /\ result = "done" => \/ \E i \in Of(j) : item'[i] = "done"
                        \/ \A i \in Of(j) : item'[i] # "failed"

JobsMove ==
  /\ job' \in [Jobs -> {"none", "open"} \cup JobEnd]
  /\ \A j \in Jobs :
       /\ job[j] \in JobEnd => job'[j] = job[j]
       /\ job[j] = "open" => job'[j] # "none"
       /\ job[j] = "none" => job'[j] \in {"none", "open"}
       /\ job'[j] # job[j] /\ job'[j] \in JobEnd => Adds(j, job'[j])

Step == ItemsMove /\ JobsMove

Spec == Init /\ [][Step]_ledger
=============================================================================
