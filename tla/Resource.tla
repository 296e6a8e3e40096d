------------------------------ MODULE Resource ------------------------------
(***************************************************************************)
(* One dashboard read in the browser's cache (web: lib/dashboard/          *)
(* resource.ts) and the page that shows it: mounting and leaving, the      *)
(* grace after it, the poll, a 429's Retry-After, a tab that comes back.   *)
(*                                                                         *)
(* A payload is a number that grows with what happened; Live says which    *)
(* payloads are polled.  Timers fire in any order, except that a wait for  *)
(* Retry-After is over before its timer fires.                             *)
(***************************************************************************)
EXTENDS Integers

CONSTANTS
  Reads,       \* the requests of this read: one is its controller's
  NoRead,      \* of an entry with no request out
  Payloads,    \* what a read may answer
  Live(_),     \* whether a payload is polled again
  NoData       \* of an entry that was never answered

VARIABLES
  data,        \* the last payload, NoData before one
  failed,      \* whether a refusal that is not a 429 is what landed last
  controller,  \* the request whose reply may land
  timer,       \* entry.timer: "none", "poll", "retry"
  waiting,     \* whether retryAt is still ahead
  mounted,     \* entry.subscribers: the page is on screen
  release,     \* whether the release timer is set
  lapsed       \* history: a poll came due with nobody there, in the grace

entry == <<data, failed, controller, timer, waiting, mounted, release, lapsed>>

ResourceInit ==
  /\ data = NoData
  /\ failed = FALSE
  /\ controller = NoRead
  /\ timer = "none"
  /\ waiting = FALSE
  /\ mounted = FALSE
  /\ release = FALSE
  /\ lapsed = FALSE

-----------------------------------------------------------------------------
\* load() with a request to use: nothing while one is out.
Load(r) ==
  IF controller # NoRead THEN UNCHANGED <<controller, timer, lapsed>>
  ELSE controller' = r /\ timer' = "none" /\ lapsed' = FALSE

\* subscribe() by a page that mounts.
Mount(r) ==
  /\ ~mounted
  /\ mounted' = TRUE
  /\ release' = FALSE
  /\ \E fresh \in IF data = NoData THEN {FALSE} ELSE BOOLEAN :
       IF release \/ controller # NoRead THEN UNCHANGED <<controller, timer, lapsed>>
       ELSE IF fresh
            THEN /\ timer' = IF timer = "none" /\ Live(data) THEN "poll" ELSE timer
                 /\ UNCHANGED <<controller, lapsed>>
       ELSE IF waiting THEN timer' = "retry" /\ UNCHANGED <<controller, lapsed>>
       ELSE Load(r)
  /\ UNCHANGED <<data, failed, waiting>>

Unmount ==
  /\ mounted
  /\ mounted' = FALSE
  /\ release' = TRUE
  /\ UNCHANGED <<data, failed, controller, timer, waiting, lapsed>>

\* The grace is over: the poll stops and the request is aborted.
Released ==
  /\ release
  /\ release' = FALSE
  /\ timer' = "none"
  /\ controller' = NoRead
  /\ UNCHANGED <<data, failed, waiting, mounted, lapsed>>

\* The poll's timer, or the retry's.
TimerFires(r) ==
  /\ timer # "none"
  /\ timer = "retry" => ~waiting
  /\ IF mounted THEN controller = NoRead /\ Load(r)
     ELSE timer' = "none" /\ lapsed' = TRUE /\ UNCHANGED controller
  /\ UNCHANGED <<data, failed, waiting, mounted, release>>

WaitOver ==
  /\ waiting
  /\ waiting' = FALSE
  /\ UNCHANGED <<data, failed, controller, timer, mounted, release, lapsed>>

\* visibilitychange: a poll that was waiting reads now.
TabBack(r) ==
  /\ mounted /\ timer # "none" /\ ~waiting
  /\ Load(r)
  /\ UNCHANGED <<data, failed, waiting, mounted, release>>

\* reload(): what is scheduled goes; a read that is out already is left to land.
Reload(r) ==
  /\ failed' = FALSE
  /\ timer' = "none"
  /\ IF mounted /\ controller = NoRead
     THEN controller' = r /\ lapsed' = FALSE
     ELSE UNCHANGED <<controller, lapsed>>
  /\ UNCHANGED <<data, waiting, mounted, release>>

-----------------------------------------------------------------------------
(* What a request comes back with *)

\* Mutant: the answer does not set the next poll.
AnsweredOnce(r, payload) ==
  /\ r = controller
  /\ controller' = NoRead
  /\ data' = payload
  /\ failed' = FALSE
  /\ waiting' = FALSE
  /\ UNCHANGED <<timer, mounted, release, lapsed>>

Answered(r, payload) ==
  /\ r = controller
  /\ controller' = NoRead
  /\ data' = payload
  /\ failed' = FALSE
  /\ waiting' = FALSE
  /\ timer' = IF Live(payload) THEN "poll" ELSE timer
  /\ UNCHANGED <<mounted, release, lapsed>>

RateLimited(r) ==
  /\ r = controller
  /\ controller' = NoRead
  /\ failed' = FALSE
  /\ waiting' = TRUE
  /\ timer' = "retry"
  /\ UNCHANGED <<data, mounted, release, lapsed>>

Refused(r) ==
  /\ r = controller
  /\ controller' = NoRead
  /\ failed' = TRUE
  /\ waiting' = FALSE
  /\ UNCHANGED <<data, timer, mounted, release, lapsed>>
=============================================================================
