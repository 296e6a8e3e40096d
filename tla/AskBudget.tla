----------------------------- MODULE AskBudget -----------------------------
(***************************************************************************)
(* The day's ask budget (mcp: public/ratelimit.py): the limiter's counter  *)
(* for ask_global, the cache of today's row it is seeded from, the deltas  *)
(* queued behind the requests, the task that writes them, and the row.     *)
(*                                                                         *)
(* The counter decides and the row remembers, so the two agree only while  *)
(* no delta is lost.  A day is a number: utc_day() only names it.          *)
(***************************************************************************)
EXTENDS Integers, Sequences, FiniteSets

CONSTANTS
  Cap,      \* asks the limit allows in one day
  MaxDay    \* bound: the last midnight an instance reaches

VARIABLES
  day,       \* the UTC date
  counter,   \* the limiter's DailyCounter for ask_global
  cache,     \* SqliteBudgetStore._cache, by day
  queue,     \* _queue: deltas not yet written
  row,       \* ask_budget.spent, by day: the only part on disk
  admitted,  \* history: charges of a day less the refunds of that day
  lost,      \* history: charges whose delta never reached the row
  owed       \* history: refunds whose delta never reached it

memory == <<counter, cache, queue>>
history == <<admitted, lost, owed>>
budgetVars == <<day, memory, row, history>>

Days == 0..MaxDay
NoDay == -1
Deltas == {1, -1}
\* Mutant: the upsert without its max(0, ...).
FloorNone(n) == n
Floor(n) == IF n < 0 THEN 0 ELSE n

BudgetInit ==
  /\ day = 0
  /\ counter = [day |-> NoDay, spent |-> 0]
  /\ cache = [d \in Days |-> 0]
  /\ queue = <<>>
  /\ row = [d \in Days |-> 0]
  /\ admitted = [d \in Days |-> 0]
  /\ lost = [d \in Days |-> 0]
  /\ owed = [d \in Days |-> 0]

-----------------------------------------------------------------------------
(* The limiter *)

\* What _counter answers for a day: the live counter, or a new one seeded
\* from the cached row.
Spent(d) == IF counter.day = d THEN counter.spent ELSE cache[d]

\* Mutant: a refund reaches the memory and not the row.
RecordCharges(d, delta) ==
  /\ cache' = [cache EXCEPT ![d] = Floor(@ + delta)]
  /\ queue' = IF delta = 1 THEN Append(queue, <<d, delta>>) ELSE queue

\* record(): the cache moves with the request, the row later.
Record(d, delta) ==
  /\ cache' = [cache EXCEPT ![d] = Floor(@ + delta)]
  /\ queue' = Append(queue, <<d, delta>>)

\* check("ask_global") that is allowed.
Charge(d) ==
  /\ Spent(d) < Cap
  /\ counter' = [day |-> d, spent |-> Spent(d) + 1]
  /\ Record(d, 1)
  /\ admitted' = [admitted EXCEPT ![d] = @ + 1]
  /\ UNCHANGED <<day, row, lost, owed>>

\* A check that is refused: 429 until midnight.
Refuse(d) ==
  /\ Spent(d) >= Cap
  /\ counter' = [day |-> d, spent |-> Spent(d)]
  /\ UNCHANGED <<day, cache, queue, row, history>>

\* A refund names the day of its charge; the counter of another day is left
\* alone.
Refund(d) ==
  /\ counter' = IF counter.day = d
                THEN [counter EXCEPT !.spent = Floor(@ - 1)] ELSE counter
  /\ Record(d, -1)
  /\ admitted' = [admitted EXCEPT ![d] = @ - 1]
  /\ UNCHANGED <<day, row, lost, owed>>

-----------------------------------------------------------------------------
(* The task behind the requests *)

\* How many of the deltas of a sequence are this one.
Count(deltas, d, delta) ==
  Cardinality({i \in DOMAIN deltas : deltas[i] = <<d, delta>>})

Lose(deltas) ==
  /\ lost' = [d \in Days |-> lost[d] + Count(deltas, d, 1)]
  /\ owed' = [d \in Days |-> owed[d] + Count(deltas, d, -1)]

\* One upsert commits.
Drain ==
  /\ queue # <<>>
  /\ row' = [row EXCEPT ![Head(queue)[1]] = Floor(@ + Head(queue)[2])]
  /\ queue' = Tail(queue)
  /\ UNCHANGED <<day, counter, cache, history>>

\* The write raises: the delta is logged and dropped.
DrainFails ==
  /\ queue # <<>>
  /\ Lose(<<Head(queue)>>)
  /\ queue' = Tail(queue)
  /\ UNCHANGED <<day, counter, cache, row, admitted>>

Midnight ==
  /\ day < MaxDay
  /\ day' = day + 1
  /\ UNCHANGED <<memory, row, history>>

\* Mutant: open() without its SELECT.
ReseedEmpty(d) == 0
\* What open() reads: today's row and nothing else.
Reseed(d) == IF d = day THEN row[d] ELSE 0

\* The process ends, by a signal or by close(), and what is still queued with
\* it, and the next one opens.
Restart ==
  /\ Lose(queue)
  /\ queue' = <<>>
  /\ counter' = [day |-> NoDay, spent |-> 0]
  /\ cache' = [d \in Days |-> Reseed(d)]
  /\ UNCHANGED <<day, row, admitted>>

-----------------------------------------------------------------------------
\* Only today is charged, and only what was charged is given back.
BudgetNext ==
  \/ Charge(day)
  \/ Refuse(day)
  \/ \E d \in Days : admitted[d] > 0 /\ Refund(d)
  \/ Drain
  \/ DrainFails
  \/ Midnight
  \/ Restart

BudgetSpec == BudgetInit /\ [][BudgetNext]_budgetVars

-----------------------------------------------------------------------------
BudgetTypeOK ==
  /\ day \in Days
  /\ counter \in [day : Days \cup {NoDay}, spent : Nat]
  /\ cache \in [Days -> Nat]
  /\ queue \in Seq(Days \X Deltas)
  /\ row \in [Days -> Nat]
  /\ admitted \in [Days -> Int]
  /\ lost \in [Days -> Nat]
  /\ owed \in [Days -> Nat]

\* The daily cap, whatever is refunded, restarted or rolled over: a day never
\* has more asks on its bill than the cap, but for the charges that were lost
\* before they reached the row (a counter reseeded from the row cannot know
\* them).
CapHolds == \A d \in Days : admitted[d] <= Cap + lost[d]

\* With no delta lost, the row and what is queued for it are the day's bill
\* exactly, whatever the floors at zero, the drain and the restarts did.
RowTellsTheBill ==
  \A d \in Days :
    lost[d] = 0 /\ owed[d] = 0 =>
      row[d] + Count(queue, d, 1) - Count(queue, d, -1) = admitted[d]
=============================================================================
