-------------------------- MODULE AskServiceProofs --------------------------
(***************************************************************************)
(* Theorems about AskService for every set of requests and questions and   *)
(* every bound: what requests do to the budget is what AskBudget allows,   *)
(* so the cap and the row hold for the service; every road settles a bill  *)
(* once, by what its calls came to; and a question that is running is      *)
(* never run again.                                                        *)
(***************************************************************************)
EXTENDS AskService, AskBudgetProofs, SequenceTheorems

\* The table of runs: what AskRuns says of it, that what is kept is over, and
\* that a stream follows a run.
RunsInv ==
  /\ Runs!RunsTypeOK
  /\ Runs!RunningIsKept
  /\ \A i \in 1..Len(kept) : ~Runs!Going(kept[i])
  /\ \A r \in Requests : Runs!Following(r) => reader[r].run # 0

\* A request whose loop may still come, or has not ended: its bill is open.
Unsettled(r) ==
  Reading(r, "ask") \/ Reading(r, "direct") \/ OwnLoop(r) \/ RunOf(r) # {}

\* Where a request stands: what it reads was asked for, a stream belongs to a
\* request that follows, and a request pays for one run at most, which it has
\* begun to follow.
Post(r) ==
  /\ req[r].at = "reading" => req[r].kind \in Kinds /\ req[r].key \in Keys
  /\ Runs!Following(r) => req[r].at = "following"
  /\ RunOf(r) # {} => req[r].at \in {"following", "done"}
  /\ \A x, y \in RunOf(r) : x = y

\* What an open bill may say: it is charged once, the flag is up while a call
\* is on the wire and otherwise exactly if a completion was made, and what the
\* flag goes back to says that of the earlier calls.
OpenBill(b) ==
  /\ b.charged = 1 /\ b.back = 0
  /\ IF b.wire THEN b.paid /\ (b.was <=> b.made) ELSE b.paid <=> b.made

\* A bill at each place of its request.
BillRight(r) ==
  /\ req[r].at = "idle" \/ Reading(r, "resume") => bill[r] = NoBill
  /\ Reading(r, "ask") \/ Reading(r, "direct") =>
       ~bill[r].wire /\ ~bill[r].paid /\ ~bill[r].made
  /\ Unsettled(r) => OpenBill(bill[r])
  /\ ~Unsettled(r) /\ req[r].at \in {"done", "following"} =>
       (bill[r].charged > bill[r].back => bill[r].made)
  /\ bill[r].back <= bill[r].charged
  /\ bill[r].back = 1 => ~bill[r].made /\ ~bill[r].wire

\* The requests with an open bill of a day, each of which its day is charged for.
Out(d) == {r \in Requests : Unsettled(r) /\ bill[r].day = d}
Backed == \A d \in Days : IsFiniteSet(Out(d)) /\ Cardinality(Out(d)) <= admitted[d]

AskTypeOK ==
  /\ phase \in {"up", "closing"} /\ boots \in 1..MaxBoots
  /\ req \in [Requests ->
       [at : {"idle", "reading", "loop", "following", "done", "crashed"},
        kind : Kinds \cup {"none"}, key : Keys \cup {"none"}]]
  /\ bill \in [Requests ->
       [day : Days, calls : 0..MaxCalls, again : BOOLEAN, wire : BOOLEAN,
        paid : BOOLEAN, was : BOOLEAN, made : BOOLEAN, flap : BOOLEAN,
        charged : 0..1, back : Nat]]
  /\ payer \in Seq(Requests) /\ Len(payer) = Len(runs)

SInv ==
  /\ AskTypeOK /\ RunsInv /\ BInv
  /\ \A r \in Requests : Post(r) /\ BillRight(r)
  /\ Backed

-----------------------------------------------------------------------------
(* The runs *)

\* The table's types, taken apart.
LEMMA RunTypes ==
  ASSUME RunsInv
  PROVE  /\ runs \in Seq([key : Keys, steps : Nat, end : Runs!Ends])
         /\ Len(runs) \in Nat /\ Runs!Started = 1..Len(runs)
         /\ table \in [Keys -> 0..Len(runs)]
         /\ kept \in Seq(1..Len(runs)) /\ Len(kept) \in Nat
         /\ reader \in [Requests ->
              [run : 0..Len(runs), pos : Nat, tick : Nat,
               at : {"none", "out", "sent", "waiting", "finished", "left"}]]
BY DEF RunsInv, Runs!RunsTypeOK, Runs!Started

\* A run names a question and says whether it is going.
LEMMA RunRow ==
  ASSUME RunsInv, NEW x \in Runs!Started
  PROVE  /\ x \in 1..Len(runs) /\ x \in Nat /\ x # 0
         /\ runs[x] \in [key : Keys, steps : Nat, end : Runs!Ends]
         /\ runs[x].key \in Keys /\ runs[x].end \in Runs!Ends /\ runs[x].steps \in Nat
         /\ Runs!Going(x) => table[runs[x].key] = x
<1>1. x \in 1..Len(runs) /\ Len(runs) \in Nat
  BY RunTypes
<1>2. runs[x] \in [key : Keys, steps : Nat, end : Runs!Ends]
  <2> DEFINE R == [key : Keys, steps : Nat, end : Runs!Ends]
  <2>1. runs \in Seq(R)
    BY RunTypes
  <2> HIDE DEF R
  <2>2. runs[x] \in R
    BY <1>1, <2>1
  <2> QED
    BY <2>2 DEF R
<1>3. Runs!Going(x) => table[runs[x].key] = x
  BY Zenon DEF RunsInv, Runs!RunningIsKept
<1> QED
  BY <1>1, <1>2, <1>3

\* A run that is kept is over.
LEMMA KeptRow ==
  ASSUME RunsInv
  PROVE  \A i \in 1..Len(kept) : kept[i] \in 1..Len(runs) /\ runs[kept[i]].end # "going"
<1>1. kept \in Seq(1..Len(runs))
  BY RunTypes, Zenon
<1>2. \A i \in 1..Len(kept) : kept[i] \in 1..Len(runs)
  BY <1>1
<1>3. \A i \in 1..Len(kept) : runs[kept[i]].end # "going"
  BY Zenon DEF RunsInv, Runs!Going
<1> QED
  BY <1>2, <1>3

\* A stream in its loop follows a run of this process.
LEMMA FollowsRun ==
  ASSUME RunsInv
  PROVE  \A r \in Requests :
           reader[r].at \in {"out", "sent", "waiting"} => reader[r].run # 0
BY DEF RunsInv, Runs!Following

\* Sweeping drops finished runs only, and keeps the table's types.
LEMMA SweepKeeps ==
  ASSUME RunsInv, NEW n \in 0..Len(kept)
  PROVE  /\ Runs!Swept(n) \in [Keys -> 0..Len(runs)]
         /\ Runs!KeptAfter(n) \in Seq(1..Len(runs))
         /\ \A i \in 1..Len(Runs!KeptAfter(n)) : ~Runs!Going(Runs!KeptAfter(n)[i])
         /\ \A k \in Keys : Runs!Swept(n)[k] \in {0, table[k]}
         /\ \A x \in Runs!Started : Runs!Going(x) => Runs!Swept(n)[runs[x].key] = x
<1>1. \A k \in Keys : Runs!Swept(n)[k] \in {0, table[k]} /\ table[k] \in 0..Len(runs)
  BY RunTypes DEF Runs!Swept
<1>2. Runs!Swept(n) \in [Keys -> 0..Len(runs)]
  BY <1>1, RunTypes DEF Runs!Swept
<1>3. /\ Runs!KeptAfter(n) \in Seq(1..Len(runs))
      /\ \A i \in 1..Len(Runs!KeptAfter(n)) :
           n + i \in 1..Len(kept) /\ Runs!KeptAfter(n)[i] = kept[n + i]
  <2>1. kept \in Seq(1..Len(runs)) /\ Len(kept) \in Nat
    BY RunTypes
  <2>2. n + 1 \in Int /\ Len(kept) \in Int /\ \A i \in n + 1..Len(kept) : kept[i] \in 1..Len(runs)
    BY <2>1
  <2> DEFINE left == SubSeq(kept, n + 1, Len(kept))
  <2>3. /\ left \in Seq(1..Len(runs))
        /\ Len(left) = IF n + 1 <= Len(kept) THEN Len(kept) - (n + 1) + 1 ELSE 0
        /\ \A i \in 1..Len(kept) - (n + 1) + 1 : left[i] = kept[n + 1 + i - 1]
    BY <2>2, SubSeqProperties
  <2>4. \A i \in 1..Len(left) : n + i \in 1..Len(kept) /\ left[i] = kept[n + i]
    <3> HIDE DEF left
    <3> QED
      BY <2>1, <2>3
  <2> QED
    BY <2>3, <2>4 DEF Runs!KeptAfter
<1>4. \A i \in 1..Len(Runs!KeptAfter(n)) : ~Runs!Going(Runs!KeptAfter(n)[i])
  BY <1>3 DEF RunsInv
<1>5. ASSUME NEW x \in Runs!Started, Runs!Going(x)
      PROVE  Runs!Swept(n)[runs[x].key] = x
  <2>1. table[runs[x].key] = x /\ runs[x].key \in Keys
    BY <1>5, RunRow
  <2>2. \A i \in 1..n : i \in 1..Len(kept)
    BY RunTypes
  <2>3. \A i \in 1..n : kept[i] # x
    BY <1>5, <2>2, Zenon DEF RunsInv
  <2> QED
    BY <2>1, <2>3 DEF Runs!Swept
<1> QED
  BY <1>1, <1>2, <1>3, <1>4, <1>5

\* A reader that joins: no run changes, and the stream is its request's.
LEMMA JoinStep ==
  ASSUME RunsInv, NEW r \in Requests, NEW k \in Keys, Runs!Join(r, k)
  PROVE  RunsInv' /\ runs' = runs
         /\ \A q \in Requests \ {r} : reader'[q] = reader[q]
<1>1. PICK n \in 0..Len(kept) :
        /\ Runs!Swept(n)[k] # 0
        /\ table' = Runs!Swept(n) /\ kept' = Runs!KeptAfter(n)
        /\ Runs!Follows(r, table[k]) /\ runs' = runs
  BY DEF Runs!Join
<1>2. reader' \in [Requests ->
        [run : 0..Len(runs), pos : Nat, tick : Nat,
         at : {"none", "out", "sent", "waiting", "finished", "left"}]]
      /\ \A q \in Requests \ {r} : reader'[q] = reader[q]
  <2>1. table[k] \in 0..Len(runs)
    BY RunTypes
  <2> QED
    BY <1>1, <2>1, RunTypes DEF Runs!Follows, Runs!NoReader
<1>a. \A q \in Requests : reader'[q].at \in {"out", "sent", "waiting"} => reader'[q].run # 0
  <2>1. reader'[r].run # 0
    BY <1>1, RunTypes, SweepKeeps DEF Runs!Follows, Runs!NoReader
  <2> QED
    BY <2>1, <1>2, FollowsRun
<1>3. Runs!RunsTypeOK'
  BY <1>1, <1>2, SweepKeeps, RunTypes DEF Runs!RunsTypeOK
<1>4. Runs!RunningIsKept'
  <2>1. \A x \in 1..Len(runs) : runs[x].end = "going" => Runs!Swept(n)[runs[x].key] = x
    BY SweepKeeps, RunTypes DEF Runs!Going
  <2>2. \A x \in 1..Len(runs') : runs'[x].end = "going" => table'[runs'[x].key] = x
    BY <1>1, <2>1
  <2>3. DOMAIN runs' = 1..Len(runs')
    BY <1>1, RunTypes DEF Runs!Started
  <2> QED
    BY <2>2, <2>3 DEF Runs!RunningIsKept, Runs!Started, Runs!Going
<1>5. \A i \in 1..Len(kept') : runs'[kept'[i]].end # "going"
  <2>1. \A i \in 1..Len(Runs!KeptAfter(n)) : runs[Runs!KeptAfter(n)[i]].end # "going"
    BY SweepKeeps DEF Runs!Going
  <2> QED
    BY <1>1, <2>1
<1> QED
  BY <1>1, <1>2, <1>a, <1>3, <1>4, <1>5 DEF RunsInv, Runs!Going, Runs!Following

\* A resume that finds nothing only sweeps.
LEMMA MissStep ==
  ASSUME RunsInv, NEW k \in Keys, Runs!Miss(k)
  PROVE  RunsInv' /\ runs' = runs /\ reader' = reader
<1>1. PICK n \in 0..Len(kept) :
        table' = Runs!Swept(n) /\ kept' = Runs!KeptAfter(n) /\ runs' = runs /\ reader' = reader
  BY DEF Runs!Miss
<1>2. Runs!RunsTypeOK'
  BY <1>1, SweepKeeps, RunTypes DEF Runs!RunsTypeOK
<1>3. Runs!RunningIsKept'
  <2>1. \A x \in 1..Len(runs) : runs[x].end = "going" => Runs!Swept(n)[runs[x].key] = x
    BY SweepKeeps, RunTypes DEF Runs!Going
  <2>2. \A x \in 1..Len(runs') : runs'[x].end = "going" => table'[runs'[x].key] = x
    BY <1>1, <2>1
  <2>3. DOMAIN runs' = 1..Len(runs')
    BY <1>1, RunTypes DEF Runs!Started
  <2> QED
    BY <2>2, <2>3 DEF Runs!RunningIsKept, Runs!Started, Runs!Going
<1>4. \A i \in 1..Len(kept') : runs'[kept'[i]].end # "going"
  <2>1. \A i \in 1..Len(Runs!KeptAfter(n)) : runs[Runs!KeptAfter(n)[i]].end # "going"
    BY SweepKeeps DEF Runs!Going
  <2> QED
    BY <1>1, <2>1
<1> QED
  BY <1>1, <1>2, <1>3, <1>4, FollowsRun DEF RunsInv, Runs!Going, Runs!Following

\* A run that starts is the last one, and no other run of its question goes on.
LEMMA LaunchStep ==
  ASSUME RunsInv, NEW r \in Requests, NEW k \in Keys, Runs!Launch(r, k)
  PROVE  /\ RunsInv'
         /\ Len(runs') = Len(runs) + 1
         /\ runs'[Len(runs) + 1].end = "going"
         /\ \A x \in 1..Len(runs) : runs'[x] = runs[x]
         /\ \A q \in Requests \ {r} : reader'[q] = reader[q]
<1> DEFINE new == [key |-> k, steps |-> 0, end |-> "going"]
<1>1. PICK n \in 0..Len(kept) :
        /\ Runs!Swept(n)[k] = 0
        /\ runs' = Append(runs, new)
        /\ table' = [Runs!Swept(n) EXCEPT ![k] = Len(runs) + 1]
        /\ kept' = Runs!KeptAfter(n)
        /\ Runs!Follows(r, Len(runs) + 1)
  BY DEF Runs!Launch
<1>2. new \in [key : Keys, steps : Nat, end : Runs!Ends]
  BY DEF Runs!Ends
<1>3. /\ runs' \in Seq([key : Keys, steps : Nat, end : Runs!Ends])
      /\ Len(runs') = Len(runs) + 1 /\ runs'[Len(runs) + 1] = new
      /\ \A x \in 1..Len(runs) : runs'[x] = runs[x]
  <2> HIDE DEF new
  <2> QED
    BY <1>1, <1>2, RunTypes
<1>4. Len(runs) \in Nat /\ 0..Len(runs) \subseteq 0..Len(runs') /\ Len(runs) + 1 \in 0..Len(runs')
  BY <1>3, RunTypes
<1>5. table' \in [Keys -> 0..Len(runs')]
  BY <1>1, <1>4, SweepKeeps
<1>6. kept' \in Seq(1..Len(runs'))
  <2>1. Runs!KeptAfter(n) \in Seq(1..Len(runs))
    BY SweepKeeps
  <2>2. 1..Len(runs) \subseteq 1..Len(runs')
    BY <1>3, RunTypes
  <2> QED
    BY <1>1, <2>1, <2>2
<1>7. reader' \in [Requests ->
        [run : 0..Len(runs'), pos : Nat, tick : Nat,
         at : {"none", "out", "sent", "waiting", "finished", "left"}]]
      /\ \A q \in Requests \ {r} : reader'[q] = reader[q]
  BY <1>1, <1>4, RunTypes DEF Runs!Follows, Runs!NoReader
<1>a. \A q \in Requests : reader'[q].at \in {"out", "sent", "waiting"} => reader'[q].run # 0
  <2>1. reader'[r].run # 0
    BY <1>1, RunTypes DEF Runs!Follows, Runs!NoReader
  <2> QED
    BY <2>1, <1>7, FollowsRun
<1>8. Runs!RunsTypeOK'
  BY <1>3, <1>5, <1>6, <1>7 DEF Runs!RunsTypeOK, Runs!Ends
<1>9. Runs!RunningIsKept'
  <2> SUFFICES ASSUME NEW x \in 1..Len(runs) + 1, runs'[x].end = "going"
               PROVE  table'[runs'[x].key] = x
    BY <1>3, <1>8 DEF Runs!RunningIsKept, Runs!Started, Runs!Going, Runs!RunsTypeOK
  <2>1. CASE x = Len(runs) + 1
    BY <2>1, <1>1, <1>3, SweepKeeps
  <2>2. CASE x \in 1..Len(runs)
    <3>0. x \in Runs!Started /\ runs'[x] = runs[x]
      BY <2>2, <1>3, RunTypes
    <3>1. Runs!Going(x) /\ runs'[x].key = runs[x].key /\ runs[x].key \in Keys
      BY <3>0, RunRow DEF Runs!Going
    <3>2. Runs!Swept(n)[runs[x].key] = x
      BY <3>0, <3>1, SweepKeeps
    <3>3. runs[x].key # k
      BY <3>2, <2>2, <1>1
    <3> QED
      BY <3>1, <3>2, <3>3, <1>1, SweepKeeps
  <2> QED
    BY <2>1, <2>2, <1>4
<1>10. \A i \in 1..Len(kept') : runs'[kept'[i]].end # "going"
  <2> SUFFICES ASSUME NEW i \in 1..Len(kept') PROVE runs'[kept'[i]].end # "going"
    OBVIOUS
  <2>1. kept'[i] \in 1..Len(runs) /\ ~Runs!Going(kept'[i])
    BY <1>1, SweepKeeps
  <2> QED
    BY <2>1, <1>3 DEF Runs!Going
<1> QED
  BY <1>3, <1>7, <1>a, <1>8, <1>9, <1>10 DEF RunsInv, Runs!Going, Runs!Following

\* A step that only rewrites a run leaves the table of runs a table of runs.
LEMMA RunRewritten ==
  ASSUME RunsInv, NEW x \in Runs!Started, NEW entry,
         entry \in [key : Keys, steps : Nat, end : Runs!Ends],
         runs' = [runs EXCEPT ![x] = entry]
  PROVE  /\ runs' \in Seq([key : Keys, steps : Nat, end : Runs!Ends])
         /\ Len(runs') = Len(runs) /\ DOMAIN runs' = 1..Len(runs)
         /\ runs'[x] = entry
         /\ \A y \in 1..Len(runs) : y # x => runs'[y] = runs[y]
<1> DEFINE R == [key : Keys, steps : Nat, end : Runs!Ends]
<1>1. runs \in Seq(R) /\ entry \in R /\ x \in 1..Len(runs)
  BY RunTypes
<1> HIDE DEF R
<1>2. /\ runs' \in Seq(R) /\ Len(runs') = Len(runs) /\ DOMAIN runs' = 1..Len(runs)
      /\ runs'[x] = entry
      /\ \A y \in 1..Len(runs) : y # x => runs'[y] = runs[y]
  BY <1>1
<1> QED
  BY <1>2 DEF R

\* An activity line: nothing else of the run changes.
LEMMA EmitStep ==
  ASSUME RunsInv, NEW x \in Runs!Started, Runs!Emit(x)
  PROVE  /\ RunsInv' /\ Len(runs') = Len(runs) /\ reader' = reader
         /\ \A y \in 1..Len(runs) : runs'[y].end = runs[y].end
<1>1. /\ runs' = [runs EXCEPT ![x] = [runs[x] EXCEPT !.steps = @ + 1]]
      /\ table' = table /\ kept' = kept /\ reader' = reader
  BY DEF Runs!Emit
<1>2. [runs[x] EXCEPT !.steps = @ + 1] \in [key : Keys, steps : Nat, end : Runs!Ends]
  BY RunRow
<1>3. /\ runs' \in Seq([key : Keys, steps : Nat, end : Runs!Ends])
      /\ Len(runs') = Len(runs) /\ DOMAIN runs' = 1..Len(runs)
      /\ runs'[x] = [runs[x] EXCEPT !.steps = @ + 1]
      /\ \A y \in 1..Len(runs) : y # x => runs'[y] = runs[y]
  BY <1>1, <1>2, RunRewritten
<1>4. \A y \in 1..Len(runs) : runs'[y].end = runs[y].end /\ runs'[y].key = runs[y].key
  <2>1. runs'[x].end = runs[x].end /\ runs'[x].key = runs[x].key
    BY <1>3, RunRow
  <2> QED
    BY <1>3, <2>1
<1>5. Runs!RunsTypeOK'
  BY <1>1, <1>3, RunTypes DEF Runs!RunsTypeOK, Runs!Ends
<1>6. Runs!RunningIsKept'
  <2>1. \A y \in 1..Len(runs) : runs[y].end = "going" => table[runs[y].key] = y
    BY RunRow, RunTypes DEF Runs!Going
  <2> QED
    BY <2>1, <1>1, <1>3, <1>4 DEF Runs!RunningIsKept, Runs!Started, Runs!Going
<1>7. \A i \in 1..Len(kept) : kept[i] \in 1..Len(runs) /\ runs[kept[i]].end # "going"
  BY KeptRow
<1>8. \A i \in 1..Len(kept') : runs'[kept'[i]].end # "going"
  BY <1>1, <1>4, <1>7
<1> QED
  BY <1>1, <1>3, <1>4, <1>5, <1>6, <1>8, FollowsRun DEF RunsInv, Runs!Going, Runs!Following

\* The end of a run: it alone stops going, and it alone may leave the table.
LEMMA EndStep ==
  ASSUME RunsInv, NEW x \in Runs!Started, NEW how \in Runs!Ends \ {"going"}, Runs!End(x, how)
  PROVE  /\ RunsInv' /\ Len(runs') = Len(runs) /\ reader' = reader
         /\ runs[x].end = "going" /\ runs'[x].end # "going"
         /\ \A y \in 1..Len(runs) : y # x => runs'[y] = runs[y]
<1>1. /\ runs[x].end = "going" /\ reader' = reader
      /\ runs' = [runs EXCEPT ![x] = [runs[x] EXCEPT !.end = how]]
      /\ \/ table' = table /\ kept' = Append(kept, x)
         \/ /\ table' = [k \in Keys |-> IF table[k] = x THEN 0 ELSE table[k]]
            /\ kept' = kept
  BY DEF Runs!End, Runs!Going
<1>2. [runs[x] EXCEPT !.end = how] \in [key : Keys, steps : Nat, end : Runs!Ends]
  BY RunRow
<1>3. /\ runs' \in Seq([key : Keys, steps : Nat, end : Runs!Ends])
      /\ Len(runs') = Len(runs) /\ DOMAIN runs' = 1..Len(runs)
      /\ runs'[x] = [runs[x] EXCEPT !.end = how]
      /\ \A y \in 1..Len(runs) : y # x => runs'[y] = runs[y]
  BY <1>1, <1>2, RunRewritten
<1>4. x \in 1..Len(runs) /\ runs'[x].end # "going"
  BY <1>3, RunRow
<1>5. table' \in [Keys -> 0..Len(runs)] /\ \A k \in Keys : table[k] # x => table'[k] = table[k]
  BY <1>1, RunTypes
<1>6. /\ kept' \in Seq(1..Len(runs))
      /\ \A i \in 1..Len(kept') : kept'[i] = x \/ \E j \in 1..Len(kept) : kept'[i] = kept[j]
  <2>1. kept \in Seq(1..Len(runs))
    BY RunTypes, Zenon
  <2>2. Len(kept) \in Nat /\ DOMAIN kept = 1..Len(kept)
    BY <2>1
  <2>3. CASE kept' = kept
    BY <2>1, <2>2, <2>3
  <2>4. CASE kept' = Append(kept, x)
    <3>1. kept' \in Seq(1..Len(runs)) /\ Len(kept') = Len(kept) + 1
      BY <2>1, <2>4, <1>4
    <3>2. kept'[Len(kept) + 1] = x /\ \A i \in 1..Len(kept) : kept'[i] = kept[i]
      BY <2>1, <2>4, <1>4
    <3> QED
      BY <3>1, <3>2, <2>2
  <2> QED
    BY <1>1, <2>3, <2>4
<1>7. Runs!RunsTypeOK'
  BY <1>1, <1>3, <1>5, <1>6, RunTypes DEF Runs!RunsTypeOK, Runs!Ends
<1>8. Runs!RunningIsKept'
  <2> SUFFICES ASSUME NEW y \in 1..Len(runs), runs'[y].end = "going"
               PROVE  table'[runs'[y].key] = y
    BY <1>3 DEF Runs!RunningIsKept, Runs!Started, Runs!Going
  <2>1. y # x /\ runs'[y] = runs[y]
    BY <1>3, <1>4
  <2>2. y \in Runs!Started /\ Runs!Going(y)
    BY <2>1, RunTypes DEF Runs!Going
  <2>3. table[runs[y].key] = y /\ runs[y].key \in Keys
    BY <2>2, RunRow
  <2> QED
    BY <2>1, <2>3, <1>5
<1>9. \A i \in 1..Len(kept) : kept[i] \in 1..Len(runs) /\ runs[kept[i]].end # "going"
  BY KeptRow
<1>10. ASSUME NEW i \in 1..Len(kept') PROVE runs'[kept'[i]].end # "going"
  <2>1. CASE kept'[i] = x
    BY <2>1, <1>4
  <2>2. CASE kept'[i] # x
    <3>1. PICK j \in 1..Len(kept) : kept'[i] = kept[j]
      BY <2>2, <1>6
    <3>2. runs'[kept[j]] = runs[kept[j]]
      BY <3>1, <2>2, <1>3, <1>9
    <3> QED
      BY <3>1, <3>2, <1>9
  <2> QED
    BY <2>1, <2>2
<1> QED
  BY <1>1, <1>3, <1>4, <1>7, <1>8, <1>10, FollowsRun DEF RunsInv, Runs!Going, Runs!Following

\* A pass of follow() stays with its run.
LEMMA PlaceTypes ==
  ASSUME NEW h, NEW x,
         h \in [run : 0..Len(runs), pos : Nat, tick : Nat,
               at : {"none", "out", "sent", "waiting", "finished", "left"}]
  PROVE  /\ Runs!Place(h, x) \in
              [run : 0..Len(runs), pos : Nat, tick : Nat,
               at : {"none", "out", "sent", "waiting", "finished", "left"}]
         /\ Runs!Place(h, x).run = h.run
<1>1. CASE h.pos < Runs!Events(x)
  <2>1. Runs!Place(h, x) =
          [run |-> h.run, pos |-> h.pos + 1, tick |-> h.tick, at |-> "sent"]
    BY <1>1 DEF Runs!Place
  <2> QED
    BY <2>1
<1>2. CASE ~(h.pos < Runs!Events(x)) /\ ~Runs!Going(x)
  <2>1. Runs!Place(h, x) =
          [run |-> h.run, pos |-> h.pos, tick |-> 0, at |-> "finished"]
    BY <1>2 DEF Runs!Place
  <2> QED
    BY <2>1
<1>3. CASE ~(h.pos < Runs!Events(x)) /\ Runs!Going(x)
  <2>1. Runs!Place(h, x) = [h EXCEPT !.at = "waiting"]
    BY <1>3 DEF Runs!Place
  <2> QED
    BY <2>1
<1> QED
  BY <1>1, <1>2, <1>3

\* A reader that moves or leaves touches nothing but itself.
LEMMA ReaderStep ==
  ASSUME RunsInv, NEW r \in Requests, Runs!Advance(r) \/ Runs!Leave(r)
  PROVE  /\ RunsInv' /\ runs' = runs
         /\ \A q \in Requests \ {r} : reader'[q] = reader[q]
<1>1. /\ runs' = runs /\ table' = table /\ kept' = kept
      /\ \E to : reader' = [reader EXCEPT ![r] = to]
  BY DEF Runs!Advance, Runs!Leave
<1>2. \A q \in Requests \ {r} : reader'[q] = reader[q]
  BY <1>1, RunTypes
<1> DEFINE Readers == [run : 0..Len(runs), pos : Nat, tick : Nat,
               at : {"none", "out", "sent", "waiting", "finished", "left"}]
<1>3. reader \in [Requests -> Readers] /\ reader[r] \in Readers /\ Len(runs) \in Nat
  BY RunTypes
<1>4. ASSUME NEW x \in 1..Len(runs) PROVE Runs!Events(x) \in Nat
  <2>1. runs[x].steps \in Nat
    BY RunRow, RunTypes
  <2> QED
    BY <2>1 DEF Runs!Events
<1>5. reader'[r] \in Readers /\ (reader'[r].at \in {"out", "sent", "waiting"} => reader'[r].run # 0)
  <2>1. CASE Runs!Leave(r)
    BY <2>1, <1>3 DEF Runs!Leave, Runs!NoReader
  <2>2. CASE Runs!Advance(r)
    <3> DEFINE x == reader[r].run
               tick == Runs!TickOf(r)
               here == [reader[r] EXCEPT !.tick = tick]
    <3>1. Runs!Following(r) /\ reader'[r] = Runs!Place(here, x)
      BY <2>2, <1>3 DEF Runs!Advance
    <3>2. x \in 1..Len(runs)
      BY <3>1, <1>3, FollowsRun DEF Runs!Following
    <3>3. tick \in Nat
      <4>1. Runs!Wakes(x) \in Nat
        BY <3>2, <1>4 DEF Runs!Wakes
      <4> QED
        BY <4>1, <1>3 DEF Runs!TickOf
    <3>4. here \in Readers /\ here.run = x
      <4> HIDE DEF tick
      <4> QED
        BY <3>3, <1>3
    <3>5. x # 0
      BY <3>2
    <3>6. Runs!Place(here, x) \in Readers /\ Runs!Place(here, x).run = here.run
      <4> HIDE DEF here, x
      <4> QED
        BY <3>4, PlaceTypes
    <3> QED
      BY <3>1, <3>4, <3>5, <3>6
  <2> QED
    BY <2>1, <2>2
<1>6. reader' \in [Requests -> Readers]
  BY <1>1, <1>3, <1>5
<1>7. Runs!RunsTypeOK'
  BY <1>1, <1>6, RunTypes DEF Runs!RunsTypeOK
<1>8. Runs!RunningIsKept'
  BY <1>1 DEF RunsInv, Runs!RunningIsKept, Runs!Started, Runs!Going
<1>9. \A q \in Requests : reader'[q].at \in {"out", "sent", "waiting"} => reader'[q].run # 0
  BY <1>2, <1>5, FollowsRun
<1> QED
  BY <1>1, <1>2, <1>7, <1>8, <1>9 DEF RunsInv, Runs!Going, Runs!Following

-----------------------------------------------------------------------------
(* A step of one request *)

\* Nothing but request r moves.
Alone(r) ==
  \A q \in Requests \ {r} :
    /\ req'[q] = req[q] /\ bill'[q] = bill[q]
    /\ reader'[q] = reader[q] /\ RunOf(q)' = RunOf(q)

\* The parts of the invariant.
LEMMA SParts ==
  ASSUME SInv
  PROVE  /\ AskTypeOK /\ RunsInv /\ BInv /\ Backed
         /\ \A r \in Requests : Post(r) /\ BillRight(r)
BY Zenon DEF SInv

\* What a request and its bill are made of.
LEMMA AskTypes ==
  ASSUME SInv
  PROVE  /\ phase \in {"up", "closing"} /\ boots \in 1..MaxBoots
         /\ req \in [Requests ->
              [at : {"idle", "reading", "loop", "following", "done", "crashed"},
               kind : Kinds \cup {"none"}, key : Keys \cup {"none"}]]
         /\ bill \in [Requests ->
              [day : Days, calls : 0..MaxCalls, again : BOOLEAN, wire : BOOLEAN,
               paid : BOOLEAN, was : BOOLEAN, made : BOOLEAN, flap : BOOLEAN,
               charged : 0..1, back : Nat]]
         /\ payer \in Seq(Requests) /\ Len(payer) = Len(runs)
         /\ Len(runs) \in Nat /\ DOMAIN runs = 1..Len(runs)
         /\ DOMAIN payer = 1..Len(runs)
         /\ day \in Days /\ admitted \in [Days -> Int]
<1>1. AskTypeOK /\ RunsInv /\ BInv
  BY SParts
<1>2. payer \in Seq(Requests) /\ Len(payer) = Len(runs)
  BY <1>1, Zenon DEF AskTypeOK
<1>3. Len(runs) \in Nat /\ DOMAIN runs = 1..Len(runs)
  BY <1>1, RunTypes DEF Runs!Started
<1>4. DOMAIN payer = 1..Len(runs)
  BY <1>2
<1>5. day \in Days /\ admitted \in [Days -> Int]
  BY <1>1, Parts, Types
<1> QED
  BY <1>1, <1>2, <1>3, <1>4, <1>5, Zenon DEF AskTypeOK

\* A bill has its fields.
LEMMA BillFields ==
  ASSUME SInv, NEW r \in Requests
  PROVE  /\ bill[r] \in
              [day : Days, calls : 0..MaxCalls, again : BOOLEAN, wire : BOOLEAN,
               paid : BOOLEAN, was : BOOLEAN, made : BOOLEAN, flap : BOOLEAN,
               charged : 0..1, back : Nat]
         /\ req[r] \in
              [at : {"idle", "reading", "loop", "following", "done", "crashed"},
               kind : Kinds \cup {"none"}, key : Keys \cup {"none"}]
BY AskTypes

\* Whoever is still reading, or has not come, pays for no run and has no stream.
LEMMA NoRunYet ==
  ASSUME SInv, NEW r \in Requests, req[r].at \in {"idle", "reading", "loop", "crashed"}
  PROVE  RunOf(r) = {} /\ ~Runs!Following(r)
<1>1. Post(r)
  BY SParts
<1> QED
  BY <1>1 DEF Post

\* A loop goes on for a request past its body: its own, or a run's.
LEMMA LoopPlace ==
  ASSUME SInv, NEW r \in Requests, OwnLoop(r) \/ RunOf(r) # {}
  PROVE  /\ Unsettled(r) /\ OpenBill(bill[r])
         /\ req[r].at \in {"loop", "following", "done"}
         /\ OwnLoop(r) <=> RunOf(r) = {}
<1>1. Unsettled(r)
  BY DEF Unsettled
<1>2. Post(r) /\ BillRight(r)
  BY SParts
<1> QED
  BY <1>1, <1>2 DEF Post, BillRight, OwnLoop

\* The runs a request pays for are those it paid for, while none starts or ends.
LEMMA RunOfSame ==
  ASSUME SInv, payer' = payer, DOMAIN runs' = DOMAIN runs,
         \A y \in 1..Len(runs) : runs'[y].end = runs[y].end
  PROVE  \A q \in Requests : RunOf(q)' = RunOf(q)
<1>1. DOMAIN runs = 1..Len(runs)
  BY AskTypes
<1> QED
  BY <1>1 DEF RunOf, Runs!Started, Runs!Going

\* A request that stays where it was keeps its place and its bill.
LEMMA OthersKept ==
  ASSUME SInv, NEW r \in Requests, Alone(r), NEW q \in Requests \ {r}
  PROVE  Post(q)' /\ BillRight(q)' /\ Unsettled(q)' = Unsettled(q)
<1>1. /\ req'[q] = req[q] /\ bill'[q] = bill[q]
      /\ reader'[q] = reader[q] /\ RunOf(q)' = RunOf(q)
  BY DEF Alone
<1>2. Post(q) /\ BillRight(q)
  BY SParts
<1>3. Unsettled(q)' = Unsettled(q)
  BY <1>1 DEF Unsettled, Reading, OwnLoop
<1>4. Post(q)'
  BY <1>1, <1>2 DEF Post, Runs!Following
<1>5. BillRight(q)'
  BY <1>1, <1>2, <1>3 DEF BillRight, Reading, OpenBill
<1> QED
  BY <1>3, <1>4, <1>5

\* The open bills of the other requests are the same ones.
LEMMA OthersOut ==
  ASSUME SInv, NEW r \in Requests, Alone(r), NEW d
  PROVE  \A q \in Requests \ {r} : q \in Out(d)' <=> q \in Out(d)
<1>1. \A q \in Requests \ {r} : (Unsettled(q)' = Unsettled(q)) /\ bill'[q] = bill[q]
  BY OthersKept DEF Alone
<1> QED
  BY <1>1 DEF Out

\* A day with no new open bill, and no fewer charges, is charged for them all.
LEMMA BackedShrinks ==
  ASSUME SInv, \A d \in Days : Out(d)' \subseteq Out(d), admitted' = admitted
  PROVE  Backed'
<1> SUFFICES ASSUME NEW d \in Days
             PROVE  (IsFiniteSet(Out(d)) /\ Cardinality(Out(d)) <= admitted[d])'
  BY DEF Backed
<1>1. IsFiniteSet(Out(d)) /\ Cardinality(Out(d)) <= admitted[d] /\ admitted[d] \in Int
  BY SParts, AskTypes DEF Backed
<1>2. IsFiniteSet(Out(d)') /\ Cardinality(Out(d)') <= Cardinality(Out(d))
  BY <1>1, FS_Subset
<1>3. Cardinality(Out(d)') \in Nat /\ Cardinality(Out(d)) \in Nat
  BY <1>1, <1>2, FS_CardinalityType
<1> QED
  BY <1>1, <1>2, <1>3

\* So it is after a step of one request that opens no bill and keeps its day.
LEMMA BackedKept ==
  ASSUME SInv, NEW r \in Requests, Alone(r), admitted' = admitted,
         Unsettled(r)' => Unsettled(r) /\ bill'[r].day = bill[r].day
  PROVE  Backed'
<1>1. ASSUME NEW d \in Days PROVE Out(d)' \subseteq Out(d)
  <2>1. \A q \in Out(d)' : q \in Requests
    BY DEF Out
  <2>2. r \in Out(d)' => r \in Out(d)
    BY DEF Out
  <2> QED
    BY <2>1, <2>2, OthersOut
<1> QED
  BY <1>1, BackedShrinks

\* One more open bill of today is one more charge of today.
LEMMA BackedGrows ==
  ASSUME SInv, NEW r \in Requests, Alone(r), r \notin Out(day),
         bill'[r].day = day, admitted' = [admitted EXCEPT ![day] = @ + 1]
  PROVE  Backed'
<1> SUFFICES ASSUME NEW d \in Days
             PROVE  (IsFiniteSet(Out(d)) /\ Cardinality(Out(d)) <= admitted[d])'
  BY DEF Backed
<1>1. IsFiniteSet(Out(d)) /\ Cardinality(Out(d)) <= admitted[d] /\ admitted[d] \in Int
  BY SParts, AskTypes DEF Backed
<1>2. Out(d)' \subseteq IF d = day THEN Out(d) \cup {r} ELSE Out(d)
  <2>1. r \in Out(d)' => d = day
    BY DEF Out
  <2>2. \A q \in Out(d)' : q \in Requests
    BY DEF Out
  <2> QED
    BY <2>1, <2>2, OthersOut
<1>3. IsFiniteSet(Out(d) \cup {r}) /\ Cardinality(Out(d) \cup {r}) \in Nat /\ Cardinality(Out(d)) \in Nat
  BY <1>1, FS_AddElement, FS_CardinalityType
<1>4. d = day => Cardinality(Out(d) \cup {r}) = Cardinality(Out(d)) + 1
  BY <1>1, FS_AddElement
<1>5. IsFiniteSet(Out(d)') /\ Cardinality(Out(d)') \in Nat
      /\ Cardinality(Out(d)') <= IF d = day THEN Cardinality(Out(d)) + 1 ELSE Cardinality(Out(d))
  <2>1. CASE d = day
    BY <2>1, <1>2, <1>3, <1>4, FS_Subset, FS_CardinalityType
  <2>2. CASE d # day
    BY <2>2, <1>1, <1>2, FS_Subset, FS_CardinalityType
  <2> QED
    BY <2>1, <2>2
<1>6. admitted'[d] = IF d = day THEN admitted[d] + 1 ELSE admitted[d]
  BY AskTypes
<1> QED
  BY <1>1, <1>3, <1>5, <1>6

\* A bill that is given back was open, so its day has a charge to give back.
LEMMA BackedGives ==
  ASSUME SInv, NEW r \in Requests, Unsettled(r), NEW e, e = bill[r].day
  PROVE  e \in Days /\ admitted[e] > 0
<1>1. e \in Days /\ r \in Out(e)
  BY BillFields DEF Out
<1>2. IsFiniteSet(Out(e)) /\ Cardinality(Out(e)) <= admitted[e] /\ admitted[e] \in Int
  BY <1>1, SParts, AskTypes DEF Backed
<1>3. Cardinality(Out(e)) \in Nat /\ Cardinality(Out(e)) # 0
  BY <1>1, <1>2, FS_CardinalityType, FS_EmptySet
<1> QED
  BY <1>1, <1>2, <1>3

\* And with the charge goes the bill.
LEMMA BackedAfter ==
  ASSUME SInv, NEW r \in Requests, Alone(r), Unsettled(r), ~Unsettled(r)',
         NEW e, e = bill[r].day, admitted' = [admitted EXCEPT ![e] = @ - 1]
  PROVE  Backed'
<1> SUFFICES ASSUME NEW d \in Days
             PROVE  (IsFiniteSet(Out(d)) /\ Cardinality(Out(d)) <= admitted[d])'
  BY DEF Backed
<1>1. IsFiniteSet(Out(d)) /\ Cardinality(Out(d)) <= admitted[d] /\ admitted[d] \in Int
  BY SParts, AskTypes DEF Backed
<1>2. r \in Out(e) /\ e \in Days
  BY BillFields DEF Out
<1>3. Out(d)' \subseteq Out(d) \ {r}
  <2>1. r \notin Out(d)'
    BY DEF Out
  <2>2. \A q \in Out(d)' : q \in Requests
    BY DEF Out
  <2> QED
    BY <2>1, <2>2, OthersOut
<1>4. IsFiniteSet(Out(d) \ {r}) /\ Cardinality(Out(d)) \in Nat /\ Cardinality(Out(d) \ {r}) \in Nat
  BY <1>1, FS_RemoveElement, FS_CardinalityType
<1>5. Cardinality(Out(d) \ {r}) = IF d = e THEN Cardinality(Out(d)) - 1 ELSE Cardinality(Out(d) \ {r})
  BY <1>1, <1>2, FS_RemoveElement
<1>6. Cardinality(Out(d) \ {r}) <= Cardinality(Out(d))
  BY <1>1, FS_Subset
<1>7. IsFiniteSet(Out(d)') /\ Cardinality(Out(d)') \in Nat /\ Cardinality(Out(d)') <= Cardinality(Out(d) \ {r})
  BY <1>3, <1>4, FS_Subset, FS_CardinalityType
<1>8. admitted'[d] = IF d = e THEN admitted[d] - 1 ELSE admitted[d]
  BY AskTypes
<1> QED
  BY <1>1, <1>4, <1>5, <1>6, <1>7, <1>8

\* A step of one request keeps the invariant if it keeps that request's.
LEMMA AloneStep ==
  ASSUME SInv, NEW r \in Requests, Alone(r), AskTypeOK', RunsInv', Backed',
         [BudgetNext]_budgetVars, Post(r)', BillRight(r)'
  PROVE  SInv'
<1>1. \A q \in Requests : Post(q)' /\ BillRight(q)'
  BY OthersKept
<1>2. BInv'
  BY SParts, BudgetStep, AskAssumption DEF BudgetConstants
<1> QED
  BY <1>1, <1>2, Zenon DEF SInv

-----------------------------------------------------------------------------
(* Settling a bill *)

Bill ==
  [day : Days, calls : 0..MaxCalls, again : BOOLEAN, wire : BOOLEAN,
   paid : BOOLEAN, was : BOOLEAN, made : BOOLEAN, flap : BOOLEAN,
   charged : 0..1, back : Nat]

\* A closed bill: given back only if no completion was made, and kept only if
\* one was.
ClosedBill(b) ==
  /\ b.charged > b.back => b.made
  /\ b.back <= b.charged
  /\ b.back = 1 => ~b.made /\ ~b.wire

\* What is left of a bill is a bill.
LEMMA OverFields ==
  ASSUME NEW b \in Bill
  PROVE  /\ Over(b) \in Bill
         /\ Over(b).made = (b.made \/ b.wire) /\ Over(b).wire = FALSE
         /\ Over(b).charged = b.charged /\ Over(b).back = b.back
         /\ b = NoBill => Over(b) = NoBill
<1>1. 0 \in Days /\ 0 \in 0..MaxCalls
  BY AskAssumption DEF Days
<1>2. Over(b) = [day |-> 0, calls |-> 0, again |-> FALSE, wire |-> FALSE, paid |-> FALSE,
                 was |-> FALSE, made |-> b.made \/ b.wire, flap |-> FALSE,
                 charged |-> b.charged, back |-> b.back]
  <2> DEFINE N == [day |-> 0, calls |-> 0, again |-> FALSE, wire |-> FALSE, paid |-> FALSE,
                   was |-> FALSE, made |-> FALSE, flap |-> FALSE, charged |-> 0, back |-> 0]
  <2>1. Over(b) = [[[N EXCEPT !.made = b.made \/ b.wire] EXCEPT !.charged = b.charged]
                     EXCEPT !.back = b.back]
    BY Zenon DEF Over, NoBill
  <2> QED
    BY <2>1
<1>3. (b.made \/ b.wire) \in BOOLEAN /\ b.charged \in 0..1 /\ b.back \in Nat
  BY DEF Bill
<1>4. b = NoBill => Over(b) = NoBill
  <2> SUFFICES ASSUME b = NoBill PROVE Over(b) = NoBill
    OBVIOUS
  <2>1. (b.made \/ b.wire) = FALSE /\ b.charged = 0 /\ b.back = 0
    BY DEF NoBill
  <2> QED
    BY <1>2, <2>1 DEF NoBill
<1> QED
  BY <1>1, <1>2, <1>3, <1>4 DEF Bill

\* A bill that was nobody's to pay is given back once, on the day it was charged.
LEMMA GivesBackStep ==
  ASSUME SInv, NEW r \in Requests, Unsettled(r), ~bill[r].made, ~bill[r].wire, GivesBack(r)
  PROVE  /\ [BudgetNext]_budgetVars
         /\ bill' \in [Requests -> Bill] /\ \A q \in Requests \ {r} : bill'[q] = bill[q]
         /\ ClosedBill(bill'[r])
         /\ Alone(r) /\ ~Unsettled(r)' => Backed'
<1> DEFINE b == bill[r]
<1>1. b \in Bill /\ bill \in [Requests -> Bill]
  BY AskTypes, BillFields DEF Bill
<1>2. b.charged = 1 /\ b.back = 0
  BY SParts DEF BillRight, OpenBill
<1>3. /\ Refund(b.day)
      /\ bill' = [bill EXCEPT ![r] = [Over(b) EXCEPT !.back = @ + 1]]
  <2>1. Over(b).charged = 1
    BY <1>1, <1>2, OverFields
  <2> QED
    BY <2>1 DEF GivesBack
<1>4. b.day \in Days /\ admitted[b.day] > 0
  BY BackedGives
<1>5. [BudgetNext]_budgetVars
  BY <1>3, <1>4 DEF BudgetNext
<1>6. admitted' = [admitted EXCEPT ![b.day] = @ - 1]
  BY <1>3 DEF Refund
<1>7. Alone(r) /\ ~Unsettled(r)' => Backed'
  BY <1>6, BackedAfter
<1>8. /\ [Over(b) EXCEPT !.back = @ + 1] \in Bill
      /\ [Over(b) EXCEPT !.back = @ + 1].back = 1
      /\ [Over(b) EXCEPT !.back = @ + 1].charged = 1
      /\ [Over(b) EXCEPT !.back = @ + 1].made = FALSE /\ [Over(b) EXCEPT !.back = @ + 1].wire = FALSE
  <2>1. /\ Over(b) \in Bill /\ Over(b).charged = 1 /\ Over(b).back = 0
        /\ Over(b).made = FALSE /\ Over(b).wire = FALSE
    BY <1>1, <1>2, OverFields
  <2> HIDE DEF b
  <2> QED
    BY <2>1 DEF Bill
<1>9. /\ bill' \in [Requests -> Bill] /\ \A q \in Requests \ {r} : bill'[q] = bill[q]
      /\ bill'[r] = [Over(b) EXCEPT !.back = @ + 1]
  <2> DEFINE c == [Over(b) EXCEPT !.back = @ + 1]
  <2>1. c \in Bill /\ bill' = [bill EXCEPT ![r] = c]
    BY <1>3, <1>8
  <2> HIDE DEF c
  <2>2. /\ bill' \in [Requests -> Bill] /\ \A q \in Requests \ {r} : bill'[q] = bill[q]
        /\ bill'[r] = c
    BY <2>1, <1>1
  <2> QED
    BY <2>2 DEF c
<1>10. ClosedBill(bill'[r])
  BY <1>8, <1>9 DEF ClosedBill
<1> QED
  BY <1>5, <1>7, <1>9, <1>10

\* A bill that stays: its day keeps what it bought.
LEMMA StaysStep ==
  ASSUME SInv, NEW r \in Requests,
         bill[r].charged > bill[r].back => bill[r].made \/ bill[r].wire, bill[r].back = 0,
         bill' = [bill EXCEPT ![r] = Over(bill[r])], UNCHANGED budgetVars
  PROVE  /\ [BudgetNext]_budgetVars
         /\ bill' \in [Requests -> Bill] /\ \A q \in Requests \ {r} : bill'[q] = bill[q]
         /\ ClosedBill(bill'[r])
         /\ Alone(r) /\ ~Unsettled(r)' => Backed'
<1>1. bill[r] \in Bill /\ bill \in [Requests -> Bill]
  BY AskTypes, BillFields DEF Bill
<1>2. /\ Over(bill[r]) \in Bill /\ Over(bill[r]).made = (bill[r].made \/ bill[r].wire)
      /\ Over(bill[r]).charged = bill[r].charged /\ Over(bill[r]).back = bill[r].back
      /\ Over(bill[r]).wire = FALSE
  BY <1>1, OverFields
<1>3. /\ bill' \in [Requests -> Bill] /\ \A q \in Requests \ {r} : bill'[q] = bill[q]
      /\ bill'[r] = Over(bill[r])
  BY <1>1, <1>2
<1>4. ClosedBill(bill'[r])
  <2>1. /\ bill[r].charged \in 0..1 /\ bill[r].made \in BOOLEAN /\ bill[r].wire \in BOOLEAN
    BY <1>1 DEF Bill
  <2>2. /\ Over(bill[r]).charged > Over(bill[r]).back => Over(bill[r]).made
        /\ Over(bill[r]).back = 0 /\ Over(bill[r]).charged \in 0..1
    BY <1>2, <2>1
  <2> QED
    BY <1>3, <2>2 DEF ClosedBill
<1>5. Alone(r) /\ ~Unsettled(r)' => Backed'
  <2> SUFFICES ASSUME Alone(r), ~Unsettled(r)' PROVE Backed'
    OBVIOUS
  <2>1. admitted' = admitted
    BY DEF budgetVars, history
  <2> QED
    BY <2>1, BackedKept
<1> QED
  BY <1>3, <1>4, <1>5

\* Each of the three places that settle closes the bill of its request.
LEMMA SettlesStep ==
  ASSUME SInv, NEW r \in Requests, Unsettled(r) \/ bill[r] = NoBill, Settles(r)
  PROVE  /\ [BudgetNext]_budgetVars
         /\ bill' \in [Requests -> Bill] /\ \A q \in Requests \ {r} : bill'[q] = bill[q]
         /\ ClosedBill(bill'[r])
         /\ Alone(r) /\ ~Unsettled(r)' => Backed'
<1>1. bill[r].paid \in BOOLEAN
  BY BillFields
<1>2. CASE bill[r] = NoBill
  <2>1. bill[r].charged = 0 /\ bill[r].back = 0 /\ bill[r].paid = FALSE
    BY <1>2 DEF NoBill
  <2>2. Over(bill[r]).charged = 0
    BY <2>1, BillFields, OverFields DEF Bill
  <2>3. bill' = [bill EXCEPT ![r] = Over(bill[r])] /\ UNCHANGED budgetVars
    BY <2>1, <2>2 DEF Settles, GivesBack
  <2>4. ~(bill[r].charged > bill[r].back)
    BY <2>1
  <2> QED
    BY <2>1, <2>3, <2>4, StaysStep, Zenon
<1>3. CASE Unsettled(r) /\ bill[r].paid
  <2>1. bill[r].back = 0 /\ (bill[r].made \/ bill[r].wire)
    BY <1>3, SParts DEF BillRight, OpenBill
  <2> QED
    BY <1>3, <2>1, StaysStep DEF Settles
<1>4. CASE Unsettled(r) /\ ~bill[r].paid
  <2>1. ~bill[r].made /\ ~bill[r].wire
    BY <1>4, SParts DEF BillRight, OpenBill
  <2> QED
    BY <1>4, <2>1, GivesBackStep DEF Settles
<1> QED
  BY <1>1, <1>2, <1>3, <1>4

-----------------------------------------------------------------------------
(* What each action does: it keeps the invariant, and is the budget's own *)

\* A step of AskBudget that keeps the invariant of the service.
Good == SInv' /\ [BudgetNext]_budgetVars

\* A request that goes somewhere is still a request.
LEMMA GoesTypes ==
  ASSUME SInv, NEW r \in Requests,
         NEW where \in {"idle", "reading", "loop", "following", "done", "crashed"},
         Goes(r, where)
  PROVE  /\ req' \in [Requests ->
              [at : {"idle", "reading", "loop", "following", "done", "crashed"},
               kind : Kinds \cup {"none"}, key : Keys \cup {"none"}]]
         /\ \A q \in Requests \ {r} : req'[q] = req[q]
         /\ req'[r].at = where
<1>1. At(where) \in
        [at : {"idle", "reading", "loop", "following", "done", "crashed"},
         kind : Kinds \cup {"none"}, key : Keys \cup {"none"}]
      /\ At(where).at = where
  BY DEF At
<1>2. req' = [req EXCEPT ![r] = At(where)]
  BY DEF Goes
<1> QED
  BY <1>1, <1>2, AskTypes

\* No run starts or ends.
LEMMA RunOfUnchanged ==
  ASSUME SInv, payer' = payer, runs' = runs
  PROVE  \A q \in Requests : RunOf(q)' = RunOf(q)
BY DEF RunOf, Runs!Started, Runs!Going

\* The limiter lets an ask through, or a resume comes: nothing else knows it yet.
LEMMA ArrivesGood ==
  ASSUME SInv, NEW r \in Requests, Arrives(r)
  PROVE  Good
<1>1. PICK want \in Wants[r] :
        /\ req[r].at = "idle"
        /\ req' = [req EXCEPT ![r] = [at |-> "reading", kind |-> want[1], key |-> want[2]]]
        /\ IF want[1] = "resume"
           THEN UNCHANGED <<bill, budgetVars>>
           ELSE Charge(day) /\ bill' = [bill EXCEPT ![r] = [NoBill EXCEPT !.day = day, !.charged = 1]]
        /\ UNCHANGED <<phase, boots, payer, runsVars>>
  BY DEF Arrives
<1>2. want[1] \in Kinds /\ want[2] \in Keys
  BY AskAssumption
<1>3. /\ req' \in [Requests ->
           [at : {"idle", "reading", "loop", "following", "done", "crashed"},
            kind : Kinds \cup {"none"}, key : Keys \cup {"none"}]]
      /\ \A q \in Requests \ {r} : req'[q] = req[q]
      /\ req'[r].at = "reading" /\ req'[r].kind = want[1] /\ req'[r].key = want[2]
  <2> DEFINE new == [at |-> "reading", kind |-> want[1], key |-> want[2]]
  <2>1. new \in [at : {"idle", "reading", "loop", "following", "done", "crashed"},
                 kind : Kinds \cup {"none"}, key : Keys \cup {"none"}]
        /\ new.at = "reading" /\ new.kind = want[1] /\ new.key = want[2]
    BY <1>2
  <2>2. req' = [req EXCEPT ![r] = new]
    BY <1>1
  <2> HIDE DEF new
  <2> QED
    BY <2>1, <2>2, AskTypes
<1>4. runs' = runs /\ table' = table /\ kept' = kept /\ reader' = reader
      /\ payer' = payer /\ phase' = phase /\ boots' = boots
  BY <1>1 DEF runsVars
<1>5. \A q \in Requests : RunOf(q)' = RunOf(q)
  BY <1>4, RunOfUnchanged
<1>6. RunsInv'
  BY <1>4, SParts DEF RunsInv, Runs!RunsTypeOK, Runs!RunningIsKept, Runs!Started, Runs!Going, Runs!Following
<1>7. RunOf(r) = {} /\ ~Runs!Following(r) /\ bill[r] = NoBill /\ ~Unsettled(r)
  <2>1. RunOf(r) = {} /\ ~Runs!Following(r)
    BY <1>1, NoRunYet
  <2>2. bill[r] = NoBill
    BY <1>1, SParts DEF BillRight
  <2> QED
    BY <2>1, <2>2, <1>1 DEF Unsettled, Reading, OwnLoop
<1>8. Post(r)'
  BY <1>2, <1>3, <1>4, <1>5, <1>7 DEF Post, Runs!Following
<1>9. CASE want[1] = "resume"
  <2>1. UNCHANGED <<bill, budgetVars>>
    BY <1>1, <1>9
  <2>2. Alone(r)
    BY <2>1, <1>3, <1>4, <1>5 DEF Alone
  <2>3. AskTypeOK'
    BY <2>1, <1>3, <1>4, AskTypes DEF AskTypeOK
  <2>4. ~Unsettled(r)'
    BY <1>3, <1>5, <1>7, <1>9 DEF Unsettled, Reading, OwnLoop
  <2>5. BillRight(r)'
    <3>1. bill'[r] = NoBill
      BY <2>1, <1>7
    <3> QED
      BY <3>1, <2>4 DEF BillRight, NoBill
  <2>6. Backed'
    BY <2>1, <2>2, <2>4, BackedKept DEF budgetVars, history
  <2> QED
    BY <2>1, <2>2, <2>3, <2>5, <2>6, <1>6, <1>8, AloneStep DEF Good
<1>10. CASE want[1] # "resume"
  <2> DEFINE new == [NoBill EXCEPT !.day = day, !.charged = 1]
  <2>1. Charge(day) /\ bill' = [bill EXCEPT ![r] = new]
    BY <1>1, <1>10
  <2>2. /\ new \in Bill /\ new.day = day
        /\ OpenBill(new) /\ ~new.wire /\ ~new.paid /\ ~new.made
    <3>1. new = [day |-> day, calls |-> 0, again |-> FALSE, wire |-> FALSE, paid |-> FALSE,
                 was |-> FALSE, made |-> FALSE, flap |-> FALSE, charged |-> 1, back |-> 0]
      <4>1. new = [[NoBill EXCEPT !.day = day] EXCEPT !.charged = 1]
        BY Zenon
      <4> HIDE DEF new
      <4> QED
        BY <4>1 DEF NoBill
    <3>2. day \in Days /\ 0 \in 0..MaxCalls
      BY AskTypes, AskAssumption
    <3> HIDE DEF new
    <3> QED
      BY <3>1, <3>2 DEF Bill, OpenBill
  <2> HIDE DEF new
  <2>3. /\ bill' \in [Requests -> Bill] /\ bill'[r] = new
        /\ \A q \in Requests \ {r} : bill'[q] = bill[q]
    BY <2>1, <2>2, AskTypes DEF Bill
  <2>4. Alone(r)
    BY <2>3, <1>3, <1>4, <1>5 DEF Alone
  <2>5. AskTypeOK'
    BY <2>3, <1>3, <1>4, AskTypes DEF AskTypeOK, Bill
  <2>6. Unsettled(r)'
    BY <1>2, <1>3, <1>10 DEF Unsettled, Reading, Kinds
  <2>7. BillRight(r)'
    <3>1. ~(req'[r].at = "idle" \/ Reading(r, "resume")')
      BY <1>3, <1>10 DEF Reading
    <3>2. new.back <= new.charged /\ ~(new.back = 1)
      BY <2>2 DEF OpenBill
    <3> QED
      BY <3>1, <3>2, <2>2, <2>3, <2>6, <1>3 DEF BillRight
  <2>8. Backed'
    <3>1. r \notin Out(day) /\ bill'[r].day = day
      BY <1>7, <2>2, <2>3 DEF Out
    <3>2. admitted' = [admitted EXCEPT ![day] = @ + 1]
      BY <2>1 DEF Charge
    <3> QED
      BY <3>1, <3>2, <2>4, BackedGrows
  <2>9. [BudgetNext]_budgetVars
    BY <2>1 DEF BudgetNext
  <2> QED
    BY <2>4, <2>5, <2>7, <2>8, <2>9, <1>6, <1>8, AloneStep DEF Good
<1> QED
  BY <1>9, <1>10

\* A request whose loop is over, or was never to be, and whose bill is closed.
LEMMA ClosedGood ==
  ASSUME SInv, NEW r \in Requests, Alone(r), AskTypeOK', RunsInv', [BudgetNext]_budgetVars,
         ~Unsettled(r)' => Backed',
         RunOf(r)' = {}, req'[r].at \in {"done", "following"},
         reader'[r].at \in {"out", "sent", "waiting"} => req'[r].at = "following",
         ClosedBill(bill'[r])
  PROVE  Good
<1>1. ~Unsettled(r)'
  BY DEF Unsettled, Reading, OwnLoop
<1>2. Post(r)'
  BY DEF Post, Runs!Following
<1>3. BillRight(r)'
  BY <1>1 DEF BillRight, ClosedBill, Reading
<1> QED
  BY <1>1, <1>2, <1>3, AloneStep DEF Good

\* What stays as it was keeps the table of runs.
LEMMA RunsUnchanged ==
  ASSUME SInv, UNCHANGED runsVars
  PROVE  RunsInv' /\ runs' = runs /\ reader' = reader
<1>1. runs' = runs /\ table' = table /\ kept' = kept /\ reader' = reader
  BY DEF runsVars
<1> QED
  BY <1>1, SParts
     DEF RunsInv, Runs!RunsTypeOK, Runs!RunningIsKept, Runs!Started, Runs!Going, Runs!Following

\* 429: nothing was charged.
LEMMA RefusedGood ==
  ASSUME SInv, NEW r \in Requests, Refused(r)
  PROVE  Good
<1>1. /\ req[r].at = "idle" /\ Refuse(day) /\ Goes(r, "done")
      /\ UNCHANGED <<phase, boots, bill, payer, runsVars>>
  BY DEF Refused
<1>2. RunsInv' /\ runs' = runs /\ reader' = reader
  BY <1>1, RunsUnchanged
<1>3. \A q \in Requests : RunOf(q)' = RunOf(q)
  BY <1>1, <1>2, RunOfUnchanged
<1>4. Alone(r)
  BY <1>1, <1>2, <1>3, GoesTypes DEF Alone
<1>5. AskTypeOK'
  BY <1>1, <1>2, GoesTypes, AskTypes DEF AskTypeOK
<1>6. RunOf(r) = {} /\ ~Runs!Following(r) /\ bill[r] = NoBill
  BY <1>1, NoRunYet, SParts DEF BillRight
<1>7. ClosedBill(bill'[r])
  BY <1>1, <1>6 DEF ClosedBill, NoBill
<1>8. [BudgetNext]_budgetVars /\ admitted' = admitted
  BY <1>1 DEF BudgetNext, Refuse, history
<1>9. req'[r].at = "done"
  BY <1>1, GoesTypes
<1>10. Backed'
  <2>1. ~Unsettled(r)'
    BY <1>3, <1>6, <1>9 DEF Unsettled, Reading, OwnLoop
  <2> QED
    BY <2>1, <1>4, <1>8, BackedKept
<1>11. RunOf(r)' = {} /\ ~(reader'[r].at \in {"out", "sent", "waiting"})
  BY <1>2, <1>3, <1>6 DEF Runs!Following
<1> QED
  BY <1>2, <1>4, <1>5, <1>7, <1>8, <1>9, <1>10, <1>11, ClosedGood

\* A body is read of an ask whose bill is open, or of a resume that has none.
LEMMA ReadingBill ==
  ASSUME SInv, NEW r \in Requests, NEW kind \in Kinds, Reading(r, kind)
  PROVE  /\ RunOf(r) = {} /\ ~Runs!Following(r) /\ req[r].key \in Keys
         /\ kind = "resume" => bill[r] = NoBill /\ ~Unsettled(r)
         /\ kind # "resume" => Unsettled(r) /\ ~bill[r].wire /\ ~bill[r].paid /\ ~bill[r].made
<1>1. req[r].at = "reading" /\ req[r].kind = kind
  BY DEF Reading
<1>2. Post(r) /\ BillRight(r)
  BY SParts
<1>3. RunOf(r) = {} /\ ~Runs!Following(r)
  BY <1>1, NoRunYet
<1>4. req[r].key \in Keys
  BY <1>1, <1>2 DEF Post
<1>5. kind = "resume" => bill[r] = NoBill /\ ~Unsettled(r)
  BY <1>1, <1>2, <1>3 DEF BillRight, Unsettled, Reading, OwnLoop
<1>6. kind # "resume" => Unsettled(r) /\ ~bill[r].wire /\ ~bill[r].paid /\ ~bill[r].made
  BY <1>1, <1>2 DEF BillRight, Unsettled, Reading, Kinds
<1> QED
  BY <1>3, <1>4, <1>5, <1>6

\* 400: the bill is closed before any run or loop knew it.
LEMMA BadBodyGood ==
  ASSUME SInv, NEW r \in Requests, BadBody(r)
  PROVE  Good
<1>1. PICK kind \in Kinds : Reading(r, kind)
  BY DEF BadBody
<1>2. Settles(r) /\ Goes(r, "done") /\ UNCHANGED <<phase, boots, payer, runsVars>>
  BY DEF BadBody
<1>3. RunOf(r) = {} /\ ~Runs!Following(r) /\ (Unsettled(r) \/ bill[r] = NoBill)
  BY <1>1, ReadingBill
<1>4. RunsInv' /\ runs' = runs /\ reader' = reader
  BY <1>2, RunsUnchanged
<1>5. \A q \in Requests : RunOf(q)' = RunOf(q)
  BY <1>2, <1>4, RunOfUnchanged
<1>6. /\ [BudgetNext]_budgetVars
      /\ bill' \in [Requests -> Bill] /\ \A q \in Requests \ {r} : bill'[q] = bill[q]
      /\ ClosedBill(bill'[r])
      /\ Alone(r) /\ ~Unsettled(r)' => Backed'
  BY <1>2, <1>3, SettlesStep
<1>7. Alone(r)
  BY <1>2, <1>4, <1>5, <1>6, GoesTypes DEF Alone
<1>8. AskTypeOK'
  BY <1>2, <1>4, <1>6, GoesTypes, AskTypes DEF AskTypeOK, Bill
<1>9. req'[r].at = "done"
  BY <1>2, GoesTypes
<1>10. RunOf(r)' = {} /\ ~(reader'[r].at \in {"out", "sent", "waiting"})
  BY <1>3, <1>4, <1>5 DEF Runs!Following
<1> QED
  BY <1>4, <1>6, <1>7, <1>8, <1>9, <1>10, ClosedGood

\* The question has a run: the ask follows it, and pays nothing.
LEMMA AskJoinsGood ==
  ASSUME SInv, NEW r \in Requests, AskJoins(r)
  PROVE  Good
<1>1. /\ Reading(r, "ask") /\ Runs!Join(r, req[r].key) /\ GivesBack(r)
      /\ Goes(r, "following") /\ UNCHANGED <<phase, boots, payer>>
  BY DEF AskJoins
<1>2. /\ RunOf(r) = {} /\ req[r].key \in Keys /\ Unsettled(r)
      /\ ~bill[r].wire /\ ~bill[r].made
  BY <1>1, ReadingBill DEF Kinds
<1>3. RunsInv' /\ runs' = runs /\ \A q \in Requests \ {r} : reader'[q] = reader[q]
  BY <1>1, <1>2, SParts, JoinStep
<1>4. \A q \in Requests : RunOf(q)' = RunOf(q)
  BY <1>1, <1>3, RunOfUnchanged
<1>5. /\ [BudgetNext]_budgetVars
      /\ bill' \in [Requests -> Bill] /\ \A q \in Requests \ {r} : bill'[q] = bill[q]
      /\ ClosedBill(bill'[r])
      /\ Alone(r) /\ ~Unsettled(r)' => Backed'
  BY <1>1, <1>2, GivesBackStep
<1>6. Alone(r)
  BY <1>1, <1>3, <1>4, <1>5, GoesTypes DEF Alone
<1>7. AskTypeOK'
  BY <1>1, <1>3, <1>5, GoesTypes, AskTypes DEF AskTypeOK, Bill
<1>8. req'[r].at = "following" /\ RunOf(r)' = {}
  BY <1>1, <1>2, <1>4, GoesTypes
<1> QED
  BY <1>3, <1>5, <1>6, <1>7, <1>8, ClosedGood

\* A resume never has a bill, whether it finds its run or not.
LEMMA ResumeGood ==
  ASSUME SInv, NEW r \in Requests, ResumeJoins(r) \/ ResumeMisses(r)
  PROVE  Good
<1>1. /\ Reading(r, "resume")
      /\ \/ Runs!Join(r, req[r].key) /\ Goes(r, "following")
         \/ Runs!Miss(req[r].key) /\ Goes(r, "done")
      /\ UNCHANGED <<phase, boots, bill, payer, budgetVars>>
  BY DEF ResumeJoins, ResumeMisses
<1>2. /\ RunOf(r) = {} /\ ~Runs!Following(r) /\ req[r].key \in Keys
      /\ bill[r] = NoBill /\ ~Unsettled(r)
  BY <1>1, ReadingBill DEF Kinds
<1>3. /\ RunsInv' /\ runs' = runs /\ \A q \in Requests \ {r} : reader'[q] = reader[q]
      /\ reader'[r].at \in {"out", "sent", "waiting"} => req'[r].at = "following"
      /\ req'[r].at \in {"done", "following"}
  <2>1. CASE Runs!Join(r, req[r].key) /\ Goes(r, "following")
    BY <2>1, <1>2, SParts, JoinStep, GoesTypes
  <2>2. CASE Runs!Miss(req[r].key) /\ Goes(r, "done")
    BY <2>2, <1>2, SParts, MissStep, GoesTypes DEF Runs!Following
  <2> QED
    BY <1>1, <2>1, <2>2
<1>4. \A q \in Requests : RunOf(q)' = RunOf(q)
  BY <1>1, <1>3, RunOfUnchanged
<1>5. Alone(r)
  BY <1>1, <1>3, <1>4, GoesTypes DEF Alone
<1>6. AskTypeOK'
  BY <1>1, <1>3, GoesTypes, AskTypes DEF AskTypeOK
<1>7. ClosedBill(bill'[r]) /\ [BudgetNext]_budgetVars /\ admitted' = admitted
  BY <1>1, <1>2 DEF ClosedBill, NoBill, budgetVars, history
<1>8. ~Unsettled(r)' => Backed'
  BY <1>5, <1>7, BackedKept
<1>9. RunOf(r)' = {}
  BY <1>2, <1>4
<1> QED
  BY <1>3, <1>5, <1>6, <1>7, <1>8, <1>9, ClosedGood

\* A run starts for a request that is charged, and the bill goes over to it.
LEMMA AskLaunchesGood ==
  ASSUME SInv, NEW r \in Requests, AskLaunches(r)
  PROVE  Good
<1>1. /\ Reading(r, "ask") /\ Runs!Launch(r, req[r].key) /\ payer' = Append(payer, r)
      /\ Goes(r, "following") /\ UNCHANGED <<phase, boots, bill, budgetVars>>
  BY DEF AskLaunches
<1>2. /\ RunOf(r) = {} /\ req[r].key \in Keys /\ Unsettled(r)
  BY <1>1, ReadingBill DEF Kinds
<1>3. /\ RunsInv' /\ Len(runs') = Len(runs) + 1
      /\ runs'[Len(runs) + 1].end = "going"
      /\ \A x \in 1..Len(runs) : runs'[x] = runs[x]
      /\ \A q \in Requests \ {r} : reader'[q] = reader[q]
  BY <1>1, <1>2, SParts, LaunchStep
<1>4. /\ payer' \in Seq(Requests) /\ Len(payer') = Len(runs') /\ payer'[Len(runs) + 1] = r
      /\ \A x \in 1..Len(runs) : payer'[x] = payer[x]
  BY <1>1, <1>3, AskTypes
<1>5. DOMAIN runs' = 1..Len(runs) + 1 /\ DOMAIN runs = 1..Len(runs) /\ Len(runs) \in Nat
  <2>1. DOMAIN runs' = 1..Len(runs')
    BY <1>3 DEF RunsInv, Runs!RunsTypeOK
  <2> QED
    BY <2>1, <1>3, AskTypes
<1>6. \A q \in Requests \ {r} : RunOf(q)' = RunOf(q)
  <2> SUFFICES ASSUME NEW q \in Requests \ {r} PROVE RunOf(q)' = RunOf(q)
    OBVIOUS
  <2>1. ~(payer'[Len(runs) + 1] = q)
    BY <1>4
  <2> QED
    BY <2>1, <1>3, <1>4, <1>5 DEF RunOf, Runs!Started, Runs!Going
<1>7. RunOf(r)' = {Len(runs) + 1}
  <2>1. \A x \in 1..Len(runs) : ~(payer[x] = r /\ runs[x].end = "going")
    BY <1>2, <1>5 DEF RunOf, Runs!Started, Runs!Going
  <2>2. \A x : x \in RunOf(r)' <=> x \in 1..Len(runs) + 1 /\ payer'[x] = r /\ runs'[x].end = "going"
    BY <1>5 DEF RunOf, Runs!Started, Runs!Going
  <2>3. \A x \in 1..Len(runs) : ~(x \in RunOf(r)')
    BY <2>1, <2>2, <1>3, <1>4
  <2> QED
    BY <2>2, <2>3, <1>3, <1>4, <1>5
<1>8. req'[r].at = "following" /\ \A q \in Requests \ {r} : req'[q] = req[q]
  BY <1>1, GoesTypes
<1>9. Alone(r)
  BY <1>1, <1>3, <1>6, <1>8 DEF Alone
<1>10. AskTypeOK'
  BY <1>1, <1>3, <1>4, GoesTypes, AskTypes DEF AskTypeOK
<1>11. Unsettled(r)'
  BY <1>7 DEF Unsettled
<1>12. Post(r)'
  BY <1>7, <1>8 DEF Post
<1>13. BillRight(r)'
  <2>1. BillRight(r)
    BY SParts
  <2> QED
    BY <2>1, <1>1, <1>2, <1>8, <1>11 DEF BillRight, Reading
<1>14. [BudgetNext]_budgetVars /\ Backed'
  BY <1>1, <1>2, <1>9, BackedKept DEF budgetVars, history
<1> QED
  BY <1>3, <1>9, <1>10, <1>12, <1>13, <1>14, AloneStep DEF Good

\* A loop of the request's own starts: only its place changes.
LEMMA DirectStartsGood ==
  ASSUME SInv, NEW r \in Requests, DirectStarts(r)
  PROVE  Good
<1>1. /\ Reading(r, "direct") /\ Goes(r, "loop")
      /\ UNCHANGED <<phase, boots, bill, payer, budgetVars, runsVars>>
  BY DEF DirectStarts
<1>2. RunOf(r) = {} /\ ~Runs!Following(r) /\ Unsettled(r)
  BY <1>1, ReadingBill DEF Kinds
<1>3. RunsInv' /\ runs' = runs /\ reader' = reader
  BY <1>1, RunsUnchanged
<1>4. \A q \in Requests : RunOf(q)' = RunOf(q)
  BY <1>1, <1>3, RunOfUnchanged
<1>5. req'[r].at = "loop"
  BY <1>1, GoesTypes
<1>6. Alone(r)
  BY <1>1, <1>3, <1>4, GoesTypes DEF Alone
<1>7. AskTypeOK'
  BY <1>1, <1>3, GoesTypes, AskTypes DEF AskTypeOK
<1>8. Unsettled(r)'
  BY <1>5 DEF Unsettled, OwnLoop
<1>9. Post(r)'
  BY <1>2, <1>3, <1>4, <1>5 DEF Post, Runs!Following
<1>10. BillRight(r)'
  <2>1. BillRight(r)
    BY SParts
  <2> QED
    BY <2>1, <1>1, <1>2, <1>5, <1>8 DEF BillRight, Reading
<1>11. [BudgetNext]_budgetVars /\ Backed'
  BY <1>1, <1>2, <1>6, BackedKept DEF budgetVars, history
<1> QED
  BY <1>3, <1>6, <1>7, <1>9, <1>10, <1>11, AloneStep DEF Good

\* A step of a loop that only rewrites its open bill.
LEMMA BillStep ==
  ASSUME SInv, NEW r \in Requests, OwnLoop(r) \/ RunOf(r) # {},
         NEW b \in Bill, OpenBill(b), b.day = bill[r].day,
         bill' = [bill EXCEPT ![r] = b],
         UNCHANGED <<phase, boots, req, payer, budgetVars>>, reader' = reader,
         RunsInv', Len(runs') = Len(runs),
         \A y \in 1..Len(runs) : runs'[y].end = runs[y].end
  PROVE  Good
<1>1. Unsettled(r) /\ req[r].at \in {"loop", "following", "done"}
  BY LoopPlace
<1>2. /\ bill' \in [Requests -> Bill] /\ bill'[r] = b
      /\ \A q \in Requests \ {r} : bill'[q] = bill[q]
  BY AskTypes DEF Bill
<1>3. \A q \in Requests : RunOf(q)' = RunOf(q)
  <2>1. DOMAIN runs' = 1..Len(runs') /\ DOMAIN runs = 1..Len(runs)
    BY AskTypes DEF RunsInv, Runs!RunsTypeOK
  <2> QED
    BY <2>1, RunOfSame
<1>4. Alone(r)
  BY <1>2, <1>3 DEF Alone
<1>5. AskTypeOK'
  BY <1>2, AskTypes DEF AskTypeOK, Bill
<1>6. Unsettled(r)'
  BY <1>1, <1>3 DEF Unsettled, Reading, OwnLoop
<1>7. Post(r)'
  <2>1. Post(r)
    BY SParts
  <2> QED
    BY <2>1, <1>3 DEF Post, Runs!Following
<1>8. BillRight(r)'
  BY <1>1, <1>2, <1>6 DEF BillRight, OpenBill, Reading
<1>9. [BudgetNext]_budgetVars /\ Backed'
  BY <1>1, <1>2, <1>4, BackedKept DEF budgetVars, history
<1> QED
  BY <1>4, <1>5, <1>7, <1>8, <1>9, AloneStep DEF Good

\* A bill before and after a call keeps its day.
LEMMA CallBills ==
  ASSUME NEW b \in Bill, OpenBill(b)
  PROVE  /\ ~b.wire /\ b.calls < MaxCalls =>
              Raises(b) \in Bill /\ OpenBill(Raises(b)) /\ Raises(b).day = b.day
         /\ b.wire => Lowers(b) \in Bill /\ OpenBill(Lowers(b)) /\ Lowers(b).day = b.day
         /\ b.wire => Made(b) \in Bill /\ OpenBill(Made(b)) /\ Made(b).day = b.day
         /\ b.wire => LET c == [Made(b) EXCEPT !.again = TRUE]
                      IN  c \in Bill /\ OpenBill(c) /\ c.day = b.day
         /\ b.wire => LET c == [Lowers(b) EXCEPT !.flap = ~b.made]
                      IN  c \in Bill /\ OpenBill(c) /\ c.day = b.day
<1>1. /\ b.day \in Days /\ b.calls \in 0..MaxCalls /\ b.again \in BOOLEAN /\ b.wire \in BOOLEAN
      /\ b.paid \in BOOLEAN /\ b.was \in BOOLEAN /\ b.made \in BOOLEAN
      /\ b.flap \in BOOLEAN /\ b.charged = 1 /\ b.back = 0
      /\ IF b.wire THEN b.paid /\ (b.was <=> b.made) ELSE b.paid <=> b.made
  BY DEF Bill, OpenBill
<1>2. b = [day |-> b.day, calls |-> b.calls, again |-> b.again, wire |-> b.wire, paid |-> b.paid,
           was |-> b.was, made |-> b.made, flap |-> b.flap, charged |-> b.charged, back |-> b.back]
  BY DEF Bill
<1>3. Raises(b) = [day |-> b.day, calls |-> b.calls + 1, again |-> b.again, wire |-> TRUE,
                   paid |-> TRUE, was |-> b.paid, made |-> b.made, flap |-> b.flap,
                   charged |-> 1, back |-> 0]
  <2>1. Raises(b) = [[[[b EXCEPT !.wire = TRUE] EXCEPT !.calls = @ + 1] EXCEPT !.was = b.paid]
                       EXCEPT !.paid = TRUE]
    BY <1>2 DEF Raises
  <2> QED
    BY <2>1, <1>1, <1>2
<1>4. Lowers(b) = [day |-> b.day, calls |-> b.calls, again |-> b.again, wire |-> FALSE,
                   paid |-> b.was, was |-> FALSE, made |-> b.made, flap |-> b.flap,
                    charged |-> 1, back |-> 0]
  <2>1. Lowers(b) = [[[b EXCEPT !.wire = FALSE] EXCEPT !.paid = b.was] EXCEPT !.was = FALSE]
    BY <1>2 DEF Lowers
  <2> QED
    BY <2>1, <1>1, <1>2
<1>5. Made(b) = [day |-> b.day, calls |-> b.calls, again |-> b.again, wire |-> FALSE,
                 paid |-> b.paid, was |-> FALSE, made |-> TRUE, flap |-> FALSE,
                 charged |-> 1, back |-> 0]
  <2>1. Made(b) = [[[[b EXCEPT !.wire = FALSE] EXCEPT !.was = FALSE] EXCEPT !.made = TRUE]
                     EXCEPT !.flap = FALSE]
    BY <1>2 DEF Made
  <2> QED
    BY <2>1, <1>1, <1>2
<1>6. b.calls < MaxCalls => b.calls + 1 \in 0..MaxCalls
  BY <1>1, AskAssumption
<1>7. ~b.wire /\ b.calls < MaxCalls => Raises(b) \in Bill /\ OpenBill(Raises(b)) /\ Raises(b).day = b.day
  BY <1>1, <1>3, <1>6 DEF Bill, OpenBill
<1>8. b.wire => Lowers(b) \in Bill /\ OpenBill(Lowers(b)) /\ Lowers(b).day = b.day
  BY <1>1, <1>4 DEF Bill, OpenBill
<1>9. b.wire => Made(b) \in Bill /\ OpenBill(Made(b)) /\ Made(b).day = b.day
  BY <1>1, <1>5 DEF Bill, OpenBill
<1>10. ASSUME b.wire
       PROVE  LET c == [Made(b) EXCEPT !.again = TRUE]
              IN  c \in Bill /\ OpenBill(c) /\ c.day = b.day
  <2> DEFINE m == Made(b)
  <2>1. m \in Bill /\ OpenBill(m) /\ m.day = b.day
    BY <1>9, <1>10
  <2> HIDE DEF m
  <2> DEFINE c == [m EXCEPT !.again = TRUE]
  <2>2. /\ c \in Bill /\ c.day = m.day /\ c.charged = m.charged /\ c.back = m.back
        /\ c.made = m.made /\ c.paid = m.paid /\ c.wire = m.wire /\ c.was = m.was
    BY <2>1 DEF Bill
  <2> HIDE DEF c
  <2>3. c \in Bill /\ OpenBill(c) /\ c.day = b.day
    BY <2>1, <2>2 DEF OpenBill
  <2> QED
    BY <2>3 DEF c, m
<1>11. ASSUME b.wire
       PROVE  LET c == [Lowers(b) EXCEPT !.flap = ~b.made]
              IN  c \in Bill /\ OpenBill(c) /\ c.day = b.day
  <2> DEFINE m == Lowers(b)
  <2>1. m \in Bill /\ OpenBill(m) /\ m.day = b.day
    BY <1>8, <1>11
  <2> HIDE DEF m
  <2> DEFINE c == [m EXCEPT !.flap = ~b.made]
  <2>2. /\ c \in Bill /\ c.day = m.day /\ c.charged = m.charged /\ c.back = m.back
        /\ c.made = m.made /\ c.paid = m.paid /\ c.wire = m.wire /\ c.was = m.was
    BY <2>1 DEF Bill
  <2> HIDE DEF c
  <2>3. c \in Bill /\ OpenBill(c) /\ c.day = b.day
    BY <2>1, <2>2 DEF OpenBill
  <2> QED
    BY <2>3 DEF c, m
<1> QED
  BY <1>7, <1>8, <1>9, <1>10, <1>11

\* A call goes out, is refused or flaps, is lost, or brings something to go on with.
LEMMA CallsGood ==
  ASSUME SInv, NEW r \in Requests,
         Calls(r) \/ CallRefused(r) \/ CallFlaps(r) \/ CallLost(r)
         \/ ReadsTools(r) \/ SaysNothing(r)
  PROVE  Good
<1>1. OwnLoop(r) \/ RunOf(r) # {}
  BY DEF Calls, CallRefused, CallFlaps, CallLost, ReadsTools, SaysNothing, Looping
<1>2. bill[r] \in Bill /\ OpenBill(bill[r])
  BY <1>1, LoopPlace, BillFields DEF Bill
<1> DEFINE Rewrites(b) == bill' = [bill EXCEPT ![r] = b]
<1>3. PICK b \in Bill : OpenBill(b) /\ b.day = bill[r].day /\ Rewrites(b)
  <2>1. CASE Calls(r)
    <3>1. ~bill[r].wire /\ bill[r].calls < MaxCalls /\ Rewrites(Raises(bill[r]))
      BY <2>1 DEF Calls
    <3> QED
      BY <3>1, <1>2, CallBills
  <2>2. CASE CallRefused(r)
    <3>1. bill[r].wire /\ Rewrites(Lowers(bill[r]))
      BY <2>2 DEF CallRefused
    <3> QED
      BY <3>1, <1>2, CallBills
  <2>3. CASE CallLost(r)
    <3>1. bill[r].wire /\ Rewrites(Made(bill[r]))
      BY <2>3 DEF CallLost
    <3> QED
      BY <3>1, <1>2, CallBills
  <2>4. CASE ReadsTools(r) \/ SaysNothing(r)
    <3>1. bill[r].wire /\ Rewrites([Made(bill[r]) EXCEPT !.again = TRUE])
      BY <2>4 DEF ReadsTools, SaysNothing
    <3> QED
      BY <3>1, <1>2, CallBills
  <2>5. CASE CallFlaps(r)
    <3>1. bill[r].wire /\ Rewrites([Lowers(bill[r]) EXCEPT !.flap = ~bill[r].made])
      BY <2>5 DEF CallFlaps
    <3> QED
      BY <3>1, <1>2, CallBills
  <2> QED
    BY <2>1, <2>2, <2>3, <2>4, <2>5
<1>4. UNCHANGED <<phase, boots, req, payer, budgetVars>>
  BY DEF Calls, CallRefused, CallFlaps, CallLost, ReadsTools, SaysNothing
<1>5. /\ RunsInv' /\ reader' = reader /\ Len(runs') = Len(runs)
      /\ \A y \in 1..Len(runs) : runs'[y].end = runs[y].end
  <2>1. UNCHANGED runsVars \/ \E x \in RunOf(r) : Runs!Emit(x)
    BY DEF Calls, CallRefused, CallFlaps, CallLost, ReadsTools, SaysNothing
  <2>2. CASE UNCHANGED runsVars
    BY <2>2, RunsUnchanged
  <2>3. CASE \E x \in RunOf(r) : Runs!Emit(x)
    <3>1. PICK x \in Runs!Started : Runs!Emit(x)
      BY <2>3 DEF RunOf
    <3> QED
      BY <3>1, SParts, EmitStep
  <2> QED
    BY <2>1, <2>2, <2>3
<1> QED
  BY <1>1, <1>3, <1>4, <1>5, BillStep

\* Whatever ends a loop closes its bill in the same step.
LEMMA LoopEndsGood ==
  ASSUME SInv, NEW r \in Requests, OwnLoop(r) \/ RunOf(r) # {},
         NEW how \in Runs!Ends \ {"going"}, LoopEnds(r, how)
  PROVE  Good
<1>1. /\ Settles(r) /\ UNCHANGED <<phase, boots, payer>>
      /\ IF OwnLoop(r) THEN Goes(r, "done") /\ UNCHANGED runsVars
         ELSE (\E x \in RunOf(r) : Runs!End(x, how)) /\ UNCHANGED req
  BY DEF LoopEnds
<1>2. Unsettled(r) /\ req[r].at \in {"loop", "following", "done"} /\ (OwnLoop(r) <=> RunOf(r) = {})
  BY LoopPlace
<1>3. /\ [BudgetNext]_budgetVars
      /\ bill' \in [Requests -> Bill] /\ \A q \in Requests \ {r} : bill'[q] = bill[q]
      /\ ClosedBill(bill'[r])
      /\ Alone(r) /\ ~Unsettled(r)' => Backed'
  BY <1>1, <1>2, SettlesStep
<1>4. CASE OwnLoop(r)
  <2>1. RunsInv' /\ runs' = runs /\ reader' = reader
    BY <1>1, <1>4, RunsUnchanged
  <2>2. \A q \in Requests : RunOf(q)' = RunOf(q)
    BY <1>1, <2>1, RunOfUnchanged
  <2>3. Goes(r, "done") /\ RunOf(r) = {}
    BY <1>1, <1>2, <1>4
  <2>4. Alone(r)
    BY <1>3, <2>1, <2>2, <2>3, GoesTypes DEF Alone
  <2>5. AskTypeOK'
    BY <1>1, <1>3, <2>1, <2>3, GoesTypes, AskTypes DEF AskTypeOK, Bill
  <2>6. req'[r].at = "done" /\ RunOf(r)' = {} /\ ~(reader'[r].at \in {"out", "sent", "waiting"})
    <3>1. ~Runs!Following(r)
      BY <1>4, NoRunYet DEF OwnLoop
    <3> QED
      BY <3>1, <2>1, <2>2, <2>3, GoesTypes DEF Runs!Following
  <2> QED
    BY <1>3, <2>1, <2>4, <2>5, <2>6, ClosedGood
<1>5. CASE ~OwnLoop(r)
  <2>1. PICK x \in RunOf(r) : Runs!End(x, how)
    BY <1>1, <1>5
  <2>2. x \in Runs!Started /\ payer[x] = r /\ \A y \in RunOf(r) : y = x
    BY SParts DEF RunOf, Post
  <2>3. /\ RunsInv' /\ Len(runs') = Len(runs) /\ reader' = reader
        /\ runs[x].end = "going" /\ runs'[x].end # "going"
        /\ \A y \in 1..Len(runs) : y # x => runs'[y] = runs[y]
    BY <2>1, <2>2, SParts, EndStep
  <2>4. req' = req /\ payer' = payer
    BY <1>1, <1>5
  <2>5. DOMAIN runs' = 1..Len(runs) /\ DOMAIN runs = 1..Len(runs)
    BY <2>3, AskTypes DEF RunsInv, Runs!RunsTypeOK
  <2>6. \A q \in Requests \ {r} : RunOf(q)' = RunOf(q)
    <3> SUFFICES ASSUME NEW q \in Requests \ {r} PROVE RunOf(q)' = RunOf(q)
      OBVIOUS
    <3>1. ~(payer[x] = q)
      BY <2>2
    <3> QED
      BY <3>1, <2>3, <2>4, <2>5 DEF RunOf, Runs!Started, Runs!Going
  <2>7. RunOf(r)' = {}
    <3>1. \A y \in 1..Len(runs) : ~(payer[y] = r /\ runs'[y].end = "going")
      BY <2>2, <2>3, <2>5 DEF RunOf, Runs!Started, Runs!Going
    <3> QED
      BY <3>1, <2>4, <2>5 DEF RunOf, Runs!Started, Runs!Going
  <2>8. Alone(r)
    BY <1>3, <2>3, <2>4, <2>6 DEF Alone
  <2>9. AskTypeOK'
    BY <1>1, <1>3, <2>3, <2>4, AskTypes DEF AskTypeOK, Bill
  <2>10. /\ req'[r].at \in {"done", "following"}
         /\ reader'[r].at \in {"out", "sent", "waiting"} => req'[r].at = "following"
    <3>1. Post(r)
      BY SParts
    <3> QED
      BY <3>1, <1>2, <1>5, <2>3, <2>4 DEF Post, OwnLoop, Runs!Following
  <2> QED
    BY <1>3, <2>3, <2>7, <2>8, <2>9, <2>10, ClosedGood
<1> QED
  BY <1>4, <1>5

\* A stream that moves on, returns or is dropped leaves every bill alone.
LEMMA ReaderGood ==
  ASSUME SInv, NEW r \in Requests, ReaderAdvances(r) \/ ReaderLeaves(r)
  PROVE  Good
<1>1. /\ Runs!Advance(r) \/ Runs!Leave(r)
      /\ UNCHANGED <<phase, boots, bill, payer, budgetVars>>
      /\ \/ reader'[r].at = "finished" /\ Goes(r, "done")
         \/ reader'[r].at # "finished" /\ req' = req
         \/ Runs!Leave(r) /\ Goes(r, "done")
  BY DEF ReaderAdvances, ReaderLeaves
<1>2. Runs!Following(r)
  BY <1>1 DEF Runs!Advance, Runs!Leave
<1>3. req[r].at = "following"
  BY <1>2, SParts DEF Post
<1>4. RunsInv' /\ runs' = runs /\ \A q \in Requests \ {r} : reader'[q] = reader[q]
  BY <1>1, SParts, ReaderStep
<1>5. \A q \in Requests : RunOf(q)' = RunOf(q)
  BY <1>1, <1>4, RunOfUnchanged
<1>6. /\ req'[r].at \in {"following", "done"} /\ \A q \in Requests \ {r} : req'[q] = req[q]
      /\ req' \in [Requests ->
           [at : {"idle", "reading", "loop", "following", "done", "crashed"},
            kind : Kinds \cup {"none"}, key : Keys \cup {"none"}]]
  BY <1>1, <1>3, GoesTypes, AskTypes
<1>7. Runs!Following(r)' => req'[r].at = "following"
  <2>1. Runs!Leave(r) => reader'[r].at = "left"
    BY SParts, RunTypes DEF Runs!Leave, Runs!NoReader
  <2> QED
    BY <2>1, <1>1, <1>3 DEF Runs!Following
<1>8. Alone(r)
  BY <1>1, <1>4, <1>5, <1>6 DEF Alone
<1>9. AskTypeOK'
  BY <1>1, <1>4, <1>6, AskTypes DEF AskTypeOK
<1>10. Unsettled(r)' = Unsettled(r)
  BY <1>3, <1>5, <1>6 DEF Unsettled, Reading, OwnLoop
<1>11. Post(r)'
  <2>1. Post(r)
    BY SParts
  <2> QED
    BY <2>1, <1>5, <1>6, <1>7 DEF Post
<1>12. BillRight(r)'
  <2>1. BillRight(r)
    BY SParts
  <2> QED
    BY <2>1, <1>1, <1>3, <1>6, <1>10 DEF BillRight, Reading, OpenBill
<1>13. [BudgetNext]_budgetVars /\ Backed'
  BY <1>1, <1>8, <1>10, BackedKept DEF budgetVars, history
<1> QED
  BY <1>4, <1>8, <1>9, <1>11, <1>12, <1>13, AloneStep DEF Good
-----------------------------------------------------------------------------
(* Steps that move every request, or none *)

\* A step that opens no bill and charges no day.
LEMMA AllStep ==
  ASSUME SInv, AskTypeOK', RunsInv', [BudgetNext]_budgetVars, admitted' = admitted,
         \A r \in Requests :
           /\ Post(r)' /\ BillRight(r)'
           /\ Unsettled(r)' => Unsettled(r) /\ bill'[r].day = bill[r].day
  PROVE  Good
<1>1. BInv'
  BY SParts, BudgetStep, AskAssumption DEF BudgetConstants
<1>2. \A d \in Days : Out(d)' \subseteq Out(d)
  BY DEF Out
<1>3. Backed'
  BY <1>2, BackedShrinks
<1>4. \A r \in Requests : Post(r)' /\ BillRight(r)'
  OBVIOUS
<1> QED
  BY <1>1, <1>3, <1>4, Zenon DEF SInv, Good

\* The drain, midnight and the stop leave requests and runs where they are.
LEMMA AsideGood ==
  ASSUME SInv, UNCHANGED <<boots, req, bill, payer, runsVars>>, phase' \in {"up", "closing"},
         [BudgetNext]_budgetVars, admitted' = admitted
  PROVE  Good
<1>1. RunsInv' /\ runs' = runs /\ reader' = reader
  BY RunsUnchanged
<1>2. req' = req /\ bill' = bill /\ payer' = payer
  OBVIOUS
<1>3. \A q \in Requests : RunOf(q)' = RunOf(q)
  BY <1>1, <1>2, RunOfUnchanged
<1>4. AskTypeOK'
  BY <1>1, AskTypes DEF AskTypeOK
<1>5. ASSUME NEW r \in Requests
      PROVE  /\ Post(r)' /\ BillRight(r)'
             /\ Unsettled(r)' => Unsettled(r) /\ bill'[r].day = bill[r].day
  <2>1. Post(r) /\ BillRight(r)
    BY SParts
  <2>2. Unsettled(r)' = Unsettled(r)
    BY <1>2, <1>3 DEF Unsettled, Reading, OwnLoop
  <2>3. Post(r)'
    BY <2>1, <1>1, <1>2, <1>3 DEF Post, Runs!Following
  <2>4. BillRight(r)'
    BY <2>1, <2>2, <1>2 DEF BillRight, Reading, OpenBill
  <2> QED
    BY <2>2, <2>3, <2>4, <1>2
<1> QED
  BY <1>1, <1>4, <1>5, AllStep

\* A delta is written or dropped.
LEMMA DrainsGood ==
  ASSUME SInv, Drains
  PROVE  Good
<1>1. (Drain \/ DrainFails) /\ UNCHANGED <<askVars, runsVars>>
  BY DEF Drains
<1>2. admitted' = admitted
  BY <1>1 DEF Drain, DrainFails, history
<1>3. [BudgetNext]_budgetVars
  BY <1>1 DEF BudgetNext
<1>4. UNCHANGED <<boots, req, bill, payer, runsVars>> /\ phase' = phase
  BY <1>1 DEF askVars
<1> QED
  BY <1>2, <1>3, <1>4, AskTypes, AsideGood

\* The day turns under requests that are out.
LEMMA MidnightGood ==
  ASSUME SInv, MidnightPasses
  PROVE  Good
<1>1. Midnight /\ UNCHANGED <<askVars, runsVars>>
  BY DEF MidnightPasses
<1>2. admitted' = admitted
  BY <1>1 DEF Midnight, history
<1>3. [BudgetNext]_budgetVars
  BY <1>1 DEF BudgetNext
<1>4. UNCHANGED <<boots, req, bill, payer, runsVars>> /\ phase' = phase
  BY <1>1 DEF askVars
<1> QED
  BY <1>2, <1>3, <1>4, AskTypes, AsideGood

\* The stop begins, or nothing happens at all.
LEMMA StopOrStutterGood ==
  ASSUME SInv, CloseRuns \/ UNCHANGED vars
  PROVE  Good
<1>1. UNCHANGED <<boots, req, bill, payer, budgetVars, runsVars>> /\ phase' \in {"up", "closing"}
  BY AskTypes DEF CloseRuns, vars, askVars
<1>2. admitted' = admitted /\ [BudgetNext]_budgetVars
  BY <1>1 DEF budgetVars, history
<1> QED
  BY <1>1, <1>2, AsideGood

\* A new process starts with no run, no stream, and the days' bills as they were.
LEMMA ProcessStep ==
  ASSUME SInv, NextProcess
  PROVE  /\ phase' = "up" /\ boots' \in 1..MaxBoots
         /\ payer' \in Seq(Requests) /\ Len(payer') = Len(runs')
         /\ RunsInv' /\ [BudgetNext]_budgetVars /\ admitted' = admitted
         /\ \A r \in Requests : RunOf(r)' = {} /\ ~Runs!Following(r)'
<1>1. /\ boots < MaxBoots /\ boots' = boots + 1 /\ phase' = "up"
      /\ Restart
      /\ payer' = <<>> /\ runs' = <<>> /\ kept' = <<>>
      /\ table' = [k \in Keys |-> 0]
      /\ reader' = [r \in Requests |-> Runs!NoReader]
  BY DEF NextProcess
<1>2. boots' \in 1..MaxBoots
  <2>1. boots \in 1..MaxBoots /\ MaxBoots \in Nat
    BY AskTypes, AskAssumption
  <2> QED
    BY <1>1, <2>1
<1>3. Len(runs') = 0 /\ DOMAIN runs' = {} /\ Len(kept') = 0
  BY <1>1
<1>4. \A r \in Requests : reader'[r] = [run |-> 0, pos |-> 0, tick |-> 0, at |-> "none"]
  BY <1>1 DEF Runs!NoReader
<1>5. \A r \in Requests : ~Runs!Following(r)'
  BY <1>4 DEF Runs!Following
<1>6. \A r \in Requests : RunOf(r)' = {}
  BY <1>3 DEF RunOf, Runs!Started
<1>7. Runs!RunsTypeOK'
  <2>1. runs' \in Seq([key : Keys, steps : Nat, end : Runs!Ends]) /\ kept' \in Seq(1..Len(runs'))
    BY <1>1
  <2>2. table' \in [Keys -> 0..Len(runs')]
    BY <1>1, <1>3
  <2>3. reader' \in [Requests ->
          [run : 0..Len(runs'), pos : Nat, tick : Nat,
           at : {"none", "out", "sent", "waiting", "finished", "left"}]]
    BY <1>1, <1>3 DEF Runs!NoReader
  <2> QED
    BY <2>1, <2>2, <2>3 DEF Runs!RunsTypeOK, Runs!Ends
<1>8. Runs!RunningIsKept'
  BY <1>3 DEF Runs!RunningIsKept, Runs!Started
<1>9. \A i \in 1..Len(kept') : runs'[kept'[i]].end # "going"
  BY <1>3
<1>10. RunsInv'
  BY <1>5, <1>7, <1>8, <1>9 DEF RunsInv, Runs!Going
<1>11. [BudgetNext]_budgetVars /\ admitted' = admitted
  BY <1>1 DEF BudgetNext, Restart
<1> QED
  BY <1>1, <1>2, <1>5, <1>6, <1>10, <1>11

\* A stop that ended every run leaves nothing open behind it.
LEMMA StopsGood ==
  ASSUME SInv, StopsAndBoots
  PROVE  Good
<1>1. /\ \A r \in Requests : RunOf(r) = {}
      /\ NextProcess /\ req' = req /\ bill' = bill
  BY DEF StopsAndBoots
<1>2. AskTypeOK'
  BY <1>1, ProcessStep, AskTypes DEF AskTypeOK
<1>3. ASSUME NEW r \in Requests
      PROVE  /\ Post(r)' /\ BillRight(r)'
             /\ Unsettled(r)' => Unsettled(r) /\ bill'[r].day = bill[r].day
  <2>1. Post(r) /\ BillRight(r)
    BY SParts
  <2>2. RunOf(r) = {} /\ RunOf(r)' = {} /\ ~Runs!Following(r)'
    BY <1>1, ProcessStep
  <2>3. Unsettled(r)' = Unsettled(r)
    BY <1>1, <2>2 DEF Unsettled, Reading, OwnLoop
  <2>4. Post(r)'
    BY <2>1, <2>2, <1>1 DEF Post
  <2>5. BillRight(r)'
    BY <2>1, <2>3, <1>1 DEF BillRight, Reading, OpenBill
  <2> QED
    BY <2>3, <2>4, <2>5, <1>1
<1> QED
  BY <1>1, <1>2, <1>3, ProcessStep, AllStep

\* A crash leaves an open bill open for ever, and never gives it back.
LEMMA CrashesGood ==
  ASSUME SInv, Crashes
  PROVE  Good
<1> DEFINE Same(r) == req[r].at = "idle" \/ (req[r].at = "done" /\ RunOf(r) = {})
<1>1. /\ NextProcess /\ bill' = [r \in Requests |-> Over(bill[r])]
      /\ req' = [r \in Requests |-> IF Same(r) THEN req[r] ELSE At("crashed")]
  BY DEF Crashes
<1>2. At("crashed") = [at |-> "crashed", kind |-> "none", key |-> "none"]
  BY DEF At
<1> HIDE DEF Same
<1>3. req' \in [Requests ->
        [at : {"idle", "reading", "loop", "following", "done", "crashed"},
         kind : Kinds \cup {"none"}, key : Keys \cup {"none"}]]
  BY <1>1, <1>2, AskTypes
<1>4. /\ bill' \in [Requests -> Bill]
      /\ \A r \in Requests : bill'[r] = Over(bill[r])
  <2>1. \A r \in Requests : Over(bill[r]) \in Bill
    BY AskTypes, OverFields DEF Bill
  <2> QED
    BY <1>1, <2>1
<1>6. AskTypeOK'
  BY <1>1, <1>3, <1>4, ProcessStep, AskTypes DEF AskTypeOK, Bill
<1>5. ASSUME NEW r \in Requests
      PROVE  Post(r)' /\ BillRight(r)' /\ ~Unsettled(r)'
  <2>1. Post(r) /\ BillRight(r)
    BY SParts
  <2>2. RunOf(r)' = {} /\ ~Runs!Following(r)' /\ bill'[r] = Over(bill[r])
    BY <1>1, <1>4, ProcessStep
  <2>5. /\ bill[r] \in Bill
        /\ bill'[r].made = (bill[r].made \/ bill[r].wire) /\ bill'[r].wire = FALSE
        /\ bill'[r].charged = bill[r].charged /\ bill'[r].back = bill[r].back
    <3>1. bill[r] \in Bill
      BY BillFields DEF Bill
    <3> QED
      BY <3>1, <2>2, OverFields
  <2>3. CASE Same(r)
    <3>1. req'[r] = req[r] /\ (req[r].at = "idle" \/ (req[r].at = "done" /\ RunOf(r) = {}))
      BY <1>1, <2>3 DEF Same
    <3>2. RunOf(r) = {}
      BY <3>1, NoRunYet
    <3>3. ~Unsettled(r) /\ ~Unsettled(r)'
      BY <2>2, <3>1, <3>2 DEF Unsettled, Reading, OwnLoop
    <3>4. Post(r)'
      BY <2>1, <2>2, <3>1 DEF Post
    <3>5. req[r].at = "idle" => bill'[r] = NoBill
      <4> SUFFICES ASSUME req[r].at = "idle" PROVE Over(bill[r]) = NoBill
        BY <2>2
      <4>1. bill[r] = NoBill
        BY <2>1 DEF BillRight
      <4> QED
        BY <4>1, <2>5, OverFields
    <3>6. BillRight(r)'
      BY <2>1, <2>5, <3>1, <3>3, <3>5 DEF BillRight, Reading
    <3> QED
      BY <3>3, <3>4, <3>6
  <2>4. CASE ~Same(r)
    <3>1. req'[r].at = "crashed"
      BY <1>1, <1>2, <2>4
    <3>2. ~Unsettled(r)'
      BY <2>2, <3>1 DEF Unsettled, Reading, OwnLoop
    <3>3. Post(r)'
      BY <2>2, <3>1 DEF Post
    <3>4. BillRight(r)'
      BY <2>1, <2>5, <3>1, <3>2 DEF BillRight, Reading
    <3> QED
      BY <3>2, <3>3, <3>4
  <2> QED
    BY <2>3, <2>4
<1> QED
  BY <1>1, <1>5, <1>6, ProcessStep, AllStep
-----------------------------------------------------------------------------
(* The service *)

\* No request has come, and no run is in the table.
LEMMA ServiceInit ==
  ASSUME Init
  PROVE  SInv
<1>1. /\ phase = "up" /\ boots = 1
      /\ req = [r \in Requests |-> At("idle")] /\ bill = [r \in Requests |-> NoBill]
      /\ payer = <<>> /\ runs = <<>> /\ kept = <<>>
      /\ table = [k \in Keys |-> 0] /\ reader = [r \in Requests |-> Runs!NoReader]
  BY DEF Init, Runs!RunsInit
<1>2. At("idle") = [at |-> "idle", kind |-> "none", key |-> "none"]
  BY DEF At
<1>3. Len(runs) = 0 /\ DOMAIN runs = {} /\ Len(kept) = 0
  BY <1>1
<1>4. AskTypeOK
  <2>1. NoBill \in Bill
    BY AskAssumption DEF NoBill, Bill, Days
  <2>2. bill \in [Requests -> Bill]
    BY <1>1, <2>1
  <2>3. boots \in 1..MaxBoots
    BY <1>1, AskAssumption
  <2>4. req \in [Requests ->
          [at : {"idle", "reading", "loop", "following", "done", "crashed"},
           kind : Kinds \cup {"none"}, key : Keys \cup {"none"}]]
    BY <1>1, <1>2
  <2>5. payer \in Seq(Requests) /\ Len(payer) = Len(runs)
    BY <1>1
  <2> QED
    BY <1>1, <2>2, <2>3, <2>4, <2>5 DEF AskTypeOK, Bill
<1>5. \A r \in Requests : ~Runs!Following(r) /\ RunOf(r) = {} /\ req[r].at = "idle"
  BY <1>1, <1>2, <1>3 DEF Runs!Following, Runs!NoReader, RunOf, Runs!Started
<1>6. RunsInv
  <2>1. runs \in Seq([key : Keys, steps : Nat, end : Runs!Ends]) /\ kept \in Seq(1..Len(runs))
    BY <1>1
  <2>2. table \in [Keys -> 0..Len(runs)]
    BY <1>1, <1>3
  <2>3. reader \in [Requests ->
          [run : 0..Len(runs), pos : Nat, tick : Nat,
           at : {"none", "out", "sent", "waiting", "finished", "left"}]]
    BY <1>1, <1>3 DEF Runs!NoReader
  <2>4. Runs!RunsTypeOK
    BY <2>1, <2>2, <2>3 DEF Runs!RunsTypeOK, Runs!Ends
  <2>5. Runs!RunningIsKept
    BY <1>3 DEF Runs!RunningIsKept, Runs!Started
  <2> QED
    BY <1>3, <1>5, <2>4, <2>5 DEF RunsInv
<1>7. BInv
  BY BudgetInitInv, AskAssumption DEF BudgetConstants, Init
<1>8. ASSUME NEW r \in Requests
      PROVE  Post(r) /\ BillRight(r) /\ ~Unsettled(r)
  <2>1. ~Unsettled(r)
    BY <1>5 DEF Unsettled, Reading, OwnLoop
  <2>2. bill[r] = NoBill
    BY <1>1
  <2>3. Post(r)
    BY <1>5 DEF Post
  <2>4. BillRight(r)
    BY <1>5, <2>1, <2>2 DEF BillRight, Reading, NoBill
  <2> QED
    BY <2>1, <2>3, <2>4
<1>9. Backed
  <2>1. \A d \in Days : admitted[d] = 0
    BY DEF Init, BudgetInit
  <2>2. \A d \in Days : Out(d) = {}
    BY <1>8 DEF Out
  <2> QED
    BY <2>1, <2>2, FS_EmptySet DEF Backed
<1> QED
  BY <1>4, <1>6, <1>7, <1>8, <1>9, Zenon DEF SInv

\* Every step of the service keeps its invariant and is a step of the budget.
LEMMA ServiceStep ==
  ASSUME SInv, [Next]_vars
  PROVE  Good
<1>1. ASSUME NEW r \in Requests, HandlerStep(r)
      PROVE  Good
  BY <1>1, BadBodyGood, AskJoinsGood, AskLaunchesGood, ResumeGood, DirectStartsGood
     DEF HandlerStep
<1>2. ASSUME NEW r \in Requests, LoopStep(r)
      PROVE  Good
  <2>1. CASE Calls(r) \/ CallRefused(r) \/ CallFlaps(r) \/ CallLost(r)
         \/ ReadsTools(r) \/ SaysNothing(r)
    BY <2>1, CallsGood
  <2>2. CASE Answers(r)
    <3>1. (OwnLoop(r) \/ RunOf(r) # {}) /\ LoopEnds(r, "answer")
      BY <2>2 DEF Answers, Looping
    <3> QED
      BY <3>1, LoopEndsGood DEF Runs!Ends
  <2>3. CASE Fails(r)
    <3>1. (OwnLoop(r) \/ RunOf(r) # {}) /\ LoopEnds(r, "error")
      BY <2>3 DEF Fails, Looping
    <3> QED
      BY <3>1, LoopEndsGood DEF Runs!Ends
  <2> QED
    BY <1>2, <2>1, <2>2, <2>3 DEF LoopStep
<1>3. ASSUME NEW r \in Requests, DirectLeaves(r) \/ RunCancelled(r)
      PROVE  Good
  <2>1. (OwnLoop(r) \/ RunOf(r) # {}) /\ LoopEnds(r, "cancelled")
    BY <1>3 DEF DirectLeaves, RunCancelled
  <2> QED
    BY <2>1, LoopEndsGood DEF Runs!Ends
<1>4. CASE Next
  BY <1>4, <1>1, <1>2, <1>3, ArrivesGood, RefusedGood, ReaderGood, DrainsGood, MidnightGood,
     StopOrStutterGood, StopsGood, CrashesGood DEF Next
<1> QED
  BY <1>4, StopOrStutterGood

\* The invariant of the service, which the theorems below rest on.
THEOREM ServiceInvariant == Spec => []SInv
<1>1. Init => SInv
  BY ServiceInit
<1>2. SInv /\ [Next]_vars => SInv'
  BY ServiceStep DEF Good
<1> QED
  BY <1>1, <1>2, PTL DEF Spec

\* Requests, bills, runs, streams and the budget keep their types: no loop
\* starts a call past its last, and no day's count goes below zero.
THEOREM ServiceTypes == Spec => []TypeOK
<1>1. SInv => TypeOK
  <2> SUFFICES ASSUME SInv PROVE TypeOK
    OBVIOUS
  <2>1. AskTypeOK /\ BudgetTypeOK /\ Runs!RunsTypeOK
    BY SParts, Parts DEF RunsInv
  <2> QED
    BY <2>1, Zenon DEF TypeOK, AskTypeOK
<1> QED
  BY <1>1, ServiceInvariant, PTL

\* What the requests, the runs and the end of a process do to the budget is
\* what AskBudget allows: only today is charged, and only a day with a charge
\* left is given one back.
THEOREM ServiceIsABudget == Spec => BudgetRefined
<1>1. Init => BudgetInit
  BY DEF Init
<1>2. SInv /\ [Next]_vars => [BudgetNext]_budgetVars
  BY ServiceStep DEF Good
<1> QED
  BY <1>1, <1>2, ServiceInvariant, PTL DEF Spec, BudgetRefined, BudgetSpec

\* So the cap of a day holds for the asks of the service.
THEOREM ServiceKeepsTheCap == Spec => []CapHolds
<1>1. BudgetConstants
  BY AskAssumption DEF BudgetConstants
<1>2. BudgetSpec => []CapHolds
  BY <1>1, CapIsKept
<1> QED
  BY <1>2, ServiceIsABudget, PTL DEF BudgetRefined

\* And with no delta lost, the row and the queue are the service's bill.
THEOREM ServiceRowIsTheBill == Spec => []RowTellsTheBill
<1>1. BudgetConstants
  BY AskAssumption DEF BudgetConstants
<1>2. BudgetSpec => []RowTellsTheBill
  BY <1>1, RowIsTheBill
<1> QED
  BY <1>2, ServiceIsABudget, PTL DEF BudgetRefined

\* Every road out of an ask settles its bill once, by what its calls came to: what
\* is over stays charged if and only if a completion came, or was under way when
\* it was given up.  A 5xx is taken for no completion, as the code takes it.
THEOREM BillsAreExact == Spec => []BillIsExact
<1>1. SInv => BillIsExact
  <2> SUFFICES ASSUME SInv, NEW r \in Requests
               PROVE  /\ bill[r].back <= bill[r].charged
                      /\ bill[r].back = 1 => ~bill[r].made
                      /\ Settled(r) /\ bill[r].charged > bill[r].back => bill[r].made
    BY DEF BillIsExact
  <2>1. BillRight(r)
    BY SParts
  <2>2. Settled(r) => ~Unsettled(r) /\ req[r].at = "done"
    BY DEF Settled, Unsettled, Reading, OwnLoop
  <2> QED
    BY <2>1, <2>2 DEF BillRight
<1> QED
  BY <1>1, ServiceInvariant, PTL

\* A run that is going is the one its question names: asking again joins it.
THEOREM RunningIsJoined == Spec => []RunningIsKept
<1>1. SInv => RunningIsKept
  BY SParts DEF RunsInv, RunningIsKept
<1> QED
  BY <1>1, ServiceInvariant, PTL
=============================================================================
