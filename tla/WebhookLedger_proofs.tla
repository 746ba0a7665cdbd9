-------------------------- MODULE WebhookLedger_proofs --------------------------
(***************************************************************************)
(* Theorems about the webhook ledger, for every set of events, requests    *)
(* and sweeps, every ceiling on attempts and every number of failures.     *)
(*                                                                         *)
(* The argument: a background task is over before its row is old enough to *)
(* be swept (TaskLife < MinAge), so what it reads of attempts is what it   *)
(* writes over; a sweep's handler is over before its lease (HandlerLife <  *)
(* Lease), so a row that can be claimed is in nobody's hands.              *)
(***************************************************************************)
EXTENDS WebhookLedger, TLAPS

\* The types of the processes' states, of the provider's view and of history.
Requesting == [event : Event \cup {NoEvent},
               step : {"idle", "reread", "dispatch", "stamp", "read", "bump"},
               read : 0 .. MaxAttempts, spent : 0 .. TaskLife]
Sweeping   == [todo : SUBSET (Event \X (0 .. MaxAttempts - 1)),
               event : Event \cup {NoEvent},
               step : {"idle", "claim", "handle", "stamp"}, spent : 0 .. HandlerLife]
Provided   == [posts : 0 .. MaxPosts, acked : SUBSET Event, closed : SUBSET Event]
Remembered == [handled : SUBSET Event, stamped : SUBSET Event,
               claims : [Event -> 0 .. MaxAttempts]]

Working(q) == req[q].step # "idle"
Task(q)    == Working(q) /\ KindOf[req[q].event] = "plain"

\* A request works on a row of the ledger, and stamps what was handled; only a
\* background task counts its failure, and it reads no attempt of anyone's.
RequestsHold ==
  \A q \in Request : Working(q) =>
    /\ req[q].event \in Event /\ row[req[q].event].present
    /\ req[q].step \in {"read", "bump"} => Task(q)
    /\ req[q].step = "bump" => req[q].read = 0
    /\ req[q].step = "stamp" => req[q].event \in ghost.handled

\* The row of a background task is younger than the task, was never claimed, and
\* is nobody else's.
TasksAreFirst ==
  \A q \in Request : Task(q) =>
    /\ row[req[q].event].age <= req[q].spent
    /\ row[req[q].event].attempts = 0
    /\ row[req[q].event].claimAge = Lease
    /\ \A p \in Request : Working(p) /\ req[p].event = req[q].event => p = q

\* A sweep holds a row whose lease still runs, and means to claim old rows.
SweepsHold ==
  \A s \in Sweep :
    /\ run[s].event # NoEvent <=> run[s].step \in {"handle", "stamp"}
    /\ run[s].event # NoEvent => /\ row[run[s].event].present
                                 /\ row[run[s].event].claimAge <= run[s].spent
    /\ run[s].step = "stamp" => run[s].event \in ghost.handled
    /\ \A item \in run[s].todo : row[item[1]].present /\ row[item[1]].age = MinAge

\* What was ever claimed, handled or stamped shows in the row, until retention
\* removes it and with it the event.
HistoryHolds ==
  \A e \in Event :
    /\ row[e].present \/ e \in provider.closed \/ ghost.claims[e] = 0
    /\ row[e].processed => row[e].present /\ e \in ghost.handled
    /\ e \in ghost.stamped => IF row[e].present THEN row[e].processed ELSE e \in provider.closed

\* The inductive invariant.
IInv == /\ TypeOK /\ RequestsHold /\ TasksAreFirst /\ SweepsHold /\ OneSweepPerRow
        /\ HistoryHolds /\ ReplaysBounded /\ AckedIsOwedOrHandled

(***************************************************************************)
(* What the processes' states mean.                                        *)
(***************************************************************************)
\* A row that a sweep has read as owed is no background task's.
LEMMA OldRowsHaveNoTask ==
  ASSUME IInv, NEW s \in Sweep, NEW item \in run[s].todo, NEW q \in Request, Task(q)
  PROVE  req[q].event # item[1]
<1>1. row[item[1]].age = MinAge BY DEF IInv, SweepsHold
<1>2. row[req[q].event].age <= req[q].spent BY DEF IInv, TasksAreFirst
<1>3. req[q].spent \in 0 .. TaskLife BY DEF IInv, TypeOK
<1>4. TaskLife < MinAge /\ TaskLife \in Nat /\ MinAge \in Nat BY TimingAssumption, LedgerAssumption
<1>5. req[q].event \in Event BY DEF IInv, RequestsHold, Task
<1>6. row[req[q].event].age \in 0 .. MinAge BY <1>5 DEF IInv, TypeOK, Row
<1> QED BY <1>1, <1>2, <1>3, <1>4, <1>6

\* A row that can be claimed is in no sweep's hands.
LEMMA ClaimableIsFree ==
  ASSUME IInv, NEW e \in Event, Unclaimed(e), NEW s \in Sweep, run[s].event # NoEvent
  PROVE  run[s].event # e
<1>1. row[run[s].event].claimAge <= run[s].spent BY DEF IInv, SweepsHold
<1>2. run[s].spent \in 0 .. HandlerLife BY DEF IInv, TypeOK
<1>3. HandlerLife < Lease /\ HandlerLife \in Nat /\ Lease \in Nat
  BY TimingAssumption, LedgerAssumption
<1>4. row[e].claimAge = Lease BY DEF Unclaimed
<1> QED BY <1>1, <1>2, <1>3, <1>4

\* The type invariant, variable by variable.
LEMMA Types ==
  ASSUME TypeOK
  PROVE  /\ row \in [Event -> Row] /\ req \in [Request -> Requesting]
         /\ run \in [Sweep -> Sweeping] /\ provider \in Provided /\ ghost \in Remembered
  BY DEF TypeOK, Requesting, Sweeping, Provided, Remembered

\* What the ledger inserts, and what retention leaves, is a row.
LEMMA FreshRowIs == FreshRow \in Row /\ NoRow \in Row
<1>1. NoRow \in Row BY LedgerAssumption DEF NoRow, Row, LedgerAssumption
<1>2. FreshRow = [NoRow EXCEPT !.present = TRUE] BY DEF FreshRow
<1> QED BY <1>1, <1>2 DEF Row

\* What a queued row is: an event and a number of attempts below the ceiling.
LEMMA QueuedIs ==
  ASSUME TypeOK, NEW s \in Sweep, NEW item \in run[s].todo
  PROVE  item[1] \in Event /\ item[2] \in 0 .. MaxAttempts - 1
  BY DEF TypeOK

(***************************************************************************)
(* The routes.                                                             *)
(***************************************************************************)
\* A delivery inserts a row, dispatches it again, or is acknowledged.
LEMMA PostStep ==
  ASSUME IInv, NEW q \in Request, NEW e \in Event, Post(q, e)
  PROVE  IInv'
<1> USE LedgerAssumption DEF LedgerAssumption
<1> DEFINE fresh == ~row[e].present
           again == ~fresh /\ KindOf[e] = "call"
           taken == [event |-> e, step |-> IF fresh THEN "dispatch" ELSE "reread",
                     read |-> 0, spent |-> 0]
<1>1. /\ ~Working(q) /\ e \notin provider.closed
      /\ row \in [Event -> Row] /\ ghost.claims \in [Event -> Nat]
  BY DEF Post, Working, IInv, TypeOK
<1>2. \A x \in Event : row'[x] = IF fresh /\ x = e THEN FreshRow ELSE row[x]
  BY DEF Post, IInv, TypeOK
<1>3. \A p \in Request : req'[p] = IF p = q /\ (fresh \/ again) THEN taken ELSE req[p]
  BY DEF Post, Take, IInv, TypeOK
<1>4. run' = run /\ ghost' = ghost /\ provider'.closed = provider.closed
  BY DEF Post, IInv, TypeOK
<1>5. \A p \in Request : Working(p) => ~(fresh /\ req[p].event = e)
  BY DEF IInv, RequestsHold
<1>6. TypeOK'
  <2>1. row' \in [Event -> Row] BY <1>1, FreshRowIs DEF Post
  <2>2. req' \in [Request -> Requesting]
    BY Types DEF Post, Take, IInv, Requesting
  <2>3. provider' \in Provided
    <3>1. provider \in Provided BY Types DEF IInv
    <3>2. provider.posts + 1 \in 0 .. MaxPosts BY <3>1 DEF Post, Provided
    <3>3. \E A \in SUBSET Event :
            provider' = [provider EXCEPT !.posts = @ + 1, !.acked = A]
      BY <3>1 DEF Post, Provided
    <3> QED BY <3>1, <3>2, <3>3 DEF Provided
  <2>4. run' = run /\ budget' = budget /\ ghost' = ghost BY DEF Post
  <2>5. TypeOK BY DEF IInv
  <2> HIDE DEF fresh, again, taken
  <2> QED BY <2>1, <2>2, <2>3, <2>4, <2>5, Zenon DEF TypeOK, Requesting, Provided
<1>7. RequestsHold'
  BY <1>1, <1>2, <1>3, <1>4, <1>5 DEF IInv, RequestsHold, Working, Task, FreshRow, NoRow
<1>8. TasksAreFirst'
  <2> SUFFICES ASSUME NEW p \in Request, Task(p)' PROVE
        /\ row'[req'[p].event].age <= req'[p].spent
        /\ row'[req'[p].event].attempts = 0
        /\ row'[req'[p].event].claimAge = Lease
        /\ \A o \in Request : Working(o)' /\ req'[o].event = req'[p].event => o = p
    BY DEF TasksAreFirst
  <2>1. CASE p = q /\ (fresh \/ again)
    <3>1. fresh /\ req'[p].event = e BY <2>1, <1>3 DEF Task
    <3>2. row'[e] = FreshRow BY <3>1, <1>2
    <3> QED BY <1>3, <1>5, <2>1, <3>1, <3>2 DEF FreshRow, NoRow, Working
  <2>2. CASE ~(p = q /\ (fresh \/ again))
    <3>1. req'[p] = req[p] /\ Task(p) /\ p # q BY <1>1, <1>3, <2>2 DEF Task, Working
    <3>2. req[p].event \in Event /\ row[req[p].event].present
      BY <3>1 DEF IInv, RequestsHold, Task
    <3>3. row'[req[p].event] = row[req[p].event] BY <1>2, <3>2
    <3>4. ~(req'[q].event = req[p].event /\ (fresh \/ again))
      BY <1>3, <3>1, <3>2 DEF Task
    <3> QED BY <1>1, <1>3, <3>1, <3>3, <3>4 DEF IInv, TasksAreFirst, Working
  <2> QED BY <2>1, <2>2
<1>9. SweepsHold'
  <2>1. \A x \in Event : row[x].present => row'[x] = row[x] BY <1>2
  <2> QED BY <1>4, <2>1, QueuedIs DEF IInv, SweepsHold, TypeOK
<1>10. OneSweepPerRow' BY <1>4 DEF IInv, OneSweepPerRow
<1>11. HistoryHolds' BY <1>1, <1>2, <1>4 DEF IInv, HistoryHolds, FreshRow, NoRow
<1>12. ReplaysBounded'
  BY <1>1, <1>2, <1>4 DEF IInv, HistoryHolds, ReplaysBounded, FreshRow, NoRow
<1>13. AckedIsOwedOrHandled'
  <2>1. provider'.acked \subseteq provider.acked \cup {e} BY DEF Post, IInv, TypeOK
  <2>2. e \in ghost.handled \/ (row'[e].present /\ ~row'[e].processed)
    BY <1>2 DEF IInv, HistoryHolds, FreshRow, NoRow
  <2> QED BY <1>2, <1>4, <2>1, <2>2
        DEF IInv, AckedIsOwedOrHandled, FreshRow, NoRow, TypeOK
<1> QED BY <1>6, <1>7, <1>8, <1>9, <1>10, <1>11, <1>12, <1>13 DEF IInv

\* The states between two pieces of work are states.
LEMMA IdleIs == RequestIdle \in Requesting /\ SweepIdle \in Sweeping
<1>1. 0 \in 0 .. MaxAttempts /\ 0 \in 0 .. TaskLife /\ 0 \in 0 .. HandlerLife
  BY LedgerAssumption DEF LedgerAssumption
<1> QED BY <1>1 DEF RequestIdle, SweepIdle, Requesting, Sweeping

\* A step of a request that leaves the rows alone: it drops its event, or goes on
\* with it in a state that fits, and acknowledges only what is safe.
LEMMA RequestMoves ==
  ASSUME IInv, TypeOK', NEW q \in Request, Working(q), NEW r \in Requesting,
         req' = [req EXCEPT ![q] = r],
         r.step # "idle" =>
           /\ r.event = req[q].event /\ r.spent = req[q].spent
           /\ r.step \in {"read", "bump"} => KindOf[r.event] = "plain"
           /\ r.step = "bump" => r.read = 0
           /\ r.step = "stamp" => r.event \in ghost'.handled,
         row' = row, run' = run, provider'.closed = provider.closed,
         ghost.handled \subseteq ghost'.handled,
         ghost'.stamped = ghost.stamped, ghost'.claims = ghost.claims,
         \A x \in provider'.acked :
           x \in provider.acked \/ x \in ghost'.handled \/ (row[x].present /\ ~row[x].processed)
  PROVE  IInv'
<1>1. \A p \in Request : req'[p] = IF p = q THEN r ELSE req[p] BY Types DEF IInv
<1>2. req[q].event \in Event /\ row[req[q].event].present BY DEF IInv, RequestsHold
<1>3. \A p \in Request : Working(p)' =>
        /\ Working(p) /\ req'[p].event = req[p].event /\ req'[p].spent = req[p].spent
        /\ Task(p)' <=> Task(p)
  BY <1>1 DEF Working, Task
<1>4. RequestsHold' BY <1>1, <1>2, <1>3 DEF IInv, RequestsHold, Working, Task
<1>5. TasksAreFirst'
  <2> SUFFICES ASSUME NEW p \in Request, Task(p)'
      PROVE /\ row[req'[p].event].age <= req'[p].spent
            /\ row[req'[p].event].attempts = 0
            /\ row[req'[p].event].claimAge = Lease
            /\ \A o \in Request : Working(o)' /\ req'[o].event = req'[p].event => o = p
    BY DEF TasksAreFirst
  <2>1. Task(p) /\ req'[p].event = req[p].event /\ req'[p].spent = req[p].spent
    BY <1>3 DEF Task
  <2> QED BY <1>3, <2>1 DEF IInv, TasksAreFirst
<1>6. SweepsHold' BY DEF IInv, SweepsHold
<1>7. OneSweepPerRow' BY DEF IInv, OneSweepPerRow
<1>8. HistoryHolds' BY DEF IInv, HistoryHolds
<1>9. ReplaysBounded' BY DEF IInv, ReplaysBounded
<1>10. AckedIsOwedOrHandled' BY DEF IInv, AckedIsOwedOrHandled
<1> QED BY <1>4, <1>5, <1>6, <1>7, <1>8, <1>9, <1>10 DEF IInv

\* A row that is there and was processed was handled: to acknowledge it is safe.
LEMMA WorkedOnIsSafe ==
  ASSUME IInv, NEW q \in Request, Working(q)
  PROVE  /\ req[q].event \in Event
         /\ \/ req[q].event \in ghost.handled
            \/ row[req[q].event].present /\ ~row[req[q].event].processed
  BY DEF IInv, RequestsHold, HistoryHolds

\* The type invariant after a step, variable by variable.
LEMMA TypedNext ==
  ASSUME row' \in [Event -> Row], req' \in [Request -> Requesting],
         run' \in [Sweep -> Sweeping], budget' \in 0 .. MaxFaults, provider' \in Provided,
         ghost' \in Remembered
  PROVE  TypeOK'
  BY DEF TypeOK, Requesting, Sweeping, Provided, Remembered

\* What stays typed when history or the provider's view grows, or a fault is spent.
LEMMA GrownIs ==
  ASSUME TypeOK, NEW e \in Event
  PROVE  /\ Handled(e) \in Remembered
         /\ [ghost EXCEPT !.stamped = @ \cup {e}] \in Remembered
         /\ [provider EXCEPT !.acked = @ \cup {e}] \in Provided
         /\ budget \in 0 .. MaxFaults
         /\ Fault => budget' \in 0 .. MaxFaults
<1>1. ghost \in Remembered /\ provider \in Provided BY Types
<1>2. budget \in 0 .. MaxFaults /\ MaxFaults \in Nat
  BY LedgerAssumption DEF TypeOK, LedgerAssumption
<1> QED BY <1>1, <1>2 DEF Handled, Remembered, Provided, Fault

\* A request goes on to dispatch the event it has.
LEMMA GoesOnStep ==
  ASSUME IInv, NEW q \in Request, req[q].step = "reread", GoesOn(q),
         row' = row, run' = run, ghost' = ghost, provider' = provider,
         budget' = budget \/ Fault
  PROVE  IInv'
<1> DEFINE e == req[q].event
           r == [req[q] EXCEPT !.step = "dispatch"]
<1>1. TypeOK /\ Working(q) BY DEF IInv, Working
<1>2. e \in Event BY <1>1, WorkedOnIsSafe
<1>3. r \in Requesting /\ r.event = e /\ r.spent = req[q].spent /\ r.step = "dispatch"
  BY <1>1, Types DEF Requesting
<1>4. req' = [req EXCEPT ![q] = r] BY DEF GoesOn
<1>5. TypeOK' BY <1>1, <1>2, <1>3, <1>4, Types, GrownIs, TypedNext
<1>6. \A x \in provider'.acked : x \in provider.acked OBVIOUS
<1> HIDE DEF r
<1> QED BY <1>1, <1>3, <1>4, <1>5, <1>6, RequestMoves

\* The handler returns: the event is handled, and its request stamps next.
LEMMA DispatchDoneStep ==
  ASSUME IInv, NEW q \in Request, DispatchDone(q) PROVE IInv'
<1> DEFINE e == req[q].event
           r == [req[q] EXCEPT !.step = "stamp"]
<1>1. TypeOK /\ Working(q) BY DEF IInv, DispatchDone, Working
<1>2. e \in Event BY <1>1, WorkedOnIsSafe
<1>3. r \in Requesting /\ r.event = e /\ r.spent = req[q].spent /\ r.step = "stamp"
  BY <1>1, Types DEF Requesting
<1>4. /\ req' = [req EXCEPT ![q] = r] /\ ghost' = Handled(e)
      /\ row' = row /\ run' = run /\ budget' = budget /\ provider' = provider
  BY DEF DispatchDone
<1>5. /\ ghost'.handled = ghost.handled \cup {e} /\ ghost'.stamped = ghost.stamped
      /\ ghost'.claims = ghost.claims
  BY <1>1, <1>4, Types DEF Handled, Remembered
<1>6. TypeOK' BY <1>1, <1>2, <1>3, <1>4, Types, GrownIs, TypedNext
<1> HIDE DEF r
<1> QED BY <1>1, <1>3, <1>4, <1>5, <1>6, RequestMoves

\* A request drops its event, and acknowledges it or not: an answer deferred, a
\* handler that threw, a stamp that failed, a worker that died.
LEMMA RequestDrops ==
  ASSUME IInv, NEW q \in Request, Working(q), req' = [req EXCEPT ![q] = RequestIdle],
         row' = row, run' = run, ghost' = ghost, budget' = budget \/ Fault,
         Acked(req[q].event) \/ provider' = provider
  PROVE  IInv'
<1> DEFINE e == req[q].event
<1>1. TypeOK BY DEF IInv
<1>2. e \in Event /\ (e \in ghost.handled \/ (row[e].present /\ ~row[e].processed))
  BY WorkedOnIsSafe
<1>3. RequestIdle \in Requesting /\ RequestIdle.step = "idle" BY IdleIs DEF RequestIdle
<1>4. provider' \in Provided /\ provider'.closed = provider.closed
      /\ provider'.acked \subseteq provider.acked \cup {e}
  BY <1>1, <1>2, Types, GrownIs DEF Acked, Provided
<1>5. TypeOK' BY <1>1, <1>2, <1>3, <1>4, Types, GrownIs, TypedNext
<1> QED BY <1>2, <1>3, <1>4, <1>5, RequestMoves

\* A delivery reads the stamp: the event is dispatched again, or acknowledged.
LEMMA RereadStep == ASSUME IInv, NEW q \in Request, Reread(q) PROVE IInv'
<1>1. Working(q) BY DEF Reread, Working
<1>2. CASE ~row[req[q].event].processed
  <2>1. GoesOn(q) /\ UNCHANGED << row, run, budget, ghost, provider >> BY <1>2 DEF Reread
  <2> QED BY <2>1, GoesOnStep DEF Reread
<1>3. CASE row[req[q].event].processed
  <2>1. req' = [req EXCEPT ![q] = RequestIdle] /\ Acked(req[q].event) BY <1>3 DEF Reread
  <2> QED BY <1>1, <2>1, RequestDrops DEF Reread
<1> QED BY <1>2, <1>3

\* A delivery fails to read the stamp, and dispatches.
LEMMA RereadErrsStep == ASSUME IInv, NEW q \in Request, RereadErrs(q) PROVE IInv'
  BY GoesOnStep DEF RereadErrs

\* A hangup nothing explains, or a cost the database refused, is acknowledged.
LEMMA DispatchDeferredStep ==
  ASSUME IInv, NEW q \in Request, DispatchDeferred(q) PROVE IInv'
  BY RequestDrops DEF DispatchDeferred, Working

\* A background task goes on to write its failure down.
LEMMA ToRead ==
  ASSUME IInv, NEW q \in Request, Working(q), KindOf[req[q].event] = "plain",
         req' = [req EXCEPT ![q] = [@ EXCEPT !.step = "read"]],
         row' = row, run' = run, ghost' = ghost, budget' = budget \/ Fault,
         Acked(req[q].event) \/ provider' = provider
  PROVE  IInv'
<1> DEFINE e == req[q].event
           r == [req[q] EXCEPT !.step = "read"]
<1>1. TypeOK BY DEF IInv
<1>2. e \in Event /\ (e \in ghost.handled \/ (row[e].present /\ ~row[e].processed))
  BY WorkedOnIsSafe
<1>3. r \in Requesting /\ r.event = e /\ r.spent = req[q].spent /\ r.step = "read"
  BY <1>1, Types DEF Requesting
<1>4. provider' \in Provided /\ provider'.closed = provider.closed
      /\ provider'.acked \subseteq provider.acked \cup {e}
  BY <1>1, <1>2, Types, GrownIs DEF Acked, Provided
<1>5. req' = [req EXCEPT ![q] = r] OBVIOUS
<1>6. TypeOK' BY <1>1, <1>2, <1>3, <1>4, <1>5, Types, GrownIs, TypedNext
<1>7. \A x \in provider'.acked :
        x \in provider.acked \/ x \in ghost'.handled \/ (row[x].present /\ ~row[x].processed)
  BY <1>2, <1>4
<1>8. /\ r.step # "idle" /\ r.step # "bump" /\ r.step # "stamp"
      /\ ghost'.stamped = ghost.stamped /\ ghost'.claims = ghost.claims
      /\ ghost.handled \subseteq ghost'.handled /\ KindOf[r.event] = "plain"
      /\ r.event = req[q].event
  BY <1>3
<1> HIDE DEF r, e
<1> QED BY <1>3, <1>4, <1>5, <1>6, <1>7, <1>8, RequestMoves

\* The handler throws.
LEMMA DispatchThrowsStep ==
  ASSUME IInv, NEW q \in Request, DispatchThrows(q) PROVE IInv'
<1>1. CASE KindOf[req[q].event] = "plain" BY <1>1, ToRead DEF DispatchThrows, Working
<1>2. CASE KindOf[req[q].event] # "plain" BY <1>2, RequestDrops DEF DispatchThrows, Working
<1> QED BY <1>1, <1>2

\* The stamp fails.
LEMMA StampFailsStep ==
  ASSUME IInv, NEW q \in Request, StampFails(q) PROVE IInv'
<1>1. CASE KindOf[req[q].event] = "plain" BY <1>1, ToRead DEF StampFails, Working
<1>2. CASE KindOf[req[q].event] # "plain" BY <1>2, RequestDrops DEF StampFails, Working
<1> QED BY <1>1, <1>2

\* The worker dies.
LEMMA RequestDiesStep ==
  ASSUME IInv, NEW q \in Request, RequestDies(q) PROVE IInv'
  BY RequestDrops DEF RequestDies, Working

\* A background task reads that nobody has counted an attempt before it.
LEMMA ReadAttemptsStep ==
  ASSUME IInv, NEW q \in Request, ReadAttempts(q) PROVE IInv'
<1> DEFINE e == req[q].event
           r == [req[q] EXCEPT !.step = "bump", !.read = row[e].attempts]
<1>1. TypeOK /\ Working(q) BY DEF IInv, ReadAttempts, Working
<1>2. Task(q) BY <1>1 DEF IInv, RequestsHold, ReadAttempts
<1>3. e \in Event /\ row[e].attempts = 0 BY <1>1, <1>2, WorkedOnIsSafe DEF IInv, TasksAreFirst
<1>4. 0 \in 0 .. MaxAttempts BY LedgerAssumption DEF LedgerAssumption
<1>5. /\ r \in Requesting /\ r.event = e /\ r.spent = req[q].spent
      /\ r.step = "bump" /\ r.read = 0 /\ KindOf[r.event] = "plain"
  BY <1>1, <1>2, <1>3, <1>4, Types DEF Requesting, Task
<1>6. /\ req' = [req EXCEPT ![q] = r] /\ row' = row /\ run' = run /\ budget' = budget
      /\ provider' = provider /\ ghost' = ghost
  BY <1>1, Types DEF ReadAttempts, Requesting
<1>7. TypeOK' BY <1>1, <1>5, <1>6, Types, GrownIs, TypedNext DEF TypeOK
<1>8. \A x \in provider'.acked : x \in provider.acked BY <1>6
<1> HIDE DEF r
<1> QED BY <1>1, <1>5, <1>6, <1>7, <1>8, RequestMoves

\* The stamp of a row that is there and was handled: nothing else of any row
\* changes, and what history says stays true.
LEMMA StampedIs ==
  ASSUME IInv, NEW e \in Event, row[e].present, e \in ghost.handled, row' = Stamped(e),
         ghost' = [ghost EXCEPT !.stamped = @ \cup {e}],
         provider'.closed = provider.closed, provider'.acked \subseteq provider.acked \cup {e}
  PROVE  /\ row' \in [Event -> Row]
         /\ \A x \in Event : /\ row'[x].present = row[x].present
                             /\ row'[x].attempts = row[x].attempts
                             /\ row'[x].age = row[x].age
                             /\ row'[x].claimAge = row[x].claimAge
         /\ ghost'.handled = ghost.handled
         /\ HistoryHolds' /\ ReplaysBounded' /\ AckedIsOwedOrHandled'
<1>1. TypeOK BY DEF IInv
<1>2. row \in [Event -> Row] /\ row' = [row EXCEPT ![e].processed = TRUE]
  BY <1>1, Types DEF Stamped, Row
<1>3. row' \in [Event -> Row] BY <1>2 DEF Row
<1>4. \A x \in Event : /\ row'[x].present = row[x].present
                       /\ row'[x].attempts = row[x].attempts
                       /\ row'[x].age = row[x].age
                       /\ row'[x].claimAge = row[x].claimAge
                       /\ x # e => row'[x].processed = row[x].processed
                       /\ x = e => row'[x].processed
  <2>1. \A x \in Event : x # e => row'[x] = row[x] BY <1>2
  <2>2. row[e] \in Row /\ row'[e] = [row[e] EXCEPT !.processed = TRUE] BY <1>2
  <2>3. /\ row'[e].present = row[e].present /\ row'[e].attempts = row[e].attempts
        /\ row'[e].age = row[e].age /\ row'[e].claimAge = row[e].claimAge
        /\ row'[e].processed = TRUE
    BY <2>2 DEF Row
  <2> QED BY <2>1, <2>3
<1>5. /\ ghost'.handled = ghost.handled /\ ghost'.claims = ghost.claims
      /\ ghost'.stamped = ghost.stamped \cup {e}
  BY <1>1, Types DEF Remembered
<1>6. HistoryHolds'
  <2> SUFFICES ASSUME NEW x \in Event
      PROVE /\ row'[x].present \/ x \in provider'.closed \/ ghost'.claims[x] = 0
            /\ row'[x].processed => row'[x].present /\ x \in ghost'.handled
            /\ x \in ghost'.stamped => IF row'[x].present THEN row'[x].processed
                                       ELSE x \in provider'.closed
    BY DEF HistoryHolds
  <2> QED BY <1>4, <1>5 DEF IInv, HistoryHolds
<1>7. ReplaysBounded' BY <1>4, <1>5 DEF IInv, ReplaysBounded
<1>8. AckedIsOwedOrHandled'
  <2>1. provider.acked \subseteq Event BY <1>1, Types DEF Provided
  <2> QED BY <1>4, <1>5, <2>1 DEF IInv, AckedIsOwedOrHandled, HistoryHolds
<1> QED BY <1>3, <1>4, <1>5, <1>6, <1>7, <1>8

\* The stamp of a request.
LEMMA StampStep ==
  ASSUME IInv, NEW q \in Request, Stamp(q) PROVE IInv'
<1> DEFINE e == req[q].event
<1>1. TypeOK /\ Working(q) /\ req[q].step = "stamp" BY DEF IInv, Stamp, Working
<1>2. e \in Event /\ row[e].present /\ e \in ghost.handled BY <1>1 DEF IInv, RequestsHold
<1>3. /\ row' = Stamped(e) /\ req' = [req EXCEPT ![q] = RequestIdle] /\ run' = run
      /\ budget' = budget /\ provider' = [provider EXCEPT !.acked = @ \cup {e}]
      /\ ghost' = [ghost EXCEPT !.stamped = @ \cup {e}]
  BY DEF Stamp, Acked
<1>4. provider'.closed = provider.closed /\ provider'.acked = provider.acked \cup {e}
  BY <1>1, <1>3, Types DEF Provided
<1>5. /\ row' \in [Event -> Row]
      /\ \A x \in Event : /\ row'[x].present = row[x].present
                          /\ row'[x].attempts = row[x].attempts
                          /\ row'[x].age = row[x].age
                          /\ row'[x].claimAge = row[x].claimAge
      /\ ghost'.handled = ghost.handled
      /\ HistoryHolds' /\ ReplaysBounded' /\ AckedIsOwedOrHandled'
  BY <1>2, <1>3, <1>4, StampedIs
<1>6. TypeOK'
  <2>1. req' \in [Request -> Requesting] BY <1>1, <1>3, Types, IdleIs
  <2>2. provider' \in Provided /\ ghost' \in Remembered BY <1>1, <1>2, <1>3, GrownIs
  <2> QED BY <1>1, <1>2, <1>3, <1>5, <2>1, <2>2, Types, GrownIs, TypedNext
<1>7. \A p \in Request : Working(p)' => Working(p) /\ req'[p] = req[p]
  BY <1>1, <1>3, Types DEF Working, RequestIdle
<1>8. RequestsHold' BY <1>5, <1>7 DEF IInv, RequestsHold, Task, Working
<1>9. TasksAreFirst'
  <2> SUFFICES ASSUME NEW p \in Request, Task(p)'
      PROVE /\ row'[req'[p].event].age <= req'[p].spent
            /\ row'[req'[p].event].attempts = 0
            /\ row'[req'[p].event].claimAge = Lease
            /\ \A o \in Request : Working(o)' /\ req'[o].event = req'[p].event => o = p
    BY DEF TasksAreFirst
  <2>1. Task(p) /\ req'[p] = req[p] BY <1>7 DEF Task
  <2>2. req[p].event \in Event BY <2>1, WorkedOnIsSafe DEF Task
  <2> QED BY <1>5, <1>7, <2>1, <2>2 DEF IInv, TasksAreFirst
<1>10. SweepsHold'
  <2>1. \A s \in Sweep : run[s].event # NoEvent => run[s].event \in Event
    BY <1>1, Types DEF Sweeping
  <2> QED BY <1>1, <1>3, <1>5, <2>1, QueuedIs DEF IInv, SweepsHold
<1>11. OneSweepPerRow' BY <1>3 DEF IInv, OneSweepPerRow
<1> QED BY <1>5, <1>6, <1>8, <1>9, <1>10, <1>11 DEF IInv

\* A background task writes down the first attempt: nobody was there before it,
\* and its row is in nobody else's hands.
LEMMA BumpAttemptsStep ==
  ASSUME IInv, NEW q \in Request, BumpAttempts(q) PROVE IInv'
<1> DEFINE e == req[q].event
<1>1. TypeOK /\ Working(q) /\ Task(q) /\ req[q].read = 0 /\ e \in Event /\ row[e].present
  BY DEF IInv, BumpAttempts, RequestsHold, Working
<1>2. 1 \in 0 .. MaxAttempts BY LedgerAssumption DEF LedgerAssumption
<1>3. /\ row' = [row EXCEPT ![e].attempts = 1] /\ req' = [req EXCEPT ![q] = RequestIdle]
      /\ run' = run /\ budget' = budget /\ provider' = provider /\ ghost' = ghost
  BY <1>1 DEF BumpAttempts
<1>4. row' \in [Event -> Row] BY <1>1, <1>2, <1>3, Types DEF Row
<1>5. \A x \in Event : /\ row'[x].present = row[x].present
                       /\ row'[x].processed = row[x].processed
                       /\ row'[x].age = row[x].age
                       /\ row'[x].claimAge = row[x].claimAge
                       /\ row'[x].attempts = IF x = e THEN 1 ELSE row[x].attempts
  BY <1>1, <1>3, Types DEF Row
<1>6. TypeOK' BY <1>1, <1>3, <1>4, Types, IdleIs, TypedNext DEF TypeOK
<1>7. \A p \in Request : Working(p)' => Working(p) /\ req'[p] = req[p] /\ p # q
  BY <1>1, <1>3, Types DEF Working, RequestIdle
<1>8. RequestsHold' BY <1>3, <1>5, <1>7 DEF IInv, RequestsHold, Task, Working
<1>9. TasksAreFirst'
  <2> SUFFICES ASSUME NEW p \in Request, Task(p)'
      PROVE /\ row'[req'[p].event].age <= req'[p].spent
            /\ row'[req'[p].event].attempts = 0
            /\ row'[req'[p].event].claimAge = Lease
            /\ \A o \in Request : Working(o)' /\ req'[o].event = req'[p].event => o = p
    BY DEF TasksAreFirst
  <2>1. Task(p) /\ req'[p] = req[p] /\ p # q BY <1>7 DEF Task
  <2>2. req[p].event \in Event BY <2>1, WorkedOnIsSafe DEF Task
  <2>3. req[p].event # e BY <1>1, <2>1 DEF IInv, TasksAreFirst, Task
  <2> QED BY <1>5, <1>7, <2>1, <2>2, <2>3 DEF IInv, TasksAreFirst
<1>10. SweepsHold'
  <2>1. \A s \in Sweep : run[s].event # NoEvent => run[s].event \in Event
    BY <1>1, Types DEF Sweeping
  <2> QED BY <1>1, <1>3, <1>5, <2>1, QueuedIs DEF IInv, SweepsHold
<1>11. OneSweepPerRow' BY <1>3 DEF IInv, OneSweepPerRow
<1>12. HistoryHolds' BY <1>3, <1>5 DEF IInv, HistoryHolds
<1>13. ReplaysBounded'
  <2>1. row[e].attempts = 0 /\ ghost.claims[e] <= 0 /\ ghost.claims[e] \in Nat
    BY <1>1, Types DEF IInv, TasksAreFirst, ReplaysBounded, Remembered
  <2> QED BY <1>3, <1>5, <2>1 DEF IInv, ReplaysBounded
<1>14. AckedIsOwedOrHandled'
  <2>1. provider.acked \subseteq Event BY <1>1, Types DEF Provided
  <2> QED BY <1>3, <1>5, <2>1 DEF IInv, AckedIsOwedOrHandled
<1> QED BY <1>6, <1>8, <1>9, <1>10, <1>11, <1>12, <1>13, <1>14 DEF IInv


(***************************************************************************)
(* The sweeper.                                                            *)
(***************************************************************************)
\* A step of a sweep that leaves the rows alone: it keeps the row it holds or
\* lets go of it, and means to claim only old rows.
LEMMA SweepMoves ==
  ASSUME IInv, TypeOK', NEW s \in Sweep, NEW r \in Sweeping, run' = [run EXCEPT ![s] = r],
         r.event # NoEvent <=> r.step \in {"handle", "stamp"},
         r.event # NoEvent => r.event = run[s].event /\ r.spent = run[s].spent,
         r.step = "stamp" => r.event \in ghost'.handled,
         \A item \in r.todo : row[item[1]].present /\ row[item[1]].age = MinAge,
         row' = row, req' = req, provider' = provider,
         ghost.handled \subseteq ghost'.handled,
         ghost'.stamped = ghost.stamped, ghost'.claims = ghost.claims
  PROVE  IInv'
<1>1. \A t \in Sweep : run'[t] = IF t = s THEN r ELSE run[t] BY Types DEF IInv
<1>2. RequestsHold' BY DEF IInv, RequestsHold, Working, Task
<1>3. TasksAreFirst' BY DEF IInv, TasksAreFirst, Working, Task
<1>4. SweepsHold' BY <1>1 DEF IInv, SweepsHold
<1>5. OneSweepPerRow' BY <1>1 DEF IInv, OneSweepPerRow
<1>6. HistoryHolds' BY DEF IInv, HistoryHolds
<1>7. ReplaysBounded' BY DEF IInv, ReplaysBounded
<1>8. AckedIsOwedOrHandled' BY DEF IInv, AckedIsOwedOrHandled
<1> QED BY <1>2, <1>3, <1>4, <1>5, <1>6, <1>7, <1>8 DEF IInv

\* A sweep on its way to the next of its rows holds none.
LEMMA NextRowIs ==
  ASSUME IInv, NEW s \in Sweep, NEW todo \in SUBSET run[s].todo
  PROVE  /\ NextRow(s, todo) \in Sweeping /\ NextRow(s, todo).event = NoEvent
         /\ NextRow(s, todo).step \in {"idle", "claim"}
         /\ NextRow(s, todo).todo = todo
         /\ \A item \in todo : row[item[1]].present /\ row[item[1]].age = MinAge
<1>1. run[s].todo \in SUBSET (Event \X (0 .. MaxAttempts - 1))
  BY Types DEF IInv, Sweeping
<1>2. SweepIdle \in Sweeping BY IdleIs
<1> QED BY <1>1, <1>2 DEF NextRow, Sweeping, SweepIdle, IInv, SweepsHold

\* A sweep goes on to its next row.
LEMMA SweepGoesOn ==
  ASSUME IInv, NEW s \in Sweep, NEW todo \in SUBSET run[s].todo,
         run' = [run EXCEPT ![s] = NextRow(s, todo)], budget' = budget \/ Fault,
         row' = row, req' = req, provider' = provider, ghost' = ghost
  PROVE  IInv'
<1>1. TypeOK BY DEF IInv
<1>2. NextRow(s, todo) \in Sweeping BY NextRowIs
<1>3. budget' \in 0 .. MaxFaults
  BY <1>1, LedgerAssumption DEF TypeOK, Fault, LedgerAssumption
<1>4. TypeOK' BY <1>1, <1>2, <1>3, Types, TypedNext
<1> DEFINE r == NextRow(s, todo)
<1>5. /\ r.event = NoEvent /\ r.step \notin {"handle", "stamp"}
      /\ \A item \in r.todo : row[item[1]].present /\ row[item[1]].age = MinAge
  BY NextRowIs
<1>6. r \in Sweeping /\ run' = [run EXCEPT ![s] = r] BY <1>2
<1> HIDE DEF r
<1> QED BY <1>4, <1>5, <1>6, SweepMoves

\* The query.
LEMMA SweepStartsStep ==
  ASSUME IInv, NEW s \in Sweep, SweepStarts(s) PROVE IInv'
<1> DEFINE todo == {<< e, row[e].attempts >> : e \in {x \in Event : Owed(x)}}
           r    == [SweepIdle EXCEPT !.todo = todo, !.step = "claim"]
<1>1. TypeOK BY DEF IInv
<1>2. \A item \in todo : item \in Event \X (0 .. MaxAttempts - 1)
  <2> SUFFICES ASSUME NEW e \in Event, Owed(e)
      PROVE << e, row[e].attempts >> \in Event \X (0 .. MaxAttempts - 1)
    OBVIOUS
  <2>1. row[e].attempts \in 0 .. MaxAttempts /\ row[e].attempts < MaxAttempts
    BY <1>1, Types DEF Owed, Row
  <2> QED BY <2>1, LedgerAssumption DEF LedgerAssumption
<1>3. \A item \in todo : row[item[1]].present /\ row[item[1]].age = MinAge BY DEF Owed
<1>4. /\ r \in Sweeping /\ r.event = NoEvent /\ r.step = "claim" /\ r.todo = todo
  BY <1>2, IdleIs DEF Sweeping, SweepIdle
<1>5. /\ run' = [run EXCEPT ![s] = r] /\ row' = row /\ req' = req /\ budget' = budget
      /\ provider' = provider /\ ghost' = ghost
  BY DEF SweepStarts
<1> HIDE DEF r, todo
<1>6. TypeOK' BY <1>1, <1>4, <1>5, Types, TypedNext DEF TypeOK
<1> QED BY <1>3, <1>4, <1>5, <1>6, SweepMoves

\* What a claim does to the row, and to what is known of it: no background task
\* works on it any more, and its count stays ahead of the claims won.
LEMMA ClaimedIs ==
  ASSUME IInv, NEW s \in Sweep, NEW item \in run[s].todo, NEW e, e = item[1],
         Claimable(e, item[2]), row' = Claimed(e), req' = req, provider' = provider,
         ghost' = ghost \/ ghost' = [ghost EXCEPT !.claims[e] = @ + 1]
  PROVE  /\ row' \in [Event -> Row] /\ ghost' \in Remembered
         /\ ghost'.handled = ghost.handled
         /\ \A x \in Event : /\ x # e => row'[x] = row[x]
                             /\ row'[x].present = row[x].present
                             /\ row'[x].age = row[x].age
         /\ row'[e].claimAge = 0
         /\ RequestsHold' /\ TasksAreFirst' /\ HistoryHolds' /\ ReplaysBounded'
         /\ AckedIsOwedOrHandled'
<1>1. TypeOK BY DEF IInv
<1>2. /\ e \in Event /\ row[e].present /\ ~row[e].processed
      /\ row[e].attempts \in 0 .. MaxAttempts - 1
  BY <1>1, QueuedIs DEF Claimable
<1>3. /\ row[e].attempts + 1 \in 0 .. MaxAttempts /\ 0 \in 0 .. Lease
  BY <1>2, LedgerAssumption DEF LedgerAssumption
<1>4. row[e] \in Row
      /\ row' = [row EXCEPT ![e] = [row[e] EXCEPT !.attempts = @ + 1, !.claimAge = 0]]
  BY <1>1, <1>2, Types DEF Claimed
<1>5. /\ row'[e].present /\ ~row'[e].processed /\ row'[e].age = row[e].age
      /\ row'[e].attempts = row[e].attempts + 1 /\ row'[e].claimAge = 0 /\ row'[e] \in Row
  <2>1. row'[e] = [row[e] EXCEPT !.attempts = @ + 1, !.claimAge = 0]
    BY <1>1, <1>2, <1>4, Types
  <2> QED BY <1>2, <1>3, <1>4, <2>1 DEF Row
<1>6. \A x \in Event : x # e => row'[x] = row[x] BY <1>1, <1>4, Types
<1>7. row' \in [Event -> Row] BY <1>1, <1>4, <1>5, <1>6, Types
<1>8. /\ ghost'.handled = ghost.handled /\ ghost'.stamped = ghost.stamped
      /\ ghost'.claims \in [Event -> Nat]
      /\ \A x \in Event : x # e => ghost'.claims[x] = ghost.claims[x]
      /\ ghost'.claims[e] <= ghost.claims[e] + 1 /\ ghost.claims[e] <= row[e].attempts
  BY <1>1, <1>2, Types DEF Remembered, IInv, ReplaysBounded
<1>9. ghost' \in Remembered
  <2>1. ghost.claims[e] \in Nat BY <1>1, <1>2, Types DEF Remembered
  <2>2. ghost.claims[e] + 1 \in 0 .. MaxAttempts BY <1>2, <1>3, <1>8, <2>1, LedgerAssumption DEF LedgerAssumption
  <2> QED BY <1>1, <1>2, <2>2, Types DEF Remembered
<1>10. \A q \in Request : Task(q) => req[q].event # e BY OldRowsHaveNoTask
<1>11. RequestsHold' BY <1>5, <1>6, <1>8 DEF IInv, RequestsHold, Working, Task
<1>12. TasksAreFirst'
  <2> SUFFICES ASSUME NEW p \in Request, Task(p)
      PROVE /\ row'[req[p].event].age <= req[p].spent
            /\ row'[req[p].event].attempts = 0
            /\ row'[req[p].event].claimAge = Lease
            /\ \A o \in Request : Working(o) /\ req[o].event = req[p].event => o = p
    BY DEF TasksAreFirst, Task, Working
  <2>1. req[p].event \in Event /\ req[p].event # e BY <1>10, WorkedOnIsSafe DEF Task
  <2> QED BY <1>6, <2>1 DEF IInv, TasksAreFirst
<1>13. HistoryHolds' BY <1>2, <1>5, <1>6, <1>8 DEF IInv, HistoryHolds
<1>14. ReplaysBounded'
  <2>1. ghost'.claims[e] <= row'[e].attempts
    <3>1. ghost'.claims[e] \in Nat /\ ghost.claims[e] \in Nat
      BY <1>1, <1>2, <1>8, Types DEF Remembered
    <3> QED BY <1>2, <1>5, <1>8, <3>1
  <2> QED BY <1>6, <1>8, <2>1 DEF IInv, ReplaysBounded
<1>15. AckedIsOwedOrHandled'
  <2>1. provider.acked \subseteq Event BY <1>1, Types DEF Provided
  <2> QED BY <1>2, <1>5, <1>6, <1>8, <2>1 DEF IInv, AckedIsOwedOrHandled
<1>16. \A x \in Event : /\ x # e => row'[x] = row[x]
                        /\ row'[x].present = row[x].present
                        /\ row'[x].age = row[x].age
  <2> SUFFICES ASSUME NEW x \in Event
      PROVE row'[x].present = row[x].present /\ row'[x].age = row[x].age
    BY <1>6
  <2>1. row'[e].present = row[e].present
    <3>1. row[e].present \in BOOLEAN /\ row'[e].present \in BOOLEAN BY <1>4, <1>5 DEF Row
    <3> QED BY <1>2, <1>5, <3>1, Zenon
  <2> QED BY <1>5, <1>6, <2>1
<1> QED BY <1>5, <1>7, <1>8, <1>9, <1>11, <1>12, <1>13, <1>14, <1>15, <1>16


\* A sweep claims a row: nobody held it, and its lease starts with the handler.
LEMMA ClaimStep ==
  ASSUME IInv, NEW s \in Sweep, NEW item \in run[s].todo, Claim(s, item) PROVE IInv'
<1> DEFINE e == item[1]
           r == [todo |-> run[s].todo \ {item}, event |-> e, step |-> "handle", spent |-> 0]
<1>1. TypeOK /\ e \in Event BY QueuedIs DEF IInv
<1>2. /\ Claimable(e, item[2]) /\ row' = Claimed(e) /\ run' = [run EXCEPT ![s] = r]
      /\ req' = req /\ budget' = budget /\ provider' = provider
      /\ ghost' = [ghost EXCEPT !.claims[e] = @ + 1]
  BY DEF Claim
<1>3. /\ row' \in [Event -> Row] /\ ghost' \in Remembered /\ ghost'.handled = ghost.handled
      /\ \A x \in Event : /\ x # e => row'[x] = row[x]
                          /\ row'[x].present = row[x].present
                          /\ row'[x].age = row[x].age
      /\ row'[e].claimAge = 0
      /\ RequestsHold' /\ TasksAreFirst' /\ HistoryHolds' /\ ReplaysBounded'
      /\ AckedIsOwedOrHandled'
  BY <1>2, ClaimedIs
<1>4. r \in Sweeping
  <2>1. run[s].todo \ {item} \in SUBSET (Event \X (0 .. MaxAttempts - 1))
    BY <1>1, Types DEF Sweeping
  <2>2. 0 \in 0 .. HandlerLife BY LedgerAssumption DEF LedgerAssumption
  <2> QED BY <1>1, <2>1, <2>2 DEF Sweeping
<1>5. TypeOK' BY <1>1, <1>2, <1>3, <1>4, Types, TypedNext DEF TypeOK
<1>6. \A t \in Sweep : run'[t] = IF t = s THEN r ELSE run[t] BY <1>1, <1>2, Types
<1>7. \A t \in Sweep : run[t].event # NoEvent => run[t].event \in Event /\ run[t].event # e
  <2>1. \A t \in Sweep : run[t].event # NoEvent => run[t].event \in Event
    BY <1>1, Types DEF Sweeping
  <2>2. Unclaimed(e) BY <1>2 DEF Claimable
  <2> QED BY <1>1, <2>1, <2>2, ClaimableIsFree
<1>8. SweepsHold'
  <2> SUFFICES ASSUME NEW t \in Sweep
      PROVE /\ run'[t].event # NoEvent <=> run'[t].step \in {"handle", "stamp"}
            /\ run'[t].event # NoEvent => /\ row'[run'[t].event].present
                                          /\ row'[run'[t].event].claimAge <= run'[t].spent
            /\ run'[t].step = "stamp" => run'[t].event \in ghost'.handled
            /\ \A i \in run'[t].todo : row'[i[1]].present /\ row'[i[1]].age = MinAge
    BY DEF SweepsHold
  <2>1. \A i \in run'[t].todo : i \in run[t].todo BY <1>6
  <2>2. \A i \in run'[t].todo : row'[i[1]].present /\ row'[i[1]].age = MinAge
    BY <1>1, <1>3, <2>1, QueuedIs DEF IInv, SweepsHold
  <2>3. CASE t = s
    <3>1. e # NoEvent /\ row[e].present BY <1>1, <1>2, LedgerAssumption
                                        DEF LedgerAssumption, Claimable
    <3> QED BY <1>1, <1>3, <1>6, <2>2, <2>3, <3>1
  <2>4. CASE t # s BY <1>3, <1>6, <1>7, <2>2, <2>4 DEF IInv, SweepsHold
  <2> QED BY <2>3, <2>4
<1>9. OneSweepPerRow' BY <1>6, <1>7 DEF IInv, OneSweepPerRow
<1> QED BY <1>3, <1>5, <1>8, <1>9 DEF IInv

\* The claim's answer is an error: the run goes on, and a claim that was made all
\* the same starts a lease that nobody holds.
LEMMA ClaimErrsStep ==
  ASSUME IInv, NEW s \in Sweep, NEW item \in run[s].todo, ClaimErrs(s, item) PROVE IInv'
<1> DEFINE e == item[1]
           todo == run[s].todo \ {item}
<1>1. TypeOK /\ e \in Event /\ todo \in SUBSET run[s].todo BY QueuedIs DEF IInv
<1>2. /\ run' = [run EXCEPT ![s] = NextRow(s, todo)] /\ Fault
      /\ req' = req /\ provider' = provider /\ ghost' = ghost
  BY DEF ClaimErrs
<1>3. CASE row' = row
  <2> HIDE DEF todo
  <2> QED BY <1>1, <1>2, <1>3, SweepGoesOn
<1>4. CASE Claimable(e, item[2]) /\ row' = Claimed(e)
  <2>1. /\ row' \in [Event -> Row] /\ ghost' \in Remembered
        /\ \A x \in Event : /\ x # e => row'[x] = row[x]
                            /\ row'[x].present = row[x].present
                            /\ row'[x].age = row[x].age
        /\ RequestsHold' /\ TasksAreFirst' /\ HistoryHolds' /\ ReplaysBounded'
        /\ AckedIsOwedOrHandled'
    BY <1>2, <1>4, ClaimedIs
  <2>2. /\ NextRow(s, todo) \in Sweeping /\ NextRow(s, todo).event = NoEvent
        /\ NextRow(s, todo).step \notin {"handle", "stamp"}
        /\ NextRow(s, todo).todo = todo
    BY <1>1, NextRowIs
  <2>3. budget' \in 0 .. MaxFaults BY <1>1, <1>2, GrownIs
  <2>4. TypeOK' BY <1>1, <1>2, <2>1, <2>2, <2>3, Types, TypedNext
  <2>5. \A t \in Sweep : run'[t] = IF t = s THEN NextRow(s, todo) ELSE run[t]
    BY <1>1, <1>2, Types
  <2>6. \A t \in Sweep : run[t].event # NoEvent => run[t].event \in Event /\ run[t].event # e
    <3>1. \A t \in Sweep : run[t].event # NoEvent => run[t].event \in Event
      BY <1>1, Types DEF Sweeping
    <3>2. Unclaimed(e) BY <1>4 DEF Claimable
    <3> QED BY <1>1, <3>1, <3>2, ClaimableIsFree
  <2>7. SweepsHold'
    <3> SUFFICES ASSUME NEW t \in Sweep
        PROVE /\ run'[t].event # NoEvent <=> run'[t].step \in {"handle", "stamp"}
              /\ run'[t].event # NoEvent => /\ row'[run'[t].event].present
                                            /\ row'[run'[t].event].claimAge <= run'[t].spent
              /\ run'[t].step = "stamp" => run'[t].event \in ghost'.handled
              /\ \A i \in run'[t].todo : row'[i[1]].present /\ row'[i[1]].age = MinAge
      BY DEF SweepsHold
    <3>1. \A i \in run'[t].todo : i \in run[t].todo BY <2>2, <2>5
    <3>2. \A i \in run'[t].todo : row'[i[1]].present /\ row'[i[1]].age = MinAge
      BY <1>1, <2>1, <3>1, QueuedIs DEF IInv, SweepsHold
    <3>3. CASE t = s BY <2>2, <2>5, <3>2, <3>3
    <3>4. CASE t # s BY <1>2, <2>1, <2>5, <2>6, <3>2, <3>4 DEF IInv, SweepsHold
    <3> QED BY <3>3, <3>4
  <2>8. OneSweepPerRow' BY <2>2, <2>5 DEF IInv, OneSweepPerRow
  <2> QED BY <2>1, <2>4, <2>7, <2>8 DEF IInv
<1> QED BY <1>3, <1>4 DEF ClaimErrs

\* Somebody else owns the row: the run goes on.
LEMMA ClaimLostStep ==
  ASSUME IInv, NEW s \in Sweep, NEW item \in run[s].todo, ClaimLost(s, item) PROVE IInv'
  BY SweepGoesOn DEF ClaimLost

\* The handler of a sweep returns.
LEMMA SweepDoneStep ==
  ASSUME IInv, NEW s \in Sweep, SweepDone(s) PROVE IInv'
<1> DEFINE e == run[s].event
           r == [run[s] EXCEPT !.step = "stamp"]
<1>1. TypeOK /\ e # NoEvent BY DEF IInv, SweepsHold, SweepDone
<1>2. e \in Event BY <1>1, Types DEF Sweeping
<1>3. r \in Sweeping /\ r.event = e /\ r.spent = run[s].spent /\ r.step = "stamp"
      /\ r.todo = run[s].todo
  BY <1>1, Types DEF Sweeping
<1>4. /\ run' = [run EXCEPT ![s] = r] /\ ghost' = Handled(e)
      /\ row' = row /\ req' = req /\ budget' = budget /\ provider' = provider
  BY DEF SweepDone
<1>5. /\ ghost'.handled = ghost.handled \cup {e} /\ ghost'.stamped = ghost.stamped
      /\ ghost'.claims = ghost.claims
  BY <1>1, <1>4, Types DEF Handled, Remembered
<1>6. TypeOK' BY <1>1, <1>2, <1>3, <1>4, Types, GrownIs, TypedNext
<1>7. \A item \in r.todo : row[item[1]].present /\ row[item[1]].age = MinAge
  BY <1>3 DEF IInv, SweepsHold
<1>8. r.event = run[s].event /\ r.event # NoEvent /\ r.event \in ghost'.handled
  BY <1>1, <1>3, <1>5
<1> HIDE DEF r, e
<1> QED BY <1>3, <1>4, <1>5, <1>6, <1>7, <1>8, SweepMoves

\* The handler throws, or the stamp fails: the run goes on.
LEMMA SweepFailsStep ==
  ASSUME IInv, NEW s \in Sweep, SweepFails(s) PROVE IInv'
<1>1. /\ run' = [run EXCEPT ![s] = NextRow(s, run[s].todo)] /\ (budget' = budget \/ Fault)
      /\ row' = row /\ req' = req /\ provider' = provider /\ ghost' = ghost
  BY DEF SweepFails
<1> QED BY <1>1, SweepGoesOn

\* The stamp of a sweep.
LEMMA SweepStampsStep ==
  ASSUME IInv, NEW s \in Sweep, SweepStamps(s) PROVE IInv'
<1> DEFINE e == run[s].event
           r == NextRow(s, run[s].todo)
<1>1. TypeOK /\ e # NoEvent /\ row[e].present /\ e \in ghost.handled
  BY DEF IInv, SweepsHold, SweepStamps
<1>2. e \in Event BY <1>1, Types DEF Sweeping
<1>3. /\ row' = Stamped(e) /\ run' = [run EXCEPT ![s] = r] /\ req' = req
      /\ budget' = budget /\ provider' = provider
      /\ ghost' = [ghost EXCEPT !.stamped = @ \cup {e}]
  BY DEF SweepStamps
<1>4. /\ row' \in [Event -> Row]
      /\ \A x \in Event : /\ row'[x].present = row[x].present
                          /\ row'[x].attempts = row[x].attempts
                          /\ row'[x].age = row[x].age
                          /\ row'[x].claimAge = row[x].claimAge
      /\ ghost'.handled = ghost.handled
      /\ HistoryHolds' /\ ReplaysBounded' /\ AckedIsOwedOrHandled'
  BY <1>1, <1>2, <1>3, StampedIs
<1>5. /\ r \in Sweeping /\ r.event = NoEvent /\ r.step \notin {"handle", "stamp"}
      /\ r.todo = run[s].todo
  BY NextRowIs
<1> HIDE DEF r
<1>6. TypeOK'
  <2>1. ghost' \in Remembered BY <1>1, <1>2, <1>3, GrownIs
  <2>2. run' \in [Sweep -> Sweeping] BY <1>1, <1>3, <1>5, Types
  <2> QED BY <1>1, <1>3, <1>4, <2>1, <2>2, Types, TypedNext DEF TypeOK
<1>7. \A t \in Sweep : run'[t] = IF t = s THEN r ELSE run[t] BY <1>1, <1>3, Types
<1>8. RequestsHold' BY <1>3, <1>4 DEF IInv, RequestsHold, Working, Task
<1>9. TasksAreFirst'
  <2> SUFFICES ASSUME NEW p \in Request, Task(p)
      PROVE /\ row'[req[p].event].age <= req[p].spent
            /\ row'[req[p].event].attempts = 0
            /\ row'[req[p].event].claimAge = Lease
            /\ \A o \in Request : Working(o) /\ req[o].event = req[p].event => o = p
    BY <1>3 DEF TasksAreFirst, Task, Working
  <2>1. req[p].event \in Event BY WorkedOnIsSafe DEF Task
  <2> QED BY <1>4, <2>1 DEF IInv, TasksAreFirst
<1>10. SweepsHold'
  <2>1. \A t \in Sweep : run[t].event # NoEvent => run[t].event \in Event
    BY <1>1, Types DEF Sweeping
  <2> QED BY <1>1, <1>4, <1>5, <1>7, <2>1, QueuedIs DEF IInv, SweepsHold
<1>11. OneSweepPerRow' BY <1>5, <1>7 DEF IInv, OneSweepPerRow
<1> QED BY <1>4, <1>6, <1>8, <1>9, <1>10, <1>11 DEF IInv

\* The worker of a sweep dies, with the rows it meant to claim.
LEMMA SweepDiesStep ==
  ASSUME IInv, NEW s \in Sweep, SweepDies(s) PROVE IInv'
<1>1. TypeOK BY DEF IInv
<1>2. /\ SweepIdle \in Sweeping /\ SweepIdle.event = NoEvent /\ SweepIdle.todo = {}
      /\ SweepIdle.step = "idle"
  BY IdleIs DEF SweepIdle
<1>3. /\ run' = [run EXCEPT ![s] = SweepIdle] /\ Fault
      /\ row' = row /\ req' = req /\ provider' = provider /\ ghost' = ghost
  BY DEF SweepDies
<1>4. budget' \in 0 .. MaxFaults
  BY <1>1, <1>3, LedgerAssumption DEF TypeOK, Fault, LedgerAssumption
<1>5. TypeOK' BY <1>1, <1>2, <1>3, <1>4, Types, TypedNext
<1> QED BY <1>2, <1>3, <1>5, SweepMoves


(***************************************************************************)
(* Retention and time.                                                     *)
(***************************************************************************)
\* Retention removes a processed row that nobody works on, and the provider is
\* done with the event.
LEMMA PruneStep ==
  ASSUME IInv, NEW e \in Event, Prune(e) PROVE IInv'
<1>1. TypeOK BY DEF IInv
<1>2. /\ row' = [row EXCEPT ![e] = NoRow] /\ req' = req /\ run' = run /\ budget' = budget
      /\ provider' = [provider EXCEPT !.closed = @ \cup {e}] /\ ghost' = ghost
      /\ row[e].present /\ row[e].processed
  BY DEF Prune
<1>3. \A x \in Event : row'[x] = IF x = e THEN NoRow ELSE row[x] BY <1>1, <1>2, Types
<1>4. /\ provider'.closed = provider.closed \cup {e} /\ provider'.acked = provider.acked
      /\ provider' \in Provided
  BY <1>1, <1>2, Types DEF Provided
<1>5. ~NoRow.present /\ ~NoRow.processed /\ NoRow \in Row BY FreshRowIs DEF NoRow
<1>6. /\ \A q \in Request : req[q].event # e
      /\ \A s \in Sweep : run[s].event # e /\ \A item \in run[s].todo : item[1] # e
  BY DEF Prune, Busy
<1>7. TypeOK'
  <2>1. row' \in [Event -> Row] BY <1>1, <1>2, <1>5, Types
  <2> QED BY <1>1, <1>2, <1>4, <2>1, Types, TypedNext DEF TypeOK
<1>8. RequestsHold' BY <1>2, <1>3, <1>6 DEF IInv, RequestsHold, Working, Task
<1>9. TasksAreFirst'
  <2> SUFFICES ASSUME NEW p \in Request, Task(p)
      PROVE /\ row'[req[p].event].age <= req[p].spent
            /\ row'[req[p].event].attempts = 0
            /\ row'[req[p].event].claimAge = Lease
            /\ \A o \in Request : Working(o) /\ req[o].event = req[p].event => o = p
    BY <1>2 DEF TasksAreFirst, Task, Working
  <2>1. req[p].event \in Event BY WorkedOnIsSafe DEF Task
  <2> QED BY <1>3, <1>6, <2>1 DEF IInv, TasksAreFirst
<1>10. SweepsHold'
  <2>1. \A t \in Sweep : run[t].event # NoEvent => run[t].event \in Event
    BY <1>1, Types DEF Sweeping
  <2>2. \A t \in Sweep : \A item \in run[t].todo : row'[item[1]] = row[item[1]]
    BY <1>1, <1>3, <1>6, QueuedIs
  <2>3. \A t \in Sweep : run[t].event # NoEvent => row'[run[t].event] = row[run[t].event]
    BY <1>3, <1>6, <2>1
  <2> QED BY <1>2, <2>2, <2>3 DEF IInv, SweepsHold
<1>11. OneSweepPerRow' BY <1>2 DEF IInv, OneSweepPerRow
<1>12. HistoryHolds' BY <1>2, <1>3, <1>4, <1>5 DEF IInv, HistoryHolds
<1>13. ReplaysBounded' BY <1>2, <1>3, <1>5 DEF IInv, ReplaysBounded
<1>14. AckedIsOwedOrHandled'
  <2>1. e \in ghost.handled BY <1>2 DEF IInv, HistoryHolds
  <2>2. provider.acked \subseteq Event BY <1>1, Types DEF Provided
  <2> QED BY <1>2, <1>3, <1>4, <2>1, <2>2 DEF IInv, AckedIsOwedOrHandled
<1> QED BY <1>7, <1>8, <1>9, <1>10, <1>11, <1>12, <1>13, <1>14 DEF IInv

\* An age that saturates grows no faster than the time spent.
LEMMA SaturatedIs ==
  ASSUME NEW bound \in Nat, NEW age \in 0 .. bound
  PROVE  /\ Saturated(age, bound) \in 0 .. bound
         /\ age = bound => Saturated(age, bound) = bound
         /\ \A spent \in Nat : age <= spent => Saturated(age, bound) <= spent + 1
  BY DEF Saturated

\* Time passes for rows, requests and sweeps alike.
LEMMA TickStep == ASSUME IInv, Tick PROVE IInv'
<1>1. TypeOK BY DEF IInv
<1>2. /\ budget' = budget /\ provider' = provider /\ ghost' = ghost
      /\ \A q \in Request : Working(q) => req[q].spent < TaskLife
      /\ \A s \in Sweep : run[s].event # NoEvent => run[s].spent < HandlerLife
  BY DEF Tick, Working
<1>3. /\ row' \in [Event -> Row]
      /\ \A x \in Event :
           /\ row'[x].present = row[x].present /\ row'[x].processed = row[x].processed
           /\ row'[x].attempts = row[x].attempts
           /\ row[x].age = MinAge => row'[x].age = MinAge
           /\ row[x].claimAge = Lease => row'[x].claimAge = Lease
           /\ \A spent \in Nat : row[x].age <= spent => row'[x].age <= spent + 1
           /\ \A spent \in Nat : row[x].claimAge <= spent => row'[x].claimAge <= spent + 1
  <2> DEFINE older(x) == [row[x] EXCEPT !.age = Saturated(@, MinAge),
                                        !.claimAge = Saturated(@, Lease)]
  <2>1. row' = [x \in Event |-> IF row[x].present THEN older(x) ELSE row[x]] BY DEF Tick
  <2>2. MinAge \in Nat /\ Lease \in Nat BY LedgerAssumption DEF LedgerAssumption
  <2>3. ASSUME NEW x \in Event
        PROVE /\ row'[x] \in Row
              /\ row'[x].present = row[x].present /\ row'[x].processed = row[x].processed
              /\ row'[x].attempts = row[x].attempts
              /\ row[x].age = MinAge => row'[x].age = MinAge
              /\ row[x].claimAge = Lease => row'[x].claimAge = Lease
              /\ \A spent \in Nat : row[x].age <= spent => row'[x].age <= spent + 1
              /\ \A spent \in Nat : row[x].claimAge <= spent => row'[x].claimAge <= spent + 1
    <3>1. row[x] \in Row BY <1>1, <2>3, Types
    <3>2. row[x].age \in 0 .. MinAge /\ row[x].claimAge \in 0 .. Lease BY <3>1 DEF Row
    <3>3. CASE row[x].present
      <4>1. row'[x] = older(x) BY <2>1, <2>3, <3>3
      <4>2. /\ older(x).present = row[x].present /\ older(x).processed = row[x].processed
            /\ older(x).attempts = row[x].attempts
            /\ older(x).age = Saturated(row[x].age, MinAge)
            /\ older(x).claimAge = Saturated(row[x].claimAge, Lease)
        BY <3>1 DEF Row
      <4>3. /\ Saturated(row[x].age, MinAge) \in 0 .. MinAge
            /\ Saturated(row[x].claimAge, Lease) \in 0 .. Lease
        BY <2>2, <3>2, SaturatedIs
      <4>4. older(x) \in Row BY <3>1, <4>3 DEF Row
      <4> HIDE DEF older
      <4> QED BY <2>2, <3>2, <4>1, <4>2, <4>4, SaturatedIs
    <3>4. CASE ~row[x].present
      <4>1. row'[x] = row[x] BY <2>1, <2>3, <3>4
      <4> QED BY <2>2, <3>1, <3>2, <4>1
    <3> QED BY <3>3, <3>4
  <2> QED BY <2>1, <2>3
<1>4. /\ req' \in [Request -> Requesting]
      /\ \A q \in Request : /\ Working(q)' <=> Working(q)
                            /\ req'[q].event = req[q].event /\ req'[q].step = req[q].step
                            /\ req'[q].read = req[q].read
                            /\ Working(q) => req'[q].spent = req[q].spent + 1
  <2>1. req' = [q \in Request |-> IF req[q].step = "idle" THEN req[q]
                                  ELSE [req[q] EXCEPT !.spent = @ + 1]]
    BY DEF Tick
  <2>2. TaskLife \in Nat BY LedgerAssumption DEF LedgerAssumption
  <2>3. req \in [Request -> Requesting] BY <1>1, Types
  <2>4. \A q \in Request : Working(q) => [req[q] EXCEPT !.spent = @ + 1] \in Requesting
    BY <1>2, <2>2, <2>3 DEF Requesting
  <2> QED BY <2>1, <2>3, <2>4 DEF Working, Requesting
<1>5. /\ run' \in [Sweep -> Sweeping]
      /\ \A s \in Sweep : /\ run'[s].event = run[s].event /\ run'[s].step = run[s].step
                          /\ run'[s].todo = run[s].todo
                          /\ run[s].event # NoEvent => run'[s].spent = run[s].spent + 1
  <2>1. run' = [s \in Sweep |-> IF run[s].event = NoEvent THEN run[s]
                                ELSE [run[s] EXCEPT !.spent = @ + 1]]
    BY DEF Tick
  <2>2. HandlerLife \in Nat BY LedgerAssumption DEF LedgerAssumption
  <2>3. run \in [Sweep -> Sweeping] BY <1>1, Types
  <2>4. \A s \in Sweep : run[s].event # NoEvent => [run[s] EXCEPT !.spent = @ + 1] \in Sweeping
    BY <1>2, <2>2, <2>3 DEF Sweeping
  <2> QED BY <2>1, <2>3, <2>4 DEF Sweeping
<1>6. TypeOK' BY <1>1, <1>2, <1>3, <1>4, <1>5, Types, TypedNext DEF TypeOK
<1>7. RequestsHold' BY <1>2, <1>3, <1>4 DEF IInv, RequestsHold, Task
<1>8. TasksAreFirst'
  <2> SUFFICES ASSUME NEW p \in Request, Task(p)
      PROVE /\ row'[req'[p].event].age <= req'[p].spent
            /\ row'[req'[p].event].attempts = 0
            /\ row'[req'[p].event].claimAge = Lease
            /\ \A o \in Request : Working(o)' /\ req'[o].event = req'[p].event => o = p
    BY <1>4 DEF TasksAreFirst, Task
  <2>1. req[p].event \in Event /\ req[p].spent \in Nat
    BY <1>1, Types, WorkedOnIsSafe DEF Task, Requesting
  <2> QED BY <1>3, <1>4, <2>1 DEF IInv, TasksAreFirst, Task
<1>9. SweepsHold'
  <2>1. \A t \in Sweep : /\ run[t].event # NoEvent => run[t].event \in Event
                         /\ run[t].spent \in Nat
    BY <1>1, Types DEF Sweeping
  <2> QED BY <1>1, <1>2, <1>3, <1>5, <2>1, QueuedIs DEF IInv, SweepsHold
<1>10. OneSweepPerRow' BY <1>5 DEF IInv, OneSweepPerRow
<1>11. HistoryHolds' BY <1>2, <1>3 DEF IInv, HistoryHolds
<1>12. ReplaysBounded' BY <1>2, <1>3 DEF IInv, ReplaysBounded
<1>13. AckedIsOwedOrHandled'
  <2>1. provider.acked \subseteq Event BY <1>1, Types DEF Provided
  <2> QED BY <1>2, <1>3, <2>1 DEF IInv, AckedIsOwedOrHandled
<1> QED BY <1>6, <1>7, <1>8, <1>9, <1>10, <1>11, <1>12, <1>13 DEF IInv

(***************************************************************************)
(* The specification.                                                      *)
(***************************************************************************)
LEMMA Start == Init => IInv
<1> SUFFICES ASSUME Init PROVE IInv OBVIOUS
<1>1. TypeOK
  <2>1. row \in [Event -> Row] BY FreshRowIs DEF Init
  <2>2. req \in [Request -> Requesting] /\ run \in [Sweep -> Sweeping] BY IdleIs DEF Init
  <2>3. 0 \in 0 .. MaxPosts /\ MaxFaults \in 0 .. MaxFaults /\ 0 \in 0 .. MaxAttempts
    BY LedgerAssumption DEF LedgerAssumption
  <2>4. budget \in 0 .. MaxFaults /\ provider \in Provided /\ ghost \in Remembered
    BY <2>3 DEF Init, Provided, Remembered
  <2> QED BY <2>1, <2>2, <2>4 DEF TypeOK, Requesting, Sweeping, Provided, Remembered
<1>2. RequestsHold /\ TasksAreFirst
  BY DEF Init, RequestsHold, TasksAreFirst, Task, Working, RequestIdle
<1>3. SweepsHold /\ OneSweepPerRow BY DEF Init, SweepsHold, OneSweepPerRow, SweepIdle
<1>4. HistoryHolds /\ ReplaysBounded /\ AckedIsOwedOrHandled
  BY DEF Init, HistoryHolds, ReplaysBounded, AckedIsOwedOrHandled, NoRow
<1> QED BY <1>1, <1>2, <1>3, <1>4 DEF IInv

\* Every step preserves the invariant.
LEMMA Preserved == IInv /\ [Next]_vars => IInv'
<1> SUFFICES ASSUME IInv, [Next]_vars PROVE IInv' OBVIOUS
<1>1. ASSUME NEW q \in Request, RequestStep(q) PROVE IInv'
  BY <1>1, RereadStep, DispatchDoneStep, DispatchDeferredStep, DispatchThrowsStep, StampStep,
     ReadAttemptsStep, BumpAttemptsStep DEF RequestStep
<1>2. ASSUME NEW q \in Request, RereadErrs(q) \/ StampFails(q) PROVE IInv'
  BY <1>2, RereadErrsStep, StampFailsStep
<1>3. ASSUME NEW q \in Request, RequestDies(q) PROVE IInv' BY <1>3, RequestDiesStep
<1>4. ASSUME NEW q \in Request, NEW e \in Event, Post(q, e) PROVE IInv' BY <1>4, PostStep
<1>5. ASSUME NEW s \in Sweep, SweepStep(s) PROVE IInv'
  BY <1>5, ClaimStep, ClaimLostStep, SweepDoneStep, SweepFailsStep, SweepStampsStep
     DEF SweepStep
<1>6. ASSUME NEW s \in Sweep, SweepStarts(s) PROVE IInv' BY <1>6, SweepStartsStep
<1>7. ASSUME NEW s \in Sweep, SweepDies(s) PROVE IInv' BY <1>7, SweepDiesStep
<1>8. ASSUME NEW s \in Sweep, NEW item \in run[s].todo, ClaimErrs(s, item) PROVE IInv'
  BY <1>8, ClaimErrsStep
<1>9. ASSUME NEW e \in Event, Prune(e) PROVE IInv' BY <1>9, PruneStep
<1>10. CASE Tick BY <1>10, TickStep
<1>11. CASE UNCHANGED vars
  BY <1>11 DEF vars, IInv, TypeOK, RequestsHold, TasksAreFirst, SweepsHold, OneSweepPerRow,
               HistoryHolds, ReplaysBounded, AckedIsOwedOrHandled, Working, Task
<1> QED BY <1>1, <1>2, <1>3, <1>4, <1>5, <1>6, <1>7, <1>8, <1>9, <1>10, <1>11 DEF Next

\* The invariant holds of every reachable state.
THEOREM Invariance == Spec => []IInv
  BY Start, Preserved, PTL DEF Spec

\* Rows, processes and history keep their types; attempts never pass the ceiling.
THEOREM TypeCorrect == Spec => []TypeOK
<1>1. IInv => TypeOK BY DEF IInv
<1> QED BY <1>1, Invariance, PTL

\* Two sweeps never work on the same row (the claim and its lease).
THEOREM SweepsExclude == Spec => []OneSweepPerRow
<1>1. IInv => OneSweepPerRow BY DEF IInv
<1> QED BY <1>1, Invariance, PTL

\* What was acknowledged was handled, or is still owed by its row.
THEOREM NothingAckedIsLost == Spec => []AckedIsOwedOrHandled
<1>1. IInv => AckedIsOwedOrHandled BY DEF IInv
<1> QED BY <1>1, Invariance, PTL

\* No row is claimed more often than it has attempts counted.
THEOREM ReplaysCounted == Spec => []ReplaysBounded
<1>1. IInv => ReplaysBounded BY DEF IInv
<1> QED BY <1>1, Invariance, PTL

(***************************************************************************)
(* NoRerunOfStamped: an action property.                                   *)
(***************************************************************************)
\* Whose handler starts in this step was not stamped before, unless the query of
\* the stamp failed.
StartsUnstamped ==
  \A e \in Event :
    (\/ ghost'.claims[e] # ghost.claims[e]
     \/ \E q \in Request : Dispatches(q, e) /\ ~RereadErrs(q))
    => e \notin ghost.stamped

\* A request that is in the middle of its work goes on with it, and starts no
\* handler, but for the one that reads the stamp and finds none.
LEMMA RequestStartsNone ==
  ASSUME IInv, NEW q \in Request,
         RequestStep(q) \/ RereadErrs(q) \/ StampFails(q) \/ RequestDies(q)
  PROVE  StartsUnstamped
<1>1. TypeOK BY DEF IInv
<1>2. req \in [Request -> Requesting] /\ ghost \in Remembered BY <1>1, Types
<1>3. ghost'.claims = ghost.claims
  BY <1>2 DEF RequestStep, Reread, RereadErrs, StampFails, RequestDies, DispatchDone,
              DispatchDeferred, DispatchThrows, Stamp, ReadAttempts, BumpAttempts, Handled,
              Remembered
<1>4. \A p \in Request : p # q => req'[p] = req[p]
  BY <1>2 DEF RequestStep, Reread, RereadErrs, GoesOn, StampFails, RequestDies, DispatchDone,
              DispatchDeferred, DispatchThrows, Stamp, ReadAttempts, BumpAttempts
<1>5. ~Reread(q) /\ ~RereadErrs(q) => req'[q].step # "dispatch"
  BY <1>2 DEF RequestStep, StampFails, RequestDies, DispatchDone, DispatchDeferred,
              DispatchThrows, Stamp, ReadAttempts, BumpAttempts, RequestIdle, Requesting
<1>6. ASSUME NEW e \in Event, Reread(q), Dispatches(q, e) PROVE e \notin ghost.stamped
  <2>1. req[q].event = e /\ ~row[e].processed
    BY <1>2, <1>6 DEF Reread, GoesOn, Dispatches, RequestIdle, Requesting
  <2>2. row[e].present BY <1>6, <2>1 DEF IInv, RequestsHold, Working, Reread
  <2> QED BY <2>1, <2>2 DEF IInv, HistoryHolds
<1> QED BY <1>3, <1>4, <1>5, <1>6 DEF StartsUnstamped, Dispatches

\* A delivery is dispatched at once on a new row only.
LEMMA PostStartsUnstamped ==
  ASSUME IInv, NEW q \in Request, NEW e \in Event, Post(q, e) PROVE StartsUnstamped
<1>1. TypeOK BY DEF IInv
<1>2. req \in [Request -> Requesting] BY <1>1, Types
<1>3. ghost' = ghost /\ e \notin provider.closed BY DEF Post
<1>4. \/ \A p \in Request : req'[p].step # "dispatch" \/ req'[p] = req[p]
      \/ /\ \A p \in Request : p # q => req'[p] = req[p]
         /\ req'[q].event = e
         /\ ~row[e].present
  BY <1>2 DEF Post, Take
<1>5. ~row[e].present => e \notin ghost.stamped BY <1>3 DEF IInv, HistoryHolds
<1> QED BY <1>3, <1>4, <1>5 DEF StartsUnstamped, Dispatches

\* A claim asks for a row without a stamp; no other step of a sweep starts a handler.
LEMMA SweepStartsUnstamped ==
  ASSUME IInv, NEW s \in Sweep,
         \/ SweepStep(s) \/ SweepStarts(s) \/ SweepDies(s)
         \/ \E item \in run[s].todo : ClaimErrs(s, item)
  PROVE  StartsUnstamped
<1>1. TypeOK BY DEF IInv
<1>2. ghost \in Remembered BY <1>1, Types
<1>3. req' = req
  BY DEF SweepStep, SweepStarts, SweepDies, ClaimErrs, Claim, ClaimLost, SweepDone, SweepFails,
         SweepStamps
<1>4. CASE ghost'.claims = ghost.claims BY <1>3, <1>4 DEF StartsUnstamped, Dispatches
<1>5. ASSUME NEW item \in run[s].todo, Claim(s, item) PROVE StartsUnstamped
  <2> DEFINE e == item[1]
  <2>1. e \in Event /\ row[e].present /\ ~row[e].processed
    BY <1>1, <1>5, QueuedIs DEF Claim, Claimable
  <2>2. \A x \in Event : x # e => ghost'.claims[x] = ghost.claims[x]
    BY <1>2, <1>5 DEF Claim, Remembered
  <2>3. e \notin ghost.stamped BY <2>1 DEF IInv, HistoryHolds
  <2> HIDE DEF e
  <2> QED BY <1>3, <2>2, <2>3 DEF StartsUnstamped, Dispatches
<1>6. \/ ghost'.claims = ghost.claims
      \/ \E item \in run[s].todo : Claim(s, item)
  BY <1>2 DEF SweepStep, SweepStarts, SweepDies, ClaimErrs, ClaimLost, SweepDone, SweepFails,
              SweepStamps, Handled, Remembered
<1> QED BY <1>4, <1>5, <1>6

\* No handler starts on an event whose row has been stamped, unless the delivery's
\* own reading of the stamp failed.
THEOREM StampedNeverRerun == Spec => NoRerunOfStamped
<1>1. IInv /\ [Next]_vars => [StartsUnstamped]_vars
  <2> SUFFICES ASSUME IInv, Next PROVE StartsUnstamped BY Zenon
  <2>1. CASE \E q \in Request : \/ RequestStep(q) \/ RereadErrs(q) \/ StampFails(q)
                                \/ RequestDies(q)
                                \/ \E e \in Event : Post(q, e)
    BY <2>1, RequestStartsNone, PostStartsUnstamped
  <2>2. CASE \E s \in Sweep : \/ SweepStep(s) \/ SweepStarts(s) \/ SweepDies(s)
                              \/ \E item \in run[s].todo : ClaimErrs(s, item)
    BY <2>2, SweepStartsUnstamped
  <2>3. CASE \E e \in Event : Prune(e) BY <2>3 DEF Prune, StartsUnstamped, Dispatches
  <2>4. CASE Tick
    <3>1. req \in [Request -> Requesting] BY Types DEF IInv
    <3>2. \A q \in Request : req'[q].step = req[q].step BY <2>4, <3>1 DEF Tick, Requesting
    <3> QED BY <2>4, <3>2 DEF Tick, StartsUnstamped, Dispatches
  <2> QED BY <2>1, <2>2, <2>3, <2>4 DEF Next
<1>2. Spec => [][StartsUnstamped]_vars BY <1>1, Invariance, PTL DEF Spec
<1> QED BY <1>2 DEF NoRerunOfStamped, StartsUnstamped
================================================================================
