-------------------------- MODULE Provisioning_proofs --------------------------
(***************************************************************************)
(* Theorems about the buying of numbers, for every set of slots and of     *)
(* invocations, every number of orders, triggers and faults.               *)
(*                                                                         *)
(* The argument: an invocation in the saga of a row has its lease, so that *)
(* what it read of the row's order and key stays so; a key is minted only  *)
(* when the row has neither, and an order is placed only under a key that  *)
(* has none.  So the order a row has written down, and any order of it     *)
(* that may buy a number and was not forgotten, go by the row's present    *)
(* key.  Orders are forgotten in two places, and a key with them: past the *)
(* dwell, and when a pick is answered by a 4xx, which may be a 408 on an   *)
(* order that Telnyx has.                                                  *)
(***************************************************************************)
EXTENDS Provisioning, TLAPS

Steps    == Saga \cup {"idle", "claim", "arm", "giveUp", "release"}
Statuses == {"none", "provisioning", "failed", "active", "suspended", "released"}

\* The types of a slot's row, of an order and of an invocation.
Entry   == [status : Statuses, order : 0 .. MaxOrders, key : Nat, minted : Nat, number : Nat,
            attempts : Nat, leased : BOOLEAN, chosen : BOOLEAN, old : BOOLEAN]
Ordered == [key : {<< >>} \cup (Slot \X Nat), state : {"none", "pending", "success", "failed"},
            answer : {"none", "pending", "success"}, forgot : {"no", "stuck", "refused"}]
Running == [step : Steps, slot : Slot \cup {"none"}, order : 0 .. MaxOrders, key : Nat,
            number : Nat, attempts : Nat, chosen : BOOLEAN, old : BOOLEAN]

Typed ==
  /\ row \in [Slot -> Entry] /\ orders \in [Order -> Ordered] /\ run \in [Runner -> Running]
  /\ owned \subseteq Order

\* Order o was placed for the slot under the key.
PlacedAs(o, s, k) == o \in Order /\ orders[o].state # "none" /\ orders[o].key = << s, k >>

\* A row without status has nothing; its key was minted; the order it has written
\* down was placed under that key.
RowsHold ==
  \A s \in Slot :
    /\ row[s].status = "none" => /\ ~row[s].leased /\ row[s].order = 0
                                 /\ row[s].key = 0 /\ row[s].minted = 0
    /\ row[s].key <= row[s].minted
    /\ row[s].order # 0 => PlacedAs(row[s].order, s, row[s].key)

\* Orders go by minted keys, each by its own.
OrdersHold ==
  /\ \A o \in Order : IF orders[o].state = "none" THEN orders[o].key = << >>
                      ELSE \E s \in Slot : \E k \in 1 .. row[s].minted : orders[o].key = << s, k >>
  /\ \A o, p \in Order : orders[o].state # "none" /\ orders[p].key = orders[o].key => o = p

\* What an invocation of the saga knows of its row and of the orders.
Knows(r) ==
  /\ row[run[r].slot].leased
  /\ run[r].step \in {"recover", "flip", "clear"} =>
       run[r].order # 0 /\ run[r].order = row[run[r].slot].order
  /\ run[r].step = "clear" => orders[run[r].order].state = "failed"
  /\ run[r].step \in {"adopt", "search", "place", "drop", "persist"} => row[run[r].slot].order = 0
  /\ run[r].step \in {"place", "drop", "persist"} =>
       run[r].key # 0 /\ run[r].key = row[run[r].slot].key
  /\ run[r].step = "persist" => PlacedAs(run[r].order, run[r].slot, run[r].key)

Works(r) ==
  run[r].step # "idle" => /\ run[r].slot \in Slot /\ row[run[r].slot].status # "none"
                          /\ run[r].step \in Saga => Knows(r)
RunsHold == \A r \in Runner : Works(r)

IInv == Typed /\ RowsHold /\ OrdersHold /\ RunsHold /\ OneRunner /\ OrderIsFound

--------------------------------------------------------------------------------
(***************************************************************************)
(* Frames: what an action need not say of what it leaves alone.            *)
(***************************************************************************)

LEMMA Bounds == MaxOrders \in Nat /\ MaxAttempts \in Nat /\ Order \subseteq 1 .. MaxOrders
  BY ProvisioningAssumption DEF Order

LEMMA NoKey == \A s \in Slot, k \in Nat : << s, k >> # << >>
  OBVIOUS

\* Only r moves.
Moves(r) ==
  /\ run' \in [Runner -> Running]
  /\ \A t \in Runner : t # r => run'[t] = run[t]

\* The books of a row: its order, its keys, its lease.
Quiet(s) ==
  /\ row'[s].order = row[s].order /\ row'[s].key = row[s].key /\ row'[s].minted = row[s].minted
  /\ row'[s].leased = row[s].leased
  /\ row'[s].status = "none" <=> row[s].status = "none"

\* Placed orders keep their key; a failed one stays that.
Grow ==
  \A o \in Order : orders[o].state # "none" =>
    /\ orders'[o].state # "none" /\ orders'[o].key = orders[o].key
    /\ orders[o].state = "failed" => orders'[o].state = "failed"

\* An invocation that does not move still knows what it knew: its row keeps its
\* books.
LEMMA StillWorks ==
  ASSUME IInv, NEW r \in Runner, run'[r] = run[r], Grow,
         run[r].step \in Saga => Quiet(run[r].slot),
         run[r].slot \in Slot /\ row[run[r].slot].status # "none" => row'[run[r].slot].status # "none"
  PROVE  Works(r)'
<1> SUFFICES ASSUME run[r].step # "idle" PROVE Works(r)' BY DEF Works
<1>1. /\ run[r].slot \in Slot /\ row[run[r].slot].status # "none"
      /\ run[r].step \in Saga => Knows(r)
  BY DEF IInv, RunsHold, Works
<1>2. CASE run[r].step \notin Saga BY <1>1, <1>2 DEF Works, Saga
<1>3. CASE run[r].step \in Saga
  <2>1. Knows(r) /\ Quiet(run[r].slot) BY <1>1, <1>3
  <2>2. run[r].step = "clear" => orders'[run[r].order].state = "failed"
    <3>1. run[r].step = "clear" => run[r].order \in Order
      BY <1>1, <2>1 DEF IInv, Knows, RowsHold, PlacedAs
    <3> QED BY <2>1, <3>1 DEF Knows, Grow
  <2>3. run[r].step = "persist" => PlacedAs(run[r].order, run[r].slot, run[r].key)'
    BY <2>1 DEF Knows, PlacedAs, Grow
  <2>4. Knows(r)' BY <2>1, <2>2, <2>3 DEF Knows, Quiet
  <2> QED BY <1>1, <1>3, <2>4 DEF Works, Saga
<1> QED BY <1>2, <1>3

\* One invocation moves; the rows that are not quiet are its own or nobody's.
LEMMA OneMoves ==
  ASSUME IInv, NEW r \in Runner, Moves(r), Works(r)', Grow,
         \A s \in Slot : Quiet(s) \/ (row'[s].status # "none" /\ \A t \in InSaga(s) : t = r),
         run'[r].step \in Saga => \A t \in InSaga(run'[r].slot) : t = r
  PROVE  RunsHold' /\ OneRunner'
<1>1. ASSUME NEW t \in Runner, t # r PROVE Works(t)'
  <2>1. run'[t] = run[t] BY <1>1 DEF Moves
  <2>2. run[t].step \in Saga => run[t].slot \in Slot /\ t \in InSaga(run[t].slot)
    BY DEF IInv, RunsHold, Works, InSaga, Saga
  <2>3. run[t].step \in Saga => Quiet(run[t].slot) BY <1>1, <2>2
  <2> QED BY <1>1, <2>1, <2>3, StillWorks DEF Quiet
<1>2. RunsHold' BY <1>1 DEF RunsHold
<1>3. OneRunner'
  <2> SUFFICES ASSUME NEW s \in Slot, NEW p \in InSaga(s)', NEW q \in InSaga(s)' PROVE p = q
    BY DEF OneRunner
  <2>1. \A t \in Runner : t # r /\ t \in InSaga(s)' => t \in InSaga(s) BY DEF Moves, InSaga
  <2>2. p \in Runner /\ q \in Runner BY DEF InSaga
  <2>3. r \in InSaga(s)' => \A t \in InSaga(s) : t = r BY DEF InSaga, Saga
  <2> QED BY <2>1, <2>2, <2>3 DEF IInv, OneRunner
<1> QED BY <1>2, <1>3

\* Nobody moves.
LEMMA NobodyMoves ==
  ASSUME IInv, run' = run, Grow,
         \A s \in Slot : \/ Quiet(s)
                         \/ InSaga(s) = {} /\ (row[s].status # "none" => row'[s].status # "none")
  PROVE  RunsHold' /\ OneRunner'
<1>1. ASSUME NEW t \in Runner PROVE Works(t)'
  <2>1. run[t].step \in Saga => run[t].slot \in Slot /\ t \in InSaga(run[t].slot)
    BY DEF IInv, RunsHold, Works, InSaga, Saga
  <2>2. run[t].step \in Saga => Quiet(run[t].slot) BY <2>1
  <2> QED BY <2>2, StillWorks DEF Quiet
<1>2. RunsHold' BY <1>1 DEF RunsHold
<1>3. OneRunner' BY DEF IInv, OneRunner, InSaga, Saga
<1> QED BY <1>2, <1>3

\* The books are as before, and so are the orders.
LEMMA BooksKept ==
  ASSUME IInv, orders' = orders,
         \A s \in Slot : /\ row'[s].order = row[s].order /\ row'[s].key = row[s].key
                         /\ row'[s].minted = row[s].minted
                         /\ row'[s].status = "none" => row[s].status = "none" /\ ~row'[s].leased
  PROVE  RowsHold' /\ OrdersHold' /\ OrderIsFound'
<1>1. RowsHold' BY DEF IInv, RowsHold, PlacedAs
<1>2. OrdersHold' BY DEF IInv, OrdersHold
<1>3. OrderIsFound' BY DEF IInv, OrderIsFound, LiveOrders, MayBuy
<1> QED BY <1>1, <1>2, <1>3

\* Only an invocation moves: no row and no order is written.
LEMMA RunMoves ==
  ASSUME IInv, NEW r \in Runner, Moves(r), Works(r)', row' = row, orders' = orders,
         owned' \subseteq Order,
         run'[r].step \in Saga => run[r].step \in Saga /\ run'[r].slot = run[r].slot
  PROVE  IInv'
<1>1. Typed' BY DEF IInv, Typed, Moves
<1>2. RowsHold' /\ OrdersHold' /\ OrderIsFound' BY BooksKept DEF IInv, RowsHold
<1>3. Grow /\ \A s \in Slot : Quiet(s) BY DEF Grow, Quiet
<1>4. run'[r].step \in Saga => \A t \in InSaga(run'[r].slot) : t = r
  BY DEF IInv, OneRunner, RunsHold, Works, InSaga, Saga
<1>5. RunsHold' /\ OneRunner' BY <1>3, <1>4, OneMoves
<1> QED BY <1>1, <1>2, <1>5 DEF IInv

\* An invocation moves and writes a row, but not the books.
LEMMA RowWritten ==
  ASSUME IInv, NEW r \in Runner, Moves(r), Works(r)', NEW s \in Slot, NEW w \in Entry,
         row' = [row EXCEPT ![s] = w], orders' = orders, owned' = owned,
         w.order = row[s].order, w.key = row[s].key, w.minted = row[s].minted,
         w.status # "none",
         (w.leased = row[s].leased /\ row[s].status # "none") \/ \A t \in InSaga(s) : t = r,
         run'[r].step \in Saga => \A t \in InSaga(run'[r].slot) : t = r
  PROVE  IInv'
<1>1. row \in [Slot -> Entry] BY DEF IInv, Typed
<1>2. row'[s] = w /\ \A u \in Slot : u # s => row'[u] = row[u] BY <1>1
<1>3. Typed' BY <1>1 DEF IInv, Typed, Moves
<1>4. RowsHold' /\ OrdersHold' /\ OrderIsFound' BY <1>2, BooksKept DEF IInv, RowsHold
<1>5. Grow BY DEF Grow
<1>6. \A u \in Slot : Quiet(u) \/ (row'[u].status # "none" /\ \A t \in InSaga(u) : t = r)
  BY <1>2 DEF Quiet
<1>7. RunsHold' /\ OneRunner' BY <1>5, <1>6, OneMoves
<1> QED BY <1>3, <1>4, <1>7 DEF IInv
--------------------------------------------------------------------------------
(***************************************************************************)
(* The steps of an invocation that write nothing down.                     *)
(***************************************************************************)

\* What an invocation that is at work has.
LEMMA AtWork ==
  ASSUME IInv, NEW r \in Runner, run[r].step # "idle"
  PROVE  /\ run \in [Runner -> Running] /\ run[r] \in Running /\ row \in [Slot -> Entry]
         /\ run[r].slot \in Slot /\ row[run[r].slot] \in Entry
         /\ row[run[r].slot].status # "none"
         /\ run[r].step \in Saga => Knows(r) /\ \A t \in InSaga(run[r].slot) : t = r
<1>1. run \in [Runner -> Running] /\ row \in [Slot -> Entry] BY DEF IInv, Typed
<1>2. run[r].slot \in Slot /\ row[run[r].slot].status # "none"
      /\ (run[r].step \in Saga => Knows(r))
  BY DEF IInv, RunsHold, Works
<1>3. run[r].step \in Saga => \A t \in InSaga(run[r].slot) : t = r
  BY <1>2 DEF IInv, OneRunner, InSaga
<1> QED BY <1>1, <1>2, <1>3

LEMMA NoRunTyped == NoRun \in Running
  BY Bounds DEF NoRun, Running, Steps, Saga

\* An invocation goes on to a step that presupposes nothing new.
LEMMA Goes ==
  ASSUME IInv, NEW r \in Runner, NEW step \in Steps, Go(r, step), row' = row, orders' = orders,
         owned' \subseteq Order, run[r].step # "idle", Works(r)',
         step \in Saga => run[r].step \in Saga
  PROVE  IInv'
<1>1. run \in [Runner -> Running] /\ run[r] \in Running BY AtWork
<1>2. run' = [run EXCEPT ![r] = [run[r] EXCEPT !.step = step]] BY <1>1 DEF Go
<1>3. [run[r] EXCEPT !.step = step] \in Running BY <1>1 DEF Running
<1>4. Moves(r) BY <1>1, <1>2, <1>3 DEF Moves
<1>5. run'[r].step = step /\ run'[r].slot = run[r].slot BY <1>1, <1>2 DEF Running
<1> QED BY <1>4, <1>5, RunMoves

LEMMA EndsKept ==
  ASSUME IInv, NEW r \in Runner, Ends(r), row' = row, orders' = orders, owned' = owned
  PROVE  IInv'
<1>1. run \in [Runner -> Running] BY DEF IInv, Typed
<1>2. Moves(r) /\ run'[r] = NoRun BY <1>1, NoRunTyped DEF Ends, Moves
<1>3. Works(r)' BY <1>2 DEF Works, NoRun
<1> QED BY <1>2, <1>3, RunMoves DEF NoRun, Saga, IInv, Typed

\* What remains known when an invocation changes only its step.
LEMMA StepChanged ==
  ASSUME IInv, NEW r \in Runner, NEW step \in Saga, Go(r, step), row' = row, orders' = orders,
         run[r].step \in Saga,
         step \in {"recover", "flip", "clear"} => run[r].step = "recover",
         step = "clear" => orders[run[r].order].state = "failed",
         step \in {"adopt", "search", "place", "drop", "persist"} =>
           run[r].step \in {"adopt", "search", "place", "drop", "persist"},
         step \in {"place", "drop", "persist"} => run[r].step \in {"place", "drop", "persist"},
         step # "persist"
  PROVE  Works(r)'
<1>1. run \in [Runner -> Running] /\ run[r] \in Running /\ run[r].slot \in Slot
      /\ row[run[r].slot].status # "none" /\ Knows(r)
  BY AtWork DEF Saga
<1>2. run'[r] = [run[r] EXCEPT !.step = step] BY <1>1 DEF Go
<1>3. /\ run'[r].step = step /\ run'[r].slot = run[r].slot /\ run'[r].order = run[r].order
      /\ run'[r].key = run[r].key
  BY <1>1, <1>2 DEF Running
<1>4. Knows(r)' BY <1>1, <1>3 DEF Knows
<1> QED BY <1>1, <1>3, <1>4 DEF Works

\* Steps that presuppose only the lease, or nothing.
LEMMA GoesFreely ==
  ASSUME IInv, NEW r \in Runner, NEW step \in {"record", "activate", "release"}, Go(r, step),
         row' = row, orders' = orders, owned' \subseteq Order,
         run[r].step # "idle", step \in Saga => run[r].step \in Saga
  PROVE  IInv'
<1>1. step \in Steps BY DEF Steps, Saga
<1>2. CASE step = "release"
  <2>1. run \in [Runner -> Running] /\ run[r] \in Running /\ run[r].slot \in Slot
        /\ row[run[r].slot].status # "none"
    BY AtWork
  <2>2. run'[r].step = step /\ run'[r].slot = run[r].slot BY <2>1 DEF Go, Running
  <2>3. Works(r)' BY <1>2, <2>1, <2>2 DEF Works, Saga
  <2> QED BY <1>1, <1>2, <2>3, Goes DEF Saga
<1>3. CASE step # "release"
  <2>1. step \in Saga /\ run[r].step \in Saga BY <1>3 DEF Saga
  <2>2. Works(r)' BY <1>3, <2>1, StepChanged
  <2> QED BY <1>1, <2>1, <2>2, Goes
<1> QED BY <1>2, <1>3

LEMMA AnswerLostKept == ASSUME IInv, NEW r \in Runner, AnswerLost(r) PROVE IInv'
  BY GoesFreely DEF AnswerLost, Asks, At, Saga, IInv, Typed

LEMMA DiesKept == ASSUME IInv, NEW r \in Runner, Dies(r) PROVE IInv'
  BY EndsKept DEF Dies

LEMMA NoInventoryKept == ASSUME IInv, NEW r \in Runner, NoInventory(r) PROVE IInv'
  BY GoesFreely DEF NoInventory, At, Saga, IInv, Typed

LEMMA GiveUpKept == ASSUME IInv, NEW r \in Runner, GiveUp(r) PROVE IInv'
<1>1. owned' \subseteq Order BY DEF IInv, Typed, GiveUp
<1> QED BY <1>1, GoesFreely DEF GiveUp, At, Saga

\* Both ways to a number.
LEMMA ActivatesKept ==
  ASSUME IInv, NEW r \in Runner, NEW n \in Order, Activates(r, n), run[r].step \in Saga,
         row' = row, orders' = orders, owned' = owned
  PROVE  IInv'
<1>1. run \in [Runner -> Running] /\ run[r] \in Running /\ run[r].slot \in Slot
      /\ row[run[r].slot].status # "none" /\ Knows(r)
  BY AtWork DEF Saga
<1>2. n \in Nat /\ n \in 0 .. Unbought BY Bounds DEF Order, Unbought
<1>3. run' = [run EXCEPT ![r] = [run[r] EXCEPT !.step = "activate", !.number = n]]
  BY <1>1 DEF Activates
<1>4. [run[r] EXCEPT !.step = "activate", !.number = n] \in Running
  BY <1>1, <1>2 DEF Running, Steps, Saga
<1>5. Moves(r) BY <1>1, <1>3, <1>4 DEF Moves
<1>6. run'[r].step = "activate" /\ run'[r].slot = run[r].slot BY <1>1, <1>3 DEF Running
<1>7. Works(r)' BY <1>1, <1>6 DEF Works, Knows
<1> QED BY <1>5, <1>6, <1>7, RunMoves DEF IInv, Typed

LEMMA RecoverKept == ASSUME IInv, NEW r \in Runner, Recover(r) PROVE IInv'
<1>0. run[r].step = "recover" /\ row' = row /\ orders' = orders /\ owned' = owned
      /\ run[r].step \in Saga
  BY DEF Recover, At, Saga
<1>1. Knows(r) /\ run[r].slot \in Slot BY <1>0, AtWork
<1>2. run[r].order \in Order BY <1>0, <1>1 DEF Knows, IInv, RowsHold, PlacedAs
<1>3. CASE Activates(r, run[r].order) BY <1>0, <1>2, <1>3, ActivatesKept
<1>4. CASE Ends(r) BY <1>0, <1>4, EndsKept
<1>5. ASSUME NEW step \in {"flip", "clear"}, Go(r, step),
             step = "clear" => orders[run[r].order].state = "failed"
      PROVE  IInv'
  <2>1. step \in Saga /\ step \in Steps BY DEF Saga, Steps
  <2>2. Works(r)' BY <1>0, <1>5, <2>1, StepChanged
  <2> QED BY <1>0, <1>5, <2>1, <2>2, Goes DEF IInv, Typed
<1> QED BY <1>3, <1>4, <1>5 DEF Recover

LEMMA AdoptKept == ASSUME IInv, NEW r \in Runner, Adopt(r) PROVE IInv'
<1>0. run[r].step = "adopt" /\ row' = row /\ orders' = orders /\ owned' = owned
      /\ run[r].step \in Saga
  BY DEF Adopt, At, Saga
<1>1. ASSUME NEW n \in Orphans, Activates(r, n) PROVE IInv'
  BY <1>0, <1>1, ActivatesKept DEF Orphans, IInv, Typed
<1>2. CASE Go(r, "search")
  <2>1. "search" \in Saga /\ "search" \in Steps BY DEF Saga, Steps
  <2>2. Works(r)' BY <1>0, <1>2, <2>1, StepChanged
  <2> QED BY <1>0, <1>2, <2>1, <2>2, Goes DEF IInv, Typed
<1> QED BY <1>1, <1>2 DEF Adopt

\* An invocation begins, outside the saga.
LEMMA Begins ==
  ASSUME IInv, NEW r \in Runner, NEW w \in Running, run' = [run EXCEPT ![r] = w],
         row' = row, orders' = orders, owned' = owned,
         w.step \notin Saga, w.slot \in Slot, row[w.slot].status # "none"
  PROVE  IInv'
<1>1. run \in [Runner -> Running] BY DEF IInv, Typed
<1>2. Moves(r) /\ run'[r] = w BY <1>1 DEF Moves
<1>3. Works(r)' BY <1>2 DEF Works
<1> QED BY <1>2, <1>3, RunMoves DEF IInv, Typed

LEMMA CronKept == ASSUME IInv, NEW r \in Runner, NEW s \in Slot, Cron(r, s) PROVE IInv'
<1> DEFINE w == [NoRun EXCEPT !.slot = s, !.step = "claim"]
<1>1. w \in Running /\ w.step = "claim" /\ w.slot = s
  BY NoRunTyped DEF Running, Steps, Saga
<1>2. row[s].status # "none" BY DEF Cron, Unfinished
<1>3. run' = [run EXCEPT ![r] = w] /\ row' = row /\ orders' = orders /\ owned' = owned
  BY DEF Cron, Begin
<1> HIDE DEF w
<1> QED BY <1>1, <1>2, <1>3, Begins DEF Saga

LEMMA RemediateReadsKept ==
  ASSUME IInv, NEW r \in Runner, NEW s \in Slot, RemediateReads(r, s) PROVE IInv'
<1> PICK chosen \in BOOLEAN :
      run' = [run EXCEPT ![r] = [NoRun EXCEPT !.slot = s, !.step = "arm", !.chosen = chosen]]
  BY DEF RemediateReads
<1> DEFINE w == [NoRun EXCEPT !.slot = s, !.step = "arm", !.chosen = chosen]
<1>1. w \in Running /\ w.step = "arm" /\ w.slot = s
  BY NoRunTyped DEF Running, Steps, Saga
<1>2. row[s].status # "none" BY DEF RemediateReads
<1>3. run' = [run EXCEPT ![r] = w] /\ row' = row /\ orders' = orders /\ owned' = owned
  BY DEF RemediateReads
<1> HIDE DEF w
<1> QED BY <1>1, <1>2, <1>3, Begins DEF Saga

LEMMA ReleaseReadsKept ==
  ASSUME IInv, NEW r \in Runner, NEW s \in Slot, ReleaseReads(r, s) PROVE IInv'
<1> DEFINE step == IF row[s].number = 0 THEN "release" ELSE "giveUp"
           w    == [NoRun EXCEPT !.slot = s, !.number = row[s].number, !.step = step]
<1>0. row[s].number \in Nat /\ step \in Steps \ Saga BY DEF IInv, Typed, Entry, Steps, Saga
<1>3. run' = [run EXCEPT ![r] = w] /\ row' = row /\ orders' = orders /\ owned' = owned
  BY DEF ReleaseReads
<1> HIDE DEF step
<1>1. w \in Running /\ w.step = step /\ w.slot = s
  BY <1>0, NoRunTyped DEF Running
<1>2. row[s].status # "none" BY DEF ReleaseReads
<1> HIDE DEF w
<1> QED BY <1>0, <1>1, <1>2, <1>3, Begins
--------------------------------------------------------------------------------
(***************************************************************************)
(* The steps that write a row, but not its books.                          *)
(***************************************************************************)

LEMMA EndsWriting ==
  ASSUME IInv, NEW r \in Runner, Ends(r), NEW s \in Slot, NEW w \in Entry,
         row' = [row EXCEPT ![s] = w], orders' = orders, owned' = owned,
         w.order = row[s].order, w.key = row[s].key, w.minted = row[s].minted,
         w.status # "none",
         (w.leased = row[s].leased /\ row[s].status # "none") \/ \A t \in InSaga(s) : t = r
  PROVE  IInv'
<1>1. run \in [Runner -> Running] BY DEF IInv, Typed
<1>2. Moves(r) /\ run'[r] = NoRun BY <1>1, NoRunTyped DEF Ends, Moves
<1>3. Works(r)' BY <1>2 DEF Works, NoRun
<1>4. run'[r].step \notin Saga BY <1>2 DEF NoRun, Saga
<1> QED BY <1>2, <1>3, <1>4, RowWritten

LEMMA GiveBackKept == ASSUME IInv, NEW r \in Runner, GiveBack(r) PROVE IInv'
<1> DEFINE s == run[r].slot
           w == [row[s] EXCEPT !.leased = FALSE]
<1>1. /\ run[r] \in Running /\ row[s] \in Entry /\ s \in Slot /\ row[s].status # "none"
      /\ run[r].step \in Saga => \A t \in InSaga(s) : t = r
  BY AtWork DEF GiveBack, At
<1>2. /\ w \in Entry /\ w.order = row[s].order /\ w.key = row[s].key
      /\ w.minted = row[s].minted /\ w.status # "none"
  BY <1>1 DEF Entry, Statuses
<1>3. (w.leased = row[s].leased /\ row[s].status # "none") \/ \A t \in InSaga(s) : t = r
  BY <1>1, <1>2 DEF GiveBack, At, Saga
<1>4. row' = [row EXCEPT ![s] = w] /\ orders' = orders /\ owned' = owned /\ Ends(r)
  BY DEF GiveBack, Write, Mine
<1> HIDE DEF w
<1> QED BY <1>1, <1>2, <1>3, <1>4, EndsWriting

LEMMA RecordKept == ASSUME IInv, NEW r \in Runner, Record(r) PROVE IInv'
<1> DEFINE s == run[r].slot
           n == run[r].attempts + 1
           w == [row[s] EXCEPT !.status = "failed", !.attempts = n, !.leased = FALSE]
<1>1. /\ run[r] \in Running /\ row[s] \in Entry /\ s \in Slot /\ row[s].status # "none"
      /\ run[r].step \in Saga => \A t \in InSaga(s) : t = r
  BY AtWork DEF Record, At
<1>0. n \in Nat BY <1>1 DEF Running
<1> HIDE DEF n
<1>2. /\ w \in Entry /\ w.order = row[s].order /\ w.key = row[s].key
      /\ w.minted = row[s].minted /\ w.status # "none"
  BY <1>0, <1>1 DEF Entry, Statuses
<1>3. (w.leased = row[s].leased /\ row[s].status # "none") \/ \A t \in InSaga(s) : t = r
  BY <1>1, <1>2 DEF Record, At, Saga
<1>4. row' = [row EXCEPT ![s] = w] /\ orders' = orders /\ owned' = owned /\ Ends(r)
  BY DEF Record, Write, Mine, n
<1> HIDE DEF w
<1> QED BY <1>1, <1>2, <1>3, <1>4, EndsWriting

LEMMA ReleaseKept == ASSUME IInv, NEW r \in Runner, Release(r) PROVE IInv'
<1> DEFINE s == run[r].slot
           w == [row[s] EXCEPT !.status = "released"]
<1>1. /\ run[r] \in Running /\ row[s] \in Entry /\ s \in Slot /\ row[s].status # "none"
      /\ run[r].step \in Saga => \A t \in InSaga(s) : t = r
  BY AtWork DEF Release, At
<1>2. /\ w \in Entry /\ w.order = row[s].order /\ w.key = row[s].key
      /\ w.minted = row[s].minted /\ w.status # "none" /\ w.leased = row[s].leased
  BY <1>1 DEF Entry, Statuses
<1>3. (w.leased = row[s].leased /\ row[s].status # "none") \/ \A t \in InSaga(s) : t = r
  BY <1>1, <1>2 DEF Release, At, Saga
<1>4. row' = [row EXCEPT ![s] = w] /\ orders' = orders /\ owned' = owned /\ Ends(r)
  BY DEF Release, Write, Mine
<1> HIDE DEF w
<1> QED BY <1>1, <1>2, <1>3, <1>4, EndsWriting

LEMMA ActivateKept == ASSUME IInv, NEW r \in Runner, Activate(r) PROVE IInv'
<1> DEFINE s == run[r].slot
           w == [row[s] EXCEPT !.status = "active", !.number = run[r].number,
                               !.chosen = FALSE, !.leased = FALSE]
<1>0. run[r].step = "activate" /\ run[r].step \in Saga BY DEF Activate, At, Saga
<1>1. /\ run[r] \in Running /\ row[s] \in Entry /\ s \in Slot
      /\ \A t \in InSaga(s) : t = r
  BY <1>0, AtWork
<1>2. CASE Go(r, "record") /\ row' = row
  BY <1>0, <1>2, GoesFreely DEF Activate, IInv, Typed
<1>3. CASE row' = [row EXCEPT ![s] = w] /\ Ends(r)
  <2>1. /\ w \in Entry /\ w.order = row[s].order /\ w.key = row[s].key
        /\ w.minted = row[s].minted /\ w.status # "none"
    BY <1>1 DEF Entry, Statuses, Running
  <2>2. orders' = orders /\ owned' = owned BY DEF Activate
  <2> HIDE DEF w
  <2> QED BY <1>1, <1>3, <2>1, <2>2, EndsWriting
<1> QED BY <1>2, <1>3 DEF Activate, Write

LEMMA ArmKept == ASSUME IInv, NEW r \in Runner, Arm(r) PROVE IInv'
<1> DEFINE s == run[r].slot
           w == [row[s] EXCEPT !.status = "provisioning", !.attempts = 0,
                               !.chosen = run[r].chosen]
<1>1. /\ run \in [Runner -> Running] /\ run[r] \in Running /\ row[s] \in Entry /\ s \in Slot
      /\ row[s].status # "none"
  BY AtWork DEF Arm, At
<1>2. CASE Ends(r) /\ row' = row BY <1>2, EndsKept DEF Arm
<1>3. CASE row' = [row EXCEPT ![s] = w] /\ Go(r, "claim")
  <2>1. /\ w \in Entry /\ w.order = row[s].order /\ w.key = row[s].key
        /\ w.minted = row[s].minted /\ w.status # "none" /\ w.leased = row[s].leased
    BY <1>1 DEF Entry, Statuses, Running
  <2>2. orders' = orders /\ owned' = owned BY DEF Arm
  <2>3. [run[r] EXCEPT !.step = "claim"] \in Running BY <1>1 DEF Running, Steps
  <2>4. Moves(r) /\ run'[r] = [run[r] EXCEPT !.step = "claim"]
    BY <1>1, <1>3, <2>3 DEF Go, Moves
  <2>5. run'[r].step = "claim" /\ run'[r].slot = s BY <1>1, <2>4 DEF Running
  <2>6. row'[s] = w BY <1>1, <1>3 DEF IInv, Typed
  <2> HIDE DEF w
  <2>7. Works(r)' BY <1>1, <2>1, <2>5, <2>6 DEF Works, Saga
  <2> QED BY <1>1, <1>3, <2>1, <2>2, <2>4, <2>5, <2>7, RowWritten DEF Saga
<1> QED BY <1>2, <1>3 DEF Arm, Write, Mine

\* Whoever gets the lease finds nobody in the saga of the row.
LEMMA ClaimLeaseKept == ASSUME IInv, NEW r \in Runner, ClaimLease(r) PROVE IInv'
<1> DEFINE s == run[r].slot
           w == [row[s] EXCEPT !.leased = TRUE]
           next == IF Exhausted(row[s]) THEN "giveBack"
                   ELSE IF row[s].order # 0 THEN "recover" ELSE "adopt"
           u == [run[r] EXCEPT !.step = next, !.order = row[s].order,
                               !.attempts = row[s].attempts, !.chosen = row[s].chosen,
                               !.old = row[s].old]
<1>1. /\ run \in [Runner -> Running] /\ run[r] \in Running /\ row[s] \in Entry /\ s \in Slot
      /\ row[s].status # "none" /\ row \in [Slot -> Entry]
  BY AtWork DEF ClaimLease, At
<1>2. CASE Ends(r) /\ row' = row BY <1>2, EndsKept DEF ClaimLease
<1>3. CASE ~row[s].leased /\ row' = [row EXCEPT ![s] = w] /\ run' = [run EXCEPT ![r] = u]
  <2>1. /\ w \in Entry /\ w.order = row[s].order /\ w.key = row[s].key
        /\ w.minted = row[s].minted /\ w.status = row[s].status /\ w.leased
    BY <1>1 DEF Entry
  <2>2. orders' = orders /\ owned' = owned BY DEF ClaimLease
  <2>3. next \in {"giveBack", "recover", "adopt"} /\ next \in Steps /\ next \in Saga
    BY DEF Steps, Saga
  <2>4. (next = "recover" => row[s].order # 0) /\ (next = "adopt" => row[s].order = 0)
    OBVIOUS
  <2> HIDE DEF next
  <2>5. /\ u \in Running /\ u.step = next /\ u.slot = s /\ u.order = row[s].order
    BY <1>1, <2>3 DEF Running, Entry
  <2>6. row'[s] = w BY <1>1, <1>3
  <2> HIDE DEF w, u
  <2>7. Moves(r) /\ run'[r] = u BY <1>1, <1>3, <2>5 DEF Moves
  <2>8. Knows(r)' BY <2>1, <2>3, <2>4, <2>5, <2>6, <2>7 DEF Knows
  <2>9. Works(r)' BY <1>1, <2>1, <2>5, <2>6, <2>7, <2>8 DEF Works
  <2>10. InSaga(s) = {} BY <1>1, <1>3 DEF IInv, RunsHold, Works, Knows, InSaga, Saga
  <2> QED BY <1>1, <1>3, <2>1, <2>2, <2>5, <2>7, <2>9, <2>10, RowWritten
<1> QED BY <1>2, <1>3 DEF ClaimLease, Write, Mine, Leased

LEMMA CheckoutKept ==
  ASSUME IInv, NEW r \in Runner, NEW s \in Slot, Checkout(r, s) PROVE IInv'
<1> DEFINE u == [NoRun EXCEPT !.slot = s, !.step = "claim"]
<1>1. run \in [Runner -> Running] /\ row \in [Slot -> Entry] /\ row[s] \in Entry
  BY DEF IInv, Typed
<1>2. u \in Running /\ u.step = "claim" /\ u.slot = s
  BY NoRunTyped DEF Running, Steps, Saga
<1>3. run' = [run EXCEPT ![r] = u] /\ orders' = orders /\ owned' = owned
  BY DEF Checkout, Begin
<1> HIDE DEF u
<1>4. Moves(r) /\ run'[r] = u BY <1>1, <1>2, <1>3 DEF Moves
<1>5. CASE row[s].status # "none" /\ row' = row
  BY <1>2, <1>3, <1>5, Begins DEF Saga
<1>6. ASSUME row[s].status = "none", NEW chosen \in BOOLEAN,
             Write(s, [NoRow EXCEPT !.status = "provisioning", !.chosen = chosen])
      PROVE  IInv'
  <2> DEFINE w == [NoRow EXCEPT !.status = "provisioning", !.chosen = chosen]
  <2>1. NoRow \in Entry /\ NoRow.order = 0 /\ NoRow.key = 0 /\ NoRow.minted = 0
    BY Bounds DEF NoRow, Entry, Statuses
  <2>2. /\ w \in Entry /\ w.order = 0 /\ w.key = 0 /\ w.minted = 0 /\ w.status = "provisioning"
    BY <2>1 DEF Entry, Statuses
  <2>3. row[s].order = 0 /\ row[s].key = 0 /\ row[s].minted = 0
    BY <1>6 DEF IInv, RowsHold
  <2>4. InSaga(s) = {} BY <1>6 DEF IInv, RunsHold, Works, InSaga, Saga
  <2>5. row' = [row EXCEPT ![s] = w] BY <1>6 DEF Write
  <2> HIDE DEF w
  <2>6. row'[s] = w BY <1>1, <2>5
  <2>7. Works(r)' BY <1>2, <1>4, <2>2, <2>6 DEF Works, Saga
  <2> QED BY <1>2, <1>3, <1>4, <2>2, <2>3, <2>4, <2>5, <2>7, RowWritten DEF Saga
<1> QED BY <1>5, <1>6 DEF Checkout, Unfinished
--------------------------------------------------------------------------------
(***************************************************************************)
(* The steps that write the books.  An invocation of the saga is alone in  *)
(* it, and the only live order of its row is the one it knows.             *)
(***************************************************************************)

\* The invocation alone in the saga of a row may write the books.
LEMMA WritesBooks ==
  ASSUME IInv, NEW r \in Runner, run[r].step \in Saga, Moves(r), Works(r)', Grow,
         \A u \in Slot : u # run[r].slot => row'[u] = row[u],
         row'[run[r].slot].status # "none",
         run'[r].step \in Saga => run'[r].slot = run[r].slot
  PROVE  RunsHold' /\ OneRunner'
<1>1. run[r].slot \in Slot /\ \A t \in InSaga(run[r].slot) : t = r BY AtWork DEF Saga
<1>2. \A u \in Slot : Quiet(u) \/ (row'[u].status # "none" /\ \A t \in InSaga(u) : t = r)
  BY <1>1 DEF Quiet
<1> QED BY <1>1, <1>2, OneMoves

\* A live order of a row whose saga an invocation is in goes by the row's key, so it
\* is the order the row has written down if there is one.
LEMMA LiveIsKnown ==
  ASSUME IInv, NEW s \in Slot, NEW o \in LiveOrders(s)
  PROVE  /\ orders[o].state # "none" /\ orders[o].key = << s, row[s].key >> /\ row[s].key # 0
         /\ row[s].order # 0 => o = row[s].order
<1>1. o \in Order /\ orders[o].state # "none" BY DEF LiveOrders, MayBuy
<1>2. row[s].order = o \/ orders[o].key = << s, row[s].key >> BY DEF IInv, OrderIsFound
<1>3. o # 0 BY <1>1, Bounds
<1>4. row[s].order # 0 => PlacedAs(row[s].order, s, row[s].key) BY DEF IInv, RowsHold
<1>5. orders[o].key = << s, row[s].key >> BY <1>2, <1>3, <1>4 DEF PlacedAs
<1>6. PICK k \in 1 .. row[s].minted : orders[o].key = << s, k >> BY DEF LiveOrders, MayBuy
<1>7. k = row[s].key /\ k # 0
  <2>1. row[s] \in Entry BY DEF IInv, Typed
  <2>2. row[s].minted \in Nat BY <2>1 DEF Entry
  <2>3. k # 0 BY <2>2
  <2> QED BY <1>5, <1>6, <2>3
<1>8. row[s].order # 0 => o = row[s].order
  BY <1>1, <1>4, <1>5 DEF PlacedAs, IInv, OrdersHold
<1> QED BY <1>1, <1>5, <1>7, <1>8

\* A row that gives up order and key has no live order left.
LEMMA BooksEmptied ==
  ASSUME IInv, NEW s \in Slot, NEW w \in Entry, row' = [row EXCEPT ![s] = w],
         w.status # "none", w.order = 0, w.minted = row[s].minted,
         orders' \in [Order -> Ordered],
         \A o \in Order : orders'[o].key = orders[o].key /\ orders'[o].state = orders[o].state,
         \A o \in Order : orders[o].forgot # "no" => orders'[o].forgot # "no",
         w.key = 0, LiveOrders(s)' = {}
  PROVE  RowsHold' /\ OrdersHold' /\ OrderIsFound'
<1>1. row \in [Slot -> Entry] BY DEF IInv, Typed
<1>2. row'[s] = w /\ \A u \in Slot : u # s => row'[u] = row[u] BY <1>1
<1>3. w.minted \in Nat BY DEF Entry
<1>4. \A u \in Slot : row'[u].minted = row[u].minted BY <1>2
<1>5. OrdersHold' BY <1>4 DEF IInv, OrdersHold
<1>6. RowsHold'
  <2>1. ASSUME NEW u \in Slot, u # s PROVE row'[u] = row[u] BY <1>2, <2>1
  <2>2. \A o \in Order, u \in Slot, k \in Nat : PlacedAs(o, u, k) => PlacedAs(o, u, k)'
    BY DEF PlacedAs
  <2>3. w.key <= w.minted BY <1>3
  <2>4. \A u \in Slot : row[u] \in Entry BY <1>1
  <2>5. ASSUME NEW u \in Slot, u # s, row[u].order # 0
        PROVE  PlacedAs(row[u].order, u, row[u].key)'
    <3>1. PlacedAs(row[u].order, u, row[u].key) BY <2>5 DEF IInv, RowsHold
    <3> QED BY <2>1, <2>5, <3>1 DEF PlacedAs
  <2> QED BY <1>2, <2>3, <2>5 DEF IInv, RowsHold
<1>7. ASSUME NEW u \in Slot, u # s PROVE LiveOrders(u)' \subseteq LiveOrders(u)
  BY <1>2, <1>7 DEF LiveOrders, MayBuy, Ordered, IInv, Typed
<1>8. OrderIsFound' BY <1>2, <1>7 DEF IInv, OrderIsFound, LiveOrders, MayBuy
<1> QED BY <1>5, <1>6, <1>8

LEMMA ZeroOrder == 0 \in 0 .. MaxOrders
  BY Bounds

LEMMA FlipKept == ASSUME IInv, NEW r \in Runner, Flip(r) PROVE IInv'
<1> PICK s \in Slot : s = run[r].slot BY AtWork DEF Flip, At
<1> DEFINE n == run[r].order
           w == [row[s] EXCEPT !.status = "failed", !.attempts = MaxAttempts,
                               !.order = 0, !.key = 0, !.leased = FALSE]
           d == [orders[n] EXCEPT !.forgot = "stuck"]
<1>0. run[r].step = "flip" /\ run[r].step \in Saga BY DEF Flip, At, Saga
<1>1. /\ run \in [Runner -> Running] /\ row[s] \in Entry /\ s \in Slot /\ row[s].status # "none"
      /\ Knows(r) /\ orders \in [Order -> Ordered] /\ row \in [Slot -> Entry]
  BY <1>0, AtWork DEF IInv, Typed
<1>2. n # 0 /\ n = row[s].order /\ n \in Order
  BY <1>0, <1>1 DEF Knows, IInv, RowsHold, PlacedAs
<1>3. /\ w \in Entry /\ w.order = 0 /\ w.key = 0
      /\ w.minted = row[s].minted /\ w.status # "none"
  BY <1>1, ZeroOrder, Bounds DEF Entry, Statuses
<1>4. /\ row' = [row EXCEPT ![s] = w] /\ owned' = owned /\ Ends(r)
      /\ orders' = [orders EXCEPT ![n] = d]
  BY <1>1, <1>2 DEF Flip, Write, Mine
<1>5. /\ d \in Ordered /\ d.key = orders[n].key /\ d.state = orders[n].state /\ d.forgot = "stuck"
  BY <1>1, <1>2 DEF Ordered
<1> HIDE DEF w, d
<1>6. /\ orders' \in [Order -> Ordered] /\ orders'[n] = d
      /\ \A o \in Order : o # n => orders'[o] = orders[o]
  BY <1>1, <1>2, <1>4, <1>5
<1>7. row'[s] = w /\ row' \in [Slot -> Entry] /\ \A u \in Slot : u # s => row'[u] = row[u]
  BY <1>1, <1>3, <1>4
<1>8. LiveOrders(s)' = {}
  <2> SUFFICES ASSUME NEW o \in LiveOrders(s)' PROVE FALSE OBVIOUS
  <2>1. o \in Order /\ o # n BY <1>5, <1>6 DEF LiveOrders, MayBuy
  <2>2. o \in LiveOrders(s) BY <1>3, <1>6, <1>7, <2>1 DEF LiveOrders, MayBuy
  <2> QED BY <1>1, <1>2, <2>1, <2>2, LiveIsKnown
<1>9. RowsHold' /\ OrdersHold' /\ OrderIsFound'
  <2>1. /\ \A o \in Order : orders'[o].key = orders[o].key /\ orders'[o].state = orders[o].state
        /\ \A o \in Order : orders[o].forgot # "no" => orders'[o].forgot # "no"
    BY <1>5, <1>6
  <2>2. row' = [row EXCEPT ![s] = w] BY <1>4
  <2> QED BY <1>1, <1>3, <1>6, <1>8, <2>1, <2>2, BooksEmptied
<1>10. Moves(r) /\ run'[r] = NoRun BY <1>1, <1>4, NoRunTyped DEF Ends, Moves
<1>11. Works(r)' /\ run'[r].step \notin Saga BY <1>10 DEF Works, NoRun, Saga
<1>12. Grow BY <1>5, <1>6 DEF Grow
<1>13. RunsHold' /\ OneRunner'
  BY <1>0, <1>3, <1>5, <1>6, <1>7, <1>10, <1>11, <1>12, WritesBooks
<1> QED BY <1>4, <1>6, <1>7, <1>9, <1>10, <1>13 DEF IInv, Typed, Moves

LEMMA ClearKept == ASSUME IInv, NEW r \in Runner, Clear(r) PROVE IInv'
<1> PICK s \in Slot : s = run[r].slot BY AtWork DEF Clear, At
<1> DEFINE w == [row[s] EXCEPT !.order = 0, !.key = 0]
           v == [run[r] EXCEPT !.step = "record"]
<1>0. run[r].step = "clear" /\ run[r].step \in Saga BY DEF Clear, At, Saga
<1>1. /\ run \in [Runner -> Running] /\ row[s] \in Entry /\ s \in Slot /\ row[s].status # "none"
      /\ Knows(r) /\ run[r] \in Running /\ row \in [Slot -> Entry]
  BY <1>0, AtWork
<1>3. /\ w \in Entry /\ w.order = 0 /\ w.key = 0 /\ w.leased = row[s].leased
      /\ w.minted = row[s].minted /\ w.status # "none"
  BY <1>1, ZeroOrder, Bounds DEF Entry, Statuses
<1>4. /\ row' = [row EXCEPT ![s] = w] /\ owned' = owned /\ run' = [run EXCEPT ![r] = v]
      /\ orders' = orders
  BY <1>1 DEF Clear, Write, Mine, Go
<1>5. v \in Running /\ v.step = "record" /\ v.slot = s BY <1>1 DEF Running, Steps, Saga
<1> HIDE DEF w, v
<1>7. row'[s] = w /\ row' \in [Slot -> Entry] /\ \A u \in Slot : u # s => row'[u] = row[u]
  BY <1>1, <1>3, <1>4
<1>8. LiveOrders(s)' = {}
  <2> SUFFICES ASSUME NEW o \in LiveOrders(s)' PROVE FALSE OBVIOUS
  <2>1. o \in LiveOrders(s) BY <1>3, <1>4, <1>7 DEF LiveOrders, MayBuy
  <2>2. o = run[r].order BY <1>0, <1>1, <2>1, LiveIsKnown DEF Knows
  <2> QED BY <1>0, <1>1, <2>1, <2>2 DEF Knows, LiveOrders, MayBuy
<1>9. RowsHold' /\ OrdersHold' /\ OrderIsFound'
  BY <1>1, <1>3, <1>4, <1>8, BooksEmptied DEF IInv, Typed
<1>10. Moves(r) /\ run'[r] = v BY <1>1, <1>4, <1>5 DEF Moves
<1>11. Works(r)' BY <1>1, <1>3, <1>5, <1>7, <1>10 DEF Works, Knows
<1>12. Grow BY <1>4 DEF Grow
<1>13. RunsHold' /\ OneRunner'
  BY <1>0, <1>3, <1>4, <1>5, <1>7, <1>10, <1>11, <1>12, WritesBooks
<1> QED BY <1>4, <1>7, <1>9, <1>10, <1>13 DEF IInv, Typed, Moves

\* A pick that is dropped takes the order under its key along, if there is one.
LEMMA DropPickKept == ASSUME IInv, NEW r \in Runner, DropPick(r) PROVE IInv'
<1> PICK s \in Slot : s = run[r].slot BY AtWork DEF DropPick, At
<1> DEFINE w == [row[s] EXCEPT !.chosen = FALSE, !.key = 0]
           v == [run[r] EXCEPT !.step = "search", !.chosen = FALSE]
<1>0. run[r].step = "drop" /\ run[r].step \in Saga BY DEF DropPick, At, Saga
<1>1. /\ run \in [Runner -> Running] /\ row[s] \in Entry /\ s \in Slot /\ row[s].status # "none"
      /\ Knows(r) /\ run[r] \in Running /\ row \in [Slot -> Entry]
      /\ orders \in [Order -> Ordered]
  BY <1>0, AtWork DEF IInv, Typed
<1>2. row[s].order = 0 BY <1>0, <1>1 DEF Knows
<1>3. /\ w \in Entry /\ w.order = 0 /\ w.key = 0 /\ w.leased = row[s].leased
      /\ w.minted = row[s].minted /\ w.status # "none"
  BY <1>1, <1>2 DEF Entry, Statuses
<1>4. /\ row' = [row EXCEPT ![s] = w] /\ owned' = owned /\ run' = [run EXCEPT ![r] = v]
  BY <1>1 DEF DropPick, Write, Mine
<1>5. v \in Running /\ v.step = "search" /\ v.slot = s BY <1>1 DEF Running, Steps, Saga
<1>6. /\ orders' \in [Order -> Ordered]
      /\ \A o \in Order :
           /\ orders'[o].key = orders[o].key /\ orders'[o].state = orders[o].state
           /\ orders[o].forgot # "no" => orders'[o].forgot # "no"
           /\ o \in Placed(KeyOf(r)) => orders'[o].forgot = "refused"
  <2> DEFINE forgotten(o) == [orders[o] EXCEPT !.forgot = "refused"]
  <2>1. \A o \in Order : orders'[o] = IF o \in Placed(KeyOf(r)) THEN forgotten(o) ELSE orders[o]
    BY DEF DropPick
  <2>2. ASSUME NEW o \in Order
        PROVE  /\ forgotten(o) \in Ordered /\ forgotten(o).key = orders[o].key
               /\ forgotten(o).state = orders[o].state /\ forgotten(o).forgot = "refused"
    BY <1>1 DEF Ordered
  <2> HIDE DEF forgotten
  <2>3. orders' \in [Order -> Ordered]
    <3>1. orders' = [o \in Order |-> orders'[o]] BY DEF DropPick
    <3>2. \A o \in Order : orders'[o] \in Ordered BY <1>1, <2>1, <2>2
    <3> QED BY <3>1, <3>2
  <2> QED BY <2>1, <2>2, <2>3
<1> HIDE DEF w, v
<1>7. row'[s] = w /\ row' \in [Slot -> Entry] /\ \A u \in Slot : u # s => row'[u] = row[u]
  BY <1>1, <1>3, <1>4
<1>8. LiveOrders(s)' = {}
  <2> SUFFICES ASSUME NEW o \in LiveOrders(s)' PROVE FALSE OBVIOUS
  <2>1. o \in LiveOrders(s) /\ orders'[o].forgot # "refused" /\ o \in Order
    BY <1>3, <1>6, <1>7 DEF LiveOrders, MayBuy, Ordered
  <2>2. orders[o].key = << s, row[s].key >> /\ o \in Order
    BY <1>1, <2>1, LiveIsKnown DEF LiveOrders, MayBuy
  <2>3. o \in Placed(KeyOf(r)) BY <1>0, <1>1, <2>2 DEF Knows, Placed, KeyOf
  <2> QED BY <1>6, <2>1, <2>3
<1>9. RowsHold' /\ OrdersHold' /\ OrderIsFound'
  BY <1>1, <1>3, <1>4, <1>6, <1>8, BooksEmptied
<1>10. Moves(r) /\ run'[r] = v BY <1>1, <1>4, <1>5 DEF Moves
<1>11. Works(r)' BY <1>1, <1>3, <1>5, <1>7, <1>10 DEF Works, Knows
<1>12. Grow BY <1>6 DEF Grow
<1>13. RunsHold' /\ OneRunner'
  BY <1>0, <1>3, <1>5, <1>7, <1>10, <1>11, <1>12, WritesBooks
<1> QED BY <1>4, <1>6, <1>7, <1>9, <1>10, <1>13 DEF IInv, Typed, Moves

\* A key is minted when the row has neither key nor order.
LEMMA ClaimKeyKept == ASSUME IInv, NEW r \in Runner, ClaimKey(r) PROVE IInv'
<1> PICK s \in Slot : s = run[r].slot BY AtWork DEF ClaimKey, At
<1> DEFINE key == KeyFor(row[s])
           top == IF row[s].minted < key THEN key ELSE row[s].minted
           w == [row[s] EXCEPT !.key = key, !.minted = top]
           v == [run[r] EXCEPT !.step = "place", !.key = key]
<1>0. run[r].step = "search" /\ run[r].step \in Saga BY DEF ClaimKey, At, Saga
<1>1. /\ run \in [Runner -> Running] /\ row[s] \in Entry /\ s \in Slot /\ row[s].status # "none"
      /\ Knows(r) /\ run[r] \in Running /\ row \in [Slot -> Entry]
  BY <1>0, AtWork
<1>2. row[s].order = 0 /\ row[s].key \in Nat /\ row[s].minted \in Nat /\ row[s].key <= row[s].minted
  BY <1>0, <1>1 DEF Knows, Entry, IInv, RowsHold
<1>3. /\ key \in Nat /\ key # 0 /\ top \in Nat /\ key <= top /\ row[s].minted <= top
      /\ row[s].key # 0 => key = row[s].key /\ top = row[s].minted
      /\ row[s].key = 0 => key = row[s].minted + 1 /\ top = key
  BY <1>2 DEF KeyFor
<1>4. /\ row' = [row EXCEPT ![s] = w] /\ owned' = owned /\ run' = [run EXCEPT ![r] = v]
      /\ orders' = orders
  BY <1>1 DEF ClaimKey, Write, Mine
<1> HIDE DEF key, top
<1>5. /\ w \in Entry /\ w.order = 0 /\ w.key = key /\ w.leased = row[s].leased
      /\ w.minted = top /\ w.status = row[s].status
  BY <1>1, <1>2, <1>3 DEF Entry
<1>6. v \in Running /\ v.step = "place" /\ v.slot = s /\ v.key = key
  BY <1>1, <1>3 DEF Running, Steps, Saga
<1> HIDE DEF w, v
<1>7. row'[s] = w /\ row' \in [Slot -> Entry] /\ \A u \in Slot : u # s => row'[u] = row[u]
  BY <1>1, <1>4, <1>5
<1>8. \A u \in Slot : row[u].minted \in Nat /\ row'[u].minted \in Nat /\ row[u].minted <= row'[u].minted
  <2>1. \A u \in Slot : row[u] \in Entry /\ row'[u] \in Entry BY <1>1, <1>7
  <2>2. \A u \in Slot : row[u].minted \in Nat /\ row'[u].minted \in Nat BY <2>1 DEF Entry
  <2> QED BY <1>3, <1>5, <1>7, <2>2
<1>9. RowsHold' BY <1>1, <1>3, <1>4, <1>5, <1>7 DEF IInv, RowsHold, PlacedAs
<1>10. OrdersHold'
  <2>1. ASSUME NEW o \in Order, orders[o].state # "none"
        PROVE  \E u \in Slot : \E k \in 1 .. row'[u].minted : orders[o].key = << u, k >>
    <3>1. PICK u \in Slot : \E k \in 1 .. row[u].minted : orders[o].key = << u, k >>
      BY <2>1 DEF IInv, OrdersHold
    <3>2. PICK k \in 1 .. row[u].minted : orders[o].key = << u, k >> BY <3>1
    <3>3. k \in 1 .. row'[u].minted BY <1>8
    <3> QED BY <3>2, <3>3
  <2> QED BY <1>4, <2>1 DEF IInv, OrdersHold
<1>11. ASSUME NEW u \in Slot, NEW o \in LiveOrders(u)'
       PROVE  row'[u].order = o \/ orders'[o].key = << u, row'[u].key >>
  <2>1. CASE u # s
    <3>1. o \in LiveOrders(u) BY <1>4, <1>7, <1>11, <2>1 DEF LiveOrders, MayBuy
    <3> QED BY <1>4, <1>7, <2>1, <3>1 DEF IInv, OrderIsFound
  <2>2. CASE u = s
    <3>1. o \in Order /\ orders[o].state # "none" BY <1>4, <1>11 DEF LiveOrders, MayBuy
    <3>2. PICK q \in Slot : \E k \in 1 .. row[q].minted : orders[o].key = << q, k >>
      BY <3>1 DEF IInv, OrdersHold
    <3>3. PICK m \in 1 .. row'[u].minted : orders'[o].key = << u, m >> BY <1>11 DEF LiveOrders, MayBuy
    <3>4. q = s BY <1>4, <2>2, <3>2, <3>3
    <3>5. o \in LiveOrders(s) BY <1>4, <1>11, <3>2, <3>4 DEF LiveOrders, MayBuy
    <3>6. orders[o].key = << s, row[s].key >> /\ row[s].key # 0 BY <3>5, LiveIsKnown
    <3> QED BY <1>3, <1>4, <1>5, <1>7, <2>2, <3>6
  <2> QED BY <2>1, <2>2
<1>12. OrderIsFound' BY <1>11 DEF OrderIsFound
<1>13. Moves(r) /\ run'[r] = v BY <1>1, <1>4, <1>6 DEF Moves
<1>14. Works(r)' BY <1>1, <1>3, <1>5, <1>6, <1>7, <1>13 DEF Works, Knows
<1>15. Grow BY <1>4 DEF Grow
<1>16. RunsHold' /\ OneRunner'
  BY <1>0, <1>1, <1>4, <1>5, <1>6, <1>7, <1>13, <1>14, <1>15, WritesBooks
<1> QED BY <1>4, <1>7, <1>9, <1>10, <1>12, <1>13, <1>16 DEF IInv, Typed, Moves

LEMMA PersistOrderKept == ASSUME IInv, NEW r \in Runner, PersistOrder(r) PROVE IInv'
<1> PICK s \in Slot : s = run[r].slot BY AtWork DEF PersistOrder, At
<1> DEFINE w == [row[s] EXCEPT !.order = run[r].order]
           v == [run[r] EXCEPT !.step = "activate"]
<1>0. run[r].step = "persist" /\ run[r].step \in Saga BY DEF PersistOrder, At, Saga
<1>1. /\ run \in [Runner -> Running] /\ row[s] \in Entry /\ s \in Slot /\ row[s].status # "none"
      /\ Knows(r) /\ run[r] \in Running /\ row \in [Slot -> Entry]
  BY <1>0, AtWork
<1>2. row[s].order = 0 /\ PlacedAs(run[r].order, s, row[s].key)
  BY <1>0, <1>1 DEF Knows
<1>3. /\ w \in Entry /\ w.order = run[r].order /\ w.key = row[s].key /\ w.leased = row[s].leased
      /\ w.minted = row[s].minted /\ w.status = row[s].status
  BY <1>1 DEF Entry, Running
<1>4. row' = [row EXCEPT ![s] = w] /\ owned' = owned /\ orders' = orders
  BY <1>1 DEF PersistOrder, Write, Mine
<1> HIDE DEF w
<1>7. row'[s] = w /\ row' \in [Slot -> Entry] /\ \A u \in Slot : u # s => row'[u] = row[u]
  BY <1>1, <1>3, <1>4
<1>8. RowsHold'
  <2>1. \A o \in Order, u \in Slot, k \in Nat : PlacedAs(o, u, k)' <=> PlacedAs(o, u, k)
    BY <1>4 DEF PlacedAs
  <2>2. ASSUME NEW u \in Slot, u # s, row[u].order # 0
        PROVE  PlacedAs(row[u].order, u, row[u].key)'
    BY <1>4, <1>7, <2>2 DEF IInv, RowsHold, PlacedAs
  <2>3. PlacedAs(row[s].order, s, row[s].key)' BY <1>2, <1>3, <1>4, <1>7 DEF PlacedAs
  <2> QED BY <1>1, <1>3, <1>7, <2>2, <2>3 DEF IInv, RowsHold
<1>9. \A u \in Slot : row'[u].minted = row[u].minted /\ row'[u].key = row[u].key
  BY <1>3, <1>7
<1>10. OrdersHold' BY <1>4, <1>9 DEF IInv, OrdersHold
<1>11. \A u \in Slot : LiveOrders(u)' = LiveOrders(u) BY <1>4, <1>9 DEF LiveOrders, MayBuy
<1>12. OrderIsFound' BY <1>4, <1>9, <1>11, LiveIsKnown DEF OrderIsFound
<1>13. Grow BY <1>4 DEF Grow
<1>14. Moves(r) /\ Works(r)' /\ (run'[r].step \in Saga => run'[r].slot = run[r].slot)
  <2>1. CASE Ends(r)
    <3>1. Moves(r) /\ run'[r] = NoRun BY <1>1, <2>1, NoRunTyped DEF Ends, Moves
    <3> QED BY <3>1 DEF Works, NoRun, Saga
  <2>2. CASE Go(r, "activate")
    <3>1. v \in Running /\ v.step = "activate" /\ v.slot = s BY <1>1 DEF Running, Steps, Saga
    <3>2. run' = [run EXCEPT ![r] = v] BY <1>1, <2>2 DEF Go
    <3> HIDE DEF v
    <3>3. Moves(r) /\ run'[r] = v BY <1>1, <3>1, <3>2 DEF Moves
    <3> QED BY <1>1, <1>3, <1>7, <3>1, <3>3 DEF Works, Knows
  <2> QED BY <2>1, <2>2 DEF PersistOrder
<1>15. RunsHold' /\ OneRunner'
  BY <1>0, <1>1, <1>3, <1>4, <1>7, <1>13, <1>14, WritesBooks
<1> QED BY <1>4, <1>7, <1>8, <1>10, <1>12, <1>14, <1>15 DEF IInv, Typed, Moves

\* An order is placed only under a key that has none.
LEMMA PlaceKept == ASSUME IInv, NEW r \in Runner, Place(r) PROVE IInv'
<1> PICK s \in Slot : s = run[r].slot BY AtWork DEF Place, At
<1>0. run[r].step = "place" /\ run[r].step \in Saga BY DEF Place, At, Saga
<1>1. /\ run \in [Runner -> Running] /\ row[s] \in Entry /\ s \in Slot /\ row[s].status # "none"
      /\ Knows(r) /\ run[r] \in Running /\ row \in [Slot -> Entry] /\ row' = row
      /\ orders \in [Order -> Ordered] /\ owned \subseteq Order
  BY <1>0, AtWork DEF Place, IInv, Typed
<1>2. /\ row[s].order = 0 /\ run[r].key # 0 /\ run[r].key = row[s].key /\ row[s].leased
      /\ row[s].key \in Nat /\ row[s].minted \in Nat /\ row[s].key <= row[s].minted
  BY <1>0, <1>1 DEF Knows, Entry, IInv, RowsHold
<1> DEFINE v(step, o, n) == [run[r] EXCEPT !.step = step, !.order = o, !.number = n]
<1>3. ASSUME NEW o \in Order, NEW n \in Nat
      PROVE  /\ v("persist", o, n) \in Running /\ v("persist", o, n).step = "persist"
             /\ v("persist", o, n).slot = s /\ v("persist", o, n).key = run[r].key
             /\ v("persist", o, n).order = o
  <2>1. o \in 0 .. MaxOrders BY Bounds DEF Order
  <2> QED BY <1>1, <2>1 DEF Running, Steps, Saga
<1>4. ASSUME NEW o \in Order, NEW n \in Nat, PlacedAs(o, s, run[r].key)',
             run' = [run EXCEPT ![r] = v("persist", o, n)]
      PROVE  /\ Moves(r) /\ Works(r)' /\ run'[r].slot = s
  <2> DEFINE u == v("persist", o, n)
  <2>1. u \in Running /\ u.step = "persist" /\ u.slot = s /\ u.key = run[r].key /\ u.order = o
    BY <1>3
  <2>2. run' = [run EXCEPT ![r] = u] BY <1>4
  <2> HIDE DEF u
  <2>3. Moves(r) /\ run'[r] = u BY <1>1, <2>1, <2>2 DEF Moves
  <2> QED BY <1>1, <1>2, <1>4, <2>1, <2>3 DEF Works, Knows
<1>9. ASSUME NEW o \in Order, NEW n \in Nat
      PROVE  [run EXCEPT ![r].step = "persist", ![r].order = o, ![r].number = n]
               = [run EXCEPT ![r] = v("persist", o, n)]
  BY <1>1
<1> HIDE DEF v
<1>5. ASSUME NEW o \in Order, NEW state \in {"pending", "success"},
             Placed(KeyOf(r)) = {}, NextOrder(o),
             orders' = [orders EXCEPT ![o] = [key |-> KeyOf(r), state |-> state, answer |-> state,
                                              forgot |-> "no"]],
             owned' = IF state = "success" THEN owned \cup {o} ELSE owned,
             \/ run' = [run EXCEPT ![r].step = "persist", ![r].order = o, ![r].number = o]
             \/ \E step \in {"drop", "record"} : Go(r, step)
      PROVE  IInv'
  <2> DEFINE d == [key |-> KeyOf(r), state |-> state, answer |-> state, forgot |-> "no"]
  <2>1. d \in Ordered /\ d.key = << s, row[s].key >> /\ d.state = state /\ d.state # "none"
    BY <1>1, <1>2 DEF Ordered, KeyOf
  <2>2. orders' = [orders EXCEPT ![o] = d] /\ orders[o].state = "none" BY <1>5 DEF NextOrder
  <2> HIDE DEF d
  <2>3. /\ orders' \in [Order -> Ordered] /\ orders'[o] = d
        /\ \A p \in Order : p # o => orders'[p] = orders[p]
    BY <1>1, <2>1, <2>2
  <2>4. \A p \in Order : orders[p].key # << s, row[s].key >>
    BY <1>2, <1>5 DEF Placed, KeyOf
  <2>5. Grow BY <2>2, <2>3 DEF Grow
  <2>6. RowsHold'
    <3>1. ASSUME NEW u \in Slot, row[u].order # 0
          PROVE  PlacedAs(row[u].order, u, row[u].key)'
      BY <1>1, <2>2, <2>3, <3>1 DEF IInv, RowsHold, PlacedAs
    <3> QED BY <1>1, <3>1 DEF IInv, RowsHold
  <2>7. OrdersHold'
    <3>1. row[s].key \in 1 .. row[s].minted BY <1>2
    <3>2. ASSUME NEW p \in Order, p # o
          PROVE  IF orders'[p].state = "none" THEN orders'[p].key = << >>
                 ELSE \E u \in Slot : \E k \in 1 .. row'[u].minted : orders'[p].key = << u, k >>
      BY <1>1, <2>3, <3>2 DEF IInv, OrdersHold
    <3>3. ASSUME NEW p \in Order, NEW q \in Order, orders'[p].state # "none",
                 orders'[q].key = orders'[p].key
          PROVE  p = q
      <4>1. CASE p = o BY <2>1, <2>3, <2>4, <3>3, <4>1
      <4>2. CASE p # o /\ q = o BY <2>1, <2>3, <2>4, <3>3, <4>2
      <4>3. CASE p # o /\ q # o BY <2>3, <3>3, <4>3 DEF IInv, OrdersHold
      <4> QED BY <4>1, <4>2, <4>3
    <3> QED BY <1>1, <2>1, <2>3, <3>1, <3>2, <3>3 DEF OrdersHold
  <2>8. OrderIsFound'
    <3> SUFFICES ASSUME NEW u \in Slot, NEW p \in LiveOrders(u)'
                 PROVE  row'[u].order = p \/ orders'[p].key = << u, row'[u].key >>
      BY DEF OrderIsFound
    <3>1. CASE p # o
      <4>1. p \in LiveOrders(u) BY <1>1, <2>3, <3>1 DEF LiveOrders, MayBuy
      <4> QED BY <1>1, <2>3, <3>1, <4>1 DEF IInv, OrderIsFound, LiveOrders, MayBuy
    <3>2. CASE p = o BY <1>1, <2>1, <2>3, <3>2 DEF LiveOrders, MayBuy
    <3> QED BY <3>1, <3>2
  <2>10. Moves(r) /\ Works(r)' /\ run'[r].slot = s
    <3>1. CASE run' = [run EXCEPT ![r].step = "persist", ![r].order = o, ![r].number = o]
      <4>1. o \in Nat BY Bounds DEF Order
      <4>2. run' = [run EXCEPT ![r] = v("persist", o, o)] BY <1>9, <3>1, <4>1
      <4>3. run'[r].key = run[r].key BY <1>1, <1>3, <4>1, <4>2
      <4>4. PlacedAs(o, s, run[r].key)' BY <1>2, <2>1, <2>3, <4>3 DEF PlacedAs
      <4> QED BY <1>4, <4>1, <4>2, <4>4
    <3>2. ASSUME NEW step \in {"drop", "record"}, Go(r, step)
          PROVE  Moves(r) /\ Works(r)' /\ run'[r].slot = s
      <4>1. [run[r] EXCEPT !.step = step] \in Running BY <1>1 DEF Running, Steps, Saga
      <4>2. Moves(r) /\ run'[r] = [run[r] EXCEPT !.step = step]
        BY <1>1, <3>2, <4>1 DEF Go, Moves
      <4>3. run'[r].step = step /\ run'[r].slot = s /\ run'[r].key = run[r].key
        BY <1>1, <4>2 DEF Running
      <4> QED BY <1>1, <1>2, <4>2, <4>3 DEF Works, Knows
    <3> QED BY <1>5, <3>1, <3>2
  <2>11. RunsHold' /\ OneRunner'
    BY <1>0, <1>1, <2>5, <2>10, WritesBooks
  <2>12. owned' \subseteq Order BY <1>1, <1>5
  <2> QED BY <1>1, <2>3, <2>6, <2>7, <2>8, <2>10, <2>11, <2>12 DEF IInv, Typed, Moves
<1>6. ASSUME NEW o \in Placed(KeyOf(r)), NEW n \in Nat, orders' = orders, owned' = owned,
             run' = [run EXCEPT ![r].step = "persist", ![r].order = o, ![r].number = n]
      PROVE  IInv'
  <2>1. o \in Order /\ orders[o].key = << s, run[r].key >> BY DEF Placed, KeyOf
  <2>2. orders[o].state # "none" BY <1>2, <2>1, NoKey DEF IInv, OrdersHold
  <2>3. \E k \in Nat : k = run[r].key BY <1>2
  <2>4. PICK k \in Nat : k = run[r].key BY <2>3
  <2>5. run' = [run EXCEPT ![r] = v("persist", o, n)] BY <1>6, <1>9, <2>1
  <2>6. v("persist", o, n).key = run[r].key BY <1>3, <2>1
  <2>7. run'[r].key = run[r].key BY <1>1, <2>5, <2>6
  <2>8. PlacedAs(o, s, run[r].key)' BY <1>6, <2>1, <2>2, <2>7 DEF PlacedAs
  <2>9. Moves(r) /\ Works(r)' /\ run'[r].slot = s BY <1>4, <2>1, <2>5, <2>8
  <2> QED BY <1>0, <1>1, <1>6, <2>9, RunMoves
<1>7. ASSUME NEW step \in {"drop", "record"}, Go(r, step),
             orders' = orders, owned' = owned
      PROVE  IInv'
  <2>1. step \in Saga /\ step \in Steps BY DEF Saga, Steps
  <2>2. Works(r)' BY <1>0, <1>1, <1>7, <2>1, StepChanged
  <2> QED BY <1>0, <1>1, <1>7, <2>1, <2>2, Goes
<1>8. Unbought \in Nat /\ \A o \in Order : o \in Nat BY Bounds DEF Unbought, Order
<1> QED BY <1>5, <1>6, <1>7, <1>8 DEF Place, Spend, Placed
--------------------------------------------------------------------------------
(***************************************************************************)
(* What happens around the invocations, and the theorems.                  *)
(***************************************************************************)

\* Rows change outside their books; leases go only where no invocation is in the saga.
LEMMA RowsTouched ==
  ASSUME IInv, run' = run, orders' = orders, owned' = owned, row' \in [Slot -> Entry],
         \A s \in Slot :
           /\ row'[s].order = row[s].order /\ row'[s].key = row[s].key
           /\ row'[s].minted = row[s].minted
           /\ row'[s].status = "none" <=> row[s].status = "none"
           /\ row'[s].leased = row[s].leased \/ (~row'[s].leased /\ InSaga(s) = {})
  PROVE  IInv'
<1>1. RowsHold' /\ OrdersHold' /\ OrderIsFound' BY BooksKept DEF IInv, RowsHold
<1>2. \A s \in Slot : \/ Quiet(s)
                      \/ InSaga(s) = {} /\ (row[s].status # "none" => row'[s].status # "none")
  BY DEF Quiet
<1>3. Grow BY DEF Grow
<1>4. RunsHold' /\ OneRunner' BY <1>2, <1>3, NobodyMoves
<1> QED BY <1>1, <1>4 DEF IInv, Typed

LEMMA CancelKept == ASSUME IInv, Cancel PROVE IInv'
<1>1. row \in [Slot -> Entry] BY DEF IInv, Typed
<1>2. ASSUME NEW s \in Slot
      PROVE  /\ row'[s] \in Entry
             /\ row'[s].order = row[s].order /\ row'[s].key = row[s].key
             /\ row'[s].minted = row[s].minted /\ row'[s].leased = row[s].leased
             /\ row'[s].status = "none" <=> row[s].status = "none"
  <2>1. row[s] \in Entry BY <1>1
  <2>2. row'[s] = IF row[s].status = "active" THEN [row[s] EXCEPT !.status = "suspended"]
                  ELSE row[s]
    BY DEF Cancel
  <2> QED BY <2>1, <2>2 DEF Entry, Statuses
<1>3. row' \in [Slot -> Entry] BY <1>2 DEF Cancel
<1> QED BY <1>2, <1>3, RowsTouched DEF Cancel

\* One row is touched, outside its books.
LEMMA RowTouched ==
  ASSUME IInv, run' = run, orders' = orders, owned' = owned, NEW s \in Slot, NEW w \in Entry,
         row' = [row EXCEPT ![s] = w],
         w.order = row[s].order, w.key = row[s].key, w.minted = row[s].minted,
         w.status = "none" <=> row[s].status = "none",
         w.leased = row[s].leased \/ (~w.leased /\ InSaga(s) = {})
  PROVE  IInv'
<1>1. row \in [Slot -> Entry] BY DEF IInv, Typed
<1>2. /\ row'[s] = w /\ row' \in [Slot -> Entry]
      /\ \A u \in Slot : u # s => row'[u] = row[u]
  BY <1>1
<1> QED BY <1>2, RowsTouched

LEMMA CloseOutKept == ASSUME IInv, NEW s \in Slot, CloseOut(s) PROVE IInv'
<1> DEFINE w == [row[s] EXCEPT !.status = "released"]
<1>1. row[s] \in Entry /\ row[s].status # "none" BY DEF IInv, Typed, CloseOut, Unfinished
<1>2. /\ w \in Entry /\ w.order = row[s].order /\ w.key = row[s].key
      /\ w.minted = row[s].minted /\ w.status # "none" /\ w.leased = row[s].leased
  BY <1>1 DEF Entry, Statuses
<1>3. row' = [row EXCEPT ![s] = w] /\ orders' = orders /\ owned' = owned /\ run' = run
  BY DEF CloseOut, Write
<1> HIDE DEF w
<1> QED BY <1>1, <1>2, <1>3, RowTouched

LEMMA LeaseLapsesKept == ASSUME IInv, NEW s \in Slot, LeaseLapses(s) PROVE IInv'
<1> DEFINE w == [row[s] EXCEPT !.leased = FALSE]
<1>1. row[s] \in Entry BY DEF IInv, Typed
<1>2. /\ w \in Entry /\ w.order = row[s].order /\ w.key = row[s].key
      /\ w.minted = row[s].minted /\ w.status = row[s].status /\ ~w.leased
  BY <1>1 DEF Entry
<1>3. row' = [row EXCEPT ![s] = w] /\ orders' = orders /\ owned' = owned /\ run' = run
      /\ InSaga(s) = {}
  BY DEF LeaseLapses, Write
<1> HIDE DEF w
<1> QED BY <1>1, <1>2, <1>3, RowTouched

LEMMA TickKept == ASSUME IInv, Tick PROVE IInv'
<1>1. row \in [Slot -> Entry] BY DEF IInv, Typed
<1>2. ASSUME NEW s \in Slot
      PROVE  /\ row'[s] \in Entry
             /\ row'[s].order = row[s].order /\ row'[s].key = row[s].key
             /\ row'[s].minted = row[s].minted /\ ~row'[s].leased
             /\ row'[s].status = row[s].status
  <2>1. row[s] \in Entry BY <1>1
  <2>2. row'[s] = [row[s] EXCEPT !.old = row[s].status # "none", !.leased = FALSE]
    BY DEF Tick
  <2>3. (row[s].status # "none") \in BOOLEAN OBVIOUS
  <2> QED BY <2>1, <2>2, <2>3 DEF Entry
<1>3. row' \in [Slot -> Entry] BY <1>2 DEF Tick
<1>4. \A s \in Slot : InSaga(s) = {} BY DEF Tick, At, InSaga, Saga
<1> QED BY <1>2, <1>3, <1>4, RowsTouched DEF Tick

\* Rows and invocations stay; the orders do but for one that settles.
LEMMA OrderSettlesKept == ASSUME IInv, NEW n \in Order, OrderSettles(n) PROVE IInv'
<1>1. row' = row /\ run' = run /\ orders \in [Order -> Ordered] /\ orders[n].state = "pending"
  BY DEF OrderSettles, IInv, Typed
<1>2. PICK state \in {"success", "failed"} : orders' = [orders EXCEPT ![n].state = state]
  BY DEF OrderSettles
<1> DEFINE d == [orders[n] EXCEPT !.state = state]
<1>3. /\ d \in Ordered /\ d.key = orders[n].key /\ d.state = state
      /\ d.forgot = orders[n].forgot
  BY <1>1 DEF Ordered
<1>4. orders' = [orders EXCEPT ![n] = d] BY <1>1, <1>2
<1> HIDE DEF d
<1>5. /\ orders' \in [Order -> Ordered] /\ orders'[n] = d
      /\ \A o \in Order : o # n => orders'[o] = orders[o]
  BY <1>1, <1>3, <1>4
<1>6. owned' \subseteq Order BY DEF OrderSettles, IInv, Typed
<1>7. \A o \in Order : /\ orders'[o].key = orders[o].key /\ orders'[o].forgot = orders[o].forgot
                       /\ orders'[o].state = "none" <=> orders[o].state = "none"
                       /\ orders[o].state = "failed" => orders'[o].state = "failed"
                       /\ orders[o].state \notin {"pending", "success"} =>
                            orders'[o].state \notin {"pending", "success"}
  BY <1>1, <1>3, <1>5
<1>8. \A o, s, k : PlacedAs(o, s, k) => PlacedAs(o, s, k)' BY <1>7 DEF PlacedAs
<1>9. RowsHold'
  <2>1. ASSUME NEW s \in Slot, row[s].order # 0
        PROVE  PlacedAs(row[s].order, s, row[s].key)'
    BY <1>1, <1>7, <2>1 DEF IInv, RowsHold, PlacedAs
  <2> QED BY <1>1, <2>1 DEF IInv, RowsHold
<1>10. OrdersHold' BY <1>1, <1>7 DEF IInv, OrdersHold
<1>11. \A s \in Slot : LiveOrders(s)' \subseteq LiveOrders(s) BY <1>1, <1>7 DEF LiveOrders, MayBuy
<1>12. OrderIsFound' BY <1>1, <1>7, <1>11 DEF IInv, OrderIsFound, LiveOrders, MayBuy
<1>13. Grow BY <1>7 DEF Grow
<1>14. RunsHold' /\ OneRunner' BY <1>1, <1>13, NobodyMoves DEF Quiet
<1> QED BY <1>1, <1>5, <1>6, <1>9, <1>10, <1>12, <1>14 DEF IInv, Typed

LEMMA ScanKept ==
  ASSUME IInv, row' = row, orders' = orders, run' = run, owned' \subseteq Order PROVE IInv'
<1>1. Typed' /\ RowsHold' /\ OrdersHold' BY DEF IInv, Typed, RowsHold, OrdersHold, PlacedAs
<1>2. RunsHold' BY DEF IInv, RunsHold, Works, Knows, Placed, KeyOf, PlacedAs
<1>3. OneRunner' BY DEF IInv, OneRunner, InSaga
<1>4. OrderIsFound' BY DEF IInv, OrderIsFound, LiveOrders, MayBuy
<1> QED BY <1>1, <1>2, <1>3, <1>4 DEF IInv

LEMMA Start == Init => IInv
<1> SUFFICES ASSUME Init PROVE IInv OBVIOUS
<1> DEFINE free == [key |-> << >>, state |-> "none", answer |-> "none", forgot |-> "no"]
<1>1. NoRow \in Entry /\ free \in Ordered BY Bounds DEF NoRow, Entry, Statuses, Ordered
<1>2. /\ \A s \in Slot : row[s] = NoRow
      /\ \A o \in Order : orders[o] = free
      /\ \A r \in Runner : run[r] = NoRun
  BY DEF Init
<1>3. Typed BY <1>1, NoRunTyped DEF Init, Typed
<1>4. NoRow.order = 0 /\ NoRow.key = 0 /\ NoRow.minted = 0 /\ ~NoRow.leased BY DEF NoRow
<1>5. RowsHold BY <1>2, <1>4 DEF RowsHold
<1>6. free.key = << >> /\ free.state = "none" OBVIOUS
<1> HIDE DEF free
<1>7. OrdersHold BY <1>2, <1>6 DEF OrdersHold
<1>8. NoRun.step = "idle" BY DEF NoRun
<1>9. RunsHold BY <1>2, <1>8 DEF RunsHold, Works
<1>10. OneRunner BY <1>2, <1>8 DEF OneRunner, InSaga, Saga
<1>11. OrderIsFound BY <1>2, <1>6 DEF OrderIsFound, LiveOrders, MayBuy
<1> QED BY <1>3, <1>5, <1>7, <1>9, <1>10, <1>11 DEF IInv

LEMMA RunStepKept == ASSUME IInv, NEW r \in Runner, RunStep(r) PROVE IInv'
  BY ArmKept, ClaimLeaseKept, GiveBackKept, RecoverKept, FlipKept, ClearKept, AdoptKept,
     NoInventoryKept, ClaimKeyKept, PlaceKept, DropPickKept, PersistOrderKept, ActivateKept,
     RecordKept, GiveUpKept, ReleaseKept
  DEF RunStep

LEMMA Preserved == IInv /\ [Next]_vars => IInv'
<1> SUFFICES ASSUME IInv, [Next]_vars PROVE IInv' OBVIOUS
<1>1. CASE UNCHANGED vars BY <1>1, ScanKept DEF vars, IInv, Typed
<1>2. ASSUME NEW r \in Runner, RunStep(r) \/ AnswerLost(r) \/ Dies(r) PROVE IInv'
  BY <1>2, RunStepKept, AnswerLostKept, DiesKept
<1>3. ASSUME NEW r \in Runner, NEW s \in Slot,
             Checkout(r, s) \/ Cron(r, s) \/ RemediateReads(r, s) \/ ReleaseReads(r, s)
      PROVE  IInv'
  BY <1>3, CheckoutKept, CronKept, RemediateReadsKept, ReleaseReadsKept
<1>4. CASE Cancel BY <1>4, CancelKept
<1>5. ASSUME NEW s \in Slot, CloseOut(s) \/ LeaseLapses(s) PROVE IInv'
  BY <1>5, CloseOutKept, LeaseLapsesKept
<1>6. CASE ScanReads \/ ScanReclaims \/ ScanEnds
  BY <1>6, ScanKept DEF ScanReads, ScanReclaims, ScanEnds, IInv, Typed
<1>7. ASSUME NEW n \in Order, OrderSettles(n) PROVE IInv' BY <1>7, OrderSettlesKept
<1>8. CASE Tick BY <1>8, TickKept
<1> QED BY <1>1, <1>2, <1>3, <1>4, <1>5, <1>6, <1>7, <1>8 DEF Next

\* The inductive invariant: the rows' books, the orders and what each invocation knows.
THEOREM Invariance == Spec => []IInv
<1>1. IInv /\ [Next]_vars => IInv' BY Preserved
<1> QED BY Start, <1>1, PTL DEF Spec

\* claim_provisioning_lease lets one invocation at a time into the saga of a row,
\* whichever of the five triggers started it.
THEOREM RunnersExclude == Spec => []OneRunner
<1>1. IInv => OneRunner BY DEF IInv
<1> QED BY Invariance, <1>1, PTL

\* Whatever dies and when, the row leads back to an order that may have bought a number,
\* unless it was forgotten as stuck, or because a 4xx answered the pick.
THEOREM OrdersAreFound == Spec => []OrderIsFound
<1>1. IInv => OrderIsFound BY DEF IInv
<1> QED BY Invariance, <1>1, PTL

\* claimOrderIdempotencyKey and the recorded order id: a paid slot never has two orders
\* that may still buy it a number and were not forgotten in one of those two ways.
THEOREM LiveOrderIsOne == Spec => []OneLiveOrder
<1>1. IInv => OneLiveOrder
  <2> SUFFICES ASSUME IInv, NEW s \in Slot, NEW o \in LiveOrders(s), NEW p \in LiveOrders(s)
               PROVE  o = p
    BY DEF OneLiveOrder
  <2>1. o \in Order /\ p \in Order BY DEF LiveOrders, MayBuy
  <2>2. orders[o].state # "none" /\ orders[o].key = orders[p].key BY LiveIsKnown
  <2> QED BY <2>1, <2>2 DEF IInv, OrdersHold
<1> QED BY Invariance, <1>1, PTL
================================================================================
