------------------------------ MODULE Provisioning ------------------------------
(***************************************************************************)
(* Buying the numbers of one company (telnyx/provisioning.ts): the saga    *)
(* that its five triggers may run at the same moment on one phone_numbers  *)
(* row, the owner's remediation and release (routes/numbers.ts), the       *)
(* close-out of a canceled company, and the orphan scan of the reconcile   *)
(* cron.                                                                   *)
(*                                                                         *)
(* A run is one invocation; every await that writes, or that reads what    *)
(* another may change, is a step.  No run outlives its lease of 180 s: its *)
(* seven Telnyx calls are cut off after 20 s each (client.ts:188).  The    *)
(* n-th order buys number n.                                               *)
(***************************************************************************)
EXTENDS Naturals

CONSTANTS
  Runner,          \* invocations that may overlap
  Slot,            \* paid numbers of the company: phone_numbers rows
  MaxAttempts,     \* MAX_PROVISION_ATTEMPTS
  MaxOrders,       \* bound: orders placed
  MaxTriggers,     \* bound: checkouts, confirmations and replays of them
  MaxCrons,        \* bound: runs the crons start between two ticks
  MaxRemedies,     \* bound: remediations
  MaxReleases,     \* bound: releases by the owner
  MaxFaults        \* bound: runs that die and Telnyx answers that are lost

ASSUME ProvisioningAssumption ==
  /\ Runner # {} /\ Slot # {} /\ MaxAttempts \in Nat \ {0} /\ MaxOrders \in Nat
  /\ MaxTriggers \in Nat /\ MaxCrons \in Nat \ {0} /\ MaxRemedies \in Nat /\ MaxReleases \in Nat /\ MaxFaults \in Nat

VARIABLES
  row,       \* the phone_numbers row of each slot
  orders,    \* Telnyx: the number orders placed
  owned,     \* Telnyx: the numbers it holds for the company
  run,       \* what each invocation is doing
  scan,      \* the orphan scan, with the rows it read
  canceled,  \* the subscription is canceled
  budget     \* what may still happen

vars == << row, orders, owned, run, scan, canceled, budget >>

Order    == 1 .. MaxOrders
Unbought == MaxOrders + 1     \* a number some search returned and nobody ordered

NoRow == [status |-> "none", order |-> 0, key |-> 0, minted |-> 0, number |-> 0,
          attempts |-> 0, leased |-> FALSE, chosen |-> FALSE, old |-> FALSE]
NoRun == [step |-> "idle", slot |-> "none", order |-> 0, key |-> 0, number |-> 0,
          attempts |-> 0, chosen |-> FALSE, old |-> FALSE]
NoScan == [on |-> FALSE, known |-> {}]

Init ==
  /\ row = [s \in Slot |-> NoRow]
  /\ orders = [o \in Order |-> [key |-> << >>, state |-> "none", answer |-> "none",
                                forgot |-> "no"]]
  /\ owned = {}
  /\ run = [r \in Runner |-> NoRun]
  /\ scan = NoScan
  /\ canceled = FALSE
  /\ budget = [trigger |-> MaxTriggers, cron |-> MaxCrons, remedy |-> MaxRemedies, release |-> MaxReleases,
               fault |-> MaxFaults]

Spend(kind) == budget[kind] > 0 /\ budget' = [budget EXCEPT ![kind] = @ - 1]

At(r, step) == run[r].step = step
Go(r, step) == run' = [run EXCEPT ![r].step = step]
Ends(r)     == run' = [run EXCEPT ![r] = NoRun]
Begin(r, s, step) == At(r, "idle") /\ run' = [run EXCEPT ![r] = [NoRun EXCEPT !.slot = s, !.step = step]]

\* The columns of the row that the write names, and no others.
Write(s, r) == row' = [row EXCEPT ![s] = r]
Mine(r)     == row[run[r].slot]

Unfinished(s) == row[s].status \in {"provisioning", "failed"}
Holding(s)    == row[s].status \in {"active", "suspended"}
NumbersOf(S)  == { row[s].number : s \in { t \in S : row[t].status # "released" } } \ {0}

-------------------------------------------------------------------------------
(***************************************************************************)
(* The triggers.                                                           *)
(***************************************************************************)

\* provisionCompanyNumber and POST /v1/numbers/provision: the row first, by its
\* unique key, then the saga.
Checkout(r, s) ==
  /\ (row[s].status = "none" /\ ~canceled) \/ Unfinished(s)
  /\ Spend("trigger")
  /\ Begin(r, s, "claim")
  /\ IF row[s].status = "none"
     THEN \E chosen \in BOOLEAN : Write(s, [NoRow EXCEPT !.status = "provisioning", !.chosen = chosen])
     ELSE UNCHANGED row
  /\ UNCHANGED << orders, owned, scan, canceled >>

\* One attempt too many.
Variant_Spent_late(w) == w.attempts > MaxAttempts

Spent(w) == w.attempts >= MaxAttempts

\* reconcileNumbers within the attempts, sweepStuckProvisioning past the dwell.
Cron(r, s) ==
  /\ Unfinished(s) /\ ~canceled
  /\ \/ ~Spent(row[s])
     \/ row[s].status = "provisioning" /\ row[s].order # 0 /\ row[s].old
  /\ Spend("cron") /\ Begin(r, s, "claim")
  /\ UNCHANGED << row, orders, owned, scan, canceled >>

\* POST /v1/numbers/:id/remediate: a pick needs a row without an order.
RemediateReads(r, s) ==
  /\ row[s].status = "failed" /\ Spend("remedy")
  /\ \E chosen \in BOOLEAN :
       /\ chosen => row[s].order = 0
       /\ At(r, "idle")
       /\ run' = [run EXCEPT ![r] = [NoRun EXCEPT !.slot = s, !.step = "arm", !.chosen = chosen]]
  /\ UNCHANGED << row, orders, owned, scan, canceled >>

Arm(r) ==
  /\ At(r, "arm")
  /\ IF Mine(r).status = "failed"
     THEN /\ Write(run[r].slot, [Mine(r) EXCEPT !.status = "provisioning", !.attempts = 0,
                                                !.chosen = run[r].chosen])
          /\ Go(r, "claim")
     ELSE Ends(r) /\ UNCHANGED row
  /\ UNCHANGED << orders, owned, scan, canceled, budget >>

-------------------------------------------------------------------------------
(***************************************************************************)
(* The saga: resumeProvisioning.                                           *)
(***************************************************************************)

\* Failed and out of attempts: for the owner to remedy.
Exhausted(w) == w.status = "failed" /\ Spent(w)

\* No lease, as before the migration that added it.
Variant_Leased_never(w) == FALSE

Leased(w) == w.leased

\* claim_provisioning_lease returns the fresh row, or nothing to the loser.
ClaimLease(r) ==
  /\ At(r, "claim")
  /\ IF Leased(Mine(r))
     THEN Ends(r) /\ UNCHANGED row
     ELSE /\ Write(run[r].slot, [Mine(r) EXCEPT !.leased = TRUE])
          /\ run' = [run EXCEPT ![r] =
               [@ EXCEPT !.step = IF Exhausted(Mine(r)) THEN "giveBack"
                                  ELSE IF Mine(r).order # 0 THEN "recover" ELSE "adopt",
                         !.order = Mine(r).order, !.attempts = Mine(r).attempts,
                         !.chosen = Mine(r).chosen, !.old = Mine(r).old]]
  /\ UNCHANGED << orders, owned, scan, canceled, budget >>

GiveBack(r) ==
  /\ At(r, "giveBack") /\ Ends(r)
  /\ Write(run[r].slot, [Mine(r) EXCEPT !.leased = FALSE])
  /\ UNCHANGED << orders, owned, scan, canceled, budget >>

Activates(r, n) == run' = [run EXCEPT ![r].step = "activate", ![r].number = n]

\* A pending order is waited for, however long.
Variant_Dwelled_never(r) == FALSE

\* Past the dwell, by the age of the row.
Dwelled(r) == run[r].old

\* recoverFromOrder: the order this row wrote down.
Recover(r) ==
  /\ At(r, "recover")
  /\ LET o == run[r].order IN
     \/ orders[o].state = "success" /\ Activates(r, o)
     \/ orders[o].state = "pending" /\ (IF Dwelled(r) THEN Go(r, "flip") ELSE Ends(r))
     \/ orders[o].state = "failed" /\ Go(r, "clear")
  /\ UNCHANGED << row, orders, owned, scan, canceled, budget >>

\* A Telnyx call is under way: an order or a list is read, an order placed, or the
\* id looked up of the number that an order bought.
Asks(r) == \/ run[r].step \in {"recover", "adopt", "search", "place"}
           \/ At(r, "activate") /\ run[r].order # 0

\* Takes an order that could not be read for a dead one.
Variant_AnswerLost_clears(r) ==
  /\ Asks(r)
  /\ Spend("fault") /\ Go(r, "clear")
  /\ UNCHANGED << row, orders, owned, scan, canceled >>

\* Any Telnyx call whose answer does not come back.
AnswerLost(r) ==
  /\ Asks(r)
  /\ Spend("fault") /\ Go(r, "record")
  /\ UNCHANGED << row, orders, owned, scan, canceled >>

\* failStuckPendingOrder gives the order up.
Flip(r) ==
  /\ At(r, "flip") /\ Ends(r)
  /\ Write(run[r].slot, [Mine(r) EXCEPT !.status = "failed", !.attempts = MaxAttempts,
                                        !.order = 0, !.key = 0, !.leased = FALSE])
  /\ orders' = [orders EXCEPT ![run[r].order].forgot = "stuck"]
  /\ UNCHANGED << owned, scan, canceled, budget >>

\* OrderDeadError: the id and the key go, the failure counts.
Clear(r) ==
  /\ At(r, "clear") /\ Go(r, "record")
  /\ Write(run[r].slot, [Mine(r) EXCEPT !.order = 0, !.key = 0])
  /\ UNCHANGED << orders, owned, scan, canceled, budget >>

\* Numbers tagged to the company that no row names.
Orphans == owned \ NumbersOf(Slot)

\* adoptOrphanNumber.
Adopt(r) ==
  /\ At(r, "adopt")
  /\ IF Orphans # {} THEN \E n \in Orphans : Activates(r, n) ELSE Go(r, "search")
  /\ UNCHANGED << row, orders, owned, scan, canceled, budget >>

\* searchAvailableNumber finds nothing to order.
NoInventory(r) ==
  /\ At(r, "search") /\ ~run[r].chosen /\ Go(r, "record")
  /\ UNCHANGED << row, orders, owned, scan, canceled, budget >>

\* A key for every attempt.
Variant_KeyFor_attempt(w) == w.minted + 1

KeyFor(w) == IF w.key = 0 THEN w.minted + 1 ELSE w.key

\* claimOrderIdempotencyKey: one key for as long as the order is open.
ClaimKey(r) ==
  /\ At(r, "search")
  /\ LET w   == Mine(r)
         key == KeyFor(w)
     IN /\ Write(run[r].slot, [w EXCEPT !.key = key,
                                        !.minted = IF w.minted < key THEN key ELSE w.minted])
        /\ run' = [run EXCEPT ![r].step = "place", ![r].key = key]
  /\ UNCHANGED << orders, owned, scan, canceled, budget >>

KeyOf(r) == << run[r].slot, run[r].key >>
Placed(key) == { o \in Order : orders[o].key = key }

\* Orders are numbered as they are placed.
NextOrder(o) ==
  /\ orders[o].state = "none"
  /\ \A n \in Order : orders[n].state = "none" => o <= n

\* POST /v2/number_orders: a new order, or the first answer to its key once more.
\* A pick that is answered by any 4xx counts as refused.  That is so when nothing
\* was placed; but a 408 or 429 says nothing of the order, and may come when Telnyx
\* has it.
Place(r) ==
  /\ At(r, "place")
  /\ \/ \E o \in Order, state \in {"pending", "success"} :
          /\ Placed(KeyOf(r)) = {} /\ NextOrder(o)
          /\ orders' = [orders EXCEPT ![o] = [key |-> KeyOf(r), state |-> state, answer |-> state,
                                             forgot |-> "no"]]
          /\ owned' = IF state = "success" THEN owned \cup {o} ELSE owned
          /\ \/ UNCHANGED budget
                /\ run' = [run EXCEPT ![r].step = "persist", ![r].order = o, ![r].number = o]
             \/ Spend("fault") /\ Go(r, "record")
             \/ Spend("fault") /\ run[r].chosen /\ Go(r, "drop")
     \/ \E o \in Placed(KeyOf(r)), searched \in BOOLEAN :
          /\ searched => ~run[r].chosen
          /\ run' = [run EXCEPT ![r].step = "persist", ![r].order = o,
                                ![r].number = IF searched THEN Unbought ELSE o]
          /\ UNCHANGED << orders, owned, budget >>
     \/ /\ IF Placed(KeyOf(r)) = {} THEN UNCHANGED budget ELSE Spend("fault")
        /\ Go(r, IF run[r].chosen THEN "drop" ELSE "record")
        /\ UNCHANGED << orders, owned >>
  /\ UNCHANGED << row, scan, canceled >>

\* The pick counts as taken meanwhile: on without it and with a new key.  An order
\* that Telnyx has under the old key is forgotten.
DropPick(r) ==
  /\ At(r, "drop")
  /\ run' = [run EXCEPT ![r].step = "search", ![r].chosen = FALSE]
  /\ Write(run[r].slot, [Mine(r) EXCEPT !.chosen = FALSE, !.key = 0])
  /\ orders' = [o \in Order |-> IF o \in Placed(KeyOf(r)) THEN [orders[o] EXCEPT !.forgot = "refused"]
                                ELSE orders[o]]
  /\ UNCHANGED << owned, scan, canceled, budget >>

\* The order id, immediately; a pending order is left to the cron, lease and all.
PersistOrder(r) ==
  /\ At(r, "persist")
  /\ Write(run[r].slot, [Mine(r) EXCEPT !.order = run[r].order])
  /\ IF orders[run[r].order].answer = "success" THEN Go(r, "activate") ELSE Ends(r)
  /\ UNCHANGED << orders, owned, scan, canceled, budget >>

\* activateRow; phone_numbers_e164_uq refuses a number another row names.
Activate(r) ==
  /\ At(r, "activate")
  /\ LET s == run[r].slot IN
     IF run[r].number \in NumbersOf(Slot \ {s})
     THEN Go(r, "record") /\ UNCHANGED row
     ELSE /\ Write(s, [row[s] EXCEPT !.status = "active", !.number = run[r].number,
                                     !.chosen = FALSE, !.leased = FALSE])
          /\ Ends(r)
  /\ UNCHANGED << orders, owned, scan, canceled, budget >>

\* recordProvisionFailure.
Record(r) ==
  /\ At(r, "record") /\ Ends(r)
  /\ Write(run[r].slot, [Mine(r) EXCEPT !.status = "failed", !.attempts = run[r].attempts + 1,
                                        !.leased = FALSE])
  /\ UNCHANGED << orders, owned, scan, canceled, budget >>

-------------------------------------------------------------------------------
(***************************************************************************)
(* Giving numbers back.                                                    *)
(***************************************************************************)

\* DELETE /v1/numbers/:id and the grace job: releaseNumberRow on the row as read.
ReleaseReads(r, s) ==
  /\ row[s].status \notin {"none", "released"} /\ Spend("release")
  /\ At(r, "idle")
  /\ run' = [run EXCEPT ![r] = [NoRun EXCEPT !.slot = s, !.number = row[s].number,
                                  !.step = IF row[s].number = 0 THEN "release" ELSE "giveUp"]]
  /\ UNCHANGED << row, orders, owned, scan, canceled >>

GiveUp(r) ==
  /\ At(r, "giveUp") /\ Go(r, "release")
  /\ owned' = owned \ {run[r].number}
  /\ UNCHANGED << row, orders, scan, canceled, budget >>

Release(r) ==
  /\ At(r, "release") /\ Ends(r)
  /\ Write(run[r].slot, [Mine(r) EXCEPT !.status = "released"])
  /\ UNCHANGED << orders, owned, scan, canceled, budget >>

\* The subscription ends: suspendCompanyNumbers.
Cancel ==
  /\ ~canceled /\ canceled' = TRUE
  /\ row' = [s \in Slot |-> IF row[s].status = "active" THEN [row[s] EXCEPT !.status = "suspended"]
                            ELSE row[s]]
  /\ UNCHANGED << orders, owned, run, scan, budget >>

\* close_out_dead_provisioning.
CloseOut(s) ==
  /\ canceled /\ Unfinished(s) /\ row[s].number = 0 /\ ~row[s].leased
  /\ Write(s, [row[s] EXCEPT !.status = "released"])
  /\ UNCHANGED << orders, owned, run, scan, canceled, budget >>

\* The orphan scan reads the rows, then page by page the numbers Telnyx holds.  It
\* deletes those of a settled company with nothing in flight, and flags the others.
ScanReads ==
  /\ ~scan.on
  /\ \E s \in Slot : Holding(s)
  /\ \A s \in Slot : ~Unfinished(s)
  /\ scan' = [on |-> TRUE, known |-> NumbersOf(Slot)]
  /\ UNCHANGED << row, orders, owned, run, canceled, budget >>

ScanReclaims ==
  /\ scan.on
  /\ \E n \in owned \ scan.known : owned' = owned \ {n}
  /\ UNCHANGED << row, orders, run, scan, canceled, budget >>

ScanEnds ==
  /\ scan.on /\ scan' = NoScan
  /\ UNCHANGED << row, orders, owned, run, canceled, budget >>

-------------------------------------------------------------------------------
(***************************************************************************)
(* Telnyx, failures and time.                                              *)
(***************************************************************************)

OrderSettles(o) ==
  /\ orders[o].state = "pending"
  /\ \/ orders' = [orders EXCEPT ![o].state = "success"] /\ owned' = owned \cup {o}
     \/ orders' = [orders EXCEPT ![o].state = "failed"] /\ owned' = owned
  /\ UNCHANGED << row, run, scan, canceled, budget >>

Saga == {"giveBack", "recover", "flip", "clear", "adopt", "search", "place", "drop", "persist",
         "activate", "record"}

InSaga(s) == { r \in Runner : run[r].slot = s /\ run[r].step \in Saga }

Dies(r) ==
  /\ ~At(r, "idle") /\ Spend("fault") /\ Ends(r)
  /\ UNCHANGED << row, orders, owned, scan, canceled >>

LeaseLapses(s) ==
  /\ row[s].leased /\ InSaga(s) = {}
  /\ Write(s, [row[s] EXCEPT !.leased = FALSE])
  /\ UNCHANGED << orders, owned, run, scan, canceled, budget >>

\* STUCK_PENDING_MS go by.
Tick ==
  /\ \A r \in Runner : At(r, "idle")
  /\ row' = [s \in Slot |-> [row[s] EXCEPT !.old = row[s].status # "none", !.leased = FALSE]]
  /\ budget' = [budget EXCEPT !.cron = MaxCrons]
  /\ << row', budget' >> # << row, budget >>
  /\ UNCHANGED << orders, owned, run, scan, canceled >>

-------------------------------------------------------------------------------
RunStep(r) ==
  \/ Arm(r) \/ ClaimLease(r) \/ GiveBack(r) \/ Recover(r) \/ Flip(r) \/ Clear(r) \/ Adopt(r)
  \/ NoInventory(r) \/ ClaimKey(r) \/ Place(r) \/ DropPick(r) \/ PersistOrder(r)
  \/ Activate(r) \/ Record(r) \/ GiveUp(r) \/ Release(r)

Next ==
  \/ \E r \in Runner : RunStep(r) \/ AnswerLost(r) \/ Dies(r)
  \/ \E r \in Runner, s \in Slot :
       Checkout(r, s) \/ Cron(r, s) \/ RemediateReads(r, s) \/ ReleaseReads(r, s)
  \/ Cancel
  \/ \E s \in Slot : CloseOut(s) \/ LeaseLapses(s)
  \/ ScanReads \/ ScanReclaims \/ ScanEnds
  \/ \E o \in Order : OrderSettles(o)
  \/ Tick

Spec == Init /\ [][Next]_vars

\* A run goes on unless it dies, the crons fire, time passes.
LiveSpec ==
  /\ Spec
  /\ \A r \in Runner : WF_vars(RunStep(r))
  /\ \A s \in Slot : /\ SF_vars(\E r \in Runner : Cron(r, s))
                     /\ WF_vars(CloseOut(s)) /\ WF_vars(LeaseLapses(s))
  /\ WF_vars(Tick)

-------------------------------------------------------------------------------
(***************************************************************************)
(* Properties.                                                             *)
(***************************************************************************)

TypeOK ==
  /\ row \in [Slot -> [status : {"none", "provisioning", "failed", "active", "suspended", "released"},
                       order : 0 .. MaxOrders, key : Nat, minted : Nat, number : 0 .. Unbought,
                       attempts : 0 .. MaxAttempts + 1, leased : BOOLEAN, chosen : BOOLEAN, old : BOOLEAN]]
  /\ owned \subseteq Order
  /\ canceled \in BOOLEAN

\* Two runs are never both in the saga of one row, whichever of the five triggers
\* started them (claim_provisioning_lease).
OneRunner == \A s \in Slot : \A q, r \in InSaga(s) : q = r

\* The orders of a slot that may buy a number, but for those that a row forgot on
\* the given grounds: as stuck, or as refused.
MayBuy(s, grounds) ==
  { o \in Order : /\ orders[o].state \in {"pending", "success"} /\ orders[o].forgot \notin grounds
                  /\ \E k \in 1 .. row[s].minted : orders[o].key = << s, k >> }
LiveOrders(s) == MayBuy(s, {"stuck", "refused"})

\* One paid slot never has two orders that may buy a number: a second run, a lost
\* answer, a crash after the purchase find the first one again.  Not counted are
\* the orders that the code forgets knowingly, stuck past the dwell, and the ones
\* it forgets because a 4xx answered the pick (NoDoubleBuy counts those).
OneLiveOrder == \A s \in Slot : \A o, p \in LiveOrders(s) : o = p

\* Whatever dies and when, the row leads back to an order that may have bought a
\* number, and was not forgotten in one of those two ways: by the order's id, or by
\* the key that Telnyx answers with it.
OrderIsFound ==
  \A s \in Slot : \A o \in LiveOrders(s) : row[s].order = o \/ orders[o].key = << s, row[s].key >>

\* "the order may be in flight, so we must NOT reorder (double-buy)"
\* (provisioning.ts:663-664): a slot does not get a second order while a first one
\* may still buy a number, unless that one was given up as stuck.
NoDoubleBuy == \A s \in Slot : \A o, p \in MayBuy(s, {"stuck"}) : o = p

\* A row does not stay in provisioning: it gets its number, fails, or is closed out.
Resolves == \A s \in Slot : (row[s].status = "provisioning") ~> (row[s].status # "provisioning")

\* "[Adopt] one no row knows about instead of ordering again" (provisioning.ts:557):
\* never the number that the order of another row bought.
AdoptsOrphans ==
  [][\A r \in Runner : At(r, "adopt") /\ run'[r].step = "activate" =>
       \A s \in Slot \ {run[r].slot} : row[s].order # run'[r].number]_vars
================================================================================
