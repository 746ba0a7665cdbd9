----------------------------- MODULE WebhookLedger -----------------------------
(***************************************************************************)
(* The ledger of provider webhooks (public.webhook_events) and the three   *)
(* kinds of process that work on it: the requests that deliver a webhook   *)
(* (webhooks/telnyx.ts, stripe.ts, resend.ts), the runs of the sweeper     *)
(* (messaging/crons.ts sweepWebhookEvents) and the retention job.          *)
(*                                                                         *)
(* Every database call is a step of its own, so that processes interleave  *)
(* between them.  Time is a coarse tick; ages saturate, so they are finite *)
(* without a horizon.  A claim that was never made and one whose lease has *)
(* run out are the same to every query, so claimAge starts at Lease.       *)
(***************************************************************************)
EXTENDS Naturals

CONSTANTS
  Event,          \* event ids
  KindOf,         \* how the route treats each event
  Request,        \* requests (and their background tasks) that may overlap
  Sweep,          \* runs of the sweeper that may overlap
  MaxAttempts,    \* SWEEP_MAX_ATTEMPTS
  MinAge,         \* SWEEP_MIN_AGE_MS, in ticks
  Lease,          \* SWEEP_CLAIM_LEASE_MS, in ticks
  TaskLife,       \* how long a request and its background task may live
  HandlerLife,    \* how long the sweeper's handler of one row may take
  MaxPosts,       \* bound: deliveries, of all events together
  MaxFaults,      \* bound: database calls that fail and workers that die
  NoEvent         \* no event is being handled

\* How a route treats an event: a call event is awaited and goes to the call's
\* session, a call.cost is awaited and recorded; the rest is acknowledged first
\* and processed in the background ("mail" counts no attempt there).
Kind == {"call", "cost", "plain", "mail"}

ASSUME LedgerAssumption ==
  /\ KindOf \in [Event -> Kind]
  /\ NoEvent \notin Event
  /\ MaxAttempts \in Nat \ {0} /\ MaxPosts \in Nat
  /\ MaxFaults \in Nat
  /\ MinAge \in Nat /\ Lease \in Nat /\ TaskLife \in Nat /\ HandlerLife \in Nat

\* A background task ends long before its row is old enough for the sweeper,
\* and a handler before its claim's lease: the platform ends a task within
\* seconds of its response, the sweeper waits minutes, and the lease is "longer
\* than any realistic sweep pass".
ASSUME TimingAssumption == TaskLife < MinAge /\ HandlerLife < Lease

VARIABLES
  row,       \* webhook_events, by event id
  req,       \* what each request is doing
  run,       \* what each run of the sweeper is doing
  budget,    \* failures still to happen
  provider,  \* the provider's view: deliveries made, acknowledged, given up
  ghost      \* history: handlers that returned, rows ever stamped, claims won

vars == << row, req, run, budget, provider, ghost >>

Row == [present : BOOLEAN, processed : BOOLEAN, attempts : 0 .. MaxAttempts,
        age : 0 .. MinAge, claimAge : 0 .. Lease]
NoRow    == [present |-> FALSE, processed |-> FALSE, attempts |-> 0, age |-> 0, claimAge |-> Lease]
FreshRow == [NoRow EXCEPT !.present = TRUE]

RequestIdle == [event |-> NoEvent, step |-> "idle", read |-> 0, spent |-> 0]
SweepIdle   == [todo |-> {}, event |-> NoEvent, step |-> "idle", spent |-> 0]

Init ==
  /\ row = [e \in Event |-> NoRow]
  /\ req = [q \in Request |-> RequestIdle]
  /\ run = [s \in Sweep |-> SweepIdle]
  /\ budget = MaxFaults
  /\ provider = [posts |-> 0, acked |-> {}, closed |-> {}]
  /\ ghost = [handled |-> {}, stamped |-> {}, claims |-> [e \in Event |-> 0]]

Acked(e)   == provider' = [provider EXCEPT !.acked = @ \cup {e}]
Handled(e) == [ghost EXCEPT !.handled = @ \cup {e}]

\* UPDATE webhook_events SET processed_at: by primary key, no other condition.
Stamped(e) == [row EXCEPT ![e].processed = row[e].present]

\* A failing database call, a dying worker.
Fault == budget > 0 /\ budget' = budget - 1

-------------------------------------------------------------------------------
(***************************************************************************)
(* The routes.                                                             *)
(***************************************************************************)

Awaited(e) == KindOf[e] \in {"call", "cost"}

\* A request takes an event: to dispatch it, or to read its row again first.
Take(q, e, step) ==
  req' = [req EXCEPT ![q] = [event |-> e, step |-> step, read |-> 0, spent |-> 0]]

\* A delivery: the upsert that ignores duplicates, and what follows from whether
\* it inserted.  A duplicate is acknowledged, unless it is a call event: the stamp
\* of its row is read next, by a query of its own.
Post(q, e) ==
  LET fresh  == ~row[e].present
      reread == ~fresh /\ KindOf[e] = "call"
  IN
  /\ req[q].step = "idle" /\ e \notin provider.closed
  /\ provider.posts < MaxPosts
  /\ row' = [row EXCEPT ![e] = IF fresh THEN FreshRow ELSE @]
  /\ \/ fresh /\ Take(q, e, "dispatch")
     \/ reread /\ Take(q, e, "reread")
     \/ ~fresh /\ ~reread /\ UNCHANGED req
  /\ provider' = [provider EXCEPT
       !.posts = @ + 1,
       !.acked = IF (fresh /\ Awaited(e)) \/ reread THEN @ ELSE @ \cup {e}]
  /\ UNCHANGED << run, budget, ghost >>

GoesOn(q) == req' = [req EXCEPT ![q].step = "dispatch"]

\* The stamp of a duplicate call event is read: without one the event is
\* dispatched again.
Reread(q) ==
  LET e == req[q].event IN
  /\ req[q].step = "reread"
  /\ \/ ~row[e].processed /\ GoesOn(q) /\ UNCHANGED provider
     \/ row[e].processed /\ req' = [req EXCEPT ![q] = RequestIdle] /\ Acked(e)
  /\ UNCHANGED << row, run, budget, ghost >>

\* That read fails, and its error is not looked at: no stamp was read, so the
\* event is dispatched again, whatever its row says.
RereadErrs(q) ==
  /\ req[q].step = "reread" /\ Fault
  /\ GoesOn(q)
  /\ UNCHANGED << row, run, provider, ghost >>

\* The handler returns, and the event is to be stamped.
DispatchDone(q) ==
  /\ req[q].step = "dispatch"
  /\ req' = [req EXCEPT ![q].step = "stamp"]
  /\ ghost' = Handled(req[q].event)
  /\ UNCHANGED << row, run, budget, provider >>

\* A hangup no row explains, or a cost the database refused: acknowledged and
\* left unstamped, for the sweeper.
DispatchDeferred(q) ==
  LET e == req[q].event IN
  /\ req[q].step = "dispatch" /\ Awaited(e)
  /\ req' = [req EXCEPT ![q] = RequestIdle]
  /\ Acked(e)
  /\ UNCHANGED << row, run, budget, ghost >>

\* The handler throws.  A call event's request fails with it, and the provider
\* delivers again; a background task goes on to write the failure down.
DispatchThrows(q) ==
  LET e == req[q].event IN
  /\ req[q].step = "dispatch" /\ KindOf[e] # "cost"
  /\ req' = [req EXCEPT ![q] = IF KindOf[e] = "plain" THEN [@ EXCEPT !.step = "read"]
                               ELSE RequestIdle]
  /\ UNCHANGED << row, run, budget, provider, ghost >>

Stamp(q) ==
  LET e == req[q].event IN
  /\ req[q].step = "stamp"
  /\ row' = Stamped(e)
  /\ req' = [req EXCEPT ![q] = RequestIdle]
  /\ Acked(e)
  /\ ghost' = [ghost EXCEPT !.stamped = @ \cup {e}]
  /\ UNCHANGED << run, budget >>

\* The stamp fails: best effort for an awaited event, a failure of the task for
\* a background one.
StampFails(q) ==
  LET e == req[q].event IN
  /\ req[q].step = "stamp" /\ Fault
  /\ req' = [req EXCEPT ![q] = IF KindOf[e] = "plain" THEN [@ EXCEPT !.step = "read"]
                               ELSE RequestIdle]
  /\ Acked(e)
  /\ UNCHANGED << row, run, ghost >>

\* The failure of a background task: attempts is read, then written back plus one.
ReadAttempts(q) ==
  /\ req[q].step = "read"
  /\ req' = [req EXCEPT ![q].step = "bump",
                         ![q].read = row[req[q].event].attempts]
  /\ UNCHANGED << row, run, budget, provider, ghost >>

BumpAttempts(q) ==
  LET e == req[q].event IN
  /\ req[q].step = "bump"
  /\ row' = [row EXCEPT ![e].attempts = IF row[e].present THEN req[q].read + 1 ELSE @]
  /\ req' = [req EXCEPT ![q] = RequestIdle]
  /\ UNCHANGED << run, budget, provider, ghost >>

RequestDies(q) ==
  /\ req[q].step # "idle" /\ Fault
  /\ req' = [req EXCEPT ![q] = RequestIdle]
  /\ UNCHANGED << row, run, provider, ghost >>

-------------------------------------------------------------------------------
(***************************************************************************)
(* The sweeper.                                                            *)
(***************************************************************************)

\* No lease: a claim shields nothing.
Variant_Unclaimed_noLease(e) == row[e].present

Unclaimed(e) == row[e].claimAge = Lease

\* Replays a row however often it failed.
Variant_Owed_forever(e) ==
  row[e].present /\ ~row[e].processed /\ row[e].age = MinAge /\ Unclaimed(e)

\* Replays only what no attempt was ever made at.
Variant_Owed_firstOnly(e) ==
  row[e].present /\ ~row[e].processed /\ row[e].age = MinAge /\ row[e].attempts = 0

\* The query: rows unprocessed, old enough, with attempts and no live claim.
Owed(e) == /\ row[e].present /\ ~row[e].processed
           /\ row[e].age = MinAge /\ row[e].attempts < MaxAttempts /\ Unclaimed(e)

SweepStarts(s) ==
  /\ run[s].step = "idle"
  /\ \E e \in Event : Owed(e)
  /\ run' = [run EXCEPT ![s] = [SweepIdle EXCEPT
               !.todo = {<< e, row[e].attempts >> : e \in {x \in Event : Owed(x)}},
               !.step = "claim"]]
  /\ UNCHANGED << row, req, budget, provider, ghost >>

\* Trusts the query: a row stamped meanwhile is claimed all the same.
Variant_Claimable_trusting(e, attempts) ==
  row[e].present /\ row[e].attempts = attempts /\ Unclaimed(e)

\* The condition of the claiming UPDATE: attempts is the token.
Claimable(e, attempts) ==
  row[e].present /\ row[e].attempts = attempts /\ ~row[e].processed /\ Unclaimed(e)

\* Takes the lease and leaves the count to the handler's failure.
Variant_Claimed_uncounted(e) == [row EXCEPT ![e].claimAge = 0]

Claimed(e) == [row EXCEPT ![e].attempts = @ + 1, ![e].claimAge = 0]

\* The next row, if any is left.
NextRow(s, todo) == [SweepIdle EXCEPT !.todo = todo, !.step = IF todo = {} THEN "idle" ELSE "claim"]

Claim(s, item) ==
  LET e == item[1] IN
  /\ run[s].step = "claim" /\ item \in run[s].todo
  /\ Claimable(e, item[2])
  /\ row' = Claimed(e)
  /\ run' = [run EXCEPT ![s] = [todo |-> @.todo \ {item}, event |-> e,
                                step |-> "handle", spent |-> 0]]
  /\ ghost' = [ghost EXCEPT !.claims[e] = @ + 1]
  /\ UNCHANGED << req, budget, provider >>

\* Another run owns the row, or it was stamped meanwhile.
ClaimLost(s, item) ==
  /\ run[s].step = "claim" /\ item \in run[s].todo
  /\ ~Claimable(item[1], item[2])
  /\ run' = [run EXCEPT ![s] = NextRow(s, @.todo \ {item})]
  /\ UNCHANGED << row, req, budget, provider, ghost >>

\* The claim's answer is an error, whether or not the database made it: the run
\* skips the row.
ClaimErrs(s, item) ==
  /\ run[s].step = "claim" /\ item \in run[s].todo /\ Fault
  /\ \/ row' = row
     \/ Claimable(item[1], item[2]) /\ row' = Claimed(item[1])
  /\ run' = [run EXCEPT ![s] = NextRow(s, @.todo \ {item})]
  /\ UNCHANGED << req, provider, ghost >>

SweepDone(s) ==
  /\ run[s].step = "handle"
  /\ run' = [run EXCEPT ![s].step = "stamp"]
  /\ ghost' = Handled(run[s].event)
  /\ UNCHANGED << row, req, budget, provider >>

\* The handler throws, or the stamp fails: the claim already counted the
\* attempt.
SweepFails(s) ==
  /\ \/ run[s].step = "handle" /\ UNCHANGED budget
     \/ run[s].step = "stamp" /\ Fault
  /\ run' = [run EXCEPT ![s] = NextRow(s, @.todo)]
  /\ UNCHANGED << row, req, provider, ghost >>

SweepStamps(s) ==
  /\ run[s].step = "stamp"
  /\ row' = Stamped(run[s].event)
  /\ ghost' = [ghost EXCEPT !.stamped = @ \cup {run[s].event}]
  /\ run' = [run EXCEPT ![s] = NextRow(s, @.todo)]
  /\ UNCHANGED << req, budget, provider >>

SweepDies(s) ==
  /\ run[s].step # "idle" /\ Fault
  /\ run' = [run EXCEPT ![s] = SweepIdle]
  /\ UNCHANGED << row, req, provider, ghost >>

-------------------------------------------------------------------------------
(***************************************************************************)
(* Retention and time.                                                     *)
(***************************************************************************)

Busy(e) == \/ \E q \in Request : req[q].event = e
           \/ \E s \in Sweep : run[s].event = e \/ e \in {item[1] : item \in run[s].todo}

\* Old is enough.
Variant_Prune_unprocessed(e) ==
  /\ row[e].present /\ ~Busy(e)
  /\ row' = [row EXCEPT ![e] = NoRow]
  /\ provider' = [provider EXCEPT !.closed = @ \cup {e}]
  /\ UNCHANGED << req, run, budget, ghost >>

\* The retention job.  Its thirty days outlast the provider's deliveries and
\* every process that works on the row.
Prune(e) ==
  /\ row[e].present /\ row[e].processed /\ ~Busy(e)
  /\ row' = [row EXCEPT ![e] = NoRow]
  /\ provider' = [provider EXCEPT !.closed = @ \cup {e}]
  /\ UNCHANGED << req, run, budget, ghost >>

Saturated(age, bound) == IF age < bound THEN age + 1 ELSE bound

\* Time passes: no task outlives TaskLife, no handler HandlerLife.
Tick ==
  /\ \A q \in Request : req[q].step # "idle" => req[q].spent < TaskLife
  /\ \A s \in Sweep : run[s].event # NoEvent => run[s].spent < HandlerLife
  /\ row' = [e \in Event |-> IF row[e].present
                             THEN [row[e] EXCEPT !.age = Saturated(@, MinAge),
                                                 !.claimAge = Saturated(@, Lease)]
                             ELSE row[e]]
  /\ row' # row
  /\ req' = [q \in Request |-> IF req[q].step = "idle" THEN req[q]
                               ELSE [req[q] EXCEPT !.spent = @ + 1]]
  /\ run' = [s \in Sweep |-> IF run[s].event = NoEvent THEN run[s]
                             ELSE [run[s] EXCEPT !.spent = @ + 1]]
  /\ UNCHANGED << budget, provider, ghost >>

-------------------------------------------------------------------------------
RequestStep(q) == \/ Reread(q) \/ DispatchDone(q) \/ DispatchDeferred(q) \/ DispatchThrows(q)
                  \/ Stamp(q) \/ ReadAttempts(q) \/ BumpAttempts(q)

SweepStep(s) == \/ \E item \in run[s].todo : Claim(s, item) \/ ClaimLost(s, item)
                \/ SweepDone(s) \/ SweepFails(s) \/ SweepStamps(s)

Next ==
  \/ \E q \in Request : RequestStep(q) \/ RereadErrs(q) \/ StampFails(q) \/ RequestDies(q)
                        \/ \E e \in Event : Post(q, e)
  \/ \E s \in Sweep : SweepStep(s) \/ SweepStarts(s) \/ SweepDies(s)
                      \/ \E item \in run[s].todo : ClaimErrs(s, item)
  \/ \E e \in Event : Prune(e)
  \/ Tick

Spec == Init /\ [][Next]_vars

\* The platform runs what was started, the cron fires again and again, and time
\* passes.  Nobody owes a delivery, a failure or a crash.
LiveSpec ==
  /\ Spec
  /\ \A q \in Request : WF_vars(RequestStep(q))
  /\ \A s \in Sweep : WF_vars(SweepStep(s))
  /\ WF_vars(\E s \in Sweep : SweepStarts(s))
  /\ WF_vars(Tick)

-------------------------------------------------------------------------------
(***************************************************************************)
(* Properties.                                                             *)
(***************************************************************************)

\* Every row, process and history holds what its writer puts there; attempts
\* never pass the ceiling, though two kinds of process count them in two ways.
TypeOK ==
  /\ row \in [Event -> Row]
  /\ req \in [Request -> [event : Event \cup {NoEvent},
                          step : {"idle", "reread", "dispatch", "stamp", "read", "bump"},
                          read : 0 .. MaxAttempts, spent : 0 .. TaskLife]]
  /\ run \in [Sweep -> [todo : SUBSET (Event \X (0 .. MaxAttempts - 1)),
                        event : Event \cup {NoEvent},
                        step : {"idle", "claim", "handle", "stamp"},
                        spent : 0 .. HandlerLife]]
  /\ budget \in 0 .. MaxFaults
  /\ provider \in [posts : 0 .. MaxPosts, acked : SUBSET Event, closed : SUBSET Event]
  /\ ghost \in [handled : SUBSET Event, stamped : SUBSET Event, claims : [Event -> 0 .. MaxAttempts]]

\* Two overlapping runs of the sweeper never work on the same row (the claim and
\* its lease, crons.ts:103-129), whatever crashes and errors come between.
OneSweepPerRow ==
  \A s, t \in Sweep : s # t /\ run[s].event # NoEvent => run[s].event # run[t].event

\* What the provider was told we have is not lost: its handler returned, or its
\* row is still in the ledger and unprocessed.  (Deferred, failed and killed
\* dispatches, best-effort stamps and retention all come between.)
AckedIsOwedOrHandled ==
  \A e \in provider.acked : e \in ghost.handled \/ (row[e].present /\ ~row[e].processed)

\* The sweeper replays an event at most MaxAttempts times, although a background
\* task counts its failure by reading and writing back.
ReplaysBounded == \A e \in Event : row[e].present => ghost.claims[e] <= row[e].attempts

\* A request hands an event to its handler.
Dispatches(q, e) ==
  req[q].step # "dispatch" /\ req'[q].step = "dispatch" /\ req'[q].event = e

\* No handler starts on an event whose row has been stamped when its starter asks:
\* not the sweeper that listed the row before, not a late delivery, and not a
\* delivery after retention has removed the row.  The one exception is the code's:
\* a delivery whose own reading of the stamp fails goes on as if there were none
\* (telnyx.ts:116-125).
NoRerunOfStamped ==
  [][\A e \in Event :
       (\/ ghost'.claims[e] # ghost.claims[e]
        \/ \E q \in Request : Dispatches(q, e) /\ ~RereadErrs(q))
       => e \notin ghost.stamped]_vars

\* A row that was received is processed, or has had every attempt it is owed: a
\* claimer that dies gives the row back when its lease runs out.
EventuallySettled ==
  \A e \in Event :
    row[e].present ~> (row[e].processed \/ row[e].attempts = MaxAttempts)
================================================================================
