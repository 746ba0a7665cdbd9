-------------------------------- MODULE Messages --------------------------------
(***************************************************************************)
(* One outbound text, from the request or the schedule that creates it to  *)
(* its delivery report: the send route and its retry (routes/messages.ts), *)
(* the dispatch all paths share (messaging/send.ts), the scheduled-send    *)
(* job (messaging/scheduled-send.ts), the sweepers of interrupted sends    *)
(* (messaging/retry-interrupted.ts, crons.ts), the status webhooks         *)
(* (messaging/status.ts) and the SQL functions that arbitrate between them.*)
(* Nothing modelled here is shared by two texts, so one is enough.         *)
(*                                                                         *)
(* A worker is one invocation; every await that touches the database or    *)
(* the carrier is a step.  A tick is the safety window of an interrupted   *)
(* send (STUCK_SEND_SECONDS), which no invocation outlives; a minute is a  *)
(* run of the scheduled-send job, which may overlap the next one.          *)
(***************************************************************************)
EXTENDS Naturals

CONSTANTS
  Worker,          \* invocations that may overlap
  Origins,         \* where the text comes from: "route", "scheduled"
  AutoRetryLimit,  \* AUTO_RETRY_LIMIT
  MaxRetries,      \* bound: times a member presses Retry
  MaxReplays,      \* bound: status webhooks handled once more
  MaxMinutes,      \* bound: runs of the scheduled-send job between two ticks
  MaxFaults        \* bound: workers that die and database writes that fail

ASSUME MessagesAssumption ==
  /\ Worker # {} /\ Origins \subseteq {"route", "scheduled"}
  /\ AutoRetryLimit \in Nat /\ MaxRetries \in Nat /\ MaxReplays \in Nat /\ MaxFaults \in Nat
  /\ MaxMinutes \in Nat \ {0}

VARIABLES
  sched,    \* the scheduled_messages row
  row,      \* the messages row
  carrier,  \* Telnyx: idempotency keys it accepted, the text's fate, webhooks on their way
  usage,    \* usage_events rows of the text
  stopped,  \* the recipient's opt-out
  worker,   \* what each invocation is doing
  clock,    \* what the schedule's times have come to
  budget    \* what may still happen

vars == << sched, row, carrier, usage, stopped, worker, clock, budget >>

Open   == {"pending", "held"}
Closed == {"sent", "canceled", "expired", "failed"}

NoText == [status |-> "none", id |-> FALSE, stale |-> FALSE, tries |-> 0]
Queued == [NoText EXCEPT !.status = "queued"]
Idle   == [job |-> "none", step |-> "idle"]

Init ==
  /\ \E o \in Origins : sched = [status |-> IF o = "route" THEN "none" ELSE "pending",
                                 leased |-> FALSE, replied |-> FALSE]
  /\ row = NoText
  /\ carrier = [keys |-> {}, fate |-> "none", hooks |-> {}]
  /\ usage = 0
  /\ stopped = FALSE
  /\ worker = [w \in Worker |-> Idle]
  /\ clock = [due |-> FALSE, past |-> FALSE, ran |-> FALSE, minutes |-> 0]
  /\ budget = [retry |-> MaxRetries, replay |-> MaxReplays, fault |-> MaxFaults]

Spend(kind) == budget[kind] > 0 /\ budget' = [budget EXCEPT ![kind] = @ - 1]

At(w, step)   == worker[w].step = step
Begin(w, job, step) == At(w, "idle") /\ worker' = [worker EXCEPT ![w] = [Idle EXCEPT !.job = job, !.step = step]]
Go(w, step)   == worker' = [worker EXCEPT ![w].step = step]
Ends(w)       == worker' = [worker EXCEPT ![w] = Idle]

\* Every UPDATE of the row refreshes updated_at (the moddatetime trigger).
Touched(r)  == [r EXCEPT !.stale = FALSE]
Failed(r)   == Touched([r EXCEPT !.status = "failed"])
WriteRow(r) == row' = IF row.status = "none" THEN row ELSE r

-------------------------------------------------------------------------------
(***************************************************************************)
(* The send and the dispatch.                                              *)
(***************************************************************************)

\* gate_outbound_send: one transaction that finds the Idempotency-Key's row,
\* refuses, or inserts the queued row.
SendGate(w) ==
  /\ sched.status = "none" /\ row.status = "none" /\ ~stopped
  /\ Begin(w, "send", "media")
  /\ row' = Queued
  /\ UNCHANGED << sched, carrier, usage, stopped, clock, budget >>

MediaStored(w) ==
  /\ At(w, "media") /\ Go(w, "dispatch")
  /\ UNCHANGED << sched, row, carrier, usage, stopped, clock, budget >>

\* A photo that cannot be stored, or anything a caller of the dispatch catches.
MediaFails(w) ==
  /\ At(w, "media") /\ Go(w, "interrupt")
  /\ UNCHANGED << sched, row, carrier, usage, stopped, clock, budget >>

\* persistSendInterruption: by id alone, best effort.
Interrupt(w) ==
  /\ At(w, "interrupt") /\ Ends(w)
  /\ WriteRow(Failed(row))
  /\ UNCHANGED << sched, carrier, usage, stopped, clock, budget >>

\* The rate limiter denies: the row fails, and the caller hears of it.
DispatchDenied(w) ==
  /\ At(w, "dispatch")
  /\ WriteRow(Failed(row))
  /\ IF worker[w].job = "auto" THEN Go(w, "interrupt") ELSE Ends(w)
  /\ UNCHANGED << sched, carrier, usage, stopped, clock, budget >>

\* One row is one text to the carrier, whoever sends it and how often.
sendIdempotencyKey == "message"

\* POST /v2/messages.  The carrier takes a text once per key; the answer may be
\* lost on the way back, and so may the request on the way there.
Accepts ==
  LET fresh == sendIdempotencyKey \notin carrier.keys IN
  \E fate \in {"delivered", "failed", "sent"} :
    carrier' = IF ~fresh THEN carrier
               ELSE [keys |-> carrier.keys \cup {sendIdempotencyKey}, fate |-> fate,
                     hooks |-> carrier.hooks \cup {"sent", "final"}]

Post(w) ==
  /\ At(w, "dispatch")
  /\ \/ Accepts /\ (Go(w, "accepted") \/ Go(w, "refused")) /\ stopped' = stopped
     \/ Go(w, "refused") /\ carrier' = carrier /\ stopped' \in {stopped, TRUE}
  /\ UNCHANGED << sched, row, usage, clock, budget >>

\* The carrier's id, or the failure, is written down.
PersistId(w) ==
  /\ At(w, "accepted") /\ Ends(w)
  /\ WriteRow(Touched([row EXCEPT !.id = TRUE]))
  /\ UNCHANGED << sched, carrier, usage, stopped, clock, budget >>

PersistFailure(w) ==
  /\ At(w, "refused") /\ Ends(w)
  /\ WriteRow(Failed(row))
  /\ UNCHANGED << sched, carrier, usage, stopped, clock, budget >>

\* The write fails: only the automatic retry catches that.
PersistFails(w) ==
  /\ At(w, "accepted") \/ At(w, "refused")
  /\ Spend("fault")
  /\ IF worker[w].job = "auto" THEN Go(w, "interrupt") ELSE Ends(w)
  /\ UNCHANGED << sched, row, carrier, usage, stopped, clock >>

-------------------------------------------------------------------------------
(***************************************************************************)
(* Retries and the sweepers.                                               *)
(***************************************************************************)

Unsent == row.status = "queued" /\ ~row.id
Stuck  == Unsent /\ row.stale

\* Any queued row without an id, however young.
Variant_Retryable_young == row.status # "none" /\ ~row.id /\ row.status \in {"failed", "queued"}

Retryable == ~row.id /\ (row.status = "failed" \/ Stuck)

\* POST /messages/:id/retry: the pre-check, the gates, then the claim.
RetryStarts(w) ==
  /\ Retryable /\ ~stopped /\ Spend("retry")
  /\ Begin(w, "retry", "claim")
  /\ UNCHANGED << sched, row, carrier, usage, stopped, clock >>

\* claim_message_retry requeues the row under its lock.
ClaimTakes(w) ==
  /\ At(w, "claim") /\ Retryable /\ ~stopped
  /\ row' = Touched([row EXCEPT !.status = "queued"])
  /\ Go(w, "dispatch")
  /\ UNCHANGED << sched, carrier, usage, stopped, clock, budget >>

\* It refuses: a conflict or an opt-out leave the row alone, the spend check
\* comes after a stuck row was failed out.
ClaimRefuses(w) ==
  /\ At(w, "claim")
  /\ \/ (~Retryable \/ stopped) /\ row' = row
     \/ Retryable /\ ~stopped /\ row' = IF Stuck THEN Failed(row) ELSE row
  /\ IF worker[w].job = "auto" THEN Go(w, "interrupt") ELSE Ends(w)
  /\ UNCHANGED << sched, carrier, usage, stopped, clock, budget >>

\* Without the limit on the tries.
Variant_AutoClaim_unlimited(w) ==
  /\ Stuck
  /\ Begin(w, "auto", "gates")
  /\ row' = Touched([row EXCEPT !.tries = @ + 1])
  /\ UNCHANGED << sched, carrier, usage, stopped, clock, budget >>

\* claim_stuck_sends_for_retry: bumping the counter is the claim.
AutoClaim(w) ==
  /\ Stuck /\ row.tries < AutoRetryLimit
  /\ Begin(w, "auto", "gates")
  /\ row' = Touched([row EXCEPT !.tries = @ + 1])
  /\ UNCHANGED << sched, carrier, usage, stopped, clock, budget >>

\* retryOne: no number to send from, a gate that refuses, or on to the claim.
AutoGates(w) ==
  /\ At(w, "gates") /\ worker[w].job = "auto"
  /\ \/ Ends(w)
     \/ Go(w, "interrupt")
     \/ ~stopped /\ Go(w, "claim")
  /\ UNCHANGED << sched, row, carrier, usage, stopped, clock, budget >>

\* Leaves a row to the automatic retry that already had its turn.
Variant_FailStuck_untried ==
  /\ Stuck /\ row.tries = 0
  /\ row' = Failed(row)
  /\ UNCHANGED << sched, carrier, usage, stopped, worker, clock, budget >>

\* fail_stuck_outbound_sends.
FailStuck ==
  /\ Stuck
  /\ row' = Failed(row)
  /\ UNCHANGED << sched, carrier, usage, stopped, worker, clock, budget >>

-------------------------------------------------------------------------------
(***************************************************************************)
(* The scheduled text.                                                     *)
(***************************************************************************)

\* api_claim_due_scheduled_messages, in this minute's run.
ScheduleClaim(w) ==
  /\ sched.status \in Open /\ clock.due /\ ~sched.leased /\ ~clock.ran
  /\ Begin(w, "schedule", "look")
  /\ sched' = [sched EXCEPT !.leased = TRUE]
  /\ clock' = [clock EXCEPT !.ran = TRUE]
  /\ UNCHANGED << row, carrier, usage, stopped, budget >>

\* resolveDestination, customerReplied, jobStillBooked, the calendar: reads, any of
\* which may throw and leave the row to the next claim.
ScheduleLook(w) ==
  /\ At(w, "look")
  /\ \/ ~sched.replied /\ Go(w, "gates")
     \/ Go(w, "hold") \/ Go(w, "fail") \/ Ends(w)
  /\ UNCHANGED << sched, row, carrier, usage, stopped, clock, budget >>

ScheduleGates(w) ==
  /\ At(w, "gates") /\ worker[w].job = "schedule"
  /\ \/ ~stopped /\ Go(w, "fire")
     \/ Go(w, "hold") \/ Go(w, "fail")
  /\ UNCHANGED << sched, row, carrier, usage, stopped, clock, budget >>

\* The claim is believed to be enough.
Variant_Fires_claimed == sched.status # "none"

Fires == sched.status \in Open

\* The closing is left to the caller, after the dispatch.
Variant_ScheduleFire_insertOnly(w) ==
  /\ At(w, "fire") /\ Fires
  /\ row' = Queued
  /\ Go(w, "dispatch")
  /\ UNCHANGED << sched, carrier, usage, stopped, clock, budget >>

\* api_fire_scheduled_message: the queued row and the closing, in one statement;
\* a row that moved on meanwhile is gone.
ScheduleFire(w) ==
  /\ At(w, "fire")
  /\ IF Fires
     THEN /\ sched' = [sched EXCEPT !.status = "sent"]
          /\ row' = Queued
          /\ Go(w, "dispatch")
     ELSE Ends(w) /\ UNCHANGED << sched, row >>
  /\ UNCHANGED << carrier, usage, stopped, clock, budget >>

\* The same statement holds or fails a reminder whose job or calendar changed
\* while the gates ran.
ScheduleFireRefuses(w) ==
  /\ At(w, "fire") /\ Fires
  /\ \E status \in {"held", "failed"} : sched' = [sched EXCEPT !.status = status, !.leased = FALSE]
  /\ Ends(w)
  /\ UNCHANGED << row, carrier, usage, stopped, clock, budget >>

\* api_hold_, api_fail_scheduled_message, then the disclosure to the crew.
ScheduleStops(w, step, status) ==
  /\ At(w, step)
  /\ sched' = IF sched.status \in Open THEN [sched EXCEPT !.status = status, !.leased = FALSE] ELSE sched
  /\ Ends(w)
  /\ UNCHANGED << row, carrier, usage, stopped, clock, budget >>

ScheduleCancel ==
  /\ sched.status \in Open
  /\ sched' = [sched EXCEPT !.status = "canceled", !.leased = FALSE]
  /\ UNCHANGED << row, carrier, usage, stopped, worker, clock, budget >>

\* Looks at pending rows only, as if a hold stopped the clock.
Variant_Expirable_pending == sched.status = "pending"

Expirable == sched.status \in Open

\* api_expire_scheduled_messages, before the run's claim.
ScheduleExpire ==
  /\ Expirable /\ clock.past
  /\ sched' = [sched EXCEPT !.status = "expired", !.leased = FALSE]
  /\ UNCHANGED << row, carrier, usage, stopped, worker, clock, budget >>

-------------------------------------------------------------------------------
(***************************************************************************)
(* Status webhooks.  Each is handled once by the time its row is stamped,  *)
(* or once more when the stamp is lost.                                    *)
(***************************************************************************)

Consumed(hook) ==
  \/ carrier' = [carrier EXCEPT !.hooks = @ \ {hook}] /\ UNCHANGED budget
  \/ Spend("replay") /\ UNCHANGED carrier

\* Believes the webhooks arrive in the order of the events.
Variant_SentApplies_always == row.id

SentApplies == row.id /\ row.status = "queued"

markSent ==
  /\ "sent" \in carrier.hooks
  /\ row' = IF SentApplies THEN Touched([row EXCEPT !.status = "sent"]) ELSE row
  /\ Consumed("sent")
  /\ UNCHANGED << sched, usage, stopped, worker, clock >>

\* finalize: the lookup by the carrier's id; an unknown id is acknowledged.
FinalizeLookup(w) ==
  /\ "final" \in carrier.hooks
  /\ IF row.id THEN /\ Begin(w, "final", "update")
                    /\ UNCHANGED << carrier, budget >>
     ELSE Consumed("final") /\ UNCHANGED worker
  /\ UNCHANGED << sched, row, usage, stopped, clock >>

FinalizeUpdate(w) ==
  /\ At(w, "update") /\ Go(w, "meter")
  /\ row' = Touched([row EXCEPT !.status = carrier.fate])
  /\ UNCHANGED << sched, carrier, usage, stopped, clock, budget >>

\* usage_events_message_uq: the second insert conflicts and is dropped.
Metered == IF usage = 0 THEN 1 ELSE usage

FinalizeMeter(w) ==
  /\ At(w, "meter") /\ Ends(w)
  /\ usage' = Metered
  /\ Consumed("final")
  /\ UNCHANGED << sched, row, stopped, clock >>

-------------------------------------------------------------------------------
(***************************************************************************)
(* The recipient, failures and time.                                       *)
(***************************************************************************)

RecipientStops ==
  /\ ~stopped /\ stopped' = TRUE
  /\ UNCHANGED << sched, row, carrier, usage, worker, clock, budget >>

RecipientReplies ==
  /\ sched.status \in Open /\ ~sched.replied
  /\ sched' = [sched EXCEPT !.replied = TRUE]
  /\ UNCHANGED << row, carrier, usage, stopped, worker, clock, budget >>

Dies(w) ==
  /\ ~At(w, "idle") /\ Spend("fault") /\ Ends(w)
  /\ UNCHANGED << sched, row, carrier, usage, stopped, clock >>

\* The next run of the scheduled-send job.  A claim older than its lease lapses,
\* also while the run that made it is at work.
Minute ==
  /\ sched.status \in Open
  /\ clock.ran \/ ~clock.due \/ sched.leased
  /\ clock.minutes < MaxMinutes
  /\ clock' = [clock EXCEPT !.due = TRUE, !.ran = FALSE, !.minutes = @ + 1]
  /\ \E leased \in {sched.leased, FALSE} : sched' = [sched EXCEPT !.leased = leased]
  /\ UNCHANGED << row, carrier, usage, stopped, worker, budget >>

\* The safety window: no invocation outlives it.
Tick ==
  /\ \A w \in Worker : At(w, "idle")
  /\ row' = [row EXCEPT !.stale = row.status # "none"]
  /\ clock' = [clock EXCEPT !.past = clock.due, !.minutes = 0]
  /\ << row', clock' >> # << row, clock >>
  /\ UNCHANGED << sched, carrier, usage, stopped, worker, budget >>

-------------------------------------------------------------------------------
WorkerStep(w) ==
  \/ MediaStored(w) \/ MediaFails(w) \/ Interrupt(w)
  \/ DispatchDenied(w) \/ Post(w) \/ PersistId(w) \/ PersistFailure(w)
  \/ ClaimTakes(w) \/ ClaimRefuses(w) \/ AutoGates(w)
  \/ ScheduleLook(w) \/ ScheduleGates(w) \/ ScheduleFire(w) \/ ScheduleFireRefuses(w)
  \/ ScheduleStops(w, "hold", "held") \/ ScheduleStops(w, "fail", "failed")
  \/ FinalizeUpdate(w) \/ FinalizeMeter(w)

Webhooks == markSent \/ \E w \in Worker : FinalizeLookup(w)

Next ==
  \/ \E w \in Worker : \/ WorkerStep(w) \/ PersistFails(w) \/ Dies(w)
                       \/ SendGate(w) \/ RetryStarts(w) \/ AutoClaim(w) \/ ScheduleClaim(w)
  \/ Webhooks
  \/ FailStuck \/ ScheduleCancel \/ ScheduleExpire
  \/ RecipientStops \/ RecipientReplies
  \/ Minute \/ Tick

Spec == Init /\ [][Next]_vars

\* What is started runs to its end unless it dies, the ledger hands every webhook
\* to its handler, the crons fire and time passes.
LiveSpec ==
  /\ Spec
  /\ \A w \in Worker : WF_vars(WorkerStep(w))
  /\ WF_vars(Webhooks)
  /\ WF_vars(FailStuck) /\ WF_vars(ScheduleExpire)
  /\ WF_vars(Tick) /\ WF_vars(Minute)

-------------------------------------------------------------------------------
(***************************************************************************)
(* Properties.                                                             *)
(***************************************************************************)

Steps == {"idle", "media", "dispatch", "interrupt", "accepted", "refused", "claim", "gates",
          "look", "hold", "fail", "fire", "update", "meter"}

TypeOK ==
  /\ sched \in [status : {"none"} \cup Open \cup Closed, leased : BOOLEAN, replied : BOOLEAN]
  /\ row \in [status : {"none", "queued", "sent", "delivered", "failed"}, id : BOOLEAN,
              stale : BOOLEAN, tries : 0 .. AutoRetryLimit]
  /\ carrier \in [keys : SUBSET {sendIdempotencyKey}, hooks : SUBSET {"sent", "final"},
                  fate : {"none", "sent", "delivered", "failed"}]
  /\ usage \in {0, 1} /\ stopped \in BOOLEAN
  /\ worker \in [Worker -> [job : {"none", "send", "retry", "auto", "schedule", "final"},
                            step : Steps]]
  /\ clock \in [due : BOOLEAN, past : BOOLEAN, ran : BOOLEAN, minutes : 0 .. MaxMinutes]
  /\ budget \in [retry : Nat, replay : Nat, fault : Nat]

Dispatching(w) == worker[w].step \in {"media", "dispatch", "accepted", "refused"}

\* Of the send, a member's retry, the automatic retry and the schedule, one at a
\* time is on its way to the carrier (claim_message_retry: "one Telnyx call, ever").
OneDispatcher == \A v, w \in Worker : Dispatching(v) /\ Dispatching(w) => v = w

\* A scheduled text becomes a message exactly when its row closes as sent: a cancel,
\* an expiry or a hold that lands while the job is at work wins.
SentIffFired ==
  sched.status # "none" => (sched.status = "sent" <=> row.status # "none")

\* A row that says delivered keeps saying so, in whatever order webhooks, retries
\* and sweepers come.
DeliveredStays == [][row.status = "delivered" => row'.status = "delivered"]_vars

\* A scheduled text that was sent, canceled, expired or failed stays that.
ClosedStaysClosed == [][sched.status \in Closed => sched'.status = sched.status]_vars

\* A row whose send was cut short is resolved without anybody pressing Retry.
InterruptedIsResolved == Unsent ~> ~Unsent

\* A scheduled text comes to an end: at the latest, it expires.
ScheduleSettles == (sched.status \in Open) ~> (sched.status \in Closed)

\* "Re-dispatch every send that crashed before reaching the carrier"
\* (retry-interrupted.ts:155): what the automatic retry claimed, and nobody else
\* took since, its own next step may claim for dispatch.
AutoRetryDispatches ==
  \A w \in Worker :
    worker[w].job = "auto" /\ At(w, "claim") /\ Unsent /\ ~stopped => Retryable
================================================================================
