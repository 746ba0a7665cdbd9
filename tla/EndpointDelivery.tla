---------------------------- MODULE EndpointDelivery ----------------------------
(***************************************************************************)
(* Telling a workspace's own endpoint what happened: the rows that         *)
(* webhooks/outbound.ts writes, the sweeps of webhooks/outbound-deliver.ts *)
(* that POST them, and the owner's switch in routes/webhooks.ts.           *)
(*                                                                         *)
(* A sweep is one claimed batch; each of its awaits is a step.  It is over *)
(* before the claims it made fall due again: 50 POSTs are cut off after    *)
(* 10 s each, and the crash floor of api_claim_webhook_deliveries is       *)
(* 15 minutes.                                                             *)
(***************************************************************************)
EXTENDS Naturals

CONSTANTS
  Delivery,      \* delivery rows, one for each event
  Sweep,         \* sweeps that may overlap
  Ladder,        \* entries of WEBHOOK_RETRY_SCHEDULE_SECONDS
  DisableAfter,  \* WEBHOOK_AUTO_DISABLE_AFTER_CONSECUTIVE_FAILURES
  MaxSwitches,   \* bound: times the owner pauses, resumes or deletes the endpoint
  MaxFaults      \* bound: sweeps that die, reads and writes that fail

ASSUME EndpointAssumption ==
  /\ Delivery # {} /\ Delivery \cap {"idle", "read", "next"} = {}
  /\ Sweep # {} /\ Ladder \in Nat /\ DisableAfter \in Nat \ {0}
  /\ MaxSwitches \in Nat /\ MaxFaults \in Nat

VARIABLES
  endpoint,  \* the webhook_endpoints row
  row,       \* the webhook_deliveries rows
  sweep,     \* what each sweep is doing
  got,       \* the receiver: times each event came
  budget     \* what may still happen

vars == << endpoint, row, sweep, got, budget >>

NoRow == [status |-> "none", attempts |-> 0, due |-> FALSE]
Asleep == [step |-> "idle", batch |-> {}, known |-> FALSE, active |-> FALSE, streak |-> 0,
           answer |-> "none", successes |-> 0, failures |-> 0]

Init ==
  /\ endpoint = [exists |-> TRUE, active |-> TRUE, streak |-> 0]
  /\ row = [d \in Delivery |-> NoRow]
  /\ sweep = [s \in Sweep |-> Asleep]
  /\ got = [d \in Delivery |-> 0]
  /\ budget = [switch |-> MaxSwitches, fault |-> MaxFaults]

Spend(kind) == budget[kind] > 0 /\ budget' = [budget EXCEPT ![kind] = @ - 1]

At(s, step) == sweep[s].step = step
Queued(d)   == row[d].status \in {"pending", "delivering"}
Settled(d)  == row[d].status \in {"succeeded", "failed", "gone"}
InHand(d)   == { s \in Sweep : d \in sweep[s].batch }

\* An UPDATE by id finds nothing when the row is gone.
Write(d, r) == row' = IF row[d].status = "gone" THEN row ELSE [row EXCEPT ![d] = r]

-------------------------------------------------------------------------------
\* enqueue: the endpoints first, then the rows.  An insert for an endpoint that was
\* deleted meanwhile fails, and the event is lost by design.
EmitReads(d) ==
  /\ row[d].status = "none" /\ endpoint.exists /\ endpoint.active
  /\ row' = [row EXCEPT ![d].status = "emitting"]
  /\ UNCHANGED << endpoint, sweep, got, budget >>

EmitInserts(d) ==
  /\ row[d].status = "emitting"
  /\ row' = [row EXCEPT ![d] = IF endpoint.exists
                                 THEN [NoRow EXCEPT !.status = "pending", !.due = TRUE]
                                 ELSE [NoRow EXCEPT !.status = "gone"]]
  /\ UNCHANGED << endpoint, sweep, got, budget >>

-------------------------------------------------------------------------------
\* What is being delivered is taken again, as if its claim had no floor.
Variant_Due_delivering(d) == row[d].status = "delivering" \/ (row[d].status = "pending" /\ row[d].due)

Due(d) == Queued(d) /\ row[d].due

\* api_claim_webhook_deliveries; the rows are fewer than its limit of 50.
Claim(s) ==
  LET batch == { d \in Delivery : Due(d) } IN
  /\ At(s, "idle") /\ batch # {}
  /\ row' = [d \in Delivery |-> IF d \in batch
                                  THEN [status |-> "delivering", attempts |-> row[d].attempts + 1,
                                        due |-> FALSE]
                                  ELSE row[d]]
  /\ sweep' = [sweep EXCEPT ![s] = [Asleep EXCEPT !.step = "read", !.batch = batch]]
  /\ UNCHANGED << endpoint, got, budget >>

\* The endpoint once for the batch.
ReadEndpoint(s) ==
  /\ At(s, "read")
  /\ sweep' = [sweep EXCEPT ![s] = [@ EXCEPT !.step = "next", !.known = endpoint.exists,
                                             !.active = endpoint.active, !.streak = endpoint.streak]]
  /\ UNCHANGED << endpoint, row, got, budget >>

\* Its error is not looked at: no rows came back.
ReadFails(s) ==
  /\ At(s, "read") /\ Spend("fault")
  /\ sweep' = [sweep EXCEPT ![s].step = "next"]
  /\ UNCHANGED << endpoint, row, got >>

Refused(s) == ~sweep[s].known \/ ~sweep[s].active

\* A paused endpoint's row is put back.
Variant_WriteOff_defers(s, d) ==
  /\ At(s, "next") /\ d \in sweep[s].batch /\ Refused(s)
  /\ Write(d, [row[d] EXCEPT !.status = IF sweep[s].known THEN "pending" ELSE "failed",
                             !.attempts = IF sweep[s].known THEN 0 ELSE @])
  /\ sweep' = [sweep EXCEPT ![s].batch = @ \ {d}]
  /\ UNCHANGED << endpoint, got, budget >>

\* "endpoint removed", "endpoint paused": for good.
WriteOff(s, d) ==
  /\ At(s, "next") /\ d \in sweep[s].batch /\ Refused(s)
  /\ Write(d, [row[d] EXCEPT !.status = "failed"])
  /\ sweep' = [sweep EXCEPT ![s].batch = @ \ {d}]
  /\ UNCHANGED << endpoint, got, budget >>

\* postOnce: a 2xx, a refusal, or a receiver that took it and was not heard.
Post(s, d) ==
  /\ At(s, "next") /\ d \in sweep[s].batch /\ ~Refused(s)
  /\ \E answer \in {"ok", "bad"}, taken \in BOOLEAN :
       /\ answer = "ok" => taken
       /\ got' = IF taken THEN [got EXCEPT ![d] = @ + 1] ELSE got
       /\ sweep' = [sweep EXCEPT ![s].step = d, ![s].answer = answer]
  /\ UNCHANGED << endpoint, row, budget >>

\* A ladder that starts over.
Variant_LastAttempt_never(d) == FALSE

LastAttempt(d) == row[d].attempts > Ladder

Tallied(s, d) ==
  LET b  == sweep[s]
      ok == b.answer = "ok"
  IN sweep' = [sweep EXCEPT ![s] =
       [b EXCEPT !.step = "next", !.batch = b.batch \ {d}, !.answer = "none",
                 !.successes = IF ok THEN b.successes + 1 ELSE b.successes,
                 !.failures  = IF ok THEN b.failures ELSE b.failures + 1]]

\* The outcome, by the attempts that the claim counted.
WriteOutcome(s, d) ==
  /\ At(s, d) /\ Tallied(s, d)
  /\ Write(d, [row[d] EXCEPT !.status = IF sweep[s].answer = "ok" THEN "succeeded"
                                        ELSE IF LastAttempt(d) THEN "failed" ELSE "pending"])
  /\ UNCHANGED << endpoint, got, budget >>

\* Nobody looks whether a write succeeded.
OutcomeLost(s, d) ==
  /\ At(s, d) /\ Tallied(s, d) /\ Spend("fault")
  /\ UNCHANGED << endpoint, row, got >>

WriteOffLost(s, d) ==
  /\ At(s, "next") /\ d \in sweep[s].batch /\ Refused(s) /\ Spend("fault")
  /\ sweep' = [sweep EXCEPT ![s].batch = @ \ {d}]
  /\ UNCHANGED << endpoint, row, got >>

\* Any success of the batch clears the streak as it was read.
NextStreak(s) == IF sweep[s].successes > 0 THEN 0 ELSE sweep[s].streak + sweep[s].failures

Count(s) ==
  /\ At(s, "next") /\ sweep[s].batch = {}
  /\ sweep' = [sweep EXCEPT ![s] = Asleep]
  /\ IF sweep[s].successes + sweep[s].failures = 0 \/ ~endpoint.exists
     THEN UNCHANGED endpoint
     ELSE endpoint' = [endpoint EXCEPT !.streak = NextStreak(s),
                                       !.active = @ /\ NextStreak(s) < DisableAfter]
  /\ UNCHANGED << row, got, budget >>

Dies(s) ==
  /\ ~At(s, "idle") /\ Spend("fault")
  /\ sweep' = [sweep EXCEPT ![s] = Asleep]
  /\ UNCHANGED << endpoint, row, got >>

-------------------------------------------------------------------------------
Pause ==
  /\ endpoint.exists /\ endpoint.active /\ Spend("switch")
  /\ endpoint' = [endpoint EXCEPT !.active = FALSE]
  /\ UNCHANGED << row, sweep, got >>

Resume ==
  /\ endpoint.exists /\ ~endpoint.active /\ Spend("switch")
  /\ endpoint' = [endpoint EXCEPT !.active = TRUE, !.streak = 0]
  /\ UNCHANGED << row, sweep, got >>

\* The rows go with it (on delete cascade).
Remove ==
  /\ endpoint.exists /\ Spend("switch")
  /\ endpoint' = [exists |-> FALSE, active |-> FALSE, streak |-> 0]
  /\ row' = [d \in Delivery |-> IF row[d].status \in {"none", "emitting"} THEN row[d]
                                ELSE [NoRow EXCEPT !.status = "gone"]]
  /\ UNCHANGED << sweep, got >>

\* next_attempt_at passes: of a retry on the ladder, of a claim whose sweep is dead, and
\* of a row that is settled, where it means nothing.
ComesDue(d) ==
  /\ row[d].status \notin {"none", "emitting", "gone"} /\ ~row[d].due /\ InHand(d) = {}
  /\ row' = [row EXCEPT ![d].due = TRUE]
  /\ UNCHANGED << endpoint, sweep, got, budget >>

\* api_prune_webhook_deliveries after thirty days, whatever the status.
Prune(d) ==
  /\ row[d].status \notin {"none", "emitting", "gone"} /\ InHand(d) = {}
  /\ row' = [row EXCEPT ![d] = [NoRow EXCEPT !.status = "gone"]]
  /\ UNCHANGED << endpoint, sweep, got, budget >>

-------------------------------------------------------------------------------
SweepStep(s) ==
  \/ ReadEndpoint(s) \/ Count(s)
  \/ \E d \in Delivery : WriteOff(s, d) \/ Post(s, d) \/ WriteOutcome(s, d)

Next ==
  \/ \E d \in Delivery : EmitReads(d) \/ EmitInserts(d) \/ ComesDue(d) \/ Prune(d)
  \/ \E s \in Sweep : Claim(s) \/ SweepStep(s) \/ ReadFails(s) \/ Dies(s)
                      \/ \E d \in Delivery : OutcomeLost(s, d) \/ WriteOffLost(s, d)
  \/ Pause \/ Resume \/ Remove

Spec == Init /\ [][Next]_vars

\* A sweep goes on unless it dies, the cron starts new ones, time passes.
LiveSpec ==
  /\ Spec
  /\ \A s \in Sweep : WF_vars(SweepStep(s))
  /\ WF_vars(\E s \in Sweep : Claim(s))
  /\ \A d \in Delivery : WF_vars(ComesDue(d))

-------------------------------------------------------------------------------
(***************************************************************************)
(* Properties.                                                             *)
(***************************************************************************)

TypeOK ==
  /\ endpoint \in [exists : BOOLEAN, active : BOOLEAN, streak : Nat]
  /\ row \in [Delivery ->
       [status : {"none", "emitting", "pending", "delivering", "succeeded", "failed", "gone"},
        attempts : 0 .. Ladder + 1 + MaxFaults, due : BOOLEAN]]
  /\ sweep \in [Sweep ->
       [step : Delivery \cup {"idle", "read", "next"}, batch : SUBSET Delivery, known : BOOLEAN,
        active : BOOLEAN, streak : Nat, answer : {"none", "ok", "bad"}, successes : Nat, failures : Nat]]
  /\ got \in [Delivery -> Nat]
  /\ budget \in [switch : Nat, fault : 0 .. MaxFaults]

\* No two overlapping sweeps have one event in hand ("an overlapping tick cannot send
\* the same event twice").
OneSweepPerDelivery == \A d \in Delivery : \A s, t \in InHand(d) : s = t

\* The receiver gets an event at most once for each step of the ladder, and once more
\* for each outcome or sweep that was lost.
PostsBounded == \A d \in Delivery : got[d] <= Ladder + 1 + MaxFaults

\* Every queued event is settled: delivered, written off, or gone with its endpoint,
\* also when the endpoint is paused meanwhile.
EventuallySettled == \A d \in Delivery : Queued(d) ~> Settled(d)
================================================================================
