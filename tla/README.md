# Texturion: TLA+ models, checks and proofs

The repository (`src/`) is a shared phone and text inbox for small businesses: a
Cloudflare Worker (`apps/api`), clients for web, Android and iOS, and a Postgres
database whose RPCs carry the transactional parts (`supabase/migrations`). The
provider (Telnyx) places and carries calls and messages and reports on them by
webhooks; Stripe does so for money.

This directory verifies the five places in which concurrency, failure and time meet:

* **the call session**, the durable object that takes one phone call from its first
  webhook to its last;
* **the webhook ledger**, through which every event of a provider reaches its handler;
* **an outbound text**, with its retries, its schedule and its delivery reports;
* **the provisioning saga**, which buys the numbers a company pays for;
* **customer webhooks**, the deliveries to a workspace's own endpoint.

The rest of the system is inventoried below.

Paths without a prefix are under `src/apps/api/src/`. Rules named T1..T17 and §n are
those of `src/docs/CALLS-V3.md`.

## 1. Inventory

| Component | State it keeps | Operations | Interacts with | What is hard | What makes it correct |
|---|---|---|---|---|---|
| **Call reducer** `calls/transitions.ts` | none: a pure function of the session's record (state, legs, owner, intents, queue, declined members) | `reduce(machine, event)` for 27 kinds of event | called by the session object | every order of answers, hangups, alarms, media events and outcomes | first answer wins; hangup always ends; no phone left ringing; no caller left with nobody to ring |
| **Call session object** `calls/session-do.ts`, `calls/runtime.ts` | machine, journal, seen set, eight alarm slots, write owed to the row (durable storage) | admit webhooks and RPCs, drain the journal, run effects, fire alarms, retry the mirror, adopt a row, purge | provider commands, `calls` row, push, routes | crash between effect and journal, commands with unknown outcome, stale retries, eviction, redelivery | the row converges; every minted call ends; over stays over |
| **Call rows and line claim** (SQL: `api_upsert_call`, `api_claim_inbound_line`, `api_authorize_outbound_call`) | `calls`, nonces of placed calls | merge an outcome, claim a line, consume a nonce | written by the session and the routes | two writers, merge precedence, consumed-but-unused nonce | over implies an outcome; a line is busy only for a live call |
| **Call routes** `routes/live-calls.ts` | consult legs | ring-me, decline, announce transfer, cancel | session RPCs, provider | several awaits per request, each may be the last | the customer is never parked |
| **Call-event router** `calls/webhook-router.ts` | none | route and stamp | ledger, session object | stamp only what was admitted | nothing is acknowledged that was not journaled |
| **Webhook ledger and sweeper** `webhooks/telnyx.ts`, `messaging/crons.ts` | `webhook_events` (processed, attempts, lease) | insert, dispatch, stamp, sweep | every handler | duplicates, crash between dispatch and stamp, lease running out under a live handler | every event is processed or reported; no two sweeps own one event |
| **Outbound messages** `messaging/{send,status,retry-interrupted}.ts` | `messages` | gate, dispatch, status, human and automatic retry, fail out | provider, opt-outs, cap | status events out of order, retry of a send that did go out | a text goes out at most once per intent; a status never regresses; STOP is obeyed |
| **Scheduled messages** `messaging/scheduled-send.ts` | `scheduled_messages` | claim with lease, hold, fail, fire, expire, cancel | gates, tasks, calendar | cancel while the gates run, lease expiry | a canceled or expired message never fires; fires once |
| **Inbound messages, opt-out, replies** `messaging/{inbound,opt-out-reconcile,missed-call,away-reply}.ts` | conversations, `opt_outs`, claims | ingest, record STOP/START, reply once | ledger, send | replayed and reordered texts | one thread; one reply |
| **Provisioning** `telnyx/provisioning.ts` | `phone_numbers` (status, order id, idempotency key, lease) | lease, search, order, recover, adopt, release | provider, Stripe | crash after purchase, two runs, an order that completes late | at most one number is bought and kept per row |
| **Registration, porting, text enablement** `telnyx/{registration,porting,portout,text-enablement}.ts` | `messaging_registrations`, port orders | submit, poll, webhook, assign | provider | webhook and poll race, resubmission | status moves along the documented graph |
| **Billing** `webhooks/stripe.ts`, `billing/*` | subscriptions, `grace_notices`, prepaid years | webhook, grace and release job, prepaid grant, conversion | Stripe, provisioning | payment returns while numbers are being released; partial conversions | no number of a paying company is released; each notice once; each credit once |
| **Customer webhooks** `webhooks/{outbound,outbound-deliver}.ts` | endpoints, deliveries | enqueue, claim, post, retry, disable | receivers | streak read early and written late | a paused endpoint receives nothing; retries are bounded |
| **Calendar** `calendar/{worker,sync}.ts` | links, outbox | pull, push, unlink, scrub | providers | ambiguous creates, version conflicts | one event per task; no lost edit |
| Notifications, greetings and voicemail intake, workspace purge/retention/export, record routes, clients, shared package | see `PROJECT.json` | | | pure I/O, single-row handlers or batch jobs selected by state | not modelled; reasons in `PROJECT.json` |

`PROJECT.json` lists each part with its status, and under `hazards` what in it is hard
to test, at its line, with the property that would catch it.

### How the parts meet

A provider's webhook is inserted into the ledger, acknowledged, and handed to a handler:
a call event to the call's session object, a message status to the text's row, an order's
completion to the saga. What a handler loses, the sweeper hands over again. In the models
the parts meet at their interfaces:

* `WebhookLedger` models handlers only by how they end (done, failed, deferred), and shows
  that each event reaches one at least once. The other modules assume no more of their
  webhooks than that: `CallSession` lets them come in any order, twice or not at all,
  `Messages` in any order and more than once.
* A cancellation of the subscription is a step of `Provisioning` (`Cancel`), a STOP and a
  reply of the recipient are steps of `Messages`.
* A text, a call and a number share no row, and two texts or two calls only the line
  claim and the thread they show in, which is why one of each is modelled; two numbers of
  one company do share the orphan search, which is why `Provisioning` has slots.

## 2. Plan

Done, in this order: the call (`CallTransitions`, `CallSession`, `CallLifecycle`,
`CallProperties`), the ledger, the text with its schedule, the saga, customer webhooks,
and the proofs of section 5. Left:

1. `LineClaim`: two sessions and one line, composing the row of `CallSession` with
   `api_claim_inbound_line` and the stale-call sweeper. Blind transfer legs.
2. The release after a grace period, the prepaid year, the calendar outbox; then
   registration and porting.
3. The last property of calls that is only checked, `NoParkedCustomer`, for calls whose webhooks
   all arrive (section 5 says where it holds and where it does not).

## 3. Modules

| Module | Models | How it corresponds |
|---|---|---|
| `CallTransitions` | `calls/transitions.ts` | `reduce(m, ev)` returns `[m, fx]`: the next machine and the sequence of effects, as the code's `{machine, effects}`. One operator per event or handler, with the source's name (`reduceMemberAnswered`, `reduceInboundHangup`, ...; the inline `case` arms are `reduceDialOutcome`, `reduceAlarmJanitor`, ...). Helpers (`terminalize`, `vmEntry`, `runAvenueLadder`, `cancelAllLiveLegs`) keep their names. No state, so it can be proved about on its own. |
| `CallSession` | `calls/session-do.ts`, `calls/runtime.ts`, `routes/live-calls.ts`, three SQL functions, the provider | The variables are what is durable: `machine`, `journal`, `seen`, `alarms`, `pending`; the database `row`; the provider's `customer` leg, members' `wlegs` and undelivered webhooks `net`; the `consult` route. `hist` is read by properties only: the session ended once; the object holds the session it minted; nothing of a recording could be kept; the object was purged before the row said how the call ended. |
| `CallLifecycle` | the promise of a call to everyone else | Seven actions over a phase, "has ended", and the outcome in the row. `CallProperties` instantiates it with the machine's state and the row. |
| `CallProperties` | | The properties of calls, with the behaviour each is about. |
| `WebhookLedger` | `webhooks/{telnyx,stripe,resend}.ts`, `messaging/crons.ts` (sweeper), the retention job (SQL) | `row` is `webhook_events`; `req` the requests with their background tasks, `run` the runs of the sweeper, each a program counter with what it has read; `provider` what the sender knows. |
| `Messages` | `routes/messages.ts`, `messaging/{send,scheduled-send,retry-interrupted,status,crons}.ts`, the SQL functions that arbitrate | `row` is the text's row, `sched` its `scheduled_messages` row, `carrier` Telnyx's idempotency keys and webhooks on their way, `worker` the invocations. |
| `Provisioning` | `telnyx/provisioning.ts`, `routes/numbers.ts`, the close-out, the orphan scan | `row` is `phone_numbers`, `orders` and `owned` are Telnyx, `run` the invocations with what they read of the row, `scan` the orphan scan with its list of known numbers. |
| `EndpointDelivery` | `webhooks/{outbound,outbound-deliver}.ts`, `routes/webhooks.ts`, the claim and prune functions (SQL) | `endpoint` and `row` are the two tables, `sweep` each sweep with its batch and the streak it read, `got` what the receiver saw. |
| `MC...` | | The instances of each: members, events, kinds, budgets. |
| `CallTransitions_proofs`, `CallSteps_proofs`, `CallSession_proofs`, `CallOutcome_proofs`, `WebhookLedger_proofs`, `Messages_proofs`, `Provisioning_proofs`, `EndpointDelivery_proofs` | | Theorems and lemmas. |

In the four modules beside the call's, **every await that touches the database, the
provider or another service is a step**, so that invocations interleave between any two of
them; what an invocation reads early and uses late is a field of its program counter. A SQL
function or a single conditional `UPDATE` is one step: Postgres runs it as one.
`Variant_...` operators are deliberately faulty forms of a definition; no behaviour uses
them, and `PROJECT.json` names, for each property, the one that breaks it.

### The session's steps

`enqueue` (session-do.ts:175) makes the object a FIFO: an event is admitted only when
the journal is empty, so **admission is atomic and the cascade is not**. `Deliver`,
`RingMe`, `Decline`, `Tell` and `FireAlarm` admit one event (journal and dedup mark in
one write); `Reduce` computes and saves the machine with the effect list; each
`Exec...` action runs the effect at the cursor, with the outcome the world gives it, and
its result joins the journal as a further event. Between any two of these steps the
provider, the parties and the consult route may move.

* **Crash and replay.** An effect that ran but whose cursor was not advanced runs again
  on resume. `Done` therefore either advances or, within the budget `replay`, leaves the
  journal where it was. The mirror catches its own failures and always advances.
* **Commands.** Answer, bridge and hangup commands are discriminated as in
  `commandWithDiscrimination`: a refusal of a leg that is alive is treated as an earlier
  success. A dial has four results: `ccid`, `known-dead`, `lost` (no leg, no reply) and
  `created` (a leg that rings, no reply). The last two reach the reducer as `ambiguous`.
* **The row.** `mirror` writes columns and, for a terminal state, fills in a missing
  outcome; `upsertOutcome` is the merge of `api_upsert_call`. A failed write is merged
  into `pending` and retried with the pinning of `retryPendingMirror`.
* **Adoption.** An object without a machine rebuilds one from the row
  (`reconstructMachine`): no legs, no alarms. **Purge** deletes storage; the machine may
  stay cached in memory, so `machine'` is either kept or gone.
* **Voicemail.** The pipeline hangs the line up and then either stores the recording, by a
  stamp of its path and after it the outcome (`VoicemailStored`), or keeps nothing of it, since
  it was too short, could not be fetched or met no row (`NothingKept`), or throws before the
  stamp or after it (`VoicemailThrows`) and runs again.
* **Consult.** The announce transfer is a program counter over its awaits
  (gated, dialing, consulting, stamped, owned, cleared, restored); it may stop after any
  of them, and the other party's webhooks interleave. The target's leg is `ConsultLeg`.
* **Webhooks** are a set, so they arrive in any order; `dup` delivers one again, `lose`
  drops one. A hangup carries the tag the customer's leg had when it ended.

### The ledger's steps

A request inserts the event or finds it there (`Post`), dispatches it, and stamps it. Of a
call event that was there it first reads the stamp, by a query of its own (`Reread`), whose
failure passes for "not stamped" (`RereadErrs`).
Calls are awaited and may be deferred to the sweeper; everything else is acknowledged
first and processed in the background, where a failure counts an attempt. A sweep reads the
rows that are old enough (`SweepStarts`), claims each by a compare-and-set on the attempts
it read and on the lease, runs the handler, and stamps the row or lets go of it. A process
may die at any step, and a write may fail, within `MaxFaults`. A late stamp of a background
task and a sweep's stamp are the same unconditional update, as in the code.

### A text's steps

A send takes the gates and inserts the row as queued in one transaction, uploads media, calls
the carrier and writes what came back: accepted, refused, or not known, in which case the row
stays queued for the sweepers. A retry, by hand or by the cron, claims the row first; the
automatic retry is refused by its own claim and never reaches the carrier. A scheduled text
is claimed with a lease, looked at again, gated, and then fired (the message row and the
closing of the schedule are one transaction) or held, failed, canceled, expired. Both
crons' filters (`stale`, `id`, `tries`) are read as the SQL writes them: every `UPDATE` of a
row refreshes `updated_at`, because a trigger does. The carrier accepts one
`Idempotency-Key` once, and the code uses the message's id for it. So a second acceptance
of one text cannot happen in the model, and no property says so; the same goes for a second
`usage_events` row, which a unique index refuses.

### The saga's steps

`Checkout`, `Cron` and the remediation start a run, which takes the row's lease by
compare-and-set, reads the row, looks for an order to recover, places one under its key,
waits, activates, or fails the row with one more attempt. The answer of any call to Telnyx may
be lost, that to an order after it was placed (`AnswerLost`, `Place`). Any 4xx that answers an
order for a chosen number counts as a refusal, also a 408 or 429 when Telnyx has the order:
the row gives up the pick and the key, and orders again (`DropPick`); `forgot` marks such an
order, and one flipped as stuck. An order settles when Telnyx says so, also long after the
saga gave up on it. The release by the owner reads, gives the number up and writes, and the
orphan scan reads the rows first and the provider afterwards, as the code does.

### A delivery's steps

Enqueueing reads the endpoints and then inserts. A sweep claims what is due, which makes each
row fall due again after a floor, reads the endpoint, posts, writes each outcome, and at the
end writes the streak it read at the start plus what it counted. The owner pauses,
resumes and deletes in between.

### What is abstracted

Time. In a call, a deadline is an armed slot that may fire at any moment (45 s ring, 40 s
intent, 4 h janitor, 15 min purge, 3 s mirror retry); a slot cannot be known to fire before
another except in the order one batch of `runAlarms` gives. Elsewhere a tick is the
distance that the code's own constants put between two things: the ledger's tick is such
that a task is over before its row may be swept and a handler before its lease runs out
(`TimingAssumption`); a tick of `Messages` is the safety window, which no invocation
outlives; a saga's run is over before its lease, since its calls are cut off after 20 s
each; a sweep is over before its rows fall due again, since 50 posts are cut off after 10 s
each and the floor is 15 minutes. Where the code's constants do not give such a distance,
nothing is assumed.

Names, numbers, texts, recordings, prices and payloads are left out. Leg identities are the
legs' numbers, in order of their creation; so are orders. One call session is modelled at
a time, with one webhook of each media kind; one text; one company; one endpoint.

## 4. Runs

Every fault and every request has its budget, zero unless the run is about it. Deadlock is
not checked: a call that was purged, a text that was delivered, a company whose
number is active have nothing left to do. The liveness properties state what deadlock
checking would be for.

| Run | Instance | Distinct states | Shows |
|---|---|---|---|
| `ring_all` | two members rung at once or one rung and both reachable by push; one ring-me, one decline, one effect run twice | 4.3 M | every race for one inbound call |
| `openings` | every opening of an inbound call and of a placed one, every result of a dial, one decline, one lost alarm, a row without a machine | 4.6 M | a ringing caller below the cap has an avenue; both orders of two answers connect the parties; no leg is left |
| `faults` | one inbound call with an announce transfer, two failed row writes, an effect run twice, a refused dial, a duplicate | 1.15 M | the row converges, says what was recorded, and its line is freed; owed writes keep their alarm; the customer is not parked |
| `closings` | all openings and placements, uncertain dials, one lost webhook, one duplicate, two failed row writes with the retry giving up | 1.00 M | every minted session ends; an ended call is never live again; the call implements `CallLifecycle` |
| `ledger` | an awaited and a background event, two requests, two sweeps, two attempts, one fault | 0.49 M | nothing acknowledged is lost, no row in two sweeps, nothing stamped runs again but where its stamp could not be read, every row settles |
| `messages` | two workers, a text sent by a member or its schedule, one retry by hand and one by the cron, one replayed webhook, one fault | 0.35 M | one dispatcher; a text is sent exactly when its schedule fired; interrupted sends and schedules are resolved |
| `provisioning` | two invocations on one paid number, two attempts, two orders, one remediation, one release, one fault | 0.82 M | one runner; one live order, and its row leads back to it, but for orders taken for stuck or refused; the row does not stay in provisioning |
| `delivery` | two events, two sweeps, two posts each, disabled after two failures, one switch by the owner, one fault | 0.92 M | no event in two hands; bounded posts; every event is settled |

Four further runs each refute one statement of the repository's own documents or
comments; `PROJECT.json` quotes them under `findings`:

| Run | Property refuted | In short |
|---|---|---|
| `stranded_member` | `AnsweredLegsAutoTear` | a hangup before the bridge leaves the member's leg up |
| `auto_retry` | `AutoRetryDispatches` | the automatic retry's own claim refreshes the column that its dispatch wants stale, so no interrupted send is ever sent again |
| `orders_again` | `NoDoubleBuy` | an order for a chosen number answered by a 408 or 429 is forgotten, and a second one is placed |
| `adopts_sibling` | `AdoptsOrphans` | a row adopts the number that its sibling has ordered and not yet activated |

### Why the bounds are enough

*Calls.* Two members suffice for every race the code distinguishes (answering member
and another; owner and decliner; sender and target). `MaxLegs` stands for
`MAX_LEGS_PER_SESSION`: two legs give a winner and a loser and reach the cap; one is
enough where the subject is crashes or the placed call. `MaxMirrorAttempts` is 1 in
`closings`, so that the retry of a row write gives up, and 3 in `faults`, where two failures
must not exhaust it.

*Ledger.* Rows are independent but for the processes that work on them: two events give a
sweep a row to go on to. Two attempts give a first, a last, and the refusal of a third. Three
deliveries give an original, a duplicate beside it and one after the stamp. Ages saturate, so
time is not bounded.

*Text.* Each kind of retry happens once; the property that would notice a second
concurrent dispatcher (`OneDispatcher`) was also run with two retries by hand. Two workers
are the send and whoever takes it for interrupted, or two runs of the schedule's job.

*Saga.* Two orders are what a wrong second purchase needs; two attempts reach the limit.
`Resolves` is checked for one fault: with two, a row that is back in provisioning when the company
cancels waits for the release after the grace period, for which no fairness is assumed. A
second slot is used only where slots interfere (`adopts_sibling`): two slots and two runners
with a fault each are beyond exhaustive search here.

*Deliveries.* A ladder of one gives a retry and the last attempt; two failures in a row
disable the endpoint; two overlapping sweeps are what the streak and the claim race over.

### Properties worth a note

* A session whose row never learned how the call ended (nothing was kept of a recording, and
  the terminal write failed until it was given up) is purged all the same, and a webhook delivered
  again may then mint or adopt the call as live: `hist.forgot`. The model does not tell the legs of
  the two sessions apart, so `NoGhostRing`, `NoLegOutlivesCall`, `RingingHasAvenue`,
  `FirstAnswerWins`, `VoicemailKept`, `BothAnsweredAreBridged` and `RowAgrees` speak of the first
  session of a call (`FirstSession`), and `ImplementsLifecycle` lets such a call live again.
* `VoicemailKept` speaks of the recording in storage, and of an admitted one unless `hist.unkept`:
  where nothing could be kept the pipeline leaves the outcome alone. `LineFreed` has the same
  exception while the terminal write is owed or after it was given up.
* `NoRerunOfStamped` exempts one start of a handler, that of `RereadErrs`: a delivery that could
  not read the stamp dispatches a stamped call event again. The session's own dedup makes that
  a no-op, unless its object was purged.
* `CallEndsWithCustomer` speaks of sessions whose janitor is still armed: the janitor closes
  the record without touching the customer's leg.
* `RingingHasAvenue` leaves out a session that has dialed the cap of legs: a ring step at the
  cap drops its member without asking the ladder, so such a session may ring for nobody until
  the deadline.
* `NoParkedCustomer` is checked where webhooks are not lost. With the budget `lose` it fails: a
  placed call whose dial to the placer came back ambiguous learns of the placer only by the
  webhook of his answer.
* `NoLegOutlivesCall` leaves the answered leg of an inbound call to `AnsweredLegsAutoTear`,
  the statement the code makes about it.
* `NoGhostRing`, `NoLegOutlivesCall` and `BothAnsweredAreBridged` speak of legs the
  machine knows. A leg created by a dial whose reply was lost is unknown until it answers.
* `RowAgrees` is about sessions that were minted here, at rest, with nothing owed and no
  consult under way (the consult writes the row ahead of the machine).
* `TerminalAbsorbs` lets the two documented upgrades of a missed call through, and the
  purge.
* `CallLifecycle` lets a call be rejected from the voicemail greeting as well as while
  ringing: a member's decline can send a capped caller to voicemail before the rejection
  is admitted.
* `ReplaysBounded` counts claims won by sweeps against attempts; a background task counts
  its failure into the same column, so the two together stay within the ceiling.
* `AckedIsOwedOrHandled` is the ledger's promise to a provider that will not send again: the
  row is there and open, or a handler has returned, or its attempts are spent.
* `OneLiveOrder` counts the orders that may still deliver a number to the slot (pending or
  filled, and not forgotten). An order that was flipped and completes late is flagged by the scan
  and is not counted; nor is one that was dropped on a 4xx to a chosen number. `OrderIsFound` leaves
  out the same two. `NoDoubleBuy` counts the dropped ones too, and `orders_again` refutes it.
* `PostsBounded` allows one post more than the ladder for each crash or lost write: an outcome
  that was not written is posted again. The receiver has the event's id to tell.

### What the models show and no run is spent on

*Calls.* An ambiguous dial sends the caller to voicemail although the phone may ring. The row
refuses the upgrade of a missed call to answered. A failed bridge-steal restores an owner
whose leg may be gone, which parks the customer. A slot is cleared before its event is
journaled, so a crash in between loses the alarm (`EventuallyOver` and `MirrorOwedIsArmed` are
checked and proved without such a loss; `openings` has one, for its safety properties). Where nothing
is kept of a recording the code's comment calls the call an honest miss (voice-webhook.ts:583),
but the terminal write of `ended_voicemail` that follows fills the missing outcome in as
"voicemail"; if that write fails too, the outcome is missing until the retry lands. A ring step at the cap of legs ends the queue
in silence. A crash after the authorization of a placed call consumes its nonce. Once a row
write fails, `notice_spoken` may stay as it was queued, since `retryPendingMirror` pins only
state, owner and answered_at. A session adopted from its row has no armed slot, so only a webhook
or the stale-call sweeper ends it (`EventuallyOver` is about sessions that were minted).

*Ledger.* A sweep that dies on a row's last attempt leaves it at the ceiling, where nobody
reports it; the retention job keeps it and says nothing.

*Texts.* "Provably never reached the carrier" is not so after a crash between the carrier's
acceptance and the write; the idempotency key is what keeps the text from going out twice. A
delivery report handled before the carrier's id is written is acknowledged and does nothing, as
status.ts:17 says, and the row stays queued with its id, which every sweeper skips. The
firing of a schedule does not look at the opt-out or a reply again after the gates. A
text whose answer was lost is failed although it may have been delivered, and says so. Holding
a text tells the crew even when the row was closed meanwhile.

*Saga.* The stuck row is flipped by the age of its creation, so a late or remediated order is
flipped before its ten minutes. A release that read the row before its activation marks it released
and gives no number up; a run under way can bring a released row back. A run that read a row
before it was activated can overwrite it. The orphan scan reads the rows before the
provider's list, so a number bought in between can look like an orphan.

*Deliveries.* An error of the endpoint's read is taken for a deleted endpoint and writes the
batch off. A sweep that overlaps a resumption writes back the streak it read and may disable the
endpoint again. A pause in the middle of a batch is not seen: the endpoint is read once for a batch,
and what was due goes out (no property says otherwise). A sweep that dies spends an attempt
of every row it claimed.

### Fairness

Each `LiveSpec` assumes what the platform promises and nothing of people, providers or
networks.

* **Call:** weak fairness of `Reduce \/ Execute` (an open journal has its journal-resume alarm
  and resumes), of each alarm slot, of a mirror retry that lands, and of the purge: an alarm
  that is set fires at least once and is retried. Nothing is assumed of the routes or the
  webhooks, so `EventuallyOver` rests on the ring alarm and the janitor alone.
* **Ledger:** an invocation that was started goes on unless it dies, the sweeper's cron fires
  again and again, time passes. `EventuallySettled` needs no further delivery.
* **Text:** the same, and each webhook on its way is handled at last, which is what the ledger
  gives (`AckedIsOwedOrHandled`, `EventuallySettled`).
* **Saga:** the same; strong fairness of the cron for each slot, since a lease that other runs
  take and leave enables and disables it, and the cron comes back for ever. That a company's
  order settles is *not* assumed: `Resolves` holds because the row is flipped.
* **Deliveries:** sweeps go on, the cron starts new ones, times come due. The receiver may fail
  for ever.

Weak fairness of a program counter's steps does not rule out death: `Dies` is always possible
within its budget and disables them.

## 5. Proofs

The theorems hold for every set of members, workers, invocations, slots, events and sweeps,
every limit and every budget, under the assumptions named in the modules (in the call:
`NoUser` is not a member, `MaxLegs` and `MaxMirrorAttempts` positive, contexts and
placements of their types; in the ledger `LedgerAssumption` and `TimingAssumption`; in the
saga `ProvisioningAssumption`; in deliveries `EndpointAssumption`), which TLC evaluates in
every run. Each module's `IInv` is its inductive invariant; `Start` and `Preserved` say so,
with one lemma per action.

* **`CallTransitions_proofs`**, about the reducer alone. `ReduceTyped`: a well-typed
  machine and event give a well-typed machine and well-typed effects, by one lemma per
  handler over lemmas for the helpers. `OverAbsorbs`: no event takes a machine out of the
  ended states, and only the two upgrades move it between them. `HangupEnds`: the hangup
  of the customer's leg ends any machine. `RingingIsQuiet`: no event leaves a ringing
  machine with a canceled leg.
* **`CallSession_proofs`**, about `Spec`.
  * `TypeCorrect` (`TypeOK`): one lemma per action; the reducer's part is `ReduceTyped`.
    `TypeOK` is inductive.
  * `TerminalAbsorption` (`TerminalAbsorbs`): an action property from `TypeOK`, by
    `OverAbsorbs` for `Reduce`, and by showing that adoption keeps a machine that exists
    and that every other action leaves the machine alone or purges it.
  * `HangupEndsSession` (`HangupAlwaysEnds`): the invariant speaks of drained sessions and
    is not inductive. `HangupInv` adds the time in between: once a hangup is in `seen`, the
    session holds a machine, and either it is over or the hangup is the event at the head
    of an open cascade, not yet reduced. `HangupEnds` turns the second into the first,
    `OverAbsorbs` keeps the first.
  * `RingingUncanceled` (`RingingCancelsNobody`): inductive with `RingingIsQuiet`; an
    adopted machine has no legs.
  * `MirrorOwed` (`MirrorOwedIsArmed`): given that no crash loses an alarm
    (`NoAlarmLost == Budget["loseAlarm"] = 0`). Inductive with `TypeOK`: a failed write arms
    the slot in the same step, the slot is never due twice, and the purge waits until nothing
    is owed.
* **`CallSteps_proofs`**, about the reducer alone. `ReduceKinds`: for every machine and event,
  the step is of one of twelve kinds (it leaves state, owner and stamp alone, registers an
  intent, dials, diverts to voicemail, answers, picks up, records, saves a recording, ends,
  upgrades, sets the owner, fails a notice), and each kind says which columns of the row it
  writes, which merges and alarms it asks for. `MintKinds` says so of the openings. The
  theorems below split a step of the reducer into these kinds instead of its handlers.
  `ReduceLegs` says what every event does to the records of the members' legs, by one lemma per
  handler.
* **`CallOutcome_proofs`**, about `Spec`. `NextForms` puts every step into one of twelve forms by
  what it does to machine, journal, row and alarms; `Lines` and `Joins` do so for the customer's
  leg with its webhooks and for the events that join the journal. `Unrun` is the set of effects
  still to be run, `Coming` that of events still to be reduced. The properties speak of drained
  sessions; each strengthening says what holds in the middle of a cascade. `Remembered == ~hist.forgot` is the condition under which the invariants of answer,
  voicemail, avenue, legs and bridge are carried: an object purged before its row knew may meet
  the same call once more (section 4).
  * `OutcomeHolds` (`CallInv`): a session that is over has settled its row, or an effect that
    will is in `Unrun`, or nothing of its recording was kept (`hist.unkept`); the purge is armed
    only after it, behind it in the list; what is to be written is what the machine says; an
    object without a session is waiting for its first webhook, finds the row settled, or was
    purged before it was (`hist.forgot`). `LineIsFreed` (`LineFreed`) follows. With it,
    `CallLivesItsLife` (`ImplementsLifecycle`) shows that each form of step is a step of
    `CallLifecycle` or a stutter.
  * `DeclinedStayQuiet` (`DeclinedNeverRung`). `DialInv`: no dial in `Unrun` is to a leg of a
    member who declined. A decline cannot meet such a dial, since it is admitted only when the
    journal is empty.
  * `EndsWithCustomer` (`CallEndsWithCustomer`). `GoneInv`: no webhook and no journaled event
    says that the customer's leg is down while it is up, and a session that is over without
    the janitor has that leg down or its hangup in `Unrun`.
  * `FirstAnswerHolds` (`FirstAnswerWins`). `AnswerInv`: a ringing call has no owner and no
    stamp, an answered one no intent a hangup could stamp, and the row, the writes owed to it
    and the transfer's route carry an owner of an inbound call only with the stamp. Adoption
    reads the row, which is why the row is in it. `DirHolds` (`DirInv`) shows that customer, row,
    machine and webhooks have one direction.
  * `RowAgreesHolds` (`RowAgrees`), if writes may fail less often than the retry tries
    (`Budget["mirrorFail"] < MaxMirrorAttempts`; after the last attempt the code gives the write
    up). `AgreeInv`: each column of the row agrees with the machine, or a write that mends it is
    in `pending` or `Unrun`, or it is the owner and a transfer's route has yet to tell the session.
    A stale retry does no harm because `pending` is pinned to the machine when it is tried.
  * `VoicemailIsKept` (`VoicemailKept`). `KeepInv`: while a recording runs or its webhook is on the
    way, the machine is in a state that takes it, and neither the row nor a merge in `Unrun`
    says `answered`; an admitted recording is in storage, was found to hold nothing to keep, or has
    the pipeline ahead (`Handled`); neither the session nor its row says voicemail earlier
    (`TakenIn`); and a path stamped by a pipeline that threw still has that pipeline in `Unrun`.
    This needs `TagInv`: a greeting or recording plays only on a live line with
    the voicemail tag, and the webhooks of a line carry its tag.
  * `AvenueHolds` (`RingingHasAvenue`). `AvenueInv`: while the ring deadline is armed or about to
    be, a ringing machine has somebody to wait for or has dialed the cap. One lemma per handler,
    over one for the ladder.
  * `NoGhostRingHolds` (`NoGhostRing`) and `NoLegOutlivesCallHolds` (`NoLegOutlivesCall`). What
    they say of machine and provider is true only at rest; `LegInv` says how the two meet in the
    middle of a cascade. The machine's books are in order (`Books`: one record for each leg, none
    ringing once the call is answered or over). A leg the books know was dialed, one they gave up
    is down or has its hangup in `Unrun`, and one beyond `dialed` nobody rang. What the webhooks and
    events say of a leg is so (`Said`). A greeting is preceded by the silencing of the phones
    (`Greeted`). The delicate part is `DialsInv`: a dial may be repeated by a crash and tells its
    outcome only later, so that a record waits for its leg without knowing it. While a dial
    or an outcome is in the journal, only such outcomes and the settling of the push stand next
    to it, each leg has one outcome to come, and its record still waits when it is reduced
    (`CalmKeeps`). `ReduceLegs` is the reducer's part, `NextLegsLive` the provider's.
  * `BothAnsweredHolds` (`BothAnsweredAreBridged`). `BridgeInv` follows an answer from the phone
    to the bridge. Whoever is reported, probed, answered for or bridged did pick up (`HeardInv`),
    and an answered machine or row has a customer whose leg no longer rings (`UpInv`). All
    answered records are of one leg, none while a call rings, and a bridge still to be run is for
    that leg (`OneTalks`). Then, for the answered leg, either its bridge is in `Unrun` or the
    customer, if both legs are live, is with it or with a transfer's leg (`Linked`). A placed
    call's two answers come in either order, which works because it has one leg, the placer's
    (`OneLine`). The reducer's part is `ReduceConnects`: an event either connects nobody anew
    (`Unjoined`), has a leg probed or answered for, or marks its leg answered and asks for its
    bridge in one commit.
* **`WebhookLedger_proofs`**. `SweepsExclude` (`OneSweepPerRow`), `NothingAckedIsLost`
  (`AckedIsOwedOrHandled`), `ReplaysCounted` (`ReplaysBounded`), `StampedNeverRerun`
  (`NoRerunOfStamped`), `TypeCorrect`. The properties are not inductive because they say
  nothing of the processes that still hold a row. `IInv` adds it: a background task is over
  before its row may be swept (`TaskLife < MinAge`), so its row has only the attempts the
  task has read; a sweep's row is inside its lease while the handler runs
  (`HandlerLife < Lease`), so nobody else has claimed it; retention removes only rows that
  nobody works on, whose event no request brings again. A dispatch that follows a failed reading
  of the stamp may run beside all of these: it changes the row only by a stamp.
* **`Messages_proofs`**. `DispatchersExclude` (`OneDispatcher`), `FiredExactlyOnce`
  (`SentIffFired`), `DeliveredForGood` (`DeliveredStays`), `ClosedForGood`
  (`ClosedStaysClosed`), `TypeCorrect`. `IInv` says that whoever may dispatch the row owns it:
  the row is queued, has no id of the carrier, and is fresh, which every other claim refuses;
  time passes only when nobody is at work. `DeliveredStays` rests on `AutoStops`, the fact that
  an automatic retry never gets past its own claim (the subject of the run `auto_retry`): were
  that repaired in the code, the write by which a denied automatic retry marks the row
  interrupted, which goes by the id alone, could meet a row that another retry has taken.
* **`Provisioning_proofs`**. `RunnersExclude` (`OneRunner`), `OrdersAreFound`
  (`OrderIsFound`), `LiveOrderIsOne` (`OneLiveOrder`). `IInv` relates three sets of books. The
  row: the order it has written down was placed under its present key. The orders: each goes by
  a key that was minted, and no two by the same. The invocation in the saga: it has the lease,
  it is alone, and what it read of order and key is still so. A key is minted only when the row
  has neither key nor order; an order is placed only under a key that has none; order and key
  are given up together, when the order is dead, or flipped, or when a chosen number was answered
  with a 4xx; in the last two cases the order is marked `forgot`, whatever becomes of it. No
  theorem says that it buys nothing: `orders_again` shows that it may.
  Hence the live orders of a slot all go by the row's key, and there is at most one.
* **`EndpointDelivery_proofs`**. `SweepsExclude` (`OneSweepPerDelivery`), `PostsAreBounded`
  (`PostsBounded`), `TypeCorrect`. `IInv`: an event in hand is claimed and not due, so no other
  claim returns it; posts made and posts owed together are within the row's attempts, and these
  within the ladder and the faults.

Only model-checked:

* liveness, which is beyond the prover (`EventuallyOver`, both `EventuallySettled`,
  `InterruptedIsResolved`, `ScheduleSettles`, `Resolves`);
* `NoParkedCustomer`. It is not a theorem for every budget, and TLC shows why when the budgets of
  `faults` are changed: a lost hangup of the bridged leg leaves the customer alone until the
  janitor; so does a failed steal, if it made another member the owner than the one who holds
  the customer; and so does a placed call that is transferred before the placer picks up, whose
  late answer takes the customer back from the transfer's target. Where no webhook is lost, no
  steal fails and no placed call is transferred, TLC finds no exception;
* `Provisioning.TypeOK`: its bound on the attempts holds within the budgets of the checked
  instance; the proofs use `Typed`, which leaves the attempts unbounded.

## 6. What is not modelled

In the modelled parts:

* *Calls.* The bound of 256 on the seen set and the session's command budget; an effect that
  throws on every attempt (the budget `replay` lets it run again, not for ever); a customer
  without a call-control id; the target's leg after a steal that succeeded; blind transfer
  legs; the waiting and live-calls reads; the sweeper's replay of a hangup that has no row;
  two sessions that claim one line at the same moment.
* *Ledger.* Signature checks and partition refusals before the insert; what handlers do.
* *Texts.* Editing and rescheduling a scheduled text; media that cannot be uploaded; the
  meter behind an accepted text.
* *Saga.* Choosing among numbers found; the plan's limits at checkout; ports.
* *Deliveries.* Signing, redirects and the shape of the payload.

Not modelled at all, with the reason (also in `PROJECT.json`):

* *Inbound texts, opt-out, missed-call and away replies, reminders*: each is one insert under
  a unique key by which a duplicate is noticed, followed by a send as modelled.
* *Registration, porting, text enablement*: their steps are the provider's and the carriers';
  each write is of one row and follows one answer.
* *Grace period, prepaid year, metering, disputes*: what they do to numbers is in the saga
  (`Cancel`, `ReleaseReads`, `CloseOut`); the rest needs a model of Stripe's balance and
  invoices, of which the source shows only the calls.
* *Calendar synchronisation*: the largest protocol left; see the plan.
* *Notifications, greetings, voicemail intake, purge, retention, export, record routes*:
  best-effort fan-out, pipelines of stored files, batch jobs selected by state, handlers of one
  row.
* *Clients, translations, catalogues, build and site tooling*: most of the repository's
  360,000 lines. They hold no protocol state, which is why the models cover a small share of
  the lines although they cover most of those in which processes meet.

## 7. Running

In this directory:

```
tlc -workers 2 -config ring_all.cfg        MCCallSession
tlc -workers 2 -config openings.cfg        MCCallSession
tlc -workers 2 -config faults.cfg          MCCallSession
tlc -workers 2 -config closings.cfg        MCCallSession
tlc -workers 2 -config stranded_member.cfg MCCallSession
tlc -workers 2 -config ledger.cfg          MCWebhookLedger
tlc -workers 2 -config messages.cfg        MCMessages
tlc -workers 2 -config auto_retry.cfg      MCMessages
tlc -workers 2 -config provisioning.cfg    MCProvisioning
tlc -workers 2 -config orders_again.cfg    MCProvisioning
tlc -workers 2 -config adopts_sibling.cfg  MCProvisioning
tlc -workers 2 -config delivery.cfg        MCEndpointDelivery

tlapm CallTransitions_proofs.tla
tlapm CallSteps_proofs.tla
tlapm CallSession_proofs.tla
tlapm CallOutcome_proofs.tla
tlapm WebhookLedger_proofs.tla
tlapm Messages_proofs.tla
tlapm Provisioning_proofs.tla
tlapm EndpointDelivery_proofs.tla
```

`PROJECT.json` maps every definition to the lines it models, and gives each property the
mutant that breaks it.
