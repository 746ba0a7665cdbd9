------------------------------ MODULE CallSession ------------------------------
(***************************************************************************)
(* One call: the CallSessionDO shell                                       *)
(* (src/apps/api/src/calls/session-do.ts) around the reducer of            *)
(* CallTransitions, with the telephony provider, the webhook feed, the     *)
(* calls row it mirrors into, and the routes that call it.                 *)
(*                                                                         *)
(* The object admits one event at a time (the FIFO): an event is journaled *)
(* with its dedup mark, reduced, and its effects run one by one, each      *)
(* effect's outcome joining the journal as a further event; nothing else   *)
(* is admitted until that cascade has drained.  What interleaves with it   *)
(* is the world: legs answering and hanging up, webhooks arriving in any   *)
(* order, crashes that repeat an effect, writes that fail.                 *)
(***************************************************************************)
EXTENDS CallTransitions

CONSTANTS
  Contexts,           \* what loadInitiatedContext may find for an inbound call
  Placements,         \* what loadOutboundInitiatedContext may find for a placed call
  DialResults,        \* what a dial can come back with (subset of DialResult)
  Budget,             \* how often each fault and each request may happen
  MaxMirrorAttempts   \* MAX_MIRROR_ATTEMPTS

\* "lost": no leg was created and the answer to the POST never came;
\* "created": the leg rings but the answer never came (a timeout, a 429 or 5xx).
DialResult == {"ccid", "known-dead", "lost", "created"}

\* Every bounded kind of step, by name.
BudgetKind ==
  { "replay",      \* an effect that ran, or failed half way, and is run again
    "mirrorFail",  \* a calls-row write that fails
    "dup",         \* a webhook delivered again after it was processed
    "lose",        \* a webhook that never arrives
    "loseAlarm",   \* a crash between clearing an alarm slot and admitting it
    "orphan",      \* a crash between claiming the calls row and the journal
    "ringMe", "decline",
    "consult",     \* announce-transfers started by the crew
    "stealFail" }  \* a bridge-steal of a live customer leg that fails

ASSUME ContextAssumption   == \A ctx \in Contexts : ctx \in InboundContext
ASSUME PlacementAssumption == \A ctx \in Placements : ctx \in Placement
ASSUME DialAssumption      == DialResults \subseteq DialResult
ASSUME BudgetAssumption    == Budget \in [BudgetKind -> Nat]
ASSUME MirrorAssumption    == MaxMirrorAttempts \in Nat \ {0}

VARIABLES
  \* durable storage of the object
  machine,    \* SessionMachine
  journal,    \* the unfinished cascade, or NoJournal
  seen,       \* webhooks already admitted
  alarms,     \* armed alarm slots
  pending,    \* the mirror write still owed to the row
  \* the database
  row,        \* the calls row
  \* the provider
  customer,   \* the customer's leg
  wlegs,      \* the members' legs
  net,        \* webhooks not yet acknowledged
  \* the consult routes
  consult,
  \* what is left of each budget
  spent,
  \* history for the properties only: the call was over at some time; the storage
  \* holds the session this object minted; a recording came to nothing; the object
  \* was purged while the row did not say how the call ended
  hist

durable == << machine, journal, seen, alarms, pending >>
world   == << customer, wlegs >>
vars    == << machine, journal, seen, alarms, pending, row, customer, wlegs, net, consult,
              spent, hist >>

AlarmSlot == {"mirror-retry", "fanout-settle", "intent-expiry", "ring-step", "ring",
              "janitor", "purge"}

NoEvent   == [type |-> "null"]
NoJournal == [open |-> FALSE, event |-> NoEvent, reduced |-> FALSE, fx |-> <<>>, rest |-> <<>>]
NoPending == [set |-> NoColumns, attempts |-> 0]

Drained == ~journal.open

NoRow == [exists |-> FALSE, direction |-> "inbound", state |-> "null", outcome |-> "null",
          answered_by_user_id |-> NoUser, answered_at |-> FALSE, notice_spoken |-> FALSE,
          voicemail_path |-> FALSE]

Spend(kind) == /\ spent[kind] < Budget[kind]
               /\ spent' = [spent EXCEPT ![kind] = @ + 1]

(***************************************************************************)
(* The calls row.                                                          *)
(***************************************************************************)
\* api_upsert_call's outcome merge: voicemail wins, else the first one stays.
Variant_upsertOutcome_voicemailOnly(r, outcome) ==
  IF outcome = "voicemail" THEN [r EXCEPT !.outcome = outcome] ELSE r

upsertOutcome(r, outcome) ==
  [r EXCEPT !.outcome = IF outcome = "voicemail" \/ @ = "null" THEN outcome ELSE @]

\* First write of a terminal mirror (#209): fill the outcome where it is null.
fillOutcome(r, set) ==
  IF "state" \in DOMAIN set /\ isTerminal(set.state) /\ r.outcome = "null"
  THEN [r EXCEPT !.outcome = outcomeForState(set.state)] ELSE r

mirror(r, set) == IF r.exists THEN Written(set, fillOutcome(r, set)) ELSE r

(***************************************************************************)
(* The provider.  A leg is "ringing" until answered, "live" until either   *)
(* side or a command hangs it up, then "gone" with one hangup webhook.     *)
(***************************************************************************)
WorldLeg == [user: User \cup {NoUser}, status: {"none", "ringing", "live", "gone"}]
Up       == {"ringing", "live"}

memberAnswered(i) == [type |-> "member-leg-answered", leg |-> i, user |-> wlegs[i].user]
memberHangup(i)   == [type |-> "member-leg-hangup",   leg |-> i, user |-> wlegs[i].user]
placerAnswered(i) == [type |-> "outbound-placer-answered", leg |-> i, user |-> wlegs[i].user]
placerHangup(i)   == [type |-> "outbound-placer-hangup",   leg |-> i, user |-> wlegs[i].user]

AnsweredHook(i) == IF customer.direction = "outbound" THEN placerAnswered(i) ELSE memberAnswered(i)
HangupHook(i)   == IF customer.direction = "outbound" THEN placerHangup(i) ELSE memberHangup(i)

\* The customer leg's hangup webhook.  It carries the tag the last successful
\* command put on the leg; the terminal delegate derives the outcome from it.
CustomerHangup ==
  IF customer.direction = "outbound"
  THEN [type |-> "outbound-hangup",
        merged |-> IF customer.leg = "live" THEN "answered" ELSE "missed"]
  ELSE [type |-> "inbound-hangup", tag |-> customer.tag,
        merged |-> IF customer.tag = "bri" THEN "answered" ELSE "missed"]

\* A media step cut short by the hangup still reports.
MediaHook ==
  CASE customer.media \in {"greeting", "notice"} -> {[type |-> "speak-ended"]}
    [] customer.media = "recording"              -> {[type |-> "recording-saved"]}
    [] OTHER                                     -> {}

\* The member legs that fall with the customer's: the bridged one.
Bridged == {i \in LegId : customer.peer = i /\ wlegs[i].status \in Up}

Drop(ls) == [i \in LegId |-> IF i \in ls THEN [wlegs[i] EXCEPT !.status = "gone"] ELSE wlegs[i]]

\* The customer's leg ends, together with the member legs of ls.
CustomerGone(ls) ==
  /\ customer' = [customer EXCEPT !.leg = "gone", !.media = "none", !.peer = NoLeg]
  /\ wlegs' = Drop(ls)
  /\ net' = net \cup {CustomerHangup} \cup MediaHook \cup {HangupHook(i) : i \in ls}

(***************************************************************************)
(* The journal.                                                            *)
(***************************************************************************)
Journal(ev) == [open |-> TRUE, event |-> ev, reduced |-> FALSE, fx |-> <<>>, rest |-> <<>>]

\* The cursor passes one effect; after the last one the next event of rest
\* becomes the head, and with none left the journal is cleared.
Advanced(fx, rest) ==
  CASE fx # <<>>                  -> [journal EXCEPT !.fx = fx, !.rest = rest]
    [] fx = <<>> /\ rest # <<>>   -> [Journal(Head(rest)) EXCEPT !.rest = Tail(rest)]
    [] OTHER                      -> NoJournal

\* The reduced machine and its effects are one commit.
Reduce ==
  /\ journal.open /\ ~journal.reduced
  /\ LET r == reduce(machine, journal.event)
     IN  /\ machine' = r.m
         /\ journal' = IF r.fx = <<>> THEN Advanced(<<>>, journal.rest)
                       ELSE [journal EXCEPT !.reduced = TRUE, !.fx = r.fx]
         /\ hist' = [ended  |-> hist.ended \/ isTerminal(r.m.state),
                     minted |-> hist.minted \/ (isNone(machine) /\ ~isNone(r.m)),
                     unkept |-> hist.unkept,
                     forgot |-> hist.forgot]
  /\ UNCHANGED << seen, alarms, pending, row, customer, wlegs, net, consult, spent >>

Executing(kind) == journal.open /\ journal.reduced /\ Head(journal.fx).kind = kind
Effect          == Head(journal.fx)

Advance(followUps) == journal' = Advanced(Tail(journal.fx), journal.rest \o followUps)

\* The effect ran.  Either the cursor passed it, or execute threw or the object
\* was evicted first and journal-resume will run the effect again.
Done(followUps) ==
  \/ Advance(followUps) /\ UNCHANGED spent
  \/ Spend("replay") /\ UNCHANGED journal

(***************************************************************************)
(* execute: one action per effect.  Each leaves the world as the command   *)
(* would; Done decides whether the cursor moved before the object went.    *)
(***************************************************************************)
ExecMirror ==
  /\ Executing("mirror")
  /\ row' = mirror(row, Effect.set)
  /\ Done(<<>>)
  /\ UNCHANGED << machine, seen, alarms, pending, world, net, consult, hist >>

\* doMirror's catch: the columns join the pending ones and the retry is armed.
\* half: the outcome fill landed and the row update did not.
ExecMirrorFails ==
  /\ Executing("mirror")
  /\ Spend("mirrorFail")
  /\ \E half \in BOOLEAN :
        row' = IF half /\ row.exists THEN fillOutcome(row, Effect.set) ELSE row
  /\ pending' = [set      |-> Written(Effect.set, pending.set),
                 attempts |-> IF pending = NoPending THEN 1 ELSE pending.attempts]
  /\ alarms' = alarms \cup {"mirror-retry"}
  /\ Advance(<<>>)
  /\ UNCHANGED << machine, seen, world, net, consult, hist >>

DialOutcome(i, result) ==
  [type |-> "dial-outcome", leg |-> i,
   outcome |-> CASE result = "ccid"       -> "ccid"
                 [] result = "known-dead" -> "known-dead"
                 [] OTHER                 -> "ambiguous"]

\* A replayed dial carries the same command_id: a leg it created stays the one leg.
DialResultsFor(i) ==
  IF wlegs[i].status = "none" THEN DialResults ELSE {"ccid", "created"} \cap DialResults

ExecDial ==
  /\ Executing("telnyx-dial") \/ Executing("telnyx-dial-placer")
  /\ LET dialed == Effect.from .. Effect.to
     IN  \E result \in [dialed -> DialResults] :
            /\ \A i \in dialed : result[i] \in DialResultsFor(i)
            /\ wlegs' = [i \in LegId |->
                 IF i \in dialed /\ result[i] \in {"ccid", "created"} /\ wlegs[i].status = "none"
                 THEN [user |-> machine.legs[i].user, status |-> "ringing"] ELSE wlegs[i]]
            /\ Done([n \in 1 .. Effect.to + 1 - Effect.from |->
                       DialOutcome(Effect.from + n - 1, result[Effect.from + n - 1])])
  /\ UNCHANGED << machine, seen, alarms, pending, row, customer, net, consult, hist >>

\* commandWithDiscrimination on the customer's leg: an answer of a leg that is
\* already up counts as ours, one of a leg that is gone is "dead".
Variant_AnswerTakes_first == customer.leg = "ringing"

AnswerTakes == customer.leg \in Up

AnswerCustomer(tag, outcome) ==
  /\ customer' = IF customer.leg = "ringing"
                 THEN [customer EXCEPT !.leg = "live", !.tag = tag] ELSE customer
  /\ Done(<<outcome>>)
  /\ UNCHANGED << machine, seen, alarms, pending, row, wlegs, net, consult, hist >>

ExecAnswerInbound ==
  /\ Executing("telnyx-answer-inbound")
  /\ AnswerCustomer("bri", [type |-> "answer-outcome", ok |-> AnswerTakes,
                            leg |-> Effect.leg, user |-> Effect.user])

ExecAnswerNotice ==
  /\ Executing("telnyx-answer-notice")
  /\ AnswerCustomer("vmi", [type |-> "notice-answer-outcome", ok |-> AnswerTakes])

ExecAnswerVm ==
  /\ Executing("telnyx-answer-vm")
  /\ AnswerCustomer("vmi", [type |-> "vm-answer-outcome", ok |-> AnswerTakes])

\* The 4xx of a bridge is discriminated by the MEMBER's leg alone.
ExecBridge ==
  /\ Executing("telnyx-bridge")
  /\ \/ /\ wlegs[Effect.leg].status = "live" /\ customer.leg = "live"
        /\ customer' = [customer EXCEPT !.peer = Effect.leg]
        /\ UNCHANGED << wlegs, net >>
     \/ /\ wlegs[Effect.leg].status = "live" /\ customer.leg # "live"
        /\ UNCHANGED << customer, wlegs, net >>
     \/ /\ wlegs[Effect.leg].status # "live" /\ customer.leg \in Up
        /\ CustomerGone(Bridged)
     \/ /\ wlegs[Effect.leg].status # "live" /\ customer.leg \notin Up
        /\ UNCHANGED << customer, wlegs, net >>
  /\ Done(<<>>)
  /\ UNCHANGED << machine, seen, alarms, pending, row, consult, hist >>

ExecHangupLegs ==
  /\ Executing("telnyx-hangup")
  /\ LET up == {i \in Effect.legs : wlegs[i].status \in Up}
     IN  /\ wlegs' = Drop(up)
         /\ net' = net \cup {HangupHook(i) : i \in up}
         /\ customer' = [customer EXCEPT !.peer = IF @ \in up THEN NoLeg ELSE @]
  /\ Done(<<>>)
  /\ UNCHANGED << machine, seen, alarms, pending, row, consult, hist >>

\* A hangup of the customer's leg that finds it gone re-enters the reducer.
ExecHangupCustomer ==
  /\ Executing("telnyx-hangup-customer")
  /\ IF customer.leg \in Up
     THEN CustomerGone(Bridged) /\ Done(<<>>)
     ELSE UNCHANGED << customer, wlegs, net >> /\ Done(<<[type |-> "inbound-leg-gone"]>>)
  /\ UNCHANGED << machine, seen, alarms, pending, row, consult, hist >>

ExecReject ==
  /\ Executing("telnyx-reject")
  /\ IF customer.leg = "ringing" THEN CustomerGone({}) ELSE UNCHANGED << customer, wlegs, net >>
  /\ Done(<<>>)
  /\ UNCHANGED << machine, seen, alarms, pending, row, consult, hist >>

\* Speaking re-tags the leg vmi; recording starts on a live leg.
ExecMedia ==
  /\ Executing("telnyx-speak") \/ Executing("telnyx-record-start")
  /\ customer' =
       CASE customer.leg # "live" -> customer
         [] customer.leg = "live" /\ Effect.kind = "telnyx-record-start" ->
              [customer EXCEPT !.media = "recording"]
         [] OTHER ->
              [customer EXCEPT !.tag = "vmi",
                 !.media = IF Effect.script = "unavailable-notice" THEN "notice" ELSE "greeting"]
  /\ Done(<<>>)
  /\ UNCHANGED << machine, seen, alarms, pending, row, wlegs, net, consult, hist >>

\* The settle report names the members no channel could reach.
ExecPushFanout ==
  /\ Executing("push-fanout")
  /\ alarms' = alarms \ {"fanout-settle"}
  /\ \E unreachable \in SUBSET machine.push :
        Done(<<[type |-> "push-fanout-settled", unreachable |-> unreachable]>>)
  /\ UNCHANGED << machine, seen, pending, row, world, net, consult, hist >>

ExecTerminalMerge ==
  /\ Executing("terminal-merge")
  /\ row' = IF row.exists THEN upsertOutcome(row, Effect.outcome) ELSE row
  /\ Done(<<>>)
  /\ UNCHANGED << machine, seen, alarms, pending, world, net, consult, hist >>

\* handleVoicemailSaved.  The recording is kept, now or on an earlier pass, and
\* the outcome follows;
VoicemailStored ==
  /\ row.exists
  /\ row' = [upsertOutcome(row, "voicemail") EXCEPT !.voicemail_path = TRUE]
  /\ Done(<<>>)
  /\ UNCHANGED hist

\* nothing of it is (too short, not to be fetched, no row) and the outcome is left;
NothingKept ==
  /\ ~row.voicemail_path
  /\ Advance(<<>>)
  /\ hist' = [hist EXCEPT !.unkept = TRUE]
  /\ UNCHANGED << row, spent >>

\* or a step of it throws, before the path is stamped or between path and outcome.
VoicemailThrows ==
  /\ row.exists
  /\ Spend("replay")
  /\ row' \in {row, [row EXCEPT !.voicemail_path = TRUE]}
  /\ UNCHANGED << journal, hist >>

\* The leg is hung up before any of that.
ExecVoicemailPipeline ==
  /\ Executing("voicemail-pipeline")
  /\ IF row.exists /\ customer.leg \in Up
     THEN CustomerGone(Bridged) ELSE UNCHANGED << customer, wlegs, net >>
  /\ VoicemailStored \/ NothingKept \/ VoicemailThrows
  /\ UNCHANGED << machine, seen, alarms, pending, consult >>

\* Neither changes a leg: push-call-end tells the members' devices, which are
\* not modelled, and a probe asks whether the leg that answered is still up.
ExecQuietly ==
  /\ Executing("push-call-end") \/ Executing("telnyx-probe-member-leg")
  /\ Done(IF Effect.kind = "push-call-end" THEN <<>>
          ELSE <<[type |-> "member-probe-outcome", leg |-> Effect.leg, user |-> Effect.user,
                  ok |-> wlegs[Effect.leg].status \in Up]>>)
  /\ UNCHANGED << machine, seen, alarms, pending, row, world, net, consult, hist >>

ExecAlarmSlot ==
  /\ Executing("arm-alarm") \/ Executing("clear-alarm")
  /\ alarms' = IF Effect.kind = "arm-alarm" THEN alarms \cup {Effect.alarm}
                                            ELSE alarms \ {Effect.alarm}
  /\ Done(<<>>)
  /\ UNCHANGED << machine, seen, pending, row, world, net, consult, hist >>

Execute ==
  \/ ExecMirror \/ ExecMirrorFails \/ ExecDial \/ ExecAnswerInbound \/ ExecAnswerNotice
  \/ ExecAnswerVm \/ ExecBridge \/ ExecHangupLegs \/ ExecHangupCustomer \/ ExecReject
  \/ ExecMedia \/ ExecQuietly \/ ExecPushFanout \/ ExecTerminalMerge \/ ExecVoicemailPipeline
  \/ ExecAlarmSlot

(***************************************************************************)
(* Admission.  The event, and for a webhook its dedup mark, are one commit;*)
(* every entrypoint first resumes an unfinished journal, so an event is    *)
(* admitted only when there is none.                                       *)
(***************************************************************************)
Admit(ev) == Drained /\ journal' = Journal(ev)

\* processed_at is stamped; the provider or the sweeper may still send it again.
Acknowledge(w) ==
  \/ net' = net \ {w} /\ UNCHANGED spent
  \/ Spend("dup") /\ UNCHANGED net

\* reconstructMachine: the machine an empty object takes from the row, w being
\* the webhook (or request) it was woken by.  It has no legs: the ledger holds
\* none before the first dial, and only ended ones after the purge.
endedAs(outcome) ==
  CASE outcome = "answered"  -> "ended_answered"
    [] outcome = "voicemail" -> "ended_voicemail"
    [] OTHER                 -> "ended_missed"

IsHangup(w, tag) == w.type = "inbound-hangup" /\ w.tag = tag

\* Takes the state from the answer stamp alone.
Variant_reconstructedState_stampOnly(w) ==
  IF row.answered_at THEN "answered"
  ELSE IF row.direction = "outbound" THEN "dialing" ELSE "ringing"

reconstructedState(w) ==
  CASE row.outcome # "null"          -> endedAs(row.outcome)
    [] row.outcome = "null" /\ row.direction = "outbound" ->
         IF row.answered_at THEN "answered" ELSE "dialing"
    [] OTHER ->
         CASE w.type = "speak-ended"                                -> "voicemail_greeting"
           [] w.type = "recording-saved" \/ IsHangup(w, "vmi")      -> "voicemail_recording"
           [] IsHangup(w, "bri") /\ ~row.answered_at                -> "ringing"
           [] OTHER -> IF row.answered_at THEN "answered" ELSE "ringing"

reconstructMachine(w) ==
  [NoMachine EXCEPT !.state     = reconstructedState(w),
                    !.direction = row.direction,
                    !.owner     = row.answered_by_user_id,
                    !.answered  = row.answered_at]

\* load() or adoptFromRow(): the machine the event w will be reduced on.
Adopted(w) == IF isNone(machine) /\ row.exists THEN reconstructMachine(w) ELSE machine

Ended(m) == hist.ended \/ isTerminal(m.state)

Adopt(w) == /\ machine' = Adopted(w)
            /\ hist' = [hist EXCEPT !.ended = Ended(Adopted(w))]

Initiations == {"initiated", "outbound-initiated"}

DeliverSeen(w) ==
  /\ Drained /\ w \in seen
  /\ Acknowledge(w)
  /\ UNCHANGED << durable, row, world, consult, hist >>

\* The claim of the line creates the row before the session is journaled.
ClaimedRow == [NoRow EXCEPT !.exists = TRUE, !.direction = customer.direction]

DeliverInitiated(w) ==
  /\ w.type = "initiated" /\ w \notin seen
  /\ row.outcome = "null"
  /\ \E ctx \in Contexts : Admit([type |-> "initiated", context |-> ctx])
  /\ row' = IF row.exists THEN row ELSE ClaimedRow
  /\ seen' = seen \cup {w}
  /\ Acknowledge(w)
  /\ UNCHANGED << machine, alarms, pending, world, consult, hist >>

\* replay-ended; for a placed call, a nonce already consumed.
DeliverInitiatedLate(w) ==
  /\ Drained /\ w.type \in Initiations /\ w \notin seen
  /\ IF w.type = "initiated" THEN row.outcome # "null" ELSE row.exists
  /\ Acknowledge(w)
  /\ UNCHANGED << durable, row, world, consult, hist >>

DeliverOutboundInitiated(w) ==
  /\ w.type = "outbound-initiated" /\ w \notin seen
  /\ ~row.exists
  /\ \E ctx \in Placements :
        /\ ctx.kind = "mint"
        /\ Admit([type |-> "outbound-initiated", context |-> ctx])
  /\ row' = ClaimedRow
  /\ seen' = seen \cup {w}
  /\ Acknowledge(w)
  /\ UNCHANGED << machine, alarms, pending, world, consult, hist >>

\* Refused before ("busy") or after ("lapsed") the row is made: the customer's
\* leg is hung up and nothing is minted.
RejectOutboundInitiated(w) ==
  /\ Drained /\ w.type = "outbound-initiated" /\ w \notin seen
  /\ ~row.exists
  /\ \E ctx \in Placements :
        /\ ctx.kind \in {"busy", "lapsed"}
        /\ row' = IF ctx.kind = "lapsed" THEN ClaimedRow ELSE row
  /\ IF customer.leg \in Up
     THEN /\ customer' = [customer EXCEPT !.leg = "gone"]
          /\ net' = (net \ {w}) \cup {CustomerHangup}
     ELSE customer' = customer /\ net' = net \ {w}
  /\ UNCHANGED << durable, wlegs, consult, spent, hist >>

\* A crash between the claim and the journal: the webhook is delivered again.
ClaimThenCrash(w) ==
  /\ Drained /\ w.type \in Initiations /\ w \in net /\ w \notin seen
  /\ ~row.exists
  /\ Spend("orphan")
  /\ row' = ClaimedRow
  /\ UNCHANGED << durable, world, net, consult, hist >>

\* Every other webhook needs a machine, and adopts one where the object is empty.
DeliverEvent(w) ==
  /\ w.type \notin Initiations /\ w \notin seen
  /\ ~isNone(machine) \/ row.exists
  /\ Admit(w)
  /\ Adopt(w)
  /\ seen' = seen \cup {w}
  /\ Acknowledge(w)
  /\ UNCHANGED << alarms, pending, row, world, consult >>

\* With no row either, a customer's hangup is left unstamped for the sweeper to
\* replay (drop-no-stamp: no step) and everything else is dropped.
DropUnknown(w) ==
  /\ Drained /\ w.type \notin Initiations /\ w \notin seen
  /\ isNone(machine) /\ ~row.exists
  /\ w.type \notin {"inbound-hangup", "outbound-hangup", "member-leg-hangup",
                    "outbound-placer-hangup"}
  /\ net' = net \ {w}
  /\ UNCHANGED << durable, row, world, consult, spent, hist >>

Deliver(w) ==
  /\ w \in net
  /\ \/ DeliverSeen(w) \/ DeliverInitiated(w) \/ DeliverInitiatedLate(w)
     \/ DeliverOutboundInitiated(w) \/ RejectOutboundInitiated(w)
     \/ DeliverEvent(w) \/ DropUnknown(w)

Lose(w) ==
  /\ w \in net
  /\ Spend("lose")
  /\ net' = net \ {w}
  /\ UNCHANGED << durable, row, world, consult, hist >>

(***************************************************************************)
(* The members' requests.  The routes let them through for an inbound call *)
(* that has a row; an object purged meanwhile adopts the row.              *)
(***************************************************************************)
NoWebhook == [type |-> "rpc"]

Request(kind, ev) ==
  /\ row.exists /\ row.direction = "inbound"
  /\ Spend(kind)
  /\ Admit(ev)
  /\ Adopt(NoWebhook)
  /\ UNCHANGED << seen, alarms, pending, row, world, net, consult >>

RingMe(u, noLocalLeg, recent) ==
  Request("ringMe", [type |-> "ring-me", user |-> u, noLocalLeg |-> noLocalLeg, recent |-> recent])

Decline(u) == Request("decline", [type |-> "decline", user |-> u])

(***************************************************************************)
(* The announce transfer (POST consult, consult/complete, consult/cancel). *)
(* A route is a sequence of steps that anything may interleave with, and   *)
(* it may stop after any of them.  The consult's own two legs are not      *)
(* modelled; ConsultLeg stands for the target's as a bridge partner.       *)
(***************************************************************************)
ConsultLeg == MaxLegs + 1

NoConsult == [step |-> "idle", sender |-> NoUser, target |-> NoUser]

RowLive == row.exists /\ row.outcome = "null" /\ row.answered_at   \* requireLiveCall

AtStep(step) == consult.step = step
GoTo(step)   == consult' = IF step = "idle" THEN NoConsult ELSE [consult EXCEPT !.step = step]

\* setOwner, registerIntent, clearIntent: nothing is admitted without a machine.
Tell(ev) == /\ IF isNone(machine) THEN Drained /\ UNCHANGED journal ELSE Admit(ev)
            /\ UNCHANGED << machine, seen, alarms, pending, row, world, net, spent, hist >>

ConsultGate(sender, target) ==
  /\ AtStep("idle") /\ sender # target
  /\ RowLive
  /\ Spend("consult")
  /\ consult' = [step |-> "gated", sender |-> sender, target |-> target]
  /\ UNCHANGED << durable, row, world, net, hist >>

\* Abort unless the machine is still answered.
ConsultRegister ==
  /\ AtStep("gated")
  /\ Tell([type |-> "register-intent"])
  /\ GoTo(IF machine.state = "answered" THEN "dialing" ELSE "idle")

ConsultDialed ==
  /\ AtStep("dialing")
  /\ GoTo("consulting")
  /\ UNCHANGED << durable, row, world, net, spent, hist >>

\* Fewer than two legs dialed, or a cancel of the running consult.
ConsultAbandon ==
  /\ AtStep("dialing") \/ (AtStep("consulting") /\ RowLive)
  /\ Tell([type |-> "clear-intent"])
  /\ GoTo("idle")

ConsultStamp ==
  /\ AtStep("consulting") /\ RowLive
  /\ row' = [row EXCEPT !.answered_by_user_id = consult.target]
  /\ GoTo("stamped")
  /\ UNCHANGED << durable, world, net, spent, hist >>

ConsultOwner ==
  /\ AtStep("stamped")
  /\ Tell([type |-> "set-owner", user |-> consult.target])
  /\ GoTo("owned")

ConsultClear ==
  /\ AtStep("owned")
  /\ Tell([type |-> "clear-intent"])
  /\ GoTo("cleared")

\* The bridge-steal unbridges the member who held the customer.
ConsultSteal ==
  /\ AtStep("cleared")
  /\ customer.leg = "live"
  /\ customer' = [customer EXCEPT !.peer = ConsultLeg]
  /\ wlegs' = Drop(Bridged)
  /\ net' = net \cup {HangupHook(i) : i \in Bridged}
  /\ GoTo("idle")
  /\ UNCHANGED << durable, row, spent, hist >>

ConsultStealFails ==
  /\ AtStep("cleared")
  /\ IF customer.leg = "live" THEN Spend("stealFail") ELSE UNCHANGED spent
  /\ row' = [row EXCEPT !.answered_by_user_id = consult.sender]
  /\ GoTo("restored")
  /\ UNCHANGED << durable, world, net, hist >>

ConsultRestoreOwner ==
  /\ AtStep("restored")
  /\ Tell([type |-> "set-owner", user |-> consult.sender])
  /\ GoTo("idle")

Consult ==
  \/ \E sender, target \in User : ConsultGate(sender, target)
  \/ ConsultRegister \/ ConsultDialed \/ ConsultAbandon
  \/ ConsultStamp \/ ConsultOwner \/ ConsultClear
  \/ ConsultSteal \/ ConsultStealFails \/ ConsultRestoreOwner

(***************************************************************************)
(* Alarms.  Time is gone; what is left of it is the order the deadlines    *)
(* and runAlarms impose.  A slot is durably cleared before it is fired.    *)
(***************************************************************************)
\* The slots that are always due before the given one.
DueBefore(slot) ==
  CASE slot = "ring-step"            -> {"fanout-settle"}
    [] slot = "ring"                 -> {"fanout-settle", "ring-step"}
    [] slot = "janitor"              -> {"fanout-settle", "ring-step", "ring"}
    [] slot = "purge"                -> {"fanout-settle", "intent-expiry", "ring-step", "ring",
                                       "mirror-retry"}
    [] OTHER                         -> {}

Due(slot) == Drained /\ slot \in alarms /\ alarms \cap DueBefore(slot) = {}

AlarmEvents(slot) ==
  CASE slot = "fanout-settle" -> [type : {"push-fanout-settled"}, unreachable : SUBSET machine.push]
    [] slot = "intent-expiry" -> {[type |-> "alarm-intent-expiry"]}
    [] slot = "ring-step"     -> [type : {"alarm-ring-step"}, fits : BOOLEAN]
    [] slot = "ring"          -> {[type |-> "alarm-ring"]}
    [] OTHER                  -> {[type |-> "alarm-janitor"]}

FireAlarm(slot) ==
  /\ slot \notin {"mirror-retry", "purge"}
  /\ Due(slot)
  /\ alarms' = alarms \ {slot}
  /\ IF isNone(machine) THEN UNCHANGED journal
     ELSE \E ev \in AlarmEvents(slot) : Admit(ev)
  /\ UNCHANGED << machine, seen, pending, row, world, net, consult, spent, hist >>

\* The columns the machine owns are pinned to it before the replay.
Variant_Pinned_stateOnly(set) ==
  [c \in DOMAIN set |-> IF c = "state" THEN machine.state ELSE set[c]]

Pinned(set) ==
  [c \in DOMAIN set |->
     CASE c = "state"               -> machine.state
       [] c = "answered_by_user_id" -> machine.owner
       [] c = "answered_at"         -> machine.answered
       [] OTHER                     -> set[c]]

RetryMirrorLands ==
  /\ Due("mirror-retry")
  /\ alarms' = alarms \ {"mirror-retry"}
  /\ row' = IF pending = NoPending \/ isNone(machine) THEN row ELSE mirror(row, Pinned(pending.set))
  /\ pending' = NoPending
  /\ UNCHANGED << machine, journal, seen, world, net, consult, spent, hist >>

\* It gives up at the last attempt, otherwise it arms itself again.
\* Waits for an alarm it did not arm.
Variant_RetryMirrorFails_noRearm ==
  /\ Due("mirror-retry")
  /\ pending # NoPending /\ ~isNone(machine)
  /\ Spend("mirrorFail")
  /\ row' = row
  /\ pending' = [set |-> Pinned(pending.set), attempts |-> pending.attempts + 1]
  /\ alarms' = alarms \ {"mirror-retry"}
  /\ UNCHANGED << machine, journal, seen, world, net, consult, hist >>

RetryMirrorFails ==
  /\ Due("mirror-retry")
  /\ pending # NoPending /\ ~isNone(machine)
  /\ Spend("mirrorFail")
  /\ \E half \in BOOLEAN :
        row' = IF half /\ row.exists THEN fillOutcome(row, Pinned(pending.set)) ELSE row
  /\ IF pending.attempts + 1 >= MaxMirrorAttempts
     THEN pending' = NoPending /\ alarms' = alarms \ {"mirror-retry"}
     ELSE /\ pending' = [set |-> Pinned(pending.set), attempts |-> pending.attempts + 1]
          /\ UNCHANGED alarms
  /\ UNCHANGED << machine, journal, seen, world, net, consult, hist >>

\* deleteAll; the cached copy of the machine lives on while the object does.
Purge ==
  /\ Due("purge")
  /\ machine' \in {machine, NoMachine}
  /\ seen' = {} /\ alarms' = {} /\ pending' = NoPending
  /\ hist' = [hist EXCEPT !.minted = FALSE, !.forgot = @ \/ row.outcome = "null"]
  /\ UNCHANGED << journal, row, world, net, consult, spent >>

\* The object goes away after the slot was cleared and before it fired.
LoseAlarm(slot) ==
  /\ Due(slot)
  /\ Spend("loseAlarm")
  /\ alarms' = alarms \ {slot}
  /\ UNCHANGED << machine, journal, seen, pending, row, world, net, consult, hist >>

(***************************************************************************)
(* What the parties and the provider do on their own.                      *)
(***************************************************************************)
CustomerHangsUp ==
  /\ customer.leg \in Up
  /\ CustomerGone(Bridged)
  /\ UNCHANGED << durable, row, consult, spent, hist >>

\* The far end of a placed call picks up.
CustomerAnswers ==
  /\ customer.direction = "outbound" /\ customer.leg = "ringing"
  /\ customer' = [customer EXCEPT !.leg = "live"]
  /\ net' = net \cup {[type |-> "outbound-answered"]}
  /\ UNCHANGED << durable, row, wlegs, consult, spent, hist >>

\* The greeting or notice was played; the recording hit its length or silence.
MediaEnds ==
  /\ customer.leg = "live" /\ customer.media # "none"
  /\ customer' = [customer EXCEPT !.media = "none"]
  /\ net' = net \cup MediaHook
  /\ UNCHANGED << durable, row, wlegs, consult, spent, hist >>

MemberAnswers(i) ==
  /\ wlegs[i].status = "ringing"
  /\ wlegs' = [wlegs EXCEPT ![i].status = "live"]
  /\ net' = net \cup {AnsweredHook(i)}
  /\ UNCHANGED << durable, row, customer, consult, spent, hist >>

\* A member hangs up, drops off, or rings out.  The customer bridged to the leg
\* is hung up with it or left on the line, as the provider sees fit.
MemberLegEnds(i) ==
  /\ wlegs[i].status \in Up
  /\ \/ /\ customer' = [customer EXCEPT !.peer = IF @ = i THEN NoLeg ELSE @]
        /\ wlegs' = Drop({i})
        /\ net' = net \cup {HangupHook(i)}
     \/ /\ customer.peer = i /\ customer.leg = "live"
        /\ CustomerGone({i})
  /\ UNCHANGED << durable, row, consult, spent, hist >>

(***************************************************************************)
(* The specification.                                                      *)
(***************************************************************************)
InitialWebhook(direction) ==
  [type |-> IF direction = "inbound" THEN "initiated" ELSE "outbound-initiated"]

Directions == (IF Contexts = {} THEN {} ELSE {"inbound"})
                \cup (IF Placements = {} THEN {} ELSE {"outbound"})

Init ==
  /\ machine = NoMachine
  /\ journal = NoJournal
  /\ seen = {} /\ alarms = {} /\ pending = NoPending
  /\ row = NoRow
  /\ customer \in [direction : Directions, leg : {"ringing"}, tag : {"untagged"},
                   media : {"none"}, peer : {NoLeg}]
  /\ wlegs = [i \in LegId |-> [user |-> NoUser, status |-> "none"]]
  /\ net = {InitialWebhook(customer.direction)}
  /\ consult = NoConsult
  /\ spent = [kind \in BudgetKind |-> 0]
  /\ hist = [ended |-> FALSE, minted |-> FALSE, unkept |-> FALSE, forgot |-> FALSE]

Shell ==
  \/ Reduce
  \/ Execute
  \/ \E slot \in AlarmSlot : FireAlarm(slot)
  \/ RetryMirrorLands
  \/ Purge

Faults ==
  \/ \E w \in net : Lose(w) \/ ClaimThenCrash(w)
  \/ \E slot \in AlarmSlot : LoseAlarm(slot)
  \/ RetryMirrorFails

Members ==
  \/ \E u \in User, noLocalLeg, recent \in BOOLEAN : RingMe(u, noLocalLeg, recent)
  \/ \E u \in User : Decline(u)
  \/ Consult

Provider ==
  \/ CustomerHangsUp \/ CustomerAnswers \/ MediaEnds
  \/ \E i \in LegId : MemberAnswers(i) \/ MemberLegEnds(i)

Next ==
  \/ Shell \/ Faults \/ Members \/ Provider
  \/ \E w \in net : Deliver(w)

Spec == Init /\ [][Next]_vars

(***************************************************************************)
(* The journal-resume alarm finishes a cascade and the platform fires every*)
(* alarm that is due (at least once).  Nothing is asked of the provider,   *)
(* the parties, the webhooks or the routes.                                *)
(***************************************************************************)
Fairness ==
  /\ WF_vars(Reduce \/ Execute)
  /\ \A slot \in AlarmSlot : WF_vars(FireAlarm(slot))
  /\ WF_vars(RetryMirrorLands)
  /\ WF_vars(Purge)

LiveSpec == Spec /\ Fairness
================================================================================
