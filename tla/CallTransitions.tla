---------------------------- MODULE CallTransitions ----------------------------
(***************************************************************************)
(* The pure reducer of the Calls v3 session,                               *)
(* src/apps/api/src/calls/transitions.ts: a machine and an event give the  *)
(* next machine and the list of effects the shell must execute.            *)
(*                                                                         *)
(* One operator per handler of the source, with the handler's name where   *)
(* it has one.  Every handler returns [m |-> machine', fx |-> effects].    *)
(*                                                                         *)
(* Data abstractions, the same for every handler:                          *)
(*   - A leg record is a position 1..MaxLegs of machine.legs (unused until *)
(*     it is dialed).  A pendingKey is the position it was minted for.     *)
(*   - A Telnyx call_control_id (ccid) of a member leg is the position     *)
(*     whose dial created it: the dial's command_id is the pendingKey, so  *)
(*     Telnyx returns the same leg when the dial is replayed.  A record    *)
(*     learns its ccid from the dial response or by adoption (§7.7), and   *)
(*     after two ambiguous dials of one member it may learn the other's.   *)
(*   - The customer's own leg always has a ccid.                           *)
(*   - Timestamps are gone: answeredAtIso is the BOOLEAN answered; the     *)
(*     debounce and the "next step fits in the ring window" comparisons    *)
(*     arrive as the BOOLEANs recent and fits of the event.                *)
(*   - "warn" and "thread-at-answer" effects change no modelled state.     *)
(*                                                                         *)
(* A definition named Variant_X_... is X with a plausible bug.  No module  *)
(* uses it; it is there to be put in the place of X, to see that the       *)
(* property about X notices.                                               *)
(***************************************************************************)
EXTENDS Naturals, Sequences, FiniteSets

CONSTANTS
  User,      \* the members who can be rung
  NoUser,    \* null where a user id is expected
  MaxLegs    \* MAX_LEGS_PER_SESSION

ASSUME UserAssumption    == NoUser \notin User
ASSUME MaxLegsAssumption == MaxLegs \in Nat \ {0}

LegId == 1 .. MaxLegs
NoLeg == 0

TerminalStates ==
  {"ended_answered", "ended_voicemail", "ended_missed", "ended_rejected"}

CallStates ==
  {"dialing", "ringing", "answered", "voicemail_greeting", "voicemail_recording"}
    \cup TerminalStates

isTerminal(state) == state \in TerminalStates

outcomeForState(state) ==
  CASE state = "ended_answered"                       -> "answered"
    [] state = "ended_voicemail"                      -> "voicemail"
    [] state \in {"ended_missed", "ended_rejected"}   -> "missed"
    [] OTHER                                          -> "null"

LegStatus     == {"unused", "dialing", "ringing", "canceling", "answered", "dead", "ambiguous"}
LIVE_STATUSES == {"dialing", "ringing", "canceling"}

Leg == [user: User \cup {NoUser}, status: LegStatus, ccid: LegId \cup {NoLeg}, ringMe: BOOLEAN]

UnusedLeg == [user |-> NoUser, status |-> "unused", ccid |-> NoLeg, ringMe |-> FALSE]

(***************************************************************************)
(* The persisted machine.  A Durable Object that holds no machine has      *)
(* state "none"; isNone stands for "machine === null".                     *)
(***************************************************************************)
SessionMachine ==
  [ state             : CallStates \cup {"none"},
    direction         : {"inbound", "outbound"},
    owner             : User \cup {NoUser},     \* answeredByUserId
    answered          : BOOLEAN,                \* answeredAtIso # null
    rejectedForCap    : BOOLEAN,
    noticeSpoken      : BOOLEAN,
    ownerLegDead      : User \cup {NoUser},     \* ownerLegDeadDuringIntent
    push              : SUBSET User,            \* pushCapableUserIds
    declined          : SUBSET User,            \* declinedUserIds
    order             : Seq(User),              \* the ring order of this call's targets
    queue             : SUBSET User,            \* queuedTargets, popped in that order
    legs              : [LegId -> Leg],
    dialed            : 0 .. MaxLegs,           \* legs.length
    intent            : BOOLEAN,                \* intent # null
    answerIntent      : User \cup {NoUser} ]    \* answerIntent.userId

NoMachine ==
  [ state |-> "none", direction |-> "inbound", owner |-> NoUser, answered |-> FALSE,
    rejectedForCap |-> FALSE, noticeSpoken |-> FALSE, ownerLegDead |-> NoUser,
    push |-> {}, declined |-> {}, order |-> <<>>, queue |-> {}, legs |-> [i \in LegId |-> UnusedLeg],
    dialed |-> 0, intent |-> FALSE, answerIntent |-> NoUser ]

isNone(m) == m.state = "none"

\* Whoever waits to be rung has a place in the ring order.
MachineOK(m) == /\ m \in SessionMachine
                /\ \A u \in m.queue : \E i \in DOMAIN m.order : m.order[i] = u

(***************************************************************************)
(* Effects.                                                                *)
(***************************************************************************)
Mirror(set)          == [kind |-> "mirror", set |-> set]
Dial(from, to)       == [kind |-> "telnyx-dial", from |-> from, to |-> to]
DialPlacer(i)        == [kind |-> "telnyx-dial-placer", from |-> i, to |-> i]
AnswerInbound(l, u)  == [kind |-> "telnyx-answer-inbound", leg |-> l, user |-> u]
AnswerNotice         == [kind |-> "telnyx-answer-notice"]
AnswerVm             == [kind |-> "telnyx-answer-vm"]
Bridge(l)            == [kind |-> "telnyx-bridge", leg |-> l]
HangupLegs(ls)       == [kind |-> "telnyx-hangup", legs |-> ls]
HangupCustomer       == [kind |-> "telnyx-hangup-customer"]
Reject               == [kind |-> "telnyx-reject"]
Speak(script)        == [kind |-> "telnyx-speak", script |-> script]
RecordStart          == [kind |-> "telnyx-record-start"]
Probe(l, u)          == [kind |-> "telnyx-probe-member-leg", leg |-> l, user |-> u]
PushFanout           == [kind |-> "push-fanout"]
PushCallEnd(reason)  == [kind |-> "push-call-end", reason |-> reason]
TerminalMerge(out)   == [kind |-> "terminal-merge", outcome |-> out]
VoicemailPipeline    == [kind |-> "voicemail-pipeline"]
Arm(alarm)           == [kind |-> "arm-alarm", alarm |-> alarm]
Clear(alarm)         == [kind |-> "clear-alarm", alarm |-> alarm]

(***************************************************************************)
(* The types of effects and events.                                        *)
(***************************************************************************)
Maybe(S) == S \cup {NoUser}

\* The columns a mirror may carry.
Column == {"state", "answered_by_user_id", "answered_at", "notice_spoken"}

NoColumns == << >>

\* The columns of set written over those of old.
Written(set, old) ==
  [c \in DOMAIN set \cup DOMAIN old |-> IF c \in DOMAIN set THEN set[c] ELSE old[c]]

IsColumns(set) ==
  /\ DOMAIN set \in SUBSET Column
  /\ set = [c \in DOMAIN set |-> set[c]]
  /\ "state" \in DOMAIN set => set["state"] \in CallStates
  /\ "answered_by_user_id" \in DOMAIN set => set["answered_by_user_id"] \in Maybe(User)
  /\ "answered_at" \in DOMAIN set => set["answered_at"] \in BOOLEAN
  /\ "notice_spoken" \in DOMAIN set => set["notice_spoken"] \in BOOLEAN

AlarmKind == {"fanout-settle", "intent-expiry", "ring-step", "ring", "janitor", "purge"}
Outcome   == {"answered", "voicemail", "missed"}

\* What a hangup can mean; that it was a voicemail only the pipeline says.
Ending == {"answered", "missed"}

PlainEffect ==
  [kind : {"telnyx-dial", "telnyx-dial-placer"}, from : LegId, to : LegId]
  \cup [kind : {"telnyx-answer-inbound", "telnyx-probe-member-leg"}, leg : LegId, user : Maybe(User)]
  \cup [kind : {"telnyx-bridge"}, leg : LegId]
  \cup [kind : {"telnyx-hangup"}, legs : SUBSET LegId]
  \cup [kind : {"telnyx-answer-notice", "telnyx-answer-vm", "telnyx-hangup-customer",
                "telnyx-reject", "telnyx-record-start", "push-fanout", "voicemail-pipeline"}]
  \cup [kind : {"telnyx-speak"}, script : {"voicemail-greeting", "unavailable-notice"}]
  \cup [kind : {"push-call-end"}, reason : Outcome]
  \cup [kind : {"terminal-merge"}, outcome : Ending]
  \cup [kind : {"arm-alarm", "clear-alarm"}, alarm : AlarmKind]

IsEffect(e) == \/ e \in PlainEffect
               \/ e = Mirror(e.set) /\ IsColumns(e.set)

IsEffects(fx) ==
  LET S == {fx[i] : i \in DOMAIN fx}
  IN  fx \in Seq(S) /\ \A e \in S : IsEffect(e)

\* offset is a hash of the session modulo the number of targets.
InboundContext ==
  {ctx \in [kind : {"vm", "suspended", "cap", "ring"}, targets : Seq(User),
            audience : SUBSET User, inTurn : BOOLEAN, offset : Nat, fits : BOOLEAN,
            noticeAllowed : BOOLEAN] : ctx.offset <= Len(ctx.targets)}

Placement ==
  [kind : {"mint", "busy", "lapsed"}, placer : User, credential : BOOLEAN]

\* What Telnyx reports, what the effects' outcomes report, and the requests and
\* alarms; minting events are apart.
Webhook ==
  [type : {"member-leg-answered", "member-leg-hangup",
           "outbound-placer-answered", "outbound-placer-hangup"}, leg : LegId, user : Maybe(User)]
  \cup [type : {"inbound-hangup"}, tag : {"untagged", "bri", "vmi"}, merged : Ending]
  \cup [type : {"outbound-hangup"}, merged : Ending]
  \cup [type : {"outbound-answered", "speak-ended", "recording-saved"}]

FollowUp ==
  [type : {"answer-outcome", "member-probe-outcome"}, ok : BOOLEAN, leg : LegId, user : Maybe(User)]
  \cup [type : {"notice-answer-outcome", "vm-answer-outcome"}, ok : BOOLEAN]
  \cup [type : {"push-fanout-settled"}, unreachable : SUBSET User]
  \cup [type : {"dial-outcome"}, leg : LegId, outcome : {"ccid", "known-dead", "ambiguous"}]
  \cup [type : {"inbound-leg-gone"}]

Asked ==
  [type : {"ring-me"}, user : User, noLocalLeg : BOOLEAN, recent : BOOLEAN]
  \cup [type : {"decline", "set-owner"}, user : User]
  \cup [type : {"register-intent", "clear-intent", "alarm-intent-expiry", "alarm-ring",
                "alarm-janitor"}]
  \cup [type : {"alarm-ring-step"}, fits : BOOLEAN]

Mint ==
  [type : {"initiated"}, context : InboundContext]
  \cup [type : {"outbound-initiated"}, context : Placement]

Event == Webhook \cup FollowUp \cup Asked \cup Mint

Result(m, fx) == [m |-> m, fx |-> fx]
NoEffect(m)   == Result(m, <<>>)
When(b, fx)   == IF b THEN fx ELSE <<>>

\* One effect hangs up every leg of ls; with no leg to hang up there is none.
Hangups(ls) == When(ls # {}, <<HangupLegs(ls)>>)

(***************************************************************************)
(* The leg map.                                                            *)
(***************************************************************************)
LegsWith(m, statuses) == {i \in LegId : m.legs[i].status \in statuses}

liveLegs(m) == LegsWith(m, LIVE_STATUSES)

\* The ccids known for the records at positions ls.
CcidsOf(m, ls) == {m.legs[i].ccid : i \in ls} \ {NoLeg}

SetStatus(m, ls, status) ==
  [m EXCEPT !.legs = [i \in LegId |-> IF i \in ls THEN [m.legs[i] EXCEPT !.status = status]
                                                  ELSE m.legs[i]]]

First(ls) == CHOOSE i \in ls : \A j \in ls : i <= j

\* legs.find(entry => entry.ccid === ccid), NoLeg when there is none.
FindLeg(m, ccid) ==
  LET found == {i \in LegId : m.legs[i].ccid = ccid}
  IN  IF found = {} THEN NoLeg ELSE First(found)

\* §7.7: the pending or ambiguous record of the tag's member that has no ccid.
\* The destination check of §17.1 is implied: a member has one SIP credential.
Adoptable(m, user) ==
  {i \in LegId : /\ m.legs[i].ccid = NoLeg
                 /\ m.legs[i].status \in {"dialing", "ambiguous"}
                 /\ m.legs[i].user = user}

Stamp(m, i, ccid) == [m EXCEPT !.legs[i].ccid = ccid]

\* legs.push(...): the record a dial mints, at position dialed + 1.
PushLeg(m, user, ringMe) ==
  [m EXCEPT !.dialed = @ + 1,
            !.legs[m.dialed + 1] =
               [user |-> user, status |-> "dialing", ccid |-> NoLeg, ringMe |-> ringMe]]

\* dialLegFor over every target of a sequence that fits under the cap.
PushLegs(m, targets) ==
  [m EXCEPT !.dialed = Len(targets),
            !.legs = [i \in LegId |->
               IF i <= Len(targets)
               THEN [user |-> targets[i], status |-> "dialing", ccid |-> NoLeg, ringMe |-> FALSE]
               ELSE UnusedLeg]]

(***************************************************************************)
(* Shared endings.                                                         *)
(***************************************************************************)
cancelAllLiveLegs(m) ==
  LET ls == LegsWith(m, {"dialing", "ringing"})
  IN  Result(SetStatus(m, ls, "canceling"), Hangups(CcidsOf(m, ls)))

vmEntry(m) ==
  Result([m EXCEPT !.state = "voicemail_greeting", !.queue = {}],
         << Mirror([state |-> "voicemail_greeting"]), Clear("ring"), Clear("ring-step"),
            AnswerVm, PushCallEnd("voicemail") >>)

NoAvenue(m) == liveLegs(m) = {} /\ m.queue = {} /\ m.push = {}

runAvenueLadder(m) ==
  IF m.state = "ringing" /\ NoAvenue(m) THEN vmEntry(m) ELSE NoEffect(m)

\* answeredPlacerCcid: the answered records with a ccid.
answeredPlacer(m) == {i \in LegsWith(m, {"answered"}) : m.legs[i].ccid # NoLeg}

\* #213 H1: the placer's answered leg, which no bridge may tear down for us.
Variant_PlacerToReap_none(m) == {}

PlacerToReap(m) == IF m.direction = "outbound" THEN answeredPlacer(m) ELSE {}

\* target: the terminal state; merged: the outcome the terminal merge carries;
\* reason: the call_end reason or "null"; extra: further mirror columns.
terminalize(m, target, merged, reason, extra) ==
  LET cut  == cancelAllLiveLegs([m EXCEPT !.state = target])
      op   == PlacerToReap(m)
  IN  Result(SetStatus(cut.m, op, "dead"),
             cut.fx \o Hangups(CcidsOf(m, op))
               \o << Mirror(Written([state |-> target], extra)), TerminalMerge(merged) >>
               \o When(m.state = "ringing" /\ reason # "null", <<PushCallEnd(reason)>>)
               \o When(~isTerminal(m.state),
                       <<Clear("ring"), Clear("ring-step"), Clear("fanout-settle"), Arm("purge")>>))

MissedState(m) == IF m.rejectedForCap THEN "ended_rejected" ELSE "ended_missed"

OwnerColumns(m) ==
  IF m.owner = NoUser THEN NoColumns
  ELSE [answered_by_user_id |-> m.owner, answered_at |-> m.answered]

ownerDeathTeardown(m) ==
  Result([m EXCEPT !.ownerLegDead = NoUser], <<HangupCustomer>>)

(***************************************************************************)
(* T1: initiated.  context.kind is the arm taken: "vm" (line busy, screening*)
(* divert or after hours), "suspended", "cap", or "ring".                  *)
(***************************************************************************)
armRingStep(m, fits) == When(m.queue # {} /\ fits, <<Arm("ring-step")>>)

rotateForFairness(items, offset) ==
  SubSeq(items, offset + 1, Len(items)) \o SubSeq(items, 1, offset)

RingTargets(ctx) ==
  IF Len(ctx.targets) > MaxLegs
  THEN SubSeq(rotateForFairness(ctx.targets, ctx.offset), 1, MaxLegs)
  ELSE ctx.targets

ringStart(base, ctx) ==
  LET targets == RingTargets(ctx)
      now     == IF ctx.inTurn /\ Len(targets) > 1 THEN 1 ELSE Len(targets)
      m       == [PushLegs(base, SubSeq(targets, 1, now))
                    EXCEPT !.order = targets,
                           !.queue = {targets[i] : i \in (now + 1) .. Len(targets)}]
  IN  Result(m, << Arm("janitor"), Mirror([state |-> "ringing"]) >>
                  \o When(now > 0, <<Dial(1, now)>>)
                  \o << PushFanout, Arm("fanout-settle"), Arm("ring") >>
                  \o armRingStep(m, ctx.fits))

reduceInitiated(ctx) ==
  LET base == [NoMachine EXCEPT !.state = "ringing", !.push = ctx.audience]
      vm   == vmEntry(base)
  IN  CASE ctx.kind = "vm" ->
             Result(vm.m, <<Arm("janitor")>> \o vm.fx)
        [] ctx.kind = "suspended" ->
             Result([base EXCEPT !.noticeSpoken = ctx.noticeAllowed],
                    << Arm("janitor"),
                       Mirror([state |-> "ringing", notice_spoken |-> ctx.noticeAllowed]) >>
                      \o When(ctx.noticeAllowed, <<AnswerNotice>>))
        [] ctx.kind = "cap" ->
             Result([base EXCEPT !.rejectedForCap = TRUE],
                    << Arm("janitor"), Reject, Mirror([state |-> "ringing"]) >>)
        [] ctx.kind = "ring" /\ ctx.targets = <<>> /\ ctx.audience = {} ->
             Result(vm.m, <<Arm("janitor")>> \o vm.fx)
        [] OTHER -> ringStart(base, ctx)

(***************************************************************************)
(* T2: a member's leg answered, and what the answer of the customer's leg  *)
(* then said.                                                              *)
(***************************************************************************)
HangupStray(m, ccid) == Result(m, Hangups({ccid}))

\* The record for the event's ccid, adopting a pending one where that is licensed.
Located(m, ev, adopting) ==
  LET own == FindLeg(m, ev.leg)
      new == Adoptable(m, ev.user)
  IN  IF own # NoLeg THEN [m |-> m, leg |-> own]
      ELSE IF adopting /\ new # {} THEN [m |-> Stamp(m, First(new), ev.leg), leg |-> First(new)]
      ELSE [m |-> m, leg |-> NoLeg]

AnswerFor(m, ccid, user) ==
  Result([m EXCEPT !.answerIntent = user], <<AnswerInbound(ccid, user)>>)

reduceMemberAnswered(m0, ev) ==
  LET at      == Located(m0, ev, m0.state = "ringing")
      leg     == at.leg
      revived == leg # NoLeg /\ m0.legs[leg].ccid = NoLeg /\ m0.legs[leg].status = "ambiguous"
      m       == SetStatus(at.m, IF revived THEN {leg} ELSE {}, "ringing")
  IN  IF leg = NoLeg THEN HangupStray(m0, ev.leg)
      ELSE IF m.state # "ringing" /\ ~isTerminal(m.state) THEN HangupStray(m, ev.leg)
      ELSE IF m.state # "ringing" \/ m.legs[leg].status \notin LIVE_STATUSES THEN NoEffect(m)
      ELSE IF m.legs[leg].status = "canceling" THEN Result(m, <<Probe(ev.leg, ev.user)>>)
      ELSE AnswerFor(m, ev.leg, ev.user)

answerLost(m, ev) ==
  LET leg  == FindLeg(m, ev.leg)
      cut  == IF leg # NoLeg /\ m.legs[leg].status # "dead" THEN {leg} ELSE {}
      over == terminalize(SetStatus(m, cut, "canceling"),
                          MissedState(m), "missed", "missed", NoColumns)
  IN  Result(over.m, When(cut # {}, Hangups({ev.leg})) \o over.fx)

answerWon(m, ev) ==
  LET losers == {i \in LegsWith(m, {"dialing", "ringing"}) : m.legs[i].ccid # ev.leg}
      winner == {FindLeg(m, ev.leg)} \ {NoLeg}
  IN  Result([SetStatus(SetStatus(m, losers, "canceling"), winner, "answered")
                EXCEPT !.state = "answered", !.owner = ev.user, !.answered = TRUE,
                       !.answerIntent = NoUser],
             << Mirror([state |-> "answered", answered_by_user_id |-> ev.user,
                        answered_at |-> TRUE]),
                Bridge(ev.leg) >>
               \o Hangups(CcidsOf(m, losers))
               \o << Clear("ring"), Clear("fanout-settle"), PushCallEnd("answered") >>)

reduceAnswerOutcome(m, ev) ==
  IF m.state # "ringing" THEN NoEffect(m)
  ELSE IF ev.ok THEN answerWon(m, ev) ELSE answerLost(m, ev)

reduceProbeOutcome(m, ev) ==
  LET leg == FindLeg(m, ev.leg)
  IN  IF m.state # "ringing" \/ leg = NoLeg THEN NoEffect(m)
      ELSE IF ev.ok THEN AnswerFor(m, ev.leg, ev.user)
      ELSE runAvenueLadder(SetStatus(m, {leg}, "dead"))

(***************************************************************************)
(* T3 / T7: a member's leg hung up.                                        *)
(***************************************************************************)
reduceMemberHangup(m0, ev) ==
  LET at   == Located(m0, ev, m0.state = "ringing")
      leg  == at.leg
      dead == SetStatus(at.m, {leg}, "dead")
  IN  IF leg = NoLeg THEN NoEffect(m0)
      ELSE IF m0.state = "ringing" THEN runAvenueLadder(dead)
      ELSE IF m0.state # "answered" \/ m0.legs[leg].status # "answered" \/ m0.owner # ev.user
           THEN NoEffect(dead)
      ELSE IF m0.intent THEN NoEffect([dead EXCEPT !.ownerLegDead = ev.user])
      ELSE ownerDeathTeardown(dead)

(***************************************************************************)
(* T5 / T8 / T12 / T17 and the upgrade edge: the customer's leg hung up.   *)
(* ev.merged is the outcome the terminal delegate derives from the payload.*)
(***************************************************************************)
StampFromIntent(m) == [m EXCEPT !.owner = m.answerIntent, !.answered = TRUE]

briUpgrade(m, ev) ==
  LET up == [IF m.answerIntent # NoUser THEN StampFromIntent(m) ELSE m
               EXCEPT !.state = "ended_answered"]
  IN  Result(up, << Mirror(Written([state |-> "ended_answered"], OwnerColumns(up))),
                    TerminalMerge(ev.merged) >>)

\* Stamps the answer intent over an owner that is already known.
Variant_briHangup_restamps(m, ev) ==
  terminalize(StampFromIntent(m), "ended_answered", ev.merged, "answered", NoColumns)

briHangup(m, ev) ==
  LET by == IF m.owner = NoUser /\ m.answerIntent # NoUser THEN StampFromIntent(m) ELSE m
  IN  terminalize(by, "ended_answered", ev.merged, "answered", OwnerColumns(by))

\* Leaves a hangup during the recording to the recording's own webhook.
Variant_reduceInboundHangup_awaitsRecording(m, ev) ==
  IF isTerminal(m.state) \/ m.state = "voicemail_recording" THEN NoEffect(m)
  ELSE IF ev.tag = "bri" THEN briHangup(m, ev)
  ELSE terminalize(m, MissedState(m), ev.merged, "missed", NoColumns)

reduceInboundHangup(m, ev) ==
  IF isTerminal(m.state)
  THEN IF ev.tag = "bri" /\ m.state = "ended_missed" THEN briUpgrade(m, ev) ELSE NoEffect(m)
  ELSE CASE ev.tag = "bri" -> briHangup(m, ev)
         [] ev.tag = "vmi" -> terminalize(m, "ended_missed", ev.merged, "missed", NoColumns)
         [] ev.tag = "untagged" ->
              IF m.state = "answered"
              THEN terminalize(m, "ended_answered", ev.merged, "null", NoColumns)
              ELSE IF m.state \in {"voicemail_greeting", "voicemail_recording"}
              THEN terminalize(m, "ended_missed", ev.merged, "null", NoColumns)
              ELSE terminalize(m, MissedState(m), ev.merged, "missed", NoColumns)

\* #208 F4: a terminal hangup of the customer's leg found it already gone.
reduceInboundLegGone(m) ==
  IF m.state # "answered" THEN NoEffect(m)
  ELSE terminalize(m, "ended_answered", "answered", "null", NoColumns)

(***************************************************************************)
(* Voicemail and the suspended-line notice.                                *)
(***************************************************************************)
\* Records whenever something was spoken, whatever happened meanwhile.
Variant_reduceSpeakEnded_anyState(m) ==
  Result([m EXCEPT !.state = "voicemail_recording"],
         << Mirror([state |-> "voicemail_recording"]), RecordStart >>)

reduceSpeakEnded(m) ==
  IF m.noticeSpoken THEN Result(m, <<HangupCustomer>>)
  ELSE IF m.state # "voicemail_greeting" THEN NoEffect(m)
  ELSE Result([m EXCEPT !.state = "voicemail_recording"],
              << Mirror([state |-> "voicemail_recording"]), RecordStart >>)

\* Misses the upgrade of a call whose caller hung up before the recording came.
Variant_reduceRecordingSaved_liveOnly(m) ==
  IF m.state # "voicemail_recording" THEN NoEffect(m)
  ELSE Result([m EXCEPT !.state = "ended_voicemail"],
              << VoicemailPipeline, Mirror([state |-> "ended_voicemail"]), Arm("purge") >>)

reduceRecordingSaved(m) ==
  IF m.state \notin {"voicemail_recording", "ended_missed"} THEN NoEffect(m)
  ELSE Result([m EXCEPT !.state = "ended_voicemail"],
              << VoicemailPipeline, Mirror([state |-> "ended_voicemail"]) >>
                \o When(m.state = "voicemail_recording", <<Arm("purge")>>))

reduceNoticeAnswerOutcome(m, ev) ==
  IF ~m.noticeSpoken THEN NoEffect(m)
  ELSE IF ev.ok THEN Result(m, <<Speak("unavailable-notice")>>)
  ELSE Result([m EXCEPT !.noticeSpoken = FALSE], <<Mirror([notice_spoken |-> FALSE])>>)

\* Greets the caller while the members' phones keep ringing.
Variant_reduceVmAnswerOutcome_noSweep(m, ev) ==
  IF m.state # "voicemail_greeting" THEN NoEffect(m)
  ELSE IF ev.ok THEN Result(m, <<Speak("voicemail-greeting")>>)
  ELSE terminalize(m, MissedState(m), "missed", "null", NoColumns)

reduceVmAnswerOutcome(m, ev) ==
  LET cut == cancelAllLiveLegs(m)
  IN  IF m.state # "voicemail_greeting" THEN NoEffect(m)
      ELSE IF ev.ok THEN Result(cut.m, <<Speak("voicemail-greeting")>> \o cut.fx)
      ELSE terminalize(m, MissedState(m), "missed", "null", NoColumns)

(***************************************************************************)
(* Dial outcomes and the push settle.                                      *)
(***************************************************************************)
reduceDialOutcome(m, ev) ==
  LET leg     == m.legs[ev.leg]
      stamped == SetStatus(Stamp(m, ev.leg, ev.leg),
                           IF leg.status = "dialing" THEN {ev.leg} ELSE {}, "ringing")
      failed  == SetStatus(m, {ev.leg}, IF ev.outcome = "ambiguous" THEN "ambiguous" ELSE "dead")
      over    == terminalize(failed, "ended_missed", "missed", "null", NoColumns)
  IN  IF leg.status = "unused" \/ leg.ccid # NoLeg THEN NoEffect(m)
      ELSE IF ev.outcome = "ccid" THEN NoEffect(stamped)
      ELSE IF m.direction = "inbound" THEN runAvenueLadder(failed)
      ELSE IF ev.outcome = "ambiguous" \/ isTerminal(m.state) THEN NoEffect(failed)
      ELSE Result(over.m, over.fx \o <<HangupCustomer>>)

\* Prunes the unreachable members without asking the ladder again.
Variant_reducePushFanoutSettled_noLadder(m, ev) ==
  Result([m EXCEPT !.push = @ \ ev.unreachable], <<Clear("fanout-settle")>>)

reducePushFanoutSettled(m, ev) ==
  LET res == runAvenueLadder([m EXCEPT !.push = @ \ ev.unreachable])
  IN  Result(res.m, <<Clear("fanout-settle")>> \o res.fx)

(***************************************************************************)
(* T4 ring-me and #171 decline.                                            *)
(***************************************************************************)
\* Dials past the cap.
Variant_reduceRingMe_noCap(m, ev) ==
  IF m.state # "ringing" \/ ev.user \in m.declined THEN NoEffect(m)
  ELSE Result(PushLeg(m, ev.user, TRUE), <<Dial(m.dialed + 1, m.dialed + 1)>>)

\* Cancels the member's other legs first.
Variant_reduceRingMe_supersedes(m, ev) ==
  LET mine == {i \in liveLegs(m) : m.legs[i].user = ev.user}
      next == PushLeg(SetStatus(m, mine, "canceling"), ev.user, TRUE)
  IN  IF m.state # "ringing" \/ ev.user \in m.declined \/ m.dialed >= MaxLegs THEN NoEffect(m)
      ELSE Result(next, Hangups(CcidsOf(m, mine)) \o <<Dial(next.dialed, next.dialed)>>)

\* Rings a member who said no.
Variant_reduceRingMe_decliner(m, ev) ==
  IF m.state # "ringing" \/ m.dialed >= MaxLegs THEN NoEffect(m)
  ELSE Result(PushLeg(m, ev.user, TRUE), <<Dial(m.dialed + 1, m.dialed + 1)>>)

reduceRingMe(m, ev) ==
  LET live == {i \in liveLegs(m) : m.legs[i].user = ev.user}
  IN  IF \/ m.state # "ringing"
         \/ ev.user \in m.declined
         \/ ~ev.noLocalLeg /\ live # {}
         \/ ev.noLocalLeg /\ ev.recent /\ \E i \in live : m.legs[i].ringMe
         \/ m.dialed >= MaxLegs
      THEN NoEffect(m)
      ELSE Result(PushLeg(m, ev.user, TRUE), <<Dial(m.dialed + 1, m.dialed + 1)>>)

wasRingTarget(m, user) ==
  \/ \E i \in LegId : m.legs[i].user = user
  \/ user \in m.queue \cup m.push \cup m.declined

reduceDecline(m, ev) ==
  IF m.state # "ringing" \/ ~wasRingTarget(m, ev.user) THEN NoEffect(m)
  ELSE LET mine == {i \in liveLegs(m) : m.legs[i].user = ev.user}
           res  == runAvenueLadder(
                     [SetStatus(m, mine, "dead")
                        EXCEPT !.declined = @ \cup {ev.user},
                               !.push     = @ \ {ev.user},
                               !.queue    = @ \ {ev.user}])
       IN  Result(res.m, Hangups(CcidsOf(m, mine)) \o res.fx)

(***************************************************************************)
(* Owner and intent (§7.4).                                                *)
(***************************************************************************)
reduceSetOwner(m, ev) ==
  Result([m EXCEPT !.owner = ev.user, !.ownerLegDead = NoUser],
         <<Mirror([answered_by_user_id |-> ev.user])>>)

reduceRegisterIntent(m) ==
  Result([m EXCEPT !.intent = TRUE], <<Arm("intent-expiry")>>)

\* Clears the intent without the teardown it held back.
Variant_reduceClearIntent_forgets(m) ==
  Result([m EXCEPT !.intent = FALSE, !.ownerLegDead = NoUser], <<Clear("intent-expiry")>>)

reduceClearIntent(m) ==
  LET cleared == [m EXCEPT !.intent = FALSE]
      down    == ownerDeathTeardown(cleared)
  IN  IF m.state = "answered" /\ m.ownerLegDead # NoUser /\ m.ownerLegDead = m.owner
      THEN Result(down.m, <<Clear("intent-expiry")>> \o down.fx)
      ELSE Result([cleared EXCEPT !.ownerLegDead = NoUser], <<Clear("intent-expiry")>>)

(***************************************************************************)
(* Alarms.                                                                 *)
(***************************************************************************)
reduceAlarmRing(m) == IF m.state = "ringing" THEN vmEntry(m) ELSE NoEffect(m)

\* The member of users who comes first in the ring order.
Foremost(order, users) ==
  LET at == {i \in DOMAIN order : order[i] \in users} IN order[First(at)]

reduceAlarmRingStep(m, ev) ==
  LET waiting == m.queue \ m.declined
      user    == Foremost(m.order, waiting)
      popped  == [m EXCEPT !.queue = waiting \ {user}]
      next    == PushLeg(popped, user, FALSE)
  IN  IF m.state # "ringing" THEN NoEffect(m)
      ELSE IF waiting = {}
      THEN IF m.queue # {} THEN runAvenueLadder([m EXCEPT !.queue = {}]) ELSE NoEffect(m)
      ELSE IF m.dialed >= MaxLegs THEN NoEffect(popped)
      ELSE Result(next, <<Dial(next.dialed, next.dialed)>> \o armRingStep(next, ev.fits))

\* Leaves answered calls alone.
Variant_reduceAlarmJanitor_missedOnly(m) ==
  IF isTerminal(m.state) \/ m.state = "answered" THEN NoEffect(m)
  ELSE terminalize(m, MissedState(m), "missed", "null", NoColumns)

reduceAlarmJanitor(m) ==
  CASE isTerminal(m.state)    -> NoEffect(m)
    [] m.state = "ringing"    -> terminalize(m, MissedState(m), "missed", "missed", NoColumns)
    [] m.state = "answered"   -> terminalize(m, "ended_answered", "answered", "null", NoColumns)
    [] OTHER                  -> terminalize(m, "ended_missed", "missed", "null", NoColumns)

(***************************************************************************)
(* Outbound (T-O1 .. T-O5).                                                *)
(***************************************************************************)
reduceOutboundInitiated(ctx) ==
  LET base == [NoMachine EXCEPT !.state = "dialing", !.direction = "outbound",
                                !.owner = ctx.placer]
      opening == << Mirror([state |-> "dialing", answered_by_user_id |-> ctx.placer]),
                    Arm("janitor") >>
  IN  IF ctx.credential
      THEN Result(PushLeg(base, ctx.placer, FALSE), opening \o <<DialPlacer(1)>>)
      ELSE Result(base, opening)

\* Forgets a placer who was quicker than the customer.
Variant_reduceOutboundAnswered_noBridge(m) ==
  IF m.direction # "outbound" \/ m.state # "dialing" THEN NoEffect(m)
  ELSE Result([m EXCEPT !.state = "answered", !.answered = TRUE],
              <<Mirror([state |-> "answered", answered_at |-> TRUE])>>)

reduceOutboundAnswered(m) ==
  IF m.direction # "outbound" \/ m.state # "dialing" THEN NoEffect(m)
  ELSE Result([m EXCEPT !.state = "answered", !.answered = TRUE],
              <<Mirror([state |-> "answered", answered_at |-> TRUE])>>
                \o When(answeredPlacer(m) # {},
                        <<Bridge(m.legs[First(answeredPlacer(m))].ccid)>>))

reduceOutboundPlacerAnswered(m0, ev) ==
  LET at  == Located(m0, ev, TRUE)
      leg == at.leg
  IN  IF m0.direction # "outbound" \/ isTerminal(m0.state) \/ leg = NoLeg
      THEN HangupStray(m0, ev.leg)
      ELSE IF at.m.legs[leg].status = "answered" THEN NoEffect(at.m)
      ELSE Result(SetStatus(at.m, {leg}, "answered"), <<Bridge(ev.leg)>>)

reduceOutboundPlacerHangup(m0, ev) ==
  LET m    == SetStatus(m0, {FindLeg(m0, ev.leg)} \ {NoLeg}, "dead")
      over == terminalize(m, "ended_missed", "missed", "null", NoColumns)
  IN  IF isTerminal(m0.state) THEN NoEffect(m0)
      ELSE IF m0.owner \notin {NoUser, ev.user} THEN NoEffect(m)
      ELSE IF m0.state # "answered" THEN Result(over.m, over.fx \o <<HangupCustomer>>)
      ELSE IF m0.intent THEN NoEffect([m EXCEPT !.ownerLegDead = ev.user])
      ELSE ownerDeathTeardown(m)

reduceOutboundHangup(m, ev) ==
  IF isTerminal(m.state) THEN NoEffect(m)
  ELSE terminalize(m, IF m.answered THEN "ended_answered" ELSE "ended_missed",
                   ev.merged, "null", NoColumns)

(***************************************************************************)
(* The dispatcher.                                                         *)
(***************************************************************************)
handle(m, ev) ==
  CASE ev.type = "member-leg-answered"      -> reduceMemberAnswered(m, ev)
    [] ev.type = "member-leg-hangup"        -> reduceMemberHangup(m, ev)
    [] ev.type = "inbound-hangup"           -> reduceInboundHangup(m, ev)
    [] ev.type = "outbound-answered"        -> reduceOutboundAnswered(m)
    [] ev.type = "outbound-hangup"          -> reduceOutboundHangup(m, ev)
    [] ev.type = "outbound-placer-answered" -> reduceOutboundPlacerAnswered(m, ev)
    [] ev.type = "outbound-placer-hangup"   -> reduceOutboundPlacerHangup(m, ev)
    [] ev.type = "speak-ended"              -> reduceSpeakEnded(m)
    [] ev.type = "recording-saved"          -> reduceRecordingSaved(m)
    [] ev.type = "ring-me"                  -> reduceRingMe(m, ev)
    [] ev.type = "decline"                  -> reduceDecline(m, ev)
    [] ev.type = "set-owner"                -> reduceSetOwner(m, ev)
    [] ev.type = "register-intent"          -> reduceRegisterIntent(m)
    [] ev.type = "clear-intent"             -> reduceClearIntent(m)
    [] ev.type = "alarm-intent-expiry"      -> reduceClearIntent(m)
    [] ev.type = "alarm-ring-step"          -> reduceAlarmRingStep(m, ev)
    [] ev.type = "alarm-ring"               -> reduceAlarmRing(m)
    [] ev.type = "alarm-janitor"            -> reduceAlarmJanitor(m)
    [] ev.type = "answer-outcome"           -> reduceAnswerOutcome(m, ev)
    [] ev.type = "notice-answer-outcome"    -> reduceNoticeAnswerOutcome(m, ev)
    [] ev.type = "vm-answer-outcome"        -> reduceVmAnswerOutcome(m, ev)
    [] ev.type = "push-fanout-settled"      -> reducePushFanoutSettled(m, ev)
    [] ev.type = "dial-outcome"             -> reduceDialOutcome(m, ev)
    [] ev.type = "inbound-leg-gone"         -> reduceInboundLegGone(m)
    [] ev.type = "member-probe-outcome"     -> reduceProbeOutcome(m, ev)

\* Only the initiated events mint, and only where there is no machine; without
\* a machine every other event is a no-op.
reduce(m, ev) ==
  IF isNone(m)
  THEN CASE ev.type = "initiated"          -> reduceInitiated(ev.context)
         [] ev.type = "outbound-initiated" -> reduceOutboundInitiated(ev.context)
         [] OTHER                          -> NoEffect(m)
  ELSE IF ev.type \in {"initiated", "outbound-initiated"} THEN NoEffect(m)
  ELSE handle(m, ev)
================================================================================
