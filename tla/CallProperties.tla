---------------------------- MODULE CallProperties ----------------------------
(***************************************************************************)
(* What a call session promises: the properties of CallSession.            *)
(***************************************************************************)
EXTENDS CallSession

(***************************************************************************)
(* TypeOK: every durable record, journaled event and effect, the row and   *)
(* the provider's legs keep their shape across cascades, crashes, adoption *)
(* and purge (the journal of session-do.ts:555-676 replays stored effects, *)
(* so what is stored must stay executable).                                *)
(***************************************************************************)
JournalOK(j) ==
  /\ DOMAIN j = {"open", "event", "reduced", "fx", "rest"}
  /\ j.open \in BOOLEAN /\ j.reduced \in BOOLEAN
  /\ j.event \in Event \cup {NoEvent}
  /\ j.open => j.event \in Event
  /\ IsEffects(j.fx)
  /\ j.rest \in Seq(FollowUp)
  /\ j.reduced <=> j.fx # <<>>

Row ==
  [exists : BOOLEAN, direction : {"inbound", "outbound"}, state : CallStates \cup {"null"},
   outcome : Outcome \cup {"null"}, answered_by_user_id : Maybe(User),
   answered_at : BOOLEAN, notice_spoken : BOOLEAN, voicemail_path : BOOLEAN]

Customer ==
  [direction : {"inbound", "outbound"}, leg : {"ringing", "live", "gone"},
   tag : {"untagged", "bri", "vmi"}, media : {"none", "greeting", "notice", "recording"},
   peer : LegId \cup {NoLeg, ConsultLeg}]

Hook == Webhook \cup [type : Initiations]

Running == {"gated", "dialing", "consulting", "stamped", "owned", "cleared", "restored"}

TypeOK ==
  /\ MachineOK(machine)
  /\ JournalOK(journal)
  /\ seen \in SUBSET Hook
  /\ alarms \in SUBSET AlarmSlot
  /\ IsColumns(pending.set) /\ pending.attempts \in Nat
  /\ row \in Row
  /\ customer \in Customer
  /\ wlegs \in [LegId -> WorldLeg]
  /\ net \in SUBSET Hook
  /\ consult \in {NoConsult} \cup [step : Running, sender : User, target : User]
  /\ spent \in [BudgetKind -> Nat]
  /\ hist \in [ended : BOOLEAN, minted : BOOLEAN, unkept : BOOLEAN, forgot : BOOLEAN]

(***************************************************************************)
(* Vocabulary.                                                             *)
(***************************************************************************)
Resting     == Drained /\ ~isNone(machine)
Over        == isTerminal(machine.state)

\* At rest, and the first session of its call.  (An object that was purged before
\* the row said how the call ended may mint or take up the call a second time, and
\* nothing here tells the legs of the two sessions apart.)
FirstSession == Resting /\ ~hist.forgot

\* The machine's record for the provider's leg i, if it knows the leg.
RecordsOf(i) == {j \in LegId : machine.legs[j].ccid = i}

\* The object holds the session it minted, not one it took from the row.
Minted == FirstSession /\ hist.minted

HangupReported ==
  \E w \in seen : w.type \in {"inbound-hangup", "outbound-hangup"}

(***************************************************************************)
(* HangupAlwaysEnds (T5, T8, T12, T17: transitions.ts:1975-2122,           *)
(* 1751-1774).  In whatever state the hangup of the customer's leg finds   *)
(* the session, and whatever tag it carries, the session is over once its  *)
(* cascade has drained: no late answer, alarm or stale event brings it back.*)
(***************************************************************************)
HangupAlwaysEnds == Resting /\ HangupReported => Over

(***************************************************************************)
(* NoGhostRing (cancelAllLiveLegs, answerWon, vm-answer-outcome).  Once an  *)
(* inbound call is answered or taken to voicemail, or any call is over, no  *)
(* member's phone that the machine knows of is still ringing or connected,  *)
(* except the one that was answered.                                        *)
(***************************************************************************)
RingIsOver ==
  \/ Over
  \/ /\ machine.direction = "inbound"
     /\ machine.state \in {"answered", "voicemail_greeting", "voicemail_recording"}

NoGhostRing ==
  FirstSession /\ RingIsOver
    => \A i \in LegId : RecordsOf(i) # {} /\ wlegs[i].status \in Up
         => \E j \in RecordsOf(i) : machine.legs[j].status = "answered"

(***************************************************************************)
(* NoLegOutlivesCall (terminalize, transitions.ts:770-818).  When a session *)
(* is over and drained and its customer is gone, no member's leg it knows   *)
(* of is still up: not one that rang, not one that was given up, and of a   *)
(* placed call not the placer's either.                                     *)
(***************************************************************************)
LegsUp(statuses) ==
  {i \in LegId : wlegs[i].status \in Up /\ \E j \in RecordsOf(i) : machine.legs[j].status \in statuses}

NoLegOutlivesCall ==
  FirstSession /\ Over /\ customer.leg = "gone"
    => LegsUp(IF machine.direction = "inbound" THEN LegStatus \ {"answered"} ELSE LegStatus) = {}

(***************************************************************************)
(* AnsweredLegsAutoTear (transitions.ts:793: "Inbound answered member legs  *)
(* auto-tear via their bridge").  The one leg terminalize leaves alone is   *)
(* down too.                                                                *)
(***************************************************************************)
AnsweredLegsAutoTear ==
  Resting /\ Over /\ customer.leg = "gone" /\ machine.direction = "inbound"
    => LegsUp({"answered"}) = {}

(***************************************************************************)
(* DeclinedNeverRung (#171, transitions.ts:1015-1050, 2124-2359).  No step  *)
(* dials a member who declined this call: not ring-me, not a ring step that *)
(* was queued before the decline, not a dial journaled before it.           *)
(***************************************************************************)
DeclinedNeverRung ==
  [][\A i \in LegId : wlegs[i].status = "none" /\ wlegs'[i].status = "ringing"
        => wlegs'[i].user \notin machine.declined]_vars

(***************************************************************************)
(* RingingHasAvenue (runAvenueLadder, transitions.ts:752-765).  While the   *)
(* ring deadline is running the caller is waiting for somebody: a leg that  *)
(* rings, a member still to be rung, or a member a push may wake.  (A ring  *)
(* step that meets the cap of legs drops its member without asking the      *)
(* ladder, so a session that has dialed the cap may ring on for nobody.)    *)
(***************************************************************************)
RingingHasAvenue ==
  FirstSession /\ machine.state = "ringing" /\ "ring" \in alarms
    => ~NoAvenue(machine) \/ machine.dialed = MaxLegs

(***************************************************************************)
(* RingingCancelsNobody (T4 "ring-me never cancels anything"; T2 calls a    *)
(* canceling leg in a ringing session unreachable).  While the call rings,  *)
(* no leg has been given up: the answer of any phone that still presents    *)
(* the call can win it.                                                     *)
(***************************************************************************)
RingingCancelsNobody ==
  machine.state = "ringing" => LegsWith(machine, {"canceling"}) = {}

(***************************************************************************)
(* FirstAnswerWins (T2, T11).  Once a member has the call, only set-owner   *)
(* changes who has it: neither a second member's answer, nor its outcome    *)
(* arriving late, nor a hangup that stamps the answer intent.               *)
(***************************************************************************)
FirstAnswerWins ==
  [][~isNone(machine) /\ machine.owner # NoUser /\ ~isNone(machine') /\ ~hist.forgot
       => machine'.owner \in {machine.owner} \cup
            (IF journal.event.type = "set-owner" THEN {journal.event.user} ELSE {})]_vars

(***************************************************************************)
(* VoicemailKept (T10, T13 and the voicemail-wins merge).  Once at rest, a  *)
(* call with a voicemail in our storage says so, and the recording that was *)
(* admitted is in our storage unless nothing of it could be kept: also when *)
(* the caller's hangup, the janitor, a failed write or a pass of the        *)
(* pipeline that died half way got there first.                             *)
(***************************************************************************)
VoicemailKept ==
  FirstSession
    => /\ row.voicemail_path => row.outcome = "voicemail"
       /\ [type |-> "recording-saved"] \in seen => row.voicemail_path \/ hist.unkept

(***************************************************************************)
(* LineFreed (#208, #209).  When a session is over and drained its row      *)
(* carries an outcome, so it cannot hold the line as busy.  Where nothing   *)
(* of the recording was kept it is the terminal write that brings the       *)
(* outcome, so the row may be without one until that write has landed; but  *)
(* a row with a terminal state never is.                                    *)
(***************************************************************************)
LineFreed ==
  /\ isTerminal(row.state) => row.outcome # "null"
  /\ Resting /\ Over => row.outcome # "null" \/ hist.unkept

(***************************************************************************)
(* RowAgrees (mirror with retry, session-do.ts:1105-1182).  When nothing is *)
(* owed to the row it says what the machine says, in spite of failed,       *)
(* merged, stale and repeated writes.  (A running announce-transfer writes  *)
(* the row ahead of the machine.)                                           *)
(***************************************************************************)
RowAgrees ==
  Minted /\ pending = NoPending /\ consult = NoConsult
    => /\ row.state = machine.state
       /\ row.answered_by_user_id = machine.owner
       /\ row.answered_at = machine.answered

(***************************************************************************)
(* MirrorOwedIsArmed.  A write owed to the row always has its retry alarm.  *)
(***************************************************************************)
MirrorOwedIsArmed == pending # NoPending => "mirror-retry" \in alarms

(***************************************************************************)
(* BothAnsweredAreBridged (T2, T-O2, T-O4).  An answered call whose         *)
(* customer and answering member are both on the line connects them, in     *)
(* whichever order the two answers happened and were reported.              *)
(***************************************************************************)
Holder == {i \in LegId : /\ wlegs[i].status = "live"
                         /\ \E j \in RecordsOf(i) : machine.legs[j].status = "answered"}

BothAnsweredAreBridged ==
  FirstSession /\ machine.state = "answered" /\ customer.leg = "live" /\ Holder # {}
    => customer.peer \in Holder \cup {ConsultLeg}

(***************************************************************************)
(* NoParkedCustomer (T7, §7.4).  An answered customer for whom a member's   *)
(* leg was ever created is talking to someone, unless something that ends   *)
(* the silence is on its way: a leg still ringing, the partner's webhook,   *)
(* the intent's expiry, or a running consult.                               *)
(***************************************************************************)
LegEvents == {"member-leg-hangup", "outbound-placer-hangup", "outbound-placer-answered"}

NoParkedCustomer ==
  Resting /\ machine.state = "answered" /\ customer.leg = "live" /\ customer.peer = NoLeg
    => \/ \A i \in LegId : wlegs[i].status = "none"
       \/ \E i \in LegId : wlegs[i].status = "ringing"
       \/ \E w \in net \ seen : w.type \in LegEvents
       \/ "intent-expiry" \in alarms
       \/ consult.step \notin {"idle", "gated"}

(***************************************************************************)
(* CallEndsWithCustomer (answer, bridge and hangup discrimination,          *)
(* runtime.ts:315-372).  While the janitor, which ends a session whatever   *)
(* its legs do, has not fired, the session is over only when the customer's *)
(* leg is down: no repeated command, late answer or failed dial ends the    *)
(* record of a call that goes on.                                           *)
(***************************************************************************)
CallEndsWithCustomer == Resting /\ Over /\ "janitor" \in alarms => customer.leg = "gone"

(***************************************************************************)
(* TerminalAbsorbs (T14).  A session that is over stays over; its state     *)
(* moves only along the two upgrades of a missed call.                      *)
(***************************************************************************)
TerminalAbsorbs ==
  [][Over => \/ machine'.state = machine.state
             \/ machine.state = "ended_missed" /\ machine'.state \in {"ended_answered", "ended_voicemail"}
             \/ isNone(machine')]_vars

(***************************************************************************)
(* EventuallyOver (T10, T16).  Every session that was minted ends, whatever *)
(* the parties do and although webhooks are lost: the ring alarm and the    *)
(* janitor see to it.                                                       *)
(***************************************************************************)
EventuallyOver == (\E w \in seen : w.type \in Initiations) ~> hist.ended

(***************************************************************************)
(* ImplementsLifecycle.  The session with its journal, faults, adoption and *)
(* purge implements the life of a call in CallLifecycle: phases only move   *)
(* forward, the outcome is only filled in or turned into a voicemail, and a *)
(* call that is over is never live again, not even for an object that was   *)
(* purged and takes the call up from its row, once the row knows.           *)
(***************************************************************************)
Lifecycle == INSTANCE CallLifecycle
  WITH phase <- machine.state, ended <- hist.ended, outcome <- row.outcome,
       forgot <- hist.forgot

ImplementsLifecycle == Lifecycle!Spec
================================================================================
