--------------------------- MODULE CallSession_proofs ---------------------------
(***************************************************************************)
(* Theorems about a call session, for every set of members, leg cap, ring  *)
(* context, dial result and budget of faults.                              *)
(***************************************************************************)
EXTENDS CallProperties, CallTransitions_proofs

(***************************************************************************)
(* The stored journal.                                                     *)
(***************************************************************************)
\* What an effect of each kind carries.
LEMMA EffectFields ==
  ASSUME NEW e, IsEffect(e)
  PROVE  /\ e.kind = "mirror" => IsColumns(e.set)
         /\ e.kind \in {"telnyx-dial", "telnyx-dial-placer"} => e.from \in LegId /\ e.to \in LegId
         /\ e.kind \in {"telnyx-answer-inbound", "telnyx-probe-member-leg"}
              => e.leg \in LegId /\ e.user \in Maybe(User)
         /\ e.kind = "telnyx-bridge" => e.leg \in LegId
         /\ e.kind = "telnyx-hangup" => e.legs \in SUBSET LegId
         /\ e.kind = "terminal-merge" => e.outcome \in Ending
         /\ e.kind \in {"arm-alarm", "clear-alarm"} => e.alarm \in AlarmKind
<1>1. CASE e \in PlainEffect BY <1>1 DEF PlainEffect
<1>2. CASE e = Mirror(e.set) /\ IsColumns(e.set)
  <2>1. e.kind = "mirror" BY <1>2 DEF Mirror
  <2> QED BY <1>2, <2>1
<1> QED BY <1>1, <1>2 DEF IsEffect

\* The head of a stored list is an effect and its tail a list of effects.
LEMMA EffectsTail ==
  ASSUME NEW fx, IsEffects(fx), fx # <<>>
  PROVE  IsEffect(Head(fx)) /\ IsEffects(Tail(fx))
<1>1. PICK S : fx \in Seq(S) /\ \A e \in S : IsEffect(e) BY DEF IsEffects
<1>2. Head(fx) \in S /\ Tail(fx) \in Seq(S) BY <1>1
<1>3. SomeEffects(Tail(fx)) BY <1>1, <1>2, EffectsIn
<1> QED BY <1>1, <1>2, <1>3, EffectsRange

\* The empty list of effects.
LEMMA NoEffects == IsEffects(<<>>)
  BY Effects0, EffectsRange

\* A fresh journal for an event, and an idle one.
LEMMA JournalFresh ==
  ASSUME NEW ev \in Event, NEW rest \in Seq(FollowUp)
  PROVE  JournalOK(Journal(ev)) /\ JournalOK([Journal(ev) EXCEPT !.rest = rest])
  BY NoEffects DEF JournalOK, Journal

\* The idle journal is one.
LEMMA JournalIdle == JournalOK(NoJournal)
  BY NoEffects DEF JournalOK, NoJournal

\* What an effect reports is an event.
LEMMA FollowUpIsEvent == FollowUp \subseteq Event
  BY DEF Event

\* Wherever the cursor goes next, what is stored is a journal.
LEMMA AdvancedIs ==
  ASSUME JournalOK(journal), journal.open, NEW fx, IsEffects(fx), fx # <<>> => journal.reduced,
         NEW rest \in Seq(FollowUp)
  PROVE  JournalOK(Advanced(fx, rest))
<1>1. CASE fx # <<>>
  BY <1>1 DEF Advanced, JournalOK
<1>2. CASE fx = <<>> /\ rest # <<>>
  <2>1. Head(rest) \in Event /\ Tail(rest) \in Seq(FollowUp) BY <1>2, FollowUpIsEvent
  <2> QED BY <1>2, <2>1, JournalFresh DEF Advanced
<1>3. CASE fx = <<>> /\ rest = <<>> BY <1>3, JournalIdle DEF Advanced
<1> QED BY <1>1, <1>2, <1>3

\* An effect that runs is one, and running it leaves a journal and a budget.
LEMMA ExecutingIs ==
  ASSUME TypeOK, NEW kind, Executing(kind)
  PROVE  IsEffect(Effect) /\ Effect.kind = kind /\ journal.fx # <<>>
  BY EffectsTail DEF TypeOK, JournalOK, Executing, Effect

\* A budget stays a budget when it is spent from.
LEMMA SpendIs ==
  ASSUME TypeOK, NEW kind \in BudgetKind, Spend(kind) PROVE spent' \in [BudgetKind -> Nat]
  BY DEF TypeOK, Spend

\* Passing an effect keeps the journal a journal.
LEMMA AdvanceIs ==
  ASSUME TypeOK, journal.open, journal.reduced, NEW fu \in Seq(FollowUp), Advance(fu)
  PROVE  JournalOK(journal')
<1>1. JournalOK(journal) /\ journal.fx # <<>> /\ journal.rest \in Seq(FollowUp)
  BY DEF TypeOK, JournalOK
<1>2. IsEffects(Tail(journal.fx)) BY <1>1, EffectsTail DEF JournalOK
<1>3. journal.rest \o fu \in Seq(FollowUp) BY <1>1
<1> QED BY <1>1, <1>2, <1>3, AdvancedIs DEF Advance

\* Most effects report nothing.
LEMMA NoFollowUps == <<>> \in Seq(FollowUp)
  OBVIOUS

\* Whether or not the cursor moved, journal and budgets stay typed.
LEMMA DoneIs ==
  ASSUME TypeOK, journal.open, journal.reduced, NEW fu \in Seq(FollowUp), Done(fu)
  PROVE  JournalOK(journal') /\ spent' \in [BudgetKind -> Nat]
<1>1. CASE Advance(fu) /\ UNCHANGED spent BY <1>1, AdvanceIs DEF TypeOK
<1>2. CASE Spend("replay") /\ UNCHANGED journal
  BY <1>2, SpendIs DEF TypeOK, BudgetKind
<1> QED BY <1>1, <1>2 DEF Done

(***************************************************************************)
(* The provider's side.                                                    *)
(***************************************************************************)
LEMMA LegHookIs ==
  ASSUME TypeOK, NEW i \in LegId PROVE HangupHook(i) \in Hook /\ AnsweredHook(i) \in Hook
<1>1. wlegs[i].user \in Maybe(User) BY DEF TypeOK, WorldLeg, Maybe
<1> QED BY <1>1 DEF HangupHook, AnsweredHook, placerHangup, placerAnswered, memberHangup,
                    memberAnswered, Hook, Webhook

\* The webhooks of the customer's leg.
LEMMA CustomerHookIs ==
  ASSUME TypeOK PROVE CustomerHangup \in Hook /\ MediaHook \in SUBSET Hook
<1>1. customer.tag \in {"untagged", "bri", "vmi"} BY DEF TypeOK, Customer
<1>2. CustomerHangup \in Hook BY <1>1 DEF CustomerHangup, Hook, Webhook, Ending
<1>3. MediaHook \in SUBSET Hook BY DEF MediaHook, Hook, Webhook
<1> QED BY <1>2, <1>3

\* Legs that fall stay legs.
LEMMA DropIs ==
  ASSUME TypeOK, NEW ls PROVE Drop(ls) \in [LegId -> WorldLeg]
  BY DEF TypeOK, Drop, WorldLeg

\* The bridged leg is a member's.
LEMMA BridgedIn == Bridged \in SUBSET LegId
  BY DEF Bridged

\* The end of the customer's leg.
LEMMA CustomerGoneIs ==
  ASSUME TypeOK, NEW ls \in SUBSET LegId, CustomerGone(ls)
  PROVE  customer' \in Customer /\ wlegs' \in [LegId -> WorldLeg] /\ net' \in SUBSET Hook
<1>1. customer' \in Customer BY DEF TypeOK, CustomerGone, Customer
<1>2. wlegs' \in [LegId -> WorldLeg] BY DropIs DEF CustomerGone
<1>3. net' \in SUBSET Hook BY LegHookIs, CustomerHookIs DEF TypeOK, CustomerGone
<1> QED BY <1>1, <1>2, <1>3

(***************************************************************************)
(* The row.                                                                *)
(***************************************************************************)
LEMMA NoRowIs == NoRow \in Row
  BY DEF NoRow, Row, Maybe

\* The row a claim creates is a row.
LEMMA ClaimedRowIs == ASSUME TypeOK PROVE ClaimedRow \in Row
  BY NoRowIs DEF TypeOK, Customer, ClaimedRow, Row

\* The outcome merge keeps the row typed.
LEMMA upsertOutcomeIs ==
  ASSUME NEW r \in Row, NEW o \in Outcome PROVE upsertOutcome(r, o) \in Row
  BY DEF upsertOutcome, Row

\* So does the outcome fill,
LEMMA fillOutcomeIs ==
  ASSUME NEW r \in Row, NEW set, IsColumns(set) PROVE fillOutcome(r, set) \in Row
<1>1. CASE "state" \in DOMAIN set /\ isTerminal(set.state) /\ r.outcome = "null"
  <2>1. outcomeForState(set.state) \in Outcome
    BY <1>1 DEF outcomeForState, isTerminal, TerminalStates, Outcome
  <2> QED BY <1>1, <2>1 DEF fillOutcome, Row
<1>2. CASE ~("state" \in DOMAIN set /\ isTerminal(set.state) /\ r.outcome = "null")
  BY <1>2 DEF fillOutcome
<1> QED BY <1>1, <1>2

\* the write of typed columns,
LEMMA WrittenRow ==
  ASSUME NEW r \in Row, NEW set, IsColumns(set) PROVE Written(set, r) \in Row
<1> DEFINE w == Written(set, r)
<1>1. DOMAIN r = {"exists", "direction", "state", "outcome", "answered_by_user_id",
                  "answered_at", "notice_spoken", "voicemail_path"}
  BY DEF Row
<1>2. DOMAIN w = DOMAIN r BY <1>1 DEF Written, IsColumns, Column
<1>3. /\ w["exists"] \in BOOLEAN /\ w["direction"] \in {"inbound", "outbound"}
      /\ w["state"] \in CallStates \cup {"null"} /\ w["outcome"] \in Outcome \cup {"null"}
      /\ w["answered_by_user_id"] \in Maybe(User) /\ w["answered_at"] \in BOOLEAN
      /\ w["notice_spoken"] \in BOOLEAN /\ w["voicemail_path"] \in BOOLEAN
  BY <1>1 DEF Written, IsColumns, Column, Row
<1>4. w = [c \in DOMAIN w |-> w[c]] BY DEF Written
<1> HIDE DEF w
<1>5. w = [exists |-> w["exists"], direction |-> w["direction"], state |-> w["state"],
           outcome |-> w["outcome"], answered_by_user_id |-> w["answered_by_user_id"],
           answered_at |-> w["answered_at"], notice_spoken |-> w["notice_spoken"],
           voicemail_path |-> w["voicemail_path"]]
  BY <1>1, <1>2, <1>4
<1> QED BY <1>3, <1>5 DEF Row, w

\* and the mirror that does both.
LEMMA mirrorIs ==
  ASSUME NEW r \in Row, NEW set, IsColumns(set) PROVE mirror(r, set) \in Row
  BY fillOutcomeIs, WrittenRow DEF mirror

(***************************************************************************)
(* Each step keeps every record in its shape.                              *)
(***************************************************************************)
LEMMA ReduceTypeOK == ASSUME TypeOK, Reduce PROVE TypeOK'
<1> DEFINE r == reduce(machine, journal.event)
<1>1. journal.event \in Event BY DEF TypeOK, JournalOK, Reduce
<1>2. MachineOK(r.m) /\ IsEffects(r.fx) BY <1>1, ReduceTyped DEF TypeOK
<1> HIDE DEF r
<1>3. JournalOK(journal')
  <2>1. CASE r.fx = <<>>
    <3>1. journal' = Advanced(<<>>, journal.rest) BY <2>1 DEF Reduce, r
    <3>2. JournalOK(journal) /\ journal.open BY DEF TypeOK, Reduce
    <3>3. journal.rest \in Seq(FollowUp) BY <3>2 DEF JournalOK
    <3> QED BY <3>1, <3>2, <3>3, NoEffects, AdvancedIs
  <2>2. CASE r.fx # <<>>
    <3>1. journal' = [journal EXCEPT !.reduced = TRUE, !.fx = r.fx] BY <2>2 DEF Reduce, r
    <3> QED BY <1>2, <2>2, <3>1 DEF TypeOK, JournalOK
  <2> QED BY <2>1, <2>2
<1>4. machine' = r.m BY DEF Reduce, r
<1>5. hist' \in [ended : BOOLEAN, minted : BOOLEAN, unkept : BOOLEAN, forgot : BOOLEAN]
  BY DEF Reduce, TypeOK, isTerminal
<1> QED BY <1>2, <1>3, <1>4, <1>5 DEF Reduce, TypeOK

\* ExecMirror keeps TypeOK.
LEMMA ExecMirrorTypeOK == ASSUME TypeOK, ExecMirror PROVE TypeOK'
<1>1. IsColumns(Effect.set) BY ExecutingIs, EffectFields DEF ExecMirror
<1>2. row' \in Row BY <1>1, mirrorIs DEF ExecMirror, TypeOK
<1>3. JournalOK(journal') /\ spent' \in [BudgetKind -> Nat]
  BY NoFollowUps, DoneIs DEF ExecMirror, Executing
<1> QED BY <1>2, <1>3 DEF ExecMirror, TypeOK, world

\* ExecMirrorFails keeps TypeOK.
LEMMA ExecMirrorFailsTypeOK == ASSUME TypeOK, ExecMirrorFails PROVE TypeOK'
<1>1. IsColumns(Effect.set) BY ExecutingIs, EffectFields DEF ExecMirrorFails
<1>2. row' \in Row BY <1>1, fillOutcomeIs DEF ExecMirrorFails, TypeOK
<1>3. JournalOK(journal') BY NoFollowUps, AdvanceIs DEF ExecMirrorFails, Executing
<1>4. spent' \in [BudgetKind -> Nat] BY SpendIs DEF ExecMirrorFails, BudgetKind
<1>5. IsColumns(pending'.set) /\ pending'.attempts \in Nat
  BY <1>1, ColumnsWritten DEF ExecMirrorFails, TypeOK
<1>6. alarms' \in SUBSET AlarmSlot BY DEF ExecMirrorFails, TypeOK, AlarmSlot
<1> QED BY <1>2, <1>3, <1>4, <1>5, <1>6 DEF ExecMirrorFails, TypeOK, world

\* ExecDial keeps TypeOK.
LEMMA ExecDialTypeOK == ASSUME TypeOK, ExecDial PROVE TypeOK'
<1>1. PICK result \in [Effect.from .. Effect.to -> DialResults] :
        /\ wlegs' = [i \in LegId |->
             IF i \in Effect.from .. Effect.to /\ result[i] \in {"ccid", "created"}
                  /\ wlegs[i].status = "none"
             THEN [user |-> machine.legs[i].user, status |-> "ringing"] ELSE wlegs[i]]
        /\ Done([n \in 1 .. Effect.to + 1 - Effect.from |->
                   DialOutcome(Effect.from + n - 1, result[Effect.from + n - 1])])
  BY DEF ExecDial
<1>2. Effect.from \in LegId /\ Effect.to \in LegId BY ExecutingIs, EffectFields DEF ExecDial
<1>3. wlegs' \in [LegId -> WorldLeg]
  <2>1. machine.legs \in [LegId -> Leg] BY DEF TypeOK, MachineOK, SessionMachine
  <2>2. \A i \in LegId : [user |-> machine.legs[i].user, status |-> "ringing"] \in WorldLeg
    BY <2>1 DEF Leg, WorldLeg
  <2> QED BY <1>1, <2>2 DEF TypeOK
<1>4. [n \in 1 .. Effect.to + 1 - Effect.from |->
         DialOutcome(Effect.from + n - 1, result[Effect.from + n - 1])] \in Seq(FollowUp)
  <2> DEFINE k == Effect.to + 1 - Effect.from
             f == [n \in 1 .. k |-> DialOutcome(Effect.from + n - 1, result[Effect.from + n - 1])]
  <2>1. \A i \in LegId : \A x : DialOutcome(i, x) \in FollowUp BY DEF DialOutcome, FollowUp
  <2>2. \A n \in 1 .. k : Effect.from + n - 1 \in LegId BY <1>2, MaxLegsAssumption DEF LegId
  <2>3. f \in [1 .. k -> FollowUp] BY <2>1, <2>2
  <2>4. k \in Nat \/ 1 .. k = 1 .. 0 BY <1>2, MaxLegsAssumption DEF LegId
  <2>5. PICK l \in Nat : 1 .. k = 1 .. l BY <2>4
  <2>6. f \in [1 .. l -> FollowUp] BY <2>3, <2>5
  <2> HIDE DEF f
  <2>7. f \in Seq(FollowUp) BY <2>6
  <2> QED BY <2>7 DEF f
<1>5. JournalOK(journal') /\ spent' \in [BudgetKind -> Nat]
  BY <1>1, <1>4, DoneIs DEF ExecDial, Executing
<1> QED BY <1>3, <1>5 DEF ExecDial, TypeOK

\* The three answers of the customer's leg.
LEMMA AnswerCustomerTypeOK ==
  ASSUME TypeOK, NEW kind, Executing(kind), NEW tag \in {"bri", "vmi"}, NEW outcome \in FollowUp,
         AnswerCustomer(tag, outcome)
  PROVE  TypeOK'
<1>1. customer' \in Customer BY DEF AnswerCustomer, TypeOK, Customer
<1>3. <<outcome>> \in Seq(FollowUp) OBVIOUS
<1>2. JournalOK(journal') /\ spent' \in [BudgetKind -> Nat]
  BY <1>3, DoneIs DEF AnswerCustomer, Executing
<1> QED BY <1>1, <1>2 DEF AnswerCustomer, TypeOK

\* Each of the three reports its own outcome.
LEMMA ExecAnswersTypeOK ==
  ASSUME TypeOK, ExecAnswerInbound \/ ExecAnswerNotice \/ ExecAnswerVm PROVE TypeOK'
<1>1. CASE ExecAnswerInbound
  <2>1. Effect.leg \in LegId /\ Effect.user \in Maybe(User)
    BY <1>1, ExecutingIs, EffectFields DEF ExecAnswerInbound
  <2>2. [type |-> "answer-outcome", ok |-> AnswerTakes, leg |-> Effect.leg, user |-> Effect.user]
          \in FollowUp
    BY <2>1 DEF FollowUp, AnswerTakes
  <2> QED BY <1>1, <2>2, AnswerCustomerTypeOK DEF ExecAnswerInbound
<1>2. CASE ExecAnswerNotice
  <2>1. [type |-> "notice-answer-outcome", ok |-> AnswerTakes] \in FollowUp
    BY DEF FollowUp, AnswerTakes
  <2> QED BY <1>2, <2>1, AnswerCustomerTypeOK DEF ExecAnswerNotice
<1>3. CASE ExecAnswerVm
  <2>1. [type |-> "vm-answer-outcome", ok |-> AnswerTakes] \in FollowUp
    BY DEF FollowUp, AnswerTakes
  <2> QED BY <1>3, <2>1, AnswerCustomerTypeOK DEF ExecAnswerVm
<1> QED BY <1>1, <1>2, <1>3

\* ExecBridge keeps TypeOK.
LEMMA ExecBridgeTypeOK == ASSUME TypeOK, ExecBridge PROVE TypeOK'
<1>1. Effect.leg \in LegId BY ExecutingIs, EffectFields DEF ExecBridge
<1>2. JournalOK(journal') /\ spent' \in [BudgetKind -> Nat]
  BY NoFollowUps, DoneIs DEF ExecBridge, Executing
<1>3. CASE CustomerGone(Bridged)
  BY <1>2, <1>3, BridgedIn, CustomerGoneIs DEF ExecBridge, TypeOK
<1>4. CASE customer' = [customer EXCEPT !.peer = Effect.leg] /\ UNCHANGED << wlegs, net >>
  <2>1. customer' \in Customer BY <1>1, <1>4 DEF TypeOK, Customer
  <2> QED BY <1>2, <1>4, <2>1 DEF ExecBridge, TypeOK
<1>5. CASE UNCHANGED << customer, wlegs, net >>
  BY <1>2, <1>5 DEF ExecBridge, TypeOK
<1> QED BY <1>3, <1>4, <1>5 DEF ExecBridge

\* ExecHangupLegs keeps TypeOK.
LEMMA ExecHangupLegsTypeOK == ASSUME TypeOK, ExecHangupLegs PROVE TypeOK'
<1> DEFINE up == {i \in Effect.legs : wlegs[i].status \in Up}
<1>1. up \in SUBSET LegId BY ExecutingIs, EffectFields DEF ExecHangupLegs
<1>2. JournalOK(journal') /\ spent' \in [BudgetKind -> Nat]
  BY NoFollowUps, DoneIs DEF ExecHangupLegs, Executing
<1>3. /\ wlegs' = Drop(up) /\ net' = net \cup {HangupHook(i) : i \in up}
      /\ customer' = [customer EXCEPT !.peer = IF @ \in up THEN NoLeg ELSE @]
  BY DEF ExecHangupLegs
<1> HIDE DEF up
<1>4. wlegs' \in [LegId -> WorldLeg] BY <1>3, DropIs
<1>5. net' \in SUBSET Hook BY <1>1, <1>3, LegHookIs DEF TypeOK
<1>6. customer' \in Customer BY <1>3 DEF TypeOK, Customer
<1> QED BY <1>2, <1>4, <1>5, <1>6 DEF ExecHangupLegs, TypeOK

\* ExecHangupCustomer keeps TypeOK.
LEMMA ExecHangupCustomerTypeOK == ASSUME TypeOK, ExecHangupCustomer PROVE TypeOK'
<1>1. [type |-> "inbound-leg-gone"] \in FollowUp BY DEF FollowUp
<1>2. CASE customer.leg \in Up
  <2>1. CustomerGone(Bridged) /\ Done(<<>>) BY <1>2 DEF ExecHangupCustomer
  <2>2. JournalOK(journal') /\ spent' \in [BudgetKind -> Nat]
    BY <2>1, NoFollowUps, DoneIs DEF ExecHangupCustomer, Executing
  <2> QED BY <2>1, <2>2, BridgedIn, CustomerGoneIs DEF ExecHangupCustomer, TypeOK
<1>3. CASE customer.leg \notin Up
  <2>1. UNCHANGED << customer, wlegs, net >> /\ Done(<<[type |-> "inbound-leg-gone"]>>)
    BY <1>3 DEF ExecHangupCustomer
  <2>2. <<[type |-> "inbound-leg-gone"]>> \in Seq(FollowUp) BY <1>1
  <2>3. JournalOK(journal') /\ spent' \in [BudgetKind -> Nat]
    BY <2>1, <2>2, DoneIs DEF ExecHangupCustomer, Executing
  <2> QED BY <2>1, <2>3 DEF ExecHangupCustomer, TypeOK
<1> QED BY <1>2, <1>3

\* ExecReject keeps TypeOK.
LEMMA ExecRejectTypeOK == ASSUME TypeOK, ExecReject PROVE TypeOK'
<1>1. JournalOK(journal') /\ spent' \in [BudgetKind -> Nat]
  BY NoFollowUps, DoneIs DEF ExecReject, Executing
<1>2. CASE customer.leg = "ringing"
  BY <1>1, <1>2, CustomerGoneIs DEF ExecReject, TypeOK
<1>3. CASE customer.leg # "ringing"
  BY <1>1, <1>3 DEF ExecReject, TypeOK
<1> QED BY <1>2, <1>3

\* ExecMedia keeps TypeOK.
LEMMA ExecMediaTypeOK == ASSUME TypeOK, ExecMedia PROVE TypeOK'
<1>1. JournalOK(journal') /\ spent' \in [BudgetKind -> Nat]
  BY NoFollowUps, DoneIs DEF ExecMedia, Executing
<1>2. customer' \in Customer BY DEF ExecMedia, TypeOK, Customer
<1> QED BY <1>1, <1>2 DEF ExecMedia, TypeOK

\* ExecPushFanout keeps TypeOK.
LEMMA ExecPushFanoutTypeOK == ASSUME TypeOK, ExecPushFanout PROVE TypeOK'
<1>1. PICK unreachable \in SUBSET machine.push :
        Done(<<[type |-> "push-fanout-settled", unreachable |-> unreachable]>>)
  BY DEF ExecPushFanout
<1>2. machine.push \in SUBSET User BY DEF TypeOK, MachineOK, SessionMachine
<1>3. [type |-> "push-fanout-settled", unreachable |-> unreachable] \in FollowUp
  BY <1>2 DEF FollowUp
<1>4. <<[type |-> "push-fanout-settled", unreachable |-> unreachable]>> \in Seq(FollowUp) BY <1>3
<1>5. JournalOK(journal') /\ spent' \in [BudgetKind -> Nat]
  BY <1>1, <1>4, DoneIs DEF ExecPushFanout, Executing
<1>6. alarms' \in SUBSET AlarmSlot BY DEF ExecPushFanout, TypeOK
<1> QED BY <1>5, <1>6 DEF ExecPushFanout, TypeOK, world

\* ExecTerminalMerge keeps TypeOK.
LEMMA ExecTerminalMergeTypeOK == ASSUME TypeOK, ExecTerminalMerge PROVE TypeOK'
<1>1. Effect.outcome \in Outcome
  BY ExecutingIs, EffectFields DEF ExecTerminalMerge, Ending, Outcome
<1>2. row' \in Row BY <1>1, upsertOutcomeIs DEF ExecTerminalMerge, TypeOK
<1>3. JournalOK(journal') /\ spent' \in [BudgetKind -> Nat]
  BY NoFollowUps, DoneIs DEF ExecTerminalMerge, Executing
<1> QED BY <1>2, <1>3 DEF ExecTerminalMerge, TypeOK, world

\* Whichever way the pipeline ends, what it writes is well-formed.
LEMMA PipelineTypeOK ==
  ASSUME TypeOK, journal.open, journal.reduced, VoicemailStored \/ NothingKept \/ VoicemailThrows
  PROVE  /\ row' \in Row /\ JournalOK(journal') /\ spent' \in [BudgetKind -> Nat]
         /\ hist' \in [ended : BOOLEAN, minted : BOOLEAN, unkept : BOOLEAN, forgot : BOOLEAN]
<1>1. CASE VoicemailStored
  <2>1. "voicemail" \in Outcome BY DEF Outcome
  <2>2. upsertOutcome(row, "voicemail") \in Row BY <2>1, upsertOutcomeIs DEF TypeOK
  <2>3. row' \in Row BY <1>1, <2>2 DEF VoicemailStored, Row
  <2>4. JournalOK(journal') /\ spent' \in [BudgetKind -> Nat]
    BY <1>1, NoFollowUps, DoneIs DEF VoicemailStored, TypeOK
  <2> QED BY <1>1, <2>3, <2>4 DEF VoicemailStored, TypeOK
<1>2. CASE NothingKept
  <2>1. JournalOK(journal') BY <1>2, NoFollowUps, AdvanceIs DEF NothingKept, TypeOK
  <2> QED BY <1>2, <2>1 DEF NothingKept, TypeOK
<1>3. CASE VoicemailThrows
  <2>1. spent' \in [BudgetKind -> Nat] BY <1>3, SpendIs DEF VoicemailThrows, BudgetKind
  <2>2. row' \in Row BY <1>3 DEF VoicemailThrows, TypeOK, Row
  <2> QED BY <1>3, <2>1, <2>2 DEF VoicemailThrows, TypeOK
<1> QED BY <1>1, <1>2, <1>3

\* ExecVoicemailPipeline keeps TypeOK.
LEMMA ExecVoicemailPipelineTypeOK == ASSUME TypeOK, ExecVoicemailPipeline PROVE TypeOK'
<1>1. /\ row' \in Row /\ JournalOK(journal') /\ spent' \in [BudgetKind -> Nat]
      /\ hist' \in [ended : BOOLEAN, minted : BOOLEAN, unkept : BOOLEAN, forgot : BOOLEAN]
  BY PipelineTypeOK DEF ExecVoicemailPipeline, Executing
<1>2. CASE row.exists /\ customer.leg \in Up
  BY <1>1, <1>2, BridgedIn, CustomerGoneIs DEF ExecVoicemailPipeline, TypeOK
<1>3. CASE ~(row.exists /\ customer.leg \in Up)
  BY <1>1, <1>3 DEF ExecVoicemailPipeline, TypeOK
<1> QED BY <1>2, <1>3

\* ExecQuietly keeps TypeOK.
LEMMA ExecQuietlyTypeOK == ASSUME TypeOK, ExecQuietly PROVE TypeOK'
<1> DEFINE probed == [type |-> "member-probe-outcome", leg |-> Effect.leg, user |-> Effect.user,
                      ok |-> wlegs[Effect.leg].status \in Up]
           fu == IF Effect.kind = "push-call-end" THEN <<>> ELSE <<probed>>
<1>1. Done(fu) BY DEF ExecQuietly
<1>2. fu \in Seq(FollowUp)
  <2>1. CASE Effect.kind = "push-call-end" BY <2>1
  <2>2. CASE Effect.kind # "push-call-end"
    <3>1. Executing("telnyx-probe-member-leg") BY <2>2 DEF ExecQuietly, Executing, Effect
    <3>2. Effect.leg \in LegId /\ Effect.user \in Maybe(User) BY <3>1, ExecutingIs, EffectFields
    <3>3. probed \in FollowUp BY <3>2 DEF FollowUp
    <3> QED BY <2>2, <3>3
  <2> QED BY <2>1, <2>2
<1> HIDE DEF fu
<1>3. JournalOK(journal') /\ spent' \in [BudgetKind -> Nat]
  BY <1>1, <1>2, DoneIs DEF ExecQuietly, Executing
<1> QED BY <1>3 DEF ExecQuietly, TypeOK, world

\* ExecAlarmSlot keeps TypeOK.
LEMMA ExecAlarmSlotTypeOK == ASSUME TypeOK, ExecAlarmSlot PROVE TypeOK'
<1>1. Effect.alarm \in AlarmKind BY ExecutingIs, EffectFields DEF ExecAlarmSlot
<1>2. alarms' \in SUBSET AlarmSlot BY <1>1 DEF ExecAlarmSlot, TypeOK, AlarmKind, AlarmSlot
<1>3. JournalOK(journal') /\ spent' \in [BudgetKind -> Nat]
  BY NoFollowUps, DoneIs DEF ExecAlarmSlot, Executing
<1> QED BY <1>2, <1>3 DEF ExecAlarmSlot, TypeOK, world

\* Every effect.
LEMMA ExecuteTypeOK == ASSUME TypeOK, Execute PROVE TypeOK'
  BY ExecMirrorTypeOK, ExecMirrorFailsTypeOK, ExecDialTypeOK, ExecAnswersTypeOK, ExecBridgeTypeOK,
     ExecHangupLegsTypeOK, ExecHangupCustomerTypeOK, ExecRejectTypeOK, ExecMediaTypeOK,
     ExecQuietlyTypeOK, ExecPushFanoutTypeOK, ExecTerminalMergeTypeOK, ExecVoicemailPipelineTypeOK,
     ExecAlarmSlotTypeOK
     DEF Execute

(***************************************************************************)
(* Admission and adoption.                                                 *)
(***************************************************************************)
LEMMA AdmitIs == ASSUME NEW ev \in Event, Admit(ev) PROVE JournalOK(journal')
<1>1. <<>> \in Seq(FollowUp) OBVIOUS
<1> QED BY <1>1, JournalFresh DEF Admit

\* Acknowledging a webhook only removes it.
LEMMA AcknowledgeIs ==
  ASSUME TypeOK, NEW w, Acknowledge(w)
  PROVE  net' \in SUBSET Hook /\ spent' \in [BudgetKind -> Nat]
<1>1. CASE net' = net \ {w} /\ UNCHANGED spent BY <1>1 DEF TypeOK
<1>2. CASE Spend("dup") /\ UNCHANGED net BY <1>2, SpendIs DEF TypeOK, BudgetKind
<1> QED BY <1>1, <1>2 DEF Acknowledge

\* A machine taken from the row is well-formed.
LEMMA AdoptedIs == ASSUME TypeOK, NEW w PROVE MachineOK(Adopted(w))
<1>1. reconstructedState(w) \in CallStates
  BY DEF reconstructedState, endedAs, CallStates, TerminalStates
<1>2. /\ row.direction \in {"inbound", "outbound"} /\ row.answered_by_user_id \in User \cup {NoUser}
      /\ row.answered_at \in BOOLEAN
  BY DEF TypeOK, Row, Maybe
<1>3. MachineOK(reconstructMachine(w))
  BY <1>1, <1>2, NoMachineOK DEF reconstructMachine, MachineOK, SessionMachine, NoMachine
<1> QED BY <1>3 DEF Adopted, TypeOK

\* Adoption keeps machine and history typed.
LEMMA AdoptIs ==
  ASSUME TypeOK, NEW w, Adopt(w)
  PROVE  /\ MachineOK(machine')
         /\ hist' \in [ended : BOOLEAN, minted : BOOLEAN, unkept : BOOLEAN, forgot : BOOLEAN]
  BY AdoptedIs DEF Adopt, TypeOK, Ended, isTerminal

\* A webhook that is not an initiation is an event.
LEMMA HookIsEvent == ASSUME NEW w \in Hook, w.type \notin Initiations PROVE w \in Event
  BY DEF Hook, Event

\* Deliver keeps TypeOK.
LEMMA DeliverTypeOK == ASSUME TypeOK, NEW w \in net, Deliver(w) PROVE TypeOK'
<1>1. w \in Hook BY DEF TypeOK
<1>2. CASE DeliverSeen(w)
  BY <1>2, AcknowledgeIs DEF DeliverSeen, TypeOK, durable, world
<1>3. CASE DeliverInitiated(w)
  <2>1. PICK ctx \in Contexts : Admit([type |-> "initiated", context |-> ctx])
    BY <1>3 DEF DeliverInitiated
  <2>2. [type |-> "initiated", context |-> ctx] \in Event
    BY ContextAssumption DEF Event, Mint
  <2>3. row' \in Row BY <1>3, ClaimedRowIs DEF DeliverInitiated, TypeOK
  <2>4. seen' \in SUBSET Hook BY <1>1, <1>3 DEF DeliverInitiated, TypeOK
  <2>5. JournalOK(journal') BY <2>1, <2>2, AdmitIs
  <2>6. net' \in SUBSET Hook /\ spent' \in [BudgetKind -> Nat]
    BY <1>3, AcknowledgeIs DEF DeliverInitiated
  <2> QED BY <1>3, <2>3, <2>4, <2>5, <2>6 DEF DeliverInitiated, TypeOK, world
<1>4. CASE DeliverInitiatedLate(w)
  BY <1>4, AcknowledgeIs DEF DeliverInitiatedLate, TypeOK, durable, world
<1>5. CASE DeliverOutboundInitiated(w)
  <2>1. PICK ctx \in Placements : Admit([type |-> "outbound-initiated", context |-> ctx])
    BY <1>5 DEF DeliverOutboundInitiated
  <2>2. [type |-> "outbound-initiated", context |-> ctx] \in Event
    BY PlacementAssumption DEF Event, Mint
  <2>3. row' \in Row BY <1>5, ClaimedRowIs DEF DeliverOutboundInitiated
  <2>4. seen' \in SUBSET Hook BY <1>1, <1>5 DEF DeliverOutboundInitiated, TypeOK
  <2>5. JournalOK(journal') BY <2>1, <2>2, AdmitIs
  <2>6. net' \in SUBSET Hook /\ spent' \in [BudgetKind -> Nat]
    BY <1>5, AcknowledgeIs DEF DeliverOutboundInitiated
  <2> QED BY <1>5, <2>3, <2>4, <2>5, <2>6 DEF DeliverOutboundInitiated, TypeOK, world
<1>6. CASE RejectOutboundInitiated(w)
  <2>1. row' \in Row BY <1>6, ClaimedRowIs DEF RejectOutboundInitiated, TypeOK
  <2>2. customer' \in Customer BY <1>6 DEF RejectOutboundInitiated, TypeOK, Customer
  <2>3. net' \in SUBSET Hook BY <1>6, CustomerHookIs DEF RejectOutboundInitiated, TypeOK
  <2> QED BY <1>6, <2>1, <2>2, <2>3 DEF RejectOutboundInitiated, TypeOK, durable
<1>7. CASE DeliverEvent(w)
  <2>1. w \in Event BY <1>1, <1>7, HookIsEvent DEF DeliverEvent
  <2>2. JournalOK(journal') BY <1>7, <2>1, AdmitIs DEF DeliverEvent
  <2>3. /\ MachineOK(machine')
        /\ hist' \in [ended : BOOLEAN, minted : BOOLEAN, unkept : BOOLEAN, forgot : BOOLEAN]
    BY <1>7, AdoptIs DEF DeliverEvent
  <2>4. net' \in SUBSET Hook /\ spent' \in [BudgetKind -> Nat]
    BY <1>7, AcknowledgeIs DEF DeliverEvent
  <2>5. seen' \in SUBSET Hook BY <1>1, <1>7 DEF DeliverEvent, TypeOK
  <2> QED BY <1>7, <2>2, <2>3, <2>4, <2>5 DEF DeliverEvent, TypeOK, world
<1>8. CASE DropUnknown(w)
  BY <1>8 DEF DropUnknown, TypeOK, durable, world
<1> QED BY <1>2, <1>3, <1>4, <1>5, <1>6, <1>7, <1>8 DEF Deliver

\* Faults keeps TypeOK.
LEMMA FaultsTypeOK == ASSUME TypeOK, Faults PROVE TypeOK'
<1>1. CASE \E w \in net : Lose(w)
  <2>1. spent' \in [BudgetKind -> Nat] BY <1>1, SpendIs DEF Lose, BudgetKind
  <2> QED BY <1>1, <2>1 DEF Lose, TypeOK, durable, world
<1>2. CASE \E w \in net : ClaimThenCrash(w)
  <2>1. spent' \in [BudgetKind -> Nat] BY <1>2, SpendIs DEF ClaimThenCrash, BudgetKind
  <2>2. row' \in Row BY <1>2, ClaimedRowIs DEF ClaimThenCrash
  <2> QED BY <1>2, <2>1, <2>2 DEF ClaimThenCrash, TypeOK, durable, world
<1>3. CASE \E slot \in AlarmSlot : LoseAlarm(slot)
  <2>1. spent' \in [BudgetKind -> Nat] BY <1>3, SpendIs DEF LoseAlarm, BudgetKind
  <2>2. alarms' \in SUBSET AlarmSlot BY <1>3 DEF LoseAlarm, TypeOK
  <2> QED BY <1>3, <2>1, <2>2 DEF LoseAlarm, TypeOK, world
<1>4. CASE RetryMirrorFails
  <2>1. IsColumns(Pinned(pending.set))
    <3>1. machine.state \in CallStates /\ machine.owner \in Maybe(User) /\ machine.answered \in BOOLEAN
      BY <1>4 DEF RetryMirrorFails, TypeOK, MachineOK, SessionMachine, isNone, Maybe
    <3> QED BY <3>1 DEF TypeOK, IsColumns, Column, Pinned
  <2>2. row' \in Row BY <1>4, <2>1, fillOutcomeIs DEF RetryMirrorFails, TypeOK
  <2>3. spent' \in [BudgetKind -> Nat] BY <1>4, SpendIs DEF RetryMirrorFails, BudgetKind
  <2>4. IsColumns(pending'.set) /\ pending'.attempts \in Nat /\ alarms' \in SUBSET AlarmSlot
    BY <1>4, <2>1, ColumnsEmpty DEF RetryMirrorFails, TypeOK, NoPending
  <2> QED BY <1>4, <2>2, <2>3, <2>4 DEF RetryMirrorFails, TypeOK, world
<1> QED BY <1>1, <1>2, <1>3, <1>4 DEF Faults

\* FireAlarm keeps TypeOK.
LEMMA FireAlarmTypeOK == ASSUME TypeOK, NEW slot \in AlarmSlot, FireAlarm(slot) PROVE TypeOK'
<1>1. JournalOK(journal')
  <2>1. CASE isNone(machine) BY <2>1 DEF FireAlarm, TypeOK
  <2>2. CASE ~isNone(machine)
    <3>1. PICK ev \in AlarmEvents(slot) : Admit(ev) BY <2>2 DEF FireAlarm
    <3>2. machine.push \in SUBSET User BY DEF TypeOK, MachineOK, SessionMachine
    <3>3. ev \in Event
      BY <3>1, <3>2 DEF AlarmEvents, Event, FollowUp, Asked
    <3> QED BY <3>1, <3>3, AdmitIs
  <2> QED BY <2>1, <2>2
<1>2. alarms' \in SUBSET AlarmSlot BY DEF FireAlarm, TypeOK
<1> QED BY <1>1, <1>2 DEF FireAlarm, TypeOK, world

\* Shell keeps TypeOK.
LEMMA ShellTypeOK == ASSUME TypeOK, Shell PROVE TypeOK'
<1>1. CASE RetryMirrorLands
  <2>1. row' \in Row
    <3>1. CASE pending = NoPending \/ isNone(machine) BY <1>1, <3>1 DEF RetryMirrorLands, TypeOK
    <3>2. CASE ~(pending = NoPending \/ isNone(machine))
      <4>1. machine.state \in CallStates /\ machine.owner \in Maybe(User)
              /\ machine.answered \in BOOLEAN
        BY <3>2 DEF TypeOK, MachineOK, SessionMachine, isNone, Maybe
      <4>2. IsColumns(Pinned(pending.set)) BY <4>1 DEF TypeOK, IsColumns, Column, Pinned
      <4> QED BY <1>1, <3>2, <4>2, mirrorIs DEF RetryMirrorLands, TypeOK
    <3> QED BY <3>1, <3>2
  <2>2. IsColumns(pending'.set) /\ pending'.attempts \in Nat /\ alarms' \in SUBSET AlarmSlot
    BY <1>1, ColumnsEmpty DEF RetryMirrorLands, TypeOK, NoPending
  <2> QED BY <1>1, <2>1, <2>2 DEF RetryMirrorLands, TypeOK, world
<1>2. CASE Purge
  BY <1>2, NoMachineOK, ColumnsEmpty DEF Purge, TypeOK, NoPending, world
<1> QED BY <1>1, <1>2, ReduceTypeOK, ExecuteTypeOK, FireAlarmTypeOK DEF Shell

(***************************************************************************)
(* Requests, consults and the parties.                                     *)
(***************************************************************************)
LEMMA RequestTypeOK ==
  ASSUME TypeOK, NEW kind \in BudgetKind, NEW ev \in Event, Request(kind, ev) PROVE TypeOK'
<1>1. JournalOK(journal') BY AdmitIs DEF Request
<1>2. /\ MachineOK(machine')
      /\ hist' \in [ended : BOOLEAN, minted : BOOLEAN, unkept : BOOLEAN, forgot : BOOLEAN]
  BY AdoptIs DEF Request
<1>3. spent' \in [BudgetKind -> Nat] BY SpendIs DEF Request
<1> QED BY <1>1, <1>2, <1>3 DEF Request, TypeOK, world

\* A route that tells the object something changes only its journal.
LEMMA TellTypeOK ==
  ASSUME TypeOK, NEW ev \in Event, Tell(ev),
         consult' \in {NoConsult} \cup [step : Running, sender : User, target : User]
  PROVE  TypeOK'
<1>1. JournalOK(journal') BY AdmitIs DEF Tell, TypeOK
<1> QED BY <1>1 DEF Tell, TypeOK, world

\* A consult moves between its steps.
LEMMA GoToIs ==
  ASSUME TypeOK, consult # NoConsult, NEW step \in Running \cup {"idle"}, GoTo(step)
  PROVE  consult' \in {NoConsult} \cup [step : Running, sender : User, target : User]
  BY DEF TypeOK, GoTo

\* Consult keeps TypeOK.
LEMMA ConsultTypeOK == ASSUME TypeOK, Consult PROVE TypeOK'
<1>0. ~AtStep("idle") => consult # NoConsult /\ consult.sender \in User /\ consult.target \in User
  BY DEF AtStep, TypeOK, NoConsult
<1>1. /\ [type |-> "register-intent"] \in Event /\ [type |-> "clear-intent"] \in Event
      /\ \A u \in User : [type |-> "set-owner", user |-> u] \in Event
  BY DEF Event, Asked
<1>2. CASE \E sender, target \in User : ConsultGate(sender, target)
  <2>1. PICK sender, target \in User : ConsultGate(sender, target) BY <1>2
  <2>2. spent' \in [BudgetKind -> Nat] BY <2>1, SpendIs DEF ConsultGate, BudgetKind
  <2>3. consult' \in [step : Running, sender : User, target : User]
    BY <2>1 DEF ConsultGate, Running
  <2> QED BY <2>1, <2>2, <2>3 DEF ConsultGate, TypeOK, durable, world
<1>3. CASE ConsultRegister
  <2>1. consult # NoConsult BY <1>0, <1>3 DEF ConsultRegister, AtStep
  <2>2. consult' \in {NoConsult} \cup [step : Running, sender : User, target : User]
    BY <1>3, <2>1, GoToIs DEF ConsultRegister, Running
  <2> QED BY <1>1, <1>3, <2>2, TellTypeOK DEF ConsultRegister
<1>4. CASE ConsultDialed
  <2>1. consult # NoConsult BY <1>0, <1>4 DEF ConsultDialed, AtStep
  <2>2. consult' \in {NoConsult} \cup [step : Running, sender : User, target : User]
    BY <1>4, <2>1, GoToIs DEF ConsultDialed, Running
  <2> QED BY <1>4, <2>2 DEF ConsultDialed, TypeOK, durable, world
<1>5. CASE ConsultAbandon
  <2>1. consult # NoConsult BY <1>0, <1>5 DEF ConsultAbandon, AtStep
  <2>2. consult' \in {NoConsult} \cup [step : Running, sender : User, target : User]
    BY <1>5, <2>1, GoToIs DEF ConsultAbandon
  <2> QED BY <1>1, <1>5, <2>2, TellTypeOK DEF ConsultAbandon
<1>6. CASE ConsultStamp
  <2>1. consult # NoConsult /\ consult.target \in User BY <1>0, <1>6 DEF ConsultStamp, AtStep
  <2>2. consult' \in {NoConsult} \cup [step : Running, sender : User, target : User]
    BY <1>6, <2>1, GoToIs DEF ConsultStamp, Running
  <2>3. row' \in Row BY <1>6, <2>1 DEF ConsultStamp, TypeOK, Row, Maybe
  <2> QED BY <1>6, <2>2, <2>3 DEF ConsultStamp, TypeOK, durable, world
<1>7. CASE ConsultOwner
  <2>1. consult # NoConsult /\ consult.target \in User BY <1>0, <1>7 DEF ConsultOwner, AtStep
  <2>2. consult' \in {NoConsult} \cup [step : Running, sender : User, target : User]
    BY <1>7, <2>1, GoToIs DEF ConsultOwner, Running
  <2> QED BY <1>1, <1>7, <2>1, <2>2, TellTypeOK DEF ConsultOwner
<1>8. CASE ConsultClear
  <2>1. consult # NoConsult BY <1>0, <1>8 DEF ConsultClear, AtStep
  <2>2. consult' \in {NoConsult} \cup [step : Running, sender : User, target : User]
    BY <1>8, <2>1, GoToIs DEF ConsultClear, Running
  <2> QED BY <1>1, <1>8, <2>2, TellTypeOK DEF ConsultClear
<1>9. CASE ConsultSteal
  <2>1. consult # NoConsult BY <1>0, <1>9 DEF ConsultSteal, AtStep
  <2>2. consult' \in {NoConsult} \cup [step : Running, sender : User, target : User]
    BY <1>9, <2>1, GoToIs DEF ConsultSteal
  <2>3. customer' \in Customer BY <1>9 DEF ConsultSteal, TypeOK, Customer
  <2>4. wlegs' \in [LegId -> WorldLeg] BY <1>9, DropIs DEF ConsultSteal
  <2>5. net' \in SUBSET Hook BY <1>9, BridgedIn, LegHookIs DEF ConsultSteal, TypeOK
  <2> QED BY <1>9, <2>2, <2>3, <2>4, <2>5 DEF ConsultSteal, TypeOK, durable
<1>10. CASE ConsultStealFails
  <2>1. consult # NoConsult /\ consult.sender \in User BY <1>0, <1>10 DEF ConsultStealFails, AtStep
  <2>2. consult' \in {NoConsult} \cup [step : Running, sender : User, target : User]
    BY <1>10, <2>1, GoToIs DEF ConsultStealFails, Running
  <2>3. row' \in Row BY <1>10, <2>1 DEF ConsultStealFails, TypeOK, Row, Maybe
  <2>4. spent' \in [BudgetKind -> Nat]
    BY <1>10, SpendIs DEF ConsultStealFails, BudgetKind, TypeOK
  <2> QED BY <1>10, <2>2, <2>3, <2>4 DEF ConsultStealFails, TypeOK, durable, world
<1>11. CASE ConsultRestoreOwner
  <2>1. consult # NoConsult /\ consult.sender \in User BY <1>0, <1>11 DEF ConsultRestoreOwner, AtStep
  <2>2. consult' \in {NoConsult} \cup [step : Running, sender : User, target : User]
    BY <1>11, <2>1, GoToIs DEF ConsultRestoreOwner
  <2> QED BY <1>1, <1>11, <2>1, <2>2, TellTypeOK DEF ConsultRestoreOwner
<1> QED BY <1>2, <1>3, <1>4, <1>5, <1>6, <1>7, <1>8, <1>9, <1>10, <1>11 DEF Consult

\* Members keeps TypeOK.
LEMMA MembersTypeOK == ASSUME TypeOK, Members PROVE TypeOK'
<1>1. CASE \E u \in User, noLocalLeg, recent \in BOOLEAN : RingMe(u, noLocalLeg, recent)
  <2>1. PICK u \in User, noLocalLeg \in BOOLEAN, recent \in BOOLEAN : RingMe(u, noLocalLeg, recent)
    BY <1>1
  <2>2. [type |-> "ring-me", user |-> u, noLocalLeg |-> noLocalLeg, recent |-> recent] \in Event
    BY DEF Event, Asked
  <2> QED BY <2>1, <2>2, RequestTypeOK DEF RingMe, BudgetKind
<1>2. CASE \E u \in User : Decline(u)
  <2>1. PICK u \in User : Decline(u) BY <1>2
  <2>2. [type |-> "decline", user |-> u] \in Event BY DEF Event, Asked
  <2> QED BY <2>1, <2>2, RequestTypeOK DEF Decline, BudgetKind
<1> QED BY <1>1, <1>2, ConsultTypeOK DEF Members

\* Provider keeps TypeOK.
LEMMA ProviderTypeOK == ASSUME TypeOK, Provider PROVE TypeOK'
<1>1. CASE CustomerHangsUp
  BY <1>1, BridgedIn, CustomerGoneIs DEF CustomerHangsUp, TypeOK, durable
<1>2. CASE CustomerAnswers
  <2>1. customer' \in Customer BY <1>2 DEF CustomerAnswers, TypeOK, Customer
  <2>2. net' \in SUBSET Hook BY <1>2 DEF CustomerAnswers, TypeOK, Hook, Webhook
  <2> QED BY <1>2, <2>1, <2>2 DEF CustomerAnswers, TypeOK, durable
<1>3. CASE MediaEnds
  <2>1. customer' \in Customer BY <1>3 DEF MediaEnds, TypeOK, Customer
  <2>2. net' \in SUBSET Hook BY <1>3, CustomerHookIs DEF MediaEnds, TypeOK
  <2> QED BY <1>3, <2>1, <2>2 DEF MediaEnds, TypeOK, durable
<1>4. ASSUME NEW i \in LegId, MemberAnswers(i) PROVE TypeOK'
  <2>1. wlegs' \in [LegId -> WorldLeg] BY <1>4 DEF MemberAnswers, TypeOK, WorldLeg
  <2>2. net' \in SUBSET Hook BY <1>4, LegHookIs DEF MemberAnswers, TypeOK
  <2> QED BY <1>4, <2>1, <2>2 DEF MemberAnswers, TypeOK, durable
<1>5. ASSUME NEW i \in LegId, MemberLegEnds(i) PROVE TypeOK'
  <2>1. CASE CustomerGone({i}) BY <1>5, <2>1, CustomerGoneIs DEF MemberLegEnds, TypeOK, durable
  <2>2. CASE /\ customer' = [customer EXCEPT !.peer = IF @ = i THEN NoLeg ELSE @]
             /\ wlegs' = Drop({i}) /\ net' = net \cup {HangupHook(i)}
    <3>1. customer' \in Customer BY <2>2 DEF TypeOK, Customer
    <3>2. wlegs' \in [LegId -> WorldLeg] BY <2>2, DropIs
    <3>3. net' \in SUBSET Hook BY <2>2, LegHookIs DEF TypeOK
    <3> QED BY <1>5, <3>1, <3>2, <3>3 DEF MemberLegEnds, TypeOK, durable
  <2> QED BY <1>5, <2>1, <2>2 DEF MemberLegEnds
<1> QED BY <1>1, <1>2, <1>3, <1>4, <1>5 DEF Provider

(***************************************************************************)
(* TypeCorrect (session-do.ts:555-676): whatever the object stores, and    *)
(* whatever it is told, lost, repeated or adopted, its machine, journal,   *)
(* alarms and pending write and the calls row keep their shape, so the     *)
(* journal can always be resumed.                                          *)
(***************************************************************************)
LEMMA InitTypeOK == ASSUME Init PROVE TypeOK
<1>1. customer \in Customer /\ net \in SUBSET Hook
  BY DEF Init, Customer, Directions, Hook, InitialWebhook, Initiations
<1>2. wlegs \in [LegId -> WorldLeg] BY DEF Init, WorldLeg
<1> QED BY <1>1, <1>2, NoMachineOK, JournalIdle, NoRowIs, ColumnsEmpty DEF Init, TypeOK, NoPending

\* Every step.
LEMMA NextTypeOK == ASSUME TypeOK, [Next]_vars PROVE TypeOK'
<1>1. CASE Next
  BY <1>1, ShellTypeOK, FaultsTypeOK, MembersTypeOK, ProviderTypeOK, DeliverTypeOK DEF Next
<1>2. CASE UNCHANGED vars BY <1>2 DEF vars, TypeOK
<1> QED BY <1>1, <1>2

\* TypeOK holds in every reachable state, for every set of members, number of
\* legs, budget of faults and kind of dial outcome.
THEOREM TypeCorrect == Spec => []TypeOK
<1>1. Init => TypeOK BY InitTypeOK
<1>2. TypeOK /\ [Next]_vars => TypeOK' BY NextTypeOK
<1> QED BY <1>1, <1>2, PTL DEF Spec

(***************************************************************************)
(* Which steps touch the machine, the journal and the dedup marks.         *)
(***************************************************************************)
Kept == machine' = machine /\ seen' = seen

Elsewhere == Kept /\ (journal' = journal \/ (journal.open /\ journal.reduced) \/ Drained)

\* Every step is one of six kinds, as far as machine, journal and marks go.
LEMMA Steps ==
  ASSUME Next
  PROVE  \/ Reduce
         \/ Elsewhere
         \/ /\ Drained /\ machine' = machine
            /\ \E w : w.type \in Initiations /\ seen' = seen \cup {w}
         \/ Drained /\ seen' = seen /\ \E w : machine' = Adopted(w)
         \/ \E w \in net : DeliverEvent(w)
         \/ Purge
<1>1. CASE Shell
  <2>1. Execute => Kept /\ journal.open /\ journal.reduced
    BY DEF Execute, Executing, Kept, ExecMirror, ExecMirrorFails, ExecDial, ExecAnswerInbound,
       ExecAnswerNotice, ExecAnswerVm, AnswerCustomer, ExecBridge, ExecHangupLegs,
       ExecHangupCustomer, ExecReject, ExecMedia, ExecQuietly, ExecPushFanout, ExecTerminalMerge,
       ExecVoicemailPipeline, ExecAlarmSlot
  <2>2. \A slot : FireAlarm(slot) => Kept /\ Drained BY DEF FireAlarm, Due, Kept
  <2>3. RetryMirrorLands => Kept /\ journal' = journal BY DEF RetryMirrorLands, Kept
  <2> QED BY <1>1, <2>1, <2>2, <2>3 DEF Shell, Elsewhere
<1>2. CASE Faults
  BY <1>2 DEF Faults, Lose, ClaimThenCrash, LoseAlarm, RetryMirrorFails, Elsewhere, Kept, durable
<1>3. CASE Members
  <2>1. \A kind, ev : Request(kind, ev) => Drained /\ seen' = seen /\ \E w : machine' = Adopted(w)
    BY DEF Request, Admit, Adopt
  <2>2. \A ev : Tell(ev) => Drained /\ Kept BY DEF Tell, Admit, Kept
  <2>3. Consult => Kept /\ (journal' = journal \/ Drained)
    BY <2>2 DEF Consult, ConsultGate, ConsultRegister, ConsultDialed, ConsultAbandon, ConsultStamp,
       ConsultOwner, ConsultClear, ConsultSteal, ConsultStealFails, ConsultRestoreOwner, durable, Kept
  <2> QED BY <1>3, <2>1, <2>3 DEF Members, RingMe, Decline, Elsewhere
<1>4. CASE Provider
  BY <1>4 DEF Provider, CustomerHangsUp, CustomerAnswers, MediaEnds, MemberAnswers, MemberLegEnds,
     durable, Elsewhere, Kept
<1>5. CASE \E w \in net : Deliver(w)
  <2>1. PICK w \in net : Deliver(w) BY <1>5
  <2>2. DeliverSeen(w) \/ DeliverInitiatedLate(w) \/ RejectOutboundInitiated(w) \/ DropUnknown(w)
          => Kept /\ journal' = journal
    BY DEF DeliverSeen, DeliverInitiatedLate, RejectOutboundInitiated, DropUnknown, durable, Kept
  <2>3. DeliverInitiated(w) \/ DeliverOutboundInitiated(w)
          => /\ Drained /\ machine' = machine
             /\ w.type \in Initiations /\ seen' = seen \cup {w}
    BY DEF DeliverInitiated, DeliverOutboundInitiated, Admit, Initiations
  <2> QED BY <2>1, <2>2, <2>3 DEF Deliver, Elsewhere
<1> QED BY <1>1, <1>2, <1>3, <1>4, <1>5 DEF Next

\* Adoption never replaces a machine, and never yields the absence of one.
LEMMA AdoptedKeeps ==
  ASSUME NEW w
  PROVE  /\ ~isNone(machine) => Adopted(w) = machine
         /\ row.exists => ~isNone(Adopted(w))
<1>1. ~isNone(reconstructMachine(w))
  BY DEF reconstructMachine, reconstructedState, endedAs, NoMachine, isNone
<1> QED BY <1>1 DEF Adopted

(***************************************************************************)
(* TerminalAbsorption (T14).  A session that is over stays over, through   *)
(* every journaled cascade, crash, request, adoption and purge.            *)
(***************************************************************************)
LEMMA TerminalAbsorbsStep ==
  ASSUME TypeOK, [Next]_vars, Over
  PROVE  \/ machine'.state = machine.state
         \/ machine.state = "ended_missed" /\ machine'.state \in {"ended_answered", "ended_voicemail"}
         \/ isNone(machine')
<1>0. ~isNone(machine) BY DEF Over, isTerminal, TerminalStates, isNone
<1>1. CASE Reduce
  <2>1. journal.event \in Event BY <1>1 DEF TypeOK, JournalOK, Reduce
  <2>2. machine' = reduce(machine, journal.event).m BY <1>1 DEF Reduce
  <2> QED BY <2>1, <2>2, OverAbsorbs DEF TypeOK, Over
<1>2. CASE \E w : machine' = Adopted(w) BY <1>0, <1>2, AdoptedKeeps
<1>3. CASE \E w \in net : DeliverEvent(w)
  <2>1. \E w : machine' = Adopted(w) BY <1>3 DEF DeliverEvent, Adopt
  <2> QED BY <1>2, <2>1
<1>4. CASE Purge BY <1>4 DEF Purge, NoMachine, isNone
<1>5. CASE machine' = machine BY <1>5
<1>6. CASE UNCHANGED vars BY <1>5, <1>6 DEF vars
<1> QED BY <1>1, <1>2, <1>3, <1>4, <1>5, <1>6, Steps DEF Elsewhere, Kept

\* A session that is over stays over (T14), whatever is journaled, requested,
\* adopted or purged.
THEOREM TerminalAbsorption == Spec => TerminalAbsorbs
<1>1. TypeOK /\ [Next]_vars
        => [Over => \/ machine'.state = machine.state
                    \/ /\ machine.state = "ended_missed"
                       /\ machine'.state \in {"ended_answered", "ended_voicemail"}
                    \/ isNone(machine')]_vars
  BY TerminalAbsorbsStep
<1> QED BY <1>1, TypeCorrect, PTL DEF Spec, TerminalAbsorbs

(***************************************************************************)
(* HangupEndsSession.  Once the hangup of the customer's leg was admitted  *)
(* the session is over as soon as its cascade has drained.  Inductive: a   *)
(* hangup among the dedup marks is either still the journal's unreduced    *)
(* head, on a machine that exists, or the session is over.                 *)
(***************************************************************************)
HangupHead ==
  /\ journal.open /\ ~journal.reduced
  /\ journal.event.type \in {"inbound-hangup", "outbound-hangup"}

HangupInv == HangupReported => ~isNone(machine) /\ (Over \/ HangupHead)

\* It is inductive given TypeOK and the reducer's two theorems.
LEMMA HangupInvStep == ASSUME TypeOK, HangupInv, [Next]_vars PROVE HangupInv'
<1>0. Over => ~isNone(machine) BY DEF Over, isTerminal, TerminalStates, isNone
<1>1. CASE Reduce
  <2>1. journal.event \in Event /\ MachineOK(machine) BY <1>1 DEF TypeOK, JournalOK, Reduce
  <2>2. machine' = reduce(machine, journal.event).m /\ seen' = seen BY <1>1 DEF Reduce
  <2>3. SUFFICES ASSUME HangupReported' PROVE ~isNone(machine') /\ Over'
    BY DEF HangupInv
  <2>4. ~isNone(machine) /\ (Over \/ HangupHead) BY <2>2, <2>3 DEF HangupInv, HangupReported
  <2>5. isTerminal(machine'.state)
    <3>1. CASE Over
      BY <2>1, <2>2, <3>1, OverAbsorbs DEF Over, isTerminal, TerminalStates
    <3>2. CASE HangupHead
      BY <2>1, <2>2, <2>4, <3>2, HangupEnds DEF HangupHead
    <3> QED BY <2>4, <3>1, <3>2
  <2> QED BY <2>5 DEF Over, isTerminal, TerminalStates, isNone
<1>2. CASE Elsewhere
  BY <1>2 DEF Elsewhere, Kept, HangupInv, HangupReported, Over, HangupHead, Drained
<1>3. CASE /\ Drained /\ machine' = machine
           /\ \E w : w.type \in Initiations /\ seen' = seen \cup {w}
  BY <1>3 DEF HangupInv, HangupReported, Over, HangupHead, Drained, Initiations
<1>4. CASE Drained /\ seen' = seen /\ \E w : machine' = Adopted(w)
  <2>1. HangupReported => machine' = machine
    BY <1>4, AdoptedKeeps DEF HangupInv
  <2> QED BY <1>4, <2>1 DEF HangupInv, HangupReported, Over, HangupHead, Drained
<1>5. CASE \E w \in net : DeliverEvent(w)
  <2>1. PICK w \in net : DeliverEvent(w) BY <1>5
  <2>2. /\ Drained /\ journal' = Journal(w) /\ machine' = Adopted(w) /\ seen' = seen \cup {w}
        /\ ~isNone(machine) \/ row.exists
    BY <2>1 DEF DeliverEvent, Admit, Adopt
  <2>3. ~isNone(machine')  BY <2>2, AdoptedKeeps
  <2>4. HangupReported => Over'
    BY <2>2, AdoptedKeeps DEF HangupInv, HangupHead, Drained, Over
  <2>5. w.type \in {"inbound-hangup", "outbound-hangup"} => HangupHead'
    BY <2>2 DEF HangupHead, Journal
  <2> QED BY <2>2, <2>3, <2>4, <2>5 DEF HangupInv, HangupReported
<1>6. CASE Purge BY <1>6 DEF Purge, HangupInv, HangupReported
<1>7. CASE UNCHANGED vars
  BY <1>7 DEF vars, HangupInv, HangupReported, Over, HangupHead
<1> QED BY <1>1, <1>2, <1>3, <1>4, <1>5, <1>6, <1>7, Steps

\* Once the customer's hangup was admitted and its cascade has drained, the
\* session is over.
THEOREM HangupEndsSession == Spec => []HangupAlwaysEnds
<1>1. Init => HangupInv BY DEF Init, HangupInv, HangupReported
<1>2. TypeOK /\ HangupInv /\ [Next]_vars => HangupInv' BY HangupInvStep
<1>3. HangupInv => HangupAlwaysEnds
  BY DEF HangupInv, HangupAlwaysEnds, Resting, HangupHead, Drained
<1> QED BY <1>1, <1>2, <1>3, TypeCorrect, PTL DEF Spec

(***************************************************************************)
(* RingingCancelsNobody (T4, T2).  Inductive as it stands: RingingIsQuiet  *)
(* for the reducer, and an adopted session has no legs.                    *)
(***************************************************************************)
\* No leg of an empty or an adopted machine was ever given up.
LEMMA AdoptedCancelsNobody ==
  ASSUME NoneCanceled(machine), NEW w
  PROVE  NoneCanceled(Adopted(w)) /\ NoneCanceled(NoMachine)
<1>1. \A i \in LegId : NoMachine.legs[i].status = "unused" BY DEF NoMachine, UnusedLeg
<1>2. NoneCanceled(NoMachine) BY <1>1 DEF NoneCanceled, LegsWith
<1>3. reconstructMachine(w).legs = NoMachine.legs BY DEF reconstructMachine, NoMachine
<1>4. NoneCanceled(reconstructMachine(w)) BY <1>1, <1>3 DEF NoneCanceled, LegsWith
<1> QED BY <1>2, <1>4 DEF Adopted

\* Every step keeps it.
LEMMA RingingCancelsNobodyStep ==
  ASSUME TypeOK, NoneCanceled(machine), [Next]_vars
  PROVE  NoneCanceled(machine')
<1>1. CASE Reduce
  <2>1. journal.event \in Event /\ MachineOK(machine) BY <1>1 DEF TypeOK, JournalOK, Reduce
  <2>2. machine' = reduce(machine, journal.event).m BY <1>1 DEF Reduce
  <2> QED BY <2>1, <2>2, RingingIsQuiet
<1>2. CASE machine' = machine BY <1>2
<1>3. CASE \E w : machine' = Adopted(w) BY <1>3, AdoptedCancelsNobody
<1>4. CASE \E w \in net : DeliverEvent(w) BY <1>3, <1>4 DEF DeliverEvent, Adopt
<1>5. CASE Purge BY <1>2, <1>5, AdoptedCancelsNobody DEF Purge
<1>6. CASE UNCHANGED vars BY <1>2, <1>6 DEF vars
<1> QED BY <1>1, <1>2, <1>3, <1>4, <1>5, <1>6, Steps DEF Elsewhere, Kept

\* While a call rings, no leg of it has been given up.
THEOREM RingingUncanceled == Spec => []RingingCancelsNobody
<1>1. Init => RingingCancelsNobody
  BY DEF Init, RingingCancelsNobody, NoMachine
<1>2. TypeOK /\ RingingCancelsNobody /\ [Next]_vars => RingingCancelsNobody'
  BY RingingCancelsNobodyStep DEF RingingCancelsNobody, NoneCanceled
<1> QED BY <1>1, <1>2, TypeCorrect, PTL DEF Spec

(***************************************************************************)
(* MirrorOwedIsArmed (doMirror, retryPendingMirror).  Inductive with       *)
(* TypeOK, which says that no effect arms or clears the mirror-retry slot; *)
(* it needs that no alarm is lost between its slot and its admission       *)
(* (session-do.ts:481-484).                                                *)
(***************************************************************************)
\* Who touches the alarms, and who the pending mirror.
LEMMA MirrorOwedStep ==
  ASSUME TypeOK, Budget["loseAlarm"] = 0, MirrorOwedIsArmed, [Next]_vars
  PROVE  MirrorOwedIsArmed'
<1> USE DEF MirrorOwedIsArmed
<1>1. CASE Shell
  <2>1. CASE Execute
    <3>1. CASE ExecMirrorFails BY <3>1 DEF ExecMirrorFails
    <3>2. CASE ExecAlarmSlot
      <4>1. Effect.alarm \in AlarmKind
        BY <3>2, ExecutingIs, EffectFields DEF ExecAlarmSlot
      <4> QED BY <3>2, <4>1 DEF ExecAlarmSlot, AlarmKind
    <3>3. CASE ExecPushFanout BY <3>3 DEF ExecPushFanout
    <3> QED BY <2>1, <3>1, <3>2, <3>3
          DEF Execute, ExecMirror, ExecDial, ExecAnswerInbound, ExecAnswerNotice, ExecAnswerVm,
              AnswerCustomer, ExecBridge, ExecHangupLegs, ExecHangupCustomer, ExecReject, ExecMedia,
              ExecQuietly, ExecTerminalMerge, ExecVoicemailPipeline
  <2>2. \A slot : FireAlarm(slot) => MirrorOwedIsArmed' BY DEF FireAlarm
  <2> QED BY <1>1, <2>1, <2>2 DEF Shell, Reduce, RetryMirrorLands, Purge
<1>2. CASE Faults
  <2>1. spent["loseAlarm"] \in Nat BY DEF TypeOK, BudgetKind
  <2>2. \A slot : ~LoseAlarm(slot) BY <2>1 DEF LoseAlarm, Spend
  <2> QED BY <1>2, <2>2 DEF Faults, Lose, ClaimThenCrash, RetryMirrorFails, durable
<1>3. CASE Members
  BY <1>3 DEF Members, RingMe, Decline, Request, Consult, Tell, ConsultGate, ConsultRegister,
     ConsultDialed, ConsultAbandon, ConsultStamp, ConsultOwner, ConsultClear, ConsultSteal,
     ConsultStealFails, ConsultRestoreOwner, durable
<1>4. CASE Provider
  BY <1>4 DEF Provider, CustomerHangsUp, CustomerAnswers, MediaEnds, MemberAnswers, MemberLegEnds,
     durable
<1>5. CASE \E w \in net : Deliver(w)
  BY <1>5 DEF Deliver, DeliverSeen, DeliverInitiated, DeliverInitiatedLate, DeliverOutboundInitiated,
     RejectOutboundInitiated, DeliverEvent, DropUnknown, durable
<1>6. CASE UNCHANGED vars BY <1>6 DEF vars
<1> QED BY <1>1, <1>2, <1>3, <1>4, <1>5, <1>6 DEF Next

NoAlarmLost == Budget["loseAlarm"] = 0

\* A write owed to the row has its retry alarm, if no alarm is ever lost.
THEOREM MirrorOwed == NoAlarmLost /\ Spec => []MirrorOwedIsArmed
<1>1. Init => MirrorOwedIsArmed BY DEF Init, MirrorOwedIsArmed
<1>2. NoAlarmLost /\ TypeOK /\ MirrorOwedIsArmed /\ [Next]_vars => MirrorOwedIsArmed'
  BY MirrorOwedStep DEF NoAlarmLost
<1>3. NoAlarmLost => NoAlarmLost' BY DEF NoAlarmLost
<1> QED BY <1>1, <1>2, <1>3, TypeCorrect, PTL DEF Spec
================================================================================
