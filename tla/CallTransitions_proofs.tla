------------------------ MODULE CallTransitions_proofs ------------------------
(***************************************************************************)
(* Facts about the reducer that hold for every set of members and every    *)
(* leg cap: each handler turns a well-formed machine and event into a      *)
(* well-formed machine and executable effects.                             *)
(***************************************************************************)
EXTENDS CallTransitions, TLAPS, SequenceTheorems, WellFoundedInduction

(***************************************************************************)
(* Lists of effects.  IsEffects is about the range of the list; SomeEffects*)
(* is the same fact with the set left open, which is easier to combine.    *)
(***************************************************************************)
SomeEffects(fx) == \E S : fx \in Seq(S) /\ \A e \in S : IsEffect(e)

\* A list of effects is one whether its range is named or not.
LEMMA EffectsRange == ASSUME NEW fx PROVE SomeEffects(fx) <=> IsEffects(fx)
<1>1. ASSUME SomeEffects(fx) PROVE IsEffects(fx)
  <2>1. PICK S : fx \in Seq(S) /\ \A e \in S : IsEffect(e) BY <1>1 DEF SomeEffects
  <2> DEFINE R == {fx[i] : i \in DOMAIN fx}
  <2>2. fx \in Seq(R) BY <2>1
  <2>3. R \subseteq S BY <2>1
  <2> QED BY <2>1, <2>2, <2>3 DEF IsEffects
<1>2. ASSUME IsEffects(fx) PROVE SomeEffects(fx)
  BY <1>2 DEF IsEffects, SomeEffects
<1> QED BY <1>1, <1>2

\* A list over a set of effects.
LEMMA EffectsIn ==
  ASSUME NEW S, NEW fx \in Seq(S), \A e \in S : IsEffect(e) PROVE SomeEffects(fx)
  BY DEF SomeEffects

\* The empty list.
LEMMA Effects0 == SomeEffects(<<>>)
<1> DEFINE S == {}
<1>1. <<>> \in Seq(S) OBVIOUS
<1>2. \A e \in S : IsEffect(e) OBVIOUS
<1> HIDE DEF S
<1> QED BY <1>1, <1>2, EffectsIn

\* Lists of one to five effects.
LEMMA Effects1 == ASSUME NEW a, IsEffect(a) PROVE SomeEffects(<<a>>)
<1> DEFINE S == {a}
<1>1. <<a>> \in Seq(S) OBVIOUS
<1>2. \A x \in S : IsEffect(x) OBVIOUS
<1> HIDE DEF S
<1> QED BY <1>1, <1>2, EffectsIn

\* A list of two effects is a list of effects.
LEMMA Effects2 == ASSUME NEW a, NEW b, IsEffect(a), IsEffect(b) PROVE SomeEffects(<<a, b>>)
<1> DEFINE S == {a, b}
<1>1. <<a, b>> \in Seq(S) OBVIOUS
<1>2. \A x \in S : IsEffect(x) OBVIOUS
<1> HIDE DEF S
<1> QED BY <1>1, <1>2, EffectsIn

\* A list of three.
LEMMA Effects3 ==
  ASSUME NEW a, NEW b, NEW c,
         IsEffect(a), IsEffect(b), IsEffect(c)
  PROVE  SomeEffects(<<a, b, c>>)
<1> DEFINE S == {a, b, c}
<1>1. <<a, b, c>> \in Seq(S) OBVIOUS
<1>2. \A x \in S : IsEffect(x) OBVIOUS
<1> HIDE DEF S
<1> QED BY <1>1, <1>2, EffectsIn

\* A list of four.
LEMMA Effects4 ==
  ASSUME NEW a, NEW b, NEW c, NEW d,
         IsEffect(a), IsEffect(b), IsEffect(c), IsEffect(d)
  PROVE  SomeEffects(<<a, b, c, d>>)
<1> DEFINE S == {a, b, c, d}
<1>1. <<a, b, c, d>> \in Seq(S) OBVIOUS
<1>2. \A x \in S : IsEffect(x) OBVIOUS
<1> HIDE DEF S
<1> QED BY <1>1, <1>2, EffectsIn

\* A list of five.
LEMMA Effects5 ==
  ASSUME NEW a, NEW b, NEW c, NEW d, NEW e,
         IsEffect(a), IsEffect(b), IsEffect(c), IsEffect(d), IsEffect(e)
  PROVE  SomeEffects(<<a, b, c, d, e>>)
<1> DEFINE S == {a, b, c, d, e}
<1>1. <<a, b, c, d, e>> \in Seq(S) OBVIOUS
<1>2. \A x \in S : IsEffect(x) OBVIOUS
<1> HIDE DEF S
<1> QED BY <1>1, <1>2, EffectsIn

\* Concatenation and the optional list.
LEMMA EffectsConcat ==
  ASSUME NEW a, NEW b, SomeEffects(a), SomeEffects(b) PROVE SomeEffects(a \o b)
<1>1. PICK S : a \in Seq(S) /\ \A e \in S : IsEffect(e) BY DEF SomeEffects
<1>2. PICK R : b \in Seq(R) /\ \A e \in R : IsEffect(e) BY DEF SomeEffects
<1>3. a \in Seq(S \cup R) /\ b \in Seq(S \cup R) BY <1>1, <1>2
<1>4. a \o b \in Seq(S \cup R) BY <1>3
<1> QED BY <1>1, <1>2, <1>4 DEF SomeEffects

\* Effects that are only there under a condition.
LEMMA EffectsWhen ==
  ASSUME NEW b, NEW fx, SomeEffects(fx) PROVE SomeEffects(When(b, fx))
  BY Effects0 DEF When

(***************************************************************************)
(* Columns and single effects.                                             *)
(***************************************************************************)
\* What is written over columns, or leaves them alone, is a set of columns.
LEMMA ColumnsEmpty == IsColumns(NoColumns)
  BY DEF IsColumns, Column, NoColumns

\* Later columns laid over earlier ones are columns.
LEMMA ColumnsWritten ==
  ASSUME NEW a, NEW b, IsColumns(a), IsColumns(b) PROVE IsColumns(Written(a, b))
  BY DEF IsColumns, Written, Column

\* The columns of a state change.
LEMMA ColumnsState == ASSUME NEW s \in CallStates PROVE IsColumns([state |-> s])
  BY DEF IsColumns, Column

\* The columns an answer stamps.
LEMMA ColumnsAnswer ==
  ASSUME NEW s \in CallStates, NEW u \in Maybe(User), NEW b \in BOOLEAN
  PROVE  /\ IsColumns([state |-> s, answered_by_user_id |-> u, answered_at |-> b])
         /\ IsColumns([state |-> s, answered_by_user_id |-> u])
         /\ IsColumns([state |-> s, answered_at |-> b])
         /\ IsColumns([state |-> s, notice_spoken |-> b])
         /\ IsColumns([answered_by_user_id |-> u, answered_at |-> b])
         /\ IsColumns([answered_by_user_id |-> u])
         /\ IsColumns([notice_spoken |-> b])
  BY DEF IsColumns, Column

\* A mirror of typed columns is an effect.
LEMMA MirrorIsEffect == ASSUME NEW set, IsColumns(set) PROVE IsEffect(Mirror(set))
  BY DEF IsEffect, Mirror

\* Arming or clearing a slot is an effect.
LEMMA AlarmIsEffect ==
  ASSUME NEW alarm \in AlarmKind PROVE IsEffect(Arm(alarm)) /\ IsEffect(Clear(alarm))
  BY DEF IsEffect, PlainEffect, Arm, Clear

\* Dialing a range of legs is an effect.
LEMMA DialIsEffect ==
  ASSUME NEW i \in LegId, NEW j \in LegId PROVE IsEffect(Dial(i, j)) /\ IsEffect(DialPlacer(i))
  BY DEF IsEffect, PlainEffect, Dial, DialPlacer

\* A command to one member's leg is an effect.
LEMMA LegIsEffect ==
  ASSUME NEW l \in LegId, NEW u \in Maybe(User)
  PROVE  IsEffect(AnswerInbound(l, u)) /\ IsEffect(Probe(l, u)) /\ IsEffect(Bridge(l))
  BY DEF IsEffect, PlainEffect, AnswerInbound, Probe, Bridge

\* An effect without arguments.
LEMMA PlainIsEffect ==
  /\ IsEffect(AnswerNotice) /\ IsEffect(AnswerVm) /\ IsEffect(HangupCustomer) /\ IsEffect(Reject)
  /\ IsEffect(RecordStart) /\ IsEffect(PushFanout) /\ IsEffect(VoicemailPipeline)
  /\ IsEffect(Speak("voicemail-greeting")) /\ IsEffect(Speak("unavailable-notice"))
  BY DEF IsEffect, PlainEffect, AnswerNotice, AnswerVm, HangupCustomer, Reject, RecordStart,
         PushFanout, VoicemailPipeline, Speak

\* A terminal merge is an effect, and so is the end of the ring it pushes.
LEMMA OutcomeIsEffect ==
  /\ \A o \in Outcome : IsEffect(PushCallEnd(o))
  /\ \A o \in Ending : IsEffect(TerminalMerge(o))
  BY DEF IsEffect, PlainEffect, PushCallEnd, TerminalMerge

\* Hanging up a set of legs, none included.
LEMMA HangupsEffects == ASSUME NEW ls \in SUBSET LegId PROVE SomeEffects(Hangups(ls))
<1>1. IsEffect(HangupLegs(ls)) BY DEF IsEffect, PlainEffect, HangupLegs
<1> QED BY <1>1, Effects1, EffectsWhen DEF Hangups

(***************************************************************************)
(* Leg positions.                                                          *)
(***************************************************************************)
LEMMA FirstIn ==
  ASSUME NEW ls \in SUBSET Nat, ls # {} PROVE First(ls) \in ls
<1>1. PICK i \in ls : \A j \in ls : <<j, i>> \notin OpToRel(<, Nat)
  BY NatLessThanWellFounded, WFMin, Zenon
<1>2. \A j \in ls : ~(j < i) BY <1>1, Zenon DEF OpToRel
<1>3. \A j \in ls : i <= j BY <1>2
<1> QED BY <1>3 DEF First

\* The sets and positions the handlers pick from the leg map.
LEMMA LegsWithIn == ASSUME NEW m, NEW st PROVE LegsWith(m, st) \in SUBSET LegId
  BY DEF LegsWith

\* The legs the machine has a call control id for are legs.
LEMMA CcidsIn ==
  ASSUME NEW m, MachineOK(m), NEW ls \in SUBSET LegId PROVE CcidsOf(m, ls) \in SUBSET LegId
  BY DEF CcidsOf, MachineOK, SessionMachine, Leg

\* A leg that is found is one of the machine's.
LEMMA FindLegIn ==
  ASSUME NEW m, NEW c PROVE FindLeg(m, c) \in LegId \cup {NoLeg}
<1> DEFINE found == {i \in LegId : m.legs[i].ccid = c}
<1>1. CASE found = {} BY <1>1 DEF FindLeg
<1>2. CASE found # {}
  <2>1. found \in SUBSET Nat BY DEF LegId
  <2>2. First(found) \in found BY <1>2, <2>1, FirstIn
  <2> QED BY <1>2, <2>2 DEF FindLeg
<1> QED BY <1>1, <1>2

\* The first record a webhook's leg may be stamped on is a leg.
LEMMA FirstAdoptable ==
  ASSUME NEW m, NEW u, Adoptable(m, u) # {} PROVE First(Adoptable(m, u)) \in LegId
<1>1. Adoptable(m, u) \in SUBSET LegId /\ LegId \in SUBSET Nat BY DEF Adoptable, LegId
<1> QED BY <1>1, FirstIn

(***************************************************************************)
(* Every way a handler rewrites the machine keeps it well-formed.          *)
(***************************************************************************)
LEMMA NoMachineOK == MachineOK(NoMachine)
  BY MaxLegsAssumption DEF MachineOK, SessionMachine, NoMachine, UnusedLeg, Leg, LegStatus, NoLeg, LegId

\* Setting the status of legs keeps a machine typed.
LEMMA SetStatusOK ==
  ASSUME NEW m, MachineOK(m), NEW ls, NEW st \in LegStatus PROVE MachineOK(SetStatus(m, ls, st))
  BY DEF MachineOK, SessionMachine, SetStatus, Leg

\* Replacing the legs by typed legs does.
LEMMA LegsOK ==
  ASSUME NEW m, MachineOK(m), NEW legs \in [LegId -> Leg]
  PROVE  MachineOK([m EXCEPT !.legs = legs])
  BY DEF MachineOK, SessionMachine

\* Stamping a call control id does.
LEMMA StampOK ==
  ASSUME NEW m, MachineOK(m), NEW i \in LegId, NEW c \in LegId PROVE MachineOK(Stamp(m, i, c))
<1> DEFINE legs == [m.legs EXCEPT ![i].ccid = c]
<1>1. m.legs \in [LegId -> Leg] BY DEF MachineOK, SessionMachine
<1>2. legs \in [LegId -> Leg] BY <1>1 DEF Leg
<1> QED BY <1>2, LegsOK DEF Stamp

\* Moving to another state does.
LEMMA StateOK ==
  ASSUME NEW m, MachineOK(m), NEW s \in CallStates
  PROVE  MachineOK([m EXCEPT !.state = s]) /\ MachineOK([m EXCEPT !.state = s, !.queue = {}])
  BY DEF MachineOK, SessionMachine

\* Appending a leg does.
LEMMA PushLegOK ==
  ASSUME NEW m, MachineOK(m), m.dialed < MaxLegs, NEW u \in User, NEW b \in BOOLEAN
  PROVE  /\ MachineOK(PushLeg(m, u, b))
         /\ PushLeg(m, u, b).dialed = m.dialed + 1
         /\ m.dialed + 1 \in LegId
<1> DEFINE leg  == [user |-> u, status |-> "dialing", ccid |-> NoLeg, ringMe |-> b]
           more == [m EXCEPT !.dialed = @ + 1]
           legs == [m.legs EXCEPT ![m.dialed + 1] = leg]
<1>1. m.legs \in [LegId -> Leg] /\ m.dialed \in 0 .. MaxLegs BY DEF MachineOK, SessionMachine
<1>2. m.dialed + 1 \in LegId /\ m.dialed + 1 \in 0 .. MaxLegs BY <1>1, MaxLegsAssumption DEF LegId
<1>3. leg \in Leg BY DEF Leg, LegStatus
<1>4. legs \in [LegId -> Leg] BY <1>1, <1>3
<1>5. MachineOK(more) BY <1>2 DEF MachineOK, SessionMachine
<1>6. PushLeg(m, u, b) = [more EXCEPT !.legs = legs] BY DEF PushLeg, MachineOK, SessionMachine
<1>7. PushLeg(m, u, b).dialed = m.dialed + 1 BY DEF PushLeg, MachineOK, SessionMachine
<1> HIDE DEF more, legs
<1> QED BY <1>2, <1>4, <1>5, <1>6, <1>7, LegsOK

\* Setting any of the scalar fields does.
LEMMA FieldsOK ==
  ASSUME NEW m, MachineOK(m), NEW s \in CallStates, NEW u \in Maybe(User), NEW b \in BOOLEAN,
         NEW S
  PROVE  /\ MachineOK([m EXCEPT !.ownerLegDead = u])
         /\ MachineOK([m EXCEPT !.answerIntent = u])
         /\ MachineOK([m EXCEPT !.owner = u, !.answered = TRUE])
         /\ MachineOK([m EXCEPT !.owner = u, !.ownerLegDead = NoUser])
         /\ MachineOK([m EXCEPT !.intent = b])
         /\ MachineOK([m EXCEPT !.intent = b, !.ownerLegDead = NoUser])
         /\ MachineOK([m EXCEPT !.noticeSpoken = b])
         /\ MachineOK([m EXCEPT !.state = s, !.answered = TRUE])
         /\ MachineOK([m EXCEPT !.state = s, !.owner = u, !.answered = TRUE,
                                !.answerIntent = NoUser])
         /\ MachineOK([m EXCEPT !.push = @ \ S])
         /\ MachineOK([m EXCEPT !.queue = m.queue \ S])
         /\ MachineOK([m EXCEPT !.queue = (m.queue \ m.declined) \ S])
  BY DEF MachineOK, SessionMachine, Maybe

\* What the shared endings leave behind is a result.
IsResult(r) == MachineOK(r.m) /\ SomeEffects(r.fx)

\* A typed machine with typed effects is a result.
LEMMA ResultIs ==
  ASSUME NEW m, NEW fx, MachineOK(m), SomeEffects(fx)
  PROVE  /\ IsResult(Result(m, fx)) /\ IsResult(NoEffect(m))
         /\ Result(m, fx).m = m /\ Result(m, fx).fx = fx
         /\ NoEffect(m).m = m /\ NoEffect(m).fx = <<>>
  BY Effects0 DEF IsResult, Result, NoEffect

\* cancelAllLiveLegs returns a typed machine and typed effects.
LEMMA cancelAllLiveLegsIs ==
  ASSUME NEW m, MachineOK(m) PROVE IsResult(cancelAllLiveLegs(m))
<1> DEFINE ls == LegsWith(m, {"dialing", "ringing"})
<1>1. ls \in SUBSET LegId BY LegsWithIn
<1>2. MachineOK(SetStatus(m, ls, "canceling")) BY SetStatusOK DEF LegStatus
<1>3. SomeEffects(Hangups(CcidsOf(m, ls))) BY <1>1, CcidsIn, HangupsEffects
<1> QED BY <1>2, <1>3, ResultIs DEF cancelAllLiveLegs

\* vmEntry returns a typed machine and typed effects.
LEMMA vmEntryIs == ASSUME NEW m, MachineOK(m) PROVE IsResult(vmEntry(m))
<1> DEFINE fx == << Mirror([state |-> "voicemail_greeting"]), Clear("ring"), Clear("ring-step"),
                    AnswerVm, PushCallEnd("voicemail") >>
<1>1. "voicemail_greeting" \in CallStates BY DEF CallStates
<1>2. MachineOK([m EXCEPT !.state = "voicemail_greeting", !.queue = {}]) BY <1>1, StateOK
<1>3. IsEffect(Mirror([state |-> "voicemail_greeting"])) BY <1>1, ColumnsState, MirrorIsEffect
<1>4. IsEffect(Clear("ring")) /\ IsEffect(Clear("ring-step")) BY AlarmIsEffect DEF AlarmKind
<1>5. IsEffect(AnswerVm) /\ IsEffect(PushCallEnd("voicemail"))
  BY PlainIsEffect, OutcomeIsEffect DEF Outcome
<1>6. SomeEffects(fx) BY <1>3, <1>4, <1>5, Effects5
<1> QED BY <1>2, <1>6, ResultIs DEF vmEntry

\* runAvenueLadder returns a typed machine and typed effects.
LEMMA runAvenueLadderIs == ASSUME NEW m, MachineOK(m) PROVE IsResult(runAvenueLadder(m))
  BY vmEntryIs, ResultIs, Effects0 DEF runAvenueLadder

\* terminalize returns a typed machine and typed effects.
LEMMA terminalizeIs ==
  ASSUME NEW m, MachineOK(m), NEW target \in TerminalStates, NEW merged \in Ending,
         NEW reason \in Outcome \cup {"null"}, NEW extra, IsColumns(extra)
  PROVE  IsResult(terminalize(m, target, merged, reason, extra))
<1> DEFINE cut  == cancelAllLiveLegs([m EXCEPT !.state = target])
           op   == PlacerToReap(m)
           fx1  == Hangups(CcidsOf(m, op))
           fx2  == << Mirror(Written([state |-> target], extra)), TerminalMerge(merged) >>
           fx3  == When(m.state = "ringing" /\ reason # "null", <<PushCallEnd(reason)>>)
           fx4  == When(~isTerminal(m.state),
                       <<Clear("ring"), Clear("ring-step"), Clear("fanout-settle"), Arm("purge")>>)
<1>1. target \in CallStates BY DEF CallStates
<1>2. IsResult(cut) BY <1>1, StateOK, cancelAllLiveLegsIs
<1>3. MachineOK(SetStatus(cut.m, op, "dead")) BY <1>2, SetStatusOK DEF IsResult, LegStatus
<1>4. op \in SUBSET LegId BY LegsWithIn DEF PlacerToReap, answeredPlacer
<1>5. SomeEffects(fx1) BY <1>4, CcidsIn, HangupsEffects
<1>6. SomeEffects(fx2)
  BY <1>1, ColumnsState, ColumnsWritten, MirrorIsEffect, OutcomeIsEffect, Effects2
<1>7. SomeEffects(fx3)
  <2>1. CASE reason = "null" BY <2>1, Effects0 DEF When
  <2>2. CASE reason \in Outcome BY <2>2, OutcomeIsEffect, Effects1, EffectsWhen
  <2> QED BY <2>1, <2>2
<1>8. SomeEffects(fx4)
  <2>1. /\ IsEffect(Clear("ring")) /\ IsEffect(Clear("ring-step"))
        /\ IsEffect(Clear("fanout-settle")) /\ IsEffect(Arm("purge"))
    BY AlarmIsEffect DEF AlarmKind
  <2> QED BY <2>1, Effects4, EffectsWhen
<1>9. terminalize(m, target, merged, reason, extra)
        = Result(SetStatus(cut.m, op, "dead"), (((cut.fx \o fx1) \o fx2) \o fx3) \o fx4)
  BY DEF terminalize
<1> HIDE DEF fx1, fx2, fx3, fx4, op, cut
<1>10. SomeEffects((((cut.fx \o fx1) \o fx2) \o fx3) \o fx4)
  BY <1>2, <1>5, <1>6, <1>7, <1>8, EffectsConcat DEF IsResult
<1> QED BY <1>3, <1>9, <1>10, ResultIs

\* ownerDeathTeardown returns a typed machine and typed effects.
LEMMA ownerDeathTeardownIs ==
  ASSUME NEW m, MachineOK(m) PROVE IsResult(ownerDeathTeardown(m))
<1>1. MachineOK([m EXCEPT !.ownerLegDead = NoUser]) BY FieldsOK DEF Maybe, CallStates
<1>2. SomeEffects(<<HangupCustomer>>) BY PlainIsEffect, Effects1
<1> QED BY <1>1, <1>2, ResultIs DEF ownerDeathTeardown

\* The terminal states and outcomes the endings name.
LEMMA EndingsIn ==
  /\ {"ended_answered", "ended_missed", "ended_voicemail"} \subseteq TerminalStates
  /\ \A m : MissedState(m) \in TerminalStates
  /\ {"answered", "voicemail", "missed"} \subseteq Outcome /\ {"answered", "missed"} \subseteq Ending
  /\ {"ringing", "answered", "dialing", "voicemail_greeting", "voicemail_recording",
      "ended_answered", "ended_missed", "ended_voicemail"} \subseteq CallStates
  BY DEF TerminalStates, MissedState, Outcome, Ending, CallStates

\* The owner's columns are columns.
LEMMA OwnerColumnsIn == ASSUME NEW m, MachineOK(m) PROVE IsColumns(OwnerColumns(m))
<1>1. m.owner \in Maybe(User) /\ m.answered \in BOOLEAN
  BY DEF MachineOK, SessionMachine, Maybe
<1>2. IsColumns([answered_by_user_id |-> m.owner, answered_at |-> m.answered])
  BY <1>1, ColumnsAnswer, EndingsIn
<1> QED BY <1>2, ColumnsEmpty DEF OwnerColumns

(***************************************************************************)
(* The handlers.                                                           *)
(***************************************************************************)
LEMMA HangupStrayIs ==
  ASSUME NEW m, MachineOK(m), NEW c \in LegId PROVE IsResult(HangupStray(m, c))
  BY HangupsEffects, ResultIs DEF HangupStray

\* AnswerFor returns a typed machine and typed effects.
LEMMA AnswerForIs ==
  ASSUME NEW m, MachineOK(m), NEW c \in LegId, NEW u \in Maybe(User)
  PROVE  IsResult(AnswerFor(m, c, u))
<1>1. MachineOK([m EXCEPT !.answerIntent = u]) BY FieldsOK, EndingsIn
<1>2. SomeEffects(<<AnswerInbound(c, u)>>) BY LegIsEffect, Effects1
<1> QED BY <1>1, <1>2, ResultIs DEF AnswerFor

\* Locating the leg a webhook speaks of keeps the machine typed.
LEMMA LocatedIs ==
  ASSUME NEW m, MachineOK(m), NEW ev, ev.leg \in LegId, NEW b \in BOOLEAN
  PROVE  MachineOK(Located(m, ev, b).m) /\ Located(m, ev, b).leg \in LegId \cup {NoLeg}
<1> DEFINE new == Adoptable(m, ev.user)
<1>1. FindLeg(m, ev.leg) \in LegId \cup {NoLeg} BY FindLegIn
<1>2. new # {} => First(new) \in LegId BY FirstAdoptable
<1>3. new # {} => MachineOK(Stamp(m, First(new), ev.leg)) BY <1>2, StampOK
<1> HIDE DEF new
<1> QED BY <1>1, <1>2, <1>3 DEF Located, new

\* reduceMemberAnswered returns a typed machine and typed effects.
LEMMA reduceMemberAnsweredIs ==
  ASSUME NEW m, MachineOK(m), NEW ev, ev.leg \in LegId, ev.user \in Maybe(User)
  PROVE  IsResult(reduceMemberAnswered(m, ev))
<1> DEFINE at      == Located(m, ev, m.state = "ringing")
           leg     == at.leg
           revived == leg # NoLeg /\ m.legs[leg].ccid = NoLeg /\ m.legs[leg].status = "ambiguous"
           n       == SetStatus(at.m, IF revived THEN {leg} ELSE {}, "ringing")
<1>1. MachineOK(at.m) BY LocatedIs
<1>2. MachineOK(n) BY <1>1, SetStatusOK DEF LegStatus
<1> HIDE DEF at
<1>3. IsResult(HangupStray(m, ev.leg)) /\ IsResult(HangupStray(n, ev.leg)) BY <1>2, HangupStrayIs
<1>4. IsResult(NoEffect(n)) BY <1>2, ResultIs, Effects0
<1>5. IsResult(Result(n, <<Probe(ev.leg, ev.user)>>))
  BY <1>2, LegIsEffect, Effects1, ResultIs
<1>6. IsResult(AnswerFor(n, ev.leg, ev.user)) BY <1>2, AnswerForIs
<1> QED BY <1>3, <1>4, <1>5, <1>6 DEF reduceMemberAnswered, at

\* answerLost returns a typed machine and typed effects.
LEMMA answerLostIs ==
  ASSUME NEW m, MachineOK(m), NEW ev, ev.leg \in LegId PROVE IsResult(answerLost(m, ev))
<1> DEFINE leg  == FindLeg(m, ev.leg)
           cut  == IF leg # NoLeg /\ m.legs[leg].status # "dead" THEN {leg} ELSE {}
           n    == SetStatus(m, cut, "canceling")
           over == terminalize(n, MissedState(m), "missed", "missed", NoColumns)
           fx   == When(cut # {}, Hangups({ev.leg}))
<1>1. MachineOK(n) BY SetStatusOK DEF LegStatus
<1>2. IsResult(over) BY <1>1, EndingsIn, ColumnsEmpty, terminalizeIs
<1>3. SomeEffects(fx) BY HangupsEffects, EffectsWhen
<1>4. answerLost(m, ev) = Result(over.m, fx \o over.fx) BY DEF answerLost
<1> HIDE DEF fx, over
<1> QED BY <1>2, <1>3, <1>4, EffectsConcat, ResultIs DEF IsResult

\* answerWon returns a typed machine and typed effects.
LEMMA answerWonIs ==
  ASSUME NEW m, MachineOK(m), NEW ev, ev.leg \in LegId, ev.user \in Maybe(User)
  PROVE  IsResult(answerWon(m, ev))
<1> DEFINE losers == {i \in LegsWith(m, {"dialing", "ringing"}) : m.legs[i].ccid # ev.leg}
           winner == {FindLeg(m, ev.leg)} \ {NoLeg}
           n      == SetStatus(SetStatus(m, losers, "canceling"), winner, "answered")
           fx1    == << Mirror([state |-> "answered", answered_by_user_id |-> ev.user,
                                answered_at |-> TRUE]),
                        Bridge(ev.leg) >>
           fx2    == Hangups(CcidsOf(m, losers))
           fx3    == << Clear("ring"), Clear("fanout-settle"), PushCallEnd("answered") >>
<1>1. MachineOK(n) BY SetStatusOK DEF LegStatus
<1>2. MachineOK([n EXCEPT !.state = "answered", !.owner = ev.user, !.answered = TRUE,
                          !.answerIntent = NoUser])
  BY <1>1, FieldsOK, EndingsIn
<1>3. losers \in SUBSET LegId BY LegsWithIn
<1>4. SomeEffects(fx1)
  BY EndingsIn, ColumnsAnswer, MirrorIsEffect, LegIsEffect, Effects2
<1>5. SomeEffects(fx2) BY <1>3, CcidsIn, HangupsEffects
<1>6. SomeEffects(fx3)
  <2>1. IsEffect(Clear("ring")) /\ IsEffect(Clear("fanout-settle"))
    BY AlarmIsEffect DEF AlarmKind
  <2>2. IsEffect(PushCallEnd("answered")) BY OutcomeIsEffect DEF Outcome
  <2> QED BY <2>1, <2>2, Effects3
<1>7. answerWon(m, ev)
        = Result([n EXCEPT !.state = "answered", !.owner = ev.user, !.answered = TRUE,
                           !.answerIntent = NoUser], (fx1 \o fx2) \o fx3)
  BY DEF answerWon
<1> HIDE DEF fx1, fx2, fx3, n
<1> QED BY <1>2, <1>4, <1>5, <1>6, <1>7, EffectsConcat, ResultIs

\* reduceAnswerOutcome returns a typed machine and typed effects.
LEMMA reduceAnswerOutcomeIs ==
  ASSUME NEW m, MachineOK(m), NEW ev, ev.leg \in LegId, ev.user \in Maybe(User)
  PROVE  IsResult(reduceAnswerOutcome(m, ev))
  BY answerWonIs, answerLostIs, ResultIs, Effects0 DEF reduceAnswerOutcome

\* reduceProbeOutcome returns a typed machine and typed effects.
LEMMA reduceProbeOutcomeIs ==
  ASSUME NEW m, MachineOK(m), NEW ev, ev.leg \in LegId, ev.user \in Maybe(User)
  PROVE  IsResult(reduceProbeOutcome(m, ev))
<1>1. MachineOK(SetStatus(m, {FindLeg(m, ev.leg)}, "dead")) BY SetStatusOK DEF LegStatus
<1> QED BY <1>1, AnswerForIs, runAvenueLadderIs, ResultIs, Effects0 DEF reduceProbeOutcome

\* reduceMemberHangup returns a typed machine and typed effects.
LEMMA reduceMemberHangupIs ==
  ASSUME NEW m, MachineOK(m), NEW ev, ev.leg \in LegId, ev.user \in Maybe(User)
  PROVE  IsResult(reduceMemberHangup(m, ev))
<1> DEFINE at   == Located(m, ev, m.state = "ringing")
           dead == SetStatus(at.m, {at.leg}, "dead")
<1>1. MachineOK(dead) BY LocatedIs, SetStatusOK DEF LegStatus
<1>2. MachineOK([dead EXCEPT !.ownerLegDead = ev.user]) BY <1>1, FieldsOK, EndingsIn
<1> HIDE DEF at, dead
<1>3. /\ IsResult(NoEffect(m)) /\ IsResult(runAvenueLadder(dead)) /\ IsResult(NoEffect(dead))
      /\ IsResult(NoEffect([dead EXCEPT !.ownerLegDead = ev.user]))
      /\ IsResult(ownerDeathTeardown(dead))
  BY <1>1, <1>2, runAvenueLadderIs, ownerDeathTeardownIs, ResultIs, Effects0
<1> QED BY <1>3 DEF reduceMemberHangup, at, dead

\* The columns stamped from the answer intent are columns.
LEMMA StampFromIntentIs ==
  ASSUME NEW m, MachineOK(m) PROVE MachineOK(StampFromIntent(m))
<1>1. m.answerIntent \in Maybe(User) BY DEF MachineOK, SessionMachine, Maybe
<1> QED BY <1>1, FieldsOK, EndingsIn DEF StampFromIntent

\* briUpgrade returns a typed machine and typed effects.
LEMMA briUpgradeIs ==
  ASSUME NEW m, MachineOK(m), NEW ev, ev.merged \in Ending PROVE IsResult(briUpgrade(m, ev))
<1> DEFINE by == IF m.answerIntent # NoUser THEN StampFromIntent(m) ELSE m
           up == [by EXCEPT !.state = "ended_answered"]
<1>1. MachineOK(by) BY StampFromIntentIs
<1>2. MachineOK(up) BY <1>1, StateOK, EndingsIn
<1>3. IsColumns(Written([state |-> "ended_answered"], OwnerColumns(up)))
  BY <1>2, OwnerColumnsIn, ColumnsState, EndingsIn, ColumnsWritten
<1>4. SomeEffects(<< Mirror(Written([state |-> "ended_answered"], OwnerColumns(up))),
                     TerminalMerge(ev.merged) >>)
  BY <1>3, MirrorIsEffect, OutcomeIsEffect, Effects2
<1> QED BY <1>2, <1>4, ResultIs DEF briUpgrade

\* briHangup returns a typed machine and typed effects.
LEMMA briHangupIs ==
  ASSUME NEW m, MachineOK(m), NEW ev, ev.merged \in Ending PROVE IsResult(briHangup(m, ev))
<1> DEFINE by == IF m.owner = NoUser /\ m.answerIntent # NoUser THEN StampFromIntent(m) ELSE m
<1>1. MachineOK(by) BY StampFromIntentIs
<1> HIDE DEF by
<1>2. IsColumns(OwnerColumns(by)) BY <1>1, OwnerColumnsIn
<1>3. IsResult(terminalize(by, "ended_answered", ev.merged, "answered", OwnerColumns(by)))
  BY <1>1, <1>2, EndingsIn, terminalizeIs
<1> QED BY <1>3 DEF briHangup, by

\* reduceInboundHangup returns a typed machine and typed effects.
LEMMA reduceInboundHangupIs ==
  ASSUME NEW m, MachineOK(m), NEW ev, ev.merged \in Ending, ev.tag \in {"untagged", "bri", "vmi"}
  PROVE  IsResult(reduceInboundHangup(m, ev))
<1>1. /\ IsResult(briUpgrade(m, ev)) /\ IsResult(briHangup(m, ev)) /\ IsResult(NoEffect(m))
  BY briUpgradeIs, briHangupIs, ResultIs, Effects0
<1>2. /\ IsResult(terminalize(m, "ended_missed", ev.merged, "missed", NoColumns))
      /\ IsResult(terminalize(m, "ended_answered", ev.merged, "null", NoColumns))
      /\ IsResult(terminalize(m, "ended_missed", ev.merged, "null", NoColumns))
      /\ IsResult(terminalize(m, MissedState(m), ev.merged, "missed", NoColumns))
  BY EndingsIn, ColumnsEmpty, terminalizeIs
<1> QED BY <1>1, <1>2 DEF reduceInboundHangup

\* reduceInboundLegGone returns a typed machine and typed effects.
LEMMA reduceInboundLegGoneIs ==
  ASSUME NEW m, MachineOK(m) PROVE IsResult(reduceInboundLegGone(m))
  BY EndingsIn, ColumnsEmpty, terminalizeIs, ResultIs, Effects0 DEF reduceInboundLegGone

\* reduceSpeakEnded returns a typed machine and typed effects.
LEMMA reduceSpeakEndedIs ==
  ASSUME NEW m, MachineOK(m) PROVE IsResult(reduceSpeakEnded(m))
<1>1. IsResult(Result(m, <<HangupCustomer>>)) BY PlainIsEffect, Effects1, ResultIs
<1>2. IsResult(NoEffect(m)) BY ResultIs, Effects0
<1>3. MachineOK([m EXCEPT !.state = "voicemail_recording"]) BY EndingsIn, StateOK
<1>4. SomeEffects(<< Mirror([state |-> "voicemail_recording"]), RecordStart >>)
  BY EndingsIn, ColumnsState, MirrorIsEffect, PlainIsEffect, Effects2
<1> QED BY <1>1, <1>2, <1>3, <1>4, ResultIs DEF reduceSpeakEnded

\* reduceRecordingSaved returns a typed machine and typed effects.
LEMMA reduceRecordingSavedIs ==
  ASSUME NEW m, MachineOK(m) PROVE IsResult(reduceRecordingSaved(m))
<1> DEFINE fx1 == << VoicemailPipeline, Mirror([state |-> "ended_voicemail"]) >>
           fx2 == When(m.state = "voicemail_recording", <<Arm("purge")>>)
           n   == [m EXCEPT !.state = "ended_voicemail"]
<1>1. MachineOK(n) BY EndingsIn, StateOK
<1>2. SomeEffects(fx1) BY EndingsIn, ColumnsState, MirrorIsEffect, PlainIsEffect, Effects2
<1>3. IsEffect(Arm("purge")) BY AlarmIsEffect DEF AlarmKind
<1>4. SomeEffects(fx2) BY <1>3, Effects1, EffectsWhen
<1> HIDE DEF fx1, fx2, n
<1>5. IsResult(Result(n, fx1 \o fx2)) /\ IsResult(NoEffect(m))
  BY <1>1, <1>2, <1>4, EffectsConcat, ResultIs, Effects0
<1> QED BY <1>5 DEF reduceRecordingSaved, fx1, fx2, n

\* reduceNoticeAnswerOutcome returns a typed machine and typed effects.
LEMMA reduceNoticeAnswerOutcomeIs ==
  ASSUME NEW m, MachineOK(m), NEW ev PROVE IsResult(reduceNoticeAnswerOutcome(m, ev))
<1>1. MachineOK([m EXCEPT !.noticeSpoken = FALSE]) BY FieldsOK, EndingsIn DEF Maybe
<1>2. SomeEffects(<<Speak("unavailable-notice")>>) BY PlainIsEffect, Effects1
<1>3. SomeEffects(<<Mirror([notice_spoken |-> FALSE])>>)
  BY ColumnsAnswer, EndingsIn, MirrorIsEffect, Effects1 DEF Maybe
<1> QED BY <1>1, <1>2, <1>3, Effects0, ResultIs DEF reduceNoticeAnswerOutcome

\* reduceVmAnswerOutcome returns a typed machine and typed effects.
LEMMA reduceVmAnswerOutcomeIs ==
  ASSUME NEW m, MachineOK(m), NEW ev PROVE IsResult(reduceVmAnswerOutcome(m, ev))
<1> DEFINE cut == cancelAllLiveLegs(m)
<1>1. IsResult(cut) BY cancelAllLiveLegsIs
<1> HIDE DEF cut
<1>2. SomeEffects(<<Speak("voicemail-greeting")>> \o cut.fx)
  BY <1>1, PlainIsEffect, Effects1, EffectsConcat DEF IsResult
<1>3. IsResult(Result(cut.m, <<Speak("voicemail-greeting")>> \o cut.fx))
  BY <1>1, <1>2, ResultIs DEF IsResult
<1>4. IsResult(terminalize(m, MissedState(m), "missed", "null", NoColumns)) /\ IsResult(NoEffect(m))
  BY EndingsIn, ColumnsEmpty, terminalizeIs, ResultIs, Effects0
<1> QED BY <1>3, <1>4 DEF reduceVmAnswerOutcome, cut

\* reduceDialOutcome returns a typed machine and typed effects.
LEMMA reduceDialOutcomeIs ==
  ASSUME NEW m, MachineOK(m), NEW ev, ev.leg \in LegId PROVE IsResult(reduceDialOutcome(m, ev))
<1> DEFINE leg     == m.legs[ev.leg]
           stamped == SetStatus(Stamp(m, ev.leg, ev.leg),
                                IF leg.status = "dialing" THEN {ev.leg} ELSE {}, "ringing")
           failed  == SetStatus(m, {ev.leg},
                                IF ev.outcome = "ambiguous" THEN "ambiguous" ELSE "dead")
           over    == terminalize(failed, "ended_missed", "missed", "null", NoColumns)
<1>1. MachineOK(stamped) BY StampOK, SetStatusOK DEF LegStatus
<1>2. MachineOK(failed) BY SetStatusOK DEF LegStatus
<1>3. IsResult(over) BY <1>2, EndingsIn, ColumnsEmpty, terminalizeIs
<1> HIDE DEF stamped, failed, over
<1>4. /\ IsResult(NoEffect(m)) /\ IsResult(NoEffect(stamped)) /\ IsResult(NoEffect(failed))
      /\ IsResult(runAvenueLadder(failed))
  BY <1>1, <1>2, runAvenueLadderIs, ResultIs, Effects0
<1>5. IsResult(Result(over.m, over.fx \o <<HangupCustomer>>))
  BY <1>3, PlainIsEffect, Effects1, EffectsConcat, ResultIs DEF IsResult
<1> QED BY <1>4, <1>5 DEF reduceDialOutcome, stamped, failed, over

\* reducePushFanoutSettled returns a typed machine and typed effects.
LEMMA reducePushFanoutSettledIs ==
  ASSUME NEW m, MachineOK(m), NEW ev PROVE IsResult(reducePushFanoutSettled(m, ev))
<1> DEFINE res == runAvenueLadder([m EXCEPT !.push = @ \ ev.unreachable])
<1>1. MachineOK([m EXCEPT !.push = @ \ ev.unreachable]) BY FieldsOK, EndingsIn DEF Maybe
<1>2. IsResult(res) BY <1>1, runAvenueLadderIs
<1>3. IsEffect(Clear("fanout-settle")) BY AlarmIsEffect DEF AlarmKind
<1> HIDE DEF res
<1>4. SomeEffects(<<Clear("fanout-settle")>> \o res.fx)
  BY <1>2, <1>3, Effects1, EffectsConcat DEF IsResult
<1> QED BY <1>2, <1>4, ResultIs DEF reducePushFanoutSettled, IsResult, res

\* reduceRingMe returns a typed machine and typed effects.
LEMMA reduceRingMeIs ==
  ASSUME NEW m, MachineOK(m), NEW ev, ev.user \in User PROVE IsResult(reduceRingMe(m, ev))
<1>1. CASE m.dialed >= MaxLegs
  BY <1>1, ResultIs, Effects0 DEF reduceRingMe
<1>2. CASE ~(m.dialed >= MaxLegs)
  <2> DEFINE n == PushLeg(m, ev.user, TRUE)
  <2>1. m.dialed < MaxLegs BY <1>2, MaxLegsAssumption DEF MachineOK, SessionMachine
  <2>2. MachineOK(n) /\ m.dialed + 1 \in LegId BY <2>1, PushLegOK
  <2>3. SomeEffects(<<Dial(m.dialed + 1, m.dialed + 1)>>) BY <2>2, DialIsEffect, Effects1
  <2> HIDE DEF n
  <2>4. IsResult(Result(n, <<Dial(m.dialed + 1, m.dialed + 1)>>)) /\ IsResult(NoEffect(m))
    BY <2>2, <2>3, ResultIs, Effects0
  <2> QED BY <2>4 DEF reduceRingMe, n
<1> QED BY <1>1, <1>2

\* reduceDecline returns a typed machine and typed effects.
LEMMA reduceDeclineIs ==
  ASSUME NEW m, MachineOK(m), NEW ev, ev.user \in User PROVE IsResult(reduceDecline(m, ev))
<1> DEFINE mine == {i \in liveLegs(m) : m.legs[i].user = ev.user}
           dead == SetStatus(m, mine, "dead")
           n    == [dead EXCEPT !.declined = @ \cup {ev.user},
                                !.push     = @ \ {ev.user},
                                !.queue    = @ \ {ev.user}]
           res  == runAvenueLadder(n)
           fx   == Hangups(CcidsOf(m, mine))
<1>1. MachineOK(dead) BY SetStatusOK DEF LegStatus
<1> HIDE DEF dead
<1>2. MachineOK(n) BY <1>1 DEF MachineOK, SessionMachine
<1>3. IsResult(res) BY <1>2, runAvenueLadderIs
<1>4. mine \in SUBSET LegId BY LegsWithIn DEF liveLegs
<1>5. SomeEffects(fx) BY <1>4, CcidsIn, HangupsEffects
<1> HIDE DEF res, fx
<1>6. IsResult(Result(res.m, fx \o res.fx)) /\ IsResult(NoEffect(m))
  BY <1>3, <1>5, EffectsConcat, ResultIs, Effects0 DEF IsResult
<1> QED BY <1>6 DEF reduceDecline, res, fx, dead

\* reduceSetOwner returns a typed machine and typed effects.
LEMMA reduceSetOwnerIs ==
  ASSUME NEW m, MachineOK(m), NEW ev, ev.user \in User PROVE IsResult(reduceSetOwner(m, ev))
<1>1. ev.user \in Maybe(User) BY DEF Maybe
<1>2. MachineOK([m EXCEPT !.owner = ev.user, !.ownerLegDead = NoUser])
  BY <1>1, FieldsOK, EndingsIn
<1>3. SomeEffects(<<Mirror([answered_by_user_id |-> ev.user])>>)
  BY <1>1, ColumnsAnswer, EndingsIn, MirrorIsEffect, Effects1
<1> QED BY <1>2, <1>3, ResultIs DEF reduceSetOwner

\* reduceRegisterIntent returns a typed machine and typed effects.
LEMMA reduceRegisterIntentIs ==
  ASSUME NEW m, MachineOK(m) PROVE IsResult(reduceRegisterIntent(m))
<1>1. MachineOK([m EXCEPT !.intent = TRUE]) BY FieldsOK, EndingsIn DEF Maybe
<1>2. SomeEffects(<<Arm("intent-expiry")>>) BY AlarmIsEffect, Effects1 DEF AlarmKind
<1> QED BY <1>1, <1>2, ResultIs DEF reduceRegisterIntent

\* reduceClearIntent returns a typed machine and typed effects.
LEMMA reduceClearIntentIs ==
  ASSUME NEW m, MachineOK(m) PROVE IsResult(reduceClearIntent(m))
<1> DEFINE cleared == [m EXCEPT !.intent = FALSE]
           down    == ownerDeathTeardown(cleared)
           quiet   == [cleared EXCEPT !.ownerLegDead = NoUser]
<1>1. MachineOK(cleared) BY FieldsOK, EndingsIn DEF Maybe
<1> HIDE DEF cleared
<1>2. MachineOK(quiet) BY <1>1, FieldsOK, EndingsIn DEF Maybe
<1>3. IsResult(down) BY <1>1, ownerDeathTeardownIs
<1>4. SomeEffects(<<Clear("intent-expiry")>>) BY AlarmIsEffect, Effects1 DEF AlarmKind
<1> HIDE DEF down, quiet
<1>5. /\ IsResult(Result(down.m, <<Clear("intent-expiry")>> \o down.fx))
      /\ IsResult(Result(quiet, <<Clear("intent-expiry")>>))
  BY <1>2, <1>3, <1>4, EffectsConcat, ResultIs DEF IsResult
<1> QED BY <1>5 DEF reduceClearIntent, down, quiet, cleared

\* reduceAlarmRing returns a typed machine and typed effects.
LEMMA reduceAlarmRingIs == ASSUME NEW m, MachineOK(m) PROVE IsResult(reduceAlarmRing(m))
  BY vmEntryIs, ResultIs, Effects0 DEF reduceAlarmRing

\* Arming the next ring step yields effects.
LEMMA armRingStepIs == ASSUME NEW m, NEW fits PROVE SomeEffects(armRingStep(m, fits))
<1>1. SomeEffects(<<Arm("ring-step")>>) BY AlarmIsEffect, Effects1 DEF AlarmKind
<1> QED BY <1>1, EffectsWhen DEF armRingStep

\* The member who is rung next is one of those who wait.
LEMMA ForemostIn ==
  ASSUME NEW m, MachineOK(m), NEW users \in SUBSET m.queue, users # {}
  PROVE  Foremost(m.order, users) \in users /\ users \subseteq User
<1> DEFINE at == {i \in DOMAIN m.order : m.order[i] \in users}
<1>1. at \in SUBSET Nat BY DEF MachineOK, SessionMachine
<1>2. at # {} BY DEF MachineOK
<1>3. First(at) \in at BY <1>1, <1>2, FirstIn
<1>4. users \subseteq User BY DEF MachineOK, SessionMachine
<1> QED BY <1>3, <1>4 DEF Foremost

\* reduceAlarmRingStep returns a typed machine and typed effects.
LEMMA reduceAlarmRingStepIs ==
  ASSUME NEW m, MachineOK(m), NEW ev PROVE IsResult(reduceAlarmRingStep(m, ev))
<1> DEFINE waiting == m.queue \ m.declined
           user    == Foremost(m.order, waiting)
           popped  == [m EXCEPT !.queue = waiting \ {user}]
           next    == PushLeg(popped, user, FALSE)
<1>1. IsResult(NoEffect(m)) BY ResultIs, Effects0
<1>2. CASE waiting = {}
  <2>1. MachineOK([m EXCEPT !.queue = {}]) BY DEF MachineOK, SessionMachine
  <2>2. IsResult(runAvenueLadder([m EXCEPT !.queue = {}])) BY <2>1, runAvenueLadderIs
  <2> QED BY <1>1, <1>2, <2>2 DEF reduceAlarmRingStep
<1>3. CASE waiting # {}
  <2>1. user \in User BY <1>3, ForemostIn
  <2> HIDE DEF user
  <2>2. MachineOK(popped) BY FieldsOK, EndingsIn DEF Maybe
  <2>3. popped.dialed = m.dialed /\ m.dialed \in 0 .. MaxLegs BY DEF MachineOK, SessionMachine
  <2>4. IsResult(NoEffect(popped)) BY <2>2, ResultIs, Effects0
  <2>5. CASE m.dialed >= MaxLegs
    BY <1>1, <1>3, <2>4, <2>5 DEF reduceAlarmRingStep, user
  <2>6. CASE ~(m.dialed >= MaxLegs)
    <3>1. popped.dialed < MaxLegs BY <2>3, <2>6, MaxLegsAssumption
    <3> HIDE DEF popped
    <3>2. MachineOK(next) /\ next.dialed \in LegId BY <2>1, <2>2, <3>1, PushLegOK
    <3> HIDE DEF next
    <3>3. SomeEffects(<<Dial(next.dialed, next.dialed)>> \o armRingStep(next, ev.fits))
      BY <3>2, DialIsEffect, Effects1, armRingStepIs, EffectsConcat
    <3>4. IsResult(Result(next, <<Dial(next.dialed, next.dialed)>> \o armRingStep(next, ev.fits)))
      BY <3>2, <3>3, ResultIs
    <3> QED BY <1>1, <1>3, <2>6, <3>4 DEF reduceAlarmRingStep, next, popped, user
  <2> QED BY <2>5, <2>6
<1> QED BY <1>2, <1>3

\* reduceAlarmJanitor returns a typed machine and typed effects.
LEMMA reduceAlarmJanitorIs ==
  ASSUME NEW m, MachineOK(m) PROVE IsResult(reduceAlarmJanitor(m))
<1>1. /\ IsResult(terminalize(m, "ended_missed", "missed", "null", NoColumns))
      /\ IsResult(terminalize(m, "ended_answered", "answered", "null", NoColumns))
      /\ IsResult(terminalize(m, MissedState(m), "missed", "missed", NoColumns))
      /\ IsResult(NoEffect(m))
  BY EndingsIn, ColumnsEmpty, terminalizeIs, ResultIs, Effects0
<1> QED BY <1>1 DEF reduceAlarmJanitor

\* reduceOutboundInitiated returns a typed machine and typed effects.
LEMMA reduceOutboundInitiatedIs ==
  ASSUME NEW ctx \in Placement PROVE IsResult(reduceOutboundInitiated(ctx))
<1> DEFINE base == [NoMachine EXCEPT !.state = "dialing", !.direction = "outbound",
                                     !.owner = ctx.placer]
           opening == << Mirror([state |-> "dialing", answered_by_user_id |-> ctx.placer]),
                         Arm("janitor") >>
           n == PushLeg(base, ctx.placer, FALSE)
<1>1. ctx.placer \in User /\ ctx.placer \in Maybe(User) BY DEF Placement, Maybe
<1>2. MachineOK(base)
  BY <1>1, NoMachineOK, EndingsIn DEF MachineOK, SessionMachine, NoMachine
<1>3. base.dialed = 0 BY DEF NoMachine
<1>4. SomeEffects(opening)
  <2>1. IsEffect(Mirror([state |-> "dialing", answered_by_user_id |-> ctx.placer]))
    BY <1>1, EndingsIn, ColumnsAnswer, MirrorIsEffect
  <2>2. IsEffect(Arm("janitor")) BY AlarmIsEffect DEF AlarmKind
  <2> QED BY <2>1, <2>2, Effects2
<1> HIDE DEF base, opening
<1>5. base.dialed < MaxLegs /\ 1 \in LegId BY <1>3, MaxLegsAssumption DEF LegId
<1>8. MachineOK(n) BY <1>1, <1>2, <1>5, PushLegOK
<1> HIDE DEF n
<1>6. SomeEffects(opening \o <<DialPlacer(1)>>)
  BY <1>4, <1>5, DialIsEffect, Effects1, EffectsConcat
<1>7. IsResult(Result(n, opening \o <<DialPlacer(1)>>)) /\ IsResult(Result(base, opening))
  BY <1>2, <1>4, <1>6, <1>8, ResultIs
<1> QED BY <1>7 DEF reduceOutboundInitiated, n, base, opening

\* reduceOutboundAnswered returns a typed machine and typed effects.
LEMMA reduceOutboundAnsweredIs ==
  ASSUME NEW m, MachineOK(m) PROVE IsResult(reduceOutboundAnswered(m))
<1> DEFINE n   == [m EXCEPT !.state = "answered", !.answered = TRUE]
           at  == First(answeredPlacer(m))
           fx1 == <<Mirror([state |-> "answered", answered_at |-> TRUE])>>
           fx2 == When(answeredPlacer(m) # {}, <<Bridge(m.legs[at].ccid)>>)
<1>1. MachineOK(n) BY FieldsOK, EndingsIn DEF Maybe
<1>2. SomeEffects(fx1)
  BY EndingsIn, ColumnsAnswer, MirrorIsEffect, Effects1 DEF Maybe
<1>3. SomeEffects(fx2)
  <2>1. CASE answeredPlacer(m) = {} BY <2>1, Effects0 DEF When
  <2>2. CASE answeredPlacer(m) # {}
    <3>1. answeredPlacer(m) \in SUBSET LegId /\ LegId \in SUBSET Nat
      BY LegsWithIn DEF answeredPlacer, LegId
    <3>2. at \in answeredPlacer(m) BY <2>2, <3>1, FirstIn
    <3>3. m.legs[at].ccid \in LegId
      BY <3>1, <3>2 DEF answeredPlacer, MachineOK, SessionMachine, Leg
    <3>4. IsEffect(Bridge(m.legs[at].ccid)) BY <3>3, LegIsEffect DEF Maybe
    <3> QED BY <3>4, Effects1, EffectsWhen
  <2> QED BY <2>1, <2>2
<1> HIDE DEF n, fx1, fx2
<1>4. IsResult(Result(n, fx1 \o fx2)) /\ IsResult(NoEffect(m))
  BY <1>1, <1>2, <1>3, EffectsConcat, ResultIs, Effects0
<1> QED BY <1>4 DEF reduceOutboundAnswered, n, fx1, fx2

\* reduceOutboundPlacerAnswered returns a typed machine and typed effects.
LEMMA reduceOutboundPlacerAnsweredIs ==
  ASSUME NEW m, MachineOK(m), NEW ev, ev.leg \in LegId
  PROVE  IsResult(reduceOutboundPlacerAnswered(m, ev))
<1> DEFINE at == Located(m, ev, TRUE)
           n  == SetStatus(at.m, {at.leg}, "answered")
<1>1. MachineOK(at.m) BY LocatedIs
<1>2. MachineOK(n) BY <1>1, SetStatusOK DEF LegStatus
<1> HIDE DEF n, at
<1>3. SomeEffects(<<Bridge(ev.leg)>>) BY LegIsEffect, Effects1 DEF Maybe
<1>4. /\ IsResult(HangupStray(m, ev.leg)) /\ IsResult(NoEffect(at.m))
      /\ IsResult(Result(n, <<Bridge(ev.leg)>>))
  BY <1>1, <1>2, <1>3, HangupStrayIs, ResultIs, Effects0
<1> QED BY <1>4 DEF reduceOutboundPlacerAnswered, n, at

\* reduceOutboundPlacerHangup returns a typed machine and typed effects.
LEMMA reduceOutboundPlacerHangupIs ==
  ASSUME NEW m, MachineOK(m), NEW ev, ev.user \in Maybe(User)
  PROVE  IsResult(reduceOutboundPlacerHangup(m, ev))
<1> DEFINE n    == SetStatus(m, {FindLeg(m, ev.leg)} \ {NoLeg}, "dead")
           over == terminalize(n, "ended_missed", "missed", "null", NoColumns)
<1>1. MachineOK(n) BY SetStatusOK DEF LegStatus
<1> HIDE DEF n
<1>2. IsResult(over) BY <1>1, EndingsIn, ColumnsEmpty, terminalizeIs
<1>3. MachineOK([n EXCEPT !.ownerLegDead = ev.user]) BY <1>1, FieldsOK, EndingsIn
<1> HIDE DEF over
<1>4. /\ IsResult(NoEffect(m)) /\ IsResult(NoEffect(n)) /\ IsResult(ownerDeathTeardown(n))
      /\ IsResult(NoEffect([n EXCEPT !.ownerLegDead = ev.user]))
      /\ IsResult(Result(over.m, over.fx \o <<HangupCustomer>>))
  BY <1>1, <1>2, <1>3, ownerDeathTeardownIs, PlainIsEffect, Effects1, EffectsConcat, ResultIs
     DEF IsResult
<1> QED BY <1>4 DEF reduceOutboundPlacerHangup, over, n

\* reduceOutboundHangup returns a typed machine and typed effects.
LEMMA reduceOutboundHangupIs ==
  ASSUME NEW m, MachineOK(m), NEW ev, ev.merged \in Ending
  PROVE  IsResult(reduceOutboundHangup(m, ev))
  BY EndingsIn, ColumnsEmpty, terminalizeIs, ResultIs, Effects0 DEF reduceOutboundHangup

(***************************************************************************)
(* The ring of an inbound call.                                            *)
(***************************************************************************)
LEMMA RingTargetsIn ==
  ASSUME NEW ctx \in InboundContext
  PROVE  /\ RingTargets(ctx) \in Seq(User) /\ Len(RingTargets(ctx)) <= MaxLegs
         /\ ctx.targets # <<>> => Len(RingTargets(ctx)) > 0
<1> DEFINE n    == Len(ctx.targets)
           late == SubSeq(ctx.targets, ctx.offset + 1, n)
           soon == SubSeq(ctx.targets, 1, ctx.offset)
<1>1. ctx.targets \in Seq(User) /\ ctx.offset \in Nat /\ ctx.offset <= n /\ n \in Nat
  BY DEF InboundContext
<1>2. CASE ~(n > MaxLegs) BY <1>1, <1>2, MaxLegsAssumption DEF RingTargets
<1>3. CASE n > MaxLegs
  <2>1. late \in Seq(User) /\ Len(late) = n - ctx.offset BY <1>1, SubSeqProperties
  <2>2. soon \in Seq(User) /\ Len(soon) = ctx.offset BY <1>1, SubSeqProperties
  <2> HIDE DEF late, soon, n
  <2> DEFINE all == late \o soon
             kept == SubSeq(all, 1, MaxLegs)
  <2>3. all \in Seq(User) /\ Len(all) = n BY <1>1, <2>1, <2>2
  <2> HIDE DEF all
  <2>4. \A i \in 1 .. MaxLegs : all[i] \in User BY <1>1, <1>3, <2>3, MaxLegsAssumption
  <2>5. kept \in Seq(User) /\ Len(kept) = MaxLegs
    BY <2>4, MaxLegsAssumption, SubSeqProperties
  <2>6. RingTargets(ctx) = kept
    BY <1>3 DEF RingTargets, rotateForFairness, all, late, soon, n
  <2> HIDE DEF kept
  <2> QED BY <2>5, <2>6, MaxLegsAssumption
<1> QED BY <1>2, <1>3

\* ringStart returns a typed machine and typed effects.
LEMMA ringStartIs ==
  ASSUME NEW base, MachineOK(base), NEW ctx \in InboundContext
  PROVE  IsResult(ringStart(base, ctx))
<1> DEFINE targets == RingTargets(ctx)
           now     == IF ctx.inTurn /\ Len(targets) > 1 THEN 1 ELSE Len(targets)
           first   == SubSeq(targets, 1, now)
           rest    == {targets[i] : i \in (now + 1) .. Len(targets)}
           m       == [PushLegs(base, first) EXCEPT !.order = targets, !.queue = rest]
           fx1     == << Arm("janitor"), Mirror([state |-> "ringing"]) >>
           fx2     == When(now > 0, <<Dial(1, now)>>)
           fx3     == << PushFanout, Arm("fanout-settle"), Arm("ring") >>
           fx4     == armRingStep(m, ctx.fits)
<1>1. targets \in Seq(User) /\ Len(targets) <= MaxLegs /\ Len(targets) \in Nat BY RingTargetsIn
<1> HIDE DEF targets
<1>2. now \in Nat /\ now <= Len(targets) BY <1>1
<1>3. first \in Seq(User) /\ Len(first) = now BY <1>1, <1>2, SubSeqProperties
<1>4. rest \in SUBSET User /\ \A u \in rest : \E i \in DOMAIN targets : targets[i] = u
  BY <1>1, <1>2
<1> HIDE DEF now, first, rest
<1>5. MachineOK(m)
  <2> DEFINE legs == [i \in LegId |->
                        IF i <= Len(first)
                        THEN [user |-> first[i], status |-> "dialing", ccid |-> NoLeg,
                              ringMe |-> FALSE]
                        ELSE UnusedLeg]
  <2>1. legs \in [LegId -> Leg]
    <3>1. UnusedLeg \in Leg BY DEF UnusedLeg, Leg, LegStatus
    <3>2. ASSUME NEW i \in LegId, i <= Len(first)
          PROVE  [user |-> first[i], status |-> "dialing", ccid |-> NoLeg, ringMe |-> FALSE] \in Leg
      BY <1>3, <3>2 DEF Leg, LegStatus, LegId
    <3> QED BY <3>1, <3>2
  <2>2. now \in 0 .. MaxLegs BY <1>1, <1>2, MaxLegsAssumption
  <2> HIDE DEF legs
  <2>3. m = [base EXCEPT !.dialed = now, !.legs = legs, !.order = targets, !.queue = rest]
    BY <1>3 DEF PushLegs, legs
  <2>4. m \in SessionMachine
    BY <1>1, <1>4, <2>1, <2>2, <2>3 DEF MachineOK, SessionMachine
  <2>5. m.queue = rest /\ m.order = targets BY <2>3 DEF MachineOK, SessionMachine
  <2> QED BY <1>4, <2>4, <2>5 DEF MachineOK
<1>6. SomeEffects(fx1)
  <2>1. IsEffect(Arm("janitor")) BY AlarmIsEffect DEF AlarmKind
  <2>2. IsEffect(Mirror([state |-> "ringing"])) BY EndingsIn, ColumnsState, MirrorIsEffect
  <2> QED BY <2>1, <2>2, Effects2
<1>7. SomeEffects(fx2)
  <2>1. CASE now = 0 BY <2>1, Effects0 DEF When
  <2>2. CASE now # 0
    <3>1. 1 \in LegId /\ now \in LegId BY <1>1, <1>2, <2>2, MaxLegsAssumption DEF LegId
    <3> QED BY <3>1, DialIsEffect, Effects1, EffectsWhen
  <2> QED BY <2>1, <2>2
<1>8. SomeEffects(fx3)
  <2>1. IsEffect(Arm("fanout-settle")) /\ IsEffect(Arm("ring")) BY AlarmIsEffect DEF AlarmKind
  <2> QED BY <2>1, PlainIsEffect, Effects3
<1>9. SomeEffects(fx4) BY armRingStepIs
<1>10. ringStart(base, ctx) = Result(m, ((fx1 \o fx2) \o fx3) \o fx4)
  BY DEF ringStart, targets, now, first, rest
<1> HIDE DEF fx1, fx2, fx3, fx4, m
<1>11. SomeEffects(((fx1 \o fx2) \o fx3) \o fx4) BY <1>6, <1>7, <1>8, <1>9, EffectsConcat
<1> QED BY <1>5, <1>10, <1>11, ResultIs

\* reduceInitiated returns a typed machine and typed effects.
LEMMA reduceInitiatedIs ==
  ASSUME NEW ctx \in InboundContext PROVE IsResult(reduceInitiated(ctx))
<1> DEFINE base    == [NoMachine EXCEPT !.state = "ringing", !.push = ctx.audience]
           vm      == vmEntry(base)
           noticed == [base EXCEPT !.noticeSpoken = ctx.noticeAllowed]
           capped  == [base EXCEPT !.rejectedForCap = TRUE]
           fx1     == << Arm("janitor"),
                         Mirror([state |-> "ringing", notice_spoken |-> ctx.noticeAllowed]) >>
           fx2     == When(ctx.noticeAllowed, <<AnswerNotice>>)
           fx3     == << Arm("janitor"), Reject, Mirror([state |-> "ringing"]) >>
<1>1. MachineOK(base)
  BY NoMachineOK, EndingsIn DEF MachineOK, SessionMachine, NoMachine, InboundContext
<1>2. ctx.noticeAllowed \in BOOLEAN BY DEF InboundContext
<1> HIDE DEF base
<1>3. MachineOK(noticed) BY <1>1, <1>2, FieldsOK, EndingsIn DEF Maybe
<1>4. MachineOK(capped) BY <1>1 DEF MachineOK, SessionMachine
<1>5. IsEffect(Arm("janitor")) BY AlarmIsEffect DEF AlarmKind
<1>6. SomeEffects(<<Arm("janitor")>>) BY <1>5, Effects1
<1>7. IsResult(Result(vm.m, <<Arm("janitor")>> \o vm.fx))
  BY <1>1, <1>6, vmEntryIs, EffectsConcat, ResultIs DEF IsResult
<1>8. SomeEffects(fx1 \o fx2)
  <2>1. SomeEffects(fx1)
    BY <1>2, <1>5, EndingsIn, ColumnsAnswer, MirrorIsEffect, Effects2 DEF Maybe
  <2>2. SomeEffects(fx2) BY PlainIsEffect, Effects1, EffectsWhen
  <2> QED BY <2>1, <2>2, EffectsConcat
<1>9. SomeEffects(fx3)
  BY <1>5, PlainIsEffect, EndingsIn, ColumnsState, MirrorIsEffect, Effects3
<1>10. IsResult(ringStart(base, ctx)) BY <1>1, ringStartIs
<1> HIDE DEF vm, noticed, capped, fx1, fx2, fx3
<1>11. IsResult(Result(noticed, fx1 \o fx2)) /\ IsResult(Result(capped, fx3))
  BY <1>3, <1>4, <1>8, <1>9, ResultIs
<1> QED BY <1>7, <1>10, <1>11 DEF reduceInitiated, base, vm, noticed, capped, fx1, fx2, fx3

(***************************************************************************)
(* The dispatcher.                                                         *)
(***************************************************************************)
LegTypes == {"member-leg-answered", "member-leg-hangup", "outbound-placer-answered",
             "outbound-placer-hangup", "answer-outcome", "member-probe-outcome"}

PlainTypes == {"outbound-answered", "speak-ended", "recording-saved", "notice-answer-outcome",
               "vm-answer-outcome", "push-fanout-settled", "inbound-leg-gone", "register-intent",
               "clear-intent", "alarm-intent-expiry", "alarm-ring", "alarm-janitor",
               "alarm-ring-step"}

\* What an event of each type carries.
LEMMA EventFields ==
  ASSUME NEW ev \in Event
  PROVE  /\ ev.type \in LegTypes => ev.leg \in LegId /\ ev.user \in Maybe(User)
         /\ ev.type = "dial-outcome" => ev.leg \in LegId
         /\ ev.type \in {"inbound-hangup", "outbound-hangup"} => ev.merged \in Ending
         /\ ev.type = "inbound-hangup" => ev.tag \in {"untagged", "bri", "vmi"}
         /\ ev.type \in {"ring-me", "decline", "set-owner"} => ev.user \in User
         /\ ev.type = "initiated" => ev.context \in InboundContext
         /\ ev.type = "outbound-initiated" => ev.context \in Placement
         /\ ev.type \in LegTypes \cup PlainTypes
              \cup {"dial-outcome", "inbound-hangup", "outbound-hangup", "ring-me", "decline",
                    "set-owner", "initiated", "outbound-initiated"}
<1>1. CASE ev \in Webhook BY <1>1 DEF Webhook, LegTypes, PlainTypes
<1>2. CASE ev \in FollowUp BY <1>2 DEF FollowUp, LegTypes, PlainTypes
<1>3. CASE ev \in Asked BY <1>3 DEF Asked, LegTypes, PlainTypes
<1>4. CASE ev \in Mint BY <1>4 DEF Mint, LegTypes, PlainTypes
<1> QED BY <1>1, <1>2, <1>3, <1>4 DEF Event

\* Every event of the dispatch yields a result.
LEMMA handleIs ==
  ASSUME NEW m, MachineOK(m), NEW ev \in Event,
         ev.type \notin {"initiated", "outbound-initiated"}
  PROVE  IsResult(handle(m, ev))
<1>1. CASE ev.type \in LegTypes
  <2>1. ev.leg \in LegId /\ ev.user \in Maybe(User) BY <1>1, EventFields
  <2> QED BY <1>1, <2>1, reduceMemberAnsweredIs, reduceMemberHangupIs, reduceOutboundPlacerAnsweredIs,
             reduceOutboundPlacerHangupIs, reduceAnswerOutcomeIs, reduceProbeOutcomeIs
          DEF handle, LegTypes
<1>2. CASE ev.type \in PlainTypes
  BY <1>2, reduceOutboundAnsweredIs, reduceSpeakEndedIs, reduceRecordingSavedIs,
     reduceNoticeAnswerOutcomeIs, reduceVmAnswerOutcomeIs, reducePushFanoutSettledIs,
     reduceInboundLegGoneIs, reduceRegisterIntentIs, reduceClearIntentIs, reduceAlarmRingIs,
     reduceAlarmJanitorIs, reduceAlarmRingStepIs
     DEF handle, PlainTypes
<1>3. CASE ev.type \in {"dial-outcome", "inbound-hangup", "outbound-hangup"}
  <2>1. /\ ev.type = "dial-outcome" => ev.leg \in LegId
        /\ ev.type \in {"inbound-hangup", "outbound-hangup"} => ev.merged \in Ending
        /\ ev.type = "inbound-hangup" => ev.tag \in {"untagged", "bri", "vmi"}
    BY EventFields
  <2> QED BY <1>3, <2>1, reduceDialOutcomeIs, reduceInboundHangupIs, reduceOutboundHangupIs DEF handle
<1>4. CASE ev.type \in {"ring-me", "decline", "set-owner"}
  <2>1. ev.user \in User BY <1>4, EventFields
  <2> QED BY <1>4, <2>1, reduceRingMeIs, reduceDeclineIs, reduceSetOwnerIs DEF handle
<1> QED BY <1>1, <1>2, <1>3, <1>4, EventFields

(* ReduceTyped (transitions.ts:833-1288): whatever well-formed machine and    *)
(* event the shell hands it, the reducer returns a machine the storage can    *)
(* hold and effects the shell can execute.                                    *)
THEOREM ReduceTyped ==
  ASSUME NEW m, MachineOK(m), NEW ev \in Event
  PROVE  MachineOK(reduce(m, ev).m) /\ IsEffects(reduce(m, ev).fx)
<1>1. IsResult(reduce(m, ev))
  <2>1. ev.type = "initiated" => IsResult(reduceInitiated(ev.context))
    BY EventFields, reduceInitiatedIs
  <2>2. ev.type = "outbound-initiated" => IsResult(reduceOutboundInitiated(ev.context))
    BY EventFields, reduceOutboundInitiatedIs
  <2>3. ev.type \notin {"initiated", "outbound-initiated"} => IsResult(handle(m, ev))
    BY handleIs
  <2>4. IsResult(NoEffect(m)) BY ResultIs, Effects0
  <2> QED BY <2>1, <2>2, <2>3, <2>4 DEF reduce
<1> QED BY <1>1, EffectsRange DEF IsResult

(***************************************************************************)
(* The states a handler can leave behind.                                  *)
(***************************************************************************)
LEMMA SameState ==
  ASSUME NEW m, MachineOK(m)
  PROVE  /\ \A ls, st : SetStatus(m, ls, st).state = m.state
         /\ \A i, c : Stamp(m, i, c).state = m.state
         /\ \A ev, b : Located(m, ev, b).m.state = m.state
  BY DEF MachineOK, SessionMachine, SetStatus, Stamp, Located

\* Whatever terminalize is asked for, the session is over.
LEMMA terminalizeEnds ==
  ASSUME NEW m, MachineOK(m), NEW target \in TerminalStates, NEW merged, NEW reason, NEW extra
  PROVE  terminalize(m, target, merged, reason, extra).m.state = target
<1> DEFINE n   == [m EXCEPT !.state = target]
           cut == cancelAllLiveLegs(n)
<1>0. target \in CallStates BY DEF CallStates
<1>1. MachineOK(n) BY <1>0, StateOK
<1>4. n.state = target BY DEF MachineOK, SessionMachine
<1> HIDE DEF n
<1>5. MachineOK(cut.m) BY <1>1, cancelAllLiveLegsIs DEF IsResult
<1>6. cut.m = SetStatus(n, LegsWith(n, {"dialing", "ringing"}), "canceling")
  BY DEF cancelAllLiveLegs, Result
<1>2. MachineOK(cut.m) /\ cut.m.state = target BY <1>1, <1>4, <1>5, <1>6, SameState
<1>3. terminalize(m, target, merged, reason, extra).m = SetStatus(cut.m, PlacerToReap(m), "dead")
  BY DEF terminalize, Result, n
<1> HIDE DEF cut
<1> QED BY <1>2, <1>3, SameState

(* OverAbsorbs (T14): no event brings a session that is over back, and the    *)
(* only moves left are the upgrades of a call first believed missed.          *)
THEOREM OverAbsorbs ==
  ASSUME NEW m, MachineOK(m), isTerminal(m.state), NEW ev \in Event
  PROVE  \/ reduce(m, ev).m.state = m.state
         \/ /\ m.state = "ended_missed"
            /\ reduce(m, ev).m.state \in {"ended_answered", "ended_voicemail"}
<1> DEFINE Kept(r) == r.m.state = m.state
<1>0. m.state \in TerminalStates /\ ~isNone(m) BY DEF isTerminal, TerminalStates, isNone
<1>1. ev.type \in {"initiated", "outbound-initiated"} => Kept(reduce(m, ev))
  BY <1>0 DEF reduce, NoEffect, Result
<1>2. ev.type = "recording-saved" =>
        \/ Kept(reduce(m, ev))
        \/ m.state = "ended_missed" /\ reduce(m, ev).m.state = "ended_voicemail"
  <2>1. Kept(NoEffect(m)) BY DEF NoEffect, Result
  <2>2. m.state # "ended_missed" => Kept(reduceRecordingSaved(m))
    BY <1>0, <2>1 DEF reduceRecordingSaved, TerminalStates
  <2>3. m.state = "ended_missed" => reduceRecordingSaved(m).m.state = "ended_voicemail"
    BY DEF reduceRecordingSaved, Result, MachineOK, SessionMachine
  <2> QED BY <1>0, <2>2, <2>3 DEF reduce, handle
<1>3. ev.type = "inbound-hangup" =>
        \/ Kept(reduce(m, ev))
        \/ m.state = "ended_missed" /\ reduce(m, ev).m.state = "ended_answered"
  <2>1. briUpgrade(m, ev).m.state = "ended_answered"
    BY StampFromIntentIs DEF briUpgrade, Result, MachineOK, SessionMachine
  <2> QED BY <1>0, <2>1 DEF reduce, handle, reduceInboundHangup, NoEffect, Result, isTerminal
<1>4. ev.type \in LegTypes => Kept(reduce(m, ev))
  <2>1. m.state \notin {"ringing", "answered"} BY <1>0 DEF TerminalStates
  <2>2. ev.type \in LegTypes => ev.leg \in LegId BY EventFields
  <2>3. ev.type = "member-leg-answered" => Kept(reduceMemberAnswered(m, ev))
    <3> DEFINE at == Located(m, ev, m.state = "ringing")
    <3>1. ev.type \in LegTypes => MachineOK(at.m) BY <2>2, LocatedIs
    <3>2. at.m.state = m.state BY SameState
    <3> HIDE DEF at
    <3>3. ev.type \in LegTypes => \A ls, st : SetStatus(at.m, ls, st).state = m.state
      BY <3>1, <3>2, SameState
    <3> QED BY <2>1, <3>1, <3>3
            DEF reduceMemberAnswered, at, HangupStray, NoEffect, Result, LegTypes, isTerminal
  <2>4. ev.type = "member-leg-hangup" => Kept(reduceMemberHangup(m, ev))
    <3> DEFINE at == Located(m, ev, m.state = "ringing")
    <3>1. ev.type \in LegTypes => MachineOK(at.m) BY <2>2, LocatedIs
    <3>2. at.m.state = m.state BY SameState
    <3> HIDE DEF at
    <3>3. ev.type \in LegTypes => \A ls, st : SetStatus(at.m, ls, st).state = m.state
      BY <3>1, <3>2, SameState
    <3> QED BY <2>1, <3>3 DEF reduceMemberHangup, at, NoEffect, Result, LegTypes
  <2>5. Kept(reduceOutboundPlacerAnswered(m, ev))
    BY DEF reduceOutboundPlacerAnswered, HangupStray, Result
  <2>6. Kept(reduceOutboundPlacerHangup(m, ev))
    BY DEF reduceOutboundPlacerHangup, NoEffect, Result
  <2>7. Kept(reduceAnswerOutcome(m, ev)) /\ Kept(reduceProbeOutcome(m, ev))
    BY <2>1 DEF reduceAnswerOutcome, reduceProbeOutcome, NoEffect, Result
  <2> QED BY <1>0, <2>3, <2>4, <2>5, <2>6, <2>7 DEF reduce, handle, LegTypes
<1>5. ev.type \in PlainTypes \ {"recording-saved"} => Kept(reduce(m, ev))
  <2>1. m.state \notin {"ringing", "answered", "dialing", "voicemail_greeting"}
    BY <1>0 DEF TerminalStates
  <2>2. /\ Kept(reduceOutboundAnswered(m)) /\ Kept(reduceSpeakEnded(m))
        /\ Kept(reduceNoticeAnswerOutcome(m, ev)) /\ Kept(reduceVmAnswerOutcome(m, ev))
        /\ Kept(reduceInboundLegGone(m)) /\ Kept(reduceAlarmRing(m))
        /\ Kept(reduceAlarmJanitor(m)) /\ Kept(reduceAlarmRingStep(m, ev))
        /\ Kept(reduceRegisterIntent(m)) /\ Kept(reduceClearIntent(m))
    BY <2>1 DEF reduceOutboundAnswered, reduceSpeakEnded, reduceNoticeAnswerOutcome,
       reduceVmAnswerOutcome, reduceInboundLegGone, reduceAlarmRing, reduceAlarmJanitor,
       reduceAlarmRingStep, reduceRegisterIntent, reduceClearIntent, NoEffect, Result, MachineOK,
       SessionMachine
  <2>3. Kept(reducePushFanoutSettled(m, ev))
    BY <2>1 DEF reducePushFanoutSettled, runAvenueLadder, NoEffect, Result, MachineOK, SessionMachine
  <2> QED BY <1>0, <2>2, <2>3 DEF reduce, handle, PlainTypes
<1>6. ev.type \in {"dial-outcome", "outbound-hangup", "ring-me", "decline", "set-owner"}
        => Kept(reduce(m, ev))
  <2>1. m.state # "ringing" BY <1>0 DEF TerminalStates
  <2>2. ev.type = "dial-outcome" => Kept(reduceDialOutcome(m, ev))
    <3> DEFINE failed == SetStatus(m, {ev.leg},
                                   IF ev.outcome = "ambiguous" THEN "ambiguous" ELSE "dead")
    <3>1. failed.state = m.state BY SameState
    <3>2. ev.type = "dial-outcome" => MachineOK(Stamp(m, ev.leg, ev.leg))
      BY EventFields, StampOK
    <3>3. Stamp(m, ev.leg, ev.leg).state = m.state BY SameState
    <3> HIDE DEF failed
    <3>4. ev.type = "dial-outcome" =>
            \A ls, st : SetStatus(Stamp(m, ev.leg, ev.leg), ls, st).state = m.state
      BY <3>2, <3>3, SameState
    <3> QED BY <2>1, <3>1, <3>4
            DEF reduceDialOutcome, failed, runAvenueLadder, NoEffect, Result
  <2>3. /\ Kept(reduceOutboundHangup(m, ev)) /\ Kept(reduceRingMe(m, ev))
        /\ Kept(reduceDecline(m, ev)) /\ Kept(reduceSetOwner(m, ev))
    BY <2>1 DEF reduceOutboundHangup, reduceRingMe, reduceDecline, reduceSetOwner, NoEffect, Result,
       MachineOK, SessionMachine
  <2> QED BY <1>0, <2>2, <2>3 DEF reduce, handle
<1> QED BY <1>1, <1>2, <1>3, <1>4, <1>5, <1>6, EventFields

(* HangupEnds (T5, T8, T12, T17): the hangup of the customer's leg ends any   *)
(* session it is reduced on.                                                  *)
THEOREM HangupEnds ==
  ASSUME NEW m, MachineOK(m), ~isNone(m), NEW ev \in Event,
         ev.type \in {"inbound-hangup", "outbound-hangup"}
  PROVE  isTerminal(reduce(m, ev).m.state)
<1>1. CASE isTerminal(m.state)
  BY <1>1, OverAbsorbs DEF isTerminal, TerminalStates
<1>2. CASE ~isTerminal(m.state)
  <2>1. ev.type = "inbound-hangup" => ev.tag \in {"untagged", "bri", "vmi"} BY EventFields
  <2>2. MissedState(m) \in TerminalStates /\ {"ended_answered", "ended_missed"} \subseteq TerminalStates
    BY EndingsIn
  <2>3. isTerminal(briHangup(m, ev).m.state)
    <3> DEFINE by == IF m.owner = NoUser /\ m.answerIntent # NoUser THEN StampFromIntent(m) ELSE m
    <3>1. MachineOK(by) BY StampFromIntentIs
    <3> HIDE DEF by
    <3>2. terminalize(by, "ended_answered", ev.merged, "answered", OwnerColumns(by)).m.state
            \in TerminalStates
      BY <2>2, <3>1, terminalizeEnds
    <3> QED BY <3>2 DEF briHangup, by, isTerminal
  <2>4. \A target \in TerminalStates : \A merged, reason, extra :
          isTerminal(terminalize(m, target, merged, reason, extra).m.state)
    BY terminalizeEnds DEF isTerminal
  <2>5. ev.type = "inbound-hangup" => isTerminal(reduceInboundHangup(m, ev).m.state)
    BY <1>2, <2>1, <2>2, <2>3, <2>4 DEF reduceInboundHangup
  <2>6. isTerminal(reduceOutboundHangup(m, ev).m.state)
    BY <1>2, <2>2, <2>4 DEF reduceOutboundHangup
  <2> QED BY <2>5, <2>6 DEF reduce, handle
<1> QED BY <1>1, <1>2

(***************************************************************************)
(* While a session rings, none of its legs has been given up.              *)
(***************************************************************************)
NoneCanceled(m) == m.state = "ringing" => LegsWith(m, {"canceling"}) = {}

\* Only the state and the legs matter.
LEMMA SameLegs ==
  ASSUME NEW m, NoneCanceled(m), NEW n, n.state = m.state, n.legs = m.legs PROVE NoneCanceled(n)
  BY DEF NoneCanceled, LegsWith

\* A session that does not ring satisfies it.
LEMMA NotRinging == ASSUME NEW m, m.state # "ringing" PROVE NoneCanceled(m)
  BY DEF NoneCanceled

\* Any other status of a leg keeps it.
LEMMA SetStatusQuiet ==
  ASSUME NEW m, MachineOK(m), NoneCanceled(m), NEW ls, NEW st, st # "canceling"
  PROVE  NoneCanceled(SetStatus(m, ls, st))
<1> DEFINE legs == [i \in LegId |-> IF i \in ls THEN [m.legs[i] EXCEPT !.status = st] ELSE m.legs[i]]
           n    == SetStatus(m, ls, st)
<1>1. n.legs = legs /\ n.state = m.state BY DEF SetStatus, MachineOK, SessionMachine
<1>2. m.legs \in [LegId -> Leg] BY DEF MachineOK, SessionMachine
<1>3. \A i \in LegId : legs[i].status \in {st, m.legs[i].status} BY <1>2 DEF Leg
<1> HIDE DEF n, legs
<1>4. m.state = "ringing" => \A i \in LegId : m.legs[i].status # "canceling"
  BY DEF NoneCanceled, LegsWith
<1>5. NoneCanceled(n) BY <1>1, <1>3, <1>4 DEF NoneCanceled, LegsWith
<1> QED BY <1>5 DEF n

\* So does stamping a call control id,
LEMMA StampQuiet ==
  ASSUME NEW m, MachineOK(m), NoneCanceled(m), NEW i \in LegId, NEW c
  PROVE  NoneCanceled(Stamp(m, i, c))
<1> DEFINE n == Stamp(m, i, c)
<1>1. m.legs \in [LegId -> Leg] BY DEF MachineOK, SessionMachine
<1>2. n.state = m.state /\ n.legs = [m.legs EXCEPT ![i].ccid = c]
  BY DEF Stamp, MachineOK, SessionMachine
<1>3. \A j \in LegId : n.legs[j].status = m.legs[j].status BY <1>1, <1>2 DEF Leg
<1> HIDE DEF n
<1>4. NoneCanceled(n) BY <1>2, <1>3 DEF NoneCanceled, LegsWith
<1> QED BY <1>4 DEF n

\* appending a leg,
LEMMA PushLegQuiet ==
  ASSUME NEW m, MachineOK(m), NoneCanceled(m), NEW u, NEW b PROVE NoneCanceled(PushLeg(m, u, b))
<1> DEFINE n   == PushLeg(m, u, b)
           leg == [user |-> u, status |-> "dialing", ccid |-> NoLeg, ringMe |-> b]
<1>1. m.legs \in [LegId -> Leg] BY DEF MachineOK, SessionMachine
<1>2. n.state = m.state /\ n.legs = [m.legs EXCEPT ![m.dialed + 1] = leg]
  BY DEF PushLeg, MachineOK, SessionMachine
<1>3. \A j \in LegId : n.legs[j].status \in {"dialing", m.legs[j].status} BY <1>1, <1>2
<1> HIDE DEF n
<1>4. NoneCanceled(n) BY <1>2, <1>3 DEF NoneCanceled, LegsWith
<1> QED BY <1>4 DEF n

\* and locating one.
LEMMA LocatedQuiet ==
  ASSUME NEW m, MachineOK(m), NoneCanceled(m), NEW ev, ev.leg \in LegId, NEW b \in BOOLEAN
  PROVE  NoneCanceled(Located(m, ev, b).m)
<1> DEFINE new == Adoptable(m, ev.user)
<1>1. new # {} => NoneCanceled(Stamp(m, First(new), ev.leg)) BY FirstAdoptable, StampQuiet
<1> HIDE DEF new
<1> QED BY <1>1 DEF Located, new

\* A session that ends no longer rings.
LEMMA terminalizeQuiet ==
  ASSUME NEW m, MachineOK(m), NEW target \in TerminalStates, NEW merged, NEW reason, NEW extra
  PROVE  NoneCanceled(terminalize(m, target, merged, reason, extra).m)
<1>1. terminalize(m, target, merged, reason, extra).m.state # "ringing"
  BY terminalizeEnds DEF TerminalStates
<1> QED BY <1>1, NotRinging

\* Nor does one that goes to voicemail.
LEMMA vmEntryQuiet == ASSUME NEW m, MachineOK(m) PROVE NoneCanceled(vmEntry(m).m)
<1>1. vmEntry(m).m.state = "voicemail_greeting"
  BY DEF vmEntry, Result, MachineOK, SessionMachine
<1> QED BY <1>1, NotRinging

\* The ladder either leaves the legs alone or goes to voicemail.
LEMMA runAvenueLadderQuiet ==
  ASSUME NEW m, MachineOK(m), NoneCanceled(m) PROVE NoneCanceled(runAvenueLadder(m).m)
  BY vmEntryQuiet DEF runAvenueLadder, NoEffect, Result

\* The teardown leaves the machine's state and legs alone.
LEMMA ownerDeathTeardownQuiet ==
  ASSUME NEW m, MachineOK(m), NoneCanceled(m) PROVE NoneCanceled(ownerDeathTeardown(m).m)
  BY DEF ownerDeathTeardown, Result, NoneCanceled, LegsWith, MachineOK, SessionMachine

\* A webhook about a member's leg, and the outcomes of answering and probing.
LEMMA LegEventQuiet ==
  ASSUME NEW m, MachineOK(m), NoneCanceled(m), NEW ev, ev.leg \in LegId, ev.user \in Maybe(User)
  PROVE  /\ NoneCanceled(reduceMemberAnswered(m, ev).m)
         /\ NoneCanceled(reduceMemberHangup(m, ev).m)
         /\ NoneCanceled(reduceOutboundPlacerAnswered(m, ev).m)
         /\ NoneCanceled(reduceOutboundPlacerHangup(m, ev).m)
         /\ NoneCanceled(reduceAnswerOutcome(m, ev).m)
         /\ NoneCanceled(reduceProbeOutcome(m, ev).m)
<1>1. NoneCanceled(reduceMemberAnswered(m, ev).m)
  <2> DEFINE at      == Located(m, ev, m.state = "ringing")
             leg     == at.leg
             revived == leg # NoLeg /\ m.legs[leg].ccid = NoLeg /\ m.legs[leg].status = "ambiguous"
             n       == SetStatus(at.m, IF revived THEN {leg} ELSE {}, "ringing")
  <2>1. MachineOK(at.m) /\ NoneCanceled(at.m) BY LocatedIs, LocatedQuiet
  <2>2. MachineOK(n) /\ NoneCanceled(n) BY <2>1, SetStatusOK, SetStatusQuiet DEF LegStatus
  <2> HIDE DEF at, n
  <2>3. NoneCanceled(AnswerFor(n, ev.leg, ev.user).m)
    BY <2>2 DEF AnswerFor, Result, NoneCanceled, LegsWith, MachineOK, SessionMachine
  <2>4. reduceMemberAnswered(m, ev).m \in {m, n, AnswerFor(n, ev.leg, ev.user).m}
    BY DEF reduceMemberAnswered, HangupStray, NoEffect, Result, n, at
  <2> QED BY <2>2, <2>3, <2>4
<1>2. NoneCanceled(reduceMemberHangup(m, ev).m)
  <2> DEFINE at   == Located(m, ev, m.state = "ringing")
             dead == SetStatus(at.m, {at.leg}, "dead")
  <2>1. MachineOK(at.m) /\ NoneCanceled(at.m) BY LocatedIs, LocatedQuiet
  <2>2. MachineOK(dead) /\ NoneCanceled(dead) BY <2>1, SetStatusOK, SetStatusQuiet DEF LegStatus
  <2> HIDE DEF at, dead
  <2>3. NoneCanceled([dead EXCEPT !.ownerLegDead = ev.user])
    BY <2>2 DEF NoneCanceled, LegsWith, MachineOK, SessionMachine
  <2>4. NoneCanceled(runAvenueLadder(dead).m) /\ NoneCanceled(ownerDeathTeardown(dead).m)
    BY <2>2, runAvenueLadderQuiet, ownerDeathTeardownQuiet
  <2>5. reduceMemberHangup(m, ev).m \in
          {m, dead, [dead EXCEPT !.ownerLegDead = ev.user], runAvenueLadder(dead).m,
           ownerDeathTeardown(dead).m}
    BY DEF reduceMemberHangup, NoEffect, Result, dead, at
  <2> QED BY <2>2, <2>3, <2>4, <2>5
<1>3. NoneCanceled(reduceOutboundPlacerAnswered(m, ev).m)
  <2> DEFINE at == Located(m, ev, TRUE)
             n  == SetStatus(at.m, {at.leg}, "answered")
  <2>1. MachineOK(at.m) /\ NoneCanceled(at.m) BY LocatedIs, LocatedQuiet
  <2>2. NoneCanceled(n) BY <2>1, SetStatusQuiet
  <2> HIDE DEF at, n
  <2>3. reduceOutboundPlacerAnswered(m, ev).m \in {m, at.m, n}
    BY DEF reduceOutboundPlacerAnswered, HangupStray, NoEffect, Result, n, at
  <2> QED BY <2>1, <2>2, <2>3
<1>4. NoneCanceled(reduceOutboundPlacerHangup(m, ev).m)
  <2> DEFINE n    == SetStatus(m, {FindLeg(m, ev.leg)} \ {NoLeg}, "dead")
             over == terminalize(n, "ended_missed", "missed", "null", NoColumns)
  <2>1. MachineOK(n) /\ NoneCanceled(n) BY SetStatusOK, SetStatusQuiet DEF LegStatus
  <2> HIDE DEF n
  <2>2. NoneCanceled([n EXCEPT !.ownerLegDead = ev.user])
    BY <2>1 DEF NoneCanceled, LegsWith, MachineOK, SessionMachine
  <2>3. NoneCanceled(over.m) /\ NoneCanceled(ownerDeathTeardown(n).m)
    BY <2>1, EndingsIn, terminalizeQuiet, ownerDeathTeardownQuiet
  <2> HIDE DEF over
  <2>4. reduceOutboundPlacerHangup(m, ev).m \in
          {m, n, [n EXCEPT !.ownerLegDead = ev.user], over.m, ownerDeathTeardown(n).m}
    BY DEF reduceOutboundPlacerHangup, NoEffect, Result, over, n
  <2> QED BY <2>1, <2>2, <2>3, <2>4
<1>5. NoneCanceled(reduceAnswerOutcome(m, ev).m)
  <2>1. NoneCanceled(answerWon(m, ev).m)
    <3> DEFINE losers == {i \in LegsWith(m, {"dialing", "ringing"}) : m.legs[i].ccid # ev.leg}
               winner == {FindLeg(m, ev.leg)} \ {NoLeg}
               n      == SetStatus(SetStatus(m, losers, "canceling"), winner, "answered")
    <3>1. MachineOK(n) BY SetStatusOK DEF LegStatus
    <3> HIDE DEF n
    <3>2. answerWon(m, ev).m = [n EXCEPT !.state = "answered", !.owner = ev.user,
                                         !.answered = TRUE, !.answerIntent = NoUser]
      BY DEF answerWon, Result, n
    <3>3. answerWon(m, ev).m.state = "answered" BY <3>1, <3>2 DEF MachineOK, SessionMachine
    <3> QED BY <3>3, NotRinging
  <2>2. NoneCanceled(answerLost(m, ev).m)
    <3> DEFINE leg == FindLeg(m, ev.leg)
               cut == IF leg # NoLeg /\ m.legs[leg].status # "dead" THEN {leg} ELSE {}
               n   == SetStatus(m, cut, "canceling")
    <3>1. MachineOK(n) BY SetStatusOK DEF LegStatus
    <3> HIDE DEF n
    <3>2. NoneCanceled(terminalize(n, MissedState(m), "missed", "missed", NoColumns).m)
      BY <3>1, EndingsIn, terminalizeQuiet
    <3> QED BY <3>2 DEF answerLost, Result, n
  <2> QED BY <2>1, <2>2 DEF reduceAnswerOutcome, NoEffect, Result
<1>6. NoneCanceled(reduceProbeOutcome(m, ev).m)
  <2> DEFINE n == SetStatus(m, {FindLeg(m, ev.leg)}, "dead")
  <2>1. MachineOK(n) /\ NoneCanceled(n) BY SetStatusOK, SetStatusQuiet DEF LegStatus
  <2> HIDE DEF n
  <2>2. NoneCanceled(runAvenueLadder(n).m) BY <2>1, runAvenueLadderQuiet
  <2>3. NoneCanceled(AnswerFor(m, ev.leg, ev.user).m)
    BY DEF AnswerFor, Result, NoneCanceled, LegsWith, MachineOK, SessionMachine
  <2> QED BY <2>2, <2>3 DEF reduceProbeOutcome, NoEffect, Result, n
<1> QED BY <1>1, <1>2, <1>3, <1>4, <1>5, <1>6

\* The customer's hangups, the media steps and the outcomes of answering for them.
LEMMA CustomerEventQuiet ==
  ASSUME NEW m, MachineOK(m), NoneCanceled(m), NEW ev
  PROVE  /\ NoneCanceled(reduceOutboundAnswered(m).m)
         /\ NoneCanceled(reduceSpeakEnded(m).m)
         /\ NoneCanceled(reduceRecordingSaved(m).m)
         /\ NoneCanceled(reduceNoticeAnswerOutcome(m, ev).m)
         /\ NoneCanceled(reduceVmAnswerOutcome(m, ev).m)
         /\ NoneCanceled(reduceInboundLegGone(m).m)
         /\ NoneCanceled(reduceOutboundHangup(m, ev).m)
         /\ ev.tag \in {"untagged", "bri", "vmi"} => NoneCanceled(reduceInboundHangup(m, ev).m)
<1>1. \A target \in TerminalStates : \A merged, reason, extra :
        NoneCanceled(terminalize(m, target, merged, reason, extra).m)
  BY terminalizeQuiet
<1>2. MissedState(m) \in TerminalStates /\ {"ended_answered", "ended_missed"} \subseteq TerminalStates
  BY EndingsIn
<1>3. NoneCanceled(reduceOutboundAnswered(m).m) /\ NoneCanceled(reduceSpeakEnded(m).m)
        /\ NoneCanceled(reduceRecordingSaved(m).m)
  BY DEF reduceOutboundAnswered, reduceSpeakEnded, reduceRecordingSaved, NoEffect, Result,
     NoneCanceled, MachineOK, SessionMachine
<1>4. NoneCanceled(reduceNoticeAnswerOutcome(m, ev).m)
  BY DEF reduceNoticeAnswerOutcome, NoEffect, Result, NoneCanceled, LegsWith, MachineOK,
     SessionMachine
<1>5. NoneCanceled(reduceVmAnswerOutcome(m, ev).m)
  <2> DEFINE n == SetStatus(m, LegsWith(m, {"dialing", "ringing"}), "canceling")
  <2>1. n.state = m.state BY SameState
  <2>2. cancelAllLiveLegs(m).m = n BY DEF cancelAllLiveLegs, Result
  <2> HIDE DEF n
  <2>3. m.state = "voicemail_greeting" => NoneCanceled(n) BY <2>1, NotRinging
  <2> QED BY <1>1, <1>2, <2>2, <2>3 DEF reduceVmAnswerOutcome, NoEffect, Result
<1>6. NoneCanceled(reduceInboundLegGone(m).m) /\ NoneCanceled(reduceOutboundHangup(m, ev).m)
  BY <1>1, <1>2 DEF reduceInboundLegGone, reduceOutboundHangup, NoEffect, Result
<1>7. ASSUME ev.tag \in {"untagged", "bri", "vmi"} PROVE NoneCanceled(reduceInboundHangup(m, ev).m)
  <2>1. NoneCanceled(briUpgrade(m, ev).m)
    <3>1. briUpgrade(m, ev).m.state = "ended_answered"
      BY StampFromIntentIs DEF briUpgrade, Result, MachineOK, SessionMachine
    <3> QED BY <3>1, NotRinging
  <2>2. NoneCanceled(briHangup(m, ev).m)
    <3> DEFINE by == IF m.owner = NoUser /\ m.answerIntent # NoUser THEN StampFromIntent(m) ELSE m
    <3>1. MachineOK(by) BY StampFromIntentIs
    <3> HIDE DEF by
    <3>2. NoneCanceled(terminalize(by, "ended_answered", ev.merged, "answered", OwnerColumns(by)).m)
      BY <1>2, <3>1, terminalizeQuiet
    <3> QED BY <3>2 DEF briHangup, by
  <2> QED BY <1>1, <1>2, <1>7, <2>1, <2>2 DEF reduceInboundHangup, NoEffect, Result
<1> QED BY <1>3, <1>4, <1>5, <1>6, <1>7

\* The members' requests, the dials and the alarms.
LEMMA RequestQuiet ==
  ASSUME NEW m, MachineOK(m), NoneCanceled(m), NEW ev
  PROVE  /\ NoneCanceled(reduceRingMe(m, ev).m)
         /\ NoneCanceled(reduceDecline(m, ev).m)
         /\ NoneCanceled(reduceSetOwner(m, ev).m)
         /\ NoneCanceled(reduceRegisterIntent(m).m)
         /\ NoneCanceled(reduceClearIntent(m).m)
         /\ NoneCanceled(reduceAlarmRing(m).m)
         /\ NoneCanceled(reduceAlarmRingStep(m, ev).m)
         /\ NoneCanceled(reduceAlarmJanitor(m).m)
         /\ NoneCanceled(reducePushFanoutSettled(m, ev).m)
         /\ ev.leg \in LegId => NoneCanceled(reduceDialOutcome(m, ev).m)
<1>1. NoneCanceled(reduceRingMe(m, ev).m)
  BY PushLegQuiet DEF reduceRingMe, NoEffect, Result
<1>3. NoneCanceled(reduceSetOwner(m, ev).m) /\ NoneCanceled(reduceRegisterIntent(m).m)
  BY DEF reduceSetOwner, reduceRegisterIntent, NoEffect, Result, NoneCanceled, LegsWith, MachineOK,
     SessionMachine
<1>4. NoneCanceled(reduceClearIntent(m).m)
  BY DEF reduceClearIntent, ownerDeathTeardown, NoEffect, Result, NoneCanceled, LegsWith, MachineOK,
     SessionMachine
<1>5. NoneCanceled(reduceAlarmRing(m).m)
  BY vmEntryQuiet DEF reduceAlarmRing, NoEffect, Result
<1>7. NoneCanceled(reduceAlarmJanitor(m).m)
  BY EndingsIn, terminalizeQuiet DEF reduceAlarmJanitor, NoEffect, Result
<1>2. NoneCanceled(reduceDecline(m, ev).m)
  <2> DEFINE dead == SetStatus(m, {i \in liveLegs(m) : m.legs[i].user = ev.user}, "dead")
             n    == [dead EXCEPT !.declined = @ \cup {ev.user}, !.push = @ \ {ev.user},
                                  !.queue = @ \ {ev.user}]
  <2>1. MachineOK(dead) /\ NoneCanceled(dead) BY SetStatusOK, SetStatusQuiet DEF LegStatus
  <2> HIDE DEF dead
  <2>2. n.state = dead.state /\ n.legs = dead.legs BY <2>1 DEF MachineOK, SessionMachine
  <2> HIDE DEF n
  <2>3. NoneCanceled(n) BY <2>1, <2>2, SameLegs
  <2>4. NoneCanceled(runAvenueLadder(n).m)
    <3>1. vmEntry(n).m.state = "voicemail_greeting"
      BY <2>1 DEF vmEntry, Result, MachineOK, SessionMachine, n
    <3> QED BY <2>3, <3>1, NotRinging DEF runAvenueLadder, NoEffect, Result
  <2> QED BY <2>4 DEF reduceDecline, NoEffect, Result, n, dead
<1>6. NoneCanceled(reduceAlarmRingStep(m, ev).m)
  <2> DEFINE waiting == m.queue \ m.declined
             user    == Foremost(m.order, waiting)
             popped  == [m EXCEPT !.queue = waiting \ {user}]
             none    == [m EXCEPT !.queue = {}]
  <2>1. MachineOK(popped) BY FieldsOK, EndingsIn DEF Maybe
  <2>2. popped.state = m.state /\ popped.legs = m.legs BY DEF MachineOK, SessionMachine
  <2>3. MachineOK(none) /\ none.state = m.state /\ none.legs = m.legs
    BY DEF MachineOK, SessionMachine
  <2> HIDE DEF popped, none
  <2>4. NoneCanceled(popped) /\ NoneCanceled(none) BY <2>2, <2>3, SameLegs
  <2>5. NoneCanceled(PushLeg(popped, user, FALSE)) BY <2>1, <2>4, PushLegQuiet
  <2>6. NoneCanceled(runAvenueLadder(none).m) BY <2>3, <2>4, runAvenueLadderQuiet
  <2>7. reduceAlarmRingStep(m, ev).m \in
          {m, popped, PushLeg(popped, user, FALSE), runAvenueLadder(none).m}
    BY DEF reduceAlarmRingStep, NoEffect, Result, popped, none
  <2> QED BY <2>4, <2>5, <2>6, <2>7
<1>8. NoneCanceled(reducePushFanoutSettled(m, ev).m)
  <2> DEFINE n == [m EXCEPT !.push = @ \ ev.unreachable]
  <2>1. MachineOK(n) BY FieldsOK, EndingsIn DEF Maybe
  <2>2. n.state = m.state /\ n.legs = m.legs BY DEF MachineOK, SessionMachine
  <2> HIDE DEF n
  <2>3. NoneCanceled(n) BY <2>2, SameLegs
  <2> QED BY <2>1, <2>3, runAvenueLadderQuiet DEF reducePushFanoutSettled, Result, n
<1>9. ASSUME ev.leg \in LegId PROVE NoneCanceled(reduceDialOutcome(m, ev).m)
  <2> DEFINE stamp   == Stamp(m, ev.leg, ev.leg)
             stamped == SetStatus(stamp, IF m.legs[ev.leg].status = "dialing" THEN {ev.leg} ELSE {},
                                  "ringing")
             failed  == SetStatus(m, {ev.leg},
                                  IF ev.outcome = "ambiguous" THEN "ambiguous" ELSE "dead")
             over    == terminalize(failed, "ended_missed", "missed", "null", NoColumns)
  <2>1. MachineOK(stamp) /\ NoneCanceled(stamp) BY <1>9, StampOK, StampQuiet
  <2> HIDE DEF stamp
  <2>2. NoneCanceled(stamped) BY <2>1, SetStatusQuiet
  <2>3. MachineOK(failed) /\ NoneCanceled(failed) BY SetStatusOK, SetStatusQuiet DEF LegStatus
  <2> HIDE DEF stamped, failed
  <2>4. NoneCanceled(over.m) /\ NoneCanceled(runAvenueLadder(failed).m)
    BY <2>3, EndingsIn, terminalizeQuiet, runAvenueLadderQuiet
  <2> HIDE DEF over
  <2>5. reduceDialOutcome(m, ev).m \in {m, stamped, failed, over.m, runAvenueLadder(failed).m}
    BY DEF reduceDialOutcome, NoEffect, Result, over, stamped, failed, stamp
  <2> QED BY <2>2, <2>3, <2>4, <2>5
<1> QED BY <1>1, <1>2, <1>3, <1>4, <1>5, <1>6, <1>7, <1>8, <1>9

\* A session starts with no leg given up.
LEMMA InitiatedQuiet ==
  ASSUME NEW ctx
  PROVE  /\ ctx \in InboundContext => NoneCanceled(reduceInitiated(ctx).m)
         /\ ctx \in Placement => NoneCanceled(reduceOutboundInitiated(ctx).m)
<1>1. ASSUME ctx \in InboundContext PROVE NoneCanceled(reduceInitiated(ctx).m)
  <2> DEFINE base == [NoMachine EXCEPT !.state = "ringing", !.push = ctx.audience]
  <2>1. MachineOK(base)
    BY <1>1, NoMachineOK, EndingsIn DEF MachineOK, SessionMachine, NoMachine, InboundContext
  <2>2. base.legs = [i \in LegId |-> UnusedLeg] BY DEF NoMachine
  <2> HIDE DEF base
  <2>3. \A n : n.legs = [i \in LegId |-> UnusedLeg] => NoneCanceled(n)
    BY DEF NoneCanceled, LegsWith, UnusedLeg
  <2>4. NoneCanceled(vmEntry(base).m) BY <2>1, vmEntryQuiet
  <2>5. NoneCanceled([base EXCEPT !.noticeSpoken = ctx.noticeAllowed])
          /\ NoneCanceled([base EXCEPT !.rejectedForCap = TRUE])
    BY <2>1, <2>2, <2>3 DEF MachineOK, SessionMachine
  <2>6. NoneCanceled(ringStart(base, ctx).m)
    <3> DEFINE targets == RingTargets(ctx)
               now     == IF ctx.inTurn /\ Len(targets) > 1 THEN 1 ELSE Len(targets)
               first   == SubSeq(targets, 1, now)
               legs    == [i \in LegId |->
                             IF i <= Len(first)
                             THEN [user |-> first[i], status |-> "dialing", ccid |-> NoLeg,
                                   ringMe |-> FALSE]
                             ELSE UnusedLeg]
               n       == ringStart(base, ctx).m
    <3>1. n.legs = legs
      BY <2>1 DEF ringStart, PushLegs, Result, MachineOK, SessionMachine
    <3>2. \A i \in LegId : legs[i].status # "canceling" BY DEF UnusedLeg
    <3> HIDE DEF n, legs
    <3>3. NoneCanceled(n) BY <3>1, <3>2 DEF NoneCanceled, LegsWith
    <3> QED BY <3>3 DEF n
  <2> QED BY <2>4, <2>5, <2>6 DEF reduceInitiated, Result, base
<1>2. ASSUME ctx \in Placement PROVE NoneCanceled(reduceOutboundInitiated(ctx).m)
  <2> DEFINE base == [NoMachine EXCEPT !.state = "dialing", !.direction = "outbound",
                                       !.owner = ctx.placer]
  <2>1. MachineOK(base)
    BY <1>2, NoMachineOK, EndingsIn DEF MachineOK, SessionMachine, NoMachine, Placement
  <2>2. base.state = "dialing" BY DEF NoMachine
  <2> HIDE DEF base
  <2>3. NoneCanceled(base) BY <2>2, NotRinging
  <2>4. NoneCanceled(PushLeg(base, ctx.placer, FALSE)) BY <2>1, <2>3, PushLegQuiet
  <2> QED BY <2>3, <2>4 DEF reduceOutboundInitiated, Result, base
<1> QED BY <1>1, <1>2

(* RingingIsQuiet (T4, T2): no event gives a leg up and leaves the session    *)
(* ringing, so that the answer of any phone still presenting the call counts. *)
THEOREM RingingIsQuiet ==
  ASSUME NEW m, MachineOK(m), NoneCanceled(m), NEW ev \in Event
  PROVE  NoneCanceled(reduce(m, ev).m)
<1>1. NoneCanceled(NoEffect(m).m) BY DEF NoEffect, Result
<1>2. CASE ev.type \in {"initiated", "outbound-initiated"}
  BY <1>1, <1>2, EventFields, InitiatedQuiet DEF reduce
<1>3. CASE ev.type \in LegTypes
  <2>1. ev.leg \in LegId /\ ev.user \in Maybe(User) BY <1>3, EventFields
  <2>2. NoneCanceled(handle(m, ev).m) BY <1>3, <2>1, LegEventQuiet DEF handle, LegTypes
  <2> QED BY <1>1, <1>3, <2>2 DEF reduce, LegTypes
<1>4. CASE ev.type \in {"inbound-hangup", "outbound-hangup", "dial-outcome"}
  <2>1. /\ ev.type = "inbound-hangup" => ev.tag \in {"untagged", "bri", "vmi"}
        /\ ev.type = "dial-outcome" => ev.leg \in LegId
    BY EventFields
  <2>2. NoneCanceled(handle(m, ev).m)
    BY <1>4, <2>1, CustomerEventQuiet, RequestQuiet DEF handle
  <2> QED BY <1>1, <1>4, <2>2 DEF reduce
<1>5. CASE ev.type \in PlainTypes \cup {"ring-me", "decline", "set-owner"}
  <2>1. NoneCanceled(handle(m, ev).m)
    BY <1>5, CustomerEventQuiet, RequestQuiet DEF handle, PlainTypes
  <2> QED BY <1>1, <1>5, <2>1 DEF reduce, PlainTypes
<1> QED BY <1>2, <1>3, <1>4, <1>5, EventFields
================================================================================
