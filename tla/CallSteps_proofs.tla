--------------------------- MODULE CallSteps_proofs ---------------------------
(***************************************************************************)
(* What one event can do to a session, as far as its outcome goes.  The    *)
(* twenty-five handlers of transitions.ts make only a dozen kinds of step: *)
(* most leave the machine's state, owner and answer stamp alone, and each  *)
(* of the others changes them in one way and tells the calls row of it.    *)
(* ReduceKinds says so for every machine and event; what the session needs *)
(* of a step follows from its kind.                                        *)
(***************************************************************************)
EXTENDS CallTransitions_proofs

(***************************************************************************)
(* Lists of effects, by the effects that occur in them.                    *)
(***************************************************************************)
Eff(fx) == {fx[i] : i \in DOMAIN fx}

\* fx is a list of exactly the effects of S.
Lists(fx, S) == fx \in Seq(S) /\ S = Eff(fx)

\* The empty list has none,
LEMMA Lists0 == Lists(<<>>, {})
  BY DEF Lists, Eff

\* and lists of one to six effects have those they name.
LEMMA Lists1 == ASSUME NEW a PROVE Lists(<<a>>, {a})
<1>1. <<a>> \in Seq({a}) /\ {a} \subseteq Eff(<<a>>) BY DEF Eff
<1>2. Eff(<<a>>) \subseteq {a} BY <1>1 DEF Eff
<1> QED BY <1>1, <1>2 DEF Lists

\* Two effects,
LEMMA Lists2 == ASSUME NEW a, NEW b PROVE Lists(<<a, b>>, {a, b})
<1>1. <<a, b>> \in Seq({a, b}) /\ {a, b} \subseteq Eff(<<a, b>>) BY DEF Eff
<1>2. Eff(<<a, b>>) \subseteq {a, b} BY <1>1 DEF Eff
<1> QED BY <1>1, <1>2 DEF Lists

\* three,
LEMMA Lists3 == ASSUME NEW a, NEW b, NEW c PROVE Lists(<<a, b, c>>, {a, b, c})
<1> DEFINE fx == <<a, b, c>>
           S  == {a, b, c}
<1>1. fx \in Seq(S) OBVIOUS
<1>2. DOMAIN fx = 1 .. 3 /\ fx[1] = a /\ fx[2] = b /\ fx[3] = c OBVIOUS
<1> HIDE DEF fx
<1>3. Eff(fx) = S BY <1>2 DEF Eff
<1> QED BY <1>1, <1>3 DEF Lists, fx

\* four,
LEMMA Lists4 == ASSUME NEW a, NEW b, NEW c, NEW d PROVE Lists(<<a, b, c, d>>, {a, b, c, d})
<1> DEFINE fx == <<a, b, c, d>>
           S  == {a, b, c, d}
<1>1. fx \in Seq(S) OBVIOUS
<1>2. DOMAIN fx = 1 .. 4 /\ fx[1] = a /\ fx[2] = b /\ fx[3] = c /\ fx[4] = d OBVIOUS
<1> HIDE DEF fx
<1>3. Eff(fx) = S BY <1>2 DEF Eff
<1> QED BY <1>1, <1>3 DEF Lists, fx

\* five.
LEMMA Lists5 ==
  ASSUME NEW a, NEW b, NEW c, NEW d, NEW e PROVE Lists(<<a, b, c, d, e>>, {a, b, c, d, e})
<1> DEFINE fx == <<a, b, c, d, e>>
           S  == {a, b, c, d, e}
<1>1. fx \in Seq(S) OBVIOUS
<1>2. /\ DOMAIN fx = 1 .. 5
      /\ fx[1] = a /\ fx[2] = b /\ fx[3] = c /\ fx[4] = d /\ fx[5] = e
  OBVIOUS
<1> HIDE DEF fx
<1>3. Eff(fx) = S BY <1>2 DEF Eff
<1> QED BY <1>1, <1>3 DEF Lists, fx

\* One list after another.
LEMMA ListsConcat ==
  ASSUME NEW a, NEW b, NEW S, NEW T, Lists(a, S), Lists(b, T) PROVE Lists(a \o b, S \cup T)
<1>1. a \in Seq(S \cup T) /\ b \in Seq(S \cup T) BY DEF Lists
<1>2. a \o b \in Seq(S \cup T) BY <1>1
<1>3. /\ DOMAIN (a \o b) = 1 .. Len(a) + Len(b)
      /\ \A i \in 1 .. Len(a) : (a \o b)[i] = a[i]
      /\ \A i \in 1 .. Len(b) : (a \o b)[Len(a) + i] = b[i]
      /\ DOMAIN a = 1 .. Len(a) /\ DOMAIN b = 1 .. Len(b) /\ Len(a) \in Nat /\ Len(b) \in Nat
  BY <1>1
<1>4. S \cup T \subseteq Eff(a \o b)
  <2>1. ASSUME NEW i \in 1 .. Len(a) PROVE a[i] \in Eff(a \o b)
    BY <1>3 DEF Eff
  <2>2. ASSUME NEW i \in 1 .. Len(b) PROVE b[i] \in Eff(a \o b)
    <3>1. Len(a) + i \in DOMAIN (a \o b) BY <1>3
    <3> QED BY <1>3, <3>1 DEF Eff
  <2> QED BY <1>3, <2>1, <2>2 DEF Lists, Eff
<1>5. Eff(a \o b) \subseteq S \cup T BY <1>2, <1>3 DEF Eff
<1> QED BY <1>2, <1>4, <1>5 DEF Lists

\* A list that is only there under a condition.
LEMMA ListsWhen ==
  ASSUME NEW b, NEW fx, NEW S, Lists(fx, S) PROVE Lists(When(b, fx), IF b THEN S ELSE {})
  BY Lists0 DEF When

\* The hangup of a set of legs.
LEMMA ListsHangups == ASSUME NEW ls PROVE Lists(Hangups(ls), IF ls # {} THEN {HangupLegs(ls)} ELSE {})
  BY Lists1, ListsWhen DEF Hangups

\* What a stored list holds.
LEMMA ListsIs == ASSUME NEW fx, SomeEffects(fx) PROVE Lists(fx, Eff(fx))
<1>1. PICK S : fx \in Seq(S) BY DEF SomeEffects
<1>2. fx \in Seq(Eff(fx)) BY <1>1 DEF Eff
<1> QED BY <1>2 DEF Lists

(***************************************************************************)
(* The effects that matter to the outcome of a call.                       *)
(***************************************************************************)
\* They settle how the call ended.
SettleKinds == {"terminal-merge", "voicemail-pipeline"}

Settles(S) == \E e \in S : e.kind \in SettleKinds

\* The purge is armed only after the row was told how the call ended.
SettledBefore(fx) ==
  \A i \in DOMAIN fx : fx[i] = Arm("purge") => \E j \in 1 .. (i - 1) : fx[j].kind \in SettleKinds

\* An effect that writes no row, dials nobody, starts no recording and arms none
\* of the alarms that speak of the session's age or end.
Bland(e) ==
  /\ e.kind \notin {"mirror", "terminal-merge", "voicemail-pipeline", "telnyx-dial",
                    "telnyx-dial-placer", "telnyx-record-start"}
  /\ e.kind = "arm-alarm" => e.alarm \notin {"purge", "janitor", "ring"}

\* What the handlers use of them.
LEMMA BlandIs ==
  /\ \A l, u : Bland(AnswerInbound(l, u)) /\ Bland(Probe(l, u))
  /\ \A l : Bland(Bridge(l)) /\ Bland(HangupLegs(l)) /\ Bland(Speak(l)) /\ Bland(PushCallEnd(l))
  /\ \A a : Bland(Clear(a))
  /\ Bland(AnswerNotice) /\ Bland(AnswerVm) /\ Bland(HangupCustomer) /\ Bland(Reject)
  /\ Bland(PushFanout) /\ Bland(Arm("ring-step")) /\ Bland(Arm("fanout-settle"))
  /\ Bland(Arm("intent-expiry"))
  BY DEF Bland, AnswerInbound, Probe, Bridge, HangupLegs, Speak, PushCallEnd, Clear, AnswerNotice,
     AnswerVm, HangupCustomer, Reject, PushFanout, Arm

\* The others, by kind.
LEMMA KindsOf ==
  /\ \A set : Mirror(set).kind = "mirror" /\ Mirror(set).set = set
  /\ \A o : TerminalMerge(o).kind = "terminal-merge" /\ TerminalMerge(o).outcome = o
  /\ VoicemailPipeline.kind = "voicemail-pipeline"
  /\ \A a : Arm(a).kind = "arm-alarm" /\ Arm(a).alarm = a
  /\ \A f, t : Dial(f, t).kind = "telnyx-dial" /\ Dial(f, t).from = f /\ Dial(f, t).to = t
  /\ \A i : DialPlacer(i).kind = "telnyx-dial-placer" /\ DialPlacer(i).from = i /\ DialPlacer(i).to = i
  /\ RecordStart.kind = "telnyx-record-start"
  /\ HangupCustomer.kind = "telnyx-hangup-customer"
  BY DEF Mirror, TerminalMerge, VoicemailPipeline, Arm, Dial, DialPlacer, RecordStart, HangupCustomer

\* A list that never arms the purge,
LEMMA SettledNoPurge ==
  ASSUME NEW fx, Arm("purge") \notin Eff(fx) PROVE SettledBefore(fx)
  BY DEF SettledBefore, Eff

\* and one that arms it in a second part, after the first has settled the call.
LEMMA SettledConcat ==
  ASSUME NEW a, NEW b, NEW S, NEW T, Lists(a, S), Lists(b, T), SettledBefore(a),
         Settles(S) \/ SettledBefore(b)
  PROVE  SettledBefore(a \o b)
<1>1. a \in Seq(S \cup T) /\ b \in Seq(S \cup T) BY DEF Lists
<1>2. /\ DOMAIN (a \o b) = 1 .. Len(a) + Len(b)
      /\ \A i \in 1 .. Len(a) : (a \o b)[i] = a[i]
      /\ \A i \in 1 .. Len(b) : (a \o b)[Len(a) + i] = b[i]
      /\ DOMAIN a = 1 .. Len(a) /\ DOMAIN b = 1 .. Len(b) /\ Len(a) \in Nat /\ Len(b) \in Nat
  BY <1>1
<1>3. SUFFICES ASSUME NEW i \in 1 .. Len(a) + Len(b), (a \o b)[i] = Arm("purge")
               PROVE  \E j \in 1 .. (i - 1) : (a \o b)[j].kind \in SettleKinds
  BY <1>2 DEF SettledBefore
<1>4. CASE i \in 1 .. Len(a)
  <2>1. PICK j \in 1 .. (i - 1) : a[j].kind \in SettleKinds
    BY <1>2, <1>3, <1>4 DEF SettledBefore
  <2>2. j \in 1 .. Len(a) BY <1>2, <1>4
  <2> QED BY <1>2, <2>1, <2>2
<1>5. CASE i \notin 1 .. Len(a) /\ Settles(S)
  <2>1. PICK j \in 1 .. Len(a) : a[j].kind \in SettleKinds
    BY <1>2, <1>5 DEF Settles, Lists, Eff
  <2>2. j \in 1 .. (i - 1) BY <1>2, <1>3, <1>5
  <2> QED BY <1>2, <2>1, <2>2
<1>6. CASE i \notin 1 .. Len(a) /\ SettledBefore(b)
  <2>1. i - Len(a) \in 1 .. Len(b) /\ Len(a) + (i - Len(a)) = i BY <1>2, <1>3, <1>6
  <2>2. b[i - Len(a)] = Arm("purge") BY <1>2, <1>3, <2>1
  <2>3. PICK j \in 1 .. (i - Len(a) - 1) : b[j].kind \in SettleKinds
    BY <1>2, <1>6, <2>1, <2>2 DEF SettledBefore
  <2>4. j \in 1 .. Len(b) /\ Len(a) + j \in 1 .. (i - 1) BY <1>2, <1>3, <2>1, <2>3
  <2> QED BY <1>2, <2>3, <2>4
<1> QED BY <1>4, <1>5, <1>6

(***************************************************************************)
(* The columns of a mirror write.                                          *)
(***************************************************************************)
ColumnOf(m, c) ==
  CASE c = "state"               -> m.state
    [] c = "answered_by_user_id" -> m.owner
    [] c = "answered_at"         -> m.answered
    [] OTHER                     -> m.noticeSpoken

\* The columns of set are the machine's.
Says(set, m) == \A c \in DOMAIN set : set[c] = ColumnOf(m, c)

\* Columns laid over columns.
LEMMA WrittenSays ==
  ASSUME NEW a, NEW b, NEW m, Says(a, m), Says(b, m)
  PROVE  Says(Written(a, b), m) /\ DOMAIN Written(a, b) = DOMAIN a \cup DOMAIN b
  BY DEF Says, Written

\* No columns, the owner's and the state's.
LEMMA ColumnsSay ==
  ASSUME NEW m
  PROVE  /\ Says(NoColumns, m) /\ DOMAIN NoColumns = {}
         /\ Says(OwnerColumns(m), m)
         /\ m.owner = NoUser => DOMAIN OwnerColumns(m) = {}
         /\ m.owner # NoUser => DOMAIN OwnerColumns(m) = {"answered_by_user_id", "answered_at"}
         /\ \A s : m.state = s => Says([state |-> s], m) /\ DOMAIN [state |-> s] = {"state"}
  BY DEF Says, NoColumns, OwnerColumns, ColumnOf

(***************************************************************************)
(* The kinds of step.  m is the machine before, ev the event, r the result.*)
(***************************************************************************)
\* What the outcome of a call depends on, but for the state and who has it.
SameSide(m, n) ==
  /\ n.direction = m.direction /\ n.rejectedForCap = m.rejectedForCap
  /\ n.noticeSpoken = m.noticeSpoken /\ n.answerIntent = m.answerIntent

SameCore(m, n) ==
  SameSide(m, n) /\ n.state = m.state /\ n.owner = m.owner /\ n.answered = m.answered

\* Besides bland effects there is the write of set, and nothing else.
Writes(S, set) == Mirror(set) \in S /\ \A e \in S : Bland(e) \/ e = Mirror(set)

\* The customer's leg is down, or was never ours.
GoneSaid(ev) ==
  \/ ev.type \in {"inbound-hangup", "outbound-hangup", "inbound-leg-gone"}
  \/ ev.type \in {"answer-outcome", "vm-answer-outcome"} /\ ~ev.ok

\* The call stays with whoever has it, or goes to the member whose answer was on
\* its way.
SameOwner(m, r) == r.m.owner = m.owner /\ r.m.answered = m.answered

Quiet(m, r) == SameCore(m, r.m) /\ \A e \in Eff(r.fx) : Bland(e)

\* A member's answer is put to the customer's leg.
Intends(m, ev, r) ==
  /\ m.state = "ringing"
  /\ r.m.state = m.state /\ r.m.direction = m.direction /\ r.m.rejectedForCap = m.rejectedForCap
  /\ r.m.noticeSpoken = m.noticeSpoken /\ SameOwner(m, r)
  /\ \A e \in Eff(r.fx) : Bland(e)

\* Members are rung, nobody who declined among them.
Dials(m, r) ==
  /\ m.state = "ringing" /\ SameCore(m, r.m)
  /\ \A e \in Eff(r.fx) :
        \/ Bland(e)
        \/ /\ e.kind = "telnyx-dial"
           /\ \A i \in e.from .. e.to : r.m.legs[i].user \notin r.m.declined

\* The caller is sent to voicemail.
Diverts(m, r) ==
  /\ m.state = "ringing" /\ r.m.state = "voicemail_greeting"
  /\ SameSide(m, r.m) /\ r.m.owner = m.owner /\ r.m.answered = m.answered
  /\ Writes(Eff(r.fx), [state |-> "voicemail_greeting"])

\* A member's answer won the call.
Answers(m, ev, r) ==
  /\ m.state = "ringing" /\ r.m.state = "answered"
  /\ r.m.direction = m.direction /\ r.m.rejectedForCap = m.rejectedForCap
  /\ r.m.noticeSpoken = m.noticeSpoken
  /\ r.m.owner = ev.user /\ r.m.answered /\ r.m.answerIntent = NoUser
  /\ Writes(Eff(r.fx), [state |-> "answered", answered_by_user_id |-> ev.user, answered_at |-> TRUE])

\* The far end of a placed call picked up.
PicksUp(m, r) ==
  /\ m.state = "dialing" /\ m.direction = "outbound" /\ r.m.state = "answered"
  /\ SameSide(m, r.m) /\ r.m.owner = m.owner /\ r.m.answered
  /\ Writes(Eff(r.fx), [state |-> "answered", answered_at |-> TRUE])

\* The greeting was played and the recording starts.
Records(m, ev, r) ==
  /\ ev.type = "speak-ended"
  /\ m.state = "voicemail_greeting" /\ r.m.state = "voicemail_recording"
  /\ SameSide(m, r.m) /\ r.m.owner = m.owner /\ r.m.answered = m.answered
  /\ LET set == [state |-> "voicemail_recording"]
     IN  /\ Mirror(set) \in Eff(r.fx)
         /\ \A e \in Eff(r.fx) : Bland(e) \/ e = Mirror(set) \/ e = RecordStart

\* The recording came.
Saves(m, ev, r) ==
  /\ ev.type = "recording-saved"
  /\ m.state \in {"voicemail_recording", "ended_missed"} /\ r.m.state = "ended_voicemail"
  /\ SameSide(m, r.m) /\ r.m.owner = m.owner /\ r.m.answered = m.answered
  /\ LET set == [state |-> "ended_voicemail"]
     IN  /\ Mirror(set) \in Eff(r.fx) /\ VoicemailPipeline \in Eff(r.fx)
         /\ \A e \in Eff(r.fx) :
               Bland(e) \/ e = Mirror(set) \/ e = VoicemailPipeline \/ e = Arm("purge")
  /\ SettledBefore(r.fx)

TakesOwner(m, r) ==
  /\ m.owner = NoUser /\ m.answerIntent # NoUser
  /\ r.m.owner = m.answerIntent /\ r.m.answered /\ r.m.state = "ended_answered"

\* An ending tells the row the state, the owner where it tells the stamp too,
\* and how the call ended.
EndEffects(m, ev, r, set, o) ==
  /\ Says(set, r.m) /\ "state" \in DOMAIN set
  /\ "answered_by_user_id" \in DOMAIN set <=> "answered_at" \in DOMAIN set
  /\ ~SameOwner(m, r) => "answered_by_user_id" \in DOMAIN set
  /\ Mirror(set) \in Eff(r.fx) /\ TerminalMerge(o) \in Eff(r.fx)
  /\ \A e \in Eff(r.fx) :
        Bland(e) \/ e = Mirror(set) \/ e = TerminalMerge(o) \/ e = Arm("purge")
  /\ o = "answered" => \/ m.state = "answered"
                       \/ ev.type \in {"inbound-hangup", "outbound-hangup"} /\ ev.merged = "answered"

Ends(m, ev, r) ==
  /\ ~isTerminal(m.state) /\ r.m.state \in TerminalStates \ {"ended_voicemail"}
  /\ SameSide(m, r.m)
  /\ SameOwner(m, r) \/ TakesOwner(m, r)
  /\ \E set, o : EndEffects(m, ev, r, set, o)
  /\ SettledBefore(r.fx)
  /\ r.m.state = "ended_rejected"
       => m.rejectedForCap /\ m.state \in {"dialing", "ringing", "voicemail_greeting"}
  /\ r.m.state = "ended_answered" => \/ m.state = "answered"
                                     \/ ev.type = "inbound-hangup" /\ ev.tag = "bri"
                                     \/ ev.type = "outbound-hangup" /\ m.answered
  /\ GoneSaid(ev) \/ ev.type = "alarm-janitor" \/ HangupCustomer \in Eff(r.fx)

\* The bridged hangup of a call first believed missed.
Upgrades(m, ev, r) ==
  /\ ev.type = "inbound-hangup" /\ ev.tag = "bri"
  /\ m.state = "ended_missed" /\ r.m.state = "ended_answered"
  /\ SameSide(m, r.m)
  /\ \/ SameOwner(m, r)
     \/ m.answerIntent # NoUser /\ r.m.owner = m.answerIntent /\ r.m.answered
  /\ \E set, o : EndEffects(m, ev, r, set, o) /\ Arm("purge") \notin Eff(r.fx)

\* An announce transfer moves the call to another member.
SetsOwner(m, ev, r) ==
  /\ ev.type = "set-owner" /\ r.m.owner = ev.user
  /\ SameSide(m, r.m) /\ r.m.state = m.state /\ r.m.answered = m.answered
  /\ Writes(Eff(r.fx), [answered_by_user_id |-> ev.user])

\* The suspended line's notice could not be spoken.
NoticeFails(m, r) ==
  /\ m.noticeSpoken /\ ~r.m.noticeSpoken
  /\ r.m.state = m.state /\ r.m.direction = m.direction /\ r.m.rejectedForCap = m.rejectedForCap
  /\ r.m.owner = m.owner /\ r.m.answered = m.answered /\ r.m.answerIntent = m.answerIntent
  /\ Writes(Eff(r.fx), [notice_spoken |-> FALSE])

\* Nobody is rung.
DialsNobody(m, ev, r) ==
  \/ Quiet(m, r) \/ Intends(m, ev, r) \/ Diverts(m, r) \/ Answers(m, ev, r)
  \/ PicksUp(m, r) \/ Records(m, ev, r) \/ Saves(m, ev, r) \/ Ends(m, ev, r) \/ Upgrades(m, ev, r)
  \/ SetsOwner(m, ev, r) \/ NoticeFails(m, r)

Kinds(m, ev, r) == Dials(m, r) \/ DialsNobody(m, ev, r)

\* Somebody is rung only at a request, or when it is his turn.
RingsAsked(m, ev, r) ==
  DialsNobody(m, ev, r) \/ (Dials(m, r) /\ ev.type \in {"ring-me", "alarm-ring-step"})

(***************************************************************************)
(* The pieces the handlers share.                                          *)
(***************************************************************************)
\* Legs and the queue are not part of the core.
LEMMA CoreKept ==
  ASSUME NEW m, MachineOK(m)
  PROVE  /\ \A ls, st : SameCore(m, SetStatus(m, ls, st))
         /\ \A i, c : SameCore(m, Stamp(m, i, c))
         /\ \A ev, b : SameCore(m, Located(m, ev, b).m)
         /\ \A u, b : SameCore(m, PushLeg(m, u, b))
         /\ \A S : SameCore(m, [m EXCEPT !.queue = S]) /\ SameCore(m, [m EXCEPT !.push = S])
         /\ \A u : SameCore(m, [m EXCEPT !.ownerLegDead = u])
         /\ \A b : SameCore(m, [m EXCEPT !.intent = b])
         /\ \A b, u : SameCore(m, [m EXCEPT !.intent = b, !.ownerLegDead = u])
         /\ SameCore(m, m)
  BY DEF MachineOK, SessionMachine, SameCore, SameSide, SetStatus, Stamp, Located, PushLeg

\* No effect at all.
LEMMA QuietNone == ASSUME NEW m, NEW n, SameCore(m, n) PROVE Quiet(m, NoEffect(n))
  BY Lists0 DEF Quiet, NoEffect, Result, Lists

\* A list of bland effects.
LEMMA QuietSome ==
  ASSUME NEW m, NEW n, SameCore(m, n), NEW fx, NEW S, Lists(fx, S), \A e \in S : Bland(e)
  PROVE  Quiet(m, Result(n, fx))
  BY DEF Quiet, Result, Lists

\* One bland effect.
LEMMA QuietOne ==
  ASSUME NEW m, NEW n, SameCore(m, n), NEW e, Bland(e) PROVE Quiet(m, Result(n, <<e>>))
<1> DEFINE S == {e}
<1>1. Lists(<<e>>, S) /\ \A x \in S : Bland(x) BY Lists1
<1> HIDE DEF S
<1> QED BY <1>1, QuietSome

\* A hangup of legs is bland.
LEMMA BlandHangups ==
  ASSUME NEW ls PROVE \E S : Lists(Hangups(ls), S) /\ \A e \in S : Bland(e)
<1> DEFINE S == IF ls # {} THEN {HangupLegs(ls)} ELSE {}
<1>1. \A e \in S : Bland(e) BY BlandIs
<1>2. Lists(Hangups(ls), S) BY ListsHangups
<1> HIDE DEF S
<1> QED BY <1>1, <1>2

\* The one write of a list.
LEMMA WritesOne ==
  ASSUME NEW set, NEW pre, NEW post, NEW S, NEW T, Lists(pre, S), Lists(post, T),
         \A e \in S \cup T : Bland(e)
  PROVE  Writes(Eff(pre \o (<<Mirror(set)>> \o post)), set)
<1>1. Lists(<<Mirror(set)>> \o post, {Mirror(set)} \cup T) BY Lists1, ListsConcat
<1>2. Lists(pre \o (<<Mirror(set)>> \o post), S \cup ({Mirror(set)} \cup T)) BY <1>1, ListsConcat
<1> QED BY <1>2 DEF Lists, Writes

\* The diversion to voicemail.
LEMMA vmEntryDiverts ==
  ASSUME NEW m, NEW n, MachineOK(n), SameCore(m, n), m.state = "ringing",
         NEW pre, NEW S, Lists(pre, S), \A e \in S : Bland(e)
  PROVE  /\ Diverts(m, vmEntry(n))
         /\ Diverts(m, Result(vmEntry(n).m, pre \o vmEntry(n).fx))
<1> DEFINE set == [state |-> "voicemail_greeting"]
           T   == {Mirror(set), Clear("ring"), Clear("ring-step"), AnswerVm, PushCallEnd("voicemail")}
           new == [n EXCEPT !.state = "voicemail_greeting", !.queue = {}]
           r   == vmEntry(n)
<1>1. Lists(r.fx, T) BY Lists5 DEF vmEntry, Result
<1>2. \A e \in T : Bland(e) \/ e = Mirror(set) BY BlandIs
<1>3. Mirror(set) \in T OBVIOUS
<1>4. Lists(pre \o r.fx, S \cup T) BY <1>1, ListsConcat
<1>5. Writes(Eff(r.fx), set) /\ Writes(Eff(pre \o r.fx), set)
  BY <1>1, <1>2, <1>3, <1>4 DEF Lists, Writes
<1>6. r.m = new BY DEF vmEntry, Result
<1>7. /\ new.state = "voicemail_greeting" /\ SameSide(m, new)
      /\ new.owner = m.owner /\ new.answered = m.answered
  BY DEF SameCore, SameSide, MachineOK, SessionMachine
<1> HIDE DEF r, new, T
<1>8. Result(r.m, pre \o r.fx).m = r.m /\ Result(r.m, pre \o r.fx).fx = pre \o r.fx BY DEF Result
<1> QED BY <1>5, <1>6, <1>7, <1>8 DEF Diverts, r

\* The ladder leaves the session alone or diverts the caller.
LEMMA LadderKinds ==
  ASSUME NEW m, NEW n, MachineOK(n), SameCore(m, n),
         NEW pre, NEW S, Lists(pre, S), \A e \in S : Bland(e)
  PROVE  LET res == runAvenueLadder(n) IN
         /\ Quiet(m, res) \/ Diverts(m, res)
         /\ Quiet(m, Result(res.m, pre \o res.fx)) \/ Diverts(m, Result(res.m, pre \o res.fx))
<1> DEFINE res == runAvenueLadder(n)
<1>1. CASE res = NoEffect(n)
  <2>1. res.m = n /\ res.fx = <<>> BY <1>1 DEF NoEffect, Result
  <2>2. Lists(pre \o res.fx, S \cup {}) BY <2>1, Lists0, ListsConcat
  <2>3. Quiet(m, Result(res.m, pre \o res.fx)) BY <2>1, <2>2, QuietSome
  <2>4. Quiet(m, res) BY <1>1, QuietNone
  <2> QED BY <2>3, <2>4
<1>2. CASE res = vmEntry(n) /\ n.state = "ringing"
  <2>1. m.state = "ringing" BY <1>2 DEF SameCore
  <2> QED BY <1>2, <2>1, vmEntryDiverts
<1> QED BY <1>1, <1>2 DEF runAvenueLadder

\* Nothing before it.
LEMMA LadderAlone ==
  ASSUME NEW m, NEW n, MachineOK(n), SameCore(m, n)
  PROVE  Quiet(m, runAvenueLadder(n)) \/ Diverts(m, runAvenueLadder(n))
<1> DEFINE pre == <<>>
           S   == {}
<1>1. Lists(pre, S) /\ \A e \in S : Bland(e) BY Lists0
<1> HIDE DEF pre, S
<1> QED BY <1>1, LadderKinds

\* The answer of the customer's leg, asked for a member.
LEMMA AnswerForIntends ==
  ASSUME NEW m, NEW n, MachineOK(n), SameCore(m, n), m.state = "ringing", NEW ev, NEW l, NEW u
  PROVE  Intends(m, ev, AnswerFor(n, l, u))
<1>1. Lists(AnswerFor(n, l, u).fx, {AnswerInbound(l, u)}) BY Lists1 DEF AnswerFor, Result
<1>2. AnswerFor(n, l, u).m = [n EXCEPT !.answerIntent = u] BY DEF AnswerFor, Result
<1> QED BY <1>1, <1>2, BlandIs
        DEF Intends, SameOwner, SameCore, SameSide, Lists, MachineOK, SessionMachine

\* The teardown of an owner whose leg died.
LEMMA TeardownQuiet ==
  ASSUME NEW m, NEW n, MachineOK(n), SameCore(m, n) PROVE Quiet(m, ownerDeathTeardown(n))
<1>1. SameCore(n, [n EXCEPT !.ownerLegDead = NoUser]) BY CoreKept
<1>2. SameCore(m, [n EXCEPT !.ownerLegDead = NoUser]) BY <1>1 DEF SameCore, SameSide
<1> QED BY <1>2, BlandIs, QuietOne DEF ownerDeathTeardown

\* What terminalize does to the machine and to the row.
LEMMA terminalizeEffects ==
  ASSUME NEW m, MachineOK(m), NEW target \in TerminalStates, NEW merged, NEW reason, NEW extra
  PROVE  LET r   == terminalize(m, target, merged, reason, extra)
             set == Written([state |-> target], extra)
         IN  /\ r.m.state = target /\ SameSide(m, r.m) /\ SameOwner(m, r)
             /\ Lists(r.fx, Eff(r.fx))
             /\ Mirror(set) \in Eff(r.fx) /\ TerminalMerge(merged) \in Eff(r.fx)
             /\ \A e \in Eff(r.fx) :
                   Bland(e) \/ e = Mirror(set) \/ e = TerminalMerge(merged) \/ e = Arm("purge")
             /\ SettledBefore(r.fx)
<1> DEFINE r    == terminalize(m, target, merged, reason, extra)
           set  == Written([state |-> target], extra)
           n    == [m EXCEPT !.state = target]
           cut  == cancelAllLiveLegs(n)
           op   == PlacerToReap(m)
           fx1  == Hangups(CcidsOf(m, op))
           fx2  == << Mirror(set), TerminalMerge(merged) >>
           fx3  == When(m.state = "ringing" /\ reason # "null", <<PushCallEnd(reason)>>)
           fx4  == When(~isTerminal(m.state),
                       <<Clear("ring"), Clear("ring-step"), Clear("fanout-settle"), Arm("purge")>>)
           first == ((cut.fx \o fx1) \o fx2) \o fx3
<1>1. r = Result(SetStatus(cut.m, op, "dead"), first \o fx4) BY DEF terminalize
<1>2. PICK S0 : Lists(cut.fx, S0) /\ \A e \in S0 : Bland(e)
  BY BlandHangups DEF cancelAllLiveLegs, Result
<1>3. PICK S1 : Lists(fx1, S1) /\ \A e \in S1 : Bland(e) BY BlandHangups
<1>4. Lists(fx2, {Mirror(set), TerminalMerge(merged)}) BY Lists2
<1>5. PICK S3 : Lists(fx3, S3) /\ \A e \in S3 : Bland(e)
  <2>1. Lists(fx3, IF m.state = "ringing" /\ reason # "null" THEN {PushCallEnd(reason)} ELSE {})
    BY Lists1, ListsWhen
  <2> QED BY <2>1, BlandIs
<1>6. PICK S4 : Lists(fx4, S4) /\ \A e \in S4 : Bland(e) \/ e = Arm("purge")
  <2> DEFINE R == {Clear("ring"), Clear("ring-step"), Clear("fanout-settle"), Arm("purge")}
  <2>1. Lists(fx4, IF ~isTerminal(m.state) THEN R ELSE {}) BY Lists4, ListsWhen
  <2>2. \A e \in R : Bland(e) \/ e = Arm("purge") BY BlandIs
  <2> QED BY <2>1, <2>2
<1>7. n.state = target /\ SameSide(m, n) /\ n.owner = m.owner /\ n.answered = m.answered
  BY DEF MachineOK, SessionMachine, SameSide
<1>8. MachineOK(n) BY StateOK DEF CallStates
<1>9. MachineOK(cut.m) /\ SameCore(n, cut.m)
  BY <1>8, cancelAllLiveLegsIs, CoreKept DEF IsResult, cancelAllLiveLegs, Result
<1>10. SameCore(cut.m, SetStatus(cut.m, op, "dead")) BY <1>9, CoreKept
<1> DEFINE S == ((S0 \cup S1) \cup {Mirror(set), TerminalMerge(merged)}) \cup S3
<1> HIDE DEF fx1, fx2, fx3, fx4, cut, op, n, set
<1>11. Lists(first, S) BY <1>2, <1>3, <1>4, <1>5, ListsConcat
<1>12. \A e \in S : Bland(e) \/ e = Mirror(set) \/ e = TerminalMerge(merged)
  BY <1>2, <1>3, <1>5
<1> HIDE DEF first
<1>13. Lists(first \o fx4, S \cup S4) BY <1>6, <1>11, ListsConcat
<1>14. Arm("purge") \notin S
  <2>1. ~Bland(Arm("purge")) /\ Arm("purge") # Mirror(set) /\ Arm("purge") # TerminalMerge(merged)
    BY KindsOf DEF Bland
  <2> HIDE DEF S
  <2> QED BY <1>12, <2>1
<1>15. Settles(S) BY KindsOf DEF Settles, SettleKinds
<1>16. SettledBefore(first) BY <1>11, <1>14, SettledNoPurge DEF Lists
<1>17. SettledBefore(first \o fx4) BY <1>6, <1>11, <1>15, <1>16, SettledConcat
<1>18. Mirror(set) \in S /\ TerminalMerge(merged) \in S OBVIOUS
<1> HIDE DEF S
<1>19. r.fx = first \o fx4 /\ r.m = SetStatus(cut.m, op, "dead") BY <1>1 DEF Result
<1>20. Eff(r.fx) = S \cup S4 /\ Lists(r.fx, Eff(r.fx)) BY <1>13, <1>19 DEF Lists
<1>21. r.m.state = target /\ SameSide(m, r.m) /\ SameOwner(m, r)
  BY <1>7, <1>9, <1>10, <1>19 DEF SameCore, SameSide, SameOwner
<1> HIDE DEF r
<1> QED BY <1>6, <1>12, <1>17, <1>18, <1>19, <1>20, <1>21 DEF r, set

\* Where a call ends, and why.
Reason(m, ev, target, merged, S) ==
  /\ target = "ended_rejected"
       => m.rejectedForCap /\ m.state \in {"dialing", "ringing", "voicemail_greeting"}
  /\ target = "ended_answered" => \/ m.state = "answered"
                                  \/ ev.type = "inbound-hangup" /\ ev.tag = "bri"
                                  \/ ev.type = "outbound-hangup" /\ m.answered
  /\ merged = "answered"
       => \/ m.state = "answered"
          \/ ev.type \in {"inbound-hangup", "outbound-hangup"} /\ ev.merged = "answered"
  /\ GoneSaid(ev) \/ ev.type = "alarm-janitor" \/ HangupCustomer \in S

\* A handler that ends in terminalize, with bland effects before or after it.
LEMMA EndsPlain ==
  ASSUME NEW m, NEW n, MachineOK(n), SameCore(m, n), ~isTerminal(m.state), NEW ev,
         NEW target \in TerminalStates \ {"ended_voicemail"}, NEW merged, NEW reason,
         NEW S, \A e \in S : Bland(e), Reason(m, ev, target, merged, S),
         NEW r, r.m = terminalize(n, target, merged, reason, NoColumns).m, SettledBefore(r.fx),
         Eff(r.fx) = S \cup Eff(terminalize(n, target, merged, reason, NoColumns).fx)
  PROVE  Ends(m, ev, r)
<1> DEFINE t   == terminalize(n, target, merged, reason, NoColumns)
           set == Written([state |-> target], NoColumns)
<1>1. /\ t.m.state = target /\ SameSide(n, t.m) /\ SameOwner(n, t)
      /\ Mirror(set) \in Eff(t.fx) /\ TerminalMerge(merged) \in Eff(t.fx)
      /\ \A e \in Eff(t.fx) :
            Bland(e) \/ e = Mirror(set) \/ e = TerminalMerge(merged) \/ e = Arm("purge")
  BY terminalizeEffects
<1>2. Says(set, t.m) /\ DOMAIN set = {"state"}
  <2> DEFINE st == [state |-> target]
             c  == NoColumns
  <2>1. Says(st, t.m) /\ DOMAIN st = {"state"} BY <1>1, ColumnsSay
  <2>2. Says(c, t.m) /\ DOMAIN c = {} BY ColumnsSay
  <2> HIDE DEF t, st, c
  <2>3. Says(Written(st, c), t.m) /\ DOMAIN Written(st, c) = DOMAIN st \cup DOMAIN c
    BY <2>1, <2>2, WrittenSays
  <2>4. DOMAIN Written(st, c) = {"state"} BY <2>1, <2>2, <2>3
  <2> QED BY <2>3, <2>4 DEF st, c
<1> HIDE DEF t, set
<1>3. SameSide(m, r.m) /\ SameOwner(m, r) /\ r.m.state = target
  BY <1>1 DEF SameCore, SameSide, SameOwner, t
<1>4. EndEffects(m, ev, r, set, merged) BY <1>1, <1>2, <1>3 DEF EndEffects, Reason, t
<1> QED BY <1>3, <1>4 DEF Ends, Reason

\* Three shapes of it: terminalize alone,
LEMMA EndsAlone ==
  ASSUME NEW m, NEW n, MachineOK(n), SameCore(m, n), ~isTerminal(m.state), NEW ev,
         NEW target \in TerminalStates \ {"ended_voicemail"}, NEW merged, NEW reason,
         Reason(m, ev, target, merged, {})
  PROVE  Ends(m, ev, terminalize(n, target, merged, reason, NoColumns))
<1> DEFINE t == terminalize(n, target, merged, reason, NoColumns)
<1>1. SettledBefore(t.fx) BY terminalizeEffects
<1> HIDE DEF t
<1>2. Eff(t.fx) = {} \cup Eff(t.fx) OBVIOUS
<1> QED BY <1>1, <1>2, EndsPlain DEF t

\* with the hangup of the customer's leg after it,
LEMMA EndsHangingUp ==
  ASSUME NEW m, NEW n, MachineOK(n), SameCore(m, n), ~isTerminal(m.state), NEW ev,
         NEW target \in TerminalStates \ {"ended_voicemail"}, NEW merged, NEW reason,
         Reason(m, ev, target, merged, {HangupCustomer})
  PROVE  LET t == terminalize(n, target, merged, reason, NoColumns)
         IN  Ends(m, ev, Result(t.m, t.fx \o <<HangupCustomer>>))
<1> DEFINE t == terminalize(n, target, merged, reason, NoColumns)
           r == Result(t.m, t.fx \o <<HangupCustomer>>)
<1>1. /\ SettledBefore(t.fx) /\ Lists(t.fx, Eff(t.fx)) /\ TerminalMerge(merged) \in Eff(t.fx)
  BY terminalizeEffects
<1> HIDE DEF t
<1>2. Lists(<<HangupCustomer>>, {HangupCustomer}) BY Lists1
<1>3. Lists(t.fx \o <<HangupCustomer>>, Eff(t.fx) \cup {HangupCustomer}) BY <1>1, <1>2, ListsConcat
<1>4. Settles(Eff(t.fx)) BY <1>1, KindsOf DEF Settles, SettleKinds
<1>5. SettledBefore(t.fx \o <<HangupCustomer>>) BY <1>1, <1>2, <1>4, SettledConcat
<1>6. r.m = t.m /\ r.fx = t.fx \o <<HangupCustomer>> BY DEF Result
<1>7. Eff(r.fx) = {HangupCustomer} \cup Eff(t.fx) BY <1>3, <1>6 DEF Lists
<1> HIDE DEF r
<1>8. \A e \in {HangupCustomer} : Bland(e) BY BlandIs
<1>9. Ends(m, ev, r) BY <1>5, <1>6, <1>7, <1>8, EndsPlain DEF t
<1> QED BY <1>9 DEF r, t

\* and with the hangup of legs before it.
LEMMA EndsAfterHangups ==
  ASSUME NEW m, NEW n, MachineOK(n), SameCore(m, n), ~isTerminal(m.state), NEW ev,
         NEW target \in TerminalStates \ {"ended_voicemail"}, NEW merged, NEW reason,
         Reason(m, ev, target, merged, {}),
         NEW pre, NEW S, Lists(pre, S), \A e \in S : Bland(e)
  PROVE  LET t == terminalize(n, target, merged, reason, NoColumns)
         IN  Ends(m, ev, Result(t.m, pre \o t.fx))
<1> DEFINE t == terminalize(n, target, merged, reason, NoColumns)
           r == Result(t.m, pre \o t.fx)
<1>1. SettledBefore(t.fx) /\ Lists(t.fx, Eff(t.fx)) BY terminalizeEffects
<1> HIDE DEF t
<1>2. Lists(pre \o t.fx, S \cup Eff(t.fx)) BY <1>1, ListsConcat
<1>3. Arm("purge") \notin S BY KindsOf DEF Bland
<1>4. SettledBefore(pre) BY <1>3, SettledNoPurge DEF Lists
<1>5. SettledBefore(pre \o t.fx) BY <1>1, <1>4, SettledConcat
<1>6. r.m = t.m /\ r.fx = pre \o t.fx BY DEF Result
<1>7. Eff(r.fx) = S \cup Eff(t.fx) BY <1>2, <1>6 DEF Lists
<1> HIDE DEF r
<1>8. Reason(m, ev, target, merged, S) BY DEF Reason
<1>9. Ends(m, ev, r) BY <1>5, <1>6, <1>7, <1>8, EndsPlain DEF t
<1> QED BY <1>9 DEF r, t

(***************************************************************************)
(* The handlers, one by one.                                               *)
(***************************************************************************)
LEMMA reduceMemberAnsweredKinds ==
  ASSUME NEW m, MachineOK(m), NEW ev, ev.leg \in LegId
  PROVE  Quiet(m, reduceMemberAnswered(m, ev)) \/ Intends(m, ev, reduceMemberAnswered(m, ev))
<1> DEFINE at      == Located(m, ev, m.state = "ringing")
           leg     == at.leg
           revived == leg # NoLeg /\ m.legs[leg].ccid = NoLeg /\ m.legs[leg].status = "ambiguous"
           n       == SetStatus(at.m, IF revived THEN {leg} ELSE {}, "ringing")
<1>1. MachineOK(at.m) BY LocatedIs
<1>2. SameCore(m, at.m) BY CoreKept
<1> HIDE DEF at
<1>3. SameCore(at.m, n) BY <1>1, CoreKept
<1>4. MachineOK(n) BY <1>1, SetStatusOK DEF LegStatus
<1>5. SameCore(m, n) BY <1>2, <1>3 DEF SameCore, SameSide
<1>6. SameCore(m, m) BY CoreKept
<1> HIDE DEF n
<1>7. Quiet(m, HangupStray(m, ev.leg)) /\ Quiet(m, HangupStray(n, ev.leg))
  BY <1>5, <1>6, BlandHangups, QuietSome DEF HangupStray
<1>8. Quiet(m, NoEffect(n)) BY <1>5, QuietNone
<1>9. Quiet(m, Result(n, <<Probe(ev.leg, ev.user)>>)) BY <1>5, BlandIs, QuietOne
<1>10. m.state = "ringing" => Intends(m, ev, AnswerFor(n, ev.leg, ev.user))
  BY <1>4, <1>5, AnswerForIntends
<1>11. n.state = m.state BY <1>5 DEF SameCore
<1> QED BY <1>7, <1>8, <1>9, <1>10, <1>11 DEF reduceMemberAnswered, n, at

\* answerLost: the call ends, for the leg that was to be answered is gone.
LEMMA answerLostKinds ==
  ASSUME NEW m, MachineOK(m), m.state = "ringing", NEW ev, ev.type = "answer-outcome", ~ev.ok
  PROVE  Ends(m, ev, answerLost(m, ev))
<1> DEFINE leg  == FindLeg(m, ev.leg)
           cut  == IF leg # NoLeg /\ m.legs[leg].status # "dead" THEN {leg} ELSE {}
           n    == SetStatus(m, cut, "canceling")
           fx   == When(cut # {}, Hangups({ev.leg}))
<1>1. MachineOK(n) /\ SameCore(m, n) BY SetStatusOK, CoreKept DEF LegStatus
<1>2. PICK S : Lists(fx, S) /\ \A e \in S : Bland(e)
  BY BlandHangups, Lists0 DEF When
<1>3. MissedState(m) \in TerminalStates \ {"ended_voicemail"} BY DEF MissedState, TerminalStates
<1>4. Reason(m, ev, MissedState(m), "missed", {}) BY DEF Reason, GoneSaid, MissedState
<1>5. ~isTerminal(m.state) BY DEF isTerminal, TerminalStates
<1> HIDE DEF n, fx
<1> QED BY <1>1, <1>2, <1>3, <1>4, <1>5, EndsAfterHangups DEF answerLost, n, fx

\* answerWon: the member has the call.
LEMMA answerWonKinds ==
  ASSUME NEW m, MachineOK(m), m.state = "ringing", NEW ev
  PROVE  Answers(m, ev, answerWon(m, ev))
<1> DEFINE losers == {i \in LegsWith(m, {"dialing", "ringing"}) : m.legs[i].ccid # ev.leg}
           winner == {FindLeg(m, ev.leg)} \ {NoLeg}
           mid    == SetStatus(m, losers, "canceling")
           n      == SetStatus(mid, winner, "answered")
           new    == [n EXCEPT !.state = "answered", !.owner = ev.user, !.answered = TRUE,
                               !.answerIntent = NoUser]
           set    == [state |-> "answered", answered_by_user_id |-> ev.user, answered_at |-> TRUE]
           fx1    == << Mirror(set), Bridge(ev.leg) >>
           fx2    == Hangups(CcidsOf(m, losers))
           fx3    == << Clear("ring"), Clear("fanout-settle"), PushCallEnd("answered") >>
<1>1. MachineOK(mid) /\ SameCore(m, mid) BY SetStatusOK, CoreKept DEF LegStatus
<1> HIDE DEF mid
<1>2. MachineOK(n) /\ SameCore(mid, n) BY <1>1, SetStatusOK, CoreKept DEF LegStatus
<1> HIDE DEF n
<1>3. /\ new.state = "answered" /\ new.owner = ev.user /\ new.answered /\ new.answerIntent = NoUser
      /\ new.direction = m.direction /\ new.rejectedForCap = m.rejectedForCap
      /\ new.noticeSpoken = m.noticeSpoken
  BY <1>1, <1>2 DEF SameCore, SameSide, MachineOK, SessionMachine
<1>4. Lists(fx1, {Mirror(set), Bridge(ev.leg)}) BY Lists2
<1>5. PICK S2 : Lists(fx2, S2) /\ \A e \in S2 : Bland(e) BY BlandHangups
<1>6. Lists(fx3, {Clear("ring"), Clear("fanout-settle"), PushCallEnd("answered")}) BY Lists3
<1> DEFINE S == ({Mirror(set), Bridge(ev.leg)} \cup S2)
                  \cup {Clear("ring"), Clear("fanout-settle"), PushCallEnd("answered")}
<1>7. answerWon(m, ev).m = new /\ answerWon(m, ev).fx = (fx1 \o fx2) \o fx3
  BY DEF answerWon, Result, n, mid
<1> HIDE DEF fx1, fx2, fx3, new
<1>8. Lists((fx1 \o fx2) \o fx3, S) BY <1>4, <1>5, <1>6, ListsConcat
<1>9. Writes(S, set) BY <1>5, BlandIs DEF Writes
<1> HIDE DEF S, set
<1> QED BY <1>3, <1>7, <1>8, <1>9 DEF Answers, Lists, set

\* What the answer of the customer's leg said.
LEMMA reduceAnswerOutcomeKinds ==
  ASSUME NEW m, MachineOK(m), NEW ev, ev.type = "answer-outcome"
  PROVE  LET r == reduceAnswerOutcome(m, ev)
         IN  Quiet(m, r) \/ Answers(m, ev, r) \/ Ends(m, ev, r)
<1>1. Quiet(m, NoEffect(m)) BY CoreKept, QuietNone
<1> QED BY <1>1, answerWonKinds, answerLostKinds DEF reduceAnswerOutcome

\* A probe of the leg that answered.
LEMMA reduceProbeOutcomeKinds ==
  ASSUME NEW m, MachineOK(m), NEW ev, ev.leg \in LegId
  PROVE  LET r == reduceProbeOutcome(m, ev)
         IN  Quiet(m, r) \/ Intends(m, ev, r) \/ Diverts(m, r)
<1> DEFINE dead == SetStatus(m, {FindLeg(m, ev.leg)}, "dead")
<1>1. MachineOK(dead) /\ SameCore(m, dead) BY SetStatusOK, CoreKept DEF LegStatus
<1> HIDE DEF dead
<1>2. Quiet(m, NoEffect(m)) BY CoreKept, QuietNone
<1>3. Quiet(m, runAvenueLadder(dead)) \/ Diverts(m, runAvenueLadder(dead)) BY <1>1, LadderAlone
<1>4. m.state = "ringing" => Intends(m, ev, AnswerFor(m, ev.leg, ev.user))
  <2>1. SameCore(m, m) BY CoreKept
  <2> QED BY <2>1, AnswerForIntends
<1> QED BY <1>2, <1>3, <1>4 DEF reduceProbeOutcome, dead

\* A member's leg hung up.
LEMMA reduceMemberHangupKinds ==
  ASSUME NEW m, MachineOK(m), NEW ev, ev.leg \in LegId
  PROVE  LET r == reduceMemberHangup(m, ev) IN Quiet(m, r) \/ Diverts(m, r)
<1> DEFINE at   == Located(m, ev, m.state = "ringing")
           dead == SetStatus(at.m, {at.leg}, "dead")
<1>1. MachineOK(at.m) /\ SameCore(m, at.m) BY LocatedIs, CoreKept
<1> HIDE DEF at
<1>2. MachineOK(dead) /\ SameCore(at.m, dead) BY <1>1, SetStatusOK, CoreKept DEF LegStatus
<1>3. SameCore(m, dead) BY <1>1, <1>2 DEF SameCore, SameSide
<1> HIDE DEF dead
<1>4. Quiet(m, NoEffect(m)) /\ Quiet(m, NoEffect(dead)) BY <1>3, CoreKept, QuietNone
<1>5. Quiet(m, runAvenueLadder(dead)) \/ Diverts(m, runAvenueLadder(dead))
  BY <1>2, <1>3, LadderAlone
<1>6. Quiet(m, NoEffect([dead EXCEPT !.ownerLegDead = ev.user]))
  <2>1. SameCore(dead, [dead EXCEPT !.ownerLegDead = ev.user]) BY <1>2, CoreKept
  <2>2. SameCore(m, [dead EXCEPT !.ownerLegDead = ev.user])
    BY <1>3, <2>1 DEF SameCore, SameSide
  <2> QED BY <2>2, QuietNone
<1>7. Quiet(m, ownerDeathTeardown(dead)) BY <1>2, <1>3, TeardownQuiet
<1> QED BY <1>4, <1>5, <1>6, <1>7 DEF reduceMemberHangup, dead, at

\* The bridged hangup takes the member whose answer was on its way.
LEMMA briHangupKinds ==
  ASSUME NEW m, MachineOK(m), ~isTerminal(m.state), NEW ev, ev.type = "inbound-hangup", ev.tag = "bri"
  PROVE  Ends(m, ev, briHangup(m, ev))
<1> DEFINE by  == IF m.owner = NoUser /\ m.answerIntent # NoUser THEN StampFromIntent(m) ELSE m
           oc  == OwnerColumns(by)
           st  == [state |-> "ended_answered"]
           set == Written(st, oc)
           r   == terminalize(by, "ended_answered", ev.merged, "answered", oc)
<1>1. MachineOK(by) BY StampFromIntentIs
<1>2. /\ SameSide(m, by)
      /\ \/ by.owner = m.owner /\ by.answered = m.answered
         \/ m.owner = NoUser /\ m.answerIntent # NoUser /\ by.owner = m.answerIntent /\ by.answered
  BY DEF StampFromIntent, MachineOK, SessionMachine, SameSide
<1>3. briHangup(m, ev) = r BY DEF briHangup
<1> HIDE DEF by
<1>4. /\ r.m.state = "ended_answered" /\ SameSide(by, r.m) /\ SameOwner(by, r)
      /\ Mirror(set) \in Eff(r.fx) /\ TerminalMerge(ev.merged) \in Eff(r.fx)
      /\ \A e \in Eff(r.fx) :
            Bland(e) \/ e = Mirror(set) \/ e = TerminalMerge(ev.merged) \/ e = Arm("purge")
      /\ SettledBefore(r.fx)
  BY <1>1, terminalizeEffects DEF TerminalStates
<1>5. oc = OwnerColumns(r.m) BY <1>4 DEF SameOwner, OwnerColumns
<1>6. /\ Says(st, r.m) /\ DOMAIN st = {"state"} /\ Says(oc, r.m)
      /\ r.m.owner = NoUser => DOMAIN oc = {}
      /\ r.m.owner # NoUser => DOMAIN oc = {"answered_by_user_id", "answered_at"}
  BY <1>4, <1>5, ColumnsSay
<1> HIDE DEF r, st, oc
<1>7. Says(set, r.m) /\ DOMAIN set = DOMAIN st \cup DOMAIN oc BY <1>6, WrittenSays
<1> HIDE DEF set
<1>8. SameSide(m, r.m) /\ (SameOwner(m, r) \/ TakesOwner(m, r))
  BY <1>2, <1>4 DEF SameSide, SameOwner, TakesOwner
<1>9. ~SameOwner(m, r) => r.m.owner # NoUser BY <1>8 DEF TakesOwner
<1>10. EndEffects(m, ev, r, set, ev.merged) BY <1>4, <1>6, <1>7, <1>9 DEF EndEffects
<1>11. Ends(m, ev, r) BY <1>4, <1>8, <1>10 DEF Ends, GoneSaid, TerminalStates
<1> QED BY <1>3, <1>11

\* A bridged hangup that comes after the call was believed missed.
LEMMA briUpgradeKinds ==
  ASSUME NEW m, MachineOK(m), m.state = "ended_missed", NEW ev, ev.type = "inbound-hangup",
         ev.tag = "bri"
  PROVE  Upgrades(m, ev, briUpgrade(m, ev))
<1> DEFINE by  == IF m.answerIntent # NoUser THEN StampFromIntent(m) ELSE m
           up  == [by EXCEPT !.state = "ended_answered"]
           oc  == OwnerColumns(up)
           st  == [state |-> "ended_answered"]
           set == Written(st, oc)
           S   == {Mirror(set), TerminalMerge(ev.merged)}
           r   == briUpgrade(m, ev)
<1>1. /\ up.state = "ended_answered" /\ SameSide(m, up)
      /\ \/ up.owner = m.owner /\ up.answered = m.answered
         \/ m.answerIntent # NoUser /\ up.owner = m.answerIntent /\ up.answered
  BY DEF StampFromIntent, MachineOK, SessionMachine, SameSide
<1>2. r.m = up /\ r.fx = <<Mirror(set), TerminalMerge(ev.merged)>> BY DEF briUpgrade, Result
<1>3. Eff(r.fx) = S BY <1>2, Lists2 DEF Lists
<1> HIDE DEF up, r
<1>4. /\ Says(st, up) /\ DOMAIN st = {"state"} /\ Says(oc, up)
      /\ up.owner = NoUser => DOMAIN oc = {}
      /\ up.owner # NoUser => DOMAIN oc = {"answered_by_user_id", "answered_at"}
  BY <1>1, ColumnsSay
<1> HIDE DEF st, oc
<1>5. Says(set, up) /\ DOMAIN set = DOMAIN st \cup DOMAIN oc BY <1>4, WrittenSays
<1> HIDE DEF set
<1>6. ~SameOwner(m, r) => up.owner # NoUser BY <1>1, <1>2 DEF SameOwner
<1>7. EndEffects(m, ev, r, set, ev.merged)
  BY <1>2, <1>3, <1>4, <1>5, <1>6 DEF EndEffects
<1>8. Arm("purge") \notin Eff(r.fx) BY <1>3, KindsOf
<1>9. \E c, o : EndEffects(m, ev, r, c, o) /\ Arm("purge") \notin Eff(r.fx) BY <1>7, <1>8
<1>10. Upgrades(m, ev, r) BY <1>1, <1>2, <1>9 DEF Upgrades, SameOwner
<1> QED BY <1>10 DEF r

\* The customer's leg hung up.
LEMMA reduceInboundHangupKinds ==
  ASSUME NEW m, MachineOK(m), ~isNone(m), NEW ev, ev.type = "inbound-hangup",
         ev.tag \in {"untagged", "bri", "vmi"}
  PROVE  LET r == reduceInboundHangup(m, ev)
         IN  Quiet(m, r) \/ Ends(m, ev, r) \/ Upgrades(m, ev, r)
<1>1. SameCore(m, m) BY CoreKept
<1>2. CASE isTerminal(m.state)
  BY <1>1, <1>2, QuietNone, briUpgradeKinds DEF reduceInboundHangup
<1>3. CASE ~isTerminal(m.state) /\ ev.tag = "bri"
  BY <1>3, briHangupKinds DEF reduceInboundHangup
<1>4. CASE ~isTerminal(m.state) /\ ev.tag # "bri"
  <2>1. {"ended_missed", "ended_answered", MissedState(m)} \subseteq TerminalStates \ {"ended_voicemail"}
    BY DEF MissedState, TerminalStates
  <2>2. Reason(m, ev, "ended_missed", ev.merged, {}) BY DEF Reason, GoneSaid
  <2>3. m.state = "answered" => Reason(m, ev, "ended_answered", ev.merged, {})
    BY DEF Reason, GoneSaid
  <2>4. m.state \notin {"answered", "voicemail_greeting", "voicemail_recording"}
          => Reason(m, ev, MissedState(m), ev.merged, {})
    BY <1>4 DEF Reason, GoneSaid, MissedState, isTerminal, MachineOK, SessionMachine, CallStates, isNone
  <2>5. Ends(m, ev, terminalize(m, "ended_missed", ev.merged, "missed", NoColumns))
    BY <1>1, <1>4, <2>1, <2>2, EndsAlone
  <2>6. Ends(m, ev, terminalize(m, "ended_missed", ev.merged, "null", NoColumns))
    BY <1>1, <1>4, <2>1, <2>2, EndsAlone
  <2>7. m.state = "answered"
          => Ends(m, ev, terminalize(m, "ended_answered", ev.merged, "null", NoColumns))
    BY <1>1, <1>4, <2>1, <2>3, EndsAlone
  <2>8. m.state \notin {"answered", "voicemail_greeting", "voicemail_recording"}
          => Ends(m, ev, terminalize(m, MissedState(m), ev.merged, "missed", NoColumns))
    BY <1>1, <1>4, <2>1, <2>4, EndsAlone
  <2> QED BY <1>4, <2>5, <2>6, <2>7, <2>8 DEF reduceInboundHangup
<1> QED BY <1>2, <1>3, <1>4

\* The customer's leg was found gone by a command.
LEMMA reduceInboundLegGoneKinds ==
  ASSUME NEW m, MachineOK(m), NEW ev, ev.type = "inbound-leg-gone"
  PROVE  LET r == reduceInboundLegGone(m) IN Quiet(m, r) \/ Ends(m, ev, r)
<1>1. SameCore(m, m) BY CoreKept
<1>2. m.state = "answered" => Reason(m, ev, "ended_answered", "answered", {})
  BY DEF Reason, GoneSaid
<1>3. m.state = "answered" => ~isTerminal(m.state) BY DEF isTerminal, TerminalStates
<1>4. "ended_answered" \in TerminalStates \ {"ended_voicemail"} BY DEF TerminalStates
<1>5. m.state = "answered"
        => Ends(m, ev, terminalize(m, "ended_answered", "answered", "null", NoColumns))
  BY <1>1, <1>2, <1>3, <1>4, EndsAlone
<1> QED BY <1>1, <1>5, QuietNone DEF reduceInboundLegGone

\* What was spoken has ended.
LEMMA reduceSpeakEndedKinds ==
  ASSUME NEW m, MachineOK(m), NEW ev, ev.type = "speak-ended"
  PROVE  LET r == reduceSpeakEnded(m) IN Quiet(m, r) \/ Records(m, ev, r)
<1>1. Quiet(m, NoEffect(m)) BY CoreKept, QuietNone
<1>2. Quiet(m, Result(m, <<HangupCustomer>>)) BY CoreKept, BlandIs, QuietOne
<1> DEFINE set == [state |-> "voicemail_recording"]
           n   == [m EXCEPT !.state = "voicemail_recording"]
           r   == Result(n, <<Mirror(set), RecordStart>>)
<1>3. n.state = "voicemail_recording" /\ SameSide(m, n) /\ n.owner = m.owner /\ n.answered = m.answered
  BY DEF MachineOK, SessionMachine, SameSide
<1>4. Eff(r.fx) = {Mirror(set), RecordStart} BY Lists2 DEF Lists, Result
<1>5. r.m = n BY DEF Result
<1> HIDE DEF r, n
<1>6. m.state = "voicemail_greeting" => Records(m, ev, r)
  BY <1>3, <1>4, <1>5 DEF Records
<1> QED BY <1>1, <1>2, <1>6 DEF reduceSpeakEnded, r, n

\* The recording is there.
LEMMA reduceRecordingSavedKinds ==
  ASSUME NEW m, MachineOK(m), NEW ev, ev.type = "recording-saved"
  PROVE  LET r == reduceRecordingSaved(m) IN Quiet(m, r) \/ Saves(m, ev, r)
<1>1. Quiet(m, NoEffect(m)) BY CoreKept, QuietNone
<1> DEFINE set == [state |-> "ended_voicemail"]
           n   == [m EXCEPT !.state = "ended_voicemail"]
           fx1 == <<VoicemailPipeline, Mirror(set)>>
           fx2 == When(m.state = "voicemail_recording", <<Arm("purge")>>)
           S   == {VoicemailPipeline, Mirror(set)}
           T   == IF m.state = "voicemail_recording" THEN {Arm("purge")} ELSE {}
           r   == Result(n, fx1 \o fx2)
<1>2. n.state = "ended_voicemail" /\ SameSide(m, n) /\ n.owner = m.owner /\ n.answered = m.answered
  BY DEF MachineOK, SessionMachine, SameSide
<1>3. Lists(fx1, S) /\ Lists(fx2, T) BY Lists1, Lists2, ListsWhen
<1>4. r.m = n /\ r.fx = fx1 \o fx2 BY DEF Result
<1>5. Arm("purge") \notin S /\ Settles(S) BY KindsOf DEF Settles, SettleKinds
<1>6. \A e \in S \cup T : e = Mirror(set) \/ e = VoicemailPipeline \/ e = Arm("purge") OBVIOUS
<1>7. Mirror(set) \in S /\ VoicemailPipeline \in S OBVIOUS
<1> HIDE DEF fx1, fx2, S, T, r, n
<1>8. SettledBefore(fx1) BY <1>3, <1>5, SettledNoPurge DEF Lists
<1>9. SettledBefore(r.fx) BY <1>3, <1>4, <1>5, <1>8, SettledConcat
<1>13. Lists(fx1 \o fx2, S \cup T) BY <1>3, ListsConcat
<1>10. Eff(r.fx) = S \cup T BY <1>4, <1>13 DEF Lists
<1>11. m.state \in {"voicemail_recording", "ended_missed"} => Saves(m, ev, r)
  BY <1>2, <1>4, <1>6, <1>7, <1>9, <1>10 DEF Saves
<1> QED BY <1>1, <1>11 DEF reduceRecordingSaved, r, n, fx1, fx2

\* What the answer of a suspended line's call said.
LEMMA reduceNoticeAnswerOutcomeKinds ==
  ASSUME NEW m, MachineOK(m), NEW ev, ev.ok \in BOOLEAN
  PROVE  LET r == reduceNoticeAnswerOutcome(m, ev) IN Quiet(m, r) \/ NoticeFails(m, r)
<1>1. Quiet(m, NoEffect(m)) BY CoreKept, QuietNone
<1>2. Quiet(m, Result(m, <<Speak("unavailable-notice")>>)) BY CoreKept, BlandIs, QuietOne
<1> DEFINE set == [notice_spoken |-> FALSE]
           n   == [m EXCEPT !.noticeSpoken = FALSE]
           r   == Result(n, <<Mirror(set)>>)
<1>3. /\ ~n.noticeSpoken /\ n.state = m.state /\ n.direction = m.direction
      /\ n.rejectedForCap = m.rejectedForCap /\ n.owner = m.owner /\ n.answered = m.answered
      /\ n.answerIntent = m.answerIntent
  BY DEF MachineOK, SessionMachine
<1>4. Eff(r.fx) = {Mirror(set)} /\ r.m = n BY Lists1 DEF Lists, Result
<1>5. Writes(Eff(r.fx), set) BY <1>4 DEF Writes
<1> HIDE DEF r, n
<1>6. m.noticeSpoken => NoticeFails(m, r) BY <1>3, <1>4, <1>5 DEF NoticeFails
<1> QED BY <1>1, <1>2, <1>6 DEF reduceNoticeAnswerOutcome, r, n

\* What the answer of a call sent to voicemail said.
LEMMA reduceVmAnswerOutcomeKinds ==
  ASSUME NEW m, MachineOK(m), NEW ev, ev.type = "vm-answer-outcome", ev.ok \in BOOLEAN
  PROVE  LET r == reduceVmAnswerOutcome(m, ev) IN Quiet(m, r) \/ Ends(m, ev, r)
<1> DEFINE cut == cancelAllLiveLegs(m)
           sp  == <<Speak("voicemail-greeting")>>
<1>1. Quiet(m, NoEffect(m)) /\ SameCore(m, m) BY CoreKept, QuietNone
<1>2. Quiet(m, Result(cut.m, sp \o cut.fx))
  <2>1. SameCore(m, cut.m) BY CoreKept DEF cancelAllLiveLegs, Result
  <2>2. PICK S : Lists(cut.fx, S) /\ \A e \in S : Bland(e)
    BY BlandHangups DEF cancelAllLiveLegs, Result
  <2> DEFINE T == {Speak("voicemail-greeting")} \cup S
  <2>3. Lists(sp, {Speak("voicemail-greeting")}) BY Lists1
  <2> HIDE DEF cut, sp
  <2>4. Lists(sp \o cut.fx, T) BY <2>2, <2>3, ListsConcat
  <2>5. \A e \in T : Bland(e) BY <2>2, BlandIs
  <2> HIDE DEF T
  <2> QED BY <2>1, <2>4, <2>5, QuietSome
<1>3. ASSUME m.state = "voicemail_greeting", ~ev.ok
      PROVE  Ends(m, ev, terminalize(m, MissedState(m), "missed", "null", NoColumns))
  <2>1. MissedState(m) \in TerminalStates \ {"ended_voicemail"} BY DEF MissedState, TerminalStates
  <2>2. Reason(m, ev, MissedState(m), "missed", {}) BY <1>3 DEF Reason, GoneSaid, MissedState
  <2>3. ~isTerminal(m.state) BY <1>3 DEF isTerminal, TerminalStates
  <2> QED BY <1>1, <2>1, <2>2, <2>3, EndsAlone
<1> HIDE DEF cut
<1> QED BY <1>1, <1>2, <1>3 DEF reduceVmAnswerOutcome, cut

\* What a dial came back with.
LEMMA reduceDialOutcomeKinds ==
  ASSUME NEW m, MachineOK(m), ~isNone(m), NEW ev, ev.type = "dial-outcome", ev.leg \in LegId
  PROVE  LET r == reduceDialOutcome(m, ev) IN Quiet(m, r) \/ Diverts(m, r) \/ Ends(m, ev, r)
<1> DEFINE stamp   == Stamp(m, ev.leg, ev.leg)
           stamped == SetStatus(stamp, IF m.legs[ev.leg].status = "dialing" THEN {ev.leg} ELSE {},
                                "ringing")
           failed  == SetStatus(m, {ev.leg}, IF ev.outcome = "ambiguous" THEN "ambiguous" ELSE "dead")
           over    == terminalize(failed, "ended_missed", "missed", "null", NoColumns)
<1>1. MachineOK(stamp) /\ SameCore(m, stamp) BY StampOK, CoreKept
<1> HIDE DEF stamp
<1>2. SameCore(stamp, stamped) BY <1>1, CoreKept
<1> HIDE DEF stamped
<1>3. SameCore(m, stamped) BY <1>1, <1>2 DEF SameCore, SameSide
<1>4. MachineOK(failed) BY SetStatusOK DEF LegStatus
<1>5. SameCore(m, failed) BY CoreKept
<1> HIDE DEF failed
<1>6. Quiet(m, NoEffect(m)) /\ Quiet(m, NoEffect(stamped)) /\ Quiet(m, NoEffect(failed))
  BY <1>3, <1>5, CoreKept, QuietNone
<1>7. Quiet(m, runAvenueLadder(failed)) \/ Diverts(m, runAvenueLadder(failed))
  BY <1>4, <1>5, LadderAlone
<1>8. ASSUME ~isTerminal(m.state) PROVE Ends(m, ev, Result(over.m, over.fx \o <<HangupCustomer>>))
  <2>1. "ended_missed" \in TerminalStates \ {"ended_voicemail"} BY DEF TerminalStates
  <2>2. Reason(m, ev, "ended_missed", "missed", {HangupCustomer}) BY DEF Reason
  <2> QED BY <1>4, <1>5, <1>8, <2>1, <2>2, EndsHangingUp
<1> HIDE DEF over
<1> QED BY <1>6, <1>7, <1>8 DEF reduceDialOutcome, stamped, stamp, failed, over

\* The push fan-out is settled.
LEMMA reducePushFanoutSettledKinds ==
  ASSUME NEW m, MachineOK(m), NEW ev
  PROVE  LET r == reducePushFanoutSettled(m, ev) IN Quiet(m, r) \/ Diverts(m, r)
<1> DEFINE n   == [m EXCEPT !.push = @ \ ev.unreachable]
           pre == <<Clear("fanout-settle")>>
           S   == {Clear("fanout-settle")}
<1>1. MachineOK(n) /\ SameCore(m, n) BY DEF MachineOK, SessionMachine, SameCore, SameSide
<1>2. Lists(pre, S) /\ \A e \in S : Bland(e) BY BlandIs, Lists1
<1> HIDE DEF n, pre, S
<1>3. LET res == runAvenueLadder(n)
      IN  Quiet(m, Result(res.m, pre \o res.fx)) \/ Diverts(m, Result(res.m, pre \o res.fx))
  BY <1>1, <1>2, LadderKinds
<1> QED BY <1>3 DEF reducePushFanoutSettled, n, pre

\* One member is dialed, who has not declined.
LEMMA DialsOne ==
  ASSUME NEW m, MachineOK(m), m.state = "ringing", NEW n, MachineOK(n), SameCore(m, n),
         n.declined = m.declined, n.dialed = m.dialed, m.dialed < MaxLegs,
         NEW u, u \notin m.declined, NEW b,
         NEW post, NEW T, Lists(post, T), \A e \in T : Bland(e)
  PROVE  LET next == PushLeg(n, u, b)
             d    == m.dialed + 1
         IN  Dials(m, Result(next, <<Dial(d, d)>> \o post))
<1> DEFINE next == PushLeg(n, u, b)
           d    == m.dialed + 1
           fx   == <<Dial(d, d)>> \o post
           r    == Result(next, fx)
<1>1. SameCore(n, next) BY CoreKept
<1>2. SameCore(m, next) BY <1>1 DEF SameCore, SameSide
<1>3. d \in LegId BY MaxLegsAssumption DEF LegId, MachineOK, SessionMachine
<1>4. next.legs[d].user = u /\ next.declined = m.declined
  BY <1>3 DEF PushLeg, MachineOK, SessionMachine
<1>5. Lists(<<Dial(d, d)>>, {Dial(d, d)}) BY Lists1
<1>6. Lists(fx, {Dial(d, d)} \cup T) BY <1>5, ListsConcat
<1>7. r.m = next /\ r.fx = fx BY DEF Result
<1> HIDE DEF fx, next, r
<1>8. Eff(r.fx) = {Dial(d, d)} \cup T BY <1>6, <1>7 DEF Lists
<1>9. \A i \in d .. d : i = d BY <1>3 DEF LegId
<1>10. ASSUME NEW e \in Eff(r.fx)
       PROVE  Bland(e) \/ (e.kind = "telnyx-dial"
                             /\ \A i \in e.from .. e.to : r.m.legs[i].user \notin r.m.declined)
  <2>1. e = Dial(d, d) \/ Bland(e) BY <1>8, <1>10
  <2>2. Dial(d, d).kind = "telnyx-dial" /\ Dial(d, d).from = d /\ Dial(d, d).to = d BY KindsOf
  <2>3. \A i \in d .. d : r.m.legs[i].user \notin r.m.declined BY <1>4, <1>7, <1>9
  <2> HIDE DEF d
  <2> QED BY <2>1, <2>2, <2>3
<1>11. Dials(m, r) BY <1>2, <1>7, <1>10 DEF Dials
<1> QED BY <1>11 DEF r, fx, next

\* A member asks to be rung.
LEMMA reduceRingMeKinds ==
  ASSUME NEW m, MachineOK(m), NEW ev
  PROVE  LET r == reduceRingMe(m, ev) IN Quiet(m, r) \/ Dials(m, r)
<1> DEFINE d    == m.dialed + 1
           pre  == <<Dial(d, d)>>
           post == <<>>
           T    == {}
           next == PushLeg(m, ev.user, TRUE)
<1>1. Quiet(m, NoEffect(m)) /\ SameCore(m, m) BY CoreKept, QuietNone
<1>2. m.dialed \in 0 .. MaxLegs BY DEF MachineOK, SessionMachine
<1>3. pre \in Seq({Dial(d, d)}) OBVIOUS
<1>4. pre \o post = pre BY <1>3
<1>5. Lists(post, T) /\ \A e \in T : Bland(e) BY Lists0
<1> HIDE DEF post, T
<1>6. ASSUME m.state = "ringing", ev.user \notin m.declined, ~(m.dialed >= MaxLegs)
      PROVE  Dials(m, Result(next, pre))
  <2>1. m.dialed < MaxLegs BY <1>2, <1>6, MaxLegsAssumption
  <2>2. Dials(m, Result(next, pre \o post)) BY <1>1, <1>5, <1>6, <2>1, DialsOne
  <2> QED BY <1>4, <2>2
<1> QED BY <1>1, <1>6 DEF reduceRingMe

\* A member declines.
LEMMA reduceDeclineKinds ==
  ASSUME NEW m, MachineOK(m), NEW ev, ev.user \in User
  PROVE  LET r == reduceDecline(m, ev) IN Quiet(m, r) \/ Diverts(m, r)
<1> DEFINE mine == {i \in liveLegs(m) : m.legs[i].user = ev.user}
           dead == SetStatus(m, mine, "dead")
           n    == [dead EXCEPT !.declined = @ \cup {ev.user}, !.push = @ \ {ev.user},
                                !.queue = @ \ {ev.user}]
           pre  == Hangups(CcidsOf(m, mine))
<1>1. Quiet(m, NoEffect(m)) BY CoreKept, QuietNone
<1>2. MachineOK(dead) /\ SameCore(m, dead) BY SetStatusOK, CoreKept DEF LegStatus
<1> HIDE DEF dead
<1>3. MachineOK(n) /\ SameCore(dead, n) BY <1>2 DEF MachineOK, SessionMachine, SameCore, SameSide
<1>4. SameCore(m, n) BY <1>2, <1>3 DEF SameCore, SameSide
<1>5. PICK S : Lists(pre, S) /\ \A e \in S : Bland(e) BY BlandHangups
<1> HIDE DEF n, pre
<1>6. LET res == runAvenueLadder(n)
      IN  Quiet(m, Result(res.m, pre \o res.fx)) \/ Diverts(m, Result(res.m, pre \o res.fx))
  BY <1>3, <1>4, <1>5, LadderKinds
<1> QED BY <1>1, <1>6 DEF reduceDecline, n, pre, dead

\* An announce transfer names the owner.
LEMMA reduceSetOwnerKinds ==
  ASSUME NEW m, MachineOK(m), NEW ev, ev.type = "set-owner"
  PROVE  SetsOwner(m, ev, reduceSetOwner(m, ev))
<1> DEFINE n   == [m EXCEPT !.owner = ev.user, !.ownerLegDead = NoUser]
           set == [answered_by_user_id |-> ev.user]
           r   == reduceSetOwner(m, ev)
<1>1. /\ n.owner = ev.user /\ SameSide(m, n) /\ n.state = m.state /\ n.answered = m.answered
  BY DEF MachineOK, SessionMachine, SameSide
<1>2. r.m = n /\ Eff(r.fx) = {Mirror(set)} BY Lists1 DEF reduceSetOwner, Result, Lists
<1>3. Writes(Eff(r.fx), set) BY <1>2 DEF Writes
<1> HIDE DEF r, n
<1> QED BY <1>1, <1>2, <1>3 DEF SetsOwner, r

\* An intent to hand over the call is registered, or cleared.
LEMMA IntentKinds ==
  ASSUME NEW m, MachineOK(m)
  PROVE  Quiet(m, reduceRegisterIntent(m)) /\ Quiet(m, reduceClearIntent(m))
<1> DEFINE n   == [m EXCEPT !.intent = TRUE]
           cl  == [m EXCEPT !.intent = FALSE]
           cl2 == [cl EXCEPT !.ownerLegDead = NoUser]
           fx  == <<Clear("intent-expiry")>>
           hc  == <<HangupCustomer>>
           S   == {Clear("intent-expiry")} \cup {HangupCustomer}
<1>1. SameCore(m, n) /\ SameCore(m, cl2)
  BY DEF MachineOK, SessionMachine, SameCore, SameSide
<1>2. Lists(fx \o hc, S)
  <2>1. Lists(fx, {Clear("intent-expiry")}) /\ Lists(hc, {HangupCustomer}) BY Lists1
  <2> HIDE DEF fx, hc
  <2> QED BY <2>1, ListsConcat
<1>3. \A e \in S : Bland(e) BY BlandIs
<1>4. reduceRegisterIntent(m) = Result(n, <<Arm("intent-expiry")>>) BY DEF reduceRegisterIntent
<1>5. reduceClearIntent(m) \in {Result(cl2, fx \o hc), Result(cl2, fx)}
  BY DEF reduceClearIntent, ownerDeathTeardown, Result
<1> HIDE DEF n, cl2, S, hc
<1>6. Quiet(m, reduceRegisterIntent(m)) BY <1>1, <1>4, BlandIs, QuietOne
<1>7. Quiet(m, Result(cl2, fx)) BY <1>1, BlandIs, QuietOne
<1>8. Quiet(m, Result(cl2, fx \o hc)) BY <1>1, <1>2, <1>3, QuietSome
<1> QED BY <1>5, <1>6, <1>7, <1>8

\* The ring deadline passes.
LEMMA reduceAlarmRingKinds ==
  ASSUME NEW m, MachineOK(m)
  PROVE  Quiet(m, reduceAlarmRing(m)) \/ Diverts(m, reduceAlarmRing(m))
<1> DEFINE pre == <<>>
           S   == {}
<1>1. Quiet(m, NoEffect(m)) /\ SameCore(m, m) BY CoreKept, QuietNone
<1>2. Lists(pre, S) /\ \A e \in S : Bland(e) BY Lists0
<1> HIDE DEF pre, S
<1>3. m.state = "ringing" => Diverts(m, vmEntry(m)) BY <1>1, <1>2, vmEntryDiverts
<1> QED BY <1>1, <1>3 DEF reduceAlarmRing

\* The next member in turn is rung.
LEMMA reduceAlarmRingStepKinds ==
  ASSUME NEW m, MachineOK(m), NEW ev
  PROVE  LET r == reduceAlarmRingStep(m, ev) IN Quiet(m, r) \/ Diverts(m, r) \/ Dials(m, r)
<1> DEFINE waiting == m.queue \ m.declined
           user    == Foremost(m.order, waiting)
           popped  == [m EXCEPT !.queue = waiting \ {user}]
           next    == PushLeg(popped, user, FALSE)
           none    == [m EXCEPT !.queue = {}]
           d       == m.dialed + 1
           step    == <<Arm("ring-step")>>
           post    == armRingStep(next, ev.fits)
           T       == IF next.queue # {} /\ ev.fits THEN {Arm("ring-step")} ELSE {}
<1>1. Quiet(m, NoEffect(m)) BY CoreKept, QuietNone
<1>2. MachineOK(none) /\ SameCore(m, none) BY DEF MachineOK, SessionMachine, SameCore, SameSide
<1> HIDE DEF none
<1>3. Quiet(m, runAvenueLadder(none)) \/ Diverts(m, runAvenueLadder(none)) BY <1>2, LadderAlone
<1>4. /\ MachineOK(popped) /\ SameCore(m, popped)
      /\ popped.declined = m.declined /\ popped.dialed = m.dialed
  BY DEF MachineOK, SessionMachine, SameCore, SameSide
<1>5. Quiet(m, NoEffect(popped)) BY <1>4, QuietNone
<1>6. m.dialed \in 0 .. MaxLegs BY DEF MachineOK, SessionMachine
<1>7. waiting # {} => user \notin m.declined BY ForemostIn
<1>8. Lists(post, T)
  <2>1. Lists(step, {Arm("ring-step")}) BY Lists1
  <2> HIDE DEF step
  <2> QED BY <2>1, ListsWhen DEF armRingStep, step
<1>9. \A e \in T : Bland(e) BY BlandIs
<1>10. next.dialed = d BY <1>4 DEF PushLeg, MachineOK, SessionMachine
<1>11. reduceAlarmRingStep(m, ev) \in
         {NoEffect(m), NoEffect(popped), runAvenueLadder(none), Result(next, <<Dial(d, d)>> \o post)}
  BY <1>10 DEF reduceAlarmRingStep, none
<1> HIDE DEF post, T, popped, user
<1>12. ASSUME m.state = "ringing", waiting # {}, ~(m.dialed >= MaxLegs)
       PROVE  Dials(m, Result(next, <<Dial(d, d)>> \o post))
  <2>1. m.dialed < MaxLegs BY <1>6, <1>12, MaxLegsAssumption
  <2> QED BY <1>4, <1>7, <1>8, <1>9, <1>12, <2>1, DialsOne
<1>13. \/ reduceAlarmRingStep(m, ev) \in {NoEffect(m), NoEffect(popped), runAvenueLadder(none)}
       \/ m.state = "ringing" /\ waiting # {} /\ ~(m.dialed >= MaxLegs)
  BY DEF reduceAlarmRingStep, none, popped, user
<1> HIDE DEF next, none, waiting
<1> QED BY <1>1, <1>3, <1>5, <1>11, <1>12, <1>13

\* The janitor comes by.
LEMMA reduceAlarmJanitorKinds ==
  ASSUME NEW m, MachineOK(m), NEW ev, ev.type = "alarm-janitor"
  PROVE  LET r == reduceAlarmJanitor(m) IN Quiet(m, r) \/ Ends(m, ev, r)
<1>1. Quiet(m, NoEffect(m)) /\ SameCore(m, m) BY CoreKept, QuietNone
<1>2. {"ended_missed", "ended_answered", MissedState(m)} \subseteq TerminalStates \ {"ended_voicemail"}
  BY DEF MissedState, TerminalStates
<1>3. /\ Reason(m, ev, "ended_missed", "missed", {})
      /\ m.state = "answered" => Reason(m, ev, "ended_answered", "answered", {})
      /\ m.state = "ringing" => Reason(m, ev, MissedState(m), "missed", {})
  BY DEF Reason, MissedState
<1>4. ~isTerminal(m.state)
        => Ends(m, ev, terminalize(m, "ended_missed", "missed", "null", NoColumns))
  BY <1>1, <1>2, <1>3, EndsAlone
<1>5. ~isTerminal(m.state) /\ m.state = "answered"
        => Ends(m, ev, terminalize(m, "ended_answered", "answered", "null", NoColumns))
  BY <1>1, <1>2, <1>3, EndsAlone
<1>6. ~isTerminal(m.state) /\ m.state = "ringing"
        => Ends(m, ev, terminalize(m, MissedState(m), "missed", "missed", NoColumns))
  BY <1>1, <1>2, <1>3, EndsAlone
<1>7. m.state \in {"ringing", "answered"} => ~isTerminal(m.state) BY DEF isTerminal, TerminalStates
<1> QED BY <1>1, <1>4, <1>5, <1>6, <1>7 DEF reduceAlarmJanitor

\* The far end of a placed call picked up.
LEMMA reduceOutboundAnsweredKinds ==
  ASSUME NEW m, MachineOK(m)
  PROVE  LET r == reduceOutboundAnswered(m) IN Quiet(m, r) \/ PicksUp(m, r)
<1> DEFINE set == [state |-> "answered", answered_at |-> TRUE]
           n   == [m EXCEPT !.state = "answered", !.answered = TRUE]
           b   == Bridge(m.legs[First(answeredPlacer(m))].ccid)
           c   == answeredPlacer(m) # {}
           fx1 == <<Mirror(set)>>
           fx2 == <<b>>
           T   == IF c THEN {b} ELSE {}
           r   == Result(n, fx1 \o When(c, fx2))
<1>1. Quiet(m, NoEffect(m)) BY CoreKept, QuietNone
<1>2. n.state = "answered" /\ SameSide(m, n) /\ n.owner = m.owner /\ n.answered
  BY DEF MachineOK, SessionMachine, SameSide
<1>3. Lists(fx1, {Mirror(set)}) /\ Lists(fx2, {b}) BY Lists1
<1>4. \A e \in T : Bland(e) BY BlandIs
<1>5. r.m = n /\ r.fx = fx1 \o When(c, fx2) BY DEF Result
<1> HIDE DEF fx1, fx2, b, c, r, n
<1>6. Lists(When(c, fx2), T) BY <1>3, ListsWhen
<1> HIDE DEF T, set
<1>7. Lists(fx1 \o When(c, fx2), {Mirror(set)} \cup T) BY <1>3, <1>6, ListsConcat
<1>8. Writes(Eff(r.fx), set) BY <1>4, <1>5, <1>7 DEF Lists, Writes
<1>9. m.direction = "outbound" /\ m.state = "dialing" => PicksUp(m, r)
  BY <1>2, <1>5, <1>8 DEF PicksUp, set
<1> QED BY <1>1, <1>9 DEF reduceOutboundAnswered, r, n, fx1, fx2, b, c, set

\* The placer's leg answered,
LEMMA reduceOutboundPlacerAnsweredKinds ==
  ASSUME NEW m, MachineOK(m), NEW ev, ev.leg \in LegId
  PROVE  Quiet(m, reduceOutboundPlacerAnswered(m, ev))
<1> DEFINE at == Located(m, ev, TRUE)
           n  == SetStatus(at.m, {at.leg}, "answered")
<1>1. MachineOK(at.m) /\ SameCore(m, at.m) /\ SameCore(m, m) BY LocatedIs, CoreKept
<1> HIDE DEF at
<1>2. SameCore(at.m, n) BY <1>1, CoreKept
<1> HIDE DEF n
<1>3. SameCore(m, n) BY <1>1, <1>2 DEF SameCore, SameSide
<1>4. Quiet(m, HangupStray(m, ev.leg)) BY <1>1, BlandHangups, QuietSome DEF HangupStray
<1>5. Quiet(m, NoEffect(at.m)) BY <1>1, QuietNone
<1>6. Quiet(m, Result(n, <<Bridge(ev.leg)>>)) BY <1>3, BlandIs, QuietOne
<1> QED BY <1>4, <1>5, <1>6 DEF reduceOutboundPlacerAnswered, at, n

\* or hung up.
LEMMA reduceOutboundPlacerHangupKinds ==
  ASSUME NEW m, MachineOK(m), NEW ev
  PROVE  LET r == reduceOutboundPlacerHangup(m, ev) IN Quiet(m, r) \/ Ends(m, ev, r)
<1> DEFINE n    == SetStatus(m, {FindLeg(m, ev.leg)} \ {NoLeg}, "dead")
           dead == [n EXCEPT !.ownerLegDead = ev.user]
           over == terminalize(n, "ended_missed", "missed", "null", NoColumns)
<1>1. MachineOK(n) /\ SameCore(m, n) BY SetStatusOK, CoreKept DEF LegStatus
<1> HIDE DEF n
<1>2. SameCore(n, dead) BY <1>1, CoreKept
<1> HIDE DEF dead
<1>3. SameCore(m, dead) BY <1>1, <1>2 DEF SameCore, SameSide
<1>4. Quiet(m, NoEffect(m)) /\ Quiet(m, NoEffect(n)) /\ Quiet(m, NoEffect(dead))
  BY <1>1, <1>3, CoreKept, QuietNone
<1>5. Quiet(m, ownerDeathTeardown(n)) BY <1>1, TeardownQuiet
<1>6. ASSUME ~isTerminal(m.state) PROVE Ends(m, ev, Result(over.m, over.fx \o <<HangupCustomer>>))
  <2>1. "ended_missed" \in TerminalStates \ {"ended_voicemail"} BY DEF TerminalStates
  <2>2. Reason(m, ev, "ended_missed", "missed", {HangupCustomer}) BY DEF Reason
  <2> QED BY <1>1, <1>6, <2>1, <2>2, EndsHangingUp
<1> HIDE DEF over
<1> QED BY <1>4, <1>5, <1>6 DEF reduceOutboundPlacerHangup, n, dead, over

\* The far end hung up.
LEMMA reduceOutboundHangupKinds ==
  ASSUME NEW m, MachineOK(m), NEW ev, ev.type = "outbound-hangup"
  PROVE  LET r == reduceOutboundHangup(m, ev) IN Quiet(m, r) \/ Ends(m, ev, r)
<1> DEFINE target == IF m.answered THEN "ended_answered" ELSE "ended_missed"
<1>1. Quiet(m, NoEffect(m)) /\ SameCore(m, m) BY CoreKept, QuietNone
<1>2. target \in TerminalStates \ {"ended_voicemail"} BY DEF TerminalStates
<1>3. Reason(m, ev, target, ev.merged, {}) BY DEF Reason, GoneSaid
<1> HIDE DEF target
<1>4. ~isTerminal(m.state) => Ends(m, ev, terminalize(m, target, ev.merged, "null", NoColumns))
  BY <1>1, <1>2, <1>3, EndsAlone
<1> QED BY <1>1, <1>4 DEF reduceOutboundHangup, target

(***************************************************************************)
(* ReduceKinds (the dispatcher, transitions.ts).  Whatever event meets a   *)
(* session, what happens is one of the dozen kinds.                        *)
(***************************************************************************)
LEMMA LegEventKinds ==
  ASSUME NEW m, MachineOK(m), ~isNone(m), NEW ev \in Event,
         ev.type \in {"member-leg-answered", "member-leg-hangup", "outbound-placer-answered",
                      "outbound-placer-hangup", "answer-outcome", "member-probe-outcome",
                      "dial-outcome"}
  PROVE  DialsNobody(m, ev, handle(m, ev))
<1>1. ev.leg \in LegId BY EventFields DEF LegTypes
<1>2. CASE ev.type = "member-leg-answered"
  BY <1>1, <1>2, reduceMemberAnsweredKinds DEF handle, DialsNobody
<1>3. CASE ev.type = "member-leg-hangup"
  BY <1>1, <1>3, reduceMemberHangupKinds DEF handle, DialsNobody
<1>4. CASE ev.type = "outbound-placer-answered"
  BY <1>1, <1>4, reduceOutboundPlacerAnsweredKinds DEF handle, DialsNobody
<1>5. CASE ev.type = "outbound-placer-hangup"
  BY <1>5, reduceOutboundPlacerHangupKinds DEF handle, DialsNobody
<1>6. CASE ev.type = "answer-outcome"
  BY <1>6, reduceAnswerOutcomeKinds DEF handle, DialsNobody
<1>7. CASE ev.type = "member-probe-outcome"
  BY <1>1, <1>7, reduceProbeOutcomeKinds DEF handle, DialsNobody
<1>8. CASE ev.type = "dial-outcome"
  BY <1>1, <1>8, reduceDialOutcomeKinds DEF handle, DialsNobody
<1> QED BY <1>2, <1>3, <1>4, <1>5, <1>6, <1>7, <1>8

\* The webhooks of the customer's leg and what commands to it said.
LEMMA CustomerEventKinds ==
  ASSUME NEW m, MachineOK(m), ~isNone(m), NEW ev \in Event,
         ev.type \in {"inbound-hangup", "outbound-answered", "outbound-hangup", "speak-ended",
                      "recording-saved", "notice-answer-outcome", "vm-answer-outcome",
                      "push-fanout-settled", "inbound-leg-gone"}
  PROVE  DialsNobody(m, ev, handle(m, ev))
<1>1. ev.type = "inbound-hangup" => ev.tag \in {"untagged", "bri", "vmi"} BY EventFields
<1>2. ev.type \in {"notice-answer-outcome", "vm-answer-outcome"} => ev.ok \in BOOLEAN
  BY DEF Event, Webhook, FollowUp, Asked, Mint
<1>3. CASE ev.type = "inbound-hangup"
  BY <1>1, <1>3, reduceInboundHangupKinds DEF handle, DialsNobody
<1>4. CASE ev.type = "outbound-answered"
  BY <1>4, reduceOutboundAnsweredKinds DEF handle, DialsNobody
<1>5. CASE ev.type = "outbound-hangup"
  BY <1>5, reduceOutboundHangupKinds DEF handle, DialsNobody
<1>6. CASE ev.type = "speak-ended" BY <1>6, reduceSpeakEndedKinds DEF handle, DialsNobody
<1>7. CASE ev.type = "recording-saved" BY <1>7, reduceRecordingSavedKinds DEF handle, DialsNobody
<1>8. CASE ev.type = "notice-answer-outcome"
  BY <1>2, <1>8, reduceNoticeAnswerOutcomeKinds DEF handle, DialsNobody
<1>9. CASE ev.type = "vm-answer-outcome"
  BY <1>2, <1>9, reduceVmAnswerOutcomeKinds DEF handle, DialsNobody
<1>10. CASE ev.type = "push-fanout-settled"
  BY <1>10, reducePushFanoutSettledKinds DEF handle, DialsNobody
<1>11. CASE ev.type = "inbound-leg-gone"
  BY <1>11, reduceInboundLegGoneKinds DEF handle, DialsNobody
<1> QED BY <1>3, <1>4, <1>5, <1>6, <1>7, <1>8, <1>9, <1>10, <1>11

\* The members' requests, the transfer's and the alarms.
LEMMA AskedKinds ==
  ASSUME NEW m, MachineOK(m), ~isNone(m), NEW ev \in Event,
         ev.type \in {"ring-me", "decline", "set-owner", "register-intent", "clear-intent",
                      "alarm-intent-expiry", "alarm-ring", "alarm-janitor", "alarm-ring-step"}
  PROVE  RingsAsked(m, ev, handle(m, ev))
<1>1. ev.type \in {"ring-me", "decline", "set-owner"} => ev.user \in User BY EventFields
<1>2. CASE ev.type = "ring-me"
  BY <1>2, reduceRingMeKinds DEF handle, DialsNobody, RingsAsked
<1>3. ASSUME ev.type \notin {"ring-me", "alarm-ring-step"} PROVE DialsNobody(m, ev, handle(m, ev))
  <2>1. CASE ev.type = "decline" BY <1>1, <2>1, reduceDeclineKinds DEF handle, DialsNobody
  <2>2. CASE ev.type = "set-owner" BY <2>2, reduceSetOwnerKinds DEF handle, DialsNobody
  <2>3. CASE ev.type \in {"register-intent", "clear-intent", "alarm-intent-expiry"}
    BY <2>3, IntentKinds DEF handle, DialsNobody
  <2>4. CASE ev.type = "alarm-ring" BY <2>4, reduceAlarmRingKinds DEF handle, DialsNobody
  <2>5. CASE ev.type = "alarm-janitor" BY <2>5, reduceAlarmJanitorKinds DEF handle, DialsNobody
  <2> QED BY <1>3, <2>1, <2>2, <2>3, <2>4, <2>5
<1>4. CASE ev.type = "alarm-ring-step"
  BY <1>4, reduceAlarmRingStepKinds DEF handle, DialsNobody, RingsAsked
<1> QED BY <1>2, <1>3, <1>4 DEF RingsAsked

\* Only a request or the turn's alarm rings somebody.
LEMMA ReduceDials ==
  ASSUME NEW m, MachineOK(m), ~isNone(m), NEW ev \in Event
  PROVE  RingsAsked(m, ev, reduce(m, ev))
<1>1. Quiet(m, NoEffect(m)) BY CoreKept, QuietNone
<1>2. CASE ev.type \in {"initiated", "outbound-initiated"}
  <2>1. DialsNobody(m, ev, NoEffect(m)) BY <1>1 DEF DialsNobody
  <2> QED BY <1>2, <2>1 DEF reduce, RingsAsked
<1>3. CASE ev.type \notin {"initiated", "outbound-initiated"}
  <2>1. reduce(m, ev) = handle(m, ev) BY <1>3 DEF reduce
  <2>2. ev.type \in {"member-leg-answered", "member-leg-hangup", "outbound-placer-answered",
                      "outbound-placer-hangup", "answer-outcome", "member-probe-outcome",
                      "dial-outcome",
                      "inbound-hangup", "outbound-answered", "outbound-hangup", "speak-ended",
                      "recording-saved", "notice-answer-outcome", "vm-answer-outcome",
                      "push-fanout-settled", "inbound-leg-gone",
                      "ring-me", "decline", "set-owner", "register-intent", "clear-intent",
                      "alarm-intent-expiry", "alarm-ring", "alarm-janitor", "alarm-ring-step"}
    BY <1>3 DEF Event, Webhook, FollowUp, Asked, Mint
  <2>3. RingsAsked(m, ev, handle(m, ev))
    BY <2>2, LegEventKinds, CustomerEventKinds, AskedKinds DEF RingsAsked
  <2> QED BY <2>1, <2>3
<1> QED BY <1>2, <1>3

\* Whatever event meets a session, it makes a step of one of the kinds.
THEOREM ReduceKinds ==
  ASSUME NEW m, MachineOK(m), ~isNone(m), NEW ev \in Event
  PROVE  Kinds(m, ev, reduce(m, ev))
  BY ReduceDials DEF Kinds, RingsAsked

(***************************************************************************)
(* The events that mint a session.                                         *)
(***************************************************************************)
\* What an opening may do besides its write: ring, and arm the two deadlines.
Opens(e, m) ==
  \/ Bland(e) \/ e = Arm("janitor")
  \/ e = Arm("ring") /\ ~NoAvenue(m)
  \/ e.kind \in {"telnyx-dial", "telnyx-dial-placer"}

OpeningWrite(r, set) ==
  /\ Says(set, r.m) /\ Mirror(set) \in Eff(r.fx)
  /\ "state" \in DOMAIN set /\ "answered_at" \notin DOMAIN set
  /\ "answered_by_user_id" \in DOMAIN set <=> r.m.direction = "outbound"
  /\ \A e \in Eff(r.fx) : e = Mirror(set) \/ Opens(e, r.m)

Mints(r) ==
  /\ r.m.state \in {"dialing", "ringing", "voicemail_greeting"}
  /\ ~r.m.answered /\ r.m.answerIntent = NoUser /\ r.m.declined = {}
  /\ r.m.state = "dialing" <=> r.m.direction = "outbound"
  /\ r.m.direction = "inbound" => r.m.owner = NoUser
  /\ r.m.direction = "outbound" => ~r.m.rejectedForCap /\ ~r.m.noticeSpoken
  /\ \E set : OpeningWrite(r, set)

\* The fields of an inbound session that has just been made.
Fresh(m) ==
  /\ m.direction = "inbound" /\ m.owner = NoUser /\ ~m.answered
  /\ m.answerIntent = NoUser /\ m.declined = {}

\* Ringing starts with somebody to ring or to wake.
LEMMA ringStartMints ==
  ASSUME NEW base, MachineOK(base), Fresh(base), base.state = "ringing",
         NEW ctx \in InboundContext, base.push = ctx.audience,
         ~(ctx.targets = <<>> /\ ctx.audience = {})
  PROVE  Mints(ringStart(base, ctx)) /\ ringStart(base, ctx).m.direction = "inbound"
<1> DEFINE targets == RingTargets(ctx)
           now     == IF ctx.inTurn /\ Len(targets) > 1 THEN 1 ELSE Len(targets)
           first   == SubSeq(targets, 1, now)
           rest    == {targets[i] : i \in (now + 1) .. Len(targets)}
           m       == [PushLegs(base, first) EXCEPT !.order = targets, !.queue = rest]
           set     == [state |-> "ringing"]
           fx1     == << Arm("janitor"), Mirror(set) >>
           dial    == <<Dial(1, now)>>
           fx2     == When(now > 0, dial)
           fx3     == << PushFanout, Arm("fanout-settle"), Arm("ring") >>
           step    == <<Arm("ring-step")>>
           fx4     == armRingStep(m, ctx.fits)
           S1      == {Arm("janitor"), Mirror(set)}
           S3      == {PushFanout, Arm("fanout-settle"), Arm("ring")}
           r       == ringStart(base, ctx)
<1>1. /\ targets \in Seq(User) /\ Len(targets) \in Nat
      /\ ctx.targets # <<>> => Len(targets) > 0
  BY RingTargetsIn
<1> HIDE DEF targets
<1>2. now \in Nat /\ now <= Len(targets) /\ (Len(targets) > 0 => now > 0) BY <1>1
<1>3. first \in Seq(User) /\ Len(first) = now BY <1>1, <1>2, SubSeqProperties
<1>4. r = Result(m, ((fx1 \o fx2) \o fx3) \o fx4)
  BY DEF ringStart, targets, now, first, rest
<1> HIDE DEF now, first, rest, r
<1>5. /\ m.state = "ringing" /\ Fresh(m) /\ m.push = ctx.audience
      /\ m.legs = [i \in LegId |->
               IF i <= now
               THEN [user |-> first[i], status |-> "dialing", ccid |-> NoLeg, ringMe |-> FALSE]
               ELSE UnusedLeg]
  BY <1>3 DEF PushLegs, Fresh, MachineOK, SessionMachine
<1>6. ~NoAvenue(m)
  <2>1. CASE ctx.audience # {} BY <1>5, <2>1 DEF NoAvenue
  <2>2. CASE ctx.targets # <<>>
    <3>1. 1 \in LegId /\ 1 <= now BY <1>1, <1>2, <2>2, MaxLegsAssumption DEF LegId
    <3>2. m.legs[1].status = "dialing" BY <1>5, <3>1
    <3> HIDE DEF m
    <3> QED BY <3>1, <3>2 DEF NoAvenue, liveLegs, LegsWith, LIVE_STATUSES
  <2> QED BY <2>1, <2>2
<1> DEFINE S2 == IF now > 0 THEN {Dial(1, now)} ELSE {}
           S4 == IF m.queue # {} /\ ctx.fits THEN {Arm("ring-step")} ELSE {}
<1>7. Lists(fx1, S1) /\ Lists(dial, {Dial(1, now)}) /\ Lists(fx3, S3)
      /\ Lists(step, {Arm("ring-step")})
  BY Lists1, Lists2, Lists3
<1> HIDE DEF fx1, dial, fx3, step, m
<1>8. Lists(fx2, S2) BY <1>7, ListsWhen
<1>9. Lists(fx4, S4) BY <1>7, ListsWhen DEF armRingStep, step
<1>10. \A e \in ((S1 \cup S2) \cup S3) \cup S4 : e = Mirror(set) \/ Opens(e, m)
  <2>1. \A e \in S1 : e = Mirror(set) \/ Opens(e, m) BY DEF Opens
  <2>2. \A e \in S2 : Opens(e, m) BY KindsOf DEF Opens
  <2>3. \A e \in S3 : Opens(e, m) BY <1>6, BlandIs DEF Opens
  <2>4. \A e \in S4 : Opens(e, m) BY BlandIs DEF Opens
  <2> QED BY <2>1, <2>2, <2>3, <2>4
<1>11. Mirror(set) \in S1 OBVIOUS
<1> HIDE DEF S1, S2, S3, S4, fx2, fx4
<1>12. Lists(((fx1 \o fx2) \o fx3) \o fx4, ((S1 \cup S2) \cup S3) \cup S4)
  BY <1>7, <1>8, <1>9, ListsConcat
<1>13. r.m = m /\ Eff(r.fx) = ((S1 \cup S2) \cup S3) \cup S4 BY <1>4, <1>12 DEF Result, Lists
<1>14. Says(set, m) /\ DOMAIN set = {"state"} BY <1>5, ColumnsSay
<1> HIDE DEF set
<1>15. OpeningWrite(r, set) BY <1>5, <1>10, <1>11, <1>13, <1>14 DEF OpeningWrite, Fresh
<1>16. Mints(r) BY <1>5, <1>13, <1>15 DEF Mints, Fresh
<1> QED BY <1>5, <1>13, <1>16 DEF r, Fresh

\* The other openings: a write of the state, and of the notice where one is due.
LEMMA PlainMint ==
  ASSUME NEW m, Fresh(m), m.state \in {"ringing", "voicemail_greeting"},
         NEW set, Says(set, m), "state" \in DOMAIN set,
         "answered_at" \notin DOMAIN set, "answered_by_user_id" \notin DOMAIN set,
         NEW fx, NEW S, Lists(fx, S), Mirror(set) \in S,
         \A e \in S : e = Mirror(set) \/ Bland(e) \/ e = Arm("janitor")
  PROVE  Mints(Result(m, fx)) /\ Result(m, fx).m.direction = "inbound"
<1> DEFINE r == Result(m, fx)
<1>1. r.m = m /\ Eff(r.fx) = S BY DEF Result, Lists
<1> HIDE DEF r
<1>2. OpeningWrite(r, set) BY <1>1 DEF OpeningWrite, Opens, Fresh
<1>3. Mints(r) BY <1>1, <1>2 DEF Mints, Fresh
<1> QED BY <1>1, <1>3 DEF r, Fresh

\* An inbound call.
LEMMA reduceInitiatedMints ==
  ASSUME NEW ctx \in InboundContext
  PROVE  Mints(reduceInitiated(ctx)) /\ reduceInitiated(ctx).m.direction = "inbound"
<1> DEFINE base    == [NoMachine EXCEPT !.state = "ringing", !.push = ctx.audience]
           vm      == vmEntry(base)
           noticed == [base EXCEPT !.noticeSpoken = ctx.noticeAllowed]
           capped  == [base EXCEPT !.rejectedForCap = TRUE]
           one     == <<Arm("janitor")>>
           ring    == [state |-> "ringing"]
           greet   == [state |-> "voicemail_greeting"]
           told    == [state |-> "ringing", notice_spoken |-> ctx.noticeAllowed]
           fx1     == << Arm("janitor"), Mirror(told) >>
           ans     == <<AnswerNotice>>
           fx2     == When(ctx.noticeAllowed, ans)
           fx3     == << Arm("janitor"), Reject, Mirror(ring) >>
           S1      == {Arm("janitor"), Mirror(told)}
           S2      == IF ctx.noticeAllowed THEN {AnswerNotice} ELSE {}
           S3      == {Arm("janitor"), Reject, Mirror(ring)}
           V       == {Mirror(greet), Clear("ring"), Clear("ring-step"), AnswerVm,
                       PushCallEnd("voicemail")}
<1>1. MachineOK(base)
  BY NoMachineOK, EndingsIn DEF MachineOK, SessionMachine, NoMachine, InboundContext
<1>2. Fresh(base) /\ base.state = "ringing" /\ base.push = ctx.audience BY DEF Fresh, NoMachine
<1> HIDE DEF base
<1>3. ctx.noticeAllowed \in BOOLEAN BY DEF InboundContext
<1>4. /\ noticed.state = "ringing" /\ Fresh(noticed) /\ noticed.noticeSpoken = ctx.noticeAllowed
      /\ capped.state = "ringing" /\ Fresh(capped)
  BY <1>1, <1>2 DEF MachineOK, SessionMachine, Fresh
<1>5. vm.m.state = "voicemail_greeting" /\ Fresh(vm.m)
  BY <1>1, <1>2 DEF vmEntry, Result, MachineOK, SessionMachine, Fresh
<1>6. Lists(vm.fx, V) BY Lists5 DEF vmEntry, Result
<1>7. /\ Lists(one, {Arm("janitor")}) /\ Lists(fx1, S1) /\ Lists(ans, {AnswerNotice})
      /\ Lists(fx3, S3)
  BY Lists1, Lists2, Lists3
<1>8. /\ Says(told, noticed) /\ DOMAIN told = {"state", "notice_spoken"}
      /\ Says(ring, capped) /\ DOMAIN ring = {"state"}
      /\ Says(greet, vm.m) /\ DOMAIN greet = {"state"}
  BY <1>4, <1>5 DEF Says, ColumnOf
<1> HIDE DEF noticed, capped, vm, one, fx1, ans, fx3
<1>9. Lists(fx2, S2) BY <1>7, ListsWhen
<1>10. Lists(one \o vm.fx, {Arm("janitor")} \cup V) /\ Lists(fx1 \o fx2, S1 \cup S2)
  BY <1>6, <1>7, <1>9, ListsConcat
<1>11. /\ \A e \in {Arm("janitor")} \cup V : e = Mirror(greet) \/ Bland(e) \/ e = Arm("janitor")
       /\ \A e \in S1 \cup S2 : e = Mirror(told) \/ Bland(e) \/ e = Arm("janitor")
       /\ \A e \in S3 : e = Mirror(ring) \/ Bland(e) \/ e = Arm("janitor")
  BY BlandIs
<1>12. Mirror(greet) \in {Arm("janitor")} \cup V /\ Mirror(told) \in S1 \cup S2 /\ Mirror(ring) \in S3
  OBVIOUS
<1> DEFINE V1  == {Arm("janitor")} \cup V
           S12 == S1 \cup S2
           OK(r) == Mints(r) /\ r.m.direction = "inbound"
<1> HIDE DEF fx2, V1, S12, S3, told, ring, greet
<1>13. OK(Result(vm.m, one \o vm.fx)) BY <1>5, <1>8, <1>10, <1>11, <1>12, PlainMint DEF V1
<1>14. OK(Result(noticed, fx1 \o fx2)) BY <1>4, <1>8, <1>10, <1>11, <1>12, PlainMint DEF S12
<1>15. OK(Result(capped, fx3)) BY <1>4, <1>7, <1>8, <1>11, <1>12, PlainMint
<1>16. ~(ctx.targets = <<>> /\ ctx.audience = {}) => OK(ringStart(base, ctx))
  BY <1>1, <1>2, ringStartMints
<1>17. \/ reduceInitiated(ctx) \in {Result(vm.m, one \o vm.fx), Result(noticed, fx1 \o fx2),
                                    Result(capped, fx3)}
       \/ ~(ctx.targets = <<>> /\ ctx.audience = {}) /\ reduceInitiated(ctx) = ringStart(base, ctx)
  <2>1. ctx.kind \in {"vm", "suspended", "cap", "ring"} BY DEF InboundContext
  <2> QED BY <2>1 DEF reduceInitiated, base, vm, noticed, capped, one, fx1, fx2, ans, fx3, told, ring
<1> HIDE DEF OK
<1>18. OK(reduceInitiated(ctx)) BY <1>13, <1>14, <1>15, <1>16, <1>17
<1> QED BY <1>18 DEF OK

\* A placed call.
LEMMA reduceOutboundInitiatedMints ==
  ASSUME NEW ctx \in Placement
  PROVE  Mints(reduceOutboundInitiated(ctx)) /\ reduceOutboundInitiated(ctx).m.direction = "outbound"
<1> DEFINE base == [NoMachine EXCEPT !.state = "dialing", !.direction = "outbound",
                                     !.owner = ctx.placer]
           set  == [state |-> "dialing", answered_by_user_id |-> ctx.placer]
           next == PushLeg(base, ctx.placer, FALSE)
           fx1  == <<Mirror(set), Arm("janitor")>>
           fx2  == <<DialPlacer(1)>>
           S    == {Mirror(set), Arm("janitor")}
           T    == S \cup {DialPlacer(1)}
           r    == reduceOutboundInitiated(ctx)
           Like(m) == /\ m.state = "dialing" /\ m.direction = "outbound" /\ m.owner = ctx.placer
                      /\ ~m.answered /\ m.answerIntent = NoUser /\ m.declined = {}
                      /\ ~m.rejectedForCap /\ ~m.noticeSpoken
<1>1. Like(base) /\ Like(next) BY DEF NoMachine, PushLeg
<1>2. Lists(fx1, S) /\ Lists(fx2, {DialPlacer(1)}) BY Lists1, Lists2
<1>3. r \in {Result(next, fx1 \o fx2), Result(base, fx1)} BY DEF reduceOutboundInitiated
<1>4. \A e \in T : e = Mirror(set) \/ e = Arm("janitor") \/ e.kind = "telnyx-dial-placer"
  BY KindsOf
<1>5. Mirror(set) \in S /\ S \subseteq T OBVIOUS
<1>6. \A m : Like(m) => Says(set, m) BY DEF Says, ColumnOf
<1>7. DOMAIN set = {"state", "answered_by_user_id"} OBVIOUS
<1> HIDE DEF fx1, fx2, base, next, r
<1>8. Lists(fx1 \o fx2, T) BY <1>2, ListsConcat
<1> HIDE DEF S, T, set
<1>9. Like(r.m) /\ Eff(r.fx) \in {S, T}
  <2>1. \/ r.m = next /\ r.fx = fx1 \o fx2
        \/ r.m = base /\ r.fx = fx1
    BY <1>3 DEF Result
  <2>2. Eff(fx1) = S /\ Eff(fx1 \o fx2) = T BY <1>2, <1>8 DEF Lists
  <2> HIDE DEF Like
  <2> QED BY <1>1, <2>1, <2>2
<1>10. OpeningWrite(r, set) BY <1>4, <1>5, <1>6, <1>7, <1>9 DEF OpeningWrite, Opens
<1>11. Mints(r) BY <1>9, <1>10 DEF Mints
<1> QED BY <1>9, <1>11 DEF r

\* A session is minted by an initiation, and by nothing else.
THEOREM MintKinds ==
  ASSUME NEW m, isNone(m), NEW ev \in Event
  PROVE  \/ /\ ev.type \in {"initiated", "outbound-initiated"} /\ Mints(reduce(m, ev))
            /\ reduce(m, ev).m.direction = (IF ev.type = "initiated" THEN "inbound" ELSE "outbound")
         \/ /\ ev.type \notin {"initiated", "outbound-initiated"}
            /\ reduce(m, ev) = NoEffect(m)
<1>1. CASE ev.type = "initiated"
  BY <1>1, EventFields, reduceInitiatedMints DEF reduce
<1>2. CASE ev.type = "outbound-initiated"
  BY <1>2, EventFields, reduceOutboundInitiatedMints DEF reduce
<1>3. CASE ev.type \notin {"initiated", "outbound-initiated"} BY <1>3 DEF reduce
<1> QED BY <1>1, <1>2, <1>3

(***************************************************************************)
(* The machine's books of the members' legs: which of the provider's legs  *)
(* it has a record of, which it gave up, and which still ring for it.      *)
(***************************************************************************)
\* The provider's legs the machine knows, and those it gave up.
Known(m)  == CcidsOf(m, LegId)
GaveUp(m) == CcidsOf(m, LegsWith(m, {"canceling", "dead"}))

\* The legs a list of effects hangs up.
Hung(S) == {i \in LegId : \E e \in S : e.kind = "telnyx-hangup" /\ i \in e.legs}

\* No phone is being rung.
Silent(m) == LegsWith(m, {"dialing", "ringing"}) = {}

\* A leg has one record, and a record that is not in use has no leg.
OneRecord(m) ==
  \A j, k \in LegId : m.legs[j].ccid = m.legs[k].ccid /\ m.legs[j].ccid # NoLeg => j = k

Bare(m) == \A j \in LegId : m.legs[j].status \in {"unused", "ambiguous"} => m.legs[j].ccid = NoLeg

\* Nothing is left to be torn down.
Quieted(m) == Silent(m) /\ (m.direction = "outbound" => answeredPlacer(m) = {})

Hushed(m) ==
  /\ isTerminal(m.state) => Quieted(m)
  /\ m.direction = "inbound" /\ m.state \in {"answered", "voicemail_recording"} => Silent(m)

Books(m) == OneRecord(m) /\ Bare(m) /\ Hushed(m)

\* Phones may be rung.
Presenting == {"ringing", "dialing"}

\* The outcome of dialing the record i is still to come.
Awaited(m, i) ==
  /\ m.state \in Presenting /\ i <= m.dialed
  /\ m.legs[i].status = "dialing" /\ m.legs[i].ccid = NoLeg /\ i \notin Known(m)

\* The legs of n are those of m, but for some that were given up, all of T or
\* without a call control id.
Lessens(m, n, T) ==
  \A j \in LegId :
     /\ n.legs[j].ccid = m.legs[j].ccid
     /\ \/ n.legs[j].status = m.legs[j].status
        \/ n.legs[j].status \in {"canceling", "dead"} /\ n.legs[j].ccid \in T \cup {NoLeg}
        \/ n.legs[j].status = "ambiguous" /\ n.legs[j].ccid = NoLeg

\* What giving up legs leaves of the books.
LEMMA LessensBooks ==
  ASSUME NEW m, NEW n, NEW T, Lessens(m, n, T)
  PROVE  /\ OneRecord(m) => OneRecord(n)
         /\ Bare(m) => Bare(n)
         /\ Known(n) = Known(m)
         /\ GaveUp(n) \subseteq GaveUp(m) \cup T
         /\ Silent(m) => Silent(n)
         /\ answeredPlacer(n) \subseteq answeredPlacer(m)
<1>1. OneRecord(m) => OneRecord(n) BY DEF Lessens, OneRecord
<1>2. Bare(m) => Bare(n) BY DEF Lessens, Bare
<1>3. Known(n) = Known(m) BY DEF Lessens, Known, CcidsOf
<1>4. GaveUp(n) \subseteq GaveUp(m) \cup T BY DEF Lessens, GaveUp, CcidsOf, LegsWith
<1>5. Silent(m) => Silent(n) BY DEF Lessens, Silent, LegsWith
<1>6. answeredPlacer(n) \subseteq answeredPlacer(m) BY DEF Lessens, answeredPlacer, LegsWith
<1> QED BY <1>1, <1>2, <1>3, <1>4, <1>5, <1>6

\* Legs that stay are a case of it,
LEMMA LessensSame ==
  ASSUME NEW m, NEW n, n.legs = m.legs, NEW T PROVE Lessens(m, n, T)
  BY DEF Lessens

\* and so are two such steps.
LEMMA LessensTwice ==
  ASSUME NEW m, NEW n, NEW o, NEW T, NEW U, Lessens(m, n, T), Lessens(n, o, U)
  PROVE  Lessens(m, o, T \cup U)
  BY DEF Lessens

\* Wider and wider.
LEMMA LessensMore ==
  ASSUME NEW m, NEW n, NEW T, NEW U, Lessens(m, n, T), T \subseteq U PROVE Lessens(m, n, U)
  BY DEF Lessens

\* What a change of status leaves alone.
LEMMA SetStatusIs ==
  ASSUME NEW m, MachineOK(m), NEW ls, NEW st
  PROVE  LET n == SetStatus(m, ls, st)
         IN  /\ n.state = m.state /\ n.direction = m.direction /\ n.dialed = m.dialed
             /\ \A j \in LegId : /\ n.legs[j].ccid = m.legs[j].ccid
                                 /\ n.legs[j].user = m.legs[j].user
                                 /\ n.legs[j].status = IF j \in ls THEN st ELSE m.legs[j].status
<1> DEFINE n    == SetStatus(m, ls, st)
           legs == [i \in LegId |-> IF i \in ls THEN [m.legs[i] EXCEPT !.status = st] ELSE m.legs[i]]
<1>1. n.legs = legs /\ n.state = m.state /\ n.direction = m.direction /\ n.dialed = m.dialed
  BY DEF SetStatus, MachineOK, SessionMachine
<1>2. m.legs \in [LegId -> Leg] BY DEF MachineOK, SessionMachine
<1>3. \A j \in LegId : m.legs[j] \in Leg BY <1>2
<1>4. \A j \in LegId : legs[j] = IF j \in ls THEN [m.legs[j] EXCEPT !.status = st] ELSE m.legs[j]
  OBVIOUS
<1> HIDE DEF n, legs
<1>5. \A j \in LegId : /\ legs[j].ccid = m.legs[j].ccid /\ legs[j].user = m.legs[j].user
                       /\ legs[j].status = IF j \in ls THEN st ELSE m.legs[j].status
  BY <1>3, <1>4 DEF Leg
<1> QED BY <1>1, <1>5 DEF n

\* Records are given up.
LEMMA SetStatusLessens ==
  ASSUME NEW m, MachineOK(m), NEW ls, NEW st \in {"canceling", "dead"}
  PROVE  Lessens(m, SetStatus(m, ls, st), CcidsOf(m, ls))
<1> DEFINE n == SetStatus(m, ls, st)
<1>1. \A j \in LegId : /\ n.legs[j].ccid = m.legs[j].ccid
                       /\ n.legs[j].status = IF j \in ls THEN st ELSE m.legs[j].status
  BY SetStatusIs
<1> HIDE DEF n
<1>2. \A j \in ls : m.legs[j].ccid \in CcidsOf(m, ls) \cup {NoLeg} BY DEF CcidsOf
<1>3. Lessens(m, n, CcidsOf(m, ls)) BY <1>1, <1>2 DEF Lessens
<1> QED BY <1>3 DEF n

\* The legs that the lists of effects hang up.
LEMMA HungIs ==
  /\ Hung({}) = {}
  /\ \A S, T : Hung(S \cup T) = Hung(S) \cup Hung(T)
  /\ \A ls \in SUBSET LegId : Hung({HangupLegs(ls)}) = ls
<1>1. Hung({}) = {} BY DEF Hung
<1>2. \A S, T : Hung(S \cup T) = Hung(S) \cup Hung(T) BY DEF Hung
<1>3. \A ls \in SUBSET LegId : Hung({HangupLegs(ls)}) = ls BY DEF Hung, HangupLegs
<1> QED BY <1>1, <1>2, <1>3

\* One list after another hangs up the legs of both.
LEMMA HungConcat ==
  ASSUME NEW a, NEW b, NEW S, NEW T, Lists(a, S), Lists(b, T)
  PROVE  Hung(Eff(a \o b)) = Hung(S) \cup Hung(T)
<1>1. Lists(a \o b, S \cup T) BY ListsConcat
<1>2. Eff(a \o b) = S \cup T BY <1>1 DEF Lists
<1> QED BY <1>2, HungIs

\* A hangup of legs hangs them up.
LEMMA HungHangups ==
  ASSUME NEW ls \in SUBSET LegId
  PROVE  LET S == IF ls # {} THEN {HangupLegs(ls)} ELSE {}
         IN  Lists(Hangups(ls), S) /\ Hung(S) = ls
  BY ListsHangups, HungIs

\* A part of a list is in it.
LEMMA EffParts ==
  ASSUME NEW a, NEW b, NEW S, NEW T, Lists(a, S), Lists(b, T)
  PROVE  Eff(a) \subseteq Eff(a \o b) /\ Eff(b) \subseteq Eff(a \o b) /\ Lists(a \o b, S \cup T)
<1>1. Lists(a \o b, S \cup T) BY ListsConcat
<1> QED BY <1>1 DEF Lists

\* Legs are given up, and nothing else of them changes.
GivesUp(m, n, T) == Lessens(m, n, T) /\ n.direction = m.direction /\ n.dialed = m.dialed

\* Twice.
LEMMA GivesUpTwice ==
  ASSUME NEW m, NEW n, NEW o, NEW T, NEW U, GivesUp(m, n, T), GivesUp(n, o, U)
  PROVE  GivesUp(m, o, T \cup U)
  BY LessensTwice DEF GivesUp

\* Fields that are not the legs'.
LEMMA GivesUpNone ==
  ASSUME NEW m, NEW n, n.legs = m.legs, n.direction = m.direction, n.dialed = m.dialed
  PROVE  GivesUp(m, n, {})
  BY LessensSame DEF GivesUp

\* Records that are given up.
LEMMA SetStatusGivesUp ==
  ASSUME NEW m, MachineOK(m), NEW ls, NEW st \in {"canceling", "dead"}
  PROVE  GivesUp(m, SetStatus(m, ls, st), CcidsOf(m, ls))
  BY SetStatusLessens, SetStatusIs DEF GivesUp

\* cancelAllLiveLegs hangs up what it gives up, and leaves no phone ringing.
LEMMA cancelAllLiveLegsGivesUp ==
  ASSUME NEW m, MachineOK(m)
  PROVE  LET cut == cancelAllLiveLegs(m)
         IN  /\ MachineOK(cut.m) /\ cut.m.state = m.state
             /\ Lists(cut.fx, Eff(cut.fx))
             /\ GivesUp(m, cut.m, Hung(Eff(cut.fx)))
             /\ Silent(cut.m)
<1> DEFINE ls  == LegsWith(m, {"dialing", "ringing"})
           n   == SetStatus(m, ls, "canceling")
           cut == cancelAllLiveLegs(m)
<1>1. cut.m = n /\ cut.fx = Hangups(CcidsOf(m, ls)) BY DEF cancelAllLiveLegs, Result
<1>2. MachineOK(n) BY SetStatusOK DEF LegStatus
<1>3. GivesUp(m, n, CcidsOf(m, ls)) BY SetStatusGivesUp
<1>4. CcidsOf(m, ls) \in SUBSET LegId BY LegsWithIn, CcidsIn
<1>5. Lists(cut.fx, Eff(cut.fx)) /\ Hung(Eff(cut.fx)) = CcidsOf(m, ls)
  <2> DEFINE S == IF CcidsOf(m, ls) # {} THEN {HangupLegs(CcidsOf(m, ls))} ELSE {}
  <2>1. Lists(cut.fx, S) /\ Hung(S) = CcidsOf(m, ls) BY <1>1, <1>4, HungHangups
  <2> HIDE DEF S
  <2> QED BY <2>1 DEF Lists
<1>6. /\ n.state = m.state
      /\ \A j \in LegId : n.legs[j].status = IF j \in ls THEN "canceling" ELSE m.legs[j].status
  BY SetStatusIs
<1>7. \A j \in LegId : j \in ls <=> m.legs[j].status \in {"dialing", "ringing"} BY DEF LegsWith
<1> HIDE DEF n, ls, cut
<1>8. Silent(n) BY <1>6, <1>7 DEF Silent, LegsWith
<1> QED BY <1>1, <1>2, <1>3, <1>5, <1>6, <1>8 DEF cut

\* terminalize gives up what rings, of a placed call the placer's leg too.
LEMMA terminalizeGivesUp ==
  ASSUME NEW m, MachineOK(m), NEW target \in TerminalStates, NEW merged, NEW reason, NEW extra
  PROVE  LET r == terminalize(m, target, merged, reason, extra)
         IN  r.m.state = target /\ GivesUp(m, r.m, Hung(Eff(r.fx))) /\ Quieted(r.m)
<1> DEFINE r    == terminalize(m, target, merged, reason, extra)
           n    == [m EXCEPT !.state = target]
           cut  == cancelAllLiveLegs(n)
           op   == PlacerToReap(m)
           fx1  == Hangups(CcidsOf(m, op))
           fx2  == << Mirror(Written([state |-> target], extra)), TerminalMerge(merged) >>
           fx3  == When(m.state = "ringing" /\ reason # "null", <<PushCallEnd(reason)>>)
           fx4  == When(~isTerminal(m.state),
                       <<Clear("ring"), Clear("ring-step"), Clear("fanout-settle"), Arm("purge")>>)
           S1   == IF CcidsOf(m, op) # {} THEN {HangupLegs(CcidsOf(m, op))} ELSE {}
           o    == SetStatus(cut.m, op, "dead")
<1>1. r.m = o /\ r.fx = (((cut.fx \o fx1) \o fx2) \o fx3) \o fx4 BY DEF terminalize, Result
<1>2. MachineOK(n) /\ n.legs = m.legs /\ n.state = target /\ n.direction = m.direction
        /\ n.dialed = m.dialed
  <2>1. target \in CallStates BY DEF CallStates
  <2>2. MachineOK(n) BY <2>1, StateOK
  <2> QED BY <2>2 DEF MachineOK, SessionMachine
<1>3. /\ MachineOK(cut.m) /\ cut.m.state = target /\ Lists(cut.fx, Eff(cut.fx))
      /\ GivesUp(n, cut.m, Hung(Eff(cut.fx))) /\ Silent(cut.m)
  BY <1>2, cancelAllLiveLegsGivesUp
<1>4. op \in SUBSET LegId /\ CcidsOf(m, op) \in SUBSET LegId
  <2>1. op \in SUBSET LegId BY DEF PlacerToReap, answeredPlacer, LegsWith
  <2> QED BY <2>1, CcidsIn
<1>5. Lists(fx1, S1) /\ Hung(S1) = CcidsOf(m, op) BY <1>4, HungHangups
<1>6. Lists(fx2, Eff(fx2))
  <2>1. Lists(fx2, {Mirror(Written([state |-> target], extra)), TerminalMerge(merged)}) BY Lists2
  <2> QED BY <2>1 DEF Lists
<1>7. PICK S3 : Lists(fx3, S3) BY Lists1, ListsWhen
<1>8. PICK S4 : Lists(fx4, S4) BY Lists4, ListsWhen
<1> HIDE DEF fx1, fx2, fx3, fx4, S1, op, cut, n, r, o
<1>9. Lists((cut.fx \o fx1) \o fx2, (Eff(cut.fx) \cup S1) \cup Eff(fx2))
        /\ Eff((cut.fx \o fx1) \o fx2) = (Eff(cut.fx) \cup S1) \cup Eff(fx2)
  <2>1. Lists(cut.fx \o fx1, Eff(cut.fx) \cup S1) BY <1>3, <1>5, ListsConcat
  <2>2. Lists((cut.fx \o fx1) \o fx2, (Eff(cut.fx) \cup S1) \cup Eff(fx2))
    BY <2>1, <1>6, ListsConcat
  <2> QED BY <2>2 DEF Lists
<1>10. Eff((cut.fx \o fx1) \o fx2) \subseteq Eff(r.fx)
  <2> DEFINE a == (cut.fx \o fx1) \o fx2
             A == (Eff(cut.fx) \cup S1) \cup Eff(fx2)
  <2>1. Lists(a, A) BY <1>9
  <2> HIDE DEF a, A
  <2>2. Lists(a \o fx3, A \cup S3) /\ Eff(a) \subseteq Eff(a \o fx3) BY <2>1, <1>7, EffParts
  <2>3. Eff(a \o fx3) \subseteq Eff((a \o fx3) \o fx4) BY <2>2, <1>8, EffParts
  <2> QED BY <2>2, <2>3, <1>1 DEF a
<1>11. Hung(Eff(cut.fx)) \cup CcidsOf(m, op) \subseteq Hung(Eff(r.fx))
  <2>1. Eff(cut.fx) \cup S1 \subseteq Eff(r.fx) BY <1>9, <1>10
  <2>2. Hung(Eff(cut.fx) \cup S1) = Hung(Eff(cut.fx)) \cup CcidsOf(m, op) BY <1>5, HungIs
  <2>3. Hung(Eff(cut.fx) \cup S1) \subseteq Hung(Eff(r.fx)) BY <2>1 DEF Hung
  <2> QED BY <2>2, <2>3
<1>12. /\ o.state = cut.m.state /\ o.direction = cut.m.direction /\ o.dialed = cut.m.dialed
       /\ \A j \in LegId : /\ o.legs[j].ccid = cut.m.legs[j].ccid
                           /\ o.legs[j].status = IF j \in op THEN "dead" ELSE cut.m.legs[j].status
  BY <1>3, SetStatusIs DEF o
<1>13. \A j \in op : m.legs[j].ccid \in CcidsOf(m, op) \cup {NoLeg} BY DEF CcidsOf
<1>14. GivesUp(m, o, Hung(Eff(r.fx)))
  <2>1. Lessens(n, cut.m, Hung(Eff(r.fx))) BY <1>3, <1>11, LessensMore DEF GivesUp
  <2>2. Lessens(m, cut.m, Hung(Eff(r.fx))) BY <2>1, <1>2 DEF Lessens
  <2>3. Lessens(m, o, Hung(Eff(r.fx))) BY <2>2, <1>11, <1>12, <1>13 DEF Lessens
  <2> QED BY <2>3, <1>2, <1>3, <1>12 DEF GivesUp
<1>15. Quieted(o)
  <2>1. Silent(o) BY <1>3, <1>12 DEF Silent, LegsWith
  <2>2. ASSUME o.direction = "outbound" PROVE answeredPlacer(o) = {}
    <3>1. op = {j \in LegId : m.legs[j].status = "answered" /\ m.legs[j].ccid # NoLeg}
      BY <2>2, <1>2, <1>3, <1>12 DEF op, PlacerToReap, answeredPlacer, LegsWith, GivesUp
    <3>2. \A j \in LegId : /\ cut.m.legs[j].ccid = m.legs[j].ccid
                           /\ cut.m.legs[j].status = "answered" => m.legs[j].status = "answered"
      BY <1>2, <1>3 DEF GivesUp, Lessens
    <3>3. \A j \in LegId : o.legs[j].status = "answered" => o.legs[j].ccid = NoLeg
      BY <3>1, <3>2, <1>12
    <3> QED BY <3>3 DEF answeredPlacer, LegsWith
  <2> QED BY <2>1, <2>2 DEF Quieted
<1> QED BY <1>1, <1>3, <1>12, <1>14, <1>15 DEF r

(***************************************************************************)
(* What an event does to the books.                                        *)
(***************************************************************************)
AnsweredHooks == {"member-leg-answered", "outbound-placer-answered"}
HangupHooks   == {"member-leg-hangup", "outbound-placer-hangup"}

\* The legs an event may enter into the books, and those it says are gone.
Learned(ev) ==
  IF \/ ev.type \in AnsweredHooks \cup HangupHooks
     \/ ev.type = "dial-outcome" /\ ev.outcome = "ccid"
  THEN {ev.leg} ELSE {}

Told(ev) ==
  IF ev.type \in HangupHooks \/ (ev.type = "member-probe-outcome" /\ ~ev.ok)
  THEN {ev.leg} ELSE {}

\* What holds of session and event when it is reduced: only inbound calls are in
\* voicemail, nobody rings any more when the greeting ends, and a dial tells of
\* a record that still waits for it.
Ready(m, ev) ==
  /\ m.state \in {"voicemail_greeting", "voicemail_recording"} => m.direction = "inbound"
  /\ ev.type = "speak-ended" /\ m.state = "voicemail_greeting" => Silent(m)
  /\ ev.type = "dial-outcome" /\ ev.outcome = "ccid"
       => Awaited(m, ev.leg) \/ m.legs[ev.leg].ccid # NoLeg

\* A caller who is sent to the greeting is answered for it, which silences the
\* phones.
GreetStep(m, ev, r) ==
  r.m.state = "voicemail_greeting"
    => \/ AnswerVm \in Eff(r.fx)
       \/ /\ m.state = "voicemail_greeting" /\ (Silent(m) => Silent(r.m))
          /\ ev.type = "vm-answer-outcome" => Silent(r.m)

\* The books stay in order, they learn only of legs the event tells of, whatever
\* is given up is hung up, and nobody rings anew.
LegStep(m, ev, r) ==
  /\ Books(r.m)
  /\ Known(r.m) \subseteq Known(m) \cup Learned(ev)
  /\ GaveUp(r.m) \subseteq GaveUp(m) \cup Told(ev) \cup Hung(Eff(r.fx))
  /\ r.m.state \in Presenting => r.m.state = m.state /\ m.dialed <= r.m.dialed
  /\ GreetStep(m, ev, r)

\* A handler that only gives legs up: the session stays where it was, goes to the
\* greeting, falls silent, or is a placed call that is answered.
LEMMA StepGivesUp ==
  ASSUME NEW m, MachineOK(m), Books(m), NEW ev, NEW r, NEW T, GivesUp(m, r.m, T),
         T \subseteq Told(ev) \cup Hung(Eff(r.fx)),
         \/ /\ r.m.state = m.state
            /\ m.state = "voicemail_greeting" => ev.type # "vm-answer-outcome" \/ Silent(r.m)
         \/ r.m.state = "voicemail_greeting" /\ AnswerVm \in Eff(r.fx)
         \/ r.m.state \notin Presenting \cup {"voicemail_greeting"} /\ Quieted(r.m)
         \/ r.m.state = "answered" /\ m.direction = "outbound"
  PROVE  LegStep(m, ev, r)
<1>1. /\ OneRecord(r.m) /\ Bare(r.m) /\ Known(r.m) = Known(m)
      /\ GaveUp(r.m) \subseteq GaveUp(m) \cup T
      /\ Silent(m) => Silent(r.m)
      /\ answeredPlacer(r.m) \subseteq answeredPlacer(m)
  BY LessensBooks DEF GivesUp, Books
<1>2. Hushed(r.m)
  BY <1>1 DEF GivesUp, Books, Hushed, Quieted, isTerminal, TerminalStates
<1>3. m.dialed <= r.m.dialed BY DEF GivesUp, MachineOK, SessionMachine
<1>4. r.m.state \in Presenting => r.m.state = m.state BY DEF Presenting
<1>5. GreetStep(m, ev, r) BY <1>1 DEF GreetStep
<1> QED BY <1>1, <1>2, <1>3, <1>4, <1>5 DEF LegStep, Books

\* A handler that leaves legs and state alone.
LEMMA StepIdle ==
  ASSUME NEW m, MachineOK(m), Books(m), NEW ev, NEW r, r.m.legs = m.legs, r.m.state = m.state,
         r.m.direction = m.direction, r.m.dialed = m.dialed,
         m.state = "voicemail_greeting" => ev.type # "vm-answer-outcome"
  PROVE  LegStep(m, ev, r)
<1>1. GivesUp(m, r.m, {}) BY GivesUpNone
<1> QED BY <1>1, StepGivesUp

\* No step at all.
LEMMA StepNone ==
  ASSUME NEW m, MachineOK(m), Books(m), NEW ev, NEW fx,
         m.state = "voicemail_greeting" => ev.type # "vm-answer-outcome"
  PROVE  LegStep(m, ev, Result(m, fx)) /\ LegStep(m, ev, NoEffect(m))
<1>1. LegStep(m, ev, Result(m, fx)) BY StepIdle DEF Result
<1>2. LegStep(m, ev, Result(m, <<>>)) BY StepIdle DEF Result
<1> QED BY <1>1, <1>2 DEF NoEffect

\* What is sent to voicemail keeps its legs and asks for the greeting.
LEMMA vmEntryGreets ==
  ASSUME NEW m, MachineOK(m)
  PROVE  LET r == vmEntry(m)
         IN  /\ r.m.state = "voicemail_greeting" /\ AnswerVm \in Eff(r.fx)
             /\ r.m.legs = m.legs /\ r.m.direction = m.direction /\ r.m.dialed = m.dialed
             /\ Lists(r.fx, Eff(r.fx))
<1> DEFINE T == {Mirror([state |-> "voicemail_greeting"]), Clear("ring"), Clear("ring-step"),
                 AnswerVm, PushCallEnd("voicemail")}
           r == vmEntry(m)
<1>1. Lists(r.fx, T) BY Lists5 DEF vmEntry, Result
<1>2. Lists(r.fx, Eff(r.fx)) /\ AnswerVm \in Eff(r.fx) BY <1>1 DEF Lists
<1>3. r.m.state = "voicemail_greeting" /\ r.m.legs = m.legs /\ r.m.direction = m.direction
        /\ r.m.dialed = m.dialed
  BY DEF vmEntry, Result, MachineOK, SessionMachine
<1> QED BY <1>2, <1>3

\* Legs are given up and the ladder is asked.
LEMMA StepLadder ==
  ASSUME NEW m, MachineOK(m), Books(m), NEW ev, ev.type # "vm-answer-outcome",
         NEW n, MachineOK(n), NEW T, GivesUp(m, n, T), n.state = m.state,
         NEW r, r.m = runAvenueLadder(n).m, Eff(runAvenueLadder(n).fx) \subseteq Eff(r.fx),
         T \subseteq Told(ev) \cup Hung(Eff(r.fx))
  PROVE  LegStep(m, ev, r)
<1>1. CASE runAvenueLadder(n) = NoEffect(n)
  <2>1. r.m = n BY <1>1 DEF NoEffect, Result
  <2> QED BY <2>1, StepGivesUp
<1>2. CASE runAvenueLadder(n) = vmEntry(n)
  <2>1. /\ r.m.state = "voicemail_greeting" /\ AnswerVm \in Eff(r.fx)
        /\ r.m.legs = n.legs /\ r.m.direction = n.direction /\ r.m.dialed = n.dialed
    BY <1>2, vmEntryGreets
  <2>2. GivesUp(m, r.m, T) BY <2>1 DEF GivesUp, Lessens
  <2> QED BY <2>1, <2>2, StepGivesUp
<1> QED BY <1>1, <1>2 DEF runAvenueLadder

\* Legs are given up and the session ends.
LEMMA StepEnds ==
  ASSUME NEW m, MachineOK(m), Books(m), NEW ev,
         NEW n, MachineOK(n), NEW T, GivesUp(m, n, T),
         NEW target \in TerminalStates, NEW merged, NEW reason, NEW extra,
         NEW r, r.m = terminalize(n, target, merged, reason, extra).m,
         Eff(terminalize(n, target, merged, reason, extra).fx) \subseteq Eff(r.fx),
         T \subseteq Told(ev) \cup Hung(Eff(r.fx))
  PROVE  LegStep(m, ev, r)
<1> DEFINE t == terminalize(n, target, merged, reason, extra)
<1>1. t.m.state = target /\ GivesUp(n, t.m, Hung(Eff(t.fx))) /\ Quieted(t.m)
  BY terminalizeGivesUp
<1>2. r.m = t.m /\ Eff(t.fx) \subseteq Eff(r.fx) OBVIOUS
<1> HIDE DEF t
<1>3. Hung(Eff(t.fx)) \subseteq Hung(Eff(r.fx)) BY <1>2 DEF Hung
<1>4. GivesUp(m, r.m, T \cup Hung(Eff(t.fx))) BY <1>1, <1>2, GivesUpTwice
<1>5. target \notin Presenting \cup {"voicemail_greeting"} BY DEF Presenting, TerminalStates
<1> QED BY <1>1, <1>2, <1>3, <1>4, <1>5, StepGivesUp

\* Nothing but the end.
LEMMA StepEndsAlone ==
  ASSUME NEW m, MachineOK(m), Books(m), NEW ev,
         NEW target \in TerminalStates, NEW merged, NEW reason, NEW extra
  PROVE  LegStep(m, ev, terminalize(m, target, merged, reason, extra))
<1>1. GivesUp(m, m, {}) BY GivesUpNone
<1> DEFINE r == terminalize(m, target, merged, reason, extra)
<1>2. r.m = terminalize(m, target, merged, reason, extra).m
        /\ Eff(terminalize(m, target, merged, reason, extra).fx) \subseteq Eff(r.fx)
        /\ {} \subseteq Told(ev) \cup Hung(Eff(r.fx))
  OBVIOUS
<1> QED BY <1>1, <1>2, StepEnds

\* A leg that is found is the record of its call control id, and one that is not
\* found has none.
LEMMA FindLegIs ==
  ASSUME NEW m, NEW c
  PROVE  LET k == FindLeg(m, c)
         IN  /\ k # NoLeg => k \in LegId /\ m.legs[k].ccid = c
             /\ k = NoLeg => \A i \in LegId : m.legs[i].ccid # c
<1> DEFINE found == {i \in LegId : m.legs[i].ccid = c}
<1>1. CASE found = {} BY <1>1 DEF FindLeg
<1>2. CASE found # {}
  <2>1. found \in SUBSET Nat BY DEF LegId
  <2>2. First(found) \in found BY <1>2, <2>1, FirstIn
  <2>3. FindLeg(m, c) = First(found) BY <1>2 DEF FindLeg
  <2>4. First(found) # NoLeg BY <2>2 DEF LegId, NoLeg
  <2> QED BY <2>2, <2>3, <2>4
<1> QED BY <1>1, <1>2

\* What stamping a call control id leaves alone.
LEMMA StampIsAt ==
  ASSUME NEW m, MachineOK(m), NEW i \in LegId, NEW c
  PROVE  LET n == Stamp(m, i, c)
         IN  /\ n.state = m.state /\ n.direction = m.direction /\ n.dialed = m.dialed
             /\ \A j \in LegId : /\ n.legs[j].status = m.legs[j].status
                                 /\ n.legs[j].ccid = IF j = i THEN c ELSE m.legs[j].ccid
<1> DEFINE n == Stamp(m, i, c)
<1>1. m.legs \in [LegId -> Leg] BY DEF MachineOK, SessionMachine
<1>2. /\ n.state = m.state /\ n.direction = m.direction /\ n.dialed = m.dialed
      /\ n.legs = [m.legs EXCEPT ![i].ccid = c]
  BY DEF Stamp, MachineOK, SessionMachine
<1> HIDE DEF n
<1>3. \A j \in LegId : /\ n.legs[j].status = m.legs[j].status
                       /\ n.legs[j].ccid = IF j = i THEN c ELSE m.legs[j].ccid
  BY <1>1, <1>2 DEF Leg
<1> QED BY <1>2, <1>3 DEF n

\* The record k of n is the one of the leg c and has the status st; the others
\* are those of m.
Enters(m, n, k, c, st) ==
  /\ k \in LegId /\ c \in LegId /\ st \notin {"unused", "ambiguous"}
  /\ n.direction = m.direction /\ n.dialed = m.dialed
  /\ n.legs[k].ccid = c /\ n.legs[k].status = st
  /\ \A j \in LegId \ {k} : /\ m.legs[j].ccid # c /\ n.legs[j].ccid = m.legs[j].ccid
                            /\ n.legs[j].status = m.legs[j].status

\* What that does to the books.
LEMMA EntersBooks ==
  ASSUME NEW m, NEW n, NEW k, NEW c, NEW st, Enters(m, n, k, c, st), OneRecord(m), Bare(m)
  PROVE  /\ OneRecord(n) /\ Bare(n) /\ Known(n) \subseteq Known(m) \cup {c}
         /\ GaveUp(n) \subseteq GaveUp(m) \cup (IF st \in {"canceling", "dead"} THEN {c} ELSE {})
<1>1. OneRecord(n) BY DEF Enters, OneRecord
<1>2. Bare(n) BY DEF Enters, Bare
<1>3. Known(n) \subseteq Known(m) \cup {c} BY DEF Enters, Known, CcidsOf
<1>4. GaveUp(n) \subseteq GaveUp(m) \cup (IF st \in {"canceling", "dead"} THEN {c} ELSE {})
  BY DEF Enters, GaveUp, CcidsOf, LegsWith
<1> QED BY <1>1, <1>2, <1>3, <1>4

\* A record is entered while phones ring, or on a placed call that goes on.
LEMMA StepEnters ==
  ASSUME NEW m, MachineOK(m), Books(m), NEW ev, NEW n, NEW k, NEW c, NEW st,
         Enters(m, n, k, c, st), c \in Learned(ev),
         st \in {"canceling", "dead"} => c \in GaveUp(m) \cup Told(ev),
         NEW r, r.m.legs = n.legs, r.m.direction = m.direction, r.m.dialed = m.dialed,
         \/ r.m.state = m.state /\ m.state \in Presenting
         \/ /\ r.m.state = m.state /\ m.direction = "outbound"
            /\ ~isTerminal(m.state) /\ m.state # "voicemail_greeting"
         \/ r.m.state = "voicemail_greeting" /\ AnswerVm \in Eff(r.fx)
  PROVE  LegStep(m, ev, r)
<1>1. /\ OneRecord(n) /\ Bare(n) /\ Known(n) \subseteq Known(m) \cup {c}
      /\ GaveUp(n) \subseteq GaveUp(m) \cup (IF st \in {"canceling", "dead"} THEN {c} ELSE {})
  BY EntersBooks DEF Books
<1>2. OneRecord(r.m) /\ Bare(r.m) BY <1>1 DEF OneRecord, Bare
<1>3. Known(r.m) \subseteq Known(m) \cup Learned(ev) BY <1>1 DEF Known, CcidsOf
<1>4. GaveUp(r.m) \subseteq GaveUp(m) \cup Told(ev) BY <1>1 DEF GaveUp, CcidsOf, LegsWith
<1>5. Hushed(r.m) BY DEF Hushed, Presenting, isTerminal, TerminalStates
<1>6. m.dialed <= r.m.dialed BY DEF MachineOK, SessionMachine
<1>7. r.m.state \in Presenting => r.m.state = m.state BY DEF Presenting
<1>8. GreetStep(m, ev, r) BY DEF GreetStep, Presenting
<1> QED BY <1>2, <1>3, <1>4, <1>5, <1>6, <1>7, <1>8 DEF LegStep, Books

\* at is the session with the record of the webhook's leg, found or adopted, if
\* there is one.
Locates(m, ev, b, at) ==
  LET was == m.legs[at.leg].status
  IN  /\ MachineOK(at.m)
      /\ at.leg = NoLeg => at.m = m
      /\ at.leg # NoLeg
           => /\ at.leg \in LegId
              /\ at.m.legs[at.leg].status = was
              /\ \A st : st \notin {"unused", "ambiguous"}
                    => Enters(m, SetStatus(at.m, {at.leg}, st), at.leg, ev.leg, st)
              /\ at.m.state = m.state
              /\ \/ at.m = m /\ m.legs[at.leg].ccid = ev.leg /\ was \notin {"unused", "ambiguous"}
                 \/ b /\ m.legs[at.leg].ccid = NoLeg /\ was \in {"dialing", "ambiguous"}

\* The record of a webhook's leg.
LEMMA LocatedEnters ==
  ASSUME NEW m, MachineOK(m), OneRecord(m), Bare(m), NEW ev, ev.leg \in LegId, NEW b \in BOOLEAN
  PROVE  Locates(m, ev, b, Located(m, ev, b))
<1> DEFINE at  == Located(m, ev, b)
           own == FindLeg(m, ev.leg)
           new == Adoptable(m, ev.user)
           was == m.legs[at.leg].status
           k   == First(new)
<1>0. MachineOK(at.m) BY LocatedIs
<1>1. /\ own # NoLeg => own \in LegId /\ m.legs[own].ccid = ev.leg
      /\ own = NoLeg => \A i \in LegId : m.legs[i].ccid # ev.leg
  BY FindLegIs
<1>2. ev.leg # NoLeg BY DEF LegId, NoLeg
<1>3. CASE own # NoLeg
  <2>1. at.m = m /\ at.leg = own BY <1>3 DEF Located
  <2>2. \A j \in LegId \ {own} : m.legs[j].ccid # ev.leg BY <1>1, <1>2, <1>3 DEF OneRecord
  <2>3. was \notin {"unused", "ambiguous"} BY <1>1, <1>2, <1>3, <2>1 DEF Bare
  <2>4. ASSUME NEW st, st \notin {"unused", "ambiguous"}
        PROVE  Enters(m, SetStatus(m, {own}, st), own, ev.leg, st)
    <3> DEFINE n == SetStatus(m, {own}, st)
    <3>1. /\ n.state = m.state /\ n.direction = m.direction /\ n.dialed = m.dialed
          /\ \A j \in LegId : /\ n.legs[j].ccid = m.legs[j].ccid
                              /\ n.legs[j].status = IF j \in {own} THEN st ELSE m.legs[j].status
      BY SetStatusIs
    <3> HIDE DEF n, own
    <3>2. Enters(m, n, own, ev.leg, st) BY <1>1, <1>3, <2>2, <2>4, <3>1 DEF Enters
    <3> QED BY <3>2 DEF n
  <2> QED BY <1>0, <1>1, <1>3, <2>1, <2>3, <2>4 DEF Locates
<1>4. CASE own = NoLeg /\ b /\ new # {}
  <2>1. k \in new
    <3>1. new \in SUBSET Nat BY DEF Adoptable, LegId
    <3> QED BY <1>4, <3>1, FirstIn
  <2>2. k \in LegId /\ m.legs[k].ccid = NoLeg /\ m.legs[k].status \in {"dialing", "ambiguous"}
    BY <2>1 DEF Adoptable
  <2>3. at.m = Stamp(m, k, ev.leg) /\ at.leg = k BY <1>4 DEF Located
  <2>4. k # NoLeg BY <2>2 DEF LegId, NoLeg
  <2> HIDE DEF own, new, k, at
  <2>5. /\ at.m.state = m.state /\ at.m.direction = m.direction /\ at.m.dialed = m.dialed
        /\ \A j \in LegId : /\ at.m.legs[j].status = m.legs[j].status
                            /\ at.m.legs[j].ccid = IF j = k THEN ev.leg ELSE m.legs[j].ccid
    BY <2>2, <2>3, StampIsAt
  <2>6. ASSUME NEW st, st \notin {"unused", "ambiguous"}
        PROVE  Enters(m, SetStatus(at.m, {k}, st), k, ev.leg, st)
    <3> DEFINE n == SetStatus(at.m, {k}, st)
    <3>1. /\ n.state = at.m.state /\ n.direction = at.m.direction /\ n.dialed = at.m.dialed
          /\ \A j \in LegId : /\ n.legs[j].ccid = at.m.legs[j].ccid
                              /\ n.legs[j].status = IF j \in {k} THEN st ELSE at.m.legs[j].status
      BY <1>0, SetStatusIs
    <3> HIDE DEF n
    <3>2. Enters(m, n, k, ev.leg, st) BY <1>1, <1>4, <2>2, <2>5, <2>6, <3>1 DEF Enters
    <3> QED BY <3>2 DEF n
  <2> QED BY <1>0, <1>4, <2>2, <2>3, <2>4, <2>5, <2>6 DEF at, Locates
<1>5. CASE own = NoLeg /\ ~(b /\ new # {})
  <2>1. at.m = m /\ at.leg = NoLeg BY <1>5 DEF Located
  <2> QED BY <1>0, <2>1 DEF Locates
<1>6. Locates(m, ev, b, at) BY <1>3, <1>4, <1>5 DEF Locates
<1> QED BY <1>6

\* A member's leg answered.
LEMMA reduceMemberAnsweredLegs ==
  ASSUME NEW m, MachineOK(m), Books(m), NEW ev, ev.type = "member-leg-answered", ev.leg \in LegId
  PROVE  LegStep(m, ev, reduceMemberAnswered(m, ev))
<1> DEFINE b       == m.state = "ringing"
           at      == Located(m, ev, b)
           leg     == at.leg
           was     == m.legs[leg].status
           revived == leg # NoLeg /\ m.legs[leg].ccid = NoLeg /\ was = "ambiguous"
           n       == SetStatus(at.m, IF revived THEN {leg} ELSE {}, "ringing")
           r       == reduceMemberAnswered(m, ev)
<1>1. b \in BOOLEAN /\ OneRecord(m) /\ Bare(m) BY DEF Books
<1>2. /\ MachineOK(at.m)
      /\ leg = NoLeg => at.m = m
      /\ leg # NoLeg
           => /\ leg \in LegId /\ at.m.legs[leg].status = was
              /\ \A st : st \notin {"unused", "ambiguous"}
                    => Enters(m, SetStatus(at.m, {leg}, st), leg, ev.leg, st)
              /\ at.m.state = m.state
              /\ \/ at.m = m /\ m.legs[leg].ccid = ev.leg /\ was \notin {"unused", "ambiguous"}
                 \/ b /\ m.legs[leg].ccid = NoLeg /\ was \in {"dialing", "ambiguous"}
  <2>1. Locates(m, ev, b, at) BY <1>1, LocatedEnters
  <2> QED BY <2>1 DEF Locates
<1>3. ev.leg \in Learned(ev) /\ ev.leg # NoLeg BY DEF Learned, AnsweredHooks, LegId, NoLeg
<1>4. MachineOK(n) /\ n.state = at.m.state BY <1>2, SetStatusOK, SetStatusIs DEF LegStatus
<1>5. \/ leg = NoLeg /\ r = HangupStray(m, ev.leg)
      \/ leg # NoLeg /\ r.m = n
      \/ leg # NoLeg /\ n.state = "ringing" /\ r.m = [n EXCEPT !.answerIntent = ev.user]
  BY DEF reduceMemberAnswered, HangupStray, AnswerFor, NoEffect, Result, n, at
<1>6. r.m = [n EXCEPT !.answerIntent = ev.user] => /\ r.m.legs = n.legs /\ r.m.state = n.state
        /\ r.m.direction = n.direction /\ r.m.dialed = n.dialed
  BY <1>4 DEF MachineOK, SessionMachine
<1> SUFFICES LegStep(m, ev, r) OBVIOUS
<1> HIDE DEF at, n, r
<1>7. CASE leg = NoLeg BY <1>5, <1>7, StepNone DEF HangupStray
<1>8. CASE leg # NoLeg /\ m.state # "ringing"
  <2>1. at.m = m /\ ~revived BY <1>2, <1>3, <1>8
  <2>2. GivesUp(m, n, {})
    <3>1. /\ n.direction = m.direction /\ n.dialed = m.dialed
          /\ \A j \in LegId : /\ n.legs[j].ccid = m.legs[j].ccid
                              /\ n.legs[j].status = IF j \in {} THEN "ringing" ELSE m.legs[j].status
      BY <2>1, SetStatusIs DEF n
    <3> QED BY <3>1 DEF GivesUp, Lessens
  <2>3. r.m = n BY <1>2, <1>4, <1>5, <1>8
  <2> QED BY <1>2, <1>4, <1>8, <2>2, <2>3, StepGivesUp
<1>9. CASE leg # NoLeg /\ m.state = "ringing"
  <2> DEFINE st == IF was = "ambiguous" THEN "ringing" ELSE was
             e  == SetStatus(at.m, {leg}, st)
  <2>1. Enters(m, e, leg, ev.leg, st) BY <1>2, <1>9
  <2>2. Enters(m, n, leg, ev.leg, st)
    <3>1. /\ n.direction = at.m.direction /\ n.dialed = at.m.dialed
          /\ \A j \in LegId :
                /\ n.legs[j].ccid = at.m.legs[j].ccid
                /\ n.legs[j].status = IF j \in (IF revived THEN {leg} ELSE {}) THEN "ringing"
                                      ELSE at.m.legs[j].status
      BY <1>2, SetStatusIs DEF n
    <3>2. /\ e.direction = at.m.direction /\ e.dialed = at.m.dialed
          /\ \A j \in LegId : /\ e.legs[j].ccid = at.m.legs[j].ccid
                              /\ e.legs[j].status = IF j \in {leg} THEN st ELSE at.m.legs[j].status
      BY <1>2, SetStatusIs
    <3>3. revived => st = "ringing" OBVIOUS
    <3>4. ~revived => st = at.m.legs[leg].status BY <1>2, <1>3, <1>9
    <3> HIDE DEF e, st, revived, was, leg
    <3>5. \A j \in LegId : n.legs[j].ccid = e.legs[j].ccid /\ n.legs[j].status = e.legs[j].status
      BY <3>1, <3>2, <3>3, <3>4
    <3> QED BY <2>1, <3>1, <3>2, <3>5 DEF Enters
  <2>3. st \in {"canceling", "dead"} => ev.leg \in GaveUp(m) \cup Told(ev)
    BY <1>2, <1>3, <1>9 DEF GaveUp, CcidsOf, LegsWith
  <2>4. /\ r.m.legs = n.legs /\ r.m.direction = n.direction /\ r.m.dialed = n.dialed
        /\ r.m.state = m.state
    BY <1>2, <1>4, <1>5, <1>6, <1>9
  <2>5. r.m.direction = m.direction /\ r.m.dialed = m.dialed BY <2>2, <2>4 DEF Enters
  <2> HIDE DEF st, e, leg
  <2> QED BY <1>3, <1>9, <2>2, <2>3, <2>4, <2>5, StepEnters DEF Presenting
<1> QED BY <1>7, <1>8, <1>9

\* A member's leg hung up.
LEMMA reduceMemberHangupLegs ==
  ASSUME NEW m, MachineOK(m), Books(m), NEW ev, ev.type = "member-leg-hangup", ev.leg \in LegId
  PROVE  LegStep(m, ev, reduceMemberHangup(m, ev))
<1> DEFINE b    == m.state = "ringing"
           at   == Located(m, ev, b)
           leg  == at.leg
           dead == SetStatus(at.m, {leg}, "dead")
           r    == reduceMemberHangup(m, ev)
<1>1. b \in BOOLEAN /\ OneRecord(m) /\ Bare(m) BY DEF Books
<1>2. /\ MachineOK(at.m)
      /\ leg # NoLeg
           => /\ leg \in LegId
              /\ \A st : st \notin {"unused", "ambiguous"}
                    => Enters(m, SetStatus(at.m, {leg}, st), leg, ev.leg, st)
              /\ at.m.state = m.state
              /\ (at.m = m /\ m.legs[leg].ccid = ev.leg) \/ b
  <2>1. Locates(m, ev, b, at) BY <1>1, LocatedEnters
  <2> QED BY <2>1 DEF Locates
<1>3. ev.leg \in Learned(ev) /\ ev.leg \in Told(ev) BY DEF Learned, Told, HangupHooks
<1>4. MachineOK(dead) /\ dead.state = at.m.state BY <1>2, SetStatusOK, SetStatusIs DEF LegStatus
<1>5. leg # NoLeg => Enters(m, dead, leg, ev.leg, "dead") BY <1>2
<1>6. /\ leg = NoLeg => r = NoEffect(m)
      /\ leg # NoLeg /\ m.state = "ringing" => r = runAvenueLadder(dead)
      /\ leg # NoLeg /\ m.state # "ringing"
           => r.m \in {dead, [dead EXCEPT !.ownerLegDead = ev.user],
                       [dead EXCEPT !.ownerLegDead = NoUser]}
  BY DEF reduceMemberHangup, ownerDeathTeardown, NoEffect, Result, dead, at
<1>7. \A u : LET n == [dead EXCEPT !.ownerLegDead = u]
             IN  n.legs = dead.legs /\ n.state = dead.state /\ n.direction = dead.direction
                   /\ n.dialed = dead.dialed
  BY <1>4 DEF MachineOK, SessionMachine
<1> SUFFICES LegStep(m, ev, r) OBVIOUS
<1> HIDE DEF at, dead, r
<1>8. CASE leg = NoLeg BY <1>6, <1>8, StepNone
<1>9. CASE leg # NoLeg /\ m.state # "ringing"
  <2>1. at.m = m /\ m.legs[leg].ccid = ev.leg BY <1>2, <1>9
  <2>2. GivesUp(m, dead, CcidsOf(m, {leg})) BY <2>1, SetStatusGivesUp DEF dead
  <2>3. CcidsOf(m, {leg}) \subseteq Told(ev) BY <1>3, <2>1 DEF CcidsOf
  <2>4. r.m.legs = dead.legs /\ r.m.state = dead.state /\ r.m.direction = dead.direction
          /\ r.m.dialed = dead.dialed
    BY <1>6, <1>7, <1>9
  <2>5. GivesUp(m, r.m, CcidsOf(m, {leg})) BY <2>2, <2>4 DEF GivesUp, Lessens
  <2>6. r.m.state = m.state BY <1>4, <2>1, <2>4
  <2>7. ev.type # "vm-answer-outcome" OBVIOUS
  <2> QED BY <2>3, <2>5, <2>6, <2>7, StepGivesUp
<1>10. CASE leg # NoLeg /\ m.state = "ringing"
  <2>1. dead.direction = m.direction /\ dead.dialed = m.dialed /\ dead.state = m.state
    BY <1>2, <1>4, <1>5, <1>10 DEF Enters
  <2>2. CASE r = NoEffect(dead)
    <3>1. r.m = dead BY <2>2 DEF NoEffect, Result
    <3> QED BY <1>3, <1>5, <1>10, <2>1, <3>1, StepEnters DEF Presenting
  <2>3. CASE r = vmEntry(dead)
    <3>1. /\ r.m.state = "voicemail_greeting" /\ AnswerVm \in Eff(r.fx)
          /\ r.m.legs = dead.legs /\ r.m.direction = dead.direction /\ r.m.dialed = dead.dialed
      BY <1>4, <2>3, vmEntryGreets
    <3> QED BY <1>3, <1>5, <1>10, <2>1, <3>1, StepEnters
  <2> QED BY <1>6, <1>10, <2>2, <2>3 DEF runAvenueLadder
<1> QED BY <1>8, <1>9, <1>10

\* The placer's leg answered,
LEMMA reduceOutboundPlacerAnsweredLegs ==
  ASSUME NEW m, MachineOK(m), Books(m), NEW ev, ev.type = "outbound-placer-answered",
         ev.leg \in LegId, Ready(m, ev)
  PROVE  LegStep(m, ev, reduceOutboundPlacerAnswered(m, ev))
<1> DEFINE at  == Located(m, ev, TRUE)
           leg == at.leg
           n   == SetStatus(at.m, {leg}, "answered")
           r   == reduceOutboundPlacerAnswered(m, ev)
<1>1. OneRecord(m) /\ Bare(m) BY DEF Books
<1>2. /\ MachineOK(at.m)
      /\ leg # NoLeg
           => /\ leg \in LegId
              /\ at.m.legs[leg].status = m.legs[leg].status
              /\ \A st : st \notin {"unused", "ambiguous"}
                    => Enters(m, SetStatus(at.m, {leg}, st), leg, ev.leg, st)
              /\ at.m.state = m.state
              /\ at.m = m \/ m.legs[leg].status \in {"dialing", "ambiguous"}
  <2>1. Locates(m, ev, TRUE, at) BY <1>1, LocatedEnters
  <2> QED BY <2>1 DEF Locates
<1>3. ev.leg \in Learned(ev) BY DEF Learned, AnsweredHooks
<1>4. \/ r.m = m
      \/ m.direction = "outbound" /\ ~isTerminal(m.state) /\ leg # NoLeg /\ r.m = n
  BY <1>2 DEF reduceOutboundPlacerAnswered, HangupStray, NoEffect, Result, n, at
<1> SUFFICES LegStep(m, ev, r) OBVIOUS
<1> HIDE DEF at, n, r
<1>5. n.state = at.m.state BY <1>2, SetStatusIs DEF n
<1>6. CASE r.m = m BY <1>6, StepIdle
<1>7. CASE m.direction = "outbound" /\ ~isTerminal(m.state) /\ leg # NoLeg /\ r.m = n
  <2>1. Enters(m, n, leg, ev.leg, "answered") BY <1>2, <1>7 DEF n
  <2>2. r.m.state = m.state /\ r.m.direction = m.direction /\ r.m.dialed = m.dialed
          /\ r.m.legs = n.legs
    BY <1>2, <1>5, <1>7, <2>1 DEF Enters
  <2>3. m.state # "voicemail_greeting" BY <1>7 DEF Ready
  <2> QED BY <1>3, <1>7, <2>1, <2>2, <2>3, StepEnters
<1> QED BY <1>4, <1>6, <1>7

\* or hung up.
LEMMA reduceOutboundPlacerHangupLegs ==
  ASSUME NEW m, MachineOK(m), Books(m), NEW ev, ev.type = "outbound-placer-hangup", ev.leg \in LegId
  PROVE  LegStep(m, ev, reduceOutboundPlacerHangup(m, ev))
<1> DEFINE ls   == {FindLeg(m, ev.leg)} \ {NoLeg}
           n    == SetStatus(m, ls, "dead")
           over == terminalize(n, "ended_missed", "missed", "null", NoColumns)
           r    == reduceOutboundPlacerHangup(m, ev)
<1>1. MachineOK(n) /\ n.state = m.state BY SetStatusOK, SetStatusIs DEF LegStatus
<1>2. GivesUp(m, n, CcidsOf(m, ls)) BY SetStatusGivesUp
<1>3. CcidsOf(m, ls) \subseteq Told(ev)
  BY FindLegIs DEF CcidsOf, Told, HangupHooks
<1>4. \/ r.m = m
      \/ r.m \in {n, [n EXCEPT !.ownerLegDead = ev.user], [n EXCEPT !.ownerLegDead = NoUser]}
      \/ r = Result(over.m, over.fx \o <<HangupCustomer>>)
  BY DEF reduceOutboundPlacerHangup, ownerDeathTeardown, NoEffect, Result, over, n
<1>5. \A u : LET o == [n EXCEPT !.ownerLegDead = u]
             IN  o.legs = n.legs /\ o.state = n.state /\ o.direction = n.direction
                   /\ o.dialed = n.dialed
  BY <1>1 DEF MachineOK, SessionMachine
<1> SUFFICES LegStep(m, ev, r) OBVIOUS
<1> HIDE DEF n, r, ls
<1>6. CASE r.m = m BY <1>6, StepIdle
<1>7. CASE r.m \in {n, [n EXCEPT !.ownerLegDead = ev.user], [n EXCEPT !.ownerLegDead = NoUser]}
  <2>1. r.m.legs = n.legs /\ r.m.state = n.state /\ r.m.direction = n.direction
          /\ r.m.dialed = n.dialed
    BY <1>5, <1>7
  <2>2. GivesUp(m, r.m, CcidsOf(m, ls)) BY <1>2, <2>1 DEF GivesUp, Lessens
  <2>3. ev.type # "vm-answer-outcome" OBVIOUS
  <2> QED BY <1>1, <1>3, <2>1, <2>2, <2>3, StepGivesUp
<1>8. CASE r = Result(over.m, over.fx \o <<HangupCustomer>>)
  <2>1. Lists(over.fx, Eff(over.fx)) BY <1>1, EndingsIn, terminalizeEffects
  <2> HIDE DEF over
  <2>2. Eff(over.fx) \subseteq Eff(over.fx \o <<HangupCustomer>>) BY <2>1, Lists1, EffParts
  <2>3. r.m = over.m /\ r.fx = over.fx \o <<HangupCustomer>> BY <1>8 DEF Result
  <2>4. Eff(over.fx) \subseteq Eff(r.fx) BY <2>2, <2>3
  <2> QED BY <1>1, <1>2, <1>3, <2>3, <2>4, EndingsIn, StepEnds DEF over
<1> QED BY <1>4, <1>6, <1>7, <1>8

\* The legs hung up between two lists of effects,
LEMMA HungWithin ==
  ASSUME NEW a, NEW b, NEW S, NEW T, Lists(a, S), Lists(b, T), NEW ls \in SUBSET LegId
  PROVE  ls \subseteq Hung(Eff((a \o Hangups(ls)) \o b))
<1> DEFINE H == IF ls # {} THEN {HangupLegs(ls)} ELSE {}
<1>1. Lists(Hangups(ls), H) /\ Hung(H) = ls BY HungHangups
<1> HIDE DEF H
<1>2. Lists(a \o Hangups(ls), S \cup H) BY <1>1, EffParts
<1>3. Hung(Eff((a \o Hangups(ls)) \o b)) = Hung(S \cup H) \cup Hung(T) BY <1>2, HungConcat
<1> QED BY <1>1, <1>3, HungIs

\* and before one.
LEMMA HungFirst ==
  ASSUME NEW b, NEW T, Lists(b, T), NEW ls \in SUBSET LegId
  PROVE  ls \subseteq Hung(Eff(Hangups(ls) \o b)) /\ Eff(b) \subseteq Eff(Hangups(ls) \o b)
<1> DEFINE H == IF ls # {} THEN {HangupLegs(ls)} ELSE {}
<1>1. Lists(Hangups(ls), H) /\ Hung(H) = ls BY HungHangups
<1> HIDE DEF H
<1>2. Hung(Eff(Hangups(ls) \o b)) = Hung(H) \cup Hung(T) BY <1>1, HungConcat
<1>3. Eff(b) \subseteq Eff(Hangups(ls) \o b) BY <1>1, EffParts
<1> QED BY <1>1, <1>2, <1>3

\* The customer's leg answered for a member: the others' legs are hung up.
LEMMA answerWonLegs ==
  ASSUME NEW m, MachineOK(m), Books(m), NEW ev, ev.leg \in LegId
  PROVE  LegStep(m, ev, answerWon(m, ev))
<1> DEFINE losers == {i \in LegsWith(m, {"dialing", "ringing"}) : m.legs[i].ccid # ev.leg}
           winner == {FindLeg(m, ev.leg)} \ {NoLeg}
           n1     == SetStatus(m, losers, "canceling")
           n2     == SetStatus(n1, winner, "answered")
           pre    == << Mirror([state |-> "answered", answered_by_user_id |-> ev.user,
                                answered_at |-> TRUE]), Bridge(ev.leg) >>
           post   == << Clear("ring"), Clear("fanout-settle"), PushCallEnd("answered") >>
           r      == answerWon(m, ev)
<1>1. MachineOK(n1) /\ MachineOK(n2) BY SetStatusOK DEF LegStatus
<1>2. /\ n1.direction = m.direction /\ n1.dialed = m.dialed
      /\ \A j \in LegId :
            /\ n1.legs[j].ccid = m.legs[j].ccid
            /\ n1.legs[j].status = IF j \in losers THEN "canceling" ELSE m.legs[j].status
  BY SetStatusIs
<1>3. /\ n2.direction = n1.direction /\ n2.dialed = n1.dialed
      /\ \A j \in LegId :
            /\ n2.legs[j].ccid = n1.legs[j].ccid
            /\ n2.legs[j].status = IF j \in winner THEN "answered" ELSE n1.legs[j].status
  <2> HIDE DEF n1, winner
  <2> QED BY <1>1, SetStatusIs
<1>4. losers \in SUBSET LegId /\ CcidsOf(m, losers) \in SUBSET LegId
  <2>1. losers \in SUBSET LegId BY LegsWithIn
  <2> QED BY <2>1, CcidsIn
<1>5. r.fx = (pre \o Hangups(CcidsOf(m, losers))) \o post
  BY DEF answerWon, Result
<1>6. CcidsOf(m, losers) \subseteq Hung(Eff(r.fx))
  <2>1. PICK S : Lists(pre, S) BY Lists2
  <2>2. PICK T : Lists(post, T) BY Lists3
  <2> HIDE DEF pre, post, r
  <2> QED BY <1>4, <1>5, <2>1, <2>2, HungWithin
<1>7. /\ r.m.state = "answered" /\ r.m.legs = n2.legs /\ r.m.direction = n2.direction
      /\ r.m.dialed = n2.dialed
  BY <1>1 DEF answerWon, Result, MachineOK, SessionMachine
<1>8. \A j \in LegId : j \in losers <=> m.legs[j].status \in {"dialing", "ringing"}
                                        /\ m.legs[j].ccid # ev.leg
  BY DEF LegsWith
<1>9. \A j \in LegId : m.legs[j].ccid = ev.leg => j \in winner
  <2>1. ev.leg # NoLeg BY DEF LegId, NoLeg
  <2>2. ASSUME NEW j \in LegId, m.legs[j].ccid = ev.leg PROVE j = FindLeg(m, ev.leg)
    <3> DEFINE k == FindLeg(m, ev.leg)
    <3>1. /\ k # NoLeg => k \in LegId /\ m.legs[k].ccid = ev.leg
          /\ k = NoLeg => \A i \in LegId : m.legs[i].ccid # ev.leg
      BY FindLegIs
    <3> HIDE DEF k
    <3>2. k \in LegId /\ m.legs[k].ccid = ev.leg BY <2>2, <3>1
    <3>3. j = k BY <2>1, <2>2, <3>2 DEF Books, OneRecord
    <3> QED BY <3>3 DEF k
  <2>3. NoLeg \notin LegId BY DEF LegId, NoLeg
  <2> QED BY <2>2, <2>3
<1> SUFFICES LegStep(m, ev, r) OBVIOUS
<1> HIDE DEF losers, winner, n1, n2, r
<1>10. OneRecord(r.m) BY <1>2, <1>3, <1>7 DEF Books, OneRecord
<1>11. Bare(r.m) BY <1>2, <1>3, <1>7 DEF Books, Bare
<1>12. Known(r.m) = Known(m) BY <1>2, <1>3, <1>7 DEF Known, CcidsOf
<1>13. GaveUp(r.m) \subseteq GaveUp(m) \cup CcidsOf(m, losers)
  <2>1. ASSUME NEW j \in LegId, r.m.legs[j].status \in {"canceling", "dead"},
               r.m.legs[j].ccid # NoLeg
        PROVE  r.m.legs[j].ccid \in GaveUp(m) \cup CcidsOf(m, losers)
    <3>1. r.m.legs[j].ccid = m.legs[j].ccid BY <1>2, <1>3, <1>7
    <3>2. CASE j \in losers BY <2>1, <3>1, <3>2 DEF CcidsOf
    <3>3. CASE j \notin losers
      <4>1. m.legs[j].status \in {"canceling", "dead"} BY <1>2, <1>3, <1>7, <2>1, <3>3
      <4> QED BY <2>1, <3>1, <4>1 DEF GaveUp, CcidsOf, LegsWith
    <3> QED BY <3>2, <3>3
  <2> QED BY <2>1 DEF GaveUp, CcidsOf, LegsWith
<1>14. Silent(r.m) BY <1>2, <1>3, <1>7, <1>8, <1>9 DEF Silent, LegsWith
<1>15. Hushed(r.m) BY <1>7, <1>14 DEF Hushed, isTerminal, TerminalStates
<1> QED BY <1>6, <1>7, <1>10, <1>11, <1>12, <1>13, <1>15 DEF LegStep, Books, GreetStep, Presenting

\* The customer's leg was not there to be answered: the call is over.
LEMMA answerLostLegs ==
  ASSUME NEW m, MachineOK(m), Books(m), NEW ev, ev.leg \in LegId
  PROVE  LegStep(m, ev, answerLost(m, ev))
<1> DEFINE leg  == FindLeg(m, ev.leg)
           cut  == IF leg # NoLeg /\ m.legs[leg].status # "dead" THEN {leg} ELSE {}
           n    == SetStatus(m, cut, "canceling")
           st   == MissedState(m)
           over == terminalize(n, st, "missed", "missed", NoColumns)
           ls   == IF cut # {} THEN {ev.leg} ELSE {}
           r    == answerLost(m, ev)
<1>1. MachineOK(n) BY SetStatusOK DEF LegStatus
<1>2. GivesUp(m, n, CcidsOf(m, cut)) BY SetStatusGivesUp
<1>3. CcidsOf(m, cut) \subseteq ls BY FindLegIs DEF CcidsOf
<1>4. r.m = over.m /\ r.fx = Hangups(ls) \o over.fx
  BY DEF answerLost, Result, Hangups, When
<1>5. ls \in SUBSET LegId /\ st \in TerminalStates BY EndingsIn
<1> SUFFICES LegStep(m, ev, r) OBVIOUS
<1> HIDE DEF n, cut, ls, st, r
<1>6. Lists(over.fx, Eff(over.fx)) BY <1>1, <1>5, terminalizeEffects
<1> HIDE DEF over
<1>7. ls \subseteq Hung(Eff(r.fx)) /\ Eff(over.fx) \subseteq Eff(r.fx)
  BY <1>4, <1>5, <1>6, HungFirst
<1>8. CcidsOf(m, cut) \subseteq Told(ev) \cup Hung(Eff(r.fx)) BY <1>3, <1>7
<1> QED BY <1>1, <1>2, <1>4, <1>5, <1>7, <1>8, StepEnds DEF over

\* What answering the customer's leg said,
LEMMA reduceAnswerOutcomeLegs ==
  ASSUME NEW m, MachineOK(m), Books(m), NEW ev, ev.type = "answer-outcome", ev.leg \in LegId
  PROVE  LegStep(m, ev, reduceAnswerOutcome(m, ev))
<1>1. ev.type # "vm-answer-outcome" OBVIOUS
<1> QED BY <1>1, StepNone, answerWonLegs, answerLostLegs DEF reduceAnswerOutcome

\* and what the probe of a member's leg.
LEMMA reduceProbeOutcomeLegs ==
  ASSUME NEW m, MachineOK(m), Books(m), NEW ev, ev.type = "member-probe-outcome", ev.leg \in LegId
  PROVE  LegStep(m, ev, reduceProbeOutcome(m, ev))
<1> DEFINE leg == FindLeg(m, ev.leg)
           n   == SetStatus(m, {leg}, "dead")
           r   == reduceProbeOutcome(m, ev)
<1>1. ev.type # "vm-answer-outcome" OBVIOUS
<1>2. \/ r = NoEffect(m)
      \/ r = AnswerFor(m, ev.leg, ev.user)
      \/ leg # NoLeg /\ ~ev.ok /\ r = runAvenueLadder(n)
  BY DEF reduceProbeOutcome
<1>3. MachineOK(n) /\ n.state = m.state BY SetStatusOK, SetStatusIs DEF LegStatus
<1>4. GivesUp(m, n, CcidsOf(m, {leg})) BY SetStatusGivesUp
<1>5. leg # NoLeg /\ ~ev.ok => CcidsOf(m, {leg}) \subseteq Told(ev)
  BY FindLegIs DEF CcidsOf, Told
<1> SUFFICES LegStep(m, ev, r) OBVIOUS
<1> HIDE DEF n, r, leg
<1>6. CASE r = NoEffect(m) BY <1>1, <1>6, StepNone
<1>7. CASE r = AnswerFor(m, ev.leg, ev.user)
  <2>1. r.m.legs = m.legs /\ r.m.state = m.state /\ r.m.direction = m.direction
          /\ r.m.dialed = m.dialed
    BY <1>7 DEF AnswerFor, Result, MachineOK, SessionMachine
  <2> QED BY <1>1, <2>1, StepIdle
<1>8. CASE leg # NoLeg /\ ~ev.ok /\ r = runAvenueLadder(n)
  <2>1. CcidsOf(m, {leg}) \subseteq Told(ev) \cup Hung(Eff(r.fx)) BY <1>5, <1>8
  <2>2. r.m = runAvenueLadder(n).m /\ Eff(runAvenueLadder(n).fx) \subseteq Eff(r.fx) BY <1>8
  <2> QED BY <1>1, <1>3, <1>4, <2>1, <2>2, StepLadder
<1> QED BY <1>2, <1>6, <1>7, <1>8

\* The customer's leg hung up,
LEMMA reduceInboundHangupLegs ==
  ASSUME NEW m, MachineOK(m), Books(m), NEW ev, ev.type = "inbound-hangup",
         ev.tag \in {"untagged", "bri", "vmi"}
  PROVE  LegStep(m, ev, reduceInboundHangup(m, ev))
<1> DEFINE r == reduceInboundHangup(m, ev)
<1>1. ev.type # "vm-answer-outcome" OBVIOUS
<1>2. GivesUp(m, m, {}) /\ MissedState(m) \in TerminalStates /\ "ended_answered" \in TerminalStates
        /\ "ended_missed" \in TerminalStates
  BY GivesUpNone, EndingsIn
<1>3. CASE r = NoEffect(m) BY <1>1, <1>3, StepNone
<1>4. CASE isTerminal(m.state) /\ r = briUpgrade(m, ev)
  <2>1. r.m.legs = m.legs /\ r.m.direction = m.direction /\ r.m.dialed = m.dialed
          /\ r.m.state = "ended_answered"
    <3> DEFINE by == IF m.answerIntent # NoUser THEN StampFromIntent(m) ELSE m
    <3>1. MachineOK(by) BY StampFromIntentIs
    <3>2. by.legs = m.legs /\ by.direction = m.direction /\ by.dialed = m.dialed
      BY DEF StampFromIntent, MachineOK, SessionMachine
    <3>3. r.m = [by EXCEPT !.state = "ended_answered"] BY <1>4 DEF briUpgrade, Result
    <3> HIDE DEF by, r
    <3> QED BY <3>1, <3>2, <3>3 DEF MachineOK, SessionMachine
  <2>2. GivesUp(m, r.m, {}) BY <2>1, GivesUpNone
  <2>3. Quieted(r.m)
    BY <1>4, <2>1 DEF Books, Hushed, Quieted, Silent, answeredPlacer, LegsWith
  <2>4. r.m.state \notin Presenting \cup {"voicemail_greeting"} BY <2>1 DEF Presenting
  <2> HIDE DEF r
  <2>5. LegStep(m, ev, r) BY <2>2, <2>3, <2>4, StepGivesUp
  <2> QED BY <2>5 DEF r
<1>5. CASE r = briHangup(m, ev)
  <2> DEFINE by == IF m.owner = NoUser /\ m.answerIntent # NoUser THEN StampFromIntent(m) ELSE m
             t  == terminalize(by, "ended_answered", ev.merged, "answered", OwnerColumns(by))
  <2>1. MachineOK(by) BY StampFromIntentIs
  <2>2. by.legs = m.legs /\ by.direction = m.direction /\ by.dialed = m.dialed
    BY DEF StampFromIntent, MachineOK, SessionMachine
  <2>3. r = t BY <1>5 DEF briHangup
  <2> HIDE DEF by, r
  <2>4. GivesUp(m, by, {}) BY <2>2, GivesUpNone
  <2>5. r.m = t.m /\ Eff(t.fx) \subseteq Eff(r.fx) /\ {} \subseteq Told(ev) \cup Hung(Eff(r.fx))
    BY <2>3
  <2>6. LegStep(m, ev, r) BY <1>2, <2>1, <2>4, <2>5, StepEnds
  <2> QED BY <2>6 DEF r
<1>6. CASE \/ r = terminalize(m, "ended_missed", ev.merged, "missed", NoColumns)
           \/ r = terminalize(m, "ended_answered", ev.merged, "null", NoColumns)
           \/ r = terminalize(m, "ended_missed", ev.merged, "null", NoColumns)
           \/ r = terminalize(m, MissedState(m), ev.merged, "missed", NoColumns)
  BY <1>2, <1>6, StepEndsAlone
<1> QED BY <1>3, <1>4, <1>5, <1>6 DEF reduceInboundHangup

\* or turned out to be gone.
LEMMA reduceInboundLegGoneLegs ==
  ASSUME NEW m, MachineOK(m), Books(m), NEW ev, ev.type = "inbound-leg-gone"
  PROVE  LegStep(m, ev, reduceInboundLegGone(m))
<1>1. ev.type # "vm-answer-outcome" OBVIOUS
<1> QED BY <1>1, StepNone, StepEndsAlone, EndingsIn DEF reduceInboundLegGone

\* What was spoken ended: nobody rings when the recording starts.
LEMMA reduceSpeakEndedLegs ==
  ASSUME NEW m, MachineOK(m), Books(m), NEW ev, ev.type = "speak-ended", Ready(m, ev)
  PROVE  LegStep(m, ev, reduceSpeakEnded(m))
<1> DEFINE r == reduceSpeakEnded(m)
<1>1. ev.type # "vm-answer-outcome" OBVIOUS
<1>2. CASE m.noticeSpoken \/ m.state # "voicemail_greeting"
  BY <1>1, <1>2, StepNone DEF reduceSpeakEnded
<1>3. CASE ~m.noticeSpoken /\ m.state = "voicemail_greeting"
  <2>1. r.m.legs = m.legs /\ r.m.direction = m.direction /\ r.m.dialed = m.dialed
          /\ r.m.state = "voicemail_recording"
    BY <1>3 DEF reduceSpeakEnded, Result, MachineOK, SessionMachine
  <2>2. GivesUp(m, r.m, {}) BY <2>1, GivesUpNone
  <2>3. Silent(m) /\ m.direction # "outbound" BY <1>3 DEF Ready
  <2>4. Quieted(r.m) BY <2>1, <2>3 DEF Quieted, Silent, LegsWith
  <2>5. r.m.state \notin Presenting \cup {"voicemail_greeting"} BY <2>1 DEF Presenting
  <2> HIDE DEF r
  <2>6. LegStep(m, ev, r) BY <2>2, <2>4, <2>5, StepGivesUp
  <2> QED BY <2>6 DEF r
<1> QED BY <1>2, <1>3

\* The recording was saved.
LEMMA reduceRecordingSavedLegs ==
  ASSUME NEW m, MachineOK(m), Books(m), NEW ev, ev.type = "recording-saved", Ready(m, ev)
  PROVE  LegStep(m, ev, reduceRecordingSaved(m))
<1> DEFINE r == reduceRecordingSaved(m)
<1>1. ev.type # "vm-answer-outcome" OBVIOUS
<1>2. CASE m.state \notin {"voicemail_recording", "ended_missed"}
  BY <1>1, <1>2, StepNone DEF reduceRecordingSaved
<1>3. CASE m.state \in {"voicemail_recording", "ended_missed"}
  <2>1. r.m.legs = m.legs /\ r.m.direction = m.direction /\ r.m.dialed = m.dialed
          /\ r.m.state = "ended_voicemail"
    BY <1>3 DEF reduceRecordingSaved, Result, MachineOK, SessionMachine
  <2>2. GivesUp(m, r.m, {}) BY <2>1, GivesUpNone
  <2>3. Quieted(m)
    BY <1>3 DEF Books, Hushed, Ready, Quieted, isTerminal, TerminalStates
  <2>4. Quieted(r.m) BY <2>1, <2>3 DEF Quieted, Silent, answeredPlacer, LegsWith
  <2>5. r.m.state \notin Presenting \cup {"voicemail_greeting"} BY <2>1 DEF Presenting
  <2> HIDE DEF r
  <2>6. LegStep(m, ev, r) BY <2>2, <2>4, <2>5, StepGivesUp
  <2> QED BY <2>6 DEF r
<1> QED BY <1>2, <1>3

\* What answering the customer for the notice said,
LEMMA reduceNoticeAnswerOutcomeLegs ==
  ASSUME NEW m, MachineOK(m), Books(m), NEW ev, ev.type = "notice-answer-outcome"
  PROVE  LegStep(m, ev, reduceNoticeAnswerOutcome(m, ev))
<1> DEFINE r == reduceNoticeAnswerOutcome(m, ev)
<1>1. ev.type # "vm-answer-outcome" OBVIOUS
<1>2. r.m.legs = m.legs /\ r.m.state = m.state /\ r.m.direction = m.direction
        /\ r.m.dialed = m.dialed
  BY DEF reduceNoticeAnswerOutcome, NoEffect, Result, MachineOK, SessionMachine
<1> HIDE DEF r
<1>3. LegStep(m, ev, r) BY <1>1, <1>2, StepIdle
<1> QED BY <1>3 DEF r

\* and for the greeting: the phones that still ring are silenced.
LEMMA reduceVmAnswerOutcomeLegs ==
  ASSUME NEW m, MachineOK(m), Books(m), NEW ev
  PROVE  LegStep(m, ev, reduceVmAnswerOutcome(m, ev))
<1> DEFINE cut == cancelAllLiveLegs(m)
           r   == reduceVmAnswerOutcome(m, ev)
<1>1. CASE m.state # "voicemail_greeting" BY <1>1, StepNone DEF reduceVmAnswerOutcome
<1>2. CASE m.state = "voicemail_greeting" /\ ~ev.ok
  BY <1>2, StepEndsAlone, EndingsIn DEF reduceVmAnswerOutcome
<1>3. CASE m.state = "voicemail_greeting" /\ ev.ok
  <2>1. /\ cut.m.state = m.state /\ Lists(cut.fx, Eff(cut.fx))
        /\ GivesUp(m, cut.m, Hung(Eff(cut.fx))) /\ Silent(cut.m)
    BY cancelAllLiveLegsGivesUp
  <2>2. r.m = cut.m /\ r.fx = <<Speak("voicemail-greeting")>> \o cut.fx
    BY <1>3 DEF reduceVmAnswerOutcome, Result
  <2> HIDE DEF cut, r
  <2>3. Eff(cut.fx) \subseteq Eff(r.fx)
    <3>1. Lists(<<Speak("voicemail-greeting")>>, {Speak("voicemail-greeting")}) BY Lists1
    <3> QED BY <2>1, <2>2, <3>1, EffParts
  <2>4. Hung(Eff(cut.fx)) \subseteq Told(ev) \cup Hung(Eff(r.fx)) BY <2>3 DEF Hung
  <2>5. GivesUp(m, r.m, Hung(Eff(cut.fx))) /\ r.m.state = m.state /\ Silent(r.m) BY <2>1, <2>2
  <2>6. LegStep(m, ev, r) BY <2>4, <2>5, StepGivesUp
  <2> QED BY <2>6 DEF r
<1> QED BY <1>1, <1>2, <1>3

\* A dial came back: with a call control id for the record that waited, or
\* without one, which gives the record up.
LEMMA reduceDialOutcomeLegs ==
  ASSUME NEW m, MachineOK(m), Books(m), NEW ev, ev.type = "dial-outcome", ev.leg \in LegId,
         Ready(m, ev)
  PROVE  LegStep(m, ev, reduceDialOutcome(m, ev))
<1> DEFINE k      == ev.leg
           st     == IF ev.outcome = "ambiguous" THEN "ambiguous" ELSE "dead"
           at     == Stamp(m, k, k)
           failed == SetStatus(m, {k}, st)
           over   == terminalize(failed, "ended_missed", "missed", "null", NoColumns)
           r      == reduceDialOutcome(m, ev)
<1>1. ev.type # "vm-answer-outcome" OBVIOUS
<1>2. CASE m.legs[k].status = "unused" \/ m.legs[k].ccid # NoLeg
  BY <1>1, <1>2, StepNone DEF reduceDialOutcome
<1>3. CASE m.legs[k].ccid = NoLeg /\ m.legs[k].status # "unused" /\ ev.outcome = "ccid"
  <2> DEFINE n == SetStatus(at, {k}, "ringing")
  <2>1. Awaited(m, k) BY <1>3 DEF Ready
  <2>2. r.m = n /\ n.state = m.state
    <3>1. r.m = n BY <1>3, <2>1 DEF reduceDialOutcome, Awaited, NoEffect, Result
    <3>2. n.state = m.state BY DEF SetStatus, Stamp, MachineOK, SessionMachine
    <3> QED BY <3>1, <3>2
  <2>3. MachineOK(at) BY StampOK
  <2>4. /\ at.direction = m.direction /\ at.dialed = m.dialed
        /\ \A j \in LegId : /\ at.legs[j].status = m.legs[j].status
                            /\ at.legs[j].ccid = IF j = k THEN k ELSE m.legs[j].ccid
    BY StampIsAt
  <2> HIDE DEF at
  <2>5. /\ n.direction = at.direction /\ n.dialed = at.dialed
        /\ \A j \in LegId : /\ n.legs[j].ccid = at.legs[j].ccid
                            /\ n.legs[j].status = IF j \in {k} THEN "ringing" ELSE at.legs[j].status
    BY <2>3, SetStatusIs
  <2> HIDE DEF n, r
  <2>6. \A j \in LegId : m.legs[j].ccid # k
    <3>1. k # NoLeg BY DEF LegId, NoLeg
    <3> QED BY <2>1, <3>1 DEF Awaited, Known, CcidsOf
  <2>7. Enters(m, n, k, k, "ringing") BY <2>4, <2>5, <2>6 DEF Enters
  <2>8. k \in Learned(ev) BY <1>3 DEF Learned
  <2>9. r.m.legs = n.legs /\ r.m.direction = m.direction /\ r.m.dialed = m.dialed
          /\ r.m.state = m.state /\ m.state \in Presenting
    BY <2>1, <2>2, <2>4, <2>5 DEF Awaited
  <2> HIDE DEF k
  <2>10. LegStep(m, ev, r) BY <2>7, <2>8, <2>9, StepEnters
  <2> QED BY <2>10 DEF r
<1>4. CASE m.legs[k].ccid = NoLeg /\ m.legs[k].status # "unused" /\ ev.outcome # "ccid"
  <2>1. MachineOK(failed) BY SetStatusOK DEF LegStatus
  <2>2. /\ failed.state = m.state /\ failed.direction = m.direction /\ failed.dialed = m.dialed
        /\ \A j \in LegId : /\ failed.legs[j].ccid = m.legs[j].ccid
                            /\ failed.legs[j].status = IF j \in {k} THEN st ELSE m.legs[j].status
    BY SetStatusIs
  <2>3. \/ r = runAvenueLadder(failed)
        \/ r = NoEffect(failed)
        \/ r = Result(over.m, over.fx \o <<HangupCustomer>>)
    BY <1>4 DEF reduceDialOutcome
  <2> HIDE DEF failed, r
  <2>4. st \in {"ambiguous", "dead"} OBVIOUS
  <2>5. GivesUp(m, failed, {}) BY <1>4, <2>2, <2>4 DEF GivesUp, Lessens
  <2>6. {} \subseteq Told(ev) \cup Hung(Eff(r.fx)) OBVIOUS
  <2>7. CASE r = runAvenueLadder(failed)
    <3>1. r.m = runAvenueLadder(failed).m /\ Eff(runAvenueLadder(failed).fx) \subseteq Eff(r.fx)
      BY <2>7
    <3>2. LegStep(m, ev, r) BY <1>1, <2>1, <2>2, <2>5, <2>6, <3>1, StepLadder
    <3> QED BY <3>2 DEF r
  <2>8. CASE r = NoEffect(failed)
    <3>1. r.m = failed BY <2>8 DEF NoEffect, Result
    <3>2. LegStep(m, ev, r) BY <1>1, <2>2, <2>5, <2>6, <3>1, StepGivesUp
    <3> QED BY <3>2 DEF r
  <2>9. CASE r = Result(over.m, over.fx \o <<HangupCustomer>>)
    <3>1. Lists(over.fx, Eff(over.fx)) BY <2>1, EndingsIn, terminalizeEffects
    <3> HIDE DEF over
    <3>2. Eff(over.fx) \subseteq Eff(over.fx \o <<HangupCustomer>>) BY <3>1, Lists1, EffParts
    <3>3. r.m = over.m /\ Eff(over.fx) \subseteq Eff(r.fx) BY <2>9, <3>2 DEF Result
    <3>4. LegStep(m, ev, r) BY <2>1, <2>5, <2>6, <3>3, EndingsIn, StepEnds DEF over
    <3> QED BY <3>4 DEF r
  <2> QED BY <2>3, <2>7, <2>8, <2>9
<1> QED BY <1>2, <1>3, <1>4

\* The push settled.
LEMMA reducePushFanoutSettledLegs ==
  ASSUME NEW m, MachineOK(m), Books(m), NEW ev, ev.type = "push-fanout-settled"
  PROVE  LegStep(m, ev, reducePushFanoutSettled(m, ev))
<1> DEFINE n   == [m EXCEPT !.push = @ \ ev.unreachable]
           res == runAvenueLadder(n)
           r   == reducePushFanoutSettled(m, ev)
<1>1. MachineOK(n) BY DEF MachineOK, SessionMachine
<1>2. n.legs = m.legs /\ n.state = m.state /\ n.direction = m.direction /\ n.dialed = m.dialed
  BY DEF MachineOK, SessionMachine
<1>3. r.m = res.m /\ r.fx = <<Clear("fanout-settle")>> \o res.fx
  BY DEF reducePushFanoutSettled, Result
<1> SUFFICES LegStep(m, ev, r) OBVIOUS
<1> HIDE DEF n, r
<1>4. Lists(res.fx, Eff(res.fx)) BY <1>1, runAvenueLadderIs, ListsIs DEF IsResult
<1> HIDE DEF res
<1>5. Eff(res.fx) \subseteq Eff(r.fx)
  <2>1. Lists(<<Clear("fanout-settle")>>, {Clear("fanout-settle")}) BY Lists1
  <2> QED BY <1>3, <1>4, <2>1, EffParts
<1>6. GivesUp(m, n, {}) /\ {} \subseteq Told(ev) \cup Hung(Eff(r.fx)) BY <1>2, GivesUpNone
<1>7. ev.type # "vm-answer-outcome" OBVIOUS
<1>8. r.m = res.m /\ n.state = m.state BY <1>2, <1>3
<1> QED BY <1>1, <1>5, <1>6, <1>7, <1>8, StepLadder DEF res

\* A member declined: the phones of his are hung up.
LEMMA reduceDeclineLegs ==
  ASSUME NEW m, MachineOK(m), Books(m), NEW ev, ev.type = "decline", ev.user \in User
  PROVE  LegStep(m, ev, reduceDecline(m, ev))
<1> DEFINE mine == {i \in liveLegs(m) : m.legs[i].user = ev.user}
           ls   == CcidsOf(m, mine)
           dead == SetStatus(m, mine, "dead")
           n    == [dead EXCEPT !.declined = @ \cup {ev.user}, !.push = @ \ {ev.user},
                                !.queue = @ \ {ev.user}]
           res  == runAvenueLadder(n)
           r    == reduceDecline(m, ev)
<1>1. ev.type # "vm-answer-outcome" OBVIOUS
<1>2. CASE m.state # "ringing" \/ ~wasRingTarget(m, ev.user)
  BY <1>1, <1>2, StepNone DEF reduceDecline
<1>3. CASE ~(m.state # "ringing" \/ ~wasRingTarget(m, ev.user))
  <2>1. r.m = res.m /\ r.fx = Hangups(ls) \o res.fx BY <1>3 DEF reduceDecline, Result
  <2>2. MachineOK(dead) /\ dead.state = m.state BY SetStatusOK, SetStatusIs DEF LegStatus
  <2>3. GivesUp(m, dead, ls) BY SetStatusGivesUp
  <2>4. ls \in SUBSET LegId
    <3>1. mine \in SUBSET LegId BY DEF liveLegs, LegsWith
    <3> QED BY <3>1, CcidsIn
  <2> SUFFICES LegStep(m, ev, r) OBVIOUS
  <2> HIDE DEF r, dead, ls
  <2>5. MachineOK(n)
    BY <2>2 DEF MachineOK, SessionMachine
  <2>6. n.legs = dead.legs /\ n.state = dead.state /\ n.direction = dead.direction
          /\ n.dialed = dead.dialed
    BY <2>2 DEF MachineOK, SessionMachine
  <2> HIDE DEF n
  <2>7. GivesUp(m, n, ls) BY <2>3, <2>6 DEF GivesUp, Lessens
  <2>8. Lists(res.fx, Eff(res.fx)) BY <2>5, runAvenueLadderIs, ListsIs DEF IsResult
  <2> HIDE DEF res
  <2>9. ls \subseteq Hung(Eff(r.fx)) /\ Eff(res.fx) \subseteq Eff(r.fx)
    BY <2>1, <2>4, <2>8, HungFirst
  <2>10. n.state = m.state /\ ls \subseteq Told(ev) \cup Hung(Eff(r.fx)) BY <2>2, <2>6, <2>9
  <2> QED BY <1>1, <2>1, <2>5, <2>7, <2>9, <2>10, StepLadder DEF res
<1> QED BY <1>2, <1>3

\* What a new record leaves alone.
LEMMA PushLegIsAt ==
  ASSUME NEW m, MachineOK(m), m.dialed < MaxLegs, NEW u, NEW b
  PROVE  LET n == PushLeg(m, u, b)
             k == m.dialed + 1
         IN  /\ n.state = m.state /\ n.direction = m.direction /\ n.dialed = k /\ k \in LegId
             /\ n.legs[k].status = "dialing" /\ n.legs[k].ccid = NoLeg
             /\ \A j \in LegId \ {k} : n.legs[j] = m.legs[j]
<1> DEFINE n   == PushLeg(m, u, b)
           k   == m.dialed + 1
           leg == [user |-> u, status |-> "dialing", ccid |-> NoLeg, ringMe |-> b]
<1>1. m.legs \in [LegId -> Leg] /\ m.dialed \in 0 .. MaxLegs /\ MaxLegs \in Nat
  BY MaxLegsAssumption DEF MachineOK, SessionMachine
<1>2. k \in LegId BY <1>1 DEF LegId
<1>3. n = [m EXCEPT !.dialed = @ + 1, !.legs[m.dialed + 1] = leg] BY DEF PushLeg
<1>4. /\ n.state = m.state /\ n.direction = m.direction /\ n.dialed = k
      /\ n.legs = [m.legs EXCEPT ![k] = leg]
  BY <1>3 DEF MachineOK, SessionMachine
<1> HIDE DEF n, k
<1>5. /\ n.legs[k].status = "dialing" /\ n.legs[k].ccid = NoLeg
      /\ \A j \in LegId \ {k} : n.legs[j] = m.legs[j]
  BY <1>1, <1>2, <1>4
<1> QED BY <1>2, <1>4, <1>5 DEF n, k

\* A phone more is rung.
LEMMA StepDials ==
  ASSUME NEW m, MachineOK(m), Books(m), m.state = "ringing", m.dialed < MaxLegs,
         NEW n, MachineOK(n), n.legs = m.legs, n.state = m.state, n.direction = m.direction,
         n.dialed = m.dialed, NEW u, NEW b, NEW ev, NEW r, r.m = PushLeg(n, u, b)
  PROVE  LegStep(m, ev, r)
<1> DEFINE k == n.dialed + 1
<1>1. /\ r.m.state = n.state /\ r.m.direction = n.direction /\ r.m.dialed = k /\ k \in LegId
      /\ r.m.legs[k].status = "dialing" /\ r.m.legs[k].ccid = NoLeg
      /\ \A j \in LegId \ {k} : r.m.legs[j] = n.legs[j]
  BY PushLegIsAt
<1>2. m.dialed <= k BY DEF MachineOK, SessionMachine
<1> HIDE DEF k
<1>3. OneRecord(r.m) BY <1>1 DEF Books, OneRecord
<1>4. Bare(r.m) BY <1>1 DEF Books, Bare
<1>5. Known(r.m) \subseteq Known(m) BY <1>1 DEF Known, CcidsOf
<1>6. GaveUp(r.m) \subseteq GaveUp(m) BY <1>1 DEF GaveUp, CcidsOf, LegsWith
<1>7. Hushed(r.m) BY <1>1 DEF Hushed, isTerminal, TerminalStates
<1>8. GreetStep(m, ev, r) BY <1>1 DEF GreetStep
<1> QED BY <1>1, <1>2, <1>3, <1>4, <1>5, <1>6, <1>7, <1>8 DEF LegStep, Books

\* A member asked to be rung,
LEMMA reduceRingMeLegs ==
  ASSUME NEW m, MachineOK(m), Books(m), NEW ev, ev.type = "ring-me"
  PROVE  LegStep(m, ev, reduceRingMe(m, ev))
<1> DEFINE r == reduceRingMe(m, ev)
<1>1. ev.type # "vm-answer-outcome" OBVIOUS
<1>2. \/ r = NoEffect(m)
      \/ /\ m.state = "ringing" /\ ~(m.dialed >= MaxLegs)
         /\ r = Result(PushLeg(m, ev.user, TRUE), <<Dial(m.dialed + 1, m.dialed + 1)>>)
  BY DEF reduceRingMe
<1> SUFFICES LegStep(m, ev, r) OBVIOUS
<1> HIDE DEF r
<1>3. CASE r = NoEffect(m) BY <1>1, <1>3, StepNone
<1>4. CASE /\ m.state = "ringing" /\ ~(m.dialed >= MaxLegs)
           /\ r = Result(PushLeg(m, ev.user, TRUE), <<Dial(m.dialed + 1, m.dialed + 1)>>)
  <2>1. m.dialed < MaxLegs BY <1>4, MaxLegsAssumption DEF MachineOK, SessionMachine
  <2>2. r.m = PushLeg(m, ev.user, TRUE) BY <1>4 DEF Result
  <2> QED BY <1>4, <2>1, <2>2, StepDials
<1> QED BY <1>2, <1>3, <1>4

\* or it is the next one's turn.
LEMMA reduceAlarmRingStepLegs ==
  ASSUME NEW m, MachineOK(m), Books(m), NEW ev, ev.type = "alarm-ring-step"
  PROVE  LegStep(m, ev, reduceAlarmRingStep(m, ev))
<1> DEFINE waiting == m.queue \ m.declined
           user    == Foremost(m.order, waiting)
           popped  == [m EXCEPT !.queue = waiting \ {user}]
           next    == PushLeg(popped, user, FALSE)
           empty   == [m EXCEPT !.queue = {}]
           r       == reduceAlarmRingStep(m, ev)
<1>1. ev.type # "vm-answer-outcome" OBVIOUS
<1>2. \/ r = NoEffect(m)
      \/ r = runAvenueLadder(empty)
      \/ r = NoEffect(popped)
      \/ m.state = "ringing" /\ ~(m.dialed >= MaxLegs) /\ r.m = next
  BY DEF reduceAlarmRingStep, NoEffect, Result
<1>3. /\ MachineOK(popped)
      /\ popped.legs = m.legs /\ popped.state = m.state /\ popped.direction = m.direction
      /\ popped.dialed = m.dialed
  <2>1. waiting \ {user} \in SUBSET m.queue OBVIOUS
  <2> HIDE DEF waiting, user
  <2> QED BY <2>1 DEF MachineOK, SessionMachine
<1>4. /\ MachineOK(empty)
      /\ empty.legs = m.legs /\ empty.state = m.state /\ empty.direction = m.direction
      /\ empty.dialed = m.dialed
  BY DEF MachineOK, SessionMachine
<1> SUFFICES LegStep(m, ev, r) OBVIOUS
<1> HIDE DEF r, popped, empty, waiting, user
<1>5. CASE r = NoEffect(m) BY <1>1, <1>5, StepNone
<1>6. CASE r = runAvenueLadder(empty)
  <2>1. GivesUp(m, empty, {}) /\ {} \subseteq Told(ev) \cup Hung(Eff(r.fx)) BY <1>4, GivesUpNone
  <2>2. r.m = runAvenueLadder(empty).m /\ Eff(runAvenueLadder(empty).fx) \subseteq Eff(r.fx)
    BY <1>6
  <2> QED BY <1>1, <1>4, <2>1, <2>2, StepLadder
<1>7. CASE r = NoEffect(popped)
  <2>1. r.m = popped BY <1>7 DEF NoEffect, Result
  <2> QED BY <1>1, <1>3, <2>1, StepIdle
<1>8. CASE m.state = "ringing" /\ ~(m.dialed >= MaxLegs) /\ r.m = next
  <2>1. m.dialed < MaxLegs BY <1>8, MaxLegsAssumption DEF MachineOK, SessionMachine
  <2>2. r.m = next BY <1>8
  <2> QED BY <1>3, <1>8, <2>1, <2>2, StepDials
<1> QED BY <1>2, <1>5, <1>6, <1>7, <1>8

\* An owner is named, or an intent kept.
LEMMA IntentLegs ==
  ASSUME NEW m, MachineOK(m), Books(m), NEW ev, ev.type # "vm-answer-outcome"
  PROVE  /\ LegStep(m, ev, reduceSetOwner(m, ev))
         /\ LegStep(m, ev, reduceRegisterIntent(m))
         /\ LegStep(m, ev, reduceClearIntent(m))
<1>1. LegStep(m, ev, reduceSetOwner(m, ev))
  <2> DEFINE r == reduceSetOwner(m, ev)
  <2>1. r.m.legs = m.legs /\ r.m.state = m.state /\ r.m.direction = m.direction
          /\ r.m.dialed = m.dialed
    BY DEF reduceSetOwner, Result, MachineOK, SessionMachine
  <2> HIDE DEF r
  <2>2. LegStep(m, ev, r) BY <2>1, StepIdle
  <2> QED BY <2>2 DEF r
<1>2. LegStep(m, ev, reduceRegisterIntent(m))
  <2> DEFINE r == reduceRegisterIntent(m)
  <2>1. r.m.legs = m.legs /\ r.m.state = m.state /\ r.m.direction = m.direction
          /\ r.m.dialed = m.dialed
    BY DEF reduceRegisterIntent, Result, MachineOK, SessionMachine
  <2> HIDE DEF r
  <2>2. LegStep(m, ev, r) BY <2>1, StepIdle
  <2> QED BY <2>2 DEF r
<1>3. LegStep(m, ev, reduceClearIntent(m))
  <2> DEFINE c  == [m EXCEPT !.intent = FALSE]
             d  == [c EXCEPT !.ownerLegDead = NoUser]
             r  == reduceClearIntent(m)
  <2>1. r.m = d BY DEF reduceClearIntent, ownerDeathTeardown, Result
  <2>2. d.legs = m.legs /\ d.state = m.state /\ d.direction = m.direction /\ d.dialed = m.dialed
    BY DEF MachineOK, SessionMachine
  <2> HIDE DEF r, d
  <2>3. LegStep(m, ev, r) BY <2>1, <2>2, StepIdle
  <2> QED BY <2>3 DEF r
<1> QED BY <1>1, <1>2, <1>3

\* The ring was over,
LEMMA reduceAlarmRingLegs ==
  ASSUME NEW m, MachineOK(m), Books(m), NEW ev, ev.type = "alarm-ring"
  PROVE  LegStep(m, ev, reduceAlarmRing(m))
<1> DEFINE r == reduceAlarmRing(m)
<1>1. ev.type # "vm-answer-outcome" OBVIOUS
<1>2. CASE m.state # "ringing" BY <1>1, <1>2, StepNone DEF reduceAlarmRing
<1>3. CASE m.state = "ringing"
  <2>1. /\ r.m.state = "voicemail_greeting" /\ AnswerVm \in Eff(r.fx)
        /\ r.m.legs = m.legs /\ r.m.direction = m.direction /\ r.m.dialed = m.dialed
    BY <1>3, vmEntryGreets DEF reduceAlarmRing
  <2> HIDE DEF r
  <2>2. GivesUp(m, r.m, {}) BY <2>1, GivesUpNone
  <2>3. LegStep(m, ev, r) BY <2>1, <2>2, StepGivesUp
  <2> QED BY <2>3 DEF r
<1> QED BY <1>2, <1>3

\* or the session too old.
LEMMA reduceAlarmJanitorLegs ==
  ASSUME NEW m, MachineOK(m), Books(m), NEW ev, ev.type = "alarm-janitor"
  PROVE  LegStep(m, ev, reduceAlarmJanitor(m))
<1>1. ev.type # "vm-answer-outcome" OBVIOUS
<1> QED BY <1>1, StepNone, StepEndsAlone, EndingsIn DEF reduceAlarmJanitor

\* The customer of a placed call answered,
LEMMA reduceOutboundAnsweredLegs ==
  ASSUME NEW m, MachineOK(m), Books(m), NEW ev, ev.type = "outbound-answered"
  PROVE  LegStep(m, ev, reduceOutboundAnswered(m))
<1> DEFINE r == reduceOutboundAnswered(m)
<1>1. ev.type # "vm-answer-outcome" OBVIOUS
<1>2. CASE m.direction # "outbound" \/ m.state # "dialing"
  BY <1>1, <1>2, StepNone DEF reduceOutboundAnswered
<1>3. CASE m.direction = "outbound" /\ m.state = "dialing"
  <2>1. r.m = [m EXCEPT !.state = "answered", !.answered = TRUE]
    BY <1>3 DEF reduceOutboundAnswered, Result
  <2>2. r.m.state = "answered" /\ r.m.legs = m.legs /\ r.m.direction = m.direction
          /\ r.m.dialed = m.dialed
    BY <2>1 DEF MachineOK, SessionMachine
  <2> HIDE DEF r
  <2>3. GivesUp(m, r.m, {}) BY <2>2, GivesUpNone
  <2>4. LegStep(m, ev, r) BY <1>3, <2>2, <2>3, StepGivesUp
  <2> QED BY <2>4 DEF r
<1> QED BY <1>2, <1>3

\* or hung up.
LEMMA reduceOutboundHangupLegs ==
  ASSUME NEW m, MachineOK(m), Books(m), NEW ev, ev.type = "outbound-hangup"
  PROVE  LegStep(m, ev, reduceOutboundHangup(m, ev))
<1>1. ev.type # "vm-answer-outcome" OBVIOUS
<1>2. (IF m.answered THEN "ended_answered" ELSE "ended_missed") \in TerminalStates BY EndingsIn
<1> QED BY <1>1, <1>2, StepNone, StepEndsAlone DEF reduceOutboundHangup

\* The members' and the placer's legs.
LEMMA LegEventLegs ==
  ASSUME NEW m, MachineOK(m), Books(m), NEW ev \in Event, Ready(m, ev),
         ev.type \in {"member-leg-answered", "member-leg-hangup", "outbound-placer-answered",
                      "outbound-placer-hangup", "answer-outcome", "member-probe-outcome",
                      "dial-outcome"}
  PROVE  LegStep(m, ev, handle(m, ev))
<1>1. ev.leg \in LegId BY EventFields DEF LegTypes
<1>2. CASE ev.type = "member-leg-answered" BY <1>1, <1>2, reduceMemberAnsweredLegs DEF handle
<1>3. CASE ev.type = "member-leg-hangup" BY <1>1, <1>3, reduceMemberHangupLegs DEF handle
<1>4. CASE ev.type = "outbound-placer-answered"
  BY <1>1, <1>4, reduceOutboundPlacerAnsweredLegs DEF handle
<1>5. CASE ev.type = "outbound-placer-hangup"
  BY <1>1, <1>5, reduceOutboundPlacerHangupLegs DEF handle
<1>6. CASE ev.type = "answer-outcome" BY <1>1, <1>6, reduceAnswerOutcomeLegs DEF handle
<1>7. CASE ev.type = "member-probe-outcome" BY <1>1, <1>7, reduceProbeOutcomeLegs DEF handle
<1>8. CASE ev.type = "dial-outcome" BY <1>1, <1>8, reduceDialOutcomeLegs DEF handle
<1> QED BY <1>2, <1>3, <1>4, <1>5, <1>6, <1>7, <1>8

\* The customer's leg, and what commands to it said.
LEMMA CustomerEventLegs ==
  ASSUME NEW m, MachineOK(m), Books(m), NEW ev \in Event, Ready(m, ev),
         ev.type \in {"inbound-hangup", "outbound-answered", "outbound-hangup", "speak-ended",
                      "recording-saved", "notice-answer-outcome", "vm-answer-outcome",
                      "push-fanout-settled", "inbound-leg-gone"}
  PROVE  LegStep(m, ev, handle(m, ev))
<1>1. ev.type = "inbound-hangup" => ev.tag \in {"untagged", "bri", "vmi"} BY EventFields
<1>2. CASE ev.type = "inbound-hangup" BY <1>1, <1>2, reduceInboundHangupLegs DEF handle
<1>3. CASE ev.type = "outbound-answered" BY <1>3, reduceOutboundAnsweredLegs DEF handle
<1>4. CASE ev.type = "outbound-hangup" BY <1>4, reduceOutboundHangupLegs DEF handle
<1>5. CASE ev.type = "speak-ended" BY <1>5, reduceSpeakEndedLegs DEF handle
<1>6. CASE ev.type = "recording-saved" BY <1>6, reduceRecordingSavedLegs DEF handle
<1>7. CASE ev.type = "notice-answer-outcome" BY <1>7, reduceNoticeAnswerOutcomeLegs DEF handle
<1>8. CASE ev.type = "vm-answer-outcome" BY <1>8, reduceVmAnswerOutcomeLegs DEF handle
<1>9. CASE ev.type = "push-fanout-settled" BY <1>9, reducePushFanoutSettledLegs DEF handle
<1>10. CASE ev.type = "inbound-leg-gone" BY <1>10, reduceInboundLegGoneLegs DEF handle
<1> QED BY <1>2, <1>3, <1>4, <1>5, <1>6, <1>7, <1>8, <1>9, <1>10

\* The requests and the alarms.
LEMMA AskedLegs ==
  ASSUME NEW m, MachineOK(m), Books(m), NEW ev \in Event,
         ev.type \in {"ring-me", "decline", "set-owner", "register-intent", "clear-intent",
                      "alarm-intent-expiry", "alarm-ring", "alarm-janitor", "alarm-ring-step"}
  PROVE  LegStep(m, ev, handle(m, ev))
<1>1. ev.type = "decline" => ev.user \in User BY EventFields
<1>2. CASE ev.type = "ring-me" BY <1>2, reduceRingMeLegs DEF handle
<1>3. CASE ev.type = "decline" BY <1>1, <1>3, reduceDeclineLegs DEF handle
<1>4. CASE ev.type \in {"set-owner", "register-intent", "clear-intent", "alarm-intent-expiry"}
  <2>1. ev.type # "vm-answer-outcome" BY <1>4
  <2> QED BY <1>4, <2>1, IntentLegs DEF handle
<1>5. CASE ev.type = "alarm-ring" BY <1>5, reduceAlarmRingLegs DEF handle
<1>6. CASE ev.type = "alarm-janitor" BY <1>6, reduceAlarmJanitorLegs DEF handle
<1>7. CASE ev.type = "alarm-ring-step" BY <1>7, reduceAlarmRingStepLegs DEF handle
<1> QED BY <1>2, <1>3, <1>4, <1>5, <1>6, <1>7

\* Whatever event meets a session whose books are in order, it leaves them so.
THEOREM ReduceLegs ==
  ASSUME NEW m, MachineOK(m), ~isNone(m), Books(m), NEW ev \in Event, Ready(m, ev)
  PROVE  LegStep(m, ev, reduce(m, ev))
<1>1. CASE ev.type \in {"initiated", "outbound-initiated"}
  <2>1. ev.type # "vm-answer-outcome" BY <1>1
  <2>2. LegStep(m, ev, NoEffect(m)) BY <2>1, StepNone
  <2> QED BY <1>1, <2>2 DEF reduce
<1>2. CASE ev.type \notin {"initiated", "outbound-initiated"}
  <2>1. reduce(m, ev) = handle(m, ev) BY <1>2 DEF reduce
  <2>2. ev.type \in {"member-leg-answered", "member-leg-hangup", "outbound-placer-answered",
                      "outbound-placer-hangup", "answer-outcome", "member-probe-outcome",
                      "dial-outcome",
                      "inbound-hangup", "outbound-answered", "outbound-hangup", "speak-ended",
                      "recording-saved", "notice-answer-outcome", "vm-answer-outcome",
                      "push-fanout-settled", "inbound-leg-gone",
                      "ring-me", "decline", "set-owner", "register-intent", "clear-intent",
                      "alarm-intent-expiry", "alarm-ring", "alarm-janitor", "alarm-ring-step"}
    BY <1>2 DEF Event, Webhook, FollowUp, Asked, Mint
  <2> QED BY <2>1, <2>2, LegEventLegs, CustomerEventLegs, AskedLegs
<1> QED BY <1>1, <1>2

(***************************************************************************)
(* The dials.  A reduction rings one leg at most, and never twice.         *)
(***************************************************************************)
DialKinds == {"telnyx-dial", "telnyx-dial-placer"}
IsDial(e) == e.kind \in DialKinds

Rung(S)      == \E e \in S : IsDial(e)
DialOnce(fx) == \A p, q \in DOMAIN fx : IsDial(fx[p]) /\ IsDial(fx[q]) => p = q

\* Bland effects dial nobody, and neither do the others that are no dial.
LEMMA BlandRings ==
  /\ \A e : Bland(e) => ~IsDial(e)
  /\ \A set : ~IsDial(Mirror(set))
  /\ \A o : ~IsDial(TerminalMerge(o))
  /\ \A a : ~IsDial(Arm(a))
  /\ ~IsDial(VoicemailPipeline) /\ ~IsDial(RecordStart)
  /\ \A f, t : IsDial(Dial(f, t)) /\ IsDial(DialPlacer(f))
  BY KindsOf DEF Bland, IsDial, DialKinds

\* A list without dials,
LEMMA DialOnceNone ==
  ASSUME NEW fx, NEW S, Lists(fx, S), ~Rung(S)
  PROVE  DialOnce(fx)
<1>1. \A p \in DOMAIN fx : fx[p] \in S BY DEF Lists, Eff
<1> QED BY <1>1 DEF DialOnce, Rung

\* with one effect,
LEMMA DialOnceOne ==
  ASSUME NEW e PROVE DialOnce(<<e>>)
  BY DEF DialOnce

\* and in two parts of which one dials nobody.
LEMMA DialOnceConcat ==
  ASSUME NEW a, NEW b, NEW S, NEW T, Lists(a, S), Lists(b, T), DialOnce(a), DialOnce(b),
         ~Rung(S) \/ ~Rung(T)
  PROVE  DialOnce(a \o b)
<1>1. a \in Seq(S \cup T) /\ b \in Seq(S \cup T) BY DEF Lists
<1>2. /\ DOMAIN (a \o b) = 1 .. Len(a) + Len(b)
      /\ \A i \in 1 .. Len(a) : (a \o b)[i] = a[i]
      /\ \A i \in 1 .. Len(b) : (a \o b)[Len(a) + i] = b[i]
      /\ DOMAIN a = 1 .. Len(a) /\ DOMAIN b = 1 .. Len(b) /\ Len(a) \in Nat /\ Len(b) \in Nat
  BY <1>1
<1>3. \A i \in 1 .. Len(a) : a[i] \in S BY <1>2 DEF Lists, Eff
<1>4. \A i \in 1 .. Len(b) : b[i] \in T BY <1>2 DEF Lists, Eff
<1>5. \A p \in DOMAIN (a \o b) :
         \/ p \in 1 .. Len(a) /\ (a \o b)[p] = a[p] /\ a[p] \in S
         \/ /\ p - Len(a) \in 1 .. Len(b) /\ (a \o b)[p] = b[p - Len(a)] /\ b[p - Len(a)] \in T
  <2>1. SUFFICES ASSUME NEW p \in 1 .. Len(a) + Len(b), p \notin 1 .. Len(a)
                 PROVE  /\ p - Len(a) \in 1 .. Len(b) /\ (a \o b)[p] = b[p - Len(a)]
                        /\ b[p - Len(a)] \in T
    BY <1>2, <1>3
  <2>2. p - Len(a) \in 1 .. Len(b) /\ Len(a) + (p - Len(a)) = p BY <1>2, <2>1
  <2> QED BY <1>2, <1>4, <2>2
<1>6. SUFFICES ASSUME NEW p \in DOMAIN (a \o b), NEW q \in DOMAIN (a \o b),
                      IsDial((a \o b)[p]), IsDial((a \o b)[q])
               PROVE  p = q
  BY DEF DialOnce
<1>7. CASE p \in 1 .. Len(a) /\ q \in 1 .. Len(a) BY <1>2, <1>6, <1>7 DEF DialOnce
<1>8. CASE p \notin 1 .. Len(a) /\ q \notin 1 .. Len(a)
  <2>1. p - Len(a) \in DOMAIN b /\ q - Len(a) \in DOMAIN b
          /\ IsDial(b[p - Len(a)]) /\ IsDial(b[q - Len(a)])
    BY <1>2, <1>5, <1>6, <1>8
  <2>2. p - Len(a) = q - Len(a) BY <2>1 DEF DialOnce
  <2>3. p \in Nat /\ q \in Nat BY <1>2
  <2> QED BY <1>2, <2>2, <2>3
<1>9. CASE (p \in 1 .. Len(a)) # (q \in 1 .. Len(a))
  <2>1. Rung(S) /\ Rung(T) BY <1>5, <1>6, <1>9 DEF Rung
  <2> QED BY <2>1
<1> QED BY <1>7, <1>8, <1>9

\* One more leg is rung.
Rings(m, r) ==
  LET d == m.dialed + 1
  IN  /\ m.state = "ringing" /\ d \in LegId
      /\ r.m.state = m.state /\ r.m.direction = m.direction /\ r.m.dialed = d
      /\ r.m.legs[d].status = "dialing" /\ r.m.legs[d].ccid = NoLeg
      /\ \A j \in LegId \ {d} : r.m.legs[j] = m.legs[j]
      /\ \A e \in Eff(r.fx) : e \in {Dial(d, d), Arm("ring-step")}
      /\ DialOnce(r.fx)

\* What is rung, with the list of effects that rings it.
LEMMA RingsOne ==
  ASSUME NEW m, MachineOK(m), m.state = "ringing", m.dialed < MaxLegs,
         NEW n, MachineOK(n), n.legs = m.legs, n.state = m.state, n.direction = m.direction,
         n.dialed = m.dialed, NEW u, NEW b,
         NEW post, NEW T, Lists(post, T), T \subseteq {Arm("ring-step")},
         NEW r, r.m = PushLeg(n, u, b), r.fx = <<Dial(m.dialed + 1, m.dialed + 1)>> \o post
  PROVE  Rings(m, r)
<1> DEFINE d   == n.dialed + 1
           pre == <<Dial(d, d)>>
<1>1. /\ r.m.state = n.state /\ r.m.direction = n.direction /\ r.m.dialed = d /\ d \in LegId
      /\ r.m.legs[d].status = "dialing" /\ r.m.legs[d].ccid = NoLeg
      /\ \A j \in LegId \ {d} : r.m.legs[j] = n.legs[j]
  BY PushLegIsAt
<1>2. Lists(pre, {Dial(d, d)}) /\ DialOnce(pre) BY Lists1, DialOnceOne
<1>3. r.fx = pre \o post /\ d = m.dialed + 1 OBVIOUS
<1> HIDE DEF pre, d
<1>4. ~Rung(T) /\ DialOnce(post)
  <2>1. ~Rung(T) BY BlandRings DEF Rung
  <2> QED BY <2>1, DialOnceNone
<1>5. DialOnce(r.fx) BY <1>2, <1>3, <1>4, DialOnceConcat
<1>6. Lists(r.fx, {Dial(d, d)} \cup T)
  <2>1. Lists(pre \o post, {Dial(d, d)} \cup T) BY <1>2, ListsConcat
  <2> QED BY <1>3, <2>1
<1>7. \A e \in Eff(r.fx) : e \in {Dial(d, d), Arm("ring-step")} BY <1>6 DEF Lists
<1> QED BY <1>1, <1>3, <1>5, <1>7 DEF Rings

\* A request,
LEMMA reduceRingMeRings ==
  ASSUME NEW m, MachineOK(m), NEW ev
  PROVE  LET r == reduceRingMe(m, ev) IN ~Rung(Eff(r.fx)) \/ Rings(m, r)
<1> DEFINE r    == reduceRingMe(m, ev)
           dial == <<Dial(m.dialed + 1, m.dialed + 1)>>
<1>1. \/ r = NoEffect(m)
      \/ /\ m.state = "ringing" /\ ~(m.dialed >= MaxLegs)
         /\ r = Result(PushLeg(m, ev.user, TRUE), dial)
  BY DEF reduceRingMe
<1> HIDE DEF r
<1>2. CASE r = NoEffect(m)
  <2>1. Eff(r.fx) = {} BY <1>2, Lists0 DEF NoEffect, Result, Lists
  <2> QED BY <2>1 DEF Rung, r
<1>3. CASE /\ m.state = "ringing" /\ ~(m.dialed >= MaxLegs)
           /\ r = Result(PushLeg(m, ev.user, TRUE), dial)
  <2>1. m.dialed < MaxLegs BY <1>3, MaxLegsAssumption DEF MachineOK, SessionMachine
  <2>2. Lists(<<>>, {}) BY Lists0
  <2>3. dial = dial \o <<>> OBVIOUS
  <2>4. r.m = PushLeg(m, ev.user, TRUE) /\ r.fx = dial \o <<>> BY <1>3, <2>3 DEF Result
  <2>5. Rings(m, r) BY <1>3, <2>1, <2>2, <2>4, RingsOne
  <2> QED BY <2>5 DEF r
<1> QED BY <1>1, <1>2, <1>3

\* and the turn's alarm.
LEMMA reduceAlarmRingStepRings ==
  ASSUME NEW m, MachineOK(m), NEW ev
  PROVE  LET r == reduceAlarmRingStep(m, ev) IN ~Rung(Eff(r.fx)) \/ Rings(m, r)
<1> DEFINE waiting == m.queue \ m.declined
           user    == Foremost(m.order, waiting)
           popped  == [m EXCEPT !.queue = waiting \ {user}]
           next    == PushLeg(popped, user, FALSE)
           empty   == [m EXCEPT !.queue = {}]
           step    == <<Arm("ring-step")>>
           post    == armRingStep(next, ev.fits)
           T       == IF next.queue # {} /\ ev.fits THEN {Arm("ring-step")} ELSE {}
           d       == m.dialed + 1
           r       == reduceAlarmRingStep(m, ev)
<1>1. Lists(post, T)
  <2>1. Lists(step, {Arm("ring-step")}) BY Lists1
  <2> HIDE DEF step
  <2> QED BY <2>1, ListsWhen DEF armRingStep, step
<1>2. /\ MachineOK(popped)
      /\ popped.legs = m.legs /\ popped.state = m.state /\ popped.direction = m.direction
      /\ popped.dialed = m.dialed
  <2>1. waiting \ {user} \in SUBSET m.queue OBVIOUS
  <2> HIDE DEF waiting, user
  <2> QED BY <2>1 DEF MachineOK, SessionMachine
<1>3. next.dialed = d BY <1>2 DEF PushLeg, MachineOK, SessionMachine
<1>4. MachineOK(empty) BY DEF MachineOK, SessionMachine
<1>5. \/ r = NoEffect(m)
      \/ r = NoEffect(popped)
      \/ r = runAvenueLadder(empty)
      \/ m.state = "ringing" /\ ~(m.dialed >= MaxLegs) /\ r = Result(next, <<Dial(d, d)>> \o post)
  BY <1>3 DEF reduceAlarmRingStep
<1> SUFFICES ~Rung(Eff(r.fx)) \/ Rings(m, r) OBVIOUS
<1> HIDE DEF r, post, T, popped, user, empty
<1>6. CASE r = NoEffect(m) \/ r = NoEffect(popped)
  <2>1. Eff(r.fx) = {} BY <1>6, Lists0 DEF NoEffect, Result, Lists
  <2> QED BY <2>1 DEF Rung
<1>7. CASE r = runAvenueLadder(empty)
  <2>1. CASE r = NoEffect(empty)
    <3>1. Eff(r.fx) = {} BY <2>1, Lists0 DEF NoEffect, Result, Lists
    <3> QED BY <3>1 DEF Rung
  <2>2. CASE r = vmEntry(empty)
    <3>1. Eff(r.fx) = {Mirror([state |-> "voicemail_greeting"]), Clear("ring"), Clear("ring-step"),
                       AnswerVm, PushCallEnd("voicemail")}
      BY <2>2, Lists5 DEF vmEntry, Result, Lists
    <3> QED BY <3>1, BlandIs, BlandRings DEF Rung
  <2> QED BY <1>7, <2>1, <2>2 DEF runAvenueLadder
<1>8. CASE m.state = "ringing" /\ ~(m.dialed >= MaxLegs) /\ r = Result(next, <<Dial(d, d)>> \o post)
  <2>1. m.dialed < MaxLegs BY <1>8, MaxLegsAssumption DEF MachineOK, SessionMachine
  <2>2. r.m = PushLeg(popped, user, FALSE) /\ r.fx = <<Dial(d, d)>> \o post BY <1>8 DEF Result
  <2>3. T \subseteq {Arm("ring-step")} BY DEF T
  <2> QED BY <1>1, <1>2, <1>8, <2>1, <2>2, <2>3, RingsOne
<1> QED BY <1>5, <1>6, <1>7, <1>8

\* Whatever event meets a session rings one leg or none.
LEMMA ReduceRings ==
  ASSUME NEW m, MachineOK(m), ~isNone(m), NEW ev \in Event
  PROVE  LET r == reduce(m, ev)
         IN  ~Rung(Eff(r.fx)) \/ (ev.type \in {"ring-me", "alarm-ring-step"} /\ Rings(m, r))
<1> DEFINE r == reduce(m, ev)
<1>1. RingsAsked(m, ev, r) BY ReduceDials
<1>2. CASE ev.type = "ring-me"
  <2>1. r = reduceRingMe(m, ev) BY <1>2 DEF reduce, handle
  <2> QED BY <1>2, <2>1, reduceRingMeRings
<1>3. CASE ev.type = "alarm-ring-step"
  <2>1. r = reduceAlarmRingStep(m, ev) BY <1>3 DEF reduce, handle
  <2> QED BY <1>3, <2>1, reduceAlarmRingStepRings
<1>4. CASE ev.type \notin {"ring-me", "alarm-ring-step"}
  <2>1. DialsNobody(m, ev, r) BY <1>1, <1>4 DEF RingsAsked
  <2> HIDE DEF r
  <2>2. \A e \in Eff(r.fx) : ~IsDial(e)
    BY <2>1, BlandRings DEF DialsNobody, Quiet, Intends, Diverts, Answers, PicksUp, Records, Saves,
       Ends, Upgrades, SetsOwner, NoticeFails, Writes, EndEffects
  <2> QED BY <2>2 DEF Rung, r
<1> QED BY <1>2, <1>3, <1>4

(***************************************************************************)
(* What is minted rings the legs it has, and they are all to be awaited.   *)
(***************************************************************************)
\* The effects that may stand next to a dial.
MildKinds == DialKinds \cup {"mirror", "arm-alarm", "clear-alarm", "push-fanout"}

\* A dial of a placed call is of its placer's leg.
RingsAwaited(S, m) ==
  \A e \in S : IsDial(e) =>
    \A i \in e.from .. e.to :
      i \in LegId /\ Awaited(m, i) /\ (m.direction = "outbound" => i = 1)

Opened(r) ==
  /\ Books(r.m) /\ Known(r.m) = {} /\ GaveUp(r.m) = {}
  /\ r.m.state = "voicemail_greeting" => Silent(r.m)
  /\ RingsAwaited(Eff(r.fx), r.m) /\ DialOnce(r.fx)
  /\ Rung(Eff(r.fx)) => \A e \in Eff(r.fx) : e.kind \in MildKinds

\* No leg has been learned of.
Blank(m) == \A j \in LegId : m.legs[j].ccid = NoLeg /\ m.legs[j].status \in {"unused", "dialing"}

LEMMA BlankBooks ==
  ASSUME NEW m, Blank(m)
  PROVE  /\ Known(m) = {} /\ GaveUp(m) = {} /\ OneRecord(m) /\ Bare(m)
         /\ m.state \notin TerminalStates \cup {"answered", "voicemail_recording"} => Books(m)
<1>1. Known(m) = {} /\ GaveUp(m) = {} BY DEF Blank, Known, GaveUp, CcidsOf, LegsWith
<1>2. OneRecord(m) /\ Bare(m) BY DEF Blank, OneRecord, Bare
<1>3. m.state \notin TerminalStates \cup {"answered", "voicemail_recording"} => Hushed(m)
  BY DEF Hushed, isTerminal
<1> QED BY <1>1, <1>2, <1>3 DEF Books

\* An opening that rings nobody,
LEMMA OpenedQuietly ==
  ASSUME NEW m, m.legs = [i \in LegId |-> UnusedLeg],
         m.state \in {"ringing", "dialing", "voicemail_greeting"},
         NEW fx, NEW S, Lists(fx, S), \A e \in S : ~IsDial(e)
  PROVE  Opened(Result(m, fx))
<1> DEFINE r == Result(m, fx)
<1>1. r.m = m /\ r.fx = fx /\ Eff(r.fx) = S BY DEF Result, Lists
<1> SUFFICES Opened(r) OBVIOUS
<1> HIDE DEF r
<1>2. Blank(m) BY DEF Blank, UnusedLeg
<1>3. Silent(m) BY DEF Silent, LegsWith, UnusedLeg
<1>4. m.state \notin TerminalStates \cup {"answered", "voicemail_recording"} BY DEF TerminalStates
<1>5. DialOnce(fx) BY DialOnceNone DEF Rung
<1> QED BY <1>1, <1>2, <1>3, <1>4, <1>5, BlankBooks DEF Opened, RingsAwaited, Rung

\* and one that rings.
LEMMA OpenedRinging ==
  ASSUME NEW m, Blank(m), m.state \in Presenting,
         NEW fx, NEW S, Lists(fx, S), DialOnce(fx), RingsAwaited(S, m),
         \A e \in S : e.kind \in MildKinds
  PROVE  Opened(Result(m, fx))
<1> DEFINE r == Result(m, fx)
<1>1. r.m = m /\ r.fx = fx /\ Eff(r.fx) = S BY DEF Result, Lists
<1> SUFFICES Opened(r) OBVIOUS
<1> HIDE DEF r
<1>2. m.state \notin TerminalStates \cup {"answered", "voicemail_recording", "voicemail_greeting"}
  BY DEF TerminalStates, Presenting
<1> QED BY <1>1, <1>2, BlankBooks DEF Opened

\* Ringing starts: everybody at once, or the first in turn.
LEMMA ringStartOpens ==
  ASSUME NEW base, MachineOK(base), base.state = "ringing", base.direction = "inbound",
         NEW ctx \in InboundContext
  PROVE  Opened(ringStart(base, ctx))
<1> DEFINE targets == RingTargets(ctx)
           now     == IF ctx.inTurn /\ Len(targets) > 1 THEN 1 ELSE Len(targets)
           first   == SubSeq(targets, 1, now)
           rest    == {targets[i] : i \in (now + 1) .. Len(targets)}
           m       == [PushLegs(base, first) EXCEPT !.order = targets, !.queue = rest]
           fx1     == << Arm("janitor"), Mirror([state |-> "ringing"]) >>
           dial    == <<Dial(1, now)>>
           fx2     == When(now > 0, dial)
           fx3     == << PushFanout, Arm("fanout-settle"), Arm("ring") >>
           step    == <<Arm("ring-step")>>
           fx4     == armRingStep(m, ctx.fits)
           S1      == {Arm("janitor"), Mirror([state |-> "ringing"])}
           S2      == IF now > 0 THEN {Dial(1, now)} ELSE {}
           S3      == {PushFanout, Arm("fanout-settle"), Arm("ring")}
           S4      == IF m.queue # {} /\ ctx.fits THEN {Arm("ring-step")} ELSE {}
           S       == ((S1 \cup S2) \cup S3) \cup S4
           fx      == ((fx1 \o fx2) \o fx3) \o fx4
<1>1. targets \in Seq(User) /\ Len(targets) \in Nat /\ Len(targets) <= MaxLegs BY RingTargetsIn
<1> HIDE DEF targets
<1>2. now \in Nat /\ now <= Len(targets) /\ now <= MaxLegs BY <1>1, MaxLegsAssumption
<1>3. first \in Seq(User) /\ Len(first) = now BY <1>1, <1>2, SubSeqProperties
<1>4. ringStart(base, ctx) = Result(m, fx) BY DEF ringStart, targets, now, first, rest
<1> HIDE DEF now, first, rest
<1>5. /\ m.state = "ringing" /\ m.direction = "inbound" /\ m.dialed = now
      /\ m.legs = [i \in LegId |->
               IF i <= now
               THEN [user |-> first[i], status |-> "dialing", ccid |-> NoLeg, ringMe |-> FALSE]
               ELSE UnusedLeg]
  BY <1>3 DEF PushLegs, MachineOK, SessionMachine
<1>6. Lists(fx1, S1) /\ Lists(dial, {Dial(1, now)}) /\ Lists(fx3, S3)
      /\ Lists(step, {Arm("ring-step")})
  BY Lists1, Lists2, Lists3
<1> HIDE DEF m
<1>7. Blank(m) BY <1>5 DEF Blank, UnusedLeg
<1>8. DialOnce(dial) BY DialOnceOne
<1> HIDE DEF fx1, dial, fx3, step
<1>9. Lists(fx2, S2) BY <1>6, ListsWhen
<1>10. Lists(fx4, S4) BY <1>6, ListsWhen DEF armRingStep, step
<1>11. ~Rung(S1) /\ ~Rung(S3) /\ ~Rung(S4) BY BlandIs, BlandRings DEF Rung
<1>12. DialOnce(fx2)
  <2>1. CASE now > 0
    <3>1. fx2 = dial BY <2>1 DEF When
    <3> QED BY <1>8, <3>1
  <2>2. CASE ~(now > 0)
    <3>1. S2 = {} BY <2>2
    <3>2. ~Rung(S2) BY <3>1 DEF Rung
    <3> HIDE DEF fx2, S2
    <3> QED BY <1>9, <3>2, DialOnceNone
  <2> QED BY <2>1, <2>2
<1>13. RingsAwaited(S, m)
  <2>1. \A i \in 1 .. now : i \in LegId /\ Awaited(m, i)
    <3>1. SUFFICES ASSUME NEW i \in 1 .. now PROVE i \in LegId /\ Awaited(m, i) OBVIOUS
    <3>2. i \in LegId /\ i <= now BY <1>2, <3>1, MaxLegsAssumption DEF LegId
    <3>3. m.legs[i].status = "dialing" /\ m.legs[i].ccid = NoLeg BY <1>5, <3>2
    <3>4. i \notin Known(m) BY <1>7, BlankBooks
    <3> QED BY <1>5, <3>2, <3>3, <3>4 DEF Awaited, Presenting
  <2>2. \A e \in S : IsDial(e) => e = Dial(1, now) BY BlandIs, BlandRings
  <2>3. Dial(1, now).from = 1 /\ Dial(1, now).to = now BY KindsOf
  <2> HIDE DEF S, now
  <2>4. \A e \in S : IsDial(e) => e.from = 1 /\ e.to = now BY <2>2, <2>3
  <2> QED BY <1>5, <2>1, <2>4 DEF RingsAwaited
<1>14. \A e \in S : e.kind \in MildKinds
  <2>1. PushFanout.kind = "push-fanout" BY DEF PushFanout
  <2>2. \A e \in S : e.kind \in {"arm-alarm", "mirror", "push-fanout", "telnyx-dial"}
    BY <2>1, KindsOf
  <2> HIDE DEF S
  <2> QED BY <2>2 DEF MildKinds, DialKinds
<1> HIDE DEF fx2, fx4, S1, S2, S3, S4
<1>15. Lists(fx, S) BY <1>6, <1>9, <1>10, ListsConcat
<1>16. DialOnce(fx)
  <2>1. DialOnce(fx1) /\ DialOnce(fx3) /\ DialOnce(fx4) BY <1>6, <1>10, <1>11, DialOnceNone
  <2>2. Lists(fx1 \o fx2, S1 \cup S2) /\ DialOnce(fx1 \o fx2)
    BY <1>6, <1>9, <1>11, <1>12, <2>1, ListsConcat, DialOnceConcat
  <2>3. Lists((fx1 \o fx2) \o fx3, (S1 \cup S2) \cup S3) /\ DialOnce((fx1 \o fx2) \o fx3)
    BY <1>6, <1>11, <2>1, <2>2, ListsConcat, DialOnceConcat
  <2> QED BY <1>10, <1>11, <2>1, <2>3, DialOnceConcat
<1> HIDE DEF fx, S
<1>17. m.state \in Presenting BY <1>5 DEF Presenting
<1>18. Opened(Result(m, fx)) BY <1>7, <1>13, <1>14, <1>15, <1>16, <1>17, OpenedRinging
<1> QED BY <1>4, <1>18

\* An inbound call,
LEMMA reduceInitiatedOpens ==
  ASSUME NEW ctx \in InboundContext
  PROVE  Opened(reduceInitiated(ctx))
<1> DEFINE base    == [NoMachine EXCEPT !.state = "ringing", !.push = ctx.audience]
           vm      == vmEntry(base)
           noticed == [base EXCEPT !.noticeSpoken = ctx.noticeAllowed]
           capped  == [base EXCEPT !.rejectedForCap = TRUE]
           one     == <<Arm("janitor")>>
           told    == [state |-> "ringing", notice_spoken |-> ctx.noticeAllowed]
           fx1     == << Arm("janitor"), Mirror(told) >>
           ans     == <<AnswerNotice>>
           fx2     == When(ctx.noticeAllowed, ans)
           fx3     == << Arm("janitor"), Reject, Mirror([state |-> "ringing"]) >>
           S1      == {Arm("janitor"), Mirror(told)}
           S2      == IF ctx.noticeAllowed THEN {AnswerNotice} ELSE {}
           S3      == {Arm("janitor"), Reject, Mirror([state |-> "ringing"])}
           V       == {Mirror([state |-> "voicemail_greeting"]), Clear("ring"), Clear("ring-step"),
                       AnswerVm, PushCallEnd("voicemail")}
<1>1. MachineOK(base)
  BY NoMachineOK, EndingsIn DEF MachineOK, SessionMachine, NoMachine, InboundContext
<1>2. /\ base.state = "ringing" /\ base.direction = "inbound"
      /\ base.legs = [i \in LegId |-> UnusedLeg]
  BY DEF NoMachine
<1> HIDE DEF base
<1>3. /\ noticed.state = "ringing" /\ noticed.legs = base.legs
      /\ capped.state = "ringing" /\ capped.legs = base.legs
  BY <1>1, <1>2 DEF MachineOK, SessionMachine
<1>4. vm.m.state = "voicemail_greeting" /\ vm.m.legs = base.legs
  BY <1>1 DEF vmEntry, Result, MachineOK, SessionMachine
<1>5. Lists(vm.fx, V) BY Lists5 DEF vmEntry, Result
<1>6. /\ Lists(one, {Arm("janitor")}) /\ Lists(fx1, S1) /\ Lists(ans, {AnswerNotice})
      /\ Lists(fx3, S3)
  BY Lists1, Lists2, Lists3
<1> HIDE DEF noticed, capped, vm, one, fx1, ans, fx3
<1>7. Lists(fx2, S2) BY <1>6, ListsWhen
<1>8. Lists(one \o vm.fx, {Arm("janitor")} \cup V) /\ Lists(fx1 \o fx2, S1 \cup S2)
  BY <1>5, <1>6, <1>7, ListsConcat
<1>9. /\ \A e \in {Arm("janitor")} \cup V : ~IsDial(e)
      /\ \A e \in S1 \cup S2 : ~IsDial(e)
      /\ \A e \in S3 : ~IsDial(e)
  BY BlandIs, BlandRings
<1> DEFINE V1  == {Arm("janitor")} \cup V
           S12 == S1 \cup S2
<1> HIDE DEF fx2, V1, S12, S3
<1>10. Opened(Result(vm.m, one \o vm.fx)) BY <1>2, <1>4, <1>8, <1>9, OpenedQuietly DEF V1
<1>11. Opened(Result(noticed, fx1 \o fx2)) BY <1>2, <1>3, <1>8, <1>9, OpenedQuietly DEF S12
<1>12. Opened(Result(capped, fx3)) BY <1>2, <1>3, <1>6, <1>9, OpenedQuietly
<1>13. Opened(ringStart(base, ctx)) BY <1>1, <1>2, ringStartOpens
<1>14. reduceInitiated(ctx) \in {Result(vm.m, one \o vm.fx), Result(noticed, fx1 \o fx2),
                                 Result(capped, fx3), ringStart(base, ctx)}
  <2>1. ctx.kind \in {"vm", "suspended", "cap", "ring"} BY DEF InboundContext
  <2> QED BY <2>1 DEF reduceInitiated, base, vm, noticed, capped, one, fx1, fx2, ans, fx3, told
<1> QED BY <1>10, <1>11, <1>12, <1>13, <1>14

\* and a placed one, with the placer's leg where he has a softphone.
LEMMA reduceOutboundInitiatedOpens ==
  ASSUME NEW ctx \in Placement
  PROVE  Opened(reduceOutboundInitiated(ctx))
<1> DEFINE base == [NoMachine EXCEPT !.state = "dialing", !.direction = "outbound",
                                     !.owner = ctx.placer]
           set  == [state |-> "dialing", answered_by_user_id |-> ctx.placer]
           next == PushLeg(base, ctx.placer, FALSE)
           fx1  == <<Mirror(set), Arm("janitor")>>
           fx2  == <<DialPlacer(1)>>
           S    == {Mirror(set), Arm("janitor")}
           T    == S \cup {DialPlacer(1)}
           r    == reduceOutboundInitiated(ctx)
<1>1. MachineOK(base)
  BY NoMachineOK DEF MachineOK, SessionMachine, NoMachine, CallStates, Placement
<1>2. /\ base.state = "dialing" /\ base.direction = "outbound" /\ base.dialed = 0
      /\ base.legs = [i \in LegId |-> UnusedLeg]
  BY DEF NoMachine
<1>3. Lists(fx1, S) /\ Lists(fx2, {DialPlacer(1)}) /\ DialOnce(fx2)
  BY Lists1, Lists2, DialOnceOne
<1>4. r \in {Result(next, fx1 \o fx2), Result(base, fx1)} BY DEF reduceOutboundInitiated
<1> SUFFICES Opened(r) OBVIOUS
<1> HIDE DEF fx1, fx2, base, r, set
<1>5. ~Rung(S) /\ \A e \in S : ~IsDial(e) BY BlandRings DEF Rung
<1>6. Opened(Result(base, fx1)) BY <1>2, <1>3, <1>5, OpenedQuietly
<1>7. Opened(Result(next, fx1 \o fx2))
  <2>1. base.dialed < MaxLegs /\ base.dialed + 1 = 1 BY <1>2, MaxLegsAssumption
  <2>2. /\ next.state = "dialing" /\ next.direction = "outbound" /\ next.dialed = 1 /\ 1 \in LegId
        /\ next.legs[1].status = "dialing" /\ next.legs[1].ccid = NoLeg
        /\ \A j \in LegId \ {1} : next.legs[j] = base.legs[j]
    <3>1. \A u, b : LET n == PushLeg(base, u, b)
                        k == base.dialed + 1
                    IN  /\ n.state = base.state /\ n.direction = base.direction /\ n.dialed = k
                        /\ k \in LegId /\ n.legs[k].status = "dialing" /\ n.legs[k].ccid = NoLeg
                        /\ \A j \in LegId \ {k} : n.legs[j] = base.legs[j]
      BY <1>1, <2>1, PushLegIsAt
    <3>2. base.dialed + 1 = 1 BY <2>1
    <3>3. base.state = "dialing" /\ base.direction = "outbound" BY <1>2
    <3>4. \A u, b : LET n == PushLeg(base, u, b)
                    IN  /\ n.state = "dialing" /\ n.direction = "outbound" /\ n.dialed = 1
                        /\ 1 \in LegId /\ n.legs[1].status = "dialing" /\ n.legs[1].ccid = NoLeg
                        /\ \A j \in LegId \ {1} : n.legs[j] = base.legs[j]
      BY <3>1, <3>2, <3>3
    <3> QED BY <3>4, Zenon
  <2> HIDE DEF next
  <2>3. Blank(next) BY <1>2, <2>2 DEF Blank, UnusedLeg
  <2>4. Awaited(next, 1)
    <3>1. 1 \notin Known(next) BY <2>3, BlankBooks
    <3> QED BY <2>2, <3>1 DEF Awaited, Presenting
  <2>5. RingsAwaited(T, next)
    <3>1. \A e \in T : IsDial(e) => e = DialPlacer(1) BY <1>5
    <3>2. DialPlacer(1).from = 1 /\ DialPlacer(1).to = 1 /\ \A i \in 1 .. 1 : i = 1
      BY KindsOf
    <3> QED BY <2>2, <2>4, <3>1, <3>2 DEF RingsAwaited
  <2>6. \A e \in T : e.kind \in MildKinds BY KindsOf DEF MildKinds, DialKinds
  <2> HIDE DEF S
  <2>7. DialOnce(fx1 \o fx2)
    <3>1. DialOnce(fx1) BY <1>3, <1>5, DialOnceNone
    <3> QED BY <1>3, <1>5, <3>1, DialOnceConcat
  <2>8. Lists(fx1 \o fx2, T) BY <1>3, ListsConcat
  <2>9. next.state \in Presenting BY <2>2 DEF Presenting
  <2> HIDE DEF T
  <2> QED BY <2>3, <2>5, <2>6, <2>7, <2>8, <2>9, OpenedRinging
<1> QED BY <1>4, <1>6, <1>7

\* Where there is no session an initiation opens one, and nothing else does anything.
LEMMA MintOpens ==
  ASSUME NEW m, isNone(m), NEW ev \in Event
  PROVE  \/ ev.type \in {"initiated", "outbound-initiated"} /\ Opened(reduce(m, ev))
         \/ ev.type \notin {"initiated", "outbound-initiated"} /\ reduce(m, ev) = NoEffect(m)
<1>1. CASE ev.type = "initiated"
  BY <1>1, EventFields, reduceInitiatedOpens DEF reduce
<1>2. CASE ev.type = "outbound-initiated"
  BY <1>2, EventFields, reduceOutboundInitiatedOpens DEF reduce
<1>3. CASE ev.type \notin {"initiated", "outbound-initiated"} BY <1>3 DEF reduce
<1> QED BY <1>1, <1>2, <1>3

(***************************************************************************)
(* While a dial's outcome is awaited, nothing but the outcomes of the other *)
(* dials and the settling of the push comes in between.                    *)
(***************************************************************************)
Calm == {"dial-outcome", "push-fanout-settled"}

IsOutcome(e) == e.type = "dial-outcome"

\* What keeps the record i waiting, with nothing to run but the disarming of an alarm.
KeepsWaiting(m, r, i) ==
  /\ Awaited(r.m, i) /\ r.m.direction = m.direction
  /\ Eff(r.fx) \subseteq {Clear("fanout-settle")}

\* The record is unchanged, and so is what the session knows.
LEMMA WaitingKept ==
  ASSUME NEW m, NEW i \in LegId, Awaited(m, i), NEW r,
         r.m.state = m.state, r.m.direction = m.direction, r.m.dialed = m.dialed,
         r.m.legs[i].status = m.legs[i].status,
         NEW k, k # i,
         \A j \in LegId : r.m.legs[j].ccid \in {m.legs[j].ccid, k},
         r.m.legs[i].ccid = m.legs[i].ccid,
         Eff(r.fx) \subseteq {Clear("fanout-settle")}
  PROVE  KeepsWaiting(m, r, i)
<1>1. i \notin Known(r.m) BY DEF Awaited, Known, CcidsOf
<1> QED BY <1>1 DEF KeepsWaiting, Awaited

\* Somebody is being rung, so that the ladder is not climbed.
LEMMA WaitingLadder ==
  ASSUME NEW n, NEW i \in LegId, n.legs[i].status = "dialing"
  PROVE  runAvenueLadder(n) = NoEffect(n)
  BY DEF runAvenueLadder, NoAvenue, liveLegs, LegsWith, LIVE_STATUSES

\* The outcome of another dial of an inbound call,
LEMMA reduceDialOutcomeCalm ==
  ASSUME NEW m, MachineOK(m), NEW i \in LegId, Awaited(m, i),
         NEW ev, IsOutcome(ev), ev.leg \in LegId \ {i}, m.direction = "inbound"
  PROVE  KeepsWaiting(m, reduceDialOutcome(m, ev), i)
<1> DEFINE k      == ev.leg
           st     == IF ev.outcome = "ambiguous" THEN "ambiguous" ELSE "dead"
           at     == Stamp(m, k, k)
           up     == IF m.legs[k].status = "dialing" THEN {k} ELSE {}
           n      == SetStatus(at, up, "ringing")
           failed == SetStatus(m, {k}, st)
           r      == reduceDialOutcome(m, ev)
<1>1. Eff(<<>>) = {} BY DEF Eff
<1>2. MachineOK(at) BY StampOK
<1>3. /\ at.state = m.state /\ at.direction = m.direction /\ at.dialed = m.dialed
      /\ \A j \in LegId : /\ at.legs[j].status = m.legs[j].status
                          /\ at.legs[j].ccid = IF j = k THEN k ELSE m.legs[j].ccid
  BY StampIsAt
<1> HIDE DEF at
<1>4. /\ n.state = at.state /\ n.direction = at.direction /\ n.dialed = at.dialed
      /\ \A j \in LegId : /\ n.legs[j].ccid = at.legs[j].ccid
                          /\ n.legs[j].status = IF j \in up THEN "ringing" ELSE at.legs[j].status
  BY <1>2, SetStatusIs
<1>5. /\ failed.state = m.state /\ failed.direction = m.direction /\ failed.dialed = m.dialed
      /\ \A j \in LegId : /\ failed.legs[j].ccid = m.legs[j].ccid
                          /\ failed.legs[j].status = IF j \in {k} THEN st ELSE m.legs[j].status
  BY SetStatusIs
<1>6. i \notin {k} /\ i \notin up /\ k # i OBVIOUS
<1>7. r \in {NoEffect(m), NoEffect(n), runAvenueLadder(failed)} BY DEF reduceDialOutcome, at
<1> HIDE DEF n, failed, up, st
<1>8. runAvenueLadder(failed) = NoEffect(failed)
  BY <1>5, <1>6, WaitingLadder DEF Awaited
<1>9. r \in {NoEffect(m), NoEffect(n), NoEffect(failed)} BY <1>7, <1>8
<1> SUFFICES KeepsWaiting(m, r, i) OBVIOUS
<1> HIDE DEF r, k
<1>10. CASE r = NoEffect(m)
  <2>1. r.m = m /\ r.fx = <<>> BY <1>10 DEF NoEffect, Result
  <2> QED BY <1>1, <1>6, <2>1, WaitingKept
<1>11. CASE r = NoEffect(n)
  <2>1. r.m = n /\ r.fx = <<>> BY <1>11 DEF NoEffect, Result
  <2>2. /\ r.m.state = m.state /\ r.m.direction = m.direction /\ r.m.dialed = m.dialed
        /\ r.m.legs[i].status = m.legs[i].status /\ r.m.legs[i].ccid = m.legs[i].ccid
        /\ \A j \in LegId : r.m.legs[j].ccid \in {m.legs[j].ccid, k}
    BY <1>3, <1>4, <1>6, <2>1
  <2> QED BY <1>1, <1>6, <2>1, <2>2, WaitingKept
<1>12. CASE r = NoEffect(failed)
  <2>1. r.m = failed /\ r.fx = <<>> BY <1>12 DEF NoEffect, Result
  <2> QED BY <1>1, <1>5, <1>6, <2>1, WaitingKept
<1> QED BY <1>9, <1>10, <1>11, <1>12

\* and the settling of the push.
LEMMA reducePushFanoutSettledCalm ==
  ASSUME NEW m, MachineOK(m), NEW i \in LegId, Awaited(m, i), NEW ev
  PROVE  KeepsWaiting(m, reducePushFanoutSettled(m, ev), i)
<1> DEFINE n == [m EXCEPT !.push = @ \ ev.unreachable]
           r == reducePushFanoutSettled(m, ev)
<1>1. n.legs = m.legs /\ n.state = m.state /\ n.direction = m.direction /\ n.dialed = m.dialed
  BY DEF MachineOK, SessionMachine
<1>2. r = Result(runAvenueLadder(n).m, <<Clear("fanout-settle")>> \o runAvenueLadder(n).fx)
  BY DEF reducePushFanoutSettled
<1> SUFFICES KeepsWaiting(m, r, i) OBVIOUS
<1> HIDE DEF n, r
<1>3. runAvenueLadder(n) = NoEffect(n) BY <1>1, WaitingLadder DEF Awaited
<1>4. r.m = n /\ r.fx = <<Clear("fanout-settle")>> \o <<>> BY <1>2, <1>3 DEF NoEffect, Result
<1>5. Eff(r.fx) \subseteq {Clear("fanout-settle")}
  <2>1. r.fx = <<Clear("fanout-settle")>> BY <1>4
  <2> QED BY <2>1, Lists1 DEF Lists
<1>6. i # NoLeg BY DEF LegId, NoLeg
<1>7. /\ r.m.state = m.state /\ r.m.direction = m.direction /\ r.m.dialed = m.dialed
      /\ r.m.legs[i].status = m.legs[i].status /\ r.m.legs[i].ccid = m.legs[i].ccid
      /\ \A j \in LegId : r.m.legs[j].ccid \in {m.legs[j].ccid, NoLeg}
  BY <1>1, <1>4
<1> QED BY <1>5, <1>6, <1>7, WaitingKept

\* CalmKeeps: what is calm keeps what is awaited waiting.
LEMMA CalmKeeps ==
  ASSUME NEW m, MachineOK(m), NEW i \in LegId, Awaited(m, i), NEW ev \in Event, ev.type \in Calm,
         IsOutcome(ev) => ev.leg # i /\ m.direction = "inbound"
  PROVE  KeepsWaiting(m, reduce(m, ev), i)
<1>1. ~isNone(m) BY DEF Awaited, Presenting, isNone
<1>2. CASE ev.type = "dial-outcome"
  <2>1. ev.leg \in LegId BY <1>2, EventFields
  <2>2. reduce(m, ev) = reduceDialOutcome(m, ev) BY <1>1, <1>2 DEF reduce, handle
  <2> QED BY <1>2, <2>1, <2>2, reduceDialOutcomeCalm DEF IsOutcome
<1>3. CASE ev.type = "push-fanout-settled"
  <2>1. reduce(m, ev) = reducePushFanoutSettled(m, ev) BY <1>1, <1>3 DEF reduce, handle
  <2> QED BY <2>1, reducePushFanoutSettledCalm
<1> QED BY <1>2, <1>3 DEF Calm


(***************************************************************************)
(* Who talks.  A record becomes answered only as the winner of the answer  *)
(* of the customer's leg or as the placer's own leg, and the same commit   *)
(* asks for its bridge (answerWon, reduceOutboundPlacerAnswered); every    *)
(* other handler can only take answered records away, and asks the         *)
(* provider to connect nobody.                                             *)
(***************************************************************************)
JoinKinds == {"telnyx-answer-inbound", "telnyx-probe-member-leg", "telnyx-bridge"}

Sober(fx) == \E S : Lists(fx, S) /\ \A e \in S : e.kind \notin JoinKinds

\* Every record answered in n was answered in m, for the same leg.
Shrinks(m, n) ==
  \A j \in LegId : n.legs[j].status = "answered"
    => m.legs[j].status = "answered" /\ n.legs[j].ccid = m.legs[j].ccid

Unjoined(m, r) == Shrinks(m, r.m) /\ Sober(r.fx) /\ (r.m.state = "answered" => m.state = "answered")

\* The effects that connect nobody,
LEMMA SoberKinds ==
  /\ \A set : Mirror(set).kind \notin JoinKinds
  /\ \A f, t : Dial(f, t).kind \notin JoinKinds
  /\ \A ls : HangupLegs(ls).kind \notin JoinKinds /\ Speak(ls).kind \notin JoinKinds
  /\ \A o : TerminalMerge(o).kind \notin JoinKinds /\ PushCallEnd(o).kind \notin JoinKinds
  /\ \A a : Arm(a).kind \notin JoinKinds /\ Clear(a).kind \notin JoinKinds
  /\ {AnswerNotice.kind, AnswerVm.kind, HangupCustomer.kind, Reject.kind, RecordStart.kind,
      PushFanout.kind, VoicemailPipeline.kind} \cap JoinKinds = {}
  BY DEF JoinKinds, Mirror, Dial, HangupLegs, Speak, TerminalMerge, PushCallEnd, Arm, Clear,
     AnswerNotice, AnswerVm, HangupCustomer, Reject, RecordStart, PushFanout, VoicemailPipeline

\* and the lists the handlers build from them.
LEMMA SoberLists ==
  /\ Sober(<<>>)
  /\ \A a : a.kind \notin JoinKinds => Sober(<<a>>)
  /\ \A a, b : a.kind \notin JoinKinds /\ b.kind \notin JoinKinds => Sober(<<a, b>>)
  /\ \A x, y : Sober(x) /\ Sober(y) => Sober(x \o y)
  /\ \A b, x : Sober(x) => Sober(When(b, x))
  /\ \A ls : Sober(Hangups(ls))
<1>1. Sober(<<>>)
  <2>1. Lists(<<>>, {}) BY Lists0
  <2> QED BY <2>1 DEF Sober
<1>2. ASSUME NEW a, a.kind \notin JoinKinds PROVE Sober(<<a>>)
  <2>1. Lists(<<a>>, {a}) BY Lists1
  <2> QED BY <1>2, <2>1 DEF Sober
<1>3. ASSUME NEW a, NEW b, a.kind \notin JoinKinds, b.kind \notin JoinKinds PROVE Sober(<<a, b>>)
  <2>1. Lists(<<a, b>>, {a, b}) BY Lists2
  <2> QED BY <1>3, <2>1 DEF Sober
<1>4. ASSUME NEW x, NEW y, Sober(x), Sober(y) PROVE Sober(x \o y)
  <2>1. PICK S : Lists(x, S) /\ \A e \in S : e.kind \notin JoinKinds BY <1>4 DEF Sober
  <2>2. PICK T : Lists(y, T) /\ \A e \in T : e.kind \notin JoinKinds BY <1>4 DEF Sober
  <2>3. Lists(x \o y, S \cup T) BY <2>1, <2>2, ListsConcat
  <2> QED BY <2>1, <2>2, <2>3 DEF Sober
<1>5. ASSUME NEW b, NEW x, Sober(x) PROVE Sober(When(b, x))
  BY <1>1, <1>5 DEF When
<1>6. ASSUME NEW ls PROVE Sober(Hangups(ls))
  <2>1. Sober(<<HangupLegs(ls)>>) BY <1>2, SoberKinds
  <2> QED BY <1>1, <2>1 DEF Hangups, When
<1> QED BY <1>1, <1>2, <1>3, <1>4, <1>5, <1>6

\* A list that connects nobody holds no effect that would.
LEMMA SoberSays ==
  ASSUME NEW fx, Sober(fx) PROVE \A e \in Eff(fx) : e.kind \notin JoinKinds
  BY DEF Sober, Lists

\* Taking records away adds up,
LEMMA ShrinksTwice ==
  ASSUME NEW m, NEW n, NEW o, Shrinks(m, n), Shrinks(n, o) PROVE Shrinks(m, o)
  BY DEF Shrinks

LEMMA ShrinksSame == ASSUME NEW m, NEW n, n.legs = m.legs PROVE Shrinks(m, n)
  BY DEF Shrinks

\* and no other status, new id or new record makes one answered.
LEMMA ShrinksSet ==
  ASSUME NEW m, MachineOK(m), NEW ls, NEW st, st # "answered" PROVE Shrinks(m, SetStatus(m, ls, st))
<1> DEFINE n == SetStatus(m, ls, st)
<1>1. \A j \in LegId : /\ n.legs[j].ccid = m.legs[j].ccid
                       /\ n.legs[j].status = IF j \in ls THEN st ELSE m.legs[j].status
  BY SetStatusIs
<1> HIDE DEF n
<1>2. Shrinks(m, n) BY <1>1 DEF Shrinks
<1> QED BY <1>2 DEF n

LEMMA ShrinksStamp ==
  ASSUME NEW m, MachineOK(m), NEW i \in LegId, NEW c, m.legs[i].status # "answered"
  PROVE  Shrinks(m, Stamp(m, i, c))
<1> DEFINE n == Stamp(m, i, c)
<1>1. \A j \in LegId : /\ n.legs[j].status = m.legs[j].status
                       /\ n.legs[j].ccid = IF j = i THEN c ELSE m.legs[j].ccid
  BY StampIsAt
<1> HIDE DEF n
<1>2. Shrinks(m, n) BY <1>1 DEF Shrinks
<1> QED BY <1>2 DEF n

LEMMA ShrinksPush ==
  ASSUME NEW m, MachineOK(m), m.dialed < MaxLegs, NEW u, NEW b PROVE Shrinks(m, PushLeg(m, u, b))
<1> DEFINE n == PushLeg(m, u, b)
           k == m.dialed + 1
<1>1. n.legs[k].status = "dialing" /\ \A j \in LegId \ {k} : n.legs[j] = m.legs[j] BY PushLegIsAt
<1> HIDE DEF n
<1>2. Shrinks(m, n) BY <1>1 DEF Shrinks
<1> QED BY <1>2 DEF n

LEMMA ShrinksLocated ==
  ASSUME NEW m, MachineOK(m), NEW ev, NEW b PROVE Shrinks(m, Located(m, ev, b).m)
<1> DEFINE new == Adoptable(m, ev.user)
<1>1. new # {} => First(new) \in new
  <2>1. new \in SUBSET Nat BY MaxLegsAssumption DEF Adoptable, LegId
  <2> QED BY <2>1, FirstIn
<1>2. \A i \in new : i \in LegId /\ m.legs[i].status # "answered" BY DEF Adoptable
<1> HIDE DEF new
<1>3. new # {} => Shrinks(m, Stamp(m, First(new), ev.leg)) BY <1>1, <1>2, ShrinksStamp
<1> QED BY <1>3, ShrinksSame DEF Located, new


\* The endings the handlers share: the greeting, the ladder, the sweep of the legs,
LEMMA UnjoinedVm ==
  ASSUME NEW m, MachineOK(m) PROVE LET r == vmEntry(m) IN Unjoined(m, r) /\ r.m.state # "answered"
<1> DEFINE r  == vmEntry(m)
           fx == << Mirror([state |-> "voicemail_greeting"]), Clear("ring"), Clear("ring-step"),
                    AnswerVm, PushCallEnd("voicemail") >>
<1>1. r.fx = fx BY DEF vmEntry, Result
<1>2. r.m.legs = m.legs /\ r.m.state = "voicemail_greeting" BY vmEntryGreets
<1>3. Sober(fx)
  <2>1. Lists(fx, {Mirror([state |-> "voicemail_greeting"]), Clear("ring"), Clear("ring-step"),
                   AnswerVm, PushCallEnd("voicemail")})
    BY Lists5
  <2>2. AnswerVm.kind \notin JoinKinds BY SoberKinds
  <2> QED BY <2>1, <2>2, SoberKinds DEF Sober
<1> HIDE DEF r, fx
<1>4. Unjoined(m, r) /\ r.m.state # "answered" BY <1>1, <1>2, <1>3, ShrinksSame DEF Unjoined
<1> QED BY <1>4 DEF r

LEMMA UnjoinedLadder ==
  ASSUME NEW m, MachineOK(m) PROVE Unjoined(m, runAvenueLadder(m))
<1>1. Unjoined(m, NoEffect(m)) BY ShrinksSame, SoberLists DEF Unjoined, NoEffect, Result
<1> QED BY <1>1, UnjoinedVm DEF runAvenueLadder

LEMMA UnjoinedCancel ==
  ASSUME NEW m, MachineOK(m) PROVE Unjoined(m, cancelAllLiveLegs(m))
<1> DEFINE ls == LegsWith(m, {"dialing", "ringing"})
           n  == SetStatus(m, ls, "canceling")
<1>1. Shrinks(m, n) BY ShrinksSet
<1>2. n.state = m.state BY SetStatusIs
<1>3. Sober(Hangups(CcidsOf(m, ls))) BY SoberLists
<1> HIDE DEF n
<1> QED BY <1>1, <1>2, <1>3 DEF Unjoined, cancelAllLiveLegs, Result, n

\* and the end of the call.
LEMMA UnjoinedEnd ==
  ASSUME NEW m, MachineOK(m), NEW target \in TerminalStates, NEW merged, NEW reason, NEW extra
  PROVE  Unjoined(m, terminalize(m, target, merged, reason, extra))
<1> DEFINE on   == [m EXCEPT !.state = target]
           cut  == cancelAllLiveLegs(on)
           op   == PlacerToReap(m)
           n    == SetStatus(cut.m, op, "dead")
           r    == terminalize(m, target, merged, reason, extra)
           two  == << Mirror(Written([state |-> target], extra)), TerminalMerge(merged) >>
           four == << Clear("ring"), Clear("ring-step"), Clear("fanout-settle"), Arm("purge") >>
<1>1. MachineOK(on) /\ on.legs = m.legs
  <2>1. target \in CallStates BY DEF CallStates
  <2>2. on.legs = m.legs BY DEF MachineOK, SessionMachine
  <2> QED BY <2>1, <2>2, StateOK
<1> HIDE DEF on
<1>2. MachineOK(cut.m) /\ Unjoined(on, cut) BY <1>1, cancelAllLiveLegsGivesUp, UnjoinedCancel
<1> HIDE DEF cut
<1>3. Shrinks(cut.m, n) BY <1>2, ShrinksSet
<1>4. Shrinks(m, n) BY <1>1, <1>2, <1>3, ShrinksTwice, ShrinksSame DEF Unjoined
<1>5. Sober(two) /\ Sober(cut.fx) BY <1>2, SoberKinds, SoberLists DEF Unjoined
<1>6. Sober(four)
  <2>1. Lists(four, {Clear("ring"), Clear("ring-step"), Clear("fanout-settle"), Arm("purge")})
    BY Lists4
  <2> QED BY <2>1, SoberKinds DEF Sober
<1>7. Sober(<<PushCallEnd(reason)>>) BY SoberKinds, SoberLists
<1> HIDE DEF two, four, n, op
<1>8. Sober((((cut.fx \o Hangups(CcidsOf(m, op))) \o two)
              \o When(m.state = "ringing" /\ reason # "null", <<PushCallEnd(reason)>>))
             \o When(~isTerminal(m.state), four))
  BY <1>5, <1>6, <1>7, SoberLists
<1>9. r.m = n
  BY DEF terminalize, Result, n, op, cut, on
<1>10. r.fx = (((cut.fx \o Hangups(CcidsOf(m, op))) \o two)
                \o When(m.state = "ringing" /\ reason # "null", <<PushCallEnd(reason)>>))
               \o When(~isTerminal(m.state), four)
  BY DEF terminalize, Result, two, four, op, cut, on
<1>11. r.m.state # "answered"
  <2>1. r.m.state = target BY terminalizeEnds
  <2> QED BY <2>1 DEF TerminalStates
<1> HIDE DEF r
<1>12. Unjoined(m, r) BY <1>4, <1>8, <1>9, <1>10, <1>11 DEF Unjoined
<1> QED BY <1>12 DEF r

\* A handler that changes a machine and then ends like one of these.
LEMMA UnjoinedAfter ==
  ASSUME NEW m, NEW n, Shrinks(m, n), n.state = "answered" => m.state = "answered",
         NEW r, Unjoined(n, r)
  PROVE  /\ Unjoined(m, r)
         /\ \A x : Sober(x) => /\ Unjoined(m, Result(r.m, x \o r.fx))
                               /\ Unjoined(m, Result(r.m, r.fx \o x))
<1>1. Shrinks(m, r.m) BY ShrinksTwice DEF Unjoined
<1>2. Sober(r.fx) /\ (r.m.state = "answered" => m.state = "answered") BY DEF Unjoined
<1> QED BY <1>1, <1>2, SoberLists DEF Unjoined, Result

LEMMA UnjoinedPlain ==
  ASSUME NEW m, NEW n, Shrinks(m, n), n.state = "answered" => m.state = "answered"
  PROVE  Unjoined(m, NoEffect(n)) /\ \A x : Sober(x) => Unjoined(m, Result(n, x))
  BY SoberLists DEF Unjoined, NoEffect, Result

LEMMA UnjoinedSame ==
  ASSUME NEW m, NEW n, n.legs = m.legs, n.state = m.state
  PROVE  Unjoined(m, NoEffect(n)) /\ \A x : Sober(x) => Unjoined(m, Result(n, x))
  BY ShrinksSame, UnjoinedPlain


\* A member's or the placer's leg hung up, or a dial reported.
LEMMA UnjoinedLegs ==
  ASSUME NEW m, MachineOK(m), NEW ev, ev.leg \in LegId,
         m.legs[ev.leg].status = "answered" => m.legs[ev.leg].ccid # NoLeg
  PROVE  /\ Unjoined(m, reduceMemberHangup(m, ev))
         /\ Unjoined(m, reduceOutboundPlacerHangup(m, ev))
         /\ Unjoined(m, reduceDialOutcome(m, ev))
<1>0. Unjoined(m, NoEffect(m)) BY UnjoinedSame
<1>1. Unjoined(m, reduceMemberHangup(m, ev))
  <2> DEFINE b    == m.state = "ringing"
             at   == Located(m, ev, b)
             dead == SetStatus(at.m, {at.leg}, "dead")
             off  == [dead EXCEPT !.ownerLegDead = ev.user]
             down == [dead EXCEPT !.ownerLegDead = NoUser]
  <2>1. MachineOK(at.m) /\ Shrinks(m, at.m) /\ at.m.state = m.state
    <3>1. b \in BOOLEAN OBVIOUS
    <3> HIDE DEF b
    <3> QED BY <3>1, LocatedIs, ShrinksLocated, SameState
  <2>2. MachineOK(dead) /\ Shrinks(at.m, dead) /\ dead.state = m.state
    BY <2>1, SetStatusOK, ShrinksSet, SetStatusIs DEF LegStatus
  <2>3. Shrinks(m, dead) BY <2>1, <2>2, ShrinksTwice
  <2>4. off.legs = dead.legs /\ off.state = dead.state /\ down.legs = dead.legs /\ down.state = dead.state
    BY <2>2 DEF MachineOK, SessionMachine
  <2> HIDE DEF at, dead, off, down
  <2>5. Shrinks(m, off) /\ Shrinks(m, down) BY <2>3, <2>4 DEF Shrinks
  <2>6. Sober(<<HangupCustomer>>) BY SoberKinds, SoberLists
  <2>7. Unjoined(m, runAvenueLadder(dead)) BY <2>2, <2>3, UnjoinedLadder, UnjoinedAfter
  <2>8. Unjoined(m, NoEffect(dead)) /\ Unjoined(m, NoEffect(off))
          /\ Unjoined(m, Result(down, <<HangupCustomer>>))
    BY <2>2, <2>3, <2>4, <2>5, <2>6, UnjoinedPlain
  <2> QED BY <1>0, <2>7, <2>8 DEF reduceMemberHangup, ownerDeathTeardown, at, dead, off, down
<1>2. Unjoined(m, reduceOutboundPlacerHangup(m, ev))
  <2> DEFINE n    == SetStatus(m, {FindLeg(m, ev.leg)} \ {NoLeg}, "dead")
             over == terminalize(n, "ended_missed", "missed", "null", NoColumns)
             off  == [n EXCEPT !.ownerLegDead = ev.user]
             down == [n EXCEPT !.ownerLegDead = NoUser]
  <2>1. MachineOK(n) /\ Shrinks(m, n) /\ n.state = m.state
    BY SetStatusOK, ShrinksSet, SetStatusIs DEF LegStatus
  <2>2. off.legs = n.legs /\ off.state = n.state /\ down.legs = n.legs /\ down.state = n.state
    BY <2>1 DEF MachineOK, SessionMachine
  <2>3. Sober(<<HangupCustomer>>) BY SoberKinds, SoberLists
  <2> HIDE DEF n, off, down
  <2>4. Unjoined(n, over) BY <2>1, UnjoinedEnd, EndingsIn
  <2> HIDE DEF over
  <2>5. Unjoined(m, Result(over.m, over.fx \o <<HangupCustomer>>))
    BY <2>1, <2>3, <2>4, UnjoinedAfter
  <2>6. Shrinks(m, off) /\ Shrinks(m, down) BY <2>1, <2>2 DEF Shrinks
  <2>7. Unjoined(m, NoEffect(n)) /\ Unjoined(m, NoEffect(off))
          /\ Unjoined(m, Result(down, <<HangupCustomer>>))
    BY <2>1, <2>2, <2>3, <2>6, UnjoinedPlain
  <2> QED BY <1>0, <2>5, <2>7 DEF reduceOutboundPlacerHangup, ownerDeathTeardown, n, over, off, down
<1>3. Unjoined(m, reduceDialOutcome(m, ev))
  <2> DEFINE stamp   == Stamp(m, ev.leg, ev.leg)
             stamped == SetStatus(stamp, IF m.legs[ev.leg].status = "dialing" THEN {ev.leg} ELSE {},
                                  "ringing")
             failed  == SetStatus(m, {ev.leg},
                                  IF ev.outcome = "ambiguous" THEN "ambiguous" ELSE "dead")
             over    == terminalize(failed, "ended_missed", "missed", "null", NoColumns)
  <2>1. MachineOK(stamp) /\ stamp.state = m.state
          /\ \A j \in LegId : /\ stamp.legs[j].status = m.legs[j].status
                              /\ j # ev.leg => stamp.legs[j].ccid = m.legs[j].ccid
    BY StampOK, StampIsAt
  <2>2. MachineOK(failed) /\ Shrinks(m, failed) /\ failed.state = m.state
    BY SetStatusOK, ShrinksSet, SetStatusIs DEF LegStatus
  <2> HIDE DEF stamp, failed
  <2>3. Shrinks(stamp, stamped) /\ stamped.state = stamp.state BY <2>1, ShrinksSet, SetStatusIs
  <2> HIDE DEF stamped
  <2>4. Unjoined(m, runAvenueLadder(failed)) BY <2>2, UnjoinedLadder, UnjoinedAfter
  <2>5. Unjoined(failed, over) BY <2>2, UnjoinedEnd, EndingsIn
  <2> HIDE DEF over
  <2>6. Sober(<<HangupCustomer>>) BY SoberKinds, SoberLists
  <2>7. Unjoined(m, Result(over.m, over.fx \o <<HangupCustomer>>))
    BY <2>2, <2>5, <2>6, UnjoinedAfter
  <2>8. Unjoined(m, NoEffect(failed)) BY <2>2, UnjoinedPlain
  <2>9. m.legs[ev.leg].status # "answered" => Unjoined(m, NoEffect(stamped))
    <3>1. m.legs[ev.leg].status # "answered" => Shrinks(m, stamp) BY <2>1 DEF Shrinks
    <3> QED BY <2>1, <2>3, <3>1, ShrinksTwice, UnjoinedPlain
  <2> QED BY <1>0, <2>4, <2>7, <2>8, <2>9 DEF reduceDialOutcome, stamp, stamped, failed, over
<1> QED BY <1>1, <1>2, <1>3


\* The customer's leg hung up, or was found gone.
LEMMA UnjoinedHangups ==
  ASSUME NEW m, MachineOK(m), NEW ev
  PROVE  /\ ev.tag \in {"untagged", "bri", "vmi"} => Unjoined(m, reduceInboundHangup(m, ev))
         /\ Unjoined(m, reduceOutboundHangup(m, ev))
         /\ Unjoined(m, reduceInboundLegGone(m))
         /\ Unjoined(m, reduceAlarmJanitor(m))
<1>0. Unjoined(m, NoEffect(m)) BY UnjoinedSame
<1>1. \A target \in TerminalStates : \A merged, reason, extra :
        Unjoined(m, terminalize(m, target, merged, reason, extra))
  BY UnjoinedEnd
<1>2. MachineOK(StampFromIntent(m)) /\ StampFromIntent(m).legs = m.legs
        /\ StampFromIntent(m).state = m.state
  BY StampFromIntentIs DEF StampFromIntent, MachineOK, SessionMachine
<1>3. Unjoined(m, briHangup(m, ev))
  <2> DEFINE by == IF m.owner = NoUser /\ m.answerIntent # NoUser THEN StampFromIntent(m) ELSE m
             r  == terminalize(by, "ended_answered", ev.merged, "answered", OwnerColumns(by))
  <2>1. MachineOK(by) /\ by.legs = m.legs /\ by.state = m.state BY <1>2
  <2> HIDE DEF by
  <2>2. Unjoined(by, r) BY <2>1, UnjoinedEnd, EndingsIn
  <2> HIDE DEF r
  <2>3. Unjoined(m, r) BY <2>1, <2>2, ShrinksSame, UnjoinedAfter
  <2> QED BY <2>3 DEF briHangup, by, r
<1>4. Unjoined(m, briUpgrade(m, ev))
  <2> DEFINE by == IF m.answerIntent # NoUser THEN StampFromIntent(m) ELSE m
             up == [by EXCEPT !.state = "ended_answered"]
             fx == << Mirror(Written([state |-> "ended_answered"], OwnerColumns(up))),
                      TerminalMerge(ev.merged) >>
  <2>1. MachineOK(by) /\ by.legs = m.legs BY <1>2
  <2> HIDE DEF by
  <2>2. up.legs = by.legs /\ up.state = "ended_answered" BY <2>1 DEF MachineOK, SessionMachine
  <2>3. Sober(fx) BY SoberKinds, SoberLists
  <2> HIDE DEF up, fx
  <2>4. Unjoined(m, Result(up, fx)) BY <2>1, <2>2, <2>3, ShrinksSame, UnjoinedPlain
  <2> QED BY <2>4 DEF briUpgrade, up, by, fx
<1>5. ev.tag \in {"untagged", "bri", "vmi"} => Unjoined(m, reduceInboundHangup(m, ev))
  BY <1>0, <1>1, <1>3, <1>4, EndingsIn DEF reduceInboundHangup
<1>6. Unjoined(m, reduceOutboundHangup(m, ev)) /\ Unjoined(m, reduceInboundLegGone(m))
        /\ Unjoined(m, reduceAlarmJanitor(m))
  BY <1>0, <1>1, EndingsIn DEF reduceOutboundHangup, reduceInboundLegGone, reduceAlarmJanitor
<1> QED BY <1>5, <1>6

\* What was played or recorded, and the outcomes of answering the customer's leg for it.
LEMMA UnjoinedMedia ==
  ASSUME NEW m, MachineOK(m), NEW ev
  PROVE  /\ Unjoined(m, reduceSpeakEnded(m))
         /\ Unjoined(m, reduceRecordingSaved(m))
         /\ Unjoined(m, reduceNoticeAnswerOutcome(m, ev))
         /\ Unjoined(m, reduceVmAnswerOutcome(m, ev))
<1>0. Unjoined(m, NoEffect(m)) /\ \A x : Sober(x) => Unjoined(m, Result(m, x)) BY UnjoinedSame
<1>1. \A s : LET n == [m EXCEPT !.state = s] IN n.legs = m.legs /\ n.state = s
  BY DEF MachineOK, SessionMachine
<1>2. Unjoined(m, reduceSpeakEnded(m))
  <2> DEFINE n  == [m EXCEPT !.state = "voicemail_recording"]
             fx == << Mirror([state |-> "voicemail_recording"]), RecordStart >>
  <2>1. Sober(<<HangupCustomer>>) /\ Sober(fx) BY SoberKinds, SoberLists
  <2>2. Shrinks(m, n) /\ n.state # "answered" BY <1>1, ShrinksSame
  <2> HIDE DEF n, fx
  <2>3. Unjoined(m, Result(n, fx)) BY <2>1, <2>2, UnjoinedPlain
  <2> QED BY <1>0, <2>1, <2>3 DEF reduceSpeakEnded, n, fx
<1>3. Unjoined(m, reduceRecordingSaved(m))
  <2> DEFINE n  == [m EXCEPT !.state = "ended_voicemail"]
             fx == << VoicemailPipeline, Mirror([state |-> "ended_voicemail"]) >>
             w  == When(m.state = "voicemail_recording", <<Arm("purge")>>)
  <2>1. Sober(fx) /\ Sober(<<Arm("purge")>>) BY SoberKinds, SoberLists
  <2>2. Shrinks(m, n) /\ n.state # "answered" BY <1>1, ShrinksSame
  <2> HIDE DEF n, fx
  <2>3. Sober(w) BY <2>1, SoberLists
  <2> HIDE DEF w
  <2>4. Sober(fx \o w) BY <2>1, <2>3, SoberLists
  <2>5. Unjoined(m, Result(n, fx \o w)) BY <2>2, <2>4, UnjoinedPlain
  <2> QED BY <1>0, <2>5 DEF reduceRecordingSaved, n, fx, w
<1>4. Unjoined(m, reduceNoticeAnswerOutcome(m, ev))
  <2> DEFINE n  == [m EXCEPT !.noticeSpoken = FALSE]
             fx == <<Mirror([notice_spoken |-> FALSE])>>
             sp == <<Speak("unavailable-notice")>>
  <2>1. Sober(fx) /\ Sober(sp) BY SoberKinds, SoberLists
  <2>2. n.legs = m.legs /\ n.state = m.state BY DEF MachineOK, SessionMachine
  <2> HIDE DEF n, fx, sp
  <2>3. Unjoined(m, Result(n, fx)) /\ Unjoined(m, Result(m, sp)) BY <2>1, <2>2, UnjoinedSame
  <2> QED BY <1>0, <2>3 DEF reduceNoticeAnswerOutcome, n, fx, sp
<1>5. Unjoined(m, reduceVmAnswerOutcome(m, ev))
  <2> DEFINE cut == cancelAllLiveLegs(m)
             st  == MissedState(m)
             sp  == <<Speak("voicemail-greeting")>>
  <2>1. Unjoined(m, cut) BY UnjoinedCancel
  <2>2. Unjoined(m, terminalize(m, st, "missed", "null", NoColumns)) BY UnjoinedEnd, EndingsIn
  <2>3. Sober(sp) BY SoberKinds, SoberLists
  <2> HIDE DEF cut, st, sp
  <2>4. Unjoined(m, Result(cut.m, sp \o cut.fx))
    <3>1. Shrinks(m, m) BY ShrinksSame
    <3> QED BY <2>1, <2>3, <3>1, UnjoinedAfter
  <2> QED BY <1>0, <2>2, <2>4 DEF reduceVmAnswerOutcome, cut, st, sp
<1> QED BY <1>2, <1>3, <1>4, <1>5

\* The members' requests and the alarms.
LEMMA UnjoinedAsked ==
  ASSUME NEW m, MachineOK(m), NEW ev
  PROVE  /\ Unjoined(m, reduceRingMe(m, ev))
         /\ Unjoined(m, reduceDecline(m, ev))
         /\ Unjoined(m, reduceSetOwner(m, ev))
         /\ Unjoined(m, reduceRegisterIntent(m))
         /\ Unjoined(m, reduceClearIntent(m))
         /\ Unjoined(m, reduceAlarmRing(m))
         /\ Unjoined(m, reduceAlarmRingStep(m, ev))
         /\ Unjoined(m, reducePushFanoutSettled(m, ev))
<1>0. Unjoined(m, NoEffect(m)) /\ \A x : Sober(x) => Unjoined(m, Result(m, x)) BY UnjoinedSame
<1>d. \A i, j : Sober(<<Dial(i, j)>>) BY SoberKinds, SoberLists
<1>n. m.dialed \in Nat /\ MaxLegs \in Nat
  BY MaxLegsAssumption DEF MachineOK, SessionMachine
<1>1. Unjoined(m, reduceRingMe(m, ev))
  <2> DEFINE n  == PushLeg(m, ev.user, TRUE)
             d  == m.dialed + 1
             fx == <<Dial(d, d)>>
  <2>1. m.dialed < MaxLegs => Shrinks(m, n) BY ShrinksPush
  <2>2. n.state = m.state BY DEF PushLeg, MachineOK, SessionMachine
  <2>3. Sober(fx) BY <1>d
  <2>4. m.dialed >= MaxLegs \/ m.dialed < MaxLegs BY <1>n
  <2>5. /\ reduceRingMe(m, ev) \in {NoEffect(m), Result(n, fx)}
        /\ m.dialed >= MaxLegs => reduceRingMe(m, ev) = NoEffect(m)
    BY DEF reduceRingMe
  <2> HIDE DEF n, fx
  <2>6. m.dialed < MaxLegs => Unjoined(m, Result(n, fx)) BY <2>1, <2>2, <2>3, UnjoinedPlain
  <2> QED BY <1>0, <2>4, <2>5, <2>6
<1>2. Unjoined(m, reduceDecline(m, ev))
  <2> DEFINE mine == {i \in liveLegs(m) : m.legs[i].user = ev.user}
             dead == SetStatus(m, mine, "dead")
             n    == [dead EXCEPT !.declined = @ \cup {ev.user}, !.push = @ \ {ev.user},
                                  !.queue = @ \ {ev.user}]
             vm   == vmEntry(n)
             pre  == Hangups(CcidsOf(m, mine))
  <2>1. MachineOK(dead) /\ Shrinks(m, dead) /\ dead.state = m.state
    BY SetStatusOK, ShrinksSet, SetStatusIs DEF LegStatus
  <2> HIDE DEF dead
  <2>2. n.legs = dead.legs /\ n.state = dead.state BY <2>1 DEF MachineOK, SessionMachine
  <2>3. vm.m.legs = n.legs /\ vm.m.state = "voicemail_greeting"
    BY <2>1 DEF vmEntry, Result, MachineOK, SessionMachine
  <2>4. vm.fx = vmEntry(m).fx BY DEF vmEntry, Result
  <2>5. Sober(vm.fx) BY <2>4, UnjoinedVm DEF Unjoined
  <2>6. Sober(pre) BY SoberLists
  <2> HIDE DEF n, vm, pre
  <2>7. Shrinks(m, n) /\ Shrinks(m, vm.m) BY <2>1, <2>2, <2>3 DEF Shrinks
  <2>8. Unjoined(m, Result(n, pre \o <<>>)) /\ Unjoined(m, Result(vm.m, pre \o vm.fx))
    BY <2>1, <2>2, <2>3, <2>5, <2>6, <2>7, SoberLists, UnjoinedPlain
  <2>9. reduceDecline(m, ev) \in {NoEffect(m), Result(n, pre \o <<>>), Result(vm.m, pre \o vm.fx)}
    BY DEF reduceDecline, runAvenueLadder, NoEffect, Result, n, vm, pre, dead
  <2> QED BY <1>0, <2>8, <2>9
<1>3. Unjoined(m, reduceSetOwner(m, ev))
  <2> DEFINE n  == [m EXCEPT !.owner = ev.user, !.ownerLegDead = NoUser]
             fx == <<Mirror([answered_by_user_id |-> ev.user])>>
  <2>1. n.legs = m.legs /\ n.state = m.state BY DEF MachineOK, SessionMachine
  <2>2. Sober(fx) BY SoberKinds, SoberLists
  <2> HIDE DEF n, fx
  <2>3. Unjoined(m, Result(n, fx)) BY <2>1, <2>2, UnjoinedSame
  <2> QED BY <2>3 DEF reduceSetOwner, n, fx
<1>4. Unjoined(m, reduceRegisterIntent(m))
  <2> DEFINE n  == [m EXCEPT !.intent = TRUE]
             fx == <<Arm("intent-expiry")>>
  <2>1. n.legs = m.legs /\ n.state = m.state BY DEF MachineOK, SessionMachine
  <2>2. Sober(fx) BY SoberKinds, SoberLists
  <2> HIDE DEF n, fx
  <2>3. Unjoined(m, Result(n, fx)) BY <2>1, <2>2, UnjoinedSame
  <2> QED BY <2>3 DEF reduceRegisterIntent, n, fx
<1>5. Unjoined(m, reduceClearIntent(m))
  <2> DEFINE n  == [[m EXCEPT !.intent = FALSE] EXCEPT !.ownerLegDead = NoUser]
             one == <<Clear("intent-expiry")>>
             two == <<HangupCustomer>>
  <2>1. n.legs = m.legs /\ n.state = m.state BY DEF MachineOK, SessionMachine
  <2>2. Sober(one) /\ Sober(two) BY SoberKinds, SoberLists
  <2>3. reduceClearIntent(m) \in {Result(n, one \o two), Result(n, one)}
    BY DEF reduceClearIntent, ownerDeathTeardown, Result
  <2> HIDE DEF n, one, two
  <2>4. Sober(one \o two) BY <2>2, SoberLists
  <2>5. Unjoined(m, Result(n, one)) /\ Unjoined(m, Result(n, one \o two))
    BY <2>1, <2>2, <2>4, UnjoinedSame
  <2> QED BY <2>3, <2>5
<1>6. Unjoined(m, reduceAlarmRing(m)) BY <1>0, UnjoinedVm DEF reduceAlarmRing
<1>7. Unjoined(m, reduceAlarmRingStep(m, ev))
  <2> DEFINE waiting == m.queue \ m.declined
             user    == Foremost(m.order, waiting)
             popped  == [m EXCEPT !.queue = waiting \ {user}]
             none    == [m EXCEPT !.queue = {}]
             next    == PushLeg(popped, user, FALSE)
             one     == <<Dial(next.dialed, next.dialed)>>
             two     == armRingStep(next, ev.fits)
  <2>1. MachineOK(popped) BY FieldsOK, EndingsIn DEF Maybe
  <2>2. popped.dialed = m.dialed /\ popped.legs = m.legs /\ popped.state = m.state
    BY DEF MachineOK, SessionMachine
  <2>3. MachineOK(none) /\ none.legs = m.legs /\ none.state = m.state
    BY DEF MachineOK, SessionMachine
  <2>4. Sober(one) /\ Sober(two)
    <3>1. Sober(<<Arm("ring-step")>>) BY SoberKinds, SoberLists
    <3> QED BY <1>d, <3>1, SoberLists DEF armRingStep
  <2> HIDE DEF popped, none, one, two, user, waiting
  <2>5. popped.dialed < MaxLegs => Shrinks(popped, next) BY <2>1, ShrinksPush
  <2>s. next.state = popped.state BY <2>1 DEF PushLeg, MachineOK, SessionMachine
  <2> HIDE DEF next
  <2>t. Shrinks(m, popped) BY <2>2, ShrinksSame
  <2>6. m.dialed < MaxLegs => Shrinks(m, next) /\ next.state = m.state
    BY <2>2, <2>5, <2>s, <2>t, ShrinksTwice
  <2>7. Sober(one \o two) BY <2>4, SoberLists
  <2>8. m.dialed < MaxLegs => Unjoined(m, Result(next, one \o two)) BY <2>6, <2>7, UnjoinedPlain
  <2>9. Unjoined(m, runAvenueLadder(none)) BY <2>3, ShrinksSame, UnjoinedLadder, UnjoinedAfter
  <2>10. Unjoined(m, NoEffect(popped)) BY <2>2, UnjoinedSame
  <2>11. reduceAlarmRingStep(m, ev) \in
           {NoEffect(m), runAvenueLadder(none),
            IF m.dialed >= MaxLegs THEN NoEffect(popped) ELSE Result(next, one \o two)}
    BY DEF reduceAlarmRingStep, popped, none, next, one, two, user, waiting
  <2> QED BY <1>0, <1>n, <2>8, <2>9, <2>10, <2>11
<1>8. Unjoined(m, reducePushFanoutSettled(m, ev))
  <2> DEFINE n   == [m EXCEPT !.push = @ \ ev.unreachable]
             one == <<Clear("fanout-settle")>>
             res == runAvenueLadder(n)
  <2>1. MachineOK(n) BY FieldsOK, EndingsIn DEF Maybe
  <2>2. n.legs = m.legs /\ n.state = m.state BY DEF MachineOK, SessionMachine
  <2>3. Sober(one) BY SoberKinds, SoberLists
  <2> HIDE DEF n, one
  <2>4. Unjoined(n, res) BY <2>1, UnjoinedLadder
  <2> HIDE DEF res
  <2>5. Unjoined(m, Result(res.m, one \o res.fx))
    BY <2>2, <2>3, <2>4, ShrinksSame, UnjoinedAfter
  <2> QED BY <2>5 DEF reducePushFanoutSettled, n, one, res
<1> QED BY <1>1, <1>2, <1>3, <1>4, <1>5, <1>6, <1>7, <1>8

\* A new answered record is the one of the leg c.
Joined(m, n, c) ==
  \A j \in LegId : n.legs[j].status = "answered"
    => \/ n.legs[j].ccid = c
       \/ m.legs[j].status = "answered" /\ n.legs[j].ccid = m.legs[j].ccid

\* A member's leg answered, or was found to be up: the customer's leg is to be
\* answered for it, or it is to be probed.
Asks(m, ev, r) ==
  /\ ev.type \in {"member-leg-answered", "member-probe-outcome"}
  /\ Shrinks(m, r.m) /\ r.m.state = m.state
  /\ \A e \in Eff(r.fx) :
        e.kind \in {"telnyx-answer-inbound", "telnyx-probe-member-leg"} /\ e.leg = ev.leg

\* The leg of the event is marked answered and bridged in one commit,
Pairs(m, ev, r) ==
  /\ Joined(m, r.m, ev.leg) /\ Bridge(ev.leg) \in Eff(r.fx)
  /\ \A e \in Eff(r.fx) : e.kind \in JoinKinds => e = Bridge(ev.leg)

\* as the winner of an incoming call,
WinsCall(m, ev, r) ==
  /\ ev.type = "answer-outcome" /\ ev.ok /\ m.state = "ringing" /\ r.m.state = "answered"
  /\ Pairs(m, ev, r)

\* or as the placer's.
Places(m, ev, r) ==
  /\ ev.type = "outbound-placer-answered" /\ m.direction = "outbound" /\ r.m.state = m.state
  /\ Pairs(m, ev, r)

\* The customer of a placed call answered, perhaps after the placer.
Reaches(m, ev, r) ==
  /\ ev.type = "outbound-answered" /\ m.direction = "outbound"
  /\ m.state = "dialing" /\ r.m.state = "answered" /\ r.m.legs = m.legs
  /\ \A e \in Eff(r.fx) : e.kind \in JoinKinds
       => \E j \in answeredPlacer(m) : e = Bridge(m.legs[j].ccid)
  /\ answeredPlacer(m) # {} => \E e \in Eff(r.fx) : e.kind = "telnyx-bridge"

Connects(m, ev, r) ==
  Unjoined(m, r) \/ Asks(m, ev, r) \/ WinsCall(m, ev, r) \/ Places(m, ev, r) \/ Reaches(m, ev, r)

\* A leg told to hang up as a stray connects nobody.
LEMMA UnjoinedStray == ASSUME NEW m, NEW c PROVE Unjoined(m, HangupStray(m, c))
<1>1. Sober(Hangups({c})) BY SoberLists
<1> QED BY <1>1, UnjoinedSame DEF HangupStray

\* A member's leg answered: nobody is connected yet.
LEMMA AsksMember ==
  ASSUME NEW m, MachineOK(m), NEW ev, ev.type = "member-leg-answered", ev.leg \in LegId
  PROVE  Connects(m, ev, reduceMemberAnswered(m, ev))
<1> DEFINE b       == m.state = "ringing"
           at      == Located(m, ev, b)
           leg     == at.leg
           revived == leg # NoLeg /\ m.legs[leg].ccid = NoLeg /\ m.legs[leg].status = "ambiguous"
           ls      == IF revived THEN {leg} ELSE {}
           n       == SetStatus(at.m, ls, "ringing")
           intent  == [n EXCEPT !.answerIntent = ev.user]
           r       == reduceMemberAnswered(m, ev)
<1>1. MachineOK(at.m) /\ at.m.state = m.state
  <2>1. b \in BOOLEAN OBVIOUS
  <2> HIDE DEF b
  <2>2. MachineOK(at.m) BY <2>1, LocatedIs
  <2>3. at.m.state = m.state BY DEF Located, Stamp, MachineOK, SessionMachine
  <2> QED BY <2>2, <2>3
<1>2. Shrinks(m, at.m) BY ShrinksLocated
<1>3. r \in {HangupStray(m, ev.leg), HangupStray(n, ev.leg), NoEffect(n),
             Result(n, <<Probe(ev.leg, ev.user)>>),
             Result(intent, <<AnswerInbound(ev.leg, ev.user)>>)}
  BY DEF reduceMemberAnswered, AnswerFor, n, at
<1> HIDE DEF at, ls, r
<1>4. Shrinks(at.m, n) /\ n.state = at.m.state /\ MachineOK(n)
  BY <1>1, ShrinksSet, SetStatusIs, SetStatusOK DEF LegStatus
<1> HIDE DEF n
<1>5. intent.legs = n.legs /\ intent.state = n.state BY <1>4 DEF MachineOK, SessionMachine
<1> HIDE DEF intent
<1>6. Shrinks(m, n) /\ n.state = m.state BY <1>1, <1>2, <1>4, ShrinksTwice
<1>7. Shrinks(m, intent) /\ intent.state = m.state BY <1>5, <1>6 DEF Shrinks
<1>8. ASSUME NEW o, Shrinks(m, o), o.state = m.state, NEW e,
             e.kind \in {"telnyx-answer-inbound", "telnyx-probe-member-leg"}, e.leg = ev.leg
      PROVE  Asks(m, ev, Result(o, <<e>>))
  <2>1. Eff(<<e>>) = {e} BY Lists1 DEF Lists
  <2> QED BY <1>8, <2>1 DEF Asks, Result
<1>9. Asks(m, ev, Result(n, <<Probe(ev.leg, ev.user)>>))
  BY <1>6, <1>8 DEF Probe
<1>10. Asks(m, ev, Result(intent, <<AnswerInbound(ev.leg, ev.user)>>))
  BY <1>7, <1>8 DEF AnswerInbound
<1>11. Unjoined(m, NoEffect(n)) /\ Unjoined(m, HangupStray(m, ev.leg))
  BY <1>6, UnjoinedPlain, UnjoinedStray
<1>12. Unjoined(m, HangupStray(n, ev.leg))
  <2>1. Sober(Hangups({ev.leg})) BY SoberLists
  <2> QED BY <1>6, <2>1, UnjoinedPlain DEF HangupStray
<1>13. Connects(m, ev, r) BY <1>3, <1>9, <1>10, <1>11, <1>12 DEF Connects
<1> QED BY <1>13 DEF r

\* A canceled leg that answered was probed.
LEMMA AsksProbed ==
  ASSUME NEW m, MachineOK(m), NEW ev, ev.type = "member-probe-outcome"
  PROVE  Connects(m, ev, reduceProbeOutcome(m, ev))
<1> DEFINE leg    == FindLeg(m, ev.leg)
           n      == SetStatus(m, {leg}, "dead")
           intent == [m EXCEPT !.answerIntent = ev.user]
           e      == AnswerInbound(ev.leg, ev.user)
           one    == Result(intent, <<e>>)
<1>1. Unjoined(m, NoEffect(m)) BY UnjoinedSame
<1>2. Unjoined(m, runAvenueLadder(n))
  <2>1. MachineOK(n) /\ n.state = m.state /\ Shrinks(m, n)
    BY SetStatusOK, SetStatusIs, ShrinksSet DEF LegStatus
  <2> HIDE DEF n
  <2> QED BY <2>1, UnjoinedLadder, UnjoinedAfter
<1>3. Asks(m, ev, one)
  <2>1. intent.legs = m.legs /\ intent.state = m.state BY DEF MachineOK, SessionMachine
  <2>2. e.kind = "telnyx-answer-inbound" /\ e.leg = ev.leg BY DEF AnswerInbound
  <2> HIDE DEF intent, e
  <2>3. Eff(<<e>>) = {e} BY Lists1 DEF Lists
  <2>4. Shrinks(m, intent) BY <2>1, ShrinksSame
  <2> QED BY <2>1, <2>2, <2>3, <2>4 DEF Asks, Result
<1>4. reduceProbeOutcome(m, ev) \in {NoEffect(m), one, runAvenueLadder(n)}
  BY DEF reduceProbeOutcome, AnswerFor
<1> QED BY <1>1, <1>2, <1>3, <1>4 DEF Connects


\* The customer's leg was answered for a member, or was gone.
LEMMA WinsOutcome ==
  ASSUME NEW m, MachineOK(m), NEW ev, ev.type = "answer-outcome", ev.ok \in BOOLEAN
  PROVE  Connects(m, ev, reduceAnswerOutcome(m, ev))
<1>1. Unjoined(m, NoEffect(m)) BY UnjoinedSame
<1>2. Unjoined(m, answerLost(m, ev))
  <2> DEFINE leg  == FindLeg(m, ev.leg)
             cut  == IF leg # NoLeg /\ m.legs[leg].status # "dead" THEN {leg} ELSE {}
             n    == SetStatus(m, cut, "canceling")
             st   == MissedState(m)
             over == terminalize(n, st, "missed", "missed", NoColumns)
             pre  == When(cut # {}, Hangups({ev.leg}))
  <2>1. MachineOK(n) /\ n.state = m.state /\ Shrinks(m, n)
    BY SetStatusOK, SetStatusIs, ShrinksSet DEF LegStatus
  <2>2. st \in TerminalStates BY EndingsIn
  <2>3. Sober(pre) BY SoberLists
  <2>4. answerLost(m, ev) = Result(over.m, pre \o over.fx) BY DEF answerLost
  <2> HIDE DEF n, st, pre
  <2>5. Unjoined(n, over) BY <2>1, <2>2, UnjoinedEnd
  <2> HIDE DEF over
  <2> QED BY <2>1, <2>3, <2>4, <2>5, UnjoinedAfter
<1>3. ASSUME m.state = "ringing", ev.ok PROVE WinsCall(m, ev, answerWon(m, ev))
  <2> DEFINE losers == {i \in LegsWith(m, {"dialing", "ringing"}) : m.legs[i].ccid # ev.leg}
             winner == {FindLeg(m, ev.leg)} \ {NoLeg}
             n1     == SetStatus(m, losers, "canceling")
             n2     == SetStatus(n1, winner, "answered")
             set    == [state |-> "answered", answered_by_user_id |-> ev.user, answered_at |-> TRUE]
             pre    == << Mirror(set), Bridge(ev.leg) >>
             mid    == Hangups(CcidsOf(m, losers))
             post   == << Clear("ring"), Clear("fanout-settle"), PushCallEnd("answered") >>
             r      == answerWon(m, ev)
  <2>1. MachineOK(n1) /\ Shrinks(m, n1) BY SetStatusOK, ShrinksSet DEF LegStatus
  <2>2. \A j \in LegId : n1.legs[j].ccid = m.legs[j].ccid BY SetStatusIs
  <2>3. winner \in SUBSET LegId /\ \A j \in winner : m.legs[j].ccid = ev.leg BY FindLegIs
  <2> HIDE DEF n1, winner
  <2>4. MachineOK(n2) BY <2>1, SetStatusOK DEF LegStatus
  <2>5. \A j \in LegId : /\ n2.legs[j].ccid = n1.legs[j].ccid
                         /\ n2.legs[j].status = IF j \in winner THEN "answered" ELSE n1.legs[j].status
    BY <2>1, SetStatusIs
  <2>6. r.m.state = "answered" /\ r.m.legs = n2.legs
    BY <2>4 DEF answerWon, Result, MachineOK, SessionMachine, n1, n2, winner
  <2>7. r.fx = (pre \o mid) \o post BY DEF answerWon, Result
  <2>8. Lists(pre, {Mirror(set), Bridge(ev.leg)}) /\ Sober(mid) /\ Sober(post)
    <3>1. Lists(post, {Clear("ring"), Clear("fanout-settle"), PushCallEnd("answered")}) BY Lists3
    <3>2. Sober(post) BY <3>1, SoberKinds DEF Sober
    <3> QED BY <3>2, Lists2, SoberLists
  <2> HIDE DEF n2, set, mid, post, r
  <2>9. PICK S : Lists(mid, S) /\ \A e \in S : e.kind \notin JoinKinds BY <2>8 DEF Sober
  <2>10. PICK T : Lists(post, T) /\ \A e \in T : e.kind \notin JoinKinds BY <2>8 DEF Sober
  <2>11. Eff(r.fx) = ({Mirror(set), Bridge(ev.leg)} \cup S) \cup T
    <3> HIDE DEF pre
    <3>1. Lists(pre \o mid, {Mirror(set), Bridge(ev.leg)} \cup S) BY <2>8, <2>9, ListsConcat
    <3>2. Lists(r.fx, ({Mirror(set), Bridge(ev.leg)} \cup S) \cup T)
      BY <2>7, <2>10, <3>1, ListsConcat
    <3> QED BY <3>2 DEF Lists
  <2>12. Mirror(set).kind \notin JoinKinds BY SoberKinds
  <2>13. Joined(m, r.m, ev.leg) BY <2>1, <2>2, <2>3, <2>5, <2>6 DEF Joined, Shrinks
  <2>14. WinsCall(m, ev, r) BY <1>3, <2>6, <2>9, <2>10, <2>11, <2>12, <2>13 DEF WinsCall, Pairs
  <2> QED BY <2>14 DEF r
<1> QED BY <1>1, <1>2, <1>3 DEF reduceAnswerOutcome, Connects

\* The placer's leg answered.
LEMMA PlacesPlacer ==
  ASSUME NEW m, MachineOK(m), OneRecord(m), Bare(m), NEW ev, ev.type = "outbound-placer-answered",
         ev.leg \in LegId
  PROVE  Connects(m, ev, reduceOutboundPlacerAnswered(m, ev))
<1> DEFINE at  == Located(m, ev, TRUE)
           leg == at.leg
           n   == SetStatus(at.m, {leg}, "answered")
           r   == reduceOutboundPlacerAnswered(m, ev)
           one == Result(n, <<Bridge(ev.leg)>>)
<1>1. Locates(m, ev, TRUE, at) BY LocatedEnters
<1>2. /\ MachineOK(at.m)
      /\ leg # NoLeg => at.m.state = m.state /\ Enters(m, n, leg, ev.leg, "answered")
  BY <1>1 DEF Locates
<1>3. Unjoined(m, HangupStray(m, ev.leg)) BY UnjoinedStray
<1>4. r \in {HangupStray(m, ev.leg)} \cup
          (IF m.direction = "outbound" /\ leg # NoLeg THEN {NoEffect(at.m), one} ELSE {})
  BY DEF reduceOutboundPlacerAnswered
<1>5. Shrinks(m, at.m) BY ShrinksLocated
<1> HIDE DEF at, r
<1>6. n.state = at.m.state BY <1>2, SetStatusIs
<1> HIDE DEF n
<1>7. leg # NoLeg => Unjoined(m, NoEffect(at.m)) BY <1>2, <1>5, UnjoinedPlain
<1>8. ASSUME m.direction = "outbound", leg # NoLeg PROVE Places(m, ev, one)
  <2>1. Joined(m, n, ev.leg) BY <1>2, <1>8 DEF Joined, Enters
  <2>2. Eff(<<Bridge(ev.leg)>>) = {Bridge(ev.leg)} BY Lists1 DEF Lists
  <2> QED BY <1>2, <1>6, <1>8, <2>1, <2>2 DEF Places, Pairs, Result
<1>9. Connects(m, ev, r) BY <1>3, <1>4, <1>7, <1>8 DEF Connects
<1> QED BY <1>9 DEF r

\* The customer of a placed call answered.
LEMMA ReachesCustomer ==
  ASSUME NEW m, MachineOK(m), NEW ev, ev.type = "outbound-answered"
  PROVE  Connects(m, ev, reduceOutboundAnswered(m))
<1> DEFINE n   == [m EXCEPT !.state = "answered", !.answered = TRUE]
           ps  == answeredPlacer(m)
           set == [state |-> "answered", answered_at |-> TRUE]
           pre == <<Mirror(set)>>
           b   == Bridge(m.legs[First(ps)].ccid)
           fx  == pre \o When(ps # {}, <<b>>)
           r   == reduceOutboundAnswered(m)
<1>1. Unjoined(m, NoEffect(m)) BY UnjoinedSame
<1>2. r = NoEffect(m) \/ (m.direction = "outbound" /\ m.state = "dialing" /\ r = Result(n, fx))
  BY DEF reduceOutboundAnswered
<1>3. n.legs = m.legs /\ n.state = "answered" BY DEF MachineOK, SessionMachine
<1>4. ps # {} => First(ps) \in ps
  <2>1. ps \in SUBSET Nat BY DEF answeredPlacer, LegsWith, LegId
  <2> QED BY <2>1, FirstIn
<1>5. Mirror(set).kind \notin JoinKinds /\ b.kind = "telnyx-bridge" BY SoberKinds DEF Bridge
<1>6. Lists(pre, {Mirror(set)}) /\ Lists(<<b>>, {b}) /\ Lists(<<>>, {}) BY Lists0, Lists1
<1> HIDE DEF n, set, b, pre, r
<1>7. Eff(fx) = {Mirror(set)} \cup (IF ps # {} THEN {b} ELSE {})
  <2>1. CASE ps # {}
    <3>1. Lists(pre \o <<b>>, {Mirror(set)} \cup {b}) BY <1>6, ListsConcat
    <3> QED BY <2>1, <3>1 DEF Lists, When
  <2>2. CASE ps = {}
    <3>1. Lists(pre \o <<>>, {Mirror(set)} \cup {}) BY <1>6, ListsConcat
    <3> QED BY <2>2, <3>1 DEF Lists, When
  <2> QED BY <2>1, <2>2
<1>8. ps # {} => \E j \in ps : b = Bridge(m.legs[j].ccid) BY <1>4 DEF b
<1> HIDE DEF ps, fx
<1>9. ASSUME m.direction = "outbound", m.state = "dialing" PROVE Reaches(m, ev, Result(n, fx))
  <2>1. \A e \in Eff(fx) : e.kind \in JoinKinds => \E j \in ps : e = Bridge(m.legs[j].ccid)
    BY <1>5, <1>7, <1>8
  <2>2. ps # {} => \E e \in Eff(fx) : e.kind = "telnyx-bridge" BY <1>5, <1>7
  <2> QED BY <1>3, <1>9, <2>1, <2>2 DEF Reaches, Result, ps
<1>10. Connects(m, ev, r) BY <1>1, <1>2, <1>9 DEF Connects
<1> QED BY <1>10 DEF r

\* ReduceConnects: every event either connects nobody anew, has a leg probed or answered
\* for, or marks its leg answered and asks for its bridge in one commit (reduceMemberAnswered,
\* answerWon, reduceOutboundPlacerAnswered, reduceOutboundAnswered).
THEOREM ReduceConnects ==
  ASSUME NEW m, MachineOK(m), ~isNone(m), OneRecord(m), Bare(m), NEW ev \in Event,
         \A j \in LegId : m.legs[j].status = "answered" => m.legs[j].ccid # NoLeg
  PROVE  Connects(m, ev, reduce(m, ev))
<1> DEFINE r == reduce(m, ev)
<1>0. Unjoined(m, NoEffect(m)) BY UnjoinedSame
<1>1. CASE ev.type \in {"initiated", "outbound-initiated"}
  BY <1>0, <1>1 DEF reduce, Connects
<1>2. CASE ev.type \notin {"initiated", "outbound-initiated"}
  <2>0. r = handle(m, ev) BY <1>2 DEF reduce
  <2>1. CASE ev.type \in {"member-leg-hangup", "outbound-placer-hangup", "dial-outcome"}
    <3>1. ev.leg \in LegId BY <2>1, EventFields DEF LegTypes
    <3>2. r \in {reduceMemberHangup(m, ev), reduceOutboundPlacerHangup(m, ev), reduceDialOutcome(m, ev)}
      BY <2>0, <2>1 DEF handle
    <3>3. Unjoined(m, r) BY <3>1, <3>2, UnjoinedLegs
    <3> QED BY <3>3 DEF Connects
  <2>2. CASE ev.type \in {"inbound-hangup", "outbound-hangup", "inbound-leg-gone", "alarm-janitor"}
    <3>1. ev.type = "inbound-hangup" => ev.tag \in {"untagged", "bri", "vmi"} BY EventFields
    <3>2. \/ ev.type = "inbound-hangup" /\ r = reduceInboundHangup(m, ev)
          \/ r \in {reduceOutboundHangup(m, ev), reduceInboundLegGone(m), reduceAlarmJanitor(m)}
      BY <2>0, <2>2 DEF handle
    <3>3. Unjoined(m, r) BY <3>1, <3>2, UnjoinedHangups
    <3> QED BY <3>3 DEF Connects
  <2>3. CASE ev.type \in {"speak-ended", "recording-saved", "notice-answer-outcome", "vm-answer-outcome"}
    <3>1. r \in {reduceSpeakEnded(m), reduceRecordingSaved(m), reduceNoticeAnswerOutcome(m, ev),
                 reduceVmAnswerOutcome(m, ev)}
      BY <2>0, <2>3 DEF handle
    <3>2. Unjoined(m, r) BY <3>1, UnjoinedMedia
    <3> QED BY <3>2 DEF Connects
  <2>4. CASE ev.type \in {"ring-me", "decline", "set-owner", "register-intent", "clear-intent",
                          "alarm-intent-expiry", "alarm-ring", "alarm-ring-step",
                          "push-fanout-settled"}
    <3>1. r \in {reduceRingMe(m, ev), reduceDecline(m, ev), reduceSetOwner(m, ev),
                 reduceRegisterIntent(m), reduceClearIntent(m), reduceAlarmRing(m),
                 reduceAlarmRingStep(m, ev), reducePushFanoutSettled(m, ev)}
      BY <2>0, <2>4 DEF handle
    <3>2. Unjoined(m, r) BY <3>1, UnjoinedAsked
    <3> QED BY <3>2 DEF Connects
  <2>5. CASE ev.type = "member-leg-answered"
    <3>1. ev.leg \in LegId BY <2>5, EventFields DEF LegTypes
    <3> QED BY <2>0, <2>5, <3>1, AsksMember DEF handle
  <2>6. CASE ev.type = "member-probe-outcome"
    BY <2>0, <2>6, AsksProbed DEF handle
  <2>7. CASE ev.type = "answer-outcome"
    <3>1. ev.ok \in BOOLEAN BY <2>7 DEF Event, Webhook, FollowUp, Asked, Mint
    <3> QED BY <2>0, <2>7, <3>1, WinsOutcome DEF handle
  <2>8. CASE ev.type = "outbound-placer-answered"
    <3>1. ev.leg \in LegId BY <2>8, EventFields DEF LegTypes
    <3> QED BY <2>0, <2>8, <3>1, PlacesPlacer DEF handle
  <2>9. CASE ev.type = "outbound-answered"
    BY <2>0, <2>9, ReachesCustomer DEF handle
  <2> QED BY <1>2, <2>1, <2>2, <2>3, <2>4, <2>5, <2>6, <2>7, <2>8, <2>9, EventFields
          DEF LegTypes, PlainTypes
<1> QED BY <1>1, <1>2


\* A session that was just opened connects nobody,
Unpaired(r) == /\ Sober(r.fx) /\ r.m.state # "answered"
               /\ \A j \in LegId : r.m.legs[j].status # "answered"

\* ringing its members,
LEMMA ringStartUnpaired ==
  ASSUME NEW base, MachineOK(base), base.state = "ringing", NEW ctx \in InboundContext
  PROVE  Unpaired(ringStart(base, ctx))
<1> DEFINE targets == RingTargets(ctx)
           now     == IF ctx.inTurn /\ Len(targets) > 1 THEN 1 ELSE Len(targets)
           first   == SubSeq(targets, 1, now)
           rest    == {targets[i] : i \in (now + 1) .. Len(targets)}
           m       == [PushLegs(base, first) EXCEPT !.order = targets, !.queue = rest]
           fx1     == << Arm("janitor"), Mirror([state |-> "ringing"]) >>
           dial    == <<Dial(1, now)>>
           fx2     == When(now > 0, dial)
           fx3     == << PushFanout, Arm("fanout-settle"), Arm("ring") >>
           fx4     == armRingStep(m, ctx.fits)
<1>1. ringStart(base, ctx) = Result(m, ((fx1 \o fx2) \o fx3) \o fx4)
  BY DEF ringStart, targets, now, first, rest
<1> HIDE DEF targets, now, first, rest
<1>2. /\ m.state = "ringing"
      /\ m.legs = [i \in LegId |->
               IF i <= Len(first)
               THEN [user |-> first[i], status |-> "dialing", ccid |-> NoLeg, ringMe |-> FALSE]
               ELSE UnusedLeg]
  BY DEF PushLegs, MachineOK, SessionMachine
<1>3. \A j \in LegId : m.legs[j].status # "answered" BY <1>2 DEF UnusedLeg
<1> HIDE DEF m
<1>4. Sober(fx1) /\ Sober(dial) /\ Sober(<<Arm("ring-step")>>) BY SoberKinds, SoberLists
<1>5. Sober(fx3)
  <2>1. Lists(fx3, {PushFanout, Arm("fanout-settle"), Arm("ring")}) BY Lists3
  <2> QED BY <2>1, SoberKinds DEF Sober
<1> HIDE DEF fx1, dial, fx3
<1>6. Sober(fx2) BY <1>4, SoberLists
<1>7. Sober(fx4) BY <1>4, SoberLists DEF armRingStep
<1> HIDE DEF fx2, fx4
<1>8. Sober(fx1 \o fx2) BY <1>4, <1>6, SoberLists
<1>9. Sober((fx1 \o fx2) \o fx3) BY <1>5, <1>8, SoberLists
<1>10. Sober(((fx1 \o fx2) \o fx3) \o fx4) BY <1>7, <1>9, SoberLists
<1> QED BY <1>1, <1>2, <1>3, <1>10 DEF Unpaired, Result

\* or doing anything else.
LEMMA MintUnpaired ==
  ASSUME NEW m, isNone(m), NEW ev \in Event, ev.type \in {"initiated", "outbound-initiated"}
  PROVE  Unpaired(reduce(m, ev))
<1>0. ASSUME NEW n, n.legs = [i \in LegId |-> UnusedLeg], n.state # "answered", NEW x, Sober(x)
      PROVE  Unpaired(Result(n, x))
  BY <1>0 DEF Unpaired, Result, UnusedLeg
<1>1. CASE ev.type = "initiated"
  <2> DEFINE ctx     == ev.context
             base    == [NoMachine EXCEPT !.state = "ringing", !.push = ctx.audience]
             vm      == vmEntry(base)
             noticed == [base EXCEPT !.noticeSpoken = ctx.noticeAllowed]
             capped  == [base EXCEPT !.rejectedForCap = TRUE]
             one     == <<Arm("janitor")>>
             told    == [state |-> "ringing", notice_spoken |-> ctx.noticeAllowed]
             fx1     == << Arm("janitor"), Mirror(told) >>
             fx2     == When(ctx.noticeAllowed, <<AnswerNotice>>)
             fx3     == << Arm("janitor"), Reject, Mirror([state |-> "ringing"]) >>
  <2>1. ctx \in InboundContext BY <1>1, EventFields
  <2>2. MachineOK(base)
    BY <2>1, NoMachineOK, EndingsIn DEF MachineOK, SessionMachine, NoMachine, InboundContext
  <2>3. base.state = "ringing" /\ base.legs = [i \in LegId |-> UnusedLeg] BY DEF NoMachine
  <2>4. reduce(m, ev) \in {Result(vm.m, one \o vm.fx), Result(noticed, fx1 \o fx2),
                           Result(capped, fx3), ringStart(base, ctx)}
    <3>1. ctx.kind \in {"vm", "suspended", "cap", "ring"} BY <2>1 DEF InboundContext
    <3>2. reduce(m, ev) = reduceInitiated(ctx) BY <1>1 DEF reduce
    <3> QED BY <3>1, <3>2 DEF reduceInitiated
  <2> HIDE DEF base, ctx
  <2>5. /\ noticed.state = "ringing" /\ noticed.legs = base.legs
        /\ capped.state = "ringing" /\ capped.legs = base.legs
    BY <2>2, <2>3 DEF MachineOK, SessionMachine
  <2>6. vm.m.state = "voicemail_greeting" /\ vm.m.legs = base.legs
    BY <2>2 DEF vmEntry, Result, MachineOK, SessionMachine
  <2>7. Sober(vm.fx) BY <2>2, UnjoinedVm DEF Unjoined
  <2>8. Sober(one) /\ Sober(fx1) /\ Sober(<<AnswerNotice>>) BY SoberKinds, SoberLists
  <2>9. Sober(fx3)
    <3>1. Lists(fx3, {Arm("janitor"), Reject, Mirror([state |-> "ringing"])}) BY Lists3
    <3> QED BY <3>1, SoberKinds DEF Sober
  <2> HIDE DEF noticed, capped, vm, one, fx1, fx3
  <2>10. Sober(fx2) BY <2>8, SoberLists
  <2> HIDE DEF fx2
  <2>11. Sober(one \o vm.fx) /\ Sober(fx1 \o fx2) BY <2>7, <2>8, <2>10, SoberLists
  <2>12. Unpaired(ringStart(base, ctx)) BY <2>1, <2>2, <2>3, ringStartUnpaired
  <2>13. Unpaired(Result(vm.m, one \o vm.fx)) BY <1>0, <2>3, <2>6, <2>11
  <2>14. Unpaired(Result(noticed, fx1 \o fx2)) BY <1>0, <2>3, <2>5, <2>11
  <2>15. Unpaired(Result(capped, fx3)) BY <1>0, <2>3, <2>5, <2>9
  <2> QED BY <2>4, <2>12, <2>13, <2>14, <2>15
<1>2. CASE ev.type = "outbound-initiated"
  <2> DEFINE ctx  == ev.context
             base == [NoMachine EXCEPT !.state = "dialing", !.direction = "outbound",
                                       !.owner = ctx.placer]
             set  == [state |-> "dialing", answered_by_user_id |-> ctx.placer]
             next == PushLeg(base, ctx.placer, FALSE)
             fx1  == <<Mirror(set), Arm("janitor")>>
             fx2  == <<DialPlacer(1)>>
  <2>1. ctx \in Placement BY <1>2, EventFields
  <2>2. MachineOK(base)
    BY <2>1, NoMachineOK DEF MachineOK, SessionMachine, NoMachine, CallStates, Placement
  <2>3. base.state = "dialing" /\ base.dialed = 0 /\ base.legs = [i \in LegId |-> UnusedLeg]
    BY DEF NoMachine
  <2>4. reduce(m, ev) \in {Result(next, fx1 \o fx2), Result(base, fx1)}
    BY <1>2 DEF reduce, reduceOutboundInitiated
  <2>5. Sober(fx1) BY SoberKinds, SoberLists
  <2>6. Sober(fx2)
    <3>1. DialPlacer(1).kind \notin JoinKinds BY DEF DialPlacer, JoinKinds
    <3> QED BY <3>1, SoberLists
  <2> HIDE DEF base, fx1, fx2, set, ctx
  <2>7. Unpaired(Result(base, fx1)) BY <1>0, <2>3, <2>5
  <2>8. Unpaired(Result(next, fx1 \o fx2))
    <3>1. base.dialed < MaxLegs BY <2>3, MaxLegsAssumption
    <3>2. Shrinks(base, next) BY <2>2, <3>1, ShrinksPush
    <3>3. next.state = "dialing" BY <2>2, <2>3 DEF PushLeg, MachineOK, SessionMachine
    <3> HIDE DEF next
    <3>4. Sober(fx1 \o fx2) BY <2>5, <2>6, SoberLists
    <3>5. \A j \in LegId : base.legs[j].status # "answered" BY <2>3 DEF UnusedLeg
    <3> QED BY <3>2, <3>3, <3>4, <3>5 DEF Unpaired, Shrinks, Result
  <2> QED BY <2>4, <2>7, <2>8
<1> QED BY <1>1, <1>2

===============================================================================
