-------------------------- MODULE CallOutcome_proofs --------------------------
(***************************************************************************)
(* How a call ends, for every set of members, leg cap, ring context, dial  *)
(* result and budget of faults: the row is told, the line is freed, and    *)
(* the session lives the life of CallLifecycle.                            *)
(***************************************************************************)
EXTENDS CallSession_proofs, CallSteps_proofs

(***************************************************************************)
(* What follows from the kinds of step for the row and the outcome.        *)
(***************************************************************************)
\* Writes and the effects that settle a call are not bland.
LEMMA NotBland ==
  /\ \A e : Bland(e) => /\ e.kind # "mirror" /\ e.kind \notin SettleKinds /\ e # Arm("purge")
                        /\ e # Arm("janitor") /\ e # Arm("ring") /\ e # RecordStart
                        /\ e.kind \notin {"telnyx-dial", "telnyx-dial-placer"}
  /\ \A set : Mirror(set).kind = "mirror" /\ Mirror(set).set = set
  BY KindsOf DEF Bland, SettleKinds

\* A list of bland effects and one write.
LEMMA WritesTell ==
  ASSUME NEW S, NEW set, Writes(S, set)
  PROVE  /\ \A e \in S : /\ e.kind = "mirror" => e.set = set
                         /\ e.kind \notin SettleKinds /\ e # Arm("purge") /\ e # Arm("janitor")
                         /\ e # Arm("ring") /\ e # RecordStart
                         /\ e.kind \notin {"telnyx-dial", "telnyx-dial-placer"}
         /\ Mirror(set) \in S /\ Mirror(set).kind = "mirror" /\ Mirror(set).set = set
  BY NotBland, KindsOf DEF Writes, SettleKinds

\* The row is told what changed, and only what is so.  A write of the owner
\* without the stamp comes from an announce transfer alone.
Tells(m, ev, r) ==
  /\ \A e \in Eff(r.fx) : e.kind = "mirror"
       => /\ Says(e.set, r.m)
          /\ "answered_by_user_id" \in DOMAIN e.set /\ "answered_at" \notin DOMAIN e.set
               => ev.type = "set-owner"
  /\ \A c \in {"state", "answered_by_user_id", "answered_at", "notice_spoken"} :
        \/ ColumnOf(r.m, c) = ColumnOf(m, c)
        \/ \E e \in Eff(r.fx) : e.kind = "mirror" /\ c \in DOMAIN e.set

\* One write that names every column that changed.
LEMMA TellsOne ==
  ASSUME NEW m, NEW ev, NEW r, NEW set, Says(set, r.m),
         \E e \in Eff(r.fx) : e.kind = "mirror" /\ e.set = set,
         \A e \in Eff(r.fx) : e.kind = "mirror" => e.set = set,
         "answered_by_user_id" \in DOMAIN set /\ "answered_at" \notin DOMAIN set
           => ev.type = "set-owner",
         \A c \in {"state", "answered_by_user_id", "answered_at", "notice_spoken"} :
            ColumnOf(r.m, c) = ColumnOf(m, c) \/ c \in DOMAIN set
  PROVE  Tells(m, ev, r)
  BY DEF Tells

\* The columns of a machine.
LEMMA ColumnsAre ==
  ASSUME NEW m
  PROVE  /\ ColumnOf(m, "state") = m.state /\ ColumnOf(m, "answered_by_user_id") = m.owner
         /\ ColumnOf(m, "answered_at") = m.answered /\ ColumnOf(m, "notice_spoken") = m.noticeSpoken
  BY DEF ColumnOf

\* The kinds of step that leave the columns of the row alone.
LEMMA NobodyTold ==
  ASSUME NEW m, NEW ev, NEW r, Quiet(m, r) \/ Intends(m, ev, r) \/ Dials(m, r)
  PROVE  Tells(m, ev, r)
<1>1. /\ r.m.state = m.state /\ r.m.owner = m.owner /\ r.m.answered = m.answered
      /\ r.m.noticeSpoken = m.noticeSpoken
  BY DEF Quiet, Intends, Dials, SameCore, SameSide, SameOwner
<1>2. \A e \in Eff(r.fx) : e.kind # "mirror"
  BY NotBland DEF Quiet, Intends, Dials
<1> QED BY <1>1, <1>2, ColumnsAre DEF Tells

\* Those with one write besides bland effects.
LEMMA OneTold ==
  ASSUME NEW m, NEW ev, NEW r, MachineOK(r.m),
         \/ Diverts(m, r) \/ Answers(m, ev, r) \/ PicksUp(m, r) \/ SetsOwner(m, ev, r)
         \/ NoticeFails(m, r)
  PROVE  Tells(m, ev, r)
<1>0. r.m.answered \in BOOLEAN /\ r.m.noticeSpoken \in BOOLEAN
  BY DEF MachineOK, SessionMachine
<1>1. ASSUME NEW set, Writes(Eff(r.fx), set), Says(set, r.m),
             "answered_by_user_id" \in DOMAIN set /\ "answered_at" \notin DOMAIN set
               => ev.type = "set-owner",
             \A c \in {"state", "answered_by_user_id", "answered_at", "notice_spoken"} :
                ColumnOf(r.m, c) = ColumnOf(m, c) \/ c \in DOMAIN set
      PROVE  Tells(m, ev, r)
  <2>1. /\ \A e \in Eff(r.fx) : e.kind = "mirror" => e.set = set
        /\ \E e \in Eff(r.fx) : e.kind = "mirror" /\ e.set = set
    BY <1>1, WritesTell
  <2> QED BY <1>1, <2>1, TellsOne
<1>2. CASE Diverts(m, r)
  <2> DEFINE set == [state |-> "voicemail_greeting"]
  <2>1. Writes(Eff(r.fx), set) BY <1>2 DEF Diverts
  <2>2. Says(set, r.m) /\ DOMAIN set = {"state"} BY <1>2 DEF Diverts, Says, ColumnOf
  <2>3. \A c \in {"answered_by_user_id", "answered_at", "notice_spoken"} :
          ColumnOf(r.m, c) = ColumnOf(m, c)
    BY <1>2, ColumnsAre DEF Diverts, SameSide
  <2> HIDE DEF set
  <2> QED BY <1>1, <2>1, <2>2, <2>3
<1>3. CASE Answers(m, ev, r)
  <2> DEFINE set == [state |-> "answered", answered_by_user_id |-> ev.user, answered_at |-> TRUE]
  <2>1. Writes(Eff(r.fx), set) BY <1>3 DEF Answers
  <2>2. Says(set, r.m) /\ DOMAIN set = {"state", "answered_by_user_id", "answered_at"}
    <3>1. r.m.state = "answered" /\ r.m.owner = ev.user /\ r.m.answered = TRUE
      BY <1>0, <1>3 DEF Answers
    <3>2. /\ DOMAIN set = {"state", "answered_by_user_id", "answered_at"}
          /\ set["state"] = "answered" /\ set["answered_by_user_id"] = ev.user
          /\ set["answered_at"] = TRUE
      OBVIOUS
    <3> HIDE DEF set
    <3> QED BY <3>1, <3>2, ColumnsAre DEF Says
  <2>3. ColumnOf(r.m, "notice_spoken") = ColumnOf(m, "notice_spoken")
    BY <1>3, ColumnsAre DEF Answers
  <2> HIDE DEF set
  <2> QED BY <1>1, <2>1, <2>2, <2>3
<1>4. CASE PicksUp(m, r)
  <2> DEFINE set == [state |-> "answered", answered_at |-> TRUE]
  <2>1. Writes(Eff(r.fx), set) BY <1>4 DEF PicksUp
  <2>2. Says(set, r.m) /\ DOMAIN set = {"state", "answered_at"}
    <3>1. r.m.state = "answered" /\ r.m.answered = TRUE BY <1>0, <1>4 DEF PicksUp
    <3>2. DOMAIN set = {"state", "answered_at"} /\ set["state"] = "answered" /\ set["answered_at"] = TRUE
      OBVIOUS
    <3> HIDE DEF set
    <3> QED BY <3>1, <3>2, ColumnsAre DEF Says
  <2>3. \A c \in {"answered_by_user_id", "notice_spoken"} : ColumnOf(r.m, c) = ColumnOf(m, c)
    BY <1>4, ColumnsAre DEF PicksUp, SameSide
  <2> HIDE DEF set
  <2> QED BY <1>1, <2>1, <2>2, <2>3
<1>5. CASE SetsOwner(m, ev, r)
  <2> DEFINE set == [answered_by_user_id |-> ev.user]
  <2>1. Writes(Eff(r.fx), set) /\ ev.type = "set-owner" BY <1>5 DEF SetsOwner
  <2>2. Says(set, r.m) /\ DOMAIN set = {"answered_by_user_id"}
    BY <1>5 DEF SetsOwner, Says, ColumnOf
  <2>3. \A c \in {"state", "answered_at", "notice_spoken"} : ColumnOf(r.m, c) = ColumnOf(m, c)
    BY <1>5, ColumnsAre DEF SetsOwner, SameSide
  <2> HIDE DEF set
  <2> QED BY <1>1, <2>1, <2>2, <2>3
<1>6. CASE NoticeFails(m, r)
  <2> DEFINE set == [notice_spoken |-> FALSE]
  <2>1. Writes(Eff(r.fx), set) BY <1>6 DEF NoticeFails
  <2>2. DOMAIN set = {"notice_spoken"} OBVIOUS
  <2>3. \A c \in {"state", "answered_by_user_id", "answered_at"} : ColumnOf(r.m, c) = ColumnOf(m, c)
    BY <1>6, ColumnsAre DEF NoticeFails
  <2>4. Says(set, r.m)
    <3>1. r.m.noticeSpoken = FALSE BY <1>0, <1>6 DEF NoticeFails
    <3>2. set["notice_spoken"] = FALSE OBVIOUS
    <3> HIDE DEF set
    <3> QED BY <2>2, <3>1, <3>2, ColumnsAre DEF Says
  <2> HIDE DEF set
  <2> QED BY <1>1, <2>1, <2>2, <2>3, <2>4
<1> QED BY <1>2, <1>3, <1>4, <1>5, <1>6

\* The endings, and the recording.
LEMMA EndTold ==
  ASSUME NEW m, NEW ev, NEW r, SameSide(m, r.m),
         \E set, o : EndEffects(m, ev, r, set, o)
  PROVE  Tells(m, ev, r)
<1>1. PICK set, o : EndEffects(m, ev, r, set, o) OBVIOUS
<1>2. /\ \A e \in Eff(r.fx) : e.kind = "mirror" => e.set = set
      /\ \E e \in Eff(r.fx) : e.kind = "mirror" /\ e.set = set
  BY <1>1, NotBland, KindsOf DEF EndEffects
<1>3. Says(set, r.m) /\ ("answered_by_user_id" \in DOMAIN set <=> "answered_at" \in DOMAIN set)
  BY <1>1 DEF EndEffects
<1>4. \A c \in {"state", "answered_by_user_id", "answered_at", "notice_spoken"} :
         ColumnOf(r.m, c) = ColumnOf(m, c) \/ c \in DOMAIN set
  BY <1>1, ColumnsAre DEF EndEffects, SameOwner, SameSide
<1> QED BY <1>2, <1>3, <1>4, TellsOne

\* The recording's start and its end.
LEMMA RecordingTold ==
  ASSUME NEW m, NEW ev, NEW r, Records(m, ev, r) \/ Saves(m, ev, r)
  PROVE  Tells(m, ev, r)
<1> DEFINE set == [state |-> r.m.state]
<1>1. /\ \A e \in Eff(r.fx) : e.kind = "mirror" => e.set = set
      /\ Mirror(set) \in Eff(r.fx)
  BY NotBland, KindsOf DEF Records, Saves, RecordStart
<1>2. Says(set, r.m) /\ DOMAIN set = {"state"} BY DEF Says, ColumnOf
<1>3. \A c \in {"answered_by_user_id", "answered_at", "notice_spoken"} :
         ColumnOf(r.m, c) = ColumnOf(m, c)
  BY ColumnsAre DEF Records, Saves, SameSide
<1> HIDE DEF set
<1>4. \E e \in Eff(r.fx) : e.kind = "mirror" /\ e.set = set BY <1>1, NotBland
<1> QED BY <1>1, <1>2, <1>3, <1>4, TellsOne

\* Whatever the event, the row is told what it changed.
LEMMA ReduceTells ==
  ASSUME NEW m, MachineOK(m), ~isNone(m), NEW ev \in Event
  PROVE  Tells(m, ev, reduce(m, ev))
<1> DEFINE r == reduce(m, ev)
<1>1. Kinds(m, ev, r) BY ReduceKinds
<1>2. MachineOK(r.m) BY ReduceTyped
<1> HIDE DEF r
<1>3. CASE Ends(m, ev, r) \/ Upgrades(m, ev, r)
  <2>1. SameSide(m, r.m) BY <1>3 DEF Ends, Upgrades
  <2>2. \E set, o : EndEffects(m, ev, r, set, o) BY <1>3 DEF Ends, Upgrades
  <2> QED BY <2>1, <2>2, EndTold DEF r
<1> QED BY <1>1, <1>2, <1>3, NobodyTold, OneTold, RecordingTold DEF Kinds, DialsNobody, r

(***************************************************************************)
(* What a step does to the outcome.                                        *)
(***************************************************************************)
\* A step settles the call just when it ends it, and rings, dials, arms and
\* records only as its kind allows.
Concludes(m, ev, r) ==
  /\ ~isNone(r.m) /\ r.m.direction = m.direction
  /\ isTerminal(r.m.state) => isTerminal(m.state) \/ Settles(Eff(r.fx))
  /\ \A e \in Eff(r.fx) :
        /\ e.kind \in SettleKinds \/ e = Arm("purge") => isTerminal(r.m.state)
        /\ e # Arm("janitor") /\ e # Arm("ring")
        /\ e.kind \in {"telnyx-dial", "telnyx-dial-placer"}
             => \A i \in e.from .. e.to : r.m.legs[i].user \notin r.m.declined
        /\ e = RecordStart => r.m.state = "voicemail_recording"
  /\ SettledBefore(r.fx)

\* The kinds of step that leave the call where it was.
LEMMA GoesOn ==
  ASSUME NEW m, NEW ev, NEW r, ~isNone(m),
         Quiet(m, r) \/ Intends(m, ev, r) \/ Dials(m, r)
  PROVE  Concludes(m, ev, r)
<1>1. r.m.state = m.state /\ r.m.direction = m.direction
  BY DEF Quiet, Intends, Dials, SameCore, SameSide
<1>2. \A e \in Eff(r.fx) :
        /\ e.kind \notin SettleKinds /\ e # Arm("purge") /\ e # Arm("janitor") /\ e # Arm("ring")
        /\ e # RecordStart
        /\ e.kind \in {"telnyx-dial", "telnyx-dial-placer"}
             => \A i \in e.from .. e.to : r.m.legs[i].user \notin r.m.declined
  BY NotBland, KindsOf DEF Quiet, Intends, Dials, SettleKinds
<1>3. SettledBefore(r.fx) BY <1>2, SettledNoPurge
<1> QED BY <1>1, <1>2, <1>3 DEF Concludes, isNone

\* The kinds of step with one write.
LEMMA MovesOn ==
  ASSUME NEW m, NEW ev, NEW r, ~isNone(m),
         \/ Diverts(m, r) \/ Answers(m, ev, r) \/ PicksUp(m, r) \/ SetsOwner(m, ev, r)
         \/ NoticeFails(m, r)
  PROVE  Concludes(m, ev, r)
<1>1. /\ ~isNone(r.m) /\ r.m.direction = m.direction
      /\ isTerminal(r.m.state) => isTerminal(m.state)
  BY DEF Diverts, Answers, PicksUp, SetsOwner, NoticeFails, SameSide, isNone, isTerminal,
     TerminalStates
<1>2. \E set : Writes(Eff(r.fx), set)
  BY DEF Diverts, Answers, PicksUp, SetsOwner, NoticeFails
<1>3. \A e \in Eff(r.fx) :
        /\ e.kind \notin SettleKinds /\ e # Arm("purge") /\ e # Arm("janitor") /\ e # Arm("ring")
        /\ e # RecordStart /\ e.kind \notin {"telnyx-dial", "telnyx-dial-placer"}
  BY <1>2, WritesTell
<1>4. SettledBefore(r.fx) BY <1>3, SettledNoPurge
<1> QED BY <1>1, <1>3, <1>4 DEF Concludes

\* An ending settles the call.
LEMMA EndingConcludes ==
  ASSUME NEW m, NEW ev, NEW r, ~isNone(m), Ends(m, ev, r) \/ Upgrades(m, ev, r)
  PROVE  Concludes(m, ev, r)
<1>1. PICK set, o : EndEffects(m, ev, r, set, o) BY DEF Ends, Upgrades
<1>2. isTerminal(r.m.state) /\ ~isNone(r.m) /\ r.m.direction = m.direction
  BY DEF Ends, Upgrades, SameSide, isTerminal, TerminalStates, isNone
<1>3. Settles(Eff(r.fx)) BY <1>1, KindsOf DEF EndEffects, Settles, SettleKinds
<1>4. \A e \in Eff(r.fx) :
        /\ e # Arm("janitor") /\ e # Arm("ring") /\ e # RecordStart
        /\ e.kind \notin {"telnyx-dial", "telnyx-dial-placer"}
  <2>1. SUFFICES ASSUME NEW e \in Eff(r.fx)
                 PROVE  /\ e # Arm("janitor") /\ e # Arm("ring") /\ e # RecordStart
                        /\ e.kind \notin {"telnyx-dial", "telnyx-dial-placer"}
    OBVIOUS
  <2>2. Bland(e) \/ e = Mirror(set) \/ e = TerminalMerge(o) \/ e = Arm("purge")
    BY <1>1 DEF EndEffects
  <2>3. CASE Bland(e) BY <2>3, NotBland
  <2>4. CASE e = Mirror(set) BY <2>4, KindsOf
  <2>5. CASE e = TerminalMerge(o) BY <2>5, KindsOf
  <2>6. CASE e = Arm("purge") BY <2>6, KindsOf
  <2> QED BY <2>2, <2>3, <2>4, <2>5, <2>6
<1>5. SettledBefore(r.fx)
  BY <1>1, SettledNoPurge DEF Ends, Upgrades
<1> QED BY <1>2, <1>3, <1>4, <1>5 DEF Concludes

\* So does the recording, whose start is the only thing that starts it.
LEMMA RecordingConcludes ==
  ASSUME NEW m, NEW ev, NEW r, ~isNone(m), Records(m, ev, r) \/ Saves(m, ev, r)
  PROVE  Concludes(m, ev, r)
<1>1. CASE Records(m, ev, r)
  <2>1. ~isNone(r.m) /\ r.m.direction = m.direction /\ ~isTerminal(r.m.state)
          /\ r.m.state = "voicemail_recording"
    BY <1>1 DEF Records, SameSide, isNone, isTerminal, TerminalStates
  <2>2. \A e \in Eff(r.fx) :
          /\ e.kind \notin SettleKinds /\ e # Arm("purge") /\ e # Arm("janitor") /\ e # Arm("ring")
          /\ e.kind \notin {"telnyx-dial", "telnyx-dial-placer"}
    BY <1>1, NotBland, KindsOf DEF Records, SettleKinds
  <2>3. SettledBefore(r.fx) BY <2>2, SettledNoPurge
  <2> QED BY <2>1, <2>2, <2>3 DEF Concludes
<1>2. CASE Saves(m, ev, r)
  <2>1. isTerminal(r.m.state) /\ ~isNone(r.m) /\ r.m.direction = m.direction
    BY <1>2 DEF Saves, SameSide, isTerminal, TerminalStates, isNone
  <2>2. Settles(Eff(r.fx)) BY <1>2, KindsOf DEF Saves, Settles, SettleKinds
  <2>3. \A e \in Eff(r.fx) :
          /\ e # Arm("janitor") /\ e # Arm("ring") /\ e # RecordStart
          /\ e.kind \notin {"telnyx-dial", "telnyx-dial-placer"}
    BY <1>2, NotBland, KindsOf DEF Saves
  <2>4. SettledBefore(r.fx) BY <1>2 DEF Saves
  <2> QED BY <2>1, <2>2, <2>3, <2>4 DEF Concludes
<1> QED BY <1>1, <1>2

\* Whatever the event, the step concludes as it should.
LEMMA ReduceConcludes ==
  ASSUME NEW m, MachineOK(m), ~isNone(m), NEW ev \in Event
  PROVE  Concludes(m, ev, reduce(m, ev))
  BY ReduceKinds, GoesOn, MovesOn, EndingConcludes, RecordingConcludes DEF Kinds, DialsNobody

\* A session that is minted is not over, and what it opens with says so.
LEMMA MintConcludes ==
  ASSUME NEW r, Mints(r)
  PROVE  /\ ~isNone(r.m) /\ ~isTerminal(r.m.state)
         /\ \A e \in Eff(r.fx) :
               /\ e.kind \notin SettleKinds /\ e # Arm("purge") /\ e # RecordStart
               /\ e = Arm("ring") => ~NoAvenue(r.m)
               /\ e.kind = "mirror"
                    => /\ Says(e.set, r.m) /\ "answered_at" \notin DOMAIN e.set
                       /\ "answered_by_user_id" \in DOMAIN e.set => r.m.direction = "outbound"
         /\ \E e \in Eff(r.fx) :
               /\ e.kind = "mirror" /\ Says(e.set, r.m) /\ "state" \in DOMAIN e.set
               /\ r.m.direction = "outbound" => "answered_by_user_id" \in DOMAIN e.set
         /\ SettledBefore(r.fx)
<1>1. PICK set : OpeningWrite(r, set) BY DEF Mints
<1>2. ~isNone(r.m) /\ ~isTerminal(r.m.state)
  BY DEF Mints, isNone, isTerminal, TerminalStates
<1>3. ASSUME NEW e \in Eff(r.fx)
      PROVE  /\ e.kind \notin SettleKinds /\ e # Arm("purge") /\ e # RecordStart
             /\ e = Arm("ring") => ~NoAvenue(r.m)
             /\ e.kind = "mirror" => e.set = set
  <2>1. e = Mirror(set) \/ Opens(e, r.m) BY <1>1, <1>3 DEF OpeningWrite
  <2>2. CASE e = Mirror(set) BY <2>2, KindsOf DEF SettleKinds
  <2>3. CASE Bland(e) BY <2>3, NotBland
  <2>4. CASE e = Arm("janitor") BY <2>4, KindsOf DEF SettleKinds
  <2>5. CASE e = Arm("ring") /\ ~NoAvenue(r.m) BY <2>5, KindsOf DEF SettleKinds
  <2>6. CASE e.kind \in {"telnyx-dial", "telnyx-dial-placer"} BY <2>6, KindsOf DEF SettleKinds
  <2> QED BY <2>1, <2>2, <2>3, <2>4, <2>5, <2>6 DEF Opens
<1>4. SettledBefore(r.fx) BY <1>3, SettledNoPurge
<1>5. Mirror(set) \in Eff(r.fx) /\ Mirror(set).kind = "mirror" /\ Mirror(set).set = set
  BY <1>1, KindsOf DEF OpeningWrite
<1> QED BY <1>1, <1>2, <1>3, <1>4, <1>5 DEF OpeningWrite

(***************************************************************************)
(* The effects still to be run, and what running one leaves of them.       *)
(***************************************************************************)
Unrun == Eff(journal.fx)

\* The cursor passed at most the first of them.
Passes ==
  /\ Effect \in Unrun
  /\ Unrun' \subseteq Unrun /\ \A e \in Unrun : e = Effect \/ e \in Unrun'
  /\ SettledBefore(journal.fx) => SettledBefore(journal'.fx) \/ Effect.kind \in SettleKinds
  /\ SettledBefore(journal.fx) => Effect # Arm("purge")
  /\ journal'.open /\ ~journal'.reduced => journal'.event \in FollowUp
  /\ ~journal'.open => journal' = NoJournal

\* The head and the tail of a list of effects.
LEMMA EffTail ==
  ASSUME NEW S, NEW fx \in Seq(S), fx # <<>>
  PROVE  /\ Head(fx) \in Eff(fx) /\ Eff(Tail(fx)) \subseteq Eff(fx)
         /\ \A e \in Eff(fx) : e = Head(fx) \/ e \in Eff(Tail(fx))
         /\ SettledBefore(fx) => SettledBefore(Tail(fx)) \/ Head(fx).kind \in SettleKinds
         /\ SettledBefore(fx) => Head(fx) # Arm("purge")
<1>1. /\ Len(fx) \in Nat \ {0} /\ DOMAIN fx = 1 .. Len(fx) /\ Head(fx) = fx[1]
      /\ DOMAIN Tail(fx) = 1 .. (Len(fx) - 1) /\ \A i \in DOMAIN Tail(fx) : Tail(fx)[i] = fx[i + 1]
  OBVIOUS
<1>2. Head(fx) \in Eff(fx) BY <1>1 DEF Eff
<1>3. Eff(Tail(fx)) \subseteq Eff(fx)
  <2>1. ASSUME NEW i \in DOMAIN Tail(fx) PROVE Tail(fx)[i] \in Eff(fx)
    <3>1. i + 1 \in DOMAIN fx BY <1>1, <2>1
    <3> QED BY <1>1, <2>1, <3>1 DEF Eff
  <2> QED BY <2>1 DEF Eff
<1>4. \A e \in Eff(fx) : e = Head(fx) \/ e \in Eff(Tail(fx))
  <2>1. ASSUME NEW i \in DOMAIN fx, i # 1 PROVE fx[i] \in Eff(Tail(fx))
    <3>1. i - 1 \in DOMAIN Tail(fx) /\ (i - 1) + 1 = i BY <1>1, <2>1
    <3>2. Tail(fx)[i - 1] = fx[i] BY <1>1, <3>1
    <3> QED BY <3>1, <3>2 DEF Eff
  <2> QED BY <1>1, <2>1 DEF Eff
<1>5. ASSUME SettledBefore(fx), Head(fx).kind \notin SettleKinds PROVE SettledBefore(Tail(fx))
  <2>1. SUFFICES ASSUME NEW i \in DOMAIN Tail(fx), Tail(fx)[i] = Arm("purge")
                 PROVE  \E j \in 1 .. (i - 1) : Tail(fx)[j].kind \in SettleKinds
    BY DEF SettledBefore
  <2>2. i + 1 \in DOMAIN fx /\ fx[i + 1] = Arm("purge") BY <1>1, <2>1
  <2>3. PICK j \in 1 .. ((i + 1) - 1) : fx[j].kind \in SettleKinds BY <1>5, <2>2 DEF SettledBefore
  <2>4. j # 1 BY <1>1, <1>5, <2>3
  <2>5. j - 1 \in 1 .. (i - 1) /\ (j - 1) + 1 = j /\ j - 1 \in DOMAIN Tail(fx) BY <1>1, <2>1, <2>3, <2>4
  <2>6. Tail(fx)[j - 1] = fx[j] BY <1>1, <2>5
  <2> QED BY <2>3, <2>5, <2>6
<1>6. SettledBefore(fx) => Head(fx) # Arm("purge")
  <2>1. 1 \in DOMAIN fx /\ 1 .. (1 - 1) = {} BY <1>1
  <2> QED BY <1>1, <2>1 DEF SettledBefore
<1> QED BY <1>2, <1>3, <1>4, <1>5, <1>6

\* What is journaled is a list of effects.
LEMMA UnrunIs ==
  ASSUME TypeOK
  PROVE  /\ journal.fx \in Seq(Unrun) /\ \A e \in Unrun : IsEffect(e)
         /\ ~journal.reduced => journal.fx = <<>> /\ Unrun = {}
         /\ journal.reduced => journal.fx # <<>>
<1>1. IsEffects(journal.fx) /\ (journal.reduced <=> journal.fx # <<>>) BY DEF TypeOK, JournalOK
<1>2. journal.fx \in Seq(Unrun) /\ \A e \in Unrun : IsEffect(e)
  BY <1>1 DEF IsEffects, Unrun, Eff
<1>3. journal.fx = <<>> => Unrun = {} BY DEF Unrun, Eff
<1> QED BY <1>1, <1>2, <1>3

\* What the cursor finds.
LEMMA AdvancedFx ==
  ASSUME TypeOK, NEW fx, journal.open, fx # <<>> => journal.reduced, NEW rest \in Seq(FollowUp)
  PROVE  /\ Advanced(fx, rest).fx = fx
         /\ Advanced(fx, rest).open /\ ~Advanced(fx, rest).reduced
              => Advanced(fx, rest).event \in FollowUp
         /\ ~Advanced(fx, rest).open => Advanced(fx, rest) = NoJournal
<1>0. DOMAIN journal = {"open", "event", "reduced", "fx", "rest"} BY DEF TypeOK, JournalOK
<1>1. CASE fx # <<>>
  <2>1. Advanced(fx, rest) = [journal EXCEPT !.fx = fx, !.rest = rest] BY <1>1 DEF Advanced
  <2>2. Advanced(fx, rest).reduced = journal.reduced /\ Advanced(fx, rest).open = journal.open
          /\ Advanced(fx, rest).fx = fx
    BY <1>0, <2>1
  <2> QED BY <1>1, <2>2
<1>2. CASE fx = <<>> /\ rest # <<>>
  <2>1. Head(rest) \in FollowUp BY <1>2
  <2>2. Advanced(fx, rest) = [Journal(Head(rest)) EXCEPT !.rest = Tail(rest)] BY <1>2 DEF Advanced
  <2> QED BY <1>2, <2>1, <2>2 DEF Journal
<1>3. CASE fx = <<>> /\ rest = <<>>
  <2>1. Advanced(fx, rest) = NoJournal BY <1>3 DEF Advanced
  <2> QED BY <1>3, <2>1 DEF NoJournal
<1> QED BY <1>1, <1>2, <1>3

\* Passing an effect.
LEMMA AdvancePasses ==
  ASSUME TypeOK, journal.open, journal.reduced, NEW fu \in Seq(FollowUp), Advance(fu)
  PROVE  Passes
<1>1. journal.rest \o fu \in Seq(FollowUp) BY DEF TypeOK, JournalOK
<1>2. journal.fx \in Seq(Unrun) /\ journal.fx # <<>> BY UnrunIs
<1>3. journal' = Advanced(Tail(journal.fx), journal.rest \o fu) BY DEF Advance
<1>4. /\ journal'.fx = Tail(journal.fx)
      /\ journal'.open /\ ~journal'.reduced => journal'.event \in FollowUp
      /\ ~journal'.open => journal' = NoJournal
  BY <1>1, <1>3, AdvancedFx
<1>5. Unrun' = Eff(Tail(journal.fx)) BY <1>4 DEF Unrun
<1>6. /\ Head(journal.fx) \in Unrun /\ Unrun' \subseteq Unrun
      /\ \A e \in Unrun : e = Head(journal.fx) \/ e \in Unrun'
      /\ SettledBefore(journal.fx)
           => SettledBefore(journal'.fx) \/ Head(journal.fx).kind \in SettleKinds
      /\ SettledBefore(journal.fx) => Head(journal.fx) # Arm("purge")
  BY <1>2, <1>4, <1>5, EffTail DEF Unrun
<1> QED BY <1>4, <1>6 DEF Passes, Effect

\* Staying where it is.
LEMMA StayPasses ==
  ASSUME TypeOK, journal.open, journal.reduced, UNCHANGED journal PROVE Passes
<1>1. journal.fx \in Seq(Unrun) /\ journal.fx # <<>> BY UnrunIs
<1>2. Head(journal.fx) \in Unrun /\ (SettledBefore(journal.fx) => Head(journal.fx) # Arm("purge"))
  BY <1>1, EffTail DEF Unrun
<1>3. Unrun' = Unrun BY DEF Unrun
<1> QED BY <1>2, <1>3 DEF Passes, Effect

\* Whichever.
LEMMA DonePasses ==
  ASSUME TypeOK, journal.open, journal.reduced, NEW fu \in Seq(FollowUp), Done(fu) PROVE Passes
  BY AdvancePasses, StayPasses DEF Done

(***************************************************************************)
(* The forms a step takes, as far as machine, journal, alarms, pending     *)
(* write and row go.                                                       *)
(***************************************************************************)
MirrorRuns ==
  /\ Effect.kind = "mirror" /\ IsColumns(Effect.set)
  /\ row' = mirror(row, Effect.set)
  /\ UNCHANGED << alarms, pending >>

MirrorFails ==
  /\ Effect.kind = "mirror" /\ IsColumns(Effect.set) /\ Spend("mirrorFail")
  /\ row' = row \/ (row.exists /\ row' = fillOutcome(row, Effect.set))
  /\ pending' = [set |-> Written(Effect.set, pending.set),
                 attempts |-> IF pending = NoPending THEN 1 ELSE pending.attempts]
  /\ alarms' = alarms \cup {"mirror-retry"}

Merges(o) ==
  /\ o \in Ending
  /\ row' = IF row.exists THEN upsertOutcome(row, o) ELSE row
  /\ UNCHANGED << alarms, pending >>

\* An effect that neither writes the row nor settles the call.
RunsAside ==
  /\ Effect.kind \notin {"mirror"} \cup SettleKinds
  /\ UNCHANGED << row, pending >>
  /\ \A a \in alarms' : a \in alarms \/ Effect = Arm(a)

\* The recording, kept or not, or a pass that throws.
Pipes ==
  /\ Effect.kind = "voicemail-pipeline"
  /\ VoicemailStored \/ NothingKept \/ VoicemailThrows
  /\ UNCHANGED << alarms, pending >>

Executes ==
  /\ Execute /\ journal.open /\ journal.reduced /\ Passes
  /\ UNCHANGED << machine, seen, consult >>
  /\ \/ Pipes
     \/ /\ UNCHANGED hist
        /\ \/ MirrorRuns \/ MirrorFails
           \/ Effect.kind = "terminal-merge" /\ Merges(Effect.outcome)
           \/ RunsAside

\* An alarm effect is the arming of its slot.
LEMMA ArmIs ==
  ASSUME NEW e, IsEffect(e), e.kind = "arm-alarm" PROVE e = Arm(e.alarm)
<1>1. CASE e \in PlainEffect BY <1>1 DEF PlainEffect, Arm
<1>2. CASE e = Mirror(e.set) BY <1>2, KindsOf
<1> QED BY <1>1, <1>2 DEF IsEffect

\* The commands to the legs report what their types say.
LEMMA DialPasses == ASSUME TypeOK, ExecDial PROVE Passes
<1>1. PICK result \in [Effect.from .. Effect.to -> DialResults] :
        Done([n \in 1 .. Effect.to + 1 - Effect.from |->
                DialOutcome(Effect.from + n - 1, result[Effect.from + n - 1])])
  BY DEF ExecDial
<1> DEFINE k == Effect.to + 1 - Effect.from
           f == [n \in 1 .. k |-> DialOutcome(Effect.from + n - 1, result[Effect.from + n - 1])]
<1>2. Effect.from \in LegId /\ Effect.to \in LegId BY ExecutingIs, EffectFields DEF ExecDial
<1>3. \A i \in LegId : \A x : DialOutcome(i, x) \in FollowUp BY DEF DialOutcome, FollowUp
<1>4. \A n \in 1 .. k : Effect.from + n - 1 \in LegId BY <1>2, MaxLegsAssumption DEF LegId
<1>5. f \in [1 .. k -> FollowUp] BY <1>3, <1>4
<1>6. PICK l \in Nat : 1 .. k = 1 .. l BY <1>2, MaxLegsAssumption DEF LegId
<1>7. f \in [1 .. l -> FollowUp] BY <1>5, <1>6
<1>8. Done(f) BY <1>1
<1> HIDE DEF f
<1>9. f \in Seq(FollowUp) BY <1>7
<1> QED BY <1>8, <1>9, DonePasses DEF ExecDial, Executing

\* So do the answers,
LEMMA AnswersPass ==
  ASSUME TypeOK, ExecAnswerInbound \/ ExecAnswerNotice \/ ExecAnswerVm PROVE Passes
<1>0. \A ev \in FollowUp : <<ev>> \in Seq(FollowUp) OBVIOUS
<1>1. ASSUME NEW ev \in FollowUp, Done(<<ev>>), journal.open, journal.reduced PROVE Passes
  <2>1. <<ev>> \in Seq(FollowUp) BY <1>0
  <2> QED BY <1>1, <2>1, DonePasses
<1>2. CASE ExecAnswerInbound
  <2> DEFINE ev == [type |-> "answer-outcome", ok |-> AnswerTakes, leg |-> Effect.leg,
                    user |-> Effect.user]
  <2>1. Effect.leg \in LegId /\ Effect.user \in Maybe(User)
    BY <1>2, ExecutingIs, EffectFields DEF ExecAnswerInbound
  <2>2. ev \in FollowUp BY <2>1 DEF FollowUp, AnswerTakes
  <2>3. Done(<<ev>>) /\ journal.open /\ journal.reduced
    BY <1>2 DEF ExecAnswerInbound, AnswerCustomer, Executing
  <2> QED BY <1>1, <2>2, <2>3
<1>3. CASE ExecAnswerNotice \/ ExecAnswerVm
  <2>1. [type |-> "notice-answer-outcome", ok |-> AnswerTakes] \in FollowUp
          /\ [type |-> "vm-answer-outcome", ok |-> AnswerTakes] \in FollowUp
    BY DEF FollowUp, AnswerTakes
  <2>2. /\ \/ Done(<<[type |-> "notice-answer-outcome", ok |-> AnswerTakes]>>)
           \/ Done(<<[type |-> "vm-answer-outcome", ok |-> AnswerTakes]>>)
        /\ journal.open /\ journal.reduced
    BY <1>3 DEF ExecAnswerNotice, ExecAnswerVm, AnswerCustomer, Executing
  <2> QED BY <1>1, <2>1, <2>2
<1> QED BY <1>2, <1>3

\* and the commands that report little or nothing.
LEMMA CommandsPass ==
  ASSUME TypeOK,
         \/ ExecBridge \/ ExecHangupLegs \/ ExecHangupCustomer \/ ExecReject \/ ExecMedia
         \/ ExecMirror \/ ExecTerminalMerge \/ ExecVoicemailPipeline \/ ExecAlarmSlot
         \/ ExecMirrorFails
  PROVE  Passes
<1>0. CASE ExecVoicemailPipeline
  <2>1. journal.open /\ journal.reduced BY <1>0 DEF ExecVoicemailPipeline, Executing
  <2>2. Done(<<>>) \/ Advance(<<>>) \/ UNCHANGED journal
    BY <1>0 DEF ExecVoicemailPipeline, VoicemailStored, NothingKept, VoicemailThrows
  <2> QED BY <2>1, <2>2, NoFollowUps, DonePasses, AdvancePasses, StayPasses
<1>1. CASE ExecHangupCustomer
  <2>1. [type |-> "inbound-leg-gone"] \in FollowUp BY DEF FollowUp
  <2>2. <<[type |-> "inbound-leg-gone"]>> \in Seq(FollowUp) BY <2>1
  <2>3. Done(<<>>) \/ Done(<<[type |-> "inbound-leg-gone"]>>) BY <1>1 DEF ExecHangupCustomer
  <2> QED BY <1>1, <2>2, <2>3, NoFollowUps, DonePasses DEF ExecHangupCustomer, Executing
<1>2. CASE ExecMirrorFails
  BY <1>2, NoFollowUps, AdvancePasses DEF ExecMirrorFails, Executing
<1>3. CASE \/ ExecBridge \/ ExecHangupLegs \/ ExecReject \/ ExecMedia \/ ExecMirror
           \/ ExecTerminalMerge \/ ExecAlarmSlot
  <2>1. Done(<<>>) /\ journal.open /\ journal.reduced
    BY <1>3 DEF ExecBridge, ExecHangupLegs, ExecReject, ExecMedia, ExecMirror, ExecTerminalMerge,
       ExecAlarmSlot, Executing
  <2> QED BY <2>1, NoFollowUps, DonePasses
<1> QED BY <1>0, <1>1, <1>2, <1>3

\* The probe and the push fan-out report.
LEMMA ReportsPass == ASSUME TypeOK, ExecQuietly \/ ExecPushFanout PROVE Passes
<1>1. CASE ExecQuietly
  <2> DEFINE probed == [type |-> "member-probe-outcome", leg |-> Effect.leg, user |-> Effect.user,
                        ok |-> wlegs[Effect.leg].status \in Up]
  <2>1. CASE Executing("push-call-end")
    <3>1. Done(<<>>) BY <1>1, <2>1 DEF ExecQuietly, Executing, Effect
    <3> QED BY <2>1, <3>1, NoFollowUps, DonePasses DEF Executing
  <2>2. CASE Executing("telnyx-probe-member-leg")
    <3>1. Effect.leg \in LegId /\ Effect.user \in Maybe(User) BY <2>2, ExecutingIs, EffectFields
    <3>2. probed \in FollowUp BY <3>1 DEF FollowUp
    <3>3. <<probed>> \in Seq(FollowUp) BY <3>2
    <3>4. Done(<<probed>>) BY <1>1, <2>2 DEF ExecQuietly, Executing, Effect
    <3> QED BY <2>2, <3>3, <3>4, DonePasses DEF Executing
  <2> QED BY <1>1, <2>1, <2>2 DEF ExecQuietly
<1>2. CASE ExecPushFanout
  <2>1. PICK unreachable \in SUBSET machine.push :
          Done(<<[type |-> "push-fanout-settled", unreachable |-> unreachable]>>)
    BY <1>2 DEF ExecPushFanout
  <2>2. [type |-> "push-fanout-settled", unreachable |-> unreachable] \in FollowUp
    BY DEF TypeOK, MachineOK, SessionMachine, FollowUp
  <2>3. <<[type |-> "push-fanout-settled", unreachable |-> unreachable]>> \in Seq(FollowUp) BY <2>2
  <2> QED BY <1>2, <2>1, <2>3, DonePasses DEF ExecPushFanout, Executing
<1> QED BY <1>1, <1>2

\* Running an effect takes one of five forms.
LEMMA ExecuteForms == ASSUME TypeOK, Execute PROVE Executes
<1>1. Passes BY DialPasses, AnswersPass, CommandsPass, ReportsPass DEF Execute
<1>2. /\ journal.open /\ journal.reduced /\ UNCHANGED << machine, seen, consult >>
      /\ ExecVoicemailPipeline \/ UNCHANGED hist
  BY DEF Execute, Executing, ExecMirror, ExecMirrorFails, ExecDial, ExecAnswerInbound,
     ExecAnswerNotice, ExecAnswerVm, AnswerCustomer, ExecBridge, ExecHangupLegs,
     ExecHangupCustomer, ExecReject, ExecMedia, ExecQuietly, ExecPushFanout, ExecTerminalMerge,
     ExecVoicemailPipeline, ExecAlarmSlot
<1>3. CASE ExecVoicemailPipeline
  <2>1. Effect.kind = "voicemail-pipeline" BY <1>3, ExecutingIs DEF ExecVoicemailPipeline
  <2>2. Pipes BY <1>3, <2>1 DEF ExecVoicemailPipeline, Pipes
  <2> QED BY <1>1, <1>2, <2>2 DEF Executes
<1>4. CASE ExecMirror
  <2>1. Effect.kind = "mirror" /\ IsColumns(Effect.set)
    BY <1>4, ExecutingIs, EffectFields DEF ExecMirror
  <2>2. MirrorRuns BY <1>4, <2>1 DEF ExecMirror, MirrorRuns
  <2> QED BY <1>1, <1>2, <1>3, <2>2 DEF Executes
<1>5. CASE ExecMirrorFails
  <2>1. Effect.kind = "mirror" /\ IsColumns(Effect.set)
    BY <1>5, ExecutingIs, EffectFields DEF ExecMirrorFails
  <2>2. row' = row \/ (row.exists /\ row' = fillOutcome(row, Effect.set))
    BY <1>5 DEF ExecMirrorFails
  <2>3. MirrorFails BY <1>5, <2>1, <2>2 DEF ExecMirrorFails, MirrorFails
  <2> QED BY <1>1, <1>2, <1>3, <2>3 DEF Executes
<1>6. CASE ExecTerminalMerge
  <2>1. Effect.kind = "terminal-merge" /\ Effect.outcome \in Ending
    BY <1>6, ExecutingIs, EffectFields DEF ExecTerminalMerge
  <2>2. Merges(Effect.outcome) BY <1>6, <2>1 DEF ExecTerminalMerge, Merges
  <2> QED BY <1>1, <1>2, <1>3, <2>1, <2>2 DEF Executes
<1>7. CASE ExecAlarmSlot
  <2>1. Effect.kind \in {"arm-alarm", "clear-alarm"}
    BY <1>7 DEF ExecAlarmSlot, Executing, Effect
  <2>2. IsEffect(Effect) /\ Effect \in Unrun BY <1>1, <1>7, UnrunIs DEF Passes
  <2>3. Effect.kind = "arm-alarm" => Effect = Arm(Effect.alarm) BY <2>2, ArmIs
  <2>4. RunsAside BY <1>7, <2>1, <2>3 DEF ExecAlarmSlot, RunsAside, SettleKinds
  <2> QED BY <1>1, <1>2, <1>3, <2>4 DEF Executes
<1>8. CASE ExecPushFanout
  <2>1. RunsAside BY <1>8 DEF ExecPushFanout, RunsAside, SettleKinds, Executing, Effect
  <2> QED BY <1>1, <1>2, <1>3, <2>1 DEF Executes
<1>9. CASE \/ ExecDial \/ ExecAnswerInbound \/ ExecAnswerNotice \/ ExecAnswerVm \/ ExecBridge
           \/ ExecHangupLegs \/ ExecHangupCustomer \/ ExecReject \/ ExecMedia \/ ExecQuietly
  <2>1. Effect.kind \notin {"mirror"} \cup SettleKinds
    BY <1>9 DEF Executing, Effect, SettleKinds, ExecDial, ExecAnswerInbound, ExecAnswerNotice,
       ExecAnswerVm, ExecBridge, ExecHangupLegs, ExecHangupCustomer, ExecReject, ExecMedia,
       ExecQuietly
  <2>2. UNCHANGED << row, pending, alarms >>
    BY <1>9 DEF ExecDial, ExecAnswerInbound, ExecAnswerNotice, ExecAnswerVm, AnswerCustomer,
       ExecBridge, ExecHangupLegs, ExecHangupCustomer, ExecReject, ExecMedia, ExecQuietly
  <2>3. RunsAside BY <2>1, <2>2 DEF RunsAside
  <2> QED BY <1>1, <1>2, <1>3, <2>3 DEF Executes
<1> QED BY <1>3, <1>4, <1>5, <1>6, <1>7, <1>8, <1>9 DEF Execute

(***************************************************************************)
(* The other steps.                                                        *)
(***************************************************************************)
\* The reducer's step, with what it leaves in the journal.
Reduces ==
  /\ journal.open /\ ~journal.reduced /\ journal.event \in Event
  /\ machine' = reduce(machine, journal.event).m
  /\ journal'.fx = reduce(machine, journal.event).fx
  /\ Unrun' = Eff(reduce(machine, journal.event).fx)
  /\ journal'.open /\ ~journal'.reduced => journal'.event \in FollowUp
  /\ ~journal'.open => journal' = NoJournal
  /\ hist' = [ended  |-> hist.ended \/ isTerminal(machine'.state),
              minted |-> hist.minted \/ (isNone(machine) /\ ~isNone(machine')),
              unkept |-> hist.unkept,
              forgot |-> hist.forgot]
  /\ UNCHANGED << seen, alarms, pending, row, customer, wlegs, net, consult, spent >>

LEMMA ReduceForm == ASSUME TypeOK, Reduce PROVE Reduces
<1> DEFINE r == reduce(machine, journal.event)
<1>1. journal.open /\ ~journal.reduced /\ journal.event \in Event
  BY DEF Reduce, TypeOK, JournalOK
<1>2. /\ journal' = IF r.fx = <<>> THEN Advanced(<<>>, journal.rest)
                    ELSE [journal EXCEPT !.reduced = TRUE, !.fx = r.fx]
      /\ machine' = r.m
  BY DEF Reduce
<1> HIDE DEF r
<1>3. DOMAIN journal = {"open", "event", "reduced", "fx", "rest"} /\ journal.rest \in Seq(FollowUp)
  BY DEF TypeOK, JournalOK
<1>4. /\ journal'.fx = r.fx
      /\ journal'.open /\ ~journal'.reduced => journal'.event \in FollowUp
      /\ ~journal'.open => journal' = NoJournal
  <2>1. CASE r.fx = <<>> BY <1>1, <1>2, <1>3, <2>1, AdvancedFx
  <2>2. CASE r.fx # <<>>
    <3>1. journal' = [journal EXCEPT !.reduced = TRUE, !.fx = r.fx] BY <1>2, <2>2
    <3>2. journal'.fx = r.fx /\ journal'.reduced /\ journal'.open = journal.open BY <1>3, <3>1
    <3> QED BY <1>1, <3>2
  <2> QED BY <2>1, <2>2
<1>5. Unrun' = Eff(r.fx) BY <1>4 DEF Unrun
<1> QED BY <1>1, <1>2, <1>4, <1>5 DEF Reduce, Reduces, r

\* A step of the world, of the feed or of a route that leaves object and row alone.
Aside == UNCHANGED << durable, row, hist >>

\* The row is made and no session yet: a crash, or an authorization that lapsed.
Claims ==
  Drained /\ ~row.exists /\ row' = ClaimedRow /\ UNCHANGED << durable, consult, hist >>

OpensCall ==
  \E w \in net, ev \in Event :
     /\ w.type = ev.type /\ ev.type \in Initiations /\ Admit(ev)
     /\ row.exists => row.outcome = "null"
     /\ row' = IF row.exists THEN row ELSE ClaimedRow
     /\ seen' = seen \cup {w}
     /\ UNCHANGED << machine, alarms, pending, customer, wlegs, consult, hist >>

\* A webhook or a request is admitted, on a machine or on one taken from the row.
Adopts ==
  \E w, ev :
     /\ ev \in Event /\ ev.type \notin Initiations
     /\ \/ ev = w /\ w \in net /\ seen' = seen \cup {w}
        \/ w = NoWebhook /\ ev.type \in {"ring-me", "decline"} /\ UNCHANGED seen
     /\ ~isNone(machine) \/ row.exists
     /\ Admit(ev) /\ Adopt(w)
     /\ UNCHANGED << alarms, pending, row, customer, wlegs, consult >>

\* A consult route speaks to the session.
TellsSession ==
  /\ \/ UNCHANGED journal
     \/ /\ ~isNone(machine)
        /\ \E ev \in Event :
              /\ Admit(ev)
              /\ \/ ev.type \in {"register-intent", "clear-intent"}
                 \/ ev.type = "set-owner" /\ consult.step \in {"stamped", "restored"}
  /\ consult.step # "idle"
  /\ UNCHANGED << machine, seen, alarms, pending, row, customer, wlegs, net, spent, hist >>

\* A consult route writes the owner into the row.
SetsRowOwner ==
  /\ \E u \in User : row' = [row EXCEPT !.answered_by_user_id = u]
  /\ consult.step # "idle" /\ consult'.step \in {"stamped", "restored"}
  /\ UNCHANGED << durable, customer, wlegs, net, hist >>

\* An alarm slot is cleared, to be fired or to be lost.
ClearsSlot ==
  \E slot \in alarms :
     /\ Drained /\ alarms' = alarms \ {slot}
     /\ \/ UNCHANGED journal
        \/ /\ ~isNone(machine) /\ slot \notin {"mirror-retry", "purge"}
           /\ \E ev \in Event : ev \in AlarmEvents(slot) /\ Admit(ev)
     /\ UNCHANGED << machine, seen, pending, row, customer, wlegs, net, consult, hist >>

\* The members' requests are Adopts.
LEMMA RequestForm ==
  ASSUME TypeOK, NEW kind, NEW ev \in Event, ev.type \in {"ring-me", "decline"}, Request(kind, ev)
  PROVE  Adopts
<1>1. ev.type \notin Initiations BY DEF Initiations
<1>2. Admit(ev) /\ Adopt(NoWebhook) /\ row.exists BY DEF Request
<1>3. UNCHANGED << seen, alarms, pending, row, customer, wlegs, consult >> BY DEF Request, world
<1> QED BY <1>1, <1>2, <1>3 DEF Adopts

\* The consult routes.
LEMMA ConsultForm == ASSUME TypeOK, Consult PROVE Aside \/ TellsSession \/ SetsRowOwner
<1>1. ASSUME NEW ev \in Event, Tell(ev), consult.step # "idle",
             \/ ev.type \in {"register-intent", "clear-intent"}
             \/ ev.type = "set-owner" /\ consult.step \in {"stamped", "restored"}
      PROVE  TellsSession
  BY <1>1 DEF Tell, TellsSession, world
<1>2. /\ [type |-> "register-intent"] \in Event /\ [type |-> "clear-intent"] \in Event
      /\ \A u \in User : [type |-> "set-owner", user |-> u] \in Event
  BY DEF Event, Asked
<1>3. consult.step # "idle" => consult.sender \in User /\ consult.target \in User
  BY DEF TypeOK, NoConsult
<1>4. CASE ConsultRegister BY <1>1, <1>2, <1>4 DEF ConsultRegister, AtStep
<1>5. CASE ConsultAbandon BY <1>1, <1>2, <1>5 DEF ConsultAbandon, AtStep
<1>6. CASE ConsultClear BY <1>1, <1>2, <1>6 DEF ConsultClear, AtStep
<1>7. CASE ConsultOwner
  <2> DEFINE ev == [type |-> "set-owner", user |-> consult.target]
  <2>1. consult.step = "stamped" /\ Tell(ev) BY <1>7 DEF ConsultOwner, AtStep
  <2>2. ev \in Event /\ ev.type = "set-owner" BY <1>2, <1>3, <2>1
  <2> HIDE DEF ev
  <2> QED BY <1>1, <2>1, <2>2
<1>8. CASE ConsultRestoreOwner
  <2> DEFINE ev == [type |-> "set-owner", user |-> consult.sender]
  <2>1. consult.step = "restored" /\ Tell(ev) BY <1>8 DEF ConsultRestoreOwner, AtStep
  <2>2. ev \in Event /\ ev.type = "set-owner" BY <1>2, <1>3, <2>1
  <2> HIDE DEF ev
  <2> QED BY <1>1, <2>1, <2>2
<1>9. CASE ConsultStamp \/ ConsultStealFails
  <2>1. consult.step # "idle" BY <1>9 DEF ConsultStamp, ConsultStealFails, AtStep
  <2>2. \/ consult' = [consult EXCEPT !.step = "stamped"]
        \/ consult' = [consult EXCEPT !.step = "restored"]
    BY <1>9 DEF ConsultStamp, ConsultStealFails, GoTo
  <2>3. consult'.step \in {"stamped", "restored"} BY <2>1, <2>2 DEF TypeOK, NoConsult
  <2> QED
    BY <1>3, <1>9, <2>1, <2>3 DEF ConsultStamp, ConsultStealFails, AtStep, SetsRowOwner, world
<1>10. CASE \/ \E sender, target \in User : ConsultGate(sender, target)
            \/ ConsultDialed \/ ConsultSteal
  BY <1>10 DEF ConsultGate, ConsultDialed, ConsultSteal, Aside
<1> QED BY <1>4, <1>5, <1>6, <1>7, <1>8, <1>9, <1>10 DEF Consult

\* The webhooks.
LEMMA DeliverForm ==
  ASSUME TypeOK, NEW w \in net, Deliver(w) PROVE Aside \/ Claims \/ OpensCall \/ Adopts
<1>1. w \in Hook BY DEF TypeOK
<1>2. CASE DeliverSeen(w) \/ DeliverInitiatedLate(w) \/ DropUnknown(w)
  BY <1>2 DEF DeliverSeen, DeliverInitiatedLate, DropUnknown, Aside
<1>3. CASE DeliverInitiated(w)
  <2>1. PICK ctx \in Contexts : Admit([type |-> "initiated", context |-> ctx])
    BY <1>3 DEF DeliverInitiated
  <2> DEFINE ev == [type |-> "initiated", context |-> ctx]
  <2>2. ev \in Event /\ ev.type = w.type /\ ev.type \in Initiations /\ Admit(ev)
    BY <1>3, <2>1, ContextAssumption DEF Event, Mint, DeliverInitiated, Initiations
  <2> HIDE DEF ev
  <2> QED BY <1>3, <2>2 DEF DeliverInitiated, OpensCall, world
<1>4. CASE DeliverOutboundInitiated(w)
  <2>1. PICK ctx \in Placements : Admit([type |-> "outbound-initiated", context |-> ctx])
    BY <1>4 DEF DeliverOutboundInitiated
  <2> DEFINE ev == [type |-> "outbound-initiated", context |-> ctx]
  <2>2. ev \in Event /\ ev.type = w.type /\ ev.type \in Initiations /\ Admit(ev)
    BY <1>4, <2>1, PlacementAssumption DEF Event, Mint, DeliverOutboundInitiated, Initiations
  <2> HIDE DEF ev
  <2> QED BY <1>4, <2>2 DEF DeliverOutboundInitiated, OpensCall, world
<1>5. CASE RejectOutboundInitiated(w)
  <2>1. row' = row \/ row' = ClaimedRow BY <1>5 DEF RejectOutboundInitiated
  <2> QED BY <1>5, <2>1 DEF RejectOutboundInitiated, Aside, Claims
<1>6. CASE DeliverEvent(w)
  <2>1. w \in Event /\ w.type \notin Initiations BY <1>1, <1>6, HookIsEvent DEF DeliverEvent
  <2> QED BY <1>6, <2>1 DEF DeliverEvent, Adopts, world
<1> QED BY <1>2, <1>3, <1>4, <1>5, <1>6 DEF Deliver

\* Every step has one of the forms.
Forms ==
  \/ Reduces \/ Executes \/ Aside \/ Claims \/ OpensCall \/ Adopts \/ TellsSession
  \/ SetsRowOwner \/ ClearsSlot \/ RetryMirrorLands \/ RetryMirrorFails \/ Purge

LEMMA NextForms == ASSUME TypeOK, [Next]_vars PROVE Forms
<1>1. CASE Shell
  <2>1. ASSUME NEW slot \in AlarmSlot, FireAlarm(slot) PROVE ClearsSlot
    <3>1. slot \in alarms /\ Drained /\ alarms' = alarms \ {slot}
      BY <2>1 DEF FireAlarm, Due
    <3>2. \/ UNCHANGED journal
          \/ /\ ~isNone(machine) /\ slot \notin {"mirror-retry", "purge"}
             /\ \E ev \in Event : ev \in AlarmEvents(slot) /\ Admit(ev)
      <4>1. CASE isNone(machine) BY <2>1, <4>1 DEF FireAlarm
      <4>2. CASE ~isNone(machine)
        <5>1. PICK ev \in AlarmEvents(slot) : Admit(ev) BY <2>1, <4>2 DEF FireAlarm
        <5>2. machine.push \in SUBSET User BY DEF TypeOK, MachineOK, SessionMachine
        <5>3. ev \in Event BY <5>1, <5>2 DEF AlarmEvents, Event, FollowUp, Asked
        <5> QED BY <2>1, <4>2, <5>1, <5>3 DEF FireAlarm
      <4> QED BY <4>1, <4>2
    <3> QED BY <2>1, <3>1, <3>2 DEF FireAlarm, ClearsSlot, world
  <2> QED BY <1>1, <2>1, ReduceForm, ExecuteForms DEF Shell, Forms
<1>2. CASE Faults
  <2>1. ASSUME NEW slot, LoseAlarm(slot) PROVE ClearsSlot
    BY <2>1 DEF LoseAlarm, Due, ClearsSlot, world
  <2>2. \A w : Lose(w) => Aside BY DEF Lose, Aside
  <2>3. \A w : ClaimThenCrash(w) => Claims BY DEF ClaimThenCrash, Claims
  <2> QED BY <1>2, <2>1, <2>2, <2>3 DEF Faults, Forms
<1>3. CASE Members
  <2>1. ASSUME NEW u \in User, NEW noLocalLeg \in BOOLEAN, NEW recent \in BOOLEAN,
               RingMe(u, noLocalLeg, recent)
        PROVE  Adopts
    <3> DEFINE ev == [type |-> "ring-me", user |-> u, noLocalLeg |-> noLocalLeg,
                      recent |-> recent]
    <3>1. ev \in Event /\ ev.type = "ring-me" BY DEF Event, Asked
    <3>2. Request("ringMe", ev) BY <2>1 DEF RingMe
    <3> HIDE DEF ev
    <3> QED BY <3>1, <3>2, RequestForm
  <2>2. ASSUME NEW u \in User, Decline(u) PROVE Adopts
    <3> DEFINE ev == [type |-> "decline", user |-> u]
    <3>1. ev \in Event /\ ev.type = "decline" BY DEF Event, Asked
    <3>2. Request("decline", ev) BY <2>2 DEF Decline
    <3> HIDE DEF ev
    <3> QED BY <3>1, <3>2, RequestForm
  <2> QED BY <1>3, <2>1, <2>2, ConsultForm DEF Members, Forms
<1>4. CASE Provider
  BY <1>4 DEF Provider, CustomerHangsUp, CustomerAnswers, MediaEnds, MemberAnswers, MemberLegEnds,
     durable, Aside, Forms
<1>5. CASE \E w \in net : Deliver(w) BY <1>5, DeliverForm DEF Forms
<1>6. CASE UNCHANGED vars BY <1>6 DEF vars, Aside, durable, Forms
<1> QED BY <1>1, <1>2, <1>3, <1>4, <1>5, <1>6 DEF Next

\* The transfer's routes start on a call that has an answered row.
LEMMA ConsultMoves ==
  ASSUME [Next]_vars PROVE consult'.step # "idle" => consult.step # "idle" \/ RowLive
<1>1. CASE Consult
  BY <1>1 DEF Consult, ConsultGate, ConsultRegister, ConsultDialed, ConsultAbandon, ConsultStamp,
     ConsultOwner, ConsultClear, ConsultSteal, ConsultStealFails, ConsultRestoreOwner, GoTo, AtStep
<1>2. CASE ~Consult
  <2>1. CASE UNCHANGED consult BY <2>1
  <2>2. CASE UNCHANGED vars BY <2>2 DEF vars
  <2>3. CASE Shell \/ Faults \/ Provider \/ \E w \in net : Deliver(w)
    <3>1. UNCHANGED consult
      BY <2>3 DEF Shell, Reduce, Execute, ExecMirror, ExecMirrorFails, ExecDial, ExecAnswerInbound,
         ExecAnswerNotice, ExecAnswerVm, AnswerCustomer, ExecBridge, ExecHangupLegs,
         ExecHangupCustomer, ExecReject, ExecMedia, ExecQuietly, ExecPushFanout, ExecTerminalMerge,
         ExecVoicemailPipeline, ExecAlarmSlot, FireAlarm, RetryMirrorLands, Purge,
         Faults, Lose, ClaimThenCrash, LoseAlarm, RetryMirrorFails,
         Provider, CustomerHangsUp, CustomerAnswers, MediaEnds, MemberAnswers, MemberLegEnds,
         Deliver, DeliverSeen, DeliverInitiated, DeliverInitiatedLate, DeliverOutboundInitiated,
         RejectOutboundInitiated, DeliverEvent, DropUnknown
    <3> QED BY <3>1
  <2>4. CASE Members
    BY <1>2, <2>4 DEF Members, RingMe, Decline, Request
  <2> QED BY <1>2, <2>2, <2>3, <2>4 DEF Next
<1> QED BY <1>1, <1>2

(***************************************************************************)
(* What the row keeps.                                                     *)
(***************************************************************************)
\* The row's outcome moves only as the lifecycle lets it.
OutcomeMoves(r, n) ==
  \/ n.outcome = r.outcome
  \/ r.outcome = "null" /\ n.outcome \in {"answered", "voicemail", "missed"}
  \/ n.outcome = "voicemail"

\* A write of columns changes these columns and may fill in the outcome.
LEMMA fillKeeps ==
  ASSUME NEW r \in Row, NEW set, IsColumns(set)
  PROVE  LET n == fillOutcome(r, set)
         IN  /\ n.exists = r.exists /\ n.direction = r.direction /\ n.state = r.state
             /\ n.answered_by_user_id = r.answered_by_user_id /\ n.answered_at = r.answered_at
             /\ n.voicemail_path = r.voicemail_path
             /\ \/ n.outcome = r.outcome
                \/ /\ r.outcome = "null" /\ n.outcome \in {"answered", "voicemail", "missed"}
                   /\ "state" \in DOMAIN set /\ isTerminal(set["state"])
                   /\ n.outcome = outcomeForState(set["state"])
             /\ "state" \in DOMAIN set /\ isTerminal(set["state"]) => n.outcome # "null"
<1>1. CASE "state" \in DOMAIN set /\ isTerminal(set.state) /\ r.outcome = "null"
  <2>1. outcomeForState(set.state) \in {"answered", "voicemail", "missed"}
    BY <1>1 DEF outcomeForState, isTerminal, TerminalStates
  <2> QED BY <1>1, <2>1 DEF fillOutcome, Row
<1>2. CASE ~("state" \in DOMAIN set /\ isTerminal(set.state) /\ r.outcome = "null")
  BY <1>2 DEF fillOutcome
<1> QED BY <1>1, <1>2

\* The whole write.
LEMMA mirrorKeeps ==
  ASSUME NEW r \in Row, NEW set, IsColumns(set)
  PROVE  LET n == mirror(r, set)
         IN  /\ n.exists = r.exists /\ n.direction = r.direction
             /\ ~r.exists => n = r
             /\ r.exists
                  => /\ n.state = IF "state" \in DOMAIN set THEN set["state"] ELSE r.state
                     /\ n.answered_by_user_id = IF "answered_by_user_id" \in DOMAIN set
                                                THEN set["answered_by_user_id"]
                                                ELSE r.answered_by_user_id
                     /\ n.answered_at = IF "answered_at" \in DOMAIN set THEN set["answered_at"]
                                        ELSE r.answered_at
             /\ n.voicemail_path = r.voicemail_path
             /\ \/ n.outcome = r.outcome
                \/ /\ r.outcome = "null" /\ n.outcome \in {"answered", "voicemail", "missed"}
                   /\ "state" \in DOMAIN set /\ isTerminal(set["state"])
                   /\ n.outcome = outcomeForState(set["state"])
             /\ r.exists /\ "state" \in DOMAIN set /\ isTerminal(set["state"])
                  => n.outcome # "null"
<1>1. CASE ~r.exists BY <1>1 DEF mirror
<1>2. CASE r.exists
  <2> DEFINE f == fillOutcome(r, set)
             n == Written(set, f)
  <2>1. mirror(r, set) = n BY <1>2 DEF mirror
  <2>2. f \in Row BY fillOutcomeIs
  <2>3. /\ f.exists = r.exists /\ f.direction = r.direction /\ f.state = r.state
        /\ f.answered_by_user_id = r.answered_by_user_id /\ f.answered_at = r.answered_at
        /\ \/ f.outcome = r.outcome
           \/ /\ r.outcome = "null" /\ f.outcome \in {"answered", "voicemail", "missed"}
              /\ "state" \in DOMAIN set /\ isTerminal(set["state"])
              /\ f.outcome = outcomeForState(set["state"])
        /\ f.voicemail_path = r.voicemail_path
        /\ "state" \in DOMAIN set /\ isTerminal(set["state"]) => f.outcome # "null"
    BY fillKeeps
  <2> HIDE DEF f
  <2>4. DOMAIN f = {"exists", "direction", "state", "outcome", "answered_by_user_id",
                    "answered_at", "notice_spoken", "voicemail_path"}
    BY <2>2 DEF Row
  <2>5. DOMAIN set \subseteq {"state", "answered_by_user_id", "answered_at", "notice_spoken"}
    BY DEF IsColumns, Column
  <2>6. /\ n["exists"] = f["exists"] /\ n["direction"] = f["direction"]
        /\ n["outcome"] = f["outcome"] /\ n["voicemail_path"] = f["voicemail_path"]
        /\ n["state"] = IF "state" \in DOMAIN set THEN set["state"] ELSE f["state"]
        /\ n["answered_by_user_id"] = IF "answered_by_user_id" \in DOMAIN set
                                      THEN set["answered_by_user_id"]
                                      ELSE f["answered_by_user_id"]
        /\ n["answered_at"] = IF "answered_at" \in DOMAIN set THEN set["answered_at"]
                              ELSE f["answered_at"]
    BY <2>4, <2>5 DEF Written
  <2> HIDE DEF n
  <2> QED BY <1>2, <2>1, <2>3, <2>6
<1> QED BY <1>1, <1>2

\* A merge fills in the outcome or turns it into a voicemail.
LEMMA upsertKeeps ==
  ASSUME NEW r \in Row, NEW o \in Outcome
  PROVE  LET n == upsertOutcome(r, o)
         IN  /\ n.exists = r.exists /\ n.direction = r.direction /\ n.state = r.state
             /\ n.answered_by_user_id = r.answered_by_user_id /\ n.answered_at = r.answered_at
             /\ n.outcome = IF o = "voicemail" \/ r.outcome = "null" THEN o ELSE r.outcome
             /\ n.outcome # "null" /\ OutcomeMoves(r, n) /\ n.voicemail_path = r.voicemail_path
  BY DEF upsertOutcome, Row, Outcome, OutcomeMoves

\* The pipeline keeps what it finds, except that it may make the outcome a voicemail;
\* and it passes on once the outcome is there or nothing was kept.
LEMMA PipesKeep ==
  ASSUME TypeOK, Pipes
  PROVE  /\ row'.exists = row.exists /\ row'.direction = row.direction /\ row'.state = row.state
         /\ row'.answered_by_user_id = row.answered_by_user_id
         /\ row'.answered_at = row.answered_at /\ row'.notice_spoken = row.notice_spoken
         /\ row'.outcome = row.outcome \/ row'.outcome = "voicemail"
         /\ row.voicemail_path => row'.voicemail_path
         /\ \/ row'.outcome = "voicemail" /\ row'.voicemail_path /\ UNCHANGED hist
            \/ row' = row /\ ~row.voicemail_path /\ hist' = [hist EXCEPT !.unkept = TRUE]
            \/ UNCHANGED << journal, hist >>
         /\ hist'.ended = hist.ended /\ hist'.minted = hist.minted /\ hist'.forgot = hist.forgot
         /\ hist.unkept => hist'.unkept
<1>0. row \in Row BY DEF TypeOK
<1>1. CASE VoicemailStored
  <2>1. upsertOutcome(row, "voicemail") = [row EXCEPT !.outcome = "voicemail"]
    BY DEF upsertOutcome
  <2>2. row' = [row EXCEPT !.outcome = "voicemail", !.voicemail_path = TRUE]
    BY <1>0, <1>1, <2>1 DEF VoicemailStored, Row
  <2> QED BY <1>0, <1>1, <2>2 DEF VoicemailStored, Row
<1>2. CASE NothingKept BY <1>2 DEF NothingKept, TypeOK
<1>3. CASE VoicemailThrows BY <1>0, <1>3 DEF VoicemailThrows, Row
<1> QED BY <1>1, <1>2, <1>3 DEF Pipes

(***************************************************************************)
(* CallFirst.  There is no session, no cascade and no transfer without a   *)
(* row, and an idle journal is empty.                                      *)
(***************************************************************************)
CallFirst ==
  /\ ~journal.open => journal = NoJournal
  /\ ~row.exists => row = NoRow /\ isNone(machine) /\ ~journal.open
  /\ consult.step # "idle" => row.exists

\* Nothing is left to run when the journal is idle.
LEMMA IdleRunsNothing ==
  ASSUME TypeOK, ~journal.open => journal = NoJournal
  PROVE  ~journal.open \/ ~journal.reduced => Unrun = {} /\ journal.fx = <<>>
<1>1. NoJournal.fx = <<>> /\ ~NoJournal.reduced BY DEF NoJournal
<1> QED BY <1>1, UnrunIs

\* An admitted event is all the journal holds.
LEMMA AdmitMakes ==
  ASSUME NEW ev, Admit(ev)
  PROVE  /\ ~journal.open
         /\ journal'.open /\ ~journal'.reduced /\ journal'.event = ev /\ journal'.fx = <<>>
         /\ Unrun' = {}
<1>1. journal' = Journal(ev) BY DEF Admit
<1>2. journal'.fx = <<>> BY <1>1 DEF Journal
<1>3. Unrun' = {} BY <1>2 DEF Unrun, Eff
<1> QED BY <1>1, <1>2, <1>3 DEF Admit, Journal, Drained

\* A row, once made, is never unmade, and keeps its direction.
LEMMA RowStays ==
  ASSUME TypeOK, Forms
  PROVE  row.exists => row'.exists /\ row'.direction = row.direction
<1>1. CASE Executes
  <2>1. CASE MirrorRuns BY <2>1, mirrorKeeps DEF MirrorRuns, TypeOK
  <2>2. CASE MirrorFails BY <2>2, fillKeeps DEF MirrorFails, TypeOK
  <2>3. CASE \E o : Merges(o) BY <2>3, upsertKeeps DEF Merges, Ending, Outcome, TypeOK
  <2>4. CASE Pipes BY <2>4, PipesKeep
  <2> QED BY <1>1, <2>1, <2>2, <2>3, <2>4 DEF Executes, RunsAside
<1>2. CASE RetryMirrorLands \/ RetryMirrorFails
  <2>1. pending = NoPending \/ isNone(machine) \/ IsColumns(Pinned(pending.set))
    BY DEF TypeOK, MachineOK, SessionMachine, isNone, Maybe, IsColumns, Column, Pinned
  <2>2. CASE RetryMirrorLands
    BY <2>1, <2>2, mirrorKeeps DEF RetryMirrorLands, TypeOK
  <2>3. CASE RetryMirrorFails
    BY <2>1, <2>3, fillKeeps DEF RetryMirrorFails, TypeOK
  <2> QED BY <1>2, <2>2, <2>3
<1>3. CASE SetsRowOwner BY <1>3 DEF SetsRowOwner, TypeOK, Row
<1> QED BY <1>1, <1>2, <1>3 DEF Forms, Reduces, Aside, Claims, OpensCall, Adopts, TellsSession,
     ClearsSlot, Purge

\* CallFirst is inductive.
LEMMA CallFirstStep == ASSUME TypeOK, CallFirst, [Next]_vars PROVE CallFirst'
<1>1. Forms BY NextForms
<1>2. consult'.step # "idle" => row'.exists
  <2>1. consult'.step # "idle" => row.exists BY ConsultMoves DEF CallFirst, RowLive
  <2> QED BY <1>1, <2>1, RowStays
<1>3. ~journal'.open => journal' = NoJournal
  <2>1. CASE Reduces \/ Executes BY <2>1 DEF Reduces, Executes, Passes
  <2>2. \A ev : Admit(ev) => journal'.open BY AdmitMakes
  <2> QED BY <1>1, <2>1, <2>2 DEF CallFirst, Forms, Aside, durable, Claims, OpensCall, Adopts,
        TellsSession, SetsRowOwner, ClearsSlot, RetryMirrorLands, RetryMirrorFails, Purge
<1>4. ASSUME ~row'.exists PROVE row' = NoRow /\ isNone(machine') /\ ~journal'.open
  <2>1. ~row.exists /\ row = NoRow /\ isNone(machine) /\ ~journal.open
    BY <1>1, <1>4, RowStays DEF CallFirst
  <2>2. ~Reduces /\ ~Executes BY <2>1 DEF Reduces, Executes
  <2>3. ~Claims /\ ~OpensCall
    BY <1>4 DEF Claims, OpensCall, ClaimedRow, NoRow
  <2>4. ~Adopts BY <2>1 DEF Adopts
  <2>5. ~SetsRowOwner BY <2>1 DEF SetsRowOwner, CallFirst
  <2>6. CASE TellsSession \/ ClearsSlot \/ Aside BY <2>1, <2>6 DEF TellsSession, ClearsSlot, Aside, durable
  <2>7. CASE RetryMirrorLands \/ RetryMirrorFails \/ Purge
    BY <2>1, <2>7 DEF RetryMirrorLands, RetryMirrorFails, Purge, isNone, NoMachine
  <2> QED BY <1>1, <2>2, <2>3, <2>4, <2>5, <2>6, <2>7 DEF Forms
<1> QED BY <1>2, <1>3, <1>4 DEF CallFirst

(***************************************************************************)
(* LineFreed, and with it ImplementsLifecycle.  A session that is over has *)
(* told the row how it ended, or a merge that will is still to be run, or  *)
(* nothing was kept of its recording; the purge is armed only after it; an *)
(* object that was purged knows from the row that the call is over, so     *)
(* that it is never live again, unless it was purged before the row knew.  *)
(***************************************************************************)
Settled == row.outcome # "null"

Initiating == journal.open /\ ~journal.reduced /\ journal.event.type \in Initiations

\* An object without a session waits for the first webhook, or was purged.
EmptyInv ==
  isNone(machine)
    => /\ alarms = {} /\ pending = NoPending
       /\ journal.open => Initiating
       /\ Settled \/ ~hist.ended \/ hist.forgot
       /\ Initiating => ~Settled

OverInv ==
  /\ Over => hist.ended /\ (Settled \/ hist.unkept \/ Settles(Unrun))
  /\ Settled => hist.ended
  /\ hist.ended => Over \/ isNone(machine) \/ hist.forgot
  /\ isTerminal(row.state) => Settled

PurgeInv ==
  /\ "purge" \in alarms => Over /\ (Settled \/ hist.unkept)
  /\ Settled \/ hist.unkept \/ SettledBefore(journal.fx)

\* What is still to be run speaks of this machine.
UnrunInv ==
  /\ \A e \in Unrun : e.kind \in SettleKinds \/ e = Arm("purge") => Over
  /\ \A e \in Unrun : e.kind = "mirror" => Says(e.set, machine)

OutcomeInv ==
  /\ EmptyInv /\ OverInv /\ PurgeInv /\ UnrunInv
  /\ machine.state = "dialing" => ~machine.rejectedForCap

\* A list with nothing in it arms no purge.
LEMMA SettledNone == SettledBefore(<<>>)
  BY DEF SettledBefore

\* No kind of step makes a session dial again or rejects the one it has.
LEMMA DialingStays ==
  ASSUME NEW m, NEW ev, NEW r, Kinds(m, ev, r)
  PROVE  /\ r.m.state = "dialing" => m.state = "dialing"
         /\ r.m.rejectedForCap = m.rejectedForCap
  BY DEF Kinds, DialsNobody, Quiet, Intends, Dials, Diverts, Answers, PicksUp, Records, Saves, Ends, Upgrades,
     SetsOwner, NoticeFails, SameCore, SameSide, TerminalStates

\* The reducer's step.
LEMMA OutcomeReduces ==
  ASSUME TypeOK, CallFirst, OutcomeInv, Reduces PROVE OutcomeInv'
<1> DEFINE r == reduce(machine, journal.event)
<1>1. /\ journal.event \in Event /\ MachineOK(machine) /\ machine' = r.m /\ journal'.fx = r.fx
      /\ Unrun' = Eff(r.fx) /\ UNCHANGED << alarms, pending, row >>
      /\ hist'.ended = (hist.ended \/ isTerminal(machine'.state))
      /\ hist'.unkept = hist.unkept /\ hist'.forgot = hist.forgot
  BY DEF Reduces, TypeOK
<1>2. Unrun = {} /\ (Settled' <=> Settled) /\ hist'.ended \in BOOLEAN
  BY <1>1, UnrunIs DEF Reduces, Settled, TypeOK, isTerminal
<1>3. CASE isNone(machine)
  <2>1. Initiating /\ ~Settled /\ (hist.ended => hist.forgot) /\ alarms = {}
    BY <1>3 DEF OutcomeInv, EmptyInv, Reduces
  <2>2. Mints(r) BY <1>1, <1>3, <2>1, MintKinds DEF Initiating, Initiations
  <2> HIDE DEF r
  <2>3. /\ ~isNone(r.m) /\ ~isTerminal(r.m.state) /\ SettledBefore(r.fx)
        /\ \A e \in Eff(r.fx) : /\ e.kind \notin SettleKinds /\ e # Arm("purge")
                                /\ e.kind = "mirror" => Says(e.set, r.m)
    BY <2>2, MintConcludes
  <2>4. r.m.state = "dialing" => ~r.m.rejectedForCap BY <2>2 DEF Mints
  <2> QED BY <1>1, <1>2, <2>1, <2>3, <2>4
        DEF OutcomeInv, EmptyInv, OverInv, PurgeInv, UnrunInv, Over
<1>4. CASE ~isNone(machine)
  <2>1. Concludes(machine, journal.event, r) /\ Tells(machine, journal.event, r)
        /\ Kinds(machine, journal.event, r)
    BY <1>1, <1>4, ReduceConcludes, ReduceTells, ReduceKinds
  <2>2. Over => isTerminal(r.m.state)
    <3>1. machine.state \in TerminalStates \ {"ended_missed"} => r.m.state = machine.state
      BY <1>1, OverAbsorbs DEF isTerminal, TerminalStates
    <3>2. Over => r.m.state = machine.state \/ r.m.state \in {"ended_answered", "ended_voicemail"}
      BY <1>1, OverAbsorbs DEF Over
    <3> QED BY <3>2 DEF Over, isTerminal, TerminalStates
  <2> HIDE DEF r
  <2>3. EmptyInv' BY <1>1, <2>1 DEF Concludes, EmptyInv
  <2>4. OverInv'
    BY <1>1, <1>2, <1>4, <2>1, <2>2 DEF OutcomeInv, OverInv, Concludes, Over, Settles
  <2>5. PurgeInv' BY <1>1, <1>2, <2>1, <2>2 DEF OutcomeInv, PurgeInv, Concludes, Over
  <2>6. UnrunInv' BY <1>1, <2>1 DEF UnrunInv, Concludes, Tells, Over
  <2>7. r.m.state = "dialing" => ~r.m.rejectedForCap
    BY <2>1, DialingStays DEF OutcomeInv
  <2> QED BY <1>1, <2>3, <2>4, <2>5, <2>6, <2>7 DEF OutcomeInv
<1> QED BY <1>3, <1>4

\* Over stays over when the machine is kept.
LEMMA RowWrites ==
  ASSUME TypeOK, CallFirst, OutcomeInv, Executes
  PROVE  /\ ~isNone(machine) /\ row.exists /\ row \in Row
         /\ Settled => Settled'
         /\ Effect.kind \in SettleKinds => Settled' \/ hist'.unkept \/ UNCHANGED journal
         /\ Settled' => Settled \/ Over
         /\ OutcomeMoves(row, row')
         /\ isTerminal(row'.state) => Settled'
         /\ hist'.ended = hist.ended /\ hist'.forgot = hist.forgot
         /\ hist.unkept => hist'.unkept
<1>0. isTerminal(row.state) => Settled BY DEF OutcomeInv, OverInv
<1>1. row.exists /\ row \in Row BY DEF CallFirst, Executes, TypeOK
<1>2. ~isNone(machine)
  BY DEF OutcomeInv, EmptyInv, Initiating, Executes
<1>3. Effect \in Unrun BY DEF Executes, Passes
<1>4. CASE UNCHANGED hist /\ (MirrorRuns \/ MirrorFails)
  <2>1. Says(Effect.set, machine) /\ IsColumns(Effect.set) /\ Effect.kind = "mirror"
    BY <1>3, <1>4 DEF OutcomeInv, UnrunInv, MirrorRuns, MirrorFails
  <2>2. "state" \in DOMAIN Effect.set => Effect.set["state"] = machine.state
    BY <2>1, ColumnsAre DEF Says
  <2>3. \/ row'.outcome = row.outcome
        \/ /\ row.outcome = "null" /\ row'.outcome \in {"answered", "voicemail", "missed"}
           /\ "state" \in DOMAIN Effect.set /\ isTerminal(Effect.set["state"])
    <3>1. CASE MirrorRuns BY <1>1, <2>1, <3>1, mirrorKeeps DEF MirrorRuns
    <3>2. CASE MirrorFails BY <1>1, <2>1, <3>2, fillKeeps DEF MirrorFails
    <3> QED BY <1>4, <3>1, <3>2
  <2>4. isTerminal(row'.state) => Settled'
    <3>1. CASE MirrorRuns BY <1>0, <1>1, <2>1, <2>3, <3>1, mirrorKeeps DEF MirrorRuns, Settled
    <3>2. CASE MirrorFails BY <1>0, <1>1, <2>1, <2>3, <3>2, fillKeeps DEF MirrorFails, Settled
    <3> QED BY <1>4, <3>1, <3>2
  <2> QED BY <1>1, <1>2, <1>4, <2>1, <2>2, <2>3, <2>4 DEF Settled, Over, OutcomeMoves, SettleKinds
<1>5. CASE UNCHANGED hist /\ Effect.kind \in SettleKinds /\ Merges(Effect.outcome)
  <2>1. Over BY <1>3, <1>5 DEF OutcomeInv, UnrunInv
  <2>2. PICK o \in Outcome : row' = upsertOutcome(row, o)
    BY <1>1, <1>5 DEF Merges, Ending, Outcome
  <2>3. row'.outcome # "null" /\ OutcomeMoves(row, row') BY <1>1, <2>2, upsertKeeps
  <2> QED BY <1>1, <1>2, <1>5, <2>1, <2>3 DEF Settled
<1>6. CASE UNCHANGED hist /\ RunsAside
  BY <1>0, <1>1, <1>2, <1>6 DEF RunsAside, Settled, OutcomeMoves
<1>7. CASE Pipes
  <2>1. Over BY <1>3, <1>7 DEF OutcomeInv, UnrunInv, Pipes, SettleKinds
  <2>2. hist'.unkept \/ Settled' \/ UNCHANGED journal
    BY <1>7, PipesKeep DEF Settled, TypeOK
  <2> QED BY <1>0, <1>1, <1>2, <1>7, <2>1, <2>2, PipesKeep DEF Settled, OutcomeMoves
<1> QED BY <1>4, <1>5, <1>6, <1>7 DEF Executes, SettleKinds

\* An effect is run.
LEMMA OutcomeExecutes ==
  ASSUME TypeOK, CallFirst, OutcomeInv, Executes PROVE OutcomeInv'
<1>1. /\ ~isNone(machine) /\ (Settled => Settled')
      /\ Effect.kind \in SettleKinds => Settled' \/ hist'.unkept \/ UNCHANGED journal
      /\ Settled' => Settled \/ Over
      /\ isTerminal(row'.state) => Settled'
      /\ hist'.ended = hist.ended /\ hist'.forgot = hist.forgot /\ (hist.unkept => hist'.unkept)
  BY RowWrites
<1>2. machine' = machine /\ Passes /\ (Over' <=> Over) BY DEF Executes, Over
<1>7. journal' = journal => Unrun' = Unrun BY DEF Unrun
<1>3. EmptyInv' BY <1>1, <1>2 DEF EmptyInv
<1>4. OverInv'
  BY <1>1, <1>2, <1>7 DEF OutcomeInv, OverInv, Passes, Settles
<1>5. PurgeInv'
  <2>1. "purge" \in alarms' => "purge" \in alarms \/ Arm("purge") \in Unrun
    BY <1>2 DEF Executes, Passes, MirrorRuns, MirrorFails, Merges, RunsAside, Pipes
  <2>2. Arm("purge") \in Unrun => Over BY DEF OutcomeInv, UnrunInv
  <2>3. "purge" \in alarms' /\ "purge" \notin alarms => Settled' \/ hist'.unkept
    <3>1. CASE RunsAside
      <4>1. SUFFICES ASSUME "purge" \in alarms', "purge" \notin alarms, ~Settled, ~hist.unkept
                     PROVE  FALSE
        BY <1>1
      <4>2. SettledBefore(journal.fx) BY <4>1 DEF OutcomeInv, PurgeInv
      <4>3. Effect # Arm("purge") BY <1>2, <4>2 DEF Passes
      <4> QED BY <3>1, <4>1, <4>3 DEF RunsAside
    <3>2. CASE ~RunsAside BY <3>2 DEF Executes, MirrorRuns, MirrorFails, Merges, Pipes
    <3> QED BY <3>1, <3>2
  <2> QED BY <1>1, <1>2, <2>1, <2>2, <2>3 DEF OutcomeInv, PurgeInv, Passes
<1>6. UnrunInv' BY <1>2 DEF OutcomeInv, UnrunInv, Passes
<1> QED BY <1>2, <1>3, <1>4, <1>5, <1>6 DEF OutcomeInv


\* What an object takes from a row that has settled is over, and only that.
LEMMA AdoptedOver ==
  ASSUME TypeOK, NEW w, isNone(machine), row.exists
  PROVE  /\ Adopted(w) = reconstructMachine(w)
         /\ ~isNone(Adopted(w)) /\ ~Adopted(w).rejectedForCap
         /\ isTerminal(Adopted(w).state) <=> Settled
         /\ Settled => Adopted(w).state = endedAs(row.outcome)
         /\ ~Settled => Adopted(w).state \in {"dialing", "ringing", "answered",
                                              "voicemail_greeting", "voicemail_recording"}
<1>1. Adopted(w) = reconstructMachine(w) BY DEF Adopted
<1>2. /\ reconstructMachine(w).state = reconstructedState(w)
      /\ reconstructMachine(w).rejectedForCap = FALSE
  BY DEF reconstructMachine, NoMachine
<1>3. row.outcome \in Outcome \cup {"null"} /\ row.direction \in {"inbound", "outbound"}
      /\ row.answered_at \in BOOLEAN
  BY DEF TypeOK, Row
<1>4. CASE Settled
  <2>1. reconstructedState(w) = endedAs(row.outcome) BY <1>4 DEF reconstructedState, Settled
  <2>2. endedAs(row.outcome) \in {"ended_answered", "ended_voicemail", "ended_missed"}
    BY DEF endedAs
  <2> QED BY <1>1, <1>2, <1>4, <2>1, <2>2 DEF isNone, isTerminal, TerminalStates
<1>5. CASE ~Settled
  <2>1. reconstructedState(w) \in {"dialing", "ringing", "answered", "voicemail_greeting",
                                   "voicemail_recording"}
    BY <1>3, <1>5 DEF reconstructedState, Settled
  <2> QED BY <1>1, <1>2, <1>5, <2>1 DEF isNone, isTerminal, TerminalStates
<1> QED BY <1>4, <1>5

\* A webhook or a request is admitted.
LEMMA OutcomeAdopts ==
  ASSUME TypeOK, CallFirst, OutcomeInv, Adopts PROVE OutcomeInv'
<1>1. PICK w, ev :
         /\ ev \in Event /\ ev.type \notin Initiations
         /\ ~isNone(machine) \/ row.exists
         /\ Admit(ev) /\ Adopt(w)
         /\ UNCHANGED << alarms, pending, row, customer, wlegs, consult >>
  BY DEF Adopts
<1>2. /\ ~journal.open /\ journal'.open /\ journal'.event = ev /\ journal'.fx = <<>> /\ Unrun' = {}
  BY <1>1, AdmitMakes
<1>3. ~Initiating' BY <1>1, <1>2 DEF Initiating
<1>4. /\ machine' = Adopted(w) /\ hist'.ended = (hist.ended \/ isTerminal(Adopted(w).state))
      /\ hist'.unkept = hist.unkept /\ hist'.forgot = hist.forgot
  BY <1>1 DEF Adopt, Ended, TypeOK
<1>5. (Settled' <=> Settled) /\ Unrun = {} BY <1>1, <1>2, IdleRunsNothing DEF Settled, CallFirst
<1>6. SettledBefore(journal'.fx) BY <1>2, SettledNone
<1>7. UnrunInv' BY <1>2 DEF UnrunInv
<1>8. CASE isNone(machine)
  <2>1. /\ ~isNone(machine') /\ ~machine'.rejectedForCap /\ (Over' <=> Settled)
    BY <1>1, <1>4, <1>8, AdoptedOver DEF Over
  <2>2. alarms = {} /\ (Settled \/ ~hist.ended \/ hist.forgot) BY <1>8 DEF OutcomeInv, EmptyInv
  <2>3. hist'.ended <=> hist.ended \/ Over' BY <1>4 DEF Over
  <2> QED BY <1>1, <1>4, <1>5, <1>6, <1>7, <2>1, <2>2, <2>3
        DEF OutcomeInv, EmptyInv, OverInv, PurgeInv, Settles
<1>9. CASE ~isNone(machine)
  <2>1. machine' = machine /\ (Over' <=> Over) BY <1>4, <1>9 DEF Adopted, Over
  <2>2. hist'.ended <=> hist.ended \/ Over BY <1>4, <2>1 DEF Over
  <2>3. Over => Settled \/ hist.unkept BY <1>5 DEF OutcomeInv, OverInv, Settles
  <2> QED BY <1>1, <1>4, <1>5, <1>6, <1>7, <1>9, <2>1, <2>2, <2>3
        DEF OutcomeInv, EmptyInv, OverInv, PurgeInv
<1> QED BY <1>8, <1>9

\* The retry writes the state the machine has now.
LEMMA PinnedIs ==
  ASSUME TypeOK, ~isNone(machine)
  PROVE  LET set == Pinned(pending.set)
         IN  /\ IsColumns(set) /\ DOMAIN set = DOMAIN pending.set
             /\ "state" \in DOMAIN set => set["state"] = machine.state
             /\ "answered_by_user_id" \in DOMAIN set => set["answered_by_user_id"] = machine.owner
             /\ "answered_at" \in DOMAIN set => set["answered_at"] = machine.answered
  BY DEF TypeOK, MachineOK, SessionMachine, isNone, Maybe, IsColumns, Column, Pinned

\* What a retry does to the row.
LEMMA RetryWrites ==
  ASSUME TypeOK, CallFirst, OutcomeInv, RetryMirrorLands \/ RetryMirrorFails
  PROVE  /\ (Settled => Settled') /\ (Settled' => Settled \/ Over)
         /\ OutcomeMoves(row, row') /\ (row' # row => ~isNone(machine) /\ row.exists)
         /\ UNCHANGED << machine, journal, hist >> /\ alarms' \subseteq alarms
         /\ isNone(machine) => pending' = NoPending
         /\ isTerminal(row'.state) => Settled'
<1> DEFINE set == Pinned(pending.set)
<1>1. row \in Row BY DEF TypeOK
<1>2. isNone(machine) => pending = NoPending BY DEF OutcomeInv, EmptyInv
<1>3. UNCHANGED << machine, journal, hist >> /\ alarms' \subseteq alarms
  BY DEF RetryMirrorLands, RetryMirrorFails
<1>4. isNone(machine) => pending' = NoPending /\ row' = row
  BY <1>2 DEF RetryMirrorLands, RetryMirrorFails
<1>5. CASE row' = row BY <1>3, <1>4, <1>5 DEF Settled, OutcomeMoves, OutcomeInv, OverInv
<1>6. CASE row' # row
  <2>1. ~isNone(machine) BY <1>4, <1>6
  <2>2. row' = mirror(row, set) \/ (row.exists /\ row' = fillOutcome(row, set))
    <3>1. CASE RetryMirrorLands BY <1>6, <2>1, <3>1 DEF RetryMirrorLands
    <3>2. CASE RetryMirrorFails BY <1>6, <3>2 DEF RetryMirrorFails
    <3> QED BY <3>1, <3>2
  <2>3. IsColumns(set) /\ ("state" \in DOMAIN set => set["state"] = machine.state)
    BY <2>1, PinnedIs
  <2> HIDE DEF set
  <2>4. \/ row'.outcome = row.outcome
        \/ /\ row.outcome = "null" /\ row'.outcome \in {"answered", "voicemail", "missed"}
           /\ isTerminal(machine.state)
    BY <1>1, <2>2, <2>3, mirrorKeeps, fillKeeps
  <2>5. row.exists BY <1>6, <2>2 DEF mirror
  <2>6. isTerminal(row'.state) => Settled'
    BY <1>1, <2>2, <2>3, <2>5, mirrorKeeps, fillKeeps DEF Settled, OutcomeInv, OverInv
  <2> QED BY <1>3, <1>4, <2>1, <2>4, <2>5, <2>6 DEF Settled, Over, OutcomeMoves
<1> QED BY <1>5, <1>6

\* So the retries keep the outcome invariant.
LEMMA OutcomeRetries ==
  ASSUME TypeOK, CallFirst, OutcomeInv, RetryMirrorLands \/ RetryMirrorFails PROVE OutcomeInv'
<1>1. /\ (Settled => Settled') /\ (Settled' => Settled \/ Over)
      /\ row' # row => ~isNone(machine)
      /\ UNCHANGED << machine, journal, hist >> /\ alarms' \subseteq alarms
      /\ isNone(machine) => pending' = NoPending
      /\ isTerminal(row'.state) => Settled'
  BY RetryWrites
<1>2. (Over' <=> Over) /\ Unrun' = Unrun /\ (Initiating' <=> Initiating)
  BY <1>1 DEF Over, Unrun, Initiating
<1>3. isNone(machine) => (Settled' <=> Settled) BY <1>1 DEF Settled
<1>4. EmptyInv' BY <1>1, <1>2, <1>3 DEF OutcomeInv, EmptyInv
<1>5. OverInv'
  <2>1. OverInv /\ (Settles(Unrun') <=> Settles(Unrun)) BY <1>2 DEF OutcomeInv
  <2>2. hist'.ended = hist.ended /\ (isNone(machine') <=> isNone(machine)) BY <1>1
  <2>3. Over' => hist'.ended /\ (Settled' \/ hist'.unkept \/ Settles(Unrun'))
    BY <1>1, <1>2, <2>1, <2>2 DEF OverInv
  <2>4. Settled' => hist'.ended BY <1>1, <2>1, <2>2 DEF OverInv
  <2>5. hist'.ended => Over' \/ isNone(machine') \/ hist'.forgot BY <1>1, <1>2, <2>1, <2>2 DEF OverInv
  <2> QED BY <1>1, <2>3, <2>4, <2>5 DEF OverInv
<1>6. PurgeInv' BY <1>1, <1>2 DEF OutcomeInv, PurgeInv
<1>7. UnrunInv' BY <1>1, <1>2 DEF OutcomeInv, UnrunInv
<1> QED BY <1>1, <1>4, <1>5, <1>6, <1>7 DEF OutcomeInv


\* The first webhook of a call is admitted: the row, if there is one, has not settled.
LEMMA OutcomeOpens ==
  ASSUME TypeOK, CallFirst, OutcomeInv, OpensCall PROVE OutcomeInv'
<1>1. PICK ev \in Event : Admit(ev) /\ ev.type \in Initiations BY DEF OpensCall
<1>2. /\ row.exists => row.outcome = "null"
      /\ row' = IF row.exists THEN row ELSE ClaimedRow
      /\ UNCHANGED << machine, alarms, pending, hist >>
  BY DEF OpensCall
<1>3. /\ ~journal.open /\ journal'.open /\ ~journal'.reduced /\ journal'.event = ev
      /\ journal'.fx = <<>> /\ Unrun' = {}
  BY <1>1, AdmitMakes
<1>4. Initiating' BY <1>1, <1>3 DEF Initiating
<1>5. ~Settled'
  <2>1. ClaimedRow.outcome = "null" BY DEF ClaimedRow, NoRow
  <2> QED BY <1>2, <2>1 DEF Settled
<1>6. ~Settled BY <1>2 DEF Settled, CallFirst, NoRow
<1>7. Unrun = {} /\ (Over' <=> Over) BY <1>2, <1>3, IdleRunsNothing DEF CallFirst, Over
<1>8. Over => hist.unkept BY <1>6, <1>7 DEF OutcomeInv, OverInv, Settles
<1>9. EmptyInv' BY <1>2, <1>3, <1>4, <1>5, <1>6 DEF OutcomeInv, EmptyInv
<1>13. ~isTerminal(row'.state)
  <2>1. ~isTerminal(ClaimedRow.state) BY DEF ClaimedRow, NoRow, isTerminal, TerminalStates
  <2>2. ~isTerminal(row.state) BY <1>6 DEF OutcomeInv, OverInv
  <2> QED BY <1>2, <2>1, <2>2
<1>10. OverInv' BY <1>2, <1>5, <1>7, <1>8, <1>13 DEF OutcomeInv, OverInv
<1>11. PurgeInv' BY <1>2, <1>3, <1>7, <1>8, SettledNone DEF OutcomeInv, PurgeInv
<1>12. UnrunInv' BY <1>3 DEF UnrunInv
<1> QED BY <1>2, <1>9, <1>10, <1>11, <1>12 DEF OutcomeInv

\* A purge takes a session that is over, and remembers if the row has not settled.
LEMMA OutcomePurges ==
  ASSUME TypeOK, CallFirst, OutcomeInv, Purge PROVE OutcomeInv'
<1>1. /\ Drained /\ "purge" \in alarms /\ alarms' = {} /\ pending' = NoPending
      /\ machine' \in {machine, NoMachine} /\ UNCHANGED << journal, row >>
      /\ hist'.ended = hist.ended /\ hist'.unkept = hist.unkept
      /\ hist'.forgot = (hist.forgot \/ ~Settled)
  BY DEF Purge, Due, TypeOK, Settled
<1>2. /\ Over /\ hist.ended /\ (Settled \/ hist.unkept) /\ (isTerminal(row.state) => Settled)
  BY <1>1 DEF OutcomeInv, PurgeInv, OverInv
<1>3. ~journal.open /\ Unrun' = {} /\ (Settled' <=> Settled)
  BY <1>1, IdleRunsNothing DEF CallFirst, Drained, Unrun, Settled
<1>4. EmptyInv' BY <1>1, <1>2, <1>3 DEF EmptyInv, Initiating
<1>5. OverInv'
  <2>1. Over' \/ isNone(machine') BY <1>1, <1>2 DEF Over, isNone, NoMachine
  <2> QED BY <1>1, <1>2, <1>3, <2>1 DEF OverInv
<1>6. PurgeInv' BY <1>1, <1>2, <1>3 DEF PurgeInv
<1>7. UnrunInv' BY <1>3 DEF UnrunInv
<1>8. ~machine'.rejectedForCap \/ machine' = machine BY <1>1 DEF NoMachine
<1> QED BY <1>4, <1>5, <1>6, <1>7, <1>8 DEF OutcomeInv

\* The steps of the world, the claims, the routes and the alarms.
LEMMA OutcomeOthers ==
  ASSUME TypeOK, CallFirst, OutcomeInv,
         Aside \/ Claims \/ TellsSession \/ SetsRowOwner \/ ClearsSlot
  PROVE  OutcomeInv'
<1>1. UNCHANGED << machine, pending, hist >> /\ alarms' \subseteq alarms
  BY DEF Aside, durable, Claims, TellsSession, SetsRowOwner, ClearsSlot
<1>2. (Settled' <=> Settled) /\ (isTerminal(row'.state) => isTerminal(row.state))
  <2>1. CASE Claims
    <3>1. row = NoRow /\ row' = ClaimedRow BY <2>1 DEF Claims, CallFirst
    <3> QED BY <3>1 DEF Settled, ClaimedRow, NoRow, isTerminal, TerminalStates
  <2>2. CASE SetsRowOwner BY <2>2 DEF SetsRowOwner, Settled, TypeOK, Row
  <2>3. CASE Aside \/ TellsSession \/ ClearsSlot
    BY <2>3 DEF Aside, TellsSession, ClearsSlot, Settled
  <2> QED BY <2>1, <2>2, <2>3
<1>3. \/ journal' = journal
      \/ /\ ~isNone(machine) /\ journal'.fx = <<>> /\ Unrun = {} /\ Unrun' = {}
  <2>1. CASE journal' = journal BY <2>1
  <2>2. CASE \E ev : Admit(ev) /\ ~isNone(machine)
    BY <2>2, AdmitMakes, IdleRunsNothing DEF CallFirst
  <2> QED BY <2>1, <2>2 DEF Aside, durable, Claims, TellsSession, SetsRowOwner, ClearsSlot
<1>4. (Over' <=> Over) /\ Unrun' = Unrun BY <1>1, <1>3 DEF Over, Unrun
<1>5. EmptyInv' BY <1>1, <1>2, <1>3 DEF OutcomeInv, EmptyInv, Initiating
<1>6. OverInv'
  <2>1. OverInv /\ (Settles(Unrun') <=> Settles(Unrun)) BY <1>4 DEF OutcomeInv
  <2>2. hist' = hist /\ (isNone(machine') <=> isNone(machine)) BY <1>1
  <2> QED BY <1>2, <1>4, <2>1, <2>2 DEF OverInv
<1>7. PurgeInv' BY <1>1, <1>2, <1>3, <1>4, SettledNone DEF OutcomeInv, PurgeInv
<1>8. UnrunInv' BY <1>1, <1>4 DEF OutcomeInv, UnrunInv
<1> QED BY <1>1, <1>5, <1>6, <1>7, <1>8 DEF OutcomeInv

\* OutcomeInv is inductive.
LEMMA OutcomeStep == ASSUME TypeOK, CallFirst, OutcomeInv, [Next]_vars PROVE OutcomeInv'
  BY NextForms, OutcomeReduces, OutcomeExecutes, OutcomeAdopts, OutcomeRetries, OutcomeOpens,
     OutcomePurges, OutcomeOthers
     DEF Forms

\* It holds of a call nobody has heard of yet.
LEMMA OutcomeInit == ASSUME Init PROVE CallFirst /\ OutcomeInv
<1>1. Unrun = {} /\ ~journal.open /\ journal.fx = <<>>
  BY DEF Init, NoJournal, Unrun, Eff
<1>2. /\ isNone(machine) /\ ~Over /\ ~Settled /\ ~hist.ended /\ machine.state = "none"
      /\ ~isTerminal(row.state)
  BY DEF Init, isNone, NoMachine, Over, isTerminal, TerminalStates, Settled, NoRow
<1>3. CallFirst BY <1>1, <1>2 DEF CallFirst, Init, NoConsult
<1>4. EmptyInv BY <1>1, <1>2 DEF EmptyInv, Init, Initiating
<1>5. OverInv /\ UnrunInv BY <1>1, <1>2 DEF OverInv, UnrunInv
<1>6. PurgeInv BY <1>1, SettledNone DEF PurgeInv, Init
<1> QED BY <1>2, <1>3, <1>4, <1>5, <1>6 DEF OutcomeInv

\* CallInv: the invariants a call always has.
CallInv == TypeOK /\ CallFirst /\ OutcomeInv

\* Every state of a call is one in which these invariants hold.
THEOREM OutcomeHolds == Spec => []CallInv
<1>1. Init => CallInv BY InitTypeOK, OutcomeInit DEF CallInv
<1>2. CallInv /\ [Next]_vars => CallInv' BY NextTypeOK, CallFirstStep, OutcomeStep DEF CallInv
<1> QED BY <1>1, <1>2, PTL DEF Spec

\* LineFreed (#208, #209).  In every instance, a row with a terminal state has
\* an outcome, and a session that is over and drained has given its row one,
\* unless nothing was kept of its recording: the line is not held as busy.
THEOREM LineIsFreed == Spec => []LineFreed
<1>1. CallInv => LineFreed
  <2>1. SUFFICES ASSUME CallInv PROVE LineFreed OBVIOUS
  <2>2. isTerminal(row.state) => Settled BY <2>1 DEF CallInv, OutcomeInv, OverInv
  <2>3. Resting /\ Over => Settled \/ hist.unkept
    <3>1. Resting => Unrun = {}
      BY <2>1, IdleRunsNothing DEF CallInv, CallFirst, Resting, Drained
    <3> QED BY <2>1, <3>1 DEF CallInv, OutcomeInv, OverInv, Settles
  <2> QED BY <2>2, <2>3 DEF LineFreed, Settled
<1> QED BY <1>1, OutcomeHolds, PTL


(***************************************************************************)
(* ImplementsLifecycle, step by step.                                      *)
(***************************************************************************)
\* A kind of step is a step of the call's life.
LEMMA KindsLive ==
  ASSUME NEW m, MachineOK(m), ~isNone(m), NEW ev, NEW r, Kinds(m, ev, r),
         m.state = "dialing" => ~m.rejectedForCap
  PROVE  \/ r.m.state = m.state
         \/ /\ m.state \in Lifecycle!Live /\ r.m.state \in Lifecycle!Live \cup Lifecycle!Final
            /\ r.m.state \in Lifecycle!Live => Lifecycle!Rank(r.m.state) > Lifecycle!Rank(m.state)
            /\ Lifecycle!Allowed(m.state, r.m.state)
         \/ m.state = "ended_missed" /\ r.m.state \in {"ended_answered", "ended_voicemail"}
<1>1. CASE Quiet(m, r) \/ Intends(m, ev, r) \/ Dials(m, r) \/ SetsOwner(m, ev, r) \/ NoticeFails(m, r)
  BY <1>1 DEF Quiet, Intends, Dials, SetsOwner, NoticeFails, SameCore
<1>2. CASE Diverts(m, r) \/ Answers(m, ev, r) \/ PicksUp(m, r) \/ Records(m, ev, r)
  <2>1. /\ Lifecycle!Rank("ringing") = 1 /\ Lifecycle!Rank("dialing") = 1
        /\ Lifecycle!Rank("voicemail_greeting") = 2 /\ Lifecycle!Rank("voicemail_recording") = 3
        /\ Lifecycle!Rank("answered") = 4
    BY DEF Lifecycle!Rank, Lifecycle!Final
  <2>2. \/ m.state = "ringing" /\ r.m.state = "voicemail_greeting"
        \/ m.state = "ringing" /\ r.m.state = "answered"
        \/ m.state = "dialing" /\ r.m.state = "answered"
        \/ m.state = "voicemail_greeting" /\ r.m.state = "voicemail_recording"
    BY <1>2 DEF Diverts, Answers, PicksUp, Records
  <2>3. Lifecycle!Rank(r.m.state) > Lifecycle!Rank(m.state) BY <2>1, <2>2
  <2> QED BY <2>2, <2>3 DEF Lifecycle!Live, Lifecycle!Allowed
<1>3. CASE Saves(m, ev, r) \/ Upgrades(m, ev, r)
  BY <1>3 DEF Saves, Upgrades, Lifecycle!Live, Lifecycle!Final, Lifecycle!Allowed
<1>4. CASE Ends(m, ev, r)
  <2>1. m.state \in Lifecycle!Live
    BY <1>4 DEF Ends, MachineOK, SessionMachine, isNone, CallStates, isTerminal, TerminalStates,
       Lifecycle!Live
  <2>2. r.m.state \in {"ended_answered", "ended_missed", "ended_rejected"}
    BY <1>4 DEF Ends, TerminalStates
  <2>3. r.m.state = "ended_rejected" => m.state \in {"ringing", "voicemail_greeting"}
    BY <1>4 DEF Ends
  <2> QED BY <2>1, <2>2, <2>3 DEF Lifecycle!Live, Lifecycle!Final, Lifecycle!Allowed
<1> QED BY <1>1, <1>2, <1>3, <1>4 DEF Kinds, DialsNobody

\* The reducer's step.
LEMMA ReduceLives ==
  ASSUME CallInv, Reduces PROVE [Lifecycle!Next]_(Lifecycle!lifecycle)
<1> DEFINE r == reduce(machine, journal.event)
<1>1. /\ journal.event \in Event /\ MachineOK(machine) /\ machine' = r.m /\ UNCHANGED row
      /\ hist'.ended = (hist.ended \/ isTerminal(r.m.state)) /\ hist.ended \in BOOLEAN
      /\ hist'.forgot = hist.forgot
  BY DEF Reduces, CallInv, TypeOK
<1>2. row'.outcome = row.outcome BY <1>1
<1>3. CASE isNone(machine)
  <2>1. Initiating /\ ~Settled /\ (hist.ended => hist.forgot)
    BY <1>3 DEF CallInv, OutcomeInv, EmptyInv, Reduces
  <2>2. Mints(r) BY <1>1, <1>3, <2>1, MintKinds DEF Initiating, Initiations
  <2> HIDE DEF r
  <2>3. r.m.state \in Lifecycle!Live /\ ~isTerminal(r.m.state)
    BY <2>2 DEF Mints, Lifecycle!Live, isTerminal, TerminalStates
  <2>4. Lifecycle!Begin
    BY <1>1, <1>2, <1>3, <2>1, <2>3 DEF Lifecycle!Begin, isNone, Settled
  <2> QED BY <2>4 DEF Lifecycle!Next
<1>4. CASE ~isNone(machine)
  <2>1. \/ r.m.state = machine.state
        \/ /\ machine.state \in Lifecycle!Live
           /\ r.m.state \in Lifecycle!Live \cup Lifecycle!Final
           /\ r.m.state \in Lifecycle!Live
                => Lifecycle!Rank(r.m.state) > Lifecycle!Rank(machine.state)
           /\ Lifecycle!Allowed(machine.state, r.m.state)
        \/ machine.state = "ended_missed" /\ r.m.state \in {"ended_answered", "ended_voicemail"}
    BY <1>1, <1>4, ReduceKinds, KindsLive DEF CallInv, OutcomeInv
  <2> HIDE DEF r
  <2>2. Over => hist.ended BY DEF CallInv, OutcomeInv, OverInv
  <2>3. CASE r.m.state = machine.state
    BY <1>1, <1>2, <2>2, <2>3 DEF Over, Lifecycle!lifecycle
  <2>4. CASE /\ machine.state \in Lifecycle!Live
             /\ r.m.state \in Lifecycle!Live
             /\ Lifecycle!Rank(r.m.state) > Lifecycle!Rank(machine.state)
             /\ Lifecycle!Allowed(machine.state, r.m.state)
    <3>1. ~isTerminal(r.m.state) BY <2>4 DEF Lifecycle!Live, isTerminal, TerminalStates
    <3>2. Lifecycle!Move BY <1>1, <1>2, <2>4, <3>1 DEF Lifecycle!Move
    <3> QED BY <3>2 DEF Lifecycle!Next
  <2>5. CASE /\ machine.state \in Lifecycle!Live
             /\ r.m.state \in Lifecycle!Final
             /\ Lifecycle!Allowed(machine.state, r.m.state)
    <3>1. isTerminal(r.m.state) BY <2>5 DEF Lifecycle!Final, isTerminal, TerminalStates
    <3>2. Lifecycle!End BY <1>1, <1>2, <2>5, <3>1 DEF Lifecycle!End
    <3> QED BY <3>2 DEF Lifecycle!Next
  <2>6. CASE machine.state = "ended_missed" /\ r.m.state \in {"ended_answered", "ended_voicemail"}
    <3>1. hist.ended BY <2>2, <2>6 DEF Over, isTerminal, TerminalStates
    <3>2. Lifecycle!Upgrade BY <1>1, <1>2, <2>6, <3>1 DEF Lifecycle!Upgrade
    <3> QED BY <3>2 DEF Lifecycle!Next
  <2> QED BY <2>1, <2>3, <2>4, <2>5, <2>6
<1> QED BY <1>3, <1>4

\* An effect or a retry can only tell the row how the call ended, once it has.
LEMMA WritesLive ==
  ASSUME CallInv, Executes \/ RetryMirrorLands \/ RetryMirrorFails
  PROVE  [Lifecycle!Next]_(Lifecycle!lifecycle)
<1>1. /\ Settled' => Settled \/ Over
      /\ OutcomeMoves(row, row') /\ UNCHANGED machine
      /\ hist'.ended = hist.ended /\ hist'.forgot = hist.forgot
  BY RowWrites, RetryWrites DEF CallInv, Executes
<1>2. CASE row'.outcome = row.outcome BY <1>1, <1>2 DEF Lifecycle!lifecycle
<1>3. CASE row'.outcome # row.outcome
  <2>1. Settled' BY <1>1, <1>3 DEF OutcomeMoves, Settled
  <2>2. hist.ended BY <1>1, <2>1 DEF CallInv, OutcomeInv, OverInv
  <2>3. Lifecycle!Settle BY <1>1, <1>3, <2>2 DEF OutcomeMoves, Lifecycle!Settle
  <2> QED BY <2>3 DEF Lifecycle!Next
<1> QED BY <1>2, <1>3

\* An object without a session takes the call up from its row.
LEMMA AdoptLives ==
  ASSUME CallInv, Adopts PROVE [Lifecycle!Next]_(Lifecycle!lifecycle)
<1>1. PICK w, ev :
         /\ ~isNone(machine) \/ row.exists
         /\ Adopt(w) /\ UNCHANGED row
  BY DEF Adopts
<1>2. /\ machine' = Adopted(w) /\ hist'.ended = (hist.ended \/ isTerminal(Adopted(w).state))
      /\ row'.outcome = row.outcome /\ hist.ended \in BOOLEAN /\ hist'.forgot = hist.forgot
  BY <1>1 DEF Adopt, Ended, CallInv, TypeOK
<1>3. CASE ~isNone(machine)
  <2>1. machine' = machine /\ (Over => hist.ended)
    BY <1>2, <1>3 DEF Adopted, CallInv, OutcomeInv, OverInv
  <2>2. hist'.ended = hist.ended BY <1>2, <2>1 DEF Over
  <2> QED BY <1>2, <2>1, <2>2 DEF Lifecycle!lifecycle
<1>4. CASE isNone(machine) /\ Settled
  <2>1. machine'.state = endedAs(row.outcome) /\ isTerminal(machine'.state)
    BY <1>1, <1>2, <1>4, AdoptedOver DEF CallInv
  <2>2. endedAs(row.outcome) = Lifecycle!EndedAs(row.outcome) BY DEF endedAs, Lifecycle!EndedAs
  <2>3. Lifecycle!Recall BY <1>2, <1>4, <2>1, <2>2 DEF Lifecycle!Recall, isNone, Settled
  <2> QED BY <2>3 DEF Lifecycle!Next
<1>5. CASE isNone(machine) /\ ~Settled
  <2>1. machine'.state \in Lifecycle!Live /\ ~isTerminal(machine'.state)
    BY <1>1, <1>2, <1>5, AdoptedOver DEF CallInv, Lifecycle!Live
  <2>2. hist.ended => hist.forgot BY <1>5 DEF CallInv, OutcomeInv, EmptyInv
  <2>3. Lifecycle!Begin BY <1>2, <1>5, <2>1, <2>2 DEF Lifecycle!Begin, isNone, Settled
  <2> QED BY <2>3 DEF Lifecycle!Next
<1> QED BY <1>3, <1>4, <1>5

\* The purge forgets a call that is over, and whether its row says so.
LEMMA PurgeLives ==
  ASSUME CallInv, Purge PROVE [Lifecycle!Next]_(Lifecycle!lifecycle)
<1>1. /\ "purge" \in alarms /\ machine' \in {machine, NoMachine} /\ UNCHANGED row
      /\ hist'.ended = hist.ended /\ hist'.forgot = (hist.forgot \/ row.outcome = "null")
  BY DEF Purge, Due, CallInv, TypeOK
<1>2. machine.state \in Lifecycle!Final
  BY <1>1 DEF CallInv, OutcomeInv, PurgeInv, Over, isTerminal, TerminalStates, Lifecycle!Final
<1>3. NoMachine.state = "none" BY DEF NoMachine
<1>4. Lifecycle!Forget BY <1>1, <1>2, <1>3 DEF Lifecycle!Forget
<1> QED BY <1>4 DEF Lifecycle!Next

\* No other step shows.
LEMMA OthersLive ==
  ASSUME CallInv, Aside \/ Claims \/ OpensCall \/ TellsSession \/ SetsRowOwner \/ ClearsSlot
  PROVE  [Lifecycle!Next]_(Lifecycle!lifecycle)
<1>1. UNCHANGED << machine, hist >>
  BY DEF Aside, durable, Claims, OpensCall, TellsSession, SetsRowOwner, ClearsSlot
<1>2. row'.outcome = row.outcome
  <2>1. NoRow.outcome = "null" /\ ClaimedRow.outcome = "null" BY DEF NoRow, ClaimedRow
  <2>2. CASE Claims \/ OpensCall
    BY <2>1, <2>2 DEF Claims, OpensCall, CallInv, CallFirst
  <2>3. CASE SetsRowOwner BY <2>3 DEF SetsRowOwner, CallInv, TypeOK, Row
  <2>4. CASE Aside \/ TellsSession \/ ClearsSlot BY <2>4 DEF Aside, TellsSession, ClearsSlot
  <2> QED BY <2>2, <2>3, <2>4
<1> QED BY <1>1, <1>2 DEF Lifecycle!lifecycle

\* ImplementsLifecycle.  In every instance, the session with its journal, its
\* faults, adoption and purge lives the life of a call in CallLifecycle: every
\* step is one of its steps or does not show.  (A call purged before its row said how
\* it ended may be live again.)
THEOREM CallLivesItsLife == Spec => ImplementsLifecycle
<1>1. Init => Lifecycle!Init
  BY DEF Init, NoMachine, NoRow, Lifecycle!Init
<1>2. CallInv /\ [Next]_vars => [Lifecycle!Next]_(Lifecycle!lifecycle)
  BY NextForms, ReduceLives, WritesLive, AdoptLives, PurgeLives, OthersLive DEF Forms, CallInv
<1> QED BY <1>1, <1>2, OutcomeHolds, PTL DEF Spec, ImplementsLifecycle, Lifecycle!Spec


(***************************************************************************)
(* DeclinedNeverRung.                                                      *)
(***************************************************************************)
\* What is still to be dialed is nobody's leg who declined.
DialInv ==
  \A e \in Unrun : e.kind \in DialKinds
    => \A i \in e.from .. e.to : machine.legs[i].user \notin machine.declined

\* Outside the reducer, effects only go away, and the machine they speak of stays.
LEMMA UnrunStays ==
  ASSUME TypeOK, CallFirst, Forms, ~Reduces
  PROVE  Unrun' = {} \/ (Unrun' \subseteq Unrun /\ machine' = machine)
<1>1. CASE Executes BY <1>1 DEF Executes, Passes
<1>2. CASE Purge BY <1>2, IdleRunsNothing DEF Purge, Due, Drained, CallFirst, Unrun
<1>3. CASE Adopts \/ OpensCall BY <1>3, AdmitMakes DEF Adopts, OpensCall
<1>4. CASE \/ Aside \/ Claims \/ TellsSession \/ SetsRowOwner \/ ClearsSlot
           \/ RetryMirrorLands \/ RetryMirrorFails
  <2>1. machine' = machine
    BY <1>4 DEF Aside, Claims, durable, TellsSession, SetsRowOwner, ClearsSlot, RetryMirrorLands,
       RetryMirrorFails
  <2>2. journal' = journal \/ \E ev : Admit(ev)
    BY <1>4 DEF Aside, Claims, durable, TellsSession, SetsRowOwner, ClearsSlot, RetryMirrorLands,
       RetryMirrorFails
  <2> QED BY <2>1, <2>2, AdmitMakes DEF Unrun
<1> QED BY <1>1, <1>2, <1>3, <1>4 DEF Forms

\* DialInv is inductive.
LEMMA DialStep == ASSUME CallInv, DialInv, [Next]_vars PROVE DialInv'
<1>1. Forms /\ TypeOK /\ CallFirst BY NextForms DEF CallInv
<1>2. CASE Reduces
  <2> DEFINE r == reduce(machine, journal.event)
  <2>1. journal.event \in Event /\ MachineOK(machine) /\ machine' = r.m /\ Unrun' = Eff(r.fx)
    BY <1>2 DEF Reduces, CallInv, TypeOK
  <2>2. CASE isNone(machine)
    <3>1. Mints(r)
      BY <1>2, <2>1, <2>2, MintKinds
      DEF CallInv, OutcomeInv, EmptyInv, Reduces, Initiating, Initiations
    <3> QED BY <2>1, <3>1 DEF DialInv, Mints
  <2>3. CASE ~isNone(machine)
    <3>1. Concludes(machine, journal.event, r) BY <2>1, <2>3, ReduceConcludes
    <3> HIDE DEF r
    <3> QED BY <2>1, <3>1 DEF DialInv, Concludes, DialKinds
  <2> QED BY <2>2, <2>3
<1>3. CASE ~Reduces BY <1>1, <1>3, UnrunStays DEF DialInv
<1> QED BY <1>2, <1>3

\* Legs that fall do not ring.
LEMMA DropStays ==
  ASSUME TypeOK, NEW ls, wlegs' = Drop(ls), NEW i \in LegId
  PROVE  wlegs'[i].status = "ringing" => wlegs'[i] = wlegs[i]
  BY DEF TypeOK, Drop, WorldLeg

\* A member's phone starts to ring only because it was dialed.
LEMMA OnlyDialsRing ==
  ASSUME TypeOK, [Next]_vars, NEW i \in LegId,
         wlegs[i].status = "none", wlegs'[i].status = "ringing"
  PROVE  /\ Effect \in Unrun /\ Effect.kind \in DialKinds /\ i \in Effect.from .. Effect.to
         /\ wlegs'[i].user = machine.legs[i].user
<1>1. wlegs'[i] # wlegs[i] OBVIOUS
<1>2. ~ \E ls : wlegs' = Drop(ls) BY <1>1, DropStays
<1>3. CASE ExecDial
  <2>1. Effect \in Unrun BY <1>3, DialPasses DEF Passes
  <2>2. PICK result : wlegs' = [j \in LegId |->
                 IF /\ j \in Effect.from .. Effect.to /\ result[j] \in {"ccid", "created"}
                    /\ wlegs[j].status = "none"
                 THEN [user |-> machine.legs[j].user, status |-> "ringing"] ELSE wlegs[j]]
    BY <1>3 DEF ExecDial
  <2>3. i \in Effect.from .. Effect.to BY <1>1, <2>2
  <2>4. wlegs'[i].user = machine.legs[i].user BY <1>1, <2>2
  <2>5. Effect.kind \in DialKinds BY <1>3 DEF ExecDial, Executing, Effect, DialKinds
  <2> QED BY <2>1, <2>3, <2>4, <2>5
<1>4. CASE Execute /\ ~ExecDial
  BY <1>1, <1>2, <1>4 DEF Execute, ExecMirror, ExecMirrorFails, ExecAnswerInbound, ExecAnswerNotice,
     ExecAnswerVm, AnswerCustomer, ExecBridge, ExecHangupLegs, ExecHangupCustomer, ExecReject,
     ExecMedia, ExecQuietly, ExecPushFanout, ExecTerminalMerge, ExecVoicemailPipeline,
     ExecAlarmSlot, CustomerGone, world
<1>5. ~Reduce /\ ~RetryMirrorLands /\ ~Purge /\ ~RetryMirrorFails
      /\ \A slot : ~FireAlarm(slot) /\ ~LoseAlarm(slot)
  BY <1>1 DEF Reduce, RetryMirrorLands, Purge, RetryMirrorFails, FireAlarm, LoseAlarm, world
<1>6. \A w : ~Lose(w) /\ ~ClaimThenCrash(w) /\ ~Deliver(w)
  BY <1>1 DEF Lose, ClaimThenCrash, Deliver, DeliverSeen, DeliverInitiated, DeliverInitiatedLate,
     DeliverOutboundInitiated, RejectOutboundInitiated, DeliverEvent, DropUnknown, world
<1>7. ~Members
  BY <1>1, <1>2 DEF Members, RingMe, Decline, Request, Consult, ConsultGate, ConsultRegister, ConsultDialed,
     ConsultAbandon, ConsultStamp, ConsultOwner, ConsultClear, ConsultSteal, ConsultStealFails,
     ConsultRestoreOwner, Tell, world
<1>8. ~Provider
  <2>1. \A j \in LegId : ~MemberAnswers(j)
    BY <1>1 DEF MemberAnswers, TypeOK
  <2> QED BY <1>1, <1>2, <2>1 DEF Provider, CustomerHangsUp, CustomerAnswers, MediaEnds, MemberLegEnds,
      CustomerGone
<1>9. ~UNCHANGED vars BY <1>1 DEF vars, world
<1> QED BY <1>3, <1>4, <1>5, <1>6, <1>7, <1>8, <1>9 DEF Next, Shell, Faults

\* DialHolds: what is dialed is nobody's leg who declined, always.
THEOREM DialHolds == Spec => [](CallInv /\ DialInv)
<1>1. Init => DialInv BY DEF Init, NoJournal, DialInv, Unrun, Eff
<1>2. CallInv /\ DialInv /\ [Next]_vars => DialInv' BY DialStep
<1> QED BY <1>1, <1>2, OutcomeHolds, PTL DEF Spec

\* DeclinedNeverRung (#171).  In every instance, no step dials a member who
\* declined this call, however the decline and the dial were ordered.
THEOREM DeclinedStayQuiet == Spec => DeclinedNeverRung
<1>1. CallInv /\ DialInv /\ [Next]_vars
        => [\A i \in LegId : wlegs[i].status = "none" /\ wlegs'[i].status = "ringing"
              => wlegs'[i].user \notin machine.declined]_vars
  BY OnlyDialsRing DEF CallInv, DialInv
<1> QED BY <1>1, DialHolds, PTL DEF Spec, DeclinedNeverRung


(***************************************************************************)
(* The events still to be reduced.                                         *)
(***************************************************************************)
Ran(s) == {s[i] : i \in DOMAIN s}

Coming ==
  (IF journal.open /\ ~journal.reduced THEN {journal.event} ELSE {}) \cup Ran(journal.rest)

\* One sequence after another, and a sequence without its head.
LEMMA RanOf ==
  ASSUME NEW S, NEW a \in Seq(S), NEW b \in Seq(S)
  PROVE  /\ Ran(a \o b) \subseteq Ran(a) \cup Ran(b) /\ Ran(a) \subseteq S
         /\ a # <<>> => Head(a) \in Ran(a) /\ Ran(Tail(a)) \subseteq Ran(a)
<1>1. /\ DOMAIN (a \o b) = 1 .. (Len(a) + Len(b)) /\ Len(a) \in Nat /\ Len(b) \in Nat
      /\ \A i \in 1 .. Len(a) : (a \o b)[i] = a[i]
      /\ \A i \in 1 .. Len(b) : (a \o b)[Len(a) + i] = b[i]
      /\ DOMAIN a = 1 .. Len(a) /\ DOMAIN b = 1 .. Len(b)
  OBVIOUS
<1>2. ASSUME NEW i \in 1 .. (Len(a) + Len(b)) PROVE (a \o b)[i] \in Ran(a) \cup Ran(b)
  <2>1. CASE i \in 1 .. Len(a) BY <1>1, <2>1 DEF Ran
  <2>2. CASE i \notin 1 .. Len(a)
    <3>1. i - Len(a) \in 1 .. Len(b) /\ Len(a) + (i - Len(a)) = i BY <1>1, <2>2
    <3>2. (a \o b)[i] = b[i - Len(a)] BY <1>1, <3>1
    <3> QED BY <1>1, <3>1, <3>2 DEF Ran
  <2> QED BY <2>1, <2>2
<1>3. Ran(a) \subseteq S BY DEF Ran
<1>4. ASSUME a # <<>> PROVE Head(a) \in Ran(a) /\ Ran(Tail(a)) \subseteq Ran(a)
  <2>1. Eff(a) = Ran(a) /\ Eff(Tail(a)) = Ran(Tail(a)) BY DEF Eff, Ran
  <2> QED BY <1>4, <2>1, EffTail
<1> QED BY <1>1, <1>2, <1>3, <1>4 DEF Ran

\* What the cursor finds was there, or is reported.
LEMMA AdvancedComes ==
  ASSUME TypeOK, NEW fx, journal.open, fx # <<>> => journal.reduced, NEW rest \in Seq(FollowUp)
  PROVE  /\ (IF Advanced(fx, rest).open /\ ~Advanced(fx, rest).reduced
             THEN {Advanced(fx, rest).event} ELSE {}) \cup Ran(Advanced(fx, rest).rest)
             \subseteq Ran(rest)
<1>0. DOMAIN journal = {"open", "event", "reduced", "fx", "rest"} BY DEF TypeOK, JournalOK
<1>1. CASE fx # <<>>
  <2>1. Advanced(fx, rest) = [journal EXCEPT !.fx = fx, !.rest = rest] BY <1>1 DEF Advanced
  <2>2. Advanced(fx, rest).reduced = journal.reduced /\ Advanced(fx, rest).rest = rest
    BY <1>0, <2>1
  <2> QED BY <1>1, <2>2
<1>2. CASE fx = <<>> /\ rest # <<>>
  <2>1. Advanced(fx, rest) = [Journal(Head(rest)) EXCEPT !.rest = Tail(rest)] BY <1>2 DEF Advanced
  <2>2. Advanced(fx, rest).event = Head(rest) /\ Advanced(fx, rest).rest = Tail(rest)
    BY <2>1 DEF Journal
  <2> QED BY <1>2, <2>2, RanOf
<1>3. CASE fx = <<>> /\ rest = <<>>
  <2>1. Advanced(fx, rest) = NoJournal BY <1>3 DEF Advanced
  <2> QED BY <2>1 DEF NoJournal, Ran
<1> QED BY <1>1, <1>2, <1>3

\* So it is when an effect has run.
LEMMA DoneComes ==
  ASSUME TypeOK, journal.open, journal.reduced, NEW fu \in Seq(FollowUp), Done(fu)
  PROVE  Coming' \subseteq Coming \cup Ran(fu) /\ Ran(fu) \subseteq FollowUp
<1>0. Ran(fu) \subseteq FollowUp BY RanOf
<1>1. CASE journal' = journal BY <1>0, <1>1 DEF Coming
<1>2. CASE Advance(fu)
  <2>1. journal.rest \in Seq(FollowUp) /\ journal.fx # <<>> BY DEF TypeOK, JournalOK
  <2>2. journal.rest \o fu \in Seq(FollowUp) /\ Ran(journal.rest \o fu) \subseteq Ran(journal.rest) \cup Ran(fu)
    BY <2>1, RanOf
  <2>3. journal' = Advanced(Tail(journal.fx), journal.rest \o fu) BY <1>2 DEF Advance
  <2>4. Coming' \subseteq Ran(journal.rest \o fu) BY <2>2, <2>3, AdvancedComes DEF Coming
  <2> QED BY <1>0, <2>2, <2>4 DEF Coming
<1> QED BY <1>1, <1>2 DEF Done

\* And when an event was reduced.
LEMMA ReduceComes == ASSUME TypeOK, Reduce PROVE Coming' \subseteq Ran(journal.rest)
<1> DEFINE r == reduce(machine, journal.event)
<1>1. DOMAIN journal = {"open", "event", "reduced", "fx", "rest"} /\ journal.rest \in Seq(FollowUp)
      /\ journal.open
  BY DEF TypeOK, JournalOK, Reduce
<1>2. journal' = IF r.fx = <<>> THEN Advanced(<<>>, journal.rest)
                 ELSE [journal EXCEPT !.reduced = TRUE, !.fx = r.fx]
  BY DEF Reduce
<1> HIDE DEF r
<1>3. CASE r.fx = <<>> BY <1>1, <1>2, <1>3, AdvancedComes DEF Coming
<1>4. CASE r.fx # <<>>
  <2>1. journal' = [journal EXCEPT !.reduced = TRUE, !.fx = r.fx] BY <1>2, <1>4
  <2>2. journal'.reduced /\ journal'.rest = journal.rest BY <1>1, <2>1
  <2> QED BY <2>2 DEF Coming
<1> QED BY <1>3, <1>4

\* An admitted event is the only one.
LEMMA AdmitComes == ASSUME NEW ev, Admit(ev) PROVE Coming' = {ev}
<1>1. journal' = Journal(ev) BY DEF Admit
<1>2. journal'.open /\ ~journal'.reduced /\ journal'.event = ev /\ journal'.rest = <<>>
  BY <1>1 DEF Journal
<1> QED BY <1>2 DEF Coming, Ran

\* What an effect reports is its outcome, and says the customer is gone only if so.
Reports ==
  \A e \in Coming' : \/ e \in Coming
                     \/ e \in FollowUp /\ (GoneSaid(e) => customer.leg \notin Up)

\* One report.
LEMMA ReportsOne ==
  ASSUME TypeOK, journal.open, journal.reduced, NEW ev \in FollowUp,
         GoneSaid(ev) => customer.leg \notin Up, Done(<<ev>>)
  PROVE  Reports
<1>1. <<ev>> \in Seq(FollowUp) /\ Ran(<<ev>>) = {ev} BY DEF Ran
<1> QED BY <1>1, DoneComes DEF Reports

\* No report.
LEMMA ReportsNone ==
  ASSUME TypeOK, journal.open, journal.reduced, Done(<<>>) PROVE Reports
<1>1. Ran(<<>>) = {} BY DEF Ran
<1> QED BY <1>1, NoFollowUps, DoneComes DEF Reports


\* A dial reports a dial.
LEMMA DialReports == ASSUME TypeOK, ExecDial PROVE Reports
<1>1. PICK result \in [Effect.from .. Effect.to -> DialResults] :
        Done([n \in 1 .. Effect.to + 1 - Effect.from |->
                DialOutcome(Effect.from + n - 1, result[Effect.from + n - 1])])
  BY DEF ExecDial
<1> DEFINE k == Effect.to + 1 - Effect.from
           f == [n \in 1 .. k |-> DialOutcome(Effect.from + n - 1, result[Effect.from + n - 1])]
<1>2. Effect.from \in LegId /\ Effect.to \in LegId BY ExecutingIs, EffectFields DEF ExecDial
<1>3. \A i \in LegId : \A x : DialOutcome(i, x) \in FollowUp BY DEF DialOutcome, FollowUp
<1>4. \A n \in 1 .. k : Effect.from + n - 1 \in LegId BY <1>2, MaxLegsAssumption DEF LegId
<1>5. f \in [1 .. k -> FollowUp] BY <1>3, <1>4
<1>6. PICK l \in Nat : 1 .. k = 1 .. l BY <1>2, MaxLegsAssumption DEF LegId
<1>7. f \in [1 .. l -> FollowUp] BY <1>5, <1>6
<1>8. \A e \in Ran(f) : e.type = "dial-outcome" BY DEF Ran, DialOutcome
<1>9. Done(f) BY <1>1
<1> HIDE DEF f
<1>10. f \in Seq(FollowUp) BY <1>7
<1>11. Coming' \subseteq Coming \cup Ran(f) /\ Ran(f) \subseteq FollowUp
  BY <1>9, <1>10, DoneComes DEF ExecDial, Executing
<1> QED BY <1>8, <1>11 DEF Reports, GoneSaid

\* An answer reports whether the customer's leg was there to take it,
LEMMA AnswersReport ==
  ASSUME TypeOK, ExecAnswerInbound \/ ExecAnswerNotice \/ ExecAnswerVm PROVE Reports
<1>1. CASE ExecAnswerInbound
  <2> DEFINE ev == [type |-> "answer-outcome", ok |-> AnswerTakes, leg |-> Effect.leg,
                    user |-> Effect.user]
  <2>1. Effect.leg \in LegId /\ Effect.user \in Maybe(User)
    BY <1>1, ExecutingIs, EffectFields DEF ExecAnswerInbound
  <2>2. ev \in FollowUp BY <2>1 DEF FollowUp, AnswerTakes
  <2>3. ev.type = "answer-outcome" /\ (ev.ok <=> AnswerTakes) OBVIOUS
  <2>4. Done(<<ev>>) /\ journal.open /\ journal.reduced
    BY <1>1 DEF ExecAnswerInbound, AnswerCustomer, Executing
  <2> HIDE DEF ev
  <2>5. GoneSaid(ev) => customer.leg \notin Up BY <2>3 DEF GoneSaid, AnswerTakes
  <2> QED BY <2>2, <2>4, <2>5, ReportsOne
<1>2. CASE ExecAnswerNotice
  <2> DEFINE ev == [type |-> "notice-answer-outcome", ok |-> AnswerTakes]
  <2>1. ev \in FollowUp /\ (GoneSaid(ev) => customer.leg \notin Up)
    BY DEF FollowUp, AnswerTakes, GoneSaid
  <2>2. Done(<<ev>>) /\ journal.open /\ journal.reduced
    BY <1>2 DEF ExecAnswerNotice, AnswerCustomer, Executing
  <2> HIDE DEF ev
  <2> QED BY <2>1, <2>2, ReportsOne
<1>3. CASE ExecAnswerVm
  <2> DEFINE ev == [type |-> "vm-answer-outcome", ok |-> AnswerTakes]
  <2>1. ev \in FollowUp BY DEF FollowUp, AnswerTakes
  <2>2. ev.type = "vm-answer-outcome" /\ (ev.ok <=> AnswerTakes) OBVIOUS
  <2>3. Done(<<ev>>) /\ journal.open /\ journal.reduced
    BY <1>3 DEF ExecAnswerVm, AnswerCustomer, Executing
  <2> HIDE DEF ev
  <2>4. GoneSaid(ev) => customer.leg \notin Up BY <2>2 DEF GoneSaid, AnswerTakes
  <2> QED BY <2>1, <2>3, <2>4, ReportsOne
<1> QED BY <1>1, <1>2, <1>3

\* An effect that is passed over reports nothing,
LEMMA AdvanceReportsNone ==
  ASSUME TypeOK, Advance(<<>>), journal.open, journal.reduced PROVE Reports
<1>1. journal.rest \in Seq(FollowUp) /\ journal.fx # <<>> BY DEF TypeOK, JournalOK
<1>2. journal.rest \o <<>> = journal.rest BY <1>1
<1>3. journal' = Advanced(Tail(journal.fx), journal.rest) BY <1>2 DEF Advance
<1>4. Coming' \subseteq Ran(journal.rest) BY <1>1, <1>3, AdvancedComes DEF Coming
<1> QED BY <1>4 DEF Coming, Reports

\* and so on for every effect.
LEMMA ExecuteReports == ASSUME TypeOK, Execute PROVE Reports
<1>1. CASE ExecHangupCustomer
  <2>1. CASE customer.leg \in Up
    BY <1>1, <2>1, ReportsNone DEF ExecHangupCustomer, Executing
  <2>2. CASE customer.leg \notin Up
    <3> DEFINE ev == [type |-> "inbound-leg-gone"]
    <3>1. ev \in FollowUp BY DEF FollowUp
    <3>2. Done(<<ev>>) /\ journal.open /\ journal.reduced
      BY <1>1, <2>2 DEF ExecHangupCustomer, Executing
    <3> HIDE DEF ev
    <3> QED BY <2>2, <3>1, <3>2, ReportsOne
  <2> QED BY <2>1, <2>2
<1>2. CASE ExecQuietly
  <2> DEFINE ev == [type |-> "member-probe-outcome", leg |-> Effect.leg, user |-> Effect.user,
                    ok |-> wlegs[Effect.leg].status \in Up]
  <2>1. CASE Executing("push-call-end")
    <3>1. Done(<<>>) BY <1>2, <2>1 DEF ExecQuietly, Executing, Effect
    <3> QED BY <2>1, <3>1, ReportsNone DEF Executing
  <2>2. CASE Executing("telnyx-probe-member-leg")
    <3>1. Effect.leg \in LegId /\ Effect.user \in Maybe(User) BY <2>2, ExecutingIs, EffectFields
    <3>2. ev \in FollowUp /\ ~GoneSaid(ev) BY <3>1 DEF FollowUp, GoneSaid
    <3>3. Done(<<ev>>) BY <1>2, <2>2 DEF ExecQuietly, Executing, Effect
    <3> HIDE DEF ev
    <3> QED BY <2>2, <3>2, <3>3, ReportsOne DEF Executing
  <2> QED BY <1>2, <2>1, <2>2 DEF ExecQuietly
<1>3. CASE ExecPushFanout
  <2>1. PICK unreachable \in SUBSET machine.push :
          Done(<<[type |-> "push-fanout-settled", unreachable |-> unreachable]>>)
    BY <1>3 DEF ExecPushFanout
  <2> DEFINE ev == [type |-> "push-fanout-settled", unreachable |-> unreachable]
  <2>2. ev \in FollowUp /\ ~GoneSaid(ev)
    BY DEF TypeOK, MachineOK, SessionMachine, FollowUp, GoneSaid
  <2>3. Done(<<ev>>) BY <2>1
  <2> HIDE DEF ev
  <2> QED BY <1>3, <2>2, <2>3, ReportsOne DEF ExecPushFanout, Executing
<1>4. CASE ExecMirrorFails
  BY <1>4, AdvanceReportsNone DEF ExecMirrorFails, Executing
<1>5. CASE \/ ExecBridge \/ ExecHangupLegs \/ ExecReject \/ ExecMedia \/ ExecMirror
           \/ ExecTerminalMerge \/ ExecAlarmSlot
  <2>1. Done(<<>>) /\ journal.open /\ journal.reduced
    BY <1>5 DEF ExecBridge, ExecHangupLegs, ExecReject, ExecMedia, ExecMirror, ExecTerminalMerge,
       ExecAlarmSlot, Executing
  <2> QED BY <2>1, ReportsNone
<1>6. CASE ExecVoicemailPipeline
  <2>1. journal.open /\ journal.reduced BY <1>6 DEF ExecVoicemailPipeline, Executing
  <2>2. Done(<<>>) \/ Advance(<<>>) \/ UNCHANGED journal
    BY <1>6 DEF ExecVoicemailPipeline, VoicemailStored, NothingKept, VoicemailThrows
  <2>3. CASE UNCHANGED journal BY <2>3 DEF Reports, Coming
  <2> QED BY <2>1, <2>2, <2>3, ReportsNone, AdvanceReportsNone
<1> QED BY <1>1, <1>2, <1>3, <1>4, <1>5, <1>6, DialReports, AnswersReport DEF Execute


(***************************************************************************)
(* The forms a step takes, as far as the customer's leg and the feed go.   *)
(***************************************************************************)
LegHook(w) == w.type \in {"member-leg-answered", "member-leg-hangup",
                          "outbound-placer-answered", "outbound-placer-hangup"}

SameLine ==
  /\ customer'.direction = customer.direction /\ customer'.leg = customer.leg
  /\ customer'.tag = customer.tag /\ customer'.media = customer.media

LineStays == SameLine /\ \A w \in net' : w \in net \/ LegHook(w)

LineFalls ==
  /\ customer.leg \in Up /\ customer'.leg = "gone" /\ customer'.media = "none"
  /\ customer'.direction = customer.direction /\ customer'.tag = customer.tag
  /\ \A w \in net' : w \in net \/ LegHook(w) \/ w = CustomerHangup \/ w \in MediaHook

\* A placed call that is refused has not been told of a medium.
LineRefused ==
  /\ customer.leg \in Up /\ customer'.leg = "gone" /\ customer'.media = customer.media
  /\ customer'.direction = customer.direction /\ customer'.tag = customer.tag
  /\ ~row.exists
  /\ \A w \in net' : w \in net \/ w = CustomerHangup

LineAnswered ==
  /\ customer.leg = "ringing" /\ customer'.leg = "live" /\ customer'.media = customer.media
  /\ customer'.direction = customer.direction
  /\ \A w \in net' : w \in net \/ w.type = "outbound-answered"

MediaStarts ==
  /\ customer.leg = "live" /\ customer'.leg = "live" /\ UNCHANGED net
  /\ customer'.direction = customer.direction /\ Effect \in Unrun
  /\ \/ customer'.tag = "vmi" /\ customer'.media \in {"greeting", "notice"}
     \/ /\ Effect = RecordStart
        /\ customer'.tag = customer.tag /\ customer'.media = "recording"

MediaStops ==
  /\ customer.leg = "live" /\ customer'.leg = "live" /\ customer'.media = "none"
  /\ customer'.direction = customer.direction /\ customer'.tag = customer.tag
  /\ \A w \in net' : w \in net \/ w \in MediaHook

Lines == LineStays \/ LineFalls \/ LineRefused \/ LineAnswered \/ MediaStarts \/ MediaStops

\* The webhooks of a member's leg.
LEMMA LegHookSays == \A i : LegHook(HangupHook(i)) /\ LegHook(AnsweredHook(i))
  BY DEF LegHook, HangupHook, AnsweredHook, memberHangup, memberAnswered, placerHangup,
     placerAnswered

\* The end of the customer's leg.
LEMMA GoneFalls ==
  ASSUME TypeOK, NEW ls, customer.leg \in Up, CustomerGone(ls) PROVE LineFalls
  BY LegHookSays DEF CustomerGone, LineFalls, TypeOK, Customer

\* A new partner is no change of the line.
LEMMA PeerStays ==
  ASSUME TypeOK, NEW p, customer' = [customer EXCEPT !.peer = p] PROVE SameLine
  BY DEF SameLine, TypeOK, Customer

\* The effects, by what they do to the customer's leg.
LEMMA ExecuteLines == ASSUME TypeOK, Execute PROVE Lines
<1>1. CASE \/ ExecMirror \/ ExecMirrorFails \/ ExecDial \/ ExecQuietly \/ ExecPushFanout
           \/ ExecTerminalMerge \/ ExecAlarmSlot
  <2>1. UNCHANGED << customer, net >>
    BY <1>1 DEF ExecMirror, ExecMirrorFails, ExecDial, ExecQuietly, ExecPushFanout,
       ExecTerminalMerge, ExecAlarmSlot, world
  <2> QED BY <2>1 DEF Lines, LineStays, SameLine
<1>2. CASE ExecAnswerInbound \/ ExecAnswerNotice \/ ExecAnswerVm
  <2>1. PICK tag, ev : AnswerCustomer(tag, ev)
    BY <1>2 DEF ExecAnswerInbound, ExecAnswerNotice, ExecAnswerVm
  <2>2. CASE customer.leg = "ringing"
    <3>1. customer' = [customer EXCEPT !.leg = "live", !.tag = tag] /\ net' = net
      BY <2>1, <2>2 DEF AnswerCustomer
    <3>2. LineAnswered BY <2>2, <3>1 DEF LineAnswered, TypeOK, Customer
    <3> QED BY <3>2 DEF Lines
  <2>3. CASE customer.leg # "ringing"
    BY <2>1, <2>3 DEF AnswerCustomer, Lines, LineStays, SameLine
  <2> QED BY <2>2, <2>3
<1>3. CASE ExecBridge
  <2>1. CASE CustomerGone(Bridged) /\ customer.leg \in Up BY <2>1, GoneFalls DEF Lines
  <2>2. CASE customer' = [customer EXCEPT !.peer = Effect.leg] /\ net' = net
    BY <2>2, PeerStays DEF Lines, LineStays
  <2>3. CASE UNCHANGED << customer, net >> BY <2>3 DEF Lines, LineStays, SameLine
  <2> QED BY <1>3, <2>1, <2>2, <2>3 DEF ExecBridge
<1>4. CASE ExecHangupLegs
  <2>1. PICK up : /\ net' = net \cup {HangupHook(i) : i \in up}
                  /\ customer' = [customer EXCEPT !.peer = IF @ \in up THEN NoLeg ELSE @]
    BY <1>4 DEF ExecHangupLegs
  <2>2. SameLine BY <2>1 DEF SameLine, TypeOK, Customer
  <2> QED BY <2>1, <2>2, LegHookSays DEF Lines, LineStays
<1>5. CASE ExecHangupCustomer \/ ExecVoicemailPipeline
  <2>1. (customer.leg \in Up /\ CustomerGone(Bridged)) \/ UNCHANGED << customer, net >>
    BY <1>5 DEF ExecHangupCustomer, ExecVoicemailPipeline
  <2> QED BY <2>1, GoneFalls DEF Lines, LineStays, SameLine
<1>6. CASE ExecReject
  <2>1. CASE customer.leg = "ringing"
    <3>1. CustomerGone({}) /\ customer.leg \in Up BY <1>6, <2>1 DEF ExecReject, Up
    <3> QED BY <3>1, GoneFalls DEF Lines
  <2>2. CASE customer.leg # "ringing" BY <1>6, <2>2 DEF ExecReject, Lines, LineStays, SameLine
  <2> QED BY <2>1, <2>2
<1>7. CASE ExecMedia
  <2>1. net' = net BY <1>7 DEF ExecMedia
  <2>2. CASE customer.leg # "live" BY <1>7, <2>1, <2>2 DEF ExecMedia, Lines, LineStays, SameLine
  <2>3. CASE customer.leg = "live" /\ Executing("telnyx-record-start")
    <3>1. Effect.kind = "telnyx-record-start" /\ IsEffect(Effect) BY <2>3, ExecutingIs
    <3>2. Effect = RecordStart
      <4>1. Effect # Mirror(Effect.set) BY <3>1, KindsOf
      <4> QED BY <3>1, <4>1 DEF IsEffect, PlainEffect, RecordStart
    <3>3. customer' = [customer EXCEPT !.media = "recording"]
      BY <1>7, <2>3, <3>1 DEF ExecMedia
    <3>4. Effect \in Unrun BY <1>7, CommandsPass DEF Passes
    <3>5. MediaStarts BY <2>1, <2>3, <3>2, <3>3, <3>4 DEF MediaStarts, TypeOK, Customer
    <3> QED BY <3>5 DEF Lines
  <2>4. CASE customer.leg = "live" /\ ~Executing("telnyx-record-start")
    <3>1. Effect.kind = "telnyx-speak" BY <1>7, <2>4 DEF ExecMedia, Executing, Effect
    <3>2. customer' = [customer EXCEPT !.tag = "vmi",
             !.media = IF Effect.script = "unavailable-notice" THEN "notice" ELSE "greeting"]
      BY <1>7, <2>4, <3>1 DEF ExecMedia
    <3>3. Effect \in Unrun BY <1>7, CommandsPass DEF Passes
    <3>4. MediaStarts BY <2>1, <2>4, <3>2, <3>3 DEF MediaStarts, TypeOK, Customer
    <3> QED BY <3>4 DEF Lines
  <2> QED BY <2>2, <2>3, <2>4
<1> QED BY <1>1, <1>2, <1>3, <1>4, <1>5, <1>6, <1>7 DEF Execute


\* The webhooks, the requests and the alarms leave it where it is, but for a
\* placed call that is refused.
LEMMA DeliverLines == ASSUME TypeOK, NEW w \in net, Deliver(w) PROVE Lines
<1>1. CASE RejectOutboundInitiated(w)
  <2>1. CASE customer.leg \in Up
    <3>1. /\ customer' = [customer EXCEPT !.leg = "gone"] /\ ~row.exists
          /\ net' = (net \ {w}) \cup {CustomerHangup}
      BY <1>1, <2>1 DEF RejectOutboundInitiated
    <3>2. LineRefused BY <2>1, <3>1 DEF LineRefused, TypeOK, Customer
    <3> QED BY <3>2 DEF Lines
  <2>2. CASE customer.leg \notin Up
    BY <1>1, <2>2 DEF RejectOutboundInitiated, Lines, LineStays, SameLine
  <2> QED BY <2>1, <2>2
<1>2. CASE ~RejectOutboundInitiated(w)
  BY <1>2 DEF Deliver, DeliverSeen, DeliverInitiated, DeliverInitiatedLate,
     DeliverOutboundInitiated, DeliverEvent, DropUnknown, Acknowledge, world, Lines, LineStays,
     SameLine
<1> QED BY <1>1, <1>2

\* The parties.
LEMMA ProviderLines == ASSUME TypeOK, Provider PROVE Lines
<1>1. CASE CustomerHangsUp BY <1>1, GoneFalls DEF CustomerHangsUp, Lines
<1>2. CASE CustomerAnswers
  <2>1. LineAnswered BY <1>2 DEF CustomerAnswers, LineAnswered, TypeOK, Customer
  <2> QED BY <2>1 DEF Lines
<1>3. CASE MediaEnds
  <2>1. MediaStops BY <1>3 DEF MediaEnds, MediaStops, TypeOK, Customer
  <2> QED BY <2>1 DEF Lines
<1>4. ASSUME NEW i \in LegId, MemberAnswers(i) PROVE Lines
  BY <1>4, LegHookSays DEF MemberAnswers, Lines, LineStays, SameLine
<1>5. ASSUME NEW i \in LegId, MemberLegEnds(i) PROVE Lines
  <2>1. CASE /\ customer' = [customer EXCEPT !.peer = IF @ = i THEN NoLeg ELSE @]
             /\ net' = net \cup {HangupHook(i)}
    <3>1. SameLine BY <2>1 DEF SameLine, TypeOK, Customer
    <3> QED BY <2>1, <3>1, LegHookSays DEF Lines, LineStays
  <2>2. CASE customer.leg = "live" /\ CustomerGone({i})
    <3>1. customer.leg \in Up BY <2>2 DEF Up
    <3> QED BY <2>2, <3>1, GoneFalls DEF Lines
  <2> QED BY <1>5, <2>1, <2>2 DEF MemberLegEnds
<1> QED BY <1>1, <1>2, <1>3, <1>4, <1>5 DEF Provider

\* Every step.
LEMMA NextLines == ASSUME TypeOK, [Next]_vars PROVE Lines
<1>1. CASE \/ Reduce \/ RetryMirrorLands \/ RetryMirrorFails \/ Purge
           \/ \E slot : FireAlarm(slot) \/ LoseAlarm(slot)
           \/ UNCHANGED vars
           \/ \E w : Lose(w) \/ ClaimThenCrash(w)
  BY <1>1 DEF Reduce, RetryMirrorLands, RetryMirrorFails, Purge, FireAlarm, LoseAlarm, vars, world,
     Lose, ClaimThenCrash, Lines, LineStays, SameLine
<1>2. CASE ConsultSteal
  <2>1. /\ customer' = [customer EXCEPT !.peer = ConsultLeg]
        /\ net' = net \cup {HangupHook(i) : i \in Bridged}
    BY <1>2 DEF ConsultSteal
  <2> QED BY <2>1, PeerStays, LegHookSays DEF Lines, LineStays
<1>3. CASE Members /\ ~ConsultSteal
  <2>1. UNCHANGED << customer, net >>
    BY <1>3 DEF Members, RingMe, Decline, Request, Consult, ConsultGate, ConsultRegister,
       ConsultDialed, ConsultAbandon, ConsultStamp, ConsultOwner, ConsultClear, ConsultStealFails,
       ConsultRestoreOwner, Tell, world
  <2> QED BY <2>1 DEF Lines, LineStays, SameLine
<1> QED BY <1>1, <1>2, <1>3, ExecuteLines, DeliverLines, ProviderLines DEF Next, Shell, Faults

\* The events still to be reduced, step by step: nothing joins them but what is
\* admitted and what an effect reports.
Joins ==
  \/ Reports
  \/ \E ev \in Event :
        /\ Drained /\ Coming' = {ev} /\ journal'.open /\ ~journal'.reduced /\ journal'.event = ev
        /\ Unrun' = {}
        /\ \/ ev \in net /\ ev \in Webhook
           \/ /\ ev \in Asked \cup FollowUp /\ ~GoneSaid(ev)
              /\ ev.type = "set-owner" => consult.step # "idle"
           \/ ev \in Mint /\ \E w \in net : w.type = ev.type

\* Webhooks come from the feed; the others do not speak of the customer's leg.
LEMMA NextJoins == ASSUME TypeOK, CallFirst, [Next]_vars PROVE Joins
<1>1. \A ev : Admit(ev) => /\ Drained /\ Coming' = {ev} /\ journal'.open /\ ~journal'.reduced
                          /\ journal'.event = ev /\ Unrun' = {}
  BY AdmitComes, AdmitMakes DEF Admit
<1>2. ASSUME NEW ev \in Event, Admit(ev),
             \/ ev \in net /\ ev \in Webhook
             \/ /\ ev \in Asked \cup FollowUp /\ ~GoneSaid(ev)
                /\ ev.type = "set-owner" => consult.step # "idle"
             \/ ev \in Mint /\ \E w \in net : w.type = ev.type
      PROVE  Joins
  BY <1>1, <1>2 DEF Joins
<1>3. journal' = journal => Joins BY DEF Joins, Reports, Coming
<1>4. \A ev \in Asked : ~GoneSaid(ev) BY DEF Asked, GoneSaid
<1>5. CASE Reduce
  <2>1. Coming' \subseteq Coming BY <1>5, ReduceComes DEF Coming
  <2> QED BY <2>1 DEF Joins, Reports
<1>6. CASE Execute BY <1>6, ExecuteReports DEF Joins
<1>7. CASE \/ RetryMirrorLands \/ RetryMirrorFails \/ Purge \/ Provider \/ UNCHANGED vars
           \/ \E w : Lose(w) \/ ClaimThenCrash(w)
           \/ \E slot : LoseAlarm(slot)
  <2>1. journal' = journal
    BY <1>7 DEF RetryMirrorLands, RetryMirrorFails, Purge, Provider, CustomerHangsUp, vars,
       CustomerAnswers, MediaEnds, MemberAnswers, MemberLegEnds, Lose, ClaimThenCrash, LoseAlarm,
       durable
  <2> QED BY <1>3, <2>1
<1>8. ASSUME NEW slot \in AlarmSlot, FireAlarm(slot) PROVE Joins
  <2>1. CASE isNone(machine) BY <1>3, <1>8, <2>1 DEF FireAlarm
  <2>2. CASE ~isNone(machine)
    <3>1. PICK ev \in AlarmEvents(slot) : Admit(ev) BY <1>8, <2>2 DEF FireAlarm
    <3>2. machine.push \in SUBSET User BY DEF TypeOK, MachineOK, SessionMachine
    <3>3. /\ ev \in Event /\ ev \in Asked \cup FollowUp /\ ~GoneSaid(ev)
          /\ ev.type # "set-owner"
      BY <3>1, <3>2 DEF AlarmEvents, Event, FollowUp, Asked, GoneSaid
    <3> QED BY <1>2, <3>1, <3>3
  <2> QED BY <2>1, <2>2
<1>9. ASSUME NEW u \in User, NEW noLocalLeg \in BOOLEAN, NEW recent \in BOOLEAN,
             RingMe(u, noLocalLeg, recent) \/ Decline(u)
      PROVE  Joins
  <2>1. [type |-> "ring-me", user |-> u, noLocalLeg |-> noLocalLeg, recent |-> recent] \in Asked
        /\ [type |-> "decline", user |-> u] \in Asked
    BY DEF Asked
  <2>2. PICK ev \in Asked : Admit(ev) /\ ev.type # "set-owner"
    BY <1>9, <2>1 DEF RingMe, Decline, Request
  <2> QED BY <1>2, <1>4, <2>2 DEF Event
<1>10. CASE Consult
  <2>1. /\ [type |-> "register-intent"] \in Asked /\ [type |-> "clear-intent"] \in Asked
        /\ \A u \in User : [type |-> "set-owner", user |-> u] \in Asked
    BY DEF Asked
  <2>2. consult.step # "idle" => consult.sender \in User /\ consult.target \in User
    BY DEF TypeOK, NoConsult
  <2>3. journal' = journal \/ (consult.step # "idle" /\ \E ev \in Asked : Tell(ev))
    BY <1>10, <2>1, <2>2 DEF Consult, ConsultGate, ConsultRegister, ConsultDialed, ConsultAbandon,
       ConsultStamp, ConsultOwner, ConsultClear, ConsultSteal, ConsultStealFails,
       ConsultRestoreOwner, AtStep, durable
  <2>4. journal' = journal \/ (consult.step # "idle" /\ \E ev \in Asked : Admit(ev))
    BY <2>3 DEF Tell
  <2> QED BY <1>2, <1>3, <1>4, <2>4 DEF Event
<1>11. ASSUME NEW w \in net, Deliver(w) PROVE Joins
  <2>1. CASE DeliverInitiated(w)
    <3>1. PICK ctx \in Contexts : Admit([type |-> "initiated", context |-> ctx])
      BY <2>1 DEF DeliverInitiated
    <3> DEFINE ev == [type |-> "initiated", context |-> ctx]
    <3>2. ev \in Mint /\ Admit(ev) /\ ev.type = w.type
      BY <2>1, <3>1, ContextAssumption DEF Mint, DeliverInitiated
    <3> HIDE DEF ev
    <3> QED BY <1>2, <3>2 DEF Event
  <2>2. CASE DeliverOutboundInitiated(w)
    <3>1. PICK ctx \in Placements : Admit([type |-> "outbound-initiated", context |-> ctx])
      BY <2>2 DEF DeliverOutboundInitiated
    <3> DEFINE ev == [type |-> "outbound-initiated", context |-> ctx]
    <3>2. ev \in Mint /\ Admit(ev) BY <3>1, PlacementAssumption DEF Mint
    <3>3. ev.type = w.type BY <2>2 DEF DeliverOutboundInitiated
    <3> HIDE DEF ev
    <3> QED BY <1>2, <3>2, <3>3 DEF Event
  <2>3. CASE DeliverEvent(w)
    <3>1. w \in Webhook
      <4>1. w \in Hook /\ w.type \notin Initiations BY <2>3 DEF TypeOK, DeliverEvent
      <4> QED BY <4>1 DEF Hook, Initiations
    <3> QED BY <1>2, <2>3, <3>1 DEF DeliverEvent, Event
  <2>4. CASE \/ DeliverSeen(w) \/ DeliverInitiatedLate(w) \/ RejectOutboundInitiated(w)
             \/ DropUnknown(w)
    BY <1>3, <2>4 DEF DeliverSeen, DeliverInitiatedLate, RejectOutboundInitiated, DropUnknown, durable
  <2> QED BY <1>11, <2>1, <2>2, <2>3, <2>4 DEF Deliver
<1> QED BY <1>5, <1>6, <1>7, <1>8, <1>9, <1>10, <1>11 DEF Next, Shell, Faults, Members


(***************************************************************************)
(* CallEndsWithCustomer.                                                   *)
(***************************************************************************)
Hangs(S) == HangupCustomer \in S \/ VoicemailPipeline \in S

Gone == customer.leg = "gone"

\* Nobody says the customer is gone who is not, and a session is over only when
\* he is gone, or his hangup is still to be run, or the janitor came.
GoneInv ==
  /\ \A w \in net : GoneSaid(w) => Gone
  /\ \A e \in Coming : GoneSaid(e) => Gone
  /\ journal.open /\ ~journal.reduced /\ journal.event.type = "alarm-janitor"
       => "janitor" \notin alarms
  /\ Over /\ "janitor" \in alarms => Gone \/ Hangs(Unrun)
  /\ Arm("janitor") \in Unrun => ~Over

\* The commands that hang up the customer's leg leave it down.
LEMMA HangsUp ==
  ASSUME TypeOK, CallFirst, Execute, Effect = HangupCustomer \/ Effect = VoicemailPipeline
  PROVE  Gone'
<1>1. Effect.kind \in {"telnyx-hangup-customer", "voicemail-pipeline"} BY KindsOf
<1>2. ExecHangupCustomer \/ ExecVoicemailPipeline
  BY <1>1 DEF Execute, Executing, Effect, ExecMirror, ExecMirrorFails, ExecDial, ExecAnswerInbound,
     ExecAnswerNotice, ExecAnswerVm, ExecBridge, ExecHangupLegs, ExecReject, ExecMedia, ExecQuietly,
     ExecPushFanout, ExecTerminalMerge, ExecAlarmSlot
<1>3. CASE customer.leg \in Up
  <2>1. CustomerGone(Bridged)
    BY <1>2, <1>3 DEF ExecHangupCustomer, ExecVoicemailPipeline, Executing, CallFirst
  <2> QED BY <2>1 DEF CustomerGone, Gone, TypeOK, Customer
<1>4. CASE customer.leg \notin Up
  <2>1. customer' = customer BY <1>2, <1>4 DEF ExecHangupCustomer, ExecVoicemailPipeline
  <2> QED BY <1>4, <2>1 DEF Gone, Up, TypeOK, Customer
<1> QED BY <1>3, <1>4

\* Gone for good.
LEMMA GoneStays ==
  ASSUME TypeOK, Lines PROVE (Gone => Gone') /\ (customer.leg \notin Up => Gone)
<1>1. customer.leg \in {"ringing", "live", "gone"} BY DEF TypeOK, Customer
<1> QED BY <1>1 DEF Gone, Lines, LineStays, SameLine, LineFalls, LineRefused, LineAnswered,
           MediaStarts, MediaStops, Up

\* What the feed says of it.
LEMMA GoneInNet ==
  ASSUME TypeOK, GoneInv, [Next]_vars PROVE \A w \in net' : GoneSaid(w) => Gone'
<1>1. Lines BY NextLines
<1>2. SUFFICES ASSUME NEW w \in net', GoneSaid(w) PROVE Gone' OBVIOUS
<1>3. CASE w \in net BY <1>1, <1>2, <1>3, GoneStays DEF GoneInv
<1>4. ~LegHook(w) /\ w \notin MediaHook /\ w.type # "outbound-answered"
  BY <1>2 DEF GoneSaid, LegHook, MediaHook
<1> QED BY <1>1, <1>3, <1>4
        DEF Lines, LineStays, LineFalls, LineRefused, LineAnswered, MediaStarts, MediaStops, Gone

\* What the journal says of it.
LEMMA GoneInJournal ==
  ASSUME TypeOK, CallFirst, GoneInv, [Next]_vars PROVE \A e \in Coming' : GoneSaid(e) => Gone'
<1>1. Lines /\ Joins BY NextLines, NextJoins
<1>2. SUFFICES ASSUME NEW e \in Coming', GoneSaid(e) PROVE Gone \/ customer.leg \notin Up
  BY <1>1, GoneStays
<1>3. CASE Reports BY <1>2, <1>3 DEF Reports, GoneInv
<1>4. CASE ~Reports
  <2>1. e \in net \/ e \in Mint BY <1>1, <1>2, <1>4 DEF Joins
  <2>2. e \notin Mint BY <1>2 DEF Mint, GoneSaid
  <2> QED BY <1>2, <2>1, <2>2 DEF GoneInv
<1> QED BY <1>3, <1>4

\* The janitor's event is admitted only when its slot has been cleared.
LEMMA JanitorCleared ==
  ASSUME TypeOK, CallFirst, GoneInv, [Next]_vars,
         journal'.open, ~journal'.reduced, journal'.event.type = "alarm-janitor"
  PROVE  "janitor" \notin alarms'
<1>1. Forms BY NextForms
<1>2. \A ev : Admit(ev) => journal'.event = ev BY AdmitMakes
<1>3. journal'.event \notin FollowUp BY DEF FollowUp
<1>4. ~Reduces /\ ~Executes BY <1>3 DEF Reduces, Executes, Passes
<1>5. ~OpensCall BY <1>2 DEF OpensCall, Initiations
<1>6. ~Adopts
  <2>1. \A w \in net : w.type # "alarm-janitor"
    BY DEF TypeOK, Hook, Webhook, Initiations
  <2> QED BY <1>2, <2>1 DEF Adopts
<1>7. CASE journal' = journal /\ alarms' \subseteq alarms BY <1>7 DEF GoneInv
<1>8. CASE ClearsSlot
  <2>1. PICK slot \in alarms :
          /\ alarms' = alarms \ {slot}
          /\ \/ UNCHANGED journal
             \/ /\ slot \notin {"mirror-retry", "purge"}
                /\ \E ev \in Event : ev \in AlarmEvents(slot) /\ Admit(ev)
    BY <1>8 DEF ClearsSlot
  <2>2. CASE UNCHANGED journal BY <1>7, <2>1, <2>2
  <2>3. CASE /\ slot \notin {"mirror-retry", "purge"}
             /\ \E ev \in Event : ev \in AlarmEvents(slot) /\ Admit(ev)
    <3>1. journal'.event \in AlarmEvents(slot) BY <1>2, <2>3
    <3>2. slot \in {"fanout-settle", "intent-expiry", "ring-step", "ring", "janitor"}
      BY <2>3 DEF TypeOK, AlarmSlot
    <3>3. /\ \A ev \in AlarmEvents("fanout-settle") : ev.type = "push-fanout-settled"
          /\ \A ev \in AlarmEvents("intent-expiry") : ev.type = "alarm-intent-expiry"
          /\ \A ev \in AlarmEvents("ring-step") : ev.type = "alarm-ring-step"
          /\ \A ev \in AlarmEvents("ring") : ev.type = "alarm-ring"
      BY DEF AlarmEvents
    <3>4. slot = "janitor" BY <3>1, <3>2, <3>3
    <3> QED BY <2>1, <3>4
  <2> QED BY <2>1, <2>2, <2>3
<1>9. CASE TellsSession
  <2>1. journal' = journal BY <1>2, <1>9 DEF TellsSession
  <2> QED BY <1>7, <1>9, <2>1 DEF TellsSession
<1>10. CASE Aside \/ Claims \/ SetsRowOwner \/ RetryMirrorLands \/ RetryMirrorFails \/ Purge
  BY <1>7, <1>10 DEF Aside, Claims, SetsRowOwner, RetryMirrorLands, RetryMirrorFails, Purge, durable
<1> QED BY <1>1, <1>4, <1>5, <1>6, <1>8, <1>9, <1>10 DEF Forms

\* A session that ends has heard of it, hangs up, or met the janitor.
LEMMA EndsGone ==
  ASSUME CallInv, GoneInv, Reduces, Over', "janitor" \in alarms' PROVE Gone' \/ Hangs(Unrun')
<1> DEFINE r == reduce(machine, journal.event)
<1>1. /\ journal.event \in Event /\ MachineOK(machine) /\ machine' = r.m /\ Unrun' = Eff(r.fx)
      /\ UNCHANGED << alarms, customer >> /\ journal.open /\ ~journal.reduced
  BY DEF Reduces, CallInv, TypeOK
<1>2. journal.event \in Coming /\ Unrun = {} BY <1>1, UnrunIs DEF Coming, CallInv
<1>3. GoneSaid(journal.event) => Gone BY <1>2 DEF GoneInv
<1>4. journal.event.type # "alarm-janitor" BY <1>1 DEF GoneInv
<1>5. Gone' <=> Gone BY <1>1 DEF Gone
<1>6. Over => Gone BY <1>1, <1>2 DEF GoneInv, Hangs
<1>7. ~isNone(machine)
  <2>1. SUFFICES ASSUME isNone(machine) PROVE FALSE OBVIOUS
  <2>2. Mints(r) BY <1>1, <2>1, MintKinds
    DEF CallInv, OutcomeInv, EmptyInv, Reduces, Initiating, Initiations
  <2> HIDE DEF r
  <2> QED BY <1>1, <2>2, MintConcludes DEF Over
<1>8. Kinds(machine, journal.event, r) BY <1>1, <1>7, ReduceKinds
<1> HIDE DEF r
<1>9. isTerminal(r.m.state) BY <1>1 DEF Over
<1>10. CASE Ends(machine, journal.event, r)
  BY <1>1, <1>3, <1>4, <1>5, <1>10 DEF Ends, Hangs
<1>11. CASE Saves(machine, journal.event, r) BY <1>1, <1>11 DEF Saves, Hangs
<1>12. CASE ~Ends(machine, journal.event, r) /\ ~Saves(machine, journal.event, r)
  <2>1. isTerminal(machine.state)
    BY <1>8, <1>9, <1>12 DEF Kinds, DialsNobody, Quiet, Intends, Dials, Diverts, Answers, PicksUp, Records,
       Upgrades, SetsOwner, NoticeFails, SameCore, isTerminal, TerminalStates
  <2> QED BY <1>5, <1>6, <2>1 DEF Over
<1> QED BY <1>10, <1>11, <1>12


\* The arming of the janitor belongs to the session's start.
LEMMA JanitorArmed ==
  ASSUME CallInv, GoneInv, [Next]_vars, Arm("janitor") \in Unrun' PROVE ~Over'
<1>1. Forms /\ TypeOK /\ CallFirst BY NextForms DEF CallInv
<1>2. CASE Reduces
  <2> DEFINE r == reduce(machine, journal.event)
  <2>1. journal.event \in Event /\ MachineOK(machine) /\ machine' = r.m /\ Unrun' = Eff(r.fx)
    BY <1>2 DEF Reduces, CallInv, TypeOK
  <2>2. CASE isNone(machine)
    <3>1. Mints(r)
      BY <1>2, <2>1, <2>2, MintKinds
      DEF CallInv, OutcomeInv, EmptyInv, Reduces, Initiating, Initiations
    <3> HIDE DEF r
    <3> QED BY <2>1, <3>1, MintConcludes DEF Over
  <2>3. CASE ~isNone(machine)
    <3>1. Concludes(machine, journal.event, r) BY <2>1, <2>3, ReduceConcludes
    <3> HIDE DEF r
    <3> QED BY <2>1, <3>1 DEF Concludes
  <2> QED BY <2>2, <2>3
<1>3. CASE ~Reduces BY <1>1, <1>3, UnrunStays DEF GoneInv, Over
<1> QED BY <1>2, <1>3

\* While the janitor is armed, a session that is over has lost its customer.
LEMMA OverGone ==
  ASSUME CallInv, GoneInv, [Next]_vars, Over', "janitor" \in alarms' PROVE Gone' \/ Hangs(Unrun')
<1>1. Forms /\ Lines /\ TypeOK /\ CallFirst BY NextForms, NextLines DEF CallInv
<1>2. CASE Reduces BY <1>2, EndsGone
<1>3. CASE Executes
  <2>1. machine' = machine /\ Execute /\ Passes BY <1>3 DEF Executes
  <2>2. "janitor" \in alarms
    <3>1. "janitor" \in alarms \/ Effect = Arm("janitor")
      BY <1>3 DEF Executes, Pipes, MirrorRuns, MirrorFails, Merges, RunsAside
    <3>2. Effect # Arm("janitor") BY <2>1 DEF Passes, GoneInv, Over
    <3> QED BY <3>1, <3>2
  <2>3. Gone \/ Hangs(Unrun) BY <2>1, <2>2 DEF GoneInv, Over
  <2>4. CASE Gone BY <1>1, <2>4, GoneStays
  <2>5. CASE Hangs(Unrun)
    <3>1. Hangs(Unrun') \/ Effect = HangupCustomer \/ Effect = VoicemailPipeline
      BY <2>1, <2>5 DEF Hangs, Passes
    <3> QED BY <1>1, <2>1, <3>1, HangsUp
  <2> QED BY <2>3, <2>4, <2>5
<1>4. CASE Adopts
  <2>1. Unrun = {} /\ "janitor" \in alarms
    BY <1>1, <1>4, IdleRunsNothing, AdmitMakes DEF Adopts, CallFirst
  <2>2. ~isNone(machine) BY <2>1 DEF CallInv, OutcomeInv, EmptyInv
  <2>3. machine' = machine BY <1>4, <2>2 DEF Adopts, Adopt, Adopted
  <2>4. Gone BY <2>1, <2>3 DEF GoneInv, Over, Hangs
  <2> QED BY <1>1, <2>4, GoneStays
<1>5. CASE Purge BY <1>5 DEF Purge
<1>6. CASE \/ Aside \/ Claims \/ OpensCall \/ TellsSession \/ SetsRowOwner \/ ClearsSlot
           \/ RetryMirrorLands \/ RetryMirrorFails
  <2>1. machine' = machine /\ alarms' \subseteq alarms
    BY <1>6 DEF Aside, Claims, durable, OpensCall, TellsSession, SetsRowOwner, ClearsSlot,
       RetryMirrorLands, RetryMirrorFails
  <2>2. Unrun' = Unrun \/ Unrun = {}
    <3>1. journal' = journal \/ \E ev : Admit(ev)
      BY <1>6 DEF Aside, Claims, durable, OpensCall, TellsSession, SetsRowOwner, ClearsSlot,
         RetryMirrorLands, RetryMirrorFails
    <3> QED BY <1>1, <3>1, AdmitMakes, IdleRunsNothing DEF Unrun, CallFirst
  <2>3. Gone \/ Hangs(Unrun) BY <2>1 DEF GoneInv, Over
  <2>4. Gone \/ Hangs(Unrun') BY <2>2, <2>3 DEF Hangs
  <2> QED BY <1>1, <2>4, GoneStays
<1> QED BY <1>1, <1>2, <1>3, <1>4, <1>5, <1>6 DEF Forms

\* GoneInv is inductive.
LEMMA GoneStep == ASSUME CallInv, GoneInv, [Next]_vars PROVE GoneInv'
<1>1. \A w \in net' : GoneSaid(w) => Gone' BY GoneInNet DEF CallInv
<1>2. \A e \in Coming' : GoneSaid(e) => Gone' BY GoneInJournal DEF CallInv
<1>3. journal'.open /\ ~journal'.reduced /\ journal'.event.type = "alarm-janitor"
        => "janitor" \notin alarms'
  BY JanitorCleared DEF CallInv
<1>4. Over' /\ "janitor" \in alarms' => Gone' \/ Hangs(Unrun') BY OverGone
<1>5. Arm("janitor") \in Unrun' => ~Over' BY JanitorArmed
<1> QED BY <1>1, <1>2, <1>3, <1>4, <1>5 DEF GoneInv

\* GoneHolds: in every instance, GoneInv.
THEOREM GoneHolds == Spec => [](CallInv /\ GoneInv)
<1>1. Init => GoneInv
  <2>1. SUFFICES ASSUME Init PROVE GoneInv OBVIOUS
  <2>2. Coming = {} /\ Unrun = {} /\ ~journal.open
    BY <2>1 DEF Init, NoJournal, Coming, Ran, Unrun, Eff
  <2>3. alarms = {} BY <2>1 DEF Init
  <2>4. \A w \in net : ~GoneSaid(w) BY <2>1 DEF Init, InitialWebhook, GoneSaid
  <2> QED BY <2>2, <2>3, <2>4 DEF GoneInv
<1>2. CallInv /\ GoneInv /\ [Next]_vars => GoneInv' BY GoneStep
<1> QED BY <1>1, <1>2, OutcomeHolds, PTL DEF Spec

\* CallEndsWithCustomer.  In every instance, while the janitor has not fired a
\* session that is over and drained has no customer on the line: no repeated
\* command, late answer or failed dial ends the record of a call that goes on.
THEOREM EndsWithCustomer == Spec => []CallEndsWithCustomer
<1>1. CallInv /\ GoneInv => CallEndsWithCustomer
  <2>1. SUFFICES ASSUME CallInv, GoneInv, Resting, Over, "janitor" \in alarms
                 PROVE  Gone
    BY DEF CallEndsWithCustomer, Gone
  <2>2. Unrun = {} BY <2>1, IdleRunsNothing DEF CallInv, CallFirst, Resting, Drained
  <2> QED BY <2>1, <2>2 DEF GoneInv, Hangs
<1> QED BY <1>1, GoneHolds, PTL

(***************************************************************************)
(* One call has one direction: the customer's leg, what is said of it, the *)
(* row and the session agree on it.                                        *)
(***************************************************************************)
RightWay(w) ==
  /\ w.type \in {"inbound-hangup", "initiated"} => customer.direction = "inbound"
  /\ w.type \in {"outbound-hangup", "outbound-initiated"} => customer.direction = "outbound"

DirInv ==
  /\ row.exists => row.direction = customer.direction
  /\ ~isNone(machine) => machine.direction = customer.direction
  /\ \A w \in net : RightWay(w)
  /\ \A e \in Coming : RightWay(e)

\* A row that was not there is made for the customer's call.
LEMMA RowMade ==
  ASSUME TypeOK, CallFirst, Forms, ~row.exists, row'.exists PROVE row' = ClaimedRow
<1>1. isNone(machine) /\ ~journal.open /\ consult.step = "idle" BY DEF CallFirst
<1>2. row' # row OBVIOUS
<1>3. ~Reduces /\ ~Executes /\ ~SetsRowOwner BY <1>1 DEF Reduces, Executes, SetsRowOwner
<1>4. ~RetryMirrorLands /\ ~RetryMirrorFails
  BY <1>1, <1>2 DEF RetryMirrorLands, RetryMirrorFails
<1> QED BY <1>2, <1>3, <1>4 DEF Forms, Aside, Claims, OpensCall, Adopts, TellsSession, ClearsSlot,
     Purge

\* The fields of a row that was just made.
LEMMA ClaimedIs ==
  ASSUME TypeOK
  PROVE  /\ ClaimedRow.exists /\ ClaimedRow.direction = customer.direction
         /\ ClaimedRow.answered_by_user_id = NoUser /\ ~ClaimedRow.answered_at
         /\ ClaimedRow.outcome = "null" /\ ClaimedRow.state = "null"
  BY DEF ClaimedRow, NoRow

\* What a webhook says of the line, it says of this line.
LEMMA WayInNet ==
  ASSUME TypeOK, DirInv, [Next]_vars PROVE \A w \in net' : RightWay(w)'
<1>1. Lines BY NextLines
<1>2. customer'.direction = customer.direction
  BY <1>1 DEF Lines, LineStays, SameLine, LineFalls, LineRefused, LineAnswered, MediaStarts, MediaStops
<1>3. RightWay(CustomerHangup)
  BY DEF RightWay, CustomerHangup, TypeOK, Customer
<1>4. \A w : LegHook(w) \/ w.type = "outbound-answered" => RightWay(w) BY DEF RightWay, LegHook
<1>5. \A w \in MediaHook : RightWay(w) BY DEF MediaHook, RightWay
<1>6. \A w \in net' : RightWay(w)
  BY <1>1, <1>3, <1>4, <1>5 DEF DirInv, Lines, LineStays, LineFalls, LineRefused, LineAnswered,
     MediaStarts, MediaStops
<1> QED BY <1>2, <1>6 DEF RightWay

\* So do the events that come of it.
LEMMA WayInJournal ==
  ASSUME TypeOK, CallFirst, DirInv, [Next]_vars PROVE \A e \in Coming' : RightWay(e)'
<1>1. customer'.direction = customer.direction
  BY NextLines DEF Lines, LineStays, SameLine, LineFalls, LineRefused, LineAnswered, MediaStarts, MediaStops
<1>2. \A e \in FollowUp \cup Asked : RightWay(e) BY DEF RightWay, FollowUp, Asked
<1>3. \A e \in Coming' : RightWay(e)
  <2>1. CASE Reports BY <1>2, <2>1 DEF Reports, DirInv
  <2>2. CASE ~Reports
    <3>1. PICK ev \in Event :
            /\ Coming' = {ev}
            /\ ev \in net \/ ev \in Asked \cup FollowUp \/ \E w \in net : w.type = ev.type
      BY <2>2, NextJoins DEF Joins
    <3>2. RightWay(ev) BY <1>2, <3>1 DEF DirInv, RightWay
    <3> QED BY <3>1, <3>2
  <2> QED BY <2>1, <2>2
<1> QED BY <1>1, <1>3 DEF RightWay

\* The session goes the way of its row, or of the event that minted it.
LEMMA WayOfMachine ==
  ASSUME TypeOK, CallFirst, DirInv, Forms, ~isNone(machine')
  PROVE  machine'.direction = customer.direction
<1>1. CASE Reduces
  <2> DEFINE r == reduce(machine, journal.event)
  <2>1. machine' = r.m /\ journal.event \in Event /\ MachineOK(machine) /\ RightWay(journal.event)
    BY <1>1 DEF Reduces, TypeOK, DirInv, Coming
  <2>2. CASE isNone(machine)
    <3>1. CASE journal.event.type \notin {"initiated", "outbound-initiated"}
      BY <2>1, <2>2, <3>1, MintKinds DEF NoEffect, Result
    <3>2. CASE journal.event.type \in {"initiated", "outbound-initiated"}
      BY <2>1, <2>2, <3>2, MintKinds DEF RightWay
    <3> QED BY <3>1, <3>2
  <2>3. CASE ~isNone(machine)
    <3>1. Concludes(machine, journal.event, r) BY <2>1, <2>3, ReduceConcludes
    <3> QED BY <2>1, <2>3, <3>1 DEF Concludes, DirInv
  <2> QED BY <2>2, <2>3
<1>2. CASE Adopts
  <2>1. machine' = Adopted(NoWebhook) \/ \E w : machine' = Adopted(w) BY <1>2 DEF Adopts, Adopt
  <2>2. CASE isNone(machine) /\ row.exists
    <3>1. machine'.direction = row.direction
      BY <2>1, <2>2 DEF Adopted, reconstructMachine, NoMachine
    <3> QED BY <2>2, <3>1 DEF DirInv
  <2>3. CASE ~(isNone(machine) /\ row.exists) BY <2>1, <2>3 DEF Adopted, DirInv
  <2> QED BY <2>2, <2>3
<1>3. CASE Purge BY <1>3 DEF Purge, isNone, NoMachine, DirInv
<1>4. CASE ~Reduces /\ ~Adopts /\ ~Purge
  <2>1. machine' = machine
    BY <1>4 DEF Forms, Executes, Aside, durable, Claims, OpensCall, TellsSession, SetsRowOwner,
       ClearsSlot, RetryMirrorLands, RetryMirrorFails
  <2> QED BY <2>1 DEF DirInv
<1> QED BY <1>1, <1>2, <1>3, <1>4

\* DirInv is inductive.
LEMMA DirStep == ASSUME TypeOK, CallFirst, DirInv, [Next]_vars PROVE DirInv'
<1>1. Forms BY NextForms
<1>2. customer'.direction = customer.direction
  BY NextLines DEF Lines, LineStays, SameLine, LineFalls, LineRefused, LineAnswered, MediaStarts, MediaStops
<1>3. row'.exists => row'.direction = customer'.direction
  <2>1. CASE row.exists BY <1>1, <1>2, <2>1, RowStays DEF DirInv
  <2>2. CASE ~row.exists BY <1>1, <1>2, <2>2, RowMade, ClaimedIs
  <2> QED BY <2>1, <2>2
<1>4. ~isNone(machine') => machine'.direction = customer'.direction BY <1>1, <1>2, WayOfMachine
<1> QED BY <1>3, <1>4, WayInNet, WayInJournal DEF DirInv

\* DirHolds: in every instance, DirInv.
THEOREM DirHolds == Spec => [](CallInv /\ DirInv)
<1>1. Init => DirInv
  <2>1. SUFFICES ASSUME Init PROVE DirInv OBVIOUS
  <2>2. Coming = {} BY <2>1 DEF Init, NoJournal, Coming, Ran
  <2>3. ~row.exists /\ isNone(machine) BY <2>1 DEF Init, NoRow, NoMachine, isNone
  <2>4. customer.direction \in {"inbound", "outbound"} BY <2>1 DEF Init, Directions
  <2>5. \A w \in net : RightWay(w) BY <2>1, <2>4 DEF Init, InitialWebhook, RightWay
  <2> QED BY <2>2, <2>3, <2>5 DEF DirInv
<1>2. CallInv /\ DirInv /\ [Next]_vars => DirInv' BY DirStep DEF CallInv
<1> QED BY <1>1, <1>2, OutcomeHolds, PTL DEF Spec

(***************************************************************************)
(* What follows holds until a purge comes before the row said how the call *)
(* had ended, after which a second session may take the call up.           *)
(***************************************************************************)
Remembered == ~hist.forgot

\* The machine object does not remember again.
LEMMA RememberedBefore ==
  ASSUME TypeOK, [Next]_vars, Remembered'
  PROVE  Remembered /\ (Purge => row.outcome # "null")
<1>1. Forms BY NextForms
<1>2. CASE Purge BY <1>2 DEF Purge, Remembered, TypeOK
<1>3. CASE ~Purge
  <2>1. CASE Executes BY <1>3, <2>1, PipesKeep DEF Executes, Remembered
  <2>2. CASE Reduces BY <1>3, <2>2 DEF Reduces, Remembered
  <2>3. CASE Adopts BY <1>3, <2>3 DEF Adopts, Adopt, Remembered, TypeOK
  <2>4. CASE ~Executes /\ ~Reduces /\ ~Adopts
    <3>1. UNCHANGED hist
      BY <1>1, <1>3, <2>4 DEF Forms, Aside, Claims, OpensCall, TellsSession,
         SetsRowOwner, ClearsSlot, RetryMirrorLands, RetryMirrorFails
    <3> QED BY <1>3, <3>1 DEF Remembered
  <2> QED BY <2>1, <2>2, <2>3, <2>4
<1> QED BY <1>2, <1>3

(***************************************************************************)
(* FirstAnswerWins.  While a call rings nobody has it, and whoever has it  *)
(* leaves no answer on its way that a late hangup could stamp over.        *)
(***************************************************************************)
Tidy(m) ==
  /\ m.state = "ringing" => m.direction = "inbound" /\ m.owner = NoUser /\ ~m.answered
  /\ m.answered /\ m.state # "ended_answered" => m.answerIntent = NoUser
  /\ m.direction = "inbound" /\ m.owner # NoUser => m.answered
  /\ m.direction = "outbound" => m.answerIntent = NoUser

\* Of an inbound call the owner is not written without the stamp, unless the
\* row has it.
Whole(set) ==
  customer.direction = "inbound" /\ "answered_by_user_id" \in DOMAIN set
    /\ "answered_at" \notin DOMAIN set => row.answered_at

\* The row and the transfer's routes follow the session's stamp.
StampInv ==
  /\ row.direction = "inbound" /\ row.answered_by_user_id # NoUser => row.answered_at
  /\ ~isNone(machine) /\ row.answered_at => machine.answered
  /\ consult.step # "idle" => row.answered_at
  /\ \A e \in Coming : e.type = "set-owner" => row.answered_at
  /\ Whole(pending.set) /\ \A e \in Unrun : e.kind = "mirror" => Whole(e.set)
  /\ isNone(machine) /\ ~Settled => row.answered_by_user_id = NoUser /\ ~row.answered_at

AnswerInv == Tidy(machine) /\ StampInv

\* No event makes two members the owners of one answer.
LEMMA KindsTidy ==
  ASSUME NEW m, MachineOK(m), ~isNone(m), Tidy(m), NEW ev \in Event,
         ev.type = "set-owner" => m.answered
  PROVE  /\ Tidy(reduce(m, ev).m) /\ (m.answered => reduce(m, ev).m.answered)
         /\ m.owner # NoUser => \/ reduce(m, ev).m.owner = m.owner
                                \/ ev.type = "set-owner" /\ reduce(m, ev).m.owner = ev.user
<1> DEFINE r == reduce(m, ev)
<1>1. Kinds(m, ev, r) BY ReduceKinds
<1>2. m.direction \in {"inbound", "outbound"} BY DEF MachineOK, SessionMachine
<1> HIDE DEF r
<1>3. /\ Tidy(r.m) /\ (m.answered => r.m.answered)
      /\ m.owner # NoUser => r.m.owner = m.owner \/ (ev.type = "set-owner" /\ r.m.owner = ev.user)
  <2>1. CASE Quiet(m, r) \/ Dials(m, r)
    BY <2>1 DEF Quiet, Dials, SameCore, SameSide, Tidy
  <2>2. CASE Intends(m, ev, r) BY <2>2 DEF Intends, SameOwner, Tidy
  <2>3. CASE Diverts(m, r) BY <2>3 DEF Diverts, SameSide, Tidy
  <2>4. CASE Answers(m, ev, r) BY <1>2, <2>4 DEF Answers, Tidy
  <2>5. CASE PicksUp(m, r) BY <2>5 DEF PicksUp, SameSide, Tidy
  <2>6. CASE Records(m, ev, r) \/ Saves(m, ev, r)
    BY <2>6 DEF Records, Saves, SameSide, Tidy
  <2>7. CASE Ends(m, ev, r)
    <3>1. /\ r.m.state \in TerminalStates /\ SameSide(m, r.m) /\ ~isTerminal(m.state)
          /\ SameOwner(m, r) \/ TakesOwner(m, r)
      BY <2>7 DEF Ends
    <3>2. r.m.state # "ringing" /\ m.state # "ended_answered"
      BY <3>1 DEF TerminalStates, isTerminal
    <3> QED BY <3>1, <3>2 DEF SameSide, SameOwner, TakesOwner, Tidy
  <2>8. CASE Upgrades(m, ev, r)
    <3>1. m.answerIntent # NoUser => m.owner = NoUser
      BY <1>2, <2>8 DEF Upgrades, Tidy
    <3> QED BY <2>8, <3>1 DEF Upgrades, SameOwner, SameSide, Tidy
  <2>9. CASE SetsOwner(m, ev, r) BY <2>9 DEF SetsOwner, SameSide, Tidy
  <2>10. CASE NoticeFails(m, r) BY <2>10 DEF NoticeFails, Tidy
  <2> QED BY <1>1, <2>1, <2>2, <2>3, <2>4, <2>5, <2>6, <2>7, <2>8, <2>9, <2>10 DEF Kinds, DialsNobody
<1> QED BY <1>3 DEF r

\* A session that is minted, and one that is taken from its row, are tidy.
LEMMA TidyBegins ==
  ASSUME TypeOK, CallInv, AnswerInv
  PROVE  /\ \A r : MachineOK(r.m) /\ Mints(r) => Tidy(r.m) /\ ~r.m.answered
         /\ \A w : isNone(machine) /\ row.exists
                    => /\ Tidy(reconstructMachine(w))
                       /\ reconstructMachine(w).answered = row.answered_at
<1>1. ASSUME NEW r, MachineOK(r.m), Mints(r) PROVE Tidy(r.m) /\ ~r.m.answered
  <2>1. r.m.direction \in {"inbound", "outbound"} BY <1>1 DEF MachineOK, SessionMachine
  <2> QED BY <1>1, <2>1 DEF Mints, Tidy
<1>2. ASSUME NEW w, isNone(machine), row.exists
      PROVE  /\ Tidy(reconstructMachine(w))
             /\ reconstructMachine(w).answered = row.answered_at
  <2> DEFINE m == reconstructMachine(w)
  <2>1. /\ m.state = reconstructedState(w) /\ m.direction = row.direction
        /\ m.owner = row.answered_by_user_id /\ m.answered = row.answered_at
        /\ m.answerIntent = NoUser
    BY DEF reconstructMachine, NoMachine
  <2> HIDE DEF m
  <2>2. m.state = "ringing" => row.direction = "inbound" /\ ~row.answered_at
    <3>1. row.direction \in {"inbound", "outbound"} BY DEF TypeOK, Row
    <3>2. CASE row.outcome # "null"
      BY <2>1, <3>2 DEF reconstructedState, endedAs
    <3>3. CASE row.outcome = "null" /\ row.direction = "outbound"
      BY <2>1, <3>3 DEF reconstructedState
    <3>4. CASE row.outcome = "null" /\ row.direction # "outbound"
      BY <2>1, <3>1, <3>4 DEF reconstructedState
    <3> QED BY <3>2, <3>3, <3>4
  <2>3. row.direction = "inbound" /\ row.answered_by_user_id # NoUser => row.answered_at
    BY DEF AnswerInv, StampInv
  <2>4. Tidy(m) BY <2>1, <2>2, <2>3 DEF Tidy
  <2> QED BY <2>1, <2>4 DEF m
<1> QED BY <1>1, <1>2

(***************************************************************************)
(* How the columns of a row change: a write lands, now or by its retry, or *)
(* a transfer's route sets the owner.                                      *)
(***************************************************************************)
SameColumns ==
  /\ row'.state = row.state /\ row'.answered_by_user_id = row.answered_by_user_id
  /\ row'.answered_at = row.answered_at

\* The columns of S are what the machine says, the others stay.
Takes(S) ==
  /\ row'.state = IF "state" \in S THEN machine.state ELSE row.state
  /\ row'.answered_by_user_id = IF "answered_by_user_id" \in S THEN machine.owner
                                ELSE row.answered_by_user_id
  /\ row'.answered_at = IF "answered_at" \in S THEN machine.answered ELSE row.answered_at

Lands ==
  /\ ~isNone(machine) /\ machine' = machine
  /\ \/ Executes /\ MirrorRuns /\ Takes(DOMAIN Effect.set)
     \/ RetryMirrorLands /\ Takes(DOMAIN pending.set)

LEMMA RowForms ==
  ASSUME CallInv, Forms, row.exists PROVE Lands \/ SameColumns \/ SetsRowOwner
<1>1. row \in Row BY DEF CallInv, TypeOK
<1>2. CASE Executes
  <2>1. ~isNone(machine) /\ machine' = machine /\ Effect \in Unrun
    BY <1>2, RowWrites DEF CallInv, Executes, Passes
  <2>2. CASE MirrorRuns
    <3>1. IsColumns(Effect.set) /\ Says(Effect.set, machine) /\ row' = mirror(row, Effect.set)
      BY <2>1, <2>2 DEF MirrorRuns, CallInv, OutcomeInv, UnrunInv
    <3>2. Takes(DOMAIN Effect.set)
      BY <1>1, <3>1, mirrorKeeps, ColumnsAre DEF Takes, Says
    <3> QED BY <1>2, <2>1, <2>2, <3>2 DEF Lands
  <2>3. CASE MirrorFails
    <3>1. IsColumns(Effect.set) BY <2>3 DEF MirrorFails
    <3> QED BY <1>1, <2>3, <3>1, fillKeeps DEF MirrorFails, SameColumns
  <2>4. CASE \E o : Merges(o)
    BY <1>1, <2>4, upsertKeeps DEF Merges, Ending, Outcome, SameColumns
  <2>5. CASE RunsAside BY <2>5 DEF RunsAside, SameColumns
  <2>6. CASE Pipes BY <2>6, PipesKeep DEF SameColumns, CallInv
  <2> QED BY <1>2, <2>2, <2>3, <2>4, <2>5, <2>6 DEF Executes
<1>3. CASE RetryMirrorLands
  <2>1. CASE row' = row BY <2>1 DEF SameColumns
  <2>2. CASE row' # row
    <3>1. ~isNone(machine) /\ row' = mirror(row, Pinned(pending.set)) /\ machine' = machine
      BY <1>3, <2>2 DEF RetryMirrorLands
    <3> DEFINE set == Pinned(pending.set)
    <3>2. /\ IsColumns(set) /\ DOMAIN set = DOMAIN pending.set
          /\ "state" \in DOMAIN set => set["state"] = machine.state
          /\ "answered_by_user_id" \in DOMAIN set => set["answered_by_user_id"] = machine.owner
          /\ "answered_at" \in DOMAIN set => set["answered_at"] = machine.answered
      BY <3>1, PinnedIs DEF CallInv
    <3>3. row' = mirror(row, set) BY <3>1
    <3> HIDE DEF set
    <3>4. Takes(DOMAIN pending.set) BY <1>1, <3>2, <3>3, mirrorKeeps DEF Takes
    <3> QED BY <1>3, <3>1, <3>4 DEF Lands
  <2> QED BY <2>1, <2>2
<1>4. CASE RetryMirrorFails
  <2>1. CASE row' = row BY <2>1 DEF SameColumns
  <2>2. CASE row' # row
    <3>1. ~isNone(machine) /\ row' = fillOutcome(row, Pinned(pending.set))
      BY <1>4, <2>2 DEF RetryMirrorFails
    <3>2. IsColumns(Pinned(pending.set)) BY <3>1, PinnedIs DEF CallInv
    <3> QED BY <1>1, <3>1, <3>2, fillKeeps DEF SameColumns
  <2> QED BY <2>1, <2>2
<1>5. CASE Claims BY <1>5 DEF Claims
<1>6. CASE OpensCall BY <1>6 DEF OpensCall, SameColumns
<1> QED BY <1>2, <1>3, <1>4, <1>5, <1>6 DEF Forms, Reduces, Aside, Adopts, TellsSession, ClearsSlot,
     Purge, SameColumns

\* A stamp stays.
LEMMA StampStays ==
  ASSUME CallInv, AnswerInv, Forms, row.answered_at PROVE row.exists /\ row'.answered_at
<1>1. row.exists
  <2>1. ~NoRow.answered_at BY DEF NoRow
  <2> QED BY <2>1 DEF CallInv, CallFirst
<1>2. CASE Lands
  <2>1. row'.answered_at = machine.answered \/ row'.answered_at = row.answered_at
    BY <1>2 DEF Lands, Takes
  <2>2. machine.answered BY <1>2 DEF Lands, AnswerInv, StampInv
  <2> QED BY <1>1, <2>1, <2>2
<1>3. CASE SetsRowOwner
  <2>1. row \in Row BY DEF CallInv, TypeOK
  <2>2. row'.answered_at = row.answered_at BY <1>3, <2>1 DEF SetsRowOwner, Row
  <2> QED BY <1>1, <2>2
<1> QED BY <1>1, <1>2, <1>3, RowForms DEF SameColumns

\* What a step does to the session, as far as its owner goes.
LEMMA TidyStep ==
  ASSUME CallInv, DirInv, AnswerInv, Forms
  PROVE  /\ Tidy(machine')
         /\ ~isNone(machine') /\ row.answered_at => machine'.answered
         /\ ~isNone(machine) /\ machine.owner # NoUser /\ ~isNone(machine')
              => machine'.owner \in {machine.owner} \cup
                   (IF journal.event.type = "set-owner" THEN {journal.event.user} ELSE {})
<1>1. CASE Reduces
  <2> DEFINE r == reduce(machine, journal.event)
  <2>1. /\ machine' = r.m /\ journal.event \in Event /\ MachineOK(machine)
        /\ journal.event \in Coming
    BY <1>1 DEF Reduces, CallInv, TypeOK, Coming
  <2>2. MachineOK(r.m) BY <2>1, ReduceTyped
  <2>3. CASE isNone(machine)
    <3>1. \/ Mints(r) /\ journal.event.type \in Initiations
          \/ r = NoEffect(machine)
      BY <2>1, <2>3, MintKinds DEF Initiations
    <3>2. CASE Mints(r) /\ journal.event.type \in Initiations
      <4>1. ~row.answered_at
        BY <1>1, <2>3, <3>2 DEF CallInv, OutcomeInv, EmptyInv, Initiating, Reduces, AnswerInv, StampInv
      <4> HIDE DEF r
      <4>2. Tidy(r.m) BY <2>2, <3>2, TidyBegins DEF CallInv
      <4> QED BY <2>1, <2>3, <4>1, <4>2
    <3>3. CASE r = NoEffect(machine)
      <4>1. machine' = machine BY <2>1, <3>3 DEF NoEffect, Result
      <4> QED BY <2>3, <4>1 DEF AnswerInv
    <3> QED BY <3>1, <3>2, <3>3
  <2>4. CASE ~isNone(machine)
    <3>1. Tidy(machine) /\ (journal.event.type = "set-owner" => machine.answered)
          /\ (row.answered_at => machine.answered)
      BY <2>1, <2>4 DEF AnswerInv, StampInv
    <3> HIDE DEF r
    <3>2. /\ Tidy(r.m) /\ (machine.answered => r.m.answered)
          /\ machine.owner # NoUser
               => \/ r.m.owner = machine.owner
                  \/ journal.event.type = "set-owner" /\ r.m.owner = journal.event.user
      BY <2>1, <2>4, <3>1, KindsTidy DEF r
    <3> QED BY <2>1, <2>4, <3>1, <3>2
  <2> QED BY <2>3, <2>4
<1>2. CASE Adopts
  <2>1. PICK w : machine' = Adopted(w) BY <1>2 DEF Adopts, Adopt
  <2>2. CASE isNone(machine) /\ row.exists
    <3>1. machine' = reconstructMachine(w) BY <2>1, <2>2 DEF Adopted
    <3> QED BY <2>2, <3>1, TidyBegins DEF CallInv
  <2>3. CASE ~(isNone(machine) /\ row.exists)
    <3>1. machine' = machine BY <2>1, <2>3 DEF Adopted
    <3> QED BY <3>1 DEF AnswerInv, StampInv
  <2> QED BY <2>2, <2>3
<1>3. CASE Purge
  <2>1. machine' = machine \/ machine' = NoMachine BY <1>3 DEF Purge
  <2>2. isNone(NoMachine) /\ Tidy(NoMachine) BY DEF isNone, NoMachine, Tidy
  <2> QED BY <2>1, <2>2 DEF AnswerInv, StampInv
<1>4. CASE ~Reduces /\ ~Adopts /\ ~Purge
  <2>1. machine' = machine
    BY <1>4 DEF Forms, Executes, Aside, durable, Claims, OpensCall, TellsSession, SetsRowOwner,
       ClearsSlot, RetryMirrorLands, RetryMirrorFails
  <2> QED BY <2>1 DEF AnswerInv, StampInv
<1> QED BY <1>1, <1>2, <1>3, <1>4

\* The owner the row shows has the stamp.
LEMMA OwnerIsStamped ==
  ASSUME CallInv, DirInv, AnswerInv, Forms,
         row'.direction = "inbound", row'.answered_by_user_id # NoUser
  PROVE  row'.answered_at
<1>1. CASE row.answered_at BY <1>1, StampStays
<1>2. CASE ~row.answered_at
  <2>1. row.direction = "inbound" => row.answered_by_user_id = NoUser
    BY <1>2 DEF AnswerInv, StampInv
  <2>2. CASE ~row.exists
    <3>1. CASE row'.exists
      <4>1. row' = ClaimedRow /\ TypeOK BY <2>2, <3>1, RowMade DEF CallInv
      <4> QED BY <4>1, ClaimedIs
    <3>2. CASE ~row'.exists
      <4>1. row' = row
        BY <2>2, <3>2, ClaimedIs DEF CallInv, CallFirst, Forms, Reduces, Executes, Aside, Claims,
           OpensCall, Adopts, TellsSession, SetsRowOwner, ClearsSlot, RetryMirrorLands,
           RetryMirrorFails, Purge
      <4> QED BY <2>1, <4>1
    <3> QED BY <3>1, <3>2
  <2>3. CASE row.exists
    <3>1. row'.direction = row.direction BY <2>3, RowStays DEF CallInv
    <3>2. ~SetsRowOwner BY <1>2 DEF SetsRowOwner, AnswerInv, StampInv
    <3>3. CASE SameColumns BY <2>1, <3>1, <3>3 DEF SameColumns
    <3>4. CASE Lands
      <4>1. ~isNone(machine) /\ machine.direction = "inbound"
        BY <2>3, <3>1, <3>4 DEF Lands, DirInv
      <4>2. machine.owner # NoUser => machine.answered BY <4>1 DEF AnswerInv, Tidy
      <4>3. ASSUME NEW S, Takes(S), Whole([c \in S |-> 0]) PROVE row'.answered_at
        <5>1. row'.answered_by_user_id = machine.owner /\ "answered_by_user_id" \in S
          BY <2>1, <3>1, <4>3 DEF Takes
        <5>2. "answered_at" \in S BY <1>2, <2>3, <3>1, <4>3, <5>1 DEF Whole, DirInv
        <5>3. row'.answered_at = machine.answered BY <4>3, <5>2 DEF Takes
        <5> QED BY <4>2, <5>1, <5>3
      <4>4. \A set : Whole(set) <=> Whole([c \in DOMAIN set |-> 0]) BY DEF Whole
      <4>5. Whole(pending.set) /\ (Executes /\ MirrorRuns => Whole(Effect.set))
        BY DEF AnswerInv, StampInv, Executes, Passes, MirrorRuns
      <4> QED BY <3>4, <4>3, <4>4, <4>5 DEF Lands
    <3> QED BY <2>3, <3>2, <3>3, <3>4, RowForms
  <2> QED BY <2>2, <2>3
<1> QED BY <1>1, <1>2

\* What a write still owed says of the owner, it says with the stamp.
LEMMA WholeOwed ==
  ASSUME CallInv, DirInv, AnswerInv, Forms, customer'.direction = customer.direction
  PROVE  Whole(pending.set)'
<1>1. row.answered_at => row'.answered_at BY StampStays
<1>2. ASSUME NEW S, customer.direction = "inbound",
             "answered_by_user_id" \in S /\ "answered_at" \notin S => row.answered_at,
             DOMAIN pending'.set = S
      PROVE  Whole(pending.set)'
  BY <1>1, <1>2 DEF Whole
<1>3. Whole(pending.set) BY DEF AnswerInv, StampInv
<1>4. CASE pending' = pending BY <1>1, <1>3, <1>4 DEF Whole
<1>5. CASE pending' = NoPending
  <2>1. "answered_by_user_id" \notin DOMAIN pending'.set
    BY <1>5 DEF NoPending, NoColumns
  <2> QED BY <2>1 DEF Whole
<1>6. CASE Executes /\ MirrorFails
  <2> DEFINE set == Written(Effect.set, pending.set)
  <2>1. DOMAIN set = DOMAIN Effect.set \cup DOMAIN pending.set BY DEF Written
  <2>2. pending'.set = set BY <1>6 DEF MirrorFails
  <2>3. Whole(Effect.set) BY <1>6 DEF AnswerInv, StampInv, Executes, Passes, MirrorFails
  <2> HIDE DEF set
  <2>4. DOMAIN pending'.set = DOMAIN Effect.set \cup DOMAIN pending.set BY <2>1, <2>2
  <2> QED BY <1>1, <1>3, <2>3, <2>4 DEF Whole
<1>7. CASE RetryMirrorFails
  <2>1. CASE pending' = NoPending BY <1>5, <2>1
  <2>2. CASE pending' # NoPending
    <3>1. pending'.set = Pinned(pending.set) BY <1>7, <2>2 DEF RetryMirrorFails
    <3>2. DOMAIN pending'.set = DOMAIN pending.set BY <3>1 DEF Pinned
    <3> QED BY <1>1, <1>3, <3>2 DEF Whole
  <2> QED BY <2>1, <2>2
<1> QED BY <1>4, <1>5, <1>6, <1>7 DEF Forms, Executes, Pipes, MirrorRuns, Merges, RunsAside, Reduces,
     Aside, durable, Claims, OpensCall, Adopts, TellsSession, SetsRowOwner, ClearsSlot,
     RetryMirrorLands, Purge

\* So does one that is still to be run.
LEMMA WholeUnrun ==
  ASSUME CallInv, DirInv, AnswerInv, Forms, customer'.direction = customer.direction
  PROVE  \A e \in Unrun' : e.kind = "mirror" => Whole(e.set)'
<1>1. row.answered_at => row'.answered_at BY StampStays
<1>2. CASE ~Reduces
  <2>1. Unrun' \subseteq Unrun
    BY <1>2, UnrunStays DEF CallInv
  <2>2. \A e \in Unrun : e.kind = "mirror" => Whole(e.set) BY DEF AnswerInv, StampInv
  <2> QED BY <1>1, <2>1, <2>2 DEF Whole
<1>3. CASE Reduces
  <2> DEFINE r == reduce(machine, journal.event)
  <2>1. /\ machine' = r.m /\ Unrun' = Eff(r.fx) /\ journal.event \in Event /\ MachineOK(machine)
        /\ journal.event \in Coming
    BY <1>3 DEF Reduces, CallInv, TypeOK, Coming
  <2>2. CASE ~isNone(machine)
    <3>1. Tells(machine, journal.event, r) BY <2>1, <2>2, ReduceTells
    <3> HIDE DEF r
    <3>2. journal.event.type = "set-owner" => row.answered_at
      BY <2>1 DEF AnswerInv, StampInv
    <3> QED BY <1>1, <2>1, <3>1, <3>2 DEF Tells, Whole
  <2>3. CASE isNone(machine)
    <3>1. Mints(r) \/ r = NoEffect(machine) BY <2>1, <2>3, MintKinds
    <3>3. CASE Mints(r)
      <4> HIDE DEF r
      <4>1. /\ ~isNone(machine')
            /\ \A e \in Eff(r.fx) : e.kind = "mirror" /\ "answered_by_user_id" \in DOMAIN e.set
                                       => machine'.direction = "outbound"
        BY <2>1, <3>3, MintConcludes
      <4>2. machine'.direction = customer.direction BY <4>1, WayOfMachine DEF CallInv
      <4> QED BY <2>1, <4>1, <4>2 DEF Whole
    <3>4. CASE r = NoEffect(machine)
      <4>1. r.fx = <<>> BY <3>4 DEF NoEffect, Result
      <4> HIDE DEF r
      <4> QED BY <2>1, <4>1 DEF Eff
    <3> QED BY <3>1, <3>3, <3>4
  <2> QED BY <2>2, <2>3
<1> QED BY <1>2, <1>3

\* The session changes only where an event is reduced or admitted, or it is purged.
LEMMA MachineStays ==
  ASSUME Forms, ~Reduces, ~Adopts, ~Purge PROVE machine' = machine
  BY DEF Forms, Executes, Aside, durable, Claims, OpensCall, TellsSession, SetsRowOwner, ClearsSlot,
     RetryMirrorLands, RetryMirrorFails

\* The row keeps its outcome, and gets one only from a session that is over.
LEMMA SettledStays ==
  ASSUME CallInv, Forms PROVE (Settled => Settled') /\ (Settled' => Settled \/ Over)
<1>1. CASE Executes BY <1>1, RowWrites DEF CallInv
<1>2. CASE RetryMirrorLands \/ RetryMirrorFails BY <1>2, RetryWrites DEF CallInv
<1>3. CASE SetsRowOwner
  <2>1. row \in Row BY DEF CallInv, TypeOK
  <2> QED BY <1>3, <2>1 DEF SetsRowOwner, Settled, Row
<1>4. CASE Claims \/ OpensCall
  <2>1. row' = row \/ (row' = ClaimedRow /\ ~row.exists)
    BY <1>4 DEF Claims, OpensCall
  <2>2. ~row.exists => ~Settled BY DEF CallInv, CallFirst, NoRow, Settled
  <2> QED BY <2>1, <2>2, ClaimedIs DEF Settled, CallInv
<1>5. CASE ~(Executes \/ RetryMirrorLands \/ RetryMirrorFails \/ SetsRowOwner \/ Claims \/ OpensCall)
  <2>1. row' = row
    BY <1>5 DEF Forms, Reduces, Aside, Adopts, TellsSession, ClearsSlot, Purge
  <2> QED BY <2>1 DEF Settled
<1> QED BY <1>1, <1>2, <1>3, <1>4, <1>5

\* A session that goes leaves an outcome.
LEMMA NoneStays ==
  ASSUME CallInv, [Next]_vars, Remembered', isNone(machine'), ~Settled'
  PROVE  isNone(machine) /\ ~Settled
<1>0. Forms /\ TypeOK BY NextForms DEF CallInv
<1>1. ~Settled BY <1>0, SettledStays
<1>2. SUFFICES ASSUME ~isNone(machine) PROVE FALSE BY <1>1
<1>3. CASE Reduces
  <2> DEFINE r == reduce(machine, journal.event)
  <2>1. Concludes(machine, journal.event, r)
    BY <1>2, <1>3, ReduceConcludes DEF Reduces, CallInv, TypeOK
  <2>2. machine' = r.m BY <1>3 DEF Reduces
  <2> HIDE DEF r
  <2> QED BY <2>1, <2>2 DEF Concludes
<1>4. CASE Adopts BY <1>2, <1>4 DEF Adopts, Adopt, Adopted
<1>5. CASE Purge BY <1>0, <1>1, <1>5, RememberedBefore DEF Settled
<1> QED BY <1>0, <1>2, <1>3, <1>4, <1>5, MachineStays

\* A line without a session keeps its row bare.
LEMMA BareStays ==
  ASSUME CallInv, DirInv, AnswerInv, [Next]_vars, Remembered', CallFirst', isNone(machine'), ~Settled'
  PROVE  row'.answered_by_user_id = NoUser /\ ~row'.answered_at
<1>0. Forms BY NextForms DEF CallInv
<1>1. CASE ~row'.exists BY <1>1 DEF CallFirst, NoRow
<1>2. CASE row'.exists /\ ~row.exists BY <1>0, <1>2, RowMade, ClaimedIs DEF CallInv
<1>3. CASE row.exists
  <2>1. isNone(machine) /\ ~Settled BY NoneStays
  <2>2. row.answered_by_user_id = NoUser /\ ~row.answered_at
    BY <2>1 DEF AnswerInv, StampInv
  <2>3. ~Lands BY <2>1 DEF Lands
  <2>4. ~SetsRowOwner BY <2>2 DEF SetsRowOwner, AnswerInv, StampInv
  <2> QED BY <1>0, <1>3, <2>2, <2>3, <2>4, RowForms DEF SameColumns
<1> QED BY <1>0, <1>1, <1>2, <1>3

\* The stamp of the row is the session's.
LEMMA StampIs ==
  ASSUME CallInv, DirInv, AnswerInv, Forms, CallFirst', ~isNone(machine'), row'.answered_at
  PROVE  machine'.answered
<1>1. CASE row.answered_at BY <1>1, TidyStep
<1>2. CASE ~row.answered_at
  <2>1. row'.exists
    <3>1. ~NoRow.answered_at BY DEF NoRow
    <3> QED BY <3>1 DEF CallFirst
  <2>2. CASE ~row.exists BY <2>1, <2>2, RowMade, ClaimedIs DEF CallInv
  <2>3. CASE row.exists
    <3>1. CASE Lands
      <4>1. row'.answered_at = machine.answered \/ row'.answered_at = row.answered_at
        BY <3>1 DEF Lands, Takes
      <4> QED BY <1>2, <3>1, <4>1 DEF Lands
    <3>2. CASE SetsRowOwner BY <1>2, <3>2 DEF SetsRowOwner, AnswerInv, StampInv
    <3>3. CASE SameColumns BY <1>2, <3>3 DEF SameColumns
    <3> QED BY <2>3, <3>1, <3>2, <3>3, RowForms
  <2> QED BY <2>2, <2>3
<1> QED BY <1>1, <1>2

\* AnswerInv is inductive.
LEMMA AnswerStep ==
  ASSUME CallInv, DirInv, AnswerInv, [Next]_vars, Remembered' PROVE AnswerInv'
<1>1. Forms /\ TypeOK /\ CallFirst BY NextForms DEF CallInv
<1>2. CallFirst' BY <1>1, CallFirstStep
<1>3. customer'.direction = customer.direction
  BY <1>1, NextLines DEF Lines, LineStays, SameLine, LineFalls, LineRefused, LineAnswered,
     MediaStarts, MediaStops
<1>4. row.answered_at => row'.answered_at BY <1>1, StampStays
<1>5. consult'.step # "idle" => row'.answered_at
  BY <1>4, ConsultMoves DEF RowLive, AnswerInv, StampInv
<1>6. \A e \in Coming' : e.type = "set-owner" => row'.answered_at
  <2>1. \A e \in Coming : e.type = "set-owner" => row.answered_at BY DEF AnswerInv, StampInv
  <2>2. \A e \in FollowUp : e.type # "set-owner" BY DEF FollowUp
  <2>3. CASE Reports BY <1>4, <2>1, <2>2, <2>3 DEF Reports
  <2>4. CASE ~Reports
    <3>1. PICK ev \in Event :
            /\ Coming' = {ev}
            /\ \/ ev \in Webhook \cup Mint
               \/ ev.type = "set-owner" => consult.step # "idle"
      BY <1>1, <2>4, NextJoins DEF Joins
    <3>2. ev \in Webhook \cup Mint => ev.type # "set-owner" BY DEF Webhook, Mint
    <3>3. consult.step # "idle" => row.answered_at BY DEF AnswerInv, StampInv
    <3> QED BY <1>4, <3>1, <3>2, <3>3
  <2> QED BY <2>3, <2>4
<1>7. StampInv'
  BY <1>1, <1>2, <1>3, <1>5, <1>6, OwnerIsStamped, StampIs, WholeOwed, WholeUnrun, BareStays
     DEF StampInv
<1>8. Tidy(machine)' BY <1>1, TidyStep DEF Tidy
<1> QED BY <1>7, <1>8 DEF AnswerInv

\* AnswerHolds: in every instance, AnswerInv, while the call is remembered.
THEOREM AnswerHolds == Spec => [](CallInv /\ DirInv /\ (Remembered => AnswerInv))
<1>1. Init => AnswerInv
  <2>1. SUFFICES ASSUME Init PROVE AnswerInv OBVIOUS
  <2>2. Coming = {} /\ Unrun = {} BY <2>1 DEF Init, NoJournal, Coming, Ran, Unrun, Eff
  <2>3. Tidy(machine) /\ isNone(machine) BY <2>1 DEF Init, NoMachine, isNone, Tidy
  <2>4. row.answered_by_user_id = NoUser /\ ~row.answered_at BY <2>1 DEF Init, NoRow
  <2>5. consult.step = "idle" BY <2>1 DEF Init, NoConsult
  <2>6. Whole(pending.set) BY <2>1 DEF Init, NoPending, NoColumns, Whole
  <2> QED BY <2>2, <2>3, <2>4, <2>5, <2>6 DEF AnswerInv, StampInv
<1>2. CallInv /\ DirInv /\ (Remembered => AnswerInv) /\ [Next]_vars => (Remembered => AnswerInv)'
  BY AnswerStep, RememberedBefore DEF CallInv
<1> QED BY <1>1, <1>2, DirHolds, PTL DEF Spec

\* FirstAnswerHolds: while the call is remembered, once a member has it only set-owner
\* gives it to another: FirstAnswerWins of CallProperties.
THEOREM FirstAnswerHolds == Spec => FirstAnswerWins
<1> DEFINE Wins == ~isNone(machine) /\ machine.owner # NoUser /\ ~isNone(machine') /\ ~hist.forgot
       => machine'.owner \in {machine.owner} \cup
            (IF journal.event.type = "set-owner" THEN {journal.event.user} ELSE {})
<1>1. CallInv /\ DirInv /\ (Remembered => AnswerInv) /\ [Next]_vars => Wins
  <2>1. SUFFICES ASSUME CallInv, DirInv, Remembered => AnswerInv, [Next]_vars, ~hist.forgot PROVE Wins
    OBVIOUS
  <2>2. Forms /\ AnswerInv BY <2>1, NextForms DEF CallInv, Remembered
  <2> QED BY <2>1, <2>2, TidyStep
<1>2. CallInv /\ DirInv /\ (Remembered => AnswerInv) /\ [Next]_vars => [Wins]_vars BY <1>1
<1> QED BY <1>2, AnswerHolds, PTL DEF Spec, FirstAnswerWins


(***************************************************************************)
(* RowAgrees.  A column of the row differs from the session's only while a *)
(* write that will mend it is owed, still to be run, or on its way through *)
(* a transfer's route.                                                     *)
(***************************************************************************)
Owed(c) ==
  c \in DOMAIN pending.set \/ \E e \in Unrun : e.kind = "mirror" /\ c \in DOMAIN e.set

HandsOver == consult.step \in {"stamped", "restored"}

\* A transfer's route wrote the owner into the row ahead of the session.
Handing == HandsOver \/ \E e \in Coming : e.type = "set-owner"

Columns == {"state", "answered_at", "answered_by_user_id"}

Agree ==
  /\ ~isNone(machine)
  /\ \A c \in Columns : \/ row[c] = ColumnOf(machine, c) \/ Owed(c)
                        \/ c = "answered_by_user_id" /\ Handing

AgreeInv ==
  /\ hist.minted => Agree
  /\ pending.attempts <= spent["mirrorFail"] /\ spent["mirrorFail"] <= Budget["mirrorFail"]

\* The routes leave these two steps by telling the session.
LEMMA HandsOn ==
  ASSUME TypeOK, [Next]_vars, HandsOver, ~isNone(machine)
  PROVE  HandsOver' \/ \E ev \in Event : ev.type = "set-owner" /\ Admit(ev)
<1>1. UNCHANGED consult => HandsOver' BY DEF HandsOver
<1>2. CASE Consult
  <2>1. consult.sender \in User /\ consult.target \in User
    BY DEF TypeOK, NoConsult, HandsOver
  <2>2. \A u \in User : [type |-> "set-owner", user |-> u] \in Event BY DEF Event, Asked
  <2>3. CASE ConsultOwner
    <3> DEFINE ev == [type |-> "set-owner", user |-> consult.target]
    <3>1. Admit(ev) BY <2>3 DEF ConsultOwner, Tell
    <3>2. ev \in Event /\ ev.type = "set-owner" BY <2>1, <2>2
    <3> HIDE DEF ev
    <3> QED BY <3>1, <3>2
  <2>4. CASE ConsultRestoreOwner
    <3> DEFINE ev == [type |-> "set-owner", user |-> consult.sender]
    <3>1. Admit(ev) BY <2>4 DEF ConsultRestoreOwner, Tell
    <3>2. ev \in Event /\ ev.type = "set-owner" BY <2>1, <2>2
    <3> HIDE DEF ev
    <3> QED BY <3>1, <3>2
  <2>5. CASE ~ConsultOwner /\ ~ConsultRestoreOwner
    BY <1>2, <2>5 DEF HandsOver, Consult, ConsultGate, ConsultRegister, ConsultDialed,
       ConsultAbandon, ConsultStamp, ConsultClear, ConsultSteal, ConsultStealFails, AtStep
  <2> QED BY <2>3, <2>4, <2>5
<1>3. CASE ~Consult
  <2>1. UNCHANGED consult
    BY <1>3 DEF Next, vars, Members, Shell, Reduce, Execute, ExecMirror, ExecMirrorFails, ExecDial,
       ExecAnswerInbound,
       ExecAnswerNotice, ExecAnswerVm, AnswerCustomer, ExecBridge, ExecHangupLegs,
       ExecHangupCustomer, ExecReject, ExecMedia, ExecQuietly, ExecPushFanout, ExecTerminalMerge,
       ExecVoicemailPipeline, ExecAlarmSlot, FireAlarm, RetryMirrorLands, Purge,
       Faults, Lose, ClaimThenCrash, LoseAlarm, RetryMirrorFails,
       Provider, CustomerHangsUp, CustomerAnswers, MediaEnds, MemberAnswers, MemberLegEnds,
       Deliver, DeliverSeen, DeliverInitiated, DeliverInitiatedLate, DeliverOutboundInitiated,
       RejectOutboundInitiated, DeliverEvent, DropUnknown, RingMe, Decline, Request
  <2> QED BY <1>1, <2>1
<1> QED BY <1>2, <1>3

\* Set-owner never waits behind another event.
LEMMA OwnerComesFirst ==
  ASSUME TypeOK, NEW e \in Coming, e.type = "set-owner"
  PROVE  journal.open /\ ~journal.reduced /\ e = journal.event
<1>1. journal.rest \in Seq(FollowUp) BY DEF TypeOK, JournalOK
<1>2. Ran(journal.rest) \subseteq FollowUp BY <1>1, RanOf
<1>3. \A f \in FollowUp : f.type # "set-owner" BY DEF FollowUp
<1> QED BY <1>2, <1>3 DEF Coming

\* Budgets are only spent.
LEMMA SpentGrows ==
  ASSUME [Next]_vars PROVE spent' = spent \/ \E kind \in BudgetKind : Spend(kind)
<1>1. \A kind \in {"replay", "mirrorFail", "dup", "lose", "loseAlarm", "orphan", "ringMe", "decline",
                   "consult", "stealFail"} : kind \in BudgetKind
  BY DEF BudgetKind
<1>2. \A fs : Done(fs) => spent' = spent \/ Spend("replay") BY DEF Done
<1>3. \A w : Acknowledge(w) => spent' = spent \/ Spend("dup") BY DEF Acknowledge
<1>4. CASE Shell
  <2>1. CASE Execute
    BY <1>1, <1>2, <2>1 DEF Execute, ExecMirror, ExecMirrorFails, ExecDial, ExecAnswerInbound,
       ExecAnswerNotice, ExecAnswerVm, AnswerCustomer, ExecBridge, ExecHangupLegs,
       ExecHangupCustomer, ExecReject, ExecMedia, ExecQuietly, ExecPushFanout, ExecTerminalMerge,
       ExecVoicemailPipeline, VoicemailStored, NothingKept, VoicemailThrows, ExecAlarmSlot
  <2>2. CASE ~Execute
    BY <1>4, <2>2 DEF Shell, Reduce, FireAlarm, RetryMirrorLands, Purge
  <2> QED BY <2>1, <2>2
<1>5. CASE Faults
  BY <1>1, <1>5 DEF Faults, Lose, ClaimThenCrash, LoseAlarm, RetryMirrorFails
<1>6. CASE Members
  BY <1>1, <1>6 DEF Members, RingMe, Decline, Request, Consult, ConsultGate, ConsultRegister,
     ConsultDialed, ConsultAbandon, ConsultStamp, ConsultOwner, ConsultClear, ConsultSteal,
     ConsultStealFails, ConsultRestoreOwner, Tell
<1>7. CASE Provider
  BY <1>7 DEF Provider, CustomerHangsUp, CustomerAnswers, MediaEnds, MemberAnswers, MemberLegEnds
<1>8. CASE \E w \in net : Deliver(w)
  BY <1>1, <1>3, <1>8 DEF Deliver, DeliverSeen, DeliverInitiated, DeliverInitiatedLate,
     DeliverOutboundInitiated, RejectOutboundInitiated, DeliverEvent, DropUnknown
<1>9. CASE UNCHANGED vars BY <1>9 DEF vars
<1> QED BY <1>4, <1>5, <1>6, <1>7, <1>8, <1>9 DEF Next

\* A write that failed is counted.
LEMMA AttemptsStay ==
  ASSUME CallInv, AgreeInv, [Next]_vars
  PROVE  pending'.attempts <= spent'["mirrorFail"] /\ spent'["mirrorFail"] <= Budget["mirrorFail"]
<1>1. /\ spent \in [BudgetKind -> Nat] /\ pending.attempts \in Nat /\ Budget \in [BudgetKind -> Nat]
      /\ "mirrorFail" \in BudgetKind
  BY BudgetAssumption DEF CallInv, TypeOK, BudgetKind
<1>2. pending.attempts <= spent["mirrorFail"] /\ spent["mirrorFail"] <= Budget["mirrorFail"]
  BY DEF AgreeInv
<1>3. \A kind \in BudgetKind : Spend(kind)
        => /\ spent[kind] + 1 <= Budget[kind]
           /\ spent'["mirrorFail"] = IF kind = "mirrorFail" THEN spent["mirrorFail"] + 1
                                     ELSE spent["mirrorFail"]
  BY <1>1 DEF Spend
<1>4. /\ spent["mirrorFail"] <= spent'["mirrorFail"] /\ spent'["mirrorFail"] <= Budget["mirrorFail"]
      /\ spent'["mirrorFail"] \in Nat
  BY <1>1, <1>2, <1>3, SpentGrows
<1>5. pending'.attempts <= spent'["mirrorFail"]
  <2>1. CASE pending' = pending BY <1>1, <1>2, <1>4, <2>1
  <2>2. CASE pending' = NoPending
    <3>1. pending'.attempts = 0 BY <2>2 DEF NoPending
    <3> QED BY <1>4, <3>1
  <2>3. CASE Executes /\ MirrorFails
    <3>1. pending'.attempts = 1 \/ pending'.attempts = pending.attempts BY <2>3 DEF MirrorFails
    <3>2. spent'["mirrorFail"] = spent["mirrorFail"] + 1 BY <1>1, <1>3, <2>3 DEF MirrorFails
    <3> QED BY <1>1, <1>2, <3>1, <3>2
  <2>4. CASE RetryMirrorFails
    <3>1. pending' = NoPending \/ pending'.attempts = pending.attempts + 1
      BY <2>4 DEF RetryMirrorFails
    <3>2. spent'["mirrorFail"] = spent["mirrorFail"] + 1 BY <1>1, <1>3, <2>4 DEF RetryMirrorFails
    <3> QED BY <1>1, <1>2, <2>2, <3>1, <3>2
  <2>5. Forms BY NextForms DEF CallInv
  <2> QED BY <2>1, <2>2, <2>3, <2>4, <2>5 DEF Forms, Executes, Pipes, MirrorRuns, Merges, RunsAside,
        Reduces, Aside, durable, Claims, OpensCall, Adopts, TellsSession, SetsRowOwner, ClearsSlot,
        RetryMirrorLands, Purge
<1> QED BY <1>4, <1>5


\* The event set-owner has the owner written.
LEMMA OwnerTold ==
  ASSUME NEW m, MachineOK(m), ~isNone(m), NEW ev \in Event, ev.type = "set-owner"
  PROVE  \E e \in Eff(reduce(m, ev).fx) : e.kind = "mirror" /\ "answered_by_user_id" \in DOMAIN e.set
<1> DEFINE r   == reduceSetOwner(m, ev)
           set == [answered_by_user_id |-> ev.user]
<1>1. reduce(m, ev) = r BY DEF reduce, handle
<1>2. SetsOwner(m, ev, r) BY reduceSetOwnerKinds
<1>3. "answered_by_user_id" \in DOMAIN set OBVIOUS
<1> HIDE DEF r
<1>4. Writes(Eff(r.fx), set) BY <1>2 DEF SetsOwner
<1> HIDE DEF set
<1> QED BY <1>1, <1>3, <1>4, WritesTell

\* A write that lands leaves its columns as the machine has them.
LEMMA WriteTakes ==
  ASSUME CallInv, ~isNone(machine)
  PROVE  /\ Executes /\ MirrorRuns => Takes(DOMAIN Effect.set)
         /\ RetryMirrorLands => Takes(DOMAIN pending.set)
<1>1. row \in Row /\ row.exists BY DEF CallInv, TypeOK, CallFirst
<1>2. ASSUME Executes, MirrorRuns PROVE Takes(DOMAIN Effect.set)
  <2>1. IsColumns(Effect.set) /\ Says(Effect.set, machine) /\ row' = mirror(row, Effect.set)
    BY <1>2 DEF MirrorRuns, Executes, Passes, CallInv, OutcomeInv, UnrunInv
  <2> QED BY <1>1, <2>1, mirrorKeeps, ColumnsAre DEF Takes, Says
<1>3. ASSUME RetryMirrorLands PROVE Takes(DOMAIN pending.set)
  <2> DEFINE set == Pinned(pending.set)
  <2>1. CASE pending = NoPending
    <3>1. DOMAIN pending.set = {} BY <2>1 DEF NoPending, NoColumns
    <3>2. row' = row BY <1>3, <2>1 DEF RetryMirrorLands
    <3> QED BY <3>1, <3>2 DEF Takes
  <2>2. CASE pending # NoPending
    <3>1. row' = mirror(row, set) BY <1>3, <2>2 DEF RetryMirrorLands
    <3>2. /\ IsColumns(set) /\ DOMAIN set = DOMAIN pending.set
          /\ "state" \in DOMAIN set => set["state"] = machine.state
          /\ "answered_by_user_id" \in DOMAIN set => set["answered_by_user_id"] = machine.owner
          /\ "answered_at" \in DOMAIN set => set["answered_at"] = machine.answered
      BY PinnedIs DEF CallInv
    <3> HIDE DEF set
    <3> QED BY <1>1, <3>1, <3>2, mirrorKeeps DEF Takes
  <2> QED BY <2>1, <2>2
<1> QED BY <1>2, <1>3

\* The same, column by column.
LEMMA TakesEach ==
  ASSUME NEW S, Takes(S)
  PROVE  \A c \in Columns : row'[c] = IF c \in S THEN ColumnOf(machine, c) ELSE row[c]
  BY ColumnsAre DEF Takes, Columns

\* The reducer's step.
LEMMA AgreeReduces ==
  ASSUME CallInv, DirInv, AnswerInv, AgreeInv, Reduces, hist'.minted PROVE Agree'
<1> DEFINE r == reduce(machine, journal.event)
<1>1. /\ machine' = r.m /\ Unrun' = Eff(r.fx) /\ journal.event \in Event /\ MachineOK(machine)
      /\ journal.event \in Coming /\ row' = row /\ pending' = pending /\ consult' = consult
      /\ hist.minted \/ (isNone(machine) /\ ~isNone(machine'))
  BY DEF Reduces, CallInv, TypeOK, Coming
<1>2. Unrun = {} BY IdleRunsNothing DEF Reduces, CallInv, CallFirst
<1>3. CASE ~isNone(machine)
  <2>1. Agree BY <1>1, <1>3 DEF AgreeInv
  <2>2. Tells(machine, journal.event, r) BY <1>1, <1>3, ReduceTells
  <2>3. Concludes(machine, journal.event, r) BY <1>1, <1>3, ReduceConcludes
  <2>4. journal.event.type = "set-owner" =>
          \E e \in Eff(r.fx) : e.kind = "mirror" /\ "answered_by_user_id" \in DOMAIN e.set
    BY <1>1, <1>3, OwnerTold
  <2> HIDE DEF r
  <2>5. ~isNone(machine') BY <1>1, <2>3 DEF Concludes
  <2>6. ASSUME NEW c \in Columns
        PROVE  \/ row'[c] = ColumnOf(machine', c) \/ Owed(c)'
               \/ c = "answered_by_user_id" /\ Handing'
    <3>1. \/ ColumnOf(machine', c) = ColumnOf(machine, c)
          \/ \E e \in Unrun' : e.kind = "mirror" /\ c \in DOMAIN e.set
      BY <1>1, <2>2 DEF Tells, Columns
    <3>2. \/ row[c] = ColumnOf(machine, c) \/ c \in DOMAIN pending.set
          \/ c = "answered_by_user_id" /\ Handing
      BY <1>2, <2>1 DEF Agree, Owed
    <3>3. Handing /\ c = "answered_by_user_id" => HandsOver' \/ Owed(c)'
      <4>1. CASE HandsOver BY <1>1, <4>1 DEF HandsOver
      <4>2. CASE \E e \in Coming : e.type = "set-owner"
        <5>1. journal.event.type = "set-owner" BY <4>2, OwnerComesFirst DEF CallInv
        <5> QED BY <1>1, <2>4, <5>1 DEF Owed
      <4> QED BY <4>1, <4>2 DEF Handing
    <3> QED BY <1>1, <3>1, <3>2, <3>3 DEF Owed, Handing
  <2> QED BY <2>5, <2>6 DEF Agree
<1>4. CASE isNone(machine)
  <2>1. ~isNone(machine') BY <1>1, <1>4 DEF AgreeInv, Agree
  <2>2. \/ Mints(r) /\ journal.event.type \in Initiations
        \/ r = NoEffect(machine)
    BY <1>1, <1>4, MintKinds DEF Initiations
  <2>3. Mints(r) /\ journal.event.type \in Initiations
    <3>1. r # NoEffect(machine) BY <1>1, <1>4, <2>1 DEF NoEffect, Result
    <3> QED BY <2>2, <3>1
  <2>4. row.answered_by_user_id = NoUser /\ ~row.answered_at
    BY <1>4, <2>3 DEF CallInv, OutcomeInv, EmptyInv, Initiating, Reduces, AnswerInv, StampInv
  <2> HIDE DEF r
  <2>5. PICK e \in Eff(r.fx) :
          /\ e.kind = "mirror" /\ "state" \in DOMAIN e.set
          /\ r.m.direction = "outbound" => "answered_by_user_id" \in DOMAIN e.set
    BY <2>3, MintConcludes
  <2>6. /\ ~r.m.answered /\ r.m.direction = "inbound" => r.m.owner = NoUser
        /\ r.m.direction \in {"inbound", "outbound"}
    <3>1. MachineOK(r.m) BY <1>1, ReduceTyped DEF r
    <3> QED BY <2>3, <3>1 DEF Mints, MachineOK, SessionMachine
  <2>7. ~r.m.answered BY <2>3 DEF Mints
  <2>8. Owed("state")' BY <1>1, <2>5 DEF Owed
  <2>9. row'.answered_at = machine'.answered
    <3>1. row.answered_at \in BOOLEAN /\ r.m.answered \in BOOLEAN
      <4>1. MachineOK(r.m) BY <1>1, ReduceTyped DEF r
      <4> QED BY <4>1 DEF CallInv, TypeOK, Row, MachineOK, SessionMachine
    <3> QED BY <1>1, <2>4, <2>7, <3>1
  <2>10. row'.answered_by_user_id = machine'.owner \/ Owed("answered_by_user_id")'
    BY <1>1, <2>4, <2>5, <2>6, <2>7 DEF Owed
  <2> QED BY <2>1, <2>8, <2>9, <2>10, ColumnsAre DEF Agree, Columns
<1> QED BY <1>3, <1>4


\* An effect is run.
LEMMA AgreeExecutes ==
  ASSUME CallInv, AgreeInv, Executes, hist'.minted PROVE Agree'
<1>1. machine' = machine /\ consult' = consult /\ Agree
  BY PipesKeep DEF Executes, AgreeInv, CallInv
<1>2. Handing => HandsOver'
  <2>1. ~ \E e \in Coming : e.type = "set-owner" BY OwnerComesFirst DEF Executes, CallInv
  <2> QED BY <1>1, <2>1 DEF Handing, HandsOver
<1>3. \A e \in Unrun : e = Effect \/ e \in Unrun' BY DEF Executes, Passes
<1>4. CASE MirrorRuns
  <2>1. pending' = pending BY <1>4 DEF MirrorRuns
  <2>2. \A c \in Columns :
          row'[c] = IF c \in DOMAIN Effect.set THEN ColumnOf(machine, c) ELSE row[c]
    BY <1>1, <1>4, WriteTakes, TakesEach DEF Agree
  <2> QED BY <1>1, <1>2, <1>3, <2>1, <2>2 DEF Agree, Owed, Handing
<1>5. CASE MirrorFails
  <2> DEFINE set == Written(Effect.set, pending.set)
  <2>1. DOMAIN set = DOMAIN Effect.set \cup DOMAIN pending.set BY DEF Written
  <2>2. pending'.set = set BY <1>5 DEF MirrorFails
  <2> HIDE DEF set
  <2>3. DOMAIN pending'.set = DOMAIN Effect.set \cup DOMAIN pending.set BY <2>1, <2>2
  <2>4. row \in Row BY DEF CallInv, TypeOK
  <2>5. \A c \in Columns : row'[c] = row[c]
    BY <1>5, <2>4, fillKeeps DEF MirrorFails, Columns
  <2> QED BY <1>1, <1>2, <1>3, <2>3, <2>5 DEF Agree, Owed, Handing
<1>6. CASE (Effect.kind = "terminal-merge" /\ Merges(Effect.outcome)) \/ Pipes \/ RunsAside
  <2>1. Effect.kind # "mirror" /\ pending' = pending BY <1>6 DEF Merges, Pipes, RunsAside
  <2>2. row \in Row /\ TypeOK BY DEF CallInv, TypeOK
  <2>3. \A c \in Columns : row'[c] = row[c]
    <3>1. CASE Merges(Effect.outcome)
      <4>1. Effect.outcome \in Outcome BY <3>1 DEF Merges, Ending, Outcome
      <4>2. row' = row \/ row' = upsertOutcome(row, Effect.outcome) BY <3>1 DEF Merges
      <4> QED BY <2>2, <4>1, <4>2, upsertKeeps DEF Columns
    <3>2. CASE Pipes BY <2>2, <3>2, PipesKeep DEF Columns
    <3>3. CASE RunsAside BY <3>3 DEF RunsAside
    <3> QED BY <1>6, <3>1, <3>2, <3>3
  <2> QED BY <1>1, <1>2, <1>3, <2>1, <2>3 DEF Agree, Owed, Handing
<1> QED BY <1>4, <1>5, <1>6 DEF Executes

\* A write is tried again; with the failures that are left it is not given up.
LEMMA AgreeRetries ==
  ASSUME Budget["mirrorFail"] < MaxMirrorAttempts,
         CallInv, AgreeInv, RetryMirrorLands \/ RetryMirrorFails, hist'.minted
  PROVE  Agree'
<1>1. UNCHANGED << machine, journal, consult >> /\ Agree
  BY DEF RetryMirrorLands, RetryMirrorFails, AgreeInv
<1>2. Unrun' = Unrun /\ (Handing' <=> Handing) BY <1>1 DEF Unrun, Handing, HandsOver, Coming
<1>3. CASE RetryMirrorLands
  <2>1. \A c \in Columns :
          row'[c] = IF c \in DOMAIN pending.set THEN ColumnOf(machine, c) ELSE row[c]
    BY <1>1, <1>3, WriteTakes, TakesEach DEF Agree
  <2> QED BY <1>1, <1>2, <2>1 DEF Agree, Owed
<1>4. CASE RetryMirrorFails
  <2>1. row \in Row BY DEF CallInv, TypeOK
  <2>2. IsColumns(Pinned(pending.set)) BY <1>1, PinnedIs DEF CallInv, Agree
  <2>3. \A c \in Columns : row'[c] = row[c]
    <3>1. row' = row \/ row' = fillOutcome(row, Pinned(pending.set))
      BY <1>4 DEF RetryMirrorFails
    <3> QED BY <2>1, <2>2, <3>1, fillKeeps DEF Columns
  <2>4. ~(pending.attempts + 1 >= MaxMirrorAttempts)
    <3>1. /\ spent["mirrorFail"] < Budget["mirrorFail"] /\ pending.attempts <= spent["mirrorFail"]
      BY <1>4 DEF RetryMirrorFails, Spend, AgreeInv
    <3>2. /\ spent["mirrorFail"] \in Nat /\ Budget["mirrorFail"] \in Nat /\ pending.attempts \in Nat
          /\ MaxMirrorAttempts \in Nat
      BY BudgetAssumption, MirrorAssumption DEF CallInv, TypeOK, BudgetKind
    <3> QED BY <3>1, <3>2
  <2>5. pending'.set = Pinned(pending.set) BY <1>4, <2>4 DEF RetryMirrorFails
  <2>6. DOMAIN pending'.set = DOMAIN pending.set BY <2>5 DEF Pinned
  <2> QED BY <1>1, <1>2, <2>3, <2>6 DEF Agree, Owed
<1> QED BY <1>3, <1>4

\* The other steps leave the session as it is, and nothing unrun.
LEMMA AgreeOthers ==
  ASSUME CallInv, AgreeInv, [Next]_vars, Forms, ~Reduces, ~Executes, ~RetryMirrorLands,
         ~RetryMirrorFails, hist'.minted
  PROVE  Agree'
<1>1. ~Purge BY DEF Purge, CallInv, TypeOK
<1>2. hist.minted
  <2>1. hist \in [ended : BOOLEAN, minted : BOOLEAN, unkept : BOOLEAN, forgot : BOOLEAN]
    BY DEF CallInv, TypeOK
  <2> QED BY <1>1, <2>1 DEF Forms, Aside, Claims, OpensCall, Adopts, Adopt, TellsSession,
        SetsRowOwner, ClearsSlot
<1>3. Agree /\ row.exists BY <1>2 DEF AgreeInv, Agree, CallInv, CallFirst
<1>4. machine' = machine /\ pending' = pending
  BY <1>1, <1>3 DEF Agree, Forms, Aside, durable, Claims, OpensCall, Adopts, Adopt, Adopted,
     TellsSession, SetsRowOwner, ClearsSlot
<1>5. \A c \in Columns : \/ row'[c] = row[c]
                         \/ c = "answered_by_user_id" /\ HandsOver'
  <2>1. CASE SetsRowOwner BY <2>1 DEF SetsRowOwner, HandsOver, Columns, CallInv, TypeOK, Row
  <2>2. CASE ~SetsRowOwner
    BY <1>1, <1>3, <2>2 DEF Forms, Aside, Claims, OpensCall, Adopts, TellsSession, ClearsSlot
  <2> QED BY <2>1, <2>2
<1>6. journal' = journal \/ \E ev \in Event : Admit(ev)
  BY <1>1 DEF Forms, Aside, durable, Claims, OpensCall, Adopts, TellsSession, SetsRowOwner,
     ClearsSlot
<1>7. Unrun' = Unrun
  <2>1. CASE journal' = journal BY <2>1 DEF Unrun
  <2>2. CASE \E ev \in Event : Admit(ev)
    BY <2>2, AdmitMakes, IdleRunsNothing DEF CallInv, CallFirst
  <2> QED BY <1>6, <2>1, <2>2
<1>8. Handing => Handing'
  <2>1. CASE HandsOver
    <3>1. HandsOver' \/ \E ev \in Event : ev.type = "set-owner" /\ Admit(ev)
      BY <1>3, <2>1, HandsOn DEF Agree, CallInv
    <3> QED BY <3>1, AdmitComes DEF Handing
  <2>2. CASE \E e \in Coming : e.type = "set-owner"
    <3>1. journal.open BY <2>2, OwnerComesFirst DEF CallInv
    <3>2. journal' = journal BY <1>6, <3>1 DEF Admit, Drained
    <3> QED BY <2>2, <3>2 DEF Handing, Coming
  <2> QED BY <2>1, <2>2 DEF Handing
<1> QED BY <1>3, <1>4, <1>5, <1>7, <1>8 DEF Agree, Owed, Handing

\* AgreeInv is inductive as long as the retries outlast the failures.
LEMMA AgreeStep ==
  ASSUME Budget["mirrorFail"] < MaxMirrorAttempts,
         CallInv, DirInv, AnswerInv, AgreeInv, [Next]_vars
  PROVE  AgreeInv'
<1>1. Forms BY NextForms DEF CallInv
<1>2. hist'.minted => Agree'
  BY <1>1, AgreeReduces, AgreeExecutes, AgreeRetries, AgreeOthers
<1> QED BY <1>2, AttemptsStay DEF AgreeInv

\* RowAgreesHolds: when fewer writes fail than the shell tries again, a row to
\* which nothing is owed says what the session minted here says: RowAgrees of
\* CallProperties.
THEOREM RowAgreesHolds ==
  ASSUME Budget["mirrorFail"] < MaxMirrorAttempts PROVE Spec => []RowAgrees
<1>1. Init => AgreeInv
  <2>1. /\ Budget["mirrorFail"] \in Nat /\ "mirrorFail" \in BudgetKind
    BY BudgetAssumption DEF BudgetKind
  <2> QED BY <2>1 DEF Init, AgreeInv, NoPending
<1>2. CallInv /\ DirInv /\ (Remembered => AnswerInv) /\ (Remembered => AgreeInv) /\ [Next]_vars
        => (Remembered => AgreeInv)'
  BY AgreeStep, RememberedBefore DEF CallInv
<1>3. CallInv /\ (Remembered => AgreeInv) => RowAgrees
  <2>1. SUFFICES ASSUME CallInv, Remembered => AgreeInv, Minted, pending = NoPending,
                        consult = NoConsult
                 PROVE  /\ row.state = machine.state /\ row.answered_by_user_id = machine.owner
                        /\ row.answered_at = machine.answered
    BY DEF RowAgrees
  <2>2. Agree /\ journal = NoJournal
    BY <2>1 DEF Minted, FirstSession, Remembered, Resting, Drained, AgreeInv, CallInv, CallFirst
  <2>3. Coming = {} /\ Unrun = {} BY <2>2 DEF NoJournal, Coming, Ran, Unrun, Eff
  <2>4. DOMAIN pending.set = {} /\ ~HandsOver
    BY <2>1 DEF NoPending, NoColumns, HandsOver, NoConsult
  <2> QED BY <2>2, <2>3, <2>4, ColumnsAre DEF Agree, Columns, Owed, Handing
<1> QED BY <1>1, <1>2, <1>3, AnswerHolds, PTL DEF Spec


(***************************************************************************)
(* VoicemailKept.  A recording is made only on a line that voicemail has   *)
(* taken, which the tag of its hangup tells; from then on nothing ends the *)
(* call as answered, so that the recording is always taken in.             *)
(***************************************************************************)
MediaTypes == {"speak-ended", "recording-saved"}

TagSaid(w) ==
  /\ w.type = "inbound-hangup" => w.tag = customer.tag /\ (w.merged = "answered" => w.tag = "bri")
  /\ w.type \in MediaTypes => customer.tag = "vmi"

\* Nothing was played or recorded on a line that had no session yet.
BlankInv ==
  isNone(machine) /\ ~Settled
    => customer.media = "none" /\ \A w \in net : w.type \notin MediaTypes

TagInv ==
  /\ customer.leg = "ringing" => customer.tag = "untagged"
  /\ customer.media # "none" => customer.leg = "live" /\ customer.tag = "vmi"
  /\ \A w \in net : TagSaid(w)
  /\ \A e \in Coming : TagSaid(e)
  /\ machine.state = "voicemail_recording" => customer.tag = "vmi"
  /\ machine.state \in {"voicemail_greeting", "voicemail_recording"} => machine.direction = "inbound"
  /\ RecordStart \in Unrun => machine.state = "voicemail_recording"
  /\ BlankInv

\* The tag of a line changes only while it can still be hung up.
LEMMA TagMoves ==
  ASSUME TypeOK, TagInv, GoneInv, Lines
  PROVE  /\ customer'.tag = "vmi" \/ customer'.tag = customer.tag \/ customer.leg = "ringing"
         /\ customer.tag = "vmi" => customer'.tag = "vmi"
         /\ Gone => customer'.tag = customer.tag
         /\ customer'.leg = "ringing" => customer'.tag = "untagged"
  BY DEF Lines, LineStays, SameLine, LineFalls, LineRefused, LineAnswered, MediaStarts, MediaStops,
     TagInv, Gone, Up

\* What the feed says of the tag.
LEMMA TagInNet ==
  ASSUME TypeOK, TagInv, GoneInv, Lines PROVE \A w \in net' : TagSaid(w)'
<1>1. SUFFICES ASSUME NEW w \in net' PROVE TagSaid(w)' OBVIOUS
<1>2. ASSUME TagSaid(w), w.type = "inbound-hangup" => Gone PROVE TagSaid(w)'
  BY <1>2, TagMoves DEF TagSaid
<1>3. CASE w \in net
  <2>1. w.type = "inbound-hangup" => Gone BY <1>3 DEF GoneInv, GoneSaid
  <2> QED BY <1>2, <1>3, <2>1 DEF TagInv
<1>4. CASE LegHook(w) \/ w.type = "outbound-answered"
  BY <1>4 DEF LegHook, TagSaid, MediaTypes
<1>5. CASE w \in MediaHook /\ w \notin net
  <2>1. customer.tag = "vmi" /\ w.type \in MediaTypes
    BY <1>5 DEF MediaHook, TagInv, MediaTypes
  <2> QED BY <2>1, TagMoves DEF TagSaid, MediaTypes
<1>6. CASE w = CustomerHangup /\ w \notin net
  <2>1. LineFalls \/ LineRefused
    <3>1. ~LegHook(w) /\ w.type # "outbound-answered" /\ w \notin MediaHook
      BY <1>6 DEF LegHook, CustomerHangup, MediaHook
    <3> QED BY <1>6, <3>1 DEF Lines, LineStays, LineAnswered, MediaStarts, MediaStops
  <2>2. customer'.tag = customer.tag BY <2>1 DEF LineFalls, LineRefused
  <2>3. TagSaid(w) BY <1>6 DEF CustomerHangup, TagSaid, MediaTypes, TypeOK, Customer
  <2> QED BY <2>2, <2>3 DEF TagSaid
<1> QED BY <1>3, <1>4, <1>5, <1>6
        DEF Lines, LineStays, LineFalls, LineRefused, LineAnswered, MediaStarts, MediaStops

\* What the journal says of it.
LEMMA TagInJournal ==
  ASSUME TypeOK, TagInv, GoneInv, Lines, Joins PROVE \A e \in Coming' : TagSaid(e)'
<1>1. \A e \in FollowUp \cup Asked \cup Mint : e.type # "inbound-hangup" /\ e.type \notin MediaTypes
  BY DEF FollowUp, Asked, Mint, MediaTypes
<1>2. \A e : e.type # "inbound-hangup" /\ e.type \notin MediaTypes => TagSaid(e)'
  BY DEF TagSaid
<1>3. \A e : TagSaid(e) /\ (GoneSaid(e) => Gone) => TagSaid(e)'
  BY TagMoves DEF TagSaid, GoneSaid
<1>4. \A e \in net \cup Coming : TagSaid(e)' BY <1>3 DEF TagInv, GoneInv
<1> QED BY <1>1, <1>2, <1>4 DEF Joins, Reports


\* Nothing is played on a line without a session.
LEMMA BlankStep == ASSUME CallInv, TagInv, [Next]_vars, Remembered', Lines PROVE BlankInv'
<1>1. SUFFICES ASSUME isNone(machine'), ~Settled'
               PROVE  customer'.media = "none" /\ \A w \in net' : w.type \notin MediaTypes
  BY DEF BlankInv
<1>2. isNone(machine) /\ ~Settled BY <1>1, NoneStays
<1>3. customer.media = "none" /\ \A w \in net : w.type \notin MediaTypes
  BY <1>2 DEF TagInv, BlankInv
<1>4. ~MediaStarts
  <2>1. Unrun = {}
    BY <1>2, IdleRunsNothing DEF CallInv, CallFirst, OutcomeInv, EmptyInv, Initiating
  <2> QED BY <2>1 DEF MediaStarts
<1>5. MediaHook = {} BY <1>3 DEF MediaHook
<1>6. CustomerHangup.type \notin MediaTypes BY DEF CustomerHangup, MediaTypes
<1>7. \A w : LegHook(w) \/ w.type = "outbound-answered" => w.type \notin MediaTypes
  BY DEF LegHook, MediaTypes
<1> QED BY <1>3, <1>4, <1>5, <1>6, <1>7
        DEF Lines, LineStays, SameLine, LineFalls, LineRefused, LineAnswered, MediaStops

\* Only an inbound call goes to voicemail, and it records only after it spoke.
LEMMA KindsRecord ==
  ASSUME NEW m, NEW ev, NEW r, Kinds(m, ev, r), Tidy(m)
  PROVE  /\ r.m.state = "voicemail_recording"
              => m.state = "voicemail_recording" \/ ev.type = "speak-ended"
         /\ r.m.state \in {"voicemail_greeting", "voicemail_recording"}
              => /\ r.m.direction = m.direction
                 /\ \/ m.direction = "inbound"
                    \/ m.state \in {"voicemail_greeting", "voicemail_recording"}
<1>1. CASE Quiet(m, r) \/ Dials(m, r) \/ Intends(m, ev, r) \/ SetsOwner(m, ev, r) \/ NoticeFails(m, r)
  BY <1>1 DEF Quiet, Dials, Intends, SetsOwner, NoticeFails, SameCore, SameSide, Tidy
<1>2. CASE Diverts(m, r) \/ Records(m, ev, r) BY <1>2 DEF Diverts, Records, SameSide, Tidy
<1>3. CASE Answers(m, ev, r) \/ PicksUp(m, r) \/ Saves(m, ev, r) \/ Upgrades(m, ev, r)
  BY <1>3 DEF Answers, PicksUp, Saves, Upgrades
<1>4. CASE Ends(m, ev, r) BY <1>4 DEF Ends, TerminalStates
<1> QED BY <1>1, <1>2, <1>3, <1>4 DEF Kinds, DialsNobody

\* What a session in voicemail says of its line.
LEMMA VoicemailTag ==
  ASSUME CallInv, AnswerInv, TagInv, GoneInv, Forms, Lines
  PROVE  /\ machine'.state = "voicemail_recording" => customer'.tag = "vmi"
         /\ machine'.state \in {"voicemail_greeting", "voicemail_recording"}
              => machine'.direction = "inbound"
         /\ RecordStart \in Unrun' => machine'.state = "voicemail_recording"
<1>1. TypeOK /\ (customer.tag = "vmi" => customer'.tag = "vmi") BY TagMoves DEF CallInv
<1>2. CASE Reduces
  <2> DEFINE r == reduce(machine, journal.event)
  <2>1. /\ machine' = r.m /\ journal.event \in Event /\ MachineOK(machine) /\ Unrun' = Eff(r.fx)
        /\ journal.event \in Coming
    BY <1>2 DEF Reduces, CallInv, TypeOK, Coming
  <2>2. CASE isNone(machine)
    <3>1. Mints(r) \/ r = NoEffect(machine) BY <2>1, <2>2, MintKinds
    <3>2. CASE Mints(r)
      <4>1. r.m.direction \in {"inbound", "outbound"}
        <5>1. MachineOK(r.m) BY <2>1, ReduceTyped
        <5> QED BY <5>1 DEF MachineOK, SessionMachine
      <4> HIDE DEF r
      <4>2. RecordStart \notin Eff(r.fx) BY <3>2, MintConcludes
      <4> QED BY <2>1, <3>2, <4>1, <4>2 DEF Mints
    <3>3. CASE r = NoEffect(machine)
      <4>1. r.m = machine /\ Eff(r.fx) = {} BY <3>3 DEF NoEffect, Result, Eff
      <4> QED BY <2>1, <2>2, <4>1 DEF isNone
    <3> QED BY <3>1, <3>2, <3>3
  <2>3. CASE ~isNone(machine)
    <3>1. Kinds(machine, journal.event, r) /\ Concludes(machine, journal.event, r)
      BY <2>1, <2>3, ReduceKinds, ReduceConcludes
    <3> HIDE DEF r
    <3>2. Tidy(machine) BY DEF AnswerInv
    <3>3. journal.event.type = "speak-ended" => customer.tag = "vmi"
      BY <2>1 DEF TagInv, TagSaid, MediaTypes
    <3> QED BY <1>1, <2>1, <3>1, <3>2, <3>3, KindsRecord DEF Concludes, TagInv
  <2> QED BY <2>2, <2>3
<1>3. CASE ~Reduces
  <2>1. RecordStart \in Unrun' => machine' = machine /\ RecordStart \in Unrun
    BY <1>3, UnrunStays DEF CallInv
  <2>2. CASE machine' = machine BY <1>1, <2>1, <2>2 DEF TagInv
  <2>3. CASE Purge /\ machine' = NoMachine
    BY <2>1, <2>3 DEF NoMachine, TagInv
  <2>4. CASE Adopts /\ machine' # machine
    <3>1. PICK w : /\ machine' = reconstructMachine(w)
                   /\ w \in net \/ w = NoWebhook
      BY <2>4 DEF Adopts, Adopt, Adopted
    <3>2. machine'.state = reconstructedState(w) /\ machine'.direction = row.direction
      BY <3>1 DEF reconstructMachine, NoMachine
    <3>3. w.type = "recording-saved" \/ IsHangup(w, "vmi") => customer.tag = "vmi"
      BY <3>1 DEF TagInv, TagSaid, NoWebhook, MediaTypes, IsHangup
    <3>4. row.direction \in {"inbound", "outbound"} BY DEF CallInv, TypeOK, Row
    <3>5. machine'.state = "voicemail_recording" => w.type = "recording-saved" \/ IsHangup(w, "vmi")
      BY <3>2 DEF reconstructedState, endedAs
    <3>6. machine'.state \in {"voicemail_greeting", "voicemail_recording"} => row.direction # "outbound"
      BY <3>2 DEF reconstructedState, endedAs
    <3> QED BY <1>1, <2>1, <2>4, <3>2, <3>3, <3>4, <3>5, <3>6
  <2>5. Purge => machine' = machine \/ machine' = NoMachine BY DEF Purge
  <2> QED BY <1>3, <2>2, <2>3, <2>4, <2>5, MachineStays
<1> QED BY <1>2, <1>3

\* TagInv is inductive.
LEMMA TagStep ==
  ASSUME CallInv, AnswerInv, GoneInv, TagInv, [Next]_vars, Remembered' PROVE TagInv'
<1>1. Forms /\ Lines /\ Joins /\ TypeOK BY NextForms, NextLines, NextJoins DEF CallInv
<1>2. customer'.leg = "ringing" => customer'.tag = "untagged" BY <1>1, TagMoves
<1>3. customer'.media # "none" => customer'.leg = "live" /\ customer'.tag = "vmi"
  <2>1. LineRefused => customer.media = "none"
    BY <1>1 DEF LineRefused, TagInv, BlankInv, CallInv, CallFirst, NoRow, Settled
  <2>2. MediaStarts => customer'.tag = "vmi"
    BY DEF MediaStarts, TagInv
  <2> QED BY <1>1, <2>1, <2>2 DEF Lines, LineStays, SameLine, LineFalls, LineRefused, LineAnswered,
        MediaStarts, MediaStops, TagInv
<1> QED BY <1>1, <1>2, <1>3, TagInNet, TagInJournal, BlankStep, VoicemailTag DEF TagInv


\* A recording is running or on its way in.
Rec      == [type |-> "recording-saved"]
Recorded == customer.media = "recording" \/ Rec \in net

Recordable == {"none", "voicemail_recording", "ended_missed", "ended_voicemail"}

Owes == \E e \in Unrun : e.kind = "voicemail-pipeline"

\* The call can still become a voicemail, and nothing in the journal forbids it.
Takeable ==
  /\ machine.state \in Recordable /\ customer.direction = "inbound" /\ row.outcome # "answered"
  /\ \A e \in Unrun : e.kind = "terminal-merge" => e.outcome # "answered"

\* A recording of this call is in our storage, or could not be kept, or is still
\* to be taken in.
Handled == row.voicemail_path \/ hist.unkept \/ Owes

TakenIn ==
  \/ Handled
  \/ /\ journal.open /\ ~journal.reduced /\ journal.event = Rec
     /\ machine.state \in {"voicemail_recording", "ended_missed"}

KeepInv ==
  /\ Recorded => Takeable
  /\ row.voicemail_path => row.outcome = "voicemail" \/ Owes
  /\ machine.state = "ended_voicemail" \/ row.outcome = "voicemail" => Handled
  /\ Rec \in seen => TakenIn

\* Outside the reducer and the cursor the effects that are left stay.
LEMMA UnrunKept ==
  ASSUME CallInv, Forms, ~Reduces, ~Executes
  PROVE  Unrun' = Unrun /\ (journal.open => journal' = journal)
<1>1. journal' = journal \/ \E ev \in Event : Admit(ev)
  BY DEF Forms, Aside, durable, Claims, OpensCall, Adopts, TellsSession, SetsRowOwner,
     ClearsSlot, RetryMirrorLands, RetryMirrorFails, Purge
<1>2. CASE journal' = journal BY <1>2 DEF Unrun
<1>3. CASE \E ev \in Event : Admit(ev)
  BY <1>3, AdmitMakes, IdleRunsNothing DEF CallInv, CallFirst
<1> QED BY <1>1, <1>2, <1>3

\* While effects are left, only the cursor moves.
LEMMA UnrunHolds == ASSUME CallInv, Forms, Unrun # {} PROVE ~Reduces /\ machine' = machine
<1>1. journal.open /\ journal.reduced BY IdleRunsNothing DEF CallInv, CallFirst
<1>2. ~Reduces /\ ~Adopts /\ ~Purge BY <1>1 DEF Reduces, Adopts, Admit, Purge, Due, Drained
<1> QED BY <1>2, MachineStays

\* Which outcomes the row is given.
LEMMA OutcomeGiven ==
  ASSUME CallInv, Forms
  PROVE  /\ row'.outcome = "answered"
              => \/ row.outcome = "answered" \/ machine.state = "ended_answered"
                 \/ Executes /\ Effect.kind = "terminal-merge" /\ Effect.outcome = "answered"
         /\ row.outcome = "voicemail" => row'.outcome = "voicemail"
         /\ row'.outcome = "voicemail"
              => \/ row.outcome = "voicemail" \/ machine.state = "ended_voicemail"
                 \/ Executes /\ Pipes
<1>1. row \in Row /\ TypeOK BY DEF CallInv, TypeOK
<1>2. CASE Executes
  <2>1. ~isNone(machine) /\ OutcomeMoves(row, row') /\ Effect \in Unrun /\ row.exists
    BY <1>2, RowWrites DEF CallInv, Executes, Passes
  <2>2. row.outcome = "voicemail" => row'.outcome = "voicemail" BY <2>1 DEF OutcomeMoves
  <2>3. CASE MirrorRuns \/ MirrorFails
    <3>1. /\ IsColumns(Effect.set)
          /\ "state" \in DOMAIN Effect.set => Effect.set["state"] = machine.state
      BY <2>1, <2>3, ColumnsAre DEF MirrorRuns, MirrorFails, CallInv, OutcomeInv, UnrunInv, Says
    <3>2. row'.outcome = row.outcome \/ row'.outcome = outcomeForState(machine.state)
      <4>1. CASE MirrorRuns BY <1>1, <3>1, <4>1, mirrorKeeps DEF MirrorRuns
      <4>2. CASE MirrorFails BY <1>1, <3>1, <4>2, fillKeeps DEF MirrorFails
      <4> QED BY <2>3, <4>1, <4>2
    <3> QED BY <2>2, <3>2 DEF outcomeForState
  <2>4. CASE Effect.kind = "terminal-merge" /\ Merges(Effect.outcome)
    <3>1. /\ Effect.outcome \in Outcome /\ Effect.outcome # "voicemail"
          /\ row' = upsertOutcome(row, Effect.outcome)
      BY <2>1, <2>4 DEF Merges, Ending, Outcome
    <3>2. row'.outcome = Effect.outcome \/ row'.outcome = row.outcome
      BY <1>1, <3>1, upsertKeeps
    <3> QED BY <1>2, <2>2, <2>4, <3>1, <3>2
  <2>5. CASE Pipes
    <3>1. row'.outcome = row.outcome \/ row'.outcome = "voicemail" BY <1>1, <2>5, PipesKeep
    <3> QED BY <1>2, <2>2, <2>5, <3>1
  <2>6. CASE RunsAside BY <2>6 DEF RunsAside
  <2> QED BY <1>2, <2>3, <2>4, <2>5, <2>6 DEF Executes
<1>3. CASE RetryMirrorLands \/ RetryMirrorFails
  <2> DEFINE set == Pinned(pending.set)
  <2>1. OutcomeMoves(row, row') /\ (row' # row => ~isNone(machine) /\ row.exists)
    BY <1>3, RetryWrites DEF CallInv
  <2>2. row.outcome = "voicemail" => row'.outcome = "voicemail" BY <2>1 DEF OutcomeMoves
  <2>3. CASE row' # row
    <3>1. row' = mirror(row, set) \/ row' = fillOutcome(row, set)
      BY <1>3, <2>1, <2>3 DEF RetryMirrorLands, RetryMirrorFails
    <3>2. IsColumns(set) /\ ("state" \in DOMAIN set => set["state"] = machine.state)
      BY <1>1, <2>1, <2>3, PinnedIs
    <3> HIDE DEF set
    <3>3. row'.outcome = row.outcome \/ row'.outcome = outcomeForState(machine.state)
      BY <1>1, <3>1, <3>2, mirrorKeeps, fillKeeps
    <3> QED BY <2>2, <3>3 DEF outcomeForState
  <2> QED BY <2>2, <2>3
<1>4. CASE SetsRowOwner BY <1>1, <1>4 DEF SetsRowOwner, Row
<1>5. CASE Claims \/ OpensCall
  <2>1. row' = row \/ (row' = ClaimedRow /\ ~row.exists) BY <1>5 DEF Claims, OpensCall
  <2>2. ~row.exists => row.outcome = "null" BY DEF CallInv, CallFirst, NoRow
  <2> QED BY <1>1, <2>1, <2>2, ClaimedIs
<1> QED BY <1>2, <1>3, <1>4, <1>5 DEF Forms, Reduces, Aside, Adopts, TellsSession, ClearsSlot, Purge

\* What is recorded was recorded, or starts to be.
LEMMA RecordedBy == ASSUME TypeOK, Lines, Recorded' PROVE Recorded \/ RecordStart \in Unrun
<1>1. ~LegHook(Rec) /\ Rec # CustomerHangup /\ Rec.type # "outbound-answered"
  BY DEF Rec, LegHook, CustomerHangup
<1>2. Rec \in MediaHook => customer.media = "recording" BY DEF Rec, MediaHook
<1> QED BY <1>1, <1>2 DEF Recorded, Lines, LineStays, SameLine, LineFalls, LineRefused, LineAnswered,
        MediaStarts, MediaStops

\* On a line in voicemail no event ends the call as answered.
LEMMA KindsKeep ==
  ASSUME NEW m, NEW ev, NEW r, Kinds(m, ev, r)
  PROVE  /\ r.m.state = "ended_voicemail" => m.state = r.m.state \/ VoicemailPipeline \in Eff(r.fx)
         /\ /\ m.state \in Recordable \ {"none"} /\ ev.type # "outbound-hangup"
            /\ ev.type = "inbound-hangup" => ev.tag # "bri" /\ ev.merged # "answered"
            => /\ r.m.state \in Recordable
               /\ \A e \in Eff(r.fx) : e.kind = "terminal-merge" => e.outcome # "answered"
<1>1. \A e : Bland(e) => e.kind # "terminal-merge" BY NotBland DEF SettleKinds
<1>2. \A set : Mirror(set).kind # "terminal-merge" BY KindsOf
<1>3. CASE Quiet(m, r) \/ NoticeFails(m, r) \/ SetsOwner(m, ev, r)
  BY <1>1, <1>2, <1>3 DEF Quiet, NoticeFails, SetsOwner, SameCore, Writes
<1>4. CASE \/ Intends(m, ev, r) \/ Dials(m, r) \/ Diverts(m, r) \/ Answers(m, ev, r) \/ PicksUp(m, r)
           \/ Records(m, ev, r)
  BY <1>4 DEF Intends, Dials, Diverts, Answers, PicksUp, Records, SameCore, Recordable
<1>5. CASE Saves(m, ev, r)
  <2>1. VoicemailPipeline.kind # "terminal-merge" /\ Arm("purge").kind # "terminal-merge" BY KindsOf
  <2> QED BY <1>1, <1>2, <1>5, <2>1 DEF Saves, Recordable
<1>6. CASE Ends(m, ev, r) \/ Upgrades(m, ev, r)
  <2>1. r.m.state # "ended_voicemail" BY <1>6 DEF Ends, Upgrades
  <2>2. ASSUME m.state \in Recordable \ {"none"}, ev.type # "outbound-hangup",
               ev.type = "inbound-hangup" => ev.tag # "bri" /\ ev.merged # "answered"
        PROVE  /\ r.m.state \in Recordable
               /\ \A e \in Eff(r.fx) : e.kind = "terminal-merge" => e.outcome # "answered"
    <3>1. r.m.state = "ended_missed" /\ \E set, o : EndEffects(m, ev, r, set, o)
      BY <1>6, <2>2 DEF Ends, Upgrades, Recordable, TerminalStates
    <3>2. PICK set, o : EndEffects(m, ev, r, set, o) BY <3>1
    <3>3. o # "answered" BY <2>2, <3>2 DEF EndEffects, Recordable
    <3>4. TerminalMerge(o).outcome = o /\ Arm("purge").kind # "terminal-merge" BY KindsOf
    <3> QED BY <1>1, <1>2, <3>1, <3>2, <3>3, <3>4 DEF EndEffects, Recordable
  <2> QED BY <2>1, <2>2
<1> QED BY <1>3, <1>4, <1>5, <1>6 DEF Kinds, DialsNobody

\* A line begins to be recorded only where voicemail has taken it.
LEMMA BeginsToRecord ==
  ASSUME CallInv, DirInv, TagInv, Remembered, Forms, Lines, RecordStart \in Unrun PROVE Takeable'
<1>1. customer'.direction = customer.direction
  BY DEF Lines, LineStays, SameLine, LineFalls, LineRefused, LineAnswered, MediaStarts, MediaStops
<1>2. machine.state = "voicemail_recording" /\ customer.direction = "inbound"
  BY DEF TagInv, DirInv, isNone
<1>3. ~Over /\ ~isNone(machine) BY <1>2 DEF Over, isTerminal, TerminalStates, isNone
<1>4. ~Settled' BY <1>3, SettledStays DEF CallInv, OutcomeInv, OverInv, Remembered
<1>5. ~Reduces /\ machine' = machine BY UnrunHolds
<1>6. Unrun' \subseteq Unrun BY <1>5, UnrunStays DEF CallInv
<1>7. \A e \in Unrun : e.kind # "terminal-merge"
  BY <1>3 DEF CallInv, OutcomeInv, UnrunInv, SettleKinds
<1> QED BY <1>1, <1>2, <1>4, <1>5, <1>6, <1>7 DEF Takeable, Recordable, Settled

\* What is reduced while a line is recorded leaves the call a voicemail.
LEMMA TakeableReduced ==
  ASSUME CallInv, DirInv, TagInv, KeepInv, Recorded, Reduces
  PROVE  /\ machine'.state \in Recordable
         /\ \A e \in Unrun' : e.kind = "terminal-merge" => e.outcome # "answered"
<1> DEFINE r == reduce(machine, journal.event)
<1>1. /\ machine' = r.m /\ Unrun' = Eff(r.fx) /\ journal.event \in Event /\ MachineOK(machine)
      /\ journal.event \in Coming
  BY DEF Reduces, CallInv, TypeOK, Coming
<1>2. Takeable /\ customer.tag = "vmi"
  <2>1. Rec \in net => customer.tag = "vmi"
    BY DEF TagInv, TagSaid, Rec, MediaTypes
  <2> QED BY <2>1 DEF KeepInv, Recorded, TagInv
<1>3. CASE isNone(machine)
  <2>1. Settled
    BY <1>3 DEF Recorded, TagInv, BlankInv, Rec, MediaTypes
  <2>2. journal.event.type \notin Initiations
    BY <1>3, <2>1 DEF Reduces, CallInv, OutcomeInv, EmptyInv, Initiating
  <2>3. r = NoEffect(machine) BY <1>3, <2>2 DEF reduce, Initiations
  <2>4. r.m = machine /\ Eff(r.fx) = {} BY <2>3 DEF NoEffect, Result, Eff
  <2> QED BY <1>1, <1>2, <2>4 DEF Takeable
<1>4. CASE ~isNone(machine)
  <2>1. Kinds(machine, journal.event, r) BY <1>1, <1>4, ReduceKinds
  <2> HIDE DEF r
  <2>2. RightWay(journal.event) /\ TagSaid(journal.event) BY <1>1 DEF DirInv, TagInv
  <2>3. journal.event.type # "outbound-hangup" BY <1>2, <2>2 DEF RightWay, Takeable
  <2>4. journal.event.type = "inbound-hangup"
          => journal.event.tag # "bri" /\ journal.event.merged # "answered"
    BY <1>2, <2>2 DEF TagSaid
  <2>5. machine.state \in Recordable \ {"none"} BY <1>2, <1>4 DEF Takeable, isNone
  <2> QED BY <1>1, <2>1, <2>3, <2>4, <2>5, KindsKeep
<1> QED BY <1>3, <1>4

\* While a line is recorded the call goes on to be a voicemail.
LEMMA TakeableStays ==
  ASSUME CallInv, DirInv, TagInv, KeepInv, Forms, Lines, Recorded PROVE Takeable'
<1>1. customer'.direction = customer.direction
  BY DEF Lines, LineStays, SameLine, LineFalls, LineRefused, LineAnswered, MediaStarts, MediaStops
<1>2. Takeable BY DEF KeepInv
<1>3. row'.outcome # "answered"
  <2>1. machine.state # "ended_answered" BY <1>2 DEF Takeable, Recordable
  <2>2. Executes /\ Effect.kind = "terminal-merge" => Effect.outcome # "answered"
    BY <1>2 DEF Takeable, Executes, Passes
  <2> QED BY <1>2, <2>1, <2>2, OutcomeGiven DEF Takeable
<1>4. CASE Reduces BY <1>1, <1>2, <1>3, <1>4, TakeableReduced DEF Takeable
<1>5. CASE ~Reduces
  <2>1. \A e \in Unrun' : e.kind = "terminal-merge" => e.outcome # "answered"
    BY <1>2, <1>5, UnrunStays DEF CallInv, Takeable
  <2>2. machine'.state \in Recordable
    <3>1. CASE machine' = machine BY <1>2, <3>1 DEF Takeable
    <3>2. CASE Purge /\ machine' = NoMachine BY <3>2 DEF NoMachine, Recordable
    <3>3. CASE Adopts /\ machine' # machine
      <4>1. isNone(machine) /\ \E w : machine' = reconstructMachine(w)
        BY <3>3 DEF Adopts, Adopt, Adopted
      <4>2. row.outcome # "null"
        BY <4>1 DEF Recorded, TagInv, BlankInv, Rec, MediaTypes, Settled
      <4>3. machine'.state = endedAs(row.outcome)
        BY <4>1, <4>2 DEF reconstructMachine, reconstructedState, NoMachine
      <4> QED BY <1>2, <4>3 DEF endedAs, Recordable, Takeable
    <3>4. Purge => machine' = machine \/ machine' = NoMachine BY DEF Purge
    <3> QED BY <1>5, <3>1, <3>2, <3>3, <3>4, MachineStays
  <2> QED BY <1>1, <1>2, <1>3, <2>1, <2>2 DEF Takeable
<1> QED BY <1>4, <1>5

\* What is in our storage stays there; only the pipeline adds to it.
LEMMA PathStays ==
  ASSUME CallInv, Forms
  PROVE  /\ row.voicemail_path => row'.voicemail_path
         /\ row'.voicemail_path => row.voicemail_path \/ (Executes /\ Pipes)
         /\ hist.unkept => hist'.unkept
<1>1. row \in Row /\ TypeOK BY DEF CallInv, TypeOK
<1>2. CASE Executes
  <2>1. CASE Pipes BY <1>1, <1>2, <2>1, PipesKeep
  <2>2. CASE MirrorRuns BY <1>1, <1>2, <2>2, mirrorKeeps DEF MirrorRuns, Executes, Pipes
  <2>3. CASE MirrorFails BY <1>1, <1>2, <2>3, fillKeeps DEF MirrorFails, Executes, Pipes
  <2>4. CASE Effect.kind = "terminal-merge" /\ Merges(Effect.outcome)
    <3>1. Effect.outcome \in Outcome BY <2>4 DEF Merges, Ending, Outcome
    <3> QED BY <1>1, <1>2, <2>4, <3>1, upsertKeeps DEF Merges, Executes, Pipes
  <2>5. CASE RunsAside BY <1>2, <2>5 DEF RunsAside, Executes, Pipes, SettleKinds
  <2> QED BY <1>2, <2>1, <2>2, <2>3, <2>4, <2>5 DEF Executes
<1>3. CASE RetryMirrorLands \/ RetryMirrorFails
  <2> DEFINE set == Pinned(pending.set)
  <2>1. UNCHANGED hist /\ (row' # row => ~isNone(machine))
    BY <1>3, RetryWrites DEF CallInv
  <2>2. CASE row' # row
    <3>1. row' = mirror(row, set) \/ row' = fillOutcome(row, set)
      BY <1>3, <2>1, <2>2 DEF RetryMirrorLands, RetryMirrorFails
    <3>2. IsColumns(set) BY <1>1, <2>1, <2>2, PinnedIs
    <3> HIDE DEF set
    <3> QED BY <1>1, <2>1, <3>1, <3>2, mirrorKeeps, fillKeeps
  <2> QED BY <2>1, <2>2
<1>4. CASE SetsRowOwner BY <1>1, <1>4 DEF SetsRowOwner, Row
<1>5. CASE Claims \/ OpensCall
  <2>1. UNCHANGED hist /\ (row' = row \/ (row' = ClaimedRow /\ ~row.exists))
    BY <1>5 DEF Claims, OpensCall
  <2>2. ~ClaimedRow.voicemail_path /\ ~NoRow.voicemail_path BY DEF ClaimedRow, NoRow
  <2> QED BY <2>1, <2>2 DEF CallInv, CallFirst
<1>6. CASE Adopts BY <1>1, <1>6 DEF Adopts, Adopt, TypeOK
<1>7. CASE Purge BY <1>1, <1>7 DEF Purge, TypeOK
<1> QED BY <1>2, <1>3, <1>4, <1>5, <1>6, <1>7
        DEF Forms, Reduces, Aside, TellsSession, ClearsSlot

\* A recording that is still to be taken in stays so until the pipeline is through.
LEMMA OwesOn ==
  ASSUME CallInv, Forms, Owes PROVE Owes' \/ (Executes /\ Pipes /\ ~UNCHANGED journal)
<1>1. PICK e \in Unrun : e.kind = "voicemail-pipeline" BY DEF Owes
<1>2. ~Reduces BY <1>1, UnrunHolds
<1>3. CASE ~Executes BY <1>2, <1>3, UnrunKept DEF Owes
<1>4. CASE Executes
  <2>1. CASE e \in Unrun' BY <1>1, <2>1 DEF Owes
  <2>2. CASE e = Effect
    <3>1. Pipes BY <1>1, <1>4, <2>2 DEF Executes, MirrorRuns, MirrorFails, RunsAside, SettleKinds
    <3>2. UNCHANGED journal => Owes' BY DEF Owes, Unrun
    <3> QED BY <1>4, <3>1, <3>2
  <2> QED BY <1>1, <1>4, <2>1, <2>2 DEF Executes, Passes
<1> QED BY <1>3, <1>4

\* Once it is through, the recording is kept or it is known that it cannot be.
LEMMA HandledStays == ASSUME CallInv, Forms, Handled PROVE Handled'
<1>1. CASE row.voicemail_path \/ hist.unkept BY <1>1, PathStays DEF Handled
<1>2. CASE Owes
  <2>1. CASE Executes /\ Pipes /\ ~UNCHANGED journal
    <3>1. row'.voicemail_path \/ hist' = [hist EXCEPT !.unkept = TRUE]
      BY <2>1, PipesKeep DEF CallInv
    <3> QED BY <3>1 DEF Handled, CallInv, TypeOK
  <2> QED BY <1>2, <2>1, OwesOn DEF Handled
<1> QED BY <1>1, <1>2 DEF Handled

\* A call with a voicemail in our storage says so, or the pipeline is still to run.
LEMMA PathIsTold ==
  ASSUME CallInv, KeepInv, Forms, row'.voicemail_path
  PROVE  row'.outcome = "voicemail" \/ Owes'
<1>1. CASE Executes /\ Pipes
  <2>1. \/ row'.outcome = "voicemail"
        \/ row' = row /\ ~row.voicemail_path
        \/ UNCHANGED journal
    BY <1>1, PipesKeep DEF CallInv
  <2>2. Effect \in Unrun /\ Effect.kind = "voicemail-pipeline"
    BY <1>1 DEF Executes, Passes, Pipes
  <2>3. UNCHANGED journal => Owes' BY <2>2 DEF Owes, Unrun
  <2> QED BY <2>1, <2>3
<1>2. CASE ~(Executes /\ Pipes)
  <2>1. row.outcome = "voicemail" \/ Owes BY <1>2, PathStays DEF KeepInv
  <2> QED BY <1>2, <2>1, OutcomeGiven, OwesOn
<1> QED BY <1>1, <1>2

\* Nothing says voicemail, session or row, before the recording was seen to.
LEMMA VoicemailHandled ==
  ASSUME CallInv, KeepInv, Forms, machine'.state = "ended_voicemail" \/ row'.outcome = "voicemail"
  PROVE  Handled'
<1>1. CASE machine.state = "ended_voicemail" \/ row.outcome = "voicemail"
  BY <1>1, HandledStays DEF KeepInv
<1>2. CASE Executes /\ Pipes
  <2>1. Handled BY <1>2 DEF Handled, Owes, Executes, Passes, Pipes
  <2> QED BY <2>1, HandledStays
<1>3. CASE /\ machine.state # "ended_voicemail" /\ row.outcome # "voicemail"
           /\ ~(Executes /\ Pipes)
  <2>1. machine'.state = "ended_voicemail" BY <1>3, OutcomeGiven
  <2>2. CASE Reduces
    <3> DEFINE r == reduce(machine, journal.event)
    <3>1. machine' = r.m /\ Unrun' = Eff(r.fx) /\ journal.event \in Event /\ MachineOK(machine)
      BY <2>2 DEF Reduces, CallInv, TypeOK
    <3>2. CASE isNone(machine)
      <4>1. Mints(r) \/ r = NoEffect(machine) BY <3>1, <3>2, MintKinds
      <4>2. Mints(r) => r.m.state # "ended_voicemail" BY DEF Mints
      <4>3. r = NoEffect(machine) => r.m = machine BY DEF NoEffect, Result
      <4> QED BY <1>3, <2>1, <3>1, <4>1, <4>2, <4>3
    <3>3. CASE ~isNone(machine)
      <4>1. Kinds(machine, journal.event, r) BY <3>1, <3>3, ReduceKinds
      <4> HIDE DEF r
      <4>2. VoicemailPipeline \in Eff(r.fx) BY <1>3, <2>1, <3>1, <4>1, KindsKeep
      <4> QED BY <3>1, <4>2, KindsOf DEF Owes, Handled
    <3> QED BY <3>2, <3>3
  <2>3. CASE Adopts
    <3>1. isNone(machine) /\ \E w : machine' = reconstructMachine(w)
      BY <1>3, <2>1, <2>3 DEF Adopts, Adopt, Adopted
    <3>2. machine'.state = "ended_voicemail" => row.outcome = "voicemail"
      BY <3>1 DEF reconstructMachine, reconstructedState, endedAs, NoMachine
    <3> QED BY <1>3, <2>1, <3>2
  <2>4. CASE Purge BY <1>3, <2>1, <2>4 DEF Purge, NoMachine
  <2> QED BY <1>3, <2>1, <2>2, <2>3, <2>4, MachineStays
<1> QED BY <1>1, <1>2, <1>3

\* A recording in the journal is saved when it is reduced.
LEMMA SavesRecording ==
  ASSUME CallInv, Reduces, journal.event = Rec,
         machine.state \in {"voicemail_recording", "ended_missed"}
  PROVE  Owes'
<1>1. Unrun' = Eff(reduce(machine, Rec).fx) BY DEF Reduces
<1>2. reduce(machine, Rec) = reduceRecordingSaved(machine)
  BY DEF reduce, handle, isNone, Rec
<1>3. reduce(machine, Rec).fx = << VoicemailPipeline, Mirror([state |-> "ended_voicemail"]) >>
                                  \o When(machine.state = "voicemail_recording", <<Arm("purge")>>)
  BY <1>2 DEF reduceRecordingSaved, Result
<1>4. VoicemailPipeline \in Unrun'
  <2>1. \A fx : VoicemailPipeline \in Eff(<<VoicemailPipeline, Mirror([state |-> "ended_voicemail"])>>
                                            \o When(fx, <<Arm("purge")>>))
    BY DEF Eff, When
  <2> QED BY <1>1, <1>3, <2>1
<1> QED BY <1>4, KindsOf DEF Owes

\* A recording that was admitted is on its way to the row.
LEMMA TakenInStays ==
  ASSUME CallInv, DirInv, TagInv, KeepInv, Forms, Lines, Rec \in seen' PROVE TakenIn'
<1>1. CASE Rec \in seen
  <2>1. TakenIn BY <1>1 DEF KeepInv
  <2>2. CASE Handled BY <2>2, HandledStays DEF TakenIn
  <2>3. CASE /\ journal.open /\ ~journal.reduced /\ journal.event = Rec
             /\ machine.state \in {"voicemail_recording", "ended_missed"}
    <3>1. CASE Reduces BY <2>3, <3>1, SavesRecording DEF TakenIn, Handled
    <3>2. CASE ~Reduces
      <4>1. ~Executes BY <2>3 DEF Executes
      <4>2. journal' = journal BY <2>3, <3>2, <4>1, UnrunKept
      <4>3. ~Adopts /\ ~Purge BY <2>3 DEF Adopts, Admit, Purge, Due, Drained
      <4>4. machine' = machine BY <3>2, <4>3, MachineStays
      <4> QED BY <2>3, <4>2, <4>4 DEF TakenIn
    <3> QED BY <3>1, <3>2
  <2> QED BY <2>1, <2>2, <2>3 DEF TakenIn
<1>2. CASE Rec \notin seen
  <2>1. Rec.type = "recording-saved" BY DEF Rec
  <2>2. Adopts
    <3>1. ~OpensCall BY <1>2, <2>1 DEF OpensCall, Initiations
    <3> QED BY <1>2, <3>1 DEF Forms, Reduces, Executes, Aside, durable, Claims, TellsSession,
          SetsRowOwner, ClearsSlot, RetryMirrorLands, RetryMirrorFails, Purge
  <2>3. Rec \in net /\ Admit(Rec) /\ Adopt(Rec) /\ (~isNone(machine) \/ row.exists)
    BY <1>2, <2>2 DEF Adopts
  <2>4. Takeable' BY <2>3, TakeableStays DEF Recorded
  <2>5. journal'.open /\ ~journal'.reduced /\ journal'.event = Rec BY <2>3, AdmitMakes
  <2>6. machine'.state # "none"
    <3>1. CASE ~isNone(machine) BY <2>3, <3>1 DEF Adopt, Adopted, isNone
    <3>2. CASE isNone(machine)
      <4>1. machine' = reconstructMachine(Rec) BY <2>3, <3>2 DEF Adopt, Adopted
      <4>2. machine'.state = reconstructedState(Rec)
        BY <4>1 DEF reconstructMachine, NoMachine
      <4>3. row.outcome # "null"
        BY <2>3, <3>2 DEF TagInv, BlankInv, Rec, MediaTypes, Settled
      <4> QED BY <4>2, <4>3 DEF reconstructedState, endedAs
    <3> QED BY <3>1, <3>2
  <2>7. machine'.state = "ended_voicemail" => TakenIn'
    BY VoicemailHandled DEF TakenIn
  <2> QED BY <2>4, <2>5, <2>6, <2>7 DEF Takeable, Recordable, TakenIn
<1> QED BY <1>1, <1>2

\* KeepInv is inductive.
LEMMA KeepStep ==
  ASSUME CallInv, DirInv, TagInv, KeepInv, [Next]_vars, Remembered PROVE KeepInv'
<1>1. Forms /\ Lines /\ TypeOK BY NextForms, NextLines DEF CallInv
<1>2. Recorded' => Takeable'
  BY <1>1, RecordedBy, BeginsToRecord, TakeableStays
<1> QED BY <1>1, <1>2, PathIsTold, VoicemailHandled, TakenInStays DEF KeepInv

VoicemailInv == TagInv /\ KeepInv

LEMMA KeepsOn ==
  ASSUME CallInv, DirInv, Remembered => AnswerInv, GoneInv, Remembered => VoicemailInv,
         [Next]_vars, Remembered'
  PROVE  VoicemailInv'
<1>1. Remembered BY RememberedBefore DEF CallInv
<1>2. TagInv' BY <1>1, TagStep DEF VoicemailInv
<1>3. KeepInv' BY <1>1, KeepStep DEF VoicemailInv
<1> QED BY <1>2, <1>3 DEF VoicemailInv

\* KeepHolds: while the call is remembered, from the start of a recording on, the call
\* can only become a voicemail, and neither session nor row says that it is one before
\* the pipeline is to run, has kept the recording or has found nothing to keep.
THEOREM KeepHolds == Spec => [](CallInv /\ DirInv /\ (Remembered => VoicemailInv))
<1>1. Init => VoicemailInv
  <2>1. SUFFICES ASSUME Init PROVE VoicemailInv OBVIOUS
  <2>2. seen = {} /\ machine = NoMachine /\ journal = NoJournal /\ row = NoRow BY <2>1 DEF Init
  <2>3. \A w \in net : w.type \in Initiations BY <2>1 DEF Init, InitialWebhook, Initiations
  <2>4. Unrun = {} /\ Coming = {} BY <2>2 DEF Unrun, Eff, Coming, Ran, NoJournal
  <2>5. customer.media = "none" /\ customer.tag = "untagged" BY <2>1 DEF Init
  <2>6. machine.state = "none" BY <2>2 DEF NoMachine
  <2>7. \A w \in net : TagSaid(w) /\ w.type \notin MediaTypes /\ w # Rec
    BY <2>3 DEF TagSaid, MediaTypes, Initiations, Rec
  <2>8. ~row.voicemail_path /\ row.outcome = "null" BY <2>2 DEF NoRow
  <2> QED BY <2>2, <2>4, <2>5, <2>6, <2>7, <2>8
          DEF VoicemailInv, TagInv, BlankInv, KeepInv, Recorded
<1>2. CallInv /\ DirInv /\ (Remembered => AnswerInv) /\ GoneInv /\ (Remembered => VoicemailInv)
        /\ [Next]_vars => (Remembered => VoicemailInv)'
  BY KeepsOn
<1> QED BY <1>1, <1>2, AnswerHolds, GoneHolds, PTL DEF Spec

\* VoicemailIsKept: at rest, the first session of a call with a voicemail in our
\* storage says so, and one whose recording was admitted has it there unless nothing of
\* it could be kept: VoicemailKept of CallProperties.
THEOREM VoicemailIsKept == Spec => []VoicemailKept
<1>1. CallInv /\ (Remembered => VoicemailInv) => VoicemailKept
  <2>1. SUFFICES ASSUME CallInv, KeepInv, FirstSession
                 PROVE  /\ row.voicemail_path => row.outcome = "voicemail"
                        /\ Rec \in seen => row.voicemail_path \/ hist.unkept
    BY DEF VoicemailKept, Rec, FirstSession, Remembered, VoicemailInv
  <2>2. ~journal.open /\ Unrun = {}
    BY <2>1, IdleRunsNothing DEF FirstSession, Resting, Drained, CallInv, CallFirst
  <2> QED BY <2>1, <2>2 DEF KeepInv, TakenIn, Handled, Owes
<1> QED BY <1>1, KeepHolds, PTL



(***************************************************************************)
(* RingingHasAvenue.  A ringing session that waits for somebody goes on to *)
(* do so until it has dialed the cap: every handler that ends an avenue    *)
(* asks the ladder, which sends the caller to voicemail with the last one. *)
(***************************************************************************)
Waits(m) == m.state = "ringing" => ~NoAvenue(m) \/ m.dialed = MaxLegs

\* Only the state and the avenues matter.
LEMMA WaitsSame ==
  ASSUME NEW m, Waits(m), NEW n, n.state = m.state, n.legs = m.legs, n.queue = m.queue,
         n.push = m.push, n.dialed = m.dialed
  PROVE  Waits(n)
  BY DEF Waits, NoAvenue, liveLegs, LegsWith

\* A leg that comes alive is an avenue, and so is one that is appended.
LEMMA WaitsLives ==
  ASSUME NEW m, MachineOK(m), Waits(m), NEW ls, NEW st \in LIVE_STATUSES
  PROVE  Waits(SetStatus(m, ls, st))
<1> DEFINE legs == [i \in LegId |-> IF i \in ls THEN [m.legs[i] EXCEPT !.status = st] ELSE m.legs[i]]
           n    == SetStatus(m, ls, st)
<1>1. /\ n.legs = legs /\ n.state = m.state /\ n.queue = m.queue /\ n.push = m.push
      /\ n.dialed = m.dialed
  BY DEF SetStatus, MachineOK, SessionMachine
<1>2. m.legs \in [LegId -> Leg] BY DEF MachineOK, SessionMachine
<1>3. \A i \in LegId : legs[i].status \in {st, m.legs[i].status} BY <1>2 DEF Leg
<1> HIDE DEF n, legs
<1>4. liveLegs(n) = {} => liveLegs(m) = {} BY <1>1, <1>3 DEF liveLegs, LegsWith
<1>5. Waits(n) BY <1>1, <1>4 DEF Waits, NoAvenue
<1> QED BY <1>5 DEF n

\* A call control id changes nothing of that,
LEMMA WaitsStamp ==
  ASSUME NEW m, MachineOK(m), Waits(m), NEW i \in LegId, NEW c PROVE Waits(Stamp(m, i, c))
<1> DEFINE n == Stamp(m, i, c)
<1>1. m.legs \in [LegId -> Leg] BY DEF MachineOK, SessionMachine
<1>2. /\ n.legs = [m.legs EXCEPT ![i].ccid = c] /\ n.state = m.state /\ n.queue = m.queue
      /\ n.push = m.push /\ n.dialed = m.dialed
  BY DEF Stamp, MachineOK, SessionMachine
<1>3. \A j \in LegId : n.legs[j].status = m.legs[j].status BY <1>1, <1>2 DEF Leg
<1> HIDE DEF n
<1>4. liveLegs(n) = liveLegs(m) BY <1>3 DEF liveLegs, LegsWith
<1>5. Waits(n) BY <1>2, <1>4 DEF Waits, NoAvenue
<1> QED BY <1>5 DEF n

LEMMA WaitsLocated ==
  ASSUME NEW m, MachineOK(m), Waits(m), NEW ev, ev.leg \in LegId, NEW b \in BOOLEAN
  PROVE  Waits(Located(m, ev, b).m)
<1> DEFINE new == Adoptable(m, ev.user)
<1>1. new # {} => Waits(Stamp(m, First(new), ev.leg)) BY FirstAdoptable, WaitsStamp
<1> HIDE DEF new
<1> QED BY <1>1 DEF Located, new

\* and a leg that is appended is one to wait for.
LEMMA WaitsPushed ==
  ASSUME NEW m, MachineOK(m), m.dialed < MaxLegs, NEW u, NEW b PROVE Waits(PushLeg(m, u, b))
<1> DEFINE n   == PushLeg(m, u, b)
           leg == [user |-> u, status |-> "dialing", ccid |-> NoLeg, ringMe |-> b]
<1>1. m.legs \in [LegId -> Leg] /\ m.dialed \in 0 .. MaxLegs BY DEF MachineOK, SessionMachine
<1>2. n.legs = [m.legs EXCEPT ![m.dialed + 1] = leg] BY DEF PushLeg, MachineOK, SessionMachine
<1>3. m.dialed + 1 \in LegId BY <1>1, MaxLegsAssumption DEF LegId
<1>4. n.legs[m.dialed + 1].status = "dialing" BY <1>1, <1>2, <1>3
<1> HIDE DEF n
<1>5. m.dialed + 1 \in liveLegs(n) BY <1>3, <1>4 DEF liveLegs, LegsWith, LIVE_STATUSES
<1>6. Waits(n) BY <1>5 DEF Waits, NoAvenue
<1> QED BY <1>6 DEF n

\* A session that no longer rings waits for nobody.
LEMMA WaitsOver == ASSUME NEW m, m.state # "ringing" PROVE Waits(m)
  BY DEF Waits

\* The ladder leaves no caller ringing for nobody.
LEMMA WaitsLadder == ASSUME NEW n, MachineOK(n) PROVE Waits(runAvenueLadder(n).m)
<1>1. vmEntry(n).m.state = "voicemail_greeting"
  BY DEF vmEntry, Result, MachineOK, SessionMachine
<1> QED BY <1>1 DEF runAvenueLadder, NoEffect, Result, Waits

\* The webhooks of a member's leg and the outcomes of dialing and probing it.
LEMMA WaitsLegs ==
  ASSUME NEW m, MachineOK(m), Waits(m), m.state = "ringing", m.direction = "inbound",
         NEW ev, ev.leg \in LegId
  PROVE  /\ Waits(reduceMemberAnswered(m, ev).m)
         /\ Waits(reduceMemberHangup(m, ev).m)
         /\ Waits(reduceOutboundPlacerAnswered(m, ev).m)
         /\ Waits(reduceProbeOutcome(m, ev).m)
         /\ Waits(reduceDialOutcome(m, ev).m)
<1>1. Waits(reduceMemberAnswered(m, ev).m)
  <2> DEFINE at      == Located(m, ev, m.state = "ringing")
             leg     == at.leg
             revived == leg # NoLeg /\ m.legs[leg].ccid = NoLeg /\ m.legs[leg].status = "ambiguous"
             n       == SetStatus(at.m, IF revived THEN {leg} ELSE {}, "ringing")
  <2>1. MachineOK(at.m) /\ Waits(at.m) BY LocatedIs, WaitsLocated
  <2>2. MachineOK(n) /\ Waits(n) BY <2>1, SetStatusOK, WaitsLives DEF LegStatus, LIVE_STATUSES
  <2> HIDE DEF at, n
  <2>3. Waits(AnswerFor(n, ev.leg, ev.user).m)
    BY <2>2 DEF AnswerFor, Result, Waits, NoAvenue, liveLegs, LegsWith, MachineOK, SessionMachine
  <2>4. reduceMemberAnswered(m, ev).m \in {m, n, AnswerFor(n, ev.leg, ev.user).m}
    BY DEF reduceMemberAnswered, HangupStray, NoEffect, Result, n, at
  <2> QED BY <2>2, <2>3, <2>4
<1>2. Waits(reduceMemberHangup(m, ev).m)
  <2> DEFINE at   == Located(m, ev, m.state = "ringing")
             dead == SetStatus(at.m, {at.leg}, "dead")
  <2>1. MachineOK(at.m) BY LocatedIs
  <2>2. MachineOK(dead) BY <2>1, SetStatusOK DEF LegStatus
  <2> HIDE DEF at, dead
  <2>3. reduceMemberHangup(m, ev).m \in {m, runAvenueLadder(dead).m}
    BY DEF reduceMemberHangup, NoEffect, Result, dead, at
  <2> QED BY <2>2, <2>3, WaitsLadder
<1>3. Waits(reduceOutboundPlacerAnswered(m, ev).m)
  BY DEF reduceOutboundPlacerAnswered, HangupStray, Result
<1>4. Waits(reduceProbeOutcome(m, ev).m)
  <2> DEFINE n == SetStatus(m, {FindLeg(m, ev.leg)}, "dead")
  <2>1. MachineOK(n) BY SetStatusOK DEF LegStatus
  <2> HIDE DEF n
  <2>2. Waits(runAvenueLadder(n).m) BY <2>1, WaitsLadder
  <2>3. Waits(AnswerFor(m, ev.leg, ev.user).m)
    BY DEF AnswerFor, Result, Waits, NoAvenue, liveLegs, LegsWith, MachineOK, SessionMachine
  <2> QED BY <2>2, <2>3 DEF reduceProbeOutcome, NoEffect, Result, n
<1>5. Waits(reduceDialOutcome(m, ev).m)
  <2> DEFINE stamp   == Stamp(m, ev.leg, ev.leg)
             stamped == SetStatus(stamp, IF m.legs[ev.leg].status = "dialing" THEN {ev.leg} ELSE {},
                                  "ringing")
             failed  == SetStatus(m, {ev.leg},
                                  IF ev.outcome = "ambiguous" THEN "ambiguous" ELSE "dead")
  <2>1. MachineOK(stamp) /\ Waits(stamp) BY StampOK, WaitsStamp
  <2> HIDE DEF stamp
  <2>2. Waits(stamped) BY <2>1, WaitsLives DEF LIVE_STATUSES
  <2>3. MachineOK(failed) BY SetStatusOK DEF LegStatus
  <2> HIDE DEF stamped, failed
  <2>4. Waits(runAvenueLadder(failed).m) BY <2>3, WaitsLadder
  <2>5. reduceDialOutcome(m, ev).m \in {m, stamped, runAvenueLadder(failed).m}
    BY DEF reduceDialOutcome, NoEffect, Result, stamped, failed, stamp
  <2> QED BY <2>2, <2>4, <2>5
<1> QED BY <1>1, <1>2, <1>3, <1>4, <1>5


\* The members' requests and the alarms.
LEMMA WaitsAsked ==
  ASSUME NEW m, MachineOK(m), Waits(m), m.state = "ringing", NEW ev
  PROVE  /\ Waits(reduceRingMe(m, ev).m)
         /\ Waits(reduceDecline(m, ev).m)
         /\ Waits(reduceSetOwner(m, ev).m)
         /\ Waits(reduceRegisterIntent(m).m)
         /\ Waits(reduceClearIntent(m).m)
         /\ Waits(reduceAlarmRing(m).m)
         /\ Waits(reduceAlarmRingStep(m, ev).m)
         /\ Waits(reducePushFanoutSettled(m, ev).m)
<1>0. m.dialed < MaxLegs \/ (m.dialed = MaxLegs /\ m.dialed >= MaxLegs)
  <2>1. m.dialed \in 0 .. MaxLegs BY DEF MachineOK, SessionMachine
  <2>2. MaxLegs \in Nat BY MaxLegsAssumption
  <2> QED BY <2>1, <2>2
<1>1. Waits(reduceRingMe(m, ev).m)
  <2>1. reduceRingMe(m, ev).m = m \/ reduceRingMe(m, ev).m = PushLeg(m, ev.user, TRUE)
    BY DEF reduceRingMe, NoEffect, Result
  <2>2. m.dialed >= MaxLegs => reduceRingMe(m, ev).m = m
    BY DEF reduceRingMe, NoEffect, Result
  <2> QED BY <1>0, <2>1, <2>2, WaitsPushed
<1>2. Waits(reduceDecline(m, ev).m)
  <2> DEFINE dead == SetStatus(m, {i \in liveLegs(m) : m.legs[i].user = ev.user}, "dead")
             n    == [dead EXCEPT !.declined = @ \cup {ev.user}, !.push = @ \ {ev.user},
                                  !.queue = @ \ {ev.user}]
  <2>1. MachineOK(dead) BY SetStatusOK DEF LegStatus
  <2> HIDE DEF dead
  <2>2. n.state = dead.state BY <2>1 DEF MachineOK, SessionMachine
  <2>3. vmEntry(n).m.state = "voicemail_greeting"
    BY <2>1 DEF vmEntry, Result, MachineOK, SessionMachine
  <2> HIDE DEF n
  <2>4. Waits(runAvenueLadder(n).m) BY <2>3 DEF runAvenueLadder, NoEffect, Result, Waits
  <2> QED BY <2>4 DEF reduceDecline, NoEffect, Result, n, dead
<1>3. \A n : n.state = m.state /\ n.legs = m.legs /\ n.queue = m.queue /\ n.push = m.push
             /\ n.dialed = m.dialed => Waits(n)
  BY WaitsSame
<1>4. Waits(reduceSetOwner(m, ev).m)
  <2>1. LET n == [m EXCEPT !.owner = ev.user, !.ownerLegDead = NoUser]
        IN  n.state = m.state /\ n.legs = m.legs /\ n.queue = m.queue /\ n.push = m.push
              /\ n.dialed = m.dialed
    BY DEF MachineOK, SessionMachine
  <2> QED BY <1>3, <2>1 DEF reduceSetOwner, Result
<1>5. Waits(reduceRegisterIntent(m).m)
  <2>1. LET n == [m EXCEPT !.intent = TRUE]
        IN  n.state = m.state /\ n.legs = m.legs /\ n.queue = m.queue /\ n.push = m.push
              /\ n.dialed = m.dialed
    BY DEF MachineOK, SessionMachine
  <2> QED BY <1>3, <2>1 DEF reduceRegisterIntent, Result
<1>6. Waits(reduceClearIntent(m).m)
  <2> DEFINE n == [[m EXCEPT !.intent = FALSE] EXCEPT !.ownerLegDead = NoUser]
  <2>1. n.state = m.state /\ n.legs = m.legs /\ n.queue = m.queue /\ n.push = m.push
          /\ n.dialed = m.dialed
    BY DEF MachineOK, SessionMachine
  <2>2. reduceClearIntent(m).m = n BY DEF reduceClearIntent, Result
  <2> HIDE DEF n
  <2> QED BY <1>3, <2>1, <2>2
<1>7. Waits(reduceAlarmRing(m).m)
  <2>1. vmEntry(m).m.state = "voicemail_greeting"
    BY DEF vmEntry, Result, MachineOK, SessionMachine
  <2> QED BY <2>1, WaitsOver DEF reduceAlarmRing
<1>8. Waits(reduceAlarmRingStep(m, ev).m)
  <2> DEFINE waiting == m.queue \ m.declined
             user    == Foremost(m.order, waiting)
             popped  == [m EXCEPT !.queue = waiting \ {user}]
             none    == [m EXCEPT !.queue = {}]
  <2>1. MachineOK(popped) BY FieldsOK, EndingsIn DEF Maybe
  <2>2. popped.dialed = m.dialed BY DEF MachineOK, SessionMachine
  <2>3. MachineOK(none) BY DEF MachineOK, SessionMachine
  <2> HIDE DEF popped, none
  <2>4. m.dialed < MaxLegs => Waits(PushLeg(popped, user, FALSE)) BY <2>1, <2>2, WaitsPushed
  <2>5. m.dialed = MaxLegs => Waits(popped) BY <2>2 DEF Waits
  <2>6. Waits(runAvenueLadder(none).m) BY <2>3, WaitsLadder
  <2>7. reduceAlarmRingStep(m, ev).m \in
          {m, runAvenueLadder(none).m,
           IF m.dialed >= MaxLegs THEN popped ELSE PushLeg(popped, user, FALSE)}
    BY DEF reduceAlarmRingStep, NoEffect, Result, popped, none
  <2>8. m.dialed < MaxLegs => ~(m.dialed >= MaxLegs)
    BY MaxLegsAssumption DEF MachineOK, SessionMachine
  <2> HIDE DEF user
  <2> QED BY <1>0, <2>4, <2>5, <2>6, <2>7, <2>8
<1>9. Waits(reducePushFanoutSettled(m, ev).m)
  <2> DEFINE n == [m EXCEPT !.push = @ \ ev.unreachable]
  <2>1. MachineOK(n) BY FieldsOK, EndingsIn DEF Maybe
  <2> HIDE DEF n
  <2> QED BY <2>1, WaitsLadder DEF reducePushFanoutSettled, Result, n
<1> QED BY <1>1, <1>2, <1>4, <1>5, <1>6, <1>7, <1>8, <1>9


\* Whatever event meets a session that rings for somebody.
LEMMA WaitsOn ==
  ASSUME NEW m, MachineOK(m), Tidy(m), Waits(m), m.state = "ringing", NEW ev \in Event
  PROVE  Waits(reduce(m, ev).m)
<1> DEFINE r == reduce(m, ev)
<1>1. /\ ~isNone(m) /\ ~isTerminal(m.state) /\ m.direction = "inbound" /\ m.owner = NoUser
      /\ Waits(NoEffect(m).m)
  BY DEF isNone, isTerminal, TerminalStates, Tidy, NoEffect, Result
<1>2. \A target \in TerminalStates : \A merged, reason, extra :
        Waits(terminalize(m, target, merged, reason, extra).m)
  BY terminalizeEnds, WaitsOver DEF TerminalStates
<1>3. {"ended_answered", "ended_missed", MissedState(m)} \subseteq TerminalStates BY EndingsIn
<1>4. CASE ev.type \in {"initiated", "outbound-initiated"}
  BY <1>1, <1>4 DEF reduce
<1>5. CASE ev.type \in {"member-leg-answered", "member-leg-hangup", "outbound-placer-answered",
                        "member-probe-outcome", "dial-outcome"}
  <2>1. ev.leg \in LegId BY <1>5, EventFields DEF LegTypes
  <2> QED BY <1>1, <1>5, <2>1, WaitsLegs DEF reduce, handle
<1>6. CASE ev.type = "outbound-placer-hangup"
  <2> DEFINE n    == SetStatus(m, {FindLeg(m, ev.leg)} \ {NoLeg}, "dead")
             over == terminalize(n, "ended_missed", "missed", "null", NoColumns)
  <2>1. MachineOK(n) BY SetStatusOK DEF LegStatus
  <2> HIDE DEF n
  <2>2. Waits(over.m) BY <1>3, <2>1, terminalizeEnds, WaitsOver DEF TerminalStates
  <2> HIDE DEF over
  <2>3. reduceOutboundPlacerHangup(m, ev).m = over.m
    BY <1>1 DEF reduceOutboundPlacerHangup, Result, over, n
  <2> QED BY <1>1, <1>6, <2>2, <2>3 DEF reduce, handle
<1>7. CASE ev.type \in {"answer-outcome", "inbound-hangup", "outbound-hangup", "alarm-janitor"}
  <2>1. ev.type = "answer-outcome" => Waits(reduceAnswerOutcome(m, ev).m)
    <3>1. answerWon(m, ev).m.state = "answered"
      <4>1. Answers(m, ev, answerWon(m, ev)) BY answerWonKinds
      <4> QED BY <4>1 DEF Answers
    <3>2. ev.type = "answer-outcome" /\ ~ev.ok => answerLost(m, ev).m.state # "ringing"
      BY answerLostKinds DEF Ends, TerminalStates
    <3> QED BY <3>1, <3>2, WaitsOver DEF reduceAnswerOutcome
  <2>2. ev.type = "inbound-hangup" => Waits(reduceInboundHangup(m, ev).m)
    <3>1. ev.type = "inbound-hangup" => ev.tag \in {"untagged", "bri", "vmi"} BY EventFields
    <3>2. ev.type = "inbound-hangup" /\ ev.tag = "bri" => briHangup(m, ev).m.state # "ringing"
      BY <1>1, briHangupKinds DEF Ends, TerminalStates
    <3> QED BY <1>1, <1>2, <1>3, <3>1, <3>2, WaitsOver DEF reduceInboundHangup
  <2>3. Waits(reduceOutboundHangup(m, ev).m) /\ Waits(reduceAlarmJanitor(m).m)
    BY <1>1, <1>2, <1>3 DEF reduceOutboundHangup, reduceAlarmJanitor
  <2> QED BY <1>1, <1>7, <2>1, <2>2, <2>3 DEF reduce, handle
<1>8. CASE ev.type \in {"outbound-answered", "speak-ended", "recording-saved",
                        "notice-answer-outcome", "vm-answer-outcome", "inbound-leg-gone"}
  <2>1. /\ Waits(reduceOutboundAnswered(m).m) /\ Waits(reduceSpeakEnded(m).m)
        /\ Waits(reduceRecordingSaved(m).m) /\ Waits(reduceVmAnswerOutcome(m, ev).m)
        /\ Waits(reduceInboundLegGone(m).m)
    BY <1>1 DEF reduceOutboundAnswered, reduceSpeakEnded, reduceRecordingSaved,
       reduceVmAnswerOutcome, reduceInboundLegGone, Result
  <2>2. Waits(reduceNoticeAnswerOutcome(m, ev).m)
    <3> DEFINE n == [m EXCEPT !.noticeSpoken = FALSE]
    <3>1. n.state = m.state /\ n.legs = m.legs /\ n.queue = m.queue /\ n.push = m.push
            /\ n.dialed = m.dialed
      BY DEF MachineOK, SessionMachine
    <3>2. reduceNoticeAnswerOutcome(m, ev).m \in {m, n}
      BY DEF reduceNoticeAnswerOutcome, NoEffect, Result
    <3> HIDE DEF n
    <3> QED BY <3>1, <3>2, WaitsSame
  <2> QED BY <1>1, <1>8, <2>1, <2>2 DEF reduce, handle
<1>9. CASE ev.type \in {"ring-me", "decline", "set-owner", "register-intent", "clear-intent",
                        "alarm-intent-expiry", "alarm-ring", "alarm-ring-step",
                        "push-fanout-settled"}
  BY <1>1, <1>9, WaitsAsked DEF reduce, handle
<1> QED BY <1>4, <1>5, <1>6, <1>7, <1>8, <1>9 DEF Event, Webhook, FollowUp, Asked, Mint

\* No event makes a session ring, or starts the deadline of one that rings.
LEMMA RingsOnly ==
  ASSUME NEW m, NEW ev, NEW r, Kinds(m, ev, r), r.m.state = "ringing"
  PROVE  m.state = "ringing" /\ Arm("ring") \notin Eff(r.fx)
<1>1. /\ ~Bland(Arm("ring")) /\ Arm("ring").kind # "telnyx-dial"
      /\ \A set : Arm("ring") # Mirror(set)
  BY KindsOf DEF Bland, Arm
<1> QED BY <1>1 DEF Kinds, DialsNobody, Quiet, Intends, Dials, Diverts, Answers, PicksUp, Records, Saves, Ends,
        Upgrades, SetsOwner, NoticeFails, Writes, SameCore, TerminalStates

\* While the deadline runs or is to be started, the caller waits for somebody.
Deadline == "ring" \in alarms \/ Arm("ring") \in Unrun

AvenueInv == Deadline => Waits(machine)

\* AvenueInv is inductive.
LEMMA AvenueStep ==
  ASSUME CallInv, Remembered => AnswerInv, AvenueInv, [Next]_vars, Remembered'
  PROVE  AvenueInv'
<1>0. AnswerInv BY RememberedBefore DEF CallInv
<1>1. Forms /\ TypeOK BY NextForms DEF CallInv
<1>2. SUFFICES ASSUME Deadline', machine'.state = "ringing" PROVE Waits(machine')
  BY WaitsOver DEF AvenueInv
<1>3. CASE Reduces
  <2> DEFINE r == reduce(machine, journal.event)
  <2>1. /\ machine' = r.m /\ Unrun' = Eff(r.fx) /\ journal.event \in Event /\ MachineOK(machine)
        /\ alarms' = alarms
    BY <1>3 DEF Reduces, CallInv, TypeOK
  <2>2. CASE isNone(machine)
    <3>1. alarms = {} BY <2>2 DEF CallInv, OutcomeInv, EmptyInv
    <3>2. Mints(r) \/ r = NoEffect(machine) BY <2>1, <2>2, MintKinds
    <3>3. r = NoEffect(machine) => r.m = machine BY DEF NoEffect, Result
    <3>4. machine.state # "ringing" BY <2>2 DEF isNone
    <3> HIDE DEF r
    <3>5. Arm("ring") \in Eff(r.fx) => ~NoAvenue(r.m)
      BY <1>2, <2>1, <3>2, <3>3, <3>4, MintConcludes
    <3> QED BY <1>2, <2>1, <3>1, <3>5 DEF Deadline, Waits
  <2>3. CASE ~isNone(machine)
    <3>1. Kinds(machine, journal.event, r) BY <2>1, <2>3, ReduceKinds
    <3>2. machine.state = "ringing" /\ Arm("ring") \notin Eff(r.fx)
      <4> HIDE DEF r
      <4> QED BY <1>2, <2>1, <3>1, RingsOnly
    <3>3. Waits(machine) BY <1>2, <2>1, <3>2 DEF Deadline, AvenueInv
    <3> QED BY <1>0, <2>1, <3>2, <3>3, WaitsOn DEF AnswerInv
  <2> QED BY <2>2, <2>3
<1>4. CASE ~Reduces /\ machine' = machine
  <2>1. Unrun' \subseteq Unrun BY <1>1, <1>4, UnrunStays DEF CallInv
  <2>2. "ring" \in alarms' => Deadline
    <3>1. CASE Executes
      BY <3>1 DEF Executes, MirrorRuns, MirrorFails, Merges, RunsAside, Pipes, Passes, Deadline
    <3>2. CASE ~Executes
      BY <1>1, <1>4, <3>2 DEF Forms, Aside, durable, Claims, OpensCall, Adopts, TellsSession,
         SetsRowOwner, ClearsSlot, RetryMirrorLands, RetryMirrorFails, Purge, Deadline
    <3> QED BY <3>1, <3>2
  <2> QED BY <1>2, <1>4, <2>1, <2>2 DEF Deadline, AvenueInv
<1>5. CASE ~Reduces /\ machine' # machine
  <2>1. ~Purge BY <1>2, <1>5 DEF Purge, NoMachine
  <2>2. Adopts BY <1>1, <1>5, <2>1, MachineStays
  <2>3. isNone(machine) /\ alarms' = alarms BY <1>5, <2>2 DEF Adopts, Adopt, Adopted
  <2>4. Unrun' = {} BY <2>2, AdmitMakes DEF Adopts
  <2> QED BY <1>2, <2>3, <2>4 DEF Deadline, CallInv, OutcomeInv, EmptyInv
<1> QED BY <1>3, <1>4, <1>5

\* AvenueHolds: in the first session of a call, while the ring deadline runs the caller
\* waits for somebody, or the session has dialed the cap: RingingHasAvenue of
\* CallProperties.
THEOREM AvenueHolds == Spec => []RingingHasAvenue
<1>1. Init => AvenueInv
  <2>1. Init => alarms = {} /\ journal = NoJournal BY DEF Init
  <2>2. Eff(NoJournal.fx) = {} BY DEF NoJournal, Eff
  <2> QED BY <2>1, <2>2 DEF AvenueInv, Deadline, Unrun
<1>2. CallInv /\ (Remembered => AnswerInv) /\ (Remembered => AvenueInv) /\ [Next]_vars
        => (Remembered => AvenueInv)'
  BY AvenueStep, RememberedBefore DEF CallInv
<1>3. (Remembered => AvenueInv) => RingingHasAvenue
  BY DEF Remembered, AvenueInv, Deadline, Waits, RingingHasAvenue, FirstSession
<1> QED BY <1>1, <1>2, <1>3, AnswerHolds, PTL DEF Spec


(***************************************************************************)
(* NoGhostRing and NoLegOutlivesCall.  First the events still to be        *)
(* reduced, in their order.                                                *)
(***************************************************************************)
QueueOf(j) == IF j.open /\ ~j.reduced THEN <<j.event>> \o j.rest ELSE j.rest

Queue == QueueOf(journal)

\* A leg has at most one outcome to come.
OneEach(s) ==
  \A p, q \in DOMAIN s : IsOutcome(s[p]) /\ IsOutcome(s[q]) /\ s[p].leg = s[q].leg => p = q

\* The parts of a sequence of two.
LEMMA ConcatAt ==
  ASSUME NEW S, NEW a \in Seq(S), NEW b \in Seq(S)
  PROVE  /\ Len(a) \in Nat /\ Len(b) \in Nat /\ DOMAIN a = 1 .. Len(a) /\ DOMAIN b = 1 .. Len(b)
         /\ DOMAIN (a \o b) = 1 .. (Len(a) + Len(b))
         /\ \A p \in 1 .. Len(a) : (a \o b)[p] = a[p]
         /\ \A p \in DOMAIN (a \o b) :
              p \notin 1 .. Len(a) => p - Len(a) \in 1 .. Len(b) /\ (a \o b)[p] = b[p - Len(a)]
         /\ \A p \in 1 .. Len(b) : Len(a) + p \in DOMAIN (a \o b) /\ (a \o b)[Len(a) + p] = b[p]
<1>1. /\ Len(a) \in Nat /\ Len(b) \in Nat /\ DOMAIN a = 1 .. Len(a) /\ DOMAIN b = 1 .. Len(b)
      /\ DOMAIN (a \o b) = 1 .. (Len(a) + Len(b))
      /\ \A p \in 1 .. Len(a) : (a \o b)[p] = a[p]
      /\ \A p \in 1 .. Len(b) : (a \o b)[Len(a) + p] = b[p]
  OBVIOUS
<1>2. ASSUME NEW p \in 1 .. (Len(a) + Len(b)), p \notin 1 .. Len(a)
      PROVE  p - Len(a) \in 1 .. Len(b) /\ (a \o b)[p] = b[p - Len(a)]
  <2>1. p - Len(a) \in 1 .. Len(b) /\ Len(a) + (p - Len(a)) = p BY <1>1, <1>2
  <2> QED BY <1>1, <2>1
<1>3. \A p \in 1 .. Len(b) : Len(a) + p \in 1 .. (Len(a) + Len(b)) BY <1>1
<1> QED BY <1>1, <1>2, <1>3

\* What is in it.
LEMMA RanConcat ==
  ASSUME NEW S, NEW a \in Seq(S), NEW b \in Seq(S) PROVE Ran(a \o b) = Ran(a) \cup Ran(b)
<1>1. Ran(a \o b) \subseteq Ran(a) \cup Ran(b) BY RanOf
<1>2. Ran(a) \subseteq Ran(a \o b)
  <2>1. \A p \in 1 .. Len(a) : p \in DOMAIN (a \o b) BY ConcatAt
  <2> QED BY <2>1, ConcatAt DEF Ran
<1>3. Ran(b) \subseteq Ran(a \o b)
  <2>1. \A p \in 1 .. Len(b) : Len(a) + p \in DOMAIN (a \o b) /\ (a \o b)[Len(a) + p] = b[p]
    BY ConcatAt
  <2>2. DOMAIN b = 1 .. Len(b) OBVIOUS
  <2> QED BY <2>1, <2>2 DEF Ran
<1> QED BY <1>1, <1>2, <1>3

LEMMA RanOne ==
  ASSUME NEW e PROVE Ran(<<e>>) = {e} /\ OneEach(<<e>>) /\ Ran(<<>>) = {} /\ OneEach(<<>>)
  BY DEF Ran, OneEach

\* Its parts have one outcome each,
LEMMA OneEachParts ==
  ASSUME NEW S, NEW e \in S, NEW s \in Seq(S), OneEach(<<e>> \o s)
  PROVE  /\ OneEach(s)
         /\ IsOutcome(e) => \A x \in Ran(s) : IsOutcome(x) => x.leg # e.leg
<1> DEFINE a == <<e>>
           t == a \o s
<1>1. a \in Seq(S) /\ Len(a) = 1 /\ a[1] = e OBVIOUS
<1>2. OneEach(t) OBVIOUS
<1>3. /\ Len(s) \in Nat /\ DOMAIN s = 1 .. Len(s) /\ 1 \in DOMAIN t /\ t[1] = e
      /\ \A p \in DOMAIN s : 1 + p \in DOMAIN t /\ t[1 + p] = s[p]
  <2>1. Len(s) \in Nat /\ DOMAIN s = 1 .. Len(s) OBVIOUS
  <2>2. \A p \in 1 .. Len(s) : Len(a) + p \in DOMAIN t /\ t[Len(a) + p] = s[p] BY <1>1, ConcatAt
  <2>3. DOMAIN t = 1 .. (Len(a) + Len(s)) /\ t[1] = a[1] BY <1>1
  <2> QED BY <1>1, <2>1, <2>2, <2>3
<1> HIDE DEF t, a
<1>4. OneEach(s)
  <2>1. ASSUME NEW p \in DOMAIN s, NEW q \in DOMAIN s, IsOutcome(s[p]), IsOutcome(s[q]),
               s[p].leg = s[q].leg
        PROVE  p = q
    <3>1. 1 + p = 1 + q BY <1>2, <1>3, <2>1 DEF OneEach
    <3> QED BY <1>3, <3>1
  <2> QED BY <2>1 DEF OneEach
<1>5. ASSUME IsOutcome(e), NEW p \in DOMAIN s, IsOutcome(s[p]), s[p].leg = e.leg PROVE FALSE
  <2>1. 1 + p = 1 BY <1>2, <1>3, <1>5 DEF OneEach
  <2> QED BY <1>3, <2>1
<1> QED BY <1>4, <1>5 DEF Ran

\* and so has the whole when one of the parts has none.
LEMMA OneEachConcat ==
  ASSUME NEW S, NEW a \in Seq(S), NEW b \in Seq(S), OneEach(a), OneEach(b),
         (\A x \in Ran(a) : ~IsOutcome(x)) \/ (\A x \in Ran(b) : ~IsOutcome(x))
  PROVE  OneEach(a \o b)
<1> DEFINE t == a \o b
<1>1. /\ Len(a) \in Nat /\ DOMAIN a = 1 .. Len(a) /\ DOMAIN b = 1 .. Len(b)
      /\ DOMAIN t = 1 .. (Len(a) + Len(b)) /\ Len(b) \in Nat
      /\ \A p \in 1 .. Len(a) : t[p] = a[p]
      /\ \A p \in DOMAIN t :
           p \notin 1 .. Len(a) => p - Len(a) \in 1 .. Len(b) /\ t[p] = b[p - Len(a)]
  BY ConcatAt
<1> HIDE DEF t
<1> SUFFICES ASSUME NEW p \in DOMAIN t, NEW q \in DOMAIN t, IsOutcome(t[p]), IsOutcome(t[q]),
                    t[p].leg = t[q].leg
             PROVE  p = q
  BY DEF OneEach, t
<1>2. CASE p \in 1 .. Len(a) /\ q \in 1 .. Len(a) BY <1>1, <1>2 DEF OneEach
<1>3. CASE p \notin 1 .. Len(a) /\ q \notin 1 .. Len(a)
  <2>1. p - Len(a) = q - Len(a) BY <1>1, <1>3 DEF OneEach
  <2> QED BY <1>1, <2>1
<1>4. CASE (p \in 1 .. Len(a)) # (q \in 1 .. Len(a))
  <2>1. \E x \in Ran(a) : IsOutcome(x) BY <1>1, <1>4 DEF Ran
  <2>2. \E x \in Ran(b) : IsOutcome(x) BY <1>1, <1>4 DEF Ran
  <2> QED BY <2>1, <2>2
<1> QED BY <1>2, <1>3, <1>4

\* What remains when the first effect has run rings once at most, and not again
\* after a dial.
LEMMA DialTail ==
  ASSUME NEW S, NEW fx \in Seq(S), fx # <<>>, DialOnce(fx)
  PROVE  /\ DialOnce(Tail(fx))
         /\ IsDial(Head(fx)) => ~Rung(Eff(Tail(fx)))
<1> DEFINE t == Tail(fx)
<1>1. /\ Len(fx) \in Nat \ {0} /\ DOMAIN fx = 1 .. Len(fx) /\ Head(fx) = fx[1]
      /\ DOMAIN t = 1 .. (Len(fx) - 1) /\ \A i \in DOMAIN t : t[i] = fx[i + 1]
  OBVIOUS
<1> HIDE DEF t
<1>2. \A i \in DOMAIN t : i + 1 \in DOMAIN fx /\ i + 1 # 1 /\ 1 \in DOMAIN fx BY <1>1
<1>3. DialOnce(t)
  <2>1. ASSUME NEW p \in DOMAIN t, NEW q \in DOMAIN t, IsDial(t[p]), IsDial(t[q]) PROVE p = q
    <3>1. p + 1 = q + 1 BY <1>1, <1>2, <2>1 DEF DialOnce
    <3> QED BY <1>1, <3>1
  <2> QED BY <2>1 DEF DialOnce
<1>4. IsDial(Head(fx)) => ~Rung(Eff(t)) BY <1>1, <1>2 DEF DialOnce, Rung, Eff
<1> QED BY <1>3, <1>4 DEF t

\* The events to be reduced are what the queue holds.
LEMMA QueueIs ==
  ASSUME TypeOK
  PROVE  /\ Queue \in Seq(Event) /\ Coming = Ran(Queue)
         /\ journal.rest \in Seq(FollowUp) /\ FollowUp \subseteq Event
<1>1. /\ journal.rest \in Seq(FollowUp) /\ (journal.open => journal.event \in Event)
      /\ FollowUp \subseteq Event
  BY DEF TypeOK, JournalOK, Event
<1>2. journal.rest \in Seq(Event) BY <1>1
<1>3. CASE journal.open /\ ~journal.reduced
  <2>1. <<journal.event>> \in Seq(Event) BY <1>1, <1>3
  <2>2. Queue = <<journal.event>> \o journal.rest BY <1>3 DEF Queue, QueueOf
  <2>3. Queue \in Seq(Event) BY <1>2, <2>1, <2>2
  <2>4. Ran(Queue) = Ran(<<journal.event>>) \cup Ran(journal.rest) BY <1>2, <2>1, <2>2, RanConcat
  <2>5. Ran(Queue) = {journal.event} \cup Ran(journal.rest) BY <2>4, RanOne
  <2> QED BY <1>1, <1>3, <2>3, <2>5 DEF Coming
<1>4. CASE ~(journal.open /\ ~journal.reduced) BY <1>1, <1>2, <1>4 DEF Queue, QueueOf, Coming
<1> QED BY <1>3, <1>4

\* The cursor leaves the queue as it is.
LEMMA AdvancedQueue ==
  ASSUME TypeOK, NEW fx, journal.open, fx # <<>> => journal.reduced, NEW rest \in Seq(FollowUp)
  PROVE  QueueOf(Advanced(fx, rest)) = rest
<1>0. DOMAIN journal = {"open", "event", "reduced", "fx", "rest"} BY DEF TypeOK, JournalOK
<1>1. CASE fx # <<>>
  <2>1. Advanced(fx, rest) = [journal EXCEPT !.fx = fx, !.rest = rest] BY <1>1 DEF Advanced
  <2>2. Advanced(fx, rest).reduced = journal.reduced /\ Advanced(fx, rest).rest = rest
    BY <1>0, <2>1
  <2> QED BY <1>1, <2>2 DEF QueueOf
<1>2. CASE fx = <<>> /\ rest # <<>>
  <2> DEFINE j == [Journal(Head(rest)) EXCEPT !.rest = Tail(rest)]
  <2>1. Advanced(fx, rest) = j BY <1>2 DEF Advanced
  <2>2. j.event = Head(rest) /\ j.rest = Tail(rest) /\ j.open /\ ~j.reduced BY DEF Journal
  <2>3. QueueOf(j) = <<Head(rest)>> \o Tail(rest) BY <2>2 DEF QueueOf
  <2>4. <<Head(rest)>> \o Tail(rest) = rest BY <1>2
  <2> QED BY <2>1, <2>3, <2>4
<1>3. CASE fx = <<>> /\ rest = <<>>
  <2>1. Advanced(fx, rest) = NoJournal BY <1>3 DEF Advanced
  <2> QED BY <1>3, <2>1 DEF NoJournal, QueueOf
<1> QED BY <1>1, <1>2, <1>3


(***************************************************************************)
(* The forms a step takes, as far as the members' legs go.                 *)
(***************************************************************************)
LegsStay == UNCHANGED wlegs /\ \A w \in net' : w \in net \/ ~LegHook(w)

LegsFall ==
  \E ls \in SUBSET LegId :
     /\ \A i \in ls : wlegs[i].status \in Up
     /\ wlegs' = Drop(ls)
     /\ \A w \in net' : w \in net \/ ~LegHook(w) \/ \E i \in ls : w = HangupHook(i)

LegsMove == LegsStay \/ LegsFall \/ ExecDial \/ \E i \in LegId : MemberAnswers(i)

\* The webhooks of the customer's leg are none of theirs.
LEMMA LineHooks == ~LegHook(CustomerHangup) /\ \A w \in MediaHook : ~LegHook(w)
  BY DEF LegHook, CustomerHangup, MediaHook

LEMMA GoneLegs ==
  ASSUME NEW ls \in SUBSET LegId, \A i \in ls : wlegs[i].status \in Up, CustomerGone(ls)
  PROVE  LegsFall
  BY LineHooks DEF CustomerGone, LegsFall

LEMMA BridgedUp == Bridged \in SUBSET LegId /\ \A i \in Bridged : wlegs[i].status \in Up
  BY DEF Bridged

\* The effects.
LEMMA ExecuteLegs == ASSUME TypeOK, Execute PROVE LegsMove
<1>1. CASE \/ ExecMirror \/ ExecMirrorFails \/ ExecQuietly \/ ExecPushFanout
           \/ ExecTerminalMerge \/ ExecAlarmSlot
           \/ ExecAnswerInbound \/ ExecAnswerNotice \/ ExecAnswerVm \/ ExecMedia
  <2>1. UNCHANGED << wlegs, net >>
    BY <1>1 DEF ExecMirror, ExecMirrorFails, ExecQuietly, ExecPushFanout,
       ExecTerminalMerge, ExecAlarmSlot, world, ExecAnswerInbound, ExecAnswerNotice, ExecAnswerVm,
       AnswerCustomer, ExecMedia
  <2> QED BY <2>1 DEF LegsMove, LegsStay
<1>2. CASE ExecDial BY <1>2 DEF LegsMove
<1>3. CASE ExecHangupLegs
  <2> DEFINE up == {i \in Effect.legs : wlegs[i].status \in Up}
  <2>1. Effect.legs \in SUBSET LegId BY <1>3, ExecutingIs, EffectFields DEF ExecHangupLegs
  <2>2. wlegs' = Drop(up) /\ net' = net \cup {HangupHook(i) : i \in up} BY <1>3 DEF ExecHangupLegs
  <2>3. up \in SUBSET LegId /\ \A i \in up : wlegs[i].status \in Up BY <2>1
  <2> HIDE DEF up
  <2>4. LegsFall BY <2>2, <2>3 DEF LegsFall
  <2> QED BY <2>4 DEF LegsMove
<1>4. CASE \/ ExecBridge \/ ExecHangupCustomer \/ ExecVoicemailPipeline \/ ExecReject
  <2>1. CustomerGone(Bridged) \/ CustomerGone({}) \/ UNCHANGED << wlegs, net >>
    BY <1>4 DEF ExecBridge, ExecHangupCustomer, ExecVoicemailPipeline, ExecReject
  <2>2. CustomerGone({}) => LegsFall BY GoneLegs
  <2>3. CustomerGone(Bridged) => LegsFall BY GoneLegs, BridgedUp
  <2>4. UNCHANGED << wlegs, net >> => LegsStay BY DEF LegsStay
  <2> QED BY <2>1, <2>2, <2>3, <2>4 DEF LegsMove
<1> QED BY <1>1, <1>2, <1>3, <1>4 DEF Execute

\* The feed.
LEMMA DeliverLegs == ASSUME NEW w \in net, Deliver(w) PROVE LegsMove
<1>1. UNCHANGED wlegs
  BY DEF Deliver, DeliverSeen, DeliverInitiated, DeliverInitiatedLate,
     DeliverOutboundInitiated, RejectOutboundInitiated, DeliverEvent, DropUnknown, world
<1>2. net' \subseteq net \/ net' = (net \ {w}) \cup {CustomerHangup}
  BY DEF Deliver, DeliverSeen, DeliverInitiated, DeliverInitiatedLate,
     DeliverOutboundInitiated, RejectOutboundInitiated, DeliverEvent, DropUnknown, Acknowledge
<1> QED BY <1>1, <1>2, LineHooks DEF LegsMove, LegsStay

\* The parties.
LEMMA ProviderLegs == ASSUME Provider PROVE LegsMove
<1>1. CASE CustomerHangsUp BY <1>1, GoneLegs, BridgedUp DEF CustomerHangsUp, LegsMove
<1>2. CASE CustomerAnswers \/ MediaEnds
  <2>1. UNCHANGED wlegs /\ net' \subseteq net \cup MediaHook \cup {[type |-> "outbound-answered"]}
    BY <1>2 DEF CustomerAnswers, MediaEnds
  <2>2. ~LegHook([type |-> "outbound-answered"]) BY DEF LegHook
  <2> QED BY <2>1, <2>2, LineHooks DEF LegsMove, LegsStay
<1>3. ASSUME NEW i \in LegId, MemberLegEnds(i) PROVE LegsMove
  <2>1. wlegs[i].status \in Up BY <1>3 DEF MemberLegEnds
  <2>2. CASE wlegs' = Drop({i}) /\ net' = net \cup {HangupHook(i)}
    BY <2>1, <2>2 DEF LegsFall, LegsMove
  <2>3. CASE CustomerGone({i}) BY <2>1, <2>3, GoneLegs DEF LegsMove
  <2> QED BY <1>3, <2>2, <2>3 DEF MemberLegEnds
<1> QED BY <1>1, <1>2, <1>3 DEF Provider, LegsMove

\* Every step.
LEMMA NextLegs == ASSUME TypeOK, [Next]_vars PROVE LegsMove
<1>1. CASE \/ Reduce \/ RetryMirrorLands \/ RetryMirrorFails \/ Purge
           \/ \E slot : FireAlarm(slot) \/ LoseAlarm(slot)
           \/ UNCHANGED vars
           \/ \E w : Lose(w) \/ ClaimThenCrash(w)
  BY <1>1 DEF Reduce, RetryMirrorLands, RetryMirrorFails, Purge, FireAlarm, LoseAlarm, vars, world,
     Lose, ClaimThenCrash, LegsMove, LegsStay
<1>2. CASE ConsultSteal
  <2>1. wlegs' = Drop(Bridged) /\ net' = net \cup {HangupHook(i) : i \in Bridged}
    BY <1>2 DEF ConsultSteal
  <2> QED BY <2>1, BridgedUp DEF LegsFall, LegsMove
<1>3. CASE Members /\ ~ConsultSteal
  <2>1. UNCHANGED << wlegs, net >>
    BY <1>3 DEF Members, RingMe, Decline, Request, Consult, ConsultGate, ConsultRegister,
       ConsultDialed, ConsultAbandon, ConsultStamp, ConsultOwner, ConsultClear, ConsultStealFails,
       ConsultRestoreOwner, Tell, world
  <2> QED BY <2>1 DEF LegsMove, LegsStay
<1> QED BY <1>1, <1>2, <1>3, ExecuteLegs, DeliverLegs, ProviderLegs DEF Next, Shell, Faults

\* What a webhook, or a probe, says of a leg.
LegSaid(w, legs) ==
  /\ w.type \in AnsweredHooks => legs[w.leg].status # "none"
  /\ w.type \in HangupHooks => legs[w.leg].status = "gone"
  /\ w.type = "member-probe-outcome" /\ ~w.ok => legs[w.leg].status \in {"none", "gone"}

\* The life of a leg: it is dialed once and falls once, and the feed tells of it.
LegsLive ==
  /\ \A i \in LegId : wlegs[i].status # "none" => wlegs'[i].status # "none"
  /\ \A i \in LegId : wlegs[i].status = "gone" => wlegs'[i].status = "gone"
  /\ \A i \in LegId : wlegs[i].status = "none" /\ wlegs'[i].status # "none"
       => Effect \in Unrun /\ IsDial(Effect) /\ i \in Effect.from .. Effect.to
  /\ \A w \in net' : w \in net \/ LegSaid(w, wlegs')

\* A webhook that is none of the legs' says nothing of them.
LEMMA OtherHooks == ASSUME NEW w \in Hook, ~LegHook(w), NEW legs PROVE LegSaid(w, legs)
  BY DEF Hook, Webhook, Initiations, LegHook, LegSaid, AnsweredHooks, HangupHooks

LEMMA NextLegsLive == ASSUME TypeOK, TypeOK', [Next]_vars PROVE LegsLive
<1>1. LegsMove BY NextLegs
<1>2. \A w \in net' : w \in Hook BY DEF TypeOK
<1>3. wlegs \in [LegId -> WorldLeg] BY DEF TypeOK
<1>4. CASE LegsStay BY <1>2, <1>4, OtherHooks DEF LegsStay, LegsLive
<1>5. CASE LegsFall
  <2>1. PICK ls \in SUBSET LegId :
          /\ \A i \in ls : wlegs[i].status \in Up
          /\ wlegs' = Drop(ls)
          /\ \A w \in net' : w \in net \/ ~LegHook(w) \/ \E i \in ls : w = HangupHook(i)
    BY <1>5 DEF LegsFall
  <2>2. \A i \in LegId : wlegs'[i].status = IF i \in ls THEN "gone" ELSE wlegs[i].status
    BY <1>3, <2>1 DEF Drop, WorldLeg
  <2>3. ASSUME NEW i \in ls PROVE LegSaid(HangupHook(i), wlegs')
    <3> DEFINE w == HangupHook(i)
    <3>1. w.type \in HangupHooks /\ w.leg = i
      BY DEF HangupHook, memberHangup, placerHangup, HangupHooks
    <3>2. w.type \notin AnsweredHooks /\ w.type # "member-probe-outcome"
      BY <3>1 DEF HangupHooks, AnsweredHooks
    <3> HIDE DEF w
    <3>3. wlegs'[w.leg].status = "gone" BY <2>2, <3>1
    <3>4. LegSaid(w, wlegs') BY <3>1, <3>2, <3>3 DEF LegSaid
    <3> QED BY <3>4 DEF w
  <2>4. \A w \in net' : w \in net \/ LegSaid(w, wlegs') BY <1>2, <2>1, <2>3, OtherHooks
  <2> QED BY <2>1, <2>2, <2>4 DEF LegsLive, Up
<1>6. CASE ExecDial
  <2>1. Effect \in Unrun BY <1>6, DialPasses DEF Passes
  <2>2. PICK result : wlegs' = [j \in LegId |->
                 IF /\ j \in Effect.from .. Effect.to /\ result[j] \in {"ccid", "created"}
                    /\ wlegs[j].status = "none"
                 THEN [user |-> machine.legs[j].user, status |-> "ringing"] ELSE wlegs[j]]
    BY <1>6 DEF ExecDial
  <2>3. Effect.kind \in DialKinds BY <1>6 DEF ExecDial, Executing, Effect, DialKinds
  <2>4. net' = net BY <1>6 DEF ExecDial
  <2> QED BY <2>1, <2>2, <2>3, <2>4 DEF LegsLive, IsDial
<1>7. ASSUME NEW i \in LegId, MemberAnswers(i) PROVE LegsLive
  <2>1. /\ wlegs[i].status = "ringing" /\ wlegs' = [wlegs EXCEPT ![i].status = "live"]
        /\ net' = net \cup {AnsweredHook(i)}
    BY <1>7 DEF MemberAnswers
  <2>2. \A j \in LegId : wlegs'[j].status = IF j = i THEN "live" ELSE wlegs[j].status
    BY <1>3, <2>1 DEF WorldLeg
  <2> DEFINE w == AnsweredHook(i)
  <2>3. w.type \in AnsweredHooks /\ w.leg = i
    BY DEF AnsweredHook, memberAnswered, placerAnswered, AnsweredHooks
  <2>4. w.type \notin HangupHooks /\ w.type # "member-probe-outcome"
    BY <2>3 DEF HangupHooks, AnsweredHooks
  <2>5. \A v \in net' : v \in net \/ v = w BY <2>1
  <2> HIDE DEF w
  <2>6. LegSaid(w, wlegs') BY <2>2, <2>3, <2>4 DEF LegSaid
  <2> QED BY <2>1, <2>2, <2>5, <2>6 DEF LegsLive
<1> QED BY <1>1, <1>4, <1>5, <1>6, <1>7 DEF LegsMove


(***************************************************************************)
(* What running an effect reports, and what it leaves in the journal.      *)
(***************************************************************************)
\* The reports of an effect: a dial's are one outcome for each leg it rings, and
\* nothing else has outcomes of dials to tell.
Bears(fu) ==
  /\ \A e \in Ran(fu) :
       /\ IsOutcome(e) => /\ IsDial(Effect) /\ e.leg \in Effect.from .. Effect.to
                          /\ e.outcome = "ccid" => wlegs'[e.leg].status # "none"
       /\ LegSaid(e, wlegs')
       /\ Effect.kind \in MildKinds => e.type \in Calm
  /\ OneEach(fu)
  /\ Effect.kind = "telnyx-answer-vm" => \E e \in Ran(fu) : e.type = "vm-answer-outcome"

Runs ==
  /\ \/ UNCHANGED journal
     \/ \E fu \in Seq(FollowUp) : Bears(fu) /\ Advance(fu)
  /\ Effect.kind = "telnyx-hangup" => \A i \in Effect.legs : wlegs'[i].status \notin Up

\* The outcomes of the dials.
LEMMA DialBears ==
  ASSUME TypeOK, ExecDial
  PROVE  UNCHANGED journal \/ \E fu \in Seq(FollowUp) : Bears(fu) /\ Advance(fu)
<1>1. PICK result \in [Effect.from .. Effect.to -> DialResults] :
        /\ \A i \in Effect.from .. Effect.to : result[i] \in DialResultsFor(i)
        /\ wlegs' = [i \in LegId |->
             IF /\ i \in Effect.from .. Effect.to /\ result[i] \in {"ccid", "created"}
                /\ wlegs[i].status = "none"
             THEN [user |-> machine.legs[i].user, status |-> "ringing"] ELSE wlegs[i]]
        /\ Done([n \in 1 .. Effect.to + 1 - Effect.from |->
                DialOutcome(Effect.from + n - 1, result[Effect.from + n - 1])])
  BY DEF ExecDial
<1> DEFINE k == Effect.to + 1 - Effect.from
           f == [n \in 1 .. k |-> DialOutcome(Effect.from + n - 1, result[Effect.from + n - 1])]
<1>2. Effect.from \in LegId /\ Effect.to \in LegId BY ExecutingIs, EffectFields DEF ExecDial
<1>3. \A i \in LegId : \A x : DialOutcome(i, x) \in FollowUp BY DEF DialOutcome, FollowUp
<1>4. \A n \in 1 .. k : Effect.from + n - 1 \in Effect.from .. Effect.to /\ Effect.from + n - 1 \in LegId
  BY <1>2, MaxLegsAssumption DEF LegId
<1>5. f \in [1 .. k -> FollowUp] BY <1>3, <1>4
<1>6. PICK l \in Nat : 1 .. k = 1 .. l BY <1>2, MaxLegsAssumption DEF LegId
<1>7. f \in [1 .. l -> FollowUp] BY <1>5, <1>6
<1>8. Done(f) /\ DOMAIN f = 1 .. k BY <1>1
<1>9. \A n \in 1 .. k : f[n].type = "dial-outcome" /\ f[n].leg = Effect.from + n - 1
  BY DEF DialOutcome
<1>10. \A n \in 1 .. k : f[n].outcome = "ccid" => result[Effect.from + n - 1] = "ccid"
  BY DEF DialOutcome
<1> HIDE DEF f, k
<1>11. f \in Seq(FollowUp) BY <1>7
<1>12. OneEach(f)
  <2>1. ASSUME NEW p \in 1 .. k, NEW q \in 1 .. k, f[p].leg = f[q].leg PROVE p = q
    <3>1. Effect.from + p - 1 = Effect.from + q - 1 BY <1>9, <2>1
    <3> QED BY <1>2, <3>1 DEF LegId, k
  <2> QED BY <1>8, <2>1 DEF OneEach
<1>13. Effect.kind \in DialKinds BY DEF ExecDial, Executing, Effect, DialKinds
<1>14. ASSUME NEW n \in 1 .. k
       PROVE  /\ f[n].leg \in Effect.from .. Effect.to /\ LegSaid(f[n], wlegs') /\ f[n].type \in Calm
              /\ f[n].outcome = "ccid" => wlegs'[f[n].leg].status # "none"
  <2>1. f[n].leg \in Effect.from .. Effect.to /\ f[n].leg \in LegId BY <1>4, <1>9
  <2>2. LegSaid(f[n], wlegs') /\ f[n].type \in Calm
    BY <1>9 DEF LegSaid, AnsweredHooks, HangupHooks, Calm
  <2>3. f[n].outcome = "ccid" => wlegs'[f[n].leg].status # "none"
    BY <1>1, <1>9, <1>10, <2>1
  <2> QED BY <2>1, <2>2, <2>3
<1>15. Effect.kind # "telnyx-answer-vm" BY <1>13 DEF DialKinds
<1>16. Bears(f) BY <1>8, <1>12, <1>13, <1>14, <1>15 DEF Bears, Ran, IsDial
<1> QED BY <1>8, <1>11, <1>16 DEF Done

\* A report of one event, or of none, of an effect that dials nobody.
LEMMA OneBears ==
  ASSUME NEW ev \in FollowUp, ~IsOutcome(ev), LegSaid(ev, wlegs'), Done(<<ev>>),
         Effect.kind \in MildKinds => ev.type \in Calm,
         Effect.kind = "telnyx-answer-vm" => ev.type = "vm-answer-outcome"
  PROVE  UNCHANGED journal \/ \E fu \in Seq(FollowUp) : Bears(fu) /\ Advance(fu)
<1>1. <<ev>> \in Seq(FollowUp) OBVIOUS
<1>2. Bears(<<ev>>) BY RanOne DEF Bears
<1> QED BY <1>1, <1>2 DEF Done

LEMMA NoneBears ==
  ASSUME Done(<<>>) \/ Advance(<<>>), Effect.kind # "telnyx-answer-vm"
  PROVE  UNCHANGED journal \/ \E fu \in Seq(FollowUp) : Bears(fu) /\ Advance(fu)
<1>1. <<>> \in Seq(FollowUp) OBVIOUS
<1>2. Bears(<<>>) BY RanOne DEF Bears
<1> QED BY <1>1, <1>2 DEF Done

\* Nothing but a probe and a webhook speaks of a leg's end.
LEMMA SaysNothing ==
  ASSUME NEW ev, ev.type \notin AnsweredHooks \cup HangupHooks \cup {"member-probe-outcome"}, NEW legs
  PROVE  LegSaid(ev, legs)
  BY DEF LegSaid

\* Every effect.
LEMMA ExecuteRuns == ASSUME TypeOK, Execute PROVE Runs
<1>1. Effect.kind = "telnyx-hangup" => \A i \in Effect.legs : wlegs'[i].status \notin Up
  <2>1. SUFFICES ASSUME Effect.kind = "telnyx-hangup" PROVE \A i \in Effect.legs : wlegs'[i].status \notin Up
    OBVIOUS
  <2>2. ExecHangupLegs
    BY <2>1 DEF Execute, Executing, Effect, ExecMirror, ExecMirrorFails, ExecDial, ExecAnswerInbound,
       ExecAnswerNotice, ExecAnswerVm, ExecBridge, ExecHangupCustomer, ExecReject, ExecMedia,
       ExecQuietly, ExecPushFanout, ExecTerminalMerge, ExecVoicemailPipeline, ExecAlarmSlot
  <2>3. Effect.legs \in SUBSET LegId BY <2>2, ExecutingIs, EffectFields DEF ExecHangupLegs
  <2>4. wlegs' = Drop({i \in Effect.legs : wlegs[i].status \in Up}) BY <2>2 DEF ExecHangupLegs
  <2>5. wlegs \in [LegId -> WorldLeg] BY DEF TypeOK
  <2> QED BY <2>3, <2>4, <2>5 DEF Drop, WorldLeg, Up
<1> SUFFICES UNCHANGED journal \/ \E fu \in Seq(FollowUp) : Bears(fu) /\ Advance(fu)
  BY <1>1 DEF Runs
<1>2. CASE ExecAnswerInbound
  <2> DEFINE ev == [type |-> "answer-outcome", ok |-> AnswerTakes, leg |-> Effect.leg,
                    user |-> Effect.user]
  <2>1. Effect.leg \in LegId /\ Effect.user \in Maybe(User)
    BY <1>2, ExecutingIs, EffectFields DEF ExecAnswerInbound
  <2>2. ev \in FollowUp /\ ev.type = "answer-outcome" BY <2>1 DEF FollowUp, AnswerTakes
  <2>3. Effect.kind = "telnyx-answer-inbound" /\ Done(<<ev>>)
    BY <1>2 DEF ExecAnswerInbound, AnswerCustomer, Executing, Effect
  <2> HIDE DEF ev
  <2>4. LegSaid(ev, wlegs') /\ ~IsOutcome(ev)
    BY <2>2, SaysNothing DEF AnsweredHooks, HangupHooks, IsOutcome
  <2> QED BY <2>2, <2>3, <2>4, OneBears DEF MildKinds, DialKinds
<1>3. CASE ExecAnswerNotice
  <2> DEFINE ev == [type |-> "notice-answer-outcome", ok |-> AnswerTakes]
  <2>2. ev \in FollowUp /\ ev.type = "notice-answer-outcome" BY DEF FollowUp, AnswerTakes
  <2>3. Effect.kind = "telnyx-answer-notice" /\ Done(<<ev>>)
    BY <1>3 DEF ExecAnswerNotice, AnswerCustomer, Executing, Effect
  <2> HIDE DEF ev
  <2>4. LegSaid(ev, wlegs') /\ ~IsOutcome(ev)
    BY <2>2, SaysNothing DEF AnsweredHooks, HangupHooks, IsOutcome
  <2> QED BY <2>2, <2>3, <2>4, OneBears DEF MildKinds, DialKinds
<1>4. CASE ExecAnswerVm
  <2> DEFINE ev == [type |-> "vm-answer-outcome", ok |-> AnswerTakes]
  <2>2. ev \in FollowUp /\ ev.type = "vm-answer-outcome" BY DEF FollowUp, AnswerTakes
  <2>3. Effect.kind = "telnyx-answer-vm" /\ Done(<<ev>>)
    BY <1>4 DEF ExecAnswerVm, AnswerCustomer, Executing, Effect
  <2> HIDE DEF ev
  <2>4. LegSaid(ev, wlegs') /\ ~IsOutcome(ev)
    BY <2>2, SaysNothing DEF AnsweredHooks, HangupHooks, IsOutcome
  <2> QED BY <2>2, <2>3, <2>4, OneBears DEF MildKinds, DialKinds
<1>5. CASE ExecHangupCustomer
  <2>1. Effect.kind = "telnyx-hangup-customer" BY <1>5 DEF ExecHangupCustomer, Executing, Effect
  <2> DEFINE ev == [type |-> "inbound-leg-gone"]
  <2>2. ev \in FollowUp /\ ev.type = "inbound-leg-gone" BY DEF FollowUp
  <2>3. Done(<<>>) \/ Done(<<ev>>) BY <1>5 DEF ExecHangupCustomer
  <2> HIDE DEF ev
  <2>4. LegSaid(ev, wlegs') /\ ~IsOutcome(ev)
    BY <2>2, SaysNothing DEF AnsweredHooks, HangupHooks, IsOutcome
  <2> QED BY <2>1, <2>2, <2>3, <2>4, OneBears, NoneBears DEF MildKinds, DialKinds
<1>6. CASE ExecPushFanout
  <2>1. PICK unreachable \in SUBSET machine.push :
          Done(<<[type |-> "push-fanout-settled", unreachable |-> unreachable]>>)
    BY <1>6 DEF ExecPushFanout
  <2> DEFINE ev == [type |-> "push-fanout-settled", unreachable |-> unreachable]
  <2>2. ev \in FollowUp /\ ev.type = "push-fanout-settled"
    BY DEF TypeOK, MachineOK, SessionMachine, FollowUp
  <2>3. Effect.kind = "push-fanout" /\ Done(<<ev>>) BY <1>6, <2>1 DEF ExecPushFanout, Executing, Effect
  <2> HIDE DEF ev
  <2>4. LegSaid(ev, wlegs') /\ ~IsOutcome(ev) /\ ev.type \in Calm
    BY <2>2, SaysNothing DEF AnsweredHooks, HangupHooks, IsOutcome, Calm
  <2> QED BY <2>2, <2>3, <2>4, OneBears
<1>7. CASE ExecQuietly
  <2> DEFINE ev == [type |-> "member-probe-outcome", leg |-> Effect.leg, user |-> Effect.user,
                    ok |-> wlegs[Effect.leg].status \in Up]
  <2>1. CASE Executing("push-call-end")
    <3>1. Done(<<>>) /\ Effect.kind = "push-call-end"
      BY <1>7, <2>1 DEF ExecQuietly, Executing, Effect
    <3> QED BY <3>1, NoneBears
  <2>2. CASE Executing("telnyx-probe-member-leg")
    <3>1. Effect.leg \in LegId /\ Effect.user \in Maybe(User) BY <2>2, ExecutingIs, EffectFields
    <3>2. ev \in FollowUp BY <3>1 DEF FollowUp
    <3>3. Effect.kind = "telnyx-probe-member-leg" /\ Done(<<ev>>)
      BY <1>7, <2>2 DEF ExecQuietly, Executing, Effect
    <3>4. ev.type = "member-probe-outcome" /\ ev.leg = Effect.leg
            /\ (ev.ok <=> wlegs[Effect.leg].status \in Up)
      OBVIOUS
    <3> HIDE DEF ev
    <3>5. wlegs' = wlegs /\ wlegs \in [LegId -> WorldLeg] BY <1>7 DEF ExecQuietly, TypeOK, world
    <3>6. ~ev.ok => wlegs'[ev.leg].status \in {"none", "gone"} BY <3>1, <3>4, <3>5 DEF WorldLeg, Up
    <3>7. LegSaid(ev, wlegs') /\ ~IsOutcome(ev)
      BY <3>4, <3>6 DEF LegSaid, AnsweredHooks, HangupHooks, IsOutcome
    <3> QED BY <3>2, <3>3, <3>7, OneBears DEF MildKinds, DialKinds
  <2> QED BY <1>7, <2>1, <2>2 DEF ExecQuietly
<1>8. CASE \/ ExecBridge \/ ExecHangupLegs \/ ExecReject \/ ExecMedia \/ ExecMirror
           \/ ExecMirrorFails \/ ExecTerminalMerge \/ ExecAlarmSlot
  <2>1. Done(<<>>) \/ Advance(<<>>)
    BY <1>8 DEF ExecBridge, ExecHangupLegs, ExecReject, ExecMedia, ExecMirror, ExecMirrorFails,
       ExecTerminalMerge, ExecAlarmSlot
  <2>2. Effect.kind # "telnyx-answer-vm"
    BY <1>8 DEF ExecBridge, ExecHangupLegs, ExecReject, ExecMedia, ExecMirror, ExecMirrorFails,
       ExecTerminalMerge, ExecAlarmSlot, Executing, Effect
  <2> QED BY <2>1, <2>2, NoneBears
<1>9. CASE ExecVoicemailPipeline
  <2>1. Done(<<>>) \/ Advance(<<>>) \/ UNCHANGED journal
    BY <1>9 DEF ExecVoicemailPipeline, VoicemailStored, NothingKept, VoicemailThrows
  <2>2. Effect.kind # "telnyx-answer-vm" BY <1>9 DEF ExecVoicemailPipeline, Executing, Effect
  <2> QED BY <2>1, <2>2, NoneBears
<1> QED BY <1>2, <1>3, <1>4, <1>5, <1>6, <1>7, <1>8, <1>9, DialBears DEF Execute


(***************************************************************************)
(* LegInv.  The machine's books of the members' legs are in order, and     *)
(* they agree with the provider's legs.                                    *)
(***************************************************************************)
\* A leg the machine knows of was dialed.
Reached == \A i \in Known(machine) : wlegs[i].status # "none"

\* A leg the machine gave up is down, or the effect that hangs it up is still to run.
GivenUp == \A i \in GaveUp(machine) : wlegs[i].status = "gone" \/ i \in Hung(Unrun)

\* A caller is greeted when no phone rings any more, or will be silenced first.
Greeted ==
  machine.state = "voicemail_greeting"
    => \/ Silent(machine)
       \/ AnswerVm \in Unrun
       \/ \E e \in Coming : e.type = "vm-answer-outcome"

\* What the machine has not dialed, nobody has.
Undialed ==
  \A i \in LegId :
    \/ machine.state \in Presenting /\ i > machine.dialed
    \/ isNone(machine) /\ ~Settled
    => wlegs[i].status = "none"

\* What the feed and the effects have told of a leg is so.
Said == \A w \in net \cup Coming : LegSaid(w, wlegs)

Results == {e \in Coming : IsOutcome(e)}

\* Only what an effect reports comes together with more to be reduced.
LoneHead ==
  journal.open /\ ~journal.reduced /\ journal.event \notin FollowUp => journal.rest = <<>>

\* A dial and its outcomes speak of records that wait for them; they do not meet,
\* and what may stand next to them does not move the session.
DialsInv ==
  /\ RingsAwaited(Unrun, machine)
  /\ \A e \in Results :
       /\ Awaited(machine, e.leg) /\ (machine.direction = "outbound" => e.leg = 1)
       /\ e.outcome = "ccid" => wlegs[e.leg].status # "none"
  /\ Rung(Unrun) => Results = {}
  /\ DialOnce(journal.fx) /\ OneEach(Queue)
  /\ Rung(Unrun) \/ Results # {}
       => (\A e \in Coming : e.type \in Calm) /\ (\A e \in Unrun : e.kind \in MildKinds)

LegInv ==
  /\ Books(machine) /\ Reached /\ GivenUp /\ Greeted /\ Undialed
  /\ Said /\ LoneHead /\ DialsInv

\* So it is in the next state.
LEMMA QueueIsNext == ASSUME TypeOK' PROVE Coming' = Ran(Queue')
<1>1. (TypeOK => Coming = Ran(Queue))' BY QueueIs, PTL
<1> QED BY <1>1

\* What running an effect leaves.
LEMMA ExecuteLeaves ==
  ASSUME TypeOK, TypeOK', Execute
  PROVE  /\ machine' = machine /\ journal.open /\ journal.reduced
         /\ Effect \in Unrun /\ Unrun' \subseteq Unrun
         /\ \A e \in Unrun : e = Effect \/ e \in Unrun'
         /\ journal'.open /\ ~journal'.reduced => journal'.event \in FollowUp
         /\ \/ Unrun' = Unrun /\ Queue' = Queue /\ Coming' = Coming /\ journal'.fx = journal.fx
            \/ \E fu \in Seq(FollowUp) :
                 /\ Bears(fu) /\ Queue' = Queue \o fu /\ Coming' = Coming \cup Ran(fu)
                 /\ DialOnce(journal.fx)
                      => DialOnce(journal'.fx) /\ (IsDial(Effect) => ~Rung(Unrun'))
<1>1. Executes /\ Runs BY ExecuteForms, ExecuteRuns
<1>2. /\ machine' = machine /\ journal.open /\ journal.reduced
      /\ Effect \in Unrun /\ Unrun' \subseteq Unrun
      /\ \A e \in Unrun : e = Effect \/ e \in Unrun'
      /\ journal'.open /\ ~journal'.reduced => journal'.event \in FollowUp
  BY <1>1 DEF Executes, Passes
<1>3. CASE UNCHANGED journal
  <2>1. Unrun' = Unrun /\ Queue' = Queue /\ Coming' = Coming /\ journal'.fx = journal.fx
    BY <1>3 DEF Unrun, Queue, Coming
  <2> QED BY <1>2, <2>1
<1>4. CASE \E fu \in Seq(FollowUp) : Bears(fu) /\ Advance(fu)
  <2>1. PICK fu \in Seq(FollowUp) : Bears(fu) /\ Advance(fu) BY <1>4
  <2>2. journal.rest \in Seq(FollowUp) /\ Queue = journal.rest
    BY <1>2, QueueIs DEF Queue, QueueOf
  <2>3. journal.fx \in Seq(Unrun) /\ journal.fx # <<>> BY <1>2, UnrunIs
  <2> DEFINE fx   == Tail(journal.fx)
             rest == journal.rest \o fu
  <2>4. journal' = Advanced(fx, rest) BY <2>1 DEF Advance
  <2>5. rest \in Seq(FollowUp) BY <2>2
  <2>6. DialOnce(journal.fx)
          => DialOnce(fx) /\ (IsDial(Effect) => ~Rung(Eff(fx)))
    BY <2>3, DialTail DEF Effect
  <2>7. Ran(rest) = Ran(journal.rest) \cup Ran(fu) BY <2>2, RanConcat
  <2> HIDE DEF fx, rest
  <2>8. QueueOf(journal') = rest /\ journal'.fx = fx
    BY <1>2, <2>4, <2>5, AdvancedQueue, AdvancedFx
  <2>9. Queue' = Queue \o fu BY <2>2, <2>8 DEF Queue, rest
  <2>10. Coming' = Ran(Queue') /\ Coming = Ran(Queue) BY QueueIs, QueueIsNext
  <2>11. Coming' = Coming \cup Ran(fu) BY <2>2, <2>7, <2>9, <2>10 DEF rest
  <2>12. Unrun' = Eff(fx) BY <2>8 DEF Unrun
  <2> QED BY <1>2, <2>1, <2>6, <2>8, <2>9, <2>11, <2>12
<1> QED BY <1>1, <1>3, <1>4 DEF Runs


\* An effect that is still to be run is one the rest of which is too.
LEMMA HungPasses ==
  ASSUME \A e \in Unrun : e = Effect \/ e \in Unrun', NEW i \in Hung(Unrun)
  PROVE  i \in Hung(Unrun)' \/ (Effect.kind = "telnyx-hangup" /\ i \in Effect.legs)
<1>1. PICK e \in Unrun : e.kind = "telnyx-hangup" /\ i \in e.legs BY DEF Hung
<1> QED BY <1>1 DEF Hung

\* What the machine and the feed know of the legs outlives a step of the world's.
LEMMA LegsHold ==
  ASSUME TypeOK, TypeOK', LegInv, LegsLive
  PROVE  /\ Known(machine) \subseteq LegId /\ GaveUp(machine) \subseteq Known(machine)
         /\ \A i \in Known(machine) : wlegs'[i].status # "none"
         /\ \A i \in LegId :
              \/ machine.state \in Presenting /\ i > machine.dialed
              \/ isNone(machine) /\ ~Settled
              => wlegs'[i].status = "none"
         /\ \A w \in net \cup net' \cup Coming : LegSaid(w, wlegs')
<1>1. Known(machine) \subseteq LegId /\ GaveUp(machine) \subseteq Known(machine)
  BY DEF TypeOK, MachineOK, SessionMachine, Leg, Known, GaveUp, CcidsOf, LegsWith
<1>2. \A i \in LegId : wlegs'[i].status \in {"none", "ringing", "live", "gone"}
  BY DEF TypeOK, WorldLeg
<1>3. \A i \in Known(machine) : wlegs'[i].status # "none"
  BY <1>1 DEF LegInv, Reached, LegsLive
<1>4. ASSUME NEW i \in LegId,
             \/ machine.state \in Presenting /\ i > machine.dialed
             \/ isNone(machine) /\ ~Settled,
             wlegs'[i].status # "none"
      PROVE  FALSE
  <2>1. Effect \in Unrun /\ IsDial(Effect) /\ i \in Effect.from .. Effect.to
    BY <1>4 DEF LegsLive, LegInv, Undialed
  <2>2. Awaited(machine, i) BY <2>1 DEF LegInv, DialsInv, RingsAwaited
  <2>3. machine.dialed \in Nat /\ i \in Nat BY DEF TypeOK, MachineOK, SessionMachine, LegId
  <2> QED BY <1>4, <2>2, <2>3 DEF Awaited, Presenting, isNone
<1>5. ASSUME NEW w \in net \cup Coming PROVE LegSaid(w, wlegs')
  <2>1. LegSaid(w, wlegs) BY <1>5 DEF LegInv, Said
  <2>2. w \in Hook \cup Event BY <1>5, QueueIs DEF TypeOK, Ran
  <2>3. w.type \in AnsweredHooks \cup HangupHooks \cup {"member-probe-outcome"} => w.leg \in LegId
    BY <2>2 DEF Hook, Event, Webhook, FollowUp, Asked, Mint, Initiations, AnsweredHooks, HangupHooks
  <2>4. ASSUME w.type = "member-probe-outcome" /\ ~w.ok
        PROVE  wlegs'[w.leg].status \in {"none", "gone"}
    <3>1. w \notin net BY <2>4 DEF TypeOK, Hook, Webhook, Initiations
    <3>2. ~Rung(Unrun) BY <1>5, <2>4, <3>1 DEF LegInv, DialsInv, Calm
    <3>3. ~(Effect \in Unrun /\ IsDial(Effect)) BY <3>2 DEF Rung
    <3> QED BY <1>2, <2>1, <2>3, <2>4, <3>3 DEF LegSaid, LegsLive
  <2> QED BY <2>1, <2>3, <2>4 DEF LegSaid, LegsLive
<1> QED BY <1>1, <1>3, <1>4, <1>5 DEF LegsLive

\* LegInv survives the running of an effect.
LEMMA LegExecutes ==
  ASSUME TypeOK, TypeOK', LegInv, [Next]_vars, Execute, Settled => Settled'
  PROVE  LegInv'
<1>1. /\ machine' = machine /\ journal.open /\ journal.reduced
      /\ Effect \in Unrun /\ Unrun' \subseteq Unrun
      /\ \A e \in Unrun : e = Effect \/ e \in Unrun'
      /\ journal'.open /\ ~journal'.reduced => journal'.event \in FollowUp
      /\ \/ Unrun' = Unrun /\ Queue' = Queue /\ Coming' = Coming /\ journal'.fx = journal.fx
         \/ \E fu \in Seq(FollowUp) :
              /\ Bears(fu) /\ Queue' = Queue \o fu /\ Coming' = Coming \cup Ran(fu)
              /\ DialOnce(journal.fx)
                   => DialOnce(journal'.fx) /\ (IsDial(Effect) => ~Rung(Unrun'))
  BY ExecuteLeaves
<1>2. LegsLive BY NextLegsLive
<1>3. Effect.kind = "telnyx-hangup" => \A i \in Effect.legs : wlegs'[i].status \notin Up
  BY ExecuteRuns DEF Runs
<1>4. /\ Known(machine) \subseteq LegId /\ GaveUp(machine) \subseteq Known(machine)
      /\ \A i \in Known(machine) : wlegs'[i].status # "none"
      /\ \A w \in net \cup net' \cup Coming : LegSaid(w, wlegs')
  BY <1>2, LegsHold
<1>5. \A i \in LegId : wlegs'[i].status \in {"none", "ringing", "live", "gone"}
  BY DEF TypeOK, WorldLeg
<1>6. Books(machine') BY <1>1 DEF LegInv
<1>7. Reached' BY <1>1, <1>4 DEF Reached
<1>8. GivenUp'
  <2>1. SUFFICES ASSUME NEW i \in GaveUp(machine) PROVE wlegs'[i].status = "gone" \/ i \in Hung(Unrun)'
    BY <1>1 DEF GivenUp
  <2>2. i \in LegId /\ wlegs'[i].status # "none" BY <1>1, <1>4, <1>7 DEF Reached
  <2>3. CASE wlegs[i].status = "gone" BY <1>2, <2>2, <2>3 DEF LegsLive
  <2>4. CASE i \in Hung(Unrun)
    <3>1. CASE Effect.kind = "telnyx-hangup" /\ i \in Effect.legs
      BY <1>3, <1>5, <2>2, <3>1 DEF Up
    <3> QED BY <1>1, <2>4, <3>1, HungPasses
  <2> QED BY <2>3, <2>4 DEF LegInv, GivenUp
<1>9. Greeted'
  <2>1. SUFFICES ASSUME machine.state = "voicemail_greeting", ~Silent(machine)
                 PROVE  AnswerVm \in Unrun' \/ \E e \in Coming' : e.type = "vm-answer-outcome"
    BY <1>1 DEF Greeted
  <2>2. Coming \subseteq Coming' BY <1>1
  <2>3. CASE \E e \in Coming : e.type = "vm-answer-outcome" BY <2>2, <2>3
  <2>4. CASE AnswerVm \in Unrun
    <3>1. AnswerVm.kind = "telnyx-answer-vm" BY DEF AnswerVm
    <3> QED BY <1>1, <2>4, <3>1 DEF Bears
  <2> QED BY <2>1, <2>3, <2>4 DEF LegInv, Greeted
<1>10. Undialed' BY <1>1, <1>2, LegsHold DEF Undialed
<1>11. LoneHead' BY <1>1 DEF LoneHead
<1>12. \A e \in Results' :
         \/ e \in Results
         \/ IsDial(Effect) /\ Results = {} /\ ~Rung(Unrun')
            /\ e.leg \in Effect.from .. Effect.to /\ (e.outcome = "ccid" => wlegs'[e.leg].status # "none")
  <2>1. CASE Coming' = Coming BY <2>1 DEF Results
  <2>2. ASSUME NEW fu \in Seq(FollowUp), Bears(fu), Coming' = Coming \cup Ran(fu),
               IsDial(Effect) => ~Rung(Unrun'), NEW e \in Ran(fu), IsOutcome(e)
        PROVE  /\ IsDial(Effect) /\ Results = {} /\ ~Rung(Unrun')
               /\ e.leg \in Effect.from .. Effect.to
               /\ e.outcome = "ccid" => wlegs'[e.leg].status # "none"
    <3>1. IsDial(Effect) /\ e.leg \in Effect.from .. Effect.to
            /\ (e.outcome = "ccid" => wlegs'[e.leg].status # "none")
      BY <2>2 DEF Bears
    <3>2. Rung(Unrun) BY <1>1, <3>1 DEF Rung
    <3> QED BY <2>2, <3>1, <3>2 DEF LegInv, DialsInv
  <2> QED BY <1>1, <2>1, <2>2 DEF LegInv, DialsInv, Results
<1>13. Said' BY <1>1, <1>4 DEF Said, Bears
<1>14. DialsInv'
  <2>1. RingsAwaited(Unrun', machine') BY <1>1 DEF LegInv, DialsInv, RingsAwaited
  <2>2. \A e \in Results' :
          /\ Awaited(machine', e.leg) /\ (machine'.direction = "outbound" => e.leg = 1)
          /\ e.outcome = "ccid" => wlegs'[e.leg].status # "none"
    <3>1. SUFFICES ASSUME NEW e \in Results'
                   PROVE  /\ Awaited(machine, e.leg) /\ (machine.direction = "outbound" => e.leg = 1)
                          /\ e.outcome = "ccid" => wlegs'[e.leg].status # "none"
      BY <1>1
    <3>2. CASE e \in Results
      <4>1. e.leg \in LegId
        BY <3>2, QueueIs, EventFields DEF Results, IsOutcome, Ran
      <4> QED BY <1>2, <3>2, <4>1 DEF LegInv, DialsInv, LegsLive
    <3>3. CASE e \notin Results BY <1>1, <1>12, <3>3 DEF LegInv, DialsInv, RingsAwaited
    <3> QED BY <3>2, <3>3
  <2>3. Rung(Unrun') => Rung(Unrun) BY <1>1 DEF Rung
  <2>4. Rung(Unrun') => Results' = {} BY <1>12, <2>3 DEF LegInv, DialsInv
  <2>5. DialOnce(journal'.fx) BY <1>1 DEF LegInv, DialsInv
  <2>6. OneEach(Queue')
    <3>1. ASSUME NEW fu \in Seq(FollowUp), Bears(fu), Queue' = Queue \o fu PROVE OneEach(Queue')
      <4>1. Queue \in Seq(Event) /\ fu \in Seq(Event) BY <3>1, QueueIs
      <4>2. OneEach(Queue) /\ OneEach(fu) BY <3>1 DEF LegInv, DialsInv, Bears
      <4>3. (\A x \in Ran(Queue) : ~IsOutcome(x)) \/ (\A x \in Ran(fu) : ~IsOutcome(x))
        <5>1. CASE IsDial(Effect)
          <6>1. Results = {} BY <1>1, <5>1 DEF LegInv, DialsInv, Rung
          <6> QED BY <6>1, QueueIs DEF Results
        <5>2. CASE ~IsDial(Effect) BY <3>1, <5>2 DEF Bears
        <5> QED BY <5>1, <5>2
      <4> QED BY <3>1, <4>1, <4>2, <4>3, OneEachConcat
    <3> QED BY <1>1, <3>1 DEF LegInv, DialsInv
  <2>7. ASSUME Rung(Unrun') \/ Results' # {}
        PROVE  (\A e \in Coming' : e.type \in Calm) /\ (\A e \in Unrun' : e.kind \in MildKinds)
    <3>1. Rung(Unrun) \/ Results # {} BY <1>1, <1>12, <2>3, <2>7 DEF Rung
    <3>2. (\A e \in Coming : e.type \in Calm) /\ (\A e \in Unrun : e.kind \in MildKinds)
      BY <3>1 DEF LegInv, DialsInv
    <3> QED BY <1>1, <3>2 DEF Bears
  <2> QED BY <2>1, <2>2, <2>4, <2>5, <2>6, <2>7 DEF DialsInv
<1> QED BY <1>6, <1>7, <1>8, <1>9, <1>10, <1>11, <1>13, <1>14 DEF LegInv


\* What the reducer leaves of the queue.
LEMMA ReduceLeaves ==
  ASSUME TypeOK, TypeOK', Reduce
  PROVE  /\ Reduces /\ Unrun = {}
         /\ Queue = <<journal.event>> \o journal.rest /\ Queue' = journal.rest
         /\ Coming' = Ran(journal.rest) /\ Coming = {journal.event} \cup Ran(journal.rest)
         /\ UNCHANGED << net, wlegs, row >>
<1> DEFINE fx == reduce(machine, journal.event).fx
<1>1. Reduces BY ReduceForm
<1>2. Unrun = {} BY <1>1, UnrunIs DEF Reduces
<1>3. journal.open /\ ~journal.reduced /\ journal.rest \in Seq(FollowUp) BY <1>1, QueueIs DEF Reduces
<1>4. journal' = IF fx = <<>> THEN Advanced(<<>>, journal.rest)
                 ELSE [journal EXCEPT !.reduced = TRUE, !.fx = fx]
  BY DEF Reduce
<1> HIDE DEF fx
<1>5. DOMAIN journal = {"open", "event", "reduced", "fx", "rest"} BY DEF TypeOK, JournalOK
<1>6. Queue' = journal.rest
  <2>1. CASE fx = <<>>
    <3>1. QueueOf(Advanced(<<>>, journal.rest)) = journal.rest BY <1>3, AdvancedQueue
    <3> QED BY <1>4, <2>1, <3>1 DEF Queue
  <2>2. CASE fx # <<>>
    <3>1. journal'.reduced /\ journal'.rest = journal.rest BY <1>4, <1>5, <2>2
    <3> QED BY <3>1 DEF Queue, QueueOf
  <2> QED BY <2>1, <2>2
<1>7. Coming' = Ran(journal.rest) BY <1>6, QueueIsNext
<1> QED BY <1>1, <1>2, <1>3, <1>6, <1>7 DEF Reduces, Queue, QueueOf, Coming

\* LegInv holds when a session is opened,
LEMMA LegOpens ==
  ASSUME CallInv, TypeOK', LegInv, Reduce, isNone(machine)
  PROVE  LegInv'
<1> DEFINE r == reduce(machine, journal.event)
<1>1. /\ Reduces /\ Queue' = journal.rest /\ Coming' = Ran(journal.rest)
      /\ UNCHANGED << net, wlegs, row >>
  BY ReduceLeaves DEF CallInv
<1>2. /\ machine' = r.m /\ journal'.fx = r.fx /\ Unrun' = Eff(r.fx) /\ journal.event \in Event
      /\ journal'.open /\ ~journal'.reduced => journal'.event \in FollowUp
  BY <1>1 DEF Reduces
<1>3. journal.event.type \in Initiations /\ ~Settled
  BY <1>1 DEF Reduces, CallInv, OutcomeInv, EmptyInv, Initiating
<1>4. journal.rest = <<>>
  <2>1. journal.event \notin FollowUp BY <1>3 DEF FollowUp, Initiations
  <2> QED BY <1>1, <2>1 DEF LegInv, LoneHead, Reduces
<1>5. Coming' = {} /\ Results' = {} /\ OneEach(Queue') BY <1>1, <1>4, RanOne DEF Results
<1>6. Opened(r) BY <1>2, <1>3, MintOpens DEF Initiations
<1>7. \A i \in LegId : wlegs[i].status = "none" BY <1>3 DEF LegInv, Undialed
<1> HIDE DEF r
<1>8. Books(machine') /\ Reached' /\ GivenUp' /\ Greeted'
  BY <1>2, <1>6 DEF Opened, Reached, GivenUp, Greeted
<1>9. Undialed' BY <1>1, <1>7 DEF Undialed
<1>10. Said' BY <1>1, <1>5 DEF Said, LegInv
<1>11. LoneHead' BY <1>2 DEF LoneHead
<1>12. DialsInv' BY <1>2, <1>5, <1>6 DEF DialsInv, Opened
<1> QED BY <1>8, <1>9, <1>10, <1>11, <1>12 DEF LegInv

\* What the event that is reduced finds.
LEMMA LegReady ==
  ASSUME CallInv, TagInv, LegInv, Reduces, Unrun = {}, Coming = {journal.event} \cup Ran(journal.rest),
         ~isNone(machine)
  PROVE  Ready(machine, journal.event)
<1> DEFINE ev == journal.event
<1>1. machine.state \in {"voicemail_greeting", "voicemail_recording"} => machine.direction = "inbound"
  BY DEF TagInv
<1>2. ASSUME ev.type = "speak-ended", machine.state = "voicemail_greeting" PROVE Silent(machine)
  <2>1. ev \notin FollowUp BY <1>2 DEF FollowUp
  <2>2. journal.rest = <<>> BY <2>1 DEF LegInv, LoneHead, Reduces
  <2>3. Coming = {ev} BY <2>2, RanOne
  <2> QED BY <1>2, <2>3 DEF LegInv, Greeted
<1>3. ASSUME ev.type = "dial-outcome", ev.outcome = "ccid" PROVE Awaited(machine, ev.leg)
  <2>1. ev \in Results BY <1>3 DEF Results, IsOutcome
  <2> QED BY <2>1 DEF LegInv, DialsInv
<1> QED BY <1>1, <1>2, <1>3 DEF Ready

\* when it is told of something,
LEMMA LegLearns ==
  ASSUME CallInv, CallInv', AnswerInv, TagInv, LegInv, Reduce, ~isNone(machine)
  PROVE  /\ Books(machine') /\ Reached' /\ GivenUp' /\ Greeted' /\ Undialed' /\ Said' /\ LoneHead'
         /\ Known(machine') \subseteq Known(machine) \cup Learned(journal.event)
<1> DEFINE ev == journal.event
           r  == reduce(machine, ev)
<1>0. TypeOK /\ TypeOK' BY DEF CallInv
<1>1. /\ Reduces /\ Unrun = {} /\ UNCHANGED << net, wlegs, row >>
      /\ Queue = <<ev>> \o journal.rest /\ Queue' = journal.rest
      /\ Coming' = Ran(journal.rest) /\ Coming = {ev} \cup Ran(journal.rest)
  BY <1>0, ReduceLeaves
<1>2. /\ machine' = r.m /\ journal'.fx = r.fx /\ Unrun' = Eff(r.fx) /\ ev \in Event
      /\ journal'.open /\ ~journal'.reduced => journal'.event \in FollowUp
      /\ journal.open /\ ~journal.reduced
  BY <1>1 DEF Reduces
<1>3. MachineOK(machine) /\ MachineOK(machine') /\ Books(machine) BY <1>0 DEF TypeOK, LegInv
<1>4. Ready(machine, ev) BY <1>1, LegReady
<1>5. LegStep(machine, ev, r) BY <1>2, <1>3, <1>4, ReduceLegs
<1>6. ~Rung(Eff(r.fx)) \/ (ev.type \in {"ring-me", "alarm-ring-step"} /\ Rings(machine, r))
  BY <1>2, <1>3, ReduceRings
<1>7. ~isNone(r.m) BY <1>2, <1>3, ReduceConcludes DEF Concludes
<1>8. LegSaid(ev, wlegs) BY <1>1 DEF LegInv, Said
<1>9. /\ Known(machine) \subseteq LegId /\ Known(r.m) \subseteq LegId
      /\ GaveUp(r.m) \subseteq Known(r.m)
  BY <1>2, <1>3 DEF MachineOK, SessionMachine, Leg, Known, GaveUp, CcidsOf, LegsWith
<1> HIDE DEF r
<1>10. /\ Books(r.m) /\ Known(r.m) \subseteq Known(machine) \cup Learned(ev)
       /\ GaveUp(r.m) \subseteq GaveUp(machine) \cup Told(ev) \cup Hung(Eff(r.fx))
       /\ r.m.state \in Presenting => r.m.state = machine.state /\ machine.dialed <= r.m.dialed
       /\ GreetStep(machine, ev, r)
  BY <1>5 DEF LegStep
<1>11. \A i \in Known(r.m) : wlegs[i].status # "none"
  <2>1. ASSUME NEW i \in Learned(ev) PROVE wlegs[i].status # "none"
    <3>1. CASE ev.type \in AnsweredHooks \cup HangupHooks
      BY <1>8, <2>1, <3>1 DEF LegSaid, Learned, AnsweredHooks, HangupHooks
    <3>2. CASE ev.type = "dial-outcome" /\ ev.outcome = "ccid"
      <4>1. ev \in Results BY <1>1, <3>2 DEF Results, IsOutcome
      <4>2. i = ev.leg BY <2>1, <3>2 DEF Learned
      <4> QED BY <3>2, <4>1, <4>2 DEF LegInv, DialsInv
    <3> QED BY <2>1, <3>1, <3>2 DEF Learned
  <2> QED BY <1>10, <2>1 DEF LegInv, Reached
<1>12. Reached' BY <1>1, <1>2, <1>11 DEF Reached
<1>13. GivenUp'
  <2>1. SUFFICES ASSUME NEW i \in GaveUp(r.m) PROVE wlegs[i].status = "gone" \/ i \in Hung(Eff(r.fx))
    BY <1>1, <1>2 DEF GivenUp
  <2>2. CASE i \in GaveUp(machine)
    <3>1. i \notin Hung(Unrun) BY <1>1 DEF Hung
    <3> QED BY <2>2, <3>1 DEF LegInv, GivenUp
  <2>3. CASE i \in Told(ev)
    <3>1. i = ev.leg /\ (ev.type \in HangupHooks \/ (ev.type = "member-probe-outcome" /\ ~ev.ok))
      BY <2>3 DEF Told
    <3>2. wlegs[i].status # "none" BY <1>9, <1>11
    <3> QED BY <1>8, <3>1, <3>2 DEF LegSaid
  <2> QED BY <1>10, <2>2, <2>3
<1>14. Greeted'
  <2>1. SUFFICES ASSUME r.m.state = "voicemail_greeting", ~Silent(r.m), AnswerVm \notin Eff(r.fx)
                 PROVE  \E e \in Coming' : e.type = "vm-answer-outcome"
    BY <1>2 DEF Greeted
  <2>2. machine.state = "voicemail_greeting" /\ ~Silent(machine) /\ ev.type # "vm-answer-outcome"
    BY <1>10, <2>1 DEF GreetStep
  <2>3. \E e \in Coming : e.type = "vm-answer-outcome" BY <1>1, <2>2 DEF LegInv, Greeted
  <2> QED BY <1>1, <2>2, <2>3
<1>15. Undialed'
  <2>1. SUFFICES ASSUME NEW i \in LegId, r.m.state \in Presenting, i > r.m.dialed
                 PROVE  wlegs[i].status = "none"
    BY <1>1, <1>2, <1>7 DEF Undialed
  <2>2. /\ machine.state \in Presenting /\ machine.dialed <= r.m.dialed
        /\ machine.dialed \in Int /\ r.m.dialed \in Int /\ i \in Int
    BY <1>2, <1>3, <1>10, <2>1 DEF MachineOK, SessionMachine, LegId
  <2>3. i > machine.dialed BY <2>1, <2>2
  <2> QED BY <2>2, <2>3 DEF LegInv, Undialed
<1>16. Said' BY <1>1 DEF LegInv, Said
<1>17. LoneHead' BY <1>2 DEF LoneHead
<1> QED BY <1>2, <1>10, <1>12, <1>13, <1>14, <1>15, <1>16, <1>17


\* A leg that is to be rung waits for its outcome,
LEMMA RingsDials ==
  ASSUME CallInv, CallInv', AnswerInv, TagInv, LegInv, Reduce, ~isNone(machine), Rung(Unrun')
  PROVE  DialsInv'
<1> DEFINE ev == journal.event
           r  == reduce(machine, ev)
           d  == machine.dialed + 1
<1>0. TypeOK /\ TypeOK' BY DEF CallInv
<1>1. /\ Reduces /\ UNCHANGED << net, wlegs, row >>
      /\ Queue' = journal.rest /\ Coming' = Ran(journal.rest)
  BY <1>0, ReduceLeaves
<1>2. /\ machine' = r.m /\ journal'.fx = r.fx /\ Unrun' = Eff(r.fx) /\ ev \in Event
      /\ journal.open /\ ~journal.reduced
  BY <1>1 DEF Reduces
<1>3. MachineOK(machine) BY <1>0 DEF TypeOK
<1>4. ev.type \in {"ring-me", "alarm-ring-step"} /\ Rings(machine, r) BY <1>2, <1>3, ReduceRings
<1>5. Known(machine') \subseteq Known(machine) \cup Learned(ev) BY LegLearns
<1>6. Learned(ev) = {} BY <1>4 DEF Learned, AnsweredHooks, HangupHooks
<1> HIDE DEF r
<1>7. journal.rest = <<>>
  <2>1. ev \notin FollowUp BY <1>4 DEF FollowUp
  <2> QED BY <1>2, <2>1 DEF LegInv, LoneHead
<1>8. Coming' = {} /\ Results' = {} /\ OneEach(Queue') BY <1>1, <1>7, RanOne DEF Results
<1>9. /\ machine.state = "ringing" /\ d \in LegId /\ machine'.state = "ringing"
      /\ machine'.direction = machine.direction /\ machine'.dialed = d
      /\ machine'.legs[d].status = "dialing" /\ machine'.legs[d].ccid = NoLeg
      /\ \A e \in Unrun' : e \in {Dial(d, d), Arm("ring-step")}
      /\ DialOnce(journal'.fx)
  BY <1>2, <1>4 DEF Rings
<1>10. machine.direction = "inbound" BY <1>9 DEF AnswerInv, Tidy
<1>11. Awaited(machine', d)
  <2>1. d > machine.dialed /\ d \in Int BY <1>3 DEF MachineOK, SessionMachine
  <2>2. wlegs[d].status = "none" BY <1>9, <2>1 DEF LegInv, Undialed, Presenting
  <2>3. d \notin Known(machine) BY <2>2 DEF LegInv, Reached
  <2>4. d \notin Known(machine') BY <1>5, <1>6, <2>3
  <2> QED BY <1>9, <2>1, <2>4 DEF Awaited, Presenting
<1>12. /\ \A e \in Unrun' : IsDial(e) => e.from = d /\ e.to = d
       /\ \A e \in Unrun' : e.kind \in MildKinds
  BY <1>9, KindsOf DEF IsDial, DialKinds, MildKinds
<1>13. RingsAwaited(Unrun', machine')
  <2>1. d \in Int BY <1>9 DEF LegId
  <2> HIDE DEF d
  <2>2. \A i \in d .. d : i = d BY <2>1
  <2> QED BY <1>9, <1>10, <1>11, <1>12, <2>2 DEF RingsAwaited
<1> QED BY <1>8, <1>9, <1>12, <1>13 DEF DialsInv

\* and keeps waiting while the others' outcomes come in.
LEMMA CalmDials ==
  ASSUME CallInv, CallInv', TagInv, LegInv, Reduce, ~isNone(machine), ~Rung(Unrun')
  PROVE  DialsInv'
<1> DEFINE ev == journal.event
           r  == reduce(machine, ev)
<1>0. TypeOK /\ TypeOK' BY DEF CallInv
<1>1. /\ Reduces /\ UNCHANGED << net, wlegs, row >> /\ Queue = <<ev>> \o journal.rest
      /\ Queue' = journal.rest /\ Coming' = Ran(journal.rest)
      /\ Coming = {ev} \cup Ran(journal.rest)
  BY <1>0, ReduceLeaves
<1>2. /\ machine' = r.m /\ journal'.fx = r.fx /\ Unrun' = Eff(r.fx) /\ ev \in Event
  BY <1>1 DEF Reduces
<1>3. MachineOK(machine) BY <1>0 DEF TypeOK
<1>4. /\ OneEach(journal.rest)
      /\ IsOutcome(ev) => \A x \in Ran(journal.rest) : IsOutcome(x) => x.leg # ev.leg
  <2>1. journal.rest \in Seq(Event) BY <1>0, QueueIs
  <2> QED BY <1>1, <1>2, <2>1, OneEachParts DEF LegInv, DialsInv
<1>5. RingsAwaited(Unrun', machine') BY DEF RingsAwaited, Rung
<1>6. DialOnce(journal'.fx)
  <2> HIDE DEF r
  <2> QED BY <1>2 DEF DialOnce, Rung, Eff
<1>7. ASSUME NEW e \in Results'
      PROVE  /\ KeepsWaiting(machine, r, e.leg) /\ (machine'.direction = "outbound" => e.leg = 1)
             /\ e.outcome = "ccid" => wlegs'[e.leg].status # "none"
             /\ \A x \in Coming' : x.type \in Calm
  <2>1. e \in Ran(journal.rest) /\ e \in Results BY <1>1, <1>7 DEF Results
  <2>2. /\ Awaited(machine, e.leg) /\ (machine.direction = "outbound" => e.leg = 1)
        /\ e.outcome = "ccid" => wlegs[e.leg].status # "none"
        /\ \A x \in Coming : x.type \in Calm
    BY <2>1 DEF LegInv, DialsInv
  <2>3. e.leg \in LegId BY <2>1, <1>0, QueueIs, EventFields DEF Results, IsOutcome, Ran
  <2>4. IsOutcome(ev) => ev.leg # e.leg /\ machine.direction = "inbound"
    <3>1. SUFFICES ASSUME IsOutcome(ev) PROVE ev.leg # e.leg /\ machine.direction = "inbound" OBVIOUS
    <3>2. ev.leg # e.leg BY <1>4, <2>1, <3>1 DEF Results
    <3>3. ev \in Results BY <1>1, <3>1 DEF Results
    <3>4. machine.direction = "outbound" => ev.leg = 1 BY <3>3 DEF LegInv, DialsInv
    <3>5. machine.direction \in {"inbound", "outbound"} BY <1>3 DEF MachineOK, SessionMachine
    <3> QED BY <2>2, <3>2, <3>4, <3>5
  <2>5. KeepsWaiting(machine, r, e.leg) BY <1>1, <1>2, <1>3, <2>2, <2>3, <2>4, CalmKeeps
  <2>6. machine'.direction = machine.direction BY <1>2, <2>5 DEF KeepsWaiting
  <2> QED BY <1>1, <2>2, <2>5, <2>6
<1>8. \A e \in Results' : Awaited(machine', e.leg)
  BY <1>2, <1>7 DEF KeepsWaiting
<1>9. Results' # {} => \A e \in Unrun' : e.kind \in MildKinds
  <2>1. Clear("fanout-settle").kind \in MildKinds BY DEF MildKinds, Clear
  <2> QED BY <1>2, <1>7, <2>1 DEF KeepsWaiting
<1> HIDE DEF r
<1>10. OneEach(Queue') BY <1>1, <1>4
<1> QED BY <1>5, <1>6, <1>7, <1>8, <1>9, <1>10 DEF DialsInv


\* While the journal is open nothing but the object's own steps moves the machine
\* or the journal.
LEMMA OpenStays ==
  ASSUME [Next]_vars, journal.open, ~Reduce, ~Execute
  PROVE  UNCHANGED << machine, journal >>
<1>1. CASE UNCHANGED vars BY <1>1 DEF vars
<1>2. CASE Shell \/ Faults
  BY <1>2 DEF Shell, FireAlarm, RetryMirrorLands, Purge, Due, Drained,
     Faults, Lose, ClaimThenCrash, LoseAlarm, RetryMirrorFails, durable
<1>3. CASE Members
  BY <1>3 DEF Members, RingMe, Decline, Request, Consult, ConsultGate, ConsultRegister,
     ConsultDialed, ConsultAbandon, ConsultStamp, ConsultOwner, ConsultClear, ConsultSteal,
     ConsultStealFails, ConsultRestoreOwner, Tell, Admit, Drained, durable
<1>4. CASE Provider
  BY <1>4 DEF Provider, CustomerHangsUp, CustomerAnswers, MediaEnds, MemberAnswers, MemberLegEnds,
     durable
<1>5. CASE \E w \in net : Deliver(w)
  BY <1>5 DEF Deliver, DeliverSeen, DeliverInitiated, DeliverInitiatedLate,
     DeliverOutboundInitiated, RejectOutboundInitiated, DeliverEvent, DropUnknown, Admit, Drained
<1> QED BY <1>1, <1>2, <1>3, <1>4, <1>5 DEF Next

\* LegInv holds while machine and journal stay as they are.
LEMMA LegKeeps ==
  ASSUME TypeOK, TypeOK', LegInv, [Next]_vars, Settled => Settled', UNCHANGED << machine, journal >>
  PROVE  LegInv'
<1>1. LegsLive BY NextLegsLive
<1>2. Unrun' = Unrun /\ Coming' = Coming /\ Queue' = Queue /\ Results' = Results
  BY DEF Unrun, Coming, Queue, Results
<1>3. Books(machine') /\ LoneHead' BY DEF LegInv, LoneHead
<1>4. /\ Known(machine) \subseteq LegId /\ GaveUp(machine) \subseteq Known(machine)
      /\ \A i \in Known(machine) : wlegs'[i].status # "none"
      /\ \A w \in net \cup net' \cup Coming : LegSaid(w, wlegs')
  BY <1>1, LegsHold
<1>5. Reached' /\ Said' BY <1>2, <1>4 DEF Reached, Said
<1>6. GivenUp' BY <1>1, <1>2, <1>4 DEF LegInv, GivenUp, LegsLive, Hung
<1>7. Greeted' BY <1>2 DEF LegInv, Greeted
<1>8. Undialed' BY <1>1, LegsHold DEF Undialed
<1>9. DialsInv'
  <2>1. ASSUME NEW e \in Results, e.outcome = "ccid" PROVE wlegs'[e.leg].status # "none"
    <3>1. e.leg \in LegId BY <2>1, QueueIs, EventFields DEF Results, IsOutcome, Ran
    <3> QED BY <1>1, <2>1, <3>1 DEF LegInv, DialsInv, LegsLive
  <2> QED BY <1>2, <2>1 DEF LegInv, DialsInv, RingsAwaited, Rung
<1> QED BY <1>3, <1>5, <1>6, <1>7, <1>8, <1>9 DEF LegInv


\* While the journal is closed a step leaves machine and journal as they are, purges
\* the machine, or admits one event, on the machine or on one taken from the row.
LEMMA IdleMoves ==
  ASSUME CallInv, [Next]_vars, ~journal.open
  PROVE  \/ UNCHANGED journal /\ machine' \in {machine, NoMachine}
         \/ \E ev \in Event :
              /\ journal' = Journal(ev) /\ ~IsOutcome(ev)
              /\ ev \in net \/ \A legs : LegSaid(ev, legs)
              /\ \/ machine' = machine
                 \/ isNone(machine) /\ row' = row /\ \E w : machine' = reconstructMachine(w)
<1>1. Forms /\ TypeOK BY NextForms DEF CallInv
<1>2. ~Reduces /\ ~Executes BY DEF Reduces, Executes, Passes
<1>3. \A ev \in Event :
        ev.type \in Initiations \cup {"ring-me", "decline", "register-intent", "clear-intent", "set-owner",
                                      "push-fanout-settled", "alarm-intent-expiry", "alarm-ring-step",
                                      "alarm-ring", "alarm-janitor"}
          => ~IsOutcome(ev) /\ \A legs : LegSaid(ev, legs)
  BY DEF Initiations, IsOutcome, LegSaid, AnsweredHooks, HangupHooks
<1>4. \A ev \in net : ~IsOutcome(ev)
  BY <1>1 DEF TypeOK, Hook, Webhook, Initiations, IsOutcome
<1>5. CASE OpensCall BY <1>3, <1>5 DEF OpensCall, Admit
<1>6. CASE Adopts
  <2>1. PICK w, ev :
     /\ ev \in Event /\ (ev \in net \/ ev.type \in {"ring-me", "decline"})
     /\ Admit(ev) /\ Adopt(w) /\ row' = row
    BY <1>6 DEF Adopts
  <2>2. machine' = machine \/ (isNone(machine) /\ machine' = reconstructMachine(w))
    BY <2>1 DEF Adopt, Adopted
  <2>3. ~IsOutcome(ev) /\ (ev \in net \/ \A legs : LegSaid(ev, legs)) BY <1>3, <1>4, <2>1
  <2> QED BY <2>1, <2>2, <2>3 DEF Admit
<1>7. CASE TellsSession
  <2>1. CASE UNCHANGED journal BY <1>7, <2>1 DEF TellsSession
  <2>2. ASSUME NEW ev \in Event, Admit(ev),
               ev.type \in {"register-intent", "clear-intent", "set-owner"}
        PROVE  /\ journal' = Journal(ev) /\ ~IsOutcome(ev) /\ \A legs : LegSaid(ev, legs)
               /\ machine' = machine
    BY <1>3, <1>7, <2>2 DEF TellsSession, Admit
  <2> QED BY <1>7, <2>1, <2>2 DEF TellsSession
<1>8. CASE ClearsSlot
  <2>1. CASE UNCHANGED journal BY <1>8, <2>1 DEF ClearsSlot
  <2>2. ASSUME NEW slot, NEW ev \in Event, ev \in AlarmEvents(slot), Admit(ev)
        PROVE  /\ journal' = Journal(ev) /\ ~IsOutcome(ev) /\ \A legs : LegSaid(ev, legs)
               /\ machine' = machine
    <3>1. ev.type \in {"push-fanout-settled", "alarm-intent-expiry", "alarm-ring-step",
                       "alarm-ring", "alarm-janitor"}
      BY <2>2 DEF AlarmEvents
    <3> QED BY <1>3, <1>8, <2>2, <3>1 DEF ClearsSlot, Admit
  <2> QED BY <1>8, <2>1, <2>2 DEF ClearsSlot
<1>9. CASE Aside \/ Claims \/ SetsRowOwner \/ RetryMirrorLands \/ RetryMirrorFails \/ Purge
  BY <1>9 DEF Aside, Claims, SetsRowOwner, durable, RetryMirrorLands, RetryMirrorFails, Purge
<1> QED BY <1>1, <1>2, <1>5, <1>6, <1>7, <1>8, <1>9 DEF Forms

\* A machine that was just purged or taken from the row knows of no leg.
Legless(m) ==
  /\ Books(m) /\ Known(m) = {} /\ GaveUp(m) = {} /\ Silent(m) /\ m.dialed = 0

LEMMA NoLegsYet ==
  /\ Legless(NoMachine) /\ isNone(NoMachine)
  /\ \A w : /\ Legless(reconstructMachine(w)) /\ ~isNone(reconstructMachine(w))
            /\ reconstructMachine(w).state \in Presenting => ~Settled
<1>1. ASSUME NEW m, m.legs = [i \in LegId |-> UnusedLeg], m.dialed = 0 PROVE Legless(m)
  <2>1. Blank(m) BY <1>1 DEF Blank, UnusedLeg
  <2>2. Silent(m) /\ answeredPlacer(m) = {} BY <1>1 DEF Silent, answeredPlacer, LegsWith, UnusedLeg
  <2> QED BY <1>1, <2>1, <2>2, BlankBooks DEF Legless, Books, Hushed, Quieted
<1>2. NoMachine.legs = [i \in LegId |-> UnusedLeg] /\ NoMachine.dialed = 0 /\ isNone(NoMachine)
  BY DEF NoMachine, isNone
<1>3. ASSUME NEW w
      PROVE  LET m == reconstructMachine(w)
             IN  /\ m.legs = [i \in LegId |-> UnusedLeg] /\ m.dialed = 0
                 /\ m.state = reconstructedState(w)
  BY DEF reconstructMachine, NoMachine
<1>4. ASSUME NEW w
      PROVE  /\ reconstructedState(w) # "none"
             /\ Settled => reconstructedState(w) \notin Presenting
  BY DEF reconstructedState, endedAs, Settled, Presenting
<1> QED BY <1>1, <1>2, <1>3, <1>4 DEF isNone


\* A closed journal holds nothing.
LEMMA ClosedJournal ==
  ASSUME journal = NoJournal
  PROVE  Unrun = {} /\ Coming = {} /\ Queue = <<>>
<1>1. ~journal.open /\ journal.fx = <<>> /\ journal.rest = <<>> BY DEF NoJournal
<1>2. Unrun = {} BY <1>1 DEF Unrun, Eff
<1> QED BY <1>1, <1>2, RanOne DEF Coming, Queue, QueueOf

\* LegInv holds through what the closed journal admits.
LEMMA LegIdle ==
  ASSUME CallInv, CallInv', LegInv, [Next]_vars, Remembered', ~journal.open
  PROVE  LegInv'
<1>0. TypeOK /\ TypeOK' /\ Forms BY NextForms DEF CallInv
<1>1. LegsLive BY <1>0, NextLegsLive
<1>2. Unrun = {} /\ Coming = {} /\ Queue = <<>>
  <2>1. journal = NoJournal BY DEF CallInv, CallFirst
  <2> QED BY <2>1, ClosedJournal
<1>3. \E m : /\ machine' = m
             /\ \/ m = machine
                \/ Legless(m) /\ (~isNone(m) => isNone(machine) /\ row' = row /\ (m.state \in Presenting => ~Settled))
  BY IdleMoves, NoLegsYet
<1>4. /\ machine' = machine
         \/ /\ Legless(machine')
            /\ ~isNone(machine') /\ machine'.state \in Presenting => isNone(machine) /\ ~Settled
  BY <1>3
<1>5. \/ UNCHANGED journal /\ Unrun' = {} /\ Coming' = {} /\ Queue' = <<>>
      \/ \E ev \in Event :
           /\ journal' = Journal(ev) /\ Unrun' = {} /\ Coming' = {ev} /\ Queue' = <<ev>>
           /\ ~IsOutcome(ev) /\ (ev \in net \/ \A legs : LegSaid(ev, legs))
  <2>1. CASE UNCHANGED journal BY <1>2, <2>1 DEF Unrun, Coming, Queue
  <2>2. ASSUME NEW ev, journal' = Journal(ev)
        PROVE  Unrun' = {} /\ Coming' = {ev} /\ Queue' = <<ev>>
    <3>1. /\ journal'.open /\ ~journal'.reduced /\ journal'.event = ev
          /\ journal'.fx = <<>> /\ journal'.rest = <<>>
      BY <2>2 DEF Journal
    <3>2. Unrun' = {} BY <3>1 DEF Unrun, Eff
    <3>3. Queue' = <<ev>> \o <<>> BY <3>1 DEF Queue, QueueOf
    <3> QED BY <3>1, <3>2, <3>3, RanOne DEF Coming
  <2> QED BY <2>1, <2>2, IdleMoves
<1>6. /\ Known(machine) \subseteq LegId /\ GaveUp(machine) \subseteq Known(machine)
      /\ \A i \in Known(machine) : wlegs'[i].status # "none"
      /\ \A i \in LegId :
           \/ machine.state \in Presenting /\ i > machine.dialed
           \/ isNone(machine) /\ ~Settled
           => wlegs'[i].status = "none"
      /\ \A w \in net \cup net' : LegSaid(w, wlegs')
  BY <1>0, <1>1, LegsHold
<1>7. Books(machine') BY <1>4 DEF LegInv, Legless
<1>8. Reached' BY <1>4, <1>6 DEF Reached, Legless
<1>9. GivenUp'
  <2>1. Hung(Unrun) = {} BY <1>2 DEF Hung
  <2> QED BY <1>1, <1>4, <1>6, <2>1 DEF LegInv, GivenUp, LegsLive, Legless
<1>10. Greeted' BY <1>2, <1>4 DEF LegInv, Greeted, Legless
<1>11. Undialed'
  <2>1. isNone(machine') /\ ~Settled' => isNone(machine) /\ ~Settled BY <1>0, NoneStays
  <2>2. machine'.state \in Presenting => ~isNone(machine') BY DEF Presenting, isNone
  <2> QED BY <1>4, <1>6, <2>1, <2>2 DEF Undialed
<1>12. Said' BY <1>5, <1>6 DEF Said
<1>13. LoneHead'
  <2>1. \A ev : Journal(ev).rest = <<>> BY DEF Journal
  <2> QED BY <1>5, <2>1 DEF LoneHead
<1>14. DialsInv'
  <2>1. Results' = {} /\ ~Rung(Unrun') BY <1>5 DEF Results, Rung
  <2>2. RingsAwaited(Unrun', machine') BY <1>5 DEF RingsAwaited
  <2>3. OneEach(Queue') BY <1>5, RanOne
  <2>4. DialOnce(journal'.fx)
    <3>1. journal'.fx = journal.fx \/ journal'.fx = <<>> BY <1>5 DEF Journal
    <3>2. DialOnce(journal.fx) BY DEF LegInv, DialsInv
    <3>3. DialOnce(<<>>) BY DEF DialOnce
    <3> QED BY <3>1, <3>2, <3>3
  <2> QED BY <2>1, <2>2, <2>3, <2>4 DEF DialsInv
<1> QED BY <1>7, <1>8, <1>9, <1>10, <1>11, <1>12, <1>13, <1>14 DEF LegInv

\* LegInv is inductive.
LEMMA LegMoves ==
  ASSUME CallInv, CallInv', AnswerInv, TagInv, LegInv, [Next]_vars, Remembered'
  PROVE  LegInv'
<1>0. TypeOK /\ TypeOK' /\ Forms BY NextForms DEF CallInv
<1>1. Settled => Settled' BY <1>0, SettledStays
<1>2. CASE Reduce
  <2>1. CASE isNone(machine) BY <1>0, <1>2, <2>1, LegOpens
  <2>2. CASE ~isNone(machine)
    <3>1. DialsInv' BY <1>2, <2>2, RingsDials, CalmDials
    <3> QED BY <1>2, <2>2, <3>1, LegLearns DEF LegInv
  <2> QED BY <2>1, <2>2
<1>3. CASE Execute BY <1>0, <1>1, <1>3, LegExecutes
<1>4. CASE journal.open /\ ~Reduce /\ ~Execute
  <2>1. UNCHANGED << machine, journal >> BY <1>4, OpenStays
  <2> QED BY <1>0, <1>1, <2>1, LegKeeps
<1>5. CASE ~journal.open BY <1>5, LegIdle
<1> QED BY <1>2, <1>3, <1>4, <1>5

\* LegHolds: while the call is remembered, the machine's books of the members' legs are
\* in order and agree with the provider's legs: what it gave up is down or is still to
\* be hung up, and what it has not dialed nobody has.
THEOREM LegHolds == Spec => [](CallInv /\ (Remembered => LegInv))
<1>1. Init => LegInv
  <2> SUFFICES ASSUME Init PROVE LegInv OBVIOUS
  <2>1. /\ machine = NoMachine /\ journal = NoJournal
        /\ \A i \in LegId : wlegs[i].status = "none"
        /\ net = {InitialWebhook(customer.direction)}
    BY DEF Init
  <2>2. Unrun = {} /\ Coming = {} /\ Queue = <<>>
    BY <2>1, ClosedJournal
  <2>3. Results = {} /\ ~Rung(Unrun) /\ RingsAwaited(Unrun, machine) /\ DialOnce(journal.fx)
    BY <2>1, <2>2 DEF Results, Rung, RingsAwaited, DialOnce, NoJournal
  <2>4. DialsInv BY <2>2, <2>3, RanOne DEF DialsInv
  <2>5. Books(machine) /\ Reached /\ GivenUp /\ Greeted
    BY <2>1, NoLegsYet DEF Legless, Reached, GivenUp, Greeted
  <2>6. Undialed /\ LoneHead BY <2>1 DEF Undialed, LoneHead, NoJournal
  <2>7. \A w \in net : LegSaid(w, wlegs)
    BY <2>1 DEF InitialWebhook, LegSaid, AnsweredHooks, HangupHooks
  <2>8. Said BY <2>2, <2>7 DEF Said
  <2> QED BY <2>4, <2>5, <2>6, <2>8 DEF LegInv
<1>2. CallInv /\ CallInv' /\ (Remembered => AnswerInv) /\ (Remembered => VoicemailInv)
        /\ (Remembered => LegInv) /\ [Next]_vars => (Remembered => LegInv)'
  BY LegMoves, RememberedBefore DEF CallInv, VoicemailInv
<1> QED BY <1>1, <1>2, AnswerHolds, KeepHolds, PTL DEF Spec


\* A leg the machine has a record of is up, when the object rests, only where that
\* record says so.
LEMMA RecordSays ==
  ASSUME TypeOK, LegInv, journal = NoJournal, NEW i \in LegId, wlegs[i].status \in Up,
         NEW j \in RecordsOf(i)
  PROVE  /\ machine.legs[j].status \in {"dialing", "ringing", "answered"}
         /\ Silent(machine) => machine.legs[j].status = "answered"
<1>1. machine.legs[j].ccid = i /\ j \in LegId /\ i # NoLeg BY DEF RecordsOf, LegId, NoLeg
<1>2. machine.legs[j].status \in LegStatus BY <1>1 DEF TypeOK, MachineOK, SessionMachine, Leg
<1>3. machine.legs[j].status \notin {"unused", "ambiguous"} BY <1>1 DEF LegInv, Books, Bare
<1>4. machine.legs[j].status \notin {"canceling", "dead"}
  <2>1. i \notin Hung(Unrun) BY ClosedJournal DEF Hung
  <2>2. i \notin GaveUp(machine) BY <2>1 DEF LegInv, GivenUp, Up
  <2> QED BY <1>1, <2>2 DEF GaveUp, CcidsOf, LegsWith
<1>5. Silent(machine) => machine.legs[j].status \notin {"dialing", "ringing"}
  BY <1>1 DEF Silent, LegsWith
<1> QED BY <1>2, <1>3, <1>4, <1>5 DEF LegStatus

\* NoGhostRingHolds: in the first session of a call, once an inbound call is answered
\* or taken to voicemail, or any call is over, no member's phone the machine knows of
\* rings or talks on but the one that was answered (cancelAllLiveLegs, answerWon,
\* vm-answer-outcome).
THEOREM NoGhostRingHolds == Spec => []NoGhostRing
<1>1. CallInv /\ (Remembered => LegInv) => NoGhostRing
  <2>1. SUFFICES ASSUME CallInv, LegInv, Resting, RingIsOver, NEW i \in LegId,
                        RecordsOf(i) # {}, wlegs[i].status \in Up
                 PROVE  \E j \in RecordsOf(i) : machine.legs[j].status = "answered"
    BY DEF NoGhostRing, FirstSession, Remembered
  <2>2. TypeOK /\ journal = NoJournal BY <2>1 DEF CallInv, CallFirst, Resting, Drained
  <2>3. Silent(machine)
    <3>1. CASE machine.state = "voicemail_greeting"
      BY <2>1, <2>2, <3>1, ClosedJournal DEF LegInv, Greeted
    <3>2. CASE machine.state # "voicemail_greeting"
      BY <2>1, <3>2 DEF RingIsOver, Over, LegInv, Books, Hushed, Quieted
    <3> QED BY <3>1, <3>2
  <2> QED BY <2>1, <2>2, <2>3, RecordSays
<1> QED BY <1>1, LegHolds, PTL

\* NoLegOutlivesCallHolds: when the first session of a call is over and drained, no
\* member's leg it knows of is up, of a placed call not the placer's either; of an
\* inbound call only the answered one may be, which its bridge tears down
\* (terminalize).
THEOREM NoLegOutlivesCallHolds == Spec => []NoLegOutlivesCall
<1>1. CallInv /\ (Remembered => LegInv) => NoLegOutlivesCall
  <2>1. SUFFICES ASSUME CallInv, LegInv, Resting, Over,
                        NEW i \in LegId, wlegs[i].status \in Up, NEW j \in RecordsOf(i),
                        machine.direction = "inbound" => machine.legs[j].status # "answered"
                 PROVE  FALSE
    BY DEF NoLegOutlivesCall, LegsUp, RecordsOf, FirstSession, Remembered
  <2>2. TypeOK /\ journal = NoJournal BY <2>1 DEF CallInv, CallFirst, Resting, Drained
  <2>3. Quieted(machine) BY <2>1 DEF Over, LegInv, Books, Hushed
  <2>4. machine.legs[j].status = "answered" BY <2>1, <2>2, <2>3, RecordSays DEF Quieted
  <2>5. machine.direction = "outbound" BY <2>1, <2>2, <2>4 DEF TypeOK, MachineOK, SessionMachine
  <2>6. j \in LegId /\ machine.legs[j].ccid # NoLeg BY <2>1 DEF RecordsOf, LegId, NoLeg
  <2>7. j \in answeredPlacer(machine) BY <2>4, <2>6 DEF answeredPlacer, LegsWith
  <2> QED BY <2>3, <2>5, <2>7 DEF Quieted
<1> QED BY <1>1, LegHolds, PTL


(***************************************************************************)
(* BothAnsweredAreBridged.  What the world does to the two legs of a talk. *)
(***************************************************************************)
\* A member's leg was answered, whatever became of it since.
Took(i) == wlegs[i].status \in {"live", "gone"}

\* It stays so, and the feed reports no answer that was not given.
LEMMA TookMoves ==
  ASSUME TypeOK, [Next]_vars
  PROVE  /\ \A i \in LegId : Took(i) => Took(i)'
         /\ \A i \in LegId : Took(i) /\ wlegs'[i].status = "live" => wlegs[i].status = "live"
         /\ \A w \in net' : w.type \in AnsweredHooks => w \in net \/ Took(w.leg)'
<1>1. LegsMove BY NextLegs
<1>2. wlegs \in [LegId -> WorldLeg] BY DEF TypeOK
<1>3. \A w : w.type \in AnsweredHooks => LegHook(w) BY DEF AnsweredHooks, LegHook
<1>4. CASE LegsStay BY <1>3, <1>4 DEF LegsStay, Took
<1>5. CASE LegsFall
  <2>1. PICK ls \in SUBSET LegId :
          /\ wlegs' = Drop(ls)
          /\ \A w \in net' : w \in net \/ ~LegHook(w) \/ \E i \in ls : w = HangupHook(i)
    BY <1>5 DEF LegsFall
  <2>2. \A i \in LegId : wlegs'[i].status = IF i \in ls THEN "gone" ELSE wlegs[i].status
    BY <1>2, <2>1 DEF Drop, WorldLeg
  <2>3. \A i : HangupHook(i).type \notin AnsweredHooks
    BY DEF HangupHook, memberHangup, placerHangup, AnsweredHooks
  <2> QED BY <1>3, <2>1, <2>2, <2>3 DEF Took
<1>6. CASE ExecDial
  <2>1. PICK result : wlegs' = [j \in LegId |->
                 IF /\ j \in Effect.from .. Effect.to /\ result[j] \in {"ccid", "created"}
                    /\ wlegs[j].status = "none"
                 THEN [user |-> machine.legs[j].user, status |-> "ringing"] ELSE wlegs[j]]
    BY <1>6 DEF ExecDial
  <2>2. net' = net BY <1>6 DEF ExecDial
  <2> QED BY <2>1, <2>2 DEF Took
<1>7. ASSUME NEW i \in LegId, MemberAnswers(i)
      PROVE  /\ \A k \in LegId : Took(k) => Took(k)'
             /\ \A k \in LegId : Took(k) /\ wlegs'[k].status = "live" => wlegs[k].status = "live"
             /\ \A w \in net' : w.type \in AnsweredHooks => w \in net \/ Took(w.leg)'
  <2>1. /\ wlegs[i].status = "ringing" /\ wlegs' = [wlegs EXCEPT ![i].status = "live"]
        /\ net' = net \cup {AnsweredHook(i)}
    BY <1>7 DEF MemberAnswers
  <2>2. \A j \in LegId : wlegs'[j].status = IF j = i THEN "live" ELSE wlegs[j].status
    BY <1>2, <2>1 DEF WorldLeg
  <2>3. AnsweredHook(i).leg = i BY DEF AnsweredHook, memberAnswered, placerAnswered
  <2> QED BY <2>1, <2>2, <2>3 DEF Took
<1> QED BY <1>1, <1>4, <1>5, <1>6, <1>7 DEF LegsMove

\* The customer's partner changes where the customer's leg or the partner's falls, or
\* a consult takes him over: only a bridge gives him a new one.
PeerMoves ==
  \/ customer'.peer = customer.peer
  \/ customer'.leg # "live"
  \/ customer'.peer = ConsultLeg
  \/ customer.peer \in LegId /\ wlegs'[customer.peer].status # "live"

\* His own end,
LEMMA GoneMoves ==
  ASSUME TypeOK, NEW ls, CustomerGone(ls) PROVE PeerMoves
  BY DEF CustomerGone, PeerMoves, TypeOK, Customer

\* the effects,
LEMMA ExecutePeers == ASSUME TypeOK, Execute, ~ExecBridge PROVE PeerMoves
<1>0. customer \in Customer /\ wlegs \in [LegId -> WorldLeg] BY DEF TypeOK
<1>1. CASE \/ ExecMirror \/ ExecMirrorFails \/ ExecDial \/ ExecQuietly \/ ExecPushFanout
           \/ ExecTerminalMerge \/ ExecAlarmSlot
  BY <1>1 DEF ExecMirror, ExecMirrorFails, ExecDial, ExecQuietly, ExecPushFanout,
     ExecTerminalMerge, ExecAlarmSlot, world, PeerMoves
<1>2. CASE ExecAnswerInbound \/ ExecAnswerNotice \/ ExecAnswerVm
  <2>1. PICK tag, ev : AnswerCustomer(tag, ev)
    BY <1>2 DEF ExecAnswerInbound, ExecAnswerNotice, ExecAnswerVm
  <2>2. customer'.peer = customer.peer BY <1>0, <2>1 DEF AnswerCustomer, Customer
  <2> QED BY <2>2 DEF PeerMoves
<1>3. CASE ExecHangupLegs
  <2> DEFINE up == {i \in Effect.legs : wlegs[i].status \in Up}
  <2>1. /\ wlegs' = Drop(up) /\ up \subseteq Effect.legs
        /\ customer' = [customer EXCEPT !.peer = IF @ \in up THEN NoLeg ELSE @]
    BY <1>3 DEF ExecHangupLegs
  <2> HIDE DEF up
  <2>2. Effect.legs \in SUBSET LegId BY <1>3, ExecutingIs, EffectFields DEF ExecHangupLegs
  <2>3. \A i \in up : wlegs'[i].status = "gone" BY <1>0, <2>1, <2>2 DEF Drop, WorldLeg
  <2>4. customer.peer \notin up => customer'.peer = customer.peer BY <1>0, <2>1 DEF Customer
  <2> QED BY <2>1, <2>2, <2>3, <2>4 DEF PeerMoves
<1>4. CASE ExecHangupCustomer \/ ExecVoicemailPipeline \/ ExecReject
  <2>1. CustomerGone(Bridged) \/ CustomerGone({}) \/ customer' = customer
    BY <1>4 DEF ExecHangupCustomer, ExecVoicemailPipeline, ExecReject
  <2> QED BY <2>1, GoneMoves DEF PeerMoves
<1>5. CASE ExecMedia
  <2>1. customer'.peer = customer.peer BY <1>0, <1>5 DEF ExecMedia, Customer
  <2> QED BY <2>1 DEF PeerMoves
<1> QED BY <1>1, <1>2, <1>3, <1>4, <1>5 DEF Execute

\* the parties,
LEMMA ProviderPeers == ASSUME TypeOK, Provider PROVE PeerMoves
<1>0. customer \in Customer /\ wlegs \in [LegId -> WorldLeg] BY DEF TypeOK
<1>1. CASE CustomerHangsUp BY <1>1, GoneMoves DEF CustomerHangsUp
<1>2. CASE CustomerAnswers \/ MediaEnds
  <2>1. customer'.peer = customer.peer BY <1>0, <1>2 DEF CustomerAnswers, MediaEnds, Customer
  <2> QED BY <2>1 DEF PeerMoves
<1>3. ASSUME NEW i \in LegId, MemberAnswers(i) PROVE PeerMoves
  BY <1>3 DEF MemberAnswers, PeerMoves
<1>4. ASSUME NEW i \in LegId, MemberLegEnds(i) PROVE PeerMoves
  <2>1. CASE CustomerGone({i}) BY <2>1, GoneMoves
  <2>2. CASE /\ customer' = [customer EXCEPT !.peer = IF @ = i THEN NoLeg ELSE @]
             /\ wlegs' = Drop({i})
    <3>1. wlegs'[i].status = "gone" BY <1>0, <2>2 DEF Drop, WorldLeg
    <3>2. customer.peer # i => customer'.peer = customer.peer BY <1>0, <2>2 DEF Customer
    <3> QED BY <3>1, <3>2 DEF PeerMoves
  <2> QED BY <1>4, <2>1, <2>2 DEF MemberLegEnds
<1> QED BY <1>1, <1>2, <1>3, <1>4 DEF Provider

\* and every other step.
LEMMA NextPeers == ASSUME TypeOK, [Next]_vars, ~ExecBridge PROVE PeerMoves
<1>0. customer \in Customer BY DEF TypeOK
<1>1. CASE \/ Reduce \/ RetryMirrorLands \/ RetryMirrorFails \/ Purge
           \/ \E slot : FireAlarm(slot) \/ LoseAlarm(slot)
           \/ UNCHANGED vars
           \/ \E w : Lose(w) \/ ClaimThenCrash(w)
  BY <1>1 DEF Reduce, RetryMirrorLands, RetryMirrorFails, Purge, FireAlarm, LoseAlarm, vars, world,
     Lose, ClaimThenCrash, PeerMoves
<1>2. CASE ConsultSteal
  <2>1. customer'.peer = ConsultLeg BY <1>0, <1>2 DEF ConsultSteal, Customer
  <2> QED BY <2>1 DEF PeerMoves
<1>3. CASE Members /\ ~ConsultSteal
  <2>1. UNCHANGED customer
    BY <1>3 DEF Members, RingMe, Decline, Request, Consult, ConsultGate, ConsultRegister,
       ConsultDialed, ConsultAbandon, ConsultStamp, ConsultOwner, ConsultClear, ConsultStealFails,
       ConsultRestoreOwner, Tell, world
  <2> QED BY <2>1 DEF PeerMoves
<1>4. ASSUME NEW w \in net, Deliver(w) PROVE PeerMoves
  <2>1. CASE RejectOutboundInitiated(w)
    <3>1. customer'.peer = customer.peer BY <1>0, <2>1 DEF RejectOutboundInitiated, Customer
    <3> QED BY <3>1 DEF PeerMoves
  <2>2. CASE ~RejectOutboundInitiated(w)
    BY <1>4, <2>2 DEF Deliver, DeliverSeen, DeliverInitiated, DeliverInitiatedLate,
       DeliverOutboundInitiated, DeliverEvent, DropUnknown, world, PeerMoves
  <2> QED BY <2>1, <2>2
<1> QED BY <1>1, <1>2, <1>3, <1>4, ExecutePeers, ProviderPeers DEF Next, Shell, Faults


(***************************************************************************)
(* What is said of an answer is so: of a member's, that the leg was        *)
(* answered; of the customer's, that the phone rings no more.              *)
(***************************************************************************)
TellsOfLeg == AnsweredHooks \cup {"answer-outcome", "member-probe-outcome"}

TellsOfLine(w) == w.type = "outbound-answered" \/ (w.type = "answer-outcome" /\ w.ok)

Heard(w, legs, line) ==
  /\ w.type \in TellsOfLeg => legs[w.leg].status \in {"live", "gone"}
  /\ TellsOfLine(w) => line # "ringing"

\* The customer's phone does not ring twice, and he is on the line only if he was
\* or if it rang.
LEMMA RingsOnce ==
  ASSUME TypeOK, Lines
  PROVE  customer.leg # "ringing"
           => customer'.leg # "ringing" /\ (customer'.leg = "live" => customer.leg = "live")
  BY DEF TypeOK, Customer, Lines, LineStays, SameLine, LineFalls, LineRefused, LineAnswered,
     MediaStarts, MediaStops

\* What was so stays so,
LEMMA HeardStays ==
  ASSUME TypeOK, [Next]_vars, NEW w \in Hook \cup Event, Heard(w, wlegs, customer.leg) PROVE Heard(w, wlegs', customer'.leg)
<1>1. w.type \in TellsOfLeg => w.leg \in LegId
  BY DEF Hook, Event, Webhook, FollowUp, Asked, Mint, Initiations, TellsOfLeg, AnsweredHooks
<1> QED BY <1>1, TookMoves, RingsOnce, NextLines DEF Heard, Took

\* the feed adds nothing that is not,
LEMMA HeardInNet ==
  ASSUME TypeOK, TypeOK', [Next]_vars, \A w \in net : Heard(w, wlegs, customer.leg) PROVE \A w \in net' : Heard(w, wlegs', customer'.leg)
<1>1. SUFFICES ASSUME NEW w \in net' PROVE Heard(w, wlegs', customer'.leg) OBVIOUS
<1>2. CASE w \in net BY <1>2, HeardStays DEF TypeOK
<1>3. CASE w \notin net
  <2>1. w.type \notin {"answer-outcome", "member-probe-outcome"}
    BY DEF TypeOK, Hook, Webhook, Initiations
  <2>2. w.type \in AnsweredHooks => Took(w.leg)' BY <1>3, TookMoves
  <2>3. w.type = "outbound-answered" => customer'.leg # "ringing"
    <3>1. ASSUME w.type = "outbound-answered" PROVE LineAnswered
      <4>1. ~LegHook(w) /\ w # CustomerHangup /\ w \notin MediaHook
        BY <3>1 DEF LegHook, CustomerHangup, MediaHook
      <4> QED BY <1>3, <4>1, NextLines DEF Lines, LineStays, LineFalls, LineRefused, MediaStarts,
                 MediaStops
    <3> QED BY <3>1 DEF LineAnswered
  <2> QED BY <2>1, <2>2, <2>3 DEF Heard, TellsOfLeg, TellsOfLine, Took
<1> QED BY <1>2, <1>3

\* and neither does an effect.
Voices == \A e \in Coming' : e \in Coming \/ Heard(e, wlegs', customer'.leg)

\* One event that says so, or none, joins the journal.
LEMMA VoicesOne ==
  ASSUME TypeOK, journal.open, journal.reduced, NEW ev \in FollowUp, Heard(ev, wlegs', customer'.leg), Done(<<ev>>)
  PROVE  Voices
<1>1. <<ev>> \in Seq(FollowUp) /\ Ran(<<ev>>) = {ev} BY DEF Ran
<1> QED BY <1>1, DoneComes DEF Voices

LEMMA VoicesNone == ASSUME TypeOK, journal.open, journal.reduced, Done(<<>>) PROVE Voices
<1>1. Ran(<<>>) = {} BY DEF Ran
<1> QED BY <1>1, NoFollowUps, DoneComes DEF Voices

\* What tells of neither is no matter.
LEMMA MuteIsHeard ==
  ASSUME NEW ev, ev.type \notin TellsOfLeg \cup {"outbound-answered"}, NEW legs, NEW line
  PROVE  Heard(ev, legs, line)
  BY DEF Heard, TellsOfLine, TellsOfLeg

\* What an effect that ran reports of a leg was heard of it.
LEMMA ExecuteVoices ==
  ASSUME TypeOK, TypeOK', Execute, Effect.kind \in JoinKinds => Took(Effect.leg)
  PROVE  Voices
<1>0. customer \in Customer BY DEF TypeOK
<1>1. CASE ExecAnswerInbound
  <2> DEFINE ev == [type |-> "answer-outcome", ok |-> AnswerTakes, leg |-> Effect.leg,
                    user |-> Effect.user]
  <2>1. /\ Effect.leg \in LegId /\ Effect.user \in Maybe(User)
        /\ Effect.kind = "telnyx-answer-inbound"
    BY <1>1, ExecutingIs, EffectFields DEF ExecAnswerInbound
  <2>2. ev \in FollowUp BY <2>1 DEF FollowUp, AnswerTakes
  <2>3. ev.type = "answer-outcome" /\ (ev.ok <=> AnswerTakes) /\ ev.leg = Effect.leg OBVIOUS
  <2>4. Done(<<ev>>) /\ journal.open /\ journal.reduced /\ wlegs' = wlegs
        /\ customer' = IF customer.leg = "ringing"
                       THEN [customer EXCEPT !.leg = "live", !.tag = "bri"] ELSE customer
    BY <1>1 DEF ExecAnswerInbound, AnswerCustomer, Executing
  <2> HIDE DEF ev
  <2>5. customer'.leg # "ringing" BY <1>0, <2>4 DEF Customer
  <2>6. Took(Effect.leg) BY <2>1 DEF JoinKinds
  <2>7. Heard(ev, wlegs', customer'.leg) BY <2>3, <2>4, <2>5, <2>6 DEF Heard, Took
  <2> QED BY <2>2, <2>4, <2>7, VoicesOne
<1>2. CASE ExecAnswerNotice
  <2> DEFINE ev == [type |-> "notice-answer-outcome", ok |-> AnswerTakes]
  <2>1. ev \in FollowUp /\ ev.type = "notice-answer-outcome" BY DEF FollowUp, AnswerTakes
  <2>2. Done(<<ev>>) /\ journal.open /\ journal.reduced
    BY <1>2 DEF ExecAnswerNotice, AnswerCustomer, Executing
  <2> HIDE DEF ev
  <2>3. Heard(ev, wlegs', customer'.leg) BY <2>1, MuteIsHeard DEF TellsOfLeg, AnsweredHooks
  <2> QED BY <2>1, <2>2, <2>3, VoicesOne
<1>3. CASE ExecAnswerVm
  <2> DEFINE ev == [type |-> "vm-answer-outcome", ok |-> AnswerTakes]
  <2>1. ev \in FollowUp /\ ev.type = "vm-answer-outcome" BY DEF FollowUp, AnswerTakes
  <2>2. Done(<<ev>>) /\ journal.open /\ journal.reduced
    BY <1>3 DEF ExecAnswerVm, AnswerCustomer, Executing
  <2> HIDE DEF ev
  <2>3. Heard(ev, wlegs', customer'.leg) BY <2>1, MuteIsHeard DEF TellsOfLeg, AnsweredHooks
  <2> QED BY <2>1, <2>2, <2>3, VoicesOne
<1>4. CASE ExecQuietly
  <2> DEFINE ev == [type |-> "member-probe-outcome", leg |-> Effect.leg, user |-> Effect.user,
                    ok |-> wlegs[Effect.leg].status \in Up]
  <2>1. CASE Executing("push-call-end")
    <3>1. Done(<<>>) BY <1>4, <2>1 DEF ExecQuietly, Executing, Effect
    <3> QED BY <2>1, <3>1, VoicesNone DEF Executing
  <2>2. CASE Executing("telnyx-probe-member-leg")
    <3>1. /\ Effect.leg \in LegId /\ Effect.user \in Maybe(User)
          /\ Effect.kind = "telnyx-probe-member-leg"
      BY <2>2, ExecutingIs, EffectFields
    <3>2. ev \in FollowUp BY <3>1 DEF FollowUp
    <3>3. ev.type = "member-probe-outcome" /\ ev.leg = Effect.leg OBVIOUS
    <3>4. Done(<<ev>>) BY <1>4, <2>2 DEF ExecQuietly, Executing, Effect
    <3>5. wlegs' = wlegs BY <1>4 DEF ExecQuietly, world
    <3> HIDE DEF ev
    <3>6. Took(Effect.leg) BY <3>1 DEF JoinKinds
    <3>7. Heard(ev, wlegs', customer'.leg) BY <3>3, <3>5, <3>6 DEF Heard, Took, TellsOfLine
    <3> QED BY <2>2, <3>2, <3>4, <3>7, VoicesOne DEF Executing
  <2> QED BY <1>4, <2>1, <2>2 DEF ExecQuietly
<1>5. ASSUME ~ExecAnswerInbound, ~ExecAnswerNotice, ~ExecAnswerVm, ~ExecQuietly PROVE Voices
  <2>1. CASE ExecDial \/ ExecPushFanout \/ ExecMirrorFails
    <3>1. Effect.kind \in MildKinds
      BY <2>1 DEF ExecDial, ExecPushFanout, ExecMirrorFails, Executing, Effect, MildKinds, DialKinds
    <3>2. \/ Coming' = Coming
          \/ \E fu \in Seq(FollowUp) : Bears(fu) /\ Coming' = Coming \cup Ran(fu)
      BY ExecuteLeaves
    <3>3. \A e \in Coming' : e \in Coming \/ e.type \in Calm BY <3>1, <3>2 DEF Bears
    <3>4. \A e : e.type \in Calm => Heard(e, wlegs', customer'.leg)
      BY MuteIsHeard DEF Calm, TellsOfLeg, AnsweredHooks
    <3> QED BY <3>3, <3>4 DEF Voices
  <2>2. CASE ExecHangupCustomer
    <3> DEFINE ev == [type |-> "inbound-leg-gone"]
    <3>1. ev \in FollowUp /\ ev.type = "inbound-leg-gone" BY DEF FollowUp
    <3>2. (Done(<<>>) \/ Done(<<ev>>)) /\ journal.open /\ journal.reduced
      BY <2>2 DEF ExecHangupCustomer, Executing
    <3> HIDE DEF ev
    <3>3. Heard(ev, wlegs', customer'.leg) BY <3>1, MuteIsHeard DEF TellsOfLeg, AnsweredHooks
    <3>4. Done(<<>>) => Voices BY <3>2, VoicesNone
    <3> QED BY <3>1, <3>2, <3>3, <3>4, VoicesOne
  <2>3. CASE \/ ExecBridge \/ ExecHangupLegs \/ ExecReject \/ ExecMedia \/ ExecMirror
             \/ ExecTerminalMerge \/ ExecAlarmSlot
    <3>1. Done(<<>>) /\ journal.open /\ journal.reduced
      BY <2>3 DEF ExecBridge, ExecHangupLegs, ExecReject, ExecMedia, ExecMirror, ExecTerminalMerge,
         ExecAlarmSlot, Executing
    <3> QED BY <3>1, VoicesNone
  <2>4. CASE ExecVoicemailPipeline
    <3>1. journal.open /\ journal.reduced BY <2>4 DEF ExecVoicemailPipeline, Executing
    <3>2. Done(<<>>)
      BY <2>4 DEF ExecVoicemailPipeline, VoicemailStored, NothingKept, VoicemailThrows, Done
    <3> QED BY <3>1, <3>2, VoicesNone
  <2> QED BY <1>5, <2>1, <2>2, <2>3, <2>4 DEF Execute
<1> QED BY <1>1, <1>2, <1>3, <1>4, <1>5


(***************************************************************************)
(* An answered call's customer has picked up.                              *)
(***************************************************************************)
UpInv ==
  /\ machine.state = "answered" => machine.answered
  /\ machine.answered \/ row.answered_at => customer.leg # "ringing"

HeardInv ==
  /\ \A w \in net \cup Coming : Heard(w, wlegs, customer.leg)
  /\ \A e \in Unrun : e.kind \in JoinKinds => Took(e.leg)

\* The answered records are all of one leg, which was answered, nobody has while the
\* call rings, and which is the one to be bridged.
TalksTo(m, c) == \A j \in LegId : m.legs[j].status = "answered" => m.legs[j].ccid = c

OneTalks ==
  /\ \A j \in LegId : machine.legs[j].status = "answered"
       => machine.legs[j].ccid # NoLeg /\ Took(machine.legs[j].ccid) /\ TalksTo(machine, machine.legs[j].ccid)
  /\ machine.state = "ringing" => TalksTo(machine, NoLeg)
  /\ \A e \in Unrun : e.kind = "telnyx-bridge" => TalksTo(machine, e.leg)

\* The stamp comes with the answer, or with a hangup that tells of one.
LEMMA KindsUp ==
  ASSUME NEW m, NEW ev, NEW r, Kinds(m, ev, r)
  PROVE  /\ r.m.state = "answered" => m.state = "answered" \/ r.m.answered
         /\ r.m.answered => \/ m.answered
                            \/ r.m.state = "answered" /\ m.state # "answered"
                            \/ m.state = "answered"
                            \/ ev.type = "inbound-hangup"
  BY DEF Kinds, DialsNobody, Quiet, Intends, Dials, Diverts, Answers, PicksUp, Records, Saves, Ends,
     Upgrades, SetsOwner, NoticeFails, SameCore, SameSide, SameOwner, TakesOwner, TerminalStates

\* What reducing an event connects.
LEMMA ConnectsNow ==
  ASSUME TypeOK, LegInv, OneTalks, Reduces, ~isNone(machine)
  PROVE  Connects(machine, journal.event, reduce(machine, journal.event))
  BY ReduceConnects DEF TypeOK, LegInv, Books, OneTalks, Reduces

\* The event that is reduced was heard.
LEMMA UpReduces ==
  ASSUME TypeOK, AnswerInv, GoneInv, LegInv, UpInv, HeardInv, OneTalks, Reduces, ~isNone(machine)
  PROVE  /\ machine'.state = "answered" => machine'.answered
         /\ machine'.answered => customer.leg # "ringing"
<1> DEFINE ev == journal.event
           r  == reduce(machine, ev)
<1>1. /\ machine' = r.m /\ ev \in Event /\ ev \in Coming /\ MachineOK(machine)
  BY DEF Reduces, Coming, TypeOK
<1>2. Kinds(machine, ev, r) BY <1>1, ReduceKinds
<1>3. machine.answered => r.m.answered
  <2>1. Tidy(machine) /\ (ev.type = "set-owner" => machine.answered)
    BY <1>1 DEF AnswerInv, StampInv
  <2> QED BY <1>1, <2>1, KindsTidy
<1>4. Connects(machine, ev, r) BY ConnectsNow
<1>5. Heard(ev, wlegs, customer.leg) /\ (GoneSaid(ev) => Gone) BY <1>1 DEF HeardInv, GoneInv
<1> HIDE DEF r, ev
<1>6. r.m.state = "answered" => r.m.answered BY <1>2, <1>3, KindsUp DEF UpInv
<1>7. r.m.state = "answered" /\ machine.state # "answered" => customer.leg # "ringing"
  BY <1>4, <1>5 DEF Connects, Unjoined, Asks, WinsCall, Places, Reaches, Heard, TellsOfLine
<1>8. ev.type = "inbound-hangup" => customer.leg # "ringing" BY <1>5 DEF GoneSaid, Gone
<1> QED BY <1>1, <1>2, <1>6, <1>7, <1>8, KindsUp DEF UpInv

\* A session taken from its row is answered where the row says so.
LEMMA UpAdopted ==
  ASSUME NEW w
  PROVE  /\ reconstructMachine(w).answered = row.answered_at
         /\ reconstructMachine(w).state = "answered" => row.answered_at
<1>1. /\ reconstructMachine(w).answered = row.answered_at
      /\ reconstructMachine(w).state = reconstructedState(w)
  BY DEF reconstructMachine, NoMachine
<1>2. reconstructedState(w) = "answered" => row.answered_at
  BY DEF reconstructedState, endedAs
<1> QED BY <1>1, <1>2

\* UpInv survives every step.
LEMMA UpStep ==
  ASSUME CallInv, CallInv', DirInv, AnswerInv, GoneInv, LegInv, UpInv, HeardInv, OneTalks, [Next]_vars
  PROVE  UpInv'
<1>0. TypeOK /\ TypeOK' /\ CallFirst /\ Forms BY NextForms DEF CallInv
<1>1. customer.leg # "ringing" => customer'.leg # "ringing" BY <1>0, NextLines, RingsOnce
<1>2. row'.answered_at => machine.answered \/ row.answered_at
  <2>1. CASE row.exists
    <3>1. CASE Lands BY <3>1 DEF Lands, Takes
    <3>2. CASE SetsRowOwner
      <4>1. row \in Row BY <1>0 DEF TypeOK
      <4> QED BY <3>2, <4>1 DEF SetsRowOwner, Row
    <3> QED BY <1>0, <2>1, <3>1, <3>2, RowForms DEF SameColumns
  <2>2. CASE ~row.exists /\ row'.exists BY <1>0, <2>2, RowMade, ClaimedIs
  <2>3. CASE ~row.exists /\ ~row'.exists
    <3>1. row' = NoRow BY <2>3 DEF CallInv, CallFirst
    <3> QED BY <3>1 DEF NoRow
  <2> QED BY <2>1, <2>2, <2>3
<1>3. /\ machine'.state = "answered" => machine'.answered
      /\ machine'.answered => customer.leg # "ringing"
  <2>1. CASE Reduces /\ ~isNone(machine) BY <1>0, <2>1, UpReduces
  <2>2. CASE Reduces /\ isNone(machine)
    <3> DEFINE r == reduce(machine, journal.event)
    <3>1. machine' = r.m /\ journal.event \in Event /\ MachineOK(machine)
      BY <1>0, <2>2 DEF Reduces, TypeOK
    <3>2. MachineOK(r.m) BY <3>1, ReduceTyped
    <3>3. Mints(r) \/ r = NoEffect(machine) BY <2>2, <3>1, MintKinds
    <3> HIDE DEF r
    <3>4. CASE Mints(r)
      <4>1. r.m.state # "answered" BY <3>4 DEF Mints
      <4> QED BY <1>0, <3>1, <3>2, <3>4, <4>1, TidyBegins
    <3>5. CASE r = NoEffect(machine)
      <4>1. machine' = machine BY <3>1, <3>5 DEF NoEffect, Result
      <4> QED BY <4>1 DEF UpInv
    <3> QED BY <3>3, <3>4, <3>5
  <2>3. CASE Adopts
    <3>1. PICK w : machine' = Adopted(w) BY <2>3 DEF Adopts, Adopt
    <3>2. CASE machine' = machine BY <3>2 DEF UpInv
    <3>3. CASE machine' = reconstructMachine(w) BY <3>3, UpAdopted DEF UpInv
    <3> QED BY <3>1, <3>2, <3>3 DEF Adopted
  <2>4. CASE Purge
    <3>1. machine' = machine \/ machine' = NoMachine BY <2>4 DEF Purge
    <3>2. NoMachine.state # "answered" /\ ~NoMachine.answered BY DEF NoMachine
    <3> QED BY <3>1, <3>2 DEF UpInv
  <2>5. CASE ~Reduces /\ ~Adopts /\ ~Purge
    <3>1. machine' = machine BY <1>0, <2>5, MachineStays
    <3> QED BY <3>1 DEF UpInv
  <2> QED BY <2>1, <2>2, <2>3, <2>4, <2>5
<1> QED BY <1>1, <1>2, <1>3 DEF UpInv


\* What the closed journal admits is of the feed, or tells of no answer.
LEMMA IdleHears ==
  ASSUME CallInv, [Next]_vars, ~journal.open
  PROVE  \/ UNCHANGED journal
         \/ \E ev \in Event : /\ journal' = Journal(ev)
                              /\ ev \in net \/ ev.type \notin TellsOfLeg \cup {"outbound-answered"}
<1>1. Forms /\ TypeOK BY NextForms DEF CallInv
<1>2. ~Reduces /\ ~Executes BY DEF Reduces, Executes, Passes
<1>3. CASE OpensCall BY <1>3 DEF OpensCall, Admit, Initiations, TellsOfLeg, AnsweredHooks
<1>4. CASE Adopts BY <1>4 DEF Adopts, Admit, TellsOfLeg, AnsweredHooks
<1>5. CASE TellsSession BY <1>5 DEF TellsSession, Admit, TellsOfLeg, AnsweredHooks
<1>6. CASE ClearsSlot
  <2>1. \A slot : \A ev \in AlarmEvents(slot) : ev.type \notin TellsOfLeg \cup {"outbound-answered"}
    BY DEF AlarmEvents, TellsOfLeg, AnsweredHooks
  <2> QED BY <1>6, <2>1 DEF ClearsSlot, Admit
<1>7. CASE Aside \/ Claims \/ SetsRowOwner \/ RetryMirrorLands \/ RetryMirrorFails \/ Purge
  BY <1>7 DEF Aside, Claims, SetsRowOwner, durable, RetryMirrorLands, RetryMirrorFails, Purge
<1> QED BY <1>1, <1>2, <1>3, <1>4, <1>5, <1>6, <1>7 DEF Forms

\* What is to be reduced is so,
LEMMA HeardInJournal ==
  ASSUME CallInv, CallInv', HeardInv, [Next]_vars
  PROVE  \A e \in Coming' : Heard(e, wlegs', customer'.leg)
<1>0. TypeOK /\ TypeOK' /\ CallFirst BY DEF CallInv
<1>1. \A e \in Coming : Heard(e, wlegs', customer'.leg)
  <2>1. Coming \subseteq Event BY <1>0, QueueIs DEF Ran
  <2> QED BY <1>0, <2>1, HeardStays DEF HeardInv
<1>2. CASE Reduce
  <2>1. Coming' \subseteq Coming BY <1>0, <1>2, ReduceLeaves
  <2> QED BY <1>1, <2>1
<1>3. CASE Execute
  <2>1. Effect \in Unrun BY <1>0, <1>3, ExecuteLeaves
  <2>2. Voices BY <1>0, <1>3, <2>1, ExecuteVoices DEF HeardInv
  <2> QED BY <1>1, <2>2 DEF Voices
<1>4. CASE journal.open /\ ~Reduce /\ ~Execute
  <2>1. Coming' = Coming BY <1>4, OpenStays DEF Coming
  <2> QED BY <1>1, <2>1
<1>5. CASE ~journal.open
  <2>1. CASE UNCHANGED journal
    <3>1. Coming' = Coming BY <2>1 DEF Coming
    <3> QED BY <1>1, <3>1
  <2>2. ASSUME NEW ev \in Event, journal' = Journal(ev),
               ev \in net \/ ev.type \notin TellsOfLeg \cup {"outbound-answered"}
        PROVE  \A e \in Coming' : Heard(e, wlegs', customer'.leg)
    <3>1. Coming' = {ev}
      <4>1. journal'.open /\ ~journal'.reduced /\ journal'.event = ev /\ journal'.rest = <<>>
        BY <2>2 DEF Journal
      <4> QED BY <4>1, RanOne DEF Coming
    <3>2. CASE ev \in net BY <1>0, <3>1, <3>2, HeardStays DEF HeardInv
    <3>3. CASE ev \notin net BY <2>2, <3>1, <3>3, MuteIsHeard
    <3> QED BY <3>2, <3>3
  <2> QED BY <1>5, <2>1, <2>2, IdleHears
<1> QED BY <1>2, <1>3, <1>4, <1>5

\* and what is to be connected has been answered.
LEMMA TookUnrun ==
  ASSUME CallInv, CallInv', LegInv, HeardInv, OneTalks, [Next]_vars
  PROVE  \A e \in Unrun' : e.kind \in JoinKinds => Took(e.leg)'
<1>0. TypeOK /\ TypeOK' /\ CallFirst /\ Forms BY NextForms DEF CallInv
<1>1. CASE ~Reduces
  <2>1. Unrun' \subseteq Unrun BY <1>0, <1>1, UnrunStays
  <2>2. ASSUME NEW e \in Unrun', e.kind \in JoinKinds PROVE e.leg \in LegId /\ Took(e.leg)
    <3>1. IsEffect(e) /\ e \in Unrun BY <1>0, <2>1, UnrunIs
    <3> QED BY <2>2, <3>1, EffectFields DEF JoinKinds, HeardInv
  <2> QED BY <1>0, <2>2, TookMoves
<1>2. CASE Reduces
  <2> DEFINE ev == journal.event
             r  == reduce(machine, ev)
  <2>1. Unrun' = Eff(r.fx) /\ wlegs' = wlegs /\ ev \in Event /\ ev \in Coming
    BY <1>2 DEF Reduces, Coming
  <2>2. SUFFICES \A e \in Eff(r.fx) : e.kind \in JoinKinds => Took(e.leg)
    <3> HIDE DEF r
    <3> QED BY <2>1, <2>2 DEF Took
  <2>3. CASE isNone(machine)
    <3>1. CASE ev.type \in {"initiated", "outbound-initiated"}
      <4>1. Sober(r.fx) BY <2>1, <2>3, <3>1, MintUnpaired DEF Unpaired
      <4> HIDE DEF r
      <4> QED BY <4>1, SoberSays
    <3>2. CASE ev.type \notin {"initiated", "outbound-initiated"}
      <4>1. r = NoEffect(machine) BY <2>1, <2>3, <3>2, MintOpens
      <4> HIDE DEF r
      <4> QED BY <4>1 DEF NoEffect, Result, Eff
    <3> QED BY <3>1, <3>2
  <2>4. CASE ~isNone(machine)
    <3>1. Connects(machine, ev, r) BY <1>0, <1>2, <2>4, ConnectsNow
    <3>2. ev.type \in TellsOfLeg => Took(ev.leg) BY <2>1 DEF HeardInv, Heard, Took
    <3>3. \A j \in answeredPlacer(machine) : Took(machine.legs[j].ccid)
      BY DEF OneTalks, answeredPlacer, LegsWith
    <3> HIDE DEF r, ev
    <3>4. \A i : Bridge(i).leg = i BY DEF Bridge
    <3>5. CASE Unjoined(machine, r) BY <3>5, SoberSays DEF Unjoined
    <3>6. CASE Asks(machine, ev, r) BY <3>2, <3>6 DEF Asks, TellsOfLeg, AnsweredHooks
    <3>7. CASE WinsCall(machine, ev, r) \/ Places(machine, ev, r)
      BY <3>2, <3>4, <3>7 DEF WinsCall, Places, Pairs, TellsOfLeg, AnsweredHooks
    <3>8. CASE Reaches(machine, ev, r) BY <3>3, <3>4, <3>8 DEF Reaches
    <3> QED BY <3>1, <3>5, <3>6, <3>7, <3>8 DEF Connects
  <2> QED BY <2>3, <2>4
<1> QED BY <1>1, <1>2

\* HeardInv survives every step.
LEMMA HeardStep ==
  ASSUME CallInv, CallInv', LegInv, HeardInv, OneTalks, [Next]_vars PROVE HeardInv'
<1>1. \A w \in net' : Heard(w, wlegs', customer'.leg)
  BY HeardInNet DEF CallInv, HeardInv
<1> QED BY <1>1, HeardInJournal, TookUnrun DEF HeardInv

\* A placed call has no leg but its placer's.
OneLine == customer.direction = "outbound" => \A i \in LegId : i # 1 => wlegs[i].status = "none"

LEMMA OneLineStep ==
  ASSUME CallInv, CallInv', DirInv, LegInv, OneLine, [Next]_vars PROVE OneLine'
<1>0. TypeOK /\ TypeOK' BY DEF CallInv
<1>1. customer'.direction = customer.direction
  BY <1>0, NextLines DEF Lines, LineStays, SameLine, LineFalls, LineRefused, LineAnswered, MediaStarts, MediaStops
<1>2. SUFFICES ASSUME customer.direction = "outbound", NEW i \in LegId, i # 1, wlegs'[i].status # "none"
               PROVE  FALSE
  BY <1>1 DEF OneLine
<1>3. wlegs[i].status = "none" BY <1>2 DEF OneLine
<1>4. Effect \in Unrun /\ IsDial(Effect) /\ i \in Effect.from .. Effect.to
  BY <1>0, <1>2, <1>3, NextLegsLive DEF LegsLive
<1>5. Awaited(machine, i) /\ (machine.direction = "outbound" => i = 1)
  BY <1>4 DEF LegInv, DialsInv, RingsAwaited
<1>6. ~isNone(machine) BY <1>5 DEF Awaited, Presenting, isNone
<1> QED BY <1>2, <1>5, <1>6 DEF DirInv


(***************************************************************************)
(* BridgeInv.  An answered call's customer is with the leg that answered,  *)
(* as long as both are up, or the bridge is still to be run.               *)
(***************************************************************************)
Tied(i) == customer.leg = "live" /\ wlegs[i].status = "live" => customer.peer \in {i, ConsultLeg}

Linked ==
  machine.state = "answered"
    => \A j \in LegId : machine.legs[j].status = "answered"
         => (\E e \in Unrun : e.kind = "telnyx-bridge") \/ Tied(machine.legs[j].ccid)

BridgeInv == UpInv /\ HeardInv /\ OneLine /\ OneTalks /\ Linked

\* OneTalks and Linked hold when the reducer is told of something,
LEMMA TalksReduces ==
  ASSUME CallInv, CallInv', DirInv, AnswerInv, LegInv, BridgeInv, Reduce, ~isNone(machine)
  PROVE  OneTalks' /\ Linked'
<1> DEFINE ev == journal.event
           m  == machine
           r  == reduce(m, ev)
<1>0. TypeOK /\ TypeOK' BY DEF CallInv
<1>1. Reduces /\ Unrun = {} /\ wlegs' = wlegs /\ customer' = customer
  BY <1>0, ReduceLeaves DEF Reduces
<1>2. machine' = r.m /\ Unrun' = Eff(r.fx) /\ ev \in Event /\ ev \in Coming /\ MachineOK(m)
  BY <1>0, <1>1 DEF Reduces, Coming, TypeOK
<1>3. Connects(m, ev, r) BY <1>0, <1>1, ConnectsNow DEF BridgeInv
<1>4. r.m.state = "ringing" => m.state = "ringing" BY <1>2, ReduceKinds, RingsOnly
<1>5. ev.type \in TellsOfLeg => ev.leg \in LegId /\ ev.leg # NoLeg /\ Took(ev.leg)
  <2>1. Heard(ev, wlegs, customer.leg) BY <1>2 DEF BridgeInv, HeardInv
  <2>2. ev.type \in TellsOfLeg => ev.leg \in LegId
    BY <1>2, EventFields DEF TellsOfLeg, AnsweredHooks, LegTypes
  <2> QED BY <2>1, <2>2 DEF Heard, Took, LegId, NoLeg
<1>6. \A j \in LegId : m.legs[j].status = "answered"
        => /\ m.legs[j].ccid # NoLeg /\ Took(m.legs[j].ccid) /\ TalksTo(m, m.legs[j].ccid)
           /\ m.legs[j].ccid \in LegId
  BY <1>2 DEF BridgeInv, OneTalks, MachineOK, SessionMachine, Leg
<1>7. m.state = "ringing" => TalksTo(m, NoLeg) BY DEF BridgeInv, OneTalks
<1>8. m.state = "answered" => \A j \in LegId : m.legs[j].status = "answered" => Tied(m.legs[j].ccid)
  BY <1>1 DEF BridgeInv, Linked
<1>9. m.state = "ringing" => m.direction = "inbound" BY DEF AnswerInv, Tidy
<1>10. m.direction = "outbound" => \A i \in LegId : Took(i) => i = 1
  BY <1>1 DEF Reduces, DirInv, BridgeInv, OneLine, Took
<1>11. SUFFICES
         /\ \A j \in LegId : r.m.legs[j].status = "answered"
              => r.m.legs[j].ccid # NoLeg /\ Took(r.m.legs[j].ccid) /\ TalksTo(r.m, r.m.legs[j].ccid)
         /\ r.m.state = "ringing" => TalksTo(r.m, NoLeg)
         /\ \A e \in Eff(r.fx) : e.kind = "telnyx-bridge" => TalksTo(r.m, e.leg)
         /\ r.m.state = "answered"
              => \A j \in LegId : r.m.legs[j].status = "answered"
                   => (\E e \in Eff(r.fx) : e.kind = "telnyx-bridge") \/ Tied(r.m.legs[j].ccid)
  <2> HIDE DEF r
  <2>1. OneTalks' BY <1>1, <1>2, <1>11 DEF OneTalks, Took, TalksTo
  <2>2. Linked' BY <1>1, <1>2, <1>11 DEF Linked, Tied
  <2> QED BY <2>1, <2>2
<1> HIDE DEF r, ev, m
<1>12. \A i : Bridge(i).kind = "telnyx-bridge" /\ Bridge(i).leg = i BY DEF Bridge
<1>13. CASE Unjoined(m, r) \/ Asks(m, ev, r)
  <2>1. /\ Shrinks(m, r.m) /\ (r.m.state = "answered" => m.state = "answered")
        /\ \A e \in Eff(r.fx) : e.kind # "telnyx-bridge"
    BY <1>13, SoberSays DEF Unjoined, Asks, JoinKinds
  <2>2. \A c : TalksTo(m, c) => TalksTo(r.m, c) BY <2>1 DEF Shrinks, TalksTo
  <2> QED BY <1>4, <1>6, <1>7, <1>8, <2>1, <2>2 DEF Shrinks
<1>14. CASE WinsCall(m, ev, r) \/ Places(m, ev, r)
  <2>1. /\ Joined(m, r.m, ev.leg) /\ Bridge(ev.leg) \in Eff(r.fx)
        /\ \A e \in Eff(r.fx) : e.kind = "telnyx-bridge" => e = Bridge(ev.leg)
    BY <1>14 DEF WinsCall, Places, Pairs, JoinKinds
  <2>2. ev.leg # NoLeg /\ ev.leg \in LegId /\ Took(ev.leg)
    BY <1>5, <1>14 DEF WinsCall, Places, TellsOfLeg, AnsweredHooks
  <2>3. TalksTo(r.m, ev.leg)
    <3>1. SUFFICES ASSUME NEW j \in LegId, m.legs[j].status = "answered" PROVE m.legs[j].ccid = ev.leg
      BY <2>1 DEF Joined, TalksTo
    <3>2. CASE WinsCall(m, ev, r) BY <1>6, <1>7, <3>1, <3>2 DEF WinsCall, TalksTo
    <3>3. CASE Places(m, ev, r)
      BY <1>6, <1>10, <2>2, <3>1, <3>3 DEF Places
    <3> QED BY <1>14, <3>2, <3>3
  <2>4. \A j \in LegId : r.m.legs[j].status = "answered" => r.m.legs[j].ccid = ev.leg
    BY <2>3 DEF TalksTo
  <2>5. r.m.state # "ringing" BY <1>9, <1>14 DEF WinsCall, Places
  <2> QED BY <1>12, <2>1, <2>2, <2>3, <2>4, <2>5
<1>15. CASE Reaches(m, ev, r)
  <2>1. /\ r.m.legs = m.legs /\ r.m.state = "answered"
        /\ \A e \in Eff(r.fx) : e.kind = "telnyx-bridge"
             => \E j \in answeredPlacer(m) : e = Bridge(m.legs[j].ccid)
        /\ answeredPlacer(m) # {} => \E e \in Eff(r.fx) : e.kind = "telnyx-bridge"
    BY <1>15 DEF Reaches, JoinKinds
  <2>2. \A j \in LegId : m.legs[j].status = "answered" => j \in answeredPlacer(m)
    BY <1>6 DEF answeredPlacer, LegsWith
  <2>3. \A j \in answeredPlacer(m) : j \in LegId /\ m.legs[j].status = "answered"
    BY DEF answeredPlacer, LegsWith
  <2>4. \A c : TalksTo(m, c) => TalksTo(r.m, c) BY <2>1 DEF TalksTo
  <2> QED BY <1>6, <1>12, <2>1, <2>2, <2>3, <2>4
<1> QED BY <1>3, <1>13, <1>14, <1>15 DEF Connects

\* when it opens a session,
LEMMA TalksOpens ==
  ASSUME CallInv, CallInv', BridgeInv, Reduce, isNone(machine)
  PROVE  OneTalks' /\ Linked'
<1> DEFINE ev == journal.event
           r  == reduce(machine, ev)
<1>0. TypeOK /\ TypeOK' BY DEF CallInv
<1>1. Reduces /\ wlegs' = wlegs BY <1>0, ReduceLeaves
<1>2. machine' = r.m /\ Unrun' = Eff(r.fx) /\ ev \in Event BY <1>1 DEF Reduces
<1>3. CASE ev.type \in {"initiated", "outbound-initiated"}
  <2>1. Unpaired(r) BY <1>2, <1>3, MintUnpaired
  <2> HIDE DEF r
  <2>2. \A e \in Unrun' : e.kind # "telnyx-bridge" BY <1>2, <2>1, SoberSays DEF Unpaired, JoinKinds
  <2> QED BY <1>2, <2>1, <2>2 DEF Unpaired, OneTalks, TalksTo, Linked
<1>4. CASE ev.type \notin {"initiated", "outbound-initiated"}
  <2>1. r = NoEffect(machine) BY <1>2, <1>4, MintOpens
  <2> HIDE DEF r
  <2>2. machine' = machine /\ Unrun' = {} BY <1>2, <2>1 DEF NoEffect, Result, Eff
  <2>3. OneTalks' BY <1>1, <2>2 DEF BridgeInv, OneTalks, Took, TalksTo
  <2>4. Linked' BY <2>2 DEF Linked, isNone
  <2> QED BY <2>3, <2>4
<1> QED BY <1>3, <1>4

\* A tie of an answered leg holds through every step but a bridge, and a bridge ties
\* the leg it names.
LEMMA TiesStay ==
  ASSUME TypeOK, TypeOK', [Next]_vars, customer.leg # "ringing"
  PROVE  /\ ~ExecBridge => \A i \in LegId : Took(i) /\ Tied(i) => Tied(i)'
         /\ ExecBridge => LET i == Effect.leg
                          IN  customer'.leg = "live" /\ wlegs'[i].status = "live" => customer'.peer = i
<1>1. customer'.leg = "live" => customer.leg = "live" BY NextLines, RingsOnce
<1>2. ASSUME ~ExecBridge, NEW i \in LegId, Took(i), Tied(i), customer'.leg = "live", wlegs'[i].status = "live"
      PROVE  customer'.peer \in {i, ConsultLeg}
  <2>1. customer.peer \in {i, ConsultLeg} BY <1>1, <1>2, TookMoves DEF Tied
  <2>2. ConsultLeg \notin LegId BY MaxLegsAssumption DEF ConsultLeg, LegId
  <2> QED BY <1>2, <2>1, <2>2, NextPeers DEF PeerMoves
<1>3. ASSUME ExecBridge, customer'.leg = "live", wlegs'[Effect.leg].status = "live"
      PROVE  customer'.peer = Effect.leg
  <2>1. Effect.leg \in LegId BY <1>3, ExecutingIs, EffectFields DEF ExecBridge
  <2>2. customer \in Customer BY DEF TypeOK
  <2>3. CASE customer' = [customer EXCEPT !.peer = Effect.leg] BY <2>2, <2>3 DEF Customer
  <2>4. CASE CustomerGone(Bridged) BY <1>3, <2>2, <2>4 DEF CustomerGone, Customer
  <2>5. CASE /\ UNCHANGED << customer, wlegs >>
             /\ customer.leg # "live" \/ wlegs[Effect.leg].status # "live"
    BY <1>3, <2>5
  <2>6. customer.leg \notin Up => customer.leg # "live" BY DEF Up
  <2> QED BY <1>3, <2>3, <2>4, <2>5, <2>6 DEF ExecBridge
<1> QED BY <1>2, <1>3 DEF Tied


\* OneTalks and Linked hold while the session stays as it is and effects only go
\* away as they are run,
LEMMA TalksKeeps ==
  ASSUME CallInv, CallInv', BridgeInv, [Next]_vars, machine' = machine, Unrun' \subseteq Unrun,
         \A e \in Unrun : e \in Unrun' \/ (Execute /\ e = Effect),
         ExecBridge => Effect \in Unrun
  PROVE  OneTalks' /\ Linked'
<1>0. TypeOK /\ TypeOK' BY DEF CallInv
<1>1. \A j \in LegId : machine.legs[j].status = "answered"
        => /\ machine.legs[j].ccid # NoLeg /\ Took(machine.legs[j].ccid)
           /\ TalksTo(machine, machine.legs[j].ccid) /\ machine.legs[j].ccid \in LegId
  BY <1>0 DEF BridgeInv, OneTalks, TypeOK, MachineOK, SessionMachine, Leg
<1>2. \A i \in LegId : Took(i) => wlegs'[i].status \in {"live", "gone"}
  BY <1>0, TookMoves DEF Took
<1>3. OneTalks' BY <1>1, <1>2 DEF BridgeInv, OneTalks, TalksTo, Took
<1>4. ASSUME machine.state = "answered", NEW j \in LegId, machine.legs[j].status = "answered",
             \A e \in Unrun' : e.kind # "telnyx-bridge",
             customer'.leg = "live", wlegs'[machine.legs[j].ccid].status = "live"
      PROVE  customer'.peer \in {machine.legs[j].ccid, ConsultLeg}
  <2> DEFINE c == machine.legs[j].ccid
  <2>1. customer.leg # "ringing" BY <1>4 DEF BridgeInv, UpInv
  <2>2. c \in LegId /\ Took(c) BY <1>1, <1>4
  <2>3. CASE ExecBridge
    <3>1. Effect \in Unrun /\ Effect.kind = "telnyx-bridge" BY <2>3 DEF ExecBridge, Executing, Effect
    <3>2. c = Effect.leg BY <1>4, <3>1 DEF BridgeInv, OneTalks, TalksTo
    <3> HIDE DEF c
    <3>3. wlegs'[Effect.leg].status = "live" BY <1>4, <3>2 DEF c
    <3>4. customer'.peer = Effect.leg BY <1>0, <1>4, <2>1, <2>3, <3>3, TiesStay
    <3> QED BY <3>2, <3>4 DEF c
  <2>4. CASE ~ExecBridge
    <3>1. \A e \in Unrun : e.kind # "telnyx-bridge"
      <4>1. ASSUME Execute, Effect.kind = "telnyx-bridge" PROVE FALSE
        BY <2>4, <4>1 DEF Execute, Executing, Effect, ExecMirror, ExecMirrorFails, ExecDial,
           ExecAnswerInbound, ExecAnswerNotice, ExecAnswerVm, ExecHangupLegs, ExecHangupCustomer,
           ExecReject, ExecMedia, ExecQuietly, ExecPushFanout, ExecTerminalMerge,
           ExecVoicemailPipeline, ExecAlarmSlot
      <4> QED BY <1>4, <4>1
    <3>2. Tied(c) BY <1>4, <3>1 DEF BridgeInv, Linked
    <3>3. \A i \in LegId : Took(i) /\ Tied(i) /\ customer'.leg = "live" /\ wlegs'[i].status = "live"
                             => customer'.peer \in {i, ConsultLeg}
      BY <1>0, <2>1, <2>4, TiesStay DEF Tied
    <3> QED BY <1>4, <2>2, <3>2, <3>3
  <2> QED BY <2>3, <2>4
<1>5. Linked' BY <1>4 DEF Linked, Tied
<1> QED BY <1>3, <1>5

\* and when a session is purged or taken from its row: it has no records.
LEMMA NoneTalks ==
  ASSUME NEW m, m = NoMachine \/ \E w : m = reconstructMachine(w)
  PROVE  \A j \in LegId : m.legs[j].status # "answered"
<1>1. NoMachine.legs = [i \in LegId |-> UnusedLeg] BY DEF NoMachine
<1>2. ASSUME NEW w PROVE reconstructMachine(w).legs = [i \in LegId |-> UnusedLeg]
  BY DEF reconstructMachine, NoMachine
<1>3. m.legs = [i \in LegId |-> UnusedLeg] BY <1>1, <1>2
<1> QED BY <1>3 DEF UnusedLeg

\* ... or nothing at all of them, when the journal is closed and no step is being run.
LEMMA TalksIdle ==
  ASSUME CallInv, CallInv', BridgeInv, [Next]_vars, ~journal.open
  PROVE  OneTalks' /\ Linked'
<1>1. Unrun = {} /\ ~Execute
  <2>1. journal = NoJournal BY DEF CallInv, CallFirst
  <2>2. TypeOK BY DEF CallInv
  <2> QED BY <2>1, <2>2, ClosedJournal, ExecuteForms DEF Executes, Passes
<1>2. Unrun' = {}
  <2>1. CASE UNCHANGED journal BY <1>1, <2>1 DEF Unrun
  <2>2. ASSUME NEW ev, journal' = Journal(ev) PROVE Unrun' = {}
    <3>1. journal'.fx = <<>> BY <2>2 DEF Journal
    <3> QED BY <3>1 DEF Unrun, Eff
  <2> QED BY <2>1, <2>2, IdleMoves
<1>3. CASE machine' = machine
  <2>1. ~ExecBridge BY <1>1 DEF Execute
  <2> QED BY <1>1, <1>2, <1>3, <2>1, TalksKeeps
<1>4. CASE machine' = NoMachine \/ \E w : machine' = reconstructMachine(w)
  <2>1. \A j \in LegId : machine'.legs[j].status # "answered" BY <1>4, NoneTalks
  <2> QED BY <1>2, <2>1 DEF OneTalks, TalksTo, Linked
<1> QED BY <1>3, <1>4, IdleMoves

\* BridgeInv is inductive.
LEMMA BridgeStep ==
  ASSUME CallInv, CallInv', DirInv, AnswerInv, GoneInv, LegInv, BridgeInv, [Next]_vars
  PROVE  BridgeInv'
<1>0. TypeOK /\ TypeOK' BY DEF CallInv
<1>1. UpInv' /\ HeardInv' /\ OneLine' BY UpStep, HeardStep, OneLineStep DEF BridgeInv
<1> SUFFICES OneTalks' /\ Linked' BY <1>1 DEF BridgeInv
<1>2. CASE Reduce BY <1>2, TalksReduces, TalksOpens
<1>3. CASE Execute
  <2>1. /\ machine' = machine /\ Effect \in Unrun /\ Unrun' \subseteq Unrun
        /\ \A e \in Unrun : e = Effect \/ e \in Unrun'
    BY <1>0, <1>3, ExecuteLeaves
  <2> QED BY <1>3, <2>1, TalksKeeps
<1>4. CASE journal.open /\ ~Reduce /\ ~Execute
  <2>1. machine' = machine /\ Unrun' = Unrun /\ ~ExecBridge
    BY <1>4, OpenStays DEF Unrun, Execute
  <2> QED BY <2>1, TalksKeeps
<1>5. CASE ~journal.open BY <1>5, TalksIdle
<1> QED BY <1>2, <1>3, <1>4, <1>5

\* BridgeHolds: BridgeInv, while the call is remembered: nobody is taken for answered
\* who did not answer, the answered records of a session are of one leg, and an
\* answered customer is with it unless its bridge is still to be run, one of the two is
\* down, or a consult took him over (answerWon, reduceOutboundPlacerAnswered,
\* reduceOutboundAnswered).
THEOREM BridgeHolds == Spec => [](CallInv /\ (Remembered => BridgeInv))
<1>1. Init => BridgeInv
  <2> SUFFICES ASSUME Init PROVE BridgeInv OBVIOUS
  <2>1. /\ machine = NoMachine /\ journal = NoJournal /\ row = NoRow
        /\ \A i \in LegId : wlegs[i].status = "none"
        /\ net = {InitialWebhook(customer.direction)}
    BY DEF Init
  <2>2. Unrun = {} /\ Coming = {} BY <2>1, ClosedJournal
  <2>3. machine.state = "none" /\ ~machine.answered /\ ~row.answered_at BY <2>1 DEF NoMachine, NoRow
  <2>4. \A j \in LegId : machine.legs[j].status # "answered" BY <2>1, NoneTalks
  <2>5. \A w \in net : Heard(w, wlegs, customer.leg)
    BY <2>1, MuteIsHeard DEF InitialWebhook, TellsOfLeg, AnsweredHooks
  <2> QED BY <2>1, <2>2, <2>3, <2>4, <2>5
          DEF BridgeInv, UpInv, HeardInv, OneLine, OneTalks, TalksTo, Linked
<1>2. CallInv /\ CallInv' /\ DirInv /\ (Remembered => AnswerInv) /\ GoneInv /\ (Remembered => LegInv)
        /\ (Remembered => BridgeInv) /\ [Next]_vars => (Remembered => BridgeInv)'
  BY BridgeStep, RememberedBefore DEF CallInv
<1> QED BY <1>1, <1>2, AnswerHolds, GoneHolds, LegHolds, PTL DEF Spec

\* BothAnsweredHolds: the first session of an answered call whose customer and
\* answering member are both on the line connects them, in whichever order the two
\* answers happened and were reported, and whatever was repeated, lost or hung up in
\* between (answerWon, reduceOutboundPlacerAnswered, reduceOutboundAnswered).
THEOREM BothAnsweredHolds == Spec => []BothAnsweredAreBridged
<1>1. CallInv /\ (Remembered => BridgeInv) => BothAnsweredAreBridged
  <2>1. SUFFICES ASSUME CallInv, BridgeInv, Resting, machine.state = "answered",
                        customer.leg = "live", NEW i \in Holder
                 PROVE  customer.peer \in Holder \cup {ConsultLeg}
    BY DEF BothAnsweredAreBridged, FirstSession, Remembered
  <2>2. journal = NoJournal BY <2>1 DEF CallInv, CallFirst, Resting, Drained
  <2>3. PICK j \in RecordsOf(i) : machine.legs[j].status = "answered" BY <2>1 DEF Holder
  <2>4. wlegs[i].status = "live" /\ machine.legs[j].ccid = i /\ j \in LegId
    BY <2>1, <2>3 DEF Holder, RecordsOf
  <2>5. Tied(i) BY <2>1, <2>2, <2>3, <2>4, ClosedJournal DEF BridgeInv, Linked
  <2> QED BY <2>1, <2>4, <2>5 DEF Tied
<1> QED BY <1>1, BridgeHolds, PTL

===============================================================================
