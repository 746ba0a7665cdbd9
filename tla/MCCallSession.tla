----------------------------- MODULE MCCallSession -----------------------------
(***************************************************************************)
(* The instances of CallSession that TLC checks: two members, calls that   *)
(* open in different ways, and the budgets of faults and requests.         *)
(***************************************************************************)
EXTENDS CallProperties

CONSTANTS u1, u2

U == {u1, u2}

(***************************************************************************)
(* How an inbound call opens.                                              *)
(***************************************************************************)
Ring(targets, audience, inTurn) ==
  [kind |-> "ring", targets |-> targets, audience |-> audience, inTurn |-> inTurn,
   offset |-> 0, fits |-> TRUE, noticeAllowed |-> FALSE]

Without(kind, notice) ==
  [kind |-> kind, targets |-> <<u1>>, audience |-> {u1}, inTurn |-> FALSE,
   offset |-> 0, fits |-> TRUE, noticeAllowed |-> notice]

NoCalls == {}
Alone   == {Ring(<<u1>>, {}, FALSE)}
Crew    == {Ring(<<u1, u2>>, {}, FALSE), Ring(<<u1>>, {u1, u2}, FALSE)}
InTurn  == {Ring(<<u1, u2>>, {}, TRUE), Ring(<<u1, u2>>, {u2}, TRUE)}
Avenues == InTurn \cup {Ring(<<u1>>, {u2}, FALSE)}

Openings ==
  { Without("vm", FALSE), Without("suspended", TRUE), Without("suspended", FALSE),
    Without("cap", FALSE), Ring(<<>>, {}, FALSE), Ring(<<>>, {u1}, FALSE), Ring(<<u1>>, {}, FALSE) }

Every == Crew \cup Avenues \cup Openings

(***************************************************************************)
(* How a call is placed.                                                   *)
(***************************************************************************)
Place(kind, credential) == [kind |-> kind, placer |-> u1, credential |-> credential]

Placed  == {Place("mint", TRUE), Place("mint", FALSE), Place("busy", TRUE), Place("lapsed", TRUE)}

(***************************************************************************)
(* What dials come back with.                                              *)
(***************************************************************************)
Sure      == {"ccid"}
Refusable == {"ccid", "known-dead"}
Unsure    == {"ccid", "lost", "created"}

(***************************************************************************)
(* Budgets.                                                                *)
(***************************************************************************)
Nothing == [kind \in BudgetKind |-> 0]
Once(kinds) == [kind \in BudgetKind |-> IF kind \in kinds THEN 1 ELSE 0]

Asked1     == Once({"ringMe", "decline", "replay"})
Faults1    == [Once({"consult", "replay", "dup"}) EXCEPT !["mirrorFail"] = 2]
Losses     == [Once({"dup", "lose"}) EXCEPT !["mirrorFail"] = 2]
Evictions  == Once({"decline", "orphan", "loseAlarm"})
================================================================================
