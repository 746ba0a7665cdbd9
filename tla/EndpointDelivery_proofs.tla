------------------------ MODULE EndpointDelivery_proofs ------------------------
(***************************************************************************)
(* Theorems about customer webhooks, for every set of deliveries and       *)
(* sweeps, every ladder and every number of faults and switches.           *)
(*                                                                         *)
(* The argument: what a sweep has in hand was claimed, and what was        *)
(* claimed does not come due before its sweep is over.  Every post has an  *)
(* attempt that the claim counted before it, and a claim that leads        *)
(* nowhere has cost a fault.                                               *)
(***************************************************************************)
EXTENDS EndpointDelivery, TLAPS

\* The types of a delivery's row and of a sweep.
Row   == [status : {"none", "emitting", "pending", "delivering", "succeeded", "failed", "gone"},
          attempts : 0 .. Ladder + 1 + MaxFaults, due : BOOLEAN]
Batch == [step : Delivery \cup {"idle", "read", "next"}, batch : SUBSET Delivery, known : BOOLEAN,
          active : BOOLEAN, streak : Nat, answer : {"none", "ok", "bad"}, successes : Nat,
          failures : Nat]

\* What is in hand was claimed and is not due, or its row is gone.
HandsHold ==
  \A s \in Sweep : \A d \in sweep[s].batch :
    row[d].status \in {"delivering", "gone"} /\ ~row[d].due

\* A sweep at rest has nothing in hand; one that awaits an answer has that delivery.
StepsHold ==
  \A s \in Sweep : /\ At(s, "idle") => sweep[s].batch = {}
                   /\ sweep[s].step \in Delivery => sweep[s].step \in sweep[s].batch

\* A post that is still to come of what is in hand; whether it is in hand.
Owed(d) == IF \E s \in InHand(d) : ~At(s, d) THEN 1 ELSE 0
Held(d) == IF InHand(d) = {} THEN 0 ELSE 1
Faults  == MaxFaults - budget.fault

\* Posts made and owed are covered by attempts, and these by the ladder and the
\* faults so far.
Covered(d) ==
  /\ row[d].status \in {"none", "emitting"} => row[d].attempts = 0 /\ got[d] = 0
  /\ got[d] + Owed(d) <= Ladder + 1 + Faults
  /\ Queued(d) => /\ row[d].attempts <= Ladder + Faults + Held(d)
                  /\ got[d] + Owed(d) <= row[d].attempts

AllCovered == \A d \in Delivery : Covered(d)

IInv == TypeOK /\ HandsHold /\ StepsHold /\ OneSweepPerDelivery /\ AllCovered

--------------------------------------------------------------------------------
(***************************************************************************)
(* Types, and who has what in hand.                                        *)
(***************************************************************************)

LEMMA Bounds == /\ Ladder \in Nat /\ MaxFaults \in Nat /\ DisableAfter \in Nat
                /\ "idle" \notin Delivery /\ "read" \notin Delivery /\ "next" \notin Delivery
  BY EndpointAssumption

LEMMA Types ==
  ASSUME TypeOK
  PROVE  /\ row \in [Delivery -> Row] /\ sweep \in [Sweep -> Batch] /\ got \in [Delivery -> Nat]
         /\ budget \in [switch : Nat, fault : 0 .. MaxFaults] /\ Faults \in 0 .. MaxFaults
         /\ endpoint \in [exists : BOOLEAN, active : BOOLEAN, streak : Nat]
  BY Bounds DEF TypeOK, Row, Batch, Faults

LEMMA AsleepTyped == Asleep \in Batch /\ Asleep.step = "idle" /\ Asleep.batch = {}
  BY DEF Asleep, Batch

LEMMA NoRowTyped ==
  /\ NoRow \in Row /\ NoRow.attempts = 0 /\ ~NoRow.due
  /\ [NoRow EXCEPT !.status = "gone"] \in Row
  /\ [NoRow EXCEPT !.status = "gone"].status = "gone" /\ ~[NoRow EXCEPT !.status = "gone"].due
  /\ [NoRow EXCEPT !.status = "pending", !.due = TRUE] \in Row
  /\ [NoRow EXCEPT !.status = "pending", !.due = TRUE].status = "pending"
  /\ [NoRow EXCEPT !.status = "pending", !.due = TRUE].attempts = 0
<1>1. 0 \in 0 .. Ladder + 1 + MaxFaults BY Bounds
<1>2. NoRow \in Row /\ NoRow.attempts = 0 /\ ~NoRow.due BY <1>1 DEF NoRow, Row
<1> QED BY <1>2 DEF Row

\* Only s moves, and what it comes to.
Moves(s) ==
  /\ sweep' \in [Sweep -> Batch]
  /\ \A t \in Sweep : t # s => sweep'[t] = sweep[t]

LEMMA InOneHand ==
  ASSUME OneSweepPerDelivery, NEW s \in Sweep, NEW d \in Delivery, d \in sweep[s].batch
  PROVE  InHand(d) = {s} /\ Held(d) = 1 /\ Owed(d) = IF At(s, d) THEN 0 ELSE 1
<1>1. InHand(d) = {s} BY DEF OneSweepPerDelivery, InHand
<1> QED BY <1>1 DEF Held, Owed

\* A delivery that s neither has nor takes.
LEMMA OtherHands ==
  ASSUME NEW s \in Sweep, Moves(s), NEW d \in Delivery, d \notin sweep[s].batch,
         d \notin sweep'[s].batch
  PROVE  Held(d)' = Held(d) /\ Owed(d)' = Owed(d)
<1>1. InHand(d)' = InHand(d) BY DEF InHand, Moves
<1>2. \A t \in InHand(d) : At(t, d)' <=> At(t, d) BY DEF InHand, Moves, At
<1> QED BY <1>1, <1>2 DEF Held, Owed

\* A delivery that s puts down.
LEMMA PutDown ==
  ASSUME OneSweepPerDelivery, NEW s \in Sweep, Moves(s), NEW d \in Delivery,
         d \in sweep[s].batch, d \notin sweep'[s].batch
  PROVE  InHand(d)' = {} /\ Held(d)' = 0 /\ Owed(d)' = 0
<1>1. \A t \in Sweep : d \notin sweep'[t].batch BY DEF Moves, OneSweepPerDelivery, InHand
<1>2. InHand(d)' = {} BY <1>1 DEF InHand
<1> QED BY <1>2 DEF Held, Owed

\* A delivery that nobody else had, and that s has now.
LEMMA InHandNow ==
  ASSUME NEW s \in Sweep, Moves(s), NEW d \in Delivery, d \in sweep'[s].batch,
         InHand(d) \subseteq {s}
  PROVE  InHand(d)' = {s} /\ Held(d)' = 1 /\ Owed(d)' = IF sweep'[s].step = d THEN 0 ELSE 1
<1>1. \A t \in Sweep : t # s => d \notin sweep'[t].batch BY DEF Moves, InHand
<1>2. InHand(d)' = {s} BY <1>1 DEF InHand
<1> QED BY <1>2 DEF Held, Owed, At

\* Whatever else happens, a sweep that only puts down keeps its hold.
LEMMA HoldKept ==
  ASSUME IInv, NEW s \in Sweep, Moves(s), sweep'[s].batch \subseteq sweep[s].batch,
         sweep'[s].step = "idle" => sweep'[s].batch = {},
         sweep'[s].step \in Delivery => sweep'[s].step \in sweep'[s].batch,
         \A d \in Delivery : row'[d] = row[d] \/ d \in sweep[s].batch \ sweep'[s].batch
  PROVE  HandsHold' /\ StepsHold' /\ OneSweepPerDelivery'
<1>1. StepsHold' BY DEF IInv, StepsHold, Moves, At
<1>2. OneSweepPerDelivery' BY DEF IInv, OneSweepPerDelivery, InHand, Moves
<1>3. ASSUME NEW t \in Sweep, NEW d \in sweep'[t].batch
      PROVE  row'[d].status \in {"delivering", "gone"} /\ ~row'[d].due
  <2>1. d \in sweep[t].batch /\ d \in Delivery BY <1>3, Types DEF IInv, Moves, Batch
  <2>2. row'[d] = row[d]
    BY <1>3, <2>1 DEF IInv, OneSweepPerDelivery, InHand, Moves
  <2> QED BY <2>1, <2>2 DEF IInv, HandsHold
<1>4. HandsHold' BY <1>3 DEF HandsHold
<1> QED BY <1>1, <1>2, <1>4

\* Nobody moves, and what is in hand stays as it is.
LEMMA HoldStays ==
  ASSUME IInv, sweep' = sweep,
         \A d \in Delivery : \/ row'[d] = row[d] \/ InHand(d) = {}
                             \/ row'[d].status = "gone" /\ ~row'[d].due
  PROVE  /\ HandsHold' /\ StepsHold' /\ OneSweepPerDelivery'
         /\ \A d \in Delivery : InHand(d)' = InHand(d) /\ Held(d)' = Held(d) /\ Owed(d)' = Owed(d)
<1>1. StepsHold' BY DEF IInv, StepsHold, At
<1>2. \A d \in Delivery : InHand(d)' = InHand(d) BY DEF InHand
<1>3. OneSweepPerDelivery' BY <1>2 DEF IInv, OneSweepPerDelivery
<1>4. \A d \in Delivery : Held(d)' = Held(d) /\ Owed(d)' = Owed(d) BY DEF Held, Owed, InHand, At
<1>5. \A s \in Sweep : sweep[s].batch \subseteq Delivery BY Types DEF IInv, Batch
<1>6. HandsHold' BY <1>5 DEF IInv, HandsHold, InHand
<1> QED BY <1>1, <1>2, <1>3, <1>4, <1>6

\* A delivery whose row and posts are as before: it may be put down at the price of a
\* fault, and what is owed may be forgotten.
LEMMA CoverKept ==
  ASSUME IInv, NEW d \in Delivery, row'[d] = row[d], got'[d] = got[d],
         Faults' \in Nat, Faults <= Faults',
         Owed(d)' \in {0, 1}, Owed(d)' <= Owed(d),
         Held(d)' = Held(d) \/ (Held(d)' = 0 /\ Faults < Faults')
  PROVE  Covered(d)'
<1>1. Covered(d) BY DEF IInv, AllCovered
<1>2. got[d] \in Nat /\ row[d].attempts \in Nat /\ Faults \in Nat /\ Ladder \in Nat
  BY Types, Bounds DEF IInv, Row
<1>3. Owed(d) \in {0, 1} /\ Held(d) \in {0, 1} BY DEF Owed, Held
<1> QED BY <1>1, <1>2, <1>3 DEF Covered, Queued

\* A row of which nobody has hold owes no post.
LEMMA FreeOwesNothing ==
  ASSUME NEW d \in Delivery, InHand(d) = {}
  PROVE  Held(d) = 0 /\ Owed(d) = 0
  BY DEF Held, Owed

LEMMA NotInHand ==
  ASSUME IInv, NEW d \in Delivery, row[d].status \notin {"delivering", "gone"} \/ row[d].due
  PROVE  InHand(d) = {}
  BY DEF IInv, HandsHold, InHand

LEMMA SpentFault ==
  ASSUME TypeOK, Spend("fault")
  PROVE  /\ budget' \in [switch : Nat, fault : 0 .. MaxFaults]
         /\ Faults' = Faults + 1 /\ Faults' \in Nat
  BY Types, Bounds DEF Spend, Faults

LEMMA SpentSwitch ==
  ASSUME TypeOK, Spend("switch")
  PROVE  budget' \in [switch : Nat, fault : 0 .. MaxFaults] /\ Faults' = Faults
  BY Types, Bounds DEF Spend, Faults

LEMMA NothingSpent ==
  ASSUME TypeOK, budget' = budget
  PROVE  budget' \in [switch : Nat, fault : 0 .. MaxFaults] /\ Faults' = Faults /\ Faults' \in Nat
  BY Types DEF Faults

--------------------------------------------------------------------------------
(***************************************************************************)
(* Every action keeps the invariant.                                       *)
(***************************************************************************)

LEMMA EmitReadsKeeps ==
  ASSUME IInv, NEW d \in Delivery, EmitReads(d)
  PROVE  IInv'
<1>1. /\ row' \in [Delivery -> Row] /\ row'[d].status = "emitting"
      /\ row'[d].attempts = row[d].attempts
      /\ \A e \in Delivery : e # d => row'[e] = row[e]
  BY Types DEF EmitReads, IInv, Row
<1>2. TypeOK' BY <1>1 DEF EmitReads, IInv, TypeOK, Row
<1>3. InHand(d) = {} BY NotInHand DEF EmitReads
<1>4. sweep' = sweep /\ got' = got /\ budget' = budget BY DEF EmitReads
<1>5. /\ HandsHold' /\ StepsHold' /\ OneSweepPerDelivery'
      /\ \A e \in Delivery : Held(e)' = Held(e) /\ Owed(e)' = Owed(e)
  BY <1>1, <1>3, <1>4, HoldStays
<1>6. ASSUME NEW e \in Delivery PROVE Covered(e)'
  <2>1. CASE e # d
    BY <1>1, <1>4, <1>5, <2>1, NothingSpent, CoverKept DEF IInv, Owed
  <2>2. CASE e = d
    <3>1. Covered(d) /\ row[d].status = "none" BY DEF EmitReads, IInv, AllCovered
    <3> QED BY <1>1, <1>4, <1>5, <2>2, <3>1, NothingSpent DEF IInv, Covered, Queued
  <2> QED BY <2>1, <2>2
<1> QED BY <1>2, <1>5, <1>6 DEF IInv, AllCovered

LEMMA EmitInsertsKeeps ==
  ASSUME IInv, NEW d \in Delivery, EmitInserts(d)
  PROVE  IInv'
<1>1. /\ row' \in [Delivery -> Row] /\ row'[d].status \in {"pending", "gone"}
      /\ row'[d].attempts = 0
      /\ \A e \in Delivery : e # d => row'[e] = row[e]
  <2>1. [NoRow EXCEPT !.status = "gone"].attempts = 0 BY NoRowTyped DEF Row
  <2> QED BY <2>1, Types, NoRowTyped DEF EmitInserts, IInv
<1>2. TypeOK' BY <1>1 DEF EmitInserts, IInv, TypeOK, Row
<1>3. InHand(d) = {} BY NotInHand DEF EmitInserts
<1>4. sweep' = sweep /\ got' = got /\ budget' = budget BY DEF EmitInserts
<1>5. /\ HandsHold' /\ StepsHold' /\ OneSweepPerDelivery'
      /\ \A e \in Delivery : Held(e)' = Held(e) /\ Owed(e)' = Owed(e)
  BY <1>1, <1>3, <1>4, HoldStays
<1>6. ASSUME NEW e \in Delivery PROVE Covered(e)'
  <2>1. CASE e # d
    BY <1>1, <1>4, <1>5, <2>1, NothingSpent, CoverKept DEF IInv, Owed
  <2>2. CASE e = d
    <3>1. got[d] = 0 BY DEF EmitInserts, IInv, AllCovered, Covered
    <3>2. Held(d) = 0 /\ Owed(d) = 0 BY <1>3, FreeOwesNothing
    <3> QED BY <1>1, <1>4, <1>5, <2>2, <3>1, <3>2, NothingSpent, Bounds DEF IInv, Covered, Queued
  <2> QED BY <2>1, <2>2
<1> QED BY <1>2, <1>5, <1>6 DEF IInv, AllCovered

LEMMA ComesDueKeeps ==
  ASSUME IInv, NEW d \in Delivery, ComesDue(d)
  PROVE  IInv'
<1>1. /\ row' \in [Delivery -> Row] /\ row'[d].status = row[d].status
      /\ row'[d].attempts = row[d].attempts
      /\ \A e \in Delivery : e # d => row'[e] = row[e]
  BY Types DEF ComesDue, IInv, Row
<1>2. TypeOK' BY <1>1 DEF ComesDue, IInv, TypeOK, Row
<1>3. sweep' = sweep /\ got' = got /\ budget' = budget /\ InHand(d) = {} BY DEF ComesDue
<1>4. /\ HandsHold' /\ StepsHold' /\ OneSweepPerDelivery'
      /\ \A e \in Delivery : Held(e)' = Held(e) /\ Owed(e)' = Owed(e)
  BY <1>1, <1>3, HoldStays
<1>5. ASSUME NEW e \in Delivery PROVE Covered(e)'
  <2>1. Covered(e) BY DEF IInv, AllCovered
  <2>2. row'[e].status = row[e].status /\ row'[e].attempts = row[e].attempts BY <1>1
  <2> QED BY <1>3, <1>4, <2>1, <2>2, NothingSpent DEF IInv, Covered, Queued
<1> QED BY <1>2, <1>4, <1>5 DEF IInv, AllCovered

LEMMA PruneKeeps ==
  ASSUME IInv, NEW d \in Delivery, Prune(d)
  PROVE  IInv'
<1>1. /\ row' \in [Delivery -> Row] /\ row'[d].status = "gone"
      /\ \A e \in Delivery : e # d => row'[e] = row[e]
  BY Types, NoRowTyped DEF Prune, IInv
<1>2. TypeOK' BY <1>1 DEF Prune, IInv, TypeOK, Row
<1>3. sweep' = sweep /\ got' = got /\ budget' = budget /\ InHand(d) = {} BY DEF Prune
<1>4. /\ HandsHold' /\ StepsHold' /\ OneSweepPerDelivery'
      /\ \A e \in Delivery : Held(e)' = Held(e) /\ Owed(e)' = Owed(e)
  BY <1>1, <1>3, HoldStays
<1>5. ASSUME NEW e \in Delivery PROVE Covered(e)'
  <2>1. CASE e # d
    BY <1>1, <1>3, <1>4, <2>1, NothingSpent, CoverKept DEF IInv, Owed
  <2>2. CASE e = d
    <3>1. Covered(d) BY DEF IInv, AllCovered
    <3> QED BY <1>1, <1>3, <1>4, <2>2, <3>1, NothingSpent DEF IInv, Covered, Queued
  <2> QED BY <2>1, <2>2
<1> QED BY <1>2, <1>4, <1>5 DEF IInv, AllCovered

LEMMA ClaimKeeps ==
  ASSUME IInv, NEW s \in Sweep, Claim(s)
  PROVE  IInv'
<1> DEFINE taken == { d \in Delivery : Due(d) }
<1>1. At(s, "idle") /\ sweep[s].batch = {} BY DEF Claim, IInv, StepsHold
<1>2. \A d \in taken : /\ d \in Delivery /\ Queued(d) /\ InHand(d) = {}
                       /\ row[d].attempts \in Nat
                       /\ row[d].attempts + 1 <= Ladder + 1 + Faults
                       /\ got[d] <= row[d].attempts
  <2> SUFFICES ASSUME NEW d \in taken
               PROVE  /\ d \in Delivery /\ Queued(d) /\ InHand(d) = {}
                      /\ row[d].attempts \in Nat
                      /\ row[d].attempts + 1 <= Ladder + 1 + Faults
                      /\ got[d] <= row[d].attempts
    OBVIOUS
  <2>1. d \in Delivery /\ Queued(d) /\ row[d].due BY DEF Due
  <2>2. InHand(d) = {} BY <2>1, NotInHand
  <2>3. Held(d) = 0 /\ Owed(d) = 0 BY <2>1, <2>2, FreeOwesNothing
  <2>4. Covered(d) BY <2>1 DEF IInv, AllCovered
  <2>5. row[d].attempts \in Nat /\ got[d] \in Nat /\ Faults \in Nat /\ Ladder \in Nat
    BY <2>1, Types, Bounds DEF IInv, Row
  <2> QED BY <2>1, <2>2, <2>3, <2>4, <2>5 DEF Covered
<1>3. row' = [d \in Delivery |-> IF d \in taken
                                   THEN [status |-> "delivering", attempts |-> row[d].attempts + 1,
                                         due |-> FALSE]
                                   ELSE row[d]]
  BY DEF Claim
<1>4. row' \in [Delivery -> Row]
  <2>1. \A d \in taken : row[d].attempts + 1 \in 0 .. Ladder + 1 + MaxFaults
    <3> SUFFICES ASSUME NEW d \in taken PROVE row[d].attempts + 1 \in 0 .. Ladder + 1 + MaxFaults
      OBVIOUS
    <3>1. Faults \in 0 .. MaxFaults /\ Ladder \in Nat /\ MaxFaults \in Nat
      BY Types, Bounds DEF IInv
    <3>2. row[d].attempts \in Nat /\ row[d].attempts + 1 <= Ladder + 1 + Faults BY <1>2
    <3> HIDE DEF taken
    <3> QED BY <3>1, <3>2
  <2>2. \A d \in Delivery : row'[d] \in Row BY <1>3, <2>1, Types DEF IInv, Row
  <2> QED BY <1>3, <2>2
<1>5. /\ Moves(s) /\ sweep'[s].step = "read" /\ sweep'[s].batch = taken
  BY Types, AsleepTyped DEF Claim, Moves, IInv, Batch
<1>6. TypeOK' BY <1>4, <1>5 DEF Claim, IInv, TypeOK, Moves, Row, Batch
<1>7. StepsHold' BY <1>5, Bounds DEF IInv, StepsHold, Moves, At
<1>8. \A d \in Delivery : IF d \in taken THEN InHand(d)' = {s} ELSE InHand(d)' = InHand(d)
  BY <1>1, <1>2, <1>5, InHandNow DEF InHand, Moves
<1>9. OneSweepPerDelivery' BY <1>8 DEF IInv, OneSweepPerDelivery
<1>10. HandsHold'
  <2> SUFFICES ASSUME NEW t \in Sweep, NEW d \in sweep'[t].batch
               PROVE  row'[d].status \in {"delivering", "gone"} /\ ~row'[d].due
    BY DEF HandsHold
  <2>1. d \in Delivery BY <1>5 DEF Moves, Batch
  <2>2. CASE d \in taken BY <1>3, <2>1, <2>2
  <2>3. CASE d \notin taken
    <3>1. d \in sweep[t].batch BY <1>5, <2>3 DEF Moves
    <3> QED BY <1>3, <2>1, <2>3, <3>1 DEF IInv, HandsHold
  <2> QED BY <2>2, <2>3
<1>11. ASSUME NEW d \in Delivery PROVE Covered(d)'
  <2>1. got' = got /\ budget' = budget BY DEF Claim
  <2>2. CASE d \notin taken
    <3>1. row'[d] = row[d] BY <1>3, <2>2
    <3>2. Held(d)' = Held(d) /\ Owed(d)' = Owed(d) BY <1>1, <1>5, <2>2, OtherHands
    <3> QED BY <2>1, <3>1, <3>2, NothingSpent, CoverKept DEF IInv, Owed
  <2>3. CASE d \in taken
    <3>1. row'[d].status = "delivering" /\ row'[d].attempts = row[d].attempts + 1 BY <1>3, <2>3
    <3>2. Held(d)' = 1 /\ Owed(d)' = 1 BY <1>2, <1>5, <2>3, InHandNow, Bounds
    <3>3. Faults' = Faults /\ got[d] \in Nat /\ Faults \in Nat /\ Ladder \in Nat
      BY <2>1, NothingSpent, Types, Bounds DEF IInv
    <3> QED BY <1>2, <2>1, <2>3, <3>1, <3>2, <3>3 DEF Covered, Queued
  <2> QED BY <2>2, <2>3
<1> QED BY <1>6, <1>7, <1>9, <1>10, <1>11 DEF IInv, AllCovered

\* A sweep that changes no row and makes no post, and puts down only at the price of
\* a fault.
LEMMA CoverAllKept ==
  ASSUME IInv, NEW s \in Sweep, Moves(s), row' = row, got' = got, Faults' \in Nat,
         sweep'[s].batch \subseteq sweep[s].batch,
         \/ Faults' = Faults /\ sweep'[s].batch = sweep[s].batch
         \/ Faults < Faults',
         \A d \in sweep'[s].batch : At(s, d) => sweep'[s].step = d
  PROVE  AllCovered'
<1> SUFFICES ASSUME NEW d \in Delivery PROVE Covered(d)' BY DEF AllCovered
<1>1. Faults \in Nat BY Types, Bounds DEF IInv
<1>2. CASE d \notin sweep[s].batch
  <2>1. Held(d)' = Held(d) /\ Owed(d)' = Owed(d) BY <1>2, OtherHands
  <2> QED BY <1>1, <2>1, CoverKept DEF Owed
<1>3. CASE d \in sweep[s].batch /\ d \in sweep'[s].batch
  <2>1. InHand(d) = {s} /\ Held(d) = 1 /\ Owed(d) = IF At(s, d) THEN 0 ELSE 1
    BY <1>3, InOneHand DEF IInv
  <2>2. Held(d)' = 1 /\ Owed(d)' = IF sweep'[s].step = d THEN 0 ELSE 1
    BY <1>3, <2>1, InHandNow
  <2> QED BY <1>1, <1>3, <2>1, <2>2, CoverKept
<1>4. CASE d \in sweep[s].batch /\ d \notin sweep'[s].batch
  <2>1. Held(d)' = 0 /\ Owed(d)' = 0 BY <1>4, PutDown DEF IInv
  <2>2. Faults < Faults' BY <1>4
  <2> QED BY <1>1, <2>1, <2>2, CoverKept DEF Owed
<1> QED BY <1>2, <1>3, <1>4

\* A delivery that s leaves where it is, while it puts another one down.
LEMMA OthersKept ==
  ASSUME IInv, NEW s \in Sweep, NEW d \in Delivery, NEW e \in Delivery, e # d,
         Moves(s), At(s, d) \/ At(s, "next"),
         sweep'[s].step = "next", sweep'[s].batch = sweep[s].batch \ {d},
         row'[e] = row[e], got' = got, budget' = budget
  PROVE  Covered(e)'
<1>1. Faults' = Faults /\ Faults \in Nat BY NothingSpent, Types DEF IInv
<1>2. CASE e \notin sweep[s].batch
  <2>1. Held(e)' = Held(e) /\ Owed(e)' = Owed(e) BY <1>2, OtherHands
  <2> QED BY <1>1, <2>1, CoverKept DEF Owed
<1>3. CASE e \in sweep[s].batch
  <2>1. InHand(e) = {s} /\ Held(e) = 1 /\ Owed(e) = IF At(s, e) THEN 0 ELSE 1
    BY <1>3, InOneHand DEF IInv
  <2>2. Held(e)' = 1 /\ Owed(e)' = IF sweep'[s].step = e THEN 0 ELSE 1
    BY <1>3, <2>1, InHandNow
  <2>3. Owed(e) = 1 /\ Owed(e)' = 1 BY <2>1, <2>2, Bounds DEF At
  <2> QED BY <1>1, <2>1, <2>2, <2>3, CoverKept
<1> QED BY <1>2, <1>3

LEMMA ReadEndpointKeeps ==
  ASSUME IInv, NEW s \in Sweep, ReadEndpoint(s)
  PROVE  IInv'
<1>1. Moves(s) /\ sweep'[s].step = "next" /\ sweep'[s].batch = sweep[s].batch
  BY Types DEF ReadEndpoint, IInv, Moves, Batch
<1>2. At(s, "read") /\ row' = row /\ got' = got /\ budget' = budget BY DEF ReadEndpoint
<1>3. TypeOK' BY <1>1 DEF ReadEndpoint, IInv, TypeOK, Moves, Batch
<1>4. HandsHold' /\ StepsHold' /\ OneSweepPerDelivery' BY <1>1, <1>2, Bounds, HoldKept
<1>5. sweep[s].batch \subseteq Delivery BY Types DEF IInv, Batch
<1>6. AllCovered' BY <1>1, <1>2, <1>5, NothingSpent, Bounds, CoverAllKept DEF IInv, At
<1> QED BY <1>3, <1>4, <1>6 DEF IInv

LEMMA ReadFailsKeeps ==
  ASSUME IInv, NEW s \in Sweep, ReadFails(s)
  PROVE  IInv'
<1>1. Moves(s) /\ sweep'[s].step = "next" /\ sweep'[s].batch = sweep[s].batch
  BY Types DEF ReadFails, IInv, Moves, Batch
<1>2. At(s, "read") /\ row' = row /\ got' = got BY DEF ReadFails
<1>3. budget' \in [switch : Nat, fault : 0 .. MaxFaults] /\ Faults' = Faults + 1 /\ Faults' \in Nat
  BY SpentFault DEF ReadFails, IInv
<1>4. TypeOK' BY <1>1, <1>3 DEF ReadFails, IInv, TypeOK, Moves, Batch
<1>5. HandsHold' /\ StepsHold' /\ OneSweepPerDelivery' BY <1>1, <1>2, Bounds, HoldKept
<1>6. sweep[s].batch \subseteq Delivery BY Types DEF IInv, Batch
<1>7. Faults < Faults' BY <1>3, Types DEF IInv
<1>8. AllCovered' BY <1>1, <1>2, <1>3, <1>6, <1>7, Bounds, CoverAllKept DEF IInv, At
<1> QED BY <1>4, <1>5, <1>8 DEF IInv

LEMMA TalliedMoves ==
  ASSUME TypeOK, NEW s \in Sweep, NEW d \in Delivery, Tallied(s, d)
  PROVE  Moves(s) /\ sweep'[s].step = "next" /\ sweep'[s].batch = sweep[s].batch \ {d}
<1> DEFINE after(m, n) == [sweep[s] EXCEPT !.step = "next", !.batch = sweep[s].batch \ {d},
                                           !.answer = "none", !.successes = m, !.failures = n]
<1>1. sweep[s] \in Batch /\ sweep[s].successes \in Nat /\ sweep[s].failures \in Nat
  BY Types DEF Batch
<1>2. \A m, n \in Nat : /\ after(m, n) \in Batch /\ after(m, n).step = "next"
                        /\ after(m, n).batch = sweep[s].batch \ {d}
  BY <1>1 DEF Batch
<1>3. sweep[s].answer = "ok" =>
        sweep' = [sweep EXCEPT ![s] = after(sweep[s].successes + 1, sweep[s].failures)]
  BY Zenon DEF Tallied
<1>4. sweep[s].answer # "ok" =>
        sweep' = [sweep EXCEPT ![s] = after(sweep[s].successes, sweep[s].failures + 1)]
  BY Zenon DEF Tallied
<1>5. sweep[s].successes + 1 \in Nat /\ sweep[s].failures + 1 \in Nat BY <1>1
<1> HIDE DEF after
<1>6. \E m, n \in Nat : sweep' = [sweep EXCEPT ![s] = after(m, n)]
  BY <1>1, <1>3, <1>4, <1>5, Zenon
<1> QED BY <1>2, <1>6, Types DEF Moves

\* The two ways to put down what is in hand at the price of a fault.
LEMMA OutcomeLostKeeps ==
  ASSUME IInv, NEW s \in Sweep, NEW d \in Delivery, OutcomeLost(s, d) \/ WriteOffLost(s, d)
  PROVE  IInv'
<1>1. Moves(s) /\ sweep'[s].step = "next" /\ sweep'[s].batch = sweep[s].batch \ {d}
  <2>1. CASE OutcomeLost(s, d) BY <2>1, TalliedMoves DEF OutcomeLost, IInv
  <2>2. CASE WriteOffLost(s, d)
    BY <2>2, Types DEF WriteOffLost, IInv, Moves, Batch, At
  <2> QED BY <2>1, <2>2
<1>2. row' = row /\ got' = got /\ endpoint' = endpoint BY DEF OutcomeLost, WriteOffLost
<1>3. At(s, d) \/ At(s, "next") BY DEF OutcomeLost, WriteOffLost
<1>4. budget' \in [switch : Nat, fault : 0 .. MaxFaults] /\ Faults' = Faults + 1 /\ Faults' \in Nat
  BY SpentFault DEF OutcomeLost, WriteOffLost, IInv
<1>5. TypeOK' BY <1>1, <1>2, <1>4 DEF IInv, TypeOK, Moves, Batch
<1>6. HandsHold' /\ StepsHold' /\ OneSweepPerDelivery' BY <1>1, <1>2, Bounds, HoldKept
<1>7. sweep[s].batch \subseteq Delivery BY Types DEF IInv, Batch
<1>8. Faults < Faults' BY <1>4, Types DEF IInv
<1>9. \A e \in sweep'[s].batch : ~At(s, e) BY <1>1, <1>3, <1>7, Bounds DEF At
<1>10. AllCovered' BY <1>1, <1>2, <1>4, <1>8, <1>9, CoverAllKept
<1> QED BY <1>5, <1>6, <1>10 DEF IInv

LEMMA DiesKeeps ==
  ASSUME IInv, NEW s \in Sweep, Dies(s)
  PROVE  IInv'
<1>1. Moves(s) /\ sweep'[s].step = "idle" /\ sweep'[s].batch = {}
  BY Types, AsleepTyped DEF Dies, IInv, Moves
<1>2. row' = row /\ got' = got BY DEF Dies
<1>3. budget' \in [switch : Nat, fault : 0 .. MaxFaults] /\ Faults' = Faults + 1 /\ Faults' \in Nat
  BY SpentFault DEF Dies, IInv
<1>4. TypeOK' BY <1>1, <1>3 DEF Dies, IInv, TypeOK, Moves, Batch
<1>5. HandsHold' /\ StepsHold' /\ OneSweepPerDelivery' BY <1>1, <1>2, Bounds, HoldKept
<1>6. Faults < Faults' BY <1>3, Types DEF IInv
<1>7. AllCovered' BY <1>1, <1>2, <1>3, <1>6, CoverAllKept
<1> QED BY <1>4, <1>5, <1>7 DEF IInv

LEMMA CountKeeps ==
  ASSUME IInv, NEW s \in Sweep, Count(s)
  PROVE  IInv'
<1>1. Moves(s) /\ sweep'[s].step = "idle" /\ sweep'[s].batch = {}
  BY Types, AsleepTyped DEF Count, IInv, Moves
<1>2. sweep[s].batch = {} /\ row' = row /\ got' = got /\ budget' = budget BY DEF Count
<1>3. endpoint' \in [exists : BOOLEAN, active : BOOLEAN, streak : Nat]
  <2>1. NextStreak(s) \in Nat BY Types DEF IInv, NextStreak, Batch
  <2> QED BY <2>1, Types DEF Count, IInv
<1>4. TypeOK' BY <1>1, <1>2, <1>3 DEF IInv, TypeOK, Moves, Batch
<1>5. HandsHold' /\ StepsHold' /\ OneSweepPerDelivery' BY <1>1, <1>2, Bounds, HoldKept
<1>6. AllCovered' BY <1>1, <1>2, NothingSpent, CoverAllKept DEF IInv
<1> QED BY <1>4, <1>5, <1>6 DEF IInv

LEMMA PostKeeps ==
  ASSUME IInv, NEW s \in Sweep, NEW d \in Delivery, Post(s, d)
  PROVE  IInv'
<1>1. Moves(s) /\ sweep'[s].step = d /\ sweep'[s].batch = sweep[s].batch
  <2>1. PICK answer \in {"ok", "bad"} : sweep' = [sweep EXCEPT ![s].step = d, ![s].answer = answer]
    BY DEF Post
  <2> QED BY <2>1, Types DEF IInv, Moves, Batch
<1>2. At(s, "next") /\ d \in sweep[s].batch /\ row' = row /\ budget' = budget BY DEF Post
<1>3. /\ got' \in [Delivery -> Nat] /\ got'[d] \in {got[d], got[d] + 1}
      /\ \A e \in Delivery : e # d => got'[e] = got[e]
  BY Types DEF Post, IInv
<1>4. TypeOK' BY <1>1, <1>3 DEF Post, IInv, TypeOK, Moves, Batch
<1>5. HandsHold' /\ StepsHold' /\ OneSweepPerDelivery' BY <1>1, <1>2, Bounds, HoldKept
<1>6. ASSUME NEW e \in Delivery PROVE Covered(e)'
  <2>1. CASE e \notin sweep[s].batch
    <3>1. Held(e)' = Held(e) /\ Owed(e)' = Owed(e) BY <1>1, <2>1, OtherHands
    <3> QED BY <1>2, <1>3, <2>1, <3>1, NothingSpent, CoverKept DEF IInv, Owed
  <2>2. CASE e \in sweep[s].batch /\ e # d
    <3>1. InHand(e) = {s} /\ Held(e) = 1 /\ Owed(e) = IF At(s, e) THEN 0 ELSE 1
      BY <2>2, InOneHand DEF IInv
    <3>2. Owed(e) = 1 BY <1>2, <3>1, Bounds DEF At
    <3>3. Held(e)' = 1 /\ Owed(e)' = 1 BY <1>1, <2>2, <3>1, InHandNow
    <3> QED BY <1>2, <1>3, <2>2, <3>1, <3>2, <3>3, NothingSpent, CoverKept DEF IInv
  <2>3. CASE e = d
    <3>1. InHand(d) = {s} /\ Held(d) = 1 /\ Owed(d) = IF At(s, d) THEN 0 ELSE 1
      BY <1>2, InOneHand DEF IInv
    <3>2. Owed(d) = 1 BY <1>2, <3>1, Bounds DEF At
    <3>3. Held(d)' = 1 /\ Owed(d)' = 0 BY <1>1, <1>2, <3>1, InHandNow
    <3>4. Covered(d) /\ got[d] \in Nat /\ row[d].attempts \in Nat /\ Faults \in Nat /\ Ladder \in Nat
      BY Types, Bounds DEF IInv, AllCovered, Row
    <3>5. row[d].status \in {"delivering", "gone"} BY <1>2 DEF IInv, HandsHold
    <3> QED BY <1>2, <1>3, <2>3, <3>1, <3>2, <3>3, <3>4, <3>5, NothingSpent DEF IInv, Covered, Queued
  <2> QED BY <2>1, <2>2, <2>3
<1> QED BY <1>4, <1>5, <1>6 DEF IInv, AllCovered

\* The two ways to put a row away by its id.
LEMMA WriteOffKeeps ==
  ASSUME IInv, NEW s \in Sweep, NEW d \in Delivery, WriteOff(s, d)
  PROVE  IInv'
<1>1. Moves(s) /\ sweep'[s].step = "next" /\ sweep'[s].batch = sweep[s].batch \ {d}
  BY Types DEF WriteOff, IInv, Moves, Batch, At
<1>2. d \in sweep[s].batch /\ got' = got /\ budget' = budget /\ endpoint' = endpoint BY DEF WriteOff
<1>3. /\ row' \in [Delivery -> Row] /\ row'[d].status \in {"failed", "gone"}
      /\ row'[d].attempts = row[d].attempts
      /\ \A e \in Delivery : e # d => row'[e] = row[e]
  BY Types DEF WriteOff, Write, IInv, Row
<1>4. TypeOK' BY <1>1, <1>2, <1>3 DEF IInv, TypeOK, Moves, Batch, Row
<1>5. HandsHold' /\ StepsHold' /\ OneSweepPerDelivery' BY <1>1, <1>2, <1>3, Bounds, HoldKept
<1>6. At(s, "next") BY DEF WriteOff
<1>7. ASSUME NEW e \in Delivery, e # d PROVE Covered(e)'
  BY <1>1, <1>2, <1>3, <1>6, <1>7, OthersKept
<1>8. Covered(d)'
  <2>1. Held(d)' = 0 /\ Owed(d)' = 0 BY <1>1, <1>2, PutDown DEF IInv
  <2>2. Owed(d) \in {0, 1} BY DEF Owed
  <2>3. Covered(d) /\ got[d] \in Nat /\ Faults \in Nat /\ Ladder \in Nat
    BY Types, Bounds DEF IInv, AllCovered
  <2> QED BY <1>2, <1>3, <2>1, <2>2, <2>3, NothingSpent DEF IInv, Covered, Queued
<1> QED BY <1>4, <1>5, <1>7, <1>8 DEF IInv, AllCovered

LEMMA WriteOutcomeKeeps ==
  ASSUME IInv, NEW s \in Sweep, NEW d \in Delivery, WriteOutcome(s, d)
  PROVE  IInv'
<1>1. Moves(s) /\ sweep'[s].step = "next" /\ sweep'[s].batch = sweep[s].batch \ {d}
  BY TalliedMoves DEF WriteOutcome, IInv
<1>2. At(s, d) /\ got' = got /\ budget' = budget /\ endpoint' = endpoint BY DEF WriteOutcome
<1>3. d \in sweep[s].batch BY <1>2 DEF IInv, StepsHold, At
<1>4. /\ row' \in [Delivery -> Row] /\ row'[d].status \in {"succeeded", "failed", "pending", "gone"}
      /\ row'[d].attempts = row[d].attempts
      /\ row'[d].status = "pending" => row[d].attempts <= Ladder
      /\ \A e \in Delivery : e # d => row'[e] = row[e]
  <2>1. row[d].attempts \in Nat /\ Ladder \in Nat BY Types, Bounds DEF IInv, Row
  <2> QED BY <2>1, Types DEF WriteOutcome, Write, LastAttempt, IInv, Row
<1>5. TypeOK' BY <1>1, <1>2, <1>4 DEF IInv, TypeOK, Moves, Batch, Row
<1>6. HandsHold' /\ StepsHold' /\ OneSweepPerDelivery' BY <1>1, <1>3, <1>4, Bounds, HoldKept
<1>7. ASSUME NEW e \in Delivery, e # d PROVE Covered(e)'
  BY <1>1, <1>2, <1>4, <1>7, OthersKept
<1>8. Covered(d)'
  <2>1. Held(d)' = 0 /\ Owed(d)' = 0 BY <1>1, <1>3, PutDown DEF IInv
  <2>2. Owed(d) \in {0, 1} BY DEF Owed
  <2>3. Covered(d) /\ got[d] \in Nat /\ Faults \in Nat /\ Ladder \in Nat /\ row[d].attempts \in Nat
    BY Types, Bounds DEF IInv, AllCovered, Row
  <2>4. row[d].status \in {"delivering", "gone"} BY <1>3 DEF IInv, HandsHold
  <2>5. row[d].status = "gone" => row'[d].status = "gone"
    BY DEF WriteOutcome, Write
  <2> QED BY <1>2, <1>4, <2>1, <2>2, <2>3, <2>4, <2>5, NothingSpent DEF IInv, Covered, Queued
<1> QED BY <1>5, <1>6, <1>7, <1>8 DEF IInv, AllCovered

\* The owner's switch.
LEMMA SwitchKeeps ==
  ASSUME IInv, Pause \/ Resume
  PROVE  IInv'
<1>1. row' = row /\ sweep' = sweep /\ got' = got BY DEF Pause, Resume
<1>2. budget' \in [switch : Nat, fault : 0 .. MaxFaults] /\ Faults' = Faults
  BY SpentSwitch DEF Pause, Resume, IInv
<1>3. endpoint' \in [exists : BOOLEAN, active : BOOLEAN, streak : Nat]
  <2>1. CASE Pause BY <2>1, Types DEF Pause, IInv
  <2>2. CASE Resume BY <2>2, Types DEF Resume, IInv
  <2> QED BY <2>1, <2>2
<1>4. TypeOK' BY <1>1, <1>2, <1>3 DEF IInv, TypeOK
<1>5. /\ HandsHold' /\ StepsHold' /\ OneSweepPerDelivery'
      /\ \A d \in Delivery : Held(d)' = Held(d) /\ Owed(d)' = Owed(d)
  BY <1>1, HoldStays
<1>6. AllCovered' BY <1>1, <1>2, <1>5 DEF IInv, AllCovered, Covered, Queued
<1> QED BY <1>4, <1>5, <1>6 DEF IInv

LEMMA RemoveKeeps ==
  ASSUME IInv, Remove
  PROVE  IInv'
<1>1. sweep' = sweep /\ got' = got BY DEF Remove
<1>2. budget' \in [switch : Nat, fault : 0 .. MaxFaults] /\ Faults' = Faults
  BY SpentSwitch DEF Remove, IInv
<1>3. row' \in [Delivery -> Row] BY Types, NoRowTyped DEF Remove, IInv
<1>4. \A d \in Delivery : row'[d] = row[d] \/ (row'[d].status = "gone" /\ ~row'[d].due)
  BY NoRowTyped DEF Remove
<1>5. TypeOK' BY <1>1, <1>2, <1>3 DEF Remove, IInv, TypeOK, Row
<1>6. /\ HandsHold' /\ StepsHold' /\ OneSweepPerDelivery'
      /\ \A d \in Delivery : Held(d)' = Held(d) /\ Owed(d)' = Owed(d)
  BY <1>1, <1>4, HoldStays
<1>7. AllCovered' BY <1>1, <1>2, <1>4, <1>6 DEF IInv, AllCovered, Covered, Queued
<1> QED BY <1>5, <1>6, <1>7 DEF IInv

--------------------------------------------------------------------------------
(***************************************************************************)
(* The theorems.                                                           *)
(***************************************************************************)

LEMMA Start == Init => IInv
<1> SUFFICES ASSUME Init PROVE IInv OBVIOUS
<1>1. /\ row \in [Delivery -> Row] /\ sweep \in [Sweep -> Batch]
      /\ \A d \in Delivery : row[d].status = "none" /\ row[d].attempts = 0 /\ got[d] = 0
      /\ \A s \in Sweep : sweep[s].step = "idle" /\ sweep[s].batch = {}
  <2>1. NoRow.status = "none" BY DEF NoRow
  <2> QED BY <2>1, NoRowTyped, AsleepTyped DEF Init
<1>2. TypeOK BY <1>1, EndpointAssumption DEF Init, TypeOK, Row, Batch
<1>3. HandsHold /\ StepsHold /\ OneSweepPerDelivery
  BY <1>1, Bounds DEF HandsHold, StepsHold, OneSweepPerDelivery, InHand
<1>4. ASSUME NEW d \in Delivery PROVE Covered(d)
  <2>1. InHand(d) = {} BY <1>1 DEF InHand
  <2>2. Held(d) = 0 /\ Owed(d) = 0 BY <2>1, FreeOwesNothing
  <2>3. Faults \in Nat BY <1>2, Types, Bounds
  <2> QED BY <1>1, <2>2, <2>3, Bounds DEF Covered, Queued
<1> QED BY <1>2, <1>3, <1>4 DEF IInv, AllCovered

LEMMA Preserved == IInv /\ [Next]_vars => IInv'
<1> SUFFICES ASSUME IInv, [Next]_vars PROVE IInv' OBVIOUS
<1>1. CASE \E d \in Delivery : EmitReads(d) \/ EmitInserts(d) \/ ComesDue(d) \/ Prune(d)
  BY <1>1, EmitReadsKeeps, EmitInsertsKeeps, ComesDueKeeps, PruneKeeps
<1>2. CASE \E s \in Sweep : SweepStep(s)
  BY <1>2, ReadEndpointKeeps, CountKeeps, WriteOffKeeps, PostKeeps, WriteOutcomeKeeps DEF SweepStep
<1>3. CASE \E s \in Sweep : Claim(s) \/ ReadFails(s) \/ Dies(s)
  BY <1>3, ClaimKeeps, ReadFailsKeeps, DiesKeeps
<1>4. CASE \E s \in Sweep, d \in Delivery : OutcomeLost(s, d) \/ WriteOffLost(s, d)
  BY <1>4, OutcomeLostKeeps
<1>5. CASE Pause \/ Resume \/ Remove BY <1>5, SwitchKeeps, RemoveKeeps
<1>6. CASE UNCHANGED vars
  <2>1. TypeOK' /\ HandsHold' /\ StepsHold' /\ OneSweepPerDelivery'
    BY <1>6 DEF vars, IInv, TypeOK, HandsHold, StepsHold, OneSweepPerDelivery, InHand, At
  <2>2. AllCovered'
    BY <1>6 DEF vars, IInv, AllCovered, Covered, Queued, Owed, Held, Faults, InHand, At
  <2> QED BY <2>1, <2>2 DEF IInv
<1> QED BY <1>1, <1>2, <1>3, <1>4, <1>5, <1>6 DEF Next

\* The invariant that carries the others: what is in hand was claimed, and the claims
\* cover the posts.
THEOREM Invariance == Spec => []IInv
  BY Start, Preserved, PTL DEF Spec

\* The rows, the sweeps and the receiver's counts keep their types; no row has more
\* attempts than the ladder and the faults allow.
THEOREM TypeCorrect == Spec => []TypeOK
<1>1. IInv => TypeOK BY DEF IInv
<1> QED BY <1>1, Invariance, PTL

\* No two sweeps have one event in hand, however they overlap.
THEOREM SweepsExclude == Spec => []OneSweepPerDelivery
<1>1. IInv => OneSweepPerDelivery BY DEF IInv
<1> QED BY <1>1, Invariance, PTL

\* The receiver gets an event once for each step of the ladder and for each fault, at
\* most.
THEOREM PostsAreBounded == Spec => []PostsBounded
<1>1. IInv => PostsBounded
  <2> SUFFICES ASSUME IInv, NEW d \in Delivery PROVE got[d] <= Ladder + 1 + MaxFaults
    BY DEF PostsBounded
  <2>1. got[d] + Owed(d) <= Ladder + 1 + Faults BY DEF IInv, AllCovered, Covered
  <2>2. Owed(d) \in {0, 1} BY DEF Owed
  <2>3. got[d] \in Nat /\ Faults \in 0 .. MaxFaults /\ Ladder \in Nat /\ MaxFaults \in Nat
    BY Types, Bounds DEF IInv
  <2> QED BY <2>1, <2>2, <2>3
<1> QED BY <1>1, Invariance, PTL
================================================================================
