---------------------------- MODULE Messages_proofs ----------------------------
(***************************************************************************)
(* Theorems about one outbound text, for every set of invocations and      *)
(* every number of retries, faults and replayed webhooks.                  *)
(*                                                                         *)
(* The argument: an invocation that means to dispatch has made the row     *)
(* queued, without an id and freshly touched, and such a row is what every *)
(* claim refuses; time passes only when no invocation is under way.        *)
(***************************************************************************)
EXTENDS Messages, TLAPS

\* The types of the text's row, of its schedule and of an invocation.
Text       == [status : {"none", "queued", "sent", "delivered", "failed"}, id : BOOLEAN,
               stale : BOOLEAN, tries : 0 .. AutoRetryLimit]
Schedule   == [status : {"none"} \cup Open \cup Closed, leased : BOOLEAN, replied : BOOLEAN]
Carrier    == [keys : SUBSET {sendIdempotencyKey}, hooks : SUBSET {"sent", "final"},
               fate : {"none", "sent", "delivered", "failed"}]
Invocation == [job : {"none", "send", "retry", "auto", "schedule", "final"}, step : Steps]

\* An invocation that has claimed the row, up to the write of what came of it.
Owns(w) ==
  \/ worker[w].step \in {"media", "dispatch", "accepted", "refused", "interrupt"}
  \/ worker[w].job = "auto" /\ worker[w].step \in {"gates", "claim"}

\* A row that nobody can claim but who has it.
Taken == row.status = "queued" /\ ~row.id /\ ~row.stale

RowIsOwned == \A w \in Worker : Owns(w) => Taken
OneOwner   == \A v, w \in Worker : Owns(v) /\ Owns(w) => v = w

\* The automatic retry never comes as far as the carrier: its own claim has touched
\* the row.
AutoStops ==
  \A w \in Worker :
    worker[w].step \in {"media", "dispatch", "accepted", "refused", "look", "fire"}
      => worker[w].job # "auto"

\* What the carrier has become when it has the text, now or before.
AcceptedBy(c) ==
  /\ c \in Carrier /\ c.keys # {} /\ c.fate # "none"
  /\ carrier.fate # "none" => c.fate = carrier.fate

\* What the row says of the carrier is so.
RowAndCarrierAgree ==
  /\ carrier.keys = {} <=> carrier.fate = "none"
  /\ \A w \in Worker : At(w, "accepted") => carrier.fate # "none"
  /\ row.id => carrier.fate # "none" /\ row.status # "none"
  /\ \A w \in Worker : At(w, "update") => row.id
  /\ row.status = "delivered" => carrier.fate = "delivered"

IInv == TypeOK /\ RowIsOwned /\ OneOwner /\ AutoStops /\ RowAndCarrierAgree /\ SentIffFired

--------------------------------------------------------------------------------
(***************************************************************************)
(* What the small operators do.                                            *)
(***************************************************************************)

LEMMA Types ==
  ASSUME TypeOK
  PROVE  /\ row \in Text /\ sched \in Schedule
         /\ worker \in [Worker -> Invocation]
  BY DEF TypeOK, Text, Schedule, Invocation

LEMMA ClockTypes ==
  ASSUME TypeOK
  PROVE  /\ clock \in [due : BOOLEAN, past : BOOLEAN, ran : BOOLEAN, minutes : 0 .. MaxMinutes]
         /\ MaxMinutes \in Nat
  BY MessagesAssumption DEF TypeOK

\* Only w moves, and what it comes to.
Moves(w, i) ==
  /\ worker' \in [Worker -> Invocation]
  /\ worker'[w] = i
  /\ \A v \in Worker : v # w => worker'[v] = worker[v]

LEMMA GoMoves ==
  ASSUME TypeOK, NEW w \in Worker, NEW step \in Steps, Go(w, step)
  PROVE  Moves(w, [job |-> worker[w].job, step |-> step])
  BY Types DEF Go, Moves, Invocation

LEMMA EndsMoves ==
  ASSUME TypeOK, NEW w \in Worker, Ends(w)
  PROVE  Moves(w, Idle)
  BY Types DEF Ends, Moves, Idle, Invocation, Steps

LEMMA BeginMoves ==
  ASSUME TypeOK, NEW w \in Worker, NEW job \in {"send", "retry", "auto", "schedule", "final"},
         NEW step \in Steps, Begin(w, job, step)
  PROVE  At(w, "idle") /\ Moves(w, [job |-> job, step |-> step])
  BY Types DEF Begin, Moves, Idle, Invocation

LEMMA TouchedRow ==
  ASSUME NEW r \in Text
  PROVE  /\ Touched(r) \in Text /\ ~Touched(r).stale
         /\ Touched(r).status = r.status /\ Touched(r).id = r.id
  BY DEF Touched, Text

LEMMA RowWithStatus ==
  ASSUME TypeOK, NEW status \in {"queued", "sent", "delivered", "failed"}
  PROVE  LET r == Touched([row EXCEPT !.status = status]) IN
           r \in Text /\ ~r.stale /\ r.status = status /\ r.id = row.id
<1>1. [row EXCEPT !.status = status] \in Text BY Types DEF Text
<1> QED BY <1>1, Types DEF Touched, Text

LEMMA FailedRow ==
  ASSUME TypeOK
  PROVE  Failed(row) \in Text /\ Failed(row).status = "failed" /\ Failed(row).id = row.id
<1>1. Failed(row) = Touched([row EXCEPT !.status = "failed"]) BY DEF Failed
<1> QED BY <1>1, RowWithStatus

LEMMA QueuedRow ==
  ASSUME TypeOK
  PROVE  Queued \in Text /\ Queued.status = "queued" /\ ~Queued.id /\ ~Queued.stale
<1>1. 0 \in 0 .. AutoRetryLimit BY MessagesAssumption
<1>2. NoText \in Text /\ ~NoText.id /\ ~NoText.stale BY <1>1 DEF NoText, Text
<1> QED BY <1>2 DEF Queued, Text

\* The row is with one invocation: it may change when nobody has it or by who has
\* it, and it is taken over only when nobody has it.
LEMMA Ownership ==
  ASSUME IInv, NEW w \in Worker, NEW i, Moves(w, i),
         Owns(w)' => Taken' /\ (Owns(w) \/ ~Taken),
         row' = row \/ ~Taken \/ Owns(w)
  PROVE  RowIsOwned' /\ OneOwner'
<1>1. \A v \in Worker : v # w /\ Owns(v)' => Owns(v) BY DEF Moves, Owns
<1>2. \A v \in Worker : v # w /\ Owns(v)' => Taken /\ ~Owns(w) /\ row' = row
  BY <1>1 DEF IInv, RowIsOwned, OneOwner
<1>3. RowIsOwned' BY <1>2 DEF RowIsOwned, Taken
<1>4. OneOwner' BY <1>1, <1>2 DEF IInv, OneOwner
<1> QED BY <1>3, <1>4

\* Nobody moves: the row may change only when nobody has it.
LEMMA Bystander ==
  ASSUME IInv, worker' = worker, row' = row \/ ~Taken
  PROVE  RowIsOwned' /\ OneOwner' /\ AutoStops'
<1>1. RowIsOwned' BY DEF IInv, RowIsOwned, Owns, Taken
<1>2. OneOwner' BY DEF IInv, OneOwner, Owns
<1>3. AutoStops' BY DEF IInv, AutoStops
<1> QED BY <1>1, <1>2, <1>3

LEMMA AutoStopsKept ==
  ASSUME IInv, NEW w \in Worker, NEW i, Moves(w, i),
         i.step \in {"media", "dispatch", "accepted", "refused", "look", "fire"} => i.job # "auto"
  PROVE  AutoStops'
  BY DEF IInv, AutoStops, Moves

--------------------------------------------------------------------------------
(***************************************************************************)
(* Every action keeps the invariant.                                       *)
(***************************************************************************)

LEMMA MediaStoredKeeps ==
  ASSUME IInv, NEW w \in Worker, MediaStored(w)
  PROVE  IInv'
<1>1. Moves(w, [job |-> worker[w].job, step |-> "dispatch"])
  BY GoMoves DEF MediaStored, IInv, Steps
<1>2. TypeOK' BY <1>1 DEF MediaStored, IInv, TypeOK, Moves, Invocation
<1>3. RowIsOwned' /\ OneOwner'
  BY <1>1, Ownership DEF MediaStored, IInv, RowIsOwned, Owns, Taken, At
<1>4. AutoStops' BY <1>1, AutoStopsKept DEF MediaStored, IInv, AutoStops, At
<1>5. RowAndCarrierAgree' BY <1>1 DEF MediaStored, IInv, RowAndCarrierAgree, Moves, At
<1>6. SentIffFired' BY DEF MediaStored, IInv, SentIffFired
<1> QED BY <1>2, <1>3, <1>4, <1>5, <1>6 DEF IInv

LEMMA MediaFailsKeeps ==
  ASSUME IInv, NEW w \in Worker, MediaFails(w)
  PROVE  IInv'
<1>1. Moves(w, [job |-> worker[w].job, step |-> "interrupt"])
  BY GoMoves DEF MediaFails, IInv, Steps
<1>2. TypeOK' BY <1>1 DEF MediaFails, IInv, TypeOK, Moves, Invocation
<1>3. RowIsOwned' /\ OneOwner'
  BY <1>1, Ownership DEF MediaFails, IInv, RowIsOwned, Owns, Taken, At
<1>4. AutoStops' BY <1>1, AutoStopsKept DEF MediaFails, IInv, AutoStops, At
<1>5. RowAndCarrierAgree' BY <1>1 DEF MediaFails, IInv, RowAndCarrierAgree, Moves, At
<1>6. SentIffFired' BY DEF MediaFails, IInv, SentIffFired
<1> QED BY <1>2, <1>3, <1>4, <1>5, <1>6 DEF IInv

LEMMA SendGateKeeps ==
  ASSUME IInv, NEW w \in Worker, SendGate(w)
  PROVE  IInv'
<1>1. At(w, "idle") /\ Moves(w, [job |-> "send", step |-> "media"])
  BY BeginMoves DEF SendGate, IInv, Steps
<1>2. row' \in Text /\ Taken' BY QueuedRow DEF SendGate, IInv, Taken
<1>3. TypeOK' BY <1>1, <1>2 DEF SendGate, IInv, TypeOK, Moves, Invocation, Text
<1>4. RowIsOwned' /\ OneOwner' BY <1>1, <1>2, Ownership DEF SendGate, Taken
<1>5. AutoStops' BY <1>1, AutoStopsKept
<1>6. RowAndCarrierAgree' BY <1>1, <1>2 DEF SendGate, IInv, RowAndCarrierAgree, Moves, At, Taken
<1>7. SentIffFired' BY DEF SendGate, SentIffFired
<1> QED BY <1>2, <1>3, <1>4, <1>5, <1>6, <1>7 DEF IInv

LEMMA InterruptKeeps ==
  ASSUME IInv, NEW w \in Worker, Interrupt(w)
  PROVE  IInv'
<1>1. Moves(w, Idle) BY EndsMoves DEF Interrupt, IInv
<1>2. row.status = "queued" /\ ~row.id BY DEF Interrupt, IInv, RowIsOwned, Owns, Taken, At
<1>3. row' \in Text /\ row'.status = "failed" /\ ~row'.id
  BY <1>2, FailedRow DEF Interrupt, IInv, WriteRow
<1>4. TypeOK' BY <1>1, <1>3 DEF Interrupt, IInv, TypeOK, Moves, Invocation, Text
<1>5. RowIsOwned' /\ OneOwner' BY <1>1, Ownership DEF Interrupt, Owns, At, Idle, Moves
<1>6. AutoStops' BY <1>1, AutoStopsKept DEF Idle
<1>7. RowAndCarrierAgree'
  BY <1>1, <1>2, <1>3 DEF Interrupt, IInv, RowAndCarrierAgree, Moves, At, Idle
<1>8. SentIffFired' BY <1>2, <1>3 DEF Interrupt, IInv, SentIffFired
<1> QED BY <1>4, <1>5, <1>6, <1>7, <1>8 DEF IInv

LEMMA DispatchDeniedKeeps ==
  ASSUME IInv, NEW w \in Worker, DispatchDenied(w)
  PROVE  IInv'
<1>1. Moves(w, Idle) BY EndsMoves DEF DispatchDenied, IInv, AutoStops, At
<1>2. row.status = "queued" /\ ~row.id BY DEF DispatchDenied, IInv, RowIsOwned, Owns, Taken, At
<1>3. row' \in Text /\ row'.status = "failed" /\ ~row'.id
  BY <1>2, FailedRow DEF DispatchDenied, IInv, WriteRow
<1>4. TypeOK' BY <1>1, <1>3 DEF DispatchDenied, IInv, TypeOK, Moves, Invocation, Text
<1>5. RowIsOwned' /\ OneOwner' BY <1>1, Ownership DEF DispatchDenied, Owns, At, Idle, Moves
<1>6. AutoStops' BY <1>1, AutoStopsKept DEF Idle
<1>7. RowAndCarrierAgree'
  BY <1>1, <1>2, <1>3 DEF DispatchDenied, IInv, RowAndCarrierAgree, Moves, At, Idle
<1>8. SentIffFired' BY <1>2, <1>3 DEF DispatchDenied, IInv, SentIffFired
<1> QED BY <1>4, <1>5, <1>6, <1>7, <1>8 DEF IInv

LEMMA PostKeeps ==
  ASSUME IInv, NEW w \in Worker, Post(w)
  PROVE  IInv'
<1>1. /\ carrier \in Carrier
      /\ carrier.keys = {} <=> carrier.fate = "none"
  BY DEF IInv, TypeOK, RowAndCarrierAgree, Carrier
<1>2. Accepts => AcceptedBy(carrier')
  BY <1>1 DEF Accepts, AcceptedBy, Carrier, sendIdempotencyKey
<1>3. PICK step \in {"accepted", "refused"} : Moves(w, [job |-> worker[w].job, step |-> step])
  BY GoMoves DEF Post, IInv, Steps
<1>4. step = "accepted" => Accepts
  <2>1. ~Accepts => Go(w, "refused") BY DEF Post
  <2>2. ~Accepts => Moves(w, [job |-> worker[w].job, step |-> "refused"])
    BY <2>1, GoMoves DEF IInv, Steps
  <2> QED BY <1>3, <2>2 DEF Moves
<1>5. /\ carrier' \in Carrier
      /\ carrier.fate # "none" => carrier'.fate = carrier.fate
      /\ carrier'.keys = {} <=> carrier'.fate = "none"
      /\ step = "accepted" => carrier'.fate # "none"
  BY <1>1, <1>2, <1>4 DEF Post, AcceptedBy
<1>6. TypeOK'
  <2>1. UNCHANGED << sched, row, usage, clock, budget >> /\ stopped' \in BOOLEAN
    BY DEF Post, IInv, TypeOK
  <2> QED BY <1>3, <1>5, <2>1 DEF IInv, TypeOK, Carrier, Moves, Invocation
<1>7. row' = row /\ sched' = sched BY DEF Post
<1>8. At(w, "dispatch") BY DEF Post
<1>9. RowIsOwned' /\ OneOwner'
  BY <1>3, <1>7, <1>8, Ownership DEF IInv, RowIsOwned, Owns, Taken, At
<1>10. AutoStops' BY <1>3, <1>8, AutoStopsKept DEF IInv, AutoStops, At
<1>11. RowAndCarrierAgree' BY <1>3, <1>5, <1>7 DEF IInv, RowAndCarrierAgree, Moves, At
<1>12. SentIffFired' BY <1>7 DEF IInv, SentIffFired
<1> QED BY <1>6, <1>9, <1>10, <1>11, <1>12 DEF IInv

LEMMA PersistIdKeeps ==
  ASSUME IInv, NEW w \in Worker, PersistId(w)
  PROVE  IInv'
<1>1. Moves(w, Idle) BY EndsMoves DEF PersistId, IInv
<1>2. row.status = "queued" /\ ~row.id /\ carrier.fate # "none"
  BY DEF PersistId, IInv, RowIsOwned, RowAndCarrierAgree, Owns, Taken, At
<1>3. row' \in Text /\ row'.status = "queued" /\ row'.id
  BY <1>2, Types DEF PersistId, IInv, WriteRow, Touched, Text
<1>4. TypeOK' BY <1>1, <1>3 DEF PersistId, IInv, TypeOK, Moves, Invocation, Text
<1>5. RowIsOwned' /\ OneOwner' BY <1>1, Ownership DEF PersistId, Owns, At, Idle, Moves
<1>6. AutoStops' BY <1>1, AutoStopsKept DEF Idle
<1>7. RowAndCarrierAgree'
  BY <1>1, <1>2, <1>3 DEF PersistId, IInv, RowAndCarrierAgree, Moves, At, Idle
<1>8. SentIffFired' BY <1>2, <1>3 DEF PersistId, IInv, SentIffFired
<1> QED BY <1>4, <1>5, <1>6, <1>7, <1>8 DEF IInv

LEMMA PersistFailureKeeps ==
  ASSUME IInv, NEW w \in Worker, PersistFailure(w)
  PROVE  IInv'
<1>1. Moves(w, Idle) BY EndsMoves DEF PersistFailure, IInv
<1>2. row.status = "queued" /\ ~row.id BY DEF PersistFailure, IInv, RowIsOwned, Owns, Taken, At
<1>3. row' \in Text /\ row'.status = "failed" /\ ~row'.id
  BY <1>2, FailedRow DEF PersistFailure, IInv, WriteRow
<1>4. TypeOK' BY <1>1, <1>3 DEF PersistFailure, IInv, TypeOK, Moves, Invocation, Text
<1>5. RowIsOwned' /\ OneOwner' BY <1>1, Ownership DEF PersistFailure, Owns, At, Idle, Moves
<1>6. AutoStops' BY <1>1, AutoStopsKept DEF Idle
<1>7. RowAndCarrierAgree'
  BY <1>1, <1>2, <1>3 DEF PersistFailure, IInv, RowAndCarrierAgree, Moves, At, Idle
<1>8. SentIffFired' BY <1>2, <1>3 DEF PersistFailure, IInv, SentIffFired
<1> QED BY <1>4, <1>5, <1>6, <1>7, <1>8 DEF IInv

LEMMA PersistFailsKeeps ==
  ASSUME IInv, NEW w \in Worker, PersistFails(w)
  PROVE  IInv'
<1>1. Moves(w, Idle) BY EndsMoves DEF PersistFails, IInv, AutoStops, At
<1>2. budget' \in [retry : Nat, replay : Nat, fault : Nat]
  BY DEF PersistFails, IInv, TypeOK, Spend
<1>3. TypeOK' BY <1>1, <1>2 DEF PersistFails, IInv, TypeOK, Moves, Invocation
<1>4. RowIsOwned' /\ OneOwner' BY <1>1, Ownership DEF PersistFails, Owns, Idle, Moves
<1>5. AutoStops' BY <1>1, AutoStopsKept DEF Idle
<1>6. RowAndCarrierAgree' BY <1>1 DEF PersistFails, IInv, RowAndCarrierAgree, Moves, At, Idle
<1>7. SentIffFired' BY DEF PersistFails, IInv, SentIffFired
<1> QED BY <1>3, <1>4, <1>5, <1>6, <1>7 DEF IInv

LEMMA RetryStartsKeeps ==
  ASSUME IInv, NEW w \in Worker, RetryStarts(w)
  PROVE  IInv'
<1>1. At(w, "idle") /\ Moves(w, [job |-> "retry", step |-> "claim"])
  BY BeginMoves DEF RetryStarts, IInv, Steps
<1>2. budget' \in [retry : Nat, replay : Nat, fault : Nat]
  BY DEF RetryStarts, IInv, TypeOK, Spend
<1>3. TypeOK' BY <1>1, <1>2 DEF RetryStarts, IInv, TypeOK, Moves, Invocation
<1>4. RowIsOwned' /\ OneOwner' BY <1>1, Ownership DEF RetryStarts, Owns, Moves
<1>5. AutoStops' BY <1>1, AutoStopsKept
<1>6. RowAndCarrierAgree' BY <1>1 DEF RetryStarts, IInv, RowAndCarrierAgree, Moves, At
<1>7. SentIffFired' BY DEF RetryStarts, IInv, SentIffFired
<1> QED BY <1>3, <1>4, <1>5, <1>6, <1>7 DEF IInv

LEMMA ClaimTakesKeeps ==
  ASSUME IInv, NEW w \in Worker, ClaimTakes(w)
  PROVE  IInv'
<1>1. Moves(w, [job |-> worker[w].job, step |-> "dispatch"])
  BY GoMoves DEF ClaimTakes, IInv, Steps
<1>2. row.status # "none" /\ ~row.id /\ ~Taken
  BY DEF ClaimTakes, Retryable, Stuck, Unsent, Taken
<1>3. row' \in Text /\ Taken' BY <1>2, RowWithStatus DEF ClaimTakes, IInv, Taken
<1>4. worker[w].job # "auto" BY <1>2 DEF ClaimTakes, IInv, RowIsOwned, Owns, At
<1>5. TypeOK' BY <1>1, <1>3 DEF ClaimTakes, IInv, TypeOK, Moves, Invocation, Text
<1>6. RowIsOwned' /\ OneOwner' BY <1>1, <1>2, <1>3, Ownership
<1>7. AutoStops' BY <1>1, <1>4, AutoStopsKept
<1>8. RowAndCarrierAgree'
  BY <1>1, <1>2, <1>3 DEF ClaimTakes, IInv, RowAndCarrierAgree, Moves, At, Taken
<1>9. SentIffFired' BY <1>2, <1>3 DEF ClaimTakes, IInv, SentIffFired, Taken
<1> QED BY <1>3, <1>5, <1>6, <1>7, <1>8, <1>9 DEF IInv

LEMMA ClaimRefusesKeeps ==
  ASSUME IInv, NEW w \in Worker, ClaimRefuses(w)
  PROVE  IInv'
<1>1. \/ Moves(w, Idle)
      \/ worker[w].job = "auto" /\ Moves(w, [job |-> worker[w].job, step |-> "interrupt"])
  <2>1. CASE worker[w].job = "auto" BY <2>1, GoMoves DEF ClaimRefuses, IInv, Steps
  <2>2. CASE worker[w].job # "auto" BY <2>2, EndsMoves DEF ClaimRefuses, IInv
  <2> QED BY <2>1, <2>2
<1>2. row' = row \/ (Stuck /\ row' = Failed(row)) BY DEF ClaimRefuses
<1>3. row' = row \/ (~Taken /\ row.status # "none" /\ row'.status = "failed")
  BY <1>2, FailedRow DEF IInv, Stuck, Unsent, Taken
<1>4. row' \in Text /\ row'.id = row.id BY <1>2, Types, FailedRow DEF IInv
<1>5. worker[w].job = "auto" => Owns(w) /\ Taken BY DEF ClaimRefuses, IInv, RowIsOwned, Owns, At
<1>6. TypeOK' BY <1>1, <1>4 DEF ClaimRefuses, IInv, TypeOK, Moves, Invocation, Text
<1>7. RowIsOwned' /\ OneOwner'
  BY <1>1, <1>3, <1>5, Ownership DEF Owns, Moves, Idle, Taken
<1>8. AutoStops' BY <1>1, AutoStopsKept DEF Idle
<1>9. RowAndCarrierAgree'
  BY <1>1, <1>3, <1>4 DEF ClaimRefuses, IInv, RowAndCarrierAgree, Moves, At, Idle
<1>10. SentIffFired' BY <1>3 DEF ClaimRefuses, IInv, SentIffFired
<1> QED BY <1>6, <1>7, <1>8, <1>9, <1>10 DEF IInv

LEMMA AutoClaimKeeps ==
  ASSUME IInv, NEW w \in Worker, AutoClaim(w)
  PROVE  IInv'
<1>1. At(w, "idle") /\ Moves(w, [job |-> "auto", step |-> "gates"])
  BY BeginMoves DEF AutoClaim, IInv, Steps
<1>2. row.status = "queued" /\ ~row.id /\ ~Taken BY DEF AutoClaim, Stuck, Unsent, Taken
<1>3. row.tries + 1 \in 0 .. AutoRetryLimit
  BY Types, MessagesAssumption DEF AutoClaim, IInv, Text
<1>4. [row EXCEPT !.tries = @ + 1] \in Text BY <1>3, Types DEF IInv, Text
<1>5. row' \in Text /\ Taken' BY <1>2, <1>4, Types, TouchedRow DEF AutoClaim, IInv, Taken, Text
<1>6. TypeOK' BY <1>1, <1>5 DEF AutoClaim, IInv, TypeOK, Moves, Invocation, Text
<1>7. RowIsOwned' /\ OneOwner' BY <1>1, <1>2, <1>5, Ownership
<1>8. AutoStops' BY <1>1, AutoStopsKept
<1>9. RowAndCarrierAgree'
  BY <1>1, <1>2, <1>5 DEF AutoClaim, IInv, RowAndCarrierAgree, Moves, At, Taken
<1>10. SentIffFired' BY <1>2, <1>5 DEF AutoClaim, IInv, SentIffFired, Taken
<1> QED BY <1>5, <1>6, <1>7, <1>8, <1>9, <1>10 DEF IInv

LEMMA AutoGatesKeeps ==
  ASSUME IInv, NEW w \in Worker, AutoGates(w)
  PROVE  IInv'
<1>1. Moves(w, Idle) \/ \E step \in {"interrupt", "claim"} : Moves(w, [job |-> "auto", step |-> step])
  BY GoMoves, EndsMoves DEF AutoGates, IInv, Steps
<1>2. Owns(w) /\ Taken BY DEF AutoGates, IInv, RowIsOwned, Owns, At
<1>3. TypeOK' BY <1>1 DEF AutoGates, IInv, TypeOK, Moves, Invocation
<1>4. RowIsOwned' /\ OneOwner' BY <1>1, <1>2, Ownership DEF AutoGates, Taken
<1>5. AutoStops' BY <1>1, AutoStopsKept DEF Idle
<1>6. RowAndCarrierAgree' BY <1>1 DEF AutoGates, IInv, RowAndCarrierAgree, Moves, At, Idle
<1>7. SentIffFired' BY DEF AutoGates, IInv, SentIffFired
<1> QED BY <1>3, <1>4, <1>5, <1>6, <1>7 DEF IInv

LEMMA ScheduleClaimKeeps ==
  ASSUME IInv, NEW w \in Worker, ScheduleClaim(w)
  PROVE  IInv'
<1>1. At(w, "idle") /\ Moves(w, [job |-> "schedule", step |-> "look"])
  BY BeginMoves DEF ScheduleClaim, IInv, Steps
<1>2. sched' \in Schedule /\ sched'.status = sched.status
  BY Types DEF ScheduleClaim, IInv, Schedule
<1>3. TypeOK' BY <1>1, <1>2 DEF ScheduleClaim, IInv, TypeOK, Moves, Invocation, Schedule
<1>4. RowIsOwned' /\ OneOwner' BY <1>1, Ownership DEF ScheduleClaim, Owns, Moves
<1>5. AutoStops' BY <1>1, AutoStopsKept
<1>6. RowAndCarrierAgree' BY <1>1 DEF ScheduleClaim, IInv, RowAndCarrierAgree, Moves, At
<1>7. SentIffFired' BY <1>2 DEF ScheduleClaim, IInv, SentIffFired
<1> QED BY <1>3, <1>4, <1>5, <1>6, <1>7 DEF IInv

LEMMA ScheduleLookKeeps ==
  ASSUME IInv, NEW w \in Worker, ScheduleLook(w)
  PROVE  IInv'
<1>1. Moves(w, Idle) \/ \E step \in {"gates", "hold", "fail"} : Moves(w, [job |-> worker[w].job, step |-> step])
  BY GoMoves, EndsMoves DEF ScheduleLook, IInv, Steps
<1>2. worker[w].job # "auto" BY DEF ScheduleLook, IInv, AutoStops, At
<1>3. ~Owns(w)' BY <1>1, <1>2 DEF Owns, Moves, Idle
<1>4. TypeOK' BY <1>1 DEF ScheduleLook, IInv, TypeOK, Moves, Invocation
<1>5. RowIsOwned' /\ OneOwner' BY <1>1, <1>3, Ownership DEF ScheduleLook
<1>6. AutoStops' BY <1>1, AutoStopsKept DEF Idle
<1>7. RowAndCarrierAgree' BY <1>1 DEF ScheduleLook, IInv, RowAndCarrierAgree, Moves, At, Idle
<1>8. SentIffFired' BY DEF ScheduleLook, IInv, SentIffFired
<1> QED BY <1>3, <1>4, <1>5, <1>6, <1>7, <1>8 DEF IInv

LEMMA ScheduleGatesKeeps ==
  ASSUME IInv, NEW w \in Worker, ScheduleGates(w)
  PROVE  IInv'
<1>1. \E step \in {"fire", "hold", "fail"} : Moves(w, [job |-> "schedule", step |-> step])
  BY GoMoves DEF ScheduleGates, IInv, Steps
<1>2. TypeOK' BY <1>1 DEF ScheduleGates, IInv, TypeOK, Moves, Invocation
<1>3. RowIsOwned' /\ OneOwner' BY <1>1, Ownership DEF ScheduleGates, Owns, Moves
<1>4. AutoStops' BY <1>1, AutoStopsKept
<1>5. RowAndCarrierAgree' BY <1>1 DEF ScheduleGates, IInv, RowAndCarrierAgree, Moves, At
<1>6. SentIffFired' BY DEF ScheduleGates, IInv, SentIffFired
<1> QED BY <1>2, <1>3, <1>4, <1>5, <1>6 DEF IInv

LEMMA ScheduleFireKeeps ==
  ASSUME IInv, NEW w \in Worker, ScheduleFire(w)
  PROVE  IInv'
<1>1. CASE Fires
  <2>1. Moves(w, [job |-> worker[w].job, step |-> "dispatch"])
    BY <1>1, GoMoves DEF ScheduleFire, IInv, Steps
  <2>2. row' \in Text /\ Taken' BY <1>1, QueuedRow DEF ScheduleFire, IInv, Taken
  <2>3. row.status = "none" BY <1>1 DEF IInv, SentIffFired, Fires, Open
  <2>4. sched' \in Schedule /\ sched'.status = "sent"
    BY <1>1, Types DEF ScheduleFire, IInv, Schedule, Closed
  <2>5. TypeOK' BY <2>1, <2>2, <2>4 DEF ScheduleFire, IInv, TypeOK, Moves, Invocation, Text, Schedule
  <2>6. RowIsOwned' /\ OneOwner' BY <2>1, <2>2, <2>3, Ownership DEF Taken
  <2>7. AutoStops' BY <2>1, AutoStopsKept DEF ScheduleFire, IInv, AutoStops, At
  <2>8. RowAndCarrierAgree'
    BY <2>1, <2>2, <2>3 DEF ScheduleFire, IInv, RowAndCarrierAgree, Moves, At, Taken
  <2>9. SentIffFired' BY <2>2, <2>4 DEF SentIffFired, Taken
  <2> QED BY <2>5, <2>6, <2>7, <2>8, <2>9 DEF IInv
<1>2. CASE ~Fires
  <2>1. Moves(w, Idle) /\ UNCHANGED << sched, row >> BY <1>2, EndsMoves DEF ScheduleFire, IInv
  <2>2. TypeOK' BY <2>1 DEF ScheduleFire, IInv, TypeOK, Moves, Invocation
  <2>3. RowIsOwned' /\ OneOwner' BY <2>1, Ownership DEF Owns, Moves, Idle
  <2>4. AutoStops' BY <2>1, AutoStopsKept DEF Idle
  <2>5. RowAndCarrierAgree' BY <2>1 DEF ScheduleFire, IInv, RowAndCarrierAgree, Moves, At, Idle
  <2>6. SentIffFired' BY <2>1 DEF IInv, SentIffFired
  <2> QED BY <2>2, <2>3, <2>4, <2>5, <2>6 DEF IInv
<1> QED BY <1>1, <1>2

LEMMA ScheduleFireRefusesKeeps ==
  ASSUME IInv, NEW w \in Worker, ScheduleFireRefuses(w)
  PROVE  IInv'
<1>1. Moves(w, Idle) BY EndsMoves DEF ScheduleFireRefuses, IInv
<1>2. sched' \in Schedule /\ sched.status \in Open /\ sched'.status \in {"held", "failed"}
  BY Types DEF ScheduleFireRefuses, IInv, Fires, Schedule, Open, Closed
<1>3. TypeOK' BY <1>1, <1>2 DEF ScheduleFireRefuses, IInv, TypeOK, Moves, Invocation, Schedule
<1>4. RowIsOwned' /\ OneOwner' BY <1>1, Ownership DEF ScheduleFireRefuses, Owns, Moves, Idle
<1>5. AutoStops' BY <1>1, AutoStopsKept DEF Idle
<1>6. RowAndCarrierAgree'
  BY <1>1 DEF ScheduleFireRefuses, IInv, RowAndCarrierAgree, Moves, At, Idle
<1>7. SentIffFired' BY <1>2 DEF ScheduleFireRefuses, IInv, SentIffFired, Open
<1> QED BY <1>3, <1>4, <1>5, <1>6, <1>7 DEF IInv

LEMMA ScheduleStopsKeeps ==
  ASSUME IInv, NEW w \in Worker, NEW step, NEW status \in {"held", "failed"},
         ScheduleStops(w, step, status)
  PROVE  IInv'
<1>1. Moves(w, Idle) BY EndsMoves DEF ScheduleStops, IInv
<1>2. /\ sched' \in Schedule
      /\ sched' = sched \/ (sched.status \in Open /\ sched'.status = status)
  <2>1. [sched EXCEPT !.status = status, !.leased = FALSE] \in Schedule
    BY Types DEF IInv, Schedule, Open, Closed
  <2> QED BY <2>1, Types DEF ScheduleStops, IInv, Schedule
<1>3. TypeOK' BY <1>1, <1>2 DEF ScheduleStops, IInv, TypeOK, Moves, Invocation, Schedule
<1>4. RowIsOwned' /\ OneOwner' BY <1>1, Ownership DEF ScheduleStops, Owns, Moves, Idle
<1>5. AutoStops' BY <1>1, AutoStopsKept DEF Idle
<1>6. RowAndCarrierAgree' BY <1>1 DEF ScheduleStops, IInv, RowAndCarrierAgree, Moves, At, Idle
<1>7. SentIffFired' BY <1>2 DEF ScheduleStops, IInv, SentIffFired, Open
<1> QED BY <1>3, <1>4, <1>5, <1>6, <1>7 DEF IInv

LEMMA FailStuckKeeps ==
  ASSUME IInv, FailStuck
  PROVE  IInv'
<1>1. row.status = "queued" /\ ~Taken BY DEF FailStuck, Stuck, Unsent, Taken
<1>2. row' \in Text /\ row'.status = "failed" /\ row'.id = row.id
  BY FailedRow DEF FailStuck, IInv
<1>3. TypeOK' BY <1>2 DEF FailStuck, IInv, TypeOK, Text
<1>4. RowIsOwned' /\ OneOwner' /\ AutoStops' BY <1>1, Bystander DEF FailStuck
<1>5. RowAndCarrierAgree' BY <1>1, <1>2 DEF FailStuck, IInv, RowAndCarrierAgree, At
<1>6. SentIffFired' BY <1>1, <1>2 DEF FailStuck, IInv, SentIffFired
<1> QED BY <1>3, <1>4, <1>5, <1>6 DEF IInv

LEMMA ScheduleCancelKeeps ==
  ASSUME IInv, ScheduleCancel
  PROVE  IInv'
<1>1. sched' \in Schedule /\ sched.status \in Open /\ sched'.status = "canceled"
  BY Types DEF ScheduleCancel, IInv, Schedule, Open, Closed
<1>2. TypeOK' BY <1>1 DEF ScheduleCancel, IInv, TypeOK, Schedule
<1>3. RowIsOwned' /\ OneOwner' /\ AutoStops' BY Bystander DEF ScheduleCancel
<1>4. RowAndCarrierAgree' BY DEF ScheduleCancel, IInv, RowAndCarrierAgree, At
<1>5. SentIffFired' BY <1>1 DEF ScheduleCancel, IInv, SentIffFired, Open
<1> QED BY <1>2, <1>3, <1>4, <1>5 DEF IInv

LEMMA ScheduleExpireKeeps ==
  ASSUME IInv, ScheduleExpire
  PROVE  IInv'
<1>1. sched' \in Schedule /\ sched.status \in Open /\ sched'.status = "expired"
  BY Types DEF ScheduleExpire, IInv, Expirable, Schedule, Open, Closed
<1>2. TypeOK' BY <1>1 DEF ScheduleExpire, IInv, TypeOK, Schedule
<1>3. RowIsOwned' /\ OneOwner' /\ AutoStops' BY Bystander DEF ScheduleExpire
<1>4. RowAndCarrierAgree' BY DEF ScheduleExpire, IInv, RowAndCarrierAgree, At
<1>5. SentIffFired' BY <1>1 DEF ScheduleExpire, IInv, SentIffFired, Open
<1> QED BY <1>2, <1>3, <1>4, <1>5 DEF IInv

LEMMA markSentKeeps ==
  ASSUME IInv, markSent
  PROVE  IInv'
<1>1. row' = row \/ (SentApplies /\ row' = Touched([row EXCEPT !.status = "sent"]))
  BY DEF markSent
<1>2. row' = row \/ (row.id /\ row.status = "queued" /\ row'.status = "sent" /\ row'.id)
  BY <1>1, RowWithStatus DEF IInv, SentApplies
<1>3. row' \in Text BY <1>1, Types, RowWithStatus DEF IInv
<1>4. /\ carrier' \in Carrier
     /\ carrier'.fate = carrier.fate /\ carrier'.keys = carrier.keys
     /\ budget' \in [retry : Nat, replay : Nat, fault : Nat]
  BY DEF markSent, Consumed, Spend, IInv, TypeOK, Carrier
<1>5. TypeOK' BY <1>3, <1>4 DEF markSent, IInv, TypeOK, Text, Carrier
<1>6. RowIsOwned' /\ OneOwner' /\ AutoStops' BY <1>2, Bystander DEF markSent, Taken
<1>7. RowAndCarrierAgree' BY <1>2, <1>4 DEF markSent, IInv, RowAndCarrierAgree, At
<1>8. SentIffFired' BY <1>2 DEF markSent, IInv, SentIffFired
<1> QED BY <1>5, <1>6, <1>7, <1>8 DEF IInv

LEMMA FinalizeLookupKeeps ==
  ASSUME IInv, NEW w \in Worker, FinalizeLookup(w)
  PROVE  IInv'
<1>1. CASE row.id
  <2>1. At(w, "idle") /\ Moves(w, [job |-> "final", step |-> "update"])
    BY <1>1, BeginMoves DEF FinalizeLookup, IInv, Steps
  <2>2. TypeOK' BY <1>1, <2>1 DEF FinalizeLookup, IInv, TypeOK, Moves, Invocation
  <2>3. RowIsOwned' /\ OneOwner' BY <2>1, Ownership DEF FinalizeLookup, Owns, Moves
  <2>4. AutoStops' BY <2>1, AutoStopsKept
  <2>5. RowAndCarrierAgree' BY <1>1, <2>1 DEF FinalizeLookup, IInv, RowAndCarrierAgree, Moves, At
  <2>6. SentIffFired' BY DEF FinalizeLookup, IInv, SentIffFired
  <2> QED BY <2>2, <2>3, <2>4, <2>5, <2>6 DEF IInv
<1>2. CASE ~row.id
  <2>1. /\ carrier' \in Carrier
        /\ carrier'.fate = carrier.fate /\ carrier'.keys = carrier.keys
        /\ budget' \in [retry : Nat, replay : Nat, fault : Nat]
    BY <1>2 DEF FinalizeLookup, Consumed, Spend, IInv, TypeOK, Carrier
  <2>2. worker' = worker BY <1>2 DEF FinalizeLookup
  <2>3. TypeOK' BY <2>1, <2>2 DEF FinalizeLookup, IInv, TypeOK, Carrier
  <2>4. RowIsOwned' /\ OneOwner' /\ AutoStops' BY <2>2, Bystander DEF FinalizeLookup
  <2>5. RowAndCarrierAgree' BY <2>1, <2>2 DEF FinalizeLookup, IInv, RowAndCarrierAgree, At
  <2>6. SentIffFired' BY DEF FinalizeLookup, IInv, SentIffFired
  <2> QED BY <2>3, <2>4, <2>5, <2>6 DEF IInv
<1> QED BY <1>1, <1>2

LEMMA FinalizeUpdateKeeps ==
  ASSUME IInv, NEW w \in Worker, FinalizeUpdate(w)
  PROVE  IInv'
<1>1. Moves(w, [job |-> worker[w].job, step |-> "meter"])
  BY GoMoves DEF FinalizeUpdate, IInv, Steps
<1>2. row.id /\ row.status # "none" /\ carrier.fate \in {"sent", "delivered", "failed"}
  BY DEF FinalizeUpdate, IInv, TypeOK, RowAndCarrierAgree
<1>3. row' \in Text /\ row'.status = carrier.fate /\ row'.id
  BY <1>2, RowWithStatus DEF FinalizeUpdate, IInv
<1>4. TypeOK' BY <1>1, <1>3 DEF FinalizeUpdate, IInv, TypeOK, Moves, Invocation, Text
<1>5. RowIsOwned' /\ OneOwner' BY <1>1, <1>2, Ownership DEF FinalizeUpdate, Owns, Moves, Taken
<1>6. AutoStops' BY <1>1, AutoStopsKept
<1>7. RowAndCarrierAgree'
  BY <1>1, <1>2, <1>3 DEF FinalizeUpdate, IInv, RowAndCarrierAgree, Moves, At
<1>8. SentIffFired' BY <1>2, <1>3 DEF FinalizeUpdate, IInv, SentIffFired
<1> QED BY <1>4, <1>5, <1>6, <1>7, <1>8 DEF IInv

LEMMA FinalizeMeterKeeps ==
  ASSUME IInv, NEW w \in Worker, FinalizeMeter(w)
  PROVE  IInv'
<1>1. Moves(w, Idle) BY EndsMoves DEF FinalizeMeter, IInv
<1>2. /\ carrier' \in Carrier
     /\ carrier'.fate = carrier.fate /\ carrier'.keys = carrier.keys
     /\ budget' \in [retry : Nat, replay : Nat, fault : Nat]
  BY DEF FinalizeMeter, Consumed, Spend, IInv, TypeOK, Carrier
<1>3. usage' \in {0, 1} BY DEF FinalizeMeter, Metered, IInv, TypeOK
<1>4. TypeOK' BY <1>1, <1>2, <1>3 DEF FinalizeMeter, IInv, TypeOK, Moves, Invocation, Carrier
<1>5. RowIsOwned' /\ OneOwner' BY <1>1, Ownership DEF FinalizeMeter, Owns, Moves, Idle
<1>6. AutoStops' BY <1>1, AutoStopsKept DEF Idle
<1>7. RowAndCarrierAgree'
  BY <1>1, <1>2 DEF FinalizeMeter, IInv, RowAndCarrierAgree, Moves, At, Idle
<1>8. SentIffFired' BY DEF FinalizeMeter, IInv, SentIffFired
<1> QED BY <1>4, <1>5, <1>6, <1>7, <1>8 DEF IInv

LEMMA RecipientStopsKeeps ==
  ASSUME IInv, RecipientStops
  PROVE  IInv'
<1>1. TypeOK' BY DEF RecipientStops, IInv, TypeOK
<1>2. RowIsOwned' /\ OneOwner' /\ AutoStops' BY Bystander DEF RecipientStops
<1>3. RowAndCarrierAgree' BY DEF RecipientStops, IInv, RowAndCarrierAgree, At
<1>4. SentIffFired' BY DEF RecipientStops, IInv, SentIffFired
<1> QED BY <1>1, <1>2, <1>3, <1>4 DEF IInv

LEMMA RecipientRepliesKeeps ==
  ASSUME IInv, RecipientReplies
  PROVE  IInv'
<1>1. sched' \in Schedule /\ sched'.status = sched.status
  BY Types DEF RecipientReplies, IInv, Schedule
<1>2. TypeOK' BY <1>1 DEF RecipientReplies, IInv, TypeOK, Schedule
<1>3. RowIsOwned' /\ OneOwner' /\ AutoStops' BY Bystander DEF RecipientReplies
<1>4. RowAndCarrierAgree' BY DEF RecipientReplies, IInv, RowAndCarrierAgree, At
<1>5. SentIffFired' BY <1>1 DEF RecipientReplies, IInv, SentIffFired
<1> QED BY <1>2, <1>3, <1>4, <1>5 DEF IInv

LEMMA DiesKeeps ==
  ASSUME IInv, NEW w \in Worker, Dies(w)
  PROVE  IInv'
<1>1. Moves(w, Idle) BY EndsMoves DEF Dies, IInv
<1>2. budget' \in [retry : Nat, replay : Nat, fault : Nat] BY DEF Dies, IInv, TypeOK, Spend
<1>3. TypeOK' BY <1>1, <1>2 DEF Dies, IInv, TypeOK, Moves, Invocation
<1>4. RowIsOwned' /\ OneOwner' BY <1>1, Ownership DEF Dies, Owns, Moves, Idle
<1>5. AutoStops' BY <1>1, AutoStopsKept DEF Idle
<1>6. RowAndCarrierAgree' BY <1>1 DEF Dies, IInv, RowAndCarrierAgree, Moves, At, Idle
<1>7. SentIffFired' BY DEF Dies, IInv, SentIffFired
<1> QED BY <1>3, <1>4, <1>5, <1>6, <1>7 DEF IInv

LEMMA MinuteKeeps ==
  ASSUME IInv, Minute
  PROVE  IInv'
<1>1. sched' \in Schedule /\ sched'.status = sched.status BY Types DEF Minute, IInv, Schedule
<1>2. clock.minutes + 1 \in 0 .. MaxMinutes BY ClockTypes DEF Minute, IInv
<1>3. clock' \in [due : BOOLEAN, past : BOOLEAN, ran : BOOLEAN, minutes : 0 .. MaxMinutes]
  BY <1>2, ClockTypes DEF Minute, IInv
<1>4. TypeOK' BY <1>1, <1>3 DEF Minute, IInv, TypeOK, Schedule
<1>5. RowIsOwned' /\ OneOwner' /\ AutoStops' BY Bystander DEF Minute
<1>6. RowAndCarrierAgree' BY DEF Minute, IInv, RowAndCarrierAgree, At
<1>7. SentIffFired' BY <1>1 DEF Minute, IInv, SentIffFired
<1> QED BY <1>4, <1>5, <1>6, <1>7 DEF IInv

LEMMA TickKeeps ==
  ASSUME IInv, Tick
  PROVE  IInv'
<1>1. row' \in Text /\ row'.status = row.status /\ row'.id = row.id BY Types DEF Tick, IInv, Text
<1>2. clock' \in [due : BOOLEAN, past : BOOLEAN, ran : BOOLEAN, minutes : 0 .. MaxMinutes]
  <2>1. 0 \in 0 .. MaxMinutes /\ clock.due \in BOOLEAN BY ClockTypes DEF IInv
  <2> QED BY <2>1, ClockTypes DEF Tick, IInv
<1>3. TypeOK' BY <1>1, <1>2 DEF Tick, IInv, TypeOK, Text
<1>4. \A w \in Worker : ~Owns(w)' BY DEF Tick, Owns, At
<1>5. RowIsOwned' /\ OneOwner' BY <1>4 DEF RowIsOwned, OneOwner
<1>6. AutoStops' BY DEF Tick, IInv, AutoStops
<1>7. RowAndCarrierAgree' BY <1>1 DEF Tick, IInv, RowAndCarrierAgree, At
<1>8. SentIffFired' BY <1>1 DEF Tick, IInv, SentIffFired
<1> QED BY <1>3, <1>5, <1>6, <1>7, <1>8 DEF IInv

--------------------------------------------------------------------------------
(***************************************************************************)
(* The theorems.                                                           *)
(***************************************************************************)

LEMMA Start == Init => IInv
<1> SUFFICES ASSUME Init PROVE IInv OBVIOUS
<1>1. \A w \in Worker : worker[w] = Idle BY DEF Init
<1>2. sched \in Schedule /\ sched.status # "sent" BY DEF Init, Schedule, Open
<1>3. TypeOK
  <2>1. worker \in [Worker -> Invocation] BY DEF Init, Idle, Invocation, Steps
  <2>2. row \in Text
    <3>1. 0 \in 0 .. AutoRetryLimit BY MessagesAssumption
    <3> QED BY <3>1 DEF Init, NoText, Text
  <2>3. carrier \in Carrier BY DEF Init, Carrier
  <2>4. clock \in [due : BOOLEAN, past : BOOLEAN, ran : BOOLEAN, minutes : 0 .. MaxMinutes]
    <3>1. 0 \in 0 .. MaxMinutes BY MessagesAssumption
    <3> QED BY <3>1 DEF Init
  <2>5. budget \in [retry : Nat, replay : Nat, fault : Nat] BY MessagesAssumption DEF Init
  <2> QED BY <1>2, <2>1, <2>2, <2>3, <2>4, <2>5
          DEF Init, TypeOK, Schedule, Invocation, Text, Carrier
<1>4. RowIsOwned /\ OneOwner /\ AutoStops
  BY <1>1 DEF RowIsOwned, OneOwner, AutoStops, Owns, Idle
<1>5. RowAndCarrierAgree BY <1>1 DEF Init, RowAndCarrierAgree, NoText, Idle, At
<1>6. SentIffFired BY <1>2 DEF Init, SentIffFired, NoText
<1> QED BY <1>3, <1>4, <1>5, <1>6 DEF IInv

LEMMA WorkerStepKeeps ==
  ASSUME IInv, NEW w \in Worker, WorkerStep(w)
  PROVE  IInv'
  BY MediaStoredKeeps, MediaFailsKeeps, InterruptKeeps, DispatchDeniedKeeps, PostKeeps,
     PersistIdKeeps, PersistFailureKeeps, ClaimTakesKeeps, ClaimRefusesKeeps, AutoGatesKeeps,
     ScheduleLookKeeps, ScheduleGatesKeeps, ScheduleFireKeeps, ScheduleFireRefusesKeeps,
     ScheduleStopsKeeps, FinalizeUpdateKeeps, FinalizeMeterKeeps
  DEF WorkerStep

LEMMA Preserved == IInv /\ [Next]_vars => IInv'
<1> SUFFICES ASSUME IInv, [Next]_vars PROVE IInv' OBVIOUS
<1>1. CASE \E w \in Worker : \/ WorkerStep(w) \/ PersistFails(w) \/ Dies(w) \/ SendGate(w)
                             \/ RetryStarts(w) \/ AutoClaim(w) \/ ScheduleClaim(w)
  BY <1>1, WorkerStepKeeps, PersistFailsKeeps, DiesKeeps, SendGateKeeps, RetryStartsKeeps,
     AutoClaimKeeps, ScheduleClaimKeeps
<1>2. CASE Webhooks BY <1>2, markSentKeeps, FinalizeLookupKeeps DEF Webhooks
<1>3. CASE FailStuck \/ ScheduleCancel \/ ScheduleExpire
  BY <1>3, FailStuckKeeps, ScheduleCancelKeeps, ScheduleExpireKeeps
<1>4. CASE RecipientStops \/ RecipientReplies BY <1>4, RecipientStopsKeeps, RecipientRepliesKeeps
<1>5. CASE Minute \/ Tick BY <1>5, MinuteKeeps, TickKeeps
<1>6. CASE UNCHANGED vars
  BY <1>6 DEF vars, IInv, TypeOK, RowIsOwned, OneOwner, AutoStops, RowAndCarrierAgree, SentIffFired,
              Owns, Taken, At
<1> QED BY <1>1, <1>2, <1>3, <1>4, <1>5, <1>6 DEF Next

\* The invariant that carries the others: a row under dispatch has one owner.
THEOREM Invariance == Spec => []IInv
  BY Start, Preserved, PTL DEF Spec

\* The row, its schedule, the carrier and the invocations keep their types; the text
\* is metered once.
THEOREM TypeCorrect == Spec => []TypeOK
<1>1. IInv => TypeOK BY DEF IInv
<1> QED BY <1>1, Invariance, PTL

\* Of the send, the retries and the schedule, one at a time is on its way to the
\* carrier.
THEOREM DispatchersExclude == Spec => []OneDispatcher
<1>1. IInv => OneDispatcher BY DEF IInv, OneOwner, OneDispatcher, Dispatching, Owns
<1> QED BY <1>1, Invariance, PTL

\* A scheduled text becomes a message exactly when its row closes as sent.
THEOREM FiredExactlyOnce == Spec => []SentIffFired
<1>1. IInv => SentIffFired BY DEF IInv
<1> QED BY <1>1, Invariance, PTL

--------------------------------------------------------------------------------
(***************************************************************************)
(* The action properties.                                                  *)
(***************************************************************************)

\* Whoever could overwrite a delivered row is not there: it has no owner, is open to
\* no claim, and the carrier's report says the same again.
LEMMA DeliveredKept ==
  ASSUME IInv, Next, row.status = "delivered"
  PROVE  row'.status = "delivered"
<1>1. \A w \in Worker : ~Owns(w) BY DEF IInv, RowIsOwned, Taken
<1>2. ~Stuck /\ ~Retryable BY DEF Retryable, Stuck, Unsent
<1>3. ASSUME NEW w \in Worker, WorkerStep(w) PROVE row'.status = "delivered"
  <2>1. CASE \/ MediaStored(w) \/ MediaFails(w) \/ Interrupt(w) \/ DispatchDenied(w) \/ Post(w)
             \/ PersistId(w) \/ PersistFailure(w)
    BY <1>1, <2>1 DEF MediaStored, MediaFails, Interrupt, DispatchDenied, Post, PersistId,
                      PersistFailure, Owns, At
  <2>2. CASE ClaimTakes(w) \/ ClaimRefuses(w) BY <1>2, <2>2 DEF ClaimTakes, ClaimRefuses
  <2>3. CASE \/ AutoGates(w) \/ ScheduleLook(w) \/ ScheduleGates(w) \/ ScheduleFireRefuses(w)
             \/ ScheduleStops(w, "hold", "held") \/ ScheduleStops(w, "fail", "failed")
             \/ FinalizeMeter(w)
    BY <2>3 DEF AutoGates, ScheduleLook, ScheduleGates, ScheduleFireRefuses, ScheduleStops,
                FinalizeMeter
  <2>4. CASE ScheduleFire(w) BY <2>4 DEF ScheduleFire, Fires, Open, IInv, SentIffFired
  <2>5. CASE FinalizeUpdate(w)
    BY <2>5, RowWithStatus DEF FinalizeUpdate, IInv, RowAndCarrierAgree
  <2> QED BY <1>3, <2>1, <2>2, <2>3, <2>4, <2>5 DEF WorkerStep
<1>4. ASSUME NEW w \in Worker, PersistFails(w) \/ Dies(w) \/ SendGate(w) \/ RetryStarts(w)
                               \/ AutoClaim(w) \/ ScheduleClaim(w)
      PROVE  row'.status = "delivered"
  BY <1>2, <1>4 DEF PersistFails, Dies, SendGate, RetryStarts, AutoClaim, ScheduleClaim
<1>5. CASE Webhooks BY <1>5 DEF Webhooks, markSent, SentApplies, FinalizeLookup
<1>6. CASE \/ FailStuck \/ ScheduleCancel \/ ScheduleExpire \/ RecipientStops \/ RecipientReplies
           \/ Minute
  BY <1>2, <1>6 DEF FailStuck, ScheduleCancel, ScheduleExpire, RecipientStops, RecipientReplies,
                    Minute
<1>7. CASE Tick BY <1>7, Types DEF Tick, IInv, Text
<1> QED BY <1>3, <1>4, <1>5, <1>6, <1>7 DEF Next

\* A row that says delivered keeps saying so.
THEOREM DeliveredForGood == Spec => DeliveredStays
<1>1. IInv /\ [Next]_vars => [row.status = "delivered" => row'.status = "delivered"]_vars
  BY DeliveredKept
<1> QED BY <1>1, Invariance, PTL DEF Spec, DeliveredStays

\* Every write of the schedule looks whether it is open first.
LEMMA ClosedKept ==
  ASSUME IInv, Next, sched.status \in Closed
  PROVE  sched'.status = sched.status
<1>1. sched.status \notin Open BY DEF Open, Closed
<1>2. ASSUME NEW w \in Worker, WorkerStep(w) PROVE sched' = sched
  <2>1. CASE \/ MediaStored(w) \/ MediaFails(w) \/ Interrupt(w) \/ DispatchDenied(w) \/ Post(w)
             \/ PersistId(w) \/ PersistFailure(w) \/ ClaimTakes(w) \/ ClaimRefuses(w)
    BY <2>1 DEF MediaStored, MediaFails, Interrupt, DispatchDenied, Post, PersistId,
                PersistFailure, ClaimTakes, ClaimRefuses
  <2>2. CASE \/ AutoGates(w) \/ ScheduleLook(w) \/ ScheduleGates(w) \/ FinalizeUpdate(w)
             \/ FinalizeMeter(w)
    BY <2>2 DEF AutoGates, ScheduleLook, ScheduleGates, FinalizeUpdate, FinalizeMeter
  <2>3. CASE ScheduleFire(w) \/ ScheduleFireRefuses(w)
    BY <1>1, <2>3 DEF ScheduleFire, ScheduleFireRefuses, Fires
  <2>4. CASE ScheduleStops(w, "hold", "held") \/ ScheduleStops(w, "fail", "failed")
    BY <1>1, <2>4 DEF ScheduleStops
  <2> QED BY <1>2, <2>1, <2>2, <2>3, <2>4 DEF WorkerStep
<1>3. ASSUME NEW w \in Worker, PersistFails(w) \/ Dies(w) \/ SendGate(w) \/ RetryStarts(w)
                               \/ AutoClaim(w) \/ ScheduleClaim(w)
      PROVE  sched' = sched
  BY <1>1, <1>3 DEF PersistFails, Dies, SendGate, RetryStarts, AutoClaim, ScheduleClaim
<1>4. CASE Webhooks BY <1>4 DEF Webhooks, markSent, FinalizeLookup
<1>5. CASE \/ FailStuck \/ ScheduleCancel \/ ScheduleExpire \/ RecipientStops \/ RecipientReplies
           \/ Minute \/ Tick
  BY <1>1, <1>5 DEF FailStuck, ScheduleCancel, ScheduleExpire, Expirable, RecipientStops,
                    RecipientReplies, Minute, Tick
<1> QED BY <1>2, <1>3, <1>4, <1>5 DEF Next

\* A scheduled text that was sent, canceled, expired or failed stays that.
THEOREM ClosedForGood == Spec => ClosedStaysClosed
<1>1. IInv /\ [Next]_vars => [sched.status \in Closed => sched'.status = sched.status]_vars
  BY ClosedKept
<1> QED BY <1>1, Invariance, PTL DEF Spec, ClosedStaysClosed
================================================================================
