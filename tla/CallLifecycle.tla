----------------------------- MODULE CallLifecycle -----------------------------
(***************************************************************************)
(* What a call looks like from outside: the life the session promises,     *)
(* with no legs, journal, alarms or provider.  CallSession implements it   *)
(* (CallProperties!ImplementsLifecycle).                                   *)
(*                                                                         *)
(* A call begins once, moves forward through its phases, ends once, and    *)
(* what the row says of how it ended can only be filled in or turned into  *)
(* a voicemail.  The object that holds the phase may forget it (the purge) *)
(* and be asked again: it then recalls an ended call, never a live one,    *)
(* unless it forgot the call before the row said how it had ended.         *)
(***************************************************************************)
EXTENDS Naturals

VARIABLES
  phase,     \* the session's state, "none" while no object holds one
  ended,     \* the call has been over at some time
  outcome,   \* calls.outcome
  forgot     \* the purge came before the outcome

lifecycle == << phase, ended, outcome, forgot >>

Live  == {"dialing", "ringing", "answered", "voicemail_greeting", "voicemail_recording"}
Final == {"ended_answered", "ended_voicemail", "ended_missed", "ended_rejected"}

\* The order of the phases: a live call only moves to a higher rank.
Rank(p) == CASE p \in {"dialing", "ringing"}   -> 1
             [] p = "voicemail_greeting"       -> 2
             [] p = "voicemail_recording"      -> 3
             [] p = "answered"                 -> 4
             [] p \in Final                    -> 5
             [] OTHER                          -> 0

\* A recording ends only a call that went to voicemail, a rejection only one
\* that rang, or that a member declined before the provider had rejected it.
Allowed(p, q) == /\ q = "ended_voicemail" => p = "voicemail_recording"
                 /\ q = "ended_rejected"  => p \in {"ringing", "voicemail_greeting"}
                 /\ q = "answered"        => p \in {"dialing", "ringing"}

\* How a call that is recalled from its row ended.
EndedAs(o) == CASE o = "answered"  -> "ended_answered"
                [] o = "voicemail" -> "ended_voicemail"
                [] OTHER           -> "ended_missed"

Init == phase = "none" /\ ended = FALSE /\ outcome = "null" /\ forgot = FALSE

\* The call begins, or an object without one takes up a live call from the row.
Begin ==
  /\ phase = "none" /\ outcome = "null" /\ (ended => forgot)
  /\ phase' \in Live
  /\ UNCHANGED << ended, outcome, forgot >>

Move ==
  /\ phase \in Live
  /\ phase' \in Live /\ Rank(phase') > Rank(phase) /\ Allowed(phase, phase')
  /\ UNCHANGED << ended, outcome, forgot >>

End ==
  /\ phase \in Live
  /\ phase' \in Final /\ Allowed(phase, phase')
  /\ ended' = TRUE
  /\ UNCHANGED << outcome, forgot >>

\* The late webhooks of a call first believed missed.
Upgrade ==
  /\ phase = "ended_missed" /\ phase' \in {"ended_answered", "ended_voicemail"}
  /\ UNCHANGED << ended, outcome, forgot >>

\* The row learns how the call ended, while it ends or afterwards.
Settle ==
  /\ ended
  /\ \/ outcome = "null" /\ outcome' \in {"answered", "voicemail", "missed"}
     \/ outcome' = "voicemail"
  /\ UNCHANGED << phase, ended, forgot >>

\* The purge, which a copy of the session in memory may survive.
Forget ==
  /\ phase \in Final
  /\ phase' \in {phase, "none"}
  /\ forgot' = (forgot \/ outcome = "null")
  /\ UNCHANGED << ended, outcome >>

Recall ==
  /\ phase = "none" /\ outcome # "null"
  /\ phase' = EndedAs(outcome)
  /\ ended' = TRUE
  /\ UNCHANGED << outcome, forgot >>

Next == Begin \/ Move \/ End \/ Upgrade \/ Settle \/ Forget \/ Recall

Spec == Init /\ [][Next]_lifecycle
================================================================================
