---------------------------- MODULE MCWebhookLedger ----------------------------
(***************************************************************************)
(* The instances of WebhookLedger that TLC checks.                         *)
(***************************************************************************)
EXTENDS WebhookLedger, TLC

CONSTANTS call, plain

TwoKinds == (call :> "call") @@ (plain :> "plain")
================================================================================
