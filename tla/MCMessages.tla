------------------------------- MODULE MCMessages -------------------------------
(***************************************************************************)
(* The instances of Messages that TLC checks.                              *)
(***************************************************************************)
EXTENDS Messages
================================================================================
