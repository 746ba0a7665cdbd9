-------------------------- MODULE MCEndpointDelivery ---------------------------
(***************************************************************************)
(* The instances of EndpointDelivery that TLC checks.                      *)
(***************************************************************************)
EXTENDS EndpointDelivery
================================================================================
