-------------------------- MODULE MC_LeaseRenewal --------------------------
(***************************************************************************)
(* A client that pings at the latest after half the ping interval, and a   *)
(* TTL that is odd.                                                        *)
(***************************************************************************)
EXTENDS LeaseRenewal
=============================================================================
