-------------------------- MODULE MCProbeExchange --------------------------
(***************************************************************************)
(* ProbeExchange for TLC: packets of two probes may be on the way at once  *)
(* on the port both use.                                                   *)
(***************************************************************************)
EXTENDS ProbeExchange

Ahead == 1
=============================================================================
