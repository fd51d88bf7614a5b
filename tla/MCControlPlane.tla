--------------------------- MODULE MCControlPlane ---------------------------
(***************************************************************************)
(* The settings in which ControlPlane is looked at.                        *)
(***************************************************************************)
EXTENDS ControlPlane

Setting(keep, maxOps, maxFaults, outages, bounce) ==
  [keep |-> keep, maxOps |-> maxOps, maxFaults |-> maxFaults,
   outages |-> outages, bounce |-> bounce]

(* Two writes and two faults: a crash can hit a restore, and another the     *)
(* snapshot that follows it.                                                 *)
Failover == Setting(2, 2, 2, FALSE, FALSE)

(* Leadership leaves a daemon that lives on and keeps publishing. *)
Handover == Setting(1, 1, 1, FALSE, TRUE)

(* Nobody leads for a while; one kit is kept, so every snapshot prunes. *)
QuorumLoss == Setting(1, 0, 1, TRUE, TRUE)

MCSettings  == {Failover, Handover, QuorumLoss}
MCHalfKit   == {Setting(2, 1, 1, FALSE, FALSE)}
MCCapture   == {Setting(2, 2, 0, FALSE, FALSE)}
MCMarker    == {Setting(2, 2, 1, FALSE, FALSE)}
MCHandover  == {Setting(2, 2, 0, FALSE, TRUE)}
=============================================================================
