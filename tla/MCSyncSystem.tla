---------------------------- MODULE MCSyncSystem ----------------------------
(***************************************************************************)
(* Two devices, p and q; the bounds of an instance are given per device.   *)
(***************************************************************************)
EXTENDS SyncSystem, TLC

CONSTANTS p, q, pConn, qConn, pOps, qOps

MCMaxConn == (p :> pConn) @@ (q :> qConn)
MCMaxOps == (p :> pOps) @@ (q :> qOps)

\* Sound where both devices have the same bounds, for safety.
EqualDevices == Permutations(Device)
=============================================================================
