---------------------------- MODULE MCDeviceShell ----------------------------
(* Small instances of DeviceShell for TLC: one task in each process. *)
EXTENDS DeviceShell, TLC

CONSTANTS p1, p2, t1, t2

OneEach == (t1 :> p1) @@ (t2 :> p2)
OneTask == t1 :> p1
=============================================================================
