---------------------------- MODULE MCDeviceLock ----------------------------
(* A small instance of DeviceLock for TLC.                                 *)
EXTENDS DeviceLock

CONSTANTS c1, c2, i1, i2, i3

Ctx2 == {c1, c2}
Inode3 == {i1, i2, i3}
AnyBlocking == BOOLEAN
=============================================================================
