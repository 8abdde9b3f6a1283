------------------------- MODULE MCLockFileManager -------------------------
EXTENDS LockFileManager, TLC

CONSTANTS i1, i2, i3, p1, p2, p3, h1, h2

(* Two processes share a host, the third runs on another one. *)
MCProcessOf == i1 :> p1 @@ i2 :> p2 @@ i3 :> p3
MCHostOf == p1 :> h1 @@ p2 :> h1 @@ p3 :> h2
=============================================================================
