-------------------------- MODULE MCNativeApproval --------------------------
(* Small instances of NativeApproval for TLC.                               *)
EXTENDS NativeApproval

CONSTANTS u1, u2, u3, h1, h2

=============================================================================
