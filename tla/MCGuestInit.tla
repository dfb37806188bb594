----------------------------- MODULE MCGuestInit -----------------------------
(***************************************************************************)
(* Constants of the guest init's model for TLC.                            *)
(***************************************************************************)
EXTENDS GuestInit

\* The service ends well, fails, or is killed by SIGTERM.
MCStatus == [how : {"exited"}, n : {0, 3}] \cup [how : {"signaled"}, n : {15}]

=============================================================================
