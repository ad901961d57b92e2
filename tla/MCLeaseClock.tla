---------------------------- MODULE MCLeaseClock ----------------------------
(***************************************************************************)
(* Three instants per second, of which one has no printed fraction, and    *)
(* leases of one and two seconds, are enough for every case of the order.  *)
(***************************************************************************)
EXTENDS LeaseClock

MCTTLs == {1, 2}
=============================================================================
