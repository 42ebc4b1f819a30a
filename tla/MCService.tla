------------------------------ MODULE MCService ------------------------------
(***************************************************************************)
(* A small instance of Launch, with Service in it, for TLC: an int that    *)
(* ends at 9999, and values of WATCHDOG_USEC on either side of each limit. *)
(***************************************************************************)
EXTENDS Launch

MCUsecs == {-4000, 0, 1999, 2000, 3999, 7500, 9999, 10000, 30000000}

=============================================================================
