----------------------------- MODULE MCRetryLoop -----------------------------
(***************************************************************************)
(* RetryLoop with the values of --retry-timeout that matter: a negative    *)
(* one, none, one with no room for a retry, and two with room for several; *)
(* and with sleeps of every sign.                                          *)
(***************************************************************************)
EXTENDS RetryLoop

MCRetryTimeouts == {-1, 0, 1, 4, 6}
MCSleeps == {-3, 0, 1, 2}

==============================================================================
