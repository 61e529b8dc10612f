------------------------------ MODULE MCPolling ------------------------------
(* Values of the constants of Polling for TLC; -1 stands for "not given". *)
EXTENDS Polling

SomeLives == {-1, 0, 3}
SomePolls == {-1, 2}
SomeTimeouts == {-1, 2}
=============================================================================
