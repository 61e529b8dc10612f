---------------------------- MODULE MCRateLimiter ----------------------------
(* RateLimiter for TLC: windows of 3 ticks, so that a window is no whole   *)
(* number of seconds of 2 ticks and the header has something to round.     *)
EXTENDS RateLimiter

ThreeTicks == 3
TwoTicks == 2
=============================================================================
