---------------------------- MODULE MCRateLimiter ----------------------------
(* More than twice the requests the window admits, and time for two        *)
(* windows.                                                                *)
EXTENDS RateLimiter, TLC

CONSTANTS ra, rb, rc, rd, re

(* Nothing tells the requests of a user apart. *)
RequestSymmetry == Permutations(Requests)

=============================================================================
