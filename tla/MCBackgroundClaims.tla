-------------------------- MODULE MCBackgroundClaims --------------------------
(* An instance of BackgroundClaims. *)
EXTENDS BackgroundClaims, TLC

CONSTANTS s1, s2

FirstTwoShare == <<1, 1, 2, 3>>     \* the first two jobs are of one session

Alike == Permutations({s1, s2})
=============================================================================
