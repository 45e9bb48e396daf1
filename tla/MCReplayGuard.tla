---------------------------- MODULE MCReplayGuard ----------------------------
(* Model-checking instance of ReplayGuard: one frame family whose timestamps *)
(* span the fresh range and one that wraps, short windows, a small int64.    *)
EXTENDS ReplayGuard, TLC

MCTimestamp == {0 - Half, 3}
MCSymmetry  == Permutations(Nonce)
=============================================================================
