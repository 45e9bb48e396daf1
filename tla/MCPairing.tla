------------------------------ MODULE MCPairing ------------------------------
(* Model-checking instance of Pairing.                                      *)
EXTENDS Pairing, TLC

CONSTANTS c1, c2, c3, d1, d2, k1, k2, old, fresh1, fresh2, fresh3

\* Three attempts; the second leaves the key to the daemon.
MCPhoneKey == c1 :> k1 @@ c2 :> NoKey @@ c3 :> k2
MCFreshKey == c1 :> fresh1 @@ c2 :> fresh2 @@ c3 :> fresh3
MCPairedWith == {[NoDevices EXCEPT ![d1] = old]}

Plainest == [requireSealed |-> FALSE, rotatePsk |-> FALSE, rotateKyber |-> FALSE,
             tools |-> FALSE, lossyKeyring |-> FALSE]

MCSetups ==
  { Plainest,
    [Plainest EXCEPT !.requireSealed = TRUE, !.rotatePsk = TRUE],
    [Plainest EXCEPT !.rotateKyber = TRUE, !.rotatePsk = TRUE],
    [Plainest EXCEPT !.tools = TRUE],
    [Plainest EXCEPT !.requireSealed = TRUE, !.lossyKeyring = TRUE] }
=============================================================================
