------------------------------ MODULE MCListener ------------------------------
(* Model-checking instance of Listener.                                        *)
EXTENDS Listener

\* The defaults of applyDefaults with short windows; everything switched on.
AllOn ==
  [twoMan |-> TRUE, consumeApprove |-> TRUE, consumeArm |-> TRUE,
   clipBlocked |-> TRUE, clipFailed |-> TRUE, policy |-> TRUE,
   wayland |-> FALSE, armMs |-> 1, approveMs |-> 0]
Plainest ==
  [AllOn EXCEPT !.twoMan = FALSE, !.clipBlocked = FALSE, !.clipFailed = FALSE, !.wayland = TRUE]

MCConfigs == {AllOn, [AllOn EXCEPT !.twoMan = FALSE], Plainest}

\* The log goes to a file where the handler has the fewest states, with redaction where it
\* goes to stderr.
MCSetups ==
  {[config |-> k, logToFile |-> k = Plainest, redacts |-> k # Plainest] : k \in MCConfigs}
=============================================================================
