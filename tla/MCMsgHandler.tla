----------------------------- MODULE MCMsgHandler -----------------------------
(* Model-checking instance of MsgHandler.                                   *)
EXTENDS MsgHandler, TLC

\* The defaults of applyDefaults, with short windows.
Defaults ==
  [twoMan |-> TRUE, consumeApprove |-> TRUE, consumeArm |-> TRUE,
   clipBlocked |-> FALSE, clipFailed |-> FALSE, policy |-> FALSE,
   wayland |-> FALSE, armMs |-> 1, approveMs |-> 0]

MCConfigs ==
  { Defaults,
    [Defaults EXCEPT !.twoMan = FALSE, !.clipBlocked = TRUE, !.clipFailed = TRUE],
    [Defaults EXCEPT !.consumeApprove = FALSE, !.consumeArm = FALSE,
                     !.policy = TRUE, !.approveMs = 0 - 4],
    [Defaults EXCEPT !.twoMan = FALSE, !.wayland = TRUE, !.clipFailed = TRUE],
    [Defaults EXCEPT !.twoMan = FALSE, !.consumeArm = FALSE, !.clipFailed = TRUE,
                     !.armMs = 0 - 1] }

MCSymmetry == Permutations(Conn) \cup Permutations(Device)
=============================================================================
