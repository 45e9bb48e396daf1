------------------------------- MODULE MCDesktop -------------------------------
(* Model-checking instance of Desktop.                                         *)
EXTENDS Desktop, TLC

Base ==
  [twoMan |-> FALSE, consumeApprove |-> TRUE, consumeArm |-> FALSE,
   clipBlocked |-> FALSE, clipFailed |-> TRUE, policy |-> FALSE,
   wayland |-> FALSE, armMs |-> 1, approveMs |-> 0]

MCConfigs ==
  { Base, [Base EXCEPT !.wayland = TRUE], [Base EXCEPT !.clipBlocked = TRUE] }

\* Both clipboard settings off, which is the default.
MCNoClipboard == { [Base EXCEPT !.clipFailed = FALSE] }

MCBackends ==
  { [os |-> "darwin", paste |-> TRUE, typing |-> TRUE],
    [os |-> "darwin", paste |-> FALSE, typing |-> TRUE],
    [os |-> "darwin", paste |-> TRUE, typing |-> FALSE],
    [os |-> "windows", paste |-> TRUE, typing |-> TRUE],
    [os |-> "windows", paste |-> TRUE, typing |-> FALSE],
    [os |-> "linux", paste |-> TRUE, typing |-> TRUE] }

\* No configuration has a target policy, so windows are alike.
MCSymmetry == Permutations(Conn) \cup Permutations(Target)
=============================================================================
