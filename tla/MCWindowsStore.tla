---------------------------- MODULE MCWindowsStore ----------------------------
(* Model-checking instance of WindowsStore.                                   *)
EXTENDS WindowsStore, TLC

CONSTANTS d1, d2, old

\* One device of an earlier time.
MCOld == {[NoDevices EXCEPT ![d1] = old]}

Reliable == [protects |-> TRUE, flaky |-> FALSE, tools |-> FALSE]
MCSetups ==
  { Reliable,
    [Reliable EXCEPT !.protects = FALSE],
    [Reliable EXCEPT !.flaky = TRUE],
    [Reliable EXCEPT !.tools = TRUE, !.protects = FALSE] }
=============================================================================
