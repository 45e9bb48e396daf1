---------------------------- MODULE MCLogRedaction ----------------------------
(* Model-checking instance of LogRedaction: two of the seven keys.             *)
EXTENDS LogRedaction

MCKeys == <<"password=", "token=">>
=============================================================================
