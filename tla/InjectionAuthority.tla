-------------------------- MODULE InjectionAuthority --------------------------
(***************************************************************************)
(* What the daemon promises about injections, without clock, mutex,        *)
(* programs counters or replies: somebody armed it, somebody approved, and *)
(* every injection is backed by one grant of each kind. Grants may lapse   *)
(* at any moment; that is all that is left of time here.                   *)
(***************************************************************************)
EXTENDS FiniteSets

CONSTANTS Device, Conn, NoConn

VARIABLES
  rules,     \* [twoMan, consumeApprove, consumeArm], fixed
  armed,     \* the arm request in force, or NoConn
  approved,  \* per device the approve request in force, or NoConn
  granted,   \* the requests that have been in force
  backing,   \* the grants each injection request has been given
  active,    \* the request whose text is being injected, or NoConn
  injected   \* the requests whose injection has begun

vars == <<rules, armed, approved, granted, backing, active, injected>>

Nothing == [arm |-> NoConn, approve |-> NoConn]

Init ==
  /\ rules \in [twoMan : BOOLEAN, consumeApprove : BOOLEAN, consumeArm : BOOLEAN]
  /\ armed = NoConn
  /\ approved = [d \in Device |-> NoConn]
  /\ granted = {}
  /\ backing = [c \in Conn |-> Nothing]
  /\ active = NoConn
  /\ injected = {}

\* Approvals of the devices in S lapse or are taken back.
Lapsed(S) == [d \in Device |-> IF d \in S THEN NoConn ELSE approved[d]]

\* A request is a grant once; a new one replaces the one in force.
GrantArm(a) ==
  /\ a \notin granted
  /\ granted' = granted \cup {a}
  /\ armed' = a
  /\ UNCHANGED <<rules, approved, backing, active, injected>>

GrantApproval(a) ==
  /\ a \notin granted
  /\ granted' = granted \cup {a}
  /\ \E S \in SUBSET Device, d \in Device : approved' = [Lapsed(S) EXCEPT ![d] = a]
  /\ UNCHANGED <<rules, armed, backing, active, injected>>

\* Disarm and expiry.
EndArm ==
  /\ armed' = NoConn
  /\ UNCHANGED <<rules, approved, granted, backing, active, injected>>

EndApprovals ==
  /\ \E S \in SUBSET Device : approved' = Lapsed(S)
  /\ UNCHANGED <<rules, armed, granted, backing, active, injected>>

\* Request c of some device is backed by that device's approval ...
TakeApproval(c) ==
  /\ rules.twoMan /\ backing[c] = Nothing
  /\ \E d \in Device, S \in SUBSET Device :
       /\ approved[d] # NoConn
       /\ rules.consumeApprove => d \in S
       /\ backing' = [backing EXCEPT ![c].approve = approved[d]]
       /\ approved' = Lapsed(S)
  /\ UNCHANGED <<rules, armed, granted, active, injected>>

\* ... and then by the arm request.
TakeArm(c) ==
  /\ armed # NoConn /\ backing[c].arm = NoConn
  /\ rules.twoMan => backing[c].approve # NoConn
  /\ backing' = [backing EXCEPT ![c].arm = armed]
  /\ armed' = IF rules.consumeArm THEN NoConn ELSE armed
  /\ UNCHANGED <<rules, approved, granted, active, injected>>

\* Only a backed request injects, once, and never two at a time.
Begin(c) ==
  /\ active = NoConn /\ c \notin injected
  /\ backing[c].arm # NoConn
  /\ active' = c
  /\ injected' = injected \cup {c}
  /\ UNCHANGED <<rules, armed, approved, granted, backing>>

End ==
  /\ active # NoConn
  /\ active' = NoConn
  /\ UNCHANGED <<rules, armed, approved, granted, backing, injected>>

Next ==
  \/ \E c \in Conn : GrantArm(c) \/ GrantApproval(c)
                     \/ TakeApproval(c) \/ TakeArm(c) \/ Begin(c)
  \/ EndArm \/ EndApprovals \/ End

Spec == Init /\ [][Next]_vars
=============================================================================
