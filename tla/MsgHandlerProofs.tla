--------------------------- MODULE MsgHandlerProofs ---------------------------
(***************************************************************************)
(* Proofs about MsgHandler for every set of devices, connections, windows  *)
(* and configurations.                                                     *)
(***************************************************************************)
EXTENDS MsgHandler, TLAPS

\* An approval never opens a window in the past; an arm request may.
LEMMA WindowsPositive ==
  ASSUME TypeOK
  PROVE  /\ ApproveWindow \in Nat \ {0}
         /\ cfg.armMs \in Int /\ ArmMs \subseteq Nat
         /\ cfg.twoMan \in BOOLEAN /\ cfg.consumeArm \in BOOLEAN
         /\ cfg.consumeApprove \in BOOLEAN
  BY HandlerAssumption DEF TypeOK, Config, ApproveWindow

\* Dropping expired approvals leaves approvals.
LEMMA UnexpiredType ==
  ASSUME TypeOK PROVE Unexpired \in [Device -> ApprovalGate]
  BY HandlerAssumption DEF TypeOK, Unexpired, Closed, Gate, ApprovalGate

\* The fields of a request.
LEMMA RequestType ==
  ASSUME NEW r \in Request
  PROVE  /\ r.kind = "arm" => r.ms \in Nat
         /\ r.kind \in {"approve", "inject"} => r.dev \in Device
  BY HandlerAssumption DEF Request

\* Going on, settling and blocking keep program counters and answers typed.
LEMMA GotoType ==
  ASSUME TypeOK, NEW c \in Conn, NEW label \in Label, Goto(c, label)
  PROVE  pc' \in [Conn -> Label] /\ \A d \in Conn : pc'[d] = IF d = c THEN label ELSE pc[d]
  BY DEF TypeOK, Goto

LEMMA SettleType ==
  ASSUME TypeOK, NEW c \in Conn, NEW status \in Status, NEW reason \in Reason,
         Settle(c, status, reason)
  PROVE  /\ pc' \in [Conn -> Label] /\ pending' \in [Conn -> Answer]
         /\ \A d \in Conn : pc'[d] = IF d = c THEN "respond" ELSE pc[d]
<1>1. Ans(status, reason) \in Answer /\ "respond" \in Label
  BY DEF Ans, Answer, Label
<1> QED
  BY <1>1, GotoType DEF TypeOK, Settle

LEMMA BlockType ==
  ASSUME TypeOK, NEW c \in Conn, NEW clipboard \in BOOLEAN,
         NEW status \in Status, NEW reason \in Reason,
         Block(c, clipboard, status, reason)
  PROVE  /\ pc' \in [Conn -> Label] /\ pending' \in [Conn -> Answer]
         /\ \A d \in Conn : pc'[d] = IF d = c THEN IF clipboard THEN "clipboard" ELSE "respond"
                                              ELSE pc[d]
<1>1. Ans(status, reason) \in Answer
  BY DEF Ans, Answer
<1>2. (IF clipboard THEN "clipboard" ELSE "respond") \in Label
  BY DEF Label
<1>3. pc' \in [Conn -> Label]
      /\ \A d \in Conn : pc'[d] = IF d = c THEN IF clipboard THEN "clipboard" ELSE "respond"
                                           ELSE pc[d]
  BY <1>2 DEF TypeOK, Block, Goto
<1> QED
  BY <1>1, <1>3 DEF TypeOK, Block

\* Every step leaves goroutines where their requests are served.
LEMMA StepServes == TypeOK /\ [Next]_vars => \A d \in Conn : Serves(d)'
<1> SUFFICES ASSUME TypeOK, [Next]_vars PROVE \A d \in Conn : Serves(d)'
  OBVIOUS
<1> USE DEF environment, gates, history
<1>1. ASSUME NEW c \in Conn, NEW r \in Request, Receive(c, r) PROVE \A d \in Conn : Serves(d)'
  <2>1. /\ req'[c] = r /\ \A d \in Conn \ {c} : pc'[d] = pc[d] /\ req'[d] = req[d]
        /\ \/ pc'[c] = "respond"
           \/ pc'[c] = "validate" /\ r.kind = "inject"
           \/ pc'[c] = r.kind /\ r.kind \in {"arm", "disarm", "approve"}
    BY <1>1 DEF Receive, Settle, Goto, TypeOK
  <2> QED
    BY <2>1 DEF Serves, TypeOK
<1>2. ASSUME NEW c \in Conn,
             \/ ValidateText(c) \/ CheckTarget(c) \/ (\E ok \in BOOLEAN : SetClipboard(c, ok))
             \/ LockInject(c) \/ Approve(c) \/ Arm(c) \/ Disarm(c)
      PROVE  \A d \in Conn : Serves(d)'
  <2>1. /\ UNCHANGED req /\ \A d \in Conn \ {c} : pc'[d] = pc[d]
        /\ pc[c] # "idle"
        /\ \/ pc'[c] \in {"clipboard", "respond"}
           \/ /\ pc[c] \in {"validate", "policy", "lock"}
              /\ pc'[c] \in {"policy", "lock", "twoman"}
    BY <1>2 DEF ValidateText, CheckTarget, SetClipboard, LockInject, Approve, Arm, Disarm,
                Settle, Block, Goto, TypeOK
  <2> QED
    BY <2>1 DEF Serves, TypeOK
<1>3. ASSUME NEW c \in Conn,
             \/ PassTwoMan(c) \/ PassArm(c) \/ StartInject(c) \/ TypeInto(c) \/ FailInject(c)
             \/ (\E reason \in Reason : FinishInject(c, reason))
             \/ (\E delivered \in BOOLEAN : Respond(c, delivered)) \/ Unlock(c)
      PROVE  \A d \in Conn : Serves(d)'
  <2>1. /\ UNCHANGED req /\ \A d \in Conn \ {c} : pc'[d] = pc[d]
        /\ pc[c] # "idle"
        /\ pc'[c] \in {"clipboard", "respond", "armed", "inject", "injecting", "unlock", "done"}
    BY <1>3 DEF PassTwoMan, PassArm, StartInject, TypeInto, FailInject, FinishInject, Respond,
                Unlock, Settle, Block, Goto, TypeOK
  <2> QED
    BY <2>1 DEF Serves, TypeOK
<1>4. CASE Tick \/ MoveFocus \/ UNCHANGED vars
  BY <1>4 DEF Tick, MoveFocus, vars, Serves, TypeOK
<1> QED
  BY <1>1, <1>2, <1>3, <1>4 DEF Next, Handle

\* Every step keeps every variable in its type.
LEMMA StepType == TypeOK /\ [Next]_vars => TypeOK'
<1> SUFFICES ASSUME TypeOK, [Next]_vars, \A d \in Conn : Serves(d)' PROVE TypeOK'
  BY StepServes
<1> USE HandlerAssumption DEF environment, gates, history
<1>0. /\ \A status \in {"OK", "NotArmed", "NeedsApprove", "BadRequest", "CryptoFail",
                       "OKClipboard", "Internal"} : status \in Status
      /\ \A reason \in ClientReason : reason \in Reason
      /\ {"ok", "not_armed", "needs_approve", "clipboard_fallback", "typing_fallback",
          "inject_unavailable_wayland", "bad_request", "crypto_fail", "internal_error"}
           \subseteq Reason
      /\ cfg.clipBlocked \in BOOLEAN /\ cfg.clipFailed \in BOOLEAN
  BY DEF Status, Reason, ClientReason, TypeOK, Config
<1>1. ASSUME NEW c \in Conn, NEW r \in Request, Receive(c, r) PROVE TypeOK'
  <2>1. pc' \in [Conn -> Label] /\ pending' \in [Conn -> Answer]
        /\ \A d \in Conn : d # c => pc'[d] = pc[d]
    <3>1. CASE r.kind = "malformed" /\ Settle(c, "BadRequest", "bad_request")
      BY <1>0, <3>1, SettleType
    <3>2. CASE r.kind = "unauthentic" /\ Settle(c, "CryptoFail", "crypto_fail")
      BY <1>0, <3>2, SettleType
    <3>3. CASE r.kind = "inject" /\ Goto(c, "validate") /\ UNCHANGED pending
      BY <3>3, GotoType DEF Label, TypeOK
    <3>4. CASE r.kind \in {"arm", "disarm", "approve"} /\ Goto(c, r.kind) /\ UNCHANGED pending
      BY <3>4, GotoType DEF Label, TypeOK
    <3> QED
      BY <1>1, <3>1, <3>2, <3>3, <3>4 DEF Receive
  <2>2. req' = [req EXCEPT ![c] = r]
    BY <1>1 DEF Receive
  <2> QED
    BY <1>1, <2>1, <2>2 DEF TypeOK, Receive
<1>2. ASSUME NEW c \in Conn, ValidateText(c) PROVE TypeOK'
  <2>1. pc' \in [Conn -> Label] /\ pending' \in [Conn -> Answer]
        /\ \A d \in Conn : d # c => pc'[d] = pc[d]
    <3>1. CASE req[c].safe
      BY <1>2, <3>1, GotoType DEF ValidateText, Label, TypeOK
    <3>2. CASE ~req[c].safe
      BY <1>0, <1>2, <3>2, BlockType DEF ValidateText
    <3> QED
      BY <3>1, <3>2
  <2> QED
    BY <1>2, <2>1 DEF TypeOK, ValidateText
<1>3. ASSUME NEW c \in Conn, CheckTarget(c) PROVE TypeOK'
  <2>1. pc' \in [Conn -> Label] /\ pending' \in [Conn -> Answer]
        /\ \A d \in Conn : d # c => pc'[d] = pc[d]
    <3>1. CASE PolicyAllows(focus)
      BY <1>3, <3>1, GotoType DEF CheckTarget, Label, TypeOK
    <3>2. CASE ~PolicyAllows(focus)
      BY <1>0, <1>3, <3>2, BlockType DEF CheckTarget
    <3> QED
      BY <3>1, <3>2
  <2> QED
    BY <1>3, <2>1 DEF TypeOK, CheckTarget
<1>4. ASSUME NEW c \in Conn, NEW ok \in BOOLEAN, SetClipboard(c, ok) PROVE TypeOK'
  <2>1. pc' \in [Conn -> Label] /\ pending' \in [Conn -> Answer]
        /\ \A d \in Conn : d # c => pc'[d] = pc[d]
    <3>1. CASE ok
      <4> DEFINE reason == IF cfg.wayland /\ pending[c].status = "Internal"
                           THEN "inject_unavailable_wayland" ELSE "clipboard_fallback"
      <4>1. Settle(c, "OKClipboard", reason)
        BY <1>4, <3>1 DEF SetClipboard
      <4>2. reason \in Reason
        BY <1>0
      <4> HIDE DEF reason
      <4> QED
        BY <1>0, <4>1, <4>2, SettleType
    <3>2. CASE ~ok
      BY <1>4, <3>2, GotoType DEF SetClipboard, Label, TypeOK
    <3> QED
      BY <3>1, <3>2
  <2> QED
    BY <1>4, <2>1 DEF TypeOK, SetClipboard
<1>5. ASSUME NEW c \in Conn, Arm(c) PROVE TypeOK'
  <2>1. (IF req[c].ms > 0 THEN req[c].ms ELSE cfg.armMs) \in Int
    BY <1>5, RequestType, WindowsPositive DEF Arm, TypeOK, Serves
  <2>2. armGate' \in Gate
    BY <1>5, <2>1 DEF Arm, Gate, ApprovalGate, TypeOK
  <2>3. pc' \in [Conn -> Label] /\ pending' \in [Conn -> Answer]
        /\ \A d \in Conn : d # c => pc'[d] = pc[d]
    BY <1>0, <1>5, SettleType DEF Arm
  <2>4. acted' \in [Conn -> 0..MaxTime]
    BY <1>5 DEF Arm, TypeOK
  <2>5. pc[c] = "arm" /\ UNCHANGED <<cfg, clock, focus, approvals, injectMu, req, reply, used, typed>>
    BY <1>5 DEF Arm
  <2> QED
    BY <2>2, <2>3, <2>4, <2>5 DEF TypeOK
<1>6. ASSUME NEW c \in Conn, Disarm(c) PROVE TypeOK'
  <2>1. armGate' \in Gate
    BY <1>6 DEF Disarm, Gate, ApprovalGate, Closed
  <2>2. pc' \in [Conn -> Label] /\ pending' \in [Conn -> Answer]
        /\ \A d \in Conn : d # c => pc'[d] = pc[d]
    BY <1>0, <1>6, SettleType DEF Disarm
  <2>3. acted' \in [Conn -> 0..MaxTime]
    BY <1>6 DEF Disarm, TypeOK
  <2>4. pc[c] = "disarm" /\ UNCHANGED <<cfg, clock, focus, approvals, injectMu, req, reply, used, typed>>
    BY <1>6 DEF Disarm
  <2> QED
    BY <2>1, <2>2, <2>3, <2>4 DEF TypeOK
<1>7. ASSUME NEW c \in Conn, Approve(c) PROVE TypeOK'
  <2>1. req[c].dev \in Device
    BY <1>7, RequestType DEF Approve, TypeOK, Serves
  <2>2. approvals' \in [Device -> ApprovalGate] /\ acted' \in [Conn -> 0..MaxTime]
    <3>1. CASE cfg.twoMan
      <4>1. [until |-> clock + ApproveWindow, by |-> c] \in ApprovalGate
        BY WindowsPositive DEF Gate, ApprovalGate, TypeOK
      <4> QED
        BY <1>7, <2>1, <3>1, <4>1, UnexpiredType DEF Approve, TypeOK
    <3>2. CASE ~cfg.twoMan
      BY <1>7, <3>2 DEF Approve, TypeOK
    <3> QED
      BY <3>1, <3>2
  <2>3. pc' \in [Conn -> Label] /\ pending' \in [Conn -> Answer]
        /\ \A d \in Conn : d # c => pc'[d] = pc[d]
    BY <1>0, <1>7, SettleType DEF Approve
  <2> QED
    BY <1>7, <2>2, <2>3 DEF TypeOK, Approve
<1>8. ASSUME NEW c \in Conn, LockInject(c) PROVE TypeOK'
  BY <1>8 DEF TypeOK, LockInject, Goto, Label
<1>9. ASSUME NEW c \in Conn, PassTwoMan(c) PROVE TypeOK'
  <2>1. req[c].dev \in Device
    BY <1>9, RequestType DEF PassTwoMan, TypeOK, Serves
  <2>2. CASE ~cfg.twoMan
    BY <1>9, <2>2, GotoType DEF PassTwoMan, TypeOK, Label
  <2>3. CASE cfg.twoMan /\ Unexpired[req[c].dev] = Closed
    <3>1. /\ Block(c, cfg.clipBlocked, "NeedsApprove", "needs_approve")
          /\ approvals' = Unexpired /\ UNCHANGED used
      BY <1>9, <2>3 DEF PassTwoMan
    <3> QED
      BY <1>0, <1>9, <2>3, <3>1, BlockType, UnexpiredType DEF PassTwoMan, TypeOK
  <2>4. CASE cfg.twoMan /\ Unexpired[req[c].dev] # Closed
    <3>1. approvals' \in [Device -> ApprovalGate]
      BY <1>9, <2>1, <2>4, UnexpiredType DEF PassTwoMan, Closed, Gate, ApprovalGate
    <3>2. approvals[req[c].dev].by \in Conn \cup {NoConn}
      BY <2>1 DEF TypeOK, Gate, ApprovalGate
    <3>3. used' = [used EXCEPT ![c].approve = approvals[req[c].dev].by]
          /\ Goto(c, "armed") /\ UNCHANGED pending
      BY <1>9, <2>4 DEF PassTwoMan
    <3>4. pc' \in [Conn -> Label] /\ \A d \in Conn : pc'[d] = IF d = c THEN "armed" ELSE pc[d]
      BY <3>3, GotoType DEF Label
    <3>5. used' \in [Conn -> [arm : Conn \cup {NoConn}, approve : Conn \cup {NoConn}]]
      BY <3>2, <3>3 DEF TypeOK
    <3>6. pc[c] = "twoman" /\ UNCHANGED <<cfg, clock, focus, armGate, injectMu, req, reply, acted, typed>>
      BY <1>9 DEF PassTwoMan
    <3> QED
      BY <3>1, <3>3, <3>4, <3>5, <3>6 DEF TypeOK
  <2> QED
    BY <2>2, <2>3, <2>4
<1>10. ASSUME NEW c \in Conn, PassArm(c) PROVE TypeOK'
  <2>1. armGate' \in Gate
    BY <1>10 DEF PassArm, TypeOK, Gate, ApprovalGate, Closed
  <2>2. armGate.by \in Conn \cup {NoConn}
    BY DEF TypeOK, Gate, ApprovalGate
  <2>3. CASE clock > armGate.until
    BY <1>0, <1>10, <2>1, <2>3, BlockType DEF PassArm, TypeOK
  <2>4. CASE ~(clock > armGate.until)
    <3>1. used' = [used EXCEPT ![c].arm = armGate.by]
          /\ Goto(c, "inject") /\ UNCHANGED pending
      BY <1>10, <2>4 DEF PassArm
    <3>2. "inject" \in Label
      BY DEF Label
    <3> QED
      BY <1>10, <2>1, <2>2, <3>1, <3>2, GotoType DEF PassArm, TypeOK
  <2> QED
    BY <2>3, <2>4
<1>11. ASSUME NEW c \in Conn, StartInject(c) \/ TypeInto(c) PROVE TypeOK'
  <2>1. typed' \in [Conn -> SUBSET Target]
    BY <1>11 DEF StartInject, TypeInto, TypeOK
  <2>2. pc' \in [Conn -> Label]
    BY <1>11 DEF StartInject, TypeInto, Goto, Label, TypeOK
  <2> QED
    BY <1>11, <2>1, <2>2 DEF StartInject, TypeInto, TypeOK
<1>12. ASSUME NEW c \in Conn, NEW reason \in Reason, FinishInject(c, reason) PROVE TypeOK'
  BY <1>0, <1>12, SettleType DEF FinishInject, TypeOK
<1>13. ASSUME NEW c \in Conn, FailInject(c) PROVE TypeOK'
  BY <1>0, <1>13, BlockType DEF FailInject, TypeOK
<1>14. ASSUME NEW c \in Conn, NEW delivered \in BOOLEAN, Respond(c, delivered) PROVE TypeOK'
  <2>1. Ans(pending[c].status, SafeReason(pending[c].reason)) \in Answer
    BY <1>0 DEF TypeOK, Ans, Answer, SafeReason
  <2>2. (IF injectMu = c THEN "unlock" ELSE "done") \in Label
    BY DEF Label
  <2> QED
    BY <1>14, <2>1, <2>2 DEF Respond, TypeOK, Goto
<1>15. ASSUME NEW c \in Conn, Unlock(c) PROVE TypeOK'
  BY <1>15 DEF TypeOK, Unlock, Goto, Label
<1>16. CASE Tick
  BY <1>16 DEF TypeOK, Tick
<1>17. CASE MoveFocus
  BY <1>17 DEF TypeOK, MoveFocus
<1>18. CASE UNCHANGED vars
  BY <1>18 DEF TypeOK, vars
<1> QED
  BY <1>1, <1>2, <1>3, <1>4, <1>5, <1>6, <1>7, <1>8, <1>9, <1>10, <1>11, <1>12, <1>13,
     <1>14, <1>15, <1>16, <1>17, <1>18
  DEF Next, Handle

\* Every variable keeps its type.
THEOREM TypeCorrect == Spec => []TypeOK
<1>1. Init => TypeOK
  BY HandlerAssumption
  DEF Init, TypeOK, Serves, Closed, Gate, ApprovalGate, NoRequest, NoAnswer, NoReply, Ans, Answer, Status, Reason, Label
<1> QED
  BY <1>1, StepType, PTL DEF Spec

-----------------------------------------------------------------------------
\* A step that leaves gates, requests and grants alone keeps what is known of
\* gates and grants.
LEMMA GrantsFrame ==
  ASSUME HandlerInv, UNCHANGED <<cfg, armGate, approvals, req, used, acted>>
  PROVE  GateInv' /\ SpendInv'
  BY DEF HandlerInv, GateInv, SpendInv, OneInjectionPerArm, OneInjectionPerApproval

\* Labels that demand nothing of the past of a goroutine.
Over == {"clipboard", "respond", "done"}

\* A step of one goroutine to such a label keeps the invariant.
LEMMA LocalStep ==
  ASSUME HandlerInv, TypeOK', NEW c \in Conn,
         UNCHANGED <<cfg, armGate, approvals, injectMu, req, used, acted, typed>>,
         pc'[c] \in Over, \A d \in Conn \ {c} : pc'[d] = pc[d]
  PROVE  HandlerInv'
<1>1. LockInv'
  BY DEF HandlerInv, LockInv, UnderMutex, Over
<1>2. PlaceInv'
  <2>1. ASSUME NEW d \in Conn PROVE Place(d)'
    BY DEF HandlerInv, PlaceInv, Place, Over
  <2> QED
    BY <2>1 DEF PlaceInv
<1> QED
  BY <1>1, <1>2, GrantsFrame DEF HandlerInv

\* Every step preserves the inductive invariant.
LEMMA StepHandler == HandlerInv /\ [Next]_vars => HandlerInv'
<1> SUFFICES ASSUME HandlerInv, TypeOK, TypeOK', [Next]_vars PROVE HandlerInv'
  BY StepType DEF HandlerInv
<1> USE HandlerAssumption DEF environment, gates, history
<1>1. ASSUME NEW c \in Conn, NEW r \in Request, Receive(c, r) PROVE HandlerInv'
  <2>1. /\ pc[c] = "idle" /\ acted[c] = 0
        /\ \A d \in Conn \ {c} : pc'[d] = pc[d] /\ req'[d] = req[d]
        /\ UNCHANGED <<cfg, armGate, approvals, injectMu, used, acted, typed>>
        /\ pc'[c] \in {"arm", "disarm", "approve", "validate", "respond"} /\ req'[c] = r
    BY <1>1 DEF Receive, Settle, Goto, HandlerInv, PlaceInv, Place, TypeOK
  <2>2. LockInv'
    BY <2>1 DEF HandlerInv, LockInv, UnderMutex
  <2>3. GateInv'
    BY <2>1 DEF HandlerInv, GateInv, TypeOK, Gate, ApprovalGate
  <2>4. ASSUME NEW d \in Conn PROVE Place(d)'
    BY <2>1 DEF HandlerInv, PlaceInv, Place
  <2>5. SpendInv'
    <3>1. used[c] = [arm |-> NoConn, approve |-> NoConn]
      BY <2>1 DEF HandlerInv, PlaceInv, Place
    <3>2. ASSUME NEW d \in Conn, used[d].approve # NoConn
          PROVE  /\ d \in Conn \ {c} /\ used[d].approve \in Conn \ {c}
                 /\ req'[d] = req[d] /\ req'[used[d].approve] = req[used[d].approve]
      BY <2>1, <3>1, <3>2 DEF HandlerInv, SpendInv, TypeOK
    <3>3. OneInjectionPerArm' /\ OneInjectionPerApproval'
      BY <2>1, <3>2 DEF HandlerInv, SpendInv, OneInjectionPerArm, OneInjectionPerApproval
    <3> QED
      BY <2>1, <3>2, <3>3 DEF HandlerInv, SpendInv
  <2> QED
    BY <2>2, <2>3, <2>4, <2>5 DEF HandlerInv, PlaceInv
<1>2. ASSUME NEW c \in Conn, ValidateText(c) PROVE HandlerInv'
  <2>1. CASE req[c].safe
    <3>1. /\ pc[c] = "validate" /\ pc'[c] = "policy" /\ \A d \in Conn \ {c} : pc'[d] = pc[d]
          /\ UNCHANGED <<cfg, armGate, approvals, injectMu, req, used, acted, typed>>
      BY <1>2, <2>1 DEF ValidateText, Goto, TypeOK
    <3>2. LockInv'
      BY <3>1 DEF HandlerInv, LockInv, UnderMutex
    <3>3. ASSUME NEW d \in Conn PROVE Place(d)'
      BY <3>1 DEF HandlerInv, PlaceInv, Place
    <3> QED
      BY <3>1, <3>2, <3>3, GrantsFrame DEF HandlerInv, PlaceInv
  <2>2. CASE ~req[c].safe
    BY <1>2, <2>2, LocalStep DEF ValidateText, Block, Goto, Over, TypeOK
  <2> QED
    BY <2>1, <2>2
<1>3. ASSUME NEW c \in Conn, CheckTarget(c) PROVE HandlerInv'
  <2>1. CASE PolicyAllows(focus)
    <3>1. /\ pc[c] = "policy" /\ pc'[c] = "lock" /\ \A d \in Conn \ {c} : pc'[d] = pc[d]
          /\ UNCHANGED <<cfg, armGate, approvals, injectMu, req, used, acted, typed>>
      BY <1>3, <2>1 DEF CheckTarget, Goto, TypeOK
    <3>2. LockInv'
      BY <3>1 DEF HandlerInv, LockInv, UnderMutex
    <3>3. ASSUME NEW d \in Conn PROVE Place(d)'
      BY <3>1 DEF HandlerInv, PlaceInv, Place
    <3> QED
      BY <3>1, <3>2, <3>3, GrantsFrame DEF HandlerInv, PlaceInv
  <2>2. CASE ~PolicyAllows(focus)
    BY <1>3, <2>2, LocalStep DEF CheckTarget, Block, Goto, Over, TypeOK
  <2> QED
    BY <2>1, <2>2
<1>4. ASSUME NEW c \in Conn, NEW ok \in BOOLEAN, SetClipboard(c, ok) PROVE HandlerInv'
  BY <1>4, LocalStep DEF SetClipboard, Settle, Goto, Over, TypeOK
<1>5. ASSUME NEW c \in Conn, Arm(c) PROVE HandlerInv'
  <2>1. /\ pc[c] = "arm" /\ pc'[c] = "respond" /\ \A d \in Conn \ {c} : pc'[d] = pc[d]
        /\ armGate'.by = c /\ acted'[c] # 0 /\ acted[c] = 0 /\ req[c].kind = "arm"
        /\ \A d \in Conn \ {c} : acted'[d] = acted[d]
        /\ UNCHANGED <<cfg, approvals, injectMu, req, used, typed>>
    BY <1>5 DEF Arm, Settle, Goto, TypeOK, Serves, HandlerInv, PlaceInv, Place
  <2>2. c # NoConn
    OBVIOUS
  <2>3. LockInv'
    BY <2>1 DEF HandlerInv, LockInv, UnderMutex
  <2>4. GateInv'
    BY <2>1, <2>2 DEF HandlerInv, GateInv, TypeOK, Gate, ApprovalGate
  <2>5. ASSUME NEW d \in Conn PROVE Place(d)'
    BY <2>1 DEF HandlerInv, PlaceInv, Place
  <2>6. SpendInv'
    BY <2>1 DEF HandlerInv, SpendInv, OneInjectionPerArm, OneInjectionPerApproval, TypeOK
  <2> QED
    BY <2>3, <2>4, <2>5, <2>6 DEF HandlerInv, PlaceInv
<1>6. ASSUME NEW c \in Conn, Disarm(c) PROVE HandlerInv'
  <2>1. /\ pc[c] = "disarm" /\ pc'[c] = "respond" /\ \A d \in Conn \ {c} : pc'[d] = pc[d]
        /\ armGate'.by = NoConn /\ armGate'.until = 0 /\ acted'[c] # 0
        /\ \A d \in Conn \ {c} : acted'[d] = acted[d]
        /\ UNCHANGED <<cfg, approvals, injectMu, req, used, typed>>
    BY <1>6 DEF Disarm, Settle, Goto, Closed, TypeOK
  <2>2. LockInv'
    BY <2>1 DEF HandlerInv, LockInv, UnderMutex
  <2>3. GateInv'
    BY <2>1 DEF HandlerInv, GateInv, TypeOK, Gate, ApprovalGate
  <2>4. ASSUME NEW d \in Conn PROVE Place(d)'
    BY <2>1 DEF HandlerInv, PlaceInv, Place
  <2>5. SpendInv'
    BY <2>1 DEF HandlerInv, SpendInv, OneInjectionPerArm, OneInjectionPerApproval, TypeOK
  <2> QED
    BY <2>2, <2>3, <2>4, <2>5 DEF HandlerInv, PlaceInv
<1>7. ASSUME NEW c \in Conn, Approve(c) PROVE HandlerInv'
  <2>1. CASE ~cfg.twoMan
    BY <1>7, <2>1, LocalStep DEF Approve, Settle, Goto, Over, TypeOK
  <2>2. CASE cfg.twoMan
    <3> DEFINE e == req[c].dev
    <3>1. /\ pc[c] = "approve" /\ pc'[c] = "respond" /\ \A d \in Conn \ {c} : pc'[d] = pc[d]
          /\ acted'[c] # 0 /\ acted[c] = 0 /\ req[c].kind = "approve"
          /\ \A d \in Conn \ {c} : acted'[d] = acted[d]
          /\ UNCHANGED <<cfg, armGate, injectMu, req, used, typed>>
      BY <1>7, <2>2 DEF Approve, Settle, Goto, TypeOK, Serves, HandlerInv, PlaceInv, Place
    <3>2. e \in Device
      BY <3>1, RequestType DEF TypeOK, Serves
    <3>3. approvals'[e].until # 0 /\ approvals'[e].by = c /\ c # NoConn
      BY <1>7, <2>2, <3>2, WindowsPositive, UnexpiredType DEF Approve, TypeOK
    <3>4. \A d \in Device \ {e} : approvals'[d] = Closed \/ approvals'[d] = approvals[d]
      BY <1>7, <2>2, <3>2 DEF Approve, Unexpired
    <3> HIDE DEF e
    <3>5. LockInv'
      BY <3>1 DEF HandlerInv, LockInv, UnderMutex
    <3>6. GateInv'
      <4>1. /\ armGate.by = NoConn => armGate.until = 0
            /\ armGate.by # NoConn => acted'[armGate.by] # 0 /\ req[armGate.by].kind = "arm"
        BY <3>1 DEF HandlerInv, GateInv, TypeOK, Gate, ApprovalGate
      <4>2. ASSUME NEW d \in Device
            PROVE  /\ (approvals'[d].until = 0) <=> (approvals'[d].by = NoConn)
                   /\ approvals'[d].by # NoConn =>
                        /\ acted'[approvals'[d].by] # 0
                        /\ req[approvals'[d].by].kind = "approve" /\ req[approvals'[d].by].dev = d
        <5>1. CASE d = e
          BY <3>1, <3>3, <5>1 DEF e
        <5>2. CASE d # e /\ approvals'[d] = Closed
          BY <5>2 DEF Closed
        <5>3. CASE d # e /\ approvals'[d] = approvals[d]
          BY <3>1, <5>3 DEF HandlerInv, GateInv, TypeOK, Gate, ApprovalGate
        <5> QED
          BY <3>4, <5>1, <5>2, <5>3
      <4> QED
        BY <3>1, <4>1, <4>2 DEF GateInv
    <3>7. ASSUME NEW d \in Conn PROVE Place(d)'
      BY <3>1 DEF HandlerInv, PlaceInv, Place
    <3>8. SpendInv'
      <4>1. ASSUME NEW d \in Conn, used[d].approve # NoConn, cfg.consumeApprove,
                   NEW f \in Device
            PROVE  used[d].approve # approvals'[f].by
        <5>1. used[d].approve # c
          BY <3>1, <4>1 DEF HandlerInv, SpendInv
        <5>2. used[d].approve # approvals[f].by
          BY <4>1 DEF HandlerInv, SpendInv
        <5> QED
          BY <3>3, <3>4, <4>1, <5>1, <5>2 DEF Closed
      <4>2. ASSUME NEW d \in Conn
            PROVE  /\ used[d].arm # NoConn => acted'[used[d].arm] # 0
                   /\ used[d].approve # NoConn => acted'[used[d].approve] # 0
        BY <3>1 DEF HandlerInv, SpendInv, TypeOK
      <4> QED
        BY <3>1, <4>1, <4>2 DEF HandlerInv, SpendInv, OneInjectionPerArm, OneInjectionPerApproval
    <3> QED
      BY <3>5, <3>6, <3>7, <3>8 DEF HandlerInv, PlaceInv
  <2> QED
    BY <2>1, <2>2
<1>8. ASSUME NEW c \in Conn, LockInject(c) PROVE HandlerInv'
  <2>1. /\ pc[c] = "lock" /\ pc'[c] = "twoman" /\ \A d \in Conn \ {c} : pc'[d] = pc[d]
        /\ injectMu = NoConn /\ injectMu' = c
        /\ UNCHANGED <<cfg, armGate, approvals, req, used, acted, typed>>
    BY <1>8 DEF LockInject, Goto, TypeOK
  <2>2. LockInv'
    BY <2>1 DEF HandlerInv, LockInv, UnderMutex
  <2>3. ASSUME NEW d \in Conn PROVE Place(d)'
    BY <2>1 DEF HandlerInv, PlaceInv, Place
  <2> QED
    BY <2>1, <2>2, <2>3, GrantsFrame DEF HandlerInv, PlaceInv
<1>9. ASSUME NEW c \in Conn, PassTwoMan(c) PROVE HandlerInv'
  <2> DEFINE e == req[c].dev
  <2>1. e \in Device /\ pc[c] = "twoman"
    BY <1>9, RequestType DEF PassTwoMan, TypeOK, Serves
  <2>2. /\ used[c] = [arm |-> NoConn, approve |-> NoConn] /\ injectMu = c
    BY <2>1 DEF HandlerInv, PlaceInv, Place, LockInv, UnderMutex
  <2>3. UNCHANGED <<cfg, armGate, injectMu, req, acted, typed>>
    BY <1>9 DEF PassTwoMan
  <2>4. \A d \in Device : approvals'[d] = Closed \/ approvals'[d] = approvals[d]
    BY <1>9 DEF PassTwoMan, Unexpired, Closed, TypeOK
  <2>5. GateInv'
    BY <2>3, <2>4 DEF HandlerInv, GateInv, Closed
  <2>6. \A d \in Conn \ {c} : pc'[d] = pc[d] /\ used'[d] = used[d]
    BY <1>9 DEF PassTwoMan, Goto, Block, TypeOK
  <2>7. \/ pc'[c] = "armed" /\ used'[c] = used[c] /\ ~cfg.twoMan
        \/ pc'[c] \in Over /\ used'[c] = used[c]
        \/ /\ pc'[c] = "armed" /\ cfg.twoMan
           /\ used'[c] = [used[c] EXCEPT !.approve = approvals[e].by]
           /\ approvals[e].by # NoConn
           /\ cfg.consumeApprove => approvals'[e] = Closed
    <3>1. CASE ~cfg.twoMan
      BY <1>9, <3>1 DEF PassTwoMan, Goto, TypeOK
    <3>2. CASE cfg.twoMan /\ Unexpired[e] = Closed
      BY <1>9, <3>2 DEF PassTwoMan, Block, Goto, Over, TypeOK
    <3>3. CASE cfg.twoMan /\ Unexpired[e] # Closed
      <4>1. approvals[e].until # 0
        BY <2>1, <3>3 DEF Unexpired, TypeOK, Gate, ApprovalGate
      <4>2. approvals[e].by # NoConn
        BY <2>1, <4>1 DEF HandlerInv, GateInv
      <4>3. cfg.consumeApprove => approvals'[e] = Closed
        BY <1>9, <2>1, <3>3, UnexpiredType DEF PassTwoMan
      <4> QED
        BY <1>9, <3>3, <4>2, <4>3 DEF PassTwoMan, Goto, TypeOK
    <3> QED
      BY <3>1, <3>2, <3>3
  <2>8. LockInv'
    BY <2>2, <2>3, <2>6, <2>7 DEF HandlerInv, LockInv, UnderMutex, Over
  <2>9. ASSUME NEW d \in Conn PROVE Place(d)'
    <3>1. CASE d = c
      <4>1. typed[c] = {}
        BY <2>1 DEF HandlerInv, PlaceInv, Place
      <4> QED
        BY <2>2, <2>3, <2>7, <3>1, <4>1 DEF Place, Over
    <3>2. CASE d # c
      BY <2>3, <2>6, <3>2 DEF HandlerInv, PlaceInv, Place
    <3> QED
      BY <3>1, <3>2
  <2>10. SpendInv'
    <3>1. ASSUME NEW d \in Conn
          PROVE  /\ used'[d].arm = used[d].arm
                 /\ \/ used'[d].approve = used[d].approve
                    \/ /\ d = c /\ used'[d].approve = approvals[e].by /\ approvals[e].by # NoConn
                       /\ cfg.consumeApprove => approvals'[e] = Closed
      BY <2>6, <2>7 DEF TypeOK
    <3>2. ASSUME NEW d \in Conn, used'[d].approve # NoConn
          PROVE  /\ acted[used'[d].approve] # 0
                 /\ req[used'[d].approve].kind = "approve" /\ req[used'[d].approve].dev = req[d].dev
      <4>1. CASE used'[d].approve = used[d].approve
        BY <3>2, <4>1 DEF HandlerInv, SpendInv
      <4>2. CASE d = c /\ used'[d].approve = approvals[e].by /\ approvals[e].by # NoConn
        <5>1. /\ acted[approvals[e].by] # 0
              /\ req[approvals[e].by].kind = "approve" /\ req[approvals[e].by].dev = e
          BY <2>1, <4>2 DEF HandlerInv, GateInv
        <5> QED
          BY <4>2, <5>1
      <4> QED
        BY <3>1, <4>1, <4>2
    <3>3. ASSUME NEW d \in Conn, used'[d].approve # NoConn, cfg.consumeApprove,
                 NEW f \in Device
          PROVE  used'[d].approve # approvals'[f].by
      <4>1. CASE used'[d].approve = used[d].approve
        BY <2>4, <3>3, <4>1 DEF HandlerInv, SpendInv, Closed
      <4>2. CASE d = c /\ used'[d].approve = approvals[e].by /\ approvals'[e] = Closed
        <5>1. CASE f = e
          BY <3>3, <4>2, <5>1 DEF Closed
        <5>2. CASE f # e
          <6>1. approvals[e].by # NoConn
            BY <3>3, <4>2
          <6>2. req[approvals[e].by].dev = e
            BY <2>1, <6>1 DEF HandlerInv, GateInv
          <6>3. approvals[f].by # NoConn => req[approvals[f].by].dev = f
            BY DEF HandlerInv, GateInv
          <6>4. approvals'[f].by # NoConn => approvals'[f].by = approvals[f].by
            BY <2>4 DEF Closed
          <6> HIDE DEF e
          <6> QED
            BY <4>2, <5>2, <6>1, <6>2, <6>3, <6>4
        <5> QED
          BY <5>1, <5>2
      <4> QED
        BY <3>1, <3>3, <4>1, <4>2
    <3>4. OneInjectionPerApproval'
      <4>1. ASSUME NEW d \in Conn, NEW f \in Conn, used'[d].approve # NoConn,
                   cfg.consumeApprove, used'[f].approve = used'[d].approve
            PROVE  d = f
        <5>1. CASE used'[d].approve = used[d].approve /\ used'[f].approve = used[f].approve
          BY <4>1, <5>1 DEF HandlerInv, SpendInv, OneInjectionPerApproval
        <5>2. CASE d = c /\ used'[d].approve = approvals[e].by /\ used'[f].approve = used[f].approve
          <6>1. CASE f = c
            BY <5>2, <6>1
          <6>2. CASE f # c
            BY <2>1, <4>1, <5>2 DEF HandlerInv, SpendInv
          <6> QED
            BY <6>1, <6>2
        <5>3. CASE f = c /\ used'[f].approve = approvals[e].by /\ used'[d].approve = used[d].approve
          BY <2>1, <4>1, <5>3 DEF HandlerInv, SpendInv
        <5> QED
          BY <3>1, <5>1, <5>2, <5>3
      <4> QED
        BY <2>3, <3>2, <4>1 DEF OneInjectionPerApproval
    <3>5. OneInjectionPerArm'
      BY <2>3, <3>1 DEF HandlerInv, SpendInv, OneInjectionPerArm
    <3> QED
      BY <2>3, <3>1, <3>2, <3>3, <3>4, <3>5 DEF HandlerInv, SpendInv
  <2> QED
    BY <2>5, <2>8, <2>9, <2>10 DEF HandlerInv, PlaceInv
<1>10. ASSUME NEW c \in Conn, PassArm(c) PROVE HandlerInv'
  <2>1. /\ pc[c] = "armed" /\ injectMu = c /\ used[c].arm = NoConn /\ typed[c] = {}
        /\ cfg.twoMan => used[c].approve # NoConn
        /\ \A d \in Conn \ {c} : pc'[d] = pc[d] /\ used'[d] = used[d]
        /\ UNCHANGED <<cfg, approvals, injectMu, req, acted, typed>>
    <3>1. pc[c] = "armed"
      BY <1>10 DEF PassArm
    <3>2. UNCHANGED <<cfg, approvals, injectMu, req, acted, typed>>
          /\ \A d \in Conn \ {c} : pc'[d] = pc[d] /\ used'[d] = used[d]
      BY <1>10 DEF PassArm, Goto, Block, TypeOK
    <3> QED
      BY <3>1, <3>2 DEF HandlerInv, PlaceInv, Place, LockInv, UnderMutex
  <2>2. \/ pc'[c] \in Over /\ used'[c] = used[c] /\ armGate' = Closed
        \/ /\ pc'[c] = "inject" /\ used'[c] = [used[c] EXCEPT !.arm = armGate.by]
           /\ armGate.by # NoConn
           /\ armGate' = IF cfg.consumeArm THEN Closed ELSE armGate
    <3>1. CASE clock > armGate.until
      BY <1>10, <3>1 DEF PassArm, Block, Goto, Over, TypeOK
    <3>2. CASE ~(clock > armGate.until)
      <4>1. armGate.until # 0
        BY <3>2 DEF TypeOK, Gate, ApprovalGate
      <4> QED
        BY <1>10, <3>2, <4>1 DEF PassArm, Goto, TypeOK, HandlerInv, GateInv
    <3> QED
      BY <3>1, <3>2
  <2>3. armGate' = Closed \/ armGate' = armGate
    BY <2>2
  <2>4. LockInv'
    BY <2>1, <2>2 DEF HandlerInv, LockInv, UnderMutex, Over
  <2>5. GateInv'
    BY <2>1, <2>3 DEF HandlerInv, GateInv, Closed
  <2>6. ASSUME NEW d \in Conn PROVE Place(d)'
    <3>1. CASE d = c
      BY <2>1, <2>2, <3>1 DEF Place, Over, TypeOK
    <3>2. CASE d # c
      BY <2>1, <3>2 DEF HandlerInv, PlaceInv, Place
    <3> QED
      BY <3>1, <3>2
  <2>7. SpendInv'
    <3>1. ASSUME NEW d \in Conn
          PROVE  /\ used'[d].approve = used[d].approve
                 /\ \/ used'[d].arm = used[d].arm
                    \/ /\ d = c /\ used'[d].arm = armGate.by /\ armGate.by # NoConn
                       /\ cfg.consumeArm => armGate' = Closed
      BY <2>1, <2>2 DEF TypeOK
    <3>2. ASSUME NEW d \in Conn, used'[d].arm # NoConn PROVE acted[used'[d].arm] # 0
      BY <3>1, <3>2 DEF HandlerInv, SpendInv, GateInv
    <3>3. ASSUME NEW d \in Conn, used'[d].arm # NoConn, cfg.consumeArm
          PROVE  used'[d].arm # armGate'.by
      BY <2>3, <3>1, <3>3 DEF HandlerInv, SpendInv, Closed
    <3>4. OneInjectionPerArm'
      <4>1. ASSUME NEW d \in Conn, NEW f \in Conn, cfg.consumeArm,
                   used'[d].arm # NoConn, used'[f].arm = used'[d].arm
            PROVE  d = f
        <5>1. CASE used'[d].arm = used[d].arm /\ used'[f].arm = used[f].arm
          BY <4>1, <5>1 DEF HandlerInv, SpendInv, OneInjectionPerArm
        <5>2. CASE d = c /\ used'[d].arm = armGate.by /\ used'[f].arm = used[f].arm
          BY <4>1, <5>2 DEF HandlerInv, SpendInv
        <5>3. CASE f = c /\ used'[f].arm = armGate.by /\ used'[d].arm = used[d].arm
          BY <4>1, <5>3 DEF HandlerInv, SpendInv
        <5> QED
          BY <3>1, <5>1, <5>2, <5>3
      <4> QED
        BY <2>1, <4>1 DEF OneInjectionPerArm
    <3>5. OneInjectionPerApproval'
      BY <2>1, <3>1 DEF HandlerInv, SpendInv, OneInjectionPerApproval
    <3>6. ASSUME NEW d \in Conn, used'[d].approve # NoConn
          PROVE  /\ acted[used'[d].approve] # 0
                 /\ req[used'[d].approve].kind = "approve" /\ req[used'[d].approve].dev = req[d].dev
                 /\ cfg.consumeApprove => \A f \in Device : used'[d].approve # approvals[f].by
      BY <3>1, <3>6 DEF HandlerInv, SpendInv
    <3> QED
      BY <2>1, <3>2, <3>3, <3>4, <3>5, <3>6 DEF SpendInv
  <2> QED
    BY <2>4, <2>5, <2>6, <2>7 DEF HandlerInv, PlaceInv
<1>11. ASSUME NEW c \in Conn, StartInject(c) \/ TypeInto(c) PROVE HandlerInv'
  <2>1. /\ pc[c] \in {"inject", "injecting"} /\ pc'[c] = "injecting"
        /\ \A d \in Conn \ {c} : pc'[d] = pc[d] /\ typed'[d] = typed[d]
        /\ UNCHANGED <<cfg, armGate, approvals, injectMu, req, used, acted>>
    BY <1>11 DEF StartInject, TypeInto, Goto, TypeOK
  <2>2. LockInv'
    BY <2>1 DEF HandlerInv, LockInv, UnderMutex
  <2>3. ASSUME NEW d \in Conn PROVE Place(d)'
    BY <2>1 DEF HandlerInv, PlaceInv, Place
  <2> QED
    BY <2>1, <2>2, <2>3, GrantsFrame DEF HandlerInv, PlaceInv
<1>12. ASSUME NEW c \in Conn, NEW reason \in Reason, FinishInject(c, reason) PROVE HandlerInv'
  BY <1>12, LocalStep DEF FinishInject, Settle, Goto, Over, TypeOK
<1>13. ASSUME NEW c \in Conn, FailInject(c) PROVE HandlerInv'
  BY <1>13, LocalStep DEF FailInject, Block, Goto, Over, TypeOK
<1>14. ASSUME NEW c \in Conn, NEW delivered \in BOOLEAN, Respond(c, delivered) PROVE HandlerInv'
  <2>1. /\ pc[c] = "respond" /\ \A d \in Conn \ {c} : pc'[d] = pc[d]
        /\ pc'[c] = "done" \/ (pc'[c] = "unlock" /\ injectMu = c)
        /\ UNCHANGED <<cfg, armGate, approvals, injectMu, req, used, acted, typed>>
    BY <1>14 DEF Respond, Goto, TypeOK
  <2>2. LockInv'
    BY <2>1 DEF HandlerInv, LockInv, UnderMutex
  <2>3. ASSUME NEW d \in Conn PROVE Place(d)'
    BY <2>1 DEF HandlerInv, PlaceInv, Place
  <2> QED
    BY <2>1, <2>2, <2>3, GrantsFrame DEF HandlerInv, PlaceInv
<1>15. ASSUME NEW c \in Conn, Unlock(c) PROVE HandlerInv'
  <2>1. /\ pc[c] = "unlock" /\ pc'[c] = "done" /\ \A d \in Conn \ {c} : pc'[d] = pc[d]
        /\ UNCHANGED <<cfg, armGate, approvals, req, used, acted, typed>>
    BY <1>15 DEF Unlock, Goto, TypeOK
  <2>2. \A d \in Conn \ {c} : pc[d] \notin UnderMutex
    BY <2>1 DEF HandlerInv, LockInv, UnderMutex
  <2>3. LockInv'
    BY <2>1, <2>2 DEF LockInv, UnderMutex
  <2>4. ASSUME NEW d \in Conn PROVE Place(d)'
    BY <2>1 DEF HandlerInv, PlaceInv, Place
  <2> QED
    BY <2>1, <2>3, <2>4, GrantsFrame DEF HandlerInv, PlaceInv
<1>16. CASE Tick \/ MoveFocus \/ UNCHANGED vars
  <2>1. UNCHANGED <<cfg, armGate, approvals, injectMu, pc, req, used, acted, typed>>
    BY <1>16 DEF Tick, MoveFocus, vars
  <2>2. LockInv' /\ PlaceInv'
    BY <2>1 DEF HandlerInv, LockInv, PlaceInv, Place
  <2> QED
    BY <2>1, <2>2, GrantsFrame DEF HandlerInv
<1> QED
  BY <1>1, <1>2, <1>3, <1>4, <1>5, <1>6, <1>7, <1>8, <1>9, <1>10, <1>11, <1>12, <1>13,
     <1>14, <1>15, <1>16
  DEF Next, Handle

\* The inductive invariant holds in every state the daemon reaches.
THEOREM HandlerInvariant == Spec => []HandlerInv
<1>1. Init => HandlerInv
  <2>1. Init => TypeOK
    BY HandlerAssumption
    DEF Init, TypeOK, Serves, Closed, Gate, ApprovalGate, NoRequest, NoAnswer, NoReply, Ans, Answer, Status, Reason, Label
  <2>2. Init => LockInv /\ GateInv
    BY HandlerAssumption DEF Init, LockInv, GateInv, UnderMutex, Closed
  <2>3. Init => PlaceInv /\ SpendInv
    BY HandlerAssumption
    DEF Init, PlaceInv, Place, SpendInv, OneInjectionPerArm, OneInjectionPerApproval
  <2> QED
    BY <2>1, <2>2, <2>3 DEF HandlerInv
<1> QED
  BY <1>1, StepHandler, PTL DEF Spec

\* No two connections are between the gates and the end of their injection.
THEOREM Exclusive == Spec => []InjectionsExclusive
<1>1. HandlerInv => InjectionsExclusive
  BY DEF HandlerInv, LockInv, InjectionsExclusive
<1> QED
  BY <1>1, HandlerInvariant, PTL

\* However many connections race, an arm request is used once.
THEOREM ArmUsedOnce == Spec => []OneInjectionPerArm
<1>1. HandlerInv => OneInjectionPerArm
  BY DEF HandlerInv, SpendInv
<1> QED
  BY <1>1, HandlerInvariant, PTL

\* However many connections race, an approval is used once and only by the
\* device that gave it.
THEOREM ApprovalUsedOnce == Spec => []OneInjectionPerApproval
<1>1. HandlerInv => OneInjectionPerApproval
  BY DEF HandlerInv, SpendInv
<1> QED
  BY <1>1, HandlerInvariant, PTL

-----------------------------------------------------------------------------
\* Labels from the look at the focus to the end of the injection.
Checked == {"lock", "twoman", "armed", "inject", "injecting"}

\* The user stays in a window while a request is between the two.
Stays == focus' # focus => \A c \in Conn : pc[c] \notin Checked

\* Who has passed the target check may type where the focus is, and all that was typed
\* went into windows that may be typed into.
TargetInv ==
  /\ \A c \in Conn : pc[c] \in Checked => PolicyAllows(focus)
  /\ InjectsIntoAllowedTarget

\* A step without a key stroke that leaves the focus alone and takes nobody past the check.
LEMMA TargetFrame ==
  ASSUME TargetInv, UNCHANGED <<cfg, focus, typed>>,
         \A c \in Conn : pc'[c] \in Checked => pc[c] \in Checked \/ PolicyAllows(focus)
  PROVE  TargetInv'
  BY DEF TargetInv, PolicyAllows, InjectsIntoAllowedTarget

\* Every step but a change of focus at the wrong time preserves it.
LEMMA StepTarget == TypeOK /\ TargetInv /\ [Next /\ Stays]_vars => TargetInv'
<1> SUFFICES ASSUME TypeOK, TargetInv, [Next /\ Stays]_vars PROVE TargetInv'
  OBVIOUS
<1> USE DEF environment, gates, history
<1>1. ASSUME NEW c \in Conn, CheckTarget(c) PROVE TargetInv'
  <2>1. UNCHANGED <<cfg, focus, typed>>
        /\ \A d \in Conn : pc'[d] \in Checked => pc[d] \in Checked \/ PolicyAllows(focus)
    BY <1>1 DEF CheckTarget, Goto, Block, Checked, TypeOK
  <2> QED
    BY <2>1, TargetFrame
<1>2. ASSUME NEW c \in Conn, TypeInto(c) PROVE TargetInv'
  <2>1. /\ UNCHANGED <<cfg, focus, pc>> /\ pc[c] \in Checked
        /\ \A d \in Conn : typed'[d] \subseteq typed[d] \cup {focus}
    BY <1>2 DEF TypeInto, Checked, TypeOK
  <2>2. cfg.policy => focus \in AllowedTarget
    BY <2>1 DEF TargetInv, PolicyAllows
  <2>3. InjectsIntoAllowedTarget'
    BY <2>1, <2>2 DEF TargetInv, InjectsIntoAllowedTarget
  <2> QED
    BY <2>1, <2>3 DEF TargetInv, PolicyAllows
<1>3. ASSUME NEW c \in Conn, PassTwoMan(c) \/ PassArm(c) \/ LockInject(c) \/ StartInject(c)
      PROVE  TargetInv'
  <2>1. UNCHANGED <<cfg, focus, typed>> /\ \A d \in Conn : pc'[d] \in Checked => pc[d] \in Checked
    BY <1>3 DEF PassTwoMan, PassArm, LockInject, StartInject, Goto, Block, Checked, TypeOK
  <2> QED
    BY <2>1, TargetFrame
<1>4. ASSUME NEW c \in Conn,
             \/ \E r \in Request : Receive(c, r)
             \/ ValidateText(c) \/ \E ok \in BOOLEAN : SetClipboard(c, ok)
             \/ Arm(c) \/ Disarm(c) \/ Approve(c) \/ FailInject(c)
             \/ \E reason \in Reason : FinishInject(c, reason)
             \/ (\E delivered \in BOOLEAN : Respond(c, delivered)) \/ Unlock(c)
      PROVE  TargetInv'
  <2>1. UNCHANGED <<cfg, focus, typed>> /\ \A d \in Conn : pc'[d] \in Checked => pc[d] \in Checked
    BY <1>4
    DEF Receive, ValidateText, SetClipboard, Arm, Disarm, Approve, FailInject, FinishInject,
        Respond, Unlock, Settle, Goto, Block, Checked, TypeOK
  <2> QED
    BY <2>1, TargetFrame
<1>5. CASE Tick \/ UNCHANGED vars
  BY <1>5, TargetFrame DEF Tick, vars
<1>6. ASSUME MoveFocus, Stays PROVE TargetInv'
  BY <1>6 DEF MoveFocus, Stays, TargetInv, InjectsIntoAllowedTarget
<1> QED
  BY <1>1, <1>2, <1>3, <1>4, <1>5, <1>6 DEF Next, Handle

\* If the user stays in a window from a request's target check to the last key stroke of its
\* injection, no text goes into a window the policy forbids. Both halves are needed: the
\* check comes before the wait for the mutex, and no key stroke is checked.
THEOREM SteadyFocus == Spec /\ [][Stays]_vars => []InjectsIntoAllowedTarget
<1>1. Init => TargetInv
  BY DEF Init, TargetInv, InjectsIntoAllowedTarget, Checked
<1>2. TypeOK /\ TargetInv /\ [Next]_vars /\ [Stays]_vars => TargetInv'
  BY StepTarget
<1>3. TargetInv => InjectsIntoAllowedTarget
  BY DEF TargetInv
<1> QED
  BY <1>1, <1>2, <1>3, TypeCorrect, PTL DEF Spec
=============================================================================
