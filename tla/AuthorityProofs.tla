---------------------------- MODULE AuthorityProofs ----------------------------
(***************************************************************************)
(* MsgHandler implements InjectionAuthority, its replies are truthful and  *)
(* its gates are honoured, whatever the constants.                         *)
(***************************************************************************)
EXTENDS MsgHandlerProofs

\* An answer has the status it was made with.
LEMMA AnsStatus ==
  ASSUME NEW status \in Status, NEW reason \in Reason
  PROVE  Ans(status, reason) \in Answer /\ Ans(status, reason).status = status
  BY DEF Ans, Answer

\* A line that was not delivered tells nothing.
LEMMA UndeliveredIsNone == Undelivered \notin Answer /\ NoReply \notin Answer
  BY DEF Undelivered, NoReply, Answer, Status

-----------------------------------------------------------------------------
\* One goroutine moves: the others stay as honest as they were.
LEMMA OthersHonest ==
  ASSUME AnswerInv, NEW c \in Conn, Honest(c)', cfg' = cfg,
         \A d \in Conn \ {c} : /\ pc'[d] = pc[d] /\ req'[d] = req[d] /\ pending'[d] = pending[d]
                               /\ reply'[d] = reply[d] /\ used'[d] = used[d]
                               /\ typed'[d] = typed[d]
  PROVE  AnswerInv'
  BY DEF AnswerInv, Honest, Truthful

\* Every step leaves every settled answer truthful.
LEMMA StepAnswer == HandlerInv /\ AnswerInv /\ [Next]_vars => AnswerInv'
<1> SUFFICES ASSUME HandlerInv, AnswerInv, [Next]_vars PROVE AnswerInv'
  OBVIOUS
<1> USE HandlerAssumption DEF environment, gates, history
<1>0. TypeOK /\ \A c \in Conn : Honest(c) /\ Place(c)
  BY DEF HandlerInv, AnswerInv, PlaceInv
<1>1. ASSUME NEW c \in Conn, NEW r \in Request, Receive(c, r) PROVE AnswerInv'
  <2>1. /\ pc[c] = "idle" /\ reply'[c] = reply[c] /\ req'[c] = r
        /\ \/ pc'[c] \in {"arm", "disarm", "approve", "validate"}
           \/ r.kind # "inject" /\ pc'[c] = "respond"
    BY <1>0, <1>1 DEF Receive, Settle, Goto, TypeOK
  <2>2. Honest(c)'
    BY <1>0, <2>1 DEF Honest
  <2> QED
    BY <1>0, <1>1, <2>2, OthersHonest DEF Receive, Settle, Goto, TypeOK
<1>2. ASSUME NEW c \in Conn, ValidateText(c) \/ CheckTarget(c) PROVE AnswerInv'
  <2>1. /\ pc[c] \in {"validate", "policy"} /\ UNCHANGED <<cfg, req, reply, used, typed>>
        /\ \/ pc'[c] \in {"policy", "lock"}
           \/ pc'[c] \in {"clipboard", "respond"} /\ pending'[c].status = "BadRequest"
        /\ \A d \in Conn \ {c} : pc'[d] = pc[d] /\ pending'[d] = pending[d]
    BY <1>0, <1>2 DEF ValidateText, CheckTarget, Block, Goto, Ans, TypeOK
  <2>2. Honest(c)'
    BY <1>0, <2>1 DEF Honest, Truthful, Place
  <2> QED
    BY <2>1, <2>2, OthersHonest
<1>3. ASSUME NEW c \in Conn, NEW ok \in BOOLEAN, SetClipboard(c, ok) PROVE AnswerInv'
  <2>1. /\ pc[c] = "clipboard" /\ UNCHANGED <<cfg, req, reply, used, typed>>
        /\ pc'[c] = "respond"
        /\ pending'[c] = pending[c] \/ pending'[c].status = "OKClipboard"
        /\ \A d \in Conn \ {c} : pc'[d] = pc[d] /\ pending'[d] = pending[d]
    BY <1>0, <1>3 DEF SetClipboard, Settle, Goto, Ans, TypeOK
  <2>2. Honest(c)'
    BY <1>0, <2>1 DEF Honest, Truthful
  <2> QED
    BY <2>1, <2>2, OthersHonest
<1>4. ASSUME NEW c \in Conn, Arm(c) \/ Disarm(c) \/ Approve(c) PROVE AnswerInv'
  <2>1. /\ pc[c] \in {"arm", "disarm", "approve"} /\ UNCHANGED <<cfg, req, reply, used, typed>>
        /\ pc'[c] = "respond"
        /\ \A d \in Conn \ {c} : pc'[d] = pc[d] /\ pending'[d] = pending[d]
    BY <1>0, <1>4 DEF Arm, Disarm, Approve, Settle, Goto, TypeOK
  <2>2. req[c].kind # "inject"
    BY <1>0, <2>1 DEF TypeOK, Serves
  <2>3. Honest(c)'
    BY <1>0, <2>1, <2>2 DEF Honest
  <2> QED
    BY <2>1, <2>3, OthersHonest
<1>5. ASSUME NEW c \in Conn, LockInject(c) PROVE AnswerInv'
  <2>1. /\ pc[c] = "lock" /\ pc'[c] = "twoman"
        /\ UNCHANGED <<cfg, req, pending, reply, used, typed>>
        /\ \A d \in Conn \ {c} : pc'[d] = pc[d]
    BY <1>0, <1>5 DEF LockInject, Goto, TypeOK
  <2>2. Honest(c)'
    BY <1>0, <2>1 DEF Honest
  <2> QED
    BY <2>1, <2>2, OthersHonest
<1>6. ASSUME NEW c \in Conn, PassTwoMan(c) PROVE AnswerInv'
  <2>1. /\ pc[c] = "twoman" /\ UNCHANGED <<cfg, req, reply, typed>>
        /\ \/ pc'[c] = "armed"
           \/ /\ pc'[c] \in {"clipboard", "respond"} /\ pending'[c].status = "NeedsApprove"
              /\ used' = used
        /\ \A d \in Conn \ {c} : pc'[d] = pc[d] /\ pending'[d] = pending[d] /\ used'[d] = used[d]
    BY <1>0, <1>6 DEF PassTwoMan, Block, Goto, Ans, TypeOK
  <2>2. Honest(c)'
    BY <1>0, <2>1 DEF Honest, Truthful, Place
  <2> QED
    BY <2>1, <2>2, OthersHonest
<1>7. ASSUME NEW c \in Conn, PassArm(c) PROVE AnswerInv'
  <2>1. /\ pc[c] = "armed" /\ UNCHANGED <<cfg, req, reply, typed>>
        /\ \/ pc'[c] = "inject"
           \/ /\ pc'[c] \in {"clipboard", "respond"} /\ pending'[c].status = "NotArmed"
              /\ used' = used
        /\ \A d \in Conn \ {c} : pc'[d] = pc[d] /\ pending'[d] = pending[d] /\ used'[d] = used[d]
    BY <1>0, <1>7 DEF PassArm, Block, Goto, Ans, TypeOK
  <2>2. Honest(c)'
    BY <1>0, <2>1 DEF Honest, Truthful, Place
  <2> QED
    BY <2>1, <2>2, OthersHonest
<1>8. ASSUME NEW c \in Conn, StartInject(c) \/ TypeInto(c) PROVE AnswerInv'
  <2>1. /\ pc[c] \in {"inject", "injecting"} /\ pc'[c] = "injecting"
        /\ UNCHANGED <<cfg, req, pending, reply, used>>
        /\ \A d \in Conn \ {c} : pc'[d] = pc[d] /\ typed'[d] = typed[d]
    BY <1>0, <1>8 DEF StartInject, TypeInto, Goto, TypeOK
  <2>2. Honest(c)'
    BY <1>0, <2>1 DEF Honest
  <2> QED
    BY <2>1, <2>2, OthersHonest
<1>9. ASSUME NEW c \in Conn, NEW reason \in Reason, FinishInject(c, reason) PROVE AnswerInv'
  <2>1. /\ pc[c] = "injecting" /\ pc'[c] = "respond" /\ pending'[c].status = "OK"
        /\ UNCHANGED <<cfg, req, reply, used, typed>>
        /\ \A d \in Conn \ {c} : pc'[d] = pc[d] /\ pending'[d] = pending[d]
    BY <1>0, <1>9 DEF FinishInject, Settle, Goto, Ans, TypeOK
  <2>2. Honest(c)'
    BY <1>0, <2>1 DEF Honest, Truthful, Place
  <2> QED
    BY <2>1, <2>2, OthersHonest
<1>10. ASSUME NEW c \in Conn, FailInject(c) PROVE AnswerInv'
  <2>1. /\ pc[c] \in {"inject", "injecting"} /\ pc'[c] \in {"clipboard", "respond"}
        /\ pending'[c].status = "Internal"
        /\ UNCHANGED <<cfg, req, reply, used, typed>>
        /\ \A d \in Conn \ {c} : pc'[d] = pc[d] /\ pending'[d] = pending[d]
    BY <1>0, <1>10 DEF FailInject, Block, Goto, Ans, TypeOK
  <2>2. Honest(c)'
    BY <1>0, <2>1 DEF Honest, Truthful, Place
  <2> QED
    BY <2>1, <2>2, OthersHonest
<1>11. ASSUME NEW c \in Conn, NEW delivered \in BOOLEAN, Respond(c, delivered) PROVE AnswerInv'
  <2>1. /\ pc[c] = "respond" /\ pc'[c] \in {"unlock", "done"}
        /\ reply'[c] = Undelivered \/ reply'[c].status = pending[c].status
        /\ UNCHANGED <<cfg, req, pending, used, typed>>
        /\ \A d \in Conn \ {c} : pc'[d] = pc[d] /\ reply'[d] = reply[d]
    BY <1>0, <1>11 DEF Respond, Goto, Ans, TypeOK
  <2>2. Honest(c)'
    BY <1>0, <2>1 DEF Honest, Truthful
  <2> QED
    BY <2>1, <2>2, OthersHonest
<1>12. ASSUME NEW c \in Conn, Unlock(c) PROVE AnswerInv'
  <2>1. /\ pc[c] = "unlock" /\ pc'[c] = "done"
        /\ UNCHANGED <<cfg, req, pending, reply, used, typed>>
        /\ \A d \in Conn \ {c} : pc'[d] = pc[d]
    BY <1>0, <1>12 DEF Unlock, Goto, TypeOK
  <2>2. Honest(c)'
    BY <1>0, <2>1 DEF Honest, Truthful
  <2> QED
    BY <2>1, <2>2, OthersHonest
<1>13. CASE Tick \/ MoveFocus \/ UNCHANGED vars
  <2>1. UNCHANGED <<cfg, pc, req, pending, reply, used, typed>>
    BY <1>13 DEF Tick, MoveFocus, vars
  <2> QED
    BY <2>1 DEF AnswerInv, Honest, Truthful
<1> QED
  BY <1>1, <1>2, <1>3, <1>4, <1>5, <1>6, <1>7, <1>8, <1>9, <1>10, <1>11, <1>12, <1>13
  DEF Next, Handle

\* Every settled answer is truthful in every state the daemon reaches.
LEMMA AnswerInvariant == Spec => []AnswerInv
<1>1. Init => AnswerInv
  BY DEF Init, AnswerInv, Honest, NoRequest
<1>2. HandlerInv /\ AnswerInv /\ [Next]_vars => AnswerInv'
  BY StepAnswer
<1> QED
  BY <1>1, <1>2, HandlerInvariant, PTL DEF Spec

\* A client told OK, or of a failed injection, has spent its grants; one told of a gate or
\* of its text has had no character typed.
THEOREM Truthfulness == Spec => []ReplyTruthful
<1>1. AnswerInv => ReplyTruthful
  BY UndeliveredIsNone DEF AnswerInv, Honest, ReplyTruthful
<1> QED
  BY <1>1, AnswerInvariant, PTL

-----------------------------------------------------------------------------
\* Approvals stay or end, and where an instant is touched its request opened none.
LEMMA ApprovalsFrame ==
  ASSUME HandlerInv, ClockInv, cfg' = cfg,
         \A d \in Device : approvals'[d] = approvals[d] \/ approvals'[d] = Closed,
         \A d \in Conn : acted'[d] = acted[d] \/ acted[d] = 0
  PROVE  ApprovalsTimed'
<1> SUFFICES ASSUME NEW d \in Device, approvals'[d].by # NoConn
             PROVE  approvals'[d].until = acted'[approvals'[d].by] + ApproveWindow'
  BY DEF ApprovalsTimed
<1>1. approvals'[d] = approvals[d] /\ approvals[d].by \in Conn
  BY DEF Closed, HandlerInv, TypeOK, Gate, ApprovalGate
<1>2. acted'[approvals[d].by] = acted[approvals[d].by]
  BY <1>1 DEF HandlerInv, GateInv
<1>3. approvals[d].until = acted[approvals[d].by] + ApproveWindow
  BY <1>1 DEF ClockInv, ApprovalsTimed
<1>4. ApproveWindow' = ApproveWindow
  BY DEF ApproveWindow
<1> QED
  BY <1>1, <1>2, <1>3, <1>4

\* A step that does not arm: it leaves the arm gate or closes it, and where it
\* touches a request or an instant, that request had not taken effect before.
LEMMA ClockFrame ==
  ASSUME HandlerInv, ClockInv, TypeOK', ApprovalsTimed', cfg' = cfg, clock' >= clock,
         armGate' = armGate \/ armGate' = Closed,
         \A d \in Conn :
           \/ acted'[d] = acted[d] /\ req'[d] = req[d]
           \/ /\ acted[d] = 0 /\ acted'[d] <= clock
              /\ acted'[d] = 0 \/ req'[d].kind # "disarm"
  PROVE  ClockInv'
<1>0. /\ clock \in Nat /\ clock' \in Nat
      /\ \A d \in Conn : acted[d] \in Nat /\ acted'[d] \in Nat /\ acted[d] <= clock
  BY HandlerAssumption DEF HandlerInv, TypeOK, ClockInv
<1>1. \A d \in Conn : acted'[d] <= clock'
  BY <1>0
<1>2. ASSUME armGate'.by # NoConn
      PROVE  (/\ armGate.until = acted[armGate.by] + ArmedFor(armGate.by)
              /\ ~DisarmedSince(acted[armGate.by]))'
  <2>1. armGate' = armGate /\ armGate.by \in Conn
    BY <1>2 DEF Closed, HandlerInv, TypeOK, Gate, ApprovalGate
  <2>2. acted[armGate.by] # 0
    BY <1>2, <2>1 DEF HandlerInv, GateInv
  <2>3. acted'[armGate.by] = acted[armGate.by] /\ req'[armGate.by] = req[armGate.by]
    BY <2>1, <2>2
  <2>4. /\ armGate.until = acted[armGate.by] + ArmedFor(armGate.by)
        /\ ~DisarmedSince(acted[armGate.by])
    BY <1>2, <2>1 DEF ClockInv, ArmTimed
  <2>5. (armGate.until = acted[armGate.by] + ArmedFor(armGate.by))'
    BY <2>1, <2>3, <2>4 DEF ArmedFor
  <2>6. ASSUME NEW d \in Conn, req'[d].kind = "disarm", acted'[d] > acted[armGate.by]
        PROVE  FALSE
    <3>1. acted[d] = acted'[d] /\ req[d] = req'[d]
      BY <1>0, <2>1, <2>6
    <3> QED
      BY <2>4, <2>6, <3>1 DEF DisarmedSince
  <2> QED
    BY <2>1, <2>3, <2>5, <2>6 DEF DisarmedSince
<1> QED
  BY <1>1, <1>2 DEF ClockInv, ArmTimed

\* Every step keeps what the gates know of their time.
LEMMA StepClock == HandlerInv /\ ClockInv /\ [Next]_vars => ClockInv'
<1> SUFFICES ASSUME HandlerInv, ClockInv, TypeOK, TypeOK', [Next]_vars PROVE ClockInv'
  BY StepType DEF HandlerInv
<1> USE DEF environment, gates, history
<1>0. clock \in Nat /\ \A d \in Conn : acted[d] \in Nat /\ acted[d] <= clock
  BY HandlerAssumption DEF TypeOK, ClockInv
<1>1. ASSUME NEW c \in Conn, NEW r \in Request, Receive(c, r) PROVE ClockInv'
  <2>1. acted[c] = 0
    BY <1>1 DEF Receive, HandlerInv, PlaceInv, Place
  <2>2. UNCHANGED <<cfg, clock, armGate, approvals, acted>>
        /\ \A d \in Conn \ {c} : req'[d] = req[d]
    BY <1>1 DEF Receive, TypeOK
  <2> QED
    BY <1>0, <2>1, <2>2, ApprovalsFrame, ClockFrame
<1>2. ASSUME NEW c \in Conn, Arm(c) PROVE ClockInv'
  <2>1. /\ armGate' = [until |-> clock + ArmedFor(c), by |-> c]
        /\ acted' = [acted EXCEPT ![c] = clock] /\ UNCHANGED <<cfg, clock, req, approvals>>
    BY <1>2 DEF Arm, ArmedFor
  <2>2. acted'[c] = clock /\ \A d \in Conn : acted'[d] <= clock
    BY <1>0, <2>1 DEF TypeOK
  <2>3. (armGate.until = acted[c] + ArmedFor(c))'
    BY <2>1, <2>2 DEF ArmedFor
  <2>4. ~DisarmedSince(acted[c])'
    BY <1>0, <2>2, HandlerAssumption DEF DisarmedSince, TypeOK
  <2>5. \A d \in Conn : acted'[d] = acted[d] \/ acted[d] = 0
    BY <1>2, <2>1 DEF Arm, HandlerInv, PlaceInv, Place, TypeOK
  <2>6. ApprovalsTimed'
    BY <2>1, <2>5, ApprovalsFrame
  <2> QED
    BY <2>1, <2>2, <2>3, <2>4, <2>6 DEF ClockInv, ArmTimed
<1>3. ASSUME NEW c \in Conn, Disarm(c) PROVE ClockInv'
  <2>1. /\ armGate' = Closed /\ acted' = [acted EXCEPT ![c] = clock]
        /\ UNCHANGED <<cfg, clock, approvals>> /\ acted[c] = 0
    BY <1>3 DEF Disarm, HandlerInv, PlaceInv, Place
  <2>2. ApprovalsTimed'
    BY <2>1, ApprovalsFrame DEF TypeOK
  <2> QED
    BY <1>0, <2>1, <2>2 DEF ClockInv, ArmTimed, Closed, TypeOK
<1>4. ASSUME NEW c \in Conn, Approve(c) PROVE ClockInv'
  <2>1. acted[c] = 0 /\ req[c].kind = "approve" /\ req[c].dev \in Device
    BY <1>4, RequestType DEF Approve, HandlerInv, PlaceInv, Place, TypeOK, Serves
  <2>2. /\ acted' = [acted EXCEPT ![c] = clock] \/ acted' = acted
        /\ UNCHANGED <<cfg, clock, armGate, req>>
    BY <1>4 DEF Approve
  <2>3. ApprovalsTimed'
    <3>1. CASE ~cfg.twoMan
      BY <1>4, <3>1, ApprovalsFrame DEF Approve
    <3>2. CASE cfg.twoMan
      <4>1. /\ approvals' = [Unexpired EXCEPT ![req[c].dev] = [until |-> clock + ApproveWindow, by |-> c]]
            /\ acted' = [acted EXCEPT ![c] = clock] /\ ApproveWindow' = ApproveWindow
        BY <1>4, <2>2, <3>2 DEF Approve, ApproveWindow
      <4> SUFFICES ASSUME NEW d \in Device, approvals'[d].by # NoConn
                   PROVE  approvals'[d].until = acted'[approvals'[d].by] + ApproveWindow
        BY <4>1 DEF ApprovalsTimed
      <4>2. CASE d = req[c].dev
        BY <4>1, <4>2, UnexpiredType DEF TypeOK
      <4>3. CASE d # req[c].dev
        <5>1. approvals'[d] = approvals[d] /\ approvals[d].by \in Conn
          BY <4>1, <4>3, UnexpiredType DEF Unexpired, Closed, TypeOK, Gate, ApprovalGate
        <5>2. acted[approvals[d].by] # 0
              /\ approvals[d].until = acted[approvals[d].by] + ApproveWindow
          BY <5>1 DEF HandlerInv, GateInv, ClockInv, ApprovalsTimed
        <5>3. acted'[approvals[d].by] = acted[approvals[d].by]
          BY <2>1, <4>1, <5>1, <5>2 DEF TypeOK
        <5> QED
          BY <5>1, <5>2, <5>3
      <4> QED
        BY <4>2, <4>3
    <3> QED
      BY <3>1, <3>2
  <2> QED
    BY <1>0, <2>1, <2>2, <2>3, ClockFrame DEF TypeOK
<1>5. ASSUME NEW c \in Conn, PassArm(c) PROVE ClockInv'
  <2>1. (armGate' = armGate \/ armGate' = Closed) /\ UNCHANGED <<cfg, clock, req, acted, approvals>>
    BY <1>5 DEF PassArm
  <2> QED
    BY <1>0, <2>1, ApprovalsFrame, ClockFrame
<1>6. ASSUME NEW c \in Conn, PassTwoMan(c) PROVE ClockInv'
  <2>1. UNCHANGED <<cfg, clock, req, acted, armGate>>
    BY <1>6 DEF PassTwoMan
  <2>2. \A d \in Device : approvals'[d] = approvals[d] \/ approvals'[d] = Closed
    BY <1>6 DEF PassTwoMan, Unexpired, Closed, TypeOK
  <2> QED
    BY <1>0, <2>1, <2>2, ApprovalsFrame, ClockFrame
<1>7. ASSUME NEW c \in Conn,
             \/ ValidateText(c) \/ CheckTarget(c) \/ (\E ok \in BOOLEAN : SetClipboard(c, ok))
             \/ LockInject(c) \/ StartInject(c) \/ TypeInto(c) \/ FailInject(c)
             \/ (\E reason \in Reason : FinishInject(c, reason))
             \/ (\E delivered \in BOOLEAN : Respond(c, delivered)) \/ Unlock(c)
      PROVE  ClockInv'
  <2>1. UNCHANGED <<cfg, clock, armGate, approvals, req, acted>>
    BY <1>7 DEF ValidateText, CheckTarget, SetClipboard, LockInject, StartInject, TypeInto,
                FailInject, FinishInject, Respond, Unlock
  <2> QED
    BY <1>0, <2>1, ApprovalsFrame, ClockFrame
<1>8. CASE Tick \/ MoveFocus \/ UNCHANGED vars
  <2>1. UNCHANGED <<cfg, armGate, approvals, req, acted>> /\ clock' >= clock
    BY <1>0, <1>8 DEF Tick, MoveFocus, vars
  <2> QED
    BY <1>0, <2>1, ApprovalsFrame, ClockFrame
<1> QED
  BY <1>1, <1>2, <1>3, <1>4, <1>5, <1>6, <1>7, <1>8 DEF Next, Handle

\* Only the gates take a goroutine away from them.
LEMMA GatesMove ==
  ASSUME TypeOK, [Next]_vars, NEW c \in Conn,
         pc[c] \in {"twoman", "armed"}, pc'[c] # pc[c]
  PROVE  PassTwoMan(c) \/ PassArm(c)
<1>1. ASSUME NEW e \in Conn, NEW r \in Request, Receive(e, r) PROVE FALSE
  BY <1>1 DEF Receive, Settle, Goto, TypeOK
<1>2. ASSUME NEW e \in Conn, ValidateText(e) \/ CheckTarget(e) \/ LockInject(e) PROVE FALSE
  BY <1>2 DEF ValidateText, CheckTarget, LockInject, Block, Goto, TypeOK
<1>3. ASSUME NEW e \in Conn, NEW ok \in BOOLEAN, SetClipboard(e, ok) PROVE FALSE
  BY <1>3 DEF SetClipboard, Settle, Goto, TypeOK
<1>4. ASSUME NEW e \in Conn, Arm(e) \/ Disarm(e) \/ Approve(e) PROVE FALSE
  BY <1>4 DEF Arm, Disarm, Approve, Settle, Goto, TypeOK
<1>5. ASSUME NEW e \in Conn, PassTwoMan(e) \/ PassArm(e) PROVE e = c
  BY <1>5 DEF PassTwoMan, PassArm, Block, Goto, TypeOK
<1>6. ASSUME NEW e \in Conn, StartInject(e) \/ TypeInto(e) \/ Unlock(e) PROVE FALSE
  BY <1>6 DEF StartInject, TypeInto, Unlock, Goto, TypeOK
<1>7. ASSUME NEW e \in Conn, FailInject(e) \/ \E reason \in Reason : FinishInject(e, reason)
      PROVE  FALSE
  BY <1>7 DEF FailInject, FinishInject, Block, Settle, Goto, TypeOK
<1>8. ASSUME NEW e \in Conn, NEW delivered \in BOOLEAN, Respond(e, delivered) PROVE FALSE
  BY <1>8 DEF Respond, Goto, TypeOK
<1>9. ~(Tick \/ MoveFocus \/ UNCHANGED vars)
  BY DEF Tick, MoveFocus, vars
<1> QED
  BY <1>1, <1>2, <1>3, <1>4, <1>5, <1>6, <1>7, <1>8, <1>9 DEF Next, Handle

\* A request passes the two-man gate only within the window of an approval, and comes to
\* inject only through an arm gate that is open for it and not disarmed since.
THEOREM Honoured == Spec => GatesHonoured
<1>1. Init => ClockInv
  BY DEF Init, ClockInv, ApprovalsTimed, ArmTimed, Closed
<1>2. HandlerInv /\ ClockInv /\ [Next]_vars => ClockInv'
  BY StepClock
<1>3. ASSUME HandlerInv, ClockInv, [Next]_vars, NEW c \in Conn PROVE PassesArm(c)
  <2> SUFFICES ASSUME pc[c] = "armed", pc'[c] = "inject" PROVE PassesArm(c)
    BY DEF PassesArm
  <2>1. TypeOK
    BY <1>3 DEF HandlerInv
  <2>2. PassArm(c)
    BY <1>3, <2>1, GatesMove DEF PassTwoMan
  <2>3. ~(clock > armGate.until) /\ used' = [used EXCEPT ![c].arm = armGate.by]
    BY <2>1, <2>2 DEF PassArm, Block, Goto, TypeOK
  <2>4. armGate.until # 0
    BY <2>1, <2>3, HandlerAssumption DEF TypeOK, Gate, ApprovalGate
  <2>5. armGate.by \in Conn /\ armGate.by # NoConn
    BY <1>3, <2>1, <2>4 DEF HandlerInv, GateInv, TypeOK, Gate, ApprovalGate
  <2>6. /\ acted[armGate.by] <= clock
        /\ armGate.until = acted[armGate.by] + ArmedFor(armGate.by)
        /\ ~DisarmedSince(acted[armGate.by])
    BY <1>3, <2>5 DEF ClockInv, ArmTimed
  <2>7. clock <= armGate.until
    BY <2>1, <2>3, HandlerAssumption DEF TypeOK, Gate, ApprovalGate
  <2>8. cfg.twoMan => used[c].approve # NoConn
    BY <1>3 DEF HandlerInv, PlaceInv, Place
  <2>9. used'[c].arm = armGate.by
    BY <2>1, <2>3 DEF TypeOK
  <2> QED
    BY <2>5, <2>6, <2>7, <2>8, <2>9 DEF PassesArm
<1>4. ASSUME HandlerInv, ClockInv, [Next]_vars, NEW c \in Conn PROVE PassesTwoMan(c)
  <2> SUFFICES ASSUME pc[c] = "twoman", pc'[c] = "armed", cfg.twoMan PROVE PassesTwoMan(c)
    BY DEF PassesTwoMan
  <2> DEFINE d == req[c].dev
  <2>1. TypeOK /\ d \in Device
    BY <1>4, RequestType DEF HandlerInv, TypeOK, Serves
  <2>2. PassTwoMan(c)
    BY <1>4, <2>1, GatesMove DEF PassArm
  <2>3. Unexpired[d] # Closed /\ used' = [used EXCEPT ![c].approve = approvals[d].by]
    BY <2>1, <2>2 DEF PassTwoMan, Block, Goto, TypeOK
  <2>4. ~(clock > approvals[d].until) /\ approvals[d] # Closed
    BY <2>1, <2>3 DEF Unexpired
  <2>5. approvals[d].until # 0
    BY <2>1, <2>4, HandlerAssumption DEF TypeOK, Gate, ApprovalGate
  <2>6. approvals[d].by # NoConn /\ approvals[d].by \in Conn
    BY <1>4, <2>1, <2>5 DEF HandlerInv, GateInv, TypeOK, Gate, ApprovalGate
  <2>7. /\ acted[approvals[d].by] <= clock
        /\ approvals[d].until = acted[approvals[d].by] + ApproveWindow
    BY <1>4, <2>1, <2>6 DEF ClockInv, ApprovalsTimed
  <2>8. clock <= approvals[d].until
    BY <2>1, <2>4, HandlerAssumption DEF TypeOK, Gate, ApprovalGate
  <2>9. used'[c].approve = approvals[d].by
    BY <2>1, <2>3 DEF TypeOK
  <2> QED
    BY <2>6, <2>7, <2>8, <2>9 DEF PassesTwoMan
<1>5. HandlerInv /\ ClockInv /\ [Next]_vars
        => [\A c \in Conn : PassesTwoMan(c) /\ PassesArm(c)]_vars
  BY <1>3, <1>4
<1>6. Spec => [][\A c \in Conn : PassesTwoMan(c) /\ PassesArm(c)]_vars
  BY <1>1, <1>2, <1>5, HandlerInvariant, PTL DEF Spec
<1> QED
  BY <1>6 DEF GatesHonoured

-----------------------------------------------------------------------------
\* Approvals of abstract kind: which request opened the gate of each device.
By == [d \in Device |-> approvals[d].by]
Injected == {c \in Conn : used[c].arm # NoConn /\ pc[c] # "inject" /\ ~cfg.wayland}

\* The one that injects is the active one; while none does, nobody is.
LEMMA ActiveIs ==
  ASSUME LockInv
  PROVE  /\ \A c \in Conn : pc[c] = "injecting" => Active = c
         /\ (\A c \in Conn : pc[c] # "injecting") => Active = NoConn
  BY DEF LockInv, UnderMutex, Active

\* A step after which the same connections inject leaves the active one active.
LEMMA ActiveSame ==
  ASSUME LockInv, LockInv',
         \A c \in Conn : pc'[c] = "injecting" <=> pc[c] = "injecting"
  PROVE  Active' = Active
<1>1. CASE \E c \in Conn : pc[c] = "injecting"
  <2>1. PICK c \in Conn : pc[c] = "injecting"
    BY <1>1
  <2>2. Active = c /\ Active' = c
    BY <2>1 DEF LockInv, UnderMutex, Active
  <2> QED
    BY <2>2
<1>2. CASE \A c \in Conn : pc[c] # "injecting"
  BY <1>2 DEF Active
<1> QED
  BY <1>1, <1>2

\* What Authority!vars consists of stays when these do.
LEMMA Invisible ==
  ASSUME UNCHANGED <<cfg, armGate, approvals, used, Granted, Active, Injected>>
  PROVE  UNCHANGED Authority!vars
  BY DEF Authority!vars, Injected

\* The requests that have injected stay the same when none enters or leaves "inject" with
\* an arm grant, and on Wayland.
LEMMA InjectedSame ==
  ASSUME cfg' = cfg,
         \A c \in Conn : \/ cfg.wayland
                         \/ (used'[c].arm # NoConn /\ pc'[c] # "inject")
                              <=> (used[c].arm # NoConn /\ pc[c] # "inject")
  PROVE  Injected' = Injected
  BY DEF Injected

\* The daemon starts with no grant and no injection.
LEMMA InitAuthority == Init => Authority!Init
<1> SUFFICES ASSUME Init PROVE Authority!Init
  OBVIOUS
<1>1. /\ cfg.twoMan \in BOOLEAN /\ cfg.consumeApprove \in BOOLEAN /\ cfg.consumeArm \in BOOLEAN
  BY HandlerAssumption DEF Init, Config
<1>2. Active = NoConn /\ Granted = {} /\ Injected = {}
  BY DEF Init, Active, Granted, Injected
<1>3. armGate.by = NoConn /\ By = [d \in Device |-> NoConn]
  BY DEF Init, Closed, By
<1> QED
  BY <1>1, <1>2, <1>3 DEF Init, Authority!Init, Authority!Nothing, Injected, By

\* Requests whose effects and kinds stay are the grants they were.
LEMMA GrantedSame ==
  ASSUME \A c \in Conn : \/ acted'[c] = acted[c] /\ req'[c] = req[c]
                         \/ acted'[c] = 0 /\ acted[c] = 0
                         \/ /\ req'[c] = req[c] /\ req[c].kind \notin {"arm", "approve"}
  PROVE  Granted' = Granted
  BY DEF Granted

\* Dropping the expired approvals drops the grants of their devices.
LEMMA UnexpiredLapses ==
  ASSUME TypeOK
  PROVE  \E S \in SUBSET Device :
           [d \in Device |-> Unexpired[d].by] = Authority!Lapsed(S)
<1> DEFINE S == {d \in Device : clock > approvals[d].until}
<1>1. \A d \in Device : Unexpired[d].by = IF d \in S THEN NoConn ELSE approvals[d].by
  BY DEF Unexpired, Closed
<1>2. Authority!Lapsed(S) = [d \in Device |-> IF d \in S THEN NoConn ELSE approvals[d].by]
  BY DEF Authority!Lapsed
<1> HIDE DEF S
<1>3. [d \in Device |-> Unexpired[d].by] = Authority!Lapsed(S)
  BY <1>1, <1>2
<1>4. S \in SUBSET Device
  BY DEF S
<1> QED
  BY <1>3, <1>4

\* Every step of the handlers is one of the promise or leaves it as it is.
LEMMA StepAuthority ==
  HandlerInv /\ HandlerInv' /\ AnswerInv /\ [Next]_vars => [Authority!Next]_Authority!vars
<1> SUFFICES ASSUME HandlerInv, HandlerInv', AnswerInv, [Next]_vars
             PROVE  Authority!Next \/ UNCHANGED Authority!vars
  OBVIOUS
<1> USE DEF environment, gates, history
<1>0. /\ TypeOK /\ TypeOK' /\ LockInv /\ LockInv' /\ NoConn \notin Conn
      /\ \A c \in Conn : Place(c) /\ Honest(c)
  BY HandlerAssumption DEF HandlerInv, PlaceInv, AnswerInv
<1>1. ASSUME NEW c \in Conn, NEW r \in Request, Receive(c, r) PROVE UNCHANGED Authority!vars
  <2>1. /\ pc[c] = "idle" /\ acted[c] = 0 /\ pc'[c] \notin {"inject", "injecting"}
        /\ UNCHANGED <<cfg, armGate, approvals, used, acted>>
        /\ \A d \in Conn \ {c} : pc'[d] = pc[d] /\ req'[d] = req[d]
    BY <1>0, <1>1 DEF Receive, Settle, Goto, Place, TypeOK
  <2>2. Granted' = Granted
    BY <2>1, GrantedSame
  <2>3. Active' = Active /\ Injected' = Injected
    BY <1>0, <2>1, ActiveSame, InjectedSame
  <2> QED
    BY <2>1, <2>2, <2>3, Invisible
<1>2. ASSUME NEW c \in Conn,
             \/ ValidateText(c) \/ CheckTarget(c) \/ (\E ok \in BOOLEAN : SetClipboard(c, ok))
             \/ LockInject(c) \/ (\E delivered \in BOOLEAN : Respond(c, delivered)) \/ Unlock(c)
             \/ pc[c] # "injecting" /\ FailInject(c)
      PROVE  UNCHANGED Authority!vars
  <2>1. UNCHANGED <<cfg, armGate, approvals, used, acted, req>>
    BY <1>2 DEF ValidateText, CheckTarget, SetClipboard, LockInject, Respond, Unlock, FailInject
  <2>2. /\ pc[c] # "injecting" /\ pc'[c] # "injecting"
        /\ pc[c] = "inject" => cfg.wayland
        /\ pc'[c] # "inject"
        /\ \A d \in Conn \ {c} : pc'[d] = pc[d]
    BY <1>0, <1>2 DEF ValidateText, CheckTarget, SetClipboard, LockInject, Respond, Unlock,
                      FailInject, Settle, Block, Goto, TypeOK
  <2>3. Granted' = Granted
    BY <2>1, GrantedSame
  <2>4. Active' = Active /\ Injected' = Injected
    BY <1>0, <2>1, <2>2, ActiveSame, InjectedSame
  <2> QED
    BY <2>1, <2>3, <2>4, Invisible
<1>3. ASSUME NEW c \in Conn, Arm(c) PROVE Authority!GrantArm(c)
  <2>1. /\ acted[c] = 0 /\ req[c].kind = "arm" /\ pc[c] = "arm" /\ pc'[c] = "respond"
        /\ armGate'.by = c /\ acted' = [acted EXCEPT ![c] = clock]
        /\ UNCHANGED <<cfg, approvals, used, req>>
        /\ \A d \in Conn \ {c} : pc'[d] = pc[d]
    BY <1>0, <1>3 DEF Arm, Settle, Goto, Place, TypeOK, Serves
  <2>2. clock # 0
    BY <1>0, HandlerAssumption DEF TypeOK
  <2>3. c \notin Granted /\ Granted' = Granted \cup {c}
    BY <1>0, <2>1, <2>2 DEF Granted, TypeOK
  <2>4. Active' = Active /\ Injected' = Injected
    BY <1>0, <2>1, ActiveSame, InjectedSame
  <2> QED
    BY <2>1, <2>3, <2>4 DEF Authority!GrantArm, Injected
<1>4. ASSUME NEW c \in Conn, Disarm(c) PROVE Authority!EndArm
  <2>1. /\ req[c].kind = "disarm" /\ pc[c] = "disarm" /\ pc'[c] = "respond"
        /\ armGate'.by = NoConn /\ acted' = [acted EXCEPT ![c] = clock]
        /\ UNCHANGED <<cfg, approvals, used, req>>
        /\ \A d \in Conn \ {c} : pc'[d] = pc[d]
    BY <1>0, <1>4 DEF Disarm, Settle, Goto, Serves, Closed, TypeOK
  <2>2. Granted' = Granted
    BY <1>0, <2>1, GrantedSame DEF TypeOK
  <2>3. Active' = Active /\ Injected' = Injected
    BY <1>0, <2>1, ActiveSame, InjectedSame
  <2> QED
    BY <2>1, <2>2, <2>3 DEF Authority!EndArm, Injected
<1>5. ASSUME NEW c \in Conn, Approve(c)
      PROVE  Authority!GrantApproval(c) \/ UNCHANGED Authority!vars
  <2>1. /\ acted[c] = 0 /\ req[c].kind = "approve" /\ pc[c] = "approve" /\ pc'[c] = "respond"
        /\ UNCHANGED <<cfg, armGate, used, req>>
        /\ \A d \in Conn \ {c} : pc'[d] = pc[d]
    BY <1>0, <1>5 DEF Approve, Settle, Goto, Place, TypeOK, Serves
  <2>2. Active' = Active /\ Injected' = Injected
    BY <1>0, <2>1, ActiveSame, InjectedSame
  <2>3. CASE cfg.twoMan
    <3> DEFINE e == req[c].dev
    <3>1. e \in Device
      BY <1>0, <2>1, RequestType DEF TypeOK, Serves
    <3>2. /\ approvals' = [Unexpired EXCEPT ![e] = [until |-> clock + ApproveWindow, by |-> c]]
          /\ acted' = [acted EXCEPT ![c] = clock]
      BY <1>5, <2>3 DEF Approve
    <3>3. PICK S \in SUBSET Device : [d \in Device |-> Unexpired[d].by] = Authority!Lapsed(S)
      BY <1>0, UnexpiredLapses
    <3>4. By' = [Authority!Lapsed(S) EXCEPT ![e] = c]
      <4>1. \A d \in Device : approvals'[d].by = IF d = e THEN c ELSE Unexpired[d].by
        BY <1>0, <3>2, UnexpiredType
      <4> QED
        BY <3>3, <4>1 DEF By
    <3>5. clock # 0
      BY <1>0, HandlerAssumption DEF TypeOK
    <3>6. c \notin Granted /\ Granted' = Granted \cup {c}
      BY <1>0, <2>1, <3>2, <3>5 DEF Granted, TypeOK
    <3> QED
      BY <2>1, <2>2, <3>1, <3>4, <3>6 DEF Authority!GrantApproval, By, Injected
  <2>4. CASE ~cfg.twoMan
    <3>1. UNCHANGED <<approvals, acted>>
      BY <1>5, <2>4 DEF Approve
    <3>2. Granted' = Granted
      BY <2>1, <3>1, GrantedSame
    <3> QED
      BY <2>1, <2>2, <3>1, <3>2, Invisible
  <2> QED
    BY <2>3, <2>4
<1>6. ASSUME NEW c \in Conn, PassTwoMan(c)
      PROVE  Authority!TakeApproval(c) \/ Authority!EndApprovals \/ UNCHANGED Authority!vars
  <2> DEFINE e == req[c].dev
  <2>1. /\ pc[c] = "twoman" /\ pc'[c] \notin {"inject", "injecting"} /\ e \in Device
        /\ used[c] = [arm |-> NoConn, approve |-> NoConn]
        /\ UNCHANGED <<cfg, armGate, req, acted>>
        /\ \A d \in Conn \ {c} : pc'[d] = pc[d]
        /\ \A d \in Conn : used'[d].arm = used[d].arm
    <3>1. /\ pc[c] = "twoman" /\ UNCHANGED <<cfg, armGate, req, acted>>
          /\ pc'[c] \notin {"inject", "injecting"} /\ \A d \in Conn \ {c} : pc'[d] = pc[d]
          /\ \A d \in Conn : used'[d].arm = used[d].arm
      BY <1>0, <1>6 DEF PassTwoMan, Block, Goto, TypeOK
    <3> QED
      BY <1>0, <3>1, RequestType DEF Place, TypeOK, Serves
  <2>2. Active' = Active /\ Granted' = Granted /\ Injected' = Injected
    BY <1>0, <2>1, ActiveSame, GrantedSame, InjectedSame
  <2>3. PICK S \in SUBSET Device : [d \in Device |-> Unexpired[d].by] = Authority!Lapsed(S)
    BY <1>0, UnexpiredLapses
  <2>4. CASE ~cfg.twoMan
    BY <1>6, <2>1, <2>2, <2>4, Invisible DEF PassTwoMan
  <2>5. CASE cfg.twoMan /\ Unexpired[e] = Closed
    <3>1. approvals' = Unexpired /\ UNCHANGED used
      BY <1>6, <2>5 DEF PassTwoMan
    <3> QED
      BY <2>1, <2>2, <2>3, <3>1 DEF Authority!EndApprovals, Injected
  <2>6. CASE cfg.twoMan /\ Unexpired[e] # Closed
    <3> DEFINE T == IF cfg.consumeApprove THEN S \cup {e} ELSE S
    <3>1. /\ approvals' = IF cfg.consumeApprove THEN [Unexpired EXCEPT ![e] = Closed] ELSE Unexpired
          /\ used' = [used EXCEPT ![c].approve = approvals[e].by]
      BY <1>6, <2>6 DEF PassTwoMan
    <3>2. approvals[e].by # NoConn
      <4>1. approvals[e].until # 0
        BY <1>0, <2>1, <2>6, HandlerAssumption DEF Unexpired, TypeOK, Gate, ApprovalGate
      <4> QED
        BY <2>1, <4>1 DEF HandlerInv, GateInv
    <3>3. By' = Authority!Lapsed(T)
      <4>1. \A d \in Device : Unexpired[d].by = IF d \in S THEN NoConn ELSE approvals[d].by
        BY <2>3 DEF Authority!Lapsed
      <4>2. \A d \in Device : approvals'[d].by = IF d \in T THEN NoConn ELSE approvals[d].by
        BY <1>0, <3>1, <4>1, UnexpiredType DEF Closed
      <4> QED
        BY <4>2 DEF By, Authority!Lapsed
    <3>4. T \in SUBSET Device /\ (cfg.consumeApprove => e \in T)
      BY <2>1
    <3> HIDE DEF T, e
    <3>5. By[e] # NoConn /\ used' = [used EXCEPT ![c].approve = By[e]]
      BY <2>1, <3>1, <3>2 DEF By
    <3> QED
      BY <2>1, <2>2, <2>6, <3>3, <3>4, <3>5 DEF Authority!TakeApproval, Authority!Nothing, By, Injected
  <2> QED
    BY <2>4, <2>5, <2>6
<1>7. ASSUME NEW c \in Conn, PassArm(c) PROVE Authority!TakeArm(c) \/ Authority!EndArm
  <2>1. /\ pc[c] = "armed" /\ pc'[c] # "injecting"
        /\ UNCHANGED <<cfg, approvals, req, acted>>
        /\ \A d \in Conn \ {c} : pc'[d] = pc[d] /\ used'[d] = used[d]
        /\ used'[c] = used[c] \/ pc'[c] = "inject"
    BY <1>0, <1>7 DEF PassArm, Block, Goto, TypeOK
  <2>3. used[c].arm = NoConn /\ (cfg.twoMan => used[c].approve # NoConn)
    BY <1>0, <2>1 DEF Place
  <2>2. Active' = Active /\ Granted' = Granted /\ Injected' = Injected
    BY <1>0, <2>1, <2>3, ActiveSame, GrantedSame, InjectedSame
  <2>4. CASE clock > armGate.until
    BY <1>7, <2>1, <2>2, <2>4 DEF PassArm, Closed, Authority!EndArm, Injected
  <2>5. CASE ~(clock > armGate.until)
    <3>1. armGate.until # 0
      BY <1>0, <2>5, HandlerAssumption DEF TypeOK, Gate, ApprovalGate
    <3>2. armGate.by # NoConn
      BY <3>1 DEF HandlerInv, GateInv
    <3>3. /\ armGate'.by = IF cfg.consumeArm THEN NoConn ELSE armGate.by
          /\ used' = [used EXCEPT ![c].arm = armGate.by]
      BY <1>7, <2>5 DEF PassArm, Closed
    <3> QED
      BY <2>1, <2>2, <2>3, <3>2, <3>3 DEF Authority!TakeArm, Injected
  <2> QED
    BY <2>4, <2>5
<1>8. ASSUME NEW c \in Conn, StartInject(c) PROVE Authority!Begin(c)
  <2>1. /\ pc[c] = "inject" /\ pc'[c] = "injecting" /\ ~cfg.wayland
        /\ UNCHANGED <<cfg, armGate, approvals, used, req, acted>>
        /\ \A d \in Conn \ {c} : pc'[d] = pc[d]
    BY <1>0, <1>8 DEF StartInject, Goto, TypeOK
  <2>2. used[c].arm # NoConn
    BY <1>0, <2>1 DEF Place
  <2>3. \A d \in Conn : pc[d] # "injecting"
    BY <1>0, <2>1 DEF LockInv, UnderMutex
  <2>4. Active = NoConn /\ Active' = c
    BY <1>0, <2>1, <2>3 DEF LockInv, UnderMutex, Active
  <2>5. c \notin Injected /\ Injected' = Injected \cup {c}
    BY <2>1, <2>2 DEF Injected
  <2>6. Granted' = Granted
    BY <2>1, GrantedSame
  <2> QED
    BY <2>1, <2>2, <2>4, <2>5, <2>6 DEF Authority!Begin, Injected
<1>9. ASSUME NEW c \in Conn,
             \/ \E reason \in Reason : FinishInject(c, reason)
             \/ pc[c] = "injecting" /\ FailInject(c)
      PROVE  Authority!End
  <2>1. /\ pc[c] = "injecting" /\ pc'[c] # "injecting"
        /\ UNCHANGED <<cfg, armGate, approvals, used, req, acted>> /\ pc'[c] # "inject"
        /\ \A d \in Conn \ {c} : pc'[d] = pc[d]
    BY <1>0, <1>9 DEF FinishInject, FailInject, Settle, Block, Goto, TypeOK
  <2>2. \A d \in Conn : pc'[d] # "injecting"
    BY <1>0, <2>1 DEF LockInv, UnderMutex
  <2>3. Active = c /\ Active' = NoConn
    BY <1>0, <2>1, <2>2 DEF LockInv, UnderMutex, Active
  <2>4. Granted' = Granted /\ Injected' = Injected
    BY <2>1, GrantedSame, InjectedSame
  <2> QED
    BY <1>0, <2>1, <2>3, <2>4 DEF Authority!End, Injected
<1>10. ASSUME \/ \E c \in Conn : TypeInto(c)
              \/ Tick \/ MoveFocus \/ UNCHANGED vars
       PROVE  UNCHANGED Authority!vars
  <2>1. UNCHANGED <<cfg, armGate, approvals, used, req, acted, pc>>
    BY <1>10 DEF TypeInto, Tick, MoveFocus, vars
  <2>2. Active' = Active /\ Granted' = Granted /\ Injected' = Injected
    BY <1>0, <2>1, ActiveSame, GrantedSame, InjectedSame
  <2> QED
    BY <2>1, <2>2, Invisible
<1> QED
  BY <1>1, <1>2, <1>3, <1>4, <1>5, <1>6, <1>7, <1>8, <1>9, <1>10
  DEF Next, Handle, Authority!Next

\* MsgHandler keeps the promise of InjectionAuthority: its gates, mutex and
\* program counters give every injection one grant of each kind that is asked for.
THEOREM Implements == Spec => ImplementsAuthority
<1>1. HandlerInv /\ AnswerInv /\ [Next]_vars => HandlerInv' /\ AnswerInv'
  BY StepHandler, StepAnswer
<1>2. HandlerInv /\ HandlerInv' /\ AnswerInv /\ [Next]_vars => [Authority!Next]_Authority!vars
  BY StepAuthority
<1> QED
  BY InitAuthority, <1>2, HandlerInvariant, AnswerInvariant, PTL
  DEF Spec, ImplementsAuthority, Authority!Spec
=============================================================================
