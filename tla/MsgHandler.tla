------------------------------ MODULE MsgHandler ------------------------------
(***************************************************************************)
(* The "/msg" connections of the daemon: handleMsgConn in                  *)
(* cmd/novakey/msg_handler.go with the two gates it shares between         *)
(* connections (arm_gate.go, two_man.go) and the mutex around injection.   *)
(*                                                                         *)
(* One goroutine serves one connection and one connection carries one      *)
(* request, so a member of Conn names both. Each access to shared state is *)
(* a step: the gates and the mutex are atomic, everything between them     *)
(* interleaves with the other connections, the clock and the user, who     *)
(* moves the focus. Frames are authentic and fresh here (ReplayGuard),     *)
(* or "unauthentic".                                                       *)
(***************************************************************************)
EXTENDS Integers, FiniteSets

CONSTANTS
  Device,         \* paired devices
  Conn,           \* connections, each with its goroutine and its request
  Target,         \* windows that can have the focus
  AllowedTarget,  \* those that enforceTargetPolicy lets pass
  ArmMs,          \* "ms" of an arm request; 0 when it has none
  DefaultApprove, \* 15000, when approve_window_ms is not positive
  Configs,        \* configurations the daemon can be started with
  NoConn,         \* no connection
  MaxTime         \* bound: the last instant modelled

\* applyDefaults replaces an arm duration of 0 only: a negative one stays.
Config ==
  [twoMan : BOOLEAN, consumeApprove : BOOLEAN, consumeArm : BOOLEAN,
   clipBlocked : BOOLEAN, clipFailed : BOOLEAN, policy : BOOLEAN,
   wayland : BOOLEAN, armMs : Int \ {0}, approveMs : Int]

ASSUME HandlerAssumption ==
  /\ AllowedTarget \subseteq Target
  /\ ArmMs \subseteq Nat /\ 0 \in ArmMs
  /\ DefaultApprove \in Nat \ {0}
  /\ Configs \subseteq Config
  /\ NoConn \notin Conn
  /\ MaxTime \in Nat \ {0}

VARIABLES
  cfg,       \* the configuration, fixed at start
  clock,     \* time.Now()
  armGate,   \* armGate.armedUntil (0: zero time) and, as history, who armed it
  approvals, \* approvalGate.until per device (0: absent), and who approved
  injectMu,  \* the connection that holds injectMu, or NoConn
  focus,     \* the focused window
  pc,        \* where each goroutine is
  req,       \* the request each connection carries
  pending,   \* the answer a goroutine has settled on, or falls back to
  reply,     \* the reply line each client has been sent
  used,      \* history: the grants a connection passed the gates with
  acted,     \* history: when an arm, disarm or approve request took effect
  typed      \* history: the windows a connection's text went to

vars == <<cfg, clock, armGate, approvals, injectMu, focus,
          pc, req, pending, reply, used, acted, typed>>
environment == <<cfg, clock, focus>>
gates       == <<armGate, approvals>>
history     == <<used, acted, typed>>

Closed == [until |-> 0, by |-> NoConn]

\* Of a request only what its handler reads. An approve or inject request is bound to the
\* device that sealed it; "safe" is whether its text passes validateInjectText.
Request ==
  [kind : {"malformed", "unauthentic", "disarm"}] \cup [kind : {"arm"}, ms : ArmMs]
    \cup [kind : {"approve"}, dev : Device] \cup [kind : {"inject"}, dev : Device, safe : BOOLEAN]
NoRequest == [kind |-> "none"]

-----------------------------------------------------------------------------
(* Replies (response.go, reply.go). *)

Status == {"OK", "NotArmed", "NeedsApprove", "BadRequest", "CryptoFail",
           "OKClipboard", "Internal"}
ClientReason == {"ok", "not_armed", "needs_approve", "clipboard_fallback",
                 "typing_fallback", "inject_unavailable_wayland"}
Reason == ClientReason \cup {"bad_request", "crypto_fail", "internal_error"}

\* safeReasonForClient: a reason old clients do not know is sent as "ok".
SafeReason(reason) == IF reason \in ClientReason THEN reason ELSE "ok"

Answer == [status : Status, reason : Reason]
Ans(status, reason) == [status |-> status, reason |-> reason]
NoAnswer == Ans("Internal", "internal_error")
NoReply  == [status |-> "none", reason |-> "none"]

\* The client is gone or does not take the line within 2 seconds; it may have a part of it.
Undelivered == [status |-> "undelivered", reason |-> "none"]

-----------------------------------------------------------------------------
(* Steps of the goroutine of connection c that touch nothing shared. *)

Goto(c, label) == pc' = [pc EXCEPT ![c] = label]

\* The goroutine has settled on its answer and goes on to write it.
Settle(c, status, reason) ==
  /\ pending' = [pending EXCEPT ![c] = Ans(status, reason)]
  /\ Goto(c, "respond")

\* A blocked or failed injection: the text goes to the clipboard when the
\* configuration says so, and else the answer is the failure.
Block(c, clipboard, status, reason) ==
  /\ pending' = [pending EXCEPT ![c] = Ans(status, reason)]
  /\ Goto(c, IF clipboard THEN "clipboard" ELSE "respond")

\* The frame is read, decrypted and dispatched on its message type.
Receive(c, r) ==
  /\ pc[c] = "idle"
  /\ req' = [req EXCEPT ![c] = r]
  /\ \/ r.kind = "malformed" /\ Settle(c, "BadRequest", "bad_request")
     \/ r.kind = "unauthentic" /\ Settle(c, "CryptoFail", "crypto_fail")
     \/ r.kind = "inject" /\ Goto(c, "validate") /\ UNCHANGED pending
     \/ r.kind \in {"arm", "disarm", "approve"} /\ Goto(c, r.kind) /\ UNCHANGED pending
  /\ UNCHANGED <<environment, gates, injectMu, reply, history>>

\* validateInjectText.
ValidateText(c) ==
  /\ pc[c] = "validate"
  /\ IF req[c].safe
     THEN Goto(c, "policy") /\ UNCHANGED pending
     ELSE Block(c, cfg.clipBlocked, "BadRequest", "bad_request")
  /\ UNCHANGED <<environment, gates, injectMu, req, reply, history>>

\* enforceTargetPolicy looks at the focus, which cannot be read on Wayland.
PolicyAllows(target) == ~cfg.policy \/ (~cfg.wayland /\ target \in AllowedTarget)

CheckTarget(c) ==
  /\ pc[c] = "policy"
  /\ IF PolicyAllows(focus)
     THEN Goto(c, "lock") /\ UNCHANGED pending
     ELSE Block(c, cfg.clipBlocked, "BadRequest", "bad_request")
  /\ UNCHANGED <<environment, gates, injectMu, req, reply, history>>

\* trySetClipboard succeeds or fails. The fallback of an injection that could
\* not be tried on Wayland has a reason of its own.
SetClipboard(c, ok) ==
  /\ pc[c] = "clipboard"
  /\ IF ok
     THEN Settle(c, "OKClipboard",
                 IF cfg.wayland /\ pending[c].status = "Internal"
                 THEN "inject_unavailable_wayland" ELSE "clipboard_fallback")
     ELSE Goto(c, "respond") /\ UNCHANGED pending
  /\ UNCHANGED <<environment, gates, injectMu, req, reply, history>>

-----------------------------------------------------------------------------
(* The gates. now.After(until) is strict: the last instant still counts. *)

Arm(c) ==
  /\ pc[c] = "arm"
  /\ armGate' = [until |-> clock + (IF req[c].ms > 0 THEN req[c].ms ELSE cfg.armMs),
                 by |-> c]
  /\ acted' = [acted EXCEPT ![c] = clock]
  /\ Settle(c, "OK", "ok")
  /\ UNCHANGED <<environment, approvals, injectMu, req, reply, used, typed>>

\* Fault: disarm only shortens the window, to the next instant.
DisarmLater(c) ==
  /\ pc[c] = "disarm"
  /\ armGate' = IF clock < armGate.until THEN [armGate EXCEPT !.until = clock + 1] ELSE Closed
  /\ acted' = [acted EXCEPT ![c] = clock]
  /\ Settle(c, "OK", "ok")
  /\ UNCHANGED <<environment, approvals, injectMu, req, reply, used, typed>>

Disarm(c) ==
  /\ pc[c] = "disarm"
  /\ armGate' = Closed
  /\ acted' = [acted EXCEPT ![c] = clock]
  /\ Settle(c, "OK", "ok")
  /\ UNCHANGED <<environment, approvals, injectMu, req, reply, used, typed>>

\* cleanupLocked: expired approvals of every device are dropped.
Unexpired == [d \in Device |-> IF clock > approvals[d].until THEN Closed ELSE approvals[d]]

\* Fault: a window that is not positive is used as it is.
ApproveWindowRaw == cfg.approveMs

ApproveWindow == IF cfg.approveMs <= 0 THEN DefaultApprove ELSE cfg.approveMs

Approve(c) ==
  /\ pc[c] = "approve"
  /\ IF cfg.twoMan
     THEN /\ approvals' = [Unexpired EXCEPT ![req[c].dev] =
                             [until |-> clock + ApproveWindow, by |-> c]]
          /\ acted' = [acted EXCEPT ![c] = clock]
          /\ Settle(c, "OK", "ok")
     ELSE Settle(c, "BadRequest", "bad_request") /\ UNCHANGED <<approvals, acted>>
  /\ UNCHANGED <<environment, armGate, injectMu, req, reply, used, typed>>

\* Fault: the mutex is not waited for.
LockNoWait(c) ==
  /\ pc[c] = "lock"
  /\ injectMu' = c
  /\ Goto(c, "twoman")
  /\ UNCHANGED <<environment, gates, req, pending, reply, history>>

LockInject(c) ==
  /\ pc[c] = "lock" /\ injectMu = NoConn
  /\ injectMu' = c
  /\ Goto(c, "twoman")
  /\ UNCHANGED <<environment, gates, req, pending, reply, history>>

\* Fault: the approval is looked up but stays, whatever consumeApprove says.
PassTwoManKeep(c) ==
  LET d == req[c].dev
  IN  /\ pc[c] = "twoman"
      /\ IF ~cfg.twoMan
         THEN Goto(c, "armed") /\ UNCHANGED <<approvals, pending, used>>
         ELSE IF Unexpired[d] = Closed
         THEN /\ approvals' = Unexpired
              /\ Block(c, cfg.clipBlocked, "NeedsApprove", "needs_approve")
              /\ UNCHANGED used
         ELSE /\ approvals' = Unexpired
              /\ used' = [used EXCEPT ![c].approve = approvals[d].by]
              /\ Goto(c, "armed") /\ UNCHANGED pending
      /\ UNCHANGED <<environment, armGate, injectMu, req, reply, acted, typed>>

\* approvalGate.Consume, when two-man is enabled.
PassTwoMan(c) ==
  LET d == req[c].dev
  IN  /\ pc[c] = "twoman"
      /\ IF ~cfg.twoMan
         THEN Goto(c, "armed") /\ UNCHANGED <<approvals, pending, used>>
         ELSE IF Unexpired[d] = Closed
         THEN /\ approvals' = Unexpired
              /\ Block(c, cfg.clipBlocked, "NeedsApprove", "needs_approve")
              /\ UNCHANGED used
         ELSE /\ approvals' = IF cfg.consumeApprove
                              THEN [Unexpired EXCEPT ![d] = Closed] ELSE Unexpired
              /\ used' = [used EXCEPT ![c].approve = approvals[d].by]
              /\ Goto(c, "armed") /\ UNCHANGED pending
      /\ UNCHANGED <<environment, armGate, injectMu, req, reply, acted, typed>>

\* Faults: the gate stays armed; a refusal does not end the request.
PassArmKeep(c) ==
  /\ pc[c] = "armed"
  /\ IF clock > armGate.until
     THEN /\ armGate' = Closed
          /\ Block(c, cfg.clipBlocked, "NotArmed", "not_armed")
          /\ UNCHANGED used
     ELSE /\ UNCHANGED armGate
          /\ used' = [used EXCEPT ![c].arm = armGate.by]
          /\ Goto(c, "inject") /\ UNCHANGED pending
  /\ UNCHANGED <<environment, approvals, injectMu, req, reply, acted, typed>>
PassArmFallThrough(c) ==
  /\ pc[c] = "armed"
  /\ IF clock > armGate.until
     THEN armGate' = Closed /\ UNCHANGED used
     ELSE /\ armGate' = IF cfg.consumeArm THEN Closed ELSE armGate
          /\ used' = [used EXCEPT ![c].arm = armGate.by]
  /\ Goto(c, "inject") /\ UNCHANGED pending
  /\ UNCHANGED <<environment, approvals, injectMu, req, reply, acted, typed>>

\* armGate.Consume.
PassArm(c) ==
  /\ pc[c] = "armed"
  /\ IF clock > armGate.until
     THEN /\ armGate' = Closed
          /\ Block(c, cfg.clipBlocked, "NotArmed", "not_armed")
          /\ UNCHANGED used
     ELSE /\ armGate' = IF cfg.consumeArm THEN Closed ELSE armGate
          /\ used' = [used EXCEPT ![c].arm = armGate.by]
          /\ Goto(c, "inject") /\ UNCHANGED pending
  /\ UNCHANGED <<environment, approvals, injectMu, req, reply, acted, typed>>

-----------------------------------------------------------------------------
(* The injection itself, external programs and APIs called under injectMu. *)

StartInject(c) ==
  /\ pc[c] = "inject" /\ ~cfg.wayland
  /\ Goto(c, "injecting")
  /\ UNCHANGED <<environment, gates, injectMu, req, pending, reply, history>>

\* Characters or a key stroke, to whatever window has the focus when they come. An
\* injection sends several, or none that has an effect.
TypeInto(c) ==
  /\ pc[c] = "injecting"
  /\ typed' = [typed EXCEPT ![c] = @ \cup {focus}]
  /\ UNCHANGED <<environment, gates, injectMu, pc, req, pending, reply, used, acted>>

\* The answer of a successful injection depends on the method it used.
FinishInject(c, reason) ==
  /\ pc[c] = "injecting"
  /\ reason \in {"ok", "typing_fallback", "clipboard_fallback"}
  /\ Settle(c, "OK", reason)
  /\ UNCHANGED <<environment, gates, injectMu, req, reply, history>>

\* It failed; Wayland has no injection at all.
FailInject(c) ==
  /\ \/ pc[c] = "injecting"
     \/ pc[c] = "inject" /\ cfg.wayland
  /\ Block(c, cfg.clipFailed, "Internal", "internal_error")
  /\ UNCHANGED <<environment, gates, injectMu, req, reply, history>>

\* Fault: an early return that skips the deferred unlock.
RespondNoUnlock(c, delivered) ==
  /\ pc[c] = "respond"
  /\ reply' = [reply EXCEPT ![c] =
       IF delivered THEN Ans(pending[c].status, SafeReason(pending[c].reason)) ELSE Undelivered]
  /\ Goto(c, IF injectMu = c /\ pending[c].status = "OK" THEN "unlock" ELSE "done")
  /\ UNCHANGED <<environment, gates, injectMu, req, pending, history>>

\* The one reply line; an injection still holds the mutex while it writes. An error of
\* the write is dropped.
Respond(c, delivered) ==
  /\ pc[c] = "respond"
  /\ reply' = [reply EXCEPT ![c] =
       IF delivered THEN Ans(pending[c].status, SafeReason(pending[c].reason)) ELSE Undelivered]
  /\ Goto(c, IF injectMu = c THEN "unlock" ELSE "done")
  /\ UNCHANGED <<environment, gates, injectMu, req, pending, history>>

Unlock(c) ==
  /\ pc[c] = "unlock"
  /\ injectMu' = NoConn
  /\ Goto(c, "done")
  /\ UNCHANGED <<environment, gates, req, pending, reply, history>>

-----------------------------------------------------------------------------
Tick ==
  /\ clock < MaxTime
  /\ clock' = clock + 1
  /\ UNCHANGED <<cfg, focus, gates, injectMu, pc, req, pending, reply, history>>

\* The user moves to another window at any time.
MoveFocus ==
  /\ focus' \in Target \ {focus}
  /\ UNCHANGED <<cfg, clock, gates, injectMu, pc, req, pending, reply, history>>

Init ==
  /\ cfg \in Configs
  /\ clock = 1
  /\ armGate = Closed
  /\ approvals = [d \in Device |-> Closed]
  /\ injectMu = NoConn
  /\ focus \in Target
  /\ pc = [c \in Conn |-> "idle"]
  /\ req = [c \in Conn |-> NoRequest]
  /\ pending = [c \in Conn |-> NoAnswer]
  /\ reply = [c \in Conn |-> NoReply]
  /\ used = [c \in Conn |-> [arm |-> NoConn, approve |-> NoConn]]
  /\ acted = [c \in Conn |-> 0]
  /\ typed = [c \in Conn |-> {}]

Handle(c) ==
  \/ ValidateText(c) \/ CheckTarget(c)
  \/ \E ok \in BOOLEAN : SetClipboard(c, ok)
  \/ Arm(c) \/ Disarm(c) \/ Approve(c)
  \/ PassTwoMan(c) \/ PassArm(c)
  \/ StartInject(c) \/ TypeInto(c) \/ FailInject(c)
  \/ \E reason \in Reason : FinishInject(c, reason)
  \/ \E delivered \in BOOLEAN : Respond(c, delivered)
  \/ Unlock(c)

Next ==
  \/ \E c \in Conn :
       \/ \E r \in Request : Receive(c, r)
       \/ LockInject(c)
       \/ Handle(c)
  \/ Tick
  \/ MoveFocus

Spec == Init /\ [][Next]_vars

-----------------------------------------------------------------------------
Label == {"idle", "validate", "policy", "clipboard", "lock", "twoman", "armed",
          "inject", "injecting", "arm", "disarm", "approve", "respond", "unlock", "done"}
Gate  == [until : Int, by : Conn \cup {NoConn}]

\* approveWindow is positive, so only the arm gate can be opened into the past.
ApprovalGate == [until : Nat, by : Conn \cup {NoConn}]

\* A goroutine is where requests of its kind are served.
Serves(c) ==
  /\ pc[c] # "idle" => req[c] \in Request
  /\ pc[c] \in {"arm", "disarm", "approve"} => req[c].kind = pc[c]
  /\ pc[c] \in {"validate", "policy", "lock", "twoman"} => req[c].kind = "inject"

\* Type invariant.
TypeOK ==
  /\ cfg \in Configs /\ clock \in 1..MaxTime /\ focus \in Target
  /\ armGate \in Gate /\ approvals \in [Device -> ApprovalGate]
  /\ injectMu \in Conn \cup {NoConn}
  /\ pc \in [Conn -> Label]
  /\ req \in [Conn -> Request \cup {NoRequest}]
  /\ \A c \in Conn : Serves(c)
  /\ pending \in [Conn -> Answer]
  /\ reply \in [Conn -> Answer \cup {NoReply, Undelivered}]
  /\ used \in [Conn -> [arm : Conn \cup {NoConn}, approve : Conn \cup {NoConn}]]
  /\ acted \in [Conn -> 0..MaxTime]
  /\ typed \in [Conn -> SUBSET Target]

UnderMutex == {"twoman", "armed", "inject", "injecting", "unlock"}

\* From the gates to the reply line, at most one connection injects.
InjectionsExclusive ==
  \A c, d \in Conn : (pc[c] \in UnderMutex /\ pc[d] \in UnderMutex) => c = d

\* With arm_consume_on_inject, one arm request lets at most one connection
\* through, however injections, arm and disarm requests interleave.
OneInjectionPerArm ==
  \A c, d \in Conn :
    (cfg.consumeArm /\ used[c].arm = used[d].arm /\ used[c].arm # NoConn) => c = d

\* An approval lets through only connections of the device that approved, and
\* with approve_consume_on_inject at most one of them.
OneInjectionPerApproval ==
  \A c \in Conn : used[c].approve # NoConn =>
    /\ req[used[c].approve].dev = req[c].dev
    /\ \A d \in Conn : (cfg.consumeApprove /\ used[d].approve = used[c].approve) => c = d

\* A goroutine that passes the two-man gate does so within the window of an approval that
\* took effect. One that comes to inject has passed that gate, if it is enabled, and a gate
\* that was armed no longer ago than the duration asked for and not disarmed since.
ArmedFor(a) == IF req[a].ms > 0 THEN req[a].ms ELSE cfg.armMs
DisarmedSince(t) == \E d \in Conn : req[d].kind = "disarm" /\ acted[d] > t
PassesTwoMan(c) ==
  (pc[c] = "twoman" /\ pc'[c] = "armed" /\ cfg.twoMan) =>
    LET a == used'[c].approve
    IN  a # NoConn /\ acted[a] <= clock /\ clock <= acted[a] + ApproveWindow
PassesArm(c) ==
  (pc[c] = "armed" /\ pc'[c] = "inject") =>
    LET a == used'[c].arm
    IN  /\ a # NoConn
        /\ acted[a] <= clock /\ clock <= acted[a] + ArmedFor(a)
        /\ ~DisarmedSince(acted[a])
        /\ cfg.twoMan => used[c].approve # NoConn
GatesHonoured == [][\A c \in Conn : PassesTwoMan(c) /\ PassesArm(c)]_vars

\* OK, or the failure of an injection, means that both gates were passed; NotArmed,
\* NeedsApprove and BadRequest mean that no character was typed and that the gate named,
\* and those behind it, were left alone.
Truthful(c, status) ==
  /\ status \in {"OK", "Internal"} =>
       used[c].arm # NoConn /\ (cfg.twoMan => used[c].approve # NoConn)
  /\ status = "NotArmed" => typed[c] = {} /\ used[c].arm = NoConn
  /\ status \in {"NeedsApprove", "BadRequest"} =>
       typed[c] = {} /\ used[c] = [arm |-> NoConn, approve |-> NoConn]

\* What an inject request was told is what happened.
ReplyTruthful ==
  \A c \in Conn : (req[c].kind = "inject" /\ reply[c] \in Answer) => Truthful(c, reply[c].status)

-----------------------------------------------------------------------------
(* The inductive invariant behind these properties. *)

\* A goroutine past the lock holds it until it has unlocked.
LockInv == \A c \in Conn : pc[c] \in UnderMutex => injectMu = c

\* An open gate knows who opened it; that request took effect and is for it. The arm gate
\* can be opened into the past.
GateInv ==
  /\ armGate.by = NoConn => armGate.until = 0
  /\ armGate.by # NoConn => acted[armGate.by] # 0 /\ req[armGate.by].kind = "arm"
  /\ \A d \in Device :
       /\ (approvals[d].until = 0) <=> (approvals[d].by = NoConn)
       /\ approvals[d].by # NoConn =>
            /\ acted[approvals[d].by] # 0
            /\ req[approvals[d].by].kind = "approve" /\ req[approvals[d].by].dev = d

\* What a goroutine has done so far follows from where it is.
Place(c) ==
  /\ pc[c] \in {"idle", "arm", "disarm", "approve"} => acted[c] = 0
  /\ pc[c] \in {"idle", "arm", "disarm", "approve", "validate", "policy", "lock", "twoman"} =>
       used[c] = [arm |-> NoConn, approve |-> NoConn]
  /\ pc[c] = "armed" => used[c].arm = NoConn
  /\ pc[c] \in {"armed", "inject", "injecting"} /\ cfg.twoMan => used[c].approve # NoConn
  /\ pc[c] \in {"inject", "injecting"} => used[c].arm # NoConn
  /\ pc[c] \in {"idle", "arm", "disarm", "approve", "validate", "policy", "lock",
                 "twoman", "armed", "inject"} => typed[c] = {}
PlaceInv == \A c \in Conn : Place(c)

\* Grants in use took effect; a gate that is spent by use holds none of them.
SpendInv ==
  /\ \A c \in Conn :
       /\ used[c].arm # NoConn => acted[used[c].arm] # 0
       /\ used[c].approve # NoConn =>
            /\ acted[used[c].approve] # 0
            /\ req[used[c].approve].kind = "approve" /\ req[used[c].approve].dev = req[c].dev
       /\ cfg.consumeArm /\ used[c].arm # NoConn => used[c].arm # armGate.by
       /\ cfg.consumeApprove /\ used[c].approve # NoConn =>
            \A d \in Device : used[c].approve # approvals[d].by
  /\ OneInjectionPerArm
  /\ OneInjectionPerApproval

\* An open gate is open for the time asked for; the arm gate has not been disarmed since.
ApprovalsTimed ==
  \A d \in Device : approvals[d].by # NoConn =>
    approvals[d].until = acted[approvals[d].by] + ApproveWindow
ArmTimed ==
  armGate.by # NoConn =>
    /\ armGate.until = acted[armGate.by] + ArmedFor(armGate.by)
    /\ ~DisarmedSince(acted[armGate.by])
ClockInv == (\A c \in Conn : acted[c] <= clock) /\ ApprovalsTimed /\ ArmTimed

\* An answer is truthful from the moment it is settled on.
Honest(c) ==
  /\ (req[c].kind = "inject" /\ pc[c] \in {"clipboard", "respond", "unlock", "done"}) =>
       Truthful(c, pending[c].status)
  /\ reply[c] # NoReply =>
       /\ pc[c] \in {"unlock", "done"}
       /\ reply[c] = Undelivered \/ reply[c].status = pending[c].status
AnswerInv == \A c \in Conn : Honest(c)

HandlerInv == TypeOK /\ LockInv /\ GateInv /\ PlaceInv /\ SpendInv

-----------------------------------------------------------------------------
\* The daemon keeps the promise of InjectionAuthority: a gate's grant is the
\* request that opened it, even past its deadline, until someone looks.
Granted == {c \in Conn : req[c].kind \in {"arm", "approve"} /\ acted[c] # 0}
Active  == IF \E c \in Conn : pc[c] = "injecting"
           THEN CHOOSE c \in Conn : pc[c] = "injecting" ELSE NoConn

Authority == INSTANCE InjectionAuthority WITH
  rules    <- [twoMan |-> cfg.twoMan, consumeApprove |-> cfg.consumeApprove,
               consumeArm |-> cfg.consumeArm],
  armed    <- armGate.by,
  approved <- [d \in Device |-> approvals[d].by],
  granted  <- Granted,
  backing  <- used,
  active   <- Active,
  injected <- {c \in Conn : used[c].arm # NoConn /\ pc[c] # "inject" /\ ~cfg.wayland}

\* Every step of the handlers is a step of the promise or invisible to it.
ImplementsAuthority == Authority!Spec

-----------------------------------------------------------------------------
\* README.md: "If true, approval is consumed after a successful injection", and
\* the armed state likewise.
GrantsSpentBySuccess ==
  \A c \in Conn : (req[c].kind = "inject" /\ reply[c] \in Answer) =>
    /\ cfg.consumeApprove /\ used[c].approve # NoConn => reply[c].status = "OK"
    /\ cfg.consumeArm /\ used[c].arm # NoConn => reply[c].status = "OK"

\* docs/daemon/threat-model.md, against a change of focus before injection:
\* "Target policy enforcement at injection time".
InjectsIntoAllowedTarget ==
  \A c \in Conn : cfg.policy => typed[c] \subseteq AllowedTarget
=============================================================================
