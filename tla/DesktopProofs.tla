----------------------------- MODULE DesktopProofs -----------------------------
(***************************************************************************)
(* Theorems about the injection backends and the clipboard, for any number *)
(* of connections and any of the backends: whose text comes into a window, *)
(* what is left on the clipboard, and that replies tell how the methods    *)
(* came out.                                                               *)
(***************************************************************************)
EXTENDS Desktop, AuthorityProofs, SequenceTheorems

\* Plans and the sequences they are made of.
LEMMA PlanFacts ==
  /\ \A m \in Methods : /\ <<m>> \in Seq(Methods) /\ Len(<<m>>) = 1
                        /\ Head(<<m>>) = m /\ Tail(<<m>>) = <<>>
  /\ \A m \in Methods : <<m>> \o <<>> = <<m>> /\ <<>> \o <<m>> = <<m>>
  /\ \A m, n \in Methods : <<m, n>> \in Seq(Methods) /\ Len(<<m, n>>) = 2
  /\ \A m, n \in Methods : Head(<<m, n>>) = m /\ Tail(<<m, n>>) = <<n>>
  /\ \A m, n \in Methods : <<m>> \o <<n>> = <<m, n>>
  /\ <<>> \in Seq(Methods) /\ Len(<<>>) = 0
<1>1. \A m \in Methods : /\ <<m>> \in Seq(Methods) /\ Len(<<m>>) = 1
                         /\ Head(<<m>>) = m /\ Tail(<<m>>) = <<>>
  OBVIOUS
<1>2. \A m \in Methods : <<m>> \o <<>> = <<m>> /\ <<>> \o <<m>> = <<m>>
  OBVIOUS
<1>3. \A m, n \in Methods : <<m, n>> \in Seq(Methods) /\ Len(<<m, n>>) = 2
  OBVIOUS
<1>4. \A m, n \in Methods : Head(<<m, n>>) = m /\ Tail(<<m, n>>) = <<n>>
  OBVIOUS
<1>5. ASSUME NEW m \in Methods, NEW n \in Methods PROVE <<m>> \o <<n>> = <<m, n>>
  <2>1. /\ <<m>> \in Seq(Methods) /\ <<n>> \in Seq(Methods) /\ <<m, n>> \in Seq(Methods)
        /\ Len(<<m>>) = 1 /\ Len(<<n>>) = 1 /\ Len(<<m, n>>) = 2
        /\ <<m>>[1] = m /\ <<n>>[1] = n /\ <<m, n>>[1] = m /\ <<m, n>>[2] = n
    OBVIOUS
  <2>2. /\ <<m>> \o <<n>> \in Seq(Methods) /\ Len(<<m>> \o <<n>>) = 2
        /\ (<<m>> \o <<n>>)[1] = m /\ (<<m>> \o <<n>>)[2] = n
    OBVIOUS
  <2>3. \A i \in 1..2 : (<<m>> \o <<n>>)[i] = <<m, n>>[i]
    BY <2>1, <2>2
  <2> QED
    BY <2>1, <2>2, <2>3, SeqEqual
<1>6. <<>> \in Seq(Methods) /\ Len(<<>>) = 0
  OBVIOUS
<1> QED
  BY Zenon, <1>1, <1>2, <1>3, <1>4, <1>5, <1>6

\* A plan that has begun is one of a few.
LEMMA FewPlans ==
  ASSUME NEW p, Remains(p)
  PROVE  \/ p = <<>>
         \/ p = <<"paste">> /\ backend.os = "darwin"
         \/ p = <<"type">> /\ (backend.os = "windows" => backend.typing)
         \/ p = <<"direct">> /\ backend.os = "windows"
         \/ p = <<"paste", "type">> /\ backend.os = "darwin"
         \/ p = <<"type", "paste">> /\ backend.os = "darwin"
         \/ p = <<"direct", "type">> /\ backend.os = "windows" /\ backend.typing
  BY DEF Remains

\* The rest of a plan, and which methods the systems have.
LEMMA RestOfPlan ==
  ASSUME NEW p, Remains(p), p # <<>>
  PROVE  /\ Remains(Tail(p))
         /\ Head(p) = "paste" => backend.os = "darwin"
<1> USE DEF Methods
<1>1. CASE p = <<"paste">> /\ backend.os = "darwin"
  <2>1. Head(p) = "paste" /\ Tail(p) = <<>>
    BY <1>1, PlanFacts
  <2> QED
    BY <1>1, <2>1 DEF Remains
<1>2. CASE p = <<"type">> /\ (backend.os = "windows" => backend.typing)
  <2>1. Head(p) = "type" /\ Tail(p) = <<>>
    BY <1>2, PlanFacts
  <2> QED
    BY <1>2, <2>1 DEF Remains
<1>3. CASE p = <<"direct">> /\ backend.os = "windows"
  <2>1. Head(p) = "direct" /\ Tail(p) = <<>>
    BY <1>3, PlanFacts
  <2> QED
    BY <1>3, <2>1 DEF Remains
<1>4. CASE p = <<"paste", "type">> /\ backend.os = "darwin"
  <2>1. Head(p) = "paste" /\ Tail(p) = <<"type">>
    BY <1>4, PlanFacts
  <2> QED
    BY <1>4, <2>1 DEF Remains
<1>5. CASE p = <<"type", "paste">> /\ backend.os = "darwin"
  <2>1. Head(p) = "type" /\ Tail(p) = <<"paste">>
    BY <1>5, PlanFacts
  <2> QED
    BY <1>5, <2>1 DEF Remains
<1>6. CASE p = <<"direct", "type">> /\ backend.os = "windows" /\ backend.typing
  <2>1. Head(p) = "direct" /\ Tail(p) = <<"type">>
    BY <1>6, PlanFacts
  <2> QED
    BY <1>6, <2>1 DEF Remains
<1> QED
  BY FewPlans, <1>1, <1>2, <1>3, <1>4, <1>5, <1>6

\* A plan is a sequence of at most two methods.
LEMMA PlanType ==
  ASSUME NEW p, Remains(p)
  PROVE  p \in Seq(Methods) /\ Len(p) <= 2
<1> DEFINE Fits(q) == q \in Seq(Methods) /\ Len(q) <= 2
<1>1. Fits(<<>>) /\ Fits(<<"paste">>) /\ Fits(<<"type">>) /\ Fits(<<"direct">>)
  BY PlanFacts DEF Methods
<1>2. Fits(<<"paste", "type">>) /\ Fits(<<"type", "paste">>) /\ Fits(<<"direct", "type">>)
  BY PlanFacts DEF Methods
<1> HIDE DEF Fits
<1>3. Fits(p)
  BY FewPlans, <1>1, <1>2
<1> QED
  BY <1>3 DEF Fits

\* A plan to begin with is a remainder of itself.
LEMMA PlansRemain ==
  ASSUME backend \in Backend, NEW p \in Plans
  PROVE  Remains(p)
<1>1. /\ <<"paste">> \o <<"type">> = <<"paste", "type">> /\ <<"paste">> \o <<>> = <<"paste">>
      /\ <<"type">> \o <<"paste">> = <<"type", "paste">> /\ <<>> \o <<"paste">> = <<"paste">>
      /\ <<"direct">> \o <<"type">> = <<"direct", "type">> /\ <<"direct">> \o <<>> = <<"direct">>
  BY PlanFacts DEF Methods
<1>2. CASE backend.os = "darwin"
  <2>1. p \in DarwinPlans
    BY <1>2 DEF Plans
  <2> QED
    BY <1>1, <1>2, <2>1 DEF DarwinPlans, TypingFallback, Remains
<1>3. CASE backend.os = "windows"
  <2>1. p \in WindowsPlans
    BY <1>3 DEF Plans
  <2> QED
    BY <1>1, <1>3, <2>1 DEF WindowsPlans, TypingFallback, Remains
<1>4. CASE backend.os = "linux"
  BY <1>4 DEF Plans, Remains
<1> QED
  BY <1>2, <1>3, <1>4 DEF Backend

\* A step of a method types something or is invisible to the handlers.
LEMMA InsideImplements ==
  ASSUME NEW c \in Conn, NEW text, MayEnter(c, text)
  PROVE  TypeInto(c) \/ UNCHANGED vars
BY DEF MayEnter, Enter

\* Every step of the desktop is one of the handlers, or invisible to them.
LEMMA DesktopImplements == [DesktopNext]_deskVars => [Next]_vars
<1>1. ASSUME NEW c \in Conn, Inject(c) PROVE [Next]_vars
  <2>1. CASE Begin(c)
    BY <2>1 DEF Begin, Next, Handle
  <2>2. CASE Succeed(c)
    BY <2>2 DEF Succeed, FinishInject, Next, Handle, Reason, ClientReason
  <2>3. CASE GiveUp(c)
    BY <2>3 DEF GiveUp, Next, Handle
  <2>4. CASE TypeInto(c) \/ UNCHANGED vars
    BY <2>4 DEF Next, Handle
  <2>5. CASE KeyStroke(c)
    BY <2>4, <2>5 DEF KeyStroke, Enter
  <2>6. ASSUME NEW next, SendMessages(c, next) \/ PressPaste(c, next) PROVE [Next]_vars
    BY <2>4, <2>6, InsideImplements DEF SendMessages, PressPaste
  <2> QED
    BY <1>1, <2>1, <2>2, <2>3, <2>4, <2>5, <2>6
    DEF Inject, TypeText, SaveClipboard, CopyText, RestoreClipboard
<1>2. ASSUME NEW c \in Conn, NEW ok \in BOOLEAN, Offer(c, ok) PROVE [Next]_vars
  BY <1>2 DEF Offer, Next, Handle
<1>3. ASSUME NEW c \in Conn, Elsewhere(c) PROVE [Next]_vars
  BY <1>3 DEF Elsewhere, Next, Handle
<1>4. (Tick \/ MoveFocus \/ UNCHANGED deskVars) => [Next]_vars
  BY DEF Next, deskVars
<1>5. ASSUME NEW c \in Conn, (\E r \in Request : Receive(c, r)) \/ LockInject(c) PROVE [Next]_vars
  BY <1>5 DEF Next
<1> QED
  BY <1>1, <1>2, <1>3, <1>4, <1>5 DEF DesktopNext, DesktopHandle

-----------------------------------------------------------------------------
(* Steps that leave the desktop alone.                                       *)

\* What such a step may do to its own connection and to others.
Outside(c) ==
  /\ UNCHANGED <<cfg, desk>>
  /\ pc[c] # "injecting" /\ pc'[c] # "injecting"
  /\ pc'[c] \in BeforeInjection => pc[c] \in BeforeInjection
  /\ (pc'[c] = "clipboard" /\ pc[c] # "clipboard") => cfg.clipBlocked
  /\ \A d \in Conn \ {c} :
       /\ pc'[d] = pc[d] /\ req'[d] = req[d]
       /\ pending'[d] = pending[d] /\ reply'[d] = reply[d]
  /\ \A d \in Conn : (injectMu = d /\ pc[d] = "clipboard") => injectMu' = d
  /\ Told(c)'

\* A refusal before the injection.
LEMMA Refusal ==
  ASSUME DesktopInv, NEW c \in Conn, pc[c] \in BeforeInjection \ {"idle"},
         NEW status \in Status, NEW reason \in Reason, status # "OK",
         Block(c, cfg.clipBlocked, status, reason),
         UNCHANGED <<cfg, desk, injectMu, req, reply>>
  PROVE  Outside(c)
<1>1. /\ pc' = [pc EXCEPT ![c] = pc'[c]]
      /\ pc'[c] = IF cfg.clipBlocked THEN "clipboard" ELSE "respond"
      /\ pending'[c].status = status
      /\ \A d \in Conn \ {c} : pc'[d] = pc[d] /\ pending'[d] = pending[d]
  BY DEF DesktopInv, HandlerInv, TypeOK, Block, Goto, Ans
<1>2. at[c] = "none" /\ worked[c] = {} /\ entered[c] = {} /\ reply[c] = NoReply
  BY DEF DesktopInv, Where, SoFar, Results, Told, BeforeInjection
<1>3. Told(c)'
  BY <1>1, <1>2 DEF Told, Tells, desk
<1> QED
  BY <1>1, <1>2, <1>3 DEF Outside, BeforeInjection

\* Every step of a handler before and after its injection is of that kind.
LEMMA OutsideStep ==
  ASSUME DesktopInv, NEW c \in Conn,
         (\E r \in Request : Receive(c, r)) \/ LockInject(c) \/ Elsewhere(c),
         UNCHANGED desk
  PROVE  Outside(c)
<1> USE DEF BeforeInjection
<1>0. /\ TypeOK /\ LockInv /\ Place(c) /\ Where(c) /\ SoFar(c) /\ Told(c)
      /\ {"OK", "NotArmed", "NeedsApprove", "BadRequest", "CryptoFail"} \subseteq Status
      /\ {"bad_request", "needs_approve", "not_armed", "ok", "crypto_fail"} \subseteq Reason
  BY DEF DesktopInv, HandlerInv, PlaceInv, Status, Reason, ClientReason
<1>1. ASSUME NEW r \in Request, Receive(c, r) PROVE Outside(c)
  <2>1. /\ pc[c] = "idle" /\ req'[c] = r /\ reply' = reply /\ injectMu' = injectMu /\ cfg' = cfg
        /\ pc'[c] \in {"respond", "validate", "arm", "disarm", "approve"}
        /\ pc'[c] = "respond" => r.kind # "inject" /\ pending'[c].status # "OK"
        /\ pc'[c] # "respond" => pending'[c] = pending[c]
        /\ \A d \in Conn \ {c} : pc'[d] = pc[d] /\ pending'[d] = pending[d] /\ req'[d] = req[d]
    BY <1>0, <1>1 DEF Receive, Settle, Goto, Ans, TypeOK, environment
  <2>2. Told(c)'
    BY <1>0, <2>1 DEF Told
  <2> QED
    BY <2>1, <2>2 DEF Outside
<1>2. CASE ValidateText(c) \/ CheckTarget(c)
  <2>1. CASE pc'[c] \in {"policy", "lock"}
    <3>1. /\ pc[c] \in {"validate", "policy"} /\ UNCHANGED <<cfg, req, reply, injectMu, pending>>
          /\ \A d \in Conn \ {c} : pc'[d] = pc[d]
      BY <1>0, <1>2, <2>1 DEF ValidateText, CheckTarget, Goto, Block, TypeOK, environment
    <3> QED
      BY <1>0, <2>1, <3>1 DEF Outside, Told
  <2>2. CASE pc'[c] \notin {"policy", "lock"}
    <3>1. /\ pc[c] \in {"validate", "policy"} /\ UNCHANGED <<cfg, req, reply, injectMu>>
          /\ Block(c, cfg.clipBlocked, "BadRequest", "bad_request")
      BY <1>0, <1>2, <2>2 DEF ValidateText, CheckTarget, Goto, TypeOK, environment
    <3> QED
      BY <1>0, <3>1, Refusal
  <2> QED
    BY <2>1, <2>2
<1>3. CASE Arm(c) \/ Disarm(c) \/ Approve(c)
  <2>1. /\ pc[c] \in {"arm", "disarm", "approve"} /\ pc'[c] = "respond" /\ req[c].kind = pc[c]
        /\ pending'[c] = Ans("OK", "ok") \/ pending'[c] = Ans("BadRequest", "bad_request")
        /\ UNCHANGED <<cfg, req, reply, injectMu>>
        /\ \A d \in Conn \ {c} : pc'[d] = pc[d] /\ pending'[d] = pending[d]
    BY <1>0, <1>3 DEF Arm, Disarm, Approve, Settle, Goto, TypeOK, Serves, environment
  <2>2. pending'[c].status = "OK" => pending'[c].reason \in ClientReason
    BY <2>1 DEF Ans, ClientReason
  <2> QED
    BY <1>0, <2>1, <2>2 DEF Outside, Told
<1>4. CASE LockInject(c)
  <2>1. /\ pc[c] = "lock" /\ pc'[c] = "twoman" /\ injectMu = NoConn
        /\ UNCHANGED <<cfg, req, reply, pending>>
        /\ \A d \in Conn \ {c} : pc'[d] = pc[d]
    BY <1>0, <1>4 DEF LockInject, Goto, TypeOK, environment
  <2> QED
    BY <1>0, <2>1, HandlerAssumption DEF Outside, Told
<1>5. CASE PassTwoMan(c) \/ PassArm(c)
  <2>1. CASE pc'[c] \in {"armed", "inject"}
    <3>1. /\ pc[c] \in {"twoman", "armed"} /\ UNCHANGED <<cfg, req, reply, injectMu, pending>>
          /\ \A d \in Conn \ {c} : pc'[d] = pc[d]
      BY <1>0, <1>5, <2>1 DEF PassTwoMan, PassArm, Goto, Block, TypeOK, environment
    <3> QED
      BY <1>0, <2>1, <3>1 DEF Outside, Told
  <2>2. CASE pc'[c] \notin {"armed", "inject"}
    <3>1. /\ pc[c] \in {"twoman", "armed"} /\ UNCHANGED <<cfg, req, reply, injectMu>>
          /\ \/ Block(c, cfg.clipBlocked, "NeedsApprove", "needs_approve")
             \/ Block(c, cfg.clipBlocked, "NotArmed", "not_armed")
      BY <1>0, <1>5, <2>2 DEF PassTwoMan, PassArm, Goto, TypeOK, environment
    <3> QED
      BY <1>0, <3>1, Refusal
  <2> QED
    BY <2>1, <2>2
<1>6. ASSUME NEW delivered \in BOOLEAN, Respond(c, delivered) PROVE Outside(c)
  <2>1. /\ pc[c] = "respond" /\ pc'[c] \in {"unlock", "done"}
        /\ UNCHANGED <<cfg, req, pending, injectMu>>
        /\ \/ reply'[c] = Undelivered
           \/ reply'[c] = Ans(pending[c].status, SafeReason(pending[c].reason))
        /\ \A d \in Conn \ {c} : pc'[d] = pc[d] /\ reply'[d] = reply[d]
    BY <1>0, <1>6 DEF Respond, Goto, TypeOK, environment
  <2>2. Tells(c, pending[c])' <=> Tells(c, pending[c])
    BY <2>1 DEF Tells, ReasonOf, desk
  <2>3. Told(c)'
    BY <1>0, <2>1, <2>2 DEF Told, SafeReason
  <2> QED
    BY <2>1, <2>3 DEF Outside
<1>7. CASE Unlock(c)
  <2>1. /\ pc[c] = "unlock" /\ pc'[c] = "done" /\ injectMu = c
        /\ UNCHANGED <<cfg, req, pending, reply>>
        /\ \A d \in Conn \ {c} : pc'[d] = pc[d]
    BY <1>0, <1>7 DEF Unlock, Goto, TypeOK, environment, LockInv, UnderMutex
  <2>2. Tells(c, pending[c])' <=> Tells(c, pending[c])
    BY <2>1 DEF Tells, ReasonOf, desk
  <2>3. Told(c)'
    BY <1>0, <2>1, <2>2 DEF Told, SafeReason
  <2> QED
    BY <2>1, <2>3 DEF Outside
<1> QED
  BY <1>1, <1>2, <1>3, <1>4, <1>5, <1>6, <1>7 DEF Elsewhere

\* Such a step keeps the invariant.
LEMMA OutsideKeeps ==
  ASSUME DesktopInv, HandlerInv', NEW c \in Conn, Outside(c)
  PROVE  DesktopInv'
<1>1. DesktopTypeOK' /\ EntersOwnText'
  BY DEF DesktopInv, HandlerInv, DesktopTypeOK, EntersOwnText, Outside, desk, Text
<1>2. ASSUME NEW d \in Conn PROVE Where(d)' /\ SoFar(d)' /\ Told(d)'
  <2>1. Where(d)'
    BY DEF DesktopInv, Where, Outside, desk, Remains
  <2>2. SoFar(d)'
    BY DEF DesktopInv, SoFar, Outside, desk
  <2>3. Told(d)'
    BY DEF DesktopInv, Told, Tells, ReasonOf, SafeReason, Outside, desk
  <2> QED
    BY <2>1, <2>2, <2>3
<1>3. ClipboardInv'
  BY DEF DesktopInv, ClipboardInv, Outside, desk
<1> QED
  BY <1>1, <1>2, <1>3 DEF DesktopInv

\* So do the clock, the user and stuttering.
LEMMA NothingHappens ==
  ASSUME DesktopInv, HandlerInv', UNCHANGED <<desk, cfg, injectMu, pc, req, pending, reply>>
  PROVE  DesktopInv'
<1>1. DesktopTypeOK' /\ EntersOwnText' /\ ClipboardInv'
  BY DEF DesktopInv, HandlerInv, DesktopTypeOK, EntersOwnText, ClipboardInv, desk, Text
<1>2. \A d \in Conn : Where(d)' /\ SoFar(d)' /\ Told(d)'
  BY DEF DesktopInv, Where, Remains, SoFar, Told, Tells, ReasonOf, SafeReason, desk
<1> QED
  BY <1>1, <1>2 DEF DesktopInv


-----------------------------------------------------------------------------
(* Steps of a method. Only the connection that injects is in one.            *)

\* What ClipboardInv says when c is that connection.
ClipboardAt(c) ==
  ~cfg.clipBlocked =>
    /\ at[c] = "paste" => clip = c
    /\ ~spoiled =>
         /\ at[c] \in Replaced \cup {"copy"} => kept[c] \in {NoText, placed}
         /\ at[c] \notin Replaced => clip = placed

\* While a connection injects no other is in a method, and none offers its text if blocked texts stay off the clipboard.
LEMMA Alone ==
  ASSUME DesktopInv, NEW c \in Conn, pc[c] = "injecting"
  PROVE  /\ \A d \in Conn \ {c} : at[d] \in {"none", "over"} /\ pc[d] # "injecting"
         /\ ~cfg.clipBlocked => \A d \in Conn : pc[d] # "clipboard"
         /\ ClipboardAt(c)
<1>1. injectMu = c
  BY DEF DesktopInv, HandlerInv, LockInv, UnderMutex
<1>2. \A d \in Conn \ {c} : at[d] \in {"none", "over"} /\ pc[d] # "injecting"
  BY <1>1 DEF DesktopInv, HandlerInv, LockInv, UnderMutex, Where
<1>3. ~cfg.clipBlocked => \A d \in Conn : pc[d] # "clipboard"
  BY <1>1 DEF DesktopInv, ClipboardInv
<1>4. ClipboardAt(c)
  BY <1>2 DEF DesktopInv, ClipboardInv, ClipboardAt, Replaced
<1> QED
  BY <1>2, <1>3, <1>4

\* A step of the injecting connection that types into the focused window or is invisible
\* to the handlers keeps their invariant and moves nothing but the history of windows.
LEMMA MethodFrame ==
  ASSUME DesktopInv, NEW c \in Conn, TypeInto(c) \/ UNCHANGED vars
  PROVE  HandlerInv' /\ UNCHANGED <<cfg, injectMu, pc, req, pending, reply>>
<1>1. [Next]_vars
  BY DEF Next, Handle
<1>2. HandlerInv'
  BY <1>1, StepHandler DEF DesktopInv
<1>3. UNCHANGED <<cfg, injectMu, pc, req, pending, reply>>
  BY DEF TypeInto, environment, vars
<1> QED
  BY <1>2, <1>3

\* What is left to prove for a step inside a method.
LEMMA InsideKeeps ==
  ASSUME DesktopInv, NEW c \in Conn, pc[c] = "injecting",
         TypeInto(c) \/ UNCHANGED vars, UNCHANGED <<backend, placed>>,
         \A d \in Conn \ {c} : /\ at'[d] = at[d] /\ plan'[d] = plan[d]
                               /\ entered'[d] = entered[d] /\ worked'[d] = worked[d],
         DesktopTypeOK', at'[c] \notin {"none", "over"}, Remains(plan[c])',
         at'[c] \in Replaced \cup {"copy", "pasted"} => backend.os = "darwin",
         SoFar(c)', ClipboardAt(c)', ~cfg.clipBlocked => entered'[c] \subseteq {c}
  PROVE  DesktopInv'
<1>1. HandlerInv' /\ UNCHANGED <<cfg, injectMu, pc, req, pending, reply>>
  BY MethodFrame
<1>3. EntersOwnText'
  BY <1>1 DEF DesktopInv, EntersOwnText
<1>4. ASSUME NEW d \in Conn PROVE Where(d)'
  BY <1>1 DEF DesktopInv, Where, Remains, BeforeInjection
<1>5. ASSUME NEW d \in Conn PROVE SoFar(d)'
  BY <1>1 DEF DesktopInv, SoFar
<1>6. ASSUME NEW d \in Conn PROVE Told(d)'
  BY <1>1 DEF DesktopInv, Told, Tells, ReasonOf, SafeReason
<1>7. ClipboardInv'
  BY <1>1, Alone DEF DesktopInv, ClipboardInv, ClipboardAt, Replaced
<1> QED
  BY <1>1, <1>3, <1>4, <1>5, <1>6, <1>7 DEF DesktopInv

\* Something may be entered into the window of connection c.
LEMMA EnterFacts ==
  ASSUME DesktopTypeOK, NEW c \in Conn, NEW text \in Text, MayEnter(c, text)
  PROVE  /\ TypeInto(c) \/ UNCHANGED vars
         /\ entered' \in [Conn -> SUBSET Text]
         /\ \A d \in Conn \ {c} : entered'[d] = entered[d]
         /\ entered'[c] \subseteq entered[c] \cup {text}
  BY DEF MayEnter, Enter, DesktopTypeOK

\* The types after a step inside a method.
LEMMA InsideType ==
  ASSUME DesktopInv, NEW c \in Conn, TypeInto(c) \/ UNCHANGED vars, UNCHANGED <<backend, placed>>,
         plan' = [plan EXCEPT ![c] = plan'[c]], Remains(plan[c])',
         at' \in [Conn -> Places],
         entered' \in [Conn -> SUBSET Text], worked' \in [Conn -> SUBSET Results],
         clip' \in Text, kept' \in [Conn -> Text], spoiled' \in BOOLEAN
  PROVE  DesktopTypeOK'
<1>1. plan'[c] \in Seq(Methods) /\ Len(plan'[c]) <= 2
  <2> DEFINE p == plan'[c]
  <2>1. Remains(p)
    BY DEF Remains
  <2> QED
    BY <2>1, PlanType
<1>2. plan' \in [Conn -> Seq(Methods)] /\ \A d \in Conn : Len(plan'[d]) <= 2
  BY <1>1 DEF DesktopInv, DesktopTypeOK
<1>3. TypeOK'
  BY MethodFrame DEF HandlerInv
<1>4. backend' \in Backends /\ placed' \in Text
  BY DEF DesktopInv, DesktopTypeOK, Text
<1> QED
  BY <1>2, <1>3, <1>4 DEF DesktopTypeOK, Text

\* Where a step inside a method begins and ends.
LEMMA InsideFacts ==
  ASSUME DesktopInv, NEW c \in Conn, NEW place \in Places \ Results, NEW next \in Places,
         Inside(c, place, next)
  PROVE  /\ pc[c] = "injecting" /\ at[c] = place /\ at'[c] = next /\ UNCHANGED backend
         /\ DesktopTypeOK /\ ClipboardAt(c) /\ (~cfg.clipBlocked => entered[c] \subseteq {c})
<1>1. pc[c] = "injecting" /\ at[c] = place /\ UNCHANGED backend
  BY DEF Inside
<1>2. DesktopTypeOK /\ ClipboardAt(c)
  BY <1>1, Alone DEF DesktopInv
<1>3. at'[c] = next
  BY <1>2 DEF Inside, DesktopTypeOK
<1>4. ~cfg.clipBlocked => entered[c] \subseteq {c}
  BY DEF DesktopInv, EntersOwnText
<1> QED
  BY <1>1, <1>2, <1>3, <1>4

\* What it does to the history of its method.
LEMMA InsideHistory ==
  ASSUME DesktopInv, NEW c \in Conn, NEW place \in Places \ Results, NEW next \in Places,
         Inside(c, place, next)
  PROVE  /\ at' \in [Conn -> Places] /\ worked' \in [Conn -> SUBSET Results]
         /\ \A d \in Conn \ {c} : at'[d] = at[d] /\ worked'[d] = worked[d]
         /\ worked'[c] = IF next \in Results THEN {next} ELSE {}
<1>1. pc[c] = "injecting" /\ at[c] = place
  BY DEF Inside
<1>2. DesktopTypeOK /\ Where(c) /\ SoFar(c)
  BY DEF DesktopInv
<1>3. worked[c] = {}
  BY <1>1, <1>2 DEF SoFar, Where
<1> QED
  BY <1>2, <1>3 DEF Inside, DesktopTypeOK

\* What a step of a method has to show for itself.
LEMMA MethodKeeps ==
  ASSUME DesktopInv, NEW c \in Conn, NEW place \in Places \ Results,
         NEW next \in Places \ {"none", "over"},
         Inside(c, place, next), TypeInto(c) \/ UNCHANGED vars, UNCHANGED placed,
         next \in Replaced \cup {"copy", "pasted"} => backend.os = "darwin",
         plan' = [plan EXCEPT ![c] = plan'[c]], Remains(plan[c])',
         entered' \in [Conn -> SUBSET Text], \A d \in Conn \ {c} : entered'[d] = entered[d],
         ~cfg.clipBlocked => entered'[c] \subseteq {c},
         ClipboardAt(c)', clip' \in Text, kept' \in [Conn -> Text], spoiled' \in BOOLEAN
  PROVE  DesktopInv'
<1>0. Inside(c, place, next) /\ place \in Places \ Results /\ next \in Places
  OBVIOUS
<1>1. /\ pc[c] = "injecting" /\ at'[c] = next /\ UNCHANGED backend /\ DesktopTypeOK
  BY <1>0, InsideFacts
<1>5. /\ at' \in [Conn -> Places] /\ worked' \in [Conn -> SUBSET Results]
      /\ \A d \in Conn \ {c} : at'[d] = at[d] /\ worked'[d] = worked[d]
      /\ worked'[c] = IF next \in Results THEN {next} ELSE {}
  BY <1>0, InsideHistory
<1>2. DesktopTypeOK'
  BY <1>1, <1>5, InsideType
<1>3. SoFar(c)'
  BY <1>1, <1>5 DEF SoFar
<1>4. \A d \in Conn \ {c} : plan'[d] = plan[d]
  BY <1>1 DEF DesktopTypeOK
<1> QED
  BY <1>1, <1>2, <1>3, <1>4, <1>5, InsideKeeps

\* What trying a method leaves of the plan.
LEMMA TriesFacts ==
  ASSUME DesktopInv, NEW c \in Conn, NEW method, Tries(c, method), UNCHANGED backend
  PROVE  /\ plan' = [plan EXCEPT ![c] = plan'[c]]
         /\ Remains(plan[c])'
         /\ method = "paste" => backend.os = "darwin"
<1> DEFINE p == plan[c]
<1>1. Remains(p) /\ p # <<>> /\ Head(p) = method
  BY DEF Tries, DesktopInv, Where
<1>2. plan'[c] = Tail(p)
  BY DEF Tries, DesktopInv, DesktopTypeOK
<1>3. Remains(Tail(p)) /\ (Head(p) = "paste" => backend.os = "darwin")
  BY <1>1, RestOfPlan
<1>4. Remains(plan[c])'
  BY <1>2, <1>3 DEF Remains
<1>5. plan' = [plan EXCEPT ![c] = plan'[c]]
  BY DEF Tries, DesktopInv, DesktopTypeOK
<1> QED
  BY <1>1, <1>3, <1>4, <1>5

\* A key stroke enters a connection's own text.
LEMMA KeyStrokeKeeps ==
  ASSUME DesktopInv, NEW c \in Conn, KeyStroke(c)
  PROVE  DesktopInv'
<1>1. /\ TypeInto(c) /\ pc[c] = "injecting" /\ at[c] = "try"
      /\ UNCHANGED <<backend, clip, plan, at, kept, worked, placed, spoiled>> /\ UNCHANGED cfg
  BY DEF KeyStroke, Enter, TypeInto, environment
<1>2. /\ DesktopTypeOK /\ SoFar(c) /\ ClipboardAt(c) /\ Remains(plan[c])
      /\ ~cfg.clipBlocked => entered[c] \subseteq {c}
  BY <1>1, Alone DEF DesktopInv, Where, EntersOwnText
<1>3. /\ entered' \in [Conn -> SUBSET Text]
      /\ \A d \in Conn \ {c} : entered'[d] = entered[d]
      /\ entered'[c] \subseteq entered[c] \cup {c}
  <2>1. MayEnter(c, c) /\ c \in Text
    BY DEF KeyStroke, MayEnter, Text
  <2> QED
    BY <1>2, <2>1, EnterFacts
<1>4. Remains(plan[c])' /\ plan' = [plan EXCEPT ![c] = plan'[c]]
  BY <1>1, <1>2 DEF Remains, DesktopTypeOK
<1>5. DesktopTypeOK'
  <2>1. /\ at' \in [Conn -> Places] /\ worked' \in [Conn -> SUBSET Results]
        /\ clip' \in Text /\ kept' \in [Conn -> Text] /\ spoiled' \in BOOLEAN
    BY <1>1, <1>2 DEF DesktopTypeOK, Text
  <2> QED
    BY <1>1, <1>3, <1>4, <2>1, InsideType
<1>6. SoFar(c)' /\ ClipboardAt(c)'
  BY <1>1, <1>2 DEF SoFar, Results, ClipboardAt
<1>7. at'[c] = "try" /\ at'[c] \notin Replaced
  BY <1>1 DEF Replaced
<1> QED
  BY <1>1, <1>2, <1>3, <1>4, <1>5, <1>6, <1>7, InsideKeeps

\* The outcome of typing leaves the desktop as it is.
LEMMA TypeTextKeeps ==
  ASSUME DesktopInv, NEW c \in Conn, NEW next \in {"typed", "try"}, TypeText(c, next)
  PROVE  DesktopInv'
<1>0. /\ Inside(c, "try", next) /\ Tries(c, "type")
      /\ UNCHANGED <<vars, entered, clip, kept, placed, spoiled>> /\ UNCHANGED cfg
      /\ "try" \in Places \ Results /\ next \in Places \ {"none", "over"} /\ next \notin Replaced
  BY DEF TypeText, Places, Results, Replaced, vars
<1>1. /\ at[c] = "try" /\ at'[c] = next /\ DesktopTypeOK /\ ClipboardAt(c) /\ UNCHANGED backend
      /\ ~cfg.clipBlocked => entered[c] \subseteq {c}
  BY <1>0, InsideFacts
<1>2. plan' = [plan EXCEPT ![c] = plan'[c]] /\ Remains(plan[c])'
  BY <1>0, <1>1, TriesFacts
<1>3. ClipboardAt(c)'
  BY <1>0, <1>1 DEF ClipboardAt, Replaced
<1>4. /\ entered' \in [Conn -> SUBSET Text] /\ \A d \in Conn \ {c} : entered'[d] = entered[d]
      /\ clip' \in Text /\ kept' \in [Conn -> Text] /\ spoiled' \in BOOLEAN
  BY <1>0, <1>1 DEF DesktopTypeOK, Text
<1> QED
  BY <1>0, <1>1, <1>2, <1>3, <1>4, MethodKeeps

\* Messages to a control enter a connection's own text, be it taken for delivered or for lost.
LEMMA SendMessagesKeeps ==
  ASSUME DesktopInv, NEW c \in Conn, NEW next \in {"direct", "try"}, SendMessages(c, next)
  PROVE  DesktopInv'
<1>0. /\ Inside(c, "try", next) /\ Tries(c, "direct") /\ MayEnter(c, c)
      /\ UNCHANGED <<clip, kept, placed, spoiled>>
      /\ "try" \in Places \ Results /\ next \in Places \ {"none", "over"} /\ next \notin Replaced
  BY DEF SendMessages, Places, Results, Replaced
<1>1. /\ at[c] = "try" /\ at'[c] = next /\ DesktopTypeOK /\ ClipboardAt(c) /\ UNCHANGED backend
      /\ ~cfg.clipBlocked => entered[c] \subseteq {c}
  BY <1>0, InsideFacts
<1>2. plan' = [plan EXCEPT ![c] = plan'[c]] /\ Remains(plan[c])'
  BY <1>0, <1>1, TriesFacts
<1>3. /\ TypeInto(c) \/ UNCHANGED vars
      /\ entered' \in [Conn -> SUBSET Text] /\ \A d \in Conn \ {c} : entered'[d] = entered[d]
      /\ entered'[c] \subseteq entered[c] \cup {c}
  <2>1. c \in Text
    BY DEF Text
  <2> QED
    BY <1>0, <1>1, <2>1, EnterFacts
<1>4. UNCHANGED cfg
  BY <1>3, MethodFrame
<1>5. ClipboardAt(c)'
  BY <1>0, <1>1, <1>4 DEF ClipboardAt, Replaced
<1>6. clip' \in Text /\ kept' \in [Conn -> Text] /\ spoiled' \in BOOLEAN
  BY <1>0, <1>1 DEF DesktopTypeOK, Text
<1> QED
  BY <1>0, <1>1, <1>2, <1>3, <1>5, <1>6, MethodKeeps

\* What a paste saves is what the user is to find, or nothing.
LEMMA SaveClipboardKeeps ==
  ASSUME DesktopInv, NEW c \in Conn, NEW ok \in BOOLEAN, SaveClipboard(c, ok)
  PROVE  DesktopInv'
<1>0. /\ Inside(c, "try", "copy") /\ Tries(c, "paste")
      /\ UNCHANGED <<vars, clip, entered, placed, spoiled>> /\ UNCHANGED cfg
      /\ "try" \in Places \ Results /\ "copy" \in Places \ {"none", "over"}
  BY DEF SaveClipboard, Places, Results, vars
<1>1. /\ at[c] = "try" /\ at'[c] = "copy" /\ DesktopTypeOK /\ ClipboardAt(c) /\ UNCHANGED backend
      /\ ~cfg.clipBlocked => entered[c] \subseteq {c}
  BY <1>0, InsideFacts
<1>2. plan' = [plan EXCEPT ![c] = plan'[c]] /\ Remains(plan[c])' /\ backend.os = "darwin"
  BY <1>0, <1>1, TriesFacts
<1>3. /\ kept'[c] \in {NoText, clip} /\ kept' \in [Conn -> Text]
      /\ clip' \in Text /\ spoiled' \in BOOLEAN
  BY <1>0, <1>1 DEF SaveClipboard, DesktopTypeOK, Text
<1>4. ClipboardAt(c)'
  BY <1>0, <1>1, <1>3 DEF ClipboardAt, Replaced
<1>5. entered' \in [Conn -> SUBSET Text] /\ \A d \in Conn \ {c} : entered'[d] = entered[d]
  BY <1>0, <1>1 DEF DesktopTypeOK
<1> QED
  BY <1>0, <1>1, <1>2, <1>3, <1>4, <1>5, MethodKeeps

\* Where a paste has begun the plan stays.
LEMMA PasteFacts ==
  ASSUME DesktopInv, NEW c \in Conn, at[c] \in Replaced \cup {"copy"}, pc[c] = "injecting",
         UNCHANGED <<plan, backend>>
  PROVE  plan' = [plan EXCEPT ![c] = plan'[c]] /\ Remains(plan[c])' /\ backend.os = "darwin"
  BY DEF DesktopInv, Where, Remains, DesktopTypeOK

\* The text replaces what was saved.
LEMMA CopyTextKeeps ==
  ASSUME DesktopInv, NEW c \in Conn, NEW next \in {"paste", "try"}, CopyText(c, next)
  PROVE  DesktopInv'
<1>0. /\ Inside(c, "copy", next) /\ UNCHANGED <<vars, plan, kept, entered, placed, spoiled>>
      /\ UNCHANGED cfg
      /\ "copy" \in Places \ Results /\ next \in Places /\ next \in Places \ {"none", "over"}
  BY DEF CopyText, Places, Results, vars
<1>1. /\ pc[c] = "injecting" /\ at[c] = "copy" /\ at'[c] = next
      /\ DesktopTypeOK /\ ClipboardAt(c) /\ UNCHANGED backend
      /\ ~cfg.clipBlocked => entered[c] \subseteq {c}
  BY <1>0, InsideFacts
<1>2. plan' = [plan EXCEPT ![c] = plan'[c]] /\ Remains(plan[c])' /\ backend.os = "darwin"
  BY <1>0, <1>1, PasteFacts
<1>3. /\ next = "paste" => clip' = c
      /\ next = "try" => clip' = clip
      /\ kept' \in [Conn -> Text] /\ clip' \in Text /\ spoiled' \in BOOLEAN
  BY <1>0, <1>1 DEF CopyText, DesktopTypeOK, Text
<1>4. ClipboardAt(c)'
  BY <1>0, <1>1, <1>3 DEF ClipboardAt, Replaced
<1>5. entered' \in [Conn -> SUBSET Text] /\ \A d \in Conn \ {c} : entered'[d] = entered[d]
  BY <1>0, <1>1 DEF DesktopTypeOK
<1> QED
  BY <1>0, <1>1, <1>2, <1>3, <1>4, <1>5, MethodKeeps

\* A paste enters the text that the same connection has copied.
LEMMA PressPasteKeeps ==
  ASSUME DesktopInv, NEW c \in Conn, NEW next \in {"restorePasted", "restoreFailed"},
         PressPaste(c, next)
  PROVE  DesktopInv'
<1>0. Inside(c, "paste", next) /\ "paste" \in Places \ Results /\ next \in Places
  BY DEF PressPaste, Places, Results
<1>8. /\ MayEnter(c, clip) /\ UNCHANGED <<clip, plan, kept, placed, spoiled>>
      /\ next \in Places \ {"none", "over"}
  BY DEF PressPaste, Places
<1>1. /\ pc[c] = "injecting" /\ at[c] = "paste" /\ at'[c] = next
      /\ DesktopTypeOK /\ ClipboardAt(c) /\ UNCHANGED backend
      /\ ~cfg.clipBlocked => entered[c] \subseteq {c}
  BY <1>0, InsideFacts
<1>2. plan' = [plan EXCEPT ![c] = plan'[c]] /\ Remains(plan[c])' /\ backend.os = "darwin"
  BY <1>0, <1>8, <1>1, PasteFacts DEF Replaced
<1>3. /\ TypeInto(c) \/ UNCHANGED vars
      /\ entered' \in [Conn -> SUBSET Text] /\ \A d \in Conn \ {c} : entered'[d] = entered[d]
      /\ entered'[c] \subseteq entered[c] \cup {clip}
  <2>1. clip \in Text
    BY <1>1 DEF DesktopTypeOK
  <2> QED
    BY <1>0, <1>8, <1>1, <2>1, EnterFacts
<1>4. ~cfg.clipBlocked => entered'[c] \subseteq {c}
  BY <1>1, <1>3 DEF ClipboardAt
<1>5. UNCHANGED cfg
  BY <1>3, MethodFrame
<1>6. ClipboardAt(c)'
  BY <1>0, <1>8, <1>1, <1>5 DEF ClipboardAt, Replaced
<1>7. clip' \in Text /\ kept' \in [Conn -> Text] /\ spoiled' \in BOOLEAN
  BY <1>0, <1>8, <1>1 DEF DesktopTypeOK, Text
<1> QED
  BY <1>0, <1>8, <1>1, <1>2, <1>3, <1>4, <1>6, <1>7, MethodKeeps

\* What was saved is put back, or given up for lost.
LEMMA RestoreClipboardKeeps ==
  ASSUME DesktopInv, NEW c \in Conn, NEW place \in {"restorePasted", "restoreFailed"},
         NEW ok \in BOOLEAN, RestoreClipboard(c, place, ok)
  PROVE  DesktopInv'
<1> DEFINE next == AfterRestore(place)
<1>0. /\ Inside(c, place, next) /\ UNCHANGED <<vars, plan, kept, entered, placed>> /\ UNCHANGED cfg
      /\ place \in Places \ Results /\ next \in Places \ {"none", "over"}
      /\ next \notin Replaced \cup {"copy"} /\ place \in Replaced
  BY DEF RestoreClipboard, AfterRestore, Places, Results, Replaced, vars
<1>1. /\ pc[c] = "injecting" /\ at[c] = place /\ at'[c] = next
      /\ DesktopTypeOK /\ ClipboardAt(c) /\ UNCHANGED backend
      /\ ~cfg.clipBlocked => entered[c] \subseteq {c}
  BY <1>0, InsideFacts
<1>2. plan' = [plan EXCEPT ![c] = plan'[c]] /\ Remains(plan[c])' /\ backend.os = "darwin"
  BY <1>0, <1>1, PasteFacts
<1>3. \/ spoiled' = TRUE /\ clip' = clip
      \/ spoiled' = spoiled /\ kept[c] # NoText /\ clip' = kept[c]
  BY DEF RestoreClipboard
<1>4. /\ kept' \in [Conn -> Text] /\ clip' \in Text /\ spoiled' \in BOOLEAN
      /\ entered' \in [Conn -> SUBSET Text] /\ \A d \in Conn \ {c} : entered'[d] = entered[d]
  BY <1>0, <1>1, <1>3 DEF DesktopTypeOK, Text
<1>5. ClipboardAt(c)'
  BY <1>0, <1>1, <1>3 DEF ClipboardAt, Replaced
<1> QED
  BY <1>0, <1>1, <1>2, <1>4, <1>5, MethodKeeps

-----------------------------------------------------------------------------
(* The steps that begin and end an injection, and the clipboard offer.       *)

\* An injection begins with a plan and with nothing entered.
LEMMA BeginKeeps ==
  ASSUME DesktopInv, HandlerInv', NEW c \in Conn, Begin(c)
  PROVE  DesktopInv'
<1>1. /\ pc[c] = "inject" /\ pc'[c] = "injecting" /\ at'[c] = "try"
      /\ UNCHANGED <<cfg, injectMu, req, pending, reply>>
      /\ UNCHANGED <<backend, clip, kept, entered, worked, placed, spoiled>>
      /\ \A d \in Conn \ {c} : pc'[d] = pc[d] /\ at'[d] = at[d] /\ plan'[d] = plan[d]
      /\ at' \in [Conn -> Places]
  BY DEF DesktopInv, HandlerInv, TypeOK, DesktopTypeOK, Begin, StartInject, Goto, environment, Places
<1>2. at[c] = "none" /\ worked[c] = {}
  BY <1>1 DEF DesktopInv, Where, SoFar, Results, BeforeInjection
<1>3. PICK p \in Plans : plan' = [plan EXCEPT ![c] = p]
  BY DEF Begin
<1>4. Remains(p) /\ p \in Seq(Methods) /\ Len(p) <= 2
  <2>1. backend \in Backend
    BY DesktopAssumption DEF DesktopInv, DesktopTypeOK
  <2> QED
    BY <2>1, PlansRemain, PlanType
<1>5. plan'[c] = p
  BY <1>3 DEF DesktopInv, DesktopTypeOK
<1>6. DesktopTypeOK'
  <2>1. plan' \in [Conn -> Seq(Methods)] /\ \A d \in Conn : Len(plan'[d]) <= 2
    BY <1>1, <1>3, <1>4, <1>5 DEF DesktopInv, DesktopTypeOK
  <2> QED
    BY <1>1, <2>1 DEF DesktopInv, DesktopTypeOK, HandlerInv, Text
<1>7. EntersOwnText'
  BY <1>1 DEF DesktopInv, EntersOwnText
<1>8. ASSUME NEW d \in Conn PROVE Where(d)'
  BY <1>1, <1>4, <1>5 DEF DesktopInv, Where, Remains, BeforeInjection, Replaced
<1>9. ASSUME NEW d \in Conn PROVE SoFar(d)'
  BY <1>1, <1>2 DEF DesktopInv, SoFar, Results
<1>10. ASSUME NEW d \in Conn PROVE Told(d)'
  BY <1>1 DEF DesktopInv, Told, Tells, ReasonOf, SafeReason
<1>11. ClipboardInv'
  BY <1>1, <1>2 DEF DesktopInv, ClipboardInv, Replaced
<1> QED
  BY <1>6, <1>7, <1>8, <1>9, <1>10, <1>11 DEF DesktopInv

\* An injection that is over leaves the desktop as it is.
LEMMA EndKeeps ==
  ASSUME DesktopInv, HandlerInv', NEW c \in Conn, Ends(c),
         UNCHANGED <<cfg, injectMu, req, reply>>,
         pc[c] \in {"inject", "injecting"}, pc'[c] \in {"clipboard", "respond"},
         at[c] \notin Replaced,
         \A d \in Conn \ {c} : pc'[d] = pc[d] /\ pending'[d] = pending[d],
         Tells(c, pending'[c]),
         pending'[c].status = "OK" => pc'[c] = "respond" /\ pending'[c].reason \in ClientReason
  PROVE  DesktopInv'
<1>1. /\ at'[c] = "over" /\ \A d \in Conn \ {c} : at'[d] = at[d]
      /\ at' \in [Conn -> Places]
      /\ UNCHANGED <<backend, clip, plan, kept, entered, worked, placed, spoiled>>
      /\ reply[c] = NoReply /\ injectMu = c
  BY DEF DesktopInv, HandlerInv, LockInv, UnderMutex, DesktopTypeOK, Ends, Places, Told
<1>2. DesktopTypeOK' /\ EntersOwnText'
  BY <1>1 DEF DesktopInv, HandlerInv, DesktopTypeOK, EntersOwnText, Text
<1>3. ASSUME NEW d \in Conn PROVE Where(d)' /\ SoFar(d)'
  BY <1>1 DEF DesktopInv, Where, Remains, BeforeInjection, Replaced, SoFar, Results
<1>4. ASSUME NEW d \in Conn PROVE Told(d)'
  BY <1>1 DEF DesktopInv, Told, Tells, ReasonOf, SafeReason
<1>5. ClipboardInv'
  BY <1>1 DEF DesktopInv, ClipboardInv, Replaced
<1> QED
  BY <1>2, <1>3, <1>4, <1>5 DEF DesktopInv

\* The method that has reported success is the one that OK tells of.
LEMMA SucceedKeeps ==
  ASSUME DesktopInv, HandlerInv', NEW c \in Conn, Succeed(c)
  PROVE  DesktopInv'
<1>1. /\ pc[c] = "injecting" /\ pc'[c] = "respond"
      /\ pending'[c] = Ans("OK", ReasonOf(at[c]))
      /\ ReasonOf(at[c]) \in {"ok", "typing_fallback", "clipboard_fallback"}
      /\ UNCHANGED <<cfg, injectMu, req, reply>>
      /\ \A d \in Conn \ {c} : pc'[d] = pc[d] /\ pending'[d] = pending[d]
  BY DEF DesktopInv, HandlerInv, TypeOK, Succeed, FinishInject, Settle, Goto, environment
<1>2. at[c] \in Results \ Replaced /\ Ends(c)
  BY DEF Succeed, Results, Replaced
<1>3. /\ pending'[c].status = "OK" /\ pending'[c].reason = ReasonOf(at[c])
      /\ pending'[c].reason \in ClientReason
  BY <1>1 DEF Ans, ClientReason
<1>4. worked[c] = {at[c]}
  BY <1>2 DEF DesktopInv, SoFar
<1>5. Tells(c, pending'[c])
  BY <1>2, <1>3, <1>4 DEF Tells
<1> QED
  BY <1>1, <1>2, <1>3, <1>5, EndKeeps

\* No method has reported success where none is left.
LEMMA GiveUpKeeps ==
  ASSUME DesktopInv, HandlerInv', NEW c \in Conn, GiveUp(c)
  PROVE  DesktopInv'
<1>1. /\ pc[c] \in {"inject", "injecting"} /\ pc'[c] \in {"clipboard", "respond"}
      /\ pending'[c].status = "Internal"
      /\ UNCHANGED <<cfg, injectMu, req, reply>>
      /\ \A d \in Conn \ {c} : pc'[d] = pc[d] /\ pending'[d] = pending[d]
  BY DEF DesktopInv, HandlerInv, TypeOK, GiveUp, FailInject, Block, Goto, Ans, environment
<1>2. at[c] \in {"none", "try"} /\ Ends(c)
  BY DEF GiveUp
<1>3. worked[c] = {}
  BY <1>2 DEF DesktopInv, SoFar, Results
<1>4. Tells(c, pending'[c])
  BY <1>1, <1>3 DEF Tells
<1> QED
  BY <1>1, <1>2, <1>4, EndKeeps DEF Replaced

\* A text is offered when no paste is under way, or blocked texts go to the clipboard anyway.
LEMMA OfferKeeps ==
  ASSUME DesktopInv, HandlerInv', NEW c \in Conn, NEW ok \in BOOLEAN, Offer(c, ok)
  PROVE  DesktopInv'
<1>1. /\ pc[c] = "clipboard" /\ pc'[c] = "respond"
      /\ pending'[c].status = "OKClipboard" \/ pending'[c] = pending[c]
      /\ pending[c].status # "OK"
      /\ UNCHANGED <<cfg, injectMu, req, reply>>
      /\ \A d \in Conn \ {c} : pc'[d] = pc[d] /\ pending'[d] = pending[d]
  BY DEF DesktopInv, HandlerInv, TypeOK, Offer, SetClipboard, Settle, Goto, Ans, environment, Told
<1>2. /\ UNCHANGED <<backend, plan, at, kept, entered, worked>>
      /\ \/ clip' = c /\ placed' = c /\ spoiled' = spoiled
         \/ clip' = clip /\ placed' = placed /\ spoiled' = spoiled
         \/ clip' = NoText /\ placed' = placed /\ spoiled' = TRUE
  BY DEF Offer, OfferFails
<1>3. reply[c] = NoReply
  BY <1>1 DEF DesktopInv, Told
<1>4. DesktopTypeOK'
  <2>1. clip' \in Text /\ placed' \in Text /\ spoiled' \in BOOLEAN
    BY <1>2 DEF DesktopInv, DesktopTypeOK, Text
  <2>2. TypeOK'
    BY DEF HandlerInv
  <2> QED
    BY <1>2, <2>1, <2>2 DEF DesktopInv, DesktopTypeOK, Text
<1>5. EntersOwnText'
  BY <1>1, <1>2 DEF DesktopInv, EntersOwnText
<1>6. ASSUME NEW d \in Conn PROVE Where(d)'
  BY <1>1, <1>2 DEF DesktopInv, Where, Remains, BeforeInjection
<1>7. ASSUME NEW d \in Conn PROVE SoFar(d)'
  BY <1>1, <1>2 DEF DesktopInv, SoFar
<1>8. ASSUME NEW d \in Conn PROVE Told(d)'
  BY <1>1, <1>2, <1>3 DEF DesktopInv, Told, Tells, ReasonOf, SafeReason
<1>9. ClipboardInv'
  <2>1. SUFFICES ASSUME ~cfg.clipBlocked PROVE ClipboardInv'
    BY <1>1 DEF ClipboardInv
  <2>2. injectMu = c
    BY <1>1, <2>1 DEF DesktopInv, ClipboardInv
  <2>3. \A d \in Conn : pc[d] # "injecting"
    BY <1>1, <2>2 DEF DesktopInv, HandlerInv, LockInv, UnderMutex
  <2>4. \A d \in Conn : at[d] \in {"none", "over"}
    BY <2>3 DEF DesktopInv, Where
  <2>5. ~spoiled => clip = placed
    BY <2>1, <2>4 DEF DesktopInv, ClipboardInv, Replaced
  <2>6. \A d \in Conn : pc'[d] = "clipboard" => injectMu' = d
    BY <1>1, <2>1 DEF DesktopInv, ClipboardInv
  <2> QED
    BY <1>2, <2>4, <2>5, <2>6 DEF ClipboardInv, Replaced
<1> QED
  BY <1>4, <1>5, <1>6, <1>7, <1>8, <1>9 DEF DesktopInv

-----------------------------------------------------------------------------
(* The theorems.                                                             *)

\* Every step keeps the invariant.
LEMMA StepDesktop == DesktopInv /\ [DesktopNext]_deskVars => DesktopInv'
<1> SUFFICES ASSUME DesktopInv, [DesktopNext]_deskVars PROVE DesktopInv'
  OBVIOUS
<1>0. HandlerInv'
  BY DesktopImplements, StepHandler DEF DesktopInv
<1>1. ASSUME NEW c \in Conn, Inject(c) PROVE DesktopInv'
  BY <1>0, <1>1, BeginKeeps, KeyStrokeKeeps, TypeTextKeeps, SendMessagesKeeps, SaveClipboardKeeps, CopyTextKeeps,
     PressPasteKeeps, RestoreClipboardKeeps, SucceedKeeps, GiveUpKeeps
  DEF Inject
<1>2. ASSUME NEW c \in Conn, NEW ok \in BOOLEAN, Offer(c, ok) PROVE DesktopInv'
  BY <1>0, <1>2, OfferKeeps
<1>3. ASSUME NEW c \in Conn, UNCHANGED desk,
             (\E r \in Request : Receive(c, r)) \/ LockInject(c) \/ Elsewhere(c)
      PROVE  DesktopInv'
  BY <1>0, <1>3, OutsideStep, OutsideKeeps
<1>4. CASE (Tick \/ MoveFocus \/ UNCHANGED vars) /\ UNCHANGED desk
  <2>1. UNCHANGED <<desk, cfg, injectMu, pc, req, pending, reply>>
    BY <1>4 DEF Tick, MoveFocus, vars
  <2> QED
    BY <1>0, <2>1, NothingHappens
<1> QED
  BY <1>1, <1>2, <1>3, <1>4 DEF DesktopNext, DesktopHandle, deskVars

\* The desktop is untouched at first.
LEMMA InitDesktop == DesktopInit => DesktopInv
<1> SUFFICES ASSUME DesktopInit PROVE DesktopInv
  OBVIOUS
<1>1. HandlerInv
  <2>1. TypeOK
    BY HandlerAssumption
    DEF DesktopInit, Init, TypeOK, Serves, Closed, Gate, ApprovalGate, NoRequest, NoAnswer, NoReply, Ans, Answer, Status,
        Reason, Label
  <2>2. LockInv /\ GateInv
    BY HandlerAssumption DEF DesktopInit, Init, LockInv, GateInv, UnderMutex, Closed
  <2>3. PlaceInv /\ SpendInv
    BY HandlerAssumption
    DEF DesktopInit, Init, PlaceInv, Place, SpendInv, OneInjectionPerArm, OneInjectionPerApproval
  <2> QED
    BY <2>1, <2>2, <2>3 DEF HandlerInv
<1>2. DesktopTypeOK
  <2>1. /\ backend \in Backends /\ clip \in Text /\ placed \in Text /\ kept \in [Conn -> Text]
        /\ at \in [Conn -> Places] /\ spoiled \in BOOLEAN
    BY DEF DesktopInit, Text, Places
  <2>2. /\ plan \in [Conn -> Seq(Methods)] /\ \A c \in Conn : Len(plan[c]) <= 2
        /\ entered \in [Conn -> SUBSET Text] /\ worked \in [Conn -> SUBSET Results]
    BY DEF DesktopInit
  <2> QED
    BY <1>1, <2>1, <2>2 DEF DesktopTypeOK, HandlerInv
<1>3. ClipboardInv /\ EntersOwnText
  BY DEF DesktopInit, Init, ClipboardInv, EntersOwnText
<1>4. ASSUME NEW c \in Conn PROVE Where(c) /\ SoFar(c) /\ Told(c)
  BY DEF DesktopInit, Init, Where, Remains, Replaced, SoFar, Results, Told, BeforeInjection, NoRequest,
     NoAnswer, Ans
<1> QED
  BY <1>1, <1>2, <1>3, <1>4 DEF DesktopInv

\* The inductive invariant holds in every state the daemon and the desktop reach.
THEOREM DesktopInvariant == DesktopSpec => []DesktopInv
BY InitDesktop, StepDesktop, PTL DEF DesktopSpec

\* Every variable of the handlers and of the desktop keeps its type.
THEOREM DesktopTypeCorrect == DesktopSpec => []DesktopTypeOK
<1>1. DesktopInv => DesktopTypeOK
  BY DEF DesktopInv
<1> QED
  BY <1>1, DesktopInvariant, PTL

\* The desktop carries out the handlers, and nothing they do not ask for.
THEOREM DesktopRefines == DesktopSpec => Spec
<1>1. DesktopInit => Init
  BY DEF DesktopInit
<1> QED
  BY <1>1, DesktopImplements, PTL DEF DesktopSpec, Spec

\* No injection enters the text of another or the user's, if blocked texts stay off the clipboard.
THEOREM OwnTextOnly == DesktopSpec => []EntersOwnText
<1>1. DesktopInv => EntersOwnText
  BY DEF DesktopInv
<1> QED
  BY <1>1, DesktopInvariant, PTL

\* After an injection the user finds the clipboard as it was, or as a reply said it is.
THEOREM ClipboardBack == DesktopSpec => []ClipboardReturned
<1>1. DesktopInv => ClipboardReturned
  <2> SUFFICES ASSUME DesktopInv, injectMu = NoConn, ~cfg.clipBlocked, ~spoiled PROVE clip = placed
    BY DEF ClipboardReturned
  <2>1. \A c \in Conn : pc[c] # "injecting"
    BY HandlerAssumption DEF DesktopInv, HandlerInv, LockInv, UnderMutex
  <2>2. \A c \in Conn : at[c] \notin Replaced
    BY <2>1 DEF DesktopInv, Where, Replaced
  <2> QED
    BY <2>2 DEF DesktopInv, ClipboardInv
<1> QED
  BY <1>1, DesktopInvariant, PTL

\* SafeReason changes no reason that comes with OK.
LEMMA OkReasonSent ==
  ASSUME NEW reason \in ClientReason
  PROVE  SafeReason(reason) = reason
  BY DEF SafeReason

\* The reply to an inject request is the outcome of the methods it went through.
THEOREM RepliesTell == DesktopSpec => []ToldWhatWorked
<1>1. DesktopInv => ToldWhatWorked
  <2> SUFFICES ASSUME DesktopInv, NEW c \in Conn, req[c].kind = "inject", reply[c] \in Answer
               PROVE  Tells(c, reply[c])
    BY DEF ToldWhatWorked
  <2>1. reply[c] # NoReply /\ reply[c] # Undelivered
    BY DEF Answer, Status, NoReply, Undelivered
  <2>2. /\ reply[c] = Ans(pending[c].status, SafeReason(pending[c].reason))
        /\ Tells(c, pending[c])
        /\ pending[c].status = "OK" => pending[c].reason \in ClientReason
    BY <2>1 DEF DesktopInv, Told
  <2>3. /\ reply[c].status = pending[c].status
        /\ pending[c].status = "OK" => reply[c].reason = pending[c].reason
    BY <2>2, OkReasonSent DEF Ans
  <2> QED
    BY <2>2, <2>3 DEF Tells
<1> QED
  BY <1>1, DesktopInvariant, PTL

\* With the backends spelled out the daemon still keeps the promise of InjectionAuthority.
THEOREM DesktopAuthority == DesktopSpec => ImplementsAuthority
  BY DesktopRefines, Implements, PTL
==============================================================================
