----------------------------- MODULE ListenerProofs -----------------------------
(***************************************************************************)
(* The handlers behind the listener are the handlers of MsgHandler: routes,*)
(* deadlines and the log take nothing from what is proved of them. And     *)
(* whatever the connections do, the log they share keeps its tail.         *)
(***************************************************************************)
EXTENDS Listener, AuthorityProofs, LogWriterProofs

\* The listener takes no step between the handlers but theirs.
LEMMA ServiceImplements == [ServiceNext]_serviceVars => [Next]_vars
<1>1. ASSUME NEW c \in Conn,
             \/ Accept(c) \/ OpenMsg(c) \/ OpenPair(c) \/ Reject(c) \/ CloseMsg(c)
             \/ PairAcked(c) \/ ClosePair(c) \/ PairFails(c) \/ LogPairError(c)
             \/ RejectLoops(c) \/ ServeLoops(c) \/ PairLoops(c)
      PROVE  UNCHANGED vars
  BY <1>1 DEF Accept, OpenMsg, OpenPair, Reject, CloseMsg, PairAcked, ClosePair, PairFails,
     LogPairError, RejectLoops, ServeLoops, PairLoops
<1>2. ASSUME NEW c \in Conn, NEW r \in Request, ReceiveMsg(c, r) PROVE Next
  BY <1>2 DEF ReceiveMsg, Next
<1>3. ASSUME NEW c \in Conn, Lock(c) \/ Serve(c) PROVE Next
  BY <1>3 DEF Lock, Serve, Next
<1>4. CASE UNCHANGED serviceVars
  BY <1>4 DEF serviceVars
<1>5. CASE Tick \/ MoveFocus
  BY <1>5 DEF Next
<1> QED
  BY <1>1, <1>2, <1>3, <1>4, <1>5 DEF ServiceNext, ReadFails

\* A daemon that listens, logs and is talked to on both routes treats requests as MsgHandler says.
THEOREM ServiceRefines == ServiceSpec => Spec
<1>1. ServiceInit => Init
  BY DEF ServiceInit
<1> QED
  BY <1>1, ServiceImplements, PTL DEF ServiceSpec, Spec

\* So one grant lets one injection through, and one at a time, behind the listener too.
THEOREM ServiceExclusive ==
  ServiceSpec => [](InjectionsExclusive /\ OneInjectionPerArm /\ OneInjectionPerApproval)
BY ServiceRefines, Exclusive, ArmUsedOnce, ApprovalUsedOnce, PTL

\* Behind the listener too a reply tells what has happened, ...
THEOREM ServiceTruthful == ServiceSpec => []ReplyTruthful
BY ServiceRefines, Truthfulness, PTL

\* ... a gate that is closed when a goroutine passes it lets nothing through, ...
THEOREM ServiceHonoured == ServiceSpec => GatesHonoured
BY ServiceRefines, Honoured, PTL

\* ... and the daemon with its listener implements the abstract injection authority.
THEOREM ServiceAuthority == ServiceSpec => ImplementsAuthority
BY ServiceRefines, Implements, PTL

-----------------------------------------------------------------------------
\* A step of any connection writes one line of the log or none, or does not come back from it.
LEMMA ServiceLogs == [ServiceNext]_serviceVars => WriteLine \/ LoopLine \/ UNCHANGED logVars
<1>1. ASSUME NEW c \in Conn,
             \/ Reject(c) \/ OpenMsg(c) \/ PairAcked(c) \/ ClosePair(c) \/ LogPairError(c)
      PROVE  WriteLine
  BY <1>1 DEF Reject, OpenMsg, PairAcked, ClosePair, LogPairError
<1>2. ASSUME NEW c \in Conn,
             \/ Accept(c) \/ OpenPair(c) \/ CloseMsg(c) \/ PairFails(c)
             \/ Lock(c) \/ Serve(c)
             \/ \E r \in Request : ReceiveMsg(c, r)
      PROVE  UNCHANGED logVars
  BY <1>2 DEF Accept, OpenPair, CloseMsg, PairFails, Lock, Serve, ReceiveMsg
<1>3. ASSUME NEW c \in Conn, RejectLoops(c) \/ ServeLoops(c) \/ PairLoops(c) PROVE LoopLine
  BY <1>3 DEF RejectLoops, ServeLoops, PairLoops
<1>4. CASE UNCHANGED serviceVars
  BY <1>4 DEF serviceVars
<1> QED
  BY <1>1, <1>2, <1>3, <1>4 DEF ServiceNext, ReadFails

\* The log keeps its tail, whichever connections write to it and in whatever order.
LEMMA ServiceLogInvariant == ServiceSpec => []LogInv
<1>1. ServiceInit => LogInv
  BY LogStarts DEF ServiceInit
<1>2. LogInv /\ [ServiceNext]_serviceVars => LogInv'
  BY StepLog, ServiceLogs
<1> QED
  BY <1>1, <1>2, PTL DEF ServiceSpec

\* Whichever operations on log files fail, file by file, a line goes only when log_keep
\* rotated files are newer than it, or its own write failed, or two rotations shared a
\* second: for any size limit, any log_keep and any number of faults.
THEOREM TailKept == ServiceSpec => []LogKeepsTail
<1>1. LogInv => LogKeepsTail
  BY DEF LogInv
<1> QED
  BY <1>1, ServiceLogInvariant, PTL

\* While nothing fails the files stay within their limits, and no line goes before there are
\* log_keep of them.
THEOREM EnoughKept == ServiceSpec => []LogKeepsEnough
<1>1. LogInv => LogKeepsEnough
  BY DEF LogInv
<1> QED
  BY <1>1, ServiceLogInvariant, PTL

\* The variables of the service keep their types.
THEOREM ServiceTypeCorrect == ServiceSpec => []ServiceTypeOK
<1> DEFINE Socks  == {"none", "open", "closed"}
           LifeOK == stage \in [Conn -> Stage] /\ sock \in [Conn -> Socks] /\ timed \in [Conn -> BOOLEAN]
<1>1. ServiceInit => LifeOK
  BY DEF ServiceInit, Stage
<1>2. LifeOK /\ [ServiceNext]_serviceVars => LifeOK'
  <2> SUFFICES ASSUME LifeOK, [ServiceNext]_serviceVars PROVE LifeOK'
    OBVIOUS
  <2>1. ASSUME NEW c \in Conn,
               \/ Accept(c) \/ OpenMsg(c) \/ OpenPair(c) \/ Reject(c) \/ CloseMsg(c)
               \/ PairAcked(c) \/ ClosePair(c) \/ PairFails(c) \/ LogPairError(c)
               \/ RejectLoops(c) \/ PairLoops(c)
        PROVE  LifeOK'
    BY <2>1 DEF Accept, OpenMsg, OpenPair, Reject, CloseMsg, PairAcked, ClosePair,
       PairFails, LogPairError, RejectLoops, PairLoops, Moves, Stage
  <2>2. ASSUME NEW c \in Conn,
               \/ Lock(c) \/ Serve(c) \/ ServeLoops(c)
               \/ \E r \in Request : ReceiveMsg(c, r)
        PROVE  LifeOK'
    BY <2>2 DEF Lock, Serve, ServeLoops, ReceiveMsg, life
  <2>3. CASE UNCHANGED life
    BY <2>3 DEF life
  <2> QED
    BY <2>1, <2>2, <2>3 DEF ServiceNext, ReadFails, serviceVars
<1>3. LifeOK /\ TypeOK /\ LogInv => ServiceTypeOK
  BY DEF ServiceTypeOK, LogInv
<1> QED
  BY <1>1, <1>2, <1>3, ServiceRefines, TypeCorrect, ServiceLogInvariant, PTL DEF ServiceSpec
=============================================================================
