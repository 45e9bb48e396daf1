-------------------------------- MODULE Listener --------------------------------
(***************************************************************************)
(* A connection from accept to close: the unified listener and its routes  *)
(* (router.go) around the handler of /msg (MsgHandler) and the exchange of *)
(* /pair, of which only its end is seen here (Pairing has its steps). Every  *)
(* goroutine writes to the one log (LogWriter). The lines of router.go,    *)
(* handlePairConn and the start of handleMsgConn are written here; of the  *)
(* handler's further lines only that it waits for the writer's lock before *)
(* its steps, and may never come back from one.                            *)
(*                                                                         *)
(* Reads wait for the client, who may say nothing at all. Deadlines are    *)
(* what ends such a wait. ServiceSpec implements MsgHandler's Spec.        *)
(***************************************************************************)
EXTENDS MsgHandler, LogWriter

CONSTANT Setups \* what the daemon can be started with

ASSUME ServiceAssumption ==
  Setups \subseteq [config : Configs, logToFile : BOOLEAN, redacts : BOOLEAN]

VARIABLES
  stage, \* what the goroutine of a connection is doing
  sock,  \* its socket
  timed  \* a read deadline is set on it

life        == <<stage, sock, timed>>
serviceVars == <<vars, logVars, life>>

ServiceInit ==
  /\ Init /\ LogInit
  /\ [config |-> cfg, logToFile |-> logToFile, redacts |-> redacts] \in Setups
  /\ stage = [c \in Conn |-> "none"]
  /\ sock = [c \in Conn |-> "none"]
  /\ timed = [c \in Conn |-> FALSE]

\* The goroutine goes from one stage to the next and leaves its socket this way.
Moves(c, from, to, socket) ==
  /\ stage[c] = from
  /\ stage' = [stage EXCEPT ![c] = to]
  /\ sock' = [sock EXCEPT ![c] = socket]

-----------------------------------------------------------------------------
(* router.go.                                                                *)

\* Accept, and the 5 seconds for the preface.
Accept(c) ==
  /\ Moves(c, "none", "preface", "open")
  /\ timed' = [timed EXCEPT ![c] = TRUE]
  /\ UNCHANGED <<vars, logVars>>

\* No preface, or a route that does not exist: routeConn logs that and returns. Nothing
\* closes the socket, although PROTOCOL.md:30 has such a connection "rejected immediately
\* and closed".
Reject(c) ==
  /\ Moves(c, "preface", "rejected", "open")
  /\ WriteLine
  /\ UNCHANGED <<vars, timed>>

\* The line quotes the route, which the client chose: its redaction may never end.
RejectLoops(c) ==
  /\ Moves(c, "preface", "stuck", "open")
  /\ LoopLine
  /\ UNCHANGED <<vars, timed>>

\* Fault: the deadline of the preface is cleared, and no other is set.
OpenMsgUntimed(c) ==
  /\ Moves(c, "preface", "msg", "open")
  /\ timed' = [timed EXCEPT ![c] = FALSE]
  /\ WriteLine
  /\ UNCHANGED vars

\* /msg: handleMsgConn sets a deadline of its own, 10 seconds.
OpenMsg(c) ==
  /\ Moves(c, "preface", "msg", "open")
  /\ timed' = [timed EXCEPT ![c] = TRUE]
  /\ WriteLine
  /\ UNCHANGED vars

\* /pair: handlePairConn sets its, 25 seconds.
OpenPair(c) ==
  /\ Moves(c, "preface", "pair", "open")
  /\ timed' = [timed EXCEPT ![c] = TRUE]
  /\ UNCHANGED <<vars, logVars>>

-----------------------------------------------------------------------------
(* /msg. *)

\* "declared payload length", or what was wrong with it.
ReceiveMsg(c, r) ==
  /\ stage[c] = "msg" /\ ~looping
  /\ Receive(c, r)
  /\ UNCHANGED <<logVars, life>>

\* The steps that a line of the handler comes before: "decrypted payload", why a text is
\* blocked or an injection failed, "two-man approval OK", "armed gate open", and the line
\* before the reply. Arm and disarm log nothing; neither does a clipboard that was set
\* after an injection failed.
LogsFirst(c) ==
  \/ pc[c] \in {"validate", "clipboard", "inject"}
  \/ pc[c] = "armed" /\ cfg.twoMan
  \/ /\ pc[c] = "respond" /\ pending[c].status # "OKClipboard"
     /\ req[c].kind \notin {"arm", "disarm"}

Serve(c) ==
  /\ LogsFirst(c) => ~looping
  /\ Handle(c)
  /\ UNCHANGED <<logVars, life>>
Lock(c) == LockInject(c) /\ UNCHANGED <<logVars, life>>

\* Those lines that quote text from outside: the device ID of a frame, authentic or not,
\* the title of the focused window, what a backend said of its failure.
QuotesOutside(c) ==
  /\ LogsFirst(c) /\ pc[c] \in {"validate", "clipboard", "respond"}
  /\ req[c].kind \in {"unauthentic", "approve", "inject"}

ServeLoops(c) ==
  /\ QuotesOutside(c)
  /\ LoopLine
  /\ UNCHANGED <<vars, life>>

\* The deferred Close, after the unlock.
CloseMsg(c) ==
  /\ pc[c] = "done"
  /\ Moves(c, "msg", "ended", "closed")
  /\ UNCHANGED <<vars, logVars, timed>>

-----------------------------------------------------------------------------
(* /pair. *)

\* The exchange succeeds and is logged in two lines before the deferred Close.
PairAcked(c) ==
  /\ Moves(c, "pair", "acked", "open")
  /\ WriteLine
  /\ UNCHANGED <<vars, timed>>
ClosePair(c) ==
  /\ Moves(c, "acked", "ended", "closed")
  /\ WriteLine
  /\ UNCHANGED <<vars, timed>>

\* The first line has the device ID in it.
PairLoops(c) ==
  /\ Moves(c, "pair", "stuck", "open")
  /\ LoopLine
  /\ UNCHANGED <<vars, timed>>

\* It fails; the connection is closed and then the error logged.
PairFails(c) ==
  /\ Moves(c, "pair", "failed", "closed")
  /\ UNCHANGED <<vars, logVars, timed>>
LogPairError(c) ==
  /\ Moves(c, "failed", "ended", "closed")
  /\ WriteLine
  /\ UNCHANGED <<vars, timed>>

-----------------------------------------------------------------------------
\* A read that fails, for what the client does or for the deadline.
ReadFails(c) ==
  \/ Reject(c)
  \/ \E r \in Request : r.kind = "malformed" /\ ReceiveMsg(c, r)
  \/ PairFails(c)

ServiceNext ==
  \/ \E c \in Conn :
       \/ Accept(c) \/ OpenMsg(c) \/ OpenPair(c)
       \/ ReadFails(c)
       \/ \E r \in Request : ReceiveMsg(c, r)
       \/ Lock(c) \/ Serve(c) \/ CloseMsg(c)
       \/ PairAcked(c) \/ ClosePair(c) \/ LogPairError(c)
       \/ RejectLoops(c) \/ ServeLoops(c) \/ PairLoops(c)
  \/ (Tick \/ MoveFocus) /\ UNCHANGED <<logVars, life>>

\* What a goroutine does without its client: its own steps, and the end of a wait.
Proceeds(c) ==
  \/ Lock(c) \/ Serve(c) \/ CloseMsg(c) \/ ClosePair(c) \/ LogPairError(c)
  \/ timed[c] /\ ReadFails(c)

\* Goroutines are scheduled, injections end and deadlines pass. Go's mutexes hand over to
\* waiting goroutines and only finitely many connections wait, so weak fairness is enough
\* for the lock. Clients need not do anything. No line has to make the redaction loop, and
\* where one does nothing that logs is fair any more, for it is not enabled.
ServiceSpec ==
  /\ ServiceInit /\ [][ServiceNext]_serviceVars
  /\ \A c \in Conn : WF_serviceVars(Proceeds(c))

-----------------------------------------------------------------------------
Stage == {"none", "preface", "rejected", "msg", "pair", "acked", "failed", "ended", "stuck"}

\* Type invariant.
ServiceTypeOK ==
  /\ TypeOK /\ LogTypeOK
  /\ stage \in [Conn -> Stage]
  /\ sock \in [Conn -> {"none", "open", "closed"}]
  /\ timed \in [Conn -> BOOLEAN]

\* Every request of a "/msg" connection gets its one reply line, or the attempt to write
\* it, and its goroutine gives the mutex back, whatever its client does or leaves undone
\* and however many others wait; unless a line of the log makes the redaction loop, after
\* which everything that logs waits for good.
EveryRequestAnswered ==
  \A c \in Conn : (pc[c] # "idle") ~> ((pc[c] = "done" /\ reply[c] # NoReply) \/ looping)

\* With the same exception, every accepted connection is closed when it was routed, and
\* left by its goroutine when it was rejected.
EveryConnectionCloses ==
  \A c \in Conn : (sock[c] # "none") ~>
    \/ stage[c] = "ended" /\ sock[c] = "closed"
    \/ stage[c] = "rejected"
    \/ looping
=============================================================================
