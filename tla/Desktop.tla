-------------------------------- MODULE Desktop --------------------------------
(***************************************************************************)
(* What a request does to the user's desktop: the injection backends       *)
(* (inject_darwin.go, inject_windows.go, inject_linux.go) and the          *)
(* clipboard (clipboard_*.go) below MsgHandler, whose steps "injection     *)
(* begins", "injection ends" and "clipboard set" this module carries out.  *)
(* DesktopSpec implements MsgHandler's Spec.                               *)
(*                                                                         *)
(* A backend tries one method after another. Each external command or      *)
(* system call is a step, and each key stroke one of its own: the code     *)
(* only learns whether a command reported success, never what came into a  *)
(* window. A paste is over when osascript returns: what the application    *)
(* does later is not modelled.                                             *)
(***************************************************************************)
EXTENDS MsgHandler, Sequences

CONSTANTS
  Backends, \* backends and preferences the daemon can run with
  UserText, \* what the user has copied before
  NoText    \* an empty clipboard

Backend == [os     : {"darwin", "windows", "linux"},
            paste  : BOOLEAN,  \* macos_prefer_clipboard
            typing : BOOLEAN]  \* allow_typing_fallback

ASSUME DesktopAssumption ==
  /\ Backends \subseteq Backend
  /\ UserText \notin Conn /\ NoText \notin Conn /\ UserText # NoText

VARIABLES
  backend, \* fixed at start
  clip,    \* the text on the clipboard
  plan,    \* the methods each injection has not tried yet
  at,      \* where in a method it is
  kept,    \* oldClipboard: what a paste has saved
  entered, \* history: the texts of which each injection put something into a window
  worked,  \* history: the methods of each injection that reported success
  placed,  \* history: the text last put on the clipboard for the user to find
  spoiled  \* history: a paste put nothing back, or an offer that failed emptied the clipboard

desk     == <<backend, clip, plan, at, kept, entered, worked, placed, spoiled>>
deskVars == <<vars, desk>>

Text == Conn \cup {UserText, NoText}

-----------------------------------------------------------------------------
(* InjectPasswordToFocusedControl: the order of the methods.                 *)

TypingFallback == IF backend.typing THEN <<"type">> ELSE <<>>

\* Fault: when both have failed, the first is tried once more.
DarwinPlansOnceMore ==
  {IF backend.paste THEN <<"paste">> \o TypingFallback \o <<"paste">>
                    ELSE TypingFallback \o <<"paste">> \o TypingFallback}

DarwinPlans ==
  {IF backend.paste THEN <<"paste">> \o TypingFallback ELSE TypingFallback \o <<"paste">>}

\* Nothing is tried when there is no focused control; only known text controls are
\* sent messages.
WindowsPlans == {<<>>, TypingFallback, <<"direct">> \o TypingFallback}

Plans ==
  {p \in DarwinPlans  : backend.os = "darwin"} \cup
  {p \in WindowsPlans : backend.os = "windows"} \cup
  {p \in {<<"type">>} : backend.os = "linux"}

Begin(c) ==
  /\ StartInject(c)
  /\ \E p \in Plans : plan' = [plan EXCEPT ![c] = p]
  /\ at' = [at EXCEPT ![c] = "try"]
  /\ UNCHANGED <<backend, clip, kept, entered, worked, placed, spoiled>>

\* Where a method is that has reported success.
Results == {"direct", "typed", "pasted"}

\* A step of a method.
Inside(c, place, next) ==
  /\ pc[c] = "injecting" /\ at[c] = place
  /\ at' = [at EXCEPT ![c] = next]
  /\ worked' = [worked EXCEPT ![c] = IF next \in Results THEN @ \cup {next} ELSE @]
  /\ UNCHANGED backend

Tries(c, method) ==
  /\ plan[c] # <<>> /\ Head(plan[c]) = method
  /\ plan' = [plan EXCEPT ![c] = Tail(@)]

\* Something of a text comes into the focused window.
Enter(c, text) ==
  /\ TypeInto(c)
  /\ entered' = [entered EXCEPT ![c] = @ \cup {text}]

\* Success is an exit status or a changed length, failure one that is not: neither tells
\* whether something came into a window.
MayEnter(c, text) == Enter(c, text) \/ UNCHANGED <<vars, entered>>

\* osascript, xdotool or injectViaKeybdEvent type one character after another, ...
KeyStroke(c) ==
  /\ at[c] = "try" /\ plan[c] # <<>> /\ Head(plan[c]) = "type"
  /\ Enter(c, c)
  /\ UNCHANGED <<backend, clip, plan, at, kept, worked, placed, spoiled>>

\* Fault: after a text was typed the other methods are tried as well.
TypeTextGoesOn(c, next) ==
  /\ pc[c] = "injecting" /\ at[c] = "try" /\ Tries(c, "type")
  /\ worked' = [worked EXCEPT ![c] = IF next = "typed" THEN @ \cup {next} ELSE @]
  /\ UNCHANGED <<vars, backend, at, entered, clip, kept, placed, spoiled>>

\* ... and report success or failure in the end, which may come after some of them.
TypeText(c, next) ==
  /\ Inside(c, "try", next) /\ Tries(c, "type")
  /\ UNCHANGED <<vars, entered, clip, kept, placed, spoiled>>

\* getFocusedControl and messages to the control it found. They count as delivered when the
\* length of its text has changed. The control is taken to be that of the window in focus.
SendMessages(c, next) ==
  /\ Inside(c, "try", next) /\ Tries(c, "direct")
  /\ MayEnter(c, c)
  /\ UNCHANGED <<clip, kept, placed, spoiled>>

-----------------------------------------------------------------------------
(* injectViaClipboardPaste.                                                  *)

\* The clipboard is saved, best-effort ...
SaveClipboard(c, ok) ==
  /\ Inside(c, "try", "copy") /\ Tries(c, "paste")
  /\ kept' = [kept EXCEPT ![c] = IF ok THEN clip ELSE NoText]
  /\ UNCHANGED <<vars, clip, entered, placed, spoiled>>

\* ... the text copied ...
CopyText(c, next) ==
  /\ Inside(c, "copy", next)
  /\ \/ next = "paste" /\ clip' = c
     \/ next = "try" /\ UNCHANGED clip
  /\ UNCHANGED <<vars, plan, kept, entered, placed, spoiled>>

\* ... Cmd+V pressed, which pastes what the clipboard holds now ...
PressPaste(c, next) ==
  /\ Inside(c, "paste", next)
  /\ MayEnter(c, clip)
  /\ UNCHANGED <<clip, plan, kept, placed, spoiled>>

AfterRestore(place) == IF place = "restorePasted" THEN "pasted" ELSE "try"

\* Fault: the saved clipboard is not put back when the paste failed.
RestoreIfPasted(c, place, ok) ==
  /\ Inside(c, place, AfterRestore(place))
  /\ IF ok /\ kept[c] # NoText
     THEN clip' = (IF place = "restorePasted" THEN kept[c] ELSE clip) /\ UNCHANGED spoiled
     ELSE UNCHANGED clip /\ spoiled' = TRUE
  /\ UNCHANGED <<vars, plan, kept, entered, placed>>

\* ... and the clipboard put back, unless nothing was found on it. Errors of
\* restoreClipboardMac are ignored.
RestoreClipboard(c, place, ok) ==
  /\ Inside(c, place, AfterRestore(place))
  /\ IF ok /\ kept[c] # NoText
     THEN clip' = kept[c] /\ UNCHANGED spoiled
     ELSE UNCHANGED clip /\ spoiled' = TRUE
  /\ UNCHANGED <<vars, plan, kept, entered, placed>>

-----------------------------------------------------------------------------
(* What MsgHandler sees.                                                     *)

\* The reason tells the method that worked.
ReasonOf(result) ==
  [direct |-> "ok", typed |-> "typing_fallback", pasted |-> "clipboard_fallback"][result]

Ends(c) ==
  /\ at' = [at EXCEPT ![c] = "over"]
  /\ UNCHANGED <<backend, clip, plan, kept, entered, worked, placed, spoiled>>

Succeed(c) ==
  /\ at[c] \in Results
  /\ FinishInject(c, ReasonOf(at[c]))
  /\ Ends(c)

\* No method is left; Wayland has none to begin with.
GiveUp(c) ==
  /\ at[c] = "try" => plan[c] = <<>>
  /\ at[c] \in {"none", "try"}
  /\ FailInject(c)
  /\ Ends(c)

\* On Windows an offer that fails may have emptied the clipboard.
OfferFails ==
  \/ UNCHANGED <<clip, spoiled>>
  \/ backend.os = "windows" /\ clip' = NoText /\ spoiled' = TRUE

\* trySetClipboard: pbcopy, wl-copy or xclip, SetClipboardData. It runs under
\* injectMu after the gates and without it before them.
Offer(c, ok) ==
  /\ SetClipboard(c, ok)
  /\ IF ok THEN clip' = c /\ placed' = c /\ UNCHANGED spoiled
           ELSE OfferFails /\ UNCHANGED placed
  /\ UNCHANGED <<backend, plan, at, kept, entered, worked>>

DesktopInit ==
  /\ Init
  /\ backend \in Backends
  /\ backend.os # "linux" => ~cfg.wayland
  /\ clip \in {UserText, NoText}
  /\ plan = [c \in Conn |-> <<>>]
  /\ at = [c \in Conn |-> "none"]
  /\ kept = [c \in Conn |-> NoText]
  /\ entered = [c \in Conn |-> {}] /\ worked = [c \in Conn |-> {}]
  /\ placed = clip /\ spoiled = FALSE

Inject(c) ==
  \/ Begin(c) \/ KeyStroke(c)
  \/ \E next \in {"typed", "try"} : TypeText(c, next)
  \/ \E next \in {"direct", "try"} : SendMessages(c, next)
  \/ \E ok \in BOOLEAN : SaveClipboard(c, ok)
  \/ \E next \in {"paste", "try"} : CopyText(c, next)
  \/ \E next \in {"restorePasted", "restoreFailed"} : PressPaste(c, next)
  \/ \E place \in {"restorePasted", "restoreFailed"}, ok \in BOOLEAN : RestoreClipboard(c, place, ok)
  \/ Succeed(c) \/ GiveUp(c)

\* The steps of MsgHandler that leave the desktop alone.
Elsewhere(c) ==
  \/ ValidateText(c) \/ CheckTarget(c)
  \/ Arm(c) \/ Disarm(c) \/ Approve(c)
  \/ PassTwoMan(c) \/ PassArm(c)
  \/ (\E delivered \in BOOLEAN : Respond(c, delivered)) \/ Unlock(c)

DesktopHandle(c) ==
  \/ Inject(c)
  \/ \E ok \in BOOLEAN : Offer(c, ok)
  \/ Elsewhere(c) /\ UNCHANGED desk

DesktopNext ==
  \/ \E c \in Conn :
       \/ \E r \in Request : Receive(c, r) /\ UNCHANGED desk
       \/ LockInject(c) /\ UNCHANGED desk
       \/ DesktopHandle(c)
  \/ Tick /\ UNCHANGED desk
  \/ MoveFocus /\ UNCHANGED desk

DesktopSpec == DesktopInit /\ [][DesktopNext]_deskVars

-----------------------------------------------------------------------------
Methods == {"type", "direct", "paste"}
Places  == {"none", "try", "copy", "paste", "restorePasted", "restoreFailed",
            "direct", "typed", "pasted", "over"}

\* Type invariant.
DesktopTypeOK ==
  /\ TypeOK
  /\ backend \in Backends
  /\ clip \in Text /\ placed \in Text /\ kept \in [Conn -> Text]
  /\ plan \in [Conn -> Seq(Methods)] /\ \A c \in Conn : Len(plan[c]) <= 2
  /\ entered \in [Conn -> SUBSET Text] /\ worked \in [Conn -> SUBSET Results]
  /\ at \in [Conn -> Places]
  /\ spoiled \in BOOLEAN

\* msg_handler.go: "Serialize injection to avoid overlapping OS-level input /
\* clipboard behavior": what a request puts into windows is of its own text. That holds
\* unless blocked texts go to the clipboard, which happens outside the mutex too.
EntersOwnText == ~cfg.clipBlocked => \A c \in Conn : entered[c] \subseteq {c}

\* When no injection is under way the clipboard holds what was last put there for the user:
\* the user's own text or the text of the last request answered with OKClipboard. Exceptions:
\* a paste that found nothing to put back or failed to, a failed
\* offer on Windows, and blocked texts.
ClipboardReturned ==
  (injectMu = NoConn /\ ~cfg.clipBlocked /\ ~spoiled) => clip = placed

\* OK comes with the reason of the one method that reported success; every other status
\* means that none did, and that of a closed gate or a blocked text that nothing was tried.
Tells(c, answer) ==
  /\ answer.status = "OK" =>
       \E result \in Results : worked[c] = {result} /\ answer.reason = ReasonOf(result)
  /\ answer.status # "OK" => worked[c] = {}
  /\ answer.status \in {"NotArmed", "NeedsApprove", "BadRequest"} => entered[c] = {}

\* What an inject request was told is the outcome of the methods it went through: a client
\* that is told to paste by hand, or of a failure, has had no method succeed before, and one
\* that is told of a method had that one succeed and stop the rest.
ToldWhatWorked ==
  \A c \in Conn : (req[c].kind = "inject" /\ reply[c] \in Answer) => Tells(c, reply[c])

\* README.md: "Clipboard is never touched unless explicitly allowed by configuration." With
\* both of its settings off, no request's text stays on the clipboard after its injection.
ClipboardOnlyIfEnabled ==
  (injectMu = NoConn /\ ~cfg.clipBlocked /\ ~cfg.clipFailed) => clip \in {UserText, NoText}

-----------------------------------------------------------------------------
(* The inductive invariant behind these properties.                          *)

\* What the methods of a plan leave of it.
Remains(p) ==
  \/ p = <<>>
  \/ backend.os = "darwin" /\ p \in {<<"paste">>, <<"type">>, <<"paste", "type">>, <<"type", "paste">>}
  \/ backend.os = "windows" /\ p = <<"direct">>
  \/ backend.os = "windows" /\ backend.typing /\ p \in {<<"type">>, <<"direct", "type">>}
  \/ backend.os = "linux" /\ p = <<"type">>

BeforeInjection == {"idle", "arm", "disarm", "approve", "validate", "policy", "lock",
                    "twoman", "armed", "inject"}
Replaced == {"paste", "restorePasted", "restoreFailed"} \* a paste's text is on the clipboard

\* A connection is in a method exactly while it injects.
Where(c) ==
  /\ at[c] \notin {"none", "over"} <=> pc[c] = "injecting"
  /\ pc[c] \in BeforeInjection => at[c] = "none"
  /\ Remains(plan[c])
  /\ at[c] \in Replaced \cup {"copy", "pasted"} => backend.os = "darwin"

\* Without blocked texts the clipboard is set under the mutex only; a paste finds
\* its text there, and has saved what the user is to find.
ClipboardInv ==
  ~cfg.clipBlocked =>
    /\ \A c \in Conn :
         /\ pc[c] = "clipboard" => injectMu = c
         /\ at[c] = "paste" => clip = c
    /\ ~spoiled =>
         /\ \A c \in Conn : at[c] \in Replaced \cup {"copy"} => kept[c] \in {NoText, placed}
         /\ (\A c \in Conn : at[c] \notin Replaced) => clip = placed

\* What a connection has done so far follows from where it is.
SoFar(c) ==
  /\ at[c] \in Results => worked[c] = {at[c]}
  /\ at[c] \notin Results \cup {"over"} => worked[c] = {}
  /\ at[c] = "none" => entered[c] = {}

\* The answer a connection has settled on tells what it has done.
Told(c) ==
  /\ (req[c].kind = "inject" /\ pc[c] \in {"clipboard", "respond", "unlock", "done"}) =>
       Tells(c, pending[c])
  /\ pending[c].status = "OK" => pending[c].reason \in ClientReason
  /\ pc[c] = "clipboard" => pending[c].status # "OK"
  /\ reply[c] # NoReply =>
       /\ pc[c] \in {"unlock", "done"}
       /\ \/ reply[c] = Undelivered
          \/ reply[c] = Ans(pending[c].status, SafeReason(pending[c].reason))

DesktopInv ==
  /\ HandlerInv /\ DesktopTypeOK /\ ClipboardInv /\ EntersOwnText
  /\ \A c \in Conn : Where(c) /\ SoFar(c) /\ Told(c)
=============================================================================
