# TLA+ verification of the NovaKey daemon

NovaKey lets a phone type a secret into the focused window of a computer. A phone
pairs once over TCP (`/pair`), then sends encrypted requests (`/msg`): arm, disarm,
approve, inject. This directory holds TLA+ models of the daemon, the TLC runs that
check them on small instances, and TLAPS proofs about them for every instance.
Paths below are relative to `src/cmd/novakey/` unless they say otherwise.
`PROJECT.json` maps each definition to the lines it models and lists runs, mutants,
hazards, findings and theorems.

## 1. Inventory

| Component | Source | State | Operations |
|---|---|---|---|
| Replay guard | `crypto.go` | `replayCache`, `rateState` under `replayMu` | `validateFreshnessAndRate` |
| Message handler | `msg_handler.go`, `inject_mu.go` | `injectMu`; per connection only locals | `handleMsgConn` |
| Arm gate | `arm_gate.go` | `armedUntil` under a mutex | `ArmFor`, `Disarm`, `Consume` |
| Two-man gate | `two_man.go` | `until` per device under a mutex | `Approve`, `Consume`, cleanup |
| Replies | `reply.go`, `response.go`, `net_write.go` | none | one JSON line per request |
| Target policy | `target_policy.go`, `focused_target_*.go` | none, reads the focus | `enforceTargetPolicy` |
| Injection, clipboard | `inject_*.go`, `clipboard_*.go` | the user's desktop | type, send messages, paste and restore, set the clipboard |
| Frames | `crypto.go`, `message_frame.go` | none | outer and inner frame |
| Pairing | `pairing_proto.go`, `pair_token.go`, `pair_qr_start.go` | `pairTok`, limiter per address | `handlePairConn`, `consumePairToken` |
| Device store (Unix) | `devices_*_unix.go`, `devices_write.go`, `migrate_devices_store_unix.go` | `devices.json`, keyring item, `devices` in memory | load, save, upsert, migrate |
| Device store (Windows) | `devices_*_windows.go`, `dpapi_windows.go` | DPAPI file, plaintext file | load and migrate, save |
| Server keys | `keys.go` | `server_keys.json`, key pair in memory | load, create, rotate |
| Router, start-up | `router.go`, `*_main.go` | one goroutine and socket per connection | route preface, deadlines, close; order of `main` |
| Configuration | `config.go` | `cfg`, constant after start | defaults |
| Logging | `logging.go`, `logfile.go` | log file, rotated files, two locks | redaction, rotation, cleanup |
| `nvpair`, `nvclient` | `src/cmd/nvpair`, `src/cmd/nvclient` | none | rewrite the store; send requests |

**Interaction.** The listener starts a goroutine per connection; the router reads the
route line and calls the pairing or the message handler. Message goroutines share
`devices` (read lock), the replay guard, the two gates and `injectMu`, each locked on
its own and never two at a time except that the gates are consumed under `injectMu`.
Pairing goroutines share the token and the device store; the store is written by
`migrate-devices-store` and `nvpair` too, from processes of their own. Everything but
the store, the server keys, the keyring item and the log files is lost at a restart.
Every goroutine writes to the one log, line by line. Injections share the focused
window and the clipboard, which belong to the user and to no lock of the daemon but
`injectMu`.

**What is hard.** Interleavings between the gates and the mutex; the clock and the
focus, read outside the section that uses them; a replay cache whose eviction must
outlive freshness; a read-modify-write of the device store without a lock; partial
failure of save, reload and acknowledgement; crashes between any two of them; a
keyring that comes and goes; a migration whose errors are ignored; a clipboard that is
saved, replaced and put back around a paste; text that is typed one character after
another while the focus moves; sockets that nobody closes; log files that cannot be
renamed, opened or removed; a redaction that may never end while it holds the log's lock. Each of these is a hazard in `PROJECT.json`, at its line,
with the properties that cover it or the reason none does.

**What makes the parts correct.**
- Replay guard: a frame is accepted once; bursts and memory are bounded.
- Handler and gates: one injection at a time; one grant, one injection; a grant serves
  its device, within its time; the reply tells what happened; every request is answered.
- Pairing and store: one writer; only an unpaired daemon pairs; an acknowledged
  pairing survives crashes and is served; a sealed store opens.
- Windows store: a migration or a save that is cut off loses no pairing; what is served is
  what is sealed; plaintext does not stay.
- Desktop: a request enters its own text only, its reply names the method that reported
  success or says that none did, and the user gets the clipboard back.
- Connections: a request is answered and its connection closed, whatever its client does.
  Two things stand against that: a line of the log whose redaction never ends stops
  everything that logs (run `redaction`), and a connection the router rejects is left open,
  although `PROTOCOL.md:30` has it closed.
- Logging: redaction ends and leaves no value (it does not: run `redaction`); the rotated
  files that go are never among the newest.

## 2. Plan

| Order | Modules | Status |
|---|---|---|
| 1 | `FrameAdmission` (abstract), `ReplayGuard` (implements it), `ReplayGuardProofs` | done |
| 2 | `InjectionAuthority` (abstract), `MsgHandler` (implements it), `MsgHandlerProofs`, `AuthorityProofs` | done |
| 3 | `DeviceStore`, `Pairing` (extends it), `PairingProofs` | done |
| 4 | `WindowsStore`, `WindowsStoreProofs` | done |
| 5 | `Desktop` (implements `MsgHandler`), `DesktopProofs`: backends and clipboard | done |
| 6 | `LogWriter`, `LogWriterProofs`, `Listener` (composes it with `MsgHandler`), `ListenerProofs`, `LogRedaction` | done |

Every safety and action property and every refinement that a passing run checks is also
a theorem. Still worth proving: what holds beside the findings of section 4, as
`SteadyFocus` does for `target_moves`: which stores `nvpair` keeps, and which refusals
spend which grants.

## 3. The modules

### ReplayGuard and FrameAdmission
One process per connection goroutine. `ReadClock` is the part of
`validateFreshnessAndRate` before `replayMu` (the clock and the freshness test, with
int64 wrap-around in `Sub64`); `RejectRate`, `RejectReplay` and `Accept` are the three
ways through the locked section, each with the eviction loop it always runs. The
time used inside the lock is the one read before it, so goroutines overtake one
another with older readings. `Tick` lets time pass but keeps no goroutine between the
two halves longer than `MaxStall`. `Restart` empties what lives in memory. `log` is
history: each request accepted, when, in the window that began when, and as which one of
that window.

`FrameAdmission` is what the guard promises, with no cache, counter or lock: it decides
from the list of everything admitted since the start. `Admit` takes no frame that was
admitted before, no nonce admitted within `TTL`, and no request that would be one too many
for less than a window; `Refuse` needs a reason, the nonce or `Limit` admissions of late.
`ReplayGuard` implements it (`ImplementsAdmission`): the ledger is the log without the
windows, and what the cache has forgotten and the counters have reset must not matter.
Refusing is part of the promise, so a guard that locks devices out does not keep it.

### MsgHandler and InjectionAuthority
One connection carries one request. `Receive` is frame reading and dispatch;
`ValidateText`, `CheckTarget`, `SetClipboard` are the refusals before the mutex;
`LockInject`, `PassTwoMan`, `PassArm`, `StartInject`, `TypeInto`, `FinishInject`,
`FailInject` the section under `injectMu`; `Respond` and `Unlock` the reply and the deferred
release; `Arm`, `Disarm` and `Approve` the other requests. `TypeInto` is one key stroke, into
whatever window has the focus then: an injection makes as many as it likes, also none,
before it succeeds or fails. A reply may not arrive (`Undelivered`): `writeReplyLine` drops
the error of a write that times out or finds the client gone. Clock and focus move between
any two steps. `used`, `acted` and `typed` are history: which grants let a request through,
when a request took effect, where text went. An `arm_duration_ms` below zero, which
`applyDefaults` lets stand, opens the arm gate into the past.

`InjectionAuthority` is what all that promises, with no clock, mutex, program counter
or reply: grants come into force once, may lapse, back requests, and a backed request
injects once and alone. `MsgHandler` implements it (`ImplementsAuthority`); the mapping
takes each gate's grant to be the request that opened it.

### DeviceStore and Pairing
`DeviceStore` holds `devices.json` (missing, plaintext, or sealed under a numbered key),
the keyring item and the command at work. `SealKey` is `getOrCreateDevicesKey`;
`LoadsDevices`, `FindsNoDevices` and `StoreUnavailable` are the outcomes of
`loadDevicesFromDisk`; `Saves` and `SaveFails` those of `saveDevicesToDisk`.
`NvpairReads`/`NvpairWrites` and `MigrateReads`/`MigrateWrites` are the two commands,
whose read and write others interleave with.

`Pairing` adds the daemon: `Start` and `StartFails` (`main`: server keys, store, token),
`Crash` at any point, and one attempt to pair per connection: `PresentToken` (hello and
`consumePairToken`), `Register`, `LoadStore` and `SaveStore` (the two halves of
`writeDevicesFile`, with no lock around them), `Reload`, `Ack` (which may get lost) and
`Drop`. A `Setup` fixes the switches of the configuration, whether commands are used, and
whether the keyring may fail to read an item and still accept a new one. The code gives
`rotate_device_psk_on_repair` an effect only on a device the map already holds; since
the map is empty while anyone pairs (`Fresh` in `PairingProofs`), that branch is never
taken.

### WindowsStore
On Windows pairing and `nvpair` write `devices.json` in plaintext, and a load moves it
into `devices.dpapi.json`. `task` says whether a start, an upsert or a reload is under way
and `pc` which file operation it does next: `OpenDPAPI`, `OpenPlain`, `Protect`, `Unlink`,
`Reopen` are `loadDevicesFromDisk`; `WriteTmp`, `RemoveOld`, `RenameNew` are
`saveDevicesToDisk`. `Loaded` is what each caller does with the devices, `Fails` with an
error. `Crash` comes between any two operations. A `Setup` says whether DPAPI may fail,
whether files may be unreadable or stay when they are removed, and whether `nvpair` is used.
Since one connection pairs per start (`SingleWriter` of `Pairing`), one task is enough.

### Desktop
The injections below `MsgHandler`: it carries out `StartInject`, `FinishInject`,
`FailInject` and `SetClipboard` and adds the steps between. `plan` holds the methods a
backend has not tried yet, in the order of `inject_darwin.go`, `inject_windows.go` and
`inject_linux.go`; `at` is the place in a method. `SaveClipboard`, `CopyText`,
`PressPaste` and `RestoreClipboard` are the four commands of `injectViaClipboardPaste`,
each of which may fail; `KeyStroke` is one character of a typing method and `TypeText` its
end; `SendMessages` is the direct method of Windows; `Offer` is `trySetClipboard`. What a
command reports and what it has entered are two things: typing that fails may have entered
part of a text, typing that succeeds nothing, and so may a paste or a message (`MayEnter`).
`entered`, `worked`, `placed` and `spoiled` are history: whose text came into windows, which
methods reported success, what the user should find on the clipboard, and whether the code
has given that up.

### LogWriter and Listener
`LogWriter` is the file behind the log: a line is one step, since `Write` holds its locks
throughout, and goes one of five ways: to stderr, to the open file, through a rotation, to
a file that cannot be opened, or past a rotation that leaves none open. Lines are
numbers, files sets of them. In a rotation the rename may fail, and the cleanup comes all the
same; the cleanup skips each file it cannot look at or remove, so any of the old ones may
stay (`Cleanup`). `LoopLine` is a line whose redaction never ends, as in `LogRedaction`: the
lock is kept, and no line is written any more.

`Listener` puts `MsgHandler` and `LogWriter` together and adds the life of a connection:
`Accept`, the preface (`Reject`, `OpenMsg`, `OpenPair`) with its deadline, the handler's
own steps, the end of a pairing exchange, and the deferred `Close`. A connection that the
router rejects is closed by nothing in the program and stays open here. The lines of the
router, of `/pair` and of the start of `/msg` are written in the order of the code; the
handler's further ones are left out but for what matters to liveness: the steps one of them
comes before (`LogsFirst`) wait for the lock of the log. A line with text from outside may
never come back from its redaction: the route (`RejectLoops`), a device ID, a window title or
what a backend says (`ServeLoops`, `PairLoops`).

### LogRedaction
A line is the sequence of hints in it, a key and what stands behind it. `Lock` takes the
writer's lock and removes long runs; `Find` and `Replace` are the loop of
`redactKeyValueHints`; `Write` releases the lock.

### MC modules
`MCReplayGuard`, `MCMsgHandler`, `MCPairing`, `MCWindowsStore`, `MCDesktop`, `MCListener`
and `MCLogRedaction` give the constants that a `.cfg` cannot write and the symmetry sets.
Operators marked "Fault" in the models are plausible bugs; each property is shown to notice one of them (`mutants` in `PROJECT.json`).

## 4. What the runs show

| Run | Result |
|---|---|
| `replay` | `NoReplay`, `BurstBound`, `CacheBounded` and the refinement of `FrameAdmission` hold through stalls, evictions and restarts |
| `handler` | `InjectionsExclusive`, `OneInjectionPerArm`, `OneInjectionPerApproval`, `ReplyTruthful`, `GatesHonoured` and the refinement of `InjectionAuthority` hold |
| `handler_live` | `EveryRequestAnswered` and `EveryConnectionCloses` hold under the fairness below, but for a redaction without end and rejected connections; `LogKeepsTail` and `LogKeepsEnough` hold while operations on log files fail one by one |
| `pairing` | `SingleWriter`, `PairsOnlyUnpaired`, `PairingsDurable`, `AckedPhoneIsServed`, `SealKeyStable` hold |
| `windows` | `ServesSealed`, `AckedIsSealed`, `PlaintextReplaced`, `NothingForgotten` hold through crashes between file operations, where each claims to |
| `desktop` | `EntersOwnText`, `ClipboardReturned`, `ToldWhatWorked` hold with every command failing or working, whatever it has entered |
| `grants_spent` | violated: approval and armed state are spent by injections that are then refused or fail; the README of the repository says by successful ones |
| `target_moves` | violated: the focus moves between the target policy check and the injection; the threat model says the policy is enforced at injection time |
| `nvpair_drops` | violated: `nvpair` reads a sealed store as an empty one and drops every device |
| `keyring_reset` | violated: any error of a keyring read replaces the key the store is sealed under |
| `clipboard_left` | violated: on macOS the text of a request stays on the clipboard when nothing was found there before, with both clipboard settings off; the README and SECURITY.md of the repository say the clipboard is never touched then |
| `redaction` | violated: a value behind a key is replaced for ever, under the lock of the log, since the search starts over and finds the replacement |

`CHECK_DEADLOCK FALSE` stands in the configurations of `Pairing` and `WindowsStore`, whose
starts, attempts and instants are bounded, and of `LogRedaction`, whose writers finish: these
behaviours stop.

**Bounds and why they suffice.**
- `replay`: two goroutines are what it takes to overtake one another; five nonces
  exceed `CacheBounded`'s bound of four; seven seconds are two windows, the retention and a
  stall; `TTL = MaxAge + MaxSkew + MaxStall`, the tightest the assumption allows; `Half`
  is small so that subtraction wraps. The code's 120, 300 and 600 s satisfy the same
  assumption with 180 s left for stalls.
- `handler`: three connections are a grant and two takers, or two grants and a taker; two
  devices tell an approval from another's; instants 1 to 3 contain before, at and after
  a window of one unit; five configurations turn each switch on and off, one with a negative
  arm duration.
- `pairing`: three attempts are one in progress, one racing it and one later; two
  devices and a store of an earlier time give an upsert something to lose; three starts
  allow a crash after a pairing and after another start; tokens live one of three units.
  Sealed keys are limited to two: one lost and one new.

- `windows`: four starts are a crash in a first pairing, one in the migration after it, one
  in the next and a start that serves; two devices and a store of an earlier time
  give a pairing something to overwrite. The setups separate the failures each
  property stands or excludes.
- `desktop`: three connections are a paste, a blocked text or typing beside it, and a
  request whose clipboard offer comes after; the backends are every order of methods
  that the three systems and their two preferences have. Gates are open or shut for a
  time unit, which is enough for each reply; no configuration has a target policy, so the two
  windows are alike and symmetric. `clipboard_left` has the same bounds, with
  both clipboard settings off.
- `handler_live`: two connections are a holder of the mutex and a waiter, or two routes
  that share the log. Two lines per file, two kept files and a log that may have been rotated
  before make files that are rotated, kept and removed; two failures let one file stay
  where a newer one goes and another line be lost. Gates are open or shut, as in `desktop`.
  The log goes to a file in the configuration with the fewest states of the handler, and to
  stderr with redaction in the others, where a line may make the redaction loop.
- `redaction`: two writers, two keys and lines of up to two hints: while one writer replaces
  the same hint for ever, the second waits for the lock for ever.

**Fairness** (`ServiceSpec`): weak fairness for each goroutine's own steps, since Go
schedules every runnable goroutine; for taking `injectMu`, since Go's mutex hands over
to a waiter that starves; for the end of a read whose deadline is set; and for the end of
an injection. That last one is an assumption about the programs the backends run: the code
gives them no timeout, and a backend that hangs holds the mutex for good. Key strokes do not
postpone that end, since one into a window that has had some changes nothing. No fairness is assumed of clients, and none
that a line of the log comes back: once a redaction loops, every step behind a line is
disabled, and the liveness properties end there (`looping`).

**What the models show besides.** Facts of the code that no run refutes a document with:
- A rejected connection stays open in `Listener`, as the router returns without closing it;
  `PROTOCOL.md:30` says such connections are "rejected immediately and closed".
- A restart with `rotate_kyber_keys` replaces the server keys and loads the devices as
  they are (`Pairing`: `Start`), so the daemon counts as paired and offers no token;
  `docs/daemon/config.md:136-137` says that it "Forces full re-pairing". The old pairings are
  of no use without the new key, and a user who wants to pair again has to remove the store.
- With `allow_clipboard_when_disarmed` a blocked request sets the clipboard outside
  `injectMu`, so another request's paste can enter its text; `EntersOwnText` and
  `ClipboardReturned` except that setting.
- On Windows, a migration whose DPAPI write fails still removes the plaintext file
  (`devices_store_windows.go:35`), and every device in it is gone; `NothingForgotten` asks
  for a DPAPI that works. A plaintext file that cannot be read counts as none. A device
  that `nvpair` saves while a DPAPI file exists is never served. A crash between the write
  of the DPAPI file and the removal of the plaintext one leaves the latter for good.
- Two rotations in one second leave one rotated file; `LogKeepsTail` excepts them.

## 5. What is proved

TLAPS proves these for every value of the constants that satisfies the named
assumptions, so for any number of connections, devices, keys, instants and starts.

- `ReplayGuardProofs`: `TypeCorrect`; `NeverAcceptedTwice` (`NoReplay`) from
  `TimesAssumption` and `RetentionAssumption`. `NoReplay` alone says nothing of the
  cache. `ReplayInv` adds that an accepted frame was fresh when its time was read, that
  a goroutine in flight read its time at most `MaxStall` ago, and that an accepted nonce
  is cached unless more than `TTL` has passed. If a second goroutine found the nonce
  absent, its frame would have to be fresh and older than `MaxAge + MaxSkew` at once.
- `BurstsAreBounded` (`BurstBound`), same module: `RateInv` gives every accepted request a
  place in a window, distinct from all others of its device, and has windows follow one
  another at a distance of `Window`. Requests that all lie in two windows have at most
  `2 * Limit` places (`TwoWindows`, an injection into `1..2 * Limit`), so of more
  than that the first and the last are at least two windows apart, but for the stall and
  the time the first window was open.
- `CacheIsBounded` (`CacheBounded`): `CacheInv` ties every cached nonce to the last entry of
  the log that has it, and keeps the windows of these entries within `Span` of one
  another, since each acceptance evicts what is older than `TTL`. So many windows as fit
  in `Span`, each with `Limit` places, bound the nonces (`Slots`).
- `Admits` (`ImplementsAdmission`): `Accept` admits by `NoReplay`'s invariant and the burst
  bound of the next state; `RejectReplay` has a reason by `CacheInv`; `RejectRate` has one by
  `PlacesInv`, which says that every place counted in the window in force was given to an
  accepted request, so a device is refused only for requests it made.
- `MsgHandlerProofs`: `TypeCorrect`, `Exclusive`, `ArmUsedOnce`, `ApprovalUsedOnce` from
  `HandlerInv = TypeOK /\ LockInv /\ GateInv /\ PlaceInv /\ SpendInv`. `LockInv` ties
  program counters to the mutex, `GateInv` an open gate to the request that opened it,
  `PlaceInv` what a goroutine has used to where it is; `SpendInv` says that a grant which
  use spends is not in a gate any more. `SteadyFocus` is the other side of the run
  `target_moves`: if the focus stays where it is from a request's target check to the last
  key stroke of its injection (`Stays`), text goes into allowed windows only. Two stretches
  are in that condition, the wait for mutex and gates, and the typing itself, since no key
  stroke is checked.
- `AuthorityProofs`: `Implements` (`ImplementsAuthority`), `Truthfulness` (`ReplyTruthful`) and
  `Honoured` (`GatesHonoured`), from `HandlerInv` with two invariants more. `AnswerInv` says
  that an answer is truthful once a goroutine has settled on it, before it is written.
  `ClockInv` says that an open gate closes when the request that opened it asked for, and
  that no disarm request took effect since. The refinement takes each step to an abstract
  one: a look at the gates that finds expired approvals lapses them all, and `LockInv` makes
  the one connection that injects the active one.
- `PairingProofs`: `TypeCorrect`, `OneWriter`, `OnlyUnpaired`, `SealedForGood`, `Durable`
  and `Served`, all the invariants of the run. `Alone` is the heart: a token that is out
  and a connection that pairs exclude each other, so the token is the lock the store
  lacks. `Unpaired` and `Fresh` make the store and the map empty meanwhile, hence
  nobody's acknowledged device can be overwritten (`Listed`, `InMemory`); `Sealing` and
  `ServerKey` say which keys stay.

- `WindowsStoreProofs`: `TypeCorrect`, `Served`, `Acked`, `NoPlaintext` and `Kept`, all the
  properties of the run, from `WindowsInv = TypeOK /\ FlowInv /\ SealInv /\ ServesSealed /\
  PairingInv /\ MigrationInv /\ AckedIsSealed`. `SealInv` says that a migration finds no
  DPAPI file, so the file is written once. In calm surroundings (`Calm`) `PairingInv`
  follows the one registered device through save, reload and migration up to its
  acknowledgement, and `MigrationInv` has both files list something only between the two
  halves of a migration, where they are equal unless DPAPI failed.

- `DesktopProofs`: `DesktopTypeCorrect`, `OwnTextOnly` (`EntersOwnText`), `ClipboardBack`
  (`ClipboardReturned`), `RepliesTell` (`ToldWhatWorked`) and `DesktopRefines`: every step of
  `Desktop` is a step of `MsgHandler` or a stutter, so the theorems above hold of it. The
  invariant is `DesktopInv = HandlerInv /\ DesktopTypeOK /\ ClipboardInv /\ EntersOwnText` with
  `Where`, `SoFar` and `Told` of each connection. `LockInv` leaves one connection at most
  in a method (`Alone`); so where a paste is pressed the clipboard holds its own text, and
  what it saved is what the user is to find. `SoFar` and `Told` carry which method reported
  success up to the reply; neither supposes anything about what a command has entered. `DesktopAuthority`: it keeps the promise of `InjectionAuthority` too.
- `LogWriterProofs`: every way a line can go keeps `LogInv` (`StepLog`), for any number of
  lines per file, files kept and failing operations. `LogKeepsTail` says that a line in no
  file has `Keep` rotated files newer than it; `CleanupKeeps`, `RenameFacts`, `TailCovered`
  and `TailIsEnough` show that a cleanup that keeps the newest `Keep` files leaves these `Keep`
  files, whatever else stays, so no invariant about the order of the files is needed.
  `GrowKeeps` and `RotateKeeps` are the ways of a line that is written without a rotation and
  with one. `LogInv` adds that no line is lost while nothing has failed.
- `ListenerProofs`: `ServiceRefines`: every step of `Listener` is a step of `MsgHandler` or a
  stutter; so `ServiceExclusive`, `ServiceTruthful`, `ServiceHonoured`, `ServiceAuthority`: what
  is proved of the handlers holds of the whole service. `ServiceLogs`: every step writes one
  line of the log, or none, or loops in its redaction; so `TailKept` (`LogKeepsTail`) and `EnoughKept` (`LogKeepsEnough`),
  and with both `ServiceTypeCorrect` (`ServiceTypeOK`).

Only model-checked: `EveryRequestAnswered` and `EveryConnectionCloses`, since liveness under
fairness is beyond this prover, and the violations, which are traces. `Ledger` and the
counts of `FrameAdmission` are written without RECURSIVE operators, as is everything here.

## 6. What is not modelled

- Cryptography: a frame is authentic or not, a sealed store opens under its key or not.
- Byte layout, wording of replies and logs, the QR image, the installers.
- The wall clock stepping back; durations of more than 2^63 ns (`armMs` of a request
  wraps there, and the reply says OK).
- Go's garbage collector, which may close a rejected connection's socket some time later.
- Two writers that share one temporary file name, and two processes that create the
  keyring item at once: a write and `getOrCreateDevicesKey` are single steps.
- The hello limiter per address and the lengths of frames: both only refuse.
- How `enforceTargetPolicy` matches names and titles: stateless rules that come down to a
  set of allowed windows.
- `applyDefaults` and the checks of `config.go`: the models take the settings as they are
  afterwards.
- Which characters of a text come in, how often, and the pace of typing; the test of
  `VkKeyScanW` for -1 (`inject_windows.go:199`); what an application does with a paste later
  on. The control that Windows messages go to is taken to be one of the focused window, and
  `WM_SETTEXT` replaces what was in it.
- A `devices_file` that itself ends in `.dpapi.json`, where Windows writes plaintext to the
  file it reads as sealed (`devices_store_windows.go:28-31`).
- `addSecret`: nothing calls it. Request numbers and the wording of log lines.
- `nvclient`: one request per process; its requests are the inputs of the handler.
- The routes of `pair_bootstrap_tcp.go` are unreachable, since the router dispatches `/pair`
  itself.
