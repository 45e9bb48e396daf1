------------------------------ MODULE WindowsStore ------------------------------
(***************************************************************************)
(* The device store on Windows: devices.json, which pairing writes in      *)
(* plaintext, and devices.dpapi.json, which the daemon loads and moves the *)
(* plaintext file into (devices_store_windows.go, devices_save_windows.go, *)
(* dpapi_windows.go). The daemon starts, pairs, reloads and may crash      *)
(* between any two file operations; nvpair writes devices.json beside it.  *)
(*                                                                         *)
(* The token lets one connection pair per start (Pairing), so one load or  *)
(* save is under way at a time: task says for whom, pc which operation is  *)
(* next. A file that lists no device and one that is missing are the same  *)
(* to every reader. Temporary files are read by nobody. A devices_file     *)
(* that itself ends in .dpapi.json, which would make the two files one, is *)
(* not modelled.                                                           *)
(***************************************************************************)
EXTENDS Naturals

CONSTANTS
  Device,   \* device identifiers
  Key,      \* device keys
  ToolKey,  \* the key nvpair draws
  NoKey,    \* the device is not listed
  Setups,   \* surroundings of the daemon
  Old,      \* stores of an earlier time
  MaxStarts \* bound: starts of the daemon

NoDevices == [d \in Device |-> NoKey]
Devices   == [Device -> Key \cup {NoKey}]

Setup == [protects : BOOLEAN,  \* DPAPI and the write of its file never fail
          flaky    : BOOLEAN,  \* reads, unprotecting and removals can fail
          tools    : BOOLEAN]  \* nvpair is used

ASSUME WindowsAssumption ==
  /\ Setups \subseteq Setup
  /\ Old \subseteq Devices
  /\ ToolKey \in Key /\ NoKey \notin Key
  /\ MaxStarts \in Nat

VARIABLES
  cfg,     \* the setup, fixed
  sealed,  \* what devices.dpapi.json lists
  plain,   \* what devices.json lists
  task,    \* what the daemon is doing: off, start, run, upsert, reload
  pc,      \* its next file operation, or none
  held,    \* the devices that a migration or a save carries
  mem,     \* devices: the map in memory
  token,   \* a pairing token is out
  phone,   \* the device and key that a connection registers
  acked,   \* history: the key last acknowledged to each device
  starts,  \* starts of the daemon so far
  cut,     \* history: a crash hit between the write and the removal of a migration
  tool     \* what nvpair is about to write, or NoDevices

files  == <<sealed, plain>>
memory == <<mem, token, phone>>
rest   == <<cfg, acked, starts, cut, tool>>
vars   == <<files, task, pc, held, memory, rest>>

NoPhone == [dev |-> NoKey, key |-> NoKey]

-----------------------------------------------------------------------------
(* What follows a load.                                                      *)

\* It returned the map m, or ErrNotPaired when m is empty: that starts an
\* unpaired daemon and an empty store; a reload goes on only if it is accepted.
Continue(m, accepted) ==
  \/ /\ task = "start"
     /\ mem' = m /\ token' = (m = NoDevices)
     /\ task' = "run" /\ pc' = "none"
     /\ UNCHANGED <<held, phone>>
  \/ /\ task = "upsert"
     /\ held' = [m EXCEPT ![phone.dev] = phone.key]
     /\ pc' = "tmp"
     /\ UNCHANGED <<task, memory>>
  \/ /\ task = "reload" /\ accepted
     /\ mem' = m
     /\ pc' = "ack"
     /\ UNCHANGED <<task, held, token, phone>>
  \/ /\ task = "reload" /\ ~accepted
     /\ task' = "run" /\ pc' = "none"
     /\ UNCHANGED <<held, memory>>

\* Fault: a reload that finds no devices is taken for a success.
LoadedAnyway(m) == Continue(m, TRUE)

Loaded(m) == Continue(m, m # NoDevices)

\* An error ends main at the start, and afterwards the connection.
Fails ==
  /\ task' = IF task = "start" THEN "off" ELSE "run"
  /\ pc' = "none"
  /\ UNCHANGED <<held, memory>>

-----------------------------------------------------------------------------
(* loadDevicesFromDisk, one file operation a step.                           *)

OpenDPAPI ==
  /\ pc = "open"
  /\ \/ sealed # NoDevices /\ Loaded(sealed)
     \/ sealed = NoDevices /\ pc' = "plain" /\ UNCHANGED <<task, held, memory>>
     \/ cfg.flaky /\ Fails
  /\ UNCHANGED <<files, rest>>

\* Fault: the plaintext file is removed as soon as it has been read.
OpenPlainRemoving ==
  /\ pc = "plain"
  /\ \/ /\ plain # NoDevices
        /\ held' = plain /\ pc' = "protect" /\ plain' = NoDevices
        /\ UNCHANGED <<task, memory>>
     \/ plain = NoDevices /\ Loaded(NoDevices) /\ UNCHANGED plain
  /\ UNCHANGED <<sealed, rest>>

\* No DPAPI file: is there a plaintext one? If it cannot be read the answer is
\* still that there is no DPAPI file, hence ErrNotPaired.
OpenPlain ==
  /\ pc = "plain"
  /\ \/ /\ plain # NoDevices
        /\ held' = plain /\ pc' = "protect"
        /\ UNCHANGED <<task, memory>>
     \/ (plain = NoDevices \/ cfg.flaky) /\ Loaded(NoDevices)
  /\ UNCHANGED <<files, rest>>

\* writeDevicesDPAPIFile, whose error is ignored; a rename replaces the file.
Protect ==
  /\ pc = "protect"
  /\ \/ sealed' = held
     \/ ~cfg.protects /\ UNCHANGED sealed
  /\ pc' = "unlink"
  /\ UNCHANGED <<plain, task, held, memory, rest>>

\* The plaintext file is removed in any case.
\* Fault: the file that was migrated stays.
UnlinkNot ==
  /\ pc = "unlink"
  /\ pc' = "reopen"
  /\ UNCHANGED <<files, task, held, memory, rest>>

Unlink ==
  /\ pc = "unlink"
  /\ plain' = NoDevices \/ (cfg.flaky /\ UNCHANGED plain)
  /\ pc' = "reopen"
  /\ UNCHANGED <<sealed, task, held, memory, rest>>

\* Fault: the map that was read is returned, not the one that was written.
ReopenHeld ==
  /\ pc = "reopen"
  /\ Loaded(held)
  /\ UNCHANGED <<files, rest>>

Reopen ==
  /\ pc = "reopen"
  /\ Loaded(sealed) \/ (cfg.flaky /\ Fails)
  /\ UNCHANGED <<files, rest>>

-----------------------------------------------------------------------------
(* saveDevicesToDisk: temporary file, removal, rename. A rename that fails   *)
(* does so after the removal.                                                *)

WriteTmp ==
  /\ pc = "tmp"
  /\ \/ pc' = "clear" /\ UNCHANGED <<task, held, memory>>
     \/ Fails
  /\ UNCHANGED <<files, rest>>

RemoveOld ==
  /\ pc = "clear"
  /\ plain' = NoDevices \/ (cfg.flaky /\ UNCHANGED plain)
  /\ pc' = "rename"
  /\ UNCHANGED <<sealed, task, held, memory, rest>>

RenameNew ==
  /\ pc = "rename"
  /\ \/ /\ plain' = held
        /\ task' = "reload" /\ pc' = "open"
        /\ UNCHANGED <<held, memory>>
     \/ UNCHANGED plain /\ Fails
  /\ UNCHANGED <<sealed, rest>>

-----------------------------------------------------------------------------
(* The daemon.                                                               *)

Start ==
  /\ task = "off" /\ starts < MaxStarts
  /\ task' = "start" /\ pc' = "open"
  /\ starts' = starts + 1
  /\ UNCHANGED <<files, held, memory, cfg, acked, cut, tool>>

\* Fault: the registration is not kept.
RegisterNothing(d, k) ==
  /\ task = "run" /\ token
  /\ token' = FALSE
  /\ task' = "upsert" /\ pc' = "open"
  /\ UNCHANGED <<files, held, mem, phone, rest>>

\* A connection presents the token and registers a device and a key.
Register(d, k) ==
  /\ task = "run" /\ token
  /\ token' = FALSE
  /\ phone' = [dev |-> d, key |-> k]
  /\ task' = "upsert" /\ pc' = "open"
  /\ UNCHANGED <<files, held, mem, rest>>

\* The acknowledgement arrives or is lost.
Ack(received) ==
  /\ pc = "ack"
  /\ acked' = IF received THEN [acked EXCEPT ![phone.dev] = phone.key] ELSE acked
  /\ task' = "run" /\ pc' = "none"
  /\ UNCHANGED <<files, held, memory, cfg, starts, cut, tool>>

Crash ==
  /\ task # "off"
  /\ task' = "off" /\ pc' = "none" /\ held' = NoDevices
  /\ mem' = NoDevices /\ token' = FALSE /\ phone' = NoPhone
  /\ cut' = (cut \/ pc = "unlink")
  /\ UNCHANGED <<files, cfg, acked, starts, tool>>

\* nvpair knows devices.json only.
NvpairReads(d) ==
  /\ cfg.tools /\ tool = NoDevices
  /\ tool' = [plain EXCEPT ![d] = ToolKey]
  /\ UNCHANGED <<files, task, pc, held, memory, cfg, acked, starts, cut>>

NvpairWrites ==
  /\ tool # NoDevices
  /\ plain' = tool
  /\ tool' = NoDevices
  /\ UNCHANGED <<sealed, task, pc, held, memory, cfg, acked, starts, cut>>

Init ==
  /\ cfg \in Setups
  /\ sealed \in Old \cup {NoDevices}
  /\ plain \in Old \cup {NoDevices}
  /\ task = "off" /\ pc = "none" /\ held = NoDevices
  /\ mem = NoDevices /\ token = FALSE /\ phone = NoPhone
  /\ acked = NoDevices /\ starts = 0 /\ tool = NoDevices
  /\ cut = (sealed # NoDevices /\ plain # NoDevices)

Next ==
  \/ Start \/ Crash
  \/ OpenDPAPI \/ OpenPlain \/ Protect \/ Unlink \/ Reopen
  \/ \E d \in Device, k \in Key : Register(d, k)
  \/ WriteTmp \/ RemoveOld \/ RenameNew
  \/ \E received \in BOOLEAN : Ack(received)
  \/ \E d \in Device : NvpairReads(d)
  \/ NvpairWrites

Spec == Init /\ [][Next]_vars

-----------------------------------------------------------------------------
Tasks == {"off", "start", "run", "upsert", "reload"}
Steps == {"none", "open", "plain", "protect", "unlink", "reopen",
          "tmp", "clear", "rename", "ack"}

\* Type invariant.
TypeOK ==
  /\ cfg \in Setups
  /\ sealed \in Devices /\ plain \in Devices /\ held \in Devices
  /\ mem \in Devices /\ tool \in Devices /\ acked \in Devices
  /\ task \in Tasks /\ pc \in Steps
  /\ token \in BOOLEAN /\ cut \in BOOLEAN /\ starts \in 0..MaxStarts
  /\ phone \in [dev : Device \cup {NoKey}, key : Key \cup {NoKey}]
  /\ task \in {"upsert", "reload"} => phone \in [dev : Device, key : Key]

\* A daemon that serves devices serves those of the DPAPI file, whatever failed
\* or crashed and whatever nvpair wrote: the file, once there, is never replaced.
ServesSealed == mem # NoDevices => mem = sealed

\* A phone that has its acknowledgement is paired for good: the DPAPI file lists
\* its key through any crash and any number of starts, even where DPAPI fails, as
\* long as files can be read and removed and nvpair keeps away.
AckedIsSealed ==
  (~cfg.flaky /\ ~cfg.tools) =>
     \A d \in Device : acked[d] # NoKey => sealed[d] = acked[d]

\* devices_store_windows.go, of a plaintext file: "it will encrypt+replace". No key
\* stays in the clear beside a daemon that serves, unless a crash came between
\* the two halves of that: a later start then finds the DPAPI file and looks no further.
PlaintextReplaced ==
  (~cfg.flaky /\ ~cfg.tools /\ ~cut /\ mem # NoDevices /\ pc = "none") => plain = NoDevices

\* Where nothing fails but saves and the process itself, a device that one of
\* the files lists stays listed: migration and save are safe against a crash
\* between any two of their file operations.
Lists(d, k) == sealed[d] = k \/ plain[d] = k
NothingForgotten ==
  [][(cfg.protects /\ ~cfg.flaky /\ ~cfg.tools) =>
        \A d \in Device, k \in Key : Lists(d, k) => Lists(d, k)']_vars

-----------------------------------------------------------------------------
(* The inductive invariant behind these properties.                          *)

\* Where the daemon is in a task; a token is out only while nothing is under way.
FlowInv ==
  /\ task \in {"off", "run"} => pc = "none"
  /\ task \in {"start", "upsert", "reload"} => pc # "none"
  /\ pc \in {"tmp", "clear", "rename"} => task = "upsert"
  /\ pc = "ack" => task = "reload"
  /\ token => task = "run"
  /\ ~cfg.tools => tool = NoDevices

\* A migration begins and ends where there was no DPAPI file.
SealInv == pc \in {"plain", "protect"} => sealed = NoDevices

\* Where files can be read and removed and nvpair keeps away ...
Calm == ~cfg.flaky /\ ~cfg.tools

\* ... a token is out only when neither file lists anything, and what a pairing
\* saves and moves is the one device it registers.
TheOne == [NoDevices EXCEPT ![phone.dev] = phone.key]
PairingInv ==
  Calm =>
    /\ token => sealed = NoDevices /\ plain = NoDevices
    /\ pc = "protect" => held = plain
    /\ pc = "reopen" => plain = NoDevices
    /\ task = "upsert" =>
         /\ pc \in {"open", "plain", "tmp", "clear", "rename"}
         /\ sealed = NoDevices /\ plain = NoDevices
         /\ pc \in {"tmp", "clear", "rename"} => held = TheOne
    /\ task = "reload" =>
         /\ pc \in {"open", "plain"} => sealed = NoDevices
         /\ pc \in {"open", "plain", "protect"} => plain = TheOne
         /\ pc \in {"unlink", "reopen"} => sealed \in {NoDevices, TheOne}
         /\ pc = "ack" => sealed = TheOne

\* ... and both files list something only between the halves of a migration.
MigrationInv ==
  Calm =>
    /\ (~cut /\ sealed # NoDevices /\ pc # "unlink") => plain = NoDevices
    /\ (cfg.protects /\ pc = "unlink") => sealed = plain

WindowsInv ==
  TypeOK /\ FlowInv /\ SealInv /\ ServesSealed /\ PairingInv /\ MigrationInv /\ AckedIsSealed
=============================================================================
