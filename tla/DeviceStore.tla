------------------------------ MODULE DeviceStore ------------------------------
(***************************************************************************)
(* The device store on Linux and macOS: the file devices.json, plaintext   *)
(* or sealed under a key that lives in the OS keyring, and its writers.    *)
(* The daemon loads and saves it (devices_store_unix.go,                   *)
(* devices_save_unix.go, devices_write.go); the commands                   *)
(* migrate-devices-store and nvpair rewrite it from processes of their own.*)
(*                                                                         *)
(* A file is replaced by a rename: a crash before it leaves the old file.  *)
(* The keyring is external; it answers, fails outright (locked, headless), *)
(* or, in some setups, fails to read an item and accepts a new one.        *)
(***************************************************************************)
EXTENDS Naturals

CONSTANTS
  Device,      \* device identifiers
  Key,         \* device keys
  ToolKey,     \* the key nvpair draws
  NoKey,       \* no key: the device is not in the store
  Setups,      \* configurations and surroundings of the daemon
  MaxSealKeys  \* bound: seal keys created

Setup == [requireSealed : BOOLEAN,  \* require_sealed_device_store
          rotatePsk     : BOOLEAN,  \* rotate_device_psk_on_repair
          rotateKyber   : BOOLEAN,  \* rotate_kyber_keys
          tools         : BOOLEAN,  \* nvpair and the migration command are used
          lossyKeyring  : BOOLEAN]  \* the keyring can fail to read and still write

ASSUME StoreAssumption ==
  /\ Setups \subseteq Setup
  /\ ToolKey \in Key /\ NoKey \notin Key
  /\ MaxSealKeys \in Nat \ {0}

VARIABLES
  cfg,    \* the setup, fixed
  store,  \* the contents of devices.json
  ring,   \* the keyring item: 0 when there is none, else the number of its key
  tool    \* the command that is rewriting the store, and what it read

storeVars == <<cfg, store, ring, tool>>

NoDevices == [d \in Device |-> NoKey]
Devices   == [Device -> Key \cup {NoKey}]

Missing      == [form |-> "missing", devs |-> NoDevices, under |-> 0]
Plain(m)     == [form |-> "plain", devs |-> m, under |-> 0]
Sealed(m, k) == [form |-> "sealed", devs |-> m, under |-> k]

NoTool == [pc |-> "none"]

-----------------------------------------------------------------------------
(* getOrCreateDevicesKey: an item that is there is returned; any error of    *)
(* the read leads to a new item, which replaces one that is there.           *)

\* Fault: a new key for every use.
AlwaysNewKey == ring < MaxSealKeys /\ ring' = ring + 1

SealKey ==
  \/ ring # 0 /\ UNCHANGED ring
  \/ /\ ring = 0 \/ (cfg.lossyKeyring /\ ring < MaxSealKeys)
     /\ ring' = ring + 1

\* It fails when the keyring takes no item either.
NoSealKey == UNCHANGED ring

-----------------------------------------------------------------------------
(* loadDevicesFromDisk, one predicate per outcome. Only a sealed file asks    *)
(* for the seal key, and opens with the key it was sealed under.             *)

LoadsDevices(m) ==
  /\ store.form # "missing" /\ store.devs # NoDevices /\ m = store.devs
  /\ IF store.form = "sealed"
     THEN SealKey /\ ring' = store.under
     ELSE ~cfg.requireSealed /\ UNCHANGED ring

\* ErrNotPaired: there is no file, or it lists no devices.
FindsNoDevices ==
  /\ \/ store.form = "missing" /\ UNCHANGED ring
     \/ store.form = "plain" /\ ~cfg.requireSealed /\ UNCHANGED ring
     \/ store.form = "sealed" /\ SealKey /\ ring' = store.under
  /\ store.devs = NoDevices

\* ErrDevicesUnavailable: it cannot be read, or is sealed and cannot be opened,
\* or is not sealed and should be.
StoreUnavailable ==
  \/ store.form # "missing" /\ NoSealKey
  \/ store.form = "sealed" /\ SealKey /\ ring' # store.under

\* saveDevicesToDisk: sealed, or plaintext where that is allowed and the
\* keyring is unavailable.
Saves(m) ==
  \/ SealKey /\ store' = Sealed(m, ring')
  \/ NoSealKey /\ ~cfg.requireSealed /\ store' = Plain(m)

\* The save fails: sealing is required and impossible, or the file cannot be
\* written, by which time the seal key may have been created.
SaveFails == (SealKey \/ NoSealKey) /\ UNCHANGED store

-----------------------------------------------------------------------------
(* Commands. nvpair knows plaintext only: a sealed file has no "devices"     *)
(* member and reads as one without devices.                                  *)

NvpairReads(d) ==
  LET seen == IF store.form = "plain" THEN store.devs ELSE NoDevices
  IN  /\ cfg.tools /\ tool = NoTool
      /\ tool' = [pc |-> "nvpair", dev |-> d, devs |-> [seen EXCEPT ![d] = ToolKey]]
      /\ UNCHANGED <<cfg, store, ring>>

NvpairWrites ==
  /\ tool.pc = "nvpair"
  /\ store' = Plain(tool.devs)
  /\ tool' = NoTool
  /\ UNCHANGED <<cfg, ring>>

\* migrate-devices-store seals a plaintext file that lists devices.
MigrateReads ==
  /\ cfg.tools /\ tool = NoTool
  /\ store.form = "plain" /\ store.devs # NoDevices
  /\ SealKey
  /\ tool' = [pc |-> "migrate", devs |-> store.devs, under |-> ring']
  /\ UNCHANGED <<cfg, store>>

MigrateWrites ==
  /\ tool.pc = "migrate"
  /\ store' = Sealed(tool.devs, tool.under)
  /\ tool' = NoTool
  /\ UNCHANGED <<cfg, ring>>

\* A command that is interrupted, or cannot write, leaves the store alone.
ToolFails ==
  /\ tool # NoTool
  /\ tool' = NoTool
  /\ UNCHANGED <<cfg, store, ring>>

ToolStep ==
  \/ \E d \in Device : NvpairReads(d)
  \/ NvpairWrites \/ MigrateReads \/ MigrateWrites \/ ToolFails

-----------------------------------------------------------------------------
\* A machine on which the daemon has not been paired, or has been paired with
\* the devices of Old before.
StoreInit(Old) ==
  /\ cfg \in Setups
  /\ ring \in {0, 1}
  /\ \/ store \in {Missing, Plain(NoDevices)}
     \/ \E m \in Old : store = Plain(m) \/ (ring = 1 /\ store = Sealed(m, ring))
  /\ tool = NoTool

StoreTypeOK ==
  /\ cfg \in Setups
  /\ ring \in 0..MaxSealKeys
  /\ store \in [form : {"missing", "plain", "sealed"}, devs : Devices, under : 0..MaxSealKeys]
  /\ tool \in [pc : {"nvpair"}, dev : Device, devs : Devices]
              \cup [pc : {"migrate"}, devs : Devices, under : 0..MaxSealKeys]
              \cup {NoTool}

\* getOrCreateDevicesKey "returns a 32-byte key used to seal/unseal the devices
\* store": a sealed store is sealed under the key the keyring holds.
SealedStoreOpens == store.form = "sealed" => store.under = ring

\* It is, through saves, migrations, crashes and outages of the keyring, unless
\* the keyring fails to read an item it holds.
SealKeyStable == ~cfg.lossyKeyring => SealedStoreOpens

\* nvpair's "Add or update device ID": what it writes has every other device the
\* store has.
NvpairKeepsOthers ==
  tool.pc = "nvpair" => \A d \in Device \ {tool.dev} : tool.devs[d] = store.devs[d]
=============================================================================
