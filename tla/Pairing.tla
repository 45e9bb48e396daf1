-------------------------------- MODULE Pairing --------------------------------
(***************************************************************************)
(* Pairing: the one-shot token of an unpaired daemon (pair_token.go,       *)
(* pair_qr_start.go), the "/pair" connections (handlePairConn in           *)
(* pairing_proto.go), the device map and the server key pair in memory,    *)
(* and the start of the daemon (initCrypto, keys.go), which may crash and  *)
(* be started again at any point.                                          *)
(*                                                                         *)
(* Nothing locks the store while a connection reads, changes and writes    *)
(* it: what keeps two connections apart is the token. A member of Conn is  *)
(* a connection and the attempt of a phone to pair over it; it knows the   *)
(* tokens of QR codes. Token n belongs to the n-th start of the daemon.    *)
(***************************************************************************)
EXTENDS DeviceStore

CONSTANTS
  Conn,       \* connections, each an attempt to pair
  PhoneKey,   \* the key each attempt offers, or NoKey
  FreshKey,   \* the key the daemon draws for an attempt
  PairedWith, \* stores left by pairings of an earlier time
  NoDevice,   \* no device named yet
  TTL,        \* the life of a token
  MaxTime,    \* bound: the last instant modelled
  MaxStarts   \* bound: starts of the daemon

ASSUME PairingAssumption ==
  /\ PhoneKey \in [Conn -> Key \cup {NoKey}]
  /\ FreshKey \in [Conn -> Key]
  /\ PairedWith \subseteq Devices /\ NoDevice \notin Device
  /\ TTL \in Nat /\ MaxTime \in Nat \ {0} /\ MaxStarts \in Nat \ {0}

VARIABLES
  clock,   \* time.Now()
  up,      \* the daemon runs
  starts,  \* its starts so far
  kyber,   \* server_keys.json: the number of the key pair, 0 when missing
  mem,     \* devices: the map in memory
  token,   \* pairTok.expires while it is active, else 0
  pc,      \* where each connection is
  dev,     \* the device each connection registers
  key,     \* the key it registers
  saved,   \* the device map writeDevicesFile is about to save for it
  seen,    \* history: the server key it was sent, 0 before
  acked    \* history: the phone has read the acknowledgement

daemon == <<clock, up, starts, kyber, mem, token>>
conns  == <<pc, dev, key, saved, seen, acked>>
vars   == <<storeVars, daemon, conns>>

Goto(c, label) == pc' = [pc EXCEPT ![c] = label]

-----------------------------------------------------------------------------
(* The daemon starts: server keys, device store, and a token if unpaired.    *)

\* loadOrCreateServerKeys.
LoadServerKeys ==
  kyber' = IF cfg.rotateKyber \/ kyber = 0 THEN kyber + 1 ELSE kyber

\* isPaired, asked once, when the QR code would be shown.
\* Fault: the QR code is shown at every start.
OfferAlways(m) == token' = clock + TTL

OfferToken(m) == token' = IF m = NoDevices THEN clock + TTL ELSE 0

Start ==
  /\ ~up /\ starts < MaxStarts
  /\ LoadServerKeys
  /\ \E m \in Devices :
       /\ LoadsDevices(m) \/ (FindsNoDevices /\ m = NoDevices)
       /\ mem' = m
       /\ OfferToken(m)
  /\ up' = TRUE /\ starts' = starts + 1
  /\ UNCHANGED <<clock, cfg, store, tool, conns>>

\* The store cannot be opened and main ends, or it is interrupted, with the server
\* keys in place.
StartFails ==
  /\ ~up /\ starts < MaxStarts
  /\ LoadServerKeys
  /\ StoreUnavailable \/ UNCHANGED ring
  /\ starts' = starts + 1
  /\ UNCHANGED <<clock, up, mem, token, cfg, store, tool, conns>>

\* A crash or a stop; connections end with the process.
Crash ==
  /\ up
  /\ up' = FALSE
  /\ mem' = NoDevices /\ token' = 0
  /\ pc' = [c \in Conn |-> IF pc[c] = "idle" THEN "idle" ELSE "closed"]
  /\ UNCHANGED <<clock, starts, kyber, storeVars, dev, key, saved, seen, acked>>

-----------------------------------------------------------------------------
(* A pairing connection. Every read may end in the 25 s deadline or in        *)
(* garbage, and every refusal closes the connection.                          *)

Drop(c) ==
  /\ pc[c] = "register"
  /\ Goto(c, "closed")
  /\ UNCHANGED <<storeVars, daemon, dev, key, saved, seen, acked>>

\* Fault: the token stays valid until it expires.
PresentTokenAgain(c, t) ==
  /\ up /\ pc[c] = "idle"
  /\ IF token # 0 /\ clock <= token /\ t = starts
     THEN Goto(c, "register") /\ seen' = [seen EXCEPT ![c] = kyber] /\ UNCHANGED token
     ELSE Goto(c, "closed") /\ UNCHANGED <<token, seen>>
  /\ UNCHANGED <<storeVars, clock, up, starts, kyber, mem, dev, key, saved, acked>>

\* consumePairToken on the hello line, and the server key in return. An expired
\* token is withdrawn; a wrong one changes nothing.
PresentToken(c, t) ==
  /\ up /\ pc[c] = "idle"
  /\ IF token # 0 /\ clock <= token /\ t = starts
     THEN Goto(c, "register") /\ seen' = [seen EXCEPT ![c] = kyber] /\ token' = 0
     ELSE /\ Goto(c, "closed") /\ UNCHANGED seen
          /\ token' = IF clock > token THEN 0 ELSE token
  /\ UNCHANGED <<storeVars, clock, up, starts, kyber, mem, dev, key, saved, acked>>

\* Fault: a device without a name is not given one.
RegisterNameless(c, d) ==
  /\ pc[c] = "register"
  /\ key' = [key EXCEPT ![c] = IF PhoneKey[c] = NoKey THEN FreshKey[c] ELSE PhoneKey[c]]
  /\ Goto(c, "load")
  /\ UNCHANGED <<storeVars, daemon, dev, saved, seen, acked>>

\* The register frame names a device, or has the daemon name it, and gets the key
\* the phone offers, unless it offers none or a known device is to get a new one.
Register(c, d) ==
  LET known == cfg.rotatePsk /\ mem[d] # NoKey
  IN  /\ pc[c] = "register"
      /\ dev' = [dev EXCEPT ![c] = d]
      /\ key' = [key EXCEPT ![c] = IF known \/ PhoneKey[c] = NoKey
                                   THEN FreshKey[c] ELSE PhoneKey[c]]
      /\ Goto(c, "load")
      /\ UNCHANGED <<storeVars, daemon, saved, seen, acked>>

\* writeDevicesFile reads the store ...
LoadStore(c) ==
  /\ pc[c] = "load"
  /\ \/ \E m \in Devices :
          /\ LoadsDevices(m) \/ (FindsNoDevices /\ m = NoDevices)
          /\ saved' = [saved EXCEPT ![c] = [m EXCEPT ![dev[c]] = key[c]]]
          /\ Goto(c, "save")
     \/ StoreUnavailable /\ Goto(c, "closed") /\ UNCHANGED saved
  /\ UNCHANGED <<cfg, store, tool, daemon, dev, key, seen, acked>>

\* ... and writes it back with the device.
SaveStore(c) ==
  /\ pc[c] = "save"
  /\ \/ Saves(saved[c]) /\ Goto(c, "reload")
     \/ SaveFails /\ Goto(c, "closed")
  /\ UNCHANGED <<cfg, tool, daemon, dev, key, saved, seen, acked>>

\* Fault: a reload that fails is logged and the pairing goes on.
ReloadAnyway(c) ==
  /\ pc[c] = "reload"
  /\ \/ \E m \in Devices : LoadsDevices(m) /\ mem' = m
     \/ (FindsNoDevices \/ StoreUnavailable) /\ UNCHANGED mem
  /\ Goto(c, "ack")
  /\ UNCHANGED <<cfg, store, tool, clock, up, starts, kyber, token, dev, key, saved, seen, acked>>

\* reloadDevicesFromDisk. An empty store is an error here.
Reload(c) ==
  /\ pc[c] = "reload"
  /\ \/ \E m \in Devices : LoadsDevices(m) /\ mem' = m /\ Goto(c, "ack")
     \/ (FindsNoDevices \/ StoreUnavailable) /\ UNCHANGED mem /\ Goto(c, "closed")
  /\ UNCHANGED <<cfg, store, tool, clock, up, starts, kyber, token, dev, key, saved, seen, acked>>

\* The acknowledgement reaches the phone or is lost with the connection.
Ack(c, received) ==
  /\ pc[c] = "ack"
  /\ acked' = [acked EXCEPT ![c] = received]
  /\ Goto(c, "closed")
  /\ UNCHANGED <<storeVars, daemon, dev, key, saved, seen>>

-----------------------------------------------------------------------------
Tick ==
  /\ clock < MaxTime
  /\ clock' = clock + 1
  /\ UNCHANGED <<storeVars, up, starts, kyber, mem, token, conns>>

Tool == ToolStep /\ UNCHANGED <<daemon, conns>>

Init ==
  /\ StoreInit(PairedWith)
  /\ clock = 1
  /\ up = FALSE /\ starts = 0
  /\ kyber \in {0, 1}
  /\ mem = NoDevices /\ token = 0
  /\ pc = [c \in Conn |-> "idle"]
  /\ dev = [c \in Conn |-> NoDevice]
  /\ key = [c \in Conn |-> NoKey]
  /\ saved = [c \in Conn |-> NoDevices]
  /\ seen = [c \in Conn |-> 0]
  /\ acked = [c \in Conn |-> FALSE]

Next ==
  \/ Start \/ StartFails \/ Crash
  \/ \E c \in Conn :
       \/ \E t \in 0..MaxStarts : PresentToken(c, t)
       \/ \E d \in Device : Register(c, d)
       \/ Drop(c) \/ LoadStore(c) \/ SaveStore(c) \/ Reload(c)
       \/ \E received \in BOOLEAN : Ack(c, received)
  \/ Tick
  \/ Tool

Spec == Init /\ [][Next]_vars

-----------------------------------------------------------------------------
\* Type invariant.
TypeOK ==
  /\ StoreTypeOK
  /\ clock \in 1..MaxTime /\ up \in BOOLEAN /\ starts \in 0..MaxStarts
  /\ kyber \in 0..(MaxStarts + 1) /\ mem \in Devices /\ token \in 0..(MaxTime + TTL)
  /\ pc \in [Conn -> {"idle", "register", "load", "save", "reload", "ack", "closed"}]
  /\ dev \in [Conn -> Device \cup {NoDevice}]
  /\ \A c \in Conn : (pc[c] \in {"load", "save", "reload", "ack"} \/ acked[c]) => dev[c] \in Device
  /\ key \in [Conn -> Key \cup {NoKey}] /\ saved \in [Conn -> Devices]
  /\ seen \in [Conn -> 0..(MaxStarts + 1)] /\ acked \in [Conn -> BOOLEAN]

Pairs == {"register", "load", "save", "reload", "ack"}

\* The read-modify-write of the store, which no lock guards, is never run by
\* two connections at once.
SingleWriter == \A c, d \in Conn : (pc[c] \in Pairs /\ pc[d] \in Pairs) => c = d

\* PROTOCOL.md: "Pairing occurs only when no devices are currently paired". The
\* daemon asks only when it starts; nobody but it may write the store since.
PairsOnlyUnpaired ==
  ~cfg.tools => \A c \in Conn : pc[c] \in {"register", "load", "save"} => store.devs = NoDevices

\* A phone that has its acknowledgement is paired for good: whatever crashes,
\* the store lists its device with its key and can be opened.
PairingsDurable ==
  (~cfg.tools /\ ~cfg.lossyKeyring) => \A c \in Conn : acked[c] =>
    /\ store.devs[dev[c]] = key[c]
    /\ SealedStoreOpens

\* It can talk to any daemon that runs from then on: the map has the key it
\* offered, and the server key it was sent is still in use.
AckedPhoneIsServed ==
  (~cfg.tools /\ up) => \A c \in Conn : acked[c] =>
    /\ mem[dev[c]] = key[c]
    /\ PhoneKey[c] # NoKey => key[c] = PhoneKey[c]
    /\ ~cfg.rotateKyber => seen[c] = kyber
=============================================================================
