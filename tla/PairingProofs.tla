----------------------------- MODULE PairingProofs -----------------------------
(***************************************************************************)
(* Proofs about Pairing and the device store for every set of devices,     *)
(* connections, keys and setups, and any number of starts.                 *)
(***************************************************************************)
EXTENDS Pairing, TLAPS

Writing == {"register", "load", "save", "reload"}

\* The parts of the inductive invariant. Commands run only where they are used.
CommandsOff == tool # NoTool => cfg.tools

\* The number of a server key is bounded by the number of starts.
KyberBound == kyber <= starts + 1

\* The token and the connections that pair exclude one another, and both belong
\* to a daemon that runs.
Alone ==
  /\ SingleWriter
  /\ token # 0 => up
  /\ \A c \in Conn : pc[c] \in Pairs => up /\ token = 0

\* Nothing is paired while a token is out or a connection writes.
Fresh ==
  /\ token # 0 => mem = NoDevices
  /\ \A c \in Conn : pc[c] \in Writing => mem = NoDevices

Unpaired == ~cfg.tools =>
  /\ token # 0 => store.devs = NoDevices
  /\ \A c \in Conn : pc[c] \in {"register", "load", "save"} => store.devs = NoDevices

\* Whoever seals does it under the key the keyring keeps.
Sealing == ~cfg.lossyKeyring =>
  /\ store.form = "sealed" => store.under = ring /\ ring # 0
  /\ tool.pc = "migrate" => tool.under = ring /\ ring # 0

\* A connection registers the key its phone offers, and a phone with its
\* acknowledgement is done.
Keys == \A c \in Conn :
  /\ pc[c] \in {"load", "save", "reload", "ack"} \/ acked[c] =>
       key[c] # NoKey /\ (PhoneKey[c] # NoKey => key[c] = PhoneKey[c])
  /\ acked[c] => pc[c] = "closed"

\* From the save on, the store lists the device.
Listed == ~cfg.tools => \A c \in Conn :
  /\ pc[c] = "save" => saved[c][dev[c]] = key[c]
  /\ pc[c] \in {"reload", "ack"} \/ acked[c] => store.devs[dev[c]] = key[c]

\* From the reload on, so does the map of a daemon that runs.
InMemory == ~cfg.tools => \A c \in Conn :
  pc[c] = "ack" \/ (acked[c] /\ up) => mem[dev[c]] = key[c]

\* The server key a phone was sent stays.
ServerKey == ~cfg.rotateKyber =>
  /\ up => kyber # 0
  /\ \A c \in Conn : pc[c] \in Pairs \/ acked[c] => seen[c] = kyber /\ kyber # 0

IInv == /\ TypeOK /\ CommandsOff /\ KyberBound /\ Alone /\ Fresh /\ Unpaired
        /\ Sealing /\ Keys /\ Listed /\ InMemory /\ ServerKey

-----------------------------------------------------------------------------
(* What the operations on the store and the program counters do.             *)

\* A use of the seal key leaves a key in the keyring, the one it held unless the
\* keyring can fail to read it.
LEMMA SealKeyEffect ==
  ASSUME ring \in 0..MaxSealKeys, SealKey
  PROVE  /\ ring' \in 1..MaxSealKeys
         /\ ring # 0 /\ ~cfg.lossyKeyring => ring' = ring
  BY StoreAssumption DEF SealKey

\* A load that succeeds gives the devices of the store.
LEMMA LoadEffect ==
  ASSUME NEW m \in Devices, StoreTypeOK,
         LoadsDevices(m) \/ (FindsNoDevices /\ m = NoDevices)
  PROVE  /\ m = store.devs
         /\ ring' \in 0..MaxSealKeys
         /\ ring # 0 => ring' # 0
         /\ ring # 0 /\ ~cfg.lossyKeyring => ring' = ring
  BY StoreAssumption, SealKeyEffect DEF LoadsDevices, FindsNoDevices, StoreTypeOK, SealKey

LEMMA LoadFailsEffect ==
  ASSUME StoreTypeOK, StoreUnavailable \/ FindsNoDevices \/ UNCHANGED ring
  PROVE  /\ ring' \in 0..MaxSealKeys
         /\ ring # 0 => ring' # 0
         /\ ring # 0 /\ ~cfg.lossyKeyring => ring' = ring
  BY StoreAssumption, SealKeyEffect DEF StoreUnavailable, FindsNoDevices, StoreTypeOK,
     NoSealKey, SealKey

\* A save stores the devices it is given, sealed under the key of the keyring or
\* in plaintext.
LEMMA SaveEffect ==
  ASSUME NEW m \in Devices, StoreTypeOK, Saves(m)
  PROVE  /\ store' \in [form : {"missing", "plain", "sealed"}, devs : Devices,
                        under : 0..MaxSealKeys]
         /\ store'.devs = m
         /\ store'.form = "sealed" => store'.under = ring' /\ ring' # 0
         /\ ring' \in 0..MaxSealKeys
         /\ ring # 0 /\ ~cfg.lossyKeyring => ring' = ring
  BY StoreAssumption, SealKeyEffect DEF Saves, Sealed, Plain, NoSealKey, StoreTypeOK

LEMMA SaveFailsEffect ==
  ASSUME StoreTypeOK, SaveFails
  PROVE  /\ ring' \in 0..MaxSealKeys /\ UNCHANGED store
         /\ ring # 0 /\ ~cfg.lossyKeyring => ring' = ring
  BY StoreAssumption, SealKeyEffect DEF SaveFails, NoSealKey, StoreTypeOK

\* The devices of an untouched store, and of one with one device changed.
LEMMA DevicesType ==
  /\ NoDevices \in Devices /\ \A d \in Device : NoDevices[d] = NoKey
  /\ \A m \in Devices, d \in Device, k \in Key \cup {NoKey} :
       [m EXCEPT ![d] = k] \in Devices /\ [m EXCEPT ![d] = k][d] = k
  BY DEF NoDevices, Devices

\* Commands keep the store typed; without commands they change nothing.
LEMMA ToolEffect ==
  ASSUME StoreTypeOK, CommandsOff, Sealing, ToolStep
  PROVE  StoreTypeOK' /\ CommandsOff' /\ Sealing' /\ cfg.tools /\ UNCHANGED cfg
<1> USE StoreAssumption, DevicesType DEF NoTool
<1>1. ASSUME NEW d \in Device, NvpairReads(d) PROVE StoreTypeOK' /\ CommandsOff' /\ Sealing' /\ cfg.tools /\ UNCHANGED cfg
  <2> DEFINE base == IF store.form = "plain" THEN store.devs ELSE NoDevices
  <2>1. base \in Devices
    BY DEF StoreTypeOK
  <2>2. tool' = [pc |-> "nvpair", dev |-> d, devs |-> [base EXCEPT ![d] = ToolKey]]
        /\ cfg.tools /\ UNCHANGED <<cfg, store, ring>>
    BY <1>1 DEF NvpairReads
  <2>3. [base EXCEPT ![d] = ToolKey] \in Devices
    BY <2>1
  <2> QED
    BY <2>2, <2>3 DEF StoreTypeOK, CommandsOff, Sealing
<1>2. ASSUME NvpairWrites PROVE StoreTypeOK' /\ CommandsOff' /\ Sealing' /\ cfg.tools /\ UNCHANGED cfg
  <2>1. tool.devs \in Devices /\ cfg.tools
    BY <1>2 DEF NvpairWrites, StoreTypeOK, CommandsOff
  <2> QED
    BY <1>2, <2>1 DEF NvpairWrites, StoreTypeOK, CommandsOff, Sealing, Plain
<1>3. ASSUME MigrateReads PROVE StoreTypeOK' /\ CommandsOff' /\ Sealing' /\ cfg.tools /\ UNCHANGED cfg
  BY <1>3, SealKeyEffect DEF MigrateReads, StoreTypeOK, CommandsOff, Sealing
<1>4. ASSUME MigrateWrites PROVE StoreTypeOK' /\ CommandsOff' /\ Sealing' /\ cfg.tools /\ UNCHANGED cfg
  <2>1. tool.devs \in Devices /\ tool.under \in 0..MaxSealKeys /\ cfg.tools
    BY <1>4 DEF MigrateWrites, StoreTypeOK, CommandsOff
  <2> QED
    BY <1>4, <2>1 DEF MigrateWrites, StoreTypeOK, CommandsOff, Sealing, Sealed
<1>5. ASSUME ToolFails PROVE StoreTypeOK' /\ CommandsOff' /\ Sealing' /\ cfg.tools /\ UNCHANGED cfg
  BY <1>5 DEF ToolFails, StoreTypeOK, CommandsOff, Sealing
<1> QED
  BY <1>1, <1>2, <1>3, <1>4, <1>5 DEF ToolStep

\* Only connection c moves.
LEMMA GotoEffect ==
  ASSUME TypeOK, NEW c \in Conn, NEW label \in {"register", "load", "save", "reload", "ack", "closed"},
         Goto(c, label)
  PROVE  /\ pc' \in [Conn -> {"idle", "register", "load", "save", "reload", "ack", "closed"}]
         /\ \A d \in Conn : pc'[d] = IF d = c THEN label ELSE pc[d]
  BY DEF TypeOK, Goto

\* Every step keeps every variable in its type.
LEMMA StepType == IInv /\ [Next]_vars => TypeOK'
<1> SUFFICES ASSUME IInv, [Next]_vars PROVE TypeOK'
  OBVIOUS
<1> USE StoreAssumption, PairingAssumption
<1>1. ASSUME Start PROVE TypeOK'
  BY <1>1, LoadEffect DEF Start, LoadServerKeys, OfferToken, IInv, TypeOK, StoreTypeOK, KyberBound, daemon, conns, storeVars
<1>2. ASSUME StartFails PROVE TypeOK'
  BY <1>2, LoadFailsEffect DEF StartFails, LoadServerKeys, IInv, TypeOK, StoreTypeOK, KyberBound, daemon, conns, storeVars
<1>3. ASSUME Crash PROVE TypeOK'
  <2>1. /\ pc' \in [Conn -> {"idle", "register", "load", "save", "reload", "ack", "closed"}]
        /\ \A c \in Conn : pc'[c] \in {"idle", "closed"}
    BY <1>3 DEF Crash
  <2>2. /\ mem' \in Devices /\ token' = 0 /\ up' \in BOOLEAN
        /\ UNCHANGED <<clock, starts, kyber, cfg, store, ring, tool, dev, key, saved, seen, acked>>
    BY <1>3, DevicesType DEF Crash, storeVars
  <2> QED
    BY <2>1, <2>2 DEF IInv, TypeOK, StoreTypeOK
<1>4. ASSUME NEW c \in Conn, NEW t \in 0..MaxStarts, PresentToken(c, t) PROVE TypeOK'
  BY <1>4, GotoEffect DEF PresentToken, IInv, TypeOK, StoreTypeOK, KyberBound, daemon, conns, storeVars
<1>5. ASSUME NEW c \in Conn, NEW d \in Device, Register(c, d) PROVE TypeOK'
  BY <1>5, GotoEffect DEF Register, IInv, TypeOK, StoreTypeOK, KyberBound, daemon, conns, storeVars
<1>6. ASSUME NEW c \in Conn, Drop(c) PROVE TypeOK'
  BY <1>6, GotoEffect DEF Drop, IInv, TypeOK, StoreTypeOK, KyberBound, daemon, conns, storeVars
<1>7. ASSUME NEW c \in Conn, LoadStore(c) PROVE TypeOK'
  BY <1>7, LoadEffect, LoadFailsEffect, GotoEffect, DevicesType DEF LoadStore, IInv, TypeOK, StoreTypeOK, KyberBound, daemon, conns, storeVars
<1>8. ASSUME NEW c \in Conn, SaveStore(c) PROVE TypeOK'
  BY <1>8, SaveEffect, SaveFailsEffect, GotoEffect DEF SaveStore, IInv, TypeOK, StoreTypeOK, KyberBound, daemon, conns, storeVars
<1>9. ASSUME NEW c \in Conn, Reload(c) PROVE TypeOK'
  BY <1>9, LoadEffect, LoadFailsEffect, GotoEffect DEF Reload, IInv, TypeOK, StoreTypeOK, KyberBound, daemon, conns, storeVars
<1>10. ASSUME NEW c \in Conn, NEW received \in BOOLEAN, Ack(c, received) PROVE TypeOK'
  BY <1>10, GotoEffect DEF Ack, IInv, TypeOK, StoreTypeOK, KyberBound, daemon, conns, storeVars
<1>11. ASSUME Tick PROVE TypeOK'
  BY <1>11 DEF Tick, IInv, TypeOK, StoreTypeOK, KyberBound, daemon, conns, storeVars
<1>12. ASSUME Tool PROVE TypeOK'
  BY <1>12, ToolEffect DEF Tool, IInv, TypeOK, StoreTypeOK, KyberBound, daemon, conns, storeVars
<1>13. CASE UNCHANGED vars
  BY <1>13 DEF IInv, TypeOK, StoreTypeOK, vars, storeVars, daemon, conns
<1> QED
  BY <1>1, <1>2, <1>3, <1>4, <1>5, <1>6, <1>7, <1>8, <1>9, <1>10, <1>11, <1>12, <1>13 DEF Next

\* A connection that moves on stays among those that pair, or is closed.
LEMMA MoveEffect ==
  ASSUME TypeOK, NEW c \in Conn,
         \/ \E d \in Device : Register(c, d)
         \/ Drop(c) \/ LoadStore(c) \/ SaveStore(c) \/ Reload(c)
         \/ \E received \in BOOLEAN : Ack(c, received)
  PROVE  /\ pc[c] \in Pairs /\ pc'[c] \in (Pairs \ {"register"}) \cup {"closed"}
         /\ pc'[c] = "ack" => pc[c] = "reload"
         /\ pc'[c] = "reload" => pc[c] = "save"
         /\ pc'[c] \in {"load", "save"} => pc[c] \in {"register", "load"}
         /\ \A d \in Conn : d # c => pc'[d] = pc[d]
         /\ UNCHANGED <<cfg, clock, up, starts, kyber, token, tool>>
  BY GotoEffect DEF Register, Drop, LoadStore, SaveStore, Reload, Ack, Pairs, daemon, storeVars

\* Server keys are counted by starts.
LEMMA StepKyberBound == IInv /\ [Next]_vars => KyberBound'
<1> SUFFICES ASSUME IInv, [Next]_vars PROVE KyberBound'
  OBVIOUS
<1>1. CASE Start \/ StartFails
  BY <1>1 DEF IInv, TypeOK, KyberBound, Start, StartFails, LoadServerKeys
<1>2. CASE UNCHANGED <<kyber, starts>>
  BY <1>2 DEF IInv, KyberBound
<1> QED
  BY <1>1, <1>2 DEF Next, vars, daemon, Crash, PresentToken, Register, Drop, LoadStore,
     SaveStore, Reload, Ack, Tick, Tool

\* Commands do not start where they are not used, and seal under the key that stays.
LEMMA StepStore == IInv /\ [Next]_vars => (CommandsOff /\ Sealing)'
<1> SUFFICES ASSUME IInv, [Next]_vars PROVE CommandsOff' /\ Sealing'
  OBVIOUS
<1> USE DEF NoTool
<1>1. CASE Tool
  BY <1>1, ToolEffect DEF Tool, IInv, TypeOK
<1>2. CASE /\ UNCHANGED <<cfg, store, tool>> /\ ring' \in Nat
           /\ ring # 0 /\ ~cfg.lossyKeyring => ring' = ring
  BY <1>2 DEF IInv, TypeOK, StoreTypeOK, CommandsOff, Sealing
<1>3. ASSUME Start PROVE CommandsOff' /\ Sealing'
  BY <1>2, <1>3, LoadEffect, StoreAssumption DEF Start, IInv, TypeOK
<1>4. ASSUME StartFails PROVE CommandsOff' /\ Sealing'
  BY <1>2, <1>4, LoadFailsEffect, StoreAssumption DEF StartFails, IInv, TypeOK
<1>5. ASSUME NEW c \in Conn, LoadStore(c) PROVE CommandsOff' /\ Sealing'
  BY <1>2, <1>5, LoadEffect, LoadFailsEffect, StoreAssumption DEF LoadStore, IInv, TypeOK
<1>6. ASSUME NEW c \in Conn, Reload(c) PROVE CommandsOff' /\ Sealing'
  BY <1>2, <1>6, LoadEffect, LoadFailsEffect, StoreAssumption DEF Reload, IInv, TypeOK
<1>7. ASSUME NEW c \in Conn, SaveStore(c) PROVE CommandsOff' /\ Sealing'
  <2>1. CASE Saves(saved[c])
    <3>1. saved[c] \in Devices /\ StoreTypeOK
      BY DEF IInv, TypeOK
    <3>2. /\ store'.form = "sealed" => store'.under = ring' /\ ring' # 0
          /\ ring # 0 /\ ~cfg.lossyKeyring => ring' = ring
      BY <2>1, <3>1, SaveEffect
    <3> QED
      BY <1>7, <3>2 DEF SaveStore, IInv, CommandsOff, Sealing
  <2>2. CASE SaveFails
    BY <1>2, <1>7, <2>2, SaveFailsEffect, StoreAssumption DEF SaveStore, IInv, TypeOK
  <2> QED
    BY <1>7, <2>1, <2>2 DEF SaveStore
<1>8. CASE UNCHANGED storeVars
  BY <1>2, <1>8 DEF storeVars, IInv, TypeOK, StoreTypeOK
<1> QED
  BY <1>1, <1>3, <1>4, <1>5, <1>6, <1>7, <1>8 DEF Next, vars, Crash, PresentToken, Register,
     Drop, Ack, Tick

\* The token is out or one connection pairs, not both; nothing is paired meanwhile.
LEMMA StepAlone == IInv /\ [Next]_vars => (Alone /\ Fresh)'
<1> SUFFICES ASSUME IInv, [Next]_vars PROVE Alone' /\ Fresh'
  OBVIOUS
<1> USE DEF Alone, Fresh, SingleWriter, Pairs, Writing
<1>1. ASSUME Start PROVE Alone' /\ Fresh'
  BY <1>1 DEF Start, OfferToken, conns, IInv
<1>2. ASSUME Crash PROVE Alone' /\ Fresh'
  BY <1>2 DEF Crash, IInv
<1>3. ASSUME NEW c \in Conn, NEW t \in 0..MaxStarts, PresentToken(c, t) PROVE Alone' /\ Fresh'
  BY <1>3, GotoEffect DEF PresentToken, IInv, TypeOK
<1>4. ASSUME NEW c \in Conn,
             \/ \E d \in Device : Register(c, d)
             \/ Drop(c) \/ LoadStore(c) \/ SaveStore(c) \/ Reload(c)
             \/ \E received \in BOOLEAN : Ack(c, received)
      PROVE  Alone' /\ Fresh'
  <2>1. Alone'
    BY <1>4, MoveEffect DEF IInv
  <2>2. pc'[c] \in Writing => UNCHANGED mem
    BY <1>4, GotoEffect DEF IInv, TypeOK, Register, Drop, LoadStore, SaveStore, Reload, Ack, daemon
  <2>3. token' = 0 /\ \A d \in Conn : d # c => pc'[d] \notin Pairs
    BY <1>4, MoveEffect DEF IInv
  <2>4. pc'[c] \in Writing => mem = NoDevices
    BY <1>4, MoveEffect DEF IInv
  <2> QED
    BY <2>1, <2>2, <2>3, <2>4
<1>5. CASE UNCHANGED <<up, mem, token, pc>>
  BY <1>5 DEF IInv
<1> QED
  BY <1>1, <1>2, <1>3, <1>4, <1>5 DEF Next, vars, daemon, conns, StartFails, Tick, Tool

\* Without commands, the store lists nothing until a connection saves.
LEMMA StepUnpaired == IInv /\ [Next]_vars => Unpaired'
<1> SUFFICES ASSUME IInv, [Next]_vars, ~cfg'.tools PROVE Unpaired'
  BY DEF Unpaired
<1> USE DEF Unpaired
<1>1. ASSUME Start PROVE Unpaired'
  <2>1. token' # 0 => store.devs = NoDevices
    BY <1>1, LoadEffect DEF Start, OfferToken, IInv, TypeOK
  <2>2. UNCHANGED <<pc, cfg, store>> /\ ~up
    BY <1>1 DEF Start, conns
  <2> QED
    BY <2>1, <2>2 DEF IInv, Alone, Pairs
<1>2. ASSUME Crash PROVE Unpaired'
  BY <1>2 DEF Crash
<1>3. ASSUME NEW c \in Conn, NEW t \in 0..MaxStarts, PresentToken(c, t) PROVE Unpaired'
  BY <1>3, GotoEffect DEF PresentToken, IInv, TypeOK, storeVars
<1>4. ASSUME NEW c \in Conn, SaveStore(c) PROVE Unpaired'
  <2>1. /\ token' = 0 /\ pc'[c] \notin {"register", "load", "save"}
        /\ \A d \in Conn : d # c => pc'[d] \notin Pairs
    BY <1>4, GotoEffect DEF SaveStore, IInv, TypeOK, Alone, SingleWriter, Pairs, daemon
  <2> QED
    BY <2>1 DEF Pairs
<1>5. ASSUME NEW c \in Conn,
             \/ \E d \in Device : Register(c, d)
             \/ Drop(c) \/ LoadStore(c) \/ Reload(c)
             \/ \E received \in BOOLEAN : Ack(c, received)
      PROVE  Unpaired'
  <2>1. UNCHANGED <<cfg, token, store>>
    BY <1>5 DEF Register, Drop, LoadStore, Reload, Ack, daemon, storeVars
  <2>2. pc'[c] \in {"load", "save"} => pc[c] \in {"register", "load"}
    BY <1>5, MoveEffect DEF IInv
  <2> QED
    BY <1>5, <2>1, <2>2, MoveEffect DEF IInv
<1>6. CASE UNCHANGED <<cfg, store, token, pc>>
  BY <1>6 DEF IInv
<1>7. ASSUME Tool PROVE FALSE
  BY <1>7, ToolEffect DEF Tool, IInv, TypeOK
<1> QED
  BY <1>1, <1>2, <1>3, <1>4, <1>5, <1>6, <1>7 DEF Next, vars, storeVars, daemon, conns, StartFails, Tick

\* The key a connection registers is the one its phone offers.
LEMMA StepKeys == IInv /\ [Next]_vars => Keys'
<1> SUFFICES ASSUME IInv, [Next]_vars PROVE Keys'
  OBVIOUS
<1> USE DEF Keys
<1>1. ASSUME NEW c \in Conn, NEW d \in Device, Register(c, d) PROVE Keys'
  <2>1. mem[d] = NoKey
    BY <1>1, DevicesType DEF Register, IInv, Fresh, Writing
  <2>2. key'[c] # NoKey /\ (PhoneKey[c] # NoKey => key'[c] = PhoneKey[c])
    BY <1>1, <2>1, PairingAssumption, StoreAssumption DEF Register, IInv, TypeOK
  <2>3. \A e \in Conn : e # c => key'[e] = key[e]
    BY <1>1 DEF Register, IInv, TypeOK
  <2> QED
    BY <1>1, <2>2, <2>3, GotoEffect DEF Register, IInv, TypeOK
<1>2. ASSUME NEW c \in Conn, NEW received \in BOOLEAN, Ack(c, received) PROVE Keys'
  BY <1>2, GotoEffect DEF Ack, IInv, TypeOK
<1>3. ASSUME NEW c \in Conn, NEW t \in 0..MaxStarts, PresentToken(c, t) PROVE Keys'
  BY <1>3, GotoEffect DEF PresentToken, IInv, TypeOK
<1>4. ASSUME NEW c \in Conn, Drop(c) \/ LoadStore(c) \/ SaveStore(c) \/ Reload(c) PROVE Keys'
  <2>1. UNCHANGED <<key, acked>>
    BY <1>4 DEF Drop, LoadStore, SaveStore, Reload
  <2>2. pc'[c] \in {"save", "reload", "ack", "closed"}
    BY <1>4, GotoEffect DEF Drop, LoadStore, SaveStore, Reload, IInv, TypeOK
  <2>3. pc'[c] # "closed" => pc[c] \in {"load", "save", "reload"}
    BY <1>4, GotoEffect DEF Drop, LoadStore, SaveStore, Reload, IInv, TypeOK
  <2> QED
    BY <1>4, <2>1, <2>2, <2>3, MoveEffect DEF IInv, Pairs
<1>5. ASSUME Crash PROVE Keys'
  BY <1>5 DEF Crash, IInv
<1>6. CASE UNCHANGED conns
  BY <1>6 DEF conns, IInv
<1> QED
  BY <1>1, <1>2, <1>3, <1>4, <1>5, <1>6 DEF Next, vars, Start, StartFails, Tick, Tool

\* The server key a phone was sent is not replaced, unless it is to be rotated.
LEMMA StepServerKey == IInv /\ [Next]_vars => ServerKey'
<1> SUFFICES ASSUME IInv, [Next]_vars PROVE ServerKey'
  OBVIOUS
<1> USE DEF ServerKey
<1>1. CASE Start \/ StartFails
  BY <1>1 DEF Start, StartFails, LoadServerKeys, conns, IInv, TypeOK
<1>2. ASSUME Crash PROVE ServerKey'
  BY <1>2 DEF Crash, IInv, storeVars, Pairs
<1>3. ASSUME NEW c \in Conn, NEW t \in 0..MaxStarts, PresentToken(c, t) PROVE ServerKey'
  BY <1>3, GotoEffect DEF PresentToken, IInv, TypeOK, storeVars, Pairs
<1>4. ASSUME NEW c \in Conn, NEW received \in BOOLEAN, Ack(c, received) PROVE ServerKey'
  BY <1>4, GotoEffect DEF Ack, IInv, TypeOK, storeVars, daemon, Pairs
<1>5. ASSUME NEW c \in Conn,
             \/ \E d \in Device : Register(c, d)
             \/ Drop(c) \/ LoadStore(c) \/ SaveStore(c) \/ Reload(c)
      PROVE  ServerKey'
  <2>1. UNCHANGED <<cfg, up, kyber, seen, acked>>
    BY <1>5 DEF Register, Drop, LoadStore, SaveStore, Reload, daemon, storeVars
  <2> QED
    BY <1>5, <2>1, MoveEffect DEF IInv, Pairs
<1>6. CASE UNCHANGED <<cfg, up, kyber, conns>>
  BY <1>6 DEF conns, IInv
<1> QED
  BY <1>1, <1>2, <1>3, <1>4, <1>5, <1>6, ToolEffect DEF Next, vars, storeVars, daemon, Tick,
     Tool, IInv, TypeOK

\* Without commands, only the connection that saves changes what the store lists, and
\* the store lists nothing before.
LEMMA StepListed == IInv /\ [Next]_vars => Listed'
<1> SUFFICES ASSUME IInv, [Next]_vars, ~cfg'.tools PROVE Listed'
  BY DEF Listed
<1> USE DEF Listed
<1>1. ASSUME NEW c \in Conn, LoadStore(c) PROVE Listed'
  <2>1. UNCHANGED <<cfg, store, dev, key, acked>> /\ dev[c] \in Device /\ key[c] \in Key \cup {NoKey}
    BY <1>1 DEF LoadStore, IInv, TypeOK
  <2>2. pc'[c] = "save" => saved'[c][dev[c]] = key[c]
    BY <1>1, <2>1, DevicesType, GotoEffect DEF LoadStore, IInv, TypeOK
  <2>3. \A d \in Conn : d # c => saved'[d] = saved[d]
    BY <1>1 DEF LoadStore, IInv, TypeOK
  <2>4. pc'[c] \in {"save", "closed"} /\ \A d \in Conn : d # c => pc'[d] = pc[d]
    BY <1>1, GotoEffect DEF LoadStore, IInv, TypeOK
  <2> QED
    BY <1>1, <2>1, <2>2, <2>3, <2>4 DEF IInv
<1>2. ASSUME NEW c \in Conn, SaveStore(c) PROVE Listed'
  <2>1. UNCHANGED <<cfg, dev, key, saved, acked>> /\ pc[c] = "save"
    BY <1>2 DEF SaveStore
  <2>2. CASE Saves(saved[c]) /\ Goto(c, "reload")
    <3>1. store'.devs = saved[c]
      BY <2>2, SaveEffect DEF IInv, TypeOK
    <3>2. store.devs = NoDevices
      BY <2>1 DEF IInv, Unpaired
    <3>3. \A d \in Conn : ~acked[d]
      BY <2>1, <3>2, DevicesType DEF IInv, Keys, TypeOK
    <3>4. pc'[c] = "reload" /\ \A d \in Conn : d # c => pc'[d] \notin Pairs
      BY <2>1, <2>2, GotoEffect DEF IInv, TypeOK, Alone, SingleWriter, Pairs
    <3> QED
      BY <2>1, <3>1, <3>3, <3>4 DEF IInv, Pairs
  <2>3. CASE SaveFails /\ Goto(c, "closed")
    BY <2>1, <2>3, GotoEffect DEF SaveFails, IInv, TypeOK
  <2> QED
    BY <1>2, <2>2, <2>3 DEF SaveStore
<1>3. ASSUME NEW c \in Conn, NEW d \in Device, Register(c, d) PROVE Listed'
  <2>1. /\ UNCHANGED <<cfg, store, saved, acked>> /\ pc'[c] = "load" /\ ~acked[c]
        /\ \A e \in Conn : e # c => pc'[e] = pc[e] /\ dev'[e] = dev[e] /\ key'[e] = key[e]
    BY <1>3, GotoEffect DEF Register, IInv, TypeOK, Keys, storeVars
  <2> QED
    BY <2>1 DEF IInv
<1>4. ASSUME NEW c \in Conn, Reload(c) PROVE Listed'
  BY <1>4, GotoEffect DEF Reload, IInv, TypeOK
<1>5. ASSUME NEW c \in Conn, NEW received \in BOOLEAN, Ack(c, received) PROVE Listed'
  BY <1>5, GotoEffect DEF Ack, IInv, TypeOK, storeVars
<1>6. ASSUME NEW c \in Conn, Drop(c) PROVE Listed'
  BY <1>6, GotoEffect DEF Drop, IInv, TypeOK, storeVars
<1>7. ASSUME NEW c \in Conn, NEW t \in 0..MaxStarts, PresentToken(c, t) PROVE Listed'
  BY <1>7, GotoEffect DEF PresentToken, IInv, TypeOK, storeVars
<1>8. ASSUME Crash PROVE Listed'
  BY <1>8 DEF Crash, IInv, storeVars
<1>9. ASSUME Tool PROVE FALSE
  BY <1>9, ToolEffect DEF Tool, IInv, TypeOK
<1>10. CASE UNCHANGED <<cfg, store, conns>>
  BY <1>10 DEF conns, IInv
<1> QED
  BY <1>1, <1>2, <1>3, <1>4, <1>5, <1>6, <1>7, <1>8, <1>9, <1>10 DEF Next, vars, storeVars,
     Start, StartFails, Tick

\* The map in memory is the store as last loaded, which lists every phone that has its
\* acknowledgement.
LEMMA StepInMemory == IInv /\ [Next]_vars => InMemory'
<1> SUFFICES ASSUME IInv, [Next]_vars, ~cfg'.tools PROVE InMemory'
  BY DEF InMemory
<1> USE DEF InMemory
<1>1. ASSUME Start PROVE InMemory'
  <2>1. mem' = store.devs /\ UNCHANGED <<cfg, conns>> /\ ~up
    BY <1>1, LoadEffect DEF Start, IInv, TypeOK
  <2>2. \A c \in Conn : pc[c] \notin Pairs
    BY <2>1 DEF IInv, Alone
  <2> QED
    BY <2>1, <2>2 DEF IInv, Listed, conns, Pairs
<1>2. ASSUME NEW c \in Conn, Reload(c) PROVE InMemory'
  <2>1. UNCHANGED <<cfg, dev, key, acked, up>> /\ pc[c] = "reload"
    BY <1>2 DEF Reload
  <2>2. CASE Goto(c, "ack") /\ \E m \in Devices : LoadsDevices(m) /\ mem' = m
    <3>1. mem' = store.devs
      BY <2>2, LoadEffect DEF IInv, TypeOK
    <3>2. \A d \in Conn : pc'[d] = "ack" => d = c
      BY <2>1, <2>2, GotoEffect DEF IInv, TypeOK, Alone, SingleWriter, Pairs
    <3> QED
      BY <2>1, <3>1, <3>2 DEF IInv, Listed
  <2>3. CASE Goto(c, "closed") /\ UNCHANGED mem
    BY <2>1, <2>3, GotoEffect DEF IInv, TypeOK
  <2> QED
    BY <1>2, <2>2, <2>3 DEF Reload
<1>3. ASSUME NEW c \in Conn, NEW received \in BOOLEAN, Ack(c, received) PROVE InMemory'
  BY <1>3, GotoEffect DEF Ack, IInv, TypeOK, storeVars, daemon
<1>4. ASSUME NEW c \in Conn, NEW d \in Device, Register(c, d) PROVE InMemory'
  <2>1. /\ UNCHANGED <<cfg, mem, up, acked>> /\ pc'[c] = "load" /\ ~acked[c]
        /\ \A e \in Conn : e # c => pc'[e] = pc[e] /\ dev'[e] = dev[e] /\ key'[e] = key[e]
    BY <1>4, GotoEffect DEF Register, IInv, TypeOK, Keys, storeVars, daemon
  <2> QED
    BY <2>1 DEF IInv
<1>5. ASSUME NEW c \in Conn, Drop(c) \/ LoadStore(c) \/ SaveStore(c) PROVE InMemory'
  <2>1. UNCHANGED <<cfg, mem, up, dev, key, acked>>
    BY <1>5 DEF Drop, LoadStore, SaveStore, storeVars, daemon
  <2>2. \A d \in Conn : pc'[d] = "ack" => pc[d] = "ack"
    BY <1>5, GotoEffect DEF Drop, LoadStore, SaveStore, IInv, TypeOK
  <2> QED
    BY <2>1, <2>2 DEF IInv
<1>6. ASSUME NEW c \in Conn, NEW t \in 0..MaxStarts, PresentToken(c, t) PROVE InMemory'
  BY <1>6, GotoEffect DEF PresentToken, IInv, TypeOK, storeVars
<1>7. ASSUME Crash PROVE InMemory'
  BY <1>7 DEF Crash
<1>8. CASE UNCHANGED <<cfg, mem, up, conns>>
  BY <1>8 DEF conns, IInv
<1> QED
  BY <1>1, <1>2, <1>3, <1>4, <1>5, <1>6, <1>7, <1>8, ToolEffect DEF Next, vars, storeVars,
     daemon, StartFails, Tick, Tool, IInv, TypeOK

-----------------------------------------------------------------------------
\* Every behaviour has the inductive invariant.
THEOREM PairingInvariant == Spec => []IInv
<1>1. Init => IInv
  <2> SUFFICES ASSUME Init PROVE IInv
    OBVIOUS
  <2> USE StoreAssumption, PairingAssumption
  <2>1. /\ cfg \in Setups /\ ring \in 0..MaxSealKeys /\ tool = NoTool
        /\ store \in [form : {"missing", "plain", "sealed"}, devs : Devices, under : 0..MaxSealKeys]
        /\ store.form = "sealed" => store.under = ring /\ ring # 0
    <3>1. CASE store \in {Missing, Plain(NoDevices)}
      BY <3>1, DevicesType DEF Init, StoreInit, Missing, Plain
    <3>2. CASE \E m \in PairedWith : store = Plain(m) \/ (ring = 1 /\ store = Sealed(m, ring))
      BY <3>2 DEF Init, StoreInit, Plain, Sealed
    <3> QED
      BY <3>1, <3>2 DEF Init, StoreInit
  <2>2. TypeOK
    <3>1. StoreTypeOK
      BY <2>1 DEF StoreTypeOK
    <3>2. /\ kyber \in 0..(MaxStarts + 1) /\ token \in 0..(MaxTime + TTL)
          /\ clock \in 1..MaxTime /\ starts \in 0..MaxStarts
      BY DEF Init
    <3>3. /\ pc \in [Conn -> {"idle", "register", "load", "save", "reload", "ack", "closed"}]
          /\ \A c \in Conn : pc[c] = "idle" /\ ~acked[c]
      BY DEF Init
    <3>4. mem \in Devices /\ saved \in [Conn -> Devices] /\ up \in BOOLEAN
      BY DevicesType DEF Init
    <3>5. dev \in [Conn -> Device \cup {NoDevice}] /\ key \in [Conn -> Key \cup {NoKey}]
      BY DEF Init
    <3>6. seen \in [Conn -> 0..(MaxStarts + 1)] /\ acked \in [Conn -> BOOLEAN]
      BY DEF Init
    <3> QED
      BY <3>1, <3>2, <3>3, <3>4, <3>5, <3>6 DEF TypeOK
  <2> QED
    BY <2>1, <2>2 DEF Init, IInv, CommandsOff, Sealing, KyberBound, Alone, SingleWriter,
       Fresh, Unpaired, Keys, Listed, InMemory, ServerKey, Pairs, Writing, NoTool
<1>2. IInv /\ [Next]_vars => IInv'
  BY StepType, StepKyberBound, StepStore, StepAlone, StepUnpaired, StepKeys, StepListed,
     StepInMemory, StepServerKey DEF IInv
<1> QED
  BY <1>1, <1>2, PTL DEF Spec

\* TypeOK: every variable of the daemon, the store and the commands keeps its type.
THEOREM TypeCorrect == Spec => []TypeOK
<1>1. IInv => TypeOK
  BY DEF IInv
<1> QED
  BY <1>1, PairingInvariant, PTL

\* SingleWriter: one connection at most reads, changes and writes the device store,
\* although nothing but the token keeps connections apart.
THEOREM OneWriter == Spec => []SingleWriter
<1>1. IInv => SingleWriter
  BY DEF IInv, Alone
<1> QED
  BY <1>1, PairingInvariant, PTL

\* PairsOnlyUnpaired: without commands, whoever pairs does it on an empty store.
THEOREM OnlyUnpaired == Spec => []PairsOnlyUnpaired
<1>1. IInv => PairsOnlyUnpaired
  BY DEF IInv, Unpaired, PairsOnlyUnpaired
<1> QED
  BY <1>1, PairingInvariant, PTL

\* SealKeyStable: a sealed store can be opened, unless the keyring loses its item.
THEOREM SealedForGood == Spec => []SealKeyStable
<1>1. IInv => SealKeyStable
  BY DEF IInv, Sealing, SealKeyStable, SealedStoreOpens
<1> QED
  BY <1>1, PairingInvariant, PTL

\* PairingsDurable: an acknowledged pairing survives every crash and restart.
THEOREM Durable == Spec => []PairingsDurable
<1>1. IInv => PairingsDurable
  BY DEF IInv, Listed, Sealing, PairingsDurable, SealedStoreOpens
<1> QED
  BY <1>1, PairingInvariant, PTL

\* AckedPhoneIsServed: the daemon and an acknowledged phone hold the same keys.
THEOREM Served == Spec => []AckedPhoneIsServed
<1>1. IInv => AckedPhoneIsServed
  BY DEF IInv, InMemory, Keys, ServerKey, AckedPhoneIsServed
<1> QED
  BY <1>1, PairingInvariant, PTL
================================================================================
