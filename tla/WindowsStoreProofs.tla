--------------------------- MODULE WindowsStoreProofs ---------------------------
(***************************************************************************)
(* Proofs about WindowsStore for every set of devices and keys, every      *)
(* store of an earlier time and any number of starts.                      *)
(***************************************************************************)
EXTENDS WindowsStore, TLAPS

\* The steps of the daemon and of nvpair, with the devices they are about.
LEMMA NextSteps ==
  ASSUME [Next]_vars
  PROVE  \/ UNCHANGED vars
         \/ Start \/ Crash
         \/ OpenDPAPI \/ OpenPlain \/ Protect \/ Unlink \/ Reopen
         \/ \E d \in Device, k \in Key : Register(d, k)
         \/ WriteTmp \/ RemoveOld \/ RenameNew
         \/ \E received \in BOOLEAN : Ack(received)
         \/ \E d \in Device : NvpairReads(d)
         \/ NvpairWrites
  BY DEF Next

\* The empty store is a store.
LEMMA NoDevicesType == NoDevices \in Devices
  BY DEF NoDevices, Devices

-----------------------------------------------------------------------------
\* Nothing is loaded, saved or acknowledged at first.
THEOREM InitialInv == Init => WindowsInv
<1> SUFFICES ASSUME Init PROVE WindowsInv
  OBVIOUS
<1> USE NoDevicesType
<1>1. TypeOK
  <2>1. cut \in BOOLEAN /\ token \in BOOLEAN
    BY DEF Init
  <2>2. sealed \in Devices /\ plain \in Devices
    BY WindowsAssumption DEF Init
  <2>3. phone \in [dev : Device \cup {NoKey}, key : Key \cup {NoKey}]
    BY DEF Init, NoPhone
  <2>4. starts \in 0..MaxStarts
    BY WindowsAssumption DEF Init
  <2> QED
    BY <2>1, <2>2, <2>3, <2>4 DEF Init, TypeOK, Tasks, Steps
<1>2. FlowInv /\ SealInv /\ ServesSealed
  BY DEF Init, FlowInv, SealInv, ServesSealed
<1>3. PairingInv /\ MigrationInv
  BY DEF Init, PairingInv, MigrationInv, Calm
<1>4. AckedIsSealed
  BY DEF Init, AckedIsSealed, NoDevices
<1> QED
  BY <1>1, <1>2, <1>3, <1>4 DEF WindowsInv

-----------------------------------------------------------------------------
\* What follows a load keeps the types, in whatever task.
LEMMA LoadedType ==
  ASSUME TypeOK, FlowInv, pc # "none", NEW m \in Devices, Loaded(m) \/ Fails,
         UNCHANGED <<files, rest>>
  PROVE  TypeOK'
<1> USE DEF TypeOK, Tasks, Steps, files, rest, memory
<1>1. CASE Fails
  BY <1>1 DEF Fails
<1>2. CASE Loaded(m)
  <2>1. CASE task = "start"
    BY <1>2, <2>1 DEF Loaded, Continue
  <2>2. CASE task = "upsert"
    <3>1. held' = [m EXCEPT ![phone.dev] = phone.key] /\ phone.dev \in Device /\ phone.key \in Key
      BY <1>2, <2>2 DEF Loaded, Continue
    <3>2. held' \in Devices
      BY <3>1 DEF Devices
    <3> QED
      BY <1>2, <2>2, <3>2 DEF Loaded, Continue
  <2>3. CASE task = "reload"
    BY <1>2, <2>3 DEF Loaded, Continue
  <2> QED
    BY <1>2, <2>1, <2>2, <2>3 DEF Loaded, Continue
<1> QED
  BY <1>1, <1>2

\* Every step keeps the types.
LEMMA TypeStep == ASSUME WindowsInv, [Next]_vars PROVE TypeOK'
<1> USE NoDevicesType DEF WindowsInv
<1>1. CASE UNCHANGED vars
  BY <1>1 DEF TypeOK, vars, files, memory, rest
<1>2. CASE Start
  BY <1>2, WindowsAssumption DEF Start, TypeOK, Tasks, Steps, files, memory
<1>3. CASE Crash
  BY <1>3 DEF Crash, TypeOK, Tasks, Steps, files, NoPhone
<1>4. CASE OpenDPAPI
  <2>1. CASE pc' = "plain" /\ UNCHANGED <<task, held, memory>>
    BY <1>4, <2>1 DEF OpenDPAPI, TypeOK, Tasks, Steps, files, memory, rest
  <2>2. CASE Loaded(sealed) \/ Fails
    BY <1>4, <2>2, LoadedType DEF OpenDPAPI, TypeOK
  <2> QED
    BY <1>4, <2>1, <2>2 DEF OpenDPAPI
<1>5. CASE OpenPlain
  <2>1. CASE held' = plain /\ pc' = "protect" /\ UNCHANGED <<task, memory>>
    BY <1>5, <2>1 DEF OpenPlain, TypeOK, Tasks, Steps, files, memory, rest
  <2>2. CASE Loaded(NoDevices)
    BY <1>5, <2>2, LoadedType DEF OpenPlain
  <2> QED
    BY <1>5, <2>1, <2>2 DEF OpenPlain
<1>6. CASE Protect
  BY <1>6 DEF Protect, TypeOK, Tasks, Steps, memory, rest
<1>7. CASE Unlink
  BY <1>7 DEF Unlink, TypeOK, Tasks, Steps, memory, rest
<1>8. CASE Reopen
  BY <1>8, LoadedType DEF Reopen, TypeOK
<1>9. CASE \E d \in Device, k \in Key : Register(d, k)
  <2>1. PICK d \in Device, k \in Key : Register(d, k)
    BY <1>9
  <2>2. phone' \in [dev : Device, key : Key]
    BY <2>1 DEF Register
  <2> QED
    BY <2>1, <2>2 DEF Register, TypeOK, Tasks, Steps, files, rest
<1>10. CASE WriteTmp
  BY <1>10 DEF WriteTmp, Fails, TypeOK, Tasks, Steps, files, memory, rest
<1>11. CASE RemoveOld
  BY <1>11 DEF RemoveOld, TypeOK, Tasks, Steps, memory, rest
<1>12. CASE RenameNew
  BY <1>12 DEF RenameNew, Fails, FlowInv, TypeOK, Tasks, Steps, memory, rest
<1>13. CASE \E received \in BOOLEAN : Ack(received)
  <2>1. phone.dev \in Device /\ phone.key \in Key
    BY <1>13 DEF Ack, FlowInv, TypeOK
  <2>2. acked' \in Devices
    BY <1>13, <2>1 DEF Ack, TypeOK, Devices
  <2> QED
    BY <1>13, <2>2 DEF Ack, TypeOK, Tasks, Steps, files, memory
<1>14. CASE \E d \in Device : NvpairReads(d)
  <2>1. tool' \in Devices
    BY <1>14, WindowsAssumption DEF NvpairReads, TypeOK, Devices
  <2> QED
    BY <1>14, <2>1 DEF NvpairReads, TypeOK, files, memory
<1>15. CASE NvpairWrites
  BY <1>15 DEF NvpairWrites, TypeOK, memory
<1> QED
  BY NextSteps, <1>1, <1>2, <1>3, <1>4, <1>5, <1>6, <1>7, <1>8, <1>9, <1>10, <1>11,
     <1>12, <1>13, <1>14, <1>15

-----------------------------------------------------------------------------
(* The rest of the invariant, part by part.                                  *)

\* Every step keeps task, program counter and token in agreement.
LEMMA FlowStep == ASSUME WindowsInv, [Next]_vars PROVE FlowInv'
<1> USE DEF WindowsInv, TypeOK, FlowInv, Tasks, Steps
<1>1. CASE UNCHANGED vars
  BY <1>1 DEF vars, files, memory, rest
<1>2. CASE Start \/ Crash
  BY <1>2 DEF Start, Crash, files, memory
<1>3. CASE OpenDPAPI
  BY <1>3 DEF OpenDPAPI, Loaded, Continue, Fails, memory, rest
<1>4. CASE OpenPlain
  BY <1>4 DEF OpenPlain, Loaded, Continue, memory, rest
<1>5. CASE Reopen
  BY <1>5 DEF Reopen, Loaded, Continue, Fails, memory, rest
<1>6. CASE Protect \/ Unlink \/ RemoveOld
  BY <1>6 DEF Protect, Unlink, RemoveOld, memory, rest
<1>7. CASE WriteTmp \/ RenameNew
  BY <1>7 DEF WriteTmp, RenameNew, Fails, memory, rest
<1>8. CASE \E d \in Device, k \in Key : Register(d, k)
  BY <1>8 DEF Register, rest
<1>9. CASE \E received \in BOOLEAN : Ack(received)
  BY <1>9 DEF Ack, memory
<1>10. CASE (\E d \in Device : NvpairReads(d)) \/ NvpairWrites
  BY <1>10 DEF NvpairReads, NvpairWrites, memory
<1> QED
  BY NextSteps, <1>1, <1>2, <1>3, <1>4, <1>5, <1>6, <1>7, <1>8, <1>9, <1>10

\* A step that replaces the DPAPI file finds none, so what is served stays what is sealed.
LEMMA SealStep == ASSUME WindowsInv, [Next]_vars PROVE SealInv' /\ ServesSealed'
<1> USE DEF WindowsInv, SealInv, ServesSealed
<1>1. CASE UNCHANGED vars
  BY <1>1 DEF vars, files, memory, rest
<1>2. CASE Start \/ Crash
  BY <1>2 DEF Start, Crash, files, memory
<1>3. CASE OpenDPAPI
  BY <1>3 DEF OpenDPAPI, Loaded, Continue, Fails, files, memory
<1>4. CASE OpenPlain
  BY <1>4 DEF OpenPlain, Loaded, Continue, files, memory
<1>5. CASE Reopen
  BY <1>5 DEF Reopen, Loaded, Continue, Fails, files, memory
\* Where the DPAPI file is written there was none, so nothing was served.
<1>6. CASE Protect
  BY <1>6 DEF Protect, memory
<1>7. CASE Unlink \/ RemoveOld
  BY <1>7 DEF Unlink, RemoveOld, memory
<1>8. CASE WriteTmp \/ RenameNew
  BY <1>8 DEF WriteTmp, RenameNew, Fails, files, memory
<1>9. CASE \E d \in Device, k \in Key : Register(d, k)
  BY <1>9 DEF Register, files
<1>10. CASE \E received \in BOOLEAN : Ack(received)
  BY <1>10 DEF Ack, files, memory
<1>11. CASE (\E d \in Device : NvpairReads(d)) \/ NvpairWrites
  BY <1>11 DEF NvpairReads, NvpairWrites, files, memory
<1> QED
  BY NextSteps, <1>1, <1>2, <1>3, <1>4, <1>5, <1>6, <1>7, <1>8, <1>9, <1>10, <1>11

\* Once the DPAPI file lists something it stays as it is.
LEMMA SealedStays ==
  ASSUME WindowsInv, [Next]_vars, sealed # NoDevices
  PROVE  sealed' = sealed
  BY NextSteps DEF WindowsInv, SealInv, vars, files, Start, Crash, OpenDPAPI, OpenPlain,
     Protect, Unlink, Reopen, Register, WriteTmp, RemoveOld, RenameNew, Ack,
     NvpairReads, NvpairWrites

\* The device a pairing registers is the same until the next registration.
LEMMA TheOneStays == UNCHANGED phone => UNCHANGED TheOne
  BY DEF TheOne

\* In calm surroundings a pairing goes from two empty files to the one device it registers.
LEMMA PairingStep == ASSUME WindowsInv, [Next]_vars PROVE PairingInv'
<1> USE DEF WindowsInv, FlowInv, SealInv, PairingInv, Calm
<1>0. cfg' = cfg
  BY NextSteps DEF vars, rest, Start, Crash, OpenDPAPI, OpenPlain, Protect, Unlink, Reopen,
     Register, WriteTmp, RemoveOld, RenameNew, Ack, NvpairReads, NvpairWrites
<1> SUFFICES ASSUME Calm PROVE PairingInv'
  BY <1>0
<1>1. CASE UNCHANGED vars
  BY <1>1, TheOneStays DEF vars, files, memory, rest
<1>2. CASE Start \/ Crash
  BY <1>2 DEF Start, Crash, files, memory
<1>3. CASE OpenDPAPI
  <2>1. CASE sealed = NoDevices
    BY <1>3, <2>1, TheOneStays DEF OpenDPAPI, Fails, files, memory
  <2>2. CASE sealed # NoDevices
    <3>1. task = "start"
      BY <1>3, <2>2 DEF OpenDPAPI, Loaded, Continue
    <3> QED
      BY <1>3, <2>2, <3>1 DEF OpenDPAPI, Loaded, Continue, files
  <2> QED
    BY <2>1, <2>2
<1>4. CASE OpenPlain
  <2>1. CASE plain # NoDevices
    BY <1>4, <2>1, TheOneStays DEF OpenPlain, files, memory
  <2>2. CASE plain = NoDevices /\ task = "upsert"
    <3>1. held' = [NoDevices EXCEPT ![phone.dev] = phone.key] /\ UNCHANGED phone /\ pc' = "tmp"
      BY <1>4, <2>2 DEF OpenPlain, Loaded, Continue, memory
    <3>2. held' = TheOne'
      BY <3>1 DEF TheOne
    <3> QED
      BY <1>4, <2>2, <3>1, <3>2 DEF OpenPlain, Loaded, Continue, files, memory
  <2>3. CASE plain = NoDevices /\ task # "upsert"
    BY <1>4, <2>3 DEF OpenPlain, Loaded, Continue, files
  <2> QED
    BY <2>1, <2>2, <2>3
<1>5. CASE Protect
  BY <1>5, TheOneStays DEF Protect, memory
<1>6. CASE Unlink
  BY <1>6, TheOneStays DEF Unlink, memory, rest
<1>7. CASE Reopen
  BY <1>7, TheOneStays DEF Reopen, Loaded, Continue, files, memory
<1>8. CASE \E d \in Device, k \in Key : Register(d, k)
  BY <1>8 DEF Register, files
<1>9. CASE WriteTmp
  BY <1>9, TheOneStays DEF WriteTmp, Fails, files, memory
<1>10. CASE RemoveOld
  BY <1>10, TheOneStays DEF RemoveOld, memory
<1>11. CASE RenameNew
  BY <1>11, TheOneStays DEF RenameNew, Fails, memory
<1>12. CASE \E received \in BOOLEAN : Ack(received)
  BY <1>12 DEF Ack, files, memory
<1>13. CASE (\E d \in Device : NvpairReads(d)) \/ NvpairWrites
  BY <1>13 DEF NvpairReads, NvpairWrites
<1> QED
  BY NextSteps, <1>1, <1>2, <1>3, <1>4, <1>5, <1>6, <1>7, <1>8, <1>9, <1>10, <1>11, <1>12, <1>13

\* In calm surroundings two files that list something mean a migration between its halves.
LEMMA MigrationStep == ASSUME WindowsInv, [Next]_vars PROVE MigrationInv'
<1> USE DEF WindowsInv, FlowInv, SealInv, PairingInv, MigrationInv, Calm
<1>0. cfg' = cfg
  BY NextSteps DEF vars, rest, Start, Crash, OpenDPAPI, OpenPlain, Protect, Unlink, Reopen,
     Register, WriteTmp, RemoveOld, RenameNew, Ack, NvpairReads, NvpairWrites
<1> SUFFICES ASSUME Calm PROVE MigrationInv'
  BY <1>0
<1>1. CASE UNCHANGED vars
  BY <1>1 DEF vars, files, rest
<1>2. CASE Start
  BY <1>2 DEF Start, files
\* A crash at the removal sets cut.
<1>3. CASE Crash
  BY <1>3 DEF Crash, files
<1>4. CASE OpenDPAPI \/ OpenPlain
  BY <1>4 DEF OpenDPAPI, OpenPlain, Loaded, Continue, Fails, files, rest
<1>5. CASE Protect
  BY <1>5 DEF Protect, rest
<1>6. CASE Unlink
  BY <1>6 DEF Unlink, rest
<1>7. CASE Reopen
  BY <1>7 DEF Reopen, Loaded, Continue, Fails, files, rest
<1>8. CASE \E d \in Device, k \in Key : Register(d, k)
  BY <1>8 DEF Register, files, rest
<1>9. CASE WriteTmp \/ RemoveOld
  BY <1>9 DEF WriteTmp, RemoveOld, Fails, files, rest
<1>10. CASE RenameNew
  BY <1>10 DEF RenameNew, Fails, rest
<1>11. CASE \E received \in BOOLEAN : Ack(received)
  BY <1>11 DEF Ack, files
<1>12. CASE (\E d \in Device : NvpairReads(d)) \/ NvpairWrites
  BY <1>12 DEF NvpairReads, NvpairWrites
<1> QED
  BY NextSteps, <1>1, <1>2, <1>3, <1>4, <1>5, <1>6, <1>7, <1>8, <1>9, <1>10, <1>11, <1>12

\* An acknowledgement follows a reload that found the device sealed, and a DPAPI file stays.
LEMMA AckStep == ASSUME WindowsInv, [Next]_vars PROVE AckedIsSealed'
<1> USE DEF WindowsInv, AckedIsSealed
<1>0. cfg' = cfg
  BY NextSteps DEF vars, rest, Start, Crash, OpenDPAPI, OpenPlain, Protect, Unlink, Reopen,
     Register, WriteTmp, RemoveOld, RenameNew, Ack, NvpairReads, NvpairWrites
<1> SUFFICES ASSUME Calm, NEW d \in Device, acked'[d] # NoKey PROVE sealed'[d] = acked'[d]
  BY <1>0 DEF Calm
<1>1. CASE UNCHANGED acked
  <2>1. sealed[d] = acked[d] /\ sealed # NoDevices
    BY <1>1 DEF Calm, NoDevices
  <2> QED
    BY <1>1, <2>1, SealedStays
<1>2. CASE \E received \in BOOLEAN : Ack(received)
  <2>1. sealed' = sealed /\ pc = "ack" /\ task = "reload" /\ sealed = TheOne
    BY <1>2 DEF Ack, files, FlowInv, PairingInv
  <2>2. acked'[d] = acked[d] \/ (d = phone.dev /\ acked'[d] = phone.key)
    BY <1>2 DEF Ack, TypeOK, Devices
  <2>3. sealed[phone.dev] = phone.key
    BY <2>1 DEF TheOne, NoDevices, TypeOK
  <2>4. acked'[d] = acked[d] => sealed[d] = acked[d]
    BY DEF Calm
  <2> QED
    BY <2>1, <2>2, <2>3, <2>4
<1>3. UNCHANGED acked \/ \E received \in BOOLEAN : Ack(received)
  BY NextSteps DEF vars, rest, Start, Crash, OpenDPAPI, OpenPlain, Protect, Unlink, Reopen,
     Register, WriteTmp, RemoveOld, RenameNew, NvpairReads, NvpairWrites
<1> QED
  BY <1>1, <1>2, <1>3

-----------------------------------------------------------------------------
(* The theorems.                                                             *)

\* The inductive invariant holds.
THEOREM WindowsInvariant == Spec => []WindowsInv
<1>1. WindowsInv /\ [Next]_vars => WindowsInv'
  BY TypeStep, FlowStep, SealStep, PairingStep, MigrationStep, AckStep DEF WindowsInv
<1> QED
  BY InitialInv, <1>1, PTL DEF Spec

\* Every variable of the daemon, the two files and nvpair keeps its type.
THEOREM TypeCorrect == Spec => []TypeOK
<1>1. WindowsInv => TypeOK
  BY DEF WindowsInv
<1> QED
  BY WindowsInvariant, <1>1, PTL

\* The devices in memory are always those of the DPAPI file.
THEOREM Served == Spec => []ServesSealed
<1>1. WindowsInv => ServesSealed
  BY DEF WindowsInv
<1> QED
  BY WindowsInvariant, <1>1, PTL

\* An acknowledged phone is in the DPAPI file, through crashes and a failing DPAPI.
THEOREM Acked == Spec => []AckedIsSealed
<1>1. WindowsInv => AckedIsSealed
  BY DEF WindowsInv
<1> QED
  BY WindowsInvariant, <1>1, PTL

\* Beside a serving daemon no plaintext file stays but after a crash in a migration.
THEOREM NoPlaintext == Spec => []PlaintextReplaced
<1>1. WindowsInv => PlaintextReplaced
  BY DEF WindowsInv, ServesSealed, MigrationInv, Calm, PlaintextReplaced
<1> QED
  BY WindowsInvariant, <1>1, PTL

\* Migration and save forget no device where only saves and the process fail.
Forgets == \E d \in Device, k \in Key : Lists(d, k) /\ ~Lists(d, k)'
Safe == cfg.protects /\ ~cfg.flaky /\ ~cfg.tools

\* Where only saves and the process fail, no operation on a file loses what it lists.
LEMMA KeepsStep == ASSUME WindowsInv, [Next]_vars, Safe PROVE ~Forgets
<1> SUFFICES ASSUME NEW d \in Device, NEW k \in Key, Lists(d, k) PROVE Lists(d, k)'
  BY DEF Forgets
<1> USE DEF WindowsInv, Safe, Lists
<1>0. NoDevices[d] # k
  BY WindowsAssumption DEF NoDevices
<1>1. CASE UNCHANGED files
  BY <1>1 DEF files
<1>2. CASE Protect
  BY <1>0, <1>2 DEF Protect, SealInv
<1>3. CASE Unlink
  BY <1>3 DEF Unlink, MigrationInv, Calm
<1>4. CASE RemoveOld \/ RenameNew
  BY <1>0, <1>4 DEF RemoveOld, RenameNew, FlowInv, PairingInv, Calm
<1>5. CASE NvpairWrites
  BY <1>5 DEF NvpairWrites, FlowInv
<1> QED
  BY NextSteps, <1>1, <1>2, <1>3, <1>4, <1>5 DEF vars, files, Start, Crash, OpenDPAPI,
     OpenPlain, Reopen, Register, WriteTmp, Ack, NvpairReads

\* Through migrations, saves and crashes a listed device stays listed.
THEOREM Kept == Spec => NothingForgotten
<1>1. WindowsInv /\ [Next]_vars =>
        [Safe => \A d \in Device, k \in Key : Lists(d, k) => Lists(d, k)']_vars
  BY KeepsStep DEF Forgets
<1> QED
  BY WindowsInvariant, <1>1, PTL DEF Spec, NothingForgotten, Safe
=============================================================================
