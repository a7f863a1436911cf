------------------------ MODULE DevSvcManagerProofs ------------------------
(***************************************************************************)
(* Proofs about DevSvcManager for any number of services, listening files, *)
(* drivers that look services up, and objects handed over.                 *)
(*                                                                         *)
(* The parts of the inductive invariant: where the call about a service  *)
(* stands says whether its record is linked (OwnInv); a holder that is     *)
(* linked, or that a call of its file is about to use, is not freed        *)
(* (HolderInv); the record a lookup has found is the one in the table      *)
(* (ReadInv).  HolderInv needs notifications that do not fail for want of  *)
(* memory, and ReadInv needs services that are looked up by name to stay.  *)
(* What a listener was told agrees with the table (ToldIsFound) because    *)
(* objects are numbered as they come and no info is newer than its object  *)
(* (ValueInv).                                                             *)
(***************************************************************************)
EXTENDS DevSvcManager, TLAPS

Record == [id : Nat, linked : BOOLEAN, value : Nat, info : Nat]
Reading == [at : {"idle", "found"}, svc : Services \cup {"none"}, id : Nat]
Holder == [class : SUBSET Classes, held : BOOLEAN, listed : BOOLEAN]

\* A process that registers a listener has room for one more.
Registering == {"setClass", "regInsert", "start"}
\* A lookup that has found a record has found the one of a service.
FoundService == \A r \in Readers : read[r].at = "found" => read[r].svc \in Services

RoomToRegister == \A c \in Clients : cli[c] \in Registering => listeners[c] < MaxListeners

\* The other steps leave the records alone.
LEMMA OtherSteps ==
    /\ \A r \in Readers : GetServiceValue(r) => UNCHANGED <<ownVars, cliVars, histVars>>
    /\ \A r \in Readers, s \in Services :
          DevSvcManagerGetService(r, s) => UNCHANGED <<ownVars, cliVars, corrupted, histVars>>
    /\ \A c \in Clients : ClientStep(c) => UNCHANGED <<ownVars, readVars>>
    /\ \A s \in Services : OwnerStep(s) => UNCHANGED <<readVars, listening, listeners, cli, want>>
<1>1. \A r \in Readers : GetServiceValue(r) => UNCHANGED <<ownVars, cliVars, histVars>>
  BY DEF GetServiceValue
<1>2. \A r \in Readers, s \in Services :
          DevSvcManagerGetService(r, s) => UNCHANGED <<ownVars, cliVars, corrupted, histVars>>
  BY DEF DevSvcManagerGetService
<1>3. \A c \in Clients : ClientStep(c) => UNCHANGED <<ownVars, readVars>>
  BY DEF ClientStep, SvcMgrIoserviceRegSvcStatListener, RegisterListenerSetClass,
     DevSvcManagerRegsterServListener, HdfDeviceRegisterEventListener,
     SvcMgrIoserviceUnRegSvcStatListener, DeviceSvcMgrRelease,
     DevSvcManagerExtUnRegisterListener, DevSvcManagerUnregsterServListener,
     ServStatListenerHolderRelease
<1>4. \A s \in Services : OwnerStep(s) => UNCHANGED <<readVars, listening, listeners, cli, want>>
  BY DEF OwnerStep, DevSvcManagerAddService, AddServiceValue, AddServiceInsert,
     DevSvcManagerUpdateService, UpdateServiceFree, UpdateServiceWrite, UpdateServiceNotify,
     DevSvcManagerRemoveService, RemoveServiceUnlink, RemoveServiceFree, cliVars
<1>5. QED
  BY <1>1, <1>2, <1>3, <1>4

(***************************************************************************)
(* Type correctness.                                                       *)
(***************************************************************************)
\* A field of a record, or of a holder, is written.
LEMMA RecordFacts ==
    ASSUME NEW q \in Record, NEW n \in Nat, NEW m \in Nat
    PROVE  /\ [q EXCEPT !.value = n] \in Record
           /\ [q EXCEPT !.info = n] \in Record
           /\ [q EXCEPT !.value = n, !.info = m] \in Record
           /\ [q EXCEPT !.linked = FALSE] \in Record
<1>1. [q EXCEPT !.value = n] \in Record /\ [q EXCEPT !.info = n] \in Record
  BY DEF Record
<1>2. [q EXCEPT !.value = n, !.info = m] \in Record
  BY DEF Record
<1>3. [q EXCEPT !.linked = FALSE] \in Record
  BY DEF Record
<1>4. QED
  BY <1>1, <1>2, <1>3

\* The parts of the state a notification writes keep their types.
LEMMA NotifyTypes ==
    ASSUME TypeOK, NEW s \in Services, NEW what \in Nat \cup {Down},
           NotifyServiceStatusLocked(s, what)
    PROVE  /\ view' \in [Clients -> [Services -> Nat \cup {Down}]]
           /\ unsure' \in [Clients -> SUBSET Services]
           /\ holder' \in [Clients -> Holder]
           /\ corrupted' \in BOOLEAN
<1> DEFINE told == Listeners(s)
<1>1. PICK lost \in SUBSET told, failed \in SUBSET Clients :
        /\ view' = [c \in Clients |->
                      IF c \in (told \cap listening) \ lost
                      THEN [view[c] EXCEPT ![s] = what] ELSE view[c]]
        /\ unsure' = [c \in Clients |->
                        IF c \notin told THEN unsure[c]
                        ELSE IF c \in listening \ lost THEN unsure[c] \ {s}
                        ELSE unsure[c] \cup {s}]
        /\ holder' = [c \in Clients |-> IF c \in failed THEN NoHolder ELSE holder[c]]
        /\ corrupted' = (corrupted \/ \E c \in told : ~holder[c].held)
  BY DEF NotifyServiceStatusLocked, Listeners
<1> HIDE DEF told
<1>2. NoHolder \in Holder
  BY DEF NoHolder, Holder
<1>3. \A c \in Clients : /\ view[c] \in [Services -> Nat \cup {Down}]
                         /\ unsure[c] \in SUBSET Services
                         /\ holder[c] \in Holder
  BY DEF TypeOK, Holder
<1>4. view' \in [Clients -> [Services -> Nat \cup {Down}]]
  BY <1>1, <1>3
<1>5. unsure' \in [Clients -> SUBSET Services]
  BY <1>1, <1>3
<1>6. holder' \in [Clients -> Holder]
  BY <1>1, <1>2, <1>3
<1>7. corrupted' \in BOOLEAN
  BY <1>1
<1>8. QED
  BY <1>4, <1>5, <1>6, <1>7

\* A call about a service keeps the types.
LEMMA OwnerTypes ==
    ASSUME TypeOK, NEW s \in Services, OwnerStep(s)
    PROVE  TypeOK'
<1>0. /\ version \in Nat /\ MaxVersion \in Nat
      /\ record \in [Services -> Record] /\ own \in [Services -> OwnPlace]
      /\ record[s].info \in Nat
  BY SvcMgrAssumption DEF TypeOK, Record
<1>1. UNCHANGED <<listening, listeners, cli, want, read, got>>
  BY DEF OwnerStep, readVars, DevSvcManagerAddService, AddServiceValue, AddServiceInsert,
     DevSvcManagerUpdateService, UpdateServiceFree, UpdateServiceWrite, UpdateServiceNotify,
     DevSvcManagerRemoveService, RemoveServiceUnlink, RemoveServiceFree, cliVars
<1>2. own' \in [Services -> OwnPlace]
  <2>1. \E p \in OwnPlace : own' = [own EXCEPT ![s] = p]
    BY DEF OwnerStep, DevSvcManagerAddService, AddServiceValue, AddServiceInsert,
       DevSvcManagerUpdateService, UpdateServiceFree, UpdateServiceWrite,
       UpdateServiceNotify, DevSvcManagerRemoveService, RemoveServiceUnlink,
       RemoveServiceFree, Goto, OwnPlace
  <2>2. QED
    BY <1>0, <2>1
<1>3. version' \in 0..MaxVersion
  <2>1. version' = version \/ (version < MaxVersion /\ version' = version + 1)
    BY DEF OwnerStep, DevSvcManagerAddService, AddServiceValue, AddServiceInsert,
       DevSvcManagerUpdateService, UpdateServiceFree, UpdateServiceWrite,
       UpdateServiceNotify, DevSvcManagerRemoveService, RemoveServiceUnlink,
       RemoveServiceFree, NewVersion
  <2>2. QED
    BY <1>0, <2>1 DEF TypeOK
<1>4. record' \in [Services -> Record]
  <2>1. \/ record' = record
        \/ record' = [record EXCEPT ![s].value = version + 1]
        \/ record' = [record EXCEPT ![s] = [id |-> version + 1, linked |-> TRUE,
                                           value |-> version + 1, info |-> version + 1]]
        \/ record' = [record EXCEPT ![s].info = Dangling]
        \/ record' = [record EXCEPT ![s].value = version + 1, ![s].info = version + 1]
        \/ record' = [record EXCEPT ![s].linked = FALSE]
        \/ record' = [record EXCEPT ![s] = NoRecord]
    BY DEF OwnerStep, DevSvcManagerAddService, AddServiceValue, AddServiceInsert,
       DevSvcManagerUpdateService, UpdateServiceFree, UpdateServiceWrite,
       UpdateServiceNotify, DevSvcManagerRemoveService, RemoveServiceUnlink,
       RemoveServiceFree
  <2>2. /\ [id |-> version + 1, linked |-> TRUE, value |-> version + 1, info |-> version + 1]
             \in Record
        /\ NoRecord \in Record
    BY <1>0 DEF Record, NoRecord, Dangling
  <2>3. /\ [record[s] EXCEPT !.value = version + 1] \in Record
        /\ [record[s] EXCEPT !.info = Dangling] \in Record
        /\ [record[s] EXCEPT !.value = version + 1, !.info = version + 1] \in Record
        /\ [record[s] EXCEPT !.linked = FALSE] \in Record
    <3>1. record[s] \in Record /\ version + 1 \in Nat /\ Dangling \in Nat
      BY <1>0 DEF Dangling
    <3>2. QED
      BY <3>1, RecordFacts, Zenon
  <2>4. \E q \in Record : record' = record \/ record' = [record EXCEPT ![s] = q]
    BY <2>1, <2>2, <2>3
  <2>5. QED
    BY <1>0, <2>4
<1>5. /\ view' \in [Clients -> [Services -> Nat \cup {Down}]]
      /\ unsure' \in [Clients -> SUBSET Services]
      /\ holder' \in [Clients -> Holder] /\ corrupted' \in BOOLEAN
  <2>1. \/ UNCHANGED <<view, unsure, holder, corrupted>>
        \/ \E what \in Nat \cup {Down} : NotifyServiceStatusLocked(s, what)
    BY <1>0 DEF OwnerStep, DevSvcManagerAddService, AddServiceValue, AddServiceInsert,
       DevSvcManagerUpdateService, UpdateServiceFree, UpdateServiceWrite,
       UpdateServiceNotify, DevSvcManagerRemoveService, RemoveServiceUnlink,
       RemoveServiceFree, cliVars, histVars
  <2>2. CASE UNCHANGED <<view, unsure, holder, corrupted>>
    BY <2>2 DEF TypeOK, Holder
  <2>3. QED
    BY <2>1, <2>2, NotifyTypes
<1>6. QED
  BY <1>1, <1>2, <1>3, <1>4, <1>5 DEF TypeOK, Record, Holder

\* A call of the process behind a file keeps the types.
LEMMA ClientTypes ==
    ASSUME TypeOK, RoomToRegister, NEW c \in Clients, ClientStep(c)
    PROVE  TypeOK'
<1>0. /\ listeners \in [Clients -> 0..MaxListeners] /\ MaxListeners \in Nat
      /\ holder \in [Clients -> Holder] /\ cli \in [Clients -> CliPlace]
      /\ listeners[c] \in Nat /\ want[c] \in SUBSET Classes
      /\ \A s \in Services : record[s].info \in Nat
  BY SvcMgrAssumption DEF TypeOK, Holder
<1> USE DEF cliVars, ownVars, readVars, histVars, Move, At
<1>1. CASE \E mask \in SUBSET Classes \ {{}} : SvcMgrIoserviceRegSvcStatListener(c, mask)
  <2>1. PICK mask \in SUBSET Classes : SvcMgrIoserviceRegSvcStatListener(c, mask)
    BY <1>1
  <2>2. holder' \in [Clients -> Holder]
    <3>1. [class |-> mask, held |-> TRUE, listed |-> FALSE] \in Holder
      BY DEF Holder
    <3>2. \E h \in Holder : holder' = holder \/ holder' = [holder EXCEPT ![c] = h]
      BY <2>1, <3>1 DEF SvcMgrIoserviceRegSvcStatListener
    <3>3. QED
      BY <1>0, <3>2
  <2>3. cli' \in [Clients -> CliPlace]
    BY <1>0, <2>1 DEF SvcMgrIoserviceRegSvcStatListener, CliPlace
  <2>4. QED
    BY <2>1, <2>2, <2>3 DEF SvcMgrIoserviceRegSvcStatListener, TypeOK, Holder
<1>2. CASE RegisterListenerSetClass(c)
  <2>1. holder' \in [Clients -> Holder]
    BY <1>0, <1>2 DEF RegisterListenerSetClass, Holder
  <2>2. cli' \in [Clients -> CliPlace]
    BY <1>0, <1>2 DEF RegisterListenerSetClass, CliPlace
  <2>3. unsure' \in [Clients -> SUBSET Services] /\ corrupted' \in BOOLEAN
    <3>1. PICK S \in SUBSET Services : unsure' = unsure \/ unsure' = [unsure EXCEPT ![c] = @ \cup S]
      BY <1>2 DEF RegisterListenerSetClass
    <3>a. unsure \in [Clients -> SUBSET Services]
      BY DEF TypeOK
    <3>2. unsure' \in [Clients -> SUBSET Services]
      BY <3>1, <3>a
    <3>3. corrupted' \in BOOLEAN
      BY <1>2, Zenon DEF RegisterListenerSetClass, TypeOK
    <3>4. QED
      BY <3>2, <3>3
  <2>4. QED
    BY <1>2, <2>1, <2>2, <2>3 DEF RegisterListenerSetClass, TypeOK, Holder
<1>3. CASE DevSvcManagerRegsterServListener(c)
  <2>1. holder' \in [Clients -> Holder]
    BY <1>0, <1>3 DEF DevSvcManagerRegsterServListener, Holder
  <2>2. cli' \in [Clients -> CliPlace]
    BY <1>0, <1>3 DEF DevSvcManagerRegsterServListener, CliPlace
  <2>3. PICK lost \in SUBSET ToldOnRegister(c), sent \in SUBSET Services :
          /\ view' = [view EXCEPT ![c] = [s \in Services |->
                                            IF s \in sent THEN record[s].info ELSE Down]]
          /\ unsure' = [unsure EXCEPT ![c] =
                          IF c \in listening THEN lost ELSE ToldOnRegister(c)]
    <3>1. PICK lost \in SUBSET ToldOnRegister(c) :
            LET sent == IF c \in listening THEN ToldOnRegister(c) \ lost ELSE {} IN
            /\ view' = [view EXCEPT ![c] = [s \in Services |->
                                              IF s \in sent THEN record[s].info ELSE Down]]
            /\ unsure' = [unsure EXCEPT ![c] =
                            IF c \in listening THEN lost ELSE ToldOnRegister(c)]
      BY <1>3 DEF DevSvcManagerRegsterServListener
    <3>2. (IF c \in listening THEN ToldOnRegister(c) \ lost ELSE {}) \in SUBSET Services
      BY DEF ToldOnRegister
    <3>3. QED
      BY <3>1, <3>2, Zenon
  <2>4. ToldOnRegister(c) \in SUBSET Services
    BY DEF ToldOnRegister
  <2>5. unsure' \in [Clients -> SUBSET Services]
    BY <2>3, <2>4 DEF TypeOK
  <2>6. [s \in Services |-> IF s \in sent THEN record[s].info ELSE Down]
          \in [Services -> Nat \cup {Down}]
    BY <1>0
  <2>7. view' \in [Clients -> [Services -> Nat \cup {Down}]]
    BY <2>3, <2>6 DEF TypeOK
  <2>8. QED
    BY <1>3, <2>1, <2>2, <2>5, <2>7 DEF DevSvcManagerRegsterServListener, TypeOK, Holder
<1>4. CASE HdfDeviceRegisterEventListener(c)
  <2>1. cli' \in [Clients -> CliPlace]
    BY <1>0, <1>4 DEF HdfDeviceRegisterEventListener, CliPlace
  <2>2. listeners[c] < MaxListeners
    BY <1>4 DEF HdfDeviceRegisterEventListener, RoomToRegister, Registering
  <2>3. listeners' \in [Clients -> 0..MaxListeners]
    BY <1>0, <1>4, <2>2 DEF HdfDeviceRegisterEventListener
  <2>4. QED
    BY <1>0, <1>4, <2>1, <2>3 DEF HdfDeviceRegisterEventListener, TypeOK
<1>5. CASE SvcMgrIoserviceUnRegSvcStatListener(c)
  <2>1. cli' \in [Clients -> CliPlace]
    BY <1>0, <1>5 DEF SvcMgrIoserviceUnRegSvcStatListener, CliPlace
  <2>2. listeners' \in [Clients -> 0..MaxListeners]
    BY <1>0, <1>5 DEF SvcMgrIoserviceUnRegSvcStatListener, Registered
  <2>3. listening' \in SUBSET Clients
    BY <1>5 DEF SvcMgrIoserviceUnRegSvcStatListener, TypeOK
  <2>4. QED
    BY <1>5, <2>1, <2>2, <2>3 DEF SvcMgrIoserviceUnRegSvcStatListener, TypeOK
<1>6. CASE DeviceSvcMgrRelease(c)
  BY <1>0, <1>6 DEF DeviceSvcMgrRelease, TypeOK, CliPlace
<1>7. CASE DevSvcManagerExtUnRegisterListener(c)
  BY <1>0, <1>7 DEF DevSvcManagerExtUnRegisterListener, TypeOK, CliPlace
<1>8. CASE DevSvcManagerUnregsterServListener(c)
  <2>1. holder' \in [Clients -> Holder] /\ corrupted' \in BOOLEAN
    <3>1. [holder[c] EXCEPT !.listed = FALSE] \in Holder
      BY <1>0 DEF Holder
    <3>2. \/ holder' = holder /\ corrupted' = TRUE
          \/ holder' = [holder EXCEPT ![c].listed = FALSE] /\ corrupted' = corrupted
      BY <1>8 DEF DevSvcManagerUnregsterServListener, UnlinkHolder
    <3>3. holder' \in [Clients -> Holder]
      BY <1>0, <3>1, <3>2
    <3>4. corrupted' \in BOOLEAN
      BY <3>2, Zenon DEF TypeOK
    <3>5. QED
      BY <3>3, <3>4
  <2>2. cli' \in [Clients -> CliPlace]
    BY <1>0, <1>8 DEF DevSvcManagerUnregsterServListener, CliPlace
  <2>3. QED
    BY <1>8, <2>1, <2>2 DEF DevSvcManagerUnregsterServListener, TypeOK, Holder
<1>9. CASE ServStatListenerHolderRelease(c)
  <2>1. holder' \in [Clients -> Holder]
    BY <1>0, <1>9 DEF ServStatListenerHolderRelease, Holder
  <2>2. cli' \in [Clients -> CliPlace]
    BY <1>0, <1>9 DEF ServStatListenerHolderRelease, CliPlace
  <2>3. QED
    BY <1>9, <2>1, <2>2 DEF ServStatListenerHolderRelease, TypeOK, Holder
<1>10. QED
  BY <1>1, <1>2, <1>3, <1>4, <1>5, <1>6, <1>7, <1>8, <1>9 DEF ClientStep

\* A process that registers keeps room for its listener.
LEMMA RoomStep ==
    ASSUME TypeOK, RoomToRegister, [Next]_vars
    PROVE  RoomToRegister'
<1> USE DEF RoomToRegister, ownVars, cliVars, Move, At
<1>0. /\ DOMAIN cli = Clients /\ DOMAIN listeners = Clients
      /\ \A c \in Clients : listeners[c] \in Nat
      /\ MaxListeners \in Nat
  BY SvcMgrAssumption DEF TypeOK
<1>1. ASSUME NEW s \in Services, OwnerStep(s) PROVE UNCHANGED <<cli, listeners>>
  BY <1>1 DEF OwnerStep, DevSvcManagerAddService, AddServiceValue, AddServiceInsert,
     DevSvcManagerUpdateService, UpdateServiceFree, UpdateServiceWrite, UpdateServiceNotify,
     DevSvcManagerRemoveService, RemoveServiceUnlink, RemoveServiceFree
<1>2. ASSUME NEW c \in Clients, ClientStep(c) PROVE RoomToRegister'
  <2>1. \/ /\ listeners' = listeners /\ (cli[c] \in Registering \/ listeners[c] < MaxListeners)
           /\ \E p \in Registering : cli' = [cli EXCEPT ![c] = p]
        \/ /\ \E p \in CliPlace \ Registering : cli' = [cli EXCEPT ![c] = p]
           /\ \/ listeners' = listeners
              \/ \E n : listeners' = [listeners EXCEPT ![c] = n]
    BY <1>2 DEF ClientStep, SvcMgrIoserviceRegSvcStatListener, RegisterListenerSetClass,
       DevSvcManagerRegsterServListener, HdfDeviceRegisterEventListener,
       SvcMgrIoserviceUnRegSvcStatListener, DeviceSvcMgrRelease,
       DevSvcManagerExtUnRegisterListener, DevSvcManagerUnregsterServListener,
       ServStatListenerHolderRelease, Registering, CliPlace
  <2>2. QED
    BY <1>0, <2>1
<1>3. ASSUME NEW r \in Readers,
             GetServiceValue(r) \/ \E s \in Services : DevSvcManagerGetService(r, s)
      PROVE  UNCHANGED <<cli, listeners>>
  BY <1>3 DEF GetServiceValue, DevSvcManagerGetService
<1>4. CASE UNCHANGED vars
  BY <1>4 DEF vars
<1>5. QED
  BY <1>1, <1>2, <1>3, <1>4 DEF Next

\* Every step keeps the types.
LEMMA TypeStep ==
    ASSUME TypeOK, RoomToRegister, FoundService, [Next]_vars
    PROVE  TypeOK' /\ FoundService'
<1>0. /\ read \in [Readers -> Reading] /\ NotReading \in Reading
      /\ got \in [Readers -> Nat \cup {Garbage}]
      /\ \A s \in Services : record[s].value \in Nat /\ record[s].id \in Nat
  BY DEF TypeOK, Reading, NotReading
<1>1. ASSUME NEW r \in Readers, GetServiceValue(r) PROVE TypeOK'
  <2>1. read' \in [Readers -> Reading]
    BY <1>0, <1>1 DEF GetServiceValue
  <2>2. read[r].svc \in Services
    BY <1>1 DEF GetServiceValue, FoundService
  <2>3. got' \in [Readers -> Nat \cup {Garbage}]
    BY <1>0, <1>1, <2>2 DEF GetServiceValue
  <2>4. corrupted' \in BOOLEAN
    BY <1>1 DEF GetServiceValue, TypeOK
  <2>5. QED
    BY <1>1, <2>1, <2>3, <2>4 DEF GetServiceValue, TypeOK, Reading, ownVars, cliVars, histVars
<1>2. ASSUME NEW r \in Readers, NEW s \in Services, DevSvcManagerGetService(r, s)
      PROVE  TypeOK'
  <2>1. [at |-> "found", svc |-> s, id |-> record[s].id] \in Reading
    BY <1>0 DEF Reading
  <2>2. /\ read' = read \/ \E q \in Reading : read' = [read EXCEPT ![r] = q]
        /\ got' = got \/ got' = [got EXCEPT ![r] = 0]
    BY <1>2, <2>1 DEF DevSvcManagerGetService
  <2>3. read' \in [Readers -> Reading] /\ got' \in [Readers -> Nat \cup {Garbage}]
    BY <1>0, <2>2
  <2>4. QED
    BY <1>2, <2>3 DEF DevSvcManagerGetService, TypeOK, Reading, ownVars, cliVars, histVars
<1>3. ASSUME UNCHANGED vars PROVE TypeOK'
  <2>1. /\ UNCHANGED <<record, version, own, holder, listening, listeners, cli, want>>
        /\ UNCHANGED <<read, got, corrupted, view, unsure>>
    BY <1>3 DEF vars, ownVars, cliVars, readVars, histVars
  <2>2. QED
    BY <2>1 DEF TypeOK
<1>4. QED
  <2>1. TypeOK'
    BY <1>1, <1>2, <1>3, OwnerTypes, ClientTypes DEF Next
  <2>2. FoundService'
    <3>1. ASSUME NEW r \in Readers, GetServiceValue(r) PROVE FoundService'
      BY <1>0, <3>1 DEF GetServiceValue, FoundService, NotReading
    <3>2. ASSUME NEW r \in Readers, NEW s \in Services, DevSvcManagerGetService(r, s)
          PROVE  FoundService'
      BY <1>0, <3>2 DEF DevSvcManagerGetService, FoundService
    <3>3. CASE UNCHANGED read
      BY <3>3 DEF FoundService
    <3>4. QED
      BY <3>1, <3>2, <3>3, OtherSteps DEF Next, vars, readVars
  <2>3. QED
    BY <2>1, <2>2

\* The records, the holders and the lookups of DevSvcManager keep their types for any
\* number of services and files.
THEOREM TypeThm == Spec => []TypeOK
<1>1. Init => TypeOK /\ RoomToRegister /\ FoundService
  <2> SUFFICES ASSUME Init PROVE TypeOK /\ RoomToRegister /\ FoundService
    OBVIOUS
  <2>1. NoRecord \in Record /\ NoHolder \in Holder /\ NotReading \in Reading
    BY DEF NoRecord, NoHolder, NotReading, Record, Holder, Reading, Dangling
  <2>2. /\ record \in [Services -> Record] /\ holder \in [Clients -> Holder]
        /\ view \in [Clients -> [Services -> Nat \cup {Down}]]
        /\ read \in [Readers -> Reading]
    BY <2>1 DEF Init
  <2>3. version \in 0..MaxVersion /\ listeners \in [Clients -> 0..MaxListeners]
    BY SvcMgrAssumption DEF Init
  <2>a. corrupted \in BOOLEAN
    BY Zenon DEF Init
  <2>4. TypeOK
    BY <2>2, <2>3, <2>a DEF Init, TypeOK, Record, Holder, Reading, OwnPlace, CliPlace
  <2>5. RoomToRegister /\ FoundService
    BY DEF Init, RoomToRegister, Registering, FoundService, NotReading
  <2>6. QED
    BY <2>4, <2>5
<1>2. QED
  BY <1>1, TypeStep, RoomStep, PTL DEF Spec

(***************************************************************************)
(* The table.                                                              *)
(***************************************************************************)
\* Where the call about a service stands says whether its record is linked.
OwnInv ==
    \A s \in Services :
        /\ own[s] \in {"addValue", "updFree", "updWrite", "updNotify", "remNotify"}
              => record[s].linked
        /\ own[s] \in {"addInsert", "remFree"} => ~record[s].linked
        /\ own[s] \in {"remNotify", "remFree"} => s \in Removable

\* What a step of a call about s does to the table: nothing, a new object under
\* the name, in the same record if there is one, or no record under the name.
Publishes(s) ==
    /\ record'[s].linked /\ record'[s].value \in 1..MaxVersion
    /\ record[s].linked => record'[s].id = record[s].id
Withdraws(s) == s \in Removable /\ ~record'[s].linked

\* A call about a service.
LEMMA OwnerFacts ==
    ASSUME TypeOK, OwnInv, NEW s \in Services, OwnerStep(s)
    PROVE  /\ OwnInv'
           /\ \A x \in Services \ {s} : record'[x] = record[x] /\ own'[x] = own[x]
           /\ \/ /\ record'[s].linked = record[s].linked
                 /\ record'[s].value = record[s].value /\ record'[s].id = record[s].id
              \/ Publishes(s) \/ Withdraws(s)
<1>0. /\ version \in Nat /\ MaxVersion \in Nat /\ version + 1 \in Nat
      /\ record \in [Services -> Record] /\ own \in [Services -> OwnPlace]
      /\ record[s] \in Record
  BY SvcMgrAssumption DEF TypeOK, Record
<1> USE DEF Goto, Found, NewVersion
<1>1. CASE \/ DevSvcManagerAddService(s) \/ DevSvcManagerUpdateService(s)
           \/ DevSvcManagerRemoveService(s)
  BY <1>0, <1>1 DEF DevSvcManagerAddService, DevSvcManagerUpdateService,
     DevSvcManagerRemoveService, OwnInv
<1>2. CASE AddServiceValue(s)
  <2>1. /\ own[s] = "addValue" /\ version + 1 \in 1..MaxVersion
        /\ own' = [own EXCEPT ![s] = "idle"]
        /\ record' = [record EXCEPT ![s].value = version + 1]
    BY <1>0, <1>2 DEF AddServiceValue
  <2>2. QED
    BY <1>0, <2>1 DEF OwnInv, Publishes, Record
<1>3. CASE AddServiceInsert(s)
  <2>1. /\ own[s] = "addInsert" /\ version + 1 \in 1..MaxVersion
        /\ own' = [own EXCEPT ![s] = "idle"]
        /\ \/ record' = record
           \/ record' = [record EXCEPT ![s] = [id |-> version + 1, linked |-> TRUE,
                                        value |-> version + 1, info |-> version + 1]]
    BY <1>0, <1>3 DEF AddServiceInsert
  <2>2. QED
    BY <1>0, <2>1 DEF OwnInv, Publishes
<1>4. CASE UpdateServiceFree(s)
  BY <1>0, <1>4 DEF UpdateServiceFree, OwnInv, Record
<1>5. CASE UpdateServiceWrite(s)
  <2>1. /\ own[s] = "updWrite" /\ version + 1 \in 1..MaxVersion
        /\ own' = [own EXCEPT ![s] = "updNotify"]
        /\ record' = [record EXCEPT ![s].value = version + 1, ![s].info = version + 1]
    BY <1>0, <1>5 DEF UpdateServiceWrite
  <2>2. QED
    BY <1>0, <2>1 DEF OwnInv, Publishes, Record
<1>6. CASE UpdateServiceNotify(s)
  BY <1>0, <1>6 DEF UpdateServiceNotify, OwnInv
<1>7. CASE RemoveServiceUnlink(s)
  <2>1. /\ own[s] = "remNotify" /\ own' = [own EXCEPT ![s] = "remFree"]
        /\ record' = [record EXCEPT ![s].linked = FALSE]
    BY <1>7 DEF RemoveServiceUnlink
  <2>2. QED
    BY <1>0, <2>1 DEF OwnInv, Withdraws, Record
<1>8. CASE RemoveServiceFree(s)
  BY <1>0, <1>8 DEF RemoveServiceFree, OwnInv, Withdraws, NoRecord
<1>9. QED
  BY <1>1, <1>2, <1>3, <1>4, <1>5, <1>6, <1>7, <1>8 DEF OwnerStep

\* Every step keeps OwnInv.
LEMMA OwnStep ==
    ASSUME TypeOK, OwnInv, [Next]_vars
    PROVE  OwnInv'
<1>1. CASE UNCHANGED ownVars
  BY <1>1 DEF OwnInv, ownVars
<1>2. CASE \E s \in Services : OwnerStep(s)
  BY <1>2, OwnerFacts
<1>3. QED
  BY <1>1, <1>2, OtherSteps DEF Next, vars

(***************************************************************************)
(* What a listening file was told.                                         *)
(***************************************************************************)
\* What a listener is to know of a service.
Known(s) == IF record[s].linked THEN record[s].info ELSE Down

\* LatestTold, also in the middle of the calls that do not write the info.
ToldInv ==
    \A c \in Clients, s \in Services :
        (/\ holder[c].listed /\ ClassOf[s] \in holder[c].class
         /\ s \notin unsure[c] /\ own[s] \notin {"updWrite", "updNotify"})
            => view[c][s] = Known(s)

\* What a notification about s does.
LEMMA NotifyFacts ==
    ASSUME TypeOK, NEW s \in Services, NEW what \in Nat \cup {Down},
           NotifyServiceStatusLocked(s, what)
    PROVE  /\ \A c \in Clients : \A x \in Services \ {s} :
                 view'[c][x] = view[c][x] /\ (x \in unsure'[c] <=> x \in unsure[c])
           /\ \A c \in Clients : holder'[c] = holder[c] \/ ~holder'[c].listed
           /\ \A c \in Clients : holder[c].listed /\ ClassOf[s] \in holder[c].class
                 => s \in unsure'[c] \/ view'[c][s] = what
           /\ ~OutOfMemory => holder' = holder
           /\ (\A c \in Clients : holder[c].listed => holder[c].held) => corrupted' = corrupted
<1> DEFINE told == Listeners(s)
<1>1. PICK lost \in SUBSET told, failed \in SUBSET Clients :
        /\ OutOfMemory \/ lost = {}
        /\ failed \subseteq lost
        /\ view' = [c \in Clients |->
                      IF c \in (told \cap listening) \ lost
                      THEN [view[c] EXCEPT ![s] = what] ELSE view[c]]
        /\ unsure' = [c \in Clients |->
                        IF c \notin told THEN unsure[c]
                        ELSE IF c \in listening \ lost THEN unsure[c] \ {s}
                        ELSE unsure[c] \cup {s}]
        /\ holder' = [c \in Clients |-> IF c \in failed THEN NoHolder ELSE holder[c]]
        /\ corrupted' = (corrupted \/ \E c \in told : ~holder[c].held)
  BY DEF NotifyServiceStatusLocked, Listeners
<1>2. \A c \in Clients : c \in told <=> holder[c].listed /\ ClassOf[s] \in holder[c].class
  BY DEF Listeners
<1>3. told \subseteq Clients
  BY DEF Listeners
<1> HIDE DEF told
<1>4. /\ \A c \in Clients : view[c] \in [Services -> Nat \cup {Down}]
      /\ holder \in [Clients -> Holder]
  BY DEF TypeOK, Holder
<1>5. ASSUME NEW c \in Clients, NEW x \in Services \ {s}
      PROVE  view'[c][x] = view[c][x] /\ (x \in unsure'[c] <=> x \in unsure[c])
  BY <1>1, <1>4
<1>6. \A c \in Clients : holder'[c] = holder[c] \/ ~holder'[c].listed
  <2>1. ~NoHolder.listed
    BY DEF NoHolder
  <2>2. QED
    BY <1>1, <2>1
<1>7. ASSUME NEW c \in Clients, c \in told
      PROVE  s \in unsure'[c] \/ view'[c][s] = what
  BY <1>1, <1>4, <1>7
<1>8. ~OutOfMemory => holder' = holder
  BY <1>1, <1>4
<1>9. (\A c \in Clients : holder[c].listed => holder[c].held) => corrupted' = corrupted
  <2> SUFFICES ASSUME \A c \in Clients : holder[c].listed => holder[c].held
               PROVE  corrupted' = corrupted
    OBVIOUS
  <2>1. ~ \E c \in told : ~holder[c].held
    BY <1>2, <1>3
  <2>2. corrupted \in BOOLEAN
    BY DEF TypeOK
  <2>3. QED
    BY <1>1, <2>1, <2>2, Zenon
<1>10. QED
  BY <1>2, <1>5, <1>6, <1>7, <1>8, <1>9

\* A notification of s that says what a listener is to know of s restores ToldInv.
LEMMA ToldByNotify ==
    ASSUME TypeOK, ToldInv, NEW s \in Services, NEW what \in Nat \cup {Down},
           NotifyServiceStatusLocked(s, what), Known(s)' = what,
           \A x \in Services \ {s} : record'[x] = record[x] /\ own'[x] = own[x]
    PROVE  ToldInv'
<1> SUFFICES ASSUME NEW c \in Clients, NEW x \in Services,
                    holder'[c].listed, ClassOf[x] \in holder'[c].class,
                    x \notin unsure'[c], own'[x] \notin {"updWrite", "updNotify"}
             PROVE  view'[c][x] = Known(x)'
  BY DEF ToldInv
<1>1. holder'[c] = holder[c]
  BY NotifyFacts
<1>2. CASE x = s
  BY <1>1, <1>2, NotifyFacts
<1>3. CASE x # s
  <2>1. view'[c][x] = view[c][x] /\ x \notin unsure[c]
    BY <1>3, NotifyFacts
  <2>2. Known(x)' = Known(x)
    BY <1>3 DEF Known
  <2>3. QED
    BY <1>1, <1>3, <2>1, <2>2 DEF ToldInv
<1>4. QED
  BY <1>2, <1>3

\* A call about a service keeps ToldInv.
LEMMA OwnerTold ==
    ASSUME TypeOK, OwnInv, ToldInv, NEW s \in Services, OwnerStep(s)
    PROVE  ToldInv'
<1>0. /\ version \in Nat /\ version + 1 \in Nat /\ record[s].info \in Nat
      /\ record \in [Services -> Record] /\ own \in [Services -> OwnPlace]
      /\ record[s] \in Record
  BY SvcMgrAssumption DEF TypeOK, Record
<1>a. \A x \in Services \ {s} : record'[x] = record[x] /\ own'[x] = own[x]
  BY OwnerFacts
<1>b. ASSUME UNCHANGED <<holder, view, unsure>>,
             \/ own'[s] \in {"updWrite", "updNotify"}
             \/ own[s] \notin {"updWrite", "updNotify"} /\ Known(s)' = Known(s)
      PROVE  ToldInv'
  <2> SUFFICES ASSUME NEW c \in Clients, NEW x \in Services,
                      holder'[c].listed, ClassOf[x] \in holder'[c].class,
                      x \notin unsure'[c], own'[x] \notin {"updWrite", "updNotify"}
               PROVE  view'[c][x] = Known(x)'
    BY DEF ToldInv
  <2>1. x # s => Known(x)' = Known(x)
    BY <1>a DEF Known
  <2>2. QED
    BY <1>a, <1>b, <2>1 DEF ToldInv
<1> USE DEF Goto, NewVersion, cliVars, histVars
<1>1. CASE \/ DevSvcManagerAddService(s) \/ DevSvcManagerUpdateService(s)
           \/ DevSvcManagerRemoveService(s)
  <2>1. record' = record /\ own[s] = "idle" /\ UNCHANGED <<holder, view, unsure>>
    BY <1>1 DEF DevSvcManagerAddService, DevSvcManagerUpdateService,
       DevSvcManagerRemoveService
  <2>2. QED
    BY <1>b, <2>1 DEF Known
<1>2. CASE AddServiceValue(s)
  <2>1. /\ own[s] = "addValue" /\ UNCHANGED <<holder, view, unsure>>
        /\ record' = [record EXCEPT ![s].value = version + 1]
    BY <1>2 DEF AddServiceValue
  <2>2. Known(s)' = Known(s)
    BY <1>0, <2>1 DEF Known, Record
  <2>3. QED
    BY <1>b, <2>1, <2>2
<1>3. CASE AddServiceInsert(s)
  <2>1. own[s] = "addInsert"
    BY <1>3 DEF AddServiceInsert
  <2>2. CASE UNCHANGED <<record, holder, corrupted, histVars>>
    BY <1>b, <2>1, <2>2 DEF Known
  <2>3. CASE /\ record' = [record EXCEPT ![s] = [id |-> version + 1, linked |-> TRUE,
                                          value |-> version + 1, info |-> version + 1]]
             /\ NotifyServiceStatusLocked(s, version + 1)
    <3>1. Known(s)' = version + 1
      BY <1>0, <2>3 DEF Known
    <3>2. QED
      BY <1>0, <1>a, <2>3, <3>1, ToldByNotify
  <2>4. QED
    BY <1>3, <2>2, <2>3 DEF AddServiceInsert
<1>4. CASE UpdateServiceFree(s) \/ UpdateServiceWrite(s)
  <2>1. /\ UNCHANGED <<holder, view, unsure>>
        /\ \E p \in {"updWrite", "updNotify"} : own' = [own EXCEPT ![s] = p]
    BY <1>4 DEF UpdateServiceFree, UpdateServiceWrite
  <2>2. QED
    BY <1>0, <1>b, <2>1
<1>5. CASE UpdateServiceNotify(s)
  <2>1. own[s] = "updNotify" /\ record' = record
        /\ NotifyServiceStatusLocked(s, record[s].info)
    BY <1>5 DEF UpdateServiceNotify
  <2>2. Known(s)' = record[s].info
    BY <2>1 DEF Known, OwnInv
  <2>3. QED
    BY <1>0, <1>a, <2>1, <2>2, ToldByNotify
<1>6. CASE RemoveServiceUnlink(s)
  <2>1. /\ NotifyServiceStatusLocked(s, Down)
        /\ record' = [record EXCEPT ![s].linked = FALSE]
    BY <1>6 DEF RemoveServiceUnlink
  <2>2. Known(s)' = Down
    BY <1>0, <2>1 DEF Known, Record
  <2>3. QED
    BY <1>a, <2>1, <2>2, ToldByNotify
<1>7. CASE RemoveServiceFree(s)
  <2>1. /\ own[s] = "remFree" /\ UNCHANGED <<holder, view, unsure>>
        /\ record' = [record EXCEPT ![s] = NoRecord]
    BY <1>7 DEF RemoveServiceFree
  <2>2. Known(s)' = Known(s)
    BY <1>0, <2>1 DEF Known, NoRecord, OwnInv
  <2>3. QED
    BY <1>b, <2>1, <2>2
<1>8. QED
  BY <1>1, <1>2, <1>3, <1>4, <1>5, <1>6, <1>7 DEF OwnerStep

\* A call of the process behind a file keeps ToldInv.
LEMMA ClientTold ==
    ASSUME TypeOK, ToldInv, NEW c \in Clients, ClientStep(c)
    PROVE  ToldInv'
<1>0. /\ holder \in [Clients -> Holder] /\ DOMAIN view = Clients /\ DOMAIN unsure = Clients
      /\ holder[c] \in Holder
  BY DEF TypeOK, Holder
<1>a. UNCHANGED <<record, own>> /\ \A s \in Services : Known(s)' = Known(s)
  BY OtherSteps DEF ownVars, Known
<1>b. ASSUME UNCHANGED <<view, unsure>>,
             \A d \in Clients : \/ holder'[d] = holder[d]
                                \/ ~holder'[d].listed
      PROVE  ToldInv'
  <2> SUFFICES ASSUME NEW d \in Clients, NEW x \in Services,
                      holder'[d].listed, ClassOf[x] \in holder'[d].class,
                      x \notin unsure'[d], own'[x] \notin {"updWrite", "updNotify"}
               PROVE  view'[d][x] = Known(x)'
    BY DEF ToldInv
  <2>1. QED
    BY <1>a, <1>b DEF ToldInv
<1> USE DEF cliVars, histVars
<1>1. CASE \E mask \in SUBSET Classes \ {{}} : SvcMgrIoserviceRegSvcStatListener(c, mask)
  <2>1. PICK mask \in SUBSET Classes : SvcMgrIoserviceRegSvcStatListener(c, mask)
    BY <1>1
  <2>2. /\ UNCHANGED <<view, unsure>>
        /\ \/ holder' = holder
           \/ holder' = [holder EXCEPT ![c] = [class |-> mask, held |-> TRUE, listed |-> FALSE]]
    BY <2>1 DEF SvcMgrIoserviceRegSvcStatListener
  <2>3. QED
    BY <1>0, <1>b, <2>2
<1>2. CASE RegisterListenerSetClass(c)
  <2>1. view' = view
    BY <1>2 DEF RegisterListenerSetClass
  <2>2. CASE UNCHANGED <<unsure, holder>>
    BY <1>b, <2>1, <2>2
  <2>3. CASE /\ unsure' = [unsure EXCEPT ![c] = @ \cup
                  {s \in Services : ClassOf[s] \in want[c] \ holder[c].class}]
             /\ holder' = [holder EXCEPT ![c].class = want[c]]
    <3>1. /\ \A d \in Clients \ {c} : holder'[d] = holder[d] /\ unsure'[d] = unsure[d]
          /\ holder'[c].listed = holder[c].listed
          /\ holder'[c].class = want[c]
          /\ unsure'[c] = unsure[c] \cup
                  {s \in Services : ClassOf[s] \in want[c] \ holder[c].class}
      BY <1>0, <2>3 DEF Holder
    <3> SUFFICES ASSUME NEW d \in Clients, NEW x \in Services,
                        holder'[d].listed, ClassOf[x] \in holder'[d].class,
                        x \notin unsure'[d], own'[x] \notin {"updWrite", "updNotify"}
                 PROVE  view'[d][x] = Known(x)'
      BY DEF ToldInv
    <3>2. CASE d = c
      <4>1. ClassOf[x] \in holder[c].class /\ x \notin unsure[c] /\ holder[c].listed
        BY <3>1, <3>2
      <4>2. QED
        BY <1>a, <2>1, <3>2, <4>1 DEF ToldInv
    <3>3. CASE d # c
      BY <1>a, <2>1, <3>1, <3>3 DEF ToldInv
    <3>4. QED
      BY <3>2, <3>3
  <2>4. QED
    BY <1>2, <2>2, <2>3 DEF RegisterListenerSetClass
<1>3. CASE DevSvcManagerRegsterServListener(c)
  <2>1. PICK lost \in SUBSET ToldOnRegister(c) :
          LET sent == IF c \in listening THEN ToldOnRegister(c) \ lost ELSE {} IN
          /\ view' = [view EXCEPT ![c] = [s \in Services |->
                                            IF s \in sent THEN record[s].info ELSE Down]]
          /\ unsure' = [unsure EXCEPT ![c] =
                          IF c \in listening THEN lost ELSE ToldOnRegister(c)]
    BY <1>3 DEF DevSvcManagerRegsterServListener
  <2>2. holder' = [holder EXCEPT ![c].listed = TRUE]
    BY <1>3 DEF DevSvcManagerRegsterServListener
  <2> SUFFICES ASSUME NEW d \in Clients, NEW x \in Services,
                      holder'[d].listed, ClassOf[x] \in holder'[d].class,
                      x \notin unsure'[d], own'[x] \notin {"updWrite", "updNotify"}
               PROVE  view'[d][x] = Known(x)'
    BY DEF ToldInv
  <2>3. CASE d = c
    <3>1. ClassOf[x] \in holder[c].class
      BY <1>0, <2>2, <2>3 DEF Holder
    <3>2. x \in ToldOnRegister(c) <=> record[x].linked
      BY <3>1 DEF ToldOnRegister, Found
    <3>3. CASE c \in listening
      <4>1. x \notin lost
        BY <1>0, <2>1, <2>3, <3>3
      <4>2. view'[c][x] = IF x \in ToldOnRegister(c) \ lost THEN record[x].info ELSE Down
        BY <1>0, <2>1, <3>3
      <4>3. QED
        BY <1>a, <2>3, <3>2, <4>1, <4>2 DEF Known
    <3>4. CASE c \notin listening
      <4>1. x \notin ToldOnRegister(c)
        BY <1>0, <2>1, <2>3, <3>4
      <4>2. view'[c][x] = Down
        BY <1>0, <2>1, <3>4
      <4>3. QED
        BY <1>a, <2>3, <3>2, <4>1, <4>2 DEF Known
    <3>5. QED
      BY <3>3, <3>4
  <2>4. CASE d # c
    <3>1. holder'[d] = holder[d] /\ view'[d] = view[d] /\ unsure'[d] = unsure[d]
      BY <1>0, <2>1, <2>2, <2>4
    <3>2. QED
      BY <1>a, <3>1 DEF ToldInv
  <2>5. QED
    BY <2>3, <2>4
<1>4. CASE \/ HdfDeviceRegisterEventListener(c) \/ SvcMgrIoserviceUnRegSvcStatListener(c)
           \/ DeviceSvcMgrRelease(c) \/ DevSvcManagerExtUnRegisterListener(c)
  <2>1. UNCHANGED <<view, unsure, holder>>
    BY <1>4 DEF HdfDeviceRegisterEventListener, SvcMgrIoserviceUnRegSvcStatListener,
       DeviceSvcMgrRelease, DevSvcManagerExtUnRegisterListener
  <2>2. QED
    BY <1>b, <2>1
<1>5. CASE DevSvcManagerUnregsterServListener(c)
  <2>1. /\ UNCHANGED <<view, unsure>>
        /\ holder' = holder \/ holder' = [holder EXCEPT ![c].listed = FALSE]
    BY <1>5 DEF DevSvcManagerUnregsterServListener, UnlinkHolder
  <2>2. QED
    BY <1>0, <1>b, <2>1 DEF Holder
<1>6. CASE ServStatListenerHolderRelease(c)
  <2>1. UNCHANGED <<view, unsure>> /\ holder' = [holder EXCEPT ![c].held = FALSE]
    BY <1>6 DEF ServStatListenerHolderRelease
  <2>2. \A d \in Clients : holder'[d].listed = holder[d].listed
                           /\ holder'[d].class = holder[d].class
    BY <1>0, <2>1 DEF Holder
  <2>3. QED
    BY <1>a, <2>1, <2>2 DEF ToldInv
<1>7. QED
  BY <1>1, <1>2, <1>3, <1>4, <1>5, <1>6 DEF ClientStep

\* A file that listens for a class knows the state of every service of the class
\* that is not in the middle of a change, whatever is published, updated, removed,
\* registered and unregistered meanwhile (LatestTold).
THEOREM LatestToldThm == Spec => []LatestTold
<1>1. Init => OwnInv /\ ToldInv
  <2> SUFFICES ASSUME Init PROVE OwnInv /\ ToldInv
    OBVIOUS
  <2>1. \A c \in Clients : ~holder[c].listed
    BY DEF Init, NoHolder
  <2>2. QED
    BY <2>1 DEF Init, OwnInv, ToldInv
<1>2. TypeOK /\ OwnInv /\ ToldInv /\ [Next]_vars => OwnInv' /\ ToldInv'
  <2> SUFFICES ASSUME TypeOK, OwnInv, ToldInv, [Next]_vars PROVE ToldInv'
    BY OwnStep
  <2>1. CASE UNCHANGED <<ownVars, cliVars, histVars>>
    BY <2>1 DEF ToldInv, Known, ownVars, cliVars, histVars
  <2>2. QED
    BY <2>1, OwnerTold, ClientTold, OtherSteps DEF Next, vars
<1>3. ToldInv => LatestTold
  BY DEF ToldInv, LatestTold, Known
<1>4. QED
  BY <1>1, <1>2, <1>3, TypeThm, PTL DEF Spec

(***************************************************************************)
(* Memory that was freed, and lookups.                                     *)
(***************************************************************************)
\* A holder that is linked, or that a call of its file will use, is not freed.
HolderInv ==
    \A c \in Clients :
        /\ holder[c].listed => holder[c].held
        /\ cli[c] \in {"setClass", "regInsert", "unreg"} => holder[c].held
        /\ cli[c] = "release" => ~holder[c].listed

\* The record a lookup has found is in the table.
ReadInv ==
    \A r \in Readers :
        read[r].at = "found" =>
            /\ read[r].svc \in LookedUp
            /\ record[read[r].svc].linked
            /\ record[read[r].svc].id = read[r].id

\* If notifications do not run out of memory, every step keeps HolderInv, and
\* only a lookup may use freed memory.
LEMMA HolderStep ==
    ASSUME TypeOK, ~OutOfMemory, HolderInv, [Next]_vars
    PROVE  /\ HolderInv'
           /\ (corrupted' = corrupted \/ \E r \in Readers : GetServiceValue(r))
<1>0. /\ holder \in [Clients -> Holder] /\ cli \in [Clients -> CliPlace]
      /\ \A c \in Clients : holder[c] \in Holder
  BY DEF TypeOK, Holder
<1>1. ASSUME NEW s \in Services, OwnerStep(s)
      PROVE  HolderInv' /\ corrupted' = corrupted
  <2>1. \/ UNCHANGED <<holder, corrupted>>
        \/ \E what \in Nat \cup {Down} : NotifyServiceStatusLocked(s, what)
    <3>1. record[s].info \in Nat /\ version + 1 \in Nat
      BY SvcMgrAssumption DEF TypeOK
    <3>2. QED
      BY <1>1, <3>1 DEF OwnerStep, DevSvcManagerAddService, AddServiceValue, AddServiceInsert,
         DevSvcManagerUpdateService, UpdateServiceFree, UpdateServiceWrite,
         UpdateServiceNotify, DevSvcManagerRemoveService, RemoveServiceUnlink,
         RemoveServiceFree, cliVars
  <2>2. UNCHANGED <<holder, corrupted>>
    BY <2>1, NotifyFacts DEF HolderInv
  <2>3. QED
    BY <1>1, <2>2, OtherSteps DEF HolderInv
<1>2. ASSUME NEW c \in Clients, ClientStep(c)
      PROVE  HolderInv' /\ corrupted' = corrupted
  <2> USE DEF At, Move
  <2>1. CASE \E mask \in SUBSET Classes \ {{}} : SvcMgrIoserviceRegSvcStatListener(c, mask)
    <3>1. PICK mask \in SUBSET Classes : SvcMgrIoserviceRegSvcStatListener(c, mask)
      BY <2>1
    <3>2. CASE holder[c].held /\ cli' = [cli EXCEPT ![c] = "setClass"] /\ UNCHANGED holder
      BY <1>0, <3>1, <3>2 DEF SvcMgrIoserviceRegSvcStatListener, HolderInv
    <3>3. CASE /\ holder' = [holder EXCEPT ![c] = [class |-> mask, held |-> TRUE, listed |-> FALSE]]
               /\ cli' = [cli EXCEPT ![c] = "regInsert"]
      BY <1>0, <3>1, <3>3 DEF SvcMgrIoserviceRegSvcStatListener, HolderInv
    <3>4. QED
      BY <3>1, <3>2, <3>3 DEF SvcMgrIoserviceRegSvcStatListener
  <2>2. CASE RegisterListenerSetClass(c)
    <3>1. /\ holder' = [holder EXCEPT ![c].class = want[c]]
          /\ cli' = [cli EXCEPT ![c] = "start"] /\ corrupted' = corrupted
      BY <2>2 DEF RegisterListenerSetClass, HolderInv
    <3>2. QED
      BY <1>0, <3>1 DEF HolderInv, Holder
  <2>3. CASE DevSvcManagerRegsterServListener(c)
    <3>1. /\ holder' = [holder EXCEPT ![c].listed = TRUE] /\ cli[c] = "regInsert"
          /\ cli' = [cli EXCEPT ![c] = "start"] /\ corrupted' = corrupted
      BY <2>3 DEF DevSvcManagerRegsterServListener
    <3>2. QED
      BY <1>0, <3>1 DEF HolderInv, Holder
  <2>4. CASE \/ HdfDeviceRegisterEventListener(c) \/ SvcMgrIoserviceUnRegSvcStatListener(c)
             \/ DeviceSvcMgrRelease(c)
    <3>1. /\ UNCHANGED <<holder, corrupted>>
          /\ \E p \in {"idle", "unset"} : cli' = [cli EXCEPT ![c] = p]
      BY <2>4 DEF HdfDeviceRegisterEventListener, SvcMgrIoserviceUnRegSvcStatListener,
         DeviceSvcMgrRelease
    <3>2. QED
      BY <1>0, <3>1 DEF HolderInv
  <2>5. CASE DevSvcManagerExtUnRegisterListener(c)
    <3>1. /\ UNCHANGED <<holder, corrupted>>
          /\ \/ holder[c].held /\ holder[c].listed /\ cli' = [cli EXCEPT ![c] = "unreg"]
             \/ ~holder[c].listed /\ cli' = [cli EXCEPT ![c] = "release"]
             \/ cli' = [cli EXCEPT ![c] = "idle"]
      BY <2>5 DEF DevSvcManagerExtUnRegisterListener
    <3>2. QED
      BY <1>0, <3>1 DEF HolderInv
  <2>6. CASE DevSvcManagerUnregsterServListener(c)
    <3>1. /\ holder' = [holder EXCEPT ![c].listed = FALSE]
          /\ cli' = [cli EXCEPT ![c] = "release"] /\ corrupted' = corrupted
      BY <2>6 DEF DevSvcManagerUnregsterServListener, UnlinkHolder, HolderInv
    <3>2. QED
      BY <1>0, <3>1 DEF HolderInv, Holder
  <2>7. CASE ServStatListenerHolderRelease(c)
    <3>1. /\ holder' = [holder EXCEPT ![c].held = FALSE] /\ cli[c] = "release"
          /\ cli' = [cli EXCEPT ![c] = "idle"] /\ corrupted' = corrupted
      BY <2>7 DEF ServStatListenerHolderRelease
    <3>2. QED
      BY <1>0, <3>1 DEF HolderInv, Holder
  <2>8. QED
    BY <1>2, <2>1, <2>2, <2>3, <2>4, <2>5, <2>6, <2>7 DEF ClientStep
<1>3. CASE UNCHANGED cliVars
  <2>1. HolderInv'
    BY <1>3 DEF HolderInv, cliVars
  <2>2. QED
    BY <1>1, <1>2, <2>1, OtherSteps DEF Next, vars
<1>4. QED
  BY <1>1, <1>2, <1>3, OtherSteps DEF Next, vars

\* If no service that is looked up can be removed, every step keeps ReadInv, and a
\* lookup uses no freed memory.
LEMMA ReadStep ==
    ASSUME TypeOK, LookedUp \cap Removable = {}, OwnInv, ReadInv, [Next]_vars
    PROVE  /\ ReadInv'
           /\ \A r \in Readers : GetServiceValue(r) => corrupted' = corrupted
<1>1. ASSUME NEW s \in Services, OwnerStep(s)
      PROVE  ReadInv'
  <2>1. read' = read
    BY <1>1, OtherSteps DEF readVars
  <2> SUFFICES ASSUME NEW r \in Readers, read[r].at = "found"
               PROVE  /\ read[r].svc \in LookedUp
                      /\ record'[read[r].svc].linked
                      /\ record'[read[r].svc].id = read[r].id
    BY <2>1 DEF ReadInv
  <2> DEFINE x == read[r].svc
  <2>2. x \in LookedUp /\ x \in Services /\ record[x].linked /\ record[x].id = read[r].id
    BY SvcMgrAssumption DEF ReadInv
  <2>3. x \notin Removable
    BY <2>2
  <2> HIDE DEF x
  <2>4. record'[x].linked /\ record'[x].id = record[x].id
    BY <1>1, <2>2, <2>3, OwnerFacts DEF Publishes, Withdraws
  <2>5. QED
    BY <2>2, <2>4 DEF x
<1>2. ASSUME NEW r \in Readers, GetServiceValue(r)
      PROVE  ReadInv' /\ corrupted' = corrupted
  <2>1. corrupted' = corrupted /\ record' = record
    BY <1>2 DEF GetServiceValue, ReadInv, ownVars
  <2>2. read' = [read EXCEPT ![r] = NotReading]
    BY <1>2 DEF GetServiceValue
  <2>3. QED
    BY <2>1, <2>2 DEF ReadInv, NotReading, TypeOK
<1>3. ASSUME NEW r \in Readers, NEW s \in Services, DevSvcManagerGetService(r, s)
      PROVE  ReadInv'
  <2>1. CASE UNCHANGED read
    BY <1>3, <2>1 DEF DevSvcManagerGetService, ReadInv, ownVars
  <2>2. CASE /\ Found(s)
             /\ read' = [read EXCEPT ![r] = [at |-> "found", svc |-> s, id |-> record[s].id]]
    <3>1. record' = record /\ s \in LookedUp
      BY <1>3 DEF DevSvcManagerGetService, ownVars
    <3>2. QED
      BY <2>2, <3>1 DEF ReadInv, Found
  <2>3. QED
    BY <1>3, <2>1, <2>2 DEF DevSvcManagerGetService
<1>4. CASE UNCHANGED <<record, read>>
  <2>1. ReadInv'
    BY <1>4 DEF ReadInv
  <2>2. QED
    BY <1>2, <2>1
<1>5. QED
  BY <1>1, <1>2, <1>3, <1>4, OtherSteps DEF Next, vars, ownVars, readVars

\* Nobody reads or looks anything up at the start.
LEMMA HolderReadInit == Init => OwnInv /\ HolderInv /\ ReadInv /\ ~corrupted
<1> SUFFICES ASSUME Init PROVE OwnInv /\ HolderInv /\ ReadInv /\ ~corrupted
  OBVIOUS
<1>1. \A c \in Clients : ~holder[c].listed
  BY DEF Init, NoHolder
<1>2. \A r \in Readers : read[r].at = "idle"
  BY DEF Init, NotReading
<1>3. ~corrupted
  BY DEF Init
<1>4. QED
  BY <1>1, <1>2, <1>3 DEF Init, OwnInv, HolderInv, ReadInv

\* Neither a record nor a holder is used after it was freed, if notifications do
\* not run out of memory and no service that is looked up by name is removed
\* (DevSvcManagerGetObject, DevSvcManagerRemoveService).
THEOREM NoUseAfterFreeThm ==
    ASSUME ~OutOfMemory, LookedUp \cap Removable = {}
    PROVE  Spec => []NoUseAfterFree
<1> DEFINE IInv == OwnInv /\ HolderInv /\ ReadInv /\ NoUseAfterFree
<1>1. Init => IInv
  BY HolderReadInit DEF NoUseAfterFree
<1>2. TypeOK /\ IInv /\ [Next]_vars => IInv'
  <2> SUFFICES ASSUME TypeOK, IInv, [Next]_vars PROVE IInv'
    OBVIOUS
  <2>1. OwnInv' /\ HolderInv' /\ ReadInv'
    BY OwnStep, HolderStep, ReadStep
  <2>2. corrupted' = corrupted
    BY HolderStep, ReadStep
  <2>3. QED
    BY <2>1, <2>2 DEF NoUseAfterFree
<1>3. IInv => NoUseAfterFree
  OBVIOUS
<1> HIDE DEF IInv
<1>4. QED
  BY <1>1, <1>2, <1>3, TypeThm, PTL DEF Spec

(***************************************************************************)
(* What a listener was told, and what the table holds.                     *)
(***************************************************************************)
\* Objects are numbered in the order of their publication, and a linked record
\* has an info no newer than its object.
ValueInv ==
    \A s \in Services :
        record[s].value <= version /\ record[s].info <= record[s].value

\* A call about a service makes its object no older.
LEMMA OwnerValue ==
    ASSUME TypeOK, ValueInv, NEW s \in Services, OwnerStep(s)
    PROVE  /\ ValueInv'
           /\ record'[s].linked /\ record[s].linked => record[s].value <= record'[s].value
<1>0. /\ version \in Nat /\ version + 1 \in Nat /\ record \in [Services -> Record]
      /\ \A x \in Services : record[x] \in Record /\ record[x].value \in Nat
                            /\ record[x].info \in Nat
  BY SvcMgrAssumption DEF TypeOK, Record
<1> USE DEF NewVersion
<1>1. \/ version' = version /\ record' = record
      \/ version' = version + 1 /\ record' = record
      \/ version' = version + 1 /\ record' = [record EXCEPT ![s].value = version + 1]
      \/ /\ version' = version + 1
         /\ record' = [record EXCEPT ![s] = [id |-> version + 1, linked |-> TRUE,
                                      value |-> version + 1, info |-> version + 1]]
      \/ version' = version /\ record' = [record EXCEPT ![s].info = Dangling]
      \/ /\ version' = version + 1
         /\ record' = [record EXCEPT ![s].value = version + 1, ![s].info = version + 1]
      \/ version' = version /\ record' = [record EXCEPT ![s].linked = FALSE]
      \/ version' = version /\ record' = [record EXCEPT ![s] = NoRecord]
  BY DEF OwnerStep, DevSvcManagerAddService, AddServiceValue, AddServiceInsert,
     DevSvcManagerUpdateService, UpdateServiceFree, UpdateServiceWrite,
     UpdateServiceNotify, DevSvcManagerRemoveService, RemoveServiceUnlink,
     RemoveServiceFree
<1>2. \A x \in Services \ {s} : record'[x] = record[x]
  BY <1>0, <1>1
<1>3. /\ version' \in Nat /\ version <= version'
      /\ record'[s].value <= version' /\ record'[s].info <= record'[s].value
      /\ record'[s].linked /\ record[s].linked => record[s].value <= record'[s].value
  BY <1>0, <1>1 DEF ValueInv, NoRecord, Dangling, Record
<1>4. \A x \in Services \ {s} : record'[x].value <= version' /\ record'[x].info <= record'[x].value
  BY <1>0, <1>2, <1>3 DEF ValueInv
<1>5. QED
  BY <1>3, <1>4 DEF ValueInv

\* A notification of s that agrees with the table restores ToldIsFound.
LEMMA FoundByNotify ==
    ASSUME TypeOK, ToldIsFound, NEW s \in Services, NEW what \in Nat \cup {Down},
           NotifyServiceStatusLocked(s, what),
           IF record'[s].linked THEN what \in 0..record'[s].value ELSE what = Down,
           \A x \in Services \ {s} : record'[x] = record[x]
    PROVE  ToldIsFound'
<1> SUFFICES ASSUME NEW c \in Clients, NEW x \in Services,
                    holder'[c].listed, ClassOf[x] \in holder'[c].class, x \notin unsure'[c]
             PROVE  Agrees(view[c][x], x)'
  BY DEF ToldIsFound
<1>1. holder'[c] = holder[c]
  BY NotifyFacts
<1>2. CASE x = s
  <2>1. view'[c][s] = what
    BY <1>1, <1>2, NotifyFacts
  <2>2. QED
    BY <1>2, <2>1 DEF Agrees
<1>3. CASE x # s
  <2>1. view'[c][x] = view[c][x] /\ x \notin unsure[c] /\ record'[x] = record[x]
    BY <1>3, NotifyFacts
  <2>2. Agrees(view[c][x], x)
    BY <1>1, <2>1 DEF ToldIsFound
  <2>3. QED
    BY <2>1, <2>2 DEF Agrees
<1>4. QED
  BY <1>2, <1>3

\* A call about a service keeps ToldIsFound.
LEMMA OwnerFound ==
    ASSUME TypeOK, OwnInv, ValueInv, ToldIsFound, NEW s \in Services, OwnerStep(s), TypeOK'
    PROVE  ToldIsFound'
<1>0. /\ version + 1 \in Nat /\ record[s].info \in Nat /\ record[s].value \in Nat
      /\ record \in [Services -> Record] /\ record[s] \in Record
      /\ \A x \in Services : record'[x].value \in Nat
      /\ \A c \in Clients : \A x \in Services : view[c][x] \in Nat \cup {Down}
  BY SvcMgrAssumption DEF TypeOK, Record
<1>a. \A x \in Services \ {s} : record'[x] = record[x]
  BY OwnerFacts
<1>b. ASSUME UNCHANGED <<holder, view, unsure>>, record'[s].linked = record[s].linked
      PROVE  ToldIsFound'
  <2> SUFFICES ASSUME NEW c \in Clients, NEW x \in Services,
                      holder'[c].listed, ClassOf[x] \in holder'[c].class, x \notin unsure'[c]
               PROVE  Agrees(view[c][x], x)'
    BY DEF ToldIsFound
  <2>1. Agrees(view[c][x], x)
    BY <1>b DEF ToldIsFound
  <2>2. CASE x = s
    <3>1. record[x].linked => record[x].value <= record'[x].value
      BY <1>b, <2>2, OwnerValue
    <3>2. Agrees(view[c][x], x)' <=> IF record'[x].linked THEN view[c][x] \in 0..record'[x].value
                                     ELSE view[c][x] = Down
      BY <1>b DEF Agrees
    <3>3. QED
      BY <1>0, <1>b, <2>1, <2>2, <3>1, <3>2 DEF Agrees
  <2>3. CASE x # s
    BY <1>a, <1>b, <2>1, <2>3 DEF Agrees
  <2>4. QED
    BY <2>2, <2>3
<1> USE DEF cliVars, histVars, NewVersion
<1>1. CASE \/ DevSvcManagerAddService(s) \/ AddServiceValue(s) \/ DevSvcManagerUpdateService(s)
           \/ UpdateServiceFree(s) \/ UpdateServiceWrite(s)
           \/ DevSvcManagerRemoveService(s) \/ RemoveServiceFree(s)
  <2>1. /\ UNCHANGED <<holder, view, unsure>>
        /\ \/ record' = record
           \/ record' = [record EXCEPT ![s].value = version + 1]
           \/ record' = [record EXCEPT ![s].info = Dangling]
           \/ record' = [record EXCEPT ![s].value = version + 1, ![s].info = version + 1]
           \/ own[s] = "remFree" /\ record' = [record EXCEPT ![s] = NoRecord]
    BY <1>1 DEF DevSvcManagerAddService, AddServiceValue, DevSvcManagerUpdateService,
       UpdateServiceFree, UpdateServiceWrite, DevSvcManagerRemoveService, RemoveServiceFree
  <2>2. own[s] = "remFree" => ~record[s].linked
    BY DEF OwnInv
  <2>3. record'[s].linked = record[s].linked
    <3>1. record[s].linked \in BOOLEAN /\ ~NoRecord.linked
      BY <1>0 DEF Record, NoRecord
    <3>2. CASE record' = [record EXCEPT ![s] = NoRecord] /\ own[s] = "remFree"
      <4>1. record'[s] = NoRecord
        BY <1>0, <3>2
      <4>2. record[s].linked = FALSE /\ NoRecord.linked = FALSE
        BY <2>2, <3>1, <3>2 DEF NoRecord
      <4>3. QED
        BY <4>1, <4>2
    <3>3. CASE \/ record' = record
               \/ record' = [record EXCEPT ![s].value = version + 1]
               \/ record' = [record EXCEPT ![s].info = Dangling]
               \/ record' = [record EXCEPT ![s].value = version + 1, ![s].info = version + 1]
      BY <1>0, <3>3 DEF Record
    <3>4. QED
      BY <2>1, <3>2, <3>3
  <2>4. QED
    BY <1>b, <2>1, <2>3
<1>2. CASE AddServiceInsert(s)
  <2>1. CASE UNCHANGED <<record, holder, corrupted, histVars>>
    BY <1>b, <2>1
  <2>2. CASE /\ record' = [record EXCEPT ![s] = [id |-> version + 1, linked |-> TRUE,
                                          value |-> version + 1, info |-> version + 1]]
             /\ NotifyServiceStatusLocked(s, version + 1)
    <3>1. record'[s].linked /\ record'[s].value = version + 1
      BY <1>0, <2>2
    <3>2. version + 1 \in 0..(version + 1)
      BY <1>0
    <3>3. QED
      BY <1>0, <1>a, <2>2, <3>1, <3>2, FoundByNotify
  <2>3. QED
    BY <1>2, <2>1, <2>2 DEF AddServiceInsert
<1>3. CASE UpdateServiceNotify(s)
  <2>1. own[s] = "updNotify" /\ record' = record /\ record[s].linked
        /\ NotifyServiceStatusLocked(s, record[s].info)
    BY <1>3 DEF UpdateServiceNotify, OwnInv
  <2>2. record[s].info \in 0..record[s].value
    BY <1>0 DEF ValueInv
  <2>3. QED
    BY <1>0, <1>a, <2>1, <2>2, FoundByNotify
<1>4. CASE RemoveServiceUnlink(s)
  <2>1. /\ NotifyServiceStatusLocked(s, Down)
        /\ record' = [record EXCEPT ![s].linked = FALSE]
    BY <1>4 DEF RemoveServiceUnlink
  <2>2. ~record'[s].linked
    BY <1>0, <2>1 DEF Record
  <2>3. QED
    BY <1>a, <2>1, <2>2, FoundByNotify
<1>5. QED
  BY <1>1, <1>2, <1>3, <1>4 DEF OwnerStep

\* A call of the process behind a file keeps ToldIsFound.
LEMMA ClientFound ==
    ASSUME TypeOK, ValueInv, ToldIsFound, NEW c \in Clients, ClientStep(c)
    PROVE  ToldIsFound'
<1>0. /\ holder \in [Clients -> Holder] /\ DOMAIN view = Clients /\ DOMAIN unsure = Clients
      /\ holder[c] \in Holder
  BY DEF TypeOK, Holder
<1>a. record' = record
  BY OtherSteps DEF ownVars
<1>b. ASSUME UNCHANGED <<view, unsure>>,
             \A d \in Clients : \/ holder'[d] = holder[d]
                                \/ ~holder'[d].listed
      PROVE  ToldIsFound'
  <2> SUFFICES ASSUME NEW d \in Clients, NEW x \in Services,
                      holder'[d].listed, ClassOf[x] \in holder'[d].class, x \notin unsure'[d]
               PROVE  Agrees(view[d][x], x)'
    BY DEF ToldIsFound
  <2>1. Agrees(view[d][x], x)
    BY <1>b DEF ToldIsFound
  <2>2. QED
    BY <1>a, <1>b, <2>1 DEF Agrees
<1> USE DEF cliVars, histVars
<1>1. CASE \E mask \in SUBSET Classes \ {{}} : SvcMgrIoserviceRegSvcStatListener(c, mask)
  <2>1. PICK mask \in SUBSET Classes : SvcMgrIoserviceRegSvcStatListener(c, mask)
    BY <1>1
  <2>2. /\ UNCHANGED <<view, unsure>>
        /\ \/ holder' = holder
           \/ holder' = [holder EXCEPT ![c] = [class |-> mask, held |-> TRUE, listed |-> FALSE]]
    BY <2>1 DEF SvcMgrIoserviceRegSvcStatListener
  <2>3. QED
    BY <1>0, <1>b, <2>2
<1>2. CASE RegisterListenerSetClass(c)
  <2>1. view' = view
    BY <1>2 DEF RegisterListenerSetClass
  <2>2. CASE UNCHANGED <<unsure, holder>>
    BY <1>b, <2>1, <2>2
  <2>3. CASE /\ unsure' = [unsure EXCEPT ![c] = @ \cup
                  {s \in Services : ClassOf[s] \in want[c] \ holder[c].class}]
             /\ holder' = [holder EXCEPT ![c].class = want[c]]
    <3>1. /\ \A d \in Clients \ {c} : holder'[d] = holder[d] /\ unsure'[d] = unsure[d]
          /\ holder'[c].listed = holder[c].listed
          /\ holder'[c].class = want[c]
          /\ unsure'[c] = unsure[c] \cup
                  {s \in Services : ClassOf[s] \in want[c] \ holder[c].class}
      BY <1>0, <2>3 DEF Holder
    <3> SUFFICES ASSUME NEW d \in Clients, NEW x \in Services,
                        holder'[d].listed, ClassOf[x] \in holder'[d].class, x \notin unsure'[d]
                 PROVE  Agrees(view[d][x], x)'
      BY DEF ToldIsFound
    <3>2. ClassOf[x] \in holder[d].class /\ x \notin unsure[d] /\ holder[d].listed
      BY <3>1
    <3>3. Agrees(view[d][x], x)
      BY <3>2 DEF ToldIsFound
    <3>4. QED
      BY <1>a, <2>1, <3>3 DEF Agrees
  <2>4. QED
    BY <1>2, <2>2, <2>3 DEF RegisterListenerSetClass
<1>3. CASE DevSvcManagerRegsterServListener(c)
  <2>1. PICK lost \in SUBSET ToldOnRegister(c) :
          LET sent == IF c \in listening THEN ToldOnRegister(c) \ lost ELSE {} IN
          /\ view' = [view EXCEPT ![c] = [s \in Services |->
                                            IF s \in sent THEN record[s].info ELSE Down]]
          /\ unsure' = [unsure EXCEPT ![c] =
                          IF c \in listening THEN lost ELSE ToldOnRegister(c)]
    BY <1>3 DEF DevSvcManagerRegsterServListener
  <2>2. holder' = [holder EXCEPT ![c].listed = TRUE]
    BY <1>3 DEF DevSvcManagerRegsterServListener
  <2> SUFFICES ASSUME NEW d \in Clients, NEW x \in Services,
                      holder'[d].listed, ClassOf[x] \in holder'[d].class, x \notin unsure'[d]
               PROVE  Agrees(view[d][x], x)'
    BY DEF ToldIsFound
  <2>3. CASE d = c
    <3>1. x \in ToldOnRegister(c) <=> record[x].linked
      BY <1>0, <2>2, <2>3 DEF ToldOnRegister, Found, Holder
    <3>2. record[x].linked => record[x].info \in 0..record[x].value
      BY DEF ValueInv, TypeOK
    <3>3. view'[c][x] = IF c \in listening /\ x \in ToldOnRegister(c) \ lost
                        THEN record[x].info ELSE Down
      BY <1>0, <2>1
    <3>4. record[x].linked => c \in listening /\ x \notin lost
      BY <1>0, <2>1, <2>3, <3>1
    <3>5. view'[c][x] = IF record[x].linked THEN record[x].info ELSE Down
      BY <3>1, <3>3, <3>4
    <3>6. QED
      BY <1>a, <2>3, <3>2, <3>5 DEF Agrees
  <2>4. CASE d # c
    <3>1. holder'[d] = holder[d] /\ view'[d] = view[d] /\ unsure'[d] = unsure[d]
      BY <1>0, <2>1, <2>2, <2>4
    <3>2. Agrees(view[d][x], x)
      BY <3>1 DEF ToldIsFound
    <3>3. QED
      BY <1>a, <3>1, <3>2 DEF Agrees
  <2>5. QED
    BY <2>3, <2>4
<1>4. CASE \/ HdfDeviceRegisterEventListener(c) \/ SvcMgrIoserviceUnRegSvcStatListener(c)
           \/ DeviceSvcMgrRelease(c) \/ DevSvcManagerExtUnRegisterListener(c)
  <2>1. UNCHANGED <<view, unsure, holder>>
    BY <1>4 DEF HdfDeviceRegisterEventListener, SvcMgrIoserviceUnRegSvcStatListener,
       DeviceSvcMgrRelease, DevSvcManagerExtUnRegisterListener
  <2>2. QED
    BY <1>b, <2>1
<1>5. CASE DevSvcManagerUnregsterServListener(c)
  <2>1. /\ UNCHANGED <<view, unsure>>
        /\ holder' = holder \/ holder' = [holder EXCEPT ![c].listed = FALSE]
    BY <1>5 DEF DevSvcManagerUnregsterServListener, UnlinkHolder
  <2>2. QED
    BY <1>0, <1>b, <2>1 DEF Holder
<1>6. CASE ServStatListenerHolderRelease(c)
  <2>1. UNCHANGED <<view, unsure>> /\ holder' = [holder EXCEPT ![c].held = FALSE]
    BY <1>6 DEF ServStatListenerHolderRelease
  <2>2. \A d \in Clients : holder'[d].listed = holder[d].listed
                           /\ holder'[d].class = holder[d].class
    BY <1>0, <2>1 DEF Holder
  <2>3. QED
    BY <1>a, <2>1, <2>2 DEF ToldIsFound, Agrees
<1>7. QED
  BY <1>1, <1>2, <1>3, <1>4, <1>5, <1>6 DEF ClientStep

\* A listener can act on what it was told at every moment: a service it was told of
\* is in the table with an object no older than the info, and one it was told has
\* stopped is not, unless its event was lost or came before it listened
\* (ToldIsFound; DevSvcManagerUpdateService and DevSvcManagerRemoveService).
THEOREM ToldIsFoundThm == Spec => []ToldIsFound
<1> DEFINE IInv == OwnInv /\ ValueInv /\ ToldIsFound
<1>1. Init => IInv
  <2> SUFFICES ASSUME Init PROVE OwnInv /\ ValueInv /\ ToldIsFound
    OBVIOUS
  <2>1. \A c \in Clients : ~holder[c].listed
    BY DEF Init, NoHolder
  <2>2. QED
    BY <2>1 DEF Init, OwnInv, ValueInv, ToldIsFound, NoRecord, Dangling
<1>2. TypeOK /\ TypeOK' /\ IInv /\ [Next]_vars => IInv'
  <2> SUFFICES ASSUME TypeOK, TypeOK', IInv, [Next]_vars PROVE IInv'
    OBVIOUS
  <2>1. OwnInv'
    BY OwnStep
  <2>2. CASE \E s \in Services : OwnerStep(s)
    BY <2>1, <2>2, OwnerValue, OwnerFound
  <2>3. CASE \E c \in Clients : ClientStep(c)
    <3>1. ValueInv'
      BY <2>3, OtherSteps DEF ownVars, ValueInv
    <3>2. QED
      BY <2>1, <2>3, <3>1, ClientFound
  <2>4. CASE UNCHANGED <<ownVars, cliVars, histVars>>
    BY <2>1, <2>4 DEF ValueInv, ToldIsFound, Agrees, ownVars, cliVars, histVars
  <2>5. QED
    BY <2>2, <2>3, <2>4, OtherSteps DEF Next, vars
<1>3. IInv => ToldIsFound
  OBVIOUS
<1> HIDE DEF IInv
<1>4. QED
  BY <1>1, <1>2, <1>3, TypeThm, PTL DEF Spec
=============================================================================
