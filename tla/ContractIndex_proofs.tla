------------------------ MODULE ContractIndex_proofs ------------------------
(***************************************************************************)
(* Proofs about the contract index: no two files share a name, a gateway   *)
(* that serves knows every contract it has stored, and names pass from     *)
(* contract to contract as NameRegistry says, for any number of contracts, *)
(* clients, crashes and failed file operations.                            *)
(***************************************************************************)
EXTENDS ContractIndex, TLAPS

-----------------------------------------------------------------------------
(* The inductive invariant.  NamesUnique is not inductive alone: a file is *)
(* written long after its name was checked, and a start that is half way   *)
(* has registered only the files that it has read.                         *)

(* On disk, a has the name n, in a complete file or one of the earlier     *)
(* format.                                                                 *)
InLegacy(a, n) == a \in legacy /\ LegacyInfo[a].name = n
OnDisk(a, n) == Holds(a, n) \/ InLegacy(a, n)

DiskUnique == \A n \in Name, a, b \in Addr : OnDisk(a, n) /\ OnDisk(b, n) => a = b

(* The registration of a name agrees with the directory.                   *)
RegistrationsRight ==
  \A n \in Name, b \in Addr : registrations[n] # NoAddr /\ OnDisk(b, n) => registrations[n] = b

(* A contract that is being stored has registered its name already.        *)
JobsRegistered ==
  \A w \in Writer : job[w] # Idle =>
    /\ contractIndex[job[w].addr] # NoInfo
    /\ job[w].info.name \in Name => registrations[job[w].info.name] = job[w].addr

(* What a start has read, or the gateway stored since, is registered ...   *)
FilesRegistered ==
  phase # "down" => \A a \in Addr : <<a, "instance">> \notin listing =>
    /\ instances[a] \in Info => contractIndex[a] # NoInfo
    /\ \A n \in Name : Holds(a, n) => registrations[n] = a
LegacyRegistered ==
  phase # "down" => \A a \in Addr : <<a, "legacy">> \notin listing =>
    \A n \in Name : InLegacy(a, n) => registrations[n] = a

(* ... and what is registered is indexed.                                  *)
RegisteredIndexed ==
  \A n \in Name : registrations[n] # NoAddr => contractIndex[registrations[n]] # NoInfo

PhaseRight ==
  /\ phase = "serving" => listing = {}
  /\ phase = "down" => /\ \A n \in Name : registrations[n] = NoAddr
                       /\ \A w \in Writer : job[w] = Idle

(* A file of the earlier format that is still to be read is there; the one *)
(* under migration was read.                                               *)
ListingRight ==
  /\ \A a \in Addr : <<a, "legacy">> \in listing => a \in legacy
  /\ job[Main] # Idle => <<job[Main].addr, "legacy">> \notin listing

IndexInv ==
  /\ IndexTypeOK /\ ListingRight /\ DiskUnique /\ RegistrationsRight /\ JobsRegistered
  /\ FilesRegistered /\ LegacyRegistered /\ RegisteredIndexed /\ PhaseRight

-----------------------------------------------------------------------------
(* The state has its types (ContractIndex, from IndexInit on).             *)
LEMMA TypeInit == IndexInit => IndexTypeOK
BY IndexAssumption DEF IndexInit, IndexTypeOK, Info, Legacy, Entry

LEMMA JobType ==
  ASSUME IndexTypeOK, NEW w \in Writer, job[w] # Idle
  PROVE  /\ job[w] \in Job /\ job[w].addr \in Addr /\ job[w].info \in Info
         /\ job[w].step \in {"open", "write", "stored", "failed"}
<1>1. job[w] \in Job  BY DEF IndexTypeOK
<1>2. QED  BY <1>1 DEF Job

LEMMA StoreType ==
  ASSUME IndexTypeOK, NEW w \in Writer, NEW a \in Addr, NEW info \in Info,
         StoreContractInfo(w, a, info)
  PROVE  /\ contractIndex' \in [Addr -> Info \cup {NoInfo}]
         /\ registrations' \in [Name -> Addr \cup {NoAddr}]
         /\ job' \in [Writer -> Job \cup {Idle}]
<1>1. [step |-> "open", addr |-> a, info |-> info] \in Job  BY DEF Job
<1>2. QED  BY <1>1 DEF StoreContractInfo, AddToContractIndex, IndexTypeOK

LEMMA StepType ==
  ASSUME IndexTypeOK, NEW w \in Writer, job[w] # Idle,
         NEW s \in {"open", "write", "stored", "failed"}, Step(w, s)
  PROVE  job' \in [Writer -> Job \cup {Idle}]
<1>1. job[w] \in Job  BY DEF IndexTypeOK
<1>2. [job[w] EXCEPT !.step = s] \in Job  BY <1>1 DEF Job
<1>3. QED  BY <1>2 DEF Step, IndexTypeOK

LEMMA NotIdle ==
  ASSUME NEW w \in Writer, job[w].step \in {"open", "write", "stored", "failed"}
  PROVE  job[w] # Idle
BY DEF Idle

(* Every step keeps the types.                                             *)
LEMMA TypeNext == IndexTypeOK /\ [IndexNext]_indexVars => IndexTypeOK'
<1> SUFFICES ASSUME IndexTypeOK, [IndexNext]_indexVars  PROVE IndexTypeOK'
  OBVIOUS
<1> USE IndexAssumption
<1>1. CASE BuildIndex
  <2>1. listing' \subseteq Entry  BY <1>1 DEF BuildIndex
  <2>2. QED  BY <1>1, <2>1 DEF BuildIndex, IndexTypeOK, diskVars, mapVars
<1>2. CASE RemoveLegacy
  <2>1. job' \in [Writer -> Job \cup {Idle}]  BY <1>2 DEF RemoveLegacy, IndexTypeOK
  <2>2. legacy' = legacy \/ legacy' = legacy \ {job[Main].addr}
    BY <1>2 DEF RemoveLegacy
  <2>3. UNCHANGED failures \/ Fail  BY <1>2 DEF RemoveLegacy
  <2>4. failures' \in Nat  BY <2>3 DEF Fail, IndexTypeOK
  <2>5. QED  BY <1>2, <2>1, <2>2, <2>4 DEF RemoveLegacy, IndexTypeOK, mapVars
<1>3. CASE Serve
  BY <1>3 DEF Serve, IndexTypeOK, diskVars, mapVars
<1>4. ASSUME NEW a \in Addr, AddFileToContractIndex(a)  PROVE IndexTypeOK'
  <2>1. /\ contractIndex' \in [Addr -> Info \cup {NoInfo}]
        /\ registrations' \in [Name -> Addr \cup {NoAddr}]
    BY <1>4 DEF AddFileToContractIndex, AddToContractIndex, IndexTypeOK, mapVars
  <2>2. QED  BY <1>4, <2>1 DEF AddFileToContractIndex, IndexTypeOK, diskVars
<1>5. ASSUME NEW a \in Addr, MigrateLegacyContract(a)  PROVE IndexTypeOK'
  <2>1. LegacyInfo[a] \in Info
    BY <1>5 DEF MigrateLegacyContract, IsNext, IndexTypeOK, Entry, Legacy
  <2>2. Main \in Writer  BY DEF Writer
  <2>3. /\ contractIndex' \in [Addr -> Info \cup {NoInfo}]
        /\ registrations' \in [Name -> Addr \cup {NoAddr}]
        /\ job' \in [Writer -> Job \cup {Idle}]
    <3>1. CASE NameAvailable(LegacyInfo[a].name)
      BY <1>5, <2>1, <2>2, <3>1, StoreType DEF MigrateLegacyContract
    <3>2. CASE ~NameAvailable(LegacyInfo[a].name)
      BY <1>5, <3>2 DEF MigrateLegacyContract, mapVars, IndexTypeOK
    <3>3. QED  BY <3>1, <3>2
  <2>4. QED  BY <1>5, <2>3 DEF MigrateLegacyContract, IndexTypeOK, diskVars
<1>6. CASE CrashIndex
  BY <1>6 DEF CrashIndex, IndexTypeOK, diskVars
<1>7. ASSUME NEW w \in Writer, OpenFile(w)  PROVE IndexTypeOK'
  <2>1. job[w] # Idle  BY <1>7, NotIdle DEF OpenFile
  <2>2. job' \in [Writer -> Job \cup {Idle}]  BY <1>7, <2>1, StepType DEF OpenFile
  <2>3. QED  BY <1>7, <2>2 DEF OpenFile, IndexTypeOK, mapVars
<1>8. ASSUME NEW w \in Writer, WriteFile(w)  PROVE IndexTypeOK'
  <2>1. job[w] # Idle  BY <1>8, NotIdle DEF WriteFile
  <2>2. job' \in [Writer -> Job \cup {Idle}]  BY <1>8, <2>1, StepType DEF WriteFile
  <2>3. job[w].info \in Info  BY <2>1, JobType
  <2>4. QED  BY <1>8, <2>2, <2>3 DEF WriteFile, IndexTypeOK, mapVars
<1>9. ASSUME NEW w \in Writer, WriteFileFails(w)  PROVE IndexTypeOK'
  <2>1. job[w] # Idle  BY <1>9, NotIdle DEF WriteFileFails
  <2>2. job' \in [Writer -> Job \cup {Idle}]  BY <1>9, <2>1, StepType DEF WriteFileFails
  <2>3. QED  BY <1>9, <2>2 DEF WriteFileFails, Fail, IndexTypeOK, diskVars, mapVars
<1>10. ASSUME NEW w \in Writer, Return(w)  PROVE IndexTypeOK'
  BY <1>10 DEF Return, IndexTypeOK, diskVars, mapVars
<1>11. ASSUME NEW w \in Client, NEW a \in Addr, NEW info \in Info,
              StoreNewContractInfo(w, a, info)
       PROVE  IndexTypeOK'
  <2>1. w \in Writer  BY DEF Writer
  <2>2. /\ contractIndex' \in [Addr -> Info \cup {NoInfo}]
        /\ registrations' \in [Name -> Addr \cup {NoAddr}]
        /\ job' \in [Writer -> Job \cup {Idle}]
    BY <1>11, <2>1, StoreType DEF StoreNewContractInfo
  <2>3. QED  BY <1>11, <2>2 DEF StoreNewContractInfo, IndexTypeOK, diskVars
<1>12. ASSUME NEW i \in Abi, AddToABIIndex(i)  PROVE IndexTypeOK'
  BY <1>12 DEF AddToABIIndex, IndexTypeOK, diskVars, mapVars
<1>13. ASSUME NEW i \in Abi, WriteAbiInfo(i)  PROVE IndexTypeOK'
  BY <1>13 DEF WriteAbiInfo, Fail, IndexTypeOK, mapVars
<1>14. CASE UNCHANGED indexVars
  BY <1>14 DEF indexVars, diskVars, mapVars, IndexTypeOK
<1>15. QED
  BY <1>1, <1>2, <1>3, <1>4, <1>5, <1>6, <1>7, <1>8, <1>9, <1>10, <1>11, <1>12, <1>13,
     <1>14 DEF IndexNext, StartUp, StoreFile

-----------------------------------------------------------------------------
(* The invariant holds at first, and every step keeps it.                  *)
LEMMA InvInit == IndexInit => IndexInv
<1> SUFFICES ASSUME IndexInit  PROVE IndexInv
  OBVIOUS
<1> USE IndexAssumption
<1>1. IndexTypeOK  BY TypeInit
<1>2. \A n \in Name, a \in Addr : ~Holds(a, n)  BY DEF IndexInit, Holds
<1>3. DiskUnique
  BY <1>2 DEF IndexInit, DiskUnique, OnDisk, InLegacy, Legacy
<1>4. RegistrationsRight /\ RegisteredIndexed  BY DEF IndexInit, RegistrationsRight,
  RegisteredIndexed
<1>5. JobsRegistered /\ PhaseRight  BY DEF IndexInit, JobsRegistered, PhaseRight
<1>6. FilesRegistered /\ LegacyRegistered  BY DEF IndexInit, FilesRegistered,
  LegacyRegistered
<1>7. ListingRight
  BY DEF IndexInit, ListingRight, Writer
<1>8. QED  BY <1>1, <1>3, <1>4, <1>5, <1>6, <1>7 DEF IndexInv

(* Only the migration of a file removes it, when it was read already.      *)
LEMMA ListingNext ==
  IndexTypeOK /\ ListingRight /\ PhaseRight /\ [IndexNext]_indexVars => ListingRight'
<1> SUFFICES ASSUME IndexTypeOK, ListingRight, PhaseRight, [IndexNext]_indexVars
             PROVE  ListingRight'
  OBVIOUS
<1> USE IndexAssumption
<1>0. Main \in Writer /\ Main \notin Client  BY DEF Writer
<1>1. CASE BuildIndex
  BY <1>0, <1>1 DEF BuildIndex, ListingRight, PhaseRight, diskVars
<1>2. CASE RemoveLegacy
  <2>1. job[Main] # Idle  BY <1>2, <1>0, NotIdle DEF RemoveLegacy, Done
  <2>2. job'[Main] = Idle  BY <1>0, <1>2 DEF RemoveLegacy, IndexTypeOK
  <2>3. \A a \in Addr : a \in legacy /\ a # job[Main].addr => a \in legacy'
    BY <1>2 DEF RemoveLegacy
  <2>4. QED  BY <1>2, <2>1, <2>2, <2>3 DEF RemoveLegacy, ListingRight
<1>3. CASE Serve
  BY <1>3 DEF Serve, ListingRight, diskVars
<1>4. ASSUME NEW a \in Addr, AddFileToContractIndex(a)  PROVE ListingRight'
  BY <1>4 DEF AddFileToContractIndex, ListingRight, diskVars
<1>5. ASSUME NEW a \in Addr, MigrateLegacyContract(a)  PROVE ListingRight'
  <2>1. job'[Main] = job[Main] \/ job'[Main].addr = a
    BY <1>0, <1>5 DEF MigrateLegacyContract, StoreContractInfo, IndexTypeOK
  <2>2. /\ listing' = listing \ {<<a, "legacy">>} /\ UNCHANGED legacy
        /\ job[Main] = Idle
    BY <1>5 DEF MigrateLegacyContract, IsNext, diskVars
  <2>3. QED  BY <2>1, <2>2 DEF ListingRight
<1>6. CASE CrashIndex
  BY <1>0, <1>6 DEF CrashIndex, ListingRight
<1>7. ASSUME NEW w \in Writer, StoreFile(w) \/ Return(w)  PROVE ListingRight'
  <2>1. job[w] # Idle
    BY <1>7, NotIdle DEF StoreFile, OpenFile, WriteFile, WriteFileFails, Return, Done
  <2>2. job'[Main] = Idle \/ (job[Main] # Idle /\ job'[Main].addr = job[Main].addr)
    <3>1. CASE Return(w)  BY <1>0, <3>1 DEF Return, IndexTypeOK
    <3>2. CASE StoreFile(w)
      <4>1. PICK t \in {"write", "stored", "failed"} : Step(w, t)
        BY <3>2 DEF StoreFile, OpenFile, WriteFile, WriteFileFails
      <4>2. CASE w = Main
        BY <1>0, <2>1, <4>1, <4>2, JobType DEF Step, IndexTypeOK, Job
      <4>3. CASE w # Main  BY <1>0, <4>1, <4>3 DEF Step, IndexTypeOK
      <4>4. QED  BY <4>2, <4>3
    <3>3. QED  BY <1>7, <3>1, <3>2
  <2>3. UNCHANGED <<legacy, listing>>
    BY <1>7 DEF StoreFile, OpenFile, WriteFile, WriteFileFails, Return, diskVars
  <2>4. QED  BY <2>2, <2>3 DEF ListingRight
<1>8. ASSUME NEW w \in Client, NEW a \in Addr, NEW info \in Info,
             StoreNewContractInfo(w, a, info)
      PROVE  ListingRight'
  <2>1. w # Main /\ w \in Writer  BY <1>0 DEF Writer
  <2>2. UNCHANGED <<legacy, listing>> /\ job'[Main] = job[Main]
    BY <1>0, <1>8, <2>1 DEF StoreNewContractInfo, StoreContractInfo, diskVars, IndexTypeOK
  <2>3. QED  BY <2>2 DEF ListingRight
<1>9. ASSUME NEW i \in Abi, AddToABIIndex(i) \/ WriteAbiInfo(i)  PROVE ListingRight'
  BY <1>9 DEF AddToABIIndex, WriteAbiInfo, ListingRight, diskVars
<1>10. CASE UNCHANGED indexVars
  BY <1>10 DEF indexVars, diskVars, ListingRight
<1>11. QED
  BY <1>1, <1>2, <1>3, <1>4, <1>5, <1>6, <1>7, <1>8, <1>9, <1>10
     DEF IndexNext, StartUp

(* What a step that stores nothing must leave to keep the invariant: the   *)
(* maps as they were, no name on disk that was not there, and no file that *)
(* was unread but is not any more.                                         *)
LEMMA Quiet ==
  ASSUME IndexInv, IndexTypeOK', ListingRight', UNCHANGED mapVars,
         \A a \in Addr : instances'[a] \in Info => instances'[a] = instances[a],
         legacy' \subseteq legacy,
         \A w \in Writer : \/ job'[w] = Idle
                           \/ /\ job[w] # Idle
                              /\ job'[w].addr = job[w].addr /\ job'[w].info = job[w].info,
         phase' # "down",
         \/ phase # "down" /\ listing' = listing
         \/ \A a \in Addr : /\ instances'[a] \in Info => <<a, "instance">> \in listing'
                            /\ a \in legacy' => <<a, "legacy">> \in listing',
         phase' = "serving" => listing' = {}
  PROVE  IndexInv'
<1>1. \A a \in Addr, n \in Name : /\ Holds(a, n)' => Holds(a, n)
                                  /\ InLegacy(a, n)' => InLegacy(a, n)
  BY DEF Holds, InLegacy
<1>2. DiskUnique'  BY <1>1 DEF IndexInv, DiskUnique, OnDisk
<1>3. RegistrationsRight'  BY <1>1 DEF IndexInv, RegistrationsRight, OnDisk, mapVars
<1>4. JobsRegistered'  BY DEF IndexInv, JobsRegistered, mapVars
<1>5. FilesRegistered'
  BY <1>1 DEF IndexInv, FilesRegistered, mapVars, Holds
<1>6. LegacyRegistered'  BY <1>1 DEF IndexInv, LegacyRegistered, mapVars, InLegacy
<1>7. RegisteredIndexed'  BY DEF IndexInv, RegisteredIndexed, mapVars
<1>8. QED  BY <1>2, <1>3, <1>4, <1>5, <1>6, <1>7 DEF IndexInv, PhaseRight

(* Adding a contract whose name is available keeps the maps right when     *)
(* nothing else on disk has the name.                                      *)
LEMMA Added ==
  ASSUME IndexInv, NEW a \in Addr, NEW info \in Info, AddToContractIndex(a, info),
         UNCHANGED <<instances, legacy>>,
         info.name \in Name => \A b \in Addr : OnDisk(b, info.name) => b = a
  PROVE  /\ DiskUnique' /\ RegistrationsRight' /\ RegisteredIndexed'
         /\ contractIndex'[a] # NoInfo
         /\ info.name \in Name => registrations'[info.name] = a
         /\ \A n \in Name : registrations[n] # NoAddr => registrations'[n] = registrations[n]
         /\ \A b \in Addr : contractIndex[b] # NoInfo => contractIndex'[b] # NoInfo
<1> USE IndexAssumption
<1>1. \A c \in Addr, n \in Name : OnDisk(c, n)' <=> OnDisk(c, n)
  BY DEF OnDisk, Holds, InLegacy
<1>2. NoInfo # info  OBVIOUS
<1>3. contractIndex' = [contractIndex EXCEPT ![a] = info]  BY DEF AddToContractIndex
<1>4. registrations' = [n \in Name |-> IF n = info.name THEN a ELSE registrations[n]]
  BY DEF AddToContractIndex
<1>5. contractIndex \in [Addr -> Info \cup {NoInfo}]  BY DEF IndexInv, IndexTypeOK
<1>6. contractIndex'[a] # NoInfo  BY <1>2, <1>3, <1>5
<1>7. \A b \in Addr : contractIndex[b] # NoInfo => contractIndex'[b] # NoInfo
  BY <1>2, <1>3, <1>5
<1>8. info.name \in Name => registrations[info.name] = NoAddr
  BY DEF AddToContractIndex, NameAvailable
<1>9. \A n \in Name : registrations[n] # NoAddr => registrations'[n] = registrations[n]
  BY <1>4, <1>8
<1>10. DiskUnique'  BY <1>1 DEF IndexInv, DiskUnique
<1>11. RegistrationsRight'  BY <1>1, <1>4 DEF IndexInv, RegistrationsRight
<1>12. RegisteredIndexed'
  <2> SUFFICES ASSUME NEW n \in Name, registrations'[n] # NoAddr
               PROVE  contractIndex'[registrations'[n]] # NoInfo
    BY DEF RegisteredIndexed
  <2>1. CASE n = info.name  BY <2>1, <1>4, <1>6
  <2>2. CASE n # info.name
    <3>1. registrations'[n] = registrations[n]  BY <2>2, <1>4
    <3>2. registrations[n] \in Addr  BY <3>1 DEF IndexInv, IndexTypeOK
    <3>3. contractIndex[registrations[n]] # NoInfo
      BY <3>1 DEF IndexInv, RegisteredIndexed
    <3>4. QED  BY <3>1, <3>2, <3>3, <1>7
  <2>3. QED  BY <2>1, <2>2
<1>13. QED  BY <1>4, <1>6, <1>7, <1>9, <1>10, <1>11, <1>12

LEMMA Same ==
  ASSUME IndexInv, IndexTypeOK', ListingRight',
         UNCHANGED <<instances, legacy, mapVars, phase, listing, job>>
  PROVE  IndexInv'
BY DEF IndexInv, mapVars, DiskUnique, RegistrationsRight, JobsRegistered, FilesRegistered,
   LegacyRegistered, RegisteredIndexed, PhaseRight, OnDisk, InLegacy, Holds

(* Storing a contract in the maps, by a client or by a migration.          *)
LEMMA Stored ==
  ASSUME IndexInv, IndexTypeOK', ListingRight', NEW w \in Writer, NEW a \in Addr, NEW info \in Info,
         StoreContractInfo(w, a, info), phase # "down",
         UNCHANGED <<instances, legacy, phase>>,
         info.name \in Name => \A b \in Addr : OnDisk(b, info.name) => b = a,
         listing' \subseteq listing,
         \A b \in Addr : <<b, "instance">> \in listing => <<b, "instance">> \in listing',
         \A b \in Addr : \/ <<b, "legacy">> \in listing => <<b, "legacy">> \in listing'
                         \/ b = a /\ info = LegacyInfo[a]
  PROVE  IndexInv'
<1>1. AddToContractIndex(a, info)  BY DEF StoreContractInfo
<1>2. job' = [job EXCEPT ![w] = [step |-> "open", addr |-> a, info |-> info]]
  BY DEF StoreContractInfo
<1>3. /\ DiskUnique' /\ RegistrationsRight' /\ RegisteredIndexed'
      /\ contractIndex'[a] # NoInfo
      /\ info.name \in Name => registrations'[info.name] = a
      /\ \A n \in Name : registrations[n] # NoAddr => registrations'[n] = registrations[n]
      /\ \A b \in Addr : contractIndex[b] # NoInfo => contractIndex'[b] # NoInfo
  BY <1>1, Added
<1>4. NoAddr \notin Addr  BY IndexAssumption
<1>5. IndexTypeOK  BY DEF IndexInv
<1>6. \A b \in Addr, n \in Name : /\ Holds(b, n)' <=> Holds(b, n)
                                  /\ InLegacy(b, n)' <=> InLegacy(b, n)
  BY DEF Holds, InLegacy
<1>7. JobsRegistered'
  <2> SUFFICES ASSUME NEW v \in Writer, job'[v] # Idle
               PROVE  /\ contractIndex'[job'[v].addr] # NoInfo
                      /\ job'[v].info.name \in Name =>
                           registrations'[job'[v].info.name] = job'[v].addr
    BY DEF JobsRegistered
  <2>1. CASE v = w
    <3>1. job'[v] = [step |-> "open", addr |-> a, info |-> info]
      BY <1>2, <1>5, <2>1 DEF IndexTypeOK
    <3>2. job'[v].addr = a /\ job'[v].info = info  BY <3>1
    <3>3. QED  BY <1>3, <3>2
  <2>2. CASE v # w
    <3>1. job'[v] = job[v]  BY <1>2, <1>5, <2>2 DEF IndexTypeOK
    <3>2. job[v].addr \in Addr  BY <1>5, <3>1, JobType
    <3>3. QED  BY <1>3, <1>4, <3>1, <3>2 DEF IndexInv, JobsRegistered
  <2>3. QED  BY <2>1, <2>2
<1>8. FilesRegistered'
  <2> SUFFICES ASSUME NEW b \in Addr, <<b, "instance">> \notin listing'
               PROVE  /\ instances[b] \in Info => contractIndex'[b] # NoInfo
                      /\ \A n \in Name : Holds(b, n) => registrations'[n] = b
    BY <1>6 DEF FilesRegistered
  <2>1. <<b, "instance">> \notin listing  OBVIOUS
  <2>2. QED  BY <1>3, <1>4, <2>1 DEF IndexInv, FilesRegistered
<1>9. LegacyRegistered'
  <2> SUFFICES ASSUME NEW b \in Addr, <<b, "legacy">> \notin listing',
                      NEW n \in Name, InLegacy(b, n)
               PROVE  registrations'[n] = b
    BY <1>6 DEF LegacyRegistered
  <2>1. CASE <<b, "legacy">> \notin listing
    BY <1>3, <1>4, <2>1 DEF IndexInv, LegacyRegistered
  <2>2. CASE b = a /\ info = LegacyInfo[a]
    BY <1>3, <2>2 DEF InLegacy
  <2>3. QED  BY <2>1, <2>2
<1>10. PhaseRight'  BY DEF IndexInv, PhaseRight
<1>11. QED  BY <1>3, <1>7, <1>8, <1>9, <1>10 DEF IndexInv

(* Every step keeps the invariant.                                          *)
LEMMA InvNext == IndexInv /\ [IndexNext]_indexVars => IndexInv'
<1> SUFFICES ASSUME IndexInv, [IndexNext]_indexVars  PROVE IndexInv'
  OBVIOUS
<1> USE IndexAssumption
<1>0. IndexTypeOK /\ IndexTypeOK' /\ ListingRight'  BY TypeNext, ListingNext DEF IndexInv
<1>1. CASE BuildIndex
  <2>1. \A a \in Addr : /\ instances[a] \in Info => <<a, "instance">> \in listing'
                        /\ a \in legacy => <<a, "legacy">> \in listing'
    BY <1>0, <1>1 DEF BuildIndex, Entry, IndexTypeOK
  <2>2. QED  BY <1>0, <1>1, <2>1, Quiet DEF BuildIndex, diskVars
<1>2. CASE RemoveLegacy
  <2>1. job[Main] # Idle /\ Main \in Writer
    BY <1>2, NotIdle DEF RemoveLegacy, Done, Writer
  <2>2. phase # "down"  BY <2>1 DEF IndexInv, PhaseRight
  <2>3. legacy' \subseteq legacy  BY <1>2 DEF RemoveLegacy
  <2>4. \A w \in Writer : job'[w] = Idle \/ job'[w] = job[w]
    BY <1>0, <1>2 DEF RemoveLegacy, IndexTypeOK
  <2>5. QED
    BY <1>0, <1>2, <2>2, <2>3, <2>4, Quiet DEF RemoveLegacy, IndexInv, PhaseRight
<1>3. CASE Serve
  BY <1>0, <1>3, Quiet DEF Serve, diskVars
<1>4. ASSUME NEW a \in Addr, AddFileToContractIndex(a)  PROVE IndexInv'
  <2> DEFINE e == <<a, "instance">>
  <2>1. /\ e \in listing /\ listing' = listing \ {e} /\ phase = "building" /\ phase' = phase
        /\ UNCHANGED <<instances, legacy, job>>
    BY <1>4 DEF AddFileToContractIndex, IsNext, diskVars
  <2>2. \A b \in Addr, n \in Name : /\ Holds(b, n)' <=> Holds(b, n)
                                    /\ InLegacy(b, n)' <=> InLegacy(b, n)
    BY <2>1 DEF Holds, InLegacy
  <2>3. CASE instances[a] \in Info /\ NameAvailable(instances[a].name)
    <3>1. AddToContractIndex(a, instances[a])
      BY <1>4, <2>3 DEF AddFileToContractIndex
    <3>2. instances[a].name \in Name => \A b \in Addr : OnDisk(b, instances[a].name) => b = a
      BY <2>3 DEF IndexInv, DiskUnique, OnDisk, Holds
    <3>3. /\ DiskUnique' /\ RegistrationsRight' /\ RegisteredIndexed'
          /\ contractIndex'[a] # NoInfo
          /\ instances[a].name \in Name => registrations'[instances[a].name] = a
          /\ \A n \in Name : registrations[n] # NoAddr => registrations'[n] = registrations[n]
          /\ \A b \in Addr : contractIndex[b] # NoInfo => contractIndex'[b] # NoInfo
      BY <2>1, <2>3, <3>1, <3>2, Added
    <3>4. JobsRegistered'
      <4> SUFFICES ASSUME NEW w \in Writer, job[w] # Idle
                   PROVE  /\ contractIndex'[job[w].addr] # NoInfo
                          /\ job[w].info.name \in Name =>
                               registrations'[job[w].info.name] = job[w].addr
        BY <2>1 DEF JobsRegistered
      <4>1. job[w].addr \in Addr  BY <1>0, JobType
      <4>2. QED  BY <3>3, <4>1 DEF IndexInv, JobsRegistered
    <3>5. FilesRegistered'
      <4> SUFFICES ASSUME NEW b \in Addr, <<b, "instance">> \notin listing'
                   PROVE  /\ instances[b] \in Info => contractIndex'[b] # NoInfo
                          /\ \A n \in Name : Holds(b, n) => registrations'[n] = b
        BY <2>1, <2>2 DEF FilesRegistered
      <4>1. CASE b = a  BY <3>3, <4>1 DEF Holds
      <4>2. CASE b # a
        <5>1. <<b, "instance">> \notin listing  BY <2>1, <4>2
        <5>2. QED  BY <2>1, <3>3, <5>1 DEF IndexInv, FilesRegistered
      <4>3. QED  BY <4>1, <4>2
    <3>6. LegacyRegistered'
      <4> SUFFICES ASSUME NEW b \in Addr, <<b, "legacy">> \notin listing',
                          NEW n \in Name, InLegacy(b, n)
                   PROVE  registrations'[n] = b
        BY <2>1, <2>2 DEF LegacyRegistered
      <4>1. <<b, "legacy">> \notin listing  BY <2>1
      <4>2. QED  BY <2>1, <3>3, <4>1 DEF IndexInv, LegacyRegistered
    <3>7. QED  BY <1>0, <2>1, <3>3, <3>4, <3>5, <3>6 DEF IndexInv, PhaseRight
  <2>4. CASE ~(instances[a] \in Info /\ NameAvailable(instances[a].name))
    <3>1. UNCHANGED mapVars  BY <1>4, <2>4 DEF AddFileToContractIndex
    <3>2. \A n \in Name : Holds(a, n) => registrations[n] = a
      BY <2>4 DEF Holds, NameAvailable, IndexInv, RegistrationsRight, OnDisk
    <3>3. instances[a] \in Info => contractIndex[a] # NoInfo
      BY <2>4, <3>2 DEF Holds, NameAvailable, IndexInv, RegisteredIndexed
    <3>4. FilesRegistered'
      <4> SUFFICES ASSUME NEW b \in Addr, <<b, "instance">> \notin listing'
                   PROVE  /\ instances[b] \in Info => contractIndex[b] # NoInfo
                          /\ \A n \in Name : Holds(b, n) => registrations[n] = b
        BY <2>1, <2>2, <3>1 DEF FilesRegistered, mapVars
      <4>1. CASE b = a  BY <3>2, <3>3, <4>1
      <4>2. CASE b # a
        <5>1. <<b, "instance">> \notin listing  BY <2>1, <4>2
        <5>2. QED  BY <2>1, <5>1 DEF IndexInv, FilesRegistered
      <4>3. QED  BY <4>1, <4>2
    <3>5. LegacyRegistered'
      <4> SUFFICES ASSUME NEW b \in Addr, <<b, "legacy">> \notin listing',
                          NEW n \in Name, InLegacy(b, n)
                   PROVE  registrations[n] = b
        BY <2>1, <2>2, <3>1 DEF LegacyRegistered, mapVars
      <4>1. <<b, "legacy">> \notin listing  BY <2>1
      <4>2. QED  BY <2>1, <4>1 DEF IndexInv, LegacyRegistered
    <3>6. DiskUnique' /\ RegistrationsRight' /\ JobsRegistered' /\ RegisteredIndexed'
      BY <2>1, <2>2, <3>1 DEF IndexInv, DiskUnique, RegistrationsRight, JobsRegistered,
         RegisteredIndexed, OnDisk, mapVars
    <3>7. QED  BY <1>0, <2>1, <3>4, <3>5, <3>6 DEF IndexInv, PhaseRight
  <2>5. QED  BY <2>3, <2>4
<1>5. ASSUME NEW a \in Addr, MigrateLegacyContract(a)  PROVE IndexInv'
  <2> DEFINE e == <<a, "legacy">>
             n0 == LegacyInfo[a].name
  <2>1. /\ e \in listing /\ listing' = listing \ {e} /\ phase = "building" /\ phase' = phase
        /\ UNCHANGED <<instances, legacy>> /\ job[Main] = Idle
    BY <1>5 DEF MigrateLegacyContract, IsNext, diskVars
  <2>2. a \in Legacy /\ LegacyInfo[a] \in Info /\ Main \in Writer
    BY <1>0, <2>1 DEF IndexTypeOK, Entry, Legacy, Writer
  <2>3. CASE NameAvailable(n0)
    <3>1. StoreContractInfo(Main, a, LegacyInfo[a])
      BY <1>5, <2>3 DEF MigrateLegacyContract
    <3>2. a \in legacy  BY <2>1 DEF IndexInv, ListingRight
    <3>3. n0 \in Name => \A b \in Addr : OnDisk(b, n0) => b = a
      BY <3>2 DEF IndexInv, DiskUnique, OnDisk, InLegacy
    <3>4. QED  BY <1>0, <2>1, <2>2, <3>1, <3>3, Stored
  <2>4. CASE ~NameAvailable(n0)
    <3>1. UNCHANGED mapVars /\ UNCHANGED job  BY <1>5, <2>4 DEF MigrateLegacyContract
    <3>2. \A b \in Addr, n \in Name : /\ Holds(b, n)' <=> Holds(b, n)
                                      /\ InLegacy(b, n)' <=> InLegacy(b, n)
      BY <2>1 DEF Holds, InLegacy
    <3>3. \A n \in Name : InLegacy(a, n) => registrations[n] = a
      BY <2>4 DEF InLegacy, NameAvailable, IndexInv, RegistrationsRight, OnDisk
    <3>4. LegacyRegistered'
      <4> SUFFICES ASSUME NEW b \in Addr, <<b, "legacy">> \notin listing',
                          NEW n \in Name, InLegacy(b, n)
                   PROVE  registrations[n] = b
        BY <2>1, <3>1, <3>2 DEF LegacyRegistered, mapVars
      <4>1. CASE b = a  BY <3>3, <4>1
      <4>2. CASE b # a
        <5>1. <<b, "legacy">> \notin listing  BY <2>1, <4>2
        <5>2. QED  BY <2>1, <5>1 DEF IndexInv, LegacyRegistered
      <4>3. QED  BY <4>1, <4>2
    <3>5. FilesRegistered'
      <4> SUFFICES ASSUME NEW b \in Addr, <<b, "instance">> \notin listing'
                   PROVE  /\ instances[b] \in Info => contractIndex[b] # NoInfo
                          /\ \A n \in Name : Holds(b, n) => registrations[n] = b
        BY <2>1, <3>1, <3>2 DEF FilesRegistered, mapVars
      <4>1. <<b, "instance">> \notin listing  BY <2>1
      <4>2. QED  BY <2>1, <4>1 DEF IndexInv, FilesRegistered
    <3>6. DiskUnique' /\ RegistrationsRight' /\ JobsRegistered' /\ RegisteredIndexed'
      BY <2>1, <3>1, <3>2 DEF IndexInv, DiskUnique, RegistrationsRight, JobsRegistered,
         RegisteredIndexed, OnDisk, mapVars
    <3>7. QED  BY <1>0, <2>1, <3>4, <3>5, <3>6 DEF IndexInv, PhaseRight
  <2>5. QED  BY <2>3, <2>4
<1>6. CASE CrashIndex
  <2>1. \A b \in Addr, n \in Name : OnDisk(b, n)' <=> OnDisk(b, n)
    BY <1>6 DEF CrashIndex, diskVars, OnDisk, Holds, InLegacy
  <2>2. DiskUnique'  BY <2>1 DEF IndexInv, DiskUnique
  <2>3. RegistrationsRight' /\ RegisteredIndexed' /\ JobsRegistered' /\ PhaseRight'
    BY <1>6 DEF CrashIndex, RegistrationsRight, RegisteredIndexed, JobsRegistered, PhaseRight
  <2>4. FilesRegistered' /\ LegacyRegistered'
    BY <1>6 DEF CrashIndex, FilesRegistered, LegacyRegistered
  <2>5. QED  BY <1>0, <2>2, <2>3, <2>4 DEF IndexInv
<1>7. ASSUME NEW w \in Writer, OpenFile(w)  PROVE IndexInv'
  <2>1. job[w] # Idle  BY <1>7, NotIdle DEF OpenFile
  <2>2. phase # "down"  BY <2>1 DEF IndexInv, PhaseRight
  <2>3. \A a \in Addr : instances'[a] \in Info => instances'[a] = instances[a]
    BY <1>0, <1>7 DEF OpenFile, IndexTypeOK
  <2>4. \A v \in Writer : /\ job'[v] # Idle => job[v] # Idle
                          /\ job'[v].addr = job[v].addr /\ job'[v].info = job[v].info
    BY <1>0, <1>7, <2>1, JobType DEF OpenFile, Step, IndexTypeOK, Job
  <2>5. QED
    BY <1>0, <1>7, <2>2, <2>3, <2>4, Quiet DEF OpenFile, IndexInv, PhaseRight
<1>8. ASSUME NEW w \in Writer, WriteFile(w)  PROVE IndexInv'
  <2> DEFINE c == job[w].addr
             info == job[w].info
  <2>1. job[w] # Idle /\ c \in Addr /\ info \in Info  BY <1>0, <1>8, NotIdle, JobType DEF WriteFile
  <2>2. /\ phase # "down" /\ contractIndex[c] # NoInfo
        /\ info.name \in Name => registrations[info.name] = c
    BY <2>1 DEF IndexInv, PhaseRight, JobsRegistered
  <2>3. /\ instances' = [instances EXCEPT ![c] = info]
        /\ UNCHANGED <<legacy, mapVars, phase, listing>> /\ Step(w, "stored")
    BY <1>8 DEF WriteFile
  <2>4. \A b \in Addr : instances'[b] = IF b = c THEN info ELSE instances[b]
    BY <1>0, <2>3 DEF IndexTypeOK
  <2>5. \A b \in Addr, n \in Name :
          /\ b = c => (Holds(b, n)' <=> n = info.name)
          /\ b # c => (Holds(b, n)' <=> Holds(b, n))
          /\ InLegacy(b, n)' <=> InLegacy(b, n)
    BY <2>1, <2>3, <2>4 DEF Holds, InLegacy
  <2>6. \A b \in Addr, n \in Name : OnDisk(b, n)' => OnDisk(b, n) \/ (b = c /\ n = info.name)
    BY <2>5 DEF OnDisk
  <2>7. \A b \in Addr : info.name \in Name /\ OnDisk(b, info.name) => b = c
    BY <2>1, <2>2 DEF IndexInv, RegistrationsRight
  <2>8. DiskUnique'  BY <2>6, <2>7 DEF IndexInv, DiskUnique
  <2>9. RegistrationsRight'
    BY <2>2, <2>3, <2>6 DEF IndexInv, RegistrationsRight, mapVars
  <2>10. JobsRegistered'
    <3>1. \A v \in Writer : /\ job'[v] # Idle => job[v] # Idle
                            /\ job'[v].addr = job[v].addr /\ job'[v].info = job[v].info
      BY <1>0, <2>1, <2>3, JobType DEF Step, IndexTypeOK, Job
    <3>2. QED  BY <2>3, <3>1 DEF IndexInv, JobsRegistered, mapVars
  <2>11. FilesRegistered'
    BY <2>2, <2>3, <2>4, <2>5 DEF IndexInv, FilesRegistered, mapVars
  <2>12. LegacyRegistered'
    BY <2>3, <2>5 DEF IndexInv, LegacyRegistered, mapVars
  <2>13. RegisteredIndexed' /\ PhaseRight'
    BY <2>2, <2>3 DEF IndexInv, RegisteredIndexed, PhaseRight, mapVars
  <2>14. QED  BY <1>0, <2>8, <2>9, <2>10, <2>11, <2>12, <2>13 DEF IndexInv
<1>9. ASSUME NEW w \in Writer, WriteFileFails(w)  PROVE IndexInv'
  <2>1. job[w] # Idle  BY <1>9, NotIdle DEF WriteFileFails
  <2>2. phase # "down"  BY <2>1 DEF IndexInv, PhaseRight
  <2>3. \A v \in Writer : /\ job'[v] # Idle => job[v] # Idle
                          /\ job'[v].addr = job[v].addr /\ job'[v].info = job[v].info
    BY <1>0, <1>9, <2>1, JobType DEF WriteFileFails, Step, IndexTypeOK, Job
  <2>4. QED
    BY <1>0, <1>9, <2>2, <2>3, Quiet DEF WriteFileFails, IndexInv, PhaseRight, diskVars
<1>10. ASSUME NEW w \in Writer, Return(w)  PROVE IndexInv'
  <2>1. job[w] # Idle  BY <1>10, NotIdle DEF Return, Done
  <2>2. phase # "down"  BY <2>1 DEF IndexInv, PhaseRight
  <2>3. \A v \in Writer : job'[v] = Idle \/ job'[v] = job[v]
    BY <1>0, <1>10 DEF Return, IndexTypeOK
  <2>4. QED
    BY <1>0, <1>10, <2>2, <2>3, Quiet DEF Return, IndexInv, PhaseRight, diskVars
<1>11. ASSUME NEW w \in Client, NEW a \in Addr, NEW info \in Info,
              StoreNewContractInfo(w, a, info)
       PROVE  IndexInv'
  <2>1. w \in Writer  BY DEF Writer
  <2>2. /\ phase = "serving" /\ listing = {}
        /\ UNCHANGED <<instances, legacy, phase, listing>>
        /\ StoreContractInfo(w, a, info)
    BY <1>11 DEF StoreNewContractInfo, diskVars, IndexInv, PhaseRight
  <2>3. \A b \in Addr : ~(info.name \in Name /\ OnDisk(b, info.name))
    <3> SUFFICES ASSUME NEW b \in Addr, info.name \in Name, OnDisk(b, info.name)
                 PROVE  FALSE
      OBVIOUS
    <3>1. registrations[info.name] = NoAddr
      BY <2>2 DEF StoreContractInfo, AddToContractIndex, NameAvailable
    <3>2. registrations[info.name] = b
      BY <2>2 DEF IndexInv, FilesRegistered, LegacyRegistered, OnDisk
    <3>3. QED  BY <3>1, <3>2
  <2>4. QED  BY <1>0, <2>1, <2>2, <2>3, Stored
<1>12. ASSUME NEW i \in Abi, AddToABIIndex(i)  PROVE IndexInv'
  BY <1>0, <1>12, Same DEF AddToABIIndex, diskVars
<1>13. ASSUME NEW i \in Abi, WriteAbiInfo(i)  PROVE IndexInv'
  BY <1>0, <1>13, Same DEF WriteAbiInfo
<1>14. CASE UNCHANGED indexVars
  BY <1>0, <1>14, Same DEF indexVars, diskVars
<1>15. QED
  BY <1>1, <1>2, <1>3, <1>4, <1>5, <1>6, <1>7, <1>8, <1>9, <1>10, <1>11, <1>12, <1>13,
     <1>14 DEF IndexNext, StartUp, StoreFile

-----------------------------------------------------------------------------
(* The invariant always holds.                                             *)
THEOREM IndexInvariant == IndexSpec => []IndexInv
<1>1. IndexInit => IndexInv  BY InvInit
<1>2. IndexInv /\ [IndexNext]_indexVars => IndexInv'  BY InvNext
<1>3. QED  BY <1>1, <1>2, PTL DEF IndexSpec

(* Every state of the index has its types.                                 *)
THEOREM IndexTypeCorrect == IndexSpec => []IndexTypeOK
BY IndexInvariant, PTL DEF IndexInv

LEMMA InvUnique == IndexInv => NamesUnique
BY DEF IndexInv, DiskUnique, OnDisk, NamesUnique

(* No two complete files have the same name, for any number of contracts,  *)
(* clients, crashes and failed writes (addToContractIndex, WriteFile).     *)
THEOREM NamesAlwaysUnique == IndexSpec => []NamesUnique
BY IndexInvariant, InvUnique, PTL

LEMMA InvServed == IndexInv => StoredIsServed
<1> SUFFICES ASSUME IndexInv, phase = "serving", NEW a \in Addr, instances[a] \in Info
             PROVE  /\ contractIndex[a] # NoInfo
                    /\ instances[a].name # NoName => registrations[instances[a].name] = a
  BY DEF StoredIsServed
<1>1. listing = {}  BY DEF IndexInv, PhaseRight
<1>2. instances[a].name \in Name \cup {NoName}  BY DEF Info
<1>3. QED  BY <1>1, <1>2 DEF IndexInv, FilesRegistered, Holds

(* A gateway that serves has every stored contract in its index, and every *)
(* stored name leads to its contract (buildIndex).                         *)
THEOREM StoredAlwaysServed == IndexSpec => []StoredIsServed
BY IndexInvariant, InvServed, PTL

-----------------------------------------------------------------------------
(* The directory implements NameRegistry.                                  *)

LEMMA OwnerIs ==
  ASSUME NamesUnique, NEW n \in Name
  PROVE  /\ \A a \in Addr : Holds(a, n) => Owner[n] = a
         /\ (\A a \in Addr : ~Holds(a, n)) => Owner[n] = NoAddr
BY DEF NamesUnique, Owner

(* A step that changes no file does not change the owners.                 *)
LEMMA OwnerSame == ASSUME UNCHANGED instances  PROVE Owner' = Owner
BY DEF Owner, Holds

(* What a change of a's file does to the owners.                           *)
LEMMA OwnerChanges ==
  ASSUME NamesUnique, NamesUnique', NEW a \in Addr,
         \A b \in Addr : b # a => instances'[b] = instances[b]
  PROVE  \A n \in Name :
           Owner'[n] = IF Holds(a, n)' THEN a
                       ELSE IF Holds(a, n) THEN NoAddr ELSE Owner[n]
<1> SUFFICES ASSUME NEW n \in Name
             PROVE  Owner'[n] = IF Holds(a, n)' THEN a
                                ELSE IF Holds(a, n) THEN NoAddr ELSE Owner[n]
  OBVIOUS
<1>1. \A b \in Addr : b # a => (Holds(b, n)' <=> Holds(b, n))  BY DEF Holds
<1>2. /\ \A b \in Addr : Holds(b, n)' => Owner'[n] = b
      /\ (\A b \in Addr : ~Holds(b, n)') => Owner'[n] = NoAddr
  BY DEF NamesUnique, Owner
<1>3. CASE Holds(a, n)'  BY <1>2, <1>3
<1>4. CASE ~Holds(a, n)' /\ Holds(a, n)
  <2>1. \A b \in Addr : ~Holds(b, n)'  BY <1>1, <1>4 DEF NamesUnique
  <2>2. QED  BY <1>2, <1>4, <2>1
<1>5. CASE ~Holds(a, n)' /\ ~Holds(a, n)
  <2>1. CASE \E b \in Addr : Holds(b, n)
    <3>1. PICK b \in Addr : Holds(b, n)  BY <2>1
    <3>2. b # a /\ Holds(b, n)'  BY <1>1, <1>5, <3>1
    <3>3. QED  BY <1>2, <1>5, <3>1, <3>2, OwnerIs
  <2>2. CASE \A b \in Addr : ~Holds(b, n)
    <3>1. \A b \in Addr : ~Holds(b, n)'  BY <1>1, <1>5, <2>2
    <3>2. QED  BY <1>2, <1>5, <2>2, <3>1, OwnerIs
  <2>3. QED  BY <2>1, <2>2
<1>6. QED  BY <1>3, <1>4, <1>5

(* A change of one file is a step of NameRegistry, when the name it gets,  *)
(* if any, had no owner but the file itself.                               *)
LEMMA OwnerStep ==
  ASSUME NamesUnique, NamesUnique', NEW a \in Addr,
         \A b \in Addr : b # a => instances'[b] = instances[b]
  PROVE  [Registry!Next]_Owner
<1> USE IndexAssumption
<1>1. \A n \in Name : Owner'[n] = IF Holds(a, n)' THEN a
                                  ELSE IF Holds(a, n) THEN NoAddr ELSE Owner[n]
  BY OwnerChanges
<1>2. Owner = [n \in Name |-> Owner[n]] /\ Owner' = [n \in Name |-> Owner'[n]]
  BY DEF Owner
<1>3. \A n \in Name : /\ Holds(a, n) => Owner[n] = a
                      /\ Owner[n] # NoAddr /\ Owner[n] # a => ~Holds(a, n)'
  <2> SUFFICES ASSUME NEW n \in Name
               PROVE  /\ Holds(a, n) => Owner[n] = a
                      /\ Owner[n] # NoAddr /\ Owner[n] # a => ~Holds(a, n)'
    OBVIOUS
  <2>1. Holds(a, n) => Owner[n] = a  BY OwnerIs
  <2>2. ASSUME Owner[n] # NoAddr, Owner[n] # a, Holds(a, n)'  PROVE FALSE
    <3>1. PICK b \in Addr : Holds(b, n)  BY <2>2, OwnerIs
    <3>2. b # a  BY <2>2, <3>1, OwnerIs
    <3>3. Holds(b, n)'  BY <3>1, <3>2 DEF Holds
    <3>4. QED  BY <2>2, <3>2, <3>3 DEF NamesUnique
  <2>3. QED  BY <2>1, <2>2
<1>4. \A m, n \in Name : /\ Holds(a, m) /\ Holds(a, n) => m = n
                         /\ Holds(a, m)' /\ Holds(a, n)' => m = n
  BY DEF Holds
<1>5. \A n \in Name : Owner[n] = a => Holds(a, n)
  <2> SUFFICES ASSUME NEW n \in Name, Owner[n] = a  PROVE Holds(a, n)
    OBVIOUS
  <2>1. PICK b \in Addr : Holds(b, n)  BY OwnerIs
  <2>2. QED  BY <2>1, OwnerIs
<1>6. CASE \A n \in Name : ~Holds(a, n)'
  <2>1. CASE \A n \in Name : ~Holds(a, n)
    <3>1. \A n \in Name : Owner'[n] = Owner[n]  BY <1>1, <1>6, <2>1
    <3>2. QED  BY <1>2, <3>1
  <2>2. CASE \E n \in Name : Holds(a, n)
    <3>1. PICK n \in Name : Holds(a, n)  BY <2>2
    <3>2. \A k \in Name : Owner'[k] = IF k = n THEN NoAddr ELSE Owner[k]
      BY <1>1, <1>4, <1>6, <3>1
    <3>3. Owner' = [Owner EXCEPT ![n] = NoAddr]  BY <1>2, <3>2
    <3>4. QED  BY <3>3 DEF Registry!Next, Registry!Release
  <2>3. QED  BY <2>1, <2>2
<1>7. CASE \E n \in Name : Holds(a, n)'
  <2>1. PICK n \in Name : Holds(a, n)'  BY <1>7
  <2>2. CASE Holds(a, n)
    <3>1. \A k \in Name : Owner'[k] = Owner[k]  BY <1>1, <1>3, <1>4, <2>1, <2>2
    <3>2. QED  BY <1>2, <3>1
  <2>3. CASE ~Holds(a, n)
    <3>1. Owner[n] = NoAddr  BY <1>3, <1>5, <2>1, <2>3
    <3>2. CASE \A m \in Name : ~Holds(a, m)
      <4>1. \A k \in Name : Owner'[k] = IF k = n THEN a ELSE Owner[k]
        BY <1>1, <1>4, <2>1, <3>2
      <4>2. Owner' = [Owner EXCEPT ![n] = a]  BY <1>2, <4>1
      <4>3. QED  BY <3>1, <4>2 DEF Registry!Next, Registry!Claim
    <3>3. CASE \E m \in Name : Holds(a, m)
      <4>1. PICK m \in Name : Holds(a, m)  BY <3>3
      <4>2. m # n /\ Owner[m] = a  BY <1>3, <2>3, <4>1
      <4>3. \A k \in Name : Owner'[k] = IF k = n THEN a ELSE IF k = m THEN NoAddr ELSE Owner[k]
        BY <1>1, <1>4, <2>1, <4>1
      <4>4. Owner' = [Owner EXCEPT ![m] = NoAddr, ![n] = Owner[m]]
        BY <1>2, <4>2, <4>3
      <4>5. Owner[m] # NoAddr  BY <4>2
      <4>6. QED  BY <3>1, <4>4, <4>5 DEF Registry!Next, Registry!Rename
    <3>4. QED  BY <3>2, <3>3
  <2>4. QED  BY <2>2, <2>3
<1>8. QED  BY <1>6, <1>7

LEMMA RegistryStep == IndexInv /\ [IndexNext]_indexVars => [Registry!Next]_Owner
<1> SUFFICES ASSUME IndexInv, [IndexNext]_indexVars  PROVE [Registry!Next]_Owner
  OBVIOUS
<1>1. NamesUnique /\ NamesUnique' /\ IndexTypeOK
  BY InvNext, InvUnique DEF IndexInv, DiskUnique, OnDisk, NamesUnique
<1>2. ASSUME NEW w \in Writer, OpenFile(w) \/ WriteFile(w)  PROVE [Registry!Next]_Owner
  <2>1. job[w] # Idle  BY <1>2, NotIdle DEF OpenFile, WriteFile
  <2>2. job[w].addr \in Addr  BY <1>1, <2>1, JobType
  <2>3. \A b \in Addr : b # job[w].addr => instances'[b] = instances[b]
    BY <1>1, <1>2 DEF OpenFile, WriteFile, IndexTypeOK
  <2>4. QED  BY <1>1, <2>2, <2>3, OwnerStep
<1>3. CASE ~\E w \in Writer : OpenFile(w) \/ WriteFile(w)
  <2>1. UNCHANGED instances
    BY <1>3 DEF IndexNext, StartUp, StoreFile, BuildIndex, RemoveLegacy, Serve,
       AddFileToContractIndex, MigrateLegacyContract, CrashIndex, WriteFileFails, Return,
       StoreNewContractInfo, AddToABIIndex, WriteAbiInfo, indexVars, diskVars
  <2>2. QED  BY <2>1, OwnerSame
<1>4. QED  BY <1>2, <1>3

(* The names in the directory follow NameRegistry: a name belongs to one   *)
(* contract at a time and changes hands only by being free in between.     *)
THEOREM NamesFollow == IndexSpec => NamesFollowRegistry
<1>1. IndexInit => Registry!Init
  <2> SUFFICES ASSUME IndexInit  PROVE Owner = [n \in Name |-> NoAddr]
    BY DEF Registry!Init
  <2>1. \A n \in Name, a \in Addr : ~Holds(a, n)
    BY IndexAssumption DEF IndexInit, Holds
  <2>2. QED  BY <2>1 DEF Owner
<1>2. IndexInv /\ [IndexNext]_indexVars => [Registry!Next]_Owner  BY RegistryStep
<1>3. QED
  BY <1>1, <1>2, IndexInvariant, PTL DEF IndexSpec, NamesFollowRegistry, Registry!Spec
=============================================================================
