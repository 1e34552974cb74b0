--------------------------- MODULE ContractIndex ----------------------------
(***************************************************************************)
(* The index of contracts and ABIs that the smart contract gateway keeps   *)
(* (maidenlanecontracts/smartcontractgw.go): maps in memory beside a       *)
(* directory with one file for each contract address and each ABI, from    *)
(* which a start builds the maps again.                                    *)
(*                                                                         *)
(* A contract is stored by adding it to the maps under idxLock, one action *)
(* here, and then writing its file, which first truncates what the address *)
(* had: a crash or a failed write between the two leaves a torn file.      *)
(*                                                                         *)
(* Reading at a start does not fail.                                       *)
(***************************************************************************)
EXTENDS Naturals, FiniteSets

CONSTANTS
  Addr,         \* contract addresses, numbered in the order of their file names
  Name, NoName, \* names contracts can be registered under, and none
  Abi,          \* ABI identifiers
  NoAddr, NoInfo, NoFile, Torn,
  Client,       \* requests and replies that store contracts and ABIs
  Main,         \* the goroutine that starts the gateway
  LegacyInfo,   \* what the files of the earlier format say, by address
  MaxCrashes, MaxFailures   \* bounds of a run: crashes, failed file operations

Writer == Client \cup {Main}

(* contractInfo, which is filed under its address.                         *)
Info == [abi : Abi, name : Name \cup {NoName}]

Legacy == DOMAIN LegacyInfo

(* No two files of the earlier format, whose gateway checked it, share a   *)
(* name.                                                                   *)
ASSUME IndexAssumption ==
  /\ Addr \subseteq Nat
  /\ NoName \notin Name /\ NoAddr \notin Addr
  /\ {NoInfo, NoFile, Torn} \cap Info = {} /\ NoFile # Torn
  /\ Main \notin Client
  /\ Legacy \subseteq Addr /\ LegacyInfo \in [Legacy -> Info]
  /\ \A a, b \in Legacy :
       LegacyInfo[a].name = LegacyInfo[b].name /\ LegacyInfo[a].name # NoName => a = b
  /\ MaxCrashes \in Nat /\ MaxFailures \in Nat

VARIABLES
  \* the directory
  instances,     \* instances[a]: contract_<a>.instance.json
  legacy,        \* addresses that still have a contract_<a>.swagger.json
  abiFiles,      \* ABIs whose abi_<id>.deploy.json is complete
  \* memory
  contractIndex, \* contractIndex[a]
  registrations, \* contractRegistrations[n], by the address it leads to
  abiIndex,      \* the keys of abiIndex
  phase,         \* "down", "building" the index, or "serving"
  listing,       \* directory entries that buildIndex has still to look at
  job,           \* job[w]: the contract that w is storing, and how far it is
  abiWrites,     \* ABIs in the index whose file is still to be written
  \* bounds
  crashes, failures

diskVars == <<instances, legacy, abiFiles>>
mapVars == <<contractIndex, registrations>>
indexVars == <<diskVars, mapVars, abiIndex, phase, listing, job, abiWrites,
               crashes, failures>>

Idle == [step |-> "idle"]
Job == [step : {"open", "write", "stored", "failed"}, addr : Addr, info : Info]

Entry == Addr \X {"instance"} \cup Legacy \X {"legacy"}

IndexInit ==
  /\ instances = [a \in Addr |-> NoFile]
  /\ legacy = Legacy
  /\ abiFiles = {LegacyInfo[a].abi : a \in Legacy}
  /\ contractIndex = [a \in Addr |-> NoInfo]
  /\ registrations = [n \in Name |-> NoAddr]
  /\ abiIndex = {}
  /\ phase = "down" /\ listing = {}
  /\ job = [w \in Writer |-> Idle]
  /\ abiWrites = {}
  /\ crashes = 0 /\ failures = 0

Fail == failures < MaxFailures /\ failures' = failures + 1

-----------------------------------------------------------------------------
(* The maps.                                                               *)

(* checkNameAvailable, for a name of this gateway.                         *)
NameAvailable(n) == n \in Name => registrations[n] = NoAddr

(* Mutant: the name is not checked again under the lock.                   *)
AddToContractIndex_Unchecked(a, info) ==
  /\ contractIndex' = [contractIndex EXCEPT ![a] = info]
  /\ registrations' = [n \in Name |-> IF n = info.name THEN a ELSE registrations[n]]

(* "Protect against overwrite": a name that is taken is an error, and the  *)
(* contract is not indexed at all.                                         *)
AddToContractIndex(a, info) ==
  /\ NameAvailable(info.name)
  /\ contractIndex' = [contractIndex EXCEPT ![a] = info]
  /\ registrations' = [n \in Name |-> IF n = info.name THEN a ELSE registrations[n]]

(* storeNewContractInfo: first the maps; a name clash is NameAvailable's   *)
(* negation and changes nothing.                                           *)
StoreContractInfo(w, a, info) ==
  /\ job[w] = Idle
  /\ AddToContractIndex(a, info)
  /\ job' = [job EXCEPT ![w] = [step |-> "open", addr |-> a, info |-> info]]

StoreNewContractInfo(w, a, info) ==
  /\ phase = "serving" /\ w \in Client
  /\ StoreContractInfo(w, a, info)
  /\ UNCHANGED <<diskVars, abiIndex, phase, listing, abiWrites, crashes, failures>>

-----------------------------------------------------------------------------
(* The files: WriteFile opens and truncates, then writes.                  *)

Step(w, s) == job' = [job EXCEPT ![w].step = s]

OpenFile(w) ==
  /\ job[w].step = "open"
  /\ Step(w, "write")
  /\ instances' = [instances EXCEPT ![job[w].addr] = Torn]
  /\ UNCHANGED <<legacy, abiFiles, mapVars, abiIndex, phase, listing, abiWrites,
                 crashes, failures>>

WriteFile(w) ==
  /\ job[w].step = "write"
  /\ Step(w, "stored")
  /\ instances' = [instances EXCEPT ![job[w].addr] = job[w].info]
  /\ UNCHANGED <<legacy, abiFiles, mapVars, abiIndex, phase, listing, abiWrites,
                 crashes, failures>>

(* An error of either leaves the contract in the maps.                     *)
WriteFileFails(w) ==
  /\ job[w].step \in {"open", "write"}
  /\ Fail
  /\ Step(w, "failed")
  /\ UNCHANGED <<diskVars, mapVars, abiIndex, phase, listing, abiWrites, crashes>>

Done(w) == job[w].step \in {"stored", "failed"}

(* The caller has the result.                                              *)
Return(w) ==
  /\ Done(w) /\ w \in Client
  /\ job' = [job EXCEPT ![w] = Idle]
  /\ UNCHANGED <<diskVars, mapVars, abiIndex, phase, listing, abiWrites, crashes,
                 failures>>

(* storeDeployableABI gives the ABI an identifier of its own ...           *)
AddToABIIndex(i) ==
  /\ phase = "serving" /\ i \notin abiIndex \cup abiFiles
  /\ abiIndex' = abiIndex \cup {i} /\ abiWrites' = abiWrites \cup {i}
  /\ UNCHANGED <<diskVars, mapVars, phase, listing, job, crashes, failures>>

(* ... and writes its file, the caller not looking at the error.           *)
WriteAbiInfo(i) ==
  /\ i \in abiWrites
  /\ abiWrites' = abiWrites \ {i}
  /\ \/ abiFiles' = abiFiles \cup {i} /\ UNCHANGED failures
     \/ Fail /\ UNCHANGED abiFiles
  /\ UNCHANGED <<instances, legacy, mapVars, abiIndex, phase, listing, job, crashes>>

(* loadDeployMsgByID: the index first, then the file.                      *)
LoadDeployMsgByID(i) == i \in abiIndex /\ i \in abiFiles

-----------------------------------------------------------------------------
(* A start.                                                                *)

(* buildIndex reads the directory, whose entries are sorted by name: the   *)
(* ABIs come before the contracts.                                         *)
BuildIndex ==
  /\ phase = "down"
  /\ phase' = "building"
  /\ abiIndex' = abiFiles
  /\ listing' = {e \in Entry : \/ e[2] = "instance" /\ instances[e[1]] # NoFile
                               \/ e[2] = "legacy" /\ e[1] \in legacy}
  /\ UNCHANGED <<diskVars, mapVars, job, abiWrites, crashes, failures>>

(* "contract_<a>.instance.json" sorts before "contract_<a>.swagger.json".  *)
IsNext(e) ==
  /\ phase = "building" /\ job[Main] = Idle /\ e \in listing
  /\ \A f \in listing : \/ e[1] < f[1]
                        \/ e[1] = f[1] /\ (e[2] = "instance" \/ e = f)

(* Mutant: the registered name is not taken from the file.                 *)
AddFileToContractIndex_Unnamed(a) ==
  /\ IsNext(<<a, "instance">>)
  /\ listing' = listing \ {<<a, "instance">>}
  /\ IF instances[a] \in Info
       THEN contractIndex' = [contractIndex EXCEPT ![a] = instances[a]]
       ELSE UNCHANGED contractIndex
  /\ UNCHANGED <<diskVars, registrations, abiIndex, phase, job, abiWrites, crashes,
                 failures>>

(* Mutant: what could not be parsed is indexed all the same.               *)
AddFileToContractIndex_Torn(a) ==
  /\ IsNext(<<a, "instance">>)
  /\ listing' = listing \ {<<a, "instance">>}
  /\ contractIndex' = [contractIndex EXCEPT ![a] = instances[a]]
  /\ UNCHANGED <<diskVars, registrations, abiIndex, phase, job, abiWrites, crashes,
                 failures>>

(* A torn file and one whose name is taken are passed over.                *)
AddFileToContractIndex(a) ==
  /\ IsNext(<<a, "instance">>)
  /\ listing' = listing \ {<<a, "instance">>}
  /\ IF instances[a] \in Info /\ NameAvailable(instances[a].name)
       THEN AddToContractIndex(a, instances[a])
       ELSE UNCHANGED mapVars
  /\ UNCHANGED <<diskVars, abiIndex, phase, job, abiWrites, crashes, failures>>

(* A file of the earlier format is stored in the present one; if its name  *)
(* is taken, which may be by itself, it stays.                             *)
MigrateLegacyContract(a) ==
  /\ IsNext(<<a, "legacy">>)
  /\ listing' = listing \ {<<a, "legacy">>}
  /\ IF NameAvailable(LegacyInfo[a].name)
       THEN StoreContractInfo(Main, a, LegacyInfo[a])
       ELSE UNCHANGED <<mapVars, job>>
  /\ UNCHANGED <<diskVars, abiIndex, phase, abiWrites, crashes, failures>>

(* Stored, the old file is removed, which may fail.                        *)
RemoveLegacy ==
  /\ Done(Main)
  /\ job' = [job EXCEPT ![Main] = Idle]
  /\ \/ job[Main].step = "failed" /\ UNCHANGED <<legacy, failures>>
     \/ job[Main].step = "stored" /\ legacy' = legacy \ {job[Main].addr}
        /\ UNCHANGED failures
     \/ job[Main].step = "stored" /\ Fail /\ UNCHANGED legacy
  /\ UNCHANGED <<instances, abiFiles, mapVars, abiIndex, phase, listing, abiWrites,
                 crashes>>

Serve ==
  /\ phase = "building" /\ listing = {} /\ job[Main] = Idle
  /\ phase' = "serving"
  /\ UNCHANGED <<diskVars, mapVars, abiIndex, listing, job, abiWrites, crashes,
                 failures>>

(* The process ends and leaves the directory as it is.                     *)
CrashIndex ==
  /\ phase # "down"
  /\ crashes < MaxCrashes /\ crashes' = crashes + 1
  /\ phase' = "down"
  /\ contractIndex' = [a \in Addr |-> NoInfo]
  /\ registrations' = [n \in Name |-> NoAddr]
  /\ abiIndex' = {}
  /\ listing' = {}
  /\ job' = [w \in Writer |-> Idle]
  /\ abiWrites' = {}
  /\ UNCHANGED <<diskVars, failures>>

-----------------------------------------------------------------------------
StartUp ==
  \/ BuildIndex \/ RemoveLegacy \/ Serve
  \/ \E a \in Addr : AddFileToContractIndex(a) \/ MigrateLegacyContract(a)

StoreFile(w) == OpenFile(w) \/ WriteFile(w) \/ WriteFileFails(w)

IndexNext ==
  \/ StartUp \/ CrashIndex
  \/ \E w \in Writer : StoreFile(w) \/ Return(w)
  \/ \E w \in Client, a \in Addr, info \in Info : StoreNewContractInfo(w, a, info)
  \/ \E i \in Abi : AddToABIIndex(i) \/ WriteAbiInfo(i)

IndexSpec == IndexInit /\ [][IndexNext]_indexVars

-----------------------------------------------------------------------------
IndexTypeOK ==
  /\ instances \in [Addr -> Info \cup {NoFile, Torn}]
  /\ legacy \subseteq Legacy
  /\ abiFiles \subseteq Abi
  /\ contractIndex \in [Addr -> Info \cup {NoInfo}]
  /\ registrations \in [Name -> Addr \cup {NoAddr}]
  /\ abiIndex \subseteq Abi
  /\ phase \in {"down", "building", "serving"}
  /\ listing \subseteq Entry
  /\ job \in [Writer -> Job \cup {Idle}]
  /\ abiWrites \subseteq Abi
  /\ crashes \in Nat /\ failures \in Nat

(* a's file is complete and has the name n.                                *)
Holds(a, n) == instances[a] \in Info /\ instances[a].name = n

(* No two files ever have the same name, whatever crashes, failed writes   *)
(* and half done migrations there were: a later start would serve only the *)
(* first of the two contracts.                                             *)
NamesUnique ==
  \A n \in Name : \A a, b \in Addr : Holds(a, n) /\ Holds(b, n) => a = b

(* A gateway that serves has every contract of its directory in the index, *)
(* and every name leads to the contract whose file has it: what buildIndex *)
(* does not look at, the error of addToContractIndex, never matters.       *)
StoredIsServed ==
  phase = "serving" =>
    \A a \in Addr : instances[a] \in Info =>
      /\ contractIndex[a] # NoInfo
      /\ instances[a].name # NoName => registrations[instances[a].name] = a

(* The names in the directory follow NameRegistry.                         *)
Owner == [n \in Name |-> IF \E a \in Addr : Holds(a, n)
                           THEN CHOOSE a \in Addr : Holds(a, n) ELSE NoAddr]

Registry == INSTANCE NameRegistry WITH owner <- Owner

NamesFollowRegistry == Registry!Spec

=============================================================================
