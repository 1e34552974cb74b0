--------------------------- MODULE RestToEthereum ---------------------------
(***************************************************************************)
(* The REST API of the smart contract gateway (maidenlanecontracts:        *)
(* rest2eth.go, syncdispatcher.go and the handlers of smartcontractgw.go   *)
(* that use the index): requests that add ABIs, register contracts, read   *)
(* them, deploy them, send them transactions and call them, over the index *)
(* of ContractIndex.                                                       *)
(*                                                                         *)
(* A synchronous transaction is answered by a goroutine of the transaction *)
(* processor while its handler waits on a condition variable.  An          *)
(* asynchronous one is stored as a Kafka message, which outlives the       *)
(* process, and its reply is consumed by the receipt store, one at a time, *)
(* and again if the process ends before the reply is marked.               *)
(***************************************************************************)
EXTENDS ContractIndex, Sequences

CONSTANTS
  Ask,       \* Ask[r]: the requests of which the client r makes one
  NoRequest

Op == {"addABI", "register", "get", "deploy", "send", "call"}

(* by: how the contract is looked up; addr and name: what it is about, or  *)
(* what it is to be registered as; newAbi: the identifier that an ABI it   *)
(* adds is given.                                                          *)
Request ==
  [op : Op, by : {"abi", "addr", "name", "remote"}, sync : BOOLEAN, abi : Abi,
   addr : Addr, name : Name \cup {NoName}, newAbi : Abi]

ASSUME RestAssumption ==
  /\ Ask \in [Client -> SUBSET Request] /\ NoRequest \notin Request
  /\ \A r \in Client : \A q \in Ask[r] :
       /\ q.op = "register" => q.by = "abi"
       /\ q.op = "deploy" => q.by \in {"abi", "remote"}

VARIABLES
  ask,       \* ask[r]: what the client r has asked for
  pc,        \* pc[r]: where the handler of r is
  response,  \* response[r]: the statuses written to r's client
  txn,       \* txn[r]: how far the transaction of r and its reply are
  done       \* done[r]: rest2EthSyncResponder.done

restVars == <<ask, pc, response, txn, done>>
vars == <<indexVars, restVars>>

Status == {200, 201, 202, 400, 404, 409, 500}

Async(r) ==
  ask[r] # NoRequest /\ ask[r].op \in {"deploy", "send"} /\ ~ask[r].sync

(* What the contract of r is indexed as: a synchronous deployment runs     *)
(* under the identifier of the ABI it was made from, an asynchronous one   *)
(* under that of its message.                                              *)
ContractInfo(r) ==
  [abi |-> IF Async(r) THEN ask[r].newAbi ELSE ask[r].abi, name |-> ask[r].name]

Init ==
  /\ IndexInit
  /\ ask = [r \in Client |-> NoRequest]
  /\ pc = [r \in Client |-> "new"]
  /\ response = [r \in Client |-> <<>>]
  /\ txn = [r \in Client |-> "none"]
  /\ done = [r \in Client |-> FALSE]

At(r, s) == phase = "serving" /\ pc[r] = s
Goto(r, s) == pc' = [pc EXCEPT ![r] = s]
TxnTo(r, s) == txn' = [txn EXCEPT ![r] = s]

(* restErrReply, restAsyncReply, gatewayErrReply and their like: the       *)
(* status is written and the handler returns.                              *)
Respond(r, status) ==
  /\ Goto(r, "returned")
  /\ response' = [response EXCEPT ![r] = Append(@, status)]
  /\ UNCHANGED <<ask, txn, done>>

Continue(r, s) == Goto(r, s) /\ UNCHANGED <<ask, response, txn, done>>

-----------------------------------------------------------------------------
(* A request, and looking up what it is about.                             *)

Receive(r) ==
  /\ At(r, "new")
  /\ \E q \in Ask[r] : ask' = [ask EXCEPT ![r] = q]
  /\ Goto(r, "asked")
  /\ UNCHANGED <<response, txn, done, indexVars>>

LoadDeployMsgForInstance(a) ==
  contractIndex[a] # NoInfo /\ LoadDeployMsgByID(contractIndex[a].abi)

(* resolveABI, for the routes of this gateway.                             *)
ResolveABI(r) ==
  \/ ask[r].by = "abi" /\ LoadDeployMsgByID(ask[r].abi)
  \/ ask[r].by = "addr" /\ LoadDeployMsgForInstance(ask[r].addr)
  \/ /\ ask[r].by = "name" /\ ask[r].name # NoName
     /\ registrations[ask[r].name] # NoAddr
     /\ LoadDeployMsgForInstance(registrations[ask[r].name])

(* A remote registry finds the ABI, does not, or fails.                    *)
ResolveRemote(r) ==
  /\ At(r, "asked") /\ ask[r].by = "remote"
  /\ Continue(r, "resolved") \/ Respond(r, 404) \/ Respond(r, 500)
  /\ UNCHANGED indexVars

Resolve(r) ==
  /\ At(r, "asked") /\ ask[r].op # "addABI" /\ ask[r].by # "remote"
  /\ IF ResolveABI(r) THEN Continue(r, "resolved") ELSE Respond(r, 404)
  /\ UNCHANGED indexVars

(* A method, an event, an address, a parameter or a sender that is missing *)
(* or wrong.                                                               *)
ResolveParams(r) ==
  /\ At(r, "resolved") /\ ask[r].op \in {"deploy", "send", "call"}
  /\ Respond(r, 400) \/ Respond(r, 404)
  /\ UNCHANGED indexVars

(* The ABI of a contract, or the contract, or an OpenAPI document made     *)
(* from an ABI, which may turn out to be invalid.                          *)
GetContractOrABI(r) ==
  /\ At(r, "resolved") /\ ask[r].op = "get" /\ ask[r].by # "remote"
  /\ Respond(r, 200) \/ Respond(r, 404)
  /\ UNCHANGED indexVars

GetRemoteRegistrySwaggerOrABI(r) ==
  /\ At(r, "resolved") /\ ask[r].op = "get" /\ ask[r].by = "remote"
  /\ Respond(r, 200) \/ Respond(r, 400)
  /\ UNCHANGED indexVars

(* The sender's address cannot be resolved, or the call fails at the node. *)
CallContract(r) ==
  /\ At(r, "resolved") /\ ask[r].op = "call"
  /\ Respond(r, 200) \/ Respond(r, 500)
  /\ UNCHANGED indexVars

-----------------------------------------------------------------------------
(* ABIs and registrations.                                                 *)

(* addABI extracts and compiles what it is sent.  That may fail, and all   *)
(* that was wanted may be to list the sources or the contracts in it; an   *)
(* ABI that cannot be marshalled is the error of storeDeployableABI.       *)
CompileForm(r) ==
  /\ At(r, "asked") /\ ask[r].op = "addABI"
  /\ Respond(r, 400) \/ Respond(r, 200) \/ Respond(r, 500)
  /\ UNCHANGED indexVars

(* addABI, and PreDeploy of an asynchronous deployment: storeDeployableABI *)
(* puts the ABI into the index ...                                         *)
StoreDeployableABI(r) ==
  /\ \/ At(r, "asked") /\ ask[r].op = "addABI"
     \/ At(r, "dispatch") /\ ask[r].op = "deploy" /\ Async(r) /\ ask[r].by # "remote"
  /\ AddToABIIndex(ask[r].newAbi)
  /\ Continue(r, "store")

(* ... and writes its file, whatever comes of it.                          *)
StoreABIFile(r) ==
  /\ At(r, "store")
  /\ WriteAbiInfo(ask[r].newAbi)
  /\ IF ask[r].op = "addABI" THEN Respond(r, 200) ELSE Continue(r, "send")

(* ... 404 stands for an address that is not one.                          *)
RegisterContract(r) ==
  /\ At(r, "resolved") /\ ask[r].op = "register"
  /\ \/ StoreNewContractInfo(r, ask[r].addr, ContractInfo(r)) /\ Continue(r, "registering")
     \/ ~NameAvailable(ask[r].name) /\ Respond(r, 409) /\ UNCHANGED indexVars
     \/ Respond(r, 404) /\ UNCHANGED indexVars

Registered(r) ==
  /\ At(r, "registering")
  /\ Respond(r, IF job[r].step = "stored" THEN 201 ELSE 409)
  /\ Return(r)

-----------------------------------------------------------------------------
(* Transactions.                                                           *)

(* deployContract looks at the name that the contract is to have, at a     *)
(* remote registry if the ABI is from there.                               *)
CheckName(r) ==
  /\ At(r, "resolved") /\ ask[r].op = "deploy"
  /\ IF ask[r].by = "remote"
       THEN Continue(r, "dispatch") \/ (ask[r].name # NoName /\ Respond(r, 409))
       ELSE IF NameAvailable(ask[r].name) THEN Continue(r, "dispatch") ELSE Respond(r, 409)
  /\ UNCHANGED indexVars

SendTransaction(r) ==
  /\ At(r, "resolved") /\ ask[r].op = "send"
  /\ Continue(r, "dispatch")
  /\ UNCHANGED indexVars

(* The processor's OnMessage; then the handler takes the lock of its       *)
(* waiter, which nobody else ever takes.                                   *)
DispatchSync(r) ==
  /\ At(r, "dispatch") /\ ~Async(r)
  /\ Goto(r, "check") /\ TxnTo(r, "submitted")
  /\ UNCHANGED <<ask, response, done, indexVars>>

(* Mutant: the message is sent before the ABI is stored.                   *)
DispatchAsync_NotStored(r) ==
  /\ Async(r)
  /\ At(r, "send") \/ At(r, "store") \/ (At(r, "dispatch") /\ ask[r].op = "send")
  /\ Goto(r, "ack") /\ TxnTo(r, "submitted")
  /\ UNCHANGED <<ask, response, done, indexVars>>

(* DispatchMsgAsync sends the message, or fails, as PreDeploy may.         *)
DispatchAsync(r) ==
  /\ Async(r)
  /\ \/ At(r, "send")
     \/ At(r, "dispatch") /\ (ask[r].op = "send" \/ ask[r].by = "remote")
  /\ \/ Goto(r, "ack") /\ TxnTo(r, "submitted") /\ UNCHANGED <<ask, response, done>>
     \/ Respond(r, 500)
  /\ UNCHANGED indexVars

AckAsync(r) ==
  /\ At(r, "ack")
  /\ Respond(r, 202)
  /\ UNCHANGED indexVars

(* The transaction is mined and succeeds, or fails in one of many ways.    *)
Outcome(r) ==
  /\ txn[r] = "submitted"
  /\ TxnTo(r, "mined") \/ TxnTo(r, "failed")
  /\ UNCHANGED <<ask, pc, response, done, indexVars>>

Consuming == {"posting", "posted", "refused"}

(* The reply of a synchronous request has a goroutine of its own; those of *)
(* asynchronous ones are consumed one after the other.                     *)
Replying(r) == phase = "serving" /\
               (Async(r) => \A q \in Client \ {r} : Async(q) => txn[q] \notin Consuming)

(* PostDeploy stores the contract that the receipt has the address of; at  *)
(* a name clash, and at a failing remote registry, nothing is stored.      *)
PostDeploy(r) ==
  /\ txn[r] = "mined" /\ Replying(r)
  /\ \/ /\ ask[r].op = "deploy" /\ ask[r].by # "remote"
        /\ StoreNewContractInfo(r, ask[r].addr, ContractInfo(r)) /\ TxnTo(r, "posting")
     \/ /\ ask[r].op = "deploy" /\ ask[r].by # "remote" /\ ~NameAvailable(ask[r].name)
        /\ TxnTo(r, "refused") /\ UNCHANGED indexVars
     \/ /\ ask[r].op = "deploy" /\ ask[r].by = "remote" /\ ask[r].name # NoName
        /\ TxnTo(r, "refused") /\ UNCHANGED indexVars
     \/ /\ ask[r].op = "send" \/ ask[r].by = "remote"
        /\ TxnTo(r, "posted") /\ UNCHANGED indexVars
  /\ UNCHANGED <<ask, pc, response, done>>

(* Mutant: an error of PostDeploy is passed over.                          *)
PostDeployed_Ignored(r) ==
  /\ txn[r] = "posting"
  /\ TxnTo(r, "posted")
  /\ Return(r)
  /\ UNCHANGED <<ask, pc, response, done>>

PostDeployed(r) ==
  /\ txn[r] = "posting"
  /\ TxnTo(r, IF job[r].step = "stored" THEN "posted" ELSE "refused")
  /\ Return(r)
  /\ UNCHANGED <<ask, pc, response, done>>

-----------------------------------------------------------------------------
(* The synchronous responder and the handler that waits for it.            *)

(* Mutant: after the error of PostDeploy the receipt is written as well.   *)
ReplyWithReceipt_Both(r) ==
  /\ ~Async(r) /\ txn[r] \in {"posted", "refused", "failed"}
  /\ response' = [response EXCEPT ![r] =
       @ \o (IF txn[r] = "refused" THEN <<500, 200>> ELSE <<IF txn[r] = "posted" THEN 200 ELSE 500>>)]
  /\ TxnTo(r, "written")
  /\ UNCHANGED <<pc, ask, done, indexVars>>

(* ReplyWithReceipt, ReplyWithReceiptAndError and ReplyWithError.          *)
ReplyWithReceipt(r) ==
  /\ ~Async(r) /\ txn[r] \in {"posted", "refused", "failed"}
  /\ response' = [response EXCEPT ![r] = Append(@, IF txn[r] = "posted" THEN 200 ELSE 500)]
  /\ TxnTo(r, "written")
  /\ UNCHANGED <<pc, ask, done, indexVars>>

SetDone(r) ==
  /\ txn[r] = "written"
  /\ done' = [done EXCEPT ![r] = TRUE]
  /\ TxnTo(r, "broadcast")
  /\ UNCHANGED <<ask, pc, response, indexVars>>

(* waiter.Broadcast() wakes the handler if it is waiting by now.           *)
Broadcast(r) ==
  /\ txn[r] = "broadcast"
  /\ pc' = [pc EXCEPT ![r] = IF @ = "asleep" THEN "check" ELSE @]
  /\ TxnTo(r, "end")
  /\ UNCHANGED <<ask, response, done, indexVars>>

(* for !responder.done { responder.waiter.Wait() }                         *)
CheckDone(r) ==
  /\ pc[r] = "check"
  /\ Continue(r, IF done[r] THEN "returned" ELSE "towait")
  /\ UNCHANGED indexVars

Wait(r) ==
  /\ pc[r] = "towait"
  /\ Continue(r, "asleep")
  /\ UNCHANGED indexVars

-----------------------------------------------------------------------------
(* The reply of an asynchronous request.                                   *)

(* Mutant: the reply is marked before it is processed.                     *)
MarkReply_First(r) ==
  /\ Async(r) /\ Replying(r)
  /\ txn[r] \in {"mined", "failed"} \cup Consuming
  /\ TxnTo(r, "end")
  /\ UNCHANGED <<ask, pc, response, done, indexVars>>

(* processReply only logs what went wrong, and the reply is marked.        *)
MarkReply(r) ==
  /\ Async(r) /\ Replying(r)
  /\ txn[r] \in {"posted", "refused", "failed"}
  /\ TxnTo(r, "end")
  /\ UNCHANGED <<ask, pc, response, done, indexVars>>

(* The process ends.  What is not answered by then is not answered at all; *)
(* a message and a reply that are in Kafka stay there.                     *)
Crash ==
  /\ CrashIndex
  /\ pc' = [r \in Client |-> IF pc[r] \in {"new", "returned"} THEN pc[r] ELSE "gone"]
  /\ txn' = [r \in Client |->
               CASE Async(r) /\ txn[r] \in Consuming -> "mined"
                 [] ~Async(r) /\ txn[r] # "none" -> "end"
                 [] OTHER -> txn[r]]
  /\ UNCHANGED <<ask, response, done>>

-----------------------------------------------------------------------------
HandlerStep(r) ==
  \/ Receive(r) \/ ResolveRemote(r) \/ Resolve(r) \/ ResolveParams(r)
  \/ GetContractOrABI(r) \/ GetRemoteRegistrySwaggerOrABI(r) \/ CallContract(r)
  \/ CompileForm(r) \/ StoreDeployableABI(r) \/ StoreABIFile(r)
  \/ RegisterContract(r) \/ Registered(r)
  \/ CheckName(r) \/ SendTransaction(r)
  \/ DispatchSync(r) \/ DispatchAsync(r) \/ AckAsync(r)
  \/ CheckDone(r) \/ Wait(r)

ReplyStep(r) ==
  \/ PostDeploy(r) \/ PostDeployed(r)
  \/ ReplyWithReceipt(r) \/ SetDone(r) \/ Broadcast(r)
  \/ MarkReply(r)

FileStep(w) == StoreFile(w) /\ UNCHANGED restVars

Next ==
  \/ StartUp /\ UNCHANGED restVars
  \/ \E w \in Writer : FileStep(w)
  \/ \E r \in Client : HandlerStep(r) \/ Outcome(r) \/ ReplyStep(r)
  \/ Crash

Spec == Init /\ [][Next]_vars

(* The gateway is started again, its goroutines keep running, and every    *)
(* transaction has an outcome.  Clients need not ask, and handlers need    *)
(* not be served before they wait.                                         *)
Fairness ==
  /\ WF_vars(StartUp /\ UNCHANGED restVars)
  /\ \A w \in Writer : WF_vars(FileStep(w))
  /\ \A r \in Client :
       WF_vars(Outcome(r)) /\ WF_vars(ReplyStep(r)) /\ WF_vars(CheckDone(r) \/ Wait(r))

FairSpec == Spec /\ Fairness

-----------------------------------------------------------------------------
RestTypeOK ==
  /\ IndexTypeOK
  /\ ask \in [Client -> Request \cup {NoRequest}]
  /\ pc \in [Client -> {"new", "asked", "resolved", "registering", "store", "dispatch", "send",
                        "ack", "check", "towait", "asleep", "returned", "gone"}]
  /\ response \in [Client -> Seq(Status)]
  /\ txn \in [Client -> {"none", "submitted", "mined", "failed", "written", "broadcast",
                         "end"} \cup Consuming]
  /\ done \in [Client -> BOOLEAN]

(* A client is answered at most once, and its handler does not return,     *)
(* which would end its response as an empty success, before the goroutine  *)
(* that answers it has (rest2eth.go: "for !responder.done").               *)
RespondsOnce ==
  \A r \in Client :
    /\ Len(response[r]) <= 1
    /\ pc[r] = "returned" => response[r] # <<>>

(* Every contract a serving gateway lists can be used: the ABI it was made *)
(* from or registered with is there, in memory and on disk, after crashes  *)
(* at any point between storing the one and the other.                     *)
ContractsResolvable ==
  phase = "serving" /\ failures = 0 =>
    \A a \in Addr : contractIndex[a] # NoInfo => LoadDeployMsgForInstance(a)

(* Another client has asked for the address to be stored.                 *)
Contested(r) ==
  \E q \in Client \ {r} :
    /\ ask[q] # NoRequest /\ ask[q].op \in {"register", "deploy"}
    /\ ask[q].addr = ask[r].addr

(* A client that is told that its contract was registered or deployed      *)
(* finds a complete file of that address on disk, neither missing nor      *)
(* torn, unless another client has asked for the same address and may be   *)
(* writing, or failing to write, its file.                                 *)
SuccessIsStored ==
  [][\A r \in Client :
       /\ response'[r] # response[r] /\ response'[r][Len(response'[r])] \in {200, 201}
       /\ ask[r].op \in {"register", "deploy"} /\ ask[r].by # "remote"
       => instances'[ask[r].addr] \in Info \/ Contested(r)]_vars

(* A contract that was deployed asynchronously is known to the gateway in  *)
(* the end, whatever crashes there are while its reply is processed,       *)
(* unless somebody else has its name or a file could not be written.       *)
Known(q) ==
  \/ instances[q.addr] \in Info
  \/ q.name # NoName /\ registrations[q.name] \notin {NoAddr, q.addr}
  \/ failures > 0

DeployedAsync(r) == {q \in Ask[r] : q.op = "deploy" /\ ~q.sync /\ q.by # "remote"}

DeployedIsKnown ==
  \A r \in Client : \A q \in DeployedAsync(r) :
    ask[r] = q /\ txn[r] = "mined" ~> Known(q)

(* A handler that waits for a transaction returns when that has its        *)
(* outcome.  It does not: the responder broadcasts without the lock of the *)
(* waiter, so that the wake-up may come between CheckDone and Wait.        *)
HandlersReturn == \A r \in Client : pc[r] = "check" ~> pc[r] \in {"returned", "gone"}

=============================================================================
