----------------------- MODULE RestToEthereum_proofs ------------------------
(***************************************************************************)
(* Proofs about the gateway's REST API: it uses the contract index only as *)
(* ContractIndex allows, so that what is proved of the index holds of the  *)
(* whole gateway; no client is answered twice; every contract has its ABI; *)
(* and who is told of a success has it on disk.                            *)
(***************************************************************************)
EXTENDS RestToEthereum, ContractIndex_proofs

(* A request has been read as soon as its handler or transaction moves.    *)
AskRight ==
  \A r \in Client : pc[r] # "new" \/ txn[r] # "none" => ask[r] \in Request

LEMMA ContractInfoType ==
  ASSUME NEW r \in Client, ask[r] \in Request
  PROVE  /\ ContractInfo(r) \in Info /\ ask[r].addr \in Addr /\ ask[r].newAbi \in Abi
         /\ ask[r].name \in Name \cup {NoName}
BY DEF ContractInfo, Info, Request

HandlerState == {"asked", "resolved", "registering", "store", "dispatch", "send", "ack",
                 "check", "towait", "asleep", "returned", "gone"}

(* What the steps of the REST API do to their own state.                   *)
RestVarsOK ==
  /\ ask \in [Client -> Request \cup {NoRequest}]
  /\ pc \in [Client -> {"new"} \cup HandlerState]
  /\ response \in [Client -> Seq(Status)]
  /\ txn \in [Client -> {"none", "submitted", "mined", "failed", "written", "broadcast",
                         "end"} \cup Consuming]
  /\ done \in [Client -> BOOLEAN]
  /\ AskRight

LEMMA TypeSplit == RestTypeOK /\ AskRight <=> IndexTypeOK /\ RestVarsOK
BY DEF RestTypeOK, RestVarsOK, HandlerState

LEMMA RestVarsInit == Init => RestVarsOK
BY DEF Init, RestVarsOK, AskRight

(* A step of r keeps the types when it moves its handler, writes a         *)
(* response, or moves its transaction.                                     *)
LEMMA Moved ==
  ASSUME RestVarsOK, NEW r \in Client, ask[r] \in Request, UNCHANGED ask,
         pc' = [pc EXCEPT ![r] = pc'[r]], pc'[r] \in HandlerState \cup {pc[r]},
         response' = [response EXCEPT ![r] = response'[r]], response'[r] \in Seq(Status),
         txn' = [txn EXCEPT ![r] = txn'[r]],
         txn'[r] \in {"submitted", "mined", "failed", "written", "broadcast", "end", txn[r]}
                       \cup Consuming,
         done' = [done EXCEPT ![r] = done'[r]], done'[r] \in BOOLEAN
  PROVE  RestVarsOK'
<1>1. response' \in [Client -> Seq(Status)]  BY DEF RestVarsOK
<1>2. pc' \in [Client -> {"new"} \cup HandlerState]  BY DEF RestVarsOK
<1>3. txn' \in [Client -> {"none", "submitted", "mined", "failed", "written",
                           "broadcast", "end"} \cup Consuming]
  BY DEF RestVarsOK
<1>4. done' \in [Client -> BOOLEAN]  BY DEF RestVarsOK
<1>5. AskRight'
  <2>1. \A q \in Client : q # r => pc'[q] = pc[q] /\ txn'[q] = txn[q]  BY DEF RestVarsOK
  <2>2. QED  BY <2>1 DEF RestVarsOK, AskRight
<1>6. QED  BY <1>1, <1>2, <1>3, <1>4, <1>5 DEF RestVarsOK

LEMMA Wrote ==
  ASSUME RestVarsOK, NEW r \in Client, NEW s \in Status,
         response' = [response EXCEPT ![r] = Append(@, s)]
  PROVE  response' = [response EXCEPT ![r] = response'[r]] /\ response'[r] \in Seq(Status)
<1>1. response[r] \in Seq(Status)  BY DEF RestVarsOK
<1>2. response'[r] = Append(response[r], s)  BY DEF RestVarsOK
<1>3. Append(response[r], s) \in Seq(Status)  BY <1>1
<1>4. QED  BY <1>2, <1>3 DEF RestVarsOK

LEMMA Unmoved ==
  ASSUME RestVarsOK, NEW r \in Client
  PROVE  /\ pc = [pc EXCEPT ![r] = pc[r]] /\ txn = [txn EXCEPT ![r] = txn[r]]
         /\ response = [response EXCEPT ![r] = response[r]]
         /\ done = [done EXCEPT ![r] = done[r]]
         /\ response[r] \in Seq(Status) /\ done[r] \in BOOLEAN
BY DEF RestVarsOK

LEMMA RestVarsReceive ==
  ASSUME RestVarsOK, NEW r \in Client, Receive(r)  PROVE RestVarsOK'
<1>1. PICK q \in Ask[r] : ask' = [ask EXCEPT ![r] = q]  BY DEF Receive
<1>2. q \in Request  BY <1>1, RestAssumption
<1>3. /\ pc' = [pc EXCEPT ![r] = "asked"]
      /\ UNCHANGED <<response, txn, done>>
  BY DEF Receive, Goto
<1>4. AskRight'
  BY <1>1, <1>2, <1>3 DEF RestVarsOK, AskRight
<1>5. QED  BY <1>1, <1>2, <1>3, <1>4 DEF RestVarsOK, HandlerState

(* Handlers that have read a request know it.                              *)
LEMMA AskKnown ==
  ASSUME RestVarsOK, NEW r \in Client
  PROVE  /\ HandlerStep(r) /\ ~Receive(r) => ask[r] \in Request
         /\ Outcome(r) \/ ReplyStep(r) => ask[r] \in Request
<1>1. ASSUME HandlerStep(r), ~Receive(r)  PROVE pc[r] # "new"
  BY <1>1 DEF HandlerStep, ResolveRemote, Resolve, ResolveParams, GetContractOrABI,
       GetRemoteRegistrySwaggerOrABI, CallContract, CompileForm,
     StoreDeployableABI, StoreABIFile, RegisterContract, Registered, CheckName,
     SendTransaction, DispatchSync, DispatchAsync, AckAsync, CheckDone, Wait, At
<1>2. ASSUME Outcome(r) \/ ReplyStep(r)  PROVE txn[r] # "none"
  BY <1>2 DEF Outcome, ReplyStep, PostDeploy, PostDeployed, ReplyWithReceipt, SetDone,
     Broadcast, MarkReply
<1>3. QED  BY <1>1, <1>2 DEF RestVarsOK, AskRight

LEMMA RestVarsHandler ==
  ASSUME RestVarsOK, NEW r \in Client, HandlerStep(r), ~Receive(r)  PROVE RestVarsOK'
<1>1. ask[r] \in Request  BY AskKnown
<1>2. ASSUME NEW s \in Status, Respond(r, s)  PROVE RestVarsOK'
  BY <1>1, <1>2, Moved, Unmoved, Wrote DEF Respond, Goto, HandlerState, RestVarsOK
<1>3. ASSUME NEW p \in HandlerState, Continue(r, p)  PROVE RestVarsOK'
  BY <1>1, <1>3, Moved, Unmoved DEF Continue, Goto, RestVarsOK
<1>4. CASE DispatchSync(r) \/ DispatchAsync(r)
  <2>1. CASE Goto(r, "check") /\ TxnTo(r, "submitted") /\ UNCHANGED <<ask, response, done>>
    BY <1>1, <2>1, Moved, Unmoved DEF Goto, TxnTo, HandlerState, RestVarsOK
  <2>2. CASE Goto(r, "ack") /\ TxnTo(r, "submitted") /\ UNCHANGED <<ask, response, done>>
    BY <1>1, <2>2, Moved, Unmoved DEF Goto, TxnTo, HandlerState, RestVarsOK
  <2>3. CASE Respond(r, 500)  BY <1>2, <2>3 DEF Status
  <2>4. QED  BY <1>4, <2>1, <2>2, <2>3 DEF DispatchSync, DispatchAsync
<1>5. CASE ~(DispatchSync(r) \/ DispatchAsync(r))
  <2>1. (\E s \in Status : Respond(r, s)) \/ (\E p \in HandlerState : Continue(r, p))
    BY <1>5 DEF HandlerStep, ResolveRemote, Resolve, ResolveParams, GetContractOrABI,
       GetRemoteRegistrySwaggerOrABI, CallContract, CompileForm,
       StoreDeployableABI, StoreABIFile, RegisterContract, Registered, CheckName,
       SendTransaction, AckAsync, CheckDone, Wait, Status, HandlerState
  <2>2. QED  BY <1>2, <1>3, <2>1
<1>6. QED  BY <1>4, <1>5

LEMMA RestVarsReply ==
  ASSUME RestVarsOK, NEW r \in Client, Outcome(r) \/ ReplyStep(r)  PROVE RestVarsOK'
<1>1. ask[r] \in Request  BY AskKnown
<1>2. CASE Broadcast(r)
  <2>1. pc'[r] \in HandlerState \cup {pc[r]} /\ pc' = [pc EXCEPT ![r] = pc'[r]]
    BY <1>2 DEF Broadcast, RestVarsOK, HandlerState
  <2>2. txn' = [txn EXCEPT ![r] = "end"] /\ UNCHANGED <<ask, response, done>>
    BY <1>2 DEF Broadcast, TxnTo
  <2>3. QED  BY <1>1, <2>1, <2>2, Moved, Unmoved DEF RestVarsOK
<1>3. CASE ReplyWithReceipt(r)
  <2>1. PICK s \in Status : response' = [response EXCEPT ![r] = Append(@, s)]
    <3>1. CASE txn[r] = "posted"
      BY <1>3, <3>1 DEF ReplyWithReceipt, Status
    <3>2. CASE txn[r] # "posted"
      BY <1>3, <3>2 DEF ReplyWithReceipt, Status
    <3>3. QED  BY <3>1, <3>2
  <2>2. txn' = [txn EXCEPT ![r] = "written"] /\ UNCHANGED <<ask, pc, done>>
    BY <1>3 DEF ReplyWithReceipt, TxnTo
  <2>3. QED  BY <1>1, <2>1, <2>2, Moved, Unmoved, Wrote DEF RestVarsOK
<1>4. CASE SetDone(r)
  <2>1. /\ txn' = [txn EXCEPT ![r] = "broadcast"] /\ done' = [done EXCEPT ![r] = TRUE]
        /\ UNCHANGED <<ask, pc, response>>
    BY <1>4 DEF SetDone, TxnTo
  <2>2. QED  BY <1>1, <2>1, Moved, Unmoved DEF RestVarsOK
<1>5. CASE Outcome(r) \/ PostDeploy(r) \/ PostDeployed(r) \/ MarkReply(r)
  <2>1. /\ UNCHANGED <<ask, pc, response, done>>
        /\ \E t \in {"mined", "failed", "end"} \cup Consuming : txn' = [txn EXCEPT ![r] = t]
    BY <1>5 DEF Outcome, PostDeploy, PostDeployed, MarkReply, TxnTo, Consuming
  <2>2. PICK t \in {"mined", "failed", "end"} \cup Consuming : txn' = [txn EXCEPT ![r] = t]
    BY <2>1
  <2>3. QED  BY <1>1, <2>1, <2>2, Moved, Unmoved DEF RestVarsOK
<1>6. QED  BY <1>2, <1>3, <1>4, <1>5, AskKnown DEF ReplyStep

LEMMA RestVarsCrash == ASSUME RestVarsOK, Crash  PROVE RestVarsOK'
<1>1. pc' \in [Client -> {"new"} \cup HandlerState]  BY DEF Crash, RestVarsOK, HandlerState
<1>2. txn' \in [Client -> {"none", "submitted", "mined", "failed", "written",
                           "broadcast", "end"} \cup Consuming]
  BY DEF Crash, RestVarsOK
<1>3. \A r \in Client : /\ pc[r] = "new" => pc'[r] = "new"
                        /\ txn[r] = "none" => txn'[r] = "none"
  BY DEF Crash, Consuming
<1>4. AskRight'  BY <1>3 DEF RestVarsOK, AskRight, Crash
<1>5. QED  BY <1>1, <1>2, <1>4 DEF RestVarsOK, Crash

LEMMA RestVarsNext == RestVarsOK /\ [Next]_vars => RestVarsOK'
<1> SUFFICES ASSUME RestVarsOK, [Next]_vars  PROVE RestVarsOK'
  OBVIOUS
<1>1. CASE UNCHANGED restVars
  BY <1>1 DEF restVars, RestVarsOK, AskRight
<1>2. CASE \E r \in Client : HandlerStep(r) \/ Outcome(r) \/ ReplyStep(r)
  BY <1>2, RestVarsReceive, RestVarsHandler, RestVarsReply
<1>3. CASE Crash
  BY <1>3, RestVarsCrash
<1>4. QED  BY <1>1, <1>2, <1>3 DEF Next, FileStep, vars

-----------------------------------------------------------------------------
(* The API uses the index as ContractIndex says.                           *)

LEMMA IndexStep == RestVarsOK /\ [Next]_vars => [IndexNext]_indexVars
<1> SUFFICES ASSUME RestVarsOK, [Next]_vars  PROVE [IndexNext]_indexVars
  OBVIOUS
<1>1. ASSUME NEW r \in Client, HandlerStep(r)  PROVE [IndexNext]_indexVars
  <2>1. CASE Receive(r)
    BY <2>1 DEF Receive
  <2>2. CASE ~Receive(r)
    <3>1. ask[r] \in Request  BY <1>1, <2>2, AskKnown
    <3>2. ask[r].addr \in Addr /\ ask[r].newAbi \in Abi /\ ContractInfo(r) \in Info
      BY <3>1, ContractInfoType
    <3>3. r \in Writer  BY DEF Writer
    <3>4. CASE StoreDeployableABI(r)
      BY <3>2, <3>4 DEF StoreDeployableABI, IndexNext
    <3>5. CASE StoreABIFile(r)
      BY <3>2, <3>5 DEF StoreABIFile, IndexNext
    <3>6. CASE RegisterContract(r)
      BY <3>2, <3>6 DEF RegisterContract, IndexNext
    <3>7. CASE Registered(r)
      BY <3>3, <3>7 DEF Registered, IndexNext
    <3>8. CASE UNCHANGED indexVars  BY <3>8
    <3>9. QED
      BY <1>1, <2>2, <3>4, <3>5, <3>6, <3>7, <3>8 DEF HandlerStep, ResolveRemote, Resolve,
         ResolveParams, GetContractOrABI, GetRemoteRegistrySwaggerOrABI, CallContract,
         CompileForm, CheckName, SendTransaction, DispatchSync, DispatchAsync,
         AckAsync, CheckDone, Wait
  <2>3. QED  BY <2>1, <2>2
<1>2. ASSUME NEW r \in Client, Outcome(r) \/ ReplyStep(r)  PROVE [IndexNext]_indexVars
  <2>1. ask[r] \in Request  BY <1>2, AskKnown
  <2>2. ask[r].addr \in Addr /\ ContractInfo(r) \in Info  BY <2>1, ContractInfoType
  <2>3. r \in Writer  BY DEF Writer
  <2>4. CASE PostDeploy(r)
    BY <2>2, <2>4 DEF PostDeploy, IndexNext
  <2>5. CASE PostDeployed(r)
    BY <2>3, <2>5 DEF PostDeployed, IndexNext
  <2>6. CASE ~PostDeploy(r) /\ ~PostDeployed(r)
    BY <1>2, <2>6 DEF Outcome, ReplyStep, ReplyWithReceipt, SetDone, Broadcast, MarkReply
  <2>7. QED  BY <2>4, <2>5, <2>6
<1>3. CASE StartUp  BY <1>3 DEF IndexNext
<1>4. ASSUME NEW w \in Writer, FileStep(w)  PROVE [IndexNext]_indexVars
  BY <1>4 DEF FileStep, IndexNext
<1>5. CASE Crash  BY <1>5 DEF Crash, IndexNext
<1>6. CASE UNCHANGED vars  BY <1>6 DEF vars
<1>7. QED  BY <1>1, <1>2, <1>3, <1>4, <1>5, <1>6 DEF Next

LEMMA RestVarsAlways == Spec => []RestVarsOK
<1>1. Init => RestVarsOK  BY RestVarsInit
<1>2. QED  BY <1>1, RestVarsNext, PTL DEF Spec

(* The whole gateway is an implementation of the contract index.           *)
THEOREM GatewayUsesIndex == Spec => IndexSpec
<1>1. Init => IndexInit  BY DEF Init
<1>2. QED  BY <1>1, IndexStep, RestVarsAlways, PTL DEF Spec, IndexSpec

(* Every state of the gateway has its types.                               *)
THEOREM GatewayTypeCorrect == Spec => []RestTypeOK
<1>1. IndexTypeOK /\ RestVarsOK => RestTypeOK  BY TypeSplit
<1>2. QED  BY <1>1, GatewayUsesIndex, IndexTypeCorrect, RestVarsAlways, PTL

(* No two contracts of a gateway are ever stored with one name, whatever   *)
(* its clients and replies do at the same time.                            *)
THEOREM GatewayNamesUnique == Spec => []NamesUnique
BY GatewayUsesIndex, NamesAlwaysUnique

(* A serving gateway leads from every stored name to its contract.         *)
THEOREM GatewayServesStored == Spec => []StoredIsServed
BY GatewayUsesIndex, StoredAlwaysServed

(* The names a gateway stores follow NameRegistry.                         *)
THEOREM GatewayNamesFollow == Spec => NamesFollowRegistry
BY GatewayUsesIndex, NamesFollow

-----------------------------------------------------------------------------
(* A client is answered once.  Until its transaction is dispatched only    *)
(* the handler writes, and returns with that; a synchronous transaction    *)
(* leaves the writing to the goroutine that replies, and the handler       *)
(* returns when done says that it has written.                             *)
Unanswered(r) == response[r] = <<>> /\ ~done[r]

AnswerRight(r) ==
  /\ Len(response[r]) <= 1
  /\ pc[r] \in {"new", "asked", "resolved", "registering", "store", "dispatch", "send"}
       => txn[r] = "none" /\ Unanswered(r)
  /\ pc[r] = "ack" => Async(r) /\ Unanswered(r)
  /\ pc[r] \in {"check", "towait", "asleep"} => ~Async(r) /\ txn[r] # "none"
  /\ ~Async(r) /\ txn[r] \in {"submitted", "mined", "failed"} \cup Consuming
       => Unanswered(r) /\ pc[r] \in {"check", "towait", "asleep"}
  /\ txn[r] \in {"written", "broadcast"} => ~Async(r) /\ response[r] # <<>>
  /\ done[r] => response[r] # <<>>
  /\ pc[r] = "returned" => response[r] # <<>>

AnswersRight == \A r \in Client : AnswerRight(r)

LEMMA AnswersInit == Init => AnswersRight
BY DEF Init, AnswersRight, AnswerRight, Unanswered, Consuming

(* Steps of one client leave the answers of the others as they are.        *)
LEMMA Others ==
  ASSUME RestVarsOK, AnswersRight, NEW r \in Client,
         \A q \in Client \ {r} : /\ ask'[q] = ask[q] /\ pc'[q] = pc[q] /\ txn'[q] = txn[q]
                                 /\ response'[q] = response[q] /\ done'[q] = done[q],
         AnswerRight(r)'
  PROVE  AnswersRight'
<1>1. ASSUME NEW q \in Client, q # r  PROVE AnswerRight(q)'
  BY <1>1 DEF AnswersRight, AnswerRight, Unanswered, Async
<1>2. QED  BY <1>1 DEF AnswersRight

(* The first answer.                                                       *)
LEMMA FirstAnswer ==
  ASSUME RestVarsOK, NEW r \in Client, NEW s \in Status, response[r] = <<>>,
         response' = [response EXCEPT ![r] = Append(@, s)]
  PROVE  Len(response'[r]) = 1 /\ response'[r] # <<>>
<1>1. response'[r] = Append(<<>>, s)  BY DEF RestVarsOK
<1>2. QED  BY <1>1

Early == {"new", "asked", "resolved", "registering", "store", "dispatch", "send"}

LEMMA AnswersHandler ==
  ASSUME RestVarsOK, AnswersRight, NEW r \in Client, HandlerStep(r)
  PROVE  AnswersRight'
<1> USE DEF Consuming
<1>0. AnswerRight(r)  BY DEF AnswersRight
<1>1. ASSUME pc[r] \in Early \cup {"ack"}, NEW s \in Status, Respond(r, s)
      PROVE  AnswersRight'
  <2>1. Unanswered(r) /\ (pc[r] = "ack" => Async(r)) /\ (pc[r] # "ack" => txn[r] = "none")
    BY <1>0, <1>1 DEF AnswerRight, Early
  <2>2. /\ pc' = [pc EXCEPT ![r] = "returned"] /\ UNCHANGED <<ask, txn, done>>
        /\ response' = [response EXCEPT ![r] = Append(@, s)]
    BY <1>1 DEF Respond, Goto
  <2>3. Len(response'[r]) = 1 /\ response'[r] # <<>>
    BY <2>1, <2>2, FirstAnswer DEF Unanswered
  <2>4. pc'[r] = "returned" /\ (Async(r)' <=> Async(r))
    BY <2>2 DEF RestVarsOK, Async
  <2>5. Async(r)' \/ txn[r] = "none"
    BY <2>1, <2>4
  <2>6. txn'[r] = txn[r] /\ done'[r] = done[r]
    BY <2>2
  <2>7. AnswerRight(r)'
    <3>1. ~(pc'[r] \in Early \cup {"ack", "check", "towait", "asleep"})
      BY <2>4 DEF Early
    <3>2. ~Async(r)' => txn'[r] = "none"
      BY <2>5, <2>6
    <3>3. ~(txn'[r] \in {"written", "broadcast"}) \/ (~Async(r)' /\ response'[r] # <<>>)
      BY <1>0, <2>1, <2>3, <2>4, <2>6 DEF AnswerRight
    <3>4. QED
      BY <2>3, <3>1, <3>2, <3>3 DEF AnswerRight, Early
  <2>8. QED  BY <2>2, <2>7, Others DEF RestVarsOK
<1>2. ASSUME pc[r] \in Early, NEW p \in Early, Continue(r, p)  PROVE AnswersRight'
  <2>1. /\ pc' = [pc EXCEPT ![r] = p] /\ UNCHANGED <<ask, response, txn, done>>
    BY <1>2 DEF Continue, Goto
  <2>2. pc'[r] \in Early  BY <2>1 DEF RestVarsOK
  <2>3. AnswerRight(r)'
    BY <1>0, <1>2, <2>1, <2>2 DEF AnswerRight, Unanswered, Early, Async
  <2>4. QED  BY <2>1, <2>3, Others DEF RestVarsOK
<1>3. CASE Receive(r)
  <2>1. PICK q \in Ask[r] : ask' = [ask EXCEPT ![r] = q]  BY <1>3 DEF Receive
  <2>2. /\ pc[r] = "new" /\ pc' = [pc EXCEPT ![r] = "asked"]
        /\ UNCHANGED <<response, txn, done>>
    BY <1>3 DEF Receive, At, Goto
  <2>3. AnswerRight(r)'
    BY <1>0, <2>2 DEF AnswerRight, Unanswered, RestVarsOK
  <2>4. QED  BY <2>1, <2>2, <2>3, Others DEF RestVarsOK
<1>4. CASE DispatchSync(r) \/ (DispatchAsync(r) /\ ~Respond(r, 500))
  <2>1. /\ pc[r] \in Early /\ txn' = [txn EXCEPT ![r] = "submitted"]
        /\ UNCHANGED <<ask, response, done>>
        /\ \/ ~Async(r) /\ pc' = [pc EXCEPT ![r] = "check"]
           \/ Async(r) /\ pc' = [pc EXCEPT ![r] = "ack"]
    BY <1>4 DEF DispatchSync, DispatchAsync, At, Goto, TxnTo, Early
  <2>2. Unanswered(r)  BY <1>0, <2>1 DEF AnswerRight, Early
  <2>3. /\ txn'[r] = "submitted" /\ (Async(r)' <=> Async(r))
        /\ pc'[r] = IF Async(r) THEN "ack" ELSE "check"
    BY <2>1 DEF RestVarsOK, Async
  <2>4. AnswerRight(r)'
    BY <1>0, <2>1, <2>2, <2>3 DEF AnswerRight, Unanswered
  <2>5. QED  BY <2>1, <2>4, Others DEF RestVarsOK
<1>5. CASE CheckDone(r) \/ Wait(r)
  <2>1. /\ UNCHANGED <<ask, response, txn, done>>
        /\ pc[r] \in {"check", "towait"}
        /\ \/ done[r] /\ pc' = [pc EXCEPT ![r] = "returned"]
           \/ pc' = [pc EXCEPT ![r] = "towait"]
           \/ pc' = [pc EXCEPT ![r] = "asleep"]
    BY <1>5 DEF CheckDone, Wait, Continue, Goto
  <2>2. /\ pc'[r] \in {"returned", "towait", "asleep"}
        /\ pc'[r] = "returned" => done[r]
        /\ Async(r)' <=> Async(r)
    BY <2>1 DEF RestVarsOK, Async
  <2>3. AnswerRight(r)'
    BY <1>0, <2>1, <2>2 DEF AnswerRight, Unanswered
  <2>4. QED  BY <2>1, <2>3, Others DEF RestVarsOK
<1>6. CASE \/ ResolveRemote(r) \/ Resolve(r) \/ ResolveParams(r)
           \/ GetContractOrABI(r) \/ GetRemoteRegistrySwaggerOrABI(r) \/ CallContract(r)
           \/ CompileForm(r)
           \/ StoreDeployableABI(r) \/ StoreABIFile(r) \/ RegisterContract(r)
           \/ Registered(r) \/ CheckName(r) \/ SendTransaction(r) \/ AckAsync(r)
           \/ (DispatchAsync(r) /\ Respond(r, 500))
  <2>1. pc[r] \in Early \cup {"ack"}
    BY <1>6 DEF ResolveRemote, Resolve, ResolveParams, GetContractOrABI,
       GetRemoteRegistrySwaggerOrABI, CallContract, CompileForm, StoreDeployableABI,
       StoreABIFile, RegisterContract, Registered, CheckName, SendTransaction, AckAsync,
       DispatchAsync, At, Early
  <2>2. \/ \E s \in Status : Respond(r, s)
        \/ pc[r] # "ack" /\ \E p \in Early : Continue(r, p)
    BY <1>6 DEF ResolveRemote, Resolve, ResolveParams, GetContractOrABI,
       GetRemoteRegistrySwaggerOrABI, CallContract, CompileForm, StoreDeployableABI,
       StoreABIFile, RegisterContract, Registered, CheckName, SendTransaction, AckAsync,
       At, Early, Status
  <2>3. QED  BY <1>1, <1>2, <2>1, <2>2 DEF Early
<1>7. QED  BY <1>3, <1>4, <1>5, <1>6 DEF HandlerStep

LEMMA AnswersReply ==
  ASSUME RestVarsOK, AnswersRight, NEW r \in Client, Outcome(r) \/ ReplyStep(r)
  PROVE  AnswersRight'
<1> USE DEF Consuming
<1>0. AnswerRight(r)  BY DEF AnswersRight
<1>1. UNCHANGED ask /\ (Async(r)' <=> Async(r))
  BY DEF Outcome, ReplyStep, PostDeploy, PostDeployed, ReplyWithReceipt, SetDone,
     Broadcast, MarkReply, Async
<1>2. CASE ReplyWithReceipt(r)
  <2>1. PICK s \in Status : response' = [response EXCEPT ![r] = Append(@, s)]
    <3>1. CASE txn[r] = "posted"
      BY <1>2, <3>1 DEF ReplyWithReceipt, Status
    <3>2. CASE txn[r] # "posted"
      BY <1>2, <3>2 DEF ReplyWithReceipt, Status
    <3>3. QED  BY <3>1, <3>2
  <2>2. /\ ~Async(r) /\ txn[r] \in {"posted", "refused", "failed"}
        /\ txn' = [txn EXCEPT ![r] = "written"] /\ UNCHANGED <<pc, done>>
    BY <1>2 DEF ReplyWithReceipt, TxnTo
  <2>3. Unanswered(r) /\ pc[r] \in {"check", "towait", "asleep"}
    BY <1>0, <2>2 DEF AnswerRight
  <2>4. Len(response'[r]) = 1 /\ response'[r] # <<>>
    BY <2>1, <2>3, FirstAnswer DEF Unanswered
  <2>5. txn'[r] = "written"  BY <2>2 DEF RestVarsOK
  <2>6. AnswerRight(r)'
    BY <1>1, <2>2, <2>3, <2>4, <2>5 DEF AnswerRight, Unanswered
  <2>7. QED  BY <1>1, <2>1, <2>2, <2>6, Others DEF RestVarsOK
<1>3. CASE SetDone(r)
  <2>1. /\ txn[r] = "written" /\ txn' = [txn EXCEPT ![r] = "broadcast"]
        /\ done' = [done EXCEPT ![r] = TRUE] /\ UNCHANGED <<pc, response>>
    BY <1>3 DEF SetDone, TxnTo
  <2>2. txn'[r] = "broadcast" /\ done'[r]  BY <2>1 DEF RestVarsOK
  <2>3. AnswerRight(r)'
    BY <1>0, <1>1, <2>1, <2>2 DEF AnswerRight, Unanswered
  <2>4. QED  BY <1>1, <2>1, <2>3, Others DEF RestVarsOK
<1>4. CASE Broadcast(r)
  <2>1. /\ txn[r] = "broadcast" /\ txn' = [txn EXCEPT ![r] = "end"]
        /\ UNCHANGED <<response, done>>
        /\ \A q \in Client \ {r} : pc'[q] = pc[q]
        /\ pc'[r] = pc[r] \/ (pc[r] = "asleep" /\ pc'[r] = "check")
    BY <1>4 DEF Broadcast, TxnTo, RestVarsOK
  <2>2. txn'[r] = "end"  BY <2>1 DEF RestVarsOK
  <2>3. AnswerRight(r)'
    BY <1>0, <1>1, <2>1, <2>2 DEF AnswerRight, Unanswered
  <2>4. QED  BY <1>1, <2>1, <2>3, Others DEF RestVarsOK
<1>5. CASE Outcome(r) \/ PostDeploy(r) \/ PostDeployed(r)
  <2>1. /\ UNCHANGED <<pc, response, done>>
        /\ txn[r] \in {"submitted", "mined", "posting"}
        /\ \E t \in {"mined", "failed"} \cup Consuming : txn' = [txn EXCEPT ![r] = t]
    BY <1>5 DEF Outcome, PostDeploy, PostDeployed, TxnTo
  <2>2. PICK t \in {"mined", "failed"} \cup Consuming : txn' = [txn EXCEPT ![r] = t]
    BY <2>1
  <2>3. txn'[r] = t  BY <2>2 DEF RestVarsOK
  <2>4. AnswerRight(r)'
    BY <1>0, <1>1, <2>1, <2>3 DEF AnswerRight, Unanswered
  <2>5. QED  BY <1>1, <2>1, <2>2, <2>4, Others DEF RestVarsOK
<1>6. CASE MarkReply(r)
  <2>1. /\ Async(r) /\ UNCHANGED <<pc, response, done>>
        /\ txn[r] # "none" /\ txn' = [txn EXCEPT ![r] = "end"]
    BY <1>6 DEF MarkReply, TxnTo
  <2>2. txn'[r] = "end"  BY <2>1 DEF RestVarsOK
  <2>3. AnswerRight(r)'
    BY <1>0, <1>1, <2>1, <2>2 DEF AnswerRight, Unanswered
  <2>4. QED  BY <1>1, <2>1, <2>3, Others DEF RestVarsOK
<1>7. QED  BY <1>2, <1>3, <1>4, <1>5, <1>6 DEF ReplyStep

LEMMA AnswersCrash ==
  ASSUME RestVarsOK, AnswersRight, Crash  PROVE AnswersRight'
<1> USE DEF Consuming
<1> SUFFICES ASSUME NEW r \in Client  PROVE AnswerRight(r)'
  BY DEF AnswersRight
<1>0. AnswerRight(r)  BY DEF AnswersRight
<1>1. UNCHANGED <<ask, response, done>> /\ (Async(r)' <=> Async(r))  BY DEF Crash, Async
<1>2. /\ pc[r] \in {"new", "returned"} => pc'[r] = pc[r]
      /\ pc[r] \notin {"new", "returned"} => pc'[r] = "gone"
  BY DEF Crash
<1>3. /\ txn[r] = "none" => txn'[r] = "none"
      /\ ~Async(r) /\ txn[r] # "none" => txn'[r] = "end"
      /\ Async(r) => txn'[r] = txn[r] \/ txn'[r] = "mined"
  <2>1. txn'[r] = CASE Async(r) /\ txn[r] \in Consuming -> "mined"
                    [] ~Async(r) /\ txn[r] # "none" -> "end"
                    [] OTHER -> txn[r]
    BY DEF Crash
  <2>2. CASE Async(r) /\ txn[r] \in Consuming  BY <2>1, <2>2
  <2>3. CASE ~Async(r) /\ txn[r] # "none"  BY <2>1, <2>3
  <2>4. CASE /\ ~(Async(r) /\ txn[r] \in Consuming)
             /\ ~(~Async(r) /\ txn[r] # "none")
    BY <2>1, <2>4
  <2>5. QED  BY <2>2, <2>3, <2>4
<1>4. QED
  BY <1>0, <1>1, <1>2, <1>3 DEF AnswerRight, Unanswered

LEMMA AnswersNext == RestVarsOK /\ AnswersRight /\ [Next]_vars => AnswersRight'
<1> SUFFICES ASSUME RestVarsOK, AnswersRight, [Next]_vars  PROVE AnswersRight'
  OBVIOUS
<1>1. CASE UNCHANGED restVars
  BY <1>1 DEF restVars, AnswersRight, AnswerRight, Unanswered, Async
<1>2. QED
  BY <1>1, AnswersHandler, AnswersReply, AnswersCrash DEF Next, FileStep, vars

(* No client is ever answered twice, and no handler returns, which would   *)
(* end its response, before its answer was written (rest2eth.go: for       *)
(* !responder.done).                                                       *)
THEOREM ClientsAnsweredOnce == Spec => []RespondsOnce
<1>1. Init => AnswersRight  BY AnswersInit
<1>2. AnswersRight => RespondsOnce
  BY DEF AnswersRight, AnswerRight, RespondsOnce
<1>3. QED  BY <1>1, <1>2, AnswersNext, RestVarsAlways, PTL DEF Spec

-----------------------------------------------------------------------------
(* The ABI of every contract that is listed is there                       *)

(* What a client asks for is one of its requests.                          *)
AskedFor ==
  \A r \in Client : /\ ask[r] # NoRequest => ask[r] \in Ask[r]
                    /\ pc[r] = "new" => ask[r] = NoRequest

(* A contract is stored, served or being stored with an ABI on disk ...    *)
AbisStored ==
  /\ \A a \in Addr : instances[a] \in Info => instances[a].abi \in abiFiles
  /\ \A a \in Legacy : LegacyInfo[a].abi \in abiFiles
  /\ \A a \in Addr : contractIndex[a] # NoInfo => contractIndex[a].abi \in abiFiles
  /\ \A w \in Writer : job[w] # Idle => job[w].info.abi \in abiFiles

(* ... that a request found there or has put there.                        *)
AbiFound(r) ==
  /\ pc[r] \in {"resolved", "dispatch"} /\ ask[r].by = "abi" => ask[r].abi \in abiFiles
  /\ pc[r] = "send" => ask[r].newAbi \in abiFiles
  /\ txn[r] # "none" /\ ask[r].op = "deploy" /\ ask[r].by = "abi"
       => ContractInfo(r).abi \in abiFiles

AbisRight == failures = 0 => AbisStored /\ \A r \in Client : AbiFound(r)

(* A running gateway has the ABIs on disk in memory.                       *)
AbisIndexed ==
  /\ abiWrites \subseteq abiIndex
  /\ phase # "down" => abiFiles \subseteq abiIndex
  /\ phase = "down" => abiWrites = {}

LEMMA AskedForInit == Init => AskedFor
BY DEF Init, AskedFor

(* What a step of the client r does to the API's own state: all of it is   *)
(* about r, and only Receive asks.                                         *)
StepIsOf(r) ==
  /\ \A q \in Client \ {r} : /\ ask'[q] = ask[q] /\ pc'[q] = pc[q] /\ txn'[q] = txn[q]
                            /\ response'[q] = response[q]
  /\ pc'[r] # "new" \/ pc'[r] = pc[r]
  /\ Receive(r) \/ UNCHANGED ask

LEMMA HandlerShape ==
  ASSUME NEW r \in Client, HandlerStep(r), ~Receive(r)
  PROVE  \/ \E s \in Status : Respond(r, s)
         \/ \E p \in HandlerState : Continue(r, p)
         \/ /\ DispatchSync(r) \/ DispatchAsync(r)
            /\ \E p \in {"check", "ack"} : Goto(r, p)
            /\ TxnTo(r, "submitted") /\ UNCHANGED <<ask, response, done>>
<1>1. CASE DispatchSync(r) \/ DispatchAsync(r)
  BY <1>1 DEF DispatchSync, DispatchAsync, Status
<1>2. CASE ~(DispatchSync(r) \/ DispatchAsync(r))
  BY <1>2 DEF HandlerStep, ResolveRemote, Resolve, ResolveParams, GetContractOrABI,
     GetRemoteRegistrySwaggerOrABI, CallContract, CompileForm,
     StoreDeployableABI, StoreABIFile, RegisterContract, Registered, CheckName,
     SendTransaction, AckAsync, CheckDone, Wait, Status, HandlerState
<1>3. QED  BY <1>1, <1>2

LEMMA StepOfClient ==
  ASSUME RestVarsOK, NEW r \in Client, HandlerStep(r) \/ Outcome(r) \/ ReplyStep(r)
  PROVE  StepIsOf(r)
<1>1. CASE Receive(r)
  <2>1. PICK q \in Ask[r] : ask' = [ask EXCEPT ![r] = q]  BY <1>1 DEF Receive
  <2>2. pc' = [pc EXCEPT ![r] = "asked"] /\ UNCHANGED <<response, txn>>
    BY <1>1 DEF Receive, Goto
  <2>3. QED  BY <1>1, <2>1, <2>2 DEF RestVarsOK, StepIsOf
<1>2. CASE HandlerStep(r) /\ ~Receive(r)
  <2>1. ASSUME NEW s \in Status, Respond(r, s)  PROVE StepIsOf(r)
    <3>1. /\ pc' = [pc EXCEPT ![r] = "returned"] /\ UNCHANGED <<ask, txn>>
          /\ response' = [response EXCEPT ![r] = Append(@, s)]
      BY <2>1 DEF Respond, Goto
    <3>2. QED  BY <3>1 DEF RestVarsOK, StepIsOf
  <2>2. ASSUME NEW p \in HandlerState, Continue(r, p)  PROVE StepIsOf(r)
    <3>1. pc' = [pc EXCEPT ![r] = p] /\ UNCHANGED <<ask, response, txn>>
      BY <2>2 DEF Continue, Goto
    <3>2. p # "new"  BY DEF HandlerState
    <3>3. QED  BY <3>1, <3>2 DEF RestVarsOK, StepIsOf
  <2>3. ASSUME NEW p \in {"check", "ack"}, Goto(r, p), TxnTo(r, "submitted"),
               UNCHANGED <<ask, response, done>>
        PROVE  StepIsOf(r)
    <3>1. pc' = [pc EXCEPT ![r] = p] /\ txn' = [txn EXCEPT ![r] = "submitted"]
      BY <2>3 DEF Goto, TxnTo
    <3>2. QED  BY <2>3, <3>1 DEF RestVarsOK, StepIsOf
  <2>4. QED  BY <1>2, <2>1, <2>2, <2>3, HandlerShape
<1>3. CASE Outcome(r) \/ ReplyStep(r)
  <2>1. /\ UNCHANGED ask
        /\ \E t : txn' = [txn EXCEPT ![r] = t]
        /\ pc' = pc \/ pc' = [pc EXCEPT ![r] = IF @ = "asleep" THEN "check" ELSE @]
        /\ response' = response \/ \E s : response' = [response EXCEPT ![r] = Append(@, s)]
    BY <1>3 DEF Outcome, ReplyStep, PostDeploy, PostDeployed, ReplyWithReceipt, SetDone,
       Broadcast, MarkReply, TxnTo
  <2>2. \A q \in Client \ {r} : ask'[q] = ask[q] /\ pc'[q] = pc[q] /\ txn'[q] = txn[q]
    BY <2>1 DEF RestVarsOK
  <2>3. \A q \in Client \ {r} : response'[q] = response[q]
    BY <2>1 DEF RestVarsOK
  <2>4. pc'[r] # "new" \/ pc'[r] = pc[r]
    BY <2>1 DEF RestVarsOK
  <2>5. QED  BY <2>1, <2>2, <2>3, <2>4 DEF StepIsOf
<1>4. QED  BY <1>1, <1>2, <1>3

LEMMA AskedForNext == RestVarsOK /\ AskedFor /\ [Next]_vars => AskedFor'
<1> SUFFICES ASSUME RestVarsOK, AskedFor, [Next]_vars  PROVE AskedFor'
  OBVIOUS
<1>1. ASSUME UNCHANGED ask, \A r \in Client : pc'[r] = "new" => pc[r] = "new"
      PROVE  AskedFor'
  BY <1>1 DEF AskedFor
<1>2. CASE UNCHANGED restVars
  BY <1>1, <1>2 DEF restVars
<1>3. ASSUME NEW r \in Client, HandlerStep(r) \/ Outcome(r) \/ ReplyStep(r), ~Receive(r)
      PROVE  AskedFor'
  BY <1>1, <1>3, StepOfClient DEF StepIsOf
<1>4. ASSUME NEW r \in Client, Receive(r)  PROVE AskedFor'
  <2>1. PICK q \in Ask[r] : ask' = [ask EXCEPT ![r] = q]  BY <1>4 DEF Receive
  <2>2. pc' = [pc EXCEPT ![r] = "asked"]  BY <1>4 DEF Receive, Goto
  <2>3. QED  BY <2>1, <2>2 DEF AskedFor, RestVarsOK
<1>5. CASE Crash
  BY <1>1, <1>5 DEF Crash
<1>6. QED  BY <1>2, <1>3, <1>4, <1>5 DEF Next, FileStep, vars

(* A registration names its ABI, a deployment does or has it from a remote *)
(* registry.                                                               *)
LEMMA ByAbi ==
  ASSUME AskedFor, NEW r \in Client, ask[r] # NoRequest
  PROVE  /\ ask[r].op = "register" => ask[r].by = "abi"
         /\ ask[r].op = "deploy" /\ ask[r].by # "remote" => ask[r].by = "abi"
BY RestAssumption DEF AskedFor

LEMMA AbisIndexedInit == Init => AbisIndexed
BY DEF Init, IndexInit, AbisIndexed

LEMMA AbisIndexedNext == AbisIndexed /\ [IndexNext]_indexVars => AbisIndexed'
<1> USE DEF diskVars, mapVars
<1> SUFFICES ASSUME AbisIndexed, [IndexNext]_indexVars  PROVE AbisIndexed'
  OBVIOUS
<1>1. CASE StartUp
  BY <1>1 DEF StartUp, BuildIndex, RemoveLegacy, Serve, AddFileToContractIndex,
     MigrateLegacyContract, IsNext, AbisIndexed
<1>2. CASE CrashIndex
  BY <1>2 DEF CrashIndex, AbisIndexed
<1>3. ASSUME NEW w \in Writer, StoreFile(w) \/ Return(w)  PROVE AbisIndexed'
  BY <1>3 DEF StoreFile, OpenFile, WriteFile, WriteFileFails, Return, AbisIndexed
<1>4. ASSUME NEW w \in Client, NEW a \in Addr, NEW info \in Info,
             StoreNewContractInfo(w, a, info)
      PROVE  AbisIndexed'
  BY <1>4 DEF StoreNewContractInfo, AbisIndexed
<1>5. ASSUME NEW i \in Abi, AddToABIIndex(i) \/ WriteAbiInfo(i)  PROVE AbisIndexed'
  BY <1>5 DEF AddToABIIndex, WriteAbiInfo, AbisIndexed
<1>6. CASE UNCHANGED indexVars
  BY <1>6 DEF indexVars, AbisIndexed
<1>7. QED  BY <1>1, <1>2, <1>3, <1>4, <1>5, <1>6 DEF IndexNext

(* ABIs stay, and a failure is not forgotten.                              *)
LEMMA AbisStay ==
  ASSUME IndexTypeOK, [IndexNext]_indexVars
  PROVE  abiFiles \subseteq abiFiles' /\ (failures' = 0 => failures = 0)
<1> USE DEF diskVars, mapVars
<1>1. failures \in Nat  BY DEF IndexTypeOK
<1>2. UNCHANGED failures \/ failures' = failures + 1
  BY DEF IndexNext, StartUp, BuildIndex, RemoveLegacy, Serve, AddFileToContractIndex,
     MigrateLegacyContract, CrashIndex, StoreFile, OpenFile, WriteFile, WriteFileFails,
     Return, StoreNewContractInfo, AddToABIIndex, WriteAbiInfo, Fail, indexVars
<1>3. abiFiles \subseteq abiFiles'
  BY DEF IndexNext, StartUp, BuildIndex, RemoveLegacy, Serve, AddFileToContractIndex,
     MigrateLegacyContract, CrashIndex, StoreFile, OpenFile, WriteFile, WriteFileFails,
     Return, StoreNewContractInfo, AddToABIIndex, WriteAbiInfo, indexVars
<1>4. QED  BY <1>1, <1>2, <1>3

LEMMA AbisStoredKept ==
  ASSUME IndexTypeOK, AbisStored, abiFiles \subseteq abiFiles',
         UNCHANGED <<instances, contractIndex>>,
         job' = job \/ \E w \in Writer : job' = [job EXCEPT ![w] = Idle]
                  \/ \E s : job[w] # Idle /\ Step(w, s)
  PROVE  AbisStored'
<1>1. \A v \in Writer : job'[v] # Idle => job[v] # Idle /\ job'[v].info = job[v].info
  <2>1. CASE job' = job  BY <2>1
  <2>2. ASSUME NEW w \in Writer, job' = [job EXCEPT ![w] = Idle]
        PROVE  \A v \in Writer : job'[v] # Idle => job[v] # Idle /\ job'[v].info = job[v].info
    BY <2>2 DEF IndexTypeOK
  <2>3. ASSUME NEW w \in Writer, NEW s, job[w] # Idle, Step(w, s)
        PROVE  \A v \in Writer : job'[v] # Idle => job[v] # Idle /\ job'[v].info = job[v].info
    <3>1. job[w] \in Job  BY <2>3, JobType
    <3>2. job' = [job EXCEPT ![w] = [job[w] EXCEPT !.step = s]]
      BY <2>3 DEF Step
    <3>3. [job[w] EXCEPT !.step = s].info = job[w].info
      BY <3>1 DEF Job
    <3>4. QED  BY <2>3, <3>2, <3>3 DEF IndexTypeOK
  <2>4. QED  BY <2>1, <2>2, <2>3
<1>2. QED  BY <1>1 DEF AbisStored

LEMMA AbisStoredStart ==
  ASSUME IndexTypeOK, AbisStored, StartUp \/ CrashIndex
  PROVE  AbisStored'
<1> USE DEF diskVars, mapVars
<1>0. abiFiles' = abiFiles
  BY DEF StartUp, BuildIndex, RemoveLegacy, Serve, AddFileToContractIndex,
     MigrateLegacyContract, CrashIndex
<1>1. CASE BuildIndex \/ Serve
  BY <1>1, AbisStoredKept DEF BuildIndex, Serve
<1>2. CASE RemoveLegacy
  <2>1. UNCHANGED <<instances, contractIndex>> /\ job' = [job EXCEPT ![Main] = Idle]
    BY <1>2 DEF RemoveLegacy
  <2>2. Main \in Writer  BY DEF Writer
  <2>3. QED  BY <1>0, <2>1, <2>2, AbisStoredKept
<1>3. ASSUME NEW a \in Addr, AddFileToContractIndex(a)  PROVE AbisStored'
  <2>1. UNCHANGED <<instances, job>>  BY <1>3 DEF AddFileToContractIndex
  <2>2. \/ contractIndex' = contractIndex
        \/ /\ instances[a] \in Info
           /\ contractIndex' = [contractIndex EXCEPT ![a] = instances[a]]
    BY <1>3 DEF AddFileToContractIndex, AddToContractIndex
  <2>3. \A b \in Addr : contractIndex'[b] # NoInfo => contractIndex'[b].abi \in abiFiles
    BY <2>2 DEF AbisStored, IndexTypeOK
  <2>4. QED  BY <1>0, <2>1, <2>3 DEF AbisStored
<1>4. ASSUME NEW a \in Addr, MigrateLegacyContract(a)  PROVE AbisStored'
  <2>1. a \in Legacy
    BY <1>4 DEF MigrateLegacyContract, IsNext, IndexTypeOK, Entry
  <2>2. LegacyInfo[a].abi \in abiFiles  BY <2>1 DEF AbisStored
  <2>3. CASE NameAvailable(LegacyInfo[a].name)
    <3>1. /\ contractIndex' = [contractIndex EXCEPT ![a] = LegacyInfo[a]]
          /\ job' = [job EXCEPT ![Main] = [step |-> "open", addr |-> a, info |-> LegacyInfo[a]]]
          /\ UNCHANGED instances
      BY <1>4, <2>3 DEF MigrateLegacyContract, StoreContractInfo, AddToContractIndex
    <3>2. \A b \in Addr : contractIndex'[b] # NoInfo => contractIndex'[b].abi \in abiFiles
      BY <2>2, <3>1 DEF AbisStored, IndexTypeOK
    <3>3. \A w \in Writer : job'[w] # Idle => job'[w].info.abi \in abiFiles
      BY <2>2, <3>1 DEF AbisStored, IndexTypeOK
    <3>4. QED  BY <1>0, <3>1, <3>2, <3>3 DEF AbisStored
  <2>4. CASE ~NameAvailable(LegacyInfo[a].name)
    BY <1>0, <1>4, <2>4, AbisStoredKept DEF MigrateLegacyContract
  <2>5. QED  BY <2>3, <2>4
<1>5. CASE CrashIndex
  <2>1. /\ UNCHANGED instances /\ contractIndex' = [a \in Addr |-> NoInfo]
        /\ job' = [w \in Writer |-> Idle]
    BY <1>5 DEF CrashIndex
  <2>2. QED  BY <1>0, <2>1 DEF AbisStored
<1>6. QED  BY <1>1, <1>2, <1>3, <1>4, <1>5 DEF StartUp

LEMMA AbisStoredWrite ==
  ASSUME IndexTypeOK, AbisStored, NEW w \in Writer, StoreFile(w) \/ Return(w)
  PROVE  AbisStored'
<1> USE DEF diskVars, mapVars
<1>1. CASE OpenFile(w) \/ WriteFile(w)
  <2>1. UNCHANGED <<abiFiles, contractIndex>> /\ job[w].step \in {"open", "write"}
    BY <1>1 DEF OpenFile, WriteFile
  <2>2. job[w] # Idle  BY <2>1, NotIdle
  <2>3. PICK s : Step(w, s)  BY <1>1 DEF OpenFile, WriteFile
  <2>4. PICK f \in {Torn, job[w].info} : instances' = [instances EXCEPT ![job[w].addr] = f]
    BY <1>1 DEF OpenFile, WriteFile
  <2>5. Torn \notin Info  BY IndexAssumption
  <2>6. job[w].info.abi \in abiFiles  BY <2>2 DEF AbisStored
  <2>7. \A a \in Addr : instances'[a] \in Info => instances'[a].abi \in abiFiles
    BY <2>4, <2>5, <2>6 DEF AbisStored, IndexTypeOK
  <2>8. job[w] \in Job  BY <2>2, JobType
  <2>9. job' = [job EXCEPT ![w] = [job[w] EXCEPT !.step = s]]
    BY <2>3 DEF Step
  <2>10. [job[w] EXCEPT !.step = s].info = job[w].info  BY <2>8 DEF Job
  <2>11. \A v \in Writer : job'[v] # Idle => job'[v].info.abi \in abiFiles
    BY <2>6, <2>9, <2>10 DEF AbisStored, IndexTypeOK
  <2>12. QED  BY <2>1, <2>7, <2>11 DEF AbisStored
<1>2. CASE WriteFileFails(w)
  <2>1. job[w] # Idle  BY <1>2, NotIdle DEF WriteFileFails
  <2>2. UNCHANGED <<instances, abiFiles, contractIndex>> /\ Step(w, "failed")
    BY <1>2 DEF WriteFileFails
  <2>3. QED  BY <2>1, <2>2, AbisStoredKept
<1>3. CASE Return(w)
  BY <1>3, AbisStoredKept DEF Return
<1>4. QED  BY <1>1, <1>2, <1>3 DEF StoreFile

LEMMA AbisStoredNew ==
  ASSUME IndexTypeOK, AbisStored, NEW w \in Client, NEW a \in Addr, NEW info \in Info,
         StoreNewContractInfo(w, a, info), info.abi \in abiFiles
  PROVE  AbisStored'
<1>1. /\ UNCHANGED <<instances, abiFiles>>
      /\ contractIndex' = [contractIndex EXCEPT ![a] = info]
      /\ job' = [job EXCEPT ![w] = [step |-> "open", addr |-> a, info |-> info]]
  BY DEF StoreNewContractInfo, StoreContractInfo, AddToContractIndex, diskVars
<1>2. \A b \in Addr : contractIndex'[b] # NoInfo => contractIndex'[b].abi \in abiFiles
  BY <1>1 DEF AbisStored, IndexTypeOK
<1>3. \A v \in Writer : job'[v] # Idle => job'[v].info.abi \in abiFiles
  BY <1>1 DEF AbisStored, IndexTypeOK
<1>4. QED  BY <1>1, <1>2, <1>3 DEF AbisStored

(* Steps that store no new contract.                                       *)
LEMMA AbisStoredQuiet ==
  ASSUME IndexTypeOK, AbisStored, NEW r \in Client,
         AddToABIIndex(ask[r].newAbi) \/ WriteAbiInfo(ask[r].newAbi) \/ Return(r)
           \/ UNCHANGED indexVars
  PROVE  AbisStored'
<1> USE DEF diskVars, mapVars
<1>1. CASE AddToABIIndex(ask[r].newAbi)
  BY <1>1, AbisStoredKept DEF AddToABIIndex
<1>2. CASE WriteAbiInfo(ask[r].newAbi)
  <2>1. abiFiles \subseteq abiFiles' /\ UNCHANGED <<instances, contractIndex, job>>
    BY <1>2 DEF WriteAbiInfo
  <2>2. QED  BY <2>1, AbisStoredKept
<1>3. CASE Return(r)
  <2>1. r \in Writer  BY DEF Writer
  <2>2. QED  BY <1>3, <2>1, AbisStoredWrite
<1>4. CASE UNCHANGED indexVars
  BY <1>4, AbisStoredKept DEF indexVars
<1>5. QED  BY <1>1, <1>2, <1>3, <1>4

LEMMA AbisStoredClient ==
  ASSUME IndexTypeOK, RestVarsOK, AskedFor, AbisStored, NEW r \in Client, AbiFound(r),
         HandlerStep(r) \/ Outcome(r) \/ ReplyStep(r)
  PROVE  AbisStored'
<1>1. ASSUME StoreNewContractInfo(r, ask[r].addr, ContractInfo(r)),
             ask[r] \in Request, ContractInfo(r).abi \in abiFiles
      PROVE  AbisStored'
  BY <1>1, ContractInfoType, AbisStoredNew
<1>2. CASE RegisterContract(r)
  <2>1. CASE UNCHANGED indexVars  BY <2>1, AbisStoredQuiet
  <2>2. CASE ~UNCHANGED indexVars
    <3>1. /\ StoreNewContractInfo(r, ask[r].addr, ContractInfo(r))
          /\ pc[r] = "resolved" /\ ask[r].op = "register"
      BY <1>2, <2>2 DEF RegisterContract, At
    <3>2. ask[r] \in Request /\ ask[r] # NoRequest
      BY <3>1, RestAssumption DEF RestVarsOK, AskRight
    <3>3. ask[r].by = "abi" /\ ~Async(r)
      BY <3>1, <3>2, ByAbi DEF Async
    <3>4. ContractInfo(r).abi \in abiFiles
      BY <3>1, <3>3 DEF AbiFound, ContractInfo
    <3>5. QED  BY <1>1, <3>1, <3>2, <3>4
  <2>3. QED  BY <2>1, <2>2
<1>3. CASE PostDeploy(r)
  <2>1. CASE UNCHANGED indexVars  BY <2>1, AbisStoredQuiet
  <2>2. CASE ~UNCHANGED indexVars
    <3>1. /\ StoreNewContractInfo(r, ask[r].addr, ContractInfo(r))
          /\ txn[r] = "mined" /\ ask[r].op = "deploy" /\ ask[r].by # "remote"
      BY <1>3, <2>2 DEF PostDeploy
    <3>2. ask[r] \in Request /\ ask[r] # NoRequest
      BY <3>1, RestAssumption DEF RestVarsOK, AskRight
    <3>3. ask[r].by = "abi"  BY <3>1, <3>2, ByAbi
    <3>4. ContractInfo(r).abi \in abiFiles  BY <3>1, <3>3 DEF AbiFound
    <3>5. QED  BY <1>1, <3>1, <3>2, <3>4
  <2>3. QED  BY <2>1, <2>2
<1>4. CASE ~RegisterContract(r) /\ ~PostDeploy(r)
  <2>1. AddToABIIndex(ask[r].newAbi) \/ WriteAbiInfo(ask[r].newAbi) \/ Return(r)
          \/ UNCHANGED indexVars
    BY <1>4 DEF HandlerStep, Receive, ResolveRemote, Resolve, ResolveParams,
       GetContractOrABI, GetRemoteRegistrySwaggerOrABI, CallContract, CompileForm,
       StoreDeployableABI, StoreABIFile, Registered, CheckName, SendTransaction,
       DispatchSync, DispatchAsync, AckAsync, CheckDone, Wait, Outcome, ReplyStep,
       PostDeployed, ReplyWithReceipt, SetDone, Broadcast, MarkReply
  <2>2. QED  BY <2>1, AbisStoredQuiet
<1>5. QED  BY <1>2, <1>3, <1>4

(* What a request has found stays there while others work ...              *)
LEMMA AbiFoundStays ==
  ASSUME NEW q \in Client, AbiFound(q), abiFiles \subseteq abiFiles',
         ask'[q] = ask[q],
         pc'[q] = pc[q] \/ pc'[q] \notin {"resolved", "dispatch", "send"},
         txn[q] = "none" => txn'[q] = "none"
  PROVE  AbiFound(q)'
BY DEF AbiFound, ContractInfo, Async

(* ... and is there when its handler goes on.                              *)
LEMMA AbiFoundHandler ==
  ASSUME IndexTypeOK, RestVarsOK, AnswersRight, AskedFor, NEW r \in Client, AbiFound(r),
         HandlerStep(r), abiFiles \subseteq abiFiles', failures' = 0
  PROVE  AbiFound(r)'
<1>1. CASE Receive(r)
  <2>1. pc[r] = "new" /\ pc' = [pc EXCEPT ![r] = "asked"] /\ UNCHANGED txn
    BY <1>1 DEF Receive, At, Goto
  <2>2. txn[r] = "none"  BY <2>1 DEF AnswersRight, AnswerRight
  <2>3. pc'[r] = "asked" /\ txn'[r] = "none"  BY <2>1, <2>2 DEF RestVarsOK
  <2>4. QED  BY <2>3 DEF AbiFound
<1>2. ASSUME NEW s \in Status, Respond(r, s)  PROVE AbiFound(r)'
  <2>1. pc' = [pc EXCEPT ![r] = "returned"] /\ UNCHANGED <<ask, txn>>
    BY <1>2 DEF Respond, Goto
  <2>2. pc'[r] = "returned"  BY <2>1 DEF RestVarsOK
  <2>3. QED  BY <2>1, <2>2, AbiFoundStays
<1>3. ASSUME NEW p \in HandlerState, Continue(r, p)
      PROVE  /\ pc'[r] = p /\ UNCHANGED <<ask, txn>> /\ ContractInfo(r)' = ContractInfo(r)
             /\ p \notin {"resolved", "dispatch", "send"} => AbiFound(r)'
  <2>1. /\ pc' = [pc EXCEPT ![r] = p] /\ UNCHANGED <<ask, txn>>
        /\ ContractInfo(r)' = ContractInfo(r)
    BY <1>3 DEF Continue, Goto, ContractInfo, Async
  <2>2. pc'[r] = p  BY <2>1 DEF RestVarsOK
  <2>3. QED  BY <2>1, <2>2, AbiFoundStays
<1>4. CASE (ResolveRemote(r) \/ Resolve(r)) /\ Continue(r, "resolved")
  <2>1. /\ pc'[r] = "resolved" /\ UNCHANGED <<ask, txn>> /\ ContractInfo(r)' = ContractInfo(r)
    BY <1>3, <1>4 DEF HandlerState
  <2>2. ask[r].by # "abi" \/ ResolveABI(r)
    <3>1. CASE ResolveRemote(r)  BY <3>1 DEF ResolveRemote
    <3>2. CASE Resolve(r)
      <4>1. CASE ResolveABI(r)  BY <4>1
      <4>2. CASE ~ResolveABI(r)
        <5>1. Respond(r, 404)  BY <3>2, <4>2 DEF Resolve
        <5>2. pc' = [pc EXCEPT ![r] = "returned"]  BY <5>1 DEF Respond, Goto
        <5>3. pc'[r] = "returned"  BY <5>2 DEF RestVarsOK
        <5>4. QED  BY <2>1, <5>3
      <4>3. QED  BY <4>1, <4>2
    <3>3. QED  BY <1>4, <3>1, <3>2
  <2>3. ask[r].by = "abi" => ask[r].abi \in abiFiles
    BY <2>2 DEF ResolveABI, LoadDeployMsgByID
  <2>4. QED  BY <2>1, <2>3 DEF AbiFound
<1>5. CASE (CheckName(r) \/ SendTransaction(r)) /\ Continue(r, "dispatch")
  <2>1. /\ pc'[r] = "dispatch" /\ UNCHANGED <<ask, txn>> /\ ContractInfo(r)' = ContractInfo(r)
    BY <1>3, <1>5 DEF HandlerState
  <2>2. pc[r] = "resolved"  BY <1>5 DEF CheckName, SendTransaction, At
  <2>3. QED  BY <2>1, <2>2 DEF AbiFound
<1>6. CASE StoreABIFile(r) /\ Continue(r, "send")
  <2>1. /\ pc'[r] = "send" /\ UNCHANGED <<ask, txn>> /\ ContractInfo(r)' = ContractInfo(r)
    BY <1>3, <1>6 DEF HandlerState
  <2>2. ask[r].newAbi \in abiFiles'
    <3>1. failures \in Nat  BY DEF IndexTypeOK
    <3>2. failures' # failures + 1  BY <3>1
    <3>3. WriteAbiInfo(ask[r].newAbi)  BY <1>6 DEF StoreABIFile
    <3>4. QED  BY <3>2, <3>3 DEF WriteAbiInfo, Fail
  <2>3. QED  BY <2>1, <2>2 DEF AbiFound
<1>7. ASSUME DispatchSync(r) \/ DispatchAsync(r), NEW p \in {"check", "ack"},
             Goto(r, p), UNCHANGED <<ask, response, done>>
      PROVE  AbiFound(r)'
  <2>1. /\ pc' = [pc EXCEPT ![r] = p] /\ UNCHANGED ask /\ ContractInfo(r)' = ContractInfo(r)
    BY <1>7 DEF Goto, ContractInfo, Async
  <2>2. pc'[r] = p  BY <2>1 DEF RestVarsOK
  <2>3. ask[r].op = "deploy" /\ ask[r].by = "abi" => ContractInfo(r).abi \in abiFiles
    <3>1. CASE DispatchSync(r)
      BY <3>1 DEF DispatchSync, At, AbiFound, ContractInfo
    <3>2. CASE DispatchAsync(r)
      BY <3>2 DEF DispatchAsync, At, AbiFound, ContractInfo
    <3>3. QED  BY <1>7, <3>1, <3>2
  <2>4. QED  BY <2>1, <2>2, <2>3 DEF AbiFound
<1>8. QED
  <2>1. CASE Receive(r)  BY <1>1, <2>1
  <2>2. CASE DispatchSync(r) \/ DispatchAsync(r)
    BY <1>2, <1>7, <2>2 DEF DispatchSync, DispatchAsync, Status
  <2>3. CASE ~(Receive(r) \/ DispatchSync(r) \/ DispatchAsync(r))
    <3>1. \/ \E s \in Status : Respond(r, s)
          \/ \E p \in HandlerState \ {"resolved", "dispatch", "send"} : Continue(r, p)
          \/ (ResolveRemote(r) \/ Resolve(r)) /\ Continue(r, "resolved")
          \/ (CheckName(r) \/ SendTransaction(r)) /\ Continue(r, "dispatch")
          \/ StoreABIFile(r) /\ Continue(r, "send")
      BY <2>3 DEF HandlerStep, ResolveRemote, Resolve, ResolveParams, GetContractOrABI,
         GetRemoteRegistrySwaggerOrABI, CallContract, CompileForm,
         StoreDeployableABI, StoreABIFile, RegisterContract, Registered, CheckName,
         SendTransaction, AckAsync, CheckDone, Wait, Status, HandlerState
    <3>2. QED  BY <1>2, <1>3, <1>4, <1>5, <1>6, <3>1
  <2>4. QED  BY <2>1, <2>2, <2>3

LEMMA AbisRightInit == Init => AbisRight
BY IndexAssumption DEF Init, IndexInit, AbisRight, AbisStored, AbiFound, Idle

LEMMA AbisRightNext ==
  IndexTypeOK /\ RestVarsOK /\ AnswersRight /\ AskedFor /\ AbisRight /\ [Next]_vars
    => AbisRight'
<1> SUFFICES ASSUME IndexTypeOK, RestVarsOK, AnswersRight, AskedFor, AbisRight, [Next]_vars,
                    failures' = 0
             PROVE  AbisStored' /\ \A q \in Client : AbiFound(q)'
  BY DEF AbisRight
<1>1. abiFiles \subseteq abiFiles' /\ failures = 0
  BY IndexStep, AbisStay
<1>2. AbisStored /\ \A q \in Client : AbiFound(q)
  BY <1>1 DEF AbisRight
<1>3. CASE UNCHANGED restVars /\ (StartUp \/ (\E w \in Writer : StoreFile(w)) \/ UNCHANGED vars)
  <2>1. AbisStored'
    <3>1. CASE UNCHANGED vars
      BY <1>2, <3>1, AbisStoredKept DEF vars, indexVars, diskVars, mapVars
    <3>2. QED  BY <1>2, <1>3, <3>1, AbisStoredStart, AbisStoredWrite
  <2>2. \A q \in Client : AbiFound(q)'
    BY <1>1, <1>2, <1>3, AbiFoundStays DEF restVars
  <2>3. QED  BY <2>1, <2>2
<1>4. ASSUME NEW r \in Client, HandlerStep(r) \/ Outcome(r) \/ ReplyStep(r)
      PROVE  AbisStored' /\ \A q \in Client : AbiFound(q)'
  <2>1. AbisStored'  BY <1>2, <1>4, AbisStoredClient
  <2>2. ASSUME NEW q \in Client, q # r  PROVE AbiFound(q)'
    <3>1. ask'[q] = ask[q] /\ pc'[q] = pc[q] /\ txn'[q] = txn[q]
      BY <1>4, <2>2, StepOfClient DEF StepIsOf
    <3>2. QED  BY <1>1, <1>2, <3>1, AbiFoundStays
  <2>3. AbiFound(r)'
    <3>1. CASE HandlerStep(r)  BY <1>1, <1>2, <3>1, AbiFoundHandler
    <3>2. CASE Outcome(r) \/ ReplyStep(r)
      <4>1. /\ UNCHANGED ask /\ txn[r] # "none"
            /\ pc' = pc \/ pc' = [pc EXCEPT ![r] = IF @ = "asleep" THEN "check" ELSE @]
        BY <3>2 DEF Outcome, ReplyStep, PostDeploy, PostDeployed, ReplyWithReceipt, SetDone,
           Broadcast, MarkReply
      <4>2. pc'[r] = pc[r] \/ pc'[r] \notin {"resolved", "dispatch", "send"}
        BY <4>1 DEF RestVarsOK
      <4>3. QED  BY <1>1, <1>2, <4>1, <4>2, AbiFoundStays
    <3>3. QED  BY <1>4, <3>1, <3>2
  <2>4. QED  BY <2>1, <2>2, <2>3
<1>5. CASE Crash
  <2>1. AbisStored'  BY <1>2, <1>5, AbisStoredStart DEF Crash
  <2>2. ASSUME NEW q \in Client  PROVE AbiFound(q)'
    <3>1. /\ ask'[q] = ask[q]
          /\ pc'[q] = pc[q] \/ pc'[q] \notin {"resolved", "dispatch", "send"}
          /\ txn[q] = "none" => txn'[q] = "none"
      BY <1>5 DEF Crash, Consuming
    <3>2. QED  BY <1>1, <1>2, <3>1, AbiFoundStays
  <2>3. QED  BY <2>1, <2>2
<1>6. QED  BY <1>3, <1>4, <1>5 DEF Next, FileStep, vars

(* Whatever crashes there are, every contract that a serving gateway lists *)
(* has its ABI in memory and on disk, as long as no file could not be      *)
(* written: an ABI is written before any contract that names it is stored  *)
(* (smartcontractgw.go: PreDeploy, storeDeployableABI).                    *)
THEOREM GatewayAbisThere == Spec => []ContractsResolvable
<1>1. Init => AskedFor /\ AbisRight /\ AbisIndexed
  BY AskedForInit, AbisRightInit, AbisIndexedInit DEF Init
<1>2. RestVarsOK /\ [Next]_vars /\ AbisIndexed => AbisIndexed'
  BY IndexStep, AbisIndexedNext
<1>3. AbisRight /\ AbisIndexed => ContractsResolvable
  BY DEF AbisRight, AbisStored, AbisIndexed, ContractsResolvable,
     LoadDeployMsgForInstance, LoadDeployMsgByID
<1>4. RestTypeOK => IndexTypeOK  BY DEF RestTypeOK
<1>5. Init => AnswersRight  BY AnswersInit
<1>6. QED
  BY <1>1, <1>2, <1>3, <1>4, <1>5, AskedForNext, AbisRightNext, AnswersNext,
     RestVarsAlways, GatewayTypeCorrect, PTL DEF Spec

-----------------------------------------------------------------------------
(* A success is on disk                                                    *)

(* A job is that of the handler or of the reply of its client, and there   *)
(* is one only while the gateway serves.                                   *)
JobAsked(r) ==
  /\ job[r] # Idle => /\ ask[r].op \in {"register", "deploy"} /\ ask[r].by # "remote"
                      /\ job[r].addr = ask[r].addr
                      /\ pc[r] = "registering" \/ txn[r] = "posting"
  /\ pc[r] = "registering" \/ txn[r] \in Consuming => phase = "serving"

JobsAsked ==
  /\ phase = "serving" => job[Main] = Idle
  /\ \A r \in Client : JobAsked(r)

(* What a client will be told is on disk.                                  *)
OnDiskFor(r) == instances[ask[r].addr] \in Info \/ Contested(r)
SuccessStored(r) ==
  /\ job[r].step = "stored" => OnDiskFor(r)
  /\ txn[r] = "posted" /\ ask[r].op \in {"register", "deploy"} /\ ask[r].by # "remote"
       => OnDiskFor(r)
SuccessesStored == \A r \in Client : SuccessStored(r)

(* A client stores a contract, returns from that, or leaves all jobs and   *)
(* the files of the contracts alone.                                       *)
LEMMA ClientJobs ==
  ASSUME NEW r \in Client, HandlerStep(r) \/ Outcome(r) \/ ReplyStep(r)
  PROVE  \/ /\ At(r, "resolved") /\ ask[r].op = "register" /\ Continue(r, "registering")
            /\ StoreNewContractInfo(r, ask[r].addr, ContractInfo(r))
         \/ /\ txn[r] = "mined" /\ ask[r].op = "deploy" /\ ask[r].by # "remote"
            /\ TxnTo(r, "posting") /\ UNCHANGED <<ask, pc, response>>
            /\ StoreNewContractInfo(r, ask[r].addr, ContractInfo(r))
         \/ (Registered(r) \/ PostDeployed(r)) /\ Return(r)
         \/ /\ ~Registered(r) /\ ~PostDeployed(r)
            /\ UNCHANGED <<job, instances, phase>>
<1> USE DEF diskVars, indexVars
<1>1. CASE UNCHANGED indexVars
  BY <1>1 DEF Registered, PostDeployed
<1>2. CASE StoreDeployableABI(r) \/ StoreABIFile(r)
  <2>1. UNCHANGED <<job, instances, phase>>
    BY <1>2 DEF StoreDeployableABI, AddToABIIndex, StoreABIFile, WriteAbiInfo
  <2>2. CASE Registered(r) \/ PostDeployed(r)
    BY <2>2 DEF Registered, PostDeployed
  <2>3. QED  BY <2>1, <2>2
<1>3. CASE RegisterContract(r) /\ ~UNCHANGED indexVars
  BY <1>3 DEF RegisterContract
<1>4. CASE PostDeploy(r) /\ ~UNCHANGED indexVars
  BY <1>4 DEF PostDeploy
<1>5. CASE Registered(r) \/ PostDeployed(r)
  BY <1>5 DEF Registered, PostDeployed
<1>6. QED
  BY <1>1, <1>2, <1>3, <1>4, <1>5 DEF HandlerStep, Receive, ResolveRemote, Resolve,
     ResolveParams, GetContractOrABI, GetRemoteRegistrySwaggerOrABI, CallContract,
     CompileForm, CheckName, SendTransaction, DispatchSync, DispatchAsync, AckAsync,
     CheckDone, Wait, Outcome, ReplyStep, ReplyWithReceipt, SetDone, Broadcast, MarkReply

(* No job is left once a transaction is past storing its contract.         *)
LEMMA NoJob ==
  ASSUME AnswersRight, JobsAsked, NEW r \in Client, job[r] # Idle
  PROVE  /\ \/ pc[r] = "registering" /\ txn[r] = "none"
            \/ pc[r] # "registering" /\ txn[r] = "posting"
         /\ pc[r] # "new" /\ phase = "serving"
BY DEF AnswersRight, AnswerRight, JobsAsked, JobAsked, Consuming

LEMMA JobsAskedInit == Init => JobsAsked /\ SuccessesStored
BY DEF Init, IndexInit, JobsAsked, JobAsked, SuccessesStored, SuccessStored, Consuming, Idle,
   Writer

LEMMA JobAskedMoved ==
  ASSUME IndexTypeOK, RestVarsOK, AnswersRight, AskedFor, JobsAsked, NEW r \in Client,
         HandlerStep(r) \/ Outcome(r) \/ ReplyStep(r)
  PROVE  JobAsked(r)'
<1>0. JobAsked(r) /\ r \in Writer  BY DEF JobsAsked, Writer
<1>1. ASSUME StoreNewContractInfo(r, ask[r].addr, ContractInfo(r)), UNCHANGED ask,
             ask[r].op \in {"register", "deploy"}, ask[r].by # "remote",
             pc'[r] = "registering" \/ txn'[r] = "posting"
      PROVE  JobAsked(r)'
  <2>1. /\ phase = "serving" /\ phase' = phase
        /\ job' = [job EXCEPT ![r] = [step |-> "open", addr |-> ask[r].addr,
                                      info |-> ContractInfo(r)]]
    BY <1>1 DEF StoreNewContractInfo, StoreContractInfo
  <2>2. job'[r].addr = ask[r].addr  BY <1>0, <2>1 DEF IndexTypeOK
  <2>3. QED  BY <1>1, <2>1, <2>2 DEF JobAsked
<1>2. CASE /\ At(r, "resolved") /\ ask[r].op = "register" /\ Continue(r, "registering")
           /\ StoreNewContractInfo(r, ask[r].addr, ContractInfo(r))
  <2>1. /\ pc[r] = "resolved" /\ pc' = [pc EXCEPT ![r] = "registering"] /\ UNCHANGED ask
    BY <1>2 DEF Continue, Goto, At
  <2>2. ask[r] # NoRequest
    BY <2>1, RestAssumption DEF RestVarsOK, AskRight
  <2>3. ask[r].by = "abi"  BY <1>2, <2>2, ByAbi
  <2>4. pc'[r] = "registering"  BY <2>1 DEF RestVarsOK
  <2>5. QED  BY <1>1, <1>2, <2>1, <2>3, <2>4
<1>3. CASE /\ txn[r] = "mined" /\ ask[r].op = "deploy" /\ ask[r].by # "remote"
           /\ TxnTo(r, "posting") /\ UNCHANGED <<ask, pc, response>>
           /\ StoreNewContractInfo(r, ask[r].addr, ContractInfo(r))
  <2>1. txn'[r] = "posting"  BY <1>3 DEF TxnTo, RestVarsOK
  <2>2. QED  BY <1>1, <1>3, <2>1
<1>4. CASE (Registered(r) \/ PostDeployed(r)) /\ Return(r)
  <2>1. job'[r] = Idle /\ phase' = phase
    BY <1>0, <1>4 DEF Return, IndexTypeOK
  <2>2. CASE Registered(r)
    <3>1. /\ pc[r] = "registering" /\ phase = "serving"
      BY <2>2 DEF Registered, At
    <3>2. QED  BY <2>1, <3>1 DEF JobAsked
  <2>3. CASE PostDeployed(r)
    <3>1. txn[r] = "posting"  BY <2>3 DEF PostDeployed
    <3>2. phase = "serving"  BY <1>0, <3>1 DEF JobAsked, Consuming
    <3>3. QED  BY <2>1, <3>2 DEF JobAsked
  <2>4. QED  BY <1>4, <2>2, <2>3
<1>5. CASE /\ ~Registered(r) /\ ~PostDeployed(r)
           /\ UNCHANGED <<job, instances, phase>>
  <2>1. pc[r] = "registering" => txn[r] = "none"
    BY DEF AnswersRight, AnswerRight
  <2>2. CASE Receive(r)
    <3>1. pc[r] = "new" /\ txn[r] = "none"
      BY <2>2 DEF Receive, At, AnswersRight, AnswerRight
    <3>2. job[r] = Idle  BY <3>1, NoJob
    <3>3. pc' = [pc EXCEPT ![r] = "asked"] /\ UNCHANGED txn
      BY <2>2 DEF Receive, Goto
    <3>4. pc'[r] = "asked"  BY <3>3 DEF RestVarsOK
    <3>5. QED  BY <1>5, <3>1, <3>2, <3>3, <3>4 DEF JobAsked, Consuming
  <2>3. CASE HandlerStep(r) /\ ~Receive(r)
    <3>1. pc[r] # "registering"
      BY <1>5, <2>3 DEF HandlerStep, ResolveRemote, Resolve, ResolveParams,
         GetContractOrABI, GetRemoteRegistrySwaggerOrABI, CallContract, CompileForm,
         StoreDeployableABI, StoreABIFile, RegisterContract, CheckName, SendTransaction,
         DispatchSync, DispatchAsync, AckAsync, CheckDone, Wait, At
    <3>2. CASE phase = "serving"
      <4>1. CASE job[r] = Idle  BY <1>5, <3>2, <4>1 DEF JobAsked
      <4>2. CASE job[r] # Idle
        <5>1. txn[r] = "posting"  BY <3>1, <4>2, NoJob
        <5>2. UNCHANGED ask  BY <2>3, StepOfClient DEF StepIsOf
        <5>3. UNCHANGED txn
          <6>1. pc[r] \notin {"dispatch", "send"}
            BY <5>1 DEF AnswersRight, AnswerRight
          <6>2. ~DispatchSync(r) /\ ~DispatchAsync(r)
            BY <6>1 DEF DispatchSync, DispatchAsync, At
          <6>3. QED  BY <2>3, <6>2, HandlerShape DEF Respond, Continue
        <5>4. QED  BY <1>0, <1>5, <3>2, <4>2, <5>1, <5>2, <5>3 DEF JobAsked
      <4>3. QED  BY <4>1, <4>2
    <3>3. CASE phase # "serving"
      <4>1. job[r] = Idle  BY <3>3, NoJob
      <4>2. CheckDone(r) \/ Wait(r)
        BY <2>3, <3>3 DEF HandlerStep, ResolveRemote, Resolve, ResolveParams,
           GetContractOrABI, GetRemoteRegistrySwaggerOrABI, CallContract, CompileForm,
           StoreDeployableABI, StoreABIFile, RegisterContract, Registered, CheckName,
           SendTransaction, DispatchSync, DispatchAsync, AckAsync, At, AddToABIIndex
      <4>3. UNCHANGED txn /\ \E p \in {"returned", "towait", "asleep"} : pc' = [pc EXCEPT ![r] = p]
        BY <4>2 DEF CheckDone, Wait, Continue, Goto
      <4>4. pc'[r] # "registering"  BY <4>3 DEF RestVarsOK
      <4>5. QED  BY <1>0, <1>5, <4>1, <4>3, <4>4, <3>3 DEF JobAsked
    <3>4. QED  BY <3>2, <3>3
  <2>4. CASE Outcome(r) \/ (ReplyStep(r) /\ ~PostDeployed(r))
    <3>1. /\ txn[r] \notin {"none", "posting"} \/ MarkReply(r)
          /\ pc' = pc \/ pc' = [pc EXCEPT ![r] = IF @ = "asleep" THEN "check" ELSE @]
          /\ \/ phase = "serving"
             \/ \E t \in {"mined", "failed", "written", "broadcast", "end"} :
                  txn' = [txn EXCEPT ![r] = t]
      BY <2>4 DEF Outcome, ReplyStep, PostDeploy, ReplyWithReceipt, SetDone, Broadcast,
         MarkReply, TxnTo, Replying, Consuming
    <3>2. txn[r] \notin {"none", "posting"}
      BY <3>1 DEF MarkReply
    <3>3. pc[r] # "registering" /\ job[r] = Idle
      BY <2>1, <3>2, NoJob
    <3>4. pc'[r] # "registering"  BY <3>1, <3>3 DEF RestVarsOK
    <3>5. txn'[r] \in Consuming => phase = "serving"
      BY <3>1 DEF RestVarsOK, Consuming
    <3>6. QED  BY <1>5, <3>3, <3>4, <3>5 DEF JobAsked
  <2>5. QED  BY <1>5, <2>2, <2>3, <2>4
<1>6. QED  BY <1>2, <1>3, <1>4, <1>5, ClientJobs

(* The files of contracts that clients store, and the jobs, stay right     *)
(* while the gateway starts, writes and ends.                              *)
LEMMA StepOfJob ==
  ASSUME IndexTypeOK, NEW w \in Writer, StoreFile(w)
  PROVE  /\ job[w] # Idle /\ job[w].addr \in Addr /\ UNCHANGED phase
         /\ \A v \in Writer \ {w} : job'[v] = job[v]
         /\ job'[w] # Idle /\ job'[w].addr = job[w].addr
         /\ \A a \in Addr \ {job[w].addr} : instances'[a] = instances[a]
         /\ job'[w].step = "stored" => instances'[job[w].addr] \in Info
<1>1. job[w] # Idle  BY NotIdle DEF StoreFile, OpenFile, WriteFile, WriteFileFails
<1>2. job[w] \in Job /\ job[w].addr \in Addr /\ job[w].info \in Info  BY <1>1, JobType
<1>3. PICK s \in {"write", "stored", "failed"} : Step(w, s)
  BY DEF StoreFile, OpenFile, WriteFile, WriteFileFails
<1>4. job' = [job EXCEPT ![w] = [job[w] EXCEPT !.step = s]]  BY <1>3 DEF Step
<1>5. /\ [job[w] EXCEPT !.step = s].step = s /\ [job[w] EXCEPT !.step = s].addr = job[w].addr
      /\ [job[w] EXCEPT !.step = s] # Idle
  BY <1>2 DEF Job, Idle
<1>6. job'[w] = [job[w] EXCEPT !.step = s] /\ \A v \in Writer \ {w} : job'[v] = job[v]
  BY <1>4 DEF IndexTypeOK
<1>7. /\ UNCHANGED phase
      /\ instances' = instances \/ \E f : instances' = [instances EXCEPT ![job[w].addr] = f]
      /\ s = "stored" => instances' = [instances EXCEPT ![job[w].addr] = job[w].info]
  <2>1. CASE OpenFile(w)
    <3>1. Step(w, "write")  BY <2>1 DEF OpenFile
    <3>2. job'[w].step = "write"  BY <1>2, <3>1 DEF Step, Job, IndexTypeOK
    <3>3. s = "write"  BY <1>5, <1>6, <3>2
    <3>4. QED  BY <2>1, <3>3 DEF OpenFile
  <2>2. CASE WriteFile(w)
    BY <2>2 DEF WriteFile
  <2>3. CASE WriteFileFails(w)
    <3>1. Step(w, "failed")  BY <2>3 DEF WriteFileFails
    <3>2. job'[w].step = "failed"  BY <1>2, <3>1 DEF Step, Job, IndexTypeOK
    <3>3. s = "failed"  BY <1>5, <1>6, <3>2
    <3>4. QED  BY <2>3, <3>3 DEF WriteFileFails, diskVars
  <2>4. QED  BY <2>1, <2>2, <2>3 DEF StoreFile
<1>8. \A a \in Addr \ {job[w].addr} : instances'[a] = instances[a]
  BY <1>7 DEF IndexTypeOK
<1>9. s = "stored" => instances'[job[w].addr] \in Info
  BY <1>2, <1>7 DEF IndexTypeOK
<1>10. QED  BY <1>1, <1>2, <1>5, <1>6, <1>7, <1>8, <1>9

LEMMA StartsAlone ==
  ASSUME IndexTypeOK, JobsAsked, StartUp
  PROVE  /\ phase = "serving" => phase' = "serving"
         /\ phase' = "serving" => job'[Main] = Idle
         /\ \A r \in Client : job'[r] = job[r]
         /\ UNCHANGED instances
<1> USE DEF diskVars
<1>1. Main \in Writer /\ Main \notin Client /\ Client \subseteq Writer
  BY IndexAssumption DEF Writer
<1>2. phase = "serving" => job[Main] = Idle  BY DEF JobsAsked
<1>3. CASE BuildIndex \/ Serve
  BY <1>2, <1>3 DEF BuildIndex, Serve
<1>4. CASE RemoveLegacy
  BY <1>1, <1>4 DEF RemoveLegacy, IndexTypeOK
<1>5. ASSUME NEW a \in Addr, AddFileToContractIndex(a)
      PROVE  UNCHANGED <<job, phase, instances>>
  BY <1>5 DEF AddFileToContractIndex
<1>6. ASSUME NEW a \in Addr, MigrateLegacyContract(a)
      PROVE  /\ phase = "building" /\ UNCHANGED <<phase, instances>>
             /\ job' = job \/ \E j : job' = [job EXCEPT ![Main] = j]
  BY <1>6 DEF MigrateLegacyContract, IsNext, StoreContractInfo
<1>7. ASSUME NEW j, job' = [job EXCEPT ![Main] = j]
      PROVE  \A r \in Client : job'[r] = job[r]
  BY <1>1, <1>7 DEF IndexTypeOK
<1>8. QED  BY <1>2, <1>3, <1>4, <1>5, <1>6, <1>7 DEF StartUp

(* The job of every other client stays.                                    *)
LEMMA OtherJobs ==
  ASSUME IndexTypeOK, NEW r \in Client, HandlerStep(r) \/ Outcome(r) \/ ReplyStep(r)
  PROVE  UNCHANGED <<phase, instances>> /\ \A w \in Writer \ {r} : job'[w] = job[w]
<1>1. ASSUME NEW j, job' = [job EXCEPT ![r] = j]
      PROVE  \A w \in Writer \ {r} : job'[w] = job[w]
  BY <1>1 DEF IndexTypeOK
<1>2. CASE StoreNewContractInfo(r, ask[r].addr, ContractInfo(r))
  <2>1. /\ UNCHANGED <<phase, instances>>
        /\ job' = [job EXCEPT ![r] = [step |-> "open", addr |-> ask[r].addr,
                                      info |-> ContractInfo(r)]]
    BY <1>2 DEF StoreNewContractInfo, StoreContractInfo, diskVars
  <2>2. QED  BY <1>1, <2>1
<1>3. CASE Return(r)
  <2>1. UNCHANGED <<phase, instances>> /\ job' = [job EXCEPT ![r] = Idle]
    BY <1>3 DEF Return, diskVars
  <2>2. QED  BY <1>1, <2>1
<1>4. CASE UNCHANGED <<job, instances, phase>>
  BY <1>4
<1>5. QED  BY <1>2, <1>3, <1>4, ClientJobs

LEMMA JobsAskedNext ==
  IndexTypeOK /\ RestVarsOK /\ AnswersRight /\ AskedFor /\ JobsAsked /\ [Next]_vars
    => JobsAsked'
<1> SUFFICES ASSUME IndexTypeOK, RestVarsOK, AnswersRight, AskedFor, JobsAsked, [Next]_vars
             PROVE  JobsAsked'
  OBVIOUS
<1>0. Main \in Writer /\ Main \notin Client /\ Client \subseteq Writer
  BY IndexAssumption DEF Writer
<1>1. ASSUME NEW r \in Client, HandlerStep(r) \/ Outcome(r) \/ ReplyStep(r)
      PROVE  JobsAsked'
  <2>1. UNCHANGED phase /\ \A w \in Writer \ {r} : job'[w] = job[w]
    BY <1>1, OtherJobs
  <2>2. ASSUME NEW q \in Client, q # r  PROVE JobAsked(q)'
    <3>1. ask'[q] = ask[q] /\ pc'[q] = pc[q] /\ txn'[q] = txn[q]
      BY <1>1, <2>2, StepOfClient DEF StepIsOf
    <3>2. job'[q] = job[q]  BY <1>0, <2>1, <2>2
    <3>3. QED  BY <2>1, <3>1, <3>2 DEF JobsAsked, JobAsked
  <2>3. JobAsked(r)'  BY <1>1, JobAskedMoved
  <2>4. job'[Main] = job[Main]  BY <1>0, <2>1
  <2>5. QED  BY <2>1, <2>2, <2>3, <2>4 DEF JobsAsked
<1>2. CASE StartUp /\ UNCHANGED restVars
  BY <1>2, StartsAlone DEF JobsAsked, JobAsked, restVars
<1>3. ASSUME NEW w \in Writer, FileStep(w)  PROVE JobsAsked'
  <2>1. /\ job[w] # Idle /\ UNCHANGED phase /\ UNCHANGED restVars
        /\ \A v \in Writer \ {w} : job'[v] = job[v]
        /\ job'[w].addr = job[w].addr
    BY <1>3, StepOfJob DEF FileStep
  <2>2. phase = "serving" => job'[Main] = Idle
    BY <1>0, <2>1 DEF JobsAsked
  <2>3. ASSUME NEW q \in Client  PROVE JobAsked(q)'
    <3>1. (job'[q] # Idle => job[q] # Idle) /\ job'[q].addr = job[q].addr
      BY <1>0, <2>1
    <3>2. QED  BY <2>1, <3>1 DEF JobsAsked, JobAsked, restVars
  <2>4. QED  BY <2>1, <2>2, <2>3 DEF JobsAsked
<1>4. CASE Crash
  <2>1. phase' = "down" /\ job' = [w \in Writer |-> Idle]
    BY <1>4 DEF Crash, CrashIndex
  <2>2. \A q \in Client : pc'[q] # "registering" /\ txn'[q] \notin Consuming
    BY <1>4 DEF Crash, Consuming
  <2>3. QED  BY <1>0, <2>1, <2>2 DEF JobsAsked, JobAsked
<1>5. CASE UNCHANGED vars
  BY <1>5 DEF vars, indexVars, restVars, JobsAsked, JobAsked
<1>6. QED  BY <1>1, <1>2, <1>3, <1>4, <1>5 DEF Next

(* What has been asked stays asked, so that what is contested stays so.    *)
LEMMA AsksStay ==
  ASSUME RestVarsOK, AskedFor, [Next]_vars
  PROVE  \A q \in Client : ask[q] # NoRequest => ask'[q] = ask[q]
<1>1. CASE UNCHANGED ask
  BY <1>1
<1>2. ASSUME NEW r \in Client, Receive(r)
      PROVE  \A q \in Client : ask[q] # NoRequest => ask'[q] = ask[q]
  <2>1. pc[r] = "new"  BY <1>2 DEF Receive, At
  <2>2. ask[r] = NoRequest  BY <2>1 DEF AskedFor
  <2>3. PICK a \in Ask[r] : ask' = [ask EXCEPT ![r] = a]  BY <1>2 DEF Receive
  <2>4. QED  BY <2>2, <2>3 DEF RestVarsOK
<1>3. ASSUME NEW r \in Client, HandlerStep(r) \/ Outcome(r) \/ ReplyStep(r), ~Receive(r)
      PROVE  UNCHANGED ask
  BY <1>3, StepOfClient DEF StepIsOf
<1>4. QED  BY <1>1, <1>2, <1>3 DEF Next, FileStep, Crash, vars, restVars

LEMMA OnDiskStays ==
  ASSUME NEW r \in Client, OnDiskFor(r), ask[r] # NoRequest,
         \A q \in Client : ask[q] # NoRequest => ask'[q] = ask[q],
         instances'[ask[r].addr] = instances[ask[r].addr] \/ Contested(r)
  PROVE  OnDiskFor(r)'
<1>1. ask'[r] = ask[r]  OBVIOUS
<1>2. Contested(r) => Contested(r)'
  BY <1>1 DEF Contested
<1>3. QED  BY <1>1, <1>2 DEF OnDiskFor

(* A success that was not there yet is that of the step.                   *)
LEMMA SuccessStays ==
  ASSUME RestVarsOK, AnswersRight, JobsAsked, SuccessesStored, NEW r \in Client,
         \A q \in Client : ask[q] # NoRequest => ask'[q] = ask[q],
         job'[r].step = "stored" => job[r].step = "stored",
         txn'[r] = "posted" => txn[r] = "posted",
         \/ UNCHANGED instances \/ Contested(r)
         \/ ask[r] \in Request /\ instances'[ask[r].addr] = instances[ask[r].addr]
  PROVE  SuccessStored(r)'
<1>1. r \in Writer  BY DEF Writer
<1>2. job[r].step = "stored" \/ txn[r] = "posted" => ask[r] \in Request
  <2>1. CASE job[r].step = "stored"
    <3>1. job[r] # Idle  BY <1>1, <2>1, NotIdle
    <3>2. pc[r] # "new"  BY <3>1, NoJob
    <3>3. QED  BY <3>2 DEF RestVarsOK, AskRight
  <2>2. CASE txn[r] = "posted"
    BY <2>2 DEF RestVarsOK, AskRight
  <2>3. QED  BY <2>1, <2>2
<1>3. SuccessStored(r)  BY DEF SuccessesStored
<1>4. CASE job[r].step = "stored" \/ txn[r] = "posted"
  <2>1. ask[r] # NoRequest  BY <1>2, <1>4, RestAssumption
  <2>2. OnDiskFor(r) => OnDiskFor(r)'  BY <2>1, OnDiskStays
  <2>3. ask'[r] = ask[r]  BY <2>1
  <2>4. QED  BY <1>3, <2>2, <2>3 DEF SuccessStored
<1>5. CASE ~(job[r].step = "stored" \/ txn[r] = "posted")
  BY <1>5 DEF SuccessStored
<1>6. QED  BY <1>4, <1>5

LEMMA SuccessClient ==
  ASSUME IndexTypeOK, RestVarsOK, AnswersRight, AskedFor, JobsAsked, SuccessesStored,
         NEW r \in Client, HandlerStep(r) \/ Outcome(r) \/ ReplyStep(r),
         \A q \in Client : ask[q] # NoRequest => ask'[q] = ask[q]
  PROVE  SuccessStored(r)'
<1>0. r \in Writer /\ UNCHANGED instances  BY OtherJobs DEF Writer
<1>1. job'[r].step = "stored" => job[r].step = "stored"
  <2>1. ASSUME NEW j, job' = [job EXCEPT ![r] = j]  PROVE job'[r] = j
    BY <1>0, <2>1 DEF IndexTypeOK
  <2>2. CASE StoreNewContractInfo(r, ask[r].addr, ContractInfo(r))
    <3>1. job' = [job EXCEPT ![r] = [step |-> "open", addr |-> ask[r].addr,
                                      info |-> ContractInfo(r)]]
      BY <2>2 DEF StoreNewContractInfo, StoreContractInfo
    <3>2. QED  BY <2>1, <3>1
  <2>3. CASE Return(r)
    <3>1. job' = [job EXCEPT ![r] = Idle]  BY <2>3 DEF Return
    <3>2. QED  BY <2>1, <3>1 DEF Idle
  <2>4. QED  BY <2>2, <2>3, ClientJobs
<1>2. CASE txn'[r] = "posted" => txn[r] = "posted"
  BY <1>0, <1>1, <1>2, SuccessStays
<1>3. CASE txn'[r] = "posted" /\ txn[r] # "posted"
  <2>1. PostDeployed(r) \/ PostDeploy(r)
    <3>1. CASE Receive(r)
      BY <1>3, <3>1 DEF Receive
    <3>2. CASE HandlerStep(r) /\ ~Receive(r)
      <4>1. UNCHANGED txn \/ txn' = [txn EXCEPT ![r] = "submitted"]
        BY <3>2, HandlerShape DEF Respond, Continue, TxnTo
      <4>2. QED  BY <1>3, <4>1 DEF RestVarsOK
    <3>3. CASE ~HandlerStep(r) /\ ~PostDeployed(r) /\ ~PostDeploy(r)
      <4>1. \E t \in {"mined", "failed", "written", "broadcast", "end"} :
               txn' = [txn EXCEPT ![r] = t]
        BY <3>3 DEF Outcome, ReplyStep, ReplyWithReceipt, SetDone, Broadcast, MarkReply, TxnTo
      <4>2. QED  BY <1>3, <4>1 DEF RestVarsOK
    <3>4. QED  BY <3>1, <3>2, <3>3
  <2>2. CASE PostDeployed(r)
    <3>1. /\ txn[r] = "posting" /\ UNCHANGED ask
          /\ txn' = [txn EXCEPT ![r] = IF job[r].step = "stored" THEN "posted" ELSE "refused"]
      BY <2>2 DEF PostDeployed, TxnTo
    <3>2. job[r].step = "stored"  BY <1>3, <3>1 DEF RestVarsOK
    <3>3. OnDiskFor(r)  BY <3>2 DEF SuccessesStored, SuccessStored
    <3>4. ask[r] # NoRequest
      BY <3>1, RestAssumption DEF RestVarsOK, AskRight
    <3>5. OnDiskFor(r)'  BY <1>0, <3>3, <3>4, OnDiskStays
    <3>6. QED  BY <3>5 DEF SuccessStored
  <2>3. CASE PostDeploy(r)
    <3>1. UNCHANGED ask /\ \E t \in {"posting", "refused", "posted"} :
            /\ txn' = [txn EXCEPT ![r] = t]
            /\ t = "posted" => ask[r].op = "send" \/ ask[r].by = "remote"
      BY <2>3 DEF PostDeploy, TxnTo
    <3>2. ask[r].op = "send" \/ ask[r].by = "remote"
      BY <1>3, <3>1 DEF RestVarsOK
    <3>3. job'[r].step # "stored"
      <4>1. txn[r] = "mined"  BY <2>3 DEF PostDeploy
      <4>2. job[r] = Idle  BY <4>1, NoJob
      <4>3. QED  BY <1>1, <4>2 DEF Idle
    <3>4. QED  BY <3>1, <3>2, <3>3 DEF SuccessStored
  <2>4. QED  BY <2>1, <2>2, <2>3
<1>4. QED  BY <1>2, <1>3

LEMMA SuccessesNext ==
  IndexTypeOK /\ RestVarsOK /\ AnswersRight /\ AskedFor /\ JobsAsked
    /\ SuccessesStored /\ [Next]_vars
    => SuccessesStored'
<1> SUFFICES ASSUME IndexTypeOK, RestVarsOK, AnswersRight, AskedFor, JobsAsked,
                    SuccessesStored, [Next]_vars
             PROVE  SuccessesStored'
  OBVIOUS
<1>0. /\ \A q \in Client : ask[q] # NoRequest => ask'[q] = ask[q]
      /\ Main \notin Client /\ Client \subseteq Writer
  BY AsksStay, IndexAssumption DEF Writer
<1>1. ASSUME NEW r \in Client, HandlerStep(r) \/ Outcome(r) \/ ReplyStep(r)
      PROVE  SuccessesStored'
  <2>1. SuccessStored(r)'  BY <1>0, <1>1, SuccessClient
  <2>2. ASSUME NEW q \in Client, q # r  PROVE SuccessStored(q)'
    <3>1. txn'[q] = txn[q]  BY <1>1, <2>2, StepOfClient DEF StepIsOf
    <3>2. job'[q] = job[q] /\ UNCHANGED instances  BY <1>0, <1>1, <2>2, OtherJobs
    <3>3. QED  BY <1>0, <3>1, <3>2, SuccessStays
  <2>3. QED  BY <2>1, <2>2 DEF SuccessesStored
<1>2. CASE StartUp /\ UNCHANGED restVars
  <2>1. UNCHANGED <<txn, instances>> /\ \A r \in Client : job'[r] = job[r]
    BY <1>2, StartsAlone DEF restVars
  <2>2. QED  BY <1>0, <2>1, SuccessStays DEF SuccessesStored
<1>3. ASSUME NEW w \in Writer, FileStep(w), NEW r \in Client  PROVE SuccessStored(r)'
  <2>1. /\ UNCHANGED restVars /\ job[w] # Idle /\ job[w].addr \in Addr
        /\ \A v \in Writer \ {w} : job'[v] = job[v]
        /\ \A a \in Addr \ {job[w].addr} : instances'[a] = instances[a]
        /\ job'[w].step = "stored" => instances'[job[w].addr] \in Info
    BY <1>3, StepOfJob DEF FileStep
  <2>2. CASE w = r
    <3>1. /\ txn[r] # "posted" /\ job[r].addr = ask[r].addr /\ ask'[r] = ask[r]
          /\ txn'[r] = txn[r]
      BY <2>1, <2>2, NoJob DEF JobsAsked, JobAsked, AnswersRight, AnswerRight, restVars
    <3>2. QED  BY <2>1, <2>2, <3>1 DEF SuccessStored, OnDiskFor
  <2>3. CASE w # r
    <3>1. CASE ~(job[r].step = "stored" \/ txn[r] = "posted")
      BY <1>0, <2>1, <2>3, <3>1 DEF SuccessStored, restVars
    <3>2. CASE job[r].step = "stored" \/ txn[r] = "posted"
      <4>1. phase = "serving" /\ ask[r] \in Request
        <5>1. CASE job[r].step = "stored"
          <6>1. job[r] # Idle  BY <1>0, <5>1, NotIdle
          <6>2. QED  BY <6>1, NoJob DEF RestVarsOK, AskRight
        <5>2. CASE txn[r] = "posted"
          BY <5>2 DEF JobsAsked, JobAsked, Consuming, RestVarsOK, AskRight
        <5>3. QED  BY <3>2, <5>1, <5>2
      <4>2. w \in Client
        BY <2>1, <4>1 DEF JobsAsked, Writer
      <4>3. /\ ask[w].op \in {"register", "deploy"} /\ job[w].addr = ask[w].addr
            /\ ask[w] # NoRequest
        <5>1. ask[w] \in Request  BY <2>1, <4>2, NoJob DEF RestVarsOK, AskRight
        <5>2. QED  BY <2>1, <4>2, <5>1, RestAssumption DEF JobsAsked, JobAsked
      <4>4. instances'[ask[r].addr] = instances[ask[r].addr] \/ Contested(r)
        <5>1. CASE ask[w].addr = ask[r].addr
          BY <2>3, <4>2, <4>3, <5>1 DEF Contested
        <5>2. CASE ask[w].addr # ask[r].addr
          <6>1. ask[r].addr \in Addr  BY <4>1 DEF Request
          <6>2. QED  BY <2>1, <4>3, <5>2, <6>1
        <5>3. QED  BY <5>1, <5>2
      <4>5. job'[r] = job[r] /\ txn'[r] = txn[r]
        BY <1>0, <2>1, <2>3 DEF restVars
      <4>6. QED  BY <1>0, <4>1, <4>4, <4>5, SuccessStays
    <3>3. QED  BY <3>1, <3>2
  <2>4. QED  BY <2>2, <2>3
<1>4. CASE Crash
  <2>1. UNCHANGED instances /\ \A r \in Client : job'[r] = Idle
    BY <1>0, <1>4 DEF Crash, CrashIndex, diskVars
  <2>2. \A r \in Client : txn'[r] # "posted"
    BY <1>4 DEF Crash, Consuming
  <2>3. QED  BY <2>1, <2>2 DEF SuccessesStored, SuccessStored, Idle
<1>5. CASE UNCHANGED vars
  <2>1. UNCHANGED <<txn, job, instances>>
    BY <1>5 DEF vars, indexVars, restVars, diskVars
  <2>2. QED  BY <1>0, <2>1, SuccessStays DEF SuccessesStored
<1>6. QED  BY <1>1, <1>2, <1>3, <1>4, <1>5 DEF Next, SuccessesStored

(* The statuses that are written for a success, and to whom.               *)
LEMMA SuccessTold ==
  ASSUME IndexTypeOK, RestVarsOK, AnswersRight, AskedFor, JobsAsked, SuccessesStored,
         NEW r \in Client, HandlerStep(r) \/ Outcome(r) \/ ReplyStep(r),
         response'[r] # response[r], response'[r][Len(response'[r])] \in {200, 201},
         ask[r].op \in {"register", "deploy"}, ask[r].by # "remote"
  PROVE  OnDiskFor(r)
<1>1. ASSUME NEW s \in Status, response' = [response EXCEPT ![r] = Append(@, s)]
      PROVE  s \in {200, 201}
  <2>1. response[r] \in Seq(Status)  BY DEF RestVarsOK
  <2>2. response'[r] = Append(response[r], s)  BY <1>1 DEF RestVarsOK
  <2>3. Append(response[r], s)[Len(Append(response[r], s))] = s  BY <2>1
  <2>4. QED  BY <2>2, <2>3
<1>2. ASSUME NEW s \in Status, Respond(r, s)  PROVE s \in {200, 201}
  BY <1>1, <1>2 DEF Respond
<1>3. CASE Registered(r)
  <2>1. Respond(r, IF job[r].step = "stored" THEN 201 ELSE 409)
    BY <1>3 DEF Registered
  <2>2. job[r].step = "stored"
    <3>1. CASE job[r].step = "stored"  BY <3>1
    <3>2. CASE job[r].step # "stored"
      <4>1. Respond(r, 409)  BY <2>1, <3>2
      <4>2. QED  BY <1>2, <4>1 DEF Status
    <3>3. QED  BY <3>1, <3>2
  <2>3. QED  BY <2>2 DEF SuccessesStored, SuccessStored
<1>4. CASE ReplyWithReceipt(r)
  <2>1. response' = [response EXCEPT ![r] = Append(@, IF txn[r] = "posted" THEN 200 ELSE 500)]
    BY <1>4 DEF ReplyWithReceipt
  <2>2. txn[r] = "posted"
    <3>1. CASE txn[r] = "posted"  BY <3>1
    <3>2. CASE txn[r] # "posted"
      <4>1. response' = [response EXCEPT ![r] = Append(@, 500)]  BY <2>1, <3>2
      <4>2. QED  BY <1>1, <4>1 DEF Status
    <3>3. QED  BY <3>1, <3>2
  <2>3. QED  BY <2>2 DEF SuccessesStored, SuccessStored
<1>5. CASE ~Registered(r) /\ ~ReplyWithReceipt(r)
  <2>1. \E s \in {202, 400, 404, 409, 500} : Respond(r, s)
    <3>1. response' # response  OBVIOUS
    <3>2. QED
      BY <1>5, <3>1 DEF HandlerStep, Receive, ResolveRemote, Resolve, ResolveParams,
         GetContractOrABI, GetRemoteRegistrySwaggerOrABI, CallContract, CompileForm,
         StoreDeployableABI, StoreABIFile, RegisterContract, CheckName, SendTransaction,
         DispatchSync, DispatchAsync, AckAsync, CheckDone, Wait, Outcome, ReplyStep,
         PostDeploy, PostDeployed, SetDone, Broadcast, MarkReply, Continue
  <2>2. QED  BY <1>2, <2>1 DEF Status
<1>6. QED  BY <1>3, <1>4, <1>5

LEMMA SuccessStep ==
  ASSUME IndexTypeOK, RestVarsOK, AnswersRight, AskedFor, JobsAsked, SuccessesStored,
         Next, NEW r \in Client,
         response'[r] # response[r], response'[r][Len(response'[r])] \in {200, 201},
         ask[r].op \in {"register", "deploy"}, ask[r].by # "remote"
  PROVE  instances'[ask[r].addr] \in Info \/ Contested(r)
<1>1. PICK q \in Client : HandlerStep(q) \/ Outcome(q) \/ ReplyStep(q)
  BY DEF Next, FileStep, Crash, restVars
<1>2. q = r  BY <1>1, StepOfClient DEF StepIsOf
<1>3. OnDiskFor(r) /\ UNCHANGED instances
  BY <1>1, <1>2, SuccessTold, OtherJobs
<1>4. QED  BY <1>3 DEF OnDiskFor

(* A client that is told that its contract was registered or deployed can  *)
(* count on the file, unless it shares the address with somebody else: no  *)
(* error of the write or of PostDeploy is passed over, not even when other *)
(* requests store contracts at the same time (rest2eth.go, PostDeploy).    *)
THEOREM SuccessOnDisk == Spec => SuccessIsStored
<1>1. Init => AskedFor /\ JobsAsked /\ SuccessesStored /\ AnswersRight
  BY AskedForInit, JobsAskedInit, AnswersInit
<1>2. RestTypeOK => IndexTypeOK  BY DEF RestTypeOK
<1>3. Spec => [](IndexTypeOK /\ RestVarsOK /\ AnswersRight /\ AskedFor /\ JobsAsked
                   /\ SuccessesStored)
  BY <1>1, <1>2, AskedForNext, AnswersNext, JobsAskedNext, SuccessesNext, RestVarsAlways,
     GatewayTypeCorrect, PTL DEF Spec
<1>4. IndexTypeOK /\ RestVarsOK /\ AnswersRight /\ AskedFor /\ JobsAsked /\ SuccessesStored
        /\ [Next]_vars
      => [\A r \in Client :
            /\ response'[r] # response[r] /\ response'[r][Len(response'[r])] \in {200, 201}
            /\ ask[r].op \in {"register", "deploy"} /\ ask[r].by # "remote"
            => instances'[ask[r].addr] \in Info \/ Contested(r)]_vars
  BY SuccessStep
<1>5. QED  BY <1>3, <1>4, PTL DEF Spec, SuccessIsStored

=============================================================================
