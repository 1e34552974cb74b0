-------------------------- MODULE Webhooks_proofs ---------------------------
(***************************************************************************)
(* Proofs about Webhooks for every finite set of requests, in both modes   *)
(* and with both stores, and for every limit.                              *)
(***************************************************************************)
EXTENDS Webhooks, FiniteSetTheorems, SequenceTheorems, TLAPS

USE WebhooksAssumption

-----------------------------------------------------------------------------
(* The operators of the receipt store.                                     *)

LEMMA FewerType ==
  ASSUME NEW m \in Nat, NEW n \in Int
  PROVE  Fewer(m, n) \in Nat /\ Fewer(m, n) <= m
BY DEF Fewer

(* Keep(n, s) is the longest prefix of s with at most n elements.          *)
LEMMA KeepProperties ==
  ASSUME NEW S, NEW n \in Nat, NEW s \in Seq(S)
  PROVE  /\ Keep(n, s) \in Seq(S)
         /\ Len(Keep(n, s)) = Fewer(n, Len(s))
         /\ \A i \in 1 .. Fewer(n, Len(s)) : Keep(n, s)[i] = s[i]
<1> DEFINE k == Fewer(n, Len(s))
<1>1. k \in Nat /\ k <= Len(s) /\ Len(s) \in Nat
  BY DEF Fewer
<1>2. \A i \in 1 .. k : s[i] \in S
  BY <1>1
<1> HIDE DEF k
<1>3. /\ SubSeq(s, 1, k) \in Seq(S)
      /\ Len(SubSeq(s, 1, k)) = IF 1 <= k THEN k - 1 + 1 ELSE 0
      /\ \A i \in 1 .. k - 1 + 1 : SubSeq(s, 1, k)[i] = s[1 + i - 1]
  BY <1>1, <1>2, SubSeqProperties
<1>4. Keep(n, s) = SubSeq(s, 1, k)
  BY DEF Keep, k
<1>5. k - 1 + 1 = k /\ \A i \in 1 .. k : 1 + i - 1 = i
  BY <1>1
<1>6. Len(Keep(n, s)) = k
  BY <1>1, <1>3, <1>4
<1> QED BY <1>3, <1>4, <1>5, <1>6 DEF k

(* The receipt of a reply goes to the front, and the memory store drops    *)
(* the oldest one if it is full; it never grows beyond its limit, or one.  *)
LEMMA AddToMemoryProperties ==
  ASSUME NEW r \in Client, receipts \in Seq(Client), AddToMemory(r)
  PROVE  /\ receipts' \in Seq(Client)
         /\ Len(receipts') = IF Len(receipts) >= maxDocs /\ Len(receipts) > 0
                               THEN Len(receipts) ELSE Len(receipts) + 1
         /\ receipts'[1] = r
         /\ \A i \in 2 .. Len(receipts') : receipts'[i] = receipts[i - 1]
<1> DEFINE rest == IF Len(receipts) >= maxDocs /\ Len(receipts) > 0
                     THEN Keep(Len(receipts) - 1, receipts) ELSE receipts
<1>1. Len(receipts) \in Nat
  OBVIOUS
<1>2. /\ rest \in Seq(Client)
      /\ Len(rest) = IF Len(receipts) >= maxDocs /\ Len(receipts) > 0
                       THEN Len(receipts) - 1 ELSE Len(receipts)
      /\ \A i \in 1 .. Len(rest) : rest[i] = receipts[i]
  <2>1. CASE Len(receipts) >= maxDocs /\ Len(receipts) > 0
    <3> DEFINE n == Len(receipts) - 1
    <3>1. n \in Nat
      BY <2>1, <1>1
    <3>2. Fewer(n, Len(receipts)) = n
      BY <3>1 DEF Fewer
    <3>3. rest = Keep(n, receipts)
      BY <2>1
    <3> HIDE DEF n, rest
    <3>4. /\ Keep(n, receipts) \in Seq(Client)
          /\ Len(Keep(n, receipts)) = n
          /\ \A i \in 1 .. n : Keep(n, receipts)[i] = receipts[i]
      BY <3>1, <3>2, KeepProperties
    <3> QED BY <2>1, <3>3, <3>4 DEF n
  <2>2. CASE ~(Len(receipts) >= maxDocs /\ Len(receipts) > 0)
    BY <2>2
  <2> QED BY <2>1, <2>2
<1>3. receipts' = <<r>> \o rest
  BY DEF AddToMemory
<1> HIDE DEF rest
<1>4. <<r>> \in Seq(Client) /\ Len(<<r>>) = 1
  OBVIOUS
<1>5. /\ <<r>> \o rest \in Seq(Client)
      /\ Len(<<r>> \o rest) = 1 + Len(rest)
      /\ \A i \in 1 .. 1 + Len(rest) :
           (<<r>> \o rest)[i] = IF i <= 1 THEN <<r>>[i] ELSE rest[i - 1]
  BY <1>2, <1>4, ConcatProperties
<1>6. receipts'[1] = r
  BY <1>2, <1>3, <1>5
<1>7. \A i \in 2 .. Len(receipts') : receipts'[i] = receipts[i - 1]
  <2> SUFFICES ASSUME NEW i \in 2 .. Len(receipts') PROVE receipts'[i] = receipts[i - 1]
    OBVIOUS
  <2>1. i \in 1 .. 1 + Len(rest) /\ ~(i <= 1) /\ i - 1 \in 1 .. Len(rest)
    BY <1>2, <1>3, <1>5
  <2> QED BY <1>2, <1>3, <1>5, <2>1
<1>8. Len(receipts') = 1 + Len(rest)
  BY <1>3, <1>5
<1> QED BY <1>1, <1>2, <1>3, <1>5, <1>6, <1>7, <1>8

LEMMA AddToMongoType ==
  ASSUME NEW r \in Client, receipts \in Seq(Client), maxDocs \in Nat, AddToMongo(r)
  PROVE  receipts' \in Seq(Client)
<1>1. <<r>> \o receipts \in Seq(Client)
  BY ConcatProperties
<1>2. Keep(maxDocs, <<r>> \o receipts) \in Seq(Client)
  BY <1>1, KeepProperties
<1> QED BY <1>1, <1>2 DEF AddToMongo

LEMMA AddReceiptType ==
  ASSUME TypeOK, NEW r \in Client, AddReceipt(r)
  PROVE  receipts' \in Seq(Client) /\ failures' \in Nat
BY AddToMemoryProperties, AddToMongoType DEF AddReceipt, TypeOK

(* A page has at most Limit receipts, all of them stored.                  *)
LEMMA PageType ==
  ASSUME TypeOK, NEW n \in Nat, NEW page \in GetReceipts(n)
  PROVE  page \in Seq(Client) /\ Len(page) \in Nat
<1>1. CASE store = "memory"
  <2> DEFINE last == Fewer(n + Limit, Len(receipts))
  <2>1. last \in Nat /\ last <= Len(receipts) /\ Len(receipts) \in Nat
    BY DEF Fewer, TypeOK
  <2>2. \A i \in n + 1 .. last : receipts[i] \in Client
    BY <2>1 DEF TypeOK
  <2>3. page = SubSeq(receipts, n + 1, last)
    BY <1>1 DEF GetReceipts
  <2> HIDE DEF last
  <2>4. SubSeq(receipts, n + 1, last) \in Seq(Client)
    BY <2>1, <2>2, SubSeqProperties
  <2> QED BY <2>3, <2>4
<1>2. CASE store # "memory"
  <2> DEFINE k == Fewer(Limit, Len(receipts) - n)
  <2>1. k \in Nat
    BY DEF Fewer, TypeOK
  <2>2. page \in [1 .. k -> {r \in Client : Stored(r)}]
    BY <1>2 DEF GetReceipts
  <2> HIDE DEF k
  <2>3. page \in [1 .. k -> Client]
    BY <2>2
  <2> QED BY <2>1, <2>3
<1> QED BY <1>1, <1>2

-----------------------------------------------------------------------------
(* The types.                                                              *)

(* What TypeOK says of the handlers: those that returned have a status.    *)
HandlerTypes ==
  /\ pc \in [Client -> {"new", "send", "input", "check", "asleep", "onmessage",
                        "returned", "gone"}]
  /\ status \in [Client -> {0, 200, 400, 429, 500, 502}]
  /\ \A r \in Client : pc[r] = "returned" <=> status[r] # 0

LEMMA RespondType ==
  ASSUME HandlerTypes, NEW r \in Client, NEW code \in {200, 400, 429, 500, 502},
         Respond(r, code)
  PROVE  HandlerTypes'
BY DEF HandlerTypes, Respond

LEMMA GotoType ==
  ASSUME HandlerTypes, NEW r \in Client, pc[r] # "returned",
         NEW s \in {"send", "input", "check", "asleep", "onmessage"}, Goto(r, s)
  PROVE  HandlerTypes'
BY DEF HandlerTypes, Goto

LEMMA BroadcastType ==
  ASSUME HandlerTypes, Broadcast
  PROVE  HandlerTypes'
BY DEF HandlerTypes, Broadcast

(* The offsets of the consumer: what is being processed is on the topic;   *)
(* only a crash stops the process.                                         *)
LogInv ==
  /\ committed <= marked /\ marked <= Len(replyLog)
  /\ stage # "next" => mode = "kafka" /\ marked < Len(replyLog)
  /\ mode = "direct" => marked = 0
  /\ base <= (IF mode = "direct" THEN Len(replyLog) ELSE marked)
  /\ up \/ crashes > 0

LEMMA InitType == Init => TypeOK /\ LogInv
BY EmptySeq DEF Init, TypeOK, LogInv

LEMMA StoreTypeStep == TypeOK /\ LogInv /\ StoreNext /\ UNCHANGED readerVars => TypeOK'
<1> SUFFICES ASSUME TypeOK, LogInv, StoreNext, UNCHANGED readerVars PROVE TypeOK'
  OBVIOUS
<1> USE DEF configVars, handlerVars, sendVars, logVars, consumerVars, bounds, readerVars,
            At
<1>0. HandlerTypes
  BY DEF TypeOK, HandlerTypes
<1>a. ASSUME NEW r \in Client,
             HandlerStep(r) \/ ProducerStep(r) \/ BridgeReply(r) \/ DirectReply(r)
      PROVE TypeOK'
  <2>1. CASE ProcessMsg(r)
    <3>1. HandlerTypes'
      BY <1>0, <2>1, RespondType, GotoType, BroadcastType DEF ProcessMsg
    <3> QED BY <2>1, <3>1 DEF ProcessMsg, TypeOK, HandlerTypes
  <2>2. CASE SetMsgPending(r)
    <3>1. HandlerTypes'
      BY <1>0, <2>2, RespondType, GotoType, BroadcastType DEF SetMsgPending
    <3> QED BY <2>2, <3>1 DEF SetMsgPending, TypeOK, HandlerTypes
  <2>3. CASE SendInput(r)
    <3>1. HandlerTypes'
      BY <1>0, <2>3, RespondType, GotoType, BroadcastType DEF SendInput
    <3> QED BY <2>3, <3>1 DEF SendInput, TypeOK, HandlerTypes
  <2>4. CASE WaitForSend(r)
    <3>1. HandlerTypes'
      BY <1>0, <2>4, RespondType, GotoType, BroadcastType DEF WaitForSend
    <3>2. /\ failedMsgs' \subseteq Client /\ successMsgs' \subseteq Client
          /\ UNCHANGED <<mode, store, maxDocs, noAck, up, pendingMsgs, sending, confirmed,
                         errored, topic, replyLog, committed, marked, stage, base, inFlight,
                         receipts, crashes, failures, reading, skip, seen, due>>
      BY <2>4 DEF WaitForSend, TypeOK
    <3> QED BY <3>1, <3>2 DEF TypeOK, HandlerTypes
  <2>5. CASE SendDirect(r)
    <3>1. HandlerTypes'
      BY <1>0, <2>5, RespondType, GotoType, BroadcastType DEF SendDirect
    <3> QED BY <2>5, <3>1 DEF SendDirect, TypeOK, HandlerTypes
  <2>6. CASE OnMessageReturns(r)
    <3>1. HandlerTypes'
      BY <1>0, <2>6, RespondType, GotoType, BroadcastType DEF OnMessageReturns
    <3> QED BY <2>6, <3>1 DEF OnMessageReturns, TypeOK, HandlerTypes
  <2>7. CASE Produce(r)
    BY <2>7 DEF Produce, TypeOK
  <2>8. CASE ProducerSuccessLoop(r)
    <3>1. HandlerTypes'
      BY <1>0, <2>8, RespondType, GotoType, BroadcastType DEF ProducerSuccessLoop, HandlerTypes
    <3> QED BY <2>8, <3>1 DEF ProducerSuccessLoop, TypeOK, HandlerTypes
  <2>9. CASE ProducerErrorLoop(r)
    <3>1. HandlerTypes'
      BY <1>0, <2>9, RespondType, GotoType, BroadcastType DEF ProducerErrorLoop, HandlerTypes
    <3> QED BY <2>9, <3>1 DEF ProducerErrorLoop, TypeOK, HandlerTypes
  <2>10. CASE BridgeReply(r)
    BY <2>10, AppendProperties DEF BridgeReply, TypeOK
  <2>11. CASE DirectReply(r)
    BY <2>11, AddReceiptType, AppendProperties DEF DirectReply, TypeOK
  <2> QED BY <1>a, <2>1, <2>2, <2>3, <2>4, <2>5, <2>6, <2>7, <2>8, <2>9, <2>10, <2>11
          DEF HandlerStep, ProducerStep
<1>1. CASE ConsumeReply
  BY <1>1 DEF ConsumeReply, TypeOK
<1>2. CASE ProcessReply
  <2>1. replyLog[marked + 1] \in Client
    BY <1>2 DEF ProcessReply, LogInv, TypeOK
  <2> QED BY <1>2, <2>1, AddReceiptType DEF ProcessReply, TypeOK
<1>3. CASE MarkOffset
  BY <1>3 DEF MarkOffset, TypeOK
<1>4. CASE Commit
  BY <1>4 DEF Commit, TypeOK
<1>5. CASE Crash
  <2>1. HandlerTypes'
    BY <1>0, <1>5 DEF Crash, HandlerTypes
  <2>2. receipts' \in Seq(Client)
    BY <1>5, EmptySeq DEF Crash, TypeOK
  <2>3. /\ UNCHANGED <<mode, store, maxDocs, noAck, topic, replyLog, committed, marked,
                       stage, base, failures, reading, skip, seen, due>>
        /\ up' = FALSE /\ crashes' = crashes + 1
        /\ pendingMsgs' = {} /\ successMsgs' = {} /\ failedMsgs' = {} /\ sending' = {}
        /\ confirmed' = {} /\ errored' = {} /\ inFlight' = {}
    BY <1>5 DEF Crash
  <2>4. crashes' \in Nat
    BY <2>3 DEF TypeOK
  <2>5. up' \in BOOLEAN
    BY <2>3
  <2> QED BY <2>1, <2>2, <2>3, <2>4, <2>5 DEF TypeOK, HandlerTypes
<1>6. CASE Restart
  BY <1>6 DEF Restart, TypeOK
<1> QED BY <1>a, <1>1, <1>2, <1>3, <1>4, <1>5, <1>6 DEF StoreNext, ConsumerStep

(* Every step keeps the offsets in their order.                            *)
LEMMA LogStep == TypeOK /\ LogInv /\ StoreNext => LogInv'
<1> SUFFICES ASSUME TypeOK, LogInv, StoreNext PROVE LogInv'
  OBVIOUS
<1> USE DEF configVars, handlerVars, sendVars, logVars, consumerVars, bounds
<1>1. ASSUME NEW r \in Client, HandlerStep(r) \/ ProducerStep(r)
      PROVE LogInv'
  BY <1>1 DEF HandlerStep, ProducerStep, ProcessMsg, SetMsgPending, SendInput,
              WaitForSend, SendDirect, OnMessageReturns, Produce, ProducerSuccessLoop,
              ProducerErrorLoop, LogInv
<1>2. ASSUME NEW r \in Client, BridgeReply(r) \/ DirectReply(r)
      PROVE LogInv'
  <2>1. replyLog' = Append(replyLog, r) /\ Len(replyLog') = Len(replyLog) + 1
    BY <1>2, AppendProperties DEF BridgeReply, DirectReply, TypeOK
  <2> QED BY <1>2, <2>1 DEF BridgeReply, DirectReply, LogInv, TypeOK
<1>3. CASE ConsumerStep
  <2>1. UNCHANGED <<mode, replyLog, committed, base>>
    BY <1>3 DEF ConsumerStep, ConsumeReply, ProcessReply, MarkOffset
  <2>2. CASE ConsumeReply
    BY <2>1, <2>2 DEF ConsumeReply, LogInv, TypeOK
  <2>3. CASE ProcessReply
    BY <2>1, <2>3 DEF ProcessReply, LogInv, TypeOK
  <2>4. CASE MarkOffset
    BY <2>1, <2>4 DEF MarkOffset, LogInv, TypeOK
  <2> QED BY <1>3, <2>2, <2>3, <2>4 DEF ConsumerStep
<1>4. CASE Commit \/ Crash \/ Restart
  BY <1>4 DEF Commit, Crash, Restart, LogInv, TypeOK
<1> QED BY <1>1, <1>2, <1>3, <1>4 DEF StoreNext

LEMMA ReaderTypeStep ==
  TypeOK /\ LogInv /\ GetReplies /\ UNCHANGED storeVars => TypeOK' /\ LogInv'
<1> SUFFICES ASSUME TypeOK, LogInv, GetReplies, UNCHANGED storeVars
             PROVE  TypeOK' /\ LogInv'
  OBVIOUS
<1> USE DEF storeVars, configVars, handlerVars, sendVars, logVars, consumerVars, bounds
<1>1. LogInv'
  BY DEF LogInv
<1>2. reading' \in {"pages", "end", "refused"} /\ skip' \in Nat
      /\ seen' \subseteq Client /\ due' \subseteq Client
  <2>1. CASE UNCHANGED <<skip, seen, due>> /\ reading' = "refused"
    BY <2>1 DEF TypeOK
  <2>2. ASSUME NEW page \in GetReceipts(skip),
               due' = IF skip = 0 THEN {r \in Client : Stored(r)} ELSE due,
               seen' = seen \cup {page[i] : i \in DOMAIN page},
               skip' = skip + Len(page),
               reading' = IF Len(page) < Limit THEN "end" ELSE "pages"
        PROVE  /\ reading' \in {"pages", "end", "refused"} /\ skip' \in Nat
               /\ seen' \subseteq Client /\ due' \subseteq Client
    <3>1. page \in Seq(Client) /\ Len(page) \in Nat
      BY PageType DEF TypeOK
    <3>2. \A i \in DOMAIN page : page[i] \in Client
      BY <3>1
    <3> QED BY <2>2, <3>1, <3>2 DEF TypeOK
  <2> QED BY <2>1, <2>2 DEF GetReplies
<1> QED BY <1>1, <1>2 DEF TypeOK

LEMMA TypeStep == TypeOK /\ LogInv /\ [Next]_vars => TypeOK' /\ LogInv'
<1> SUFFICES ASSUME TypeOK, LogInv, [Next]_vars PROVE TypeOK' /\ LogInv'
  OBVIOUS
<1>1. CASE UNCHANGED vars
  BY <1>1 DEF vars, storeVars, configVars, handlerVars, sendVars, logVars, consumerVars,
              bounds, readerVars, TypeOK, LogInv
<1> QED BY <1>1, StoreTypeStep, LogStep, ReaderTypeStep DEF Next

(* Every value of a variable is one the code can give it, however the      *)
(* goroutines, crashes and replies interleave; the offsets stay in order.  *)
THEOREM Typing == Spec => []TypeOK
<1>1. Spec => [](TypeOK /\ LogInv)
  BY InitType, TypeStep, PTL DEF Spec
<1> QED BY <1>1, PTL

-----------------------------------------------------------------------------
(* Acknowledgements.                                                       *)

(* Where a message can be: in one channel of the producer before the loops *)
(* have sorted it, in one map after that, and in neither when its handler  *)
(* has not sent it or has taken it out; a handler that waits has a message *)
(* that is in one of the two.  Nobody waits for a message of /fasthook.    *)
Tracked == pendingMsgs \cup successMsgs \cup failedMsgs
Unsorted == sending \cup confirmed \cup errored

MessageInv(r) ==
  /\ r \in Tracked => r \notin noAck /\ pc[r] \in {"input", "check", "asleep"}
  /\ r \in Unsorted => pc[r] \in {"check", "asleep"} \/ (r \in noAck /\ pc[r] = "returned")
  /\ pc[r] = "input" => r \in noAck \/ r \in pendingMsgs
  /\ pc[r] \in {"check", "asleep"} => r \notin noAck /\ r \in Tracked
  /\ pc[r] = "asleep" => r \in pendingMsgs
  /\ r \in pendingMsgs => r \notin successMsgs \cup failedMsgs
  /\ r \in pendingMsgs => pc[r] = "input" \/ r \in Unsorted
  /\ r \in successMsgs \cup failedMsgs => r \notin Unsorted
  /\ r \in successMsgs => r \notin failedMsgs
  /\ r \in sending => r \notin confirmed \cup errored
  /\ r \in confirmed => r \notin errored
  /\ r \in confirmed \cup successMsgs => r \in topic
  /\ mode = "kafka" /\ status[r] = 200 /\ r \notin noAck => r \in topic
  /\ mode = "kafka" => pc[r] # "onmessage" /\ r \notin inFlight

(* What the direct mode still waits for has been handed over once and not  *)
(* been answered.                                                          *)
DirectInv(r) ==
  /\ mode = "direct" => pc[r] \notin {"input", "check", "asleep"}
  /\ mode = "direct" /\ Answered(r) => pc[r] \notin {"new", "send"}
  /\ r \in inFlight => pc[r] \notin {"new", "send"} /\ ~Answered(r)

InFlightInv == Cardinality(inFlight) <= MaxInFlight

MessagesInv == InFlightInv /\ \A r \in Client : MessageInv(r) /\ DirectInv(r)

(* What is in the maps stays where it can be, whoever moves.               *)
LEMMA MessageStep ==
  ASSUME TypeOK, StoreNext, NEW q \in Client, MessageInv(q), DirectInv(q)
  PROVE  MessageInv(q)'
<1> USE DEF configVars, handlerVars, sendVars, logVars, consumerVars, bounds, At, Respond,
            Goto, Broadcast, Tracked, Unsorted, TypeOK
<1>1. ASSUME NEW r \in Client, ProcessMsg(r) PROVE MessageInv(q)'
  BY <1>1 DEF ProcessMsg, MessageInv
<1>2. ASSUME NEW r \in Client, SetMsgPending(r) PROVE MessageInv(q)'
  BY <1>2 DEF SetMsgPending, MessageInv
<1>3. ASSUME NEW r \in Client, SendInput(r) PROVE MessageInv(q)'
  BY <1>3 DEF SendInput, MessageInv
<1>4. ASSUME NEW r \in Client, WaitForSend(r) PROVE MessageInv(q)'
  <2>0. q \in DOMAIN pc /\ r \in DOMAIN pc /\ q \in DOMAIN status /\ r \in DOMAIN status
    OBVIOUS
  <2>1. /\ pc[r] = "check"
        /\ UNCHANGED <<mode, noAck, pendingMsgs, sending, confirmed, errored, topic, inFlight>>
    BY <1>4 DEF WaitForSend
  <2>2. CASE r \in failedMsgs
    <3>1. /\ pc' = [pc EXCEPT ![r] = "returned"] /\ status' = [status EXCEPT ![r] = 502]
          /\ failedMsgs' = failedMsgs \ {r} /\ successMsgs' = successMsgs
      BY <1>4, <2>2 DEF WaitForSend
    <3> HIDE DEF TypeOK
    <3> QED BY <2>0, <2>1, <2>2, <3>1 DEF MessageInv
  <2>3. CASE r \in successMsgs \ failedMsgs
    <3>1. /\ pc' = [pc EXCEPT ![r] = "returned"] /\ status' = [status EXCEPT ![r] = 200]
          /\ failedMsgs' = failedMsgs /\ successMsgs' = successMsgs \ {r}
      BY <1>4, <2>3 DEF WaitForSend
    <3> HIDE DEF TypeOK
    <3> QED BY <2>0, <2>1, <2>3, <3>1 DEF MessageInv
  <2>4. CASE r \notin successMsgs \cup failedMsgs
    <3>1. /\ pc' = [pc EXCEPT ![r] = "asleep"] /\ status' = status
          /\ failedMsgs' = failedMsgs /\ successMsgs' = successMsgs
      BY <1>4, <2>4 DEF WaitForSend
    <3> HIDE DEF TypeOK
    <3> QED BY <2>0, <2>1, <2>4, <3>1 DEF MessageInv
  <2> QED BY <2>2, <2>3, <2>4
<1>5. ASSUME NEW r \in Client, SendDirect(r) PROVE MessageInv(q)'
  BY <1>5 DEF SendDirect, MessageInv
<1>6. ASSUME NEW r \in Client, OnMessageReturns(r) PROVE MessageInv(q)'
  BY <1>6 DEF OnMessageReturns, MessageInv
<1>7. ASSUME NEW r \in Client, Produce(r) PROVE MessageInv(q)'
  BY <1>7 DEF Produce, MessageInv
<1>8. ASSUME NEW r \in Client, ProducerSuccessLoop(r) PROVE MessageInv(q)'
  BY <1>8 DEF ProducerSuccessLoop, MessageInv
<1>9. ASSUME NEW r \in Client, ProducerErrorLoop(r) PROVE MessageInv(q)'
  BY <1>9 DEF ProducerErrorLoop, MessageInv
<1>10. ASSUME NEW r \in Client, BridgeReply(r) \/ DirectReply(r) PROVE MessageInv(q)'
  BY <1>10 DEF BridgeReply, DirectReply, MessageInv
<1>11. CASE ConsumerStep \/ Commit \/ Restart
  BY <1>11 DEF ConsumerStep, ConsumeReply, ProcessReply, MarkOffset, Commit, Restart,
               MessageInv
<1>12. CASE Crash
  BY <1>12 DEF Crash, MessageInv
<1> QED BY <1>1, <1>2, <1>3, <1>4, <1>5, <1>6, <1>7, <1>8, <1>9, <1>10, <1>11, <1>12
        DEF StoreNext, HandlerStep, ProducerStep

(* A reply is the answer to one request.                                   *)
LEMMA AnsweredAfter ==
  ASSUME replyLog \in Seq(Client), NEW q \in Client, NEW r \in Client,
         replyLog' = Append(replyLog, r)
  PROVE  Answered(q)' <=> Answered(q) \/ q = r
<1>1. /\ Len(replyLog) \in Nat /\ Len(replyLog') = Len(replyLog) + 1
      /\ \A i \in 1 .. Len(replyLog) : replyLog'[i] = replyLog[i]
      /\ replyLog'[Len(replyLog) + 1] = r
  BY AppendProperties
<1>2. \A i \in 1 .. Len(replyLog') : i \in 1 .. Len(replyLog) \/ i = Len(replyLog) + 1
  BY <1>1
<1>3. ASSUME Answered(q)' PROVE Answered(q) \/ q = r
  BY <1>1, <1>2, <1>3 DEF Answered
<1>4. ASSUME Answered(q) \/ q = r PROVE Answered(q)'
  <2>1. \A i \in 1 .. Len(replyLog) : i \in 1 .. Len(replyLog')
    BY <1>1
  <2>2. Len(replyLog) + 1 \in 1 .. Len(replyLog')
    BY <1>1
  <2> QED BY <1>1, <1>4, <2>1, <2>2 DEF Answered
<1> QED BY <1>3, <1>4

LEMMA DirectStep ==
  ASSUME TypeOK, StoreNext, NEW q \in Client, MessageInv(q), DirectInv(q)
  PROVE  DirectInv(q)'
<1> USE DEF configVars, handlerVars, sendVars, logVars, consumerVars, bounds, At, Respond,
            Goto, Broadcast, Answered, TypeOK
<1>1. ASSUME NEW r \in Client, HandlerStep(r) PROVE DirectInv(q)'
  <2>0. q \in DOMAIN pc /\ r \in DOMAIN pc
    OBVIOUS
  <2> HIDE DEF TypeOK, Answered
  <2>a. replyLog' = replyLog => (Answered(q)' <=> Answered(q))
    BY DEF Answered
  <2>1. CASE ProcessMsg(r) \/ SetMsgPending(r) \/ SendInput(r)
    BY <2>0, <2>a, <2>1 DEF ProcessMsg, SetMsgPending, SendInput, DirectInv
  <2>2. CASE WaitForSend(r)
    <3>1. /\ pc[r] = "check" /\ UNCHANGED <<mode, replyLog, inFlight>>
          /\ \E s \in {"returned", "asleep"} : pc' = [pc EXCEPT ![r] = s]
      BY <2>2 DEF WaitForSend
    <3> QED BY <2>0, <2>a, <3>1 DEF DirectInv
  <2>3. CASE SendDirect(r)
    BY <2>0, <2>a, <2>3 DEF SendDirect, DirectInv
  <2>4. CASE OnMessageReturns(r)
    <3>1. /\ pc[r] = "onmessage" /\ UNCHANGED <<mode, replyLog, inFlight>>
          /\ pc' = [pc EXCEPT ![r] = "returned"]
      BY <2>4 DEF OnMessageReturns
    <3> QED BY <2>0, <2>a, <3>1 DEF DirectInv
  <2> QED BY <1>1, <2>1, <2>2, <2>3, <2>4 DEF HandlerStep
<1>2. ASSUME NEW r \in Client, ProducerStep(r) PROVE DirectInv(q)'
  <2>1. /\ UNCHANGED <<mode, replyLog, inFlight>>
        /\ pc'[q] = pc[q] \/ (pc[q] = "asleep" /\ pc'[q] = "check")
    BY <1>2 DEF ProducerStep, Produce, ProducerSuccessLoop, ProducerErrorLoop
  <2> HIDE DEF TypeOK
  <2> QED BY <2>1 DEF DirectInv
<1>3. ASSUME NEW r \in Client, BridgeReply(r) PROVE DirectInv(q)'
  <2>1. q \notin inFlight /\ mode = "kafka"
    BY <1>3 DEF BridgeReply, MessageInv
  <2> QED BY <1>3, <2>1 DEF BridgeReply, DirectInv
<1>4. ASSUME NEW r \in Client, DirectReply(r) PROVE DirectInv(q)'
  <2>1. Answered(q)' <=> Answered(q) \/ q = r
    BY <1>4, AnsweredAfter DEF DirectReply
  <2> HIDE DEF Answered
  <2> QED BY <1>4, <2>1 DEF DirectReply, DirectInv
<1>5. CASE ConsumerStep \/ Commit \/ Restart
  BY <1>5 DEF ConsumerStep, ConsumeReply, ProcessReply, MarkOffset, Commit, Restart,
              DirectInv
<1>6. CASE Crash
  BY <1>6 DEF Crash, DirectInv
<1> QED BY <1>1, <1>2, <1>3, <1>4, <1>5, <1>6 DEF StoreNext

(* The limit is checked in the step that adds a message.                   *)
LEMMA InFlightStep == TypeOK /\ InFlightInv /\ StoreNext => InFlightInv'
<1> SUFFICES ASSUME TypeOK, InFlightInv, StoreNext PROVE InFlightInv'
  OBVIOUS
<1> USE DEF configVars, handlerVars, sendVars, logVars, consumerVars, bounds, At, Respond,
            Goto, Broadcast
<1>1. IsFiniteSet(inFlight) /\ Cardinality(inFlight) \in Nat
  BY FS_Subset, FS_CardinalityType DEF TypeOK
<1>2. ASSUME UNCHANGED inFlight PROVE InFlightInv'
  BY <1>2 DEF InFlightInv
<1>3. ASSUME NEW r \in Client, SendDirect(r) PROVE InFlightInv'
  <2>1. CASE UNCHANGED inFlight
    BY <1>2, <2>1
  <2>2. CASE Cardinality(inFlight) < MaxInFlight /\ inFlight' = inFlight \cup {r}
    <3>1. Cardinality(inFlight \cup {r})
            = IF r \in inFlight THEN Cardinality(inFlight) ELSE Cardinality(inFlight) + 1
      BY <1>1, FS_AddElement
    <3>2. MaxInFlight \in Nat
      OBVIOUS
    <3> QED BY <1>1, <2>2, <3>1, <3>2 DEF InFlightInv
  <2> QED BY <1>3, <2>1, <2>2 DEF SendDirect
<1>4. ASSUME NEW r \in Client, DirectReply(r) PROVE InFlightInv'
  <2>1. inFlight' = inFlight \ {r}
    BY <1>4 DEF DirectReply
  <2>2. Cardinality(inFlight \ {r})
          = IF r \in inFlight THEN Cardinality(inFlight) - 1 ELSE Cardinality(inFlight)
    BY <1>1, FS_RemoveElement
  <2>3. MaxInFlight \in Nat
    OBVIOUS
  <2> QED BY <1>1, <2>1, <2>2, <2>3 DEF InFlightInv
<1>5. CASE Crash
  BY <1>5, FS_EmptySet DEF Crash, InFlightInv
<1>6. ASSUME NEW r \in Client,
             \/ ProcessMsg(r) \/ SetMsgPending(r) \/ SendInput(r) \/ WaitForSend(r)
             \/ OnMessageReturns(r) \/ ProducerStep(r) \/ BridgeReply(r)
      PROVE InFlightInv'
  BY <1>2, <1>6 DEF ProcessMsg, SetMsgPending, SendInput, WaitForSend, OnMessageReturns,
     ProducerStep, Produce, ProducerSuccessLoop, ProducerErrorLoop, BridgeReply
<1>7. CASE ConsumerStep \/ Commit \/ Restart
  BY <1>2, <1>7 DEF ConsumerStep, ConsumeReply, ProcessReply, MarkOffset, Commit, Restart
<1> QED BY <1>3, <1>4, <1>5, <1>6, <1>7 DEF StoreNext, HandlerStep

LEMMA MessagesInit == Init => MessagesInv
<1> SUFFICES ASSUME Init PROVE MessagesInv
  OBVIOUS
<1>1. InFlightInv
  BY FS_EmptySet DEF Init, InFlightInv
<1>2. ASSUME NEW r \in Client PROVE MessageInv(r) /\ DirectInv(r)
  <2>1. ~Answered(r)
    BY EmptySeq DEF Init, Answered
  <2> QED BY <2>1 DEF Init, MessageInv, DirectInv, Tracked, Unsorted
<1> QED BY <1>1, <1>2 DEF MessagesInv

LEMMA MessagesStep == TypeOK /\ MessagesInv /\ [Next]_vars => MessagesInv'
<1> SUFFICES ASSUME TypeOK, MessagesInv, [Next]_vars PROVE MessagesInv'
  OBVIOUS
<1>1. CASE StoreNext
  BY <1>1, MessageStep, DirectStep, InFlightStep DEF MessagesInv
<1>2. CASE UNCHANGED storeVars
  BY <1>2 DEF storeVars, configVars, handlerVars, sendVars, logVars, consumerVars, bounds,
              MessagesInv, InFlightInv, MessageInv, DirectInv, Tracked, Unsorted, Answered
<1> QED BY <1>1, <1>2 DEF Next, vars

LEMMA MessagesInvariance == Spec => [](TypeOK /\ MessagesInv)
<1>1. Init => TypeOK /\ MessagesInv
  BY InitType, MessagesInit
<1>2. Spec => []TypeOK
  BY Typing
<1>3. TypeOK /\ MessagesInv /\ [Next]_vars => MessagesInv'
  BY MessagesStep
<1> QED BY <1>1, <1>2, <1>3, PTL DEF Spec

(* A client that is told that its message was sent has it on the topic,    *)
(* and no handler takes the outcome of another message for that of its     *)
(* own, however handlers, the producer and its two loops interleave        *)
(* (waitForSend, producerErrorLoop, producerSuccessLoop).                  *)
THEOREM Acknowledgement == Spec => []AckIsOwnOutcome
<1>1. TypeOK /\ MessagesInv => AckIsOwnOutcome
  BY DEF TypeOK, MessagesInv, MessageInv, AckIsOwnOutcome, Tracked, Unsorted
<1> QED BY <1>1, MessagesInvariance, PTL

(* However requests end, nothing stays in a map that no handler will take  *)
(* out, and the direct mode never has more than its limit in flight and    *)
(* none that was answered.                                                 *)
THEOREM NoLeak == Spec => []NothingLeaks
<1>1. TypeOK /\ MessagesInv => NothingLeaks
  BY DEF TypeOK, MessagesInv, MessageInv, DirectInv, InFlightInv, NothingLeaks, Tracked
<1> QED BY <1>1, MessagesInvariance, PTL

(* No wake-up is lost: a handler that sleeps in waitForSend waits for a    *)
(* message that the producer has yet to give an outcome of, or that one of *)
(* its loops has yet to sort, which then wakes it.                         *)
NoLostWakeup ==
  \A r \in Client : pc[r] = "asleep" => r \in sending \cup confirmed \cup errored

(* No handler sleeps through the outcome of its message, whatever order    *)
(* the producer confirms in and whoever else is woken by each broadcast.   *)
THEOREM SleepersAreWoken == Spec => []NoLostWakeup
<1>1. TypeOK /\ MessagesInv => NoLostWakeup
  BY DEF TypeOK, MessagesInv, MessageInv, NoLostWakeup, Tracked, Unsorted
<1> QED BY <1>1, MessagesInvariance, PTL

-----------------------------------------------------------------------------
(* The memory store and a client that pages through it.                    *)

Cap == IF maxDocs = 0 THEN 1 ELSE maxDocs

(* The store, receipt by receipt: the replies up to the p-th, the newest   *)
(* first, and as many of those after the b-th as it holds.                 *)
MemoryIs(b, p) ==
  /\ Len(receipts) = Fewer(Cap, p - b)
  /\ \A i \in 1 .. Len(receipts) : receipts[i] = replyLog[p + 1 - i]

MemoryInv == store = "memory" => IF up THEN MemoryIs(base, Processed) ELSE receipts = <<>>

(* What a client is to see has been processed before, ...                  *)
DueInv ==
  store = "memory" =>
    \/ mode = "kafka" /\ crashes > 0
    \/ \A r \in due : \E k \in 1 .. Processed : replyLog[k] = r

(* ... and what it has not seen yet is still before it.                    *)
ReaderInv ==
  store = "memory" /\ reading # "refused" =>
    \A i \in 1 .. Len(receipts) :
      receipts[i] \in due \ seen =>
        DeliveredAgain(receipts[i]) \/ (reading = "pages" /\ i > skip)

LEMMA ModeType ==
  ASSUME TypeOK
  PROVE  mode \in {"kafka", "direct"} /\ store \in {"memory", "mongo"}
<1>1. mode \in Mode /\ store \in Store
  BY DEF TypeOK
<1> QED BY <1>1

LEMMA ProcessedType ==
  ASSUME TypeOK, LogInv
  PROVE  /\ Processed \in Nat /\ base \in Nat /\ Len(replyLog) \in Nat
         /\ base <= Processed /\ Processed <= Len(replyLog)
<1>1. Len(replyLog) \in Nat /\ mode \in {"kafka", "direct"}
  BY DEF TypeOK
<1> QED BY <1>1 DEF TypeOK, LogInv, Processed

LEMMA MemoryExact ==
  ASSUME TypeOK, LogInv, MemoryIs(base, Processed)
  PROVE  receipts = Keep(Cap, Latest(base, Processed))
<1> DEFINE n == Processed - base
           latest == Latest(base, Processed)
<1>1. n \in Nat /\ Processed \in Nat /\ Processed <= Len(replyLog) /\ Cap \in Nat
  BY ProcessedType DEF Cap, TypeOK
<1>2. \A i \in 1 .. n : replyLog[Processed + 1 - i] \in Client
  BY <1>1, ProcessedType DEF TypeOK
<1>3. latest = [i \in 1 .. n |-> replyLog[Processed + 1 - i]]
  BY DEF Latest
<1> HIDE DEF n, latest
<1>4. latest \in [1 .. n -> Client]
  BY <1>2, <1>3
<1>5. latest \in Seq(Client) /\ Len(latest) = n
  BY <1>1, <1>4, LenProperties
<1>6. /\ Keep(Cap, latest) \in Seq(Client) /\ Len(Keep(Cap, latest)) = Fewer(Cap, n)
      /\ \A i \in 1 .. Fewer(Cap, n) : Keep(Cap, latest)[i] = latest[i]
  <2>1. Cap \in Nat
    BY <1>1
  <2>2. latest \in Seq(Client)
    BY <1>5
  <2>3. Keep(Cap, latest) \in Seq(Client)
    BY <2>1, <2>2, KeepProperties
  <2>4. Len(Keep(Cap, latest)) = Fewer(Cap, Len(latest))
    BY <2>1, <2>2, KeepProperties
  <2>5. \A i \in 1 .. Fewer(Cap, Len(latest)) : Keep(Cap, latest)[i] = latest[i]
    BY <2>1, <2>2, KeepProperties
  <2> QED BY <1>5, <2>3, <2>4, <2>5
<1>7. Fewer(Cap, n) \in Nat /\ Fewer(Cap, n) <= n
  BY <1>1 DEF Fewer
<1>8. \A i \in 1 .. Fewer(Cap, n) : i \in 1 .. n
  BY <1>1, <1>7
<1>9. \A i \in 1 .. Fewer(Cap, n) : Keep(Cap, latest)[i] = replyLog[Processed + 1 - i]
  BY <1>3, <1>6, <1>8
<1>10. /\ receipts \in Seq(Client) /\ Len(receipts) = Fewer(Cap, n)
       /\ \A i \in 1 .. Fewer(Cap, n) : receipts[i] = replyLog[Processed + 1 - i]
  BY DEF MemoryIs, TypeOK, n
<1>11. receipts = Keep(Cap, latest)
  BY <1>6, <1>9, <1>10, SeqEqual
<1> QED BY <1>11 DEF latest

(* What a step does to the memory store: it adds the receipt of the reply  *)
(* that is being processed, leaves the store alone, or loses or restarts   *)
(* it; the replies that are on the topic stay there, in their order.       *)
Adds(r) ==
  /\ AddToMemory(r) /\ UNCHANGED <<up, base, crashes>> /\ up
  /\ Processed' = Processed + 1
  /\ replyLog'[Processed + 1] = r /\ Processed + 1 <= Len(replyLog')
  /\ mode = "direct" => ~Answered(r)

Idles == UNCHANGED <<receipts, up, base, crashes, Processed>>

LogGrows ==
  /\ Len(replyLog') \in Nat /\ Len(replyLog) <= Len(replyLog')
  /\ \A i \in 1 .. Len(replyLog) : replyLog'[i] = replyLog[i]

LEMMA LogGrowsStep == TypeOK /\ StoreNext => LogGrows
<1> SUFFICES ASSUME TypeOK, StoreNext PROVE LogGrows
  OBVIOUS
<1> USE DEF configVars, handlerVars, sendVars, logVars, consumerVars, bounds
<1>1. ASSUME NEW r \in Client, BridgeReply(r) \/ DirectReply(r) PROVE LogGrows
  <2>1. replyLog' = Append(replyLog, r) /\ replyLog \in Seq(Client)
    BY <1>1 DEF BridgeReply, DirectReply, TypeOK
  <2>2. Len(replyLog') = Len(replyLog) + 1 /\ Len(replyLog) \in Nat
    BY <2>1, AppendProperties
  <2>3. \A i \in 1 .. Len(replyLog) : replyLog'[i] = replyLog[i]
    BY <2>1, AppendProperties
  <2> QED BY <2>2, <2>3 DEF LogGrows
<1>2. ASSUME UNCHANGED replyLog PROVE LogGrows
  BY <1>2 DEF LogGrows, TypeOK
<1>3. ASSUME NEW r \in Client, HandlerStep(r) \/ ProducerStep(r) PROVE LogGrows
  BY <1>2, <1>3 DEF HandlerStep, ProducerStep, ProcessMsg, SetMsgPending, SendInput,
     WaitForSend, SendDirect, OnMessageReturns, Produce, ProducerSuccessLoop,
     ProducerErrorLoop
<1>4. CASE ConsumerStep \/ Commit \/ Crash \/ Restart
  BY <1>2, <1>4 DEF ConsumerStep, ConsumeReply, ProcessReply, MarkOffset, Commit, Crash,
     Restart
<1> QED BY <1>1, <1>3, <1>4 DEF StoreNext

LEMMA MemoryStep ==
  ASSUME TypeOK, LogInv, MessagesInv, StoreNext, store = "memory"
  PROVE  /\ UNCHANGED <<mode, store, maxDocs>>
         /\ Idles \/ Crash \/ Restart \/ \E r \in Client : Adds(r)
<1> USE DEF configVars, handlerVars, sendVars, logVars, consumerVars, bounds
<1>0. Len(replyLog) \in Nat /\ marked \in Nat /\ mode \in {"kafka", "direct"}
  <2>1. mode \in Mode /\ replyLog \in Seq(Client) /\ marked \in Nat
    BY DEF TypeOK
  <2> QED BY <2>1
<1>1. ASSUME NEW r \in Client, HandlerStep(r) \/ ProducerStep(r)
      PROVE UNCHANGED <<mode, store, maxDocs>> /\ Idles
  BY <1>1 DEF HandlerStep, ProducerStep, ProcessMsg, SetMsgPending, SendInput,
     WaitForSend, SendDirect, OnMessageReturns, Produce, ProducerSuccessLoop,
     ProducerErrorLoop, Idles, Processed
<1>2. ASSUME NEW r \in Client, BridgeReply(r)
      PROVE UNCHANGED <<mode, store, maxDocs>> /\ Idles
  BY <1>2 DEF BridgeReply, Idles, Processed
<1>3. ASSUME NEW r \in Client, DirectReply(r)
      PROVE UNCHANGED <<mode, store, maxDocs>> /\ Adds(r)
  <2>1. mode = "direct" /\ ~Answered(r)
    BY <1>0, <1>3 DEF DirectReply, MessagesInv, MessageInv, DirectInv
  <2>2. AddToMemory(r) /\ UNCHANGED <<mode, store, maxDocs, up, base, crashes>> /\ up
    BY <1>3 DEF DirectReply, AddReceipt
  <2>3. Len(replyLog') = Len(replyLog) + 1 /\ replyLog'[Len(replyLog) + 1] = r
    BY <1>3, AppendProperties DEF DirectReply, TypeOK
  <2>4. Processed = Len(replyLog) /\ Processed' = Len(replyLog')
    BY <2>1, <2>2 DEF Processed
  <2>5. Processed' = Processed + 1
    BY <2>3, <2>4
  <2> QED BY <1>0, <2>1, <2>2, <2>3, <2>4, <2>5 DEF Adds
<1>4. CASE ConsumeReply \/ MarkOffset
  BY <1>0, <1>4 DEF ConsumeReply, MarkOffset, Idles, Processed, LogInv
<1>5. CASE ProcessReply
  <2> DEFINE r == replyLog[marked + 1]
  <2>1. mode = "kafka" /\ stage = "store" /\ marked + 1 \in 1 .. Len(replyLog)
    BY <1>0, <1>5 DEF ProcessReply, LogInv
  <2>2. r \in Client
    BY <2>1 DEF TypeOK
  <2>3. /\ AddToMemory(r) /\ UNCHANGED <<mode, store, maxDocs, up, base, crashes, replyLog, marked>>
        /\ up /\ stage' = "mark"
    BY <1>5 DEF ProcessReply, AddReceipt
  <2>4. Processed = marked /\ Processed' = marked + 1
    BY <2>1, <2>3 DEF Processed
  <2>5. Adds(r)
    BY <1>0, <2>1, <2>3, <2>4 DEF Adds
  <2> QED BY <2>2, <2>3, <2>5
<1>6. CASE Commit \/ Crash \/ Restart
  BY <1>6 DEF Commit, Crash, Restart, Idles, Processed
<1> QED BY <1>1, <1>2, <1>3, <1>4, <1>5, <1>6 DEF StoreNext, ConsumerStep

LEMMA ConfigStep ==
  ASSUME TypeOK, StoreNext
  PROVE  UNCHANGED <<mode, store, maxDocs>> /\ (crashes' = crashes \/ crashes' = crashes + 1)
BY DEF StoreNext, HandlerStep, ProducerStep, ProcessMsg, SetMsgPending, SendInput,
   WaitForSend, SendDirect, OnMessageReturns, Produce, ProducerSuccessLoop,
   ProducerErrorLoop, BridgeReply, DirectReply, ConsumerStep, ConsumeReply, ProcessReply,
   MarkOffset, Commit, Crash, Restart, configVars, bounds

LEMMA MemoryIsNext ==
  ASSUME NEW b \in Nat, NEW p \in Nat, base' = b, Processed' = p, maxDocs' = maxDocs,
         Len(receipts') = Fewer(Cap, p - b),
         \A i \in 1 .. Len(receipts') : receipts'[i] = replyLog'[p + 1 - i]
  PROVE  MemoryIs(base, Processed)'
BY DEF MemoryIs, Cap

LEMMA MemoryInvStep ==
  ASSUME TypeOK, LogInv, MessagesInv, MemoryInv, StoreNext
  PROVE  MemoryInv'
<1> SUFFICES ASSUME store' = "memory" PROVE MemoryInv'
  BY DEF MemoryInv
<1>0. store = "memory" /\ maxDocs' = maxDocs /\ Cap' = Cap
  BY ConfigStep DEF Cap
<1>1. /\ Processed \in Nat /\ base \in Nat /\ Len(replyLog) \in Nat /\ maxDocs \in Nat
      /\ Cap \in Nat \ {0}
      /\ base <= Processed /\ Processed <= Len(replyLog) /\ receipts \in Seq(Client)
  BY ProcessedType DEF Cap, TypeOK
<1>2. LogGrows
  BY LogGrowsStep
<1>3. CASE Idles
  <2>1. CASE up
    <3>1. MemoryIs(base, Processed)
      BY <1>0, <2>1 DEF MemoryInv
    <3>2. \A i \in 1 .. Len(receipts) : Processed + 1 - i \in 1 .. Len(replyLog)
      BY <1>1, <3>1 DEF MemoryIs, Fewer
    <3>3. MemoryIs(base, Processed)'
      BY <1>0, <1>2, <1>3, <3>1, <3>2 DEF MemoryIs, Idles, LogGrows
    <3> QED BY <1>3, <2>1, <3>3 DEF MemoryInv, Idles
  <2>2. CASE ~up
    BY <1>0, <1>3, <2>2 DEF MemoryInv, Idles
  <2> QED BY <2>1, <2>2
<1>4. CASE Crash
  BY <1>0, <1>4 DEF Crash, MemoryInv
<1>5. CASE Restart
  <2>1. receipts' = <<>> /\ up'
    BY <1>0, <1>5 DEF Restart, MemoryInv
  <2>2. base' = Processed'
    BY <1>5 DEF Restart, Processed, configVars, logVars, TypeOK, LogInv
  <2>3. base' \in Nat
    BY <1>5 DEF Restart, TypeOK
  <2>4. PICK b \in Nat : base' = b /\ Processed' = b
    BY <2>2, <2>3
  <2>5. Fewer(Cap, b - b) = 0
    BY <1>1 DEF Fewer
  <2>6. MemoryIs(base, Processed)'
    BY <1>0, <2>1, <2>4, <2>5, MemoryIsNext
  <2> QED BY <2>1, <2>6 DEF MemoryInv
<1>6. ASSUME NEW r \in Client, Adds(r) PROVE MemoryInv'
  <2>1. /\ up' /\ base' = base /\ Processed' = Processed + 1
        /\ replyLog'[Processed + 1] = r
    BY <1>6 DEF Adds
  <2>2. /\ Len(receipts) = Fewer(Cap, Processed - base) /\ Len(receipts) \in Nat
        /\ \A i \in 1 .. Len(receipts) : receipts[i] = replyLog[Processed + 1 - i]
    BY <1>0, <1>1, <1>6 DEF MemoryInv, MemoryIs, Adds
  <2>3. /\ Len(receipts') = IF Len(receipts) >= maxDocs /\ Len(receipts) > 0
                              THEN Len(receipts) ELSE Len(receipts) + 1
        /\ receipts'[1] = r
        /\ \A i \in 2 .. Len(receipts') : receipts'[i] = receipts[i - 1]
    BY <1>1, <1>6, AddToMemoryProperties DEF Adds
  <2>4. Len(receipts') = Fewer(Cap, Processed + 1 - base)
    <3>1. Len(receipts) >= maxDocs /\ Len(receipts) > 0 <=> Len(receipts) >= Cap
      BY <1>1, <2>2 DEF Cap
    <3>2. Len(receipts') = IF Len(receipts) >= Cap THEN Len(receipts) ELSE Len(receipts) + 1
      BY <2>3, <3>1
    <3> QED BY <1>1, <2>2, <3>2 DEF Fewer
  <2>5. ASSUME NEW i \in 1 .. Len(receipts')
        PROVE  receipts'[i] = replyLog'[Processed + 2 - i]
    <3>1. CASE i = 1
      BY <1>1, <2>1, <2>3, <3>1
    <3>2. CASE i # 1
      <4>1. i - 1 \in 1 .. Len(receipts) /\ i \in 2 .. Len(receipts')
        BY <2>2, <2>3, <3>2
      <4>2. receipts'[i] = replyLog[Processed + 1 - (i - 1)]
        BY <2>2, <2>3, <4>1
      <4>3. Processed + 1 - (i - 1) \in 1 .. Len(replyLog)
        BY <1>1, <2>2, <4>1 DEF Fewer
      <4>4. Processed + 1 - (i - 1) = Processed + 2 - i
        BY <1>1
      <4> QED BY <1>2, <4>2, <4>3, <4>4 DEF LogGrows
    <3> QED BY <3>1, <3>2
  <2>6. PICK p \in Nat : p = Processed + 1
    BY <1>1
  <2>7. \A i \in 1 .. Len(receipts') : receipts'[i] = replyLog'[p + 1 - i]
    BY <1>1, <2>5, <2>6
  <2>8. MemoryIs(base, Processed)'
    BY <1>0, <1>1, <2>1, <2>4, <2>6, <2>7, MemoryIsNext
  <2> QED BY <2>1, <2>8 DEF MemoryInv
<1> QED BY <1>0, <1>3, <1>4, <1>5, <1>6, MemoryStep

LEMMA AgainStays ==
  ASSUME TypeOK, StoreNext, NEW q \in Client, DeliveredAgain(q)
  PROVE  DeliveredAgain(q)'
<1>1. mode' = mode /\ (crashes' = crashes \/ crashes' = crashes + 1) /\ crashes \in Nat
  BY ConfigStep DEF TypeOK
<1>2. CASE crashes > 0
  BY <1>1, <1>2 DEF DeliveredAgain
<1>3. ASSUME NEW i \in 1 .. Len(replyLog), NEW j \in 1 .. Len(replyLog),
             i # j, replyLog[i] = q, replyLog[j] = q
      PROVE  DeliveredAgain(q)'
  <2>1. LogGrows /\ Len(replyLog) \in Nat /\ Len(replyLog') \in Nat
    BY LogGrowsStep DEF TypeOK, LogGrows
  <2>2. i \in 1 .. Len(replyLog') /\ j \in 1 .. Len(replyLog')
    BY <2>1 DEF LogGrows
  <2>3. replyLog'[i] = q /\ replyLog'[j] = q
    BY <1>3, <2>1 DEF LogGrows
  <2> QED BY <1>1, <1>3, <2>2, <2>3 DEF DeliveredAgain
<1> QED BY <1>2, <1>3 DEF DeliveredAgain

(* A reply that has been processed stays so.                               *)
LEMMA DueStep ==
  ASSUME TypeOK, LogInv, MessagesInv, DueInv, StoreNext, UNCHANGED readerVars
  PROVE  DueInv'
<1> SUFFICES ASSUME store' = "memory", ~(mode' = "kafka" /\ crashes' > 0)
             PROVE  \A r \in due' : \E k \in 1 .. Processed' : replyLog'[k] = r
  BY DEF DueInv
<1>1. UNCHANGED <<mode, store, maxDocs>> /\ (crashes' = crashes \/ crashes' = crashes + 1)
      /\ crashes \in Nat
  BY ConfigStep DEF TypeOK
<1>2. \A r \in due : \E k \in 1 .. Processed : replyLog[k] = r
  BY <1>1 DEF DueInv
<1>3. due' = due
  BY DEF readerVars
<1>4. Processed \in Nat /\ Processed <= Len(replyLog) /\ Len(replyLog) \in Nat /\ LogGrows
  BY ProcessedType, LogGrowsStep
<1>5. \A k \in 1 .. Processed : replyLog'[k] = replyLog[k]
  BY <1>4 DEF LogGrows
<1>6. 1 .. Processed \subseteq 1 .. Processed'
  <2>1. ASSUME NEW p \in Nat, Processed' = p, Processed <= p
        PROVE  1 .. Processed \subseteq 1 .. Processed'
    BY <1>4, <2>1
  <2>2. CASE Idles
    BY <2>2 DEF Idles
  <2>3. CASE \E r \in Client : Adds(r)
    <3>1. PICK p \in Nat : p = Processed + 1
      BY <1>4
    <3> QED BY <1>4, <2>1, <2>3, <3>1 DEF Adds
  <2>4. CASE Crash
    <3>1. mode = "direct"
      BY <1>1, <2>4, ModeType DEF Crash
    <3> QED BY <2>4, <3>1, <1>1 DEF Crash, Processed, logVars
  <2>5. CASE Restart
    <3>1. mode = "direct"
      BY <1>1, <2>5, ModeType DEF Restart, LogInv, bounds
    <3> QED BY <2>5, <3>1, <1>1 DEF Restart, Processed, logVars
  <2> QED BY <1>1, <2>2, <2>3, <2>4, <2>5, MemoryStep
<1> QED BY <1>2, <1>3, <1>5, <1>6

(* New receipts only move the others back, and only the receipt of a reply *)
(* that is delivered again was there before.                               *)
LEMMA ReaderStoreStep ==
  ASSUME TypeOK, LogInv, MessagesInv, DueInv, ReaderInv, StoreNext, UNCHANGED readerVars
  PROVE  ReaderInv'
<1> SUFFICES ASSUME store' = "memory", reading' # "refused",
                    NEW i \in 1 .. Len(receipts'), NEW q \in Client,
                    receipts'[i] = q, q \in due' \ seen'
             PROVE  DeliveredAgain(q)' \/ (reading' = "pages" /\ i > skip')
  <2>1. due' \subseteq Client
    BY DEF readerVars, TypeOK
  <2> QED BY <2>1 DEF ReaderInv, DeliveredAgain
<1>1. UNCHANGED <<mode, store, maxDocs>> /\ (crashes' = crashes \/ crashes' = crashes + 1)
      /\ crashes \in Nat
  BY ConfigStep DEF TypeOK
<1>2. UNCHANGED <<reading, skip, seen, due>> /\ skip \in Nat /\ due \subseteq Client
  BY DEF readerVars, TypeOK
<1>3. ASSUME NEW j \in 1 .. Len(receipts), j <= i, receipts'[i] = receipts[j]
      PROVE  DeliveredAgain(q)' \/ (reading' = "pages" /\ i > skip')
  <2>1. DeliveredAgain(q) \/ (reading = "pages" /\ j > skip)
    BY <1>1, <1>2, <1>3 DEF ReaderInv
  <2>2. CASE DeliveredAgain(q)
    BY <2>2, AgainStays
  <2>3. CASE reading = "pages" /\ j > skip
    BY <1>2, <1>3, <2>3 DEF TypeOK
  <2> QED BY <2>1, <2>2, <2>3
<1>4. CASE Idles \/ Restart
  <2>1. receipts' = receipts
    BY <1>4 DEF Idles, Restart
  <2> QED BY <1>3, <2>1 DEF TypeOK
<1>5. CASE Crash
  <2>1. receipts' = <<>>
    BY <1>1, <1>5 DEF Crash
  <2> QED BY <2>1
<1>6. ASSUME NEW r \in Client, Adds(r)
      PROVE  DeliveredAgain(q)' \/ (reading' = "pages" /\ i > skip')
  <2>1. /\ Len(receipts) \in Nat
        /\ Len(receipts') \in {Len(receipts), Len(receipts) + 1}
        /\ receipts'[1] = r
        /\ \A k \in 2 .. Len(receipts') : receipts'[k] = receipts[k - 1]
    BY <1>6, AddToMemoryProperties DEF Adds, TypeOK
  <2>2. CASE i # 1
    <3>1. i - 1 \in 1 .. Len(receipts) /\ i \in 2 .. Len(receipts') /\ i - 1 <= i
      BY <2>1, <2>2
    <3> QED BY <1>3, <2>1, <3>1
  <2>3. CASE i = 1
    <3>1. r = q /\ r \in due
      BY <1>2, <2>1, <2>3
    <3>2. CASE mode = "kafka" /\ crashes > 0
      BY <1>1, <3>2 DEF DeliveredAgain
    <3>3. CASE ~(mode = "kafka" /\ crashes > 0)
      <4>1. PICK k \in 1 .. Processed : replyLog[k] = r
        BY <1>1, <3>1, <3>3 DEF DueInv
      <4>2. Processed \in Nat /\ Processed <= Len(replyLog) /\ Len(replyLog) \in Nat
        BY ProcessedType
      <4>3. k \in 1 .. Len(replyLog) /\ Processed + 1 \in Nat /\ k # Processed + 1
        BY <4>2
      <4>4. mode = "kafka"
        BY <1>6, <4>1, <4>3, ModeType DEF Adds, Answered
      <4>5. LogGrows /\ Len(replyLog') \in Nat
        BY LogGrowsStep DEF LogGrows
      <4>6. replyLog'[k] = r /\ k \in 1 .. Len(replyLog')
        BY <4>1, <4>2, <4>3, <4>5 DEF LogGrows
      <4>7. replyLog'[Processed + 1] = r /\ Processed + 1 \in 1 .. Len(replyLog')
        BY <1>6, <4>2, <4>5 DEF Adds
      <4> QED BY <1>1, <3>1, <4>3, <4>4, <4>6, <4>7 DEF DeliveredAgain
    <3> QED BY <3>2, <3>3
  <2> QED BY <2>2, <2>3
<1> QED BY <1>1, <1>4, <1>5, <1>6, MemoryStep

(* A query of the memory store returns the receipts after those it passes  *)
(* over.                                                                   *)
LEMMA MemoryPage ==
  ASSUME TypeOK, store = "memory", NEW page \in GetReceipts(skip)
  PROVE  /\ page \in Seq(Client) /\ Len(page) \in Nat
         /\ Len(page) < Limit => Len(receipts) <= skip + Len(page)
         /\ \A i \in 1 .. Len(receipts) :
              skip < i /\ i <= skip + Len(page) => \E j \in DOMAIN page : page[j] = receipts[i]
<1> DEFINE last == Fewer(skip + Limit, Len(receipts))
<1>1. /\ Len(receipts) \in Nat /\ skip \in Nat /\ Limit \in Nat /\ last \in Nat
      /\ last <= Len(receipts) /\ last <= skip + Limit
      /\ last = Len(receipts) \/ last = skip + Limit
  BY DEF Fewer, TypeOK
<1> DEFINE first == skip + 1
<1>2. page = SubSeq(receipts, first, last)
  BY DEF GetReceipts
<1>3. /\ first \in Int /\ last \in Int
      /\ \A i \in first .. last : receipts[i] \in Client
  BY <1>1 DEF TypeOK
<1>4. first = skip + 1
  OBVIOUS
<1> HIDE DEF first, last
<1>5. /\ SubSeq(receipts, first, last) \in Seq(Client)
      /\ Len(SubSeq(receipts, first, last)) = IF first <= last THEN last - first + 1 ELSE 0
      /\ \A j \in 1 .. last - first + 1 :
           SubSeq(receipts, first, last)[j] = receipts[first + j - 1]
  BY <1>3, SubSeqProperties
<1>6. /\ page \in Seq(Client)
      /\ Len(page) = IF first <= last THEN last - first + 1 ELSE 0
      /\ \A j \in 1 .. last - first + 1 : page[j] = receipts[first + j - 1]
  BY <1>2, <1>5
<1>7. Len(page) \in Nat /\ (Len(page) < Limit => Len(receipts) <= skip + Len(page))
  BY <1>1, <1>4, <1>6
<1>8. ASSUME NEW i \in 1 .. Len(receipts), skip < i, i <= skip + Len(page)
      PROVE  \E j \in DOMAIN page : page[j] = receipts[i]
  <2>1. /\ i - skip \in 1 .. last - first + 1 /\ i - skip \in 1 .. Len(page)
        /\ first + (i - skip) - 1 = i
    BY <1>1, <1>4, <1>6, <1>8
  <2>2. page[i - skip] = receipts[i] /\ i - skip \in DOMAIN page
    BY <1>6, <2>1
  <2> QED BY <2>2
<1> QED BY <1>6, <1>7, <1>8

LEMMA ReaderQueryStep ==
  ASSUME TypeOK, LogInv, MemoryInv, DueInv, ReaderInv, GetReplies, UNCHANGED storeVars
  PROVE  DueInv' /\ ReaderInv'
<1> SUFFICES ASSUME store = "memory" PROVE DueInv' /\ ReaderInv'
  BY DEF storeVars, configVars, DueInv, ReaderInv
<1>1. UNCHANGED <<mode, store, maxDocs, receipts, replyLog, crashes, Processed>>
      /\ up /\ reading = "pages"
  BY DEF GetReplies, storeVars, configVars, logVars, consumerVars, bounds, Processed
<1>2. \A q \in Client : DeliveredAgain(q)' <=> DeliveredAgain(q)
  BY <1>1 DEF DeliveredAgain
<1>3. ASSUME reading' = "refused", UNCHANGED <<skip, seen, due>>
      PROVE  DueInv' /\ ReaderInv'
  BY <1>1, <1>3 DEF DueInv, ReaderInv
<1>4. ASSUME NEW page \in GetReceipts(skip),
             due' = IF skip = 0 THEN {r \in Client : Stored(r)} ELSE due,
             seen' = seen \cup {page[i] : i \in DOMAIN page},
             skip' = skip + Len(page),
             reading' = IF Len(page) < Limit THEN "end" ELSE "pages"
      PROVE  DueInv' /\ ReaderInv'
  <2>1. DueInv'
    <3>1. CASE skip = 0
      <4> SUFFICES ASSUME NEW r \in Client, Stored(r)
                   PROVE  \E k \in 1 .. Processed : replyLog[k] = r
        BY <1>1, <1>4, <3>1 DEF DueInv
      <4>1. PICK i \in 1 .. Len(receipts) : receipts[i] = r
        BY DEF Stored
      <4>2. MemoryIs(base, Processed)
        BY <1>1 DEF MemoryInv
      <4>3. /\ Processed \in Nat /\ base \in Nat /\ base <= Processed
            /\ Len(receipts) \in Nat /\ Cap \in Nat
        BY ProcessedType DEF TypeOK, Cap
      <4>4. Processed + 1 - i \in 1 .. Processed
        BY <4>2, <4>3 DEF MemoryIs, Fewer
      <4> QED BY <4>1, <4>2, <4>4 DEF MemoryIs
    <3>2. CASE skip # 0
      BY <1>1, <1>4, <3>2 DEF DueInv
    <3> QED BY <3>1, <3>2
  <2>2. ReaderInv'
    <3> SUFFICES ASSUME NEW i \in 1 .. Len(receipts), NEW q \in Client, receipts[i] = q,
                        q \in due' \ seen', ~DeliveredAgain(q)
                 PROVE  reading' = "pages" /\ i > skip'
      <4>1. \A i \in 1 .. Len(receipts) : receipts[i] \in Client
        BY DEF TypeOK
      <4> QED BY <1>1, <1>2, <4>1 DEF ReaderInv
    <3>1. /\ Len(page) \in Nat /\ (Len(page) < Limit => Len(receipts) <= skip + Len(page))
          /\ skip < i /\ i <= skip + Len(page) => \E j \in DOMAIN page : page[j] = receipts[i]
      BY MemoryPage
    <3>2. skip \in Nat /\ Len(receipts) \in Nat
      BY DEF TypeOK
    <3>3. skip < i
      <4>1. CASE skip = 0
        BY <4>1
      <4>2. CASE skip # 0
        BY <1>1, <1>4, <4>2 DEF ReaderInv
      <4> QED BY <4>1, <4>2
    <3>4. ~(i <= skip + Len(page))
      BY <1>4, <3>1, <3>3
    <3> QED BY <1>4, <3>1, <3>2, <3>4
  <2> QED BY <2>1, <2>2
<1> QED BY <1>3, <1>4 DEF GetReplies

(* Everything above, together.                                             *)
Inv == TypeOK /\ LogInv /\ MessagesInv /\ MemoryInv /\ DueInv /\ ReaderInv

LEMMA Invariance == Spec => []Inv
<1>1. Init => Inv
  <2> SUFFICES ASSUME Init PROVE MemoryInv /\ DueInv /\ ReaderInv
    BY InitType, MessagesInit DEF Inv
  <2>1. Len(receipts) = 0 /\ receipts = <<>> /\ due = {} /\ up
    BY EmptySeq DEF Init
  <2>2. \A c \in Nat : Fewer(c, 0) = 0
    BY DEF Fewer
  <2>3. Processed = 0 /\ base = 0
    BY EmptySeq DEF Init, Processed
  <2>4. MemoryIs(base, Processed)
    BY <2>1, <2>2, <2>3, InitType DEF MemoryIs, Cap, TypeOK
  <2> QED BY <2>1, <2>4 DEF MemoryInv, DueInv, ReaderInv
<1>2. Inv /\ [Next]_vars => Inv'
  <2> SUFFICES ASSUME Inv, [Next]_vars PROVE Inv'
    OBVIOUS
  <2> USE DEF Inv
  <2>1. TypeOK' /\ LogInv' /\ MessagesInv'
    BY TypeStep, MessagesStep
  <2>2. CASE StoreNext /\ UNCHANGED readerVars
    BY <2>1, <2>2, MemoryInvStep, DueStep, ReaderStoreStep
  <2>3. ASSUME UNCHANGED storeVars PROVE MemoryInv'
    BY <2>3 DEF storeVars, configVars, logVars, consumerVars, MemoryInv, MemoryIs, Cap,
      Processed
  <2>4. CASE GetReplies /\ UNCHANGED storeVars
    BY <2>1, <2>3, <2>4, ReaderQueryStep
  <2>5. CASE UNCHANGED vars
    <3>1. UNCHANGED storeVars /\ UNCHANGED readerVars
      BY <2>5 DEF vars
    <3>2. DueInv'
      BY <3>1 DEF storeVars, configVars, logVars, consumerVars, bounds, readerVars, DueInv,
                  Processed
    <3>3. ReaderInv'
      BY <3>1 DEF storeVars, configVars, logVars, bounds, readerVars, ReaderInv,
                  DeliveredAgain
    <3> QED BY <2>1, <2>3, <3>1, <3>2, <3>3
  <2> QED BY <2>2, <2>4, <2>5 DEF Next
<1> QED BY <1>1, <1>2, PTL DEF Spec

(* The memory store is the latest replies this process has processed, the  *)
(* newest first, whatever the limit: the receipt of a reply is not lost to *)
(* another one before its turn, and after a restart the store begins again *)
(* with what is delivered again (memoryReceipts.AddReceipt).               *)
THEOREM MemoryStore == Spec => []MemoryKeepsLatest
<1>1. Inv => MemoryKeepsLatest
  BY MemoryExact DEF Inv, MemoryInv, MemoryKeepsLatest, Cap
<1> QED BY <1>1, Invariance, PTL

(* Reading page by page while replies arrive misses no receipt that was    *)
(* there at the first page and still is, unless it was delivered again,    *)
(* whatever the limits of the query and of the store (GetReceipts).        *)
THEOREM Pages == Spec => []PagesMissNothing
<1>1. Inv => PagesMissNothing
  BY DEF Inv, ReaderInv, PagesMissNothing, Stored
<1> QED BY <1>1, Invariance, PTL

=============================================================================
