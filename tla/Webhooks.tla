------------------------------ MODULE Webhooks ------------------------------
(***************************************************************************)
(* The webhooks of the REST gateway and its receipt store                  *)
(* (maidenlanerest): a request is sent to the bridge over Kafka or handed  *)
(* to a transaction processor in the same process, and its reply becomes a *)
(* receipt that clients can query.                                         *)
(*                                                                         *)
(* Over Kafka, a handler that is to acknowledge its message waits for the  *)
(* producer's confirmation, which two other goroutines sort into maps;     *)
(* each region under sendCond.L is an action here.  Replies are consumed   *)
(* by a fourth goroutine, in order, and again after a restart from the     *)
(* offset that was committed last.                                         *)
(*                                                                         *)
(* Kafka, the bridge (KafkaBridge answers a request at least once), the    *)
(* processor and MongoDB are external.                                     *)
(***************************************************************************)
EXTENDS Naturals, FiniteSets, Sequences

CONSTANTS
  Client,        \* requests, known by the identifier processMsg gives them
  NoAck,         \* those that may be sent to /fasthook
  Mode,          \* the modes to consider, of "kafka" and "direct"
  Store,         \* the stores to consider, of "memory" and "mongo"
  MaxInFlight,   \* WebhooksDirectConf.MaxInFlight
  MaxDocs,       \* MaxDocs[m]: the limits of a store to consider in the mode m
  Limit,         \* the limit of a query, at most QueryLimit
  Asking,        \* bound: Asking[m] are the requests of the mode m, the first one first
  Paging,        \* bound: the modes and stores in which a client reads the receipts
  MaxReplies,    \* bound: replies on the topic before duplicates cease
  MaxCrashes, MaxFailures   \* bounds: crashes, failed inserts

ASSUME WebhooksAssumption ==
  /\ IsFiniteSet(Client) /\ NoAck \subseteq Client
  /\ Mode \subseteq {"kafka", "direct"} /\ Store \subseteq {"memory", "mongo"}
  /\ Asking \in [Mode -> Seq(Client)] /\ Paging \subseteq Mode \X Store
  /\ MaxInFlight \in Nat \ {0}   \* validateWebhooksDirectConf replaces 0 by 10
  /\ MaxDocs \in [Mode -> SUBSET Nat] /\ Limit \in Nat \ {0}
  /\ {MaxReplies, MaxCrashes, MaxFailures} \subseteq Nat

VARIABLES
  mode, store,   \* the configuration
  maxDocs,       \* ReceiptStoreConf.MaxDocs
  noAck,         \* the requests that are sent to /fasthook: nobody waits for them,
                 \* which makes a difference to webhooksKafka only
  up,            \* the process is running
  pc,            \* pc[r]: where the handler of r is
  status,        \* status[r]: the HTTP status of its response, 0 for none yet
  \* webhooksKafka
  pendingMsgs, successMsgs, failedMsgs,
  sending,       \* messages given to producer.Input()
  confirmed,     \* messages on producer.Successes()
  errored,       \* messages on producer.Errors()
  \* Kafka
  topic,         \* requests on the bridge's topic
  replyLog,      \* replies, by the request they answer, in their order
  committed,     \* replies that will not be delivered again
  \* ConsumerMessagesLoop
  marked,        \* replies whose offset is marked
  stage,         \* of the reply after those: "next", "store" or "mark"
  base,          \* replies that were delivered before this start
  \* webhooksDirect
  inFlight,
  \* receiptStore
  receipts,      \* the newest first
  crashes, failures,
  \* a client that reads all receipts, page by page
  reading,       \* "pages", "end" or "refused"
  skip,          \* the receipts it has read so far
  seen,          \* the requests it has read the receipts of
  due            \* those that were stored when it read the first page

configVars == <<mode, store, maxDocs, noAck>>
handlerVars == <<pc, status>>
sendVars == <<pendingMsgs, successMsgs, failedMsgs, sending, confirmed, errored>>
logVars == <<topic, replyLog, committed>>
consumerVars == <<marked, stage, base>>
bounds == <<crashes, failures>>
storeVars == <<configVars, up, handlerVars, sendVars, logVars, consumerVars, inFlight,
               receipts, bounds>>
readerVars == <<reading, skip, seen, due>>
vars == <<storeVars, readerVars>>

Init ==
  /\ mode \in Mode /\ store \in Store /\ maxDocs \in MaxDocs[mode]
  /\ noAck \in SUBSET {r \in NoAck : mode = "kafka"}
  /\ up = TRUE
  /\ pc = [r \in Client |-> "new"] /\ status = [r \in Client |-> 0]
  /\ pendingMsgs = {} /\ successMsgs = {} /\ failedMsgs = {}
  /\ sending = {} /\ confirmed = {} /\ errored = {}
  /\ topic = {} /\ replyLog = <<>> /\ committed = 0
  /\ marked = 0 /\ stage = "next" /\ base = 0
  /\ inFlight = {}
  /\ receipts = <<>>
  /\ crashes = 0 /\ failures = 0
  /\ reading = "pages" /\ skip = 0 /\ seen = {} /\ due = {}

At(r, s) == up /\ pc[r] = s

(* hookErrReply, msgSentReply                                              *)
Respond(r, code) ==
  /\ pc' = [pc EXCEPT ![r] = "returned"]
  /\ status' = [status EXCEPT ![r] = code]

Goto(r, s) == pc' = [pc EXCEPT ![r] = s] /\ UNCHANGED status

-----------------------------------------------------------------------------
(* Which requests there are is a bound.  Their order is none: a request is *)
(* told from others by the identifier it gets when it comes.               *)
Turn(r) ==
  \E i \in DOMAIN Asking[mode] :
    /\ Asking[mode][i] = r
    /\ \A j \in 1 .. i - 1 : pc[Asking[mode][j]] # "new"

(* processMsg: a message that is not understood is refused, as is a        *)
(* deployment that PreDeploy cannot compile; others get an identifier.     *)
ProcessMsg(r) ==
  /\ At(r, "new") /\ Turn(r)
  /\ Goto(r, "send") \/ Respond(r, 400) \/ Respond(r, 500)
  /\ UNCHANGED <<configVars, up, sendVars, logVars, consumerVars, inFlight, receipts,
                 bounds>>

(* Mutants: the message is pending only once it is sent; also one that     *)
(* nobody waits for is pending.                                            *)
SetMsgPending_Late(r) ==
  /\ At(r, "send") /\ mode = "kafka"
  /\ Goto(r, "input")
  /\ UNCHANGED <<configVars, up, sendVars, logVars, consumerVars, inFlight, receipts,
                 bounds>>
SetMsgPending_Always(r) ==
  /\ At(r, "send") /\ mode = "kafka"
  /\ Goto(r, "input")
  /\ pendingMsgs' = pendingMsgs \cup {r}
  /\ UNCHANGED <<configVars, up, successMsgs, failedMsgs, sending, confirmed, errored,
                 logVars, consumerVars, inFlight, receipts, bounds>>

SetMsgPending(r) ==
  /\ At(r, "send") /\ mode = "kafka"
  /\ Goto(r, "input")
  /\ pendingMsgs' = IF r \in noAck THEN pendingMsgs ELSE pendingMsgs \cup {r}
  /\ UNCHANGED <<configVars, up, successMsgs, failedMsgs, sending, confirmed, errored,
                 logVars, consumerVars, inFlight, receipts, bounds>>

(* producer.Input() <- sentMsg                                             *)
SendInput(r) ==
  /\ At(r, "input")
  /\ sending' = sending \cup {r}
  /\ IF r \in noAck THEN Respond(r, 200) ELSE Goto(r, "check")
  /\ UNCHANGED <<configVars, up, pendingMsgs, successMsgs, failedMsgs, confirmed,
                 errored, logVars, consumerVars, inFlight, receipts, bounds>>

(* Mutant: an error comes without its status code.                         *)
WaitForSend_NoStatus(r) ==
  /\ At(r, "check")
  /\ CASE r \in failedMsgs -> Respond(r, 0)
       [] r \in successMsgs \ failedMsgs -> Respond(r, 200)
       [] OTHER -> Goto(r, "asleep")
  /\ failedMsgs' = failedMsgs \ {r}
  /\ successMsgs' = IF r \in failedMsgs THEN successMsgs ELSE successMsgs \ {r}
  /\ UNCHANGED <<configVars, up, pendingMsgs, sending, confirmed, errored, logVars,
                 consumerVars, inFlight, receipts, bounds>>

(* waitForSend                                                             *)
WaitForSend(r) ==
  /\ At(r, "check")
  /\ CASE r \in failedMsgs -> Respond(r, 502)
       [] r \in successMsgs \ failedMsgs -> Respond(r, 200)
       [] OTHER -> Goto(r, "asleep")
  /\ failedMsgs' = failedMsgs \ {r}
  /\ successMsgs' = IF r \in failedMsgs THEN successMsgs ELSE successMsgs \ {r}
  /\ UNCHANGED <<configVars, up, pendingMsgs, sending, confirmed, errored, logVars,
                 consumerVars, inFlight, receipts, bounds>>

Broadcast ==
  /\ pc' = [r \in Client |-> IF pc[r] = "asleep" THEN "check" ELSE pc[r]]
  /\ UNCHANGED status

(* The producer puts the message on the topic and confirms it, or gives up *)
(* with an error, which may leave it on the topic.                         *)
Produce(r) ==
  /\ up /\ r \in sending
  /\ sending' = sending \ {r}
  /\ \/ topic' = topic \cup {r} /\ confirmed' = confirmed \cup {r} /\ UNCHANGED errored
     \/ topic' \in {topic, topic \cup {r}} /\ errored' = errored \cup {r}
        /\ UNCHANGED confirmed
  /\ UNCHANGED <<configVars, up, handlerVars, pendingMsgs, successMsgs, failedMsgs,
                 replyLog, committed, consumerVars, inFlight, receipts, bounds>>

ProducerSuccessLoop(r) ==
  /\ up /\ r \in confirmed
  /\ confirmed' = confirmed \ {r}
  /\ IF r \in pendingMsgs
       THEN /\ pendingMsgs' = pendingMsgs \ {r}
            /\ successMsgs' = successMsgs \cup {r}
            /\ Broadcast
       ELSE UNCHANGED <<pendingMsgs, successMsgs, handlerVars>>
  /\ UNCHANGED <<configVars, up, failedMsgs, sending, errored, logVars, consumerVars,
                 inFlight, receipts, bounds>>

(* Mutant: an error is taken for a confirmation.                           *)
ProducerErrorLoop_AsSuccess(r) ==
  /\ up /\ r \in errored
  /\ errored' = errored \ {r}
  /\ pendingMsgs' = pendingMsgs \ {r}
  /\ successMsgs' = successMsgs \cup (pendingMsgs \cap {r})
  /\ Broadcast
  /\ UNCHANGED <<configVars, up, failedMsgs, sending, confirmed, logVars, consumerVars,
                 inFlight, receipts, bounds>>

ProducerErrorLoop(r) ==
  /\ up /\ r \in errored
  /\ errored' = errored \ {r}
  /\ IF r \in pendingMsgs
       THEN /\ pendingMsgs' = pendingMsgs \ {r}
            /\ failedMsgs' = failedMsgs \cup {r}
            /\ Broadcast
       ELSE UNCHANGED <<pendingMsgs, failedMsgs, handlerVars>>
  /\ UNCHANGED <<configVars, up, successMsgs, sending, confirmed, logVars, consumerVars,
                 inFlight, receipts, bounds>>

-----------------------------------------------------------------------------
(* The receipt store.                                                      *)

Stored(r) == \E i \in 1 .. Len(receipts) : receipts[i] = r

Fewer(m, n) == IF n < 0 THEN 0 ELSE IF m < n THEN m ELSE n

Keep(n, s) == SubSeq(s, 1, Fewer(n, Len(s)))

(* Mutant: the store is let grow beyond its limit before it drops one.     *)
AddToMemory_OneMore(r) ==
  receipts' = <<r>> \o (IF Len(receipts) > maxDocs /\ Len(receipts) > 0
                          THEN Keep(Len(receipts) - 1, receipts) ELSE receipts)

(* Mutant: the list grows at its other end.                                *)
AddToMemory_AtTheBack(r) ==
  receipts' = (IF Len(receipts) >= maxDocs /\ Len(receipts) > 0
                 THEN Tail(receipts) ELSE receipts) \o <<r>>

(* memoryReceipts.AddReceipt: at the limit the oldest one is dropped.      *)
AddToMemory(r) ==
  receipts' = <<r>> \o (IF Len(receipts) >= maxDocs /\ Len(receipts) > 0
                          THEN Keep(Len(receipts) - 1, receipts) ELSE receipts)

(* A collection whose key is the identifier, and capped if maxDocs says so.*)
AddToMongo(r) ==
  receipts' = IF Stored(r) THEN receipts
              ELSE IF maxDocs > 0 THEN Keep(maxDocs, <<r>> \o receipts)
              ELSE <<r>> \o receipts

(* What processReply does with a reply to r: an error is only logged.      *)
AddReceipt(r) ==
  \/ store = "memory" /\ AddToMemory(r) /\ UNCHANGED failures
  \/ store = "mongo" /\ AddToMongo(r) /\ UNCHANGED failures
  \/ /\ store = "mongo" /\ failures < MaxFailures
     /\ failures' = failures + 1 /\ UNCHANGED receipts

(* GetReceipts: the pages that a query may get that passes over n.  MongoDB *)
(* sorts by receivedAt, in milliseconds; which receipts share one, and so   *)
(* come in any order, is left open.                                         *)
GetReceipts(n) ==
  IF store = "memory" THEN {SubSeq(receipts, n + 1, Fewer(n + Limit, Len(receipts)))}
  ELSE [1 .. Fewer(Limit, Len(receipts) - n) -> {r \in Client : Stored(r)}]

(* getReplies refuses a query with a bad or too high limit, a bad skip or  *)
(* identifier, or without permission, and fails with the store.            *)
GetReplies ==
  /\ up /\ <<mode, store>> \in Paging /\ reading = "pages"
  /\ \/ reading' = "refused" /\ UNCHANGED <<skip, seen, due>>
     \/ \E page \in GetReceipts(skip) :
          /\ due' = IF skip = 0 THEN {r \in Client : Stored(r)} ELSE due
          /\ seen' = seen \cup {page[i] : i \in DOMAIN page}
          /\ skip' = skip + Len(page)
          /\ reading' = IF Len(page) < Limit THEN "end" ELSE "pages"

-----------------------------------------------------------------------------
(* The replies of the bridge.                                              *)

Answered(r) == \E i \in 1 .. Len(replyLog) : replyLog[i] = r

BridgeReply(r) ==
  /\ mode = "kafka" /\ r \in topic
  /\ ~Answered(r) \/ Len(replyLog) < MaxReplies
  /\ replyLog' = Append(replyLog, r)
  /\ UNCHANGED <<configVars, up, handlerVars, sendVars, topic, committed, consumerVars,
                 inFlight, receipts, bounds>>

(* ConsumerMessagesLoop receives the next reply, ...                       *)
ConsumeReply ==
  /\ up /\ mode = "kafka" /\ stage = "next" /\ marked < Len(replyLog)
  /\ stage' = "store"
  /\ UNCHANGED <<configVars, up, handlerVars, sendVars, logVars, marked, base, inFlight,
                 receipts, bounds>>

(* ... processes it, ...                                                   *)
ProcessReply ==
  /\ up /\ stage = "store"
  /\ stage' = "mark"
  /\ AddReceipt(replyLog[marked + 1])
  /\ UNCHANGED <<configVars, up, handlerVars, sendVars, logVars, marked, base, inFlight,
                 crashes>>

(* Mutant: the offset is marked when the reply is received.                *)
MarkOffset_First ==
  /\ up /\ stage \in {"store", "mark"}
  /\ marked' = marked + 1
  /\ stage' = "next"
  /\ UNCHANGED <<configVars, up, handlerVars, sendVars, logVars, base, inFlight,
                 receipts, bounds>>

(* ... and regardless of the outcome marks its offset.                     *)
MarkOffset ==
  /\ up /\ stage = "mark"
  /\ marked' = marked + 1
  /\ stage' = "next"
  /\ UNCHANGED <<configVars, up, handlerVars, sendVars, logVars, base, inFlight,
                 receipts, bounds>>

Commit ==
  /\ up /\ committed # marked
  /\ committed' = marked
  /\ UNCHANGED <<configVars, up, handlerVars, sendVars, topic, replyLog, consumerVars,
                 inFlight, receipts, bounds>>

-----------------------------------------------------------------------------
(* The direct mode.                                                        *)

(* sendWebhookMsg counts, refuses and adds under inFlightMutex; headers    *)
(* may still be of the wrong types.                                        *)
SendDirect(r) ==
  /\ At(r, "send") /\ mode = "direct"
  /\ \/ Cardinality(inFlight) >= MaxInFlight /\ Respond(r, 429) /\ UNCHANGED inFlight
     \/ Cardinality(inFlight) < MaxInFlight /\ Respond(r, 400) /\ UNCHANGED inFlight
     \/ /\ Cardinality(inFlight) < MaxInFlight
        /\ inFlight' = inFlight \cup {r} /\ Goto(r, "onmessage")
  /\ UNCHANGED <<configVars, up, sendVars, logVars, consumerVars, receipts, bounds>>

OnMessageReturns(r) ==
  /\ At(r, "onmessage")
  /\ Respond(r, 200)
  /\ UNCHANGED <<configVars, up, sendVars, logVars, consumerVars, inFlight, receipts,
                 bounds>>

(* The processor replies, during OnMessage or later: msgContext.Reply.     *)
DirectReply(r) ==
  /\ up /\ r \in inFlight
  /\ AddReceipt(r)
  /\ replyLog' = Append(replyLog, r)
  /\ inFlight' = inFlight \ {r}
  /\ UNCHANGED <<configVars, up, handlerVars, sendVars, topic, committed, consumerVars,
                 crashes>>

-----------------------------------------------------------------------------
Crash ==
  /\ up /\ crashes < MaxCrashes
  /\ crashes' = crashes + 1
  /\ up' = FALSE
  /\ pc' = [r \in Client |-> IF pc[r] \in {"new", "returned"} THEN pc[r] ELSE "gone"]
  /\ pendingMsgs' = {} /\ successMsgs' = {} /\ failedMsgs' = {}
  /\ sending' = {} /\ confirmed' = {} /\ errored' = {}
  /\ inFlight' = {}
  /\ receipts' = IF store = "memory" THEN <<>> ELSE receipts
  /\ UNCHANGED <<configVars, status, logVars, consumerVars, failures>>

(* The consumer group delivers again from the committed offset.            *)
Restart ==
  /\ ~up /\ up' = TRUE
  /\ base' = IF mode = "kafka" THEN committed ELSE Len(replyLog)
  /\ marked' = committed /\ stage' = "next"
  /\ UNCHANGED <<configVars, handlerVars, sendVars, logVars, inFlight, receipts, bounds>>

-----------------------------------------------------------------------------
HandlerStep(r) ==
  \/ ProcessMsg(r)
  \/ SetMsgPending(r) \/ SendInput(r) \/ WaitForSend(r)
  \/ SendDirect(r) \/ OnMessageReturns(r)

ProducerStep(r) == Produce(r) \/ ProducerSuccessLoop(r) \/ ProducerErrorLoop(r)

ConsumerStep == ConsumeReply \/ ProcessReply \/ MarkOffset

StoreNext ==
  \/ \E r \in Client : HandlerStep(r) \/ ProducerStep(r) \/ BridgeReply(r) \/ DirectReply(r)
  \/ ConsumerStep \/ Commit
  \/ Crash \/ Restart

Next ==
  \/ StoreNext /\ UNCHANGED readerVars
  \/ GetReplies /\ UNCHANGED storeVars

Spec == Init /\ [][Next]_vars

(* Goroutines keep running, the producer confirms, the bridge and the      *)
(* processor reply, and the process is started again.                      *)
Fairness ==
  /\ WF_storeVars(ConsumerStep) /\ WF_storeVars(Restart)
  /\ \A r \in Client :
       /\ WF_storeVars(HandlerStep(r)) /\ WF_storeVars(ProducerStep(r))
       /\ WF_storeVars(BridgeReply(r) \/ DirectReply(r))

FairSpec == Spec /\ Fairness

-----------------------------------------------------------------------------
TypeOK ==
  /\ mode \in Mode /\ store \in Store /\ maxDocs \in Nat
  /\ noAck \subseteq NoAck /\ up \in BOOLEAN
  /\ pc \in [Client -> {"new", "send", "input", "check", "asleep", "onmessage",
                        "returned", "gone"}]
  /\ status \in [Client -> {0, 200, 400, 429, 500, 502}]
  /\ \A r \in Client : pc[r] = "returned" <=> status[r] # 0
  /\ \A s \in {pendingMsgs, successMsgs, failedMsgs, sending, confirmed, errored, topic,
               inFlight} : s \subseteq Client
  /\ replyLog \in Seq(Client) /\ receipts \in Seq(Client)
  /\ committed \in Nat /\ marked \in Nat /\ base \in Nat
  /\ stage \in {"next", "store", "mark"}
  /\ crashes \in Nat /\ failures \in Nat
  /\ reading \in {"pages", "end", "refused"} /\ skip \in Nat
  /\ seen \subseteq Client /\ due \subseteq Client

(* An acknowledgement says what became of the client's own message: with   *)
(* 200 it is on the topic, and an error of another message is never taken  *)
(* for its own.                                                            *)
AckIsOwnOutcome ==
  mode = "kafka" =>
    \A r \in Client \ noAck :
      /\ status[r] = 200 => r \in topic
      /\ r \in successMsgs => r \in topic
      /\ r \in failedMsgs => r \notin confirmed \cup successMsgs

(* The maps hold nothing that no handler will take out, and the direct     *)
(* mode nothing that was answered, however a request ends: otherwise they  *)
(* would grow, and the limit of the direct mode never come free.           *)
NothingLeaks ==
  /\ \A r \in pendingMsgs \cup successMsgs \cup failedMsgs :
       pc[r] \in {"input", "check", "asleep"}
  /\ \A r \in inFlight : ~Answered(r)
  /\ Cardinality(inFlight) <= MaxInFlight

(* The memory store is the latest replies that this process has processed, *)
(* the newest first, at most maxDocs of them, but never none.              *)
Processed == IF mode = "direct" THEN Len(replyLog)
             ELSE IF stage = "mark" THEN marked + 1 ELSE marked

Latest(from, to) == [i \in 1 .. to - from |-> replyLog[to + 1 - i]]

MemoryKeepsLatest ==
  store = "memory" /\ up =>
    receipts = Keep(IF maxDocs = 0 THEN 1 ELSE maxDocs, Latest(base, Processed))

(* A client that has read the memory store to its end, page by page, while *)
(* replies came in that moved what it had not read yet, has seen every     *)
(* receipt that was there when it began and still is: unless its reply was *)
(* delivered again, which may put it before what the client has read.      *)
DeliveredAgain(r) ==
  mode = "kafka" /\ (crashes > 0 \/ \E i, j \in 1 .. Len(replyLog) :
                                      i # j /\ replyLog[i] = r /\ replyLog[j] = r)

PagesMissNothing ==
  store = "memory" /\ reading = "end" =>
    \A r \in due : Stored(r) => r \in seen \/ DeliveredAgain(r)

(* A handler that has sent its message gets the confirmation or the error  *)
(* of it, however these interleave with its own steps.                     *)
HandlersReturn == \A r \in Client : pc[r] = "send" ~> pc[r] \in {"returned", "gone"}

(* The reply of a request that is on the topic becomes a receipt, whatever *)
(* crashes there are on the way, unless an insert fails.                   *)
RepliesAreStored ==
  \A r \in Client :
    r \in topic /\ ~Answered(r) ~> Stored(r) \/ failures > 0

=============================================================================
