---------------------------- MODULE TxnProcessor ----------------------------
(***************************************************************************)
(* The transaction processor (maidenlanetx/txnprocessor.go): it takes a    *)
(* request from OnMessage to its reply through nonce assignment, sending   *)
(* to the Ethereum node and tracking until mined, keeping the in-flight    *)
(* transactions of each address under inflightTxnsLock.                    *)
(*                                                                         *)
(* OnMessage runs in the caller's goroutine (the Kafka consumer loop, or   *)
(* one HTTP request each); sending runs in it too, or in a goroutine of    *)
(* its own when SendConcurrency > 1; waitForCompletion always has its own. *)
(* pc[c] says where the code working for context c is.  A region executed  *)
(* under the lock is one action, except addInflightWrapper's query of the  *)
(* node, during which the lock stays taken.                                *)
(*                                                                         *)
(* Public transactions only (OrionPrivateAPIS off).  The node is external. *)
(***************************************************************************)
EXTENDS Integers, FiniteSets

CONSTANTS
  Context,          \* the requests given to OnMessage
  Address,          \* the normalised from addresses
  Requests,         \* the requests a context may hold
  InitialCount,     \* transactions the node has of every address at the start
  SendConcurrency,  \* TxnProcessorConf.SendConcurrency
  AttemptGapFill,   \* TxnProcessorConf.AttemptGapFill
  MaxCallers,       \* goroutines that call OnMessage at the same time
  MaxRetries        \* bound: receipt checks that fit into MaxTXWaitTime

(***************************************************************************)
(* What a request leads addInflightWrapper to do: "rejected" (cannot be    *)
(* parsed, or has no usable from address or signer), "badNonce" (its nonce *)
(* is a JSON number but no int64), "supplied" (the caller manages nonces), *)
(* "nodeAssign" (neither a signer nor AlwaysManageNonce), "managed".       *)
(***************************************************************************)
Kind == {"rejected", "badNonce", "supplied", "nodeAssign", "managed"}

ASSUME ProcessorAssumption ==
  /\ IsFiniteSet(Context)
  /\ Requests \subseteq [from : Address, kind : Kind, nonce : Nat]
  /\ InitialCount \in Nat
  /\ SendConcurrency \in Nat \ {0}
  /\ AttemptGapFill \in BOOLEAN
  /\ MaxCallers \in Nat \ {0}
  /\ MaxRetries \in Nat

VARIABLES
  request,   \* request[c]: what c asks for, fixed by its sender
  pc,        \* pc[c]: where the processing of c is
  calling,   \* contexts whose OnMessage call has not returned
  lock,      \* the context that holds inflightTxnsLock, as a set
  entries,   \* addresses with an entry in inflightTxns
  highest,   \* highest[a]: highestNonce of a's entry
  txns,      \* txns[a]: txnsInFlight of a's entry
  nonce,     \* nonce[c]: inflight.nonce
  fromMem,   \* contexts whose nonce came from highest
  slots,     \* contexts holding a slot of concurrencySlots
  retries,   \* retries[c]: receipt checks made so far
  replies,   \* replies[c]: replies given to c
  onNode     \* onNode[a]: nonces of the transactions the node has of a

entryVars == <<entries, highest, txns, nonce, fromMem>>
vars == <<request, pc, calling, lock, entryVars, slots, retries, replies, onNode>>

Step(c, from, to) == pc[c] = from /\ pc' = [pc EXCEPT ![c] = to]

Addr(c) == request[c].from

Init ==
  /\ request \in [Context -> Requests]
  /\ pc = [c \in Context |-> "new"]
  /\ calling = {} /\ lock = {}
  /\ entries = {}
  /\ highest = [a \in Address |-> 0]
  /\ txns = [a \in Address |-> {}]
  /\ nonce = [c \in Context |-> 0]
  /\ fromMem = {}
  /\ slots = {}
  /\ retries = [c \in Context |-> 0]
  /\ replies = [c \in Context |-> 0]
  /\ onNode = [a \in Address |-> 0 .. InitialCount - 1]

(* eth_getTransactionCount(addr, "pending"): the first nonce with no       *)
(* transaction on the node.                                                *)
PendingCount(a) ==
  Cardinality({n \in onNode[a] : 0 .. n \subseteq onNode[a]})

-----------------------------------------------------------------------------
(* Mutant: the caller does not wait for OnMessage.                         *)
OnMessage_NotWaited(c) ==
  /\ Step(c, "new", IF request[c].kind = "rejected" THEN "errorReply" ELSE "add")
  /\ UNCHANGED <<request, calling, lock, entryVars, slots, retries, replies, onNode>>

(* OnMessage parses the request and works out who signs it.                *)
OnMessage(c) ==
  /\ Cardinality(calling) < MaxCallers
  /\ Step(c, "new", IF request[c].kind = "rejected" THEN "errorReply" ELSE "add")
  /\ calling' = calling \cup {c}
  /\ UNCHANGED <<request, lock, entryVars, slots, retries, replies, onNode>>

(* addInflightWrapper appends c to its address' list, leaving the lock.    *)
Track(c, n) ==
  /\ entries' = entries \cup {Addr(c)}
  /\ txns' = [txns EXCEPT ![Addr(c)] = @ \cup {c}]
  /\ nonce' = [nonce EXCEPT ![c] = n]

(* The nonce is the caller's.                                              *)
AddSupplied(c) ==
  /\ request[c].kind = "supplied"
  /\ Track(c, request[c].nonce)
  /\ pc' = [pc EXCEPT ![c] = "build"]
  /\ UNCHANGED <<lock, highest, fromMem>>

(* A nonce that is not an integer: return without unlocking.               *)
AddBadNonce(c) ==
  /\ request[c].kind = "badNonce"
  /\ entries' = entries \cup {Addr(c)}
  /\ lock' = {c}
  /\ pc' = [pc EXCEPT ![c] = "errorReply"]
  /\ UNCHANGED <<highest, txns, nonce, fromMem>>

(* Mutant: the highest nonce is used but not stored.                       *)
AddFromMemory_NotStored(c) ==
  /\ request[c].kind = "managed" /\ Addr(c) \in entries
  /\ Track(c, highest[Addr(c)] + 1)
  /\ fromMem' = fromMem \cup {c}
  /\ pc' = [pc EXCEPT ![c] = "build"]
  /\ UNCHANGED <<lock, highest>>

(* The address has an entry: one more than its highest nonce.              *)
AddFromMemory(c) ==
  /\ request[c].kind = "managed" /\ Addr(c) \in entries
  /\ Track(c, highest[Addr(c)] + 1)
  /\ highest' = [highest EXCEPT ![Addr(c)] = @ + 1]
  /\ fromMem' = fromMem \cup {c}
  /\ pc' = [pc EXCEPT ![c] = "build"]
  /\ UNCHANGED lock

(* The node will assign the nonce.                                         *)
AddNodeAssigned(c) ==
  /\ request[c].kind = "nodeAssign"
  /\ Track(c, 0)
  /\ pc' = [pc EXCEPT ![c] = "build"]
  /\ UNCHANGED <<lock, highest, fromMem>>

(* The node has to be asked: the new entry is made and the lock kept.      *)
BeginQuery(c) ==
  /\ request[c].kind = "managed" /\ Addr(c) \notin entries
  /\ entries' = entries \cup {Addr(c)}
  /\ lock' = {c}
  /\ pc' = [pc EXCEPT ![c] = "query"]
  /\ UNCHANGED <<highest, txns, nonce, fromMem>>

AddInflightWrapper(c) ==
  /\ pc[c] = "add" /\ lock = {}
  /\ \/ AddSupplied(c)
     \/ AddBadNonce(c)
     \/ AddFromMemory(c)
     \/ AddNodeAssigned(c)
     \/ BeginQuery(c)
  /\ UNCHANGED <<request, calling, slots, retries, replies, onNode>>

(* The node answers; highestNonce is not set.                              *)
QueryAnswered(c) ==
  /\ Step(c, "query", "build")
  /\ Track(c, PendingCount(Addr(c)))
  /\ lock' = {}
  /\ UNCHANGED <<request, calling, highest, fromMem, slots, retries, replies, onNode>>

(* Mutant: the -1 the local variable started from is stored.               *)
QueryFailed_StoresLocal(c) ==
  /\ Step(c, "query", "errorReply")
  /\ highest' = [highest EXCEPT ![Addr(c)] = -1]
  /\ lock' = {}
  /\ UNCHANGED <<request, calling, entries, txns, nonce, fromMem, slots, retries,
                 replies, onNode>>

(* The query fails: the entry stays, with the 0 the call returned.         *)
QueryFailed(c) ==
  /\ Step(c, "query", "errorReply")
  /\ highest' = [highest EXCEPT ![Addr(c)] = 0]
  /\ lock' = {}
  /\ UNCHANGED <<request, calling, entries, txns, nonce, fromMem, slots, retries,
                 replies, onNode>>

-----------------------------------------------------------------------------
(* cancelInFlight: c leaves its address' list, and the entry goes with the *)
(* last transaction in it.                                                 *)
Untrack(c) ==
  LET a == Addr(c)
      left == txns[a] \ {c}
  IN  /\ txns' = [txns EXCEPT ![a] = left]
      /\ entries' = IF left = {} THEN entries \ {a} ELSE entries
      /\ highest' = IF left = {} THEN [highest EXCEPT ![a] = 0] ELSE highest
      /\ UNCHANGED <<nonce, fromMem>>

(* A transaction that stays has a higher nonce.                            *)
HigherNonceInflight(c) ==
  /\ request[c].kind # "nodeAssign"
  /\ \E d \in txns[Addr(c)] \ {c} : nonce[d] > nonce[c]

(* The transaction is built from the request; it is sent by this goroutine *)
(* or, once there is a slot, by one of its own.                            *)
Build(c) ==
  /\ Step(c, "build", IF SendConcurrency > 1 THEN "slot" ELSE "send")
  /\ UNCHANGED <<request, calling, lock, entryVars, slots, retries, replies, onNode>>

(* The parameters do not fit the method: the nonce is given up silently.   *)
BuildFailed(c) ==
  /\ Step(c, "build", "errorReply")
  /\ lock = {}
  /\ Untrack(c)
  /\ UNCHANGED <<request, calling, lock, slots, retries, replies, onNode>>

(* There is a slot: OnMessage returns.                                     *)
TakeSlot(c) ==
  /\ Cardinality(slots) < SendConcurrency
  /\ Step(c, "slot", "send")
  /\ slots' = slots \cup {c}
  /\ calling' = calling \ {c}
  /\ UNCHANGED <<request, lock, entryVars, retries, replies, onNode>>

(* The nonce the transaction has on the node.                              *)
NonceOnNode(c) ==
  IF request[c].kind = "nodeAssign" THEN PendingCount(Addr(c)) ELSE nonce[c]

Accept(c, n) == onNode' = [onNode EXCEPT ![Addr(c)] = @ \cup {n}]

(* The node takes the transaction, and a goroutine starts to track it.     *)
Sent(c) ==
  /\ Step(c, "send", "mining")
  /\ NonceOnNode(c) \notin onNode[Addr(c)]
  /\ Accept(c, NonceOnNode(c))
  /\ slots' = slots \ {c}
  /\ calling' = calling \ {c}
  /\ UNCHANGED <<request, lock, entryVars, retries, replies>>

(* Mutant: the slot is not returned when sending fails.                    *)
SendFailed_KeepsSlot(c) ==
  /\ Step(c, "send", "cancel")
  /\ UNCHANGED <<request, calling, lock, entryVars, slots, retries, replies, onNode>>

(* Sending fails, although the node may have the transaction when only its *)
(* answer was lost.                                                        *)
SendFailed(c) ==
  /\ Step(c, "send", "cancel")
  /\ slots' = slots \ {c}
  /\ \/ UNCHANGED onNode
     \/ Accept(c, NonceOnNode(c))
  /\ UNCHANGED <<request, calling, lock, entryVars, retries, replies>>

(* A nonce that failed to send below one in flight is a gap to be filled.  *)
CancelUnsent(c) ==
  /\ lock = {}
  /\ Step(c, "cancel", IF HigherNonceInflight(c) /\ AttemptGapFill
                         THEN "gapFill" ELSE "errorReply")
  /\ Untrack(c)
  /\ UNCHANGED <<request, calling, lock, slots, retries, replies, onNode>>

SubmitGapFillTX(c) ==
  /\ Step(c, "gapFill", "errorReply")
  /\ UNCHANGED onNode \/ Accept(c, nonce[c])
  /\ UNCHANGED <<request, calling, lock, entryVars, slots, retries, replies>>

(* The error reply ends the work on c.                                     *)
ErrorReply(c) ==
  /\ Step(c, "errorReply", "done")
  /\ replies' = [replies EXCEPT ![c] = @ + 1]
  /\ calling' = calling \ {c}
  /\ UNCHANGED <<request, lock, entryVars, slots, retries, onNode>>

-----------------------------------------------------------------------------
(* waitForCompletion.                                                      *)

(* A transaction is mined once no nonce below its own is missing.          *)
Minable(c) ==
  request[c].kind = "nodeAssign" \/ nonce[c] < PendingCount(Addr(c))

(* GetTXReceipt has a receipt; its time is reported under the lock.        *)
Mined(c) ==
  /\ Minable(c)
  /\ lock = {}
  /\ Step(c, "mining", "reply")
  /\ UNCHANGED <<request, calling, lock, entryVars, slots, retries, replies, onNode>>

(* There is none, or the check fails: the retry delay is worked out under  *)
(* the lock.                                                               *)
Retry(c) ==
  /\ pc[c] = "mining"
  /\ retries[c] < MaxRetries
  /\ lock = {}
  /\ retries' = [retries EXCEPT ![c] = @ + 1]
  /\ UNCHANGED <<request, pc, calling, lock, entryVars, slots, replies, onNode>>

(* MaxTXWaitTime has passed.                                               *)
TimedOut(c) ==
  /\ retries[c] = MaxRetries
  /\ Step(c, "mining", "reply")
  /\ UNCHANGED <<request, calling, lock, entryVars, slots, retries, replies, onNode>>

(* The receipt, or the error of a timeout, is the reply.                   *)
Reply(c) ==
  /\ Step(c, "reply", "finish")
  /\ replies' = [replies EXCEPT ![c] = @ + 1]
  /\ UNCHANGED <<request, calling, lock, entryVars, slots, retries, onNode>>

(* Mutants: the transaction stays tracked; it is tracked to the end again. *)
Finish_NotUntracked(c) ==
  /\ Step(c, "finish", "done")
  /\ UNCHANGED <<request, calling, lock, entryVars, slots, retries, replies, onNode>>
Finish_Again(c) ==
  /\ lock = {} /\ Step(c, "finish", "mining")
  /\ Untrack(c)
  /\ UNCHANGED <<request, calling, lock, slots, retries, replies, onNode>>

Finish(c) ==
  /\ lock = {}
  /\ Step(c, "finish", "done")
  /\ Untrack(c)
  /\ UNCHANGED <<request, calling, lock, slots, retries, replies, onNode>>

-----------------------------------------------------------------------------
Handle(c) ==
  \/ OnMessage(c) \/ AddInflightWrapper(c) \/ QueryAnswered(c) \/ QueryFailed(c)
  \/ Build(c) \/ BuildFailed(c) \/ TakeSlot(c) \/ Sent(c) \/ SendFailed(c)
  \/ CancelUnsent(c) \/ SubmitGapFillTX(c) \/ ErrorReply(c)

WaitForCompletion(c) ==
  Mined(c) \/ Retry(c) \/ TimedOut(c) \/ Reply(c) \/ Finish(c)

Next == \E c \in Context : Handle(c) \/ WaitForCompletion(c)

Spec == Init /\ [][Next]_vars

(***************************************************************************)
(* Every goroutine keeps running: the node answers each call or the call   *)
(* times out, a caller goes on to its next message, a mutex that is free   *)
(* is obtained in the end.                                                 *)
(***************************************************************************)
Fairness == \A c \in Context : WF_vars(Handle(c)) /\ WF_vars(WaitForCompletion(c))

FairSpec == Spec /\ Fairness

-----------------------------------------------------------------------------
PC == {"new", "add", "query", "build", "slot", "send", "cancel", "gapFill", 
       "errorReply", "mining", "reply", "finish", "done"}

TypeOK ==
  /\ request \in [Context -> Requests]
  /\ pc \in [Context -> PC]
  /\ calling \subseteq Context
  /\ lock \subseteq Context
  /\ entries \subseteq Address
  /\ highest \in [Address -> Nat]
  /\ txns \in [Address -> SUBSET Context]
  /\ nonce \in [Context -> Nat]
  /\ fromMem \subseteq Context
  /\ slots \subseteq Context
  /\ retries \in [Context -> 0 .. MaxRetries]
  /\ replies \in [Context -> Nat]
  /\ onNode \in [Address -> SUBSET Nat]
  /\ \A a \in Address : IsFiniteSet(onNode[a])

(* No request is answered twice: the Kafka bridge would panic on the       *)
(* second confirmation.                                                    *)
AtMostOneReply == \A c \in Context : replies[c] <= 1

(* Every request is answered in the end ("the processor MUST ensure Reply  *)
(* is called on txnContext eventually in all scenarios", OnMessage).       *)
EveryMessageAnswered == \A c \in Context : <>(replies[c] > 0)

(* A transaction the node may have and that has no reply yet is in the     *)
(* list the nonce and gap checks look at, and a finished one no longer is. *)
TrackedWhileInFlight ==
  \A c \in Context :
    /\ pc[c] \in {"slot", "send", "cancel", "mining", "reply"} => c \in txns[Addr(c)]
    /\ pc[c] = "done" => \A a \in Address : c \notin txns[a]
    /\ c \in txns[Addr(c)] => Addr(c) \in entries

(* No more sends to the node are under way than SendConcurrency allows,    *)
(* when each has a goroutine of its own.                                   *)
SendsBounded ==
  SendConcurrency > 1 =>
    Cardinality({c \in Context : pc[c] = "send"}) <= SendConcurrency

(* In-flight transactions of an address never share a nonce that was taken *)
(* from memory.                                                            *)
MemoryNoncesDistinct ==
  \A c, d \in fromMem :
    /\ c # d /\ Addr(c) = Addr(d)
    /\ c \in txns[Addr(c)] /\ d \in txns[Addr(d)]
    => nonce[c] # nonce[d]

(* With one sender and one caller the next nonce is not assigned until     *)
(* this one is sent ("so we don't assign the next nonce until we've sent   *)
(* this one", sendTransactionCommon).                                      *)
OneUnsentNonce ==
  \A c, d \in Context :
    {pc[c], pc[d]} \subseteq {"build", "send"} => c = d

(* Two transactions in flight from one address never have the same nonce   *)
(* of the processor's choosing ("store & return one higher" than the nonce *)
(* in flight, addInflightWrapper).                                         *)
ManagedNoncesDistinct ==
  \A c, d \in Context :
    /\ c # d /\ Addr(c) = Addr(d)
    /\ request[c].kind = "managed" /\ request[d].kind = "managed"
    /\ c \in txns[Addr(c)] /\ d \in txns[Addr(d)]
    => nonce[c] # nonce[d]

(* A nonce the processor gives up before its transaction is submitted      *)
(* leaves no gap below one of its nonces in flight ("No gap potential, we  *)
(* haven't submitted", OnSendTransactionMessage).                          *)
NoGapWhenNotSubmitted ==
  [][\A c, d \in Context :
       /\ BuildFailed(c) /\ nonce[c] \notin onNode[Addr(c)]
       /\ request[c].kind = "managed" /\ request[d].kind = "managed"
       /\ d \in txns[Addr(c)]
       => nonce[d] <= nonce[c]]_vars

-----------------------------------------------------------------------------
(***************************************************************************)
(* The inductive strengthening of the safety properties.                   *)
(***************************************************************************)

(* Only the last step of a request's processing replies.                   *)
RepliesByStage ==
  \A c \in Context :
    replies[c] = IF pc[c] \in {"finish", "done"} THEN 1 ELSE 0

TrackedStage ==
  {"build", "slot", "send", "cancel", "mining", "reply", "finish"}

(* What is in the lists is what has been added and not taken off, and the  *)
(* address that is being queried has nothing in its list.                  *)
TrackedByStage ==
  /\ \A a \in Address : txns[a] = {c \in Context : Addr(c) = a /\ pc[c] \in TrackedStage}
  /\ \A a \in Address : txns[a] # {} => a \in entries
  /\ \A c \in Context : pc[c] = "query" => lock = {c} /\ txns[Addr(c)] = {}

(* While an address has an entry, no nonce taken from memory is above its  *)
(* highest one.                                                            *)
MemoryOrdered ==
  /\ \A c \in fromMem : pc[c] \notin {"new", "add", "query"}
  /\ \A c \in fromMem : c \in txns[Addr(c)] => nonce[c] <= highest[Addr(c)]
  /\ MemoryNoncesDistinct

(* Who sends holds a slot, or with one sender its caller.                  *)
Senders ==
  /\ IsFiniteSet(slots) /\ Cardinality(slots) <= SendConcurrency
  /\ IsFiniteSet(calling) /\ Cardinality(calling) <= MaxCallers
  /\ SendConcurrency > 1 => \A c \in Context : pc[c] = "send" => c \in slots
  /\ SendConcurrency = 1 =>
       \A c \in Context :
         /\ pc[c] # "slot"
         /\ pc[c] \in {"add", "query", "build", "send"} => c \in calling

IInv == TypeOK /\ RepliesByStage /\ TrackedByStage /\ MemoryOrdered /\ Senders

=============================================================================
