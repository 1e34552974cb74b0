---------------------------- MODULE KafkaBridge ----------------------------
(***************************************************************************)
(* The Kafka -> Ethereum bridge (maidenlanekafka): one member of a         *)
(* consumer group that reads requests, hands them to the transaction       *)
(* processor, sends one reply per request through an asynchronous producer *)
(* and, as the replies are confirmed, moves the group's offset forwards.   *)
(*                                                                         *)
(* Four goroutines act on the shared state: ConsumeClaim (one for each     *)
(* claimed partition), ConsumerMessagesLoop, ProducerSuccessLoop and       *)
(* ProducerErrorLoop.  The last three serialise on inFlightCond.L, so each *)
(* region they execute under that mutex is one action here.                *)
(*                                                                         *)
(* Kafka itself (group coordination, the session's offset manager and the  *)
(* producer) is external code, modelled from how the bridge uses it; so is *)
(* any other member of the group.                                          *)
(***************************************************************************)
EXTENDS Naturals, FiniteSets

CONSTANTS
  Partition,      \* the partitions of the input topic
  LogEnd,         \* every partition holds requests at offsets 0 .. LogEnd-1
  MaxInFlight,    \* KafkaBridgeConf.MaxInFlight
  Malformed,      \* requests addInflightMsg cannot parse or authorise
  MaxRebalances,  \* bound: sessions the coordinator ends
  MaxCrashes      \* bound: process failures other than panics of the bridge

Msg == [partition : Partition, offset : 0 .. LogEnd - 1]

ASSUME BridgeAssumption ==
  /\ LogEnd \in Nat
  /\ MaxInFlight \in Nat \ {0}     \* ValidateConf replaces 0 by 10
  /\ Malformed \subseteq Msg
  /\ MaxRebalances \in Nat
  /\ MaxCrashes \in Nat

VARIABLES
  \* Kafka
  committed,   \* committed[p]: first offset of p that the group reads again
  replies,     \* requests that have an answer on the output topic
  session,     \* this member's session: "none", "active", "ending", "fenced"
  claims,      \* partitions the session owns
  position,    \* position[p]: next offset the claim on p delivers
  marked,      \* marked[p]: offset the session will commit for p
  \* the bridge
  up,          \* the process is running
  held,        \* messages ConsumeClaim has received and not yet passed on
  pc,          \* ConsumerMessagesLoop: "recv", "gate", "wait", "dispatch"
  cur,         \* the message that loop is working on, as a set of at most one
  inFlight,    \* k.inFlight, a msgContext being known by its reqOffset
  complete,    \* the contexts with complete = true
  processing,  \* processing[m]: contexts of m the TxnProcessor has to answer
  outbound,    \* outbound[m]: replies to m given to producer.Input()
  successes,   \* successes[m]: confirmations of m on producer.Successes()
  \* bounds
  rebalances, crashes

brokerVars == <<committed, replies>>
sessionVars == <<session, claims, position, marked>>
loopVars == <<pc, cur>>
pipeVars == <<processing, outbound, successes>>
bounds == <<rebalances, crashes>>
vars == <<brokerVars, sessionVars, up, held, loopVars, inFlight, complete,
          pipeVars, bounds>>

NoneOf == [m \in Msg |-> 0]
NoOffsets == [p \in Partition |-> 0]

Plus(bag, m) == [bag EXCEPT ![m] = @ + 1]
Minus(bag, m) == [bag EXCEPT ![m] = @ - 1]

Init ==
  /\ committed = [p \in Partition |-> 0]
  /\ replies = {}
  /\ session = "none" /\ claims = {}
  /\ position = NoOffsets /\ marked = NoOffsets
  /\ up = TRUE
  /\ held = {}
  /\ pc = "recv" /\ cur = {}
  /\ inFlight = {} /\ complete = {}
  /\ processing = NoneOf /\ outbound = NoneOf /\ successes = NoneOf
  /\ rebalances = 0 /\ crashes = 0

-----------------------------------------------------------------------------
(***************************************************************************)
(* The consumer group session.                                             *)
(***************************************************************************)

(* Setup: the group gives this member the partitions C and each claim      *)
(* starts at the committed offset.                                         *)
Setup(C) ==
  /\ up /\ session = "none"
  /\ session' = "active"
  /\ claims' = C
  /\ position' = [p \in Partition |-> IF p \in C THEN committed[p] ELSE 0]
  /\ marked' = position'
  /\ UNCHANGED <<brokerVars, up, held, loopVars, inFlight, complete, pipeVars,
                 bounds>>

(* The coordinator starts a rebalance: the session's context is cancelled. *)
Rebalance ==
  /\ up /\ session = "active"
  /\ rebalances < MaxRebalances
  /\ session' = "ending"
  /\ rebalances' = rebalances + 1
  /\ UNCHANGED <<brokerVars, claims, position, marked, up, held, loopVars,
                 inFlight, complete, pipeVars, crashes>>

(* The coordinator stops waiting for this member: it gives the partitions  *)
(* to another one and refuses further commits of this session.             *)
Fence ==
  /\ up /\ session = "ending"
  /\ session' = "fenced"
  /\ UNCHANGED <<brokerVars, claims, position, marked, up, held, loopVars,
                 inFlight, complete, pipeVars, bounds>>

(* The group has given p to this member and has not taken it back.         *)
Owns(p) == p \in claims /\ session \in {"active", "ending"}

(* ConsumeClaim takes the next message off claim.Messages(), which still   *)
(* holds fetched messages while the session is ending.                     *)
ConsumeClaim(m) ==
  /\ up /\ session # "none"
  /\ m.partition \in claims
  /\ m.offset = position[m.partition]
  /\ \A h \in held : h.partition # m.partition
  /\ held' = held \cup {m}
  /\ position' = [position EXCEPT ![m.partition] = @ + 1]
  /\ UNCHANGED <<brokerVars, session, claims, marked, up, loopVars, inFlight,
                 complete, pipeVars, bounds>>

(* Cleanup runs when every ConsumeClaim has returned, none of them blocked *)
(* in its send to h.messages.                                              *)
Cleanup ==
  /\ up /\ session \in {"ending", "fenced"}
  /\ held = {}
  /\ session' = "none" /\ claims' = {}
  /\ position' = NoOffsets /\ marked' = NoOffsets
  /\ UNCHANGED <<brokerVars, up, held, loopVars, inFlight, complete, pipeVars,
                 bounds>>

(* The session's offset manager commits what has been marked.              *)
CommitMarked(p) ==
  /\ up /\ Owns(p)
  /\ marked[p] # committed[p]
  /\ committed' = [committed EXCEPT ![p] = marked[p]]
  /\ UNCHANGED <<replies, sessionVars, up, held, loopVars, inFlight, complete,
                 pipeVars, bounds>>

-----------------------------------------------------------------------------
(***************************************************************************)
(* ConsumerMessagesLoop.                                                   *)
(***************************************************************************)

(* The loop receives from consumer.Messages(), an unbuffered channel.      *)
Receive(m) ==
  /\ up /\ pc = "recv"
  /\ m \in held
  /\ held' = held \ {m}
  /\ pc' = "gate"
  /\ cur' = {m}
  /\ UNCHANGED <<brokerVars, sessionVars, up, inFlight, complete, pipeVars,
                 bounds>>

(* We cannot build up an infinite number of messages in memory. *)
AtCapacity == Cardinality(inFlight) >= MaxInFlight

(* At the limit the loop waits on inFlightCond, releasing the mutex.       *)
WaitForCapacity ==
  /\ up /\ pc = "gate"
  /\ AtCapacity
  /\ pc' = "wait"
  /\ UNCHANGED <<brokerVars, sessionVars, up, held, cur, inFlight, complete,
                 pipeVars, bounds>>

(* Mutant: a redelivered message is not recognised. *)
AddInflightMsg_NoDuplicateCheck(m) ==
  /\ up /\ pc = "gate" /\ m \in cur
  /\ ~AtCapacity
  /\ inFlight' = inFlight \cup {m}
  /\ complete' = complete \ {m}
  /\ pc' = "dispatch"
  /\ UNCHANGED <<brokerVars, sessionVars, up, held, cur, pipeVars, bounds>>

(* addInflightMsg: a redelivered message that is still in flight is        *)
(* dropped, any other one is added, also one that cannot be parsed.        *)
AddInflightMsg(m) ==
  /\ up /\ pc = "gate" /\ m \in cur
  /\ ~AtCapacity
  /\ \/ /\ m \in inFlight
        /\ pc' = "recv" /\ cur' = {}
        /\ UNCHANGED <<inFlight, complete>>
     \/ /\ m \notin inFlight
        /\ inFlight' = inFlight \cup {m}
        /\ complete' = complete \ {m}
        /\ pc' = "dispatch"
        /\ UNCHANGED cur
  /\ UNCHANGED <<brokerVars, sessionVars, up, held, pipeVars, bounds>>

(* Mutant: a message that cannot be parsed is dropped without a reply. *)
Dispatch_NoErrorReply(m) ==
  /\ up /\ pc = "dispatch" /\ m \in cur
  /\ processing' = IF m \in Malformed THEN processing ELSE Plus(processing, m)
  /\ pc' = "recv" /\ cur' = {}
  /\ UNCHANGED <<brokerVars, sessionVars, up, held, inFlight, complete,
                 outbound, successes, bounds>>

(* With the mutex released the context goes to the processor, or gets a    *)
(* generic error reply when addInflightMsg failed.                         *)
Dispatch(m) ==
  /\ up /\ pc = "dispatch" /\ m \in cur
  /\ \/ /\ m \notin Malformed
        /\ processing' = Plus(processing, m)
        /\ UNCHANGED outbound
     \/ /\ m \in Malformed
        /\ outbound' = Plus(outbound, m)
        /\ UNCHANGED processing
  /\ pc' = "recv" /\ cur' = {}
  /\ UNCHANGED <<brokerVars, sessionVars, up, held, inFlight, complete,
                 successes, bounds>>

-----------------------------------------------------------------------------
(***************************************************************************)
(* Replies and their confirmations.                                        *)
(***************************************************************************)

(* The processor calls Reply on a context, from any of its goroutines.     *)
Reply(m) ==
  /\ up /\ processing[m] > 0
  /\ processing' = Minus(processing, m)
  /\ outbound' = Plus(outbound, m)
  /\ UNCHANGED <<brokerVars, sessionVars, up, held, loopVars, inFlight,
                 complete, successes, bounds>>

(* The producer has the reply on the output topic and confirms it.         *)
ProducerAck(m) ==
  /\ up /\ outbound[m] > 0
  /\ outbound' = Minus(outbound, m)
  /\ successes' = Plus(successes, m)
  /\ replies' = replies \cup {m}
  /\ UNCHANGED <<committed, sessionVars, up, held, loopVars, inFlight,
                 complete, processing, bounds>>

(* Mutants: every complete context is acknowledged; the first incomplete   *)
(* one is acknowledged too.                                                *)
ReadyToAck_AnyComplete(p, done) == {x \in inFlight : x.partition = p /\ x \in done}
ReadyToAck_OneTooMany(p, done) ==
  {x \in inFlight :
     /\ x.partition = p
     /\ \A y \in inFlight : y.partition = p /\ y.offset < x.offset => y \in done}

(* setInFlightComplete: the contexts of p that are complete and have no    *)
(* incomplete one before them, when those in done are complete.            *)
ReadyToAck(p, done) ==
  {x \in inFlight :
     /\ x.partition = p
     /\ \A y \in inFlight : y.partition = p /\ y.offset <= x.offset => y \in done}

(* MarkOffset has no effect without a session, on a partition the session  *)
(* does not own, or when the mark would go backwards.                      *)
MarkOffset(h) ==
  IF session # "none" /\ h.partition \in claims /\ h.offset >= marked[h.partition]
    THEN marked' = [marked EXCEPT ![h.partition] = h.offset + 1]
    ELSE UNCHANGED marked

(* Mutants: the lowest context ready, the completed one, or the offset     *)
(* after the highest one is marked instead of the highest.                 *)
SetInFlightComplete_Mark(m, h) ==
  LET done  == complete \cup {m}
      ready == ReadyToAck(m.partition, done)
  IN  /\ inFlight' = inFlight \ ready
      /\ complete' = done \ ready
      /\ IF ready = {} THEN UNCHANGED marked ELSE MarkOffset(h)
SetInFlightComplete_MarkLowest(m) ==
  SetInFlightComplete_Mark(m,
    CHOOSE x \in inFlight : \A y \in inFlight :
      x.partition = m.partition /\ (y.partition = m.partition => x.offset <= y.offset))
SetInFlightComplete_MarkThisOne(m) == SetInFlightComplete_Mark(m, m)
SetInFlightComplete_MarkNext(m) ==
  SetInFlightComplete_Mark(m, [m EXCEPT !.offset = @ + 1])

(* The contexts that became ready leave the map and the highest is marked. *)
SetInFlightComplete(m) ==
  LET done  == complete \cup {m}
      ready == ReadyToAck(m.partition, done)
  IN  /\ inFlight' = inFlight \ ready
      /\ complete' = done \ ready
      /\ \/ ready = {} /\ UNCHANGED marked
         \/ \E h \in ready :
              /\ \A x \in ready : x.offset <= h.offset
              /\ MarkOffset(h)

(* Mutant: the waiting consumer loop is not woken. *)
Broadcast_Missing == UNCHANGED pc

(* inFlightCond.Broadcast() *)
Broadcast == pc' = IF pc = "wait" THEN "gate" ELSE pc

(* A panic takes the process, and with it everything but the broker's      *)
(* state, down.                                                            *)
GoDown ==
  /\ up' = FALSE
  /\ session' = "none" /\ claims' = {}
  /\ position' = NoOffsets /\ marked' = NoOffsets
  /\ held' = {} /\ pc' = "recv" /\ cur' = {}
  /\ inFlight' = {} /\ complete' = {}
  /\ processing' = NoneOf /\ outbound' = NoneOf /\ successes' = NoneOf
  /\ UNCHANGED <<brokerVars, rebalances>>

(* A confirmation completes its context; one of a request that is not in   *)
(* flight is the panic the code calls a logic bug.                         *)
ProducerSuccessLoop(m) ==
  /\ up /\ successes[m] > 0
  /\ IF m \in inFlight
       THEN /\ successes' = Minus(successes, m)
            /\ SetInFlightComplete(m)
            /\ Broadcast
            /\ UNCHANGED <<brokerVars, session, claims, position, up, held, cur,
                           processing, outbound, rebalances>>
       ELSE GoDown
  /\ UNCHANGED crashes

-----------------------------------------------------------------------------
(***************************************************************************)
(* Failure and restart: a failed process is restarted by its container.    *)
(***************************************************************************)

(* ProducerErrorLoop panics when a reply cannot be sent.                   *)
ProducerErrorLoop(m) ==
  /\ up /\ outbound[m] > 0
  /\ crashes < MaxCrashes
  /\ crashes' = crashes + 1
  /\ GoDown

Crash ==
  /\ up
  /\ crashes < MaxCrashes
  /\ crashes' = crashes + 1
  /\ GoDown

Restart ==
  /\ ~up
  /\ up' = TRUE
  /\ UNCHANGED <<brokerVars, sessionVars, held, loopVars, inFlight, complete,
                 pipeVars, bounds>>

(* Another member of the group serves the partitions this one does not     *)
(* own: it answers, then commits, one request after the other.             *)
OtherMemberReply(m) ==
  /\ ~Owns(m.partition)
  /\ m.offset = committed[m.partition]
  /\ replies' = replies \cup {m}
  /\ UNCHANGED <<committed, sessionVars, up, held, loopVars, inFlight,
                 complete, pipeVars, bounds>>

OtherMemberCommit(m) ==
  /\ ~Owns(m.partition)
  /\ m.offset = committed[m.partition]
  /\ m \in replies
  /\ committed' = [committed EXCEPT ![m.partition] = @ + 1]
  /\ UNCHANGED <<replies, sessionVars, up, held, loopVars, inFlight, complete,
                 pipeVars, bounds>>

-----------------------------------------------------------------------------
SessionStep ==
  \/ \E C \in SUBSET Partition : Setup(C)
  \/ Rebalance
  \/ Fence
  \/ Cleanup
  \/ \E m \in Msg : ConsumeClaim(m)
  \/ \E p \in Partition : CommitMarked(p)

LoopStep ==
  \/ \E m \in Msg : Receive(m) \/ AddInflightMsg(m) \/ Dispatch(m)
  \/ WaitForCapacity

ReplyStep ==
  \E m \in Msg : Reply(m) \/ ProducerAck(m) \/ ProducerSuccessLoop(m)

FailureStep ==
  \/ \E m \in Msg : ProducerErrorLoop(m)
  \/ Crash
  \/ Restart

OtherMemberStep ==
  \E m \in Msg : OtherMemberReply(m) \/ OtherMemberCommit(m)

Next == SessionStep \/ LoopStep \/ ReplyStep \/ FailureStep \/ OtherMemberStep

Spec == Init /\ [][Next]_vars

(***************************************************************************)
(* Every goroutine keeps running, the processor answers what it was given, *)
(* Kafka confirms what was sent, re-forms the group and keeps committing,  *)
(* and the process is restarted.  No fairness on rebalances and failures.  *)
(***************************************************************************)
Fairness ==
  /\ WF_vars(\E C \in SUBSET Partition : Setup(C))
  /\ WF_vars(Cleanup)
  /\ WF_vars(Restart)
  /\ WF_vars(WaitForCapacity)
  /\ \A p \in Partition : WF_vars(CommitMarked(p))
  /\ \A m \in Msg :
       /\ WF_vars(ConsumeClaim(m))
       /\ WF_vars(Receive(m))
       /\ WF_vars(AddInflightMsg(m))
       /\ WF_vars(Dispatch(m))
       /\ WF_vars(Reply(m))
       /\ WF_vars(ProducerAck(m))
       /\ WF_vars(ProducerSuccessLoop(m))
       /\ WF_vars(OtherMemberReply(m))
       /\ WF_vars(OtherMemberCommit(m))

FairSpec == Spec /\ Fairness

-----------------------------------------------------------------------------
TypeOK ==
  /\ committed \in [Partition -> 0 .. LogEnd]
  /\ replies \subseteq Msg
  /\ session \in {"none", "active", "ending", "fenced"}
  /\ claims \subseteq Partition
  /\ position \in [Partition -> 0 .. LogEnd]
  /\ marked \in [Partition -> 0 .. LogEnd]
  /\ up \in BOOLEAN
  /\ held \subseteq Msg
  /\ pc \in {"recv", "gate", "wait", "dispatch"}
  /\ cur \subseteq Msg
  /\ inFlight \subseteq Msg
  /\ complete \subseteq Msg
  /\ processing \in [Msg -> Nat]
  /\ outbound \in [Msg -> Nat]
  /\ successes \in [Msg -> Nat]
  /\ rebalances \in 0 .. MaxRebalances
  /\ crashes \in 0 .. MaxCrashes

(* A request that the group will not read again, or that this session will *)
(* stop reading again at its next commit, has its reply on the output      *)
(* topic, whatever order replies are confirmed in and whatever session     *)
(* they belong to (setInFlightComplete: "works out if we can move the      *)
(* offset forwards").                                                      *)
NoRequestLost ==
  \A m \in Msg :
    \/ m.offset < committed[m.partition]
    \/ m.partition \in claims /\ m.offset < marked[m.partition]
    => m \in replies

(* A confirmation always finds its context in flight: the panic that       *)
(* "should never happen" in ProducerSuccessLoop cannot, in spite of        *)
(* redelivery, because a message in flight is never dispatched again.      *)
ConfirmKnown == \A m \in Msg : successes[m] > 0 => m \in inFlight

(* The loop never holds more than MaxInFlight messages in memory, those    *)
(* that are complete and wait for an earlier offset included.              *)
InFlightBounded == Cardinality(inFlight) <= MaxInFlight

(* What the session has delivered and not marked is still on its way: in   *)
(* ConsumeClaim's or the loop's hands or in flight.  Otherwise nothing     *)
(* would move the offset past it before the next rebalance.                *)
NothingStranded ==
  \A m \in Msg :
    /\ m.partition \in claims
    /\ marked[m.partition] <= m.offset /\ m.offset < position[m.partition]
    => m \in held \cup cur \cup inFlight

(* No wake-up of the consumer loop is lost: it only sleeps while the       *)
(* in-flight map is full.                                                  *)
NoLostWakeup == pc = "wait" => Cardinality(inFlight) >= MaxInFlight

Abstract ==
  INSTANCE AtLeastOnce WITH Partition <- Partition, LogEnd <- LogEnd,
                            committed <- committed, replies <- replies

(* The bridge implements the at-least-once contract: no offset is          *)
(* committed before everything below it has been answered, in any step of  *)
(* any goroutine, the broker or another member.                            *)
ImplementsAtLeastOnce == Abstract!Spec

(* Every request on the topic is answered, and the group's offset reaches  *)
(* the end of the log and stays there, once rebalances and crashes cease.  *)
EveryRequestAnswered == \A m \in Msg : <>(m \in replies)
OffsetsReachEnd == <>[](\A p \in Partition : committed[p] = LogEnd)

(* A rebalance is never blocked for good by a ConsumeClaim that cannot     *)
(* hand over its message because the loop is at its limit.                 *)
RebalanceCompletes == session \in {"ending", "fenced"} ~> session = "none"

-----------------------------------------------------------------------------
(***************************************************************************)
(* The inductive strengthening of the safety properties.                   *)
(***************************************************************************)

(* A context in flight is in exactly one place on its way to a             *)
(* confirmation, and nothing else is on that way.                          *)
OnItsWay(m) == (IF pc = "dispatch" /\ m \in cur THEN 1 ELSE 0)
               + processing[m] + outbound[m] + successes[m]

Pipeline ==
  /\ \A m \in Msg : OnItsWay(m) = IF m \in inFlight \ complete THEN 1 ELSE 0
  /\ complete \subseteq inFlight \cap replies
  /\ \A m \in Msg : successes[m] > 0 => m \in replies
  /\ \A a, b \in cur : a = b
  /\ pc = "recv" => cur = {}

(* The message the loop has received and not yet added.                    *)
Arriving == IF pc \in {"gate", "wait"} THEN cur ELSE {}

Settled(m) == m \in replies \cup inFlight

Before(x, m) == x.partition = m.partition /\ x.offset < m.offset

(* Whatever precedes a message the bridge knows of is answered or known of *)
(* too, one stage further down the pipeline or at the same one.            *)
Ordered ==
  /\ \A m \in inFlight \cup Arriving, x \in Msg : Before(x, m) => Settled(x)
  /\ \A m \in held, x \in Msg : Before(x, m) => Settled(x) \/ x \in Arriving
  /\ \A x \in Msg :
       x.partition \in claims /\ x.offset < position[x.partition]
         => Settled(x) \/ x \in Arriving \cup held
  /\ \A m \in held : m.partition \in claims
  /\ \A a, b \in held : a.partition = b.partition => a = b
  /\ session = "none" => claims = {}

Capacity == IsFiniteSet(inFlight) /\ InFlightBounded /\ NoLostWakeup

IInv == TypeOK /\ Pipeline /\ Ordered /\ NoRequestLost /\ NothingStranded /\ Capacity

=============================================================================
