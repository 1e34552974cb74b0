------------------------- MODULE KafkaBridge_proofs -------------------------
(***************************************************************************)
(* Proofs about KafkaBridge for every set of partitions, log length,       *)
(* in-flight limit and number of rebalances and failures.                  *)
(***************************************************************************)
EXTENDS KafkaBridge, FiniteSetTheorems, TLAPS

USE BridgeAssumption

LEMMA MsgType ==
  /\ \A m \in Msg : m.partition \in Partition /\ m.offset \in Nat
                    /\ m.offset + 1 \in 0 .. LogEnd /\ m.offset < LogEnd
  /\ NoneOf \in [Msg -> Nat]
  /\ NoOffsets \in [Partition -> 0 .. LogEnd]
BY DEF Msg, NoneOf, NoOffsets

LEMMA BagTypes ==
  ASSUME NEW bag \in [Msg -> Nat], NEW m \in Msg
  PROVE  /\ Plus(bag, m) \in [Msg -> Nat]
         /\ bag[m] > 0 => Minus(bag, m) \in [Msg -> Nat]
BY DEF Plus, Minus

(***************************************************************************)
(* Type correctness.                                                       *)
(***************************************************************************)
LEMMA GoDownType == TypeOK /\ GoDown /\ crashes' \in 0 .. MaxCrashes => TypeOK'
BY MsgType DEF GoDown, TypeOK, brokerVars

LEMMA SetCompleteType ==
  ASSUME TypeOK, NEW m \in Msg, SetInFlightComplete(m)
  PROVE  /\ inFlight' \subseteq Msg /\ complete' \subseteq Msg
         /\ marked' \in [Partition -> 0 .. LogEnd]
<1>1. \/ UNCHANGED marked
      \/ \E h \in Msg : MarkOffset(h)
  BY DEF SetInFlightComplete, ReadyToAck, TypeOK
<1>2. marked' \in [Partition -> 0 .. LogEnd]
  BY <1>1, MsgType DEF MarkOffset, TypeOK
<1> QED BY <1>2 DEF SetInFlightComplete, TypeOK

LEMMA TypeStep == TypeOK /\ [Next]_vars => TypeOK'
<1> SUFFICES ASSUME TypeOK, [Next]_vars PROVE TypeOK'
  OBVIOUS
<1> USE DEF TypeOK
<1>1. ASSUME NEW C \in SUBSET Partition, Setup(C) PROVE TypeOK'
  BY <1>1 DEF Setup, brokerVars, loopVars, pipeVars, bounds
<1>2. CASE Rebalance
  BY <1>2 DEF Rebalance, brokerVars, loopVars, pipeVars
<1>3. CASE Fence
  BY <1>3 DEF Fence, brokerVars, loopVars, pipeVars, bounds
<1>4. CASE Cleanup
  BY <1>4, MsgType DEF Cleanup, brokerVars, loopVars, pipeVars, bounds
<1>5. ASSUME NEW m \in Msg, ConsumeClaim(m) PROVE TypeOK'
  BY <1>5, MsgType DEF ConsumeClaim, brokerVars, loopVars, pipeVars, bounds
<1>6. ASSUME NEW p \in Partition, CommitMarked(p) PROVE TypeOK'
  BY <1>6 DEF CommitMarked, sessionVars, loopVars, pipeVars, bounds
<1>7. ASSUME NEW m \in Msg, Receive(m) PROVE TypeOK'
  BY <1>7 DEF Receive, brokerVars, sessionVars, pipeVars, bounds
<1>8. ASSUME NEW m \in Msg, AddInflightMsg(m) PROVE TypeOK'
  BY <1>8 DEF AddInflightMsg, brokerVars, sessionVars, pipeVars, bounds
<1>9. ASSUME NEW m \in Msg, Dispatch(m) PROVE TypeOK'
  BY <1>9, BagTypes DEF Dispatch, brokerVars, sessionVars, bounds
<1>10. CASE WaitForCapacity
  BY <1>10 DEF WaitForCapacity, brokerVars, sessionVars, pipeVars, bounds
<1>11. ASSUME NEW m \in Msg, Reply(m) PROVE TypeOK'
  BY <1>11, BagTypes DEF Reply, brokerVars, sessionVars, loopVars, bounds
<1>12. ASSUME NEW m \in Msg, ProducerAck(m) PROVE TypeOK'
  BY <1>12, BagTypes DEF ProducerAck, sessionVars, loopVars, bounds
<1>13. ASSUME NEW m \in Msg, ProducerSuccessLoop(m) PROVE TypeOK'
  <2>1. CASE m \in inFlight
    BY <1>13, <2>1, BagTypes, SetCompleteType
    DEF ProducerSuccessLoop, Broadcast, brokerVars
  <2>2. CASE m \notin inFlight
    BY <1>13, <2>2, GoDownType DEF ProducerSuccessLoop
  <2> QED BY <2>1, <2>2
<1>14. ASSUME NEW m \in Msg, ProducerErrorLoop(m) PROVE TypeOK'
  BY <1>14, GoDownType DEF ProducerErrorLoop
<1>15. CASE Crash
  BY <1>15, GoDownType DEF Crash
<1>16. CASE Restart
  BY <1>16 DEF Restart, brokerVars, sessionVars, loopVars, pipeVars, bounds
<1>17. ASSUME NEW m \in Msg, OtherMemberReply(m) PROVE TypeOK'
  BY <1>17 DEF OtherMemberReply, sessionVars, loopVars, pipeVars, bounds
<1>18. ASSUME NEW m \in Msg, OtherMemberCommit(m) PROVE TypeOK'
  BY <1>18, MsgType DEF OtherMemberCommit, sessionVars, loopVars, pipeVars, bounds
<1>19. CASE UNCHANGED vars
  BY <1>19 DEF vars, brokerVars, sessionVars, loopVars, pipeVars, bounds
<1> QED
  BY <1>1, <1>2, <1>3, <1>4, <1>5, <1>6, <1>7, <1>8, <1>9, <1>10, <1>11, <1>12,
     <1>13, <1>14, <1>15, <1>16, <1>17, <1>18, <1>19
  DEF Next, SessionStep, LoopStep, ReplyStep, FailureStep, OtherMemberStep

(* Every variable of the bridge keeps its type: committed and marked       *)
(* offsets never leave the log, and no count of replies goes negative.     *)
THEOREM TypeCorrect == Spec => []TypeOK
<1>1. Init => TypeOK
  BY MsgType DEF Init, TypeOK
<1> QED BY <1>1, TypeStep, PTL DEF Spec

-----------------------------------------------------------------------------
(***************************************************************************)
(* Every action, as a case of the next-state relation.  The step lemmas    *)
(* below have one leaf for each that disturbs what they prove.             *)
(***************************************************************************)
LEMMA StepCases ==
  ASSUME [Next]_vars
  PROVE  \/ \E C \in SUBSET Partition : Setup(C)
         \/ \E m \in Msg : ConsumeClaim(m)
         \/ \E p \in Partition : CommitMarked(p)
         \/ Rebalance \/ Fence \/ Cleanup \/ Restart \/ Crash
         \/ WaitForCapacity
         \/ \E m \in Msg : Receive(m)
         \/ \E m \in Msg : AddInflightMsg(m)
         \/ \E m \in Msg : Dispatch(m)
         \/ \E m \in Msg : Reply(m)
         \/ \E m \in Msg : ProducerAck(m)
         \/ \E m \in Msg : ProducerSuccessLoop(m)
         \/ \E m \in Msg : ProducerErrorLoop(m)
         \/ \E m \in Msg : OtherMemberReply(m)
         \/ \E m \in Msg : OtherMemberCommit(m)
         \/ UNCHANGED vars
BY DEF Next, SessionStep, LoopStep, ReplyStep, FailureStep, OtherMemberStep

(* Who acts on the pipeline: the loop, the processor, the producer.        *)
LEMMA PipelineFrame ==
  ASSUME [Next]_vars
  PROVE  \/ \E m \in Msg : \/ Receive(m) \/ AddInflightMsg(m) \/ Dispatch(m)
                          \/ Reply(m) \/ ProducerAck(m)
                          \/ (m \in inFlight /\ ProducerSuccessLoop(m))
         \/ GoDown
         \/ UNCHANGED <<cur, inFlight, complete, processing, outbound, successes>>
            /\ replies \subseteq replies'
            /\ (pc' = pc \/ (pc = "gate" /\ pc' = "wait"))
<1> USE DEF brokerVars, sessionVars, loopVars, pipeVars, bounds
<1>1. CASE \/ \E C \in SUBSET Partition : Setup(C)
           \/ \E m \in Msg : ConsumeClaim(m)
           \/ \E p \in Partition : CommitMarked(p)
  BY <1>1 DEF Setup, ConsumeClaim, CommitMarked
<1>2. CASE Rebalance \/ Fence \/ Cleanup \/ Restart \/ WaitForCapacity
  BY <1>2 DEF Rebalance, Fence, Cleanup, Restart, WaitForCapacity
<1>3. CASE \E m \in Msg : OtherMemberReply(m) \/ OtherMemberCommit(m)
  BY <1>3 DEF OtherMemberReply, OtherMemberCommit
<1>4. CASE Crash \/ \E m \in Msg : ProducerErrorLoop(m)
  BY <1>4 DEF Crash, ProducerErrorLoop
<1>5. CASE \E m \in Msg : ProducerSuccessLoop(m)
  BY <1>5 DEF ProducerSuccessLoop
<1>6. CASE UNCHANGED vars
  BY <1>6 DEF vars
<1> QED
  BY <1>1, <1>2, <1>3, <1>4, <1>5, <1>6, StepCases

LEMMA PipelineStep ==
  ASSUME TypeOK, TypeOK', Pipeline, [Next]_vars
  PROVE  Pipeline'
<1> USE DEF TypeOK, Pipeline, OnItsWay, brokerVars, sessionVars, loopVars,
            pipeVars, bounds
<1>1. ASSUME NEW n \in Msg, Receive(n) PROVE Pipeline'
  BY <1>1 DEF Receive
<1>2. ASSUME NEW n \in Msg, AddInflightMsg(n) PROVE Pipeline'
  <2>1. cur = {n} /\ pc = "gate"
    BY <1>2 DEF AddInflightMsg
  <2>2. CASE n \in inFlight
    BY <1>2, <2>1, <2>2 DEF AddInflightMsg
  <2>3. CASE n \notin inFlight
    <3>1. \A m \in Msg : OnItsWay(m)' = IF m \in (inFlight \ complete)' THEN 1 ELSE 0
      BY <1>2, <2>1, <2>3 DEF AddInflightMsg
    <3> QED BY <1>2, <2>1, <2>3, <3>1 DEF AddInflightMsg
  <2> QED BY <2>2, <2>3
<1>3. ASSUME NEW n \in Msg, Dispatch(n) PROVE Pipeline'
  <2>1. cur = {n} /\ pc = "dispatch"
    BY <1>3 DEF Dispatch
  <2> QED BY <1>3, <2>1 DEF Dispatch, Plus
<1>4. ASSUME NEW n \in Msg, Reply(n) PROVE Pipeline'
  BY <1>4 DEF Reply, Plus, Minus
<1>5. ASSUME NEW n \in Msg, ProducerAck(n) PROVE Pipeline'
  BY <1>5 DEF ProducerAck, Plus, Minus
<1>6. ASSUME NEW n \in inFlight, ProducerSuccessLoop(n) PROVE Pipeline'
  <2> DEFINE done == complete \cup {n}
             ready == ReadyToAck(n.partition, done)
  <2>1. /\ inFlight' = inFlight \ ready /\ complete' = done \ ready
        /\ successes' = Minus(successes, n) /\ successes[n] > 0
        /\ UNCHANGED <<cur, processing, outbound, replies>>
        /\ pc' = IF pc = "wait" THEN "gate" ELSE pc
    BY <1>6 DEF ProducerSuccessLoop, SetInFlightComplete, Broadcast
  <2>2. ready \subseteq done
    BY MsgType DEF ReadyToAck
  <2>3. n \in Msg
    OBVIOUS
  <2> HIDE DEF ready
  <2>4. \A m \in Msg : m \in inFlight' \ complete' <=> m \in inFlight \ complete /\ m # n
    BY <2>1, <2>2
  <2>5. \A m \in Msg : OnItsWay(m)' = IF m \in (inFlight \ complete)' THEN 1 ELSE 0
    BY <2>1, <2>3, <2>4 DEF Minus
  <2> QED BY <2>1, <2>2, <2>3, <2>5 DEF Minus
<1>7. CASE GoDown
  BY <1>7, MsgType DEF GoDown, NoneOf
<1>8. CASE /\ UNCHANGED <<cur, inFlight, complete, processing, outbound, successes>>
           /\ replies \subseteq replies'
           /\ (pc' = pc \/ (pc = "gate" /\ pc' = "wait"))
  BY <1>8
<1> QED
  BY <1>1, <1>2, <1>3, <1>4, <1>5, <1>6, <1>7, <1>8, PipelineFrame

(***************************************************************************)
(* Order and offsets.                                                      *)
(***************************************************************************)

(* What setInFlightComplete takes out of the map has been answered.        *)
LEMMA ReadyAnswered ==
  ASSUME TypeOK, Pipeline, NEW n \in inFlight, successes[n] > 0,
         NEW x \in ReadyToAck(n.partition, complete \cup {n})
  PROVE  x \in Msg /\ x \in replies
BY MsgType DEF TypeOK, Pipeline, ReadyToAck

(* Settled never becomes false but by a failure.                           *)
LEMMA SettledStable ==
  ASSUME TypeOK, Pipeline, [Next]_vars, ~GoDown, NEW x \in Msg, Settled(x)
  PROVE  Settled(x)'
<1> USE DEF Settled, brokerVars, sessionVars, loopVars, pipeVars, bounds
<1>1. CASE replies \subseteq replies' /\ inFlight \subseteq inFlight'
  BY <1>1
<1>2. ASSUME NEW m \in inFlight, ProducerSuccessLoop(m) PROVE Settled(x)'
  BY <1>2, ReadyAnswered DEF ProducerSuccessLoop, SetInFlightComplete
<1>3. ASSUME NEW m \in Msg,
             \/ Receive(m) \/ AddInflightMsg(m) \/ Dispatch(m)
             \/ Reply(m) \/ ProducerAck(m)
      PROVE replies \subseteq replies' /\ inFlight \subseteq inFlight'
  BY <1>3 DEF Receive, AddInflightMsg, Dispatch, Reply, ProducerAck
<1> QED BY <1>1, <1>2, <1>3, PipelineFrame

LEMMA GoDownOrdered == GoDown => Ordered'
BY DEF GoDown, Ordered, Arriving

LEMMA OrderedStep ==
  ASSUME TypeOK, TypeOK', Pipeline, Pipeline', Ordered, NoRequestLost, [Next]_vars
  PROVE  Ordered'
<1>1. CASE GoDown
  BY <1>1, GoDownOrdered
<1> SUFFICES ASSUME ~GoDown PROVE Ordered'
  BY <1>1
<1>2. \A x \in Msg : Settled(x) => Settled(x)'
  BY SettledStable
<1> USE DEF Ordered, Arriving, Before, brokerVars, sessionVars, loopVars,
            pipeVars, bounds
<1>3. ASSUME NEW C \in SUBSET Partition, Setup(C) PROVE Ordered'
  <2>1. held = {} /\ UNCHANGED <<held, pc, cur, inFlight, replies>>
    BY <1>3 DEF Setup
  <2> QED BY <1>3, <2>1 DEF Setup, TypeOK, NoRequestLost, Settled
<1>4. ASSUME NEW m \in Msg, ConsumeClaim(m) PROVE Ordered'
  <2>1. /\ m.partition \in claims /\ m.offset = position[m.partition]
        /\ \A h \in held : h.partition # m.partition
        /\ held' = held \cup {m} /\ m.partition \in Partition
        /\ UNCHANGED <<claims, session, pc, cur, inFlight, replies>>
    BY <1>4, MsgType DEF ConsumeClaim
  <2>2. \A x \in Msg : x.partition = m.partition =>
          (x.offset < position'[x.partition] <=> x.offset < m.offset \/ x = m)
    <3>1. position'[m.partition] = m.offset + 1
      BY <1>4, <2>1 DEF ConsumeClaim, TypeOK
    <3>2. \A x \in Msg : x.partition = m.partition /\ x.offset = m.offset => x = m
      BY DEF Msg
    <3> QED BY <3>1, <3>2, MsgType
  <2>3. \A x \in Msg : x.partition # m.partition =>
          position'[x.partition] = position[x.partition]
    BY <1>4, MsgType DEF ConsumeClaim, TypeOK
  <2>4. UNCHANGED Arriving /\ \A x \in Msg : Settled(x)' <=> Settled(x)
    BY <2>1 DEF Settled
  <2> HIDE DEF Arriving, Settled
  <2>5. \A x \in Msg : Before(x, m) => Settled(x) \/ x \in Arriving
    BY <2>1
  <2>6. \A x \in Msg : x.partition \in claims' /\ x.offset < position'[x.partition]
          => Settled(x)' \/ x \in (Arriving \cup held)'
    BY <2>1, <2>2, <2>3, <2>4
  <2> QED BY <2>1, <2>4, <2>5, <2>6
<1>5. ASSUME NEW p \in Partition, CommitMarked(p) PROVE Ordered'
  BY <1>5 DEF CommitMarked, Settled
<1>6. CASE Rebalance \/ Fence \/ Restart \/ UNCHANGED vars
  BY <1>6 DEF Rebalance, Fence, Restart, vars, Settled
<1>7. CASE Cleanup
  BY <1>7 DEF Cleanup, Settled
<1>8. CASE WaitForCapacity
  BY <1>8 DEF WaitForCapacity, Settled
<1>9. ASSUME NEW m \in Msg, Receive(m) PROVE Ordered'
  <2>1. /\ Arriving = {} /\ Arriving' = {m} /\ m \in held /\ held' = held \ {m}
        /\ UNCHANGED <<inFlight, replies, claims, position, session>>
    BY <1>9 DEF Receive
  <2> HIDE DEF Arriving
  <2> QED BY <2>1 DEF Settled
<1>10. ASSUME NEW m \in Msg, AddInflightMsg(m) PROVE Ordered'
  <2>1. /\ Arriving = {m} /\ Arriving' = {} /\ inFlight' = inFlight \cup {m}
        /\ UNCHANGED <<held, replies, claims, position, session>>
    BY <1>10 DEF AddInflightMsg, Pipeline
  <2> HIDE DEF Arriving
  <2> QED BY <2>1 DEF Settled
<1>11. ASSUME NEW m \in Msg, Dispatch(m) PROVE Ordered'
  BY <1>11 DEF Dispatch, Settled
<1>12. ASSUME NEW m \in Msg, Reply(m) PROVE Ordered'
  BY <1>12 DEF Reply, Settled
<1>13. ASSUME NEW m \in Msg, ProducerAck(m) PROVE Ordered'
  BY <1>2, <1>13 DEF ProducerAck
<1>14. ASSUME NEW n \in inFlight, ProducerSuccessLoop(n) PROVE Ordered'
  <2>1. /\ inFlight' \subseteq inFlight /\ Arriving' = Arriving
        /\ UNCHANGED <<held, claims, position, session>>
    BY <1>14 DEF ProducerSuccessLoop, SetInFlightComplete, Broadcast, TypeOK
  <2> HIDE DEF Arriving
  <2> QED BY <1>2, <2>1
<1>15. ASSUME NEW m \in Msg, OtherMemberReply(m) \/ OtherMemberCommit(m)
       PROVE Ordered'
  <2>1. UNCHANGED <<held, claims, position, session, inFlight, pc, cur>>
    BY <1>15 DEF OtherMemberReply, OtherMemberCommit
  <2> QED BY <1>2, <2>1
<1>16. ASSUME NEW m \in Msg, ProducerSuccessLoop(m), m \notin inFlight PROVE GoDown
  BY <1>16 DEF ProducerSuccessLoop
<1>17. CASE Crash \/ \E m \in Msg : ProducerErrorLoop(m)
  BY <1>17 DEF Crash, ProducerErrorLoop
<1> QED
  BY <1>3, <1>4, <1>5, <1>6, <1>7, <1>8, <1>9, <1>10, <1>11, <1>12, <1>13,
     <1>14, <1>15, <1>16, <1>17, StepCases

(* Everything at or below the context setInFlightComplete marks is         *)
(* answered: the heart of the argument that no request is lost.            *)
LEMMA MarkedAnswered ==
  ASSUME TypeOK, Pipeline, Ordered, NEW n \in inFlight, successes[n] > 0,
         NEW h \in ReadyToAck(n.partition, complete \cup {n}),
         NEW x \in Msg, x.partition = n.partition, x.offset < h.offset + 1
  PROVE  x \in replies
<1>1. h \in inFlight /\ h \in Msg /\ h.partition = n.partition
  BY DEF ReadyToAck, TypeOK
<1>2. x.offset < h.offset \/ x.offset = h.offset
  BY <1>1, MsgType
<1>3. CASE x.offset < h.offset
  <2>1. x \in replies \cup inFlight
    BY <1>1, <1>3 DEF Ordered, Before, Settled
  <2>2. CASE x \in inFlight
    BY <1>1, <1>3, <2>2, MsgType DEF ReadyToAck, TypeOK, Pipeline
  <2> QED BY <2>1, <2>2
<1>4. CASE x.offset = h.offset
  <2>1. x = h
    BY <1>1, <1>4 DEF Msg
  <2> QED BY <2>1, ReadyAnswered
<1> QED BY <1>2, <1>3, <1>4

LEMMA NoRequestLostStep ==
  ASSUME TypeOK, TypeOK', Pipeline, Ordered, NoRequestLost, [Next]_vars
  PROVE  NoRequestLost'
<1> USE DEF NoRequestLost, brokerVars, sessionVars, loopVars, pipeVars, bounds
<1>1. CASE GoDown
  BY <1>1 DEF GoDown
<1>2. ASSUME NEW C \in SUBSET Partition, Setup(C) PROVE NoRequestLost'
  BY <1>2 DEF Setup, TypeOK
<1>3. ASSUME NEW p \in Partition, CommitMarked(p) PROVE NoRequestLost'
  BY <1>3, MsgType DEF CommitMarked, Owns, TypeOK
<1>4. CASE \/ Rebalance \/ Fence \/ Restart \/ WaitForCapacity \/ Cleanup
           \/ UNCHANGED vars
  BY <1>4 DEF Rebalance, Fence, Restart, WaitForCapacity, Cleanup, vars
<1>5. ASSUME NEW m \in Msg,
             \/ ConsumeClaim(m) \/ Receive(m) \/ AddInflightMsg(m)
             \/ Dispatch(m) \/ Reply(m) \/ ProducerAck(m) \/ OtherMemberReply(m)
      PROVE NoRequestLost'
  BY <1>5 DEF ConsumeClaim, Receive, AddInflightMsg, Dispatch, Reply,
              ProducerAck, OtherMemberReply
<1>6. ASSUME NEW n \in inFlight, ProducerSuccessLoop(n) PROVE NoRequestLost'
  <2>1. /\ UNCHANGED <<replies, committed, claims>> /\ successes[n] > 0
        /\ SetInFlightComplete(n)
    BY <1>6 DEF ProducerSuccessLoop
  <2>2. CASE UNCHANGED marked
    BY <2>1, <2>2
  <2>3. ASSUME NEW h \in ReadyToAck(n.partition, complete \cup {n}), MarkOffset(h),
               marked' # marked
        PROVE NoRequestLost'
    <3>1. h.partition = n.partition /\ h \in Msg
      BY DEF ReadyToAck, TypeOK
    <3>2. marked' = [marked EXCEPT ![n.partition] = h.offset + 1]
      BY <2>3, <3>1 DEF MarkOffset
    <3>3. \A x \in Msg : x.partition = n.partition /\ x.offset < h.offset + 1
                           => x \in replies
      BY <2>1, MarkedAnswered
    <3> QED BY <2>1, <3>1, <3>2, <3>3, MsgType DEF TypeOK
  <2> QED BY <2>1, <2>2, <2>3 DEF SetInFlightComplete
<1>7. ASSUME NEW m \in Msg, OtherMemberCommit(m) PROVE NoRequestLost'
  <2>1. \A x \in Msg : x.partition = m.partition /\ x.offset = m.offset => x = m
    BY DEF Msg
  <2>2. /\ m \in replies /\ m.offset = committed[m.partition]
        /\ UNCHANGED <<replies, claims, marked>>
        /\ committed' = [committed EXCEPT ![m.partition] = @ + 1]
    BY <1>7 DEF OtherMemberCommit
  <2>3. ASSUME NEW x \in Msg, x.offset < committed'[x.partition] PROVE x \in replies
    <3>1. CASE x.partition = m.partition
      <4>1. x.offset < m.offset + 1
        BY <2>2, <2>3, <3>1, MsgType DEF TypeOK
      <4>2. x.offset < m.offset \/ x.offset = m.offset
        BY <4>1, MsgType
      <4> QED BY <2>1, <2>2, <3>1, <4>2
    <3>2. CASE x.partition # m.partition
      BY <2>2, <2>3, <3>2, MsgType DEF TypeOK
    <3> QED BY <3>1, <3>2
  <2> QED BY <2>2, <2>3
<1>8. ASSUME NEW m \in Msg, ProducerSuccessLoop(m), m \notin inFlight PROVE GoDown
  BY <1>8 DEF ProducerSuccessLoop
<1>9. CASE Crash \/ \E m \in Msg : ProducerErrorLoop(m)
  BY <1>1, <1>9 DEF Crash, ProducerErrorLoop
<1> QED
  BY <1>1, <1>2, <1>3, <1>4, <1>5, <1>6, <1>7, <1>8, <1>9, StepCases

LEMMA NothingStrandedStep ==
  ASSUME TypeOK, Pipeline, Ordered, NothingStranded, [Next]_vars
  PROVE  NothingStranded'
<1> USE DEF NothingStranded, brokerVars, sessionVars, loopVars, pipeVars, bounds
<1>1. CASE GoDown
  BY <1>1 DEF GoDown
<1>2. ASSUME NEW C \in SUBSET Partition, Setup(C) PROVE NothingStranded'
  BY <1>2, MsgType DEF Setup, TypeOK
<1>3. ASSUME NEW m \in Msg, ConsumeClaim(m) PROVE NothingStranded'
  <2>1. \A x \in Msg : x.partition = m.partition /\ x.offset = m.offset => x = m
    BY DEF Msg
  <2>2. /\ held' = held \cup {m} /\ m.offset = position[m.partition]
        /\ UNCHANGED <<claims, marked, cur, inFlight>>
        /\ position' = [position EXCEPT ![m.partition] = @ + 1]
    BY <1>3 DEF ConsumeClaim
  <2>3. ASSUME NEW x \in Msg, x.offset < position'[x.partition]
        PROVE x.offset < position[x.partition] \/ x = m
    <3>1. CASE x.partition = m.partition
      <4>1. x.offset < m.offset + 1
        BY <2>2, <2>3, <3>1, MsgType DEF TypeOK
      <4>2. x.offset < m.offset \/ x.offset = m.offset
        BY <4>1, MsgType
      <4> QED BY <2>1, <2>2, <3>1, <4>2
    <3>2. CASE x.partition # m.partition
      BY <2>2, <2>3, <3>2, MsgType DEF TypeOK
    <3> QED BY <3>1, <3>2
  <2> QED BY <2>2, <2>3
<1>4. CASE \/ Rebalance \/ Fence \/ Restart \/ WaitForCapacity \/ Cleanup
           \/ UNCHANGED vars
  BY <1>4 DEF Rebalance, Fence, Restart, WaitForCapacity, Cleanup, vars
<1>5. ASSUME NEW p \in Partition, CommitMarked(p) PROVE NothingStranded'
  BY <1>5 DEF CommitMarked
<1>6. ASSUME NEW m \in Msg,
             \/ Reply(m) \/ ProducerAck(m) \/ OtherMemberReply(m)
             \/ OtherMemberCommit(m)
      PROVE NothingStranded'
  BY <1>6 DEF Reply, ProducerAck, OtherMemberReply, OtherMemberCommit
<1>7. ASSUME NEW m \in Msg, Receive(m) PROVE NothingStranded'
  BY <1>7 DEF Receive, Pipeline
<1>8. ASSUME NEW m \in Msg, AddInflightMsg(m) PROVE NothingStranded'
  BY <1>8 DEF AddInflightMsg, Pipeline
<1>9. ASSUME NEW m \in Msg, Dispatch(m) PROVE NothingStranded'
  <2>1. OnItsWay(m) > 0 /\ OnItsWay(m) \in Nat
    BY <1>9 DEF Dispatch, OnItsWay, TypeOK
  <2>2. cur = {m} /\ m \in inFlight
    BY <1>9, <2>1 DEF Dispatch, Pipeline
  <2> QED BY <1>9, <2>2 DEF Dispatch
<1>10. ASSUME NEW n \in inFlight, ProducerSuccessLoop(n) PROVE NothingStranded'
  <2> DEFINE ready == ReadyToAck(n.partition, complete \cup {n})
  <2>1. /\ inFlight' = inFlight \ ready
        /\ UNCHANGED <<claims, position, held, cur, session>>
        /\ \/ ready = {} /\ UNCHANGED marked
           \/ \E h \in ready : (\A x \in ready : x.offset <= h.offset) /\ MarkOffset(h)
    BY <1>10 DEF ProducerSuccessLoop, SetInFlightComplete
  <2>2. \A x \in ready : x \in Msg /\ x.partition = n.partition
    BY DEF ReadyToAck, TypeOK
  <2> HIDE DEF ready
  <2>3. CASE ready = {} /\ UNCHANGED marked
    BY <2>1, <2>3
  <2>4. ASSUME NEW h \in ready, \A x \in ready : x.offset <= h.offset, MarkOffset(h)
        PROVE NothingStranded'
    <3>1. CASE n.partition \notin claims
      <4>1. marked' = marked
        BY <2>2, <2>4, <3>1 DEF MarkOffset
      <4> QED BY <2>1, <2>2, <3>1, <4>1
    <3>2. CASE n.partition \in claims
      <4>1. /\ marked'[n.partition] > h.offset
            /\ marked'[n.partition] \in Nat
            /\ \A p \in Partition : marked'[p] >= marked[p] /\ marked'[p] \in Nat
        BY <2>2, <2>4, <3>2, MsgType DEF MarkOffset, Ordered, TypeOK
      <4>2. \A x \in ready : x.offset < marked'[x.partition]
        BY <2>2, <2>4, <4>1, MsgType
      <4>3. \A x \in Msg : marked'[x.partition] <= x.offset =>
              x \notin ready /\ marked[x.partition] <= x.offset
        BY <4>1, <4>2, MsgType DEF TypeOK
      <4> QED BY <2>1, <4>3
    <3> QED BY <3>1, <3>2
  <2> QED BY <2>1, <2>3, <2>4
<1>11. ASSUME NEW m \in Msg, ProducerSuccessLoop(m), m \notin inFlight PROVE GoDown
  BY <1>11 DEF ProducerSuccessLoop
<1>12. CASE Crash \/ \E m \in Msg : ProducerErrorLoop(m)
  BY <1>1, <1>12 DEF Crash, ProducerErrorLoop
<1> QED
  BY <1>1, <1>2, <1>3, <1>4, <1>5, <1>6, <1>7, <1>8, <1>9, <1>10, <1>11,
     <1>12, StepCases

(***************************************************************************)
(* The in-flight limit.                                                    *)
(***************************************************************************)
LEMMA CapacityStep ==
  ASSUME TypeOK, TypeOK', Capacity, [Next]_vars
  PROVE  Capacity'
<1> USE DEF Capacity, InFlightBounded, NoLostWakeup
<1>1. CASE GoDown
  BY <1>1, FS_EmptySet DEF GoDown
<1>2. ASSUME NEW m \in Msg, AddInflightMsg(m) PROVE Capacity'
  <2>1. Cardinality(inFlight) \in Nat /\ Cardinality(inFlight) < MaxInFlight
    BY <1>2, FS_CardinalityType DEF AddInflightMsg, AtCapacity
  <2>2. inFlight' = inFlight \/ inFlight' = inFlight \cup {m}
    BY <1>2 DEF AddInflightMsg
  <2>3. IsFiniteSet(inFlight') /\ Cardinality(inFlight') <= Cardinality(inFlight) + 1
    BY <2>1, <2>2, FS_AddElement
  <2>4. Cardinality(inFlight') \in Nat
    BY <2>3, FS_CardinalityType
  <2>5. pc' # "wait"
    BY <1>2 DEF AddInflightMsg
  <2> QED BY <2>1, <2>3, <2>4, <2>5
<1>3. ASSUME NEW n \in inFlight, ProducerSuccessLoop(n) PROVE Capacity'
  <2>1. inFlight' \subseteq inFlight /\ pc' # "wait"
    BY <1>3 DEF ProducerSuccessLoop, SetInFlightComplete, Broadcast, TypeOK
  <2>2. IsFiniteSet(inFlight') /\ Cardinality(inFlight') <= Cardinality(inFlight)
    BY <2>1, FS_Subset
  <2>3. Cardinality(inFlight) \in Nat /\ Cardinality(inFlight') \in Nat
    BY <2>2, FS_CardinalityType
  <2> QED BY <2>1, <2>2, <2>3
<1>4. ASSUME NEW m \in Msg, Receive(m) \/ Dispatch(m) \/ Reply(m) \/ ProducerAck(m)
      PROVE Capacity'
  BY <1>4 DEF Receive, Dispatch, Reply, ProducerAck, loopVars
<1>5. CASE WaitForCapacity
  BY <1>5 DEF WaitForCapacity, AtCapacity
<1>6. CASE inFlight' = inFlight /\ pc' = pc
  BY <1>6
<1>7. CASE \/ \E C \in SUBSET Partition : Setup(C)
           \/ \E m \in Msg : \/ ConsumeClaim(m) \/ OtherMemberReply(m)
                            \/ OtherMemberCommit(m)
           \/ \E p \in Partition : CommitMarked(p)
           \/ Rebalance \/ Fence \/ Cleanup \/ Restart \/ UNCHANGED vars
  BY <1>6, <1>7
  DEF Setup, ConsumeClaim, OtherMemberReply, OtherMemberCommit, CommitMarked,
      Rebalance, Fence, Cleanup, Restart, vars, loopVars
<1>8. CASE Crash \/ \E m \in Msg : ProducerErrorLoop(m)
  BY <1>1, <1>8 DEF Crash, ProducerErrorLoop
<1>9. ASSUME NEW m \in Msg, ProducerSuccessLoop(m), m \notin inFlight PROVE GoDown
  BY <1>9 DEF ProducerSuccessLoop
<1> QED
  BY <1>1, <1>2, <1>3, <1>4, <1>5, <1>7, <1>8, <1>9, StepCases

-----------------------------------------------------------------------------
(***************************************************************************)
(* The theorems.                                                           *)
(***************************************************************************)
LEMMA InitIInv == Init => IInv
<1> SUFFICES ASSUME Init PROVE IInv
  OBVIOUS
<1>1. TypeOK
  BY MsgType DEF Init, TypeOK
<1>2. Pipeline
  BY DEF Init, Pipeline, OnItsWay, NoneOf
<1>3. Ordered /\ NothingStranded
  BY DEF Init, Ordered, Arriving, NothingStranded
<1>4. NoRequestLost
  BY MsgType DEF Init, NoRequestLost
<1>5. Capacity
  BY FS_EmptySet DEF Init, Capacity, InFlightBounded, NoLostWakeup
<1> QED BY <1>1, <1>2, <1>3, <1>4, <1>5 DEF IInv

LEMMA NextIInv == IInv /\ [Next]_vars => IInv'
<1> SUFFICES ASSUME IInv, [Next]_vars PROVE IInv'
  OBVIOUS
<1>1. TypeOK'
  BY TypeStep DEF IInv
<1>2. Pipeline'
  BY <1>1, PipelineStep DEF IInv
<1> QED
  BY <1>1, <1>2, OrderedStep, NoRequestLostStep, NothingStrandedStep, CapacityStep
  DEF IInv

(* The inductive invariant holds of every reachable state.                 *)
THEOREM Invariance == Spec => []IInv
BY InitIInv, NextIInv, PTL DEF Spec

(* No offset that is committed, or that the session is about to commit,    *)
(* passes a request without a reply.                                       *)
THEOREM NeverLosesARequest == Spec => []NoRequestLost
<1>1. IInv => NoRequestLost
  BY DEF IInv
<1> QED BY <1>1, Invariance, PTL

(* The panic of ProducerSuccessLoop on an unknown confirmation is          *)
(* unreachable.                                                            *)
THEOREM ConfirmsAreKnown == Spec => []ConfirmKnown
<1>1. IInv => ConfirmKnown
  BY DEF IInv, Pipeline, OnItsWay, TypeOK, ConfirmKnown
<1> QED BY <1>1, Invariance, PTL

(* A delivered message the session has not marked stays on its way.        *)
THEOREM NothingIsStranded == Spec => []NothingStranded
<1>1. IInv => NothingStranded
  BY DEF IInv
<1> QED BY <1>1, Invariance, PTL

(* MaxInFlight bounds the map, and the loop sleeps only while it is full.  *)
THEOREM InFlightIsBounded == Spec => [](InFlightBounded /\ NoLostWakeup)
<1>1. IInv => InFlightBounded /\ NoLostWakeup
  BY DEF IInv, Capacity
<1> QED BY <1>1, Invariance, PTL

-----------------------------------------------------------------------------
(***************************************************************************)
(* Refinement of AtLeastOnce.                                              *)
(***************************************************************************)
LEMMA AbstractAnswer ==
  ASSUME NEW m \in Msg, replies' = replies \cup {m}, UNCHANGED committed
  PROVE  Abstract!Next
<1>1. m \in Abstract!Msg
  BY DEF Abstract!Msg, Msg
<1> QED BY <1>1 DEF Abstract!Next, Abstract!Answer

LEMMA AbstractCommit ==
  ASSUME TypeOK', NEW p \in Partition, NEW n,
         committed' = [committed EXCEPT ![p] = n], UNCHANGED replies, TypeOK,
         \A m \in Msg : m.partition = p /\ m.offset < n => m \in replies
  PROVE  Abstract!Next
<1>1. n = committed'[p]
  BY DEF TypeOK
<1>2. n \in 0 .. LogEnd
  BY <1>1 DEF TypeOK
<1>3. Abstract!Commit(p, n)
  BY DEF Abstract!Commit, Abstract!AnsweredBelow, Abstract!Msg, Msg
<1> QED BY <1>2, <1>3 DEF Abstract!Next

LEMMA AbstractStep == IInv /\ IInv' /\ [Next]_vars => [Abstract!Next]_(Abstract!vars)
<1> SUFFICES ASSUME IInv, IInv', [Next]_vars
             PROVE  Abstract!Next \/ UNCHANGED <<committed, replies>>
  BY DEF Abstract!vars
<1> USE DEF brokerVars, sessionVars, loopVars, pipeVars, bounds
<1>1. ASSUME NEW m \in Msg, ProducerAck(m) \/ OtherMemberReply(m)
      PROVE Abstract!Next
  BY <1>1, AbstractAnswer DEF ProducerAck, OtherMemberReply
<1>2. ASSUME NEW p \in Partition, CommitMarked(p) PROVE Abstract!Next
  <2>1. \A m \in Msg : m.partition = p /\ m.offset < marked[p] => m \in replies
    BY <1>2 DEF CommitMarked, Owns, IInv, NoRequestLost
  <2> QED BY <1>2, <2>1, AbstractCommit DEF CommitMarked, IInv
<1>3. ASSUME NEW m \in Msg, OtherMemberCommit(m) PROVE Abstract!Next
  <2> DEFINE p == m.partition
  <2>1. p \in Partition
    BY MsgType
  <2>2. /\ committed' = [committed EXCEPT ![p] = committed[p] + 1]
        /\ UNCHANGED replies
    BY <1>3 DEF OtherMemberCommit
  <2>3. committed'[p] = committed[p] + 1
    BY <2>1, <2>2 DEF IInv, TypeOK
  <2>4. \A x \in Msg : x.partition = p /\ x.offset < committed[p] + 1 => x \in replies
    BY <2>1, <2>2, <2>3 DEF IInv, NoRequestLost
  <2> QED BY <2>1, <2>2, <2>4, AbstractCommit DEF IInv
<1>4. ASSUME NEW m \in Msg,
             \/ ConsumeClaim(m) \/ Receive(m) \/ AddInflightMsg(m)
             \/ Dispatch(m) \/ Reply(m)
             \/ ProducerSuccessLoop(m) \/ ProducerErrorLoop(m)
      PROVE UNCHANGED <<committed, replies>>
  BY <1>4 DEF ConsumeClaim, Receive, AddInflightMsg, Dispatch, Reply,
              ProducerSuccessLoop, ProducerErrorLoop, GoDown
<1>5. CASE \/ \E C \in SUBSET Partition : Setup(C)
           \/ Rebalance \/ Fence \/ Cleanup \/ Restart \/ Crash \/ WaitForCapacity
           \/ UNCHANGED vars
  BY <1>5 DEF Setup, Rebalance, Fence, Cleanup, Restart, Crash, GoDown,
              WaitForCapacity, vars
<1> QED
  BY <1>1, <1>2, <1>3, <1>4, <1>5, StepCases

(* Every step of the bridge is a step, or a stutter, of the at-least-once  *)
(* contract: KafkaBridge implements AtLeastOnce.                           *)
THEOREM Refinement == Spec => ImplementsAtLeastOnce
<1>1. Init => Abstract!Init
  BY DEF Init, Abstract!Init
<1> QED
  BY <1>1, Invariance, AbstractStep, PTL
  DEF Spec, ImplementsAtLeastOnce, Abstract!Spec

=============================================================================
