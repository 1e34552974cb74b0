------------------------ MODULE TxnProcessor_proofs -------------------------
(***************************************************************************)
(* Proofs about TxnProcessor for every finite set of requests, whatever    *)
(* they ask for, and every number of senders, callers and retries.         *)
(***************************************************************************)
EXTENDS TxnProcessor, FiniteSetTheorems, TLAPS

USE ProcessorAssumption

LEMMA RequestType ==
  ASSUME TypeOK, NEW c \in Context
  PROVE  /\ request[c] \in Requests /\ Addr(c) \in Address
         /\ request[c].nonce \in Nat
BY DEF TypeOK, Addr

LEMMA PendingCountType ==
  ASSUME TypeOK, NEW a \in Address
  PROVE  PendingCount(a) \in Nat
<1> DEFINE S == {n \in onNode[a] : 0 .. n \subseteq onNode[a]}
<1>1. IsFiniteSet(onNode[a])
  BY DEF TypeOK
<1>2. S \subseteq onNode[a]
  OBVIOUS
<1>3. IsFiniteSet(S)
  BY <1>1, <1>2, FS_Subset
<1>4. Cardinality(S) \in Nat
  BY <1>3, FS_CardinalityType
<1> QED BY <1>4 DEF PendingCount

(* A nonce accepted by the node leaves it with finitely many.              *)
LEMMA AcceptType ==
  ASSUME TypeOK, NEW c \in Context, NEW n \in Nat, Accept(c, n)
  PROVE  /\ onNode' \in [Address -> SUBSET Nat]
         /\ \A a \in Address : IsFiniteSet(onNode'[a])
<1>1. onNode' \in [Address -> SUBSET Nat]
  BY RequestType DEF Accept, TypeOK
<1>2. ASSUME NEW a \in Address PROVE IsFiniteSet(onNode'[a])
  <2>1. onNode'[a] = onNode[a] \/ onNode'[a] = onNode[a] \cup {n}
    BY RequestType DEF Accept, TypeOK
  <2>2. IsFiniteSet(onNode[a])
    BY DEF TypeOK
  <2> QED BY <2>1, <2>2, FS_AddElement
<1> QED BY <1>1, <1>2

LEMMA NonceOnNodeType ==
  ASSUME TypeOK, NEW c \in Context
  PROVE  NonceOnNode(c) \in Nat
BY RequestType, PendingCountType DEF NonceOnNode, TypeOK

(* What every step shares.                                                 *)
LEMMA StepType ==
  ASSUME TypeOK, NEW c \in Context, NEW from \in PC, NEW to \in PC, Step(c, from, to)
  PROVE  pc' \in [Context -> PC]
BY DEF TypeOK, Step

LEMMA TrackType ==
  ASSUME TypeOK, NEW c \in Context, NEW n \in Nat, Track(c, n)
  PROVE  /\ entries' \subseteq Address
         /\ txns' \in [Address -> SUBSET Context]
         /\ nonce' \in [Context -> Nat]
BY RequestType DEF TypeOK, Track

LEMMA UntrackType ==
  ASSUME TypeOK, NEW c \in Context, Untrack(c)
  PROVE  /\ entries' \subseteq Address
         /\ highest' \in [Address -> Nat]
         /\ txns' \in [Address -> SUBSET Context]
         /\ nonce' \in [Context -> Nat]
         /\ fromMem' \subseteq Context
BY RequestType DEF TypeOK, Untrack

LEMMA TypeStep == TypeOK /\ [Next]_vars => TypeOK'
<1> SUFFICES ASSUME TypeOK, [Next]_vars PROVE TypeOK'
  OBVIOUS
<1> USE DEF entryVars
<1>0. CASE UNCHANGED vars
  BY <1>0 DEF vars, TypeOK
<1>a. ASSUME NEW c \in Context, Handle(c) \/ WaitForCompletion(c)
      PROVE TypeOK'
  <2>1. CASE OnMessage(c)
    BY <2>1 DEF OnMessage, TypeOK, Step, PC
  <2>2. CASE AddInflightWrapper(c)
    <3>1. CASE AddSupplied(c)
      BY <2>2, <3>1, TrackType, RequestType DEF AddInflightWrapper, AddSupplied, TypeOK, PC
    <3>2. CASE AddBadNonce(c)
      BY <2>2, <3>2, RequestType DEF AddInflightWrapper, AddBadNonce, TypeOK, PC
    <3>3. CASE AddFromMemory(c)
      <4>1. highest[Addr(c)] + 1 \in Nat
        BY RequestType DEF TypeOK
      <4> QED BY <2>2, <3>3, <4>1, TrackType, RequestType
              DEF AddInflightWrapper, AddFromMemory, TypeOK, PC
    <3>4. CASE AddNodeAssigned(c)
      BY <2>2, <3>4, TrackType DEF AddInflightWrapper, AddNodeAssigned, TypeOK, PC
    <3>5. CASE BeginQuery(c)
      BY <2>2, <3>5, RequestType DEF AddInflightWrapper, BeginQuery, TypeOK, PC
    <3> QED BY <2>2, <3>1, <3>2, <3>3, <3>4, <3>5 DEF AddInflightWrapper
  <2>3. CASE QueryAnswered(c)
    BY <2>3, TrackType, RequestType, PendingCountType DEF QueryAnswered, TypeOK, Step, PC
  <2>4. CASE QueryFailed(c)
    BY <2>4, RequestType DEF QueryFailed, TypeOK, Step, PC
  <2>5. CASE Build(c)
    BY <2>5 DEF Build, TypeOK, Step, PC
  <2>6. CASE BuildFailed(c)
    BY <2>6, UntrackType DEF BuildFailed, TypeOK, Step, PC
  <2>7. CASE TakeSlot(c)
    BY <2>7 DEF TakeSlot, TypeOK, Step, PC
  <2>8. CASE Sent(c)
    BY <2>8, AcceptType, NonceOnNodeType DEF Sent, TypeOK, Step, PC
  <2>9. CASE SendFailed(c)
    BY <2>9, AcceptType, NonceOnNodeType DEF SendFailed, TypeOK, Step, PC
  <2>10. CASE CancelUnsent(c)
    BY <2>10, UntrackType DEF CancelUnsent, TypeOK, Step, PC
  <2>11. CASE SubmitGapFillTX(c)
    <3>1. nonce[c] \in Nat
      BY DEF TypeOK
    <3> QED BY <2>11, <3>1, AcceptType DEF SubmitGapFillTX, TypeOK, Step, PC
  <2>12. CASE ErrorReply(c)
    BY <2>12 DEF ErrorReply, TypeOK, Step, PC
  <2>13. CASE Mined(c)
    BY <2>13 DEF Mined, TypeOK, Step, PC
  <2>14. CASE Retry(c)
    BY <2>14 DEF Retry, TypeOK
  <2>15. CASE TimedOut(c)
    BY <2>15 DEF TimedOut, TypeOK, Step, PC
  <2>16. CASE Reply(c)
    BY <2>16 DEF Reply, TypeOK, Step, PC
  <2>17. CASE Finish(c)
    BY <2>17, UntrackType DEF Finish, TypeOK, Step, PC
  <2> QED
    BY <1>a, <2>1, <2>2, <2>3, <2>4, <2>5, <2>6, <2>7, <2>8, <2>9, <2>10, <2>11,
       <2>12, <2>13, <2>14, <2>15, <2>16, <2>17 DEF Handle, WaitForCompletion
<1> QED BY <1>0, <1>a DEF Next

(* The initial state has the types.                                        *)
LEMMA InitType == Init => TypeOK
<1> SUFFICES ASSUME Init PROVE TypeOK
  OBVIOUS
<1>1. IsFiniteSet(0 .. InitialCount - 1) /\ 0 .. InitialCount - 1 \subseteq Nat
  BY FS_Interval
<1> QED BY <1>1 DEF Init, TypeOK, PC

(* Every variable of the processor keeps its type.                         *)
THEOREM TypeCorrect == Spec => []TypeOK
<1> QED BY InitType, TypeStep, PTL DEF Spec

-----------------------------------------------------------------------------
(***************************************************************************)
(* The invariant.  Each of its parts has a lemma for the step that keeps   *)
(* it, with a leaf for each action.                                        *)
(***************************************************************************)
(* Only ErrorReply and Reply give a reply, and neither happens twice.      *)
LEMMA RepliesStep == TypeOK /\ RepliesByStage /\ [Next]_vars => RepliesByStage'
<1> SUFFICES ASSUME TypeOK /\ RepliesByStage, [Next]_vars PROVE RepliesByStage'
  OBVIOUS
<1> USE DEF TypeOK, RepliesByStage, Step
<1>0. CASE UNCHANGED vars
  BY <1>0 DEF vars
<1>a. ASSUME NEW c \in Context, Handle(c) \/ WaitForCompletion(c)
      PROVE RepliesByStage'
  <2>1. CASE OnMessage(c)
    BY <2>1 DEF OnMessage
  <2>2. CASE AddInflightWrapper(c)
    <3>1. CASE AddSupplied(c)
      BY <2>2, <3>1 DEF AddInflightWrapper, AddSupplied
    <3>2. CASE AddBadNonce(c)
      BY <2>2, <3>2 DEF AddInflightWrapper, AddBadNonce
    <3>3. CASE AddFromMemory(c)
      BY <2>2, <3>3 DEF AddInflightWrapper, AddFromMemory
    <3>4. CASE AddNodeAssigned(c)
      BY <2>2, <3>4 DEF AddInflightWrapper, AddNodeAssigned
    <3>5. CASE BeginQuery(c)
      BY <2>2, <3>5 DEF AddInflightWrapper, BeginQuery
    <3> QED BY <2>2, <3>1, <3>2, <3>3, <3>4, <3>5 DEF AddInflightWrapper
  <2>3. CASE QueryAnswered(c)
    BY <2>3 DEF QueryAnswered
  <2>4. CASE QueryFailed(c)
    BY <2>4 DEF QueryFailed
  <2>5. CASE Build(c)
    BY <2>5 DEF Build
  <2>6. CASE BuildFailed(c)
    BY <2>6 DEF BuildFailed
  <2>7. CASE TakeSlot(c)
    BY <2>7 DEF TakeSlot
  <2>8. CASE Sent(c)
    BY <2>8 DEF Sent
  <2>9. CASE SendFailed(c)
    BY <2>9 DEF SendFailed
  <2>10. CASE CancelUnsent(c)
    BY <2>10 DEF CancelUnsent
  <2>11. CASE SubmitGapFillTX(c)
    BY <2>11 DEF SubmitGapFillTX
  <2>12. CASE ErrorReply(c)
    BY <2>12 DEF ErrorReply
  <2>13. CASE Mined(c)
    BY <2>13 DEF Mined
  <2>14. CASE Retry(c)
    BY <2>14 DEF Retry
  <2>15. CASE TimedOut(c)
    BY <2>15 DEF TimedOut
  <2>16. CASE Reply(c)
    BY <2>16 DEF Reply
  <2>17. CASE Finish(c)
    BY <2>17 DEF Finish
  <2> QED
    BY <1>a, <2>1, <2>2, <2>3, <2>4, <2>5, <2>6, <2>7, <2>8, <2>9,
       <2>10, <2>11, <2>12, <2>13, <2>14, <2>15, <2>16, <2>17
    DEF Handle, WaitForCompletion
<1> QED BY <1>0, <1>a DEF Next

(* How a slot or a caller more or less changes the size of a set.          *)
LEMMA SetSizes ==
  ASSUME NEW S, IsFiniteSet(S), NEW c
  PROVE  /\ IsFiniteSet(S \cup {c}) /\ IsFiniteSet(S \ {c})
         /\ Cardinality(S) \in Nat
         /\ Cardinality(S \cup {c}) <= Cardinality(S) + 1
         /\ Cardinality(S \ {c}) <= Cardinality(S)
<1>1. Cardinality(S) \in Nat
  BY FS_CardinalityType
<1>2. /\ IsFiniteSet(S \cup {c})
      /\ Cardinality(S \cup {c}) = IF c \in S THEN Cardinality(S) ELSE Cardinality(S) + 1
  BY FS_AddElement
<1>3. /\ IsFiniteSet(S \ {c})
      /\ Cardinality(S \ {c}) = IF c \in S THEN Cardinality(S) - 1 ELSE Cardinality(S)
  BY FS_RemoveElement
<1> QED BY <1>1, <1>2, <1>3

(* The lock has one holder, so one address is queried at a time.           *)
LEMMA OneQuery ==
  ASSUME TrackedByStage, NEW c \in Context, NEW d \in Context,
         pc[c] = "query", pc[d] = "query"
  PROVE  c = d
<1>1. {c} = {d}
  BY DEF TrackedByStage
<1> QED BY <1>1

(* The lists follow the stages of the requests.                            *)
LEMMA TrackedStep == TypeOK /\ TrackedByStage /\ [Next]_vars => TrackedByStage'
<1> SUFFICES ASSUME TypeOK /\ TrackedByStage, [Next]_vars PROVE TrackedByStage'
  OBVIOUS
<1> USE DEF TypeOK, TrackedByStage, TrackedStage, Step, Track, Untrack, Addr, entryVars
<1>0. CASE UNCHANGED vars
  BY <1>0 DEF vars
<1>a. ASSUME NEW c \in Context, Handle(c) \/ WaitForCompletion(c)
      PROVE TrackedByStage'
  <2>1. CASE OnMessage(c)
    BY <2>1, RequestType DEF OnMessage
  <2>2. CASE AddInflightWrapper(c)
    <3>1. CASE AddSupplied(c)
      BY <2>2, <3>1, RequestType DEF AddInflightWrapper, AddSupplied
    <3>2. CASE AddBadNonce(c)
      BY <2>2, <3>2, RequestType DEF AddInflightWrapper, AddBadNonce
    <3>3. CASE AddFromMemory(c)
      BY <2>2, <3>3, RequestType DEF AddInflightWrapper, AddFromMemory
    <3>4. CASE AddNodeAssigned(c)
      BY <2>2, <3>4, RequestType DEF AddInflightWrapper, AddNodeAssigned
    <3>5. CASE BeginQuery(c)
      BY <2>2, <3>5, RequestType DEF AddInflightWrapper, BeginQuery
    <3> QED BY <2>2, <3>1, <3>2, <3>3, <3>4, <3>5 DEF AddInflightWrapper
  <2>3. CASE QueryAnswered(c)
    <3>1. \A a \in Address :
            txns'[a] = {d \in Context : Addr(d)' = a /\ pc'[d] \in TrackedStage}
      BY <2>3, RequestType DEF QueryAnswered
    <3>2. \A a \in Address : txns'[a] # {} => a \in entries'
      BY <2>3, RequestType DEF QueryAnswered
    <3>3. \A d \in Context : pc'[d] # "query"
      BY <2>3, OneQuery DEF QueryAnswered
    <3> QED BY <3>1, <3>2, <3>3
  <2>4. CASE QueryFailed(c)
    <3>1. \A a \in Address :
            txns'[a] = {d \in Context : Addr(d)' = a /\ pc'[d] \in TrackedStage}
      BY <2>4, RequestType DEF QueryFailed
    <3>2. \A a \in Address : txns'[a] # {} => a \in entries'
      BY <2>4, RequestType DEF QueryFailed
    <3>3. \A d \in Context : pc'[d] # "query"
      BY <2>4, OneQuery DEF QueryFailed
    <3> QED BY <3>1, <3>2, <3>3
  <2>5. CASE Build(c)
    BY <2>5, RequestType DEF Build
  <2>6. CASE BuildFailed(c)
    BY <2>6, RequestType DEF BuildFailed
  <2>7. CASE TakeSlot(c)
    BY <2>7, RequestType DEF TakeSlot
  <2>8. CASE Sent(c)
    BY <2>8, RequestType DEF Sent
  <2>9. CASE SendFailed(c)
    BY <2>9, RequestType DEF SendFailed
  <2>10. CASE CancelUnsent(c)
    BY <2>10, RequestType DEF CancelUnsent
  <2>11. CASE SubmitGapFillTX(c)
    BY <2>11, RequestType DEF SubmitGapFillTX
  <2>12. CASE ErrorReply(c)
    BY <2>12, RequestType DEF ErrorReply
  <2>13. CASE Mined(c)
    BY <2>13, RequestType DEF Mined
  <2>14. CASE Retry(c)
    BY <2>14, RequestType DEF Retry
  <2>15. CASE TimedOut(c)
    BY <2>15, RequestType DEF TimedOut
  <2>16. CASE Reply(c)
    BY <2>16, RequestType DEF Reply
  <2>17. CASE Finish(c)
    BY <2>17, RequestType DEF Finish
  <2> QED
    BY <1>a, <2>1, <2>2, <2>3, <2>4, <2>5, <2>6, <2>7, <2>8, <2>9,
       <2>10, <2>11, <2>12, <2>13, <2>14, <2>15, <2>16, <2>17
    DEF Handle, WaitForCompletion
<1> QED BY <1>0, <1>a DEF Next

(* A nonce from memory is above all others from memory.                    *)
LEMMA MemoryStep == TypeOK /\ TrackedByStage /\ MemoryOrdered /\ [Next]_vars => MemoryOrdered'
<1> SUFFICES ASSUME TypeOK /\ TrackedByStage /\ MemoryOrdered, [Next]_vars PROVE MemoryOrdered'
  OBVIOUS
<1> USE DEF TypeOK, MemoryOrdered, MemoryNoncesDistinct, TrackedByStage, Step, Track, Untrack, Addr, entryVars
<1>0. CASE UNCHANGED vars
  BY <1>0 DEF vars
<1>a. ASSUME NEW c \in Context, Handle(c) \/ WaitForCompletion(c)
      PROVE MemoryOrdered'
  <2>1. CASE OnMessage(c)
    BY <2>1, RequestType DEF OnMessage
  <2>2. CASE AddInflightWrapper(c)
    <3>1. CASE AddSupplied(c)
      BY <2>2, <3>1, RequestType DEF AddInflightWrapper, AddSupplied
    <3>2. CASE AddBadNonce(c)
      BY <2>2, <3>2, RequestType DEF AddInflightWrapper, AddBadNonce
    <3>3. CASE AddFromMemory(c)
      BY <2>2, <3>3, RequestType DEF AddInflightWrapper, AddFromMemory
    <3>4. CASE AddNodeAssigned(c)
      BY <2>2, <3>4, RequestType DEF AddInflightWrapper, AddNodeAssigned
    <3>5. CASE BeginQuery(c)
      BY <2>2, <3>5, RequestType DEF AddInflightWrapper, BeginQuery
    <3> QED BY <2>2, <3>1, <3>2, <3>3, <3>4, <3>5 DEF AddInflightWrapper
  <2>3. CASE QueryAnswered(c)
    BY <2>3, RequestType DEF QueryAnswered
  <2>4. CASE QueryFailed(c)
    <3>1. \A d \in fromMem : d \in txns[Addr(d)] => Addr(d) # Addr(c)
      BY <2>4 DEF QueryFailed
    <3>2. \A d \in fromMem : d \in txns[Addr(d)] => highest'[Addr(d)] = highest[Addr(d)]
      BY <2>4, <3>1, RequestType DEF QueryFailed
    <3>3. \A d \in fromMem : pc'[d] \notin {"new", "add", "query"}
      BY <2>4 DEF QueryFailed
    <3>4. UNCHANGED <<request, txns, nonce, fromMem>>
      BY <2>4 DEF QueryFailed
    <3> QED BY <3>2, <3>3, <3>4
  <2>5. CASE Build(c)
    BY <2>5, RequestType DEF Build
  <2>6. CASE BuildFailed(c)
    BY <2>6, RequestType DEF BuildFailed
  <2>7. CASE TakeSlot(c)
    BY <2>7, RequestType DEF TakeSlot
  <2>8. CASE Sent(c)
    BY <2>8, RequestType DEF Sent
  <2>9. CASE SendFailed(c)
    BY <2>9, RequestType DEF SendFailed
  <2>10. CASE CancelUnsent(c)
    <3>1. Untrack(c)
      BY <2>10 DEF CancelUnsent
    <3>2. \A d \in Context : pc'[d] \in {"new", "add", "query"} => pc[d] = pc'[d]
      BY <2>10 DEF CancelUnsent
    <3>3. request' = request
      BY <2>10 DEF CancelUnsent
    <3> QED BY <3>1, <3>2, <3>3, RequestType
  <2>11. CASE SubmitGapFillTX(c)
    BY <2>11, RequestType DEF SubmitGapFillTX
  <2>12. CASE ErrorReply(c)
    BY <2>12, RequestType DEF ErrorReply
  <2>13. CASE Mined(c)
    BY <2>13, RequestType DEF Mined
  <2>14. CASE Retry(c)
    BY <2>14, RequestType DEF Retry
  <2>15. CASE TimedOut(c)
    BY <2>15, RequestType DEF TimedOut
  <2>16. CASE Reply(c)
    BY <2>16, RequestType DEF Reply
  <2>17. CASE Finish(c)
    BY <2>17, RequestType DEF Finish
  <2> QED
    BY <1>a, <2>1, <2>2, <2>3, <2>4, <2>5, <2>6, <2>7, <2>8, <2>9,
       <2>10, <2>11, <2>12, <2>13, <2>14, <2>15, <2>16, <2>17
    DEF Handle, WaitForCompletion
<1> QED BY <1>0, <1>a DEF Next

(* A set of at most n elements that gains an element only while it has     *)
(* fewer keeps within n.                                                   *)
LEMMA BoundKept ==
  ASSUME NEW S, NEW T, NEW c, NEW n \in Nat,
         IsFiniteSet(S), Cardinality(S) <= n,
         \/ T = S
         \/ T = S \ {c}
         \/ T = S \cup {c} /\ Cardinality(S) < n
  PROVE  IsFiniteSet(T) /\ Cardinality(T) <= n
<1>1. /\ IsFiniteSet(S \cup {c}) /\ IsFiniteSet(S \ {c})
      /\ Cardinality(S) \in Nat
      /\ Cardinality(S \cup {c}) <= Cardinality(S) + 1
      /\ Cardinality(S \ {c}) <= Cardinality(S)
  BY SetSizes
<1>2. Cardinality(S \cup {c}) \in Nat /\ Cardinality(S \ {c}) \in Nat
  BY <1>1, FS_CardinalityType
<1>3. CASE T = S
  BY <1>3
<1>4. CASE T = S \ {c}
  BY <1>1, <1>2, <1>4
<1>5. CASE T = S \cup {c} /\ Cardinality(S) < n
  BY <1>1, <1>2, <1>5
<1> QED BY <1>3, <1>4, <1>5

(* What keeps the slots and callers within bounds.                         *)
LEMMA BoundsStep ==
  ASSUME TypeOK, Senders, NEW c \in Context,
         \/ slots' = slots \/ slots' = slots \ {c}
         \/ slots' = slots \cup {c} /\ Cardinality(slots) < SendConcurrency,
         \/ calling' = calling \/ calling' = calling \ {c}
         \/ calling' = calling \cup {c} /\ Cardinality(calling) < MaxCallers
  PROVE  /\ IsFiniteSet(slots') /\ Cardinality(slots') <= SendConcurrency
         /\ IsFiniteSet(calling') /\ Cardinality(calling') <= MaxCallers
<1>1. SendConcurrency \in Nat /\ MaxCallers \in Nat
  BY ProcessorAssumption
<1>2. IsFiniteSet(slots') /\ Cardinality(slots') <= SendConcurrency
  BY <1>1, BoundKept DEF Senders
<1>3. IsFiniteSet(calling') /\ Cardinality(calling') <= MaxCallers
  BY <1>1, BoundKept DEF Senders
<1> QED BY <1>2, <1>3

(* Slots and callers.                                                      *)
LEMMA SendersStep == TypeOK /\ Senders /\ [Next]_vars => Senders'
<1> SUFFICES ASSUME TypeOK /\ Senders, [Next]_vars PROVE Senders'
  OBVIOUS
<1> USE DEF TypeOK, Senders, Step, entryVars
<1>0. CASE UNCHANGED vars
  BY <1>0 DEF vars
<1>a. ASSUME NEW c \in Context, Handle(c) \/ WaitForCompletion(c)
      PROVE Senders'
  <2>1. CASE OnMessage(c)
    <3>1. /\ IsFiniteSet(slots') /\ Cardinality(slots') <= SendConcurrency
          /\ IsFiniteSet(calling') /\ Cardinality(calling') <= MaxCallers
      BY <2>1, BoundsStep DEF OnMessage
    <3> QED BY <2>1, <3>1 DEF OnMessage
  <2>2. CASE AddInflightWrapper(c)
    <3>1. CASE AddSupplied(c)
      BY <2>2, <3>1 DEF AddInflightWrapper, AddSupplied
    <3>2. CASE AddBadNonce(c)
      BY <2>2, <3>2 DEF AddInflightWrapper, AddBadNonce
    <3>3. CASE AddFromMemory(c)
      BY <2>2, <3>3 DEF AddInflightWrapper, AddFromMemory
    <3>4. CASE AddNodeAssigned(c)
      BY <2>2, <3>4 DEF AddInflightWrapper, AddNodeAssigned
    <3>5. CASE BeginQuery(c)
      BY <2>2, <3>5 DEF AddInflightWrapper, BeginQuery
    <3> QED BY <2>2, <3>1, <3>2, <3>3, <3>4, <3>5 DEF AddInflightWrapper
  <2>3. CASE QueryAnswered(c)
    BY <2>3 DEF QueryAnswered
  <2>4. CASE QueryFailed(c)
    BY <2>4 DEF QueryFailed
  <2>5. CASE Build(c)
    BY <2>5 DEF Build
  <2>6. CASE BuildFailed(c)
    BY <2>6 DEF BuildFailed
  <2>7. CASE TakeSlot(c)
    <3>1. /\ IsFiniteSet(slots') /\ Cardinality(slots') <= SendConcurrency
          /\ IsFiniteSet(calling') /\ Cardinality(calling') <= MaxCallers
      BY <2>7, BoundsStep DEF TakeSlot
    <3> QED BY <2>7, <3>1 DEF TakeSlot
  <2>8. CASE Sent(c)
    <3>1. /\ IsFiniteSet(slots') /\ Cardinality(slots') <= SendConcurrency
          /\ IsFiniteSet(calling') /\ Cardinality(calling') <= MaxCallers
      BY <2>8, BoundsStep DEF Sent
    <3> QED BY <2>8, <3>1 DEF Sent
  <2>9. CASE SendFailed(c)
    <3>1. /\ IsFiniteSet(slots') /\ Cardinality(slots') <= SendConcurrency
          /\ IsFiniteSet(calling') /\ Cardinality(calling') <= MaxCallers
      BY <2>9, BoundsStep DEF SendFailed
    <3> QED BY <2>9, <3>1 DEF SendFailed
  <2>10. CASE CancelUnsent(c)
    BY <2>10 DEF CancelUnsent
  <2>11. CASE SubmitGapFillTX(c)
    BY <2>11 DEF SubmitGapFillTX
  <2>12. CASE ErrorReply(c)
    <3>1. /\ IsFiniteSet(slots') /\ Cardinality(slots') <= SendConcurrency
          /\ IsFiniteSet(calling') /\ Cardinality(calling') <= MaxCallers
      BY <2>12, BoundsStep DEF ErrorReply
    <3> QED BY <2>12, <3>1 DEF ErrorReply
  <2>13. CASE Mined(c)
    BY <2>13 DEF Mined
  <2>14. CASE Retry(c)
    BY <2>14 DEF Retry
  <2>15. CASE TimedOut(c)
    BY <2>15 DEF TimedOut
  <2>16. CASE Reply(c)
    BY <2>16 DEF Reply
  <2>17. CASE Finish(c)
    BY <2>17 DEF Finish
  <2> QED
    BY <1>a, <2>1, <2>2, <2>3, <2>4, <2>5, <2>6, <2>7, <2>8, <2>9,
       <2>10, <2>11, <2>12, <2>13, <2>14, <2>15, <2>16, <2>17
    DEF Handle, WaitForCompletion
<1> QED BY <1>0, <1>a DEF Next

-----------------------------------------------------------------------------
(***************************************************************************)
(* The theorems.                                                           *)
(***************************************************************************)
(* Every step, of any context and address, keeps the invariant.            *)
THEOREM Invariance == Spec => []IInv
<1>1. Init => IInv
  <2> SUFFICES ASSUME Init PROVE IInv
    OBVIOUS
  <2>1. RepliesByStage
    BY DEF Init, RepliesByStage
  <2>2. TrackedByStage
    BY DEF Init, TrackedByStage, TrackedStage, Addr
  <2>3. MemoryOrdered
    BY DEF Init, MemoryOrdered, MemoryNoncesDistinct
  <2>4. Senders
    <3>1. IsFiniteSet({}) /\ Cardinality({}) = 0
      BY FS_EmptySet
    <3> QED BY <3>1, ProcessorAssumption DEF Init, Senders
  <2>5. TypeOK
    BY InitType
  <2> QED BY <2>1, <2>2, <2>3, <2>4, <2>5 DEF IInv
<1>2. IInv /\ [Next]_vars => IInv'
  BY TypeStep, RepliesStep, TrackedStep, MemoryStep, SendersStep DEF IInv
<1> QED BY <1>1, <1>2, PTL DEF Spec

(* No request is answered twice, whatever goes wrong on the way.           *)
THEOREM RepliesAtMostOnce == Spec => []AtMostOneReply
<1>1. IInv => AtMostOneReply
  BY DEF IInv, RepliesByStage, AtMostOneReply
<1> QED BY <1>1, Invariance, PTL

(* A transaction the node may have is in its address' list until its       *)
(* reply, and a finished one is in none, for any number of addresses.      *)
THEOREM TracksWhatIsInFlight == Spec => []TrackedWhileInFlight
<1>1. IInv => TrackedWhileInFlight
  BY RequestType DEF IInv, TypeOK, TrackedByStage, TrackedStage, Addr, TrackedWhileInFlight
<1> QED BY <1>1, Invariance, PTL

(* Two nonces taken from memory for an address never agree while both      *)
(* transactions are in flight.                                             *)
THEOREM MemoryNoncesDiffer == Spec => []MemoryNoncesDistinct
<1>1. IInv => MemoryNoncesDistinct
  BY DEF IInv, MemoryOrdered
<1> QED BY <1>1, Invariance, PTL

(* At most SendConcurrency transactions are being sent at a time, when     *)
(* sending is concurrent.                                                  *)
THEOREM SendsAreBounded == Spec => []SendsBounded
<1>1. IInv => SendsBounded
  <2> SUFFICES ASSUME IInv, SendConcurrency > 1
               PROVE Cardinality({c \in Context : pc[c] = "send"}) <= SendConcurrency
    BY DEF SendsBounded
  <2> DEFINE S == {c \in Context : pc[c] = "send"}
  <2>1. S \subseteq slots /\ IsFiniteSet(slots) /\ Cardinality(slots) <= SendConcurrency
    BY DEF IInv, Senders
  <2>2. IsFiniteSet(S) /\ Cardinality(S) <= Cardinality(slots)
    BY <2>1, FS_Subset
  <2>3. Cardinality(S) \in Nat /\ Cardinality(slots) \in Nat /\ SendConcurrency \in Nat
    BY <2>1, <2>2, FS_CardinalityType, ProcessorAssumption
  <2> QED BY <2>1, <2>2, <2>3
<1> QED BY <1>1, Invariance, PTL

(* A set of at most one element.                                           *)
LEMMA AtMostOne ==
  ASSUME NEW S, IsFiniteSet(S), Cardinality(S) <= 1, NEW x \in S, NEW y \in S
  PROVE  x = y
<1> DEFINE T == S \ {x}
<1>1. IsFiniteSet(T) /\ Cardinality(T) = Cardinality(S) - 1
  BY FS_RemoveElement
<1>2. Cardinality(T) \in Nat /\ Cardinality(S) \in Nat
  BY <1>1, FS_CardinalityType
<1>3. Cardinality(T) = 0
  BY <1>1, <1>2
<1>4. T = {}
  BY <1>1, <1>3, FS_EmptySet
<1> QED BY <1>4

(* When nothing is sent concurrently and there is one caller, as when the  *)
(* Kafka bridge calls OnMessage, one nonce at a time is assigned and not   *)
(* yet sent.                                                               *)
THEOREM OneNonceUnsent ==
  ASSUME SendConcurrency = 1, MaxCallers = 1
  PROVE  Spec => []OneUnsentNonce
<1>1. IInv => OneUnsentNonce
  <2> SUFFICES ASSUME IInv, NEW c \in Context, NEW d \in Context,
                      pc[c] \in {"build", "send"}, pc[d] \in {"build", "send"}, c # d
               PROVE FALSE
    BY DEF OneUnsentNonce
  <2>1. c \in calling /\ d \in calling
    BY DEF IInv, Senders
  <2>2. IsFiniteSet(calling) /\ Cardinality(calling) <= 1
    BY DEF IInv, Senders
  <2> QED BY <2>1, <2>2, AtMostOne
<1> QED BY <1>1, Invariance, PTL

-----------------------------------------------------------------------------
(* No gap when a nonce is given up before it is submitted                  *)

(* The node has everything below the nonce it gave for a transaction.      *)
BelowIsSent ==
  \A d \in Context :
    /\ request[d].kind = "managed" /\ d \notin fromMem /\ d \in txns[Addr(d)]
    => \A n \in Nat : n < nonce[d] => n \in onNode[Addr(d)]

(* A nonce that is assigned and not sent yet is the highest in flight, or  *)
(* the node has it already.                                                *)
HighestUnsent ==
  \A c, d \in Context :
    /\ pc[c] = "build" /\ d \in txns[Addr(c)]
    /\ request[c].kind = "managed" /\ request[d].kind = "managed"
    => nonce[d] <= nonce[c] \/ nonce[c] \in onNode[Addr(c)]

(* The pending count is the length of an initial run of the nonces that    *)
(* the node has.                                                           *)
LEMMA PendingCountBelow ==
  ASSUME TypeOK, NEW a \in Address, NEW n \in Nat, n < PendingCount(a)
  PROVE  n \in onNode[a]
<1> DEFINE S == {m \in onNode[a] : 0 .. m \subseteq onNode[a]}
<1>1. IsFiniteSet(onNode[a]) /\ onNode[a] \subseteq Nat  BY DEF TypeOK
<1>2. SUFFICES ASSUME n \notin S  PROVE FALSE
  OBVIOUS
<1>3. ASSUME NEW m \in S  PROVE m \in 0 .. (n - 1)
  <2>1. m \in Nat /\ 0 .. m \subseteq onNode[a]  BY <1>1
  <2>2. SUFFICES ASSUME n <= m  PROVE FALSE
    BY <2>1
  <2>3. n \in 0 .. m /\ 0 .. n \subseteq 0 .. m  BY <2>1, <2>2
  <2>4. n \in S  BY <2>1, <2>3
  <2>5. QED  BY <1>2, <2>4
<1>4. S \subseteq 0 .. (n - 1)  BY <1>3
<1>5. IsFiniteSet(0 .. (n - 1)) /\ Cardinality(0 .. (n - 1)) = n
  <2>1. 0 \in Int /\ n - 1 \in Int  OBVIOUS
  <2>2. /\ IsFiniteSet(0 .. (n - 1))
        /\ Cardinality(0 .. (n - 1)) = IF 0 > n - 1 THEN 0 ELSE (n - 1) - 0 + 1
    BY <2>1, FS_Interval
  <2>3. QED  BY <2>2
<1>6. Cardinality(S) <= n  BY <1>4, <1>5, FS_Subset
<1>7. Cardinality(S) = PendingCount(a)  BY DEF PendingCount
<1>8. PendingCount(a) \in Nat  BY PendingCountType
<1>9. QED  BY <1>6, <1>7, <1>8

(* The node forgets no transaction.                                        *)
LEMMA NodeKeeps ==
  ASSUME TypeOK, [Next]_vars
  PROVE  \A a \in Address : onNode[a] \subseteq onNode'[a]
<1>1. ASSUME NEW c \in Context, NEW n, Accept(c, n)
      PROVE  \A a \in Address : onNode[a] \subseteq onNode'[a]
  BY <1>1 DEF Accept, TypeOK
<1>2. CASE UNCHANGED onNode
  BY <1>2
<1>3. ASSUME NEW c \in Context, Handle(c) \/ WaitForCompletion(c)
      PROVE  UNCHANGED onNode \/ \E n : Accept(c, n)
  BY <1>3 DEF Handle, WaitForCompletion, OnMessage, AddInflightWrapper, QueryAnswered,
     QueryFailed, Build, BuildFailed, TakeSlot, Sent, SendFailed, CancelUnsent,
     SubmitGapFillTX, ErrorReply, Mined, Retry, TimedOut, Reply, Finish
<1>4. QED  BY <1>1, <1>2, <1>3 DEF Next, vars

(* A step of c that assigns no nonce lists nothing new and builds nothing  *)
(* new.                                                                    *)
Assigns(c) == AddInflightWrapper(c) \/ QueryAnswered(c)

LEMMA NothingAssigned ==
  ASSUME TypeOK, NEW c \in Context, Handle(c) \/ WaitForCompletion(c), ~Assigns(c)
  PROVE  /\ UNCHANGED <<request, nonce, fromMem>>
         /\ \A a \in Address : txns'[a] \subseteq txns[a]
         /\ \A d \in Context : pc'[d] = "build" => pc[d] = "build"
<1>1. UNCHANGED <<request, nonce, fromMem>> /\ (UNCHANGED txns \/ Untrack(c))
  BY DEF Assigns, Handle, WaitForCompletion, OnMessage,
     QueryFailed, Build, BuildFailed, TakeSlot, Sent, SendFailed, CancelUnsent,
     SubmitGapFillTX, ErrorReply, Mined, Retry, TimedOut, Reply, Finish, Untrack, entryVars
<1>2. Untrack(c) => \A a \in Address : txns'[a] \subseteq txns[a]
  BY RequestType DEF Untrack, TypeOK
<1>3. UNCHANGED pc \/ \E p \in PC \ {"build"} : pc' = [pc EXCEPT ![c] = p]
  BY DEF Assigns, Handle, WaitForCompletion, OnMessage, Step, PC,
     QueryFailed, Build, BuildFailed, TakeSlot, Sent, SendFailed, CancelUnsent,
     SubmitGapFillTX, ErrorReply, Mined, Retry, TimedOut, Reply, Finish
<1>4. QED  BY <1>1, <1>2, <1>3 DEF TypeOK

(* A nonce that is assigned.                                               *)
LEMMA TrackedNow ==
  ASSUME TypeOK, NEW c \in Context, NEW n, Track(c, n), UNCHANGED request
  PROVE  /\ nonce'[c] = n /\ \A d \in Context \ {c} : nonce'[d] = nonce[d]
         /\ \A a \in Address : txns'[a] \subseteq txns[a] \cup {c}
BY RequestType DEF Track, TypeOK

LEMMA AssignsOne ==
  ASSUME TypeOK, NEW c \in Context, Assigns(c)
  PROVE  /\ UNCHANGED request /\ pc[c] \in {"add", "query"} /\ fromMem \subseteq fromMem'
         /\ \A d \in Context \ {c} : pc'[d] = pc[d] /\ nonce'[d] = nonce[d]
         /\ \A a \in Address : txns'[a] \subseteq txns[a] \cup {c}
<1>1. UNCHANGED request /\ pc[c] \in {"add", "query"} /\ fromMem \subseteq fromMem'
  BY DEF Assigns, AddInflightWrapper, QueryAnswered, Step, AddSupplied, AddBadNonce,
     AddFromMemory, AddNodeAssigned, BeginQuery
<1>2. UNCHANGED <<txns, nonce>> \/ \E n : Track(c, n)
  BY DEF Assigns, AddInflightWrapper, QueryAnswered, AddSupplied, AddBadNonce,
     AddFromMemory, AddNodeAssigned, BeginQuery
<1>3. \E p : pc' = [pc EXCEPT ![c] = p]
  BY DEF Assigns, AddInflightWrapper, QueryAnswered, Step, AddSupplied, AddBadNonce,
     AddFromMemory, AddNodeAssigned, BeginQuery
<1>4. \A d \in Context \ {c} : pc'[d] = pc[d]  BY <1>3 DEF TypeOK
<1>5. QED  BY <1>1, <1>2, <1>4, TrackedNow

LEMMA BelowIsSentStep == IInv /\ BelowIsSent /\ [Next]_vars => BelowIsSent'
<1> SUFFICES ASSUME IInv, BelowIsSent, [Next]_vars,
                    NEW d \in Context, (request[d].kind = "managed")',
                    (d \notin fromMem)', (d \in txns[Addr(d)])',
                    NEW n \in Nat, (n < nonce[d])'
             PROVE  (n \in onNode[Addr(d)])'
  BY DEF BelowIsSent
<1>0. TypeOK  BY DEF IInv
<1>1. \A a \in Address : onNode[a] \subseteq onNode'[a]  BY <1>0, NodeKeeps
<1>2. ASSUME UNCHANGED request, d \notin fromMem, d \in txns[Addr(d)], nonce'[d] = nonce[d]
      PROVE  (n \in onNode[Addr(d)])'
  <2>1. n \in onNode[Addr(d)]  BY <1>2 DEF BelowIsSent
  <2>2. Addr(d) \in Address /\ Addr(d)' = Addr(d)  BY <1>0, <1>2, RequestType DEF Addr
  <2>3. QED  BY <1>1, <2>1, <2>2
<1>3. CASE UNCHANGED vars
  BY <1>2, <1>3 DEF vars, entryVars, Addr
<1>4. ASSUME NEW c \in Context, Handle(c) \/ WaitForCompletion(c), ~Assigns(c)
      PROVE  (n \in onNode[Addr(d)])'
  BY <1>0, <1>2, <1>4, NothingAssigned, RequestType DEF Addr
<1>5. ASSUME NEW c \in Context, Assigns(c), c # d  PROVE (n \in onNode[Addr(d)])'
  BY <1>0, <1>2, <1>5, AssignsOne, RequestType DEF Addr
<1>6. ASSUME Assigns(d)  PROVE (n \in onNode[Addr(d)])'
  <2>1. UNCHANGED request /\ request[d].kind = "managed" /\ d \notin fromMem
    BY <1>0, <1>6, AssignsOne
  <2>2. CASE QueryAnswered(d)
    <3>1. Track(d, PendingCount(Addr(d)))  BY <2>2 DEF QueryAnswered
    <3>2. nonce'[d] = PendingCount(Addr(d))  BY <1>0, <2>1, <3>1, TrackedNow
    <3>3. n < PendingCount(Addr(d))  BY <3>2
    <3>4. n \in onNode[Addr(d)]  BY <1>0, <3>3, RequestType, PendingCountBelow
    <3>5. Addr(d) \in Address /\ Addr(d)' = Addr(d)  BY <1>0, <2>1, RequestType DEF Addr
    <3>6. QED  BY <1>1, <3>4, <3>5
  <2>3. CASE AddInflightWrapper(d)
    <3>1. ~AddFromMemory(d)  BY DEF AddFromMemory
    <3>2. BeginQuery(d)
      BY <2>1, <2>3, <3>1 DEF AddInflightWrapper, AddSupplied, AddBadNonce, AddNodeAssigned
    <3>3. QED  BY <1>2, <2>1, <3>2 DEF BeginQuery, Addr
  <2>4. QED  BY <1>6, <2>2, <2>3 DEF Assigns
<1>7. QED  BY <1>3, <1>4, <1>5, <1>6 DEF Next

LEMMA HighestUnsentStep ==
  ASSUME SendConcurrency = 1, MaxCallers = 1
  PROVE  IInv /\ BelowIsSent /\ HighestUnsent /\ [Next]_vars => HighestUnsent'
<1> SUFFICES ASSUME IInv, BelowIsSent, HighestUnsent, [Next]_vars,
                    NEW e \in Context, NEW d \in Context,
                    (pc[e] = "build")', (d \in txns[Addr(e)])',
                    (request[e].kind = "managed")', (request[d].kind = "managed")'
             PROVE  (nonce[d] <= nonce[e] \/ nonce[e] \in onNode[Addr(e)])'
  BY DEF HighestUnsent
<1>0. TypeOK  BY DEF IInv
<1>1. \A a \in Address : onNode[a] \subseteq onNode'[a]  BY <1>0, NodeKeeps
<1>2. ASSUME UNCHANGED request, d \in txns[Addr(e)], pc[e] = "build",
             nonce'[d] = nonce[d], nonce'[e] = nonce[e]
      PROVE  (nonce[d] <= nonce[e] \/ nonce[e] \in onNode[Addr(e)])'
  <2>1. nonce[d] <= nonce[e] \/ nonce[e] \in onNode[Addr(e)]  BY <1>2 DEF HighestUnsent
  <2>2. Addr(e) \in Address /\ Addr(e)' = Addr(e)  BY <1>0, <1>2, RequestType DEF Addr
  <2>3. QED  BY <1>1, <1>2, <2>1, <2>2
<1>3. CASE UNCHANGED vars
  BY <1>2, <1>3 DEF vars, entryVars, Addr
<1>4. ASSUME NEW c \in Context, Handle(c) \/ WaitForCompletion(c), ~Assigns(c)
      PROVE  (nonce[d] <= nonce[e] \/ nonce[e] \in onNode[Addr(e)])'
  BY <1>0, <1>2, <1>4, NothingAssigned, RequestType DEF Addr
<1>5. ASSUME NEW c \in Context, Assigns(c), c # e  PROVE FALSE
  <2>1. pc[c] \in {"add", "query"} /\ pc[e] = "build"  BY <1>0, <1>5, AssignsOne
  <2>2. c \in calling /\ e \in calling  BY <2>1 DEF IInv, Senders
  <2>3. IsFiniteSet(calling) /\ Cardinality(calling) <= 1  BY DEF IInv, Senders
  <2>4. QED  BY <1>5, <2>2, <2>3, AtMostOne
<1>6. ASSUME Assigns(e)  PROVE (nonce[d] <= nonce[e] \/ nonce[e] \in onNode[Addr(e)])'
  <2>1. /\ UNCHANGED request /\ request[e].kind = "managed" /\ request[d].kind = "managed"
        /\ Addr(e) \in Address /\ Addr(e)' = Addr(e)
    BY <1>0, <1>6, AssignsOne, RequestType DEF Addr
  <2>2. nonce[d] \in Nat /\ nonce[e] \in Nat /\ highest[Addr(e)] \in Nat
    BY <1>0, <2>1 DEF TypeOK
  <2>3. CASE QueryAnswered(e)
    <3>1. pc[e] = "query" /\ Track(e, PendingCount(Addr(e)))
      BY <2>3 DEF QueryAnswered, Step
    <3>2. txns[Addr(e)] = {}  BY <3>1 DEF IInv, TrackedByStage
    <3>3. d = e  BY <1>0, <2>1, <3>1, <3>2, TrackedNow
    <3>4. nonce'[e] \in Nat  BY <1>0, <2>1, <3>1, TrackedNow, PendingCountType
    <3>5. QED  BY <3>3, <3>4
  <2>4. CASE AddFromMemory(e)
    <3>1. nonce'[e] = highest[Addr(e)] + 1 /\ (d # e => nonce'[d] = nonce[d])
             /\ d \in txns[Addr(e)] \cup {e}
      BY <1>0, <2>1, <2>4, TrackedNow DEF AddFromMemory
    <3>2. CASE d = e  BY <2>2, <3>1, <3>2
    <3>3. CASE d # e
      <4>1. d \in txns[Addr(e)] /\ Addr(d) = Addr(e)
        BY <2>1, <3>1, <3>3 DEF IInv, TrackedByStage
      <4>2. CASE d \in fromMem
        <5>1. nonce[d] <= highest[Addr(e)]
          BY <4>1, <4>2 DEF IInv, MemoryOrdered
        <5>2. QED  BY <2>2, <3>1, <3>3, <5>1
      <4>3. CASE d \notin fromMem
        <5>1. nonce'[e] \in Nat /\ nonce'[d] \in Nat  BY <2>2, <3>1, <3>3
        <5>2. nonce'[e] < nonce'[d] => nonce'[e] \in onNode[Addr(e)]
          BY <2>1, <3>1, <3>3, <4>1, <4>3, <5>1 DEF BelowIsSent
        <5>3. QED  BY <1>1, <2>1, <5>1, <5>2
      <4>4. QED  BY <4>2, <4>3
    <3>4. QED  BY <3>2, <3>3
  <2>5. CASE AddInflightWrapper(e) /\ ~AddFromMemory(e)
    <3>1. BeginQuery(e)
      BY <2>1, <2>5 DEF AddInflightWrapper, AddSupplied, AddBadNonce, AddNodeAssigned
    <3>2. pc' = [pc EXCEPT ![e] = "query"]  BY <3>1 DEF BeginQuery
    <3>3. pc'[e] = "query"  BY <1>0, <3>2 DEF TypeOK
    <3>4. QED  BY <3>3
  <2>6. QED  BY <1>6, <2>3, <2>4, <2>5 DEF Assigns
<1>7. QED  BY <1>3, <1>4, <1>5, <1>6 DEF Next

(* When nothing is sent concurrently and there is one caller, a nonce that *)
(* is given up before its transaction is submitted leaves no gap below     *)
(* another of the processor's nonces in flight (OnSendTransactionMessage): *)
(* the others were assigned earlier, and are lower or were the node's.     *)
THEOREM GivesUpTheHighest ==
  ASSUME SendConcurrency = 1, MaxCallers = 1
  PROVE  Spec => NoGapWhenNotSubmitted
<1>1. Init => BelowIsSent /\ HighestUnsent
  BY DEF Init, BelowIsSent, HighestUnsent
<1>2. Spec => [](IInv /\ BelowIsSent /\ HighestUnsent)
  BY <1>1, Invariance, BelowIsSentStep, HighestUnsentStep, PTL DEF Spec
<1>3. IInv /\ HighestUnsent /\ [Next]_vars =>
        [\A c, d \in Context :
           /\ BuildFailed(c) /\ nonce[c] \notin onNode[Addr(c)]
           /\ request[c].kind = "managed" /\ request[d].kind = "managed"
           /\ d \in txns[Addr(c)]
           => nonce[d] <= nonce[c]]_vars
  BY DEF HighestUnsent, BuildFailed, Step
<1>4. QED  BY <1>2, <1>3, PTL DEF Spec, NoGapWhenNotSubmitted

=============================================================================
