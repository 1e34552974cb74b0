------------------------ MODULE StreamManager_proofs ------------------------
(***************************************************************************)
(* Proofs about StreamManager for any streams, subscriptions and requests, *)
(* and any number of failures and restarts.                                *)
(***************************************************************************)
EXTENDS StreamManager, TLAPS

USE StreamAssumption

-----------------------------------------------------------------------------
(* The types, by the part of the state they are about.  Blocks that a      *)
(* client asked for have been reached by the chain.                        *)
Reached == 0..head \cup {Latest}

StoreTypes ==
  /\ dbStream \in [Stream -> {"absent", "active", "suspended"}]
  /\ dbSub \in [Sub -> Reached \cup {None}]
  /\ dbCheckpoint \in [Stream -> [Sub -> Mark \cup {None}]]

StreamTypes ==
  /\ streams \subseteq Stream /\ subs \subseteq Sub
  /\ suspended \in [Stream -> BOOLEAN] /\ stopped \in [Stream -> BOOLEAN]
  /\ updateInProgress \in [Stream -> BOOLEAN]

Handlers ==
  [processor : {"running", "reported", "ended", "stuck"}, starts : Nat, closed : SUBSET Nat,
   dispatchers : SUBSET [by : Nat, on : Nat], batched : SUBSET Sub, leaked : BOOLEAN]

(* Every channel that was closed or is waited on belongs to a start.       *)
OfStarts(h) ==
  /\ h.closed \subseteq 0..h.starts
  /\ \A d \in h.dispatchers : d.by \in 1..h.starts /\ d.on \in 1..h.starts

HandlersTypes ==
  handlers \in [Stream -> Handlers] /\ \A t \in Stream : OfStarts(handlers[t])

PC == {"done", "top", "subs", "height", "filter", "events", "handing", "sleep"}
WithSub == {"height", "filter", "events", "handing"}
Poller ==
  [pc : PC, loaded : BOOLEAN, checkpoint : [Sub -> Mark \cup {None}],
   subs : SUBSET Sub, todo : SUBSET Sub, sub : Sub \cup {None},
   since : Mark, via : Reached \cup {None}]

PollerTypes ==
  /\ poller \in [Stream -> Poller]
  /\ \A t \in Stream :
       /\ poller[t].todo \subseteq poller[t].subs
       /\ poller[t].pc \in WithSub => poller[t].sub \in Sub

SubTypes ==
  /\ fromBlock \in [Sub -> Reached]
  /\ filterStale \in [Sub -> BOOLEAN] /\ deleting \in [Sub -> BOOLEAN]
  /\ resetRequested \in [Sub -> BOOLEAN]
  /\ blockHWM \in [Sub -> Mark] /\ fetched \in [Sub -> Mark]

Request ==
  [op : {"none", "AddStream", "AddSubscription", "UpdateStream", "DeleteStream",
         "DeleteSubscription", "ResetSubscription", "SuspendStream", "ResumeStream"},
   step : {"none", "call", "putStream", "putSub", "flag", "deleteSub", "deleteSubs",
           "deleteStream", "deleteCheckpoint", "join", "hung"},
   stream : Stream \cup {None}, sub : Sub \cup {None}, from : Reached \cup {None}]

OfSub == {"AddSubscription", "ResetSubscription", "DeleteSubscription"}

(* A request on a subscription is one on its stream.                       *)
RequestTypes ==
  /\ req \in [Requester -> Request]
  /\ \A r \in Requester :
       /\ ~At(r, "none") => req[r].stream \in Stream
       /\ req[r].op \in OfSub \/ req[r].step \in {"putSub", "flag", "deleteSub"} =>
            req[r].sub \in Sub /\ req[r].stream = Home[req[r].sub]
       /\ req[r].op \in {"AddSubscription", "ResetSubscription"} => req[r].from \in Reached
       /\ req[r].step \in {"putSub", "flag"} =>
            req[r].op \in {"AddSubscription", "ResetSubscription"}

ToldTypes ==
  /\ used \subseteq Stream \cup Sub
  /\ toldStream \in [Stream -> {"absent", "active", "suspended"}]
  /\ toldSub \in [Sub -> Reached \cup {None}] /\ owed \in [Sub -> Reached \cup {None}]
  /\ unsure \subseteq Stream \cup Sub

Types ==
  /\ head \in Block
  /\ StoreTypes /\ StreamTypes /\ HandlersTypes /\ PollerTypes /\ SubTypes
  /\ RequestTypes /\ ToldTypes

LEMMA ReachedFrom ==
  ASSUME head \in Block
  PROVE  /\ head \in Nat /\ MaxBlock \in Nat
         /\ Reached \subseteq From /\ 0..head \subseteq Mark
         /\ 0 \in Mark /\ head + 1 \in Mark
BY DEF Block, From, Reached, Mark

LEMMA TypesImplyTypeOK == Types => TypeOK
<1> SUFFICES ASSUME Types PROVE TypeOK
  OBVIOUS
<1>1. Reached \subseteq From
  BY ReachedFrom DEF Types
<1>2. ASSUME NEW t \in Stream
      PROVE LET p == poller[t] IN
       /\ p.pc \in PC
       /\ p.loaded \in BOOLEAN /\ p.checkpoint \in [Sub -> Mark \cup {None}]
       /\ p.subs \subseteq Sub /\ p.todo \subseteq p.subs
       /\ p.sub \in Sub \cup {None} /\ p.since \in Mark /\ p.via \in From \cup {None}
  BY <1>1 DEF Types, PollerTypes, Poller
<1>3. /\ dbSub \in [Sub -> From \cup {None}] /\ fromBlock \in [Sub -> From]
      /\ {toldSub, owed} \subseteq [Sub -> From \cup {None}]
  BY <1>1 DEF Types, StoreTypes, SubTypes, ToldTypes
<1>4. ASSUME NEW t \in Stream
      PROVE LET h == handlers[t] IN
       /\ h.processor \in {"running", "reported", "ended", "stuck"}
       /\ h.starts \in Nat /\ h.closed \subseteq 0..h.starts
       /\ \A d \in h.dispatchers : {d.by, d.on} \subseteq 1..h.starts
       /\ h.batched \subseteq Sub /\ h.leaked \in BOOLEAN
  BY DEF Types, HandlersTypes, Handlers, OfStarts
<1> QED BY <1>2, <1>3, <1>4 DEF Types, StoreTypes, StreamTypes, SubTypes, ToldTypes, TypeOK, PC

LEMMA TypesInit == Init => Types
<1> SUFFICES ASSUME Init PROVE Types
  OBVIOUS
<1>0. head \in Block /\ head = 0
  BY DEF Init, Block
<1>1. 0 \in Mark /\ Latest \in Reached
  BY <1>0, ReachedFrom DEF Reached
<1>2. NoMarks \in [Sub -> Mark]
  BY <1>1 DEF NoMarks
<1>n. NoEntries \in [Sub -> Mark \cup {None}]
  BY DEF NoEntries
<1>3. Ended \in Poller /\ Ended.pc = "done" /\ Ended.todo = {} /\ Ended.subs = {}
  BY <1>1, <1>n DEF Ended, Poller, PC
<1>4. PollerTypes
  BY <1>3 DEF Init, PollerTypes, WithSub
<1>5. RequestTypes
  BY DEF Init, RequestTypes, Request, Idle, At, OfSub
<1>6. StoreTypes /\ SubTypes
  BY <1>1, <1>2, <1>n DEF Init, StoreTypes, SubTypes
<1>7. StreamTypes /\ ToldTypes
  BY DEF Init, StreamTypes, ToldTypes
<1>8. HandlersTypes
  BY DEF Init, HandlersTypes, Handlers, NoHandlers, OfStarts
<1> QED BY <1>0, <1>4, <1>5, <1>6, <1>7, <1>8 DEF Types

-----------------------------------------------------------------------------
(* Each part of the types is kept by every step.                           *)

LEMMA HeadStep ==
  ASSUME head \in Block, Next
  PROVE  head' \in Block /\ Reached \subseteq Reached' /\ Mark \subseteq Mark'
<1>1. head' = head \/ (head < MaxBlock /\ head' = head + 1)
  <2>1. ASSUME NEW r \in Requester, Receive(r) PROVE head' = head
    BY <2>1 DEF Receive, CreateStream, SubscribeEvent, UpdateStreamRequest,
       DeleteStreamOrSub, ResetSub, SuspendOrResumeStream, Call
  <2>2. ASSUME NEW r \in Requester, RequestStep(r) PROVE head' = head
    BY <2>2 DEF RequestStep, NotFound, AddStream, AddSubscription, ResetSubscription,
       RequestReset, DeleteSubscription, DeleteNextSub, StopStream, Stop, SuspendStream,
       ResumeStream, UpdateStream, PostUpdateStream, RejectUpdate, StoreFails, StoreStream,
       StoreSubscription, RemoveSubscription, RemoveStream, DeleteCheckpoint
  <2>3. ASSUME NEW t \in Stream, PollStep(t) PROVE head' = head
    BY <2>3 DEF PollStep, PollTop, PollReset, PollHeight, PollFilter, PollEvents, HandOver,
       PollFails, PollMark, PollWake
  <2>4. ASSUME \/ \E t \in Stream : HandlersStep(t) \/ SendOnClosed(t)
               \/ \E s \in Sub : BatchComplete(s)
               \/ NewBlock \/ Crash
        PROVE  head' = head \/ (head < MaxBlock /\ head' = head + 1)
    BY <2>4 DEF SendOnClosed, Restart, BatchComplete, NewBlock, Crash, HandlersStep,
       BatchTimeout, EndDispatcher, DropBatch, EndProcessor
  <2> QED BY <2>1, <2>2, <2>3, <2>4 DEF Next
<1> QED BY <1>1 DEF Block, Reached, Mark

LEMMA GotoType ==
  ASSUME RequestTypes, NEW r \in Requester, ~At(r, "none"), UNCHANGED head,
         NEW s \in {"putStream", "putSub", "flag", "deleteSub", "deleteSubs",
                    "deleteStream", "deleteCheckpoint", "join", "hung"},
         s \in {"putSub", "flag", "deleteSub"} =>
           req[r].sub \in Sub /\ req[r].stream = Home[req[r].sub],
         s \in {"putSub", "flag"} => req[r].op \in {"AddSubscription", "ResetSubscription"},
         Goto(r, s)
  PROVE  RequestTypes'
<1>1. req' = [req EXCEPT ![r].step = s] /\ Reached' = Reached
  BY DEF Goto, Reached
<1>2. req' \in [Requester -> Request]'
  BY <1>1 DEF RequestTypes, Request
<1> QED BY <1>1, <1>2 DEF RequestTypes, Request, At

LEMMA FinishType ==
  ASSUME RequestTypes, NEW r \in Requester, UNCHANGED head, Finish(r)
  PROVE  RequestTypes'
<1>1. req' = [req EXCEPT ![r] = Idle] /\ Reached' = Reached
  BY DEF Finish, Reached
<1>2. Idle \in Request
  BY DEF Idle, Request
<1> QED BY <1>1, <1>2 DEF RequestTypes, Request, At, Idle, OfSub

LEMMA CallType ==
  ASSUME RequestTypes, NEW r \in Requester, NEW t \in Stream, NEW s \in Sub \cup {None},
         NEW b \in Reached \cup {None}, UNCHANGED head,
         NEW op \in {"AddStream", "AddSubscription", "UpdateStream", "DeleteStream",
                     "DeleteSubscription", "ResetSubscription", "SuspendStream",
                     "ResumeStream"},
         op \in OfSub => s \in Sub /\ t = Home[s],
         op \in {"AddSubscription", "ResetSubscription"} => b \in Reached,
         Call(r, op, t, s, b)
  PROVE  RequestTypes'
<1> DEFINE c == [op |-> op, step |-> "call", stream |-> t, sub |-> s, from |-> b]
<1>1. req' = [req EXCEPT ![r] = c] /\ Reached' = Reached
  BY DEF Call, Reached
<1>2. c \in Request
  BY DEF Request
<1>3. c.op = op /\ c.step = "call" /\ c.stream = t /\ c.sub = s /\ c.from = b
  OBVIOUS
<1> HIDE DEF c
<1> QED BY <1>1, <1>2, <1>3 DEF RequestTypes, Request, At, OfSub

LEMMA RequestTypesStep == Types /\ Next => RequestTypes'
<1> SUFFICES ASSUME Types, Next PROVE RequestTypes'
  OBVIOUS
<1>0. RequestTypes /\ head \in Block
  BY DEF Types
<1>1. ASSUME NEW r \in Requester, Receive(r) PROVE RequestTypes'
  <2>0. UNCHANGED head
    BY <1>1 DEF Receive, CreateStream, SubscribeEvent, UpdateStreamRequest,
       DeleteStreamOrSub, ResetSub, SuspendOrResumeStream, Call
  <2>1. ASSUME NEW t \in Stream,
               NEW op \in {"AddStream", "UpdateStream", "DeleteStream", "SuspendStream",
                           "ResumeStream"},
               Call(r, op, t, None, None)
        PROVE  RequestTypes'
    BY <1>0, <2>0, <2>1, CallType DEF OfSub
  <2>2. ASSUME NEW s \in Sub, NEW b \in 0..head \cup {Latest},
               NEW op \in {"AddSubscription", "ResetSubscription"},
               Call(r, op, Home[s], s, b)
        PROVE  RequestTypes'
    BY <1>0, <2>0, <2>2, CallType DEF OfSub, Reached
  <2>3. ASSUME NEW s \in Sub, Call(r, "DeleteSubscription", Home[s], s, None)
        PROVE  RequestTypes'
    BY <1>0, <2>0, <2>3, CallType DEF OfSub
  <2> QED BY <1>1, <2>1, <2>2, <2>3 DEF Receive, CreateStream, SubscribeEvent,
     UpdateStreamRequest, DeleteStreamOrSub, ResetSub, SuspendOrResumeStream
<1>2. ASSUME NEW r \in Requester, RequestStep(r) PROVE RequestTypes'
  <2>0. ~At(r, "none") /\ UNCHANGED head
    BY <1>0, <1>2 DEF RequestStep, Called, At, NotFound, AddStream, AddSubscription,
       ResetSubscription, RequestReset, DeleteSubscription, DeleteNextSub, StopStream, Stop,
       DeletesStream, SuspendStream, ResumeStream, UpdateStream, PostUpdateStream, RejectUpdate,
       StoreFails, StoreStream, StoreSubscription, RemoveSubscription, RemoveStream,
       DeleteCheckpoint
  <2>1. CASE Finish(r)
    BY <1>0, <2>0, <2>1, FinishType
  <2>2. CASE \E s \in {"putStream", "deleteSubs", "deleteStream", "deleteCheckpoint",
                       "join", "hung"} : Goto(r, s)
    BY <1>0, <2>0, <2>2, GotoType
  <2>3. CASE \/ AddSubscription(r) \/ ResetSubscription(r) \/ StoreSubscription(r)
             \/ DeleteSubscription(r)
    <3>1. req[r].op \in OfSub
      BY <1>0, <2>3 DEF AddSubscription, ResetSubscription, StoreSubscription,
         DeleteSubscription, Called, At, OfSub, RequestTypes
    <3>2. req[r].sub \in Sub /\ req[r].stream = Home[req[r].sub]
      BY <1>0, <3>1 DEF RequestTypes
    <3>3. CASE Goto(r, "putSub") \/ Goto(r, "flag")
      <4>1. req[r].op \in {"AddSubscription", "ResetSubscription"}
        BY <1>0, <2>3, <3>3 DEF AddSubscription, ResetSubscription, StoreSubscription,
           DeleteSubscription, Called, At, RequestTypes, Goto, Request
      <4> QED BY <1>0, <2>0, <3>2, <3>3, <4>1, GotoType
    <3>4. CASE Goto(r, "deleteSub")
      BY <1>0, <2>0, <3>2, <3>4, GotoType
    <3> QED BY <2>1, <2>3, <3>3, <3>4 DEF AddSubscription, ResetSubscription,
       StoreSubscription, DeleteSubscription
  <2>4. CASE DeleteNextSub(r)
    <3>1. PICK s \in subs : /\ Home[s] = req[r].stream
                            /\ req' = [req EXCEPT ![r].step = "deleteSub", ![r].sub = s]
      BY <2>4 DEF DeleteNextSub
    <3>2. s \in Sub /\ Reached' = Reached
      BY <2>0 DEF Types, StreamTypes, Reached
    <3>3. req' \in [Requester -> Request]'
      <4> DEFINE c == [req[r] EXCEPT !.step = "deleteSub", !.sub = s]
      <4>0. req[r] \in Request
        BY <1>0 DEF RequestTypes
      <4>1. c \in Request
        BY <3>2, <4>0 DEF Request
      <4>2. req' = [req EXCEPT ![r] = c]
        BY <3>1
      <4>3. Request' = Request
        BY <3>2 DEF Request
      <4> HIDE DEF c
      <4> QED BY <1>0, <4>1, <4>2, <4>3 DEF RequestTypes
    <3>4. req[r].op = "DeleteStream" \/ req[r].step = "deleteSubs"
      BY <2>4 DEF DeleteNextSub, DeletesStream, Called, At
    <3> QED BY <1>0, <2>0, <3>1, <3>2, <3>3, <3>4 DEF RequestTypes, Request, At, OfSub
  <2> QED BY <1>2, <2>1, <2>2, <2>3, <2>4 DEF RequestStep, NotFound, AddStream,
     RequestReset, StopStream, Stop, SuspendStream, ResumeStream, UpdateStream,
     PostUpdateStream, RejectUpdate, StoreFails, StoreStream, RemoveSubscription, RemoveStream,
     DeleteCheckpoint
<1>3. CASE Crash \/ \E t \in Stream : SendOnClosed(t)
  <2>1. req' = [r \in Requester |-> Idle] /\ Reached' = Reached
    BY <1>3 DEF Crash, SendOnClosed, Restart, Reached
  <2> QED BY <2>1 DEF RequestTypes, Request, Idle, At, OfSub
<1>4. ASSUME UNCHANGED req PROVE RequestTypes'
  <2>1. Reached \subseteq Reached'
    BY <1>0, HeadStep
  <2>2. req' \in [Requester -> Request]'
    BY <1>0, <1>4, <2>1 DEF RequestTypes, Request
  <2> QED BY <1>0, <1>4, <2>1, <2>2 DEF RequestTypes, At
<1> QED BY <1>1, <1>2, <1>3, <1>4 DEF Next, PollStep, PollTop, PollReset, PollHeight,
   PollFilter, PollEvents, HandOver, PollFails, PollMark, PollWake, BatchComplete, NewBlock,
   HandlersStep, BatchTimeout, EndDispatcher, DropBatch, EndProcessor

LEMMA StoreTypesStep == Types /\ Next => StoreTypes'
<1> SUFFICES ASSUME Types, Next PROVE StoreTypes'
  OBVIOUS
<1> USE DEF storeVars
<1>0. /\ StoreTypes /\ Reached \subseteq Reached' /\ Mark \subseteq Mark'
      /\ head \in Block
  BY HeadStep DEF Types
<1>a. 0 \in Mark
  BY <1>0, ReachedFrom
<1>b. /\ dbStream \in [Stream -> {"absent", "active", "suspended"}]
      /\ dbSub \in [Sub -> Reached' \cup {None}]
      /\ dbCheckpoint \in [Stream -> [Sub -> Mark' \cup {None}]]
  BY <1>0 DEF StoreTypes
<1>1. ASSUME UNCHANGED storeVars PROVE StoreTypes'
  BY <1>0, <1>1 DEF StoreTypes
<1>2. ASSUME NEW r \in Requester, RequestStep(r) PROVE StoreTypes'
  <2>1. CASE StoreStream(r)
    <3>1. /\ dbStream' = [dbStream EXCEPT ![req[r].stream] = Saved(req[r].stream)]
          /\ UNCHANGED <<dbSub, dbCheckpoint>>
      BY <2>1 DEF StoreStream
    <3>2. Saved(req[r].stream) \in {"absent", "active", "suspended"}
      BY DEF Saved
    <3> QED BY <1>b, <3>1, <3>2 DEF StoreTypes
  <2>2. CASE StoreSubscription(r)
    <3>1. fromBlock[req[r].sub] \in Reached
      BY <2>2 DEF StoreSubscription, Types, RequestTypes, SubTypes, At
    <3>2. /\ dbSub' = [dbSub EXCEPT ![req[r].sub] = fromBlock[req[r].sub]]
          /\ UNCHANGED <<dbStream, dbCheckpoint>>
      BY <2>2 DEF StoreSubscription
    <3>3. fromBlock[req[r].sub] \in Reached'
      BY <1>0, <3>1
    <3> QED BY <1>b, <3>2, <3>3 DEF StoreTypes
  <2>3. CASE RemoveSubscription(r)
    <3>1. /\ dbSub' = [dbSub EXCEPT ![req[r].sub] = None]
          /\ UNCHANGED <<dbStream, dbCheckpoint>>
      BY <2>3 DEF RemoveSubscription
    <3> QED BY <1>b, <3>1 DEF StoreTypes
  <2>4. CASE RemoveStream(r)
    <3>1. /\ dbStream' = [dbStream EXCEPT ![req[r].stream] = "absent"]
          /\ UNCHANGED <<dbSub, dbCheckpoint>>
      BY <2>4 DEF RemoveStream
    <3> QED BY <1>b, <3>1 DEF StoreTypes
  <2>5. CASE DeleteCheckpoint(r)
    <3>1. NoEntries \in [Sub -> Mark' \cup {None}]
      BY DEF NoEntries
    <3>2. /\ \/ UNCHANGED dbCheckpoint
             \/ dbCheckpoint' = [dbCheckpoint EXCEPT ![req[r].stream] = NoEntries]
          /\ UNCHANGED <<dbStream, dbSub>>
      BY <2>5 DEF DeleteCheckpoint
    <3> QED BY <1>b, <3>1, <3>2 DEF StoreTypes
  <2> QED BY <1>1, <1>2, <2>1, <2>2, <2>3, <2>4, <2>5 DEF RequestStep, NotFound, AddStream,
     AddSubscription, ResetSubscription, RequestReset, DeleteSubscription, DeleteNextSub,
     StopStream, Stop, SuspendStream, ResumeStream, UpdateStream, PostUpdateStream, RejectUpdate,
     StoreFails
<1>3. ASSUME NEW t \in Stream, PollMark(t) PROVE StoreTypes'
  <2> DEFINE marks == [s \in Sub |-> IF s \in poller[t].subs THEN blockHWM[s]
                                     ELSE poller[t].checkpoint[s]]
  <2>1. marks \in [Sub -> Mark' \cup {None}]
    BY <1>0, <1>3 DEF Types, SubTypes, PollerTypes, Poller
  <2>2. dbCheckpoint' = [dbCheckpoint EXCEPT ![t] = marks] \/ UNCHANGED dbCheckpoint
    BY <1>3 DEF PollMark
  <2>3. UNCHANGED <<dbStream, dbSub>>
    BY <1>3 DEF PollMark
  <2> HIDE DEF marks
  <2> QED BY <1>b, <2>1, <2>2, <2>3 DEF StoreTypes
<1>4. ASSUME NEW r \in Requester, Receive(r) PROVE StoreTypes'
  BY <1>1, <1>4 DEF Receive, CreateStream, SubscribeEvent, UpdateStreamRequest,
     DeleteStreamOrSub, ResetSub, SuspendOrResumeStream, Call
<1>5. ASSUME NEW t \in Stream, PollStep(t) PROVE StoreTypes'
  BY <1>1, <1>3, <1>5 DEF PollStep, PollTop, PollReset, PollHeight, PollFilter, PollEvents,
     HandOver, PollFails, PollWake
<1>6. CASE \/ \E t \in Stream : HandlersStep(t) \/ SendOnClosed(t)
           \/ \E s \in Sub : BatchComplete(s)
           \/ NewBlock \/ Crash
  BY <1>1, <1>6 DEF SendOnClosed, Restart, BatchComplete, NewBlock, Crash, HandlersStep,
     BatchTimeout, EndDispatcher, DropBatch, EndProcessor
<1> QED BY <1>2, <1>4, <1>5, <1>6 DEF Next

LEMMA StreamTypesStep == Types /\ Next => StreamTypes'
<1> SUFFICES ASSUME Types, Next PROVE StreamTypes'
  OBVIOUS
<1> USE DEF streamVars, flags
<1>0. StreamTypes
  BY DEF Types
<1>1. ASSUME UNCHANGED <<streams, subs, flags>> PROVE StreamTypes'
  BY <1>0, <1>1 DEF StreamTypes
<1>2. ASSUME NEW r \in Requester, RequestStep(r) PROVE StreamTypes'
  <2>1. CASE AddStream(r) \/ SuspendStream(r) \/ ResumeStream(r) \/ UpdateStream(r)
             \/ StopStream(r)
    BY <1>0, <2>1 DEF AddStream, SuspendStream, ResumeStream, UpdateStream, StopStream, Stop,
       StreamTypes, Types, RequestTypes, Called, DeletesStream, At
  <2>2. CASE PostUpdateStream(r)
    BY <1>0, <2>2 DEF PostUpdateStream, RejectUpdate, StreamTypes
  <2>3. CASE AddSubscription(r)
    <3>1. req[r].sub \in Sub
      BY <2>3 DEF AddSubscription, Called, Types, RequestTypes, OfSub
    <3> QED BY <1>0, <2>3, <3>1 DEF AddSubscription, StreamTypes
  <2>4. CASE DeleteSubscription(r) \/ DeleteNextSub(r)
    BY <1>0, <2>4 DEF DeleteSubscription, DeleteNextSub, Forget, StreamTypes
  <2> QED BY <1>1, <1>2, <2>1, <2>2, <2>3, <2>4 DEF RequestStep, NotFound,
     ResetSubscription, RequestReset, RejectUpdate, StoreFails, StoreStream, StoreSubscription,
     RemoveSubscription, RemoveStream, DeleteCheckpoint
<1>3. ASSUME NEW r \in Requester, Receive(r) PROVE StreamTypes'
  BY <1>1, <1>3 DEF Receive, CreateStream, SubscribeEvent, UpdateStreamRequest,
     DeleteStreamOrSub, ResetSub, SuspendOrResumeStream, Call
<1>4. ASSUME NEW t \in Stream, PollStep(t) PROVE StreamTypes'
  BY <1>1, <1>4 DEF PollStep, PollTop, PollReset, PollHeight, PollFilter, PollEvents, HandOver,
     PollFails, PollMark, PollWake
<1>5. CASE \/ \E t \in Stream : HandlersStep(t)
           \/ \E s \in Sub : BatchComplete(s)
           \/ NewBlock
  BY <1>1, <1>5 DEF BatchComplete, NewBlock, HandlersStep, BatchTimeout, EndDispatcher,
     DropBatch, EndProcessor
<1>6. CASE Crash \/ \E t \in Stream : SendOnClosed(t)
  <2>1. Recover
    BY <1>6 DEF Crash, SendOnClosed, Restart
  <2> QED BY <2>1 DEF Recover, StreamTypes
<1> QED BY <1>2, <1>3, <1>4, <1>5, <1>6 DEF Next

(* The handlers                                                            *)

LEMMA HandlersTyped ==
  ASSUME HandlersTypes, NEW t, NEW h \in Handlers, OfStarts(h),
         handlers' = [handlers EXCEPT ![t] = h]
  PROVE  HandlersTypes'
<1>1. /\ handlers' \in [Stream -> Handlers]
      /\ \A x \in Stream : handlers'[x] = h \/ handlers'[x] = handlers[x]
  BY DEF HandlersTypes
<1> QED BY <1>1 DEF HandlersTypes, OfStarts

LEMMA RestartedType ==
  ASSUME NEW h \in Handlers, OfStarts(h), NEW resume \in BOOLEAN
  PROVE  Restarted(h, resume) \in Handlers /\ OfStarts(Restarted(h, resume))
<1> DEFINE n == h.starts + 1
           d == IF resume THEN h.dispatchers
                ELSE h.dispatchers \cup {[by |-> n, on |-> n]}
<1>1. n \in Nat /\ n \in 1..n /\ 0..h.starts \subseteq 0..n /\ 1..h.starts \subseteq 1..n
  BY DEF Handlers
<1>2. d \in SUBSET [by : Nat, on : Nat] /\ \A x \in d : x.by \in 1..n /\ x.on \in 1..n
  BY <1>1 DEF Handlers, OfStarts
<1>3. Restarted(h, resume) = [h EXCEPT !.processor = "running", !.starts = n, !.dispatchers = d]
  BY DEF Restarted
<1> HIDE DEF n, d
<1>4. /\ Restarted(h, resume) \in Handlers
      /\ Restarted(h, resume).starts = n /\ Restarted(h, resume).dispatchers = d
      /\ Restarted(h, resume).closed = h.closed
  BY <1>1, <1>2, <1>3 DEF Handlers
<1> QED BY <1>1, <1>2, <1>4 DEF OfStarts

LEMMA RewaitsType ==
  ASSUME HandlersTypes, NEW t \in Stream, NEW d \in handlers[t].dispatchers
  PROVE  /\ Rewaits(t, d) \subseteq [by : Nat, on : Nat]
         /\ \A x \in Rewaits(t, d) :
              x.by \in 1..handlers[t].starts /\ x.on \in 1..handlers[t].starts
<1> DEFINE n == handlers[t].starts
<1>1. n \in Nat /\ d \in [by : Nat, on : Nat] /\ d.by \in 1..n
  BY DEF HandlersTypes, Handlers, OfStarts
<1>2. n \in 1..n
  BY <1>1
<1>3. [d EXCEPT !.on = n] = [by |-> d.by, on |-> n]
  BY <1>1
<1> QED BY <1>1, <1>2, <1>3 DEF Rewaits, HandlersTypes, Handlers, OfStarts

LEMMA HandlersTypesStep == Types /\ Next => HandlersTypes'
<1> SUFFICES ASSUME Types, Next PROVE HandlersTypes'
  OBVIOUS
<1> USE DEF streamVars
<1>0. HandlersTypes
  BY DEF Types
<1>1. ASSUME UNCHANGED handlers PROVE HandlersTypes'
  BY <1>0, <1>1 DEF HandlersTypes, OfStarts
<1>2. ASSUME NEW t \in Stream, NEW resume \in BOOLEAN, StartHandlers(t, resume)
      PROVE  HandlersTypes'
  <2> DEFINE h == Restarted(handlers[t], resume)
  <2>1. handlers' = [handlers EXCEPT ![t] = h]
    BY <1>0, <1>2 DEF StartHandlers, HandlersTypes
  <2>2. h \in Handlers /\ OfStarts(h)
    BY <1>0, RestartedType DEF HandlersTypes
  <2> HIDE DEF h
  <2> QED BY <1>0, <2>1, <2>2, HandlersTyped
<1>3. ASSUME NEW t \in Stream, NEW b \in SUBSET Sub,
             NEW d \in handlers[t].dispatchers,
             handlers' = [handlers EXCEPT ![t] =
               [handlers[t] EXCEPT !.dispatchers = Rewaits(t, d), !.batched = b]]
      PROVE  HandlersTypes'
  <2> DEFINE h == [handlers[t] EXCEPT !.dispatchers = Rewaits(t, d), !.batched = b]
  <2>1. handlers[t] \in Handlers /\ OfStarts(handlers[t])
    BY <1>0 DEF HandlersTypes
  <2>2. /\ Rewaits(t, d) \subseteq [by : Nat, on : Nat]
        /\ \A x \in Rewaits(t, d) :
             x.by \in 1..handlers[t].starts /\ x.on \in 1..handlers[t].starts
    BY <1>0, RewaitsType
  <2>3. h \in Handlers
    BY <2>1, <2>2 DEF Handlers
  <2>4. /\ h.closed = handlers[t].closed /\ h.starts = handlers[t].starts
        /\ h.dispatchers = Rewaits(t, d)
    BY <2>1 DEF Handlers
  <2>5. OfStarts(h)
    BY <2>1, <2>2, <2>4 DEF OfStarts
  <2>6. handlers' = [handlers EXCEPT ![t] = h]
    BY <1>3
  <2> HIDE DEF h
  <2> QED BY <1>0, <2>3, <2>5, <2>6, HandlersTyped
(* Nothing is started, closed or made to wait.                             *)
<1>4. ASSUME NEW t \in Stream, NEW h \in Handlers,
             h.starts = handlers[t].starts, h.closed = handlers[t].closed,
             h.dispatchers \subseteq handlers[t].dispatchers,
             handlers' = [handlers EXCEPT ![t] = h]
      PROVE  HandlersTypes'
  <2>1. OfStarts(h)
    BY <1>0, <1>4 DEF HandlersTypes, OfStarts
  <2> QED BY <1>0, <1>4, <2>1, HandlersTyped
<1>5. ASSUME NEW r \in Requester, RequestStep(r) PROVE HandlersTypes'
  <2>1. CASE AddStream(r) \/ ResumeStream(r) \/ PostUpdateStream(r)
    <3>1. req[r].stream \in Stream
      BY <2>1 DEF AddStream, ResumeStream, PostUpdateStream, Called, At, Types, RequestTypes
    <3>2. \/ UNCHANGED handlers
          \/ \E resume \in BOOLEAN : StartHandlers(req[r].stream, resume)
      BY <2>1 DEF AddStream, ResumeStream, PostUpdateStream
    <3> QED BY <1>1, <1>2, <3>1, <3>2
  <2>2. CASE UpdateStream(r)
    <3> DEFINE t == req[r].stream
               h == [handlers[t] EXCEPT !.closed = @ \cup {handlers[t].starts}]
    <3>1. t \in Stream
      BY <2>2 DEF UpdateStream, Called, At, Types, RequestTypes
    <3>2. handlers[t] \in Handlers /\ OfStarts(handlers[t])
      BY <1>0, <3>1 DEF HandlersTypes
    <3>3. h \in Handlers /\ OfStarts(h)
      BY <3>2 DEF Handlers, OfStarts
    <3>4. handlers' = [handlers EXCEPT ![t] = h]
      BY <1>0, <2>2, <3>1 DEF UpdateStream, HandlersTypes
    <3> HIDE DEF h, t
    <3> QED BY <1>0, <3>3, <3>4, HandlersTyped
  <2> QED BY <1>1, <1>5, <2>1, <2>2 DEF RequestStep, NotFound, AddSubscription,
     ResetSubscription, RequestReset, DeleteSubscription, DeleteNextSub, StopStream, Stop,
     SuspendStream, RejectUpdate, StoreFails, StoreStream, StoreSubscription,
     RemoveSubscription, RemoveStream, DeleteCheckpoint
<1>6. ASSUME NEW r \in Requester, Receive(r) PROVE HandlersTypes'
  BY <1>1, <1>6 DEF Receive, CreateStream, SubscribeEvent, UpdateStreamRequest,
     DeleteStreamOrSub, ResetSub, SuspendOrResumeStream, Call
<1>7. ASSUME NEW t \in Stream, PollStep(t) PROVE HandlersTypes'
  <2>1. CASE HandOver(t)
    <3>1. PICK d \in handlers[t].dispatchers :
            handlers' = [handlers EXCEPT ![t].dispatchers = Rewaits(t, d),
                                         ![t].batched = @ \cup {poller[t].sub}]
      BY <2>1 DEF HandOver
    <3> DEFINE b == handlers[t].batched \cup {poller[t].sub}
    <3>2. b \in SUBSET Sub
      BY <1>0, <2>1 DEF HandOver, Poll, Types, PollerTypes, WithSub, HandlersTypes, Handlers
    <3>3. handlers' = [handlers EXCEPT ![t] =
            [handlers[t] EXCEPT !.dispatchers = Rewaits(t, d), !.batched = b]]
      BY <1>0, <3>1 DEF HandlersTypes, Handlers
    <3> HIDE DEF b
    <3> QED BY <1>3, <3>2, <3>3
  <2> QED BY <1>1, <1>7, <2>1 DEF PollStep, PollTop, PollReset, PollHeight, PollFilter,
     PollEvents, PollFails, PollMark, PollWake
<1>8. ASSUME NEW t \in Stream, HandlersStep(t) PROVE HandlersTypes'
  <2>0. handlers[t] \in Handlers
    BY <1>0 DEF HandlersTypes
  <2>1. CASE BatchTimeout(t)
    <3>1. PICK d \in handlers[t].dispatchers :
            handlers' = [handlers EXCEPT ![t].dispatchers = Rewaits(t, d)]
      BY <2>1 DEF BatchTimeout
    <3>2. handlers' = [handlers EXCEPT ![t] =
            [handlers[t] EXCEPT !.dispatchers = Rewaits(t, d), !.batched = handlers[t].batched]]
      BY <1>0, <2>0, <3>1 DEF HandlersTypes, Handlers
    <3> QED BY <1>3, <2>0, <3>2 DEF Handlers
  <2>a. ASSUME NEW ds \in SUBSET handlers[t].dispatchers, NEW b \in SUBSET handlers[t].batched,
               NEW l \in BOOLEAN,
               handlers' = [handlers EXCEPT ![t] =
                 [handlers[t] EXCEPT !.dispatchers = ds, !.batched = b, !.leaked = l]]
        PROVE  HandlersTypes'
    <3> DEFINE h == [handlers[t] EXCEPT !.dispatchers = ds, !.batched = b, !.leaked = l]
    <3>1. /\ h \in Handlers /\ h.starts = handlers[t].starts
          /\ h.closed = handlers[t].closed /\ h.dispatchers \subseteq handlers[t].dispatchers
      BY <2>0 DEF Handlers
    <3>2. handlers' = [handlers EXCEPT ![t] = h]
      BY <2>a
    <3> HIDE DEF h
    <3> QED BY <1>4, <3>1, <3>2
  <2>2. CASE EndDispatcher(t)
    <3>1. PICK d \in handlers[t].dispatchers :
            LET h == [handlers[t] EXCEPT !.dispatchers = @ \ {d}] IN
            \/ handlers' = [handlers EXCEPT ![t] = h]
            \/ \E b \in SUBSET h.batched : handlers' = [handlers EXCEPT ![t] = Dropped(h, b)]
      BY <2>2 DEF EndDispatcher
    <3> DEFINE ds == handlers[t].dispatchers \ {d}
               h == [handlers[t] EXCEPT !.dispatchers = ds]
    <3>2. ds \in SUBSET handlers[t].dispatchers /\ handlers[t].leaked \in BOOLEAN
      BY <2>0 DEF Handlers
    <3>3. /\ h.batched = handlers[t].batched
          /\ h = [handlers[t] EXCEPT !.dispatchers = ds, !.batched = handlers[t].batched,
                                    !.leaked = handlers[t].leaked]
      BY <2>0 DEF Handlers
    <3>4. \A b : Dropped(h, b) =
                  [handlers[t] EXCEPT !.dispatchers = ds, !.batched = b, !.leaked = TRUE]
      BY <2>0 DEF Dropped, Handlers
    <3>5. \/ handlers' = [handlers EXCEPT ![t] = h]
          \/ \E b \in SUBSET handlers[t].batched :
               handlers' = [handlers EXCEPT ![t] = Dropped(h, b)]
      BY <3>1, <3>3
    <3> HIDE DEF ds, h
    <3>6. CASE handlers' = [handlers EXCEPT ![t] = h]
      BY <2>a, <3>2, <3>3, <3>6
    <3>7. ASSUME NEW b \in SUBSET handlers[t].batched,
                 handlers' = [handlers EXCEPT ![t] = Dropped(h, b)]
          PROVE  HandlersTypes'
      BY <2>a, <3>2, <3>4, <3>7
    <3> QED BY <3>5, <3>6, <3>7
  <2>4. CASE DropBatch(t)
    <3>1. PICK b \in SUBSET handlers[t].batched :
            \/ handlers' = [handlers EXCEPT ![t] = Dropped(handlers[t], b)]
            \/ handlers' = [handlers EXCEPT ![t] = [handlers[t] EXCEPT !.batched = b]]
      BY <1>0, <2>4 DEF DropBatch, HandlersTypes
    <3> DEFINE ds == handlers[t].dispatchers
    <3>2. /\ Dropped(handlers[t], b) =
               [handlers[t] EXCEPT !.dispatchers = ds, !.batched = b, !.leaked = TRUE]
          /\ [handlers[t] EXCEPT !.batched = b] =
               [handlers[t] EXCEPT !.dispatchers = ds, !.batched = b,
                                   !.leaked = handlers[t].leaked]
      BY <2>0 DEF Dropped, Handlers
    <3>3. ds \in SUBSET handlers[t].dispatchers /\ handlers[t].leaked \in BOOLEAN
      BY <2>0 DEF Handlers
    <3> HIDE DEF ds
    <3>4. CASE handlers' = [handlers EXCEPT ![t] = Dropped(handlers[t], b)]
      BY <2>a, <3>2, <3>3, <3>4
    <3>5. CASE handlers' = [handlers EXCEPT ![t] = [handlers[t] EXCEPT !.batched = b]]
      BY <2>a, <3>2, <3>3, <3>5
    <3> QED BY <3>1, <3>4, <3>5
  <2>3. CASE EndProcessor(t)
    <3>1. PICK p \in {"ended", "reported", "stuck"} :
            handlers' = [handlers EXCEPT ![t] = [handlers[t] EXCEPT !.processor = p]]
      BY <1>0, <2>0, <2>3 DEF EndProcessor, HandlersTypes, Handlers
    <3> DEFINE h == [handlers[t] EXCEPT !.processor = p]
    <3>2. /\ h \in Handlers /\ h.starts = handlers[t].starts
          /\ h.closed = handlers[t].closed /\ h.dispatchers \subseteq handlers[t].dispatchers
      BY <2>0 DEF Handlers
    <3>3. handlers' = [handlers EXCEPT ![t] = h]
      BY <3>1
    <3> HIDE DEF h
    <3> QED BY <1>4, <3>2, <3>3
  <2> QED BY <1>8, <2>1, <2>2, <2>3, <2>4 DEF HandlersStep
<1>9. ASSUME NEW s \in Sub, BatchComplete(s) PROVE HandlersTypes'
  <2> DEFINE t == Home[s]
             h == [handlers[t] EXCEPT !.batched = handlers[t].batched \ {s}]
  <2>1. t \in Stream /\ handlers[t] \in Handlers
    BY <1>0 DEF HandlersTypes
  <2>2. handlers' = [handlers EXCEPT ![t] = h]
    BY <1>0, <1>9, <2>1 DEF BatchComplete, Process, HandlersTypes, Handlers
  <2>3. /\ h \in Handlers /\ h.starts = handlers[t].starts
        /\ h.closed = handlers[t].closed /\ h.dispatchers \subseteq handlers[t].dispatchers
    BY <2>1 DEF Handlers
  <2> HIDE DEF h, t
  <2> QED BY <1>4, <2>1, <2>2, <2>3
<1>10. CASE NewBlock
  BY <1>1, <1>10 DEF NewBlock
<1>11. CASE Crash \/ \E t \in Stream : SendOnClosed(t)
  <2>1. Recover
    BY <1>11 DEF Crash, SendOnClosed, Restart
  <2>2. NoHandlers \in Handlers /\ OfStarts(NoHandlers)
    BY DEF NoHandlers, Handlers, OfStarts
  <2>3. Restarted(NoHandlers, FALSE) \in Handlers /\ OfStarts(Restarted(NoHandlers, FALSE))
    BY <2>2, RestartedType
  <2>4. handlers' \in [Stream -> {NoHandlers, Restarted(NoHandlers, FALSE)}]
    BY <2>1 DEF Recover
  <2>5. \A t \in Stream : handlers'[t] \in Handlers /\ OfStarts(handlers'[t])
    BY <2>2, <2>3, <2>4
  <2>6. handlers' \in [Stream -> Handlers]
    BY <2>4, <2>5
  <2> QED BY <2>5, <2>6 DEF HandlersTypes, OfStarts
<1> QED BY <1>5, <1>6, <1>7, <1>8, <1>9, <1>10, <1>11 DEF Next

LEMMA SubTypesStep == Types /\ Next => SubTypes'
<1> SUFFICES ASSUME Types, Next PROVE SubTypes'
  OBVIOUS
<1> USE DEF subVars
<1>0. /\ Reached \subseteq Reached' /\ Mark \subseteq Mark' /\ head \in Block
      /\ 0..head \subseteq Mark /\ head + 1 \in Mark /\ 0 \in Mark
  BY HeadStep, ReachedFrom DEF Types
<1>b. /\ fromBlock \in [Sub -> Reached']
      /\ filterStale \in [Sub -> BOOLEAN] /\ deleting \in [Sub -> BOOLEAN]
      /\ resetRequested \in [Sub -> BOOLEAN]
      /\ blockHWM \in [Sub -> Mark'] /\ fetched \in [Sub -> Mark']
  BY <1>0 DEF Types, SubTypes
<1>1. ASSUME UNCHANGED subVars PROVE SubTypes'
  BY <1>b, <1>1 DEF SubTypes
<1>2. ASSUME NEW r \in Requester, RequestStep(r) PROVE SubTypes'
  <2>1. CASE AddSubscription(r) \/ ResetSubscription(r)
    <3>1. req[r].from \in Reached'
      BY <1>0, <2>1 DEF AddSubscription, ResetSubscription, Called, Types, RequestTypes
    <3>2. /\ fromBlock' = [fromBlock EXCEPT ![req[r].sub] = req[r].from]
          /\ UNCHANGED <<filterStale, deleting, resetRequested, blockHWM, fetched>>
      BY <2>1 DEF AddSubscription, ResetSubscription
    <3> QED BY <1>b, <3>1, <3>2 DEF SubTypes
  <2>2. CASE RequestReset(r)
    BY <1>b, <2>2 DEF RequestReset, SubTypes
  <2>3. ASSUME NEW s, Forget(s) PROVE SubTypes'
    BY <1>b, <2>3 DEF Forget, SubTypes
  <2> QED BY <1>1, <1>2, <2>1, <2>2, <2>3 DEF RequestStep, NotFound, AddStream,
     DeleteSubscription, DeleteNextSub, StopStream, Stop, SuspendStream, ResumeStream,
     UpdateStream, PostUpdateStream, RejectUpdate, StoreFails, StoreStream, StoreSubscription,
     RemoveSubscription, RemoveStream, DeleteCheckpoint
<1>3. ASSUME NEW r \in Requester, Receive(r) PROVE SubTypes'
  BY <1>1, <1>3 DEF Receive, CreateStream, SubscribeEvent, UpdateStreamRequest,
     DeleteStreamOrSub, ResetSub, SuspendOrResumeStream, Call
<1>4. ASSUME NEW t \in Stream, PollStep(t) PROVE SubTypes'
  <2>1. CASE (\E s \in Sub : PollReset(t, s)) \/ PollFilter(t) \/ PollFails(t)
    <3>1. /\ (\E s \in Sub : deleting' = [deleting EXCEPT ![s] = FALSE]) \/ UNCHANGED deleting
          /\ \/ \E s \in Sub : resetRequested' = [resetRequested EXCEPT ![s] = FALSE]
             \/ UNCHANGED resetRequested
          /\ \/ \E s \in Sub \cup {poller[t].sub} :
                  \/ filterStale' = [filterStale EXCEPT ![s] = TRUE]
                  \/ filterStale' = [filterStale EXCEPT ![s] = FALSE]
             \/ UNCHANGED filterStale
          /\ UNCHANGED <<fromBlock, blockHWM, fetched>>
      BY <2>1 DEF PollReset, PollFilter, PollFails
    <3>2. /\ filterStale' \in [Sub -> BOOLEAN] /\ deleting' \in [Sub -> BOOLEAN]
          /\ resetRequested' \in [Sub -> BOOLEAN]
      BY <1>b, <3>1
    <3> QED BY <1>b, <3>1, <3>2 DEF SubTypes
  <2>2. CASE PollHeight(t)
    <3>1. head \in Mark' /\ poller[t].checkpoint[poller[t].sub] \in Mark' \cup {None}
      BY <1>0, <2>2 DEF PollHeight, Poll, Types, PollerTypes, Poller, Block, Mark, WithSub
    <3>2. /\ \/ UNCHANGED blockHWM
             \/ blockHWM' = [blockHWM EXCEPT ![poller[t].sub] = head]
             \/ /\ poller[t].checkpoint[poller[t].sub] # None
                /\ blockHWM' =
                     [blockHWM EXCEPT ![poller[t].sub] = poller[t].checkpoint[poller[t].sub]]
          /\ UNCHANGED <<fromBlock, filterStale, deleting, resetRequested, fetched>>
      BY <2>2 DEF PollHeight, InitialBlockHeight, CheckpointBlockHeight
    <3> QED BY <1>b, <3>1, <3>2 DEF SubTypes
  <2>3. CASE HandOver(t)
    <3>1. /\ fetched' = [fetched EXCEPT ![poller[t].sub] = poller[t].since]
          /\ UNCHANGED <<fromBlock, filterStale, deleting, resetRequested, blockHWM>>
      BY <2>3 DEF HandOver
    <3>2. poller[t].since \in Mark'
      BY <1>0 DEF Types, PollerTypes, Poller
    <3> QED BY <1>b, <3>1, <3>2 DEF SubTypes
  <2> QED BY <1>1, <1>4, <2>1, <2>2, <2>3 DEF PollStep, PollTop, PollEvents, PollMark,
     PollWake
<1>5. ASSUME NEW s \in Sub, BatchComplete(s) PROVE SubTypes'
  <2>1. /\ \/ blockHWM' = [blockHWM EXCEPT ![s] = fetched[s]]
           \/ blockHWM' = [blockHWM EXCEPT ![s] = blockHWM[s]]
        /\ UNCHANGED <<fromBlock, filterStale, deleting, resetRequested, fetched>>
    BY <1>5 DEF BatchComplete
  <2> QED BY <1>b, <2>1 DEF SubTypes
<1>6. CASE NewBlock \/ \E t \in Stream : HandlersStep(t)
  BY <1>1, <1>6 DEF NewBlock, HandlersStep, BatchTimeout, EndDispatcher, DropBatch,
     EndProcessor
<1>7. CASE Crash \/ \E t \in Stream : SendOnClosed(t)
  <2>1. Recover
    BY <1>7 DEF Crash, SendOnClosed, Restart
  <2>2. 0 \in Mark' /\ Latest \in Reached'
    BY <1>0 DEF Reached
  <2>3. dbSub \in [Sub -> Reached' \cup {None}]
    BY <1>0 DEF Types, StoreTypes
  <2>4. fromBlock' \in [Sub -> Reached']
    BY <2>1, <2>2, <2>3 DEF Recover
  <2> QED BY <2>1, <2>2, <2>4 DEF Recover, NoMarks, SubTypes
<1> QED BY <1>2, <1>3, <1>4, <1>5, <1>6, <1>7 DEF Next

LEMMA ToldTypesStep == Types /\ Next => ToldTypes'
<1> SUFFICES ASSUME Types, Next PROVE ToldTypes'
  OBVIOUS
<1> USE DEF told
<1>0. Reached \subseteq Reached' /\ head \in Block
  BY HeadStep DEF Types
<1>b. /\ used \subseteq Stream \cup Sub
      /\ toldStream \in [Stream -> {"absent", "active", "suspended"}]
      /\ toldSub \in [Sub -> Reached' \cup {None}] /\ owed \in [Sub -> Reached' \cup {None}]
      /\ unsure \subseteq Stream \cup Sub
  BY <1>0 DEF Types, ToldTypes
<1>1. ASSUME UNCHANGED <<used, told>> PROVE ToldTypes'
  BY <1>b, <1>1 DEF ToldTypes
<1>r. ASSUME NEW r \in Requester
      PROVE  {req[r].stream, req[r].sub} \ {None} \subseteq Stream \cup Sub
  BY DEF Types, RequestTypes, Request
<1>2. ASSUME NEW r \in Requester, RequestStep(r) PROVE ToldTypes'
  <2>1. CASE RequestReset(r) \/ StoreSubscription(r)
    <3>1. req[r].from \in Reached'
      BY <1>0, <2>1 DEF RequestReset, StoreSubscription, At, Types, RequestTypes
    <3>2. /\ toldSub' = [toldSub EXCEPT ![req[r].sub] = req[r].from] \/ UNCHANGED toldSub
          /\ owed' = [owed EXCEPT ![req[r].sub] = req[r].from] \/ UNCHANGED owed
          /\ unsure' \subseteq unsure /\ UNCHANGED <<used, toldStream>>
      BY <2>1 DEF RequestReset, StoreSubscription
    <3> QED BY <1>b, <3>1, <3>2 DEF ToldTypes
  <2>2. CASE DeleteSubscription(r) \/ DeleteNextSub(r)
    <3>1. /\ \E s : owed' = [owed EXCEPT ![s] = None]
          /\ UNCHANGED <<used, toldStream, toldSub>>
          /\ unsure' = unsure \/ \E s \in subs : unsure' = unsure \cup {s}
      BY <2>2 DEF DeleteSubscription, DeleteNextSub, Forget
    <3>2. subs \subseteq Sub
      BY DEF Types, StreamTypes
    <3>3. owed' \in [Sub -> Reached' \cup {None}]
      BY <1>b, <3>1
    <3>4. unsure' \subseteq Stream \cup Sub
      BY <1>b, <3>1, <3>2
    <3> QED BY <1>b, <3>1, <3>3, <3>4 DEF ToldTypes
  <2>3. CASE StoreFails(r)
    <3>1. /\ unsure' = unsure \cup ({req[r].stream, req[r].sub} \ {None})
          /\ UNCHANGED <<used, toldStream, toldSub, owed>>
      BY <2>3 DEF StoreFails
    <3> QED BY <1>b, <1>r, <3>1 DEF ToldTypes
  <2>4. CASE StoreStream(r) \/ RemoveSubscription(r) \/ DeleteCheckpoint(r)
    <3>1. /\ \/ UNCHANGED toldStream
             \/ toldStream' = [toldStream EXCEPT ![req[r].stream] = "absent"]
             \/ toldStream' = [toldStream EXCEPT ![req[r].stream] = Saved(req[r].stream)]
          /\ toldSub' = [toldSub EXCEPT ![req[r].sub] = None] \/ UNCHANGED toldSub
          /\ unsure' \subseteq unsure /\ UNCHANGED <<used, owed>>
      BY <2>4 DEF StoreStream, RemoveSubscription, DeleteCheckpoint
    <3>2. Saved(req[r].stream) \in {"absent", "active", "suspended"}
      BY DEF Saved
    <3> QED BY <1>b, <3>1, <3>2 DEF ToldTypes
  <2> QED BY <1>1, <1>2, <2>1, <2>2, <2>3, <2>4 DEF RequestStep, NotFound, AddStream,
     AddSubscription, ResetSubscription, StopStream, Stop, SuspendStream, ResumeStream,
     UpdateStream, PostUpdateStream, RejectUpdate, RemoveStream
<1>3. ASSUME NEW r \in Requester, Receive(r) PROVE ToldTypes'
  <2>1. UNCHANGED told /\ used' \subseteq Stream \cup Sub
    BY <1>b, <1>3 DEF Receive, CreateStream, SubscribeEvent, UpdateStreamRequest,
       DeleteStreamOrSub, ResetSub, SuspendOrResumeStream, Call
  <2> QED BY <1>b, <2>1 DEF ToldTypes
<1>4. ASSUME NEW t \in Stream, PollStep(t) PROVE ToldTypes'
  <2>1. CASE PollFilter(t)
    <3>1. /\ UNCHANGED <<used, toldStream, toldSub, unsure>>
          /\ LET s == poller[t].sub IN
             \/ UNCHANGED owed
             \/ owed' = [owed EXCEPT ![s] = None]
             \/ owed' = [owed EXCEPT ![s] = owed[s]]
      BY <2>1 DEF PollFilter
    <3> QED BY <1>b, <3>1 DEF ToldTypes
  <2> QED BY <1>1, <1>4, <2>1 DEF PollStep, PollTop, PollReset, PollHeight, PollEvents, HandOver,
     PollFails, PollMark, PollWake
<1>5. CASE Crash \/ \E t \in Stream : SendOnClosed(t)
  <2>1. /\ unsure' = unsure \cup
                       UNION {{req[r].stream, req[r].sub} \ {None} : r \in Requester}
        /\ UNCHANGED <<used, toldStream, toldSub, owed>>
    BY <1>5 DEF Crash, SendOnClosed, Restart
  <2>2. UNION {{req[r].stream, req[r].sub} \ {None} : r \in Requester} \subseteq Stream \cup Sub
    BY <1>r
  <2> QED BY <1>b, <2>1, <2>2 DEF ToldTypes
<1>6. CASE \/ \E s \in Sub : BatchComplete(s)
           \/ \E t \in Stream : HandlersStep(t)
           \/ NewBlock
  BY <1>1, <1>6 DEF BatchComplete, NewBlock, HandlersStep, BatchTimeout, EndDispatcher,
     DropBatch, EndProcessor
<1> QED BY <1>2, <1>3, <1>4, <1>5, <1>6 DEF Next

(* What a record of the poller is typed by in the next state.              *)
LEMMA PollerTyped ==
  ASSUME Types, Next,
         NEW p \in [pc : PC,
                    loaded : BOOLEAN, checkpoint : [Sub -> Mark' \cup {None}], subs : SUBSET Sub,
                    todo : SUBSET Sub, sub : Sub \cup {None}, since : Mark',
                    via : Reached' \cup {None}],
         p.todo \subseteq p.subs,
         p.pc \in WithSub => p.sub \in Sub,
         NEW t \in Stream, poller' = [poller EXCEPT ![t] = p]
  PROVE  PollerTypes'
<1>1. Reached \subseteq Reached' /\ Mark \subseteq Mark'
  BY HeadStep DEF Types
<1>2. p \in Poller'
  BY DEF Poller
<1>3. Poller \subseteq Poller'
  BY <1>1 DEF Poller
<1>4. poller' \in [Stream -> Poller']
  BY <1>2, <1>3 DEF Types, PollerTypes
<1> QED BY <1>4 DEF Types, PollerTypes

LEMMA PollerTypesStep == Types /\ Next => PollerTypes'
<1> SUFFICES ASSUME Types, Next PROVE PollerTypes'
  OBVIOUS
<1>0. /\ Reached \subseteq Reached' /\ Mark \subseteq Mark' /\ head \in Block
      /\ 0..head \subseteq Mark /\ 0 \in Mark /\ head + 1 \in Mark
  BY HeadStep, ReachedFrom DEF Types
<1>c. NoEntries \in [Sub -> Mark' \cup {None}]
  BY DEF NoEntries
<1>1. ASSUME UNCHANGED poller PROVE PollerTypes'
  <2>1. Poller \subseteq Poller'
    BY <1>0 DEF Poller
  <2> QED BY <1>1, <2>1 DEF Types, PollerTypes
<1>2. ASSUME NEW r \in Requester, RequestStep(r) PROVE PollerTypes'
  <2>1. CASE AddStream(r) \/ ResumeStream(r) \/ PostUpdateStream(r)
    <3>1. req[r].stream \in Stream
      BY <2>1 DEF AddStream, ResumeStream, PostUpdateStream, Called, At, Types, RequestTypes
    <3>2. \/ UNCHANGED poller
          \/ poller' = [poller EXCEPT ![req[r].stream] = Started]
      BY <2>1 DEF AddStream, ResumeStream, PostUpdateStream, StartHandlers
    <3> QED BY <1>0, <1>1, <1>c, <3>1, <3>2, PollerTyped DEF Started, Ended, PC, WithSub
  <2> QED BY <1>1, <1>2, <2>1 DEF RequestStep, NotFound, AddSubscription,
     ResetSubscription, RequestReset, DeleteSubscription, DeleteNextSub, StopStream, Stop,
     SuspendStream, UpdateStream, RejectUpdate, StoreFails, StoreStream, StoreSubscription,
     RemoveSubscription, RemoveStream, DeleteCheckpoint
<1>3. ASSUME NEW t \in Stream, PollStep(t) PROVE PollerTypes'
  <2> DEFINE p == poller[t]
  <2>0. /\ p \in [pc : PC,
                  loaded : BOOLEAN, checkpoint : [Sub -> Mark' \cup {None}], subs : SUBSET Sub,
                  todo : SUBSET Sub, sub : Sub \cup {None}, since : Mark',
                  via : Reached' \cup {None}]
        /\ p.checkpoint \in [Sub -> Mark \cup {None}]
        /\ p.todo \subseteq p.subs
        /\ p.pc \in WithSub => p.sub \in Sub
    BY <1>0 DEF Types, PollerTypes, Poller
  <2>e. ASSUME SetPoller(t, Ended) PROVE PollerTypes'
    BY <1>0, <1>c, <2>e, PollerTyped DEF SetPoller, Ended, PC, WithSub
  <2>1. CASE PollTop(t)
    <3> DEFINE mine == {s \in subs : Home[s] = t}
               c == IF p.loaded THEN p.checkpoint ELSE dbCheckpoint[t]
               p1(todo) == [p EXCEPT !.pc = "subs", !.loaded = TRUE, !.checkpoint = c,
                                     !.subs = mine, !.todo = todo]
               p2 == [p EXCEPT !.pc = "sleep"]
    <3>1. \/ SetPoller(t, Ended) \/ poller' = [poller EXCEPT ![t] = p2]
          \/ \E todo \in {{}, mine} : poller' = [poller EXCEPT ![t] = p1(todo)]
      BY <2>1 DEF PollTop, SetPoller
    <3>2. mine \subseteq Sub /\ c \in [Sub -> Mark' \cup {None}]
      BY <1>0, <2>0 DEF Types, StreamTypes, StoreTypes
    <3> HIDE DEF p, mine, c
    <3>3. ASSUME poller' = [poller EXCEPT ![t] = p2] PROVE PollerTypes'
      BY <2>0, <3>3, PollerTyped DEF PC, WithSub
    <3>4. ASSUME NEW todo \in {{}, mine}, poller' = [poller EXCEPT ![t] = p1(todo)]
          PROVE  PollerTypes'
      <4>1. todo \subseteq mine
        OBVIOUS
      <4> QED BY <2>0, <3>2, <3>4, <4>1, PollerTyped DEF PC, WithSub
    <3> QED BY <2>e, <3>1, <3>3, <3>4
  <2>2. ASSUME NEW s \in Sub, PollReset(t, s) PROVE PollerTypes'
    <3> DEFINE c == [p.checkpoint EXCEPT ![s] = IF resetRequested[s] THEN None ELSE @]
               p1 == [p EXCEPT !.pc = "height", !.sub = s, !.todo = p.todo \ {s},
                               !.checkpoint = c]
    <3>1. poller' = [poller EXCEPT ![t] = p1]
      BY <2>2 DEF PollReset, SetPoller
    <3>2. c \in [Sub -> Mark' \cup {None}]
      BY <1>0, <2>0
    <3> HIDE DEF p, c
    <3> QED BY <2>0, <3>1, <3>2, PollerTyped DEF PC, WithSub
  <2>3. CASE PollHeight(t)
    <3> DEFINE p0 == [p EXCEPT !.pc = "events"]
               p1(since, via) == [p EXCEPT !.pc = "filter", !.since = since, !.via = via]
    <3>1. \/ poller' = [poller EXCEPT ![t] = p0]
          \/ poller' = [poller EXCEPT ![t] = p1(head, Latest)]
          \/ /\ fromBlock[p.sub] # Latest
             /\ poller' = [poller EXCEPT ![t] = p1(fromBlock[p.sub], fromBlock[p.sub])]
          \/ /\ p.checkpoint[p.sub] # None
             /\ poller' = [poller EXCEPT ![t] = p1(p.checkpoint[p.sub], None)]
      BY <2>3 DEF PollHeight, InitialBlockHeight, CheckpointBlockHeight, ToFilter, SetPoller
    <3>2. p.pc = "height"
      BY <2>3 DEF PollHeight, Poll
    <3>3. p.sub \in Sub
      BY <2>0, <3>2 DEF WithSub
    <3>4. fromBlock[p.sub] \in Reached
      BY <3>3 DEF Types, SubTypes
    <3>5. fromBlock[p.sub] # Latest =>
            fromBlock[p.sub] \in Mark' /\ fromBlock[p.sub] \in Reached'
      BY <1>0, <3>4 DEF Reached
    <3>6. /\ head \in Mark' /\ Latest \in Reached' 
         /\ p.checkpoint[p.sub] \in Mark' \cup {None}
      BY <1>0, <2>0, <3>3 DEF Reached, Mark, Block
    <3> HIDE DEF p
    <3> QED BY <2>0, <3>1, <3>2, <3>3, <3>5, <3>6, PollerTyped DEF PC, WithSub
  <2>4. CASE PollFilter(t)
    <3> DEFINE p1 == [p EXCEPT !.pc = "events", !.since = 0, !.via = None]
    <3>1. poller' = [poller EXCEPT ![t] = p1] /\ p.pc = "filter"
      BY <2>4 DEF PollFilter, Poll, SetPoller
    <3>2. p.sub \in Sub /\ 0 \in Mark'
      BY <1>0, <2>0, <3>1 DEF WithSub
    <3> HIDE DEF p
    <3> QED BY <2>0, <3>1, <3>2, PollerTyped DEF PC, WithSub
  <2>5. CASE PollEvents(t) \/ PollFails(t)
    <3> DEFINE p1 == [p EXCEPT !.pc = "subs", !.sub = None]
               p2 == [p EXCEPT !.pc = "subs", !.sub = None, !.since = 0, !.via = None]
               p3 == [p EXCEPT !.pc = "handing", !.since = head + 1]
    <3>1. \/ poller' = [poller EXCEPT ![t] = p1] \/ poller' = [poller EXCEPT ![t] = p2]
          \/ p.pc = "events" /\ poller' = [poller EXCEPT ![t] = p3]
      BY <2>5 DEF PollEvents, PollFails, SetPoller, Poll
    <3>2. 0 \in Mark' /\ head + 1 \in Mark'
      BY <1>0
    <3> HIDE DEF p
    <3> QED BY <2>0, <3>1, <3>2, PollerTyped DEF PC, WithSub
  <2>8. CASE HandOver(t)
    <3> DEFINE p1 == [p EXCEPT !.pc = "subs", !.sub = None, !.since = 0]
    <3>1. poller' = [poller EXCEPT ![t] = p1]
      BY <2>8 DEF HandOver, SetPoller
    <3>2. 0 \in Mark'
      BY <1>0
    <3> HIDE DEF p
    <3> QED BY <2>0, <3>1, <3>2, PollerTyped DEF PC, WithSub
  <2>6. CASE PollMark(t)
    <3> DEFINE marks == [s \in Sub |-> IF s \in p.subs THEN blockHWM[s] ELSE p.checkpoint[s]]
               p1 == [p EXCEPT !.pc = "sleep", !.checkpoint = marks, !.subs = {}]
    <3>1. poller' = [poller EXCEPT ![t] = p1] /\ p.todo = {}
      BY <2>6 DEF PollMark, SetPoller
    <3>2. marks \in [Sub -> Mark' \cup {None}]
      BY <1>0, <2>0 DEF Types, SubTypes
    <3> HIDE DEF p, marks
    <3> QED BY <2>0, <3>1, <3>2, PollerTyped DEF PC, WithSub
  <2>7. CASE PollWake(t)
    <3> DEFINE p1 == [p EXCEPT !.pc = "top"]
    <3>1. SetPoller(t, Ended) \/ poller' = [poller EXCEPT ![t] = p1]
      BY <2>7 DEF PollWake, SetPoller
    <3> HIDE DEF p
    <3> QED BY <2>0, <2>e, <3>1, PollerTyped DEF PC, WithSub
  <2> QED BY <1>3, <2>1, <2>2, <2>3, <2>4, <2>5, <2>6, <2>7, <2>8 DEF PollStep
<1>4. ASSUME NEW r \in Requester, Receive(r) PROVE PollerTypes'
  BY <1>1, <1>4 DEF Receive, CreateStream, SubscribeEvent, UpdateStreamRequest,
     DeleteStreamOrSub, ResetSub, SuspendOrResumeStream, Call
<1>5. CASE \/ \E s \in Sub : BatchComplete(s)
           \/ \E t \in Stream : HandlersStep(t)
           \/ NewBlock
  BY <1>1, <1>5 DEF BatchComplete, NewBlock, HandlersStep, BatchTimeout, EndDispatcher,
     DropBatch, EndProcessor
<1>6. CASE Crash \/ \E t \in Stream : SendOnClosed(t)
  <2>1. Recover
    BY <1>6 DEF Crash, SendOnClosed, Restart
  <2>2. /\ Ended \in Poller' /\ Started \in Poller'
        /\ Ended.todo = {} /\ Started.todo = {} /\ Ended.pc = "done" /\ Started.pc = "top"
    BY <1>0, <1>c DEF Ended, Started, Poller, PC
  <2>3. \A t \in Stream : poller'[t] \in {Started, Ended}
    BY <2>1 DEF Recover
  <2>4. poller' \in [Stream -> Poller']
    BY <2>1, <2>2 DEF Recover
  <2> QED BY <2>2, <2>3, <2>4 DEF PollerTypes, WithSub
<1> QED BY <1>2, <1>3, <1>4, <1>5, <1>6 DEF Next

LEMMA TypesStutter == Types /\ UNCHANGED vars => Types'
<1> SUFFICES ASSUME Types, UNCHANGED vars PROVE Types'
  OBVIOUS
<1> USE DEF vars, storeVars, streamVars, flags, subVars, counters, told
<1>1. StoreTypes' /\ StreamTypes' /\ HandlersTypes' /\ SubTypes' /\ ToldTypes'
  BY DEF Types, StoreTypes, StreamTypes, HandlersTypes, OfStarts, SubTypes, ToldTypes,
     Reached, Mark
<1>2. RequestTypes'
  BY DEF Types, RequestTypes, Request, Reached, At
<1>3. PollerTypes'
  BY DEF Types, PollerTypes, Poller, Reached, Mark
<1> QED BY <1>1, <1>2, <1>3 DEF Types

LEMMA TypesStep == Types /\ [Next]_vars => Types'
<1>1. Types /\ Next => Types'
  <2> SUFFICES ASSUME Types, Next PROVE Types'
    OBVIOUS
  <2>1. head' \in Block
    BY HeadStep DEF Types
  <2> QED BY <2>1, StoreTypesStep, StreamTypesStep, HandlersTypesStep, PollerTypesStep,
     SubTypesStep, RequestTypesStep, ToldTypesStep DEF Types
<1> QED BY <1>1, TypesStutter

LEMMA TypesHold == Spec => []Types
BY TypesInit, TypesStep, PTL DEF Spec

(* The state has its types, and no high water mark, checkpoint or filter   *)
(* is ever past the block after the chain's newest, for any streams,       *)
(* subscriptions, requests, failures and restarts (submanager.go,          *)
(* subscription.go, logprocessor.go).                                      *)
THEOREM TypeCorrect == Spec => []TypeOK
BY TypesHold, TypesImplyTypeOK, PTL

-----------------------------------------------------------------------------
(* Requests that overlap are about different streams.  Of those that are   *)
(* not, one can finish in the middle of the other: a reset that is stored  *)
(* after a delete leaves a record which nothing ever removes.              *)
Apart ==
  \A r1, r2 \in Requester :
    r1 # r2 /\ req[r1].stream = req[r2].stream => req[r1].stream = None

(* What is stored of a subscription: while it is in the map, or being      *)
(* deleted; what is stored of a stream: from just after it comes into the  *)
(* map to just after it leaves it.                                         *)
SubRecord(s) ==
  dbSub[s] # None =>
    /\ dbStream[Home[s]] # "absent"
    /\ s \in subs \/ \E r \in Requester : At(r, "deleteSub") /\ req[r].sub = s
StreamRecord(t) ==
  t \in streams =>
    dbStream[t] # "absent" \/ \E r \in Requester : At(r, "putStream") /\ req[r].stream = t
HalfWay(r) ==
  /\ At(r, "putSub") => req[r].sub \in subs
  /\ At(r, "deleteStream") => req[r].stream \notin streams
SubsHaveStreams == \A s \in subs : Home[s] \in streams

Beside ==
  /\ \A s \in Sub : SubRecord(s)
  /\ \A t \in Stream : StreamRecord(t)
  /\ \A r \in Requester : HalfWay(r)
  /\ SubsHaveStreams

OrphanInv == storeFailures \in Nat /\ (storeFailures = 0 => Beside)

(* How far the store can be from what was told: the last step of a request *)
(* makes them agree.                                                       *)
StreamPromise(t) ==
  t \in unsure \/ dbStream[t] = toldStream[t]
    \/ \E r \in Requester : At(r, "deleteCheckpoint") /\ req[r].stream = t
SubPromise(s) ==
  s \in unsure \/ dbSub[s] = toldSub[s]
    \/ \E r \in Requester : At(r, "flag") /\ req[r].sub = s
Underway(r) ==
  /\ At(r, "putSub") => fromBlock[req[r].sub] = req[r].from
  /\ At(r, "flag") => dbSub[req[r].sub] = req[r].from
  /\ At(r, "deleteCheckpoint") => dbStream[req[r].stream] = "absent"
  /\ At(r, "deleteSub") /\ req[r].op = "DeleteStream" => req[r].sub \in unsure

PromiseInv ==
  /\ \A t \in Stream : StreamPromise(t)
  /\ \A s \in Sub : SubPromise(s)
  /\ \A r \in Requester : Underway(r)

-----------------------------------------------------------------------------
(* What a step leaves of the requests.                                     *)

OtherRequests(r) == \A q \in Requester : q # r => req'[q] = req[q]

LEMMA GotoIs ==
  ASSUME RequestTypes, NEW r \in Requester, NEW step, Goto(r, step)
  PROVE  /\ req'[r].step = step
         /\ req'[r].op = req[r].op /\ req'[r].stream = req[r].stream
         /\ req'[r].sub = req[r].sub /\ req'[r].from = req[r].from
         /\ OtherRequests(r)
BY DEF RequestTypes, Request, Goto, OtherRequests

LEMMA FinishIs ==
  ASSUME RequestTypes, NEW r \in Requester, Finish(r)
  PROVE  req'[r] = Idle /\ req'[r].step = "none" /\ req'[r].op = "none" /\ OtherRequests(r)
BY DEF RequestTypes, Finish, Idle, OtherRequests

(* A request that is under way is the only one on its stream.              *)
LEMMA Alone ==
  ASSUME RequestTypes, Apart, NEW r \in Requester, ~At(r, "none"),
         NEW q \in Requester, q # r
  PROVE  /\ req[r].stream \in Stream
         /\ req[q].stream # req[r].stream
         /\ req[q].step \in {"putSub", "flag", "deleteSub"} =>
              Home[req[q].sub] # req[r].stream
BY DEF RequestTypes, Apart

-----------------------------------------------------------------------------
(* Steps that neither store nor change the maps                            *)

Stored == <<dbStream, dbSub, streams, subs>>

LEMMA ReceiveKeeps ==
  ASSUME RequestTypes, NEW r \in Requester, Receive(r)
  PROVE  /\ UNCHANGED <<Stored, fromBlock, told, storeFailures>>
         /\ At(r, "none") /\ req'[r].step = "call" /\ OtherRequests(r)
<1>1. ASSUME NEW op, NEW t, NEW s, NEW b, Call(r, op, t, s, b)
      PROVE  /\ UNCHANGED <<Stored, fromBlock, told, storeFailures>>
             /\ At(r, "none") /\ req'[r].step = "call" /\ OtherRequests(r)
  BY <1>1 DEF Call, Stored, storeVars, subVars, RequestTypes, OtherRequests
<1> QED BY <1>1 DEF Receive, CreateStream, SubscribeEvent, UpdateStreamRequest,
   DeleteStreamOrSub, ResetSub, SuspendOrResumeStream

LEMMA PollKeeps ==
  ASSUME \/ \E t \in Stream : PollStep(t) \/ HandlersStep(t)
         \/ \E s \in Sub : BatchComplete(s)
         \/ NewBlock
  PROVE  /\ UNCHANGED <<Stored, req, fromBlock, toldStream, toldSub, unsure>>
         /\ storeFailures' = storeFailures \/ storeFailures' = storeFailures + 1
<1> USE DEF Stored, storeVars, subVars, told, counters
<1>1. ASSUME NEW t \in Stream, PollStep(t)
      PROVE  /\ UNCHANGED <<Stored, req, fromBlock, toldStream, toldSub, unsure>>
             /\ storeFailures' = storeFailures \/ storeFailures' = storeFailures + 1
  <2>1. CASE PollTop(t)
    BY <2>1 DEF PollTop
  <2>2. ASSUME NEW s \in Sub, PollReset(t, s)
        PROVE  UNCHANGED <<Stored, req, fromBlock, toldStream, toldSub, unsure, storeFailures>>
    BY <2>2 DEF PollReset
  <2>3. CASE PollHeight(t) \/ PollFilter(t) \/ PollEvents(t)
    BY <2>3 DEF PollHeight, PollFilter, PollEvents
  <2>4. CASE HandOver(t) \/ PollFails(t)
    BY <2>4 DEF HandOver, PollFails
  <2>5. CASE PollMark(t)
    BY <2>5 DEF PollMark
  <2>6. CASE PollWake(t)
    BY <2>6 DEF PollWake
  <2> QED BY <1>1, <2>1, <2>2, <2>3, <2>4, <2>5, <2>6 DEF PollStep
<1>2. ASSUME NEW t \in Stream, HandlersStep(t)
      PROVE  UNCHANGED <<Stored, req, fromBlock, toldStream, toldSub, unsure, storeFailures>>
  BY <1>2 DEF HandlersStep, BatchTimeout, EndDispatcher, DropBatch, EndProcessor
<1>3. ASSUME NEW s \in Sub, BatchComplete(s)
      PROVE  UNCHANGED <<Stored, req, fromBlock, toldStream, toldSub, unsure, storeFailures>>
  BY <1>3 DEF BatchComplete
<1>4. CASE NewBlock
  BY <1>4 DEF NewBlock
<1> QED BY <1>1, <1>2, <1>3, <1>4

LEMMA OrphanInit == Init => OrphanInv
BY DEF Init, OrphanInv, Beside, SubRecord, StreamRecord, HalfWay, SubsHaveStreams, Idle, At

LEMMA BesideRequest ==
  ASSUME Types, Apart, Beside, NEW r \in Requester, RequestStep(r), ~StoreFails(r)
  PROVE  Beside'
<1> USE DEF At
<1>0. RequestTypes /\ subs \subseteq Sub
  BY DEF Types, StreamTypes
<1>a. ~At(r, "none") => \A q \in Requester \ {r} :
        /\ req[r].stream \in Stream
        /\ req[q].stream # req[r].stream
        /\ req[q].step \in {"putSub", "flag", "deleteSub"} => Home[req[q].sub] # req[r].stream
  BY <1>0, Alone
(* The request moves on, and nothing was waiting for it where it was.      *)
<1>1. ASSUME UNCHANGED Stored, OtherRequests(r),
             req[r].step \notin {"deleteSub", "putStream"},
             req'[r].step \notin {"putSub", "deleteStream"}
      PROVE  Beside'
  BY <1>1 DEF Beside, SubRecord, StreamRecord, HalfWay, SubsHaveStreams, Stored, OtherRequests
<1>2. CASE NotFound(r) \/ RequestReset(r) \/ SuspendStream(r) \/ ResumeStream(r)
           \/ UpdateStream(r) \/ PostUpdateStream(r) \/ RejectUpdate(r) \/ DeleteCheckpoint(r)
  <2>1. UNCHANGED Stored /\ req[r].step \notin {"deleteSub", "putStream"}
    BY <1>2 DEF NotFound, RequestReset, SuspendStream, ResumeStream, UpdateStream,
       PostUpdateStream, RejectUpdate, DeleteCheckpoint, Called, Stored, storeVars
  <2>2. Finish(r) \/ Goto(r, "putStream") \/ Goto(r, "join")
    BY <1>2 DEF NotFound, RequestReset, SuspendStream, ResumeStream, UpdateStream,
       PostUpdateStream, RejectUpdate, DeleteCheckpoint
  <2>3. OtherRequests(r) /\ req'[r].step \notin {"putSub", "deleteStream"}
    BY <1>0, <2>2, GotoIs, FinishIs
  <2> QED BY <1>1, <2>1, <2>3
<1>3. CASE ResetSubscription(r)
  <2>1. UNCHANGED Stored /\ req[r].step = "call" /\ req[r].sub \in subs /\ Goto(r, "putSub")
    BY <1>3 DEF ResetSubscription, Called, Stored, storeVars
  <2>2. OtherRequests(r) /\ req'[r].step = "putSub" /\ req'[r].sub = req[r].sub
    BY <1>0, <2>1, GotoIs
  <2> QED BY <2>1, <2>2 DEF Beside, SubRecord, StreamRecord, HalfWay, SubsHaveStreams,
     Stored, OtherRequests
<1>4. CASE AddStream(r)
  <2>1. /\ streams' = streams \cup {req[r].stream} /\ UNCHANGED <<dbStream, dbSub, subs>>
        /\ req[r].step = "call" /\ Goto(r, "putStream")
    BY <1>4 DEF AddStream, Called, storeVars
  <2>2. OtherRequests(r) /\ req'[r].step = "putStream" /\ req'[r].stream = req[r].stream
    BY <1>0, <2>1, GotoIs
  <2> QED BY <1>a, <2>1, <2>2 DEF Beside, SubRecord, StreamRecord, HalfWay, SubsHaveStreams,
     OtherRequests
<1>5. CASE AddSubscription(r)
  <2>1. /\ subs' = subs \cup {req[r].sub} /\ UNCHANGED <<dbStream, dbSub, streams>>
        /\ req[r].step = "call" /\ Goto(r, "putSub") /\ req[r].stream \in streams
        /\ req[r].op = "AddSubscription"
    BY <1>5 DEF AddSubscription, Called, storeVars
  <2>2. OtherRequests(r) /\ req'[r].step = "putSub" /\ req'[r].sub = req[r].sub
    BY <1>0, <2>1, GotoIs
  <2>3. req[r].stream = Home[req[r].sub]
    BY <1>0, <2>1 DEF RequestTypes, OfSub
  <2> QED BY <2>1, <2>2, <2>3 DEF Beside, SubRecord, StreamRecord, HalfWay, SubsHaveStreams,
     OtherRequests
<1>6. CASE DeleteSubscription(r) \/ DeleteNextSub(r)
  <2>1. PICK s \in subs :
          /\ subs' = subs \ {s} /\ UNCHANGED <<dbStream, dbSub, streams>>
          /\ req[r].step \in {"call", "deleteSubs"} /\ Home[s] = req[r].stream
          /\ req'[r].step = "deleteSub" /\ req'[r].sub = s /\ OtherRequests(r)
    <3>1. CASE DeleteSubscription(r)
      <4>1. /\ req[r].sub \in subs /\ subs' = subs \ {req[r].sub}
            /\ UNCHANGED <<dbStream, dbSub, streams>>
            /\ req[r].step = "call" /\ Goto(r, "deleteSub") /\ req[r].op \in OfSub
        BY <3>1 DEF DeleteSubscription, Forget, Called, storeVars, OfSub
      <4>2. req'[r].step = "deleteSub" /\ req'[r].sub = req[r].sub /\ OtherRequests(r)
        BY <1>0, <4>1, GotoIs
      <4>3. Home[req[r].sub] = req[r].stream
        BY <1>0, <4>1 DEF RequestTypes
      <4> QED BY <4>1, <4>2, <4>3
    <3>2. CASE DeleteNextSub(r)
      BY <1>0, <3>2 DEF DeleteNextSub, DeletesStream, Forget, Called, storeVars,
         RequestTypes, Request, OtherRequests
    <3> QED BY <1>6, <3>1, <3>2
  <2> QED BY <1>0, <1>a, <2>1 DEF Beside, SubRecord, StreamRecord, HalfWay, SubsHaveStreams,
     OtherRequests
<1>7. CASE StopStream(r)
  <2>1. /\ streams' = streams \ {req[r].stream} /\ UNCHANGED <<dbStream, dbSub, subs>>
        /\ req[r].step \in {"call", "deleteSubs"} /\ NoSubsLeft(r)
        /\ Goto(r, "deleteStream") \/ Goto(r, "hung") \/ Finish(r)
    BY <1>7 DEF StopStream, Stop, DeletesStream, Called, storeVars
  <2>2. /\ OtherRequests(r)
        /\ req'[r].step # "putSub"
        /\ req'[r].step = "deleteStream" => req'[r].stream = req[r].stream
    <3>1. CASE Goto(r, "deleteStream") \/ Goto(r, "hung")
      BY <1>0, <3>1, GotoIs
    <3>2. CASE Finish(r)
      BY <1>0, <3>2, FinishIs
    <3> QED BY <2>1, <3>1, <3>2
  <2> QED BY <1>0, <2>1, <2>2 DEF Beside, SubRecord, StreamRecord, HalfWay, SubsHaveStreams,
     OtherRequests, NoSubsLeft
<1>8. CASE StoreStream(r)
  <2>1. /\ dbStream' = [dbStream EXCEPT ![req[r].stream] = Saved(req[r].stream)]
        /\ UNCHANGED <<dbSub, streams, subs>> /\ req[r].step = "putStream" /\ Finish(r)
    BY <1>8 DEF StoreStream
  <2>2. OtherRequests(r) /\ req'[r].step = "none"
    BY <1>0, <2>1, FinishIs
  <2>3. \A t \in Stream : dbStream'[t] = IF t = req[r].stream THEN Saved(t) ELSE dbStream[t]
    BY <2>1 DEF Types, StoreTypes
  <2>4. \A t \in Stream : Saved(t) # "absent"
    BY DEF Saved
  <2> QED BY <2>1, <2>2, <2>3, <2>4 DEF Beside, SubRecord, StreamRecord, HalfWay,
     SubsHaveStreams, OtherRequests
<1>9. CASE StoreSubscription(r)
  <2>1. /\ dbSub' = [dbSub EXCEPT ![req[r].sub] = fromBlock[req[r].sub]]
        /\ UNCHANGED <<dbStream, streams, subs>> /\ req[r].step = "putSub"
        /\ Goto(r, "flag") \/ Finish(r)
    BY <1>9 DEF StoreSubscription
  <2>2. OtherRequests(r) /\ req'[r].step \in {"flag", "none"}
    BY <1>0, <2>1, GotoIs, FinishIs
  <2>3. \A s \in Sub : s # req[r].sub => dbSub'[s] = dbSub[s]
    BY <2>1 DEF Types, StoreTypes
  <2>4. req[r].sub \in subs /\ req[r].stream = Home[req[r].sub] /\ req[r].sub \in Sub
    BY <1>0, <2>1 DEF Beside, HalfWay, RequestTypes
  <2>5. dbStream[Home[req[r].sub]] # "absent"
    BY <1>0, <1>a, <2>1, <2>4 DEF Beside, StreamRecord, SubsHaveStreams
  <2> QED BY <2>1, <2>2, <2>3, <2>4, <2>5 DEF Beside, SubRecord, StreamRecord, HalfWay,
     SubsHaveStreams, OtherRequests
<1>10. CASE RemoveSubscription(r)
  <2>1. /\ dbSub' = [dbSub EXCEPT ![req[r].sub] = None]
        /\ UNCHANGED <<dbStream, streams, subs>> /\ req[r].step = "deleteSub"
        /\ Goto(r, "deleteSubs") \/ Finish(r)
    BY <1>10 DEF RemoveSubscription
  <2>2. OtherRequests(r) /\ req'[r].step \in {"deleteSubs", "none"}
    BY <1>0, <2>1, GotoIs, FinishIs
  <2>3. \A s \in Sub : dbSub'[s] = IF s = req[r].sub THEN None ELSE dbSub[s]
    BY <2>1 DEF Types, StoreTypes
  <2> QED BY <2>1, <2>2, <2>3 DEF Beside, SubRecord, StreamRecord, HalfWay, SubsHaveStreams,
     OtherRequests
<1>11. CASE RemoveStream(r)
  <2>1. /\ dbStream' = [dbStream EXCEPT ![req[r].stream] = "absent"]
        /\ UNCHANGED <<dbSub, streams, subs>> /\ req[r].step = "deleteStream"
        /\ Goto(r, "deleteCheckpoint")
    BY <1>11 DEF RemoveStream
  <2>2. OtherRequests(r) /\ req'[r].step = "deleteCheckpoint"
    BY <1>0, <2>1, GotoIs
  <2>3. \A t \in Stream : t # req[r].stream => dbStream'[t] = dbStream[t]
    BY <2>1 DEF Types, StoreTypes
  <2>4. req[r].stream \notin streams
    BY <2>1 DEF Beside, HalfWay
  <2>5. \A s \in Sub : dbSub[s] # None => Home[s] # req[r].stream
    BY <1>a, <2>1, <2>4 DEF Beside, SubRecord, SubsHaveStreams
  <2> QED BY <2>1, <2>2, <2>3, <2>4, <2>5 DEF Beside, SubRecord, StreamRecord, HalfWay,
     SubsHaveStreams, OtherRequests
<1> QED BY <1>2, <1>3, <1>4, <1>5, <1>6, <1>7, <1>8, <1>9, <1>10, <1>11 DEF RequestStep

LEMMA RestartRequests ==
  ASSUME Restart
  PROVE  /\ \A r \in Requester : req'[r] = Idle
         /\ UNCHANGED <<dbStream, dbSub, toldStream, toldSub, storeFailures>> /\ Recover
         /\ unsure' = unsure \cup
                        UNION {{req[r].stream, req[r].sub} \ {None} : r \in Requester}
BY DEF Restart, storeVars

LEMMA BesideRestart ==
  ASSUME Types, Beside, Restart
  PROVE  Beside'
<1>1. \A s \in Sub : dbSub[s] # None => dbStream[Home[s]] # "absent"
  BY DEF Beside, SubRecord
<1>2. /\ streams' = {t \in Stream : dbStream[t] # "absent"}
      /\ subs' = {s \in Sub : dbSub[s] # None /\ Home[s] \in streams'}
  BY RestartRequests DEF Recover
<1>3. \A r \in Requester : req'[r].step = "none"
  BY RestartRequests DEF Idle
<1> QED BY <1>1, <1>2, <1>3, RestartRequests DEF Beside, SubRecord, StreamRecord, HalfWay,
   SubsHaveStreams, At

LEMMA OrphanStep == Types /\ Apart /\ OrphanInv /\ [Next]_vars => OrphanInv'
<1> SUFFICES ASSUME Types, Apart, OrphanInv, [Next]_vars PROVE OrphanInv'
  OBVIOUS
<1>0. RequestTypes
  BY DEF Types
<1>1. ASSUME UNCHANGED <<Stored, req>>,
             storeFailures' = storeFailures \/ storeFailures' = storeFailures + 1
      PROVE  OrphanInv'
  BY <1>1 DEF OrphanInv, Beside, SubRecord, StreamRecord, HalfWay, SubsHaveStreams, At, Stored
<1>2. ASSUME NEW r \in Requester, Receive(r) PROVE OrphanInv'
  <2>1. /\ UNCHANGED <<Stored, storeFailures>>
        /\ At(r, "none") /\ req'[r].step = "call" /\ OtherRequests(r)
    BY <1>0, <1>2, ReceiveKeeps
  <2> QED BY <2>1 DEF OrphanInv, Beside, SubRecord, StreamRecord, HalfWay, SubsHaveStreams,
     At, Stored, OtherRequests
<1>3. ASSUME NEW r \in Requester, RequestStep(r) PROVE OrphanInv'
  <2>1. CASE StoreFails(r)
    BY <2>1 DEF StoreFails, OrphanInv
  <2>2. CASE ~StoreFails(r)
    <3>1. storeFailures' = storeFailures \/ storeFailures' = storeFailures + 1
      BY <1>3, <2>2 DEF RequestStep, NotFound, AddStream, AddSubscription,
         ResetSubscription, RequestReset, DeleteSubscription, DeleteNextSub, StopStream, Stop,
         SuspendStream, ResumeStream, UpdateStream, PostUpdateStream, RejectUpdate, StoreStream,
         StoreSubscription, RemoveSubscription, RemoveStream, DeleteCheckpoint, counters
    <3> QED BY <1>3, <2>2, <3>1, BesideRequest DEF OrphanInv
  <2> QED BY <2>1, <2>2
<1>4. CASE Restart
  BY <1>4, RestartRequests, BesideRestart DEF OrphanInv
<1>5. CASE UNCHANGED vars
  BY <1>1, <1>5 DEF vars, Stored, storeVars, counters
<1> QED BY <1>1, <1>2, <1>3, <1>4, <1>5, PollKeeps DEF Next, Crash, SendOnClosed

(* While no write fails and overlapping requests are about different       *)
(* streams, the store never has a subscription without its stream: not in  *)
(* the middle of any request, and after a restart in the middle of any     *)
(* (submanager.go DeleteStream, deleteSubscription, AddSubscription,       *)
(* recoverStreams, recoverSubscriptions).                                  *)
THEOREM Orphans == Spec /\ []Apart => []NoOrphans
<1>1. OrphanInv => NoOrphans
  BY DEF OrphanInv, Beside, SubRecord, NoOrphans
<1> QED BY <1>1, TypesHold, OrphanInit, OrphanStep, PTL DEF Spec

LEMMA OneRequester ==
  ASSUME \A r1, r2 \in Requester : r1 = r2 PROVE Spec => []Apart
<1>1. Apart
  BY DEF Apart
<1> QED BY <1>1, PTL

(* The same without the proviso, when the server works on one request at a *)
(* time.                                                                   *)
COROLLARY OrphansOneByOne ==
  ASSUME \A r1, r2 \in Requester : r1 = r2 PROVE Spec => []NoOrphans
BY OneRequester, Orphans, PTL

-----------------------------------------------------------------------------
(* What clients were told                                                  *)

LEMMA PromiseInit == Init => PromiseInv
BY DEF Init, PromiseInv, StreamPromise, SubPromise, Underway, Idle, At

Facts == <<dbStream, dbSub, toldStream, toldSub, unsure>>

LEMMA PromiseRequest ==
  ASSUME Types, Apart, PromiseInv, NEW r \in Requester, RequestStep(r)
  PROVE  PromiseInv'
<1> USE DEF At
<1>0. RequestTypes /\ subs \subseteq Sub
  BY DEF Types, StreamTypes
<1>a. ~At(r, "none") => \A q \in Requester \ {r} :
        /\ req[r].stream \in Stream
        /\ req[q].stream # req[r].stream
        /\ req[q].step \in {"putSub", "flag", "deleteSub"} => Home[req[q].sub] # req[r].stream
  BY <1>0, Alone
<1>b. \A q \in Requester :
        /\ req[q].step # "none" => req[q].stream \in Stream
        /\ req[q].step \in {"putSub", "flag", "deleteSub"} =>
             req[q].sub \in Sub /\ req[q].stream = Home[req[q].sub]
  BY <1>0 DEF RequestTypes
<1>1. ASSUME UNCHANGED <<Facts, fromBlock>>, OtherRequests(r),
             req[r].step \notin {"flag", "deleteCheckpoint"},
             req'[r].step \notin {"putSub", "flag", "deleteCheckpoint"},
             req'[r].step = "deleteSub" => req'[r].op # "DeleteStream"
      PROVE  PromiseInv'
  BY <1>1 DEF PromiseInv, StreamPromise, SubPromise, Underway, Facts, OtherRequests
<1>2. CASE NotFound(r) \/ AddStream(r) \/ StopStream(r) \/ SuspendStream(r)
           \/ ResumeStream(r) \/ UpdateStream(r) \/ PostUpdateStream(r) \/ RejectUpdate(r)
  <2>1. UNCHANGED <<Facts, fromBlock>> /\ req[r].step \notin {"flag", "deleteCheckpoint"}
    BY <1>2 DEF NotFound, AddStream, StopStream, Stop, DeletesStream, SuspendStream, ResumeStream,
       UpdateStream, PostUpdateStream, RejectUpdate, Called, Facts, storeVars, subVars, told
  <2>2. Finish(r) \/ \E s \in {"putStream", "deleteStream", "join", "hung"} : Goto(r, s)
    BY <1>2 DEF NotFound, AddStream, StopStream, Stop, SuspendStream, ResumeStream, UpdateStream,
       PostUpdateStream, RejectUpdate
  <2>3. OtherRequests(r) /\ req'[r].step \in {"none", "putStream", "deleteStream", "join", "hung"}
    BY <1>0, <2>2, GotoIs, FinishIs
  <2> QED BY <1>1, <2>1, <2>3
<1>3. CASE DeleteSubscription(r)
  <2>1. /\ UNCHANGED <<Facts, fromBlock>> /\ req[r].step = "call"
        /\ req[r].op = "DeleteSubscription" /\ Goto(r, "deleteSub")
    BY <1>3 DEF DeleteSubscription, Forget, Called, Facts, storeVars
  <2>2. OtherRequests(r) /\ req'[r].step = "deleteSub" /\ req'[r].op = "DeleteSubscription"
    BY <1>0, <2>1, GotoIs
  <2> QED BY <1>1, <2>1, <2>2
<1>4. CASE AddSubscription(r) \/ ResetSubscription(r)
  <2>1. /\ fromBlock' = [fromBlock EXCEPT ![req[r].sub] = req[r].from] /\ UNCHANGED Facts
        /\ req[r].step = "call" /\ req[r].op \in OfSub /\ Goto(r, "putSub")
    BY <1>4 DEF AddSubscription, ResetSubscription, Called, Facts, storeVars, told, OfSub
  <2>2. /\ OtherRequests(r) /\ req'[r].step = "putSub"
        /\ req'[r].sub = req[r].sub /\ req'[r].from = req[r].from
    BY <1>0, <2>1, GotoIs
  <2>3. req[r].sub \in Sub /\ req[r].stream = Home[req[r].sub]
    BY <1>0, <2>1 DEF RequestTypes
  <2>4. /\ fromBlock'[req[r].sub] = req[r].from
        /\ \A s \in Sub : s # req[r].sub => fromBlock'[s] = fromBlock[s]
    BY <2>1, <2>3 DEF Types, SubTypes
  <2> QED BY <1>a, <1>b, <2>1, <2>2, <2>3, <2>4 DEF PromiseInv, StreamPromise, SubPromise,
     Underway, Facts, OtherRequests
<1>5. CASE DeleteNextSub(r)
  <2>1. PICK s \in subs :
          /\ unsure' = unsure \cup {s}
          /\ UNCHANGED <<dbStream, dbSub, toldStream, toldSub, fromBlock>>
          /\ req[r].step \in {"call", "deleteSubs"}
          /\ req'[r].step = "deleteSub" /\ req'[r].sub = s /\ OtherRequests(r)
    BY <1>0, <1>5 DEF DeleteNextSub, DeletesStream, Forget, Called, storeVars,
       RequestTypes, Request, OtherRequests
  <2> QED BY <2>1 DEF PromiseInv, StreamPromise, SubPromise, Underway, OtherRequests
<1>6. CASE RequestReset(r)
  <2>1. /\ toldSub' = [toldSub EXCEPT ![req[r].sub] = req[r].from]
        /\ unsure' = unsure \ {req[r].sub} /\ req[r].step = "flag" /\ Finish(r)
        /\ UNCHANGED <<dbStream, dbSub, toldStream, fromBlock>>
    BY <1>6 DEF RequestReset, storeVars
  <2>2. OtherRequests(r) /\ req'[r].step = "none"
    BY <1>0, <2>1, FinishIs
  <2>3. \A s \in Sub : toldSub'[s] = IF s = req[r].sub THEN req[r].from ELSE toldSub[s]
    BY <2>1 DEF Types, ToldTypes
  <2>4. req[r].sub \in Sub /\ dbSub[req[r].sub] = req[r].from /\ req[r].sub \notin Stream
    BY <1>b, <2>1 DEF PromiseInv, Underway
  <2> QED BY <1>a, <1>b, <2>1, <2>2, <2>3, <2>4 DEF PromiseInv, StreamPromise, SubPromise,
     Underway, OtherRequests
<1>7. CASE StoreFails(r)
  <2>1. /\ unsure \subseteq unsure'
        /\ Goto(r, "deleteSubs") \/ Finish(r)
        /\ UNCHANGED <<dbStream, dbSub, toldStream, toldSub, fromBlock>>
        /\ req[r].step \in {"putStream", "putSub", "deleteSub", "deleteStream"}
    BY <1>7 DEF StoreFails, storeVars, subVars
  <2>2. OtherRequests(r) /\ req'[r].step \in {"none", "deleteSubs"}
    BY <1>0, <2>1, GotoIs, FinishIs
  <2> QED BY <2>1, <2>2 DEF PromiseInv, StreamPromise, SubPromise, Underway, OtherRequests
<1>8. CASE StoreStream(r)
  <2>1. /\ dbStream' = [dbStream EXCEPT ![req[r].stream] = Saved(req[r].stream)]
        /\ toldStream' = [toldStream EXCEPT ![req[r].stream] = Saved(req[r].stream)]
        /\ unsure' = unsure \ {req[r].stream} /\ req[r].step = "putStream" /\ Finish(r)
        /\ UNCHANGED <<dbSub, toldSub, fromBlock>>
    BY <1>8 DEF StoreStream, subVars
  <2>2. OtherRequests(r) /\ req'[r].step = "none"
    BY <1>0, <2>1, FinishIs
  <2>3. \A t \in Stream :
          /\ dbStream'[t] = IF t = req[r].stream THEN Saved(t) ELSE dbStream[t]
          /\ toldStream'[t] = IF t = req[r].stream THEN Saved(t) ELSE toldStream[t]
    BY <2>1 DEF Types, StoreTypes, ToldTypes
  <2>4. req[r].stream \in Stream /\ req[r].stream \notin Sub
    BY <1>b, <2>1
  <2> HIDE DEF At
  <2>5. \A t \in Stream : StreamPromise(t)'
    BY <2>1, <2>2, <2>3 DEF PromiseInv, StreamPromise, At, OtherRequests
  <2>6. \A s \in Sub : SubPromise(s)'
    BY <2>1, <2>2, <2>4 DEF PromiseInv, SubPromise, At, OtherRequests
  <2>7. \A q \in Requester : Underway(q)'
    BY <1>a, <1>b, <2>1, <2>2, <2>3, <2>4 DEF PromiseInv, Underway, At, OtherRequests
  <2> QED BY <2>5, <2>6, <2>7 DEF PromiseInv
<1>9. CASE StoreSubscription(r)
  <2>1. /\ dbSub' = [dbSub EXCEPT ![req[r].sub] = fromBlock[req[r].sub]]
        /\ UNCHANGED <<dbStream, toldStream, unsure, fromBlock>> /\ req[r].step = "putSub"
        /\ \/ Goto(r, "flag") /\ UNCHANGED toldSub
           \/ Finish(r) /\ toldSub' = [toldSub EXCEPT ![req[r].sub] = req[r].from]
    BY <1>9 DEF StoreSubscription, told, subVars
  <2>2. req[r].sub \in Sub /\ fromBlock[req[r].sub] = req[r].from
    BY <1>b, <2>1 DEF PromiseInv, Underway
  <2>3. \A s \in Sub : dbSub'[s] = IF s = req[r].sub THEN req[r].from ELSE dbSub[s]
    BY <2>1, <2>2 DEF Types, StoreTypes
  <2>4. CASE Goto(r, "flag") /\ UNCHANGED toldSub
    <3>1. /\ OtherRequests(r) /\ req'[r].step = "flag"
          /\ req'[r].sub = req[r].sub /\ req'[r].from = req[r].from
      BY <1>0, <2>4, GotoIs
    <3> QED BY <1>a, <1>b, <2>1, <2>2, <2>3, <2>4, <3>1 DEF PromiseInv, StreamPromise,
       SubPromise, Underway, OtherRequests
  <2>5. CASE Finish(r) /\ toldSub' = [toldSub EXCEPT ![req[r].sub] = req[r].from]
    <3>1. OtherRequests(r) /\ req'[r].step = "none"
      BY <1>0, <2>5, FinishIs
    <3>2. \A s \in Sub : toldSub'[s] = IF s = req[r].sub THEN req[r].from ELSE toldSub[s]
      BY <2>5 DEF Types, ToldTypes
    <3> QED BY <1>a, <1>b, <2>1, <2>2, <2>3, <3>1, <3>2 DEF PromiseInv, StreamPromise,
       SubPromise, Underway, OtherRequests
  <2> QED BY <2>1, <2>4, <2>5
<1>10. CASE RemoveSubscription(r)
  <2>1. /\ dbSub' = [dbSub EXCEPT ![req[r].sub] = None]
        /\ UNCHANGED <<dbStream, toldStream, fromBlock>> /\ req[r].step = "deleteSub"
        /\ \/ req[r].op = "DeleteStream" /\ Goto(r, "deleteSubs") /\ UNCHANGED <<toldSub, unsure>>
           \/ /\ Finish(r) /\ toldSub' = [toldSub EXCEPT ![req[r].sub] = None]
              /\ unsure' = unsure \ {req[r].sub}
    BY <1>10 DEF RemoveSubscription, told, subVars
  <2>2. req[r].sub \in Sub /\ req[r].sub \notin Stream
    BY <1>b, <2>1
  <2>3. \A s \in Sub : dbSub'[s] = IF s = req[r].sub THEN None ELSE dbSub[s]
    BY <2>1 DEF Types, StoreTypes
  <2>4. CASE req[r].op = "DeleteStream" /\ Goto(r, "deleteSubs") /\ UNCHANGED <<toldSub, unsure>>
    <3>1. OtherRequests(r) /\ req'[r].step = "deleteSubs"
      BY <1>0, <2>4, GotoIs
    <3>2. req[r].sub \in unsure
      BY <2>1, <2>4 DEF PromiseInv, Underway
    <3> QED BY <1>a, <1>b, <2>1, <2>2, <2>3, <2>4, <3>1, <3>2 DEF PromiseInv, StreamPromise,
       SubPromise, Underway, OtherRequests
  <2>5. CASE /\ Finish(r) /\ toldSub' = [toldSub EXCEPT ![req[r].sub] = None]
             /\ unsure' = unsure \ {req[r].sub}
    <3>1. OtherRequests(r) /\ req'[r].step = "none"
      BY <1>0, <2>5, FinishIs
    <3>2. \A s \in Sub : toldSub'[s] = IF s = req[r].sub THEN None ELSE toldSub[s]
      BY <2>5 DEF Types, ToldTypes
    <3> QED BY <1>a, <1>b, <2>1, <2>2, <2>3, <2>5, <3>1, <3>2 DEF PromiseInv, StreamPromise,
       SubPromise, Underway, OtherRequests
  <2> QED BY <2>1, <2>4, <2>5
<1>11. CASE RemoveStream(r)
  <2>1. /\ dbStream' = [dbStream EXCEPT ![req[r].stream] = "absent"]
        /\ UNCHANGED <<dbSub, toldStream, toldSub, unsure, fromBlock>>
        /\ req[r].step = "deleteStream" /\ Goto(r, "deleteCheckpoint")
    BY <1>11 DEF RemoveStream, told, subVars
  <2>2. /\ OtherRequests(r) /\ req'[r].step = "deleteCheckpoint"
        /\ req'[r].stream = req[r].stream
    BY <1>0, <2>1, GotoIs
  <2>3. \A t \in Stream : dbStream'[t] = IF t = req[r].stream THEN "absent" ELSE dbStream[t]
    BY <2>1 DEF Types, StoreTypes
  <2> QED BY <1>a, <1>b, <2>1, <2>2, <2>3 DEF PromiseInv, StreamPromise, SubPromise,
     Underway, OtherRequests
<1>12. CASE DeleteCheckpoint(r)
  <2>1. /\ toldStream' = [toldStream EXCEPT ![req[r].stream] = "absent"]
        /\ unsure' = unsure \ {req[r].stream} /\ req[r].step = "deleteCheckpoint" /\ Finish(r)
        /\ UNCHANGED <<dbStream, dbSub, toldSub, fromBlock>>
    BY <1>12 DEF DeleteCheckpoint, subVars
  <2>2. OtherRequests(r) /\ req'[r].step = "none"
    BY <1>0, <2>1, FinishIs
  <2>3. \A t \in Stream : toldStream'[t] = IF t = req[r].stream THEN "absent" ELSE toldStream[t]
    BY <2>1 DEF Types, ToldTypes
  <2>4. /\ req[r].stream \in Stream /\ req[r].stream \notin Sub
        /\ dbStream[req[r].stream] = "absent"
    BY <1>b, <2>1 DEF PromiseInv, Underway
  <2> QED BY <1>a, <1>b, <2>1, <2>2, <2>3, <2>4 DEF PromiseInv, StreamPromise, SubPromise,
     Underway, OtherRequests
<1> QED BY <1>2, <1>3, <1>4, <1>5, <1>6, <1>7, <1>8, <1>9, <1>10, <1>11, <1>12 DEF RequestStep

LEMMA PromiseStep == Types /\ Apart /\ PromiseInv /\ [Next]_vars => PromiseInv'
<1> SUFFICES ASSUME Types, Apart, PromiseInv, [Next]_vars PROVE PromiseInv'
  OBVIOUS
<1>0. RequestTypes
  BY DEF Types
<1>1. ASSUME UNCHANGED <<Facts, req, fromBlock>> PROVE PromiseInv'
  BY <1>1 DEF PromiseInv, StreamPromise, SubPromise, Underway, At, Facts
<1>2. ASSUME NEW r \in Requester, Receive(r) PROVE PromiseInv'
  <2>1. /\ UNCHANGED <<Facts, fromBlock>>
        /\ At(r, "none") /\ req'[r].step = "call" /\ OtherRequests(r)
    BY <1>0, <1>2, ReceiveKeeps DEF Stored, Facts, told
  <2> QED BY <2>1 DEF PromiseInv, StreamPromise, SubPromise, Underway, At, Facts,
     OtherRequests
<1>3. ASSUME NEW r \in Requester, RequestStep(r) PROVE PromiseInv'
  BY <1>3, PromiseRequest
<1>4. CASE Restart
  <2>1. \A r \in Requester : req'[r].step = "none"
    BY <1>4, RestartRequests DEF Idle
  <2>2. \A r \in Requester, x \in Stream \cup Sub :
          x \in {req[r].stream, req[r].sub} => x \in unsure'
    BY <1>4, RestartRequests
  <2>3. unsure \subseteq unsure' /\ UNCHANGED <<dbStream, dbSub, toldStream, toldSub>>
    BY <1>4, RestartRequests
  <2> QED BY <2>1, <2>2, <2>3 DEF PromiseInv, StreamPromise, SubPromise, Underway, At
<1>5. CASE UNCHANGED vars
  BY <1>1, <1>5 DEF vars, Facts, storeVars, subVars, told
<1>6. ASSUME \/ \E t \in Stream : PollStep(t) \/ HandlersStep(t)
             \/ \E s \in Sub : BatchComplete(s)
             \/ NewBlock
      PROVE  PromiseInv'
  BY <1>1, <1>6, PollKeeps DEF Facts, Stored
<1> QED BY <1>2, <1>3, <1>4, <1>5, <1>6 DEF Next, Crash, SendOnClosed

(* While overlapping requests are about different streams, the store holds *)
(* what clients were told last of each stream and subscription, through    *)
(* polls, failed writes and restarts (submanager.go AddStream to           *)
(* ResetSubscription).                                                     *)
THEOREM Promises == Spec /\ []Apart => []PromisesKept
<1>1. Types /\ PromiseInv => PromisesKept
  BY DEF Types, RequestTypes, PromiseInv, StreamPromise, SubPromise, PromisesKept, Busy, At
<1> QED BY <1>1, TypesHold, PromiseInit, PromiseStep, PTL DEF Spec

(* The same without the proviso, when the server works on one request at a *)
(* time.                                                                   *)
COROLLARY PromisesOneByOne ==
  ASSUME \A r1, r2 \in Requester : r1 = r2 PROVE Spec => []PromisesKept
BY OneRequester, Promises, PTL
=============================================================================
