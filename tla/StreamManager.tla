---------------------------- MODULE StreamManager ----------------------------
(***************************************************************************)
(* The subscription manager (maidenlaneevents/submanager.go): its maps of  *)
(* streams and subscriptions, what it stores of them, the REST requests    *)
(* that change them, and the poller of each stream, which serves resets    *)
(* and writes checkpoints while requests come and go.                      *)
(*                                                                         *)
(* EventStream models what one stream does with its events; here events    *)
(* are only the blocks they move a high water mark past, and of the        *)
(* goroutines that deliver them what an update, a suspension or a stop     *)
(* does to the poller through them.  A request is a                        *)
(* process of its own that changes the maps in one step and the store in   *)
(* another; nothing locks the maps.  A request that is refused before it   *)
(* changes anything (events not configured, no such identifier, a bad      *)
(* body) is not a step.                                                    *)
(***************************************************************************)
EXTENDS Naturals, FiniteSets

CONSTANTS
  Stream, Sub,     \* identifiers; UUIDv4 gives none of them twice
  Home,            \* Home[s]: the stream that the subscription s is made for
  Requester,       \* the requests that can be under way at a time
  Latest, None,    \* FromBlockLatest; no record
  MaxBlock,        \* bound: the chain's height
  MaxRequests,     \* bound: requests and failed calls together
  MaxCrashes, MaxStoreFailures, MaxRPCFailures,   \* bounds of each kind of fault
  MaxOutside       \* bound: new blocks and faults together

Block == 0..MaxBlock
From == Block \cup {Latest}

ASSUME StreamAssumption ==
  /\ IsFiniteSet(Stream) /\ IsFiniteSet(Sub) /\ Stream \cap Sub = {}
  /\ Home \in [Sub -> Stream]
  /\ None \notin Stream \cup Sub
  /\ {MaxBlock, MaxRequests, MaxCrashes, MaxStoreFailures, MaxRPCFailures, MaxOutside}
       \subseteq Nat
  /\ Latest \notin Nat /\ None \notin Nat /\ Latest # None

VARIABLES
  \* LevelDB
  dbStream,        \* dbStream[t]: "absent", "active" or "suspended"
  dbSub,           \* dbSub[s]: the FromBlock of its record, or None
  dbCheckpoint,    \* dbCheckpoint[t][s]: a mark, or None
  \* subscriptionMGR
  streams, subs,   \* the keys of its maps
  \* eventStream
  suspended, stopped, updateInProgress,
  poller,          \* poller[t]: the goroutine eventPoller
  handlers,        \* handlers[t]: batchProcessor, the batchDispatchers, their events
  \* subscription and its logProcessor
  fromBlock, filterStale, deleting, resetRequested,
  blockHWM,        \* 0 until it is set
  fetched,         \* the block after the newest one whose events the stream has
  \* the chain
  head,
  \* requests
  req,
  used,            \* identifiers that were given out
  requests, crashes, storeFailures, rpcFailures,
  \* what clients were told (history variables)
  toldStream, toldSub,   \* the state a successful reply reported last
  unsure,          \* those whose last request failed or was lost
  owed             \* owed[s]: the block of a reset accepted and not yet served

storeVars == <<dbStream, dbSub, dbCheckpoint>>
flags == <<suspended, stopped, updateInProgress>>
streamVars == <<flags, handlers>>
subVars == <<fromBlock, filterStale, deleting, resetRequested, blockHWM, fetched>>
counters == <<requests, crashes, storeFailures, rpcFailures>>
told == <<toldStream, toldSub, unsure, owed>>
vars == <<storeVars, streams, subs, streamVars, poller, subVars, head, req, used,
          counters, told>>

NoMarks == [s \in Sub |-> 0]
NoEntries == [s \in Sub |-> None]
Ended == [pc |-> "done", loaded |-> FALSE, checkpoint |-> NoEntries, subs |-> {},
          todo |-> {}, sub |-> None, since |-> 0, via |-> None]
Started == [Ended EXCEPT !.pc = "top"]

(* processor: "running", "reported" (it ended and told updateWG), "ended"  *)
(* (without a word) or "stuck" (waiting in its select with batchCond.L     *)
(* locked).  starts: how often startEventHandlers ran, each time with an   *)
(* updateInterrupt and an updateWG of its own; closed: those whose         *)
(* updateInterrupt is closed.  A dispatcher was started by the start "by"  *)
(* and waits on the updateInterrupt of the start "on".  batched: the       *)
(* subscriptions with events in batches; leaked: inFlight counts events    *)
(* that were dropped.                                                      *)
NoHandlers == [processor |-> "ended", starts |-> 0, closed |-> {}, dispatchers |-> {},
               batched |-> {}, leaked |-> FALSE]

(* startEventHandlers: a resume starts no dispatcher.                      *)
Restarted(h, resume) ==
  LET n == h.starts + 1 IN
  [h EXCEPT !.processor = "running", !.starts = n,
            !.dispatchers = IF resume THEN @ ELSE @ \cup {[by |-> n, on |-> n]}]
Idle == [op |-> "none", step |-> "none", stream |-> None, sub |-> None, from |-> None]

Init ==
  /\ dbStream = [t \in Stream |-> "absent"]
  /\ dbSub = [s \in Sub |-> None]
  /\ dbCheckpoint = [t \in Stream |-> NoEntries]
  /\ streams = {} /\ subs = {}
  /\ suspended = [t \in Stream |-> FALSE]
  /\ stopped = [t \in Stream |-> FALSE]
  /\ updateInProgress = [t \in Stream |-> FALSE]
  /\ poller = [t \in Stream |-> Ended]
  /\ handlers = [t \in Stream |-> NoHandlers]
  /\ fromBlock = [s \in Sub |-> Latest]
  /\ filterStale = [s \in Sub |-> TRUE]
  /\ deleting = [s \in Sub |-> FALSE]
  /\ resetRequested = [s \in Sub |-> FALSE]
  /\ blockHWM = NoMarks /\ fetched = NoMarks
  /\ head = 0
  /\ req = [r \in Requester |-> Idle]
  /\ used = {}
  /\ requests = 0 /\ crashes = 0 /\ storeFailures = 0 /\ rpcFailures = 0
  /\ toldStream = [t \in Stream |-> "absent"]
  /\ toldSub = [s \in Sub |-> None]
  /\ unsure = {}
  /\ owed = [s \in Sub |-> None]

MayHappen == head + crashes + storeFailures + rpcFailures < MaxOutside
MayCall == requests + storeFailures + rpcFailures < MaxRequests
StoreMayFail == MayHappen /\ MayCall /\ storeFailures < MaxStoreFailures
RPCMayFail == MayHappen /\ MayCall /\ rpcFailures < MaxRPCFailures

StartHandlers(t, resume) ==
  /\ poller' = [poller EXCEPT ![t] = Started]
  /\ handlers' = [handlers EXCEPT ![t] = Restarted(@, resume)]

SuspendOrStop(t) == suspended[t] \/ stopped[t]
Interrupted(t) == handlers[t].starts \in handlers[t].closed
Unlocked(t) == handlers[t].processor # "stuck"

(* updateWG: what the last start counts has reported.                      *)
Joined(t) ==
  /\ poller[t].pc = "done" /\ handlers[t].processor = "reported"
  /\ \A d \in handlers[t].dispatchers : d.by # handlers[t].starts

-----------------------------------------------------------------------------
(* Requests                                                                *)

At(r, step) == req[r].step = step
Goto(r, step) == req' = [req EXCEPT ![r].step = step]
Finish(r) == req' = [req EXCEPT ![r] = Idle]

(* A handler calls the manager.                                            *)
Call(r, op, t, s, b) ==
  /\ At(r, "none") /\ MayCall
  /\ requests' = requests + 1
  /\ req' = [req EXCEPT ![r] =
       [op |-> op, step |-> "call", stream |-> t, sub |-> s, from |-> b]]
  /\ UNCHANGED <<storeVars, streams, subs, streamVars, poller, subVars, head,
                 crashes, storeFailures, rpcFailures, told>>

(* The REST handlers.  A FromBlock is one the chain has reached, or empty  *)
(* or "latest".                                                            *)
CreateStream(r, t) ==
  t \notin used /\ used' = used \cup {t} /\ Call(r, "AddStream", t, None, None)
SubscribeEvent(r, s) ==
  /\ s \notin used /\ used' = used \cup {s}
  /\ \E b \in 0..head \cup {Latest} : Call(r, "AddSubscription", Home[s], s, b)
UpdateStreamRequest(r, t) ==
  t \in streams /\ UNCHANGED used /\ Call(r, "UpdateStream", t, None, None)
DeleteStreamOrSub(r) ==
  /\ UNCHANGED used
  /\ \/ \E t \in Stream \cap used : Call(r, "DeleteStream", t, None, None)
     \/ \E s \in Sub \cap used : Call(r, "DeleteSubscription", Home[s], s, None)
ResetSub(r, s) ==
  /\ s \in used /\ UNCHANGED used
  /\ \E b \in 0..head \cup {Latest} : Call(r, "ResetSubscription", Home[s], s, b)
SuspendOrResumeStream(r, t) ==
  /\ t \in used /\ UNCHANGED used
  /\ Call(r, "SuspendStream", t, None, None) \/ Call(r, "ResumeStream", t, None, None)

Receive(r) ==
  \/ \E t \in Stream : \/ CreateStream(r, t) \/ UpdateStreamRequest(r, t)
                       \/ SuspendOrResumeStream(r, t)
  \/ \E s \in Sub : SubscribeEvent(r, s) \/ ResetSub(r, s)
  \/ DeleteStreamOrSub(r)

Called(r, op) == At(r, "call") /\ req[r].op = op

(* The manager does not find the identifier any more: another request      *)
(* removed it, or never made it.                                           *)
NotFound(r) ==
  /\ At(r, "call") /\ req[r].op # "AddStream"
  /\ \/ req[r].op \in {"ResetSubscription", "DeleteSubscription"} /\ req[r].sub \notin subs
     \/ /\ req[r].op \notin {"ResetSubscription", "DeleteSubscription"}
        /\ req[r].stream \notin streams
  /\ Finish(r)
  /\ UNCHANGED <<storeVars, streams, subs, streamVars, poller, subVars, head,
                 used, counters, told>>

AddStream(r) ==
  /\ Called(r, "AddStream")
  /\ LET t == req[r].stream IN
     /\ streams' = streams \cup {t}
     /\ StartHandlers(t, FALSE)
  /\ Goto(r, "putStream")
  /\ UNCHANGED <<storeVars, subs, flags, subVars, head, used, counters, told>>

AddSubscription(r) ==
  /\ Called(r, "AddSubscription") /\ req[r].stream \in streams
  /\ LET s == req[r].sub IN
     /\ subs' = subs \cup {s}
     /\ fromBlock' = [fromBlock EXCEPT ![s] = req[r].from]
  /\ Goto(r, "putSub")
  /\ UNCHANGED <<storeVars, streams, streamVars, poller, filterStale, deleting,
                 resetRequested, blockHWM, fetched, head, used, counters, told>>

(* setInitialBlock changes the live subscription before it is stored.      *)
ResetSubscription(r) ==
  /\ Called(r, "ResetSubscription") /\ req[r].sub \in subs
  /\ fromBlock' = [fromBlock EXCEPT ![req[r].sub] = req[r].from]
  /\ Goto(r, "putSub")
  /\ UNCHANGED <<storeVars, streams, subs, streamVars, poller, filterStale,
                 deleting, resetRequested, blockHWM, fetched, head, used,
                 counters, told>>

RequestReset(r) ==
  /\ At(r, "flag")
  /\ LET s == req[r].sub IN
     /\ resetRequested' = [resetRequested EXCEPT ![s] = TRUE]
     /\ toldSub' = [toldSub EXCEPT ![s] = req[r].from]
     /\ unsure' = unsure \ {s}
     /\ owed' = [owed EXCEPT ![s] = req[r].from]
  /\ Finish(r)
  /\ UNCHANGED <<storeVars, streams, subs, streamVars, poller, fromBlock,
                 filterStale, deleting, blockHWM, fetched, head, used, counters,
                 toldStream>>

(* unsubscribe with deleting TRUE, after the removal from the map          *)
Forget(s) ==
  /\ subs' = subs \ {s}
  /\ deleting' = [deleting EXCEPT ![s] = TRUE]
  /\ resetRequested' = [resetRequested EXCEPT ![s] = FALSE]
  /\ filterStale' = [filterStale EXCEPT ![s] = TRUE]
  /\ owed' = [owed EXCEPT ![s] = None]
  /\ UNCHANGED <<fromBlock, blockHWM, fetched>>

DeleteSubscription(r) ==
  /\ Called(r, "DeleteSubscription") /\ req[r].sub \in subs
  /\ Forget(req[r].sub)
  /\ Goto(r, "deleteSub")
  /\ UNCHANGED <<storeVars, streams, streamVars, poller, head, used, counters,
                 toldStream, toldSub, unsure>>

(* DeleteStream: its subscriptions in the order of a map's iteration, each *)
(* with its record; then the stream.                                       *)
DeletesStream(r) ==
  \/ Called(r, "DeleteStream") /\ req[r].stream \in streams
  \/ At(r, "deleteSubs")
DeleteNextSub(r) ==
  /\ DeletesStream(r)
  /\ \E s \in subs :
       /\ Home[s] = req[r].stream
       /\ Forget(s)
       /\ req' = [req EXCEPT ![r].step = "deleteSub", ![r].sub = s]
       /\ unsure' = unsure \cup {s}
  /\ UNCHANGED <<storeVars, streams, streamVars, poller, head, used, counters,
                 toldStream, toldSub>>

NoSubsLeft(r) == \A s \in subs : Home[s] # req[r].stream

(* delete(s.streams, id) and stop, which waits for a lock that batchProcessor *)
(* never gives back; when another request stopped the stream before,       *)
(* closing the channel again panics and net/http ends the handler.         *)
Stop(r) ==
  LET t == req[r].stream IN
  /\ streams' = streams \ {t}
  /\ stopped' = IF Unlocked(t) THEN [stopped EXCEPT ![t] = TRUE] ELSE stopped
  /\ IF ~Unlocked(t) THEN Goto(r, "hung")
     ELSE IF stopped[t] THEN Finish(r) ELSE Goto(r, "deleteStream")
  /\ UNCHANGED <<storeVars, subs, suspended, updateInProgress, handlers, poller,
                 subVars, head, used, counters, told>>

(* Mutant: the stream goes without its subscriptions.                      *)
StopStream_KeepsSubs(r) ==
  /\ Called(r, "DeleteStream") /\ req[r].stream \in streams
  /\ Stop(r)

StopStream(r) == DeletesStream(r) /\ NoSubsLeft(r) /\ Stop(r)

(* Mutant: the state change is not persisted.                              *)
SuspendStream_NotStored(r) ==
  /\ Called(r, "SuspendStream") /\ req[r].stream \in streams
  /\ Unlocked(req[r].stream)
  /\ suspended' = [suspended EXCEPT ![req[r].stream] = TRUE]
  /\ toldStream' = [toldStream EXCEPT ![req[r].stream] = "suspended"]
  /\ Finish(r)
  /\ UNCHANGED <<storeVars, streams, subs, stopped, updateInProgress, handlers,
                 poller, subVars, head, used, counters, toldSub, unsure, owed>>

SuspendStream(r) ==
  /\ Called(r, "SuspendStream") /\ req[r].stream \in streams
  /\ Unlocked(req[r].stream)
  /\ suspended' = [suspended EXCEPT ![req[r].stream] = TRUE]
  /\ Goto(r, "putStream")
  /\ UNCHANGED <<storeVars, streams, subs, stopped, updateInProgress, handlers,
                 poller, subVars, head, used, counters, told>>

(* Refused until poller and processor have ended; dispatchers and what is  *)
(* in batches stay.  A stream is not resumed while an update of it waits.  *)
ResumeStream(r) ==
  /\ Called(r, "ResumeStream") /\ req[r].stream \in streams
  /\ LET t == req[r].stream IN
     /\ Unlocked(t)
     /\ \A q \in Requester : At(q, "join") => req[q].stream # t
     /\ IF poller[t].pc = "done" /\ handlers[t].processor # "running"
        THEN /\ suspended' = [suspended EXCEPT ![t] = FALSE]
             /\ StartHandlers(t, TRUE)
             /\ Goto(r, "putStream")
        ELSE Finish(r) /\ UNCHANGED <<suspended, poller, handlers>>
  /\ UNCHANGED <<storeVars, streams, subs, stopped, updateInProgress, subVars,
                 head, used, counters, told>>

(* update: updateInProgress is set, and updateInterrupt closed.  A second  *)
(* one while the first waits, or after it was refused, closes a closed     *)
(* channel.                                                                *)
UpdateStream(r) ==
  /\ Called(r, "UpdateStream") /\ req[r].stream \in streams
  /\ LET t == req[r].stream IN
     /\ Unlocked(t)
     /\ updateInProgress' = [updateInProgress EXCEPT ![t] = TRUE]
     /\ handlers' = [handlers EXCEPT ![t].closed = @ \cup {handlers[t].starts}]
     /\ IF Interrupted(t) THEN Finish(r) ELSE Goto(r, "join")
  /\ UNCHANGED <<storeVars, streams, subs, suspended, stopped, poller, subVars,
                 head, used, counters, told>>

(* updateWG.Wait() returns; postUpdateStream                               *)
PostUpdateStream(r) ==
  /\ At(r, "join") /\ Joined(req[r].stream)
  /\ updateInProgress' = [updateInProgress EXCEPT ![req[r].stream] = FALSE]
  /\ StartHandlers(req[r].stream, FALSE)
  /\ Goto(r, "putStream")
  /\ UNCHANGED <<storeVars, streams, subs, suspended, stopped, subVars, head,
                 used, counters, told>>

(* The new settings have a webhook without a valid URL: nothing is started *)
(* again, and updateInProgress stays set.                                  *)
RejectUpdate(r) ==
  /\ At(r, "join") /\ Joined(req[r].stream)
  /\ Finish(r)
  /\ UNCHANGED <<storeVars, streams, subs, streamVars, poller, subVars, head,
                 used, counters, told>>

-----------------------------------------------------------------------------
(* The store                                                               *)

(* A write fails: its request is answered with the error, except inside    *)
(* DeleteStream, which ignores the errors of its subscriptions.            *)
StoreFails(r) ==
  /\ req[r].step \in {"putStream", "putSub", "deleteSub", "deleteStream"}
  /\ StoreMayFail /\ storeFailures' = storeFailures + 1
  /\ unsure' = unsure \cup ({req[r].stream, req[r].sub} \ {None})
  /\ IF req[r].op = "DeleteStream" /\ At(r, "deleteSub") THEN Goto(r, "deleteSubs")
     ELSE Finish(r)
  /\ UNCHANGED <<storeVars, streams, subs, streamVars, poller, subVars, head,
                 used, requests, crashes, rpcFailures, toldStream, toldSub,
                 owed>>

Saved(t) == IF suspended[t] THEN "suspended" ELSE "active"

StoreStream(r) ==
  /\ At(r, "putStream")
  /\ LET t == req[r].stream IN
     /\ dbStream' = [dbStream EXCEPT ![t] = Saved(t)]
     /\ toldStream' = [toldStream EXCEPT ![t] = Saved(t)]
     /\ unsure' = unsure \ {t}
  /\ Finish(r)
  /\ UNCHANGED <<dbSub, dbCheckpoint, streams, subs, streamVars, poller,
                 subVars, head, used, counters, toldSub, owed>>

StoreSubscription(r) ==
  /\ At(r, "putSub")
  /\ LET s == req[r].sub IN
     /\ dbSub' = [dbSub EXCEPT ![s] = fromBlock[s]]
     /\ IF req[r].op = "ResetSubscription"
        THEN Goto(r, "flag") /\ UNCHANGED told
        ELSE /\ Finish(r)
             /\ toldSub' = [toldSub EXCEPT ![s] = req[r].from]
             /\ UNCHANGED <<toldStream, unsure, owed>>
  /\ UNCHANGED <<dbStream, dbCheckpoint, streams, subs, streamVars, poller,
                 subVars, head, used, counters>>

RemoveSubscription(r) ==
  /\ At(r, "deleteSub")
  /\ dbSub' = [dbSub EXCEPT ![req[r].sub] = None]
  /\ IF req[r].op = "DeleteStream" THEN Goto(r, "deleteSubs") /\ UNCHANGED told
     ELSE /\ Finish(r)
          /\ toldSub' = [toldSub EXCEPT ![req[r].sub] = None]
          /\ unsure' = unsure \ {req[r].sub}
          /\ UNCHANGED <<toldStream, owed>>
  /\ UNCHANGED <<dbStream, dbCheckpoint, streams, subs, streamVars, poller,
                 subVars, head, used, counters>>

RemoveStream(r) ==
  /\ At(r, "deleteStream")
  /\ dbStream' = [dbStream EXCEPT ![req[r].stream] = "absent"]
  /\ Goto(r, "deleteCheckpoint")
  /\ UNCHANGED <<dbSub, dbCheckpoint, streams, subs, streamVars, poller,
                 subVars, head, used, counters, told>>

(* deleteCheckpoint returns nothing, whether it succeeds or not.           *)
DeleteCheckpoint(r) ==
  /\ At(r, "deleteCheckpoint")
  /\ LET t == req[r].stream IN
     /\ \/ /\ dbCheckpoint' = [dbCheckpoint EXCEPT ![t] = NoEntries]
           /\ UNCHANGED storeFailures
        \/ /\ StoreMayFail /\ storeFailures' = storeFailures + 1
           /\ UNCHANGED dbCheckpoint
     /\ toldStream' = [toldStream EXCEPT ![t] = "absent"]
     /\ unsure' = unsure \ {t}
  /\ Finish(r)
  /\ UNCHANGED <<dbStream, dbSub, streams, subs, streamVars, poller, subVars,
                 head, used, requests, crashes, rpcFailures, toldSub, owed>>

RequestStep(r) ==
  \/ NotFound(r) \/ AddStream(r) \/ AddSubscription(r)
  \/ ResetSubscription(r) \/ RequestReset(r)
  \/ DeleteSubscription(r) \/ DeleteNextSub(r) \/ StopStream(r)
  \/ SuspendStream(r) \/ ResumeStream(r) \/ UpdateStream(r) \/ PostUpdateStream(r)
  \/ RejectUpdate(r) \/ StoreFails(r) \/ StoreStream(r) \/ StoreSubscription(r)
  \/ RemoveSubscription(r) \/ RemoveStream(r) \/ DeleteCheckpoint(r)

-----------------------------------------------------------------------------
(* eventPoller                                                             *)

Poll(t, pc) == poller[t].pc = pc
SetPoller(t, p) == poller' = [poller EXCEPT ![t] = p]

(* isBlocked may be true: inFlight is not 0, and BatchSize may be 1.       *)
MayBeBlocked(t) == handlers[t].batched # {} \/ handlers[t].leaked

(* The top of the loop: suspendOrStop, loadCheckpoint the first time round,*)
(* the subscriptions of this round, and isBlocked, which takes the lock.   *)
PollTop(t) ==
  /\ Poll(t, "top")
  /\ LET p == poller[t]  mine == {s \in subs : Home[s] = t} IN
     \/ /\ SuspendOrStop(t)
        /\ SetPoller(t, Ended)
        /\ UNCHANGED storeFailures
     \/ /\ ~SuspendOrStop(t) /\ Unlocked(t)
        /\ \E todo \in {mine} \cup {q \in {{}} : MayBeBlocked(t)} :
             SetPoller(t, [p EXCEPT !.pc = "subs", !.loaded = TRUE,
               !.checkpoint = IF p.loaded THEN @ ELSE dbCheckpoint[t],
               !.subs = mine, !.todo = todo])
        /\ UNCHANGED storeFailures
     \/ /\ ~SuspendOrStop(t) /\ ~p.loaded
        /\ StoreMayFail /\ storeFailures' = storeFailures + 1
        /\ SetPoller(t, [p EXCEPT !.pc = "sleep"])
  /\ UNCHANGED <<storeVars, streams, subs, streamVars, subVars, head, req, used,
                 requests, crashes, rpcFailures, told>>

(* Mutant: the checkpoint keeps the mark of before the reset.              *)
PollReset_KeepsMark(t, s) ==
  /\ Poll(t, "subs") /\ s \in poller[t].todo
  /\ SetPoller(t, [poller[t] EXCEPT !.pc = "height", !.sub = s, !.todo = @ \ {s}])
  /\ IF resetRequested[s]
     THEN /\ deleting' = [deleting EXCEPT ![s] = FALSE]
          /\ resetRequested' = [resetRequested EXCEPT ![s] = FALSE]
          /\ filterStale' = [filterStale EXCEPT ![s] = TRUE]
     ELSE UNCHANGED <<deleting, resetRequested, filterStale>>
  /\ UNCHANGED <<storeVars, streams, subs, streamVars, fromBlock, blockHWM,
                 fetched, head, req, used, counters, told>>

(* The next subscription: a reset is an unsubscribe (deleting FALSE) that  *)
(* also deletes the entry of the poller's checkpoint.                      *)
PollReset(t, s) ==
  /\ Poll(t, "subs") /\ s \in poller[t].todo
  /\ SetPoller(t, [poller[t] EXCEPT !.pc = "height", !.sub = s, !.todo = @ \ {s},
       !.checkpoint[s] = IF resetRequested[s] THEN None ELSE @])
  /\ IF resetRequested[s]
     THEN /\ deleting' = [deleting EXCEPT ![s] = FALSE]
          /\ resetRequested' = [resetRequested EXCEPT ![s] = FALSE]
          /\ filterStale' = [filterStale EXCEPT ![s] = TRUE]
     ELSE UNCHANGED <<deleting, resetRequested, filterStale>>
  /\ UNCHANGED <<storeVars, streams, subs, streamVars, fromBlock, blockHWM,
                 fetched, head, req, used, counters, told>>

ToFilter(t, since, via) ==
  SetPoller(t, [poller[t] EXCEPT !.pc = "filter", !.since = since, !.via = via])

(* setInitialBlockHeight: an explicit block leaves the mark as it is.      *)
InitialBlockHeight(t, s) ==
  IF fromBlock[s] = Latest
  THEN ToFilter(t, head, Latest) /\ blockHWM' = [blockHWM EXCEPT ![s] = head]
  ELSE ToFilter(t, fromBlock[s], fromBlock[s]) /\ UNCHANGED blockHWM

CheckpointBlockHeight(t, s, mark) ==
  /\ ToFilter(t, mark, None)
  /\ blockHWM' = [blockHWM EXCEPT ![s] = mark]

PollHeight(t) ==
  /\ Poll(t, "height")
  /\ LET s == poller[t].sub  mark == poller[t].checkpoint[s] IN
     IF filterStale[s] /\ ~deleting[s]
     THEN IF mark \in {0, None} THEN InitialBlockHeight(t, s)
          ELSE CheckpointBlockHeight(t, s, mark)
     ELSE /\ SetPoller(t, [poller[t] EXCEPT !.pc = "events"])
          /\ UNCHANGED blockHWM
  /\ UNCHANGED <<storeVars, streams, subs, streamVars, fromBlock, filterStale,
                 deleting, resetRequested, fetched, head, req, used, counters,
                 told>>

(* restartFilter                                                           *)
PollFilter(t) ==
  /\ Poll(t, "filter")
  /\ LET s == poller[t].sub IN
     /\ SetPoller(t, [poller[t] EXCEPT !.pc = "events", !.since = 0, !.via = None])
     /\ filterStale' = [filterStale EXCEPT ![s] = FALSE]
     /\ owed' = [owed EXCEPT ![s] = IF @ = poller[t].via THEN None ELSE @]
  /\ UNCHANGED <<storeVars, streams, subs, streamVars, fromBlock, deleting,
                 resetRequested, blockHWM, fetched, head, req, used, counters,
                 toldStream, toldSub, unsure>>

(* A call to the node fails: eth_blockNumber for "latest", eth_newFilter,  *)
(* or the node does not know the filter any more.                          *)
PollFails(t) ==
  /\ \/ Poll(t, "height") /\ LET s == poller[t].sub IN
          /\ filterStale[s] /\ ~deleting[s]
          /\ fromBlock[s] = Latest /\ poller[t].checkpoint[s] \in {0, None}
     \/ Poll(t, "filter")
     \/ Poll(t, "events")
  /\ RPCMayFail /\ rpcFailures' = rpcFailures + 1
  /\ \/ Poll(t, "events") /\ filterStale' = [filterStale EXCEPT ![poller[t].sub] = TRUE]
     \/ UNCHANGED filterStale
  /\ SetPoller(t, [poller[t] EXCEPT !.pc = "subs", !.sub = None, !.since = 0, !.via = None])
  /\ UNCHANGED <<storeVars, streams, subs, streamVars, fromBlock, deleting,
                 resetRequested, blockHWM, fetched, head, req, used, requests,
                 crashes, storeFailures, told>>

(* processNewEvents: of a filter that was uninstalled there are none.      *)
PollEvents(t) ==
  /\ Poll(t, "events")
  /\ \/ SetPoller(t, [poller[t] EXCEPT !.pc = "subs", !.sub = None])
     \/ /\ ~filterStale[poller[t].sub]
        /\ SetPoller(t, [poller[t] EXCEPT !.pc = "handing", !.since = head + 1])
  /\ UNCHANGED <<storeVars, streams, subs, streamVars, subVars, head, req, used,
                 counters, told>>

(* d takes part in the loop again: it waits on the channel of that moment. *)
Rewaits(t, d) ==
  (handlers[t].dispatchers \ {d}) \cup {[d EXCEPT !.on = handlers[t].starts]}

(* handleEvent: the events, here together, meet a dispatcher, if one is    *)
(* left; it counts them under the lock.                                    *)
HandOver(t) ==
  /\ Poll(t, "handing") /\ ~stopped[t] /\ Unlocked(t)
  /\ \E d \in handlers[t].dispatchers :
       handlers' = [handlers EXCEPT ![t].dispatchers = Rewaits(t, d),
                                    ![t].batched = @ \cup {poller[t].sub}]
  /\ fetched' = [fetched EXCEPT ![poller[t].sub] = poller[t].since]
  /\ SetPoller(t, [poller[t] EXCEPT !.pc = "subs", !.sub = None, !.since = 0])
  /\ UNCHANGED <<storeVars, streams, subs, flags, fromBlock, filterStale,
                 deleting, resetRequested, blockHWM, head, req, used, counters,
                 told>>

(* The marks of this round's subscriptions are recorded, and stored when   *)
(* one is new or changed.                                                  *)
PollMark(t) ==
  /\ Poll(t, "subs") /\ poller[t].todo = {}
  /\ LET p == poller[t]
         marks == [s \in Sub |-> IF s \in p.subs THEN blockHWM[s] ELSE p.checkpoint[s]] IN
     /\ SetPoller(t, [p EXCEPT !.pc = "sleep", !.checkpoint = marks, !.subs = {}])
     /\ \/ /\ dbCheckpoint' = IF marks = p.checkpoint THEN dbCheckpoint
                              ELSE [dbCheckpoint EXCEPT ![t] = marks]
           /\ UNCHANGED storeFailures
        \/ /\ marks # p.checkpoint
           /\ StoreMayFail /\ storeFailures' = storeFailures + 1
           /\ UNCHANGED dbCheckpoint
  /\ UNCHANGED <<dbStream, dbSub, streams, subs, streamVars, subVars, head, req,
                 used, requests, crashes, rpcFailures, told>>

(* The select at the end of the loop                                       *)
PollWake(t) ==
  /\ Poll(t, "sleep")
  /\ \/ SetPoller(t, [poller[t] EXCEPT !.pc = "top"])
     \/ Interrupted(t) /\ SetPoller(t, Ended)
  /\ UNCHANGED <<storeVars, streams, subs, streamVars, subVars, head, req, used,
                 counters, told>>

PollStep(t) ==
  \/ PollTop(t) \/ \E s \in Sub : PollReset(t, s)
  \/ PollHeight(t) \/ PollFilter(t) \/ PollEvents(t) \/ HandOver(t) \/ PollFails(t)
  \/ PollMark(t) \/ PollWake(t)

-----------------------------------------------------------------------------
(* batchDispatcher and batchProcessor                                      *)

(* A batch that did not fill in time is queued.                            *)
BatchTimeout(t) ==
  /\ Unlocked(t) /\ handlers[t].batched # {}
  /\ \E d \in handlers[t].dispatchers :
       handlers' = [handlers EXCEPT ![t].dispatchers = Rewaits(t, d)]
  /\ UNCHANGED <<storeVars, streams, subs, flags, poller, subVars, head, req,
                 used, counters, told>>

(* A batch is dropped without being uncounted.                             *)
Dropped(h, kept) == [h EXCEPT !.batched = kept, !.leaked = TRUE]

(* An update or a stop ends a dispatcher, which may hold a part of a batch.*)
EndDispatcher(t) ==
  /\ \E d \in handlers[t].dispatchers :
       /\ d.on \in handlers[t].closed \/ stopped[t]
       /\ LET h == [handlers[t] EXCEPT !.dispatchers = @ \ {d}] IN
          \/ handlers' = [handlers EXCEPT ![t] = h]
          \/ /\ h.batched # {}
             /\ \E kept \in SUBSET h.batched :
                  handlers' = [handlers EXCEPT ![t] = Dropped(h, kept)]
  /\ UNCHANGED <<storeVars, streams, subs, flags, poller, subVars, head, req,
                 used, counters, told>>

(* processBatch: suspended or stopped before the first attempt, or an      *)
(* update between two, the batch stays counted; suspended or stopped       *)
(* later, it is only not acknowledged.                                     *)
DropBatch(t) ==
  /\ handlers[t].processor = "running" /\ handlers[t].batched # {}
  /\ SuspendOrStop(t) \/ Interrupted(t)
  /\ \E kept \in SUBSET handlers[t].batched :
       \/ handlers' = [handlers EXCEPT ![t] = Dropped(@, kept)]
       \/ SuspendOrStop(t) /\ handlers' = [handlers EXCEPT ![t].batched = kept]
  /\ UNCHANGED <<storeVars, streams, subs, flags, poller, subVars, head, req,
                 used, counters, told>>

(* Suspended or stopped, batchProcessor ends without a word; with an       *)
(* update it waits for updateInterrupt, and reports when that is closed:   *)
(* after a refused update and a resume nobody closes it.                   *)
EndProcessor(t) ==
  /\ handlers[t].processor = "running"
  /\ SuspendOrStop(t) \/ updateInProgress[t]
  /\ handlers' = [handlers EXCEPT ![t].processor =
       IF SuspendOrStop(t) THEN "ended" ELSE IF Interrupted(t) THEN "reported" ELSE "stuck"]
  /\ UNCHANGED <<storeVars, streams, subs, flags, poller, subVars, head, req,
                 used, counters, told>>

(* The events of s that are in batches are delivered or given up, and      *)
(* acknowledged.                                                           *)
Process(s) ==
  LET h == handlers[Home[s]] IN
  /\ s \in h.batched /\ h.processor = "running" /\ ~SuspendOrStop(Home[s])
  /\ handlers' = [handlers EXCEPT ![Home[s]].batched = @ \ {s}]

(* Mutant: one is added to the mark and not to the event's block.          *)
BatchComplete_AddsToMark(s) ==
  /\ Process(s)
  /\ blockHWM' = [blockHWM EXCEPT ![s] = @ + 1]
  /\ UNCHANGED <<storeVars, streams, subs, flags, poller, fromBlock,
                 filterStale, deleting, resetRequested, fetched, head, req,
                 used, counters, told>>

(* logProcessor.batchComplete, with the newest of them                     *)
BatchComplete(s) ==
  /\ Process(s)
  /\ blockHWM' = [blockHWM EXCEPT ![s] = IF fetched[s] > @ THEN fetched[s] ELSE @]
  /\ UNCHANGED <<storeVars, streams, subs, flags, poller, fromBlock,
                 filterStale, deleting, resetRequested, fetched, head, req,
                 used, counters, told>>

HandlersStep(t) ==
  BatchTimeout(t) \/ EndDispatcher(t) \/ DropBatch(t) \/ EndProcessor(t)

-----------------------------------------------------------------------------
(* The chain, and the process                                              *)

NewBlock ==
  /\ MayHappen /\ head < MaxBlock
  /\ head' = head + 1
  /\ UNCHANGED <<storeVars, streams, subs, streamVars, poller, subVars, req,
                 used, counters, told>>

(* subscriptionMGR.Init after a crash or a Close: recoverStreams, then     *)
(* recoverSubscriptions, which leaves out those whose stream is missing.   *)
Recover ==
  LET t0 == {t \in Stream : dbStream[t] # "absent"} IN
  /\ streams' = t0
  /\ subs' = {s \in Sub : dbSub[s] # None /\ Home[s] \in t0}
  /\ suspended' = [t \in Stream |-> dbStream[t] = "suspended"]
  /\ stopped' = [t \in Stream |-> FALSE]
  /\ updateInProgress' = [t \in Stream |-> FALSE]
  /\ poller' = [t \in Stream |-> IF t \in t0 THEN Started ELSE Ended]
  /\ handlers' = [t \in Stream |->
       IF t \in t0 THEN Restarted(NoHandlers, FALSE) ELSE NoHandlers]
  /\ fromBlock' = [s \in Sub |-> IF dbSub[s] = None THEN Latest ELSE dbSub[s]]
  /\ filterStale' = [s \in Sub |-> TRUE]
  /\ deleting' = [s \in Sub |-> FALSE]
  /\ resetRequested' = [s \in Sub |-> FALSE]
  /\ blockHWM' = NoMarks /\ fetched' = NoMarks

Restart ==
  /\ Recover
  /\ req' = [r \in Requester |-> Idle]
  /\ unsure' = unsure \cup UNION {{req[r].stream, req[r].sub} \ {None} : r \in Requester}
  /\ crashes' = crashes + 1
  /\ UNCHANGED <<storeVars, head, used, requests, storeFailures, rpcFailures,
                 toldStream, toldSub, owed>>

Crash == MayHappen /\ crashes < MaxCrashes /\ Restart

(* handleEvent sends to the channel that stop has closed: the process      *)
(* panics.                                                                 *)
SendOnClosed(t) ==
  /\ Poll(t, "handing") /\ stopped[t]
  /\ Restart

Next ==
  \/ \E r \in Requester : Receive(r) \/ RequestStep(r)
  \/ \E t \in Stream : PollStep(t) \/ HandlersStep(t) \/ SendOnClosed(t)
  \/ \E s \in Sub : BatchComplete(s)
  \/ NewBlock \/ Crash

Spec == Init /\ [][Next]_vars

(* Go runs every goroutine, and the webhook accepts a batch in the end, or *)
(* the stream skips it.                                                    *)
FairSpec ==
  /\ Spec
  /\ \A t \in Stream : WF_vars(PollStep(t))
  /\ \A s \in Sub : WF_vars(BatchComplete(s))
  /\ \A r \in Requester : WF_vars(RequestStep(r))

-----------------------------------------------------------------------------
(* The types of the state.  A mark is never past the block after the       *)
(* chain's newest one, whatever was reset, recovered or delivered: a       *)
(* filter from there on would skip blocks to come.                         *)
Mark == 0..(head + 1)
TypeOK ==
  /\ dbStream \in [Stream -> {"absent", "active", "suspended"}]
  /\ dbSub \in [Sub -> From \cup {None}]
  /\ dbCheckpoint \in [Stream -> [Sub -> Mark \cup {None}]]
  /\ streams \subseteq Stream /\ subs \subseteq Sub
  /\ {suspended, stopped, updateInProgress} \subseteq [Stream -> BOOLEAN]
  /\ \A t \in Stream : LET p == poller[t] IN
       /\ p.pc \in {"done", "top", "subs", "height", "filter", "events", "handing",
                    "sleep"}
       /\ p.loaded \in BOOLEAN /\ p.checkpoint \in [Sub -> Mark \cup {None}]
       /\ p.subs \subseteq Sub /\ p.todo \subseteq p.subs
       /\ p.sub \in Sub \cup {None} /\ p.since \in Mark /\ p.via \in From \cup {None}
  /\ \A t \in Stream : LET h == handlers[t] IN
       /\ h.processor \in {"running", "reported", "ended", "stuck"}
       /\ h.starts \in Nat /\ h.closed \subseteq 0..h.starts
       /\ \A d \in h.dispatchers : {d.by, d.on} \subseteq 1..h.starts
       /\ h.batched \subseteq Sub /\ h.leaked \in BOOLEAN
  /\ fromBlock \in [Sub -> From]
  /\ {filterStale, deleting, resetRequested} \subseteq [Sub -> BOOLEAN]
  /\ {blockHWM, fetched} \subseteq [Sub -> Mark]
  /\ head \in Block
  /\ used \subseteq Stream \cup Sub
  /\ toldStream \in [Stream -> {"absent", "active", "suspended"}]
  /\ {toldSub, owed} \subseteq [Sub -> From \cup {None}]
  /\ unsure \subseteq Stream \cup Sub

Busy(x) == \E r \in Requester : x \in {req[r].stream, req[r].sub}

(* What a client was told stays true in the store, through polls, other    *)
(* requests and restarts: a stream or subscription that was reported added *)
(* has its record with the state or block reported last, and one reported  *)
(* deleted has none.  Nothing is claimed while a request is at work on it, *)
(* or after one failed half way (submanager.go AddSubscription to          *)
(* ResumeStream: the map first, then the store).                           *)
PromisesKept ==
  /\ \A t \in Stream \ unsure : Busy(t) \/ dbStream[t] = toldStream[t]
  /\ \A s \in Sub \ unsure : Busy(s) \/ Busy(Home[s]) \/ dbSub[s] = toldSub[s]

(* While no write fails, the record of a subscription has that of its      *)
(* stream beside it, a restart in the middle of DeleteStream included:     *)
(* recoverSubscriptions would never bring it back, and no request could    *)
(* delete it.                                                              *)
NoOrphans ==
  storeFailures = 0 => \A s \in Sub : dbSub[s] # None => dbStream[Home[s]] # "absent"

(* A reset that was accepted is served: a filter starts at the block asked *)
(* for last, whatever the high water mark was (resetSubscription,          *)
(* requestReset and eventPoller), unless something fails, the subscription *)
(* is deleted, or the stream is interfered with: it is suspended or        *)
(* updated, an update of it was refused (nothing polls any more), or one   *)
(* or a suspension has dropped events that inFlight counts ever after, so  *)
(* that isBlocked may keep the poller from the reset.                      *)
Faultless == crashes = 0 /\ storeFailures = 0 /\ rpcFailures = 0
Interfered(t) == suspended[t] \/ updateInProgress[t] \/ handlers[t].leaked
ResetServed ==
  \A s \in Sub : owed[s] # None ~> owed[s] = None \/ Interfered(Home[s]) \/ ~Faultless

(* The same of a node that fails a call once: submanager.go says of        *)
(* ResetSubscription that it restarts the stream from the block specified. *)
ResetRestarts ==
  \A s \in Sub : owed[s] # None ~> owed[s] = None \/ Interfered(Home[s])
=============================================================================
