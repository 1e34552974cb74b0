---------------------------- MODULE EventStream -----------------------------
(***************************************************************************)
(* One event stream (maidenlaneevents/eventstream.go) with its             *)
(* subscriptions (subscription.go, logprocessor.go) and the checkpoint and *)
(* control operations of the subscription manager (submanager.go).         *)
(*                                                                         *)
(* Three goroutines work for a stream: eventPoller reads the events of     *)
(* each subscription from a filter on the node and hands them over an      *)
(* unbuffered channel to batchDispatcher, which forms the batches that     *)
(* batchProcessor delivers to the webhook; a delivered batch raises the    *)
(* block high water marks that the poller checkpoints.                     *)
(*                                                                         *)
(* A control request on the stream is not sent before the previous one was *)
(* answered, with success or an error.  The node, the webhook and the      *)
(* key-value store are external; writes to the store do not fail.          *)
(***************************************************************************)
EXTENDS Integers, FiniteSets, SequencesExt

CONSTANTS
  Sub,          \* the subscriptions of the stream
  Log,          \* the events on the chain, in order: [sub, block] records
  FromLatest,   \* subscriptions that start at the latest block, not at the first
  BatchSize,    \* spec.BatchSize
  SkipOnError,  \* spec.ErrorHandling is "skip", not "block"
  MaxSuspends, MaxUpdates, MaxCrashes, MaxFailures   \* bounds of a run

Event == 1 .. Len(Log)

ASSUME StreamAssumption ==
  /\ FromLatest \subseteq Sub
  /\ Log \in Seq([sub : Sub, block : Nat \ {0}])
  /\ \A e, f \in Event : e < f => Log[e].block <= Log[f].block
  /\ BatchSize \in Nat \ {0}
  /\ SkipOnError \in BOOLEAN
  /\ {MaxSuspends, MaxUpdates, MaxCrashes, MaxFailures} \subseteq Nat

(* Each update starts one more batchDispatcher.                            *)
Dispatcher == 1 .. MaxUpdates + 1

VARIABLES
  head,        \* the latest block of the chain
  stored,      \* stored[s]: the checkpoint of s in the store, 0 when none
  known,       \* subscriptionMGR.subscriptions
  filter,      \* filter[s]: next block the node's filter returns, 0 when stale
  hwm,         \* hwm[s]: blockHWM of s' logProcessor
  poller,      \* where eventPoller is
  subs, todo,  \* the subscriptions of this poll, and those still to be read
  outbox,      \* events read but not taken by a dispatcher
  dispatcher,  \* dispatcher[d]: the updateInterrupt that d waits on
  current,     \* current[d]: currentBatch of d
  queue,       \* batchQueue
  inFlight,    \* inFlight
  processor,   \* where batchProcessor is
  work,        \* the batch it processes
  suspended,   \* spec.Suspended
  interrupted, \* the updateInterrupt of the stream is closed
  counted,     \* dispatchers the stream's updateWG waits for
  update,      \* "none", "waiting" or "failed": updateInProgress unless "none"
  delivered,   \* events the webhook has accepted
  skipped,     \* events given up under "skip"
  used         \* used[k]: faults and control requests of kind k so far

chainVars      == <<head, stored, filter, known>>
pollVars       == <<poller, subs, todo, outbox>>
dispatchVars   == <<dispatcher, current>>
controlVars    == <<suspended, interrupted, counted, update>>
historyVars    == <<delivered, skipped>>
vars == <<chainVars, hwm, pollVars, dispatchVars, queue, inFlight, processor, work,
          controlVars, historyVars, used>>

Kinds == {"suspend", "update", "crash", "failure"}

Limit == [suspend |-> MaxSuspends, update |-> MaxUpdates,
          crash |-> MaxCrashes, failure |-> MaxFailures]

Use(k) == used[k] < Limit[k] /\ used' = [used EXCEPT ![k] = @ + 1]

Subs(events) == {Log[e].sub : e \in events}

(* batchProcessor waits in its select with batchCond.L locked; whatever    *)
(* locks it waits too.                                                     *)
Unlocked == processor # "stuck"

(* newEventStream starts the goroutines; subscriptions are added later.    *)
Init ==
  /\ head = 0
  /\ stored = [s \in Sub |-> 0]
  /\ known = {}
  /\ filter = [s \in Sub |-> 0]
  /\ hwm = [s \in Sub |-> 0]
  /\ poller = "loop" /\ subs = {} /\ todo = {} /\ outbox = {}
  /\ dispatcher = [d \in Dispatcher |-> IF d = 1 THEN "current" ELSE "off"]
  /\ current = [d \in Dispatcher |-> <<>>]
  /\ queue = <<>> /\ inFlight = 0
  /\ processor = "idle" /\ work = <<>>
  /\ suspended = FALSE
  /\ interrupted = FALSE /\ counted = {1} /\ update = "none"
  /\ delivered = {} /\ skipped = {}
  /\ used = [k \in Kinds |-> 0]

-----------------------------------------------------------------------------
(* The chain grows.                                                        *)
Mine ==
  /\ \E e \in Event : Log[e].block > head
  /\ head' = head + 1
  /\ UNCHANGED <<stored, filter, known, hwm, pollVars, dispatchVars, queue, inFlight,
                 processor, work, controlVars, historyVars, used>>

(* AddSubscription, or recoverSubscriptions after a start.                 *)
AddSubscription(s) ==
  /\ s \notin known
  /\ known' = known \cup {s}
  /\ UNCHANGED <<head, stored, filter, hwm, pollVars, dispatchVars, queue, inFlight,
                 processor, work, controlVars, historyVars, used>>

-----------------------------------------------------------------------------
(* eventPoller.                                                            *)

IsBlocked == inFlight >= BatchSize

(* A turn of the loop begins: suspended, the goroutine ends; blocked, no   *)
(* subscription is read.                                                   *)
BeginPoll ==
  /\ poller = "loop" /\ (suspended \/ Unlocked)
  /\ poller' = IF suspended THEN "done" ELSE "poll"
  /\ subs' = known
  /\ todo' = IF IsBlocked THEN {} ELSE known
  /\ UNCHANGED <<chainVars, hwm, outbox, dispatchVars, queue, inFlight, processor,
                 work, controlVars, historyVars, used>>

(* A stale filter is made again from the checkpoint, else from where the   *)
(* subscription starts; only the latest block becomes its high water mark. *)
FilterStart(s) ==
  CASE filter[s] # 0 -> filter[s]
    [] filter[s] = 0 /\ stored[s] > 0 -> stored[s]
    [] filter[s] = 0 /\ stored[s] = 0 -> IF s \in FromLatest THEN head ELSE 1

(* The high water mark is set even when the filter is then not made.       *)
SetBlockHeight(s) ==
  hwm' = IF filter[s] = 0 /\ (stored[s] > 0 \/ s \in FromLatest)
           THEN [hwm EXCEPT ![s] = FilterStart(s)] ELSE hwm

(* The filter returns the events since it was last read.                   *)
ProcessNewEvents(s) ==
  /\ poller = "poll" /\ outbox = {} /\ s \in todo
  /\ todo' = todo \ {s}
  /\ SetBlockHeight(s)
  /\ outbox' = {e \in Event : /\ Log[e].sub = s
                              /\ Log[e].block \in FilterStart(s) .. head}
  /\ filter' = [filter EXCEPT ![s] = head + 1]
  /\ UNCHANGED <<head, stored, known, poller, subs, dispatchVars, queue, inFlight,
                 processor, work, controlVars, historyVars, used>>

(* A call to the node fails: the filter is not made, was lost, or may be   *)
(* read again next time.                                                   *)
SubscriptionError(s) ==
  /\ poller = "poll" /\ outbox = {} /\ s \in todo
  /\ Use("failure")
  /\ todo' = todo \ {s}
  /\ SetBlockHeight(s)
  /\ filter' \in {[filter EXCEPT ![s] = 0], [filter EXCEPT ![s] = FilterStart(s)]}
  /\ UNCHANGED <<head, stored, known, poller, subs, outbox, dispatchVars, queue,
                 inFlight, processor, work, controlVars, historyVars>>

(* Mutant: what was read, not what was delivered, is the checkpoint.       *)
StoreCheckpoint_Read ==
  /\ poller = "poll" /\ outbox = {} /\ todo = {}
  /\ stored' = [s \in Sub |-> IF s \in subs THEN filter[s] ELSE stored[s]]
  /\ poller' = "wait"
  /\ UNCHANGED <<head, filter, known, hwm, subs, todo, outbox, dispatchVars, queue,
                 inFlight, processor, work, controlVars, historyVars, used>>

(* The high water marks of the subscriptions polled are the checkpoint.    *)
StoreCheckpoint ==
  /\ poller = "poll" /\ outbox = {} /\ todo = {}
  /\ stored' = [s \in Sub |-> IF s \in subs THEN hwm[s] ELSE stored[s]]
  /\ poller' = "wait"
  /\ UNCHANGED <<head, filter, known, hwm, subs, todo, outbox, dispatchVars, queue,
                 inFlight, processor, work, controlVars, historyVars, used>>

(* An update ends the goroutine, the polling interval its wait.            *)
EndPoll ==
  /\ poller = "wait"
  /\ \/ poller' = "loop"
     \/ interrupted /\ poller' = "done"
  /\ UNCHANGED <<chainVars, hwm, subs, todo, outbox, dispatchVars, queue, inFlight,
                 processor, work, controlVars, historyVars, used>>

-----------------------------------------------------------------------------
(* batchDispatcher.                                                        *)

(* The next turn of the loop waits on the stream's channel of that moment. *)
Rewait(d) ==
  dispatcher' = [dispatcher EXCEPT ![d] = IF interrupted THEN "closed" ELSE "current"]

(* Mutant: an event that fills a batch is not counted.                     *)
HandleEvent_FullNotCounted(d) ==
  \E e \in outbox :
    LET batch == Append(current[d], e)
        full  == Len(batch) = BatchSize
    IN  /\ \A f \in outbox : e <= f
        /\ dispatcher[d] # "off" /\ Unlocked
        /\ outbox' = outbox \ {e}
        /\ inFlight' = IF full THEN inFlight ELSE inFlight + 1
        /\ current' = [current EXCEPT ![d] = IF full THEN <<>> ELSE batch]
        /\ queue' = IF full THEN Append(queue, batch) ELSE queue
        /\ Rewait(d)
        /\ UNCHANGED <<chainVars, hwm, poller, subs, todo, processor, work,
                       controlVars, historyVars, used>>

(* handleEvent meets the dispatcher, which queues the batch once full.     *)
HandleEvent(d) ==
  \E e \in outbox :
    LET batch == Append(current[d], e)
        full  == Len(batch) = BatchSize
    IN  /\ \A f \in outbox : e <= f
        /\ dispatcher[d] # "off" /\ Unlocked
        /\ outbox' = outbox \ {e}
        /\ inFlight' = inFlight + 1
        /\ current' = [current EXCEPT ![d] = IF full THEN <<>> ELSE batch]
        /\ queue' = IF full THEN Append(queue, batch) ELSE queue
        /\ Rewait(d)
        /\ UNCHANGED <<chainVars, hwm, poller, subs, todo, processor, work,
                       controlVars, historyVars, used>>

(* A batch that does not fill in time is queued as it is.                  *)
BatchTimeout(d) ==
  /\ dispatcher[d] # "off" /\ current[d] # <<>> /\ Unlocked
  /\ queue' = Append(queue, current[d])
  /\ current' = [current EXCEPT ![d] = <<>>]
  /\ Rewait(d)
  /\ UNCHANGED <<chainVars, hwm, pollVars, inFlight, processor, work, controlVars,
                 historyVars, used>>

(* An update ends the dispatcher, and what it has of a batch is dropped.   *)
EndDispatcher(d) ==
  /\ dispatcher[d] = "closed"
  /\ dispatcher' = [dispatcher EXCEPT ![d] = "off"]
  /\ current' = [current EXCEPT ![d] = <<>>]
  /\ UNCHANGED <<chainVars, hwm, pollVars, queue, inFlight, processor, work,
                 controlVars, historyVars, used>>

-----------------------------------------------------------------------------
(* batchProcessor.                                                         *)

TakeBatch ==
  /\ processor = "idle" /\ ~ suspended /\ queue # <<>>
  /\ work' = Head(queue) /\ queue' = Tail(queue)
  /\ processor' = "taken"
  /\ UNCHANGED <<chainVars, hwm, pollVars, dispatchVars, inFlight, controlVars,
                 historyVars, used>>

(* processBatch: on a stream suspended since, the batch is dropped without *)
(* an attempt and stays counted.                                           *)
ProcessBatch ==
  /\ processor = "taken"
  /\ processor' = IF suspended THEN "idle" ELSE "action"
  /\ work' = IF suspended THEN <<>> ELSE work
  /\ UNCHANGED <<chainVars, hwm, pollVars, dispatchVars, queue, inFlight, controlVars,
                 historyVars, used>>

(* Mutant: suspension is looked at only when there is no batch left.       *)
EndProcessor_QueueFirst ==
  /\ processor = "idle" /\ queue = <<>>
  /\ \/ suspended /\ processor' = "suspended"
     \/ /\ ~ suspended /\ update # "none"
        /\ processor' = IF interrupted THEN "interrupted" ELSE "stuck"
  /\ UNCHANGED <<chainVars, hwm, pollVars, dispatchVars, queue, inFlight, work,
                 controlVars, historyVars, used>>

(* Suspended it ends, without reporting to updateWG; updated, it waits for *)
(* updateInterrupt once there is no batch left, and ends when that is      *)
(* closed.  After a refused update and a resume nobody closes it.          *)
EndProcessor ==
  /\ processor = "idle"
  /\ \/ suspended /\ processor' = "suspended"
     \/ /\ ~ suspended /\ queue = <<>> /\ update # "none"
        /\ processor' = IF interrupted THEN "interrupted" ELSE "stuck"
  /\ UNCHANGED <<chainVars, hwm, pollVars, dispatchVars, queue, inFlight, work,
                 controlVars, historyVars, used>>

(* performActionWithRetry: a suspended stream makes no attempt, and no     *)
(* attempt is no error.                                                    *)
PerformAction ==
  /\ processor = "action"
  /\ processor' = IF suspended THEN "processed" ELSE "posting"
  /\ UNCHANGED <<chainVars, hwm, pollVars, dispatchVars, queue, inFlight, work,
                 controlVars, historyVars, used>>

(* The webhook answers with a success code.                                *)
WebhookAccepts ==
  /\ processor = "posting"
  /\ delivered' = delivered \cup ToSet(work)
  /\ processor' = "processed"
  /\ UNCHANGED <<chainVars, hwm, pollVars, dispatchVars, queue, inFlight, work,
                 controlVars, skipped, used>>

(* The attempt fails.                                                      *)
WebhookFails ==
  /\ processor = "posting"
  /\ processor' \in {"backoff", "error"}
  /\ UNCHANGED <<chainVars, hwm, pollVars, dispatchVars, queue, inFlight, work,
                 controlVars, historyVars, used>>

(* After the delay there is another attempt, if not suspended; an update   *)
(* ends the attempts.                                                      *)
Backoff ==
  /\ processor = "backoff"
  /\ \/ processor' = IF suspended THEN "error" ELSE "posting"
     \/ interrupted /\ processor' = "error"
  /\ UNCHANGED <<chainVars, hwm, pollVars, dispatchVars, queue, inFlight, work,
                 controlVars, historyVars, used>>

(* Mutant: a failed batch is processed whatever the error handling.        *)
ActionFailed_AlwaysSkips ==
  /\ processor = "error"
  /\ skipped' = skipped \cup ToSet(work)
  /\ processor' = "processed"
  /\ UNCHANGED <<chainVars, hwm, pollVars, dispatchVars, queue, inFlight, work,
                 controlVars, delivered, used>>

(* The error handling: the batch is given up or, unless suspended, is to   *)
(* be tried again later.                                                   *)
ActionFailed ==
  /\ processor = "error"
  /\ IF SkipOnError
       THEN /\ skipped' = skipped \cup ToSet(work)
            /\ processor' = "processed" /\ UNCHANGED work
       ELSE /\ processor' = IF suspended THEN "idle" ELSE "blocked"
            /\ work' = IF suspended THEN <<>> ELSE work
            /\ UNCHANGED skipped
  /\ UNCHANGED <<chainVars, hwm, pollVars, dispatchVars, queue, inFlight, controlVars,
                 delivered, used>>

(* The blocked delay ends, or an update ends the processing of the batch.  *)
BlockedRetry ==
  /\ processor = "blocked"
  /\ \/ processor' = "action" /\ UNCHANGED work
     \/ interrupted /\ processor' = "idle" /\ work' = <<>>
  /\ UNCHANGED <<chainVars, hwm, pollVars, dispatchVars, queue, inFlight, controlVars,
                 historyVars, used>>

(* The last event of a subscription in the batch gives its new mark.       *)
Acked(s) ==
  LET last == CHOOSE i \in DOMAIN work :
                /\ Log[work[i]].sub = s
                /\ \A j \in i + 1 .. Len(work) : Log[work[j]].sub # s
      next == Log[work[last]].block + 1
  IN  IF s \in Subs(ToSet(work)) /\ next > hwm[s] THEN next ELSE hwm[s]

(* Mutant: a full batch is uncounted, whatever its length.                 *)
BatchComplete_CountsFull ==
  /\ processor = "processed"
  /\ inFlight' = inFlight - BatchSize
  /\ hwm' = IF suspended THEN hwm ELSE [s \in Sub |-> Acked(s)]
  /\ processor' = "idle" /\ work' = <<>>
  /\ UNCHANGED <<chainVars, pollVars, dispatchVars, queue, controlVars, historyVars,
                 used>>

(* The events are no longer in flight and, unless suspended, acknowledged. *)
BatchComplete ==
  /\ processor = "processed"
  /\ inFlight' = inFlight - Len(work)
  /\ hwm' = IF suspended THEN hwm ELSE [s \in Sub |-> Acked(s)]
  /\ processor' = "idle" /\ work' = <<>>
  /\ UNCHANGED <<chainVars, pollVars, dispatchVars, queue, controlVars, historyVars,
                 used>>

-----------------------------------------------------------------------------
(* Control requests, one at a time.                                        *)

SuspendStream ==
  /\ update # "waiting" /\ Unlocked /\ ~ suspended
  /\ Use("suspend")
  /\ suspended' = TRUE
  /\ UNCHANGED <<chainVars, hwm, pollVars, dispatchVars, queue, inFlight, processor,
                 work, interrupted, counted, update, historyVars>>

ProcessorDone == processor \in {"suspended", "interrupted"}

(* Mutant: the filters are read from their start again.                    *)
ResumeStream_FiltersStale ==
  /\ update # "waiting" /\ Unlocked
  /\ poller = "done" /\ ProcessorDone
  /\ suspended' = FALSE
  /\ poller' = "loop" /\ processor' = "idle"
  /\ filter' = [s \in Sub |-> 0]
  /\ dispatcher' = [d \in Dispatcher |->
                      IF dispatcher[d] = "current" THEN "replaced" ELSE dispatcher[d]]
  /\ interrupted' = FALSE /\ counted' = {}
  /\ UNCHANGED <<head, stored, known, hwm, subs, todo, outbox, current, queue,
                 inFlight, work, update, historyVars, used>>

(* Resumed, poller and processor start again with a channel and a group of *)
(* their own; the dispatcher still waits on the old channel.  The request  *)
(* is refused while one of them runs.                                      *)
ResumeStream ==
  /\ update # "waiting" /\ Unlocked
  /\ poller = "done" /\ ProcessorDone
  /\ suspended' = FALSE
  /\ poller' = "loop" /\ processor' = "idle"
  /\ dispatcher' = [d \in Dispatcher |->
                      IF dispatcher[d] = "current" THEN "replaced" ELSE dispatcher[d]]
  /\ interrupted' = FALSE /\ counted' = {}
  /\ UNCHANGED <<chainVars, hwm, subs, todo, outbox, current, queue, inFlight, work,
                 update, historyVars, used>>

(* updateInProgress is set and updateInterrupt closed.  When a refused     *)
(* update left it closed, closing it panics, which ends the request.       *)
BeginUpdate ==
  /\ update # "waiting" /\ Unlocked /\ ~ interrupted
  /\ Use("update")
  /\ update' = "waiting" /\ interrupted' = TRUE
  /\ dispatcher' = [d \in Dispatcher |->
                      IF dispatcher[d] = "current" THEN "closed" ELSE dispatcher[d]]
  /\ UNCHANGED <<chainVars, hwm, pollVars, current, queue, inFlight, processor, work,
                 suspended, counted, historyVars>>

(* updateWG: every goroutine it counts has reported.                       *)
Stopped ==
  /\ poller = "done" /\ processor = "interrupted"
  /\ \A d \in counted : dispatcher[d] = "off"

(* The new settings are taken over and all goroutines started.             *)
EndUpdate ==
  /\ update = "waiting" /\ Stopped
  /\ update' = "none" /\ interrupted' = FALSE
  /\ poller' = "loop" /\ processor' = "idle"
  /\ counted' = {used["update"] + 1}
  /\ dispatcher' = [dispatcher EXCEPT ![used["update"] + 1] = "current"]
  /\ UNCHANGED <<chainVars, hwm, subs, todo, outbox, current, queue, inFlight, work,
                 suspended, historyVars, used>>

(* The webhook of the new settings has no valid URL: nothing is started,   *)
(* and updateInProgress stays set.                                         *)
RejectUpdate ==
  /\ update = "waiting" /\ Stopped
  /\ update' = "failed"
  /\ UNCHANGED <<chainVars, hwm, pollVars, dispatchVars, queue, inFlight, processor,
                 work, suspended, interrupted, counted, historyVars, used>>

(* The process ends at any moment and starts again from the store.         *)
Crash ==
  /\ Use("crash")
  /\ known' = {}
  /\ filter' = [s \in Sub |-> 0]
  /\ hwm' = [s \in Sub |-> 0]
  /\ poller' = "loop" /\ subs' = {} /\ todo' = {} /\ outbox' = {}
  /\ dispatcher' = [d \in Dispatcher |-> IF d = 1 THEN "current" ELSE "off"]
  /\ current' = [d \in Dispatcher |-> <<>>]
  /\ queue' = <<>> /\ inFlight' = 0
  /\ processor' = "idle" /\ work' = <<>>
  /\ interrupted' = FALSE /\ counted' = {1} /\ update' = "none"
  /\ UNCHANGED <<head, stored, suspended, historyVars>>

-----------------------------------------------------------------------------
Poll ==
  \/ BeginPoll \/ StoreCheckpoint \/ EndPoll
  \/ \E s \in Sub : ProcessNewEvents(s) \/ SubscriptionError(s)

Dispatch(d) == HandleEvent(d) \/ BatchTimeout(d) \/ EndDispatcher(d)

Process ==
  \/ TakeBatch \/ ProcessBatch \/ EndProcessor \/ PerformAction \/ WebhookAccepts
  \/ WebhookFails \/ Backoff \/ ActionFailed \/ BlockedRetry \/ BatchComplete

Control == SuspendStream \/ ResumeStream \/ BeginUpdate \/ EndUpdate \/ RejectUpdate

Next ==
  \/ Mine \/ Poll \/ Process \/ Control \/ Crash
  \/ \E s \in Sub : AddSubscription(s)
  \/ \E d \in Dispatcher : Dispatch(d)

Spec == Init /\ [][Next]_vars

(***************************************************************************)
(* Every goroutine keeps running, an update goes on once its goroutines    *)
(* have stopped, the chain grows, subscriptions are restored, and a        *)
(* webhook that is tried again and again accepts in the end.               *)
(***************************************************************************)
Fairness ==
  /\ WF_vars(Mine) /\ WF_vars(Poll) /\ WF_vars(Process) /\ SF_vars(WebhookAccepts)
  /\ WF_vars(EndUpdate \/ RejectUpdate)
  /\ \A s \in Sub : WF_vars(AddSubscription(s))
  /\ \A d \in Dispatcher : WF_vars(Dispatch(d))

FairSpec == Spec /\ Fairness

-----------------------------------------------------------------------------
TypeOK ==
  /\ head \in Nat
  /\ stored \in [Sub -> Nat]
  /\ known \subseteq Sub
  /\ filter \in [Sub -> Nat]
  /\ hwm \in [Sub -> Nat]
  /\ poller \in {"loop", "poll", "wait", "done"}
  /\ todo \subseteq subs /\ subs \subseteq Sub
  /\ outbox \subseteq Event
  /\ dispatcher \in [Dispatcher -> {"off", "current", "replaced", "closed"}]
  /\ current \in [Dispatcher -> Seq(Event)]
  /\ queue \in Seq(Seq(Event))
  /\ inFlight \in Nat
  /\ processor \in {"idle", "taken", "action", "posting", "backoff", "error",
                    "blocked", "processed", "suspended", "interrupted", "stuck"}
  /\ work \in Seq(Event)
  /\ suspended \in BOOLEAN /\ interrupted \in BOOLEAN
  /\ counted \subseteq Dispatcher
  /\ update \in {"none", "waiting", "failed"}
  /\ delivered \subseteq Event /\ skipped \subseteq Event
  /\ used \in [Kinds -> Nat]

(* Every event a batch holds is counted in flight, so that the unsigned    *)
(* counter never goes below zero and blocks the poller for good.           *)
Slots(batches) == UNION {{k} \X DOMAIN batches[k] : k \in DOMAIN batches}
Held(batches) == Cardinality(Slots(batches))

InFlightCovers == inFlight >= Held(queue) + Held(current) + Len(work)

(* A checkpoint is never past an event that was neither delivered nor      *)
(* given up ("all matching events will be reliably read, batched and       *)
(* delivered", smartcontractgw.go).                                        *)
CheckpointBehindDelivery ==
  \A e \in Event :
    Log[e].block < stored[Log[e].sub] => e \in delivered \cup skipped

(* Suspending, resuming and updating a stream never deliver an event twice *)
(* (only a lost filter or a restart has events read again).                *)
NoDuplicateDelivery ==
  [][WebhookAccepts /\ used["crash"] = 0 /\ used["failure"] = 0
       => ToSet(work) \cap delivered = {}]_vars

(* A stream that is suspended, and is not also updated, comes to where it  *)
(* can be resumed.                                                         *)
Resumable == poller = "done" /\ ProcessorDone

SuspendSettles ==
  suspended /\ used["update"] = 0 ~> ~ suspended \/ Resumable \/ used["update"] > 0

(* Each event is delivered in the end.                                     *)
EveryEventDelivered == \A e \in Event : <>(e \in delivered)

(* An update returns.                                                      *)
UpdateReturns == update = "waiting" ~> update # "waiting"

=============================================================================
