------------------------- MODULE EventStream_proofs -------------------------
(***************************************************************************)
(* Proofs about EventStream for any chain, subscriptions and batch size,   *)
(* and any number of control requests, failures and restarts.              *)
(***************************************************************************)
EXTENDS EventStream, FiniteSetTheorems, SequenceTheorems, TLAPS

-----------------------------------------------------------------------------
(* Lemmas about numbers and sequences                                      *)

LEMMA MaxExists ==
  ASSUME NEW n \in Nat, NEW T, T \subseteq 1..n, T # {}
  PROVE  \E i \in T : \A j \in T : j <= i
<1> DEFINE Above(i) == {j \in T : i < j}
           F == {Above(i) : i \in T}
<1>1. IsFiniteSet(1..n)
  BY FS_Interval
<1>2. IsWellFoundedOn(StrictSubsetOrdering(1..n), FiniteSubsetsOf(1..n))
  BY FS_StrictSubsetOrderingWellFounded
<1>a. FiniteSubsetsOf(1..n) = SUBSET (1..n)
  BY <1>1, FS_FiniteSubsetsOfFinite
<1>3. F \subseteq FiniteSubsetsOf(1..n) /\ F # {}
  <2>1. \A i \in T : Above(i) \subseteq 1..n
    OBVIOUS
  <2>2. F \subseteq SUBSET (1..n)
    BY <2>1
  <2>3. F # {}
    OBVIOUS
  <2> QED BY <1>a, <2>2, <2>3
<1>b. \A i, j, k \in T : i \in Int /\ ~(i < i) /\ (i < j /\ j < k => i < k)
  OBVIOUS
<1>4. PICK A \in F : \A B \in F : <<B, A>> \notin StrictSubsetOrdering(1..n)
  <2> HIDE DEF F
  <2> QED BY <1>2, <1>3, WFMin
<1>5. PICK i \in T : A = Above(i)
  BY <1>4
<1>6. ASSUME NEW j \in T, i < j PROVE FALSE
  <2>1. Above(j) \subseteq Above(i) /\ j \in Above(i) /\ j \notin Above(j)
    BY <1>6, <1>b
  <2>2. <<Above(j), Above(i)>> \in StrictSubsetOrdering(1..n)
    BY <2>1 DEF StrictSubsetOrdering
  <2> QED BY <1>4, <1>5, <2>2
<1> QED BY <1>6

LEMMA ToSetType ==
  ASSUME NEW S, NEW s \in Seq(S)
  PROVE  /\ ToSet(s) \subseteq S
         /\ \A x : x \in ToSet(s) <=> \E i \in 1..Len(s) : s[i] = x
BY DEF ToSet

LEMMA ToSetAppend ==
  ASSUME NEW S, NEW s \in Seq(S), NEW x \in S
  PROVE  /\ Append(s, x) \in Seq(S) /\ Len(Append(s, x)) = Len(s) + 1
         /\ ToSet(Append(s, x)) = ToSet(s) \cup {x}
<1>1. Append(s, x) \in Seq(S) /\ Len(Append(s, x)) = Len(s) + 1
  OBVIOUS
<1>2. \A i \in 1..Len(s) : Append(s, x)[i] = s[i]
  OBVIOUS
<1>3. Append(s, x)[Len(s) + 1] = x
  OBVIOUS
<1>4. DOMAIN Append(s, x) = 1..(Len(s) + 1) /\ DOMAIN s = 1..Len(s) /\ Len(s) \in Nat
  OBVIOUS
<1>5. 1..(Len(s) + 1) = 1..Len(s) \cup {Len(s) + 1}
  BY <1>4
<1> QED BY <1>1, <1>2, <1>3, <1>4, <1>5 DEF ToSet

LEMMA ToSetEmpty == ToSet(<<>>) = {} /\ Len(<<>>) = 0 /\ \A S : <<>> \in Seq(S)
BY DEF ToSet

(* A batch is not empty when an event is in it.                            *)
LEMMA LenOfEmpty ==
  ASSUME NEW S, NEW s \in Seq(S) PROVE s # <<>> <=> Len(s) > 0
BY EmptySeq

-----------------------------------------------------------------------------
(* The types                                                               *)

LEMMA EventType ==
  /\ Len(Log) \in Nat /\ Event = 1..Len(Log)
  /\ \A e \in Event : Log[e] \in [sub : Sub, block : Nat \ {0}]
<1>1. Log \in Seq([sub : Sub, block : Nat \ {0}])
  BY StreamAssumption
<1> QED BY <1>1, LenProperties, ElementOfSeq DEF Event

LEMMA EventFields ==
  ASSUME NEW e \in Event
  PROVE  Log[e].sub \in Sub /\ Log[e].block \in Nat /\ Log[e].block > 0
BY EventType

Types ==
  /\ head \in Nat
  /\ stored \in [Sub -> Nat]
  /\ known \subseteq Sub
  /\ filter \in [Sub -> Nat]
  /\ hwm \in [Sub -> Nat]
  /\ poller \in {"loop", "poll", "wait", "done"}
  /\ todo \subseteq subs /\ subs \subseteq Sub
  /\ outbox \subseteq Event
  /\ dispatcher \in [Dispatcher -> {"off", "current", "replaced", "closed"}]
  /\ current \in [Dispatcher -> Seq(Event)]
  /\ queue \in Seq(Seq(Event))
  /\ processor \in {"idle", "taken", "action", "posting", "backoff", "error",
                    "blocked", "processed", "suspended", "interrupted", "stuck"}
  /\ work \in Seq(Event)
  /\ suspended \in BOOLEAN /\ interrupted \in BOOLEAN
  /\ counted \subseteq Dispatcher
  /\ update \in {"none", "waiting", "failed"}
  /\ delivered \subseteq Event /\ skipped \subseteq Event
  /\ used \in [Kinds -> Nat]
  /\ used["update"] <= MaxUpdates

LEMMA TypesInit == Init => Types
<1> SUFFICES ASSUME Init PROVE Types
  OBVIOUS
<1>1. current \in [Dispatcher -> Seq(Event)] /\ queue \in Seq(Seq(Event)) /\ work \in Seq(Event)
  BY ToSetEmpty DEF Init
<1>2. 1 \in Dispatcher
  BY StreamAssumption DEF Dispatcher
<1>3. used \in [Kinds -> Nat] /\ used["update"] <= MaxUpdates
  BY StreamAssumption DEF Init, Kinds
<1> QED BY <1>1, <1>2, <1>3 DEF Init, Types

(* The events that a batch acknowledges                                    *)
LastIn(s, last) ==
  /\ last \in DOMAIN work /\ Log[work[last]].sub = s
  /\ \A j \in last + 1 .. Len(work) : Log[work[j]].sub # s

LEMMA AckedIs ==
  ASSUME Types, NEW s \in Sub
  PROVE  \/ Acked(s) = hwm[s]
         \/ \E last \in 1..Len(work) : LastIn(s, last) /\ Acked(s) = Log[work[last]].block + 1
<1> DEFINE T == {i \in 1..Len(work) : Log[work[i]].sub = s}
           l == CHOOSE i \in DOMAIN work :
                  /\ Log[work[i]].sub = s
                  /\ \A j \in i + 1 .. Len(work) : Log[work[j]].sub # s
           next == Log[work[l]].block + 1
<1>1. Acked(s) = IF s \in Subs(ToSet(work)) /\ next > hwm[s] THEN next ELSE hwm[s]
  BY DEF Acked
<1>2. work \in Seq(Event) /\ Len(work) \in Nat /\ DOMAIN work = 1..Len(work)
  BY DEF Types
<1>3. CASE s \in Subs(ToSet(work))
  <2>1. T # {}
    BY <1>2, <1>3 DEF Subs, ToSet
  <2>2. PICK i \in T : \A j \in T : j <= i
    BY <1>2, <2>1, MaxExists
  <2>3. i \in DOMAIN work /\ Log[work[i]].sub = s
    BY <1>2, <2>2
  <2>4. \A j \in i + 1 .. Len(work) : Log[work[j]].sub # s
    BY <1>2, <2>2
  <2>5. LastIn(s, l)
    BY <2>3, <2>4 DEF LastIn
  <2>6. l \in 1..Len(work)
    BY <1>2, <2>5 DEF LastIn
  <2> HIDE DEF l
  <2> QED BY <1>1, <2>5, <2>6
<1>4. CASE s \notin Subs(ToSet(work))
  BY <1>1, <1>4
<1> QED BY <1>3, <1>4

LEMMA AckedType ==
  ASSUME Types PROVE \A s \in Sub : Acked(s) \in Nat
<1> SUFFICES ASSUME NEW s \in Sub PROVE Acked(s) \in Nat
  OBVIOUS
<1>1. CASE Acked(s) = hwm[s]
  BY <1>1 DEF Types
<1>2. ASSUME NEW last \in 1..Len(work), Acked(s) = Log[work[last]].block + 1
      PROVE  Acked(s) \in Nat
  <2>1. work[last] \in Event
    BY <1>2 DEF Types
  <2> QED BY <1>2, <2>1, EventFields
<1> QED BY <1>1, <1>2, AckedIs

LEMMA UseType ==
  ASSUME used \in [Kinds -> Nat], used["update"] <= MaxUpdates, NEW k \in Kinds, Use(k)
  PROVE  used' \in [Kinds -> Nat] /\ used'["update"] <= MaxUpdates
<1>1. used' = [used EXCEPT ![k] = used[k] + 1] /\ used[k] < Limit[k]
  BY DEF Use
<1>2. Limit["update"] = MaxUpdates
  BY DEF Limit
<1>3. used[k] \in Nat /\ used["update"] \in Nat
  BY DEF Kinds
<1>4. used' \in [Kinds -> Nat]
  BY <1>1, <1>3
<1>5. used'["update"] = IF k = "update" THEN used["update"] + 1 ELSE used["update"]
  BY <1>1 DEF Kinds
<1> QED BY <1>1, <1>2, <1>3, <1>4, <1>5, StreamAssumption

LEMMA TypesPoll ==
  ASSUME Types, Poll \/ Mine \/ \E s \in Sub : AddSubscription(s)
  PROVE  Types'
<1> USE DEF chainVars, pollVars, dispatchVars, controlVars, historyVars
<1>1. ASSUME NEW s \in Sub PROVE FilterStart(s) \in Nat /\ filter[s] \in Nat
  BY DEF Types, FilterStart
<1>2. CASE Mine
  BY <1>2 DEF Mine, Types
<1>3. ASSUME NEW s \in Sub, AddSubscription(s) PROVE Types'
  BY <1>3 DEF AddSubscription, Types
<1>4. CASE BeginPoll
  BY <1>4 DEF BeginPoll, Types
<1>5. CASE StoreCheckpoint
  <2>1. stored' \in [Sub -> Nat]
    BY <1>5 DEF StoreCheckpoint, Types
  <2> QED BY <1>5, <2>1 DEF StoreCheckpoint, Types
<1>6. CASE EndPoll
  BY <1>6 DEF EndPoll, Types
<1>7. ASSUME NEW s \in Sub, SetBlockHeight(s) PROVE hwm' \in [Sub -> Nat]
  BY <1>1, <1>7 DEF SetBlockHeight, Types
<1>8. ASSUME NEW s \in Sub, ProcessNewEvents(s) PROVE Types'
  <2>1. hwm' \in [Sub -> Nat]
    BY <1>7, <1>8 DEF ProcessNewEvents
  <2>2. filter' \in [Sub -> Nat]
    BY <1>8 DEF ProcessNewEvents, Types
  <2>3. todo' \subseteq subs /\ outbox' \subseteq Event
    BY <1>8 DEF ProcessNewEvents, Types
  <2> QED BY <1>8, <2>1, <2>2, <2>3 DEF ProcessNewEvents, Types
<1>9. ASSUME NEW s \in Sub, SubscriptionError(s) PROVE Types'
  <2>1. hwm' \in [Sub -> Nat]
    BY <1>7, <1>9 DEF SubscriptionError
  <2>2. filter' \in [Sub -> Nat]
    <3>1. \/ filter' = [filter EXCEPT ![s] = 0]
          \/ filter' = [filter EXCEPT ![s] = FilterStart(s)]
      BY <1>9 DEF SubscriptionError
    <3>2. FilterStart(s) \in Nat /\ filter \in [Sub -> Nat]
      BY <1>1 DEF Types
    <3> QED BY <3>1, <3>2
  <2>3. used' \in [Kinds -> Nat] /\ used'["update"] <= MaxUpdates
    BY <1>9, UseType DEF SubscriptionError, Kinds, Types
  <2>4. todo' \subseteq subs
    BY <1>9 DEF SubscriptionError, Types
  <2> QED BY <1>9, <2>1, <2>2, <2>3, <2>4 DEF SubscriptionError, Types
<1> QED BY <1>2, <1>3, <1>4, <1>5, <1>6, <1>8, <1>9 DEF Poll

LEMMA TypesDispatch ==
  ASSUME Types, NEW d \in Dispatcher, Dispatch(d)
  PROVE  Types'
<1> USE DEF chainVars, pollVars, controlVars, historyVars
<1>1. current[d] \in Seq(Event)
  BY DEF Types
<1>2. ASSUME Rewait(d)
      PROVE  dispatcher' \in [Dispatcher -> {"off", "current", "replaced", "closed"}]
  BY <1>2 DEF Rewait, Types
<1>3. CASE HandleEvent(d)
  <2>1. PICK e \in outbox : LET batch == Append(current[d], e)
                                full == Len(batch) = BatchSize IN
          /\ outbox' = outbox \ {e}
          /\ current' = [current EXCEPT ![d] = IF full THEN <<>> ELSE batch]
          /\ queue' = IF full THEN Append(queue, batch) ELSE queue
    BY <1>3 DEF HandleEvent
  <2>2. Append(current[d], e) \in Seq(Event) /\ <<>> \in Seq(Event)
    BY <1>1, <2>1, ToSetAppend, ToSetEmpty DEF Types
  <2>3. current' \in [Dispatcher -> Seq(Event)]
    BY <2>1, <2>2 DEF Types
  <2>4. queue' \in Seq(Seq(Event))
    BY <2>1, <2>2 DEF Types
  <2>5. outbox' \subseteq Event
    BY <2>1 DEF Types
  <2> QED BY <1>2, <1>3, <2>3, <2>4, <2>5 DEF HandleEvent, Types
<1>4. CASE BatchTimeout(d)
  <2>1. current' = [current EXCEPT ![d] = <<>>] /\ queue' = Append(queue, current[d])
    BY <1>4 DEF BatchTimeout
  <2>2. current' \in [Dispatcher -> Seq(Event)]
    BY <2>1, ToSetEmpty DEF Types
  <2>3. queue' \in Seq(Seq(Event))
    BY <1>1, <2>1 DEF Types
  <2> QED BY <1>2, <1>4, <2>2, <2>3 DEF BatchTimeout, Types
<1>5. CASE EndDispatcher(d)
  <2>1. current' \in [Dispatcher -> Seq(Event)]
    BY <1>5, ToSetEmpty DEF EndDispatcher, Types
  <2>2. dispatcher' \in [Dispatcher -> {"off", "current", "replaced", "closed"}]
    BY <1>5 DEF EndDispatcher, Types
  <2> QED BY <1>5, <2>1, <2>2 DEF EndDispatcher, Types
<1> QED BY <1>3, <1>4, <1>5 DEF Dispatch

LEMMA TypesProcess == ASSUME Types, Process PROVE Types'
<1> USE DEF chainVars, pollVars, dispatchVars, controlVars, historyVars
<1>0. work \in Seq(Event) /\ ToSet(work) \subseteq Event /\ <<>> \in Seq(Event)
  BY ToSetType, ToSetEmpty DEF Types
<1>1. CASE TakeBatch
  <2>1. Head(queue) \in Seq(Event) /\ Tail(queue) \in Seq(Seq(Event))
    BY <1>1, HeadTailProperties DEF TakeBatch, Types
  <2> QED BY <1>1, <2>1 DEF TakeBatch, Types
<1>2. CASE EndProcessor \/ PerformAction
  BY <1>2 DEF EndProcessor, PerformAction, Types
<1>3. CASE WebhookFails \/ Backoff
  BY <1>3 DEF WebhookFails, Backoff, Types
<1>4. CASE WebhookAccepts
  BY <1>0, <1>4 DEF WebhookAccepts, Types
<1>5. CASE ActionFailed
  BY <1>0, <1>5 DEF ActionFailed, Types
<1>6. CASE BlockedRetry
  BY <1>0, <1>6 DEF BlockedRetry, Types
<1>7. CASE BatchComplete
  <2>1. hwm' \in [Sub -> Nat]
    BY <1>7, AckedType DEF BatchComplete, Types
  <2> QED BY <1>0, <1>7, <2>1 DEF BatchComplete, Types
<1>8. CASE ProcessBatch
  BY <1>0, <1>8 DEF ProcessBatch, Types
<1> QED BY <1>1, <1>2, <1>3, <1>4, <1>5, <1>6, <1>7, <1>8 DEF Process

LEMMA TypesControl == ASSUME Types, Control \/ Crash PROVE Types'
<1> USE DEF chainVars, pollVars, dispatchVars, controlVars, historyVars
<1>1. CASE SuspendStream
  <2>1. used' \in [Kinds -> Nat] /\ used'["update"] <= MaxUpdates
    BY <1>1, UseType DEF SuspendStream, Kinds, Types
  <2> QED BY <1>1, <2>1 DEF SuspendStream, Types
<1>2. CASE ResumeStream
  BY <1>2 DEF ResumeStream, Types
<1>3. CASE BeginUpdate
  <2>1. used' \in [Kinds -> Nat] /\ used'["update"] <= MaxUpdates
    BY <1>3, UseType DEF BeginUpdate, Kinds, Types
  <2> QED BY <1>3, <2>1 DEF BeginUpdate, Types
<1>4. CASE EndUpdate
  <2>1. used["update"] + 1 \in Dispatcher
    BY StreamAssumption DEF Types, Kinds, Dispatcher
  <2> QED BY <1>4, <2>1 DEF EndUpdate, Types
<1>5. CASE RejectUpdate
  BY <1>5 DEF RejectUpdate, Types
<1>6. CASE Crash
  <2>1. used' \in [Kinds -> Nat] /\ used'["update"] <= MaxUpdates
    BY <1>6, UseType DEF Crash, Kinds, Types
  <2>2. /\ current' \in [Dispatcher -> Seq(Event)] /\ queue' \in Seq(Seq(Event))
        /\ work' \in Seq(Event)
    BY <1>6, ToSetEmpty DEF Crash
  <2>3. 1 \in Dispatcher
    BY StreamAssumption DEF Dispatcher
  <2> QED BY <1>6, <2>1, <2>2, <2>3 DEF Crash, Types
<1> QED BY <1>1, <1>2, <1>3, <1>4, <1>5, <1>6 DEF Control

LEMMA TypesStep == Types /\ [Next]_vars => Types'
<1>1. ASSUME Types, UNCHANGED vars PROVE Types'
  BY <1>1 DEF Types, vars, chainVars, pollVars, dispatchVars, controlVars, historyVars
<1> QED BY <1>1, TypesPoll, TypesDispatch, TypesProcess, TypesControl DEF Next

LEMMA TypesHold == Spec => []Types
BY TypesInit, TypesStep, PTL DEF Spec

-----------------------------------------------------------------------------
(* The events in flight                                                    *)

(* Batches at the places D: of the dispatchers, or of the queue           *)
Batches(D) == [D -> Seq(Event)]

(* The places of a batch k                                                 *)
Places(k, batch) == {k} \X DOMAIN batch

LEMMA PlacesCounted ==
  ASSUME NEW batch \in Seq(Event), NEW k
  PROVE  IsFiniteSet(Places(k, batch)) /\ Cardinality(Places(k, batch)) = Len(batch)
<1> DEFINE n == Len(batch)
<1>1. n \in Nat /\ DOMAIN batch = 1..n
  OBVIOUS
<1>2. IsFiniteSet(1..n) /\ Cardinality(1..n) = n
  BY <1>1, FS_Interval
<1>3. IsFiniteSet({k}) /\ Cardinality({k}) = 1
  BY FS_Singleton
<1> HIDE DEF n
<1>4. IsFiniteSet({k} \X (1..n)) /\ Cardinality({k} \X (1..n)) = 1 * n
  BY <1>2, <1>3, FS_Product
<1>5. 1 * n = n
  BY <1>1
<1> QED BY <1>1, <1>4, <1>5 DEF Places, n

LEMMA SlotsAre ==
  ASSUME NEW b, NEW k, NEW i
  PROVE  <<k, i>> \in Slots(b) <=> k \in DOMAIN b /\ i \in DOMAIN b[k]
BY DEF Slots

LEMMA SlotsCounted ==
  ASSUME NEW D, IsFiniteSet(D), NEW b \in Batches(D)
  PROVE  IsFiniteSet(Slots(b)) /\ Held(b) \in Nat
<1> DEFINE g == [k \in D |-> Places(k, b[k])]
           T == {g[k] : k \in D}
<1>1. g \in Surjection(D, T)
  BY DEF Surjection
<1>2. IsFiniteSet(T)
  <2> HIDE DEF T, g
  <2> QED BY <1>1, FS_Surjection
<1>3. \A t \in T : IsFiniteSet(t)
  BY PlacesCounted DEF Batches
<1>4. Slots(b) = UNION T
  BY DEF Slots, Places, Batches
<1>5. IsFiniteSet(UNION T)
  <2> HIDE DEF T
  <2> QED BY <1>2, <1>3, FS_UNION
<1> QED BY <1>4, <1>5, FS_CardinalityType DEF Held

(* Without the places of batch k                                           *)
LEMMA SlotsSplit ==
  ASSUME NEW D, IsFiniteSet(D), NEW b \in Batches(D), NEW k \in D
  PROVE  /\ IsFiniteSet(Slots(b) \ Places(k, b[k]))
         /\ Cardinality(Slots(b) \ Places(k, b[k])) = Held(b) - Len(b[k])
<1> DEFINE P == Places(k, b[k])
<1>1. IsFiniteSet(P) /\ Cardinality(P) = Len(b[k])
  BY PlacesCounted DEF Batches
<1>2. IsFiniteSet(Slots(b))
  BY SlotsCounted
<1>3. P \subseteq Slots(b)
  BY DEF Slots, Places, Batches
<1>4. Slots(b) \cap P = P
  BY <1>3
<1>5. /\ IsFiniteSet(Slots(b) \ P)
      /\ Cardinality(Slots(b) \ P) = Cardinality(Slots(b)) - Cardinality(Slots(b) \cap P)
  BY <1>2, FS_Difference
<1> QED BY <1>1, <1>4, <1>5 DEF Held

LEMMA HeldExcept ==
  ASSUME NEW D, IsFiniteSet(D), NEW b \in Batches(D), NEW k \in D,
         NEW c \in Seq(Event), NEW a, a = [b EXCEPT ![k] = c]
  PROVE  Held(a) = Held(b) - Len(b[k]) + Len(c)
<1>1. a \in Batches(D) /\ a[k] = c
  BY DEF Batches
<1>2. Slots(a) \ Places(k, a[k]) = Slots(b) \ Places(k, b[k])
  <2>1. \A j \in D : j # k => a[j] = b[j]
    BY DEF Batches
  <2>2. DOMAIN a = D /\ DOMAIN b = D
    BY <1>1 DEF Batches
  <2>3. \A p : p \in Slots(a) \ Places(k, a[k]) <=>
                 \E j \in D : j # k /\ p \in Places(j, a[j])
    BY <2>2 DEF Slots, Places
  <2>4. \A p : p \in Slots(b) \ Places(k, b[k]) <=>
                 \E j \in D : j # k /\ p \in Places(j, b[j])
    BY <2>2 DEF Slots, Places
  <2> QED BY <2>1, <2>3, <2>4
<1>3. /\ IsFiniteSet(Slots(a) \ Places(k, a[k]))
      /\ Cardinality(Slots(a) \ Places(k, a[k])) = Held(a) - Len(a[k])
  BY <1>1, SlotsSplit
<1>4. /\ IsFiniteSet(Slots(b) \ Places(k, b[k]))
      /\ Cardinality(Slots(b) \ Places(k, b[k])) = Held(b) - Len(b[k])
  BY SlotsSplit
<1>5. Held(a) \in Nat /\ Held(b) \in Nat
  BY <1>1, SlotsCounted
<1>6. Len(c) \in Nat /\ Len(b[k]) \in Nat
  BY DEF Batches
<1>7. Held(a) - Len(c) = Held(b) - Len(b[k])
  BY <1>1, <1>2, <1>3, <1>4, Zenon
<1> QED BY <1>5, <1>6, <1>7

LEMMA QueueCounted ==
  ASSUME NEW q \in Seq(Seq(Event))
  PROVE  /\ Len(q) \in Nat /\ DOMAIN q = 1..Len(q) /\ IsFiniteSet(1..Len(q))
         /\ q \in Batches(1..Len(q))
         /\ IsFiniteSet(Slots(q)) /\ Held(q) \in Nat
<1>1. Len(q) \in Nat /\ DOMAIN q = 1..Len(q) /\ q \in Batches(1..Len(q))
  BY DEF Batches
<1>2. IsFiniteSet(1..Len(q))
  BY <1>1, FS_Interval
<1> QED BY <1>1, <1>2, SlotsCounted

LEMMA HeldAppend ==
  ASSUME NEW q \in Seq(Seq(Event)), NEW c \in Seq(Event)
  PROVE  Held(Append(q, c)) = Held(q) + Len(c)
<1> DEFINE a == Append(q, c)
           n == Len(q) + 1
<1>1. a \in Seq(Seq(Event)) /\ Len(a) = n /\ a[n] = c /\ \A i \in 1..Len(q) : a[i] = q[i]
  OBVIOUS
<1>2. Len(q) \in Nat /\ DOMAIN q = 1..Len(q) /\ 1..n = 1..Len(q) \cup {n} /\ n \notin 1..Len(q)
  OBVIOUS
<1> HIDE DEF a, n
<1>3. a \in Batches(1..n) /\ IsFiniteSet(1..n) /\ n \in 1..n /\ DOMAIN a = 1..n
  BY <1>1, <1>2, QueueCounted
<1>4. Slots(a) \ Places(n, a[n]) = Slots(q)
  <2>1. \A p : p \in Slots(a) \ Places(n, a[n]) <=>
                 \E j \in 1..Len(q) : p \in Places(j, a[j])
    BY <1>2, <1>3 DEF Slots, Places
  <2>2. \A p : p \in Slots(q) <=> \E j \in 1..Len(q) : p \in Places(j, q[j])
    BY <1>2 DEF Slots, Places
  <2>3. \A p : p \in Slots(a) \ Places(n, a[n]) <=> p \in Slots(q)
    BY <1>1, <2>1, <2>2
  <2> QED BY <2>3
<1>5. /\ IsFiniteSet(Slots(a) \ Places(n, a[n]))
      /\ Cardinality(Slots(a) \ Places(n, a[n])) = Held(a) - Len(a[n])
  BY <1>3, SlotsSplit
<1>6. Held(a) \in Nat /\ Held(q) \in Nat /\ Len(c) \in Nat
  BY <1>1, QueueCounted
<1>7. Held(a) - Len(c) = Held(q)
  BY <1>1, <1>4, <1>5, Zenon DEF Held
<1> QED BY <1>6, <1>7 DEF a

LEMMA HeldTail ==
  ASSUME NEW q \in Seq(Seq(Event)), q # <<>>
  PROVE  Held(Tail(q)) = Held(q) - Len(Head(q))
<1> DEFINE t == Tail(q)
           R == Slots(q) \ Places(1, q[1])
           f == [p \in Slots(t) |-> <<p[1] + 1, p[2]>>]
<1>1. /\ t \in Seq(Seq(Event)) /\ Len(q) \in Nat /\ Len(q) > 0 /\ Len(t) = Len(q) - 1
      /\ Head(q) = q[1] /\ 1 \in 1..Len(q)
      /\ \A k \in 1..Len(t) : t[k] = q[k + 1]
  BY EmptySeq, HeadTailProperties
<1>2. DOMAIN q = 1..Len(q) /\ DOMAIN t = 1..Len(t)
  BY <1>1, QueueCounted
<1> HIDE DEF t
<1>3. \A p : p \in Slots(t) <=> \E k \in 1..Len(t) : \E i \in DOMAIN t[k] : p = <<k, i>>
  BY <1>2 DEF Slots
<1>4. \A p : p \in R <=> \E k \in 2..Len(q) : \E i \in DOMAIN q[k] : p = <<k, i>>
  <2>1. \A p : p \in Slots(q) <=> \E k \in 1..Len(q) : \E i \in DOMAIN q[k] : p = <<k, i>>
    BY <1>2 DEF Slots
  <2>2. \A p : p \in Places(1, q[1]) <=> \E i \in DOMAIN q[1] : p = <<1, i>>
    BY DEF Places
  <2>3. \A k : k \in 1..Len(q) <=> k = 1 \/ k \in 2..Len(q)
    BY <1>1
  <2>4. 1 \notin 2..Len(q)
    OBVIOUS
  <2> QED BY <2>1, <2>2, <2>3, <2>4
<1>5. \A k \in 1..Len(t) : k \in Nat /\ k + 1 \in 2..Len(q)
  BY <1>1
<1>6. \A k \in 2..Len(q) : k - 1 \in 1..Len(t) /\ (k - 1) + 1 = k /\ t[k - 1] = q[k]
  BY <1>1
<1>7. \A k, i : k \in 1..Len(t) /\ <<k, i>> \in Slots(t) => f[<<k, i>>] = <<k + 1, i>>
  OBVIOUS
<1>8. f \in [Slots(t) -> R]
  <2>1. ASSUME NEW p \in Slots(t) PROVE f[p] \in R
    <3>1. PICK k, i : k \in 1..Len(t) /\ i \in DOMAIN t[k] /\ p = <<k, i>>
      BY <1>3
    <3>2. f[p] = <<k + 1, i>> /\ i \in DOMAIN q[k + 1] /\ k + 1 \in 2..Len(q)
      BY <1>1, <1>5, <1>7, <3>1
    <3> QED BY <1>4, <3>2
  <2> QED BY <2>1
<1>9. ASSUME NEW p \in Slots(t), NEW r \in Slots(t), f[p] = f[r] PROVE p = r
  <2>1. PICK k, i : k \in 1..Len(t) /\ i \in DOMAIN t[k] /\ p = <<k, i>>
    BY <1>3
  <2>2. PICK l, j : l \in 1..Len(t) /\ j \in DOMAIN t[l] /\ r = <<l, j>>
    BY <1>3
  <2>3. <<k + 1, i>> = <<l + 1, j>>
    BY <1>7, <1>9, <2>1, <2>2
  <2>4. k + 1 = l + 1 /\ i = j
    BY <2>3
  <2> QED BY <1>5, <2>1, <2>2, <2>4
<1>10. ASSUME NEW r \in R PROVE \E p \in Slots(t) : f[p] = r
  <2>1. PICK k, i : k \in 2..Len(q) /\ i \in DOMAIN q[k] /\ r = <<k, i>>
    BY <1>4
  <2>2. <<k - 1, i>> \in Slots(t)
    BY <1>3, <1>6, <2>1
  <2>3. f[<<k - 1, i>>] = <<(k - 1) + 1, i>>
    BY <1>6, <1>7, <2>1, <2>2
  <2> QED BY <1>6, <2>1, <2>2, <2>3
<1>11. f \in Bijection(Slots(t), R)
  <2> HIDE DEF f, R
  <2>1. f \in Injection(Slots(t), R)
    BY <1>8, <1>9 DEF Injection, IsInjective
  <2>2. f \in Surjection(Slots(t), R)
    BY <1>8, <1>10 DEF Surjection
  <2> QED BY <2>1, <2>2 DEF Bijection
<1>12. ExistsBijection(Slots(t), R)
  BY <1>11 DEF ExistsBijection
<1>13. IsFiniteSet(Slots(t)) /\ Cardinality(R) = Cardinality(Slots(t))
  <2> HIDE DEF R
  <2> QED BY <1>1, <1>12, QueueCounted, FS_Bijection
<1>14. /\ IsFiniteSet(Slots(q) \ Places(1, q[1]))
       /\ Cardinality(Slots(q) \ Places(1, q[1])) = Held(q) - Len(q[1])
  <2>1. q \in Batches(1..Len(q)) /\ IsFiniteSet(1..Len(q))
    BY QueueCounted
  <2> QED BY <1>1, <2>1, SlotsSplit
<1> QED BY <1>1, <1>13, <1>14 DEF Held, t

Covers == inFlight \in Int /\ InFlightCovers

LEMMA HeldTypes ==
  ASSUME Types
  PROVE  /\ Held(queue) \in Nat /\ Held(current) \in Nat /\ Len(work) \in Nat
         /\ IsFiniteSet(Dispatcher) /\ current \in Batches(Dispatcher)
         /\ queue \in Seq(Seq(Event)) /\ work \in Seq(Event)
<1>1. current \in Batches(Dispatcher) /\ queue \in Seq(Seq(Event)) /\ work \in Seq(Event)
  BY DEF Types, Batches
<1>2. IsFiniteSet(Dispatcher)
  BY StreamAssumption, FS_Interval DEF Dispatcher
<1> QED BY <1>1, <1>2, SlotsCounted, QueueCounted

(* Nothing is in flight, in any dispatcher.                                *)
LEMMA NothingHeld ==
  ASSUME queue = <<>>, current = [d \in Dispatcher |-> <<>>], work = <<>>
  PROVE  Held(queue) = 0 /\ Held(current) = 0 /\ Len(work) = 0
<1>1. Slots(queue) = {}
  BY ToSetEmpty DEF Slots
<1>2. Slots(current) = {}
  BY ToSetEmpty DEF Slots
<1> QED BY <1>1, <1>2, ToSetEmpty, FS_EmptySet DEF Held

LEMMA CoversInit == Init => Covers
<1> SUFFICES ASSUME Init PROVE Covers
  OBVIOUS
<1>1. Held(queue) = 0 /\ Held(current) = 0 /\ Len(work) = 0
  BY NothingHeld DEF Init
<1> QED BY <1>1 DEF Init, Covers, InFlightCovers

LEMMA CoversDispatch ==
  ASSUME Types, Covers, NEW d \in Dispatcher, Dispatch(d)
  PROVE  Covers'
<1>0. /\ Held(queue) \in Nat /\ Held(current) \in Nat /\ Len(work) \in Nat
      /\ IsFiniteSet(Dispatcher) /\ current \in Batches(Dispatcher)
      /\ queue \in Seq(Seq(Event)) /\ work \in Seq(Event)
  BY HeldTypes
<1>1. current[d] \in Seq(Event) /\ Len(current[d]) \in Nat /\ <<>> \in Seq(Event) /\ Len(<<>>) = 0
  BY ToSetEmpty DEF Types
<1>2. ASSUME NEW c \in Seq(Event), current' = [current EXCEPT ![d] = c]
      PROVE  Held(current') = Held(current) - Len(current[d]) + Len(c)
  BY <1>0, <1>2, HeldExcept
<1>3. CASE HandleEvent(d)
  <2>1. PICK e \in outbox : LET batch == Append(current[d], e)
                                full == Len(batch) = BatchSize IN
          /\ current' = [current EXCEPT ![d] = IF full THEN <<>> ELSE batch]
          /\ queue' = IF full THEN Append(queue, batch) ELSE queue
    BY <1>3 DEF HandleEvent
  <2>2. inFlight' = inFlight + 1 /\ work' = work
    BY <1>3 DEF HandleEvent
  <2> DEFINE batch == Append(current[d], e)
  <2>3. batch \in Seq(Event) /\ Len(batch) = Len(current[d]) + 1
    BY <1>1, ToSetAppend DEF Types
  <2>4. CASE Len(batch) = BatchSize
    <3>1. current' = [current EXCEPT ![d] = <<>>] /\ queue' = Append(queue, batch)
      BY <2>1, <2>4
    <3> HIDE DEF batch
    <3>2. Held(current') = Held(current) - Len(current[d]) + 0
      BY <1>1, <1>2, <3>1
    <3>3. Held(queue') = Held(queue) + Len(batch)
      BY <1>0, <2>3, <3>1, HeldAppend
    <3>4. Held(queue') + Held(current') = Held(queue) + Held(current) + 1
      BY <1>0, <1>1, <2>3, <3>2, <3>3
    <3>5. Held(queue') \in Int /\ Held(current') \in Int
      BY <1>0, <1>1, <2>3, <3>2, <3>3
    <3> QED BY <1>0, <2>2, <3>4, <3>5 DEF Covers, InFlightCovers
  <2>5. CASE Len(batch) # BatchSize
    <3>1. current' = [current EXCEPT ![d] = batch] /\ queue' = queue
      BY <2>1, <2>5
    <3> HIDE DEF batch
    <3>2. Held(current') = Held(current) - Len(current[d]) + Len(batch)
      BY <1>2, <2>3, <3>1
    <3> QED BY <1>0, <1>1, <2>2, <2>3, <3>1, <3>2 DEF Covers, InFlightCovers
  <2> QED BY <2>4, <2>5
<1>4. CASE BatchTimeout(d)
  <2>1. /\ current' = [current EXCEPT ![d] = <<>>] /\ queue' = Append(queue, current[d])
        /\ inFlight' = inFlight /\ work' = work
    BY <1>4 DEF BatchTimeout
  <2>2. Held(current') = Held(current) - Len(current[d]) + 0
    BY <1>1, <1>2, <2>1
  <2>3. Held(queue') = Held(queue) + Len(current[d])
    BY <1>0, <1>1, <2>1, HeldAppend
  <2> QED BY <1>0, <1>1, <2>1, <2>2, <2>3 DEF Covers, InFlightCovers
<1>5. CASE EndDispatcher(d)
  <2>1. /\ current' = [current EXCEPT ![d] = <<>>] /\ queue' = queue
        /\ inFlight' = inFlight /\ work' = work
    BY <1>5 DEF EndDispatcher
  <2>2. Held(current') = Held(current) - Len(current[d]) + 0
    BY <1>1, <1>2, <2>1
  <2> QED BY <1>0, <1>1, <2>1, <2>2 DEF Covers, InFlightCovers
<1> QED BY <1>3, <1>4, <1>5 DEF Dispatch

LEMMA CoversProcess == ASSUME Types, Covers, Process PROVE Covers'
<1> USE DEF dispatchVars
<1>0. /\ Held(queue) \in Nat /\ Held(current) \in Nat /\ Len(work) \in Nat
      /\ Len(<<>>) = 0
  BY HeldTypes, ToSetEmpty
<1>1. CASE TakeBatch
  <2>1. /\ work' = Head(queue) /\ queue' = Tail(queue) /\ queue # <<>>
        /\ current' = current /\ inFlight' = inFlight
    BY <1>1 DEF TakeBatch
  <2>2. Held(Tail(queue)) = Held(queue) - Len(Head(queue))
    BY <2>1, HeldTypes, HeldTail
  <2>3. Len(Head(queue)) \in Nat
    BY <2>1, HeldTypes, HeadTailProperties
  <2> QED BY <1>0, <2>1, <2>2, <2>3 DEF Covers, InFlightCovers
<1>2. ASSUME UNCHANGED <<queue, current, inFlight>>, work' = work \/ work' = <<>>
      PROVE  Covers'
  BY <1>0, <1>2 DEF Covers, InFlightCovers
<1>3. CASE EndProcessor \/ PerformAction \/ WebhookFails \/ Backoff
  BY <1>2, <1>3 DEF EndProcessor, PerformAction, WebhookFails, Backoff
<1>4. CASE WebhookAccepts
  BY <1>2, <1>4 DEF WebhookAccepts
<1>5. CASE ProcessBatch \/ ActionFailed \/ BlockedRetry
  BY <1>2, <1>5 DEF ProcessBatch, ActionFailed, BlockedRetry
<1>6. CASE BatchComplete
  <2>1. /\ work' = <<>> /\ queue' = queue /\ current' = current
        /\ inFlight' = inFlight - Len(work)
    BY <1>6 DEF BatchComplete
  <2> QED BY <1>0, <2>1 DEF Covers, InFlightCovers
<1> QED BY <1>1, <1>3, <1>4, <1>5, <1>6 DEF Process

LEMMA CoversStep == Types /\ Covers /\ [Next]_vars => Covers'
<1> USE DEF chainVars, pollVars, dispatchVars, controlVars, historyVars
<1> SUFFICES ASSUME Types, Covers, [Next]_vars PROVE Covers'
  OBVIOUS
<1>1. ASSUME UNCHANGED <<queue, current, inFlight, work>> PROVE Covers'
  BY <1>1 DEF Covers, InFlightCovers
<1>2. ASSUME Mine \/ Poll \/ \E s \in Sub : AddSubscription(s) PROVE Covers'
  BY <1>1, <1>2 DEF Mine, Poll, BeginPoll, StoreCheckpoint, EndPoll, ProcessNewEvents,
                    SubscriptionError, AddSubscription
<1>3. ASSUME Control \/ UNCHANGED vars PROVE Covers'
  BY <1>1, <1>3 DEF Control, SuspendStream, ResumeStream, BeginUpdate, EndUpdate,
                    RejectUpdate, vars
<1>4. ASSUME Crash PROVE Covers'
  <2>1. /\ queue' = <<>> /\ current' = [d \in Dispatcher |-> <<>>] /\ work' = <<>>
        /\ inFlight' = 0
    BY <1>4 DEF Crash
  <2>2. Slots(queue') = {} /\ Slots(current') = {}
    BY <2>1, ToSetEmpty DEF Slots
  <2>3. Held(queue') = 0 /\ Held(current') = 0 /\ Len(work') = 0
    BY <2>1, <2>2, ToSetEmpty, FS_EmptySet DEF Held
  <2> QED BY <2>1, <2>3 DEF Covers, InFlightCovers
<1> QED BY <1>2, <1>3, <1>4, CoversDispatch, CoversProcess DEF Next

(* Every event in a batch that is formed, queued or processed is counted   *)
(* in flight, whatever is suspended, updated or restarted meanwhile: the   *)
(* counter is never below what it stands for.                              *)
THEOREM CountedInFlight == Spec => []InFlightCovers
<1>1. Covers => InFlightCovers
  BY DEF Covers
<1> QED BY <1>1, TypesInit, TypesStep, CoversInit, CoversStep, PTL DEF Spec

(* The types; the unsigned counter inFlight is not taken below zero.       *)
THEOREM StreamTypes == Spec => []TypeOK
<1>1. Types /\ Covers => TypeOK
  <2> SUFFICES ASSUME Types, Covers PROVE TypeOK
    OBVIOUS
  <2>1. inFlight \in Nat
    BY HeldTypes DEF Covers, InFlightCovers
  <2> QED BY <2>1 DEF Types, TypeOK
<1> QED BY <1>1, TypesInit, TypesStep, CoversInit, CoversStep, PTL DEF Spec

-----------------------------------------------------------------------------
(* No event is delivered twice                                             *)

Quiet == used["crash"] = 0 /\ used["failure"] = 0

(* What is still to be delivered of the batch in work                      *)
Pending == IF processor = "processed" THEN {} ELSE ToSet(work)

(* An event is in one place at most.                                       *)
WorkApart == Pending \cap delivered = {}
QueueApart ==
  \A k \in 1..Len(queue) :
    /\ ToSet(queue[k]) \cap (delivered \cup Pending) = {}
    /\ \A l \in 1..Len(queue) : k # l => ToSet(queue[k]) \cap ToSet(queue[l]) = {}
CurrentApart ==
  \A d \in Dispatcher :
    /\ ToSet(current[d]) \cap (delivered \cup Pending) = {}
    /\ \A k \in 1..Len(queue) : ToSet(current[d]) \cap ToSet(queue[k]) = {}
    /\ \A c \in Dispatcher : c # d => ToSet(current[d]) \cap ToSet(current[c]) = {}
OutboxApart ==
  /\ outbox \cap (delivered \cup Pending) = {}
  /\ \A k \in 1..Len(queue) : outbox \cap ToSet(queue[k]) = {}
  /\ \A d \in Dispatcher : outbox \cap ToSet(current[d]) = {}

(* What was read is behind the filter, so that it is not read again.       *)
Read(e) == filter[Log[e].sub] # 0 /\ Log[e].block < filter[Log[e].sub]
ReadOnce ==
  /\ \A s \in Sub : filter[s] <= head + 1
  /\ \A e \in delivered \cup Pending \cup outbox : Read(e)
  /\ \A k \in 1..Len(queue) : \A e \in ToSet(queue[k]) : Read(e)
  /\ \A d \in Dispatcher : \A e \in ToSet(current[d]) : Read(e)

OnceInv ==
  Quiet => WorkApart /\ QueueApart /\ CurrentApart /\ OutboxApart /\ ReadOnce

-----------------------------------------------------------------------------
(* The checkpoint is behind what was delivered                             *)

(* A subscription from the first block on, with one event in a block.      *)
Plain == {s \in Sub : /\ s \notin FromLatest
                      /\ \A e, f \in Event : /\ Log[e].sub = s /\ Log[f].sub = s
                                             /\ Log[e].block = Log[f].block
                                             => e = f}

(* The stream is neither suspended nor updated.                            *)
Undisturbed == MaxSuspends = 0 /\ MaxUpdates = 0

Done == delivered \cup skipped
Within(q, k) == UNION {ToSet(q[j]) : j \in 1..k}

(* e has to be delivered before f.                                         *)
Before(e, f) == Log[e].sub = Log[f].sub /\ Log[f].sub \in Plain /\ e < f

(* Nothing stops the stream, and a batch is given up only when done.       *)
Running ==
  /\ ~ suspended /\ ~ interrupted /\ update = "none"
  /\ poller # "done" /\ dispatcher[1] = "current"
  /\ processor \notin {"suspended", "interrupted", "stuck"}
  /\ processor = "idle" => work = <<>>
  /\ processor = "processed" => ToSet(work) \subseteq Done

InWork == Done \cup ToSet(work)
InQueue(k) == InWork \cup Within(queue, k)
InCurrent == InQueue(Len(queue)) \cup ToSet(current[1])
InOutbox == InCurrent \cup outbox

(* What is before an event is no further from its delivery.                *)
WorkInOrder == \A f \in ToSet(work), e \in Event : Before(e, f) => e \in InWork
QueueInOrder ==
  \A k \in 1..Len(queue) : \A f \in ToSet(queue[k]), e \in Event :
    Before(e, f) => e \in InQueue(k)
CurrentInOrder ==
  \A f \in ToSet(current[1]), e \in Event : Before(e, f) => e \in InCurrent
OutboxInOrder == \A f \in outbox, e \in Event : Before(e, f) => e \in InOutbox

(* The three marks of a subscription, and what is behind each of them.     *)
BehindFilter ==
  \A e \in Event : /\ Log[e].sub \in Plain /\ Log[e].block < filter[Log[e].sub]
                   => e \in InOutbox
BehindMark ==
  \A e \in Event : /\ Log[e].sub \in Plain /\ Log[e].block < hwm[Log[e].sub]
                   => e \in Done
BehindCheckpoint ==
  \A e \in Event : /\ Log[e].sub \in Plain /\ Log[e].block < stored[Log[e].sub]
                   => e \in Done

OrderInv ==
  /\ Running
  /\ WorkInOrder /\ QueueInOrder /\ CurrentInOrder /\ OutboxInOrder
  /\ BehindFilter /\ BehindMark /\ BehindCheckpoint

LEMMA WithinAppend ==
  ASSUME NEW q \in Seq(Seq(Event)), NEW c \in Seq(Event)
  PROVE  /\ \A k \in 1..Len(q) : Append(q, c)[k] = q[k]
         /\ \A k \in 0..Len(q) : Within(Append(q, c), k) = Within(q, k)
         /\ Len(Append(q, c)) = Len(q) + 1 /\ Append(q, c)[Len(q) + 1] = c
         /\ Within(Append(q, c), Len(q) + 1) = Within(q, Len(q)) \cup ToSet(c)
         /\ 1..(Len(q) + 1) = 1..Len(q) \cup {Len(q) + 1}
<1> DEFINE a == Append(q, c)
           n == Len(q) + 1
<1>1. Len(q) \in Nat /\ Len(a) = n /\ a[n] = c /\ \A k \in 1..Len(q) : a[k] = q[k]
  OBVIOUS
<1>2. 1..n = 1..Len(q) \cup {n}
  BY <1>1
<1> HIDE DEF a, n
<1>3. \A k \in 0..Len(q) : Within(a, k) = Within(q, k)
  <2>1. \A k \in 0..Len(q) : \A j \in 1..k : a[j] = q[j]
    <3>1. \A k \in 0..Len(q) : \A j \in 1..k : j \in 1..Len(q)
      BY <1>1
    <3> QED BY <1>1, <3>1
  <2> QED BY <2>1 DEF Within
<1>4. Within(a, n) = Within(q, Len(q)) \cup ToSet(c)
  BY <1>1, <1>2 DEF Within
<1> QED BY <1>1, <1>2, <1>3, <1>4 DEF a, n

LEMMA WithinTail ==
  ASSUME NEW q \in Seq(Seq(Event)), q # <<>>
  PROVE  /\ Len(Tail(q)) = Len(q) - 1 /\ Len(q) \in Nat \ {0}
         /\ Tail(q) \in Seq(Seq(Event))
         /\ Head(q) \in Seq(Event) /\ Head(q) = q[1]
         /\ \A k \in 1..Len(Tail(q)) : k + 1 \in 1..Len(q) /\ Tail(q)[k] = q[k + 1]
         /\ \A k \in 0..Len(Tail(q)) :
              Within(q, k + 1) = ToSet(Head(q)) \cup Within(Tail(q), k)
<1> DEFINE t == Tail(q)
<1>1. /\ t \in Seq(Seq(Event)) /\ Len(q) \in Nat \ {0} /\ Len(t) = Len(q) - 1
      /\ Head(q) = q[1] /\ Head(q) \in Seq(Event)
      /\ \A k \in 1..Len(t) : k + 1 \in 1..Len(q) /\ t[k] = q[k + 1]
  BY EmptySeq, HeadTailProperties
<1> HIDE DEF t
<1>2. ASSUME NEW k \in 0..Len(t)
      PROVE  Within(q, k + 1) = ToSet(Head(q)) \cup Within(t, k)
  <2>1. \A j \in 1..k : t[j] = q[j + 1] /\ j + 1 \in 1..(k + 1)
    <3>1. Len(t) \in Nat
      BY <1>1
    <3>2. \A j \in 1..k : j \in 1..Len(t) /\ j + 1 \in 1..(k + 1)
      BY <3>1
    <3> QED BY <1>1, <3>2
  <2>2. \A j \in 1..(k + 1) : j = 1 \/ (j - 1 \in 1..k /\ (j - 1) + 1 = j)
    BY <1>1
  <2>3. 1 \in 1..(k + 1)
    BY <1>1
  <2>4. \A e : e \in Within(q, k + 1) <=> \E j \in 1..(k + 1) : e \in ToSet(q[j])
    BY DEF Within
  <2>5. \A e : e \in Within(t, k) <=> \E j \in 1..k : e \in ToSet(t[j])
    BY DEF Within
  <2>6. ASSUME NEW e, e \in Within(q, k + 1) PROVE e \in ToSet(Head(q)) \cup Within(t, k)
    <3>1. PICK j \in 1..(k + 1) : e \in ToSet(q[j])
      BY <2>4, <2>6
    <3>2. CASE j = 1
      BY <1>1, <3>1, <3>2
    <3>3. CASE j - 1 \in 1..k /\ (j - 1) + 1 = j
      BY <2>1, <2>5, <3>1, <3>3
    <3> QED BY <2>2, <3>2, <3>3
  <2>7. ASSUME NEW e, e \in Within(t, k) PROVE e \in Within(q, k + 1)
    BY <2>1, <2>4, <2>5, <2>7
  <2>8. ToSet(Head(q)) \subseteq Within(q, k + 1)
    BY <1>1, <2>3, <2>4
  <2> QED BY <2>6, <2>7, <2>8
<1> QED BY <1>1, <1>2 DEF t

LEMMA WithinNothing == \A q : Within(q, 0) = {}
BY DEF Within

-----------------------------------------------------------------------------
LEMMA NoControl ==
  ASSUME Types, Undisturbed
  PROVE  /\ ~ SuspendStream /\ ~ BeginUpdate
         /\ Dispatcher = {1}
<1>1. used["suspend"] \in Nat /\ used["update"] \in Nat
  BY DEF Types, Kinds
<1>2. Limit["suspend"] = 0 /\ Limit["update"] = 0
  BY DEF Undisturbed, Limit
<1>3. ~ Use("suspend") /\ ~ Use("update")
  BY <1>1, <1>2 DEF Use
<1>4. Dispatcher = 1..1 /\ 1..1 = {1}
  BY DEF Undisturbed, Dispatcher
<1> QED BY <1>3, <1>4 DEF SuspendStream, BeginUpdate

LEMMA RunningStep ==
  ASSUME Types, Undisturbed, Running, [Next]_vars
  PROVE  Running'
<1> USE DEF chainVars, pollVars, dispatchVars, controlVars, historyVars
<1>0. /\ ~ SuspendStream /\ ~ BeginUpdate /\ Dispatcher = {1}
      /\ ~ ResumeStream /\ ~ EndUpdate /\ ~ RejectUpdate /\ ~ EndProcessor
  BY NoControl DEF Running, ResumeStream, EndUpdate, RejectUpdate, EndProcessor
<1>1. ASSUME UNCHANGED <<suspended, interrupted, update, dispatcher, processor, work,
                         delivered, skipped>>,
             poller' # "done"
      PROVE  Running'
  BY <1>1 DEF Running, Done
<1>2. CASE Mine \/ Poll \/ \E s \in Sub : AddSubscription(s)
  BY <1>1, <1>2 DEF Mine, Poll, BeginPoll, StoreCheckpoint, EndPoll, ProcessNewEvents,
                    SubscriptionError, AddSubscription, Running
<1>3. CASE UNCHANGED vars
  BY <1>1, <1>3 DEF vars, Running
<1>4. ASSUME NEW d \in Dispatcher, Dispatch(d) PROVE Running'
  <2>1. d = 1 /\ ~ EndDispatcher(d)
    BY <1>0 DEF Running, EndDispatcher
  <2>2. Rewait(d) => dispatcher'[1] = "current"
    BY <2>1 DEF Rewait, Running, Types
  <2>3. dispatcher'[1] = "current"
    BY <1>4, <2>1, <2>2 DEF Dispatch, HandleEvent, BatchTimeout
  <2>4. UNCHANGED <<suspended, interrupted, update, poller, processor, work, delivered,
                    skipped>>
    BY <1>4, <2>1 DEF Dispatch, HandleEvent, BatchTimeout
  <2> QED BY <2>3, <2>4 DEF Running, Done
<1>5. CASE TakeBatch \/ ProcessBatch \/ PerformAction \/ WebhookFails \/ Backoff
  BY <1>5 DEF TakeBatch, ProcessBatch, PerformAction, WebhookFails, Backoff, Running, Done
<1>6. CASE WebhookAccepts \/ ActionFailed
  BY <1>6 DEF WebhookAccepts, ActionFailed, Running, Done
<1>7. CASE BlockedRetry \/ BatchComplete
  BY <1>7 DEF BlockedRetry, BatchComplete, Running, Done
<1>8. CASE Crash
  BY <1>0, <1>8 DEF Crash, Running, Done
<1> QED BY <1>0, <1>2, <1>3, <1>4, <1>5, <1>6, <1>7, <1>8 DEF Next, Process, Control

InOrder == WorkInOrder /\ QueueInOrder /\ CurrentInOrder /\ OutboxInOrder

(* Batches stay where they are, or the one in work has been done with.     *)
LEMMA Onward ==
  ASSUME InOrder, InWork \subseteq InWork', ToSet(work') \subseteq ToSet(work),
         UNCHANGED <<queue, current, outbox>>
  PROVE  InOrder' /\ InOutbox \subseteq InOutbox'
<1>1. \A k : InQueue(k) \subseteq InQueue(k)'
  BY DEF InQueue
<1>2. InCurrent \subseteq InCurrent' /\ InOutbox \subseteq InOutbox'
  BY <1>1 DEF InCurrent, InOutbox
<1>3. WorkInOrder'
  BY DEF InOrder, WorkInOrder
<1>4. QueueInOrder'
  BY <1>1 DEF InOrder, QueueInOrder
<1>5. CurrentInOrder' /\ OutboxInOrder'
  BY <1>2 DEF InOrder, CurrentInOrder, OutboxInOrder
<1> QED BY <1>2, <1>3, <1>4, <1>5 DEF InOrder

(* What nothing takes back stays behind the marks.                         *)
LEMMA MarksStay ==
  ASSUME Done \subseteq Done', InOutbox \subseteq InOutbox'
  PROVE  /\ BehindFilter /\ UNCHANGED filter => BehindFilter'
         /\ BehindMark /\ UNCHANGED hwm => BehindMark'
         /\ BehindCheckpoint /\ UNCHANGED stored => BehindCheckpoint'
BY DEF BehindFilter, BehindMark, BehindCheckpoint

LEMMA QueuedInOrder ==
  ASSUME Types, InOrder, NEW n, n = Len(queue), NEW c \in Seq(Event), queue' = Append(queue, c), work' = work,
         delivered' = delivered, skipped' = skipped,
         \A f \in ToSet(c), e \in Event :
           Before(e, f) => e \in InQueue(n) \cup ToSet(c)
  PROVE  /\ WorkInOrder' /\ QueueInOrder'
         /\ Len(queue') = n + 1
         /\ InQueue(n + 1)' = InQueue(n) \cup ToSet(c)
<1>0. queue \in Seq(Seq(Event)) /\ n \in Nat /\ Done' = Done
  BY DEF Types, Done
<1>1. /\ \A k \in 1..n : queue'[k] = queue[k]
      /\ \A k \in 0..n : Within(queue', k) = Within(queue, k)
      /\ Len(queue') = n + 1 /\ queue'[n + 1] = c
      /\ Within(queue', n + 1) = Within(queue, n) \cup ToSet(c)
      /\ 1..(n + 1) = 1..n \cup {n + 1}
  BY <1>0, WithinAppend
<1>2. InWork' = InWork
  BY <1>0 DEF InWork
<1>3. \A k \in 0..n : InQueue(k)' = InQueue(k)
  BY <1>1, <1>2 DEF InQueue
<1>4. InQueue(n + 1)' = InQueue(n) \cup ToSet(c)
  BY <1>1, <1>2 DEF InQueue
<1>5. WorkInOrder'
  BY <1>2 DEF InOrder, WorkInOrder
<1>6. QueueInOrder'
  <2>1. ASSUME NEW k \in 1..n, NEW f \in ToSet(queue'[k]), NEW e \in Event, Before(e, f)
        PROVE  e \in InQueue(k)'
    <3>1. k \in 0..n /\ f \in ToSet(queue[k])
      BY <1>0, <1>1, <2>1
    <3>2. e \in InQueue(k)
      BY <2>1, <3>1 DEF InOrder, QueueInOrder
    <3> QED BY <1>3, <3>1, <3>2
  <2>2. ASSUME NEW f \in ToSet(queue'[n + 1]), NEW e \in Event, Before(e, f)
        PROVE  e \in InQueue(n + 1)'
    BY <1>1, <1>4, <2>2
  <2> QED BY <1>1, <2>1, <2>2 DEF QueueInOrder
<1> QED BY <1>1, <1>4, <1>5, <1>6


LEMMA EventOrder ==
  ASSUME NEW e \in Event, NEW f \in Event
  PROVE  /\ e \in Nat /\ f \in Nat
         /\ Before(e, f) => Log[e].block < Log[f].block
         /\ Log[e].sub = Log[f].sub /\ Log[f].sub \in Plain /\ Log[e].block <= Log[f].block
              => e = f \/ Before(e, f)
<1>1. e \in Nat /\ f \in Nat /\ (e < f \/ e = f \/ f < e)
  BY EventType
<1>2. Log[e].block \in Nat /\ Log[f].block \in Nat
  BY EventFields
<1>3. (e < f => Log[e].block <= Log[f].block) /\ (f < e => Log[f].block <= Log[e].block)
  BY StreamAssumption
<1>4. /\ Log[e].sub = Log[f].sub /\ Log[f].sub \in Plain /\ Log[e].block = Log[f].block
      => e = f
  BY DEF Plain
<1> QED BY <1>1, <1>2, <1>3, <1>4 DEF Before

LEMMA OrderDispatch ==
  ASSUME Types, Undisturbed, OrderInv, NEW d \in Dispatcher, Dispatch(d)
  PROVE  InOrder' /\ BehindFilter' /\ BehindMark' /\ BehindCheckpoint'
<1> USE DEF chainVars, pollVars
<1>0. /\ d = 1 /\ ~ EndDispatcher(1) /\ InOrder
      /\ UNCHANGED <<work, delivered, skipped, filter, hwm, stored>>
      /\ current \in [{1} -> Seq(Event)]
  BY NoControl DEF OrderInv, InOrder, Running, Dispatch, HandleEvent, BatchTimeout,
                   EndDispatcher, Types, historyVars
<1> PICK n \in Nat : n = Len(queue)
  BY DEF Types
<1>1. InCurrent = InQueue(n) \cup ToSet(current[1]) /\ current[1] \in Seq(Event)
  BY <1>0 DEF InCurrent
<1>2. UNCHANGED Done
  BY <1>0 DEF Done
<1>3. InOutbox \subseteq InOutbox' => BehindFilter' /\ BehindMark' /\ BehindCheckpoint'
  BY <1>0, <1>2, MarksStay DEF OrderInv
<1>4. ASSUME NEW c \in Seq(Event), queue' = Append(queue, c), InCurrent \subseteq InQueue(n) \cup ToSet(c),
             \A f \in ToSet(c), e \in Event :
               Before(e, f) => e \in InQueue(n) \cup ToSet(c),
             current' = [current EXCEPT ![1] = <<>>], outbox' \subseteq outbox,
             outbox \subseteq outbox' \cup ToSet(c)
      PROVE  InOrder' /\ InOutbox \subseteq InOutbox'
  <2>1. /\ WorkInOrder' /\ QueueInOrder' /\ Len(queue') = n + 1
        /\ InQueue(n + 1)' = InQueue(n) \cup ToSet(c)
    BY <1>0, <1>4, QueuedInOrder
  <2>2. current'[1] = <<>> /\ ToSet(current'[1]) = {}
    BY <1>0, <1>4, ToSetEmpty
  <2>3. InCurrent' = InQueue(n + 1)'
    BY <2>1, <2>2 DEF InCurrent
  <2>4. CurrentInOrder'
    BY <2>2 DEF CurrentInOrder
  <2>5. InOutbox \subseteq InOutbox'
    BY <1>1, <1>4, <2>1, <2>3 DEF InOutbox
  <2>6. OutboxInOrder'
    BY <1>0, <1>4, <2>5 DEF InOrder, OutboxInOrder
  <2> QED BY <2>1, <2>4, <2>5, <2>6 DEF InOrder
<1>5. CASE HandleEvent(1)
  <2>1. PICK e \in outbox : LET batch == Append(current[1], e)
                                full == Len(batch) = BatchSize IN
          /\ \A f \in outbox : e <= f
          /\ outbox' = outbox \ {e}
          /\ current' = [current EXCEPT ![1] = IF full THEN <<>> ELSE batch]
          /\ queue' = IF full THEN Append(queue, batch) ELSE queue
    BY <1>5 DEF HandleEvent
  <2> DEFINE batch == Append(current[1], e)
  <2>2. batch \in Seq(Event) /\ ToSet(batch) = ToSet(current[1]) \cup {e} /\ e \in Event
    BY <1>1, ToSetAppend DEF Types
  <2>3. ASSUME NEW f \in ToSet(batch), NEW g \in Event, Before(g, f)
        PROVE  g \in InQueue(n) \cup ToSet(batch)
    <3>1. CASE f \in ToSet(current[1])
      BY <1>0, <1>1, <2>2, <2>3, <3>1 DEF InOrder, CurrentInOrder
    <3>2. CASE f = e
      <4>1. g \in InOutbox
        BY <1>0, <2>3, <3>2 DEF InOrder, OutboxInOrder
      <4>2. g \notin outbox
        BY <2>1, <2>2, <2>3, <3>2, EventOrder DEF Before
      <4> QED BY <1>1, <2>2, <4>1, <4>2 DEF InOutbox
    <3> QED BY <2>2, <3>1, <3>2
  <2>4. CASE Len(batch) = BatchSize
    <3>1. current' = [current EXCEPT ![1] = <<>>] /\ queue' = Append(queue, batch)
      BY <2>1, <2>4
    <3>2. InCurrent \subseteq InQueue(n) \cup ToSet(batch)
      BY <1>1, <2>2
    <3>3. outbox' \subseteq outbox /\ outbox \subseteq outbox' \cup ToSet(batch)
      BY <2>1, <2>2
    <3> HIDE DEF batch
    <3>4. InOrder' /\ InOutbox \subseteq InOutbox'
      BY <1>4, <2>2, <2>3, <3>1, <3>2, <3>3
    <3> QED BY <1>3, <3>4
  <2>5. CASE Len(batch) # BatchSize
    <3>1. current' = [current EXCEPT ![1] = batch] /\ queue' = queue
      BY <2>1, <2>5
    <3>2. current'[1] = batch
      BY <1>0, <3>1
    <3> HIDE DEF batch
    <3>3. InWork' = InWork /\ \A k : InQueue(k)' = InQueue(k)
      BY <1>0, <1>2, <3>1 DEF InWork, InQueue
    <3>4. InCurrent' = InQueue(n) \cup ToSet(batch)
      BY <3>1, <3>2, <3>3 DEF InCurrent
    <3>5. InOutbox' = InOutbox
      BY <1>1, <2>1, <2>2, <3>4 DEF InOutbox
    <3>6. WorkInOrder' /\ QueueInOrder'
      BY <1>0, <3>1, <3>3 DEF InOrder, WorkInOrder, QueueInOrder
    <3>7. CurrentInOrder'
      BY <2>3, <3>2, <3>4 DEF CurrentInOrder
    <3>8. OutboxInOrder'
      BY <1>0, <2>1, <3>5 DEF InOrder, OutboxInOrder
    <3> QED BY <1>3, <3>5, <3>6, <3>7, <3>8 DEF InOrder
  <2> QED BY <2>4, <2>5
<1>6. CASE BatchTimeout(1)
  <2>1. /\ queue' = Append(queue, current[1]) /\ outbox' = outbox
        /\ current' = [current EXCEPT ![1] = <<>>]
    BY <1>6 DEF BatchTimeout
  <2>2. \A f \in ToSet(current[1]), e \in Event :
          Before(e, f) => e \in InQueue(n) \cup ToSet(current[1])
    BY <1>0, <1>1 DEF InOrder, CurrentInOrder
  <2>3. InOrder' /\ InOutbox \subseteq InOutbox'
    BY <1>1, <1>4, <2>1, <2>2
  <2> QED BY <1>3, <2>3
<1> QED BY <1>0, <1>5, <1>6 DEF Dispatch

LEMMA OrderProcess ==
  ASSUME Types, Undisturbed, OrderInv, Process
  PROVE  InOrder' /\ BehindFilter' /\ BehindMark' /\ BehindCheckpoint'
<1> USE DEF chainVars, pollVars, dispatchVars, historyVars
<1>0. /\ UNCHANGED <<current, outbox, filter, stored>> /\ ~ EndProcessor /\ InOrder
      /\ ~ suspended /\ ~ interrupted
  BY DEF Process, TakeBatch, ProcessBatch, EndProcessor, PerformAction, WebhookAccepts,
         WebhookFails, Backoff, ActionFailed, BlockedRetry, BatchComplete, OrderInv,
         Running, InOrder
<1>1. ASSUME UNCHANGED <<queue, hwm>>, InWork \subseteq InWork', Done \subseteq Done',
             ToSet(work') \subseteq ToSet(work)
      PROVE  InOrder' /\ BehindFilter' /\ BehindMark' /\ BehindCheckpoint'
  BY <1>0, <1>1, Onward, MarksStay DEF OrderInv
<1>2. ASSUME UNCHANGED <<queue, hwm, work, delivered, skipped>>
      PROVE  InOrder' /\ BehindFilter' /\ BehindMark' /\ BehindCheckpoint'
  BY <1>1, <1>2 DEF InWork, Done
<1>3. CASE ProcessBatch \/ PerformAction \/ WebhookFails \/ Backoff
  BY <1>0, <1>2, <1>3 DEF ProcessBatch, PerformAction, WebhookFails, Backoff
<1>4. CASE BlockedRetry
  BY <1>0, <1>2, <1>4 DEF BlockedRetry
<1>5. CASE WebhookAccepts
  <2>1. UNCHANGED <<queue, hwm, work, skipped>> /\ delivered' = delivered \cup ToSet(work)
    BY <1>5 DEF WebhookAccepts
  <2> QED BY <1>1, <2>1 DEF InWork, Done
<1>6. CASE ActionFailed
  <2>1. /\ UNCHANGED <<queue, hwm, work, delivered>>
        /\ skipped' = skipped \cup ToSet(work) \/ skipped' = skipped
    BY <1>0, <1>6 DEF ActionFailed
  <2> QED BY <1>1, <2>1 DEF InWork, Done
<1>7. CASE BatchComplete
  <2>1. /\ UNCHANGED <<queue, delivered, skipped>> /\ work' = <<>>
        /\ hwm' = [s \in Sub |-> Acked(s)] /\ ToSet(work) \subseteq Done
    BY <1>0, <1>7 DEF BatchComplete, OrderInv, Running
  <2>2. Done' = Done /\ InWork' = Done /\ InWork = Done /\ ToSet(work') = {}
    BY <2>1, ToSetEmpty DEF Done, InWork
  <2>3. InOrder' /\ BehindFilter' /\ BehindCheckpoint'
    BY <1>0, <2>1, <2>2, Onward, MarksStay DEF OrderInv
  <2>4. ASSUME NEW e \in Event, Log[e].sub \in Plain, Log[e].block < hwm'[Log[e].sub]
        PROVE  e \in Done
    <3>1. Log[e].sub \in Sub /\ Log[e].block \in Nat
      BY EventFields
    <3>2. hwm'[Log[e].sub] = Acked(Log[e].sub)
      BY <2>1, <3>1
    <3>3. CASE Acked(Log[e].sub) = hwm[Log[e].sub]
      BY <2>4, <3>2, <3>3 DEF OrderInv, BehindMark
    <3>4. ASSUME NEW last \in 1..Len(work), LastIn(Log[e].sub, last),
                 Acked(Log[e].sub) = Log[work[last]].block + 1
          PROVE  e \in Done
      <4>1. work[last] \in Event /\ work[last] \in ToSet(work)
        BY ToSetType DEF Types
      <4>2. Log[work[last]].sub = Log[e].sub
        BY <3>4 DEF LastIn
      <4>3. Log[work[last]].block \in Nat
        BY <4>1, EventFields
      <4>4. Log[e].block <= Log[work[last]].block
        BY <2>4, <3>1, <3>2, <3>4, <4>3
      <4>5. e = work[last] \/ Before(e, work[last])
        BY <2>4, <4>1, <4>2, <4>4, EventOrder
      <4>6. e \in InWork
        BY <4>1, <4>5 DEF OrderInv, WorkInOrder, InWork
      <4> QED BY <2>2, <4>6
    <3> QED BY <3>1, <3>3, <3>4, AckedIs
  <2>5. BehindMark'
    BY <2>2, <2>4 DEF BehindMark
  <2> QED BY <2>3, <2>5
<1>8. CASE TakeBatch
  <2>1. /\ UNCHANGED <<hwm, delivered, skipped>> /\ work = <<>> /\ ToSet(work) = {}
        /\ queue # <<>> /\ work' = Head(queue) /\ queue' = Tail(queue)
    BY <1>8, ToSetEmpty DEF TakeBatch, OrderInv, Running
  <2> PICK n \in Nat \ {0} : n = Len(queue)
    BY <2>1, WithinTail DEF Types
  <2>2. /\ Len(queue') = n - 1 /\ ToSet(work') = ToSet(queue[1])
        /\ \A k \in 1..(n - 1) : k + 1 \in 1..n /\ queue'[k] = queue[k + 1]
        /\ \A k \in 0..(n - 1) : Within(queue, k + 1) = ToSet(work') \cup Within(queue', k)
    BY <2>1, WithinTail DEF Types
  <2>3. Done' = Done /\ InWork = Done /\ InWork' = Done \cup ToSet(work')
    BY <2>1 DEF Done, InWork
  <2>4. \A k \in 0..(n - 1) : InQueue(k)' = InQueue(k + 1)
    BY <2>2, <2>3 DEF InQueue
  <2>5. InCurrent' = InCurrent /\ InOutbox' = InOutbox
    <3>1. n - 1 \in 0..(n - 1) /\ (n - 1) + 1 = n
      OBVIOUS
    <3>2. PICK m : m = n - 1
      OBVIOUS
    <3>3. InQueue(m)' = InQueue(n)
      BY <2>4, <3>1, <3>2
    <3>4. InCurrent' = InCurrent
      BY <1>0, <2>2, <3>2, <3>3 DEF InCurrent
    <3> QED BY <1>0, <3>4 DEF InOutbox
  <2>6. WorkInOrder'
    <3>1. 1 \in 1..n /\ Within(queue, 1) = ToSet(queue[1])
      BY DEF Within
    <3>2. InQueue(1) = InWork'
      BY <2>2, <2>3, <3>1 DEF InQueue
    <3> QED BY <2>2, <3>1, <3>2 DEF OrderInv, QueueInOrder, WorkInOrder
  <2>7. QueueInOrder'
    <3>1. ASSUME NEW k \in 1..(n - 1), NEW f \in ToSet(queue'[k]), NEW e \in Event, Before(e, f)
          PROVE  e \in InQueue(k)'
      <4>1. k \in 0..(n - 1) /\ k + 1 \in 1..n /\ f \in ToSet(queue[k + 1])
        BY <2>2
      <4>2. e \in InQueue(k + 1)
        BY <3>1, <4>1 DEF OrderInv, QueueInOrder
      <4> QED BY <2>4, <4>1, <4>2
    <3> QED BY <2>2, <3>1 DEF QueueInOrder
  <2>8. CurrentInOrder' /\ OutboxInOrder'
    BY <1>0, <2>5 DEF OrderInv, CurrentInOrder, OutboxInOrder
  <2>9. BehindFilter' /\ BehindMark' /\ BehindCheckpoint'
    BY <1>0, <2>1, <2>3, <2>5, MarksStay DEF OrderInv
  <2> QED BY <2>6, <2>7, <2>8, <2>9 DEF InOrder
<1> QED BY <1>0, <1>3, <1>4, <1>5, <1>6, <1>7, <1>8 DEF Process

(* From where the filter is read, nothing is left behind.                  *)
LEMMA StartIsBehind ==
  ASSUME Types, OrderInv, outbox = {}, NEW e \in Event, Log[e].sub \in Plain,
         Log[e].block < FilterStart(Log[e].sub)
  PROVE  e \in InCurrent
<1> DEFINE s == Log[e].sub
<1>1. s \in Sub /\ s \notin FromLatest /\ Log[e].block \in Nat /\ Log[e].block > 0
  BY EventFields DEF Plain
<1>2. filter[s] \in Nat /\ stored[s] \in Nat
  BY <1>1 DEF Types
<1>3. InOutbox = InCurrent /\ Done \subseteq InCurrent
  BY DEF InOutbox, InCurrent, InQueue, InWork
<1>4. CASE filter[s] # 0
  BY <1>3, <1>4 DEF FilterStart, OrderInv, BehindFilter
<1>5. CASE filter[s] = 0 /\ stored[s] > 0
  BY <1>3, <1>5 DEF FilterStart, OrderInv, BehindCheckpoint
<1>6. CASE filter[s] = 0 /\ stored[s] = 0
  <2>1. FilterStart(s) = 1
    BY <1>1, <1>6 DEF FilterStart
  <2> QED BY <1>1, <2>1
<1> QED BY <1>2, <1>4, <1>5, <1>6

LEMMA MarkIsBehind ==
  ASSUME Types, OrderInv, outbox = {}, NEW s \in Sub, SetBlockHeight(s), Done' = Done
  PROVE  BehindMark'
<1>1. CASE hwm' = hwm
  BY <1>1 DEF OrderInv, BehindMark
<1>2. CASE /\ filter[s] = 0 /\ (stored[s] > 0 \/ s \in FromLatest)
           /\ hwm' = [hwm EXCEPT ![s] = FilterStart(s)]
  <2>1. SUFFICES ASSUME NEW e \in Event, Log[e].sub \in Plain, Log[e].block < hwm'[Log[e].sub]
                 PROVE  e \in Done
    BY DEF BehindMark
  <2>2. Log[e].sub \in Sub
    BY EventFields
  <2>3. CASE Log[e].sub # s
    <3>1. hwm'[Log[e].sub] = hwm[Log[e].sub]
      BY <1>2, <2>2, <2>3 DEF Types
    <3> QED BY <2>1, <3>1 DEF OrderInv, BehindMark
  <2>4. CASE Log[e].sub = s
    <3>1. s \notin FromLatest
      BY <2>1, <2>4 DEF Plain
    <3>2. hwm'[s] = stored[s]
      BY <1>2, <3>1 DEF Types, FilterStart
    <3> QED BY <2>1, <2>4, <3>2 DEF OrderInv, BehindCheckpoint
  <2> QED BY <2>3, <2>4
<1> QED BY <1>1, <1>2 DEF SetBlockHeight

LEMMA OrderPoll ==
  ASSUME Types, Undisturbed, OrderInv, Poll \/ Mine \/ \E s \in Sub : AddSubscription(s)
  PROVE  InOrder' /\ BehindFilter' /\ BehindMark' /\ BehindCheckpoint'
<1> USE DEF chainVars, pollVars, dispatchVars, historyVars
<1>0. UNCHANGED <<queue, work, current, delivered, skipped>> /\ InOrder
  BY DEF Mine, Poll, BeginPoll, StoreCheckpoint, EndPoll, ProcessNewEvents,
         SubscriptionError, AddSubscription, OrderInv, InOrder
<1>1. Done' = Done /\ InWork' = InWork /\ InCurrent' = InCurrent
  <2>1. Done' = Done /\ InWork' = InWork
    BY <1>0 DEF Done, InWork
  <2>2. \A k : InQueue(k)' = InQueue(k)
    BY <1>0, <2>1 DEF InQueue
  <2> QED BY <1>0, <2>1, <2>2 DEF InCurrent
<1>2. ASSUME UNCHANGED outbox
      PROVE  InOrder' /\ InOutbox' = InOutbox
  <2>1. InOutbox' = InOutbox
    BY <1>1, <1>2 DEF InOutbox
  <2> QED BY <1>0, <1>1, <1>2, <2>1, Onward
<1>3. CASE Mine \/ BeginPoll \/ EndPoll \/ \E s \in Sub : AddSubscription(s)
  <2>1. UNCHANGED <<outbox, filter, hwm, stored>>
    BY <1>3 DEF Mine, BeginPoll, EndPoll, AddSubscription
  <2> QED BY <1>1, <1>2, <2>1, MarksStay DEF OrderInv
<1>4. CASE StoreCheckpoint
  <2>1. /\ UNCHANGED <<outbox, filter, hwm>>
        /\ stored' = [s \in Sub |-> IF s \in subs THEN hwm[s] ELSE stored[s]]
    BY <1>4 DEF StoreCheckpoint
  <2>2. InOrder' /\ BehindFilter' /\ BehindMark'
    BY <1>1, <1>2, <2>1, MarksStay DEF OrderInv
  <2>3. \A e \in Event : \/ stored'[Log[e].sub] = hwm[Log[e].sub]
                         \/ stored'[Log[e].sub] = stored[Log[e].sub]
    BY <2>1, EventFields
  <2>4. BehindCheckpoint'
    BY <1>1, <2>3 DEF OrderInv, BehindMark, BehindCheckpoint
  <2> QED BY <2>2, <2>4
<1>5. ASSUME NEW s \in Sub, ProcessNewEvents(s)
      PROVE  InOrder' /\ BehindFilter' /\ BehindMark' /\ BehindCheckpoint'
  <2>1. /\ UNCHANGED stored /\ outbox = {} /\ SetBlockHeight(s)
        /\ outbox' = {e \in Event : Log[e].sub = s /\ Log[e].block \in FilterStart(s) .. head}
        /\ filter' = [filter EXCEPT ![s] = head + 1]
    BY <1>5 DEF ProcessNewEvents
  <2>2. FilterStart(s) \in Nat /\ head \in Nat
    BY DEF Types, FilterStart
  <2>3. InOutbox' = InCurrent \cup outbox' /\ InOutbox = InCurrent
    BY <1>1, <2>1 DEF InOutbox
  <2>4. ASSUME NEW e \in Event, Log[e].sub = s, s \in Plain, Log[e].block <= head
        PROVE  e \in InOutbox'
    <3>1. Log[e].block \in Nat
      BY EventFields
    <3>2. CASE Log[e].block < FilterStart(s)
      BY <2>1, <2>3, <2>4, <3>2, StartIsBehind
    <3>3. CASE ~ (Log[e].block < FilterStart(s))
      BY <2>1, <2>2, <2>3, <2>4, <3>1, <3>3
    <3> QED BY <3>2, <3>3
  <2>5. WorkInOrder' /\ QueueInOrder' /\ CurrentInOrder'
    <3>1. \A k : InQueue(k)' = InQueue(k)
      BY <1>0, <1>1 DEF InQueue
    <3> QED BY <1>0, <1>1, <3>1 DEF InOrder, WorkInOrder, QueueInOrder, CurrentInOrder
  <2>6. OutboxInOrder'
    <3>1. ASSUME NEW f \in outbox', NEW e \in Event, Before(e, f) PROVE e \in InOutbox'
      <4>1. f \in Event /\ Log[f].sub = s /\ Log[f].block <= head /\ Log[f].block \in Nat
        BY <2>1, <2>2, EventFields
      <4>2. Log[e].sub = s /\ s \in Plain /\ Log[e].block < Log[f].block /\ Log[e].block \in Nat
        BY <3>1, <4>1, EventOrder, EventFields DEF Before
      <4>3. Log[e].block <= head
        BY <2>2, <4>1, <4>2
      <4> QED BY <2>4, <4>2, <4>3
    <3> QED BY <3>1 DEF OutboxInOrder
  <2>7. BehindFilter'
    <3>1. ASSUME NEW e \in Event, Log[e].sub \in Plain, Log[e].block < filter'[Log[e].sub]
          PROVE  e \in InOutbox'
      <4>1. Log[e].sub \in Sub /\ Log[e].block \in Nat
        BY EventFields
      <4>2. CASE Log[e].sub = s
        <5>1. filter'[s] = head + 1
          BY <2>1 DEF Types
        <5>2. Log[e].block <= head
          BY <2>2, <3>1, <4>1, <4>2, <5>1
        <5> QED BY <2>4, <3>1, <4>2, <5>2
      <4>3. CASE Log[e].sub # s
        <5>1. filter'[Log[e].sub] = filter[Log[e].sub]
          BY <2>1, <4>1, <4>3 DEF Types
        <5> QED BY <2>3, <3>1, <5>1 DEF OrderInv, BehindFilter
      <4> QED BY <4>2, <4>3
    <3> QED BY <3>1 DEF BehindFilter
  <2>8. BehindMark'
    BY <1>1, <2>1, MarkIsBehind
  <2>9. BehindCheckpoint'
    BY <1>1, <2>1, <2>3, MarksStay DEF OrderInv
  <2> QED BY <2>5, <2>6, <2>7, <2>8, <2>9 DEF InOrder
<1>6. ASSUME NEW s \in Sub, SubscriptionError(s)
      PROVE  InOrder' /\ BehindFilter' /\ BehindMark' /\ BehindCheckpoint'
  <2>1. /\ UNCHANGED <<stored, outbox>> /\ outbox = {} /\ SetBlockHeight(s)
        /\ \/ filter' = [filter EXCEPT ![s] = 0]
           \/ filter' = [filter EXCEPT ![s] = FilterStart(s)]
    BY <1>6 DEF SubscriptionError
  <2>2. InOrder' /\ InOutbox' = InOutbox /\ InOutbox = InCurrent
    BY <1>2, <2>1 DEF InOutbox
  <2>3. BehindFilter'
    <3>1. ASSUME NEW e \in Event, Log[e].sub \in Plain, Log[e].block < filter'[Log[e].sub]
          PROVE  e \in InOutbox'
      <4>1. Log[e].sub \in Sub /\ Log[e].block \in Nat
        BY EventFields
      <4>2. CASE Log[e].sub = s
        <5>1. filter'[s] = 0 \/ filter'[s] = FilterStart(s)
          BY <2>1 DEF Types
        <5>2. Log[e].block < FilterStart(s)
          BY <3>1, <4>1, <4>2, <5>1
        <5> QED BY <2>1, <2>2, <3>1, <4>2, <5>2, StartIsBehind
      <4>3. CASE Log[e].sub # s
        <5>1. filter'[Log[e].sub] = filter[Log[e].sub]
          BY <2>1, <4>1, <4>3 DEF Types
        <5> QED BY <2>2, <3>1, <5>1 DEF OrderInv, BehindFilter
      <4> QED BY <4>2, <4>3
    <3> QED BY <3>1 DEF BehindFilter
  <2>4. BehindMark'
    BY <1>1, <2>1, MarkIsBehind
  <2>5. BehindCheckpoint'
    BY <1>1, <2>1, <2>2, MarksStay DEF OrderInv
  <2> QED BY <2>2, <2>3, <2>4, <2>5
<1> QED BY <1>3, <1>4, <1>5, <1>6 DEF Poll

(* In the beginning, and after the process has started again, there is     *)
(* nothing on its way.                                                     *)
LEMMA NothingOnItsWay ==
  ASSUME Undisturbed, queue = <<>>, work = <<>>, outbox = {},
         current = [d \in Dispatcher |-> <<>>],
         filter = [s \in Sub |-> 0], hwm = [s \in Sub |-> 0]
  PROVE  InOrder /\ BehindFilter /\ BehindMark
<1>1. Dispatcher = 1..1 /\ 1 \in Dispatcher
  BY DEF Undisturbed, Dispatcher
<1>2. ToSet(work) = {} /\ ToSet(current[1]) = {} /\ Len(queue) = 0
  BY <1>1, ToSetEmpty
<1>3. \A e \in Event : ~ (Log[e].block < 0) /\ filter[Log[e].sub] = 0 /\ hwm[Log[e].sub] = 0
  BY EventFields
<1> QED BY <1>2, <1>3 DEF InOrder, WorkInOrder, QueueInOrder, CurrentInOrder,
                          OutboxInOrder, BehindFilter, BehindMark

LEMMA OrderInit == Init /\ Undisturbed => OrderInv
<1> SUFFICES ASSUME Init, Undisturbed PROVE OrderInv
  OBVIOUS
<1>1. InOrder /\ BehindFilter /\ BehindMark
  BY NothingOnItsWay DEF Init
<1>2. BehindCheckpoint
  <2>1. \A e \in Event : ~ (Log[e].block < 0) /\ stored[Log[e].sub] = 0
    BY EventFields DEF Init
  <2> QED BY <2>1 DEF BehindCheckpoint
<1>3. Dispatcher = 1..1 /\ 1 \in Dispatcher
  BY DEF Undisturbed, Dispatcher
<1>4. Running
  BY <1>3 DEF Init, Running
<1> QED BY <1>1, <1>2, <1>4 DEF OrderInv, InOrder

LEMMA OrderStep ==
  Types /\ Undisturbed /\ OrderInv /\ [Next]_vars => OrderInv'
<1> SUFFICES ASSUME Types, Undisturbed, OrderInv, [Next]_vars PROVE OrderInv'
  OBVIOUS
<1> USE DEF chainVars, pollVars, dispatchVars, controlVars, historyVars
<1>1. Running'
  BY RunningStep DEF OrderInv
<1>2. ~ Control
  BY NoControl DEF Control, OrderInv, Running, ResumeStream, EndUpdate, RejectUpdate
<1>3. ASSUME UNCHANGED vars
      PROVE  InOrder' /\ BehindFilter' /\ BehindMark' /\ BehindCheckpoint'
  <2>1. UNCHANGED <<queue, work, current, outbox, delivered, skipped, filter, hwm, stored>>
    BY <1>3 DEF vars
  <2>2. UNCHANGED <<Done, InWork>>
    BY <2>1 DEF Done, InWork
  <2> QED BY <2>1, <2>2, Onward, MarksStay DEF OrderInv, InOrder
<1>4. ASSUME Crash
      PROVE  InOrder' /\ BehindFilter' /\ BehindMark' /\ BehindCheckpoint'
  <2>1. /\ queue' = <<>> /\ work' = <<>> /\ outbox' = {}
        /\ current' = [d \in Dispatcher |-> <<>>]
        /\ filter' = [s \in Sub |-> 0] /\ hwm' = [s \in Sub |-> 0]
        /\ UNCHANGED <<stored, delivered, skipped>>
    BY <1>4 DEF Crash
  <2>2. Dispatcher = 1..1 /\ 1 \in Dispatcher
    BY DEF Undisturbed, Dispatcher
  <2>3. ToSet(work') = {} /\ ToSet(current'[1]) = {} /\ Len(queue') = 0
    BY <2>1, <2>2, ToSetEmpty
  <2>4. \A e \in Event : ~ (Log[e].block < 0) /\ filter'[Log[e].sub] = 0 /\ hwm'[Log[e].sub] = 0
    BY <2>1, EventFields
  <2>5. InOrder' /\ BehindFilter' /\ BehindMark'
    BY <2>1, <2>3, <2>4 DEF InOrder, WorkInOrder, QueueInOrder, CurrentInOrder,
                            OutboxInOrder, BehindFilter, BehindMark
  <2>6. BehindCheckpoint'
    BY <2>1 DEF OrderInv, BehindCheckpoint, Done
  <2> QED BY <2>5, <2>6
<1>5. InOrder' /\ BehindFilter' /\ BehindMark' /\ BehindCheckpoint'
  BY <1>2, <1>3, <1>4, OrderPoll, OrderDispatch, OrderProcess DEF Next
<1> QED BY <1>1, <1>5 DEF OrderInv, InOrder

(* The checkpoint of a subscription from the first block on is not past an *)
(* event that was neither delivered nor given up, whatever fails and       *)
(* however often the process is restarted, when the stream is neither      *)
(* suspended nor updated and the subscription has one event in a block.    *)
THEOREM CheckpointsBehind ==
  ASSUME Undisturbed
  PROVE  Spec => []BehindCheckpoint
<1>1. OrderInv => BehindCheckpoint
  BY DEF OrderInv
<1>2. Init => OrderInv
  BY OrderInit
<1>3. Types /\ OrderInv /\ [Next]_vars => OrderInv'
  BY OrderStep
<1> QED BY <1>1, <1>2, <1>3, TypesInit, TypesStep, PTL DEF Spec

(* With all subscriptions like that, no checkpoint is past such an event.  *)
THEOREM AllCheckpointsBehind ==
  ASSUME Undisturbed, Sub \subseteq Plain
  PROVE  Spec => []CheckpointBehindDelivery
<1>1. BehindCheckpoint => CheckpointBehindDelivery
  BY EventFields DEF BehindCheckpoint, CheckpointBehindDelivery, Done
<1> QED BY <1>1, CheckpointsBehind, PTL

-----------------------------------------------------------------------------
Once == WorkApart /\ QueueApart /\ CurrentApart /\ OutboxApart /\ ReadOnce

LEMMA QuietStep ==
  ASSUME Types, [Next]_vars, Quiet'
  PROVE  Quiet /\ ~ Crash /\ \A s \in Sub : ~ SubscriptionError(s)
<1>0. /\ used \in [Kinds -> Nat]
      /\ {"suspend", "update", "crash", "failure"} \subseteq Kinds
  BY DEF Types, Kinds
<1>1. ASSUME NEW k \in Kinds, Use(k) PROVE used' = [used EXCEPT ![k] = used[k] + 1]
  BY <1>1 DEF Use
<1>2. ~ Crash
  <2> SUFFICES ASSUME Crash PROVE FALSE
    OBVIOUS
  <2>1. used'["crash"] = used["crash"] + 1 /\ used["crash"] \in Nat
    BY <1>0, <1>1 DEF Crash
  <2> QED BY <2>1 DEF Quiet
<1>3. ASSUME NEW s \in Sub, SubscriptionError(s) PROVE FALSE
  <2>1. used'["failure"] = used["failure"] + 1 /\ used["failure"] \in Nat
    BY <1>0, <1>1, <1>3 DEF SubscriptionError
  <2> QED BY <2>1 DEF Quiet
<1>4. CASE UNCHANGED used
  BY <1>2, <1>3, <1>4 DEF Quiet
<1>5. CASE SuspendStream \/ BeginUpdate
  <2>1. \/ used' = [used EXCEPT !["suspend"] = used["suspend"] + 1]
        \/ used' = [used EXCEPT !["update"] = used["update"] + 1]
    BY <1>0, <1>1, <1>5 DEF SuspendStream, BeginUpdate
  <2>2. used'["crash"] = used["crash"] /\ used'["failure"] = used["failure"]
    BY <1>0, <2>1
  <2> QED BY <1>2, <1>3, <2>2 DEF Quiet
<1>6. UNCHANGED used \/ SuspendStream \/ BeginUpdate
  <2>1. CASE Mine \/ Poll \/ UNCHANGED vars \/ \E s \in Sub : AddSubscription(s)
    BY <1>3, <2>1 DEF Mine, Poll, BeginPoll, StoreCheckpoint, EndPoll, ProcessNewEvents,
                      AddSubscription, vars
  <2>2. CASE Process
    BY <2>2 DEF Process, TakeBatch, ProcessBatch, EndProcessor, PerformAction,
                WebhookAccepts, WebhookFails, Backoff, ActionFailed, BlockedRetry, BatchComplete
  <2>3. CASE Control
    BY <2>3 DEF Control, ResumeStream, EndUpdate, RejectUpdate
  <2>4. ASSUME NEW d \in Dispatcher, Dispatch(d) PROVE UNCHANGED used
    BY <2>4 DEF Dispatch, HandleEvent, BatchTimeout, EndDispatcher
  <2> QED BY <1>2, <2>1, <2>2, <2>3, <2>4 DEF Next
<1> QED BY <1>4, <1>5, <1>6

(* The batches stay, and the one in work only gets further.                *)
LEMMA OnceStays ==
  ASSUME Types, Once, UNCHANGED <<queue, current, outbox, filter>>,
         head' = head \/ head' = head + 1,
         Pending' \cup delivered' \subseteq Pending \cup delivered, WorkApart'
  PROVE  Once'
<1>1. QueueApart' /\ CurrentApart' /\ OutboxApart'
  BY DEF Once, QueueApart, CurrentApart, OutboxApart
<1>2. \A s \in Sub : filter[s] <= head + 1 /\ filter[s] \in Nat /\ head \in Nat
  BY DEF Once, ReadOnce, Types
<1>3. \A s \in Sub : filter'[s] <= head' + 1
  <2>1. CASE head' = head
    BY <1>2, <2>1
  <2>2. CASE head' = head + 1
    BY <1>2, <2>2
  <2> QED BY <2>1, <2>2
<1>4. \A e : Read(e)' <=> Read(e)
  BY DEF Read
<1>5. ReadOnce'
  BY <1>3, <1>4 DEF Once, ReadOnce
<1> QED BY <1>1, <1>5 DEF Once

LEMMA OnceReads ==
  ASSUME Types, Once, NEW s \in Sub, ProcessNewEvents(s)
  PROVE  Once'
<1> USE DEF dispatchVars, historyVars
<1>1. /\ UNCHANGED <<queue, current, work, processor, delivered, head>> /\ outbox = {}
      /\ outbox' = {e \in Event : Log[e].sub = s /\ Log[e].block \in FilterStart(s) .. head}
      /\ filter' = [filter EXCEPT ![s] = head + 1]
  BY DEF ProcessNewEvents
<1>2. FilterStart(s) \in Nat /\ head \in Nat /\ filter[s] \in Nat /\ Pending' = Pending
  BY <1>1 DEF Types, FilterStart, Pending
<1>3. \A e \in Event : Read(e) => Read(e)' /\ e \notin outbox'
  <2>1. SUFFICES ASSUME NEW e \in Event, Read(e) PROVE Read(e)' /\ e \notin outbox'
    OBVIOUS
  <2>2. Log[e].sub \in Sub /\ Log[e].block \in Nat
    BY EventFields
  <2>3. CASE Log[e].sub = s
    <3>1. filter'[s] = head + 1 /\ filter[s] # 0 /\ FilterStart(s) = filter[s]
      BY <1>1, <2>1, <2>3 DEF Types, Read, FilterStart
    <3>2. Log[e].block < filter[s] /\ filter[s] <= head + 1
      BY <2>1, <2>3 DEF Read, Once, ReadOnce
    <3> QED BY <1>1, <1>2, <2>2, <2>3, <3>1, <3>2 DEF Read
  <2>4. CASE Log[e].sub # s
    <3>1. filter'[Log[e].sub] = filter[Log[e].sub]
      BY <1>1, <2>2, <2>4 DEF Types
    <3> QED BY <1>1, <2>1, <2>4, <3>1 DEF Read
  <2> QED BY <2>3, <2>4
<1>4. \A e \in outbox' : e \in Event /\ Read(e)'
  <2>1. ASSUME NEW e \in outbox' PROVE Read(e)'
    <3>1. e \in Event /\ Log[e].sub = s /\ Log[e].block <= head /\ Log[e].block \in Nat
      BY <1>1, <1>2, EventFields
    <3>2. filter'[s] = head + 1
      BY <1>1 DEF Types
    <3> QED BY <1>2, <3>1, <3>2 DEF Read
  <2> QED BY <1>1, <2>1
<1>5. /\ delivered \cup Pending \subseteq Event
      /\ \A k \in 1..Len(queue) : ToSet(queue[k]) \subseteq Event
      /\ \A d \in Dispatcher : ToSet(current[d]) \subseteq Event
  BY ToSetType DEF Types, Pending
<1>6. /\ \A e \in delivered \cup Pending : Read(e)
      /\ \A k \in 1..Len(queue) : \A e \in ToSet(queue[k]) : Read(e)
      /\ \A d \in Dispatcher : \A e \in ToSet(current[d]) : Read(e)
  BY DEF Once, ReadOnce
<1>7. WorkApart' /\ QueueApart' /\ CurrentApart'
  BY <1>1, <1>2 DEF Once, WorkApart, QueueApart, CurrentApart
<1>8. OutboxApart'
  BY <1>1, <1>2, <1>3, <1>5, <1>6 DEF OutboxApart
<1>9. ReadOnce'
  <2>1. \A e \in delivered' \cup Pending' \cup outbox' : Read(e)'
    BY <1>1, <1>2, <1>3, <1>4, <1>5, <1>6
  <2>2. /\ \A k \in 1..Len(queue') : \A e \in ToSet(queue'[k]) : Read(e)'
        /\ \A d \in Dispatcher : \A e \in ToSet(current'[d]) : Read(e)'
    BY <1>1, <1>3, <1>5, <1>6
  <2>3. \A r \in Sub : filter'[r] = head + 1 \/ filter'[r] = filter[r]
    BY <1>1 DEF Types
  <2>4. \A r \in Sub : filter'[r] <= head' + 1
    BY <1>1, <1>2, <2>3 DEF Once, ReadOnce
  <2> QED BY <2>1, <2>2, <2>4 DEF ReadOnce
<1> QED BY <1>7, <1>8, <1>9 DEF Once

(* A batch that has nothing of the others is queued.                       *)
LEMMA OnceQueued ==
  ASSUME Types, Once, NEW c \in Seq(Event), NEW d \in Dispatcher,
         UNCHANGED <<work, processor, delivered, filter, head>>,
         queue' = Append(queue, c), current' = [current EXCEPT ![d] = <<>>],
         ToSet(c) \subseteq ToSet(current[d]) \cup outbox,
         outbox' = outbox \ ToSet(c)
  PROVE  Once'
<1>1. Pending' = Pending /\ \A e : Read(e)' <=> Read(e)
  BY DEF Pending, Read
<1>2. /\ \A k \in 1..Len(queue) : queue'[k] = queue[k]
      /\ Len(queue') = Len(queue) + 1 /\ queue'[Len(queue) + 1] = c
      /\ 1..(Len(queue) + 1) = 1..Len(queue) \cup {Len(queue) + 1}
  BY WithinAppend DEF Types
<1>3. \A b \in Dispatcher : ToSet(current'[b]) = IF b = d THEN {} ELSE ToSet(current[b])
  BY ToSetEmpty DEF Types
<1>4. /\ ToSet(c) \cap (delivered \cup Pending) = {}
      /\ \A k \in 1..Len(queue) : ToSet(c) \cap ToSet(queue[k]) = {}
      /\ \A b \in Dispatcher : b # d => ToSet(c) \cap ToSet(current[b]) = {}
      /\ \A e \in ToSet(c) : Read(e)
  BY DEF Once, CurrentApart, OutboxApart, ReadOnce
<1>5. WorkApart'
  BY <1>1 DEF Once, WorkApart
<1>6. QueueApart'
  <2>1. \A k \in 1..Len(queue) :
          /\ ToSet(queue'[k]) \cap (delivered' \cup Pending') = {}
          /\ ToSet(queue'[k]) \cap ToSet(queue'[Len(queue) + 1]) = {}
          /\ \A l \in 1..Len(queue) : k # l => ToSet(queue'[k]) \cap ToSet(queue'[l]) = {}
    BY <1>1, <1>2, <1>4 DEF Once, QueueApart
  <2>2. ToSet(queue'[Len(queue) + 1]) \cap (delivered' \cup Pending') = {}
    BY <1>1, <1>2, <1>4
  <2>3. \A k : k \in 1..Len(queue') <=> k \in 1..Len(queue) \/ k = Len(queue) + 1
    BY <1>2
  <2> QED BY <2>1, <2>2, <2>3 DEF QueueApart
<1>7. CurrentApart'
  <2>1. ASSUME NEW b \in Dispatcher, b # d
        PROVE  /\ ToSet(current[b]) \cap (delivered' \cup Pending') = {}
               /\ \A k \in 1..Len(queue) : ToSet(current[b]) \cap ToSet(queue'[k]) = {}
               /\ ToSet(current[b]) \cap ToSet(queue'[Len(queue) + 1]) = {}
               /\ \A a \in Dispatcher : a # b => ToSet(current[b]) \cap ToSet(current[a]) = {}
    BY <1>1, <1>2, <1>4, <2>1 DEF Once, CurrentApart
  <2>2. \A k : k \in 1..Len(queue') <=> k \in 1..Len(queue) \/ k = Len(queue) + 1
    BY <1>2
  <2>3. ASSUME NEW b \in Dispatcher
        PROVE  /\ ToSet(current'[b]) \cap (delivered' \cup Pending') = {}
               /\ \A k \in 1..Len(queue') : ToSet(current'[b]) \cap ToSet(queue'[k]) = {}
    <3>1. CASE b = d
      BY <1>3, <3>1
    <3>2. CASE b # d
      BY <1>3, <2>1, <2>2, <3>2
    <3> QED BY <3>1, <3>2
  <2>4. ASSUME NEW a \in Dispatcher, NEW b \in Dispatcher, a # b
        PROVE  ToSet(current'[b]) \cap ToSet(current'[a]) = {}
    <3>1. CASE a = d \/ b = d
      BY <1>3, <3>1
    <3>2. CASE a # d /\ b # d
      BY <1>3, <2>1, <2>4, <3>2
    <3> QED BY <3>1, <3>2
  <2> QED BY <2>3, <2>4 DEF CurrentApart
<1>8. OutboxApart'
  BY <1>1, <1>2, <1>3 DEF Once, OutboxApart
<1>9. ReadOnce'
  BY <1>1, <1>2, <1>3, <1>4 DEF Once, ReadOnce
<1> QED BY <1>5, <1>6, <1>7, <1>8, <1>9 DEF Once

LEMMA OnceDispatch ==
  ASSUME Types, Once, NEW d \in Dispatcher, Dispatch(d)
  PROVE  Once'
<1> USE DEF chainVars, pollVars, historyVars
<1>0. /\ UNCHANGED <<work, processor, delivered, filter, head>>
      /\ current[d] \in Seq(Event)
  BY DEF Dispatch, HandleEvent, BatchTimeout, EndDispatcher, Types
<1>1. Pending' = Pending /\ \A e : Read(e)' <=> Read(e)
  BY <1>0 DEF Pending, Read
<1>2. CASE HandleEvent(d)
  <2>1. PICK e \in outbox : LET batch == Append(current[d], e)
                                full == Len(batch) = BatchSize IN
          /\ outbox' = outbox \ {e}
          /\ current' = [current EXCEPT ![d] = IF full THEN <<>> ELSE batch]
          /\ queue' = IF full THEN Append(queue, batch) ELSE queue
    BY <1>2 DEF HandleEvent
  <2> DEFINE batch == Append(current[d], e)
  <2>2. batch \in Seq(Event) /\ ToSet(batch) = ToSet(current[d]) \cup {e}
    BY <1>0, ToSetAppend DEF Types
  <2>3. outbox' = outbox \ ToSet(batch)
    BY <2>1, <2>2 DEF Once, OutboxApart
  <2>4. CASE Len(batch) = BatchSize
    <3>1. current' = [current EXCEPT ![d] = <<>>] /\ queue' = Append(queue, batch)
      BY <2>1, <2>4
    <3>2. ToSet(batch) \subseteq ToSet(current[d]) \cup outbox
      BY <2>2
    <3> HIDE DEF batch
    <3> QED BY <1>0, <2>2, <2>3, <3>1, <3>2, OnceQueued
  <2>5. CASE Len(batch) # BatchSize
    <3>1. current' = [current EXCEPT ![d] = batch] /\ queue' = queue
      BY <2>1, <2>5
    <3> HIDE DEF batch
    <3>2. \A b \in Dispatcher : ToSet(current'[b]) = IF b = d THEN ToSet(current[d]) \cup {e}
                                                              ELSE ToSet(current[b])
      BY <2>2, <3>1 DEF Types
    <3>3. WorkApart' /\ QueueApart'
      BY <1>0, <1>1, <3>1 DEF Once, WorkApart, QueueApart
    <3>4. CurrentApart'
      <4>1. /\ e \notin delivered \cup Pending
            /\ \A k \in 1..Len(queue) : e \notin ToSet(queue[k])
            /\ \A b \in Dispatcher : e \notin ToSet(current[b])
        BY <2>1 DEF Once, OutboxApart
      <4>2. ASSUME NEW b \in Dispatcher
            PROVE  /\ ToSet(current'[b]) \cap (delivered \cup Pending) = {}
                   /\ \A k \in 1..Len(queue) : ToSet(current'[b]) \cap ToSet(queue[k]) = {}
        BY <3>2, <4>1 DEF Once, CurrentApart
      <4>3. ASSUME NEW a \in Dispatcher, NEW b \in Dispatcher, a # b
            PROVE  ToSet(current'[a]) \cap ToSet(current'[b]) = {}
        <5>1. ToSet(current[a]) \cap ToSet(current[b]) = {}
          BY <4>3 DEF Once, CurrentApart
        <5> QED BY <3>2, <4>1, <4>3, <5>1
      <4> QED BY <1>0, <1>1, <3>1, <4>2, <4>3 DEF CurrentApart
    <3>5. OutboxApart'
      BY <1>0, <1>1, <2>1, <3>1, <3>2 DEF Once, OutboxApart
    <3>6. ReadOnce'
      BY <1>0, <1>1, <2>1, <3>1, <3>2 DEF Once, ReadOnce
    <3> QED BY <3>3, <3>4, <3>5, <3>6 DEF Once
  <2> QED BY <2>4, <2>5
<1>3. CASE BatchTimeout(d)
  <2>1. /\ queue' = Append(queue, current[d]) /\ outbox' = outbox
        /\ current' = [current EXCEPT ![d] = <<>>]
    BY <1>3 DEF BatchTimeout
  <2>2. outbox' = outbox \ ToSet(current[d])
    BY <2>1 DEF Once, OutboxApart
  <2> QED BY <1>0, <2>1, <2>2, OnceQueued
<1>4. CASE EndDispatcher(d)
  <2>1. /\ UNCHANGED <<queue, outbox>> /\ current' = [current EXCEPT ![d] = <<>>]
    BY <1>4 DEF EndDispatcher
  <2>2. \A b \in Dispatcher : ToSet(current'[b]) \subseteq ToSet(current[b])
    BY <2>1, ToSetEmpty DEF Types
  <2>3. WorkApart' /\ QueueApart'
    BY <1>0, <1>1, <2>1 DEF Once, WorkApart, QueueApart
  <2>4. CurrentApart'
    BY <1>0, <1>1, <2>1, <2>2 DEF Once, CurrentApart
  <2>5. OutboxApart' /\ ReadOnce'
    BY <1>0, <1>1, <2>1, <2>2 DEF Once, OutboxApart, ReadOnce
  <2> QED BY <2>3, <2>4, <2>5 DEF Once
<1> QED BY <1>2, <1>3, <1>4 DEF Dispatch

LEMMA OnceTaken ==
  ASSUME Types, Once, TakeBatch
  PROVE  Once'
<1> USE DEF chainVars, pollVars, dispatchVars, historyVars
<1>1. /\ UNCHANGED <<delivered, filter, head, current, outbox>> /\ processor' = "taken"
      /\ queue # <<>> /\ work' = Head(queue) /\ queue' = Tail(queue)
  BY DEF TakeBatch
<1>2. /\ Len(queue) \in Nat \ {0} /\ Len(queue') = Len(queue) - 1
      /\ work' = queue[1] /\ 1 \in 1..Len(queue)
      /\ \A k \in 1..Len(queue') : k + 1 \in 1..Len(queue) /\ queue'[k] = queue[k + 1]
  BY <1>1, WithinTail DEF Types
<1>3. Pending' = ToSet(queue[1]) /\ \A e : Read(e)' <=> Read(e)
  BY <1>1, <1>2 DEF Pending, Read
<1>4. \A k \in 1..Len(queue') : k + 1 # 1 /\ \A l \in 1..Len(queue') : k # l => k + 1 # l + 1
  BY <1>2
<1>5. WorkApart'
  BY <1>1, <1>2, <1>3 DEF Once, WorkApart, QueueApart
<1>6. QueueApart'
  <2>1. ASSUME NEW k \in 1..Len(queue')
        PROVE  /\ ToSet(queue'[k]) \cap (delivered' \cup Pending') = {}
               /\ \A l \in 1..Len(queue') : k # l => ToSet(queue'[k]) \cap ToSet(queue'[l]) = {}
    <3>1. k + 1 \in 1..Len(queue) /\ queue'[k] = queue[k + 1] /\ k + 1 # 1
      BY <1>2, <1>4
    <3>2. ToSet(queue[k + 1]) \cap (delivered' \cup Pending') = {}
      BY <1>1, <1>2, <1>3, <3>1 DEF Once, QueueApart
    <3>3. ASSUME NEW l \in 1..Len(queue'), k # l
          PROVE  ToSet(queue[k + 1]) \cap ToSet(queue'[l]) = {}
      <4>1. l + 1 \in 1..Len(queue) /\ queue'[l] = queue[l + 1] /\ k + 1 # l + 1
        BY <1>2, <1>4, <3>3
      <4> QED BY <3>1, <4>1 DEF Once, QueueApart
    <3> QED BY <3>1, <3>2, <3>3
  <2> QED BY <2>1 DEF QueueApart
<1>7. CurrentApart'
  BY <1>1, <1>2, <1>3 DEF Once, CurrentApart
<1>8. OutboxApart'
  BY <1>1, <1>2, <1>3 DEF Once, OutboxApart
<1>9. ReadOnce'
  BY <1>1, <1>2, <1>3 DEF Once, ReadOnce
<1> QED BY <1>5, <1>6, <1>7, <1>8, <1>9 DEF Once

LEMMA OnceProcess == ASSUME Types, Once, Process PROVE Once'
<1> USE DEF chainVars, pollVars, dispatchVars, historyVars
<1>1. CASE TakeBatch
  BY <1>1, OnceTaken
<1>2. ASSUME ~ TakeBatch PROVE UNCHANGED <<queue, current, outbox, filter, head>>
  BY <1>2 DEF Process, ProcessBatch, EndProcessor, PerformAction, WebhookAccepts,
              WebhookFails, Backoff, ActionFailed, BlockedRetry, BatchComplete
<1>3. ASSUME UNCHANGED <<queue, current, outbox, filter, head, delivered>>, Pending' \subseteq Pending
      PROVE  Once'
  BY <1>3, OnceStays DEF Once, WorkApart
<1>4. CASE EndProcessor \/ PerformAction \/ WebhookFails \/ Backoff
  BY <1>3, <1>4 DEF EndProcessor, PerformAction, WebhookFails, Backoff, Pending
<1>5. CASE ProcessBatch \/ ActionFailed \/ BlockedRetry \/ BatchComplete
  BY <1>3, <1>5, ToSetEmpty DEF ProcessBatch, ActionFailed, BlockedRetry, BatchComplete, Pending
<1>6. CASE WebhookAccepts
  <2>1. /\ delivered' = delivered \cup ToSet(work) /\ processor = "posting"
        /\ processor' = "processed"
        /\ UNCHANGED <<queue, current, outbox, filter, head>>
    BY <1>6 DEF WebhookAccepts
  <2>2. Pending = ToSet(work) /\ Pending' = {}
    BY <2>1 DEF Pending
  <2>3. WorkApart' /\ Pending' \cup delivered' \subseteq Pending \cup delivered
    BY <2>1, <2>2 DEF WorkApart
  <2> QED BY <2>1, <2>3, OnceStays
<1> QED BY <1>1, <1>4, <1>5, <1>6 DEF Process

LEMMA OnceInit == Init => OnceInv
<1> SUFFICES ASSUME Init PROVE Once
  BY DEF Once, OnceInv
<1>1. /\ Pending = {} /\ delivered = {} /\ outbox = {} /\ Len(queue) = 0
      /\ \A d \in Dispatcher : ToSet(current[d]) = {}
  BY ToSetEmpty DEF Init, Pending
<1>2. \A s \in Sub : filter[s] <= head + 1
  BY DEF Init
<1>3. 1..Len(queue) = {}
  BY <1>1
<1> QED BY <1>1, <1>2, <1>3 DEF Once, WorkApart, QueueApart, CurrentApart, OutboxApart, ReadOnce

LEMMA OnceStep == Types /\ OnceInv /\ [Next]_vars => OnceInv'
<1> SUFFICES ASSUME Types, OnceInv, [Next]_vars, Quiet' PROVE Once'
  BY DEF OnceInv, Once
<1> USE DEF chainVars, pollVars, dispatchVars, controlVars, historyVars
<1>0. Once /\ ~ Crash /\ \A s \in Sub : ~ SubscriptionError(s)
  BY QuietStep DEF OnceInv, Once
<1>1. ASSUME UNCHANGED <<queue, current, outbox, filter, work, delivered>>,
             head' = head \/ head' = head + 1,
             \/ processor' = processor
             \/ processor' = "idle" /\ processor # "processed"
      PROVE  Once'
  <2>1. Pending' = Pending
    BY <1>1 DEF Pending
  <2> QED BY <1>0, <1>1, <2>1, OnceStays DEF Once, WorkApart
<1>2. CASE Mine \/ UNCHANGED vars \/ \E s \in Sub : AddSubscription(s)
  BY <1>1, <1>2 DEF Mine, vars, AddSubscription
<1>3. CASE Control
  BY <1>1, <1>3 DEF Control, SuspendStream, ResumeStream, BeginUpdate, EndUpdate,
                    RejectUpdate, ProcessorDone, Stopped
<1>4. CASE Poll
  <2>1. CASE BeginPoll \/ StoreCheckpoint \/ EndPoll
    BY <1>1, <2>1 DEF BeginPoll, StoreCheckpoint, EndPoll
  <2> QED BY <1>0, <1>4, <2>1, OnceReads DEF Poll
<1> QED BY <1>0, <1>2, <1>3, <1>4, OnceDispatch, OnceProcess DEF Next

(* No event is delivered twice, however the stream is suspended, resumed   *)
(* and updated meanwhile, until a call to the node fails or the process is *)
(* started again.                                                          *)
THEOREM DeliveredOnce == Spec => NoDuplicateDelivery
<1>1. Types /\ OnceInv /\ [Next]_vars =>
        [WebhookAccepts /\ used["crash"] = 0 /\ used["failure"] = 0
           => ToSet(work) \cap delivered = {}]_vars
  <2> SUFFICES ASSUME OnceInv, WebhookAccepts, Quiet PROVE ToSet(work) \cap delivered = {}
    BY DEF Quiet
  <2>1. Pending = ToSet(work)
    BY DEF WebhookAccepts, Pending
  <2> QED BY <2>1 DEF OnceInv, WorkApart
<1> QED BY <1>1, TypesInit, TypesStep, OnceInit, OnceStep, PTL DEF Spec, NoDuplicateDelivery

=============================================================================
