------------------------- MODULE ApiSubscriptionProofs -------------------------
(****************************************************************************)
(* Theorems about ApiSubscription, for any number of leaves in CDB and at   *)
(* the data provider, values, polls and changes, with and without external  *)
(* changes and faults.                                                      *)
(****************************************************************************)
EXTENDS ApiSubscription, SubscriptionHandlerProofs

----------------------------------------------------------------------------
(* The inductive invariant.                                                 *)

\* There is no changer, and no change, before the first sample is complete.
Started == Fresh => changer = "none" /\ change_db = <<>>

\* A subscription point is processed only while its notification has been read and
\* is not acknowledged, so that CDB holds the next commit back.
PointsNotified ==
    /\ spoints \subseteq notification
    /\ spoints # {} => changer \in {"iterate", "put"}
    /\ changer \in {"iterate", "put"} => delivery = "read"

\* Messages wait at a change server that is up, and select told the truth of them.
MessagesWait ==
    /\ ~listening => backlog = <<>>
    /\ "ext" \in ready => backlog # <<>>

\* The last message about a leaf, waiting or not yet sent, has the value the leaf has.
Newest(messages, i) ==
    \A j \in DOMAIN messages : j > i => messages[j].path # messages[i].path

MessagesCurrent ==
    /\ unsent # NoUpdates => unsent.val = data[unsent.path]
    /\ \A i \in DOMAIN backlog :
          Newest(backlog, i) /\ backlog[i].path # unsent.path =>
            backlog[i].val = data[backlog[i].path]

\* The inductive invariant.
IndInv ==
    /\ TypeOK
    /\ HandlerOrder
    /\ Started
    /\ NoLostWakeup
    /\ PointsNotified
    /\ MessagesWait
    /\ MessagesCurrent
    /\ ClientCatchesUp
----------------------------------------------------------------------------
(* Type correctness.                                                        *)

\* Most steps are first-order: Zenon is tried first, then the SMT solver.
USE Zenon, SMT

\* A notification that names a leaf has a value for it.
LEMMA NotificationsNameLeaves ==
    \A u \in Notifications : u.path \in Paths => u.val \in JsonVals
<1> SUFFICES ASSUME NEW u \in Notifications, u.path \in Paths PROVE u.val \in JsonVals
  OBVIOUS
<1>1. u # NoUpdates
  BY NoneIsNoPath DEF NoUpdates, Update
<1> QED BY <1>1 DEF Notifications

\* What is put into change_db for a change is a notification.
LEMMA ChangesType ==
    ASSUME NEW p \in Paths, NEW v \in Vals \cup {None}
    PROVE  ChangesOf(p, v) \in Notifications
  BY DEF ChangesOf, Notifications, JsonVals, NoUpdates, Update

\* The types in the initial states.
LEMMA TypeOKInit == Init => TypeOK
<1> SUFFICES ASSUME Init PROVE TypeOK
  OBVIOUS
<1>1. HandlerTypeOK(JsonVals, Notifications)
  BY HandlerTypesInit DEF Init
<1>2. /\ backlog \in Seq([path : ExtPaths, val : Vals])
      /\ change_db \in Seq(Notifications)
  BY EmptySeq DEF Init
<1>3. subscribed \in BOOLEAN /\ listening \in BOOLEAN
  BY Zenon DEF Init
<1>4. changed \in 0..MaxChanges
  BY MaxChangesNat DEF Init
<1> QED BY <1>1, <1>2, <1>3, <1>4 DEF Init, TypeOK, ChangerStates

\* The types in the steps of the handler.
LEMMA TypeOKCommon ==
    ASSUME TypeOK, CommonNext, UNCHANGED adapterVars
    PROVE  TypeOK'
<1>1. Apply(response, view) \in [Paths -> JsonVals \cup {None}]
  BY NotificationsNameLeaves, ApplyType DEF TypeOK, HandlerTypeOK
<1>2. HandlerTypeOK(JsonVals, Notifications)'
  BY <1>1, HandlerTypes DEF TypeOK
<1> QED BY <1>2 DEF TypeOK, adapterVars, dataVars, sourceVars, loopVars

\* What the changes outside leave as it was has its type.
LEMMA TypeOKSources ==
    ASSUME TypeOK, Commit \/ ProviderChange \/ ProviderSend
    PROVE  TypeOK'
<1> USE DEF TypeOK, HandlerTypeOK, handlerVars, rpcVars, readVars, clientVars, loopVars
<1>n. changed < MaxChanges /\ changed' = changed + 1 => changed' \in 0..MaxChanges
  BY MaxChangesNat
<1>1. CASE Commit
  <2>1. PICK S \in (SUBSET CdbPaths) \ {{}}, new \in [CdbPaths -> Vals \cup {None}] :
          /\ data' = [p \in Paths |-> IF p \in S THEN new[p] ELSE data[p]]
          /\ \/ /\ notification' = S /\ delivery' = "unread"
                /\ missed' = missed \ S
             \/ /\ missed' = missed \cup {p \in S : Sampled(p)}
                /\ UNCHANGED <<notification, delivery>>
    BY <1>1 DEF Commit
  <2>2. data' \in [Paths -> Vals \cup {None}]
    BY <2>1
  <2>3. missed' \in SUBSET Paths /\ notification' \in SUBSET CdbPaths
        /\ delivery' \in {"none", "unread", "read"}
    BY <2>1, CdbPathsArePaths
  <2> QED BY <1>n, <1>1, <2>2, <2>3 DEF Commit
<1>2. CASE ProviderChange
  <2>1. PICK p \in ExtPaths, v \in Vals :
          data' = [data EXCEPT ![p] = v] /\ unsent' = Update(p, v)
    BY <1>2 DEF ProviderChange
  <2>2. data' \in [Paths -> Vals \cup {None}]
    BY <2>1
  <2>3. unsent' \in [path : ExtPaths, val : Vals]
    BY <2>1 DEF Update
  <2> QED BY <1>n, <1>2, <2>2, <2>3 DEF ProviderChange
<1>3. CASE ProviderSend
  <2>1. unsent \in [path : ExtPaths, val : Vals] /\ unsent' = NoUpdates
    BY <1>3 DEF ProviderSend
  <2>2. \/ backlog' = Append(backlog, unsent) /\ missed' = missed \ {unsent.path}
        \/ backlog' = backlog /\ missed' = missed \cup {p \in {unsent.path} : Sampled(p)}
    BY <1>3 DEF ProviderSend
  <2>3. missed' \in SUBSET Paths
    BY <2>1, <2>2 DEF ExtPaths
  <2>4. backlog' \in Seq([path : ExtPaths, val : Vals])
    <3>1. Append(backlog, unsent) \in Seq([path : ExtPaths, val : Vals])
      BY <2>1, AppendProperties
    <3> QED BY <2>2, <3>1
  <2> QED BY <1>3, <2>1, <2>3, <2>4 DEF ProviderSend
<1> QED BY <1>1, <1>2, <1>3

\* The types in the steps in which the reader runs code of the adapter.
LEMMA TypeOKReader ==
    ASSUME TypeOK, ReaderNext \/ SampleFails \/ PrefixDiffers
    PROVE  TypeOK'
<1> USE DEF TypeOK, HandlerTypeOK, ReaderStates, rpcVars, readVars, clientVars,
            adapterVars, dataVars, sourceVars, loopVars
<1>1. CASE ReaderCommonNext /\ UNCHANGED adapterVars
  BY <1>1, TypeOKCommon DEF CommonNext
<1>2. CASE GetSample
  <2>1. PICK p \in unsampled :
          /\ data[p] # None /\ SampleLeaf(p, Json(data[p]))
          /\ missed' \subseteq missed
    BY <1>2 DEF GetSample
  <2>2. Update(p, Json(data[p])) \in Notifications
    BY <2>1 DEF Update, Notifications, JsonVals
  <2>3. response' \in Seq(Notifications)
    BY <2>1, <2>2 DEF SampleLeaf
  <2> QED BY <1>2, <2>1, <2>3 DEF GetSample, SampleLeaf
<1>3. CASE SampleNothing
  BY <1>3 DEF SampleNothing
<1>4. CASE FinishSample
  BY <1>4 DEF FinishSample, SampleComplete, ChangerStates
<1>5. CASE GetNotifications
  BY <1>5, EmptySeq DEF GetNotifications, Taken
<1>6. CASE NothingToSend
  BY <1>6 DEF NothingToSend, Fail
<1>7. CASE StopMonitoring
  BY <1>7 DEF StopMonitoring
<1>8. CASE MonitoringStopped
  BY <1>8 DEF MonitoringStopped
<1>9. CASE SampleFails
  BY <1>9 DEF SampleFails
<1>10. CASE PrefixDiffers
  BY <1>10 DEF PrefixDiffers, Fail
<1> QED BY <1>1, <1>2, <1>3, <1>4, <1>5, <1>6, <1>7, <1>8, <1>9, <1>10 DEF ReaderNext

\* The end of the changer.
LEMMA TypeOKEnd ==
    ASSUME TypeOK, EndChanger, ChangerUnchanged, read_queue' \in Seq(Events)
    PROVE  TypeOK'
<1> USE DEF TypeOK, HandlerTypeOK, EndChanger, ChangerUnchanged, rpcVars, readVars, clientVars
<1>1. missed' \in SUBSET Paths
  <2>1. \A S : backlog \in Seq(S) => \A i \in DOMAIN backlog : backlog[i] \in S
    BY ONLY ElementOfSeq, LenProperties
  <2>2. backlog \in Seq([path : ExtPaths, val : Vals])
    OBVIOUS
  <2>3. \A m \in [path : ExtPaths, val : Vals] : m.path \in Paths
    BY ONLY TRUE DEF ExtPaths
  <2>4. \A i \in DOMAIN backlog : backlog[i].path \in Paths
    BY ONLY <2>1, <2>2, <2>3
  <2> QED BY <2>4, CdbPathsArePaths
<1>2. backlog' \in Seq([path : ExtPaths, val : Vals])
  BY EmptySeq
<1>3. subscribed' \in BOOLEAN /\ listening' \in BOOLEAN
  OBVIOUS
<1>4. HandlerTypeOK(JsonVals, Notifications)'
  OBVIOUS
<1> QED BY <1>1, <1>2, <1>3, <1>4 DEF ChangerStates

\* The other steps of the changer leave the data alone.
LEMMA TypeOKChanger ==
    ASSUME TypeOK, MessagesWait, ChangerNext \/ ConnectFails \/ ChangerFails \/ CallbackFails
    PROVE  TypeOK'
<1>q. \A e \in Events : Append(read_queue, e) \in Seq(Events)
  BY AppendProperties DEF TypeOK, HandlerTypeOK
<1>e. ASSUME EndChanger, ChangerUnchanged,
             read_queue' = read_queue \/ read_queue' = Append(read_queue, "FINISH")
      PROVE  TypeOK'
  BY <1>q, <1>e, TypeOKEnd DEF TypeOK, HandlerTypeOK, Events
<1>1. CASE ConnectFails
  BY <1>1, <1>e DEF ConnectFails
<1>2. CASE ChangerFails
  BY <1>2, <1>e DEF ChangerFails
<1>3. CASE StopLoop
  BY <1>3, <1>e DEF StopLoop
<1> USE DEF TypeOK, HandlerTypeOK, ChangerUnchanged, ChangerStates, rpcVars, readVars,
            clientVars, dataVars, sourceVars
<1>4. CASE SubscribeMonitoredPaths
  <2>1. subscribed' \in BOOLEAN
    BY <1>4 DEF SubscribeMonitoredPaths
  <2> QED BY <1>4, <2>1 DEF SubscribeMonitoredPaths
<1>5. CASE StartExternalChangeServer
  <2>1. listening' \in BOOLEAN
    BY <1>5 DEF StartExternalChangeServer
  <2> QED BY <1>5, <2>1 DEF StartExternalChangeServer
<1>6. CASE Select
  BY <1>6 DEF Select, Readable
<1>7. CASE ReadSubscriptionSocket
  BY <1>7 DEF ReadSubscriptionSocket
<1>8. CASE ProcessSubscription
  <2>1. PICK p \in spoints :
          /\ spoints' = spoints \ {p}
          /\ change_db' = Append(change_db, ChangesOf(p, data[p]))
    BY <1>8 DEF ProcessSubscription
  <2>2. ChangesOf(p, data[p]) \in Notifications
    BY CdbPathsArePaths, ChangesType
  <2>3. change_db' \in Seq(Notifications)
    BY <2>1, <2>2, AppendProperties
  <2> QED BY <1>8, <2>1, <2>3 DEF ProcessSubscription
<1>9. CASE PutSendChanges
  <2>1. <<"SEND_CHANGES">> \in Seq(Events)
    BY DEF Events
  <2>2. read_queue' \in Seq(Events)
    BY <1>9, <2>1, ConcatProperties DEF PutSendChanges, EventPut
  <2> QED BY <1>9, <2>2 DEF PutSendChanges
<1>10. CASE SyncSubscriptionSocket
  BY <1>10 DEF SyncSubscriptionSocket
<1>11. CASE CallbackFails
  BY <1>11, CdbPathsArePaths DEF CallbackFails
<1>12. CASE NextRound
  BY <1>12 DEF NextRound
<1>13. CASE ProcessExternalChange
  <2>1. backlog # <<>>
    BY <1>13 DEF ProcessExternalChange, MessagesWait
  <2>2. /\ Head(backlog) \in [path : ExtPaths, val : Vals]
        /\ Tail(backlog) \in Seq([path : ExtPaths, val : Vals])
    BY <2>1, HeadTailProperties
  <2>3. ChangesOf(Head(backlog).path, Head(backlog).val) \in Notifications
    BY <2>2, ChangesType DEF ExtPaths
  <2>4. change_db' \in Seq(Notifications)
    BY <1>13, <2>3, AppendProperties DEF ProcessExternalChange
  <2> QED BY <1>13, <2>2, <2>4 DEF ProcessExternalChange
<1> QED
  BY <1>1, <1>2, <1>3, <1>4, <1>5, <1>6, <1>7, <1>8, <1>9, <1>10, <1>11, <1>12, <1>13
  DEF ChangerNext

\* Every step keeps the types.
LEMMA TypeOKNext == TypeOK /\ MessagesWait /\ [Next]_vars => TypeOK'
<1> SUFFICES ASSUME TypeOK, MessagesWait, [Next]_vars PROVE TypeOK'
  OBVIOUS
<1>1. CASE UNCHANGED vars
  BY <1>1 DEF vars, handlerVars, rpcVars, readVars, clientVars, adapterVars, dataVars,
              sourceVars, loopVars, TypeOK, HandlerTypeOK
<1>2. CASE Next
  BY <1>2, TypeOKCommon, TypeOKSources, TypeOKReader, TypeOKChanger
     DEF Next, CommonNext, FaultNext
<1> QED BY <1>1, <1>2

----------------------------------------------------------------------------
(* Events, notifications and messages.                                      *)

\* Step lemma for the conjuncts about control: one step for each action.
LEMMA ControlNext ==
    ASSUME TypeOK, HandlerOrder, Started, NoLostWakeup, PointsNotified, MessagesWait,
           [Next]_vars
    PROVE  HandlerOrder' /\ Started' /\ NoLostWakeup' /\ PointsNotified' /\ MessagesWait'
<1>t. /\ HandlerTypeOK(JsonVals, Notifications)
      /\ read_queue \in Seq(Events)
      /\ backlog \in Seq([path : ExtPaths, val : Vals])
  BY DEF TypeOK, HandlerTypeOK
<1>f. Holds(read_queue, "SEND_CHANGES") => Holds(Append(read_queue, "FINISH"), "SEND_CHANGES")
  BY <1>t, HoldsAppend DEF Events
<1> USE DEF HandlerOrder, Fresh, Started, NoLostWakeup, PointsNotified, MessagesWait,
            handlerVars, rpcVars, readVars, clientVars, adapterVars, dataVars, sourceVars,
            loopVars, ChangerUnchanged
<1>1. CASE CommonNext /\ UNCHANGED adapterVars
  <2>1. /\ HandlerOrder' /\ (Fresh' => Fresh)
        /\ Holds(read_queue, "SEND_CHANGES") =>
             Holds(read_queue', "SEND_CHANGES") \/ reader' = "changes"
        /\ reader = "changes" => reader' = "changes"
    BY <1>1, <1>t, HandlerSteps
  <2> QED BY <1>1, <2>1
<1>2. CASE Commit
  <2>1. /\ delivery = "none"
        /\ notification' = notification \/ delivery' = "unread"
        /\ delivery' \in {"none", "unread"}
        /\ UNCHANGED <<handlerVars, listening, backlog, loopVars, change_db>>
    BY <1>2 DEF Commit
  <2> QED BY <2>1
<1>3. CASE ProviderChange
  BY <1>3 DEF ProviderChange
<1>26. CASE ProviderSend
  <2>1. /\ UNCHANGED <<handlerVars, notification, delivery, listening, loopVars, change_db>>
        /\ UNCHANGED backlog \/ (listening /\ backlog' = Append(backlog, unsent))
    BY <1>26 DEF ProviderSend
  <2>2. Append(backlog, unsent) # <<>>
    BY <1>t
  <2> QED BY <2>1, <2>2
<1>4. CASE GetSample
  BY <1>4 DEF GetSample, SampleLeaf
<1>5. CASE SampleNothing
  BY <1>5 DEF SampleNothing
<1>6. CASE SampleFails
  BY <1>6 DEF SampleFails
<1>27. CASE PrefixDiffers
  BY <1>27 DEF PrefixDiffers, Fail
<1>7. CASE FinishSample
  BY <1>7 DEF FinishSample, SampleComplete, StartsMonitoring
<1>8. CASE GetNotifications
  BY <1>8 DEF GetNotifications
<1>9. CASE NothingToSend
  BY <1>9 DEF NothingToSend, Fail
<1>10. CASE StopMonitoring
  BY <1>10 DEF StopMonitoring
<1>11. CASE MonitoringStopped
  BY <1>11 DEF MonitoringStopped
<1>12. CASE ConnectFails
  BY <1>12 DEF ConnectFails, EndChanger
<1>13. CASE SubscribeMonitoredPaths
  BY <1>13 DEF SubscribeMonitoredPaths
<1>14. CASE StartExternalChangeServer
  BY <1>14 DEF StartExternalChangeServer
<1>15. CASE ChangerFails
  BY <1>15, <1>f DEF ChangerFails, EndChanger
<1>16. CASE Select
  BY <1>16 DEF Select, Readable
<1>17. CASE ProcessExternalChange
  <2>1. spoints = {} /\ changer' = "put_ext"
    BY <1>17 DEF ProcessExternalChange
  <2>2. /\ "ext" \notin ready' /\ listening
        /\ UNCHANGED <<mode, rpcVars, readVars, read_queue, notification, delivery,
                       listening, spoints>>
    BY <1>17 DEF ProcessExternalChange
  <2> QED BY <1>17, <2>1, <2>2 DEF ProcessExternalChange
<1>18. CASE ReadSubscriptionSocket
  BY <1>18 DEF ReadSubscriptionSocket
<1>19. CASE ProcessSubscription
  BY <1>19 DEF ProcessSubscription
<1>20. CASE PutSendChanges
  <2>1. Holds(read_queue', "SEND_CHANGES")
    <3>1. /\ read_queue' = read_queue \o <<"SEND_CHANGES">>
          /\ Len(read_queue) \in Nat
      BY <1>20, <1>t DEF PutSendChanges, EventPut
    <3>2. /\ Len(read_queue) + 1 \in DOMAIN read_queue'
          /\ read_queue'[Len(read_queue) + 1] = "SEND_CHANGES"
      BY <3>1, <1>t
    <3> QED BY <3>2 DEF Holds
  <2> QED BY <1>20, <2>1 DEF PutSendChanges
<1>21. CASE SyncSubscriptionSocket
  BY <1>21 DEF SyncSubscriptionSocket, PointsProcessed
<1>22. CASE CallbackFails
  BY <1>22 DEF CallbackFails
<1>23. CASE StopLoop
  BY <1>23 DEF StopLoop, EndChanger
<1>24. CASE NextRound
  BY <1>24 DEF NextRound
<1>25. CASE UNCHANGED vars
  BY <1>25 DEF vars
<1> QED
  BY <1>1, <1>2, <1>3, <1>4, <1>5, <1>6, <1>7, <1>8, <1>9, <1>10, <1>11, <1>12, <1>13,
     <1>14, <1>15, <1>16, <1>17, <1>18, <1>19, <1>20, <1>21, <1>22, <1>23, <1>24, <1>25, <1>26,
     <1>27
  DEF Next, CommonNext, ReaderNext, ChangerNext, FaultNext
----------------------------------------------------------------------------
(* The client catches up.                                                   *)

\* The steps that touch what ClientCatchesUp is about.
LEMMA DataFrame ==
    ASSUME TypeOK, HandlerOrder, [Next]_vars
    PROVE  \/ /\ Told
              /\ UNCHANGED <<data, missed, change_db, notification, delivery, spoints, unsent,
                             backlog>>
           \/ Commit \/ ProviderChange \/ ProviderSend \/ GetSample \/ SampleFails
           \/ GetNotifications
           \/ EndChanger /\ UNCHANGED <<view, response>>
           \/ ProcessExternalChange \/ ReadSubscriptionSocket \/ ProcessSubscription
           \/ SyncSubscriptionSocket \/ CallbackFails
<1> USE DEF Told, readVars, adapterVars, dataVars, sourceVars, loopVars, ChangerUnchanged
<1>1. CASE CommonNext /\ UNCHANGED adapterVars
  BY <1>1, HandlerSteps DEF TypeOK
<1>2. CASE SampleNothing
  BY <1>2 DEF SampleNothing
<1>3. CASE PrefixDiffers
  BY <1>3 DEF PrefixDiffers, Fail
<1>4. CASE FinishSample
  BY <1>4 DEF FinishSample, SampleComplete
<1>5. CASE NothingToSend
  BY <1>5 DEF NothingToSend, Fail
<1>6. CASE StopMonitoring
  BY <1>6 DEF StopMonitoring
<1>7. CASE MonitoringStopped
  BY <1>7 DEF MonitoringStopped
<1>8. CASE ConnectFails \/ ChangerFails \/ StopLoop
  BY <1>8 DEF ConnectFails, ChangerFails, StopLoop
<1>9. CASE SubscribeMonitoredPaths
  BY <1>9 DEF SubscribeMonitoredPaths
<1>10. CASE StartExternalChangeServer
  BY <1>10 DEF StartExternalChangeServer
<1>11. CASE Select
  BY <1>11 DEF Select
<1>12. CASE PutSendChanges
  BY <1>12 DEF PutSendChanges
<1>13. CASE NextRound
  BY <1>13 DEF NextRound
<1>14. CASE UNCHANGED vars
  BY <1>14 DEF vars, handlerVars
<1> QED
  BY <1>1, <1>2, <1>3, <1>4, <1>5, <1>6, <1>7, <1>8, <1>9, <1>10, <1>11, <1>12, <1>13, <1>14
  DEF Next, CommonNext, ReaderNext, ChangerNext, FaultNext

\* Step lemma for MessagesCurrent.
LEMMA MessagesCurrentNext ==
    ASSUME TypeOK, HandlerOrder, MessagesWait, MessagesCurrent, [Next]_vars
    PROVE  MessagesCurrent'
<1> USE DEF MessagesCurrent, Newest
<1>t. /\ backlog \in Seq([path : ExtPaths, val : Vals])
      /\ data \in [Paths -> Vals \cup {None}]
      /\ \A i \in DOMAIN backlog : backlog[i].path \in ExtPaths
      /\ unsent # NoUpdates => unsent \in [path : ExtPaths, val : Vals]
  <2>1. backlog \in Seq([path : ExtPaths, val : Vals])
    BY DEF TypeOK
  <2>2. \A i \in DOMAIN backlog : backlog[i] \in [path : ExtPaths, val : Vals]
    BY ONLY <2>1, ElementOfSeq, LenProperties
  <2> QED BY <2>1, <2>2 DEF TypeOK
<1>n. NoUpdates.path \notin ExtPaths
  BY NoneIsNoPath DEF NoUpdates, Update, ExtPaths
<1>1. CASE UNCHANGED <<data, unsent, backlog>>
  BY <1>1
<1>2. CASE Commit
  <2>1. backlog' = backlog /\ unsent' = unsent
    BY <1>2 DEF Commit
  <2>2. \A p \in ExtPaths : data'[p] = data[p]
    <3>1. PICK S \in (SUBSET CdbPaths) \ {{}}, new \in [CdbPaths -> Vals \cup {None}] :
            data' = [p \in Paths |-> IF p \in S THEN new[p] ELSE data[p]]
      BY <1>2 DEF Commit
    <3> QED BY <3>1 DEF ExtPaths
  <2> QED BY <1>t, <2>1, <2>2
<1>3. CASE ProviderChange
  <2>1. PICK p \in ExtPaths, v \in Vals :
          data' = [data EXCEPT ![p] = v] /\ unsent' = Update(p, v)
    BY <1>3 DEF ProviderChange
  <2>2. backlog' = backlog /\ unsent = NoUpdates
    BY <1>3 DEF ProviderChange
  <2>3. unsent'.path = p /\ unsent'.val = v
    BY <2>1 DEF Update
  <2>4. data'[p] = v /\ \A q \in ExtPaths : q # p => data'[q] = data[q]
    BY <1>t, <2>1 DEF ExtPaths
  <2> QED BY <1>t, <1>n, <2>2, <2>3, <2>4
<1>7. CASE ProviderSend
  <2>1. /\ unsent \in [path : ExtPaths, val : Vals] /\ unsent.val = data[unsent.path]
        /\ unsent' = NoUpdates /\ data' = data
        /\ \/ listening /\ backlog' = Append(backlog, unsent)
           \/ ~listening /\ backlog' = backlog
    BY <1>t, <1>7 DEF ProviderSend
  <2>2. CASE backlog = <<>> /\ backlog' = backlog
    <3>1. DOMAIN backlog' = {}
      BY ONLY <2>2
    <3> QED BY <2>1, <3>1
  <2>3. CASE backlog' = Append(backlog, unsent)
    <3>2. /\ DOMAIN backlog' = 1..(Len(backlog) + 1) /\ Len(backlog) \in Nat
          /\ DOMAIN backlog = 1..Len(backlog)
          /\ \A i \in 1..Len(backlog) : backlog'[i] = backlog[i]
          /\ backlog'[Len(backlog) + 1] = unsent
      BY <1>t, <2>1, <2>3, AppendProperties, LenProperties
    <3> SUFFICES ASSUME NEW i \in DOMAIN backlog', Newest(backlog', i)
                 PROVE  backlog'[i].val = data[backlog'[i].path]
      BY <2>1
    <3>4. CASE i = Len(backlog) + 1
      BY <2>1, <3>2, <3>4
    <3>5. CASE i # Len(backlog) + 1
      <4>1. i \in DOMAIN backlog /\ backlog'[i] = backlog[i]
        BY ONLY i \in DOMAIN backlog', <3>2, <3>5
      <4>2. backlog[i].path # unsent.path /\ Newest(backlog, i)
        BY ONLY Newest(backlog', i), <3>2, <4>1 DEF Newest
      <4> QED BY <4>1, <4>2
    <3> QED BY <3>4, <3>5
  <2> QED BY <2>1, <2>2, <2>3 DEF MessagesWait
<1>4. CASE EndChanger
  BY <1>4 DEF EndChanger
<1>5. CASE ProcessExternalChange
  <2>1. /\ backlog # <<>> /\ backlog' = Tail(backlog)
        /\ data' = data /\ unsent' = unsent
    BY <1>5 DEF ProcessExternalChange, MessagesWait, dataVars
  <2>2. /\ DOMAIN backlog' = 1..(Len(backlog) - 1) /\ Len(backlog) \in Nat \ {0}
        /\ DOMAIN backlog = 1..Len(backlog)
        /\ \A i \in DOMAIN backlog' : backlog'[i] = backlog[i + 1]
    BY <1>t, <2>1, LenProperties
  <2> SUFFICES ASSUME NEW i \in DOMAIN backlog', Newest(backlog', i),
                      backlog'[i].path # unsent.path
               PROVE  backlog'[i].val = data[backlog'[i].path]
    BY <2>1
  <2>3. i + 1 \in DOMAIN backlog
    BY <2>2
  <2>4. Newest(backlog, i + 1)
    <3> SUFFICES ASSUME NEW j \in DOMAIN backlog, j > i + 1
                 PROVE  backlog[j].path # backlog[i + 1].path
      OBVIOUS
    <3>1. j - 1 \in DOMAIN backlog' /\ j - 1 > i /\ backlog'[j - 1] = backlog[j]
      BY <2>2
    <3> QED BY <2>2, <3>1
  <2> QED BY <2>1, <2>2, <2>3, <2>4
<1>6. ASSUME \/ GetSample \/ SampleFails \/ GetNotifications \/ ReadSubscriptionSocket
             \/ ProcessSubscription \/ SyncSubscriptionSocket \/ CallbackFails
      PROVE  UNCHANGED <<data, unsent, backlog>>
  BY <1>6 DEF GetSample, SampleFails, GetNotifications, ReadSubscriptionSocket,
              ProcessSubscription, SyncSubscriptionSocket, CallbackFails, dataVars, sourceVars
<1> QED BY <1>1, <1>2, <1>3, <1>4, <1>5, <1>6, <1>7, DataFrame

\* What the client ends up with for a leaf when one more change is recorded.
LEMMA UpcomingAppend ==
    ASSUME TypeOK, NEW p \in Paths, NEW q \in Paths, NEW v \in Vals \cup {None},
           change_db' = Append(change_db, ChangesOf(q, v)), UNCHANGED <<view, response>>
    PROVE  /\ q # p => Upcoming(p)' = Upcoming(p)
           /\ q = p /\ v # None => Upcoming(p)' = Json(v)
<1>1. PICK u : u = ChangesOf(q, v)
  OBVIOUS
<1>2. u \in Notifications
  BY <1>1, ChangesType
<1>3. /\ q # p => u.path # p
      /\ q = p /\ v # None => u.path = p /\ u.val = Json(v)
  BY <1>1, NoneIsNoPath DEF ChangesOf, NoUpdates, Update
<1>4. PICK told : told = Apply(response, view)
  OBVIOUS
<1>5. change_db \in Seq(Notifications)
  BY DEF TypeOK
<1>6. Apply(Append(change_db, u), told)[p] =
           IF u.path = p THEN u.val ELSE Apply(change_db, told)[p]
  <2>1. PICK longer : longer = Append(change_db, u)
    OBVIOUS
  <2>2. Extended(Notifications, longer, change_db, u)
    BY <1>2, <1>5, <2>1, AppendExtends
  <2>3. Apply(longer, told)[p] = IF u.path = p THEN u.val ELSE Apply(change_db, told)[p]
    BY ONLY p \in Paths, <1>2, <1>5, <2>2, ApplyExtended
  <2> QED BY ONLY <2>1, <2>3
<1> QED BY <1>1, <1>3, <1>4, <1>6 DEF Upcoming

\* The first message is the newest one about its leaf if no other one mentions it.
LEMMA HeadOrTail ==
    ASSUME NEW S, NEW messages \in Seq(S), messages # <<>>, NEW p
    PROVE  /\ Mentions(messages, p) => Head(messages).path = p \/ Mentions(Tail(messages), p)
           /\ Head(messages).path = p /\ ~Mentions(Tail(messages), p) => Newest(messages, 1)
<1>1. /\ DOMAIN messages = 1..Len(messages) /\ Len(messages) \in Nat \ {0}
      /\ DOMAIN Tail(messages) = 1..(Len(messages) - 1)
      /\ Head(messages) = messages[1]
      /\ \A i \in DOMAIN Tail(messages) : Tail(messages)[i] = messages[i + 1]
  BY LenProperties
<1>2. \A j \in DOMAIN messages : j > 1 =>
        j - 1 \in DOMAIN Tail(messages) /\ Tail(messages)[j - 1] = messages[j]
  BY <1>1
<1>3. \A j \in DOMAIN messages : j > 1 /\ messages[j].path = p => Mentions(Tail(messages), p)
  BY <1>2 DEF Mentions
<1>4. ASSUME Mentions(messages, p), Head(messages).path # p PROVE Mentions(Tail(messages), p)
  <2>1. PICK j \in DOMAIN messages : messages[j].path = p
    BY <1>4 DEF Mentions
  <2> QED BY <1>1, <1>3, <1>4, <2>1
<1> QED BY <1>1, <1>3, <1>4 DEF Newest

\* Only a sample comes to a leaf.
LEMMA SampledBefore ==
    ASSUME HandlerOrder, [Next]_vars, NEW p \in Paths, Sampled(p)'
    PROVE  Sampled(p) \/ GetSample \/ SampleFails \/ data[p] = None
<1> USE DEF Sampled, HandlerOrder, ReaderEnded, handlerVars, rpcVars, readVars, clientVars
<1>1. CASE CommonNext
  <2>1. CASE ClientNext \/ RpcDone \/ RequesterNext
    BY <2>1 DEF ClientNext, ClientRequest, ClientHalfClose, ClientCancel, RpcDone,
                RequesterNext, ReadSubRequest, SubRequestsEnd
  <2>2. CASE AcceptRequest \/ RefuseRequest \/ MakeHandler
    BY <2>2 DEF AcceptRequest, RefuseRequest, MakeHandler
  <2>3. CASE YieldSample \/ YieldSync \/ YieldChanges
    BY <2>3 DEF YieldSample, YieldSync, YieldChanges
  <2>4. CASE GetEvent \/ JoinRequests
    BY <2>4 DEF GetEvent, JoinRequests
  <2> QED BY <1>1, <2>1, <2>2, <2>3, <2>4 DEF CommonNext, ReaderCommonNext
<1>2. CASE SampleNothing
  BY <1>2 DEF SampleNothing
<1>3. CASE FinishSample
  BY <1>3 DEF FinishSample, SampleComplete
<1>4. CASE GetNotifications
  BY <1>4 DEF GetNotifications
<1>5. CASE NothingToSend \/ PrefixDiffers
  BY <1>5 DEF NothingToSend, PrefixDiffers, Fail
<1>6. CASE StopMonitoring \/ MonitoringStopped
  BY <1>6 DEF StopMonitoring, MonitoringStopped
<1>7. CASE Commit \/ ProviderChange \/ ProviderSend
  BY <1>7 DEF Commit, ProviderChange, ProviderSend
<1>8. CASE ChangerNext \/ ConnectFails \/ ChangerFails \/ CallbackFails
  <2>1. UNCHANGED readVars
    BY <1>8 DEF ChangerNext, ConnectFails, ChangerFails, CallbackFails, ChangerUnchanged,
                SubscribeMonitoredPaths, StartExternalChangeServer, Select,
                ProcessExternalChange, ReadSubscriptionSocket, ProcessSubscription,
                PutSendChanges, SyncSubscriptionSocket, StopLoop, NextRound
  <2> QED BY <2>1
<1>9. CASE UNCHANGED vars
  BY <1>9 DEF vars
<1> QED
  BY <1>1, <1>2, <1>3, <1>4, <1>5, <1>6, <1>7, <1>8, <1>9
  DEF Next, CommonNext, ReaderNext, FaultNext

\* Step lemma for ClientCatchesUp, for one leaf.
LEMMA CatchUpLeaf ==
    ASSUME TypeOK, HandlerOrder, Started, PointsNotified, MessagesWait, MessagesCurrent,
           [Next]_vars,
           NEW p \in Paths, p \notin missed', Sampled(p)', ~Announced(p)', data'[p] # None,
           p \notin missed /\ Sampled(p) /\ ~Announced(p) /\ data[p] # None =>
             Upcoming(p) = Json(data[p])
    PROVE  Upcoming(p)' = Json(data'[p])
<1>s. Sampled(p) \/ GetSample \/ SampleFails \/ data[p] = None
  BY SampledBefore
<1>t. /\ response \in Seq(Notifications) /\ change_db \in Seq(Notifications)
      /\ data \in [Paths -> Vals \cup {None}]
      /\ backlog \in Seq([path : ExtPaths, val : Vals])
  BY DEF TypeOK, HandlerTypeOK
<1>a. \A us, told : Apply(us, told)[p] =
        IF Mentions(us, p) THEN us[Last(us, p)].val ELSE told[p]
  BY DEF Apply
<1>4. CASE GetSample
  <2>1. PICK q \in unsampled :
          /\ data[q] # None /\ SampleLeaf(q, Json(data[q]))
          /\ missed' = missed \ {r \in {q} : ~Mentions(change_db, r)}
    BY <1>4 DEF GetSample
  <2>2. PICK u : u = Update(q, Json(data[q]))
    OBVIOUS
  <2>3. /\ response' = Append(response, u) /\ view' = view
        /\ UNCHANGED <<data, change_db, notification, delivery, spoints, unsent, backlog>>
    BY <1>4, <2>1, <2>2 DEF GetSample, SampleLeaf, sourceVars, loopVars
  <2>4. u \in Notifications /\ u.path = q /\ u.val = Json(data[q])
    BY <1>t, <2>1, <2>2 DEF Update, Notifications, JsonVals, TypeOK, HandlerTypeOK
  <2>5. /\ Mentions(response', p) <=> Mentions(response, p) \/ q = p
        /\ Apply(response', view)[p] = IF q = p THEN Json(data[q])
                                                ELSE Apply(response, view)[p]
    <3>1. /\ Mentions(Append(response, u), p) <=> Mentions(response, p) \/ u.path = p
          /\ Apply(Append(response, u), view)[p] =
               IF u.path = p THEN u.val ELSE Apply(response, view)[p]
      <4>1. response \in Seq(Notifications) /\ u \in Notifications
        BY <1>t, <2>4
      <4> QED BY ONLY p \in Paths, <4>1, ApplyAppend
    <3> QED BY ONLY <2>3, <2>4, <3>1
  <2>6. ~Announced(p)
    BY <2>3 DEF Announced
  <2>7. CASE Mentions(change_db, p)
    <3>1. Sampled(p)
      <4>1. change_db # <<>>
        BY <2>7, ApplyEmpty
      <4> QED BY <2>1, <4>1 DEF SampleLeaf, Started, Fresh, Sampled, ReaderEnded
    <3>2. p \notin missed
      BY <2>1, <2>7
    <3>3. Upcoming(p)' = Upcoming(p)
      BY <1>a, <2>3, <2>7 DEF Upcoming
    <3> QED BY <2>3, <2>6, <3>1, <3>2, <3>3
  <2>8. CASE ~Mentions(change_db, p)
    <3>1. /\ Upcoming(p)' = Apply(response', view')[p]
          /\ Upcoming(p) = Apply(response, view)[p]
      BY <1>a, <2>3, <2>8 DEF Upcoming
    <3>2. CASE q = p
      BY <2>3, <2>5, <3>1, <3>2
    <3>3. CASE q # p
      <4>1. Sampled(p) /\ p \notin missed
        BY <1>4, <2>1, <3>3 DEF GetSample, SampleLeaf, Sampled, ReaderEnded
      <4> QED BY <2>3, <2>5, <2>6, <3>1, <3>3, <4>1
    <3> QED BY <3>2, <3>3
  <2> QED BY <2>7, <2>8
<1>12. CASE SampleFails
  <2>1. PICK q \in unsampled :
          /\ unsampled' = unsampled \ {q}
          /\ missed' = missed \cup {r \in {q} : first_sample}
    BY <1>12 DEF SampleFails
  <2>2. /\ UNCHANGED <<reader, first_sample, view, response>>
        /\ UNCHANGED <<data, change_db, notification, delivery, spoints, unsent, backlog>>
    BY <1>12 DEF SampleFails, sourceVars, loopVars
  <2>3. p \notin missed /\ Sampled(p)
    BY <2>1, <2>2 DEF Sampled, ReaderEnded
  <2>4. ~Announced(p) /\ Upcoming(p)' = Upcoming(p)
    BY <2>2 DEF Announced, Upcoming
  <2> QED BY <2>2, <2>3, <2>4
<1>u. SUFFICES ASSUME ~GetSample, ~SampleFails PROVE Upcoming(p)' = Json(data'[p])
  BY <1>4, <1>12
<1>v. Sampled(p) \/ data[p] = None
  BY <1>s, <1>u
<1>1. CASE /\ Told
           /\ UNCHANGED <<data, missed, change_db, notification, delivery, spoints, unsent,
                          backlog>>
  <2>1. Apply(response', view')[p] = Apply(response, view)[p]
    BY <1>1, ApplyTold
  <2>2. Upcoming(p)' = Upcoming(p)
    <3>1. PICK told, new : told = Apply(response, view) /\ new = Apply(response', view')
      OBVIOUS
    <3>2. Upcoming(p) = Apply(change_db, told)[p] /\ Upcoming(p)' = Apply(change_db, new)[p]
      BY <1>1, <3>1 DEF Upcoming
    <3>3. new[p] = told[p]
      BY ONLY <2>1, <3>1
    <3> QED BY ONLY <1>a, <3>2, <3>3
  <2> QED BY <1>v, <1>1, <2>2 DEF Announced
<1>2. CASE Commit
  <2>1. PICK S \in (SUBSET CdbPaths) \ {{}}, new \in [CdbPaths -> Vals \cup {None}] :
          /\ data' = [q \in Paths |-> IF q \in S THEN new[q] ELSE data[q]]
          /\ \/ /\ notification' = S /\ delivery' = "unread" /\ missed' = missed \ S
             \/ /\ missed' = missed \cup {q \in S : Sampled(q)}
                /\ UNCHANGED <<notification, delivery>>
    BY <1>2 DEF Commit
  <2>2. /\ delivery = "none"
        /\ UNCHANGED <<readVars, change_db, spoints, unsent, backlog>>
    BY <1>2 DEF Commit, handlerVars, loopVars
  <2>3. Sampled(p) /\ Upcoming(p)' = Upcoming(p)
    BY <2>2 DEF Sampled, ReaderEnded, Upcoming, readVars
  <2>4. p \notin S
    BY <2>1, <2>3 DEF Announced
  <2>5. p \notin missed /\ data'[p] = data[p]
    BY <2>1, <2>4
  <2>6. ~Announced(p)
    BY <2>2 DEF Announced
  <2> QED BY <2>3, <2>5, <2>6
<1>3. CASE ProviderChange
  <2>1. PICK q \in ExtPaths, v \in Vals :
          data' = [data EXCEPT ![q] = v] /\ unsent' = Update(q, v)
    BY <1>3 DEF ProviderChange
  <2>2. /\ UNCHANGED <<missed, readVars, change_db, spoints, notification, delivery, backlog>>
        /\ unsent = NoUpdates
    BY <1>3 DEF ProviderChange, handlerVars, loopVars
  <2>3. Sampled(p) /\ Upcoming(p)' = Upcoming(p)
    BY <2>2 DEF Sampled, ReaderEnded, Upcoming, readVars
  <2>4. p # q
    BY <2>1 DEF Announced, Update
  <2>5. data'[p] = data[p]
    BY <1>t, <2>1, <2>4
  <2>6. ~Announced(p)
    BY <2>2, NoneIsNoPath DEF Announced, NoUpdates, Update
  <2> QED BY <2>2, <2>3, <2>5, <2>6
<1>13. CASE ProviderSend
  <2>1. /\ unsent \in [path : ExtPaths, val : Vals]
        /\ \/ backlog' = Append(backlog, unsent) /\ missed' = missed \ {unsent.path}
           \/ backlog' = backlog /\ missed' = missed \cup {q \in {unsent.path} : Sampled(q)}
    BY <1>13 DEF ProviderSend, TypeOK
  <2>2. UNCHANGED <<data, readVars, change_db, spoints, notification, delivery>>
    BY <1>13 DEF ProviderSend, handlerVars, loopVars
  <2>3. Sampled(p) /\ Upcoming(p)' = Upcoming(p)
    BY <2>2 DEF Sampled, ReaderEnded, Upcoming, readVars
  <2>4. Mentions(Append(backlog, unsent), p) <=> Mentions(backlog, p) \/ unsent.path = p
    <3>1. PICK S : backlog \in Seq(S) /\ unsent \in S
      BY <1>t, <2>1
    <3> QED BY ONLY <3>1, MentionsAppend
  <2>5. p # unsent.path
    BY <2>1, <2>3, <2>4 DEF Announced
  <2>6. p \notin missed /\ ~Announced(p)
    BY <2>1, <2>2, <2>4, <2>5 DEF Announced
  <2> QED BY <2>2, <2>3, <2>6
<1>5. CASE GetNotifications
  <2>1. /\ response = <<>> /\ response' = change_db /\ change_db' = <<>> /\ view' = view
        /\ UNCHANGED <<data, missed, notification, delivery, spoints, unsent, backlog>>
    BY <1>5 DEF GetNotifications, Taken, HandlerOrder, dataVars, sourceVars, loopVars
  <2>2. \A told : ~Mentions(<<>>, p) /\ Apply(<<>>, told)[p] = told[p]
    BY ApplyEmpty
  <2>3. Upcoming(p)' = Apply(change_db, view)[p]
    BY <2>1, <2>2 DEF Upcoming
  <2>4. Upcoming(p) = Apply(change_db, view)[p]
    <3>1. PICK told : told = Apply(response, view)
      OBVIOUS
    <3>2. told[p] = view[p] /\ Upcoming(p) = Apply(change_db, told)[p]
      BY <2>1, <2>2, <3>1 DEF Upcoming
    <3> QED BY ONLY <1>a, <3>2
  <2>5. ~Announced(p)
    BY <2>1 DEF Announced
  <2> QED BY <1>v, <2>1, <2>3, <2>4, <2>5
<1>6. CASE EndChanger /\ UNCHANGED <<view, response>>
  <2>1. /\ missed' = missed \cup notification \cup {backlog[i].path : i \in DOMAIN backlog}
        /\ UNCHANGED <<view, response, data, change_db, unsent>>
    BY <1>6 DEF EndChanger
  <2>2. p \notin missed /\ p \notin notification /\ ~Mentions(backlog, p)
    BY <2>1 DEF Mentions
  <2>3. ~Announced(p)
    BY <2>1, <2>2 DEF Announced, PointsNotified
  <2>4. Upcoming(p)' = Upcoming(p)
    BY <2>1 DEF Upcoming
  <2> QED BY <1>v, <2>1, <2>2, <2>3, <2>4
<1>7. CASE ProcessExternalChange
  <2>1. /\ backlog # <<>> /\ backlog' = Tail(backlog)
        /\ UNCHANGED <<data, missed, view, response, notification, delivery, spoints, unsent>>
    BY <1>7 DEF ProcessExternalChange, MessagesWait, ChangerUnchanged, readVars, dataVars
  <2>2. PICK q \in ExtPaths, v \in Vals : q = Head(backlog).path /\ v = Head(backlog).val
    <3>1. Head(backlog) \in [path : ExtPaths, val : Vals]
      BY ONLY <1>t, <2>1, HeadTailProperties
    <3> QED BY <3>1
  <2>3. change_db' = Append(change_db, ChangesOf(q, v))
    BY <1>7, <2>2 DEF ProcessExternalChange
  <2>4. /\ q # p => Upcoming(p)' = Upcoming(p)
        /\ q = p /\ v # None => Upcoming(p)' = Json(v)
    BY <2>1, <2>3, UpcomingAppend DEF ExtPaths
  <2>5. ~Mentions(Tail(backlog), p) /\ p \notin spoints
        /\ ~(p \in notification /\ delivery = "unread") /\ unsent.path # p
    BY <2>1 DEF Announced
  <2>6. CASE q = p
    <3>1. Newest(backlog, 1)
      BY ONLY <1>t, <2>1, <2>2, <2>5, <2>6, HeadOrTail
    <3>2. 1 \in DOMAIN backlog /\ backlog[1] = Head(backlog)
      BY ONLY <1>t, <2>1
    <3>3. v = data[p]
      BY <2>2, <2>5, <2>6, <3>1, <3>2 DEF MessagesCurrent
    <3> QED BY <2>1, <2>4, <2>6, <3>3
  <2>7. CASE q # p
    <3>1. ~Mentions(backlog, p)
      BY ONLY <1>t, <2>1, <2>2, <2>5, <2>7, HeadOrTail
    <3>2. ~Announced(p)
      BY <2>5, <3>1 DEF Announced
    <3> QED BY <1>v, <2>1, <2>4, <2>7, <3>2
  <2> QED BY <2>6, <2>7
<1>8. CASE ReadSubscriptionSocket
  <2>1. /\ spoints' = notification
        /\ UNCHANGED <<data, missed, view, response, change_db, notification, unsent, backlog>>
    BY <1>8 DEF ReadSubscriptionSocket, ChangerUnchanged, readVars, dataVars
  <2>2. ~Announced(p)
    BY <2>1 DEF Announced, PointsNotified
  <2>3. Upcoming(p)' = Upcoming(p)
    BY <2>1 DEF Upcoming
  <2> QED BY <1>v, <2>1, <2>2, <2>3
<1>9. CASE ProcessSubscription
  <2>1. PICK q \in spoints :
          /\ spoints' = spoints \ {q}
          /\ change_db' = Append(change_db, ChangesOf(q, data[q]))
    BY <1>9 DEF ProcessSubscription
  <2>2. UNCHANGED <<data, missed, view, response, notification, delivery, unsent, backlog>>
    BY <1>9 DEF ProcessSubscription, ChangerUnchanged, readVars, dataVars, sourceVars
  <2>3. q \in Paths
    BY CdbPathsArePaths DEF TypeOK
  <2>4. /\ q # p => Upcoming(p)' = Upcoming(p)
        /\ q = p /\ data[q] # None => Upcoming(p)' = Json(data[q])
    BY <1>t, <2>1, <2>2, <2>3, UpcomingAppend
  <2>5. q # p => ~Announced(p)
    BY <2>1, <2>2 DEF Announced
  <2> QED BY <1>v, <2>2, <2>4, <2>5
<1>10. CASE SyncSubscriptionSocket
  <2>1. /\ spoints = {} /\ delivery = "read"
        /\ UNCHANGED <<data, missed, view, response, change_db, unsent, backlog>>
    BY <1>10 DEF SyncSubscriptionSocket, PointsProcessed, PointsNotified, ChangerUnchanged,
                 readVars, dataVars
  <2>2. ~Announced(p) /\ Upcoming(p)' = Upcoming(p)
    BY <2>1 DEF Announced, Upcoming
  <2> QED BY <1>v, <2>1, <2>2
<1>11. CASE CallbackFails
  <2>1. /\ missed' = missed \cup spoints
        /\ UNCHANGED <<data, view, response, change_db, notification, delivery, unsent, backlog>>
    BY <1>11 DEF CallbackFails, ChangerUnchanged, readVars, sourceVars
  <2>2. ~Announced(p) /\ Upcoming(p)' = Upcoming(p)
    BY <2>1 DEF Announced, Upcoming
  <2> QED BY <1>v, <2>1, <2>2
<1> QED
  BY <1>u, <1>1, <1>2, <1>3, <1>5, <1>6, <1>7, <1>8, <1>9, <1>10, <1>11, <1>13, DataFrame

\* Every step keeps what a client will know.
LEMMA CatchUpNext ==
    ASSUME TypeOK, HandlerOrder, Started, PointsNotified, MessagesWait, MessagesCurrent,
           ClientCatchesUp, [Next]_vars
    PROVE  ClientCatchesUp'
<1> SUFFICES ASSUME NEW p \in Paths, p \notin missed', Sampled(p)', ~Announced(p)',
                    data'[p] # None
             PROVE  Upcoming(p)' = Json(data'[p])
  BY DEF ClientCatchesUp
<1>1. p \notin missed /\ Sampled(p) /\ ~Announced(p) /\ data[p] # None =>
        Upcoming(p) = Json(data[p])
  BY DEF ClientCatchesUp
<1> QED BY <1>1, CatchUpLeaf

----------------------------------------------------------------------------
(* The theorems.                                                            *)

\* The invariant holds at first,
LEMMA IndInvInit == Init => IndInv
<1> SUFFICES ASSUME Init PROVE IndInv
  OBVIOUS
<1>1. TypeOK
  BY TypeOKInit
<1>2. HandlerOrder /\ Started /\ NoLostWakeup /\ PointsNotified /\ MessagesWait /\ MessagesCurrent
  BY DEF Init, HandlerInit, HandlerOrder, Fresh, Started, NoLostWakeup, PointsNotified,
         MessagesWait, MessagesCurrent
<1>3. ClientCatchesUp
  <2>1. \A p \in Paths : ~Sampled(p)
    BY DEF Init, HandlerInit, Sampled
  <2> QED BY <2>1 DEF ClientCatchesUp
<1> QED BY <1>1, <1>2, <1>3 DEF IndInv

\* every step keeps it,
LEMMA IndInvNext == IndInv /\ [Next]_vars => IndInv'
  BY TypeOKNext, ControlNext, MessagesCurrentNext, CatchUpNext DEF IndInv

\* and so it always holds.
LEMMA IndInvAlways == Spec => []IndInv
<1> QED BY IndInvInit, IndInvNext, PTL DEF Spec

\* Type correctness: in every reachable state of a Subscribe RPC on the ConfD API
\* adapter the variables have the types the code gives them; in particular a message
\* is accepted only when one is waiting (process_external_change).
THEOREM TypeCorrect == Spec => []TypeOK
<1>1. IndInv => TypeOK
  BY DEF IndInv
<1> QED BY <1>1, IndInvAlways, PTL

\* Recorded changes always have an event on its way that makes read() take them
\* (process_subscription, process_external_change, put_event).
THEOREM NoWakeupIsLost == Spec => []NoLostWakeup
<1>1. IndInv => NoLostWakeup
  BY DEF IndInv
<1> QED BY <1>1, IndInvAlways, PTL

\* A client that takes all its responses ends up with the value of every leaf that
\* exists in CDB or at the provider, whatever the interleaving of samples, commits,
\* messages, failures and collections: no change is lost, or undone by an older one,
\* but for leaves that could not be read at first and changes that nobody listened
\* for, which the next sample makes up for (sample, get_updates_with_maapi_save,
\* socket_loop, _get_subscription_notifications).
THEOREM ClientAlwaysCatchesUp == Spec => []ClientCatchesUp
<1>1. IndInv => ClientCatchesUp
  BY DEF IndInv
<1> QED BY <1>1, IndInvAlways, PTL
===============================================================================
