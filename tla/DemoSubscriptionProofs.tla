------------------------ MODULE DemoSubscriptionProofs ------------------------
(****************************************************************************)
(* Theorems about DemoSubscription, for any number of leaves, values,       *)
(* polls, changes, events and writes by other RPCs.                         *)
(****************************************************************************)
EXTENDS DemoSubscription, SubscriptionHandlerProofs

----------------------------------------------------------------------------
(* Type correctness.                                                        *)

\* The updates of a response.
Updates == [path : Paths, val : Values]

\* Most steps are first-order: Zenon is tried first, then the SMT solver.
USE Zenon, SMT

\* The types in the initial states.
LEMMA TypeOKInit == Init => TypeOK
<1> SUFFICES ASSUME Init PROVE TypeOK
  OBVIOUS
<1>1. HandlerTypeOK(Values, Updates)
  BY HandlerTypesInit DEF Init
<1>2. /\ change_db \in Seq([path : TypePaths, val : Vals])
      /\ change_event_queue \in Seq(ChangeEvents)
  BY EmptySeq DEF Init
<1>3. send \in BOOLEAN
  BY Zenon DEF Init
<1>4. /\ sets \in 0..MaxSets /\ add_count \in 0..1
      /\ set_db \in [Paths -> Vals \cup {None}]
  BY BoundsNat DEF Init
<1> QED BY <1>1, <1>2, <1>3, <1>4 DEF Init, TypeOK, Updates, ChangerStates

\* A sampled value is one that an update can have.
LEMMA SampleValueType ==
    ASSUME TypeOK, NEW p \in Paths
    PROVE  SampleValue(p) \in Values
<1>1. DbValue(p) \in Vals
  BY DEF TypeOK, DbValue
<1> QED BY <1>1 DEF SampleValue, Values

\* The types in the steps of the handler.
LEMMA TypeOKCommon ==
    ASSUME TypeOK, CommonNext, UNCHANGED <<dbVars, changeVars>>
    PROVE  TypeOK'
<1>1. Apply(response, view) \in [Paths -> Values \cup {None}]
  <2>1. \A u \in Updates : u.path \in Paths => u.val \in Values
    BY DEF Updates
  <2> QED BY <2>1, ApplyType DEF TypeOK, HandlerTypeOK, Updates
<1>2. HandlerTypeOK(Values, Updates)'
  BY <1>1, HandlerTypes DEF TypeOK, Updates
<1> QED BY <1>2 DEF TypeOK, Updates, dbVars, changeVars, changerVars

\* The types in the steps of the reader.
LEMMA TypeOKReader ==
    ASSUME TypeOK, ReaderNext
    PROVE  TypeOK'
<1> USE DEF TypeOK, HandlerTypeOK, rpcVars, readVars, clientVars, dbVars,
            changeVars, changerVars
<1>1. CASE ReaderCommonNext /\ UNCHANGED <<dbVars, changeVars>>
  BY <1>1, TypeOKCommon DEF CommonNext
<1>2. CASE GetSample
  <2>1. PICK p \in unsampled : SampleLeaf(p, SampleValue(p))
    BY <1>2 DEF GetSample
  <2>2. Update(p, SampleValue(p)) \in [path : Paths, val : Values]
    BY <2>1, SampleValueType DEF Update
  <2> QED BY <1>2, <2>1, <2>2 DEF GetSample, SampleLeaf
<1>3. CASE FinishSample
  BY <1>3 DEF FinishSample, SampleComplete, ReaderStates, ChangerStates
<1>4. CASE GetMonitoredChanges
  <2>1. \A i \in DOMAIN change_db :
          Update(change_db[i].path, Iana(change_db[i].val))
            \in [path : Paths, val : Values]
    <3> TAKE i \in DOMAIN change_db
    <3>1. change_db[i] \in [path : TypePaths, val : Vals]
      BY ElementOfSeq, LenProperties
    <3>2. change_db[i].path \in Paths /\ Iana(change_db[i].val) \in Values
      BY <3>1, TypePathsArePaths DEF Values
    <3> QED BY <3>2 DEF Update
  <2>2. response' \in Seq([path : Paths, val : Values])
    <3>1. DOMAIN change_db = 1..Len(change_db) /\ Len(change_db) \in Nat
      BY LenProperties
    <3>2. response' = [i \in 1..Len(change_db) |->
                        Update(change_db[i].path, Iana(change_db[i].val))]
      BY <1>4, <3>1 DEF GetMonitoredChanges
    <3>3. response' \in [1..Len(change_db) -> [path : Paths, val : Values]]
      BY <2>1, <3>1, <3>2
    <3> QED BY <3>1, <3>3, FunctionIsSeq
  <2>3. change_db' \in Seq([path : TypePaths, val : Vals])
    BY <1>4, EmptySeq DEF GetMonitoredChanges
  <2> QED BY <1>4, <2>2, <2>3 DEF GetMonitoredChanges, ReaderStates
<1>5. CASE NothingToSend
  BY <1>5 DEF NothingToSend, Fail, ReaderStates
<1>6. CASE StopMonitoring
  BY <1>6 DEF StopMonitoring, ReaderStates, ChangeEvents
<1>7. CASE MonitoringStopped
  BY <1>7 DEF MonitoringStopped, ReaderStates
<1>8. CASE QueueNotEmpty
  BY <1>8 DEF QueueNotEmpty, Fail, ReaderStates
<1> QED BY <1>1, <1>2, <1>3, <1>4, <1>5, <1>6, <1>7, <1>8 DEF ReaderNext

\* The types in the steps of the change thread.
LEMMA TypeOKChanger ==
    ASSUME TypeOK, ChangerNext
    PROVE  TypeOK'
<1> USE DEF TypeOK, HandlerTypeOK, handlerVars, rpcVars, readVars, clientVars,
            dbVars, changerVars, ChangerUnchanged, ChangerStates
<1>1. CASE GetChangeEvent
  BY <1>1 DEF GetChangeEvent, Events, ChangeEvents
<1>2. CASE AddChange
  <2>1. PICK p \in TypePaths \cap monitored_paths, v \in Vals :
          /\ change_db' = Append(change_db, Update(p, v))
          /\ demo_db' = [demo_db EXCEPT ![p] = v]
    BY <1>2 DEF AddChange, Record
  <2>2. Update(p, v) \in [path : TypePaths, val : Vals]
    BY DEF Update
  <2> QED BY <1>2, <2>1, <2>2 DEF AddChange
<1>3. CASE FinishAdd
  BY <1>3 DEF FinishAdd
<1>4. CASE PutSend
  BY <1>4 DEF PutSend, ChangeEvents
<1>5. CASE SkipAdd
  BY <1>5 DEF SkipAdd
<1>6. CASE Timeout
  BY <1>6 DEF Timeout, CountReset
<1>7. CASE PutAdd
  BY <1>7 DEF PutAdd, ChangeEvents
<1> QED BY <1>1, <1>2, <1>3, <1>4, <1>5, <1>6, <1>7 DEF ChangerNext

\* The types in the steps of other RPCs.
LEMMA TypeOKOther ==
    ASSUME TypeOK, SetUpdate \/ OtherChange
    PROVE  TypeOK'
<1> USE BoundsNat, TypePathsArePaths
        DEF TypeOK, HandlerTypeOK, handlerVars, rpcVars, readVars, clientVars,
            changeVars, changerVars, OtherRpc
<1>1. CASE SetUpdate
  BY <1>1 DEF SetUpdate
<1>2. CASE OtherChange
  BY <1>2 DEF OtherChange
<1> QED BY <1>1, <1>2

\* Every step keeps the types.
LEMMA TypeOKNext == TypeOK /\ [Next]_vars => TypeOK'
<1> SUFFICES ASSUME TypeOK, [Next]_vars PROVE TypeOK'
  OBVIOUS
<1>1. CASE UNCHANGED vars
  BY <1>1 DEF vars, handlerVars, rpcVars, readVars, clientVars, dbVars,
              changeVars, changerVars, TypeOK, HandlerTypeOK
<1>2. CASE Next
  BY <1>2, TypeOKCommon, TypeOKReader, TypeOKChanger, TypeOKOther DEF Next, CommonNext
<1> QED BY <1>1, <1>2

\* Type correctness: in every reachable state of a Subscribe RPC on the demo
\* adapter the variables of its threads have the types the code gives them.
THEOREM TypeCorrect == Spec => []TypeOK
<1> QED BY TypeOKInit, TypeOKNext, PTL DEF Spec

----------------------------------------------------------------------------
(* No lost wakeup, and the end.                                             *)

\* Before the first sample is complete there is no changer, and without a
\* changer there are no changes.
Started ==
    /\ Fresh => changer = "none"
    /\ changer = "none" => change_db = <<>> /\ ~send

\* A leaf no other RPC wrote has no entry made by Set.
Untouched == \A p \in Paths \ touched : set_db[p] = None

\* The inductive invariant.
IndInv ==
    /\ TypeOK
    /\ HandlerOrder
    /\ Started
    /\ NoLostWakeup
    /\ Untouched
    /\ ClientCatchesUp

\* What an event makes of the changer.
LEMMA GetChangeEventCases ==
    ASSUME TypeOK, GetChangeEvent
    PROVE  /\ Head(change_event_queue) \in ChangeEvents
           /\ changer' = IF Head(change_event_queue) = "ADD" THEN "add"
                         ELSE IF Head(change_event_queue) = "SEND" THEN "get"
                         ELSE "ended"
<1>1. Head(change_event_queue) \in ChangeEvents
  BY HeadTailProperties DEF TypeOK, GetChangeEvent
<1> QED BY <1>1 DEF GetChangeEvent, ChangeEvents

\* Step lemma for the conjuncts about control: one step for each action.
LEMMA ControlNext ==
    ASSUME TypeOK, HandlerOrder, Started, NoLostWakeup, [Next]_vars
    PROVE  HandlerOrder' /\ Started' /\ NoLostWakeup'
<1>t. /\ change_event_queue \in Seq(ChangeEvents) /\ read_queue \in Seq(Events)
      /\ HandlerTypeOK(Values, Updates)
  BY DEF TypeOK, HandlerTypeOK, Updates
<1>e. \A e \in ChangeEvents : Holds(change_event_queue, "SEND") \/ e = "SEND" =>
        Holds(Append(change_event_queue, e), "SEND")
  BY <1>t, HoldsAppend
<1> USE DEF HandlerOrder, Fresh, Started, NoLostWakeup,
            handlerVars, rpcVars, readVars, clientVars, dbVars, changeVars, changerVars,
            ChangerUnchanged
<1>1. CASE CommonNext /\ UNCHANGED <<dbVars, changeVars>>
  <2>1. /\ HandlerOrder' /\ (Fresh' => Fresh) /\ mode' = mode
        /\ Holds(read_queue, "SEND_CHANGES") =>
             Holds(read_queue', "SEND_CHANGES") \/ reader' = "changes"
        /\ reader = "changes" => reader' = "changes"
    BY <1>1, <1>t, HandlerSteps
  <2> QED BY <1>1, <2>1
<1>2. CASE GetSample
  BY <1>2 DEF GetSample, SampleLeaf
<1>3. CASE FinishSample
  BY <1>3 DEF FinishSample, SampleComplete, StartsMonitoring
<1>4. CASE GetMonitoredChanges
  BY <1>4 DEF GetMonitoredChanges
<1>5. CASE NothingToSend
  BY <1>5 DEF NothingToSend, Fail
<1>6. CASE StopMonitoring
  BY <1>6, <1>e DEF StopMonitoring, ChangeEvents
<1>7. CASE MonitoringStopped
  BY <1>7 DEF MonitoringStopped, ChangerJoined
<1>8. CASE QueueNotEmpty
  BY <1>8 DEF QueueNotEmpty, Fail
<1>9. CASE GetChangeEvent
  <2>1. /\ changer = "get" /\ change_event_queue' = Tail(change_event_queue)
        /\ send' = (send /\ Head(change_event_queue) # "ADD")
        /\ read_queue' = IF Head(change_event_queue) = "SEND"
                           THEN Append(read_queue, "SEND_CHANGES") ELSE read_queue
        /\ change_event_queue # <<>>
        /\ UNCHANGED <<mode, reader, first_sample, response, change_db>>
    BY <1>9 DEF GetChangeEvent
  <2>2. changer' = IF Head(change_event_queue) = "ADD" THEN "add"
                   ELSE IF Head(change_event_queue) = "SEND" THEN "get"
                   ELSE "ended"
    BY <1>9, GetChangeEventCases
  <2>3. /\ Holds(read_queue, "SEND_CHANGES") => Holds(read_queue', "SEND_CHANGES")
        /\ Head(change_event_queue) = "SEND" => Holds(read_queue', "SEND_CHANGES")
    <3>1. read_queue \in Seq(Events) /\ "SEND_CHANGES" \in Events
      BY <1>t DEF Events
    <3>2. Holds(Append(read_queue, "SEND_CHANGES"), "SEND_CHANGES")
      BY ONLY <3>1, HoldsAppend
    <3> QED BY <2>1, <3>2
  <2>4. Head(change_event_queue) \in ChangeEvents
    BY <1>9, GetChangeEventCases
  <2>5. HandlerOrder' /\ Started'
    BY <2>1, <2>2
  <2>6. NoLostWakeup'
    BY <2>1, <2>2, <2>3, <2>4 DEF ChangeEvents
  <2> QED BY <2>5, <2>6
<1>10. CASE AddChange
  BY <1>10 DEF AddChange, Record
<1>11. CASE FinishAdd
  BY <1>11 DEF FinishAdd
<1>12. CASE PutSend
  BY <1>12, <1>e DEF PutSend, SendDue, ChangeEvents
<1>13. CASE SkipAdd
  BY <1>13 DEF SkipAdd
<1>14. CASE Timeout
  BY <1>14 DEF Timeout
<1>15. CASE PutAdd
  BY <1>15, <1>e DEF PutAdd, ChangeEvents
<1>16. CASE SetUpdate
  BY <1>16 DEF SetUpdate, OtherRpc
<1>17. CASE OtherChange
  BY <1>17 DEF OtherChange, OtherRpc
<1>18. CASE UNCHANGED vars
  BY <1>18 DEF vars
<1> QED
  BY <1>1, <1>2, <1>3, <1>4, <1>5, <1>6, <1>7, <1>8, <1>9, <1>10,
     <1>11, <1>12, <1>13, <1>14, <1>15, <1>16, <1>17, <1>18
  DEF Next, CommonNext, ReaderNext, ChangerNext

\* The steps that touch the data, the changes or the responses.
LEMMA DataFrame ==
    ASSUME TypeOK, HandlerOrder, [Next]_vars
    PROVE  \/ Told /\ UNCHANGED <<change_db, demo_db, set_db, touched>>
           \/ GetSample \/ GetMonitoredChanges \/ AddChange \/ SetUpdate \/ OtherChange
<1> USE DEF Told, handlerVars, readVars, dbVars, changeVars, changerVars, ChangerUnchanged
<1>1. CASE CommonNext /\ UNCHANGED <<dbVars, changeVars>>
  BY <1>1, HandlerSteps DEF TypeOK
<1>2. CASE FinishSample
  BY <1>2 DEF FinishSample, SampleComplete
<1>3. CASE NothingToSend
  BY <1>3 DEF NothingToSend, Fail
<1>4. CASE StopMonitoring
  BY <1>4 DEF StopMonitoring
<1>5. CASE MonitoringStopped
  BY <1>5 DEF MonitoringStopped
<1>6. CASE QueueNotEmpty
  BY <1>6 DEF QueueNotEmpty, Fail
<1>7. CASE GetChangeEvent
  BY <1>7 DEF GetChangeEvent
<1>8. CASE FinishAdd
  BY <1>8 DEF FinishAdd
<1>9. CASE PutSend
  BY <1>9 DEF PutSend
<1>10. CASE SkipAdd
  BY <1>10 DEF SkipAdd
<1>11. CASE Timeout
  BY <1>11 DEF Timeout
<1>12. CASE PutAdd
  BY <1>12 DEF PutAdd
<1>13. CASE UNCHANGED vars
  BY <1>13 DEF vars
<1> QED
  BY <1>1, <1>2, <1>3, <1>4, <1>5, <1>6, <1>7, <1>8, <1>9, <1>10, <1>11, <1>12, <1>13
  DEF Next, CommonNext, ReaderNext, ChangerNext

\* Step lemma for Untouched.
LEMMA UntouchedNext ==
    ASSUME TypeOK, HandlerOrder, Untouched, [Next]_vars
    PROVE  Untouched'
<1> USE DEF Untouched
<1>1. CASE SetUpdate
  <2>1. PICK q \in Paths, v \in Vals :
          /\ touched' = touched \cup {q}
          /\ set_db' = [set_db EXCEPT ![q] = v]
    BY <1>1 DEF SetUpdate, OtherRpc
  <2> QED BY <2>1 DEF TypeOK
<1>2. CASE OtherChange
  BY <1>2 DEF OtherChange, OtherRpc
<1>3. CASE UNCHANGED <<set_db, touched>>
  BY <1>3
<1>4. ASSUME GetSample \/ GetMonitoredChanges \/ AddChange
      PROVE  UNCHANGED <<set_db, touched>>
  BY <1>4 DEF GetSample, GetMonitoredChanges, AddChange, dbVars
<1> QED BY <1>1, <1>2, <1>3, <1>4, DataFrame

----------------------------------------------------------------------------
(* The client catches up.                                                   *)

\* The response made of change_db says of a leaf what change_db says of it.
LEMMA ResponseOfChanges ==
    ASSUME NEW S, NEW changes \in Seq(S), NEW told, NEW p \in Paths,
           NEW updates,
           updates = [i \in DOMAIN changes |->
                        Update(changes[i].path, Iana(changes[i].val))]
    PROVE  /\ Mentions(updates, p) <=> Mentions(changes, p)
           /\ Apply(updates, told)[p] = IF Mentions(changes, p)
                                          THEN Iana(changes[Last(changes, p)].val)
                                          ELSE told[p]
<1>1. /\ DOMAIN updates = DOMAIN changes
      /\ \A i \in DOMAIN changes : /\ updates[i].path = changes[i].path
                                   /\ updates[i].val = Iana(changes[i].val)
  BY DEF Update
<1>2. Mentions(updates, p) <=> Mentions(changes, p)
  BY <1>1 DEF Mentions
<1>3. ASSUME Mentions(changes, p)
      PROVE  updates[Last(updates, p)].val = Iana(changes[Last(changes, p)].val)
  <2>1. Last(updates, p) = Last(changes, p)
    BY <1>1 DEF Last
  <2>2. Last(changes, p) \in DOMAIN changes
    BY <1>3, LastExists
  <2> QED BY <1>1, <2>1, <2>2
<1> QED BY <1>2, <1>3 DEF Apply

\* Step lemma for ClientCatchesUp, for one leaf.
LEMMA CatchUpLeaf ==
    ASSUME TypeOK, HandlerOrder, Untouched, [Next]_vars,
           NEW p \in TypePaths, p \notin touched', p \in Paths,
           p \notin touched => (Known(p) => Upcoming(p) = Iana(demo_db[p])),
           Known(p)'
    PROVE  Upcoming(p)' = Iana(demo_db'[p])
<1> USE DEF Known, Upcoming
<1>t. /\ response \in Seq(Updates)
      /\ change_db \in Seq([path : TypePaths, val : Vals])
      /\ view \in [Paths -> Values \cup {None}]
      /\ demo_db \in [Paths -> Vals]
  BY DEF TypeOK, HandlerTypeOK, Updates
<1>1. CASE Told /\ UNCHANGED <<change_db, demo_db, set_db, touched>>
  BY <1>1, ApplyTold
<1>2. CASE GetSample
  <2>1. PICK q \in unsampled : SampleLeaf(q, SampleValue(q))
    BY <1>2 DEF GetSample
  <2>2. PICK u : u = Update(q, SampleValue(q))
    OBVIOUS
  <2>3. /\ response' = Append(response, u)
        /\ UNCHANGED <<demo_db, touched, change_db, view>>
    BY <1>2, <2>1, <2>2 DEF GetSample, SampleLeaf, dbVars, changeVars
  <2>4. u \in Updates /\ u.path = q /\ u.val = SampleValue(q)
    BY <2>2, SampleValueType DEF Update, Updates, TypeOK, HandlerTypeOK
  <2>5. /\ Mentions(response', p) <=> Mentions(response, p) \/ u.path = p
        /\ Apply(response', view)[p] = IF u.path = p THEN u.val
                                                     ELSE Apply(response, view)[p]
    <3>1. response \in Seq(Updates) /\ u \in Updates /\ response' = Append(response, u)
      BY <1>t, <2>3, <2>4
    <3>2. /\ Mentions(Append(response, u), p) <=> Mentions(response, p) \/ u.path = p
          /\ Apply(Append(response, u), view)[p] =
               IF u.path = p THEN u.val ELSE Apply(response, view)[p]
      BY ONLY p \in Paths, <3>1, ApplyAppend
    <3> QED BY ONLY <3>1, <3>2
  <2>6. SampleValue(p) = Iana(demo_db[p])
    BY <2>3 DEF SampleValue, DbValue, Untouched
  <2> QED BY <2>3, <2>4, <2>5, <2>6
<1>3. CASE GetMonitoredChanges
  <2>1. /\ reader = "changes" /\ change_db' = <<>>
        /\ response' = [i \in DOMAIN change_db |->
                          Update(change_db[i].path, Iana(change_db[i].val))]
        /\ UNCHANGED <<demo_db, touched, view>>
    BY <1>3 DEF GetMonitoredChanges, dbVars
  <2>2. response = <<>>
    BY <2>1 DEF HandlerOrder
  <2>3. ~Mentions(change_db', p)
    BY <2>1, ApplyEmpty
  <2>4. /\ Mentions(response', p) <=> Mentions(change_db, p)
        /\ Apply(response', view)[p] = IF Mentions(change_db, p)
             THEN Iana(change_db[Last(change_db, p)].val) ELSE view[p]
    BY ONLY p \in Paths, <1>t, <2>1, ResponseOfChanges
  <2>5. ~Mentions(response, p) /\ Apply(response, view)[p] = view[p]
    BY <2>2, ApplyEmpty
  <2> QED BY <2>1, <2>3, <2>4, <2>5
<1>4. CASE AddChange
  <2>1. PICK q \in TypePaths, v \in Vals :
          /\ change_db' = Append(change_db, Update(q, v))
          /\ demo_db' = [demo_db EXCEPT ![q] = v]
          /\ UNCHANGED <<response, view, touched>>
    BY <1>4 DEF AddChange, Record, handlerVars, readVars
  <2>2. /\ Update(q, v) \in [path : TypePaths, val : Vals]
        /\ Update(q, v).path = q /\ Update(q, v).val = v
    BY DEF Update
  <2>x. Extended([path : TypePaths, val : Vals], change_db', change_db, Update(q, v))
    BY <1>t, <2>1, <2>2, AppendExtends
  <2>3. /\ Mentions(change_db', p) <=> Mentions(change_db, p) \/ q = p
        /\ q = p => change_db'[Last(change_db', p)] = Update(q, v)
        /\ q # p /\ Mentions(change_db, p) =>
             change_db'[Last(change_db', p)] = change_db[Last(change_db, p)]
    <3> DEFINE S == [path : TypePaths, val : Vals]
               u == Update(q, v)
    <3>1. change_db \in Seq(S) /\ u \in S /\ Extended(S, change_db', change_db, u)
      BY <1>t, <2>2, <2>x
    <3>2. u.path = q
      BY <2>2
    <3>3. /\ Mentions(change_db', p) <=> Mentions(change_db, p) \/ q = p
          /\ q = p => change_db'[Last(change_db', p)] = u
          /\ q # p /\ Mentions(change_db, p) =>
               change_db'[Last(change_db', p)] = change_db[Last(change_db, p)]
      <4> HIDE DEF S, u
      <4> QED BY ONLY <3>1, <3>2, LastAppend
    <3> QED BY <3>3
  <2>4. CASE q = p
    BY <1>t, <2>1, <2>2, <2>3, <2>4
  <2>5. CASE q # p
    BY <1>t, <2>1, <2>3, <2>5
  <2> QED BY <2>4, <2>5
<1>5. CASE SetUpdate
  BY <1>5 DEF SetUpdate, OtherRpc, handlerVars, readVars, changeVars
<1>6. CASE OtherChange
  <2>1. PICK q \in TypePaths, v \in Vals :
          /\ touched' = touched \cup {q}
          /\ demo_db' = [demo_db EXCEPT ![q] = v]
          /\ UNCHANGED <<response, view, change_db>>
    BY <1>6 DEF OtherChange, OtherRpc, handlerVars, readVars, changeVars
  <2> QED BY <1>t, <2>1
<1> QED BY <1>1, <1>2, <1>3, <1>4, <1>5, <1>6, DataFrame

\* Every step keeps what a client will know.
LEMMA CatchUpNext ==
    ASSUME TypeOK, HandlerOrder, Untouched, ClientCatchesUp, [Next]_vars
    PROVE  ClientCatchesUp'
  BY CatchUpLeaf, TypePathsArePaths DEF ClientCatchesUp

----------------------------------------------------------------------------
(* The theorems.                                                            *)

\* The invariant holds at first,
LEMMA IndInvInit == Init => IndInv
<1> SUFFICES ASSUME Init PROVE IndInv
  OBVIOUS
<1>1. TypeOK
  BY TypeOKInit
<1>2. HandlerOrder /\ Started /\ NoLostWakeup /\ Untouched
  BY DEF Init, HandlerInit, HandlerOrder, Started, NoLostWakeup, Untouched
<1>3. ClientCatchesUp
  <2>1. \A p \in Paths : ~Known(p)
    BY ApplyEmpty DEF Init, HandlerInit, Known
  <2> QED BY <2>1, TypePathsArePaths DEF ClientCatchesUp
<1> QED BY <1>1, <1>2, <1>3 DEF IndInv

\* every step keeps it,
LEMMA IndInvNext == IndInv /\ [Next]_vars => IndInv'
  BY TypeOKNext, ControlNext, UntouchedNext, CatchUpNext DEF IndInv

\* and so it always holds.
LEMMA IndInvAlways == Spec => []IndInv
<1> QED BY IndInvInit, IndInvNext, PTL DEF Spec

\* A change that was announced with "send" is never forgotten: there is
\* always an event on its way that makes read() collect it (process_changes).
THEOREM NoWakeupIsLost == Spec => []NoLostWakeup
<1>1. IndInv => NoLostWakeup
  BY DEF IndInv
<1> QED BY <1>1, IndInvAlways, PTL

\* A client that takes all its responses ends up with the data, whatever the
\* interleaving of samples, collections and changes (sample,
\* get_monitored_changes, process_changes), for any number of leaves.
THEOREM ClientAlwaysCatchesUp == Spec => []ClientCatchesUp
<1>1. IndInv => ClientCatchesUp
  BY DEF IndInv
<1> QED BY <1>1, IndInvAlways, PTL
===============================================================================
