--------------------------- MODULE RouteStatusProofs ---------------------------
(****************************************************************************)
(* Theorems about RouteStatus, for any routes and values, any number of     *)
(* changes in a message and of requests of ConfD: the end of the program,   *)
(* the walks of ConfD over the list of routes, and what the change server   *)
(* has been told of the counters.                                           *)
(*                                                                          *)
(* That the sockets are closed after the threads is true because main gets  *)
(* there one join after the other; Places says which thread has come how far*)
(* at every place of main.                                                  *)
(****************************************************************************)
EXTENDS RouteStatus, TLAPS

Stopping == {"join_change", "stop_loop", "join_confd", "close"}

\* The ends of the other threads, where main has waited for them.
Places ==
    /\ main = "try" => change = "none"
    /\ main \in {"try", "change_made", "change_started"} => confd = "none"
    /\ main \in {"stop_loop", "join_confd", "close", "ended"} => change \in {"none", "ended"}
    /\ main \in {"close", "ended"} => confd \in {"none", "ended"}
    /\ main \notin {"ended", "failed"} => open
    /\ main = "ended" => ~open
    /\ ~open => confd \in {"none", "ended"} /\ change \in {"none", "ended"}
    /\ confd = "none" /\ main \notin {"ended", "failed"} => stop_pipe = None
    /\ main \in {"change_started", "confd_made"} => change # "made"
    /\ change = "made" => confd = "none"

\* The pipe: what is in it, and who has seen it.
Pipe ==
    /\ stop_pipe \in {0, 1} \/ stop_pipe = None
    /\ confd = "select" => stop_pipe # None
    /\ main \notin {"join_confd", "close", "failed"} => stop_pipe # 1
    /\ main \in Stopping /\ ~early => stop_pipe # None
    /\ main = "failed" => early

IInv == Places /\ Pipe

----------------------------------------------------------------------------
(* The end of the program.                                                  *)

\* Nothing has been started.
LEMMA InitInvariant == Init => IInv
  BY NoneIsNoCount DEF Init, IInv, Places, Pipe, Stopping

\* The change thread and ConfD change none of this but the place of the thread.
LEMMA ChangeInvariant == IInv /\ (ChangeThread \/ Asks) => IInv'
<1> SUFFICES ASSUME IInv, ChangeThread \/ Asks PROVE IInv'
  OBVIOUS
<1>1. CASE Wakes
  BY <1>1 DEF Wakes, IInv, Places, Pipe, mainVars, confdVars
<1>2. CASE ChangeRoute
  BY <1>2 DEF ChangeRoute, IInv, Places, Pipe, mainVars, confdVars
<1>3. CASE SendChanges
  BY <1>3 DEF SendChanges, IInv, Places, Pipe, mainVars, confdVars
<1>4. CASE CheckStop
  BY <1>4 DEF CheckStop, IInv, Places, Pipe, mainVars, confdVars
<1>5. CASE Asks
  BY <1>5 DEF Asks, IInv, Places, Pipe, mainVars, changeVars
<1> QED BY <1>1, <1>2, <1>3, <1>4, <1>5 DEF ChangeThread

\* The loop makes its pipe and takes the byte from it.
LEMMA LoopInvariant == IInv /\ Loop => IInv'
<1> SUFFICES ASSUME IInv, Loop PROVE IInv'
  OBVIOUS
<1>1. CASE LoopStarts
  BY <1>1, NoneIsNoCount DEF LoopStarts, IInv, Places, Pipe, mainVars, changeVars
<1>2. CASE ControlReady
  BY <1>2 DEF ControlReady, Raises, IInv, Places, Pipe, mainVars, changeVars
<1>3. CASE WorkerReady
  BY <1>3 DEF WorkerReady, Raises, IInv, Places, Pipe, mainVars, changeVars
<1>4. CASE StopReady
  <2>1. stop_pipe = 1 /\ stop_pipe' = 0 /\ confd' = "ended"
    BY <1>4 DEF StopReady, IInv, Pipe
  <2> QED BY <1>4, <2>1, NoneIsNoCount DEF StopReady, IInv, Places, Pipe, mainVars, changeVars
<1> QED BY <1>1, <1>2, <1>3, <1>4 DEF Loop

\* main starts the threads, and waits for one after the other.
LEMMA MainInvariant == IInv /\ (Main \/ Interrupt) => IInv'
<1> SUFFICES ASSUME IInv, Main \/ Interrupt PROVE IInv'
  OBVIOUS
<1> USE NoneIsNoCount DEF IInv, Places, Pipe, Stopping
<1>1. CASE StartThreads
  <2>1. main' \notin Stopping \cup {"ended", "failed"} /\ UNCHANGED <<stop_pipe, open, early>>
    BY <1>1 DEF StartThreads
  <2>2. Places'
    BY <1>1, <2>1 DEF StartThreads
  <2>3. Pipe'
    BY <1>1, <2>1 DEF StartThreads
  <2> QED BY <2>2, <2>3
<1>2. CASE TimeIsUp \/ Interrupt
  BY <1>2 DEF TimeIsUp, Interrupt, Finally, changeVars, confdVars
<1>3. CASE JoinChange
  BY <1>3 DEF JoinChange, changeVars, confdVars
<1>4. CASE StopLoop
  BY <1>4 DEF StopLoop, OneByte, changeVars, confdVars
<1>5. CASE JoinConfd
  BY <1>5 DEF JoinConfd, LoopHasEnded, changeVars, confdVars
<1>6. CASE CloseDp
  BY <1>6 DEF CloseDp, changeVars, confdVars
<1> QED BY <1>1, <1>2, <1>3, <1>4, <1>5, <1>6 DEF Main

\* Every step keeps the invariant.
LEMMA StepInvariant == IInv /\ [Next]_vars => IInv'
<1> SUFFICES ASSUME IInv, [Next]_vars PROVE IInv'
  OBVIOUS
<1>1. CASE UNCHANGED vars
  BY <1>1 DEF IInv, Places, Pipe, vars, mainVars, changeVars, confdVars
<1> QED BY <1>1, ChangeInvariant, LoopInvariant, MainInvariant DEF Next

\* However many routes, changes and requests there are, and whenever Ctrl-C comes: the
\* sockets are closed after the threads have ended, and main fails only if it was to stop
\* before the loop had made its pipe (main, confd_loop, close_dp).
THEOREM EndsInOrder == Spec => []ClosedAtTheEnd
<1>1. IInv => ClosedAtTheEnd
  BY DEF IInv, Places, Pipe, ClosedAtTheEnd
<1> QED BY <1>1, InitInvariant, StepInvariant, PTL DEF Spec
----------------------------------------------------------------------------
(* The walks of ConfD.                                                      *)

\* A request that waits is for the index that ConfD was told last; there is one worker
\* socket, so that nothing is answered in between.
InOrder ==
    /\ next \in -1..Len(Ids)
    /\ wrk # None /\ wrk.what = "next" => wrk.arg = next
    /\ WalksInOrder

\* One more route of the list.
LEMMA OneMore ==
    ASSUME NEW i \in Nat, i < Len(Ids)
    PROVE  Append(SubSeq(Ids, 1, i), Ids[i + 1]) = SubSeq(Ids, 1, i + 1)
  BY Sizes

\* cb_get_next goes on where the walk is, or starts a new one.
LEMMA GetNextInOrder ==
    ASSUME InOrder, GetNext(next)
    PROVE  next' \in -1..Len(Ids) /\ WalksInOrder'
<1> Len(Ids) \in Nat /\ Len(Ids) > 0 /\ Ids \in Seq(Range(Ids))
  BY Sizes
<1>1. CASE next = -1 \/ next = 0
  <2>1. next' = 1 /\ walked' = Append(<<>>, Ids[1])
    <3> DEFINE idx == IF next = -1 THEN 0 ELSE next
    <3>1. idx = 0 /\ ~(idx >= Len(Ids)) /\ idx + 1 = 1
      BY <1>1
    <3>2. next' = NextIdx(idx) /\ walked' = Append(<<>>, Ids[idx + 1])
      BY <3>1 DEF GetNext
    <3> QED BY <3>1, <3>2 DEF NextIdx
  <2>2. Append(<<>>, Ids[1]) = SubSeq(Ids, 1, 1)
    OBVIOUS
  <2> QED BY <2>1, <2>2 DEF WalksInOrder
<1>2. CASE next > 0 /\ next < Len(Ids)
  <2>1. next' = next + 1 /\ walked' = Append(walked, Ids[next + 1])
    BY <1>2 DEF GetNext, NextIdx, InOrder
  <2>2. walked = SubSeq(Ids, 1, next)
    BY <1>2 DEF InOrder, WalksInOrder
  <2> QED BY <1>2, <2>1, <2>2, OneMore DEF WalksInOrder, InOrder
<1>3. CASE next > 0 /\ next = Len(Ids)
  <2>1. next' = -1 /\ walked' = walked
    BY <1>3 DEF GetNext
  <2>2. walked = Ids
    BY <1>3 DEF InOrder, WalksInOrder
  <2> QED BY <2>1, <2>2 DEF WalksInOrder
<1> QED BY <1>1, <1>2, <1>3 DEF InOrder

\* Only the answers to requests move the walk.
LEMMA StepInOrder == InOrder /\ [Next]_vars => InOrder'
<1> SUFFICES ASSUME InOrder, [Next]_vars PROVE InOrder'
  OBVIOUS
<1>1. CASE UNCHANGED <<wrk, next, walked>>
  BY <1>1 DEF InOrder, WalksInOrder
<1>2. CASE Asks
  BY <1>2 DEF Asks, Get, InOrder, WalksInOrder
<1>3. CASE WorkerReady
  <2>1. wrk' = None
    BY <1>3 DEF WorkerReady
  <2>2. \/ GetNext(next)
        \/ UNCHANGED <<next, walked>>
        \/ next' = -1 /\ walked' = <<>>
    BY <1>3 DEF WorkerReady, InOrder
  <2>3. CASE GetNext(next)
    BY <2>1, <2>3, GetNextInOrder DEF InOrder
  <2>4. CASE UNCHANGED <<next, walked>>
    BY <2>1, <2>4 DEF InOrder, WalksInOrder
  <2>5. CASE next' = -1 /\ walked' = <<>>
    BY <2>1, <2>5, Sizes DEF InOrder, WalksInOrder
  <2> QED BY <2>2, <2>3, <2>4, <2>5
<1>4. ChangeThread \/ Main \/ Interrupt => UNCHANGED <<wrk, next, walked>>
  BY DEF ChangeThread, Wakes, ChangeRoute, SendChanges, CheckStop, Main, StartThreads,
     TimeIsUp, JoinChange, StopLoop, JoinConfd, CloseDp, Interrupt, Finally, confdVars
<1>5. LoopStarts \/ ControlReady \/ StopReady => UNCHANGED <<wrk, next, walked>>
  BY DEF LoopStarts, ControlReady, StopReady
<1>6. UNCHANGED vars => UNCHANGED <<wrk, next, walked>>
  BY DEF vars, confdVars
<1> QED BY <1>1, <1>2, <1>3, <1>4, <1>5, <1>6 DEF Next, Loop

\* However many routes there are, a walk of ConfD is told them in order and completely,
\* or starts anew after an error, whatever else is asked in between (cb_get_next).
THEOREM WalksAreComplete == Spec => []WalksInOrder
<1>1. Init => InOrder
  BY Sizes DEF Init, InOrder, WalksInOrder
<1>2. InOrder => WalksInOrder
  BY DEF InOrder
<1> QED BY <1>1, <1>2, StepInOrder, PTL DEF Spec
----------------------------------------------------------------------------
(* The changes and their messages.                                          *)

\* A round of the change thread: a message for each route at most, and no more of them
\* than changes are to be made.
Round ==
    /\ leaf1 \in [Routes -> Nat] /\ told \in [Routes -> Nat] /\ lost \subseteq Routes
    /\ left \in 0..MaxChanges /\ msgs \in Seq(Routes \X Vals)
    /\ Len(msgs) <= MaxChanges /\ (change = "change" => Len(msgs) + left <= MaxChanges)
    /\ \A j, k \in DOMAIN msgs : msgs[j][1] = msgs[k][1] => j = k
    /\ main \in {"try", "change_made"} => change \in {"none", "made"}
    /\ Told

\* The routes that there is a message about.
LEMMA Keys ==
    \A id : id \in ChangedKeys <=> \E k \in DOMAIN msgs : msgs[k][1] = id
  BY DEF ChangedKeys, Range

\* The messages in the making are about routes.
LEMMA Messages ==
    ASSUME Round
    PROVE  /\ Len(msgs) \in Nat /\ DOMAIN msgs = 1..Len(msgs)
           /\ \A k \in DOMAIN msgs : msgs[k] \in Routes \X Vals
           /\ ChangedKeys \subseteq Routes
<1>1. msgs \in Seq(Routes \X Vals)
  BY DEF Round
<1>2. /\ Len(msgs) \in Nat /\ DOMAIN msgs = 1..Len(msgs)
      /\ \A k \in DOMAIN msgs : msgs[k] \in Routes \X Vals
  BY ONLY <1>1
<1>3. \A k \in DOMAIN msgs : msgs[k][1] \in Routes
  BY <1>2
<1> QED BY <1>2, <1>3, Keys

\* At first the change server knows everything.
LEMMA InitRound == Init => Round
<1> SUFFICES ASSUME Init PROVE Round
  OBVIOUS
<1>1. leaf1 \in [Routes -> Nat]
  <2>1. DOMAIN Ids \subseteq Nat
    BY Sizes
  <2>2. \A id \in Routes : \E k \in DOMAIN Ids : Ids[k] = id
    BY DEF Routes, Range
  <2>3. \A id \in Routes : (CHOOSE k \in DOMAIN Ids : Ids[k] = id) \in Nat
    BY <2>1, <2>2
  <2> QED BY <2>3 DEF Init
<1>2. msgs = <<>> /\ msgs \in Seq(Routes \X Vals) /\ Len(msgs) = 0 /\ DOMAIN msgs = {}
  BY DEF Init
<1>3. Told
  BY <1>2 DEF Init, Told, Range
<1>4. /\ left \in 0..MaxChanges /\ Len(msgs) <= MaxChanges
      /\ Len(msgs) + left <= MaxChanges
  BY <1>2, Sizes DEF Init
<1>5. \A j, k \in DOMAIN msgs : msgs[j][1] = msgs[k][1] => j = k
  BY <1>2
<1>6. told \in [Routes -> Nat] /\ lost \subseteq Routes /\ main = "try" /\ change = "none"
  BY <1>1 DEF Init
<1> QED BY <1>1, <1>2, <1>3, <1>4, <1>5, <1>6 DEF Round

\* The change server gets the messages.
LEMMA TellsAll ==
    ASSUME Round, NEW id \in Routes
    PROVE  Tell(told, msgs)[id] \in Nat /\
           \/ id \notin ChangedKeys /\ Tell(told, msgs)[id] = told[id]
           \/ \E k \in DOMAIN msgs : msgs[k][1] = id /\ Tell(told, msgs)[id] = msgs[k][2]
<1>m. \A k \in DOMAIN msgs : msgs[k][2] \in Nat
  BY Messages, ValuesAreNumbers
<1>1. CASE \E k \in DOMAIN msgs : msgs[k][1] = id
  <2>1. PICK k \in DOMAIN msgs : msgs[k][1] = id
    BY <1>1
  <2>2. \A j \in DOMAIN msgs : j > k => msgs[j][1] # id
    <3>1. \A j \in DOMAIN msgs : msgs[j][1] = id => j = k
      BY <2>1 DEF Round
    <3> QED BY <3>1, Messages
  <2>3. LastAbout(msgs, id) \in DOMAIN msgs /\ msgs[LastAbout(msgs, id)][1] = id
    BY <2>1, <2>2 DEF LastAbout
  <2> QED BY <1>m, <1>1, <2>3 DEF Tell
<1>2. CASE ~ \E k \in DOMAIN msgs : msgs[k][1] = id
  BY <1>2, Keys DEF Tell, Round
<1> QED BY <1>1, <1>2

\* The change thread, step by step.
LEMMA ChangeRound ==
    ASSUME Round, ChangeThread
    PROVE  Round'
<1>e. <<>> \in Seq(Routes \X Vals) /\ Len(<<>>) = 0 /\ DOMAIN <<>> = {}
  OBVIOUS
<1>1. CASE Wakes
  <2>1. /\ change = "sleep" /\ change' = "change" /\ msgs' = <<>> /\ left' \in 1..MaxChanges
        /\ UNCHANGED <<leaf1, told, lost, main>>
    BY <1>1 DEF Wakes, mainVars
  <2>2. Told'
    BY <1>e, <2>1 DEF Told, Round, Range
  <2>3. /\ left' \in 0..MaxChanges /\ Len(msgs') <= MaxChanges
        /\ Len(msgs') + left' <= MaxChanges
    <3>1. MaxChanges \in Nat
      BY Sizes
    <3>2. PICK n \in 1..MaxChanges : n = left'
      BY <2>1
    <3>3. n \in 0..MaxChanges /\ 0 <= MaxChanges /\ 0 + n <= MaxChanges
      BY <3>1
    <3>4. Len(msgs') = 0
      BY <1>e, <2>1
    <3> QED BY ONLY <3>2, <3>3, <3>4
  <2>4. msgs' \in Seq(Routes \X Vals) /\ \A j, k \in DOMAIN msgs' : msgs'[j][1] = msgs'[k][1] => j = k
    BY <1>e, <2>1
  <2> QED BY <2>1, <2>2, <2>3, <2>4 DEF Round
<1>2. CASE SendChanges
  <2>1. /\ change = "change" /\ change' = "check" /\ UNCHANGED <<leaf1, left, msgs, main>>
        /\ \/ told' = Tell(told, msgs) /\ lost' = lost \ ChangedKeys
           \/ told' = told /\ lost' = lost \cup ChangedKeys
    BY <1>2 DEF SendChanges, mainVars
  <2>2. told' \in [Routes -> Nat] /\ lost' \subseteq Routes
    <3>1. Tell(told, msgs) \in [Routes -> Nat]
      BY TellsAll DEF Tell
    <3> QED BY <2>1, <3>1, Messages DEF Round
  <2>3. ASSUME NEW id \in Routes PROVE told'[id] = leaf1[id] \/ id \in lost'
    <3>1. told[id] = leaf1[id] \/ id \in lost \/ id \in ChangedKeys
      BY <2>1 DEF Round, Told
    <3>2. \A k \in DOMAIN msgs : msgs[k][2] = leaf1[msgs[k][1]]
      BY <2>1 DEF Round, Told, Range
    <3>3. \/ id \notin ChangedKeys /\ Tell(told, msgs)[id] = told[id]
          \/ Tell(told, msgs)[id] = leaf1[id]
      BY <3>2, TellsAll
    <3> QED BY <2>1, <3>1, <3>3
  <2>4. Told'
    BY <2>1, <2>3 DEF Told
  <2> QED BY <2>1, <2>2, <2>4 DEF Round
<1>3. CASE CheckStop
  <2>1. /\ change = "check" /\ change' \in {"sleep", "ended"} /\ msgs' = <<>>
        /\ UNCHANGED <<leaf1, told, lost, left, main>>
    BY <1>3 DEF CheckStop, mainVars
  <2>2. Told'
    BY <1>e, <2>1 DEF Told, Round, Range
  <2>3. Len(<<>>) <= MaxChanges
    BY <1>e, Sizes
  <2>4. msgs' \in Seq(Routes \X Vals) /\ \A j, k \in DOMAIN msgs' : msgs'[j][1] = msgs'[k][1] => j = k
    BY <1>e, <2>1
  <2> QED BY <2>1, <2>2, <2>3, <2>4 DEF Round
<1>4. CASE ChangeRoute
  <2>1. PICK key \in Routes, val \in Vals :
          /\ leaf1' = IF Changes(key) THEN [leaf1 EXCEPT ![key] = val] ELSE leaf1
          /\ msgs' = IF key \in ChangedKeys THEN msgs ELSE Append(msgs, <<key, val>>)
    BY <1>4 DEF ChangeRoute
  <2>2. /\ change = "change" /\ left > 0 /\ left' = left - 1
        /\ UNCHANGED <<change, told, lost, main>>
    BY <1>4 DEF ChangeRoute, MoreChanges, mainVars
  <2>l. left \in 0..MaxChanges /\ left' \in 0..MaxChanges /\ Len(msgs) + left <= MaxChanges
    BY <2>2, Sizes DEF Round
  <2>3. CASE key \in ChangedKeys
    <3>1. UNCHANGED <<leaf1, msgs>>
      BY <2>1, <2>3 DEF Changes
    <3>2. Told'
      BY <2>2, <3>1 DEF Told, Round, ChangedKeys
    <3>3. Len(msgs) + left' <= MaxChanges
      BY <2>2, <2>l, Messages, Sizes
    <3> QED BY <2>2, <2>l, <3>1, <3>2, <3>3 DEF Round
  <2>4. CASE key \notin ChangedKeys
    <3>1. leaf1' = [leaf1 EXCEPT ![key] = val] /\ msgs' = Append(msgs, <<key, val>>)
      BY <2>1, <2>4 DEF Changes
    <3>2. leaf1' \in [Routes -> Nat] /\ leaf1'[key] = val
          /\ \A id \in Routes : id # key => leaf1'[id] = leaf1[id]
      BY <3>1, ValuesAreNumbers DEF Round
    <3>m. msgs \in Seq(Routes \X Vals) /\ <<key, val>> \in Routes \X Vals
      BY DEF Round
    <3>3. /\ msgs' \in Seq(Routes \X Vals) /\ Len(msgs') = Len(msgs) + 1
          /\ DOMAIN msgs' = 1..(Len(msgs) + 1) /\ msgs'[Len(msgs) + 1] = <<key, val>>
          /\ \A k \in 1..Len(msgs) : msgs'[k] = msgs[k]
      BY ONLY <3>1, <3>m
    <3>4. \A k \in DOMAIN msgs : msgs[k][1] # key /\ msgs[k][1] \in Routes
      BY <2>4, Keys, Messages
    <3>5. \A j, k \in DOMAIN msgs' : msgs'[j][1] = msgs'[k][1] => j = k
      <4> SUFFICES ASSUME NEW j \in DOMAIN msgs', NEW k \in DOMAIN msgs',
                          msgs'[j][1] = msgs'[k][1]
                   PROVE  j = k
        OBVIOUS
      <4>1. CASE j \in DOMAIN msgs /\ k \in DOMAIN msgs
        BY <3>3, <4>1, Messages DEF Round
      <4>2. CASE j \notin DOMAIN msgs \/ k \notin DOMAIN msgs
        BY <3>3, <3>4, <4>2, Messages
      <4> QED BY <4>1, <4>2
    <3>6. \A m \in Range(msgs') : m[2] = leaf1'[m[1]]
      <4> SUFFICES ASSUME NEW k \in DOMAIN msgs' PROVE msgs'[k][2] = leaf1'[msgs'[k][1]]
        BY DEF Range
      <4>1. CASE k \in DOMAIN msgs
        <5>1. msgs'[k] = msgs[k] /\ msgs[k][2] = leaf1[msgs[k][1]]
          BY <2>2, <3>3, <4>1, Messages DEF Round, Told, Range
        <5> QED BY <3>2, <3>4, <4>1, <5>1
      <4>2. CASE k \notin DOMAIN msgs
        BY <3>2, <3>3, <4>2, Messages
      <4> QED BY <4>1, <4>2
    <3>7. \A id : id \in ChangedKeys \cup {key} => id \in ChangedKeys'
      <4>1. \A id : id \in ChangedKeys' <=> \E k \in DOMAIN msgs' : msgs'[k][1] = id
        BY DEF ChangedKeys, Range
      <4>2. \A k \in DOMAIN msgs : k \in DOMAIN msgs' /\ msgs'[k] = msgs[k]
        BY <3>3, Messages
      <4>3. Len(msgs) + 1 \in DOMAIN msgs' /\ msgs'[Len(msgs) + 1][1] = key
        BY <3>3, Messages
      <4> QED BY <4>1, <4>2, <4>3, Keys
    <3>8. Told'
      <4>1. \A id \in Routes : id # key =>
              told[id] = leaf1[id] \/ id \in lost \/ id \in ChangedKeys
        BY DEF Round, Told
      <4> QED BY <2>2, <3>2, <3>6, <3>7, <4>1 DEF Told
    <3>9. Len(msgs') + left' <= MaxChanges /\ Len(msgs') <= MaxChanges
      BY <2>2, <2>l, <3>3, Messages, Sizes
    <3> QED BY <2>2, <2>l, <3>2, <3>3, <3>5, <3>8, <3>9 DEF Round
  <2> QED BY <2>3, <2>4
<1> QED BY <1>1, <1>2, <1>3, <1>4 DEF ChangeThread

\* Nobody else touches the messages, and main only starts the thread.
LEMMA StepRound == Round /\ [Next]_vars => Round'
<1> SUFFICES ASSUME Round, [Next]_vars PROVE Round'
  OBVIOUS
<1>1. ASSUME UNCHANGED <<leaf1, left, msgs, told, lost>>,
             change' = change \/ (change # "change" /\ change' # "change"),
             main' \in {"try", "change_made"} => change' \in {"none", "made"}
      PROVE  Round'
  <2>1. Told'
    BY <1>1 DEF Round, Told, ChangedKeys
  <2> QED BY <1>1, <2>1 DEF Round
<1>2. CASE StartThreads
  <2>1. /\ UNCHANGED <<leaf1, left, msgs, told, lost>>
        /\ \/ main = "try" /\ change' = "made"
           \/ main = "change_made" /\ change' = "sleep" /\ main' = "change_started"
           \/ change' = change /\ main' \in {"confd_made", "sleep"}
    BY <1>2 DEF StartThreads
  <2> QED BY <1>1, <2>1 DEF Round
<1>3. ASSUME UNCHANGED <<leaf1, left, msgs, told, lost, change>>,
             main' = main \/ main' \notin {"try", "change_made"}
      PROVE  Round'
  BY <1>1, <1>3 DEF Round
<1>4. CASE Asks \/ UNCHANGED vars
  BY <1>3, <1>4 DEF Asks, vars, mainVars, changeVars
<1>5. CASE Loop
  BY <1>3, <1>5 DEF Loop, LoopStarts, ControlReady, WorkerReady, StopReady, mainVars, changeVars
<1>6. CASE TimeIsUp \/ Interrupt
  BY <1>3, <1>6 DEF TimeIsUp, Interrupt, Finally, changeVars
<1>7. CASE JoinChange \/ StopLoop \/ JoinConfd \/ CloseDp
  BY <1>3, <1>7 DEF JoinChange, StopLoop, JoinConfd, CloseDp, changeVars
<1> QED BY <1>2, <1>4, <1>5, <1>6, <1>7, ChangeRound DEF Next, Main

\* However many routes and changes there are: the change server knows the values of the
\* routes, but for those about to be sent and those whose message was lost, and what is
\* about to be sent is the value that the route has (generate_changes).
THEOREM ServerIsTold == Spec => []Told
<1>1. Round => Told
  BY DEF Round
<1> QED BY <1>1, InitRound, StepRound, PTL DEF Spec

\* Where main can be.
MainSomewhere ==
    main \in {"try", "change_made", "change_started", "confd_made", "sleep", "join_change",
             "stop_loop", "join_confd", "close", "ended", "failed"}

\* Every step keeps it in one of these places.
LEMMA StepMain == MainSomewhere /\ [Next]_vars => MainSomewhere'
<1> SUFFICES ASSUME MainSomewhere, [Next]_vars PROVE MainSomewhere'
  OBVIOUS
<1> USE DEF MainSomewhere, mainVars, confdVars
<1>1. CASE ChangeThread
  BY <1>1 DEF ChangeThread, Wakes, ChangeRoute, SendChanges, CheckStop
<1>2. CASE Loop
  BY <1>2 DEF Loop, LoopStarts, ControlReady, WorkerReady, StopReady
<1>3. CASE Main \/ Interrupt
  BY <1>3 DEF Main, StartThreads, TimeIsUp, Interrupt, Finally, JoinChange, StopLoop,
              JoinConfd, CloseDp
<1>4. CASE Asks
  BY <1>4 DEF Asks
<1>5. CASE UNCHANGED vars
  BY <1>5 DEF vars
<1> QED BY <1>1, <1>2, <1>3, <1>4, <1>5 DEF Next

\* The messages of a round are no more than its changes, the index told to ConfD is one
\* of the list, there is one byte in the stop pipe at most: the three parts together
\* (generate_changes, cb_get_next, stop_confd_loop).
THEOREM TypeCorrect == Spec => []TypeOK
<1>1. Init => InOrder /\ MainSomewhere
  BY Sizes DEF Init, InOrder, WalksInOrder, MainSomewhere
<1>2. IInv /\ InOrder /\ Round /\ MainSomewhere => TypeOK
  BY DEF IInv, Pipe, InOrder, Round, MainSomewhere, TypeOK
<1> QED BY <1>1, <1>2, InitInvariant, StepInvariant, StepInOrder, InitRound, StepRound,
           StepMain, PTL DEF Spec
===============================================================================
