----------------------- MODULE SubscriptionHandlerProofs -----------------------
(****************************************************************************)
(* Lemmas about SubscriptionHandler on which the theorems about both device *)
(* adapters rest: sequences of updates and what a client makes of them, the *)
(* queues, and the steps in which no code of a device adapter runs.         *)
(****************************************************************************)
EXTENDS SubscriptionHandler, TLAPS

LOCAL INSTANCE WellFoundedInduction

----------------------------------------------------------------------------
(* Facts about sequences.                                                   *)

\* The empty sequence.
LEMMA EmptySeq == ASSUME NEW S PROVE <<>> \in Seq(S)
  OBVIOUS

\* A sequence is a function on the numbers up to its length.
LEMMA LenProperties ==
    ASSUME NEW S, NEW seq \in Seq(S)
    PROVE  /\ Len(seq) \in Nat /\ DOMAIN seq = 1..Len(seq)
           /\ seq \in [1..Len(seq) -> S]
  OBVIOUS

\* The elements of a sequence.
LEMMA ElementOfSeq ==
    ASSUME NEW S, NEW seq \in Seq(S), NEW n \in 1..Len(seq)
    PROVE  seq[n] \in S
  OBVIOUS

\* One more element.
LEMMA AppendProperties ==
    ASSUME NEW S, NEW seq \in Seq(S), NEW elt \in S
    PROVE  /\ Append(seq, elt) \in Seq(S)
           /\ Len(Append(seq, elt)) = Len(seq) + 1
           /\ \A i \in 1..Len(seq) : Append(seq, elt)[i] = seq[i]
           /\ Append(seq, elt)[Len(seq) + 1] = elt
  OBVIOUS

\* Two sequences in a row.
LEMMA ConcatProperties ==
    ASSUME NEW S, NEW s1 \in Seq(S), NEW s2 \in Seq(S)
    PROVE  s1 \o s2 \in Seq(S)
  OBVIOUS

\* One element less.
LEMMA HeadTailProperties ==
    ASSUME NEW S, NEW seq \in Seq(S), seq # <<>>
    PROVE  /\ Head(seq) \in S /\ Tail(seq) \in Seq(S)
           /\ Len(Tail(seq)) = Len(seq) - 1
           /\ \A i \in 1..Len(Tail(seq)) : Tail(seq)[i] = seq[i + 1]
  OBVIOUS

----------------------------------------------------------------------------
(* Facts about sequences of updates.                                        *)

\* A nonempty set of natural numbers that has an upper bound has a greatest
\* element.
LEMMA GreatestElement ==
    ASSUME NEW n \in Nat, NEW T, T \subseteq 1..n, T # {}
    PROVE  \E i \in T : \A j \in T : j <= i
<1> DEFINE U == {k \in 0..n : n - k \in T}
<1>1. U \subseteq Nat
  OBVIOUS
<1>2. \A i \in T : n - i \in U
  OBVIOUS
<1>3. PICK x \in U : \A y \in U : ~ (<<y, x>> \in OpToRel(<, Nat))
  <2>1. U # {}
    BY <1>2
  <2> HIDE DEF U
  <2> QED BY <1>1, <2>1, NatLessThanWellFounded, WFMin
<1>4. \A y \in U : ~ (y < x)
  BY <1>1, <1>3 DEF OpToRel
<1>5. \A j \in T : j <= n - x
  BY <1>2, <1>4
<1> QED BY <1>5

\* The last update of a leaf that is mentioned exists: Last is well defined.
LEMMA LastExists ==
    ASSUME NEW S, NEW updates \in Seq(S), NEW p, Mentions(updates, p)
    PROVE  /\ Last(updates, p) \in DOMAIN updates
           /\ updates[Last(updates, p)].path = p
           /\ \A j \in DOMAIN updates : j > Last(updates, p) => updates[j].path # p
<1> DEFINE T == {i \in DOMAIN updates : updates[i].path = p}
<1>1. Len(updates) \in Nat /\ DOMAIN updates = 1..Len(updates)
  BY LenProperties
<1>2. T \subseteq 1..Len(updates) /\ T # {}
  BY <1>1 DEF Mentions
<1>3. PICK i \in T : \A j \in T : j <= i
  <2> HIDE DEF T
  <2> QED BY <1>1, <1>2, GreatestElement
<1>4. \E k \in DOMAIN updates :
        /\ updates[k].path = p
        /\ \A j \in DOMAIN updates : j > k => updates[j].path # p
  BY <1>1, <1>3
<1> QED BY <1>4 DEF Last

\* A function on 1..n is a sequence.
LEMMA FunctionIsSeq ==
    ASSUME NEW S, NEW n \in Nat, NEW f \in [1..n -> S]
    PROVE  f \in Seq(S)
  OBVIOUS

\* What the client knows after a response has the type it had before.
LEMMA ApplyType ==
    ASSUME NEW V, NEW N, \A u \in N : u.path \in Paths => u.val \in V,
           NEW updates \in Seq(N), NEW told \in [Paths -> V \cup {None}]
    PROVE  Apply(updates, told) \in [Paths -> V \cup {None}]
<1>1. ASSUME NEW p \in Paths, Mentions(updates, p)
      PROVE  updates[Last(updates, p)].val \in V
  <2>1. Last(updates, p) \in DOMAIN updates /\ updates[Last(updates, p)].path = p
    BY <1>1, LastExists
  <2>2. updates[Last(updates, p)] \in N
    BY <2>1, ElementOfSeq, LenProperties
  <2> QED BY <2>1, <2>2
<1> QED BY <1>1 DEF Apply

\* An index with the defining property of Last is Last.
LEMMA LastUnique ==
    ASSUME NEW S, NEW updates \in Seq(S), NEW p, NEW i \in DOMAIN updates,
           updates[i].path = p,
           \A j \in DOMAIN updates : j > i => updates[j].path # p
    PROVE  Last(updates, p) = i
<1>1. Mentions(updates, p)
  BY DEF Mentions
<1>2. /\ Last(updates, p) \in DOMAIN updates
      /\ updates[Last(updates, p)].path = p
      /\ \A j \in DOMAIN updates : j > Last(updates, p) => updates[j].path # p
  BY <1>1, LastExists
<1>3. DOMAIN updates = 1..Len(updates) /\ Len(updates) \in Nat
  BY LenProperties
<1> QED BY <1>2, <1>3

\* longer is updates with u at its end, index by index.
Extended(S, longer, updates, u) ==
    /\ longer \in Seq(S)
    /\ DOMAIN longer = 1..(Len(updates) + 1)
    /\ \A i \in 1..Len(updates) : longer[i] = updates[i]
    /\ longer[Len(updates) + 1] = u

\* Append adds an element at the end.
LEMMA AppendExtends ==
    ASSUME NEW S, NEW updates \in Seq(S), NEW u \in S
    PROVE  Extended(S, Append(updates, u), updates, u)
  BY DEF Extended

\* One more update: it is the last one for its leaf and leaves the last ones
\* of the other leaves alone.
LEMMA LastAppend ==
    ASSUME NEW S, NEW updates \in Seq(S), NEW u \in S, NEW p,
           NEW longer, Extended(S, longer, updates, u)
    PROVE  /\ Mentions(longer, p) <=> Mentions(updates, p) \/ u.path = p
           /\ u.path = p => longer[Last(longer, p)] = u
           /\ u.path # p /\ Mentions(updates, p) =>
                longer[Last(longer, p)] = updates[Last(updates, p)]
<1>1. /\ DOMAIN updates = 1..Len(updates) /\ Len(updates) \in Nat
      /\ longer \in Seq(S) /\ DOMAIN longer = 1..(Len(updates) + 1)
      /\ \A i \in DOMAIN updates : longer[i] = updates[i]
      /\ longer[Len(updates) + 1] = u
  BY LenProperties DEF Extended
<1>2. Mentions(longer, p) <=> Mentions(updates, p) \/ u.path = p
  <2>1. ASSUME Mentions(updates, p) PROVE Mentions(longer, p)
    <3>1. PICK i \in DOMAIN updates : updates[i].path = p
      BY <2>1 DEF Mentions
    <3>2. i \in DOMAIN longer /\ longer[i].path = p
      BY <1>1, <3>1
    <3> QED BY <3>2 DEF Mentions
  <2>2. ASSUME u.path = p PROVE Mentions(longer, p)
    <3>1. Len(updates) + 1 \in DOMAIN longer
      BY <1>1
    <3> QED BY <1>1, <2>2, <3>1 DEF Mentions
  <2>3. ASSUME Mentions(longer, p), u.path # p PROVE Mentions(updates, p)
    <3>1. PICK i \in DOMAIN longer : longer[i].path = p
      BY <2>3 DEF Mentions
    <3>2. i \in DOMAIN updates /\ updates[i].path = p
      BY <1>1, <2>3, <3>1
    <3> QED BY <3>2 DEF Mentions
  <2> QED BY <2>1, <2>2, <2>3
<1>3. ASSUME u.path = p PROVE longer[Last(longer, p)] = u
  <2>1. Last(longer, p) = Len(updates) + 1
    BY <1>1, <1>3, LastUnique
  <2> QED BY <1>1, <2>1
<1>4. ASSUME u.path # p, Mentions(updates, p)
      PROVE  longer[Last(longer, p)] = updates[Last(updates, p)]
  <2>1. /\ Last(updates, p) \in DOMAIN updates
        /\ updates[Last(updates, p)].path = p
        /\ \A j \in DOMAIN updates : j > Last(updates, p) => updates[j].path # p
    BY <1>4, LastExists
  <2>2. /\ Last(updates, p) \in DOMAIN longer
        /\ longer[Last(updates, p)].path = p
    BY <1>1, <2>1
  <2>3. \A j \in DOMAIN longer : j > Last(updates, p) => longer[j].path # p
    BY <1>1, <1>4, <2>1
  <2>4. Last(longer, p) = Last(updates, p)
    BY <1>1, <2>2, <2>3, LastUnique
  <2> QED BY <1>1, <2>1, <2>4
<1> QED BY <1>2, <1>3, <1>4

\* Nothing to apply.
LEMMA ApplyEmpty ==
    ASSUME NEW told, NEW p \in Paths
    PROVE  ~Mentions(<<>>, p) /\ Apply(<<>>, told)[p] = told[p]
<1>1. ~Mentions(<<>>, p)
  BY DEF Mentions
<1> QED BY <1>1 DEF Apply

\* One more update names its leaf, and no other is forgotten.
LEMMA MentionsAppend ==
    ASSUME NEW S, NEW updates \in Seq(S), NEW u \in S, NEW p
    PROVE  Mentions(Append(updates, u), p) <=> Mentions(updates, p) \/ u.path = p
<1>1. PICK longer : longer = Append(updates, u)
  OBVIOUS
<1>2. Extended(S, longer, updates, u)
  BY <1>1, AppendExtends
<1>3. Mentions(longer, p) <=> Mentions(updates, p) \/ u.path = p
  BY ONLY updates \in Seq(S), u \in S, <1>2, LastAppend
<1> QED BY ONLY <1>1, <1>3

\* One more update: it decides what the client knows of its leaf.
LEMMA ApplyExtended ==
    ASSUME NEW S, NEW updates \in Seq(S), NEW u \in S, NEW p \in Paths, NEW told,
           NEW longer, Extended(S, longer, updates, u)
    PROVE  /\ Mentions(longer, p) <=> Mentions(updates, p) \/ u.path = p
           /\ Apply(longer, told)[p] = IF u.path = p THEN u.val ELSE Apply(updates, told)[p]
<1>1. /\ Mentions(longer, p) <=> Mentions(updates, p) \/ u.path = p
      /\ u.path = p => longer[Last(longer, p)] = u
      /\ u.path # p /\ Mentions(updates, p) =>
           longer[Last(longer, p)] = updates[Last(updates, p)]
  BY ONLY updates \in Seq(S), u \in S, Extended(S, longer, updates, u), LastAppend
<1>2. Apply(longer, told)[p] = IF u.path = p THEN u.val ELSE Apply(updates, told)[p]
  BY ONLY p \in Paths, <1>1 DEF Apply
<1> QED BY ONLY <1>1, <1>2

\* The same of Append.
LEMMA ApplyAppend ==
    ASSUME NEW S, NEW updates \in Seq(S), NEW u \in S, NEW p \in Paths, NEW told
    PROVE  /\ Mentions(Append(updates, u), p) <=> Mentions(updates, p) \/ u.path = p
           /\ Apply(Append(updates, u), told)[p] =
                IF u.path = p THEN u.val ELSE Apply(updates, told)[p]
<1>1. PICK longer : longer = Append(updates, u)
  OBVIOUS
<1>2. Extended(S, longer, updates, u)
  BY <1>1, AppendExtends
<1>3. /\ Mentions(longer, p) <=> Mentions(updates, p) \/ u.path = p
      /\ Apply(longer, told)[p] = IF u.path = p THEN u.val ELSE Apply(updates, told)[p]
  BY ONLY updates \in Seq(S), u \in S, p \in Paths, <1>2, ApplyExtended
<1> QED BY ONLY <1>1, <1>3

\* An event waits in a longer queue if it did before or is the new one.
LEMMA HoldsAppend ==
    ASSUME NEW S, NEW queue \in Seq(S), NEW e \in S, NEW x
    PROVE  Holds(Append(queue, e), x) <=> Holds(queue, x) \/ e = x
<1> USE DEF Holds
<1>1. ASSUME Holds(queue, x) PROVE Holds(Append(queue, e), x)
  <2>1. PICK i \in DOMAIN queue : queue[i] = x
    BY <1>1
  <2>2. i \in DOMAIN Append(queue, e) /\ Append(queue, e)[i] = x
    BY <2>1
  <2> QED BY <2>2
<1>2. ASSUME e = x PROVE Holds(Append(queue, e), x)
  <2>1. /\ Len(queue) + 1 \in DOMAIN Append(queue, e)
        /\ Append(queue, e)[Len(queue) + 1] = x
    BY <1>2
  <2> QED BY <2>1
<1>3. ASSUME Holds(Append(queue, e), x), e # x PROVE Holds(queue, x)
  <2>1. PICK i \in DOMAIN Append(queue, e) : Append(queue, e)[i] = x
    BY <1>3
  <2>2. i \in DOMAIN queue /\ queue[i] = x
    BY <1>3, <2>1
  <2> QED BY <2>2
<1> QED BY <1>1, <1>2, <1>3

\* An event that waits is the next one or waits behind it.
LEMMA HoldsTail ==
    ASSUME NEW S, NEW queue \in Seq(S), queue # <<>>, NEW x, Holds(queue, x)
    PROVE  Head(queue) = x \/ Holds(Tail(queue), x)
<1>1. PICK i \in DOMAIN queue : queue[i] = x
  BY DEF Holds
<1>2. CASE i = 1
  BY <1>1, <1>2
<1>3. CASE i # 1
  <2>1. i - 1 \in DOMAIN Tail(queue) /\ Tail(queue)[i - 1] = x
    BY <1>1, <1>3
  <2> QED BY <2>1 DEF Holds
<1> QED BY <1>2, <1>3

----------------------------------------------------------------------------
(* The steps in which no code of a device adapter runs.                     *)

\* At the start.
LEMMA HandlerTypesInit ==
    ASSUME NEW V, NEW N, HandlerInit PROVE HandlerTypeOK(V, N)
<1>1. read_queue \in Seq(Events) /\ response \in Seq(N)
  BY EmptySeq DEF HandlerInit
<1>2. view \in [Paths -> V \cup {None}]
  BY DEF HandlerInit
<1>3. reader \in ReaderStates
  BY DEF HandlerInit, ReaderStates
<1>4. first_sample \in BOOLEAN /\ half_closed \in BOOLEAN
  BY Zenon DEF HandlerInit
<1>5. requests \in Nat /\ polls \in 0..MaxPolls
  BY MaxPollsNat DEF HandlerInit
<1> QED BY <1>1, <1>2, <1>3, <1>4, <1>5 DEF HandlerInit, HandlerTypeOK

\* A yield, whatever follows it.
LEMMA TypeOKYield ==
    ASSUME NEW V, NEW N, HandlerTypeOK(V, N), NEW next \in ReaderStates, Yield(next),
           Apply(response, view) \in [Paths -> V \cup {None}]
    PROVE  /\ view' \in [Paths -> V \cup {None}]
           /\ response' \in Seq(N)
           /\ reader' \in ReaderStates
<1>1. "dropped" \in ReaderStates
  BY DEF ReaderStates
<1>2. << >> \in Seq(N)
  BY EmptySeq
<1> QED BY <1>1, <1>2 DEF Yield, HandlerTypeOK

\* They keep the types, if what is to be told to the client can be applied.
LEMMA HandlerTypes ==
    ASSUME NEW V, NEW N, HandlerTypeOK(V, N), CommonNext,
           Apply(response, view) \in [Paths -> V \cup {None}]
    PROVE  HandlerTypeOK(V, N)'
<1> USE DEF HandlerTypeOK, rpcVars, readVars, clientVars
<1>1. CASE ClientRequest
  BY <1>1, MaxPollsNat DEF ClientRequest
<1>2. CASE ClientHalfClose
  BY <1>2 DEF ClientHalfClose
<1>3. CASE ClientCancel
  BY <1>3 DEF ClientCancel
<1>4. CASE RpcDone
  BY <1>4 DEF RpcDone, Events
<1>5. CASE ReadSubRequest
  BY <1>5 DEF ReadSubRequest, Events
<1>6. CASE SubRequestsEnd
  BY <1>6 DEF SubRequestsEnd, Events
<1>7. CASE AcceptRequest
  BY <1>7 DEF AcceptRequest, ReaderStates
<1>8. CASE RefuseRequest
  BY <1>8 DEF RefuseRequest, ReaderStates
<1>9. CASE MakeHandler
  BY <1>9 DEF MakeHandler, ReaderStates
<1>10. CASE YieldSample
  BY <1>10, TypeOKYield DEF YieldSample, ReaderStates
<1>11. CASE YieldSync
  BY <1>11, TypeOKYield DEF YieldSync, ReaderStates
<1>12. CASE YieldChanges
  BY <1>12, TypeOKYield DEF YieldChanges, ReaderStates
<1>13. CASE GetEvent
  BY <1>13 DEF GetEvent, ReaderStates, Events
<1>14. CASE JoinRequests
  BY <1>14 DEF JoinRequests, ReaderStates
<1> QED BY <1>1, <1>2, <1>3, <1>4, <1>5, <1>6, <1>7, <1>8, <1>9, <1>10, <1>11, <1>12, <1>13, <1>14
        DEF CommonNext, ClientNext, RequesterNext, ReaderCommonNext

\* The first sample has been taken once monitoring may have started, and a response
\* that was yielded is gone when read() waits for an event or goes for the changes.
HandlerOrder ==
    /\ first_sample => reader \in {"accept", "accepted", "sample", "yield_sample",
                                   "yield_sync", "failed", "dropped"}
    /\ reader \in {"accept", "accepted"} => first_sample
    /\ reader \in {"get", "changes"} => response = <<>>

\* The first sample is not complete.
Fresh == first_sample /\ reader \in {"accept", "accepted", "sample"}

\* The client is told the response, or not.
Told ==
    \/ UNCHANGED <<view, response>>
    \/ view' = Apply(response, view) /\ response' = <<>>

\* Telling the client a response changes nothing of what it ends up with.
LEMMA ApplyTold ==
    ASSUME Told, NEW p \in Paths
    PROVE  /\ Apply(response', view')[p] = Apply(response, view)[p]
           /\ view'[p] # None \/ Mentions(response', p) =>
                view[p] # None \/ Mentions(response, p)
<1>1. CASE UNCHANGED <<view, response>>
  BY <1>1
<1>2. CASE view' = Apply(response, view) /\ response' = <<>>
  <2>1. ~Mentions(response', p) /\ Apply(response', view')[p] = view'[p]
    BY <1>2, ApplyEmpty
  <2>2. view'[p] = Apply(response, view)[p]
    BY <1>2
  <2>3. view'[p] # None => view[p] # None \/ Mentions(response, p)
    BY <2>2 DEF Apply
  <2> QED BY <2>1, <2>2, <2>3
<1> QED BY <1>1, <1>2 DEF Told

\* What an event makes of the reader.
LEMMA GetEventCases ==
    ASSUME read_queue \in Seq(Events), GetEvent
    PROVE  /\ Head(read_queue) \in Events
           /\ reader' = IF Head(read_queue) = "SAMPLE" THEN "sample"
                        ELSE IF Head(read_queue) = "SEND_CHANGES" THEN "changes"
                        ELSE IF mode = "STREAM" THEN "stop" ELSE "join_requests"
<1>1. Head(read_queue) \in Events
  BY HeadTailProperties DEF GetEvent
<1> QED BY <1>1 DEF GetEvent, Events

\* They keep that order, begin no second first sample, tell the client whole responses,
\* and take an announcement of changes only to go for them.
LEMMA HandlerSteps ==
    ASSUME NEW V, NEW N, HandlerTypeOK(V, N), HandlerOrder, CommonNext
    PROVE  /\ HandlerOrder' /\ (Fresh' => Fresh) /\ Told /\ mode' = mode
           /\ Holds(read_queue, "SEND_CHANGES") =>
                Holds(read_queue', "SEND_CHANGES") \/ reader' = "changes"
           /\ reader = "changes" => reader' = "changes"
<1>q. read_queue \in Seq(Events) /\ rpc \in {"active", "ended"}
  BY DEF HandlerTypeOK
<1>e. \A e \in Events : Holds(read_queue, "SEND_CHANGES") => Holds(Append(read_queue, e), "SEND_CHANGES")
  BY <1>q, HoldsAppend
<1> USE DEF HandlerOrder, Fresh, Told, rpcVars, readVars, clientVars
<1>1. CASE ClientNext
  BY <1>1 DEF ClientNext, ClientRequest, ClientHalfClose, ClientCancel
<1>2. CASE RpcDone
  BY <1>2, <1>e DEF RpcDone, Events
<1>3. CASE ReadSubRequest
  BY <1>3, <1>e DEF ReadSubRequest, Events
<1>4. CASE SubRequestsEnd
  BY <1>4, <1>e DEF SubRequestsEnd, Events
<1>5. CASE AcceptRequest
  BY <1>5 DEF AcceptRequest
<1>6. CASE RefuseRequest
  BY <1>6 DEF RefuseRequest
<1>7. CASE MakeHandler
  BY <1>7 DEF MakeHandler
<1>8. CASE YieldSample
  BY <1>8 DEF YieldSample, Yield
<1>9. CASE YieldSync
  BY <1>9, <1>q DEF YieldSync, Yield
<1>10. CASE YieldChanges
  BY <1>10 DEF YieldChanges, Yield
<1>11. CASE GetEvent
  <2>1. /\ reader = "get" /\ read_queue # <<>> /\ read_queue' = Tail(read_queue)
        /\ UNCHANGED <<mode, first_sample, response, view>>
    BY <1>11 DEF GetEvent
  <2>2. reader' = IF Head(read_queue) = "SAMPLE" THEN "sample"
                  ELSE IF Head(read_queue) = "SEND_CHANGES" THEN "changes"
                  ELSE IF mode = "STREAM" THEN "stop" ELSE "join_requests"
    BY <1>11, <1>q, GetEventCases
  <2>3. Holds(read_queue, "SEND_CHANGES") =>
          Head(read_queue) = "SEND_CHANGES" \/ Holds(read_queue', "SEND_CHANGES")
    BY <1>q, <2>1, HoldsTail
  <2> QED BY <2>1, <2>2, <2>3
<1>12. CASE JoinRequests
  BY <1>12 DEF JoinRequests
<1> QED BY <1>1, <1>2, <1>3, <1>4, <1>5, <1>6, <1>7, <1>8, <1>9, <1>10, <1>11, <1>12
        DEF CommonNext, RequesterNext, ReaderCommonNext
===============================================================================
