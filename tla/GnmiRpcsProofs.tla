----------------------------- MODULE GnmiRpcsProofs -----------------------------
(****************************************************************************)
(* Theorems about GnmiRpcs: however RPCs and the transactions of other      *)
(* managers interleave, the answer of a Get has what ConfD had during the   *)
(* call, and a Set applies its updates and its deletions as a whole each.   *)
(****************************************************************************)
EXTENDS GnmiRpcs, FiniteSetTheorems, TLAPS

\* Zenon first: most steps are about one worker out of all and need no arithmetic.
USE Zenon, SMT

----------------------------------------------------------------------------
(* What ConfD has.                                                          *)

Data == [All -> {None} \cup Vals]

\* A nonempty set of numbers has a least element.
LEMMA LeastElement ==
    ASSUME NEW U, U \subseteq Nat, U # {}
    PROVE  \E x \in U : \A y \in U : ~ (y < x)
<1>1. IsWellFoundedOn(OpToRel(<, Nat), Nat)
  BY NatLessThanWellFounded
<1>2. \E x \in U : \A y \in U : ~ (<<y, x>> \in OpToRel(<, Nat))
  BY <1>1, WFMin
<1> QED BY <1>2 DEF OpToRel

\* A nonempty set of numbers up to n has a greatest element: Max is well defined.
LEMMA MaxExists ==
    ASSUME NEW n \in Nat, NEW T, T \subseteq 1..n, T # {}
    PROVE  Max(T) \in T
<1> DEFINE U == {k \in 0..n : n - k \in T}
<1>1. U \subseteq Nat /\ \A k \in T : n - k \in U
  OBVIOUS
<1>2. PICK x \in U : \A y \in U : ~ (y < x)
  <2>1. U # {}
    BY <1>1
  <2> HIDE DEF U
  <2> QED BY <1>1, <2>1, LeastElement
<1>3. n - x \in T /\ \A j \in T : n - x >= j
  BY <1>1, <1>2
<1> QED BY <1>3 DEF Max

\* A transaction leaves every leaf with a value, or with none.
LEMMA WriteType ==
    ASSUME NEW d \in Data, NEW W, W \subseteq ({None} \cup Vals),
           NEW N, NEW writes \in Seq(N \X W)
    PROVE  Write(d, writes) \in Data
<1> DEFINE to(n) == {k \in DOMAIN writes : writes[k][1] = n}
<1>1. Len(writes) \in Nat /\ DOMAIN writes = 1..Len(writes)
  OBVIOUS
<1>2. \A k \in DOMAIN writes : writes[k][2] \in W
  BY <1>1
<1>3. ASSUME NEW n \in All, to(n) # {}
      PROVE  writes[Max(to(n))][2] \in {None} \cup Vals
  <2>1. to(n) \subseteq 1..Len(writes)
    BY <1>1
  <2>2. Max(to(n)) \in to(n)
    <3> HIDE DEF to
    <3> QED BY <1>1, <1>3, <2>1, MaxExists
  <2> QED BY <1>2, <2>2
<1>4. DOMAIN d = All /\ \A n \in All : d[n] \in {None} \cup Vals
  BY DEF Data
<1> HIDE DEF to
<1>5. [n \in All |-> IF to(n) = {} THEN d[n] ELSE writes[Max(to(n))][2]] \in Data
  BY <1>3, <1>4 DEF Data
<1>6. Write(d, writes) = [n \in All |-> IF to(n) = {} THEN d[n] ELSE writes[Max(to(n))][2]]
  BY <1>4 DEF Write, to
<1> QED BY <1>5, <1>6

----------------------------------------------------------------------------
(* The inductive invariant.                                                 *)

Reads == UNION {[S -> {None} \cup Vals] : S \in SUBSET All}

OpResults == (Seq(Names) \cup Leaves) \X {"UPDATE", "DELETE"}

\* The types of what TypeOK leaves open.
Types ==
    /\ past \in Seq(Data) /\ Len(past) > 0
    /\ i \in [Workers -> Nat]
    /\ ups \in [Workers -> Seq(Reads)]
    /\ ops \in [Workers -> Seq(OpResults)]
    /\ begun \in [Workers -> Nat]
    /\ failed \in [Workers -> SUBSET Nat]
    /\ DOMAIN written = Workers

\* Where an RPC is, and which one it is.
Place(w) ==
    /\ pc[w] = "idle" <=> req[w] = NoRequest
    /\ pc[w] = "caps" => req[w].op = "caps"
    /\ pc[w] = "encoding" => req[w].op \in {"get", "set"}
    /\ pc[w] = "get" => req[w].op = "get"
    /\ pc[w] \in {"set", "delete"} => req[w].op = "set"
    /\ pc[w] \in {"idle", "connect"} => ups[w] = <<>> /\ failed[w] = {}
    /\ pc[w] = "connect" => i[w] = 1
    /\ pc[w] # "idle" => begun[w] > 0

\* What a Set has done at each place.
SetProgress(w) ==
    /\ pc[w] \notin {"delete", "done"} => written[w] = <<>> /\ ops[w] = <<>>
    /\ pc[w] = "delete" =>
          /\ written[w] = <<Updated(req[w]).writes>>
          /\ Len(ops[w]) = Len(req[w].updates)
    /\ Answered(w, "set", "ok") =>
          /\ written[w] = <<Updated(req[w]).writes, Deletions(req[w])>>
          /\ Len(ops[w]) = Len(req[w].updates) + Len(req[w].deletes)
    /\ Answered(w, "set", "error") => written[w] \in {<<>>, <<Updated(req[w]).writes>>}
    /\ Answered(w, "set", "unimplemented") => written[w] = <<>>

\* moment has, for every path that has been read, when that was.
Moments(w, moment) ==
    /\ moment \in [DOMAIN ups[w] -> begun[w]..Len(past)]
    /\ \A k \in DOMAIN moment : k > 1 => moment[k - 1] <= moment[k]
    /\ \A k \in DOMAIN moment :
          ups[w][k] = IF k \in failed[w] THEN <<>>
                      ELSE Content(past[moment[k]], req[w].paths[k], req[w].type)

\* What a Get has read so far; and that the prefix fits when it is answered.
GetProgress(w) ==
    /\ req[w].op = "get" => \E moment : Moments(w, moment)
    /\ Answered(w, "get", "ok") => \A k \in DOMAIN ups[w] : HasUpdate(w, k) => PrefixFits(w, k)

Rpc(w) == Place(w) /\ SetProgress(w) /\ GetProgress(w)

IInv == TypeOK /\ Types /\ \A w \in Workers : Rpc(w)

----------------------------------------------------------------------------
(* A step is about one worker, or about ConfD alone.                        *)

\* Nothing has happened to a worker.
Same(v) ==
    /\ req'[v] = req[v] /\ pc'[v] = pc[v] /\ i'[v] = i[v] /\ ups'[v] = ups[v]
    /\ ops'[v] = ops[v] /\ status'[v] = status[v] /\ begun'[v] = begun[v]
    /\ failed'[v] = failed[v] /\ written'[v] = written[v]

\* What ConfD has had stays what it was.
Grows ==
    /\ past' \in Seq(Data) /\ Len(past) <= Len(past')
    /\ \A k \in 1..Len(past) : past'[k] = past[k]
    /\ data' \in Data /\ past'[Len(past')] = data'

\* The variables of the workers are functions.
Rows ==
    /\ req \in [Workers -> Requests \cup {NoRequest}]
    /\ pc \in [Workers -> {"idle", "connect", "caps", "encoding", "get", "set", "delete", "done"}]
    /\ status \in [Workers -> {"none", "ok", "error", "unimplemented"}]
    /\ i \in [Workers -> Nat]
    /\ ups \in [Workers -> Seq(Reads)]
    /\ ops \in [Workers -> Seq(OpResults)]
    /\ begun \in [Workers -> Nat]
    /\ failed \in [Workers -> SUBSET Nat]
    /\ DOMAIN written = Workers

\* What TypeOK says of a worker.
RowOK(w) ==
    /\ status[w] # "none" <=> pc[w] = "done"
    /\ begun[w] \in 0..Len(past)
    /\ req[w].op = "caps" => i[w] \in 1..Cardinality(Modules) + 1
    /\ req[w].op = "get" =>
          /\ i[w] = Len(ups[w]) + 1 /\ Len(ups[w]) <= Len(req[w].paths)
          /\ failed[w] \subseteq DOMAIN ups[w]

\* The invariant, by workers.
LEMMA ByWorkers ==
    IInv <=> /\ data \in Data /\ past \in Seq(Data) /\ Len(past) > 0 /\ past[Len(past)] = data
             /\ txs \in 0..MaxTx
             /\ Rows
             /\ \A w \in Workers : RowOK(w) /\ Rpc(w)
  BY DEF IInv, TypeOK, Types, Rows, RowOK, Data, Last

\* A worker to whom nothing happens.
LEMMA OtherWorker ==
    ASSUME NEW v \in Workers, IInv, Grows, Same(v)
    PROVE  RowOK(v)' /\ Rpc(v)'
<1>1. past \in Seq(Data) /\ RowOK(v) /\ Rpc(v) /\ begun[v] \in Nat
  BY ByWorkers DEF Rows
<1>2. Len(past) \in Nat /\ Len(past') \in Nat /\ Len(past) <= Len(past')
  BY <1>1 DEF Grows
<1>3. RowOK(v)'
  BY <1>1, <1>2 DEF RowOK, Same
<1>4. Place(v)'
  BY <1>1 DEF Rpc, Place, Same
<1>5. SetProgress(v)'
  BY <1>1 DEF Rpc, SetProgress, Answered, Same
<1>6. ASSUME req[v].op = "get", NEW moment, Moments(v, moment)
      PROVE  Moments(v, moment)'
  <2>1. begun[v]..Len(past) \subseteq begun[v]..Len(past')
    BY <1>1, <1>2
  <2>2. moment \in [DOMAIN ups[v] -> begun[v]..Len(past')]
    BY <1>6, <2>1 DEF Moments
  <2>3. \A k \in DOMAIN moment : past'[moment[k]] = past[moment[k]]
    <3>1. TAKE k \in DOMAIN moment
    <3>2. moment[k] \in begun[v]..Len(past)
      BY <1>6 DEF Moments
    <3>3. begun[v] > 0
      BY <1>1, <1>6 DEF Rpc, Place, NoRequest
    <3>4. moment[k] \in 1..Len(past)
      BY <1>1, <1>2, <3>2, <3>3
    <3> QED BY <3>4 DEF Grows
  <2> QED BY <1>6, <2>2, <2>3 DEF Moments, Same
<1>7. GetProgress(v)'
  <2>1. req[v].op = "get" => \E moment : Moments(v, moment)'
    BY <1>1, <1>6 DEF Rpc, GetProgress
  <2> QED BY <1>1, <2>1 DEF Rpc, GetProgress, Answered, HasUpdate, PrefixFits, Same
<1> QED BY <1>3, <1>4, <1>5, <1>7 DEF Rpc

\* A step of a worker: the others are where they were.
LEMMA WorkerStep ==
    ASSUME NEW w \in Workers, IInv, Grows, txs' \in 0..MaxTx, Rows',
           \A v \in Workers \ {w} : Same(v),
           RowOK(w)', Rpc(w)'
    PROVE  IInv'
<1>1. \A v \in Workers : RowOK(v)' /\ Rpc(v)'
  BY OtherWorker
<1>2. past' \in Seq(Data) /\ Len(past') > 0 /\ data' \in Data /\ past'[Len(past')] = data'
  BY ByWorkers DEF Grows
<1> QED BY <1>1, <1>2 DEF IInv, TypeOK, Types, Rows, RowOK, Data, Last

\* Nothing changes in ConfD.
LEMMA GrowsNot == ASSUME IInv, UNCHANGED <<data, past>> PROVE Grows
  BY ByWorkers DEF Grows

\* A transaction is committed.
LEMMA GrowsByOne ==
    ASSUME IInv, NEW d \in Data, Commits(d)
    PROVE  Grows /\ Len(past') = Len(past) + 1
<1>1. past \in Seq(Data) /\ past' = Append(past, d) /\ data' = d
  BY ByWorkers DEF Commits
<1>2. past' \in Seq(Data) /\ Len(past') = Len(past) + 1 /\ Len(past) \in Nat
  BY <1>1
<1>3. \A k \in 1..Len(past) : past'[k] = past[k]
  BY <1>1
<1>4. past'[Len(past')] = d
  BY <1>1, <1>2
<1> QED BY <1>1, <1>2, <1>3, <1>4 DEF Grows

\* A row that is overwritten.
LEMMA SetRow ==
    ASSUME NEW f, DOMAIN f = Workers, NEW w \in Workers, NEW x
    PROVE  /\ Set(f, w, x)[w] = x
           /\ \A v \in Workers \ {w} : Set(f, w, x)[v] = f[v]
           /\ DOMAIN Set(f, w, x) = Workers
           /\ \A S : f \in [Workers -> S] /\ x \in S => Set(f, w, x) \in [Workers -> S]
  BY DEF Set

----------------------------------------------------------------------------
(* The steps.                                                               *)

\* What the requests of clients have.
LEMMA RequestFields ==
    ASSUME NEW r \in Requests
    PROVE  /\ r.op \in {"caps", "get", "set"} /\ r # NoRequest
           /\ r.op = "get" =>
                 /\ r.paths \in Seq(Seq(Names)) /\ r.prefix \in Seq(Seq(STRING))
                 /\ r.type \in {"ALL", "CONFIG", "STATE", "OPERATIONAL"}
           /\ r.op = "set" => r.updates \in Seq(Update) /\ r.deletes \in Seq(Leaves)
<1>1. r \in CapabilityRequest \/ r \in GetRequest \/ r \in SetRequest
  BY RequestsKnown
<1>2. CASE r \in CapabilityRequest
  BY <1>2 DEF CapabilityRequest, NoRequest
<1>3. CASE r \in GetRequest
  BY <1>3 DEF GetRequest, NoRequest
<1>4. CASE r \in SetRequest
  BY <1>4 DEF SetRequest, NoRequest
<1> QED BY <1>1, <1>2, <1>3, <1>4

\* A request is there unless a worker is idle.
LEMMA RequestOf ==
    ASSUME IInv, NEW w \in Workers, pc[w] # "idle"
    PROVE  req[w] \in Requests
  BY ByWorkers DEF Rows, Rpc, Place

\* The beginning of a Get: nothing has been read.
LEMMA NoMoments ==
    ASSUME NEW w \in Workers, ups'[w] = <<>>
    PROVE  (\E moment : Moments(w, moment))'
<1> DEFINE moment == [k \in {} |-> 0]
<1>1. DOMAIN ups'[w] = {}
  BY SMT
<1>2. moment \in [DOMAIN ups'[w] -> begun'[w]..Len(past')] /\ DOMAIN moment = {}
  BY <1>1
<1>3. Moments(w, moment)'
  BY <1>2 DEF Moments
<1> QED BY <1>3

\* A call begins with nothing read or written.
LEMMA CallStep ==
    ASSUME IInv, NEW w \in Workers, NEW r \in Requests, Call(w, r)
    PROVE  IInv'
<1>1. /\ Rows /\ RowOK(w) /\ Rpc(w) /\ past \in Seq(Data) /\ Len(past) > 0
      /\ txs \in 0..MaxTx
  BY ByWorkers
<1>2. Grows
  BY GrowsNot DEF Call
<1>3. Rows'
  <2>1. Len(past) \in Nat
    BY <1>1
  <2> QED BY <1>1, <2>1 DEF Rows, Call, Proceeds, Set
<1>4. \A v \in Workers \ {w} : Same(v)
  BY <1>1, SetRow DEF Rows, Same, Call, Proceeds
<1>5. /\ req'[w] = r /\ begun'[w] = Len(past) /\ i'[w] = 1 /\ pc'[w] = "connect"
      /\ status'[w] = status[w] /\ ups'[w] = <<>> /\ failed'[w] = {}
      /\ written'[w] = <<>> /\ ops'[w] = <<>> /\ status[w] = "none"
  BY <1>1, SetRow DEF Rows, Call, Proceeds, Rpc, Place, SetProgress, RowOK
<1>6. RowOK(w)'
  <2>1. Cardinality(Modules) \in Nat
    BY FewModules, FS_CardinalityType
  <2>2. Len(past') = Len(past) /\ Len(past) \in Nat
    BY <1>1 DEF Call
  <2>3. r.op = "get" => Len(r.paths) \in Nat
    BY RequestFields
  <2>4. Len(ups'[w]) = 0
    BY <1>5
  <2> QED BY <1>5, <2>1, <2>2, <2>3, <2>4 DEF RowOK
<1>7. Rpc(w)'
  <2>1. Place(w)'
    BY <1>1, <1>5, RequestFields DEF Place
  <2>2. SetProgress(w)'
    BY <1>5 DEF SetProgress, Answered
  <2>3. (\E moment : Moments(w, moment))'
    BY <1>5, NoMoments
  <2>4. GetProgress(w)'
    BY <1>5, <2>3 DEF GetProgress, Answered
  <2> QED BY <2>1, <2>2, <2>4 DEF Rpc
<1>8. txs' \in 0..MaxTx
  BY <1>1 DEF Call
<1> QED BY <1>2, <1>3, <1>4, <1>6, <1>7, <1>8, WorkerStep

\* A worker goes on, or answers, and nothing else changes.
LEMMA MoveStep ==
    ASSUME IInv, NEW w \in Workers,
           NEW p \in {"caps", "encoding", "get", "set", "done"},
           NEW s \in {"none", "ok", "error", "unimplemented"},
           pc' = Set(pc, w, p),
           status' = Set(status, w, s) \/ (UNCHANGED status /\ s = status[w]),
           UNCHANGED <<data, txs, past, req, i, ups, ops, begun, failed, written>>,
           pc[w] \notin {"idle", "done"}, p = "done" <=> s # "none",
           p = "caps" => req[w].op = "caps",
           p = "encoding" => req[w].op \in {"get", "set"},
           p = "get" => req[w].op = "get",
           p = "set" => req[w].op = "set",
           pc[w] = "delete" => s = "error",
           s = "ok" => req[w].op # "set",
           s = "ok" /\ req[w].op = "get" =>
              \A k \in DOMAIN ups[w] : HasUpdate(w, k) => PrefixFits(w, k)
    PROVE  IInv'
<1>1. /\ Rows /\ RowOK(w) /\ Rpc(w) /\ past \in Seq(Data) /\ Len(past) > 0
      /\ txs \in 0..MaxTx
  BY ByWorkers
<1>2. Grows
  BY GrowsNot
<1>3. Rows'
  BY <1>1 DEF Rows, Set
<1>4. \A v \in Workers \ {w} : Same(v)
  BY <1>1, SetRow DEF Rows, Same
<1>5. pc'[w] = p /\ status'[w] = s
  BY <1>1, SetRow DEF Rows
<1>6. RowOK(w)'
  BY <1>1, <1>5 DEF RowOK
<1>7. Place(w)'
  BY <1>1, <1>5 DEF Place, Rpc
<1>8. SetProgress(w)'
  <2>1. CASE p # "done"
    BY <1>1, <1>5, <2>1 DEF SetProgress, Rpc, Answered
  <2>2. CASE p = "done"
    BY <1>1, <1>5, <2>2 DEF SetProgress, Rpc, Answered
  <2> QED BY <2>1, <2>2
<1>9. GetProgress(w)'
  <2>1. req'[w].op = "get" => (\E moment : Moments(w, moment))'
    BY <1>1 DEF Rpc, GetProgress, Moments
  <2> QED BY <1>5, <2>1 DEF GetProgress, Answered, HasUpdate, PrefixFits
<1>10. Rpc(w)' /\ txs' \in 0..MaxTx
  BY <1>1, <1>7, <1>8, <1>9 DEF Rpc
<1> QED BY <1>2, <1>3, <1>4, <1>6, <1>10, WorkerStep

\* Where a worker is before its answer, it has no status.
LEMMA NoStatus ==
    ASSUME IInv, NEW w \in Workers, pc[w] # "done"
    PROVE  status[w] = "none"
  BY ByWorkers DEF RowOK

\* get_connected_adapter keeps the invariant.
LEMMA ConnectStep == ASSUME IInv, NEW w \in Workers, Connect(w) PROVE IInv'
<1>1. req[w].op \in {"caps", "get", "set"}
  BY RequestOf, RequestFields DEF Connect
<1>2. CASE Proceeds(w, IF req[w].op = "caps" THEN "caps" ELSE "encoding")
  BY <1>1, <1>2, NoStatus, MoveStep DEF Connect, Proceeds
<1>3. CASE Answer(w, "error")
  BY <1>3, MoveStep DEF Connect, Answer
<1> QED BY <1>2, <1>3 DEF Connect

\* The answer of Capabilities keeps the invariant.
LEMMA CapabilitiesStep == ASSUME IInv, NEW w \in Workers, Capabilities(w) PROVE IInv'
<1>1. req[w].op = "caps"
  BY ByWorkers DEF Rpc, Place, Capabilities
<1>2. PICK s \in {"ok", "error"} : Answer(w, s)
  BY DEF Capabilities
<1> QED BY <1>1, <1>2, MoveStep DEF Capabilities, Answer

\* So does verify_encoding_supported: what is refused has written nothing.
LEMMA VerifyEncodingStep == ASSUME IInv, NEW w \in Workers, VerifyEncoding(w) PROVE IInv'
<1>1. req[w].op \in {"get", "set"}
  BY ByWorkers DEF Rpc, Place, VerifyEncoding
<1>2. CASE Proceeds(w, req[w].op)
  BY <1>1, <1>2, NoStatus, MoveStep DEF VerifyEncoding, Proceeds
<1>3. CASE Answer(w, "unimplemented")
  BY <1>3, MoveStep DEF VerifyEncoding, Answer
<1> QED BY <1>2, <1>3 DEF VerifyEncoding

\* So does the answer of a Get: every update there is has a path that begins with the prefix.
LEMMA GetDoneStep == ASSUME IInv, NEW w \in Workers, GetDone(w) PROVE IInv'
<1>1. req[w].op = "get"
  BY ByWorkers DEF Rpc, Place, GetDone
<1>2. CASE \A k \in DOMAIN ups[w] : HasUpdate(w, k) => PrefixFits(w, k)
  BY <1>1, <1>2, MoveStep DEF GetDone, Answer
<1>3. CASE ~ \A k \in DOMAIN ups[w] : HasUpdate(w, k) => PrefixFits(w, k)
  BY <1>1, <1>3, MoveStep DEF GetDone, Answer
<1> QED BY <1>2, <1>3

\* So does get_netconf_capabilities: there are no more modules to read than there are.
LEMMA ReadModuleStep == ASSUME IInv, NEW w \in Workers, ReadModule(w) PROVE IInv'
<1>1. /\ Rows /\ RowOK(w) /\ Rpc(w) /\ past \in Seq(Data) /\ txs \in 0..MaxTx
  BY ByWorkers
<1>2. Grows
  BY GrowsNot DEF ReadModule
<1>3. req[w].op = "caps" /\ pc[w] = "caps"
  BY <1>1 DEF Rpc, Place, ReadModule
<1>4. i[w] \in Nat
  BY <1>1 DEF Rows
<1>5. Rows'
  BY <1>1, <1>4 DEF Rows, Set, ReadModule
<1>6. \A v \in Workers \ {w} : Same(v)
  BY <1>1, SetRow DEF Rows, Same, ReadModule
<1>7. i'[w] = i[w] + 1
  BY <1>1, SetRow DEF Rows, ReadModule
<1>8. RowOK(w)'
  <2>1. Cardinality(Modules) \in Nat
    BY FewModules, FS_CardinalityType
  <2> QED BY <1>1, <1>3, <1>7, <2>1 DEF RowOK, ReadModule, MoreModules
<1>9. Rpc(w)'
  BY <1>1, <1>3 DEF Rpc, Place, SetProgress, GetProgress, Answered, ReadModule
<1> QED BY <1>1, <1>2, <1>5, <1>6, <1>8, <1>9, WorkerStep DEF ReadModule

\* What is read for a path is what ConfD has now.
LEMMA ReadIsContent ==
    ASSUME NEW path, NEW type \in {"ALL", "CONFIG", "STATE", "OPERATIONAL"}
    PROVE  Restrict(data, Below(path, type)) = Content(data, path, type)
<1>1. OfType(type) = CASE type = "ALL" -> All [] type = "CONFIG" -> Leaves [] OTHER -> StateLeaves
  BY DEF OfType
<1> QED BY <1>1 DEF Below, Content

\* What is read has a type.
LEMMA ReadType ==
    ASSUME data \in Data, NEW path, NEW type \in {"ALL", "CONFIG", "STATE", "OPERATIONAL"}
    PROVE  Restrict(data, Below(path, type)) \in Reads
<1>1. Below(path, type) \subseteq All
  BY DEF Below, OfType, All
<1>2. Restrict(data, Below(path, type)) \in [Below(path, type) -> {None} \cup Vals]
  BY <1>1 DEF Restrict, Data
<1> QED BY <1>1, <1>2 DEF Reads

\* The moment of one more path is now.
LEMMA OneMoreMoment ==
    ASSUME IInv, NEW w \in Workers, GetUpdates(w), Grows, UNCHANGED <<past, req, begun>>,
           NEW x \in Reads, ups'[w] = Append(ups[w], x),
           \/ /\ x = Content(data, req[w].paths[i[w]], req[w].type)
              /\ failed'[w] = failed[w]
           \/ x = <<>> /\ failed'[w] = failed[w] \cup {i[w]}
    PROVE  (\E moment : Moments(w, moment))'
<1>1. /\ Rows /\ RowOK(w) /\ Rpc(w) /\ past \in Seq(Data) /\ past[Len(past)] = data
      /\ Len(past) > 0
  BY ByWorkers
<1>2. req[w].op = "get"
  BY <1>1 DEF Rpc, Place, GetUpdates
<1>3. PICK moment : Moments(w, moment)
  BY <1>1, <1>2 DEF Rpc, GetProgress
<1>4. /\ ups[w] \in Seq(Reads) /\ Len(ups[w]) \in Nat /\ i[w] = Len(ups[w]) + 1
      /\ DOMAIN ups[w] = 1..Len(ups[w])
      /\ failed[w] \subseteq DOMAIN ups[w]
  BY <1>1, <1>2 DEF Rows, RowOK
<1>5. /\ DOMAIN ups'[w] = 1..(Len(ups[w]) + 1)
      /\ \A k \in 1..Len(ups[w]) : ups'[w][k] = ups[w][k]
      /\ ups'[w][Len(ups[w]) + 1] = x
  BY <1>4
<1>6. /\ begun[w] \in Nat /\ begun[w] <= Len(past) /\ Len(past) \in Nat
  BY <1>1 DEF Rows, RowOK
<1>7. /\ moment \in [1..Len(ups[w]) -> begun[w]..Len(past)]
      /\ \A k \in 1..Len(ups[w]) : k > 1 => moment[k - 1] <= moment[k]
      /\ \A k \in 1..Len(ups[w]) :
          ups[w][k] = IF k \in failed[w] THEN <<>>
                      ELSE Content(past[moment[k]], req[w].paths[k], req[w].type)
  BY <1>3, <1>4 DEF Moments
<1>8. PICK later : later = [k \in 1..(Len(ups[w]) + 1) |->
                              IF k = Len(ups[w]) + 1 THEN Len(past) ELSE moment[k]]
  OBVIOUS
<1>9. /\ DOMAIN later = 1..(Len(ups[w]) + 1)
      /\ later[Len(ups[w]) + 1] = Len(past)
      /\ \A k \in 1..Len(ups[w]) : later[k] = moment[k]
      /\ later \in [DOMAIN ups'[w] -> begun[w]..Len(past)]
  BY <1>4, <1>5, <1>6, <1>7, <1>8
<1>10. \A k \in DOMAIN later : k > 1 => later[k - 1] <= later[k]
  <2>1. TAKE k \in DOMAIN later
  <2>2. HAVE k > 1
  <2>3. CASE k = Len(ups[w]) + 1
    <3>1. k - 1 \in 1..Len(ups[w])
      BY <1>4, <2>2, <2>3
    <3>2. later[k - 1] \in begun[w]..Len(past)
      BY <1>7, <1>9, <3>1
    <3> QED BY <1>6, <1>9, <2>3, <3>2
  <2>4. CASE k # Len(ups[w]) + 1
    <3>1. k \in 1..Len(ups[w]) /\ k - 1 \in 1..Len(ups[w])
      BY <1>4, <1>9, <2>2, <2>4
    <3> QED BY <1>7, <1>9, <2>2, <3>1
  <2> QED BY <2>3, <2>4
<1>11. ASSUME NEW k \in DOMAIN later
       PROVE  ups'[w][k] = IF k \in failed'[w] THEN <<>>
                           ELSE Content(past[later[k]], req[w].paths[k], req[w].type)
  <2>1. CASE k = Len(ups[w]) + 1
    <3>1. k = i[w] /\ k \notin failed[w] /\ ups'[w][k] = x /\ past[later[k]] = data
      BY <1>1, <1>4, <1>5, <1>9, <2>1
    <3> QED BY <3>1
  <2>2. CASE k # Len(ups[w]) + 1
    <3>1. k \in 1..Len(ups[w]) /\ k # i[w]
      BY <1>4, <1>9, <2>2
    <3>2. k \in failed'[w] <=> k \in failed[w]
      BY <3>1
    <3>3. ups'[w][k] = ups[w][k] /\ later[k] = moment[k]
      BY <1>5, <1>9, <3>1
    <3> QED BY <1>7, <3>1, <3>2, <3>3
  <2> QED BY <2>1, <2>2
<1>12. Moments(w, later)'
  <2>1. past' = past /\ req' = req /\ begun' = begun
    OBVIOUS
  <2>2. later \in [DOMAIN ups'[w] -> begun'[w]..Len(past')]
    BY <1>9, <2>1
  <2>3. \A k \in DOMAIN later :
          ups'[w][k] = IF k \in failed'[w] THEN <<>>
                       ELSE Content(past'[later[k]], req'[w].paths[k], req'[w].type)
    BY <1>11, <2>1
  <2> QED BY <1>10, <2>2, <2>3 DEF Moments
<1> QED BY <1>12

\* So does get_updates_with_maapi_save: what is read now is what ConfD has now.
LEMMA GetUpdatesStep == ASSUME IInv, NEW w \in Workers, GetUpdates(w) PROVE IInv'
<1>1. /\ Rows /\ RowOK(w) /\ Rpc(w) /\ past \in Seq(Data) /\ data \in Data /\ txs \in 0..MaxTx
  BY ByWorkers
<1>2. Grows
  BY GrowsNot DEF GetUpdates
<1>3. req[w].op = "get" /\ pc[w] = "get" /\ status[w] = "none" /\ req[w] \in Requests
  BY <1>1, RequestOf DEF Rpc, Place, RowOK, GetUpdates
<1>4. /\ i[w] \in Nat /\ ups[w] \in Seq(Reads) /\ failed[w] \in SUBSET Nat
      /\ i[w] = Len(ups[w]) + 1 /\ i[w] <= Len(req[w].paths)
      /\ failed[w] \subseteq 1..Len(ups[w]) /\ Len(ups[w]) \in Nat
  BY <1>1, <1>3 DEF Rows, RowOK, GetUpdates
<1>5. PICK x \in Reads :
         /\ ups' = Set(ups, w, Append(ups[w], x))
         /\ \/ x = Content(data, req[w].paths[i[w]], req[w].type) /\ UNCHANGED failed
            \/ x = <<>> /\ failed' = Set(failed, w, failed[w] \cup {i[w]})
  <2>1. req[w].type \in {"ALL", "CONFIG", "STATE", "OPERATIONAL"}
    BY <1>3, RequestFields
  <2>2. <<>> \in Reads
    <3>1. <<>> \in [{} -> {None} \cup Vals]
      BY SMT
    <3> QED BY <3>1 DEF Reads
  <2>3. Restrict(data, Below(req[w].paths[i[w]], req[w].type)) \in Reads
    BY <1>1, <2>1, ReadType
  <2> QED BY <2>1, <2>2, <2>3, ReadIsContent DEF GetUpdates
<1>6. Append(ups[w], x) \in Seq(Reads) /\ Len(Append(ups[w], x)) = Len(ups[w]) + 1
  BY <1>4
<1>7. /\ i' = Set(i, w, i[w] + 1)
       /\ UNCHANGED <<data, txs, past, req, pc, ops, status, begun, written>>
  BY DEF GetUpdates
<1>8. Rows'
  <2>1. failed[w] \cup {i[w]} \in SUBSET Nat /\ i[w] + 1 \in Nat
    BY <1>4
  <2>2. ups' \in [Workers -> Seq(Reads)]
    BY <1>1, <1>5, <1>6, SetRow DEF Rows
  <2>3. i' \in [Workers -> Nat]
    BY <1>1, <1>7, <2>1, SetRow DEF Rows
  <2>4. failed' \in [Workers -> SUBSET Nat]
    BY <1>1, <1>5, <2>1 DEF Rows, Set
  <2> QED BY <1>1, <1>7, <2>2, <2>3, <2>4 DEF Rows
<1>9. \A v \in Workers \ {w} : Same(v)
  BY <1>1, <1>5, <1>7, SetRow DEF Rows, Same
<1>10. /\ i'[w] = i[w] + 1 /\ ups'[w] = Append(ups[w], x)
      /\ \/ x = Content(data, req[w].paths[i[w]], req[w].type) /\ failed'[w] = failed[w]
         \/ x = <<>> /\ failed'[w] = failed[w] \cup {i[w]}
  <2>1. DOMAIN ups = Workers /\ DOMAIN failed = Workers /\ DOMAIN i = Workers
    BY <1>1 DEF Rows
  <2>2. i'[w] = i[w] + 1
    BY <1>7, <2>1, SetRow
  <2>3. ups'[w] = Append(ups[w], x)
    BY <1>5, <2>1 DEF Set
  <2>4. CASE x = Content(data, req[w].paths[i[w]], req[w].type) /\ UNCHANGED failed
    BY <2>2, <2>3, <2>4
  <2>5. CASE x = <<>> /\ failed' = Set(failed, w, failed[w] \cup {i[w]})
    <3>1. failed'[w] = failed[w] \cup {i[w]}
      BY <2>1, <2>5, SetRow
    <3> QED BY <2>2, <2>3, <2>5, <3>1
  <2> QED BY <1>5, <2>4, <2>5
<1>11. RowOK(w)'
  <2>1. DOMAIN ups'[w] = 1..(Len(ups[w]) + 1)
    BY <1>4, <1>10
  <2>2. failed'[w] \subseteq DOMAIN ups'[w]
    BY <1>4, <1>10, <2>1
  <2> QED BY <1>1, <1>3, <1>4, <1>6, <1>10, <2>2 DEF RowOK, GetUpdates
<1>12. (\E moment : Moments(w, moment))'
  BY <1>2, <1>10, OneMoreMoment DEF GetUpdates
<1>13. Rpc(w)'
  BY <1>1, <1>3, <1>12 DEF Rpc, Place, SetProgress, GetProgress, Answered, GetUpdates
<1> QED BY <1>1, <1>2, <1>8, <1>9, <1>11, <1>13, WorkerStep DEF GetUpdates

\* A function on the first n numbers is a sequence of that length.
LEMMA SeqOfLen ==
    ASSUME NEW S, NEW n \in Nat, NEW f \in [1..n -> S]
    PROVE  f \in Seq(S) /\ Len(f) = n
  OBVIOUS

\* Two sequences in a row, and two elements.
LEMMA TwoInARow ==
    ASSUME NEW S, NEW s \in Seq(S), NEW t \in Seq(S)
    PROVE  s \o t \in Seq(S) /\ Len(s \o t) = Len(s) + Len(t)
<1>1. s \o t \in Seq(S)
  OBVIOUS
<1>2. Len(s \o t) = Len(s) + Len(t)
  OBVIOUS
<1> QED BY <1>1, <1>2

\* A sequence of two elements.
LEMMA TwoElements == ASSUME NEW a, NEW b PROVE Append(<<a>>, b) = <<a, b>>
<1>1. PICK S : a \in S /\ b \in S
  <2>1. a \in {a, b} /\ b \in {a, b}
    OBVIOUS
  <2> QED BY <2>1
<1>2. <<a>> \in Seq(S) /\ <<a, b>> \in Seq(S)
  BY <1>1
<1>3. PICK s \in Seq(S) : s = <<a>>
  BY <1>2
<1>4. PICK t \in Seq(S) : t = <<a, b>>
  BY <1>2
<1>5. Append(s, b) \in Seq(S)
  BY <1>1
<1>6. Len(Append(s, b)) = 2 /\ Append(s, b)[1] = a /\ Append(s, b)[2] = b
  BY <1>1, <1>3
<1>7. Len(t) = 2 /\ t[1] = a /\ t[2] = b
  BY <1>4
<1>8. Append(s, b) = t
  BY <1>5, <1>6, <1>7
<1> QED BY <1>3, <1>4, <1>8

\* What is told for each path.
LEMMA ResultsType ==
    ASSUME NEW seq \in Seq(Seq(Names) \cup Leaves), NEW op \in {"UPDATE", "DELETE"}
    PROVE  Results(op, seq) \in Seq(OpResults) /\ Len(Results(op, seq)) = Len(seq)
<1>1. Len(seq) \in Nat /\ DOMAIN seq = 1..Len(seq)
  OBVIOUS
<1>2. \A k \in 1..Len(seq) : seq[k] \in Seq(Names) \cup Leaves
  OBVIOUS
<1>3. Results(op, seq) \in [1..Len(seq) -> OpResults]
  BY <1>1, <1>2 DEF Results, OpResults
<1> QED BY <1>1, <1>3, SeqOfLen

\* So does set: it applies all updates of the request or none.
LEMMA SetUpdatesStep == ASSUME IInv, NEW w \in Workers, SetUpdates(w) PROVE IInv'
<1>1. /\ Rows /\ RowOK(w) /\ Rpc(w) /\ past \in Seq(Data) /\ data \in Data /\ txs \in 0..MaxTx
  BY ByWorkers
<1>2. /\ req[w].op = "set" /\ pc[w] = "set" /\ status[w] = "none"
      /\ req[w] \in Requests /\ req[w].updates \in Seq(Update)
  BY <1>1, RequestOf, RequestFields DEF Rpc, Place, RowOK, SetUpdates
<1>3. CASE Answer(w, "error") /\ UNCHANGED <<data, past, written, ops>>
  BY <1>2, <1>3, MoveStep DEF SetUpdates, Answer
<1>4. ASSUME NEW t, t = Updated(req[w]), NEW paths,
             paths = [k \in DOMAIN req[w].updates |-> req[w].updates[k].path],
             Valid(t), Commits(Write(data, t.writes)),
             written' = Set(written, w, <<t.writes>>),
             ops' = Set(ops, w, Results("UPDATE", paths)),
             Proceeds(w, "delete")
      PROVE  IInv'
  <2>1. Write(data, t.writes) \in Data
    BY <1>1, <1>4, WriteType DEF Valid
  <2>2. Grows /\ Len(past') = Len(past) + 1
    BY <1>4, <2>1, GrowsByOne
  <2>3. paths \in Seq(Seq(Names) \cup Leaves) /\ Len(paths) = Len(req[w].updates)
    <3>1. Len(req[w].updates) \in Nat /\ DOMAIN req[w].updates = 1..Len(req[w].updates)
      BY <1>2
    <3>2. \A u \in Update : u.path \in Seq(Names)
      BY DEF Update
    <3>3. \A k \in 1..Len(req[w].updates) : req[w].updates[k] \in Update
      BY <1>2, <3>1
    <3>4. paths \in [1..Len(req[w].updates) -> Seq(Names) \cup Leaves]
      BY <1>4, <3>1, <3>2, <3>3
    <3> QED BY <3>1, <3>4, SeqOfLen
  <2>4. /\ Results("UPDATE", paths) \in Seq(OpResults)
        /\ Len(Results("UPDATE", paths)) = Len(req[w].updates)
    BY <2>3, ResultsType
  <2>5. UNCHANGED <<txs, req, i, ups, begun, failed, status>>
    BY <1>4 DEF SetUpdates, Proceeds
  <2>6. Rows'
    BY <1>1, <1>4, <2>4, <2>5 DEF Rows, Set, Proceeds
  <2>7. \A v \in Workers \ {w} : Same(v)
    BY <1>1, <1>4, <2>5, SetRow DEF Rows, Same, Proceeds
  <2>8. /\ pc'[w] = "delete" /\ written'[w] = <<t.writes>>
        /\ ops'[w] = Results("UPDATE", paths)
    BY <1>1, <1>4, SetRow DEF Rows, Proceeds
  <2>9. RowOK(w)'
    BY <1>1, <1>2, <2>2, <2>5, <2>8 DEF RowOK
  <2>10. Place(w)'
    BY <1>1, <1>2, <2>5, <2>8 DEF Rpc, Place
  <2>11. Updated(req'[w]) = t
    BY <1>4, <2>5
  <2>12. SetProgress(w)'
    BY <1>2, <2>4, <2>5, <2>8, <2>11 DEF SetProgress, Answered
  <2>13. GetProgress(w)'
    BY <1>2, <2>5 DEF GetProgress, Answered
  <2>14. Rpc(w)' /\ txs' \in 0..MaxTx
    BY <1>1, <2>5, <2>10, <2>12, <2>13 DEF Rpc
  <2> QED BY <2>2, <2>6, <2>7, <2>9, <2>14, WorkerStep
<1> QED BY <1>3, <1>4 DEF SetUpdates

\* So does delete: the deletions are applied after the updates, all or none.
LEMMA DeleteStep == ASSUME IInv, NEW w \in Workers, Delete(w) PROVE IInv'
<1>1. /\ Rows /\ RowOK(w) /\ Rpc(w) /\ past \in Seq(Data) /\ data \in Data /\ txs \in 0..MaxTx
  BY ByWorkers
<1>2. /\ req[w].op = "set" /\ pc[w] = "delete" /\ status[w] = "none"
      /\ req[w] \in Requests /\ req[w].updates \in Seq(Update) /\ req[w].deletes \in Seq(Leaves)
  BY <1>1, RequestOf, RequestFields DEF Rpc, Place, RowOK, Delete
<1>3. CASE Answer(w, "error") /\ UNCHANGED <<data, past, written, ops>>
  BY <1>2, <1>3, MoveStep DEF Delete, Answer
<1>4. ASSUME NEW deletions, deletions = Deletions(req[w]),
             Commits(Write(data, deletions)),
             written' = Set(written, w, Append(written[w], deletions)),
             ops' = Set(ops, w, ops[w] \o Results("DELETE", req[w].deletes)),
             Answer(w, "ok")
      PROVE  IInv'
  <2>1. Len(req[w].deletes) \in Nat /\ DOMAIN req[w].deletes = 1..Len(req[w].deletes)
    BY <1>2
  <2>2. deletions \in Seq(Leaves \X {None})
    <3>1. \A k \in 1..Len(req[w].deletes) : req[w].deletes[k] \in Leaves
      BY <1>2, <2>1
    <3>2. deletions \in [1..Len(req[w].deletes) -> Leaves \X {None}]
      BY <1>4, <2>1, <3>1 DEF Deletions
    <3> QED BY <2>1, <3>2, SeqOfLen
  <2>3. Write(data, deletions) \in Data
    BY <1>1, <2>2, WriteType
  <2>4. Grows /\ Len(past') = Len(past) + 1
    BY <1>4, <2>3, GrowsByOne
  <2>5. /\ Results("DELETE", req[w].deletes) \in Seq(OpResults)
        /\ Len(Results("DELETE", req[w].deletes)) = Len(req[w].deletes)
    <3>1. req[w].deletes \in Seq(Seq(Names) \cup Leaves)
      BY <1>2
    <3> QED BY <3>1, ResultsType
  <2>6. /\ ops[w] \in Seq(OpResults) /\ Len(ops[w]) = Len(req[w].updates)
        /\ written[w] = <<Updated(req[w]).writes>>
    BY <1>1, <1>2 DEF Rows, Rpc, SetProgress
  <2>7. PICK o : o = ops[w] \o Results("DELETE", req[w].deletes)
    OBVIOUS
  <2>8. o \in Seq(OpResults) /\ Len(o) = Len(req[w].updates) + Len(req[w].deletes)
    <3>1. o \in Seq(OpResults)
      BY <2>5, <2>6, <2>7, TwoInARow
    <3>2. Len(o) = Len(ops[w]) + Len(Results("DELETE", req[w].deletes))
      BY <2>5, <2>6, <2>7, TwoInARow
    <3> QED BY <2>5, <2>6, <3>1, <3>2
  <2>9. UNCHANGED <<txs, req, i, ups, begun, failed>>
    BY DEF Delete
  <2>10. Rows'
    BY <1>1, <1>4, <2>7, <2>8, <2>9 DEF Rows, Set, Answer
  <2>11. \A v \in Workers \ {w} : Same(v)
    BY <1>1, <1>4, <2>9, SetRow DEF Rows, Same, Answer
  <2>12. pc'[w] = "done" /\ status'[w] = "ok" /\ ops'[w] = o
    <3>1. DOMAIN pc = Workers /\ DOMAIN status = Workers /\ DOMAIN ops = Workers
      BY <1>1 DEF Rows
    <3>2. pc' = Set(pc, w, "done") /\ status' = Set(status, w, "ok") /\ ops' = Set(ops, w, o)
      BY <1>4, <2>7 DEF Answer
    <3> QED BY <3>1, <3>2, SetRow
  <2>13. written'[w] = <<Updated(req[w]).writes, deletions>>
    <3>1. DOMAIN written = Workers
      BY <1>1 DEF Rows
    <3>2. written'[w] = Append(written[w], deletions)
      BY <1>4, <3>1 DEF Set
    <3> QED BY <2>6, <3>2, TwoElements
  <2>14. RowOK(w)'
    BY <1>1, <1>2, <2>4, <2>9, <2>12 DEF RowOK
  <2>15. Place(w)'
    BY <1>1, <1>2, <2>9, <2>12 DEF Rpc, Place
  <2>16. Updated(req'[w]) = Updated(req[w]) /\ Deletions(req'[w]) = deletions
    BY <1>4, <2>9
  <2>17. SetProgress(w)'
    BY <2>8, <2>9, <2>12, <2>13, <2>16 DEF SetProgress, Answered
  <2>18. GetProgress(w)'
    BY <1>2, <2>9 DEF GetProgress, Answered
  <2>19. Rpc(w)' /\ txs' \in 0..MaxTx
    BY <1>1, <2>9, <2>15, <2>17, <2>18 DEF Rpc
  <2> QED BY <2>4, <2>10, <2>11, <2>14, <2>19, WorkerStep
<1> QED BY <1>3, <1>4 DEF Delete

\* So do the transactions of other managers: what was read remains what ConfD had.
LEMMA OtherTransactionStep == ASSUME IInv, OtherTransaction PROVE IInv'
<1>1. Rows /\ data \in Data /\ txs \in 0..MaxTx
  BY ByWorkers
<1>2. PICK n \in All, v \in {None} \cup Vals : Commits([data EXCEPT ![n] = v])
  BY DEF OtherTransaction
<1>3. [data EXCEPT ![n] = v] \in Data
  BY <1>1 DEF Data
<1>4. Grows /\ Len(past') = Len(past) + 1
  BY <1>2, <1>3, GrowsByOne
<1>5. \A w \in Workers : Same(w)
  BY DEF OtherTransaction, workerVars, Same
<1>6. \A w \in Workers : RowOK(w)' /\ Rpc(w)'
  BY <1>4, <1>5, OtherWorker
<1>7. Rows'
  BY <1>1 DEF Rows, OtherTransaction, workerVars
<1>8. txs' \in 0..MaxTx
  BY <1>1, Bounded DEF OtherTransaction
<1>9. past' \in Seq(Data) /\ Len(past') > 0 /\ data' \in Data /\ past'[Len(past')] = data'
  BY <1>4, ByWorkers DEF Grows
<1> QED BY <1>6, <1>7, <1>8, <1>9 DEF IInv, TypeOK, Types, Rows, RowOK, Data, Last

\* The invariant holds at first.
LEMMA Initial == Init => IInv
<1> SUFFICES ASSUME Init PROVE IInv
  OBVIOUS
<1>1. data \in Data /\ past = <<data>> /\ txs = 0
  BY InitiallyData DEF Init, Data
<1>2. past \in Seq(Data) /\ Len(past) = 1 /\ past[Len(past)] = data
  BY <1>1
<1>3. Rows
  <2>1. <<>> \in Seq(Reads) /\ <<>> \in Seq(OpResults) /\ {} \in SUBSET Nat
    OBVIOUS
  <2> QED BY <2>1 DEF Init, Rows
<1>4. ASSUME NEW w \in Workers
      PROVE  RowOK(w) /\ Rpc(w)
  <2>1. /\ req[w] = NoRequest /\ pc[w] = "idle" /\ i[w] = 0 /\ ups[w] = <<>> /\ ops[w] = <<>>
        /\ written[w] = <<>> /\ status[w] = "none" /\ begun[w] = 0 /\ failed[w] = {}
    BY DEF Init
  <2>2. req[w].op = "none"
    BY <2>1 DEF NoRequest
  <2>3. RowOK(w)
    BY <1>2, <2>1, <2>2 DEF RowOK
  <2>4. Place(w) /\ SetProgress(w) /\ GetProgress(w)
    BY <2>1, <2>2 DEF Place, SetProgress, GetProgress, Answered
  <2> QED BY <2>3, <2>4 DEF Rpc
<1>5. txs \in 0..MaxTx
  BY <1>1, Bounded
<1> QED BY <1>1, <1>2, <1>3, <1>4, <1>5, ByWorkers

\* Every step keeps the invariant.
LEMMA Inductive == IInv /\ [Next]_vars => IInv'
<1> SUFFICES ASSUME IInv, [Next]_vars PROVE IInv'
  OBVIOUS
<1>1. ASSUME NEW w \in Workers, Step(w) PROVE IInv'
  BY <1>1, ConnectStep, VerifyEncodingStep, ReadModuleStep, CapabilitiesStep, GetUpdatesStep,
     GetDoneStep, SetUpdatesStep, DeleteStep DEF Step
<1>2. CASE UNCHANGED vars
  <2>1. Grows /\ (\A w \in Workers : Same(w)) /\ Rows' /\ txs' \in 0..MaxTx
    BY <1>2, GrowsNot, ByWorkers DEF vars, workerVars, Same, Rows
  <2>2. \A w \in Workers : RowOK(w)' /\ Rpc(w)'
    BY <2>1, OtherWorker
  <2>3. past' \in Seq(Data) /\ Len(past') > 0 /\ data' \in Data /\ past'[Len(past')] = data'
    BY <1>2, ByWorkers DEF vars
  <2> QED BY <2>1, <2>2, <2>3 DEF IInv, TypeOK, Types, Rows, RowOK, Data, Last
<1> QED BY <1>1, <1>2, CallStep, OtherTransactionStep DEF Next

----------------------------------------------------------------------------
(* The theorems.                                                            *)

\* A sequence is one of its prefixes and the rest.
LEMMA PrefixAndRest ==
    ASSUME NEW S, NEW T, NEW full \in Seq(S), NEW prefix \in Seq(T), IsPrefix(prefix, full)
    PROVE  prefix \o SubSeq(full, Len(prefix) + 1, Len(full)) = full
<1>1. PICK n \in Nat : n = Len(prefix)
  OBVIOUS
<1>2. n <= Len(full) /\ Len(full) \in Nat /\ SubSeq(prefix, 1, n) = SubSeq(full, 1, n)
  BY <1>1 DEF IsPrefix
<1>3. \A k \in 1..n : prefix[k] = full[k]
  <2>1. TAKE k \in 1..n
  <2>2. SubSeq(prefix, 1, n)[k] = prefix[k]
    BY <1>1
  <2>3. SubSeq(full, 1, n)[k] = full[k]
    BY <1>2
  <2> QED BY <1>2, <2>2, <2>3
<1>4. prefix \in Seq(S)
  <2>1. \A k \in 1..n : full[k] \in S
    BY <1>2
  <2>2. prefix \in [1..n -> S]
    BY <1>1, <1>3, <2>1
  <2> QED BY <2>2, SeqOfLen
<1>5. PICK rest : rest = SubSeq(full, n + 1, Len(full))
  OBVIOUS
<1>6. rest \in Seq(S) /\ Len(rest) = Len(full) - n
  BY <1>2, <1>5
<1>7. \A k \in 1..Len(rest) : rest[k] = full[n + k]
  BY <1>2, <1>5, <1>6
<1>8. PICK joined \in Seq(S) : joined = prefix \o rest
  BY <1>4, <1>6, TwoInARow
<1>9. Len(joined) = Len(full)
  BY <1>1, <1>2, <1>4, <1>6, <1>8, TwoInARow
<1>10. \A k \in 1..Len(full) : joined[k] = full[k]
  <2>1. TAKE k \in 1..Len(full)
  <2>2. CASE k <= n
    <3>1. k \in 1..Len(prefix)
      BY <1>1, <2>2
    <3>2. joined[k] = prefix[k]
      BY <1>4, <1>6, <1>8, <3>1
    <3> QED BY <1>1, <1>3, <3>1, <3>2
  <2>3. CASE k > n
    <3>1. PICK j \in 1..Len(rest) : k = n + j
      <4>1. k - n \in 1..Len(rest) /\ k = n + (k - n)
        BY <1>2, <1>6, <2>3
      <4> QED BY <4>1
    <3>2. joined[n + j] = rest[j]
      BY <1>1, <1>4, <1>6, <1>8, <3>1
    <3> QED BY <1>7, <3>1, <3>2
  <2> QED BY <1>1, <2>2, <2>3
<1>11. joined = full
  <2>1. joined \in Seq(S) /\ full \in Seq(S)
    OBVIOUS
  <2>2. joined = [k \in 1..Len(joined) |-> joined[k]] /\ full = [k \in 1..Len(full) |-> full[k]]
    BY <2>1
  <2> QED BY ONLY <1>9, <1>10, <2>2
<1> QED BY <1>1, <1>5, <1>8, <1>11

\* Every state of every behaviour has the invariant.
THEOREM Invariance == Spec => []IInv
  BY Initial, Inductive, PTL DEF Spec

\* The variables have their types, an RPC has a status exactly when it is done, and has
\* gone as far in its paths as it has results (Capabilities, get, set).
THEOREM TypeCorrect == Spec => []TypeOK
<1>1. IInv => TypeOK
  BY DEF IInv
<1> QED BY <1>1, Invariance, PTL

\* A Set applies the whole of its updates, and then the whole of its deletions, in one
\* transaction each, or the updates only, or nothing, whatever other RPCs and managers
\* do in between; the status says which (Set, set and delete).
THEOREM AppliedByHalves == Spec => []SetHalves
<1>1. ASSUME IInv PROVE SetHalves
  <2>1. ASSUME NEW w \in Workers PROVE SetProgress(w)
    BY <1>1, ByWorkers DEF Rpc
  <2> QED BY <2>1 DEF SetHalves, SetProgress, Deletions
<1> QED BY <1>1, Invariance, PTL

\* The answer of a Get has for each path what ConfD had at a moment during the call,
\* these moments are in the order of the paths (they need not be one: each path is read
\* in a transaction of its own), and every update can be told by the prefix and its path
\* (get, get_updates_with_maapi_save, remove_path_prefix).
THEOREM GetsAreCurrent == Spec => []GetCurrent
<1>1. ASSUME IInv PROVE GetCurrent
  <2>1. SUFFICES ASSUME NEW w \in Workers, Answered(w, "get", "ok")
                 PROVE  \E moment \in [DOMAIN ups[w] -> begun[w]..Len(past)] :
          /\ \A k \in DOMAIN moment : k > 1 => moment[k - 1] <= moment[k]
          /\ \A k \in DOMAIN moment :
                ups[w][k] = IF k \in failed[w] THEN <<>>
                            ELSE Content(past[moment[k]], req[w].paths[k], req[w].type)
          /\ \A k \in DOMAIN moment : HasUpdate(w, k) => PathComplete(w, k)
    BY DEF GetCurrent
  <2>2. /\ Rows /\ RowOK(w) /\ Rpc(w) /\ req[w].op = "get" /\ pc[w] # "idle"
    BY <1>1, <2>1, ByWorkers DEF Answered, RowOK
  <2>3. req[w] \in Requests
    BY <1>1, <2>2, RequestOf
  <2>4. PICK moment : Moments(w, moment)
    BY <2>2 DEF Rpc, GetProgress
  <2>5. ASSUME NEW k \in DOMAIN moment, HasUpdate(w, k)
        PROVE  PathComplete(w, k)
    <3>1. k \in DOMAIN ups[w] /\ PrefixFits(w, k)
      BY <2>1, <2>2, <2>4, <2>5 DEF Moments, Rpc, GetProgress
    <3>2. /\ req[w].paths \in Seq(Seq(Names)) /\ req[w].prefix \in Seq(Seq(STRING))
      BY <2>2, <2>3, RequestFields
    <3>3. k \in 1..Len(req[w].paths)
      <4>1. ups[w] \in Seq(Reads) /\ Len(ups[w]) <= Len(req[w].paths)
        BY <2>2 DEF Rows, RowOK
      <4> QED BY <3>1, <3>2, <4>1
    <3>4. PICK node \in Seq(Names) : node = req[w].paths[k]
      BY <3>2, <3>3
    <3>5. PICK full : full = KeypathElems(node, Module)
      OBVIOUS
    <3>6. full \in Seq({full[j] : j \in DOMAIN full})
      <4>1. DOMAIN full = 1..Len(node) /\ Len(node) \in Nat
        BY <3>4, <3>5 DEF KeypathElems
      <4>2. full \in [1..Len(node) -> {full[j] : j \in DOMAIN full}]
        BY <3>5, <4>1 DEF KeypathElems
      <4> QED BY <4>1, <4>2, SeqOfLen
    <3>7. IsPrefix(req[w].prefix, full)
      BY <3>1, <3>4, <3>5 DEF PrefixFits, HasPrefix
    <3>8. req[w].prefix \o SubSeq(full, Len(req[w].prefix) + 1, Len(full)) = full
      BY <3>2, <3>6, <3>7, PrefixAndRest
    <3> QED BY <3>4, <3>5, <3>8 DEF PathComplete, AddPrefix, RemovePrefix
  <2> QED BY <2>4, <2>5 DEF Moments
<1> QED BY <1>1, Invariance, PTL
===============================================================================
