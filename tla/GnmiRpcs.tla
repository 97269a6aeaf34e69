-------------------------------- MODULE GnmiRpcs --------------------------------
(****************************************************************************)
(* The RPCs Capabilities, Get and Set of the gNMI server                    *)
(* (confd_gnmi_server.py) with the ConfD API adapter                        *)
(* (confd_gnmi_api_adapter.py).  Every RPC runs in a thread of its own, with*)
(* an adapter of its own; they meet in ConfD, where other managers commit   *)
(* transactions as well.                                                    *)
(*                                                                          *)
(* ConfD is external: a transaction reads or writes at one moment.  Leaves  *)
(* are the sequences of names that lead to them.  The value of an update is *)
(* JSON: a leaf's value, or an object, which is a sequence of names with    *)
(* values.                                                                  *)
(****************************************************************************)
EXTENDS GnmiPaths, FiniteSetsExt, Functions

CONSTANTS
    Workers,       \* threads of the server that are in use
    Requests,      \* what clients ask for
    Leaves,        \* configuration
    StateLeaves,   \* operational data
    Containers,
    Module,        \* the module a name belongs to
    Paths,         \* gNMI paths with keys
    Vals,
    Initially,     \* what ConfD may have at first
    Json,          \* JSON values of updates, and the values in objects
    None,          \* no value: a leaf that does not exist
    Faults,        \* calls of ConfD may fail
    MaxTx          \* bound: transactions of other managers

All == Leaves \cup StateLeaves

Names == DOMAIN Module

Modules == Range(Module)

\* What a client may ask for.
CapabilityRequest == [op : {"caps"}]

GetRequest ==
    [op : {"get"}, paths : Seq(Seq(Names)), prefix : Seq(Seq(STRING)),
     type : {"ALL", "CONFIG", "STATE", "OPERATIONAL"}, encoding : {"JSON", "JSON_IETF", "PROTO"}]

Update == [path : Seq(Names), val : Json, encoding : {"JSON", "JSON_IETF", "PROTO"}]

SetRequest == [op : {"set"}, updates : Seq(Update), deletes : Seq(Leaves)]

ASSUME Bounded == MaxTx \in Nat /\ Faults \in BOOLEAN
ASSUME Disjoint == Leaves \cap StateLeaves = {} /\ None \notin Vals
ASSUME InitiallyData == Initially \subseteq [All -> {None} \cup Vals]
ASSUME FewModules == IsFiniteSet(Modules)
ASSUME RequestsKnown == Requests \subseteq CapabilityRequest \cup GetRequest \cup SetRequest

VARIABLES
    data,      \* what ConfD has
    txs,       \* transactions of other managers (bounded by MaxTx)
    req, pc,   \* of each worker
    i,         \* the next path of a Get, or module of a Capabilities
    ups,       \* updates2: what was read for each path
    ops,       \* what was done for each path of a Set
    status,
    \* History.
    past,      \* what ConfD has had
    begun,     \* how long that was when an RPC began
    failed,    \* paths of a Get for which reading failed
    written    \* the transactions of a Set

workerVars == <<req, pc, i, ups, ops, status, begun, failed, written>>

vars == <<data, txs, past, workerVars>>

NoRequest == [op |-> "none"]

Init ==
    /\ data \in Initially
    /\ txs = 0 /\ past = <<data>>
    /\ req = [w \in Workers |-> NoRequest] /\ pc = [w \in Workers |-> "idle"]
    /\ i = [w \in Workers |-> 0]
    /\ ups = [w \in Workers |-> <<>>] /\ ops = ups /\ written = ups
    /\ status = [w \in Workers |-> "none"]
    /\ begun = [w \in Workers |-> 0] /\ failed = [w \in Workers |-> {}]

\* What ConfD has from now on.
Commits(new) == data' = new /\ past' = Append(past, new)

Set(f, w, v) == [f EXCEPT ![w] = v]

Answer(w, s) ==
    /\ pc' = Set(pc, w, "done")
    /\ status' = Set(status, w, s)

Proceeds(w, where) == pc' = Set(pc, w, where) /\ UNCHANGED status

\* A client calls (get_capabilities, get, set, delete of the client).
Call(w, r) ==
    /\ pc[w] = "idle"
    /\ req' = Set(req, w, r) /\ begun' = Set(begun, w, Len(past))
    /\ i' = Set(i, w, 1)
    /\ Proceeds(w, "connect")
    /\ UNCHANGED <<data, txs, past, ups, ops, failed, written>>

\* get_connected_adapter: a new adapter loads the schemas.
Connect(w) ==
    /\ pc[w] = "connect"
    /\ \/ Proceeds(w, IF req[w].op = "caps" THEN "caps" ELSE "encoding")
       \/ Faults /\ Answer(w, "error")
    /\ UNCHANGED <<data, txs, past, req, i, ups, ops, begun, failed, written>>

----------------------------------------------------------------------------
(* Capabilities.                                                            *)

\* Variant: one too many.
ModulesAndOne(w) == i[w] <= Cardinality(Modules) + 1

\* for module in root.modules_state.module
MoreModules(w) == i[w] <= Cardinality(Modules)

\* get_netconf_capabilities reads module by module.
ReadModule(w) ==
    /\ pc[w] = "caps" /\ MoreModules(w)
    /\ i' = Set(i, w, i[w] + 1)
    /\ UNCHANGED <<data, txs, past, req, pc, ups, ops, status, begun, failed, written>>

\* The answer.  An exception while modules are read is logged, and the answer has
\* those that have been read; there is not even an empty list if it comes early.
Capabilities(w) ==
    /\ pc[w] = "caps"
    /\ \/ (~MoreModules(w) \/ Faults) /\ Answer(w, "ok")
       \/ Faults /\ i[w] = 1 /\ Answer(w, "error")
    /\ UNCHANGED <<data, txs, past, req, i, ups, ops, begun, failed, written>>

----------------------------------------------------------------------------
(* Get and Set: the encoding.                                               *)

\* adapter.encodings()
Encodings == {"JSON", "JSON_IETF"}

\* verify_encoding_supported, verify_updates_encoding_supported.  No encoding is
\* JSON; the encoding of an update is get_val_encoding, PROTO for a plain value.
EncodingSupported(r) ==
    IF r.op = "get" THEN r.encoding \in Encodings
                    ELSE \A u \in ToSet(r.updates) : u.encoding \in Encodings

VerifyEncoding(w) ==
    /\ pc[w] = "encoding"
    /\ IF EncodingSupported(req[w]) THEN Proceeds(w, req[w].op)
                                    ELSE Answer(w, "unimplemented")
    /\ UNCHANGED <<data, txs, past, req, i, ups, ops, begun, failed, written>>

----------------------------------------------------------------------------
(* Get.                                                                     *)

\* Variant: STATE has everything, too.
OfAnyType(type) == IF type = "CONFIG" THEN Leaves ELSE All

\* The flags of save_config, and the datastore.
OfType(type) ==
    CASE type = "ALL" -> All
      [] type = "CONFIG" -> Leaves
      [] type \in {"STATE", "OPERATIONAL"} -> StateLeaves

\* get_updates: the leaves below a node that exist.
Below(path, type) ==
    {n \in OfType(type) : IsPrefix(path, n) /\ data[n] # None}

\* get_updates_with_maapi_save, for the next path.  An exception is logged, and
\* there are no updates then.
GetUpdates(w) ==
    /\ pc[w] = "get" /\ i[w] <= Len(req[w].paths)
    /\ \/ /\ ups' = Set(ups, w, Append(ups[w],
                        Restrict(data, Below(req[w].paths[i[w]], req[w].type))))
          /\ UNCHANGED failed
       \/ /\ Faults
          /\ ups' = Set(ups, w, Append(ups[w], <<>>))
          /\ failed' = Set(failed, w, failed[w] \cup {i[w]})
    /\ i' = Set(i, w, i[w] + 1)
    /\ UNCHANGED <<data, txs, past, req, pc, ops, status, begun, written>>

\* The assertion of remove_path_prefix, for an update: the path of the node that was
\* read, as make_gnmi_keypath spells it, begins as the client spelled the prefix.
PrefixFits(w, k) == HasPrefix(KeypathElems(req[w].paths[k], Module), req[w].prefix)

\* There is an update for a path if something was saved.
HasUpdate(w, k) == ups[w][k] # <<>>

GetDone(w) ==
    /\ pc[w] = "get" /\ i[w] > Len(req[w].paths)
    /\ IF \A k \in DOMAIN ups[w] : HasUpdate(w, k) => PrefixFits(w, k)
         THEN Answer(w, "ok") ELSE Answer(w, "error")
    /\ UNCHANGED <<data, txs, past, req, i, ups, ops, begun, failed, written>>

----------------------------------------------------------------------------
(* Set.                                                                     *)

\* Variant: an object in an object is not entered.
FirstPushd(cwd, path) == IF cwd = <<>> THEN path ELSE cwd

\* trans.pushd
Pushd(cwd, path) == cwd \o path

\* A transaction in the making: where pushd has led, and what has been set.
Trans ==
    [cwd : Seq(Names), entered : SUBSET Seq(Names), writes : Seq(Seq(Names) \X Vals)]

\* update_paths of set_update: there is a pushd for every object, and no popd.
UpdatePaths[t \in Trans, path \in Seq(Names), val \in Json] ==
    IF val.is = "object"
      THEN FoldLeft(LAMBDA u, item : UpdatePaths[u, <<item[1]>>, item[2]],
                    [t EXCEPT !.cwd = Pushd(t.cwd, path),
                              !.entered = t.entered \cup {Pushd(t.cwd, path)}],
                    val.items)
      ELSE [t EXCEPT !.writes = Append(t.writes, <<t.cwd \o path, val.val>>)]

\* set_update of the API adapter.  A path of an update is absolute; a value in
\* json_val is none of those that are looked at.
SetUpdate(t, u) ==
    IF u.encoding \in {"PROTO", "JSON_IETF"}
      THEN UpdatePaths[[t EXCEPT !.cwd = <<>>], u.path, u.val]
      ELSE t

Updated(r) ==
    FoldLeft(SetUpdate, [cwd |-> <<>>, entered |-> {}, writes |-> <<>>], r.updates)

\* ConfD finds nothing wrong: what was entered are containers, what was set leaves.
Valid(t) == t.entered \subseteq Containers /\ t.writes \in Seq(Leaves \X Vals)

\* What is written last to a leaf stays.
Write(d, writes) ==
    LET to(n) == {k \in DOMAIN writes : writes[k][1] = n}
    IN  [n \in DOMAIN d |-> IF to(n) = {} THEN d[n] ELSE writes[Max(to(n))][2]]

Results(op, seq) == [k \in DOMAIN seq |-> <<seq[k], op>>]

\* set: all updates in a transaction of their own.  A path that is wrong raises an
\* exception; nothing is applied then.
SetUpdates(w) ==
    /\ pc[w] = "set"
    /\ LET t == Updated(req[w])
           paths == [k \in DOMAIN req[w].updates |-> req[w].updates[k].path]
       IN  \/ /\ Valid(t)
              /\ Commits(Write(data, t.writes))
              /\ written' = Set(written, w, <<t.writes>>)
              /\ ops' = Set(ops, w, Results("UPDATE", paths))
              /\ Proceeds(w, "delete")
           \/ /\ ~Valid(t) \/ Faults
              /\ Answer(w, "error")
              /\ UNCHANGED <<data, past, written, ops>>
    /\ UNCHANGED <<txs, req, i, ups, begun, failed>>

\* Variant: only the first path is deleted.
FirstDeletion(r) == [k \in DOMAIN SubSeq(r.deletes, 1, 1) |-> <<r.deletes[k], None>>]

Deletions(r) == [k \in DOMAIN r.deletes |-> <<r.deletes[k], None>>]

\* delete: the same, after that; what is not there cannot be deleted.
Delete(w) ==
    /\ pc[w] = "delete"
    /\ LET deletions == Deletions(req[w])
           there == /\ \A k \in DOMAIN deletions : data[deletions[k][1]] # None
                    /\ IsInjective(req[w].deletes)
       IN  \/ /\ there
              /\ Commits(Write(data, deletions))
              /\ written' = Set(written, w, Append(written[w], deletions))
              /\ ops' = Set(ops, w, ops[w] \o Results("DELETE", req[w].deletes))
              /\ Answer(w, "ok")
           \/ /\ ~there \/ Faults
              /\ Answer(w, "error")
              /\ UNCHANGED <<data, past, written, ops>>
    /\ UNCHANGED <<txs, req, i, ups, begun, failed>>

----------------------------------------------------------------------------

\* Another manager's transaction, or a change of operational data.
OtherTransaction ==
    /\ txs < MaxTx
    /\ txs' = txs + 1
    /\ \E n \in All, v \in {None} \cup Vals : Commits([data EXCEPT ![n] = v])
    /\ UNCHANGED workerVars

Step(w) ==
    \/ Connect(w) \/ VerifyEncoding(w) \/ ReadModule(w) \/ Capabilities(w)
    \/ GetUpdates(w) \/ GetDone(w) \/ SetUpdates(w) \/ Delete(w)

Next ==
    \/ \E w \in Workers : Step(w) \/ \E r \in Requests : Call(w, r)
    \/ OtherTransaction

Spec == Init /\ [][Next]_vars

----------------------------------------------------------------------------
(* Properties.                                                              *)

\* The variables have their types; an RPC has a status when it is done, and has gone as
\* far in its paths as it has results (Capabilities, get, set).
TypeOK ==
    /\ data \in [All -> {None} \cup Vals]
    /\ txs \in 0..MaxTx
    /\ req \in [Workers -> Requests \cup {NoRequest}]
    /\ pc \in [Workers -> {"idle", "connect", "caps", "encoding", "get", "set", "delete", "done"}]
    /\ status \in [Workers -> {"none", "ok", "error", "unimplemented"}]
    /\ Last(past) = data
    /\ \A w \in Workers :
          /\ status[w] # "none" <=> pc[w] = "done"
          /\ begun[w] \in 0..Len(past)
          /\ req[w].op = "caps" => i[w] \in 1..Cardinality(Modules) + 1
          /\ req[w].op = "get" =>
                /\ i[w] = Len(ups[w]) + 1 /\ Len(ups[w]) <= Len(req[w].paths)
                /\ failed[w] \subseteq DOMAIN ups[w]

Answered(w, op, s) == req[w].op = op /\ status[w] = s

\* A Set that is answered has applied the whole of its updates and then the whole of
\* its deletions, each in one transaction, and says so for each path.  One that
\* fails has applied nothing or just the updates, and one with an encoding that is
\* not supported nothing (Set, set and delete).
SetHalves ==
    \A w \in Workers :
      LET updates == Updated(req[w]).writes
          deletions == [k \in DOMAIN req[w].deletes |-> <<req[w].deletes[k], None>>]
      IN  /\ Answered(w, "set", "ok") =>
                /\ written[w] = <<updates, deletions>>
                /\ Len(ops[w]) = Len(req[w].updates) + Len(req[w].deletes)
          /\ Answered(w, "set", "error") => written[w] \in {<<>>, <<updates>>}
          /\ Answered(w, "set", "unimplemented") => written[w] = <<>>

\* What an update asks for: its leaves, each at the place it has in the object.
Asked[path \in Seq(Names), val \in Json] ==
    IF val.is = "object"
      THEN UNION {Asked[Append(path, val.items[k][1]), val.items[k][2]] : k \in DOMAIN val.items}
      ELSE {<<path, val.val>>}

\* There is something in an object, directly or not, after an object that is in it.
GoesOnAfterObject[val \in Json] ==
    /\ val.is = "object"
    /\ \E k \in DOMAIN val.items :
          \/ val.items[k][2].is = "object" /\ k < Len(val.items)
          \/ GoesOnAfterObject[val.items[k][2]]

\* A Set that is answered has written, in its first transaction, exactly the leaves
\* that its updates ask for, provided that nothing follows an object in an object and
\* no value is in json_val (set_update).
SetAsAsked ==
    \A w \in Workers :
      ( /\ Answered(w, "set", "ok")
        /\ \A u \in ToSet(req[w].updates) : u.encoding # "JSON" /\ ~GoesOnAfterObject[u.val] )
      => ToSet(written[w][1]) = UNION {Asked[u.path, u.val] : u \in ToSet(req[w].updates)}

\* What ConfD had for a path.
Content(d, path, type) ==
    LET kind == CASE type = "ALL" -> All [] type = "CONFIG" -> Leaves [] OTHER -> StateLeaves
    IN  Restrict(d, {n \in kind : IsPrefix(path, n) /\ d[n] # None})

\* The prefix of an answer, which is the request's, and the path in an update are
\* together the path of the node that was read.
PathComplete(w, k) ==
    LET full == KeypathElems(req[w].paths[k], Module)
    IN  AddPrefix(RemovePrefix(full, req[w].prefix), req[w].prefix) = full

\* The answer of a Get has for each path the data of the type asked for at a moment
\* during the call, and these moments are in the order of the paths; where reading
\* fails there is nothing for that path only.  A client can tell which node an update
\* is about (get, get_updates_with_maapi_save, remove_path_prefix).  This is less than
\* the docstring of Get has it ("Retrieve a snapshot of data from the target") and the
\* notification claims (atomic=True): each path is read in a transaction of its own, and
\* what others commit between two of them is seen by the second only.  All paths are of
\* one snapshot if nothing is committed between the first read and the last.
GetCurrent ==
    \A w \in Workers :
      Answered(w, "get", "ok") =>
        \E moment \in [DOMAIN ups[w] -> begun[w]..Len(past)] :
          /\ \A k \in DOMAIN moment : k > 1 => moment[k - 1] <= moment[k]
          /\ \A k \in DOMAIN moment :
                ups[w][k] = IF k \in failed[w] THEN <<>>
                            ELSE Content(past[moment[k]], req[w].paths[k], req[w].type)
          /\ \A k \in DOMAIN moment : HasUpdate(w, k) => PathComplete(w, k)

PathsRoundTrip == \A p \in Paths : RoundTrip(p)

PathsJoin == \A p, q \in Paths, quote \in BOOLEAN : PrefixJoins(p, q, quote)

\* The paths a Get or Set is about can be written as strings and read again exactly if
\* the values of their keys have none of the characters / [ = ]; the string made of a
\* path and a prefix is that of the whole path, unless the path is empty and the prefix
\* is not (make_gnmi_path, make_name_keys, make_xpath_path, add_path_prefix).
StringsReadBack == (\A w \in Workers : pc[w] = "idle") => PathsRoundTrip /\ PathsJoin

===============================================================================
