--------------------------- MODULE ApiSubscription ---------------------------
(****************************************************************************)
(* A Subscribe RPC served by the ConfD API adapter: SubscriptionHandler     *)
(* with GnmiConfDApiServerAdapter.SubscriptionHandler                       *)
(* (confd_gnmi_api_adapter.py).  Samples are read over MAAPI; changes come  *)
(* to a thread (process_changes, here: the changer) that is a CDB           *)
(* subscriber and, for data that is not in CDB, listens for the messages of *)
(* an external data provider.  CDB, its commits and the data provider are   *)
(* external: they are modelled by what this code sees of them.              *)
(****************************************************************************)
EXTENDS SubscriptionHandler

CONSTANTS
    CdbPaths,    \* the leaves in CDB; the others belong to a data provider
    Vals,        \* the values of a leaf
    External,    \* monitor_external_changes
    Faults,      \* ConfD and MAAPI calls and callbacks may fail
    MaxChanges   \* bound: commits and provider changes

ASSUME CdbPathsArePaths == CdbPaths \subseteq Paths
ASSUME NoneIsNoPath == None \notin Paths
ASSUME FlagsBoolean == External \in BOOLEAN /\ Faults \in BOOLEAN
ASSUME MaxChangesNat == MaxChanges \in Nat

VARIABLES
    data,         \* the value of every leaf, in CDB or at the provider
    changed,      \* changes so far (bounded by MaxChanges)
    subscribed,   \* cdb.subscribe_done was called
    notification, \* the subscription points of the commit being notified
    delivery,     \* is it waiting on the subscription socket, or read?
    listening,    \* the external change server is up
    unsent,       \* the change the provider has made and not yet sent
    backlog,      \* provider messages not yet accepted
    change_db,
    changer,      \* program counter of process_changes
    ready,        \* what select returned and is not dealt with yet
    spoints,      \* points whose changes are not processed yet
    stop_pipe,
    missed        \* leaves with a change nobody was listening for, or a value
                  \* that could not be read, and that no sample has made up for

dataVars == <<data, changed, missed>>

sourceVars == <<subscribed, notification, delivery, listening, unsent, backlog>>

loopVars == <<changer, ready, spoints>>

adapterVars == <<dataVars, sourceVars, loopVars, change_db, stop_pipe>>

vars == <<handlerVars, adapterVars>>

ExtPaths == Paths \ CdbPaths

\* "connect" and "listen" are before socket_loop, "put_ext" and "put" between
\* _append_changes and put_event, "iterate" in the loop over sub_info[2].
ChangerStates ==
    {"none", "connect", "listen", "select", "dispatch", "put_ext", "iterate",
     "put", "ended"}

\* The JSON encoding of a value (make_gnmi_json_value, MAAPI save_config).
Json(v) == <<"json", v>>

\* Variant: the value as it came, without its encoding.
ChangesRaw(p, v) == Update(p, v)

\* A notification without updates.
NoUpdates == Update(None, None)

\* The changes of a subscription point: MOP_VALUE_SET gives an encoded value,
\* MOP_DELETED is not handled and leaves the list of changes empty.
ChangesOf(p, v) == IF v = None THEN NoUpdates ELSE Update(p, Json(v))

Init ==
    /\ HandlerInit
    /\ data \in {d \in [Paths -> Vals \cup {None}] : \A p \in ExtPaths : d[p] # None}
    /\ changed = 0
    /\ subscribed = FALSE
    /\ notification = {}
    /\ delivery = "none"
    /\ listening = FALSE
    /\ unsent = NoUpdates
    /\ backlog = <<>>
    /\ change_db = <<>>
    /\ changer = "none"
    /\ ready = {}
    /\ spoints = {}
    /\ stop_pipe = "none"
    /\ missed = {}

----------------------------------------------------------------------------
(* ConfD and the data provider.                                             *)

\* The running or an earlier sample has come to the leaf.
Sampled(p) ==
    /\ reader \notin {"accept", "accepted"} /\ ~ReaderEnded
    /\ reader = "sample" /\ first_sample => p \notin unsampled

\* A transaction sets or deletes some leaves.  CDB notifies the
\* subscriber and holds the next commit back until it is acknowledged.
Commit ==
    /\ changed < MaxChanges /\ delivery = "none"
    /\ \E S \in (SUBSET CdbPaths) \ {{}}, new \in [CdbPaths -> Vals \cup {None}] :
         /\ \A p \in S : new[p] # data[p]
         /\ data' = [p \in Paths |-> IF p \in S THEN new[p] ELSE data[p]]
         /\ IF subscribed
              THEN /\ notification' = S
                   /\ delivery' = "unread"
                   /\ missed' = missed \ S
              ELSE /\ missed' = missed \cup {p \in S : Sampled(p)}
                   /\ UNCHANGED <<notification, delivery>>
    /\ changed' = changed + 1
    /\ UNCHANGED <<handlerVars, subscribed, listening, unsent, backlog, loopVars,
                   change_db, stop_pipe>>

\* generate_changes: the provider changes one of its leaves ...
ProviderChange ==
    /\ changed < MaxChanges /\ unsent = NoUpdates
    /\ \E p \in ExtPaths, v \in Vals :
         /\ data' = [data EXCEPT ![p] = v]
         /\ unsent' = Update(p, v)
    /\ changed' = changed + 1
    /\ UNCHANGED <<handlerVars, missed, subscribed, notification, delivery, listening,
                   backlog, loopVars, change_db, stop_pipe>>

\* ... and sends the change to the change server, if it can connect.
ProviderSend ==
    /\ unsent # NoUpdates
    /\ unsent' = NoUpdates
    /\ IF listening
         THEN /\ backlog' = Append(backlog, unsent)
              /\ missed' = missed \ {unsent.path}
         ELSE /\ missed' = missed \cup {p \in {unsent.path} : Sampled(p)}
              /\ UNCHANGED backlog
    /\ UNCHANGED <<handlerVars, data, changed, subscribed, notification, delivery,
                   listening, loopVars, change_db, stop_pipe>>

----------------------------------------------------------------------------
(* The reader in the methods of the API handler.                            *)

\* The leaf has its value now, unless older changes of it wait in change_db.
GetSample ==
    /\ \E p \in unsampled :
         /\ data[p] # None /\ SampleLeaf(p, Json(data[p]))
         /\ missed' = missed \ {q \in {p} : ~Mentions(change_db, q)}
    /\ UNCHANGED <<reader, data, changed, sourceVars, loopVars, change_db, stop_pipe>>

\* A leaf that does not exist is not in the saved configuration.
SampleNothing ==
    /\ reader = "sample"
    /\ \E p \in unsampled : data[p] = None /\ unsampled' = unsampled \ {p}
    /\ UNCHANGED <<mode, rpcVars, reader, first_sample, response, view,
                   read_queue, clientVars, adapterVars>>

\* get_updates_with_maapi_save logs an error of MAAPI and returns no updates: the
\* sample goes on, and at the first sample the client is not told of the leaf.
SampleFails ==
    /\ Faults /\ reader = "sample"
    /\ \E p \in unsampled :
         /\ unsampled' = unsampled \ {p}
         /\ missed' = missed \cup {q \in {p} : first_sample}
    /\ UNCHANGED <<mode, rpcVars, reader, first_sample, response, view, read_queue,
                   clientVars, data, changed, sourceVars, loopVars, change_db, stop_pipe>>

\* The assertion of remove_path_prefix fails for an update of the sample: read() is
\* left with an exception.
PrefixDiffers ==
    /\ Faults /\ reader = "sample" /\ (\E p \in unsampled : data[p] # None)
    /\ Fail
    /\ UNCHANGED adapterVars

FinishSample ==
    /\ SampleComplete
    /\ IF StartsMonitoring
         THEN changer' = "connect" /\ stop_pipe' = "open"
         ELSE UNCHANGED <<changer, stop_pipe>>
    /\ UNCHANGED <<dataVars, sourceVars, ready, spoints, change_db>>

\* Variant: only the changes of the first subscription point are taken.
TakenFirst == SubSeq(change_db, 1, 1)

\* The changes of all subscription points are taken, each for a notification.
Taken == change_db

\* _get_subscription_notifications(), with its assertion.
GetNotifications ==
    /\ reader = "changes" /\ change_db # <<>>
    /\ response' = Taken
    /\ change_db' = <<>>
    /\ reader' = "yield_changes"
    /\ UNCHANGED <<mode, rpcVars, first_sample, unsampled, view, read_queue,
                   clientVars, dataVars, sourceVars, loopVars, stop_pipe>>

NothingToSend ==
    /\ reader = "changes" /\ change_db = <<>>
    /\ Fail
    /\ UNCHANGED adapterVars

StopMonitoring ==
    /\ reader = "stop"
    /\ reader' = "join"
    /\ stop_pipe' = "written"
    /\ UNCHANGED <<mode, rpcVars, first_sample, unsampled, response, view,
                   read_queue, clientVars, dataVars, sourceVars, loopVars,
                   change_db>>

MonitoringStopped ==
    /\ reader = "join" /\ changer = "ended"
    /\ reader' = "join_requests"
    /\ stop_pipe' = "none"
    /\ UNCHANGED <<mode, rpcVars, first_sample, unsampled, response, view,
                   read_queue, clientVars, dataVars, sourceVars, loopVars,
                   change_db>>

----------------------------------------------------------------------------
(* The changer: process_changes() and socket_loop().                        *)

ChangerUnchanged == UNCHANGED <<mode, rpcVars, readVars, clientVars, stop_pipe>>

\* The thread ends and its sockets are closed: CDB forgets the subscriber and
\* what was not read from it is not heard of again.
EndChanger ==
    /\ changer' = "ended"
    /\ ready' = {} /\ spoints' = {}
    /\ subscribed' = FALSE /\ notification' = {} /\ delivery' = "none"
    /\ listening' = FALSE /\ backlog' = <<>>
    /\ UNCHANGED unsent
    /\ missed' = missed \cup notification \cup {backlog[i].path : i \in DOMAIN backlog}
    /\ UNCHANGED <<data, changed, change_db>>

\* cdb.connect or cdb.subscribe2 fails before the try: the thread just dies.
ConnectFails ==
    /\ Faults /\ changer = "connect"
    /\ EndChanger
    /\ UNCHANGED read_queue
    /\ ChangerUnchanged

SubscribeMonitoredPaths ==
    /\ changer = "connect"
    /\ subscribed' = (CdbPaths # {})
    /\ changer' = IF External /\ ExtPaths # {} THEN "listen" ELSE "select"
    /\ UNCHANGED <<read_queue, dataVars, notification, delivery, listening,
                   unsent, backlog, ready, spoints, change_db>>
    /\ ChangerUnchanged

StartExternalChangeServer ==
    /\ changer = "listen"
    /\ listening' = TRUE
    /\ changer' = "select"
    /\ UNCHANGED <<read_queue, dataVars, subscribed, notification, delivery,
                   unsent, backlog, ready, spoints, change_db>>
    /\ ChangerUnchanged

\* An exception inside the try: self.stop() puts FINISH.
ChangerFails ==
    /\ Faults /\ changer \in {"listen", "select", "dispatch", "iterate"}
    /\ EndChanger
    /\ read_queue' = Append(read_queue, "FINISH")
    /\ ChangerUnchanged

\* Variant: the pipe is left out of rlist.
ReadableSockets ==
    {x \in {"ext", "sub"} :
        \/ x = "ext" /\ backlog # <<>>
        \/ x = "sub" /\ delivery = "unread"}

\* What select.select(rlist, ...) returns.
Readable ==
    {x \in {"ext", "sub", "stop"} :
        \/ x = "ext" /\ backlog # <<>>
        \/ x = "sub" /\ delivery = "unread"
        \/ x = "stop" /\ stop_pipe = "written"}

Select ==
    /\ changer = "select" /\ Readable # {}
    /\ ready' = Readable
    /\ changer' = "dispatch"
    /\ UNCHANGED <<read_queue, dataVars, sourceVars, spoints, change_db>>
    /\ ChangerUnchanged

\* process_external_change: accept, receive, _append_changes.
ProcessExternalChange ==
    /\ changer = "dispatch" /\ "ext" \in ready
    /\ ready' = ready \ {"ext"}
    /\ backlog' = Tail(backlog)
    /\ change_db' = Append(change_db, ChangesOf(Head(backlog).path, Head(backlog).val))
    /\ changer' = "put_ext"
    /\ UNCHANGED <<read_queue, dataVars, subscribed, notification, delivery,
                   listening, unsent, spoints>>
    /\ ChangerUnchanged

ReadSubscriptionSocket ==
    /\ changer = "dispatch" /\ "ext" \notin ready /\ "sub" \in ready
    /\ ready' = ready \ {"sub"}
    /\ delivery' = "read"
    /\ spoints' = notification
    /\ changer' = "iterate"
    /\ UNCHANGED <<read_queue, dataVars, subscribed, notification, listening,
                   unsent, backlog, change_db>>
    /\ ChangerUnchanged

\* process_subscription: diff_iterate and _append_changes.
ProcessSubscription ==
    /\ changer = "iterate"
    /\ \E p \in spoints :
         /\ spoints' = spoints \ {p}
         /\ change_db' = Append(change_db, ChangesOf(p, data[p]))
    /\ changer' = "put"
    /\ UNCHANGED <<read_queue, dataVars, sourceVars, ready>>
    /\ ChangerUnchanged

\* Variant: nothing is put while the reader has an event waiting.
EventWhenIdle == IF read_queue = <<>> THEN <<"SEND_CHANGES">> ELSE <<>>

\* self.put_event(self.SubscriptionEvent.SEND_CHANGES)
EventPut == <<"SEND_CHANGES">>

PutSendChanges ==
    /\ changer \in {"put", "put_ext"}
    /\ read_queue' = read_queue \o EventPut
    /\ changer' = IF changer = "put" THEN "iterate" ELSE "dispatch"
    /\ UNCHANGED <<dataVars, sourceVars, ready, spoints, change_db>>
    /\ ChangerUnchanged

\* Variant: the subscription is acknowledged only when the reader has taken
\* the changes.
ReadyToSync == spoints = {} /\ change_db = <<>>

\* Once all subscription points are processed.
PointsProcessed == spoints = {}

SyncSubscriptionSocket ==
    /\ changer = "iterate" /\ PointsProcessed
    /\ notification' = {} /\ delivery' = "none"
    /\ changer' = "dispatch"
    /\ UNCHANGED <<read_queue, dataVars, subscribed, listening, unsent, backlog,
                   ready, spoints, change_db>>
    /\ ChangerUnchanged

\* An error in the callback of diff_iterate (ERR_EXTERNAL) is logged; the
\* loop goes on and the notification is not acknowledged.
CallbackFails ==
    /\ Faults /\ changer = "iterate" /\ spoints # {}
    /\ spoints' = {}
    /\ missed' = missed \cup spoints
    /\ changer' = "dispatch"
    /\ UNCHANGED <<read_queue, data, changed, sourceVars, ready, change_db>>
    /\ ChangerUnchanged

StopLoop ==
    /\ changer = "dispatch" /\ ready = {"stop"}
    /\ EndChanger
    /\ UNCHANGED read_queue
    /\ ChangerUnchanged

NextRound ==
    /\ changer = "dispatch" /\ ready = {}
    /\ changer' = "select"
    /\ UNCHANGED <<read_queue, dataVars, sourceVars, ready, spoints, change_db>>
    /\ ChangerUnchanged

----------------------------------------------------------------------------

ReaderNext ==
    \/ ReaderCommonNext /\ UNCHANGED adapterVars
    \/ GetSample \/ SampleNothing \/ FinishSample \/ GetNotifications
    \/ NothingToSend \/ StopMonitoring \/ MonitoringStopped

ChangerNext ==
    \/ SubscribeMonitoredPaths \/ StartExternalChangeServer
    \/ Select \/ ProcessExternalChange \/ ReadSubscriptionSocket
    \/ ProcessSubscription \/ PutSendChanges \/ SyncSubscriptionSocket
    \/ StopLoop \/ NextRound

\* A call to ConfD fails.
FaultNext == SampleFails \/ PrefixDiffers \/ ConnectFails \/ ChangerFails \/ CallbackFails

Next ==
    \/ (ClientNext \/ RpcDone \/ RequesterNext) /\ UNCHANGED adapterVars
    \/ Commit
    \/ ProviderChange
    \/ ProviderSend
    \/ ReaderNext
    \/ ChangerNext
    \/ FaultNext

Spec == Init /\ [][Next]_vars

\* The server's threads run.  The client may never take a response, and neither
\* ConfD nor the provider need change anything; no call need fail.
FairSpec ==
    /\ Spec
    /\ WF_vars(ReaderNext /\ ~HeldUp)
    /\ WF_vars(ChangerNext)
    /\ WF_vars(RequesterNext /\ UNCHANGED adapterVars)
    /\ WF_vars(RpcDone /\ UNCHANGED adapterVars)

----------------------------------------------------------------------------
(* Properties.                                                              *)

JsonVals == {Json(v) : v \in Vals}

Notifications == [path : Paths, val : JsonVals] \cup {NoUpdates}

\* The variables have the types the code gives them.
TypeOK ==
    /\ HandlerTypeOK(JsonVals, Notifications)
    /\ data \in [Paths -> Vals \cup {None}]
    /\ changed \in 0..MaxChanges
    /\ missed \in SUBSET Paths
    /\ subscribed \in BOOLEAN
    /\ notification \in SUBSET CdbPaths
    /\ delivery \in {"none", "unread", "read"}
    /\ listening \in BOOLEAN
    /\ unsent \in [path : ExtPaths, val : Vals] \cup {NoUpdates}
    /\ backlog \in Seq([path : ExtPaths, val : Vals])
    /\ change_db \in Seq(Notifications)
    /\ changer \in ChangerStates
    /\ ready \in SUBSET {"ext", "sub", "stop"}
    /\ spoints \in SUBSET CdbPaths
    /\ stop_pipe \in {"none", "open", "written"}

\* No lost wakeup: changes in change_db always have a SEND_CHANGES before the
\* reader, or the changer is about to put one (process_subscription,
\* process_external_change), or the reader is about to take them (read).
NoLostWakeup ==
    change_db # <<>> =>
        \/ Holds(read_queue, "SEND_CHANGES")
        \/ changer \in {"put", "put_ext"}
        \/ reader = "changes"

\* The changer has still to hear of, or to record, a change of the leaf, if it can.
Announced(p) ==
    \/ p \in spoints
    \/ p \in notification /\ delivery = "unread"
    \/ unsent.path = p
    \/ Mentions(backlog, p)

Upcoming(p) ==
    Apply(change_db, Apply(response, view))[p]

\* The client has or gets the value of every leaf that exists, once the first sample
\* has come to it: what the client was told, the response in the making and change_db,
\* applied in this order, give the value in CDB or at the provider, unless a newer one
\* is announced.  No change the changer was listening for is lost, or undone by an
\* older one, and a sample makes up for what was missed before.  Samples, commits,
\* provider messages and get_subscription_notifications() interleave in any order.
\* Excepted are leaves whose read failed without the client hearing of it, and changes
\* made when nobody listened, until the next sample (get_updates_with_maapi_save).
ClientCatchesUp ==
    \A p \in Paths \ missed :
        Sampled(p) /\ ~Announced(p) /\ data[p] # None => Upcoming(p) = Json(data[p])

\* A client that goes away never keeps a worker of the server's pool busy,
\* also when calls to ConfD or the changer fail.
WorkerReleased == rpc = "ended" ~> ReaderEnded

\* A commit in ConfD never waits for a gNMI client: the changer acknowledges
\* the notification although the reader may be stuck in a yield, unless the
\* callback of diff_iterate fails and the changer goes on without it.
CommitAcknowledged ==
    delivery # "none" ~>
        delivery = "none" \/ (delivery = "read" /\ changer \in {"dispatch", "select"})

----------------------------------------------------------------------------
(* What the documentation says, and the code does not keep.                 *)

\* ConfD_gNMI_adapter.adoc: "Changes for `STREAM` subscription are collected
\* as they occur and are sent as response."  When the client has been sent
\* everything there is and the changer waits for the next change, what the
\* client knows of the leaves is what is in CDB.
ChangesAreSent ==
    /\ rpc = "active" /\ changer = "select" /\ Readable = {}
    /\ reader = "get" /\ read_queue = <<>>
    => \A p \in CdbPaths : data[p] # None => view[p] = Json(data[p])
===============================================================================
