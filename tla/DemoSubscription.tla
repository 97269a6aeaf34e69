--------------------------- MODULE DemoSubscription ---------------------------
(****************************************************************************)
(* A Subscribe RPC served by the demo adapter: SubscriptionHandler with     *)
(* GnmiDemoServerAdapter.SubscriptionHandler (confd_gnmi_demo_adapter.py).  *)
(* The demo adapter keeps its data in a dictionary and simulates changes in *)
(* a thread of its own (process_changes, here: the changer), which talks to *)
(* itself through change_event_queue, collects the changes in change_db and *)
(* tells the reader with SEND_CHANGES that there is something to send.      *)
(****************************************************************************)
EXTENDS SubscriptionHandler

CONSTANTS
    TypePaths,  \* the "type" leaves, the only ones that change
    Vals,       \* the values of a leaf, without name space
    MaxChanges, \* bound: changes waiting in change_db
    MaxEvents,  \* bound: events waiting when the changer adds more
    MaxSets     \* bound: writes to the data by other RPCs

ASSUME TypePathsArePaths == TypePaths \subseteq Paths
ASSUME BoundsNat == MaxChanges \in Nat /\ MaxEvents \in Nat /\ MaxSets \in Nat

VARIABLES
    demo_db,             \* the value under the path without name space
    set_db,              \* the value under the path as Set writes it
    monitored_paths,
    change_db,
    change_event_queue,
    changer,             \* program counter of process_changes
    send,                \* local variables of process_changes
    add_count,
    sets,                \* writes by other RPCs so far (bounded by MaxSets)
    touched              \* the leaves they wrote (for the properties)

dbVars == <<demo_db, set_db, sets, touched>>

changerVars == <<changer, send, add_count>>

changeVars == <<monitored_paths, change_db, change_event_queue, changerVars>>

vars == <<handlerVars, dbVars, changeVars>>

\* ChangeEvent
ChangeEvents == {"ADD", "SEND", "FINISH"}

\* "add" is in the body of with change_db_lock, db_lock; "sent" between the
\* release of the locks and the test of send; "timeout" in the handler of
\* Empty.
ChangerStates == {"none", "get", "add", "sent", "timeout", "ended"}

\* change_db_lock and db_lock are both held while an ADD is processed.
Locked == changer = "add"

\* NS_IANA put before a value.
Iana(v) == <<"iana-if-type", v>>

\* The value _demo_db_to_key_elem_map finds for a leaf: the entry Set made
\* comes later in the dictionary and hides the original one.
DbValue(p) == IF set_db[p] = None THEN demo_db[p] ELSE set_db[p]

\* The value of a leaf in a sample.
SampleValue(p) == IF p \in TypePaths THEN Iana(DbValue(p)) ELSE DbValue(p)

Init ==
    /\ HandlerInit
    /\ demo_db \in [Paths -> Vals]
    /\ set_db = [p \in Paths |-> None]
    /\ sets = 0
    /\ touched = {}
    /\ monitored_paths = {}
    /\ change_db = <<>>
    /\ change_event_queue = <<>>
    /\ changer = "none"
    /\ send = FALSE
    /\ add_count = 0

----------------------------------------------------------------------------
(* The reader in the methods of the demo handler.                           *)

GetSample ==
    /\ ~Locked
    /\ \E p \in unsampled : SampleLeaf(p, SampleValue(p))
    /\ UNCHANGED <<dbVars, changeVars, reader>>

\* sample() returns; add_path_for_monitoring and start_monitoring have run if
\* this is the first sample of a STREAM.
FinishSample ==
    /\ SampleComplete
    /\ IF StartsMonitoring
         THEN /\ monitored_paths' = Paths
              /\ changer' = "get"
         ELSE UNCHANGED <<monitored_paths, changer>>
    /\ UNCHANGED <<dbVars, change_db, change_event_queue, send, add_count>>

\* get_monitored_changes(), with its assertion.
GetMonitoredChanges ==
    /\ reader = "changes" /\ ~Locked
    /\ change_db # <<>>
    /\ response' = [i \in DOMAIN change_db |->
                      Update(change_db[i].path, Iana(change_db[i].val))]
    /\ change_db' = <<>>
    /\ reader' = "yield_changes"
    /\ UNCHANGED <<mode, rpcVars, first_sample, unsampled, view, read_queue,
                   clientVars, dbVars, monitored_paths, change_event_queue,
                   changerVars>>

NothingToSend ==
    /\ reader = "changes" /\ ~Locked
    /\ change_db = <<>>
    /\ Fail
    /\ UNCHANGED <<dbVars, changeVars>>

\* stop_monitoring() up to the join.
StopMonitoring ==
    /\ reader = "stop"
    /\ reader' = "join"
    /\ change_event_queue' = Append(change_event_queue, "FINISH")
    /\ UNCHANGED <<mode, rpcVars, first_sample, unsampled, response, view,
                   read_queue, clientVars, dbVars, monitored_paths, change_db,
                   changerVars>>

\* self.change_thread.join() returns.
ChangerJoined == changer = "ended"

\* ... and from there, with the assertion that the queue is empty.
MonitoringStopped ==
    /\ reader = "join" /\ ChangerJoined
    /\ change_event_queue = <<>>
    /\ reader' = "join_requests"
    /\ monitored_paths' = {}
    /\ UNCHANGED <<mode, rpcVars, first_sample, unsampled, response, view,
                   read_queue, clientVars, dbVars, change_db,
                   change_event_queue, changerVars>>

QueueNotEmpty ==
    /\ reader = "join" /\ ChangerJoined
    /\ change_event_queue # <<>>
    /\ Fail
    /\ UNCHANGED <<dbVars, changeVars>>

----------------------------------------------------------------------------
(* The changer: process_changes().                                          *)

ChangerUnchanged == UNCHANGED <<mode, rpcVars, readVars, clientVars, dbVars,
                                monitored_paths>>

\* change_event_queue.get() returns an event; SEND and FINISH are dealt with
\* at once, ADD takes the locks.
GetChangeEvent ==
    /\ changer = "get" /\ change_event_queue # <<>>
    /\ change_event_queue' = Tail(change_event_queue)
    /\ LET event == Head(change_event_queue) IN
         /\ changer' = CASE event = "ADD" -> "add"
                         [] event = "SEND" -> "get"
                         [] event = "FINISH" -> "ended"
         /\ send' = (send /\ event # "ADD")
         /\ read_queue' = IF event = "SEND"
                            THEN Append(read_queue, "SEND_CHANGES")
                            ELSE read_queue
    /\ UNCHANGED <<change_db, add_count>>
    /\ ChangerUnchanged

\* Variant: change_db as a map, with one entry for a leaf.
RecordOnce(p, v) ==
    IF Mentions(change_db, p) THEN change_db ELSE Append(change_db, Update(p, v))

\* self.change_db.append((path, val))
Record(p, v) == Append(change_db, Update(p, v))

\* One change of the batch, random or configured, with its write to the data;
\* only monitored leaves count.
AddChange ==
    /\ changer = "add" /\ Len(change_db) < MaxChanges
    /\ \E p \in TypePaths \cap monitored_paths, v \in Vals :
         /\ change_db' = Record(p, v)
         /\ demo_db' = [demo_db EXCEPT ![p] = v]
    /\ UNCHANGED <<handlerVars, set_db, sets, touched, monitored_paths,
                   change_event_queue, changerVars>>

\* The batch ends with "send" or "break" and the locks are released.
FinishAdd ==
    /\ changer = "add"
    /\ send' \in BOOLEAN
    /\ changer' = "sent"
    /\ UNCHANGED <<read_queue, change_db, change_event_queue, add_count>>
    /\ ChangerUnchanged

\* Variant: no SEND when the reader has events waiting anyway.
SendDueWhenIdle == send /\ change_db # <<>> /\ read_queue = <<>>

\* Variant: a single change does not count.
SendDueForSeveral == send /\ Len(change_db) > 1

\* if send: if len(self.change_db), without the lock.
SendDue == send /\ change_db # <<>>

PutSend ==
    /\ changer = "sent"
    /\ changer' = "get"
    /\ change_event_queue' = IF SendDue THEN Append(change_event_queue, "SEND")
                                        ELSE change_event_queue
    /\ UNCHANGED <<read_queue, change_db, send, add_count>>
    /\ ChangerUnchanged

\* get(timeout=1) raises Empty: either skip this round, the first time, ...
SkipAdd ==
    /\ changer = "get" /\ change_event_queue = <<>>
    /\ add_count = 0
    /\ add_count' = 1
    /\ UNCHANGED <<read_queue, change_db, change_event_queue, changer, send>>
    /\ ChangerUnchanged

\* Variant: the count goes on.
CountOn == add_count + 1

\* add_count = 0
CountReset == 0

\* ... or go on to put(ADD).
Timeout ==
    /\ changer = "get" /\ change_event_queue = <<>>
    /\ Len(read_queue) < MaxEvents
    /\ changer' = "timeout"
    /\ add_count' = CountReset
    /\ UNCHANGED <<read_queue, change_db, change_event_queue, send>>
    /\ ChangerUnchanged

PutAdd ==
    /\ changer = "timeout"
    /\ changer' = "get"
    /\ change_event_queue' = Append(change_event_queue, "ADD")
    /\ UNCHANGED <<read_queue, change_db, send, add_count>>
    /\ ChangerUnchanged

----------------------------------------------------------------------------
(* Other RPCs on the same data: the adapter is a singleton.                 *)

OtherRpc(p) ==
    /\ ~Locked /\ sets < MaxSets
    /\ sets' = sets + 1
    /\ touched' = touched \cup {p}
    /\ UNCHANGED <<handlerVars, changeVars>>

\* set_update() of a Set request.
SetUpdate ==
    \E p \in Paths, v \in Vals :
        /\ OtherRpc(p)
        /\ set_db' = [set_db EXCEPT ![p] = v]
        /\ UNCHANGED demo_db

\* The change thread of another subscription writes the leaf; it puts the
\* change into the change_db of its own handler.
OtherChange ==
    \E p \in TypePaths, v \in Vals :
        /\ OtherRpc(p)
        /\ demo_db' = [demo_db EXCEPT ![p] = v]
        /\ UNCHANGED set_db

----------------------------------------------------------------------------

ReaderNext ==
    \/ ReaderCommonNext /\ UNCHANGED <<dbVars, changeVars>>
    \/ GetSample \/ FinishSample \/ GetMonitoredChanges \/ NothingToSend
    \/ StopMonitoring \/ MonitoringStopped \/ QueueNotEmpty

ChangerNext ==
    \/ GetChangeEvent \/ AddChange \/ FinishAdd \/ PutSend
    \/ SkipAdd \/ Timeout \/ PutAdd

Next ==
    \/ (ClientNext \/ RpcDone \/ RequesterNext) /\ UNCHANGED <<dbVars, changeVars>>
    \/ ReaderNext
    \/ ChangerNext
    \/ SetUpdate
    \/ OtherChange

\* Every thread of the server runs; the client, which may never take a response, and
\* the other RPCs need not.
\* A reader that waits for a lock gets it: the changer, which takes the locks
\* over and over, leaves them free for the second its get(timeout=1) takes.
Fairness ==
    /\ WF_vars(ReaderNext /\ ~HeldUp)
    /\ SF_vars(GetSample)
    /\ SF_vars(GetMonitoredChanges \/ NothingToSend)
    /\ WF_vars(ChangerNext)
    /\ WF_vars(RequesterNext /\ UNCHANGED <<dbVars, changeVars>>)
    /\ WF_vars(RpcDone /\ UNCHANGED <<dbVars, changeVars>>)

Spec == Init /\ [][Next]_vars

FairSpec == Spec /\ Fairness

----------------------------------------------------------------------------
(* Properties.                                                              *)

\* The values an update can have.
Values == Vals \cup {Iana(v) : v \in Vals}

\* The variables have the types the code gives them.
TypeOK ==
    /\ HandlerTypeOK(Values, [path : Paths, val : Values])
    /\ demo_db \in [Paths -> Vals]
    /\ set_db \in [Paths -> Vals \cup {None}]
    /\ sets \in 0..MaxSets
    /\ touched \in SUBSET Paths
    /\ monitored_paths \in SUBSET Paths
    /\ change_db \in Seq([path : TypePaths, val : Vals])
    /\ change_event_queue \in Seq(ChangeEvents)
    /\ changer \in ChangerStates
    /\ send \in BOOLEAN
    /\ add_count \in 0..1

\* No lost wakeup.  When the changer is back at its queue and its last batch
\* ended with "send", changes that are still in change_db have a SEND or a
\* SEND_CHANGES on its way to the reader, or the reader is about to collect
\* them (process_changes, put_event, read).
NoLostWakeup ==
    changer \in {"get", "timeout"} /\ send /\ change_db # <<>> =>
        \/ Holds(change_event_queue, "SEND")
        \/ Holds(read_queue, "SEND_CHANGES")
        \/ reader = "changes"

\* What the client ends up with for a leaf once it has applied what the
\* reader has gathered and what waits in change_db.
Known(p) == view[p] # None \/ Mentions(response, p) \/ Mentions(change_db, p)

Upcoming(p) ==
    IF Mentions(change_db, p)
      THEN Iana(change_db[Last(change_db, p)].val)
      ELSE Apply(response, view)[p]

\* No change is lost, reordered or overwritten by a sample: for every leaf
\* that only this subscription's changer writes, what the client has been
\* told, the response in the making and change_db, applied in this order,
\* give the value in the data, at every point of every interleaving of
\* sample(), get_monitored_changes() and process_changes().
ClientCatchesUp ==
    \A p \in TypePaths \ touched :
        Known(p) => Upcoming(p) = Iana(demo_db[p])

\* A client that goes away never keeps a worker of the server's pool busy:
\* once the RPC has ended, Subscribe ends too (subscribe_rpc_done, stop,
\* the two joins), in one way or another.
WorkerReleased == rpc = "ended" ~> ReaderEnded

\* Changes announced by "send" are collected by the reader unless it ends, if the
\* client takes every response sooner or later: a reader held up in a yield for ever
\* collects nothing (put_event, read).
ChangesCollected ==
    []<>~HeldUp =>
        (send /\ change_db # <<>> ~>
            change_db = <<>> \/ ReaderEnded \/ reader \in {"stop", "join"})
===============================================================================
