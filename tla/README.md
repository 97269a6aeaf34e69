# ConfD-Demos: a TLA+ verification of the demos that replicate, stream and transport configuration

The repository is a collection of programs around ConfD, an on-device management
agent with a configuration database (CDB).  This directory holds TLA+ models of
the concurrent ones, their TLC configurations, and proofs checked by TLAPS.

`PROJECT.json` lists the components, the runs, the source lines behind every
definition, the hazards, the findings, and the theorems.

## The system

| Part | State | Operations | Hard behaviours |
|---|---|---|---|
| gNMI server, Subscribe (`confdgnmi/src/confd_gnmi_server.py`, `confd_gnmi_adapter.py`) | per RPC: read queue, subscription mode, request thread | Subscribe, read, poll, stop, rpc-done callback | several threads per RPC, cancellation at any point, a generator that may be dropped at a yield |
| demo adapter (`confd_gnmi_demo_adapter.py`) | `demo_db` shared by all RPCs, `change_db`, change queue, change thread | sample, changes, Set, start and stop monitoring | unlocked tests, timeouts, events after FINISH |
| ConfD API adapter (`confd_gnmi_api_adapter.py`) | MAAPI session, CDB subscription, external change socket, stop pipe, `change_db` | the same against ConfD | a commit waits for the subscriber; failing calls |
| gNMI server, Capabilities, Get and Set, and paths (`confd_gnmi_server.py`, `confd_gnmi_common.py`) | per RPC: updates read or written | read path by path, set, delete | other transactions between two reads, one half of a Set failing |
| route status provider (`route_status.py`) | routes, stop flag, stop pipe, sockets | data callbacks, generated changes, shutdown | Ctrl-C at any moment, three threads |
| active-active synchronizer (`active-active/consistent-sync/app/aasync.c`) | per node: `aasync_usr`, `nvals`, the loops over the other nodes | two-phase subscriber; lock, transaction and finish callbacks | distributed locking, partial failure, one thread for everything |
| NETCONF synchronizer (`confd-sync-py/app/cdbl-sync-nc.py`) | subscriptions, queue, children | prepare, commit, abort with confirmed commit; sync-to; server list | partial failure, timeouts, changes of the list it works on |
| NETCONF console (`confd-sync-py/app/netconf_console.py`) | buffers, framing, replies expected | send, receive, print, close | bytes that arrive in any pieces, a lost connection |

How they interact: the API adapter is told of changes by CDB and by the route
status provider; `RouteStatus` and `ApiSubscription` each have the other as an
external action.  The NETCONF synchronizer runs the console once per server and
operation; what `SyncNetconf` takes as an outcome of an operation is what
`NetconfConsole` shows about its output.

## Modules

    SubscriptionHandler             what every Subscribe RPC has
      SubscriptionHandlerProofs     lemmas for both adapters
      DemoSubscription              with the demo adapter
        DemoSubscriptionProofs
        MCDemoSubscription
      ApiSubscription               with the ConfD API adapter
        ApiSubscriptionProofs
        MCApiSubscription
    GnmiPaths                       gNMI paths and strings
      GnmiRpcs                      Capabilities, Get and Set
        GnmiRpcsProofs
        MCGnmiRpcs
    RouteStatus                     the route status provider
      RouteStatusProofs
      MCRouteStatus
    AASync                          the active-active cluster
      AASyncProofs
      MCAASync
    TagValues                       the text of an edit
      SyncNetconf                   the NETCONF synchronizer and its servers
        SyncNetconfProofs
        MCSyncNetconf
    MessageStream                   what a transport promises (abstract)
    NetconfTransport                the two framings, byte by byte
      NetconfConsole                a session; implements MessageStream
        MCNetconfConsole

A module whose name begins with MC gives constants their values for TLC and
replaces nothing.

### SubscriptionHandler

One Subscribe RPC.  `rpc`, `callback` and `requester` are the gRPC call, its
termination callback `subscribe_rpc_done` and the thread of `_read_sub_request`;
`reader` is the point `read()` has reached; `read_queue` is the queue the other
threads put events into.  `response` is the notification in the making and
`view` is what a client knows that applies every response it is sent.  The gRPC
library is external: after the RPC has ended `add_callback` does nothing, and at
the next yield the generator is dropped, so that what follows the yield does not
run.  The adapter modules EXTEND this one and add the actions in which adapter
code runs.

### DemoSubscription

`demo_db` with the values of `Set` beside it (`set_db`, as `set_update` stores a
name with prefix), `change_db`, `change_event_queue`, and the change thread
(`changer`, with its local `send` and `add_count`).  A lock of the code is held
within one action, so that it needs no variable, except where the code tests
without it (`SendDue`).  `touched` records the leaves that others write;
`ClientCatchesUp` speaks of the rest.

### ApiSubscription

`data` is the configuration and operational data, whose leaves may be absent.
`Commit` is a transaction: CDB notifies the change thread (`notification`,
`delivery`) and waits until it synchronizes the subscription socket.
The route status provider changes a value (`ProviderChange`) and later sends its
message (`ProviderSend`, from `unsent`) on the external change socket (`backlog`); a
sample may come between.  `changer` goes through `socket_loop`: `select`, then what is
readable, in the order of the code.  `missed` records the leaves whose changes the
change thread was not there to hear of or failed to read, and those whose read failed
in the first sample, which the client is not told (`SampleFails`); the next sample that
reads a leaf takes it out again.  `Faults` allows calls to ConfD to fail, with the
different outcomes inside and outside the `try`.

### GnmiPaths and GnmiRpcs

Each worker runs one RPC at a time against ConfD's `data`, which other managers
change (`OtherTransaction`).  A Get reads one path per step; a Set is a
transaction with the updates and then one with the deletions.  `past` keeps what
ConfD has had.  The conversions between paths and strings are operators on
sequences of tokens; `GnmiPaths` has those of `confd_gnmi_common.py` and the path
made of a keypath.

### RouteStatus

The three threads: `main` goes through `try`, `sleep` and the `finally` part, the
change thread (`change`) makes up to `MaxChanges` changes (`msgs`) and sends them,
and the loop (`confd`) serves the control and the worker socket before it looks at
the stop pipe.  ConfD may ask any number of times (`Asks`), before and after the stop.  Ctrl-C is possible wherever `main` may be in `try`.  `told` is what
the change server knows, `walked` what ConfD was told in the present walk.

### AASync

A cluster that is up.  Per node the ConfD has the transactions committed (`log`),
the transaction in progress (`owner`, `trans`, `phase`), the global lock
(`locked`) and a pending notification (`event`); the synchronizer has its flag
`aasync_usr`, `nvals`, and the place in its loops (`pc`, `todo`, `retries`).  A
callback of a ConfD (`global_lock`, `t_lock`, `t_finish`) happens only while the
synchronizer of that node is in `poll`, because the process has one thread.
ConfD is external.  Assumed of it, as the comments of `aasync.c` have it: a lock is
refused while another session has it or a transaction is in progress; no
transaction starts on a locked node; a transaction is in progress until it is
finished; closing a session releases its lock and aborts its transaction.
`partial` is a history variable: the transactions that did not get to all nodes,
because they were taken for another synchronizer's or failed in commit.

### TagValues and SyncNetconf

The synchronizer of the master node (`pc`, the notified subscriptions `sids` and
those without modifications `nomods`), one child process per server and operation
(`jobs`) with the queue for their errors (`q`), the transaction of the master
(`phase`, `mods`, `newList`), and the datastores of each server (`running`,
`candidate`, and in `rollback` what an unconfirmed commit goes back to).
Configuration is the set of the transactions whose changes it has.  Subscriptions
are notified in the order of their priorities, and the server list may change
while the program runs.  Two slips are modelled as they are: `cancel_commit`
evaluates `sid. q` and its child ends with an exception, and the handlers read an
attribute `queue` that a `SimpleQueue` does not have, so that the first refused
operation ends the synchronizer.  The servers and the master's ConfD are external:
a server refuses a second confirmed commit while one is unconfirmed, refuses a
confirmation when there is none, and rolls back by itself after a timeout; a
transaction whose subscriber is gone before it has answered is aborted.
`took`, `taken`, `missed` and `strays` are history: the servers a transaction concerns,
those that have made its confirmed commit, those that missed an operation nobody noticed
(a server that was not found, an edit refused behind the reply that is looked at), and
those with something in their candidate that the transaction did not put there.
`TagValues` is how a list of modifications becomes the tags of an edit, one for each
line of the text; indentation is left out.

### MessageStream, NetconfTransport and NetconfConsole

`NetconfTransport` has `recv_chunk` in both framings with its buffers; `_recv`
returns any number of the bytes that have arrived.  `NetconfConsole` adds a session
over it: hello, sending in blocks, the reply loop with all kinds of requests and
output styles, get-schema, close-session, and a server that answers or, where it is
asked for a schema, refuses (`Refusal`).  What is sent is counted, not spelt: a block of
`_send` has a chunk header (`Header`) with NETCONF 1.1, and one full buffer is sent for
each call.  A message is a sequence of bytes; `"u1", "u2"` are the two bytes of one
character, and a piece with only one of them cannot be decoded (`Decodable`), where
`str_data` raises an exception.  `MessageStream` is what the reader of a transport may
rely on; `sent`, `got`, `part` and `broken` of `NetconfConsole` are the mapping, and
`Delivers` is the refinement.

## Runs

Deadlock checking is off where a subscription, a session or a bounded number of
transactions really comes to an end.

| Run | Bounds | Shows |
|---|---|---|
| `demo` | one changing leaf, two values, two changes, two queued events, one Set from another RPC, no poll, fairness | `TypeOK`, `NoLostWakeup`, `ClientCatchesUp`, `WorkerReleased`, `ChangesCollected` |
| `api_safety` | a CDB leaf and a provider leaf, two values, one poll, two changes, failing calls | `TypeOK`, `NoLostWakeup`, `ClientCatchesUp` |
| `api_live` | two subscription points, two transactions, failing calls, fairness | `WorkerReleased`, `CommitAcknowledged` |
| `api_changes_are_sent` | three leaves, two changes, no failing calls | violates `ChangesAreSent`, a sentence of `docs/ConfD_gNMI_adapter.adoc` |
| `rpcs` | two workers, ten requests, two leaves, state and two containers, one transaction of another manager, failing calls; paths of up to two elements | `TypeOK`, `SetHalves`, `SetAsAsked`, `GetCurrent`, `StringsReadBack` |
| `route_provider` | two routes, two values, two changes in a round, any number of requests, failing calls, fairness | `TypeOK`, `Told`, `WalksInOrder`, `ClosedAtTheEnd`, `Stops` |
| `aasync_cluster` | three nodes, three transactions, two lock retries (as in the code), every kind of failing call, fairness | `TypeOK`, `OneReplicator`, `NoEcho`, `AbortedNowhere`, `OneOrder`, `ReplicasAgree`, `TransactionEnds`, `NodesFreed` |
| `aasync_contention` | three nodes, three transactions, no failing call | violates `Agreement`, a sentence of the README of the demo |
| `sync_network` | two servers of different priority, two transactions or sync-to actions, refusals, servers not reached, timeouts, changes of the list, edits of up to six modifications, fairness | `TypeOK`, `NothingAhead`, `TakenByAll`, `ListFollowed`, `EditsReadable`, `Answered` |
| `sync_network_wide` | as above with one edit, three transactions, nothing refused, no timeouts, a fixed list | violates `NetworkWide`, a sentence of `confd-sync-py/README` |
| `console_session` | a hello, four replies and a refusal of one or two bytes, a send buffer of three, requests of four bytes, a data file of twelve, two commands, a lost connection, fairness | `TypeOK`, `Shown`, `FailsWithCause`, `Delivers`, `Ends` |
| `console_bytes_kept` | as above, pauses anywhere, no lost connection | violates `BytesKept`, two comments of `netconf_console.py` |

Why the bounds are enough.  A race on the queues of a subscription needs two
changes (one collected, one not) and two events.  Two leaves are needed only where
one notification carries several.  A poll adds a second sample beside changes that
wait: `api_safety` has one, and for the demo adapter, where it would make the check
of liveness too long, the theorems hold for any number of polls.  Two RPCs and one
foreign transaction put a commit between any two steps of a Get or Set.  A walk over
two routes has a first, a next and an end.  Three nodes are the fewest with which a synchronizer can hold one lock
and wait for another, and three transactions let two collide and a third meet what
they left behind.  Two servers are enough for one to take a change the other
refuses, and a second transaction meets the candidate, the unconfirmed commit or the
server list that the first one left.  Messages of one and two bytes, of which one
looks like a part of the end mark, one ends in a line feed and one is a character of two
bytes, are cut at every place.  A request is longer than the send buffer and a data file
takes several blocks.

### What the violations mean

* `api_changes_are_sent`: a commit after the sample and before the subscription
  is in neither; the client keeps the old value until the leaf changes again.
* `aasync_contention`: a synchronizer locks node 2, which sets `aasync_usr` there,
  and gives up on node 1.  No transaction was started on node 2, so that nothing
  resets the flag.  The next transaction of node 2's own manager is taken for a
  replicated one and stays on node 2.  `OneOrder` and `ReplicasAgree` show that
  this and a failing `maapi_commit_trans` are the only ways to lose agreement.
* `sync_network_wide`: a manager aborts a transaction that all servers have taken.
  No cancel-commit is sent, and the servers run the change until their confirmed
  commits time out.  `NothingAhead` shows that it does not last, but for the
  servers it names (`strays`).
* `console_bytes_kept`: a pause of a second inside a frame makes `recv_chunk` raise
  a timeout, and what it had received of the frame is in a local variable.

More that is said in the code does not hold, and no run of its own is spent on it; the
models have all of these behaviours:

* the change queue of the demo adapter may not be empty when `stop_monitoring` asserts so
  after the join (an event put after FINISH);
* the API adapter asserts that there are changes at every SEND_CHANGES, of which two may
  announce the same changes;
* the change thread outlives its RPC if the generator is dropped at a yield;
* a Get is "a snapshot of data" by its docstring and its notification is marked atomic,
  but each path is read in a transaction of its own: `GetCurrent` says what is true
  instead, that the moments of the reads lie within the call and are in order;
* the style plain is to "print one reply as raw, skip the rest", but fails when a second
  reply comes; `FailsWithCause` has this as one of the causes.

### What the properties except

Where the code has no way to notice something, a property excepts it by name, and the
hazard in `PROJECT.json` says that no property covers it:

* `TakenByAll` and `NothingAhead` except the servers in `missed` and `strays`: an unknown
  host, and an edit whose refusal is not the first reply of the session, count as success;
* `ListFollowed` excepts a change of the server list in one transaction with others
  (`together`);
* `SetAsAsked` excepts objects with something after an inner object, where `set_update`
  goes on at the wrong place;
* `ClientCatchesUp` of the API adapter excepts `missed`, that of the demo adapter leaves
  that other RPCs set (`touched`);
* `Delivers` and `Ends` are without pauses inside a frame, which `console_bytes_kept` has.

### Fairness

Weak fairness of the threads of the server (each runs when it can), of the
termination callback, of the synchronizers, of the console and of the threads of the
provider; that is scheduling by the operating system.  A reader of the demo adapter
that waits for a lock gets it (strong fairness of `GetSample` and of collecting
changes), as the change thread leaves the locks free for the second its
`get(timeout=1)` takes.  No fairness for clients, commits, requests, Ctrl-C and
providers, and none for failures.  In `aasync_cluster` and `sync_network` a manager
commits or aborts what ConfD has prepared; the timers of the servers are not assumed
to go off.  In `console_session` the server answers and time goes on.

What depends on others beyond that is a premise of the property:

* a client may leave its responses unread, so that the reader need not get past a yield
  while the RPC is active (`HeldUp`).  `WorkerReleased` and `CommitAcknowledged` hold
  all the same; `ChangesCollected` supposes that the reader is not held up for ever;
* `Answered` supposes that every call of a server comes to an end, since a handler joins
  children that wait for the server's hello without a limit;
* `Stops` supposes that ConfD asks no more from some time on, since the loop looks at
  the stop pipe only when no request waits.  Without the premise TLC finds a run in
  which the program does not end.

## Proofs

Every theorem is about every value of the constants, under the named assumptions
next to their declarations; TLC evaluates these assumptions in the runs.

| Module | Theorems | For |
|---|---|---|
| `DemoSubscriptionProofs` | `TypeCorrect`, `NoWakeupIsLost`, `ClientAlwaysCatchesUp` | any leaves, values, polls, changes, events and Sets |
| `ApiSubscriptionProofs` | `TypeCorrect`, `NoWakeupIsLost`, `ClientAlwaysCatchesUp` | any CDB and provider leaves, values, polls and changes, with and without faults |
| `RouteStatusProofs` | `TypeCorrect`, `ServerIsTold`, `WalksAreComplete`, `EndsInOrder` | any routes, values and changes in a round |
| `SyncNetconfProofs` | `TypeCorrect`, `ListIsFollowed`, `NeverAhead`, `CommittedEverywhere` | any servers, priorities, edits and transactions |
| `GnmiRpcsProofs` | `TypeCorrect`, `AppliedByHalves`, `GetsAreCurrent` | any workers, requests, data and transactions of other managers, with and without faults |
| `AASyncProofs` | `TypeCorrect`, `OneAtATime`, `NeverEchoes`, `OnlyCommitted`, `CommittedInOrder`, `ReplicasEndEqual` | any cluster, transactions, retries and failing calls |

All safety invariants of the runs `demo`, `api_safety`, `api_live`, `route_provider`
and `aasync_cluster`, those of `sync_network` but for `EditsReadable`, and of `rpcs`
`TypeOK`, `SetHalves` and `GetCurrent` are proved.

**Subscriptions.**  Both adapters share the lemmas of `SubscriptionHandlerProofs`:
that the last update for a leaf in a sequence exists and what appending does to it
(`LastExists`, `LastAppend`; from the well-foundedness of the naturals), what an
event queue holds, and what the steps of the handler do to the types and to what a
client will know.  The inductive invariants (`IndInv`) add to the properties:

* `Started`: there is a change thread only after the first sample;
* `HandlerOrder`: between responses nothing is left in `response`, so that a sample
  starts from what the client knows;
* demo adapter, `Untouched`: `Set` has left the leaves outside `touched` alone;
* API adapter, `PointsNotified`: while a subscription point is processed CDB holds
  the next commit back, which is why a value read in it is not stale;
  `MessagesWait` and `MessagesCurrent`: the newest message of the provider about a
  leaf, waiting or still unsent, has the value the leaf has.

**gNMI RPCs.**  A step is about one worker or about ConfD alone: the lemmas `ByWorkers`,
`WorkerStep` and `GrowsByOne` reduce each to the worker that takes it, and for the
others to `past` growing at its end.  The inductive invariant `IInv` adds to `TypeOK`
the place of an RPC (`Place`), what a Set has written at each place (`SetProgress`),
and for a Get that is under way the moments at which its paths were read (`Moments`),
of which `GetCurrent` speaks only when it is answered.  What `set_update` makes of the
values (`Updated`) stays opaque: the theorems hold whatever it computes, provided ConfD
has found it valid.

**Route status provider.**  `EndsInOrder` needs `Places` (which thread has come how
far at every place of `main`) and `Pipe` (who has made the stop pipe and what is in
it).  `WalksAreComplete` and `ServerIsTold` have invariants of their own: that a
request on the worker socket is the next one of the walk (`InOrder`), and that a round
has one message at most about a route and no more messages than changes (`Round`).

**NETCONF synchronizer.**  `NothingAhead` and `TakenByAll` are not inductive: a
confirmation makes what a server runs its settled configuration, so one has to know
what a server runs from its edit on.  `Own` and `Whole` say this of the servers that
are `Edited` and `Taken` in the transaction in progress: the candidate, and what
runs unconfirmed, is the master's configuration plus no more than the transaction,
and has all of the transaction.  `NoneRefused` says that the servers
that are `Taken` have really made the confirmed commit: a refusal is in the queue, and
`handle_sub_prepare` looks there before it goes on.
`Listing` adds that a transaction of the list alone
has no handler at work, and `Shape` the remaining types.

**Active-active cluster.**  `IInv` has one clause per node (`Local`: what the flag,
the notification and the loops of a node say about the transaction on it) and one
per pair (`OnOther`: whether a synchronizer has the lock of, or a transaction on,
another node and how far it is there, as a function of its place in its loops).  The
lemmas `Frame`, `FrameOne` and `FrameTwo` reduce a step to the nodes it is about.
`OneReplicator` follows at the step that takes the last lock: all other nodes are
then without transactions.  The order of the logs has a second layer, `Order`:

* `Youngest`: the transaction of a manager is younger than everything in the log of
  its node, until it is committed there;
* `Spreading`: a replicated transaction is missing on a node only while its own
  synchronizer is in the commit loop and has that node ahead of it;
* `Distinct` and `Sorted`.

When a synchronizer commits on another node, `Spreading` and `OneReplicator` give
that this node has all that the synchronizer's own node has, except the transaction
itself, and `Youngest` that it is the largest.  `OneOrder` and `ReplicasAgree` follow.

The inductive invariants `IInv` and `Order` of `AASync`, and `IInv`, `Listing` and
`Shape` of `SyncNetconf` were checked by TLC with the constants of `aasync_cluster`
and `sync_network` before they were proved.

### Only model-checked, and why

* Liveness (`WorkerReleased`, `ChangesCollected`, `CommitAcknowledged`, `Stops`,
  `TransactionEnds`, `NodesFreed`, `Answered`, `Ends`): fairness and ENABLED are
  beyond the prover.
* `EditsReadable`, `SetAsAsked` and `StringsReadBack` are about what folds and
  recursive definitions compute, which needs induction over data.
* `Shown`, `FailsWithCause`, and the refinement `Delivers`: where a frame ends in a
  byte stream is a search over the bytes, again an induction over data.

## Not modelled

* `AASync`: the start phases in which a node joins and copies the configuration, and
  changes of the node list.  They run while no transaction is replicated.
  `handle_aacluster_modifications` keeps the id and address of one list entry for the
  next, and `t_lock` opens a socket for every replicated transaction and does not close
  it; neither file descriptors nor the node list are state of the model.
* Deletions in a subscription: `ApiSubscription` has them, and a deleted leaf yields no
  update, so that a client keeps its value.  `ClientCatchesUp` is about leaves that
  exist, as no document says that deletions are sent.
* gNMI: the construction of gRPC messages, value conversions (type tables), Get and
  Capabilities of the demo adapter (one dictionary under its lock), the client's
  command line, and the NETCONF adapter, which is a stub.
* NETCONF console: the XML of requests, SSH and TCP below `send` and `recv`.
* The modification subscriber: only the text it writes is modelled (`TagValues`).
* The YANG-push provider has the threads of the route status provider in C++; the
  transforms (`passwd-policy-transform`, `symlink`) and the PostgreSQL and
  performance providers are callbacks without state of their own between requests.
* The web UI, measurement programs, load generators, YANG tools, subscribers that
  write a file, and deployment recipes are sequential scripts or pure input and
  output.  The components list gives the reason for each.
