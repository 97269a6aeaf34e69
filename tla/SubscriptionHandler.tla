------------------------- MODULE SubscriptionHandler -------------------------
(****************************************************************************)
(* The part of the gNMI adapter that serves one Subscribe RPC, whatever     *)
(* the device adapter: ConfDgNMIServicer.Subscribe and _read_sub_request    *)
(* (confd_gnmi_server.py) and GnmiServerAdapter.SubscriptionHandler         *)
(* (confd_gnmi_adapter.py).                                                 *)
(*                                                                          *)
(* Three threads of the server take part: the gRPC worker that runs         *)
(* Subscribe and the generator read() (here: the reader), the thread that   *)
(* runs _read_sub_request (the requester), and the gRPC thread that calls   *)
(* subscribe_rpc_done when the RPC ends.  They meet in read_queue.  What a  *)
(* device adapter adds (get_sample, start_monitoring, its change thread,    *)
(* stop_monitoring) is in DemoSubscription and ApiSubscription; the actions *)
(* of this module leave their variables out and are completed there.        *)
(****************************************************************************)
EXTENDS Naturals, Sequences

CONSTANTS
    Paths,      \* the leaves the subscription list names
    None,       \* the value of a leaf the client has not been told yet
    MaxPolls    \* bound: requests the client sends after the first one

ASSUME PathsNonEmpty == Paths # {}
ASSUME MaxPollsNat == MaxPolls \in Nat

VARIABLES
    mode,          \* subscription_list.mode
    rpc,           \* the RPC as the gRPC library sees it
    callback,      \* context.add_callback(subscribe_rpc_done)
    reader,        \* program counter of the reader
    first_sample,  \* local variable of read()
    read_queue,    \* events for read()
    unsampled,     \* leaves the running sample() has still to fetch
    response,      \* the updates gathered for the response in the making
    requester,     \* program counter of the request thread
    requests,      \* requests sent by the client, not read by the requester
    polls,         \* requests sent so far (bounded by MaxPolls)
    half_closed,   \* the client has closed its request stream
    view           \* what the client has been told (for the properties)

clientVars == <<requests, polls, half_closed>>

rpcVars == <<rpc, callback, requester>>

readVars == <<reader, first_sample, unsampled, response, view>>

handlerVars == <<mode, rpcVars, readVars, read_queue, clientVars>>

Modes == {"ONCE", "POLL", "STREAM"}

\* SubscriptionEvent
Events == {"SEND_CHANGES", "SAMPLE", "FINISH"}

\* Where the reader can be.  "accept" and "accepted" are in Subscribe before
\* and after add_callback; "sample" .. "stop" and "join" are in read(), the
\* last two in stop_monitoring(); "join_requests" is thr.join().  It ends
\* "done", "failed" (an exception left Subscribe) or "dropped" (the library
\* let go of the generator at a yield because the RPC had ended).
ReaderStates ==
    {"accept", "accepted", "sample", "yield_sample", "yield_sync", "get",
     "changes", "yield_changes", "stop", "join", "join_requests",
     "done", "failed", "dropped"}

ReaderEnded == reader \in {"done", "failed", "dropped"}

\* One update of a notification.
Update(p, v) == [path |-> p, val |-> v]

\* The updates of a notification are applied in order: the last one for a
\* leaf is the one that counts.
Last(updates, p) ==
    CHOOSE i \in DOMAIN updates :
        /\ updates[i].path = p
        /\ \A j \in DOMAIN updates : j > i => updates[j].path # p

Mentions(updates, p) == \E i \in DOMAIN updates : updates[i].path = p

Apply(updates, told) ==
    [p \in Paths |-> IF Mentions(updates, p)
                       THEN updates[Last(updates, p)].val
                       ELSE told[p]]

HandlerInit ==
    /\ mode \in Modes
    /\ rpc = "active"
    /\ callback = "none"
    /\ reader = "accept"
    /\ first_sample = TRUE
    /\ read_queue = <<>>
    /\ unsampled = {}
    /\ response = <<>>
    /\ requester = "none"
    /\ requests = 0
    /\ polls = 0
    /\ half_closed = FALSE
    /\ view = [p \in Paths |-> None]

----------------------------------------------------------------------------
(* The client and the gRPC library.                                         *)

\* A further SubscribeRequest of the client.
ClientRequest ==
    /\ rpc = "active" /\ ~half_closed /\ polls < MaxPolls
    /\ requests' = requests + 1
    /\ polls' = polls + 1
    /\ UNCHANGED <<mode, rpcVars, readVars, read_queue, half_closed>>

\* generate_subscriptions returns: no more requests will come.
ClientHalfClose ==
    /\ rpc = "active" /\ ~half_closed
    /\ half_closed' = TRUE
    /\ UNCHANGED <<mode, rpcVars, readVars, read_queue, requests, polls>>

\* responses.cancel(), or the connection is lost.
ClientCancel ==
    /\ rpc = "active"
    /\ rpc' = "ended"
    /\ UNCHANGED <<mode, callback, requester, readVars, read_queue, clientVars>>

\* Variant: only a POLL subscription is stopped.
StopsPollOnly == mode = "POLL"

\* if not handler.is_once()
StopsReader == mode # "ONCE"

\* subscribe_rpc_done().  Before Subscribe assigns handler the name is
\* unbound: the callback raises NameError and no event is put.
RpcDone ==
    /\ rpc = "ended" /\ callback = "registered"
    /\ callback' = "called"
    /\ read_queue' = IF reader # "accepted" /\ StopsReader
                       THEN Append(read_queue, "FINISH")
                       ELSE read_queue
    /\ UNCHANGED <<mode, rpc, requester, readVars, clientVars>>

----------------------------------------------------------------------------
(* The request thread.                                                      *)

\* One round of the loop: every further request is taken for a poll, in any
\* mode, because hasattr(req, "poll") holds of every SubscribeRequest.
ReadSubRequest ==
    /\ requester = "reading" /\ requests > 0
    /\ requests' = requests - 1
    /\ read_queue' = Append(read_queue, "SAMPLE")
    /\ UNCHANGED <<mode, rpcVars, readVars, polls, half_closed>>

\* The stream of requests ends, or breaks with RpcError because the RPC ended.
SubRequestsEnd ==
    /\ requester = "reading"
    /\ rpc = "ended" \/ (half_closed /\ requests = 0)
    /\ requester' = "ended"
    /\ read_queue' = IF mode = "POLL" THEN Append(read_queue, "FINISH")
                                      ELSE read_queue
    /\ UNCHANGED <<mode, rpc, callback, readVars, clientVars>>

----------------------------------------------------------------------------
(* Subscribe and read().                                                    *)

\* First request taken, adapter connected, encoding supported, callback
\* registered; add_callback does nothing once the RPC has ended.
AcceptRequest ==
    /\ reader = "accept"
    /\ reader' = "accepted"
    /\ callback' = IF rpc = "active" THEN "registered" ELSE "none"
    /\ UNCHANGED <<mode, rpc, requester, first_sample, unsampled, response,
                   view, read_queue, clientVars>>

\* No first request, no adapter or no such encoding: Subscribe is left with
\* an exception.
RefuseRequest ==
    /\ reader = "accept"
    /\ reader' = "failed"
    /\ rpc' = "ended"
    /\ UNCHANGED <<mode, callback, requester, first_sample, unsampled,
                   response, view, read_queue, clientVars>>

\* The handler is made, the request thread started, and read() goes to its
\* first sample.
MakeHandler ==
    /\ reader = "accepted"
    /\ reader' = "sample"
    /\ unsampled' = Paths
    /\ requester' = IF mode = "ONCE" THEN "none" ELSE "reading"
    /\ UNCHANGED <<mode, rpc, callback, first_sample, response, view,
                   read_queue, clientVars>>

\* get_sample of one leaf, val being its value as it is written in the update.
SampleLeaf(p, val) ==
    /\ reader = "sample" /\ p \in unsampled
    /\ unsampled' = unsampled \ {p}
    /\ response' = Append(response, Update(p, val))
    /\ UNCHANGED <<mode, rpcVars, first_sample, view, read_queue, clientVars>>

\* The sample is complete; monitoring starts with the first one of a STREAM.
StartsMonitoring == mode = "STREAM" /\ first_sample

SampleComplete ==
    /\ reader = "sample" /\ unsampled = {}
    /\ reader' = "yield_sample"
    /\ UNCHANGED <<mode, rpcVars, first_sample, unsampled, response, view,
                   read_queue, clientVars>>

\* The generator yields the response: the client applies it, or the library
\* finds the RPC ended and drops the generator, which ends at this yield.
Yield(next) ==
    IF rpc = "active"
      THEN /\ view' = Apply(response, view)
           /\ response' = <<>>
           /\ reader' = next
      ELSE /\ reader' = "dropped"
           /\ UNCHANGED <<view, response>>

YieldSample ==
    /\ reader = "yield_sample"
    /\ Yield(IF first_sample THEN "yield_sync" ELSE "get")
    /\ UNCHANGED <<mode, rpcVars, first_sample, unsampled, read_queue,
                   clientVars>>

YieldSync ==
    /\ reader = "yield_sync"
    /\ Yield(IF mode = "ONCE" THEN "join_requests" ELSE "get")
    /\ first_sample' = (rpc = "ended")
    /\ UNCHANGED <<mode, rpcVars, unsampled, read_queue, clientVars>>

YieldChanges ==
    /\ reader = "yield_changes"
    /\ Yield("get")
    /\ UNCHANGED <<mode, rpcVars, first_sample, unsampled, read_queue,
                   clientVars>>

\* event = self.read_queue.get(), and the branch the event selects.
GetEvent ==
    /\ reader = "get" /\ read_queue # <<>>
    /\ read_queue' = Tail(read_queue)
    /\ LET event == Head(read_queue) IN
         /\ reader' = CASE event = "SAMPLE" -> "sample"
                        [] event = "SEND_CHANGES" -> "changes"
                        [] event = "FINISH" -> IF mode = "STREAM"
                                                 THEN "stop"
                                                 ELSE "join_requests"
         /\ unsampled' = IF event = "SAMPLE" THEN Paths ELSE unsampled
    /\ UNCHANGED <<mode, rpcVars, first_sample, response, view, clientVars>>

\* An exception leaves read() and Subscribe; the library ends the RPC.
Fail ==
    /\ reader' = "failed"
    /\ rpc' = "ended"
    /\ UNCHANGED <<mode, callback, requester, first_sample, unsampled,
                   response, view, read_queue, clientVars>>

\* thr.join(), after which Subscribe returns and the RPC is complete.
JoinRequests ==
    /\ reader = "join_requests" /\ requester # "reading"
    /\ reader' = "done"
    /\ rpc' = "ended"
    /\ UNCHANGED <<mode, callback, requester, first_sample, unsampled,
                   response, view, read_queue, clientVars>>

----------------------------------------------------------------------------

(* The steps in which no code of a device adapter runs, by thread.          *)

ClientNext == ClientRequest \/ ClientHalfClose \/ ClientCancel

RequesterNext == ReadSubRequest \/ SubRequestsEnd

ReaderCommonNext ==
    \/ AcceptRequest \/ RefuseRequest \/ MakeHandler
    \/ YieldSample \/ YieldSync \/ YieldChanges \/ GetEvent \/ JoinRequests

CommonNext == ClientNext \/ RpcDone \/ RequesterNext \/ ReaderCommonNext

\* The reader is held up in a yield until the client takes the response.
HeldUp == rpc = "active" /\ reader \in {"yield_sample", "yield_sync", "yield_changes"}

\* An event waits in a queue.
Holds(queue, event) == \E i \in DOMAIN queue : queue[i] = event

\* Values are those of leaves as the client is told them, Notes what a response
\* is made of.
HandlerTypeOK(Values, Notes) ==
    /\ mode \in Modes
    /\ rpc \in {"active", "ended"}
    /\ callback \in {"none", "registered", "called"}
    /\ reader \in ReaderStates
    /\ first_sample \in BOOLEAN
    /\ read_queue \in Seq(Events)
    /\ unsampled \in SUBSET Paths
    /\ response \in Seq(Notes)
    /\ requester \in {"none", "reading", "ended"}
    /\ requests \in Nat
    /\ polls \in 0..MaxPolls
    /\ half_closed \in BOOLEAN
    /\ view \in [Paths -> Values \cup {None}]
==============================================================================
