------------------------------- MODULE RouteStatus -------------------------------
(****************************************************************************)
(* The route status provider (route_status.py), an external data provider   *)
(* of ConfD that tells the gNMI adapter of its changes.  Three threads: main*)
(* starts the others and stops them; the change thread changes routes and   *)
(* sends what it changed to the adapter's change server; the ConfD loop     *)
(* answers the requests of ConfD on the control and worker sockets, until   *)
(* there is a byte in the stop pipe.                                        *)
(*                                                                          *)
(* leaf1 is the only leaf that changes; ConfD and the change server are     *)
(* external.                                                                *)
(****************************************************************************)
EXTENDS Naturals, Integers, Sequences, Functions

CONSTANTS
    Ids,          \* the routes, in the order of the dictionary
    Vals,         \* of leaf1
    None,
    MaxChanges,   \* randint(1, 3)
    Faults        \* the library may raise an error for a request

ASSUME NoneIsNoCount == \A k \in 0..1 : k # None
ASSUME ValuesAreNumbers == Vals \subseteq Nat
ASSUME Sizes == Ids \in Seq(Range(Ids)) /\ Ids # <<>> /\ MaxChanges \in Nat \ {0}

VARIABLES
    leaf1,                 \* route_data.routes[id].leaf1
    main, change, confd,   \* where the threads are
    stop_thread,
    stop_pipe,             \* None, or the bytes in it
    open,                  \* the sockets
    \* The change thread.
    left,                  \* changes to be made in this round
    msgs,                  \* pairs of a route and a value
    \* ConfD.
    ctl, wrk,              \* requests that wait on the sockets
    next,                  \* the next_idx that ConfD was told, -1 at first
    \* History.
    walked,                \* the routes that ConfD was told in this walk
    told,                  \* what the change server knows
    lost,                  \* routes whose last change could not be sent
    early                  \* the program was to stop before the loop had its pipe

mainVars == <<main, stop_thread, open, early>>
changeVars == <<leaf1, change, left, msgs, told, lost>>
confdVars == <<confd, ctl, wrk, next, walked>>
vars == <<mainVars, changeVars, confdVars, stop_pipe>>

Routes == Range(Ids)

\* RouteData and init_dp.
Init ==
    /\ leaf1 = [id \in Routes |-> 2 * CHOOSE k \in DOMAIN Ids : Ids[k] = id]
    /\ main = "try" /\ change = "none" /\ confd = "none"
    /\ stop_thread = FALSE /\ stop_pipe = None /\ open = TRUE /\ early = FALSE
    /\ left = 0 /\ msgs = <<>>
    /\ ctl = FALSE /\ wrk = None /\ next = -1
    /\ walked = <<>> /\ told = leaf1 /\ lost = {}

----------------------------------------------------------------------------
(* The change thread: generate_changes.                                     *)

\* sleep(sleep_val)
Wakes ==
    /\ change = "sleep"
    /\ change' = "change" /\ msgs' = <<>>
    /\ left' \in 1..MaxChanges
    /\ UNCHANGED <<leaf1, told, lost, mainVars, confdVars, stop_pipe>>

ChangedKeys == {m[1] : m \in Range(msgs)}

\* Variant: any route is changed, those that were changed before without a message.
SetAnyway(key) == TRUE

Changes(key) == key \notin ChangedKeys

\* Variant: one change too many.
StillChanges == left >= 0

\* for c in range(randint(1, 3))
MoreChanges == left > 0

ChangeRoute ==
    /\ change = "change" /\ MoreChanges
    /\ left' = left - 1
    /\ \E key \in Routes, val \in Vals :
         /\ leaf1' = IF Changes(key) THEN [leaf1 EXCEPT ![key] = val] ELSE leaf1
         /\ msgs' = IF key \in ChangedKeys THEN msgs ELSE Append(msgs, <<key, val>>)
    /\ UNCHANGED <<change, told, lost, mainVars, confdVars, stop_pipe>>

\* The last of the messages about a route.
LastAbout(ms, id) ==
    CHOOSE k \in DOMAIN ms : ms[k][1] = id /\ \A j \in DOMAIN ms : j > k => ms[j][1] # id

\* What the change server knows after it got the messages, one after the other.
Tell(view, ms) ==
    [id \in Routes |-> IF \E k \in DOMAIN ms : ms[k][1] = id THEN ms[LastAbout(ms, id)][2]
                                                             ELSE view[id]]

\* The connection may fail, which is logged.
SendChanges ==
    /\ change = "change" /\ left = 0
    /\ change' = "check"
    /\ \/ told' = Tell(told, msgs) /\ lost' = lost \ ChangedKeys
       \/ told' = told /\ lost' = lost \cup ChangedKeys
    /\ UNCHANGED <<leaf1, left, msgs, mainVars, confdVars, stop_pipe>>

CheckStop ==
    /\ change = "check"
    /\ change' = IF stop_thread THEN "ended" ELSE "sleep"
    /\ msgs' = <<>>
    /\ UNCHANGED <<leaf1, left, told, lost, mainVars, confdVars, stop_pipe>>

----------------------------------------------------------------------------
(* ConfD: a transaction on the control socket; keys and elements on the     *)
(* worker socket.  It waits for an answer before it asks again on the same   *)
(* socket, and may go on asking for ever.                                   *)

Get(what, arg) == [what |-> what, arg |-> arg]

Asks ==
    /\ open
    /\ \/ ~ctl /\ ctl' = TRUE /\ UNCHANGED wrk
       \/ /\ wrk = None
          /\ wrk' \in {Get("next", next)} \cup {Get("elem", id) : id \in Routes}
          /\ UNCHANGED ctl
    /\ UNCHANGED <<confd, next, walked, mainVars, changeVars, stop_pipe>>

----------------------------------------------------------------------------
(* The ConfD loop.                                                          *)

LoopStarts ==
    /\ confd = "start"
    /\ stop_pipe' = 0
    /\ confd' = "select"
    /\ UNCHANGED <<ctl, wrk, next, walked, mainVars, changeVars>>

\* dp.fd_ready raises an error: one of the callbacks', or another one, which ends
\* the thread.
Raises == Faults /\ confd' \in {"select", "ended"}

\* cb_init: the worker socket is to be used.
ControlReady ==
    /\ confd = "select" /\ ctl
    /\ ctl' = FALSE
    /\ Raises \/ confd' = "select"
    /\ UNCHANGED <<wrk, next, walked, mainVars, changeVars, stop_pipe>>

\* Variant: the index after the next.
SkipsKey(idx) == idx + 2

NextIdx(idx) == idx + 1

\* cb_get_next
GetNext(next_idx) ==
    LET idx == IF next_idx = -1 THEN 0 ELSE next_idx
    IN  IF idx >= Len(Ids)
          THEN next' = -1 /\ UNCHANGED walked
          ELSE /\ next' = NextIdx(idx)
               /\ walked' = Append(IF idx = 0 THEN <<>> ELSE walked, Ids[idx + 1])

\* The worker socket, if nothing is on the control socket; cb_get_elem only reads.
WorkerReady ==
    /\ confd = "select" /\ ~ctl /\ wrk # None
    /\ wrk' = None
    /\ \/ /\ confd' = "select"
          /\ IF wrk.what = "next" THEN GetNext(wrk.arg) ELSE UNCHANGED <<next, walked>>
       \/ Raises /\ next' = -1 /\ walked' = <<>>
    /\ UNCHANGED <<ctl, mainVars, changeVars, stop_pipe>>

\* The stop pipe, if nothing is on the other sockets.
StopReady ==
    /\ confd = "select" /\ ~ctl /\ wrk = None /\ stop_pipe > 0
    /\ stop_pipe' = stop_pipe - 1
    /\ confd' = "ended"
    /\ UNCHANGED <<ctl, wrk, next, walked, mainVars, changeVars>>

----------------------------------------------------------------------------
(* main.                                                                    *)

\* The threads are made and started one after the other.
StartThreads ==
    /\ \/ main = "try" /\ change' = "made" /\ main' = "change_made" /\ UNCHANGED confd
       \/ main = "change_made" /\ change' = "sleep" /\ main' = "change_started" /\ UNCHANGED confd
       \/ main = "change_started" /\ confd' = "made" /\ main' = "confd_made" /\ UNCHANGED change
       \/ main = "confd_made" /\ confd' = "start" /\ main' = "sleep" /\ UNCHANGED change
    /\ UNCHANGED <<leaf1, left, msgs, told, lost, ctl, wrk, next, walked,
                   stop_thread, open, early, stop_pipe>>

\* The finally clause begins: after RUN_FOR_TIME, or Ctrl-C anywhere in the try.
Finally ==
    /\ main' = "join_change"
    /\ stop_thread' = TRUE /\ early' = (stop_pipe = None)
    /\ UNCHANGED <<open, changeVars, confdVars, stop_pipe>>

TimeIsUp == main = "sleep" /\ Finally

Interrupt ==
    /\ main \in {"try", "change_made", "change_started", "confd_made", "sleep"}
    /\ Finally

\* join of a thread that was not started raises an exception.
JoinChange ==
    /\ main = "join_change"
    /\ \/ change \in {"none", "ended"} /\ main' = "stop_loop"
       \/ change = "made" /\ main' = "failed"
    /\ UNCHANGED <<stop_thread, open, early, changeVars, confdVars, stop_pipe>>

\* Variant: does not write.
NoByte == stop_pipe

OneByte == stop_pipe + 1

\* stop_confd_loop; os.write raises an exception if there is no pipe.
StopLoop ==
    /\ main = "stop_loop"
    /\ \/ confd = "none" /\ main' = "close" /\ UNCHANGED stop_pipe
       \/ confd # "none" /\ stop_pipe # None /\ stop_pipe' = OneByte /\ main' = "join_confd"
       \/ confd # "none" /\ stop_pipe = None /\ main' = "failed" /\ UNCHANGED stop_pipe
    /\ UNCHANGED <<stop_thread, open, early, changeVars, confdVars>>

\* Variant: does not wait.
AnyTime == TRUE

LoopHasEnded == confd = "ended"

JoinConfd ==
    /\ main = "join_confd" /\ LoopHasEnded
    /\ main' = "close"
    /\ UNCHANGED <<stop_thread, open, early, changeVars, confdVars, stop_pipe>>

\* close_dp; without a pipe there is an exception after the sockets are closed.
CloseDp ==
    /\ main = "close"
    /\ open' = FALSE
    /\ main' = IF stop_pipe = None THEN "failed" ELSE "ended"
    /\ stop_pipe' = None
    /\ UNCHANGED <<stop_thread, early, changeVars, confdVars>>

----------------------------------------------------------------------------

ChangeThread == Wakes \/ ChangeRoute \/ SendChanges \/ CheckStop
Loop == LoopStarts \/ ControlReady \/ WorkerReady \/ StopReady
Main == StartThreads \/ TimeIsUp \/ JoinChange \/ StopLoop \/ JoinConfd \/ CloseDp

Next == ChangeThread \/ Loop \/ Main \/ Interrupt \/ Asks

\* The operating system runs every thread.  ConfD need not ask, and nobody has to
\* press Ctrl-C.
Spec == Init /\ [][Next]_vars /\ WF_vars(ChangeThread) /\ WF_vars(Loop) /\ WF_vars(Main)

----------------------------------------------------------------------------
(* Properties.                                                              *)

\* The variables have their types; there are no more messages than changes in a round.
TypeOK ==
    /\ leaf1 \in [Routes -> Nat] /\ told \in [Routes -> Nat]
    /\ left \in 0..MaxChanges /\ Len(msgs) <= MaxChanges
    /\ next \in -1..Len(Ids)
    /\ lost \subseteq Routes
    /\ stop_pipe = None \/ stop_pipe \in 0..1
    /\ main \in {"try", "change_made", "change_started", "confd_made", "sleep", "join_change",
                 "stop_loop", "join_confd", "close", "ended", "failed"}

\* The change server knows the value of a route unless it was changed in this round,
\* which is then about to be sent with the value it has, or the message about its
\* last change was lost (generate_changes).
Told ==
    /\ \A m \in Range(msgs) : change = "change" => m[2] = leaf1[m[1]]
    /\ \A id \in Routes :
         told[id] = leaf1[id] \/ id \in lost \/ (change = "change" /\ id \in ChangedKeys)

\* A walk of ConfD over the list is told the routes one after the other, none left
\* out and none twice, whatever other requests are between, and it ends when all have
\* been told or there was an error (cb_get_next).
WalksInOrder ==
    IF next = -1 THEN walked \in {<<>>, Ids} ELSE walked = SubSeq(Ids, 1, next)

\* The sockets are only closed when no thread uses them any more, and main ends with
\* an exception only if it was to stop before the loop had made its pipe (main,
\* confd_loop, close_dp).
ClosedAtTheEnd ==
    /\ ~open => confd \in {"none", "ended"} /\ change \in {"none", "ended"}
    /\ main = "ended" => ~open
    /\ main = "failed" => early

\* If ConfD asks no more from some time on, then once the program is to stop, it ends with
\* both threads and the sockets closed, unless that was before the loop had made its pipe:
\* then main may fail and the loop go on for ever (main, stop_confd_loop).  Without that
\* condition it need not end: the loop looks at the stop pipe only when neither socket has
\* a request (the order of the branches in confd_loop).
Stops ==
    <>[][~Asks]_vars =>
        (stop_thread ~> \/ main = "ended" /\ confd = "ended" /\ change = "ended"
                        \/ main = "failed" /\ early)

================================================================================
