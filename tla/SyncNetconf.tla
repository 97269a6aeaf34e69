------------------------------ MODULE SyncNetconf ------------------------------
(****************************************************************************)
(* The NETCONF synchronizer (confd-sync-py/app/cdbl-sync-nc.py): a two-phase*)
(* CDB subscriber of a master node that brings the changes of a transaction *)
(* to the NETCONF servers that subscribe to the changed parts.  In prepare  *)
(* it edits and validates the candidate of every server, then makes a       *)
(* confirmed commit on each; in commit it confirms.  Each operation is done *)
(* by one child process per server, all at the same time; a child reports   *)
(* an error through a queue.                                                *)
(*                                                                          *)
(* Two slips of the code are part of the model.  cancel_commit() evaluates  *)
(* `sid. q`, so that the child dies before it sends anything.  And a queue  *)
(* of multiprocessing has no attribute `queue`: the handlers that want to   *)
(* tell what is in it leave run() with an AttributeError.                   *)
(*                                                                          *)
(* An operation is done by netconf-console (NetconfConsole), which prints    *)
(* the first reply of a session only, and prints on standard output that a  *)
(* server cannot be reached: neither is taken for an error.                 *)
(*                                                                          *)
(* The servers and the ConfD of the master are external.  A confirmed       *)
(* commit that is not confirmed in time is rolled back by its server, and a *)
(* server refuses a second one meanwhile.  A transaction whose subscriber   *)
(* is gone before it has answered is aborted.  Configuration is the set of  *)
(* the transactions that it has the changes of.                             *)
(****************************************************************************)
EXTENDS TagValues, FiniteSetsExt

CONSTANTS
    Servers,
    None,
    Prio,         \* the subscription-priority of a server
    ListPrio,     \* server-priority: when a new server list is notified
    Edits,        \* lists of modifications (TagValues) of a transaction
    ListChanges,  \* the server list may change
    Refusals,     \* a server may refuse an operation or not be reached
    Timeouts,     \* a confirmed commit may time out
    MaxTx         \* bound: transactions of managers and sync-to actions

ASSUME MaxTxNat == MaxTx \in Nat
ASSUME EditsNested == \A tvs \in Edits : Nested(tvs)
ASSUME Priorities == Prio \in [Servers -> Nat] /\ ListPrio \in Nat
ASSUME NoneIsNoConfiguration == \A c \in SUBSET (1..MaxTx) : c # None
ASSUME Switches == {Refusals, Timeouts, ListChanges} \subseteq BOOLEAN

VARIABLES
    \* The ConfD of the master.
    master,      \* the part of a server
    listed,      \* the server list
    trans,       \* the transactions so far (bounded by MaxTx)
    mods,        \* what the transaction in progress changes in each part
    newList,     \* and the server list it leaves
    phase,
    due,         \* subscriptions it has still to notify in this phase
    listDue,     \* and whether that of the server list is one of them
    \* The synchronizer.
    subs,        \* the servers it has subscribed for
    pc,          \* "read": cdb.read_subscription_socket2
    sids,        \* the subscriptions notified
    nomods,      \* those of the transaction without modifications
    jobs,        \* the servers whose child process is still at work
    q,           \* some child has put an error into the queue
    \* The servers.
    running,
    candidate,
    rollback,    \* what an unconfirmed commit will be rolled back to
    \* History.
    took,        \* servers concerned by this transaction
    taken,       \* servers that have made the confirmed commit of it
    missed,      \* those that missed an operation, unnoticed
    strays,      \* those whose candidate may once have held what is not theirs
    together     \* the list was once changed in one transaction with something else

masterVars == <<master, listed, trans, mods, newList>>

phaseVars == <<phase, due, listDue>>

serverVars == <<running, candidate, rollback>>

history == <<took, taken, missed, strays, together>>

vars == <<masterVars, phaseVars, subs, pc, sids, nomods, jobs, q, serverVars, history>>

Init ==
    /\ master = [s \in Servers |-> {}] /\ mods = master
    /\ listed \in {l \in SUBSET Servers : l # {} /\ (~ListChanges => l = Servers)}
    /\ newList = listed /\ subs = listed
    /\ trans = 0 /\ phase = "idle" /\ due = {} /\ listDue = FALSE
    /\ pc = "read" /\ sids = {} /\ nomods = {} /\ jobs = {} /\ q = FALSE
    /\ running = master /\ candidate = master
    /\ rollback = [s \in Servers |-> None]
    /\ took = {} /\ taken = {} /\ missed = {} /\ strays = {} /\ together = FALSE

----------------------------------------------------------------------------
(* The master.                                                              *)

Prepare(S) ==
    /\ phase = "idle" /\ trans < MaxTx /\ pc = "read"
    /\ trans' = trans + 1
    /\ phase' = (IF S = {} THEN "prepared" ELSE "prepare")
    /\ due' = S /\ took' = S /\ taken' = {} /\ missed' = {}
    /\ UNCHANGED <<master, listed, subs, pc, sids, jobs, q, serverVars>>

\* A manager's transaction changes the parts of the servers in S, those in E in
\* defaults only, which GET_MODS_SUPPRESS_DEFAULTS leaves out, and the list.
ManagerTransaction(S, E, l) ==
    /\ Prepare(S \cap subs)
    /\ S # {} \/ l # listed
    /\ nomods' = E \cap subs
    /\ mods' = [s \in Servers |-> IF s \in S \ E THEN {trans + 1} ELSE {}]
    /\ newList' = l /\ listDue' = (l # listed)
    /\ strays' = strays \cup (E \cap subs)
    /\ together' = (together \/ (l # listed /\ S # {}))

\* SyncToAction: cdb.trigger_subscriptions notifies the subscriptions of all
\* that there is.
SyncTo(S) ==
    /\ S \subseteq subs \cap listed
    /\ Prepare(S)
    /\ nomods' = {}
    /\ mods' = [s \in Servers |-> IF s \in S THEN master[s] ELSE {}]
    /\ UNCHANGED <<newList, listDue, strays, together>>

\* The transaction is in the running configuration; its subscribers are told.
ManagerCommit ==
    /\ phase = "prepared"
    /\ phase' = IF took = {} /\ ~listDue THEN "idle" ELSE "commit"
    /\ due' = took
    /\ master' = [s \in Servers |-> master[s] \cup mods[s]]
    /\ listed' = newList
    /\ UNCHANGED <<trans, mods, newList, listDue, subs, pc, sids, nomods, jobs, q,
                   serverVars, history>>

\* Not of a sync-to action: nothing is left that could fail.
ManagerAbort ==
    /\ phase = "prepared"
    /\ (\E s \in Servers : ~(mods[s] \subseteq master[s])) \/ nomods # {} \/ listDue
    /\ phase' = IF took = {} THEN "idle" ELSE "abort"
    /\ due' = took /\ listDue' = FALSE /\ newList' = listed
    /\ UNCHANGED <<master, listed, trans, mods, subs, pc, sids, nomods, jobs, q,
                   serverVars, history>>

----------------------------------------------------------------------------
(* The synchronizer.                                                        *)

\* One child process for each server in S.
Spawn(S) == jobs' = S /\ q' = FALSE

\* A child process ends.
Ends(s, error) ==
    /\ jobs' = jobs \ {s}
    /\ q' = (q \/ error)
    /\ UNCHANGED <<masterVars, phaseVars, subs, pc, sids, nomods, took, together>>

\* AttributeError: run() closes its sockets and the process ends.  ConfD
\* aborts the transaction, or is done with it if it was committed.
Dies ==
    /\ pc' = "dead"
    /\ phase' = "idle" /\ due' = {} /\ listDue' = FALSE
    /\ UNCHANGED <<masterVars, subs, sids, nomods, jobs, q, serverVars, history>>

\* Subscriptions are notified in the order of their priorities; that of the
\* server list is not a two-phase one.
Level ==
    Min({Prio[s] : s \in due} \cup {p \in {ListPrio} : phase = "commit" /\ listDue})

\* Variant: the handler returns without it.
SyncForgotten(next) ==
    /\ pc' = "read"
    /\ UNCHANGED <<masterVars, phaseVars, subs, sids, nomods, jobs, q, serverVars, history>>

\* cdb.sync_subscription_socket: ConfD goes on to the next priority or phase.
Sync(next) ==
    /\ pc' = "read"
    /\ due' = due \ sids
    /\ listDue' = (listDue /\ ~(phase = "commit" /\ Level = ListPrio))
    /\ phase' = IF due' = {} /\ ~(phase = "commit" /\ listDue') THEN next ELSE phase
    /\ UNCHANGED <<masterVars, subs, sids, nomods, jobs, q, serverVars, history>>

\* Variant: edits the servers that are not concerned, too.
ToEditAll(S) == Servers \ nomods

\* if mods == []
ToEdit(S) == S \ nomods

\* handle_sub_prepare, handle_sub_commit, handle_sub_abort
HandleSub ==
    /\ pc = "read" /\ phase \in {"prepare", "commit", "abort"}
    /\ sids' = {s \in due : Prio[s] = Level}
    /\ sids' # {}
    /\ pc' = CASE phase = "prepare" -> "edit"
               [] phase = "commit" -> "confirm"
               [] phase = "abort" -> "cancel"
    /\ Spawn(IF phase = "prepare" THEN ToEdit(sids') ELSE sids')
    /\ UNCHANGED <<masterVars, phaseVars, subs, nomods, serverVars, history>>

\* Variant: keeps the subscriptions it has.
OldList == subs

\* handle_netconf_server_list
NewList == listed

\* The server list has changed (sids[0] == server_sid): new subscriptions are
\* made, and the socket of the old ones is closed.  What else is notified with
\* the list, or was to be notified later, gets no confirmation.
HandleServerList ==
    /\ pc = "read" /\ phase = "commit" /\ listDue /\ Level = ListPrio
    /\ subs' = NewList
    /\ phase' = "idle" /\ due' = {} /\ listDue' = FALSE
    /\ UNCHANGED <<masterVars, pc, sids, nomods, jobs, q, serverVars, history>>

\* netconf-console prints the first reply of a session.
Noticed(replies) == replies # <<>> /\ Head(replies) = "rpc-error"

\* Does a server read the edit made of a list of modifications?
Readable(tvs) == WellFormed(ProcessModifications(tvs).text)

SomeReadable == \E tvs \in Edits : Readable(tvs)

SomeUnreadable == \E tvs \in Edits : ~Readable(tvs)

\* process_modifications: discard-changes, edit-config, validate.  The server
\* takes what is well-formed.
EditConfig(s) ==
    /\ pc = "edit" /\ s \in jobs
    /\ SomeReadable
    /\ candidate' = [candidate EXCEPT ![s] = running[s] \cup mods[s]]
    /\ strays' = IF rollback[s] = None THEN strays ELSE strays \cup {s}
    /\ Ends(s, Noticed(<<"ok", "ok", "ok">>))
    /\ UNCHANGED <<running, rollback, taken, missed>>

\* The edit is refused, because of its text or of what the server has.
EditRefused(s) ==
    /\ pc = "edit" /\ s \in jobs
    /\ Refusals \/ SomeUnreadable
    /\ candidate' = [candidate EXCEPT ![s] = running[s]]
    /\ strays' = strays \cup {s} /\ missed' = missed \cup {s}
    /\ Ends(s, Noticed(<<"ok", "rpc-error", "ok">>))
    /\ UNCHANGED <<running, rollback, taken>>

\* Nothing is sent, and no error told.
NotSent(s) ==
    /\ strays' = IF pc = "edit" THEN strays \cup {s} ELSE strays
    /\ missed' = missed \cup {s}
    /\ Ends(s, Noticed(<<>>))
    /\ UNCHANGED <<serverVars, taken>>

\* The server is not reached: "Failed to connect" on standard output.
Unreached(s) ==
    /\ Refusals /\ pc \in {"edit", "commit", "confirm"} /\ s \in jobs
    /\ NotSent(s)

\* send_netconf_operation looks the server up in the running configuration: it
\* is not there any more, or there is one that has no subscription-id yet.
NotFound(s) ==
    /\ pc \in {"edit", "commit", "confirm"} /\ s \in jobs
    /\ s \notin listed \/ ~(listed \subseteq subs)
    /\ NotSent(s)

\* if not q.empty(), after the edits and the confirmations
NoError == ~q

EditDone ==
    /\ pc = "edit" /\ jobs = {}
    /\ IF NoError
         THEN /\ pc' = "commit" /\ jobs' = sids
              /\ UNCHANGED <<masterVars, phaseVars, subs, sids, nomods, q, serverVars, history>>
         ELSE Dies

\* Variant: the commit is not a confirmed one.
PlainCommit(s) == None

\* commit_msg: what the server rolls back to.
ConfirmedCommit(s) == running[s]

Committed(s) ==
    /\ rollback[s] = None
    /\ rollback' = [rollback EXCEPT ![s] = ConfirmedCommit(s)]
    /\ running' = [running EXCEPT ![s] = candidate[s]]
    /\ taken' = taken \cup {s}

Commit(s) ==
    /\ pc = "commit" /\ s \in jobs
    /\ Committed(s)
    /\ Ends(s, Noticed(<<"ok">>))
    /\ UNCHANGED <<candidate, missed, strays>>

\* The server still has an unconfirmed commit, or finds the candidate invalid.
CommitRefused(s) ==
    /\ pc = "commit" /\ s \in jobs /\ (Refusals \/ rollback[s] # None)
    /\ Ends(s, Noticed(<<"rpc-error">>))
    /\ UNCHANGED <<serverVars, taken, missed, strays>>

\* Variant: does not look into the queue again after the commits.
GoesOn == TRUE

\* The second if not q.empty() of handle_sub_prepare.
AllCommitted == ~q

CommitDone ==
    /\ pc = "commit" /\ jobs = {}
    /\ IF AllCommitted THEN Sync("prepared") ELSE Dies

Confirmed(s) ==
    /\ rollback[s] # None
    /\ rollback' = [rollback EXCEPT ![s] = None]
    /\ UNCHANGED running

Confirm(s) ==
    /\ pc = "confirm" /\ s \in jobs
    /\ Confirmed(s)
    /\ Ends(s, Noticed(<<"ok">>))
    /\ UNCHANGED <<candidate, taken, missed, strays>>

\* There is nothing left to confirm.
ConfirmRefused(s) ==
    /\ pc = "confirm" /\ s \in jobs /\ rollback[s] = None
    /\ Ends(s, Noticed(<<"rpc-error">>))
    /\ UNCHANGED <<serverVars, taken, missed, strays>>

ConfirmDone ==
    /\ pc = "confirm" /\ jobs = {}
    /\ IF NoError THEN Sync("idle") ELSE Dies

\* The connection breaks in the middle of a reply, after the operation or before
\* it: netconf-console tells so on standard error.
Broken(s) ==
    /\ Refusals /\ pc \in {"edit", "commit", "confirm"} /\ s \in jobs
    /\ \/ UNCHANGED <<serverVars, taken>>
       \/ /\ pc = "edit" /\ UNCHANGED <<running, rollback, taken>>
          /\ \E c \in {running[s], running[s] \cup mods[s]} :
               candidate' = [candidate EXCEPT ![s] = c]
       \/ pc = "commit" /\ Committed(s) /\ UNCHANGED candidate
       \/ pc = "confirm" /\ Confirmed(s) /\ UNCHANGED <<candidate, taken>>
    /\ Ends(s, TRUE)
    /\ UNCHANGED <<missed, strays>>

\* cancel_commit: the child dies and puts nothing into the queue.
CancelCommit(s) ==
    /\ pc = "cancel" /\ s \in jobs
    /\ Ends(s, FALSE)
    /\ UNCHANGED <<serverVars, taken, missed, strays>>

CancelDone ==
    /\ pc = "cancel" /\ jobs = {}
    /\ Sync("idle")

----------------------------------------------------------------------------
(* The servers.                                                             *)

\* A confirmed commit times out.
RollBack(s) ==
    /\ Timeouts /\ rollback[s] # None
    /\ running' = [running EXCEPT ![s] = rollback[s]]
    /\ rollback' = [rollback EXCEPT ![s] = None]
    /\ UNCHANGED <<masterVars, phaseVars, subs, pc, sids, nomods, jobs, q, candidate, history>>

----------------------------------------------------------------------------

\* A list with one server more or less.
Lists ==
    {listed} \cup {l \in SUBSET Servers : ListChanges /\ l # {}
                       /\ \E s \in Servers : l \in {listed \cup {s}, listed \ {s}}}

MasterNext ==
    \/ \E S \in (SUBSET Servers) \ {{}} : SyncTo(S)
    \/ \E S \in SUBSET Servers, l \in Lists :
         \E E \in SUBSET S : ManagerTransaction(S, E, l)
    \/ ManagerCommit \/ ManagerAbort

\* A child process that reaches its server.
ChildNext(s) ==
    \/ EditConfig(s) \/ Commit(s) \/ CommitRefused(s)
    \/ Confirm(s) \/ ConfirmRefused(s) \/ CancelCommit(s) \/ NotFound(s)

HandlerNext ==
    \/ HandleSub \/ HandleServerList
    \/ EditDone \/ CommitDone \/ ConfirmDone \/ CancelDone

Next ==
    \/ MasterNext
    \/ HandlerNext
    \/ \E s \in Servers : \/ ChildNext(s)
                          \/ EditRefused(s) \/ Unreached(s) \/ Broken(s) \/ RollBack(s)

Spec == Init /\ [][Next]_vars

\* The synchronizer runs, and so do the children that call no server, and managers
\* end what is prepared.  Nothing is promised of the servers.
FairSpec ==
    /\ Spec
    /\ WF_vars(HandlerNext)
    /\ WF_vars(\E s \in Servers : CancelCommit(s))
    /\ WF_vars(ManagerCommit \/ ManagerAbort)

----------------------------------------------------------------------------
(* Properties.                                                              *)

\* The variables have their types, and children work only for servers that were
\* notified (handle_sub_prepare, handle_sub_commit, handle_sub_abort).
TypeOK ==
    /\ trans \in 0..MaxTx
    /\ {master, mods, running, candidate} \subseteq [Servers -> SUBSET (1..MaxTx)]
    /\ \A s \in Servers : rollback[s] # None => rollback[s] \subseteq 1..MaxTx
    /\ phase \in {"idle", "prepare", "prepared", "commit", "abort"}
    /\ pc \in {"read", "edit", "commit", "confirm", "cancel", "dead"}
    /\ {q, listDue, together} \subseteq BOOLEAN
    /\ {listed, newList, subs, due, sids, nomods, took, taken, missed, strays} \subseteq SUBSET Servers
    /\ due \subseteq took /\ nomods \subseteq took /\ jobs \subseteq sids

AllReadable ==
    \A tvs \in Edits :
        LET r == ProcessModifications(tvs)
        IN  /\ Readable(tvs) <=> ~HasLeafDeletion(tvs)
            /\ WellFormed(ModificationsRead(tvs)) <=> ~HasLeafDeletion(tvs)
            /\ r.asked = ValuePaths(tvs) /\ r.path = <<>>

\* An edit can be read by a server, and every value in it was formatted for its
\* own place in the schema, however containers and list entries are created and
\* deleted around it - unless a leaf is deleted: its start tag is never ended
\* (get_value, C_NOEXISTS).  What the modification subscriber writes of the same
\* modifications can be read or not in the same cases (its get_value).
EditsReadable == pc = "edit" => AllReadable

\* What a server has once unconfirmed commits are rolled back.
Settled(s) == IF rollback[s] = None THEN running[s] ELSE rollback[s]

\* A server never keeps a change that is not committed on the master: edits
\* stay in the candidate, and commits can be rolled back, until all servers have
\* taken the change and the manager commits it (handle_sub_prepare).  There are
\* three ways to an exception: the candidate is committed without an edit, after
\* an edit that failed unnoticed, or after an edit that was made on top of a
\* commit nobody has confirmed.
NothingAhead == \A s \in Servers \ strays : Settled(s) \subseteq master[s]

\* What the manager may commit has been taken by all servers concerned, but for
\* those that missed an operation unnoticed: each has made the confirmed commit of
\* this transaction - a single refusal, at any priority, keeps the transaction from
\* getting here (handle_sub_prepare looks into the queue after the edits and again
\* after the commits) - and runs the modifications sent to it, unless its commit has
\* timed out since.
TakenByAll ==
    phase = "prepared" /\ pc = "read" =>
        \A s \in took \ missed :
            /\ s \in taken
            /\ s \notin nomods /\ rollback[s] # None => mods[s] \subseteq running[s]

\* The subscriptions are those of the server list, once a transaction is over, if
\* changes of the list come in transactions of their own.
ListFollowed == phase = "idle" /\ pc = "read" /\ ~together => subs = listed

\* A child waits for its server.
Waits(s) == s \in jobs /\ pc # "cancel"

\* Every transaction is answered, be it that the synchronizer dies, provided that
\* every call of a server comes to an end: refusals, lost connections and servers
\* that have gone from the list do not hold it up.  A server that connects and stays
\* silent does: netconf-console waits for its hello without a limit, and the handler
\* for its child (process.join()).
Answered ==
    (\A s \in Servers : []<>~Waits(s)) => (phase # "idle" ~> phase = "idle")

----------------------------------------------------------------------------
(* What the README says, and the code does not keep.                        *)

\* "The configuration is synchronized to the sub nodes using NETCONF network
\* wide transactions": when a transaction is over, and the synchronizer has not
\* failed, all servers have what the master has.
NetworkWide ==
    phase = "idle" /\ pc = "read" => \A s \in Servers : running[s] = master[s]
===============================================================================
