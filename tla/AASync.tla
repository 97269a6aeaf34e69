-------------------------------- MODULE AASync --------------------------------
(****************************************************************************)
(* The active-active synchronizer (active-active/consistent-sync/aasync.c)  *)
(* of a cluster that is up: every node has a ConfD and an aasync process,   *)
(* which is a two-phase CDB subscriber of its own ConfD.  In the prepare    *)
(* phase of a manager's transaction it opens MAAPI sessions to the other    *)
(* ConfDs, locks them all, writes and validates the same changes there and  *)
(* prepares them; in the commit phase it commits them.  A transaction that  *)
(* another aasync makes here is recognised by the flag aasync_usr, set when *)
(* the other one takes the lock and reset when its transaction finishes.    *)
(*                                                                          *)
(* aasync is one loop over poll(): it serves the callbacks of its ConfD     *)
(* (global_lock, t_lock, t_finish) only while it is not in one of its own   *)
(* blocking MAAPI calls.  ConfD is external.  As the comments of aasync.c   *)
(* have it, maapi_lock fails while another session has the lock or a        *)
(* transaction is in progress, and no transaction starts on a locked node.  *)
(****************************************************************************)
EXTENDS Naturals, Sequences, FiniteSetsExt

CONSTANTS
    Nodes,            \* the node identities
    None,
    NumLockRetries,   \* NUM_LOCK_RETRIES
    Faults,           \* the MAAPI calls that may fail
    MaxTx             \* bound: manager transactions

ASSUME NodesAreNumbers == Nodes \subseteq Nat
ASSUME SeveralNodes == \E m, n \in Nodes : m # n
ASSUME ListsHaveHeads == \A S \in (SUBSET Nodes) \ {{}} : \E x \in S : \A y \in S : x >= y
ASSUME NoneIsNoNode == None \notin Nodes
ASSUME BoundsNat == NumLockRetries \in Nat /\ MaxTx \in Nat
ASSUME FaultsKnown == Faults \subseteq {"connect", "validate", "prepare", "commit"}

VARIABLES
    log,         \* the transactions committed to running, oldest first
    owner,       \* who the transaction in progress belongs to: the manager
                 \* of the node (the node itself) or the aasync of another
    trans,       \* that transaction
    phase,       \* how far it is
    locked,      \* the node whose aasync has the global lock
    event,       \* notification on the CDB subscription socket
    aasync_usr,
    nvals,       \* nvals > 0
    pc,          \* where aasync is; "poll" is its main loop
    todo,        \* the nodes the present loop over aasync_nodes has ahead
    retries,     \* the local variable i
    started,     \* transactions so far (bounded by MaxTx)
    committed,   \* transactions their manager committed
    partial      \* transactions that were not committed on all nodes, being
                 \* taken for another aasync's or failing on a node

confdVars == <<log, owner, trans, phase, locked, event>>

aasyncVars == <<aasync_usr, nvals, pc, todo, retries>>

historyVars == <<started, committed, partial>>

vars == <<confdVars, aasyncVars, historyVars>>

Phases == {"idle", "validated", "preparing", "prepared", "refused", "committing",
           "committed", "closing"}

Events == {"none", "prepare", "commit", "abort"}

PCs == {"poll", "lock", "write", "prepare", "prepare_wait", "commit", "commit_wait"}

Init ==
    /\ log = [n \in Nodes |-> <<>>]
    /\ owner = [n \in Nodes |-> None]
    /\ trans = [n \in Nodes |-> 0]
    /\ phase = [n \in Nodes |-> "idle"]
    /\ locked = [n \in Nodes |-> None]
    /\ event = [n \in Nodes |-> "none"]
    /\ aasync_usr = [n \in Nodes |-> FALSE]
    /\ nvals = [n \in Nodes |-> FALSE]
    /\ pc = [n \in Nodes |-> "poll"]
    /\ todo = [n \in Nodes |-> {}]
    /\ retries = [n \in Nodes |-> 0]
    /\ started = 0 /\ committed = {} /\ partial = {}

Others(n) == Nodes \ {n}

\* aasync_nodes: nodes join at the head of the list, in the order of their
\* identities, so that the list is in descending order.
Target(n) == Max(todo[n])

\* The loop goes on to the next node, or aasync goes on to the next loop.
Advance(n, here, next) ==
    /\ todo' = [todo EXCEPT ![n] = IF @ = {Target(n)} THEN Others(n)
                                                     ELSE @ \ {Target(n)}]
    /\ pc' = [pc EXCEPT ![n] = IF todo[n] = {Target(n)} THEN next ELSE here]

----------------------------------------------------------------------------
(* The managers.                                                            *)

\* A manager's transaction is validated and goes into its prepare phase.
StartTransaction(n) ==
    /\ started < MaxTx /\ owner[n] = None /\ locked[n] = None
    /\ started' = started + 1
    /\ owner' = [owner EXCEPT ![n] = n]
    /\ trans' = [trans EXCEPT ![n] = started + 1]
    /\ phase' = [phase EXCEPT ![n] = "preparing"]
    /\ event' = [event EXCEPT ![n] = "prepare"]
    /\ UNCHANGED <<log, locked, aasyncVars, committed, partial>>

ManagerCommit(n) ==
    /\ owner[n] = n /\ phase[n] = "prepared"
    /\ log' = [log EXCEPT ![n] = Append(@, trans[n])]
    /\ committed' = committed \cup {trans[n]}
    /\ phase' = [phase EXCEPT ![n] = "committing"]
    /\ event' = [event EXCEPT ![n] = "commit"]
    /\ UNCHANGED <<owner, trans, locked, aasyncVars, started, partial>>

ManagerAbort(n) ==
    /\ owner[n] = n /\ phase[n] = "prepared"
    /\ phase' = [phase EXCEPT ![n] = "closing"]
    /\ event' = [event EXCEPT ![n] = "abort"]
    /\ UNCHANGED <<log, owner, trans, locked, aasyncVars, historyVars>>

----------------------------------------------------------------------------
(* The end of sessions and transactions.                                    *)

\* Variant: the sessions are not closed.
SessionsKept(n) == {}

\* The nodes on which n has a session with a transaction or a lock.
Sessions(n) == Others(n)

\* The sessions to the other nodes are closed: their ConfDs release the locks
\* and abort the transactions.  The local transaction is over, or refused if
\* it was another node's.
CloseSessions(n) ==
    /\ locked' = [m \in Nodes |-> IF m \in Sessions(n) /\ locked[m] = n
                                    THEN None ELSE locked[m]]
    /\ phase' = [m \in Nodes |->
                   CASE m = n -> IF owner[n] = n THEN "idle" ELSE "refused"
                     [] m \in Sessions(n) /\ owner[m] = n -> "closing"
                     [] OTHER -> phase[m]]
    /\ owner' = [owner EXCEPT ![n] = IF @ = n THEN None ELSE @]
    /\ event' = [event EXCEPT ![n] = "none"]
    /\ UNCHANGED <<log, trans>>

\* abort_local_trans
AbortLocalTrans(n) ==
    /\ CloseSessions(n)
    /\ pc' = [pc EXCEPT ![n] = "poll"]
    /\ UNCHANGED <<nvals, todo, retries, historyVars>>

\* CDB_SUB_ABORT of the local transaction.
ReceiveAbort(n) ==
    /\ pc[n] = "poll" /\ event[n] = "abort"
    /\ CloseSessions(n)
    /\ UNCHANGED <<aasyncVars, historyVars>>

\* Variant: t_finish looks for the name of its own process.
FlagKept == TRUE

\* t_finish: the user is an aasync.
FlagAfterFinish == FALSE

\* A session from another node has ended: its transaction is aborted here
\* (CDB_SUB_ABORT finds no session of ours to close) and finishes (t_finish).
SessionClosed(n) ==
    /\ phase[n] = "closing" /\ owner[n] # n
    /\ pc[n] = "poll"
    /\ aasync_usr' = [aasync_usr EXCEPT ![n] = FlagAfterFinish]
    /\ owner' = [owner EXCEPT ![n] = None]
    /\ phase' = [phase EXCEPT ![n] = "idle"]
    /\ UNCHANGED <<log, trans, locked, event, nvals, pc, todo, retries,
                   historyVars>>

----------------------------------------------------------------------------
(* CDB_SUB_PREPARE.                                                         *)

ReceivePrepare(n) ==
    /\ pc[n] = "poll" /\ event[n] = "prepare"
    /\ event' = [event EXCEPT ![n] = "none"]
    /\ nvals' = [nvals EXCEPT ![n] = ~aasync_usr[n]]
    /\ IF aasync_usr[n]
         THEN /\ phase' = [phase EXCEPT ![n] = "prepared"]
              /\ partial' = IF owner[n] = n THEN partial \cup {trans[n]}
                                            ELSE partial
              /\ UNCHANGED <<pc, todo, retries>>
         ELSE /\ pc' = [pc EXCEPT ![n] = "lock"]
              /\ todo' = [todo EXCEPT ![n] = Others(n)]
              /\ retries' = [retries EXCEPT ![n] = 0]
              /\ UNCHANGED <<phase, partial>>
    /\ UNCHANGED <<log, owner, trans, locked, aasync_usr, started, committed>>

\* The socket, the session or the transaction on the node cannot be opened.
ConnectFails(n) ==
    /\ "connect" \in Faults /\ pc[n] \in {"lock", "write"}
    /\ AbortLocalTrans(n)
    /\ UNCHANGED aasync_usr

\* Variant: a transaction in progress does not stand in the way of the lock.
Unlocked(m) == locked[m] = None

\* maapi_lock succeeds.
Lockable(m) == locked[m] = None /\ owner[m] = None

\* Variant: the other aasync does not notice.
FlagAsItWas(m) == aasync_usr[m]

\* global_lock: the user is an aasync.
FlagAfterLock(m) == TRUE

Lock(n) ==
    /\ pc[n] = "lock" /\ Lockable(Target(n)) /\ pc[Target(n)] = "poll"
    /\ locked' = [locked EXCEPT ![Target(n)] = n]
    /\ aasync_usr' = [aasync_usr EXCEPT ![Target(n)] = FlagAfterLock(Target(n))]
    /\ retries' = [retries EXCEPT ![n] = 0]
    /\ Advance(n, "lock", "write")
    /\ UNCHANGED <<log, owner, trans, phase, event, nvals, historyVars>>

\* Variant: one retry more.
MayRetryMore(n) == retries[n] <= NumLockRetries

MayRetry(n) == retries[n] # NumLockRetries

\* Variant: the retries are not counted.
NotCounted(n) == retries[n]

Counted(n) == retries[n] + 1

LockRetry(n) ==
    /\ pc[n] = "lock" /\ ~Lockable(Target(n)) /\ MayRetry(n)
    /\ retries' = [retries EXCEPT ![n] = Counted(n)]
    /\ UNCHANGED <<confdVars, aasync_usr, nvals, pc, todo, historyVars>>

\* Variant: it goes on without the lock.
LockIgnored(n) ==
    /\ pc[n] = "lock" /\ ~Lockable(Target(n)) /\ ~MayRetry(n)
    /\ Advance(n, "lock", "write")
    /\ UNCHANGED <<confdVars, aasync_usr, nvals, retries, historyVars>>

LockFails(n) ==
    /\ pc[n] = "lock" /\ ~Lockable(Target(n)) /\ ~MayRetry(n)
    /\ AbortLocalTrans(n)
    /\ UNCHANGED aasync_usr

\* maapi_start_trans, maapi_set_values and maapi_validate_trans; on the other
\* node the hook t_lock gives the global lock back.
Write(n) ==
    /\ pc[n] = "write" /\ pc[Target(n)] = "poll"
    /\ owner' = [owner EXCEPT ![Target(n)] = n]
    /\ trans' = [trans EXCEPT ![Target(n)] = trans[n]]
    /\ phase' = [phase EXCEPT ![Target(n)] = "validated"]
    /\ locked' = [locked EXCEPT ![Target(n)] = None]
    /\ Advance(n, "write", "prepare")
    /\ UNCHANGED <<log, event, aasync_usr, nvals, retries, historyVars>>

\* The other node finds the changes invalid; closing the session finishes the
\* transaction that was written but not locked.
WriteFails(n) ==
    /\ "validate" \in Faults /\ pc[n] = "write" /\ pc[Target(n)] = "poll"
    /\ AbortLocalTrans(n)
    /\ aasync_usr' = [aasync_usr EXCEPT ![Target(n)] = FlagAfterFinish]

\* maapi_prepare_trans, until it returns.
Prepare(n) ==
    /\ pc[n] = "prepare"
    /\ phase' = [phase EXCEPT ![Target(n)] = "preparing"]
    /\ event' = [event EXCEPT ![Target(n)] = "prepare"]
    /\ pc' = [pc EXCEPT ![n] = "prepare_wait"]
    /\ UNCHANGED <<log, owner, trans, locked, aasync_usr, nvals, todo, retries,
                   historyVars>>

\* Variant: no break between the cases of the switch.
FallThrough == "commit"

AfterPrepare == "poll"

\* After the last node the local ConfD is told to go on.
Prepared(n) ==
    /\ pc[n] = "prepare_wait" /\ phase[Target(n)] = "prepared"
    /\ Advance(n, "prepare", AfterPrepare)
    /\ phase' = IF todo[n] = {Target(n)} THEN [phase EXCEPT ![n] = "prepared"]
                                         ELSE phase
    /\ UNCHANGED <<log, owner, trans, locked, event, aasync_usr, nvals, retries,
                   historyVars>>

\* The other aasync, or another subscriber there, refuses the transaction.
PrepareFails(n) ==
    /\ pc[n] = "prepare_wait"
    /\ phase[Target(n)] \in {"refused"} \cup {p \in {"prepared"} : "prepare" \in Faults}
    /\ AbortLocalTrans(n)
    /\ UNCHANGED aasync_usr

----------------------------------------------------------------------------
(* CDB_SUB_COMMIT.                                                          *)

\* The transaction here is over when it is the manager's; another aasync has
\* still to finish its own.
ReceiveCommit(n) ==
    /\ pc[n] = "poll" /\ event[n] = "commit"
    /\ event' = [event EXCEPT ![n] = "none"]
    /\ IF nvals[n] /\ ~aasync_usr[n]
         THEN /\ pc' = [pc EXCEPT ![n] = "commit"]
              /\ todo' = [todo EXCEPT ![n] = Others(n)]
              /\ UNCHANGED <<owner, phase>>
         ELSE /\ phase' = [phase EXCEPT ![n] = IF owner[n] = n THEN "idle"
                                                               ELSE "committed"]
              /\ owner' = [owner EXCEPT ![n] = IF @ = n THEN None ELSE @]
              /\ UNCHANGED <<pc, todo>>
    /\ UNCHANGED <<log, trans, locked, aasync_usr, nvals, retries, historyVars>>

\* maapi_commit_trans, until it returns.
Commit(n) ==
    /\ pc[n] = "commit"
    /\ log' = [log EXCEPT ![Target(n)] = Append(@, trans[Target(n)])]
    /\ phase' = [phase EXCEPT ![Target(n)] = "committing"]
    /\ event' = [event EXCEPT ![Target(n)] = "commit"]
    /\ pc' = [pc EXCEPT ![n] = "commit_wait"]
    /\ UNCHANGED <<owner, trans, locked, aasync_usr, nvals, todo, retries,
                   historyVars>>

\* The transaction on the node ends in state s; after the last node the local
\* one is over, too.
Done(n, s) ==
    /\ Advance(n, "commit", "poll")
    /\ phase' = [phase EXCEPT ![Target(n)] = s,
                              ![n] = IF todo[n] = {Target(n)} THEN "idle" ELSE @]
    /\ owner' = [owner EXCEPT ![Target(n)] = IF s = "idle" THEN None ELSE @,
                              ![n] = IF todo[n] = {Target(n)} THEN None ELSE @]
    /\ UNCHANGED <<log, trans, locked, event, nvals, retries, started, committed>>

\* maapi_finish_trans, with t_finish on the other node.
Finish(n) ==
    /\ pc[n] = "commit_wait"
    /\ phase[Target(n)] = "committed" /\ pc[Target(n)] = "poll"
    /\ aasync_usr' = [aasync_usr EXCEPT ![Target(n)] = FlagAfterFinish]
    /\ Done(n, "idle")
    /\ UNCHANGED partial

\* maapi_commit_trans fails: this is logged, and the loop goes on.
CommitFails(n) ==
    /\ "commit" \in Faults /\ pc[n] = "commit"
    /\ Done(n, "closing")
    /\ partial' = partial \cup {trans[n]}
    /\ UNCHANGED aasync_usr

----------------------------------------------------------------------------

ManagerNext(n) == StartTransaction(n) \/ ManagerCommit(n) \/ ManagerAbort(n)

AASyncNext(n) ==
    \/ ReceivePrepare(n) \/ ReceiveCommit(n) \/ ReceiveAbort(n)
    \/ SessionClosed(n)
    \/ Lock(n) \/ LockRetry(n) \/ LockFails(n)
    \/ Write(n) \/ Prepare(n) \/ Prepared(n)
    \/ Commit(n) \/ Finish(n)

FaultNext(n) == ConnectFails(n) \/ WriteFails(n) \/ PrepareFails(n) \/ CommitFails(n)

Next == \E n \in Nodes : ManagerNext(n) \/ AASyncNext(n) \/ FaultNext(n)

Spec == Init /\ [][Next]_vars

\* aasync runs and a manager ends what it has started; no call need fail.
FairSpec ==
    /\ Spec
    /\ \A n \in Nodes : WF_vars(AASyncNext(n))
    /\ \A n \in Nodes : WF_vars(ManagerCommit(n) \/ ManagerAbort(n))

----------------------------------------------------------------------------
(* Properties.                                                              *)

\* The variables have the types the code gives them.
TypeOK ==
    /\ log \in [Nodes -> Seq(1..MaxTx)]
    /\ owner \in [Nodes -> Nodes \cup {None}]
    /\ trans \in [Nodes -> 0..MaxTx]
    /\ phase \in [Nodes -> Phases]
    /\ locked \in [Nodes -> Nodes \cup {None}]
    /\ event \in [Nodes -> Events]
    /\ aasync_usr \in [Nodes -> BOOLEAN]
    /\ nvals \in [Nodes -> BOOLEAN]
    /\ pc \in [Nodes -> PCs]
    /\ todo \in [Nodes -> SUBSET Nodes]
    /\ retries \in [Nodes -> 0..NumLockRetries]
    /\ started \in 0..MaxTx
    /\ committed \subseteq 1..MaxTx
    /\ partial \subseteq 1..MaxTx

\* n has locked all other nodes for its transaction and not finished it.
Replicating(n) ==
    \/ pc[n] \in {"write", "prepare", "prepare_wait", "commit", "commit_wait"}
    \/ owner[n] = n /\ nvals[n] /\ phase[n] \in {"prepared", "committing"}

\* One transaction at a time in the whole cluster: the locks of all the other
\* nodes and the transaction in progress on its own node keep every other
\* aasync from getting as far (maapi_lock, t_lock).
OneReplicator ==
    \A m, n \in Nodes : Replicating(m) /\ Replicating(n) => m = n

\* A transaction another aasync makes here is never replicated once more: from
\* its prepare to its end the flag set in global_lock is not reset.
NoEcho == \A n \in Nodes : pc[n] # "poll" => owner[n] = n

\* What a manager or a node aborts is committed nowhere: every transaction in
\* a running configuration was committed by its manager, after all nodes had
\* prepared it.
AbortedNowhere == \A n \in Nodes : \A i \in DOMAIN log[n] : log[n][i] \in committed

Replicated(t) == t \notin partial

On(n) == {log[n][i] : i \in DOMAIN log[n]}

\* The transactions that are replicated are committed in one order on all nodes,
\* that in which they were started, each once and none left out in between: a
\* node that has a later one has the earlier ones.
OneOrder ==
    /\ \A n \in Nodes : \A i, j \in DOMAIN log[n] :
         i < j /\ Replicated(log[n][i]) /\ Replicated(log[n][j]) => log[n][i] < log[n][j]
    /\ \A m, n \in Nodes : \A t \in On(m) \ partial, u \in On(n) \ partial :
         t < u => t \in On(n)

\* When nothing is in progress, every transaction that was neither skipped in
\* prepare nor failed in commit is on all nodes.
ReplicasAgree ==
    (\A n \in Nodes : owner[n] = None) =>
        \A m, n \in Nodes : On(m) \ partial = On(n) \ partial

\* Synchronizers never wait for each other for ever: every transaction of a
\* manager comes to its end (the retries of maapi_lock are counted, and the
\* sessions are closed when one gives up).
TransactionEnds == \A n \in Nodes : owner[n] = n ~> owner[n] # n

\* ... and nothing of it stays on the other nodes, neither a transaction nor
\* a lock.
NodesFreed ==
    \A n \in Nodes : locked[n] # None \/ owner[n] # None ~>
                         locked[n] = None /\ owner[n] = None

----------------------------------------------------------------------------
(* What the README says, and the code does not keep.                        *)

\* "linearizability with strong consistency": when nothing is in progress, all
\* nodes have committed the same transactions.
Agreement ==
    (\A n \in Nodes : owner[n] = None) => \A m, n \in Nodes : log[m] = log[n]
===============================================================================
