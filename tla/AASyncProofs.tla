----------------------------- MODULE AASyncProofs -----------------------------
(****************************************************************************)
(* Theorems about AASync, for any number of nodes, transactions and retries *)
(* and whichever calls fail: one transaction at a time is replicated, none  *)
(* is replicated twice, what is aborted is committed nowhere, and what is   *)
(* replicated is committed in one order, on all nodes.                      *)
(*                                                                          *)
(* The invariant IInv says what a synchronizer has on every other node at   *)
(* each place of its loops, the global lock, or a transaction and how far it*)
(* is.  First come the lemmas that say what a step has to keep, with the    *)
(* steps of the managers, of callbacks, and those that give up; then the    *)
(* steps of the synchronizers; then the theorems.                           *)
(*                                                                          *)
(* The order needs an invariant of the logs.  A synchronizer has to lock all*)
(* other nodes, so that a transaction is replicated only when none started  *)
(* before it is in progress; Youngest says what follows for the log of its  *)
(* own node, and Spreading which nodes it has still to get to.              *)
(****************************************************************************)
EXTENDS AASync, TLAPS

\* All nodes have prepared the transaction of n, which its manager now decides.
Waiting(n) ==
    /\ pc[n] = "poll" /\ owner[n] = n /\ nvals[n]
    /\ phase[n] \in {"prepared", "committing", "closing"}

\* n has the lock of m.
HasLock(n, m) ==
    \/ pc[n] = "lock" /\ m \notin todo[n]
    \/ pc[n] = "write" /\ m \in todo[n]

\* n has a transaction on m.
HasTrans(n, m) ==
    \/ pc[n] = "write" /\ m \notin todo[n]
    \/ pc[n] \in {"prepare", "prepare_wait"} \/ Waiting(n)
    \/ pc[n] \in {"commit", "commit_wait"} /\ m \in todo[n]

\* How far it is.
PhaseOn(n, m) ==
    IF pc[n] = "prepare_wait" /\ m = Target(n) THEN {"preparing", "prepared", "refused"}
    ELSE IF pc[n] = "commit_wait" /\ m = Target(n) THEN {"committing", "committed"}
    ELSE IF pc[n] = "write" \/ (pc[n] \in {"prepare", "prepare_wait"} /\ m \in todo[n])
      THEN {"validated"} ELSE {"prepared"}

\* In its loops a synchronizer deals with a transaction of its own node.
Loop(n) ==
    pc[n] # "poll" =>
        /\ owner[n] = n /\ nvals[n] /\ event[n] = "none"
        /\ todo[n] # {} /\ n \notin todo[n]
        /\ phase[n] = IF pc[n] \in {"commit", "commit_wait"} THEN "committing" ELSE "preparing"

\* The flag tells the transactions of others from those of the node.
Flag(n) ==
    /\ locked[n] # None => owner[n] = None /\ locked[n] # n
    /\ owner[n] = None <=> phase[n] = "idle"
    /\ locked[n] # None \/ owner[n] \notin {n, None} => aasync_usr[n]
    /\ pc[n] # "poll" \/ Waiting(n) => ~aasync_usr[n]

\* A notification is about what is going on.
Notified(n) ==
    /\ event[n] = "prepare" => phase[n] = "preparing"
    /\ event[n] = "commit" => phase[n] = "committing"
    /\ event[n] = "abort" => phase[n] = "closing" /\ owner[n] = n

\* A transaction that is being committed elsewhere has been committed by its manager.
Decided(n) ==
    /\ owner[n] # None => trans[n] # 0
    /\ owner[n] = n /\ phase[n] = "committing" => trans[n] \in committed

Local(n) == Loop(n) /\ Flag(n) /\ Notified(n) /\ Decided(n)

Locals == \A n \in Nodes : Local(n)

\* What n has on m; what is left of an earlier transaction is being closed.
OnOther(n, m) ==
    /\ HasLock(n, m) <=> locked[m] = n
    /\ HasTrans(n, m) => owner[m] = n /\ phase[m] \in PhaseOn(n, m) /\ trans[m] = trans[n]
    /\ owner[m] = n /\ ~HasTrans(n, m) => phase[m] = "closing"

OnOthers == \A n, m \in Nodes : m # n => OnOther(n, m)

IInv == TypeOK /\ Locals /\ OnOthers /\ OneReplicator /\ AbortedNowhere

\* All that a node and its synchronizer have.
At(n) ==
    <<owner[n], trans[n], phase[n], locked[n], event[n], aasync_usr[n], nvals[n], pc[n], todo[n]>>
----------------------------------------------------------------------------
(* What a step has to keep.                                                 *)

\* Most steps are first-order: Zenon is tried first, then the SMT solver.
USE Zenon, SMT

\* A node has others.
LEMMA OthersExist == \A n \in Nodes : Others(n) # {} /\ Others(n) = Nodes \ {n}
  BY SeveralNodes DEF Others

\* The head of a list is in it.
LEMMA TargetInList ==
    ASSUME NEW n \in Nodes, todo[n] \subseteq Nodes, todo[n] # {} PROVE Target(n) \in todo[n]
  BY ListsHaveHeads DEF Target, Max

\* The head of a synchronizer's list is another node.
LEMMA TargetIsOther ==
    ASSUME TypeOK, NEW n \in Nodes, Loop(n), pc[n] # "poll"
    PROVE  Target(n) \in todo[n] /\ Target(n) \in Nodes /\ Target(n) # n
<1>1. todo[n] \subseteq Nodes /\ todo[n] # {} /\ n \notin todo[n]
  BY DEF TypeOK, Loop
<1>2. Target(n) \in todo[n]
  BY <1>1, TargetInList
<1> QED BY <1>1, <1>2

\* It depends on the list alone.
LEMMA SameTarget == \A n : todo'[n] = todo[n] => Target(n)' = Target(n)
  BY DEF Target

\* A synchronizer that does not move has the same on the other nodes.
LEMMA Unmoved ==
    ASSUME NEW k \in Nodes, pc'[k] = pc[k], todo'[k] = todo[k], Waiting(k)' <=> Waiting(k)
    PROVE  \A m \in Nodes : /\ HasLock(k, m)' <=> HasLock(k, m)
                            /\ HasTrans(k, m)' <=> HasTrans(k, m)
                            /\ PhaseOn(k, m)' = PhaseOn(k, m)
  BY SameTarget DEF HasLock, HasTrans, PhaseOn

\* What a synchronizer that does not move has on a node m, when m changes at most
\* in what it has of others.
LEMMA OtherStays ==
    ASSUME NEW k \in Nodes, NEW m \in Nodes, OnOther(k, m),
           pc'[k] = pc[k], todo'[k] = todo[k], Waiting(k)' <=> Waiting(k), trans'[k] = trans[k],
           locked'[m] = k <=> locked[m] = k,
           \/ owner'[m] = owner[m] /\ phase'[m] = phase[m] /\ trans'[m] = trans[m]
           \/ owner[m] # k /\ owner'[m] # k
    PROVE  OnOther(k, m)'
<1>1. /\ HasLock(k, m)' <=> HasLock(k, m)
      /\ HasTrans(k, m)' <=> HasTrans(k, m)
      /\ PhaseOn(k, m)' = PhaseOn(k, m)
  BY Unmoved
<1> QED BY <1>1 DEF OnOther

\* A synchronizer that is at rest has nothing on a node m.
LEMMA OtherRests ==
    ASSUME NEW k \in Nodes, NEW m \in Nodes, OnOther(k, m),
           pc[k] = "poll", pc'[k] = "poll", ~Waiting(k), ~Waiting(k)',
           locked'[m] = locked[m] \/ locked'[m] # k,
           owner'[m] # k \/ phase'[m] = "closing" \/ (owner'[m] = owner[m] /\ phase'[m] = phase[m])
    PROVE  OnOther(k, m)'
<1>1. ~HasLock(k, m) /\ ~HasLock(k, m)' /\ ~HasTrans(k, m) /\ ~HasTrans(k, m)'
  BY DEF HasLock, HasTrans
<1> QED BY <1>1 DEF OnOther

\* A node where nothing happens keeps what is said of it.
LEMMA LocalStays ==
    ASSUME NEW k \in Nodes, At(k)' = At(k), committed \subseteq committed', Local(k)
    PROVE  Local(k)'
  BY DEF At, Local, Loop, Flag, Notified, Decided, Waiting

\* Two nodes where nothing happens have the same on each other.
LEMMA PairStays ==
    ASSUME NEW k \in Nodes, NEW m \in Nodes, At(k)' = At(k), At(m)' = At(m), OnOther(k, m)
    PROVE  OnOther(k, m)'
  BY OtherStays DEF At, Waiting

\* The invariant has to be looked at only for the nodes that a step is about.
LEMMA Frame ==
    ASSUME IInv, TypeOK', NEW S \in SUBSET Nodes, committed \subseteq committed',
           \A k \in Nodes \ S : At(k)' = At(k),
           \A k \in S : Local(k)',
           \A k \in S : \A m \in Nodes \ {k} : OnOther(k, m)' /\ OnOther(m, k)',
           OneReplicator', AbortedNowhere'
    PROVE  IInv'
<1>1. Locals'
  <2> SUFFICES ASSUME NEW k \in Nodes, k \notin S PROVE Local(k)'
    BY DEF Locals
  <2> QED BY LocalStays DEF IInv, Locals
<1>2. OnOthers'
  <2> SUFFICES ASSUME NEW k \in Nodes, NEW m \in Nodes, m # k, k \notin S, m \notin S
               PROVE  OnOther(k, m)'
    BY DEF OnOthers
  <2> QED BY PairStays DEF IInv, OnOthers
<1> QED BY <1>1, <1>2 DEF IInv

\* A step about one node.
LEMMA FrameOne ==
    ASSUME IInv, TypeOK', NEW n \in Nodes, committed \subseteq committed',
           \A k \in Nodes \ {n} : At(k)' = At(k), Local(n)',
           \A m \in Nodes \ {n} : OnOther(n, m)' /\ OnOther(m, n)',
           OneReplicator', AbortedNowhere'
    PROVE  IInv'
<1> DEFINE S == {n}
<1>1. /\ S \in SUBSET Nodes /\ \A k \in Nodes \ S : At(k)' = At(k)
      /\ \A k \in S : Local(k)'
      /\ \A k \in S : \A m \in Nodes \ {k} : OnOther(k, m)' /\ OnOther(m, k)'
  OBVIOUS
<1> HIDE DEF S
<1> QED BY <1>1, Frame

\* A step of n about another node.
LEMMA FrameTwo ==
    ASSUME IInv, TypeOK', NEW n \in Nodes, NEW t \in Nodes, committed \subseteq committed',
           \A k \in Nodes \ {n, t} : At(k)' = At(k), Local(n)', Local(t)',
           \A m \in Nodes \ {n} : OnOther(n, m)',
           \A k \in Nodes \ {n} : \A m \in Nodes \ {k} : OnOther(k, m)',
           OneReplicator', AbortedNowhere'
    PROVE  IInv'
<1>1. ASSUME NEW k \in Nodes, k # n, k # t PROVE Local(k)'
  BY <1>1, LocalStays DEF IInv, Locals
<1>2. Locals'
  BY <1>1 DEF Locals
<1>3. OnOthers'
  BY DEF OnOthers
<1> QED BY <1>2, <1>3 DEF IInv

\* No synchronizer has begun to replicate.
LEMMA NoneBegins ==
    ASSUME OneReplicator, \A k \in Nodes : Replicating(k)' => Replicating(k) PROVE OneReplicator'
  BY DEF OneReplicator

\* Nothing is committed.
LEMMA LogsStay ==
    ASSUME AbortedNowhere, log' = log, committed \subseteq committed' PROVE AbortedNowhere'
  BY DEF AbortedNowhere

\* What is committed on one node has been committed by its manager.
LEMMA LogGrows ==
    ASSUME AbortedNowhere, NEW n \in Nodes, log \in [Nodes -> Seq(1..MaxTx)],
           NEW x \in 1..MaxTx, log' = [log EXCEPT ![n] = Append(log[n], x)],
           committed \subseteq committed', x \in committed'
    PROVE  AbortedNowhere'
<1> SUFFICES ASSUME NEW k \in Nodes, NEW i \in DOMAIN log'[k] PROVE log'[k][i] \in committed'
  BY DEF AbortedNowhere
<1>1. CASE k # n
  BY <1>1 DEF AbortedNowhere
<1>2. CASE k = n
  <2> DEFINE l == log[n]
  <2>1. log'[n] = Append(l, x) /\ l \in Seq(1..MaxTx)
    OBVIOUS
  <2>2. \A h \in DOMAIN l : l[h] \in committed'
    BY DEF AbortedNowhere
  <2> HIDE DEF l
  <2>3. ASSUME NEW h \in DOMAIN Append(l, x)
        PROVE  (h \in DOMAIN l /\ Append(l, x)[h] = l[h]) \/ Append(l, x)[h] = x
    BY ONLY <2>1, <2>3
  <2> QED BY <1>2, <2>1, <2>2, <2>3
<1> QED BY <1>1, <1>2

\* Nothing is going on.
LEMMA InitInvariant == Init => IInv
<1> SUFFICES ASSUME Init PROVE IInv
  OBVIOUS
<1> USE NoneIsNoNode, BoundsNat DEF Init
<1>1. TypeOK
  BY DEF TypeOK, Phases, Events, PCs
<1>2. Locals
  BY DEF Locals, Local, Loop, Flag, Notified, Decided, Waiting
<1>3. OnOthers
  BY DEF OnOthers, OnOther, HasLock, HasTrans, Waiting
<1>4. OneReplicator /\ AbortedNowhere
  BY DEF OneReplicator, Replicating, AbortedNowhere
<1> QED BY <1>1, <1>2, <1>3, <1>4 DEF IInv

----------------------------------------------------------------------------
(* The managers.                                                            *)

\* The transaction of a manager starts on a node without transaction or lock.
LEMMA StartInvariant ==
    ASSUME IInv, NEW n \in Nodes, StartTransaction(n) PROVE IInv'
<1> USE NoneIsNoNode
<1>1. TypeOK'
  BY BoundsNat DEF IInv, TypeOK, StartTransaction, Phases, Events, aasyncVars
<1>2. /\ owner'[n] = n /\ phase'[n] = "preparing" /\ event'[n] = "prepare" /\ trans'[n] # 0
      /\ UNCHANGED <<log, locked, aasync_usr, nvals, pc, todo, committed>>
      /\ \A k \in Nodes \ {n} : At(k)' = At(k)
  BY BoundsNat DEF IInv, TypeOK, StartTransaction, aasyncVars, At
<1>3. owner[n] = None /\ locked[n] = None
  BY DEF StartTransaction
<1>4. Local(n) /\ pc[n] = "poll" /\ ~Waiting(n) /\ ~Waiting(n)'
  BY <1>2, <1>3 DEF IInv, Locals, Local, Loop, Waiting
<1>5. Local(n)'
  BY <1>2, <1>3, <1>4 DEF Local, Loop, Flag, Notified, Decided
<1>6. ASSUME NEW m \in Nodes \ {n} PROVE OnOther(n, m)' /\ OnOther(m, n)'
  <2>1. OnOther(n, m) /\ OnOther(m, n)
    BY DEF IInv, OnOthers
  <2>2. OnOther(n, m)'
    BY <1>2, <1>4, <2>1, OtherRests DEF At
  <2>3. OnOther(m, n)'
    BY <1>2, <1>3, <2>1, OtherStays DEF At, Waiting
  <2> QED BY <2>2, <2>3
<1>7. ASSUME NEW k \in Nodes PROVE Replicating(k)' => Replicating(k)
  BY <1>2, <1>4 DEF Replicating, At
<1>8. OneReplicator' /\ AbortedNowhere'
  BY <1>2, <1>7, NoneBegins, LogsStay DEF IInv
<1> QED BY <1>1, <1>2, <1>5, <1>6, <1>8, FrameOne

\* The manager decides, for the transaction or against it, when all nodes have
\* prepared it.
LEMMA DecisionInvariant ==
    ASSUME IInv, NEW n \in Nodes, ManagerCommit(n) \/ ManagerAbort(n) PROVE IInv'
<1> USE NoneIsNoNode
<1>1. TypeOK /\ Local(n) /\ owner[n] = n /\ phase[n] = "prepared"
  BY DEF IInv, Locals, ManagerCommit, ManagerAbort
<1>2. trans[n] \in 1..MaxTx
  BY <1>1 DEF TypeOK, Local, Decided
<1>3. TypeOK'
  <2>1. CASE ManagerCommit(n)
    <3>1. Append(log[n], trans[n]) \in Seq(1..MaxTx)
      BY <1>1, <1>2 DEF TypeOK
    <3>2. log' \in [Nodes -> Seq(1..MaxTx)]
      BY <1>1, <2>1, <3>1 DEF TypeOK, ManagerCommit
    <3> QED BY <1>1, <1>2, <2>1, <3>2 DEF TypeOK, ManagerCommit, Phases, Events, aasyncVars
  <2>2. CASE ManagerAbort(n)
    BY <1>1, <2>2 DEF TypeOK, ManagerAbort, Phases, Events, aasyncVars, historyVars
  <2> QED BY <2>1, <2>2
<1>4. /\ \/ phase'[n] = "committing" /\ event'[n] = "commit" /\ trans[n] \in committed'
         \/ phase'[n] = "closing" /\ event'[n] = "abort"
      /\ UNCHANGED <<owner, trans, locked, aasync_usr, nvals, pc, todo>>
      /\ committed \subseteq committed'
      /\ \A k \in Nodes \ {n} : At(k)' = At(k)
  BY <1>1 DEF TypeOK, ManagerCommit, ManagerAbort, aasyncVars, historyVars, At
<1>5. pc[n] = "poll" /\ (Waiting(n)' <=> Waiting(n))
  BY <1>1, <1>4 DEF Local, Loop, Waiting
<1>6. Local(n)'
  BY <1>1, <1>4, <1>5 DEF Local, Loop, Flag, Notified, Decided
<1>7. ASSUME NEW m \in Nodes \ {n} PROVE OnOther(n, m)' /\ OnOther(m, n)'
  <2>1. OnOther(n, m) /\ OnOther(m, n)
    BY DEF IInv, OnOthers
  <2>2. OnOther(n, m)'
    BY <1>4, <1>5, <2>1, OtherStays DEF At
  <2>3. OnOther(m, n)'
    BY <1>1, <1>4, <2>1, OtherStays DEF At, Waiting
  <2> QED BY <2>2, <2>3
<1>8. ASSUME NEW k \in Nodes PROVE Replicating(k)' => Replicating(k)
  BY <1>1, <1>4 DEF Replicating, At
<1>9. AbortedNowhere'
  <2>1. CASE ManagerCommit(n)
    BY <1>1, <1>2, <2>1, LogGrows DEF ManagerCommit, IInv, TypeOK
  <2>2. CASE ManagerAbort(n)
    BY <2>2, LogsStay DEF ManagerAbort, historyVars, IInv
  <2> QED BY <2>1, <2>2
<1>10. OneReplicator'
  BY <1>8, NoneBegins DEF IInv
<1> QED BY <1>3, <1>4, <1>6, <1>7, <1>9, <1>10, FrameOne
----------------------------------------------------------------------------
(* The end of sessions and transactions.                                    *)

\* The sessions of n are closed while no node has a notification about its transaction.
LEMMA CloseInvariant ==
    ASSUME IInv, NEW n \in Nodes, CloseSessions(n), owner[n] = n,
           \A m \in Nodes : m # n /\ owner[m] = n => event[m] = "none",
           pc' = [pc EXCEPT ![n] = "poll"], UNCHANGED <<nvals, todo, retries, historyVars>>,
           aasync_usr' \in [Nodes -> BOOLEAN],
           \A m \in Nodes : aasync_usr'[m] = aasync_usr[m] \/ (locked[m] = n /\ ~aasync_usr'[m])
    PROVE  IInv'
<1> USE NoneIsNoNode
<1>1. TypeOK'
  BY DEF IInv, TypeOK, CloseSessions, Phases, Events, PCs, historyVars
<1>2. /\ owner'[n] = None /\ phase'[n] = "idle" /\ event'[n] = "none" /\ pc'[n] = "poll"
      /\ locked'[n] = locked[n]
      /\ UNCHANGED <<log, trans, nvals, todo, committed>>
  BY DEF IInv, TypeOK, CloseSessions, Sessions, Others, historyVars
<1>3. ASSUME NEW m \in Nodes, m # n
      PROVE  /\ owner'[m] = owner[m] /\ event'[m] = event[m] /\ pc'[m] = pc[m]
             /\ locked'[m] = IF locked[m] = n THEN None ELSE locked[m]
             /\ phase'[m] = IF owner[m] = n THEN "closing" ELSE phase[m]
  BY <1>3 DEF IInv, TypeOK, CloseSessions, Sessions, Others
<1>4. ASSUME NEW m \in Nodes PROVE Local(m)
  BY DEF IInv, Locals
<1>5. locked[n] = None
  BY <1>4 DEF Local, Flag
<1>6. ASSUME NEW m \in Nodes PROVE Local(m)'
  <2>1. CASE m = n
    BY <1>2, <1>5, <2>1 DEF Local, Loop, Flag, Notified, Decided, Waiting
  <2>2. CASE m # n /\ locked[m] = n
    <3>1. owner[m] = None /\ pc[m] = "poll" /\ locked'[m] = None
      BY <1>3, <1>4, <2>2 DEF Local, Flag, Loop
    <3> QED BY <1>2, <1>3, <1>4, <2>2, <3>1 DEF Local, Loop, Flag, Notified, Decided, Waiting
  <2>3. CASE m # n /\ locked[m] # n /\ owner[m] = n
    <3>1. event[m] = "none" /\ pc[m] = "poll" /\ aasync_usr'[m] = aasync_usr[m]
      BY <1>4, <2>3 DEF Local, Loop
    <3> QED BY <1>2, <1>3, <1>4, <2>3, <3>1 DEF Local, Loop, Flag, Notified, Decided, Waiting
  <2>4. CASE m # n /\ locked[m] # n /\ owner[m] # n
    <3>1. At(m)' = At(m)
      BY <1>2, <1>3, <2>4 DEF At
    <3> QED BY <1>2, <1>4, <3>1, LocalStays
  <2> QED BY <2>1, <2>2, <2>3, <2>4
<1>7. ASSUME NEW k \in Nodes, NEW m \in Nodes, m # k PROVE OnOther(k, m)'
  <2>1. CASE k = n
    <3>1. ~HasLock(n, m)' /\ ~HasTrans(n, m)'
      BY <1>2 DEF HasLock, HasTrans, Waiting
    <3> QED BY <1>3, <1>7, <2>1, <3>1 DEF OnOther
  <2>2. CASE k # n
    <3>1. OnOther(k, m)
      BY <1>7 DEF IInv, OnOthers
    <3>2. pc'[k] = pc[k] /\ (Waiting(k)' <=> Waiting(k))
      BY <1>2, <1>3, <2>2 DEF Waiting
    <3>3. CASE m = n
      BY <1>2, <2>2, <3>1, <3>2, <3>3, OtherStays
    <3>4. CASE m # n
      BY <1>2, <1>3, <2>2, <3>1, <3>2, <3>4, OtherStays
    <3> QED BY <3>3, <3>4
  <2> QED BY <2>1, <2>2
<1>8. ASSUME NEW k \in Nodes PROVE Replicating(k)' => Replicating(k)
  BY <1>2, <1>3 DEF Replicating
<1>9. OneReplicator' /\ AbortedNowhere'
  BY <1>2, <1>8, NoneBegins, LogsStay DEF IInv
<1> QED BY <1>1, <1>6, <1>7, <1>9 DEF IInv, Locals, OnOthers

\* A synchronizer gives up: its transactions are as far as its loop has brought them.
LEMMA GivesUpInvariant ==
    ASSUME IInv, NEW n \in Nodes,
           ConnectFails(n) \/ LockFails(n) \/ WriteFails(n) \/ PrepareFails(n) \/ ReceiveAbort(n)
    PROVE  IInv'
<1>1. TypeOK /\ Local(n)
  BY DEF IInv, Locals
<1>2. /\ owner[n] = n /\ CloseSessions(n) /\ pc' = [pc EXCEPT ![n] = "poll"]
      /\ UNCHANGED <<nvals, todo, retries, historyVars>>
  <2>1. CASE ReceiveAbort(n)
    BY <1>1, <2>1 DEF ReceiveAbort, Local, Notified, TypeOK, aasyncVars
  <2>2. CASE pc[n] # "poll" /\ AbortLocalTrans(n)
    BY <1>1, <2>2 DEF AbortLocalTrans, Local, Loop
  <2> QED BY <2>1, <2>2 DEF ConnectFails, LockFails, WriteFails, PrepareFails
<1>3. /\ aasync_usr' \in [Nodes -> BOOLEAN]
      /\ \A m \in Nodes : aasync_usr'[m] = aasync_usr[m] \/ (locked[m] = n /\ ~aasync_usr'[m])
  <2>1. CASE WriteFails(n)
    <3>1. pc[n] = "write" /\ Target(n) \in todo[n] /\ Target(n) \in Nodes /\ Target(n) # n
      BY <1>1, <2>1, TargetIsOther DEF WriteFails, Local
    <3>2. locked[Target(n)] = n
      BY <3>1 DEF IInv, OnOthers, OnOther, HasLock
    <3> QED BY <1>1, <2>1, <3>1, <3>2 DEF WriteFails, FlagAfterFinish, TypeOK
  <2>2. CASE UNCHANGED aasync_usr
    BY <1>1, <2>2 DEF TypeOK
  <2> QED BY <2>1, <2>2 DEF ConnectFails, LockFails, PrepareFails, ReceiveAbort, aasyncVars
<1>4. ASSUME NEW m \in Nodes, m # n, owner[m] = n PROVE event[m] = "none"
  <2>1. OnOther(n, m) /\ Local(m)
    BY <1>4 DEF IInv, OnOthers, Locals
  <2>2. phase[m] \in {"validated", "prepared", "refused", "closing"}
    <3>1. CASE ~HasTrans(n, m)
      BY <1>4, <2>1, <3>1 DEF OnOther
    <3>2. CASE HasTrans(n, m) /\ pc[n] = "write"
      BY <2>1, <3>2 DEF OnOther, PhaseOn
    <3>3. CASE HasTrans(n, m) /\ PrepareFails(n)
      <4>1. m = Target(n) => phase[m] \in {"prepared", "refused"}
        BY <3>3 DEF PrepareFails
      <4>2. pc[n] = "prepare_wait" /\ phase[m] \in PhaseOn(n, m)
        BY <2>1, <3>3 DEF OnOther, PrepareFails
      <4> QED BY <4>1, <4>2 DEF PhaseOn
    <3>4. CASE HasTrans(n, m) /\ pc[n] = "poll"
      BY <2>1, <3>4 DEF OnOther, PhaseOn
    <3>5. pc[n] = "lock" => ~HasTrans(n, m)
      BY DEF HasTrans, Waiting
    <3> QED BY <3>1, <3>2, <3>3, <3>4, <3>5 DEF ConnectFails, LockFails, WriteFails, ReceiveAbort
  <2> QED BY <1>1, <1>4, <2>1, <2>2, NoneIsNoNode DEF Local, Notified, TypeOK, Events
<1> QED BY <1>2, <1>3, <1>4, CloseInvariant

\* A session from another node has ended.
LEMMA SessionClosedInvariant ==
    ASSUME IInv, NEW n \in Nodes, SessionClosed(n) PROVE IInv'
<1> USE NoneIsNoNode
<1>1. TypeOK'
  BY DEF IInv, TypeOK, SessionClosed, FlagAfterFinish, Phases, historyVars
<1>2. /\ owner'[n] = None /\ phase'[n] = "idle" /\ aasync_usr'[n] = FALSE
      /\ UNCHANGED <<log, trans, locked, event, nvals, pc, todo, committed>>
      /\ \A k \in Nodes \ {n} : At(k)' = At(k)
  BY DEF IInv, TypeOK, SessionClosed, FlagAfterFinish, historyVars, At
<1>3. Local(n) /\ phase[n] = "closing" /\ owner[n] # n /\ pc[n] = "poll" /\ event[n] \in Events
  BY DEF IInv, TypeOK, Locals, SessionClosed
<1>4. event[n] = "none" /\ locked[n] = None /\ ~Waiting(n) /\ ~Waiting(n)'
  BY <1>2, <1>3 DEF Local, Notified, Flag, Waiting, Events
<1>5. Local(n)'
  BY <1>2, <1>3, <1>4 DEF Local, Loop, Flag, Notified, Decided
<1>6. ASSUME NEW m \in Nodes \ {n} PROVE OnOther(n, m)' /\ OnOther(m, n)'
  <2>1. OnOther(n, m) /\ OnOther(m, n)
    BY DEF IInv, OnOthers
  <2>2. OnOther(n, m)'
    BY <1>2, <1>3, <1>4, <2>1, OtherRests DEF At
  <2>3. ~HasTrans(m, n)
    <3>1. "closing" \notin PhaseOn(m, n)
      BY DEF PhaseOn
    <3> QED BY <1>3, <2>1, <3>1 DEF OnOther
  <2>4. /\ HasLock(m, n)' <=> HasLock(m, n)
        /\ HasTrans(m, n)' <=> HasTrans(m, n)
    BY <1>2, Unmoved DEF At, Waiting
  <2>5. OnOther(m, n)'
    BY <1>2, <2>1, <2>3, <2>4 DEF OnOther
  <2> QED BY <2>2, <2>5
<1>7. ASSUME NEW k \in Nodes PROVE Replicating(k)' => Replicating(k)
  BY <1>2, <1>3 DEF Replicating, At
<1>8. OneReplicator' /\ AbortedNowhere'
  BY <1>2, <1>7, NoneBegins, LogsStay DEF IInv
<1> QED BY <1>1, <1>2, <1>5, <1>6, <1>8, FrameOne

----------------------------------------------------------------------------
(* Notifications.                                                           *)

\* The flag tells a transaction of another synchronizer, or one that is taken for
\* such a one: it is not replicated.
LEMMA PassedOnInvariant ==
    ASSUME IInv, NEW n \in Nodes, ReceivePrepare(n), aasync_usr[n] PROVE IInv'
<1> USE NoneIsNoNode
<1>1. TypeOK /\ Local(n) /\ pc[n] = "poll" /\ event[n] = "prepare"
  BY DEF IInv, Locals, ReceivePrepare
<1>2. phase[n] = "preparing" /\ owner[n] # None /\ locked[n] = None /\ ~Waiting(n)
  BY <1>1 DEF Local, Notified, Flag, Waiting
<1>3. nvals' = [nvals EXCEPT ![n] = FALSE]
  BY Zenon DEF ReceivePrepare
<1>4. /\ phase' = [phase EXCEPT ![n] = "prepared"] /\ event' = [event EXCEPT ![n] = "none"]
      /\ partial' \subseteq partial \cup {trans[n]}
      /\ UNCHANGED <<log, owner, trans, locked, aasync_usr, pc, todo, retries, started, committed>>
  BY DEF ReceivePrepare
<1>5. TypeOK'
  BY <1>1, <1>2, <1>3, <1>4 DEF TypeOK, Phases, Events, Local, Decided
<1>6. /\ phase'[n] = "prepared" /\ event'[n] = "none" /\ ~nvals'[n] /\ ~Waiting(n)'
      /\ \A k \in Nodes \ {n} : At(k)' = At(k)
  BY <1>1, <1>3, <1>4 DEF TypeOK, At, Waiting
<1>7. Local(n)'
  BY <1>1, <1>2, <1>4, <1>6 DEF Local, Loop, Flag, Notified, Decided
<1>8. ASSUME NEW m \in Nodes \ {n} PROVE OnOther(n, m)' /\ OnOther(m, n)'
  <2>1. OnOther(n, m) /\ OnOther(m, n)
    BY DEF IInv, OnOthers
  <2>2. OnOther(n, m)'
    BY <1>1, <1>2, <1>4, <1>6, <2>1, OtherRests DEF At
  <2>a. /\ pc'[m] = pc[m] /\ todo'[m] = todo[m] /\ trans'[m] = trans[m]
        /\ Waiting(m)' <=> Waiting(m)
    BY <1>6 DEF At, Waiting
  <2>3. CASE owner[n] # m
    BY <1>4, <2>a, <2>1, <2>2, <2>3, OtherStays
  <2>4. CASE owner[n] = m
    <3>1. HasTrans(m, n) /\ phase[n] \in PhaseOn(m, n)
      BY <1>2, <2>1, <2>4 DEF OnOther
    <3>2. "prepared" \in PhaseOn(m, n)
      BY <1>2, <3>1 DEF PhaseOn
    <3>3. /\ HasLock(m, n)' <=> HasLock(m, n)
          /\ HasTrans(m, n)' <=> HasTrans(m, n)
          /\ PhaseOn(m, n)' = PhaseOn(m, n)
      BY <2>a, Unmoved
    <3>4. owner'[n] = m /\ phase'[n] = "prepared" /\ locked'[n] = locked[n] /\ trans'[n] = trans[n]
      BY <1>4, <1>6, <2>4
    <3> QED BY <2>a, <2>1, <2>2, <3>1, <3>2, <3>3, <3>4 DEF OnOther
  <2> QED BY <2>2, <2>3, <2>4
<1>9. ASSUME NEW k \in Nodes PROVE Replicating(k)' => Replicating(k)
  BY <1>1, <1>4, <1>6 DEF Replicating, At
<1>10. OneReplicator' /\ AbortedNowhere'
  BY <1>4, <1>9, NoneBegins, LogsStay DEF IInv
<1> QED BY <1>4, <1>5, <1>6, <1>7, <1>8, <1>10, FrameOne

\* A transaction of the node itself is to be replicated.
LEMMA TakenUpInvariant ==
    ASSUME IInv, NEW n \in Nodes, ReceivePrepare(n), ~aasync_usr[n] PROVE IInv'
<1> USE NoneIsNoNode
<1>1. TypeOK /\ Local(n) /\ pc[n] = "poll" /\ event[n] = "prepare"
  BY DEF IInv, Locals, ReceivePrepare
<1>2. phase[n] = "preparing" /\ owner[n] = n /\ locked[n] = None /\ ~Waiting(n)
  BY <1>1 DEF Local, Notified, Flag, Waiting
<1>3. nvals' = [nvals EXCEPT ![n] = TRUE]
  BY Zenon DEF ReceivePrepare
<1>4. /\ pc' = [pc EXCEPT ![n] = "lock"] /\ todo' = [todo EXCEPT ![n] = Others(n)]
      /\ event' = [event EXCEPT ![n] = "none"] /\ retries' = [retries EXCEPT ![n] = 0]
      /\ UNCHANGED <<log, owner, trans, phase, locked, aasync_usr, historyVars>>
  BY DEF ReceivePrepare, historyVars
<1>5. Others(n) = Nodes \ {n} /\ Others(n) # {}
  BY OthersExist
<1>6. TypeOK'
  BY <1>1, <1>3, <1>4, <1>5, BoundsNat DEF TypeOK, PCs, Events, historyVars
<1>7. /\ pc'[n] = "lock" /\ todo'[n] = Others(n) /\ event'[n] = "none" /\ nvals'[n]
      /\ \A k \in Nodes \ {n} : At(k)' = At(k)
  BY <1>1, <1>3, <1>4 DEF TypeOK, At
<1>8. Local(n)'
  BY <1>1, <1>2, <1>4, <1>5, <1>7 DEF Local, Loop, Flag, Notified, Decided, historyVars
<1>9. ASSUME NEW m \in Nodes \ {n} PROVE OnOther(n, m)' /\ OnOther(m, n)'
  <2>1. OnOther(n, m) /\ OnOther(m, n)
    BY DEF IInv, OnOthers
  <2>2. ~HasLock(n, m) /\ ~HasTrans(n, m) /\ ~HasLock(n, m)' /\ ~HasTrans(n, m)'
    BY <1>1, <1>2, <1>5, <1>7 DEF HasLock, HasTrans, Waiting
  <2>3. OnOther(n, m)'
    BY <1>4, <2>1, <2>2 DEF OnOther
  <2>4. OnOther(m, n)'
    BY <1>4, <1>7, <2>1, OtherStays DEF At, Waiting
  <2> QED BY <2>3, <2>4
<1>10. ASSUME NEW k \in Nodes PROVE Replicating(k)' => Replicating(k)
  BY <1>2, <1>4, <1>7 DEF Replicating, At
<1>11. OneReplicator' /\ AbortedNowhere' /\ committed \subseteq committed'
  BY <1>4, <1>10, NoneBegins, LogsStay DEF IInv, historyVars
<1> QED BY <1>6, <1>7, <1>8, <1>9, <1>11, FrameOne

\* The commit of a transaction that n has replicated: the other nodes have to commit.
LEMMA CommitsInvariant ==
    ASSUME IInv, NEW n \in Nodes, ReceiveCommit(n), nvals[n], ~aasync_usr[n] PROVE IInv'
<1> USE NoneIsNoNode
<1>1. TypeOK /\ Local(n) /\ pc[n] = "poll" /\ event[n] = "commit"
  BY DEF IInv, Locals, ReceiveCommit
<1>2. phase[n] = "committing" /\ owner[n] = n /\ locked[n] = None /\ Waiting(n)
  BY <1>1 DEF Local, Notified, Flag, Waiting
<1>3. /\ pc' = [pc EXCEPT ![n] = "commit"] /\ todo' = [todo EXCEPT ![n] = Others(n)]
      /\ event' = [event EXCEPT ![n] = "none"]
      /\ UNCHANGED <<log, owner, trans, phase, locked, aasync_usr, nvals, retries, historyVars>>
  BY DEF ReceiveCommit
<1>4. Others(n) = Nodes \ {n} /\ Others(n) # {}
  BY OthersExist
<1>5. TypeOK'
  BY <1>1, <1>3, <1>4 DEF TypeOK, PCs, Events, historyVars
<1>6. /\ pc'[n] = "commit" /\ todo'[n] = Others(n) /\ event'[n] = "none"
      /\ \A k \in Nodes \ {n} : At(k)' = At(k)
  BY <1>1, <1>3 DEF TypeOK, At
<1>7. Local(n)'
  BY <1>1, <1>2, <1>3, <1>4, <1>6 DEF Local, Loop, Flag, Notified, Decided, historyVars
<1>8. ASSUME NEW m \in Nodes \ {n} PROVE OnOther(n, m)' /\ OnOther(m, n)'
  <2>1. OnOther(n, m) /\ OnOther(m, n)
    BY DEF IInv, OnOthers
  <2>2. ~HasLock(n, m) /\ HasTrans(n, m) /\ ~HasLock(n, m)' /\ HasTrans(n, m)'
    BY <1>1, <1>2, <1>4, <1>6 DEF HasLock, HasTrans
  <2>3. PhaseOn(n, m) = {"prepared"} /\ PhaseOn(n, m)' = {"prepared"}
    BY <1>1, <1>6 DEF PhaseOn
  <2>4. OnOther(n, m)'
    BY <1>3, <2>1, <2>2, <2>3 DEF OnOther
  <2>5. OnOther(m, n)'
    BY <1>3, <1>6, <2>1, OtherStays DEF At, Waiting
  <2> QED BY <2>4, <2>5
<1>9. ASSUME NEW k \in Nodes PROVE Replicating(k)' => Replicating(k)
  BY <1>2, <1>3, <1>6 DEF Replicating, At, Waiting
<1>10. OneReplicator' /\ AbortedNowhere' /\ committed \subseteq committed'
  BY <1>3, <1>9, NoneBegins, LogsStay DEF IInv, historyVars
<1> QED BY <1>5, <1>6, <1>7, <1>8, <1>10, FrameOne

\* The commit of a transaction of the node itself that is not replicated.
LEMMA NotReplicatedInvariant ==
    ASSUME IInv, NEW n \in Nodes, ReceiveCommit(n), ~(nvals[n] /\ ~aasync_usr[n]), owner[n] = n
    PROVE  IInv'
<1> USE NoneIsNoNode
<1>1. TypeOK /\ Local(n) /\ pc[n] = "poll" /\ event[n] = "commit"
  BY DEF IInv, Locals, ReceiveCommit
<1>2. phase[n] = "committing" /\ locked[n] = None /\ ~Waiting(n)
  BY <1>1 DEF Local, Notified, Flag, Waiting
<1>3. /\ phase' = [phase EXCEPT ![n] = "idle"] /\ owner' = [owner EXCEPT ![n] = None]
      /\ event' = [event EXCEPT ![n] = "none"]
      /\ UNCHANGED <<log, trans, locked, aasync_usr, nvals, pc, todo, retries, historyVars>>
  BY DEF ReceiveCommit
<1>4. TypeOK'
  BY <1>1, <1>3 DEF TypeOK, Phases, Events, historyVars
<1>5. /\ phase'[n] = "idle" /\ owner'[n] = None /\ event'[n] = "none" /\ ~Waiting(n)'
      /\ \A k \in Nodes \ {n} : At(k)' = At(k)
  BY <1>1, <1>3 DEF TypeOK, At, Waiting
<1>6. Local(n)'
  BY <1>1, <1>2, <1>3, <1>5 DEF Local, Loop, Flag, Notified, Decided
<1>7. ASSUME NEW m \in Nodes \ {n} PROVE OnOther(n, m)' /\ OnOther(m, n)'
  <2>1. OnOther(n, m) /\ OnOther(m, n)
    BY DEF IInv, OnOthers
  <2>2. OnOther(n, m)'
    BY <1>1, <1>2, <1>3, <1>5, <2>1, OtherRests DEF At
  <2>3. OnOther(m, n)'
    BY <1>3, <1>5, <2>1, OtherStays DEF At, Waiting
  <2> QED BY <2>2, <2>3
<1>8. ASSUME NEW k \in Nodes PROVE Replicating(k)' => Replicating(k)
  BY <1>1, <1>3, <1>5 DEF Replicating, At
<1>9. OneReplicator' /\ AbortedNowhere' /\ committed \subseteq committed'
  BY <1>3, <1>8, NoneBegins, LogsStay DEF IInv, historyVars
<1> QED BY <1>4, <1>5, <1>6, <1>7, <1>9, FrameOne

\* The commit of a transaction of another synchronizer.
LEMMA CommittedHereInvariant ==
    ASSUME IInv, NEW n \in Nodes, ReceiveCommit(n), owner[n] # n PROVE IInv'
<1> USE NoneIsNoNode
<1>1. TypeOK /\ Local(n) /\ pc[n] = "poll" /\ event[n] = "commit"
  BY DEF IInv, Locals, ReceiveCommit
<1>2. phase[n] = "committing" /\ owner[n] # None /\ locked[n] = None /\ aasync_usr[n] /\ ~Waiting(n)
  BY <1>1 DEF Local, Notified, Flag, Waiting
<1>3. /\ phase' = [phase EXCEPT ![n] = "committed"] /\ event' = [event EXCEPT ![n] = "none"]
      /\ UNCHANGED <<log, trans, locked, aasync_usr, nvals, pc, todo, retries, historyVars>>
  BY <1>2 DEF ReceiveCommit
<1>4. owner' = owner
  <2>1. owner' = [owner EXCEPT ![n] = owner[n]]
    BY <1>2 DEF ReceiveCommit
  <2> QED BY <1>1, <2>1 DEF TypeOK
<1>5. TypeOK'
  BY <1>1, <1>3, <1>4 DEF TypeOK, Phases, Events, historyVars
<1>6. /\ phase'[n] = "committed" /\ event'[n] = "none" /\ ~Waiting(n)'
      /\ \A k \in Nodes \ {n} : At(k)' = At(k)
  BY <1>1, <1>3, <1>4 DEF TypeOK, At, Waiting
<1>7. Local(n)'
  BY <1>1, <1>2, <1>3, <1>4, <1>6 DEF Local, Loop, Flag, Notified, Decided, historyVars
<1>8. ASSUME NEW m \in Nodes \ {n} PROVE OnOther(n, m)' /\ OnOther(m, n)'
  <2>1. OnOther(n, m) /\ OnOther(m, n)
    BY DEF IInv, OnOthers
  <2>2. OnOther(n, m)'
    BY <1>1, <1>2, <1>3, <1>4, <1>6, <2>1, OtherRests DEF At
  <2>3. /\ pc'[m] = pc[m] /\ todo'[m] = todo[m] /\ trans'[m] = trans[m]
        /\ Waiting(m)' <=> Waiting(m)
    BY <1>6 DEF At, Waiting
  <2>4. CASE owner[n] # m
    BY <1>3, <1>4, <2>1, <2>2, <2>3, <2>4, OtherStays
  <2>5. CASE owner[n] = m
    <3>1. HasTrans(m, n) /\ phase[n] \in PhaseOn(m, n)
      BY <1>2, <2>1, <2>5 DEF OnOther
    <3>2. "committed" \in PhaseOn(m, n)
      BY <1>2, <3>1 DEF PhaseOn
    <3>3. /\ HasLock(m, n)' <=> HasLock(m, n)
          /\ HasTrans(m, n)' <=> HasTrans(m, n)
          /\ PhaseOn(m, n)' = PhaseOn(m, n)
      BY <2>3, Unmoved
    <3> QED BY <1>3, <1>4, <1>6, <2>1, <2>2, <2>3, <3>1, <3>2, <3>3 DEF OnOther
  <2> QED BY <2>4, <2>5
<1>9. ASSUME NEW k \in Nodes PROVE Replicating(k)' => Replicating(k)
  BY <1>1, <1>2, <1>3, <1>4, <1>6 DEF Replicating, At
<1>10. OneReplicator' /\ AbortedNowhere' /\ committed \subseteq committed'
  BY <1>3, <1>9, NoneBegins, LogsStay DEF IInv, historyVars
<1> QED BY <1>5, <1>6, <1>7, <1>8, <1>10, FrameOne

----------------------------------------------------------------------------
(* The loops.                                                               *)

\* Nothing but the counter changes.
LEMMA RetryInvariant ==
    ASSUME IInv, NEW n \in Nodes, LockRetry(n) PROVE IInv'
<1>1. UNCHANGED <<confdVars, aasync_usr, nvals, pc, todo, historyVars>>
  BY DEF LockRetry
<1>2. TypeOK'
  <2>1. retries' \in [Nodes -> 0..NumLockRetries]
    BY BoundsNat DEF LockRetry, MayRetry, Counted, IInv, TypeOK
  <2> QED BY <1>1, <2>1 DEF IInv, TypeOK, confdVars, historyVars
<1>3. \A k \in Nodes : At(k)' = At(k)
  BY <1>1 DEF At, confdVars
<1>4. ASSUME NEW k \in Nodes PROVE Replicating(k)' => Replicating(k)
  BY <1>1 DEF Replicating, confdVars
<1>5. OneReplicator' /\ AbortedNowhere' /\ committed \subseteq committed'
  BY <1>1, <1>4, NoneBegins, LogsStay DEF IInv, confdVars, historyVars
<1> DEFINE S == {}
<1>6. S \in SUBSET Nodes /\ Nodes \ S = Nodes /\ ~\E k : k \in S
  OBVIOUS
<1> HIDE DEF S
<1> QED BY <1>2, <1>3, <1>5, <1>6, Frame

\* The head of the list has been dealt with.
LEMMA AdvanceEffect ==
    ASSUME TypeOK, NEW n \in Nodes, Loop(n), pc[n] # "poll",
           NEW here \in PCs, NEW next \in PCs, Advance(n, here, next)
    PROVE  /\ todo' \in [Nodes -> SUBSET Nodes] /\ pc' \in [Nodes -> PCs]
           /\ \A k \in Nodes \ {n} : todo'[k] = todo[k] /\ pc'[k] = pc[k]
           /\ todo'[n] # {} /\ n \notin todo'[n]
           /\ \/ /\ todo[n] = {Target(n)}
                 /\ todo'[n] = Nodes \ {n} /\ pc'[n] = next
              \/ /\ todo[n] # {Target(n)}
                 /\ todo'[n] = todo[n] \ {Target(n)} /\ pc'[n] = here
<1>1. todo[n] \subseteq Nodes /\ n \notin todo[n] /\ Target(n) \in todo[n]
  BY TargetIsOther DEF TypeOK, Loop
<1>2. Others(n) # {} /\ Others(n) = Nodes \ {n}
  BY OthersExist
<1>3. /\ todo' = [todo EXCEPT ![n] = IF todo[n] = {Target(n)} THEN Others(n) ELSE todo[n] \ {Target(n)}]
      /\ pc' = [pc EXCEPT ![n] = IF todo[n] = {Target(n)} THEN next ELSE here]
  BY DEF Advance
<1>4. CASE todo[n] = {Target(n)}
  BY <1>1, <1>2, <1>3, <1>4 DEF TypeOK
<1>5. CASE todo[n] # {Target(n)}
  BY <1>1, <1>3, <1>5 DEF TypeOK
<1> QED BY <1>4, <1>5

\* A node is locked; with the last one, all of them are without transactions.
LEMMA LockInvariant ==
    ASSUME IInv, NEW n \in Nodes, Lock(n) PROVE IInv'
<1> USE NoneIsNoNode
<1>1. TypeOK /\ Local(n) /\ pc[n] = "lock" /\ Advance(n, "lock", "write")
  BY DEF IInv, Locals, Lock
<1>2. PICK t \in Nodes : t = Target(n) /\ t \in todo[n] /\ t # n
  BY <1>1, TargetIsOther DEF Local
<1>3. /\ todo' \in [Nodes -> SUBSET Nodes] /\ pc' \in [Nodes -> PCs]
      /\ \A k \in Nodes \ {n} : todo'[k] = todo[k] /\ pc'[k] = pc[k]
      /\ todo'[n] # {} /\ n \notin todo'[n]
      /\ \/ todo[n] = {t} /\ todo'[n] = Nodes \ {n} /\ pc'[n] = "write"
         \/ todo[n] # {t} /\ todo'[n] = todo[n] \ {t} /\ pc'[n] = "lock"
  BY <1>1, <1>2, AdvanceEffect DEF Local, PCs
<1>4. /\ owner[t] = None /\ locked[t] = None /\ Local(t) /\ pc[t] = "poll"
      /\ locked' = [locked EXCEPT ![t] = n]
      /\ aasync_usr' = [aasync_usr EXCEPT ![t] = TRUE]
      /\ retries' = [retries EXCEPT ![n] = 0]
      /\ UNCHANGED <<log, owner, trans, phase, event, nvals, historyVars>>
  BY <1>2 DEF IInv, Locals, Lock, Lockable, FlagAfterLock
<1>5. TypeOK'
  <2>1. 0 \in 0..NumLockRetries
    BY BoundsNat
  <2>2. retries' \in [Nodes -> 0..NumLockRetries]
    BY <1>1, <1>4, <2>1 DEF TypeOK
  <2> QED BY <1>1, <1>2, <1>3, <1>4, <2>2 DEF TypeOK, historyVars
<1>6. /\ locked'[t] = n /\ aasync_usr'[t] /\ pc'[t] = "poll"
      /\ \A k \in Nodes \ {t} : locked'[k] = locked[k] /\ aasync_usr'[k] = aasync_usr[k]
      /\ UNCHANGED <<owner, trans, phase, event, nvals, committed, log>>
  BY <1>1, <1>2, <1>3, <1>4 DEF TypeOK, historyVars
<1>7. \A k \in Nodes \ {n, t} : At(k)' = At(k)
  BY <1>3, <1>6 DEF At
<1>8. Local(n)'
  BY <1>1, <1>2, <1>3, <1>6 DEF Local, Loop, Flag, Notified, Decided
<1>9. Local(t)'
  BY <1>2, <1>4, <1>6 DEF Local, Loop, Flag, Notified, Decided, Waiting
<1>10. ASSUME NEW m \in Nodes \ {n} PROVE OnOther(n, m)'
  <2>1. OnOther(n, m)
    BY DEF IInv, OnOthers
  <2>2. HasLock(n, m)' <=> m = t \/ HasLock(n, m)
    BY <1>1, <1>2, <1>3 DEF HasLock
  <2>3. ~HasTrans(n, m) /\ ~HasTrans(n, m)'
    BY <1>1, <1>3 DEF HasTrans, Waiting
  <2> QED BY <1>2, <1>6, <2>1, <2>2, <2>3 DEF OnOther
<1>11. ASSUME NEW k \in Nodes \ {n}, NEW m \in Nodes \ {k} PROVE OnOther(k, m)'
  <2>1. OnOther(k, m)
    BY DEF IInv, OnOthers
  <2>2. pc'[k] = pc[k] /\ todo'[k] = todo[k] /\ (Waiting(k)' <=> Waiting(k)) /\ trans'[k] = trans[k]
    BY <1>3, <1>6 DEF Waiting
  <2>3. locked'[m] = k <=> locked[m] = k
    BY <1>4, <1>6
  <2> QED BY <1>6, <2>1, <2>2, <2>3, OtherStays
<1>12. OneReplicator'
  <2>1. ASSUME NEW m \in Nodes, m # n, pc'[n] = "write" PROVE ~Replicating(m)'
    <3>1. m = t \/ HasLock(n, m)
      BY <1>1, <1>3, <2>1 DEF HasLock
    <3>2. HasLock(n, m) => locked[m] = n
      BY <2>1 DEF IInv, OnOthers, OnOther
    <3>3. Local(m)
      BY DEF IInv, Locals
    <3>4. owner[m] = None
      BY <1>4, <3>1, <3>2, <3>3 DEF Local, Flag
    <3> QED BY <1>3, <1>6, <2>1, <3>3, <3>4 DEF Replicating, Local, Loop
  <2>2. ASSUME NEW m \in Nodes, m # n PROVE Replicating(m)' <=> Replicating(m)
    BY <1>3, <1>6, <2>2 DEF Replicating
  <2>3. pc'[n] # "write" => ~Replicating(n)'
    BY <1>1, <1>3, <1>6 DEF Replicating, Local, Loop
  <2> QED BY <2>1, <2>2, <2>3 DEF IInv, OneReplicator
<1>13. AbortedNowhere' /\ committed \subseteq committed'
  BY <1>6, LogsStay DEF IInv
<1> QED BY <1>2, <1>5, <1>7, <1>8, <1>9, <1>10, <1>11, <1>12, <1>13, FrameTwo

\* The lock of a node is given back to have a transaction there.
LEMMA WriteInvariant ==
    ASSUME IInv, NEW n \in Nodes, Write(n) PROVE IInv'
<1> USE NoneIsNoNode
<1>1. TypeOK /\ Local(n) /\ pc[n] = "write" /\ Advance(n, "write", "prepare")
  BY DEF IInv, Locals, Write
<1>2. PICK t \in Nodes : t = Target(n) /\ t \in todo[n] /\ t # n
  BY <1>1, TargetIsOther DEF Local
<1>3. /\ todo' \in [Nodes -> SUBSET Nodes] /\ pc' \in [Nodes -> PCs]
      /\ \A k \in Nodes \ {n} : todo'[k] = todo[k] /\ pc'[k] = pc[k]
      /\ todo'[n] # {} /\ n \notin todo'[n]
      /\ \/ todo[n] = {t} /\ todo'[n] = Nodes \ {n} /\ pc'[n] = "prepare"
         \/ todo[n] # {t} /\ todo'[n] = todo[n] \ {t} /\ pc'[n] = "write"
  BY <1>1, <1>2, AdvanceEffect DEF Local, PCs
<1>4. /\ Local(t) /\ pc[t] = "poll"
      /\ owner' = [owner EXCEPT ![t] = n] /\ trans' = [trans EXCEPT ![t] = trans[n]]
      /\ phase' = [phase EXCEPT ![t] = "validated"] /\ locked' = [locked EXCEPT ![t] = None]
      /\ UNCHANGED <<log, event, aasync_usr, nvals, retries, historyVars>>
  BY <1>2 DEF IInv, Locals, Write
<1>5. locked[t] = n /\ owner[t] = None /\ phase[t] = "idle" /\ aasync_usr[t]
  <2>1. locked[t] = n
    BY <1>1, <1>2 DEF IInv, OnOthers, OnOther, HasLock
  <2> QED BY <1>4, <2>1 DEF Local, Flag
<1>6. TypeOK'
  BY <1>1, <1>2, <1>3, <1>4 DEF TypeOK, historyVars, Phases
<1>7. /\ owner'[t] = n /\ trans'[t] = trans[n] /\ phase'[t] = "validated" /\ locked'[t] = None
      /\ pc'[t] = "poll"
      /\ \A k \in Nodes \ {t} : /\ owner'[k] = owner[k] /\ trans'[k] = trans[k]
                                /\ phase'[k] = phase[k] /\ locked'[k] = locked[k]
      /\ UNCHANGED <<log, event, aasync_usr, nvals, committed>>
  BY <1>1, <1>2, <1>3, <1>4 DEF TypeOK, historyVars
<1>8. \A k \in Nodes \ {n, t} : At(k)' = At(k)
  BY <1>3, <1>7 DEF At
<1>9. Local(n)'
  BY <1>1, <1>2, <1>3, <1>7 DEF Local, Loop, Flag, Notified, Decided
<1>10. Local(t)'
  BY <1>1, <1>2, <1>4, <1>5, <1>7 DEF Local, Loop, Flag, Notified, Decided, Waiting
<1>11. ASSUME NEW m \in Nodes \ {n} PROVE OnOther(n, m)'
  <2>1. OnOther(n, m)
    BY DEF IInv, OnOthers
  <2>2. HasLock(n, m)' <=> HasLock(n, m) /\ m # t
    BY <1>1, <1>2, <1>3 DEF HasLock
  <2>3. HasTrans(n, m)' <=> HasTrans(n, m) \/ m = t
    BY <1>1, <1>2, <1>3 DEF HasTrans, Waiting
  <2>4. PhaseOn(n, m) = {"validated"} /\ PhaseOn(n, m)' = {"validated"}
    BY <1>1, <1>3 DEF PhaseOn
  <2>5. CASE m = t
    BY <1>2, <1>7, <2>2, <2>3, <2>4, <2>5 DEF OnOther
  <2>6. CASE m # t
    BY <1>2, <1>7, <2>1, <2>2, <2>3, <2>4, <2>6 DEF OnOther
  <2> QED BY <2>5, <2>6
<1>12. ASSUME NEW k \in Nodes \ {n}, NEW m \in Nodes \ {k} PROVE OnOther(k, m)'
  <2>1. OnOther(k, m)
    BY DEF IInv, OnOthers
  <2>2. pc'[k] = pc[k] /\ todo'[k] = todo[k]
    BY <1>3
  <2>3. CASE k = t
    <3>1. ~Waiting(t) /\ ~Waiting(t)' /\ pc[t] = "poll"
      BY <1>2, <1>4, <1>5, <1>7 DEF Waiting
    <3> QED BY <1>7, <2>1, <2>3, <3>1, OtherRests
  <2>4. CASE k # t
    <3>1. (Waiting(k)' <=> Waiting(k)) /\ trans'[k] = trans[k]
      BY <1>7, <2>2, <2>4 DEF Waiting
    <3>2. locked'[m] = k <=> locked[m] = k
      BY <1>5, <1>7
    <3>3. \/ owner'[m] = owner[m] /\ phase'[m] = phase[m] /\ trans'[m] = trans[m]
          \/ owner[m] # k /\ owner'[m] # k
      BY <1>5, <1>7
    <3> QED BY <2>1, <2>2, <3>1, <3>2, <3>3, OtherStays
  <2> QED BY <2>3, <2>4
<1>13. ASSUME NEW k \in Nodes PROVE Replicating(k)' => Replicating(k)
  BY <1>1, <1>2, <1>3, <1>4, <1>7 DEF Replicating
<1>14. OneReplicator' /\ AbortedNowhere' /\ committed \subseteq committed'
  BY <1>7, <1>13, NoneBegins, LogsStay DEF IInv
<1> QED BY <1>2, <1>6, <1>8, <1>9, <1>10, <1>11, <1>12, <1>14, FrameTwo

\* maapi_prepare_trans is called.
LEMMA PrepareInvariant ==
    ASSUME IInv, NEW n \in Nodes, Prepare(n) PROVE IInv'
<1> USE NoneIsNoNode
<1>1. TypeOK /\ Local(n) /\ pc[n] = "prepare"
  BY DEF IInv, Locals, Prepare
<1>2. PICK t \in Nodes : t = Target(n) /\ t \in todo[n] /\ t # n
  BY <1>1, TargetIsOther DEF Local
<1>3. /\ phase' = [phase EXCEPT ![t] = "preparing"] /\ event' = [event EXCEPT ![t] = "prepare"]
      /\ pc' = [pc EXCEPT ![n] = "prepare_wait"] /\ Local(t)
      /\ UNCHANGED <<log, owner, trans, locked, aasync_usr, nvals, todo, retries, historyVars>>
  BY <1>2 DEF IInv, Locals, Prepare
<1>4. TypeOK'
  BY <1>1, <1>3 DEF TypeOK, historyVars, Phases, Events, PCs
<1>5. owner[t] = n /\ trans[t] = trans[n] /\ phase[t] # "idle"
  BY <1>1, <1>2, <1>3 DEF IInv, OnOthers, OnOther, HasTrans, Local, Flag
<1>6. /\ phase'[t] = "preparing" /\ event'[t] = "prepare" /\ pc'[n] = "prepare_wait"
      /\ \A k \in Nodes \ {t} : phase'[k] = phase[k] /\ event'[k] = event[k]
      /\ \A k \in Nodes \ {n} : pc'[k] = pc[k]
      /\ UNCHANGED <<log, owner, trans, locked, aasync_usr, nvals, todo, committed>>
  BY <1>1, <1>2, <1>3 DEF TypeOK, historyVars
<1>7. Target(n)' = t
  BY <1>2, <1>6, SameTarget
<1>8. \A k \in Nodes \ {n, t} : At(k)' = At(k)
  BY <1>6 DEF At
<1>9. Local(n)'
  BY <1>1, <1>2, <1>6 DEF Local, Loop, Flag, Notified, Decided
<1>10. Local(t)'
  BY <1>2, <1>3, <1>5, <1>6 DEF Local, Loop, Flag, Notified, Decided, Waiting
<1>11. ASSUME NEW m \in Nodes \ {n} PROVE OnOther(n, m)'
  <2>1. OnOther(n, m)
    BY DEF IInv, OnOthers
  <2>2. ~HasLock(n, m) /\ ~HasLock(n, m)' /\ HasTrans(n, m) /\ HasTrans(n, m)'
    BY <1>1, <1>6 DEF HasLock, HasTrans
  <2>3. CASE m = t
    <3>1. "preparing" \in PhaseOn(n, t)'
      BY <1>6, <1>7 DEF PhaseOn
    <3> QED BY <1>5, <1>6, <2>1, <2>2, <2>3, <3>1 DEF OnOther
  <2>4. CASE m # t
    <3>1. PhaseOn(n, m)' = PhaseOn(n, m)
      BY <1>1, <1>2, <1>6, <1>7, <2>4 DEF PhaseOn
    <3> QED BY <1>6, <2>1, <2>2, <2>4, <3>1 DEF OnOther
  <2> QED BY <2>3, <2>4
<1>12. ASSUME NEW k \in Nodes \ {n}, NEW m \in Nodes \ {k} PROVE OnOther(k, m)'
  <2>1. OnOther(k, m)
    BY DEF IInv, OnOthers
  <2>2. pc'[k] = pc[k] /\ todo'[k] = todo[k] /\ (Waiting(k)' <=> Waiting(k)) /\ trans'[k] = trans[k]
    BY <1>2, <1>5, <1>6 DEF Waiting
  <2> QED BY <1>5, <1>6, <2>1, <2>2, OtherStays
<1>13. ASSUME NEW k \in Nodes PROVE Replicating(k)' => Replicating(k)
  BY <1>1, <1>2, <1>5, <1>6 DEF Replicating
<1>14. OneReplicator' /\ AbortedNowhere' /\ committed \subseteq committed'
  BY <1>6, <1>13, NoneBegins, LogsStay DEF IInv
<1> QED BY <1>4, <1>8, <1>9, <1>10, <1>11, <1>12, <1>14, FrameTwo

\* A node is prepared; with the last one, the manager may decide.
LEMMA PreparedInvariant ==
    ASSUME IInv, NEW n \in Nodes, Prepared(n) PROVE IInv'
<1> USE NoneIsNoNode
<1>1. TypeOK /\ Local(n) /\ pc[n] = "prepare_wait" /\ Advance(n, "prepare", "poll")
  BY DEF IInv, Locals, Prepared, AfterPrepare
<1>2. PICK t \in Nodes : t = Target(n) /\ t \in todo[n] /\ t # n
  BY <1>1, TargetIsOther DEF Local
<1>3. /\ todo' \in [Nodes -> SUBSET Nodes] /\ pc' \in [Nodes -> PCs]
      /\ \A k \in Nodes \ {n} : todo'[k] = todo[k] /\ pc'[k] = pc[k]
      /\ todo'[n] # {} /\ n \notin todo'[n]
      /\ \/ todo[n] = {t} /\ todo'[n] = Nodes \ {n} /\ pc'[n] = "poll"
         \/ todo[n] # {t} /\ todo'[n] = todo[n] \ {t} /\ pc'[n] = "prepare"
  BY <1>1, <1>2, AdvanceEffect DEF Local, PCs
<1>4. /\ phase[t] = "prepared"
      /\ phase' \in [Nodes -> Phases]
      /\ \A k \in Nodes \ {n} : phase'[k] = phase[k]
      /\ phase'[n] = IF todo[n] = {t} THEN "prepared" ELSE phase[n]
      /\ UNCHANGED <<log, owner, trans, locked, event, aasync_usr, nvals, retries, historyVars>>
  BY <1>1, <1>2 DEF Prepared, TypeOK, Phases
<1>5. TypeOK'
  BY <1>1, <1>3, <1>4 DEF TypeOK, historyVars
<1>6. owner[n] = n /\ nvals[n] /\ phase[n] = "preparing" /\ ~Waiting(n)
  BY <1>1 DEF Local, Loop, Waiting
<1>7. UNCHANGED <<log, owner, trans, locked, event, aasync_usr, nvals, committed>>
  BY <1>4 DEF historyVars
<1>8. \A k \in Nodes \ {n} : At(k)' = At(k)
  BY <1>3, <1>4, <1>7 DEF At
<1>9. Local(n)'
  BY <1>1, <1>3, <1>4, <1>6, <1>7 DEF Local, Loop, Flag, Notified, Decided
<1>10. ASSUME NEW m \in Nodes \ {n} PROVE OnOther(n, m)' /\ OnOther(m, n)'
  <2>1. OnOther(n, m) /\ OnOther(m, n)
    BY DEF IInv, OnOthers
  <2>2. ~HasLock(n, m) /\ HasTrans(n, m) /\ ~HasLock(n, m)'
    BY <1>1, <1>3 DEF HasLock, HasTrans
  <2>3. HasTrans(n, m)'
    BY <1>3, <1>4, <1>6, <1>7 DEF HasTrans, Waiting
  <2>4. phase'[m] = phase[m] /\ phase[m] \in PhaseOn(n, m)
    BY <1>4, <2>1, <2>2 DEF OnOther
  <2>5. phase'[m] \in PhaseOn(n, m)'
    <3>1. CASE m = t
      BY <1>2, <1>3, <1>4, <2>4, <3>1 DEF PhaseOn
    <3>2. CASE m # t
      BY <1>1, <1>2, <1>3, <2>4, <3>2 DEF PhaseOn
    <3> QED BY <3>1, <3>2
  <2>6. OnOther(n, m)'
    BY <1>7, <2>1, <2>2, <2>3, <2>5 DEF OnOther
  <2>7. pc'[m] = pc[m] /\ todo'[m] = todo[m] /\ (Waiting(m)' <=> Waiting(m)) /\ trans'[m] = trans[m]
    BY <1>8 DEF At, Waiting
  <2>8. OnOther(m, n)'
    BY <1>6, <1>7, <2>1, <2>7, OtherStays
  <2> QED BY <2>6, <2>8
<1>11. ASSUME NEW k \in Nodes PROVE Replicating(k)' => Replicating(k)
  BY <1>1, <1>8 DEF Replicating, At
<1>12. OneReplicator' /\ AbortedNowhere' /\ committed \subseteq committed'
  BY <1>7, <1>11, NoneBegins, LogsStay DEF IInv
<1> QED BY <1>5, <1>8, <1>9, <1>10, <1>12, FrameOne

\* What the manager of n has committed is committed on another node.
LEMMA CommitInvariant ==
    ASSUME IInv, NEW n \in Nodes, Commit(n) PROVE IInv'
<1> USE NoneIsNoNode
<1>1. TypeOK /\ Local(n) /\ pc[n] = "commit"
  BY DEF IInv, Locals, Commit
<1>2. PICK t \in Nodes : t = Target(n) /\ t \in todo[n] /\ t # n
  BY <1>1, TargetIsOther DEF Local
<1>3. /\ log' = [log EXCEPT ![t] = Append(log[t], trans[t])]
      /\ phase' = [phase EXCEPT ![t] = "committing"] /\ event' = [event EXCEPT ![t] = "commit"]
      /\ pc' = [pc EXCEPT ![n] = "commit_wait"] /\ Local(t)
      /\ UNCHANGED <<owner, trans, locked, aasync_usr, nvals, todo, retries, historyVars>>
  BY <1>2 DEF IInv, Locals, Commit
<1>4. owner[t] = n /\ trans[t] = trans[n] /\ phase[t] = "prepared"
  BY <1>1, <1>2 DEF IInv, OnOthers, OnOther, HasTrans, PhaseOn
<1>5. trans[t] \in 1..MaxTx /\ trans[t] \in committed
  BY <1>1, <1>4 DEF TypeOK, Local, Loop, Decided
<1>6. TypeOK'
  <2>1. Append(log[t], trans[t]) \in Seq(1..MaxTx)
    BY <1>1, <1>5 DEF TypeOK
  <2>2. log' \in [Nodes -> Seq(1..MaxTx)]
    BY <1>1, <1>3, <2>1 DEF TypeOK
  <2> QED BY <1>1, <1>3, <2>2 DEF TypeOK, historyVars, Phases, Events, PCs
<1>7. /\ phase'[t] = "committing" /\ event'[t] = "commit" /\ pc'[n] = "commit_wait"
      /\ \A k \in Nodes \ {t} : phase'[k] = phase[k] /\ event'[k] = event[k]
      /\ \A k \in Nodes \ {n} : pc'[k] = pc[k]
      /\ UNCHANGED <<owner, trans, locked, aasync_usr, nvals, todo, committed>>
  BY <1>1, <1>2, <1>3 DEF TypeOK, historyVars
<1>8. Target(n)' = t
  BY <1>2, <1>7, SameTarget
<1>9. \A k \in Nodes \ {n, t} : At(k)' = At(k)
  BY <1>7 DEF At
<1>10. Local(n)'
  BY <1>1, <1>2, <1>7 DEF Local, Loop, Flag, Notified, Decided
<1>11. Local(t)'
  BY <1>2, <1>3, <1>4, <1>7 DEF Local, Loop, Flag, Notified, Decided, Waiting
<1>12. ASSUME NEW m \in Nodes \ {n} PROVE OnOther(n, m)'
  <2>1. OnOther(n, m)
    BY DEF IInv, OnOthers
  <2>2. ~HasLock(n, m) /\ ~HasLock(n, m)' /\ (HasTrans(n, m)' <=> HasTrans(n, m))
    BY <1>1, <1>7 DEF HasLock, HasTrans, Waiting
  <2>3. CASE m = t
    <3>1. "committing" \in PhaseOn(n, t)' /\ HasTrans(n, t)'
      BY <1>2, <1>7, <1>8 DEF PhaseOn, HasTrans
    <3> QED BY <1>4, <1>7, <2>1, <2>2, <2>3, <3>1 DEF OnOther
  <2>4. CASE m # t
    <3>1. PhaseOn(n, m)' = PhaseOn(n, m)
      BY <1>1, <1>2, <1>7, <1>8, <2>4 DEF PhaseOn
    <3> QED BY <1>7, <2>1, <2>2, <2>4, <3>1 DEF OnOther
  <2> QED BY <2>3, <2>4
<1>13. ASSUME NEW k \in Nodes \ {n}, NEW m \in Nodes \ {k} PROVE OnOther(k, m)'
  <2>1. OnOther(k, m)
    BY DEF IInv, OnOthers
  <2>2. pc'[k] = pc[k] /\ todo'[k] = todo[k] /\ (Waiting(k)' <=> Waiting(k)) /\ trans'[k] = trans[k]
    BY <1>2, <1>4, <1>7 DEF Waiting
  <2> QED BY <1>4, <1>7, <2>1, <2>2, OtherStays
<1>14. ASSUME NEW k \in Nodes PROVE Replicating(k)' => Replicating(k)
  BY <1>1, <1>2, <1>4, <1>7 DEF Replicating
<1>15. OneReplicator'
  BY <1>14, NoneBegins DEF IInv
<1>16. AbortedNowhere' /\ committed \subseteq committed'
  BY <1>1, <1>3, <1>5, <1>7, LogGrows DEF IInv, TypeOK
<1> QED BY <1>6, <1>9, <1>10, <1>11, <1>12, <1>13, <1>15, <1>16, FrameTwo

\* The transaction on a node is over, or could not be committed; after the last
\* node that of n is over.
LEMMA DoneInvariant ==
    ASSUME IInv, NEW n \in Nodes, Finish(n) \/ CommitFails(n) PROVE IInv'
<1> USE NoneIsNoNode
<1>1. /\ TypeOK /\ Local(n) /\ pc[n] \in {"commit", "commit_wait"} /\ pc[n] # "poll"
      /\ Advance(n, "commit", "poll")
  BY DEF IInv, Locals, Finish, CommitFails, Done
<1>2. PICK t \in Nodes : t = Target(n) /\ t \in todo[n] /\ t # n
  BY <1>1, TargetIsOther DEF Local
<1>3. /\ todo' \in [Nodes -> SUBSET Nodes] /\ pc' \in [Nodes -> PCs]
      /\ \A k \in Nodes \ {n} : todo'[k] = todo[k] /\ pc'[k] = pc[k]
      /\ todo'[n] # {} /\ n \notin todo'[n]
      /\ \/ todo[n] = {t} /\ todo'[n] = Nodes \ {n} /\ pc'[n] = "poll"
         \/ todo[n] # {t} /\ todo'[n] = todo[n] \ {t} /\ pc'[n] = "commit"
  BY <1>1, <1>2, AdvanceEffect DEF Local, PCs
<1>4. owner[t] = n /\ phase[t] \in {"prepared", "committing", "committed"} /\ Local(t)
  BY <1>1, <1>2 DEF IInv, Locals, OnOthers, OnOther, HasTrans, PhaseOn
<1>5. owner[n] = n /\ nvals[n] /\ phase[n] = "committing" /\ event[n] = "none" /\ trans[n] # 0
  BY <1>1 DEF Local, Loop, Decided
<1>6. /\ phase' \in [Nodes -> Phases] /\ owner' \in [Nodes -> Nodes \cup {None}]
      /\ aasync_usr' \in [Nodes -> BOOLEAN]
      /\ UNCHANGED <<log, trans, locked, event, nvals, retries, started, committed>>
      /\ partial' = partial \/ partial' = partial \cup {trans[n]}
      /\ \A k \in Nodes \ {n, t} : /\ owner'[k] = owner[k] /\ phase'[k] = phase[k]
                                   /\ aasync_usr'[k] = aasync_usr[k]
      /\ aasync_usr'[n] = aasync_usr[n]
      /\ phase'[n] = IF todo[n] = {t} THEN "idle" ELSE "committing"
      /\ owner'[n] = IF todo[n] = {t} THEN None ELSE n
      /\ \/ phase[t] = "committed" /\ phase'[t] = "idle" /\ owner'[t] = None
         \/ phase'[t] = "closing" /\ owner'[t] = n /\ phase[t] = "prepared" /\ aasync_usr'[t] = aasync_usr[t]
  <2>1. CASE Finish(n)
    BY <1>1, <1>2, <1>5, <2>1 DEF TypeOK, Finish, Done, FlagAfterFinish, Phases
  <2>2. CASE CommitFails(n)
    <3>1. phase[t] = "prepared"
      BY <1>2, <2>2 DEF CommitFails, IInv, OnOthers, OnOther, HasTrans, PhaseOn
    <3> QED BY <1>1, <1>2, <1>4, <1>5, <2>2, <3>1 DEF TypeOK, CommitFails, Done, Phases
  <2> QED BY <2>1, <2>2
<1>7. TypeOK'
  <2>1. trans[n] \in 1..MaxTx
    BY <1>1, <1>5 DEF TypeOK
  <2> QED BY <1>1, <1>3, <1>6, <2>1 DEF TypeOK
<1>8. \A k \in Nodes \ {n, t} : At(k)' = At(k)
  BY <1>3, <1>6 DEF At
<1>9. Local(n)'
  <2>1. ~aasync_usr[n] /\ locked[n] = None
    BY <1>1, <1>5 DEF Local, Flag
  <2> QED BY <1>3, <1>5, <1>6, <2>1, <1>1 DEF Local, Loop, Flag, Notified, Decided, Waiting
<1>10. Local(t)'
  <2>1. locked[t] = None /\ pc[t] = "poll" /\ event[t] # "abort" /\ event[t] # "prepare" /\ aasync_usr[t]
    BY <1>2, <1>4 DEF Local, Loop, Flag, Notified
  <2>2. event[t] = "commit" => phase[t] = "committing"
    BY <1>4 DEF Local, Notified
  <2> QED BY <1>2, <1>3, <1>4, <1>6, <2>1, <2>2 DEF Local, Loop, Flag, Notified, Decided, Waiting
<1>11. ASSUME NEW m \in Nodes \ {n} PROVE OnOther(n, m)'
  <2>1. OnOther(n, m)
    BY DEF IInv, OnOthers
  <2>2. ~HasLock(n, m) /\ ~HasLock(n, m)'
    BY <1>1, <1>3 DEF HasLock
  <2>3. HasTrans(n, m)' <=> HasTrans(n, m) /\ m # t
    BY <1>1, <1>3, <1>6 DEF HasTrans, Waiting
  <2>4. CASE m = t
    BY <1>2, <1>6, <2>1, <2>2, <2>3, <2>4 DEF OnOther
  <2>5. CASE m # t
    <3>1. HasTrans(n, m) => PhaseOn(n, m) = {"prepared"} /\ PhaseOn(n, m)' = {"prepared"}
      BY <1>1, <1>2, <1>3, <2>3, <2>5 DEF PhaseOn
    <3> QED BY <1>6, <2>1, <2>2, <2>3, <2>5, <3>1 DEF OnOther
  <2> QED BY <2>4, <2>5
<1>12. ASSUME NEW k \in Nodes \ {n}, NEW m \in Nodes \ {k} PROVE OnOther(k, m)'
  <2>1. OnOther(k, m)
    BY DEF IInv, OnOthers
  <2>2. pc'[k] = pc[k] /\ todo'[k] = todo[k] /\ (Waiting(k)' <=> Waiting(k)) /\ trans'[k] = trans[k]
    BY <1>2, <1>3, <1>4, <1>6 DEF Waiting
  <2>3. \/ owner'[m] = owner[m] /\ phase'[m] = phase[m] /\ trans'[m] = trans[m]
        \/ owner[m] # k /\ owner'[m] # k
    BY <1>4, <1>5, <1>6
  <2> QED BY <1>6, <2>1, <2>2, <2>3, OtherStays
<1>13. ASSUME NEW k \in Nodes PROVE Replicating(k)' => Replicating(k)
  BY <1>1, <1>2, <1>3, <1>4, <1>6 DEF Replicating
<1>14. OneReplicator' /\ AbortedNowhere' /\ committed \subseteq committed'
  BY <1>6, <1>13, NoneBegins, LogsStay DEF IInv
<1> QED BY <1>7, <1>8, <1>9, <1>10, <1>11, <1>12, <1>14, FrameTwo

----------------------------------------------------------------------------
(* The theorems.                                                            *)

\* Every step keeps the invariant.
LEMMA StepInvariant == IInv /\ [Next]_vars => IInv'
<1> SUFFICES ASSUME IInv, [Next]_vars PROVE IInv'
  OBVIOUS
<1>1. CASE UNCHANGED vars
  <2>1. \A k \in Nodes : At(k)' = At(k)
    BY <1>1 DEF vars, confdVars, aasyncVars, At
  <2>2. TypeOK' /\ OneReplicator' /\ AbortedNowhere' /\ committed \subseteq committed'
    BY <1>1 DEF IInv, vars, confdVars, aasyncVars, historyVars, TypeOK, OneReplicator, Replicating,
                AbortedNowhere
  <2>3. Locals'
    BY <2>1, <2>2, LocalStays DEF IInv, Locals
  <2>4. OnOthers'
    BY <2>1, PairStays DEF IInv, OnOthers
  <2> QED BY <2>2, <2>3, <2>4 DEF IInv
<1>2. ASSUME NEW n \in Nodes, ManagerNext(n) PROVE IInv'
  BY <1>2, StartInvariant, DecisionInvariant DEF ManagerNext
<1>3. ASSUME NEW n \in Nodes, ReceivePrepare(n) \/ ReceiveCommit(n) PROVE IInv'
  BY <1>3, PassedOnInvariant, TakenUpInvariant, CommitsInvariant, NotReplicatedInvariant,
     CommittedHereInvariant
<1>4. ASSUME NEW n \in Nodes, AASyncNext(n) \/ FaultNext(n) PROVE IInv'
  BY <1>3, <1>4, GivesUpInvariant, SessionClosedInvariant, LockInvariant, RetryInvariant,
     WriteInvariant, PrepareInvariant, PreparedInvariant, CommitInvariant, DoneInvariant
     DEF AASyncNext, FaultNext
<1> QED BY <1>1, <1>2, <1>4 DEF Next

\* In every behaviour, the invariant holds.
THEOREM Invariance == Spec => []IInv
  BY InitInvariant, StepInvariant, PTL DEF Spec

\* For any number of nodes, transactions and retries: the variables keep their types; a
\* lock is tried no more than NumLockRetries times (global_lock).
THEOREM TypeCorrect == Spec => []TypeOK
<1>1. IInv => TypeOK
  BY DEF IInv
<1> QED BY <1>1, Invariance, PTL

\* For any number of nodes, transactions and retries, and whichever calls fail: at most one
\* synchronizer has locked all other nodes and not finished its transaction, even while
\* it commits and the first nodes are free again (global_lock, t_lock).
THEOREM OneAtATime == Spec => []OneReplicator
<1>1. IInv => OneReplicator
  BY DEF IInv
<1> QED BY <1>1, Invariance, PTL

\* For any number of nodes: a synchronizer never replicates what another one is
\* replicating to its node (global_lock, t_finish).
THEOREM NeverEchoes == Spec => []NoEcho
<1>1. IInv => NoEcho
  BY DEF IInv, Locals, Local, Loop, NoEcho
<1> QED BY <1>1, Invariance, PTL

\* For any number of nodes: nothing is committed on a node that the manager where it
\* started has not committed (CDB_SUB_COMMIT).
THEOREM OnlyCommitted == Spec => []AbortedNowhere
<1>1. IInv => AbortedNowhere
  BY DEF IInv
<1> QED BY <1>1, Invariance, PTL
----------------------------------------------------------------------------
(* The order of the transactions.                                           *)

\* The transaction of n is committed by its manager, and not on all nodes yet.
Committing(n) == owner[n] = n /\ nvals[n] /\ phase[n] = "committing"

\* The nodes on which it is still to be committed.
Pending(n) ==
    CASE pc[n] = "commit" -> todo[n]
      [] pc[n] = "commit_wait" -> todo[n] \ {Target(n)}
      [] OTHER -> Others(n)

\* A transaction of a manager is younger than all that its node has.
Youngest(n) ==
    /\ trans[n] <= started /\ \A x \in On(n) : x <= started
    /\ owner[n] = n /\ phase[n] # "committing" =>
         trans[n] \notin committed /\ \A x \in On(n) : x < trans[n]
    /\ owner[n] = n /\ phase[n] = "committing" =>
         trans[n] \in On(n) /\ \A x \in On(n) : x <= trans[n]
    /\ owner[n] = n /\ phase[n] \in {"prepared", "committing"} /\ ~nvals[n] => trans[n] \in partial

\* The transactions of different managers differ.
Distinct ==
    /\ \A x \in committed : x <= started
    /\ \A k, n \in Nodes : owner[k] = k /\ owner[n] = n /\ trans[k] = trans[n] => k = n

\* A transaction is on some nodes only while it is being committed.
Spreading ==
    /\ \A k, n \in Nodes : Committing(k) /\ n \in Pending(k) => trans[k] \notin On(n)
    /\ \A m, n \in Nodes : \A t \in On(m) \ partial :
         t \in On(n) \/ \E k \in Nodes : Committing(k) /\ trans[k] = t /\ n \in Pending(k)

\* What replicated transactions a node has, it has in the order of their starts.
Sorted ==
    \A n \in Nodes : \A i, j \in DOMAIN log[n] :
        i < j /\ Replicated(log[n][i]) /\ Replicated(log[n][j]) => log[n][i] < log[n][j]

Order == (\A n \in Nodes : Youngest(n)) /\ Distinct /\ Spreading /\ Sorted

\* What a step that commits nothing has to keep of a node.
Keeps(k) ==
    /\ trans'[k] <= started
    /\ owner'[k] = k =>
         /\ owner[k] = k /\ trans'[k] = trans[k]
         /\ phase'[k] = "committing" <=> phase[k] = "committing"
         /\ phase'[k] \in {"prepared", "committing"} /\ ~nvals'[k] => trans[k] \in partial'
    /\ Committing(k)' => Committing(k) /\ Pending(k)' \subseteq Pending(k)
    /\ Committing(k) => \/ Committing(k)' /\ Pending(k)' = Pending(k)
                        \/ trans[k] \in partial' \/ Pending(k) = {}

\* A node on whose transaction nothing happens.
LEMMA StillKeeps ==
    ASSUME NEW k \in Nodes, Youngest(k), partial \subseteq partial',
           owner'[k] = owner[k], trans'[k] = trans[k], phase'[k] = phase[k],
           nvals'[k] = nvals[k], pc'[k] = pc[k], todo'[k] = todo[k]
    PROVE  Keeps(k)
<1>1. Pending(k)' = Pending(k) /\ (Committing(k)' <=> Committing(k))
  BY SameTarget DEF Pending, Committing
<1> QED BY <1>1 DEF Keeps, Youngest

\* A node whose manager is not committing.
LEMMA RestKeeps ==
    ASSUME NEW k \in Nodes, trans'[k] <= started, ~Committing(k),
           owner'[k] = k => /\ owner[k] = k /\ trans'[k] = trans[k]
                            /\ phase[k] # "committing" /\ phase'[k] # "committing"
                            /\ phase'[k] = "prepared" /\ ~nvals'[k] => trans[k] \in partial'
    PROVE  Keeps(k)
  BY DEF Keeps, Committing

\* A step that commits nothing keeps the order.
LEMMA QuietOrder ==
    ASSUME Order, UNCHANGED <<log, committed, started>>, partial \subseteq partial',
           \A k \in Nodes : Keeps(k)
    PROVE  Order'
<1>1. \A n \in Nodes : On(n)' = On(n)
  BY DEF On
<1>2. ASSUME NEW n \in Nodes PROVE Youngest(n)'
  <2>1. Youngest(n) /\ Keeps(n)
    BY DEF Order
  <2> QED BY <1>1, <2>1 DEF Youngest, Keeps
<1>3. Distinct'
  BY DEF Order, Distinct, Keeps
<1>4. ASSUME NEW k \in Nodes, NEW n \in Nodes, Committing(k)', n \in Pending(k)'
      PROVE  trans'[k] \notin On(n)'
  <2>1. Committing(k) /\ n \in Pending(k) /\ trans'[k] = trans[k]
    BY <1>4 DEF Keeps, Committing
  <2> QED BY <1>1, <2>1 DEF Order, Spreading
<1>5. ASSUME NEW m \in Nodes, NEW n \in Nodes, NEW t \in On(m)', t \notin partial', t \notin On(n)'
      PROVE  \E k \in Nodes : Committing(k)' /\ trans'[k] = t /\ n \in Pending(k)'
  <2>1. PICK k \in Nodes : Committing(k) /\ trans[k] = t /\ n \in Pending(k)
    BY <1>1, <1>5 DEF Order, Spreading
  <2>2. Committing(k)' /\ Pending(k)' = Pending(k)
    BY <1>5, <2>1 DEF Keeps
  <2>3. trans'[k] = t
    BY <2>1, <2>2 DEF Keeps, Committing
  <2> QED BY <2>1, <2>2, <2>3
<1>6. Spreading'
  BY <1>4, <1>5 DEF Spreading
<1>7. Sorted'
  BY DEF Order, Sorted, Replicated
<1> QED BY <1>2, <1>3, <1>6, <1>7 DEF Order

\* A transaction comes to the log of a node.
LEMMA OnGrows ==
    ASSUME TypeOK, NEW n \in Nodes, NEW x \in 1..MaxTx, partial' = partial,
           log'[n] = Append(log[n], x), \A k \in Nodes \ {n} : log'[k] = log[k]
    PROVE  /\ On(n)' = On(n) \cup {x}
           /\ \A k \in Nodes \ {n} : On(k)' = On(k)
           /\ Sorted /\ (x \notin partial => \A y \in On(n) \ partial : y < x) => Sorted'
<1>1. PICK l \in Seq(1..MaxTx) : l = log[n]
  BY DEF TypeOK
<1>2. log'[n] = Append(l, x) /\ \A k \in Nodes \ {n} : log'[k] = log[k]
  BY <1>1
<1>3. /\ Len(l) \in Nat /\ DOMAIN l = 1..Len(l) /\ DOMAIN Append(l, x) = 1..(Len(l) + 1)
      /\ Append(l, x)[Len(l) + 1] = x /\ \A i \in 1..Len(l) : Append(l, x)[i] = l[i]
  BY ONLY l \in Seq(1..MaxTx), x \in 1..MaxTx
<1>4. On(n)' = On(n) \cup {x}
  <2>1. PICK m : m = Append(l, x)
    OBVIOUS
  <2>2. /\ DOMAIN m = DOMAIN l \cup {Len(l) + 1} /\ m[Len(l) + 1] = x
        /\ \A i \in DOMAIN l : m[i] = l[i]
    BY ONLY <1>3, <2>1, SMT
  <2>3. {m[i] : i \in DOMAIN m} = {l[i] : i \in DOMAIN l} \cup {x}
    BY ONLY <2>2
  <2>4. On(n) = {l[i] : i \in DOMAIN l} /\ On(n)' = {m[i] : i \in DOMAIN m}
    BY <1>1, <1>2, <2>1 DEF On
  <2> QED BY ONLY <2>3, <2>4
<1>5. \A k \in Nodes \ {n} : On(k)' = On(k)
  BY <1>2 DEF On
<1>6. ASSUME Sorted, x \notin partial => \A y \in On(n) \ partial : y < x PROVE Sorted'
  <2> SUFFICES ASSUME NEW k \in Nodes, NEW i \in DOMAIN log'[k], NEW j \in DOMAIN log'[k], i < j,
                      log'[k][i] \notin partial, log'[k][j] \notin partial
               PROVE  log'[k][i] < log'[k][j]
    BY DEF Sorted, Replicated
  <2>1. CASE k # n
    BY <1>2, <1>6, <2>1 DEF Sorted, Replicated
  <2>2. CASE k = n
    <3>1. i \in 1..(Len(l) + 1) /\ j \in 1..(Len(l) + 1)
      BY <1>2, <1>3, <2>2
    <3>2. i \in 1..Len(l) /\ log'[n][i] = l[i]
      BY <1>2, <1>3, <3>1
    <3>3. CASE j = Len(l) + 1
      <4>1. log'[n][j] = x /\ x \notin partial /\ l[i] \notin partial
        BY <1>2, <1>3, <2>2, <3>2, <3>3 DEF Replicated
      <4>2. l[i] \in On(n)
        BY <1>1, <1>3, <3>2 DEF On
      <4> QED BY <1>6, <2>2, <3>2, <4>1, <4>2
    <3>4. CASE j # Len(l) + 1
      <4>1. j \in 1..Len(l) /\ log'[n][j] = l[j]
        BY <1>2, <1>3, <3>1, <3>4
      <4> QED BY <1>1, <1>3, <1>6, <2>2, <3>2, <4>1 DEF Sorted, Replicated
    <3> QED BY <3>3, <3>4
  <2> QED BY <2>1, <2>2
<1> QED BY <1>4, <1>5, <1>6

\* Transactions are numbers.
LEMMA OnNumbers == ASSUME TypeOK, NEW k \in Nodes PROVE \A x \in On(k) : x \in 1..MaxTx /\ x \in Nat
<1>1. PICK l \in Seq(1..MaxTx) : l = log[k]
  BY DEF TypeOK
<1>2. \A S : l \in Seq(S) => \A i \in DOMAIN l : l[i] \in S
  OBVIOUS
<1> QED BY <1>1, <1>2, BoundsNat DEF On

\* A transaction starts: it is younger than all others.
LEMMA StartOrder ==
    ASSUME IInv, Order, NEW n \in Nodes, StartTransaction(n) PROVE Order'
<1> USE NoneIsNoNode
<1>1. /\ owner[n] = None /\ owner'[n] = n /\ phase'[n] = "preparing" /\ trans'[n] = started + 1
      /\ started' = started + 1 /\ started \in Nat
      /\ \A k \in Nodes \ {n} : At(k)' = At(k)
      /\ UNCHANGED <<log, committed, partial>>
  BY BoundsNat DEF IInv, TypeOK, StartTransaction, aasyncVars, At
<1>2. \A k \in Nodes : On(k)' = On(k)
  BY <1>1 DEF On
<1>3. ASSUME NEW k \in Nodes \ {n}
      PROVE  /\ owner'[k] = owner[k] /\ trans'[k] = trans[k] /\ phase'[k] = phase[k]
             /\ nvals'[k] = nvals[k] /\ pc'[k] = pc[k] /\ todo'[k] = todo[k]
             /\ Pending(k)' = Pending(k) /\ (Committing(k)' <=> Committing(k))
  <2>1. /\ owner'[k] = owner[k] /\ trans'[k] = trans[k] /\ phase'[k] = phase[k]
        /\ nvals'[k] = nvals[k] /\ pc'[k] = pc[k] /\ todo'[k] = todo[k]
    BY <1>1 DEF At
  <2> QED BY <2>1, SameTarget DEF Pending, Committing
<1>4. ASSUME NEW k \in Nodes
      PROVE  trans[k] \in Nat /\ trans[k] <= started /\ \A x \in On(k) : x \in Nat /\ x <= started
  <2>1. Youngest(k)
    BY DEF Order
  <2>2. trans[k] \in Nat
    BY BoundsNat DEF IInv, TypeOK
  <2> QED BY <2>1, <2>2, OnNumbers DEF Youngest, IInv
<1>5. \A x \in committed : x \in Nat /\ x <= started
  BY DEF Order, Distinct, IInv, TypeOK
<1>6. ASSUME NEW k \in Nodes PROVE Youngest(k)'
  <2>1. CASE k = n
    BY <1>1, <1>2, <1>4, <1>5, <2>1 DEF Youngest
  <2>2. CASE k # n
    <3>1. Youngest(k)
      BY DEF Order
    <3> QED BY <1>1, <1>2, <1>3, <1>4, <2>2, <3>1 DEF Youngest
  <2> QED BY <2>1, <2>2
<1>7. Distinct'
  <2>1. \A k \in Nodes \ {n} : owner'[k] = owner[k] /\ trans'[k] = trans[k] /\ trans[k] # started + 1
    BY <1>1, <1>3, <1>4
  <2> QED BY <1>1, <1>5, <2>1 DEF Order, Distinct
<1>8. ~Committing(n) /\ ~Committing(n)'
  BY <1>1 DEF Committing
<1>9. Spreading'
  <2>1. \A k \in Nodes : Committing(k)' <=> Committing(k)
    BY <1>3, <1>8
  <2>2. \A k \in Nodes : Committing(k) => trans'[k] = trans[k] /\ Pending(k)' = Pending(k)
    BY <1>3, <1>8
  <2> QED BY <1>1, <1>2, <2>1, <2>2 DEF Order, Spreading
<1>10. Sorted'
  BY <1>1 DEF Order, Sorted, Replicated
<1> QED BY <1>6, <1>7, <1>9, <1>10 DEF Order

\* A manager commits: its transaction comes after all that its node has, and no other
\* node has it.
LEMMA DecisionOrder ==
    ASSUME IInv, Order, NEW n \in Nodes, ManagerCommit(n) PROVE Order'
<1> USE NoneIsNoNode
<1>1. /\ owner[n] = n /\ phase[n] = "prepared" /\ phase'[n] = "committing" /\ pc[n] = "poll"
      /\ \A k \in Nodes \ {n} : phase'[k] = phase[k]
      /\ log'[n] = Append(log[n], trans[n]) /\ \A k \in Nodes \ {n} : log'[k] = log[k]
      /\ committed' = committed \cup {trans[n]}
      /\ UNCHANGED <<owner, trans, nvals, pc, todo, started, partial>>
  <2>1. Loop(n)
    BY DEF IInv, Locals, Local
  <2>2. owner[n] = n /\ phase[n] = "prepared"
    BY DEF ManagerCommit
  <2>3. pc[n] = "poll"
    BY <2>1, <2>2 DEF Loop
  <2> QED BY <2>2, <2>3 DEF IInv, TypeOK, ManagerCommit, aasyncVars
<1>2. trans[n] \in 1..MaxTx /\ trans[n] <= started
  BY <1>1 DEF IInv, TypeOK, Locals, Local, Decided, Order, Youngest
<1>3. trans[n] \notin committed /\ \A x \in On(n) : x < trans[n]
  BY <1>1 DEF Order, Youngest
<1>4. /\ On(n)' = On(n) \cup {trans[n]} /\ Sorted'
      /\ \A k \in Nodes \ {n} : On(k)' = On(k)
  <2>1. TypeOK /\ Sorted /\ partial' = partial /\ trans[n] \in 1..MaxTx
    BY <1>1, <1>2 DEF IInv, Order
  <2>2. \A y \in On(n) \ partial : y < trans[n]
    BY <1>3
  <2>3. log'[n] = Append(log[n], trans[n]) /\ \A k \in Nodes \ {n} : log'[k] = log[k]
    BY <1>1
  <2> QED BY ONLY n \in Nodes, <2>1, <2>2, <2>3, OnGrows
<1>5. ASSUME NEW k \in Nodes PROVE Pending(k)' = Pending(k)
  BY <1>1, SameTarget DEF Pending, Others
<1>6. Pending(n) = Nodes \ {n} /\ ~Committing(n)
  BY <1>1 DEF Pending, Others, Committing
<1>7. \A k \in Nodes \ {n} : Committing(k)' <=> Committing(k)
  BY <1>1 DEF Committing
<1>8. nvals[n] \/ trans[n] \in partial
  BY <1>1 DEF Order, Youngest
<1>9. ASSUME NEW k \in Nodes PROVE Youngest(k)'
  <2>1. Youngest(k)
    BY DEF Order
  <2>2. CASE k = n
    <3>1. \A x \in On(n) : x \in Nat /\ x <= started
      BY <2>1, <2>2, OnNumbers DEF Youngest, IInv
    <3>2. \A x \in On(n)' : x <= trans[n] /\ x <= started
      BY <1>2, <1>3, <1>4, <3>1
    <3> QED BY <1>1, <1>2, <1>4, <1>8, <2>2, <3>2 DEF Youngest
  <2>3. CASE k # n
    <3>1. owner[k] = k => trans[k] # trans[n]
      BY <1>1, <2>3 DEF Order, Distinct
    <3> QED BY <1>1, <1>4, <2>1, <2>3, <3>1 DEF Youngest
  <2> QED BY <2>2, <2>3
<1>10. Distinct'
  BY <1>1, <1>2 DEF Order, Distinct
<1>11. ASSUME NEW k \in Nodes, NEW m \in Nodes, Committing(k)', m \in Pending(k)'
       PROVE  trans'[k] \notin On(m)'
  <2>1. CASE k = n
    <3>1. m # n /\ On(m)' = On(m) /\ trans'[k] = trans[n]
      BY <1>1, <1>4, <1>5, <1>6, <1>11, <2>1
    <3>2. On(m) \subseteq committed
      BY DEF IInv, AbortedNowhere, On
    <3> QED BY <1>3, <3>1, <3>2
  <2>2. CASE k # n
    <3>1. trans[k] \notin On(m) /\ trans'[k] = trans[k]
      BY <1>1, <1>5, <1>7, <1>11, <2>2 DEF Order, Spreading
    <3>2. trans[k] # trans[n]
      BY <1>1, <1>7, <1>11, <2>2 DEF Order, Distinct, Committing
    <3> QED BY <1>4, <3>1, <3>2
  <2> QED BY <2>1, <2>2
<1>12. ASSUME NEW k \in Nodes, NEW m \in Nodes, NEW t \in On(k)', t \notin partial, t \notin On(m)'
       PROVE  \E h \in Nodes : Committing(h)' /\ trans'[h] = t /\ m \in Pending(h)'
  <2>1. CASE t = trans[n]
    <3>1. m # n /\ nvals[n]
      BY <1>4, <1>8, <1>12, <2>1
    <3>2. Committing(n)' /\ trans'[n] = t /\ m \in Pending(n)'
      BY <1>1, <1>5, <1>6, <2>1, <3>1 DEF Committing
    <3> QED BY <3>2
  <2>2. CASE t # trans[n]
    <3>1. t \in On(k) /\ t \notin On(m)
      BY <1>4, <1>12, <2>2
    <3>2. PICK h \in Nodes : Committing(h) /\ trans[h] = t /\ m \in Pending(h)
      BY <1>12, <3>1 DEF Order, Spreading
    <3>3. Committing(h)' /\ trans'[h] = t /\ m \in Pending(h)'
      BY <1>1, <1>5, <1>6, <1>7, <3>2
    <3> QED BY <3>3
  <2> QED BY <2>1, <2>2
<1>13. Spreading'
  BY <1>1, <1>11, <1>12 DEF Spreading
<1> QED BY <1>4, <1>9, <1>10, <1>13 DEF Order

\* Only one transaction is being committed on the other nodes.
LEMMA OneCommitting ==
    ASSUME IInv, NEW k \in Nodes, NEW n \in Nodes, Committing(k), Committing(n) PROVE k = n
<1>1. ASSUME NEW h \in Nodes, Committing(h) PROVE Replicating(h)
  BY <1>1 DEF Committing, Replicating
<1> QED BY <1>1 DEF IInv, OneReplicator

\* A transaction is committed on another node: that node has all that were started
\* before it, and not this one.
LEMMA CommitOrder ==
    ASSUME IInv, Order, NEW n \in Nodes, Commit(n) PROVE Order'
<1> USE NoneIsNoNode
<1>1. TypeOK /\ Local(n) /\ pc[n] = "commit"
  BY DEF IInv, Locals, Commit
<1>2. PICK t \in Nodes : t = Target(n) /\ t \in todo[n] /\ t # n
  BY <1>1, TargetIsOther DEF Local
<1>3. owner[n] = n /\ nvals[n] /\ phase[n] = "committing" /\ n \notin todo[n] /\ trans[n] \in 1..MaxTx
  BY <1>1 DEF TypeOK, Local, Loop, Decided
<1>4. owner[t] = n /\ trans[t] = trans[n]
  BY <1>1, <1>2 DEF IInv, OnOthers, OnOther, HasTrans
<1>5. /\ log'[t] = Append(log[t], trans[n]) /\ \A k \in Nodes \ {t} : log'[k] = log[k]
      /\ \A k \in Nodes \ {t} : phase'[k] = phase[k]
      /\ pc'[n] = "commit_wait" /\ \A k \in Nodes \ {n} : pc'[k] = pc[k]
      /\ UNCHANGED <<owner, trans, nvals, todo, started, committed, partial>>
  BY <1>1, <1>2, <1>4 DEF TypeOK, Commit, historyVars
<1>6. /\ Committing(n) /\ Pending(n) = todo[n] /\ t \in Pending(n) /\ n \notin Pending(n)
      /\ Committing(n)' /\ Pending(n)' = Pending(n) \ {t}
  BY <1>1, <1>2, <1>3, <1>5, SameTarget DEF Committing, Pending
<1>7. ASSUME NEW k \in Nodes \ {n}
      PROVE  ~Committing(k) /\ ~Committing(k)'
  <2>1. ~Committing(k)
    BY <1>6, OneCommitting
  <2>2. CASE k = t
    BY <1>4, <1>5, <2>1, <2>2 DEF Committing
  <2>3. CASE k # t
    BY <1>5, <2>1, <2>3 DEF Committing
  <2> QED BY <2>1, <2>2, <2>3
<1>8. trans[n] \notin On(t) /\ \A x \in On(n) : x \in Nat /\ x <= trans[n]
  <2>1. Youngest(n)
    BY DEF Order
  <2> QED BY <1>1, <1>3, <1>6, <2>1, OnNumbers DEF Order, Spreading, Youngest
<1>9. \A y \in On(t) \ partial : y \in Nat /\ y < trans[n]
  <2>1. ASSUME NEW y \in On(t) \ partial PROVE y \in On(n)
    <3>1. y \in On(n) \/ \E k \in Nodes : Committing(k) /\ trans[k] = y /\ n \in Pending(k)
      BY DEF Order, Spreading
    <3> QED BY <1>6, <1>7, <3>1
  <2> QED BY <1>3, <1>8, <2>1
<1>10. /\ On(t)' = On(t) \cup {trans[n]} /\ Sorted'
       /\ \A k \in Nodes \ {t} : On(k)' = On(k)
  <2>1. TypeOK /\ Sorted /\ partial' = partial /\ trans[n] \in 1..MaxTx
    BY <1>1, <1>3, <1>5 DEF Order
  <2>2. \A y \in On(t) \ partial : y < trans[n]
    BY <1>9
  <2>3. log'[t] = Append(log[t], trans[n]) /\ \A k \in Nodes \ {t} : log'[k] = log[k]
    BY <1>5
  <2> QED BY ONLY t \in Nodes, <2>1, <2>2, <2>3, OnGrows
<1>11. ASSUME NEW k \in Nodes PROVE Youngest(k)'
  <2>1. Youngest(k) /\ Youngest(n)
    BY DEF Order
  <2>2. CASE k = t
    BY <1>2, <1>4, <1>5, <1>10, <2>1, <2>2 DEF Youngest
  <2>3. CASE k # t
    BY <1>5, <1>10, <2>1, <2>3 DEF Youngest
  <2> QED BY <2>2, <2>3
<1>12. Distinct'
  BY <1>5 DEF Order, Distinct
<1>13. ASSUME NEW k \in Nodes, NEW m \in Nodes, Committing(k)', m \in Pending(k)'
       PROVE  trans'[k] \notin On(m)'
  <2>1. k = n /\ m # t /\ m \in Pending(n)
    BY <1>6, <1>7, <1>13
  <2> QED BY <1>5, <1>6, <1>10, <2>1 DEF Order, Spreading
<1>14. ASSUME NEW k \in Nodes, NEW m \in Nodes, NEW x \in On(k)', x \notin partial, x \notin On(m)'
       PROVE  \E h \in Nodes : Committing(h)' /\ trans'[h] = x /\ m \in Pending(h)'
  <2>1. CASE x \in On(k)
    <3>1. x \notin On(m) /\ (m = t => x # trans[n])
      BY <1>10, <1>14
    <3>2. PICK h \in Nodes : Committing(h) /\ trans[h] = x /\ m \in Pending(h)
      BY <1>14, <2>1, <3>1 DEF Order, Spreading
    <3>3. h = n /\ m # t
      BY <1>7, <3>1, <3>2
    <3> QED BY <1>5, <1>6, <3>2, <3>3
  <2>2. CASE x \notin On(k)
    <3>1. x = trans[n] /\ m # t /\ x \notin On(m)
      BY <1>10, <1>14, <2>2
    <3>2. x \in On(n)
      BY <1>3, <3>1 DEF Order, Youngest
    <3>3. PICK h \in Nodes : Committing(h) /\ trans[h] = x /\ m \in Pending(h)
      BY <1>14, <3>1, <3>2 DEF Order, Spreading
    <3>4. h = n
      BY <1>7, <3>3
    <3> QED BY <1>5, <1>6, <3>1, <3>3, <3>4
  <2> QED BY <2>1, <2>2
<1>15. Spreading'
  BY <1>5, <1>13, <1>14 DEF Spreading
<1> QED BY <1>10, <1>11, <1>12, <1>15 DEF Order----------------------------------------------------------------------------
(* The steps that commit nothing.                                           *)

\* Such a step about one node.
LEMMA QuietOne ==
    ASSUME Order, UNCHANGED <<log, committed, started>>, partial \subseteq partial',
           NEW n \in Nodes, Keeps(n), \A k \in Nodes \ {n} : At(k)' = At(k)
    PROVE  Order'
<1>1. ASSUME NEW k \in Nodes, k # n PROVE Keeps(k)
  <2>1. /\ owner'[k] = owner[k] /\ trans'[k] = trans[k] /\ phase'[k] = phase[k]
        /\ nvals'[k] = nvals[k] /\ pc'[k] = pc[k] /\ todo'[k] = todo[k]
    BY <1>1 DEF At
  <2> QED BY <2>1, StillKeeps DEF Order
<1> QED BY <1>1, QuietOrder

\* The notifications, the abort of a manager and the end of a session.
LEMMA NotifiedOrder ==
    ASSUME IInv, Order, NEW n \in Nodes,
           ManagerAbort(n) \/ ReceivePrepare(n) \/ ReceiveCommit(n) \/ SessionClosed(n)
    PROVE  Order'
<1> USE NoneIsNoNode
<1>1. TypeOK /\ Local(n) /\ Youngest(n)
  BY DEF IInv, Locals, Order
<1>2. CASE ManagerAbort(n)
  <2>1. /\ phase[n] = "prepared" /\ phase'[n] = "closing" /\ \A k \in Nodes \ {n} : At(k)' = At(k)
        /\ UNCHANGED <<owner, trans, log, committed, started, partial>>
    BY <1>1, <1>2 DEF TypeOK, ManagerAbort, aasyncVars, historyVars, At
  <2>2. Keeps(n)
    BY <1>1, <2>1, RestKeeps DEF Youngest, Committing
  <2> QED BY <2>1, <2>2, QuietOne
<1>3. CASE SessionClosed(n)
  <2>1. /\ owner[n] # n /\ owner'[n] = None /\ \A k \in Nodes \ {n} : At(k)' = At(k)
        /\ UNCHANGED <<trans, log, committed, started, partial>>
    BY <1>1, <1>3 DEF TypeOK, SessionClosed, historyVars, At
  <2>2. Keeps(n)
    BY <1>1, <2>1, RestKeeps DEF Youngest, Committing
  <2> QED BY <2>1, <2>2, QuietOne
<1>4. CASE ReceivePrepare(n)
  <2>1. phase[n] = "preparing"
    BY <1>1, <1>4 DEF ReceivePrepare, Local, Notified
  <2>2. /\ UNCHANGED <<owner, trans, log, committed, started>> /\ partial \subseteq partial'
        /\ \A k \in Nodes \ {n} : At(k)' = At(k)
        /\ \/ phase'[n] = "preparing"
           \/ phase'[n] = "prepared" /\ (owner[n] = n => trans[n] \in partial')
    BY <1>1, <1>4, <2>1 DEF TypeOK, ReceivePrepare, At
  <2>3. Keeps(n)
    BY <1>1, <2>1, <2>2, RestKeeps DEF Youngest, Committing
  <2> QED BY <2>2, <2>3, QuietOne
<1>5. CASE ReceiveCommit(n)
  <2>1. pc[n] = "poll" /\ phase[n] = "committing"
    BY <1>1, <1>5 DEF ReceiveCommit, Local, Notified
  <2>2. /\ UNCHANGED <<trans, nvals, log, committed, started, partial>>
        /\ \A k \in Nodes \ {n} : At(k)' = At(k)
    BY <1>1, <1>5 DEF TypeOK, ReceiveCommit, historyVars, At
  <2>3. CASE nvals[n] /\ ~aasync_usr[n]
    <3>1. /\ pc'[n] = "commit" /\ todo'[n] = Others(n) /\ owner'[n] = owner[n] /\ phase'[n] = phase[n]
      BY <1>1, <1>5, <2>3 DEF TypeOK, ReceiveCommit
    <3>2. Pending(n)' = Pending(n) /\ (Committing(n)' <=> Committing(n))
      BY <2>1, <2>2, <3>1 DEF Pending, Committing
    <3>3. Keeps(n)
      BY <1>1, <2>2, <3>1, <3>2 DEF Keeps, Youngest
    <3> QED BY <2>2, <3>3, QuietOne
  <2>4. CASE ~(nvals[n] /\ ~aasync_usr[n])
    <3>1. owner'[n] # n
      BY <1>1, <1>5, <2>4 DEF TypeOK, ReceiveCommit
    <3>2. ~Committing(n)
      BY <1>1, <2>1, <2>4 DEF Committing, Local, Flag, Waiting
    <3>3. Keeps(n)
      BY <1>1, <2>2, <3>1, <3>2, RestKeeps DEF Youngest
    <3> QED BY <2>2, <3>3, QuietOne
  <2> QED BY <2>3, <2>4
<1> QED BY <1>2, <1>3, <1>4, <1>5

\* A synchronizer gives up.
LEMMA GivesUpOrder ==
    ASSUME IInv, Order, NEW n \in Nodes,
           ConnectFails(n) \/ LockFails(n) \/ WriteFails(n) \/ PrepareFails(n) \/ ReceiveAbort(n)
    PROVE  Order'
<1> USE NoneIsNoNode
<1>1. TypeOK /\ Local(n)
  BY DEF IInv, Locals
<1>2. /\ owner[n] = n /\ phase[n] # "committing" /\ CloseSessions(n)
      /\ pc' = [pc EXCEPT ![n] = "poll"] /\ UNCHANGED <<nvals, todo, historyVars>>
  <2>1. CASE ReceiveAbort(n)
    BY <1>1, <2>1 DEF ReceiveAbort, Local, Notified, TypeOK, aasyncVars
  <2>2. CASE pc[n] \in {"lock", "write", "prepare_wait"} /\ AbortLocalTrans(n)
    BY <1>1, <2>2 DEF AbortLocalTrans, Local, Loop
  <2> QED BY <2>1, <2>2 DEF ConnectFails, LockFails, WriteFails, PrepareFails
<1>3. owner'[n] = None /\ UNCHANGED <<log, trans, committed, started, partial>>
  BY <1>1, <1>2 DEF TypeOK, CloseSessions, historyVars
<1>4. ASSUME NEW m \in Nodes, m # n
      PROVE  /\ owner'[m] = owner[m] /\ pc'[m] = pc[m]
             /\ phase'[m] = IF owner[m] = n THEN "closing" ELSE phase[m]
  BY <1>1, <1>2, <1>4 DEF TypeOK, CloseSessions, Sessions, Others
<1>5. ASSUME NEW k \in Nodes PROVE Keeps(k)
  <2>1. Youngest(k)
    BY DEF Order
  <2>2. CASE k = n
    BY <1>2, <1>3, <2>1, <2>2, RestKeeps DEF Youngest, Committing
  <2>3. CASE k # n /\ owner[k] = n
    BY <1>3, <1>4, <2>1, <2>3, RestKeeps DEF Youngest, Committing
  <2>4. CASE k # n /\ owner[k] # n
    BY <1>2, <1>3, <1>4, <2>1, <2>4, StillKeeps
  <2> QED BY <2>2, <2>3, <2>4
<1> QED BY <1>3, <1>5, QuietOrder

\* The loops before the manager decides.
LEMMA PreparingOrder ==
    ASSUME IInv, Order, NEW n \in Nodes,
           Lock(n) \/ LockRetry(n) \/ Write(n) \/ Prepare(n) \/ Prepared(n)
    PROVE  Order'
<1> USE NoneIsNoNode
<1>1. TypeOK /\ Local(n) /\ pc[n] \in {"lock", "write", "prepare", "prepare_wait"}
  BY DEF IInv, Locals, Lock, LockRetry, Write, Prepare, Prepared
<1>2. PICK t \in Nodes : t = Target(n) /\ t \in todo[n] /\ t # n
  BY <1>1, TargetIsOther DEF Local
<1>3. owner[n] = n /\ nvals[n] /\ phase[n] = "preparing"
  BY <1>1 DEF Local, Loop
<1>4. /\ \A k \in Nodes \ {n} : todo'[k] = todo[k] /\ pc'[k] = pc[k]
      /\ \A k \in Nodes \ {n, t} : owner'[k] = owner[k] /\ trans'[k] = trans[k] /\ phase'[k] = phase[k]
      /\ owner'[n] = n /\ trans'[n] = trans[n] /\ phase'[n] \in {"preparing", "prepared"}
      /\ \/ owner'[t] = owner[t] /\ trans'[t] = trans[t] /\ phase'[t] = phase[t]
         \/ /\ owner[t] # t /\ owner'[t] = n /\ trans'[t] \in {trans[t], trans[n]}
      /\ UNCHANGED <<log, nvals, committed, started, partial>>
  <2>1. CASE Lock(n) \/ LockRetry(n)
    BY <1>1, <1>2, <1>3, <2>1 DEF TypeOK, Lock, LockRetry, Advance, confdVars, historyVars
  <2>2. CASE Write(n)
    <3>1. locked[t] = n /\ Local(t)
      BY <1>2, <2>2 DEF Write, IInv, Locals, OnOthers, OnOther, HasLock
    <3>2. owner[t] = None
      BY <3>1 DEF Local, Flag
    <3> QED BY <1>1, <1>2, <1>3, <2>2, <3>2 DEF TypeOK, Write, Advance, historyVars
  <2>3. CASE Prepare(n)
    <3>1. owner[t] = n
      BY <1>2, <2>3 DEF Prepare, IInv, OnOthers, OnOther, HasTrans
    <3> QED BY <1>1, <1>2, <1>3, <2>3, <3>1 DEF TypeOK, Prepare, historyVars
  <2>4. CASE Prepared(n)
    BY <1>1, <1>2, <1>3, <2>4 DEF TypeOK, Prepared, Advance, historyVars
  <2> QED BY <2>1, <2>2, <2>3, <2>4
<1>5. ASSUME NEW k \in Nodes PROVE Keeps(k)
  <2>1. Youngest(k) /\ Youngest(n)
    BY DEF Order
  <2>2. CASE k = n
    BY <1>3, <1>4, <2>1, <2>2, RestKeeps DEF Youngest, Committing
  <2>3. CASE k = t /\ owner[t] # t /\ owner'[t] = n /\ trans'[t] \in {trans[t], trans[n]}
    BY <1>2, <2>1, <2>3, RestKeeps DEF Youngest, Committing
  <2>4. CASE k # n /\ owner'[k] = owner[k] /\ trans'[k] = trans[k] /\ phase'[k] = phase[k]
    BY <1>4, <2>1, <2>4, StillKeeps
  <2> QED BY <1>4, <2>2, <2>3, <2>4
<1> QED BY <1>4, <1>5, QuietOrder

\* The transaction on a node is over, or could not be committed.
LEMMA DoneOrder ==
    ASSUME IInv, Order, NEW n \in Nodes, Finish(n) \/ CommitFails(n) PROVE Order'
<1> USE NoneIsNoNode
<1>1. /\ TypeOK /\ Local(n) /\ pc[n] \in {"commit", "commit_wait"} /\ pc[n] # "poll"
      /\ Advance(n, "commit", "poll")
  BY DEF IInv, Locals, Finish, CommitFails, Done
<1>2. PICK t \in Nodes : t = Target(n) /\ t \in todo[n] /\ t # n
  BY <1>1, TargetIsOther DEF Local
<1>3. /\ \A k \in Nodes \ {n} : todo'[k] = todo[k] /\ pc'[k] = pc[k]
      /\ \/ todo[n] = {t}
         \/ todo[n] # {t} /\ todo'[n] = todo[n] \ {t} /\ pc'[n] = "commit"
  BY <1>1, <1>2, AdvanceEffect DEF Local, PCs
<1>4. owner[t] = n /\ owner[n] = n /\ nvals[n] /\ phase[n] = "committing"
  BY <1>1, <1>2 DEF IInv, OnOthers, OnOther, HasTrans, Local, Loop
<1>5. /\ UNCHANGED <<log, trans, nvals, started, committed>> /\ partial \subseteq partial'
      /\ \A k \in Nodes \ {n, t} : owner'[k] = owner[k] /\ phase'[k] = phase[k]
      /\ phase'[n] = IF todo[n] = {t} THEN "idle" ELSE "committing"
      /\ owner'[n] = IF todo[n] = {t} THEN None ELSE n
      /\ owner'[t] # t
      /\ pc[n] = "commit_wait" \/ (pc[n] = "commit" /\ trans[n] \in partial')
  <2>1. CASE Finish(n)
    BY <1>1, <1>2, <1>4, <2>1 DEF TypeOK, Finish, Done
  <2>2. CASE CommitFails(n)
    BY <1>1, <1>2, <1>4, <2>2 DEF TypeOK, CommitFails, Done
  <2> QED BY <2>1, <2>2
<1>6. Keeps(n)
  <2>1. Youngest(n) /\ trans'[n] = trans[n]
    BY <1>5 DEF Order
  <2>2. CASE todo[n] = {t}
    <3>1. ~Committing(n)' /\ owner'[n] # n
      BY <1>5, <2>2 DEF Committing
    <3>2. trans[n] \in partial' \/ Pending(n) = {}
      BY <1>2, <1>5, <2>2 DEF Pending
    <3> QED BY <2>1, <3>1, <3>2 DEF Keeps, Youngest
  <2>3. CASE todo[n] # {t}
    <3>1. /\ Committing(n) /\ Committing(n)' /\ Pending(n)' = todo[n] \ {t}
          /\ nvals'[n] /\ phase'[n] = "committing"
      BY <1>3, <1>4, <1>5, <2>3 DEF Committing, Pending
    <3>2. /\ Pending(n)' \subseteq Pending(n)
          /\ Pending(n)' = Pending(n) \/ trans[n] \in partial'
      <4>1. \/ Pending(n) = todo[n] \ {t}
            \/ Pending(n) = todo[n] /\ trans[n] \in partial'
        BY <1>2, <1>5 DEF Pending
      <4> QED BY <3>1, <4>1
    <3> QED BY <1>4, <2>1, <3>1, <3>2 DEF Keeps, Youngest
  <2> QED BY <2>2, <2>3
<1>7. ASSUME NEW k \in Nodes, k # n PROVE Keeps(k)
  <2>1. Youngest(k)
    BY DEF Order
  <2>2. CASE k = t
    BY <1>2, <1>4, <1>5, <2>1, <2>2, RestKeeps DEF Youngest, Committing
  <2>3. CASE k # t
    BY <1>3, <1>5, <1>7, <2>1, <2>3, StillKeeps
  <2> QED BY <2>2, <2>3
<1> QED BY <1>5, <1>6, <1>7, QuietOrder
----------------------------------------------------------------------------

\* Nothing has been started.
LEMMA InitOrder == Init => Order
<1> SUFFICES ASSUME Init PROVE Order
  OBVIOUS
<1>1. \A n \in Nodes : On(n) = {} /\ ~Committing(n) /\ owner[n] # n /\ trans[n] = 0 /\ log[n] = <<>>
  BY NoneIsNoNode DEF Init, On, Committing
<1>2. \A n \in Nodes : Youngest(n)
  BY <1>1 DEF Init, Youngest
<1>3. Distinct /\ Spreading /\ Sorted
  BY <1>1 DEF Init, Distinct, Spreading, Sorted
<1> QED BY <1>2, <1>3 DEF Order

\* Every step keeps the order.
LEMMA StepOrder == IInv /\ Order /\ [Next]_vars => Order'
<1> SUFFICES ASSUME IInv, Order, [Next]_vars PROVE Order'
  OBVIOUS
<1>1. CASE UNCHANGED vars
  <2>1. UNCHANGED <<log, committed, started, partial, owner, trans, phase, nvals, pc, todo>>
    BY <1>1 DEF vars, confdVars, aasyncVars, historyVars
  <2>2. ASSUME NEW k \in Nodes PROVE Keeps(k)
    BY <2>1, StillKeeps DEF Order
  <2> QED BY <2>1, <2>2, QuietOrder
<1>2. ASSUME NEW n \in Nodes, ManagerNext(n) PROVE Order'
  BY <1>2, StartOrder, DecisionOrder, NotifiedOrder DEF ManagerNext
<1>3. ASSUME NEW n \in Nodes, AASyncNext(n) \/ FaultNext(n) PROVE Order'
  BY <1>3, NotifiedOrder, GivesUpOrder, PreparingOrder, CommitOrder, DoneOrder
     DEF AASyncNext, FaultNext
<1> QED BY <1>1, <1>2, <1>3 DEF Next

\* In every behaviour, the order is kept.
THEOREM OrderInvariance == Spec => [](IInv /\ Order)
  BY InitInvariant, StepInvariant, InitOrder, StepOrder, PTL DEF Spec

\* For any number of nodes, transactions and retries, and whichever calls fail: all nodes
\* commit the replicated transactions in the order of their starts, none twice and none
\* left out before a later one (global_lock and the loop of CDB_SUB_COMMIT).
THEOREM CommittedInOrder == Spec => []OneOrder
<1>1. ASSUME IInv, Order PROVE OneOrder
  <2>1. ASSUME NEW m \in Nodes, NEW n \in Nodes, NEW x \in On(m) \ partial,
               NEW u \in On(n) \ partial, x < u, x \notin On(n)
        PROVE  FALSE
    <3>1. PICK k \in Nodes : Committing(k) /\ trans[k] = x /\ n \in Pending(k)
      BY <1>1, <2>1 DEF Order, Spreading
    <3>2. x \in Nat /\ u \in Nat
      BY <1>1, OnNumbers DEF IInv
    <3>3. u \in On(k)
      <4>1. ASSUME NEW h \in Nodes, Committing(h), trans[h] = u PROVE FALSE
        BY <1>1, <2>1, <3>1, <3>2, <4>1, OneCommitting
      <4>2. u \in On(k) \/ \E h \in Nodes : Committing(h) /\ trans[h] = u /\ k \in Pending(h)
        BY <1>1 DEF Order, Spreading
      <4> QED BY <4>1, <4>2
    <3>4. u <= trans[k]
      BY <1>1, <3>1, <3>3 DEF Order, Youngest, Committing
    <3> QED BY <2>1, <3>1, <3>2, <3>4
  <2>2. Sorted
    BY <1>1 DEF Order
  <2> QED BY <2>1, <2>2 DEF OneOrder, Sorted
<1> QED BY <1>1, OrderInvariance, PTL

\* For any number of nodes, transactions and retries, and whichever calls fail: when no
\* transaction is in progress, those that were neither taken for another synchronizer's
\* nor failed in commit are on all nodes.
THEOREM ReplicasEndEqual == Spec => []ReplicasAgree
<1>1. ASSUME IInv, Order PROVE ReplicasAgree
  <2> SUFFICES ASSUME \A n \in Nodes : owner[n] = None, NEW m \in Nodes, NEW n \in Nodes,
                      NEW x \in On(m) \ partial
               PROVE  x \in On(n)
    BY DEF ReplicasAgree
  <2>1. \A k \in Nodes : ~Committing(k)
    BY NoneIsNoNode DEF Committing
  <2> QED BY <1>1, <2>1 DEF Order, Spreading
<1> QED BY <1>1, OrderInvariance, PTL
===============================================================================
