--------------------------- MODULE SyncNetconfProofs ---------------------------
(****************************************************************************)
(* Theorems about SyncNetconf, for any number of servers and transactions,  *)
(* any priorities, and with refusals, timeouts and changes of the server    *)
(* list.                                                                    *)
(*                                                                          *)
(* NothingAhead and TakenByAll are not inductive: a confirmation makes what *)
(* a server runs its settled configuration, so one has to know what a server*)
(* runs from its edit on, through the confirmed commit, to the confirmation.*)
(* Own and Whole say this of the servers that have been edited (Edited) and *)
(* those that have committed (Taken) in the transaction in progress, and    *)
(* NoneRefused that the latter have taken the commit.                       *)
(*                                                                          *)
(* ListFollowed needs that a transaction of the list alone has no handler   *)
(* at work, which Listing adds.                                             *)
(****************************************************************************)
EXTENDS SyncNetconf, TLAPS

Configuration == SUBSET (1..MaxTx)

Types ==
    /\ trans \in 0..MaxTx /\ q \in BOOLEAN
    /\ master \in [Servers -> Configuration] /\ mods \in [Servers -> Configuration]
    /\ running \in [Servers -> Configuration] /\ candidate \in [Servers -> Configuration]
    /\ rollback \in [Servers -> Configuration \cup {None}]

\* Where the synchronizer is, in the phases of the transaction.
Control ==
    /\ pc \in {"edit", "commit"} => phase = "prepare"
    /\ pc = "confirm" => phase = "commit"
    /\ pc = "cancel" => phase = "abort"
    /\ pc \in {"edit", "commit", "confirm", "cancel"} => sids \subseteq due /\ jobs \subseteq sids
    /\ due \subseteq took /\ took \subseteq Servers /\ nomods \subseteq strays
    /\ phase = "commit" => \A s \in Servers : mods[s] \subseteq master[s]

\* Notified of this transaction, and dealt with in its prepare phase.
Prepared(s) == s \in took /\ phase = "prepare" /\ s \notin due

\* The candidate of a server has the edit.
InCandidate(s) ==
    /\ phase = "prepare" /\ s \in sids
    /\ pc = "commit" \/ (pc = "edit" /\ s \notin jobs /\ ~q)

Edited(s) ==
    InCandidate(s) \/ Prepared(s) \/ (s \in took /\ phase \in {"prepared", "commit"})

\* The child that committed has ended, and no error is known.
Taken(s) ==
    \/ phase = "prepare" /\ pc = "commit" /\ s \in sids \ jobs /\ ~q
    \/ Prepared(s) \/ (s \in took /\ phase = "prepared")

\* What is a server's own, apart from what the transaction brings.
Own ==
    \A s \in Servers \ strays :
        /\ Settled(s) \subseteq master[s]
        /\ InCandidate(s) => candidate[s] \subseteq master[s] \cup mods[s]
        /\ Edited(s) /\ rollback[s] # None => running[s] \subseteq master[s] \cup mods[s]

\* The transaction is brought as a whole.
Whole ==
    \A s \in Servers \ (nomods \cup missed) :
        /\ InCandidate(s) => mods[s] \subseteq candidate[s]
        /\ Taken(s) /\ rollback[s] # None => mods[s] \subseteq running[s]

\* No commit was refused on the way.
NoneRefused == \A s \in Servers \ missed : Taken(s) => s \in taken

IInv == Types /\ Control /\ Own /\ Whole /\ NoneRefused

----------------------------------------------------------------------------
(* The invariant.                                                           *)

\* Most steps are first-order: Zenon is tried first, then the SMT solver.
USE Zenon, SMT

\* There is nothing yet that could be ahead.
LEMMA InitInvariant == Init => IInv
<1> SUFFICES ASSUME Init PROVE IInv
  OBVIOUS
<1>1. Types
  <2>1. trans \in 0..MaxTx
    BY MaxTxNat DEF Init
  <2>2. [s \in Servers |-> {}] \in [Servers -> Configuration]
    BY DEF Configuration
  <2>3. rollback \in [Servers -> Configuration \cup {None}]
    BY DEF Init
  <2> QED BY <2>1, <2>2, <2>3 DEF Init, Types
<1>2. Control
  BY DEF Init, Control
<1>3. Own
  BY DEF Init, Own, Settled, InCandidate, Edited, Prepared
<1>4. Whole /\ NoneRefused
  BY DEF Init, Whole, NoneRefused, InCandidate, Taken, Prepared
<1> QED BY <1>1, <1>2, <1>3, <1>4 DEF IInv

\* A transaction begins: no server has been edited for it.
LEMMA MasterInvariant == IInv /\ MasterNext => IInv'
<1> SUFFICES ASSUME IInv, MasterNext PROVE IInv'
  OBVIOUS
<1> USE MaxTxNat, NoneIsNoConfiguration DEF IInv, Configuration
<1>1. ASSUME NEW S, Prepare(S), S \subseteq Servers, nomods' \subseteq strays', strays \subseteq strays',
             mods' \in [Servers -> Configuration]
      PROVE  IInv'
  BY <1>1 DEF Prepare, Types, Control, Own, Whole, NoneRefused, Settled, InCandidate, Edited, Taken,
     Prepared, serverVars
<1>2. ASSUME NEW S \in SUBSET Servers, SyncTo(S) PROVE IInv'
  <2>1. mods' \in [Servers -> Configuration]
    BY <1>2 DEF SyncTo, Types
  <2> QED BY <1>1, <1>2, <2>1 DEF SyncTo
<1>3. ASSUME NEW S \in SUBSET Servers, NEW l \in Lists, NEW E \in SUBSET S, ManagerTransaction(S, E, l)
      PROVE  IInv'
  <2>1. trans + 1 \in 1..MaxTx
    BY <1>3 DEF ManagerTransaction, Prepare, Types
  <2>2. mods' \in [Servers -> Configuration]
    BY <1>3, <2>1 DEF ManagerTransaction
  <2>3. nomods' \subseteq strays' /\ strays \subseteq strays'
    BY <1>3 DEF ManagerTransaction, Control
  <2> QED BY <1>1, <1>3, <2>2, <2>3 DEF ManagerTransaction
<1>4. CASE ManagerCommit
  BY <1>4 DEF ManagerCommit, Types, Control, Own, Whole, NoneRefused, Settled, InCandidate, Edited, Taken,
     Prepared, serverVars, history
<1>5. CASE ManagerAbort
  BY <1>5 DEF ManagerAbort, Types, Control, Own, Whole, NoneRefused, Settled, InCandidate, Edited, Taken,
     Prepared, serverVars, history
<1> QED BY <1>2, <1>3, <1>4, <1>5 DEF MasterNext

\* The handlers, between the operations of their children.
LEMMA DiesInvariant == IInv /\ Dies => IInv'
  BY DEF IInv, Dies, Types, Control, Own, Whole, NoneRefused, Settled, InCandidate, Edited, Taken,
     Prepared, masterVars, serverVars, history

\* A level of the transaction is dealt with, by children that had no error.
LEMMA SyncInvariant ==
    ASSUME IInv, NEW next, Sync(next), ~q, jobs = {},
           \/ pc = "commit" /\ next = "prepared"
           \/ pc \in {"confirm", "cancel"} /\ next = "idle"
    PROVE  IInv'
  BY DEF IInv, Sync, Types, Control, Own, Whole, NoneRefused, Settled, InCandidate, Edited, Taken,
     Prepared, masterVars, serverVars, history

\* The handlers of a subscription, from the notification to the answer.
LEMMA HandlerInvariant ==
    IInv /\ (HandleSub \/ HandleServerList \/ EditDone \/ CommitDone \/ ConfirmDone \/ CancelDone) => IInv'
<1> SUFFICES ASSUME IInv,
             HandleSub \/ HandleServerList \/ EditDone \/ CommitDone \/ ConfirmDone \/ CancelDone
             PROVE  IInv'
  OBVIOUS
<1>1. CASE HandleSub
  BY <1>1 DEF IInv, HandleSub, Spawn, ToEdit, Types, Control, Own, Whole, NoneRefused, Settled, InCandidate, Edited, Taken,
     Prepared, masterVars, phaseVars, serverVars, history
<1>2. CASE HandleServerList
  BY <1>2 DEF IInv, HandleServerList, Types, Control, Own, Whole, NoneRefused, Settled, InCandidate, Edited, Taken,
     Prepared, masterVars, serverVars, history
<1>3. CASE EditDone
  <2>1. CASE NoError
    BY <1>3, <2>1 DEF IInv, EditDone, NoError, Types, Control, Own, Whole, NoneRefused, Settled, InCandidate, Edited, Taken,
     Prepared, masterVars, phaseVars, serverVars, history
  <2> QED BY <1>3, <2>1, DiesInvariant DEF EditDone
<1>4. CASE CommitDone
  BY <1>4, SyncInvariant, DiesInvariant DEF CommitDone, AllCommitted
<1>5. CASE ConfirmDone
  BY <1>5, SyncInvariant, DiesInvariant DEF ConfirmDone, NoError
<1>6. CASE CancelDone
  BY <1>6 DEF IInv, CancelDone, Sync, Types, Control, Own, Whole, NoneRefused, Settled, InCandidate, Edited, Taken,
     Prepared, masterVars, serverVars, history
<1> QED BY <1>1, <1>2, <1>3, <1>4, <1>5, <1>6

\* The children and the servers, one by one.
LEMMA ChildInvariant ==
    ASSUME IInv, NEW s \in Servers,
           ChildNext(s) \/ EditRefused(s) \/ Unreached(s) \/ Broken(s) \/ RollBack(s)
    PROVE  IInv'
<1>1. CASE EditConfig(s)
  BY <1>1, NoneIsNoConfiguration DEF IInv, Configuration, EditConfig, Ends, Noticed, masterVars, phaseVars, serverVars, history,
     Types, Control, Own, Whole, NoneRefused, Settled, InCandidate, Edited, Taken,
     Prepared
<1>2. CASE EditRefused(s)
  BY <1>2, NoneIsNoConfiguration, SMTT(40) DEF IInv, Configuration, EditRefused, Ends, Noticed, masterVars, phaseVars, serverVars, history,
     Types, Control, Own, Whole, NoneRefused, Settled, InCandidate, Edited, Taken,
     Prepared
<1>3. CASE Unreached(s)
  BY <1>3, NoneIsNoConfiguration DEF IInv, Configuration, Unreached, NotSent, Ends, Noticed, masterVars, phaseVars, serverVars, history,
     Types, Control, Own, Whole, NoneRefused, Settled, InCandidate, Edited, Taken,
     Prepared
<1>4. CASE NotFound(s)
  BY <1>4, NoneIsNoConfiguration DEF IInv, Configuration, NotFound, NotSent, Ends, Noticed, masterVars, phaseVars, serverVars, history,
     Types, Control, Own, Whole, NoneRefused, Settled, InCandidate, Edited, Taken,
     Prepared
<1>5. CASE Commit(s)
  BY <1>5, NoneIsNoConfiguration DEF IInv, Configuration, Commit, Committed, ConfirmedCommit, Ends, Noticed, masterVars, phaseVars, serverVars, history,
     Types, Control, Own, Whole, NoneRefused, Settled, InCandidate, Edited, Taken,
     Prepared
<1>6. CASE CommitRefused(s)
  <2>1. Noticed(<<"rpc-error">>) = TRUE
    BY DEF Noticed
  <2>2. q'
    BY <1>6, <2>1 DEF CommitRefused, Ends
  <2>3. Types'
    BY <1>6, <2>1 DEF IInv, CommitRefused, Ends, Types, masterVars, serverVars
  <2>4. Control'
    BY <1>6 DEF IInv, CommitRefused, Ends, Control, masterVars, phaseVars
  <2>5. Own'
    BY <1>6 DEF IInv, CommitRefused, Ends, Own, Settled, InCandidate, Edited, Prepared,
       masterVars, phaseVars, serverVars
  <2>6. Whole' /\ NoneRefused'
    BY <1>6, <2>2 DEF IInv, CommitRefused, Ends, Whole, NoneRefused, InCandidate, Taken, Prepared,
       masterVars, phaseVars, serverVars
  <2> QED BY <2>3, <2>4, <2>5, <2>6 DEF IInv
<1>7. CASE Confirm(s)
  BY <1>7, NoneIsNoConfiguration, SMTT(40) DEF IInv, Configuration, Confirm, Confirmed, Ends, Noticed, masterVars, phaseVars, serverVars, history,
     Types, Control, Own, Whole, NoneRefused, Settled, InCandidate, Edited, Taken,
     Prepared
<1>8. CASE ConfirmRefused(s)
  BY <1>8, NoneIsNoConfiguration DEF IInv, Configuration, ConfirmRefused, Ends, Noticed, masterVars, phaseVars, serverVars, history,
     Types, Control, Own, Whole, NoneRefused, Settled, InCandidate, Edited, Taken,
     Prepared
<1>9. CASE CancelCommit(s)
  BY <1>9, NoneIsNoConfiguration DEF IInv, Configuration, CancelCommit, Ends, Noticed, masterVars, phaseVars, serverVars, history,
     Types, Control, Own, Whole, NoneRefused, Settled, InCandidate, Edited, Taken,
     Prepared
<1>10. CASE RollBack(s)
  BY <1>10, NoneIsNoConfiguration, SMTT(40) DEF IInv, Configuration, RollBack, Ends, Noticed, masterVars, phaseVars, serverVars, history,
     Types, Control, Own, Whole, NoneRefused, Settled, InCandidate, Edited, Taken,
     Prepared
<1>11. CASE Broken(s)
  <2> USE NoneIsNoConfiguration DEF IInv, Configuration
  <2>1. q' /\ jobs' = jobs \ {s} /\ s \in jobs /\ pc \in {"edit", "commit", "confirm"}
    BY <1>11 DEF Broken, Ends
  <2>2. UNCHANGED <<masterVars, phaseVars, subs, pc, sids, nomods, took, missed, strays>>
    BY <1>11 DEF Broken, Ends
  <2>3. Control'
    BY <2>1, <2>2 DEF Control, masterVars, phaseVars
  <2>4. q' \in BOOLEAN
    BY <1>11 DEF Broken, Ends, Types
  <2>5. CASE UNCHANGED <<serverVars, taken>>
    BY <2>1, <2>2, <2>3, <2>4, <2>5 DEF Types, Control, Own, Whole, NoneRefused, Settled, InCandidate, Edited, Taken,
       Prepared, masterVars, phaseVars, serverVars
  <2>6. CASE /\ pc = "edit" /\ UNCHANGED <<running, rollback, taken>>
             /\ \E c \in {running[s], running[s] \cup mods[s]} : candidate' = [candidate EXCEPT ![s] = c]
    BY <2>1, <2>2, <2>3, <2>4, <2>6, SMTT(40) DEF Types, Control, Own, Whole, NoneRefused, Settled, InCandidate, Edited, Taken,
       Prepared, masterVars, phaseVars
  <2>7. CASE pc = "commit" /\ Committed(s) /\ UNCHANGED candidate
    BY <2>1, <2>2, <2>3, <2>4, <2>7, SMTT(40) DEF Committed, ConfirmedCommit,
       Types, Control, Own, Whole, NoneRefused, Settled, InCandidate, Edited, Taken,
       Prepared, masterVars, phaseVars
  <2>8. CASE pc = "confirm" /\ Confirmed(s) /\ UNCHANGED <<candidate, taken>>
    BY <2>1, <2>2, <2>3, <2>4, <2>8, SMTT(40) DEF Confirmed,
       Types, Control, Own, Whole, NoneRefused, Settled, InCandidate, Edited, Taken,
       Prepared, masterVars, phaseVars
  <2> QED BY <1>11, <2>5, <2>6, <2>7, <2>8 DEF Broken
<1> QED BY <1>1, <1>2, <1>3, <1>4, <1>5, <1>6, <1>7, <1>8, <1>9, <1>10, <1>11 DEF ChildNext

\* Every step keeps the invariant.
LEMMA StepInvariant == IInv /\ [Next]_vars => IInv'
<1> SUFFICES ASSUME IInv, [Next]_vars PROVE IInv'
  OBVIOUS
<1>1. CASE UNCHANGED vars
  BY <1>1 DEF IInv, vars, masterVars, phaseVars, serverVars, history, Types, Control, Own, Whole, NoneRefused, Settled, InCandidate, Edited, Taken,
     Prepared
<1> QED BY <1>1, MasterInvariant, HandlerInvariant, ChildInvariant DEF Next, HandlerNext

\* In every behaviour, the invariant holds.
THEOREM Invariance == Spec => []IInv
  BY InitInvariant, StepInvariant, PTL DEF Spec

\* For any number of servers and transactions: no server ever keeps a change that the
\* master has not committed, but for the three exceptions that NothingAhead names
\* (handle_sub_prepare, handle_sub_commit).
THEOREM NeverAhead == Spec => []NothingAhead
<1>1. IInv => NothingAhead
  BY DEF IInv, Own, NothingAhead
<1> QED BY <1>1, Invariance, PTL

\* For any number of servers and transactions: what a manager may commit has been
\* taken by every server concerned that has not missed an operation unnoticed, and is
\* running there unless it was rolled back (handle_sub_prepare).
THEOREM CommittedEverywhere == Spec => []TakenByAll
<1>1. IInv => TakenByAll
  BY DEF IInv, Control, Whole, NoneRefused, Taken, TakenByAll
<1> QED BY <1>1, Invariance, PTL

----------------------------------------------------------------------------
(* The server list, and the types.                                          *)

\* The subscriptions follow the list, but between the commit of a new list and
\* its notification.  A handler of a subscription has some, so that a transaction
\* of the list alone has none at work.
Listing ==
    /\ phase \in {"idle", "abort"} => ~listDue
    /\ phase = "commit" \/ ~listDue => pc = "dead" \/ newList = listed
    /\ pc \in {"edit", "commit", "confirm", "cancel"} => sids # {}
    /\ listDue /\ ~together => took = {}
    /\ pc # "dead" /\ ~together /\ ~(phase = "commit" /\ listDue) => subs = listed

\* What TypeOK says and IInv does not.
Shape ==
    /\ phase \in {"idle", "prepare", "prepared", "commit", "abort"}
    /\ pc \in {"read", "edit", "commit", "confirm", "cancel", "dead"}
    /\ listDue \in BOOLEAN /\ together \in BOOLEAN
    /\ listed \subseteq Servers /\ newList \subseteq Servers /\ subs \subseteq Servers
    /\ due \subseteq Servers /\ sids \subseteq Servers /\ missed \subseteq Servers
    /\ taken \subseteq Servers
    /\ strays \subseteq Servers /\ nomods \subseteq took /\ jobs \subseteq sids

\* The list at the start, which may be any.
LEMMA InitListing == Init => Listing /\ Shape
  BY DEF Init, Listing, Shape

\* Transactions begin, are committed and aborted.
LEMMA MasterListing ==
    ASSUME IInv, Listing, Shape, MasterNext
    PROVE  Listing' /\ Shape'
<1>1. ASSUME NEW S \in SUBSET Servers, S # {}, SyncTo(S) PROVE Listing' /\ Shape'
  BY <1>1 DEF SyncTo, Prepare, Listing, Shape
<1>2. ASSUME NEW S \in SUBSET Servers, NEW l \in Lists, NEW E \in SUBSET S, ManagerTransaction(S, E, l)
      PROVE  Listing' /\ Shape'
  <2>1. l \subseteq Servers
    BY DEF Lists, Shape
  <2>2. Shape'
    BY <1>2, <2>1 DEF ManagerTransaction, Prepare, Shape
  <2>3. Listing'
    BY <1>2 DEF ManagerTransaction, Prepare, Listing
  <2> QED BY <2>2, <2>3
<1>3. CASE ManagerCommit
  BY <1>3 DEF ManagerCommit, IInv, Control, Listing, Shape, history
<1>4. CASE ManagerAbort
  BY <1>4 DEF ManagerAbort, IInv, Control, Listing, Shape, history
<1> QED BY <1>1, <1>2, <1>3, <1>4 DEF MasterNext

\* The synchronizer dies.
LEMMA DiesListing ==
    ASSUME IInv, Listing, Shape, Dies
    PROVE  Listing' /\ Shape'
  BY DEF Dies, Listing, Shape, masterVars, history

\* A level is dealt with: it is not that of a list alone.
LEMMA SyncListing ==
    ASSUME IInv, Listing, Shape, NEW next, Sync(next),
           \/ pc = "commit" /\ next = "prepared"
           \/ pc \in {"confirm", "cancel"} /\ next = "idle"
    PROVE  Listing' /\ Shape'
<1>1. sids # {} /\ sids \subseteq took
  BY DEF IInv, Control, Listing
<1>2. ~together => ~listDue
  BY <1>1 DEF Listing
<1>3. UNCHANGED <<newList, listed, subs, sids, took, taken, together, nomods, jobs, missed, strays>> /\ pc' = "read"
  BY DEF Sync, masterVars, history
<1>4. /\ due' = due \ sids /\ listDue' \in BOOLEAN /\ (listDue' => listDue)
      /\ phase' \in {next, phase} /\ (phase = "commit" /\ listDue' => phase' = phase)
      /\ (listDue /\ ~listDue' => phase = "commit")
  BY DEF Sync, Shape
<1>5. \/ (phase = "prepare" /\ next = "prepared")
      \/ (phase \in {"commit", "abort"} /\ next = "idle")
  BY DEF IInv, Control
<1> QED BY <1>1, <1>2, <1>3, <1>4, <1>5 DEF Listing, Shape

\* The handlers, from the notification to the answer; the one of the list makes
\* the subscriptions those of the list.
LEMMA HandlerListing ==
    ASSUME IInv, Listing, Shape,
           HandleSub \/ HandleServerList \/ EditDone \/ CommitDone \/ ConfirmDone \/ CancelDone
    PROVE  Listing' /\ Shape'
<1>1. CASE HandleSub
  BY <1>1 DEF HandleSub, Spawn, ToEdit, Listing, Shape, masterVars, phaseVars, history
<1>2. CASE HandleServerList
  BY <1>2 DEF HandleServerList, NewList, Listing, Shape, masterVars, history
<1>3. CASE EditDone
  <2>1. CASE NoError
    BY <1>3, <2>1 DEF EditDone, Listing, Shape, masterVars, phaseVars, history
  <2> QED BY <1>3, <2>1, DiesListing DEF EditDone
<1>4. CASE CommitDone
  BY <1>4, SyncListing, DiesListing DEF CommitDone
<1>5. CASE ConfirmDone
  BY <1>5, SyncListing, DiesListing DEF ConfirmDone
<1>6. CASE CancelDone
  BY <1>6, SyncListing DEF CancelDone
<1> QED BY <1>1, <1>2, <1>3, <1>4, <1>5, <1>6

\* The children and the servers leave the list and the phases alone.
LEMMA ChildListing ==
    ASSUME Listing, Shape, NEW s \in Servers,
           ChildNext(s) \/ EditRefused(s) \/ Unreached(s) \/ Broken(s) \/ RollBack(s)
    PROVE  Listing' /\ Shape'
<1>1. /\ UNCHANGED <<masterVars, phaseVars, subs, pc, sids, nomods, took, together>>
      /\ jobs' \subseteq jobs
  BY DEF ChildNext, EditConfig, EditRefused, Unreached, NotFound, NotSent, Commit, CommitRefused, Confirm,
     ConfirmRefused, CancelCommit, Broken, RollBack, Ends, history
<1>2. missed' \in {missed, missed \cup {s}} /\ strays' \in {strays, strays \cup {s}}
      /\ taken' \in {taken, taken \cup {s}}
  BY DEF ChildNext, EditConfig, EditRefused, Unreached, NotFound, NotSent, Commit, Committed, CommitRefused,
     Confirm, ConfirmRefused, CancelCommit, Broken, RollBack, history
<1> QED BY <1>1, <1>2 DEF Listing, Shape, masterVars, phaseVars

\* Every step keeps both.
LEMMA StepListing ==
    ASSUME IInv, Listing, Shape, [Next]_vars
    PROVE  Listing' /\ Shape'
<1>1. CASE UNCHANGED vars
  BY <1>1 DEF Listing, Shape, vars, masterVars, phaseVars, history
<1> QED BY <1>1, MasterListing, HandlerListing, ChildListing DEF Next, HandlerNext

\* In every behaviour, both hold.
THEOREM ListInvariance == Spec => [](IInv /\ Listing /\ Shape)
<1>1. Init => IInv /\ Listing /\ Shape
  BY InitInvariant, InitListing
<1>2. IInv /\ Listing /\ Shape /\ [Next]_vars => (IInv /\ Listing /\ Shape)'
  BY StepInvariant, StepListing
<1> QED BY <1>1, <1>2, PTL DEF Spec

\* For any number of servers and transactions: once a transaction is over, the
\* synchronizer has the subscriptions of the server list, if no transaction has
\* changed the list and something else (handle_netconf_server_list).
THEOREM ListIsFollowed == Spec => []ListFollowed
<1>1. Listing => ListFollowed
  BY DEF Listing, ListFollowed
<1> QED BY <1>1, ListInvariance, PTL

\* The variables always have their types, and children work only for servers that
\* were notified of the transaction.
THEOREM TypeCorrect == Spec => []TypeOK
<1>1. IInv /\ Shape => TypeOK
  <2> SUFFICES ASSUME IInv, Shape PROVE TypeOK
    OBVIOUS
  <2>1. \A s \in Servers : rollback[s] # None => rollback[s] \subseteq 1..MaxTx
    BY DEF IInv, Types, Configuration
  <2>2. took \subseteq Servers /\ due \subseteq took /\ nomods \subseteq took /\ jobs \subseteq sids
    BY DEF IInv, Control, Shape
  <2>3. {q, listDue, together} \subseteq BOOLEAN
    BY Zenon DEF IInv, Types, Shape
  <2>4. /\ trans \in 0..MaxTx
        /\ {master, mods, running, candidate} \subseteq [Servers -> SUBSET (1..MaxTx)]
    BY DEF IInv, Types, Configuration
  <2>5. {listed, newList, subs, due, sids, nomods, took, taken, missed, strays} \subseteq SUBSET Servers
    BY <2>2 DEF Shape
  <2> QED BY <2>1, <2>2, <2>3, <2>4, <2>5 DEF Shape, TypeOK
<1> QED BY <1>1, ListInvariance, PTL
===============================================================================
