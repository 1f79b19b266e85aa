---------------------------- MODULE BindingProofs ----------------------------
(***************************************************************************)
(* Proofs about Binding for every set of engines and locks and every bound *)
(* on events and faults.                                                   *)
(*                                                                         *)
(* The invariants of Binding are not inductive.  IInv adds the two facts   *)
(* they rest on: whoever is inside an operation holds the guard, and only  *)
(* the newest event can be pending, with the active file at its previous   *)
(* or at its desired lock.  ProcInv says what each step of an operation    *)
(* may assume.                                                             *)
(***************************************************************************)
EXTENDS Binding, TLAPS

\* Whoever is between Enter and Return holds the guard.
Exclusive == \A p \in Procs : pc[p] # "idle" => guard = p

Newest == Len(events)

\* Only the newest event may be pending; the active file is where the ledger
\* puts it, or still where it was before the pending event.
LedgerInv ==
    /\ Pending \subseteq {Newest}
    /\ Pending = {} => active = Bound
    /\ Pending # {} => active \in {events[Newest].desired, events[Newest].previous}

Applying == {"check", "archive", "write", "sync", "complete"}

Settled == {"resolve", "dry", "append", "begin", "exchange", "commit", "finish"}

\* What an engine may rely on at each step of its operation.
ProcInv(p) ==
    /\ pc[p] \in Applying => Pending = {Newest} /\ plan[p] = Newest
    /\ pc[p] \in {"write", "sync", "complete"} =>
         events[Newest].previous \in history \cup {NoLock}
    /\ pc[p] \in {"sync", "complete"} => active = Bound
    /\ pc[p] \in Settled => Pending = {}
    /\ pc[p] \in {"idle", "reconcile", "resolve", "dry", "append"} => lock[p] = NoLock
    /\ recon[p] => pc[p] \in Applying /\ lock[p] = NoLock
    /\ pc[p] \in {"append", "begin"} => op[p] \in Transitions /\ prev[p] = Bound
    /\ pc[p] = "append" => op[p] = "admit"
    /\ pc[p] = "dry" /\ op[p] = "admit" => prev[p] = Bound
    /\ pc[p] = "begin" /\ lock[p] = NoLock => Bound # NoLock
    /\ pc[p] \in {"exchange", "commit"} => lock[p] = Bound /\ lock[p] # NoLock
    /\ pc[p] = "commit" => helper[p] \in {lock[p], NoLock}

IInv ==
    /\ TypeOK
    /\ Exclusive
    /\ LedgerInv
    /\ \A p \in Procs : ProcInv(p)
    /\ last.epoch <= Newest
    /\ CollectionIsGenuine
    /\ LocksRetained

-----------------------------------------------------------------------------
(* Facts used by several actions. *)

\* The initial state satisfies the inductive invariant.
LEMMA InitInv == Init => IInv
<1> SUFFICES ASSUME Init PROVE IInv
  OBVIOUS
<1> USE BindingAssumption DEF Init
<1>1. TypeOK
  BY DEF TypeOK, MaybeLock, Steps, Ops, NoOp
<1>2. Pending = {} /\ Bound = NoLock /\ Newest = 0
  BY DEF Pending, Bound, Newest
<1>3. Exclusive /\ LedgerInv /\ last.epoch <= Newest
  BY <1>2 DEF Exclusive, LedgerInv
<1>4. ASSUME NEW p \in Procs PROVE ProcInv(p)
  BY <1>2 DEF ProcInv, Applying, Settled
<1>5. CollectionIsGenuine /\ LocksRetained
  BY DEF CollectionIsGenuine, LocksRetained
<1> QED
  BY <1>1, <1>3, <1>4, <1>5 DEF IInv

\* What the ledger says depends on the events and completions alone.
LEMMA LedgerFrame ==
    ASSUME UNCHANGED <<events, completed>>
    PROVE  Pending' = Pending /\ Bound' = Bound /\ Newest' = Newest
BY DEF Pending, Bound, Newest

\* The elements of a sequence after an Append, which the durable ledger of
\* binding events and its abstract image both grow by.
LEMMA AppendElements ==
    ASSUME NEW S, NEW s \in Seq(S), NEW x
    PROVE  /\ Len(Append(s, x)) = Len(s) + 1 /\ Len(s) \in Nat
           /\ \A i \in 1 .. Len(s) + 1 :
                Append(s, x)[i] = IF i = Len(s) + 1 THEN x ELSE s[i]
OBVIOUS

\* What TypeOK says of the ledger.
LEMMA EventsType ==
    ASSUME TypeOK
    PROVE  /\ events \in Seq(Event) /\ Len(events) \in Nat /\ completed \subseteq 1 .. Len(events)
           /\ \A i \in 1 .. Len(events) : events[i] \in Event
<1>1. events \in Seq(Event) /\ completed \subseteq 1 .. Len(events)
  BY DEF TypeOK
<1> QED
  BY <1>1

\* While one engine is inside an operation every other one is idle.
LEMMA OthersIdle ==
    ASSUME IInv, NEW p \in Procs, pc[p] # "idle"
    PROVE  guard = p /\ \A q \in Procs \ {p} : pc[q] = "idle"
BY BindingAssumption DEF IInv, Exclusive

\* Forgetting an operation's locals keeps their types.
LEMMA ForgetTypes ==
    ASSUME TypeOK, NEW p \in Procs, Forget(p)
    PROVE  /\ pc' \in [Procs -> Steps] /\ op' \in [Procs -> Ops \cup {NoOp}]
           /\ plan' \in [Procs -> Nat] /\ recon' \in [Procs -> BOOLEAN]
           /\ lock' \in [Procs -> MaybeLock] /\ prev' \in [Procs -> MaybeLock]
           /\ helper' \in [Procs -> MaybeLock]
<1>1. pc' \in [Procs -> Steps] /\ op' \in [Procs -> Ops \cup {NoOp}]
  BY DEF TypeOK, Forget, Goto, Steps
<1>2. plan' \in [Procs -> Nat] /\ lock' \in [Procs -> MaybeLock]
      /\ prev' \in [Procs -> MaybeLock] /\ helper' \in [Procs -> MaybeLock]
  BY DEF TypeOK, Forget, MaybeLock
<1>3. recon' \in [Procs -> BOOLEAN]
  BY DEF TypeOK, Forget
<1> QED
  BY <1>1, <1>2, <1>3

\* Any operation may end where it stands, by returning, failing or dying: the
\* ledger and the files are left as they are and no engine remains inside.
LEMMA LeaveInv ==
    ASSUME IInv, NEW p \in Procs, Forget(p), UNCHANGED <<db, files, last>>,
           runner' \in [Procs -> MaybeLock], faults' \in 0 .. MaxFaults,
           guard' = IF guard = p THEN NoProc ELSE guard
    PROVE  IInv'
<1> USE DEF IInv, db, files
<1>1. TypeOK'
  <2>1. guard' \in Procs \cup {NoProc}
    BY DEF TypeOK
  <2> QED
    BY <2>1, ForgetTypes, Zenon DEF TypeOK
<1>2. Pending' = Pending /\ Bound' = Bound /\ Newest' = Newest
  BY LedgerFrame
<1>3. pc'[p] = "idle" /\ lock'[p] = NoLock /\ recon'[p] = FALSE
  <2>1. pc \in [Procs -> Steps] /\ lock \in [Procs -> MaybeLock] /\ recon \in [Procs -> BOOLEAN]
    BY DEF TypeOK
  <2> HIDE DEF IInv
  <2> QED
    BY <2>1 DEF Forget, Goto
<1>4. ASSUME NEW q \in Procs \ {p}
      PROVE  pc'[q] = pc[q] /\ op'[q] = op[q] /\ plan'[q] = plan[q] /\ recon'[q] = recon[q]
             /\ lock'[q] = lock[q] /\ prev'[q] = prev[q] /\ helper'[q] = helper[q]
  BY <1>4 DEF Forget, Goto, TypeOK
<1>5. Exclusive'
  BY <1>3, <1>4 DEF Exclusive
<1>6. LedgerInv'
  BY <1>2 DEF LedgerInv
<1>7. ASSUME NEW q \in Procs PROVE ProcInv(q)'
  <2>1. CASE q = p
    BY <2>1, <1>3 DEF ProcInv, Applying, Settled
  <2>2. CASE q # p
    BY <2>2, <1>2, <1>4 DEF ProcInv
  <2> QED
    BY <2>1, <2>2, ZenonT(90)
<1>8. (last.epoch <= Newest)' /\ CollectionIsGenuine' /\ LocksRetained'
  BY <1>2 DEF CollectionIsGenuine, LocksRetained
<1> QED
  BY <1>1, <1>5, <1>6, <1>7, <1>8

\* In particular an operation may return at any of its steps.
LEMMA ReturnInv ==
    ASSUME IInv, NEW p \in Procs, pc[p] # "idle", NEW r \in MaybeLock, Return(p, r),
           UNCHANGED <<db, files, last>>, faults' \in 0 .. MaxFaults
    PROVE  IInv'
<1>1. guard = p
  BY OthersIdle
<1>2. runner' \in [Procs -> MaybeLock]
  BY ZenonT(90) DEF Return, IInv, TypeOK, MaybeLock
<1>3. Forget(p) /\ guard' = IF guard = p THEN NoProc ELSE guard
  BY <1>1 DEF Return
<1> QED
  BY <1>2, <1>3, LeaveInv

\* An operation that goes on to its next step, changing neither the ledger nor
\* the recorded collection, need only show that the files still agree with the
\* ledger, that no lock is lost, and what its own next step may assume.
LEMMA GoOnInv ==
    ASSUME IInv, NEW p \in Procs, pc[p] # "idle", TypeOK', guard' = guard,
           UNCHANGED <<events, completed, last>>,
           \A q \in Procs \ {p} : pc'[q] = pc[q] /\ lock'[q] = lock[q] /\ recon'[q] = recon[q],
           LedgerInv', LocksRetained', ProcInv(p)'
    PROVE  IInv'
<1> USE DEF IInv
<1>1. guard = p /\ \A q \in Procs \ {p} : pc[q] = "idle"
  BY OthersIdle
<1>2. Exclusive'
  BY <1>1, ZenonT(90) DEF Exclusive
<1>3. ASSUME NEW q \in Procs, q # p PROVE ProcInv(q)'
  <2>1. pc'[q] = "idle" /\ lock'[q] = NoLock /\ ~recon'[q]
    BY <1>1, <1>3, ZenonT(90) DEF ProcInv, Applying
  <2> QED
    BY <2>1, ZenonT(90) DEF ProcInv, Applying, Settled
<1>4. (last.epoch <= Newest)' /\ CollectionIsGenuine'
  BY DEF CollectionIsGenuine, Newest
<1> QED
  BY <1>2, <1>3, <1>4

-----------------------------------------------------------------------------
(* Every step preserves the inductive invariant. *)

\* Taking the guard.
LEMMA EnterInv ==
    ASSUME IInv, NEW p \in Procs, NEW o \in Ops, Enter(p, o)
    PROVE  IInv'
<1> USE DEF IInv, Enter, db, files, GuardFree
<1>1. TypeOK'
  BY DEF TypeOK, Goto, Steps
<1>2. Pending' = Pending /\ Bound' = Bound /\ Newest' = Newest
  BY LedgerFrame
<1>3. \A q \in Procs : pc[q] = "idle"
  BY BindingAssumption DEF Exclusive
<1>4. Exclusive'
  BY <1>3, ZenonT(90) DEF Exclusive, Goto, TypeOK
<1>5. LedgerInv' /\ CollectionIsGenuine' /\ LocksRetained' /\ (last.epoch <= Newest)'
  BY <1>2 DEF LedgerInv, CollectionIsGenuine, LocksRetained
<1>6. ASSUME NEW q \in Procs PROVE ProcInv(q)'
  <2>1. pc'[q] \in {"idle", "reconcile"} /\ lock'[q] = NoLock /\ ~recon'[q]
    BY <1>3, Zenon DEF Goto, TypeOK, ProcInv, Applying
  <2> QED
    BY <2>1 DEF ProcInv, Applying, Settled
<1> QED
  BY <1>1, <1>4, <1>5, <1>6

\* Looking for a pending intent.
LEMMA ReconcileInv ==
    ASSUME IInv, NEW p \in Procs, Reconcile(p)
    PROVE  IInv'
<1> USE DEF IInv, Reconcile, db, files
<1>0. Pending' = Pending /\ Bound' = Bound /\ Newest' = Newest
  BY LedgerFrame
<1>1. lock[p] = NoLock /\ ~recon[p]
  BY DEF ProcInv, Applying
<1>2. CASE Pending = {} /\ Continue(p, "resolve")
  <2>1. TypeOK'
    BY <1>2, ZenonT(90) DEF TypeOK, Continue, Goto, Steps, local
  <2>2. ProcInv(p)'
    <3>1. pc'[p] = "resolve" /\ lock'[p] = NoLock /\ ~recon'[p] /\ Pending' = {}
      BY <1>0, <1>1, <1>2, ZenonT(90) DEF Continue, Goto, TypeOK, local
    <3> QED
      BY <3>1, ZenonT(90) DEF ProcInv, Applying, Settled
  <2>3. LedgerInv' /\ LocksRetained'
    BY <1>0, ZenonT(90) DEF LedgerInv, LocksRetained
  <2> QED
    BY <1>2, <2>1, <2>2, <2>3, GoOnInv, ZenonT(90) DEF Continue, Goto, TypeOK, local
<1>3. CASE /\ Pending # {}
           /\ Goto(p, "check")
           /\ plan' = [plan EXCEPT ![p] = OldestPending]
           /\ recon' = [recon EXCEPT ![p] = TRUE]
           /\ UNCHANGED <<guard, op, lock, prev, runner, helper>>
  <2>1. Pending = {Newest} /\ OldestPending = Newest /\ Newest \in Nat
    <3>1. Pending = {Newest} /\ Len(events) \in Nat
      BY <1>3, EventsType DEF LedgerInv
    <3> HIDE DEF IInv, Reconcile
    <3> QED
      BY <3>1 DEF OldestPending, Newest
  <2>2. TypeOK'
    <3>1. plan' \in [Procs -> Nat] /\ pc' \in [Procs -> Steps]
      BY <1>3, <2>1 DEF TypeOK, Goto, Steps
    <3>2. recon' \in [Procs -> BOOLEAN]
      BY <1>3, ZenonT(90) DEF TypeOK
    <3> QED
      BY <1>3, <3>1, <3>2 DEF TypeOK
  <2>3. ProcInv(p)'
    <3>1. pc'[p] = "check" /\ lock'[p] = NoLock /\ plan'[p] = Newest
      BY <1>1, <1>3, <2>1 DEF Goto, TypeOK
    <3> QED
      BY <1>0, <2>1, <3>1, ZenonT(90) DEF ProcInv, Applying, Settled
  <2>4. LedgerInv' /\ LocksRetained'
    BY <1>0 DEF LedgerInv, LocksRetained
  <2> QED
    BY <1>3, <2>2, <2>3, <2>4, GoOnInv, Zenon DEF Goto, TypeOK
<1> QED
  BY <1>2, <1>3

\* Checking the active file, and archiving the previous lock.
LEMMA CheckCurrentInv ==
    ASSUME IInv, NEW p \in Procs, CheckCurrent(p)
    PROVE  IInv'
<1> USE DEF CheckCurrent
<1>1. CASE Continue(p, "archive")
  <2> USE DEF IInv, Continue, Goto, local, db, files
  <2>0. Pending' = Pending /\ Bound' = Bound /\ Newest' = Newest
    BY LedgerFrame
  <2>1. TypeOK'
    BY <1>1, ZenonT(90) DEF TypeOK, Steps
  <2>2. ProcInv(p)'
    <3>1. pc'[p] = "archive" /\ lock'[p] = lock[p] /\ plan'[p] = plan[p] /\ recon'[p] = recon[p]
      BY <1>1 DEF TypeOK
    <3> QED
      BY <2>0, <3>1, ZenonT(90) DEF ProcInv, Applying, Settled
  <2>3. LedgerInv' /\ LocksRetained'
    BY <2>0, ZenonT(90) DEF LedgerInv, LocksRetained
  <2> QED
    BY <1>1, <2>1, <2>2, <2>3, GoOnInv, Zenon DEF TypeOK
<1>2. CASE Return(p, runner[p])
  BY <1>2, ReturnInv, ZenonT(90) DEF IInv, TypeOK
<1> QED
  BY <1>1, <1>2

LEMMA ArchiveInv ==
    ASSUME IInv, NEW p \in Procs, Archive(p)
    PROVE  IInv'
<1> USE DEF IInv, Archive, Archived, Continue, Goto, local, db
<1>0. Pending' = Pending /\ Bound' = Bound /\ Newest' = Newest
  BY LedgerFrame, Zenon
<1>1. Pending = {Newest} /\ plan[p] = Newest /\ Newest \in 1 .. Len(events)
  BY Zenon DEF ProcInv, Applying, Pending
<1>2. events[Newest] \in Event
  BY <1>1 DEF TypeOK
<1>3. TypeOK'
  BY <1>1, <1>2, ZenonT(90) DEF TypeOK, Steps, Event, MaybeLock
<1>4. ProcInv(p)'
  <2>1. pc'[p] = "write" /\ lock'[p] = lock[p] /\ plan'[p] = plan[p] /\ recon'[p] = recon[p]
    BY DEF TypeOK
  <2>2. events'[Newest'].previous \in history' \cup {NoLock}
    BY <1>0, <1>1
  <2> QED
    BY <1>0, <1>1, <2>1, <2>2, ZenonT(90) DEF ProcInv, Applying, Settled
<1>5. LedgerInv' /\ LocksRetained'
  BY <1>0 DEF LedgerInv, LocksRetained
<1> QED
  BY <1>3, <1>4, <1>5, GoOnInv, Zenon DEF TypeOK

\* Replacing or removing the active file.
LEMMA WriteInv ==
    ASSUME IInv, NEW p \in Procs, Write(p)
    PROVE  IInv'
<1> USE DEF IInv, Write, Continue, Goto, local, db
<1>0. Pending' = Pending /\ Bound' = Bound /\ Newest' = Newest
  BY LedgerFrame, Zenon
<1>1. Pending = {Newest} /\ plan[p] = Newest /\ Newest \in 1 .. Len(events)
  BY DEF ProcInv, Applying, Pending
<1>2. events[Newest] \in Event /\ Bound = events[Newest].desired
  BY <1>1 DEF TypeOK, Bound, Newest
<1>3. TypeOK'
  BY <1>1, <1>2, ZenonT(90) DEF TypeOK, Steps, Event
<1>4. active' = Bound
  BY <1>1, <1>2
<1>5. ProcInv(p)'
  <2>1. pc'[p] \in {"sync", "complete"} /\ lock'[p] = lock[p] /\ plan'[p] = plan[p]
        /\ recon'[p] = recon[p]
    BY DEF TypeOK
  <2>2. events'[Newest'].previous \in history' \cup {NoLock}
    BY <1>0, Zenon DEF ProcInv
  <2> QED
    BY <1>0, <1>1, <1>4, <2>1, <2>2, Zenon DEF ProcInv, Applying, Settled
<1>6. LedgerInv'
  BY <1>0, <1>1, <1>2, <1>4, ZenonT(90) DEF LedgerInv
<1>7. LocksRetained'
  <2>1. active \in history \cup {NoLock, Bound}
    BY <1>1, <1>2, ZenonT(90) DEF LedgerInv, ProcInv
  <2> QED
    BY <1>4, <2>1, ZenonT(90) DEF LocksRetained
<1> QED
  BY <1>3, <1>5, <1>6, <1>7, GoOnInv, ZenonT(90) DEF TypeOK

LEMMA SyncDirectoryInv ==
    ASSUME IInv, NEW p \in Procs, SyncDirectory(p)
    PROVE  IInv'
<1> USE DEF IInv, SyncDirectory, Continue, Goto, local, db
<1>0. Pending' = Pending /\ Bound' = Bound /\ Newest' = Newest
  BY LedgerFrame
<1>1. TypeOK'
  BY ZenonT(90) DEF TypeOK, Steps
<1>2. ProcInv(p)'
  <2>1. pc'[p] = "complete" /\ lock'[p] = lock[p] /\ plan'[p] = plan[p] /\ recon'[p] = recon[p]
    BY DEF TypeOK
  <2> QED
    BY <1>0, <2>1, ZenonT(90) DEF ProcInv, Applying, Settled
<1>3. LedgerInv' /\ LocksRetained'
  BY <1>0, Zenon DEF LedgerInv, LocksRetained
<1> QED
  BY <1>1, <1>2, <1>3, GoOnInv, Zenon DEF TypeOK

\* Recording the completion, after which nothing is pending.
LEMMA CompleteInv ==
    ASSUME IInv, NEW p \in Procs, Complete(p)
    PROVE  IInv'
<1> USE DEF IInv, Complete, files
<1>1. Pending = {Newest} /\ plan[p] = Newest /\ Newest \in 1 .. Len(events) /\ active = Bound
  BY ZenonT(90) DEF ProcInv, Applying, Pending
<1>2. Newest' = Newest /\ Bound' = Bound /\ Pending' = {}
  BY <1>1 DEF Pending, Bound, Newest, TypeOK
<1>3. guard = p /\ \A q \in Procs \ {p} : pc[q] = "idle"
  BY OthersIdle, ZenonT(90)
<1>4. pc'[p] \in {"resolve", "finish"} /\ (pc'[p] = "resolve" => lock[p] = NoLock)
      /\ \A q \in Procs \ {p} : pc'[q] = pc[q]
  BY DEF Goto, TypeOK, ProcInv
<1>5. TypeOK'
  <2>1. completed' \subseteq 1 .. Len(events')
    BY <1>1 DEF TypeOK
  <2>2. plan' \in [Procs -> Nat] /\ pc' \in [Procs -> Steps]
    BY Zenon DEF TypeOK, Goto, Steps
  <2>3. recon' \in [Procs -> BOOLEAN]
    BY DEF TypeOK
  <2>4. runner' \in [Procs -> MaybeLock]
    BY Zenon DEF TypeOK, StopRunner, MaybeLock
  <2> QED
    BY <2>1, <2>2, <2>3, <2>4, ZenonT(90) DEF TypeOK
<1>6. Exclusive'
  BY <1>3, <1>4, ZenonT(90) DEF Exclusive
<1>7. LedgerInv' /\ (last.epoch <= Newest)' /\ CollectionIsGenuine'
  BY <1>1, <1>2, ZenonT(90) DEF LedgerInv, CollectionIsGenuine
<1>8. ASSUME NEW q \in Procs PROVE ProcInv(q)'
  <2>1. CASE q = p
    <3>1. recon'[p] = FALSE
      BY ZenonT(90) DEF TypeOK
    <3> QED
      BY <2>1, <3>1, <1>2, <1>4, ZenonT(90) DEF ProcInv, Applying, Settled
  <2>2. CASE q # p
    <3>1. pc'[q] = "idle" /\ lock'[q] = NoLock /\ recon'[q] = recon[q] /\ ~recon[q]
      <4>1. recon' = [recon EXCEPT ![p] = FALSE] /\ recon \in [Procs -> BOOLEAN]
        BY ZenonT(90) DEF TypeOK
      <4>2. pc'[q] = "idle" /\ lock'[q] = NoLock /\ ~recon[q]
        BY <2>2, <1>3, <1>4, ZenonT(90) DEF ProcInv, Applying
      <4> HIDE DEF IInv, Complete
      <4> QED
        BY <2>2, <4>1, <4>2
    <3> QED
      BY <3>1, ZenonT(90) DEF ProcInv, Applying, Settled
  <2> QED
    BY <2>1, <2>2, ZenonT(90)
<1>9. LocksRetained'
  <2>1. events[Newest].desired = active
    BY <1>1 DEF Bound, Newest
  <2> QED
    BY <1>1, <2>1 DEF LocksRetained
<1> QED
  BY <1>5, <1>6, <1>7, <1>8, <1>9, ZenonT(90)

\* A step that only moves pc or fills a local while nothing is pending.
LEMMA SettledInv ==
    ASSUME IInv, NEW p \in Procs, pc[p] \in Settled, pc'[p] \in Settled, TypeOK', guard' = guard,
           UNCHANGED <<events, completed, files, last, recon>>,
           \A q \in Procs \ {p} : pc'[q] = pc[q] /\ lock'[q] = lock[q],
           pc'[p] \in {"resolve", "dry", "append"} => lock'[p] = NoLock,
           pc'[p] \in {"append", "begin"} => op'[p] \in Transitions /\ prev'[p] = Bound,
           pc'[p] = "append" => op'[p] = "admit",
           pc'[p] = "dry" /\ op'[p] = "admit" => prev'[p] = Bound,
           pc'[p] = "begin" /\ lock'[p] = NoLock => Bound # NoLock,
           pc'[p] \in {"exchange", "commit"} => lock'[p] = Bound /\ lock'[p] # NoLock,
           pc'[p] = "commit" => helper'[p] \in {lock'[p], NoLock}
    PROVE  IInv'
<1> USE DEF IInv, files
<1>0. Pending' = Pending /\ Bound' = Bound /\ Newest' = Newest
  BY LedgerFrame, ZenonT(90)
<1>1. Pending = {} /\ ~recon[p]
  BY ZenonT(90) DEF ProcInv, Applying, Settled
<1>2. ProcInv(p)'
  BY <1>0, <1>1 DEF ProcInv, Applying, Settled
<1>3. LedgerInv' /\ LocksRetained'
  BY <1>0, ZenonT(90) DEF LedgerInv, LocksRetained
<1>4. pc[p] # "idle"
  BY ZenonT(90) DEF Settled
<1> QED
  BY <1>2, <1>3, <1>4, GoOnInv, ZenonT(90)

\* The lock in force is a lock or none.
LEMMA BoundType == ASSUME TypeOK PROVE Bound \in MaybeLock
<1>1. CASE events = <<>>
  BY <1>1 DEF Bound, MaybeLock
<1>2. CASE events # <<>>
  <2>1. events[Len(events)] \in Event
    BY <1>2 DEF TypeOK
  <2> QED
    BY <1>2, <2>1 DEF Bound, Event
<1> QED
  BY <1>1, <1>2

\* The steps that resolve the binding: collect, ...
LEMMA ResolveCollectInv ==
    ASSUME IInv, NEW p \in Procs, ResolveCollect(p)
    PROVE  IInv'
<1> USE DEF ResolveCollect
<1>1. CASE Return(p, NoLock)
  BY <1>1, ReturnInv, Zenon DEF IInv, TypeOK, MaybeLock
<1>2. CASE /\ Authoritative /\ Bound # NoLock
           /\ lock' = [lock EXCEPT ![p] = Bound]
           /\ Goto(p, "exchange")
           /\ UNCHANGED <<guard, runner, op, plan, recon, prev, helper>>
  <2>1. TypeOK'
    BY <1>2, BoundType, ZenonT(90) DEF IInv, TypeOK, Goto, Steps, db, files
  <2>2. pc'[p] = "exchange" /\ lock'[p] = Bound
        /\ \A q \in Procs \ {p} : pc'[q] = pc[q] /\ lock'[q] = lock[q]
    BY <1>2 DEF IInv, TypeOK, Goto
  <2> QED
    BY <1>2, <2>1, <2>2, SettledInv, Zenon DEF Settled, db
<1> QED
  BY <1>1, <1>2, ZenonT(90)

\* ... sweep, test and admit, ...
LEMMA ResolveActionInv ==
    ASSUME IInv, NEW p \in Procs, ResolveSweep(p) \/ ResolveTest(p) \/ ResolveAdmit(p)
    PROVE  IInv'
<1>0. pc[p] = "resolve" /\ lock[p] = NoLock /\ UNCHANGED <<db, files, last, faults>>
  BY ZenonT(90) DEF IInv, ProcInv, ResolveSweep, ResolveTest, ResolveAdmit
<1>1. CASE Return(p, runner[p])
  BY <1>0, <1>1, ReturnInv, ZenonT(90) DEF IInv, TypeOK
<1>2. CASE op[p] = "test" /\ Continue(p, "dry")
  <2>1. TypeOK'
    BY <1>0, <1>2 DEF IInv, TypeOK, Continue, Goto, Steps, db, files, local
  <2>2. pc'[p] = "dry" /\ \A q \in Procs \ {p} : pc'[q] = pc[q]
    BY <1>2 DEF IInv, TypeOK, Continue, Goto
  <2> QED
    BY <1>0, <1>2, <2>1, <2>2, SettledInv, Zenon DEF Settled, db, Continue, local
<1>3. CASE op[p] = "admit" /\ ResolvePrevious(p, "dry") /\ UNCHANGED lock
  <2>1. TypeOK'
    BY <1>0, <1>3, BoundType, ZenonT(90) DEF IInv, TypeOK, ResolvePrevious, Goto, Steps, db, files
  <2>2. pc'[p] = "dry" /\ prev'[p] = Bound /\ \A q \in Procs \ {p} : pc'[q] = pc[q]
    BY <1>3 DEF IInv, TypeOK, ResolvePrevious, Goto
  <2> QED
    BY <1>0, <1>3, <2>1, <2>2, SettledInv, ZenonT(90) DEF Settled, db, ResolvePrevious
<1> QED
  BY <1>1, <1>2, <1>3, ZenonT(90) DEF ResolveSweep, ResolveTest, ResolveAdmit

\* ... rollback and revoke.
LEMMA ResolveRevertInv ==
    ASSUME IInv, NEW p \in Procs, ResolveRollback(p) \/ ResolveRevoke(p)
    PROVE  IInv'
<1>0. pc[p] = "resolve" /\ lock[p] = NoLock /\ op[p] \in Transitions
      /\ UNCHANGED <<db, files, last, faults>>
  BY ZenonT(90) DEF IInv, ProcInv, ResolveRollback, ResolveRevoke, Transitions
<1>1. CASE Return(p, runner[p])
  BY <1>0, <1>1, ReturnInv, ZenonT(90) DEF IInv, TypeOK
<1>2. ASSUME ResolvePrevious(p, "begin"), NEW l \in MaybeLock, lock' = [lock EXCEPT ![p] = l],
             l = NoLock => Bound # NoLock
      PROVE  IInv'
  <2>1. TypeOK'
    BY <1>0, <1>2, BoundType, ZenonT(90) DEF IInv, TypeOK, ResolvePrevious, Goto, Steps, db, files
  <2>2. pc'[p] = "begin" /\ prev'[p] = Bound /\ lock'[p] = l
        /\ \A q \in Procs \ {p} : pc'[q] = pc[q] /\ lock'[q] = lock[q]
    BY <1>2 DEF IInv, TypeOK, ResolvePrevious, Goto
  <2> QED
    BY <1>0, <1>2, <2>1, <2>2, SettledInv, Zenon DEF Settled, db, ResolvePrevious
<1>3. CASE ResolveRollback(p) /\ ~Return(p, runner[p])
  <2>1. PICK l \in (history \cup {active}) \cap admissions : lock' = [lock EXCEPT ![p] = l]
    BY <1>3, Zenon DEF ResolveRollback
  <2>2. l \in MaybeLock /\ l # NoLock
    BY <2>1, BindingAssumption DEF IInv, TypeOK, MaybeLock
  <2> QED
    BY <1>2, <1>3, <2>1, <2>2, Zenon DEF ResolveRollback
<1>4. CASE ResolveRevoke(p) /\ ~Return(p, runner[p])
  <2>1. lock' = [lock EXCEPT ![p] = NoLock] /\ NoLock \in MaybeLock
    BY <1>0, <1>4 DEF ResolveRevoke, IInv, TypeOK, MaybeLock
  <2> QED
    BY <1>2, <1>4, <2>1, ZenonT(90) DEF ResolveRevoke
<1> QED
  BY <1>1, <1>3, <1>4

\* The dry exchange and the new admission.
LEMMA DryExchangeInv ==
    ASSUME IInv, NEW p \in Procs, DryExchange(p)
    PROVE  IInv'
<1>0. pc[p] = "dry" /\ lock[p] = NoLock /\ UNCHANGED <<db, files, last, faults>>
  BY Zenon DEF IInv, ProcInv, DryExchange
<1>1. CASE Return(p, NoLock)
  BY <1>0, <1>1, ReturnInv, Zenon DEF IInv, TypeOK, MaybeLock
<1>2. CASE op[p] = "admit" /\ Continue(p, "append")
  <2>1. TypeOK'
    BY <1>0, <1>2 DEF IInv, TypeOK, Continue, Goto, Steps, db, files, local
  <2>2. pc'[p] = "append" /\ \A q \in Procs \ {p} : pc'[q] = pc[q]
    BY <1>2 DEF IInv, TypeOK, Continue, Goto
  <2>3. prev[p] = Bound
    BY <1>0, <1>2, ZenonT(90) DEF IInv, ProcInv
  <2> QED
    BY <1>0, <1>2, <2>1, <2>2, <2>3, SettledInv, ZenonT(90) DEF Settled, db, Continue, local, Transitions
<1> QED
  BY <1>1, <1>2, Zenon DEF DryExchange

LEMMA AppendAdmissionInv ==
    ASSUME IInv, NEW p \in Procs, AppendAdmission(p)
    PROVE  IInv'
<1> USE DEF AppendAdmission
<1>1. PICK l \in Locks \ admissions :
        admissions' = admissions \cup {l} /\ lock' = [lock EXCEPT ![p] = l]
  BY ZenonT(90)
<1>2. TypeOK'
  BY <1>1, ZenonT(90) DEF IInv, TypeOK, Goto, Steps, MaybeLock, files
<1>3. pc'[p] = "begin" /\ lock'[p] = l
      /\ \A q \in Procs \ {p} : pc'[q] = pc[q] /\ lock'[q] = lock[q]
  BY <1>1 DEF IInv, TypeOK, Goto
<1>4. prev[p] = Bound /\ op[p] \in Transitions
  BY ZenonT(90) DEF IInv, ProcInv
<1> QED
  BY <1>1, <1>2, <1>3, <1>4, SettledInv, BindingAssumption, ZenonT(90) DEF Settled

\* The transaction that decides: the new event is the only pending one, and
\* the active file is its previous lock.
LEMMA BeginInv ==
    ASSUME IInv, NEW p \in Procs, Begin(p)
    PROVE  IInv'
<1> USE DEF Begin
<1>1. CASE Pending # {}
  BY <1>1, Zenon DEF IInv, ProcInv, Settled
<1>2. CASE Pending = {}
  <2> DEFINE e == [kind |-> EventKind(op[p]), desired |-> lock[p], previous |-> prev[p]]
  <2>0. /\ TypeOK /\ Exclusive /\ LedgerInv /\ (\A q \in Procs : ProcInv(q))
        /\ last.epoch <= Newest /\ CollectionIsGenuine /\ LocksRetained
    BY Zenon DEF IInv
  <2>1. /\ events' = Append(events, e) /\ plan' = [plan EXCEPT ![p] = Len(events) + 1]
        /\ Goto(p, "check") /\ UNCHANGED <<guard, runner, op, recon, lock, prev, helper>>
        /\ UNCHANGED <<admissions, completed, files, last, faults>>
    BY <1>2, ZenonT(90)
  <2> HIDE DEF Begin
  <2>2. op[p] \in Transitions /\ prev[p] = Bound /\ active = Bound /\ pc[p] = "begin"
    BY <1>2, <2>0, ZenonT(90) DEF ProcInv, LedgerInv, Begin
  <2>3. e \in Event
    <3>1. lock[p] \in MaybeLock /\ prev[p] \in MaybeLock
      BY <2>0 DEF TypeOK
    <3> QED
      BY <2>2, <3>1 DEF EventKind, Event, Kinds, Transitions
  <2> HIDE DEF e
  <2>4. /\ events' \in Seq(Event) /\ Len(events') = Len(events) + 1 /\ Len(events) \in Nat
        /\ events'[Len(events')] = e /\ \A i \in 1 .. Len(events) : events'[i] = events[i]
    <3>1. events \in Seq(Event)
      BY <2>0, EventsType
    <3> QED
      BY <2>1, <2>3, <3>1
  <2>len. Len(events') = Len(events) + 1 /\ Len(events) \in Nat
    BY <2>4
  <2>5. Newest' = Newest + 1 /\ Pending' = {Newest'}
    <3>1. completed = 1 .. Len(events)
      BY <1>2, <2>0, EventsType, Zenon DEF Pending
    <3>2. Pending' = (1 .. (Len(events) + 1)) \ (1 .. Len(events))
      BY <2>1, <2>4, <3>1 DEF Pending
    <3>3. (1 .. (Len(events) + 1)) \ (1 .. Len(events)) = {Len(events) + 1}
      BY <2>4
    <3> QED
      BY <2>4, <3>2, <3>3 DEF Newest
  <2>6. e.previous = active /\ e.desired = lock[p]
    BY <2>2, ZenonT(90) DEF e
  <2>7. TypeOK'
    <3>1. plan' \in [Procs -> Nat] /\ pc' \in [Procs -> Steps]
      <4>1. plan \in [Procs -> Nat] /\ pc \in [Procs -> Steps]
        BY <2>0, ZenonT(90) DEF TypeOK
      <4>2. Len(events) + 1 \in Nat
        BY <2>4
      <4>3. plan' = [plan EXCEPT ![p] = Len(events) + 1] /\ pc' = [pc EXCEPT ![p] = "check"]
        BY <2>1 DEF Goto
      <4> QED
        BY <4>1, <4>2, <4>3 DEF Steps
    <3>2. completed' \subseteq 1 .. Len(events')
      <4>1. completed \subseteq 1 .. Len(events) /\ completed' = completed
        BY <2>0, <2>1, EventsType, ZenonT(90)
      <4> QED
        BY <2>len, <4>1
    <3>3. events' \in Seq(Event)
      BY <2>4, ZenonT(90)
    <3> QED
      BY <2>0, <2>1, <3>1, <3>2, <3>3 DEF TypeOK, files
  <2>8. guard = p /\ \A q \in Procs \ {p} : pc[q] = "idle"
    BY <2>2, OthersIdle, ZenonT(90)
  <2>9. Exclusive'
    BY <2>0, <2>1, <2>8 DEF Exclusive, Goto, TypeOK
  <2>10. LedgerInv'
    BY <2>1, <2>4, <2>5, <2>6, Zenon DEF LedgerInv, Newest, files
  <2>11. ASSUME NEW q \in Procs PROVE ProcInv(q)'
    <3>1. CASE q = p
      <4>1. pc'[p] = "check" /\ plan'[p] = Newest' /\ ~recon'[p]
        BY <2>0, <2>1, <2>2, <2>5, ZenonT(90) DEF Goto, TypeOK, ProcInv, Applying, Newest
      <4> QED
        BY <3>1, <4>1, <2>5, ZenonT(90) DEF ProcInv, Applying, Settled
    <3>2. CASE q # p
      <4>1. pc'[q] = "idle" /\ lock'[q] = NoLock /\ ~recon'[q]
        BY <3>2, <2>0, <2>1, <2>8, Zenon DEF ProcInv, Applying, Goto, TypeOK
      <4> QED
        BY <4>1 DEF ProcInv, Applying, Settled
    <3> QED
      BY <3>1, <3>2, ZenonT(90)
  <2>12. (last.epoch <= Newest)'
    <3>1. last.epoch \in Nat
      BY <2>0 DEF TypeOK
    <3>2. last.epoch <= Len(events) /\ last' = last
      BY <2>0, <2>1 DEF Newest
    <3> QED
      BY <2>len, <3>1, <3>2 DEF Newest
  <2>13. CollectionIsGenuine'
    <3>1. last.epoch \in Nat
      BY <2>0 DEF TypeOK
    <3>2. last.epoch # 0 => last.epoch \in 1 .. Len(events)
      <4>1. last.epoch <= Len(events)
        BY <2>0, ZenonT(90) DEF Newest
      <4> QED
        BY <2>len, <3>1, <4>1
    <3> QED
      BY <2>0, <2>1, <2>4, <3>2, Zenon DEF CollectionIsGenuine
  <2>14. LocksRetained'
    BY <2>0, <2>1, <2>4, EventsType DEF LocksRetained, files
  <2> QED
    BY <2>7, <2>9, <2>10, <2>11, <2>12, <2>13, <2>14 DEF IInv
<1> QED
  BY <1>1, <1>2, ZenonT(90)

\* The helper exchange: whichever helper answers is bound to the lock.
LEMMA ExchangeInv ==
    ASSUME IInv, NEW p \in Procs, Exchange(p)
    PROVE  IInv'
<1> USE DEF Exchange
<1>1. lock[p] = Bound /\ lock[p] # NoLock /\ lock[p] \in MaybeLock /\ NoLock \in MaybeLock
  BY ZenonT(90) DEF IInv, ProcInv, TypeOK, MaybeLock
<1>2. PICK serving \in {lock[p]}, answered \in BOOLEAN, launched \in BOOLEAN :
        /\ runner' = [runner EXCEPT ![p] = IF answered THEN serving ELSE NoLock]
        /\ helper' = [helper EXCEPT ![p] = IF launched THEN serving ELSE NoLock]
  BY Zenon DEF KeptRunner
<1>3. TypeOK'
  BY <1>1, <1>2, ZenonT(90) DEF IInv, TypeOK, Goto, Steps, files, db
<1>4. pc'[p] = "commit" /\ helper'[p] \in {lock[p], NoLock}
      /\ \A q \in Procs \ {p} : pc'[q] = pc[q]
  BY <1>2, ZenonT(90) DEF IInv, TypeOK, Goto
<1> QED
  BY <1>1, <1>3, <1>4, SettledInv, Zenon DEF Settled, db

\* The commit of a collection.
LEMMA CommitInv ==
    ASSUME IInv, NEW p \in Procs, Commit(p)
    PROVE  IInv'
<1> USE DEF IInv, Commit, db, files
<1>0. Pending' = Pending /\ Bound' = Bound /\ Newest' = Newest
  BY LedgerFrame, ZenonT(90)
<1>1. lock[p] = Bound /\ Bound # NoLock /\ helper[p] \in {Bound, NoLock}
  BY ZenonT(90) DEF ProcInv
<1>2. last' = [lock |-> Bound, helper |-> helper[p], epoch |-> Newest]
  BY <1>1, Zenon DEF Newest
<1>3. Newest \in Nat \ {0} /\ events[Newest].desired = Bound
  <2>1. events # <<>> /\ events \in Seq(Event)
    BY <1>1, EventsType, Zenon DEF Bound
  <2> HIDE DEF IInv, Commit
  <2> QED
    BY <2>1 DEF Bound, Newest
<1>4. guard = p /\ \A q \in Procs \ {p} : pc[q] = "idle"
  BY OthersIdle, ZenonT(90)
<1>5. TypeOK'
  <2>1. last' \in [lock : MaybeLock, helper : MaybeLock, epoch : Nat]
    <3>1. Bound \in MaybeLock /\ NoLock \in MaybeLock
      BY BoundType DEF MaybeLock
    <3> HIDE DEF IInv, Commit
    <3> QED
      BY <1>1, <1>2, <1>3, <3>1, ZenonT(90)
  <2>2. guard' \in Procs \cup {NoProc} /\ runner' \in [Procs -> MaybeLock]
    BY ZenonT(90) DEF Return, TypeOK, MaybeLock
  <2> QED
    BY <2>1, <2>2, ForgetTypes, ZenonT(90) DEF TypeOK, Return
<1>6. ASSUME NEW q \in Procs
      PROVE  pc'[q] = "idle" /\ lock'[q] = NoLock /\ ~recon'[q]
  BY <1>4, <1>6, ZenonT(90) DEF Return, Forget, Goto, TypeOK, ProcInv, Applying
<1>7. Exclusive' /\ \A q \in Procs : ProcInv(q)'
  BY <1>6, ZenonT(90) DEF Exclusive, ProcInv, Applying, Settled
<1>8. LedgerInv' /\ LocksRetained'
  BY <1>0, ZenonT(90) DEF LedgerInv, LocksRetained
<1>9. (last.epoch <= Newest)' /\ CollectionIsGenuine'
  <2>2. events' = events
    OBVIOUS
  <2> HIDE DEF IInv, Commit
  <2>1. last'.epoch = Newest /\ last'.lock = Bound /\ last'.helper = helper[p]
    BY <1>2
  <2> QED
    BY <1>0, <1>1, <1>3, <2>1, <2>2 DEF CollectionIsGenuine
<1> QED
  BY <1>5, <1>7, <1>8, <1>9, ZenonT(90)

\* Faults, and the daemon's unguarded binding watch.
LEMMA FaultInv ==
    ASSUME IInv, NEW p \in Procs, Fail(p) \/ Crash(p) \/ Finish(p)
    PROVE  IInv'
<1>0. TypeOK /\ runner[p] \in MaybeLock /\ NoLock \in MaybeLock
  BY DEF IInv, TypeOK, MaybeLock
<1>1. CASE Fail(p)
  BY <1>0, <1>1, ReturnInv, BindingAssumption DEF Fail, TypeOK
<1>2. CASE Crash(p)
  <2>1. runner' \in [Procs -> MaybeLock] /\ faults' \in 0 .. MaxFaults
    BY <1>0, <1>2, BindingAssumption DEF Crash, StopRunner, TypeOK
  <2> QED
    BY <1>2, <2>1, LeaveInv DEF Crash
<1>3. CASE Finish(p)
  BY <1>0, <1>3, ReturnInv, Zenon DEF Finish, TypeOK
<1> QED
  BY <1>1, <1>2, <1>3, ZenonT(90)

LEMMA WatchInv ==
    ASSUME IInv, NEW p \in Procs, Watch(p)
    PROVE  IInv'
<1> USE DEF IInv, Watch, db, files, local
<1>0. Pending' = Pending /\ Bound' = Bound /\ Newest' = Newest
  BY LedgerFrame, ZenonT(90)
<1>1. TypeOK'
  BY DEF TypeOK, StopRunner, MaybeLock
<1>2. Exclusive' /\ LedgerInv' /\ CollectionIsGenuine' /\ LocksRetained' /\ (last.epoch <= Newest)'
  BY <1>0, ZenonT(90) DEF Exclusive, LedgerInv, CollectionIsGenuine, LocksRetained
<1>3. \A q \in Procs : ProcInv(q)'
  BY <1>0, ZenonT(90) DEF ProcInv
<1> QED
  BY <1>1, <1>2, <1>3, Zenon

\* The inductive step: one case per action of Next.
LEMMA NextInv == IInv /\ [Next]_vars => IInv'
<1> SUFFICES ASSUME IInv, [Next]_vars PROVE IInv'
  OBVIOUS
<1>1. CASE UNCHANGED vars
  <2> USE <1>1 DEF vars, db, files, local
  <2>1. Pending' = Pending /\ Bound' = Bound /\ Newest' = Newest
    BY LedgerFrame
  <2>2. TypeOK' = TypeOK
    BY DEF TypeOK
  <2>3. Exclusive' = Exclusive /\ LedgerInv' = LedgerInv
    BY <2>1 DEF Exclusive, LedgerInv
  <2>4. CollectionIsGenuine' = CollectionIsGenuine /\ LocksRetained' = LocksRetained
    BY DEF CollectionIsGenuine, LocksRetained
  <2>5. ASSUME NEW p \in Procs, ProcInv(p) PROVE ProcInv(p)'
    BY <2>1, <2>5, ZenonT(90) DEF ProcInv
  <2> QED
    BY <2>1, <2>2, <2>3, <2>4, <2>5 DEF IInv
<1>2. ASSUME NEW p \in Procs, NEW o \in Ops, Enter(p, o) PROVE IInv'
  BY <1>2, EnterInv
<1>3. ASSUME NEW p \in Procs, Apply(p) PROVE IInv'
  BY <1>3, CheckCurrentInv, ArchiveInv, WriteInv, SyncDirectoryInv, CompleteInv DEF Apply
<1>4. ASSUME NEW p \in Procs, Resolve(p) PROVE IInv'
  BY <1>4, ResolveCollectInv, ResolveActionInv, ResolveRevertInv DEF Resolve
<1>5. ASSUME NEW p \in Procs, Step(p) PROVE IInv'
  BY <1>3, <1>4, <1>5, ReconcileInv, DryExchangeInv, AppendAdmissionInv, BeginInv, FaultInv,
     ExchangeInv, CommitInv DEF Step
<1>6. ASSUME NEW p \in Procs, Fail(p) \/ Crash(p) \/ Watch(p) PROVE IInv'
  BY <1>6, FaultInv, WatchInv
<1> QED
  BY <1>1, <1>2, <1>5, <1>6 DEF Next

\* IInv is an invariant of the protocol.
THEOREM Inductive == Spec => []IInv
BY InitInv, NextInv, PTL DEF Spec

\* Type correctness.
THEOREM TypeCorrect == Spec => []TypeOK
BY Inductive, PTL DEF IInv

\* When no intent is pending, the active file is what the ledger calls for.
THEOREM Materialized == Spec => []MaterializationAgrees
<1>1. IInv => MaterializationAgrees
  BY DEF IInv, LedgerInv, MaterializationAgrees, Authoritative
<1> QED
  BY <1>1, Inductive, PTL

\* However often processes die, a replay never meets a foreign lock file and
\* a reconciled engine never finds drift or someone else's pending intent.
THEOREM Recoverable == Spec => []RecoveryNeverStuck
<1>1. IInv => RecoveryNeverStuck
  <2> SUFFICES ASSUME IInv, NEW p \in Procs
               PROVE  /\ pc[p] = "check" => CurrentAgrees(p)
                      /\ pc[p] = "resolve" => Authoritative
                      /\ pc[p] = "begin" => Pending = {}
    BY ZenonT(90) DEF RecoveryNeverStuck
  <2> USE DEF IInv, ProcInv, LedgerInv
  <2>1. pc[p] = "check" => CurrentAgrees(p)
    BY ZenonT(90) DEF Applying, CurrentAgrees
  <2>2. pc[p] = "resolve" => Authoritative
    BY ZenonT(90) DEF Settled, Authoritative
  <2>3. pc[p] = "begin" => Pending = {}
    BY ZenonT(90) DEF Settled
  <2> QED
    BY <2>1, <2>2, <2>3, Zenon
<1> QED
  BY <1>1, Inductive, PTL

\* A collection runs from start to commit under the lock in force.
THEOREM Fenced == Spec => []CollectsUnderBinding
<1>1. IInv => CollectsUnderBinding
  BY DEF IInv, ProcInv, LedgerInv, Settled, CollectsUnderBinding
<1> QED
  BY <1>1, Inductive, PTL

\* Committed collections name the lock that was in force, and their helper's.
THEOREM Genuine == Spec => []CollectionIsGenuine
BY Inductive, PTL DEF IInv

\* No materialized lock loses its last file.
THEOREM Retained == Spec => []LocksRetained
BY Inductive, PTL DEF IInv

\* The active file only ever moves from the previous to the desired lock of
\* the newest event, under the guard and while that event is pending.
THEOREM FileFollowsLedger == Spec => ActiveFollowsLedger
<1> DEFINE A == active' # active =>
                  /\ guard # NoProc
                  /\ Pending = {Len(events)}
                  /\ active \in {NoLock, events[Len(events)].previous}
                  /\ active' = Bound
<1>1. ASSUME IInv, NEW p \in Procs, Write(p) PROVE A
  <2> USE DEF IInv, Newest
  <2>1. Pending = {Newest} /\ plan[p] = Newest /\ guard = p /\ pc[p] = "write"
    BY <1>1, ZenonT(90) DEF ProcInv, Applying, Write, Exclusive
  <2>2. Bound = events[Newest].desired
    <3>1. events # <<>>
      BY <2>1 DEF Pending
    <3> QED
      BY <3>1 DEF Bound
  <2> QED
    BY <1>1, <2>1, <2>2, BindingAssumption, ZenonT(90) DEF Write, LedgerInv
<1>2. ASSUME IInv, [Next]_vars PROVE [A]_vars
  <2>1. ASSUME NEW p \in Procs, \E o \in Ops : Enter(p, o) PROVE active' = active
    BY <2>1 DEF Enter, files
  <2>2. ASSUME NEW p \in Procs, Step(p), ~Write(p) PROVE active' = active
    BY <2>2, ZenonT(90) DEF Step, Reconcile, Apply, CheckCurrent, Archive, SyncDirectory, Complete, Resolve,
       ResolveCollect, ResolveSweep, ResolveTest, ResolveAdmit, ResolveRollback, ResolveRevoke,
       DryExchange, AppendAdmission, Begin, Finish, Exchange, Commit, files
  <2>3. ASSUME NEW p \in Procs, Fail(p) \/ Crash(p) \/ Watch(p) PROVE active' = active
    BY <2>3, Zenon DEF Fail, Crash, Watch, files
  <2>4. CASE UNCHANGED vars
    BY <2>4
  <2>5. CASE Next
    BY <1>1, <1>2, <2>1, <2>2, <2>3, <2>5 DEF Next
  <2> QED
    BY <1>2, <2>4, <2>5
<1> QED
  BY <1>2, Inductive, PTL DEF Spec, ActiveFollowsLedger

-----------------------------------------------------------------------------
(* The protocol implements the atomic binding ledger. *)

\* The mapped ledger is a sequence whose last element is the lock in force.
LEMMA LedgerMap ==
    ASSUME TypeOK
    PROVE  /\ Ledger \in Seq(MaybeLock) /\ Len(Ledger) = Len(events)
           /\ Authority!Current = Bound
<1>1. Ledger \in Seq(MaybeLock) /\ Len(Ledger) = Len(events)
  <2>1. Len(events) \in Nat /\ \A i \in 1 .. Len(events) : events[i].desired \in MaybeLock
    <3>1. Len(events) \in Nat /\ \A i \in 1 .. Len(events) : events[i] \in Event
      BY DEF TypeOK
    <3>2. \A e \in Event : e.desired \in MaybeLock
      BY DEF Event
    <3> QED
      BY <3>1, <3>2
  <2>2. Ledger \in [1 .. Len(events) -> MaybeLock]
    BY <2>1 DEF Ledger
  <2> QED
    BY <2>1, <2>2
<1>2. CASE events = <<>>
  <2>1. Ledger = <<>>
    BY <1>2 DEF Ledger
  <2> QED
    BY <1>2, <2>1 DEF Authority!Current, Bound
<1>3. CASE events # <<>>
  <2>1. Ledger # <<>> /\ Len(events) \in 1 .. Len(events)
    BY <1>1, <1>3 DEF TypeOK
  <2> QED
    BY <1>1, <1>3, <2>1 DEF Authority!Current, Bound, Ledger
<1> QED
  BY <1>1, <1>2, <1>3

\* A step that leaves the events and the recorded collection alone, and no
\* one's collection in or out of flight, is a stutter of the ledger.
LEMMA StutterStep ==
    ASSUME UNCHANGED <<events, last>>, Inflight' = Inflight
    PROVE  UNCHANGED Authority!vars
BY DEF Authority!vars, Ledger

\* An operation that is left before its commit abandons its collection, if it
\* has one in flight.
LEMMA LeaveStep ==
    ASSUME IInv, NEW p \in Procs, Forget(p), UNCHANGED <<events, last>>
    PROVE  Authority!Abandon(p) \/ UNCHANGED Authority!vars
<1> USE DEF IInv
<1>1. Inflight' = [Inflight EXCEPT ![p] = NoLock]
  BY Zenon DEF Inflight, Forget, Goto, TypeOK
<1>2. CASE Inflight[p] = NoLock
  <2>1. Inflight' = Inflight
    BY <1>1, <1>2, Zenon DEF Inflight
  <2> QED
    BY <2>1, StutterStep
<1>3. CASE Inflight[p] # NoLock
  BY <1>1, <1>3 DEF Authority!Abandon, Ledger
<1> QED
  BY <1>2, <1>3

\* While an engine is inside an operation but not in a collection, no
\* collection is in flight.
LEMMA NothingInFlight ==
    ASSUME IInv, NEW p \in Procs, pc[p] \notin {"idle", "exchange", "commit"}
    PROVE  Authority!Quiet
BY OthersIdle DEF Authority!Quiet, Inflight

LEMMA BeginStep ==
    ASSUME IInv, NEW p \in Procs, Begin(p), Pending = {}
    PROVE  Authority!Bind(lock[p]) /\ lock[p] \in Locks \cup {NoLock}
<1> USE DEF IInv
<1>1. Authority!Quiet
  BY NothingInFlight, ZenonT(90) DEF Begin
<1>2. lock[p] = NoLock => Authority!Current # NoLock
  BY LedgerMap, ZenonT(90) DEF Begin, ProcInv
<1>3. Ledger' = Append(Ledger, lock[p])
  <2> DEFINE e == [kind |-> EventKind(op[p]), desired |-> lock[p], previous |-> prev[p]]
  <2>1. events' = Append(events, e) /\ e.desired = lock[p]
    BY Zenon DEF Begin
  <2> HIDE DEF e
  <2>2. /\ Len(events') = Len(events) + 1 /\ Len(events) \in Nat
        /\ \A i \in 1 .. Len(events) + 1 :
             events'[i] = IF i = Len(events) + 1 THEN e ELSE events[i]
    <3>1. events \in Seq(Event)
      BY EventsType
    <3> HIDE DEF IInv
    <3>2. /\ Len(Append(events, e)) = Len(events) + 1 /\ Len(events) \in Nat
          /\ \A i \in 1 .. Len(events) + 1 :
               Append(events, e)[i] = IF i = Len(events) + 1 THEN e ELSE events[i]
      BY <3>1, AppendElements
    <3> QED
      BY <2>1, <3>2
  <2>3. Ledger \in Seq(MaybeLock) /\ Len(Ledger) = Len(events)
    BY LedgerMap
  <2>4. Append(Ledger, lock[p]) =
          [i \in 1 .. Len(events) + 1 |-> IF i = Len(events) + 1 THEN lock[p] ELSE Ledger[i]]
    <3> HIDE DEF IInv
    <3> QED
      BY <2>2, <2>3
  <2>5. Ledger' = [i \in 1 .. Len(events) + 1 |-> events'[i].desired]
    BY <2>2 DEF Ledger
  <2>6. \A i \in 1 .. Len(events) + 1 :
          events'[i].desired = IF i = Len(events) + 1 THEN lock[p] ELSE Ledger[i]
    <3> HIDE DEF IInv
    <3> QED
      BY <2>1, <2>2 DEF Ledger
  <2> HIDE DEF IInv
  <2> QED
    BY <2>4, <2>5, <2>6
<1>4. Inflight' = Inflight /\ UNCHANGED last
  <2>1. pc' = [pc EXCEPT ![p] = "check"] /\ UNCHANGED <<lock, last>> /\ pc[p] = "begin"
    BY DEF Begin, Goto
  <2> QED
    BY <2>1 DEF Inflight, TypeOK
<1> QED
  BY <1>1, <1>2, <1>3, <1>4 DEF Authority!Bind, TypeOK, MaybeLock

LEMMA StartStep ==
    ASSUME IInv, NEW p \in Procs, ResolveCollect(p)
    PROVE  Authority!Start(p) \/ Authority!Abandon(p) \/ UNCHANGED Authority!vars
<1> USE DEF IInv, ResolveCollect, db
<1>1. CASE Return(p, NoLock)
  BY <1>1, LeaveStep, ZenonT(90) DEF Return
<1>2. CASE ~Return(p, NoLock)
  <2>1. Bound # NoLock /\ lock' = [lock EXCEPT ![p] = Bound] /\ pc' = [pc EXCEPT ![p] = "exchange"]
    BY <1>2 DEF Goto
  <2>2. Inflight' = [Inflight EXCEPT ![p] = Bound]
    BY <2>1, ZenonT(90) DEF Inflight, TypeOK
  <2>3. Authority!Quiet
    BY NothingInFlight, ZenonT(90)
  <2> QED
    BY <2>1, <2>2, <2>3, LedgerMap DEF Authority!Start, Ledger
<1> QED
  BY <1>1, <1>2, Zenon

LEMMA CommitStep ==
    ASSUME IInv, NEW p \in Procs, Commit(p)
    PROVE  Authority!Commit(p)
<1> USE DEF IInv, Commit, db
<1>1. lock[p] = Bound /\ Bound # NoLock /\ helper[p] \in {Bound, NoLock}
  BY ZenonT(90) DEF ProcInv
<1>2. last' = [lock |-> Bound, helper |-> helper[p], epoch |-> Len(events)]
  BY <1>1, ZenonT(90)
<1>3. Inflight[p] = Bound
  BY <1>1 DEF Inflight
<1>4. Inflight' = [Inflight EXCEPT ![p] = NoLock]
  BY ZenonT(90) DEF Return, Forget, Goto, Inflight, TypeOK
<1>5. Ledger' = Ledger
  BY Zenon DEF Ledger
<1> QED
  BY <1>1, <1>2, <1>3, <1>4, <1>5, LedgerMap DEF Authority!Commit

\* Every behaviour of the protocol, with its crashes and half-done file
\* operations, is a behaviour of the ledger that decides atomically.
THEOREM Implements == Spec => ImplementsAuthority
<1>1. Init => Authority!Init
  BY DEF Init, Authority!Init, Ledger, Inflight
<1>2. ASSUME IInv, [Next]_vars PROVE [Authority!Next]_(Authority!vars)
  <2>1. CASE UNCHANGED vars
    <3>1. Inflight' = Inflight
      BY <2>1 DEF vars, local, Inflight
    <3> QED
      BY <2>1, <3>1, StutterStep DEF vars, db
  <2>2. ASSUME NEW p \in Procs, NEW o \in Ops, Enter(p, o) PROVE UNCHANGED Authority!vars
    <3>1. Inflight' = Inflight
      BY <1>2, <2>2 DEF Enter, Goto, Inflight, IInv, TypeOK
    <3> QED
      BY <2>2, <3>1, StutterStep DEF Enter, db
  <2>3. ASSUME NEW p \in Procs, Return(p, runner[p]) \/ Return(p, NoLock), UNCHANGED <<events, last>>
        PROVE  Authority!Abandon(p) \/ UNCHANGED Authority!vars
    BY <1>2, <2>3, LeaveStep DEF Return
  <2>4. ASSUME NEW p \in Procs, NEW s \in Steps \ {"exchange", "commit"},
               pc[p] \notin {"exchange", "commit"}, Goto(p, s),
               \A q \in Procs \ {p} : lock'[q] = lock[q], UNCHANGED <<events, last>>
        PROVE  UNCHANGED Authority!vars
    <3>1. Inflight' = Inflight
      BY <1>2, <2>4 DEF Goto, Inflight, IInv, TypeOK
    <3> QED
      BY <2>4, <3>1, StutterStep
  <2>5. ASSUME NEW p \in Procs, Apply(p) \/ Reconcile(p)
        PROVE  Authority!Abandon(p) \/ UNCHANGED Authority!vars
    <3>1. UNCHANGED <<events, last>>
      BY <2>5, Zenon DEF Apply, CheckCurrent, Archive, Write, SyncDirectory, Complete, Reconcile, db
    <3>2. CASE CheckCurrent(p) /\ Return(p, runner[p])
      BY <2>3, <3>1, <3>2
    <3>3. CASE ~Return(p, runner[p])
      <4>1. \E s \in Steps \ {"exchange", "commit"} : Goto(p, s)
        BY <2>5, <3>3, ZenonT(90) DEF Apply, CheckCurrent, Archive, Write, SyncDirectory, Complete, Reconcile,
           Continue, Steps
      <4>2. pc[p] \notin {"exchange", "commit"} /\ lock' = lock
        BY <2>5, <3>3, Zenon DEF Apply, CheckCurrent, Archive, Write, SyncDirectory, Complete, Reconcile,
           Continue, local
      <4> QED
        BY <2>4, <3>1, <4>1, <4>2, ZenonT(90)
    <3> QED
      BY <2>3, <3>1, <3>2, <3>3
  <2>6. ASSUME NEW p \in Procs, Resolve(p) \/ DryExchange(p) \/ AppendAdmission(p)
        PROVE  Authority!Start(p) \/ Authority!Abandon(p) \/ UNCHANGED Authority!vars
    <3>1. CASE ResolveCollect(p)
      BY <1>2, <3>1, StartStep
    <3>2. CASE ~ResolveCollect(p) /\ (Return(p, runner[p]) \/ Return(p, NoLock))
      <4>1. UNCHANGED <<events, last>>
        BY <2>6, <3>2, ZenonT(90) DEF Resolve, ResolveSweep, ResolveTest, ResolveAdmit, ResolveRollback,
           ResolveRevoke, DryExchange, AppendAdmission, db
      <4> QED
        BY <2>3, <3>2, <4>1
    <3>3. CASE ~ResolveCollect(p) /\ ~Return(p, runner[p]) /\ ~Return(p, NoLock)
      <4>1. /\ UNCHANGED <<events, last>> /\ pc[p] \notin {"exchange", "commit"}
            /\ \E s \in {"dry", "append", "begin"} : Goto(p, s)
        BY <2>6, <3>3, ZenonT(90) DEF Resolve, ResolveSweep, ResolveTest, ResolveAdmit, ResolveRollback,
           ResolveRevoke, ResolvePrevious, DryExchange, AppendAdmission, Continue, db
      <4>2. lock' = lock \/ \E l : lock' = [lock EXCEPT ![p] = l]
        BY <2>6, <3>3, ZenonT(90) DEF Resolve, ResolveSweep, ResolveTest, ResolveAdmit, ResolveRollback,
           ResolveRevoke, DryExchange, AppendAdmission, Continue, local
      <4>3. \A q \in Procs \ {p} : lock'[q] = lock[q]
        BY <1>2, <4>2 DEF IInv, TypeOK
      <4> QED
        BY <2>4, <4>1, <4>3, ZenonT(90) DEF Steps
    <3> QED
      BY <3>1, <3>2, <3>3
  <2>7. ASSUME NEW p \in Procs, Begin(p)
        PROVE  \/ \E l \in Locks \cup {NoLock} : Authority!Bind(l)
               \/ Authority!Abandon(p) \/ UNCHANGED Authority!vars
    <3>1. CASE Pending = {}
      BY <1>2, <2>7, <3>1, BeginStep, ZenonT(90)
    <3>2. CASE Pending # {}
      BY <2>3, <2>7, <3>2, ZenonT(90) DEF Begin
    <3> QED
      BY <3>1, <3>2
  <2>8. ASSUME NEW p \in Procs, Exchange(p) PROVE UNCHANGED Authority!vars
    <3>1. Inflight' = Inflight
      BY <1>2, <2>8 DEF Exchange, Goto, Inflight, IInv, TypeOK
    <3> QED
      BY <2>8, <3>1, StutterStep, ZenonT(90) DEF Exchange, db
  <2>9. ASSUME NEW p \in Procs, Finish(p) \/ Fail(p) \/ Crash(p)
        PROVE  Authority!Abandon(p) \/ UNCHANGED Authority!vars
    BY <1>2, <2>9, LeaveStep DEF Finish, Fail, Crash, Return, db
  <2>10. ASSUME NEW p \in Procs, Watch(p) PROVE UNCHANGED Authority!vars
    <3>1. Inflight' = Inflight
      BY <2>10 DEF Watch, Inflight, local
    <3> QED
      BY <2>10, <3>1, StutterStep, ZenonT(90) DEF Watch, db
  <2>11. ASSUME NEW p \in Procs, Step(p) PROVE [Authority!Next]_(Authority!vars)
    BY <1>2, <2>5, <2>6, <2>7, <2>8, <2>9, <2>11, CommitStep DEF Step, Authority!Next
  <2>12. CASE Next
    BY <2>2, <2>9, <2>10, <2>11, <2>12 DEF Next, Authority!Next
  <2> QED
    BY <1>2, <2>1, <2>12
<1> QED
  BY <1>1, <1>2, Inductive, PTL DEF Spec, ImplementsAuthority, Authority!Spec
=============================================================================
