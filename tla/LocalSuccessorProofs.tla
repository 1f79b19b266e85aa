------------------------ MODULE LocalSuccessorProofs ------------------------
(***************************************************************************)
(* The inductive invariant of LocalSuccessor, the lemmas for its steps and   *)
(* the theorems that follow, for every set of processes, identities,       *)
(* configurations and runs, and every bound on deaths and power losses.    *)
(*                                                                         *)
(* The invariants of LocalSuccessor rest on facts about the committed      *)
(* transactions (StoreInv), on the guard (Guarded), on the run identities  *)
(* being drawn once (Owned), and on what a process knows of its own run at *)
(* each step of its command (ProcInv).                                     *)
(***************************************************************************)
EXTENDS LocalSuccessor, TLAPS, FiniteSetTheorems

Index == 1 .. Len(log)

\* The rows of one identity or one run hang together: an identity has one
\* fence, the helper of a fenced run was invoked for the fence's identity, a
\* committed collection had its helper invoked, and a completion follows the
\* fence of its identity.  Only the newest commit may be unsynced.
StoreInv ==
    /\ Len(log) <= synced + 1
    /\ \A n \in Index : log[n].run \in drawn
    /\ \A x \in invoked : x[2] \in drawn
    /\ \A m, n \in Index :
         log[m].kind = "fence" /\ log[n].kind = "fence" /\ log[m].id = log[n].id => m = n
    /\ \A n \in Index : log[n].kind = "fence" =>
         \A x \in invoked : x[2] = log[n].run => x[1] = log[n].id
    /\ \A n \in Index : log[n].kind = "collection" => \E x \in invoked : x[2] = log[n].run
    /\ \A n \in Index : log[n].kind = "complete" =>
         \E m \in Index : m < n /\ log[m].kind = "fence" /\ log[m].id = log[n].id

\* From the history check to the end of the collection a process has the guard.
Guarded == \A p \in Procs : pc[p] \in {"prepare", "fence", "invoke", "commit"} => guard = p

\* No two processes work on the same run.
Owned == \A p \in Procs : run[p] # None =>
    run[p] \in drawn /\ \A q \in Procs : run[q] = run[p] => q = p

FenceOf(p) == [kind |-> "fence", id |-> id[p], watcher |-> watcher[p], run |-> run[p]]

\* What a process may rely on at each step of its command.
ProcInv(p) ==
    /\ id[p] = None <=> op[p] \in {"execute", "collect"}
    /\ pc[p] # "idle" => watcher[p] \in Watchers
    /\ pc[p] = "lookup" => id[p] # None
    /\ pc[p] \notin {"idle", "lookup"} => op[p] # "replay"
    /\ pc[p] \in {"fence", "complete"} => op[p] = "acquire"
    /\ run[p] # None <=> pc[p] \in {"fence", "invoke", "commit", "complete"}
    /\ pc[p] = "fence" =>
         /\ \A n \in Index : log[n].run # run[p]
         /\ \A x \in invoked : x[2] # run[p]
    /\ pc[p] \in {"invoke", "commit", "complete"} =>
         /\ \A n \in Index : log[n].kind = "fence" /\ log[n].run = run[p] => log[n].id = id[p]
         /\ \A x \in invoked : x[2] = run[p] => x[1] = id[p]
         /\ op[p] = "acquire" => \E n \in Index : log[n] = FenceOf(p)
    /\ pc[p] \in {"commit", "complete"} => <<id[p], run[p]>> \in invoked
    /\ pc[p] = "complete" =>
         \E n \in Index : log[n].kind = "collection" /\ log[n].run = run[p] /\ log[n].artifact

\* Whoever was handed an artifact of a named acquisition was handed that of a
\* fence no power loss can take any more.
DeliveredInv == \A d \in delivered :
    /\ <<d.id, d.run>> \in invoked
    /\ d.id # None => \E n \in 1 .. synced :
         log[n] = [kind |-> "fence", id |-> d.id, watcher |-> d.watcher, run |-> d.run]

\* The invocations of an identity, with the one its fence still allows.
Allowed(i) == Invocations(i) \cup {<<i, f.run>> : f \in Intents(i)}

BoundedInv == \A i \in Ids :
    /\ IsFiniteSet(Allowed(i))
    /\ Cardinality(Allowed(i)) <= losses + (IF Intents(i) = {} THEN 0 ELSE 1)

IInv ==
    /\ TypeOK
    /\ StoreInv
    /\ Guarded
    /\ Owned
    /\ \A p \in Procs : ProcInv(p)
    /\ DeliveredInv
    /\ BoundedInv
    /\ HistoryStillAllows

-----------------------------------------------------------------------------
(* Facts used by several actions. *)

Row == Fence \cup Collection \cup Completion

\* The elements of a sequence after an Append, by which every transaction
\* extends the history.
LEMMA AppendElements ==
    ASSUME NEW S, NEW s \in Seq(S), NEW x \in S
    PROVE  /\ Len(Append(s, x)) = Len(s) + 1 /\ Len(s) \in Nat
           /\ Append(s, x) \in Seq(S)
           /\ \A i \in 1 .. Len(s) + 1 :
                Append(s, x)[i] = IF i = Len(s) + 1 THEN x ELSE s[i]
OBVIOUS

\* A power loss leaves a prefix of the history, element by element.
LEMMA PrefixElements ==
    ASSUME NEW S, NEW s \in Seq(S), NEW n \in 0 .. Len(s)
    PROVE  /\ Len(SubSeq(s, 1, n)) = n /\ SubSeq(s, 1, n) \in Seq(S)
           /\ \A i \in 1 .. n : SubSeq(s, 1, n)[i] = s[i]
OBVIOUS

\* What TypeOK says of the committed rows.
LEMMA RowTypes ==
    ASSUME TypeOK
    PROVE  /\ log \in Seq(Row) /\ Len(log) \in Nat /\ synced \in 0 .. Len(log)
           /\ \A n \in Index : /\ log[n] \in Row /\ log[n].run \in Runs
                               /\ log[n].kind = "fence" => log[n] \in Fence
                               /\ log[n].kind = "collection" => log[n] \in Collection
                               /\ log[n].kind = "complete" => log[n] \in Completion
<1>1. log \in Seq(Row) /\ Len(log) \in Nat /\ synced \in 0 .. Len(log)
  BY DEF TypeOK, Row
<1>2. ASSUME NEW n \in Index PROVE log[n] \in Row
  BY <1>1, <1>2 DEF Index
<1>3. ASSUME NEW r \in Row
      PROVE  /\ r.run \in Runs
             /\ r.kind = "fence" => r \in Fence
             /\ r.kind = "collection" => r \in Collection
             /\ r.kind = "complete" => r \in Completion
  BY <1>3 DEF Row, Fence, Collection, Completion
<1> QED
  BY <1>1, <1>2, <1>3

\* Reading the history is reading its rows by their place.
LEMMA RowsByIndex ==
    /\ \A i : Intents(i) = {log[n] : n \in {m \in Index : log[m].kind = "fence" /\ log[m].id = i}}
    /\ \A i : Intents(i) = {} <=> \A n \in Index : ~(log[n].kind = "fence" /\ log[n].id = i)
    /\ \A r : HasArtifact(r) <=>
         \E n \in Index : log[n].kind = "collection" /\ log[n].run = r /\ log[n].artifact
    /\ \A i : Terminal(i) <=> \E n \in Index : log[n].kind = "complete" /\ log[n].id = i
    /\ Matching = {} <=> \A n \in Index : ~(log[n].kind = "collection" /\ log[n].admitted)
<1>1. ASSUME NEW i
      PROVE  Intents(i) = {log[n] : n \in {m \in Index : log[m].kind = "fence" /\ log[m].id = i}}
  BY DEF Intents, Rows, Index
<1>2. ASSUME NEW i
      PROVE  Intents(i) = {} <=> \A n \in Index : ~(log[n].kind = "fence" /\ log[n].id = i)
  BY <1>1
<1>3. ASSUME NEW r
      PROVE  HasArtifact(r) <=>
               \E n \in Index : log[n].kind = "collection" /\ log[n].run = r /\ log[n].artifact
  BY DEF HasArtifact, Rows, Index
<1>4. ASSUME NEW i
      PROVE  Terminal(i) <=> \E n \in Index : log[n].kind = "complete" /\ log[n].id = i
  BY DEF Terminal, Rows, Index
<1>5. Matching = {} <=> \A n \in Index : ~(log[n].kind = "collection" /\ log[n].admitted)
  BY DEF Matching, Rows, Index
<1> QED
  BY <1>1, <1>2, <1>3, <1>4, <1>5

\* A command that ends gives up its guard and its run and keeps the types.
LEMMA ReturnTypes ==
    ASSUME TypeOK, NEW p \in Procs, Return(p)
    PROVE  /\ guard' \in Procs \cup {NoProc} /\ pc' \in [Procs -> Steps] /\ op' \in [Procs -> Ops]
           /\ id' \in [Procs -> Ids \cup {None}] /\ watcher' \in [Procs -> Watchers \cup {None}]
           /\ run' \in [Procs -> Runs \cup {None}]
           /\ pc'[p] = "idle" /\ op'[p] = "collect" /\ id'[p] = None /\ run'[p] = None
           /\ \A q \in Procs \ {p} :
                /\ pc'[q] = pc[q] /\ op'[q] = op[q] /\ id'[q] = id[q] /\ watcher'[q] = watcher[q]
                /\ run'[q] = run[q] /\ (guard = q => guard' = q)
BY SuccessorAssumption DEF TypeOK, Return, Goto, Forget, Steps, Ops

\* What the store says stays true while no row is added and no helper invoked.
LEMMA StoreFrame ==
    ASSUME StoreInv, UNCHANGED <<log, synced, invoked>>, drawn \subseteq drawn'
    PROVE  StoreInv' /\ Index' = Index
BY ZenonT(90) DEF StoreInv, Index

\* A process that does not move keeps what it knows while the history stands.
LEMMA ProcFrame ==
    ASSUME NEW q \in Procs, ProcInv(q), UNCHANGED <<log, invoked>>,
           pc'[q] = pc[q], op'[q] = op[q], id'[q] = id[q], watcher'[q] = watcher[q], run'[q] = run[q]
    PROVE  ProcInv(q)'
BY DEF ProcInv, Index, FenceOf

\* A process at rest has nothing to know.
LEMMA ProcIdle ==
    ASSUME NEW q \in Procs, pc'[q] = "idle", op'[q] = "collect", id'[q] = None, run'[q] = None
    PROVE  ProcInv(q)'
BY DEF ProcInv

\* Deliveries and the bound on invocations depend on the store alone.
LEMMA RecordFrame ==
    ASSUME UNCHANGED <<log, synced, invoked, losses>>
    PROVE  /\ BoundedInv => BoundedInv'
           /\ DeliveredInv /\ delivered' = delivered => DeliveredInv'
           /\ Matching' = Matching
<1>1. Matching' = Matching /\ \A i : Intents(i)' = Intents(i) /\ Invocations(i)' = Invocations(i)
  BY DEF Matching, Rows, Intents, Invocations
<1>2. BoundedInv => BoundedInv'
  BY <1>1, Zenon DEF BoundedInv, Allowed
<1>3. DeliveredInv /\ delivered' = delivered => DeliveredInv'
  BY Zenon DEF DeliveredInv
<1> QED
  BY <1>1, <1>2, <1>3

\* A command that ends without a transaction disturbs nobody.
LEMMA ReturnStep ==
    ASSUME IInv, NEW p \in Procs, Return(p), UNCHANGED <<db, drawn, invoked, losses>>
    PROVE  /\ StoreInv' /\ Guarded' /\ Owned' /\ BoundedInv' /\ HistoryStillAllows'
           /\ \A q \in Procs : ProcInv(q)'
           /\ delivered' = delivered => DeliveredInv'
           /\ TypeOK /\ delivered' \subseteq Delivery /\ faults' \in 0 .. MaxFaults => TypeOK'
<1> USE DEF db
<1>1. TypeOK
  BY DEF IInv
<1>2. /\ pc'[p] = "idle" /\ op'[p] = "collect" /\ id'[p] = None /\ run'[p] = None
      /\ \A q \in Procs \ {p} :
           /\ pc'[q] = pc[q] /\ op'[q] = op[q] /\ id'[q] = id[q] /\ watcher'[q] = watcher[q]
           /\ run'[q] = run[q] /\ (guard = q => guard' = q)
  BY <1>1, ReturnTypes
<1>3. StoreInv' /\ BoundedInv' /\ Matching' = Matching
      /\ (delivered' = delivered => DeliveredInv')
  BY StoreFrame, RecordFrame DEF IInv
<1>4. Guarded'
  BY <1>2 DEF IInv, Guarded
<1>5. Owned'
  BY <1>2 DEF IInv, Owned
<1>6. HistoryStillAllows'
  BY <1>2, <1>3, ZenonT(90) DEF IInv, HistoryStillAllows, SnapshotAllows
<1>7. \A q \in Procs : ProcInv(q)'
  BY <1>2, ProcFrame, ProcIdle DEF IInv
<1>8. TypeOK /\ delivered' \subseteq Delivery /\ faults' \in 0 .. MaxFaults => TypeOK'
  BY <1>1, ReturnTypes DEF TypeOK
<1> QED
  BY <1>3, <1>4, <1>5, <1>6, <1>7, <1>8

\* One more row: where it is, and that the earlier rows stay in their places.
LEMMA CommitFacts ==
    ASSUME TypeOK, NEW row \in Row, Commits(row)
    PROVE  /\ Len(log) \in Nat /\ Len(log') = Len(log) + 1 /\ synced' = Len(log)
           /\ log' \in Seq(Row) /\ synced' \in 0 .. Len(log')
           /\ Index' = Index \cup {Len(log) + 1} /\ Len(log) + 1 \notin Index
           /\ \A n \in Index : log'[n] = log[n]
           /\ log'[Len(log) + 1] = row
           /\ \A n \in 1 .. synced : n \in 1 .. synced' /\ log'[n] = log[n]
<1>1. /\ log \in Seq(Row) /\ Len(log) \in Nat /\ log' = Append(log, row) /\ synced' = Len(log)
      /\ synced \in 0 .. Len(log)
  BY RowTypes DEF Commits
<1>2. /\ Len(log') = Len(log) + 1 /\ log' \in Seq(Row)
      /\ \A i \in 1 .. Len(log) + 1 : log'[i] = IF i = Len(log) + 1 THEN row ELSE log[i]
  BY <1>1, AppendElements, ZenonT(90)
<1> QED
  BY <1>1, <1>2 DEF Index

\* The store's invariant after a commit, from what it needs of the new row.
LEMMA StoreCommitted ==
    ASSUME StoreInv, NEW row, NEW x, Len(log) \in Nat, x = Len(log) + 1, Index' = Index \cup {x},
           \A n \in Index : log'[n] = log[n], log'[x] = row, synced' = Len(log), Len(log') = x,
           invoked' = invoked, drawn' = drawn, row.run \in drawn,
           row.kind = "fence" => /\ \A n \in Index : ~(log[n].kind = "fence" /\ log[n].id = row.id)
                                 /\ \A y \in invoked : y[2] = row.run => y[1] = row.id,
           row.kind = "collection" => \E y \in invoked : y[2] = row.run,
           row.kind = "complete" =>
             \E m \in Index : m < x /\ log[m].kind = "fence" /\ log[m].id = row.id
    PROVE  StoreInv'
<1>1. Len(log') <= synced' + 1
  OBVIOUS
<1>2. \A m, n \in Index' :
        log'[m].kind = "fence" /\ log'[n].kind = "fence" /\ log'[m].id = log'[n].id => m = n
  BY DEF StoreInv
<1>3. \A n \in Index' : log'[n].kind = "fence" =>
        \A y \in invoked' : y[2] = log'[n].run => y[1] = log'[n].id
  BY DEF StoreInv
<1>4. \A n \in Index' : log'[n].kind = "collection" => \E y \in invoked' : y[2] = log'[n].run
  BY DEF StoreInv
<1>5. \A n \in Index' : log'[n].kind = "complete" =>
        \E m \in Index' : m < n /\ log'[m].kind = "fence" /\ log'[m].id = log'[n].id
  BY DEF StoreInv
<1>6. (\A n \in Index' : log'[n].run \in drawn') /\ \A y \in invoked' : y[2] \in drawn'
  BY ZenonT(90) DEF StoreInv
<1> QED
  BY <1>1, <1>2, <1>3, <1>4, <1>5, <1>6, ZenonT(90) DEF StoreInv

\* The store's invariant after a power loss, but for what it says of completions.
LEMMA StoreCut ==
    ASSUME StoreInv, Index' \subseteq Index, \A n \in Index' : log'[n] = log[n], invoked' = invoked,
           drawn' = drawn, Len(log') <= synced' + 1,
           \A n \in Index' : log'[n].kind = "complete" =>
             \E m \in Index' : m < n /\ log'[m].kind = "fence" /\ log'[m].id = log'[n].id
    PROVE  StoreInv'
  BY DEF StoreInv

\* A row of another process's run takes nothing from what a process knows.
LEMMA CommitFrame ==
    ASSUME IInv, NEW p \in Procs, NEW q \in Procs \ {p}, NEW row \in Row, Commits(row),
           run[p] # None, row.run = run[p], UNCHANGED invoked,
           pc'[q] = pc[q], op'[q] = op[q], id'[q] = id[q], watcher'[q] = watcher[q], run'[q] = run[q]
    PROVE  ProcInv(q)'
<1>1. /\ Index' = Index \cup {Len(log) + 1} /\ \A n \in Index : log'[n] = log[n]
      /\ log'[Len(log) + 1] = row
  BY CommitFacts, ZenonT(90) DEF IInv
<1>2. run[q] # row.run /\ ProcInv(q)
  BY DEF IInv, Owned
<1> QED
  BY <1>1, <1>2 DEF ProcInv, FenceOf

\* A commit takes no artifact back from a caller.
LEMMA DeliveredCommit ==
    ASSUME IInv, NEW row \in Row, Commits(row), UNCHANGED <<invoked, delivered>>
    PROVE  DeliveredInv'
<1>1. /\ Len(log) \in Nat /\ synced' = Len(log) /\ synced \in 0 .. Len(log)
      /\ \A n \in 1 .. Len(log) : log'[n] = log[n]
  BY CommitFacts, RowTypes DEF IInv, Index
<1>2. 1 .. synced \subseteq 1 .. synced' /\ \A n \in 1 .. synced : log'[n] = log[n]
  BY <1>1
<1>3. ASSUME NEW d \in delivered, d.id # None
      PROVE  \E n \in 1 .. synced' :
               log'[n] = [kind |-> "fence", id |-> d.id, watcher |-> d.watcher, run |-> d.run]
  BY <1>2, <1>3, ZenonT(90) DEF IInv, DeliveredInv
<1> QED
  BY <1>3, Zenon DEF IInv, DeliveredInv

\* A row that is no fence leaves the acquisitions alone; one that is no
\* collection leaves the evaluated history alone.
LEMMA OtherRow ==
    ASSUME IInv, NEW row \in Row, Commits(row), UNCHANGED <<invoked, losses>>
    PROVE  /\ row.kind # "fence" => BoundedInv'
           /\ row.kind # "collection" => (Matching' = {} <=> Matching = {})
<1>1. /\ Index' = Index \cup {Len(log) + 1} /\ \A n \in Index : log'[n] = log[n]
      /\ log'[Len(log) + 1] = row
  BY CommitFacts DEF IInv
<1>2. ASSUME row.kind # "fence", NEW i PROVE Intents(i)' = Intents(i)
  <2>1. Intents(i)' = {log'[n] : n \in {m \in Index' : log'[m].kind = "fence" /\ log'[m].id = i}}
    BY DEF Intents, Rows, Index
  <2>2. Intents(i) = {log[n] : n \in {m \in Index : log[m].kind = "fence" /\ log[m].id = i}}
    BY RowsByIndex
  <2> QED
    BY <1>1, <1>2, <2>1, <2>2
<1>3. row.kind # "fence" => BoundedInv'
  BY <1>2 DEF IInv, BoundedInv, Allowed, Invocations
<1>4. row.kind # "collection" => (Matching' = {} <=> Matching = {})
  <2>1. Matching' = {} <=> \A n \in Index' : ~(log'[n].kind = "collection" /\ log'[n].admitted)
    BY DEF Matching, Rows, Index
  <2> QED
    BY <1>1, <2>1, RowsByIndex
<1> QED
  BY <1>3, <1>4

-----------------------------------------------------------------------------
(* One lemma for each action. *)

\* The empty store satisfies the inductive invariant.
LEMMA InitInv == Init => IInv
<1> SUFFICES ASSUME Init PROVE IInv
  OBVIOUS
<1> USE SuccessorAssumption DEF Init
<1>1. TypeOK
  BY DEF TypeOK, Steps, Ops
<1>2. Index = {}
  BY DEF Index
<1>3. StoreInv /\ Guarded /\ Owned /\ DeliveredInv /\ HistoryStillAllows
  BY <1>2 DEF StoreInv, Guarded, Owned, DeliveredInv, HistoryStillAllows
<1>4. ASSUME NEW p \in Procs PROVE ProcInv(p)
  BY DEF ProcInv
<1>5. ASSUME NEW i \in Ids PROVE Allowed(i) = {}
  BY <1>2, RowsByIndex DEF Allowed, Invocations
<1>6. BoundedInv
  <2>1. \A i \in Ids : Intents(i) = {}
    BY <1>2, RowsByIndex
  <2>2. IsFiniteSet({}) /\ Cardinality({}) = 0
    BY FS_EmptySet
  <2>3. ASSUME NEW i \in Ids
        PROVE  IsFiniteSet(Allowed(i)) /\ Cardinality(Allowed(i)) = 0 /\ losses = 0
    BY <1>5, <2>2, Zenon
  <2> QED
    BY <2>1, <2>3 DEF BoundedInv
<1> QED
  BY <1>1, <1>3, <1>4, <1>6 DEF IInv

\* A call touches the locals of its process only.
LEMMA CallInv ==
    ASSUME IInv, NEW p \in Procs, NEW o \in Ops, NEW i \in Ids \cup {None}, NEW w \in Watchers,
           Call(p, o, i, w)
    PROVE  IInv'
<1> USE SuccessorAssumption DEF Call, db
<1>1. TypeOK'
  BY DEF IInv, TypeOK, Goto, Steps
<1>2. StoreInv' /\ BoundedInv' /\ DeliveredInv' /\ Matching' = Matching
  BY StoreFrame, RecordFrame, ZenonT(90) DEF IInv
<1>3. /\ pc'[p] \in {"guard", "lookup"} /\ (pc'[p] = "lookup" <=> i # None)
      /\ op'[p] = o /\ id'[p] = i /\ watcher'[p] = w /\ run'[p] = run[p]
      /\ \A q \in Procs \ {p} :
           pc'[q] = pc[q] /\ op'[q] = op[q] /\ id'[q] = id[q] /\ watcher'[q] = watcher[q]
  BY ZenonT(90) DEF IInv, TypeOK, Goto
<1>4. Guarded' /\ Owned' /\ HistoryStillAllows'
  BY <1>2, <1>3 DEF IInv, Guarded, Owned, HistoryStillAllows, SnapshotAllows
<1>5. ProcInv(p)'
  BY <1>3, ZenonT(90) DEF IInv, ProcInv, Ops
<1>6. ASSUME NEW q \in Procs \ {p} PROVE ProcInv(q)'
  BY <1>3, ProcFrame, Zenon DEF IInv
<1> QED
  BY <1>1, <1>2, <1>4, <1>5, <1>6, ZenonT(90) DEF IInv

LEMMA BelowNewest ==
    ASSUME NEW len \in Nat, NEW s \in 0 .. len, len <= s + 1, NEW n \in 1 .. len, NEW c \in 1 .. len, n < c
    PROVE  n \in 1 .. s
  OBVIOUS

LEMMA PairOf ==
    ASSUME NEW A, NEW B, NEW x \in A \X B
    PROVE  x = <<x[1], x[2]>>
  OBVIOUS

\* A reopened acquisition was completed, so its fence is older than the newest
\* commit and the helper ran for it.
LEMMA ReopenedFence ==
    ASSUME IInv, NEW p \in Procs, pc[p] = "lookup", NEW f \in Intents(id[p]), Reopens(p, f)
    PROVE  /\ <<id[p], f.run>> \in invoked /\ id[p] # None /\ id[p] \in Ids /\ f.run \in Runs
           /\ watcher[p] \in Watchers
           /\ \E n \in 1 .. synced :
                log[n] = [kind |-> "fence", id |-> id[p], watcher |-> watcher[p], run |-> f.run]
<1>1. TypeOK /\ StoreInv /\ ProcInv(p)
  BY ZenonT(90) DEF IInv
<1>2. PICK n \in Index : log[n].kind = "fence" /\ log[n].id = id[p] /\ f = log[n]
  <2>1. Intents(id[p]) = {log[n] : n \in {m \in Index : log[m].kind = "fence" /\ log[m].id = id[p]}}
    BY RowsByIndex, ZenonT(90)
  <2> QED
    BY <2>1, Zenon
<1>3. /\ log[n] \in Fence /\ Len(log) \in Nat /\ synced \in 0 .. Len(log) /\ Len(log) <= synced + 1
      /\ f.run \in Runs /\ f.id = id[p] /\ f.watcher = watcher[p]
  BY <1>1, <1>2, RowTypes, ZenonT(90) DEF Reopens, StoreInv, Fence
<1>4. f = [kind |-> "fence", id |-> id[p], watcher |-> watcher[p], run |-> f.run]
  BY <1>2, <1>3 DEF Fence
<1>5. PICK c \in Index : log[c].kind = "complete" /\ log[c].id = id[p]
  BY <1>3, RowsByIndex, ZenonT(90) DEF Reopens
<1>6. PICK m \in Index : m < c /\ log[m].kind = "fence" /\ log[m].id = id[p]
  BY <1>1, <1>5 DEF StoreInv
<1>7. m = n
  <2>1. log[m].kind = "fence" /\ log[n].kind = "fence" /\ log[m].id = log[n].id => m = n
    BY <1>1, Zenon DEF StoreInv
  <2> QED
    BY <1>2, <1>6, <2>1, Zenon
<1>8. n \in 1 .. synced
  BY <1>3, <1>5, <1>6, <1>7, BelowNewest, ZenonT(90) DEF Index
<1>9. PICK k \in Index : log[k].kind = "collection" /\ log[k].run = f.run
  BY RowsByIndex DEF Reopens
<1>10. PICK x \in invoked : x[2] = f.run
  <2>1. log[k].kind = "collection" => \E y \in invoked : y[2] = log[k].run
    BY <1>1, Zenon DEF StoreInv
  <2> QED
    BY <1>9, <2>1, Zenon
<1>11. x[1] = id[p]
  BY <1>1, <1>2, <1>10, ZenonT(90) DEF StoreInv
<1>12. x = <<id[p], f.run>>
  <2>1. x \in (Ids \cup {None}) \X Runs
    BY <1>1, Zenon DEF TypeOK
  <2>2. x = <<x[1], x[2]>>
    BY <2>1, PairOf, ZenonT(90)
  <2> QED
    BY <1>10, <1>11, <2>2, Zenon
<1>13. id[p] # None /\ id[p] \in Ids /\ watcher[p] \in Watchers
  BY <1>1 DEF ProcInv, TypeOK
<1> QED
  BY <1>2, <1>3, <1>4, <1>8, <1>10, <1>12, <1>13, ZenonT(90)

\* A look-up hands out only what is settled.
LEMMA LookupInv ==
    ASSUME IInv, NEW p \in Procs, Lookup(p)
    PROVE  IInv'
<1>1. pc[p] = "lookup" /\ UNCHANGED <<db, drawn, invoked, faults, losses>> /\ TypeOK /\ DeliveredInv
  BY DEF Lookup, IInv
<1>2. CASE \E f \in Intents(id[p]) : Reopens(p, f) /\ Deliver(p, f.run) /\ Return(p)
  <2>1. PICK f \in Intents(id[p]) : Reopens(p, f) /\ Deliver(p, f.run) /\ Return(p)
    BY <1>2, ZenonT(90)
  <2> DEFINE d == [id |-> id[p], watcher |-> watcher[p], run |-> f.run]
  <2>2. /\ <<id[p], f.run>> \in invoked /\ id[p] # None /\ d \in Delivery
        /\ \E n \in 1 .. synced :
             log[n] = [kind |-> "fence", id |-> id[p], watcher |-> watcher[p], run |-> f.run]
    BY <1>1, <2>1, ReopenedFence, ZenonT(90) DEF Delivery
  <2>3. delivered' = delivered \cup {d}
    BY <2>1, ZenonT(90) DEF Deliver
  <2>4. DeliveredInv'
    <3>1. log' = log /\ synced' = synced /\ invoked' = invoked
      BY <1>1 DEF db
    <3> SUFFICES ASSUME NEW e \in delivered'
                 PROVE  /\ <<e.id, e.run>> \in invoked
                        /\ e.id # None => \E n \in 1 .. synced :
                             log[n] = [kind |-> "fence", id |-> e.id, watcher |-> e.watcher, run |-> e.run]
      BY <3>1, Zenon DEF DeliveredInv
    <3>2. CASE e \in delivered
      BY <1>1, <3>2, ZenonT(90) DEF DeliveredInv
    <3>3. CASE e = d
      BY <2>2, <3>3, ZenonT(90)
    <3> QED
      BY <2>3, <3>2, <3>3
  <2>5. delivered' \subseteq Delivery /\ faults' \in 0 .. MaxFaults
    BY <1>1, <2>2, <2>3, ZenonT(90) DEF TypeOK
  <2> QED
    BY <1>1, <2>1, <2>4, <2>5, ReturnStep, ZenonT(90) DEF IInv
<1>3. CASE Return(p) /\ UNCHANGED delivered
  <2>1. delivered' \subseteq Delivery /\ faults' \in 0 .. MaxFaults
    BY <1>1, <1>3 DEF TypeOK
  <2> QED
    BY <1>1, <1>3, <2>1, ReturnStep DEF IInv
<1>4. CASE op[p] = "acquire" /\ Goto(p, "guard") /\ UNCHANGED <<guard, local, delivered>>
  <2> USE DEF local, db, Goto
  <2>1. TypeOK'
    BY <1>1, <1>4 DEF TypeOK, Steps
  <2>2. StoreInv' /\ BoundedInv' /\ DeliveredInv' /\ Matching' = Matching
    BY <1>1, <1>4, StoreFrame, RecordFrame, ZenonT(90) DEF IInv
  <2>3. pc'[p] = "guard" /\ \A q \in Procs \ {p} : pc'[q] = pc[q]
    BY <1>1, <1>4, ZenonT(90) DEF TypeOK
  <2>4. Guarded' /\ Owned' /\ HistoryStillAllows'
    BY <1>1, <1>4, <2>2, <2>3, ZenonT(90) DEF IInv, Guarded, Owned, HistoryStillAllows, SnapshotAllows
  <2>5. ProcInv(p)'
    BY <1>1, <1>4, <2>3 DEF IInv, ProcInv
  <2>6. ASSUME NEW q \in Procs \ {p} PROVE ProcInv(q)'
    BY <1>1, <1>4, <2>3, ProcFrame, ZenonT(90) DEF IInv
  <2> QED
    BY <2>1, <2>2, <2>4, <2>5, <2>6, ZenonT(90) DEF IInv
<1> QED
  BY <1>2, <1>3, <1>4, ZenonT(90) DEF Lookup

\* The guard is taken only when it is free.
LEMMA AcquireInv ==
    ASSUME IInv, NEW p \in Procs, Acquire(p)
    PROVE  IInv'
<1> USE SuccessorAssumption DEF Acquire, GuardFree, db, local, Goto
<1>1. TypeOK'
  BY DEF IInv, TypeOK, Steps
<1>2. StoreInv' /\ BoundedInv' /\ DeliveredInv' /\ Matching' = Matching
  BY StoreFrame, RecordFrame DEF IInv
<1>3. pc'[p] = "prepare" /\ \A q \in Procs \ {p} : pc'[q] = pc[q]
  BY DEF IInv, TypeOK
<1>4. Guarded'
  BY <1>3, ZenonT(90) DEF IInv, Guarded
<1>5. Owned' /\ HistoryStillAllows'
  BY <1>2, <1>3, ZenonT(90) DEF IInv, Owned, HistoryStillAllows, SnapshotAllows
<1>6. ProcInv(p)'
  BY <1>3, ZenonT(90) DEF IInv, ProcInv
<1>7. ASSUME NEW q \in Procs \ {p} PROVE ProcInv(q)'
  BY <1>3, ProcFrame, ZenonT(90) DEF IInv
<1> QED
  BY <1>1, <1>2, <1>4, <1>5, <1>6, <1>7, ZenonT(90) DEF IInv

\* A drawn run is new to every process and to the store.
LEMMA PrepareInv ==
    ASSUME IInv, NEW p \in Procs, Prepare(p)
    PROVE  IInv'
<1>1. pc[p] = "prepare" /\ UNCHANGED <<db, invoked, delivered, faults, losses>> /\ TypeOK
  BY DEF Prepare, IInv
<1>2. CASE Return(p) /\ UNCHANGED drawn
  <2>1. delivered' \subseteq Delivery /\ faults' \in 0 .. MaxFaults
    BY <1>1 DEF TypeOK
  <2> QED
    BY <1>1, <1>2, <2>1, ReturnStep, ZenonT(90) DEF IInv
<1>3. CASE /\ HistoryAllows(p)
           /\ \E r \in Runs \ drawn : /\ run' = [run EXCEPT ![p] = r]
                                      /\ drawn' = drawn \cup {r}
           /\ Goto(p, IF op[p] = "acquire" THEN "fence" ELSE "invoke")
           /\ UNCHANGED <<guard, op, id, watcher>>
  <2>1. PICK r \in Runs \ drawn : run' = [run EXCEPT ![p] = r] /\ drawn' = drawn \cup {r}
    BY <1>3, Zenon
  <2>2. TypeOK'
    BY <1>1, <1>3, <2>1, ZenonT(90) DEF TypeOK, Steps, Goto, db
  <2>3. StoreInv' /\ BoundedInv' /\ DeliveredInv' /\ Matching' = Matching /\ Index' = Index
    BY <1>1, <2>1, StoreFrame, RecordFrame, ZenonT(90) DEF IInv, db
  <2>4. /\ pc'[p] = IF op[p] = "acquire" THEN "fence" ELSE "invoke"
        /\ run'[p] = r /\ r # None
        /\ \A q \in Procs \ {p} : pc'[q] = pc[q] /\ run'[q] = run[q]
    BY <1>1, <1>3, <2>1, SuccessorAssumption, ZenonT(90) DEF TypeOK, Goto
  <2>5. Guarded' /\ HistoryStillAllows'
    BY <1>1, <1>3, <2>3, <2>4, ZenonT(90)
       DEF IInv, Guarded, HistoryStillAllows, SnapshotAllows, HistoryAllows
  <2>6. \A q \in Procs : run[q] # r
    BY <2>1, <2>4, ZenonT(90) DEF IInv, Owned
  <2>7. Owned'
    BY <2>1, <2>4, <2>6 DEF IInv, Owned
  <2>8. (\A n \in Index : log[n].run # r) /\ (\A x \in invoked : x[2] # r)
    BY <2>1 DEF IInv, StoreInv
  <2>9. ProcInv(p)'
    BY <1>1, <1>3, <2>3, <2>4, <2>8, ZenonT(90) DEF IInv, ProcInv, FenceOf, db
  <2>10. ASSUME NEW q \in Procs \ {p} PROVE ProcInv(q)'
    BY <1>1, <1>3, <2>4, ProcFrame, ZenonT(90) DEF IInv, db
  <2> QED
    BY <2>2, <2>3, <2>5, <2>7, <2>9, <2>10, ZenonT(90) DEF IInv
<1> QED
  BY <1>2, <1>3, ZenonT(90) DEF Prepare

\* The fence of a fresh run is the first of its identity.
LEMMA CommitDispatchInv ==
    ASSUME IInv, NEW p \in Procs, CommitDispatch(p)
    PROVE  IInv'
<1>1. /\ pc[p] = "fence" /\ UNCHANGED <<drawn, invoked, delivered, faults, losses>>
      /\ TypeOK /\ StoreInv /\ Owned /\ Guarded /\ ProcInv(p) /\ BoundedInv /\ HistoryStillAllows
  BY Zenon DEF CommitDispatch, IInv
<1>2. CASE Return(p) /\ UNCHANGED db
  <2>1. delivered' \subseteq Delivery /\ faults' \in 0 .. MaxFaults
    BY <1>1 DEF TypeOK
  <2> QED
    BY <1>1, <1>2, <2>1, ReturnStep, ZenonT(90) DEF IInv
<1>3. CASE /\ FenceFree(id[p], run[p])
           /\ Commits(FenceOf(p))
           /\ Goto(p, "invoke")
           /\ UNCHANGED <<guard, local>>
  <2>1. /\ op[p] = "acquire" /\ id[p] \in Ids /\ watcher[p] \in Watchers /\ run[p] \in Runs
        /\ run[p] # None /\ FenceOf(p) \in Row /\ FenceOf(p).run = run[p]
        /\ FenceOf(p).kind = "fence" /\ FenceOf(p).id = id[p]
    BY <1>1, ZenonT(90) DEF ProcInv, TypeOK, FenceOf, Row, Fence
  <2>2. /\ Index' = Index \cup {Len(log) + 1} /\ Len(log) + 1 \notin Index
        /\ \A n \in Index : log'[n] = log[n]
        /\ log'[Len(log) + 1] = FenceOf(p) /\ synced' = Len(log) /\ Len(log') = Len(log) + 1
        /\ log' \in Seq(Row) /\ synced' \in 0 .. Len(log') /\ Len(log) \in Nat
    BY <1>1, <1>3, <2>1, CommitFacts, ZenonT(90)
  <2>3. (\A n \in Index : log[n].run # run[p]) /\ (\A x \in invoked : x[2] # run[p])
    BY <1>1, ZenonT(90) DEF ProcInv
  <2>4. \A n \in Index : ~(log[n].kind = "fence" /\ log[n].id = id[p])
    <3>1. Intents(id[p]) = {log[n] : n \in {m \in Index : log[m].kind = "fence" /\ log[m].id = id[p]}}
      BY RowsByIndex, ZenonT(90)
    <3> QED
      BY <1>3, <2>3, <3>1, ZenonT(90) DEF FenceFree
  <2>5. TypeOK'
    BY <1>1, <1>3, <2>2, ZenonT(90) DEF TypeOK, Row, Goto, local, Steps
  <2>6. /\ pc'[p] = "invoke" /\ \A q \in Procs \ {p} : pc'[q] = pc[q]
        /\ op' = op /\ id' = id /\ watcher' = watcher /\ run' = run /\ guard' = guard
    BY <1>1, <1>3, ZenonT(90) DEF TypeOK, Goto, local
  <2>7. run[p] \in drawn
    BY <1>1, <2>1, ZenonT(90) DEF Owned
  <2>8. StoreInv'
    <3>1. "fence" # "collection" /\ "fence" # "complete"
      BY ZenonT(90)
    <3> QED
      BY <1>1, <2>1, <2>2, <2>3, <2>4, <2>7, <3>1, StoreCommitted, ZenonT(90)
  <2>9. Guarded' /\ Owned'
    BY <1>1, <2>6 DEF Guarded, Owned
  <2>10. HistoryStillAllows'
    <3>1. Matching' = {} <=> Matching = {}
      BY <1>1, <1>3, <2>1, OtherRow, ZenonT(90)
    <3> QED
      BY <1>1, <2>6, <3>1, ZenonT(90) DEF HistoryStillAllows, SnapshotAllows
  <2>11. ProcInv(p)'
    BY <1>1, <2>1, <2>2, <2>3, <2>6, ZenonT(90) DEF ProcInv, FenceOf
  <2>12. ASSUME NEW q \in Procs \ {p} PROVE ProcInv(q)'
    BY <1>1, <1>3, <2>1, <2>6, CommitFrame, ZenonT(90)
  <2>13. DeliveredInv'
    BY <1>1, <1>3, <2>1, DeliveredCommit, ZenonT(90)
  <2>14. BoundedInv'
    <3> SUFFICES ASSUME NEW i \in Ids
                 PROVE  /\ IsFiniteSet(Allowed(i)')
                        /\ Cardinality(Allowed(i)') <= losses' + (IF Intents(i)' = {} THEN 0 ELSE 1)
      BY DEF BoundedInv
    <3>1. Intents(i) = {log[n] : n \in {m \in Index : log[m].kind = "fence" /\ log[m].id = i}}
      BY RowsByIndex, ZenonT(90)
    <3>2. Intents(i)' = {log'[n] : n \in {m \in Index' : log'[m].kind = "fence" /\ log'[m].id = i}}
      BY DEF Intents, Rows, Index
    <3>3. Invocations(i)' = Invocations(i) /\ losses' = losses /\ losses \in Nat
      BY <1>1 DEF Invocations, TypeOK
    <3>4. CASE i # id[p]
      <4>1. Intents(i)' = Intents(i)
        BY <2>1, <2>2, <3>1, <3>2, <3>4
      <4>2. Allowed(i)' = Allowed(i)
        BY <3>3, <4>1, ZenonT(90) DEF Allowed
      <4> QED
        BY <1>1, <3>3, <4>1, <4>2, ZenonT(90) DEF BoundedInv
    <3>5. CASE i = id[p]
      <4>1. Intents(i) = {} /\ Intents(i)' = {FenceOf(p)}
        <5>1. \A n \in Index : ~(log[n].kind = "fence" /\ log[n].id = i)
          BY <2>4, <3>5, ZenonT(90)
        <5>2. /\ Index' = Index \cup {Len(log) + 1} /\ \A n \in Index : log'[n] = log[n]
              /\ log'[Len(log) + 1] = FenceOf(p) /\ FenceOf(p).kind = "fence" /\ FenceOf(p).id = i
          BY <2>1, <2>2, <3>5, ZenonT(90)
        <5>3. {m \in Index' : log'[m].kind = "fence" /\ log'[m].id = i} = {Len(log) + 1}
          BY <5>1, <5>2
        <5>4. {m \in Index : log[m].kind = "fence" /\ log[m].id = i} = {}
          BY <5>1, ZenonT(90)
        <5> QED
          <6>1. Intents(i) = {log[n] : n \in {}} /\ Intents(i)' = {log'[n] : n \in {Len(log) + 1}}
            BY <3>1, <3>2, <5>3, <5>4, ZenonT(90)
          <6>2. log'[Len(log) + 1] = FenceOf(p)
            BY <5>2, Zenon
          <6> QED
            BY <6>1, <6>2, Zenon
      <4>2. Allowed(i)' = Allowed(i) \cup {<<i, run[p]>>}
        BY <2>1, <3>3, <4>1, ZenonT(90) DEF Allowed
      <4>3. <<i, run[p]>> \notin Allowed(i)
        BY <2>3, <4>1 DEF Allowed, Invocations
      <4>4. IsFiniteSet(Allowed(i)) /\ Cardinality(Allowed(i)) <= losses
        BY <1>1, <3>3, <4>1 DEF BoundedInv
      <4>5. /\ IsFiniteSet(Allowed(i) \cup {<<i, run[p]>>}) /\ Cardinality(Allowed(i)) \in Nat
            /\ Cardinality(Allowed(i) \cup {<<i, run[p]>>}) = Cardinality(Allowed(i)) + 1
        BY <4>3, <4>4, FS_AddElement, FS_CardinalityType, SMTT(30)
      <4> QED
        BY <3>3, <4>1, <4>2, <4>4, <4>5
    <3> QED
      BY <3>4, <3>5
  <2> QED
    BY <2>5, <2>8, <2>9, <2>10, <2>11, <2>12, <2>13, <2>14, ZenonT(90) DEF IInv
<1> QED
  BY <1>2, <1>3, ZenonT(90) DEF CommitDispatch, FenceOf

-----------------------------------------------------------------------------
(* From the invocation of the helper on.                                   *)

\* An invocation uses what the fence of its identity allowed.
LEMMA InvokeInv ==
    ASSUME IInv, NEW p \in Procs, Invoke(p)
    PROVE  IInv'
<1>1. /\ pc[p] = "invoke" /\ UNCHANGED <<db, guard, local, drawn, delivered, faults, losses>>
      /\ invoked' = invoked \cup {<<id[p], run[p]>>} /\ pc' = [pc EXCEPT ![p] = "commit"]
      /\ TypeOK /\ StoreInv /\ Owned /\ Guarded /\ ProcInv(p) /\ BoundedInv /\ HistoryStillAllows
      /\ DeliveredInv /\ \A q \in Procs : ProcInv(q)
  BY DEF Invoke, IInv, Goto
<1>2. /\ log' = log /\ synced' = synced /\ Index' = Index
      /\ op' = op /\ id' = id /\ watcher' = watcher /\ run' = run
  BY <1>1, ZenonT(90) DEF db, local, Index
<1>3. run[p] \in Runs /\ run[p] # None /\ run[p] \in drawn /\ id[p] \in Ids \cup {None}
  BY <1>1 DEF ProcInv, TypeOK, Owned
<1>4. pc'[p] = "commit" /\ \A q \in Procs \ {p} : pc'[q] = pc[q]
  BY <1>1 DEF TypeOK
<1>5. TypeOK'
  BY <1>1, <1>2, <1>3 DEF TypeOK, Steps
<1>6. StoreInv'
  <2>1. /\ \A n \in Index : log[n].kind = "fence" /\ log[n].run = run[p] => log[n].id = id[p]
        /\ invoked' = invoked \cup {<<id[p], run[p]>>} /\ drawn' = drawn
    BY <1>1, ZenonT(90) DEF ProcInv
  <2>2. \A n \in Index' : log'[n].kind = "fence" =>
          \A x \in invoked' : x[2] = log'[n].run => x[1] = log'[n].id
    <3>1. \A n \in Index : log[n].kind = "fence" =>
            \A x \in invoked : x[2] = log[n].run => x[1] = log[n].id
      BY <1>1, Zenon DEF StoreInv
    <3> QED
      BY <1>2, <2>1, <3>1
  <2>3. \A n \in Index' : log'[n].kind = "collection" => \E x \in invoked' : x[2] = log'[n].run
    BY <1>1, <1>2, <2>1, ZenonT(60) DEF StoreInv
  <2>4. \A x \in invoked' : x[2] \in drawn'
    <3>1. \A x \in invoked : x[2] \in drawn
      BY <1>1, ZenonT(60) DEF StoreInv
    <3> QED
      BY <1>3, <2>1, <3>1
  <2> QED
    BY <1>1, <1>2, <2>1, <2>2, <2>3, <2>4, ZenonT(90) DEF StoreInv
<1>7. Guarded' /\ Owned'
  BY <1>1, <1>2, <1>4 DEF Guarded, Owned
<1>8. Matching' = Matching /\ \A i \in Ids : Intents(i)' = Intents(i)
  BY <1>2 DEF Matching, Rows, Intents
<1>9. HistoryStillAllows'
  BY <1>1, <1>2, <1>4, <1>8, ZenonT(90) DEF HistoryStillAllows, SnapshotAllows
<1>10. ProcInv(p)'
  <2>1. /\ <<id[p], run[p]>> \in invoked'
        /\ \A x \in invoked' : x[2] = run[p] => x[1] = id[p]
    BY <1>1 DEF ProcInv
  <2>2. FenceOf(p)' = FenceOf(p)
    BY <1>2 DEF FenceOf
  <2> QED
    BY <1>1, <1>2, <1>4, <2>1, <2>2, ZenonT(90) DEF ProcInv
<1>11. ASSUME NEW q \in Procs \ {p} PROVE ProcInv(q)'
  <2>1. run[q] # run[p]
    BY <1>1, <1>3 DEF Owned
  <2>2. invoked \subseteq invoked' /\ \A x \in invoked' : x[2] = run[q] => x \in invoked
    BY <1>1, <2>1
  <2>3. FenceOf(q)' = FenceOf(q) /\ pc'[q] = pc[q] /\ ProcInv(q)
    BY <1>1, <1>2, <1>4 DEF FenceOf
  <2>4. pc[q] = "fence" => (\A n \in Index' : log'[n].run # run[q]) /\ \A x \in invoked' : x[2] # run[q]
    BY <1>2, <2>2, <2>3, ZenonT(90) DEF ProcInv
  <2>5. pc[q] \in {"invoke", "commit", "complete"} => \A x \in invoked' : x[2] = run[q] => x[1] = id[q]
    BY <2>2, <2>3 DEF ProcInv
  <2>6. pc[q] \in {"commit", "complete"} => <<id[q], run[q]>> \in invoked'
    BY <2>2, <2>3 DEF ProcInv
  <2> QED
    BY <1>2, <2>3, <2>4, <2>5, <2>6, ZenonT(90) DEF ProcInv
<1>12. DeliveredInv'
  BY <1>1, <1>2, Zenon DEF DeliveredInv
<1>13. BoundedInv'
  <2> SUFFICES ASSUME NEW i \in Ids PROVE Allowed(i)' = Allowed(i)
    BY <1>1, <1>8 DEF BoundedInv
  <2>1. CASE i # id[p]
    BY <1>1, <1>8, <2>1 DEF Allowed, Invocations
  <2>2. CASE i = id[p]
    <3>1. op[p] = "acquire"
      BY <1>1, <2>2, SuccessorAssumption DEF ProcInv, TypeOK, Ops
    <3>2. PICK n \in Index : log[n] = FenceOf(p)
      BY <1>1, <3>1, ZenonT(90) DEF ProcInv
    <3>3. FenceOf(p) \in Intents(i)
      <4>1. Intents(i) = {log[m] : m \in {j \in Index : log[j].kind = "fence" /\ log[j].id = i}}
        BY RowsByIndex, ZenonT(90)
      <4>2. FenceOf(p).kind = "fence" /\ FenceOf(p).id = i
        BY <2>2 DEF FenceOf
      <4> QED
        BY <3>2, <4>1, <4>2, Zenon
    <3>4. <<i, run[p]>> \in Allowed(i)
      BY <3>3 DEF Allowed, FenceOf
    <3>5. Invocations(i)' = Invocations(i) \cup {<<i, run[p]>>}
      BY <1>1, <2>2 DEF Invocations
    <3> QED
      BY <1>8, <3>4, <3>5, ZenonT(90) DEF Allowed
  <2> QED
    BY <2>1, <2>2
<1> QED
  BY <1>5, <1>6, <1>7, <1>9, <1>10, <1>11, <1>12, <1>13, ZenonT(90) DEF IInv

\* The collection of a run commits once and only the process that drew the run
\* commits it.
LEMMA CommitCollectionInv ==
    ASSUME IInv, NEW p \in Procs, CommitCollection(p)
    PROVE  IInv'
<1>1. /\ pc[p] = "commit" /\ UNCHANGED <<drawn, invoked, faults, losses>>
      /\ TypeOK /\ StoreInv /\ Owned /\ Guarded /\ BoundedInv /\ HistoryStillAllows
      /\ DeliveredInv /\ \A q \in Procs : ProcInv(q)
  BY DEF CommitCollection, IInv
<1>2. CASE Return(p) /\ UNCHANGED <<db, delivered>>
  <2>1. delivered' \subseteq Delivery /\ faults' \in 0 .. MaxFaults
    BY <1>1, <1>2, ZenonT(90) DEF TypeOK
  <2> QED
    BY <1>1, <1>2, <2>1, ReturnStep DEF IInv
<1>3. ASSUME NEW admitted \in BOOLEAN,
             Commits([kind |-> "collection", run |-> run[p], admitted |-> admitted,
                      artifact |-> Emits(p, admitted)]),
             Collected(p)
      PROVE  IInv'
  <2> DEFINE row == [kind |-> "collection", run |-> run[p], admitted |-> admitted,
                     artifact |-> Emits(p, admitted)]
  <2>1. /\ run[p] \in Runs /\ run[p] # None /\ run[p] \in drawn /\ <<id[p], run[p]>> \in invoked
        /\ watcher[p] \in Watchers /\ id[p] \in Ids \cup {None} /\ guard = p /\ op[p] # "replay"
    BY <1>1, ZenonT(90) DEF ProcInv, TypeOK, Owned, Guarded
  <2>2. Emits(p, admitted) \in BOOLEAN
    BY DEF Emits
  <2>3. row \in Row /\ row.kind = "collection" /\ row.run = run[p] /\ row.artifact = Emits(p, admitted)
    BY <2>1, <2>2 DEF Row, Collection
  <2> HIDE DEF row
  <2>4. Commits(row)
    BY <1>3 DEF row
  <2>5. /\ Index' = Index \cup {Len(log) + 1} /\ Len(log) + 1 \notin Index
        /\ \A n \in Index : log'[n] = log[n]
        /\ log'[Len(log) + 1] = row /\ synced' = Len(log) /\ Len(log') = Len(log) + 1
        /\ log' \in Seq(Row) /\ synced' \in 0 .. Len(log') /\ Len(log) \in Nat
    BY <1>1, <2>3, <2>4, CommitFacts, ZenonT(90)
  <2>6. StoreInv'
    <3>1. "collection" # "fence" /\ "collection" # "complete"
      OBVIOUS
    <3>2. \E x \in invoked : x[2] = run[p]
      BY <2>1, ZenonT(90)
    <3> QED
      BY <1>1, <2>1, <2>3, <2>5, <3>1, <3>2, StoreCommitted, ZenonT(90)
  <2>7. BoundedInv'
    BY <1>1, <2>3, <2>4, OtherRow
  \* The guard is still held, so no other process has its history checked.
  <2>8. ASSUME NEW q \in Procs \ {p} PROVE pc[q] \notin {"prepare", "fence", "invoke", "commit"}
    BY <1>1, <2>1 DEF Guarded
  <2>9. CASE op[p] = "acquire" /\ Goto(p, "complete") /\ guard' = NoProc /\ UNCHANGED <<local, delivered>>
    <3>1. /\ pc'[p] = "complete" /\ \A q \in Procs \ {p} : pc'[q] = pc[q]
          /\ op' = op /\ id' = id /\ watcher' = watcher /\ run' = run
      BY <1>1, <2>9 DEF TypeOK, Goto, local
    <3>2. TypeOK'
      BY <1>1, <2>5, <2>9, ZenonT(90) DEF TypeOK, Row, Goto, local, Steps
    <3>3. Guarded' /\ Owned' /\ HistoryStillAllows'
      BY <1>1, <2>8, <3>1, ZenonT(90) DEF Guarded, Owned, HistoryStillAllows
    <3>4. ProcInv(p)'
      <4>1. row.artifact = TRUE
        BY <2>3, <2>9, Zenon DEF Emits
      <4>2. \E n \in Index' : log'[n].kind = "collection" /\ log'[n].run = run[p] /\ log'[n].artifact
        BY <2>3, <2>5, <4>1, ZenonT(90)
      <4>3. FenceOf(p)' = FenceOf(p) /\ ProcInv(p)
        BY <1>1, <3>1, ZenonT(90) DEF FenceOf
      <4>4. \A n \in Index' : log'[n].kind = "fence" /\ log'[n].run = run[p] => log'[n].id = id[p]
        <5>1. \A n \in Index : log[n].kind = "fence" /\ log[n].run = run[p] => log[n].id = id[p]
          BY <1>1, <4>3, ZenonT(90) DEF ProcInv
        <5>2. /\ Index' = Index \cup {Len(log) + 1} /\ \A n \in Index : log'[n] = log[n]
              /\ log'[Len(log) + 1] = row /\ row.kind = "collection"
          BY <2>3, <2>5, ZenonT(90)
        <5> QED
          BY <5>1, <5>2
      <4>5. \E n \in Index' : log'[n] = FenceOf(p)
        <5>1. \E n \in Index : log[n] = FenceOf(p)
          BY <1>1, <2>9, <4>3, ZenonT(90) DEF ProcInv
        <5>2. Index' = Index \cup {Len(log) + 1} /\ \A n \in Index : log'[n] = log[n]
          BY <2>5, Zenon
        <5> QED
          BY <5>1, <5>2, Zenon
      <4>6. \A x \in invoked' : x[2] = run[p] => x[1] = id[p]
        BY <1>1, <4>3, ZenonT(90) DEF ProcInv
      <4> QED
        <5>1. /\ pc'[p] = "complete" /\ op'[p] = "acquire" /\ id'[p] = id[p] /\ run'[p] = run[p]
              /\ watcher'[p] \in Watchers /\ run[p] # None /\ <<id[p], run[p]>> \in invoked'
          BY <1>1, <2>1, <2>9, <3>1, Zenon
        <5>2. id[p] # None
          BY <2>9, <4>3, ZenonT(90) DEF ProcInv
        <5>3. "acquire" \notin {"execute", "collect"} /\ "acquire" # "replay"
              /\ "complete" \notin {"idle", "lookup"} /\ "complete" # "fence"
          OBVIOUS
        <5> QED
          BY <4>2, <4>3, <4>4, <4>5, <4>6, <5>1, <5>2, <5>3, ZenonT(90) DEF ProcInv
    <3>5. ASSUME NEW q \in Procs \ {p} PROVE ProcInv(q)'
      BY <1>1, <2>1, <2>3, <2>4, <3>1, CommitFrame, ZenonT(90)
    <3>6. DeliveredInv'
      BY <1>1, <2>3, <2>4, <2>9, DeliveredCommit, ZenonT(90)
    <3> QED
      BY <2>6, <2>7, <3>2, <3>3, <3>4, <3>5, <3>6, ZenonT(90) DEF IInv
  <2>10. CASE Return(p) /\ (delivered' = delivered \/ (op[p] = "execute" /\ Deliver(p, run[p])))
    <3>1. /\ guard' \in Procs \cup {NoProc} /\ pc' \in [Procs -> Steps] /\ op' \in [Procs -> Ops]
          /\ id' \in [Procs -> Ids \cup {None}] /\ watcher' \in [Procs -> Watchers \cup {None}]
          /\ run' \in [Procs -> Runs \cup {None}]
          /\ pc'[p] = "idle" /\ op'[p] = "collect" /\ id'[p] = None /\ run'[p] = None
          /\ \A q \in Procs \ {p} :
               /\ pc'[q] = pc[q] /\ op'[q] = op[q] /\ id'[q] = id[q] /\ watcher'[q] = watcher[q]
               /\ run'[q] = run[q] /\ (guard = q => guard' = q)
      BY <1>1, <2>10, ReturnTypes, ZenonT(90)
    <3> DEFINE d == [id |-> id[p], watcher |-> watcher[p], run |-> run[p]]
    <3>2. d \in Delivery /\ d.id = id[p] /\ d.run = run[p]
      BY <2>1 DEF Delivery
    <3>3. delivered' = delivered \/ (delivered' = delivered \cup {d} /\ id[p] = None)
      BY <1>1, <2>10, ZenonT(90) DEF Deliver, ProcInv
    <3> HIDE DEF d
    <3>4. TypeOK'
      <4>1. delivered' \subseteq Delivery
        BY <1>1, <3>2, <3>3, ZenonT(90) DEF TypeOK
      <4> QED
        BY <1>1, <2>5, <3>1, <4>1, ZenonT(90) DEF TypeOK, Row
    <3>5. Guarded' /\ HistoryStillAllows'
      BY <1>1, <2>8, <3>1, ZenonT(90) DEF Guarded, HistoryStillAllows
    <3>6. Owned'
      <4>1. \A q \in Procs : run'[q] = None \/ (q # p /\ run'[q] = run[q])
        BY <3>1, Zenon
      <4>2. drawn' = drawn /\ Owned
        BY <1>1, Zenon
      <4> QED
        BY <4>1, <4>2, ZenonT(90) DEF Owned
    <3>7. ProcInv(p)'
      BY <3>1, ProcIdle
    <3>8. ASSUME NEW q \in Procs \ {p} PROVE ProcInv(q)'
      BY <1>1, <2>1, <2>3, <2>4, <3>1, CommitFrame, ZenonT(90)
    <3>9. DeliveredInv'
      <4> SUFFICES ASSUME NEW e \in delivered'
                   PROVE  /\ <<e.id, e.run>> \in invoked'
                          /\ e.id # None => \E n \in 1 .. synced' :
                               log'[n] = [kind |-> "fence", id |-> e.id, watcher |-> e.watcher, run |-> e.run]
        BY ZenonT(90) DEF DeliveredInv
      <4>1. CASE e \in delivered
        <5>1. \A n \in 1 .. synced : n \in 1 .. synced' /\ log'[n] = log[n]
          BY <1>1, <2>3, <2>4, CommitFacts, ZenonT(90)
        <5> QED
          BY <1>1, <4>1, <5>1, ZenonT(90) DEF DeliveredInv
      <4>2. CASE e = d /\ id[p] = None
        BY <1>1, <2>1, <3>2, <4>2
      <4> QED
        BY <3>3, <4>1, <4>2, ZenonT(90)
    <3> QED
      BY <2>6, <2>7, <3>4, <3>5, <3>6, <3>7, <3>8, <3>9, ZenonT(90) DEF IInv
  <2> QED
    BY <1>3, <2>1, <2>9, <2>10, ZenonT(90) DEF Collected
<1> QED
  BY <1>2, <1>3, Zenon DEF CommitCollection

\* The terminal event's transaction first brings the fence to stable storage,
\* so the artifact handed out is that of a fence that stays.
LEMMA CompleteAcquisitionInv ==
    ASSUME IInv, NEW p \in Procs, CompleteAcquisition(p)
    PROVE  IInv'
<1>1. /\ pc[p] = "complete" /\ UNCHANGED <<drawn, invoked, faults, losses>> /\ Return(p)
      /\ TypeOK /\ StoreInv /\ Owned /\ Guarded /\ BoundedInv /\ HistoryStillAllows
      /\ DeliveredInv /\ \A q \in Procs : ProcInv(q)
  BY Zenon DEF CompleteAcquisition, IInv
<1>2. CASE UNCHANGED <<db, delivered>>
  <2>1. delivered' \subseteq Delivery /\ faults' \in 0 .. MaxFaults
    BY <1>1, <1>2 DEF TypeOK
  <2> QED
    BY <1>1, <1>2, <2>1, ReturnStep, ZenonT(90) DEF IInv
<1>3. CASE Commits([kind |-> "complete", id |-> id[p], run |-> run[p]]) /\ Deliver(p, run[p])
  <2> DEFINE row == [kind |-> "complete", id |-> id[p], run |-> run[p]]
             d == [id |-> id[p], watcher |-> watcher[p], run |-> run[p]]
  <2>1. /\ run[p] \in Runs /\ run[p] # None /\ run[p] \in drawn /\ <<id[p], run[p]>> \in invoked
        /\ watcher[p] \in Watchers /\ op[p] = "acquire" /\ id[p] \in Ids
    BY <1>1, ZenonT(90) DEF ProcInv, TypeOK, Owned
  <2>2. /\ row \in Row /\ row.kind = "complete" /\ row.run = run[p] /\ row.id = id[p]
        /\ d \in Delivery /\ d.id = id[p] /\ d.run = run[p] /\ d.watcher = watcher[p]
    BY <2>1, ZenonT(90) DEF Row, Completion, Delivery
  <2>3. Commits(row) /\ delivered' = delivered \cup {d}
    BY <1>3 DEF Deliver
  <2> HIDE DEF row, d
  <2>4. /\ Index' = Index \cup {Len(log) + 1} /\ Len(log) + 1 \notin Index
        /\ \A n \in Index : log'[n] = log[n]
        /\ log'[Len(log) + 1] = row /\ synced' = Len(log) /\ Len(log') = Len(log) + 1
        /\ log' \in Seq(Row) /\ synced' \in 0 .. Len(log') /\ Len(log) \in Nat
    BY <1>1, <2>2, <2>3, CommitFacts, ZenonT(90)
  <2>5. PICK k \in Index : log[k] = FenceOf(p)
    BY <1>1, <2>1, ZenonT(90) DEF ProcInv
  <2>6. log[k].kind = "fence" /\ log[k].id = id[p] /\ k < Len(log) + 1 /\ k \in 1 .. synced'
    BY <2>4, <2>5 DEF FenceOf, Index
  <2>7. StoreInv'
    <3>1. "complete" # "fence" /\ "complete" # "collection"
      OBVIOUS
    <3> QED
      BY <1>1, <2>1, <2>2, <2>4, <2>6, <3>1, StoreCommitted, ZenonT(90)
  <2>8. BoundedInv' /\ (Matching' = {} <=> Matching = {})
    BY <1>1, <2>2, <2>3, OtherRow, ZenonT(90)
  <2>9. /\ guard' \in Procs \cup {NoProc} /\ pc' \in [Procs -> Steps] /\ op' \in [Procs -> Ops]
        /\ id' \in [Procs -> Ids \cup {None}] /\ watcher' \in [Procs -> Watchers \cup {None}]
        /\ run' \in [Procs -> Runs \cup {None}]
        /\ pc'[p] = "idle" /\ op'[p] = "collect" /\ id'[p] = None /\ run'[p] = None
        /\ \A q \in Procs \ {p} :
             /\ pc'[q] = pc[q] /\ op'[q] = op[q] /\ id'[q] = id[q] /\ watcher'[q] = watcher[q]
             /\ run'[q] = run[q] /\ (guard = q => guard' = q)
    BY <1>1, ReturnTypes, ZenonT(90)
  <2>10. TypeOK'
    <3>1. delivered' \subseteq Delivery
      BY <1>1, <2>2, <2>3, ZenonT(90) DEF TypeOK
    <3> QED
      BY <1>1, <2>4, <2>9, <3>1, ZenonT(90) DEF TypeOK, Row
  <2>11. Guarded' /\ Owned'
    BY <1>1, <2>9 DEF Guarded, Owned
  <2>12. HistoryStillAllows'
    BY <1>1, <2>8, <2>9, ZenonT(90) DEF HistoryStillAllows, SnapshotAllows
  <2>13. ProcInv(p)'
    BY <2>9, ProcIdle
  <2>14. ASSUME NEW q \in Procs \ {p} PROVE ProcInv(q)'
    BY <1>1, <2>1, <2>2, <2>3, <2>9, CommitFrame, ZenonT(90)
  <2>15. DeliveredInv'
    <3> SUFFICES ASSUME NEW e \in delivered'
                 PROVE  /\ <<e.id, e.run>> \in invoked'
                        /\ e.id # None => \E n \in 1 .. synced' :
                             log'[n] = [kind |-> "fence", id |-> e.id, watcher |-> e.watcher, run |-> e.run]
      BY Zenon DEF DeliveredInv
    <3>1. CASE e \in delivered
      <4>1. \A n \in 1 .. synced : n \in 1 .. synced' /\ log'[n] = log[n]
        BY <1>1, <2>2, <2>3, CommitFacts, ZenonT(90)
      <4> QED
        BY <1>1, <3>1, <4>1, ZenonT(90) DEF DeliveredInv
    <3>2. CASE e = d
      BY <1>1, <2>1, <2>2, <2>4, <2>5, <2>6, <3>2, Zenon DEF FenceOf
    <3> QED
      BY <2>3, <3>1, <3>2, ZenonT(90)
  <2> QED
    BY <2>7, <2>8, <2>10, <2>11, <2>12, <2>13, <2>14, <2>15, ZenonT(90) DEF IInv
<1> QED
  BY <1>2, <1>3, ZenonT(90) DEF CompleteAcquisition

\* A process that dies loses nothing of the store.
LEMMA StopInv ==
    ASSUME IInv, NEW p \in Procs, Stop(p)
    PROVE  IInv'
<1>1. delivered' \subseteq Delivery /\ faults' \in 0 .. MaxFaults
  BY SuccessorAssumption DEF Stop, IInv, TypeOK
<1> QED
  BY <1>1, ReturnStep DEF IInv, Stop

\* A checkpoint only makes more of the history safe.
LEMMA CheckpointInv ==
    ASSUME IInv, Checkpoint
    PROVE  IInv'
<1>1. /\ log' = log /\ synced' = Len(log) /\ synced < Len(log) /\ Len(log) \in Nat /\ synced \in Nat
      /\ UNCHANGED <<guard, pc, op, id, watcher, run, drawn, invoked, delivered, faults, losses>>
      /\ TypeOK /\ StoreInv /\ DeliveredInv /\ BoundedInv
  BY RowTypes DEF Checkpoint, IInv, local
<1>2. TypeOK'
  BY <1>1 DEF TypeOK
<1>3. StoreInv'
  BY <1>1 DEF StoreInv, Index
<1>4. Guarded' /\ Owned' /\ HistoryStillAllows'
  BY <1>1 DEF IInv, Guarded, Owned, HistoryStillAllows, SnapshotAllows, Matching, Rows
<1>5. ASSUME NEW q \in Procs PROVE ProcInv(q)'
  BY <1>1, ProcFrame DEF IInv
<1>6. DeliveredInv'
  <2>1. 1 .. synced \subseteq 1 .. synced'
    BY <1>1
  <2> QED
    BY <1>1, <2>1, ZenonT(90) DEF DeliveredInv
<1>7. BoundedInv'
  <2>1. \A i \in Ids : Intents(i)' = Intents(i)
    BY <1>1 DEF Intents, Rows
  <2>2. \A i \in Ids : Allowed(i)' = Allowed(i)
    BY <1>1, <2>1 DEF Allowed, Invocations
  <2> QED
    BY <1>1, <2>1, <2>2, ZenonT(90) DEF BoundedInv
<1> QED
  BY <1>2, <1>3, <1>4, <1>5, <1>6, <1>7, ZenonT(90) DEF IInv

\* A power loss takes at most the newest commit: if that is a fence, its
\* identity may be dispatched once more, and no delivery is undone.
LEMMA PowerLossInv ==
    ASSUME IInv, PowerLoss
    PROVE  IInv'
<1>1. PICK k \in synced .. Len(log) : log' = SubSeq(log, 1, k) /\ synced' = k
  BY DEF PowerLoss
<1>2. /\ losses < MaxLosses /\ losses' = losses + 1 /\ losses \in Nat /\ MaxLosses \in Nat
      /\ guard' = NoProc /\ UNCHANGED <<drawn, invoked, delivered, faults>>
      /\ TypeOK /\ StoreInv /\ DeliveredInv /\ BoundedInv
      /\ log \in Seq(Row) /\ Len(log) \in Nat /\ synced \in 0 .. Len(log)
  <2>1. /\ losses < MaxLosses /\ losses' = losses + 1
        /\ guard' = NoProc /\ UNCHANGED <<drawn, invoked, delivered, faults>>
        /\ TypeOK /\ StoreInv /\ DeliveredInv /\ BoundedInv
    BY Zenon DEF PowerLoss, IInv
  <2>2. log \in Seq(Row) /\ Len(log) \in Nat /\ synced \in 0 .. Len(log)
    BY <2>1, RowTypes
  <2>3. losses \in Nat /\ MaxLosses \in Nat
    BY <2>1, SuccessorAssumption DEF TypeOK
  <2> QED
    BY <2>1, <2>2, <2>3, ZenonT(90)
<1>3. \A q \in Procs : pc'[q] = "idle" /\ op'[q] = "collect" /\ id'[q] = None /\ run'[q] = None
  BY DEF PowerLoss
<1>4. k \in 0 .. Len(log)
  BY <1>1, <1>2
<1>5. /\ Len(log') = k /\ log' \in Seq(Row) /\ Index' = 1 .. k /\ Index' \subseteq Index
      /\ \A n \in Index' : log'[n] = log[n]
  BY <1>1, <1>2, <1>4, PrefixElements DEF Index
<1>6. TypeOK'
  <2>1. /\ pc' \in [Procs -> Steps] /\ op' \in [Procs -> Ops] /\ id' \in [Procs -> Ids \cup {None}]
        /\ watcher' \in [Procs -> Watchers \cup {None}] /\ run' \in [Procs -> Runs \cup {None}]
    BY DEF PowerLoss, Steps, Ops
  <2>2. losses' \in 0 .. MaxLosses /\ synced' \in 0 .. Len(log')
    BY <1>1, <1>2, <1>4, <1>5
  <2> QED
    BY <1>2, <1>5, <2>1, <2>2, ZenonT(90) DEF TypeOK, Row
<1>7. StoreInv'
  <2>1. \A n \in Index' : log'[n].kind = "complete" =>
          \E m \in Index' : m < n /\ log'[m].kind = "fence" /\ log'[m].id = log'[n].id
    <3> SUFFICES ASSUME NEW n \in Index', log[n].kind = "complete"
                 PROVE  \E m \in Index' : m < n /\ log[m].kind = "fence" /\ log[m].id = log[n].id
      BY <1>5
    <3>1. PICK m \in Index : m < n /\ log[m].kind = "fence" /\ log[m].id = log[n].id
      BY <1>2, <1>5 DEF StoreInv
    <3>2. m \in Index'
      BY <1>2, <1>4, <1>5, <3>1 DEF Index
    <3> QED
      BY <3>1, <3>2
  <2>2. Len(log') <= synced' + 1
    BY <1>1, <1>4, <1>5
  <2>3. StoreInv /\ invoked' = invoked /\ drawn' = drawn
    BY <1>2
  <2> QED
    BY <1>5, <2>1, <2>2, <2>3, StoreCut, ZenonT(90)
<1>8. Guarded' /\ Owned' /\ HistoryStillAllows'
  BY <1>3 DEF Guarded, Owned, HistoryStillAllows
<1>9. ASSUME NEW q \in Procs PROVE ProcInv(q)'
  BY <1>3, ProcIdle
<1>10. DeliveredInv'
  <2>1. \A n \in 1 .. synced : n \in 1 .. synced' /\ log'[n] = log[n]
    BY <1>1, <1>2, <1>5
  <2>2. ASSUME NEW d \in delivered
        PROVE  /\ <<d.id, d.run>> \in invoked
               /\ d.id # None => \E n \in 1 .. synced' :
                    log'[n] = [kind |-> "fence", id |-> d.id, watcher |-> d.watcher, run |-> d.run]
    BY <1>2, <2>1 DEF DeliveredInv
  <2> QED
    BY <1>2, <2>2, ZenonT(90) DEF DeliveredInv
<1>11. BoundedInv'
  <2> SUFFICES ASSUME NEW i \in Ids
               PROVE  /\ IsFiniteSet(Allowed(i)')
                      /\ Cardinality(Allowed(i)') <= losses' + (IF Intents(i)' = {} THEN 0 ELSE 1)
    BY DEF BoundedInv
  <2>1. Intents(i)' \subseteq Intents(i)
    <3>1. Intents(i) = {log[n] : n \in {m \in Index : log[m].kind = "fence" /\ log[m].id = i}}
      BY RowsByIndex
    <3>2. Intents(i)' = {log'[n] : n \in {m \in Index' : log'[m].kind = "fence" /\ log'[m].id = i}}
      BY ZenonT(90) DEF Intents, Rows, Index
    <3> QED
      BY <1>5, <3>1, <3>2, ZenonT(90)
  <2>2. Allowed(i)' \subseteq Allowed(i)
    BY <1>2, <2>1, ZenonT(90) DEF Allowed, Invocations
  <2>3. IsFiniteSet(Allowed(i)) /\ Cardinality(Allowed(i)) <= losses + (IF Intents(i) = {} THEN 0 ELSE 1)
    BY <1>2 DEF BoundedInv
  <2>4. /\ IsFiniteSet(Allowed(i)') /\ Cardinality(Allowed(i)') <= Cardinality(Allowed(i))
        /\ Cardinality(Allowed(i)') \in Nat /\ Cardinality(Allowed(i)) \in Nat
    BY <2>2, <2>3, FS_Subset, FS_CardinalityType, ZenonT(90)
  <2> QED
    BY <1>2, <2>3, <2>4
<1> QED
  BY <1>6, <1>7, <1>8, <1>9, <1>10, <1>11, ZenonT(90) DEF IInv

\* Stuttering changes nothing the invariant speaks of.
LEMMA StutterInv ==
    ASSUME IInv, UNCHANGED vars
    PROVE  IInv'
<1>1. UNCHANGED <<log, synced, guard, pc, op, id, watcher, run, drawn, invoked, delivered, faults, losses>>
  BY DEF vars, db, local
<1>2. TypeOK'
  BY <1>1 DEF IInv, TypeOK
<1>3. StoreInv' /\ BoundedInv' /\ DeliveredInv' /\ Matching' = Matching
  BY <1>1, StoreFrame, RecordFrame DEF IInv
<1>4. Guarded' /\ Owned' /\ HistoryStillAllows'
  BY <1>1, <1>3, ZenonT(90) DEF IInv, Guarded, Owned, HistoryStillAllows, SnapshotAllows
<1>5. ASSUME NEW q \in Procs PROVE ProcInv(q)'
  BY <1>1, ProcFrame DEF IInv
<1> QED
  BY <1>2, <1>3, <1>4, <1>5 DEF IInv

-----------------------------------------------------------------------------
(* The results. *)

LEMMA Inductive == Spec => []IInv
<1>1. ASSUME IInv, Next PROVE IInv'
  BY <1>1, CallInv, LookupInv, AcquireInv, PrepareInv, CommitDispatchInv, InvokeInv,
     CommitCollectionInv, CompleteAcquisitionInv, StopInv, CheckpointInv, PowerLossInv, SMTT(30)
     DEF Next, Step
<1>2. IInv /\ [Next]_vars => IInv'
  BY <1>1, StutterInv
<1> QED
  BY <1>2, InitInv, PTL DEF Spec

\* Every variable stays in its domain, whichever commands race.
THEOREM TypeCorrect == Spec => []TypeOK
<1>1. IInv => TypeOK
  BY ZenonT(90) DEF IInv
<1> QED
  BY <1>1, Inductive, PTL

\* A caller-named acquisition invokes its helper at most once, plus once for
\* each power loss, however many processes race for it, die or retry.
THEOREM BoundedInvocations == Spec => []InvocationsBounded
<1>1. ASSUME IInv, NEW i \in Ids PROVE Cardinality(Invocations(i)) <= 1 + losses
  <2>1. IsFiniteSet(Allowed(i)) /\ Cardinality(Allowed(i)) <= losses + (IF Intents(i) = {} THEN 0 ELSE 1)
    BY <1>1, ZenonT(90) DEF IInv, BoundedInv
  <2>2. Invocations(i) \subseteq Allowed(i) /\ losses \in Nat
    BY <1>1, SuccessorAssumption DEF Allowed, IInv, TypeOK
  <2>3. /\ Cardinality(Invocations(i)) <= Cardinality(Allowed(i)) /\ IsFiniteSet(Invocations(i))
        /\ Cardinality(Invocations(i)) \in Nat /\ Cardinality(Allowed(i)) \in Nat
    BY <2>1, <2>2, FS_Subset, FS_CardinalityType
  <2> QED
    BY <2>1, <2>2, <2>3
<1>2. IInv => InvocationsBounded
  BY <1>1, ZenonT(90) DEF InvocationsBounded
<1> QED
  BY <1>2, Inductive, PTL

\* Everyone who is handed an artifact of one acquisition is handed that of the
\* same run under the same configuration, across deaths and power losses.
THEOREM AgreedDeliveries == Spec => []DeliveriesAgree
<1>1. ASSUME IInv, NEW d \in delivered, NEW e \in delivered
      PROVE  /\ <<d.id, d.run>> \in invoked
             /\ (d.id # None /\ d.id = e.id => d.run = e.run /\ d.watcher = e.watcher)
  <2>1. <<d.id, d.run>> \in invoked
    BY <1>1, ZenonT(90) DEF IInv, DeliveredInv
  <2>2. ASSUME d.id # None, d.id = e.id PROVE d.run = e.run /\ d.watcher = e.watcher
    <3>1. PICK m \in 1 .. synced :
            log[m] = [kind |-> "fence", id |-> d.id, watcher |-> d.watcher, run |-> d.run]
      BY <1>1, <2>2, Zenon DEF IInv, DeliveredInv
    <3>2. PICK n \in 1 .. synced :
            log[n] = [kind |-> "fence", id |-> e.id, watcher |-> e.watcher, run |-> e.run]
      BY <1>1, <2>2, ZenonT(90) DEF IInv, DeliveredInv
    <3>3. m \in Index /\ n \in Index
      BY <1>1, RowTypes DEF Index, IInv
    <3>4. /\ log[m].kind = "fence" /\ log[n].kind = "fence" /\ log[m].id = log[n].id
          /\ log[m].run = d.run /\ log[m].watcher = d.watcher
          /\ log[n].run = e.run /\ log[n].watcher = e.watcher
      BY <2>2, <3>1, <3>2
    <3>5. m = n
      BY <1>1, <3>3, <3>4 DEF IInv, StoreInv
    <3> QED
      BY <3>4, <3>5, ZenonT(90)
  <2> QED
    BY <2>1, <2>2
<1>2. IInv => DeliveriesAgree
  BY <1>1, Zenon DEF DeliveriesAgree
<1> QED
  BY <1>2, Inductive, PTL

\* The history that let a process dispatch its helper still admits its report
\* when the report is committed.
THEOREM AllowedHistory == Spec => []HistoryStillAllows
<1>1. IInv => HistoryStillAllows
  BY ZenonT(90) DEF IInv
<1> QED
  BY <1>1, Inductive, PTL

\* The completion of an acquisition whose collection committed is never
\* refused by complete_local_successor_acquisition.
THEOREM CompletionAccepted == Spec => []CompletionNeverRefused
<1>1. ASSUME IInv, NEW p \in Procs, pc[p] = "complete"
      PROVE  \E f \in Intents(id[p]) : f.run = run[p] /\ HasArtifact(f.run)
  <2>1. ProcInv(p)
    BY <1>1 DEF IInv
  <2>2. PICK n \in Index : log[n] = FenceOf(p)
    BY <1>1, <2>1, ZenonT(90) DEF ProcInv
  <2>3. FenceOf(p) \in Intents(id[p]) /\ FenceOf(p).run = run[p]
    BY <2>2, RowsByIndex DEF FenceOf
  <2>4. HasArtifact(run[p])
    BY <1>1, <2>1, RowsByIndex, ZenonT(90) DEF ProcInv
  <2> QED
    BY <2>3, <2>4
<1>2. IInv => CompletionNeverRefused
  BY <1>1 DEF CompletionNeverRefused
<1> QED
  BY <1>2, Inductive, PTL

=============================================================================
