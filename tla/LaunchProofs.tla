---------------------------- MODULE LaunchProofs ----------------------------
(***************************************************************************)
(* What a launched helper executes, inherits and outlives, for every set of  *)
(* launching threads, every file system and every sequence of deployments.   *)
(*                                                                          *)
(* The inductive invariant says, of a launch, how far the snapshots taken so *)
(* far follow the identified chain and from which phase on that chain is the *)
(* expected one and the one its own bytes name; of the descriptor lock, that *)
(* its holder's snapshots and no others are inheritable; of a child, what it *)
(* was forked with, and that the death signal is armed when the parent is    *)
(* checked.                                                                  *)
(***************************************************************************)
EXTENDS Launch, TLAPS

-----------------------------------------------------------------------------
(* The invariant.                                                           *)

Contents == {Deployed[n].content : n \in DOMAIN Deployed} \cup {u[2] : u \in Updates}
Commands == {NoPath} \cup {c.command : c \in {d \in Contents : d.kind = "script"}}
Roles == {"root", "interpreter", "target", "argument"}
Files == [role : Roles, path : Paths, command : Commands, inode : Nat, stamp : Nat, prefix : Contents]
Artifacts == [role : Roles, path : Paths, inode : Nat, stamp : Nat, prefix : Contents,
              content : Contents, command : Commands]
Stored == [content : Contents, stamp : Nat]

\* The files: every path has an inode, every inode a content.
FilesOK ==
    /\ disk \in Seq(Stored)
    /\ name \in [Paths -> 1..Len(disk)]

LaunchFields == {"phase", "admitting", "expected", "chain", "directory", "opened", "seen", "held",
                 "retained", "runtime"}
Locked == {"fork", "spawning"}
Planned == {"list", "ready", "spawn", "spawned"} \cup Locked

\* An opened file, on a disk of n inodes.
OpenedOK(f, n) == f = NoFile \/ (f \in Files /\ f.inode \in 1..n)

\* The snapshots are the contents of the chain, as far as they go.
SnapshotsOf(chain, retained) ==
    /\ chain \in Seq(Artifacts) /\ retained \in Seq(Contents)
    /\ Len(retained) <= Len(chain)
    /\ \A i \in 1..Len(retained) : retained[i] = chain[i].content

Follows(x) == SnapshotsOf(x.chain, x.retained)

LaunchOK(x, n) ==
    /\ DOMAIN x = LaunchFields
    /\ OpenedOK(x.opened, n)
    /\ Follows(x)
    /\ x.phase \in {"closed", "identify"} => x.retained = <<>>
    /\ x.phase = "reserve" => x.opened = NoFile
    /\ x.phase = "copy" \/ (x.phase = "retain" /\ x.opened # NoFile) => Len(x.retained) < Len(x.chain)
    /\ x.phase \notin {"closed", "identify"} /\ x.expected # NoIdentity =>
         VerifyMatches(x.expected.chain, x.chain)
    /\ x.phase \in Planned => Len(x.retained) = Len(x.chain) /\ PlanFollows(x.chain, x.retained)

\* The descriptor lock is held from the change of the flags to their restoration.
GuardOK ==
    /\ guard \in Launches \cup {NoOne}
    /\ \A l \in Launches : launch[l].phase \in Locked <=> guard = l
    /\ inheritable = IF guard = NoOne THEN {} ELSE Descriptors(guard)

\* The bytes a child executes are those of the identity it was launched for.
Executes(executes, expected) ==
    expected # NoIdentity =>
        /\ Len(executes) = Len(expected.chain)
        /\ \A i \in 1..Len(executes) : executes[i] = expected.chain[i].content

ChildFields == {"phase", "step", "signal", "orphan", "executes", "inherits", "expected"}

ChildOK(l, c) ==
    \/ c = NoChild
    \/ /\ DOMAIN c = ChildFields
       /\ c.phase \in {"isolating", "running"} /\ c.step \in 1..4
       /\ c.signal \in BOOLEAN /\ c.orphan \in BOOLEAN
       /\ c.inherits = {<<l, i>> : i \in 1..Len(c.executes)}
       /\ Executes(c.executes, c.expected)
       /\ c.step = 4 => c.signal
       /\ c.phase = "running" => c.signal /\ ~ c.orphan

LockOK == AdmittedChainIsWhole

IInv ==
    /\ FilesOK
    /\ LockOK
    /\ launch = [l \in Launches |-> launch[l]]
    /\ \A l \in Launches : LaunchOK(launch[l], Len(disk))
    /\ GuardOK
    /\ child = [l \in Launches |-> child[l]]
    /\ \A l \in Launches : ChildOK(l, child[l])

-----------------------------------------------------------------------------
(* Sequences and records.                                                   *)

LEMMA AppendFacts ==
    ASSUME NEW S, NEW s \in Seq(S), NEW x \in S
    PROVE  /\ Append(s, x) \in Seq(S) /\ Len(Append(s, x)) = Len(s) + 1
           /\ Append(s, x)[Len(s) + 1] = x
           /\ \A i \in 1..Len(s) : Append(s, x)[i] = s[i]
OBVIOUS

LEMMA IdleOK ==
    ASSUME NEW n
    PROVE  LaunchOK(Idle, n) /\ Idle.phase = "closed" /\ Idle.phase \notin Locked
<1>1. /\ DOMAIN Idle = LaunchFields /\ Idle.phase = "closed" /\ Idle.opened = NoFile
      /\ Idle.chain = <<>> /\ Idle.retained = <<>>
  BY DEF Idle, LaunchFields
<1>2. Follows(Idle)
  BY <1>1 DEF Follows, SnapshotsOf
<1>3. "closed" \notin Planned /\ "closed" \notin Locked /\ "closed" \in {"closed", "identify"}
      /\ "closed" # "copy" /\ "closed" # "retain" /\ "closed" # "reserve"
  BY DEF Planned, Locked
<1> QED
  BY <1>1, <1>2, <1>3, Zenon DEF LaunchOK, OpenedOK

\* A launch with all its snapshots has exactly the contents of its chain.
LEMMA AllRetained ==
    ASSUME NEW x, Follows(x), Len(x.retained) = Len(x.chain)
    PROVE  x.retained = [i \in 1..Len(x.chain) |-> x.chain[i].content]
BY DEF Follows, SnapshotsOf

-----------------------------------------------------------------------------
(* The frame: what a step of one launch leaves alone.                       *)

\* A launch that moves from one phase without the descriptor lock to another.
LEMMA Moves ==
    ASSUME IInv, NEW l \in Launches, NEW k, LaunchOK(k, Len(disk)),
           k.phase \notin Locked, launch[l].phase \notin Locked,
           launch' = [launch EXCEPT ![l] = k],
           UNCHANGED <<name, disk, lock, guard, inheritable, child>>
    PROVE  IInv'
<1>1. /\ FilesOK /\ LockOK /\ GuardOK /\ launch = [m \in Launches |-> launch[m]]
      /\ \A m \in Launches : LaunchOK(launch[m], Len(disk))
      /\ child = [m \in Launches |-> child[m]]
      /\ \A m \in Launches : ChildOK(m, child[m])
  BY Zenon DEF IInv
<1>2. /\ launch' = [m \in Launches |-> launch'[m]] /\ launch'[l] = k
      /\ \A m \in Launches \ {l} : launch'[m] = launch[m]
  BY <1>1
<1>3. FilesOK' /\ LockOK'
  BY <1>1 DEF FilesOK, LockOK, AdmittedChainIsWhole
<1>4. \A m \in Launches : LaunchOK(launch'[m], Len(disk'))
  BY <1>1, <1>2, Zenon
<1>5. GuardOK'
  <2>1. guard # l
    BY <1>1, Zenon DEF GuardOK
  <2>2. \A m \in Launches : launch'[m].phase \in Locked <=> guard' = m
    BY <1>1, <1>2, <2>1, Zenon DEF GuardOK
  <2>3. guard # NoOne => Descriptors(guard)' = Descriptors(guard)
    BY <1>1, <1>2, <2>1 DEF GuardOK, Descriptors
  <2> QED
    BY <1>1, <2>2, <2>3, Zenon DEF GuardOK
<1>6. \A m \in Launches : ChildOK(m, child'[m])
  BY <1>1, Zenon
<1> QED
  BY <1>1, <1>2, <1>3, <1>4, <1>5, <1>6, Zenon DEF IInv

LEMMA FailInv ==
    ASSUME IInv, NEW l \in Launches, Fail(l), launch[l].phase \notin Locked,
           UNCHANGED <<name, disk, lock, guard, inheritable, child>>
    PROVE  IInv'
BY IdleOK, Moves, Zenon DEF Fail

-----------------------------------------------------------------------------
(* The start.                                                               *)

LEMMA InitInv == Init => IInv
<1> SUFFICES ASSUME Init PROVE IInv
  OBVIOUS
<1>1. FilesOK
  <2>1. \A n \in DOMAIN Deployed : [content |-> Deployed[n].content, stamp |-> 1] \in Stored
    BY DEF Stored, Contents
  <2>2. disk \in Seq(Stored) /\ Len(disk) = Len(Deployed)
    BY <2>1, DeployedAssumption DEF Init
  <2>3. ASSUME NEW p \in Paths
        PROVE  (CHOOSE n \in DOMAIN Deployed : Deployed[n].path = p) \in 1..Len(disk)
    <3>1. \E n \in DOMAIN Deployed : Deployed[n].path = p
      BY DEF Paths
    <3>2. (CHOOSE n \in DOMAIN Deployed : Deployed[n].path = p) \in DOMAIN Deployed
      BY <3>1
    <3> QED
      BY <2>2, <3>2, DeployedAssumption
  <2> QED
    BY <2>2, <2>3 DEF FilesOK, Init
<1>2. LockOK
  BY DEF Init, LockOK, AdmittedChainIsWhole
<1>3. \A l \in Launches : launch[l] = Idle /\ child[l] = NoChild
  BY DEF Init
<1>4. GuardOK
  <2>1. \A l \in Launches : launch[l].phase \notin Locked /\ guard # l
    BY <1>3, IdleOK, NoOneAssumption, SMTT(30) DEF Init
  <2> QED
    BY <2>1, Zenon DEF GuardOK, Init
<1>5. \A l \in Launches : LaunchOK(launch[l], Len(disk)) /\ ChildOK(l, child[l])
  BY <1>3, IdleOK, Zenon DEF ChildOK
<1>6. launch = [l \in Launches |-> launch[l]] /\ child = [l \in Launches |-> child[l]]
  BY <1>3 DEF Init
<1> QED
  BY <1>1, <1>2, <1>4, <1>5, <1>6, Zenon DEF IInv

-----------------------------------------------------------------------------
(* The deployment.                                                          *)

\* More inodes leave what is opened openable.
LEMMA MoreInodes ==
    ASSUME NEW n \in Nat, NEW m \in Nat, n <= m, NEW x, LaunchOK(x, n)
    PROVE  LaunchOK(x, m)
<1>1. OpenedOK(x.opened, n)
  BY Zenon DEF LaunchOK
<1>2. 1..n \subseteq 1..m
  OBVIOUS
<1>3. OpenedOK(x.opened, m)
  BY <1>1, <1>2, Zenon DEF OpenedOK
<1> QED
  BY <1>3, Zenon DEF LaunchOK

LEMMA DeployInv ==
    ASSUME IInv, Len(disk) <= Len(disk'), FilesOK',
           UNCHANGED <<lock, launch, guard, inheritable, child>>
    PROVE  IInv'
<1>1. /\ FilesOK /\ LockOK /\ GuardOK /\ launch = [m \in Launches |-> launch[m]]
      /\ \A m \in Launches : LaunchOK(launch[m], Len(disk))
      /\ child = [m \in Launches |-> child[m]]
      /\ \A m \in Launches : ChildOK(m, child[m])
  BY Zenon DEF IInv
<1>2. Len(disk) \in Nat /\ Len(disk') \in Nat
  BY <1>1 DEF FilesOK
<1>3. \A m \in Launches : LaunchOK(launch'[m], Len(disk'))
  BY <1>1, <1>2, MoreInodes, Zenon
<1>4. LockOK'
  BY <1>1 DEF LockOK, AdmittedChainIsWhole
<1>5. GuardOK'
  BY <1>1 DEF GuardOK, Descriptors
<1>6. \A m \in Launches : ChildOK(m, child'[m])
  BY <1>1, Zenon
<1> QED
  BY <1>1, <1>3, <1>4, <1>5, <1>6, Zenon DEF IInv

LEMMA NewInode ==
    ASSUME NEW P, NEW n \in Nat, NEW f \in [P -> 1..n], NEW p
    PROVE  [f EXCEPT ![p] = n + 1] \in [P -> 1..n + 1]
<1>1. \A q \in P : f[q] \in 1..n + 1 /\ [f EXCEPT ![p] = n + 1][q] \in {f[q], n + 1}
  OBVIOUS
<1>2. n + 1 \in 1..n + 1
  OBVIOUS
<1> QED
  BY <1>1, <1>2, Zenon

LEMMA ReplaceFileInv ==
    ASSUME IInv, ReplaceFile
    PROVE  IInv'
<1>1. FilesOK
  BY Zenon DEF IInv
<1>2. PICK u \in Updates : /\ disk' = Append(disk, [content |-> u[2], stamp |-> 1])
                           /\ name' = [name EXCEPT ![u[1]] = Len(disk) + 1]
  BY Zenon DEF ReplaceFile
<1>3. [content |-> u[2], stamp |-> 1] \in Stored
  BY DEF Stored, Contents
<1>4. disk' \in Seq(Stored) /\ Len(disk') = Len(disk) + 1 /\ Len(disk) \in Nat
  BY <1>1, <1>2, <1>3, AppendFacts DEF FilesOK
<1>5. FilesOK'
  <2>1. [name EXCEPT ![u[1]] = Len(disk) + 1] \in [Paths -> 1..Len(disk) + 1]
    BY <1>1, <1>4, NewInode, Zenon DEF FilesOK
  <2> QED
    BY <1>2, <1>4, <2>1, Zenon DEF FilesOK
<1>6. Len(disk) <= Len(disk')
  BY <1>4
<1> QED
  BY <1>5, <1>6, DeployInv, Zenon DEF ReplaceFile

LEMMA RewriteFileInv ==
    ASSUME IInv, RewriteFile
    PROVE  IInv'
<1>1. FilesOK
  BY Zenon DEF IInv
<1>2. PICK u \in Updates, tick \in {0, 1} :
        disk' = [disk EXCEPT ![name[u[1]]] = [content |-> u[2], stamp |-> @.stamp + tick]]
  BY Zenon DEF RewriteFile
<1>3. u[1] \in Paths /\ name[u[1]] \in 1..Len(disk)
  BY <1>1, UpdatesAssumption DEF FilesOK
<1>4. disk[name[u[1]]].stamp + tick \in Nat
  <2>1. disk[name[u[1]]] \in Stored
    BY <1>1, <1>3 DEF FilesOK
  <2>2. disk[name[u[1]]].stamp \in Nat
    BY <2>1 DEF Stored
  <2> QED
    BY <2>2
<1>5. [content |-> u[2], stamp |-> disk[name[u[1]]].stamp + tick] \in Stored
  BY <1>4 DEF Stored, Contents
<1>6. disk' \in Seq(Stored) /\ Len(disk') = Len(disk)
  BY <1>1, <1>2, <1>3, <1>5 DEF FilesOK
<1>7. name' = name
  BY DEF RewriteFile
<1>8. FilesOK' /\ Len(disk) <= Len(disk')
  BY <1>1, <1>6, <1>7 DEF FilesOK
<1> QED
  BY <1>8, DeployInv, Zenon DEF RewriteFile

-----------------------------------------------------------------------------
(* Identification.                                                          *)

LEMMA Begun ==
    ASSUME IInv, NEW l \in Launches, NEW k, DOMAIN k = LaunchFields, k.phase = "identify",
           k.opened = NoFile, k.chain = <<>>, k.retained = <<>>, launch[l].phase \notin Locked,
           launch' = [launch EXCEPT ![l] = k],
           UNCHANGED <<name, disk, lock, guard, inheritable, child>>
    PROVE  IInv'
<1>1. Follows(k)
  BY DEF Follows, SnapshotsOf
<1>2. "identify" \notin Planned /\ "identify" \notin Locked /\ "identify" \in {"closed", "identify"}
      /\ "identify" # "copy" /\ "identify" # "retain" /\ "identify" # "reserve"
  BY DEF Planned, Locked
<1>3. LaunchOK(k, Len(disk)) /\ k.phase \notin Locked
  BY <1>1, <1>2, Zenon DEF LaunchOK, OpenedOK
<1> QED
  BY <1>3, Moves, Zenon

LEMMA BeginInv ==
    ASSUME IInv, NEW l \in Launches, Begin(l)
    PROVE  IInv'
<1>1. launch[l].phase \notin Locked
  <2>1. launch[l].phase = "closed"
    BY Zenon DEF Begin
  <2> QED
    BY <2>1 DEF Locked
<1>2. UNCHANGED <<name, disk, lock, guard, inheritable, child>>
  BY Zenon DEF Begin
<1>3. CASE launch' = [launch EXCEPT ![l] = [Idle EXCEPT !.phase = "identify", !.admitting = TRUE]]
  <2> DEFINE k == [Idle EXCEPT !.phase = "identify", !.admitting = TRUE]
  <2>1. /\ DOMAIN k = LaunchFields /\ k.phase = "identify" /\ k.opened = NoFile
        /\ k.chain = <<>> /\ k.retained = <<>>
    BY DEF Idle, LaunchFields
  <2>2. launch' = [launch EXCEPT ![l] = k]
    BY <1>3, Zenon
  <2> HIDE DEF k
  <2> QED
    BY <1>1, <1>2, <2>1, <2>2, Begun, Zenon
<1>4. CASE launch' = [launch EXCEPT ![l] = [Idle EXCEPT !.phase = "identify", !.expected = lock]]
  <2> DEFINE k == [Idle EXCEPT !.phase = "identify", !.expected = lock]
  <2>1. /\ DOMAIN k = LaunchFields /\ k.phase = "identify" /\ k.opened = NoFile
        /\ k.chain = <<>> /\ k.retained = <<>>
    BY DEF Idle, LaunchFields
  <2>2. launch' = [launch EXCEPT ![l] = k]
    BY <1>4, Zenon
  <2> HIDE DEF k
  <2> QED
    BY <1>1, <1>2, <2>1, <2>2, Begun, Zenon
<1> QED
  BY <1>3, <1>4, Zenon DEF Begin

\* What NextArtifact proposes, of a path that exists, opens as a file.
LEMMA NextFacts ==
    ASSUME FilesOK, NEW chain \in Seq(Artifacts), NEW next \in NextArtifact(chain)
    PROVE  next.role \in Roles /\ next.command \in Commands
<1>1. CASE chain = <<>>
  BY <1>1 DEF NextArtifact, Roles, Commands
<1>2. CASE next \in CollectFixedArgumentFiles(chain)
  BY <1>2 DEF CollectFixedArgumentFiles, Roles, Commands
<1>3. CASE next \in CollectInterpreters(chain) /\ chain # <<>>
  <2> DEFINE newest == chain[Len(chain)]
  <2>1. newest \in Artifacts
    BY <1>3
  <2>2. newest.prefix \in Contents
    BY <2>1 DEF Artifacts
  <2> HIDE DEF newest
  <2>3. CASE next = [role |-> "target", path |-> newest.command, command |-> NoPath]
    BY <2>3 DEF Roles, Commands
  <2>4. ASSUME NEW s \in ParseShebang(newest.prefix),
               next = [role |-> "interpreter", path |-> s.interpreter, command |-> s.command]
        PROVE  next.role \in Roles /\ next.command \in Commands
    <3> DEFINE c == newest.prefix
    <3>1. c.kind = "script" /\ s = [interpreter |-> c.interpreter, command |-> c.command]
      BY <2>4 DEF ParseShebang
    <3>2. c.command \in Commands
      BY <2>2, <3>1, Zenon DEF Commands
    <3> HIDE DEF c
    <3>3. next.role = "interpreter" /\ next.command = c.command
      BY <2>4, <3>1
    <3> QED
      BY <3>2, <3>3 DEF Roles
  <2> QED
    BY <1>3, <2>3, <2>4, Zenon DEF CollectInterpreters, newest
<1> QED
  BY <1>1, <1>2, <1>3, Zenon DEF NextArtifact

LEMMA OpensFile ==
    ASSUME FilesOK, NEW a, a.role \in Roles, a.command \in Commands, a.path \in DOMAIN name
    PROVE  OpenArtifact(a) \in Files /\ OpenArtifact(a).inode \in 1..Len(disk)
<1> DEFINE i == name[Target(a.path)]
<1>1. Target(a.path) \in Paths /\ i \in 1..Len(disk) /\ Len(disk) \in Nat
  BY TargetAssumption DEF FilesOK
<1>2. disk[i] \in Stored
  BY <1>1 DEF FilesOK
<1>3. disk[i].stamp \in Nat /\ disk[i].content \in Contents /\ i \in Nat
  BY <1>1, <1>2 DEF Stored
<1>4. OpenArtifact(a) = [role |-> a.role, path |-> Target(a.path), command |-> a.command,
                         inode |-> i, stamp |-> disk[i].stamp, prefix |-> disk[i].content]
  BY Zenon DEF OpenArtifact
<1> HIDE DEF i
<1> QED
  BY <1>1, <1>3, <1>4 DEF Files

LEMMA IdentifyOpenInv ==
    ASSUME IInv, NEW l \in Launches, IdentifyOpen(l)
    PROVE  IInv'
<1> DEFINE x == launch[l]
<1>1. FilesOK /\ LaunchOK(x, Len(disk)) /\ x.phase = "identify" /\ x.phase \notin Locked
  <2>1. FilesOK /\ LaunchOK(x, Len(disk)) /\ x.phase = "identify"
    BY Zenon DEF IInv, IdentifyOpen
  <2> QED
    BY <2>1 DEF Locked
<1>2. UNCHANGED <<name, disk, lock, guard, inheritable, child>>
  BY Zenon DEF IdentifyOpen
<1>3. ASSUME NEW next \in NextArtifact(x.chain), next.path \in DOMAIN name,
             launch' = [launch EXCEPT ![l] = [@ EXCEPT !.opened = OpenArtifact(next)]]
      PROVE  IInv'
  <2> DEFINE file == OpenArtifact(next)
             k == [x EXCEPT !.opened = file]
  <2>1. next.role \in Roles /\ next.command \in Commands
    BY <1>1, <1>3, NextFacts, Zenon DEF LaunchOK, Follows, SnapshotsOf
  <2>2. file \in Files /\ file.inode \in 1..Len(disk)
    BY <1>1, <1>3, <2>1, OpensFile, Zenon
  <2>3. launch' = [launch EXCEPT ![l] = k]
    BY <1>3, Zenon
  <2> HIDE DEF file, x
  <2>4. /\ DOMAIN k = LaunchFields /\ k.phase = x.phase /\ k.opened = file /\ k.chain = x.chain
        /\ k.retained = x.retained /\ k.expected = x.expected
    BY <1>1 DEF LaunchOK, LaunchFields
  <2> HIDE DEF k
  <2>5. "identify" # "copy" /\ "identify" # "retain" /\ "identify" # "reserve" /\ "identify" \in {"closed", "identify"}
        /\ "identify" \notin Planned
    BY DEF Planned, Locked
  <2>6. LaunchOK(k, Len(disk))
    BY <1>1, <2>2, <2>4, <2>5, Zenon DEF LaunchOK, OpenedOK, Follows, SnapshotsOf
  <2> QED
    BY <1>1, <1>2, <2>3, <2>4, <2>6, Moves, Zenon DEF x
<1>4. CASE Fail(l)
  BY <1>1, <1>2, <1>4, FailInv, Zenon
<1> QED
  BY <1>3, <1>4, Zenon DEF IdentifyOpen

LEMMA IdentifyHashInv ==
    ASSUME IInv, NEW l \in Launches, IdentifyHash(l)
    PROVE  IInv'
<1> DEFINE x == launch[l]
<1>1. FilesOK /\ LaunchOK(x, Len(disk)) /\ x.phase = "identify"
  BY Zenon DEF IInv, IdentifyHash
<1>2. /\ "identify" \in {"closed", "identify"}
      /\ "identify" # "copy"
      /\ "identify" # "retain"
      /\ "identify" # "reserve"
      /\ "identify" \notin Planned
      /\ "identify" \notin Locked
  BY DEF Planned, Locked
<1>3. UNCHANGED <<name, disk, lock, guard, inheritable, child>>
  BY Zenon DEF IdentifyHash
<1>4. ASSUME NEW digest \in HashArtifact(launch[l].opened), launch[l].opened # NoFile,
             launch' = [launch EXCEPT ![l] = [@ EXCEPT !.opened = NoFile, !.chain = Append(launch[l].chain, Identified(launch[l].opened, digest))]]
      PROVE  IInv'
  <2> DEFINE k == [x EXCEPT !.opened = NoFile, !.chain = Append(launch[l].chain, Identified(launch[l].opened, digest))]
  <2>1. launch' = [launch EXCEPT ![l] = k]
    BY <1>4, Zenon
  <2>2. x.opened \in Files /\ x.opened.inode \in 1..Len(disk) /\ x.chain \in Seq(Artifacts)
    BY <1>1, <1>4, Zenon DEF LaunchOK, OpenedOK, Follows, SnapshotsOf
  <2>3. digest = disk[x.opened.inode].content
    BY <1>4 DEF HashArtifact
  <2>4. digest \in Contents
    <3>1. disk[x.opened.inode] \in Stored
      BY <1>1, <2>2 DEF FilesOK
    <3> QED
      BY <2>3, <3>1 DEF Stored
  <2> DEFINE a == Identified(x.opened, digest)
  <2>5. a \in Artifacts
    BY <2>2, <2>4 DEF Identified, Files, Artifacts
  <2> HIDE DEF a
  <2>6. /\ Append(x.chain, a) \in Seq(Artifacts) /\ 0 <= Len(Append(x.chain, a)) /\ Len(<<>>) = 0
        /\ 1..Len(<<>>) = {} /\ x.retained = <<>> /\ <<>> \in Seq(Contents)
    BY <1>1, <1>2, <2>2, <2>5, AppendFacts DEF LaunchOK
  <2> HIDE DEF x
  <2>8. DOMAIN k = LaunchFields /\ k.phase = "identify" /\ k.opened = NoFile /\ k.chain = Append(x.chain, a) /\ k.retained = x.retained /\ k.expected = x.expected
    BY <1>1 DEF LaunchOK, LaunchFields, a, x
  <2> HIDE DEF k
  <2>9. LaunchOK(k, Len(disk))
    BY <1>1, <1>2, <1>4, <2>8, <2>6, ZenonT(60) DEF LaunchOK, OpenedOK, Follows, SnapshotsOf
  <2> QED
    BY <1>1, <1>2, <1>3, <2>1, <2>8, <2>9, Moves, Zenon DEF x
<1>5. CASE Fail(l)
  BY <1>1, <1>2, <1>3, <1>5, FailInv, Zenon
<1> QED
  BY <1>4, <1>5, Zenon DEF IdentifyHash

-----------------------------------------------------------------------------
(* Comparison, reservation and retention.                                   *)

LEMMA CompareInv ==
    ASSUME IInv, NEW l \in Launches, Compare(l)
    PROVE  IInv'
<1> DEFINE x == launch[l]
<1>1. FilesOK /\ LaunchOK(x, Len(disk)) /\ x.phase = "identify"
  BY Zenon DEF IInv, Compare
<1>2. /\ "reserve" \notin {"closed", "identify"}
      /\ "reserve" # "copy"
      /\ "reserve" # "retain"
      /\ "reserve" \notin Planned
      /\ "reserve" \notin Locked
      /\ "identify" \in {"closed", "identify"}
      /\ "identify" # "copy"
      /\ "identify" # "retain"
      /\ "identify" # "reserve"
      /\ "identify" \notin Planned
      /\ "identify" \notin Locked
  BY DEF Planned, Locked
<1>3. UNCHANGED <<name, disk, lock, guard, inheritable, child>>
  BY Zenon DEF Compare
<1>4. ASSUME launch[l].opened = NoFile,
             launch[l].expected # NoIdentity => VerifyMatches(launch[l].expected.chain, launch[l].chain),
             launch' = [launch EXCEPT ![l] = [@ EXCEPT !.phase = "reserve", !.seen = resident, !.directory = QualifyDirectoryAncestry]]
      PROVE  IInv'
  <2> DEFINE k == [x EXCEPT !.phase = "reserve", !.seen = resident, !.directory = QualifyDirectoryAncestry]
  <2>1. launch' = [launch EXCEPT ![l] = k]
    BY <1>4, Zenon
  <2>2. x.opened = NoFile /\ (x.expected # NoIdentity => VerifyMatches(x.expected.chain, x.chain))
    BY <1>4, Zenon
  <2> HIDE DEF x
  <2>8. DOMAIN k = LaunchFields /\ k.phase = "reserve" /\ k.opened = x.opened /\ k.chain = x.chain /\ k.retained = x.retained /\ k.expected = x.expected
    BY <1>1 DEF LaunchOK, LaunchFields
  <2> HIDE DEF k
  <2>9. LaunchOK(k, Len(disk))
    BY <1>1, <1>2, <1>4, <2>8, <2>2, ZenonT(60) DEF LaunchOK, OpenedOK, Follows
  <2> QED
    BY <1>1, <1>2, <1>3, <2>1, <2>8, <2>9, Moves, Zenon DEF x
<1>5. CASE Fail(l)
  BY <1>1, <1>2, <1>3, <1>5, FailInv, Zenon
<1> QED
  BY <1>4, <1>5, Zenon DEF Compare

LEMMA ReserveInv ==
    ASSUME IInv, NEW l \in Launches, Reserve(l)
    PROVE  IInv'
<1> DEFINE x == launch[l]
<1>1. LaunchOK(x, Len(disk)) /\ x.phase = "reserve"
  BY Zenon DEF IInv, Reserve
<1>2. /\ "retain" \notin {"closed", "identify"} /\ "reserve" \notin {"closed", "identify"}
      /\ "retain" # "copy" /\ "retain" # "reserve" /\ "reserve" # "copy" /\ "reserve" # "retain"
      /\ "retain" \notin Planned /\ "reserve" \notin Planned
      /\ "retain" \notin Locked /\ "reserve" \notin Locked
  BY DEF Planned, Locked
<1>3. UNCHANGED <<name, disk, lock, guard, inheritable, child>>
  BY Zenon DEF Reserve
<1>4. ASSUME NEW k, launch' = [launch EXCEPT ![l] = k], DOMAIN k = LaunchFields,
             k.phase \in {"retain", "reserve"}, k.opened = x.opened, k.chain = x.chain,
             k.retained = x.retained, k.expected = x.expected
      PROVE  IInv'
  <2> HIDE DEF x
  <2>1. LaunchOK(k, Len(disk)) /\ k.phase \notin Locked
    BY <1>1, <1>2, <1>4, ZenonT(60) DEF LaunchOK, OpenedOK, Follows
  <2> QED
    BY <1>1, <1>2, <1>3, <1>4, <2>1, Moves, Zenon DEF x
<1>5. ASSUME NEW bytes, launch' = [launch EXCEPT ![l] = [@ EXCEPT !.phase = "retain", !.seen = 0, !.held = bytes]]
      PROVE  IInv'
  <2> DEFINE k == [x EXCEPT !.phase = "retain", !.seen = 0, !.held = bytes]
  <2>1. launch' = [launch EXCEPT ![l] = k]
    BY <1>5, Zenon
  <2> HIDE DEF x
  <2>2. /\ DOMAIN k = LaunchFields /\ k.phase \in {"retain", "reserve"} /\ k.opened = x.opened
        /\ k.chain = x.chain /\ k.retained = x.retained /\ k.expected = x.expected
    BY <1>1 DEF LaunchOK, LaunchFields
  <2> HIDE DEF k
  <2> QED
    BY <1>4, <2>1, <2>2, Zenon
<1>6. CASE launch' = [launch EXCEPT ![l] = [@ EXCEPT !.seen = resident]]
  <2> DEFINE k == [x EXCEPT !.seen = resident]
  <2>1. launch' = [launch EXCEPT ![l] = k]
    BY <1>6, Zenon
  <2> HIDE DEF x
  <2>2. /\ DOMAIN k = LaunchFields /\ k.phase \in {"retain", "reserve"} /\ k.opened = x.opened
        /\ k.chain = x.chain /\ k.retained = x.retained /\ k.expected = x.expected
    BY <1>1 DEF LaunchOK, LaunchFields
  <2> HIDE DEF k
  <2> QED
    BY <1>4, <2>1, <2>2, Zenon
<1>7. CASE Fail(l)
  BY <1>1, <1>2, <1>3, <1>7, FailInv, Zenon
<1> QED
  BY <1>5, <1>6, <1>7, Zenon DEF Reserve, ReserveExchange

LEMMA RetainOpenInv ==
    ASSUME IInv, NEW l \in Launches, RetainOpen(l)
    PROVE  IInv'
<1> DEFINE x == launch[l]
<1>1. FilesOK /\ LaunchOK(x, Len(disk)) /\ x.phase = "retain"
  BY Zenon DEF IInv, RetainOpen
<1>2. /\ "retain" \notin {"closed", "identify"}
      /\ "retain" # "copy"
      /\ "retain" # "reserve"
      /\ "retain" \notin Planned
      /\ "retain" \notin Locked
  BY DEF Planned, Locked
<1>3. UNCHANGED <<name, disk, lock, guard, inheritable, child>>
  BY Zenon DEF RetainOpen
<1>4. ASSUME launch[l].opened = NoFile,
             Len(launch[l].retained) + 1 <= Len(launch[l].chain),
             launch' = [launch EXCEPT ![l] = [@ EXCEPT !.opened = OpenArtifact(launch[l].chain[Len(launch[l].retained) + 1])]]
      PROVE  IInv'
  <2> DEFINE k == [x EXCEPT !.opened = OpenArtifact(launch[l].chain[Len(launch[l].retained) + 1])]
  <2>1. launch' = [launch EXCEPT ![l] = k]
    BY <1>4, Zenon
  <2> DEFINE a == x.chain[Len(x.retained) + 1]
             file == OpenArtifact(a)
  <2>2. Len(x.retained) < Len(x.chain) /\ a \in Artifacts
    BY <1>1, <1>4 DEF LaunchOK, Follows, SnapshotsOf
  <2>3. a.role \in Roles /\ a.command \in Commands /\ a.path \in DOMAIN name
    <3> HIDE DEF a
    <3> QED
      BY <1>1, <2>2 DEF Artifacts, FilesOK
  <2>4. file \in Files /\ file.inode \in 1..Len(disk)
    BY <1>1, <2>3, OpensFile, Zenon
  <2>5. k = [x EXCEPT !.opened = file]
    BY Zenon
  <2> HIDE DEF a, file, k
  <2> HIDE DEF x
  <2>8. DOMAIN k = LaunchFields /\ k.phase = "retain" /\ k.opened = file /\ k.chain = x.chain /\ k.retained = x.retained /\ k.expected = x.expected
    BY <1>1, <2>5 DEF LaunchOK, LaunchFields
  <2>9. LaunchOK(k, Len(disk))
    BY <1>1, <1>2, <1>4, <2>8, <2>2, <2>4, ZenonT(60) DEF LaunchOK, OpenedOK, Follows
  <2> QED
    BY <1>1, <1>2, <1>3, <2>1, <2>8, <2>9, Moves, Zenon DEF x
<1> QED
  BY <1>4, Zenon DEF RetainOpen

LEMMA RetainHashInv ==
    ASSUME IInv, NEW l \in Launches, RetainHash(l)
    PROVE  IInv'
<1> DEFINE x == launch[l]
<1>1. FilesOK /\ LaunchOK(x, Len(disk)) /\ x.phase = "retain"
  BY Zenon DEF IInv, RetainHash
<1>2. /\ "copy" \notin {"closed", "identify"}
      /\ "copy" # "retain"
      /\ "copy" # "reserve"
      /\ "copy" \notin Planned
      /\ "copy" \notin Locked
      /\ "retain" \notin {"closed", "identify"}
      /\ "retain" # "copy"
      /\ "retain" # "reserve"
      /\ "retain" \notin Planned
      /\ "retain" \notin Locked
  BY DEF Planned, Locked
<1>3. UNCHANGED <<name, disk, lock, guard, inheritable, child>>
  BY Zenon DEF RetainHash
<1>4. ASSUME launch[l].opened # NoFile,
             launch' = [launch EXCEPT ![l] = [@ EXCEPT !.phase = "copy"]]
      PROVE  IInv'
  <2> DEFINE k == [x EXCEPT !.phase = "copy"]
  <2>1. launch' = [launch EXCEPT ![l] = k]
    BY <1>4, Zenon
  <2>2. x.opened # NoFile
    BY <1>4, Zenon
  <2> HIDE DEF x
  <2>8. DOMAIN k = LaunchFields /\ k.phase = "copy" /\ k.opened = x.opened /\ k.chain = x.chain /\ k.retained = x.retained /\ k.expected = x.expected
    BY <1>1 DEF LaunchOK, LaunchFields
  <2> HIDE DEF k
  <2>9. LaunchOK(k, Len(disk))
    BY <1>1, <1>2, <1>4, <2>8, <2>2, ZenonT(60) DEF LaunchOK, OpenedOK, Follows
  <2> QED
    BY <1>1, <1>2, <1>3, <2>1, <2>8, <2>9, Moves, Zenon DEF x
<1>5. CASE Fail(l)
  BY <1>1, <1>2, <1>3, <1>5, FailInv, Zenon
<1> QED
  BY <1>4, <1>5, Zenon DEF RetainHash

\* One more verified snapshot follows the chain one further.
LEMMA OneMore ==
    ASSUME NEW chain, NEW r, SnapshotsOf(chain, r), Len(r) < Len(chain),
           NEW c, c = chain[Len(r) + 1].content
    PROVE  SnapshotsOf(chain, Append(r, c))
<1>1. chain[Len(r) + 1] \in Artifacts
  BY DEF SnapshotsOf
<1>2. c \in Contents
  BY <1>1 DEF Artifacts
<1> QED
  BY <1>2, AppendFacts DEF SnapshotsOf

LEMMA RetainCopyInv ==
    ASSUME IInv, NEW l \in Launches, RetainCopy(l)
    PROVE  IInv'
<1> DEFINE x == launch[l]
<1>1. FilesOK /\ LaunchOK(x, Len(disk)) /\ x.phase = "copy"
  BY Zenon DEF IInv, RetainCopy
<1>2. /\ "retain" \notin {"closed", "identify"}
      /\ "retain" # "copy"
      /\ "retain" # "reserve"
      /\ "retain" \notin Planned
      /\ "retain" \notin Locked
      /\ "copy" \notin {"closed", "identify"}
      /\ "copy" # "retain"
      /\ "copy" # "reserve"
      /\ "copy" \notin Planned
      /\ "copy" \notin Locked
  BY DEF Planned, Locked
<1>3. UNCHANGED <<name, disk, lock, guard, inheritable, child>>
  BY Zenon DEF RetainCopy
<1>4. ASSUME NEW copy, copy = launch[l].chain[Len(launch[l].retained) + 1].content,
             launch' = [launch EXCEPT ![l] = [@ EXCEPT !.phase = "retain", !.opened = NoFile, !.retained = Append(launch[l].retained, copy)]]
      PROVE  IInv'
  <2> DEFINE k == [x EXCEPT !.phase = "retain", !.opened = NoFile, !.retained = Append(launch[l].retained, copy)]
  <2>1. launch' = [launch EXCEPT ![l] = k]
    BY <1>4, Zenon
  <2> DEFINE r == Append(x.retained, copy)
  <2>2. SnapshotsOf(x.chain, x.retained) /\ Len(x.retained) < Len(x.chain)
    BY <1>1, Zenon DEF LaunchOK, Follows
  <2>3. copy = x.chain[Len(x.retained) + 1].content
    BY <1>4, Zenon
  <2>4. k = [x EXCEPT !.phase = "retain", !.opened = NoFile, !.retained = r]
    BY Zenon
  <2>5. SnapshotsOf(x.chain, r)
    BY <2>2, <2>3, OneMore, Zenon
  <2> HIDE DEF r, k
  <2> HIDE DEF x
  <2>8. DOMAIN k = LaunchFields /\ k.phase = "retain" /\ k.opened = NoFile /\ k.chain = x.chain /\ k.retained = r /\ k.expected = x.expected
    BY <1>1, <2>4 DEF LaunchOK, LaunchFields
  <2>9. LaunchOK(k, Len(disk))
    BY <1>1, <1>2, <1>4, <2>8, <2>2, <2>5, ZenonT(60) DEF LaunchOK, OpenedOK, Follows
  <2> QED
    BY <1>1, <1>2, <1>3, <2>1, <2>8, <2>9, Moves, Zenon DEF x
<1>5. CASE Fail(l)
  BY <1>1, <1>2, <1>3, <1>5, FailInv, Zenon
<1> QED
  BY <1>4, <1>5, Zenon DEF RetainCopy, SnapshotVerified

LEMMA PlanInv ==
    ASSUME IInv, NEW l \in Launches, Plan(l)
    PROVE  IInv'
<1> DEFINE x == launch[l]
<1>1. FilesOK /\ LaunchOK(x, Len(disk)) /\ x.phase = "retain"
  BY Zenon DEF IInv, Plan
<1>2. /\ "list" \notin {"closed", "identify"}
      /\ "list" # "copy"
      /\ "list" # "retain"
      /\ "list" # "reserve"
      /\ "list" \in Planned
      /\ "list" \notin Locked
      /\ "retain" \notin {"closed", "identify"}
      /\ "retain" # "copy"
      /\ "retain" # "reserve"
      /\ "retain" \notin Planned
      /\ "retain" \notin Locked
  BY DEF Planned, Locked
<1>3. UNCHANGED <<name, disk, lock, guard, inheritable, child>>
  BY Zenon DEF Plan, BuildLaunchPlan
<1>4. ASSUME NEW runtime,
             Len(launch[l].retained) = Len(launch[l].chain),
             PlanFollows(launch[l].chain, launch[l].retained),
             launch' = [launch EXCEPT ![l] = [@ EXCEPT !.phase = "list", !.runtime = runtime]]
      PROVE  IInv'
  <2> DEFINE k == [x EXCEPT !.phase = "list", !.runtime = runtime]
  <2>1. launch' = [launch EXCEPT ![l] = k]
    BY <1>4, Zenon
  <2>2. Len(x.retained) = Len(x.chain) /\ PlanFollows(x.chain, x.retained)
    BY <1>4, Zenon
  <2> HIDE DEF x
  <2>8. DOMAIN k = LaunchFields /\ k.phase = "list" /\ k.opened = x.opened /\ k.chain = x.chain /\ k.retained = x.retained /\ k.expected = x.expected
    BY <1>1 DEF LaunchOK, LaunchFields
  <2> HIDE DEF k
  <2>9. LaunchOK(k, Len(disk))
    BY <1>1, <1>2, <1>4, <2>8, <2>2, ZenonT(60) DEF LaunchOK, OpenedOK, Follows
  <2> QED
    BY <1>1, <1>2, <1>3, <2>1, <2>8, <2>9, Moves, Zenon DEF x
<1>5. CASE Fail(l)
  BY <1>1, <1>2, <1>3, <1>5, FailInv, Zenon
<1> QED
  BY <1>4, <1>5, Zenon DEF Plan, BuildLaunchPlan

LEMMA ListRuntimeInv ==
    ASSUME IInv, NEW l \in Launches, ListRuntime(l)
    PROVE  IInv'
<1> DEFINE x == launch[l]
<1>1. FilesOK /\ LaunchOK(x, Len(disk)) /\ x.phase = "list"
  BY Zenon DEF IInv, ListRuntime
<1>2. /\ "ready" \notin {"closed", "identify"}
      /\ "ready" # "copy"
      /\ "ready" # "retain"
      /\ "ready" # "reserve"
      /\ "ready" \in Planned
      /\ "ready" \notin Locked
      /\ "list" \notin {"closed", "identify"}
      /\ "list" # "copy"
      /\ "list" # "retain"
      /\ "list" # "reserve"
      /\ "list" \in Planned
      /\ "list" \notin Locked
  BY DEF Planned, Locked
<1>3. UNCHANGED <<name, disk, lock, guard, inheritable, child>>
  BY Zenon DEF ListRuntime
<1>4. ASSUME launch' = [launch EXCEPT ![l] = [@ EXCEPT !.phase = "ready"]]
      PROVE  IInv'
  <2> DEFINE k == [x EXCEPT !.phase = "ready"]
  <2>1. launch' = [launch EXCEPT ![l] = k]
    BY <1>4, Zenon
  <2> HIDE DEF x
  <2>8. DOMAIN k = LaunchFields /\ k.phase = "ready" /\ k.opened = x.opened /\ k.chain = x.chain /\ k.retained = x.retained /\ k.expected = x.expected
    BY <1>1 DEF LaunchOK, LaunchFields
  <2> HIDE DEF k
  <2>9. LaunchOK(k, Len(disk))
    BY <1>1, <1>2, <1>4, <2>8, ZenonT(60) DEF LaunchOK, OpenedOK, Follows
  <2> QED
    BY <1>1, <1>2, <1>3, <2>1, <2>8, <2>9, Moves, Zenon DEF x
<1>5. CASE Fail(l)
  BY <1>1, <1>2, <1>3, <1>5, FailInv, Zenon
<1> QED
  BY <1>4, <1>5, Zenon DEF ListRuntime

LEMMA VerifyRetainedInv ==
    ASSUME IInv, NEW l \in Launches, VerifyRetained(l)
    PROVE  IInv'
<1> DEFINE x == launch[l]
<1>1. FilesOK /\ LaunchOK(x, Len(disk)) /\ x.phase = "ready"
  BY Zenon DEF IInv, VerifyRetained
<1>2. /\ "spawn" \notin {"closed", "identify"}
      /\ "spawn" # "copy"
      /\ "spawn" # "retain"
      /\ "spawn" # "reserve"
      /\ "spawn" \in Planned
      /\ "spawn" \notin Locked
      /\ "ready" \notin {"closed", "identify"}
      /\ "ready" # "copy"
      /\ "ready" # "retain"
      /\ "ready" # "reserve"
      /\ "ready" \in Planned
      /\ "ready" \notin Locked
  BY DEF Planned, Locked
<1>3. UNCHANGED <<name, disk, lock, guard, inheritable, child>>
  BY Zenon DEF VerifyRetained
<1>4. ASSUME launch' = [launch EXCEPT ![l] = [@ EXCEPT !.phase = "spawn"]]
      PROVE  IInv'
  <2> DEFINE k == [x EXCEPT !.phase = "spawn"]
  <2>1. launch' = [launch EXCEPT ![l] = k]
    BY <1>4, Zenon
  <2> HIDE DEF x
  <2>8. DOMAIN k = LaunchFields /\ k.phase = "spawn" /\ k.opened = x.opened /\ k.chain = x.chain /\ k.retained = x.retained /\ k.expected = x.expected
    BY <1>1 DEF LaunchOK, LaunchFields
  <2> HIDE DEF k
  <2>9. LaunchOK(k, Len(disk))
    BY <1>1, <1>2, <1>4, <2>8, ZenonT(60) DEF LaunchOK, OpenedOK, Follows
  <2> QED
    BY <1>1, <1>2, <1>3, <2>1, <2>8, <2>9, Moves, Zenon DEF x
<1>5. CASE Fail(l)
  BY <1>1, <1>2, <1>3, <1>5, FailInv, Zenon
<1> QED
  BY <1>4, <1>5, Zenon DEF VerifyRetained

-----------------------------------------------------------------------------
(* Spawning.                                                                *)

\* A planned launch in its next phase.
LEMMA PlannedMoves ==
    ASSUME NEW n, NEW x, LaunchOK(x, n), x.phase \in Planned,
           NEW k, DOMAIN k = LaunchFields, k.phase \in Planned, k.opened = x.opened,
           k.chain = x.chain, k.retained = x.retained, k.expected = x.expected
    PROVE  LaunchOK(k, n)
<1>1. \A p \in Planned : /\ p \notin {"closed", "identify"} /\ p # "reserve" /\ p # "copy" /\ p # "retain"
  BY DEF Planned, Locked
<1> QED
  BY <1>1, ZenonT(60) DEF LaunchOK, OpenedOK, Follows

\* A step of one launch that may take or release the lock.
LEMMA Steps ==
    ASSUME IInv, NEW l \in Launches, NEW k, LaunchOK(k, Len(disk)),
           launch' = [launch EXCEPT ![l] = k], LockOK', GuardOK', UNCHANGED <<name, disk>>,
           child' = [m \in Launches |-> child'[m]], \A m \in Launches : ChildOK(m, child'[m])
    PROVE  IInv'
<1>1. /\ FilesOK /\ launch = [m \in Launches |-> launch[m]]
      /\ \A m \in Launches : LaunchOK(launch[m], Len(disk))
  BY Zenon DEF IInv
<1>2. /\ launch' = [m \in Launches |-> launch'[m]] /\ launch'[l] = k
      /\ \A m \in Launches \ {l} : launch'[m] = launch[m]
  BY <1>1
<1>3. FilesOK'
  BY <1>1 DEF FilesOK
<1>4. \A m \in Launches : LaunchOK(launch'[m], Len(disk'))
  BY <1>1, <1>2, Zenon
<1> QED
  BY <1>2, <1>3, <1>4, Zenon DEF IInv

LEMMA MakeInheritableInv ==
    ASSUME IInv, NEW l \in Launches, MakeInheritable(l)
    PROVE  IInv'
<1> DEFINE k == [launch[l] EXCEPT !.phase = "fork"]
<1>1. /\ LockOK /\ GuardOK /\ launch = [m \in Launches |-> launch[m]]
      /\ LaunchOK(launch[l], Len(disk)) /\ child = [m \in Launches |-> child[m]]
      /\ \A m \in Launches : ChildOK(m, child[m])
  BY Zenon DEF IInv
<1>2. /\ launch[l].phase = "spawn" /\ guard = NoOne /\ guard' = l
      /\ inheritable' = inheritable \cup Descriptors(l)
      /\ launch' = [launch EXCEPT ![l] = k] /\ UNCHANGED <<name, disk, lock, child>>
  BY Zenon DEF MakeInheritable, LockFree
<1>3. "spawn" \in Planned /\ "fork" \in Planned /\ "fork" \in Locked
  BY DEF Planned, Locked
<1>4. LaunchOK(k, Len(disk)) /\ k.phase = "fork" /\ k.retained = launch[l].retained
  <2>1. DOMAIN launch[l] = LaunchFields
    BY <1>1, Zenon DEF LaunchOK
  <2>2. /\ DOMAIN k = LaunchFields /\ k.phase = "fork" /\ k.opened = launch[l].opened
        /\ k.chain = launch[l].chain /\ k.retained = launch[l].retained
        /\ k.expected = launch[l].expected
    BY <2>1 DEF LaunchFields
  <2> HIDE DEF k
  <2> QED
    BY <1>1, <1>2, <1>3, <2>2, PlannedMoves, Zenon
<1> HIDE DEF k
<1>5. launch'[l] = k /\ \A m \in Launches \ {l} : launch'[m] = launch[m]
  BY <1>1, <1>2
<1>6. GuardOK'
  <2>1. \A m \in Launches : launch[m].phase \notin Locked
    BY <1>1, <1>2, NoOneAssumption, Zenon DEF GuardOK
  <2>2. \A m \in Launches : launch'[m].phase \in Locked <=> guard' = m
    BY <1>2, <1>3, <1>4, <1>5, <2>1, Zenon
  <2>3. inheritable' = Descriptors(l)
    BY <1>1, <1>2 DEF GuardOK
  <2>4. Descriptors(l)' = Descriptors(l)
    BY <1>4, <1>5 DEF Descriptors
  <2>5. l # NoOne
    BY NoOneAssumption, Zenon
  <2>6. (IF guard = NoOne THEN {} ELSE Descriptors(guard))' = Descriptors(l)'
    BY <1>2, <2>5 DEF Descriptors
  <2> QED
    BY <1>2, <2>2, <2>3, <2>4, <2>6, Zenon DEF GuardOK
<1>7. LockOK'
  BY <1>1, <1>2 DEF LockOK, AdmittedChainIsWhole
<1>8. child' = [m \in Launches |-> child'[m]] /\ \A m \in Launches : ChildOK(m, child'[m])
  BY <1>1, <1>2, Zenon
<1> QED
  BY <1>2, <1>4, <1>6, <1>7, <1>8, Steps, Zenon

\* The holder of the lock in its next phase keeps the lock.
LEMMA KeepsLock ==
    ASSUME IInv, NEW l \in Launches, launch[l].phase \in Locked, NEW k,
           k.phase \in Locked, k.retained = launch[l].retained,
           launch' = [launch EXCEPT ![l] = k], UNCHANGED <<guard, inheritable>>
    PROVE  GuardOK'
<1>1. GuardOK /\ launch = [m \in Launches |-> launch[m]]
  BY Zenon DEF IInv
<1>2. launch'[l] = k /\ \A m \in Launches \ {l} : launch'[m] = launch[m]
  BY <1>1
<1>3. guard = l /\ guard # NoOne
  BY <1>1, NoOneAssumption, Zenon DEF GuardOK
<1>4. \A m \in Launches : launch'[m].phase \in Locked <=> guard' = m
  BY <1>1, <1>2, <1>3, Zenon DEF GuardOK
<1>5. Descriptors(guard)' = Descriptors(guard)
  BY <1>2, <1>3 DEF Descriptors
<1>6. (IF guard = NoOne THEN {} ELSE Descriptors(guard))' = Descriptors(guard)
  BY <1>3, <1>5
<1> QED
  BY <1>1, <1>3, <1>4, <1>6, Zenon DEF GuardOK

\* The snapshots of a planned launch are the bytes of the identity it expects.
LEMMA PlannedExecutes ==
    ASSUME NEW x, NEW n, LaunchOK(x, n), x.phase \in Planned
    PROVE  Executes(x.retained, x.expected)
<1>1. x.phase \notin {"closed", "identify"}
  BY DEF Planned, Locked
<1>2. /\ SnapshotsOf(x.chain, x.retained) /\ Len(x.retained) = Len(x.chain)
      /\ x.expected # NoIdentity => VerifyMatches(x.expected.chain, x.chain)
  BY <1>1, Zenon DEF LaunchOK, Follows
<1> QED
  BY <1>2 DEF Executes, SnapshotsOf, VerifyMatches, SameArtifact

LEMMA ForkInv ==
    ASSUME IInv, NEW l \in Launches, Fork(l)
    PROVE  IInv'
<1> DEFINE k == [launch[l] EXCEPT !.phase = "spawning"]
           c == [phase |-> "isolating", step |-> 1, signal |-> FALSE, orphan |-> FALSE,
                 executes |-> launch[l].retained, inherits |-> inheritable,
                 expected |-> launch[l].expected]
<1>1. /\ LockOK /\ GuardOK /\ launch = [m \in Launches |-> launch[m]]
      /\ LaunchOK(launch[l], Len(disk)) /\ child = [m \in Launches |-> child[m]]
      /\ \A m \in Launches : ChildOK(m, child[m])
  BY Zenon DEF IInv
<1>2. /\ launch[l].phase = "fork" /\ child' = [child EXCEPT ![l] = c]
      /\ launch' = [launch EXCEPT ![l] = k]
      /\ UNCHANGED <<name, disk, lock, guard, inheritable>>
  BY Zenon DEF Fork
<1>3. "fork" \in Planned /\ "spawning" \in Planned /\ "fork" \in Locked /\ "spawning" \in Locked
  BY DEF Planned, Locked
<1>4. LaunchOK(k, Len(disk)) /\ k.phase = "spawning" /\ k.retained = launch[l].retained
  <2>1. DOMAIN launch[l] = LaunchFields
    BY <1>1, Zenon DEF LaunchOK
  <2>2. /\ DOMAIN k = LaunchFields /\ k.phase = "spawning" /\ k.opened = launch[l].opened
        /\ k.chain = launch[l].chain /\ k.retained = launch[l].retained
        /\ k.expected = launch[l].expected
    BY <2>1 DEF LaunchFields
  <2> HIDE DEF k
  <2> QED
    BY <1>1, <1>2, <1>3, <2>2, PlannedMoves, Zenon
<1> HIDE DEF k
<1>5. GuardOK'
  BY <1>2, <1>3, <1>4, KeepsLock, Zenon
<1>6. ChildOK(l, c)
  <2>1. Executes(launch[l].retained, launch[l].expected)
    BY <1>1, <1>2, <1>3, PlannedExecutes, Zenon
  <2>2. inheritable = Descriptors(l)
    BY <1>1, <1>2, <1>3, NoOneAssumption, Zenon DEF GuardOK
  <2>3. inheritable = {<<l, i>> : i \in 1..Len(launch[l].retained)}
    BY <2>2, Zenon DEF Descriptors
  <2>4. /\ DOMAIN c = ChildFields /\ c.phase = "isolating" /\ c.step = 1 /\ c.signal = FALSE
        /\ c.orphan = FALSE /\ c.executes = launch[l].retained /\ c.inherits = inheritable
        /\ c.expected = launch[l].expected
    BY DEF ChildFields
  <2>5. 1 \in 1..4 /\ 1 # 4 /\ "isolating" # "running"
    OBVIOUS
  <2> HIDE DEF c
  <2> QED
    BY <2>1, <2>3, <2>4, <2>5, Zenon DEF ChildOK
<1> HIDE DEF c
<1>7. /\ child' = [m \in Launches |-> child'[m]] /\ child'[l] = c
      /\ \A m \in Launches \ {l} : child'[m] = child[m]
  BY <1>1, <1>2
<1>8. LockOK'
  BY <1>1, <1>2 DEF LockOK, AdmittedChainIsWhole
<1>9. \A m \in Launches : ChildOK(m, child'[m])
  BY <1>1, <1>6, <1>7, Zenon
<1> QED
  BY <1>2, <1>4, <1>5, <1>7, <1>8, <1>9, Steps, Zenon

-----------------------------------------------------------------------------
(* The child between fork and exec.                                         *)

\* A step of the child alone.
LEMMA ChildSteps ==
    ASSUME IInv, NEW l \in Launches, NEW c, ChildOK(l, c), child' = [child EXCEPT ![l] = c],
           UNCHANGED <<name, disk, lock, launch, guard, inheritable>>
    PROVE  IInv'
<1>1. /\ FilesOK /\ LockOK /\ GuardOK /\ launch = [m \in Launches |-> launch[m]]
      /\ \A m \in Launches : LaunchOK(launch[m], Len(disk))
      /\ child = [m \in Launches |-> child[m]]
      /\ \A m \in Launches : ChildOK(m, child[m])
  BY Zenon DEF IInv
<1>2. /\ child' = [m \in Launches |-> child'[m]] /\ child'[l] = c
      /\ \A m \in Launches \ {l} : child'[m] = child[m]
  BY <1>1
<1>3. FilesOK' /\ LockOK'
  BY <1>1 DEF FilesOK, LockOK, AdmittedChainIsWhole
<1>4. GuardOK'
  BY <1>1 DEF GuardOK, Descriptors
<1>5. \A m \in Launches : ChildOK(m, child'[m])
  BY <1>1, <1>2, Zenon
<1> QED
  BY <1>1, <1>2, <1>3, <1>4, <1>5, Zenon DEF IInv

\* One system call: the death signal stays armed once the identity has changed.
LEMMA CallOK ==
    ASSUME NEW l, NEW c, ChildOK(l, c), c.phase = "isolating", NEW signal \in BOOLEAN,
           NEW step \in 1..4, NEW phase \in {"isolating", "running"}, NEW d,
           d = [c EXCEPT !.signal = signal, !.step = step, !.phase = phase],
           step = 4 => signal, phase = "running" => signal /\ ~ c.orphan
    PROVE  ChildOK(l, d)
<1>1. c # NoChild
  BY DEF NoChild
<1>2. /\ DOMAIN c = ChildFields /\ c.orphan \in BOOLEAN
      /\ c.inherits = {<<l, i>> : i \in 1..Len(c.executes)} /\ Executes(c.executes, c.expected)
  BY <1>1, Zenon DEF ChildOK
<1>3. /\ DOMAIN d = ChildFields /\ d.signal = signal /\ d.step = step /\ d.phase = phase
      /\ d.orphan = c.orphan /\ d.executes = c.executes /\ d.inherits = c.inherits
      /\ d.expected = c.expected
  BY <1>2 DEF ChildFields
<1> QED
  BY <1>2, <1>3, Zenon DEF ChildOK

LEMMA IsolateInv ==
    ASSUME IInv, NEW l \in Launches, Isolate(l)
    PROVE  IInv'
<1> DEFINE c == child[l]
           d(signal, step, phase) == [c EXCEPT !.signal = signal, !.step = step, !.phase = phase]
<1>1. ChildOK(l, c) /\ c.phase = "isolating"
  BY Zenon DEF IInv, Isolate
<1>2. UNCHANGED <<name, disk, lock, launch, guard, inheritable>>
  BY Zenon DEF Isolate
<1>3. c # NoChild
  BY <1>1 DEF NoChild
<1>4. c.step \in 1..4 /\ c.orphan \in BOOLEAN /\ c.signal \in BOOLEAN /\ (c.step = 4 => c.signal)
  BY <1>1, <1>3, Zenon DEF ChildOK
<1>5. CASE c.step = 1
  <2>1. child' = [child EXCEPT ![l] = d(FALSE, 2, "isolating")]
    BY <1>5 DEF Isolate, IsolationOrder
  <2>2. ChildOK(l, d(FALSE, 2, "isolating"))
    <3>1. 2 \in 1..4 /\ 2 # 4 /\ "isolating" # "running" /\ FALSE \in BOOLEAN
      OBVIOUS
    <3> QED
      BY <1>1, <3>1, CallOK, Zenon
  <2> QED
    BY <1>2, <2>1, <2>2, ChildSteps, Zenon
<1>6. CASE c.step = 2
  <2>1. child' = [child EXCEPT ![l] = d(c.signal, 3, "isolating")]
    BY <1>6 DEF Isolate, IsolationOrder
  <2>2. ChildOK(l, d(c.signal, 3, "isolating"))
    <3>1. 3 \in 1..4 /\ 3 # 4 /\ "isolating" # "running"
      OBVIOUS
    <3> QED
      BY <1>1, <1>4, <3>1, CallOK, Zenon
  <2> QED
    BY <1>2, <2>1, <2>2, ChildSteps, Zenon
<1>7. CASE c.step = 3
  <2>1. child' = [child EXCEPT ![l] = d(TRUE, 4, "isolating")]
    BY <1>7 DEF Isolate, IsolationOrder
  <2>2. ChildOK(l, d(TRUE, 4, "isolating"))
    <3>1. 4 \in 1..4 /\ "isolating" # "running" /\ TRUE \in BOOLEAN
      OBVIOUS
    <3> QED
      BY <1>1, <3>1, CallOK, Zenon
  <2> QED
    BY <1>2, <2>1, <2>2, ChildSteps, Zenon
<1>8. CASE c.step = 4 /\ c.orphan
  <2>1. child' = [child EXCEPT ![l] = NoChild]
    BY <1>8 DEF Isolate, IsolationOrder
  <2>2. ChildOK(l, NoChild)
    BY Zenon DEF ChildOK
  <2> QED
    BY <1>2, <2>1, <2>2, ChildSteps, Zenon
<1>9. CASE c.step = 4 /\ ~ c.orphan
  <2>1. child' = [child EXCEPT ![l] = d(c.signal, 4, "running")]
    BY <1>9 DEF Isolate, IsolationOrder
  <2>2. ChildOK(l, d(c.signal, 4, "running"))
    <3>1. 4 \in 1..4
      OBVIOUS
    <3> QED
      BY <1>1, <1>4, <1>9, <3>1, CallOK, Zenon
  <2> QED
    BY <1>2, <2>1, <2>2, ChildSteps, Zenon
<1> QED
  BY <1>4, <1>5, <1>6, <1>7, <1>8, <1>9

LEMMA IsolationFailsInv ==
    ASSUME IInv, NEW l \in Launches, IsolationFails(l)
    PROVE  IInv'
<1>1. ChildOK(l, NoChild)
  BY Zenon DEF ChildOK
<1> QED
  BY <1>1, ChildSteps, Zenon DEF IsolationFails

-----------------------------------------------------------------------------
(* The end of a launch.                                                     *)

\* The lock is released, and with it the flags of its holder's snapshots.
LEMMA Releases ==
    ASSUME IInv, NEW l \in Launches, launch[l].phase = "spawning", NEW k, k.phase \notin Locked,
           launch' = [launch EXCEPT ![l] = k], guard' = NoOne,
           inheritable' = inheritable \ Descriptors(l)
    PROVE  GuardOK'
<1>1. GuardOK /\ launch = [m \in Launches |-> launch[m]]
  BY Zenon DEF IInv
<1>2. launch'[l] = k /\ \A m \in Launches \ {l} : launch'[m] = launch[m]
  BY <1>1
<1>3. "spawning" \in Locked
  BY DEF Locked
<1>4. guard = l /\ \A m \in Launches : m # NoOne
  BY <1>1, <1>3, NoOneAssumption, Zenon DEF GuardOK
<1>5. \A m \in Launches : launch'[m].phase \notin Locked
  BY <1>1, <1>2, <1>4, Zenon DEF GuardOK
<1>6. inheritable = Descriptors(l)
  BY <1>1, <1>4, Zenon DEF GuardOK
<1>7. inheritable' = {}
  BY <1>6
<1> QED
  BY <1>4, <1>5, <1>7, Zenon DEF GuardOK

LEMMA SpawnReturnsInv ==
    ASSUME IInv, NEW l \in Launches, SpawnReturns(l)
    PROVE  IInv'
<1> DEFINE k == [launch[l] EXCEPT !.phase = "spawned"]
<1>1. /\ LockOK /\ LaunchOK(launch[l], Len(disk)) /\ child = [m \in Launches |-> child[m]]
      /\ \A m \in Launches : ChildOK(m, child[m])
  BY Zenon DEF IInv
<1>2. /\ launch[l].phase = "spawning" /\ guard' = NoOne
      /\ inheritable' = inheritable \ Descriptors(l) /\ UNCHANGED <<name, disk, lock, child>>
  BY Zenon DEF SpawnReturns
<1>3. "spawning" \in Planned /\ "spawned" \in Planned /\ "spawned" \notin Locked
  BY DEF Planned, Locked
<1>4. LaunchOK(k, Len(disk)) /\ k.phase = "spawned"
  <2>1. DOMAIN launch[l] = LaunchFields
    BY <1>1, Zenon DEF LaunchOK
  <2>2. /\ DOMAIN k = LaunchFields /\ k.phase = "spawned" /\ k.opened = launch[l].opened
        /\ k.chain = launch[l].chain /\ k.retained = launch[l].retained
        /\ k.expected = launch[l].expected
    BY <2>1 DEF LaunchFields
  <2> HIDE DEF k
  <2> QED
    BY <1>1, <1>2, <1>3, <2>2, PlannedMoves, Zenon
<1>5. LockOK'
  BY <1>1, <1>2 DEF LockOK, AdmittedChainIsWhole
<1>6. child' = [m \in Launches |-> child'[m]] /\ \A m \in Launches : ChildOK(m, child'[m])
  BY <1>1, <1>2, Zenon
<1>7. launch' = [launch EXCEPT ![l] = k] \/ launch' = [launch EXCEPT ![l] = Idle]
  BY Zenon DEF SpawnReturns, Fail
<1> HIDE DEF k
<1>8. GuardOK'
  BY <1>2, <1>3, <1>4, <1>7, IdleOK, Releases, Zenon
<1> QED
  BY <1>2, <1>4, <1>5, <1>6, <1>7, <1>8, IdleOK, Steps, Zenon

LEMMA ReapInv ==
    ASSUME IInv, NEW l \in Launches, Reap(l)
    PROVE  IInv'
<1> DEFINE x == launch[l]
           admitted == [chain |-> x.chain, directory |-> x.directory, runtime |-> x.runtime]
<1>1. /\ LockOK /\ GuardOK /\ launch = [m \in Launches |-> launch[m]]
      /\ LaunchOK(x, Len(disk)) /\ child = [m \in Launches |-> child[m]]
      /\ \A m \in Launches : ChildOK(m, child[m])
  BY Zenon DEF IInv
<1>2. /\ x.phase = "spawned" /\ child' = [child EXCEPT ![l] = NoChild]
      /\ lock' = admitted \/ lock' = lock
      /\ launch' = [launch EXCEPT ![l] = Idle] /\ UNCHANGED <<name, disk, guard, inheritable>>
  BY Zenon DEF Reap, Fail
<1>3. "spawned" \in Planned /\ "spawned" \notin Locked
  BY DEF Planned, Locked
<1>4. LockOK'
  <2>1. Follows(x) /\ Len(x.retained) = Len(x.chain) /\ PlanFollows(x.chain, x.retained)
    BY <1>1, <1>2, <1>3, Zenon DEF LaunchOK
  <2>2. x.retained = [i \in 1..Len(x.chain) |-> x.chain[i].content]
    BY <2>1, AllRetained, Zenon
  <2>3. CASE lock' = lock
    BY <1>1, <2>3 DEF LockOK, AdmittedChainIsWhole
  <2>4. CASE lock' = admitted
    <3>1. lock'.chain = x.chain
      BY <2>4
    <3>2. PlanFollows(x.chain, [i \in 1..Len(x.chain) |-> x.chain[i].content])
      BY <2>1, <2>2, Zenon
    <3> QED
      BY <3>1, <3>2, Zenon DEF LockOK, AdmittedChainIsWhole
  <2> QED
    BY <1>2, <2>3, <2>4, Zenon
<1>5. GuardOK'
  <2>1. guard # l
    BY <1>1, <1>2, <1>3, Zenon DEF GuardOK
  <2>2. launch'[l] = Idle /\ \A m \in Launches \ {l} : launch'[m] = launch[m]
    BY <1>1, <1>2
  <2>3. \A m \in Launches : launch'[m].phase \in Locked <=> guard' = m
    BY <1>1, <1>2, <2>1, <2>2, IdleOK, Zenon DEF GuardOK
  <2>4. guard # NoOne => Descriptors(guard)' = Descriptors(guard)
    BY <1>1, <1>2, <2>1, <2>2 DEF GuardOK, Descriptors
  <2> QED
    BY <1>1, <1>2, <2>3, <2>4, Zenon DEF GuardOK
<1>6. /\ child' = [m \in Launches |-> child'[m]] /\ child'[l] = NoChild
      /\ \A m \in Launches \ {l} : child'[m] = child[m]
  BY <1>1, <1>2
<1>7. \A m \in Launches : ChildOK(m, child'[m])
  BY <1>1, <1>6, Zenon DEF ChildOK
<1> QED
  BY <1>2, <1>4, <1>5, <1>6, <1>7, IdleOK, Steps, Zenon

LEMMA RestartInv ==
    ASSUME IInv, NEW l \in Launches, Restart(l)
    PROVE  IInv'
<1> DEFINE k == [launch[l] EXCEPT !.phase = "ready"]
<1>1. /\ LockOK /\ GuardOK /\ launch = [m \in Launches |-> launch[m]]
      /\ LaunchOK(launch[l], Len(disk)) /\ child = [m \in Launches |-> child[m]]
      /\ \A m \in Launches : ChildOK(m, child[m])
  BY Zenon DEF IInv
<1>2. /\ launch[l].phase = "spawned" /\ child' = [child EXCEPT ![l] = NoChild]
      /\ launch' = [launch EXCEPT ![l] = k]
      /\ UNCHANGED <<name, disk, lock, guard, inheritable>>
  BY Zenon DEF Restart
<1>3. "spawned" \in Planned /\ "spawned" \notin Locked /\ "ready" \in Planned /\ "ready" \notin Locked
  BY DEF Planned, Locked
<1>4. LaunchOK(k, Len(disk)) /\ k.phase = "ready"
  <2>1. DOMAIN launch[l] = LaunchFields
    BY <1>1, Zenon DEF LaunchOK
  <2>2. /\ DOMAIN k = LaunchFields /\ k.phase = "ready" /\ k.opened = launch[l].opened
        /\ k.chain = launch[l].chain /\ k.retained = launch[l].retained
        /\ k.expected = launch[l].expected
    BY <2>1 DEF LaunchFields
  <2> HIDE DEF k
  <2> QED
    BY <1>1, <1>2, <1>3, <2>2, PlannedMoves, Zenon
<1>5. LockOK'
  BY <1>1, <1>2 DEF LockOK, AdmittedChainIsWhole
<1> HIDE DEF k
<1>6. GuardOK'
  <2>1. guard # l
    BY <1>1, <1>2, <1>3, Zenon DEF GuardOK
  <2>2. launch'[l] = k /\ \A m \in Launches \ {l} : launch'[m] = launch[m]
    BY <1>1, <1>2
  <2>3. \A m \in Launches : launch'[m].phase \in Locked <=> guard' = m
    BY <1>1, <1>2, <1>3, <1>4, <2>1, <2>2, Zenon DEF GuardOK
  <2>4. guard # NoOne => Descriptors(guard)' = Descriptors(guard)
    BY <1>1, <1>2, <2>1, <2>2 DEF GuardOK, Descriptors
  <2> QED
    BY <1>1, <1>2, <2>3, <2>4, Zenon DEF GuardOK
<1>7. /\ child' = [m \in Launches |-> child'[m]] /\ child'[l] = NoChild
      /\ \A m \in Launches \ {l} : child'[m] = child[m]
  BY <1>1, <1>2
<1>8. \A m \in Launches : ChildOK(m, child'[m])
  BY <1>1, <1>7, Zenon DEF ChildOK
<1> QED
  BY <1>2, <1>4, <1>5, <1>6, <1>7, <1>8, Steps, Zenon

-----------------------------------------------------------------------------
(* The daemon.                                                              *)

\* A child without an armed signal outlives the daemon, and is no helper yet.
LEMMA Orphaned ==
    ASSUME NEW l, NEW c, ChildOK(l, c), c.phase # "none", ~ c.signal
    PROVE  ChildOK(l, [c EXCEPT !.orphan = TRUE])
<1> DEFINE d == [c EXCEPT !.orphan = TRUE]
<1>1. c # NoChild
  BY DEF NoChild
<1>2. /\ DOMAIN c = ChildFields /\ c.phase \in {"isolating", "running"} /\ c.step \in 1..4
      /\ c.signal \in BOOLEAN /\ c.inherits = {<<l, i>> : i \in 1..Len(c.executes)}
      /\ Executes(c.executes, c.expected) /\ c.step # 4 /\ c.phase # "running"
  BY <1>1, Zenon DEF ChildOK
<1>3. /\ DOMAIN d = ChildFields /\ d.signal = c.signal /\ d.step = c.step /\ d.phase = c.phase
      /\ d.orphan = TRUE /\ d.executes = c.executes /\ d.inherits = c.inherits
      /\ d.expected = c.expected
  BY <1>2 DEF ChildFields
<1> HIDE DEF d
<1>4. ChildOK(l, d)
  BY <1>2, <1>3, Zenon DEF ChildOK
<1> QED
  BY <1>4, Zenon DEF d

LEMMA DaemonDiesInv ==
    ASSUME IInv, DaemonDies
    PROVE  IInv'
<1>1. /\ FilesOK /\ LockOK /\ \A m \in Launches : ChildOK(m, child[m])
  BY Zenon DEF IInv
<1>2. /\ launch' = [l \in Launches |-> Idle] /\ guard' = NoOne /\ inheritable' = {}
      /\ child' = [l \in Launches |-> IF child[l].phase = "none" \/ child[l].signal THEN NoChild
                                      ELSE [child[l] EXCEPT !.orphan = TRUE]]
      /\ UNCHANGED <<name, disk, lock>>
  BY Zenon DEF DaemonDies
<1>3. FilesOK' /\ LockOK'
  BY <1>1, <1>2 DEF FilesOK, LockOK, AdmittedChainIsWhole
<1>4. launch' = [l \in Launches |-> launch'[l]] /\ \A l \in Launches : launch'[l] = Idle
  BY <1>2
<1>5. \A l \in Launches : LaunchOK(launch'[l], Len(disk')) /\ launch'[l].phase \notin Locked
  BY <1>4, IdleOK, Zenon
<1>6. GuardOK'
  BY <1>2, <1>5, NoOneAssumption, Zenon DEF GuardOK
<1>7. /\ child' = [l \in Launches |-> child'[l]]
      /\ \A l \in Launches : child'[l] = IF child[l].phase = "none" \/ child[l].signal THEN NoChild
                                         ELSE [child[l] EXCEPT !.orphan = TRUE]
  BY <1>2
<1>8. \A l \in Launches : ChildOK(l, child'[l])
  <2> TAKE l \in Launches
  <2>1. CASE child[l].phase = "none" \/ child[l].signal
    BY <1>7, <2>1, Zenon DEF ChildOK
  <2>2. CASE ~ (child[l].phase = "none" \/ child[l].signal)
    <3>1. child'[l] = [child[l] EXCEPT !.orphan = TRUE]
      BY <1>7, <2>2
    <3>2. ChildOK(l, [child[l] EXCEPT !.orphan = TRUE])
      BY <1>1, <2>2, Orphaned
    <3> QED
      BY <3>1, <3>2, Zenon
  <2> QED
    BY <2>1, <2>2
<1> QED
  BY <1>3, <1>4, <1>5, <1>6, <1>7, <1>8, Zenon DEF IInv

\* Every step that leaves the modelled state alone: a restart, and stuttering.
LEMMA Unchanged ==
    ASSUME IInv, UNCHANGED <<name, disk, lock, launch, guard, inheritable, child>>
    PROVE  IInv'
<1>1. /\ FilesOK /\ LockOK /\ GuardOK /\ launch = [m \in Launches |-> launch[m]]
      /\ \A m \in Launches : LaunchOK(launch[m], Len(disk))
      /\ child = [m \in Launches |-> child[m]]
      /\ \A m \in Launches : ChildOK(m, child[m])
  BY Zenon DEF IInv
<1>2. FilesOK' /\ LockOK'
  BY <1>1 DEF FilesOK, LockOK, AdmittedChainIsWhole
<1>3. GuardOK'
  BY <1>1 DEF GuardOK, Descriptors
<1>4. \A m \in Launches : LaunchOK(launch'[m], Len(disk')) /\ ChildOK(m, child'[m])
  BY <1>1, Zenon
<1> QED
  BY <1>1, <1>2, <1>3, <1>4, Zenon DEF IInv

-----------------------------------------------------------------------------
(* The theorems.                                                            *)

LEMMA LaunchStepInv ==
    ASSUME IInv, NEW l \in Launches, LaunchStep(l)
    PROVE  IInv'
BY BeginInv, IdentifyOpenInv, IdentifyHashInv, CompareInv, ReserveInv, RetainOpenInv, RetainHashInv,
   RetainCopyInv, PlanInv, ListRuntimeInv, VerifyRetainedInv, MakeInheritableInv, ForkInv, IsolateInv,
   IsolationFailsInv, SpawnReturnsInv, ReapInv, RestartInv, Zenon DEF LaunchStep

LEMMA NextInv == IInv /\ [Next]_vars => IInv'
<1> SUFFICES ASSUME IInv, [Next]_vars PROVE IInv'
  OBVIOUS
<1>1. CASE ReplaceFile
  BY <1>1, ReplaceFileInv
<1>2. CASE RewriteFile
  BY <1>2, RewriteFileInv
<1>3. CASE DaemonDies
  BY <1>3, DaemonDiesInv
<1>4. CASE DaemonRestarts
  BY <1>4, Unchanged, Zenon DEF DaemonRestarts
<1>5. CASE \E l \in Launches : LaunchStep(l)
  BY <1>5, LaunchStepInv, Zenon
<1>6. CASE UNCHANGED vars
  BY <1>6, Unchanged, Zenon DEF vars
<1> QED
  BY <1>1, <1>2, <1>3, <1>4, <1>5, <1>6 DEF Next

\* The invariant of identification, snapshots, descriptor lock and children holds
\* in every reachable state, for any number of launching threads.
THEOREM Inductive == Spec => []IInv
BY InitInv, NextInv, PTL DEF Spec

\* No child runs, or is on its way to run, bytes other than those of the identity
\* it was launched for, and every admitted chain is the one its own bytes name,
\* whatever files a deployment replaces or rewrites between the reads.
THEOREM HelpersRunWhatWasAdmitted == Spec => []RunsWhatWasAdmitted
<1>1. IInv => RunsWhatWasAdmitted
  <2> SUFFICES ASSUME IInv PROVE RunsWhatWasAdmitted
    OBVIOUS
  <2>1. AdmittedChainIsWhole
    BY Zenon DEF IInv, LockOK
  <2>2. ASSUME NEW l \in Launches, child[l].phase = "running", child[l].expected # NoIdentity
        PROVE  Executes(child[l].executes, child[l].expected)
    <3>1. child[l] # NoChild
      BY <2>2 DEF NoChild
    <3> QED
      BY <3>1, Zenon DEF IInv, ChildOK
  <2>3. ExecutesAdmittedBytes
    BY <2>2, Zenon DEF ExecutesAdmittedBytes, Executes
  <2> QED
    BY <2>1, <2>3 DEF RunsWhatWasAdmitted
<1> QED
  BY <1>1, Inductive, PTL

\* A child inherits exactly the snapshots of its own launch: whoever forks holds
\* the lock, and the lock's holder is the only launch with inheritable descriptors.
THEOREM ChildrenInheritTheirOwn == Spec => []InheritsOwnDescriptors
<1>1. IInv => InheritsOwnDescriptors
  <2> SUFFICES ASSUME IInv, NEW l \in Launches, child[l].phase # "none"
               PROVE  child[l].inherits = {<<l, i>> : i \in 1..Len(child[l].executes)}
    BY Zenon DEF InheritsOwnDescriptors
  <2>1. child[l] # NoChild
    BY DEF NoChild
  <2> QED
    BY <2>1, Zenon DEF IInv, ChildOK
<1> QED
  BY <1>1, Inductive, PTL

\* No helper outlives its daemon: the parent is checked after the death signal
\* was armed, and nothing disarms it in between.
THEOREM NoHelperOutlivesItsDaemon == Spec => []NoOrphanHelper
<1>1. IInv => NoOrphanHelper
  <2> SUFFICES ASSUME IInv, NEW l \in Launches, child[l].phase = "running"
               PROVE  ~ child[l].orphan
    BY Zenon DEF NoOrphanHelper
  <2>1. child[l] # NoChild
    BY DEF NoChild
  <2> QED
    BY <2>1, Zenon DEF IInv, ChildOK
<1> QED
  BY <1>1, Inductive, PTL
=============================================================================
