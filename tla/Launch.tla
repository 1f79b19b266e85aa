------------------------------- MODULE Launch -------------------------------
(***************************************************************************)
(* Launching a helper: identify the configured command, compare it with the  *)
(* admitted identity, copy every artifact into a sealed snapshot, qualify    *)
(* the startup runtime, and fork a child that isolates itself before it      *)
(* executes.  Several threads of one daemon launch at the same time while a  *)
(* deployment replaces files or rewrites them in place, and the daemon may   *)
(* die at any moment.                                                       *)
(*                                                                          *)
(* A digest stands for the content it is computed from.  A file's time stamp *)
(* is as coarse as the file system's, so that a rewrite need not move it.    *)
(*                                                                          *)
(* Source: crates/nq-core/src/identity.rs, runtime.rs, admission.rs,         *)
(* crates/nq-helper-sandbox/src/lib.rs.                                      *)
(***************************************************************************)
EXTENDS Runtime

LOCAL INSTANCE Functions

CONSTANTS
    Launches,        \* threads that launch helpers
    Deployed,        \* sequence of [path, content]: the files when the daemon starts, by inode
    Updates,         \* pairs <<path, content>> a deployment may install
    Target(_),       \* canonical path behind a symbolic link (or the path itself)
    Executable,      \* path of the configured command
    Directory,       \* its working directory
    Arguments,       \* its fixed arguments that may name files
    EnvPath,         \* the supported wrapper, /usr/bin/env
    ResidentLimit,   \* bytes that live snapshots may take together
    MaxArtifacts, MaxArtifactSize, MaxTotalSize, MaxChainDepth,
    MaxChanges,      \* bound: deployments
    MaxCrashes       \* bound: deaths of the daemon

Paths == {Deployed[n].path : n \in DOMAIN Deployed}

ASSUME DeployedAssumption == Len(Deployed) \in Nat /\ DOMAIN Deployed = 1..Len(Deployed)
ASSUME UpdatesAssumption == \A u \in Updates : u[1] \in Paths
ASSUME TargetAssumption == \A p \in Paths : Target(p) \in Paths

VARIABLES
    name,        \* [path -> inode]
    disk,        \* inode contents: sequence of [content, stamp]
    lock,        \* the admitted execution identity, or NoIdentity
    launch,      \* [Launches -> the launch in progress]
    resident,    \* bytes reserved for snapshots (RESIDENT_LAUNCH_BYTES)
    guard,       \* holder of the descriptor launch lock, or NoOne
    inheritable, \* descriptors whose close-on-exec flag is off
    child,       \* [Launches -> the process forked for it]
    daemon,      \* "up" or "down"
    changes, crashes

vars == <<name, disk, lock, launch, resident, guard, inheritable, child, daemon,
          changes, crashes>>

NoIdentity == [none |-> TRUE]
NoFile == [inode |-> 0]
NoOne == "no one"

ASSUME NoOneAssumption == NoOne \notin Launches

Idle == [phase |-> "closed", admitting |-> FALSE, expected |-> NoIdentity,
         chain |-> <<>>, directory |-> 0, opened |-> NoFile, seen |-> 0, held |-> 0,
         retained |-> <<>>, runtime |-> <<>>]

NoChild == [phase |-> "none", executes |-> <<>>, inherits |-> {}, expected |-> NoIdentity]

Init ==
    /\ name = [p \in Paths |-> CHOOSE n \in DOMAIN Deployed : Deployed[n].path = p]
    /\ disk = [n \in DOMAIN Deployed |-> [content |-> Deployed[n].content, stamp |-> 1]]
    /\ lock = NoIdentity
    /\ launch = [l \in Launches |-> Idle]
    /\ resident = 0
    /\ guard = NoOne
    /\ inheritable = {}
    /\ child = [l \in Launches |-> NoChild]
    /\ daemon = "up"
    /\ changes = 0
    /\ crashes = 0

\* The file system as the runtime qualification reads it.  A path that names no
\* file yet has an inode of kind "absent".
View == [p \in {q \in DOMAIN name : disk[name[Target(q)]].content.kind # "absent"} |->
           [path |-> Target(p), inode |-> name[Target(p)],
            content |-> disk[name[Target(p)]].content, stamp |-> disk[name[Target(p)]].stamp]]

-----------------------------------------------------------------------------
(* A deployment beside the daemon (external).                               *)

ReplaceFile ==
    /\ changes < MaxChanges
    /\ changes' = changes + 1
    /\ \E u \in Updates :
         /\ disk' = Append(disk, [content |-> u[2], stamp |-> 1])
         /\ name' = [name EXCEPT ![u[1]] = Len(disk) + 1]
    /\ UNCHANGED <<lock, launch, resident, guard, inheritable, child, daemon, crashes>>

RewriteFile ==
    /\ changes < MaxChanges
    /\ changes' = changes + 1
    /\ \E u \in {v \in Updates : v[2].kind # "directory" /\ v[1] \in DOMAIN View}, tick \in {0, 1} :
         disk' = [disk EXCEPT ![name[u[1]]] = [content |-> u[2], stamp |-> @.stamp + tick]]
    /\ UNCHANGED <<name, lock, launch, resident, guard, inheritable, child, daemon, crashes>>

-----------------------------------------------------------------------------
(* Budgets.                                                                 *)

\* ArtifactBudget::reserve over the sizes of a whole chain and of what it loads.
WithinBudget(sizes, loaded) ==
    /\ \A s \in Range(sizes) \cup Range(loaded) : s <= MaxArtifactSize
    /\ Cardinality(DOMAIN sizes) + Cardinality(DOMAIN loaded) <= MaxArtifacts
    /\ SumFunction(sizes) + SumFunction(loaded) <= MaxTotalSize

Sizes(chain) == [i \in 1..Len(chain) |-> chain[i].content.size]

SnapshotBytes(chain) == SumFunction(Sizes(chain))

\* An object that is also an artifact of the chain counts once.
ValidateBounds(chain, runtime) ==
    LET inodes == {chain[i].inode : i \in 1..Len(chain)}
        loaded == UNION {runtime[i] : i \in DOMAIN runtime}
    IN WithinBudget(Sizes(chain), [a \in {o \in loaded : o.inode \notin inodes} |-> a.content.size])

-----------------------------------------------------------------------------
(* Identification: resolve_parts opens the command, the interpreters its     *)
(* files name, and the fixed arguments that are files, in that order.        *)

\* parse_shebang: a script's interpreter line; refused when it is malformed.
ParseShebang(c) == IF c.kind = "script" THEN {[interpreter |-> c.interpreter, command |-> c.command]} ELSE {}

Executables(chain) == SelectSeq(chain, LAMBDA a : a.role # "argument")

\* What is opened after the artifacts identified so far: the interpreter line of
\* the newest program was read when it was opened.
CollectInterpreters(chain) ==
    LET newest == chain[Len(chain)]
    IN IF newest.role = "argument" THEN {}
       ELSE IF newest.path = EnvPath /\ newest.role = "interpreter"
            THEN {[role |-> "target", path |-> newest.command, command |-> NoPath]}
       ELSE {[role |-> "interpreter", path |-> s.interpreter, command |-> s.command] :
               s \in ParseShebang(newest.prefix)}

CollectFixedArgumentFiles(chain) ==
    LET taken == Len(chain) - Len(Executables(chain))
        files == SelectSeq(Arguments, LAMBDA p : p \in DOMAIN name)
    IN IF taken < Len(files) THEN {[role |-> "argument", path |-> files[taken + 1], command |-> NoPath]} ELSE {}

NextArtifact(chain) ==
    IF chain = <<>> THEN {[role |-> "root", path |-> Executable, command |-> NoPath]}
    ELSE IF CollectInterpreters(chain) # {} THEN CollectInterpreters(chain)
    ELSE CollectFixedArgumentFiles(chain)

\* An interpreter line is followed MaxChainDepth times and no more.
TooDeep(chain, next) ==
    /\ next.role = "interpreter"
    /\ Cardinality({i \in 1..Len(chain) : chain[i].role = "interpreter"}) >= MaxChainDepth

\* open_artifact: the descriptor pins the inode; its metadata and the first
\* bytes are read now, the digest in a later step.
OpenArtifact(a) ==
    LET i == name[Target(a.path)]
    IN [role |-> a.role, path |-> Target(a.path), command |-> a.command,
        inode |-> i, stamp |-> disk[i].stamp, prefix |-> disk[i].content]

\* The digest of an opened file, nothing when the metadata moved meanwhile.
HashArtifact(file) ==
    IF disk[file.inode].stamp = file.stamp /\ disk[file.inode].content.size = file.prefix.size
    THEN {disk[file.inode].content} ELSE {}

Fail(l) ==
    /\ launch' = [launch EXCEPT ![l] = Idle]
    /\ resident' = resident - launch[l].held

\* VerifiedLaunch::open for an admission, open_expected for a collection.
Begin(l) ==
    /\ daemon = "up" /\ launch[l].phase = "closed" /\ child[l].phase = "none"
    /\ \/ launch' = [launch EXCEPT ![l] = [Idle EXCEPT !.phase = "identify", !.admitting = TRUE]]
       \/ /\ lock # NoIdentity
          /\ ValidateBounds(lock.chain, lock.runtime)
          /\ launch' = [launch EXCEPT ![l] = [Idle EXCEPT !.phase = "identify", !.expected = lock]]
    /\ UNCHANGED <<name, disk, lock, resident, guard, inheritable, child, daemon, changes, crashes>>

IdentifyOpen(l) ==
    /\ launch[l].phase = "identify" /\ launch[l].opened = NoFile
    /\ \E next \in NextArtifact(launch[l].chain) :
         IF \/ next.path \notin DOMAIN name
            \/ TooDeep(launch[l].chain, next)
            \/ ~ WithinBudget(Append(Sizes(launch[l].chain), OpenArtifact(next).prefix.size), <<>>)
         THEN Fail(l)
         ELSE /\ launch' = [launch EXCEPT ![l] = [@ EXCEPT !.opened = OpenArtifact(next)]]
              /\ UNCHANGED resident
    /\ UNCHANGED <<name, disk, lock, guard, inheritable, child, daemon, changes, crashes>>

Identified(file, digest) ==
    [role |-> file.role, path |-> file.path, inode |-> file.inode, stamp |-> file.stamp,
     prefix |-> file.prefix, content |-> digest, command |-> file.command]

IdentifyHash(l) ==
    LET file == launch[l].opened IN
    /\ launch[l].phase = "identify" /\ file # NoFile
    /\ IF HashArtifact(file) = {} THEN Fail(l)
       ELSE /\ \E digest \in HashArtifact(file) :
                 launch' = [launch EXCEPT ![l] =
                              [@ EXCEPT !.opened = NoFile,
                                        !.chain = Append(launch[l].chain, Identified(file, digest))]]
            /\ UNCHANGED resident
    /\ UNCHANGED <<name, disk, lock, guard, inheritable, child, daemon, changes, crashes>>

-----------------------------------------------------------------------------
(* Comparison and reservation.                                              *)

\* verify_matches over the base facts: the root's metadata, every artifact of the
\* chain by path, inode and digest.
SameArtifact(a, b) ==
    /\ a.role = b.role /\ a.path = b.path /\ a.inode = b.inode
    /\ a.content = b.content /\ a.command = b.command

VerifyMatches(expected, chain) ==
    /\ Len(expected) = Len(chain)
    /\ expected[1].stamp = chain[1].stamp
    /\ \A i \in 1..Len(chain) : SameArtifact(expected[i], chain[i])

\* The working directory and every ancestor by inode, owner and mode.
QualifyDirectoryAncestry == name[Target(Directory)]

Compare(l) ==
    /\ launch[l].phase = "identify" /\ launch[l].opened = NoFile
    /\ launch[l].chain # <<>> /\ NextArtifact(launch[l].chain) = {}
    /\ IF /\ launch[l].expected # NoIdentity
          /\ \/ ~ VerifyMatches(launch[l].expected.chain, launch[l].chain)
             \/ launch[l].expected.directory # QualifyDirectoryAncestry
       THEN Fail(l)
       ELSE /\ launch' = [launch EXCEPT ![l] = [@ EXCEPT !.phase = "reserve", !.seen = resident,
                                                         !.directory = QualifyDirectoryAncestry]]
            /\ UNCHANGED resident
    /\ UNCHANGED <<name, disk, lock, guard, inheritable, child, daemon, changes, crashes>>

\* ResidentReservation::acquire: a compare-exchange loop.
ReserveExchange(l, bytes) ==
    IF launch[l].seen = resident
    THEN /\ resident' = resident + bytes
         /\ launch' = [launch EXCEPT ![l] = [@ EXCEPT !.phase = "retain", !.seen = 0, !.held = bytes]]
    ELSE /\ launch' = [launch EXCEPT ![l] = [@ EXCEPT !.seen = resident]]
         /\ UNCHANGED resident

Reserve(l) ==
    /\ launch[l].phase = "reserve"
    /\ IF launch[l].seen + SnapshotBytes(launch[l].chain) > ResidentLimit
       THEN Fail(l)
       ELSE ReserveExchange(l, SnapshotBytes(launch[l].chain))
    /\ UNCHANGED <<name, disk, lock, guard, inheritable, child, daemon, changes, crashes>>

-----------------------------------------------------------------------------
(* Retention: every artifact is opened again, compared with the identity and *)
(* copied into a sealed snapshot whose digest must be the identity's.        *)

RetainOpen(l) ==
    LET next == Len(launch[l].retained) + 1 IN
    /\ launch[l].phase = "retain" /\ launch[l].opened = NoFile
    /\ next <= Len(launch[l].chain)
    /\ launch' = [launch EXCEPT ![l] = [@ EXCEPT !.opened = OpenArtifact(launch[l].chain[next])]]
    /\ UNCHANGED <<name, disk, lock, resident, guard, inheritable, child, daemon, changes, crashes>>

\* retain_root compares the time stamp as well, retain_chain_artifact does not.
StillIdentified(artifact, file, digest) ==
    /\ file.inode = artifact.inode
    /\ digest = artifact.content
    /\ artifact.role = "root" => file.stamp = artifact.stamp

RetainHash(l) ==
    LET file == launch[l].opened
        artifact == launch[l].chain[Len(launch[l].retained) + 1]
    IN /\ launch[l].phase = "retain" /\ file # NoFile
       /\ IF \E digest \in HashArtifact(file) : StillIdentified(artifact, file, digest)
          THEN /\ launch' = [launch EXCEPT ![l] = [@ EXCEPT !.phase = "copy"]]
               /\ UNCHANGED resident
          ELSE Fail(l)
       /\ UNCHANGED <<name, disk, lock, guard, inheritable, child, daemon, changes, crashes>>

SnapshotUnverified(copy, artifact) == copy.size = artifact.content.size

\* The sealed copy has the size and the digest of the identified artifact.
SnapshotVerified(copy, artifact) == copy = artifact.content

RetainCopy(l) ==
    LET copy == disk[launch[l].opened.inode].content
        artifact == launch[l].chain[Len(launch[l].retained) + 1]
    IN /\ launch[l].phase = "copy"
       /\ IF SnapshotVerified(copy, artifact)
          THEN /\ launch' = [launch EXCEPT ![l] = [@ EXCEPT !.phase = "retain", !.opened = NoFile,
                                                            !.retained = Append(launch[l].retained, copy)]]
               /\ UNCHANGED resident
          ELSE Fail(l)
       /\ UNCHANGED <<name, disk, lock, guard, inheritable, child, daemon, changes, crashes>>

RetainDirectory(identified) == name[Target(Directory)] = identified

\* The chain that the snapshots themselves name must be the identified one, from
\* program to interpreter (or through the wrapper to its target), all of it used.
PlanFollows(chain, retained) ==
    LET programs == Executables(chain)
        line(i) == ParseShebang(retained[i])
        wrapper(i) == programs[i].path = EnvPath /\ programs[i].role = "interpreter"
    IN \A i \in 1..Len(programs) :
         IF wrapper(i)
         THEN /\ i < Len(programs)
              /\ programs[i + 1].role = "target"
              /\ \A s \in line(i - 1) : programs[i].command = s.command
         ELSE IF line(i) = {} THEN i = Len(programs)
         ELSE \A s \in line(i) : /\ i < Len(programs)
                                 /\ programs[i + 1].role = "interpreter"
                                 /\ programs[i + 1].path = Target(s.interpreter)

BuildLaunchPlan(chain, retained) == PlanFollows(chain, retained)

-----------------------------------------------------------------------------
(* The startup runtime: read the closure, then let the loader list it.       *)

\* The programs of the chain, which its argument files follow.
DiscoverForRetained(chain, retained) ==
    DiscoverStartupRuntime(View, SubSeq(retained, 1, Len(Executables(chain))))

Plan(l) ==
    LET found == {r \in DiscoverForRetained(launch[l].chain, launch[l].retained) :
                    ValidateBounds(launch[l].chain, r)} IN
    /\ launch[l].phase = "retain" /\ launch[l].opened = NoFile
    /\ Len(launch[l].retained) = Len(launch[l].chain)
    /\ IF /\ RetainDirectory(launch[l].directory)
          /\ BuildLaunchPlan(launch[l].chain, launch[l].retained)
          /\ found # {}
       THEN /\ \E runtime \in found :
                 launch' = [launch EXCEPT ![l] = [@ EXCEPT !.phase = "list", !.runtime = runtime]]
            /\ UNCHANGED resident
       ELSE Fail(l)
    /\ UNCHANGED <<name, disk, lock, guard, inheritable, child, daemon, changes, crashes>>

\* One listing for each program, compared with the closure of that program.
ListedAsFound(retained, runtime) ==
    LET view == View
    IN \A i \in DOMAIN runtime : BindLoaderOutputToClosure(Reachable(view, retained[i]), runtime[i])

\* The loader runs as a child of its own under the descriptor lock; it may fail,
\* exceed its time or print too much.
ListRuntime(l) ==
    /\ launch[l].phase = "list" /\ guard = NoOne
    /\ IF /\ ListedAsFound(launch[l].retained, launch[l].runtime)
          /\ launch[l].expected # NoIdentity => launch[l].runtime = launch[l].expected.runtime
       THEN \/ /\ launch' = [launch EXCEPT ![l] = [@ EXCEPT !.phase = "ready"]]
               /\ UNCHANGED resident
            \/ Fail(l)
       ELSE Fail(l)
    /\ UNCHANGED <<name, disk, lock, guard, inheritable, child, daemon, changes, crashes>>

-----------------------------------------------------------------------------
(* Spawning.                                                                *)

\* verify_retained: the snapshots are sealed; the runtime is discovered again.
VerifyRetained(l) ==
    /\ launch[l].phase = "ready" /\ guard = NoOne
    /\ IF /\ QualifyDirectoryAncestry = launch[l].directory
          /\ launch[l].runtime \in DiscoverForRetained(launch[l].chain, launch[l].retained)
          /\ ListedAsFound(launch[l].retained, launch[l].runtime)
       THEN /\ launch' = [launch EXCEPT ![l] = [@ EXCEPT !.phase = "spawn"]]
            /\ UNCHANGED resident
       ELSE Fail(l)
    /\ UNCHANGED <<name, disk, lock, guard, inheritable, child, daemon, changes, crashes>>

Descriptors(l) == {<<l, i>> : i \in 1..Len(launch[l].retained)}

LockNotTaken(l) == TRUE

LockFree(l) == guard = NoOne

MakeInheritable(l) ==
    /\ launch[l].phase = "spawn" /\ LockFree(l)
    /\ guard' = l
    /\ inheritable' = inheritable \cup Descriptors(l)
    /\ launch' = [launch EXCEPT ![l] = [@ EXCEPT !.phase = "fork"]]
    /\ UNCHANGED <<name, disk, lock, resident, child, daemon, changes, crashes>>

Fork(l) ==
    /\ launch[l].phase = "fork"
    /\ child' = [child EXCEPT ![l] =
                   [phase |-> "isolating", step |-> 1, signal |-> FALSE, orphan |-> FALSE,
                    executes |-> launch[l].retained, inherits |-> inheritable,
                    expected |-> launch[l].expected]]
    /\ launch' = [launch EXCEPT ![l] = [@ EXCEPT !.phase = "spawning"]]
    /\ UNCHANGED <<name, disk, lock, resident, guard, inheritable, daemon, changes, crashes>>

SignalBeforeIdentity == <<"death signal", "parent check", "identity", "limits and filter">>

\* child_isolate, from setpgid to the last prctl: a change of identity clears the
\* death signal, so the signal is armed after it, and the parent is checked once
\* the signal is armed.
IsolationOrder == <<"identity", "limits and filter", "death signal", "parent check">>

\* One system call of the child between fork and exec; each may fail, and a
\* child whose parent is gone kills itself.
Isolate(l) ==
    LET c == child[l]
        call == IsolationOrder[c.step]
        last == c.step = Len(IsolationOrder)
        done(signal) == [c EXCEPT !.signal = signal, !.step = IF last THEN @ ELSE @ + 1,
                                  !.phase = IF last THEN "running" ELSE "isolating"]
    IN /\ c.phase = "isolating"
       /\ child' = [child EXCEPT ![l] =
            CASE call = "identity" -> done(FALSE)
              [] call = "death signal" -> done(TRUE)
              [] call = "parent check" /\ c.orphan -> NoChild
              [] OTHER -> done(c.signal)]
       /\ UNCHANGED <<name, disk, lock, launch, resident, guard, inheritable, daemon, changes, crashes>>

IsolationFails(l) ==
    /\ child[l].phase = "isolating"
    /\ child' = [child EXCEPT ![l] = NoChild]
    /\ UNCHANGED <<name, disk, lock, launch, resident, guard, inheritable, daemon, changes, crashes>>

\* spawn returns in the parent when the child has executed or is gone; the flags
\* are restored before the lock is released.
SpawnReturns(l) ==
    /\ launch[l].phase = "spawning" /\ child[l].phase # "isolating"
    /\ inheritable' = inheritable \ Descriptors(l)
    /\ guard' = NoOne
    /\ IF child[l].phase = "none" THEN Fail(l)
       ELSE /\ launch' = [launch EXCEPT ![l] = [@ EXCEPT !.phase = "spawned"]]
            /\ UNCHANGED resident
    /\ UNCHANGED <<name, disk, lock, child, daemon, changes, crashes>>

\* The helper is reaped and the launch dropped; a dry collection that passed
\* admits the identity its descriptors were opened with.
Reap(l) ==
    /\ launch[l].phase = "spawned"
    /\ child' = [child EXCEPT ![l] = NoChild]
    /\ \/ /\ launch[l].admitting
          /\ lock' = [chain |-> launch[l].chain, directory |-> launch[l].directory,
                      runtime |-> launch[l].runtime]
       \/ UNCHANGED lock
    /\ Fail(l)
    /\ UNCHANGED <<name, disk, guard, inheritable, daemon, changes, crashes>>

\* UnixRunner::restart: the helper is reaped and another is spawned from the
\* snapshots already held.
Restart(l) ==
    /\ launch[l].phase = "spawned"
    /\ child' = [child EXCEPT ![l] = NoChild]
    /\ launch' = [launch EXCEPT ![l] = [@ EXCEPT !.phase = "ready"]]
    /\ UNCHANGED <<name, disk, lock, resident, guard, inheritable, daemon, changes, crashes>>

\* The kernel kills the children whose death signal is armed.
DaemonDies ==
    /\ daemon = "up" /\ crashes < MaxCrashes
    /\ crashes' = crashes + 1
    /\ daemon' = "down"
    /\ launch' = [l \in Launches |-> Idle]
    /\ resident' = 0
    /\ guard' = NoOne
    /\ inheritable' = {}
    /\ child' = [l \in Launches |->
                   IF child[l].phase = "none" \/ child[l].signal THEN NoChild
                   ELSE [child[l] EXCEPT !.orphan = TRUE]]
    /\ UNCHANGED <<name, disk, lock, changes>>

DaemonRestarts ==
    /\ daemon = "down"
    /\ daemon' = "up"
    /\ UNCHANGED <<name, disk, lock, launch, resident, guard, inheritable, child, changes, crashes>>

LaunchStep(l) ==
    \/ Begin(l) \/ IdentifyOpen(l) \/ IdentifyHash(l) \/ Compare(l) \/ Reserve(l)
    \/ RetainOpen(l) \/ RetainHash(l) \/ RetainCopy(l) \/ Plan(l) \/ ListRuntime(l)
    \/ VerifyRetained(l) \/ MakeInheritable(l) \/ Fork(l) \/ Isolate(l) \/ IsolationFails(l)
    \/ SpawnReturns(l) \/ Reap(l) \/ Restart(l)

Next ==
    \/ ReplaceFile \/ RewriteFile \/ DaemonDies \/ DaemonRestarts
    \/ \E l \in Launches : LaunchStep(l)

Spec == Init /\ [][Next]_vars

-----------------------------------------------------------------------------
(* Properties.                                                              *)

\* A collection's helper executes exactly the bytes of the admitted identity,
\* interpreters and argument files included, however files change between the
\* reads that identify, compare, hash and copy them.
ExecutesAdmittedBytes ==
    \A l \in Launches :
        child[l].phase = "running" /\ child[l].expected # NoIdentity =>
            /\ Len(child[l].executes) = Len(child[l].expected.chain)
            /\ \A i \in 1..Len(child[l].executes) :
                   child[l].executes[i] = child[l].expected.chain[i].content

\* The chain an admission records is the chain its own bytes name: no
\* interpreter that was read from bytes other than the ones digested.
AdmittedChainIsWhole ==
    lock # NoIdentity =>
        PlanFollows(lock.chain, [i \in 1..Len(lock.chain) |-> lock.chain[i].content])

\* What runs is what an admission recorded, and what an admission recorded is
\* one consistent chain of script and interpreters.
RunsWhatWasAdmitted == ExecutesAdmittedBytes /\ AdmittedChainIsWhole

\* A child inherits the snapshots of its own launch and no descriptor of a
\* launch that another thread has in progress.
InheritsOwnDescriptors ==
    \A l \in Launches :
        child[l].phase # "none" => child[l].inherits = {<<l, i>> : i \in 1..Len(child[l].executes)}

\* No helper runs on after the daemon that forked it has died, wherever between
\* fork and exec that happened.
NoOrphanHelper == \A l \in Launches : child[l].phase = "running" => ~ child[l].orphan

\* A startup closure that qualification accepts is what the loader maps, for
\* every file system a deployment leaves behind.
ClosureIsLoaded ==
    LET view == View
    IN \A c \in {view[p].content : p \in DOMAIN view} :
           \A runtime \in DiscoverStartupRuntime(view, <<c>>) :
               {a.path : a \in runtime[1]} = Reachable(view, c)
==============================================================================
