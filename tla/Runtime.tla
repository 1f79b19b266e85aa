------------------------------- MODULE Runtime -------------------------------
(***************************************************************************)
(* The startup runtime of a helper: which loader and shared objects a native *)
(* program needs, found by reading the objects and without running them, and *)
(* the comparison of that closure with the objects the loader reports.       *)
(*                                                                          *)
(* A file content is a record: "script" names its interpreter, "native" is   *)
(* an ELF object.  Numbers, offsets and string tables of an object stand for *)
(* what they decide: whether the object is well formed and what it needs.    *)
(*                                                                          *)
(* Source: crates/nq-core/src/runtime.rs.                                    *)
(***************************************************************************)
EXTENDS Naturals, Sequences, FiniteSets

CONSTANTS
    HostMachine,          \* the machine number of this host
    SupportedLoaders,     \* loader paths accepted for it
    SystemPaths,          \* paths under the system library roots
    LibraryPath(_),       \* soname -> candidate paths, in search order
    GlobalPreload,        \* the file that names objects to load into every program
    MaxLoaderEntries,     \* objects of one startup closure
    MaxDependencyEdges    \* dependencies declared along one closure

NoPath == "no path"
Refused == [refused |-> TRUE]

-----------------------------------------------------------------------------
(* One object.                                                              *)

Redirecting == {"audit", "depaudit", "filter", "auxiliary"}
SearchPaths == {"rpath", "runpath"}

\* The dynamic entries: terminated, none that loads or redirects other code,
\* at most one string table, and one table when anything is needed.
ReadDynamicValues(o) ==
    /\ o.terminated
    /\ o.tags \cap (Redirecting \cup SearchPaths) = {}
    /\ Len(o.needed) <= MaxLoaderEntries
    /\ o.tables <= 1

\* The needed names: a mapped table, bare names, none of them twice.
ReadNeededNames(o) ==
    /\ o.needed # <<>> => o.tables = 1 /\ o.mapped
    /\ \A i \in 1..Len(o.needed) : o.needed[i] # NoPath
    /\ \A i, j \in 1..Len(o.needed) : o.needed[i] = o.needed[j] => i = j

\* The dynamic segment lies in the file and is mapped where it says.
ValidateDynamicSegment(o) ==
    o.dynamic => o.mapped /\ ReadDynamicValues(o) /\ ReadNeededNames(o)

\* A content read as a native object: nothing for a script or data, refused
\* when malformed or for another machine.
ParseNative(c) ==
    IF c.kind # "native" THEN {}
    ELSE IF /\ c.type \in {"exec", "dyn"}
            /\ c.machine = HostMachine
            /\ ~ c.dynamic => c.needed = <<>>
            /\ ValidateDynamicSegment(c)
         THEN {[type |-> c.type, interpreter |-> c.interpreter,
                dynamic |-> c.dynamic, needed |-> c.needed]}
         ELSE {Refused}

RequireSupportedLoader(p) == p \in SupportedLoaders

RequireSystemRuntimePath(p) == p \in SystemPaths

\* A host with a global preload file is not supported, whatever the file holds.
RejectGlobalPreload(view) == GlobalPreload \in DOMAIN view

-----------------------------------------------------------------------------
(* The closure.  An artifact is what qualify_runtime_artifact records of one *)
(* file: its canonical path, inode, digest and time stamp.                   *)

\* The first candidate of a soname that exists.
ResolveFixedSoname(view, soname) ==
    LET there == SelectSeq(LibraryPath(soname), LAMBDA p : p \in DOMAIN view)
    IN IF there = <<>> THEN NoPath ELSE Head(there)

QualifyRuntimeArtifact(view, p) ==
    [path |-> view[p].path, inode |-> view[p].inode,
     content |-> view[p].content, stamp |-> view[p].stamp]

\* One inode reached by two canonical paths is refused.
OnePathPerInode(artifacts) ==
    \A a, b \in artifacts : a.inode = b.inode => a.path = b.path

\* A loader or shared object of the closure is itself a dynamic object of this
\* machine; what it needs joins the queue.
ParseQualifiedRuntimeObject(c) ==
    LET parsed == ParseNative(c)
    IN IF \E n \in parsed : /\ n # Refused /\ n.type = "dyn" /\ n.dynamic
                            /\ n.interpreter # NoPath => RequireSupportedLoader(n.interpreter)
       THEN parsed ELSE {Refused}

EnqueueWithoutDeclarer(pending, needed) == pending

EnqueueDependencies(pending, needed) == pending \o needed

\* Whether the next soname can join: resolvable inside the system roots, not a
\* second name of an object already named, and within the bounds.
Joinable(view, walk, soname) ==
    LET p == ResolveFixedSoname(view, soname)
    IN /\ p # NoPath
       /\ RequireSystemRuntimePath(view[p].path)
       /\ \A n \in walk.names : n[1] = view[p].path => n[2] = soname
       /\ Cardinality(walk.artifacts \cup {QualifyRuntimeArtifact(view, p)}) <= MaxLoaderEntries
       /\ OnePathPerInode(walk.artifacts \cup {QualifyRuntimeArtifact(view, p)})

\* One turn of the loop of prequalify_startup_closure: the first pending soname.
Advance(view, walk) ==
    LET soname == Head(walk.pending)
        artifact == QualifyRuntimeArtifact(view, ResolveFixedSoname(view, soname))
        object == CHOOSE n \in ParseQualifiedRuntimeObject(artifact.content) : TRUE
        named == [walk EXCEPT !.pending = Tail(@), !.names = @ \cup {<<artifact.path, soname>>},
                              !.artifacts = @ \cup {artifact}]
    IN IF ~ Joinable(view, walk, soname) THEN Refused
       ELSE IF artifact.path \in walk.parsed THEN named
       ELSE IF object = Refused THEN Refused
       ELSE IF walk.edges + Len(object.needed) > MaxDependencyEdges THEN Refused
       ELSE [named EXCEPT !.pending = EnqueueDependencies(@, object.needed),
                          !.parsed = @ \cup {artifact.path},
                          !.edges = @ + Len(object.needed)]

\* The breadth-first walk from a queue of sonames.  Every pending soname is an edge,
\* and the edges are bounded, so that many turns empty the queue.
Walk(view, walk) ==
    LET after[n \in 0..MaxDependencyEdges] ==
            IF n = 0 THEN walk
            ELSE LET before == after[n - 1]
                 IN IF before = Refused \/ before.pending = <<>> THEN before
                    ELSE Advance(view, before)
    IN after[MaxDependencyEdges]

\* The loader is read first and its own needs lead the queue.
PrequalifyStartupClosure(view, loader, needed) ==
    LET start == CHOOSE n \in ParseQualifiedRuntimeObject(view[loader].content) : TRUE
    IN IF start = Refused THEN Refused
       ELSE IF Len(start.needed) + Len(needed) > MaxDependencyEdges THEN Refused
       ELSE Walk(view, [pending |-> start.needed \o needed, names |-> {},
                        artifacts |-> {QualifyRuntimeArtifact(view, loader)},
                        parsed |-> {view[loader].path},
                        edges |-> Len(start.needed) + Len(needed)])

\* What one program needs at startup: nothing when it is a script or static.  The
\* loader has a supported name and lies under the system roots itself.
StartupClosure(view, c) ==
    LET parsed == ParseNative(c)
        native == CHOOSE n \in parsed : TRUE
    IN IF parsed = {} THEN {}
       ELSE IF native = Refused THEN {Refused}
       ELSE IF native.interpreter = NoPath
            THEN (IF native.needed = <<>> THEN {} ELSE {Refused})
       ELSE IF \/ ~ RequireSupportedLoader(native.interpreter)
               \/ native.interpreter \notin DOMAIN view
               \/ ~ RequireSystemRuntimePath(view[native.interpreter].path)
            THEN {Refused}
       ELSE LET walk == PrequalifyStartupClosure(view, native.interpreter, native.needed)
            IN IF walk = Refused THEN {Refused} ELSE walk.artifacts

\* The closures of the programs of one launch, none when it is refused.  The
\* inodes are remembered from one program to the next.
DiscoverStartupRuntime(view, programs) ==
    LET closures == [i \in 1..Len(programs) |-> StartupClosure(view, programs[i])]
        all == UNION {closures[i] : i \in 1..Len(programs)}
    IN IF RejectGlobalPreload(view) \/ Refused \in all THEN {}
       ELSE IF ~ OnePathPerInode(all) THEN {}
       ELSE {closures}

-----------------------------------------------------------------------------
(* The loader's own answer, and its comparison with the closure.            *)

Declares(view, o) ==
    {view[p].path : p \in {ResolveFixedSoname(view, o.needed[i]) : i \in 1..Len(o.needed)} \ {NoPath}}

\* The objects that the loader (external) maps at startup: all that are reachable
\* from the program, the loader and a global preload by the names they declare.
Mapped(view, objects) ==
    LET after[n \in 0..Cardinality(DOMAIN view)] ==
            IF n = 0 THEN objects
            ELSE LET before == after[n - 1]
                 IN before \cup UNION {Declares(view, view[p].content) : p \in before}
    IN after[Cardinality(DOMAIN view)]

Reachable(view, c) ==
    IF c.kind # "native" \/ c.interpreter = NoPath THEN {}
    ELSE Mapped(view, {view[c.interpreter].path} \cup Declares(view, c)
                      \cup (IF GlobalPreload \in DOMAIN view
                            THEN Declares(view, view[GlobalPreload].content) ELSE {}))

\* The listing names each canonical object once and exactly the closure, the
\* loader included.
BindLoaderOutputToClosure(listed, artifacts) == listed = {a.path : a \in artifacts}
==============================================================================
