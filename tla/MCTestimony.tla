---------------------------- MODULE MCTestimony ----------------------------
(***************************************************************************)
(* One watcher of each profile on a small host.  Device numbers and mount     *)
(* identifiers are reused: the file system G takes those of F.                *)
(***************************************************************************)
EXTENDS Testimony

MCHard == [response |-> 20, observations |-> 1, payload |-> 4, coverage |-> 4, errors |-> 5, checkpoint |-> 1]
MCFold == [U |-> "fold-of-U", V |-> "fold-of-V"]
MCFilesystemUuid == [F |-> "U", G |-> "V", X |-> "V"]
MCFilesystemType == [F |-> "ext4", G |-> "ext4", X |-> "xfs"]
MCFilesystemDevice == [F |-> 1, G |-> 1, X |-> 2]
MCReliance == [i \in {"capacity", "inodes", "memory", "unit1", "unit2", "unit3", "host", "http", "cache"} |-> 2]
MCThreshold == [host |-> 2000, capacity |-> 900, inodes |-> 900, memory |-> 10]

Service == [run |-> "run", machine |-> "m", unit |-> "u", file |-> "f"]
Subject == <<"sha256", Service>>
Scoped(subject, kind, value, vantage) ==
    [subject |-> subject, scope |-> [kind |-> kind, value |-> value], vantage |-> vantage]
Filesystem ==
    Scoped(<<"host-filesystem", "m", "U">>, "host_filesystem",
           [machine |-> "m", uuid |-> "U", type |-> "ext4", mountpoint |-> "/data"], Local)
Unit == Scoped(<<"systemd-unit", "m", "u">>, "systemd_unit", [machine |-> "m", unit |-> "u"], Local)
MCBinding ==
    [capacity |-> Filesystem, inodes |-> Filesystem,
     memory |-> Scoped(<<"host", "m">>, "host_memory", [machine |-> "m"], Local),
     unit2 |-> Unit, unit3 |-> Unit,
     host |-> Scoped(<<"host", "h">>, "host", [id |-> "h"], Local),
     unit1 |-> Scoped(Subject, "systemd_unit",
                      [subject |-> Subject, machine |-> "m", unit |-> "u", file |-> "f"],
                      [kind |-> "target_local", value |-> <<>>]),
     http |-> Scoped(Subject, "http_endpoint",
                     [subject |-> Subject, controller |-> "c", endpoint |-> "e", maxBody |-> 2],
                     [kind |-> "controller_http", value |-> "c"]),
     cache |-> Scoped("s", "synthetic_cache_executor_attempt",
                      [attempt |-> "a", subject |-> "s", plan |-> "p"],
                      [kind |-> "retained_docket_state", value |-> <<>>])]

MCIds == DOMAIN MCBinding

\* The policy a watcher needs, one for another machine, and none.
Policy(i, service, expected) ==
    [verified |-> TRUE, closed |-> TRUE, version |-> "run", run |-> "run", service |-> service, subject |-> Subject,
     scope |-> ScopeIdentity([id |-> i, digest |-> i], MCBinding[i]), expected |-> expected]
Tuple == [load |-> "loaded", active |-> "active", sub |-> "running", enabled |-> "enabled"]
PoliciesOf(i, expected) == {Policy(i, Service, expected), Policy(i, [Service EXCEPT !.machine = "n"], expected)}
Policies(i) ==
    CASE i = "unit1" -> PoliciesOf(i, Tuple)
      [] i = "http" -> PoliciesOf(i, [status |-> 200, body |-> "good"])
      [] OTHER -> {}

\* A response bound that leaves room, and others too small for a report and for any response;
\* the grant the helper needs, and others; the helper's own profile, and another revision.
Config(granted, response, policy, digest) ==
    [granted |-> granted, response |-> response, policy |-> policy, digest |-> digest]
Ample == 20
GrantsOf(i) == IF i = "host" THEN SUBSET HostDescriptor.caps ELSE {ResolveProfile(i).caps}
\* One profile of each helper is tried with all of them, the others with what they need.
Varied == {"inodes", "host", "http", "cache"}
MCConfigs ==
    [i \in MCIds |->
        LET policy == IF Policies(i) = {} THEN null ELSE CHOOSE p \in Policies(i) : p.service = Service
            caps == ResolveProfile(i).caps
        IN  {Config(caps, Ample, policy, i)}
            \cup IF i \notin Varied THEN {}
                 ELSE {Config(g, Ample, policy, i) : g \in GrantsOf(i) \cup {{}}}
                      \cup {Config(caps, b, policy, i) : b \in {2, 3}}
                      \cup {Config(caps, Ample, p, i) : p \in Policies(i) \cup {null}}
                      \cup {Config(caps, Ample, policy, "other")}]

Counters(total, free, available, inodes, inodesFree) ==
    [fragment |-> 1, total |-> total, free |-> free, available |-> available, inodes |-> inodes, inodesFree |-> inodesFree]
Roomy == Counters(10, 5, 4, 10, 5)
Full == Counters(10, 1, 1, 10, 1)
CounterSets == [F : {Roomy, Full, [Roomy EXCEPT !.fragment = 0], Counters(0, 0, 0, 0, 0), Counters(10, 11, 4, 10, 5)}, G : {Full}, X : {Full}]
Mount(i, fs, root) == [id |-> i, fs |-> fs, root |-> root]
FilesystemChoices ==
    [mount |-> {Mount(7, "F", "/"), Mount(8, "F", "/"), Mount(7, "G", "/"), Mount(7, "F", "/sub"), Mount(8, "X", "/"), Mount(21, "F", "/"), null},
     uuid |-> {1, 2},
     counters |-> CounterSets]

Psi(a, total) == [avg10 |-> a, avg60 |-> a, avg300 |-> a, total |-> total]
MemoryChoices ==
    [pressure |-> {[some |-> Psi(9, 20), full |-> Psi(1, 1)], [some |-> Psi(10, 20), full |-> Psi(10, 20)],
                   [some |-> Psi(1, 20), full |-> Psi(2, 20)], [some |-> Psi(1, 21), full |-> Psi(1, 1)],
                   [some |-> Psi(101, 20), full |-> Psi(1, 1)]},
     bootClock |-> {1, 5}]

Row(name, load, active, job) == [name |-> name, load |-> load, active |-> active, sub |-> "running", job |-> job]
UnitChoices ==
    {Row("u", "loaded", "active", 0), Row("u", "loaded", "failed", 0), Row("u", "loaded", "active", 1),
     Row("v", "loaded", "active", 0), Row("u", "loaded", "refreshing", 0), null}
    \cup {[Row("u", "loaded", "active", 0) EXCEPT !.sub = ""]}
Refreshing == {Row("u", "loaded", "active", 0), Row("u", "loaded", "failed", 0), Row("u", "loaded", "refreshing", 0)}

Response(status, body, length, bytes) == [status |-> status, body |-> body, length |-> length, bytes |-> bytes]
Record(attempt, observed, at) == [attempt |-> attempt, observed |-> observed, outcome |-> "success", executedAt |-> at]
DocketRow(record) == [attempt |-> "a", subject |-> "s", plan |-> "p", outcome |-> "success", receipt |-> record]

\* Where two changes meet one collection, the parts that identify the resource vary most.
Remounts ==
    [mount |-> {Mount(7, "F", "/"), Mount(8, "F", "/"), Mount(7, "G", "/"), null}, uuid |-> {1, 2},
     counters |-> [F : {Roomy, Full}, G : {Full}, X : {Full}]]
Reboots ==
    [unit |-> {Row("u", "loaded", "active", 0), Row("u", "loaded", "failed", 0), Row("v", "loaded", "active", 0), null},
     boot |-> {"boot1", "boot2"}]

MCChoices ==
    [capacity |-> Remounts, inodes |-> FilesystemChoices, memory |-> MemoryChoices,
     unit2 |-> [unit |-> Refreshing], unit3 |-> Reboots,
     unit1 |-> [unit |-> UnitChoices, enabled |-> {"enabled", "disabled", "", null},
                file |-> {"f", "g"}],
     http |-> [response |-> {Response(200, "good", 1, 1), Response(200, "bad", 2, 2), Response(500, "good", 1, 1),
                             Response(200, "good", 3, 3), Response(200, "good", 1, 2)}],
     host |-> [uptime |-> {1}, load |-> {0, 2, 4}, hostname |-> {"h"}, cpu |-> {1, 2}],
     cache |-> [record |-> {Record("a", "fixed", 1), Record("a", "other", 1), Record("b", "fixed", 1)},
                row |-> {DocketRow(Record("a", "fixed", 1)), DocketRow(Record("a", "other", 1)), null}]]

\* A host starts sound, and the changes do the rest; it may be another machine than the watcher's.
Start(i) ==
    CASE i \in {"capacity", "inodes"} ->
            [machine |-> "m", mount |-> Mount(7, "F", "/"), uuid |-> 1, counters |-> [F |-> Roomy, G |-> Full, X |-> Full]]
      [] i = "memory" -> [machine |-> "m", pressure |-> [some |-> Psi(9, 20), full |-> Psi(1, 1)], bootClock |-> 5]
      [] i = "unit2" -> [machine |-> "m", unit |-> Row("u", "loaded", "active", 0)]
      [] i = "unit3" -> [machine |-> "m", unit |-> Row("u", "loaded", "active", 0), boot |-> "boot1"]
      [] i = "unit1" -> [machine |-> "m", unit |-> Row("u", "loaded", "active", 0), enabled |-> "enabled", file |-> "f"]
      [] i = "http" -> [response |-> Response(200, "good", 1, 1)]
      [] i = "host" -> [uptime |-> 1, load |-> 0, hostname |-> "h", cpu |-> 1]
      [] i = "cache" -> [record |-> Record("a", "fixed", 1), row |-> DocketRow(Record("a", "fixed", 1))]
MCHosts ==
    [i \in MCIds |-> {Start(i)} \cup (IF i \in {"inodes", "memory", "unit1", "unit3"}
                                     THEN {[Start(i) EXCEPT !.machine = "n"]} ELSE {})]

\* Several changes under one collection, or one change and a report that replaces another.
MCMaxExchanges == [i \in MCIds |-> IF i \in {"unit2", "cache"} THEN 2 ELSE 1]
MCMaxChanges == [i \in MCIds |-> IF i \in {"capacity", "unit3"} THEN 2 ELSE 1]
=============================================================================
