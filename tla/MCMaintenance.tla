--------------------------- MODULE MCMaintenance ---------------------------
(***************************************************************************)
(* Instance of Maintenance: a device of 1.9 GiB, on which the automatic      *)
(* reserve of 1 GiB leaves an envelope of about 460 MiB, and one of 1.3 GiB  *)
(* for copies; two daemon tasks; an automatic policy and an explicit one.    *)
(* Unrelated files can take 600 MiB, which no envelope allows.               *)
(***************************************************************************)
EXTENDS Maintenance

TwoDevices == [a |-> 2040109466, b |-> 1395864371]

Automatic == [ceiling |-> Absent, reserve |-> Absent, auxiliary |-> Absent]
Explicit == [ceiling |-> 104857600, reserve |-> 67108864, auxiliary |-> 1048576]

Deployment(job_, schema, device, policy) ==
    [job |-> job_, schema |-> schema, elsewhere |-> device, policy |-> policy]

EveryJob ==
    {Deployment("archive", Current, "a", Automatic), Deployment("archive", Current, "b", Explicit),
     Deployment("archive", 14, "a", Automatic), Deployment("carry", Current, "a", Automatic),
     Deployment("upgrade", 3, "a", Explicit), Deployment("upgrade", 3, "b", Automatic)}
      \cup {Deployment("restore", Current, d, p) : d \in {"a", "b"}, p \in {Automatic, Explicit}}

\* The same declaration in an archive with and one without unresolved work, and
\* a later window.
ThreeSnapshots ==
    << [unresolved |-> FALSE, declaration |-> "d", start |-> 0, end |-> 2],
       [unresolved |-> TRUE, declaration |-> "d", start |-> 0, end |-> 2],
       [unresolved |-> FALSE, declaration |-> "e", start |-> 1, end |-> 3] >>

NoFileLimit == Absent
=============================================================================
