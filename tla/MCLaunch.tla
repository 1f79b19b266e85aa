------------------------------ MODULE MCLaunch ------------------------------
(***************************************************************************)
(* Two launching threads, a script whose interpreter is a dynamic program,   *)
(* and a deployment that rewrites or replaces any of them.                   *)
(***************************************************************************)
EXTENDS Launch, TLC

MCScript(text, interpreter, command) ==
    [kind |-> "script", text |-> text, size |-> 1, interpreter |-> interpreter, command |-> command]

MCNative(text, type, interpreter, needed) ==
    [kind |-> "native", text |-> text, size |-> 1, type |-> type, machine |-> 62,
     interpreter |-> interpreter, dynamic |-> TRUE, mapped |-> TRUE, terminated |-> TRUE,
     tags |-> {}, tables |-> 1, needed |-> needed]

MCFile(path, content) == [path |-> path, content |-> content]

\* "sh" is a symbolic link to "dash".
MCDeployed ==
    << MCFile("probe", MCScript("one", "sh", NoPath)),
       MCFile("sh", [kind |-> "link", size |-> 1]),
       MCFile("dash", MCNative("one", "exec", "ld", <<"m">>)),
       MCFile("env", MCNative("env", "exec", "ld", <<"c">>)),
       MCFile("ld", MCNative("ld", "dyn", NoPath, <<>>)),
       MCFile("libm", MCNative("m", "dyn", NoPath, <<"c">>)),
       MCFile("libc", MCNative("c", "dyn", "ld", <<>>)),
       MCFile("cwd", [kind |-> "directory", size |-> 0]),
       MCFile("conf", [kind |-> "data", text |-> "one", size |-> 1]),
       MCFile("preload", [kind |-> "absent", size |-> 0]) >>

MCUpdates == {<<"cwd", [kind |-> "directory", size |-> 0]>>,
              <<"probe", MCScript("two", "env", "sh")>>,
              <<"preload", [kind |-> "data", size |-> 1, needed |-> <<"m">>]>>,
              <<"dash", MCScript("loop", "sh", NoPath)>>,
              <<"dash", MCNative("two", "exec", "ld", <<"c", "m">>)>>}

MCLibraryPath(soname) == IF soname = "m" THEN <<"libm">> ELSE <<"libc">>
MCTarget(p) == IF p = "sh" THEN "dash" ELSE p
MCSystemPaths == {"ld", "libm", "libc"}
MCLoaders == {"ld"}
MCArguments == <<"conf">>
Symmetry == Permutations(Launches)
==============================================================================
