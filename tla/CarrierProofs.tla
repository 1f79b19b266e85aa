---------------------------- MODULE CarrierProofs ----------------------------
(***************************************************************************)
(* Proofs about the carrier, for any number of collections, locks and        *)
(* misdeeds of a helper.                                                     *)
(*                                                                          *)
(* None of the invariants is inductive: what an exchange relies on was set    *)
(* up by an earlier step or an earlier exchange.  IInv says what the daemon's *)
(* thread may count on at each of its steps: which process group is the       *)
(* newest, when all of it is dead, which lock it was launched under, that the *)
(* connection of a resident runner was put up by its own child, and from      *)
(* where on everything unread was written during this exchange.  The socket   *)
(* directory takes no part in it: whatever a path names is not trusted.       *)
(***************************************************************************)
EXTENDS Carrier, TLAPS, SequenceTheorems

\* Steps of an exchange of a resident runner.
Exchanging == {"prepare", "preflight", "write", "read", "read done"}

\* Steps of connecting to a helper that was launched.
Connecting == {"connect", "custody", "pin", "recheck", "dial", "peer"}

\* Steps with no helper process: the group was killed, or none was launched.
Stopped == {"join", "spawn", "not started", "capture", "collect"}

Piece == [piece : {"line", "half", "end", "text", "flood"}, for : Nat, at : Nat, gen : Nat]

File == [owner : {"helper", "daemon"}, mode : {"umask", "private", "file"}, gen : Nat,
         listener : Roles \cup {"none"}]

\* What call.outcome holds: a failure being reported, or how a stdio helper ended.
Outcome ==
    {"none", "carrier_startup_failed", "timeout", "stderr_too_large", "helper_exited",
     "malformed_framing", "malformed_json", "output_too_large", "eof", "disconnect",
     "no", "zero", "nonzero", "reaped"}

Steps == Exchanging \cup Connecting \cup Stopped \cup {"idle", "select", "poll", "term", "kill"}

Call == [pc : Steps, n : Nat, lock : Nat, got : Seq(Piece), outcome : Outcome,
         then : {"idle", "spawn", "not started", "capture", "collect"}, pin : Nat]

Types ==
    /\ runner \in {NoRunner} \cup [gen : Nat \ {0}, lock : Nat]
    /\ exited \in Seq({"no", "zero", "nonzero", "reaped"})
    /\ under \in Seq(Nat) /\ Len(under) = Len(exited)
    /\ files \in Seq(File) /\ socket \in 0..Len(files)
    /\ down \in [n : Nat, half : BOOLEAN]
    /\ up \in Seq(Piece)
    /\ call \in Call
    /\ last.n \in Nat /\ lock \in Nat /\ kind \in {"stdio", "unix"}

\* Only processes of the newest group live, and none at the steps that follow
\* the group's end, nor between collections without a resident runner.
GroupInv ==
    /\ \A m \in alive : m[1] = Gen
    /\ call.pc \in Stopped => alive = {}
    /\ call.pc \in {"idle", "select"} /\ runner = NoRunner => alive = {}
    /\ call.pc \notin {"idle", "select", "spawn"} => Gen # 0

\* A resident runner is of the newest group, its leader put the connection up,
\* and a group serves the lock it was launched under.
RunnerInv ==
    /\ runner # NoRunner => runner.gen = Gen /\ peer.by = "leader" /\ runner.lock = under[Gen]
    /\ call.pc \in Exchanging => runner # NoRunner /\ runner.lock = call.lock
    /\ call.pc \in Connecting \cup {"poll", "spawn", "not started", "capture", "collect"} =>
         runner = NoRunner
    /\ call.pc \in Connecting \cup {"poll"} => under[Gen] = call.lock
    /\ kind = "stdio" => /\ runner = NoRunner /\ peer.by = "none"
                         /\ call.pc \notin Exchanging \cup Connecting \cup {"select"}
    /\ call.pc = "poll" => kind = "stdio"

\* Output of this exchange, by a group launched under its lock.
Own == {p \in Piece : p.at = call.n /\ p.gen \in 1..Len(under) /\ under[p.gen] = call.lock}

\* Everything a step may still read into its answer is its own, and so is
\* everything read.
FreshInv ==
    /\ call.got \in Seq(Own)
    /\ call.pc \in {"write", "read", "poll"} => up \in Seq(Own)
    /\ call.pc \notin {"read", "read done", "poll", "term", "kill", "join", "capture", "collect"} =>
         call.got = <<>>
    /\ call.pc \in {"term", "kill", "join"} /\ call.then \in {"idle", "spawn", "not started"} =>
         call.got = <<>>

IInv == Types /\ GroupInv /\ RunnerInv /\ FreshInv

-----------------------------------------------------------------------------
(* Facts the steps keep needing.                                            *)

LEMMA ExitedSeq ==
    ASSUME NEW S, NEW s \in Seq(S), NEW i, NEW v \in S
    PROVE  [s EXCEPT ![i] = v] \in Seq(S) /\ Len([s EXCEPT ![i] = v]) = Len(s)
<1> DEFINE t == [s EXCEPT ![i] = v]
<1>1. s \in [1..Len(s) -> S] /\ Len(s) \in Nat
  OBVIOUS
<1>2. t \in [1..Len(s) -> S]
  BY <1>1, Zenon
<1> HIDE DEF t
<1>3. t \in Seq(S) /\ Len(t) = Len(s)
  BY <1>1, <1>2
<1> QED
  BY <1>3 DEF t

LEMMA NoPieces == ASSUME NEW S PROVE <<>> \in Seq(S)
OBVIOUS

\* What is whose depends on the call and on the launches alone.
LEMMA SameOwn ==
    ASSUME call'.n = call.n, call'.lock = call.lock, under' = under
    PROVE  Own' = Own
BY Zenon DEF Own

LEMMA OwnPieces == ASSUME NEW s \in Seq(Own) PROVE s \in Seq(Piece)
BY DEF Own

LEMMA CallTypes ==
    ASSUME call \in Call
    PROVE  /\ call.n \in Nat /\ call.lock \in Nat /\ call.got \in Seq(Piece) /\ call.outcome \in Outcome
           /\ call.then \in {"idle", "spawn", "not started", "capture", "collect"}
           /\ call.pc \in Steps /\ call.pin \in Nat
BY Zenon DEF Call

\* The daemon begins to stop the newest process group.
LEMMA StopCall ==
    ASSUME call \in Call, NEW outcome \in Outcome, NEW bytes \in Seq(Piece),
           NEW then \in {"idle", "spawn", "not started", "capture", "collect"},
           Stop(outcome, bytes, then)
    PROVE  /\ call' \in Call /\ call'.pc = "term" /\ call'.got = bytes /\ call'.then = then
           /\ call'.n = call.n /\ call'.lock = call.lock
<1>1. NoSocket \in Nat
  BY DEF NoSocket
<1>2. PICK mid : mid = [call EXCEPT !.pc = "term", !.outcome = outcome, !.got = bytes]
  BY Zenon
<1>3. mid \in Call /\ mid.pc = "term" /\ mid.got = bytes /\ mid.n = call.n /\ mid.lock = call.lock
  BY <1>2, Zenon DEF Call, Steps
<1>4. call' = [mid EXCEPT !.then = then, !.pin = NoSocket]
  BY <1>2, Zenon DEF Stop
<1> QED
  BY <1>1, <1>3, <1>4, Zenon DEF Call

\* The daemon's thread goes on to another step.
LEMMA GoesOn ==
    ASSUME call \in Call, NEW p \in Steps,
           call' = [call EXCEPT !.pc = p]
    PROVE  /\ call' \in Call /\ call'.pc = p /\ call'.got = call.got /\ call'.then = call.then
           /\ call'.n = call.n /\ call'.lock = call.lock
BY Zenon DEF Call

LEMMA NoCallIsCall ==
    /\ NoCall \in Call /\ NoCall.pc = "idle" /\ NoCall.got = <<>> /\ NoCall.n = 0
<1>1. <<>> \in Seq(Piece)
  OBVIOUS
<1> DEFINE none == <<>>
<1>2. none \in Seq(Piece) /\ NoCall = [pc |-> "idle", n |-> 0, lock |-> 0, got |-> none,
                                       outcome |-> "none", then |-> "idle", pin |-> 0]
  BY <1>1 DEF NoCall, NoSocket
<1> HIDE DEF none
<1>3. NoCall \in Call /\ NoCall.pc = "idle" /\ NoCall.got = none /\ NoCall.n = 0
  BY <1>2 DEF Call, Outcome, Steps
<1> QED
  BY <1>3 DEF none

LEMMA Captured ==
    ASSUME Types, NEW outcome, Capture(outcome)
    PROVE  /\ call' \in Call /\ call'.pc = "idle" /\ call'.got = <<>> /\ last'.n \in Nat
BY NoCallIsCall, CallTypes, Zenon DEF Types, Capture

-----------------------------------------------------------------------------
(* Initially.                                                               *)

LEMMA InitInv == Init => IInv
<1>1. Init => Types
  <2>1. Init => under \in Seq(Nat) /\ Len(under) = Len(exited) /\ files \in Seq(File)
                /\ socket \in 0..Len(files)
    BY NoPieces DEF Init, NoSocket
  <2> QED
    BY <2>1, NoCallIsCall DEF Init, Types, NoRunner, NoRequest, NoCapture
<1>2. Init => GroupInv
  BY DEF Init, GroupInv, NoCall, Stopped
<1>3. Init => RunnerInv
  BY DEF Init, RunnerInv, NoCall, NoPeer, Exchanging, Connecting
<1>4. Init => FreshInv
  BY NoPieces DEF Init, FreshInv, NoCall
<1> QED
  BY <1>1, <1>2, <1>3, <1>4 DEF IInv

-----------------------------------------------------------------------------
(* The helper, the operator and the clock.                                  *)

\* What happens in the socket directory touches nothing the daemon trusts.
LEMMA DirectoryInv ==
    ASSUME IInv, files' \in Seq(File), socket' \in 0..Len(files'),
           UNCHANGED <<Daemon, alive, exited, peer, down, up>>
    PROVE  IInv'
<1>1. UNCHANGED <<kind, lock, runner, under, call, last, alive, exited, peer, down, up>>
  BY Zenon DEF Daemon
<1>2. Types'
  BY <1>1, Zenon DEF IInv, Types
<1>3. GroupInv' /\ RunnerInv'
  BY <1>1, Zenon DEF IInv, GroupInv, RunnerInv, Gen
<1>4. Own' = Own
  BY <1>1, SameOwn, Zenon
<1>5. FreshInv'
  BY <1>1, <1>4, Zenon DEF IInv, FreshInv
<1> QED
  BY <1>2, <1>3, <1>5, Zenon DEF IInv

LEMMA FileTypes ==
    ASSUME IInv
    PROVE  /\ files \in Seq(File) /\ Len(files) \in Nat /\ DOMAIN files = 1..Len(files)
           /\ socket \in 0..Len(files) /\ Gen \in Nat
<1>1. files \in Seq(File) /\ socket \in 0..Len(files) /\ exited \in Seq({"no", "zero", "nonzero", "reaped"})
  BY Zenon DEF IInv, Types
<1> QED
  BY <1>1 DEF Gen

LEMMA HelperBindsInv == ASSUME IInv, NEW gen \in {0, Gen}, HelperBinds(gen) PROVE IInv'
<1>1. PICK mode \in {"umask", "file"} :
        files' = Append(files, [owner |-> "helper", mode |-> mode, gen |-> gen, listener |-> "none"])
  BY Zenon DEF HelperBinds
<1> DEFINE new == [owner |-> "helper", mode |-> mode, gen |-> gen, listener |-> "none"]
<1>2. new \in File
  BY FileTypes DEF File
<1> HIDE DEF new
<1>3. files' = Append(files, new)
  BY <1>1 DEF new
<1>4. files' \in Seq(File) /\ Len(files') \in 0..Len(files')
  BY <1>2, <1>3, FileTypes
<1>5. socket' = Len(files') /\ UNCHANGED <<Daemon, alive, exited, peer, down, up>>
  BY Zenon DEF HelperBinds
<1> QED
  BY <1>4, <1>5, DirectoryInv, Zenon

LEMMA HelperRelinksInv == ASSUME IInv, HelperRelinks PROVE IInv'
<1>1. /\ \E i \in {NoSocket} \cup DOMAIN files : socket' = i
      /\ files' = files /\ UNCHANGED <<Daemon, alive, exited, peer, down, up>>
  BY Zenon DEF HelperRelinks
<1>2. socket' \in 0..Len(files') /\ files' \in Seq(File)
  BY <1>1, FileTypes DEF NoSocket
<1> QED
  BY <1>1, <1>2, DirectoryInv, Zenon

\* A file changed in place.
LEMMA FileChanged ==
    ASSUME IInv, NEW i, NEW new \in File, files' = [files EXCEPT ![i] = new], socket' = socket
    PROVE  files' \in Seq(File) /\ socket' \in 0..Len(files')
<1>1. files' \in Seq(File) /\ Len(files') = Len(files)
  BY FileTypes, ExitedSeq
<1> QED
  BY <1>1, FileTypes, Zenon

LEMMA HelperMakesPrivateInv == ASSUME IInv, HelperMakesPrivate PROVE IInv'
<1>1. /\ socket # NoSocket /\ files' = [files EXCEPT ![socket].mode = "private"] /\ socket' = socket
      /\ UNCHANGED <<Daemon, alive, exited, peer, down, up>>
  BY Zenon DEF HelperMakesPrivate
<1>2. files[socket] \in File
  BY <1>1, FileTypes DEF NoSocket
<1> DEFINE new == [files[socket] EXCEPT !.mode = "private"]
<1>3. new \in File
  BY <1>2, Zenon DEF File
<1>4. files' = [files EXCEPT ![socket] = new]
  BY <1>1, Zenon
<1> HIDE DEF new
<1> QED
  BY <1>1, <1>3, <1>4, FileChanged, DirectoryInv, Zenon

LEMMA HelperListensInv == ASSUME IInv, NEW who \in Roles, HelperListens(who) PROVE IInv'
<1>1. PICK i \in DOMAIN files : files' = [files EXCEPT ![i].listener = who]
  BY Zenon DEF HelperListens
<1>2. socket' = socket /\ UNCHANGED <<Daemon, alive, exited, peer, down, up>>
  BY Zenon DEF HelperListens
<1>3. files[i] \in File
  BY FileTypes
<1> DEFINE new == [files[i] EXCEPT !.listener = who]
<1>4. new \in File
  BY <1>3, Zenon DEF File
<1>5. files' = [files EXCEPT ![i] = new]
  BY <1>1, Zenon
<1> HIDE DEF new
<1> QED
  BY <1>2, <1>4, <1>5, FileChanged, DirectoryInv, Zenon

LEMMA HelperHangsUpInv == ASSUME IInv, HelperHangsUp PROVE IInv'
<1>1. /\ UNCHANGED <<kind, lock, runner, under, call, last, alive, exited, files, socket, down, up>>
      /\ peer'.by = peer.by
  BY DEF HelperHangsUp, Daemon, Directory
<1>2. Types'
  BY <1>1, Zenon DEF IInv, Types
<1>3. GroupInv'
  BY <1>1, Zenon DEF IInv, GroupInv, Gen
<1>4. RunnerInv'
  BY <1>1, Zenon DEF IInv, RunnerInv, Gen
<1>5. Own' = Own
  BY <1>1, SameOwn, Zenon
<1>6. FreshInv'
  BY <1>1, <1>5, Zenon DEF IInv, FreshInv
<1> QED
  BY <1>2, <1>3, <1>4, <1>6, Zenon DEF IInv

\* What a helper writes during an exchange is of that exchange, and of the group
\* that was launched for it.
LEMMA EmitInv ==
    ASSUME IInv, NEW piece \in {"line", "half", "end", "text", "flood"}, NEW for \in Nat,
           Emit(piece, for), down' \in [n : Nat, half : BOOLEAN],
           UNCHANGED <<Daemon, Directory, alive, exited, peer, loud>>
    PROVE  IInv'
<1> DEFINE new == [piece |-> piece, for |-> for, at |-> call.n, gen |-> Group(peer.by)]
<1>1. /\ UNCHANGED <<kind, lock, runner, late, call, last, alive, exited, under, files, socket, peer, loud>>
      /\ up' = Append(up, new)
  BY Zenon DEF Daemon, Directory, Emit
<1>2. /\ up \in Seq(Piece) /\ Gen \in Nat /\ call.n \in Nat /\ Group(peer.by) \in Nat
      /\ Len(under) = Gen
  <2>1. up \in Seq(Piece) /\ call \in Call /\ Len(under) = Gen
    BY Zenon DEF IInv, Types, Gen
  <2>2. Gen \in Nat
    BY FileTypes, Zenon
  <2>3. Group(peer.by) \in Nat
    BY <2>2 DEF Group
  <2> QED
    BY <2>1, <2>2, <2>3, CallTypes, Zenon
<1>3. new \in Piece /\ new.at = call.n /\ new.gen = Group(peer.by)
  BY <1>2 DEF Piece
<1> HIDE DEF new
<1>4. up' \in Seq(Piece)
  BY <1>1, <1>2, <1>3
<1>5. Types'
  BY <1>1, <1>4, Zenon DEF IInv, Types
<1>6. GroupInv' /\ RunnerInv'
  BY <1>1, Zenon DEF IInv, GroupInv, RunnerInv, Gen
<1>7. ASSUME call.pc \in {"write", "read", "poll"} PROVE up' \in Seq(Own)
  <2>1. peer.by \in {"leader", "none"} /\ under[Gen] = call.lock /\ Gen # 0
    <3>1. CASE call.pc = "poll"
      BY <3>1, Zenon DEF IInv, RunnerInv, GroupInv
    <3>2. CASE call.pc # "poll"
      BY <1>7, <3>2, Zenon DEF IInv, RunnerInv, GroupInv, Exchanging
    <3> QED
      BY <3>1, <3>2
  <2>2. Group(peer.by) = Gen /\ Gen \in 1..Len(under)
    BY <1>2, <2>1 DEF Group
  <2>3. new \in Own
    BY <1>3, <2>1, <2>2, Zenon DEF Own
  <2>4. up \in Seq(Own)
    BY <1>7, Zenon DEF IInv, FreshInv
  <2> QED
    BY <1>1, <2>3, <2>4
<1>8. Own' = Own
  BY <1>1, SameOwn, Zenon
<1>9. FreshInv'
  BY <1>1, <1>7, <1>8, Zenon DEF IInv, FreshInv
<1> QED
  BY <1>5, <1>6, <1>9, Zenon DEF IInv

LEMMA HelperAnswersInv == ASSUME IInv, HelperAnswers PROVE IInv'
<1>1. UNCHANGED <<Daemon, Directory, alive, exited, peer, loud>> /\ down \in [n : Nat, half : BOOLEAN]
  BY DEF HelperAnswers, IInv, Types
<1>2. NoRequest \in [n : Nat, half : BOOLEAN]
  BY DEF NoRequest
<1>3. CASE Emit("line", down.n) /\ down' = NoRequest
  BY <1>1, <1>2, <1>3, EmitInv
<1>4. CASE Emit("half", down.n) /\ down' = [down EXCEPT !.half = TRUE]
  <2>1. down' \in [n : Nat, half : BOOLEAN]
    BY <1>1, <1>4, Zenon
  <2> QED
    BY <1>1, <1>4, <2>1, EmitInv, Zenon
<1>5. CASE Emit("end", down.n) /\ down' = NoRequest
  BY <1>1, <1>2, <1>5, EmitInv
<1> QED
  BY <1>3, <1>4, <1>5 DEF HelperAnswers

LEMMA HelperChattersInv == ASSUME IInv, HelperChatters PROVE IInv'
<1>1. UNCHANGED <<Daemon, Directory, alive, exited, peer, loud>> /\ down' \in [n : Nat, half : BOOLEAN]
  BY DEF HelperChatters, IInv, Types
<1>2. PICK piece \in {"line", "text", "flood"} : Emit(piece, 0)
  BY DEF HelperChatters
<1> QED
  BY <1>1, <1>2, EmitInv

\* Stderr, the clock and the operator touch nothing the invariant speaks of.
LEMMA ElsewhereInv ==
    ASSUME IInv, HelperFloodsStderr \/ OperatorReplacesLock \/ DeadlinePasses
    PROVE  IInv'
<1>1. UNCHANGED <<kind, runner, call, last, alive, exited, under, files, socket, peer, down, up>>
  BY Zenon DEF HelperFloodsStderr, OperatorReplacesLock, DeadlinePasses, Daemon, Directory
<1>2. lock' \in Nat
  BY DEF HelperFloodsStderr, OperatorReplacesLock, DeadlinePasses, Daemon, IInv, Types
<1>3. Types'
  BY <1>1, <1>2, Zenon DEF IInv, Types
<1>4. GroupInv' /\ RunnerInv'
  BY <1>1, ZenonT(90) DEF IInv, GroupInv, RunnerInv, Gen
<1>5. Own' = Own
  BY <1>1, SameOwn, Zenon
<1>6. FreshInv'
  BY <1>1, <1>5, Zenon DEF IInv, FreshInv
<1> QED
  BY <1>3, <1>4, <1>6, Zenon DEF IInv

\* A process is forked or dies in a group whose leader lives: not at a step
\* that follows the group's end.
LEMMA ProcessesInv ==
    ASSUME IInv, HelperForks \/ HelperExits
    PROVE  IInv'
<1>1. UNCHANGED <<kind, lock, runner, late, call, last, under, files, socket, peer, down, up, loud>>
      /\ LeaderUp /\ Len(exited) \in Nat
  BY DEF HelperForks, HelperExits, Daemon, Directory, IInv, Types
<1>2. exited' \in Seq({"no", "zero", "nonzero", "reaped"}) /\ Len(exited') = Len(exited)
  <2>1. CASE HelperForks
    BY <2>1 DEF HelperForks, IInv, Types
  <2>2. CASE HelperExits
    <3>1. PICK status \in {"zero", "nonzero"} : exited' = [exited EXCEPT ![Gen] = status]
      BY <2>2, Zenon DEF HelperExits
    <3>2. exited \in Seq({"no", "zero", "nonzero", "reaped"}) /\ status \in {"no", "zero", "nonzero", "reaped"}
      BY DEF IInv, Types
    <3> QED
      BY <3>1, <3>2, ExitedSeq
  <2> QED
    BY <2>1, <2>2
<1>3. alive' \subseteq alive \cup {<<Gen, "descendant">>} /\ alive # {}
  BY <1>1 DEF HelperForks, HelperExits, LeaderUp
<1>4. Types'
  BY <1>1, <1>2, Zenon DEF IInv, Types
<1>5. GroupInv'
  BY <1>1, <1>2, <1>3 DEF IInv, GroupInv, Gen
<1>6. Own' = Own
  BY <1>1, SameOwn, Zenon
<1>7. RunnerInv' /\ FreshInv'
  BY <1>1, <1>2, <1>6, Zenon DEF IInv, RunnerInv, FreshInv, Gen
<1> QED
  BY <1>4, <1>5, <1>7, Zenon DEF IInv

-----------------------------------------------------------------------------
(* Stopping a process group.                                                *)

LEMMA StopTermInv == ASSUME IInv, StopTerm PROVE IInv'
<1>1. UNCHANGED <<kind, lock, runner, under, files, socket, peer, down, up, loud, late, last>>
      /\ call.pc = "term" /\ call' = [call EXCEPT !.pc = "kill"] /\ alive' \subseteq alive
  BY DEF StopTerm, Helper, Directory
<1>2. call' \in Call /\ call'.pc = "kill" /\ call'.got = call.got /\ call'.then = call.then
      /\ call'.n = call.n /\ call'.lock = call.lock
  BY <1>1, GoesOn, Zenon DEF IInv, Types, Steps
<1>3. exited' \in Seq({"no", "zero", "nonzero", "reaped"}) /\ Len(exited') = Len(exited)
  <2>1. exited' = exited \/ exited' = [exited EXCEPT ![Gen] = "nonzero"]
    BY DEF StopTerm
  <2>2. exited \in Seq({"no", "zero", "nonzero", "reaped"})
    BY DEF IInv, Types
  <2> QED
    BY <2>1, <2>2, ExitedSeq
<1>4. Types'
  BY <1>1, <1>2, <1>3, Zenon DEF IInv, Types
<1>5. GroupInv'
  BY <1>1, <1>2, <1>3 DEF IInv, GroupInv, Gen, Stopped
<1>6. RunnerInv'
  BY <1>1, <1>2, <1>3, ZenonT(60) DEF IInv, RunnerInv, Gen, Exchanging, Connecting
<1>7. FreshInv'
  BY <1>1, <1>2, SameOwn, ZenonT(90) DEF IInv, FreshInv
<1> QED
  BY <1>4, <1>5, <1>6, <1>7 DEF IInv

LEMMA StopKillInv == ASSUME IInv, StopKill PROVE IInv'
<1>1. UNCHANGED <<kind, lock, runner, under, files, socket, peer, down, up, loud, late, last>>
      /\ call.pc = "kill" /\ call' = [call EXCEPT !.pc = "join"] /\ alive' = alive \ Members(Gen)
  BY DEF StopKill, Helper, Directory, KillGroup
<1>2. call' \in Call /\ call'.pc = "join" /\ call'.got = call.got /\ call'.then = call.then
      /\ call'.n = call.n /\ call'.lock = call.lock
  BY <1>1, GoesOn, Zenon DEF IInv, Types, Steps, Stopped
<1>3. exited' \in Seq({"no", "zero", "nonzero", "reaped"}) /\ Len(exited') = Len(exited)
  <2>1. exited' = [exited EXCEPT ![Gen] = "reaped"]
    BY DEF StopKill
  <2>2. exited \in Seq({"no", "zero", "nonzero", "reaped"})
    BY DEF IInv, Types
  <2> QED
    BY <2>1, <2>2, ExitedSeq
<1>4. alive' = {}
  BY <1>1 DEF IInv, GroupInv, Members
<1>5. Types'
  BY <1>1, <1>2, <1>3, Zenon DEF IInv, Types
<1>6. GroupInv'
  BY <1>1, <1>2, <1>3, <1>4 DEF IInv, GroupInv, Gen, Stopped
<1>7. RunnerInv'
  BY <1>1, <1>2, <1>3, ZenonT(60) DEF IInv, RunnerInv, Gen, Exchanging, Connecting
<1>8. FreshInv'
  BY <1>1, <1>2, SameOwn, ZenonT(90) DEF IInv, FreshInv
<1> QED
  BY <1>5, <1>6, <1>7, <1>8 DEF IInv

LEMMA StopJoinInv == ASSUME IInv, StopJoin PROVE IInv'
<1>1. /\ UNCHANGED <<kind, lock, alive, exited, under, files, socket, late, last>>
      /\ call.pc = "join" /\ call' = [call EXCEPT !.pc = call.then]
      /\ runner' = NoRunner /\ peer'.by = "none"
      /\ (up' = up \/ up' = <<>>) /\ (down' = down \/ down' = NoRequest)
  BY DEF StopJoin, Directory, NoPeer
<1>2. call.then \in {"idle", "spawn", "not started", "capture", "collect"}
  BY CallTypes, Zenon DEF IInv, Types
<1>3. call' \in Call /\ call'.pc = call.then /\ call'.got = call.got /\ call'.then = call.then
      /\ call'.n = call.n /\ call'.lock = call.lock
  BY <1>1, <1>2, GoesOn, ZenonT(90) DEF IInv, Types, Steps, Stopped
<1>4. up' \in Seq(Piece) /\ down' \in [n : Nat, half : BOOLEAN]
  <2>1. up \in Seq(Piece) /\ down \in [n : Nat, half : BOOLEAN]
    BY DEF IInv, Types
  <2>2. up' \in Seq(Piece)
    BY <1>1, <2>1, NoPieces, Zenon
  <2>3. NoRequest \in [n : Nat, half : BOOLEAN]
    BY DEF NoRequest
  <2> QED
    BY <1>1, <2>1, <2>2, <2>3
<1>5. Types'
  BY <1>1, <1>3, <1>4, ZenonT(60) DEF IInv, Types
<1>6. GroupInv'
  BY <1>1, <1>3, Zenon DEF IInv, GroupInv, Gen, Stopped
<1>7. RunnerInv'
  BY <1>1, <1>2, <1>3, Zenon DEF IInv, RunnerInv, Gen, Exchanging, Connecting
<1>8. FreshInv'
  BY <1>1, <1>2, <1>3, SameOwn, ZenonT(90) DEF IInv, FreshInv
<1> QED
  BY <1>5, <1>6, <1>7, <1>8 DEF IInv

-----------------------------------------------------------------------------
(* The engine's collection thread.                                          *)

\* A step that begins to stop the newest group, from any step of a call that
\* may have one, keeps the invariant.
LEMMA StopsInv ==
    ASSUME IInv, NEW outcome \in Outcome, NEW bytes \in Seq(Own),
           NEW then \in {"idle", "spawn", "not started", "capture", "collect"},
           Stop(outcome, bytes, then),
           then \in {"idle", "spawn", "not started"} => bytes = <<>>,
           Gen # 0,
           UNCHANGED <<kind, runner, alive, exited, under, peer, down, last, lock>>,
           up' \in Seq(Piece), files' \in Seq(File), socket' \in 0..Len(files')
    PROVE  IInv'
<1>1. call' \in Call /\ call'.pc = "term" /\ call'.got = bytes /\ call'.then = then
      /\ call'.n = call.n /\ call'.lock = call.lock
  <2>1. call \in Call
    BY Zenon DEF IInv, Types
  <2>2. bytes \in Seq(Piece)
    BY OwnPieces, Zenon
  <2> QED
    BY <2>1, <2>2, StopCall, ZenonT(90)
<1>2. Types'
  BY <1>1, ZenonT(60) DEF IInv, Types
<1>3. GroupInv'
  BY <1>1, Zenon DEF IInv, GroupInv, Gen, Stopped
<1>4. RunnerInv'
  BY <1>1, ZenonT(60) DEF IInv, RunnerInv, Gen, Exchanging, Connecting
<1>5. FreshInv'
  BY <1>1, SameOwn, ZenonT(60) DEF IInv, FreshInv
<1> QED
  BY <1>2, <1>3, <1>4, <1>5, Zenon DEF IInv

\* Nothing is read when the group is stopped without bytes.
LEMMA StopsEmptyInv ==
    ASSUME IInv, NEW outcome \in Outcome,
           NEW then \in {"idle", "spawn", "not started", "capture", "collect"},
           Stop(outcome, <<>>, then), Gen # 0,
           UNCHANGED <<kind, runner, alive, exited, under, peer, down, last, lock, up>>,
           files' \in Seq(File), socket' \in 0..Len(files')
    PROVE  IInv'
<1>0. PICK none : none = <<>>
  BY Zenon
<1>1. none \in Seq(Own)
  BY <1>0, NoPieces, Zenon
<1>2. Stop(outcome, none, then) /\ none = <<>>
  BY <1>0, Zenon
<1>3. up' \in Seq(Piece)
  BY Zenon DEF IInv, Types
<1> QED
  BY <1>1, <1>2, <1>3, StopsInv, ZenonT(90)

\* A resident group or one under way is there to be stopped.
LEMMA GroupExists ==
    ASSUME IInv, call.pc \notin {"idle", "select", "spawn"} \/ runner # NoRunner
    PROVE  Gen # 0
<1>1. CASE call.pc \notin {"idle", "select", "spawn"}
  BY <1>1 DEF IInv, GroupInv
<1>2. CASE runner # NoRunner
  <2>1. runner \in [gen : Nat \ {0}, lock : Nat]
    BY <1>2 DEF IInv, Types
  <2> QED
    BY <1>2, <2>1, Zenon DEF IInv, RunnerInv
<1> QED
  BY <1>1, <1>2

\* The end of a collection, with no helper left but a resident runner's.
LEMMA CaptureInv ==
    ASSUME IInv, NEW outcome, Capture(outcome), runner = NoRunner => alive = {},
           UNCHANGED <<kind, runner, alive, exited, under, files, socket, peer, lock>>,
           up' \in Seq(Piece), down' \in [n : Nat, half : BOOLEAN]
    PROVE  IInv'
<1>0. Types
  BY DEF IInv
<1>1. call' \in Call /\ call'.pc = "idle" /\ call'.got = <<>> /\ last'.n \in Nat
  BY <1>0, Captured
<1>2. Types'
  BY <1>0, <1>1, ZenonT(60) DEF Types
<1>3. GroupInv'
  BY <1>1, Zenon DEF IInv, GroupInv, Gen, Stopped
<1>4. RunnerInv'
  BY <1>1, ZenonT(60) DEF IInv, RunnerInv, Gen, Exchanging, Connecting
<1>5. FreshInv'
  BY <1>1, NoPieces, Zenon DEF FreshInv
<1> QED
  BY <1>2, <1>3, <1>4, <1>5 DEF IInv

\* A step that only moves on, with the bytes it has.
LEMMA MovesInv ==
    ASSUME IInv, NEW p \in Exchanging \cup {"spawn"}, call' = [call EXCEPT !.pc = p],
           call.pc \in Exchanging \cup {"select"},
           p = "spawn" => runner = NoRunner /\ alive = {} /\ call.got = <<>>,
           p \in Exchanging => runner # NoRunner /\ runner.lock = call.lock,
           p \in {"write", "read"} => up \in Seq(Own),
           p \in {"prepare", "preflight", "write"} => call.got = <<>>,
           UNCHANGED <<kind, runner, alive, exited, under, files, socket, peer, last, lock, up>>,
           down' \in [n : Nat, half : BOOLEAN]
    PROVE  IInv'
<1>0. call \in Call
  BY DEF IInv, Types
<1>1. call' \in Call /\ call'.pc = p /\ call'.got = call.got /\ call'.then = call.then
      /\ call'.n = call.n /\ call'.lock = call.lock
  BY <1>0, GoesOn, Zenon DEF Steps, Stopped
<1>2. Types'
  BY <1>1, ZenonT(60) DEF IInv, Types
<1>3. Gen # 0 \/ p = "spawn"
  BY GroupExists
<1>4. GroupInv'
  BY <1>1, <1>3, Zenon DEF IInv, GroupInv, Gen, Stopped, Exchanging
<1>5. RunnerInv'
  BY <1>1, ZenonT(60) DEF IInv, RunnerInv, Gen, Exchanging, Connecting
<1>6. FreshInv'
  BY <1>1, SameOwn, ZenonT(60) DEF IInv, FreshInv, Exchanging
<1> QED
  BY <1>2, <1>4, <1>5, <1>6 DEF IInv

LEMMA CollectInv == ASSUME IInv, Collect PROVE IInv'
<1> DEFINE p == IF kind = "unix" THEN "select" ELSE "spawn"
<1>1. /\ call.pc = "idle" /\ UNCHANGED <<kind, lock, runner, alive, exited, under, files, socket, peer, down, up, last>>
      /\ call' = [NoCall EXCEPT !.pc = p, !.n = last.n + 1, !.lock = lock]
      /\ last.n \in Nat /\ lock \in Nat /\ kind \in {"stdio", "unix"}
  BY DEF Collect, Helper, Directory, IInv, Types
<1>2. /\ call' \in Call /\ call'.pc = p /\ call'.got = <<>>
  <2>1. p \in Steps
    BY DEF Steps, Stopped
  <2> DEFINE m == last.n + 1
  <2>2. m \in Nat /\ call' = [NoCall EXCEPT !.pc = p, !.n = m, !.lock = lock]
    BY <1>1
  <2>3. NoCall \in Call /\ NoCall.got = <<>>
    BY NoCallIsCall
  <2> HIDE DEF m, p
  <2> QED
    BY <1>1, <2>1, <2>2, <2>3, Zenon DEF Call
<1>3. Types'
  BY <1>1, <1>2, ZenonT(60) DEF IInv, Types
<1>4. p \in {"select", "spawn"} /\ (p = "spawn" => kind = "stdio")
  BY <1>1
<1> HIDE DEF p
<1>5. p = "spawn" => runner = NoRunner /\ alive = {}
  BY <1>1, <1>4 DEF IInv, RunnerInv, GroupInv
<1>6. GroupInv'
  BY <1>1, <1>2, <1>4, <1>5, Zenon DEF IInv, GroupInv, Gen, Stopped
<1>7. RunnerInv'
  <2>1. kind = "stdio" => p = "spawn"
    BY <1>1 DEF p
  <2> QED
    BY <1>1, <1>2, <1>4, <1>5, <2>1, ZenonT(60) DEF IInv, RunnerInv, Gen, Exchanging, Connecting
<1>8. FreshInv'
  BY <1>1, <1>2, <1>4, NoPieces, Zenon DEF FreshInv
<1> QED
  BY <1>3, <1>6, <1>7, <1>8 DEF IInv

LEMMA SelectRunnerInv == ASSUME IInv, SelectRunner PROVE IInv'
<1>1. /\ call.pc = "select" /\ UNCHANGED <<kind, lock, runner, alive, exited, under, files, socket, peer, down, up, last>>
  BY Zenon DEF SelectRunner, Helper, Directory
<1>2. call.got = <<>> /\ down' \in [n : Nat, half : BOOLEAN]
  BY <1>1 DEF IInv, FreshInv, Types
<1>3. CASE BindingDiffers(call.lock)
  <2>1. Stop("none", <<>>, "spawn") /\ runner # NoRunner
    BY <1>3 DEF SelectRunner, BindingDiffers
  <2>2. Gen # 0
    BY <2>1, GroupExists
  <2>3. files' \in Seq(File) /\ socket' \in 0..Len(files')
    BY <1>1, FileTypes, Zenon
  <2>4. "none" \in Outcome
    BY DEF Outcome
  <2> QED
    BY <1>1, <2>1, <2>2, <2>3, <2>4, StopsEmptyInv, Zenon
<1>4. CASE ~ BindingDiffers(call.lock) /\ runner = NoRunner
  <2>1. call' = [call EXCEPT !.pc = "spawn"]
    BY <1>4 DEF SelectRunner
  <2>2. alive = {}
    BY <1>1, <1>4 DEF IInv, GroupInv
  <2> QED
    BY <1>1, <1>2, <1>4, <2>1, <2>2, MovesInv DEF Exchanging
<1>5. CASE ~ BindingDiffers(call.lock) /\ runner # NoRunner
  <2>1. call' = [call EXCEPT !.pc = "prepare"] /\ runner.lock = call.lock
    BY <1>5 DEF SelectRunner, BindingDiffers
  <2> QED
    BY <1>1, <1>2, <1>5, <2>1, MovesInv DEF Exchanging
<1> QED
  BY <1>3, <1>4, <1>5

LEMMA SpawnInv == ASSUME IInv, Spawn PROVE IInv'
<1>1. /\ call.pc = "spawn" /\ UNCHANGED <<kind, lock, runner, files, socket, peer>>
      /\ runner = NoRunner /\ alive = {} /\ call.got = <<>> /\ call \in Call
  BY Zenon DEF Spawn, Directory, IInv, RunnerInv, GroupInv, FreshInv, Stopped, Types
<1>2. CASE Capture(IF kind = "unix" THEN "carrier_startup_failed" ELSE "spawn_failed")
           /\ UNCHANGED <<alive, exited, under, down, up, loud>>
  <2>1. up' \in Seq(Piece) /\ down' \in [n : Nat, half : BOOLEAN]
    BY <1>2, ZenonT(90) DEF IInv, Types
  <2> QED
    BY <1>1, <1>2, <2>1, CaptureInv
<1>3. CASE /\ exited' = Append(exited, "no") /\ under' = Append(under, call.lock)
           /\ alive' = alive \cup {<<Gen + 1, "leader">>}
           /\ call' = [call EXCEPT !.pc = IF kind = "unix" THEN "connect" ELSE "poll"]
           /\ down' = IF kind = "unix" THEN NoRequest ELSE [n |-> call.n, half |-> FALSE]
           /\ up' = <<>> /\ UNCHANGED last
  <2> DEFINE p == IF kind = "unix" THEN "connect" ELSE "poll"
  <2>1. p \in {"connect", "poll"} /\ (kind = "stdio" <=> p = "poll")
    BY Zenon DEF IInv, Types
  <2>2. call' = [call EXCEPT !.pc = p]
    BY <1>3
  <2> HIDE DEF p
  <2>3. call' \in Call /\ call'.pc = p /\ call'.got = call.got /\ call'.then = call.then
        /\ call'.n = call.n /\ call'.lock = call.lock
    BY <1>1, <2>1, <2>2, GoesOn, ZenonT(90) DEF Steps, Connecting
  <2>4. exited' \in Seq({"no", "zero", "nonzero", "reaped"}) /\ Len(exited') = Len(exited) + 1
        /\ Len(exited) \in Nat
    BY <1>3 DEF IInv, Types
  <2>5. call.n \in Nat /\ call.lock \in Nat
    BY <1>1, CallTypes, Zenon
  <2>6. down' \in [n : Nat, half : BOOLEAN]
    BY <1>3, <2>5 DEF NoRequest
  <2>7. up' \in Seq(Piece) /\ up' \in Seq(Own')
    BY <1>3, NoPieces, Zenon
  <2>12. /\ under' \in Seq(Nat) /\ Len(under') = Len(exited')
         /\ under'[Len(under')] = call.lock
    <3>1. under \in Seq(Nat) /\ Len(under) = Len(exited)
      BY Zenon DEF IInv, Types
    <3> QED
      BY <1>3, <2>4, <2>5, <3>1
  <2>8. Types'
    BY <1>1, <1>3, <2>3, <2>4, <2>6, <2>7, <2>12, ZenonT(90) DEF IInv, Types
  <2>9. GroupInv'
    BY <1>1, <1>3, <2>1, <2>3, <2>4 DEF GroupInv, Gen, Stopped
  <2>10. RunnerInv'
    BY <1>1, <2>1, <2>3, <2>12, ZenonT(60) DEF IInv, RunnerInv, Gen, Exchanging, Connecting
  <2>11. FreshInv'
    BY <1>1, <2>1, <2>3, <2>7, NoPieces, ZenonT(60) DEF FreshInv
  <2> QED
    BY <2>8, <2>9, <2>10, <2>11 DEF IInv
<1> QED
  BY <1>2, <1>3 DEF Spawn

LEMMA FinishStartInv == ASSUME IInv, FinishStart \/ FinishFailed PROVE IInv'
<1>1. /\ call.pc \in {"not started", "capture"}
      /\ UNCHANGED <<kind, lock, runner, alive, exited, under, files, socket, peer, down, up, loud>>
      /\ \E outcome : Capture(outcome)
  BY Zenon DEF FinishStart, FinishFailed, Directory
<1>2. alive = {}
  BY <1>1, Zenon DEF IInv, GroupInv, Stopped
<1>3. up' \in Seq(Piece) /\ down' \in [n : Nat, half : BOOLEAN]
  BY <1>1, Zenon DEF IInv, Types
<1> QED
  BY <1>1, <1>2, <1>3, CaptureInv, Zenon

LEMMA QuiesceInv == ASSUME IInv, Quiesce PROVE IInv'
<1>1. /\ call.pc = "idle" /\ runner # NoRunner
      /\ UNCHANGED <<kind, lock, runner, alive, exited, under, files, socket, peer, down, up, last>>
      /\ call' = [NoCall EXCEPT !.pc = "term", !.n = last.n] /\ last.n \in Nat
  BY Zenon DEF Quiesce, BindingDiffers, Helper, Directory, IInv, Types
<1>2. /\ call' \in Call /\ call'.pc = "term" /\ call'.got = <<>>
  BY <1>1, NoCallIsCall, Zenon DEF Call, Steps
<1>3. Types'
  BY <1>1, <1>2, ZenonT(60) DEF IInv, Types
<1>4. Gen # 0
  BY <1>1, GroupExists
<1>5. GroupInv'
  BY <1>1, <1>2, <1>4 DEF IInv, GroupInv, Gen, Stopped
<1>6. RunnerInv'
  BY <1>1, <1>2, ZenonT(60) DEF IInv, RunnerInv, Gen, Exchanging, Connecting
<1>7. FreshInv'
  BY <1>1, <1>2, NoPieces, Zenon DEF FreshInv
<1> QED
  BY <1>3, <1>5, <1>6, <1>7 DEF IInv

-----------------------------------------------------------------------------
(* Connecting, and one exchange of a resident runner.                       *)

\* A start that fails stops the helper, whatever step it fails at.
LEMMA StartFailsInv ==
    ASSUME IInv, StartFails, call.pc \in Connecting,
           UNCHANGED <<kind, lock, runner, alive, exited, under, peer, down, up, last>>
    PROVE  IInv'
<1>1. Stop("carrier_startup_failed", <<>>, "not started")
  BY Zenon DEF StartFails
<1>2. files' \in Seq(File) /\ socket' \in 0..Len(files')
  <2>1. files' = <<>> /\ socket' = 0
    BY Zenon DEF StartFails, DirectoryDone, NoSocket
  <2> QED
    BY <2>1
<1>3. "carrier_startup_failed" \in Outcome /\ Gen # 0
  BY GroupExists, Zenon DEF Outcome, Connecting
<1> QED
  BY <1>1, <1>2, <1>3, StopsEmptyInv, ZenonT(60)

\* Until the peer is verified nothing is served, whatever was connected to.
LEMMA ConnectsInv ==
    ASSUME IInv, call.pc \in Connecting, call' \in Call, call'.pc \in Connecting,
           call'.got = call.got, call'.n = call.n, call'.lock = call.lock,
           UNCHANGED <<kind, lock, runner, alive, exited, under, down, up, last>>,
           files' \in Seq(File), socket' \in 0..Len(files')
    PROVE  IInv'
<1>1. Types'
  BY ZenonT(60) DEF IInv, Types
<1>2. GroupInv'
  BY Zenon DEF IInv, GroupInv, Gen, Stopped, Connecting
<1>3. RunnerInv'
  BY ZenonT(60) DEF IInv, RunnerInv, Gen, Exchanging, Connecting
<1>4. call.got = <<>>
  BY Zenon DEF IInv, FreshInv, Connecting
<1>5. FreshInv'
  BY <1>4, NoPieces, Zenon DEF FreshInv, Connecting
<1> QED
  BY <1>1, <1>2, <1>3, <1>5, Zenon DEF IInv

\* The next step of connecting, with the directory as it is.
LEMMA GoesInv ==
    ASSUME IInv, call.pc \in Connecting, NEW p \in Connecting, Goes(p),
           UNCHANGED <<kind, lock, runner, alive, exited, under, down, up, last>>
    PROVE  IInv'
<1>1. call' = [call EXCEPT !.pc = p] /\ UNCHANGED <<files, socket>>
  BY Zenon DEF Goes, Directory
<1>2. call' \in Call /\ call'.pc = p /\ call'.got = call.got /\ call'.n = call.n /\ call'.lock = call.lock
  BY <1>1, GoesOn, Zenon DEF IInv, Types, Steps
<1>3. files' \in Seq(File) /\ socket' \in 0..Len(files')
  BY <1>1, FileTypes, Zenon
<1> QED
  BY <1>2, <1>3, ConnectsInv, ZenonT(60)

LEMMA ConnectTurnInv == ASSUME IInv, ConnectTurn \/ RecheckCustody PROVE IInv'
<1>1. /\ call.pc \in Connecting
      /\ UNCHANGED <<kind, lock, runner, alive, exited, under, peer, down, up, last>>
      /\ StartFails \/ Goes("dial") \/ Goes("custody")
  BY Zenon DEF ConnectTurn, RecheckCustody, Reading, Connecting
<1>2. "dial" \in Connecting /\ "custody" \in Connecting
  BY DEF Connecting
<1> QED
  BY <1>1, <1>2, StartFailsInv, GoesInv, ZenonT(60)

LEMMA TakeCustodyInv == ASSUME IInv, TakeCustody PROVE IInv'
<1>1. /\ call.pc = "custody" /\ call \in Call
      /\ UNCHANGED <<kind, lock, runner, alive, exited, under, peer, down, up, last>>
      /\ \/ StartFails
         \/ call' = [call EXCEPT !.pc = "pin", !.pin = socket] /\ UNCHANGED <<files, socket>>
  BY Zenon DEF TakeCustody, Reading, Directory, IInv, Types
<1>2. "custody" \in Connecting /\ "pin" \in Connecting
  BY DEF Connecting
<1>3. CASE call' = [call EXCEPT !.pc = "pin", !.pin = socket] /\ UNCHANGED <<files, socket>>
  <2>1. socket \in Nat
    BY FileTypes
  <2>2. call' \in Call /\ call'.pc = "pin" /\ call'.got = call.got /\ call'.n = call.n
        /\ call'.lock = call.lock
    BY <1>1, <1>2, <1>3, <2>1, Zenon DEF Call, Steps
  <2>3. files' \in Seq(File) /\ socket' \in 0..Len(files')
    BY <1>3, FileTypes, Zenon
  <2> QED
    BY <1>1, <1>2, <2>2, <2>3, ConnectsInv, ZenonT(60)
<1> QED
  BY <1>1, <1>2, <1>3, StartFailsInv, Zenon

LEMMA PinSocketInv == ASSUME IInv, PinSocket PROVE IInv'
<1>1. /\ call.pc = "pin" /\ call \in Call
      /\ UNCHANGED <<kind, lock, runner, alive, exited, under, peer, down, up, last>>
      /\ \/ StartFails
         \/ /\ call' = [call EXCEPT !.pc = "recheck"] /\ InspectSocket("helper") = "ready"
            /\ files' = [files EXCEPT ![socket].owner = "daemon"] /\ socket' = socket
  BY Zenon DEF PinSocket, Reading, IInv, Types
<1>2. "pin" \in Connecting /\ "recheck" \in Connecting
  BY DEF Connecting
<1>3. CASE /\ call' = [call EXCEPT !.pc = "recheck"] /\ InspectSocket("helper") = "ready"
           /\ files' = [files EXCEPT ![socket].owner = "daemon"] /\ socket' = socket
  <2>1. socket # 0
    BY <1>3 DEF InspectSocket, NoSocket
  <2>2. files[socket] \in File
    BY <2>1, FileTypes
  <2> DEFINE new == [files[socket] EXCEPT !.owner = "daemon"]
  <2>3. new \in File
    BY <2>2, Zenon DEF File
  <2>4. files' = [files EXCEPT ![socket] = new]
    BY <1>3, Zenon
  <2> HIDE DEF new
  <2>5. files' \in Seq(File) /\ socket' \in 0..Len(files')
    BY <1>3, <2>3, <2>4, FileChanged, Zenon
  <2>6. call' \in Call /\ call'.pc = "recheck" /\ call'.got = call.got /\ call'.n = call.n
        /\ call'.lock = call.lock
    BY <1>1, <1>2, <1>3, GoesOn, Zenon DEF Steps
  <2> QED
    BY <1>1, <1>2, <2>5, <2>6, ConnectsInv, ZenonT(60)
<1> QED
  BY <1>1, <1>2, <1>3, StartFailsInv, Zenon

LEMMA BeginConnectInv == ASSUME IInv, BeginConnect PROVE IInv'
<1>1. /\ call.pc = "dial" /\ call \in Call
      /\ UNCHANGED <<kind, lock, runner, alive, exited, under, down, up, last>>
      /\ \/ StartFails /\ peer' = peer
         \/ Goes("connect")
         \/ call' = [call EXCEPT !.pc = "peer"] /\ files' = <<>> /\ socket' = 0
  BY Zenon DEF BeginConnect, DirectoryDone, NoSocket, IInv, Types
<1>2. "dial" \in Connecting /\ "peer" \in Connecting /\ "connect" \in Connecting
  BY DEF Connecting
<1>3. CASE call' = [call EXCEPT !.pc = "peer"] /\ files' = <<>> /\ socket' = 0
  <2>1. call' \in Call /\ call'.pc = "peer" /\ call'.got = call.got /\ call'.n = call.n
        /\ call'.lock = call.lock
    BY <1>1, <1>2, <1>3, GoesOn, Zenon DEF Steps
  <2>2. files' \in Seq(File) /\ socket' \in 0..Len(files')
    BY <1>3
  <2> QED
    BY <1>1, <1>2, <2>1, <2>2, ConnectsInv, ZenonT(60)
<1> QED
  BY <1>1, <1>2, <1>3, StartFailsInv, GoesInv, Zenon

\* A runner is resident only when its own child put the connection up.
LEMMA VerifyPeerInv == ASSUME IInv, VerifyPeer PROVE IInv'
<1>1. /\ call.pc = "peer" /\ UNCHANGED <<kind, lock, alive, exited, under, peer, down, up, last>>
      /\ call \in Call /\ runner = NoRunner /\ Gen # 0 /\ call.got = <<>> /\ kind # "stdio"
      /\ under[Gen] = call.lock
  BY Zenon DEF VerifyPeer, IInv, Types, RunnerInv, GroupInv, FreshInv, Connecting
<1>2. CASE StartFails /\ runner' = runner
  BY <1>1, <1>2, StartFailsInv, Zenon DEF Connecting
<1>3. CASE /\ call' = [call EXCEPT !.pc = "prepare", !.pin = NoSocket] /\ peer.by = "leader"
           /\ runner' = [gen |-> Gen, lock |-> call.lock] /\ UNCHANGED <<files, socket>>
  <2>1. call' \in Call /\ call'.pc = "prepare" /\ call'.got = call.got /\ call'.n = call.n
        /\ call'.lock = call.lock
    BY <1>1, <1>3, Zenon DEF Call, Steps, Exchanging, NoSocket
  <2>2. Gen \in Nat /\ call.lock \in Nat
    BY <1>1, FileTypes, CallTypes, Zenon
  <2>3. runner' \in [gen : Nat \ {0}, lock : Nat] /\ runner'.gen = Gen /\ runner'.lock = call.lock
    BY <1>1, <1>3, <2>2
  <2>4. runner' # NoRunner
    BY <1>1, <2>2, <2>3 DEF NoRunner
  <2>5. Types'
    BY <1>1, <1>3, <2>1, <2>3, ZenonT(90) DEF IInv, Types
  <2>6. GroupInv'
    BY <1>1, <2>1, Zenon DEF IInv, GroupInv, Gen, Stopped
  <2>7. RunnerInv'
    BY <1>1, <1>3, <2>1, <2>3, <2>4, ZenonT(90) DEF RunnerInv, Gen, Exchanging, Connecting
  <2>8. FreshInv'
    BY <1>1, <2>1, NoPieces, Zenon DEF FreshInv
  <2> QED
    BY <2>5, <2>6, <2>7, <2>8, Zenon DEF IInv
<1> QED
  BY <1>2, <1>3, Zenon DEF VerifyPeer, PeerIsTheChild, Directory

\* What a failed exchange stops with: the bytes it read.
LEMMA ExchangeFails ==
    ASSUME IInv, call.pc \in Exchanging, NEW outcome \in Outcome, NEW bytes \in Seq(Own),
           Stop(outcome, bytes, "capture"),
           UNCHANGED <<kind, runner, alive, exited, under, files, socket, peer, down, last, lock>>,
           up' \in Seq(Piece)
    PROVE  IInv'
<1>1. Gen # 0
  BY GroupExists, Zenon DEF Exchanging
<1>2. files' \in Seq(File) /\ socket' \in 0..Len(files')
  BY FileTypes, Zenon
<1> QED
  BY <1>1, <1>2, StopsInv, Zenon

LEMMA PrepareInv == ASSUME IInv, Prepare PROVE IInv'
<1>1. /\ call.pc = "prepare" /\ UNCHANGED <<kind, lock, runner, alive, exited, under, files, socket, peer, down, up, last>>
      /\ call.got = <<>> /\ runner # NoRunner /\ runner.lock = call.lock
      /\ down' \in [n : Nat, half : BOOLEAN] /\ up' \in Seq(Piece)
  BY Zenon DEF Prepare, Helper, Directory, IInv, FreshInv, RunnerInv, Types, Exchanging
<1>2. CASE late
  <2>1. Stop("timeout", call.got, "capture") /\ "timeout" \in Outcome
    BY <1>1, <1>2 DEF Prepare, Outcome
  <2> QED
    BY <1>1, <2>1, NoPieces, ExchangeFails, Zenon DEF Exchanging
<1>3. CASE ~ late
  BY <1>1, <1>3, MovesInv, Zenon DEF Prepare, Exchanging
<1> QED
  BY <1>2, <1>3

\* The request is written only when nothing was there to read.
LEMMA ExchangePreflightInv == ASSUME IInv, ExchangePreflight PROVE IInv'
<1>1. /\ call.pc = "preflight" /\ UNCHANGED <<kind, lock, runner, alive, exited, under, files, socket, peer, down, up, last>>
      /\ call.got = <<>> /\ runner # NoRunner /\ runner.lock = call.lock
      /\ down' \in [n : Nat, half : BOOLEAN] /\ up' \in Seq(Piece)
  BY Zenon DEF ExchangePreflight, Helper, Directory, IInv, FreshInv, RunnerInv, Types, Exchanging
<1>2. CASE Preflight # "none"
  <2>1. Stop(Preflight, call.got, "capture") /\ Preflight \in Outcome
    BY <1>1, <1>2 DEF ExchangePreflight, Preflight, Outcome
  <2> QED
    BY <1>1, <2>1, NoPieces, ExchangeFails, Zenon DEF Exchanging
<1>3. CASE Preflight = "none"
  <2>1. up = <<>> /\ call' = [call EXCEPT !.pc = "write"]
    BY <1>3 DEF ExchangePreflight, Preflight
  <2>2. up \in Seq(Own)
    BY <2>1, NoPieces, Zenon
  <2> QED
    BY <1>1, <2>1, <2>2, MovesInv DEF Exchanging
<1> QED
  BY <1>2, <1>3

LEMMA WriteBoundedInv == ASSUME IInv, WriteBounded PROVE IInv'
<1>1. /\ call.pc = "write" /\ UNCHANGED <<kind, lock, runner, alive, exited, under, files, socket, peer, up, last>>
      /\ call.got = <<>> /\ runner # NoRunner /\ runner.lock = call.lock
      /\ down \in [n : Nat, half : BOOLEAN] /\ up' \in Seq(Piece) /\ call \in Call
      /\ up \in Seq(Own)
  BY Zenon DEF WriteBounded, Directory, IInv, FreshInv, RunnerInv, Types, Exchanging
<1>2. CASE loud \/ late \/ ~ Connected
  <2>1. PICK outcome \in {"stderr_too_large", "timeout", "disconnect"} :
          Stop(outcome, call.got, "capture") /\ down' = down
    BY <1>1, <1>2 DEF WriteBounded
  <2>2. outcome \in Outcome
    BY DEF Outcome
  <2> QED
    BY <1>1, <2>1, <2>2, NoPieces, ExchangeFails, Zenon DEF Exchanging
<1>3. CASE ~ (loud \/ late \/ ~ Connected)
  <2>1. call' = [call EXCEPT !.pc = "read"] /\ down' = [n |-> call.n, half |-> FALSE]
    BY <1>3 DEF WriteBounded
  <2>2. call.n \in Nat
    BY <1>1, CallTypes, Zenon
  <2>3. down' \in [n : Nat, half : BOOLEAN]
    BY <2>1, <2>2
  <2> QED
    BY <1>1, <2>1, <2>3, MovesInv, Zenon DEF Exchanging
<1> QED
  BY <1>2, <1>3

\* The bytes read and the ones left are those that were there.
LEMMA ReadPieces ==
    ASSUME NEW S, NEW s \in Seq(S), NEW t \in Seq(S), NEW k \in 1..Len(t)
    PROVE  s \o SubSeq(t, 1, k) \in Seq(S) /\ SubSeq(t, k + 1, Len(t)) \in Seq(S)
<1>1. Len(t) \in Nat /\ k \in Nat /\ 1 <= k /\ k <= Len(t)
  OBVIOUS
<1>2. SubSeq(t, 1, k) \in Seq(S) /\ SubSeq(t, k + 1, Len(t)) \in Seq(S)
  BY <1>1
<1> QED
  BY <1>2, ConcatProperties, Zenon

LEMMA ReadBoundedInv == ASSUME IInv, ReadBounded PROVE IInv'
<1>1. /\ call.pc = "read" /\ UNCHANGED <<kind, lock, runner, alive, exited, under, files, socket, peer, down, last>>
      /\ runner # NoRunner /\ runner.lock = call.lock
      /\ down' \in [n : Nat, half : BOOLEAN] /\ up \in Seq(Piece) /\ call \in Call
      /\ up \in Seq(Own) /\ call.got \in Seq(Own)
  BY Zenon DEF ReadBounded, Directory, IInv, FreshInv, RunnerInv, Types, Exchanging
<1>3. ASSUME NEW outcome \in {"stderr_too_large", "timeout", "helper_exited", "eof", "disconnect"},
             Stop(outcome, call.got, "capture"), up' = up
      PROVE  IInv'
  <2>1. outcome \in Outcome
    BY <1>3 DEF Outcome
  <2> QED
    BY <1>1, <1>3, <2>1, ExchangeFails, ZenonT(60) DEF Exchanging
<1>4. CASE loud \/ PastDeadline \/ up = <<>>
  <2>1. \E outcome \in {"stderr_too_large", "timeout", "helper_exited", "eof", "disconnect"} :
          Stop(outcome, call.got, "capture") /\ up' = up
    BY <1>4, Zenon DEF ReadBounded
  <2> QED
    BY <2>1, <1>3
<1>5. CASE ~ (loud \/ PastDeadline \/ up = <<>>)
  <2>1. PICK k \in 1..Len(up) :
          LET got == call.got \o SubSeq(up, 1, k) IN
          /\ up' = SubSeq(up, k + 1, Len(up))
          /\ CASE ReadOutcome(got) = "incomplete" -> call' = [call EXCEPT !.got = got]
               [] ReadOutcome(got) = "response" -> call' = [call EXCEPT !.pc = "read done", !.got = got]
               [] OTHER -> Stop(ReadOutcome(got), got, "capture")
    BY <1>5, Zenon DEF ReadBounded
  <2> DEFINE got == call.got \o SubSeq(up, 1, k)
  <2>2. got \in Seq(Own) /\ up' \in Seq(Own)
    BY <1>1, <2>1, ReadPieces, Zenon
  <2>3. \/ call' = [call EXCEPT !.got = got]
        \/ call' = [call EXCEPT !.pc = "read done", !.got = got]
        \/ ReadOutcome(got) \notin {"incomplete", "response"} /\ Stop(ReadOutcome(got), got, "capture")
    BY <2>1, ZenonT(90)
  <2> HIDE DEF got
  <2>6. got \in Seq(Piece) /\ up' \in Seq(Piece)
    BY <2>2, OwnPieces, Zenon
  <2>4. CASE ReadOutcome(got) \notin {"incomplete", "response"} /\ Stop(ReadOutcome(got), got, "capture")
    <3>1. ReadOutcome(got) \in Outcome
      BY <2>4 DEF ReadOutcome, Outcome
    <3> QED
      BY <1>1, <2>2, <2>4, <2>6, <3>1, ExchangeFails, ZenonT(90) DEF Exchanging
  <2>5. CASE \/ call' = [call EXCEPT !.got = got]
             \/ call' = [call EXCEPT !.pc = "read done", !.got = got]
    <3>1. call' \in Call /\ call'.pc \in {"read", "read done"} /\ call'.got = got /\ call'.n = call.n
          /\ call'.lock = call.lock /\ call'.then = call.then
      BY <1>1, <2>5, <2>6, Zenon DEF Call, Steps, Exchanging
    <3>2. Types'
      BY <1>1, <2>6, <3>1, ZenonT(90) DEF IInv, Types
    <3>3. Gen # 0
      BY <1>1, GroupExists
    <3>4. GroupInv'
      BY <1>1, <3>1, <3>3, ZenonT(90) DEF IInv, GroupInv, Gen, Stopped
    <3>5. RunnerInv'
      BY <1>1, <3>1, ZenonT(60) DEF IInv, RunnerInv, Gen, Exchanging, Connecting
    <3>6. FreshInv'
      BY <1>1, <2>2, <3>1, SameOwn, ZenonT(90) DEF FreshInv
    <3> QED
      BY <3>2, <3>4, <3>5, <3>6 DEF IInv
  <2> QED
    BY <2>3, <2>4, <2>5
<1> QED
  BY <1>4, <1>5

LEMMA FinishReadInv == ASSUME IInv, FinishRead PROVE IInv'
<1>1. /\ call.pc = "read done" /\ runner # NoRunner /\ call \in Call
      /\ UNCHANGED <<kind, lock, runner, alive, exited, under, files, socket, peer, down, up>>
      /\ up' \in Seq(Piece) /\ down' \in [n : Nat, half : BOOLEAN]
      /\ call.got \in Seq(Own)
  BY Zenon DEF FinishRead, Directory, IInv, RunnerInv, FreshInv, Types, Exchanging
<1>2. CASE loud
  <2>1. Stop("stderr_too_large", call.got, "capture") /\ UNCHANGED last /\ "stderr_too_large" \in Outcome
    BY <1>2, Zenon DEF FinishRead, Outcome
  <2> QED
    BY <1>1, <2>1, ExchangeFails, Zenon DEF Exchanging
<1>3. CASE ~ loud
  BY <1>1, <1>3, CaptureInv, ZenonT(90) DEF FinishRead
<1> QED
  BY <1>2, <1>3

-----------------------------------------------------------------------------
(* The stdio runner.                                                        *)

LEMMA DrainInv == ASSUME IInv, Drain PROVE IInv'
<1>1. /\ call.pc = "poll" /\ UNCHANGED <<kind, lock, runner, alive, exited, under, files, socket, peer, down, last>>
      /\ call' = [call EXCEPT !.got = call.got \o up] /\ up' = <<>> /\ call \in Call
      /\ up \in Seq(Own) /\ call.got \in Seq(Own)
  BY Zenon DEF Drain, Directory, IInv, FreshInv, Types
<1> DEFINE got == call.got \o up
<1>2. got \in Seq(Own)
  BY <1>1, ConcatProperties, Zenon
<1>3. call' = [call EXCEPT !.got = got]
  BY <1>1
<1> HIDE DEF got
<1>4. got \in Seq(Piece)
  BY <1>2, OwnPieces, Zenon
<1>5. call' \in Call /\ call'.pc = "poll" /\ call'.got = got /\ call'.n = call.n
      /\ call'.lock = call.lock /\ call'.then = call.then
  BY <1>1, <1>3, <1>4, Zenon DEF Call
<1>6. up' \in Seq(Piece) /\ up' \in Seq(Own)
  BY <1>1, NoPieces, Zenon
<1>7. Types'
  BY <1>1, <1>5, <1>6, ZenonT(60) DEF IInv, Types
<1>8. GroupInv'
  BY <1>1, <1>5, Zenon DEF IInv, GroupInv, Gen, Stopped
<1>9. RunnerInv'
  BY <1>1, <1>5, ZenonT(60) DEF IInv, RunnerInv, Gen, Exchanging, Connecting
<1>10. FreshInv'
  BY <1>1, <1>2, <1>5, <1>6, SameOwn, ZenonT(90) DEF FreshInv
<1> QED
  BY <1>7, <1>8, <1>9, <1>10, Zenon DEF IInv

LEMMA PollTurnInv == ASSUME IInv, PollTurn PROVE IInv'
<1>1. /\ call.pc = "poll" /\ UNCHANGED <<kind, lock, runner, alive, exited, under, files, socket, peer, down, up, last>>
      /\ runner = NoRunner /\ Gen # 0 /\ call \in Call /\ up' \in Seq(Piece)
      /\ exited \in Seq({"no", "zero", "nonzero", "reaped"})
      /\ call.got \in Seq(Own)
  BY Zenon DEF PollTurn, Helper, Directory, IInv, Types, RunnerInv, GroupInv, FreshInv
<1>2. files' \in Seq(File) /\ socket' \in 0..Len(files')
  BY <1>1, FileTypes, Zenon
<1>3. exited[Gen] \in {"no", "zero", "nonzero", "reaped"}
  <2>1. Len(exited) \in Nat
    BY <1>1
  <2>2. Gen \in 1..Len(exited)
    BY <1>1, <2>1 DEF Gen
  <2> QED
    BY <1>1, <2>2
<1>4. PICK outcome \in {"output_too_large", "stderr_too_large", "timeout", exited[Gen]} :
        Stop(outcome, call.got, "collect")
  BY DEF PollTurn
<1>5. outcome \in Outcome
  BY <1>3 DEF Outcome
<1> QED
  BY <1>1, <1>2, <1>4, <1>5, StopsInv, ZenonT(90)

LEMMA CollectThreadsInv == ASSUME IInv, CollectThreads PROVE IInv'
<1>1. /\ call.pc = "collect" /\ UNCHANGED <<kind, lock, runner, alive, exited, under, files, socket, peer>>
      /\ up' = <<>> /\ down' = NoRequest
      /\ \E outcome : Capture(outcome)
  BY Zenon DEF CollectThreads, Directory
<1>2. alive = {}
  BY <1>1 DEF IInv, GroupInv, Stopped
<1>3. up' \in Seq(Piece) /\ down' \in [n : Nat, half : BOOLEAN]
  BY <1>1, NoPieces DEF NoRequest
<1> QED
  BY <1>1, <1>2, <1>3, CaptureInv

-----------------------------------------------------------------------------
(* The results.                                                             *)

LEMMA NextInv == ASSUME IInv, [Next]_vars PROVE IInv'
<1>1. CASE UNCHANGED vars
  <2>1. UNCHANGED <<Daemon, Directory, alive, exited, peer, down, up>>
    BY <1>1, Zenon DEF vars, Daemon, Directory
  <2>2. files' \in Seq(File) /\ socket' \in 0..Len(files')
    BY <2>1, FileTypes, Zenon DEF Directory
  <2> QED
    BY <2>1, <2>2, DirectoryInv, Zenon
<1>2. CASE Thread
  BY <1>2, SelectRunnerInv, SpawnInv, FinishStartInv, ConnectTurnInv, TakeCustodyInv, PinSocketInv,
     BeginConnectInv, VerifyPeerInv, PrepareInv, ExchangePreflightInv, WriteBoundedInv,
     ReadBoundedInv, FinishReadInv, PollTurnInv, CollectThreadsInv, StopTermInv, StopKillInv,
     StopJoinInv, Zenon DEF Thread
<1>3. CASE Collect \/ Quiesce \/ Drain
  BY <1>3, CollectInv, QuiesceInv, DrainInv
<1>4. CASE \/ \E gen \in {0, Gen} : HelperBinds(gen)
           \/ \E who \in Roles : HelperListens(who)
           \/ HelperRelinks \/ HelperMakesPrivate \/ HelperHangsUp \/ HelperAnswers \/ HelperChatters
  BY <1>4, HelperBindsInv, HelperListensInv, HelperRelinksInv, HelperMakesPrivateInv,
     HelperHangsUpInv, HelperAnswersInv, HelperChattersInv, Zenon
<1>5. CASE HelperFloodsStderr \/ HelperForks \/ HelperExits \/ OperatorReplacesLock \/ DeadlinePasses
  BY <1>5, ElsewhereInv, ProcessesInv
<1> QED
  BY <1>1, <1>2, <1>3, <1>4, <1>5 DEF Next

LEMMA Inductive == Spec => []IInv
<1>1. IInv /\ [Next]_vars => IInv'
  BY NextInv
<1> QED
  BY <1>1, InitInv, PTL DEF Spec

\* Everything a capture holds was written during its own exchange, for any
\* number of exchanges with one resident helper: a late answer, a second one or
\* chatter between two exchanges never becomes part of the next (exchange,
\* read_bounded).
THEOREM FreshResponses == Spec => []ResponseIsFresh
<1>1. ASSUME IInv PROVE ResponseIsFresh
  <2>1. call.got \in Seq(Own)
    BY <1>1, Zenon DEF IInv, FreshInv
  <2>2. \A i \in 1..Len(call.got) : call.got[i] \in Own
    BY <2>1
  <2> QED
    BY <2>2, Zenon DEF Own, ResponseIsFresh
<1> QED
  BY <1>1, Inductive, PTL

\* Whatever the helper, its descendants and siblings of its account put at the
\* socket path, and whenever, an answer is the output of a process group launched
\* under the lock its collection verified, over a connection the daemon's own child
\* put up (connect_bounded, verify_peer, run_unix_capture).
THEOREM AdmittedGroupAnswers == Spec => []AnsweredUnderItsLock
<1>1. ASSUME IInv PROVE AnsweredUnderItsLock
  <2>1. call.got \in Seq(Own) /\ under \in Seq(Nat)
    BY <1>1, Zenon DEF IInv, FreshInv, Types
  <2>2. (\A i \in 1..Len(call.got) : call.got[i] \in Own) /\ DOMAIN under = 1..Len(under)
    BY <2>1
  <2>3. \A i \in 1..Len(call.got) :
          call.got[i].gen \in DOMAIN under /\ under[call.got[i].gen] = call.lock
    BY <2>2, Zenon DEF Own
  <2>4. call.pc \in Exchanging => peer.by = "leader" /\ under[Gen] = call.lock
    BY <1>1, Zenon DEF IInv, RunnerInv
  <2> QED
    BY <2>3, <2>4, Zenon DEF AnsweredUnderItsLock, Exchanging
<1> QED
  BY <1>1, Inductive, PTL

\* However a helper forks and dies, no process of an earlier group lives between
\* two collections (stop, terminate_group).
THEOREM ContainedHelpers == Spec => []HelpersContained
<1>1. ASSUME IInv PROVE HelpersContained
  BY <1>1 DEF IInv, GroupInv, RunnerInv, HelpersContained
<1> QED
  BY <1>1, Inductive, PTL
==============================================================================
