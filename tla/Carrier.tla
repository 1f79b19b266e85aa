------------------------------- MODULE Carrier -------------------------------
(***************************************************************************)
(* One watcher's carrier: a request goes to a helper process and one bounded *)
(* line comes back.  A stdio helper lives for one request; a Unix helper     *)
(* stays resident behind a socket and serves many, until an exchange fails   *)
(* or the admission lock it was launched under is replaced.  The helper is   *)
(* an arbitrary program: it may be late, answer twice, answer in pieces,     *)
(* flood its pipes, hang up, fork, let a descendant serve, or exit.  A       *)
(* helper of another watcher that runs as the same account (a sibling) can   *)
(* do in the socket directory what the helper can.                           *)
(*                                                                          *)
(* A piece of output is a "line" (one object and its newline), the "half"    *)
(* and the "end" of such a line, a "text" line that is no object, or a       *)
(* "flood" beyond the response bound; it records the request it answers, the *)
(* exchange during which it was written and the process group that wrote it, *)
(* 0 for a sibling.  Whoever in a group has the descriptor may write: the    *)
(* leader or a descendant that inherited it, which nothing tells apart.      *)
(*                                                                          *)
(* Source: crates/nq-core/src/unix_runner.rs, runner.rs, engine.rs,          *)
(* crates/nq-helper-sandbox/src/lib.rs.                                      *)
(***************************************************************************)
EXTENDS Naturals, Sequences, FiniteSets

CONSTANTS
    MaxExchanges,    \* bound: collections
    MaxLocks,        \* bound: locks the operator installs
    MaxMischief      \* bound: what a helper does beyond one prompt answer per request

VARIABLES
    kind,      \* the watcher's carrier, "stdio" or "unix"
    lock,      \* the active admission lock
    runner,    \* the resident runner: NoRunner or [gen, lock]
    alive,     \* processes: pairs <<generation, "leader" or "descendant">>
    exited,    \* generation -> how its leader ended: "no", "zero", "nonzero", "reaped"
    under,     \* generation -> the lock it was launched under
    files,     \* files made for the socket path: inode -> [owner, mode, gen, listener]
    socket,    \* the inode the socket path names, or NoSocket
    peer,      \* the connection: NoPeer or [by, open], by whoever called listen
    down,      \* the newest request written to the helper
    up,        \* pieces written by the helper and not yet read
    loud,      \* stderr has passed its bound
    late,      \* the deadline of the exchange in progress has passed
    call,      \* the engine's thread: [pc, n, lock, got, outcome, then, pin]
    last,      \* the newest capture: [n, outcome]
    mischief

vars == <<kind, lock, runner, alive, exited, under, files, socket, peer, down, up, loud, late,
          call, last, mischief>>

NoRunner == [gen |-> 0]
NoSocket == 0
NoPeer == [by |-> "none", open |-> FALSE]
NoCall == [pc |-> "idle", n |-> 0, lock |-> 0, got |-> <<>>, outcome |-> "none", then |-> "idle",
           pin |-> NoSocket]
NoCapture == [n |-> 0, outcome |-> "none"]
NoRequest == [n |-> 0, half |-> FALSE]

Gen == Len(exited)                  \* the newest process group
Members(g) == {m \in alive : m[1] = g}
LeaderUp == <<Gen, "leader">> \in alive

Init ==
    /\ kind \in {"stdio", "unix"}
    /\ lock = 1
    /\ runner = NoRunner
    /\ alive = {}
    /\ exited = <<>>
    /\ under = <<>>
    /\ files = <<>>
    /\ socket = NoSocket
    /\ peer = NoPeer
    /\ down = NoRequest
    /\ up = <<>>
    /\ loud = FALSE
    /\ late = FALSE
    /\ call = NoCall
    /\ last = NoCapture
    /\ mischief = 0

-----------------------------------------------------------------------------
(* The helper, the operator and the clock (external).                       *)

Misbehaves == mischief < MaxMischief /\ mischief' = mischief + 1

Daemon == <<kind, lock, runner, under, late, call, last>>
Directory == <<files, socket>>

\* The socket directory is modelled while the daemon reads the path: nothing looks
\* at it once the connection is up, and it is removed with the helper.
PathInUse == call.pc \in {"connect", "custody", "pin", "recheck", "dial"}

\* Processes of one group share their descriptors; a sibling is of no group here.
Roles == {"leader", "descendant", "sibling"}
Lives(who) == who = "sibling" \/ <<Gen, who>> \in alive
Group(who) == IF who = "sibling" THEN 0 ELSE Gen
Populated(g) == g = 0 \/ Members(g) # {}

\* A file at the socket path: bind, chmod and listen are steps of their own.  The
\* directory is writable to the account, so that any process of it may put another
\* socket, or no socket at all, in the place of one, at any time.
HelperBinds(gen) ==
    /\ PathInUse /\ Populated(gen)
    /\ \E mode \in {"umask", "file"} :
         /\ IF gen = Gen /\ mode = "umask" /\ socket = NoSocket THEN UNCHANGED mischief ELSE Misbehaves
         /\ files' = Append(files, [owner |-> "helper", mode |-> mode, gen |-> gen, listener |-> "none"])
    /\ socket' = Len(files')
    /\ UNCHANGED <<Daemon, alive, exited, peer, down, up, loud>>

\* Unlink the path, or rename a file that was there before to it.
HelperRelinks ==
    /\ PathInUse /\ Misbehaves
    /\ \E i \in {NoSocket} \cup DOMAIN files : i # socket /\ socket' = i
    /\ UNCHANGED <<Daemon, files, alive, exited, peer, down, up, loud>>

\* chmod goes by the path, and is the owner's.
HelperMakesPrivate ==
    /\ PathInUse /\ socket # NoSocket
    /\ files[socket].mode = "umask" /\ files[socket].owner = "helper"
    /\ files' = [files EXCEPT ![socket].mode = "private"]
    /\ UNCHANGED <<Daemon, socket, alive, exited, peer, down, up, loud, mischief>>

\* listen records the caller's credentials for those who connect.
HelperListens(who) ==
    /\ PathInUse /\ Lives(who)
    /\ \E i \in DOMAIN files :
         /\ files[i].mode # "file" /\ files[i].gen = Group(who) /\ files[i].listener # who
         /\ IF who # "descendant" /\ files[i].listener = "none" THEN UNCHANGED mischief ELSE Misbehaves
         /\ files' = [files EXCEPT ![i].listener = who]
    /\ UNCHANGED <<Daemon, socket, alive, exited, peer, down, up, loud>>

\* Someone has the other end of the connection.
Connected == peer.open /\ Populated(Group(peer.by))
Writable == IF kind = "stdio" THEN Members(Gen) # {} ELSE Connected

\* A descendant need not have the connection of a leader that died.
HelperHangsUp ==
    /\ Connected
    /\ IF LeaderUp THEN Misbehaves ELSE UNCHANGED mischief
    /\ peer' = [by |-> peer.by, open |-> FALSE]
    /\ UNCHANGED <<Daemon, Directory, alive, exited, down, up, loud>>

Emit(piece, for) ==
    up' = Append(up, [piece |-> piece, for |-> for, at |-> call.n, gen |-> Group(peer.by)])

\* The answer to the newest request, whole or in two pieces, once.
HelperAnswers ==
    /\ Writable /\ down # NoRequest
    /\ \/ ~ down.half /\ Emit("line", down.n) /\ down' = NoRequest /\ UNCHANGED mischief
       \/ ~ down.half /\ Emit("half", down.n) /\ down' = [down EXCEPT !.half = TRUE] /\ Misbehaves
       \/ down.half /\ Emit("end", down.n) /\ down' = NoRequest /\ UNCHANGED mischief
    /\ UNCHANGED <<Daemon, Directory, alive, exited, peer, loud>>

\* Output nobody asked for: an answer again, text, or too much of it.
HelperChatters ==
    /\ Writable /\ Misbehaves
    /\ \E piece \in {"line", "text", "flood"} : Emit(piece, 0)
    /\ UNCHANGED <<Daemon, Directory, alive, exited, peer, down, loud>>

HelperFloodsStderr ==
    /\ Members(Gen) # {} /\ ~ loud /\ Misbehaves
    /\ loud' = TRUE
    /\ UNCHANGED <<Daemon, Directory, alive, exited, peer, down, up>>

HelperForks ==
    /\ LeaderUp /\ <<Gen, "descendant">> \notin alive /\ Misbehaves
    /\ alive' = alive \cup {<<Gen, "descendant">>}
    /\ UNCHANGED <<Daemon, Directory, exited, peer, down, up, loud>>

\* Also what the death signal does when the daemon's thread that forked the
\* helper retires.
HelperExits ==
    /\ LeaderUp
    /\ IF kind = "stdio" /\ down = NoRequest THEN UNCHANGED mischief ELSE Misbehaves
    /\ alive' = alive \ {<<Gen, "leader">>}
    /\ \E status \in {"zero", "nonzero"} : exited' = [exited EXCEPT ![Gen] = status]
    /\ UNCHANGED <<Daemon, Directory, peer, down, up, loud>>

OperatorReplacesLock ==
    /\ lock < MaxLocks
    /\ lock' = lock + 1
    /\ UNCHANGED <<kind, runner, alive, exited, under, Directory, peer, down, up, loud, late, call, last, mischief>>

\* One that passes while a group is being stopped is seen after that.
DeadlinePasses ==
    /\ call.pc \notin {"idle", "term", "kill", "join"} /\ ~ late
    /\ late' = TRUE
    /\ UNCHANGED <<kind, lock, runner, alive, exited, under, Directory, peer, down, up, loud, call, last, mischief>>

-----------------------------------------------------------------------------
(* What the bytes read so far amount to.                                    *)

EndsLine(p) == p.piece \in {"line", "end", "text"}

\* One object: a whole line, or the two pieces of one.
IsObject(got) ==
    \/ Len(got) = 1 /\ got[1].piece = "line"
    \/ Len(got) = 2 /\ got[1].piece = "half" /\ got[2].piece = "end" /\ got[1].for = got[2].for

\* read_bounded after a read: nothing while the line is incomplete.
ReadOutcome(got) ==
    IF \E i \in 1..Len(got) : got[i].piece = "flood" THEN "output_too_large"
    ELSE IF \E i \in 1..Len(got) - 1 : EndsLine(got[i]) THEN "malformed_framing"
    ELSE IF got = <<>> \/ ~ EndsLine(got[Len(got)]) THEN "incomplete"
    ELSE IF IsObject(got) THEN "response" ELSE "malformed_json"

\* validate_frame over everything a stdio helper wrote.
ValidateFrame(got) ==
    IF got = <<>> THEN "eof"
    ELSE IF ~ EndsLine(got[Len(got)]) \/ \E i \in 1..Len(got) - 1 : EndsLine(got[i]) THEN "malformed_framing"
    ELSE IF IsObject(got) THEN "response" ELSE "malformed_json"

-----------------------------------------------------------------------------
(* Stopping a process group: SIGTERM, a grace period, SIGKILL to the group    *)
(* even when its leader is gone, wait, and the end of the stderr reader.      *)

Helper == <<kind, lock, under, Directory, peer, down, up, loud, late, last, mischief>>

StopTerm ==
    /\ call.pc = "term"
    /\ \E dead \in SUBSET Members(Gen) :
         /\ alive' = alive \ dead
         /\ exited' = IF <<Gen, "leader">> \in dead
                      THEN [exited EXCEPT ![Gen] = "nonzero"] ELSE exited
    /\ call' = [call EXCEPT !.pc = "kill"]
    /\ UNCHANGED <<Helper, runner>>

KillUnlessExited(g) == IF exited[g] = "no" THEN Members(g) ELSE {}

KillGroup(g) == Members(g)

StopKill ==
    /\ call.pc = "kill"
    /\ alive' = alive \ KillGroup(Gen)
    /\ exited' = [exited EXCEPT ![Gen] = "reaped"]
    /\ call' = [call EXCEPT !.pc = "join"]
    /\ UNCHANGED <<Helper, runner>>

\* A Unix runner joins its stderr reader, which ends with the last writer, and is
\* forgotten.  A stdio runner waits for its
\* threads for a bounded time only.
StopJoin ==
    /\ call.pc = "join"
    /\ kind = "unix" => Members(Gen) = {}
    /\ call' = [call EXCEPT !.pc = call.then]
    /\ runner' = NoRunner
    /\ peer' = NoPeer
    /\ IF kind = "unix" THEN up' = <<>> /\ down' = NoRequest /\ loud' = FALSE
       ELSE UNCHANGED <<up, down, loud>>
    /\ UNCHANGED <<kind, lock, alive, exited, under, Directory, late, last, mischief>>

Stop(outcome, bytes, then) ==
    call' = [call EXCEPT !.pc = "term", !.outcome = outcome, !.got = bytes, !.then = then,
                          !.pin = NoSocket]

\* The run outcome of a persistent exchange: a deadline is an exchange's own.
NormalizeUnixCapture(outcome) ==
    IF kind = "unix" /\ outcome = "timeout" THEN "exchange_timeout" ELSE outcome

Capture(outcome) ==
    /\ last' = [n |-> call.n, outcome |-> NormalizeUnixCapture(outcome)]
    /\ call' = NoCall
    /\ late' = FALSE

-----------------------------------------------------------------------------
(* The engine's collection thread.                                          *)

\* collect, after it verified the active lock.
Collect ==
    /\ call.pc = "idle" /\ last.n < MaxExchanges
    /\ call' = [NoCall EXCEPT !.pc = IF kind = "unix" THEN "select" ELSE "spawn",
                              !.n = last.n + 1, !.lock = lock]
    /\ UNCHANGED <<Helper, runner, alive, exited>>

BindingDiffers(l) == runner # NoRunner /\ runner.lock # l

\* run_unix_capture: a runner of another lock is stopped first.
SelectRunner ==
    /\ call.pc = "select"
    /\ IF BindingDiffers(call.lock) THEN Stop("none", <<>>, "spawn")
       ELSE call' = [call EXCEPT !.pc = IF runner = NoRunner THEN "spawn" ELSE "prepare"]
    /\ UNCHANGED <<Helper, runner, alive, exited>>

\* Spawn in a new process group, behind a new private directory.
Spawn ==
    /\ call.pc = "spawn"
    /\ \/ /\ exited' = Append(exited, "no")
          /\ under' = Append(under, call.lock)
          /\ alive' = alive \cup {<<Gen + 1, "leader">>}
          /\ call' = [call EXCEPT !.pc = IF kind = "unix" THEN "connect" ELSE "poll"]
          /\ down' = IF kind = "unix" THEN NoRequest ELSE [n |-> call.n, half |-> FALSE]
          /\ up' = <<>>
          /\ loud' = FALSE
          /\ UNCHANGED <<late, last>>
       \/ /\ Capture(IF kind = "unix" THEN "carrier_startup_failed" ELSE "spawn_failed")
          /\ UNCHANGED <<alive, exited, under, down, up, loud>>
    /\ UNCHANGED <<kind, lock, runner, Directory, peer, mischief>>

FinishStart ==
    /\ call.pc = "not started"
    /\ Capture("carrier_startup_failed")
    /\ UNCHANGED <<kind, lock, runner, alive, exited, under, Directory, peer, down, up, loud, mischief>>

-----------------------------------------------------------------------------
(* connect_bounded: each read of the path is a step, and so is connecting.   *)

\* What the path names: a socket of that owner and no access for others, or what
\* may become one while the helper is still at bind, chmod and chown.
InspectSocket(owner) ==
    IF socket = NoSocket THEN "absent"
    ELSE IF files[socket].mode = "file" THEN "not a socket"
    ELSE IF files[socket].mode = "private" /\ files[socket].owner = owner THEN "ready" ELSE "unready"

DirectoryDone == files' = <<>> /\ socket' = NoSocket

StartFails == Stop("carrier_startup_failed", <<>>, "not started") /\ DirectoryDone

Goes(pc) == call' = [call EXCEPT !.pc = pc] /\ UNCHANGED Directory

Reading == <<kind, lock, runner, alive, exited, under, peer, down, up, loud, late, last, mischief>>

\* One turn of the polling loop.
InCustody == call.pin # NoSocket

ConnectTurn ==
    /\ call.pc = "connect"
    /\ LET seen == InspectSocket(IF InCustody THEN "daemon" ELSE "helper") IN
       IF loud \/ ~ LeaderUp \/ seen = "not a socket" \/ (seen = "unready" /\ InCustody) THEN StartFails
       ELSE IF seen = "ready" THEN Goes(IF InCustody THEN "dial" ELSE "custody")
       ELSE late /\ StartFails
    /\ UNCHANGED Reading

\* take_unix_socket_custody: look, open what the path names and make sure it is
\* what was seen, change the owner of that inode, and look again.
TakeCustody ==
    /\ call.pc = "custody"
    /\ IF InspectSocket("helper") = "ready"
       THEN call' = [call EXCEPT !.pc = "pin", !.pin = socket] /\ UNCHANGED Directory
       ELSE StartFails
    /\ UNCHANGED Reading

PinSocket ==
    /\ call.pc = "pin"
    /\ IF socket = call.pin /\ InspectSocket("helper") = "ready"
       THEN /\ call' = [call EXCEPT !.pc = "recheck"]
            /\ files' = [files EXCEPT ![socket].owner = "daemon"]
            /\ UNCHANGED socket
       ELSE StartFails
    /\ UNCHANGED Reading

RecheckCustody ==
    /\ call.pc = "recheck"
    /\ IF socket = call.pin /\ InspectSocket("daemon") = "ready" THEN Goes("dial") ELSE StartFails
    /\ UNCHANGED Reading

Accepts(file) == file.listener # "none" /\ Populated(file.gen)

\* connect goes to whatever the path names by now.  It may fail; refused, it is tried
\* again; and a full backlog leaves it pending until the deadline.
BeginConnect ==
    /\ call.pc = "dial"
    /\ \/ /\ socket # NoSocket /\ Accepts(files[socket])
          /\ peer' = [by |-> files[socket].listener, open |-> TRUE]
          /\ call' = [call EXCEPT !.pc = "peer"]
          /\ DirectoryDone
       \/ /\ StartFails \/ (~ late /\ Goes("connect"))
          /\ UNCHANGED peer
    /\ UNCHANGED <<kind, lock, runner, alive, exited, under, down, up, loud, late, last, mischief>>

PeerIsOfTheAccount(p) == TRUE

\* SO_PEERCRED: the direct child called listen, not merely a process of its account.
PeerIsTheChild(p) == p.by = "leader"

VerifyPeer ==
    /\ call.pc = "peer"
    /\ IF PeerIsTheChild(peer)
       THEN /\ call' = [call EXCEPT !.pc = "prepare", !.pin = NoSocket]
            /\ runner' = [gen |-> Gen, lock |-> call.lock]
            /\ UNCHANGED Directory
       ELSE StartFails /\ UNCHANGED runner
    /\ UNCHANGED <<kind, lock, alive, exited, under, peer, down, up, loud, late, last, mischief>>

-----------------------------------------------------------------------------
(* One exchange of a resident runner.                                       *)

\* prepare_request with no time left fails without touching the helper; the
\* engine then stops the runner, as after every outcome but a response.
Prepare ==
    /\ call.pc = "prepare"
    /\ IF late THEN Stop("timeout", <<>>, "capture")
       ELSE call' = [call EXCEPT !.pc = "preflight"]
    /\ UNCHANGED <<Helper, runner, alive, exited>>

PreflightWithoutRead ==
    IF loud THEN "stderr_too_large" ELSE IF ~ LeaderUp THEN "helper_exited" ELSE "none"

\* Nothing may have been written before the request.
Preflight ==
    IF loud THEN "stderr_too_large"
    ELSE IF ~ LeaderUp THEN "helper_exited"
    ELSE IF up # <<>> THEN "malformed_framing"
    ELSE IF ~ Connected THEN "eof"
    ELSE "none"

ExchangePreflight ==
    /\ call.pc = "preflight"
    /\ IF Preflight # "none" THEN Stop(Preflight, <<>>, "capture")
       ELSE call' = [call EXCEPT !.pc = "write"]
    /\ UNCHANGED <<Helper, runner, alive, exited>>

WriteBounded ==
    /\ call.pc = "write"
    /\ IF loud \/ late \/ ~ Connected
       THEN /\ Stop(IF loud THEN "stderr_too_large" ELSE IF late THEN "timeout"
                    ELSE "disconnect", <<>>, "capture")
            /\ UNCHANGED down
       ELSE /\ call' = [call EXCEPT !.pc = "read"]
            /\ down' = [n |-> call.n, half |-> FALSE]
    /\ UNCHANGED <<kind, lock, runner, alive, exited, under, Directory, peer, up, loud, late, last, mischief>>

DeadlineUnread == FALSE

PastDeadline == late

\* One turn of the read loop: the bounds first, then what is there to read.
ReadBounded ==
    /\ call.pc = "read"
    /\ IF loud THEN Stop("stderr_too_large", call.got, "capture") /\ UNCHANGED up
       ELSE IF PastDeadline THEN Stop("timeout", call.got, "capture") /\ UNCHANGED up
       ELSE IF up # <<>>
            THEN \E k \in 1..Len(up) :
                   LET got == call.got \o SubSeq(up, 1, k) IN
                   /\ up' = SubSeq(up, k + 1, Len(up))
                   /\ CASE ReadOutcome(got) = "incomplete" -> call' = [call EXCEPT !.got = got]
                        [] ReadOutcome(got) = "response" ->
                             call' = [call EXCEPT !.pc = "read done", !.got = got]
                        [] OTHER -> Stop(ReadOutcome(got), got, "capture")
       ELSE /\ UNCHANGED up
            /\ ~ Connected \/ ~ LeaderUp
            /\ Stop(IF Connected THEN "helper_exited" ELSE IF call.got = <<>> THEN "eof"
                    ELSE "disconnect", call.got, "capture")
    /\ UNCHANGED <<kind, lock, runner, alive, exited, under, Directory, peer, down, loud, late, last, mischief>>

\* A response keeps the helper, unless its stderr passed the bound meanwhile.
FinishRead ==
    /\ call.pc = "read done"
    /\ IF loud THEN Stop("stderr_too_large", call.got, "capture") /\ UNCHANGED <<late, last>>
       ELSE Capture("response")
    /\ UNCHANGED <<kind, lock, runner, alive, exited, under, Directory, peer, down, up, loud, mischief>>

FinishFailed ==
    /\ call.pc = "capture"
    /\ Capture(call.outcome)
    /\ UNCHANGED <<kind, lock, runner, alive, exited, under, Directory, peer, down, up, loud, mischief>>

\* quiesce_if_binding_changed, between collections.
Quiesce ==
    /\ call.pc = "idle" /\ BindingDiffers(lock)
    /\ call' = [NoCall EXCEPT !.pc = "term", !.n = last.n]
    /\ UNCHANGED <<Helper, runner, alive, exited>>

-----------------------------------------------------------------------------
(* run_verified of the stdio runner.                                        *)

\* The reader thread drains the pipe however much comes.
Drain ==
    /\ call.pc = "poll" /\ kind = "stdio" /\ up # <<>>
    /\ call' = [call EXCEPT !.got = @ \o up]
    /\ up' = <<>>
    /\ UNCHANGED <<kind, lock, runner, alive, exited, under, Directory, peer, down, loud, late, last, mischief>>

Flooded(got) == \E i \in 1..Len(got) : got[i].piece = "flood"

\* One turn of the waiting loop: the bounds in order, then the exit.
PollTurn ==
    /\ call.pc = "poll"
    /\ IF Flooded(call.got) THEN Stop("output_too_large", call.got, "collect")
       ELSE IF loud THEN Stop("stderr_too_large", call.got, "collect")
       ELSE IF late THEN Stop("timeout", call.got, "collect")
       ELSE /\ ~ LeaderUp
            /\ Stop(exited[Gen], call.got, "collect")
    /\ UNCHANGED <<Helper, runner, alive, exited>>

\* The reader's bytes, when it ended in time: it does when no process is left.
\* The request writer fails when the helper went away with the request unread.
CollectThreads ==
    /\ call.pc = "collect"
    /\ \E ended \in (IF Members(Gen) = {} THEN BOOLEAN ELSE {FALSE}),
          written \in (IF down = NoRequest THEN {TRUE} ELSE BOOLEAN) :
         LET bytes == IF ended THEN call.got \o up ELSE <<>> IN
         Capture(IF call.outcome \notin {"zero", "nonzero"} THEN call.outcome
                 ELSE IF ~ written THEN "request_write_failed"
                 ELSE IF ~ ended THEN "io_failed"
                 ELSE IF call.outcome = "nonzero" THEN "exit_nonzero"
                 ELSE ValidateFrame(bytes))
    /\ up' = <<>>
    /\ down' = NoRequest
    /\ loud' = FALSE
    /\ UNCHANGED <<kind, lock, runner, alive, exited, under, Directory, peer, mischief>>

-----------------------------------------------------------------------------
Thread ==
    \/ SelectRunner \/ Spawn \/ FinishStart \/ ConnectTurn \/ TakeCustody \/ PinSocket
    \/ RecheckCustody \/ BeginConnect \/ VerifyPeer \/ Prepare \/ ExchangePreflight
    \/ WriteBounded \/ ReadBounded \/ FinishRead \/ FinishFailed \/ PollTurn \/ CollectThreads
    \/ StopTerm \/ StopKill \/ StopJoin

Next ==
    \/ Thread \/ Collect \/ Quiesce \/ Drain
    \/ \E gen \in {0, Gen} : HelperBinds(gen)
    \/ \E who \in Roles : HelperListens(who)
    \/ HelperRelinks \/ HelperMakesPrivate \/ HelperHangsUp \/ HelperAnswers
    \/ HelperChatters \/ HelperFloodsStderr \/ HelperForks \/ HelperExits
    \/ OperatorReplacesLock \/ DeadlinePasses

\* The thread runs, and its monotonic deadline passes.
Spec == Init /\ [][Next]_vars /\ WF_vars(Thread) /\ WF_vars(DeadlinePasses)

-----------------------------------------------------------------------------
(* Properties.                                                              *)

\* Every byte an exchange reads, into a response or not, was written during that
\* exchange: what a resident helper wrote late, twice or unasked before it began is
\* never part of its capture.
ResponseIsFresh ==
    \A i \in 1..Len(call.got) : call.got[i].at = call.n

\* Between collections no helper process lives but the resident runner's: a
\* failed, finished or stopped exchange leaves no descendant behind.
HelpersContained ==
    call.pc = "idle" => \A m \in alive : m[1] = runner.gen

\* What the peer check and the choice of the runner guarantee of an answer: every
\* byte was written by a process group launched under the lock this collection
\* verified, and an exchange goes over a connection that the child itself, not a
\* process of its account, put up, whatever replaced the socket file between the
\* looks at it.  It need not be the file in custody, nor the child that writes.
AnsweredUnderItsLock ==
    /\ \A i \in 1..Len(call.got) :
         call.got[i].gen \in DOMAIN under /\ under[call.got[i].gen] = call.lock
    /\ call.pc \in {"prepare", "preflight", "write", "read", "read done"} =>
         peer.by = "leader" /\ under[Gen] = call.lock

\* A collection that began comes to its end, whatever the helper does.
ExchangeEnds == call.pc # "idle" ~> call.pc = "idle"
==============================================================================
