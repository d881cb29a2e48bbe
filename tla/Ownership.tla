------------------------------ MODULE Ownership ------------------------------
(***************************************************************************)
(* Which daemon process owns a home (daemon_lifecycle.go, startDaemon and  *)
(* recoverDaemonBeforeStart in daemon_host.go, prepare, Run and cleanup in *)
(* daemon/server.go), and the commands that start, stop, restart and       *)
(* replace it.                                                             *)
(*                                                                         *)
(* "files" is the home: the lock, the socket and the identity file, each   *)
(* the process that holds, bound or wrote it, dead or alive.  A probe of   *)
(* the lock takes it for an instant, so the holder may be a command.       *)
(* "own" holds the processes; a stalled one answers nothing and makes no   *)
(* progress for a while.  Of a process's version only this matters:        *)
(* whether it is the caller's ("cur"), another that speaks the operation   *)
(* protocol ("prior"), or one from before it ("legacy").  Process ids are  *)
(* not reused.  The live update itself is the subject of DaemonHost.       *)
(***************************************************************************)
EXTENDS Naturals, FiniteSets

CONSTANTS Processes,  \* each started at most once
          Clients,    \* the commands
          OwnBudgets, \* what a history starts with and may do
          Noone

VARIABLES files, own, cmd, ownLeft
ownVars == <<files, own, cmd, ownLeft>>

NotStarted == [at |-> "absent", version |-> "cur", stalled |-> FALSE, term |-> FALSE,
               lapsed |-> FALSE, asked |-> FALSE, hit |-> {}]
Command(op) == [op |-> op, at |-> CASE op = "none" -> "failed" [] op = "start" -> "ping" [] OTHER -> op, id |-> Noone, seen |-> Noone, child |-> Noone,
                kill |-> FALSE, next |-> "ping", redial |-> op \in {"connect", "tui"}]
OwnLeft(f) == ownLeft[f] > 0 /\ ownLeft' = [ownLeft EXCEPT ![f] = @ - 1]

Up(d) == own[d].at \notin {"absent", "gone"}
Works(d) == ~own[d].stalled
Moves(c, step) == cmd' = [cmd EXCEPT ![c].at = step]
CommandFails(c) == Moves(c, "failed")

-----------------------------------------------------------------------------
\* A daemon process.  prepare takes the lock or gives up, replaces the sockets that a
\* predecessor left, and then writes the identity; accepting comes last.
takeLock(d) == /\ own[d].at = "boots" /\ Works(d)
               /\ IF files.lock = Noone
                  THEN files' = [files EXCEPT !.lock = d] /\ own' = [own EXCEPT ![d].at = "locked"]
                  ELSE own' = [own EXCEPT ![d].at = "gone"] /\ UNCHANGED files
               /\ UNCHANGED <<cmd, ownLeft>>

listenPrivate(d) == /\ own[d].at = "locked" /\ Works(d)
                    /\ files' = [files EXCEPT !.sock = d] /\ own' = [own EXCEPT ![d].at = "bound"]
                    /\ UNCHANGED <<cmd, ownLeft>>

prepare(d) == /\ own[d].at = "bound" /\ Works(d)
              /\ files' = [files EXCEPT !.ident = d] /\ own' = [own EXCEPT ![d].at = "named"]
              /\ UNCHANGED <<cmd, ownLeft>>
Run(d) == /\ own[d].at = "named" /\ Works(d) /\ own' = [own EXCEPT ![d].at = "serves"]
          /\ UNCHANGED <<files, cmd, ownLeft>>

\* A stop that was asked for, or a signal, closes the listeners, which removes the socket.
Closed(d) == /\ own' = [own EXCEPT ![d].at = "drains"] /\ files' = [files EXCEPT !.sock = Noone]
RunEnds(d) == /\ own[d].at = "serves" /\ own[d].term /\ Works(d) /\ Closed(d) /\ UNCHANGED <<cmd, ownLeft>>

\* cleanup removes the files and then releases the lock.
cleanup_Late(d) ==
    /\ Works(d) /\ UNCHANGED <<cmd, ownLeft>>
    /\ \/ own[d].at = "drains" /\ files' = [files EXCEPT !.lock = Noone] /\ own' = [own EXCEPT ![d].at = "clean"]
       \/ own[d].at = "clean" /\ files' = [files EXCEPT !.sock = Noone, !.ident = Noone] /\ own' = [own EXCEPT ![d].at = "gone"]
cleanup(d) ==
    /\ Works(d) /\ UNCHANGED <<cmd, ownLeft>>
    /\ \/ own[d].at = "drains" /\ files' = [files EXCEPT !.sock = Noone, !.ident = Noone] /\ own' = [own EXCEPT ![d].at = "clean"]
       \/ own[d].at = "clean" /\ files' = [files EXCEPT !.lock = Noone] /\ own' = [own EXCEPT ![d].at = "gone"]

\* A process that dies leaves its files; the kernel releases its lock.
Unlocked(d) == [files EXCEPT !.lock = IF @ = d THEN Noone ELSE @]
Crashes(d) == /\ Up(d) /\ OwnLeft("crash") /\ own' = [own EXCEPT ![d].at = "gone"] /\ files' = Unlocked(d) /\ UNCHANGED cmd
Stalls(d) == /\ Up(d) /\ Works(d) /\ OwnLeft("stall") /\ own' = [own EXCEPT ![d].stalled = TRUE] /\ UNCHANGED <<files, cmd>>
Resumes(d) == /\ Up(d) /\ ~Works(d) /\ own' = [own EXCEPT ![d].stalled = FALSE] /\ UNCHANGED <<files, cmd, ownLeft>>

-----------------------------------------------------------------------------
\* Dialing: the process behind the socket answers if it accepts and is of the version asked for.
Answers(d, v) == files.sock = d /\ own[d].at = "serves" /\ Works(d) /\ own[d].version = v
SocketAnswers(v) == \E d \in Processes : Answers(d, v)
\* A process of that version that holds the home and does not answer has lapsed.
Lapsed(v) == [d \in Processes |-> [own[d] EXCEPT !.lapsed = @ \/ (Up(d) /\ files.lock = d /\ ~Answers(d, v) /\ own[d].version = v)]]

Dial(c, v, yes, no) == IF SocketAnswers(v) THEN Moves(c, yes) /\ UNCHANGED own ELSE Moves(c, no) /\ own' = Lapsed(v)

\* The server's answer to daemon.stop: the listeners are closed before the reply.
Stop(c, d) == /\ files' = [files EXCEPT !.sock = Noone]
              /\ own' = [own EXCEPT ![d].at = "drains", ![d].asked = TRUE, ![d].hit = @ \cup {c}]

-----------------------------------------------------------------------------
\* daemonLockAvailable takes the lock to find out that it is free, and gives it back.
Probes(c, step) == /\ files.lock = Noone /\ files' = [files EXCEPT !.lock = c] /\ Moves(c, step)
                   /\ UNCHANGED <<own, ownLeft>>
Release(c, from, to) == /\ cmd[c].at = from /\ files.lock = c /\ files' = [files EXCEPT !.lock = Noone] /\ Moves(c, to)
                        /\ UNCHANGED <<own, ownLeft>>

\* startDaemon: ping, recover, ping again, spawn, and poll until the socket answers.
ping(c) == /\ cmd[c].at = "ping" /\ Dial(c, "cur", "failed", "recover") /\ UNCHANGED <<files, ownLeft>>

recoverDaemonBeforeStart(c) ==
    \/ cmd[c].at = "recover" /\ Probes(c, "free")
    \/ Release(c, "free", "again")
    \/ /\ cmd[c].at = "recover" /\ files.lock # Noone /\ Moves(c, "read") /\ UNCHANGED <<files, own, ownLeft>>
    \/ /\ cmd[c].at = "read" /\ UNCHANGED <<files, own, ownLeft>>
       /\ cmd' = [cmd EXCEPT ![c].id = files.ident, ![c].kill = files.ident # Noone, ![c].next = "again",
                             ![c].at = IF files.ident = Noone THEN "wait" ELSE "dial"]

\* The holder is asked by its own version: one that answers is left alone if it speaks the
\* operation protocol, and asked to stop if not.
dialIdentity(c) == /\ cmd[c].at = "dial" /\ LET v == own[cmd[c].id].version IN
                        Dial(c, v, IF v = "legacy" THEN "askLegacy" ELSE "failed", "wait")
                   /\ UNCHANGED <<files, ownLeft>>
stopLegacy(c) == /\ cmd[c].at = "askLegacy" /\ UNCHANGED ownLeft
                 /\ \/ \E d \in Processes : Answers(d, "legacy") /\ Stop(c, d) /\ Moves(c, "wait")
                    \/ ~SocketAnswers("legacy") /\ CommandFails(c) /\ UNCHANGED <<files, own>>

\* waitForDaemonShutdown polls the lock until its deadline, which passes while a process holds
\* the lock that is stalled or has no reason to end; else only in a slow history.
Deadline == \E d \in Processes : /\ files.lock = d
                                 /\ \/ (~Works(d) \/ (own[d].at = "serves" /\ ~own[d].term)) /\ UNCHANGED ownLeft
                                    \/ OwnLeft("slow")
waitForDaemonShutdown(c, at, free, next, late) ==
    \/ cmd[c].at = at /\ Probes(c, free)
    \/ Release(c, free, next)
    \/ cmd[c].at = at /\ Deadline /\ Moves(c, late) /\ UNCHANGED <<files, own>>

\* finishDaemonShutdown: an identified holder that outlives the deadline is terminated.
finishDaemonShutdown(c) ==
    \/ waitForDaemonShutdown(c, "wait", "waited", cmd[c].next, IF cmd[c].kill THEN "verify" ELSE "failed")
    \/ waitForDaemonShutdown(c, "last", "lasted", cmd[c].next, "failed")

Matches(c) == files.ident = cmd[c].id
Hit(c, d, f) == own' = [own EXCEPT ![d] = IF Up(d) THEN [f EXCEPT !.hit = @ \cup {c}] ELSE @]
terminateMatchingDaemon(c) ==
    \/ /\ cmd[c].at = "verify" /\ Moves(c, IF Matches(c) THEN "reprobe" ELSE "failed") /\ UNCHANGED <<files, own, ownLeft>>
    \/ cmd[c].at = "reprobe" /\ Probes(c, "reprobed")
    \/ Release(c, "reprobed", "last")
    \/ /\ cmd[c].at = "reprobe" /\ files.lock # Noone /\ Moves(c, "grace") /\ UNCHANGED <<files, ownLeft>>
       /\ Hit(c, cmd[c].id, [own[cmd[c].id] EXCEPT !.term = TRUE])
    \/ waitForDaemonShutdown(c, "grace", "graced", "last", "verifyAgain")
    \/ /\ cmd[c].at = "verifyAgain" /\ ~Matches(c) /\ CommandFails(c) /\ UNCHANGED <<files, own, ownLeft>>
    \/ /\ cmd[c].at = "verifyAgain" /\ Matches(c) /\ Moves(c, "last") /\ UNCHANGED ownLeft
       /\ Hit(c, cmd[c].id, [own[cmd[c].id] EXCEPT !.at = "gone"]) /\ files' = Unlocked(cmd[c].id)

NewProcess == CHOOSE d \in Processes : own[d].at = "absent"
spawn(c) ==
    \/ cmd[c].at = "again" /\ Dial(c, "cur", "failed", "spawn") /\ UNCHANGED <<files, ownLeft>>
    \/ /\ cmd[c].at = "spawn" /\ UNCHANGED <<files, ownLeft>>
       /\ own' = [own EXCEPT ![NewProcess].at = "boots"]
       /\ cmd' = [cmd EXCEPT ![c].at = "poll", ![c].child = NewProcess]

\* Ready when the socket answers, whoever is behind it; over when the child ended, or is
\* too slow and is killed.
startDaemon(c) == /\ cmd[c].at = "poll"
                  /\ \/ SocketAnswers("cur") /\ Moves(c, "ok") /\ UNCHANGED <<files, own, ownLeft>>
                     \/ own[cmd[c].child].at = "gone" /\ CommandFails(c) /\ UNCHANGED <<files, own, ownLeft>>
                     \/ /\ (~Works(cmd[c].child) /\ UNCHANGED ownLeft) \/ OwnLeft("slow")
                        /\ CommandFails(c) /\ files' = Unlocked(cmd[c].child)
                        /\ own' = [own EXCEPT ![cmd[c].child].at = "gone"]

\* A frontend that finds no daemon starts one and dials it.  An operation command dials again
\* whatever the start said, since another frontend may have won; the TUI only after success.
Redials(c) == /\ cmd[c].redial /\ cmd[c].at \in {"ok", "failed"}
              /\ cmd[c].op = "connect" \/ cmd[c].at = "ok"
ConnectFirst(c) ==
    /\ cmd[c].at \in {"connect", "tui"} /\ UNCHANGED <<files, ownLeft>>
    /\ IF SocketAnswers("cur") THEN cmd' = [cmd EXCEPT ![c].at = "ok", ![c].redial = FALSE] /\ UNCHANGED own
       ELSE Moves(c, "ping") /\ own' = Lapsed("cur")
ConnectAgain(c) ==
    /\ Redials(c) /\ UNCHANGED <<files, own, ownLeft>>
    /\ cmd' = [cmd EXCEPT ![c].at = IF SocketAnswers("cur") THEN "ok" ELSE "failed", ![c].redial = FALSE]

-----------------------------------------------------------------------------
\* stopDaemon stops whoever answers.
stopDaemon(c) == /\ cmd[c].at = "stop" /\ UNCHANGED ownLeft
                 /\ \/ \E d \in Processes : Answers(d, "cur") /\ Stop(c, d) /\ Moves(c, "ok")
                    \/ ~SocketAnswers("cur") /\ CommandFails(c) /\ UNCHANGED <<files, own>>

\* restartDaemon looks at the status, and stops the process that gave it: the request names it.
restartStop(c) == /\ cmd[c].at = "restartStop" /\ UNCHANGED ownLeft
                  /\ IF Answers(cmd[c].seen, "cur")
                     THEN /\ Stop(c, cmd[c].seen)
                          /\ cmd' = [cmd EXCEPT ![c].at = "wait", ![c].kill = TRUE, ![c].next = "ping"]
                     ELSE CommandFails(c) /\ UNCHANGED <<files, own>>
restartDaemon(c) ==
    \/ /\ cmd[c].at = "restart" /\ Dial(c, "cur", "status", "restartProbe") /\ UNCHANGED <<files, ownLeft>>
    \/ cmd[c].at = "restartProbe" /\ Probes(c, "restartFree")
    \/ Release(c, "restartFree", "ping")
    \/ cmd[c].at = "restartProbe" /\ files.lock # Noone /\ CommandFails(c) /\ UNCHANGED <<files, own, ownLeft>>
    \/ /\ cmd[c].at = "status" /\ UNCHANGED <<files, own, ownLeft>>
       /\ \/ \E d \in Processes : Answers(d, "cur") /\ cmd' = [cmd EXCEPT ![c].at = "restartStop", ![c].seen = d, ![c].id = d]
          \/ ~SocketAnswers("cur") /\ CommandFails(c)
    \/ restartStop(c)

\* updateDaemon dials by the identity on disk; a process that cannot hand over is restarted instead.
dialDaemonLifecycleClient(c) ==
    \/ /\ cmd[c].at = "update" /\ UNCHANGED <<files, own, ownLeft>>
       /\ cmd' = [cmd EXCEPT ![c].at = "updateDial", ![c].id = files.ident]
    \/ /\ cmd[c].at = "updateDial" /\ UNCHANGED <<files, ownLeft>>
       /\ LET v == IF cmd[c].id = Noone THEN "cur" ELSE own[cmd[c].id].version IN
          IF SocketAnswers(v) THEN Moves(c, IF v = "legacy" THEN "unsupported" ELSE "ok") /\ UNCHANGED own
          ELSE Dial(c, "cur", "ok", "failed")
restartAfterUnsupportedLegacyHandoff(c) ==
    \/ /\ cmd[c].at = "unsupported" /\ UNCHANGED <<files, own, ownLeft>>
       /\ cmd' = [cmd EXCEPT ![c].at = "updateStop", ![c].id = files.ident]
    \/ /\ cmd[c].at = "updateStop" /\ UNCHANGED ownLeft
       /\ \/ \E d \in Processes :
                /\ Answers(d, "legacy") /\ Stop(c, d)
                /\ cmd' = [cmd EXCEPT ![c].at = "wait", ![c].kill = TRUE, ![c].next = "ping",
                                      ![c].id = IF cmd[c].id = Noone THEN d ELSE @]
          \/ ~SocketAnswers("legacy") /\ CommandFails(c) /\ UNCHANGED <<files, own>>

-----------------------------------------------------------------------------
\* A home as earlier daemons left it: a live owner or none, and files that a dead one left.
OwnInit ==
    /\ ownLeft \in OwnBudgets
    /\ files = [lock |-> ownLeft.owner, sock |-> ownLeft.left, ident |-> ownLeft.left]
    /\ own = [d \in Processes |-> CASE d = ownLeft.owner -> [NotStarted EXCEPT !.at = "serves", !.version = ownLeft.version]
                                    [] d = ownLeft.left /\ d # ownLeft.owner -> [NotStarted EXCEPT !.at = "gone", !.version = ownLeft.version]
                                    [] OTHER -> NotStarted]
    /\ cmd = [c \in Clients |-> Command(ownLeft.asks[c])]

DaemonWork(d) == takeLock(d) \/ listenPrivate(d) \/ prepare(d) \/ Run(d) \/ RunEnds(d) \/ cleanup(d)
CommandWork(c) ==
    \/ ping(c) \/ recoverDaemonBeforeStart(c) \/ dialIdentity(c) \/ stopLegacy(c) \/ finishDaemonShutdown(c)
    \/ terminateMatchingDaemon(c) \/ spawn(c) \/ startDaemon(c) \/ ConnectFirst(c) \/ ConnectAgain(c)
    \/ stopDaemon(c) \/ restartDaemon(c)
    \/ dialDaemonLifecycleClient(c) \/ restartAfterUnsupportedLegacyHandoff(c)

OwnNext == \/ \E d \in Processes : DaemonWork(d) \/ Crashes(d) \/ Stalls(d) \/ Resumes(d)
           \/ \E c \in Clients : CommandWork(c)

\* Processes and commands run; a deadline passes; nothing obliges a stalled process to resume.
OwnFairness == /\ \A d \in Processes : WF_ownVars(DaemonWork(d))
               /\ \A c \in Clients : WF_ownVars(CommandWork(c))
OwnSpec == OwnInit /\ [][OwnNext]_ownVars /\ OwnFairness

-----------------------------------------------------------------------------
CommandEnded(c) == cmd[c].at \in {"ok", "failed"} /\ ~Redials(c)

\* The type invariant: the files name processes, only a probe holds the lock otherwise, and
\* the child a command waits for was started.
OwnTypeOK ==
    /\ files.lock \in Processes \cup Clients \cup {Noone} /\ {files.sock, files.ident} \subseteq Processes \cup {Noone}
    /\ \A d \in Processes : own[d].at \in {"absent", "boots", "locked", "bound", "named", "serves", "drains", "clean", "gone"}
    /\ \A c \in Clients : cmd[c].child # Noone => own[cmd[c].child].at # "absent"

\* A daemon that accepts requests holds the lock, is the one the socket leads to and the one
\* the identity file names: a predecessor removes the files before it releases the lock.
OneServer == \A d \in Processes : own[d].at = "serves" => files = [lock |-> d, sock |-> d, ident |-> d]

\* A command takes down the daemon it was pointed at and no other: a start only one that had
\* failed to answer, was already stopping or predates operations, a restart the one whose
\* status it read, never a successor that another command installed meanwhile.
SuccessorSpared == \A d \in Processes : \A c \in own[d].hit :
    cmd[c].op = "stop" \/ d = cmd[c].seen \/ own[d].lapsed \/ own[d].version = "legacy" \/ (own[d].asked /\ own[d].hit # {c})

\* Files that a dead daemon left never keep a lone start from succeeding.
LeftoversNeverBlock == ownLeft.alone => \A c \in Clients : cmd[c].op \in {"start", "restart"} => cmd[c].at # "failed"

\* However starts and restarts overlap, with nothing failing and nobody stopping the daemon, one
\* serves in the end: a probe that another start collides with belongs to a command that goes on.
SomebodyServes == ownLeft.calm /\ (\A c \in Clients : CommandEnded(c)) /\ (\A d \in Processes : own[d].at \in {"absent", "serves", "gone"}) =>
                      \E d \in Processes : own[d].at = "serves"

\* Every command returns: a daemon that neither answers nor ends is waited for up to a deadline.
CommandsReturn == <>[](\A c \in Clients : CommandEnded(c))

\* One daemon owns a home, and the commands that start and stop it take no other one down.
OneDaemon == OwnTypeOK /\ OneServer /\ SuccessorSpared /\ LeftoversNeverBlock /\ SomebodyServes

=============================================================================
