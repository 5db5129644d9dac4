---------------------------- MODULE ProcessControl ----------------------------
(***************************************************************************)
(* The command line of vikhry: commands that start and stop servers (the   *)
(* orchestrator and the workers) and the Redis container.  The commands    *)
(* share nothing but the file system, the process table and Docker, so     *)
(* whatever two of them look at can change before they act on it.  A       *)
(* server and the command that spawned it meet in a pid file: the server   *)
(* writes it, the command waits until it names a live process.             *)
(***************************************************************************)
EXTENDS Integers, FiniteSets, FiniteSetsExt

CONSTANTS
    Cli,      \* invocations of the command line, one command each
    NoCli,    \* parent of a server started in the foreground of a shell
    MayRun,   \* which commands each of them may be
    Workers,  \* worker_count of infra up
    MaxPid,   \* bound: servers ever spawned; pids are not reused
    MaxEvents \* bound: events that no command causes, see Event

NoPid == 0
Pid   == 1 .. MaxPid
Slot  == 0 .. Workers   \* the pid files (--pid-file): orchestrator.pid, worker-{n}.pid

RedisOp == {"redis start", "redis stop", "redis restart"}
Op      == RedisOp \union {"none", "start", "stop", "force stop", "up", "down"}

ASSUME ProcessControlAssumption ==
    /\ NoCli \notin Cli
    /\ MayRun \in [Cli -> SUBSET Op]
    /\ Workers \in Nat \ {0}
    /\ MaxPid \in Nat /\ MaxEvents \in Nat

\* Where a command is; "ended" and "interrupted" (by the operator) are final.
Point == {"idle", "precheck", "unlink stale", "inspect", "run", "boot", "ready",
          "ensure", "unlink dead", "spawn", "await", "abort", "next", "read",
          "drop", "signal", "wait", "forget", "unlink", "remove", "rm",
          "ended", "interrupted"}

\* A server on its way through _run_*_foreground; one that is killed has SIGKILL
\* on its way and is still a process; a zombie has ended and has not been waited
\* for by the command that spawned it.
Starting == {"check", "open", "write"}
Running  == Starting \union {"serve", "cleanup", "unlink"}
Status   == Running \union {"none", "killed", "zombie", "gone"}

VARIABLES
    file,     \* what each pid file says: a pid, or NoPid when absent or empty
    writers,  \* servers that have the present pid file open and have not written
    server,   \* per pid: status, pid file, and the command that spawned it
    redis,    \* state of the container vikhry-redis-infra
    redisBy,  \* whose docker run created it
    cmd,      \* per command: what it does, where it is, its locals
    events,   \* how much of MaxEvents is used up
    clean,    \* history: pid files on which no two steps have raced, see Racing
    found,    \* history: servers that ran when each stop or infra down began
    missed    \* history: children for which a command took another server, see Started

vars == <<file, writers, server, redis, redisBy, cmd, events, clean, found, missed>>

NoServer(st) == [status |-> st, slot |-> 0, parent |-> NoCli]

NoCommand(point, ok) ==
    [op |-> "none", point |-> point, at |-> 0, pid |-> NoPid, level |-> 0,
     todo |-> {}, mine |-> FALSE, ok |-> ok]

Command == [op: Op, point: Point,
            at: Slot,               \* the pid file it deals with
            pid: Pid \union {NoPid},\* the child, or the process to stop
            level: 0 .. 3,          \* SIGINT, SIGTERM, SIGKILL sent so far
            todo: SUBSET Slot,      \* up: servers started; down: files to visit
            mine: BOOLEAN,          \* up: redis_started
            ok: BOOLEAN]            \* no failure so far; at the end, the exit code

TypeOK ==
    /\ file \in [Slot -> Pid \union {NoPid}]
    /\ writers \in [Slot -> SUBSET Pid]
    /\ server \in [Pid -> [status: Status, slot: Slot, parent: Cli \union {NoCli}]]
    /\ redis \in {"none", "created", "running", "exited"}
    /\ redisBy \in Cli \union {NoCli}
    /\ cmd \in [Cli -> Command]
    /\ events \in 0 .. MaxEvents
    /\ clean \subseteq Slot
    /\ found \in [Cli -> SUBSET Pid]
    /\ missed \subseteq Pid

Init ==
    /\ file = [s \in Slot |-> NoPid]
    /\ writers = [s \in Slot |-> {}]
    /\ server = [p \in Pid |-> NoServer("none")]
    /\ redis = "none"
    /\ redisBy = NoCli
    /\ cmd = [c \in Cli |-> NoCommand("idle", TRUE)]
    /\ events = 0
    /\ clean = Slot
    /\ found = [c \in Cli |-> {}]
    /\ missed = {}

-----------------------------------------------------------------------------
\* The process table and the pid files

In(p, statuses) == server[p].status \in statuses
Runs(p) == In(p, Running)

\* _is_process_alive: kill 0 succeeds on a zombie too, and a process of another
\* user that refuses it counts as alive.
IsProcessAlive(p) == p # NoPid /\ In(p, Running \union {"killed", "zombie"})

Active(c) == cmd[c].point \notin {"idle", "ended", "interrupted"}

\* What is left of a server that ends.
Ended(p) == IF server[p].parent \in Cli /\ Active(server[p].parent)
            THEN "zombie" ELSE "gone"

SetStatus(p, st) ==
    server' = [server EXCEPT ![p] = IF st = "gone" THEN NoServer(st)
                                    ELSE [@ EXCEPT !.status = st]]

\* The zombies of c are waited for: at its next Popen, or by init at its end.
Reaped(c) == [p \in Pid |-> IF server[p].parent = c /\ server[p].status = "zombie"
                            THEN NoServer("gone") ELSE server[p]]

\* A pid file is unlinked; who has it open writes to nowhere.
Unlinked(s) ==
    /\ file' = [file EXCEPT ![s] = NoPid]
    /\ writers' = [writers EXCEPT ![s] = {}]

Exists(s) == file[s] # NoPid \/ writers[s] # {}

At(c, points) == cmd[c].point \in points
GoTo(c, point) == cmd' = [cmd EXCEPT ![c].point = point]

\* The command exits; its zombies are inherited and waited for by init.
Exit(c, ok) ==
    /\ cmd' = [cmd EXCEPT ![c] = NoCommand("ended", ok)]
    /\ server' = Reaped(c)

fileVars  == <<file, writers>>
redisVars == <<redis, redisBy>>

-----------------------------------------------------------------------------
\* Commands begin

Begin(c, o, s, point) ==
    /\ At(c, {"idle"})
    /\ o \in MayRun[c]
    /\ cmd' = [cmd EXCEPT ![c].op = o, ![c].at = s, ![c].point = point]
    /\ UNCHANGED <<fileVars, server, redisVars>>

OrchestratorStart(c) == Begin(c, "start", 0, "ensure")
WorkerStart(c)       == \E s \in 1 .. Workers : Begin(c, "start", s, "ensure")
OrchestratorStop(c)  == \E o \in {"stop", "force stop"} : Begin(c, o, 0, "read")
WorkerStop(c)        == \E o \in {"stop", "force stop"}, s \in 1 .. Workers :
                            Begin(c, o, s, "read")
InfraUp(c)           == Begin(c, "up", 0, "precheck")
RedisStart(c)        == Begin(c, "redis start", 0, "inspect")
RedisStop(c)         == Begin(c, "redis stop", 0, "inspect")
RedisRestart(c)      == Begin(c, "redis restart", 0, "inspect")

\* The worker files are listed once, at the beginning; the orchestrator is last.
InfraDown(c) ==
    /\ At(c, {"idle"})
    /\ "down" \in MayRun[c]
    /\ cmd' = [cmd EXCEPT ![c].op = "down", ![c].point = "next",
                          ![c].todo = {0} \union { s \in 1 .. Workers : Exists(s) }]
    /\ UNCHANGED <<fileVars, server, redisVars>>

\* The operator interrupts a command: no branch of it cleans up (infra up
\* handles typer.Exit alone), and its children, in sessions of their own, live on.
Interrupt(c) ==
    /\ Active(c)
    /\ cmd' = [cmd EXCEPT ![c] = NoCommand("interrupted", FALSE)]
    /\ server' = Reaped(c)
    /\ UNCHANGED <<fileVars, redisVars>>

-----------------------------------------------------------------------------
\* infra up before it starts anything

\* On to the next pid file, or to Docker; the orchestrator is started first.
Prechecked(c) ==
    cmd' = [cmd EXCEPT ![c] = IF @.at < Workers
                              THEN [@ EXCEPT !.at = cmd[c].at + 1, !.point = "precheck"]
                              ELSE [@ EXCEPT !.at = 0, !.point = "inspect"]]

\* Nothing may run under the pid files of the infrastructure: first the
\* orchestrator's, then the workers', a stale file is removed on the way.
Precheck(c) ==
    LET s == cmd[c].at
    IN  /\ At(c, {"precheck"})
        /\ \/ IsProcessAlive(file[s]) /\ Exit(c, FALSE)
           \/ /\ ~IsProcessAlive(file[s]) /\ Exists(s) /\ (s = 0 => file[s] # NoPid)
              /\ GoTo(c, "unlink stale") /\ UNCHANGED server
           \/ /\ file[s] = NoPid /\ (s = 0 \/ ~Exists(s))
              /\ Prechecked(c) /\ UNCHANGED server
        /\ UNCHANGED <<fileVars, redisVars>>

UnlinkStale(c) ==
    /\ At(c, {"unlink stale"})
    /\ Unlinked(cmd[c].at)
    /\ Prechecked(c)
    /\ UNCHANGED <<server, redisVars>>

\* docker info and docker container inspect; Docker may be unavailable.
Inspect(c) ==
    LET replaces == cmd[c].op \in {"redis stop", "redis restart"}
    IN  /\ At(c, {"inspect"})
        /\ \/ Exit(c, FALSE)
           \/ redis = "none" /\ cmd[c].op = "redis stop" /\ Exit(c, TRUE)
           \/ redis = "none" /\ cmd[c].op # "redis stop" /\ GoTo(c, "run") /\ server' = Reaped(c)
           \/ /\ redis \in {"created", "exited"} \/ (redis = "running" /\ replaces)
              /\ GoTo(c, "remove") /\ server' = Reaped(c)
           \/ redis = "running" /\ ~replaces /\ Exit(c, cmd[c].op = "redis start")
        /\ UNCHANGED <<fileVars, redisVars>>

\* A failed step of infra up: what was started is stopped, last first.
Fail(c) ==
    IF cmd[c].op = "up"
    THEN /\ cmd' = [cmd EXCEPT ![c].point = "next", ![c].ok = FALSE,
                               ![c].pid = NoPid, ![c].level = 0]
         /\ server' = Reaped(c)
    ELSE Exit(c, FALSE)

\* docker run: the name is taken, or the container is created ...
DockerRun(c) ==
    /\ At(c, {"run"})
    /\ IF redis # "none" THEN Fail(c) /\ UNCHANGED redisVars
       ELSE /\ redis' = "created" /\ redisBy' = c
            /\ GoTo(c, "boot") /\ server' = Reaped(c)
    /\ UNCHANGED fileVars

\* ... and started, unless somebody removed it or its port is taken.
DockerBoot(c) ==
    /\ At(c, {"boot"})
    /\ \/ /\ redis = "created" /\ redisBy = c
          /\ redis' = "running"
          /\ cmd' = [cmd EXCEPT ![c].point = "ready", ![c].mine = TRUE]
          /\ UNCHANGED server
       \/ Fail(c) /\ UNCHANGED redis
    /\ UNCHANGED <<fileVars, redisBy>>

WaitForRedisReady(c) ==
    /\ At(c, {"ready"})
    /\ \/ /\ redis = "running"
          /\ IF cmd[c].op = "up" THEN GoTo(c, "ensure") /\ UNCHANGED server
             ELSE Exit(c, TRUE)
       \/ Fail(c)
    /\ UNCHANGED <<fileVars, redisVars>>

\* Only redis stop asks whether the container was removed.
Removed(c, removed) ==
    IF cmd[c].op \in {"redis start", "redis restart"} \/ (cmd[c].op = "up" /\ cmd[c].ok)
    THEN GoTo(c, "run") /\ server' = Reaped(c)
    ELSE Exit(c, IF cmd[c].op = "redis stop" THEN removed ELSE cmd[c].ok)

\* _remove_infra_redis_container: there may be nothing to remove, or Docker fails ...
InspectForRemoval(c) ==
    /\ At(c, {"remove"})
    /\ \/ redis # "none" /\ GoTo(c, "rm") /\ server' = Reaped(c)
       \/ Removed(c, FALSE)
    /\ UNCHANGED <<fileVars, redisVars>>

\* ... docker rm --force removes by name, and may fail with or without effect.
DockerRemove(c) ==
    /\ At(c, {"rm"})
    /\ \E removed \in BOOLEAN :
        /\ Removed(c, removed)
        /\ \/ redis' = "none" /\ redisBy' = NoCli
           \/ ~removed /\ UNCHANGED redisVars
    /\ UNCHANGED fileVars

\* The Redis server exits on its own.
RedisExits ==
    /\ redis = "running"
    /\ redis' = "exited"
    /\ UNCHANGED <<fileVars, server, redisBy, cmd>>

-----------------------------------------------------------------------------
\* _start_detached_process_or_exit

\* _ensure_no_active_*_or_exit
EnsureNotRunning(c) ==
    LET q == file[cmd[c].at]
    IN  /\ At(c, {"ensure"})
        /\ IF IsProcessAlive(q) THEN Fail(c)
           ELSE GoTo(c, IF q = NoPid THEN "spawn" ELSE "unlink dead") /\ UNCHANGED server
        /\ UNCHANGED <<fileVars, redisVars>>

UnlinkDead(c) ==
    /\ At(c, {"unlink dead"})
    /\ Unlinked(cmd[c].at)
    /\ GoTo(c, "spawn")
    /\ UNCHANGED <<server, redisVars>>

\* A new server on pid file s; pids are given out in order.
Spawned(table, s, parent) ==
    LET p == Min({ q \in Pid : table[q].status = "none" })
    IN  [table EXCEPT ![p] = [status |-> "check", slot |-> s, parent |-> parent]]

FreePid == { q \in Pid : server[q].status = "none" }

\* Popen, which waits for the zombies of this command first; or it raises.
Spawn(c) ==
    /\ At(c, {"spawn"})
    /\ \/ /\ FreePid # {}
          /\ server' = Spawned(Reaped(c), cmd[c].at, c)
          /\ cmd' = [cmd EXCEPT ![c].point = "await", ![c].pid = Min(FreePid)]
       \/ Fail(c)
    /\ UNCHANGED <<fileVars, redisVars>>

\* The pid file names a live process, whichever: the server counts as started.
Started(c) ==
    LET s == cmd[c].at
    IN  /\ At(c, {"await"})
        /\ IsProcessAlive(file[s])
        /\ IF cmd[c].op = "start" \/ s = Workers
           THEN Exit(c, TRUE)
           ELSE /\ cmd' = [cmd EXCEPT ![c].point = "ensure", ![c].at = s + 1,
                                      ![c].pid = NoPid, ![c].todo = @ \union {s}]
                /\ UNCHANGED server
        /\ UNCHANGED <<fileVars, redisVars>>

\* The child has ended, or startup_timeout_s has passed.
GiveUp(c) ==
    /\ At(c, {"await"})
    /\ GoTo(c, "abort")
    /\ UNCHANGED <<fileVars, server, redisVars>>

\* What a signal makes of a server: SIGINT and SIGTERM end it at once, make it
\* leave through its finally, or come to nothing for now; SIGKILL lets it take no
\* further step, and it is gone some time later.
Delivered(p, level) ==
    IF ~Runs(p) THEN {server[p].status}
    ELSE IF level = 2 THEN {"killed"}
    ELSE {Ended(p), server[p].status}
         \union (IF server[p].status = "serve" THEN {"cleanup"} ELSE {})

\* os.kill may be refused, unless the process is a child: it is another user's.
MayRefuse(c, p) == server[p].parent # c

Signalled(c, p, level) ==
    Delivered(p, level) \union (IF MayRefuse(c, p) THEN {server[p].status} ELSE {})

\* Mutant: no SIGKILL at the end.
AbortPolitely(c) ==
    LET p == cmd[c].pid
    IN  /\ At(c, {"abort"})
        /\ IF Runs(p) /\ cmd[c].level < 2
           THEN /\ \E st \in Signalled(c, p, cmd[c].level) : SetStatus(p, st)
                /\ cmd' = [cmd EXCEPT ![c].level = @ + 1]
           ELSE Fail(c)
        /\ UNCHANGED <<fileVars, redisVars>>

\* The child is signalled while poll() finds it running: SIGINT, SIGTERM, SIGKILL.
Abort(c) ==
    LET p == cmd[c].pid
    IN  /\ At(c, {"abort"})
        /\ IF Runs(p) /\ cmd[c].level < 3
           THEN /\ \E st \in Signalled(c, p, cmd[c].level) : SetStatus(p, st)
                /\ cmd' = [cmd EXCEPT ![c].level = @ + 1]
           ELSE Fail(c)
        /\ UNCHANGED <<fileVars, redisVars>>

-----------------------------------------------------------------------------
\* orchestrator stop, worker stop, infra down and the cleanup of infra up

\* The next pid file: up stops the last worker first, down the first; the
\* orchestrator comes last, the container after it.
NextToStop(c) ==
    LET left == cmd[c].todo \ {0}
    IN  /\ At(c, {"next"})
        /\ IF cmd[c].todo # {}
           THEN LET s == IF left = {} THEN 0
                         ELSE IF cmd[c].op = "up" THEN Max(left) ELSE Min(left)
                IN  /\ cmd' = [cmd EXCEPT ![c].at = s, ![c].todo = @ \ {s},
                                          ![c].point = "read"]
                    /\ UNCHANGED server
           ELSE IF cmd[c].op = "down" \/ cmd[c].mine
           THEN cmd' = [cmd EXCEPT ![c].point = "remove", ![c].at = 0] /\ UNCHANGED server
           ELSE Exit(c, FALSE)
        /\ UNCHANGED <<fileVars, redisVars>>

Single(c) == cmd[c].op \in {"stop", "force stop"}

\* One pid file is done with: stop exits, infra down counts the workers it
\* failed on, the cleanup of infra up goes on.
StopReturns(c, stopped, exists) ==
    IF Single(c) THEN Exit(c, stopped)
    ELSE /\ cmd' = [cmd EXCEPT ![c].point = "next", ![c].pid = NoPid, ![c].level = 0,
                               ![c].ok = @ /\ (stopped \/ cmd[c].at = 0 \/ ~exists)]
         /\ UNCHANGED server

\* Whose pid is it, and is it alive?  A file without a pid is dropped.
ReadPid(c) ==
    LET q == file[cmd[c].at]
    IN  /\ At(c, {"read"})
        /\ IF q = NoPid
           THEN IF Single(c) THEN Exit(c, FALSE) ELSE GoTo(c, "drop") /\ UNCHANGED server
           ELSE /\ UNCHANGED server
                /\ cmd' = [cmd EXCEPT ![c].pid = q,
                           ![c].point = IF IsProcessAlive(q) THEN "signal" ELSE "forget",
                           ![c].ok = IF Single(c) THEN IsProcessAlive(q) ELSE @]
        /\ UNCHANGED <<fileVars, redisVars>>

DropFile(c) ==
    /\ At(c, {"drop"})
    /\ Unlinked(cmd[c].at)
    /\ StopReturns(c, FALSE, FALSE)
    /\ UNCHANGED redisVars

\* Only infra down, infra up and stop --force go as far as SIGKILL; the latter
\* does not wait for its effect, and fails when os.kill does.
SendSignal(c) ==
    LET p == cmd[c].pid
        kills == Single(c) /\ cmd[c].level = 2
    IN  /\ At(c, {"signal"})
        /\ \/ kills /\ (MayRefuse(c, p) \/ ~IsProcessAlive(p)) /\ Exit(c, FALSE)
           \/ /\ kills /\ IsProcessAlive(p)
              /\ \E st \in Delivered(p, 2) : SetStatus(p, st)
              /\ cmd' = [cmd EXCEPT ![c].level = 0, ![c].point = "forget"]
           \/ /\ ~kills
              /\ \E st \in Signalled(c, p, cmd[c].level) : SetStatus(p, st)
              /\ cmd' = [cmd EXCEPT ![c].level = @ + 1, ![c].point = "wait"]
        /\ UNCHANGED <<fileVars, redisVars>>

\* Mutant: when the time is up the process counts as stopped.
TakesTimeoutForExit(c) ==
    /\ At(c, {"wait"})
    /\ GoTo(c, "forget")
    /\ UNCHANGED <<fileVars, server, redisVars>>

\* The process is found dead, or the time for this signal is up.
WaitForExit(c) ==
    LET last == IF cmd[c].op = "stop" THEN 2 ELSE 3
    IN  /\ At(c, {"wait"})
        /\ IF ~IsProcessAlive(cmd[c].pid)
           THEN /\ cmd' = [cmd EXCEPT ![c].point = "forget", ![c].level = 0]
                /\ UNCHANGED server
           ELSE IF cmd[c].level < last THEN GoTo(c, "signal") /\ UNCHANGED server
           ELSE StopReturns(c, FALSE, Exists(cmd[c].at))
        /\ UNCHANGED <<fileVars, redisVars>>

\* _remove_pid_file_if_matches reads the file once more ...
Forget(c) ==
    /\ At(c, {"forget"})
    /\ IF file[cmd[c].at] = cmd[c].pid THEN GoTo(c, "unlink") /\ UNCHANGED server
       ELSE StopReturns(c, cmd[c].ok \/ ~Single(c), FALSE)
    /\ UNCHANGED <<fileVars, redisVars>>

\* ... and unlinks whatever it has become.
Unlink(c) ==
    /\ At(c, {"unlink"})
    /\ Unlinked(cmd[c].at)
    /\ StopReturns(c, cmd[c].ok \/ ~Single(c), FALSE)
    /\ UNCHANGED redisVars

-----------------------------------------------------------------------------
\* The servers: _run_orchestrator_foreground and _run_worker_foreground

\* start --foreground and the hidden serve command, in somebody's shell.
Serve(s) ==
    /\ FreePid # {}
    /\ server' = Spawned(server, s, NoCli)
    /\ UNCHANGED <<fileVars, redisVars, cmd>>

OrchestratorServe == Serve(0)
WorkerServe       == \E s \in 1 .. Workers : Serve(s)

\* Mutant: the file is written whoever it names.
OverwritesPidFile(p) ==
    /\ In(p, {"check"})
    /\ SetStatus(p, "open")
    /\ UNCHANGED <<fileVars, redisVars, cmd>>

\* _write_*_pid_file_or_exit: nobody alive may be named ...
CheckPidFile(p) ==
    /\ In(p, {"check"})
    /\ SetStatus(p, IF IsProcessAlive(file[server[p].slot]) THEN Ended(p) ELSE "open")
    /\ UNCHANGED <<fileVars, redisVars, cmd>>

\* ... then write_text truncates the file, creating it if need be ...
OpenPidFile(p) ==
    LET s == server[p].slot
    IN  /\ In(p, {"open"})
        /\ file' = [file EXCEPT ![s] = NoPid]
        /\ writers' = [writers EXCEPT ![s] = @ \union {p}]
        /\ SetStatus(p, "write")
        /\ UNCHANGED <<redisVars, cmd>>

\* ... and writes the pid, into the file it opened.
WritePidFile(p) ==
    LET s == server[p].slot
    IN  /\ In(p, {"write"})
        /\ file' = [file EXCEPT ![s] = IF p \in writers[s] THEN p ELSE @]
        /\ writers' = [writers EXCEPT ![s] = @ \ {p}]
        /\ SetStatus(p, "serve")
        /\ UNCHANGED <<redisVars, cmd>>

\* run_orchestrator or run_worker returns or raises: the finally branch.
ServerReturns(p) ==
    /\ In(p, {"serve"})
    /\ SetStatus(p, "cleanup")
    /\ UNCHANGED <<fileVars, redisVars, cmd>>

RemoveOwnFile(p) ==
    /\ In(p, {"cleanup"})
    /\ SetStatus(p, IF file[server[p].slot] = p THEN "unlink" ELSE Ended(p))
    /\ UNCHANGED <<fileVars, redisVars, cmd>>

UnlinkOwnFile(p) ==
    /\ In(p, {"unlink"})
    /\ Unlinked(server[p].slot)
    /\ SetStatus(p, Ended(p))
    /\ UNCHANGED <<redisVars, cmd>>

\* SIGKILL takes its effect: the pid file stays.
Dies(p) ==
    /\ In(p, {"killed"})
    /\ SetStatus(p, Ended(p))
    /\ UNCHANGED <<fileVars, redisVars, cmd>>

\* A server is killed from elsewhere.
ServerCrash(p) ==
    /\ Runs(p)
    /\ SetStatus(p, Ended(p))
    /\ UNCHANGED <<fileVars, redisVars, cmd>>

-----------------------------------------------------------------------------
BeginSome(c) ==
    \/ OrchestratorStart(c) \/ WorkerStart(c) \/ OrchestratorStop(c) \/ WorkerStop(c)
    \/ InfraUp(c) \/ InfraDown(c)
    \/ RedisStart(c) \/ RedisStop(c) \/ RedisRestart(c)

Step(c) ==
    \/ Precheck(c) \/ UnlinkStale(c) \/ Inspect(c) \/ DockerRun(c) \/ DockerBoot(c)
    \/ WaitForRedisReady(c) \/ InspectForRemoval(c) \/ DockerRemove(c)
    \/ EnsureNotRunning(c) \/ UnlinkDead(c) \/ Spawn(c) \/ Started(c) \/ GiveUp(c)
    \/ Abort(c) \/ NextToStop(c) \/ ReadPid(c) \/ DropFile(c) \/ SendSignal(c)
    \/ WaitForExit(c) \/ Forget(c) \/ Unlink(c)

ServerStep(p) ==
    \/ CheckPidFile(p) \/ OpenPidFile(p) \/ WritePidFile(p)
    \/ RemoveOwnFile(p) \/ UnlinkOwnFile(p) \/ Dies(p)

\* A server is started or ends, a command is interrupted or Redis exits, and no
\* command is the reason.
Event ==
    /\ events < MaxEvents
    /\ events' = events + 1
    /\ \/ OrchestratorServe \/ WorkerServe
       \/ \E p \in Pid : ServerReturns(p) \/ ServerCrash(p)
       \/ \E c \in Cli : Interrupt(c)
       \/ RedisExits

Act ==
    /\ \/ \E c \in Cli : BeginSome(c) \/ Step(c)
       \/ \E p \in Pid : ServerStep(p)
    /\ UNCHANGED events

\* The two races there are on a pid file: two servers start up at once, or one
\* does while a command that has found the file stale or empty is to unlink it.
Racing(s) ==
    LET up == { p \in Pid : server[p].slot = s /\ In(p, Starting) }
    IN  \/ Cardinality(up) > 1
        \/ /\ up # {}
           /\ \E c \in Cli : /\ cmd[c].at = s
                             /\ At(c, {"unlink stale", "unlink dead", "drop", "unlink"})

\* The pid files a command is about to stop servers of.
ToStop(c) == IF cmd[c].op = "down" THEN Slot ELSE IF Single(c) THEN {cmd[c].at} ELSE {}

\* A start-up is about to be reported of which the child has no part.
Mistakes(c, p) ==
    /\ At(c, {"await"}) /\ cmd[c].pid = p
    /\ cmd'[c].point \notin {"await", "abort", "interrupted"}
    /\ file[cmd[c].at] # p

Remember ==
    /\ clean' = clean \ { s \in Slot : Racing(s)' }
    /\ found' = [c \in Cli |->
                    IF ~Active(c)' THEN {}
                    ELSE IF Active(c) THEN found[c]
                    ELSE { p \in Pid : In(p, {"serve"}) /\ server[p].slot \in ToStop(c)' }]
    /\ missed' = { p \in Pid : Runs(p)' /\ (p \in missed \/ \E c \in Cli : Mistakes(c, p)) }

Next == (Act \/ Event) /\ Remember

Spec == Init /\ [][Next]_vars

-----------------------------------------------------------------------------
\* Properties

(***************************************************************************)
(* Each server that has come up is the one its pid file names, so stop     *)
(* reaches it and there are no two, unless two start-ups, or a start-up    *)
(* and an unlink, have raced on that file.  Crashed servers, stale files,  *)
(* start-ups that time out and interrupted commands are all included.  The *)
(* state is well typed: no more signals are sent than there are.           *)
(***************************************************************************)
NamedByItsFile ==
    /\ TypeOK
    /\ \A p \in Pid : In(p, {"serve"}) /\ server[p].slot \in clean => file[server[p].slot] = p

EndsNow(c) == Active(c) /\ cmd'[c].point = "ended"

\* Docker does not remove a container that is there.
Refuses(c) == At(c, {"remove", "rm"}) /\ redis # "none" /\ UNCHANGED redis

(***************************************************************************)
(* An infra up that fails leaves nothing behind that it started, wherever  *)
(* it fails and whatever other commands do: no server that takes a further *)
(* step, on a file without a race, and no container once its docker run    *)
(* has succeeded.  There are two exceptions: children it has taken for     *)
(* started because the pid file named another live server, see Started,    *)
(* and a container that Docker did not remove when asked to at the end.    *)
(***************************************************************************)
FailedUpLeavesNothing ==
    [][\A c \in Cli : EndsNow(c) /\ cmd[c].op = "up" /\ ~cmd'[c].ok =>
          /\ \A p \in Pid \ missed' :
                Runs(p)' /\ server'[p].slot \in clean' => server'[p].parent # c
          /\ cmd[c].mine => redisBy' # c \/ Refuses(c)]_vars

(***************************************************************************)
(* A stop or an infra down that reports success has stopped every server   *)
(* that was up when it began, also when others stop or start meanwhile: it *)
(* is over, or SIGKILL is on its way.  infra down answers for the workers  *)
(* only: that the orchestrator has outlived it does not make it fail.      *)
(***************************************************************************)
SuccessMeansStopped ==
    [][\A c \in Cli : EndsNow(c) /\ cmd'[c].ok =>
          \A p \in found[c] :
              server[p].slot \in clean /\ (cmd[c].op = "down" => server[p].slot # 0)
                  => ~Runs(p)']_vars
=============================================================================
