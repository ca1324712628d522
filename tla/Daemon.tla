------------------------------- MODULE Daemon -------------------------------
(***************************************************************************)
(* The MCP daemon and the three commands that manage it (canonic mcp start, *)
(* stop, status): src/canonic/mcp/daemon.py, src/canonic/cli/commands/mcp.py *)
(*                                                                         *)
(* A command is a process of its own and talks to the daemon through three *)
(* things only: the state file .canonic/mcp.json, signals to the pid it    *)
(* names, and the TCP port.  Reading the file, asking whether the pid is   *)
(* alive and removing the file are separate steps, as in the code.         *)
(*                                                                         *)
(* External (the operating system and uvicorn): a process that binds a     *)
(* held port exits; a serving process that gets SIGTERM keeps its socket   *)
(* until its loop notices (drain), then answers what is in flight          *)
(* (closing), then exits; a booting one dies of SIGTERM at once.           *)
(***************************************************************************)
EXTENDS Integers, FiniteSets

CONSTANTS
    Commands,       \* command slots: more than one means concurrent commands
    Pids,           \* process ids, each used for one process of the model
    NoPid,          \* the pid of a state file that is absent or malformed
    MaxVersion,     \* bound: upgrades of the CLI
    MayInterrupt,   \* a start command may be killed while it waits
    MayForeground   \* someone may run `mcp start --foreground` as well

ASSUME DaemonAssumption ==
    /\ NoPid \notin Pids
    /\ MaxVersion \in Nat \ {0}

VARIABLES
    proc,      \* [Pids -> where the process stands]
    kind,      \* [Pids -> a start command's child, one whose command was killed
               \*  under it, or a --foreground server]
    state,     \* mcp.json: [pid, version]
    version,   \* the installed CLI version
    pc,        \* [Commands -> where the command stands]
    cmd,       \* [Commands -> which command it is]
    seen,      \* [Commands -> the state file the command read]
    child      \* [Commands -> the process a start command spawned]

vars == <<proc, kind, state, version, pc, cmd, seen, child>>
osVars == <<proc, kind>>
cmdVars == <<pc, cmd, seen, child>>

NoState == [pid |-> NoPid, version |-> 0]
Held(p) == proc[p] \in {"listen", "drain"}
PortHeld == \E p \in Pids : Held(p)
PidAlive(p) == proc[p] \notin {"free", "gone"}

Init ==
    /\ proc = [p \in Pids |-> "free"]
    /\ kind = [p \in Pids |-> "child"]
    /\ state = NoState
    /\ version = 1
    /\ pc = [c \in Commands |-> "idle"]
    /\ cmd = [c \in Commands |-> "status"]
    /\ seen = [c \in Commands |-> NoState]
    /\ child = [c \in Commands |-> NoPid]

-----------------------------------------------------------------------------
(* The commands.                                                            *)

\* mcp start exits before it looks at a daemon when the options contradict
\* each other, the project does not load, or http has no auth mechanism.
RefuseEarly(c) ==
    /\ pc[c] = "idle"
    /\ pc' = [pc EXCEPT ![c] = "failed"]
    /\ cmd' = [cmd EXCEPT ![c] = "start"]
    /\ UNCHANGED <<osVars, state, version, seen, child>>

\* read_state: every command starts from the file as it is now.
ReadState(c, k) ==
    /\ pc[c] = "idle"
    /\ cmd' = [cmd EXCEPT ![c] = k]
    /\ seen' = [seen EXCEPT ![c] = state]
    /\ pc' = [pc EXCEPT ![c] = "judge"]
    /\ UNCHANGED <<osVars, state, version, child>>

\* A file is stale when its pid is gone; whoever notices removes the file.
Stale(c) == seen[c] # NoState /\ ~PidAlive(seen[c].pid)
Running(c) == seen[c] # NoState /\ PidAlive(seen[c].pid)
AfterJudge(c) ==
    CASE cmd[c] = "start" -> "cleared"
      [] cmd[c] = "stdio" -> "serving"
      [] OTHER -> "done"

\* status() of a project without a live daemon: not running.
JudgeDown(c) ==
    /\ pc[c] = "judge" /\ ~Running(c)
    /\ pc' = [pc EXCEPT ![c] = AfterJudge(c)]
    /\ state' = IF Stale(c) THEN NoState ELSE state
    /\ UNCHANGED <<osVars, version, cmd, seen, child>>

\* Mutant: start goes on although a daemon runs.
JudgeRunningStarts(c) ==
    /\ pc[c] = "judge" /\ Running(c) /\ cmd[c] \in {"status", "start", "stdio"}
    /\ pc' = [pc EXCEPT ![c] =
                IF seen[c].version # version THEN "failed" ELSE AfterJudge(c)]
    /\ UNCHANGED <<osVars, state, version, cmd, seen, child>>

\* status() of a live pid: status reports it, start refuses, stdio refuses a
\* daemon of another version.
JudgeRunning(c) ==
    /\ pc[c] = "judge" /\ Running(c) /\ cmd[c] \in {"status", "start", "stdio"}
    /\ pc' = [pc EXCEPT ![c] =
                CASE cmd[c] = "start" -> "failed"
                  [] cmd[c] = "stdio" ->
                       IF seen[c].version # version THEN "failed" ELSE "serving"
                  [] OTHER -> "done"]
    /\ UNCHANGED <<osVars, state, version, cmd, seen, child>>

\* stdio has no per-request principal: a project with a tenancy policy is
\* refused unless --tenant binds one.
JudgeTenant(c) ==
    /\ pc[c] = "judge" /\ cmd[c] = "stdio"
    /\ pc' = [pc EXCEPT ![c] = "failed"]
    /\ state' = IF Stale(c) THEN NoState ELSE state
    /\ UNCHANGED <<osVars, version, cmd, seen, child>>

\* stop(): SIGTERM to the recorded pid ...
StopSignal(c) ==
    /\ pc[c] = "judge" /\ cmd[c] = "stop" /\ Running(c)
    /\ proc' = [proc EXCEPT ![seen[c].pid] =
                  CASE proc[seen[c].pid] = "listen" -> "drain"
                    [] proc[seen[c].pid] = "boot" -> "gone"
                    [] OTHER -> @]
    /\ pc' = [pc EXCEPT ![c] = "signalled"]
    /\ UNCHANGED <<kind, state, version, cmd, seen, child>>

\* ... and the state file goes without waiting for the process to.
StopRemove(c) ==
    /\ pc[c] = "signalled"
    /\ state' = NoState
    /\ pc' = [pc EXCEPT ![c] = "done"]
    /\ UNCHANGED <<osVars, version, cmd, seen, child>>

\* start_http: Popen of the detached child.
Spawn(c) ==
    /\ pc[c] = "cleared"
    /\ \E p \in Pids :
         /\ proc[p] = "free"
         /\ proc' = [proc EXCEPT ![p] = "boot"]
         /\ child' = [child EXCEPT ![c] = p]
    /\ pc' = [pc EXCEPT ![c] = "waiting"]
    /\ UNCHANGED <<kind, state, version, cmd, seen>>

\* _wait_for_daemon_ready, the three ways out: the child exited, a connect to
\* the port succeeded (whoever answers it), the deadline passed.
SawExit(c) ==
    /\ pc[c] = "waiting" /\ proc[child[c]] = "gone"
    /\ pc' = [pc EXCEPT ![c] = "failed"]
    /\ UNCHANGED <<osVars, state, version, cmd, seen, child>>

Connected(c) ==
    /\ pc[c] = "waiting" /\ proc[child[c]] # "gone" /\ PortHeld
    /\ pc' = [pc EXCEPT ![c] = "ready"]
    /\ UNCHANGED <<osVars, state, version, cmd, seen, child>>

TimedOut(c) ==
    /\ pc[c] = "waiting"
    /\ proc' = [proc EXCEPT ![child[c]] = "gone"]
    /\ pc' = [pc EXCEPT ![c] = "failed"]
    /\ UNCHANGED <<kind, state, version, cmd, seen, child>>

WriteState(c) ==
    /\ pc[c] = "ready"
    /\ state' = [pid |-> child[c], version |-> version]
    /\ pc' = [pc EXCEPT ![c] = "done"]
    /\ UNCHANGED <<osVars, version, cmd, seen, child>>

\* The command's process ends and the slot is free for the next one.
Exit(c) ==
    /\ pc[c] \in {"done", "failed", "serving"}
    /\ pc' = [pc EXCEPT ![c] = "idle"]
    /\ child' = [child EXCEPT ![c] = NoPid]
    /\ seen' = [seen EXCEPT ![c] = NoState]
    /\ UNCHANGED <<osVars, state, version, cmd>>

\* The child is in a session of its own and survives the command.
Interrupt(c) ==
    /\ MayInterrupt /\ pc[c] \in {"waiting", "ready"}
    /\ pc' = [pc EXCEPT ![c] = "failed"]
    /\ kind' = [kind EXCEPT ![child[c]] = "abandoned"]
    /\ UNCHANGED <<proc, state, version, cmd, seen, child>>

-----------------------------------------------------------------------------
(* The serving processes.                                                   *)

RunForeground(p) ==
    /\ MayForeground /\ proc[p] = "free"
    /\ proc' = [proc EXCEPT ![p] = "boot"]
    /\ kind' = [kind EXCEPT ![p] = "foreground"]
    /\ UNCHANGED <<state, version, cmdVars>>

\* serve_http_foreground: the process serves once it holds the port.
Bind(p) ==
    /\ proc[p] = "boot"
    /\ proc' = [proc EXCEPT ![p] = IF PortHeld THEN "gone" ELSE "listen"]
    /\ UNCHANGED <<kind, state, version, cmdVars>>

\* The child runs the whole start command again, and any of its checks may
\* fail there; a serving process may crash.
Die(p) ==
    /\ proc[p] \in {"boot", "listen"}
    /\ proc' = [proc EXCEPT ![p] = "gone"]
    /\ UNCHANGED <<kind, state, version, cmdVars>>

ShutDown(p) ==
    /\ proc[p] \in {"drain", "closing"}
    /\ proc' = [proc EXCEPT ![p] = IF @ = "drain" THEN "closing" ELSE "gone"]
    /\ UNCHANGED <<kind, state, version, cmdVars>>

Upgrade ==
    /\ version < MaxVersion
    /\ version' = version + 1
    /\ UNCHANGED <<osVars, state, cmdVars>>

Next ==
    \/ \E c \in Commands :
         \/ RefuseEarly(c)
         \/ \E k \in {"start", "stop", "status", "stdio"} : ReadState(c, k)
         \/ JudgeDown(c) \/ JudgeRunning(c) \/ JudgeTenant(c)
         \/ StopSignal(c) \/ StopRemove(c)
         \/ Spawn(c) \/ SawExit(c) \/ Connected(c) \/ TimedOut(c)
         \/ WriteState(c) \/ Exit(c) \/ Interrupt(c)
    \/ \E p \in Pids : RunForeground(p) \/ Bind(p) \/ Die(p) \/ ShutDown(p)
    \/ Upgrade

Spec == Init /\ [][Next]_vars

-----------------------------------------------------------------------------
(* Properties.                                                              *)

TypeOK ==
    /\ proc \in [Pids -> {"free", "boot", "listen", "drain", "closing", "gone"}]
    /\ kind \in [Pids -> {"child", "abandoned", "foreground"}]
    /\ state \in [pid : Pids \cup {NoPid}, version : 0..MaxVersion]
    /\ version \in 1..MaxVersion
    /\ pc \in [Commands -> {"idle", "judge", "cleared", "waiting", "ready",
                            "signalled", "serving", "done", "failed"}]
    /\ cmd \in [Commands -> {"start", "stop", "status", "stdio"}]
    /\ seen \in [Commands -> [pid : Pids \cup {NoPid}, version : 0..MaxVersion]]
    /\ child \in [Commands -> Pids \cup {NoPid}]

LiveChildren == {p \in Pids : kind[p] = "child" /\ proc[p] \in {"boot", "listen"}}
Owned(p) == \E c \in Commands : child[c] = p /\ pc[c] \in {"waiting", "ready"}

\* A daemon that was started and not told to stop can be found again: the state
\* file names it, or the start command that spawned it is still at work
\* (daemon.py: start_http, _wait_for_daemon_ready, stop).  The child of a start
\* that was killed while it waited is the exception: nothing records it.
NoOrphan == \A p \in LiveChildren : state.pid = p \/ Owned(p)

\* Start after stop, while the old process still drains and answers the port in
\* the new one's place, start after a failed start, start after a crash: no
\* sequence of commands leaves two daemons that both still want the port
\* (daemon.py: the checks of start_http, the clean-up in status and stop).
OneLiveDaemon == Cardinality(LiveChildren) <= 1

\* There is at most one daemon, and the commands can find it (daemon.py:
\* start_http, status, stop).
OneFindableDaemon ==
    /\ TypeOK
    /\ OneLiveDaemon
    /\ NoOrphan
=============================================================================
