--------------------------- MODULE DaemonControl ---------------------------
(***************************************************************************)
(* The daemon as operators control it: start, stop, restart and config     *)
(* reload read and write the PID file and send signals, without a lock, so *)
(* that commands of two operators interleave.  The daemon itself starts,   *)
(* serves status pages, reloads its configuration and ends.                *)
(*                                                                         *)
(* A process ID may be used again by a later daemon, but not by a process  *)
(* of something else; nor are the ports taken by something else.           *)
(***************************************************************************)
EXTENDS Integers, FiniteSets

CONSTANTS
    Operators,
    Pids,
    Configurations, \* what the configuration file may say: [port, tenant]
    Invalid,        \* or: nothing that loads
    MaxEdits,       \* bound on edits of the file
    MaxCommands,    \* bound on the commands that start or stop
    NoFile,         \* there is no PID file
    Unreadable      \* the PID file was truncated, but not written

NoPort == 0

ASSUME DaemonControlAssumption ==
    /\ {NoFile, Unreadable} \cap Pids = {} /\ NoFile # Unreadable
    /\ Invalid \notin Configurations
    /\ \A c \in Configurations : c.port \in Nat
    /\ MaxEdits \in Nat /\ MaxCommands \in Nat

VARIABLES
    pidFile,    \* the process ID in the file, NoFile or Unreadable
    processes,
    commands,
    crossed,    \* a command was killed, or two that start or stop overlapped
    unwritten,  \* the PID file of a daemon could not be written
    file,       \* the configuration file
    edits,
    begun,      \* the number of commands that start or stop
    told        \* the daemons that were told to reload since the file was edited

controlVars == <<pidFile, processes, commands, crossed, unwritten, file, edits, begun, told>>

NoServer == [port |-> NoPort, tenant |-> ""]

\* hup is a signal to reload that is not received yet; loaded is the configuration just
\* read, applied the one that the workers follow, and server what the status server was
\* started with.
NoProcess == [stage |-> "none", hup |-> FALSE, loaded |-> Invalid, applied |-> Invalid,
              server |-> NoServer]

Exists(pid) == pid \in Pids /\ processes[pid].stage # "none"

\* It goes on until it is told to end.
Alive(pid) == processes[pid].stage \in {"starting", "running", "reloading"}

\* A PID file should name it: its start has not failed.
Owned(pid) == Alive(pid) \/ processes[pid].stage = "ending"

Idle == [pc |-> "idle", restart |-> FALSE, pid |-> NoFile]

Busy(o) == commands[o].pc \notin {"idle", "hup"}

Goes(o, pc) == commands' = [commands EXCEPT ![o].pc = pc]
Done(o) == commands' = [commands EXCEPT ![o] = Idle]

-----------------------------------------------------------------------------
(* The commands start, stop and restart, and Inspect *)

\* restart is stop and then start, unless stop has failed.
BeginCommand(o) ==
    /\ commands[o] = Idle
    /\ \E command \in {"start", "stop", "restart"} :
          commands' = [commands EXCEPT ![o] =
              [Idle EXCEPT !.pc = IF command = "start" THEN "start" ELSE "stop",
                           !.restart = command = "restart"]]
    /\ begun < MaxCommands /\ begun' = begun + 1
    /\ crossed' = (crossed \/ \E other \in Operators \ {o} : Busy(other))
    /\ UNCHANGED <<pidFile, processes, unwritten, file, edits, told>>

InspectToStart(o) ==
    /\ commands[o].pc = "start"
    /\ IF Exists(pidFile) \/ pidFile = Unreadable THEN Done(o)
       ELSE Goes(o, IF pidFile = NoFile THEN "spawn" ELSE "remove stale")
    /\ UNCHANGED <<pidFile, processes, crossed, unwritten, file, edits, begun, told>>

RemoveStale(o) ==
    /\ commands[o].pc = "remove stale"
    /\ IF pidFile = NoFile THEN Done(o) ELSE Goes(o, "spawn")
    /\ pidFile' = NoFile
    /\ UNCHANGED <<processes, crossed, unwritten, file, edits, begun, told>>

Spawn(o) ==
    /\ commands[o].pc = "spawn"
    /\ \E pid \in Pids :
          /\ ~Exists(pid)
          /\ processes' = [processes EXCEPT ![pid].stage = "starting"]
          /\ commands' = [commands EXCEPT ![o].pc = "write", ![o].pid = pid]
    /\ UNCHANGED <<pidFile, crossed, unwritten, file, edits, begun, told>>

\* SIGTERM: the daemon will end; at once as long as it does not handle signals.
Terminated(pid, stage) ==
    IF ~Exists(pid) THEN {processes}
    ELSE {[processes EXCEPT ![pid].stage = stage]} \cup
         {[processes EXCEPT ![pid] = NoProcess] : s \in {"starting"} \cap {processes[pid].stage}}

\* Faulty variant: the daemon is left running when the file cannot be written.
TerminateNothing(pid) == {processes}

\* A daemon whose file cannot be written is told to end.
TerminateUnwritten(pid) == Terminated(pid, "disowned")

WritePid(o) ==
    /\ commands[o].pc = "write"
    /\ \/ pidFile' = commands[o].pid /\ UNCHANGED <<processes, unwritten>>
       \/ /\ pidFile' \in {pidFile, Unreadable}
          /\ processes' \in TerminateUnwritten(commands[o].pid)
          /\ unwritten' = TRUE
    /\ Done(o)
    /\ UNCHANGED <<crossed, file, edits, begun, told>>

\* Stop found no daemon: restart goes on.
NotRunning(o) == IF commands[o].restart THEN Goes(o, "start") ELSE Done(o)

InspectToStop(o) ==
    /\ commands[o].pc = "stop"
    /\ \/ Exists(pidFile) /\ commands' = [commands EXCEPT ![o].pc = "term", ![o].pid = pidFile]
       \/ pidFile = NoFile /\ NotRunning(o)
       \/ pidFile = Unreadable /\ Done(o)
       \/ pidFile \in Pids /\ ~Exists(pidFile) /\ Goes(o, "remove")
    /\ UNCHANGED <<pidFile, processes, crossed, unwritten, file, edits, begun, told>>

Terminate(o) ==
    /\ commands[o].pc = "term"
    /\ Goes(o, IF Exists(commands[o].pid) THEN "wait" ELSE "remove")
    /\ processes' \in Terminated(commands[o].pid, "ending")
    /\ UNCHANGED <<pidFile, crossed, unwritten, file, edits, begun, told>>

\* Faulty variant: the file is gone after stop, whether the daemon is or not.
AwaitExitInVain(o) ==
    /\ commands[o].pc = "wait"
    /\ Goes(o, "remove")
    /\ UNCHANGED <<pidFile, processes, crossed, unwritten, file, edits, begun, told>>

\* It has waited for the process; or for 5 s in vain, and fails.
AwaitExit(o) ==
    /\ commands[o].pc = "wait"
    /\ IF Exists(commands[o].pid) THEN Done(o) ELSE Goes(o, "remove")
    /\ UNCHANGED <<pidFile, processes, crossed, unwritten, file, edits, begun, told>>

RemoveFile(o) ==
    /\ commands[o].pc = "remove"
    /\ pidFile' = NoFile
    /\ NotRunning(o)
    /\ UNCHANGED <<processes, crossed, unwritten, file, edits, begun, told>>

-----------------------------------------------------------------------------
(* config reload *)

InspectToReload(o) ==
    /\ commands[o] = Idle
    /\ Exists(pidFile)
    /\ commands' = [commands EXCEPT ![o].pc = "hup", ![o].pid = pidFile]
    /\ UNCHANGED <<pidFile, processes, crossed, unwritten, file, edits, begun, told>>

\* Faulty variant: a signal is lost while the daemon is not waiting for one.
HungUpWaiting(pid) ==
    CASE processes[pid].stage = "starting" -> [processes EXCEPT ![pid] = NoProcess]
      [] processes[pid].stage = "running" -> [processes EXCEPT ![pid].hup = TRUE]
      [] OTHER -> processes

\* SIGHUP ends a daemon that does not handle it yet.
HungUp(pid) ==
    CASE processes[pid].stage = "starting" -> [processes EXCEPT ![pid] = NoProcess]
      [] processes[pid].stage \in {"running", "reloading"} -> [processes EXCEPT ![pid].hup = TRUE]
      [] OTHER -> processes

HangUp(o) ==
    /\ commands[o].pc = "hup"
    /\ processes' = HungUp(commands[o].pid)
    /\ told' = told \cup ({commands[o].pid} \cap {pid \in Pids : Alive(pid)})
    /\ Done(o)
    /\ UNCHANGED <<pidFile, crossed, unwritten, file, edits, begun>>

\* A command is killed; a daemon that it has started lives on.
Interrupt(o) ==
    /\ commands[o] # Idle
    /\ Done(o)
    /\ crossed' = (crossed \/ Busy(o))
    /\ UNCHANGED <<pidFile, processes, unwritten, file, edits, begun, told>>

-----------------------------------------------------------------------------
(* The daemon: runDaemon, Run, applyStatusServer *)

Bound(port) == port # NoPort /\ \E pid \in Pids : processes[pid].server.port = port

\* Faulty variant: the old server is shut down before the new one listens.
ServerAfterShutdown(old, new) ==
    IF new = old THEN old
    ELSE IF new.port = NoPort \/ Bound(new.port) THEN NoServer ELSE new

\* The server that runs after the daemon was given a configuration: the one it had, if
\* nothing has changed or the new one cannot listen.
ServerAfter(old, new) ==
    IF new.port = NoPort THEN NoServer
    ELSE IF Bound(new.port) THEN old ELSE new

\* A daemon that has a configuration but cannot listen ends.
BeginRunning(pid) ==
    /\ processes[pid].stage = "starting"
    /\ file # Invalid
    /\ processes' = [processes EXCEPT ![pid] =
          IF Bound(file.port) THEN NoProcess
          ELSE [@ EXCEPT !.stage = "running", !.applied = file, !.server = ServerAfter(NoServer, file)]]
    /\ UNCHANGED <<pidFile, commands, crossed, unwritten, file, edits, begun, told>>

ReceiveAndLoad(pid) ==
    /\ processes[pid].stage = "running"
    /\ processes[pid].hup
    /\ processes' = [processes EXCEPT ![pid].stage = "reloading", ![pid].hup = FALSE, ![pid].loaded = file]
    /\ UNCHANGED <<pidFile, commands, crossed, unwritten, file, edits, begun, told>>

ApplyLoaded(pid) ==
    /\ processes[pid].stage = "reloading"
    /\ LET loaded == processes[pid].loaded
           Kept == [processes[pid] EXCEPT !.stage = "running", !.loaded = Invalid]
       IN  processes' = [processes EXCEPT ![pid] =
               IF loaded = Invalid THEN Kept
               ELSE [Kept EXCEPT !.applied = loaded, !.server = ServerAfter(@, loaded)]]
    /\ UNCHANGED <<pidFile, commands, crossed, unwritten, file, edits, begun, told>>

\* It has ended, could not start, or crashes.
Exit(pid) ==
    /\ Exists(pid)
    /\ processes' = [processes EXCEPT ![pid] = NoProcess]
    /\ told' = told \ {pid}
    /\ UNCHANGED <<pidFile, commands, crossed, unwritten, file, edits, begun>>

Edit ==
    /\ edits < MaxEdits
    /\ edits' = edits + 1
    /\ file' \in (Configurations \cup {Invalid}) \ {file}
    /\ told' = {}
    /\ UNCHANGED <<pidFile, processes, commands, crossed, unwritten, begun>>

-----------------------------------------------------------------------------

ControlTypeOK ==
    /\ pidFile \in Pids \cup {NoFile, Unreadable}
    /\ processes \in [Pids -> [stage : {"none", "starting", "running", "reloading", "ending",
                                        "disowned"},
                               hup : BOOLEAN,
                               loaded : Configurations \cup {Invalid},
                               applied : Configurations \cup {Invalid},
                               server : Configurations \cup {NoServer}]]
    /\ commands \in [Operators ->
          [pc : {"idle", "start", "remove stale", "spawn", "write", "stop", "term", "wait",
                 "remove", "hup"},
           restart : BOOLEAN, pid : Pids \cup {NoFile}]]
    /\ crossed \in BOOLEAN
    /\ unwritten \in BOOLEAN
    /\ file \in Configurations \cup {Invalid}
    /\ edits \in 0 .. MaxEdits
    /\ begun \in 0 .. MaxCommands
    /\ told \subseteq Pids

ControlInit ==
    /\ pidFile \in Pids \cup {NoFile, Unreadable}
    /\ processes = [pid \in Pids |-> NoProcess]
    /\ commands = [o \in Operators |-> Idle]
    /\ crossed = FALSE
    /\ unwritten = FALSE
    /\ file \in Configurations
    /\ edits = 0
    /\ begun = 0
    /\ told = {}

ControlNext ==
    \/ \E o \in Operators :
          \/ BeginCommand(o) \/ InspectToStart(o) \/ RemoveStale(o) \/ Spawn(o) \/ WritePid(o)
          \/ InspectToStop(o) \/ Terminate(o) \/ AwaitExit(o) \/ RemoveFile(o)
          \/ InspectToReload(o) \/ HangUp(o) \/ Interrupt(o)
    \/ \E pid \in Pids : BeginRunning(pid) \/ ReceiveAndLoad(pid) \/ ApplyLoaded(pid) \/ Exit(pid)
    \/ Edit

\* What an operator can do with the daemon alone.
ControlSpec == ControlInit /\ [][ControlNext]_controlVars

-----------------------------------------------------------------------------
(* Properties *)

\* As long as commands that start or stop do not overlap and are not killed, there is
\* at most one daemon, even if it does not end in time when it is told to, but for one
\* whose start failed; and between commands the PID file names it, so that the next
\* command reaches it (daemon.Start, daemon.Stop).
DaemonIsNamed ==
    ~crossed =>
        /\ \A a, b \in Pids : Owned(a) /\ Owned(b) => a = b
        /\ (\A o \in Operators : ~Busy(o)) => \A pid \in Pids : Owned(pid) => pidFile = pid

\* No reload is lost: a daemon that was told to reload since the configuration file was
\* edited, and has nothing more to do, follows the file, even if it was told while it
\* was reloading.  It serves no status pages if the file says so; and it does if the file
\* says that, even where it could not change its server, as long as commands do not
\* overlap and every PID file could be written: a daemon whose file could not be written
\* keeps its port until it has ended (Runner.Run, applyStatusServer).
ReloadIsApplied ==
    \A pid \in told :
        processes[pid].stage = "running" /\ ~processes[pid].hup /\ file # Invalid
            => /\ processes[pid].applied = file
               /\ file.port = NoPort => processes[pid].server = NoServer
               /\ file.port # NoPort /\ processes[pid].server = NoServer => crossed \/ unwritten

=============================================================================
