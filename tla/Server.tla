------------------------------- MODULE Server -------------------------------
(* The life of the driver process: cmd/app/app.go builds the store, the      *)
(* certificate source, the manager and the gRPC server (pkg/driver) and      *)
(* serves until a signal stops it gracefully.  NodeServer runs the handlers. *)
EXTENDS Manager

CONSTANTS Faults,        \* the operations that may fail
          MaxFaults,     \* bound: how many of them do
          MaxTimeouts,   \* bound: how many calls the kubelet gives up on
          MaxCrashes,    \* bound: kills of the driver and reboots of the node
          MaxSignals     \* bound: signals sent to the driver

ASSUME ServerConstantsOK ==
  /\ Faults \subseteq {"boot", "register", "fetch", "write", "mountpoint", "mount",
                       "unmount", "remove"}
  /\ {MaxFaults, MaxTimeouts, MaxCrashes, MaxSignals} \subseteq Nat

VARIABLES proc,       \* what the process does: the next step of start-up, or
                      \* "serving", "stopping" or "down"
          tmpfs,      \* a tmpfs is mounted on inmemfs
          socket,     \* the unix socket: "none", "file" (nobody listens) or "open"
          signal,     \* a signal has come: ctx is done
          budget      \* remaining faults, timeouts, crashes and signals

process == <<proc, tmpfs, socket, signal>>
serverVars == <<process, budget>>

BootSteps == {"store", "source", "manager", "listen", "run"}

ServerTypeOK ==
  /\ proc \in BootSteps \cup {"serving", "stopping", "down"}
  /\ tmpfs \in BOOLEAN
  /\ socket \in {"none", "file", "open"}
  /\ signal \in BOOLEAN
  /\ budget \in [{"fault", "timeout", "crash", "signal"} -> Nat]

ServerInit ==
  /\ proc = "down"
  /\ tmpfs = FALSE
  /\ socket = "none"
  /\ signal = FALSE
  /\ budget = [fault |-> MaxFaults, timeout |-> MaxTimeouts,
               crash |-> MaxCrashes, signal |-> MaxSignals]

Spend(what) ==
  /\ budget[what] > 0
  /\ budget' = [budget EXCEPT ![what] = @ - 1]

Fault(f) == f \in Faults /\ Spend("fault")

\* The process ends with the socket in the given state.
exit(left) ==
  /\ proc' = "down"
  /\ signal' = FALSE
  /\ socket' = left
  /\ managed' = {}
  /\ UNCHANGED tmpfs

\* What is left of a socket nobody closes.
Abandoned == IF socket = "none" THEN "none" ELSE "file"

-----------------------------------------------------------------------------
(* Start-up.                                                                 *)

Start ==
  /\ proc = "down"
  /\ proc' = "store"
  /\ UNCHANGED <<fsVars, managed, tmpfs, socket, signal, budget>>

\* Mutant: mounts without asking whether one is mounted.
NeedsMount_Always == TRUE

NeedsMount == ~tmpfs

\* NewFilesystem.
newStore ==
  /\ proc = "store"
  /\ \/ /\ IF NeedsMount THEN mountTmpfs ELSE UNCHANGED fsVars
        /\ proc' = "source"
        /\ tmpfs' = TRUE
        /\ UNCHANGED <<managed, socket, signal, budget>>
     \/ /\ Fault("boot")
        /\ exit(socket)
        /\ UNCHANGED fsVars

newSource ==
  /\ proc = "source"
  /\ \/ /\ proc' = "manager"
        /\ UNCHANGED <<managed, tmpfs, socket, signal, budget>>
     \/ Fault("boot") /\ exit(socket)
  /\ UNCHANGED fsVars

\* NewManagerOrDie panics when NewManager fails.
newManagerOrDie ==
  /\ proc = "manager"
  /\ \/ /\ NewManager
        /\ proc' = "listen"
        /\ UNCHANGED <<tmpfs, socket, signal, budget>>
     \/ /\ ~Restartable
        /\ exit(socket)
        /\ UNCHANGED budget
     \/ Fault("boot") /\ exit(socket)
  /\ UNCHANGED fsVars

\* Mutant: the old socket is not removed before Listen.
removeSocket_Not == socket

removeSocket == "none"

\* NewGRPCServer: os.Remove of the socket, then Listen, which binds a new one
\* unless there is one.
newGRPCServer ==
  /\ proc = "listen"
  /\ \/ /\ removeSocket = "none"
        /\ socket' = "open"
        /\ proc' = "run"
        /\ UNCHANGED <<managed, tmpfs, signal, budget>>
     \/ /\ removeSocket # "none"
        /\ exit(removeSocket)
        /\ UNCHANGED budget
     \/ /\ Fault("boot")
        /\ \E left \in {socket, removeSocket} : exit(left)
  /\ UNCHANGED fsVars

\* Mutant: the signals are reset.
serve_Reset ==
  /\ proc = "run"
  /\ proc' = "serving"
  /\ signal' = FALSE
  /\ UNCHANGED <<fsVars, managed, tmpfs, socket, budget>>

serve ==
  /\ proc = "run"
  /\ proc' = "serving"
  /\ UNCHANGED <<fsVars, managed, tmpfs, socket, signal, budget>>

Boot == Start \/ newStore \/ newSource \/ newManagerOrDie \/ newGRPCServer \/ serve

-----------------------------------------------------------------------------
(* The end.                                                                  *)

\* The first signal ends ctx; a second one ends the process (see NodeServer).
Signal ==
  /\ proc # "down"
  /\ ~signal
  /\ Spend("signal")
  /\ signal' = TRUE
  /\ UNCHANGED <<fsVars, managed, proc, tmpfs, socket>>

\* The goroutine that waits for ctx, started once the driver is built, calls
\* GracefulStop: the listener, if it is served already, is closed and unlinked
\* and no new call comes in.
gracefulStop ==
  /\ proc \in {"run", "serving"}
  /\ signal
  /\ proc' = "stopping"
  /\ socket' = IF proc = "serving" THEN "none" ELSE socket
  /\ UNCHANGED <<fsVars, managed, tmpfs, signal, budget>>

\* Mutant: Stop is ForceStop.
Drained_Force(busy) == TRUE

Drained(busy) == ~busy

\* Serve returns when the handlers have, or at once if it had not begun, and
\* main exits.  busy: handlers are running.
stopped(busy) ==
  /\ proc = "stopping"
  /\ Drained(busy)
  /\ exit("none")
  /\ UNCHANGED budget

-----------------------------------------------------------------------------
Up == proc = "serving"

\* The manager of a driver that serves, or that still ends its last calls.
Managing == proc \in {"serving", "stopping"}
=============================================================================
