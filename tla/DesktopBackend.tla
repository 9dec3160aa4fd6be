---------------------------- MODULE DesktopBackend ----------------------------
(***************************************************************************)
(* The Electron main process and the FastAPI backend it owns: the process  *)
(* manager (ensureFastApiProcessStarted, stopFastApiProcess), the runtime  *)
(* policy that gates every bridge request, and the application's start and *)
(* quit.                                                                   *)
(*                                                                         *)
(* The main process is one thread; its code is cut where it awaits: the    *)
(* command of a start, a health check, an exit event.  A child is a number *)
(* in the order of the spawns, a start one in the order of the starts.     *)
(* Only one process can listen on the port; a foreign one may hold it.     *)
(* MaxStarts bounds the starts, MaxCrashes the children that die.          *)
(*                                                                         *)
(* Name_Fault is the definition Name with one plausible mistake in it.     *)
(***************************************************************************)
EXTENDS Naturals, FiniteSets

CONSTANTS Requests, MaxStarts, MaxCrashes

ASSUME DesktopAssumption == MaxStarts \in Nat /\ MaxCrashes \in Nat

VARIABLES
  external,        \* ELECTION_API_BASE_URL names the backend
  foreign,         \* another process listens on the port
  status,          \* the runtime state
  child,           \* the tracked child, 0 if none
  startupPromise,  \* the start others wait for, 0 if none
  starts,          \* the starts whose command is being resolved
  started,         \* how many starts there were
  process,         \* [child -> its state]
  waiter,          \* [the app or a request -> what it does]
  app,             \* the application: running, quitting or exited
  window,          \* whether there is a window, from which requests come
  late,            \* the children spawned after the quit began
  crashes

desktopVars == <<external, foreign, status, child, startupPromise, starts, started,
                 process, waiter, app, window, late, crashes>>

Children == 1 .. MaxStarts
Waiters  == Requests \cup {"app"}
Idle     == [at |-> "idle", start |-> 0]
Ended(how) == [at |-> how, start |-> 0]
Running  == {"booting", "listening"}

DesktopInit ==
  /\ external \in BOOLEAN
  /\ foreign \in BOOLEAN
  /\ status = "idle"
  /\ child = 0
  /\ startupPromise = 0
  /\ starts = {}
  /\ started = 0
  /\ process = [c \in Children |-> "unborn"]
  /\ waiter = [w \in Waiters |-> Idle]
  /\ app = "running"
  /\ window = FALSE
  /\ late = {}
  /\ crashes = 0

-----------------------------------------------------------------------------
\* Every caller that finds no child starts one.
Ensure_Fault(w) ==
  IF external \/ child # 0
  THEN /\ waiter' = [waiter EXCEPT ![w] = [at |-> "polling", start |-> 0]]
       /\ UNCHANGED <<startupPromise, starts, started>>
  ELSE /\ started < MaxStarts
       /\ started' = started + 1
       /\ starts' = starts \cup {started'}
       /\ startupPromise' = started'
       /\ waiter' = [waiter EXCEPT ![w] = [at |-> "ensuring", start |-> started']]

\* ensureFastApiProcessStarted up to its first await.
Ensure(w) ==
  IF external \/ child # 0
  THEN /\ waiter' = [waiter EXCEPT ![w] = [at |-> "polling", start |-> 0]]
       /\ UNCHANGED <<startupPromise, starts, started>>
  ELSE IF startupPromise # 0
  THEN /\ waiter' = [waiter EXCEPT ![w] = [at |-> "ensuring", start |-> startupPromise]]
       /\ UNCHANGED <<startupPromise, starts, started>>
  ELSE /\ started < MaxStarts
       /\ started' = started + 1
       /\ starts' = starts \cup {started'}
       /\ startupPromise' = started'
       /\ waiter' = [waiter EXCEPT ![w] = [at |-> "ensuring", start |-> started']]

\* waitForFastApiReady.
Wait(w) ==
  /\ status' = "starting"
  /\ Ensure(w)

\* The command is resolved and the child spawned; whoever waits for this start
\* goes on, and the start's finally clears the promise, whose ever it is.
Spawn(s) ==
  /\ s \in starts /\ app # "exited"
  /\ starts' = starts \ {s}
  /\ process' = [process EXCEPT ![s] = "booting"]
  /\ child' = s
  /\ startupPromise' = 0
  /\ waiter' = [w \in Waiters |->
                  IF waiter[w].at = "ensuring" /\ waiter[w].start = s
                  THEN [at |-> "polling", start |-> 0] ELSE waiter[w]]
  /\ late' = IF app = "quitting" THEN late \cup {s} ELSE late
  /\ UNCHANGED <<external, foreign, status, started, app, window, crashes>>

\* The child listens, or finds the port taken and exits.
Boot(c) ==
  /\ process[c] = "booting"
  /\ process' = [process EXCEPT ![c] =
       IF foreign \/ \E d \in Children : d # c /\ process[d] \in {"listening", "stopping"}
       THEN "dead" ELSE "listening"]
  /\ UNCHANGED <<external, foreign, status, child, startupPromise, starts, started,
                 waiter, app, window, late, crashes>>

\* The spawn fails, or the child crashes.
Crash(c) ==
  /\ process[c] \in Running
  /\ crashes < MaxCrashes
  /\ crashes' = crashes + 1
  /\ process' = [process EXCEPT ![c] = "dead"]
  /\ UNCHANGED <<external, foreign, status, child, startupPromise, starts, started,
                 waiter, app, window, late>>

Terminate(c) ==
  /\ process[c] = "stopping"
  /\ process' = [process EXCEPT ![c] = "dead"]
  /\ UNCHANGED <<external, foreign, status, child, startupPromise, starts, started,
                 waiter, app, window, late, crashes>>

\* The exit or error event of a child: it forgets the child only if that is
\* still the tracked one, the promise always.
ChildEvent(c) ==
  /\ process[c] = "dead" /\ app # "exited"
  /\ process' = [process EXCEPT ![c] = "gone"]
  /\ child' = IF child = c THEN 0 ELSE child
  /\ startupPromise' = 0
  /\ UNCHANGED <<external, foreign, status, starts, started, waiter, app, window,
                 late, crashes>>

Healthy ==
  \/ foreign
  \/ external
  \/ \E c \in Children : process[c] \in {"listening", "stopping"}

\* A health check is answered; a request goes on to its operation, the
\* application opens its window.
PollAnswered(w) ==
  /\ waiter[w].at = "polling" /\ Healthy
  /\ status' = "ready"
  /\ waiter' = [waiter EXCEPT ![w] = Ended(IF w = "app" THEN "ready" ELSE "operation")]
  /\ window' = (window \/ w = "app")
  /\ UNCHANGED <<external, foreign, child, startupPromise, starts, started, process,
                 app, late, crashes>>

\* The deadline of this waiter passes between two checks.
PollTimesOut(w) ==
  /\ waiter[w].at = "polling"
  /\ status' = "failed_to_start"
  /\ waiter' = [waiter EXCEPT ![w] = Ended(IF w = "app" THEN "failed" ELSE "refused")]
  /\ window' = (window \/ w = "app")
  /\ UNCHANGED <<external, foreign, child, startupPromise, starts, started, process,
                 app, late, crashes>>

-----------------------------------------------------------------------------
\* app.whenReady: initializeDesktopRuntime.
AppReady ==
  /\ waiter["app"] = Idle /\ app = "running"
  /\ Wait("app")
  /\ UNCHANGED <<external, foreign, child, process, app, window, late, crashes>>

\* macOS: a click on the dock icon opens the window although the backend is
\* still being waited for.
Activate ==
  /\ app = "running" /\ ~window /\ waiter["app"] # Idle
  /\ window' = TRUE
  /\ UNCHANGED <<external, foreign, status, child, startupPromise, starts, started,
                 process, waiter, app, late, crashes>>

\* A bridge request of the renderer (runWithFastApiRuntimePolicy), which goes
\* on while the application quits, until its window is closed.
BridgeRequest(r) ==
  /\ waiter[r] = Idle /\ window /\ app # "exited"
  /\ \/ /\ status \in {"idle", "starting"}
        /\ Wait(r)
     \/ /\ status = "ready"
        /\ waiter' = [waiter EXCEPT ![r] = Ended("operation")]
        /\ UNCHANGED <<status, startupPromise, starts, started>>
     \/ /\ status = "failed_to_start"
        /\ waiter' = [waiter EXCEPT ![r] = Ended("refused")]
        /\ UNCHANGED <<status, startupPromise, starts, started>>
  /\ UNCHANGED <<external, foreign, child, process, app, window, late, crashes>>

\* The operation is sent to the backend, which answers or is gone; either way
\* handleBridgeOperation answers the renderer, which may ask again.
Operate(r) ==
  /\ waiter[r].at \in {"operation", "refused"}
  /\ waiter' = [waiter EXCEPT ![r] = Idle]
  /\ UNCHANGED <<external, foreign, status, child, startupPromise, starts, started,
                 process, app, window, late, crashes>>

\* Forgets the child before it looks at it.
Stop_Fault ==
  /\ child' = 0
  /\ startupPromise' = 0
  /\ UNCHANGED process

\* stopFastApiProcess.
Stop ==
  /\ child' = 0
  /\ startupPromise' = 0
  /\ process' = IF child # 0 /\ process[child] \in Running
                THEN [process EXCEPT ![child] = "stopping"] ELSE process

\* before-quit.
Quit ==
  /\ app = "running"
  /\ app' = "quitting"
  /\ Stop
  /\ UNCHANGED <<external, foreign, status, starts, started, waiter, window, late,
                 crashes>>

\* The main process ends; what it awaits never goes on.
Exit ==
  /\ app = "quitting"
  /\ app' = "exited"
  /\ UNCHANGED <<external, foreign, status, child, startupPromise, starts, started,
                 process, waiter, window, late, crashes>>

DesktopNext ==
  \/ AppReady \/ Activate \/ Quit \/ Exit
  \/ \E s \in Children : Spawn(s) \/ Boot(s) \/ Crash(s) \/ Terminate(s) \/ ChildEvent(s)
  \/ app # "exited" /\ \E w \in Waiters : PollAnswered(w) \/ PollTimesOut(w)
  \/ \E r \in Requests : BridgeRequest(r) \/ (app # "exited" /\ Operate(r))

DesktopSpec == DesktopInit /\ [][DesktopNext]_desktopVars

-----------------------------------------------------------------------------
\* However many waiters ask for the backend while one is starting, has died or
\* was found dead, the application runs one child at a time, until it quits
\* (ensureFastApiProcessStarted).
AtMostOneBackend ==
  app = "running"
    => Cardinality({c \in Children : process[c] \in Running}) <= 1

\* The application leaves no backend behind that it had spawned when it began
\* to quit.  A start whose command was still being resolved then, or that a
\* request asked for before the window was closed, is spawned after the stop
\* and left behind.
QuitStopsTheBackend ==
  app = "exited" => {c \in Children : process[c] \in Running} \subseteq late

=============================================================================
