------------------------------ MODULE Sandbox -------------------------------
(***************************************************************************)
(* The docker_exec tool (agent/tools/docker_exec.py) and the containers of *)
(* DockerSandbox (agent/sandbox/docker_sandbox.py).  A run is three        *)
(* processes: the call in the event loop, the docker client it starts and  *)
(* waits for, and the container in the daemon, which the client has        *)
(* created and started by two requests and which goes on when the client   *)
(* is killed.                                                              *)
(***************************************************************************)
EXTENDS Naturals

CONSTANTS
  Run,         \* calls of the tool that pass the gate and the AST filter
  MaxRefusals  \* bound: commands that the host or the daemon refuses

ASSUME SandboxAssumption == MaxRefusals \in Nat

VARIABLES
  docker,   \* is_available found the daemon and the image, so the tool is registered
  call,     \* where _run_container is: not begun, waiting for the client, killing it, over
  result,   \* how it ended
  dir,      \* the temporary directories that exist
  client,   \* the process "docker run"
  box,      \* the container
  remover,  \* the process "docker rm -f"
  refusals

sandboxVars == <<docker, call, result, dir, client, box, remover, refusals>>

SandboxTypeOK ==
  /\ docker \in BOOLEAN
  /\ call \in [Run -> {"none", "waiting", "killing", "over"}]
  /\ result \in [Run -> {"none", "output", "timeout", "cancelled", "error"}]
  /\ dir = {r \in Run : call[r] \in {"waiting", "killing"}}
  /\ {client[r] : r \in Run} \cup {remover[r] : r \in Run} \subseteq {"none", "runs", "over"}
  /\ box \in [Run -> {"none", "creating", "created", "starting", "runs", "gone"}]
  /\ \A r \in Run : remover[r] # "none" => result[r] = "timeout" /\ client[r] = "over"
  /\ refusals \in 0 .. MaxRefusals

SandboxInit ==
  /\ docker \in BOOLEAN
  /\ call = [r \in Run |-> "none"] /\ result = [r \in Run |-> "none"]
  /\ dir = {}
  /\ client = [r \in Run |-> "none"] /\ remover = [r \in Run |-> "none"]
  /\ box = [r \in Run |-> "none"]
  /\ refusals = 0

-----------------------------------------------------------------------------
(* The call.                                                               *)

\* The end of run_python or run_shell, on every path: the directory goes.
Over(r, how) ==
  /\ call' = [call EXCEPT ![r] = "over"]
  /\ result' = [result EXCEPT ![r] = how]
  /\ dir' = dir \ {r}

Refused == refusals < MaxRefusals /\ refusals' = refusals + 1

\* The directory is made and the client started, or the host cannot start it.
RunBegins(r) ==
  /\ docker /\ call[r] = "none"
  /\ \/ /\ call' = [call EXCEPT ![r] = "waiting"]
        /\ dir' = dir \cup {r}
        /\ client' = [client EXCEPT ![r] = "runs"]
        /\ UNCHANGED <<result, refusals>>
     \/ Refused /\ Over(r, "error") /\ UNCHANGED client
  /\ UNCHANGED <<docker, box, remover>>

\* communicate returns.
RunReturns(r) ==
  /\ call[r] = "waiting" /\ client[r] = "over"
  /\ Over(r, "output")
  /\ UNCHANGED <<docker, client, box, remover, refusals>>

\* The timeout has passed: the client is killed.
RunTimesOut(r) ==
  /\ call[r] = "waiting"
  /\ call' = [call EXCEPT ![r] = "killing"]
  /\ client' = [client EXCEPT ![r] = "over"]
  /\ UNCHANGED <<docker, result, dir, box, remover, refusals>>

\* Mutant: the container is left to its client, which has been killed.
BugRunRemoves(r) ==
  /\ call[r] = "killing" /\ Over(r, "timeout")
  /\ UNCHANGED <<docker, client, box, remover, refusals>>

\* The client is dead: "docker rm -f" is started, and not waited for, or cannot be
\* started.
RunRemoves(r) ==
  /\ call[r] = "killing" /\ Over(r, "timeout")
  /\ \/ remover' = [remover EXCEPT ![r] = "runs"] /\ UNCHANGED refusals
     \/ Refused /\ UNCHANGED remover
  /\ UNCHANGED <<docker, client, box>>

\* The turn of the call is cancelled (cron arms its timer anew, or the gateway stops):
\* no except clause catches that, so neither client nor container is stopped.
RunCancelled(r) ==
  /\ call[r] \in {"waiting", "killing"}
  /\ Over(r, "cancelled")
  /\ UNCHANGED <<docker, client, box, remover, refusals>>

-----------------------------------------------------------------------------
(* The docker commands and the daemon.                                     *)

Box(r, from, to) == box[r] = from /\ box' = [box EXCEPT ![r] = to]

\* The client asks for the container, then for its start.
ClientAsks(r) ==
  /\ client[r] = "runs"
  /\ Box(r, "none", "creating") \/ Box(r, "created", "starting")
  /\ UNCHANGED <<docker, call, result, dir, client, remover, refusals>>

\* The daemon does what it was asked for, also for a client that has been killed.
DaemonActs(r) ==
  /\ Box(r, "creating", "created") \/ Box(r, "starting", "runs")
  /\ UNCHANGED <<docker, call, result, dir, client, remover, refusals>>

\* The program in the container ends, and --rm removes it.
BoxExits(r) ==
  /\ Box(r, "runs", "gone")
  /\ UNCHANGED <<docker, call, result, dir, client, remover, refusals>>

\* The client ends with its container, or because the daemon refuses to create it.
ClientEnds(r) ==
  /\ client[r] = "runs"
  /\ \/ box[r] = "gone" /\ UNCHANGED refusals
     \/ box[r] = "none" /\ Refused
  /\ client' = [client EXCEPT ![r] = "over"]
  /\ UNCHANGED <<docker, call, result, dir, box, remover>>

\* "docker rm -f" removes the container under that name, if there is one yet.
RemoverEnds(r) ==
  /\ remover[r] = "runs"
  /\ remover' = [remover EXCEPT ![r] = "over"]
  /\ box' = IF box[r] \in {"created", "starting", "runs"} THEN [box EXCEPT ![r] = "gone"] ELSE box
  /\ UNCHANGED <<docker, call, result, dir, client, refusals>>

DaemonStep(r) == ClientAsks(r) \/ DaemonActs(r) \/ ClientEnds(r) \/ RemoverEnds(r)

SandboxNext ==
  \E r \in Run :
    \/ RunBegins(r) \/ RunReturns(r) \/ RunTimesOut(r) \/ RunRemoves(r) \/ RunCancelled(r)
    \/ DaemonStep(r) \/ BoxExits(r)

\* The daemon and the docker commands are not stuck.  Nothing is said of the program.
SandboxFairness == \A r \in Run : WF_sandboxVars(DaemonStep(r))

SandboxSpec == SandboxInit /\ [][SandboxNext]_sandboxVars /\ SandboxFairness

-----------------------------------------------------------------------------
(* Properties.                                                             *)

\* docker_sandbox.py:206-207: a program that outlives its timeout is stopped, though its
\* client is dead by then, the command that removes the container is not waited for, and
\* it may run before the daemon has created the container or while it starts it.
\* (Not so if the call is cancelled, or if the host may refuse to start that command.)
TimedOutStops ==
  \A r \in Run :
    (result[r] = "timeout" /\ refusals = 0) ~> [](box[r] \notin {"starting", "runs"})
=============================================================================
