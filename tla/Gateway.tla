------------------------------ MODULE Gateway -------------------------------
(***************************************************************************)
(* The gateway towards the outside, the platforms, the stream's clients    *)
(* and the Docker daemon: gateway (cli/commands.py) starts the channels    *)
(* and the emission stream that the configuration enables, registers the   *)
(* sandbox if there is one, and gathers their tasks on one event loop.     *)
(***************************************************************************)
EXTENDS Channels, EventStream, Mochat, Sandbox

CONSTANT Setups  \* the configurations: channels, Mochat, stream, sandbox

GatewayInit ==
  /\ Init /\ StreamInit /\ MochatInit /\ SandboxInit
  /\ [channels |-> enabled, mochat |-> Active, stream |-> serving, sandbox |-> docker] \in Setups

\* What goes on while the loop is blocked: the clients of the stream, Mochat's server, the
\* docker commands and the daemon.
StreamOutside == \E c \in Client : Leaves(c)
MochatOutside == SessionWrites \/ PanelWrites \/ Acknowledges
SandboxOutside == \E r \in Run : DaemonStep(r) \/ BoxExits(r)

GatewayNext ==
  \/ Next /\ UNCHANGED <<streamVars, mochatVars, sandboxVars>>
  \/ StreamNext /\ (Blocked => StreamOutside) /\ UNCHANGED <<vars, mochatVars, sandboxVars>>
  \/ MochatNext /\ (Blocked => MochatOutside) /\ UNCHANGED <<vars, streamVars, sandboxVars>>
  \/ SandboxNext /\ (Blocked => SandboxOutside) /\ UNCHANGED <<vars, streamVars, mochatVars>>

\* The handlers of the stream's clients are tasks of the loop as well.
HandlersFairness == \A c \in Client : WF_streamVars(HandlerStep(c) /\ ~Blocked)

GatewaySpec ==
  /\ GatewayInit /\ [][GatewayNext]_<<vars, streamVars, mochatVars, sandboxVars>>
  /\ Fairness /\ HandlersFairness /\ SandboxFairness

GatewayTypeOK == ChannelsTypeOK /\ StreamTypeOK /\ MochatTypeOK /\ SandboxTypeOK
=============================================================================
