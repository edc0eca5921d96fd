---------------------------- MODULE AaaServices ----------------------------
(***************************************************************************)
(* The components of the AAA service, side by side: NAS jobs (extended),   *)
(* accounting and RADIUS commands.  They share no state, so their          *)
(* interleaving adds nothing: in a behaviour only the component named by   *)
(* part moves.                                                             *)
(***************************************************************************)
EXTENDS NasJobs

CONSTANTS
  \* accounting
  Sessions, Packets, PacketSession, TypeOf, CountOf, Handlers, Threshold, ResetKeys, None,
  \* RADIUS commands
  Targets, Commands, CommandSession, Disconnects, Actions, Scheduler, Unnamed

VARIABLES
  part,
  received, sessionStatus, octets, usage, fup, commands, handler, packet, seenRow, seenUsage,
  forgiven, overlapped,
  session, command, attempts, action, request, taking, sending, acked, silent

accountingVars ==
  <<received, sessionStatus, octets, usage, fup, commands, handler, packet, seenRow, seenUsage,
    forgiven, overlapped>>
commandVars ==
  <<session, command, attempts, action, request, taking, sending, acked, silent>>
aaaVars == <<part, vars, accountingVars, commandVars>>

Acct == INSTANCE AaaAccounting WITH
  SessionOf <- PacketSession, pc <- handler, status <- sessionStatus

Cmd == INSTANCE RadiusCommands WITH Sessions <- Targets, SessionOf <- CommandSession

ASSUME AaaAssumption == Acct!AccountingAssumption /\ Cmd!CommandsAssumption

AaaInit ==
  /\ part \in {"nas", "accounting", "commands"}
  /\ Init /\ Acct!Init /\ Cmd!Init

AaaNext ==
  /\ UNCHANGED part
  /\ \/ part = "nas" /\ Next /\ UNCHANGED <<accountingVars, commandVars>>
     \/ part = "accounting" /\ Acct!Next /\ UNCHANGED <<vars, commandVars>>
     \/ part = "commands" /\ Cmd!Next /\ UNCHANGED <<vars, accountingVars>>

AaaSpec == AaaInit /\ [][AaaNext]_aaaVars

\* The command workers alone: their loop keeps consuming events and finishes
\* what it took.
CommandSpec ==
  /\ AaaSpec
  /\ part = "commands"
  /\ WF_aaaVars(\E w \in Workers, c \in Commands :
                   Cmd!Consume(w, c) /\ UNCHANGED <<part, vars, accountingVars>>)
  /\ \A w \in Workers :
       /\ WF_aaaVars(Cmd!Take(w) /\ UNCHANGED <<part, vars, accountingVars>>)
       /\ WF_aaaVars(\E outcome \in Cmd!Outcomes :
                        Cmd!Send(w, outcome) /\ UNCHANGED <<part, vars, accountingVars>>)

\* The types of the three components.
AaaTypeOK == TypeOK /\ Acct!TypeOK /\ Cmd!TypeOK

\* Usage equals the sessions' counters and FUP follows it (AaaAccounting).
UsageIsExact == Acct!UsageIsExact

\* A session is shown disconnected only on the NAS's word (RadiusCommands).
DisconnectedByNas == Cmd!DisconnectedByNas

\* A queued command is taken up (RadiusCommands).
CommandsAreTaken == Cmd!CommandsAreTaken
============================================================================
