-------------------------------- MODULE IpcPorts --------------------------------
(***************************************************************************)
(* Message ports (kernel/ipc.c): a registry of one-message mailboxes.      *)
(* A message is [body, length]; ipc_send clips the length it is given.     *)
(* Nothing in the kernel deactivates a port.                               *)
(*                                                                         *)
(* sent and received are history: the bodies a port accepted and gave out. *)
(***************************************************************************)
EXTENDS Integers, Sequences, FiniteSets, FiniteSetsExt

CONSTANTS
  MAX_PORTS,
  MSG_PAYLOAD_SIZE,
  Tasks,
  Bodies,
  Lengths,     \* the lengths senders pass, some above MSG_PAYLOAD_SIZE
  MaxSends     \* bound on the messages one port accepts

ASSUME PortAssumption ==
  /\ MAX_PORTS \in Nat \ {0}
  /\ MSG_PAYLOAD_SIZE \in Nat
  /\ Tasks # {} /\ Bodies # {} /\ Lengths \subseteq Nat
  /\ MaxSends \in Nat

VARIABLES port_registry, sent, received

portvars == <<port_registry, sent, received>>

Ports == 0 .. MAX_PORTS - 1

Message == [body : Bodies, length : 0 .. MSG_PAYLOAD_SIZE]

NoMessage == [body |-> CHOOSE b \in Bodies : TRUE, length |-> 0]

Inactive == { p \in Ports : ~ port_registry[p].active }

PortInit ==
  /\ port_registry = [p \in Ports |-> [active |-> FALSE, has_message |-> FALSE,
                                       owner |-> CHOOSE t \in Tasks : TRUE,
                                       message |-> NoMessage]]
  /\ sent = [p \in Ports |-> <<>>]
  /\ received = [p \in Ports |-> <<>>]

\* The first inactive slot; with none the call returns 0xFFFFFFFF.
ipc_create_port(owner) ==
  /\ Inactive # {}
  /\ LET p == Min(Inactive) IN
       /\ port_registry' = [port_registry EXCEPT ![p].active = TRUE,
                                                 ![p].has_message = FALSE,
                                                 ![p].owner = owner]
  /\ UNCHANGED <<sent, received>>

\* A send that overwrites a message nobody has read.
SendOverwrites(p, body, length) ==
  /\ port_registry[p].active
  /\ Len(sent[p]) < MaxSends
  /\ port_registry' = [port_registry EXCEPT
       ![p].message = [body |-> body, length |-> Min({length, MSG_PAYLOAD_SIZE})],
       ![p].has_message = TRUE]
  /\ sent' = [sent EXCEPT ![p] = Append(@, body)]
  /\ UNCHANGED received

\* -1, and nothing changes, for a port that is inactive or full.
ipc_send(p, body, length) ==
  /\ port_registry[p].active
  /\ ~ port_registry[p].has_message
  /\ Len(sent[p]) < MaxSends
  /\ port_registry' = [port_registry EXCEPT
       ![p].message = [body |-> body, length |-> Min({length, MSG_PAYLOAD_SIZE})],
       ![p].has_message = TRUE]
  /\ sent' = [sent EXCEPT ![p] = Append(@, body)]
  /\ UNCHANGED received

ipc_receive(p) ==
  /\ port_registry[p].active
  /\ port_registry[p].has_message
  /\ received' = [received EXCEPT ![p] = Append(@, port_registry[p].message.body)]
  /\ port_registry' = [port_registry EXCEPT ![p].has_message = FALSE]
  /\ UNCHANGED sent

PortNext ==
  \/ \E owner \in Tasks : ipc_create_port(owner)
  \/ \E p \in Ports, body \in Bodies, length \in Lengths : ipc_send(p, body, length)
  \/ \E p \in Ports : ipc_receive(p)

PortSpec == PortInit /\ [][PortNext]_portvars

--------------------------------------------------------------------------------
(* Properties. *)

\* The types of the registry: in particular a stored message never claims more
\* than its payload holds.
PortTypeOK ==
  port_registry \in [Ports -> [active : BOOLEAN, has_message : BOOLEAN, owner : Tasks,
                               message : Message]]

\* A port is a queue of one place: messages come out in the order they went in,
\* none twice and none lost, and has_message tells whether one is inside.
MailboxFifo ==
  \A p \in Ports :
    sent[p] = received[p] \o (IF port_registry[p].has_message
                              THEN <<port_registry[p].message.body>> ELSE <<>>)
================================================================================
