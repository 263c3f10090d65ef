------------------------------ MODULE UdpBindings ------------------------------
(***************************************************************************)
(* The table of UDP ports and their handlers (kernel/net.c): net_udp_bind, *)
(* net_udp_unbind and the lookup net_handle_packet does, as operators on a *)
(* table t, a function from slots to [active, port, handler].              *)
(***************************************************************************)
EXTENDS Integers, FiniteSets, FiniteSetsExt

NoBinding == [active |-> FALSE, port |-> "0", handler |-> "none"]

ActiveOn(t, port) == { i \in DOMAIN t : t[i].active /\ t[i].port = port }

FreeSlots(t) == { i \in DOMAIN t : ~ t[i].active }

\* A second bind of a port replaces the handler; a full table changes nothing.
net_udp_bind(t, port, handler) ==
  IF ActiveOn(t, port) # {} THEN [t EXCEPT ![Min(ActiveOn(t, port))].handler = handler]
  ELSE IF FreeSlots(t) = {} THEN t
  ELSE [t EXCEPT ![Min(FreeSlots(t))] = [active |-> TRUE, port |-> port, handler |-> handler]]

\* Whoever bound the port, it is free afterwards.  Nothing reads the port and the
\* handler of a slot that is not active.
net_udp_unbind(t, port) ==
  IF ActiveOn(t, port) = {} THEN t
  ELSE [t EXCEPT ![Min(ActiveOn(t, port))] = NoBinding]

\* The handler a datagram for the port reaches: the first match.
Reaches(t, port, handler) ==
  ActiveOn(t, port) # {} /\ t[Min(ActiveOn(t, port))].handler = handler
================================================================================
