-------------------------------- MODULE NetQuery --------------------------------
(***************************************************************************)
(* Questions to the hosts of the link (kernel/net.c): the ARP cache and    *)
(* the resolution of an address, ping, the DNS resolver, and the frame     *)
(* handler that learns addresses and takes answers.  Frames may be lost,   *)
(* delayed and repeated.                                                   *)
(*                                                                         *)
(* A host stands for its IP address and for its MAC address; the kernel's  *)
(* own are Me.  The other hosts are external: each answers what is sent to *)
(* it and may ask for Me's address or ping it.                             *)
(***************************************************************************)
EXTENDS Integers, Sequences, FiniteSets

CONSTANTS
  Me, Hosts,
  Askers,           \* the hosts that send to Me unasked
  DnsServer,        \* net_config.dns, one of Hosts
  AddressOf,        \* what the DNS server knows: a name to a host
  ARP_CACHE_SIZE,
  TicksArrive,      \* are timer ticks delivered to a waiting caller?
  MaxQueries        \* bound on the calls

ASSUME QueryAssumption ==
  /\ Me \notin Hosts /\ DnsServer \in Hosts /\ Askers \subseteq Hosts
  /\ \A n \in DOMAIN AddressOf : AddressOf[n] \in Hosts
  /\ ARP_CACHE_SIZE \in Nat \ {0} /\ TicksArrive \in BOOLEAN /\ MaxQueries \in Nat

VARIABLES
  arp_cache,        \* slots [ip, mac]; an unused slot has ip = Me
  victim,           \* the next slot to evict
  asking,           \* the call in progress: what, whom, and the step it waits in
  reply,            \* ping_reply_received, or dns_reply_received with its address
  link,             \* frames sent so far; each may arrive any number of times
  queries,
  answered          \* the calls that returned an answer: [what, whom, answer, from]

qryvars == <<arp_cache, victim, asking, reply, link, queries, answered>>

Slots == 1..ARP_CACHE_SIZE
Unused == [ip |-> Me, mac |-> Me]
NoCall == [what |-> "none", whom |-> Me, at |-> "idle"]
NoReply == [to |-> Me, from |-> Me]

Frame(kind, from, to, mac, body) ==
  [kind |-> kind, from |-> from, to |-> to, mac |-> mac, body |-> body]

FirstSlot(S) == CHOOSE i \in S : \A j \in S : i <= j

(***************************************************************************)
(* The ARP cache: refresh the entry, else take a free slot, else evict.    *)
(***************************************************************************)
Holding(ip) == {i \in Slots : arp_cache[i].ip = ip}

\* Variant: an address that is known already takes another slot.
arp_cache_add_again(ip, mac) ==
  IF Holding(Me) # {}
    THEN arp_cache' = [arp_cache EXCEPT ![FirstSlot(Holding(Me))] = [ip |-> ip, mac |-> mac]]
         /\ UNCHANGED victim
  ELSE /\ arp_cache' = [arp_cache EXCEPT ![victim] = [ip |-> ip, mac |-> mac]]
       /\ victim' = 1 + (victim % ARP_CACHE_SIZE)

arp_cache_add(ip, mac) ==
  IF Holding(ip) # {}
    THEN arp_cache' = [arp_cache EXCEPT ![FirstSlot(Holding(ip))].mac = mac] /\ UNCHANGED victim
  ELSE IF Holding(Me) # {}
    THEN arp_cache' = [arp_cache EXCEPT ![FirstSlot(Holding(Me))] = [ip |-> ip, mac |-> mac]]
         /\ UNCHANGED victim
  ELSE /\ arp_cache' = [arp_cache EXCEPT ![victim] = [ip |-> ip, mac |-> mac]]
       /\ victim' = 1 + (victim % ARP_CACHE_SIZE)

(***************************************************************************)
(* net_ping and net_dns_resolve.  Both look the destination up, ask for it *)
(* and poll; then send and poll.  A ping has the identifier and sequence   *)
(* number of every other ping; a query has the transaction number that the *)
(* MAC address gives every query, and its own socket only while it waits.  *)
(***************************************************************************)
Destination(what, whom) == IF what = "ping" THEN whom ELSE DnsServer

net_send_arp_request(ip) == Frame("arp_request", Me, ip, "all", "")

Question(what, whom, mac) == Frame(what, Me, Destination(what, whom), mac, whom)

begin(what, whom) ==
  /\ asking = NoCall /\ queries < MaxQueries
  /\ queries' = queries + 1 /\ reply' = NoReply
  /\ LET found == Holding(Destination(what, whom))
     IN IF found # {}
          THEN /\ asking' = [what |-> what, whom |-> whom, at |-> "answer"]
               /\ link' = link \cup {Question(what, whom, arp_cache[FirstSlot(found)].mac)}
          ELSE /\ asking' = [what |-> what, whom |-> whom, at |-> "arp"]
               /\ link' = link \cup {net_send_arp_request(Destination(what, whom))}
  /\ UNCHANGED <<arp_cache, victim, answered>>

net_ping(host) == begin("ping", host)
net_dns_resolve(name) == begin("query", name)

net_resolve_mac ==
  LET found == Holding(Destination(asking.what, asking.whom))
  IN /\ asking.at = "arp" /\ found # {}
     /\ asking' = [asking EXCEPT !.at = "answer"]
     /\ link' = link \cup {Question(asking.what, asking.whom, arp_cache[FirstSlot(found)].mac)}
     /\ reply' = IF asking.what = "ping" THEN NoReply ELSE reply
     /\ UNCHANGED <<arp_cache, victim, queries, answered>>

query_returns ==
  /\ asking.at = "answer" /\ reply # NoReply
  /\ asking' = NoCall
  /\ answered' = answered \cup {[what |-> asking.what, whom |-> asking.whom, answer |-> reply]}
  /\ UNCHANGED <<arp_cache, victim, reply, link, queries>>

\* The deadline of a wait passes: a ping gives up; a resolver whose server has no
\* address waits for the answer to the query it could not send, then gives up.
query_timeout ==
  /\ TicksArrive /\ asking # NoCall
  /\ asking' = IF asking.at = "arp" /\ asking.what = "query"
                 THEN [asking EXCEPT !.at = "answer"] ELSE NoCall
  /\ UNCHANGED <<arp_cache, victim, reply, link, queries, answered>>

(***************************************************************************)
(* net_handle_packet, from net_poll: any caller that waits polls, and the  *)
(* network task polls in between.                                          *)
(***************************************************************************)
net_handle_arp(f) ==
  /\ f.kind \in {"arp_request", "arp_reply"}
  /\ arp_cache_add(f.from, f.from)
  /\ link' = IF f.kind = "arp_request" /\ f.to = Me
               THEN link \cup {Frame("arp_reply", Me, f.from, f.from, "")} ELSE link
  /\ UNCHANGED reply

net_handle_icmp(f) ==
  /\ f.kind \in {"ping", "pong"} /\ arp_cache_add(f.from, f.from)
  /\ link' = IF f.kind = "ping" THEN link \cup {Frame("pong", Me, f.from, f.from, f.body)} ELSE link
  /\ reply' = IF f.kind = "pong" /\ asking.what = "ping"
                THEN [to |-> asking.whom, from |-> f.from] ELSE reply

dns_udp_handler(f) ==
  /\ f.kind = "result" /\ arp_cache_add(f.from, f.from)
  /\ reply' = IF asking.what = "query" THEN [to |-> AddressOf[f.body], from |-> f.from] ELSE reply
  /\ UNCHANGED link

net_handle_packet(f) ==
  /\ f.mac \in {Me, "all"} /\ f.from # Me
  /\ net_handle_arp(f) \/ net_handle_icmp(f) \/ dns_udp_handler(f)
  /\ UNCHANGED <<asking, queries, answered>>

(***************************************************************************)
(* The other hosts (external).                                             *)
(***************************************************************************)
host_answers(f) ==
  /\ f.from = Me
  /\ link' = link \cup
       (CASE f.kind = "arp_request" -> {Frame("arp_reply", f.to, Me, Me, "")}
          [] f.kind = "ping" /\ f.mac = f.to -> {Frame("pong", f.to, Me, Me, f.body)}
          [] f.kind = "query" /\ f.mac = f.to -> {Frame("result", f.to, Me, Me, f.body)}
          [] OTHER -> {})
  /\ UNCHANGED <<arp_cache, victim, asking, reply, queries, answered>>

host_asks(h) ==
  /\ \E f \in {Frame("arp_request", h, Me, "all", ""), Frame("ping", h, Me, Me, h)} :
       link' = link \cup {f}
  /\ UNCHANGED <<arp_cache, victim, asking, reply, queries, answered>>

QryInit ==
  /\ arp_cache = [i \in Slots |-> Unused] /\ victim = 1
  /\ asking = NoCall /\ reply = NoReply /\ link = {} /\ queries = 0 /\ answered = {}

QryNext ==
  \/ \E h \in Hosts : net_ping(h)
  \/ \E h \in Askers : host_asks(h)
  \/ \E n \in DOMAIN AddressOf : net_dns_resolve(n)
  \/ net_resolve_mac \/ query_returns \/ query_timeout
  \/ \E f \in link : net_handle_packet(f) \/ host_answers(f)

QrySpec == QryInit /\ [][QryNext]_qryvars

(***************************************************************************)
(* Properties.                                                             *)
(***************************************************************************)

\* The cache never holds an address twice, through refreshes, evictions and
\* learning from every frame (arp_cache_add), and every frame that goes to one host
\* goes to the MAC address of the host it is for (net_resolve_mac).
AddressedRight ==
  /\ \A i, j \in Slots : arp_cache[i].ip = arp_cache[j].ip /\ arp_cache[i].ip # Me => i = j
  /\ \A f \in link : f.from = Me => f.mac \in {f.to, "all"}

\* net_dns_resolve fills in the address of the name it was asked for (net.h:
\* "resolve hostname to IPv4. Returns 1+fills out_ip on success").  It does not hold: every query
\* carries the same id, so a late answer to an earlier name is taken.
ResolvesOwnName ==
  \A a \in answered : a.what = "query" => a.answer.to = AddressOf[a.whom]

================================================================================
