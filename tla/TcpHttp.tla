-------------------------------- MODULE TcpHttp --------------------------------
(***************************************************************************)
(* The HTTP GET over the one TCP connection of kernel/net.c, against a     *)
(* server that follows the TCP standard, over a network that loses,        *)
(* duplicates, delays and reorders segments.                               *)
(*                                                                         *)
(* Position 0 of the server's stream is its SYN, 1..Response the units of  *)
(* the response and Response + 1 its FIN; a sequence number is a position  *)
(* shifted by the initial one, modulo SeqSpace.  A unit of the response is *)
(* named by its connection and its position.                               *)
(*                                                                         *)
(* The clock runs only in a caller whose interrupts are enabled; the one   *)
(* caller in the tree, system call 63, keeps them off.                     *)
(***************************************************************************)
EXTENDS Integers, Sequences, FiniteSets

CONSTANTS
  SeqSpace,      \* 2^32 in the code
  FirstPort,     \* 49152
  LastPort,      \* 65535
  Isns,          \* initial sequence numbers either side may pick
  Response,      \* units in the server's answer
  OutSize,       \* units that fit the caller's buffer
  Mss,           \* units in a segment, at most
  Window,        \* units the server sends ahead of the acknowledgements
  ClockRuns,     \* are timer ticks delivered to the waiting caller?
  Repeats,       \* does the network repeat segments?
  MaxCalls,      \* bound on the calls of net_http_get
  MaxLost        \* bound on the segments the network loses

ASSUME TcpAssumption ==
  /\ {SeqSpace, FirstPort, LastPort, Response, OutSize, Mss, Window} \subseteq Nat
  /\ {MaxCalls, MaxLost} \subseteq Nat
  /\ Isns \subseteq 0..(SeqSpace - 1)
  /\ Response + 2 < SeqSpace
  /\ ClockRuns \in BOOLEAN /\ Repeats \in BOOLEAN

\* No local port comes round again within the calls considered; there are 16384.
ASSUME FreshPorts == FirstPort <= LastPort /\ FirstPort + MaxCalls <= LastPort + 1

VARIABLES
  http,          \* where net_http_get is: idle, connecting, connected, receiving
  tcp_conn,      \* the connection block
  tcp_next_local_port,
  tries,         \* SYNs sent by net_tcp_connect
  recv,          \* what is in the receive buffer; <<>> with no buffer set
  srv,           \* the server's side of each connection (external)
  segments,      \* segments on their way
  calls, lost,   \* bounded by MaxCalls and MaxLost
  returned       \* what the last call of net_http_get gave its caller

tcpvars == <<http, tcp_conn, tcp_next_local_port, tries, recv, srv, segments,
             calls, lost, returned>>

Closed == [state |-> "CLOSED", local_port |-> FirstPort, local_seq |-> 0,
           remote_seq |-> 0, fin_received |-> FALSE]

LocalPorts == FirstPort..LastPort

Listening(p) == [state |-> "listen", port |-> p, iss |-> 0, rcv |-> 0,
                 asked |-> FALSE, una |-> 0, nxt |-> 0]

NoReturn == [code |-> "none", data |-> <<>>]

Least(a, b) == IF a < b THEN a ELSE b

SeqNo(iss, position) == (iss + position) % SeqSpace

Units(p, from, n) == [i \in 1..n |-> <<p, from + i - 1>>]

\* The request is one unit.
Request == <<<<tcp_conn.local_port, 0>>>>

(***************************************************************************)
(* Segments.  net_send_tcp_segment carries remote_seq exactly when ACK is  *)
(* among the flags.  A send that fails before the wire is a segment lost.  *)
(***************************************************************************)
net_send_tcp_segment(c, flags, payload) ==
  [to |-> "server", port |-> c.local_port, flags |-> flags, seq |-> c.local_seq,
   ack |-> IF "ACK" \in flags THEN c.remote_seq ELSE 0, data |-> payload]

FromServer(s, flags, position, data) ==
  [to |-> "client", port |-> s.port, flags |-> flags, seq |-> SeqNo(s.iss, position),
   ack |-> s.rcv, data |-> data]

(***************************************************************************)
(* The client.                                                             *)
(***************************************************************************)
net_tcp_connect(isn) ==
  /\ http = "idle" /\ calls < MaxCalls
  /\ LET c == [state |-> "SYN_SENT", local_port |-> tcp_next_local_port,
               local_seq |-> isn, remote_seq |-> 0, fin_received |-> FALSE]
     IN /\ tcp_conn' = c
        /\ segments' = segments \cup {net_send_tcp_segment(c, {"SYN"}, <<>>)}
  /\ tcp_next_local_port' = IF tcp_next_local_port = LastPort
                              THEN FirstPort ELSE tcp_next_local_port + 1
  /\ http' = "connecting" /\ tries' = 1 /\ calls' = calls + 1
  /\ returned' = NoReturn
  /\ UNCHANGED <<recv, srv, lost>>

\* The second of waiting for the SYN+ACK is over: two more SYNs, then -2.
syn_timeout ==
  /\ ClockRuns /\ http = "connecting" /\ tcp_conn.state = "SYN_SENT"
  /\ IF tries < 3
       THEN /\ tries' = tries + 1
            /\ segments' = segments \cup {net_send_tcp_segment(tcp_conn, {"SYN"}, <<>>)}
            /\ UNCHANGED <<http, tcp_conn, returned>>
       ELSE /\ tcp_conn' = [tcp_conn EXCEPT !.state = "CLOSED"]
            /\ http' = "idle" /\ returned' = [code |-> "-2", data |-> <<>>]
            /\ UNCHANGED <<tries, segments>>
  /\ UNCHANGED <<tcp_next_local_port, recv, srv, calls, lost>>

\* The polling loop of net_tcp_connect sees the state the handler left.
connect_returns ==
  /\ http = "connecting" /\ tcp_conn.state # "SYN_SENT"
  /\ IF tcp_conn.state = "ESTABLISHED"
       THEN http' = "connected" /\ UNCHANGED returned
       ELSE http' = "idle" /\ returned' = [code |-> "-2", data |-> <<>>]
  /\ UNCHANGED <<tcp_conn, tcp_next_local_port, tries, recv, srv, segments, calls, lost>>

\* The request is sent once and the receive buffer is set up; a request that
\* cannot be sent aborts the connection.
net_tcp_abort(c) ==
  /\ segments' = IF c.state \in {"ESTABLISHED", "SYN_SENT"}
              THEN segments \cup {net_send_tcp_segment(c, {"RST", "ACK"}, <<>>)} ELSE segments
  /\ tcp_conn' = [c EXCEPT !.state = "CLOSED"]

send_request ==
  /\ http = "connected"
  /\ \/ /\ segments' = segments \cup {net_send_tcp_segment(tcp_conn, {"PSH", "ACK"}, Request)}
        /\ tcp_conn' = [tcp_conn EXCEPT !.local_seq = SeqNo(@, 1)]
        /\ http' = "receiving" /\ recv' = <<>>
        /\ UNCHANGED returned
     \/ /\ net_tcp_abort(tcp_conn)
        /\ http' = "idle" /\ returned' = [code |-> "-3", data |-> <<>>]
        /\ UNCHANGED recv
  /\ UNCHANGED <<tcp_next_local_port, tries, srv, calls, lost>>

\* Variant: whatever comes is taken for the next segment.
InOrderAny(c, m) == TRUE

\* net_handle_tcp, from net_poll: what connection c makes of segment m, as the
\* connection, the buffer and the answer that follow.  Segments come in while
\* some call polls: in the two loops, and in the ARP wait before the request.
\* What the peer sent before, or ahead of what is expected, is dropped silently.
InOrder(c, m) == m.seq = c.remote_seq

Copied(m) ==
  IF http = "receiving"
    THEN SubSeq(recv \o m.data, 1, Least(OutSize, Len(recv) + Len(m.data)))
    ELSE recv

After(c, m) == [c EXCEPT !.remote_seq = SeqNo(@, Len(m.data))]

Only(c) == [conn |-> c, recv |-> recv, answer |-> {}]

Handled(c, m) ==
  IF c.state \in {"CLOSED", "DONE"} \/ m.port # c.local_port THEN Only(c)
  ELSE IF "RST" \in m.flags THEN Only([c EXCEPT !.state = "DONE"])
  ELSE
  CASE c.state = "SYN_SENT" /\ {"SYN", "ACK"} \subseteq m.flags /\ m.ack = SeqNo(c.local_seq, 1) ->
         LET up == [c EXCEPT !.local_seq = SeqNo(@, 1), !.remote_seq = SeqNo(m.seq, 1),
                             !.state = "ESTABLISHED"]
         IN [conn |-> up, recv |-> recv, answer |-> {net_send_tcp_segment(up, {"ACK"}, <<>>)}]
    [] c.state = "ESTABLISHED" /\ InOrder(c, m) /\ "FIN" \in m.flags ->
         LET end == [After(c, m) EXCEPT !.remote_seq = SeqNo(@, 1), !.fin_received = TRUE]
         IN [conn |-> [end EXCEPT !.local_seq = SeqNo(@, 1), !.state = "DONE"],
             recv |-> Copied(m), answer |-> {net_send_tcp_segment(end, {"FIN", "ACK"}, <<>>)}]
    [] c.state = "ESTABLISHED" /\ InOrder(c, m) /\ "FIN" \notin m.flags /\ m.data # <<>> ->
         [conn |-> After(c, m), recv |-> Copied(m),
          answer |-> {net_send_tcp_segment(After(c, m), {"ACK"}, <<>>)}]
    [] OTHER -> Only(c)

net_handle_tcp(m, rest) ==
  /\ http # "idle" /\ m.to = "client"
  /\ \E h \in {Handled(tcp_conn, m)} :
       tcp_conn' = h.conn /\ recv' = h.recv /\ segments' = rest \cup h.answer
  /\ UNCHANGED <<http, tcp_next_local_port, tries, srv, calls, lost, returned>>

\* The receive loop ends: connection closed, buffer full, or five seconds over.
http_returns ==
  /\ http = "receiving"
  /\ tcp_conn.state # "ESTABLISHED" \/ Len(recv) >= OutSize \/ ClockRuns
  /\ IF tcp_conn.state # "DONE" THEN net_tcp_abort(tcp_conn) ELSE UNCHANGED <<segments, tcp_conn>>
  /\ returned' =
       IF recv = <<>> /\ ~(tcp_conn.state = "DONE" /\ tcp_conn.fin_received)
         THEN [code |-> "-4", data |-> <<>>]
         ELSE [code |-> IF tcp_conn.fin_received THEN "closed" ELSE "cut", data |-> recv]
  /\ http' = "idle"
  /\ UNCHANGED <<tcp_next_local_port, tries, recv, srv, calls, lost>>

(***************************************************************************)
(* The server (external): it accepts or refuses, retransmits what is not   *)
(* acknowledged, packing units into segments as it likes, and may reset.   *)
(***************************************************************************)
Rest == <<http, tcp_conn, tcp_next_local_port, tries, recv, calls, lost, returned>>

srv_syn(m, rest, iss) ==
  /\ m.to = "server" /\ m.flags = {"SYN"}
  /\ IF srv[m.port].state # "listen" THEN segments' = rest /\ UNCHANGED srv
     ELSE LET s == [Listening(m.port) EXCEPT !.state = "syn_rcvd", !.iss = iss,
                                             !.rcv = SeqNo(m.seq, 1), !.nxt = 1]
          IN \/ /\ srv' = [srv EXCEPT ![m.port] = s]
                /\ segments' = rest \cup {FromServer(s, {"SYN", "ACK"}, 0, <<>>)}
             \/ /\ srv' = [srv EXCEPT ![m.port].state = "closed"]
                /\ segments' = rest \cup {FromServer(s, {"RST", "ACK"}, 0, <<>>)}
  /\ UNCHANGED Rest

Advanced(s, m) ==
  LET by == (m.ack - SeqNo(s.iss, s.una)) % SeqSpace
      a  == IF by <= s.nxt - s.una THEN [s EXCEPT !.una = @ + by] ELSE s
  IN IF a.una > 0 THEN [a EXCEPT !.state = "open"] ELSE a

srv_segment(m, rest) ==
  /\ m.to = "server" /\ "SYN" \notin m.flags
  /\ segments' = rest
  /\ LET s == srv[m.port]
         a == Advanced(s, m)
     IN srv' = [srv EXCEPT ![m.port] =
          CASE s.state \in {"listen", "closed"} -> s
            [] s.state \in {"syn_rcvd", "open"} /\ "RST" \in m.flags -> [s EXCEPT !.state = "closed"]
            [] OTHER -> IF m.data # <<>> /\ m.seq = s.rcv /\ a.state = "open"
                          THEN [a EXCEPT !.asked = TRUE, !.rcv = SeqNo(@, 1)] ELSE a]
  /\ UNCHANGED Rest

\* From the first position not acknowledged up to the window, the FIN included.
srv_transmit(p, from, n) ==
  LET s   == srv[p]
      fin == from + n - 1 = Response + 1
  IN /\ s.state = "open" /\ s.asked
     /\ from \in s.una..s.nxt /\ from + n <= s.una + Window /\ from + n - 1 <= Response + 1
     /\ segments' = segments \cup {FromServer(s, IF fin THEN {"ACK", "FIN"} ELSE {"ACK"}, from,
                                    Units(p, from, IF fin THEN n - 1 ELSE n))}
     /\ srv' = [srv EXCEPT ![p].nxt = IF @ < from + n THEN from + n ELSE @]
     /\ UNCHANGED Rest

srv_resend_syn(p) ==
  /\ srv[p].state = "syn_rcvd"
  /\ segments' = segments \cup {FromServer(srv[p], {"SYN", "ACK"}, 0, <<>>)}
  /\ UNCHANGED <<srv, Rest>>

srv_reset(p) ==
  /\ srv[p].state \in {"syn_rcvd", "open"}
  /\ segments' = segments \cup {FromServer(srv[p], {"RST"}, srv[p].nxt, <<>>)}
  /\ srv' = [srv EXCEPT ![p].state = "closed"]
  /\ UNCHANGED Rest

lose(m) ==
  /\ lost < MaxLost
  /\ segments' = segments \ {m} /\ lost' = lost + 1
  /\ UNCHANGED <<http, tcp_conn, tcp_next_local_port, tries, recv, srv, calls, returned>>

(***************************************************************************)
(* Where it repeats them, a delivered segment stays on its way: it may    *)
(* arrive again, at any time, or never.                                    *)
(***************************************************************************)
Left(m) == IF Repeats THEN segments ELSE segments \ {m}

TcpInit ==
  /\ http = "idle" /\ tcp_conn = Closed /\ tcp_next_local_port = FirstPort
  /\ tries = 0 /\ recv = <<>> /\ segments = {}
  /\ srv = [p \in LocalPorts |-> Listening(p)]
  /\ calls = 0 /\ lost = 0 /\ returned = NoReturn

Deliver(m, rest) ==
  net_handle_tcp(m, rest) \/ srv_segment(m, rest) \/ \E iss \in Isns : srv_syn(m, rest, iss)

Serve(p) ==
  srv_resend_syn(p) \/ \E from \in 0..(Response + 1), n \in 1..Mss : srv_transmit(p, from, n)

Client == syn_timeout \/ connect_returns \/ send_request \/ http_returns

TcpNext ==
  \/ \E isn \in Isns : net_tcp_connect(isn)
  \/ Client
  \/ \E p \in LocalPorts : Serve(p) \/ srv_reset(p)
  \/ \E m \in segments : lose(m) \/ Deliver(m, Left(m))

TcpSpec == TcpInit /\ [][TcpNext]_tcpvars

(***************************************************************************)
(* Properties.                                                             *)
(***************************************************************************)
Stream(n) == Units(tcp_conn.local_port, 1, n)

\* While net_http_get waits, and in what it returns, the buffer holds the first
\* units of the current connection's response in their order, none missing, none
\* twice and none of another connection, whatever the network does to segments
\* (net_handle_tcp: "a segment whose sequence number doesn't match exactly what
\* we expect is dropped").  A response ended by the server's FIN is complete as
\* far as the buffer goes, and the server is never told of data it has not sent.
ResponseExact ==
  /\ http = "receiving" => recv = Stream(Len(recv))
  /\ returned.data = Stream(Len(returned.data))
  /\ returned.code = "closed" => Len(returned.data) = Least(OutSize, Response)
  /\ tcp_conn.state = "ESTABLISHED" =>
       (tcp_conn.remote_seq - srv[tcp_conn.local_port].iss) % SeqSpace <= srv[tcp_conn.local_port].nxt

\* Fair delivery: the server keeps retransmitting, and of each kind of segment
\* sent again and again one gets through.
FairNetwork ==
  /\ WF_tcpvars(Client)
  /\ \A p \in LocalPorts : WF_tcpvars(srv_resend_syn(p))
  /\ \A p \in LocalPorts, from \in 0..(Response + 1) :
       WF_tcpvars(\E n \in 1..Mss : srv_transmit(p, from, n))
  /\ \A s \in 0..(SeqSpace - 1) : \A who \in {"client", "server"} :
       SF_tcpvars(\E m \in segments : /\ m.to = who /\ (IF who = "client" THEN m.seq ELSE m.ack) = s
                                 /\ Deliver(m, Left(m)))

FairTcpSpec == TcpSpec /\ FairNetwork

\* A server that has the request and retransmits until it is acknowledged gets its
\* response across (the TCP client's comment: "Inbound reliability is the remote
\* peer's problem, as with any TCP receiver -- we just need to ACK promptly, which
\* we do").  It does not hold: a segment whose acknowledgement was lost is not
\* acknowledged again when the server repeats it.
ResponseArrives ==
  (http = "receiving" /\ srv[tcp_conn.local_port].asked)
    ~> (http # "receiving" \/ srv[tcp_conn.local_port].state = "closed")

================================================================================
