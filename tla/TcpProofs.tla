------------------------------- MODULE TcpProofs -------------------------------
(***************************************************************************)
(* What net_http_get returns is the response to this very call, whatever   *)
(* the network does to its segments, for every response, buffer, window,   *)
(* sequence space and number of calls within one round of the local ports. *)
(***************************************************************************)
EXTENDS TcpHttp, SequenceTheorems, TLAPS

\* x reduced into 0..n-1, for x below 2n.
Wrap(x, n) == IF x < n THEN x ELSE x - n

\* Modulo n, for a number below 2n.
LEMMA ModWrap ==
  ASSUME NEW n \in Nat \ {0}, NEW x \in 0..(2 * n - 1)
  PROVE  x % n = Wrap(x, n) /\ Wrap(x, n) \in 0..(n - 1)
<1>1. CASE x < n
  BY <1>1 DEF Wrap
<1>2. CASE ~(x < n)
  <2>1. x - n \in 0..(n - 1) BY <1>2
  <2>2. x % n = (x - n) % n BY <2>1
  <2> QED BY <2>1, <2>2, <1>2 DEF Wrap
<1> QED BY <1>1, <1>2

\* The distance from b to a, modulo n.
LEMMA ModBack ==
  ASSUME NEW n \in Nat \ {0}, NEW a \in 0..(n - 1), NEW b \in 0..(n - 1)
  PROVE  (a - b) % n = IF a >= b THEN a - b ELSE a - b + n
<1>1. CASE a >= b
  BY <1>1
<1>2. CASE ~(a >= b)
  <2>1. a - b + n \in 0..(n - 1) BY <1>2
  <2>2. (a - b) % n = (a - b + n) % n BY <2>1
  <2> QED BY <2>1, <2>2, <1>2
<1> QED BY <1>1, <1>2

\* The port of the last call.
Used == FirstPort + calls - 1

ServerSides == [state : {"listen", "syn_rcvd", "open", "closed"}, port : LocalPorts,
                iss : 0..(SeqSpace - 1), rcv : Int, asked : BOOLEAN, una : Nat, nxt : Nat]

Connections == [state : {"CLOSED", "SYN_SENT", "ESTABLISHED", "DONE"}, local_port : LocalPorts,
                local_seq : Int, remote_seq : Int, fin_received : BOOLEAN]

TcpType ==
  /\ http \in {"idle", "connecting", "connected", "receiving"}
  /\ tcp_conn \in Connections /\ calls \in 0..MaxCalls
  /\ srv \in [LocalPorts -> ServerSides]
  /\ \A m \in segments : m.port \in LocalPorts /\ m.ack \in Int /\ m.seq \in Int

\* The calls take the ports in their order, and what no call has used is untouched.
PortsInv ==
  /\ calls > 0 => tcp_conn.local_port = Used
  /\ calls = 0 => http = "idle" /\ tcp_conn.local_port = FirstPort
  /\ calls < MaxCalls => tcp_next_local_port = FirstPort + calls
  /\ \A m \in segments : m.port <= Used
  /\ \A p \in LocalPorts : p > Used => srv[p] = Listening(p)

\* Has the request of the call on port p been sent?
Sent(p) == p < tcp_conn.local_port \/ (p = tcp_conn.local_port /\ http \in {"idle", "receiving"})

ServerInv ==
  /\ \A p \in LocalPorts :
       /\ srv[p].port = p /\ srv[p].una <= srv[p].nxt /\ srv[p].nxt <= Response + 2
       /\ srv[p].asked => Sent(p)
       /\ srv[p].state = "syn_rcvd" => srv[p].nxt >= 1
  /\ \A m \in segments : m.to = "server" /\ m.data # <<>> => Sent(m.port)

\* A segment for the client is one the server s sent: a reset, its SYN, or a piece of
\* the stream it was asked for.
FromStream(m, s) ==
  \E from \in 0..(Response + 1), k \in 0..(Response + 1) :
     /\ s.asked /\ m.seq = SeqNo(s.iss, from) /\ m.data = Units(m.port, from, k)
     /\ \/ m.flags = {"ACK", "FIN"} /\ from + k = Response + 1 /\ from + k + 1 <= s.nxt
        \/ m.flags = {"ACK"} /\ from + k <= Response + 1 /\ from + k <= s.nxt

Genuine(m, s) ==
  /\ s.state # "listen"
  /\ \/ "RST" \in m.flags
     \/ m.flags = {"SYN", "ACK"} /\ m.seq = SeqNo(s.iss, 0) /\ s.nxt >= 1
     \/ FromStream(m, s)

NetworkInv == \A m \in segments : m.to = "client" => Genuine(m, srv[m.port])

\* The client has taken the stream up to position at, and copied what fits.
TakenTo(at) ==
  LET s == srv[tcp_conn.local_port]
  IN /\ tcp_conn.state = "ESTABLISHED" =>
          /\ s.state # "listen"
          /\ tcp_conn.remote_seq = SeqNo(s.iss, at) /\ at <= s.nxt /\ at <= Response + 1
     /\ tcp_conn.fin_received => at = Response + 2 /\ tcp_conn.state # "ESTABLISHED"
     /\ tcp_conn.state = "SYN_SENT" => http = "connecting"
     /\ IF http = "receiving"
          THEN recv = Units(tcp_conn.local_port, 1, Least(OutSize, Least(at - 1, Response)))
          ELSE at = 1

ClientInv ==
  /\ http = "idle" => tcp_conn.state \in {"CLOSED", "DONE"}
  /\ http # "idle" => returned = NoReturn /\ \E at \in 1..(Response + 2) : TakenTo(at)
  /\ returned.data = Stream(Len(returned.data))
  /\ returned.code = "closed" => Len(returned.data) = Least(OutSize, Response)

TcpInv == TcpType /\ PortsInv /\ ServerInv /\ NetworkInv /\ ClientInv
------------------------------------------------------------------------------
(* Sequence numbers. *)

\* What the constants satisfy.
LEMMA TcpConstants ==
  /\ SeqSpace \in Nat \ {0} /\ Response \in Nat /\ Response + 2 < SeqSpace
  /\ OutSize \in Nat /\ MaxCalls \in Nat /\ FirstPort \in Nat /\ LastPort \in Nat
  /\ FirstPort + MaxCalls <= LastPort + 1 /\ FirstPort \in LocalPorts
  /\ \A i \in Isns : i \in 0..(SeqSpace - 1)
BY TcpAssumption, FreshPorts DEF LocalPorts

\* A sequence number is reduced at most once.
LEMMA SeqNoWraps ==
  ASSUME NEW iss \in 0..(SeqSpace - 1), NEW a \in 0..(Response + 2)
  PROVE  SeqNo(iss, a) = Wrap(iss + a, SeqSpace) /\ SeqNo(iss, a) \in 0..(SeqSpace - 1)
<1>1. iss + a \in 0..(2 * SeqSpace - 1)
  BY TcpConstants
<1> QED
  BY <1>1, TcpConstants, ModWrap DEF SeqNo

\* Positions in the stream add up across the wrap of the sequence numbers.
LEMMA SeqNoAdds ==
  ASSUME NEW iss \in 0..(SeqSpace - 1), NEW a \in Nat, NEW b \in Nat, a + b <= Response + 2
  PROVE  SeqNo(SeqNo(iss, a), b) = SeqNo(iss, a + b)
<1>1. a \in 0..(Response + 2) /\ b \in 0..(Response + 2) /\ a + b \in 0..(Response + 2)
  BY TcpConstants
<1>2. SeqNo(iss, a) = Wrap(iss + a, SeqSpace) /\ SeqNo(iss, a) \in 0..(SeqSpace - 1)
  BY <1>1, SeqNoWraps
<1>3. SeqNo(SeqNo(iss, a), b) = Wrap(SeqNo(iss, a) + b, SeqSpace)
  BY <1>1, <1>2, SeqNoWraps
<1>4. SeqNo(iss, a + b) = Wrap(iss + (a + b), SeqSpace)
  BY <1>1, SeqNoWraps
<1> QED
  BY <1>1, <1>2, <1>3, <1>4, TcpConstants DEF Wrap

\* Two positions of the stream have different sequence numbers.
LEMMA SeqNoInjective ==
  ASSUME NEW iss \in 0..(SeqSpace - 1), NEW a \in 0..(Response + 2), NEW b \in 0..(Response + 2),
         SeqNo(iss, a) = SeqNo(iss, b)
  PROVE  a = b
<1>1. Wrap(iss + a, SeqSpace) = Wrap(iss + b, SeqSpace)
  BY SeqNoWraps
<1> QED
  BY <1>1, TcpConstants DEF Wrap

\* The distance of two sequence numbers is the distance of their positions.
LEMMA SeqNoBack ==
  ASSUME NEW iss \in 0..(SeqSpace - 1), NEW a \in 0..(Response + 2)
  PROVE  (SeqNo(iss, a) - iss) % SeqSpace = a
<1>1. SeqNo(iss, a) = Wrap(iss + a, SeqSpace) /\ SeqNo(iss, a) \in 0..(SeqSpace - 1)
  BY SeqNoWraps
<1>2. (SeqNo(iss, a) - iss) % SeqSpace
        = IF SeqNo(iss, a) >= iss THEN SeqNo(iss, a) - iss ELSE SeqNo(iss, a) - iss + SeqSpace
  BY <1>1, TcpConstants, ModBack
<1> QED
  BY <1>1, <1>2, TcpConstants DEF Wrap

(* The buffer. *)

\* A piece of the stream, unit by unit.
LEMMA UnitsAre ==
  ASSUME NEW p, NEW from \in Int, NEW n \in Nat
  PROVE  /\ Units(p, from, n) \in Seq({p} \X Int) /\ Len(Units(p, from, n)) = n
         /\ \A i \in 1..n : Units(p, from, n)[i] = <<p, from + i - 1>>
BY DEF Units

\* A piece and the piece behind it, cut to what still fits the buffer.
LEMMA UnitsJoin ==
  ASSUME NEW p, NEW a \in Nat, NEW k \in Nat, NEW n \in 0..(a + k)
  PROVE  SubSeq(Units(p, 1, a) \o Units(p, a + 1, k), 1, n) = Units(p, 1, n)
<1> DEFINE u == Units(p, 1, a)
           v == Units(p, a + 1, k)
           w == Units(p, 1, n)
           S == {p} \X Int
<1>1. /\ u \in Seq(S) /\ Len(u) = a /\ \A i \in 1..a : u[i] = <<p, 1 + i - 1>>
      /\ v \in Seq(S) /\ Len(v) = k /\ \A i \in 1..k : v[i] = <<p, (a + 1) + i - 1>>
      /\ w \in Seq(S) /\ Len(w) = n /\ \A i \in 1..n : w[i] = <<p, 1 + i - 1>>
  <2>1. 1 \in Int /\ a + 1 \in Int /\ n \in Nat
    OBVIOUS
  <2>2. u \in Seq(S) /\ Len(u) = a /\ \A i \in 1..a : u[i] = <<p, 1 + i - 1>>
    BY <2>1, UnitsAre
  <2>3. v \in Seq(S) /\ Len(v) = k /\ \A i \in 1..k : v[i] = <<p, (a + 1) + i - 1>>
    BY <2>1, UnitsAre
  <2>4. w \in Seq(S) /\ Len(w) = n /\ \A i \in 1..n : w[i] = <<p, 1 + i - 1>>
    BY <2>1, UnitsAre
  <2> QED
    BY <2>2, <2>3, <2>4
<1> HIDE DEF u, v, w, S
<1>2. /\ u \o v \in Seq(S) /\ Len(u \o v) = a + k
      /\ \A i \in 1..(a + k) : (u \o v)[i] = IF i <= a THEN u[i] ELSE v[i - a]
  BY <1>1, ConcatProperties
<1>3. \A i \in 1..(a + k) : (u \o v)[i] = <<p, 1 + i - 1>>
  <2> TAKE i \in 1..(a + k)
  <2>1. CASE i <= a
    BY <1>1, <1>2, <2>1
  <2>2. CASE ~(i <= a)
    <3>1. i - a \in 1..k /\ (a + 1) + (i - a) - 1 = 1 + i - 1
      BY <2>2
    <3> QED
      BY <1>1, <1>2, <2>2, <3>1
  <2> QED
    BY <2>1, <2>2
<1> DEFINE x == SubSeq(u \o v, 1, n)
<1>4. x \in Seq(S) /\ Len(x) = n /\ \A i \in 1..n : x[i] = (u \o v)[i]
  BY <1>2
<1>5. \A i \in 1..n : x[i] = w[i]
  <2> TAKE i \in 1..n
  <2>1. i \in 1..(a + k)
    OBVIOUS
  <2> HIDE DEF x
  <2> QED
    BY <2>1, <1>1, <1>3, <1>4
<1> QED
  BY <1>1, <1>4, <1>5, SeqEqual DEF u, v, w

------------------------------------------------------------------------------
(* Initially. *)

\* A server before any segment.
LEMMA ListeningType ==
  ASSUME NEW p \in LocalPorts
  PROVE  /\ Listening(p) \in ServerSides /\ Listening(p).port = p
         /\ Listening(p).una = 0 /\ Listening(p).nxt = 0 /\ Listening(p).asked = FALSE
         /\ Listening(p).state = "listen"
BY TcpConstants DEF Listening, ServerSides

\* No call, no segment, servers that listen.
THEOREM TcpInitially == TcpInit => TcpInv
<1> SUFFICES ASSUME TcpInit PROVE TcpInv
  OBVIOUS
<1> USE DEF TcpInit
<1>1. tcp_conn \in Connections /\ tcp_conn.local_port = FirstPort /\ tcp_conn.state = "CLOSED"
  BY TcpConstants DEF Closed, Connections
<1>2. \A p \in LocalPorts : srv[p] = Listening(p)
  OBVIOUS
<1>3. TcpType
  <2>1. \A p \in LocalPorts : Listening(p) \in ServerSides
    BY ListeningType
  <2>2. srv \in [LocalPorts -> ServerSides]
    BY <2>1
  <2>3. calls \in 0..MaxCalls
    BY TcpConstants
  <2> QED
    BY <1>1, <2>2, <2>3 DEF TcpType
<1>4. PortsInv
  BY <1>1, <1>2, TcpConstants DEF PortsInv, Used
<1>5. ServerInv
  <2>1. \A p \in LocalPorts : /\ srv[p].port = p /\ srv[p].una = 0 /\ srv[p].nxt = 0
                              /\ ~srv[p].asked /\ srv[p].state = "listen"
    BY <1>2, ListeningType
  <2>2. \A p \in LocalPorts : /\ srv[p].port = p /\ srv[p].una <= srv[p].nxt
                              /\ srv[p].nxt <= Response + 2
                              /\ srv[p].asked => Sent(p)
                              /\ srv[p].state = "syn_rcvd" => srv[p].nxt >= 1
    <3>1. 0 <= Response + 2
      BY TcpConstants
    <3> QED
      BY <2>1, <3>1
  <2> QED
    BY <2>2 DEF ServerInv
<1>6. NetworkInv
  BY DEF NetworkInv
<1>7. ClientInv
  <2>1. returned.data = <<>> /\ returned.code = "none"
    BY DEF NoReturn
  <2>2. Stream(0) = <<>>
    BY DEF Stream, Units
  <2> QED
    BY <1>1, <2>1, <2>2 DEF ClientInv
<1> QED
  BY <1>3, <1>4, <1>5, <1>6, <1>7 DEF TcpInv

------------------------------------------------------------------------------
(* Steps of the server and of the network. *)

\* What the server's side of a connection may become.
Later(s, t) ==
  /\ t \in ServerSides /\ t.port = s.port /\ t.state # "listen"
  /\ t.una <= t.nxt /\ t.nxt <= Response + 2 /\ (t.state = "syn_rcvd" => t.nxt >= 1)
  /\ s.state # "listen" => t.iss = s.iss /\ s.nxt <= t.nxt /\ (s.asked => t.asked)

\* What the server sent stays a piece of its stream as the server goes on.
LEMMA GenuineLater ==
  ASSUME NEW m, NEW s \in ServerSides, NEW t, Later(s, t), Genuine(m, s)
  PROVE  Genuine(m, t)
<1>1. /\ s.state # "listen" /\ t.state # "listen" /\ t.iss = s.iss /\ s.nxt <= t.nxt
      /\ s.nxt \in Nat /\ t.nxt \in Nat
  BY DEF Genuine, Later, ServerSides
<1>2. s.asked => t.asked
  BY <1>1 DEF Later
<1>3. CASE "RST" \in m.flags
  BY <1>1, <1>3 DEF Genuine
<1>4. CASE m.flags = {"SYN", "ACK"} /\ m.seq = SeqNo(s.iss, 0) /\ s.nxt >= 1
  BY <1>1, <1>4 DEF Genuine
<1>5. CASE FromStream(m, s)
  <2>1. FromStream(m, t)
    <3>1. PICK from \in 0..(Response + 1), k \in 0..(Response + 1) :
            /\ s.asked /\ m.seq = SeqNo(s.iss, from) /\ m.data = Units(m.port, from, k)
            /\ \/ m.flags = {"ACK", "FIN"} /\ from + k = Response + 1 /\ from + k + 1 <= s.nxt
               \/ m.flags = {"ACK"} /\ from + k <= Response + 1 /\ from + k <= s.nxt
      BY <1>5 DEF FromStream
    <3>2. \A x \in Nat : x <= s.nxt => x <= t.nxt
      BY <1>1
    <3>3. from + k \in Nat /\ from + k + 1 \in Nat
      BY TcpConstants
    <3> QED
      BY <1>1, <1>2, <3>1, <3>2, <3>3 DEF FromStream
  <2> QED
    BY <1>1, <2>1 DEF Genuine
<1> QED
  BY <1>3, <1>4, <1>5 DEF Genuine

\* The server's side on port p becomes t, and the segments X are sent.
ServerMove(p, t, X) ==
  /\ UNCHANGED Rest /\ p \in LocalPorts /\ p <= Used
  /\ srv' = [srv EXCEPT ![p] = t] /\ Later(srv[p], t)
  /\ t.asked => srv[p].asked \/ Sent(p)
  /\ segments' \subseteq segments \cup X
  /\ \A x \in X : x.to = "client" /\ x.port = p /\ x.ack \in Int /\ x.seq \in Int /\ Genuine(x, t)

\* A server's step keeps the invariant when what it adds to the network is its own.
LEMMA ServerMoves ==
  ASSUME TcpInv, NEW p, NEW t, NEW X, ServerMove(p, t, X)
  PROVE  TcpInv'
<1> USE DEF ServerMove
<1>1. /\ UNCHANGED <<http, tcp_conn, tcp_next_local_port, recv, calls, returned>>
      /\ Used' = Used /\ \A q : Sent(q)' <=> Sent(q)
  BY DEF Rest, Used, Sent
<1>2. /\ \A q \in LocalPorts : srv[q] \in ServerSides
      /\ srv' \in [LocalPorts -> ServerSides]
      /\ srv'[p] = t /\ \A q \in LocalPorts : q # p => srv'[q] = srv[q]
  BY DEF TcpInv, TcpType, Later
<1>3. TcpType'
  <2>1. \A m \in segments' : m.port \in LocalPorts /\ m.ack \in Int /\ m.seq \in Int
    BY DEF TcpInv, TcpType
  <2> QED
    BY <1>1, <1>2, <2>1 DEF TcpInv, TcpType
<1>4. PortsInv'
  <2>1. \A m \in segments' : m.port <= Used
    BY DEF TcpInv, PortsInv
  <2>2. \A q \in LocalPorts : q > Used => srv'[q] = Listening(q)
    <3> TAKE q \in LocalPorts
    <3> HAVE q > Used
    <3>1. Used \in Int /\ p \in Int /\ q \in Int
      BY TcpConstants DEF Used, LocalPorts, TcpInv, TcpType
    <3>2. q # p
      BY <3>1
    <3> QED
      BY <1>2, <3>2 DEF TcpInv, PortsInv
  <2> QED
    BY <1>1, <2>1, <2>2 DEF TcpInv, PortsInv, Used
<1>5. ServerInv'
  <2>1. \A q \in LocalPorts : /\ srv'[q].port = q /\ srv'[q].una <= srv'[q].nxt
                              /\ srv'[q].nxt <= Response + 2 /\ (srv'[q].asked => Sent(q))
                              /\ (srv'[q].state = "syn_rcvd" => srv'[q].nxt >= 1)
    <3> TAKE q \in LocalPorts
    <3>1. CASE q = p
      <4>1. srv[p].asked => Sent(p)
        BY DEF TcpInv, ServerInv
      <4>2. srv[p].port = p
        BY DEF TcpInv, ServerInv
      <4> QED
        BY <1>2, <3>1, <4>1, <4>2 DEF Later
    <3>2. CASE q # p
      BY <1>2, <3>2 DEF TcpInv, ServerInv
    <3> QED
      BY <3>1, <3>2
  <2>2. \A m \in segments' : m.to = "server" /\ m.data # <<>> => Sent(m.port)
    BY DEF TcpInv, ServerInv
  <2> QED
    BY <1>1, <2>1, <2>2 DEF ServerInv
<1>6. NetworkInv'
  <2> SUFFICES ASSUME NEW m \in segments', m.to = "client" PROVE Genuine(m, srv'[m.port])
    BY DEF NetworkInv
  <2>1. CASE m \in segments
    <3>1. Genuine(m, srv[m.port]) /\ m.port \in LocalPorts
      BY <2>1 DEF TcpInv, NetworkInv, TcpType
    <3>2. CASE m.port = p
      BY <1>2, <3>1, <3>2, GenuineLater
    <3>3. CASE m.port # p
      BY <1>2, <3>1, <3>3
    <3> QED
      BY <3>2, <3>3
  <2>2. CASE m \in X
    BY <1>2, <2>2
  <2> QED
    BY <2>1, <2>2
<1>7. ClientInv'
  <2>1. tcp_conn.local_port \in LocalPorts
    BY DEF TcpInv, TcpType, Connections
  <2>2. ASSUME NEW at \in 1..(Response + 2), TakenTo(at) PROVE TakenTo(at)'
    <3> DEFINE q == tcp_conn.local_port
    <3>1. ASSUME tcp_conn.state = "ESTABLISHED"
          PROVE  /\ srv'[q].state # "listen"
                 /\ tcp_conn.remote_seq = SeqNo(srv'[q].iss, at) /\ at <= srv'[q].nxt
                 /\ at <= Response + 1
      <4>1. /\ srv[q].state # "listen"
            /\ tcp_conn.remote_seq = SeqNo(srv[q].iss, at) /\ at <= srv[q].nxt
            /\ at <= Response + 1
        BY <2>2, <3>1 DEF TakenTo
      <4>2. CASE q = p
        <5>1. srv[p].nxt <= t.nxt /\ t.iss = srv[p].iss /\ t.state # "listen"
          BY <4>1, <4>2 DEF Later
        <5>2. srv[p].nxt \in Nat /\ t.nxt \in Nat /\ at \in Nat
          BY <1>2, TcpConstants DEF ServerSides, Later
        <5> QED
          BY <1>2, <4>1, <4>2, <5>1, <5>2
      <4>3. CASE q # p
        BY <1>2, <2>1, <4>1, <4>3
      <4> QED
        BY <4>2, <4>3
    <3>2. tcp_conn.fin_received => at = Response + 2 /\ tcp_conn.state # "ESTABLISHED"
      BY <2>2 DEF TakenTo
    <3>3. IF http = "receiving"
          THEN recv = Units(tcp_conn.local_port, 1, Least(OutSize, Least(at - 1, Response)))
          ELSE at = 1
      BY <2>2 DEF TakenTo
    <3>4. tcp_conn.state = "SYN_SENT" => http = "connecting"
      BY <2>2 DEF TakenTo
    <3> QED
      BY <1>1, <3>1, <3>2, <3>3, <3>4 DEF TakenTo
  <2>3. /\ http = "idle" => tcp_conn.state \in {"CLOSED", "DONE"}
        /\ http # "idle" => returned = NoReturn /\ \E at \in 1..(Response + 2) : TakenTo(at)
        /\ returned.data = Stream(Len(returned.data))
        /\ returned.code = "closed" => Len(returned.data) = Least(OutSize, Response)
    BY DEF TcpInv, ClientInv
  <2>4. http # "idle" => \E at \in 1..(Response + 2) : TakenTo(at)'
    BY <2>2, <2>3
  <2> QED
    BY <1>1, <2>3, <2>4 DEF ClientInv, Stream
<1> QED
  BY <1>3, <1>4, <1>5, <1>6, <1>7 DEF TcpInv

\* A segment is lost, or the server has nothing to do with it.
SegmentsOnly(X) ==
  /\ UNCHANGED srv /\ UNCHANGED <<http, tcp_conn, tcp_next_local_port, recv, calls, returned>>
  /\ segments' \subseteq segments \cup X
  /\ \A x \in X : /\ x.to = "client" /\ x.port \in LocalPorts /\ x.port <= Used
                  /\ x.ack \in Int /\ x.seq \in Int /\ Genuine(x, srv[x.port])

\* Segments may be lost, and a reset may be sent, at any time.
LEMMA SegmentsLeave ==
  ASSUME TcpInv, NEW X, SegmentsOnly(X)
  PROVE  TcpInv'
<1> USE DEF SegmentsOnly
<1>1. Used' = Used /\ (\A q : Sent(q)' <=> Sent(q)) /\ \A at : TakenTo(at)' <=> TakenTo(at)
  BY DEF Used, Sent, TakenTo
<1>2. \A m \in segments' : m.port \in LocalPorts /\ m.ack \in Int /\ m.seq \in Int
  BY DEF TcpInv, TcpType
<1>3. TcpType'
  BY <1>2 DEF TcpInv, TcpType
<1>4. PortsInv'
  BY <1>1 DEF TcpInv, PortsInv
<1>5. ServerInv'
  BY <1>1 DEF TcpInv, ServerInv
<1>6. NetworkInv'
  BY DEF TcpInv, NetworkInv
<1>7. ClientInv'
  BY <1>1 DEF TcpInv, ClientInv, Stream
<1> QED
  BY <1>3, <1>4, <1>5, <1>6, <1>7 DEF TcpInv

\* What holds of each port.
LEMMA PortFacts ==
  ASSUME TcpInv
  PROVE  /\ \A p \in LocalPorts : /\ srv[p] \in ServerSides /\ srv[p].port = p
                                   /\ srv[p].una <= srv[p].nxt /\ srv[p].nxt <= Response + 2
                                   /\ (srv[p].state # "listen" => p <= Used)
                                   /\ (srv[p].state = "syn_rcvd" => srv[p].nxt >= 1)
         /\ \A m \in segments : /\ m.port \in LocalPorts /\ m.port <= Used
                                /\ m.ack \in Int /\ m.seq \in Int
<1>1. ASSUME NEW p \in LocalPorts, srv[p].state # "listen" PROVE p <= Used
  <2>1. p \in Int /\ Used \in Int
    BY TcpConstants DEF LocalPorts, Used, TcpInv, TcpType
  <2>2. CASE p > Used
    <3>1. srv[p] = Listening(p)
      BY <2>2 DEF TcpInv, PortsInv
    <3> QED
      BY <1>1, <3>1, ListeningType
  <2> QED
    BY <2>1, <2>2
<1>2. \A p \in LocalPorts : /\ srv[p] \in ServerSides /\ srv[p].port = p
                            /\ srv[p].una <= srv[p].nxt /\ srv[p].nxt <= Response + 2
                            /\ (srv[p].state = "syn_rcvd" => srv[p].nxt >= 1)
  BY DEF TcpInv, TcpType, ServerInv
<1>3. \A m \in segments : /\ m.port \in LocalPorts /\ m.port <= Used
                          /\ m.ack \in Int /\ m.seq \in Int
  BY DEF TcpInv, TcpType, PortsInv
<1> QED
  BY <1>1, <1>2, <1>3

\* A segment of the server's.
LEMMA FromServerIs ==
  ASSUME NEW s \in ServerSides, NEW flags, NEW a \in 0..(Response + 2), NEW data,
         NEW x, x = FromServer(s, flags, a, data)
  PROVE  /\ x.to = "client" /\ x.port = s.port /\ x.flags = flags /\ x.data = data
         /\ x.seq = SeqNo(s.iss, a) /\ x.seq \in Int /\ x.ack \in Int
<1>1. s.iss \in 0..(SeqSpace - 1) /\ s.rcv \in Int
  BY DEF ServerSides
<1>2. SeqNo(s.iss, a) \in Int
  BY <1>1, SeqNoWraps
<1> QED
  BY <1>1, <1>2 DEF FromServer

\* The server takes a SYN, or a copy of one.
LEMMA SrvSyn ==
  ASSUME TcpInv, NEW m \in segments, NEW rest, rest \subseteq segments,
         NEW iss \in Isns, srv_syn(m, rest, iss)
  PROVE  TcpInv'
<1> DEFINE p == m.port
           s == [Listening(p) EXCEPT !.state = "syn_rcvd", !.iss = iss,
                                     !.rcv = SeqNo(m.seq, 1), !.nxt = 1]
<1>1. /\ p \in LocalPorts /\ p <= Used /\ srv[p] \in ServerSides /\ srv[p].port = p
      /\ srv[p].una <= srv[p].nxt /\ srv[p].nxt <= Response + 2 /\ m.seq \in Int
      /\ UNCHANGED Rest
  BY PortFacts DEF srv_syn
<1>2. CASE srv[p].state # "listen"
  <2>1. UNCHANGED srv /\ segments' \subseteq segments \cup {}
    BY <1>2 DEF srv_syn
  <2>2. SegmentsOnly({})
    BY <1>1, <2>1 DEF Rest, SegmentsOnly
  <2> QED
    BY <2>2, SegmentsLeave
<1>3. CASE srv[p].state = "listen"
  <2>1. SeqNo(m.seq, 1) \in Int /\ iss \in 0..(SeqSpace - 1)
    <3>1. \A z \in Int : (z + 1) % SeqSpace \in Int
      BY TcpConstants
    <3> QED
      BY <1>1, <3>1, TcpConstants DEF SeqNo
  <2>2. /\ s \in ServerSides /\ s.port = p /\ s.state = "syn_rcvd" /\ s.una = 0 /\ s.nxt = 1
        /\ s.asked = FALSE
    BY <1>1, <2>1 DEF ServerSides, Listening
  <2> HIDE DEF s
  <2>3. CASE /\ srv' = [srv EXCEPT ![p] = s]
             /\ segments' = rest \cup {FromServer(s, {"SYN", "ACK"}, 0, <<>>)}
    <3> DEFINE x == FromServer(s, {"SYN", "ACK"}, 0, <<>>)
    <3>1. /\ x.to = "client" /\ x.port = p /\ x.ack \in Int /\ x.seq \in Int
          /\ x.flags = {"SYN", "ACK"} /\ x.seq = SeqNo(s.iss, 0)
      <4>1. 0 \in 0..(Response + 2)
        BY TcpConstants
      <4>2. x = FromServer(s, {"SYN", "ACK"}, 0, <<>>)
        OBVIOUS
      <4> HIDE DEF x
      <4> QED
        BY <2>2, <4>1, <4>2, FromServerIs
    <3>2. Genuine(x, s)
      BY <2>2, <3>1 DEF Genuine
    <3>3. Later(srv[p], s)
      BY <1>1, <1>3, <2>2, TcpConstants DEF Later
    <3>4. segments' \subseteq segments \cup {x}
      BY <2>3
    <3> HIDE DEF x
    <3>5. \A y \in {x} : /\ y.to = "client" /\ y.port = p /\ y.ack \in Int /\ y.seq \in Int
                         /\ Genuine(y, s)
      BY <3>1, <3>2
    <3>6. s.asked => srv[p].asked \/ Sent(p)
      BY <2>2
    <3>7. ServerMove(p, s, {x})
      BY <1>1, <2>3, <3>3, <3>4, <3>5, <3>6 DEF ServerMove
    <3> QED
      BY <3>7, ServerMoves
  <2>4. CASE /\ srv' = [srv EXCEPT ![p].state = "closed"]
             /\ segments' = rest \cup {FromServer(s, {"RST", "ACK"}, 0, <<>>)}
    <3> DEFINE x == FromServer(s, {"RST", "ACK"}, 0, <<>>)
               t == [srv[p] EXCEPT !.state = "closed"]
    <3>1. /\ x.to = "client" /\ x.port = p /\ x.ack \in Int /\ x.seq \in Int
          /\ x.flags = {"RST", "ACK"}
      <4>1. 0 \in 0..(Response + 2)
        BY TcpConstants
      <4>2. x = FromServer(s, {"RST", "ACK"}, 0, <<>>)
        OBVIOUS
      <4> HIDE DEF x
      <4> QED
        BY <2>2, <4>1, <4>2, FromServerIs
    <3>2. /\ t \in ServerSides /\ t.port = srv[p].port /\ t.state = "closed" /\ t.una = srv[p].una
          /\ t.nxt = srv[p].nxt /\ t.asked = srv[p].asked
      BY <1>1 DEF ServerSides
    <3>3. srv' = [srv EXCEPT ![p] = t] /\ segments' \subseteq segments \cup {x}
      BY <2>4
    <3> HIDE DEF x, t
    <3>4. Genuine(x, t) /\ Later(srv[p], t)
      BY <1>1, <1>3, <3>1, <3>2 DEF Genuine, Later
    <3>5. \A y \in {x} : /\ y.to = "client" /\ y.port = p /\ y.ack \in Int /\ y.seq \in Int
                         /\ Genuine(y, t)
      BY <3>1, <3>4
    <3>6. t.asked => srv[p].asked \/ Sent(p)
      BY <3>2
    <3>7. ServerMove(p, t, {x})
      BY <1>1, <3>3, <3>4, <3>5, <3>6 DEF ServerMove
    <3> QED
      BY <3>7, ServerMoves
  <2> QED
    BY <1>3, <2>3, <2>4 DEF srv_syn, s
<1> QED
  BY <1>2, <1>3

\* What an acknowledgement makes of the server's side.
LEMMA AdvancedIs ==
  ASSUME NEW s \in ServerSides, s.una <= s.nxt, NEW m, m.ack \in Int
  PROVE  LET a == Advanced(s, m)
         IN /\ a \in ServerSides /\ a.port = s.port /\ a.iss = s.iss /\ a.nxt = s.nxt
            /\ a.asked = s.asked /\ a.rcv = s.rcv /\ a.una <= a.nxt
            /\ a.state \in {s.state, "open"}
<1> DEFINE by == (m.ack - SeqNo(s.iss, s.una)) % SeqSpace
           a1 == IF by <= s.nxt - s.una THEN [s EXCEPT !.una = @ + by] ELSE s
<1>1. s.iss \in Nat /\ s.una \in Nat /\ s.nxt \in Nat
  BY TcpConstants DEF ServerSides
<1>2. by \in Nat
  <2>1. \A z \in Int : z % SeqSpace \in Nat
    BY TcpConstants
  <2>2. SeqNo(s.iss, s.una) \in Int
    BY <1>1, <2>1 DEF SeqNo
  <2> QED
    BY <2>1, <2>2
<1> HIDE DEF by
<1>3. /\ a1 \in ServerSides /\ a1.port = s.port /\ a1.iss = s.iss /\ a1.nxt = s.nxt
      /\ a1.asked = s.asked /\ a1.rcv = s.rcv /\ a1.una <= a1.nxt /\ a1.state = s.state
  <2>1. CASE by <= s.nxt - s.una
    <3>1. s.una + by \in Nat /\ s.una + by <= s.nxt
      BY <1>1, <1>2, <2>1
    <3> QED
      BY <2>1, <3>1 DEF ServerSides
  <2>2. CASE ~(by <= s.nxt - s.una)
    BY <2>2
  <2> QED
    BY <2>1, <2>2
<1>4. Advanced(s, m) = IF a1.una > 0 THEN [a1 EXCEPT !.state = "open"] ELSE a1
  BY DEF Advanced, by
<1> HIDE DEF a1
<1>5. CASE a1.una > 0
  BY <1>3, <1>4, <1>5 DEF ServerSides
<1>6. CASE ~(a1.una > 0)
  BY <1>3, <1>4, <1>6
<1> QED
  BY <1>5, <1>6

\* The server takes a request or an acknowledgement.
LEMMA SrvSegment ==
  ASSUME TcpInv, NEW m \in segments, NEW rest, rest \subseteq segments, srv_segment(m, rest)
  PROVE  TcpInv'
<1> DEFINE p == m.port
           s == srv[p]
           a == Advanced(s, m)
<1>1. /\ p \in LocalPorts /\ p <= Used /\ s \in ServerSides /\ s.port = p
      /\ s.una <= s.nxt /\ s.nxt <= Response + 2 /\ m.ack \in Int
      /\ (s.state = "syn_rcvd" => s.nxt >= 1)
      /\ UNCHANGED Rest /\ segments' \subseteq segments \cup {}
  BY PortFacts DEF srv_segment
<1>2. CASE s.state \in {"listen", "closed"}
  <2>1. srv' = [srv EXCEPT ![p] = s]
    BY <1>2 DEF srv_segment
  <2>2. UNCHANGED srv
    BY <1>1, <2>1 DEF TcpInv, TcpType
  <2>3. SegmentsOnly({})
    BY <1>1, <2>2 DEF Rest, SegmentsOnly
  <2> QED
    BY <2>3, SegmentsLeave
<1>3. CASE s.state \notin {"listen", "closed"}
  <2>1. /\ a \in ServerSides /\ a.port = s.port /\ a.iss = s.iss /\ a.nxt = s.nxt
        /\ a.asked = s.asked /\ a.rcv = s.rcv /\ a.una <= a.nxt
        /\ a.state \in {s.state, "open"}
    BY <1>1, AdvancedIs
  <2> DEFINE t == srv'[p]
             b == [a EXCEPT !.asked = TRUE, !.rcv = SeqNo(@, 1)]
  <2>2. srv' = [srv EXCEPT ![p] = t]
    BY <1>1 DEF srv_segment, TcpInv, TcpType
  <2>3. \/ t = [s EXCEPT !.state = "closed"]
        \/ t = a
        \/ t = b /\ m.data # <<>>
    <3>1. CASE s.state \in {"syn_rcvd", "open"} /\ "RST" \in m.flags
      BY <1>1, <1>3, <3>1 DEF srv_segment, TcpInv, TcpType
    <3>2. CASE ~(s.state \in {"syn_rcvd", "open"} /\ "RST" \in m.flags)
      BY <1>1, <1>3, <3>2 DEF srv_segment, TcpInv, TcpType
    <3> QED
      BY <3>1, <3>2
  <2>4. /\ b \in ServerSides /\ b.port = a.port /\ b.iss = a.iss /\ b.nxt = a.nxt
        /\ b.asked = TRUE /\ b.una = a.una /\ b.state = a.state
    <3>1. SeqNo(a.rcv, 1) \in Int
      <4>1. \A z \in Int : (z + 1) % SeqSpace \in Int
        BY TcpConstants
      <4> QED
        BY <2>1, <4>1 DEF SeqNo, ServerSides
    <3> QED
      BY <2>1, <3>1 DEF ServerSides
  <2> HIDE DEF a, b
  <2>5. Later(s, t) /\ (t.asked => s.asked \/ Sent(p))
    <3>1. CASE t = [s EXCEPT !.state = "closed"]
      BY <1>1, <3>1 DEF Later, ServerSides
    <3>2. CASE t = a
      BY <1>1, <1>3, <2>1, <3>2 DEF Later, ServerSides
    <3>3. CASE t = b /\ m.data # <<>>
      <4>1. m.to = "server"
        BY DEF srv_segment
      <4>2. Sent(p)
        BY <3>3, <4>1 DEF TcpInv, ServerInv
      <4>3. t.asked
        BY <2>4, <3>3
      <4>4. Later(s, t)
        BY <1>1, <1>3, <2>1, <2>4, <3>3, <4>3 DEF Later, ServerSides
      <4> QED
        BY <4>2, <4>4
    <3> QED
      BY <2>3, <3>1, <3>2, <3>3
  <2>6. ServerMove(p, t, {})
    BY <1>1, <2>2, <2>5 DEF ServerMove
  <2> QED
    BY <2>6, ServerMoves
<1> QED
  BY <1>2, <1>3

\* The server sends a piece of its stream, for the first time or again.
LEMMA SrvTransmit ==
  ASSUME TcpInv, NEW p \in LocalPorts, NEW from \in 0..(Response + 1), NEW n \in 1..Mss,
         srv_transmit(p, from, n)
  PROVE  TcpInv'
<1> DEFINE s == srv[p]
           fin == from + n - 1 = Response + 1
           k == IF fin THEN n - 1 ELSE n
           flags == IF fin THEN {"ACK", "FIN"} ELSE {"ACK"}
           x == FromServer(s, flags, from, Units(p, from, k))
           t == [s EXCEPT !.nxt = IF @ < from + n THEN from + n ELSE @]
<1>1. /\ s.state = "open" /\ s.asked /\ from + n - 1 <= Response + 1 /\ UNCHANGED Rest
      /\ segments' \subseteq segments \cup {x}
  BY DEF srv_transmit
<1>2. /\ s \in ServerSides /\ s.port = p /\ s.una <= s.nxt /\ s.nxt <= Response + 2 /\ p <= Used
      /\ s.nxt \in Nat /\ s.una \in Nat /\ from \in Nat /\ n \in Nat /\ n > 0
  BY <1>1, PortFacts, TcpConstants, TcpAssumption DEF ServerSides
<1>3. srv' = [srv EXCEPT ![p] = t]
  BY DEF srv_transmit
<1>4. /\ t \in ServerSides /\ t.port = s.port /\ t.iss = s.iss /\ t.state = s.state
      /\ t.asked = s.asked /\ t.una = s.una
      /\ t.nxt = IF s.nxt < from + n THEN from + n ELSE s.nxt
  <2>1. (IF s.nxt < from + n THEN from + n ELSE s.nxt) \in Nat
    BY <1>2
  <2> QED
    BY <1>2, <2>1 DEF ServerSides
<1> HIDE DEF t
<1>5. from + n <= t.nxt /\ s.nxt <= t.nxt /\ t.nxt <= Response + 2 /\ t.una <= t.nxt
  BY <1>1, <1>2, <1>4, TcpConstants
<1>6. Later(s, t) /\ (t.asked => s.asked)
  BY <1>1, <1>2, <1>4, <1>5 DEF Later
<1>7. /\ x.to = "client" /\ x.port = p /\ x.ack \in Int /\ x.seq \in Int
      /\ x.flags = flags /\ x.seq = SeqNo(s.iss, from) /\ x.data = Units(p, from, k)
  <2>1. from \in 0..(Response + 2)
    BY TcpConstants
  <2>2. x = FromServer(s, flags, from, Units(p, from, k))
    OBVIOUS
  <2> HIDE DEF x
  <2> QED
    BY <1>2, <2>1, <2>2, FromServerIs
<1> HIDE DEF x
<1>8. FromStream(x, t)
  <2>1. k \in 0..(Response + 1)
    BY <1>1, <1>2, TcpConstants
  <2>2. \/ x.flags = {"ACK", "FIN"} /\ from + k = Response + 1 /\ from + k + 1 <= t.nxt
        \/ x.flags = {"ACK"} /\ from + k <= Response + 1 /\ from + k <= t.nxt
    <3>1. CASE fin
      BY <1>2, <1>4, <1>5, <1>7, <3>1, TcpConstants
    <3>2. CASE ~fin
      BY <1>1, <1>2, <1>4, <1>5, <1>7, <3>2, TcpConstants
    <3> QED
      BY <3>1, <3>2
  <2>3. t.asked /\ x.seq = SeqNo(t.iss, from) /\ x.data = Units(x.port, from, k)
    BY <1>1, <1>4, <1>7
  <2> HIDE DEF k
  <2> QED
    BY <2>1, <2>2, <2>3 DEF FromStream
<1>9. Genuine(x, t)
  BY <1>6, <1>8 DEF Genuine, Later
<1>10. \A y \in {x} : /\ y.to = "client" /\ y.port = p /\ y.ack \in Int /\ y.seq \in Int
                      /\ Genuine(y, t)
  BY <1>7, <1>9
<1>11. ServerMove(p, t, {x})
  BY <1>1, <1>2, <1>3, <1>6, <1>10 DEF ServerMove
<1> QED
  BY <1>11, ServerMoves

\* The server repeats its SYN.
LEMMA SrvResendSyn ==
  ASSUME TcpInv, NEW p \in LocalPorts, srv_resend_syn(p)
  PROVE  TcpInv'
<1> DEFINE x == FromServer(srv[p], {"SYN", "ACK"}, 0, <<>>)
<1>1. /\ srv[p].state = "syn_rcvd" /\ UNCHANGED srv /\ segments' \subseteq segments \cup {x}
      /\ UNCHANGED <<http, tcp_conn, tcp_next_local_port, recv, calls, returned>>
  BY DEF srv_resend_syn, Rest
<1>2. srv[p] \in ServerSides /\ srv[p].port = p /\ p <= Used /\ srv[p].nxt >= 1
  BY <1>1, PortFacts
<1>3. /\ x.to = "client" /\ x.port = p /\ x.ack \in Int /\ x.seq \in Int
      /\ x.flags = {"SYN", "ACK"} /\ x.seq = SeqNo(srv[p].iss, 0)
  <2>1. 0 \in 0..(Response + 2)
    BY TcpConstants
  <2>2. x = FromServer(srv[p], {"SYN", "ACK"}, 0, <<>>)
    OBVIOUS
  <2> HIDE DEF x
  <2> QED
    BY <1>2, <2>1, <2>2, FromServerIs
<1> HIDE DEF x
<1>4. Genuine(x, srv[p])
  BY <1>1, <1>2, <1>3 DEF Genuine
<1>5. \A y \in {x} : /\ y.to = "client" /\ y.port \in LocalPorts /\ y.port <= Used
                     /\ y.ack \in Int /\ y.seq \in Int /\ Genuine(y, srv[y.port])
  BY <1>2, <1>3, <1>4
<1>6. SegmentsOnly({x})
  BY <1>1, <1>5 DEF SegmentsOnly
<1> QED
  BY <1>6, SegmentsLeave

\* A port that nobody listens on answers with a reset.
LEMMA SrvReset ==
  ASSUME TcpInv, NEW p \in LocalPorts, srv_reset(p)
  PROVE  TcpInv'
<1> DEFINE s == srv[p]
           x == FromServer(s, {"RST"}, s.nxt, <<>>)
           t == [s EXCEPT !.state = "closed"]
<1>1. /\ s.state \in {"syn_rcvd", "open"} /\ UNCHANGED Rest
      /\ srv' = [srv EXCEPT ![p] = t] /\ segments' \subseteq segments \cup {x}
  BY DEF srv_reset
<1>2. s \in ServerSides /\ s.port = p /\ p <= Used /\ s.una <= s.nxt /\ s.nxt <= Response + 2
  BY <1>1, PortFacts
<1>3. /\ t \in ServerSides /\ t.port = s.port /\ t.iss = s.iss /\ t.state = "closed"
      /\ t.nxt = s.nxt /\ t.asked = s.asked /\ t.una = s.una
  BY <1>2 DEF ServerSides
<1>4. x.to = "client" /\ x.port = p /\ x.ack \in Int /\ x.seq \in Int /\ x.flags = {"RST"}
  <2>1. s.nxt \in 0..(Response + 2)
    BY <1>2, TcpConstants DEF ServerSides
  <2>2. x = FromServer(s, {"RST"}, s.nxt, <<>>)
    OBVIOUS
  <2> HIDE DEF x
  <2> QED
    BY <1>2, <2>1, <2>2, FromServerIs
<1> HIDE DEF x, t
<1>5. Genuine(x, t) /\ Later(s, t) /\ (t.asked => s.asked)
  <2>1. s.nxt \in Nat
    BY <1>2 DEF ServerSides
  <2> QED
    BY <1>1, <1>2, <1>3, <1>4, <2>1 DEF Genuine, Later
<1>6. \A y \in {x} : /\ y.to = "client" /\ y.port = p /\ y.ack \in Int /\ y.seq \in Int
                     /\ Genuine(y, t)
  BY <1>4, <1>5
<1>7. ServerMove(p, t, {x})
  BY <1>1, <1>2, <1>5, <1>6 DEF ServerMove
<1> QED
  BY <1>7, ServerMoves

------------------------------------------------------------------------------
(* Steps of the client. *)

\* A step of the call in progress that sends the segments X.
ClientMove(X) ==
  /\ http # "idle" /\ UNCHANGED <<srv, tcp_next_local_port, calls>>
  /\ tcp_conn' \in Connections /\ tcp_conn'.local_port = tcp_conn.local_port
  /\ http' \in {"idle", "connecting", "connected", "receiving"}
  /\ http = "receiving" => http' \in {"idle", "receiving"}
  /\ segments' \subseteq segments \cup X
  /\ \A x \in X : /\ x.to = "server" /\ x.port = tcp_conn.local_port /\ x.ack \in Int /\ x.seq \in Int
                  /\ x.data # <<>> => http' \in {"idle", "receiving"}

\* A step of the client leaves the servers and the segments under way as they are.
LEMMA ClientMoves ==
  ASSUME TcpInv, NEW X, ClientMove(X)
  PROVE  TcpType' /\ PortsInv' /\ ServerInv' /\ NetworkInv'
<1> USE DEF ClientMove
<1> DEFINE p == tcp_conn.local_port
<1>1. /\ p \in LocalPorts /\ p = Used /\ Used' = Used /\ calls > 0 /\ calls \in Nat
      /\ Used \in Int /\ p \in Int
  <2>1. p \in LocalPorts /\ calls \in Nat
    BY TcpConstants DEF TcpInv, TcpType, Connections
  <2>2. calls # 0
    BY DEF TcpInv, PortsInv
  <2> QED
    BY <2>1, <2>2, TcpConstants DEF TcpInv, PortsInv, Used, LocalPorts
<1>2. TcpType'
  <2>1. \A m \in segments' : m.port \in LocalPorts /\ m.ack \in Int /\ m.seq \in Int
    BY <1>1 DEF TcpInv, TcpType
  <2> QED
    BY <2>1 DEF TcpInv, TcpType
<1>3. PortsInv'
  <2>1. \A m \in segments' : m.port <= Used
    BY <1>1 DEF TcpInv, PortsInv
  <2> QED
    BY <1>1, <2>1 DEF TcpInv, PortsInv, Used
<1>4. \A q : Sent(q) => Sent(q)'
  BY DEF Sent
<1>5. ServerInv'
  <2>1. \A m \in segments' : m.to = "server" /\ m.data # <<>> => Sent(m.port)'
    <3> TAKE m \in segments'
    <3> HAVE m.to = "server" /\ m.data # <<>>
    <3>1. CASE m \in segments
      BY <1>4, <3>1 DEF TcpInv, ServerInv
    <3>2. CASE m \in X
      BY <3>2 DEF Sent
    <3> QED
      BY <3>1, <3>2
  <2> QED
    BY <1>4, <2>1 DEF TcpInv, ServerInv
<1>6. NetworkInv'
  BY DEF TcpInv, NetworkInv
<1> QED
  BY <1>2, <1>3, <1>5, <1>6

\* A segment of the client's.
LEMMA ClientSegment ==
  ASSUME NEW c \in Connections, NEW flags, NEW data, NEW x, x = net_send_tcp_segment(c, flags, data)
  PROVE  /\ x.to = "server" /\ x.port = c.local_port /\ x.data = data
         /\ x.ack \in Int /\ x.seq \in Int
<1>1. c.remote_seq \in Int /\ c.local_seq \in Int
  BY DEF Connections
<1>2. (IF "ACK" \in flags THEN c.remote_seq ELSE 0) \in Int
  BY <1>1
<1> QED
  BY <1>1, <1>2 DEF net_send_tcp_segment

\* net_tcp_connect: a new port, and with it a server that has heard of no earlier call.
LEMMA Connect ==
  ASSUME TcpInv, NEW isn \in Isns, net_tcp_connect(isn)
  PROVE  TcpInv'
<1> DEFINE p == FirstPort + calls
           c == [state |-> "SYN_SENT", local_port |-> tcp_next_local_port,
                 local_seq |-> isn, remote_seq |-> 0, fin_received |-> FALSE]
           x == net_send_tcp_segment(c, {"SYN"}, <<>>)
<1>1. /\ http = "idle" /\ calls < MaxCalls /\ calls \in Nat /\ tcp_next_local_port = p
      /\ tcp_conn' = c /\ segments' = segments \cup {x}
      /\ http' = "connecting" /\ calls' = calls + 1 /\ returned' = NoReturn
      /\ UNCHANGED <<recv, srv>>
  BY TcpConstants DEF net_tcp_connect, TcpInv, TcpType, PortsInv
<1>2. p \in LocalPorts /\ p \in Nat /\ isn \in Int /\ p = Used + 1 /\ Used' = p /\ Used \in Int
  <2>1. p \in Nat /\ FirstPort <= p /\ p <= LastPort
    BY <1>1, TcpConstants
  <2>2. isn \in Int
    BY TcpConstants
  <2> QED
    BY <1>1, <2>1, <2>2, TcpConstants DEF LocalPorts, Used
<1>3. /\ c \in Connections /\ c.local_port = p /\ c.state = "SYN_SENT" /\ c.fin_received = FALSE
  BY <1>1, <1>2 DEF Connections
<1> HIDE DEF c
<1>4. x.to = "server" /\ x.port = p /\ x.data = <<>> /\ x.ack \in Int /\ x.seq \in Int
  <2>2. x = net_send_tcp_segment(c, {"SYN"}, <<>>)
    OBVIOUS
  <2> HIDE DEF x
  <2> QED
    BY <1>3, <2>2, ClientSegment
<1> HIDE DEF x
<1>5. TcpType'
  <2>1. \A m \in segments' : m.port \in LocalPorts /\ m.ack \in Int /\ m.seq \in Int
    BY <1>1, <1>2, <1>4 DEF TcpInv, TcpType
  <2>2. calls' \in 0..MaxCalls
    BY <1>1, TcpConstants
  <2> QED
    BY <1>1, <1>3, <2>1, <2>2 DEF TcpInv, TcpType
<1>6. PortsInv'
  <2>1. ASSUME calls' < MaxCalls PROVE tcp_next_local_port' = FirstPort + calls'
    <3>1. p # LastPort
      BY <1>1, <2>1, TcpConstants
    <3> QED
      BY <1>1, <3>1, TcpConstants DEF net_tcp_connect
  <2>2. \A m \in segments' : m.port <= p
    <3> TAKE m \in segments'
    <3>1. CASE m = x
      BY <1>2, <1>4, <3>1
    <3>2. CASE m \in segments
      <4>1. m.port <= Used /\ m.port \in Int
        BY <3>2, TcpConstants DEF TcpInv, PortsInv, TcpType, LocalPorts
      <4> QED
        BY <1>2, <4>1
    <3> QED
      BY <1>1, <3>1, <3>2
  <2>3. \A q \in LocalPorts : q > p => srv'[q] = Listening(q)
    <3> TAKE q \in LocalPorts
    <3> HAVE q > p
    <3>1. q \in Int
      BY TcpConstants DEF LocalPorts
    <3>2. q > Used
      BY <1>2, <3>1
    <3> QED
      BY <1>1, <3>2 DEF TcpInv, PortsInv
  <2>4. calls' > 0 /\ calls' # 0 /\ tcp_conn'.local_port = p
    BY <1>1, <1>3
  <2> QED
    BY <1>2, <2>1, <2>2, <2>3, <2>4 DEF PortsInv
<1>7. ServerInv'
  <2>1. ASSUME NEW q \in LocalPorts, srv[q].asked PROVE Sent(q)'
    <3>1. q \in Int
      BY TcpConstants DEF LocalPorts
    <3>2. CASE q > Used
      <4>1. srv[q] = Listening(q)
        BY <3>2 DEF TcpInv, PortsInv
      <4> QED
        BY <2>1, <4>1, ListeningType
    <3>3. CASE ~(q > Used)
      BY <1>1, <1>2, <1>3, <3>1, <3>3 DEF Sent
    <3> QED
      BY <3>2, <3>3
  <2>2. ASSUME NEW m \in segments', m.to = "server", m.data # <<>> PROVE Sent(m.port)'
    <3>1. m \in segments
      BY <1>1, <1>4, <2>2
    <3>2. m.port \in Int /\ m.port <= Used
      BY <3>1, TcpConstants DEF TcpInv, PortsInv, TcpType, LocalPorts
    <3> QED
      BY <1>1, <1>2, <1>3, <3>2 DEF Sent
  <2> QED
    BY <1>1, <2>1, <2>2 DEF TcpInv, ServerInv
<1>8. NetworkInv'
  BY <1>1, <1>4 DEF TcpInv, NetworkInv
<1>9. ClientInv'
  <2>1. TakenTo(1)'
    BY <1>1, <1>3 DEF TakenTo
  <2>2. returned'.data = <<>> /\ returned'.code = "none"
    BY <1>1 DEF NoReturn
  <2>3. Stream(0)' = <<>>
    BY DEF Stream, Units
  <2>4. 1 \in 1..(Response + 2)
    BY TcpConstants
  <2>5. Len(returned'.data) = 0
    BY <2>2
  <2> QED
    BY <1>1, <2>1, <2>2, <2>3, <2>4, <2>5 DEF ClientInv, Stream
<1> QED
  BY <1>5, <1>6, <1>7, <1>8, <1>9 DEF TcpInv

\* A failed call returns no data.
LEMMA NothingReturned ==
  ASSUME NEW code, code # "closed", NEW r, r = [code |-> code, data |-> <<>>], NEW p
  PROVE  r.data = Units(p, 1, Len(r.data)) /\ r.code # "closed"
<1>1. r.data = <<>> /\ r.code = code /\ Len(<<>>) = 0
  OBVIOUS
<1>2. Units(p, 1, 0) = <<>>
  BY DEF Units
<1> QED
  BY <1>1, <1>2

\* The call returns without data.
LEMMA ReturnsNothing ==
  ASSUME TcpInv, NEW X, ClientMove(X), http' = "idle", tcp_conn'.state \in {"CLOSED", "DONE"},
         NEW code, code # "closed", returned' = [code |-> code, data |-> <<>>]
  PROVE  TcpInv'
<1>1. returned'.data = Stream(Len(returned.data))' /\ returned'.code # "closed"
  BY NothingReturned DEF Stream
<1>2. ClientInv'
  BY <1>1 DEF ClientInv
<1> QED
  BY <1>2, ClientMoves DEF TcpInv

\* What the invariant says while a call is in progress.
LEMMA Calling ==
  ASSUME TcpInv, http # "idle"
  PROVE  /\ tcp_conn \in Connections /\ returned = NoReturn
         /\ \E at \in 1..(Response + 2) : TakenTo(at)
BY DEF TcpInv, TcpType, ClientInv

\* A step after which a call is in progress that has taken the stream to position at.
LEMMA StillCalling ==
  ASSUME TcpInv, NEW X, ClientMove(X), http' # "idle", UNCHANGED returned,
         NEW at \in 1..(Response + 2), TakenTo(at)'
  PROVE  TcpInv'
<1>1. returned = NoReturn
  BY Calling DEF ClientMove
<1>2. returned'.data = Stream(Len(returned.data))' /\ returned'.code # "closed"
  BY <1>1, NothingReturned DEF Stream, NoReturn
<1>3. ClientInv'
  BY <1>1, <1>2 DEF ClientInv
<1> QED
  BY <1>3, ClientMoves DEF TcpInv

\* The SYN is given up.
LEMMA SynTimeout ==
  ASSUME TcpInv, syn_timeout
  PROVE  TcpInv'
<1>1. /\ http = "connecting" /\ tcp_conn.state = "SYN_SENT" /\ tcp_conn \in Connections
      /\ UNCHANGED <<tcp_next_local_port, recv, srv, calls>>
  BY Calling DEF syn_timeout
<1>2. CASE tries < 3
  <2> DEFINE x == net_send_tcp_segment(tcp_conn, {"SYN"}, <<>>)
  <2>1. segments' \subseteq segments \cup {x} /\ UNCHANGED <<http, tcp_conn, returned>>
    BY <1>2 DEF syn_timeout
  <2>2. /\ x.to = "server" /\ x.port = tcp_conn.local_port /\ x.ack \in Int /\ x.seq \in Int
        /\ x.data = <<>>
    <3>2. x = net_send_tcp_segment(tcp_conn, {"SYN"}, <<>>)
      OBVIOUS
    <3> HIDE DEF x
    <3> QED
      BY <1>1, <3>2, ClientSegment
  <2> HIDE DEF x
  <2>3. ClientMove({x})
    BY <1>1, <2>1, <2>2 DEF ClientMove
  <2>4. PICK at \in 1..(Response + 2) : TakenTo(at)
    BY <1>1, Calling
  <2>5. TakenTo(at)'
    BY <1>1, <2>1, <2>4 DEF TakenTo
  <2> QED
    BY <1>1, <2>1, <2>3, <2>5, StillCalling
<1>3. CASE ~(tries < 3)
  <2>1. /\ tcp_conn' = [tcp_conn EXCEPT !.state = "CLOSED"]
        /\ http' = "idle" /\ returned' = [code |-> "-2", data |-> <<>>] /\ UNCHANGED segments
    BY <1>3 DEF syn_timeout
  <2>2. /\ tcp_conn' \in Connections /\ tcp_conn'.local_port = tcp_conn.local_port
        /\ tcp_conn'.state = "CLOSED"
    BY <1>1, <2>1 DEF Connections
  <2>3. ClientMove({})
    BY <1>1, <2>1, <2>2 DEF ClientMove
  <2> QED
    BY <2>1, <2>2, <2>3, ReturnsNothing
<1> QED
  BY <1>2, <1>3

\* net_tcp_connect returns.
LEMMA ConnectReturns ==
  ASSUME TcpInv, connect_returns
  PROVE  TcpInv'
<1>1. /\ http = "connecting" /\ tcp_conn.state # "SYN_SENT" /\ tcp_conn \in Connections
      /\ UNCHANGED <<tcp_conn, tcp_next_local_port, recv, srv, segments, calls>>
  BY Calling DEF connect_returns
<1>2. CASE tcp_conn.state = "ESTABLISHED"
  <2>1. http' = "connected" /\ UNCHANGED returned
    BY <1>2 DEF connect_returns
  <2>2. ClientMove({})
    BY <1>1, <2>1 DEF ClientMove
  <2>3. PICK at \in 1..(Response + 2) : TakenTo(at)
    BY <1>1, Calling
  <2>4. TakenTo(at)'
    BY <1>1, <2>1, <2>3 DEF TakenTo
  <2> QED
    BY <2>1, <2>2, <2>4, StillCalling
<1>3. CASE tcp_conn.state # "ESTABLISHED"
  <2>1. http' = "idle" /\ returned' = [code |-> "-2", data |-> <<>>]
    BY <1>3 DEF connect_returns
  <2>2. ClientMove({})
    BY <1>1, <2>1 DEF ClientMove
  <2>3. tcp_conn'.state \in {"CLOSED", "DONE"}
    BY <1>1, <1>3 DEF Connections
  <2> QED
    BY <2>1, <2>2, <2>3, ReturnsNothing
<1> QED
  BY <1>2, <1>3

\* net_tcp_abort closes the connection and sends a reset.
LEMMA AbortIs ==
  ASSUME NEW c \in Connections, net_tcp_abort(c)
  PROVE  /\ tcp_conn' \in Connections /\ tcp_conn'.local_port = c.local_port
         /\ tcp_conn'.state = "CLOSED"
         /\ \E x : /\ segments' \subseteq segments \cup {x}
                   /\ x.to = "server" /\ x.port = c.local_port /\ x.data = <<>>
                   /\ x.ack \in Int /\ x.seq \in Int
<1> DEFINE x == net_send_tcp_segment(c, {"RST", "ACK"}, <<>>)
<1>1. tcp_conn' = [c EXCEPT !.state = "CLOSED"] /\ segments' \subseteq segments \cup {x}
  BY DEF net_tcp_abort
<1>2. /\ x.to = "server" /\ x.port = c.local_port /\ x.data = <<>>
      /\ x.ack \in Int /\ x.seq \in Int
  <2>2. x = net_send_tcp_segment(c, {"RST", "ACK"}, <<>>)
    OBVIOUS
  <2> HIDE DEF x
  <2> QED
    BY <2>2, ClientSegment
<1> HIDE DEF x
<1>3. /\ tcp_conn' \in Connections /\ tcp_conn'.local_port = c.local_port
      /\ tcp_conn'.state = "CLOSED"
  BY <1>1 DEF Connections
<1> QED
  BY <1>1, <1>2, <1>3

\* net_http_get: the request goes out, or the connection is given up.
LEMMA SendRequest ==
  ASSUME TcpInv, send_request
  PROVE  TcpInv'
<1>1. /\ http = "connected" /\ tcp_conn \in Connections
      /\ UNCHANGED <<tcp_next_local_port, srv, calls>>
  BY Calling DEF send_request
<1>2. CASE /\ segments' = segments \cup {net_send_tcp_segment(tcp_conn, {"PSH", "ACK"}, Request)}
           /\ tcp_conn' = [tcp_conn EXCEPT !.local_seq = SeqNo(@, 1)]
           /\ http' = "receiving" /\ recv' = <<>> /\ UNCHANGED returned
  <2> DEFINE x == net_send_tcp_segment(tcp_conn, {"PSH", "ACK"}, Request)
  <2>1. x.to = "server" /\ x.port = tcp_conn.local_port /\ x.ack \in Int /\ x.seq \in Int
    <3>2. x = net_send_tcp_segment(tcp_conn, {"PSH", "ACK"}, Request)
      OBVIOUS
    <3> HIDE DEF x
    <3> QED
      BY <1>1, <3>2, ClientSegment
  <2>2. SeqNo(tcp_conn.local_seq, 1) \in Int
    <3>1. \A z \in Int : (z + 1) % SeqSpace \in Int
      BY TcpConstants
    <3> QED
      BY <1>1, <3>1 DEF SeqNo, Connections
  <2>3. /\ tcp_conn' \in Connections /\ tcp_conn'.local_port = tcp_conn.local_port
        /\ tcp_conn'.state = tcp_conn.state /\ tcp_conn'.remote_seq = tcp_conn.remote_seq
        /\ tcp_conn'.fin_received = tcp_conn.fin_received
    BY <1>1, <1>2, <2>2 DEF Connections
  <2>4. ClientMove({x})
    BY <1>1, <1>2, <2>1, <2>3 DEF ClientMove
  <2>5. PICK at \in 1..(Response + 2) : TakenTo(at)
    BY <1>1, Calling
  <2>6. at = 1 /\ UNCHANGED srv
    BY <1>1, <2>5 DEF TakenTo
  <2>7. Least(OutSize, Least(at - 1, Response)) = 0
    BY <2>6, TcpConstants DEF Least
  <2>8. recv' = Units(tcp_conn'.local_port, 1, Least(OutSize, Least(at - 1, Response)))
    BY <1>2, <2>7 DEF Units
  <2>9. TakenTo(at)'
    <3>1. tcp_conn.state = "ESTABLISHED" =>
          /\ srv[tcp_conn.local_port].state # "listen"
          /\ tcp_conn.remote_seq = SeqNo(srv[tcp_conn.local_port].iss, at)
          /\ at <= srv[tcp_conn.local_port].nxt /\ at <= Response + 1
      BY <2>5 DEF TakenTo
    <3>2. tcp_conn.fin_received => at = Response + 2 /\ tcp_conn.state # "ESTABLISHED"
      BY <2>5 DEF TakenTo
    <3>3. tcp_conn.state # "SYN_SENT"
      BY <1>1, <2>5 DEF TakenTo
    <3> QED
      BY <1>2, <2>3, <2>6, <2>8, <3>1, <3>2, <3>3 DEF TakenTo
  <2> HIDE DEF x
  <2> QED
    BY <1>2, <2>4, <2>9, StillCalling
<1>3. CASE net_tcp_abort(tcp_conn) /\ http' = "idle" /\ returned' = [code |-> "-3", data |-> <<>>]
  <2>1. PICK x : /\ segments' \subseteq segments \cup {x}
                 /\ x.to = "server" /\ x.port = tcp_conn.local_port /\ x.data = <<>>
                 /\ x.ack \in Int /\ x.seq \in Int
    BY <1>1, <1>3, AbortIs
  <2>2. /\ tcp_conn' \in Connections /\ tcp_conn'.local_port = tcp_conn.local_port
        /\ tcp_conn'.state = "CLOSED"
    BY <1>1, <1>3, AbortIs
  <2>3. ClientMove({x})
    BY <1>1, <1>3, <2>1, <2>2 DEF ClientMove
  <2> QED
    BY <1>3, <2>2, <2>3, ReturnsNothing
<1> QED
  BY <1>2, <1>3 DEF send_request

\* net_http_get returns: what it copied is the stream up to the position taken.
LEMMA HttpReturns ==
  ASSUME TcpInv, http_returns
  PROVE  TcpInv'
<1>1. /\ http = "receiving" /\ http' = "idle" /\ tcp_conn \in Connections
      /\ UNCHANGED <<tcp_next_local_port, recv, srv, calls>>
  BY Calling DEF http_returns
<1>2. PICK at \in 1..(Response + 2) : TakenTo(at)
  BY <1>1, Calling
<1> DEFINE n == Least(OutSize, Least(at - 1, Response))
<1>3. /\ tcp_conn' \in Connections /\ tcp_conn'.local_port = tcp_conn.local_port
      /\ tcp_conn'.state \in {"CLOSED", "DONE"}
      /\ \E X : ClientMove(X)
  <2>1. CASE tcp_conn.state # "DONE"
    <3>1. net_tcp_abort(tcp_conn)
      BY <2>1 DEF http_returns
    <3>2. PICK x : /\ segments' \subseteq segments \cup {x}
                   /\ x.to = "server" /\ x.port = tcp_conn.local_port /\ x.data = <<>>
                   /\ x.ack \in Int /\ x.seq \in Int
      BY <1>1, <3>1, AbortIs
    <3>3. /\ tcp_conn' \in Connections /\ tcp_conn'.local_port = tcp_conn.local_port
          /\ tcp_conn'.state = "CLOSED"
      BY <1>1, <3>1, AbortIs
    <3>4. ClientMove({x})
      BY <1>1, <3>2, <3>3 DEF ClientMove
    <3> QED
      BY <3>3, <3>4
  <2>2. CASE tcp_conn.state = "DONE"
    <3>1. UNCHANGED <<segments, tcp_conn>>
      BY <2>2 DEF http_returns
    <3>2. ClientMove({})
      BY <1>1, <3>1 DEF ClientMove
    <3> QED
      BY <1>1, <2>2, <3>1, <3>2
  <2> QED
    BY <2>1, <2>2
<1>4. CASE returned' = [code |-> "-4", data |-> <<>>]
  BY <1>1, <1>3, <1>4, ReturnsNothing
<1>5. CASE returned' = [code |-> IF tcp_conn.fin_received THEN "closed" ELSE "cut", data |-> recv]
  <2>1. recv = Units(tcp_conn.local_port, 1, n) /\ n \in Nat
    BY <1>1, <1>2, TcpConstants DEF TakenTo, Least
  <2>2. tcp_conn.fin_received => n = Least(OutSize, Response)
    <3>1. tcp_conn.fin_received => at = Response + 2
      BY <1>2 DEF TakenTo
    <3>2. at = Response + 2 => Least(at - 1, Response) = Response
      BY TcpConstants DEF Least
    <3> QED
      BY <3>1, <3>2
  <2> HIDE DEF n
  <2>3. Len(recv) = n
    <3>1. 1 \in Int
      OBVIOUS
    <3> QED
      BY <2>1, <3>1, UnitsAre
  <2>4. returned'.data = recv /\ (returned'.code = "closed" => tcp_conn.fin_received)
    <3>1. CASE tcp_conn.fin_received
      BY <1>5, <3>1
    <3>2. CASE ~tcp_conn.fin_received
      BY <1>5, <3>2
    <3> QED
      BY <3>1, <3>2
  <2>5. Stream(Len(returned.data))' = recv
    BY <1>3, <2>1, <2>3, <2>4 DEF Stream
  <2>6. returned'.code = "closed" => Len(returned'.data) = Least(OutSize, Response)
    BY <2>2, <2>3, <2>4
  <2>7. ClientInv'
    BY <1>1, <1>3, <2>4, <2>5, <2>6 DEF ClientInv
  <2> QED
    BY <1>3, <2>7, ClientMoves DEF TcpInv
<1> QED
  BY <1>4, <1>5 DEF http_returns

\* What is copied to the buffer when the next piece of the stream comes.
LEMMA CopiedIs ==
  ASSUME http = "receiving", NEW p, NEW at \in 1..(Response + 1), NEW k \in Nat, at + k <= Response + 1,
         recv = Units(p, 1, Least(OutSize, at - 1)),
         NEW m, m.data = Units(p, at, k)
  PROVE  Copied(m) = Units(p, 1, Least(OutSize, at + k - 1))
<1> DEFINE a == at - 1
           n == Least(OutSize, a + k)
<1>1. a \in Nat /\ n \in Nat /\ OutSize \in Nat /\ at = a + 1 /\ Least(OutSize, at - 1) \in Nat
  BY TcpConstants DEF Least
<1>2. Len(recv) = Least(OutSize, a) /\ Len(m.data) = k
  <2>1. 1 \in Int /\ at \in Int
    OBVIOUS
  <2> HIDE DEF a
  <2>2. Len(Units(p, 1, Least(OutSize, a))) = Least(OutSize, a)
    BY <1>1, <2>1, UnitsAre DEF a
  <2>3. Len(Units(p, at, k)) = k
    BY <2>1, UnitsAre
  <2> QED
    BY <2>2, <2>3 DEF a
<1>3. Copied(m) = SubSeq(recv \o m.data, 1, Least(OutSize, Least(OutSize, a) + k))
  BY <1>2 DEF Copied
<1>4. CASE a <= OutSize
  <2>1. Least(OutSize, a) = a /\ n \in 0..(a + k)
    BY <1>1, <1>4 DEF Least
  <2>2. SubSeq(Units(p, 1, a) \o Units(p, a + 1, k), 1, n) = Units(p, 1, n)
    BY <1>1, <2>1, UnitsJoin
  <2> QED
    <3>1. recv = Units(p, 1, a) /\ m.data = Units(p, a + 1, k)
      BY <1>1, <2>1
    <3>2. Copied(m) = SubSeq(Units(p, 1, a) \o Units(p, a + 1, k), 1, n)
      BY <1>3, <2>1, <3>1
    <3>3. at + k - 1 = a + k
      BY <1>1
    <3> QED
      BY <2>2, <3>2, <3>3
<1>5. CASE ~(a <= OutSize)
  <2>1. Least(OutSize, a) = OutSize /\ n = OutSize /\ Least(OutSize, OutSize + k) = OutSize
    BY <1>1, <1>5 DEF Least
  <2> DEFINE v == Units(p, at, k)
             u == Units(p, 1, OutSize)
             w == SubSeq(u \o v, 1, OutSize)
             S == {p} \X Int
  <2>2. u \in Seq(S) /\ Len(u) = OutSize /\ v \in Seq(S) /\ Len(v) = k
    <3>1. 1 \in Int /\ at \in Int
      OBVIOUS
    <3> QED
      BY <1>1, <3>1, UnitsAre
  <2> HIDE DEF u, v, S
  <2>3. /\ u \o v \in Seq(S) /\ Len(u \o v) = OutSize + k
        /\ \A i \in 1..OutSize : (u \o v)[i] = u[i]
    <3>1. u \o v \in Seq(S) /\ Len(u \o v) = Len(u) + Len(v)
      BY <2>2, ConcatProperties
    <3>2. \A i \in 1..Len(u) : (u \o v)[i] = u[i]
      <4>1. \A i \in 1..(Len(u) + Len(v)) : (u \o v)[i] = IF i <= Len(u) THEN u[i] ELSE v[i - Len(u)]
        BY <2>2, ConcatProperties
      <4> QED
        BY <1>1, <2>2, <4>1
    <3> QED
      BY <2>2, <3>1, <3>2
  <2>4. w \in Seq(S) /\ Len(w) = OutSize /\ \A i \in 1..OutSize : w[i] = (u \o v)[i]
    <3>1. OutSize \in 0..Len(u \o v)
      BY <1>1, <2>3
    <3> QED
      BY <2>3, <3>1
  <2> HIDE DEF w
  <2>5. w = u
    BY <2>2, <2>3, <2>4, SeqEqual
  <2> QED
    <3>1. recv = u /\ m.data = v
      BY <1>1, <2>1 DEF u, v
    <3>2. Copied(m) = w
      BY <1>3, <2>1, <3>1 DEF w
    <3>3. at + k - 1 = a + k
      BY <1>1
    <3> QED
      BY <2>1, <2>5, <3>2, <3>3 DEF u
<1> QED
  BY <1>1, <1>4, <1>5

\* The five things net_handle_tcp does with a segment.
LEMMA HandledCases ==
  ASSUME NEW c, NEW m
  PROVE  LET h == Handled(c, m)
             up == [c EXCEPT !.local_seq = SeqNo(@, 1), !.remote_seq = SeqNo(m.seq, 1),
                             !.state = "ESTABLISHED"]
             end == [After(c, m) EXCEPT !.remote_seq = SeqNo(@, 1), !.fin_received = TRUE]
         IN \/ h = Only(c)
            \/ h = Only([c EXCEPT !.state = "DONE"])
            \/ /\ c.state = "SYN_SENT" /\ m.port = c.local_port /\ "RST" \notin m.flags
               /\ {"SYN", "ACK"} \subseteq m.flags
               /\ h = [conn |-> up, recv |-> recv, answer |-> {net_send_tcp_segment(up, {"ACK"}, <<>>)}]
            \/ /\ c.state = "ESTABLISHED" /\ m.port = c.local_port /\ "RST" \notin m.flags
               /\ InOrder(c, m) /\ "FIN" \in m.flags
               /\ h = [conn |-> [end EXCEPT !.local_seq = SeqNo(@, 1), !.state = "DONE"],
                       recv |-> Copied(m), answer |-> {net_send_tcp_segment(end, {"FIN", "ACK"}, <<>>)}]
            \/ /\ c.state = "ESTABLISHED" /\ m.port = c.local_port /\ "RST" \notin m.flags
               /\ InOrder(c, m) /\ "FIN" \notin m.flags /\ m.data # <<>>
               /\ h = [conn |-> After(c, m), recv |-> Copied(m),
                       answer |-> {net_send_tcp_segment(After(c, m), {"ACK"}, <<>>)}]
<1> DEFINE out == c.state \in {"CLOSED", "DONE"} \/ m.port # c.local_port
           syn == c.state = "SYN_SENT" /\ {"SYN", "ACK"} \subseteq m.flags /\ m.ack = SeqNo(c.local_seq, 1)
           fin == c.state = "ESTABLISHED" /\ InOrder(c, m) /\ "FIN" \in m.flags
           dat == c.state = "ESTABLISHED" /\ InOrder(c, m) /\ "FIN" \notin m.flags /\ m.data # <<>>
<1>1. CASE out \/ "RST" \in m.flags
  BY <1>1 DEF Handled
<1>2. CASE ~out /\ "RST" \notin m.flags /\ syn
  BY <1>2 DEF Handled
<1>3. CASE ~out /\ "RST" \notin m.flags /\ fin
  BY <1>3 DEF Handled
<1>4. CASE ~out /\ "RST" \notin m.flags /\ dat
  BY <1>4 DEF Handled
<1>5. CASE ~out /\ "RST" \notin m.flags /\ ~syn /\ ~fin /\ ~dat
  BY <1>5 DEF Handled
<1> QED
  BY <1>1, <1>2, <1>3, <1>4, <1>5

\* A piece of the stream that the client expects next: it has been asked for, it
\* begins where the client is, and the client is receiving.
LEMMA Expected ==
  ASSUME TcpInv, NEW m \in segments, m.to = "client", http # "idle",
         NEW at \in 1..(Response + 2), TakenTo(at),
         tcp_conn.state = "ESTABLISHED", m.port = tcp_conn.local_port, "RST" \notin m.flags,
         InOrder(tcp_conn, m)
  PROVE  LET p == tcp_conn.local_port
         IN /\ srv[p] \in ServerSides /\ at <= Response + 1
            /\ tcp_conn.remote_seq = SeqNo(srv[p].iss, at)
            /\ http = "receiving"
            /\ \E k \in 0..(Response + 1) :
                 /\ m.data = Units(p, at, k)
                 /\ \/ m.flags = {"ACK", "FIN"} /\ at + k = Response + 1 /\ at + k + 1 <= srv[p].nxt
                    \/ m.flags = {"ACK"} /\ at + k <= Response + 1 /\ at + k <= srv[p].nxt
<1> DEFINE p == tcp_conn.local_port
           s == srv[p]
<1>1. p \in LocalPorts /\ s \in ServerSides
  BY DEF TcpInv, TcpType, Connections
<1>2. at <= Response + 1 /\ tcp_conn.remote_seq = SeqNo(s.iss, at)
  BY DEF TakenTo
<1>3. Genuine(m, s)
  BY DEF TcpInv, NetworkInv
<1>4. CASE FromStream(m, s)
  <2>1. PICK from \in 0..(Response + 1), k \in 0..(Response + 1) :
            /\ s.asked /\ m.seq = SeqNo(s.iss, from) /\ m.data = Units(m.port, from, k)
            /\ \/ m.flags = {"ACK", "FIN"} /\ from + k = Response + 1 /\ from + k + 1 <= s.nxt
               \/ m.flags = {"ACK"} /\ from + k <= Response + 1 /\ from + k <= s.nxt
    BY <1>4 DEF FromStream
  <2>2. from = at
    <3>1. s.iss \in 0..(SeqSpace - 1)
      BY <1>1 DEF ServerSides
    <3>2. from \in 0..(Response + 2) /\ at \in 0..(Response + 2)
      BY TcpConstants
    <3>3. SeqNo(s.iss, from) = SeqNo(s.iss, at)
      BY <1>2, <2>1 DEF InOrder
    <3> QED
      BY <3>1, <3>2, <3>3, SeqNoInjective
  <2>3. http = "receiving"
    <3>1. Sent(p)
      BY <1>1, <2>1 DEF TcpInv, ServerInv
    <3>2. ~(p < p)
      BY <1>1, TcpConstants DEF LocalPorts
    <3> QED
      BY <3>1, <3>2 DEF Sent
  <2> QED
    BY <1>1, <1>2, <2>1, <2>2, <2>3
<1>5. m.seq # SeqNo(s.iss, 0)
  <2>1. s.iss \in 0..(SeqSpace - 1) /\ 0 \in 0..(Response + 2) /\ at \in 0..(Response + 2) /\ at # 0
    BY <1>1, TcpConstants DEF ServerSides
  <2>2. SeqNo(s.iss, at) # SeqNo(s.iss, 0)
    BY <2>1, SeqNoInjective
  <2> QED
    BY <1>2, <2>2 DEF InOrder
<1> QED
  BY <1>3, <1>4, <1>5 DEF Genuine

\* The updates of the connection block, field by field.
LEMMA AfterFields ==
  ASSUME NEW c \in Connections, NEW m
  PROVE  /\ After(c, m).state = c.state /\ After(c, m).local_port = c.local_port
         /\ After(c, m).local_seq = c.local_seq /\ After(c, m).fin_received = c.fin_received
         /\ After(c, m).remote_seq = SeqNo(c.remote_seq, Len(m.data))
         /\ SeqNo(c.remote_seq, Len(m.data)) \in Int => After(c, m) \in Connections
<1>1. c \in [state : {"CLOSED", "SYN_SENT", "ESTABLISHED", "DONE"}, local_port : LocalPorts,
             local_seq : Int, remote_seq : Int, fin_received : BOOLEAN]
  BY DEF Connections
<1> QED
  BY <1>1 DEF After, Connections

\* The connection after the FIN.
LEMMA EndFields ==
  ASSUME NEW c \in Connections, SeqNo(c.remote_seq, 1) \in Int, SeqNo(c.local_seq, 1) \in Int,
         NEW end, end = [c EXCEPT !.remote_seq = SeqNo(@, 1), !.fin_received = TRUE],
         NEW after, after = [end EXCEPT !.local_seq = SeqNo(@, 1), !.state = "DONE"]
  PROVE  /\ end \in Connections /\ end.local_port = c.local_port
         /\ after \in Connections /\ after.local_port = c.local_port /\ after.state = "DONE"
<1>1. c \in [state : {"CLOSED", "SYN_SENT", "ESTABLISHED", "DONE"}, local_port : LocalPorts,
             local_seq : Int, remote_seq : Int, fin_received : BOOLEAN]
  BY DEF Connections
<1>2. end \in Connections /\ end.local_port = c.local_port /\ end.local_seq = c.local_seq
  BY <1>1 DEF Connections
<1>3. end \in [state : {"CLOSED", "SYN_SENT", "ESTABLISHED", "DONE"}, local_port : LocalPorts,
               local_seq : Int, remote_seq : Int, fin_received : BOOLEAN]
  BY <1>2 DEF Connections
<1> QED
  BY <1>2, <1>3 DEF Connections

\* net_handle_tcp: only the segment that continues the stream is taken.
LEMMA HandleTcp ==
  ASSUME TcpInv, NEW m \in segments, NEW rest, rest \subseteq segments, net_handle_tcp(m, rest)
  PROVE  TcpInv'
<1> DEFINE c == tcp_conn
           p == tcp_conn.local_port
           s == srv[p]
           h == Handled(c, m)
<1>1. /\ http # "idle" /\ m.to = "client" /\ c \in Connections
      /\ tcp_conn' = h.conn /\ recv' = h.recv /\ segments' = rest \cup h.answer
      /\ UNCHANGED <<http, tcp_next_local_port, srv, calls, returned>>
  BY Calling DEF net_handle_tcp
<1>2. /\ p \in LocalPorts /\ s \in ServerSides /\ s.iss \in 0..(SeqSpace - 1) /\ s.nxt \in Nat
      /\ http \in {"idle", "connecting", "connected", "receiving"}
      /\ c.local_seq \in Int /\ c.remote_seq \in Int /\ m.seq \in Int
  BY DEF TcpInv, TcpType, Connections, ServerSides
<1>3. PICK at \in 1..(Response + 2) : TakenTo(at)
  BY <1>1, Calling
<1>4. \A z \in Int, k \in Int : SeqNo(z, k) \in Int
  <2>1. \A z \in Int : z % SeqSpace \in Int
    BY TcpConstants
  <2> QED
    BY <2>1 DEF SeqNo
<1>5. /\ c.fin_received => at = Response + 2 /\ c.state # "ESTABLISHED"
      /\ IF http = "receiving" THEN recv = Units(p, 1, Least(OutSize, Least(at - 1, Response)))
                               ELSE at = 1
  BY <1>3 DEF TakenTo
<1>6. CASE h = Only(c)
  <2>1. UNCHANGED <<tcp_conn, recv>> /\ segments' \subseteq segments \cup {}
    BY <1>1, <1>6 DEF Only
  <2>2. ClientMove({})
    BY <1>1, <1>2, <2>1 DEF ClientMove
  <2>3. TakenTo(at)'
    BY <1>1, <1>3, <2>1 DEF TakenTo
  <2> QED
    BY <1>1, <2>2, <2>3, StillCalling
<1>7. CASE h = Only([c EXCEPT !.state = "DONE"])
  <2>1. /\ tcp_conn' = [c EXCEPT !.state = "DONE"] /\ UNCHANGED recv
        /\ segments' \subseteq segments \cup {}
    BY <1>1, <1>7 DEF Only
  <2>2. /\ tcp_conn' \in Connections /\ tcp_conn'.local_port = p /\ tcp_conn'.state = "DONE"
        /\ tcp_conn'.fin_received = c.fin_received
    BY <1>1, <2>1 DEF Connections
  <2>3. ClientMove({})
    BY <1>1, <1>2, <2>1, <2>2 DEF ClientMove
  <2>4. TakenTo(at)'
    BY <1>1, <1>5, <2>1, <2>2 DEF TakenTo
  <2> QED
    BY <1>1, <2>3, <2>4, StillCalling
<1>8. ASSUME c.state = "SYN_SENT", m.port = p, "RST" \notin m.flags, {"SYN", "ACK"} \subseteq m.flags,
             NEW up, up = [c EXCEPT !.local_seq = SeqNo(@, 1), !.remote_seq = SeqNo(m.seq, 1),
                                    !.state = "ESTABLISHED"],
             h = [conn |-> up, recv |-> recv, answer |-> {net_send_tcp_segment(up, {"ACK"}, <<>>)}]
      PROVE  TcpInv'
  <2>1. /\ up \in Connections /\ up.local_port = p /\ up.state = "ESTABLISHED"
        /\ up.remote_seq = SeqNo(m.seq, 1) /\ up.fin_received = c.fin_received
    <3>1. SeqNo(c.local_seq, 1) \in Int /\ SeqNo(m.seq, 1) \in Int
      <4>1. 1 \in Int /\ c.local_seq \in Int /\ m.seq \in Int
        BY <1>2
      <4> HIDE DEF c
      <4> QED
        BY <1>4, <4>1
    <3>2. c \in [state : {"CLOSED", "SYN_SENT", "ESTABLISHED", "DONE"}, local_port : LocalPorts,
                  local_seq : Int, remote_seq : Int, fin_received : BOOLEAN]
      BY <1>1 DEF Connections
    <3>3. up = [state |-> "ESTABLISHED", local_port |-> p, local_seq |-> SeqNo(c.local_seq, 1),
                remote_seq |-> SeqNo(m.seq, 1), fin_received |-> c.fin_received]
      BY <1>8, <3>2
    <3> QED
      BY <1>2, <3>1, <3>2, <3>3 DEF Connections
  <2> DEFINE x == net_send_tcp_segment(up, {"ACK"}, <<>>)
  <2>2. x.to = "server" /\ x.port = p /\ x.data = <<>> /\ x.ack \in Int /\ x.seq \in Int
    <3>2. x = net_send_tcp_segment(up, {"ACK"}, <<>>)
      OBVIOUS
    <3> HIDE DEF x
    <3> QED
      BY <2>1, <3>2, ClientSegment
  <2>3. tcp_conn' = up /\ UNCHANGED recv /\ segments' \subseteq segments \cup {x}
    BY <1>1, <1>8
  <2> HIDE DEF x
  <2>4. ClientMove({x})
    BY <1>1, <1>2, <2>1, <2>2, <2>3 DEF ClientMove
  <2>5. s.state # "listen" /\ m.seq = SeqNo(s.iss, 0) /\ s.nxt >= 1
    <3>1. Genuine(m, s)
      BY <1>1, <1>8 DEF TcpInv, NetworkInv
    <3>2. ~FromStream(m, s)
      <4>1. m.flags # {"ACK", "FIN"} /\ m.flags # {"ACK"}
        BY <1>8
      <4> QED
        BY <4>1 DEF FromStream
    <3> QED
      BY <1>8, <3>1, <3>2 DEF Genuine
  <2>6. tcp_conn'.remote_seq = SeqNo(s.iss, 1)
    <3>1. SeqNo(SeqNo(s.iss, 0), 1) = SeqNo(s.iss, 0 + 1)
      BY <1>2, SeqNoAdds, TcpConstants
    <3> QED
      BY <2>1, <2>3, <2>5, <3>1
  <2>7. at = 1 /\ ~c.fin_received
    <3>1. http = "connecting"
      BY <1>3, <1>8 DEF TakenTo
    <3> QED
      BY <1>5, <3>1, TcpConstants
  <2>8. TakenTo(at)'
    <3>1. /\ tcp_conn'.state = "ESTABLISHED" /\ tcp_conn'.local_port = p
          /\ ~tcp_conn'.fin_received /\ srv' = srv /\ recv' = recv /\ http' = http
      BY <1>1, <2>1, <2>3, <2>7
    <3>2. at <= s.nxt /\ at <= Response + 1
      BY <1>2, <2>5, <2>7, TcpConstants
    <3>3. IF http = "receiving" THEN recv = Units(p, 1, Least(OutSize, Least(at - 1, Response)))
                                ELSE at = 1
      BY <1>5
    <3> QED
      BY <2>5, <2>6, <2>7, <3>1, <3>2, <3>3 DEF TakenTo
  <2> QED
    BY <1>1, <2>4, <2>8, StillCalling
<1>9. ASSUME c.state = "ESTABLISHED", m.port = p, "RST" \notin m.flags, InOrder(c, m),
             "FIN" \in m.flags \/ m.data # <<>>,
             NEW end \in Connections, end.local_port = p,
             NEW flags, segments' \subseteq segments \cup {net_send_tcp_segment(end, flags, <<>>)},
             recv' = Copied(m), tcp_conn' \in Connections, tcp_conn'.local_port = p,
             IF "FIN" \in m.flags THEN tcp_conn'.state = "DONE"
             ELSE /\ tcp_conn'.state = "ESTABLISHED" /\ ~tcp_conn'.fin_received
                  /\ tcp_conn'.remote_seq = SeqNo(c.remote_seq, Len(m.data))
      PROVE  TcpInv'
  <2> DEFINE x == net_send_tcp_segment(end, flags, <<>>)
  <2>1. x.to = "server" /\ x.port = p /\ x.data = <<>> /\ x.ack \in Int /\ x.seq \in Int
    <3>2. x = net_send_tcp_segment(end, flags, <<>>)
      OBVIOUS
    <3>3. end.local_port = p
      BY <1>9
    <3> HIDE DEF x, p
    <3> QED
      BY <3>2, <3>3, ClientSegment
  <2> HIDE DEF x
  <2>2. ClientMove({x})
    BY <1>1, <1>2, <1>9, <2>1 DEF ClientMove, x
  <2>3. /\ at <= Response + 1 /\ c.remote_seq = SeqNo(s.iss, at) /\ http = "receiving"
        /\ \E k \in 0..(Response + 1) :
             /\ m.data = Units(p, at, k)
             /\ \/ m.flags = {"ACK", "FIN"} /\ at + k = Response + 1 /\ at + k + 1 <= s.nxt
                \/ m.flags = {"ACK"} /\ at + k <= Response + 1 /\ at + k <= s.nxt
    BY <1>1, <1>3, <1>9, Expected
  <2>4. PICK k \in 0..(Response + 1) :
             /\ m.data = Units(p, at, k)
             /\ \/ m.flags = {"ACK", "FIN"} /\ at + k = Response + 1 /\ at + k + 1 <= s.nxt
                \/ m.flags = {"ACK"} /\ at + k <= Response + 1 /\ at + k <= s.nxt
    BY <2>3, Zenon
  <2>5. /\ k \in Nat /\ at + k \in 1..(Response + 2) /\ Len(m.data) = k /\ at \in 1..(Response + 1)
        /\ at + k <= Response + 1
    <3>1. at \in Int /\ k \in Nat /\ Response \in Nat
      BY TcpConstants
    <3>2. Len(Units(p, at, k)) = k
      BY <3>1, UnitsAre
    <3>3. at + k <= Response + 1
      BY <2>4, <3>1
    <3>4. Len(m.data) = k
      BY <2>4, <3>2
    <3>5. at + k \in 1..(Response + 2) /\ at \in 1..(Response + 1)
      BY <3>1, <3>3
    <3> QED
      BY <3>1, <3>3, <3>4, <3>5
  <2>6. recv' = Units(p, 1, Least(OutSize, at + k - 1))
    <3>1. Least(at - 1, Response) = at - 1
      BY <2>3, TcpConstants DEF Least
    <3>2. recv = Units(p, 1, Least(OutSize, at - 1))
      BY <1>5, <2>3, <3>1
    <3>3. Copied(m) = Units(p, 1, Least(OutSize, at + k - 1))
      <4>1. m.data = Units(p, at, k) /\ http = "receiving"
        BY <2>3, <2>4
      <4> HIDE DEF p
      <4> QED
        BY <2>5, <3>2, <4>1, CopiedIs
    <3> QED
      BY <1>9, <3>3
  <2>7. CASE "FIN" \in m.flags
    <3>1. at + k = Response + 1
      BY <2>4, <2>7
    <3>2. /\ Response + 2 \in 1..(Response + 2) /\ Response + 2 - 1 = Response + 1
          /\ Least(Response + 1, Response) = Response /\ at + k - 1 = Response
      BY <2>5, <3>1, TcpConstants DEF Least
    <3>3. TakenTo(Response + 2)'
      <4> DEFINE e == Response + 2
      <4>1. tcp_conn'.state = "DONE" /\ tcp_conn'.local_port = p /\ http' = "receiving"
        BY <1>1, <1>9, <2>3, <2>7
      <4>2. recv' = Units(p, 1, Least(OutSize, Least(e - 1, Response)))
        <5>1. Least(e - 1, Response) = at + k - 1
          BY <3>2
        <5> HIDE DEF e
        <5> QED BY <2>6, <5>1, Zenon
      <4>3. TakenTo(e)'
        <5>1. e = Response + 2
          OBVIOUS
        <5> HIDE DEF e
        <5> QED BY <4>1, <4>2, <5>1 DEF TakenTo
      <4> QED
        BY <4>3
    <3> QED
      BY <1>1, <2>2, <3>2, <3>3, StillCalling
  <2>8. CASE "FIN" \notin m.flags
    <3>1. at + k <= s.nxt /\ Least(at + k - 1, Response) = at + k - 1
      BY <2>4, <2>5, <2>8, TcpConstants DEF Least
    <3>2. SeqNo(SeqNo(s.iss, at), k) = SeqNo(s.iss, at + k)
      BY <1>2, <2>5, SeqNoAdds, TcpConstants
    <3>3. tcp_conn'.remote_seq = SeqNo(s.iss, at + k) /\ s.state # "listen"
      BY <1>3, <1>9, <2>3, <2>5, <2>8, <3>2 DEF TakenTo
    <3>4. TakenTo(at + k)'
      <4>1. /\ tcp_conn'.state = "ESTABLISHED" /\ tcp_conn'.local_port = p /\ http' = "receiving"
            /\ ~tcp_conn'.fin_received /\ srv' = srv
            /\ recv' = Units(p, 1, Least(OutSize, Least(at + k - 1, Response)))
        BY <1>1, <1>9, <2>3, <2>6, <2>8, <3>1
      <4>2. at + k <= Response + 1
        BY <2>5
      <4> DEFINE e == at + k
      <4>3. /\ recv' = Units(p, 1, Least(OutSize, Least(e - 1, Response))) /\ e <= s.nxt
            /\ e <= Response + 1 /\ tcp_conn'.remote_seq = SeqNo(s.iss, e)
        <5>1. recv' = Units(p, 1, Least(OutSize, Least(e - 1, Response)))
          BY <4>1
        <5>2. e <= s.nxt /\ e <= Response + 1
          BY <3>1, <4>2
        <5>3. tcp_conn'.remote_seq = SeqNo(s.iss, e)
          BY <3>3
        <5> HIDE DEF e
        <5> QED BY <5>1, <5>2, <5>3
      <4>4. TakenTo(e)'
        <5>1. srv'[tcp_conn'.local_port] = s /\ s.state # "listen"
          BY <3>3, <4>1
        <5>2. /\ tcp_conn'.state = "ESTABLISHED" /\ ~tcp_conn'.fin_received /\ http' = "receiving"
              /\ tcp_conn'.local_port = p
          BY <4>1
        <5> HIDE DEF e, s, p
        <5> QED BY <4>3, <5>1, <5>2 DEF TakenTo
      <4> QED
        BY <4>4
    <3> QED
      BY <1>1, <2>2, <2>5, <3>4, StillCalling
  <2> QED
    BY <2>7, <2>8
<1>10. ASSUME c.state = "ESTABLISHED", m.port = p, "RST" \notin m.flags, InOrder(c, m)
       PROVE  /\ After(c, m) \in Connections /\ After(c, m).local_port = p
              /\ After(c, m).state = "ESTABLISHED" /\ ~After(c, m).fin_received
              /\ After(c, m).remote_seq = SeqNo(c.remote_seq, Len(m.data))
  <2>1. \E k \in 0..(Response + 1) : m.data = Units(p, at, k)
    BY <1>1, <1>3, <1>10, Expected
  <2>2. PICK k \in 0..(Response + 1) : m.data = Units(p, at, k)
    BY <2>1
  <2>3. Len(m.data) \in Int
    <3>1. at \in Int /\ k \in Nat
      BY <2>2, TcpConstants
    <3> QED
      BY <2>2, <3>1, UnitsAre
  <2>4. SeqNo(c.remote_seq, Len(m.data)) \in Int
    BY <1>2, <1>4, <2>3
  <2>5. ~c.fin_received
    BY <1>5, <1>10
  <2> QED
    BY <1>1, <1>10, <2>4, <2>5, AfterFields
<1>11. CASE /\ c.state = "ESTABLISHED" /\ m.port = p /\ "RST" \notin m.flags
            /\ InOrder(c, m) /\ "FIN" \notin m.flags /\ m.data # <<>>
            /\ h = [conn |-> After(c, m), recv |-> Copied(m),
                    answer |-> {net_send_tcp_segment(After(c, m), {"ACK"}, <<>>)}]
  <2>1. /\ After(c, m) \in Connections /\ After(c, m).local_port = p
        /\ After(c, m).state = "ESTABLISHED" /\ ~After(c, m).fin_received
        /\ After(c, m).remote_seq = SeqNo(c.remote_seq, Len(m.data))
    BY <1>10, <1>11
  <2>2. /\ tcp_conn' = After(c, m) /\ recv' = Copied(m)
        /\ segments' \subseteq segments \cup {net_send_tcp_segment(After(c, m), {"ACK"}, <<>>)}
    <3>1. /\ h.conn = After(c, m) /\ h.recv = Copied(m)
          /\ h.answer = {net_send_tcp_segment(After(c, m), {"ACK"}, <<>>)}
      <4> HIDE DEF h, c
      <4> QED BY <1>11
    <3> HIDE DEF h, c
    <3> QED BY <1>1, <3>1
  <2> QED
    BY <1>9, <1>11, <2>1, <2>2
<1>12. ASSUME c.state = "ESTABLISHED", m.port = p, "RST" \notin m.flags, InOrder(c, m), "FIN" \in m.flags,
              NEW end, end = [After(c, m) EXCEPT !.remote_seq = SeqNo(@, 1), !.fin_received = TRUE],
              h = [conn |-> [end EXCEPT !.local_seq = SeqNo(@, 1), !.state = "DONE"],
                   recv |-> Copied(m), answer |-> {net_send_tcp_segment(end, {"FIN", "ACK"}, <<>>)}]
       PROVE  TcpInv'
  <2> DEFINE b == After(c, m)
             after == [end EXCEPT !.local_seq = SeqNo(@, 1), !.state = "DONE"]
  <2>1. b \in Connections /\ b.local_port = p
    BY <1>10, <1>12
  <2>2. SeqNo(b.remote_seq, 1) \in Int /\ SeqNo(b.local_seq, 1) \in Int
    <3>1. 1 \in Int /\ b.remote_seq \in Int /\ b.local_seq \in Int
      BY <2>1 DEF Connections
    <3> HIDE DEF b
    <3> QED
      BY <1>4, <3>1
  <2>3. /\ end \in Connections /\ end.local_port = p
        /\ after \in Connections /\ after.local_port = p /\ after.state = "DONE"
    <3> HIDE DEF b, after
    <3>1. end = [b EXCEPT !.remote_seq = SeqNo(@, 1), !.fin_received = TRUE]
      BY <1>12 DEF b
    <3>2. after = [end EXCEPT !.local_seq = SeqNo(@, 1), !.state = "DONE"]
      BY DEF after
    <3> QED
      BY <2>1, <2>2, <3>1, <3>2, EndFields
  <2>4. /\ tcp_conn' = after /\ recv' = Copied(m)
        /\ segments' \subseteq segments \cup {net_send_tcp_segment(end, {"FIN", "ACK"}, <<>>)}
    BY <1>1, <1>12
  <2> QED
    BY <1>9, <1>12, <2>3, <2>4
<1> QED
  BY <1>6, <1>7, <1>8, <1>11, <1>12, HandledCases

\* What every step of the client, the server and the network keeps.
THEOREM TcpStep == TcpInv /\ [TcpNext]_tcpvars => TcpInv'
<1> SUFFICES ASSUME TcpInv, [TcpNext]_tcpvars PROVE TcpInv'
  OBVIOUS
<1>1. CASE UNCHANGED tcpvars
  <2>1. SegmentsOnly({})
    BY <1>1 DEF tcpvars, SegmentsOnly
  <2> QED
    BY <2>1, SegmentsLeave
<1>2. CASE \E isn \in Isns : net_tcp_connect(isn)
  BY <1>2, Connect
<1>3. CASE Client
  BY <1>3, SynTimeout, ConnectReturns, SendRequest, HttpReturns DEF Client
<1>4. CASE \E p \in LocalPorts : Serve(p) \/ srv_reset(p)
  BY <1>4, SrvResendSyn, SrvTransmit, SrvReset DEF Serve
<1>5. CASE \E m \in segments : lose(m)
  <2>1. SegmentsOnly({})
    BY <1>5 DEF lose, SegmentsOnly
  <2> QED
    BY <2>1, SegmentsLeave
<1>6. CASE \E m \in segments : Deliver(m, Left(m))
  <2>1. PICK m \in segments : Deliver(m, Left(m))
    BY <1>6
  <2>2. Left(m) \subseteq segments
    BY DEF Left
  <2> QED
    BY <2>1, <2>2, HandleTcp, SrvSegment, SrvSyn DEF Deliver
<1> QED
  BY <1>1, <1>2, <1>3, <1>4, <1>5, <1>6 DEF TcpNext

\* The position taken says what was returned.
LEMMA TcpInvMeans == TcpInv => ResponseExact
<1> SUFFICES ASSUME TcpInv PROVE ResponseExact
  OBVIOUS
<1>1. CASE http = "idle"
  BY <1>1 DEF TcpInv, ClientInv, ResponseExact
<1>2. CASE http # "idle"
  <2>1. PICK at \in 1..(Response + 2) : TakenTo(at)
    BY <1>2, Calling
  <2>2. http = "receiving" => recv = Stream(Len(recv))
    <3> SUFFICES ASSUME http = "receiving" PROVE recv = Stream(Len(recv))
      OBVIOUS
    <3> DEFINE n == Least(OutSize, Least(at - 1, Response))
    <3>1. recv = Units(tcp_conn.local_port, 1, n)
      BY <2>1 DEF TakenTo
    <3>2. n \in Nat /\ 1 \in Int
      BY TcpConstants DEF Least
    <3>3. Len(recv) = n
      <4> HIDE DEF n
      <4> QED
        BY <3>1, <3>2, UnitsAre
    <3> QED
      BY <3>1, <3>3 DEF Stream
  <2>3. tcp_conn.state = "ESTABLISHED" =>
          (tcp_conn.remote_seq - srv[tcp_conn.local_port].iss) % SeqSpace <= srv[tcp_conn.local_port].nxt
    <3> DEFINE s == srv[tcp_conn.local_port]
    <3>1. s.iss \in 0..(SeqSpace - 1)
      BY DEF TcpInv, TcpType, Connections, ServerSides
    <3>2. at \in 0..(Response + 2)
      BY TcpConstants
    <3>3. (SeqNo(s.iss, at) - s.iss) % SeqSpace = at
      BY <3>1, <3>2, SeqNoBack
    <3> QED
      BY <2>1, <3>3 DEF TakenTo
  <2> QED
    BY <2>2, <2>3 DEF TcpInv, ClientInv, ResponseExact
<1> QED
  BY <1>1, <1>2

\* For any sequence numbers, response, buffer and loss, duplication and reordering of
\* segments: what net_http_get returns is the beginning of the response to this very call,
\* and all of it, as far as the buffer holds, when it reports the end (net_handle_tcp).
THEOREM ResponseExactAlways == TcpSpec => []ResponseExact
<1>1. TcpInit => TcpInv
  BY TcpInitially
<1>2. TcpInv /\ [TcpNext]_tcpvars => TcpInv'
  BY TcpStep
<1>3. TcpInv => ResponseExact
  BY TcpInvMeans
<1> QED
  BY <1>1, <1>2, <1>3, PTL DEF TcpSpec
================================================================================
