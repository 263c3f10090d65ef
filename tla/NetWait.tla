-------------------------------- MODULE NetWait --------------------------------
(***************************************************************************)
(* Waiting for an answer from the network (kernel/net.c): net_ping in a    *)
(* system call of the shell or in the remote shell's handler, the DHCP     *)
(* exchange at the start of the network task, the net_poll they all spin   *)
(* on, its re-entrancy flag, and the timer that moves their deadlines.     *)
(*                                                                         *)
(* A system call runs with interrupts off.  The network task starts with   *)
(* interrupts on and runs with them off once its first task_switch has     *)
(* returned (module Sched).  A wait compares the tick counter with its     *)
(* deadline; left is the difference.                                       *)
(***************************************************************************)
EXTENDS Integers, Sequences, FiniteSets

CONSTANTS
  WaitTicks,    \* how long a wait lasts (100, 200 or 300 in the code)
  SliceTicks,      \* ticks per time slice
  Attempts,     \* DHCP attempts (3)
  Scenarios     \* [early, lossy, remote]: may the shell ping before the network
                \* task's first yield, an answer to a ping get lost, a remote
                \* shell `ping' arrive?

ASSUME WaitAssumption ==
  /\ WaitTicks \in Nat \ {0}
  /\ SliceTicks \in Nat \ {0}
  /\ Attempts \in Nat \ {0}
  /\ Scenarios \subseteq [early : BOOLEAN, lossy : BOOLEAN, remote : BOOLEAN]

VARIABLES
  running,          \* the task on the CPU
  task,             \* where each task is
  netif,            \* the interrupt flag of the network task
  net_poll_active,
  rx,               \* frames the NIC has received
  wire,             \* answers on their way
  got,              \* answers handled: an ARP entry, ping_reply_received
  dhcp,             \* dhcp_client_state and the attempts made
  slice,            \* tick % SliceTicks
  env               \* the scenario, and whether the remote ping was sent

nwvars == <<running, task, netif, net_poll_active, rx, wire, got, dhcp, slice, env>>

Waiters == {"shell", "net"}

\* A task's loop: ring 3; net_ping's wait for ARP and for the echo; the DHCP wait;
\* net_poll_task.  `in' says whether it tests its condition, has found
\* net_poll_active clear, is inside net_poll, is inside a handler's own net_ping
\* (waiting for `nest'), or is about to yield.
Place == [loop : {"user", "arp", "echo", "dhcp", "idle"},
          in : {"loop", "enter", "poll", "nest", "yield"},
          left : 0 .. WaitTicks,
          nest : {"arp", "echo"},
          nleft : 0 .. WaitTicks]

WaitInit ==
  /\ running = "shell"
  /\ \E start \in {"dhcp", "idle"} :        \* idle: a configuration was loaded
       task = [t \in Waiters |-> [loop |-> IF t = "shell" THEN "user" ELSE start,
                                in |-> "loop", left |-> 0, nest |-> "arp", nleft |-> 0]]
  /\ netif = TRUE
  /\ net_poll_active = FALSE
  /\ rx = <<>>
  /\ wire = {}
  /\ got = {}
  /\ dhcp = [state |-> "init", attempt |-> 0]
  /\ slice = 0
  /\ \E s \in Scenarios :
       env = [early |-> s.early, lossy |-> s.lossy, remote |-> s.remote, asked |-> FALSE]

Interrupts == IF running = "shell" THEN task["shell"].loop = "user" ELSE netif

--------------------------------------------------------------------------------
(* net_poll. *)

\* A net_poll without the flag.
CallPollUnguarded(t) ==
  /\ task' = [task EXCEPT ![t].in = "enter"]
  /\ UNCHANGED <<running, netif, net_poll_active, rx, wire, got, dhcp, slice, env>>

\* The call from a loop of task t: nothing when the flag is set.
CallPoll(t) ==
  /\ task' = [task EXCEPT ![t].in = IF ~ net_poll_active THEN "enter"
                                   ELSE IF task[t].loop = "idle" THEN "yield" ELSE "loop"]
  /\ UNCHANGED <<running, netif, net_poll_active, rx, wire, got, dhcp, slice, env>>

\* The flag is set by another instruction than the one that tests it.
EnterPoll(t) ==
  /\ task[t].in = "enter"
  /\ task' = [task EXCEPT ![t].in = "poll"]
  /\ net_poll_active' = TRUE
  /\ UNCHANGED <<running, netif, rx, wire, got, dhcp, slice, env>>

PollEnd(t) ==
  /\ rx = <<>>
  /\ net_poll_active' = FALSE
  /\ task' = [task EXCEPT ![t].in = IF task[t].loop = "idle" THEN "yield" ELSE "loop"]
  /\ UNCHANGED <<running, netif, rx, wire, got, dhcp, slice, env>>

\* The request is not sent.
SendEchoSilent == got' = got \ {"pong"} /\ UNCHANGED wire

\* What net_ping does before its first wait, or between the two: with the MAC
\* address known it clears the flag, sends the request and waits for the echo.
SendEcho == got' = got \ {"pong"} /\ wire' = wire \cup {"pong"}

SendArp == wire' = wire \cup {"arp"} /\ UNCHANGED got

\* dhcp_udp_handler, which is bound for as long as the exchange lasts.
DhcpHandler(f) ==
  IF task["net"].loop = "dhcp" /\ f = "offer" /\ dhcp.state = "discovering"
  THEN dhcp' = [dhcp EXCEPT !.state = "requesting"] /\ wire' = wire \cup {"ack"}
  ELSE IF task["net"].loop = "dhcp" /\ f = "ack" /\ dhcp.state = "requesting"
  THEN dhcp' = [dhcp EXCEPT !.state = "bound"] /\ UNCHANGED wire
  ELSE UNCHANGED <<dhcp, wire>>

\* net_handle_packet for one frame, in whichever task polls.
HandlePacket(t) ==
  /\ rx # <<>>
  /\ rx' = Tail(rx)
  /\ \/ /\ Head(rx) \in {"arp", "pong"}
        /\ got' = got \cup {Head(rx)}
        /\ UNCHANGED <<task, wire, dhcp>>
     \/ /\ Head(rx) \in {"offer", "ack"}
        /\ DhcpHandler(Head(rx))
        /\ UNCHANGED <<task, got>>
     \/ /\ Head(rx) = "rping"       \* net_rsh_udp_handler calls net_ping
        /\ task' = [task EXCEPT ![t].in = "nest", ![t].nleft = WaitTicks,
                                ![t].nest = IF "arp" \in got THEN "echo" ELSE "arp"]
        /\ IF "arp" \in got THEN SendEcho ELSE SendArp
        /\ UNCHANGED dhcp
  /\ UNCHANGED <<running, netif, net_poll_active, slice, env>>

\* The wait inside the handler; its net_poll returns at once.
NestedWait(t) ==
  LET here == task[t] IN
  /\ here.in = "nest"
  /\ \/ /\ here.nest = "arp" /\ "arp" \in got
        /\ task' = [task EXCEPT ![t].nest = "echo", ![t].nleft = WaitTicks]
        /\ SendEcho
     \/ /\ here.nleft = 0 \/ (here.nest = "echo" /\ "pong" \in got)
        /\ here.nest = "arp" => "arp" \notin got
        /\ task' = [task EXCEPT ![t].in = "poll"]
        /\ UNCHANGED <<got, wire>>
  /\ UNCHANGED <<running, netif, net_poll_active, rx, dhcp, slice, env>>

--------------------------------------------------------------------------------
(* The loops. *)

\* The shell types `ping': the system call switches interrupts off.
StartPing ==
  /\ running = "shell" /\ task["shell"].loop = "user"
  /\ env.early \/ ~ netif
  /\ IF "arp" \in got
     THEN task' = [task EXCEPT !["shell"].loop = "echo", !["shell"].left = WaitTicks] /\ SendEcho
     ELSE task' = [task EXCEPT !["shell"].loop = "arp", !["shell"].left = WaitTicks] /\ SendArp
  /\ UNCHANGED <<running, netif, net_poll_active, rx, dhcp, slice, env>>

ReturnToUser == task' = [task EXCEPT !["shell"].loop = "user", !["shell"].left = 0]

\* net_ping's two waits.
PingWait ==
  LET here == task["shell"] IN
  /\ here.in = "loop"
  /\ \/ /\ here.loop = "arp" /\ "arp" \in got
        /\ task' = [task EXCEPT !["shell"].loop = "echo", !["shell"].left = WaitTicks]
        /\ SendEcho
        /\ UNCHANGED <<running, netif, net_poll_active, rx, dhcp, slice, env>>
     \/ /\ \/ here.loop = "arp" /\ "arp" \notin got /\ here.left = 0
           \/ here.loop = "echo" /\ ("pong" \in got \/ here.left = 0)
        /\ ReturnToUser
        /\ UNCHANGED <<running, netif, net_poll_active, rx, wire, got, dhcp, slice, env>>
     \/ /\ \/ here.loop = "arp" /\ "arp" \notin got
           \/ here.loop = "echo" /\ "pong" \notin got
        /\ here.left > 0
        /\ CallPoll("shell")

\* An exchange that never gives up.
DhcpWaitForever ==
  LET here == task["net"] IN
  /\ here.in = "loop" /\ here.loop = "dhcp"
  /\ \/ /\ dhcp.state = "bound"
        /\ task' = [task EXCEPT !["net"].loop = "idle", !["net"].left = 0]
        /\ UNCHANGED <<running, netif, net_poll_active, rx, wire, got, dhcp, slice, env>>
     \/ /\ dhcp.state # "bound" /\ here.left = 0
        /\ dhcp' = [state |-> "discovering", attempt |-> 1]
        /\ wire' = wire \cup {"offer"}
        /\ task' = [task EXCEPT !["net"].left = WaitTicks]
        /\ UNCHANGED <<running, netif, net_poll_active, rx, got, slice, env>>
     \/ /\ dhcp.state # "bound" /\ here.left > 0
        /\ CallPoll("net")

\* net_config_dhcp in the network task, then the services, then the main loop.
DhcpWait ==
  LET here == task["net"] IN
  /\ here.in = "loop" /\ here.loop = "dhcp"
  /\ \/ /\ dhcp.state = "bound" \/ (here.left = 0 /\ dhcp.attempt = Attempts)
        /\ task' = [task EXCEPT !["net"].loop = "idle", !["net"].left = 0]
        /\ UNCHANGED <<running, netif, net_poll_active, rx, wire, got, dhcp, slice, env>>
     \/ /\ dhcp.state # "bound" /\ here.left = 0 /\ dhcp.attempt < Attempts
        /\ dhcp' = [state |-> "discovering", attempt |-> dhcp.attempt + 1]
        /\ wire' = wire \cup {"offer"}
        /\ task' = [task EXCEPT !["net"].left = WaitTicks]
        /\ UNCHANGED <<running, netif, net_poll_active, rx, got, slice, env>>
     \/ /\ dhcp.state # "bound" /\ here.left > 0
        /\ CallPoll("net")

\* net_poll_task's loop.
IdleLoop == task["net"].loop = "idle" /\ task["net"].in = "loop" /\ CallPoll("net")

\* task_switch from net_poll_task: the shell goes on in ring 3, and the network
\* task will go on with interrupts off.
Yield ==
  /\ task["net"].in = "yield"
  /\ running' = "shell"
  /\ netif' = FALSE
  /\ task' = [task EXCEPT !["net"].in = "loop"]
  /\ UNCHANGED <<net_poll_active, rx, wire, got, dhcp, slice, env>>

Poll(t) == EnterPoll(t) \/ (task[t].in = "poll" /\ (HandlePacket(t) \/ PollEnd(t)))

\* A step of the task on the CPU.
ShellStep == running = "shell" /\ (PingWait \/ Poll("shell") \/ NestedWait("shell"))

NetStep ==
  running = "net" /\ (DhcpWait \/ IdleLoop \/ Yield \/ Poll("net") \/ NestedWait("net"))

--------------------------------------------------------------------------------
(* The timer and the network. *)

Dec(n) == IF n > 0 THEN n - 1 ELSE 0

\* timer_handler: one tick for every wait, and a switch at the end of a slice.
WaitTimer ==
  /\ Interrupts
  /\ task' = [t \in Waiters |-> [task[t] EXCEPT !.left = Dec(@), !.nleft = Dec(@)]]
  /\ slice' = (slice + 1) % SliceTicks
  /\ running' = IF slice' # 0 THEN running ELSE IF running = "shell" THEN "net" ELSE "shell"
  /\ UNCHANGED <<netif, net_poll_active, rx, wire, got, dhcp, env>>

Deliver ==
  /\ \E f \in wire : rx' = Append(rx, f) /\ wire' = wire \ {f}
  /\ UNCHANGED <<running, task, netif, net_poll_active, got, dhcp, slice, env>>

\* A DHCP server may be absent; pings are answered unless env.lossy.
Lose ==
  /\ \E f \in wire : (f \in {"offer", "ack"} \/ env.lossy) /\ wire' = wire \ {f}
  /\ UNCHANGED <<running, task, netif, net_poll_active, rx, got, dhcp, slice, env>>

\* A remote shell `ping' arrives once the service is on.
RemoteRequest ==
  /\ env.remote /\ ~ env.asked /\ task["net"].loop = "idle"
  /\ env' = [env EXCEPT !.asked = TRUE]
  /\ rx' = Append(rx, "rping")
  /\ UNCHANGED <<running, task, netif, net_poll_active, wire, got, dhcp, slice>>

WaitNext == StartPing \/ ShellStep \/ NetStep \/ WaitTimer \/ Deliver \/ Lose \/ RemoteRequest

WaitSpec == WaitInit /\ [][WaitNext]_nwvars

\* Code runs (a time slice is long enough for a step); the timer, whose interrupt
\* stays pending in the PIC, is delivered when interrupts come on; the network moves what is on the wire.
WaitFairness ==
  /\ WF_nwvars(ShellStep)
  /\ SF_nwvars(NetStep)
  /\ SF_nwvars(WaitTimer)
  /\ WF_nwvars(Deliver \/ Lose)

FairWaitSpec == WaitSpec /\ WaitFairness

--------------------------------------------------------------------------------
(* Properties. *)

\* "This flag makes a reentrant call a no-op instead of corrupting the ring"
\* (net.c:1900): at most one task is between the two assignments to
\* net_poll_active, whatever preempts whatever (also between the test of the flag
\* and its setting), and the flag says so.
PollExclusive ==
  LET inside == { t \in Waiters : task[t].in \in {"poll", "nest"} } IN
  /\ Cardinality(inside) <= 1
  /\ net_poll_active <=> inside # {}

\* net_ping "Returns RTT in milliseconds on success, 0 on timeout, <0 on error"
\* (net.c:1370): it returns, to the shell and to the remote shell's handler.
PingReturns ==
  /\ task["shell"].loop # "user" ~> task["shell"].loop = "user"
  /\ \A t \in Waiters : task[t].in = "nest" ~> task[t].in # "nest"

\* The shell's ping returns if its requests are answered, no remote ping arrives,
\* and the network task has yielded before: whichever of the two tasks takes the
\* answer from the ring, and whatever DHCP did before (net.c:1893).
PingAnswered ==
  task["shell"].loop # "user" /\ ~ env.early /\ ~ env.lossy /\ ~ env.remote
    ~> task["shell"].loop = "user"

\* The DHCP exchange of the network task ends, with or without a server, and the
\* task reaches the loop that serves the network (net.c:2648), unless a system call
\* of the shell gets in its way.
DhcpEnds == ~ env.early ~> task["net"].loop = "idle"
================================================================================
