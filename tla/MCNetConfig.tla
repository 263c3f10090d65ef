------------------------------ MODULE MCNetConfig ------------------------------
(* Real keys, values and lengths; two static configurations, two leases.    *)
EXTENDS NetConfig, TLC

MCWidth ==
  ("mode" :> 4 @@ "ip" :> 2 @@ "netmask" :> 7 @@ "gateway" :> 7 @@ "dns" :> 3
   @@ "hostname" :> 8 @@ "llm_net" :> 7 @@ "llm_port" :> 8
   @@ "dhcp" :> 4 @@ "static" :> 6 @@ "on" :> 2 @@ "off" :> 3
   @@ "10.0.2.15" :> 9 @@ "192.168.100.200" :> 15 @@ "255.255.255.0" :> 13
   @@ "10.0.2.2" :> 8 @@ "192.168.100.1" :> 13 @@ "10.0.2.3" :> 8 @@ "0.0.0.0" :> 7
   @@ "microk" :> 6 @@ "1234" :> 4 @@ "80" :> 2)

Mask == "255.255.255.0"

MCStatics == { [ip |-> "10.0.2.15", netmask |-> Mask, gateway |-> "10.0.2.2"],
               [ip |-> "192.168.100.200", netmask |-> Mask, gateway |-> "192.168.100.1"] }

MCLeases == { [ip |-> "10.0.2.15", netmask |-> Mask, gateway |-> "10.0.2.2", dns |-> d] :
                d \in {"10.0.2.3", None} }

\* Port 0 is refused.
MCLlmPorts == {"1234", "80", "0"}
MCRshPorts == {"2323", "2424", "0"}

Absent == [present |-> FALSE, text |-> <<>>]

\* The file the Makefile puts in the image.
Shipped ==
  [present |-> TRUE,
   text |-> << Line("mode", "static"), Line("ip", "10.0.2.15"), Line("netmask", Mask),
               Line("gateway", "10.0.2.2"), Line("dns", "10.0.2.3"),
               Line("hostname", "microk"), Line("llm_net", "on"), Line("llm_port", "1234") >>]

\* The DHCP example of the README.
DhcpExample ==
  [present |-> TRUE, text |-> << Line("mode", "dhcp"), Line("hostname", "microk") >>]

OnlyAbsent == {Absent}
OnlyShipped == {Shipped}
OnlyExample == {DhcpExample}
StaticOrAbsent == {Absent, Shipped}
================================================================================
