------------------------------- MODULE NetConfig -------------------------------
(***************************************************************************)
(* Network configuration (kernel/net.c): what net.cfg says, what the shell *)
(* changes, what net_save_config writes back and what the next boot makes  *)
(* of it; the DHCP exchange of the network task, which runs while the      *)
(* shell makes system calls; and the two UDP services.                     *)
(*                                                                         *)
(* A file is a sequence of lines.  A line is [key, val, from]: its text    *)
(* without the first `from' bytes.  fat32_write_file overwrites the first  *)
(* bytes of a file and never shortens it, so what a save leaves behind is  *)
(* the new lines followed by the end of the old ones.                      *)
(***************************************************************************)
EXTENDS UdpBindings, Sequences, SequencesExt

CONSTANTS
  UDP_BINDINGS_MAX,
  Width,          \* how many bytes a value takes in net.cfg
  Statics,        \* the [ip, netmask, gateway] given to `net config static'
  Leases,         \* the [ip, netmask, gateway, dns] a DHCP server may give
  LlmPorts, RshPorts,
  MicrokFiles,    \* what /microk/net.cfg may be: [present, text]
  NetFiles,       \* what /net.cfg may be on the first boot
  MaxSaves        \* bound on the saves

ASSUME NetAssumption ==
  /\ UDP_BINDINGS_MAX \in Nat
  /\ MaxSaves \in Nat

None == "0.0.0.0"
DhcpPort == "68"

VARIABLES
  phase,       \* "boot", "loaded", "dhcp" (in the exchange), "up"
  cfg,         \* net_config
  llm, rsh,    \* [on, port] of the two services
  udp,         \* udp_bindings
  microk, net, \* the two files
  saved,       \* history: what the last net_save_config was to keep
  loaded       \* history: the mode right after the last load

ncvars == <<phase, cfg, llm, rsh, udp, microk, net, saved, loaded>>

--------------------------------------------------------------------------------
(* Lines and files. *)

Line(key, val) == [key |-> key, val |-> val, from |-> 0]

\* key, '=', value, newline.
Bytes(l) == Width[l.key] + 1 + Width[l.val] + 1 - l.from

TotalBytes(text) == FoldSeq(LAMBDA l, n : Bytes(l) + n, 0, text)

\* The text without its first n bytes.
DropBytes(text, n) ==
  LET f[i \in 0 .. Len(text)] ==    \* what is left of the first i lines
        IF i = 0 THEN [rest |-> <<>>, skip |-> n]
        ELSE LET s == f[i - 1] l == text[i] IN
             IF s.skip >= Bytes(l) THEN [s EXCEPT !.skip = @ - Bytes(l)]
             ELSE [rest |-> Append(s.rest, [l EXCEPT !.from = @ + s.skip]), skip |-> 0]
  IN  f[Len(text)].rest

\* fat32_write_file from offset 0: the size of the entry only grows.
Overwrite(old, new) == new \o DropBytes(old, TotalBytes(new))

--------------------------------------------------------------------------------
(* Services. *)

NoBindings == [i \in 1 .. UDP_BINDINGS_MAX |-> NoBinding]

\* net_llm_service_set_enabled and net_rsh_set_enabled, on the pair of the
\* service s = [on, port] and the table t.
SetEnabled(s, t, handler, on) ==
  [s |-> [s EXCEPT !.on = on],
   t |-> IF on THEN net_udp_bind(t, s.port, handler) ELSE net_udp_unbind(t, s.port)]

\* The old port stays bound.
SetPortKeepsOld(s, t, handler, port) ==
  [s |-> [s EXCEPT !.port = port],
   t |-> IF s.on THEN net_udp_bind(t, port, handler) ELSE t]

\* net_llm_service_set_port and net_rsh_set_port.
SetPort(s, t, handler, port) ==
  IF port = "0" THEN [s |-> s, t |-> t]
  ELSE [s |-> [s EXCEPT !.port = port],
        t |-> IF s.on THEN net_udp_bind(net_udp_unbind(t, s.port), port, handler) ELSE t]

--------------------------------------------------------------------------------
(* Loading. *)

\* net_init.
Defaults == [mode |-> "dhcp", has_config |-> FALSE, ip |-> None, netmask |-> "255.255.255.0",
             gateway |-> None, dns |-> None, hostname |-> "microk"]

\* One line of net_load_config_text.  A line that lost its beginning has no key.
Apply(l, s) ==
  IF l.from # 0 THEN s
  ELSE CASE l.key = "mode" /\ l.val = "dhcp" ->
              [s EXCEPT !.cfg.mode = "dhcp", !.cfg.has_config = FALSE]
         [] l.key = "mode" /\ l.val = "static" -> [s EXCEPT !.static_seen = TRUE]
         [] l.key \in {"ip", "netmask", "gateway", "dns"} -> [s EXCEPT !.seen[l.key] = l.val]
         [] l.key = "hostname" ->
              [s EXCEPT !.cfg.hostname = l.val, !.cfg.has_config = TRUE]
         [] l.key = "llm_net" ->
              LET r == SetEnabled(s.llm, s.udp, "llm", l.val = "on")
              IN  [s EXCEPT !.llm = r.s, !.udp = r.t]
         [] l.key = "llm_port" ->
              LET r == SetPort(s.llm, s.udp, "llm", l.val)
              IN  [s EXCEPT !.llm = r.s, !.udp = r.t]
         [] OTHER -> s

\* What follows the loop: the static part when anything of it was seen, all of it
\* or nothing; then the DNS server.
Finish(s) ==
  LET asked == s.static_seen \/ \E k \in {"ip", "netmask", "gateway"} : s.seen[k] # "unset"
      whole == \A k \in {"ip", "netmask", "gateway"} : s.seen[k] # "unset"
      c1 == IF asked /\ whole
            THEN [s.cfg EXCEPT !.ip = s.seen["ip"], !.netmask = s.seen["netmask"],
                               !.gateway = s.seen["gateway"], !.mode = "static",
                               !.has_config = TRUE]
            ELSE s.cfg
      c2 == IF s.seen["dns"] # "unset" /\ (asked => whole)
            THEN [c1 EXCEPT !.dns = s.seen["dns"], !.has_config = TRUE]
            ELSE c1
  IN  [s EXCEPT !.cfg = c2]

net_load_config_text(text, s) == Finish(FoldLeft(LAMBDA acc, l : Apply(l, acc), s, text))

Fresh ==
  [cfg |-> Defaults, llm |-> [on |-> FALSE, port |-> "1234"], udp |-> NoBindings,
   static_seen |-> FALSE,
   seen |-> [k \in {"ip", "netmask", "gateway", "dns"} |-> "unset"]]

NoSave == [count |-> 0, cfg |-> Defaults, llm |-> [on |-> FALSE, port |-> "1234"]]

RshDefaults == [on |-> FALSE, port |-> "2323"]

NetInit ==
  /\ phase = "boot"
  /\ cfg = Defaults
  /\ llm = Fresh.llm
  /\ rsh = RshDefaults
  /\ udp = NoBindings
  /\ microk \in MicrokFiles
  /\ net \in NetFiles
  /\ saved = NoSave
  /\ loaded = "dhcp"

\* net_init and load_net_config_from_storage: the first file that exists.
Load ==
  /\ phase = "boot"
  /\ phase' = "loaded"
  /\ LET s == IF microk.present THEN net_load_config_text(microk.text, Fresh)
              ELSE IF net.present THEN net_load_config_text(net.text, Fresh)
              ELSE Fresh
     IN  /\ cfg' = s.cfg
         /\ llm' = s.llm
         /\ udp' = s.udp
         /\ loaded' = s.cfg.mode
  /\ UNCHANGED <<rsh, microk, net, saved>>

--------------------------------------------------------------------------------
(* The network task. *)

\* The lease replaces addresses and mode.
Leased(c, lease) ==
  [c EXCEPT !.ip = lease.ip, !.netmask = lease.netmask, !.gateway = lease.gateway,
            !.dns = lease.dns, !.mode = "dhcp", !.has_config = TRUE]

\* net_rsh_set_enabled(1), then net_llm_service_set_enabled(1), from table t.
EnableBoth(t) ==
  LET r == SetEnabled(rsh, t, "rsh", TRUE)
      l == SetEnabled(llm, r.t, "llm", TRUE)
  IN  rsh' = r.s /\ llm' = l.s /\ udp' = l.t

\* net_poll_task_autoconfig up to the exchange, or all of it when there is none.
Autoconfig ==
  /\ phase = "loaded"
  /\ IF cfg.mode = "dhcp" /\ ~ cfg.has_config
     THEN /\ phase' = "dhcp"
          /\ udp' = net_udp_bind(udp, DhcpPort, "dhcp")
          /\ UNCHANGED <<llm, rsh>>
     ELSE phase' = "up" /\ EnableBoth(udp)
  /\ UNCHANGED <<cfg, microk, net, saved, loaded>>

\* The end of the exchange: a lease or three timeouts.
DhcpDone ==
  /\ phase = "dhcp"
  /\ phase' = "up"
  /\ \/ UNCHANGED cfg
     \/ \E lease \in Leases : cfg' = Leased(cfg, lease)
  /\ EnableBoth(net_udp_unbind(udp, DhcpPort))
  /\ UNCHANGED <<microk, net, saved, loaded>>

--------------------------------------------------------------------------------
(* System calls of the shell. *)

Running == phase # "boot"

net_config_static(st) ==
  /\ Running
  /\ cfg' = [cfg EXCEPT !.ip = st.ip, !.netmask = st.netmask, !.gateway = st.gateway,
                        !.mode = "static", !.has_config = TRUE]
  /\ UNCHANGED <<phase, llm, rsh, udp, microk, net, saved, loaded>>

\* The whole exchange inside the system call.
net_config_dhcp ==
  /\ Running
  /\ udp' = net_udp_unbind(net_udp_bind(udp, DhcpPort, "dhcp"), DhcpPort)
  /\ \/ UNCHANGED cfg
     \/ \E lease \in Leases : cfg' = Leased(cfg, lease)
  /\ UNCHANGED <<phase, llm, rsh, microk, net, saved, loaded>>

LlmService ==
  /\ Running
  /\ \E r \in { SetEnabled(llm, udp, "llm", on) : on \in BOOLEAN }
             \cup { SetPort(llm, udp, "llm", port) : port \in LlmPorts } :
       llm' = r.s /\ udp' = r.t
  /\ UNCHANGED <<phase, cfg, rsh, microk, net, saved, loaded>>

RshService ==
  /\ Running
  /\ \E r \in { SetEnabled(rsh, udp, "rsh", on) : on \in BOOLEAN }
             \cup { SetPort(rsh, udp, "rsh", port) : port \in RshPorts } :
       rsh' = r.s /\ udp' = r.t
  /\ UNCHANGED <<phase, cfg, llm, microk, net, saved, loaded>>

\* A save that leaves out the gateway.
TextNoGateway ==
  << Line("mode", cfg.mode) >>
  \o (IF cfg.mode = "static"
      THEN << Line("ip", cfg.ip), Line("netmask", cfg.netmask) >> ELSE <<>>)
  \o << Line("llm_net", IF llm.on THEN "on" ELSE "off"), Line("llm_port", llm.port) >>

\* The text net_save_config builds.
ConfigText ==
  << Line("mode", cfg.mode) >>
  \o (IF cfg.mode = "static"
      THEN << Line("ip", cfg.ip), Line("netmask", cfg.netmask), Line("gateway", cfg.gateway) >>
      ELSE <<>>)
  \o (IF cfg.dns # None THEN << Line("dns", cfg.dns) >> ELSE <<>>)
  \o << Line("hostname", cfg.hostname),
        Line("llm_net", IF llm.on THEN "on" ELSE "off"), Line("llm_port", llm.port) >>

\* net_save_config writes /net.cfg, creating it when it does not exist.
net_save_config ==
  /\ Running
  /\ saved.count < MaxSaves
  /\ net' = [present |-> TRUE,
             text |-> IF net.present THEN Overwrite(net.text, ConfigText) ELSE ConfigText]
  /\ saved' = [count |-> saved.count + 1, cfg |-> cfg, llm |-> llm]
  /\ UNCHANGED <<phase, cfg, llm, rsh, udp, microk, loaded>>

Reboot ==
  /\ Running
  /\ phase' = "boot"
  /\ cfg' = Defaults
  /\ llm' = Fresh.llm
  /\ rsh' = RshDefaults
  /\ udp' = NoBindings
  /\ UNCHANGED <<microk, net, saved, loaded>>

NetNext ==
  \/ Load \/ Autoconfig \/ DhcpDone
  \/ \E st \in Statics : net_config_static(st)
  \/ net_config_dhcp \/ LlmService \/ RshService
  \/ net_save_config
  \/ Reboot

NetSpec == NetInit /\ [][NetNext]_ncvars

--------------------------------------------------------------------------------
(* Properties. *)

Addresses(c) == <<c.ip, c.netmask, c.gateway>>

\* A service that is on is reached through its port, and only the services that
\* are on, and a DHCP exchange that runs, take table slots: no enable, disable,
\* change of port or lease, in any order, leaks or steals a binding.
ServicesBound ==
  /\ llm.on => Reaches(udp, llm.port, "llm")
  /\ rsh.on => Reaches(udp, rsh.port, "rsh")
  /\ Cardinality({ i \in DOMAIN udp : udp[i].active })
       <= Cardinality({ x \in {"llm", "rsh", "dhcp"} :
                          \/ x = "llm" /\ llm.on
                          \/ x = "rsh" /\ rsh.on
                          \/ x = "dhcp" /\ phase = "dhcp" })

\* "so a boot-time `net config static ...`/`net config dhcp` survives reboot"
\* (net.c:3229), for a static configuration: the next boot loads it.  And the
\* network task then leaves it alone: it "must not be overwritten by DHCP"
\* (net.c:3284).
StaticSurvives ==
  [][ /\ Load /\ saved.count > 0 /\ saved.cfg.mode = "static" =>
           /\ cfg'.mode = "static"
           /\ cfg'.has_config
           /\ Addresses(cfg') = Addresses(saved.cfg)
      /\ loaded = "static" /\ (Autoconfig \/ DhcpDone) => cfg' = cfg ]_ncvars

\* A configuration file that asks for DHCP makes the network task ask for a lease:
\* the example "mode=dhcp / hostname=microk" of README.md:301.  It does not hold: the host
\* name alone marks the configuration complete.
DhcpRequested ==
  [][ Load /\ ~ microk.present /\ net.present /\ Line("mode", "dhcp") \in Range(net.text) =>
        cfg'.mode = "dhcp" /\ ~ cfg'.has_config ]_ncvars

\* `net config save' keeps "modo/ip/netmask/gateway/dns/hostname/llm_net/llm_port"
\* (ROADMAP.md:419): the next boot has the saved port of the LLM service.
LlmPortSurvives ==
  [][ Load /\ saved.count > 0 => llm'.port = saved.llm.port ]_ncvars
================================================================================
