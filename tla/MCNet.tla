--------------------------------- MODULE MCNet ---------------------------------
(* The network stack above the link, and the wired card under it, one part at  *)
(* a time: part says which of NetConfig, TcpHttp, NetQuery and NicRing moves.   *)
EXTENDS MCNetConfig, TcpHttp, NetQuery, NicRing

VARIABLE part

allvars == <<part, ncvars, tcpvars, qryvars, ringvars>>

MCAddressOf == "n1" :> "a" @@ "n2" :> "b"

StackInit ==
  /\ part \in {"config", "http", "query", "card"}
  /\ NetInit /\ TcpInit /\ QryInit /\ RingInit
  /\ part # "config" => net = Absent
  /\ part # "card" => card = "e1000"

StackNext ==
  /\ UNCHANGED part
  /\ \/ part = "config" /\ NetNext  /\ UNCHANGED <<tcpvars, qryvars, ringvars>>
     \/ part = "http"   /\ TcpNext  /\ UNCHANGED <<ncvars, qryvars, ringvars>>
     \/ part = "query"  /\ QryNext  /\ UNCHANGED <<ncvars, tcpvars, ringvars>>
     \/ part = "card"   /\ RingNext /\ UNCHANGED <<ncvars, tcpvars, qryvars>>

StackSpec == StackInit /\ [][StackNext]_allvars
================================================================================
