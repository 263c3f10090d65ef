---- MODULE MCWifi ----
(* The two halves of the 9560 driver for TLC: the transport under the probe,  *)
(* and the association above it.  They share no state, so that one behaviour  *)
(* runs one of them.                                                          *)
EXTENDS IwlTransport, IwlLink

VARIABLE part   \* "transport" or "link"

MCNvm == <<2, 0, 3>>   \* a full chunk, a missing section, one and a half chunks

WifiInit == part \in {"transport", "link"} /\ IwlInit /\ LinkInit
WifiNext == /\ UNCHANGED part
            /\ \/ part = "transport" /\ IwlNext /\ UNCHANGED linkvars
               \/ part = "link" /\ LinkNext /\ UNCHANGED iwlvars
WifiSpec == WifiInit /\ [][WifiNext]_<<part, iwlvars, linkvars>>
====
