--------------------------------- MODULE IwlLink ---------------------------------
(* Joining a network with the Intel 9560 driver (kernel/iwlwifi.c):            *)
(* iwlwifi_connect_wpa2 and iwlwifi_associate_open on the caller's side,       *)
(* iwlwifi_poll with the handlers it calls on the card's, and the four-way     *)
(* handshake between them.  A frame is handled inside iwlwifi_poll or inside   *)
(* the wait of a host command; of the EAPOL frames one iwlwifi_poll meets, the *)
(* last is kept in pending_eapol and handled when the poll ends.  The access   *)
(* point is external: it repeats message 1 until it has message 2 and message  *)
(* 3 until it has message 4, takes its time before it repeats message 3 (the   *)
(* three key commands are over by then), and may end the association.  The air *)
(* loses frames.                                                               *)
EXTENDS Integers, Sequences, SequencesExt

CONSTANTS Passphrases,   \* what the user types; ApPassphrase is the network's
          ApPassphrase,
          TooShort,      \* passphrases wpa2_derive_pmk refuses
          MaxConnects,   \* calls of iwlwifi_connect_wpa2
          MaxRepeats,    \* message 1 and 3 repeats of one association
          MaxDeauths,    \* associations the access point ends
          MaxLost,       \* frames the air loses
          MayFail        \* whether host commands fail and waits expire

VARIABLES call,          \* where the caller is, and where a key command returns to
          link,          \* the fields of state the association is about
          wpa2,          \* [pmk, ptk, anonce, replay]: the statics of the handshake
          pairwise_key,  \* the key in the card's key table
          rx,            \* frames the card received and the driver has not read
          air,           \* frames on their way to the access point
          ap,            \* the access point
          tally          \* [connects, deauths, lost]

linkvars == <<call, link, wpa2, pairwise_key, rx, air, ap, tally>>

Zero == <<>>                       \* a key after memset
NoFrame == [k |-> "none"]
Mgmt(k) == [k |-> k]
Message(n, anonce, replay, key) == [k |-> "eapol", n |-> n, anonce |-> anonce, replay |-> replay, key |-> key]
\* wpa2_derive_pmk, the nonce drawn from it, and wpa2_derive_ptk, by what they depend on.
Ptk(pmk, anonce, snonce) == <<pmk, anonce, snonce>>
Snonce(pmk, anonce, replay) == <<pmk, anonce, replay>>

LinkInit ==
  /\ call = [at |-> "idle", ret |-> "idle", psk |-> FALSE]
  /\ link = [associated |-> FALSE, security |-> FALSE, authentication |-> FALSE, association |-> FALSE,
             stage |-> 0, group |-> FALSE, active |-> FALSE]
  /\ wpa2 = [pmk |-> Zero, ptk |-> Zero, anonce |-> 0, replay |-> 0]
  /\ pairwise_key = Zero
  /\ rx = <<>> /\ air = {}
  /\ ap = [at |-> "idle", anonce |-> 0, replay |-> 0, first |-> 0, key |-> Zero, repeats |-> 0]
  /\ tally = [connects |-> 0, deauths |-> 0, lost |-> 0]

Go(at) == call' = [call EXCEPT !.at = at, !.ret = at]

\* The loops of the calls poll until they have what they wait for; net_poll
\* polls between calls.
Polls == \/ call.at = "idle"
         \/ call.at = "auth" /\ ~link.authentication
         \/ call.at = "assoc" /\ ~link.association
         \/ call.at = "handshake" /\ link.stage < 4

\* iwlwifi_connect_wpa2 up to the first host command of iwlwifi_prepare_association.
iwlwifi_connect_wpa2(p) ==
  /\ call.at = "idle" /\ tally.connects < MaxConnects
  /\ tally' = [tally EXCEPT !.connects = @ + 1]
  /\ wpa2' = [wpa2 EXCEPT !.pmk = IF p \in TooShort THEN Zero ELSE <<p>>, !.ptk = Zero]
  /\ link' = [link EXCEPT !.stage = 0, !.group = FALSE, !.active = @ \/ p \notin TooShort]
  /\ call' = IF p \in TooShort THEN call ELSE [at |-> "prepare", ret |-> "prepare", psk |-> TRUE]
  /\ UNCHANGED <<pairwise_key, rx, air, ap>>

\* net_wifi_associate calls iwlwifi_associate_open alone.
iwlwifi_associate_open ==
  /\ call.at = "idle" /\ tally.connects < MaxConnects
  /\ tally' = [tally EXCEPT !.connects = @ + 1]
  /\ call' = [at |-> "prepare", ret |-> "prepare", psk |-> FALSE]
  /\ UNCHANGED <<link, wpa2, pairwise_key, rx, air, ap>>

\* A wait that ends without what it waits for, or a command that fails, ends the
\* call; only the failure of iwlwifi_associate_open stops the handshake.
call_fails ==
  /\ MayFail
  /\ call.at \in {"prepare", "finalize"} \/ (Polls /\ call.at # "idle")
  /\ Go("idle")
  /\ link' = [link EXCEPT !.active = @ /\ (call.at = "handshake" \/ ~call.psk)]
  /\ UNCHANGED <<wpa2, pairwise_key, rx, air, ap, tally>>

Sent(f) == air' = air \cup {f}

\* iwlwifi_associate_open: the contexts are ready and the authentication goes out ...
send_authentication ==
  /\ call.at = "prepare" /\ Go("auth")
  /\ link' = [link EXCEPT !.associated = FALSE, !.security = FALSE, !.authentication = FALSE, !.association = FALSE]
  /\ Sent(Mgmt("auth"))
  /\ UNCHANGED <<wpa2, pairwise_key, rx, ap, tally>>

\* ... it was answered and the association request goes out ...
send_association ==
  /\ call.at = "auth" /\ link.authentication /\ Go("assoc")
  /\ Sent(Mgmt("assoc"))
  /\ UNCHANGED <<link, wpa2, pairwise_key, rx, ap, tally>>

\* ... that was answered too, and finalize_firmware_association starts ...
begin_finalize ==
  /\ call.at = "assoc" /\ link.association /\ Go("finalize")
  /\ UNCHANGED <<link, wpa2, pairwise_key, rx, air, ap, tally>>

\* ... whose commands succeed.
finalize_firmware_association ==
  /\ call.at = "finalize" /\ Go(IF call.psk THEN "handshake" ELSE "idle")
  /\ link' = [link EXCEPT !.associated = TRUE, !.security = FALSE]
  /\ UNCHANGED <<wpa2, pairwise_key, rx, air, ap, tally>>

connect_returns ==
  /\ call.at = "handshake" /\ link.stage = 4 /\ Go("idle")
  /\ UNCHANGED <<link, wpa2, pairwise_key, rx, air, ap, tally>>

\* Message 1 in handle_wpa2_eapol: derive the key, send message 2; without an
\* association the send fails and the stage stays 0.
FirstMessage(l, m) == l.active /\ m.n = 1 /\ l.stage = 0
handle_first(l, m) ==
  LET s == Snonce(wpa2.pmk, m.anonce, m.replay)
      k == Ptk(wpa2.pmk, m.anonce, s)
  IN /\ wpa2' = [wpa2 EXCEPT !.ptk = k, !.anonce = m.anonce, !.replay = m.replay]
     /\ IF l.associated
        THEN /\ link' = [l EXCEPT !.stage = 2]
             /\ Sent([k |-> "m2", snonce |-> s, replay |-> m.replay, key |-> k])
        ELSE link' = l /\ UNCHANGED air
     /\ UNCHANGED call

\* Mutant: neither the nonce nor the MIC of message 3 is compared.
ThirdMessageUnchecked(l, m) == l.active /\ m.n = 3 /\ l.stage = 2 /\ m.replay >= wpa2.replay

\* Message 3: not older than message 1, of the same nonce, its MIC right.
ThirdMessage(l, m) == /\ l.active /\ m.n = 3 /\ l.stage = 2
                      /\ m.replay >= wpa2.replay /\ m.anonce = wpa2.anonce /\ m.key = wpa2.ptk

\* handle_wpa2_eapol outside a poll: message 3 starts install_pairwise_ccmp_key.
handle_wpa2_eapol(l, m) ==
  \/ FirstMessage(l, m) /\ handle_first(l, m)
  \/ /\ ThirdMessage(l, m)
     /\ wpa2' = [wpa2 EXCEPT !.replay = m.replay]
     /\ call' = [call EXCEPT !.at = "pairwise"]
     /\ link' = l /\ UNCHANGED air
  \/ /\ ~FirstMessage(l, m) /\ ~ThirdMessage(l, m)
     /\ link' = l /\ UNCHANGED <<wpa2, air, call>>

\* handle_scan_mpdu on a management frame.
Managed(l, f) ==
  CASE f.k = "deauth" -> [l EXCEPT !.associated = FALSE, !.security = FALSE, !.active = FALSE]
    [] f.k = "auth_ok" -> [l EXCEPT !.authentication = TRUE]
    [] f.k = "assoc_ok" -> [l EXCEPT !.association = TRUE]
    [] OTHER -> l

\* iwlwifi_poll over the first n frames: handle_scan_mpdu on each, pending_eapol
\* taken up at the end.
Polled(fs) ==
  FoldLeft(LAMBDA acc, f : [link |-> Managed(acc.link, f),
                            pending |-> IF f.k = "eapol" /\ acc.link.active THEN f ELSE acc.pending],
           [link |-> link, pending |-> NoFrame], fs)
iwlwifi_poll(n) ==
  LET p == Polled(SubSeq(rx, 1, n)) IN
  /\ Polls
  /\ rx' = SubSeq(rx, n + 1, Len(rx))
  /\ IF p.pending = NoFrame THEN link' = p.link /\ UNCHANGED <<wpa2, air, call>>
                            ELSE handle_wpa2_eapol(p.link, p.pending)
  /\ UNCHANGED <<pairwise_key, ap, tally>>

\* A frame inspect_command_response meets while a command waits: EAPOL is
\* handled on the spot.
CommandWaits == call.at \in {"prepare", "finalize", "pairwise", "group", "receive"}
command_frame ==
  /\ CommandWaits /\ rx # <<>>
  /\ rx' = Tail(rx)
  /\ IF Head(rx).k = "eapol" THEN handle_wpa2_eapol(link, Head(rx))
     ELSE link' = Managed(link, Head(rx)) /\ UNCHANGED <<wpa2, air, call>>
  /\ UNCHANGED <<pairwise_key, ap, tally>>

\* install_pairwise_ccmp_key, install_group_ccmp_key, enable_wpa2_group_receive:
\* each command succeeds and the next follows, or message 3 is dropped.
install_pairwise_ccmp_key ==
  /\ call.at = "pairwise"
  /\ pairwise_key' = wpa2.ptk /\ call' = [call EXCEPT !.at = "group"]
  /\ UNCHANGED <<link, wpa2, rx, air, ap, tally>>
install_group_ccmp_key ==
  /\ call.at = "group"
  /\ link' = [link EXCEPT !.group = TRUE] /\ call' = [call EXCEPT !.at = "receive"]
  /\ UNCHANGED <<wpa2, pairwise_key, rx, air, ap, tally>>
\* enable_wpa2_group_receive, then message 4 and the secured link.
send_wpa2_message4 ==
  /\ call.at = "receive" /\ call' = [call EXCEPT !.at = call.ret]
  /\ IF link.associated THEN /\ Sent([k |-> "m4", replay |-> wpa2.replay, key |-> wpa2.ptk])
                             /\ link' = [link EXCEPT !.stage = 4, !.security = TRUE, !.active = FALSE]
     ELSE UNCHANGED <<air, link>>
  /\ UNCHANGED <<wpa2, pairwise_key, rx, ap, tally>>
key_command_fails ==
  /\ MayFail /\ call.at \in {"pairwise", "group", "receive"}
  /\ call' = [call EXCEPT !.at = call.ret]
  /\ UNCHANGED <<link, wpa2, pairwise_key, rx, air, ap, tally>>

\* The access point and the air (external) ------------------------------------
Heard(f) == f \in air /\ air' = air \ {f}
Quiet == UNCHANGED <<call, link, wpa2, pairwise_key>>
Say(f) == rx' = Append(rx, f)

ap_authenticates == /\ Heard(Mgmt("auth")) /\ Say(Mgmt("auth_ok"))
                    /\ ap' = [ap EXCEPT !.at = "auth", !.key = Zero] /\ Quiet /\ UNCHANGED tally
ap_associates ==
  /\ Heard(Mgmt("assoc"))
  /\ IF ap.at = "auth"
     THEN /\ ap' = [ap EXCEPT !.at = "m1", !.anonce = @ + 1, !.replay = @ + 1, !.first = ap.replay + 1, !.repeats = 0]
          /\ rx' = rx \o <<Mgmt("assoc_ok"), Message(1, ap.anonce + 1, ap.replay + 1, Zero)>>
     ELSE UNCHANGED <<ap, rx>>
  /\ Quiet /\ UNCHANGED tally
ap_repeats ==
  /\ ap.at \in {"m1", "m3"} /\ ap.repeats < MaxRepeats /\ rx = <<>>
  /\ ap.at = "m3" => call.at \notin {"pairwise", "group", "receive"}
  /\ ap' = [ap EXCEPT !.replay = @ + 1, !.repeats = @ + 1]
  /\ Say(Message(IF ap.at = "m1" THEN 1 ELSE 3, ap.anonce, ap.replay + 1, ap.key))
  /\ Quiet /\ UNCHANGED <<air, tally>>
\* Message 2 is of one of this association's messages 1 and its MIC verifies.
ap_second == \E f \in air :
  /\ f.k = "m2" /\ Heard(f)
  /\ IF ap.at = "m1" /\ f.replay \in ap.first .. ap.replay
        /\ f.key = Ptk(<<ApPassphrase>>, ap.anonce, f.snonce)
     THEN /\ ap' = [ap EXCEPT !.at = "m3", !.key = f.key, !.replay = @ + 1, !.repeats = 0]
          /\ Say(Message(3, ap.anonce, ap.replay + 1, f.key))
     ELSE UNCHANGED <<ap, rx>>
  /\ Quiet /\ UNCHANGED tally
ap_fourth == \E f \in air :
  /\ f.k = "m4" /\ Heard(f)
  /\ ap' = IF ap.at = "m3" /\ f.key = ap.key THEN [ap EXCEPT !.at = "up"] ELSE ap
  /\ Quiet /\ UNCHANGED <<rx, tally>>
ap_deauth ==
  /\ ap.at \in {"m1", "m3", "up"} /\ tally.deauths < MaxDeauths
  /\ tally' = [tally EXCEPT !.deauths = @ + 1]
  /\ ap' = [ap EXCEPT !.at = "idle", !.key = Zero]
  /\ Say(Mgmt("deauth")) /\ Quiet /\ UNCHANGED air
lose ==
  /\ tally.lost < MaxLost /\ tally' = [tally EXCEPT !.lost = @ + 1]
  /\ \/ rx # <<>> /\ rx' = Tail(rx) /\ UNCHANGED air
     \/ \E f \in air : Heard(f) /\ UNCHANGED rx
  /\ Quiet /\ UNCHANGED ap

Driver == \/ call_fails \/ send_authentication \/ send_association \/ begin_finalize
          \/ finalize_firmware_association \/ connect_returns \/ (\E n \in DOMAIN rx : iwlwifi_poll(n))
          \/ command_frame \/ install_pairwise_ccmp_key \/ install_group_ccmp_key
          \/ send_wpa2_message4 \/ key_command_fails
AccessPoint == ap_authenticates \/ ap_associates \/ ap_repeats \/ ap_second \/ ap_fourth

LinkNext == \/ \E p \in Passphrases : iwlwifi_connect_wpa2(p)
            \/ iwlwifi_associate_open \/ Driver \/ AccessPoint \/ ap_deauth \/ lose

LinkSpec == LinkInit /\ [][LinkNext]_linkvars

\* When the handshake ends, the card holds the key the data frames are sent
\* with, it is the key of the access point's current association, and the group
\* key is installed: no repeat, stale message 3 or half-failed attempt leaves
\* another key behind (handle_wpa2_eapol).
HandshakeAgrees ==
  [][link.stage # 4 /\ link'.stage = 4 =>
       /\ pairwise_key' = wpa2'.ptk /\ link'.group /\ link'.associated
       /\ ap.at \in {"m3", "up"} => ap.key = wpa2'.ptk]_linkvars

=============================================================================
