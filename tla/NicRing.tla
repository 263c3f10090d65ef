-------------------------------- MODULE NicRing --------------------------------
(***************************************************************************)
(* The receive and transmit rings that the driver shares with the wired    *)
(* network card (kernel/net.c): the Intel e1000, which walks its receive   *)
(* ring up to the tail register, and the Realtek 8168, which walks it by   *)
(* the ownership bit of each descriptor; and the switch to the wireless    *)
(* route and back.                                                         *)
(*                                                                         *)
(* The card works between any two steps of the driver.  Frames are         *)
(* numbered as they come.  A receive descriptor holds the number of the    *)
(* frame the card put there, or 0; a transmit descriptor that of a frame   *)
(* the card has still to send, or 0 (DD set, OWN clear).                   *)
(***************************************************************************)
EXTENDS Integers, Sequences

CONSTANTS
  RX_DESC_COUNT, TX_DESC_COUNT,
  Cards,        \* the cards that may be present: "e1000", "rtl"
  Damaged,      \* numbers of the frames received with an error or no length
  MaxFrames     \* bound on the frames in either direction

ASSUME RingAssumption ==
  /\ RX_DESC_COUNT \in Nat /\ RX_DESC_COUNT > 1
  /\ TX_DESC_COUNT \in Nat \ {0} /\ MaxFrames \in Nat
  /\ Cards \subseteq {"e1000", "rtl"} /\ Damaged \subseteq 1..MaxFrames

VARIABLES
  card,
  rxd, rx_cur, RDT,      \* receive ring, driver's cursor, tail register
  rdh,                   \* the descriptor the card fills next (external)
  txd, tx_tail, TDT,     \* transmit ring, driver's tail, tail register
  tdh,                   \* the descriptor the card sends next (external)
  budget,                \* descriptors net_poll may still drain; 0 when not polling
  sending,               \* the e1000 descriptor a sender waits on, or -1
  wifi_route_active, wifi_up,
  arrived, handled,      \* frames the card took in; those given to net_handle_packet
  queued, wire, refused  \* frames accepted for sending, sent, and turned down

ringvars == <<card, rxd, rx_cur, RDT, rdh, txd, tx_tail, TDT, tdh, budget, sending,
              wifi_route_active, wifi_up, arrived, handled, queued, wire, refused>>
rxvars == <<rxd, rx_cur, RDT, rdh, budget, arrived, handled>>
txvars == <<txd, tx_tail, TDT, tdh, sending, queued, wire, refused>>
wifivars == <<wifi_route_active, wifi_up>>

RxSlots == 0..(RX_DESC_COUNT - 1)
TxSlots == 0..(TX_DESC_COUNT - 1)
NoWait == -1

\* e1000_init_rings and rtl_init_rings: every receive descriptor is the card's.
RingInit ==
  /\ card \in Cards
  /\ rxd = [i \in RxSlots |-> 0] /\ rx_cur = 0 /\ RDT = RX_DESC_COUNT - 1 /\ rdh = 0
  /\ txd = [i \in TxSlots |-> 0] /\ tx_tail = 0 /\ TDT = 0 /\ tdh = 0
  /\ budget = 0 /\ sending = NoWait
  /\ wifi_route_active = FALSE /\ wifi_up = FALSE
  /\ arrived = <<>> /\ handled = <<>> /\ queued = <<>> /\ wire = <<>> /\ refused = 0

(***************************************************************************)
(* The card (external).  With no descriptor to fill it drops the frame.    *)
(***************************************************************************)
HasRoom == IF card = "e1000" THEN rdh # RDT ELSE rxd[rdh] = 0

card_receives ==
  /\ HasRoom /\ Len(arrived) < MaxFrames
  /\ rxd' = [rxd EXCEPT ![rdh] = Len(arrived) + 1]
  /\ rdh' = (rdh + 1) % RX_DESC_COUNT
  /\ arrived' = Append(arrived, Len(arrived) + 1)
  /\ UNCHANGED <<card, rx_cur, RDT, budget, handled, txvars, wifivars>>

CanSend == IF card = "e1000" THEN tdh # TDT ELSE txd[tdh] # 0

card_sends ==
  /\ CanSend
  /\ wire' = Append(wire, txd[tdh])
  /\ txd' = [txd EXCEPT ![tdh] = 0]
  /\ tdh' = (tdh + 1) % TX_DESC_COUNT
  /\ UNCHANGED <<card, rxvars, tx_tail, TDT, sending, queued, refused, wifivars>>

(***************************************************************************)
(* net_poll: the wireless fallback, then up to a ringful of descriptors.   *)
(* Each is handled, handed back and passed.                                *)
(***************************************************************************)
net_poll ==
  /\ budget = 0 /\ sending = NoWait
  /\ budget' = RX_DESC_COUNT
  /\ \E wired_up \in BOOLEAN :
       wifi_route_active' = (wifi_route_active /\ (wifi_up \/ ~wired_up))
  /\ UNCHANGED <<card, rxd, rx_cur, RDT, rdh, arrived, handled, txvars, wifi_up>>

Done == rxd[rx_cur] = 0

Kept(f) == ~wifi_route_active /\ f \notin Damaged

\* Variant: the tail register is written after the cursor has moved on.
e1000_tail_late == RDT' = IF card = "e1000" THEN (rx_cur + 1) % RX_DESC_COUNT ELSE RDT

\* The tail register follows the freed descriptor, not the cursor.
e1000_tail == RDT' = IF card = "e1000" THEN rx_cur ELSE RDT

poll_descriptor ==
  /\ budget > 0 /\ sending = NoWait /\ ~Done
  /\ handled' = IF Kept(rxd[rx_cur]) THEN Append(handled, rxd[rx_cur]) ELSE handled
  /\ rxd' = [rxd EXCEPT ![rx_cur] = 0]
  /\ e1000_tail
  /\ rx_cur' = (rx_cur + 1) % RX_DESC_COUNT
  /\ budget' = budget - 1
  /\ UNCHANGED <<card, rdh, arrived, txvars, wifivars>>

poll_returns ==
  /\ budget > 0 /\ sending = NoWait /\ Done
  /\ budget' = 0
  /\ UNCHANGED <<card, rxd, rx_cur, RDT, rdh, arrived, handled, txvars, wifivars>>

(***************************************************************************)
(* nic_send_frame on the wired route, from a caller or from a handler that *)
(* net_poll runs.  The e1000 sender then waits for its descriptor, or      *)
(* stops waiting; the Realtek sender does not wait.                        *)
(***************************************************************************)
\* Variant: the descriptor is used without a look at its status.
SlotFreeAlways(i) == TRUE

SlotFree(i) == txd[i] = 0

send_frame ==
  /\ sending = NoWait /\ ~wifi_route_active
  /\ Len(queued) + refused < MaxFrames
  /\ IF SlotFree(tx_tail)
       THEN /\ txd' = [txd EXCEPT ![tx_tail] = Len(queued) + 1]
            /\ queued' = Append(queued, Len(queued) + 1)
            /\ tx_tail' = (tx_tail + 1) % TX_DESC_COUNT
            /\ TDT' = (tx_tail + 1) % TX_DESC_COUNT
            /\ sending' = IF card = "e1000" THEN tx_tail ELSE NoWait
            /\ UNCHANGED refused
       ELSE refused' = refused + 1 /\ UNCHANGED <<txd, queued, tx_tail, TDT, sending>>
  /\ UNCHANGED <<card, rxvars, tdh, wire, wifivars>>

\* The wait ends with the descriptor done (1), or after 100000 looks (0).
send_returns ==
  /\ sending # NoWait /\ sending' = NoWait
  /\ UNCHANGED <<card, rxvars, txd, tx_tail, TDT, tdh, queued, wire, refused, wifivars>>

(***************************************************************************)
(* net_wifi_connect_wpa2 or net_wifi_associate takes the route over; the   *)
(* association may end at any time.                                        *)
(***************************************************************************)
net_wifi_connect ==
  /\ budget = 0 /\ sending = NoWait
  /\ wifi_up' = TRUE /\ wifi_route_active' = TRUE
  /\ UNCHANGED <<card, rxvars, txvars>>

wifi_lost ==
  /\ wifi_up /\ wifi_up' = FALSE
  /\ UNCHANGED <<card, rxvars, txvars, wifi_route_active>>

RingNext ==
  \/ card_receives \/ card_sends
  \/ net_poll \/ poll_descriptor \/ poll_returns
  \/ send_frame \/ send_returns
  \/ net_wifi_connect \/ wifi_lost

RingSpec == RingInit /\ [][RingNext]_ringvars

(***************************************************************************)
(* Properties.                                                             *)
(***************************************************************************)

\* Every frame the card took in is either still in the ring, in the order of
\* arrival from the driver's cursor on, or has been passed; those given to
\* net_handle_packet were given in order and once.  Frames go out in the order
\* they were accepted, each once and none overwritten: what is on the wire and
\* what the ring still holds are the frames accepted.
FramesInOrder ==
  LET pending == (rdh - rx_cur) % RX_DESC_COUNT
      full    == rxd[rx_cur] # 0 /\ pending = 0
      n       == IF full THEN RX_DESC_COUNT ELSE pending
  IN /\ \A k \in 0..(n - 1) :
          rxd[(rx_cur + k) % RX_DESC_COUNT] = Len(arrived) - n + 1 + k
     /\ \A i, j \in 1..Len(handled) : i < j => handled[i] < handled[j]
     /\ wire = SubSeq(queued, 1, Len(wire))
     /\ \A i \in 1..Len(queued) : i > Len(wire) => \E s \in TxSlots : txd[s] = i

\* When nothing waits in the ring the card has a descriptor to receive into: the
\* driver never strands the card (the comment on RDT in net_poll: writing the
\* post-increment index is "a permanent stall").
\* Likewise a frame queued for sending is one the card can see, while fewer than a
\* ringful are queued: an e1000 ring filled to the last descriptor looks empty.
NeverStranded ==
  /\ (\A i \in RxSlots : rxd[i] = 0) => HasRoom
  /\ Len(queued) - Len(wire) \in 1..(TX_DESC_COUNT - 1) => CanSend
================================================================================
