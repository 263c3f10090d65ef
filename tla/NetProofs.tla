------------------------------- MODULE NetProofs -------------------------------
(***************************************************************************)
(* Proofs about the network for every value of the constants: the card's   *)
(* descriptor rings lose, repeat and reorder no frame, the ARP cache pairs *)
(* every address with its own host, and the Wi-Fi card is never left       *)
(* without a receive buffer.                                               *)
(***************************************************************************)
EXTENDS NicRing, NetQuery, IwlTransport, SequenceTheorems, WellFoundedInduction, TLAPS

(* The descriptor rings. *)

\* x reduced into 0..n-1, for x below 2n.
Wrap(x, n) == IF x < n THEN x ELSE x - n

\* n frames wait in the receive ring, the oldest at the driver's cursor.
RxHolds(n) ==
  /\ n \in 0..RX_DESC_COUNT /\ n <= Len(arrived)
  /\ rdh = Wrap(rx_cur + n, RX_DESC_COUNT)
  /\ \A k \in 0..(RX_DESC_COUNT - 1) :
       rxd[Wrap(rx_cur + k, RX_DESC_COUNT)] = IF k < n THEN Len(arrived) - n + 1 + k ELSE 0
  /\ card = "e1000" => n < RX_DESC_COUNT /\ RDT = Wrap(rx_cur + RX_DESC_COUNT - 1, RX_DESC_COUNT)
  /\ \A i \in 1..Len(handled) : handled[i] <= Len(arrived) - n

\* The transmit ring holds the frames queued and not yet sent, from tdh on.
TxHolds ==
  LET n == Len(queued) - Len(wire)
  IN /\ n \in 0..TX_DESC_COUNT
     /\ tx_tail = Wrap(tdh + n, TX_DESC_COUNT) /\ TDT = tx_tail
     /\ \A k \in 0..(TX_DESC_COUNT - 1) :
          txd[Wrap(tdh + k, TX_DESC_COUNT)] = IF k < n THEN Len(wire) + 1 + k ELSE 0

RingType ==
  /\ card \in {"e1000", "rtl"}
  /\ rxd \in [RxSlots -> Nat] /\ rx_cur \in RxSlots /\ rdh \in RxSlots /\ RDT \in RxSlots
  /\ txd \in [TxSlots -> Nat] /\ tx_tail \in TxSlots /\ tdh \in TxSlots
  /\ arrived \in Seq(Nat) /\ handled \in Seq(Nat)
  /\ queued \in Seq(Nat) /\ wire \in Seq(Nat)

\* A sequence of numbers that grows, and one that stays within a bound.
Increasing(s) == \A i, j \in 1..Len(s) : i < j => s[i] < s[j]
Below(s, b) == \A i \in 1..Len(s) : s[i] <= b

RingInv ==
  /\ RingType
  /\ \E n \in 0..RX_DESC_COUNT : RxHolds(n)
  /\ Increasing(handled)
  /\ TxHolds
  /\ \A i \in 1..Len(queued) : queued[i] = i
  /\ \A i \in 1..Len(wire) : wire[i] = i

\* Modulo n, for a number below 2n.
LEMMA ModWrap ==
  ASSUME NEW n \in Nat \ {0}, NEW x \in 0..(2 * n - 1)
  PROVE  x % n = Wrap(x, n) /\ Wrap(x, n) \in 0..(n - 1)
<1>1. CASE x < n
  BY <1>1 DEF Wrap
<1>2. CASE ~(x < n)
  <2>1. x - n \in 0..(n - 1) BY <1>2
  <2>2. x % n = (x - n) % n BY <2>1
  <2> QED BY <2>1, <2>2, <1>2 DEF Wrap
<1> QED BY <1>1, <1>2

\* The slot after i of a ring of n.
LEMMA NextSlot ==
  ASSUME NEW n \in Nat \ {0}, NEW i \in 0..(n - 1)
  PROVE  (i + 1) % n = Wrap(i + 1, n) /\ (i + 1) % n \in 0..(n - 1)
<1>1. i + 1 \in 0..(2 * n - 1)
  OBVIOUS
<1> QED
  BY <1>1, ModWrap

\* Positions of a ring of n counted from b: all of them are slots, they are apart, and
\* the one after position k is position k + 1.
LEMMA WrapIn ==
  ASSUME NEW n \in Nat \ {0}, NEW b \in 0..(n - 1), NEW k \in 0..n
  PROVE  Wrap(b + k, n) \in 0..(n - 1)
BY DEF Wrap

\* Different offsets from one base are different slots.
LEMMA WrapApart ==
  ASSUME NEW n \in Nat \ {0}, NEW b \in 0..(n - 1), NEW j \in 0..(n - 1), NEW k \in 0..(n - 1),
         j # k
  PROVE  Wrap(b + j, n) # Wrap(b + k, n)
BY DEF Wrap

\* The slot after the one at offset k is the one at offset k + 1.
LEMMA WrapNext ==
  ASSUME NEW n \in Nat \ {0}, NEW b \in 0..(n - 1), NEW k \in 0..(n - 1)
  PROVE  Wrap(Wrap(b + k, n) + 1, n) = Wrap(b + (k + 1), n)
<1>1. CASE b + k < n
  BY <1>1 DEF Wrap
<1>2. CASE ~(b + k < n)
  <2>1. Wrap(b + k, n) = b + k - n /\ b + k - n + 1 < n /\ ~(b + (k + 1) < n)
    BY <1>2 DEF Wrap
  <2> QED BY <2>1 DEF Wrap
<1> QED BY <1>1, <1>2

\* Counting from the slot after b instead of from b.
LEMMA WrapShift ==
  ASSUME NEW n \in Nat \ {0}, NEW b \in 0..(n - 1), NEW k \in 0..(n - 1)
  PROVE  /\ Wrap(Wrap(b + 1, n) + k, n) = Wrap(b + (k + 1), n)
         /\ k = n - 1 => Wrap(b + (k + 1), n) = b
         /\ k # n - 1 => Wrap(b + (k + 1), n) # b
<1>1. Wrap(Wrap(b + 1, n) + k, n) = Wrap(b + (k + 1), n)
  <2>1. CASE b + 1 < n
    BY <2>1 DEF Wrap
  <2>2. CASE ~(b + 1 < n)
    <3>1. Wrap(b + 1, n) = 0 /\ b = n - 1
      BY <2>2 DEF Wrap
    <3> QED BY <3>1 DEF Wrap
  <2> QED BY <2>1, <2>2
<1>2. /\ k = n - 1 => Wrap(b + (k + 1), n) = b
      /\ k # n - 1 => Wrap(b + (k + 1), n) # b
  BY DEF Wrap
<1> QED BY <1>1, <1>2

\* The distance from b to a, modulo n.
LEMMA ModBack ==
  ASSUME NEW n \in Nat \ {0}, NEW a \in 0..(n - 1), NEW b \in 0..(n - 1)
  PROVE  (a - b) % n = IF a >= b THEN a - b ELSE a - b + n
<1>1. CASE a >= b
  BY <1>1
<1>2. CASE ~(a >= b)
  <2>1. a - b + n \in 0..(n - 1) BY <1>2
  <2>2. (a - b) % n = (a - b + n) % n BY <2>1
  <2> QED BY <2>1, <2>2, <1>2
<1> QED BY <1>1, <1>2

\* A growing sequence below b may be continued with b + 1.
LEMMA BelowAppend ==
  ASSUME NEW s \in Seq(Nat), NEW b \in Nat, Below(s, b), Increasing(s),
         NEW t, t = s \/ t = Append(s, b + 1)
  PROVE  t \in Seq(Nat) /\ Below(t, b + 1) /\ Increasing(t)
<1> DEFINE m == Len(s)
<1>1. m \in Nat /\ \A i \in 1..m : s[i] \in Nat /\ s[i] <= b
  BY LenProperties, ElementOfSeq DEF Below
<1>2. CASE t = s
  BY <1>1, <1>2 DEF Below
<1>3. CASE t = Append(s, b + 1)
  <2>1. /\ t \in Seq(Nat) /\ Len(t) = m + 1 /\ t[m + 1] = b + 1
        /\ \A i \in 1..m : t[i] = s[i]
    <3>1. b + 1 \in Nat
      OBVIOUS
    <3> QED
      BY <3>1, <1>3, AppendProperties
  <2> HIDE DEF m
  <2>2. \A i \in 1..(m + 1) : t[i] \in Nat /\ t[i] <= b + 1 /\ (i # m + 1 => i \in 1..m /\ t[i] <= b)
    BY <1>1, <2>1
  <2>3. \A i, j \in 1..m : i < j => s[i] < s[j]
    BY DEF Increasing, m
  <2>4. ASSUME NEW i \in 1..(m + 1), NEW j \in 1..(m + 1), i < j PROVE t[i] < t[j]
    <3>1. i \in 1..m /\ t[i] = s[i] /\ s[i] \in Nat /\ s[i] <= b
      BY <1>1, <2>1, <2>4
    <3>2. CASE j = m + 1
      BY <2>1, <3>1, <3>2
    <3>3. CASE j # m + 1
      <4>1. j \in 1..m /\ t[j] = s[j]
        BY <1>1, <2>1, <3>3
      <4> QED
        BY <3>1, <4>1, <2>3, <2>4
    <3> QED
      BY <3>2, <3>3
  <2> QED
    BY <2>1, <2>2, <2>4 DEF Below, Increasing
<1> QED
  BY <1>2, <1>3

\* Both rings are empty when the driver has programmed the card.
THEOREM RingInitially == RingInit => RingInv
<1> SUFFICES ASSUME RingInit PROVE RingInv
  OBVIOUS
<1> USE RingAssumption DEF RingInit, RxSlots, TxSlots
<1>1. RingType
  BY DEF RingType
<1>2. RxHolds(0)
  BY DEF RxHolds, Wrap
<1>3. TxHolds
  BY DEF TxHolds, Wrap
<1> QED
  BY <1>1, <1>2, <1>3 DEF RingInv, Increasing

\* The card takes a frame in: one more waits, behind the others.
LEMMA RxTaken ==
  ASSUME RingType, NEW n \in 0..RX_DESC_COUNT, RxHolds(n), card_receives
  PROVE  n < RX_DESC_COUNT /\ RxHolds(n + 1)' /\ RingType'
<1> USE RingAssumption DEF RxSlots, TxSlots
<1>1. n < RX_DESC_COUNT
  <2>1. CASE card = "e1000"
    BY <2>1 DEF RxHolds
  <2>2. CASE card # "e1000" /\ n = RX_DESC_COUNT
    <3>1. rdh = rx_cur /\ rxd[rx_cur] = 0
      BY <2>2 DEF RxHolds, Wrap, card_receives, HasRoom, RingType
    <3>2. rxd[Wrap(rx_cur + 0, RX_DESC_COUNT)] = Len(arrived) - n + 1 + 0
      BY <2>2 DEF RxHolds
    <3> QED
      BY <3>1, <3>2 DEF RxHolds, Wrap, RingType
  <2> QED
    BY <2>1, <2>2
<1>2. /\ rdh' = Wrap(rdh + 1, RX_DESC_COUNT) /\ rdh' \in RxSlots
      /\ arrived' \in Seq(Nat) /\ Len(arrived') = Len(arrived) + 1
      /\ rxd' \in [RxSlots -> Nat]
  <2>1. rdh \in 0..(RX_DESC_COUNT - 1) /\ RX_DESC_COUNT \in Nat \ {0}
    BY DEF RingType
  <2>2. rdh' = Wrap(rdh + 1, RX_DESC_COUNT) /\ rdh' \in RxSlots
    BY <2>1, NextSlot DEF card_receives
  <2>3. Len(arrived) + 1 \in Nat
    BY LenProperties DEF RingType
  <2>4. arrived' \in Seq(Nat) /\ Len(arrived') = Len(arrived) + 1
    BY <2>3, AppendProperties DEF card_receives, RingType
  <2>5. rxd' \in [RxSlots -> Nat]
    BY <2>3 DEF card_receives, RingType
  <2> QED
    BY <2>2, <2>4, <2>5
<1>0. /\ RX_DESC_COUNT \in Nat \ {0} /\ rx_cur \in 0..(RX_DESC_COUNT - 1)
      /\ n \in 0..(RX_DESC_COUNT - 1) /\ rdh = Wrap(rx_cur + n, RX_DESC_COUNT)
  BY <1>1 DEF RxHolds, RingType
<1>3. rdh' = Wrap(rx_cur + (n + 1), RX_DESC_COUNT)
  BY <1>0, <1>2, WrapNext
<1>4. /\ rx_cur' = rx_cur /\ card' = card /\ RDT' = RDT /\ handled' = handled
      /\ UNCHANGED <<txd, tx_tail, tdh, queued, wire>>
  BY DEF card_receives, txvars
<1>5. ASSUME NEW k \in 0..(RX_DESC_COUNT - 1)
      PROVE  rxd'[Wrap(rx_cur + k, RX_DESC_COUNT)]
               = IF k < n + 1 THEN Len(arrived) - n + 1 + k ELSE 0
  <2>1. Wrap(rx_cur + k, RX_DESC_COUNT) \in RxSlots
    BY <1>0, WrapIn
  <2>2. CASE k = n
    <3>1. rxd'[Wrap(rx_cur + k, RX_DESC_COUNT)] = Len(arrived) + 1
      BY <1>0, <2>1, <2>2 DEF card_receives, RingType
    <3>2. Len(arrived) \in Nat
      BY LenProperties DEF RingType
    <3> QED
      BY <1>0, <2>2, <3>1, <3>2
  <2>3. CASE k # n
    <3>1. Wrap(rx_cur + k, RX_DESC_COUNT) # rdh
      BY <1>0, <2>3, WrapApart
    <3>2. rxd'[Wrap(rx_cur + k, RX_DESC_COUNT)] = rxd[Wrap(rx_cur + k, RX_DESC_COUNT)]
      BY <2>1, <3>1 DEF card_receives, RingType
    <3>3. rxd[Wrap(rx_cur + k, RX_DESC_COUNT)] = IF k < n THEN Len(arrived) - n + 1 + k ELSE 0
      BY DEF RxHolds
    <3> QED
      BY <2>3, <3>2, <3>3
  <2> QED
    BY <2>2, <2>3
<1>6. card = "e1000" => n + 1 < RX_DESC_COUNT
  <2> SUFFICES ASSUME card = "e1000", n + 1 >= RX_DESC_COUNT PROVE FALSE
    BY <1>0
  <2>1. n = RX_DESC_COUNT - 1
    BY <1>0
  <2>2. RDT = Wrap(rx_cur + (RX_DESC_COUNT - 1), RX_DESC_COUNT)
    <3>1. rx_cur + RX_DESC_COUNT - 1 = rx_cur + (RX_DESC_COUNT - 1)
      BY <1>0
    <3> QED BY <3>1 DEF RxHolds
  <2>3. rdh # RDT
    BY DEF card_receives, HasRoom
  <2> QED
    BY <1>0, <2>1, <2>2, <2>3
<1>7. RxHolds(n + 1)'
  BY <1>1, <1>2, <1>3, <1>4, <1>5, <1>6 DEF RxHolds, RingType
<1> QED
  BY <1>1, <1>2, <1>4, <1>7 DEF RingType

\* The driver passes the frame at its cursor: one fewer waits.
LEMMA RxPassed ==
  ASSUME RingType, NEW n \in 0..RX_DESC_COUNT, RxHolds(n), poll_descriptor,
         Increasing(handled)
  PROVE  /\ n > 0 /\ RxHolds(n - 1)' /\ RingType'
         /\ Increasing(handled)'
<1> USE RingAssumption DEF RxSlots, TxSlots
<1>1. rxd[rx_cur] = IF 0 < n THEN Len(arrived) - n + 1 ELSE 0
  <2>1. rxd[Wrap(rx_cur + 0, RX_DESC_COUNT)] = IF 0 < n THEN Len(arrived) - n + 1 + 0 ELSE 0
    BY DEF RxHolds
  <2> QED
    BY <2>1 DEF Wrap, RingType
<1>2. n > 0 /\ rxd[rx_cur] = Len(arrived) - n + 1
  BY <1>1 DEF poll_descriptor, Done
<1>3. /\ rx_cur' = Wrap(rx_cur + 1, RX_DESC_COUNT) /\ rx_cur' \in RxSlots
      /\ rxd' = [rxd EXCEPT ![rx_cur] = 0] /\ rxd' \in [RxSlots -> Nat]
      /\ RDT' \in RxSlots /\ (card = "e1000" => RDT' = rx_cur)
  <2>1. rx_cur \in 0..(RX_DESC_COUNT - 1) /\ RX_DESC_COUNT \in Nat \ {0}
    BY DEF RingType
  <2>2. rx_cur' = Wrap(rx_cur + 1, RX_DESC_COUNT) /\ rx_cur' \in RxSlots
    BY <2>1, NextSlot DEF poll_descriptor
  <2>3. rxd' = [rxd EXCEPT ![rx_cur] = 0] /\ rxd' \in [RxSlots -> Nat]
    BY DEF poll_descriptor, RingType
  <2>4. RDT' \in RxSlots /\ (card = "e1000" => RDT' = rx_cur)
    BY <2>1 DEF poll_descriptor, RingType, e1000_tail
  <2> QED
    BY <2>2, <2>3, <2>4
<1>4. UNCHANGED <<card, rdh, arrived, txd, tx_tail, tdh, queued, wire>>
  BY DEF poll_descriptor, txvars
<1>5. \/ handled' = handled
      \/ handled' = Append(handled, Len(arrived) - n + 1)
  BY <1>2 DEF poll_descriptor
<1>6. /\ handled' \in Seq(Nat)
      /\ \A i \in 1..Len(handled') : handled'[i] <= Len(arrived) - (n - 1)
      /\ Increasing(handled')
  <2>1. Len(arrived) - n \in Nat /\ Len(arrived) - (n - 1) = Len(arrived) - n + 1
    BY LenProperties DEF RxHolds, RingType
  <2>2. Below(handled, Len(arrived) - n) /\ handled \in Seq(Nat)
    BY DEF Below, RxHolds, RingType
  <2>3. Below(handled, Len(arrived) - n + 1)
    BY <2>1, <2>2, BelowAppend
  <2>4. \/ handled' = handled
        \/ /\ handled' \in Seq(Nat) /\ Below(handled', Len(arrived) - n + 1)
           /\ Increasing(handled')
    BY <1>5, <2>1, <2>2, BelowAppend
  <2> QED
    BY <2>1, <2>2, <2>3, <2>4 DEF Below
<1>0. rx_cur \in 0..(RX_DESC_COUNT - 1) /\ RX_DESC_COUNT \in Nat \ {0}
  BY DEF RingType
<1>7. rdh = Wrap(rx_cur' + (n - 1), RX_DESC_COUNT)
  <2>1. rdh = Wrap(rx_cur + n, RX_DESC_COUNT)
    BY DEF RxHolds
  <2>2. n - 1 \in 0..(RX_DESC_COUNT - 1) /\ (n - 1) + 1 = n
    BY <1>2
  <2> QED
    BY <1>0, <1>3, <2>1, <2>2, WrapShift
<1>8. ASSUME NEW k \in 0..(RX_DESC_COUNT - 1)
      PROVE  rxd'[Wrap(rx_cur' + k, RX_DESC_COUNT)]
               = IF k < n - 1 THEN Len(arrived) - (n - 1) + 1 + k ELSE 0
  <2>1. Wrap(rx_cur' + k, RX_DESC_COUNT) \in RxSlots
    BY <1>3, WrapIn
  <2>2. CASE k = RX_DESC_COUNT - 1
    <3>1. Wrap(rx_cur' + k, RX_DESC_COUNT) = rx_cur
      BY <1>0, <1>3, <2>2, WrapShift
    <3>2. rxd'[rx_cur] = 0
      BY <1>3 DEF RingType
    <3> QED
      BY <2>2, <3>1, <3>2
  <2>3. CASE k # RX_DESC_COUNT - 1
    <3>1. Wrap(rx_cur' + k, RX_DESC_COUNT) = Wrap(rx_cur + (k + 1), RX_DESC_COUNT)
      BY <1>0, <1>3, WrapShift
    <3>2. Wrap(rx_cur' + k, RX_DESC_COUNT) # rx_cur
      BY <1>0, <2>3, <3>1, WrapShift
    <3>3. rxd[Wrap(rx_cur + (k + 1), RX_DESC_COUNT)]
            = IF k + 1 < n THEN Len(arrived) - n + 1 + (k + 1) ELSE 0
      BY <2>3 DEF RxHolds
    <3>4. rxd'[Wrap(rx_cur' + k, RX_DESC_COUNT)] = rxd[Wrap(rx_cur + (k + 1), RX_DESC_COUNT)]
      BY <1>3, <2>1, <3>1, <3>2 DEF RingType
    <3>5. Len(arrived) \in Nat
      BY LenProperties DEF RingType
    <3>6. /\ k + 1 < n <=> k < n - 1
          /\ Len(arrived) - n + 1 + (k + 1) = Len(arrived) - (n - 1) + 1 + k
      BY <3>5
    <3>7. CASE k < n - 1
      BY <3>3, <3>4, <3>6, <3>7, Zenon
    <3>8. CASE ~(k < n - 1)
      BY <3>3, <3>4, <3>6, <3>8, Zenon
    <3> QED
      BY <3>7, <3>8
  <2> QED
    BY <2>2, <2>3
<1>9. card = "e1000" =>
        n - 1 < RX_DESC_COUNT /\ RDT' = Wrap(rx_cur' + RX_DESC_COUNT - 1, RX_DESC_COUNT)
  <2>1. Wrap(rx_cur' + (RX_DESC_COUNT - 1), RX_DESC_COUNT) = rx_cur
    BY <1>0, <1>3, WrapShift
  <2>2. rx_cur' + (RX_DESC_COUNT - 1) = rx_cur' + RX_DESC_COUNT - 1
    BY <1>0, <1>3
  <2> QED
    BY <1>3, <2>1, <2>2
<1>10. RxHolds(n - 1)'
  BY <1>2, <1>3, <1>4, <1>6, <1>7, <1>8, <1>9 DEF RxHolds, RingType
<1> QED
  BY <1>2, <1>3, <1>4, <1>6, <1>10 DEF RingType

\* The sender puts a frame at the tail of the transmit ring.
LEMMA TxQueued ==
  ASSUME RingType, TxHolds, send_frame, SlotFree(tx_tail)
  PROVE  TxHolds' /\ RingType' /\ Len(queued') = Len(queued) + 1
<1> USE RingAssumption DEF RxSlots, TxSlots
<1> DEFINE n == Len(queued) - Len(wire)
<1>1. Len(queued) \in Nat /\ Len(wire) \in Nat /\ n \in 0..TX_DESC_COUNT
  BY LenProperties DEF RingType, TxHolds
<1>2. n < TX_DESC_COUNT
  <2>1. CASE n = TX_DESC_COUNT
    <3>1. txd[Wrap(tdh + 0, TX_DESC_COUNT)] = IF 0 < n THEN Len(wire) + 1 + 0 ELSE 0
      BY DEF TxHolds
    <3>2. tx_tail = Wrap(tdh + n, TX_DESC_COUNT) /\ tdh \in 0..(TX_DESC_COUNT - 1)
      BY DEF TxHolds, RingType
    <3>3. tx_tail = tdh /\ Wrap(tdh + 0, TX_DESC_COUNT) = tdh
      BY <2>1, <3>2 DEF Wrap
    <3> QED
      BY <1>1, <2>1, <3>1, <3>3 DEF SlotFree
  <2> QED
    BY <1>1, <2>1
<1>3. /\ tx_tail' = Wrap(tx_tail + 1, TX_DESC_COUNT) /\ tx_tail' \in TxSlots /\ TDT' = tx_tail'
      /\ queued' = Append(queued, Len(queued) + 1)
      /\ txd' = [txd EXCEPT ![tx_tail] = Len(queued) + 1]
      /\ UNCHANGED <<card, rxd, rx_cur, RDT, rdh, arrived, handled, tdh, wire>>
  BY NextSlot DEF send_frame, RingType, rxvars
<1>4. queued' \in Seq(Nat) /\ Len(queued') = Len(queued) + 1
  <2>1. Len(queued) + 1 \in Nat /\ queued \in Seq(Nat)
    BY <1>1 DEF RingType
  <2> QED
    BY <2>1, <1>3, AppendProperties
<1>5. txd' \in [TxSlots -> Nat]
  <2>1. txd \in [TxSlots -> Nat] /\ txd' = [txd EXCEPT ![tx_tail] = Len(queued) + 1]
    BY <1>3 DEF RingType
  <2>2. Len(queued) + 1 \in Nat
    BY <1>1
  <2> QED
    BY <2>1, <2>2
<1>6. tx_tail' = Wrap(tdh + (n + 1), TX_DESC_COUNT)
  <2>1. tx_tail = Wrap(tdh + n, TX_DESC_COUNT) /\ tdh \in 0..(TX_DESC_COUNT - 1)
    BY DEF TxHolds, RingType
  <2>2. n \in 0..(TX_DESC_COUNT - 1) /\ TX_DESC_COUNT \in Nat \ {0}
    BY <1>1, <1>2, RingAssumption
  <2> HIDE DEF n
  <2> QED
    BY <1>3, <2>1, <2>2, WrapNext
<1>7. ASSUME NEW k \in 0..(TX_DESC_COUNT - 1)
      PROVE  txd'[Wrap(tdh + k, TX_DESC_COUNT)] = IF k < n + 1 THEN Len(wire) + 1 + k ELSE 0
  <2> HIDE DEF n
  <2>1. /\ tx_tail = Wrap(tdh + n, TX_DESC_COUNT) /\ tdh \in 0..(TX_DESC_COUNT - 1)
        /\ txd[Wrap(tdh + k, TX_DESC_COUNT)] = IF k < n THEN Len(wire) + 1 + k ELSE 0
    BY DEF TxHolds, RingType, n
  <2>2. Wrap(tdh + k, TX_DESC_COUNT) \in TxSlots
    BY <2>1 DEF Wrap
  <2>3. CASE k = n
    <3>1. txd'[Wrap(tdh + k, TX_DESC_COUNT)] = Len(queued) + 1
      BY <2>1, <2>2, <2>3, <1>3 DEF RingType
    <3> QED
      BY <3>1, <2>3, <1>1 DEF n
  <2>4. CASE k # n
    <3>1. Wrap(tdh + k, TX_DESC_COUNT) # tx_tail
      BY <1>1, <1>2, <2>1, <2>4 DEF Wrap
    <3>2. txd'[Wrap(tdh + k, TX_DESC_COUNT)] = txd[Wrap(tdh + k, TX_DESC_COUNT)]
      BY <2>2, <3>1, <1>3 DEF RingType
    <3> QED
      BY <1>1, <2>1, <2>4, <3>2
  <2> QED
    BY <2>3, <2>4
<1>8. Len(queued') - Len(wire') = n + 1
  BY <1>1, <1>3, <1>4
<1>9. TxHolds'
  <2> HIDE DEF n
  <2>1. n + 1 \in 0..TX_DESC_COUNT
    BY <1>1, <1>2
  <2> QED
    BY <1>3, <1>6, <1>7, <1>8, <2>1 DEF TxHolds
<1> QED
  BY <1>3, <1>4, <1>5, <1>9 DEF RingType

\* The card sends the oldest frame of the transmit ring.
LEMMA TxSent ==
  ASSUME RingType, TxHolds, card_sends
  PROVE  /\ TxHolds' /\ RingType'
         /\ wire' = Append(wire, Len(wire) + 1) /\ Len(wire) < Len(queued)
<1> USE RingAssumption DEF RxSlots, TxSlots
<1> DEFINE n == Len(queued) - Len(wire)
<1>1. Len(queued) \in Nat /\ Len(wire) \in Nat /\ n \in 0..TX_DESC_COUNT
  BY LenProperties DEF RingType, TxHolds
<1>2. /\ tx_tail = Wrap(tdh + n, TX_DESC_COUNT) /\ TDT = tx_tail
      /\ tdh \in 0..(TX_DESC_COUNT - 1)
      /\ txd[tdh] = IF 0 < n THEN Len(wire) + 1 ELSE 0
  <2>1. txd[Wrap(tdh + 0, TX_DESC_COUNT)] = IF 0 < n THEN Len(wire) + 1 + 0 ELSE 0
    BY DEF TxHolds
  <2>2. Wrap(tdh + 0, TX_DESC_COUNT) = tdh /\ tdh \in 0..(TX_DESC_COUNT - 1)
    BY DEF Wrap, RingType
  <2>3. tx_tail = Wrap(tdh + n, TX_DESC_COUNT) /\ TDT = tx_tail
    BY DEF TxHolds
  <2> QED
    BY <1>1, <2>1, <2>2, <2>3
<1>3. n > 0
  BY <1>1, <1>2 DEF card_sends, CanSend, Wrap
<1>4. /\ tdh' = Wrap(tdh + 1, TX_DESC_COUNT) /\ tdh' \in TxSlots
      /\ txd' = [txd EXCEPT ![tdh] = 0] /\ wire' = Append(wire, Len(wire) + 1)
      /\ UNCHANGED <<card, rxd, rx_cur, RDT, rdh, arrived, handled, tx_tail, TDT, queued>>
  <2>1. tdh' = Wrap(tdh + 1, TX_DESC_COUNT) /\ tdh' \in TxSlots
    BY <1>2, NextSlot DEF card_sends
  <2> QED
    BY <1>2, <1>3, <2>1 DEF card_sends, rxvars
<1>5. wire' \in Seq(Nat) /\ Len(wire') = Len(wire) + 1
  <2>1. Len(wire) + 1 \in Nat /\ wire \in Seq(Nat)
    BY <1>1 DEF RingType
  <2> QED
    BY <2>1, <1>4, AppendProperties
<1>6. txd' \in [TxSlots -> Nat]
  BY <1>4 DEF RingType
<1>7. tx_tail = Wrap(tdh' + (n - 1), TX_DESC_COUNT)
  BY <1>1, <1>2, <1>3, <1>4 DEF Wrap
<1>8. ASSUME NEW k \in 0..(TX_DESC_COUNT - 1)
      PROVE  txd'[Wrap(tdh' + k, TX_DESC_COUNT)]
               = IF k < n - 1 THEN (Len(wire) + 1) + 1 + k ELSE 0
  <2> HIDE DEF n
  <2>1. Wrap(tdh' + k, TX_DESC_COUNT) \in TxSlots
    BY <1>4 DEF Wrap
  <2>2. CASE k = TX_DESC_COUNT - 1
    <3>1. Wrap(tdh' + k, TX_DESC_COUNT) = tdh
      BY <2>2, <1>2, <1>4 DEF Wrap
    <3>2. txd'[tdh] = 0
      BY <1>2, <1>4 DEF RingType
    <3> QED
      BY <1>1, <2>2, <3>1, <3>2
  <2>3. CASE k # TX_DESC_COUNT - 1
    <3>1. /\ Wrap(tdh' + k, TX_DESC_COUNT) = Wrap(tdh + (k + 1), TX_DESC_COUNT)
          /\ Wrap(tdh' + k, TX_DESC_COUNT) # tdh
      BY <2>3, <1>2, <1>4 DEF Wrap
    <3>2. k + 1 \in 0..(TX_DESC_COUNT - 1)
      BY <2>3
    <3>3. txd[Wrap(tdh + (k + 1), TX_DESC_COUNT)]
            = IF k + 1 < n THEN Len(wire) + 1 + (k + 1) ELSE 0
      BY <3>2 DEF TxHolds, n
    <3>4. txd'[Wrap(tdh' + k, TX_DESC_COUNT)] = txd[Wrap(tdh' + k, TX_DESC_COUNT)]
      BY <2>1, <3>1, <1>4 DEF RingType
    <3> QED
      BY <1>1, <3>1, <3>3, <3>4
  <2> QED
    BY <2>2, <2>3
<1>9. Len(queued') - Len(wire') = n - 1
  BY <1>1, <1>4, <1>5
<1>10. TxHolds'
  <2> HIDE DEF n
  <2>1. n - 1 \in 0..TX_DESC_COUNT
    BY <1>1, <1>3
  <2> QED
    BY <1>2, <1>4, <1>5, <1>7, <1>8, <1>9, <2>1 DEF TxHolds
<1>11. RingType'
  BY <1>4, <1>5, <1>6 DEF RingType
<1>12. Len(wire) < Len(queued)
  BY <1>1, <1>3
<1> QED
  BY <1>4, <1>10, <1>11, <1>12

\* Frames numbered in their order stay so when the next one is queued.
LEMMA NumberedAppend ==
  ASSUME NEW s \in Seq(Nat), \A i \in 1..Len(s) : s[i] = i,
         NEW t, t = Append(s, Len(s) + 1)
  PROVE  \A i \in 1..Len(t) : t[i] = i
<1>1. Len(s) \in Nat /\ Len(s) + 1 \in Nat
  BY LenProperties
<1>2. /\ Len(t) = Len(s) + 1 /\ t[Len(s) + 1] = Len(s) + 1
      /\ \A i \in 1..Len(s) : t[i] = s[i]
  BY <1>1, AppendProperties
<1> QED
  BY <1>1, <1>2

\* Every step of the driver and of the card keeps the rings: what waits between the
\* card's head and the driver's cursor is what arrived and was not handled, in order.
THEOREM RingStep == RingInv /\ [RingNext]_ringvars => RingInv'
<1> SUFFICES ASSUME RingInv, [RingNext]_ringvars PROVE RingInv'
  OBVIOUS
<1>1. PICK n \in 0..RX_DESC_COUNT : RxHolds(n)
  BY DEF RingInv
<1>2. /\ RingType /\ TxHolds /\ Increasing(handled)
      /\ \A i \in 1..Len(queued) : queued[i] = i
      /\ \A i \in 1..Len(wire) : wire[i] = i
  BY DEF RingInv
<1> DEFINE RxSame == UNCHANGED <<card, rxd, rx_cur, RDT, rdh, arrived, handled>>
           TxSame == UNCHANGED <<card, txd, tx_tail, TDT, tdh, queued, wire>>
<1>3. RxSame => (RxHolds(n) /\ Increasing(handled))'
  BY <1>1, <1>2 DEF RxHolds, Increasing
<1>4. TxSame => /\ TxHolds'
                /\ \A i \in 1..Len(queued') : queued'[i] = i
                /\ \A i \in 1..Len(wire') : wire'[i] = i
  BY <1>2 DEF TxHolds
<1>5. RxSame /\ TxSame => RingType'
  BY <1>2 DEF RingType
<1>6. n + 1 \in 0..RX_DESC_COUNT \/ n = RX_DESC_COUNT
  BY RingAssumption
<1>7. CASE card_receives
  <2>1. TxSame /\ Increasing(handled)'
    BY <1>2, <1>7 DEF card_receives, txvars, Increasing
  <2>2. n < RX_DESC_COUNT /\ RxHolds(n + 1)' /\ RingType'
    BY <1>1, <1>2, <1>7, RxTaken
  <2> QED
    BY <1>4, <1>6, <2>1, <2>2 DEF RingInv
<1>8. CASE card_sends
  <2>1. RxSame /\ UNCHANGED queued
    BY <1>8 DEF card_sends, rxvars
  <2>2. TxHolds' /\ RingType' /\ wire' = Append(wire, Len(wire) + 1)
    BY <1>2, <1>8, TxSent
  <2>3. \A i \in 1..Len(wire') : wire'[i] = i
    BY <1>2, <2>2, NumberedAppend DEF RingType
  <2> QED
    BY <1>1, <1>2, <1>3, <2>1, <2>2, <2>3 DEF RingInv
<1>9. CASE poll_descriptor
  <2>1. TxSame
    BY <1>9 DEF poll_descriptor, txvars
  <2>2. n > 0 /\ RxHolds(n - 1)' /\ RingType' /\ Increasing(handled)'
    BY <1>1, <1>2, <1>9, RxPassed
  <2>3. n - 1 \in 0..RX_DESC_COUNT
    BY <2>2, RingAssumption
  <2> QED
    BY <1>4, <2>1, <2>2, <2>3 DEF RingInv
<1>10. CASE send_frame /\ SlotFree(tx_tail)
  <2>1. RxSame /\ UNCHANGED wire /\ queued' = Append(queued, Len(queued) + 1)
    BY <1>10 DEF send_frame, rxvars
  <2>2. TxHolds' /\ RingType'
    BY <1>2, <1>10, TxQueued
  <2>3. \A i \in 1..Len(queued') : queued'[i] = i
    BY <1>2, <2>1, NumberedAppend DEF RingType
  <2> QED
    BY <1>1, <1>2, <1>3, <2>1, <2>2, <2>3 DEF RingInv
<1>11. CASE RxSame /\ TxSame
  BY <1>1, <1>3, <1>4, <1>5, <1>11 DEF RingInv
<1>12. CASE send_frame /\ ~SlotFree(tx_tail)
  <2>1. RxSame /\ TxSame
    BY <1>12 DEF send_frame, rxvars
  <2> QED
    BY <1>11, <2>1
<1>13. CASE net_poll \/ poll_returns \/ send_returns
  <2>1. RxSame /\ TxSame
    BY <1>13 DEF net_poll, poll_returns, send_returns, rxvars, txvars
  <2> QED
    BY <1>11, <2>1
<1>14. CASE net_wifi_connect \/ wifi_lost \/ UNCHANGED ringvars
  <2>1. RxSame /\ TxSame
    BY <1>14 DEF net_wifi_connect, wifi_lost, ringvars, rxvars, txvars
  <2> QED
    BY <1>11, <2>1
<1> QED
  BY <1>7, <1>8, <1>9, <1>10, <1>12, <1>13, <1>14 DEF RingNext

\* The two properties follow from what the rings hold.
LEMMA RingInvMeans == RingInv => FramesInOrder /\ NeverStranded
<1> SUFFICES ASSUME RingInv PROVE FramesInOrder /\ NeverStranded
  OBVIOUS
<1> USE RingAssumption DEF RxSlots, TxSlots
<1>1. PICK n \in 0..RX_DESC_COUNT : RxHolds(n)
  BY DEF RingInv
<1>2. /\ RingType /\ TxHolds /\ Increasing(handled)
      /\ \A i \in 1..Len(queued) : queued[i] = i
      /\ \A i \in 1..Len(wire) : wire[i] = i
      /\ rx_cur \in 0..(RX_DESC_COUNT - 1) /\ tdh \in 0..(TX_DESC_COUNT - 1)
      /\ Len(arrived) \in Nat /\ Len(queued) \in Nat /\ Len(wire) \in Nat
  BY LenProperties DEF RingInv, RingType
<1>3. rdh = Wrap(rx_cur + n, RX_DESC_COUNT) /\ rdh \in 0..(RX_DESC_COUNT - 1)
  BY <1>1, <1>2 DEF RxHolds, RingType
<1>4. rxd[rx_cur] = IF 0 < n THEN Len(arrived) - n + 1 ELSE 0
  <2>1. rxd[Wrap(rx_cur + 0, RX_DESC_COUNT)] = IF 0 < n THEN Len(arrived) - n + 1 + 0 ELSE 0
    BY <1>1 DEF RxHolds
  <2> QED
    BY <1>2, <2>1 DEF Wrap
<1>5. txd[tdh] = IF Len(queued) - Len(wire) > 0 THEN Len(wire) + 1 ELSE 0
  <2>1. txd[Wrap(tdh + 0, TX_DESC_COUNT)]
          = IF 0 < Len(queued) - Len(wire) THEN Len(wire) + 1 + 0 ELSE 0
    BY <1>2 DEF TxHolds
  <2> QED
    BY <1>2, <2>1 DEF Wrap
<1>6. FramesInOrder
  <2> DEFINE pending == (rdh - rx_cur) % RX_DESC_COUNT
             full == rxd[rx_cur] # 0 /\ pending = 0
             held == IF full THEN RX_DESC_COUNT ELSE pending
  <2>1. n <= Len(arrived)
    BY <1>1 DEF RxHolds
  <2>2. pending = IF rdh >= rx_cur THEN rdh - rx_cur ELSE rdh - rx_cur + RX_DESC_COUNT
    <3>1. RX_DESC_COUNT \in Nat \ {0}
      OBVIOUS
    <3> QED
      BY <1>2, <1>3, <3>1, ModBack
  <2>3. held = n
    <3>1. rxd[rx_cur] # 0 <=> n > 0
      BY <1>2, <1>4, <2>1
    <3> HIDE DEF pending
    <3>2. pending = IF n < RX_DESC_COUNT THEN n ELSE 0
      BY <1>2, <1>3, <2>2 DEF Wrap
    <3> QED
      BY <3>1, <3>2
  <2>4. ASSUME NEW k \in 0..(n - 1)
        PROVE  rxd[(rx_cur + k) % RX_DESC_COUNT] = Len(arrived) - n + 1 + k
    <3>1. k \in 0..(RX_DESC_COUNT - 1) /\ rx_cur + k \in 0..(2 * RX_DESC_COUNT - 1)
      BY <1>2
    <3>2. (rx_cur + k) % RX_DESC_COUNT = Wrap(rx_cur + k, RX_DESC_COUNT)
      BY <3>1, ModWrap
    <3> QED
      BY <1>1, <3>1, <3>2 DEF RxHolds
  <2>5. wire = SubSeq(queued, 1, Len(wire))
    <3>1. Len(wire) <= Len(queued)
      BY <1>2 DEF TxHolds
    <3>2. wire \in Seq(Nat) /\ queued \in Seq(Nat)
      BY <1>2 DEF RingType
    <3> QED
      BY <1>2, <3>1, <3>2
  <2>6. ASSUME NEW i \in 1..Len(queued), i > Len(wire)
        PROVE  \E s \in TxSlots : txd[s] = i
    <3> DEFINE k == i - Len(wire) - 1
    <3>1. k \in 0..(TX_DESC_COUNT - 1) /\ k < Len(queued) - Len(wire) /\ Len(wire) + 1 + k = i
      BY <1>2, <2>6 DEF TxHolds
    <3> HIDE DEF k
    <3>2. txd[Wrap(tdh + k, TX_DESC_COUNT)] = i
      BY <1>2, <3>1 DEF TxHolds
    <3>3. Wrap(tdh + k, TX_DESC_COUNT) \in TxSlots
      BY <1>2, <3>1 DEF Wrap
    <3> QED
      BY <3>2, <3>3
  <2> HIDE DEF held
  <2>7. \A k \in 0..(held - 1) :
          rxd[(rx_cur + k) % RX_DESC_COUNT] = Len(arrived) - held + 1 + k
    BY <2>3, <2>4
  <2> QED
    BY <1>2, <2>5, <2>6, <2>7 DEF FramesInOrder, Increasing, held
<1>7. NeverStranded
  <2>1. ASSUME \A i \in RxSlots : rxd[i] = 0 PROVE HasRoom
    <3>1. n = 0
      BY <1>1, <1>2, <1>4, <2>1 DEF RxHolds
    <3>2. rdh = rx_cur
      BY <1>2, <1>3, <3>1 DEF Wrap
    <3>3. CASE card = "e1000"
      <4>1. RDT = Wrap(rx_cur + RX_DESC_COUNT - 1, RX_DESC_COUNT)
        BY <1>1, <3>3 DEF RxHolds
      <4> QED
        BY <1>2, <3>2, <3>3, <4>1 DEF HasRoom, Wrap
    <3> QED
      BY <1>2, <2>1, <3>2, <3>3 DEF HasRoom
  <2>2. ASSUME Len(queued) - Len(wire) \in 1..(TX_DESC_COUNT - 1) PROVE CanSend
    <3>1. TDT = Wrap(tdh + (Len(queued) - Len(wire)), TX_DESC_COUNT)
      BY <1>2 DEF TxHolds
    <3>2. tdh # TDT
      BY <1>2, <2>2, <3>1 DEF Wrap
    <3> QED
      BY <1>2, <1>5, <2>2, <3>2 DEF CanSend
  <2> QED
    BY <2>1, <2>2 DEF NeverStranded
<1> QED
  BY <1>6, <1>7

\* For rings of any size, on either card: net_poll hands the frames over in the order of
\* their arrival, the wire carries what was queued in its order, and no frame stays behind
\* in a ring whose cursor has passed it (net_poll, e1000_send_frame, rtl_send_frame).
THEOREM RingCorrect == RingSpec => [](FramesInOrder /\ NeverStranded)
<1>1. RingSpec => []RingInv
  BY RingInitially, RingStep, PTL DEF RingSpec
<1> QED
  BY <1>1, RingInvMeans, PTL

\* net_poll and the send_frame of both cards: received frames are handled in
\* order and at most once, and accepted frames leave in order, each once.
THEOREM FramesInOrderAlways == RingSpec => []FramesInOrder
BY RingCorrect, PTL

\* The tail register net_poll writes back always leaves the card a descriptor,
\* and a card whose ring is not full sees every frame queued.
THEOREM NeverStrandedAlways == RingSpec => []NeverStranded
BY RingCorrect, PTL

--------------------------------------------------------------------------------
(* The ARP cache. *)

\* A cache whose every slot pairs an address with its own host, and in which no
\* address has two slots.
CacheWith(c) ==
  /\ c = [i \in Slots |-> c[i]]
  /\ \A i \in Slots : c[i] = [ip |-> c[i].ip, mac |-> c[i].ip]
  /\ \A i, j \in Slots : c[i].ip = c[j].ip /\ c[i].ip # Me => i = j

CacheInv == CacheWith(arp_cache) /\ victim \in Slots /\ AddressedRight

\* FirstSlot of a nonempty set of slots is its least member.
LEMMA FirstSlotFound ==
  ASSUME NEW S, S \subseteq Slots, S # {}
  PROVE  FirstSlot(S) \in S
<1> DEFINE R == OpToRel(<, Nat)
<1>1. IsWellFoundedOn(R, Nat)
  BY NatLessThanWellFounded
<1>2. \A x, y \in Nat : y < x => <<y, x>> \in R
  BY Zenon DEF OpToRel
<1>3. S \subseteq Nat
  BY QueryAssumption DEF Slots
<1> HIDE DEF R
<1>4. PICK m \in S : \A y \in S : ~ (<<y, m>> \in R)
  BY <1>1, <1>3, WFMin
<1>5. ASSUME NEW y \in S PROVE m <= y
  <2>1. y \in Nat /\ m \in Nat
    BY <1>3
  <2>2. ~(y < m)
    BY <1>2, <1>4, <2>1
  <2> QED
    BY <2>1, <2>2
<1> QED
  BY <1>5 DEF FirstSlot

\* A slot set to an address and its host.
LEMMA CacheSet ==
  ASSUME CacheInv, NEW i \in Slots, NEW ip, ip # Me,
         \A j \in Slots : arp_cache[j].ip = ip => j = i,
         NEW c, c = [arp_cache EXCEPT ![i] = [ip |-> ip, mac |-> ip]]
  PROVE  CacheWith(c)
<1>1. c = [j \in Slots |-> c[j]] /\ c[i] = [ip |-> ip, mac |-> ip] /\ \A j \in Slots \ {i} : c[j] = arp_cache[j]
  BY DEF CacheInv, CacheWith
<1>2. c[i].ip = ip
  BY <1>1
<1>3. \A j \in Slots : c[j] = [ip |-> c[j].ip, mac |-> c[j].ip]
  BY <1>1, <1>2 DEF CacheInv, CacheWith
<1>4. \A j, k \in Slots : arp_cache[j].ip = arp_cache[k].ip /\ arp_cache[j].ip # Me => j = k
  BY DEF CacheInv, CacheWith, AddressedRight
<1>5. \A j, k \in Slots : c[j].ip = c[k].ip /\ c[j].ip # Me => j = k
  BY <1>1, <1>2, <1>4
<1> QED
  BY <1>1, <1>3, <1>5 DEF CacheWith

\* arp_cache_add, whether it refreshes, fills or evicts, keeps one slot to an address.
LEMMA ArpCacheAdd ==
  ASSUME CacheInv, NEW ip, ip # Me, arp_cache_add(ip, ip)
  PROVE  CacheWith(arp_cache') /\ victim' \in Slots
<1>1. CASE Holding(ip) # {}
  <2> DEFINE i == FirstSlot(Holding(ip))
  <2>1. i \in Slots /\ arp_cache[i].ip = ip
    BY <1>1, FirstSlotFound DEF Holding
  <2>2. arp_cache[i] = [ip |-> ip, mac |-> ip]
    BY <2>1 DEF CacheInv, CacheWith
  <2>3. arp_cache' = [arp_cache EXCEPT ![i].mac = ip] /\ victim' = victim
    BY <1>1 DEF arp_cache_add
  <2> HIDE DEF i
  <2>4. arp_cache' = arp_cache
    <3>1. \A j \in Slots : arp_cache'[j] = arp_cache[j]
      BY <2>1, <2>2, <2>3 DEF CacheInv, CacheWith
    <3>2. /\ arp_cache = [j \in Slots |-> arp_cache[j]]
          /\ arp_cache' = [j \in Slots |-> arp_cache'[j]]
      BY <2>1, <2>3 DEF CacheInv, CacheWith
    <3> QED
      BY <3>1, <3>2
  <2> QED
    BY <2>3, <2>4 DEF CacheInv, CacheWith
<1>2. CASE Holding(ip) = {} /\ Holding(Me) # {}
  <2> DEFINE i == FirstSlot(Holding(Me))
  <2>1. i \in Slots
    BY <1>2, FirstSlotFound DEF Holding
  <2>2. arp_cache' = [arp_cache EXCEPT ![i] = [ip |-> ip, mac |-> ip]] /\ victim' = victim
    BY <1>2 DEF arp_cache_add
  <2> HIDE DEF i
  <2>3. \A j \in Slots : arp_cache[j].ip = ip => j = i
    BY <1>2 DEF Holding
  <2>4. CacheWith(arp_cache')
    BY <2>1, <2>2, <2>3, CacheSet
  <2>5. victim' \in Slots
    BY <2>2 DEF CacheInv, CacheWith
  <2> QED
    BY <2>4, <2>5
<1>3. CASE Holding(ip) = {} /\ Holding(Me) = {}
  <2>1. /\ arp_cache' = [arp_cache EXCEPT ![victim] = [ip |-> ip, mac |-> ip]]
        /\ victim' = 1 + (victim % ARP_CACHE_SIZE)
    BY <1>3 DEF arp_cache_add
  <2>2. \A j \in Slots : arp_cache[j].ip = ip => j = victim
    BY <1>3 DEF Holding
  <2>3. victim' \in Slots /\ victim \in Slots
    <3>1. victim \in Slots /\ victim \in Nat /\ ARP_CACHE_SIZE \in Nat \ {0}
      BY QueryAssumption DEF Slots, CacheInv
    <3>2. victim % ARP_CACHE_SIZE \in 0..(ARP_CACHE_SIZE - 1)
      BY <3>1
    <3> QED
      BY <2>1, <3>1, <3>2 DEF Slots
  <2> QED
    BY <2>1, <2>2, <2>3, CacheSet
<1> QED
  BY <1>1, <1>2, <1>3

\* The MAC address found in the cache is the destination's.
LEMMA FoundRight ==
  ASSUME CacheInv, NEW ip, Holding(ip) # {}
  PROVE  arp_cache[FirstSlot(Holding(ip))].mac = ip
<1> DEFINE i == FirstSlot(Holding(ip))
<1>1. i \in Slots /\ arp_cache[i].ip = ip
  BY FirstSlotFound DEF Holding
<1>2. arp_cache[i] = [ip |-> arp_cache[i].ip, mac |-> arp_cache[i].ip]
  BY <1>1 DEF CacheInv, CacheWith
<1> QED
  BY <1>1, <1>2

\* An empty cache and an empty link.
THEOREM CacheInitially == QryInit => CacheInv
<1> SUFFICES ASSUME QryInit PROVE CacheInv
  OBVIOUS
<1>1. \A i \in Slots : arp_cache[i] = [ip |-> Me, mac |-> Me]
  BY DEF QryInit, Unused
<1>2. arp_cache = [i \in Slots |-> arp_cache[i]] /\ victim \in Slots /\ link = {}
  BY QueryAssumption DEF QryInit, Slots
<1>3. \A i \in Slots : arp_cache[i].ip = Me
  BY <1>1
<1> QED
  BY <1>1, <1>2, <1>3 DEF CacheInv, CacheWith, AddressedRight

\* The cache, and the frames sent by it, through every step.
THEOREM CacheStep == CacheInv /\ [QryNext]_qryvars => CacheInv'
<1> SUFFICES ASSUME CacheInv, [QryNext]_qryvars PROVE CacheInv'
  OBVIOUS
<1> DEFINE Sent(f) == f.from = Me => f.mac \in {f.to, "all"}
<1>1. \A f \in link : Sent(f)
  BY DEF CacheInv, CacheWith, AddressedRight
<1>2. ASSUME UNCHANGED <<arp_cache, victim>>, \A f \in link' : Sent(f)
      PROVE  CacheInv'
  BY <1>2 DEF CacheInv, CacheWith, AddressedRight
<1>3. ASSUME NEW what, NEW whom, begin(what, whom)
      PROVE  CacheInv'
  <2> DEFINE to == Destination(what, whom)
  <2>1. CASE Holding(to) # {}
    <3>1. link' = link \cup {Frame(what, Me, to, arp_cache[FirstSlot(Holding(to))].mac, whom)}
      BY <1>3, <2>1 DEF begin, Question
    <3>2. link' = link \cup {Frame(what, Me, to, to, whom)}
      BY <2>1, <3>1, FoundRight
    <3>3. Sent(Frame(what, Me, to, to, whom))
      BY DEF Frame
    <3>4. UNCHANGED <<arp_cache, victim>>
      BY <1>3 DEF begin
    <3> QED
      BY <1>1, <1>2, <3>2, <3>3, <3>4
  <2>2. CASE Holding(to) = {}
    <3>1. link' = link \cup {Frame("arp_request", Me, to, "all", "")}
      BY <1>3, <2>2 DEF begin, net_send_arp_request
    <3>2. Sent(Frame("arp_request", Me, to, "all", ""))
      BY DEF Frame
    <3>3. UNCHANGED <<arp_cache, victim>>
      BY <1>3 DEF begin
    <3> QED
      BY <1>1, <1>2, <3>1, <3>2, <3>3
  <2> QED
    BY <2>1, <2>2
<1>4. CASE net_resolve_mac
  <2> DEFINE to == Destination(asking.what, asking.whom)
  <2>1. /\ Holding(to) # {} /\ UNCHANGED <<arp_cache, victim>>
        /\ link' = link \cup {Frame(asking.what, Me, to, arp_cache[FirstSlot(Holding(to))].mac, asking.whom)}
    BY <1>4 DEF net_resolve_mac, Question
  <2>2. link' = link \cup {Frame(asking.what, Me, to, to, asking.whom)}
    BY <2>1, FoundRight
  <2>3. Sent(Frame(asking.what, Me, to, to, asking.whom))
    BY DEF Frame
  <2> QED
    BY <1>1, <1>2, <2>1, <2>2, <2>3
<1>5. ASSUME NEW f \in link, net_handle_packet(f)
      PROVE  CacheInv'
  <2>1. f.from # Me /\ arp_cache_add(f.from, f.from)
    BY <1>5 DEF net_handle_packet, net_handle_arp, net_handle_icmp, dns_udp_handler
  <2>2. \/ link' = link
        \/ link' = link \cup {Frame("arp_reply", Me, f.from, f.from, "")}
        \/ link' = link \cup {Frame("pong", Me, f.from, f.from, f.body)}
    BY <1>5 DEF net_handle_packet, net_handle_arp, net_handle_icmp, dns_udp_handler
  <2>3. Sent(Frame("arp_reply", Me, f.from, f.from, "")) /\ Sent(Frame("pong", Me, f.from, f.from, f.body))
    BY DEF Frame
  <2>4. \A g \in link' : Sent(g)
    BY <1>1, <2>2, <2>3
  <2>5. CacheWith(arp_cache') /\ victim' \in Slots
    BY <2>1, ArpCacheAdd
  <2> QED
    BY <2>4, <2>5 DEF CacheInv, CacheWith, AddressedRight, Slots
<1>6. ASSUME NEW f \in link, host_answers(f)
      PROVE  CacheInv'
  <2>1. \E kind, body : link' \subseteq link \cup {Frame(kind, f.to, Me, Me, body)}
    <3>1. CASE f.kind = "arp_request"
      BY <1>6, <3>1 DEF host_answers
    <3>2. CASE f.kind # "arp_request" /\ f.kind = "ping" /\ f.mac = f.to
      BY <1>6, <3>2 DEF host_answers
    <3>3. CASE f.kind # "arp_request" /\ f.kind = "query" /\ f.mac = f.to
      BY <1>6, <3>3 DEF host_answers
    <3>4. CASE f.kind # "arp_request" /\ ~(f.kind \in {"ping", "query"} /\ f.mac = f.to)
      BY <1>6, <3>4 DEF host_answers
    <3> QED
      BY <3>1, <3>2, <3>3, <3>4
  <2>2. \A kind, body : Sent(Frame(kind, f.to, Me, Me, body))
    BY DEF Frame
  <2>3. \A g \in link' : Sent(g)
    BY <1>1, <2>1, <2>2
  <2> QED
    BY <1>2, <1>6, <2>3 DEF host_answers
<1>7. ASSUME NEW h \in Askers, host_asks(h)
      PROVE  CacheInv'
  <2>1. h # Me
    BY QueryAssumption
  <2>2. Sent(Frame("arp_request", h, Me, "all", "")) /\ Sent(Frame("ping", h, Me, Me, h))
    BY <2>1 DEF Frame
  <2>3. \A g \in link' : Sent(g)
    BY <1>1, <1>7, <2>2 DEF host_asks
  <2> QED
    BY <1>2, <1>7, <2>3 DEF host_asks
<1>8. CASE query_returns \/ query_timeout \/ UNCHANGED qryvars
  BY <1>1, <1>2, <1>8 DEF query_returns, query_timeout, qryvars
<1> QED
  BY <1>3, <1>4, <1>5, <1>6, <1>7, <1>8 DEF QryNext, net_ping, net_dns_resolve

\* For a cache of any size and any hosts: no address has two slots of the ARP cache, and
\* every frame that goes to one host carries the MAC address of that host (net_resolve_mac).
THEOREM AddressedRightAlways == QrySpec => []AddressedRight
<1>1. CacheInv => AddressedRight
  BY DEF CacheInv, CacheWith
<1> QED
  BY <1>1, CacheInitially, CacheStep, PTL DEF QrySpec
(* The receive ring of the Wi-Fi card. *)

\* The write index is one slot behind the read index, and what the card knows of
\* it is rounded down.
RxBehind ==
  /\ rx_read_index \in Ring
  /\ rx_write_index = IF rx_read_index = 0 THEN IWL_RX_QUEUE_SIZE - 1 ELSE rx_read_index - 1
  /\ rx_write_actual = Published(rx_write_index)

\* Rounding down stays at or below the index, and above 0 from RX_PUBLISH on.
LEMMA PublishedBounds ==
  ASSUME NEW i \in Nat
  PROVE  /\ Published(i) \in Int /\ Published(i) <= i
         /\ i >= RX_PUBLISH => Published(i) > 0
<1>1. i % RX_PUBLISH \in 0 .. RX_PUBLISH - 1
  BY RxAssumption
<1>2. i % RX_PUBLISH <= i
  BY RxAssumption
<1> QED
  BY <1>1, RxAssumption DEF Published

\* With one slot kept empty and more buffers than one publication hands over,
\* the index the card may fill up to is not the one the driver reads at.
LEMMA BehindNeverStarves == RxBehind => RxNeverStarved
<1> SUFFICES ASSUME RxBehind PROVE rx_read_index # rx_write_actual
  BY DEF RxNeverStarved
<1>1. CASE rx_read_index = 0
  <2>1. rx_write_index = IWL_RX_QUEUE_SIZE - 1 /\ rx_write_index \in Nat /\ rx_write_index >= RX_PUBLISH
    BY <1>1, RxAssumption DEF RxBehind
  <2> QED
    BY <1>1, <2>1, PublishedBounds DEF RxBehind
<1>2. CASE rx_read_index # 0
  <2>1. rx_read_index \in Nat /\ rx_write_index = rx_read_index - 1 /\ rx_write_index \in Nat
    BY <1>2, RxAssumption DEF RxBehind, Ring
  <2> QED
    BY <2>1, PublishedBounds DEF RxBehind
<1> QED
  BY <1>1, <1>2

\* The successor of a slot of the ring, without the remainder.
LEMMA SuccIs ==
  ASSUME NEW i \in Ring
  PROVE  Succ(i) = IF i = IWL_RX_QUEUE_SIZE - 1 THEN 0 ELSE i + 1
BY RxAssumption DEF Succ, Ring

\* recycle_rx_buffer moves the read index and the write index together.
LEMMA RecycleKeeps == RxBehind /\ recycle_rx_buffer => RxBehind'
<1> SUFFICES ASSUME RxBehind, recycle_rx_buffer PROVE RxBehind'
  OBVIOUS
<1>1. /\ rx_read_index \in Ring /\ rx_write_index \in Ring
      /\ rx_write_index = IF rx_read_index = 0 THEN IWL_RX_QUEUE_SIZE - 1 ELSE rx_read_index - 1
  BY RxAssumption DEF RxBehind, Ring
<1>2. /\ rx_write_index' = Succ(rx_write_index) /\ rx_read_index' = Succ(rx_read_index)
      /\ rx_write_actual' = Published(rx_write_index')
  BY DEF recycle_rx_buffer
<1>3. /\ rx_write_index' = IF rx_write_index = IWL_RX_QUEUE_SIZE - 1 THEN 0 ELSE rx_write_index + 1
      /\ rx_read_index' = IF rx_read_index = IWL_RX_QUEUE_SIZE - 1 THEN 0 ELSE rx_read_index + 1
  BY <1>1, <1>2, SuccIs
<1>4. /\ rx_read_index' \in Ring
      /\ rx_write_index' = IF rx_read_index' = 0 THEN IWL_RX_QUEUE_SIZE - 1 ELSE rx_read_index' - 1
  BY <1>1, <1>3, RxAssumption DEF Ring
<1> QED
  BY <1>2, <1>4 DEF RxBehind

\* program_rx_queue gives the card all but one of the buffers.
THEOREM WifiRingInitially == IwlInit => RxBehind
<1>1. IwlInit => /\ rx_read_index = 0 /\ rx_write_index = IWL_RX_QUEUE_SIZE - 1
                 /\ rx_write_actual = Published(IWL_RX_QUEUE_SIZE - 1)
  BY Zenon DEF IwlInit
<1> QED
  BY <1>1, RxAssumption DEF RxBehind, Ring

\* Every step of the driver and of the card leaves the ring alone, recycles one
\* buffer or programs the ring anew (restart_transport).
THEOREM WifiRingStep == RxBehind /\ [IwlNext]_iwlvars => RxBehind'
<1> SUFFICES ASSUME RxBehind, [IwlNext]_iwlvars PROVE RxBehind'
  OBVIOUS
<1> DEFINE Same == UNCHANGED <<rx_read_index, rx_write_index, rx_write_actual>>
<1>1. Same => RxBehind'
  BY DEF RxBehind, Published, Ring
<1>2. FreshRing => RxBehind'
  <2>1. FreshRing => /\ rx_read_index' = 0 /\ rx_write_index' = IWL_RX_QUEUE_SIZE - 1
                     /\ rx_write_actual' = Published(IWL_RX_QUEUE_SIZE - 1)
    BY Zenon DEF FreshRing
  <2> QED
    BY <2>1, RxAssumption DEF RxBehind, Ring
<1>3. ASSUME IwlNext
      PROVE  Same \/ FreshRing \/ recycle_rx_buffer
  <2> USE DEF rxringvars, hwvars
  <2>1. CASE upload_firmware_image
    BY <2>1, Zenon DEF upload_firmware_image
  <2>2. CASE wait_for_firmware_alive
    BY <2>2, Zenon DEF wait_for_firmware_alive
  <2>3. CASE activate_command_queue
    BY <2>3, Zenon DEF activate_command_queue
  <2>4. CASE probe_command
    BY <2>4, Zenon DEF probe_command
  <2>5. ASSUME NEW op \in RuntimeCommands, runtime_command(op)
        PROVE  Same
    BY <2>5, Zenon DEF runtime_command
  <2>6. CASE inspect_command_response
    BY <2>6, Zenon DEF inspect_command_response
  <2>7. CASE command_timeout
    BY <2>7, Zenon DEF command_timeout
  <2>8. CASE wait_for_init_calibration
    BY <2>8, Zenon DEF wait_for_init_calibration
  <2>9. CASE restart_transport
    BY <2>9, Zenon DEF restart_transport
  <2>10. CASE send_wifi_frame
    BY <2>10, Zenon DEF send_wifi_frame
  <2>11. CASE iwlwifi_poll_buffer
    BY <2>11, Zenon DEF iwlwifi_poll_buffer
  <2>12. CASE fw_answer
    BY <2>12, Zenon DEF fw_answer
  <2>13. CASE fw_transmit
    BY <2>13, Zenon DEF fw_transmit
  <2>14. CASE fw_notify
    BY <2>14, Zenon DEF fw_notify
  <2>15. CASE fw_close
    BY <2>15, Zenon DEF fw_close
  <2> QED
    BY <1>3, <2>1, <2>2, <2>3, <2>4, <2>5, <2>6, <2>7, <2>8, <2>9, <2>10, <2>11, <2>12, <2>13,
       <2>14, <2>15, Zenon DEF IwlNext
<1>4. CASE UNCHANGED iwlvars
  BY <1>1, <1>4, Zenon DEF iwlvars, rxringvars
<1> QED
  BY <1>1, <1>2, <1>3, <1>4, RecycleKeeps, Zenon

\* A driver that has read every buffer has always left the card one to fill,
\* for every ring larger than what one publication of the write index covers
\* (recycle_rx_buffer, program_rx_queue).
THEOREM RxNeverStarvedAlways == IwlSpec => []RxNeverStarved
<1>1. RxBehind /\ [IwlNext]_iwlvars => RxBehind'
  BY WifiRingStep
<1> QED
  BY <1>1, WifiRingInitially, BehindNeverStarves, PTL DEF IwlSpec

================================================================================
