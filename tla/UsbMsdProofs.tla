------------------------------ MODULE UsbMsdProofs ------------------------------
(* UHCI's data toggles follow those of the device, for blocks of any number of *)
(* packets, any number of ports and commands, and any faults that do not let a *)
(* packet through behind the driver's back; and, with those faults too, a      *)
(* command that reports success was carried out by the device.                 *)
EXTENDS UsbMsd, SequenceTheorems, TLAPS

\* The packets the driver has moved on pipe x and not yet added to its toggle.
Uncounted(x) == IF Pipe = x THEN moved ELSE 0

\* Within a stage the device is ahead of the driver by the packets moved so far.
ToggleInv ==
  /\ stage \in {"idle", "cbw", "data", "csw"}
  /\ moved \in Nat
  /\ stage = "idle" => moved = 0
  /\ toggle \in [{"in", "out"} -> {0, 1}]
  /\ dev = [fifo |-> dev.fifo, outLeft |-> dev.outLeft, tag |-> dev.tag,
            in |-> dev.in, out |-> dev.out, halted |-> dev.halted]
  /\ drv = "uhci" /\ ~late =>
       \A x \in {"in", "out"} : dev[x] = (toggle[x] + Uncounted(x)) % 2

\* One more packet flips the toggle.
LEMMA Flip == \A n \in Nat : n % 2 \in {0, 1} /\ (n + 1) % 2 = 1 - (n % 2)
OBVIOUS

\* A toggle is its own remainder, and no packet leaves it.
LEMMA Bit == \A b \in {0, 1} : b % 2 = b /\ (b + 0) % 2 = b
OBVIOUS

\* A stage uses one of the two bulk pipes.
LEMMA PipeType == Pipe \in {"in", "out"}
BY DEF Pipe

\* The end of a command leaves nothing uncounted.
LEMMA EndCmdEffect ==
  ASSUME NEW ok, NEW wasShort, EndCmd(ok, wasShort)
  PROVE  moved' = 0 /\ stage' \in {"idle", "cbw"}
BY DEF EndCmd, StartCmd

\* The end of a stage counts its packets into the toggle of its pipe.
LEMMA EndStageEffect ==
  ASSUME ToggleInv, stage # "idle", NEW n, NEW p, EndStage(n, p)
  PROVE  /\ moved' = 0 /\ stage' \in {"idle", "cbw", "data", "csw"}
         /\ toggle' = [toggle EXCEPT ![Pipe] = (@ + n) % 2]
<1>1. CASE stage = "cbw"
  BY <1>1 DEF EndStage
<1>2. CASE stage = "data"
  BY <1>2 DEF EndStage
<1>3. CASE stage = "csw"
  BY <1>3, EndCmdEffect DEF EndStage
<1> QED
  BY <1>1, <1>2, <1>3 DEF ToggleInv

\* What one packet more changes of the toggles and of the count.
LEMMA PacketCounts ==
  ASSUME ToggleInv, stage # "idle", NEW p, Packet(p)
  PROVE  /\ moved' \in Nat /\ (stage' = "idle" => moved' = 0)
         /\ stage' \in {"idle", "cbw", "data", "csw"}
         /\ toggle' \in [{"in", "out"} -> {0, 1}]
         /\ \A x \in {"in", "out"} :
              (toggle'[x] + Uncounted(x)') % 2 =
                IF x = Pipe THEN (toggle[x] + moved + 1) % 2 ELSE toggle[x]
<1> USE PipeType
<1>0. /\ toggle \in [{"in", "out"} -> {0, 1}] /\ moved \in Nat
      /\ toggle[Pipe] + moved \in Nat /\ toggle[Pipe] + moved + 1 \in Nat
  BY DEF ToggleInv
<1>1. CASE EndStage(moved + 1, p)
  <2>1. /\ moved' = 0 /\ stage' \in {"idle", "cbw", "data", "csw"}
        /\ toggle' = [toggle EXCEPT ![Pipe] = (@ + (moved + 1)) % 2]
    BY <1>1, EndStageEffect
  <2>2. \A x \in {"in", "out"} : Uncounted(x)' = 0
    BY <2>1 DEF Uncounted
  <2>3. (toggle[Pipe] + (moved + 1)) % 2 = (toggle[Pipe] + moved + 1) % 2
    BY <1>0
  <2>4. (toggle[Pipe] + moved + 1) % 2 \in {0, 1}
    BY <1>0, Flip
  <2>5. toggle' \in [{"in", "out"} -> {0, 1}]
    BY <1>0, <2>1, <2>3, <2>4
  <2>6. \A x \in {"in", "out"} :
          toggle'[x] = IF x = Pipe THEN (toggle[x] + moved + 1) % 2 ELSE toggle[x]
    BY <1>0, <2>1, <2>3
  <2> QED
    BY <2>1, <2>2, <2>5, <2>6, Bit
<1>2. CASE moved' = moved + 1 /\ UNCHANGED <<job, stage, cmd, toggle, short, result>>
  <2>1. Pipe' = Pipe
    BY <1>2 DEF Pipe
  <2>2. \A x \in {"in", "out"} : Uncounted(x)' = IF x = Pipe THEN moved + 1 ELSE 0
    BY <1>2, <2>1 DEF Uncounted
  <2> QED
    BY <1>0, <1>2, <2>2, Bit DEF ToggleInv
<1> QED
  BY <1>1, <1>2 DEF Packet

\* A failed transfer adds what did move to the toggle (UHCI).
LEMMA FailCounts ==
  ASSUME ToggleInv, stage # "idle", FailStage
  PROVE  /\ moved' = 0 /\ stage' \in {"idle", "cbw", "data", "csw"}
         /\ toggle' \in [{"in", "out"} -> {0, 1}]
         /\ drv = "uhci" => \A x \in {"in", "out"} :
              (toggle'[x] + Uncounted(x)') % 2 = (toggle[x] + Uncounted(x)) % 2
<1> USE PipeType
<1>0. toggle \in [{"in", "out"} -> {0, 1}] /\ moved \in Nat /\ toggle[Pipe] + moved \in Nat
  BY DEF ToggleInv
<1>1. moved' = 0 /\ stage' \in {"idle", "cbw"}
  BY EndCmdEffect DEF FailStage
<1>2. \A x \in {"in", "out"} : Uncounted(x)' = 0
  BY <1>1 DEF Uncounted
<1>3. Expected \in {0, 1}
  BY <1>0, Flip DEF Expected
<1>4. toggle' \in [{"in", "out"} -> {0, 1}]
  BY <1>0, <1>3 DEF FailStage
<1>5. ASSUME drv = "uhci", NEW x \in {"in", "out"}
      PROVE  toggle'[x] = (toggle[x] + Uncounted(x)) % 2
  <2>1. CASE x = Pipe
    BY <1>0, <1>5, <2>1 DEF FailStage, Expected, Uncounted
  <2>2. CASE x # Pipe
    BY <1>0, <1>5, <2>2, Bit DEF FailStage, Uncounted
  <2> QED BY <2>1, <2>2
<1> QED
  BY <1>1, <1>2, <1>4, <1>5, Bit

\* SET_CONFIGURATION starts both toggles at 0.
LEMMA ToggleInit == UsbInit => ToggleInv
BY Bit DEF UsbInit, ToggleInv, Uncounted, Pipe

\* The device flips the toggle of an OUT packet that carries the one it expects.
LEMMA DeviceTakesEffect ==
  ASSUME ToggleInv, NEW outcome, DeviceTakes(outcome), Fresh
  PROVE  /\ dev'.out = 1 - dev.out /\ dev'.in = dev.in
         /\ dev' = [fifo |-> dev'.fifo, outLeft |-> dev'.outLeft, tag |-> dev'.tag,
                     in |-> dev'.in, out |-> dev'.out, halted |-> dev'.halted]
<1> DEFINE d == [dev EXCEPT !.out = 1 - @]
<1>1. d = [fifo |-> dev.fifo, outLeft |-> dev.outLeft, tag |-> dev.tag,
           in |-> dev.in, out |-> 1 - dev.out, halted |-> dev.halted]
  BY DEF ToggleInv
<1>2. \E f, l, t, h : dev' = [d EXCEPT !.tag = t, !.fifo = f, !.halted = h, !.outLeft = l]
  <2>1. CASE stage = "cbw"
    <3>1. dev' = AcceptCbw(d, outcome)
      BY <2>1 DEF DeviceTakes
    <3> HIDE DEF d
    <3>2. PICK f, l : AcceptCbw(d, outcome) =
            [d EXCEPT !.tag = cmd.tag, !.fifo = f, !.halted = (outcome = "stall"),
                      !.outLeft = l]
      BY DEF AcceptCbw
    <3> DEFINE h == (outcome = "stall")
    <3>3. dev' = [d EXCEPT !.tag = cmd.tag, !.fifo = f, !.halted = h, !.outLeft = l]
      BY <3>1, <3>2
    <3> HIDE DEF h
    <3> QED BY <3>3, Zenon
  <2>2. CASE stage # "cbw"
    <3> DEFINE l == d.outLeft - 1
               f == IF dev.outLeft = 1 THEN Append(d.fifo, Csw(dev.tag, TRUE)) ELSE d.fifo
    <3>1. dev' = [d EXCEPT !.outLeft = l, !.fifo = f]
      BY <2>2, Zenon DEF DeviceTakes
    <3> HIDE DEF l, f
    <3>2. dev' = [d EXCEPT !.tag = dev.tag, !.fifo = f, !.halted = dev.halted, !.outLeft = l]
      BY <1>1, <3>1
    <3> HIDE DEF d
    <3> QED BY <3>2
  <2> QED BY <2>1, <2>2
<1> HIDE DEF d
<1> QED
  BY <1>1, <1>2

\* Every transaction and every return of the driver keeps the toggles in step.
LEMMA ToggleStep == ToggleInv /\ [UsbNext]_usbvars => ToggleInv'
<1> SUFFICES ASSUME ToggleInv, [UsbNext]_usbvars PROVE ToggleInv'
  OBVIOUS
<1>1. ASSUME NEW p \in Ports, enumerate_port(p) PROVE ToggleInv'
  BY <1>1 DEF enumerate_port, ToggleInv, Uncounted, Pipe
<1>2. ASSUME NEW kind, block_request(kind) PROVE ToggleInv'
  <2>1. stage = "idle" /\ moved' = 0 /\ stage' = "cbw" /\ UNCHANGED <<drv, toggle, dev, late>>
    BY <1>2 DEF block_request, hostIdle, StartCmd
  <2> QED
    BY <2>1 DEF ToggleInv, Uncounted
<1>3. ASSUME NEW outcome, out_packet(outcome) PROVE ToggleInv'
  <2>1. /\ stage # "idle" /\ Pipe = "out" /\ DeviceTakes(outcome) /\ Packet(Csw(0, TRUE))
        /\ UNCHANGED <<drv, late>>
    BY <1>3 DEF out_packet
  <2>2. /\ dev' = [fifo |-> dev'.fifo, outLeft |-> dev'.outLeft, tag |-> dev'.tag,
                    in |-> dev'.in, out |-> dev'.out, halted |-> dev'.halted]
        /\ Fresh => dev'.out = 1 - dev.out /\ dev'.in = dev.in
    <3>1. CASE Fresh
      BY <2>1, <3>1, DeviceTakesEffect
    <3>2. CASE ~Fresh
      BY <2>1, <3>2 DEF DeviceTakes, ToggleInv
    <3> QED BY <3>1, <3>2
  <2>3. ASSUME drv = "uhci", ~late, NEW x \in {"in", "out"}
        PROVE  dev'[x] = (toggle'[x] + Uncounted(x)') % 2
    <3>1. dev.out = (toggle["out"] + moved) % 2 /\ dev.in = (toggle["in"] + 0) % 2
      BY <2>1, <2>3 DEF ToggleInv, Uncounted
    <3>2. Fresh
      BY <2>1, <3>1 DEF Fresh, Expected
    <3>3. toggle["out"] + moved \in Nat /\ toggle["in"] \in {0, 1}
      BY DEF ToggleInv
    <3>4. (toggle["out"] + moved + 1) % 2 = 1 - dev.out /\ toggle["in"] = dev.in
      BY <3>1, <3>3, Flip, Bit
    <3> QED
      BY <2>1, <2>2, <3>2, <3>4, PacketCounts
  <2> QED
    BY <2>1, <2>2, <2>3, PacketCounts DEF ToggleInv
<1>4. CASE in_packet
  <2>1. /\ stage # "idle" /\ Pipe = "in" /\ UNCHANGED <<drv, late>>
        /\ dev' = [dev EXCEPT !.fifo = Tail(@), !.in = 1 - @]
    BY <1>4 DEF in_packet
  <2>2. /\ dev' = [fifo |-> dev'.fifo, outLeft |-> dev'.outLeft, tag |-> dev'.tag,
                    in |-> dev'.in, out |-> dev'.out, halted |-> dev'.halted]
        /\ dev'.in = 1 - dev.in /\ dev'.out = dev.out
    BY <2>1 DEF ToggleInv
  <2>3. CASE dev.in = Expected
    <3>1. Packet(Head(dev.fifo))
      BY <1>4, <2>3 DEF in_packet
    <3>2. ASSUME drv = "uhci", ~late, NEW x \in {"in", "out"}
          PROVE  dev'[x] = (toggle'[x] + Uncounted(x)') % 2
      <4>1. dev.in = (toggle["in"] + moved) % 2 /\ dev.out = (toggle["out"] + 0) % 2
        BY <2>1, <3>2 DEF ToggleInv, Uncounted
      <4>2. toggle["in"] + moved \in Nat /\ toggle["out"] \in {0, 1}
        BY DEF ToggleInv
      <4>3. (toggle["in"] + moved + 1) % 2 = 1 - dev.in /\ toggle["out"] = dev.out
        BY <4>1, <4>2, Flip, Bit
      <4> QED
        BY <2>1, <2>2, <3>1, <4>3, PacketCounts
    <3> QED
      BY <2>1, <2>2, <3>1, <3>2, PacketCounts DEF ToggleInv
  <2>4. CASE dev.in # Expected
    <3>1. ~(drv = "uhci" /\ ~late)
      BY <2>1, <2>4 DEF ToggleInv, Uncounted, Expected
    <3>2. UNCHANGED <<stage, moved, toggle>>
      BY <1>4, <2>4 DEF in_packet
    <3> QED
      BY <2>1, <2>2, <3>1, <3>2 DEF ToggleInv
  <2> QED BY <2>3, <2>4
<1>5. CASE bus_error
  <2>1. /\ stage # "idle" /\ FailStage /\ UNCHANGED <<drv, late>>
        /\ \E h : dev' = [dev EXCEPT !.halted = h]
    BY <1>5 DEF bus_error
  <2>2. /\ dev' = [fifo |-> dev'.fifo, outLeft |-> dev'.outLeft, tag |-> dev'.tag,
                    in |-> dev'.in, out |-> dev'.out, halted |-> dev'.halted]
        /\ dev'.in = dev.in /\ dev'.out = dev.out
    BY <2>1 DEF ToggleInv
  <2> QED
    BY <2>1, <2>2, FailCounts DEF ToggleInv
<1>6. CASE time_out
  BY <1>6, FailCounts DEF time_out, ToggleInv
<1>7. CASE late_packet
  <2>1. stage # "idle" /\ FailStage /\ late'
    BY <1>7 DEF late_packet
  <2>2. dev' = [fifo |-> dev'.fifo, outLeft |-> dev'.outLeft, tag |-> dev'.tag,
                in |-> dev'.in, out |-> dev'.out, halted |-> dev'.halted]
    <3>1. CASE dev' = [dev EXCEPT !.fifo = Tail(@), !.in = 1 - @]
      BY <3>1 DEF ToggleInv
    <3>2. CASE DeviceTakes("good") /\ Fresh
      BY <3>2, DeviceTakesEffect
    <3>3. CASE DeviceTakes("good") /\ ~Fresh
      BY <3>3 DEF DeviceTakes, ToggleInv
    <3> QED BY <1>7, <3>1, <3>2, <3>3 DEF late_packet
  <2> QED
    BY <2>1, <2>2, FailCounts DEF ToggleInv
<1>8. CASE not_started
  <2>1. PICK p : /\ drv = "ehci" /\ stage # "idle" /\ EndStage(Length, p)
                 /\ UNCHANGED <<drv, dev, late>>
    BY <1>8 DEF not_started
  <2>2. /\ moved' = 0 /\ stage' \in {"idle", "cbw", "data", "csw"}
        /\ toggle' = [toggle EXCEPT ![Pipe] = (@ + Length) % 2]
    BY <2>1, EndStageEffect
  <2>3. toggle \in [{"in", "out"} -> {0, 1}] /\ toggle[Pipe] + Length \in Nat
    BY UsbAssumption, PipeType DEF ToggleInv, Length
  <2>4. toggle' \in [{"in", "out"} -> {0, 1}]
    BY <2>2, <2>3, Flip
  <2> QED
    BY <2>1, <2>2, <2>4 DEF ToggleInv
<1>9. CASE UNCHANGED usbvars
  BY <1>9 DEF usbvars, ToggleInv, Uncounted, Pipe
<1> QED
  BY <1>1, <1>2, <1>3, <1>4, <1>5, <1>6, <1>7, <1>8, <1>9 DEF UsbNext

\* The inductive invariant of the toggles: it counts the packets of the stage under
\* way, which the driver adds to its toggle when the transfer ends or fails.
THEOREM ToggleInvariant == UsbSpec => []ToggleInv
BY ToggleInit, ToggleStep, PTL DEF UsbSpec

\* Between commands nothing is uncounted, so the toggles agree.
LEMMA InvAgree == ToggleInv => TogglesAgree
<1> SUFFICES ASSUME ToggleInv, drv = "uhci", stage = "idle", ~late
             PROVE  toggle.in = dev.in /\ toggle.out = dev.out
  BY DEF TogglesAgree
<1>1. \A x \in {"in", "out"} : Uncounted(x) = 0
  BY DEF ToggleInv, Uncounted
<1> QED
  BY <1>1, Bit DEF ToggleInv

\* Between commands UHCI's toggles are the device's, after short, stalled, timed
\* out and failed transfers alike (uhci_bulk_transfer's count of finished packets).
THEOREM TogglesStayTogether == UsbSpec => []TogglesAgree
BY ToggleInvariant, InvAgree, PTL

--------------------------------------------------------------------------------
(* A command that reports success was carried out: the block device over USB. *)

\* What a part of a block can hold: rubbish, the new value, or what was on the medium.
Vals == {Junk, NewValue} \cup {Old(k) : k \in 1 .. Parts}
\* What the device can send.
Packets == [csw : BOOLEAN, tag : Int, part : Int, val : Vals, short : BOOLEAN, ok : BOOLEAN]

\* The states of the device.
Devices == [fifo : Seq(Packets), outLeft : 0 .. Parts, tag : Nat,
            in : {0, 1}, out : {0, 1}, halted : BOOLEAN]

\* Packet i of what the device has to send says that the command was carried out.
Tells(i) == dev.fifo[i].csw /\ dev.fifo[i].ok /\ dev.fifo[i].tag = cmd.tag
\* The status that reports success on this command is among them.
Told == \E i \in 1 .. Len(dev.fifo) : Tells(i)

\* The device's answer to a READ: the block, then the status.  Consumed is how much
\* of it the driver has had, negative while older packets are still before it.
AnswerPart(k) == IF k <= Parts THEN Data(k, medium[k]) ELSE Csw(cmd.tag, TRUE)
Consumed == Parts + 1 - Len(dev.fifo)

\* The types of what a command works on.
BlockType ==
  /\ stage \in {"idle", "cbw", "data", "csw"}
  /\ cmd \in [kind : {"none", "read", "write", "ready"}, tag : Nat]
  /\ moved \in Nat /\ (stage \in {"idle", "cbw", "csw"} => moved = 0) /\ moved < Parts
  /\ toggle \in [{"in", "out"} -> {0, 1}]
  /\ buf \in [1 .. Parts -> Vals] /\ medium \in [1 .. Parts -> Vals]
  /\ dev \in Devices
  /\ stage = "data" => cmd.kind \in {"read", "write"}
  /\ stage # "idle" => result = "none"

\* Tags only grow: before a command is accepted nothing the device holds has its tag.
TagsInv ==
  /\ dev.tag <= cmd.tag /\ \A i \in 1 .. Len(dev.fifo) : dev.fifo[i].tag <= cmd.tag
  /\ stage = "cbw" => dev.tag < cmd.tag /\ \A i \in 1 .. Len(dev.fifo) : dev.fifo[i].tag < cmd.tag
  /\ stage \in {"data", "csw"} /\ Told => executed = cmd.tag

\* While the success of a READ is still to be told, the answer is whole from Consumed on,
\* and what was taken of it in step with the toggle is in the buffer.
ReadInv ==
  stage \in {"data", "csw"} /\ cmd.kind = "read" /\ Told =>
    /\ dev.outLeft = 0
    /\ \A i \in 1 .. Len(dev.fifo) :
         IF i + Consumed >= 1 THEN dev.fifo[i] = AnswerPart(i + Consumed)
                              ELSE dev.fifo[i].tag < cmd.tag
    /\ stage = "data" =>
         /\ moved >= 1 \/ Consumed >= 1 => dev.in = Expected
         /\ moved + 1 >= Consumed
         /\ moved = Consumed => \A k \in 1 .. moved : buf[k] = medium[k]
    /\ stage = "csw" => (Consumed = Parts /\ dev.in = Expected => buf = medium)

\* While a WRITE runs the buffer keeps the rest of the block, and what the device took
\* in step is on the medium; all of it once the device tells of success.
WriteInv ==
  stage # "idle" /\ cmd.kind = "write" =>
    /\ \A k \in 2 .. Parts : buf[k] = Old(k)
    /\ stage = "cbw" => dev.outLeft = 0
    /\ stage = "data" => ~Told
    /\ stage = "data" /\ dev.outLeft > 0 =>
         /\ dev.tag = cmd.tag /\ dev.out = Expected /\ moved = Parts - dev.outLeft
         /\ \A k \in 1 .. moved : medium[k] = Payload[k]
    /\ stage = "csw" /\ Told => medium = Payload

\* The inductive invariant of the block device over USB.
BlockInv == BlockType /\ TagsInv /\ ReadInv /\ WriteInv /\ BlocksExact

\* A step that leaves the command and the device alone (enumerate_port).
LEMMA BlockSame ==
  ASSUME BlockInv, UNCHANGED <<stage, cmd, moved, toggle, buf, dev, medium, executed, result>>
  PROVE  BlockInv'
<1>1. BlockType'
  BY DEF BlockInv, BlockType
<1>2. TagsInv'
  BY DEF BlockInv, TagsInv, Told, Tells
<1>3. ReadInv'
  BY DEF BlockInv, ReadInv, Told, Tells, Consumed, AnswerPart, Expected, Pipe
<1>4. WriteInv'
  BY DEF BlockInv, WriteInv, Told, Tells, Expected, Pipe, Payload
<1>5. BlocksExact'
  BY DEF BlockInv, BlocksExact, AnswerIsOwn, RestOfBlockKept, Payload
<1> QED
  BY <1>1, <1>2, <1>3, <1>4, <1>5 DEF BlockInv

\* The values a driver or a device can hold.
LEMMA ValsIn == Junk \in Vals /\ NewValue \in Vals /\ \A k \in 1 .. Parts : Old(k) \in Vals
BY DEF Vals

\* Data packets and status blocks are packets.
LEMMA PacketsIn ==
  /\ \A k \in Int, v \in Vals : Data(k, v) \in Packets
  /\ ShortData \in Packets
  /\ \A t \in Int : Csw(t, TRUE) \in Packets /\ Csw(t, FALSE) \in Packets
BY ValsIn DEF Packets, Data, ShortData, Csw

\* What BlockType says of the tags, for arithmetic.
LEMMA TagTypes ==
  ASSUME BlockType
  PROVE  /\ cmd.tag \in Nat /\ dev.tag \in Nat /\ dev.fifo \in Seq(Packets)
         /\ \A i \in 1 .. Len(dev.fifo) : dev.fifo[i] \in Packets /\ dev.fifo[i].tag \in Int
<1>1. cmd.tag \in Nat /\ dev.tag \in Nat /\ dev.fifo \in Seq(Packets)
  BY DEF BlockType, Devices
<1>2. \A i \in 1 .. Len(dev.fifo) : dev.fifo[i] \in Packets
  BY <1>1
<1>3. \A p \in Packets : p.tag \in Int
  BY DEF Packets
<1> QED
  BY <1>1, <1>2, <1>3

\* The invariant holds before the first command.
LEMMA BlockInit == UsbInit => BlockInv
<1> SUFFICES ASSUME UsbInit PROVE BlockInv
  OBVIOUS
<1>1. BlockType
  <2>1. <<>> \in Seq(Packets) /\ 0 \in 0 .. Parts /\ FALSE \in BOOLEAN
    BY UsbAssumption
  <2>2. dev \in Devices
    BY <2>1 DEF UsbInit, Devices
  <2>3. buf \in [1 .. Parts -> Vals] /\ medium \in [1 .. Parts -> Vals]
    BY ValsIn DEF UsbInit
  <2>4. /\ cmd \in [kind : {"none", "read", "write", "ready"}, tag : Nat]
        /\ toggle \in [{"in", "out"} -> {0, 1}]
    BY DEF UsbInit
  <2>5. stage = "idle" /\ moved = 0 /\ 0 < Parts
    BY UsbAssumption DEF UsbInit
  <2> QED
    BY <2>2, <2>3, <2>4, <2>5 DEF BlockType
<1>2. TagsInv
  BY DEF UsbInit, TagsInv
<1>3. ReadInv /\ WriteInv
  BY DEF UsbInit, ReadInv, WriteInv
<1>4. BlocksExact
  BY DEF UsbInit, BlocksExact, AnswerIsOwn, RestOfBlockKept
<1> QED
  BY <1>1, <1>2, <1>3, <1>4 DEF BlockInv

\* A request starts a command with a tag the device has never seen.
LEMMA BlockRequest ==
  ASSUME BlockInv, NEW kind \in {"capacity", "read", "modify", "ready"}, block_request(kind)
  PROVE  BlockInv'
<1>1. /\ stage = "idle" /\ stage' = "cbw" /\ moved' = 0 /\ result' = "none"
      /\ cmd'.kind \in {"read", "ready"} /\ cmd'.tag = cmd.tag + 1
      /\ cmd' = [kind |-> cmd'.kind, tag |-> cmd.tag + 1]
      /\ buf' = [k \in 1 .. Parts |-> Junk]
      /\ UNCHANGED <<toggle, dev, medium, executed>>
  BY DEF block_request, hostIdle, StartCmd
<1>2. BlockType'
  <2>1. cmd.tag \in Nat
    BY DEF BlockInv, BlockType
  <2>2. cmd' \in [kind : {"none", "read", "write", "ready"}, tag : Nat]
    BY <1>1, <2>1
  <2>3. buf' \in [1 .. Parts -> Vals]
    BY <1>1, ValsIn
  <2> QED
    BY <1>1, <2>2, <2>3, UsbAssumption DEF BlockInv, BlockType
<1>3. TagsInv'
  <2>1. cmd.tag \in Nat /\ dev.tag \in Nat /\ \A i \in 1 .. Len(dev.fifo) : dev.fifo[i].tag \in Int
    BY TagTypes DEF BlockInv
  <2> QED
    BY <1>1, <2>1 DEF BlockInv, TagsInv
<1>4. ReadInv' /\ WriteInv'
  BY <1>1 DEF ReadInv, WriteInv
<1>5. BlocksExact'
  BY <1>1 DEF BlockInv, BlocksExact, AnswerIsOwn, RestOfBlockKept
<1> QED
  BY <1>2, <1>3, <1>4, <1>5 DEF BlockInv

\* A command that fails leaves the job over, whatever the device still holds.
LEMMA BlockFails ==
  ASSUME BlockInv, stage' = "idle", moved' = 0, result' = "failed", UNCHANGED <<cmd, buf>>,
         toggle' \in [{"in", "out"} -> {0, 1}], dev' \in Devices, medium' \in [1 .. Parts -> Vals],
         dev'.tag <= cmd.tag, \A i \in 1 .. Len(dev'.fifo) : dev'.fifo[i].tag <= cmd.tag,
         RestOfBlockKept'
  PROVE  BlockInv'
<1>1. BlockType'
  BY UsbAssumption DEF BlockInv, BlockType
<1>2. TagsInv'
  BY DEF TagsInv
<1>3. ReadInv' /\ WriteInv'
  BY DEF ReadInv, WriteInv
<1>4. BlocksExact'
  BY DEF BlocksExact, AnswerIsOwn
<1> QED
  BY <1>1, <1>2, <1>3, <1>4 DEF BlockInv

\* A command block that did not reach the device, although the driver goes on.
LEMMA CbwLost ==
  ASSUME BlockInv, stage = "cbw", moved' = 0,
         stage' = IF cmd.kind \in {"read", "write"} THEN "data" ELSE "csw",
         UNCHANGED <<cmd, buf, dev, medium, executed, result>>,
         toggle' \in [{"in", "out"} -> {0, 1}]
  PROVE  BlockInv'
<1>1. BlockType'
  BY UsbAssumption DEF BlockInv, BlockType
<1>2. ~Told'
  <2>1. \A i \in 1 .. Len(dev.fifo) : dev.fifo[i].tag < cmd.tag
    BY DEF BlockInv, TagsInv
  <2>2. cmd.tag \in Nat
    BY DEF BlockInv, BlockType
  <2> QED
    BY <2>1, <2>2 DEF Told, Tells
<1>3. TagsInv'
  BY <1>2 DEF BlockInv, TagsInv
<1>4. ReadInv'
  BY <1>2 DEF ReadInv
<1>5. WriteInv'
  BY <1>2, UsbAssumption DEF BlockInv, WriteInv
<1>6. BlocksExact'
  BY DEF BlockInv, BlocksExact, AnswerIsOwn, RestOfBlockKept, BlockType
<1> QED
  BY <1>1, <1>3, <1>4, <1>5, <1>6 DEF BlockInv

\* What the device queues for a command block it takes.
AnswerTo(outcome) ==
  CASE outcome = "fail"  -> (IF cmd.kind = "read" THEN <<ShortData>> ELSE <<>>) \o <<Csw(cmd.tag, FALSE)>>
    [] outcome = "good" /\ cmd.kind = "read" ->
         [k \in 1 .. Parts |-> Data(k, medium[k])] \o <<Csw(cmd.tag, TRUE)>>
    [] outcome = "good" /\ cmd.kind = "ready" -> <<Csw(cmd.tag, TRUE)>>
    [] OTHER -> <<>>

\* What Devices says field by field.
LEMMA DeviceFields ==
  ASSUME dev \in Devices
  PROVE  /\ dev = [fifo |-> dev.fifo, outLeft |-> dev.outLeft, tag |-> dev.tag,
                   in |-> dev.in, out |-> dev.out, halted |-> dev.halted]
         /\ dev.fifo \in Seq(Packets) /\ dev.outLeft \in 0 .. Parts /\ dev.tag \in Nat
         /\ dev.in \in {0, 1} /\ dev.out \in {0, 1} /\ dev.halted \in BOOLEAN
BY DEF Devices

\* The device after it took a command block in step.
LEMMA AcceptedRecord ==
  ASSUME BlockType, NEW outcome, stage = "cbw", Fresh, DeviceTakes(outcome)
  PROVE  /\ dev' = [fifo |-> dev.fifo \o AnswerTo(outcome),
                    outLeft |-> IF outcome = "good" /\ cmd.kind = "write" THEN Parts ELSE 0,
                    tag |-> cmd.tag, in |-> dev.in, out |-> 1 - dev.out,
                    halted |-> (outcome = "stall")]
         /\ executed' = IF outcome = "good" /\ cmd.kind # "write" THEN cmd.tag ELSE executed
         /\ medium' = medium
<1> DEFINE d == [fifo |-> dev.fifo, outLeft |-> dev.outLeft, tag |-> dev.tag,
                 in |-> dev.in, out |-> 1 - dev.out, halted |-> dev.halted]
           L == IF outcome = "good" /\ cmd.kind = "write" THEN Parts ELSE 0
           H == (outcome = "stall")
           A == AnswerTo(outcome)
<1>1. [dev EXCEPT !.out = 1 - @] = d
  BY DeviceFields DEF BlockType
<1>2. dev' = AcceptCbw(d, outcome) /\ medium' = medium
      /\ executed' = IF outcome = "good" /\ cmd.kind # "write" THEN cmd.tag ELSE executed
  BY <1>1, Zenon DEF DeviceTakes
<1>3. AcceptCbw(d, outcome) = [d EXCEPT !.tag = cmd.tag, !.fifo = @ \o A, !.halted = H, !.outLeft = L]
  <2> HIDE DEF d
  <2> QED BY Zenon DEF AcceptCbw, AnswerTo
<1>4. [d EXCEPT !.tag = cmd.tag, !.fifo = @ \o A, !.halted = H, !.outLeft = L]
      = [fifo |-> dev.fifo \o A, outLeft |-> L, tag |-> cmd.tag, in |-> dev.in,
         out |-> 1 - dev.out, halted |-> H]
  <2> HIDE DEF L, H, A
  <2>1. /\ d = [fifo |-> d.fifo, outLeft |-> d.outLeft, tag |-> d.tag, in |-> d.in,
                out |-> d.out, halted |-> d.halted]
        /\ d.fifo = dev.fifo /\ d.in = dev.in /\ d.out = 1 - dev.out
    OBVIOUS
  <2> HIDE DEF d
  <2>2. [d EXCEPT !.tag = cmd.tag, !.fifo = @ \o A, !.halted = H, !.outLeft = L]
        = [fifo |-> d.fifo \o A, outLeft |-> L, tag |-> cmd.tag, in |-> d.in,
           out |-> d.out, halted |-> H]
    <3> DEFINE g == d.fifo \o A
               T == cmd.tag
               x == [d EXCEPT !.tag = T, !.fifo = g, !.halted = H, !.outLeft = L]
    <3> HIDE DEF g, T
    <3>1. x = [d EXCEPT !.tag = T, !.fifo = g, !.halted = H, !.outLeft = L]
      OBVIOUS
    <3> HIDE DEF x
    <3>2. /\ x.fifo = g /\ x.outLeft = L /\ x.tag = T /\ x.in = d.in /\ x.out = d.out
          /\ x.halted = H
          /\ x = [fifo |-> x.fifo, outLeft |-> x.outLeft, tag |-> x.tag, in |-> x.in,
                  out |-> x.out, halted |-> x.halted]
      BY <2>1, <3>1
    <3> QED
      BY <3>1, <3>2, Zenon DEF g, T
  <2>3. [fifo |-> d.fifo \o A, outLeft |-> L, tag |-> cmd.tag, in |-> d.in,
         out |-> d.out, halted |-> H]
        = [fifo |-> dev.fifo \o A, outLeft |-> L, tag |-> cmd.tag, in |-> dev.in,
           out |-> 1 - dev.out, halted |-> H]
    BY <2>1, Zenon
  <2> QED
    BY <2>2, <2>3, Zenon
<1> QED
  BY <1>2, <1>3, <1>4, Zenon

\* The answers are packets; only a good one, to a READ or TEST UNIT READY, tells.
Tell(p) == p.csw /\ p.ok

\* The answer to a command: packets with its tag, of success only when it was carried out.
LEMMA AnswerSeq ==
  ASSUME BlockType, NEW outcome
  PROVE  /\ AnswerTo(outcome) \in Seq(Packets)
         /\ \A i \in 1 .. Len(AnswerTo(outcome)) :
              /\ AnswerTo(outcome)[i].tag <= cmd.tag
              /\ outcome # "good" \/ cmd.kind \notin {"read", "ready"} => ~Tell(AnswerTo(outcome)[i])
<1>0. cmd.tag \in Nat /\ Parts \in Nat /\ medium \in [1 .. Parts -> Vals]
  BY UsbAssumption, TagTypes DEF BlockType
<1> DEFINE C == Csw(cmd.tag, TRUE)
           F == Csw(cmd.tag, FALSE)
           D == [k \in 1 .. Parts |-> Data(k, medium[k])]
<1>1. C \in Packets /\ F \in Packets /\ ShortData \in Packets /\ D \in Seq(Packets)
  <2>1. \A k \in 1 .. Parts : Data(k, medium[k]) \in Packets
    BY <1>0, PacketsIn
  <2>2. D \in [1 .. Parts -> Packets]
    BY <2>1
  <2>3. D \in Seq(Packets)
    <3> HIDE DEF D
    <3> QED BY <1>0, <2>2, SeqDef
  <2>4. cmd.tag \in Int
    BY <1>0
  <2> QED
    BY <2>3, <2>4, PacketsIn, Zenon
<1>2. /\ C.tag = cmd.tag /\ F.tag = cmd.tag /\ ~Tell(F)
      /\ ShortData.tag = 0 /\ ~Tell(ShortData)
      /\ \A k \in 1 .. Parts : D[k].tag = 0
  BY DEF Csw, ShortData, Data, Tell
<1>3. Len(D) = Parts
  BY <1>0
<1> HIDE DEF C, F, D
<1>9. /\ <<C>> \in Seq(Packets) /\ Len(<<C>>) = 1 /\ <<C>>[1] = C
      /\ <<F>> \in Seq(Packets) /\ Len(<<F>>) = 1 /\ <<F>>[1] = F
      /\ <<ShortData>> \in Seq(Packets) /\ Len(<<ShortData>>) = 1 /\ <<ShortData>>[1] = ShortData
      /\ <<>> \in Seq(Packets) /\ Len(<<>>) = 0
  BY <1>1
<1> DEFINE E(q) == /\ q \in Seq(Packets)
                   /\ \A i \in 1 .. Len(q) : q[i].tag <= cmd.tag
           N(q) == \A i \in 1 .. Len(q) : ~Tell(q[i])
<1>10. ASSUME NEW p, NEW q, E(p), E(q) PROVE E(p \o q) /\ (N(p) /\ N(q) => N(p \o q))
  <2>1. /\ p \o q \in Seq(Packets) /\ Len(p \o q) = Len(p) + Len(q)
        /\ Len(p) \in Nat /\ Len(q) \in Nat
        /\ \A i \in 1 .. Len(p) + Len(q) : (p \o q)[i] = IF i <= Len(p) THEN p[i] ELSE q[i - Len(p)]
    BY <1>10, ConcatProperties
  <2> QED
    BY <1>10, <2>1
<1>11. E(<<C>>) /\ E(<<F>>) /\ N(<<F>>) /\ E(<<ShortData>>) /\ N(<<ShortData>>) /\ E(D) /\ E(<<>>) /\ N(<<>>)
  BY <1>0, <1>1, <1>2, <1>3, <1>9
<1> HIDE DEF E, N
<1> SUFFICES /\ E(AnswerTo(outcome))
             /\ outcome # "good" \/ cmd.kind \notin {"read", "ready"} => N(AnswerTo(outcome))
  BY DEF E, N
<1>4. CASE outcome = "fail" /\ cmd.kind = "read"
  <2>1. AnswerTo(outcome) = <<ShortData>> \o <<F>>
    BY <1>4 DEF AnswerTo, F
  <2> QED
    BY <1>10, <1>11, <2>1
<1>5. CASE outcome = "fail" /\ cmd.kind # "read"
  <2>1. AnswerTo(outcome) = <<>> \o <<F>>
    BY <1>5 DEF AnswerTo, F
  <2> QED
    BY <1>10, <1>11, <2>1
<1>6. CASE outcome = "good" /\ cmd.kind = "read"
  <2>1. AnswerTo(outcome) = D \o <<C>>
    BY <1>6 DEF AnswerTo, C, D
  <2> QED
    BY <1>10, <1>11, <2>1, <1>6
<1>7. CASE outcome = "good" /\ cmd.kind = "ready"
  <2>1. AnswerTo(outcome) = <<C>>
    BY <1>7 DEF AnswerTo, C
  <2> QED
    BY <1>11, <2>1, <1>7
<1>8. CASE outcome # "fail" /\ ~(outcome = "good" /\ cmd.kind \in {"read", "ready"})
  <2>1. AnswerTo(outcome) = <<>>
    BY <1>8 DEF AnswerTo
  <2> QED
    BY <1>11, <2>1
<1> QED
  BY <1>4, <1>5, <1>6, <1>7, <1>8

\* The answer to a READ is the block followed by the status.
LEMMA AnswerToRead ==
  ASSUME BlockType, cmd.kind = "read"
  PROVE  /\ Len(AnswerTo("good")) = Parts + 1
         /\ \A k \in 1 .. Parts + 1 : AnswerTo("good")[k] = AnswerPart(k)
<1> DEFINE C == Csw(cmd.tag, TRUE)
           D == [k \in 1 .. Parts |-> Data(k, medium[k])]
<1>0. cmd.tag \in Nat /\ Parts \in Nat /\ medium \in [1 .. Parts -> Vals]
  BY UsbAssumption, TagTypes DEF BlockType
<1>1. C \in Packets /\ D \in Seq(Packets)
  <2>1. \A k \in 1 .. Parts : Data(k, medium[k]) \in Packets
    BY <1>0, PacketsIn
  <2>2. D \in [1 .. Parts -> Packets]
    BY <2>1
  <2>3. D \in Seq(Packets)
    <3> HIDE DEF D
    <3> QED BY <1>0, <2>2, SeqDef
  <2>4. cmd.tag \in Int
    BY <1>0
  <2> QED
    BY <2>3, <2>4, PacketsIn, Zenon
<1>2. Len(D) = Parts /\ \A k \in 1 .. Parts : D[k] = Data(k, medium[k])
  BY <1>0
<1>3. AnswerTo("good") = D \o <<C>>
  BY DEF AnswerTo
<1> HIDE DEF C, D
<1>4. <<C>> \in Seq(Packets) /\ Len(<<C>>) = 1 /\ <<C>>[1] = C
  BY <1>1
<1>5. /\ Len(D \o <<C>>) = Parts + 1
      /\ \A i \in 1 .. Parts + 1 : (D \o <<C>>)[i] = IF i <= Parts THEN D[i] ELSE <<C>>[i - Parts]
  BY <1>1, <1>2, <1>4, ConcatProperties
<1>6. ASSUME NEW k \in 1 .. Parts + 1 PROVE (D \o <<C>>)[k] = AnswerPart(k)
  <2>1. CASE k <= Parts
    BY <1>0, <1>2, <1>5, <2>1 DEF AnswerPart
  <2>2. CASE k > Parts
    <3>1. k - Parts = 1 /\ ~(k <= Parts)
      BY <1>0, <2>2
    <3>2. (D \o <<C>>)[k] = C
      BY <1>4, <1>5, <3>1
    <3> QED BY <3>1, <3>2 DEF AnswerPart, C
  <2>3. k <= Parts \/ k > Parts
    BY <1>0
  <2> QED BY <2>1, <2>2, <2>3
<1> QED
  BY <1>3, <1>5, <1>6

\* A command block the device takes: its answer, if any, goes behind what is left
\* of earlier ones.
LEMMA CbwTaken ==
  ASSUME BlockInv, NEW outcome \in {"good", "fail", "stall"}, stage = "cbw", moved' = 0,
         stage' = IF cmd.kind \in {"read", "write"} THEN "data" ELSE "csw",
         UNCHANGED <<cmd, buf, result>>,
         toggle' = [toggle EXCEPT !["out"] = (@ + 1) % 2],
         Fresh, DeviceTakes(outcome)
  PROVE  BlockInv'
<1> DEFINE A == AnswerTo(outcome)
           n == Len(dev.fifo)
<1>1. /\ dev' = [fifo |-> dev.fifo \o A,
                 outLeft |-> IF outcome = "good" /\ cmd.kind = "write" THEN Parts ELSE 0,
                 tag |-> cmd.tag, in |-> dev.in, out |-> 1 - dev.out,
                 halted |-> (outcome = "stall")]
      /\ executed' = IF outcome = "good" /\ cmd.kind # "write" THEN cmd.tag ELSE executed
      /\ medium' = medium
  BY AcceptedRecord DEF BlockInv
<1>2. /\ A \in Seq(Packets)
      /\ \A i \in 1 .. Len(A) :
           /\ A[i].tag <= cmd.tag
           /\ outcome # "good" \/ cmd.kind \notin {"read", "ready"} => ~Tell(A[i])
  BY AnswerSeq DEF BlockInv
<1>3. /\ dev.fifo \in Seq(Packets) /\ cmd.tag \in Nat /\ Parts \in Nat \ {0} /\ n \in Nat
      /\ \A i \in 1 .. n : dev.fifo[i] \in Packets /\ dev.fifo[i].tag \in Int
      /\ dev.in \in {0, 1} /\ dev.out \in {0, 1}
      /\ toggle \in [{"in", "out"} -> {0, 1}] /\ moved = 0
  BY TagTypes, DeviceFields, UsbAssumption DEF BlockInv, BlockType
<1> HIDE DEF A
<1>4. /\ dev.fifo \o A \in Seq(Packets) /\ Len(dev.fifo \o A) = n + Len(A) /\ Len(A) \in Nat
      /\ \A i \in 1 .. n + Len(A) : (dev.fifo \o A)[i] = IF i <= n THEN dev.fifo[i] ELSE A[i - n]
  BY <1>2, <1>3, ConcatProperties
<1>5. /\ dev'.fifo = dev.fifo \o A /\ dev'.tag = cmd.tag /\ dev'.in = dev.in /\ dev'.out = 1 - dev.out
      /\ dev'.outLeft = IF outcome = "good" /\ cmd.kind = "write" THEN Parts ELSE 0
  BY <1>1
<1>6. dev' \in Devices
  <2>1. (outcome = "stall") \in BOOLEAN
    OBVIOUS
  <2>2. 1 - dev.out \in {0, 1} /\ (IF outcome = "good" /\ cmd.kind = "write" THEN Parts ELSE 0) \in 0 .. Parts
    BY <1>3
  <2> QED
    BY <1>1, <1>3, <1>4, <2>1, <2>2, Zenon DEF Devices
<1>7. toggle' \in [{"in", "out"} -> {0, 1}] /\ toggle'["out"] = (toggle["out"] + 1) % 2
  <2>1. (toggle["out"] + 1) % 2 \in {0, 1}
    BY <1>3, Flip
  <2> QED BY <1>3, <2>1
<1>8. BlockType'
  BY <1>1, <1>3, <1>6, <1>7 DEF BlockInv, BlockType
<1>9. \A i \in 1 .. n : dev.fifo[i].tag < cmd.tag
  BY DEF BlockInv, TagsInv
<1>10. \A i \in 1 .. Len(dev'.fifo) : dev'.fifo[i].tag <= cmd.tag
  <2> SUFFICES ASSUME NEW i \in 1 .. n + Len(A) PROVE (dev.fifo \o A)[i].tag <= cmd.tag
    BY <1>4, <1>5
  <2>1. CASE i <= n
    BY <1>3, <1>4, <1>9, <2>1
  <2>2. CASE i > n
    <3>1. i - n \in 1 .. Len(A) /\ ~(i <= n)
      BY <1>3, <1>4, <2>2
    <3> QED BY <1>2, <1>4, <3>1
  <2> QED BY <1>3, <1>4, <2>1, <2>2
<1>11. outcome # "good" \/ cmd.kind \notin {"read", "ready"} => ~Told'
  BY <1>2, <1>3, <1>4, <1>5, <1>9 DEF Told, Tells, Tell
<1>12. TagsInv'
  BY <1>1, <1>3, <1>5, <1>10, <1>11 DEF TagsInv
<1>13. ReadInv'
  <2> SUFFICES ASSUME cmd.kind = "read", Told' PROVE ReadInv'
    BY DEF ReadInv
  <2>1. outcome = "good"
    BY <1>11
  <2>2. Len(A) = Parts + 1 /\ \A k \in 1 .. Parts + 1 : A[k] = AnswerPart(k)
    BY <2>1, AnswerToRead DEF A, BlockInv
  <2>3. Consumed' = 0 - n
    BY <1>3, <1>4, <1>5, <2>2 DEF Consumed
  <2>5. ASSUME NEW i \in 1 .. Len(dev'.fifo)
        PROVE  (IF i + Consumed >= 1 THEN dev.fifo[i] = AnswerPart(i + Consumed)
                                     ELSE dev.fifo[i].tag < cmd.tag)'
    <3>1. CASE i <= n
      BY <1>3, <1>4, <1>5, <1>9, <2>3, <3>1
    <3>2. CASE i > n
      <4>1. i - n \in 1 .. Parts + 1 /\ i + Consumed' = i - n /\ i - n >= 1
        BY <1>3, <1>4, <1>5, <2>2, <2>3, <3>2
      <4>2. dev'.fifo[i] = A[i - n]
        BY <1>3, <1>4, <1>5, <2>2, <3>2
      <4>3. A[i - n] = AnswerPart(i - n)
        BY <2>2, <4>1
      <4>4. AnswerPart(i + Consumed)' = AnswerPart(i - n)
        BY <1>1, <4>1 DEF AnswerPart
      <4> QED BY <4>1, <4>2, <4>3, <4>4, Zenon
    <3>3. i \in Int
      BY <1>4, <1>5
    <3> QED BY <1>3, <3>1, <3>2, <3>3
  <2>6. dev'.outLeft = 0
    BY <1>5
  <2>7. stage' = "data" /\ ~(Consumed' >= 1) /\ moved' + 1 >= Consumed'
    BY <1>3, <2>3
  <2> QED
    BY <2>5, <2>6, <2>7 DEF ReadInv
<1>14. WriteInv'
  <2> SUFFICES ASSUME cmd.kind = "write" PROVE WriteInv'
    BY DEF WriteInv
  <2>1. stage' = "data" /\ ~Told'
    BY <1>11
  <2>2. \A k \in 2 .. Parts : buf[k] = Old(k)
    BY DEF BlockInv, WriteInv
  <2>3. dev'.outLeft > 0 => dev'.outLeft = Parts
    BY <1>5
  <2>4. dev'.out = Expected'
    <3>1. dev.out = (toggle["out"] + 0) % 2
      BY <1>3 DEF Fresh, Expected, Pipe
    <3>2. Expected' = (toggle'["out"] + 0) % 2
      BY <2>1 DEF Expected, Pipe
    <3> QED
      BY <1>3, <1>5, <1>7, <3>1, <3>2, Flip, Bit
  <2> QED
    BY <1>3, <1>5, <2>1, <2>2, <2>3, <2>4 DEF WriteInv
<1>15. BlocksExact'
  BY <1>1 DEF BlockInv, BlockType, BlocksExact, AnswerIsOwn, RestOfBlockKept
<1> QED
  BY <1>8, <1>12, <1>13, <1>14, <1>15 DEF BlockInv

\* A packet of the block, taken by the device.
LEMMA TakenRecord ==
  ASSUME BlockType, NEW outcome, stage # "cbw", Fresh, DeviceTakes(outcome)
  PROVE  /\ dev' = [fifo |-> IF dev.outLeft = 1 THEN Append(dev.fifo, Csw(dev.tag, TRUE)) ELSE dev.fifo,
                    outLeft |-> dev.outLeft - 1, tag |-> dev.tag, in |-> dev.in,
                    out |-> 1 - dev.out, halted |-> dev.halted]
         /\ executed' = IF dev.outLeft = 1 THEN dev.tag ELSE executed
         /\ medium' = [medium EXCEPT ![Parts - dev.outLeft + 1] = Payload[moved + 1]]
<1> DEFINE d == [dev EXCEPT !.out = 1 - @]
           f == IF dev.outLeft = 1 THEN Append(dev.fifo, Csw(dev.tag, TRUE)) ELSE dev.fifo
           l == dev.outLeft - 1
           x == [d EXCEPT !.outLeft = l, !.fifo = f]
<1>1. d = [fifo |-> dev.fifo, outLeft |-> dev.outLeft, tag |-> dev.tag,
           in |-> dev.in, out |-> 1 - dev.out, halted |-> dev.halted]
  BY DeviceFields DEF BlockType
<1>2. d.outLeft = dev.outLeft /\ d.fifo = dev.fifo
  BY <1>1
<1>3. /\ dev' = [d EXCEPT !.outLeft = @ - 1,
                          !.fifo = IF dev.outLeft = 1 THEN Append(@, Csw(dev.tag, TRUE)) ELSE @]
      /\ executed' = IF dev.outLeft = 1 THEN dev.tag ELSE executed
      /\ medium' = [medium EXCEPT ![Parts - dev.outLeft + 1] = Payload[moved + 1]]
  BY Zenon DEF DeviceTakes
<1> HIDE DEF d
<1>4. dev' = x
  BY <1>2, <1>3, Zenon
<1> HIDE DEF f, l
<1>5. x = [d EXCEPT !.outLeft = l, !.fifo = f]
  OBVIOUS
<1> HIDE DEF x
<1>6. x = [fifo |-> f, outLeft |-> l, tag |-> dev.tag,
           in |-> dev.in, out |-> 1 - dev.out, halted |-> dev.halted]
  <2> DEFINE o == 1 - dev.out
  <2> HIDE DEF o
  <2>1. d = [fifo |-> dev.fifo, outLeft |-> dev.outLeft, tag |-> dev.tag,
             in |-> dev.in, out |-> o, halted |-> dev.halted]
    BY <1>1 DEF o
  <2>2. /\ x.fifo = f /\ x.outLeft = l /\ x.tag = dev.tag /\ x.in = dev.in /\ x.out = o
        /\ x.halted = dev.halted
        /\ x = [fifo |-> x.fifo, outLeft |-> x.outLeft, tag |-> x.tag, in |-> x.in,
                out |-> x.out, halted |-> x.halted]
    BY <1>5, <2>1
  <2> QED
    BY <2>2, Zenon DEF o
<1> QED
  BY <1>3, <1>4, <1>6, Zenon DEF f, l

\* What it does to the block: part moved + 1 becomes what the driver sends, which is
\* the old contents but for the first part.
LEMMA DataTaken ==
  ASSUME BlockInv, NEW outcome, stage = "data", cmd.kind = "write", Fresh, ~Misplaced,
         DeviceTakes(outcome)
  PROVE  /\ dev.outLeft > 0 /\ dev.tag = cmd.tag /\ moved = Parts - dev.outLeft
         /\ dev'.outLeft = dev.outLeft - 1 /\ dev'.tag = cmd.tag /\ dev'.out = 1 - dev.out
         /\ dev'.fifo = IF dev.outLeft = 1 THEN Append(dev.fifo, Csw(cmd.tag, TRUE)) ELSE dev.fifo
         /\ dev' \in Devices
         /\ medium' \in [1 .. Parts -> Vals]
         /\ \A k \in 1 .. moved + 1 : medium'[k] = Payload[k]
         /\ RestOfBlockKept'
         /\ executed' = IF dev.outLeft = 1 THEN cmd.tag ELSE executed
         /\ \A i \in 1 .. Len(dev'.fifo) : dev'.fifo[i].tag <= cmd.tag
<1>0. /\ dev.outLeft \in 0 .. Parts /\ dev.tag \in Nat /\ Parts \in Nat \ {0} /\ moved \in Nat
      /\ dev.fifo \in Seq(Packets) /\ dev.in \in {0, 1} /\ dev.out \in {0, 1}
      /\ dev.halted \in BOOLEAN /\ cmd.tag \in Nat
      /\ medium \in [1 .. Parts -> Vals] /\ buf \in [1 .. Parts -> Vals]
  BY UsbAssumption, DeviceFields, TagTypes DEF BlockInv, BlockType
<1>1. dev.outLeft > 0
  BY <1>0 DEF Misplaced
<1>2. /\ dev.tag = cmd.tag /\ moved = Parts - dev.outLeft
      /\ \A k \in 1 .. moved : medium[k] = Payload[k]
      /\ \A k \in 2 .. Parts : buf[k] = Old(k)
  BY <1>1 DEF BlockInv, WriteInv
<1>3. /\ dev' = [fifo |-> IF dev.outLeft = 1 THEN Append(dev.fifo, Csw(dev.tag, TRUE)) ELSE dev.fifo,
                 outLeft |-> dev.outLeft - 1, tag |-> dev.tag, in |-> dev.in,
                 out |-> 1 - dev.out, halted |-> dev.halted]
      /\ executed' = IF dev.outLeft = 1 THEN dev.tag ELSE executed
      /\ medium' = [medium EXCEPT ![Parts - dev.outLeft + 1] = Payload[moved + 1]]
  BY TakenRecord DEF BlockInv
<1>4. Payload = [buf EXCEPT ![1] = NewValue] /\ Payload \in [1 .. Parts -> Vals]
  BY <1>0, ValsIn DEF Payload
<1>5. moved + 1 \in 1 .. Parts /\ Parts - dev.outLeft + 1 = moved + 1
  BY <1>0, <1>1, <1>2
<1>6. /\ medium' = [medium EXCEPT ![moved + 1] = Payload[moved + 1]]
      /\ medium' \in [1 .. Parts -> Vals]
      /\ \A k \in 1 .. Parts : medium'[k] = IF k = moved + 1 THEN Payload[k] ELSE medium[k]
  BY <1>0, <1>3, <1>4, <1>5
<1>7. \A k \in 1 .. moved + 1 : medium'[k] = Payload[k]
  BY <1>0, <1>2, <1>5, <1>6
<1>8. RestOfBlockKept'
  <2>1. \A k \in 2 .. Parts : medium[k] = Old(k)
    BY DEF BlockInv, BlocksExact, RestOfBlockKept
  <2>2. \A k \in 2 .. Parts : k \in 1 .. Parts /\ Payload[k] = Old(k)
    BY <1>0, <1>2, <1>4
  <2> QED
    BY <1>6, <2>1, <2>2 DEF RestOfBlockKept
<1>9. /\ dev'.outLeft = dev.outLeft - 1 /\ dev'.tag = cmd.tag /\ dev'.out = 1 - dev.out
      /\ dev'.fifo = IF dev.outLeft = 1 THEN Append(dev.fifo, Csw(cmd.tag, TRUE)) ELSE dev.fifo
  BY <1>2, <1>3
<1> DEFINE C == Csw(cmd.tag, TRUE)
<1>10. C \in Packets /\ C.tag = cmd.tag
  <2>1. cmd.tag \in Int
    BY <1>0
  <2> QED BY <2>1, PacketsIn DEF Csw
<1> HIDE DEF C
<1>11. dev'.fifo = (IF dev.outLeft = 1 THEN Append(dev.fifo, C) ELSE dev.fifo) /\ dev'.fifo \in Seq(Packets)
  <2>1. Append(dev.fifo, C) \in Seq(Packets)
    BY <1>0, <1>10
  <2> QED
    BY <1>0, <1>9, <2>1 DEF C
<1>12. dev' \in Devices
  <2>1. dev.outLeft - 1 \in 0 .. Parts /\ 1 - dev.out \in {0, 1}
    BY <1>0, <1>1
  <2>2. (IF dev.outLeft = 1 THEN Append(dev.fifo, Csw(dev.tag, TRUE)) ELSE dev.fifo) \in Seq(Packets)
    BY <1>2, <1>9, <1>11, Zenon
  <2> QED
    BY <1>0, <1>3, <2>1, <2>2, Zenon DEF Devices
<1>13. \A i \in 1 .. Len(dev'.fifo) : dev'.fifo[i].tag <= cmd.tag
  <2>1. \A i \in 1 .. Len(dev.fifo) : dev.fifo[i].tag <= cmd.tag
    BY DEF BlockInv, TagsInv
  <2>2. CASE dev.outLeft = 1
    <3>1. /\ Len(Append(dev.fifo, C)) = Len(dev.fifo) + 1 /\ Len(dev.fifo) \in Nat
          /\ \A i \in 1 .. Len(dev.fifo) + 1 :
               Append(dev.fifo, C)[i] = IF i <= Len(dev.fifo) THEN dev.fifo[i] ELSE C
      BY <1>0, <1>10
    <3> QED
      BY <1>0, <1>10, <1>11, <2>1, <2>2, <3>1
  <2>3. CASE dev.outLeft # 1
    BY <1>11, <2>1, <2>3
  <2> QED BY <2>2, <2>3
<1> QED
  BY <1>1, <1>2, <1>3, <1>6, <1>7, <1>8, <1>9, <1>12, <1>13

\* The driver's side of an OUT packet.
LEMMA CbwEnds ==
  ASSUME NEW n, NEW p, stage = "cbw", EndStage(n, p)
  PROVE  /\ moved' = 0 /\ stage' = IF cmd.kind \in {"read", "write"} THEN "data" ELSE "csw"
         /\ UNCHANGED <<cmd, result>> /\ toggle' = [toggle EXCEPT !["out"] = (@ + n) % 2]
BY DEF EndStage, Pipe

\* The end of the data stage (EndStage).
LEMMA DataEnds ==
  ASSUME NEW n, NEW p, stage = "data", EndStage(n, p)
  PROVE  /\ moved' = 0 /\ stage' = "csw"
         /\ UNCHANGED <<cmd, result>> /\ toggle' = [toggle EXCEPT ![Pipe] = (@ + n) % 2]
BY DEF EndStage

\* A packet of a write, taken by the device or not (out_packet).
LEMMA BlockOutData ==
  ASSUME BlockInv, ToggleInv', NEW outcome, out_packet(outcome), stage = "data", cmd.kind = "write"
  PROVE  BlockInv'
<1>0. /\ Parts \in Nat \ {0} /\ moved \in Nat /\ moved < Parts /\ cmd.tag \in Nat
      /\ toggle \in [{"in", "out"} -> {0, 1}] /\ dev.outLeft \in 0 .. Parts /\ dev \in Devices
      /\ dev.fifo \in Seq(Packets) /\ dev.out \in {0, 1}
  BY UsbAssumption, TagTypes, DeviceFields DEF BlockInv, BlockType
<1>1. /\ Fresh => ~Misplaced
      /\ DeviceTakes(outcome) /\ Packet(Csw(0, TRUE)) /\ buf' = buf
  BY DEF out_packet
<1>2. /\ UNCHANGED <<cmd, result>> /\ moved' \in Nat
      /\ IF moved + 1 = Parts THEN stage' = "csw" /\ moved' = 0
         ELSE stage' = "data" /\ moved' = moved + 1 /\ toggle' = toggle
  <2>1. Length = Parts /\ Pipe = "out"
    BY DEF Length, Pipe
  <2>2. CASE moved + 1 = Parts
    <3>1. EndStage(moved + 1, Csw(0, TRUE))
      BY <1>1, <2>1, <2>2, Zenon DEF Packet
    <3>2. moved' = 0 /\ stage' = "csw" /\ UNCHANGED <<cmd, result>>
      BY <3>1, DataEnds
    <3> QED BY <2>2, <3>2
  <2>3. CASE moved + 1 # Parts
    <3>1. moved' = moved + 1 /\ UNCHANGED <<stage, cmd, toggle, result>>
      BY <1>1, <2>1, <2>3 DEF Packet
    <3> QED BY <1>0, <2>3, <3>1
  <2> QED BY <2>2, <2>3
<1>3. ~Told /\ result = "none" /\ \A k \in 2 .. Parts : buf[k] = Old(k)
  BY DEF BlockInv, BlockType, WriteInv
<1>4. toggle' \in [{"in", "out"} -> {0, 1}]
  BY DEF ToggleInv
<1>5. moved' < Parts
  BY <1>0, <1>2
<1>6. Payload' = Payload
  BY <1>1 DEF Payload
<1>7. CASE ~Fresh
  <2>1. UNCHANGED <<dev, medium, executed>>
    BY <1>1, <1>7 DEF DeviceTakes
  <2>2. dev.outLeft = 0
    BY <1>0, <1>7 DEF Fresh, BlockInv, WriteInv
  <2>3. ~Told'
    BY <1>2, <1>3, <2>1 DEF Told, Tells
  <2>4. BlockType'
    BY <1>0, <1>1, <1>2, <1>3, <1>4, <1>5, <2>1 DEF BlockInv, BlockType
  <2>5. TagsInv'
    BY <1>2, <2>1, <2>3 DEF BlockInv, TagsInv
  <2>6. ReadInv' /\ WriteInv'
    BY <1>1, <1>2, <1>3, <2>1, <2>2, <2>3 DEF ReadInv, WriteInv
  <2>7. BlocksExact'
    BY <1>2, <1>3, <2>1 DEF BlockInv, BlocksExact, AnswerIsOwn, RestOfBlockKept
  <2> QED
    BY <2>4, <2>5, <2>6, <2>7 DEF BlockInv
<1>8. CASE Fresh
  <2>1. /\ dev.outLeft > 0 /\ dev.tag = cmd.tag /\ moved = Parts - dev.outLeft
        /\ dev'.outLeft = dev.outLeft - 1 /\ dev'.tag = cmd.tag /\ dev'.out = 1 - dev.out
        /\ dev'.fifo = IF dev.outLeft = 1 THEN Append(dev.fifo, Csw(cmd.tag, TRUE)) ELSE dev.fifo
        /\ dev' \in Devices
        /\ medium' \in [1 .. Parts -> Vals]
        /\ \A k \in 1 .. moved + 1 : medium'[k] = Payload[k]
        /\ RestOfBlockKept'
        /\ executed' = IF dev.outLeft = 1 THEN cmd.tag ELSE executed
        /\ \A i \in 1 .. Len(dev'.fifo) : dev'.fifo[i].tag <= cmd.tag
    BY <1>1, <1>8, DataTaken
  <2>2. BlockType'
    BY <1>0, <1>1, <1>2, <1>3, <1>4, <1>5, <2>1 DEF BlockInv, BlockType
  <2>3. BlocksExact'
    BY <1>2, <1>3, <2>1 DEF BlocksExact, AnswerIsOwn
  <2>4. ReadInv'
    BY <1>2 DEF ReadInv
  <2>7. dev'.tag <= cmd.tag /\ \A i \in 1 .. Len(dev'.fifo) : dev'.fifo[i].tag <= cmd.tag
    <3>1. cmd.tag \in Nat /\ dev'.tag = cmd.tag
      BY <1>0, <2>1
    <3>2. dev'.tag <= cmd.tag
      BY <3>1
    <3> QED BY <2>1, <3>2, Zenon
  <2>5. CASE moved + 1 = Parts
    <3>1. stage' = "csw" /\ executed' = cmd.tag
      BY <1>0, <1>2, <2>1, <2>5
    <3>2. medium' = Payload'
      <4>1. Payload \in [1 .. Parts -> Vals]
        BY ValsIn DEF Payload, BlockInv, BlockType
      <4> QED
        BY <1>6, <2>1, <2>5, <4>1
    <3>3. TagsInv'
      BY <1>2, <2>7, <3>1 DEF TagsInv
    <3>4. WriteInv'
      BY <1>1, <1>3, <3>1, <3>2 DEF WriteInv
    <3> QED
      BY <2>2, <2>3, <2>4, <3>3, <3>4 DEF BlockInv
  <2>6. CASE moved + 1 # Parts
    <3>1. /\ stage' = "data" /\ moved' = moved + 1 /\ toggle' = toggle
          /\ dev'.fifo = dev.fifo /\ dev'.outLeft = Parts - moved'
      <4>1. dev.outLeft # 1 /\ dev'.outLeft = Parts - (moved + 1)
        <5>1. dev'.outLeft = dev.outLeft - 1 /\ moved = Parts - dev.outLeft
          BY <2>1
        <5> QED BY <1>0, <2>6, <5>1
      <4>2. dev'.fifo = dev.fifo
        BY <2>1, <4>1
      <4> QED BY <1>2, <2>6, <4>1, <4>2
    <3>2. ~Told'
      BY <1>2, <1>3, <3>1 DEF Told, Tells
    <3>3. dev'.out = Expected'
      <4>1. dev.out = (toggle["out"] + moved) % 2 /\ Expected' = (toggle["out"] + (moved + 1)) % 2
        BY <1>2, <1>8, <3>1 DEF Fresh, Expected, Pipe
      <4>2. toggle["out"] + moved \in Nat
            /\ toggle["out"] + (moved + 1) = (toggle["out"] + moved) + 1
        BY <1>0
      <4> QED
        BY <2>1, <4>1, <4>2, Flip
    <3>4. TagsInv'
      BY <1>2, <2>7, <3>1, <3>2 DEF TagsInv
    <3>5. WriteInv'
      BY <1>0, <1>1, <1>2, <1>3, <1>6, <2>1, <3>1, <3>2, <3>3 DEF WriteInv
    <3> QED
      BY <2>2, <2>3, <2>4, <3>4, <3>5 DEF BlockInv
  <2> QED BY <2>5, <2>6
<1> QED
  BY <1>7, <1>8

\* A packet to the device: a command block or a part of the block (out_packet).
LEMMA BlockOut ==
  ASSUME BlockInv, ToggleInv', NEW outcome \in {"good", "fail", "stall"}, out_packet(outcome)
  PROVE  BlockInv'
<1>1. /\ stage # "idle" /\ Pipe = "out" /\ DeviceTakes(outcome) /\ Packet(Csw(0, TRUE))
      /\ buf' = buf
  BY DEF out_packet
<1>2. CASE stage = "data" /\ cmd.kind = "write"
  BY <1>2, BlockOutData
<1>3. CASE stage = "cbw"
  <2>1. moved + 1 = 1 /\ Length = 1
    BY <1>3 DEF BlockInv, BlockType, Length
  <2>2. EndStage(1, Csw(0, TRUE))
    BY <1>1, <2>1, Zenon DEF Packet
  <2>3. /\ moved' = 0 /\ stage' = IF cmd.kind \in {"read", "write"} THEN "data" ELSE "csw"
        /\ UNCHANGED <<cmd, result>> /\ toggle' = [toggle EXCEPT !["out"] = (@ + 1) % 2]
    BY <1>3, <2>2, CbwEnds
  <2>4. CASE Fresh
    BY <1>1, <1>3, <2>3, <2>4, CbwTaken
  <2>5. CASE ~Fresh
    <3>1. UNCHANGED <<dev, medium, executed>>
      BY <1>1, <2>5 DEF DeviceTakes
    <3>2. toggle' \in [{"in", "out"} -> {0, 1}]
      BY DEF ToggleInv
    <3> QED
      BY <1>1, <1>3, <2>3, <3>1, <3>2, CbwLost
  <2> QED BY <2>4, <2>5
<1> QED
  BY <1>1, <1>2, <1>3 DEF Pipe, BlockInv, BlockType

\* The first packet the device has to send is taken off, by the driver or by no one.
LEMMA FifoTail ==
  ASSUME BlockType, dev.fifo # <<>>, dev' = [dev EXCEPT !.fifo = Tail(@), !.in = 1 - @]
  PROVE  /\ dev' \in Devices
         /\ dev'.fifo \in Seq(Packets) /\ Len(dev'.fifo) = Len(dev.fifo) - 1 /\ Len(dev.fifo) \in Nat \ {0}
         /\ \A i \in 1 .. Len(dev'.fifo) : i + 1 \in 1 .. Len(dev.fifo) /\ dev'.fifo[i] = dev.fifo[i + 1]
         /\ dev'.in = 1 - dev.in /\ dev'.out = dev.out
         /\ dev'.outLeft = dev.outLeft /\ dev'.tag = dev.tag
         /\ Head(dev.fifo) = dev.fifo[1] /\ Head(dev.fifo) \in Packets
<1>1. /\ dev = [fifo |-> dev.fifo, outLeft |-> dev.outLeft, tag |-> dev.tag,
                in |-> dev.in, out |-> dev.out, halted |-> dev.halted]
      /\ dev.fifo \in Seq(Packets) /\ dev.outLeft \in 0 .. Parts /\ dev.tag \in Nat
      /\ dev.in \in {0, 1} /\ dev.out \in {0, 1} /\ dev.halted \in BOOLEAN
  BY DeviceFields DEF BlockType
<1> DEFINE q == Tail(dev.fifo)
           b == 1 - dev.in
<1>2. q \in Seq(Packets) /\ Len(q) = Len(dev.fifo) - 1 /\ Head(dev.fifo) \in Packets
      /\ \A i \in 1 .. Len(q) : q[i] = dev.fifo[i + 1]
  BY <1>1, HeadTailProperties
<1>3. Len(dev.fifo) \in Nat \ {0} /\ Head(dev.fifo) = dev.fifo[1] /\ b \in {0, 1}
  BY <1>1
<1> HIDE DEF q, b
<1>4. dev' = [dev EXCEPT !.fifo = q, !.in = b]
  BY Zenon DEF q, b
<1>5. /\ dev'.fifo = q /\ dev'.in = b /\ dev'.out = dev.out /\ dev'.outLeft = dev.outLeft
      /\ dev'.tag = dev.tag /\ dev'.halted = dev.halted
      /\ dev' = [fifo |-> dev'.fifo, outLeft |-> dev'.outLeft, tag |-> dev'.tag,
                 in |-> dev'.in, out |-> dev'.out, halted |-> dev'.halted]
  BY <1>1, <1>4
<1>6. dev' = [fifo |-> q, outLeft |-> dev.outLeft, tag |-> dev.tag,
              in |-> b, out |-> dev.out, halted |-> dev.halted]
  BY <1>5, Zenon
<1>7. dev' \in Devices
  <2>1. /\ q \in Seq(Packets) /\ dev.outLeft \in 0 .. Parts /\ dev.tag \in Nat /\ b \in {0, 1}
        /\ dev.out \in {0, 1} /\ dev.halted \in BOOLEAN
    BY <1>1, <1>2, <1>3
  <2> QED
    BY <1>6, <2>1 DEF Devices
<1>8. \A i \in 1 .. Len(q) : i + 1 \in 1 .. Len(dev.fifo)
  BY <1>2, <1>3
<1> QED
  BY <1>2, <1>3, <1>5, <1>7, <1>8 DEF b

\* Taking it off changes no tag and adds no status.
LEMMA TailTags ==
  ASSUME BlockInv, dev.fifo # <<>>, dev' = [dev EXCEPT !.fifo = Tail(@), !.in = 1 - @], cmd' = cmd
  PROVE  /\ dev'.tag <= cmd.tag /\ \A i \in 1 .. Len(dev'.fifo) : dev'.fifo[i].tag <= cmd.tag
         /\ Told' => Told /\ \E i \in 2 .. Len(dev.fifo) : Tells(i)
<1>1. /\ dev'.tag = dev.tag /\ Len(dev.fifo) \in Nat /\ Len(dev'.fifo) = Len(dev.fifo) - 1
      /\ \A i \in 1 .. Len(dev'.fifo) : i + 1 \in 1 .. Len(dev.fifo) /\ dev'.fifo[i] = dev.fifo[i + 1]
  BY FifoTail DEF BlockInv
<1>2. dev.tag <= cmd.tag /\ \A i \in 1 .. Len(dev.fifo) : dev.fifo[i].tag <= cmd.tag
  BY DEF BlockInv, TagsInv
<1>3. ASSUME NEW i \in 1 .. Len(dev'.fifo), Tells(i)'
      PROVE  i + 1 \in 2 .. Len(dev.fifo) /\ i + 1 \in 1 .. Len(dev.fifo) /\ Tells(i + 1)
  <2>1. i + 1 \in 1 .. Len(dev.fifo) /\ dev'.fifo[i] = dev.fifo[i + 1] /\ i + 1 \in 2 .. Len(dev.fifo)
    BY <1>1
  <2>2. Tells(i + 1)
    BY <1>3, <2>1 DEF Tells
  <2> QED BY <2>1, <2>2
<1> QED
  BY <1>1, <1>2, <1>3 DEF Told

\* A packet of the data stage of a READ that the driver takes.
LEMMA ReadTakes ==
  ASSUME BlockInv, ToggleInv', in_packet, stage = "data", cmd.kind = "read", dev.in = Expected
  PROVE  BlockInv'
<1> DEFINE p == Head(dev.fifo)
           n == Len(dev.fifo)
<1>0. /\ Parts \in Nat \ {0} /\ moved \in Nat /\ moved < Parts /\ cmd.tag \in Nat
      /\ toggle \in [{"in", "out"} -> {0, 1}] /\ dev.in \in {0, 1}
      /\ buf \in [1 .. Parts -> Vals] /\ medium \in [1 .. Parts -> Vals]
  BY UsbAssumption, TagTypes, DeviceFields DEF BlockInv, BlockType
<1>1. /\ dev.fifo # <<>> /\ dev' = [dev EXCEPT !.fifo = Tail(@), !.in = 1 - @]
      /\ Packet(p) /\ buf' = [buf EXCEPT ![moved + 1] = p.val]
      /\ UNCHANGED <<medium, executed>>
  BY DEF in_packet
<1>2. /\ dev' \in Devices /\ n \in Nat \ {0} /\ Len(dev'.fifo) = n - 1
      /\ \A i \in 1 .. n - 1 : i + 1 \in 1 .. n /\ dev'.fifo[i] = dev.fifo[i + 1]
      /\ dev'.in = 1 - dev.in /\ dev'.outLeft = dev.outLeft
      /\ p = dev.fifo[1] /\ p \in Packets
  BY <1>1, FifoTail DEF BlockInv
<1>3. Length = Parts /\ Pipe = "in"
  BY DEF Length, Pipe
<1>4. /\ UNCHANGED <<cmd, result>> /\ moved' \in Nat /\ moved' < Parts
      /\ \/ stage' = "csw" /\ moved' = 0 /\ (moved + 1 = Parts \/ p.short)
         \/ stage' = "data" /\ moved' = moved + 1 /\ toggle' = toggle /\ moved + 1 # Parts
  <2>1. CASE moved + 1 = Parts \/ p.short
    <3>1. EndStage(moved + 1, p)
      BY <1>1, <1>3, <2>1, Zenon DEF Packet
    <3> QED
      BY <1>0, <2>1, <3>1, DataEnds
  <2>2. CASE ~(moved + 1 = Parts \/ p.short)
    <3>1. moved' = moved + 1 /\ UNCHANGED <<stage, cmd, toggle, result>>
      BY <1>1, <1>3, <2>2, Zenon DEF Packet
    <3> QED BY <1>0, <2>2, <3>1
  <2> QED BY <2>1, <2>2
<1>5. result = "none" /\ toggle' \in [{"in", "out"} -> {0, 1}]
  BY DEF BlockInv, BlockType, ToggleInv
<1>6. p.val \in Vals /\ buf' \in [1 .. Parts -> Vals] /\ buf'[moved + 1] = p.val
      /\ \A k \in 1 .. moved : buf'[k] = buf[k]
  <2>1. \A x \in Packets : x.val \in Vals
    BY DEF Packets
  <2>2. p.val \in Vals
    BY <1>2, <2>1, Zenon
  <2> HIDE DEF p
  <2> QED
    BY <1>0, <1>1, <2>2
<1> HIDE DEF p
<1>7. BlockType'
  BY <1>1, <1>2, <1>4, <1>5, <1>6 DEF BlockInv, BlockType
<1>8. /\ dev'.tag <= cmd.tag /\ \A i \in 1 .. Len(dev'.fifo) : dev'.fifo[i].tag <= cmd.tag
      /\ Told' => Told
  BY <1>1, <1>4, TailTags
<1>9. TagsInv'
  BY <1>1, <1>4, <1>8 DEF BlockInv, TagsInv
<1>10. WriteInv'
  BY <1>4 DEF WriteInv
<1>11. BlocksExact'
  BY <1>1, <1>4, <1>5 DEF BlockInv, BlocksExact, AnswerIsOwn, RestOfBlockKept
<1>12. ASSUME Told' PROVE ReadInv'
  <2>1. /\ dev.outLeft = 0
        /\ \A i \in 1 .. n : IF i + Consumed >= 1 THEN dev.fifo[i] = AnswerPart(i + Consumed)
                                                  ELSE dev.fifo[i].tag < cmd.tag
        /\ moved + 1 >= Consumed
        /\ moved = Consumed => \A k \in 1 .. moved : buf[k] = medium[k]
    BY <1>8, <1>12 DEF BlockInv, ReadInv
  <2>2. Consumed' = Consumed + 1 /\ Consumed = Parts + 1 - n /\ Consumed \in Int
    BY <1>0, <1>2 DEF Consumed
  <2>3. ASSUME NEW i \in 1 .. Len(dev'.fifo)
        PROVE  (IF i + Consumed >= 1 THEN dev.fifo[i] = AnswerPart(i + Consumed)
                                     ELSE dev.fifo[i].tag < cmd.tag)'
    <3>0. i \in 1 .. n - 1 /\ i \in Int
      BY <1>2
    <3>1. i + 1 \in 1 .. n /\ dev'.fifo[i] = dev.fifo[i + 1] /\ i + Consumed' = (i + 1) + Consumed
      <4>1. i + 1 \in 1 .. n /\ dev'.fifo[i] = dev.fifo[i + 1]
        BY <1>2, <3>0
      <4>2. i + Consumed' = (i + 1) + Consumed
        BY <2>2, <3>0
      <4> QED BY <4>1, <4>2
    <3>2. AnswerPart(i + Consumed)' = AnswerPart((i + 1) + Consumed)
      BY <1>1, <1>4, <3>1 DEF AnswerPart
    <3> QED
      BY <1>4, <2>1, <3>1, <3>2
  <2>4. moved = Consumed => \A k \in 1 .. moved + 1 : buf'[k] = medium[k]
    <3> SUFFICES ASSUME moved = Consumed PROVE buf'[moved + 1] = medium[moved + 1]
      BY <1>0, <1>6, <2>1
    <3>1. 1 + Consumed = moved + 1 /\ 1 + Consumed >= 1 /\ moved + 1 <= Parts /\ 1 \in 1 .. n
      BY <1>0, <1>2
    <3>2. p = AnswerPart(1 + Consumed)
      BY <1>2, <2>1, <3>1
    <3>3. p = Data(moved + 1, medium[moved + 1])
      BY <3>1, <3>2 DEF AnswerPart
    <3> QED
      BY <1>6, <3>3 DEF Data
  <2>7. moved \in Nat /\ Parts \in Nat \ {0} /\ n \in Nat \ {0}
    BY <1>0, <1>2
  <2>5. CASE stage' = "data" /\ moved' = moved + 1 /\ toggle' = toggle
    <3>1. dev'.in = Expected'
      <4>1. dev.in = (toggle["in"] + moved) % 2 /\ Expected' = (toggle["in"] + (moved + 1)) % 2
        BY <1>3, <1>4, <2>5 DEF Expected, Pipe
      <4>2. toggle["in"] + moved \in Nat
            /\ toggle["in"] + (moved + 1) = (toggle["in"] + moved) + 1
        BY <1>0
      <4> QED
        BY <1>2, <4>1, <4>2, Flip
    <3>2. moved' + 1 >= Consumed' /\ (moved' = Consumed' => moved = Consumed)
      <4>1. moved + 1 >= Consumed
        BY <2>1
      <4>2. Consumed' = Consumed + 1 /\ Consumed \in Int /\ moved \in Nat /\ moved' = moved + 1
        BY <2>2, <2>5, <2>7
      <4> HIDE DEF n
      <4> QED
        BY <4>1, <4>2
    <3> QED
      BY <1>1, <1>2, <2>1, <2>3, <2>4, <2>5, <3>1, <3>2 DEF ReadInv
  <2>6. CASE stage' = "csw" /\ moved' = 0 /\ (moved + 1 = Parts \/ p.short)
    <3>1. ASSUME Consumed' = Parts PROVE buf' = medium
      <4>1. 1 + Consumed = Parts /\ 1 + Consumed >= 1 /\ 1 \in 1 .. n
        <5>1. Consumed' = Consumed + 1 /\ Consumed \in Int /\ Consumed' = Parts
          BY <2>2, <3>1
        <5> HIDE DEF n
        <5> QED BY <2>7, <5>1
      <4>5. p = AnswerPart(1 + Consumed) /\ Parts <= Parts
        BY <1>2, <2>1, <2>7, <4>1
      <4>2. p = Data(Parts, medium[Parts])
        BY <4>1, <4>5 DEF AnswerPart
      <4>3. ~p.short
        BY <4>2 DEF Data
      <4>4. moved + 1 = Parts /\ moved = Consumed
        BY <1>0, <2>2, <2>6, <4>1, <4>3
      <4> QED
        BY <1>0, <1>6, <2>4, <4>4
    <3> QED
      BY <1>1, <1>2, <2>1, <2>3, <2>6, <3>1 DEF ReadInv
  <2> QED BY <1>4, <2>5, <2>6
<1>13. ReadInv'
  BY <1>12 DEF ReadInv
<1> QED
  BY <1>7, <1>9, <1>10, <1>11, <1>13 DEF BlockInv

\* What holds of the buffer after any IN packet the driver drops, or takes for the
\* status of a command that goes on.
LEMMA ReadDrops ==
  ASSUME BlockInv, in_packet, dev.in # Expected
  PROVE  BlockInv'
<1> DEFINE p == Head(dev.fifo)
           n == Len(dev.fifo)
<1>0. /\ Parts \in Nat \ {0} /\ moved \in Nat /\ cmd.tag \in Nat
      /\ toggle \in [{"in", "out"} -> {0, 1}] /\ dev.in \in {0, 1} /\ stage \in {"idle", "cbw", "data", "csw"}
  BY UsbAssumption, TagTypes, DeviceFields DEF BlockInv, BlockType
<1>1. /\ stage # "idle" /\ Pipe = "in" /\ dev.fifo # <<>>
      /\ dev' = [dev EXCEPT !.fifo = Tail(@), !.in = 1 - @]
      /\ stage = "csw" => p.short
      /\ UNCHANGED <<stage, cmd, moved, toggle, buf, result, medium, executed>>
  BY DEF in_packet
<1>2. /\ dev' \in Devices /\ n \in Nat \ {0} /\ Len(dev'.fifo) = n - 1
      /\ \A i \in 1 .. n - 1 : i + 1 \in 1 .. n /\ dev'.fifo[i] = dev.fifo[i + 1]
      /\ dev'.in = 1 - dev.in /\ dev'.outLeft = dev.outLeft
      /\ p = dev.fifo[1] /\ p \in Packets
  BY <1>1, FifoTail DEF BlockInv
<1>3. stage \in {"data", "csw"} /\ (stage = "data" => cmd.kind = "read")
  BY <1>0, <1>1 DEF Pipe, BlockInv, BlockType
<1>4. Expected \in {0, 1} /\ Expected' = Expected
  <2>1. toggle["in"] + moved \in Nat
    BY <1>0
  <2> QED
    BY <1>1, <2>1, Flip DEF Expected, Pipe
<1>5. dev'.in = Expected'
  BY <1>0, <1>2, <1>4
<1> HIDE DEF p
<1>7. BlockType'
  BY <1>1, <1>2 DEF BlockInv, BlockType
<1>8. /\ dev'.tag <= cmd.tag /\ \A i \in 1 .. Len(dev'.fifo) : dev'.fifo[i].tag <= cmd.tag
      /\ Told' => Told
  BY <1>1, TailTags
<1>9. TagsInv'
  BY <1>1, <1>3, <1>8 DEF BlockInv, TagsInv
<1>10. WriteInv'
  BY <1>1, <1>3, <1>8 DEF BlockInv, WriteInv, Payload
<1>11. BlocksExact'
  BY <1>1 DEF BlockInv, BlocksExact, AnswerIsOwn, RestOfBlockKept, Payload
<1>12. ASSUME Told', cmd.kind = "read" PROVE ReadInv'
  <2>1. /\ dev.outLeft = 0
        /\ \A i \in 1 .. n : IF i + Consumed >= 1 THEN dev.fifo[i] = AnswerPart(i + Consumed)
                                                  ELSE dev.fifo[i].tag < cmd.tag
        /\ stage = "data" => ~(moved >= 1 \/ Consumed >= 1)
    BY <1>3, <1>8, <1>12 DEF BlockInv, ReadInv
  <2>2. Consumed' = Consumed + 1 /\ Consumed = Parts + 1 - n /\ Consumed \in Int
    BY <1>0, <1>2 DEF Consumed
  <2>3. ASSUME NEW i \in 1 .. Len(dev'.fifo)
        PROVE  (IF i + Consumed >= 1 THEN dev.fifo[i] = AnswerPart(i + Consumed)
                                     ELSE dev.fifo[i].tag < cmd.tag)'
    <3>0. i \in 1 .. n - 1 /\ i \in Int
      BY <1>2
    <3>1. i + 1 \in 1 .. n /\ dev'.fifo[i] = dev.fifo[i + 1] /\ i + Consumed' = (i + 1) + Consumed
      <4>1. i + 1 \in 1 .. n /\ dev'.fifo[i] = dev.fifo[i + 1]
        BY <1>2, <3>0
      <4>2. i + Consumed' = (i + 1) + Consumed
        BY <2>2, <3>0
      <4> QED BY <4>1, <4>2
    <3>2. AnswerPart(i + Consumed)' = AnswerPart((i + 1) + Consumed)
      BY <1>1, <3>1 DEF AnswerPart
    <3> QED
      BY <1>1, <2>1, <3>1, <3>2
  <2>4. CASE stage = "data"
    <3>1. moved' = 0 /\ moved' + 1 >= Consumed'
      <4>1. ~(moved >= 1) /\ ~(Consumed >= 1) /\ Consumed' = Consumed + 1 /\ Consumed \in Int
        BY <2>1, <2>2, <2>4
      <4> QED BY <1>0, <1>1, <4>1
    <3> QED
      BY <1>1, <1>2, <1>5, <2>1, <2>3, <2>4, <3>1 DEF ReadInv
  <2>5. CASE stage = "csw"
    <3>1. Consumed' # Parts
      <4> SUFFICES ASSUME Consumed' = Parts PROVE FALSE
        OBVIOUS
      <4>1. 1 + Consumed = Parts /\ 1 + Consumed >= 1 /\ 1 \in 1 .. n
        <5>1. Consumed' = Consumed + 1 /\ Consumed \in Int /\ Parts \in Nat \ {0} /\ n \in Nat \ {0}
          BY <1>0, <1>2, <2>2
        <5> HIDE DEF n
        <5> QED BY <5>1
      <4>2. p = AnswerPart(1 + Consumed) /\ Parts <= Parts
        BY <1>0, <1>2, <2>1, <4>1
      <4>3. p = Data(Parts, medium[Parts])
        BY <4>1, <4>2 DEF AnswerPart
      <4>4. ~p.short
        BY <4>3 DEF Data
      <4> QED BY <1>1, <2>5, <4>4 DEF p
    <3> QED
      BY <1>1, <1>2, <2>1, <2>3, <2>5, <3>1 DEF ReadInv
  <2> QED BY <1>3, <2>4, <2>5
<1>13. ReadInv'
  BY <1>1, <1>12 DEF ReadInv
<1> QED
  BY <1>7, <1>9, <1>10, <1>11, <1>13 DEF BlockInv

\* A command that ends well: a read that is to be changed goes on with its write, any
\* other command has what AnswerIsOwn asks for.
LEMMA BlockEndsWell ==
  ASSUME BlockInv, ToggleInv', stage = "csw", NEW ok, NEW wasShort, EndCmd(ok, wasShort),
         UNCHANGED <<buf, medium, executed>>,
         dev' \in Devices, dev'.tag <= cmd.tag,
         \A i \in 1 .. Len(dev'.fifo) : dev'.fifo[i].tag <= cmd.tag,
         dev'.outLeft = dev.outLeft,
         ok => /\ executed = cmd.tag
               /\ cmd.kind = "read" => buf = medium /\ dev.outLeft = 0
               /\ cmd.kind = "write" => medium = Payload
  PROVE  BlockInv'
<1>0. /\ toggle' \in [{"in", "out"} -> {0, 1}] /\ cmd.tag \in Nat /\ Parts \in Nat \ {0}
      /\ buf \in [1 .. Parts -> Vals] /\ medium \in [1 .. Parts -> Vals]
      /\ \A k \in 2 .. Parts : medium[k] = Old(k)
  BY UsbAssumption, TagTypes DEF ToggleInv, BlockInv, BlockType, BlocksExact, RestOfBlockKept
<1>t. /\ dev'.tag \in Int
      /\ \A i \in 1 .. Len(dev'.fifo) : dev'.fifo[i].tag \in Int
  <2>1. dev'.tag \in Nat /\ dev'.fifo \in Seq(Packets)
    BY DEF Devices
  <2>2. \A i \in 1 .. Len(dev'.fifo) : dev'.fifo[i] \in Packets
    BY <2>1
  <2>3. \A x \in Packets : x.tag \in Int
    BY DEF Packets
  <2> QED BY <2>1, <2>2, <2>3
<1>1. CASE ok /\ job.kind = "modify" /\ cmd.kind = "read"
  <2>1. /\ cmd' = [kind |-> "write", tag |-> cmd.tag + 1] /\ stage' = "cbw" /\ moved' = 0
        /\ result' = result
    BY <1>1 DEF EndCmd, StartCmd
  <2>2. cmd'.kind = "write" /\ cmd'.tag = cmd.tag + 1
        /\ cmd' \in [kind : {"none", "read", "write", "ready"}, tag : Nat]
    BY <1>0, <2>1
  <2>3. result = "none"
    BY DEF BlockInv, BlockType
  <2>4. BlockType'
    BY <1>0, <2>1, <2>2, <2>3 DEF BlockType
  <2>5. TagsInv'
    BY <1>0, <1>t, <2>1, <2>2 DEF TagsInv
  <2>6. ReadInv'
    BY <2>1 DEF ReadInv
  <2>7. WriteInv'
    BY <1>0, <1>1, <2>1 DEF WriteInv
  <2>8. BlocksExact'
    BY <1>0, <2>1, <2>3 DEF BlocksExact, AnswerIsOwn, RestOfBlockKept
  <2> QED
    BY <2>4, <2>5, <2>6, <2>7, <2>8 DEF BlockInv
<1>2. CASE ~(ok /\ job.kind = "modify" /\ cmd.kind = "read")
  <2>1. /\ stage' = "idle" /\ moved' = 0 /\ cmd' = cmd
        /\ result' = "ok" => ok
    BY <1>2 DEF EndCmd
  <2>2. BlockType'
    BY <1>0, <2>1 DEF BlockInv, BlockType
  <2>3. TagsInv'
    BY <2>1 DEF TagsInv
  <2>4. ReadInv' /\ WriteInv'
    BY <2>1 DEF ReadInv, WriteInv
  <2>5. BlocksExact'
    BY <1>0, <2>1 DEF BlocksExact, AnswerIsOwn, RestOfBlockKept, Payload
  <2> QED
    BY <2>2, <2>3, <2>4, <2>5 DEF BlockInv
<1> QED BY <1>1, <1>2

\* The status block: one with the tag of the command is the last thing the device
\* has to send, so that the whole block came before it.
LEMMA StatusTaken ==
  ASSUME BlockInv, ToggleInv', in_packet, stage = "csw", dev.in = Expected
  PROVE  BlockInv'
<1> DEFINE p == Head(dev.fifo)
           n == Len(dev.fifo)
           ok == p.csw /\ p.tag = cmd.tag /\ p.ok
<1>0. Parts \in Nat \ {0} /\ moved = 0 /\ cmd.tag \in Nat
  BY UsbAssumption, TagTypes DEF BlockInv, BlockType
<1>1. /\ dev.fifo # <<>> /\ dev' = [dev EXCEPT !.fifo = Tail(@), !.in = 1 - @]
      /\ Packet(p) /\ buf' = buf /\ UNCHANGED <<medium, executed>>
  BY DEF in_packet
<1>2. /\ dev' \in Devices /\ n \in Nat \ {0} /\ dev'.outLeft = dev.outLeft /\ p = dev.fifo[1]
      /\ 1 \in 1 .. n
  BY <1>1, FifoTail DEF BlockInv
<1>3. EndCmd(ok, short)
  <2>1. moved + 1 = Length
    BY <1>0 DEF Length
  <2>2. EndStage(moved + 1, p)
    BY <1>1, <2>1, Zenon DEF Packet
  <2> QED
    BY <2>2, Zenon DEF EndStage
<1>4. \A i \in 1 .. n : dev.fifo[i].tag <= cmd.tag
  BY DEF BlockInv, TagsInv
<1>5. ASSUME ok PROVE Tells(1) /\ Told
  BY <1>2, <1>5 DEF Tells, Told
<1>6. ok => /\ executed = cmd.tag
            /\ cmd.kind = "read" => buf = medium /\ dev.outLeft = 0
            /\ cmd.kind = "write" => medium = Payload
  <2> SUFFICES ASSUME ok PROVE /\ executed = cmd.tag
                               /\ cmd.kind = "read" => buf = medium /\ dev.outLeft = 0
                               /\ cmd.kind = "write" => medium = Payload
    OBVIOUS
  <2> HIDE DEF ok
  <2>1. Told /\ Tells(1)
    BY <1>5
  <2>2. executed = cmd.tag /\ (cmd.kind = "write" => medium = Payload)
    BY <2>1 DEF BlockInv, TagsInv, WriteInv
  <2>3. ASSUME cmd.kind = "read" PROVE buf = medium /\ dev.outLeft = 0
    <3>1. /\ dev.outLeft = 0
          /\ IF 1 + Consumed >= 1 THEN dev.fifo[1] = AnswerPart(1 + Consumed)
                                  ELSE dev.fifo[1].tag < cmd.tag
          /\ Consumed = Parts /\ dev.in = Expected => buf = medium
      BY <1>2, <2>1, <2>3 DEF BlockInv, ReadInv
    <3>2. dev.fifo[1].csw /\ dev.fifo[1].tag = cmd.tag
      BY <2>1 DEF Tells
    <3>3. Consumed \in Int /\ Consumed <= Parts
      BY <1>0, <1>2 DEF Consumed
    <3>4. dev.fifo[1] = AnswerPart(1 + Consumed)
      BY <1>0, <3>1, <3>2
    <3>5. ~(1 + Consumed <= Parts)
      <4> SUFFICES ASSUME 1 + Consumed <= Parts PROVE FALSE
        OBVIOUS
      <4>1. dev.fifo[1] = Data(1 + Consumed, medium[1 + Consumed])
        BY <3>4 DEF AnswerPart
      <4>2. ~dev.fifo[1].csw
        BY <4>1 DEF Data
      <4> QED BY <3>2, <4>2
    <3>6. Consumed = Parts
      BY <1>0, <3>3, <3>5
    <3> QED BY <3>1, <3>6
  <2> QED BY <2>2, <2>3
<1> HIDE DEF ok
<1>7. cmd' = cmd \/ cmd' # cmd
  OBVIOUS
<1>8. dev'.tag <= cmd.tag /\ \A i \in 1 .. Len(dev'.fifo) : dev'.fifo[i].tag <= cmd.tag
  <2>1. /\ dev'.tag = dev.tag
        /\ \A i \in 1 .. Len(dev'.fifo) : i + 1 \in 1 .. n /\ dev'.fifo[i] = dev.fifo[i + 1]
    BY <1>1, FifoTail DEF BlockInv
  <2>2. dev.tag <= cmd.tag
    BY DEF BlockInv, TagsInv
  <2> QED BY <1>4, <2>1, <2>2
<1> QED
  BY <1>1, <1>2, <1>3, <1>6, <1>8, BlockEndsWell

\* A packet from the device (in_packet).
LEMMA BlockIn ==
  ASSUME BlockInv, ToggleInv', in_packet
  PROVE  BlockInv'
<1>1. stage \in {"data", "csw"} /\ (stage = "data" => cmd.kind = "read")
  BY DEF in_packet, Pipe, BlockInv, BlockType
<1> QED
  BY <1>1, ReadTakes, ReadDrops, StatusTaken

\* A failed transfer ends the command (FailStage).
LEMMA FailEnds ==
  ASSUME FailStage
  PROVE  stage' = "idle" /\ moved' = 0 /\ result' = "failed" /\ cmd' = cmd
BY DEF FailStage, EndCmd

\* A transfer that fails, with or without a packet exchanged behind the driver's back.
LEMMA BlockFailed ==
  ASSUME BlockInv, ToggleInv', bus_error \/ time_out \/ late_packet
  PROVE  BlockInv'
<1>0. /\ toggle' \in [{"in", "out"} -> {0, 1}] /\ medium \in [1 .. Parts -> Vals] /\ dev \in Devices
      /\ dev.tag <= cmd.tag /\ \A i \in 1 .. Len(dev.fifo) : dev.fifo[i].tag <= cmd.tag
      /\ RestOfBlockKept /\ BlockType /\ stage \in {"idle", "cbw", "data", "csw"}
  BY DEF ToggleInv, BlockInv, BlockType, BlocksExact, TagsInv
<1>1. stage' = "idle" /\ moved' = 0 /\ result' = "failed" /\ UNCHANGED <<cmd, buf>>
  BY FailEnds DEF bus_error, time_out, late_packet
<1>2. CASE medium' = medium /\ dev' \in Devices /\ dev'.fifo = dev.fifo /\ dev'.tag = dev.tag
  <2>1. RestOfBlockKept'
    BY <1>0, <1>2 DEF RestOfBlockKept
  <2> QED
    BY <1>0, <1>1, <1>2, <2>1, BlockFails
<1>3. CASE bus_error
  <2> DEFINE h == dev.halted \/ (Pipe = "out" /\ Fresh /\ Misplaced)
  <2>1. medium' = medium /\ dev' = [dev EXCEPT !.halted = h]
    BY <1>3 DEF bus_error
  <2>2. h \in BOOLEAN
    OBVIOUS
  <2> HIDE DEF h
  <2>3. dev' \in Devices /\ dev'.fifo = dev.fifo /\ dev'.tag = dev.tag
    BY <1>0, <2>1, <2>2 DEF Devices
  <2> QED BY <1>2, <2>1, <2>3
<1>4. CASE time_out
  BY <1>0, <1>2, <1>4 DEF time_out
<1>5. CASE late_packet
  <2>1. CASE Pipe = "in"
    <3>1. /\ dev.fifo # <<>> /\ dev' = [dev EXCEPT !.fifo = Tail(@), !.in = 1 - @]
          /\ medium' = medium
      BY <1>5, <2>1 DEF late_packet
    <3>2. dev' \in Devices
      BY <1>0, <3>1, FifoTail
    <3>3. dev'.tag <= cmd.tag /\ \A i \in 1 .. Len(dev'.fifo) : dev'.fifo[i].tag <= cmd.tag
      BY <1>1, <3>1, TailTags
    <3>4. RestOfBlockKept'
      BY <1>0, <3>1 DEF RestOfBlockKept
    <3> QED
      BY <1>0, <1>1, <3>1, <3>2, <3>3, <3>4, BlockFails
  <2>2. CASE Pipe = "out"
    <3>1. DeviceTakes("good") /\ (Fresh => ~Misplaced) /\ stage # "idle"
      BY <1>5, <2>2 DEF late_packet
    <3>2. CASE ~Fresh
      BY <1>0, <1>2, <3>1, <3>2 DEF DeviceTakes
    <3>3. CASE Fresh /\ stage = "cbw"
      <4> DEFINE A == AnswerTo("good")
                 n == Len(dev.fifo)
      <4>1. /\ dev' = [fifo |-> dev.fifo \o A, outLeft |-> IF cmd.kind = "write" THEN Parts ELSE 0,
                       tag |-> cmd.tag, in |-> dev.in, out |-> 1 - dev.out,
                       halted |-> ("good" = "stall")]
            /\ medium' = medium
        BY <1>0, <3>1, <3>3, AcceptedRecord
      <4>2. /\ A \in Seq(Packets) /\ \A i \in 1 .. Len(A) : A[i].tag <= cmd.tag
        BY <1>0, AnswerSeq
      <4>3. /\ dev.fifo \in Seq(Packets) /\ cmd.tag \in Nat /\ dev.in \in {0, 1} /\ dev.out \in {0, 1}
            /\ Parts \in Nat /\ n \in Nat
        BY <1>0, TagTypes, DeviceFields, UsbAssumption
      <4> HIDE DEF A
      <4>4. /\ dev.fifo \o A \in Seq(Packets) /\ Len(dev.fifo \o A) = n + Len(A) /\ Len(A) \in Nat
            /\ \A i \in 1 .. n + Len(A) : (dev.fifo \o A)[i] = IF i <= n THEN dev.fifo[i] ELSE A[i - n]
        BY <4>2, <4>3, ConcatProperties
      <4>5. dev'.fifo = dev.fifo \o A /\ dev'.tag = cmd.tag
        BY <4>1
      <4>6. dev' \in Devices
        <5>1. ("good" = "stall") \in BOOLEAN
          OBVIOUS
        <5>2. 1 - dev.out \in {0, 1} /\ (IF cmd.kind = "write" THEN Parts ELSE 0) \in 0 .. Parts
          BY <4>3
        <5> QED
          BY <4>1, <4>3, <4>4, <5>1, <5>2, Zenon DEF Devices
      <4>7. ASSUME NEW i \in 1 .. Len(dev'.fifo) PROVE dev'.fifo[i].tag <= cmd.tag
        <5>1. i \in 1 .. n + Len(A)
          BY <4>4, <4>5
        <5>2. CASE i <= n
          BY <1>0, <4>3, <4>4, <4>5, <5>1, <5>2
        <5>3. CASE i > n
          <6>1. i - n \in 1 .. Len(A) /\ ~(i <= n)
            BY <4>3, <4>4, <5>1, <5>3
          <6> QED BY <4>2, <4>4, <4>5, <5>1, <6>1
        <5> QED BY <4>3, <4>4, <5>1, <5>2, <5>3
      <4>8. RestOfBlockKept' /\ medium' \in [1 .. Parts -> Vals]
        BY <1>0, <4>1 DEF RestOfBlockKept
      <4>9. dev'.tag <= cmd.tag
        BY <4>3, <4>5
      <4> QED
        BY <1>0, <1>1, <4>6, <4>7, <4>8, <4>9, BlockFails
    <3>4. CASE Fresh /\ stage # "cbw"
      <4>1. stage = "data" /\ cmd.kind = "write"
        BY <1>0, <2>2, <3>1, <3>4 DEF Pipe
      <4>2. /\ dev' \in Devices /\ dev'.tag = cmd.tag /\ medium' \in [1 .. Parts -> Vals]
            /\ RestOfBlockKept'
            /\ \A i \in 1 .. Len(dev'.fifo) : dev'.fifo[i].tag <= cmd.tag
        BY <3>1, <3>4, <4>1, DataTaken
      <4>3. dev'.tag <= cmd.tag
        BY <4>2, TagTypes, <1>0
      <4> QED
        BY <1>0, <1>1, <4>2, <4>3, BlockFails
    <3> QED BY <3>2, <3>3, <3>4
  <2> QED BY <2>1, <2>2, PipeType
<1> QED BY <1>3, <1>4, <1>5

\* The data stage of a read that never starts: with the whole block already gone by,
\* the toggles no longer agree and the status is not taken.
LEMMA ReadNotStarted ==
  ASSUME BlockInv, ToggleInv', stage = "data", cmd.kind = "read", moved = 0,
         NEW p, EndStage(Length, p), UNCHANGED <<buf, dev, medium, executed>>
  PROVE  BlockInv'
<1>0. /\ Parts \in Nat \ {0} /\ toggle \in [{"in", "out"} -> {0, 1}] /\ Length = Parts /\ Pipe = "in"
      /\ dev.in \in {0, 1}
  BY UsbAssumption, DeviceFields DEF BlockInv, BlockType, Length, Pipe
<1>1. /\ moved' = 0 /\ stage' = "csw" /\ UNCHANGED <<cmd, result>>
      /\ toggle' = [toggle EXCEPT !["in"] = (@ + Parts) % 2]
  BY <1>0, DataEnds
<1>2. BlockType'
  <2>1. toggle' \in [{"in", "out"} -> {0, 1}]
    BY DEF ToggleInv
  <2> QED
    BY <1>0, <1>1, <2>1 DEF BlockInv, BlockType
<1>3. Told' <=> Told
  BY <1>1 DEF Told, Tells
<1>4. TagsInv'
  BY <1>1, <1>3 DEF BlockInv, TagsInv
<1>5. ReadInv'
  <2> SUFFICES ASSUME Told
               PROVE  /\ dev'.outLeft = 0
                      /\ \A i \in 1 .. Len(dev'.fifo) :
                           IF i + Consumed' >= 1 THEN dev'.fifo[i] = AnswerPart(i + Consumed)'
                                                 ELSE dev'.fifo[i].tag < cmd'.tag
                      /\ Consumed' = Parts /\ dev'.in = Expected' => buf' = medium'
    BY <1>1, <1>3 DEF ReadInv
  <2>1. /\ dev.outLeft = 0
        /\ \A i \in 1 .. Len(dev.fifo) :
             IF i + Consumed >= 1 THEN dev.fifo[i] = AnswerPart(i + Consumed)
                                  ELSE dev.fifo[i].tag < cmd.tag
        /\ Consumed >= 1 => dev.in = Expected
        /\ moved + 1 >= Consumed
    BY DEF BlockInv, ReadInv
  <2>2. Consumed' = Consumed /\ \A k : AnswerPart(k)' = AnswerPart(k)
    BY <1>1 DEF Consumed, AnswerPart
  <2>3. Consumed = Parts /\ dev.in = Expected' => FALSE
    <3> SUFFICES ASSUME Consumed = Parts, dev.in = Expected' PROVE FALSE
      OBVIOUS
    <3>1. Parts = 1
      BY <1>0, <2>1
    <3>2. Expected = toggle["in"]
      BY <1>0 DEF Expected
    <3>3. Expected' = (toggle["in"] + 1) % 2
      <4>1. Pipe' = "in"
        BY <1>1 DEF Pipe
      <4>2. toggle'["in"] = (toggle["in"] + 1) % 2
        BY <1>0, <1>1, <3>1
      <4>3. toggle["in"] \in {0, 1}
        BY <1>0
      <4> QED BY <1>1, <4>1, <4>2, <4>3 DEF Expected
    <3>4. dev.in = toggle["in"]
      BY <1>0, <2>1, <3>2
    <3>5. toggle["in"] \in {0, 1}
      BY <1>0
    <3> QED BY <3>3, <3>4, <3>5
  <2> QED BY <1>1, <2>1, <2>2, <2>3
<1>6. WriteInv'
  BY <1>1 DEF WriteInv
<1>7. BlocksExact'
  BY <1>1 DEF BlockInv, BlockType, BlocksExact, AnswerIsOwn, RestOfBlockKept
<1> QED
  BY <1>2, <1>4, <1>5, <1>6, <1>7 DEF BlockInv

\* The data stage of a write that never starts leaves the device without the data.
LEMMA WriteNotStarted ==
  ASSUME BlockInv, ToggleInv', stage = "data", cmd.kind = "write",
         NEW p, EndStage(Length, p), UNCHANGED <<buf, dev, medium, executed>>
  PROVE  BlockInv'
<1>1. moved' = 0 /\ stage' = "csw" /\ UNCHANGED <<cmd, result>>
  BY DataEnds
<1>2. BlockType'
  <2>1. toggle' \in [{"in", "out"} -> {0, 1}] /\ 0 < Parts
    BY UsbAssumption DEF ToggleInv
  <2> QED
    BY <1>1, <2>1 DEF BlockInv, BlockType
<1>3. Told' <=> Told
  BY <1>1 DEF Told, Tells
<1>4. TagsInv'
  BY <1>1, <1>3 DEF BlockInv, TagsInv
<1>5. ReadInv'
  BY <1>1 DEF ReadInv
<1>6. WriteInv'
  <2>1. ~Told /\ \A k \in 2 .. Parts : buf[k] = Old(k)
    BY DEF BlockInv, WriteInv
  <2> QED BY <1>1, <1>3, <2>1 DEF WriteInv
<1>7. BlocksExact'
  BY <1>1 DEF BlockInv, BlockType, BlocksExact, AnswerIsOwn, RestOfBlockKept
<1> QED
  BY <1>2, <1>4, <1>5, <1>6, <1>7 DEF BlockInv

\* EHCI reports a transfer that never started as done; what is left in its buffer is
\* never the status of this command.
LEMMA BlockNotStarted ==
  ASSUME BlockInv, ToggleInv', not_started
  PROVE  BlockInv'
<1>1. PICK p \in {Csw(cmd.tag - 1, TRUE), Data(1, Junk)} : EndStage(Length, p)
  BY DEF not_started
<1>2. moved = 0 /\ stage # "idle" /\ UNCHANGED <<buf, dev, medium, executed>>
  BY DEF not_started
<1>3. CASE stage = "cbw"
  <2>1. toggle' \in [{"in", "out"} -> {0, 1}]
    BY DEF ToggleInv
  <2> QED
    BY <1>1, <1>2, <1>3, <2>1, CbwEnds, CbwLost
<1>4. CASE stage = "data"
  <2>1. cmd.kind \in {"read", "write"}
    BY <1>4 DEF BlockInv, BlockType
  <2> QED
    BY <1>1, <1>2, <1>4, <2>1, ReadNotStarted, WriteNotStarted
<1>5. CASE stage = "csw"
  <2>1. ~(p.csw /\ p.tag = cmd.tag /\ p.ok)
    <3>1. cmd.tag \in Nat
      BY TagTypes DEF BlockInv
    <3>2. CASE p = Csw(cmd.tag - 1, TRUE)
      BY <3>1, <3>2 DEF Csw
    <3>3. CASE p = Data(1, Junk)
      BY <3>3 DEF Data
    <3> QED BY <3>2, <3>3
  <2>2. EndCmd(p.csw /\ p.tag = cmd.tag /\ p.ok, short)
    BY <1>1, <1>5, Zenon DEF EndStage
  <2>3. /\ dev' \in Devices /\ dev'.tag <= cmd.tag /\ dev'.outLeft = dev.outLeft
        /\ \A i \in 1 .. Len(dev'.fifo) : dev'.fifo[i].tag <= cmd.tag
    BY <1>2 DEF BlockInv, BlockType, TagsInv
  <2> QED
    BY <1>2, <1>5, <2>1, <2>2, <2>3, BlockEndsWell
<1> QED
  BY <1>2, <1>3, <1>4, <1>5 DEF BlockInv, BlockType

\* Every step of the driver, of the device and of the bus keeps the invariant.
LEMMA BlockStep == ToggleInv /\ BlockInv /\ [UsbNext]_usbvars => BlockInv'
<1> SUFFICES ASSUME ToggleInv, BlockInv, [UsbNext]_usbvars PROVE BlockInv'
  OBVIOUS
<1>0. ToggleInv'
  BY ToggleStep
<1>1. CASE UNCHANGED usbvars
  BY <1>1, BlockSame DEF usbvars
<1>2. CASE \E p \in Ports : enumerate_port(p)
  <2>1. UNCHANGED <<stage, cmd, moved, toggle, buf, dev, medium, executed, result>>
    BY <1>2 DEF enumerate_port
  <2> QED BY <2>1, BlockSame
<1>3. CASE \E kind \in {"capacity", "read", "modify", "ready"} : block_request(kind)
  BY <1>3, BlockRequest
<1>4. CASE \E outcome \in {"good", "fail", "stall"} : out_packet(outcome)
  BY <1>0, <1>4, BlockOut
<1>5. CASE in_packet
  BY <1>0, <1>5, BlockIn
<1>6. CASE bus_error \/ time_out \/ late_packet
  BY <1>0, <1>6, BlockFailed
<1>7. CASE not_started
  BY <1>0, <1>7, BlockNotStarted
<1> QED
  BY <1>1, <1>2, <1>3, <1>4, <1>5, <1>6, <1>7 DEF UsbNext

\* A block read or written through a USB disk with success was read or written by the
\* device for that very command, and the rest of a block written in part is kept
\* (msd_command, bulk_transfer), for blocks of any number of packets and any number
\* of commands, stalls, timeouts, late packets and transfers that never start.
THEOREM BlocksExactAlways == UsbSpec => []BlocksExact
<1>1. BlockInv => BlocksExact
  BY DEF BlockInv
<1> QED
  BY <1>1, BlockInit, BlockStep, ToggleInvariant, PTL DEF UsbSpec
================================================================================
