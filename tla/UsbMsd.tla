-------------------------------- MODULE UsbMsd --------------------------------
(* kernel/uhci.c and kernel/ehci.c: a USB stick as a block device.  The driver *)
(* enumerates the ports, then runs SCSI commands in Bulk-Only Transport: a     *)
(* command block (CBW) out, data in or out, a status block (CSW) in.  A step   *)
(* is one transaction on the bus.  The driver polls with a timeout, so answers *)
(* may come late; the device keeps what it has to send in a FIFO, and its      *)
(* data toggles are its own.  A block has Parts packets.                       *)
EXTENDS Integers, Sequences, FiniteSets

CONSTANTS Parts, Ports, NewValue, MaxCmds, MaxFaults

ASSUME UsbAssumption == Parts \in Nat \ {0}

VARIABLES drv,       \* "uhci" or "ehci"
          usb_devices,   \* port -> what enumeration recorded
          probed,    \* ports probed and enumerated
          job,       \* the request of the block layer
          stage,     \* "idle", "cbw", "data" or "csw"
          cmd,       \* the SCSI command: [kind, tag]
          moved,     \* packets moved in this stage
          toggle,    \* pipe -> toggle kept by the driver
          buf,       \* the sector buffer: part -> contents
          short,     \* the data stage ended on a short packet
          result,    \* of the last job
          dev,       \* the device: fifo, outLeft, tag, toggle, halted
          medium,    \* part -> contents of the block
          executed,  \* tag of the last command the device carried out
          late,      \* a packet was exchanged that the driver had given up on
          faults

usbvars == <<drv, usb_devices, probed, job, stage, cmd, moved, toggle, buf, short,
             result, dev, medium, executed, late, faults>>

Junk == <<"junk", 0>>
Old(k) == <<"old", k>>
NoDevice == [valid |-> FALSE, configured |-> FALSE, bulk |-> FALSE]
NoJob == [kind |-> "none"]
Data(k, v) == [csw |-> FALSE, tag |-> 0, part |-> k, val |-> v, short |-> FALSE, ok |-> TRUE]
ShortData == [csw |-> FALSE, tag |-> 0, part |-> 0, val |-> Junk, short |-> TRUE, ok |-> TRUE]
Csw(tag, ok) == [csw |-> TRUE, tag |-> tag, part |-> 0, val |-> Junk, short |-> TRUE, ok |-> ok]

UsbInit ==
  /\ drv \in {"uhci", "ehci"}
  /\ usb_devices = [p \in Ports |-> NoDevice] /\ probed = {}
  /\ job = NoJob /\ stage = "idle" /\ cmd = [kind |-> "none", tag |-> 0]
  /\ moved = 0 /\ toggle = [in |-> 0, out |-> 0]
  /\ buf = [k \in 1 .. Parts |-> Junk] /\ short = FALSE /\ result = "none"
  /\ dev = [fifo |-> <<>>, outLeft |-> 0, tag |-> 0, in |-> 0, out |-> 0, halted |-> FALSE]
  /\ medium = [k \in 1 .. Parts |-> Old(k)]
  /\ executed = 0 /\ late = FALSE /\ faults = 0

hostIdle == stage = "idle" /\ job = NoJob
-------------------------------------------------------------------------------
(* Enumeration: six control transfers, of which the first to fail is the last. *)
(* The device is recorded after the third, and usable when the sixth           *)
(* (SET_CONFIGURATION) succeeds; the parse finds a pair of bulk endpoints or   *)
(* none.  A port that is not connected, or that EHCI releases to its companion *)
(* controller because the device is not high-speed, is not enumerated.         *)
enumerate_port(p) ==
  /\ probed # Ports /\ p \notin probed /\ \A q \in Ports : q < p => q \in probed
  /\ probed' = probed \cup {p}
  /\ \E enabled, bulk \in BOOLEAN, passed \in 0 .. 6 :
       usb_devices' = [usb_devices EXCEPT ![p] =
         IF ~enabled THEN NoDevice
         ELSE [valid |-> passed >= 3, configured |-> passed = 6, bulk |-> passed >= 5 /\ bulk]]
  /\ UNCHANGED <<drv, job, stage, cmd, moved, toggle, buf, short, result, dev, medium, executed, late, faults>>

msd_device == {p \in Ports : usb_devices[p].valid /\ usb_devices[p].configured /\ usb_devices[p].bulk}
-------------------------------------------------------------------------------
(* Commands *)

StartCmd(kind) ==
  /\ cmd' = [kind |-> kind, tag |-> cmd.tag + 1]
  /\ stage' = "cbw" /\ moved' = 0 /\ short' = FALSE

\* A request: the capacity, a whole block, the first part of one (which is read,
\* changed and written back), or whether the unit is ready.
block_request(kind) ==
  /\ probed = Ports /\ msd_device # {} /\ hostIdle /\ cmd.tag < MaxCmds
  /\ job' = [kind |-> kind]
  /\ StartCmd(CASE kind = "modify" -> "read" [] kind = "capacity" -> "read" [] OTHER -> kind)
  /\ buf' = [k \in 1 .. Parts |-> Junk] /\ result' = "none"
  /\ UNCHANGED <<drv, usb_devices, probed, toggle, dev, medium, executed, late, faults>>

Payload == [buf EXCEPT ![1] = NewValue]
Pipe == IF stage = "cbw" \/ (stage = "data" /\ cmd.kind = "write") THEN "out" ELSE "in"
Length == IF stage = "data" THEN Parts ELSE 1
Expected == (toggle[Pipe] + moved) % 2

\* The command is over with this outcome, and with it the job, unless it was the
\* read of a read-modify-write.  READ CAPACITY alone minds a short answer.
EndCmd(ok, wasShort) ==
  IF ok /\ job.kind = "modify" /\ cmd.kind = "read"
  THEN StartCmd("write") /\ UNCHANGED <<job, result>>
  ELSE /\ stage' = "idle" /\ moved' = 0 /\ job' = NoJob
       /\ result' = IF ok /\ ~(job.kind = "capacity" /\ wasShort) THEN "ok" ELSE "failed"
       /\ UNCHANGED <<cmd, short>>

\* Variant: any status block will do.
EndStageAnyTag(n, p) ==
  /\ toggle' = [toggle EXCEPT ![Pipe] = (@ + n) % 2]
  /\ CASE stage = "cbw" -> /\ stage' = IF cmd.kind \in {"read", "write"} THEN "data" ELSE "csw"
                           /\ moved' = 0 /\ UNCHANGED <<job, cmd, short, result>>
       [] stage = "data" -> /\ stage' = "csw" /\ moved' = 0 /\ short' = (p.short /\ cmd.kind = "read")
                            /\ UNCHANGED <<job, cmd, result>>
       [] stage = "csw" -> EndCmd(p.csw /\ p.ok, short)

\* bulk_transfer succeeded after n packets: the toggle follows, and the command
\* goes on to its next stage, where a CSW must carry the command's own tag.
EndStage(n, p) ==
  /\ toggle' = [toggle EXCEPT ![Pipe] = (@ + n) % 2]
  /\ CASE stage = "cbw" -> /\ stage' = IF cmd.kind \in {"read", "write"} THEN "data" ELSE "csw"
                           /\ moved' = 0 /\ UNCHANGED <<job, cmd, short, result>>
       [] stage = "data" -> /\ stage' = "csw" /\ moved' = 0 /\ short' = (p.short /\ cmd.kind = "read")
                            /\ UNCHANGED <<job, cmd, result>>
       [] stage = "csw" -> EndCmd(p.csw /\ p.tag = cmd.tag /\ p.ok, short)

\* Variant: the packets of a failed transfer are forgotten.
FailStageUncounted == toggle' = toggle /\ EndCmd(FALSE, FALSE)

\* bulk_transfer failed.  UHCI counts the packets that did move; EHCI leaves the
\* toggle where it was.
FailStage ==
  /\ toggle' = IF drv = "uhci" THEN [toggle EXCEPT ![Pipe] = Expected] ELSE toggle
  /\ EndCmd(FALSE, FALSE)

Packet(p) ==
  IF moved + 1 = Length \/ (Pipe = "in" /\ p.short) THEN EndStage(moved + 1, p)
  ELSE moved' = moved + 1 /\ UNCHANGED <<job, stage, cmd, toggle, short, result>>
-------------------------------------------------------------------------------
(* Transactions *)

\* The device takes an OUT packet with the toggle it expects; with the other one
\* it acknowledges it and throws it away.  A block where a command was due, or a
\* command where a block was due, halts it.
Fresh == dev.out = Expected
Misplaced == (stage = "cbw") # (dev.outLeft = 0)

AcceptCbw(d, outcome) ==
  LET answer == CASE outcome = "fail"  -> (IF cmd.kind = "read" THEN <<ShortData>> ELSE <<>>) \o <<Csw(cmd.tag, FALSE)>>
                  [] outcome = "good" /\ cmd.kind = "read" ->
                       [k \in 1 .. Parts |-> Data(k, medium[k])] \o <<Csw(cmd.tag, TRUE)>>
                  [] outcome = "good" /\ cmd.kind = "ready" -> <<Csw(cmd.tag, TRUE)>>
                  [] OTHER -> <<>>
  IN  [d EXCEPT !.tag = cmd.tag, !.fifo = @ \o answer, !.halted = (outcome = "stall"),
                !.outLeft = IF outcome = "good" /\ cmd.kind = "write" THEN Parts ELSE 0]

DeviceTakes(outcome) ==
  LET part == Parts - dev.outLeft + 1
      d == [dev EXCEPT !.out = 1 - @]
  IN  IF ~Fresh THEN UNCHANGED <<dev, medium, executed>>
      ELSE IF stage = "cbw"
      THEN /\ dev' = AcceptCbw(d, outcome)
           /\ executed' = IF outcome = "good" /\ cmd.kind # "write" THEN cmd.tag ELSE executed
           /\ UNCHANGED medium
      ELSE /\ medium' = [medium EXCEPT ![part] = Payload[moved + 1]]
           /\ dev' = [d EXCEPT !.outLeft = @ - 1,
                               !.fifo = IF dev.outLeft = 1 THEN Append(@, Csw(dev.tag, TRUE)) ELSE @]
           /\ executed' = IF dev.outLeft = 1 THEN dev.tag ELSE executed

out_packet(outcome) ==
  /\ stage # "idle" /\ Pipe = "out" /\ ~dev.halted /\ (Fresh => ~Misplaced)
  /\ outcome # "good" => faults < MaxFaults /\ stage = "cbw" /\ Fresh
  /\ faults' = IF outcome = "good" THEN faults ELSE faults + 1
  /\ DeviceTakes(outcome)
  /\ Packet(Csw(0, TRUE))
  /\ UNCHANGED <<drv, usb_devices, probed, buf, late>>

\* The driver drops an IN packet that carries the toggle of the one before, which
\* the device takes for delivered.
in_packet ==
  /\ stage # "idle" /\ Pipe = "in" /\ ~dev.halted /\ dev.fifo # <<>>
  /\ LET p == Head(dev.fifo) IN
       /\ stage = "csw" => p.short
       /\ dev' = [dev EXCEPT !.fifo = Tail(@), !.in = 1 - @]
       /\ IF dev.in = Expected
          THEN /\ buf' = IF stage = "data" THEN [buf EXCEPT ![moved + 1] = p.val] ELSE buf
               /\ Packet(p)
          ELSE UNCHANGED <<buf, job, stage, cmd, moved, toggle, short, result>>
  /\ UNCHANGED <<drv, usb_devices, probed, medium, executed, late, faults>>

\* STALL, babble (a block where 13 bytes were asked for), or a bus error.
bus_error ==
  /\ stage # "idle"
  /\ \/ dev.halted
     \/ Pipe = "out" /\ Fresh /\ Misplaced
     \/ Pipe = "in" /\ dev.fifo # <<>> /\ stage = "csw" /\ ~Head(dev.fifo).short
     \/ faults < MaxFaults
  /\ dev' = [dev EXCEPT !.halted = @ \/ (Pipe = "out" /\ Fresh /\ Misplaced)]
  /\ faults' = IF dev.halted \/ dev'.halted THEN faults ELSE IF faults < MaxFaults THEN faults + 1 ELSE faults
  /\ FailStage
  /\ UNCHANGED <<drv, usb_devices, probed, buf, medium, executed, late>>

\* The driver stops waiting.  The packet it no longer waits for may still be
\* exchanged, in the frame the controller is in.
time_out ==
  /\ stage # "idle"
  /\ \/ Pipe = "in" /\ dev.fifo = <<>> /\ UNCHANGED faults
     \/ faults < MaxFaults /\ faults' = faults + 1
  /\ FailStage
  /\ UNCHANGED <<drv, usb_devices, probed, buf, dev, medium, executed, late>>

late_packet ==
  /\ stage # "idle" /\ ~dev.halted
  /\ faults < MaxFaults /\ faults' = faults + 1
  /\ late' = TRUE
  /\ \/ /\ Pipe = "in" /\ dev.fifo # <<>>
        /\ dev' = [dev EXCEPT !.fifo = Tail(@), !.in = 1 - @]
        /\ UNCHANGED <<medium, executed>>
     \/ Pipe = "out" /\ (Fresh => ~Misplaced) /\ DeviceTakes("good")
  /\ FailStage
  /\ UNCHANGED <<drv, usb_devices, probed, buf>>

\* ehci_wait_overlay: the controller did not start on the transfer while the
\* driver let it settle, and the idle overlay reads as a transfer of all bytes.
not_started ==
  /\ drv = "ehci" /\ stage # "idle" /\ moved = 0 /\ faults < MaxFaults
  /\ faults' = faults + 1
  /\ \E stale \in {Csw(cmd.tag - 1, TRUE), Data(1, Junk)} : EndStage(Length, stale)
  /\ UNCHANGED <<drv, usb_devices, probed, buf, dev, medium, executed, late>>

UsbNext ==
  \/ \E p \in Ports : enumerate_port(p)
  \/ \E kind \in {"capacity", "read", "modify", "ready"} : block_request(kind)
  \/ \E outcome \in {"good", "fail", "stall"} : out_packet(outcome)
  \/ in_packet \/ bus_error \/ time_out \/ late_packet \/ not_started

UsbSpec == UsbInit /\ [][UsbNext]_usbvars
-------------------------------------------------------------------------------
(* Properties *)

\* A command that returns success was carried out by the device, that very
\* command; and a read that succeeds has left the block in the buffer, after any
\* number of stalls, timeouts, late answers and transfers that never started.
AnswerIsOwn ==
  result = "ok" => /\ executed = cmd.tag
                   /\ cmd.kind = "read" => buf = medium
                   /\ cmd.kind = "write" => medium = Payload

\* Writing part of a block never changes the rest of it, on failures included.
RestOfBlockKept == \A k \in 2 .. Parts : medium[k] = Old(k)

\* UHCI keeps its toggles those of the device through short and failed transfers,
\* for as long as no packet is exchanged behind its back.
TogglesAgree ==
  drv = "uhci" /\ stage = "idle" /\ ~late => toggle.in = dev.in /\ toggle.out = dev.out

\* The block device over USB: a read or write that reports success was done by
\* the device for this very command (msd_command's tag and residue checks), and
\* nothing but the bytes asked for changes on the medium.
BlocksExact == AnswerIsOwn /\ RestOfBlockKept
================================================================================
