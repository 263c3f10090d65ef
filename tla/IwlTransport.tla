------------------------------- MODULE IwlTransport -------------------------------
(* The Intel 9560 driver's transport (kernel/iwlwifi.c): iwlwifi_probe boots   *)
(* the INIT firmware, reads the NVM and the calibration through it, restarts   *)
(* the card with the RUNTIME firmware and hands the calibration back; every    *)
(* step talks to the firmware through a ring of host commands and a ring of    *)
(* receive buffers.  The firmware is external: it fetches commands in order,   *)
(* answers each with the command's sequence number and posts notifications of  *)
(* its own; several packets may share a receive buffer.  The driver stops      *)
(* waiting for an answer after a bounded loop, so an answer may come late.     *)
EXTENDS Integers, Sequences, FiniteSets, FiniteSetsExt, SequencesExt

CONSTANTS IWL_RX_QUEUE_SIZE, \* receive buffers in the ring (512)
          RX_PUBLISH,        \* the write index is published in multiples of this (8)
          IWL_CMD_QUEUE_SLOTS, \* host-command buffers (32)
          IWL_TFD_HW_SLOTS,  \* sequence numbers of the hardware ring (256)
          IWL_NVM_CHUNK_SIZE, \* bytes of NVM one command reads
          NvmSections,       \* the card's NVM: a sequence of section sizes, 0 when missing
          Calibration,       \* PHY DB records the INIT firmware produces
          PhyDbStorage,      \* records phy_db_region holds
          PacksAnswers,      \* whether packets may follow an answer in its buffer
          IWL_AUX_TX_SLOTS,  \* buffers of frames to send (32)
          MaxCommands,       \* bound on the host commands of one image
          MaxTxFrames          \* bound on the frames sent

ASSUME RxAssumption ==
  /\ IWL_RX_QUEUE_SIZE \in Nat /\ RX_PUBLISH \in Nat \ {0}
  /\ RX_PUBLISH < IWL_RX_QUEUE_SIZE

VARIABLES probe,             \* index into Program; 0 once iwlwifi_probe gave up
          waiting,           \* the command send_command_sync waits for, or NoCommand
          command_write_index, command_read_index,
          command_region,    \* the command each software slot holds
          nvm,               \* [section, offset, stored, table]: read_nvm_sections
          phy_db, init_complete, phy_db_sections_sent,
          scan_active,
          aux_tx,            \* [write_index, read_index, region]: the queue of frames to send
          free_rbd, rx_write_index, rx_write_actual, rx_read_index,
          used_rbd, closed_rb_num, rx_buffer, \* the device's side of the receive ring
          firmware,          \* [image, fetched, sent, due]: the card
          open,              \* packets the firmware has not closed a buffer over
          accepted           \* history: the command whose answer was last accepted

cmdvars == <<command_write_index, command_read_index, command_region>>
rxringvars == <<free_rbd, rx_write_index, rx_write_actual, rx_read_index, rx_buffer>>
notevars == <<phy_db, init_complete, scan_active, aux_tx>>
hwvars == <<used_rbd, closed_rb_num, firmware, open>>
iwlvars == <<probe, waiting, cmdvars, nvm, notevars, phy_db_sections_sent, rxringvars, hwvars, accepted>>

Ring == 0 .. IWL_RX_QUEUE_SIZE - 1
Succ(i) == (i + 1) % IWL_RX_QUEUE_SIZE
Published(i) == i - (i % RX_PUBLISH)
Packet(c, s, n) == [cmd |-> c, seq |-> s, n |-> n]
NoCommand == Packet("none", 0, 0)
Note(c, n) == Packet(c, -1, n)
NoFrames == [write_index |-> 0, read_index |-> 0, region |-> [s \in 0 .. IWL_AUX_TX_SLOTS - 1 |-> 0]]

\* What iwlwifi_probe does, in order; each name is a function or a host command.
Program == <<"upload", "alive", "activate", "echo", "nvm", "calibrate",
             "tx_ant", "phy_cfg", "calibration", "restart",
             "upload", "alive", "activate", "echo", "paging", "tx_ant", "phy_db",
             "phy_cfg", "dqa", "aux_queue", "add_sta", "phy_context", "scan_cfg">>
Commands == {"echo", "nvm", "tx_ant", "phy_cfg", "paging", "phy_db", "dqa", "aux_queue",
             "add_sta", "phy_context", "scan_cfg"}
RuntimeCommands == {"scan", "association"}

At(op) == probe \in DOMAIN Program /\ Program[probe] = op
Configured == probe = Len(Program) + 1
Image == IF probe > Max({i \in DOMAIN Program : Program[i] = "restart"}) THEN "RUNTIME" ELSE "INIT"

FreshRing == /\ free_rbd' = [i \in Ring |-> i + 1]
             /\ used_rbd' = [i \in Ring |-> 0]
             /\ rx_buffer' = [b \in 1 .. IWL_RX_QUEUE_SIZE |-> <<>>]
             /\ closed_rb_num' = 0 /\ rx_read_index' = 0
             /\ rx_write_index' = IWL_RX_QUEUE_SIZE - 1
             /\ rx_write_actual' = Published(IWL_RX_QUEUE_SIZE - 1)

IwlInit == /\ probe = 1 /\ waiting = NoCommand
           /\ command_write_index = 0 /\ command_read_index = 0
           /\ command_region = [s \in 0 .. IWL_CMD_QUEUE_SLOTS - 1 |-> NoCommand]
           /\ nvm = [section |-> 1, offset |-> 0, stored |-> <<>>, table |-> <<>>]
           /\ phy_db = <<>> /\ init_complete = FALSE /\ phy_db_sections_sent = <<>>
           /\ scan_active = FALSE
           /\ aux_tx = NoFrames
           /\ free_rbd = [i \in Ring |-> i + 1] /\ used_rbd = [i \in Ring |-> 0]
           /\ rx_buffer = [b \in 1 .. IWL_RX_QUEUE_SIZE |-> <<>>]
           /\ closed_rb_num = 0 /\ rx_read_index = 0
           /\ rx_write_index = IWL_RX_QUEUE_SIZE - 1
           /\ rx_write_actual = Published(IWL_RX_QUEUE_SIZE - 1)
           /\ firmware = [image |-> "none", fetched |-> 0, sent |-> 0, due |-> <<>>]
           /\ open = <<>>
           /\ accepted = [asked |-> NoCommand, got |-> NoCommand]

\* Every failure of iwlwifi_probe's chain of calls ends it.
give_up == probe' = 0 /\ UNCHANGED <<phy_db_sections_sent, nvm>>

\* upload_firmware_image, up to the point where the CPU runs the image.
upload_firmware_image ==
  /\ At("upload")
  /\ \/ /\ firmware' = [image |-> Image, fetched |-> 0, sent |-> 0, due |-> <<Note("ALIVE", 0)>>]
        /\ probe' = probe + 1
     \/ probe' = 0 /\ UNCHANGED firmware
  /\ UNCHANGED <<waiting, cmdvars, nvm, notevars, phy_db_sections_sent, rxringvars, used_rbd,
                 closed_rb_num, open, accepted>>

\* Mutant: the buffer goes back on the free ring, the card is not told.
recycle_unpublished ==
  LET id == used_rbd[rx_read_index] IN
  /\ rx_buffer' = [rx_buffer EXCEPT ![id] = <<>>]
  /\ free_rbd' = [free_rbd EXCEPT ![rx_write_index] = id]
  /\ rx_write_index' = Succ(rx_write_index)
  /\ rx_read_index' = Succ(rx_read_index)
  /\ UNCHANGED rx_write_actual

\* The buffer at rx_read_index goes back on the free ring, and the new write
\* index reaches the card only when it crosses a multiple of eight.
recycle_rx_buffer ==
  LET id == used_rbd[rx_read_index] IN
  /\ rx_buffer' = [rx_buffer EXCEPT ![id] = <<>>]
  /\ free_rbd' = [free_rbd EXCEPT ![rx_write_index] = id]
  /\ rx_write_index' = Succ(rx_write_index)
  /\ rx_write_actual' = Published(Succ(rx_write_index))
  /\ rx_read_index' = Succ(rx_read_index)

Arrived == rx_read_index # closed_rb_num
Packets == rx_buffer[used_rbd[rx_read_index]]
Has(ps, c) == \E i \in DOMAIN ps : ps[i].cmd = c
Records(ps) == LET rs == SelectSeq(ps, LAMBDA p : p.cmd = "RECORD") IN [i \in DOMAIN rs |-> rs[i].n]

\* wait_for_firmware_alive takes buffers until inspect_alive_buffer meets ALIVE.
wait_for_firmware_alive ==
  /\ At("alive")
  /\ \/ /\ Arrived /\ recycle_rx_buffer
        /\ probe' = IF Has(Packets, "ALIVE") THEN probe + 1 ELSE probe
     \/ ~Arrived /\ probe' = 0 /\ UNCHANGED rxringvars
  /\ UNCHANGED <<waiting, cmdvars, nvm, notevars, phy_db_sections_sent, hwvars, accepted>>

\* activate_command_queue and the start of run_init_calibration.
activate_command_queue ==
  /\ At("activate") \/ At("calibrate")
  /\ probe' \in {0, probe + 1}
  /\ IF At("calibrate") /\ probe' # 0 THEN phy_db' = <<>> /\ init_complete' = FALSE
                                      ELSE UNCHANGED <<phy_db, init_complete>>
  /\ UNCHANGED <<waiting, cmdvars, nvm, scan_active, aux_tx, phy_db_sections_sent, rxringvars, hwvars, accepted>>

\* send_command_sync_parts: refuse when the window is full, else write the
\* command into its software slot and ring the card's write pointer.
CommandRoom == command_write_index - command_read_index < IWL_CMD_QUEUE_SLOTS
send_command_sync_parts(op) ==
  LET c == Packet(op, command_write_index % IWL_TFD_HW_SLOTS, command_write_index) IN
  /\ waiting' = c
  /\ command_region' = [command_region EXCEPT ![command_write_index % IWL_CMD_QUEUE_SLOTS] = c]
  /\ command_write_index' = command_write_index + 1
  /\ UNCHANGED command_read_index

probe_command ==
  /\ probe \in DOMAIN Program /\ Program[probe] \in Commands /\ waiting = NoCommand
  /\ command_write_index < MaxCommands
  /\ IF CommandRoom THEN send_command_sync_parts(Program[probe]) /\ UNCHANGED probe
                    ELSE probe' = 0 /\ UNCHANGED <<waiting, cmdvars>>
  /\ UNCHANGED <<nvm, notevars, phy_db_sections_sent, rxringvars, hwvars, accepted>>

\* iwlwifi_start_scan and iwlwifi_prepare_association once the card is configured.
runtime_command(op) ==
  /\ Configured /\ waiting = NoCommand /\ command_write_index < MaxCommands
  /\ CommandRoom /\ ~scan_active
  /\ send_command_sync_parts(op)
  /\ UNCHANGED <<probe, nvm, notevars, phy_db_sections_sent, rxringvars, hwvars, accepted>>

\* read_nvm_sections: one answer is one chunk; a short chunk, or an error behind
\* the last full one, ends the section.
ChunkOf(s, o) == Min({IWL_NVM_CHUNK_SIZE, NvmSections[s] - o})
NvmStep ==
  LET s == nvm.section
      bytes == IF nvm.offset < NvmSections[s] THEN ChunkOf(s, nvm.offset) ELSE 0
      offset == nvm.offset + bytes
      stored == nvm.stored \o [i \in 1 .. bytes |-> <<s, nvm.offset + i>>]
      entry == IF offset = 0 THEN <<>> ELSE <<[section |-> s, start |-> Len(stored) - offset, length |-> offset]>>
  IN IF bytes = IWL_NVM_CHUNK_SIZE
     THEN [nvm EXCEPT !.offset = offset, !.stored = stored]
     ELSE [section |-> s + 1, offset |-> 0, stored |-> stored, table |-> nvm.table \o entry]

\* What the caller does with a successful answer.
Answered(op) ==
  CASE op = "nvm" -> /\ nvm' = NvmStep
                     /\ probe' = IF nvm'.section > Len(NvmSections) THEN probe + 1 ELSE probe
                     /\ UNCHANGED <<phy_db_sections_sent, scan_active>>
    [] op = "phy_db" -> /\ phy_db_sections_sent' = Append(phy_db_sections_sent, phy_db[Len(phy_db_sections_sent) + 1])
                        /\ probe' = IF Len(phy_db_sections_sent') = Len(phy_db) THEN probe + 1 ELSE probe
                        /\ UNCHANGED <<nvm, scan_active>>
    [] op = "scan" -> scan_active' = TRUE /\ UNCHANGED <<probe, nvm, phy_db_sections_sent>>
    [] op = "association" -> UNCHANGED <<probe, nvm, phy_db_sections_sent, scan_active>>
    [] OTHER -> probe' = probe + 1 /\ UNCHANGED <<nvm, phy_db_sections_sent, scan_active>>

\* handle_runtime_notification on the card's word that it sent a frame: the low
\* byte of the sequence says which, and the read index follows it.
Completed(q, n) ==
  LET low == q.read_index % IWL_TFD_HW_SLOTS
      done == q.read_index - low + n + 1 + IF n + 1 <= low THEN IWL_TFD_HW_SLOTS ELSE 0
  IN IF done <= q.write_index THEN [q EXCEPT !.read_index = done] ELSE q
Transmitted(ps) == FoldLeft(LAMBDA q, p : IF p.cmd = "TX" THEN Completed(q, p.n) ELSE q, aux_tx, ps)

\* handle_init_notification over the packets looked at.
Storable(ps) == Len(phy_db) + Len(Records(ps)) <= PhyDbStorage
Noted(ps) == /\ phy_db' = phy_db \o Records(ps)
             /\ init_complete' = (init_complete \/ Has(ps, "INIT_COMPLETE"))

\* Mutant: the sequence number is not compared.
IsAnswerAnySeq(p) == p.cmd = waiting.cmd

IsAnswer(p) == p.cmd = waiting.cmd /\ p.seq = waiting.seq

\* inspect_command_response over one buffer: the packets up to the answer are
\* handled, those behind it are not looked at.
inspect_command_response ==
  LET hits == {i \in DOMAIN Packets : IsAnswer(Packets[i])}
      seen == IF hits = {} THEN Packets ELSE SubSeq(Packets, 1, Min(hits))
  IN
  /\ waiting # NoCommand /\ Arrived
  /\ recycle_rx_buffer
  /\ IF ~Storable(seen) THEN /\ waiting' = NoCommand
                             /\ IF Configured THEN UNCHANGED <<probe, nvm, phy_db_sections_sent>> ELSE give_up
                             /\ UNCHANGED <<notevars, command_read_index, accepted>>
     ELSE /\ Noted(seen)
          /\ aux_tx' = IF Configured THEN Transmitted(seen) ELSE aux_tx
          /\ IF hits = {}
             THEN /\ scan_active' = (scan_active /\ ~(Configured /\ Has(seen, "SCAN_COMPLETE")))
                  /\ UNCHANGED <<waiting, probe, nvm, phy_db_sections_sent, command_read_index, accepted>>
             ELSE /\ Answered(waiting.cmd)
                  /\ accepted' = [asked |-> waiting, got |-> Last(seen)]
                  /\ waiting' = NoCommand /\ command_read_index' = command_read_index + 1
  /\ UNCHANGED <<command_write_index, command_region, hwvars>>

\* The bounded wait ends without the answer; the slot stays taken.
command_timeout ==
  /\ waiting # NoCommand /\ ~Arrived
  /\ waiting' = NoCommand
  /\ IF Configured THEN UNCHANGED <<probe, nvm, phy_db_sections_sent>> ELSE give_up
  /\ UNCHANGED <<cmdvars, notevars, rxringvars, hwvars, accepted>>

\* Mutant: the wait ends with the first buffer taken.
calibration_first_buffer ==
  /\ At("calibration")
  /\ IF Arrived
     THEN /\ recycle_rx_buffer
          /\ IF Storable(Packets) THEN Noted(Packets) ELSE UNCHANGED <<phy_db, init_complete>>
          /\ probe' = IF ~Storable(Packets) \/ phy_db' = <<>> THEN 0 ELSE probe + 1
     ELSE probe' = 0 /\ UNCHANGED <<rxringvars, phy_db, init_complete>>
  /\ UNCHANGED <<waiting, cmdvars, nvm, scan_active, aux_tx, phy_db_sections_sent, hwvars, accepted>>

\* wait_for_init_calibration looks at init_complete after each buffer it took.
wait_for_init_calibration ==
  /\ At("calibration")
  /\ IF Arrived
     THEN /\ recycle_rx_buffer
          /\ IF Storable(Packets) THEN Noted(Packets) ELSE UNCHANGED <<phy_db, init_complete>>
          /\ probe' = IF ~Storable(Packets) THEN 0
                      ELSE IF ~init_complete' THEN probe
                      ELSE IF phy_db' = <<>> THEN 0 ELSE probe + 1
     ELSE probe' = 0 /\ UNCHANGED <<rxringvars, phy_db, init_complete>>
  /\ UNCHANGED <<waiting, cmdvars, nvm, scan_active, aux_tx, phy_db_sections_sent, hwvars, accepted>>

\* restart_transport resets the card and both rings.
restart_transport ==
  /\ At("restart")
  /\ \/ probe' = probe + 1 /\ FreshRing
     \/ probe' = 0 /\ UNCHANGED <<rxringvars, used_rbd, closed_rb_num>>
  /\ firmware' = [image |-> "none", fetched |-> 0, sent |-> 0, due |-> <<>>] /\ open' = <<>>
  /\ command_write_index' = 0 /\ command_read_index' = 0
  /\ command_region' = [s \in DOMAIN command_region |-> NoCommand]
  /\ aux_tx' = NoFrames
  /\ UNCHANGED <<waiting, nvm, phy_db, init_complete, scan_active, phy_db_sections_sent, accepted>>

\* send_wifi_frame, which refuses when the queue is full.
send_wifi_frame ==
  /\ Configured /\ waiting = NoCommand /\ aux_tx.write_index < MaxTxFrames
  /\ aux_tx.write_index - aux_tx.read_index < IWL_AUX_TX_SLOTS
  /\ aux_tx' = [aux_tx EXCEPT !.write_index = @ + 1,
                              !.region[aux_tx.write_index % IWL_AUX_TX_SLOTS] = aux_tx.write_index]
  /\ UNCHANGED <<probe, waiting, cmdvars, nvm, phy_db, init_complete, scan_active, phy_db_sections_sent, rxringvars, hwvars, accepted>>

\* One buffer of iwlwifi_poll's loop.
iwlwifi_poll_buffer ==
  /\ Configured /\ waiting = NoCommand /\ Arrived
  /\ recycle_rx_buffer
  /\ scan_active' = (scan_active /\ ~Has(Packets, "SCAN_COMPLETE"))
  /\ aux_tx' = Transmitted(Packets)
  /\ UNCHANGED <<probe, waiting, cmdvars, nvm, phy_db, init_complete, phy_db_sections_sent, hwvars, accepted>>

\* The card (external) ------------------------------------------------------
OpenForMore == PacksAnswers \/ (IF open = <<>> THEN TRUE ELSE Last(open).seq = -1)

\* It fetches the next command from the slot the ring points at, answers it and
\* queues the notifications it leads to.
fw_answer ==
  LET c == command_region[firmware.fetched % IWL_CMD_QUEUE_SLOTS] IN
  /\ firmware.fetched < command_write_index
  /\ OpenForMore
  /\ open' = Append(open, c)
  /\ firmware' = [firmware EXCEPT !.fetched = @ + 1,
                    !.due = @ \o IF c.cmd = "phy_cfg" /\ @ = <<>> /\ firmware.image = "INIT"
                                 THEN [i \in 1 .. Calibration |-> Note("RECORD", i)] \o <<Note("INIT_COMPLETE", 0)>>
                                 ELSE IF c.cmd = "scan" THEN <<Note("SCAN_COMPLETE", 0)>> ELSE <<>>]
  /\ UNCHANGED <<probe, waiting, cmdvars, nvm, notevars, phy_db_sections_sent, rxringvars, used_rbd, closed_rb_num, accepted>>

\* It sends the next frame and says so.
fw_transmit ==
  /\ firmware.sent < aux_tx.write_index /\ OpenForMore
  /\ open' = Append(open, Note("TX", firmware.sent % IWL_TFD_HW_SLOTS))
  /\ firmware' = [firmware EXCEPT !.sent = @ + 1]
  /\ UNCHANGED <<probe, waiting, cmdvars, nvm, notevars, phy_db_sections_sent, rxringvars, used_rbd, closed_rb_num, accepted>>

fw_notify ==
  /\ firmware.due # <<>>
  /\ OpenForMore
  /\ open' = Append(open, Head(firmware.due))
  /\ firmware' = [firmware EXCEPT !.due = Tail(@)]
  /\ UNCHANGED <<probe, waiting, cmdvars, nvm, notevars, phy_db_sections_sent, rxringvars, used_rbd, closed_rb_num, accepted>>

\* It fills the next free buffer, if one is published, and closes it.
fw_close ==
  /\ open # <<>> /\ closed_rb_num # rx_write_actual
  /\ rx_buffer' = [rx_buffer EXCEPT ![free_rbd[closed_rb_num]] = open]
  /\ used_rbd' = [used_rbd EXCEPT ![closed_rb_num] = free_rbd[closed_rb_num]]
  /\ closed_rb_num' = Succ(closed_rb_num)
  /\ open' = <<>>
  /\ UNCHANGED <<probe, waiting, cmdvars, nvm, notevars, phy_db_sections_sent, free_rbd, rx_write_index,
                 rx_write_actual, rx_read_index, firmware, accepted>>

IwlNext == \/ upload_firmware_image \/ wait_for_firmware_alive \/ activate_command_queue
           \/ probe_command \/ \E op \in RuntimeCommands : runtime_command(op)
           \/ inspect_command_response \/ command_timeout
           \/ wait_for_init_calibration \/ restart_transport \/ send_wifi_frame \/ iwlwifi_poll_buffer
           \/ fw_answer \/ fw_transmit \/ fw_notify \/ fw_close

IwlSpec == IwlInit /\ [][IwlNext]_iwlvars

\* A driver that has read every buffer leaves the card one to fill: handing the
\* write index over in multiples of eight, with one slot kept empty, never
\* starves the card (program_rx_queue, recycle_rx_buffer).
RxNeverStarved == rx_read_index = closed_rb_num => closed_rb_num # rx_write_actual

\* The answer send_command_sync accepts is the answer to the command it sent,
\* also when the answer to a command given up earlier comes in late and the
\* sequence numbers have wrapped.
AnswerToOwn == accepted.got = accepted.asked

\* A command or a frame the card has not fetched is still in its slot: the
\* windows of send_command_sync_parts and send_wifi_frame keep a later one from
\* being written over it, whatever was given up or completed in between.
QueuesIntact ==
  /\ \A i \in firmware.fetched .. command_write_index - 1 :
       command_region[i % IWL_CMD_QUEUE_SLOTS].n = i
  /\ \A i \in firmware.sent .. aux_tx.write_index - 1 :
       aux_tx.region[i % IWL_AUX_TX_SLOTS] = i

\* A configured card got the whole calibration, in order, and the NVM table
\* describes the sections the card has: read_nvm_sections and the PHY DB
\* collected under INIT survive the change of firmware.
ConfiguredWhole ==
  Configured => /\ phy_db_sections_sent = [i \in 1 .. Calibration |-> i]
                /\ \A s \in DOMAIN NvmSections :
                     NvmSections[s] > 0 <=>
                       \E e \in Range(nvm.table) :
                         /\ e.section = s
                         /\ SubSeq(nvm.stored, e.start + 1, e.start + e.length) = [i \in 1 .. NvmSections[s] |-> <<s, i>>]

\* Host commands and frames: an answer accepted is the answer to the command that
\* waits, and nothing the card has still to fetch is overwritten.
CommandsSound == AnswerToOwn /\ QueuesIntact
================================================================================
