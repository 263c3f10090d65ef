--------------------------- MODULE PageClientProofs ----------------------------
(***************************************************************************)
(* Proofs about the kernel's inter-process communication and boot, which   *)
(* are clients of the page allocator, for pools, tables and memory maps of *)
(* any size.                                                               *)
(*                                                                         *)
(* The mailboxes of kernel/ipc.c are queues of one place.  The shared      *)
(* memory table uses the page allocator as it must be used, and when       *)
(* clients detach only what they attached, the reference count is the      *)
(* number of handles, so no handle outlives its memory.  The boot keeps    *)
(* the heap, the modules and the image clear of each other and of every    *)
(* page handed out later.                                                  *)
(***************************************************************************)
EXTENDS BootMemory, IpcShm, IpcPorts, SequenceTheorems, WellFoundedInduction, PMMProofs

(* Mailboxes. *)

\* Besides the property and the types: a port that was never created holds no
\* message, since ipc_create_port clears has_message.
PortInv ==
  /\ PortTypeOK
  /\ sent \in [Ports -> Seq(Bodies)]
  /\ received \in [Ports -> Seq(Bodies)]
  /\ \A p \in Ports : ~ port_registry[p].active => ~ port_registry[p].has_message
  /\ MailboxFifo

\* A nonempty set of numbers contains its minimum.
LEMMA MinOfPorts ==
  ASSUME NEW S \in SUBSET Nat, S # {}
  PROVE  Min(S) \in S
<1> DEFINE Less == OpToRel(<, Nat)
<1>1. IsWellFoundedOn(Less, Nat)
  BY NatLessThanWellFounded
<1>2. \A x, y \in Nat : y < x => <<y, x>> \in Less
  BY Zenon DEF OpToRel
<1> HIDE DEF Less
<1>3. PICK x \in S : \A y \in S : <<y, x>> \notin Less
  BY <1>1, WFMin
<1>4. \A y \in S : ~ (y < x)
  BY <1>2, <1>3, Zenon
<1>5. \A y \in S : x <= y
  BY <1>4
<1> QED
  BY <1>5 DEF Min

\* ipc_send cuts a body to what the mailbox holds.
LEMMA ClippedLength ==
  ASSUME NEW length \in Nat
  PROVE  Min({length, MSG_PAYLOAD_SIZE}) \in 0 .. MSG_PAYLOAD_SIZE
<1> DEFINE m == IF length <= MSG_PAYLOAD_SIZE THEN length ELSE MSG_PAYLOAD_SIZE
<1>1. MSG_PAYLOAD_SIZE \in Nat
  BY PortAssumption
<1>2. m \in {length, MSG_PAYLOAD_SIZE} /\ \A y \in {length, MSG_PAYLOAD_SIZE} : m <= y
  BY <1>1
<1>3. \A x \in {length, MSG_PAYLOAD_SIZE} :
        (\A y \in {length, MSG_PAYLOAD_SIZE} : x <= y) => x \in 0 .. MSG_PAYLOAD_SIZE
  BY <1>1
<1> QED
  BY <1>2, <1>3 DEF Min

\* Initially no port exists and nothing was sent.
LEMMA PortInitInv == PortInit => PortInv
<1> SUFFICES ASSUME PortInit PROVE PortInv
  OBVIOUS
<1>1. NoMessage \in Message /\ (CHOOSE t \in Tasks : TRUE) \in Tasks
  BY PortAssumption DEF NoMessage, Message
<1>2. PortTypeOK
  BY <1>1 DEF PortInit, PortTypeOK
<1>3. \A p \in Ports : sent[p] = <<>> /\ received[p] = <<>> /\ ~ port_registry[p].has_message
  BY DEF PortInit
<1>4. sent \in [Ports -> Seq(Bodies)] /\ received \in [Ports -> Seq(Bodies)]
  BY DEF PortInit
<1>5. <<>> = <<>> \o <<>>
  OBVIOUS
<1>6. MailboxFifo
  BY <1>3, <1>5, Zenon DEF MailboxFifo
<1> QED
  BY <1>2, <1>3, <1>4, <1>6 DEF PortInv

\* ipc_create_port takes the first unused port, whose mailbox is empty.
LEMMA CreateInv ==
  ASSUME PortInv, NEW owner \in Tasks, ipc_create_port(owner)
  PROVE  PortInv'
<1> DEFINE q == Min(Inactive)
<1>1. q \in Ports /\ ~ port_registry[q].active
  <2>1. Ports \subseteq Nat
    BY PortAssumption DEF Ports
  <2>2. Inactive \in SUBSET Nat /\ Inactive # {}
    BY <2>1 DEF ipc_create_port, Inactive
  <2>3. q \in Inactive
    BY <2>2, MinOfPorts
  <2> QED BY <2>3 DEF Inactive
<1> HIDE DEF q
<1>2. port_registry' = [port_registry EXCEPT ![q].active = TRUE, ![q].has_message = FALSE,
                                             ![q].owner = owner]
  BY DEF ipc_create_port, q
<1>3. PortTypeOK'
  <2> DEFINE Port == [active : BOOLEAN, has_message : BOOLEAN, owner : Tasks, message : Message]
             new == [port_registry[q] EXCEPT !.active = TRUE, !.has_message = FALSE,
                                             !.owner = owner]
  <2>1. port_registry \in [Ports -> Port]
    BY DEF PortInv, PortTypeOK
  <2>2. new \in Port
    BY <1>1, <2>1
  <2>3. port_registry' = [port_registry EXCEPT ![q] = new]
    BY <1>1, <1>2, <2>1
  <2>4. port_registry' \in [Ports -> Port]
    <3> HIDE DEF Port, new
    <3> QED BY <1>1, <2>1, <2>2, <2>3
  <2> QED
    BY <2>4 DEF PortTypeOK
<1>4. ~ port_registry[q].has_message
  BY <1>1 DEF PortInv
<1>5. sent' = sent /\ received' = received
  BY DEF ipc_create_port
<1>6. \A p \in Ports : /\ port_registry'[p].has_message = port_registry[p].has_message
                       /\ port_registry'[p].message = port_registry[p].message
                       /\ port_registry[p].active => port_registry'[p].active
  <2>1. \A p \in Ports \ {q} : port_registry'[p] = port_registry[p]
    BY <1>2 DEF PortInv, PortTypeOK
  <2>2. /\ port_registry'[q].active /\ ~ port_registry'[q].has_message
        /\ port_registry'[q].message = port_registry[q].message
    BY <1>1, <1>2 DEF PortInv, PortTypeOK
  <2>3. port_registry'[q].has_message \in BOOLEAN /\ port_registry[q].has_message \in BOOLEAN
    BY <1>1, <1>3 DEF PortInv, PortTypeOK
  <2> QED BY <1>4, <2>1, <2>2, <2>3
<1>7. MailboxFifo'
  BY <1>5, <1>6, Zenon DEF PortInv, MailboxFifo
<1> QED
  BY <1>3, <1>5, <1>6, <1>7 DEF PortInv

\* ipc_send refuses a full mailbox, and otherwise adds one message to what was sent.
LEMMA SendInv ==
  ASSUME PortInv, NEW q \in Ports, NEW body \in Bodies, NEW length \in Lengths,
         ipc_send(q, body, length)
  PROVE  PortInv'
<1> DEFINE kept == Min({length, MSG_PAYLOAD_SIZE})
<1>1. kept \in 0 .. MSG_PAYLOAD_SIZE
  BY ClippedLength, PortAssumption
<1>2. port_registry' = [port_registry EXCEPT ![q].message = [body |-> body, length |-> kept],
                                             ![q].has_message = TRUE]
  BY DEF ipc_send
<1> HIDE DEF kept
<1>3. PortTypeOK'
  BY <1>1, <1>2 DEF PortInv, PortTypeOK, Message
<1>4. /\ received' = received
      /\ sent' \in [Ports -> Seq(Bodies)]
      /\ sent'[q] = Append(sent[q], body)
      /\ \A p \in Ports \ {q} : sent'[p] = sent[p]
  BY DEF PortInv, ipc_send
<1>5. /\ port_registry'[q].has_message /\ port_registry'[q].message.body = body
      /\ port_registry[q].active /\ port_registry'[q].active
      /\ \A p \in Ports \ {q} : port_registry'[p] = port_registry[p]
  BY <1>2 DEF PortInv, PortTypeOK, ipc_send
<1>6. sent[q] = received[q]
  <2>1. sent[q] = received[q] \o <<>>
    BY Zenon DEF PortInv, MailboxFifo, ipc_send
  <2> QED BY <2>1, ConcatEmptySeq DEF PortInv
<1>7. sent'[q] = received'[q] \o <<port_registry'[q].message.body>>
  BY <1>4, <1>5, <1>6 DEF PortInv
<1>8. MailboxFifo'
  BY <1>4, <1>5, <1>7 DEF PortInv, MailboxFifo
<1> QED
  BY <1>3, <1>4, <1>5, <1>8 DEF PortInv

\* ipc_receive takes the one message the mailbox holds.
LEMMA ReceiveInv ==
  ASSUME PortInv, NEW q \in Ports, ipc_receive(q)
  PROVE  PortInv'
<1>1. port_registry' = [port_registry EXCEPT ![q].has_message = FALSE]
  BY DEF ipc_receive
<1>2. PortTypeOK'
  BY <1>1 DEF PortInv, PortTypeOK
<1>3. port_registry[q].message.body \in Bodies
  BY DEF PortInv, PortTypeOK, Message
<1>4. /\ sent' = sent
      /\ received' \in [Ports -> Seq(Bodies)]
      /\ received'[q] = Append(received[q], port_registry[q].message.body)
      /\ \A p \in Ports \ {q} : received'[p] = received[p]
  BY <1>3 DEF PortInv, ipc_receive
<1>5. /\ ~ port_registry'[q].has_message
      /\ \A p \in Ports \ {q} : port_registry'[p] = port_registry[p]
  BY <1>1 DEF PortInv, PortTypeOK
<1>6. sent[q] = received[q] \o <<port_registry[q].message.body>>
  BY DEF PortInv, MailboxFifo, ipc_receive
<1>7. sent'[q] = received'[q] \o <<>>
  <2>1. sent'[q] = received'[q]
    BY <1>3, <1>4, <1>6 DEF PortInv
  <2> QED BY <1>4, <2>1, ConcatEmptySeq
<1>8. MailboxFifo'
  BY <1>4, <1>5, <1>7, Zenon DEF PortInv, MailboxFifo
<1> QED
  BY <1>2, <1>4, <1>5, <1>8 DEF PortInv

\* Every call on the ports keeps their invariant.
LEMMA PortStepInv == PortInv /\ [PortNext]_portvars => PortInv'
<1> SUFFICES ASSUME PortInv, [PortNext]_portvars PROVE PortInv'
  OBVIOUS
<1>1. CASE UNCHANGED portvars
  BY <1>1 DEF portvars, PortInv, PortTypeOK, MailboxFifo
<1> QED
  BY <1>1, CreateInv, SendInv, ReceiveInv DEF PortNext

\* The inductive invariant of the port registry.
THEOREM PortInvariant == PortSpec => []PortInv
BY PortInitInv, PortStepInv, PTL DEF PortSpec

\* ipc_send and ipc_receive: messages leave a port in the order they entered,
\* none lost and none twice, for every number of ports and messages.
THEOREM MailboxIsFifo == PortSpec => []MailboxFifo
<1>1. PortInv => MailboxFifo
  BY DEF PortInv
<1> QED
  BY <1>1, PortInvariant, PTL

--------------------------------------------------------------------------------
(* Shared memory. *)

KeysUnique == \A i, j \in Active : shm_segments[i].key = shm_segments[j].key => i = j

\* The part of the invariant that needs nothing of the clients.
TableInv == PoolInv /\ ShmTypeOK /\ SegmentsBacked /\ KeysUnique

Segment == [active : BOOLEAN, key : Keys, extent : Extent, ref_count : 0 .. MaxRefs]

\* Segments in use are slots of the table.
LEMMA ActiveInIds == Active \subseteq Ids
BY DEF Active

--------------------------------------------------------------------------------
(* What each call does to the table. *)

\* ipc_shm_create fills an unused slot with memory nobody held.
LEMMA CreateEffect ==
  ASSUME TableInv, NEW key \in Keys, NEW size \in Sizes, ipc_shm_create(key, size)
  PROVE  \E i \in Ids \ Active, e \in live' \ live :
           /\ shm_segments' = [shm_segments EXCEPT ![i] =
                [active |-> TRUE, key |-> key, extent |-> e, ref_count |-> 0]]
           /\ Active' = Active \cup {i}
<1> DEFINE i == Min(Ids \ Active)
<1>1. i \in Ids \ Active
  <2>1. Ids \ Active \subseteq Nat
    BY ShmAssumption DEF Ids
  <2>2. Ids \ Active # {}
    BY ActiveInIds DEF ipc_shm_create
  <2> QED
    BY <2>1, <2>2, MinOfNat
<1>2. PICK e \in live' \ live :
        shm_segments' = [shm_segments EXCEPT ![i] =
          [active |-> TRUE, key |-> key, extent |-> e, ref_count |-> 0]]
  BY DEF ipc_shm_create
<1> HIDE DEF i
<1>3. shm_segments \in [Ids -> Segment]
  BY DEF TableInv, ShmTypeOK, Segment
<1>4. \A j \in Ids : shm_segments'[j].active <=> (shm_segments[j].active \/ j = i)
  BY <1>1, <1>2, <1>3
<1>5. Active' = Active \cup {i}
  BY <1>1, <1>4 DEF Active
<1> QED
  BY <1>1, <1>2, <1>5

\* Attaching and detaching change one count and nothing else of the table.
LEMMA CountEffect ==
  ASSUME TableInv, NEW id \in Ids, NEW n \in 0 .. MaxRefs,
         shm_segments' = [shm_segments EXCEPT ![id].ref_count = n]
  PROVE  /\ shm_segments' \in [Ids -> Segment]
         /\ Active' = Active
         /\ \A j \in Ids : /\ shm_segments'[j].key = shm_segments[j].key
                           /\ shm_segments'[j].extent = shm_segments[j].extent
                           /\ shm_segments'[j].ref_count =
                                IF j = id THEN n ELSE shm_segments[j].ref_count
<1>1. shm_segments \in [Ids -> Segment]
  BY DEF TableInv, ShmTypeOK, Segment
<1>2. shm_segments' = [j \in Ids |-> IF j = id THEN [shm_segments[id] EXCEPT !.ref_count = n]
                                     ELSE shm_segments[j]]
  BY <1>1
<1>3. [shm_segments[id] EXCEPT !.ref_count = n] \in Segment
  BY <1>1 DEF Segment
<1>4. \A j \in Ids : /\ shm_segments'[j].active = shm_segments[j].active
                     /\ shm_segments'[j].key = shm_segments[j].key
                     /\ shm_segments'[j].extent = shm_segments[j].extent
                     /\ shm_segments'[j].ref_count =
                          IF j = id THEN n ELSE shm_segments[j].ref_count
  BY <1>1, <1>2 DEF Segment
<1>5. Active' = Active
  BY <1>4 DEF Active
<1> QED
  BY <1>1, <1>2, <1>3, <1>4, <1>5

\* What ipc_shm_create writes is a segment.
LEMMA NewSegment ==
  ASSUME NEW k \in Keys, NEW e \in Extent
  PROVE  [active |-> TRUE, key |-> k, extent |-> e, ref_count |-> 0] \in Segment
BY ShmAssumption DEF Segment

\* What ipc_shm_destroy leaves is a segment that is not in use.
LEMMA FreedSegment ==
  ASSUME NEW k \in Keys, NEW e \in Extent, NEW s,
         s = [active |-> FALSE, key |-> k, extent |-> e, ref_count |-> 0]
  PROVE  s \in Segment /\ ~ s.active /\ s.ref_count = 0
BY ShmAssumption DEF Segment

\* ipc_shm_destroy empties one slot, gives its memory back and leaves the others.
LEMMA DestroyEffect ==
  ASSUME TableInv, NEW id \in Ids, ipc_shm_destroy(id)
  PROVE  /\ shm_segments' \in [Ids -> Segment]
         /\ Active' = Active \ {id}
         /\ shm_segments'[id].ref_count = 0
         /\ \A j \in Ids : j # id => shm_segments'[j] = shm_segments[j]
<1>1. shm_segments \in [Ids -> Segment]
  BY DEF TableInv, ShmTypeOK, Segment
<1>2. shm_segments' = [shm_segments EXCEPT ![id].active = FALSE, ![id].ref_count = 0]
  BY DEF ipc_shm_destroy
<1>3. shm_segments'[id] = [shm_segments[id] EXCEPT !.active = FALSE, !.ref_count = 0]
  BY <1>1, <1>2
<1>4. \A j \in Ids : j # id => shm_segments'[j] = shm_segments[j]
  BY <1>1, <1>2
<1>5. shm_segments'[id] \in Segment /\ ~ shm_segments'[id].active /\ shm_segments'[id].ref_count = 0
  <2>1. shm_segments'[id] = [active |-> FALSE, key |-> shm_segments[id].key,
                             extent |-> shm_segments[id].extent, ref_count |-> 0]
    BY <1>1, <1>3 DEF Segment
  <2>2. shm_segments[id].key \in Keys /\ shm_segments[id].extent \in Extent
    BY <1>1 DEF Segment
  <2> QED
    BY <2>1, <2>2, FreedSegment, Zenon
<1>6. shm_segments' = [j \in Ids |-> shm_segments'[j]]
  BY <1>1, <1>2
<1>7. shm_segments' \in [Ids -> Segment]
  BY <1>1, <1>4, <1>5, <1>6
<1>8. Active' = Active \ {id}
  BY <1>4, <1>5 DEF Active
<1> QED
  BY <1>4, <1>5, <1>7, <1>8

--------------------------------------------------------------------------------
(* The table and the page allocator. *)

\* ipc_init leaves an empty table.
LEMMA TableInit == ShmInit => TableInv
<1> SUFFICES ASSUME ShmInit PROVE TableInv
  OBVIOUS
<1>1. Kernel \subseteq Blocks /\ Cardinality(Kernel) \in Nat
  BY ShmAssumption, BlocksFinite DEF Blocks
<1>2. PoolInv
  BY <1>1, ShmAssumption DEF ShmInit, PoolInv, TypeOK, CountExact, LiveShape, LiveBacked,
                             LiveDisjoint, ReservedHeld, PhaseInv
<1> DEFINE k0 == CHOOSE k \in Keys : TRUE
<1>3. k0 \in Keys
  BY ShmAssumption
<1> HIDE DEF k0
<1>4. NoExtent \in Extent
  BY PMMAssumption DEF NoExtent, Extent, ByteAddr, PAGE_SIZE
<1>5. shm_segments = [i \in Ids |-> [active |-> FALSE, key |-> k0, extent |-> NoExtent, ref_count |-> 0]]
  BY DEF ShmInit, Empty, k0
<1>6. \A i \in Ids : /\ shm_segments[i] \in Segment /\ ~ shm_segments[i].active
                      /\ shm_segments[i].ref_count = 0
  BY <1>3, <1>4, <1>5, FreedSegment, Zenon
<1>7. Active = {}
  BY <1>6 DEF Active
<1>8. shm_segments \in [Ids -> Segment]
  BY <1>5, <1>6
<1> QED
  BY <1>2, <1>6, <1>7, <1>8 DEF TableInv, ShmTypeOK, SegmentsBacked, KeysUnique, Segment

\* Every call is a step of the allocator or none of its business.
LEMMA PoolStep ==
  ASSUME TableInv, [ShmNext]_shmvars
  PROVE  [Next]_vars
<1>1. ASSUME NEW key \in Keys, NEW size \in Sizes, ipc_shm_create(key, size) PROVE Next
  BY <1>1 DEF ipc_shm_create, Next
<1>2. ASSUME NEW c \in Clients, NEW id \in Ids, ipc_shm_attach(c, id) \/ ipc_shm_detach(c, id)
      PROVE  UNCHANGED vars
  BY <1>2 DEF ipc_shm_attach, ipc_shm_detach
<1>3. ASSUME NEW id \in Ids, ipc_shm_destroy(id) PROVE Next
  <2>1. shm_segments[id].extent \in live
    BY <1>3 DEF ipc_shm_destroy, TableInv, SegmentsBacked
  <2> QED
    BY <1>3, <2>1 DEF ipc_shm_destroy, Next
<1>4. CASE OtherAllocates
  BY <1>4 DEF OtherAllocates, Next
<1>5. CASE OtherFrees
  BY <1>5 DEF OtherFrees, Next
<1>6. CASE UNCHANGED shmvars
  BY <1>6 DEF shmvars, vars
<1> QED
  BY <1>1, <1>2, <1>3, <1>4, <1>5, <1>6 DEF ShmNext

\* A step that leaves the table alone and frees nothing of its segments.
LEMMA TableUnchanged ==
  ASSUME TableInv, PoolInv', UNCHANGED shm_segments,
         \A i \in Active : shm_segments[i].extent \in live'
  PROVE  TableInv'
BY DEF TableInv, ShmTypeOK, SegmentsBacked, KeysUnique, Active

\* A step that changes one count.
LEMMA TableCounts ==
  ASSUME TableInv, UNCHANGED vars, NEW id \in Active, NEW n \in 0 .. MaxRefs,
         shm_segments' = [shm_segments EXCEPT ![id].ref_count = n]
  PROVE  TableInv'
<1>1. PoolInv'
  BY StepInv DEF TableInv
<1>2. id \in Ids
  BY ActiveInIds
<1>3. /\ shm_segments' \in [Ids -> Segment]
      /\ Active' = Active
      /\ \A j \in Ids : /\ shm_segments'[j].key = shm_segments[j].key
                        /\ shm_segments'[j].extent = shm_segments[j].extent
                        /\ shm_segments'[j].ref_count =
                             IF j = id THEN n ELSE shm_segments[j].ref_count
  BY <1>2, CountEffect
<1>4. live' = live
  BY DEF vars
<1>5. ShmTypeOK'
  BY <1>3 DEF TableInv, ShmTypeOK, Segment
<1>6. SegmentsBacked' /\ KeysUnique'
  BY <1>3, <1>4, ActiveInIds DEF TableInv, SegmentsBacked, KeysUnique
<1> QED
  BY <1>1, <1>5, <1>6 DEF TableInv

\* Every call on the segments keeps the table's invariant.
LEMMA TableStep == TableInv /\ [ShmNext]_shmvars => TableInv'
<1> SUFFICES ASSUME TableInv, [ShmNext]_shmvars PROVE TableInv'
  OBVIOUS
<1>0. PoolInv' /\ live' \subseteq Extent
  BY PoolStep, StepInv DEF TableInv, PoolInv, TypeOK
<1>1. ASSUME NEW key \in Keys, NEW size \in Sizes, ipc_shm_create(key, size) PROVE TableInv'
  <2>1. PICK i \in Ids \ Active, e \in live' \ live :
          /\ shm_segments' = [shm_segments EXCEPT ![i] =
               [active |-> TRUE, key |-> key, extent |-> e, ref_count |-> 0]]
          /\ Active' = Active \cup {i}
    BY <1>1, CreateEffect
  <2>2. shm_segments \in [Ids -> Segment] /\ \A j \in Ids \ Active : shm_segments[j].ref_count = 0
    BY DEF TableInv, ShmTypeOK, Segment
  <2>3. shm_segments' \in [Ids -> Segment]
    <3>1. [active |-> TRUE, key |-> key, extent |-> e, ref_count |-> 0] \in Segment
      BY <1>0, NewSegment
    <3> QED
      BY <2>1, <2>2, <3>1
  <2>4. /\ shm_segments'[i].key = key /\ shm_segments'[i].extent = e
        /\ \A j \in Ids : j # i => shm_segments'[j] = shm_segments[j]
    BY <2>1, <2>2
  <2>5. ShmTypeOK'
    BY <2>1, <2>2, <2>3, <2>4 DEF ShmTypeOK, Segment
  <2>6. live \subseteq live' /\ \A j \in Active : shm_segments[j].key # key
    BY <1>1 DEF ipc_shm_create, pmm_alloc_region, ipc_shm_lookup_key
  <2>7. SegmentsBacked'
    BY <2>1, <2>4, <2>6, ActiveInIds DEF TableInv, SegmentsBacked
  <2>8. KeysUnique'
    BY <2>1, <2>4, <2>6, ActiveInIds DEF TableInv, KeysUnique
  <2> QED
    BY <1>0, <2>5, <2>7, <2>8 DEF TableInv
<1>2. ASSUME NEW c \in Clients, NEW id \in Ids, ipc_shm_attach(c, id) PROVE TableInv'
  <2>1. id \in Active /\ shm_segments[id].ref_count + 1 \in 0 .. MaxRefs
    BY <1>2, ShmAssumption DEF ipc_shm_attach, TableInv, ShmTypeOK
  <2>2. /\ shm_segments' = [shm_segments EXCEPT ![id].ref_count = shm_segments[id].ref_count + 1]
        /\ UNCHANGED vars
    BY <1>2 DEF ipc_shm_attach
  <2> QED
    BY <2>1, <2>2, TableCounts
<1>3. ASSUME NEW c \in Clients, NEW id \in Ids, ipc_shm_detach(c, id) PROVE TableInv'
  <2> DEFINE n == IF shm_segments[id].ref_count > 0 THEN shm_segments[id].ref_count - 1 ELSE 0
  <2>1. id \in Active /\ n \in 0 .. MaxRefs
    BY <1>3, ShmAssumption DEF ipc_shm_detach, TableInv, ShmTypeOK
  <2>2. shm_segments' = [shm_segments EXCEPT ![id].ref_count = n] /\ UNCHANGED vars
    BY <1>3 DEF ipc_shm_detach
  <2> HIDE DEF n
  <2> QED
    BY <2>1, <2>2, TableCounts
<1>4. ASSUME NEW id \in Ids, ipc_shm_destroy(id) PROVE TableInv'
  <2>1. /\ shm_segments' \in [Ids -> Segment] /\ Active' = Active \ {id}
        /\ shm_segments'[id].ref_count = 0
        /\ \A j \in Ids : j # id => shm_segments'[j] = shm_segments[j]
    BY <1>4, DestroyEffect
  <2>2. id \in Active /\ live' = live \ {shm_segments[id].extent}
    BY <1>4 DEF ipc_shm_destroy, pmm_free_region
  <2>3. ShmTypeOK'
    BY <2>1 DEF TableInv, ShmTypeOK, Segment
  <2>4. SegmentsBacked'
    BY <2>1, <2>2, ActiveInIds DEF TableInv, SegmentsBacked
  <2>5. KeysUnique'
    BY <2>1, ActiveInIds DEF TableInv, KeysUnique
  <2> QED
    BY <1>0, <2>3, <2>4, <2>5 DEF TableInv
<1>5. CASE OtherAllocates
  <2>1. live \subseteq live' /\ UNCHANGED shm_segments
    BY <1>5 DEF OtherAllocates, pmm_alloc_block
  <2> QED
    BY <1>0, <2>1, TableUnchanged DEF TableInv, SegmentsBacked
<1>6. CASE OtherFrees
  <2>1. PICK e \in live \ { shm_segments[i].extent : i \in Active } : pmm_free_block(e)
    BY <1>6 DEF OtherFrees
  <2>2. live' = live \ {e} /\ UNCHANGED shm_segments
    BY <1>6, <2>1 DEF OtherFrees, pmm_free_block
  <2> QED
    BY <1>0, <2>1, <2>2, TableUnchanged DEF TableInv, SegmentsBacked
<1>7. CASE UNCHANGED shmvars
  BY <1>0, <1>7, TableUnchanged DEF shmvars, TableInv, SegmentsBacked
<1> QED
  BY <1>1, <1>2, <1>3, <1>4, <1>5, <1>6, <1>7 DEF ShmNext

\* The inductive invariant of the table over the pool: a key has one segment, and a
\* segment has an extent of its own that the pool counts as held.
THEOREM TableInvariant == ShmSpec => []TableInv
BY TableInit, TableStep, PTL DEF ShmSpec

\* ipc.c frees what it allocated, once, and nothing else, whatever its clients do:
\* every step of the segment table is a step of the page allocator or none.
THEOREM ShmUsesPool == ShmSpec => UsesPool
<1>1. TableInv /\ [ShmNext]_shmvars => [Next]_vars
  BY PoolStep
<1> QED
  BY <1>1, TableInvariant, PTL DEF ShmSpec, UsesPool

--------------------------------------------------------------------------------
(* Handles.  Those of one client to one segment are numbered from zero, so the *)
(* next number is fresh and a detach takes back exactly one.                   *)

HandlesAt(i) == { h \in handles : h.id = i }

Numbered(H) ==
  /\ \A h \in H : h.n \in 0 .. Cardinality(H) - 1
  /\ \A m \in 0 .. Cardinality(H) - 1 : \E h \in H : h.n = m
  /\ \A g, h \in H : g.n = h.n => g = h

\* The reference count of a segment is the number of handles to it.
HandleInv ==
  /\ IsFiniteSet(handles)
  /\ \A h \in handles : h.client \in Clients /\ h.id \in Ids
  /\ AttachedBacked
  /\ \A i \in Active : shm_segments[i].ref_count = Cardinality(HandlesAt(i))
  /\ \A c \in Clients, i \in Ids : Numbered(HandlesOf(c, i))

\* A handle numbered with the size of the set is new and continues the numbering.
LEMMA NumberedAdd ==
  ASSUME NEW H, IsFiniteSet(H), Numbered(H), NEW x, x.n = Cardinality(H)
  PROVE  x \notin H /\ Numbered(H \cup {x})
<1> DEFINE k == Cardinality(H)
<1>1. k \in Nat /\ x.n = k
  BY FS_CardinalityType
<1>2. /\ \A h \in H : h.n \in 0 .. k - 1
      /\ \A m \in 0 .. k - 1 : \E h \in H : h.n = m
      /\ \A g, h \in H : g.n = h.n => g = h
  BY DEF Numbered
<1> HIDE DEF k
<1>3. x \notin H
  BY <1>1, <1>2
<1>4. Cardinality(H \cup {x}) = k + 1
  BY <1>1, <1>3, FS_AddElement DEF k
<1>5. \A h \in H \cup {x} : h.n \in 0 .. k
  BY <1>1, <1>2
<1>6. \A m \in 0 .. k : \E h \in H \cup {x} : h.n = m
  BY <1>1, <1>2
<1>7. \A g, h \in H \cup {x} : g.n = h.n => g = h
  BY <1>1, <1>2
<1>8. Cardinality(H \cup {x}) - 1 = k
  BY <1>1, <1>4
<1> QED
  BY <1>3, <1>5, <1>6, <1>7, <1>8, Zenon DEF Numbered

\* Without its last handle the numbering still has no gap.
LEMMA NumberedRemove ==
  ASSUME NEW H, IsFiniteSet(H), Numbered(H), NEW x \in H, x.n = Cardinality(H) - 1
  PROVE  Numbered(H \ {x})
<1> DEFINE k == Cardinality(H)
<1>1. k \in Nat /\ x.n = k - 1
  BY FS_CardinalityType
<1>2. /\ \A h \in H : h.n \in 0 .. k - 1
      /\ \A m \in 0 .. k - 1 : \E h \in H : h.n = m
      /\ \A g, h \in H : g.n = h.n => g = h
  BY DEF Numbered
<1>3. Cardinality(H \ {x}) = k - 1
  BY FS_RemoveElement
<1> HIDE DEF k
<1>4. \A h \in H \ {x} : h.n \in 0 .. k - 1 - 1
  BY <1>1, <1>2
<1>5. \A m \in 0 .. k - 1 - 1 : \E h \in H \ {x} : h.n = m
  BY <1>1, <1>2
<1> QED
  BY <1>2, <1>3, <1>4, <1>5 DEF Numbered

\* The handles of a client, and of a segment, can be counted.
LEMMA HandleSetsFinite ==
  ASSUME HandleInv, NEW c, NEW i
  PROVE  /\ IsFiniteSet(HandlesOf(c, i)) /\ Cardinality(HandlesOf(c, i)) \in Nat
         /\ IsFiniteSet(HandlesAt(i)) /\ Cardinality(HandlesAt(i)) \in Nat
<1>1. HandlesOf(c, i) \subseteq handles /\ HandlesAt(i) \subseteq handles
  BY DEF HandlesOf, HandlesAt
<1> QED
  BY <1>1, FS_Subset, FS_CardinalityType DEF HandleInv

\* Initially there are no handles.
LEMMA HandleInit == ShmInit => HandleInv
<1> SUFFICES ASSUME ShmInit PROVE HandleInv
  OBVIOUS
<1>1. handles = {}
  BY DEF ShmInit
<1>2. Active = {}
  BY FreedSegment DEF ShmInit, Active, Empty
<1>3. \A c, i : HandlesOf(c, i) = {}
  BY <1>1 DEF HandlesOf
<1>4. Numbered({})
  BY FS_EmptySet DEF Numbered
<1> QED
  BY <1>1, <1>2, <1>3, <1>4, FS_EmptySet DEF HandleInv, AttachedBacked

\* Steps that leave the handles, and the segments they name, alone.
LEMMA HandlesUnchanged ==
  ASSUME HandleInv, UNCHANGED handles,
         \A i \in Active' : shm_segments'[i].ref_count = Cardinality(HandlesAt(i)),
         \A h \in handles : h.id \in Active' /\ shm_segments'[h.id].extent = shm_segments[h.id].extent
  PROVE  HandleInv'
<1>1. \A c, i : HandlesOf(c, i)' = HandlesOf(c, i) /\ HandlesAt(i)' = HandlesAt(i)
  BY DEF HandlesOf, HandlesAt
<1> QED
  BY <1>1 DEF HandleInv, AttachedBacked

\* ipc_shm_attach adds one handle and one to the count.
LEMMA AttachStep ==
  ASSUME TableInv, HandleInv, NEW c \in Clients, NEW id \in Ids, ipc_shm_attach(c, id)
  PROVE  HandleInv'
<1> DEFINE k == Cardinality(HandlesOf(c, id))
           x == [client |-> c, id |-> id, n |-> k, extent |-> shm_segments[id].extent]
           r == shm_segments[id].ref_count + 1
<1>1. /\ id \in Active /\ handles' = handles \cup {x}
      /\ shm_segments' = [shm_segments EXCEPT ![id].ref_count = r]
  BY DEF ipc_shm_attach
<1>2. r \in 0 .. MaxRefs
  BY ShmAssumption DEF ipc_shm_attach, TableInv, ShmTypeOK
<1>3. x.client = c /\ x.id = id /\ x.n = Cardinality(HandlesOf(c, id))
      /\ x.extent = shm_segments[id].extent
  OBVIOUS
<1>4. r = shm_segments[id].ref_count + 1
  OBVIOUS
<1> HIDE DEF x, k, r
<1>5. /\ Active' = Active
      /\ \A j \in Ids : /\ shm_segments'[j].extent = shm_segments[j].extent
                        /\ shm_segments'[j].ref_count =
                             IF j = id THEN r ELSE shm_segments[j].ref_count
  BY <1>1, <1>2, CountEffect
<1>6. x \notin HandlesOf(c, id) /\ Numbered(HandlesOf(c, id) \cup {x})
  BY <1>3, HandleSetsFinite, NumberedAdd DEF HandleInv
<1>7. x \notin handles
  BY <1>3, <1>6 DEF HandlesOf
<1>8. \A d, i : HandlesOf(d, i)' = IF d = c /\ i = id THEN HandlesOf(d, i) \cup {x} ELSE HandlesOf(d, i)
  BY <1>1, <1>3 DEF HandlesOf
<1>9. \A i : HandlesAt(i)' = IF i = id THEN HandlesAt(i) \cup {x} ELSE HandlesAt(i)
  BY <1>1, <1>3 DEF HandlesAt
<1>10. IsFiniteSet(handles)'
  BY <1>1, FS_AddElement DEF HandleInv
<1>11. (\A h \in handles : h.client \in Clients /\ h.id \in Ids)'
  BY <1>1, <1>3 DEF HandleInv
<1>12. AttachedBacked'
  BY <1>1, <1>3, <1>5 DEF HandleInv, AttachedBacked
<1>13. ASSUME NEW i \in Active' PROVE shm_segments'[i].ref_count = Cardinality(HandlesAt(i)')
  <2>1. i \in Active /\ i \in Ids /\ shm_segments[i].ref_count = Cardinality(HandlesAt(i))
    BY <1>5, <1>13, ActiveInIds DEF HandleInv
  <2>2. CASE i = id
    <3>1. x \notin HandlesAt(id) /\ IsFiniteSet(HandlesAt(id))
      BY <1>7, HandleSetsFinite DEF HandlesAt
    <3>2. Cardinality(HandlesAt(id) \cup {x}) = Cardinality(HandlesAt(id)) + 1
      BY <3>1, FS_AddElement
    <3> QED
      BY <1>4, <1>5, <1>9, <2>1, <2>2, <3>2
  <2>3. CASE i # id
    BY <1>5, <1>9, <2>1, <2>3
  <2> QED BY <2>2, <2>3
<1>14. ASSUME NEW d \in Clients, NEW i \in Ids PROVE Numbered(HandlesOf(d, i)')
  BY <1>6, <1>8 DEF HandleInv
<1>15. \A d \in Clients, i \in Ids : Numbered(HandlesOf(d, i))'
  BY <1>14 DEF Numbered
<1> QED
  BY <1>10, <1>11, <1>12, <1>13, <1>15 DEF HandleInv

\* ipc_shm_detach of an attached client takes one handle back and one from the count.
LEMMA DetachStep ==
  ASSUME Disciplined, TableInv, HandleInv, NEW c \in Clients, NEW id \in Ids,
         ipc_shm_detach(c, id)
  PROVE  HandleInv'
<1> DEFINE H == HandlesOf(c, id)
           k == Cardinality(H)
<1>1. H # {} /\ id \in Active /\ Numbered(H) /\ IsFiniteSet(H) /\ k \in Nat
  BY HandleSetsFinite DEF ipc_shm_detach, HandleInv
<1>2. k # 0
  BY <1>1, FS_EmptySet
<1>3. PICK x \in H : x.n = k - 1
  BY <1>1, <1>2 DEF Numbered
<1>4. handles' = handles \ {x}
  <2>1. handles' = { h \in handles : ~ (h \in H /\ h.n = k - 1) }
    BY DEF ipc_shm_detach, HandlesOf
  <2>2. \A h \in H : h.n = k - 1 => h = x
    BY <1>1, <1>3 DEF Numbered
  <2> HIDE DEF k, H
  <2> QED
    BY <1>3, <2>1, <2>2
<1>5. x \in handles /\ x.client = c /\ x.id = id
  BY <1>3 DEF HandlesOf
<1>6. Numbered(H \ {x})
  BY <1>1, <1>3, NumberedRemove
<1> HIDE DEF H, k
<1> DEFINE r == shm_segments[id].ref_count - 1
<1>7. /\ shm_segments[id].ref_count = Cardinality(HandlesAt(id))
      /\ shm_segments[id].ref_count \in 0 .. MaxRefs
  BY <1>1 DEF HandleInv, TableInv, ShmTypeOK
<1>8. shm_segments[id].ref_count > 0
  <2>1. x \in HandlesAt(id)
    BY <1>5 DEF HandlesAt
  <2>2. Cardinality(HandlesAt(id)) # 0
    BY <2>1, HandleSetsFinite, FS_EmptySet
  <2> QED
    BY <1>7, <2>2, ShmAssumption
<1>9. shm_segments' = [shm_segments EXCEPT ![id].ref_count = r] /\ r \in 0 .. MaxRefs
  BY <1>7, <1>8, ShmAssumption DEF ipc_shm_detach
<1>10. r = shm_segments[id].ref_count - 1
  OBVIOUS
<1> HIDE DEF r
<1>11. /\ Active' = Active
       /\ \A j \in Ids : /\ shm_segments'[j].extent = shm_segments[j].extent
                         /\ shm_segments'[j].ref_count =
                              IF j = id THEN r ELSE shm_segments[j].ref_count
  BY <1>9, CountEffect
<1>12. \A d, i : HandlesOf(d, i)' = IF d = c /\ i = id THEN HandlesOf(d, i) \ {x} ELSE HandlesOf(d, i)
  BY <1>4, <1>5 DEF HandlesOf
<1>13. \A i : HandlesAt(i)' = IF i = id THEN HandlesAt(i) \ {x} ELSE HandlesAt(i)
  BY <1>4, <1>5 DEF HandlesAt
<1>14. IsFiniteSet(handles)'
  BY <1>4, FS_RemoveElement DEF HandleInv
<1>15. (\A h \in handles : h.client \in Clients /\ h.id \in Ids)'
  BY <1>4 DEF HandleInv
<1>16. AttachedBacked'
  BY <1>4, <1>11, ActiveInIds DEF HandleInv, AttachedBacked
<1>17. ASSUME NEW i \in Active' PROVE shm_segments'[i].ref_count = Cardinality(HandlesAt(i)')
  <2>1. i \in Active /\ i \in Ids /\ shm_segments[i].ref_count = Cardinality(HandlesAt(i))
    BY <1>11, <1>17, ActiveInIds DEF HandleInv
  <2>2. CASE i = id
    <3>1. x \in HandlesAt(id) /\ IsFiniteSet(HandlesAt(id))
      BY <1>5, HandleSetsFinite DEF HandlesAt
    <3>2. Cardinality(HandlesAt(id) \ {x}) = Cardinality(HandlesAt(id)) - 1
      BY <3>1, FS_RemoveElement
    <3> QED
      BY <1>10, <1>11, <1>13, <2>1, <2>2, <3>2
  <2>3. CASE i # id
    BY <1>11, <1>13, <2>1, <2>3
  <2> QED BY <2>2, <2>3
<1>18. ASSUME NEW d \in Clients, NEW i \in Ids PROVE Numbered(HandlesOf(d, i)')
  BY <1>6, <1>12 DEF HandleInv, H
<1>19. \A d \in Clients, i \in Ids : Numbered(HandlesOf(d, i))'
  BY <1>18 DEF Numbered
<1> QED
  BY <1>14, <1>15, <1>16, <1>17, <1>19 DEF HandleInv

\* Every call of disciplined clients keeps counts and handles in step.
LEMMA HandleStep ==
  ASSUME Disciplined, TableInv, HandleInv, [ShmNext]_shmvars
  PROVE  HandleInv'
<1>0. /\ \A h \in handles : h.id \in Active
      /\ \A i \in Active : shm_segments[i].ref_count = Cardinality(HandlesAt(i))
  BY DEF HandleInv, AttachedBacked
<1>1. ASSUME NEW key \in Keys, NEW size \in Sizes, ipc_shm_create(key, size) PROVE HandleInv'
  <2>1. PICK i \in Ids \ Active, e \in live' \ live :
          /\ shm_segments' = [shm_segments EXCEPT ![i] =
               [active |-> TRUE, key |-> key, extent |-> e, ref_count |-> 0]]
          /\ Active' = Active \cup {i}
    BY <1>1, CreateEffect
  <2>2. /\ shm_segments'[i].ref_count = 0
        /\ \A j \in Active : shm_segments'[j] = shm_segments[j]
    BY <2>1, ActiveInIds DEF TableInv, ShmTypeOK
  <2>3. Cardinality(HandlesAt(i)) = 0
    <3>1. HandlesAt(i) = {}
      BY <1>0, <2>1 DEF HandlesAt
    <3> QED BY <3>1, FS_EmptySet
  <2>4. UNCHANGED handles
    BY <1>1 DEF ipc_shm_create
  <2> QED
    BY <1>0, <2>1, <2>2, <2>3, <2>4, HandlesUnchanged
<1>2. ASSUME NEW id \in Ids, ipc_shm_destroy(id) PROVE HandleInv'
  <2>1. /\ Active' = Active \ {id}
        /\ \A j \in Ids : j # id => shm_segments'[j] = shm_segments[j]
    BY <1>2, DestroyEffect
  <2>2. id \in Active /\ shm_segments[id].ref_count = 0 /\ UNCHANGED handles
    BY <1>2 DEF ipc_shm_destroy
  <2>3. HandlesAt(id) = {}
    BY <1>0, <2>2, HandleSetsFinite, FS_EmptySet
  <2>4. \A h \in handles : h.id # id
    BY <2>3 DEF HandlesAt
  <2> QED
    BY <1>0, <2>1, <2>2, <2>4, ActiveInIds, HandlesUnchanged
<1>3. CASE UNCHANGED <<shm_segments, handles>>
  <2>1. Active' = Active
    BY <1>3 DEF Active
  <2> QED
    BY <1>0, <1>3, <2>1, HandlesUnchanged
<1>4. CASE OtherAllocates \/ OtherFrees \/ UNCHANGED shmvars
  BY <1>3, <1>4 DEF OtherAllocates, OtherFrees, shmvars
<1> QED
  BY <1>1, <1>2, <1>4, AttachStep, DetachStep DEF ShmNext

\* With unique keys, a lookup by key can find one segment only.
LEMMA KeyFindsAtMostOne == KeysUnique => KeyFindsOne
<1> SUFFICES ASSUME KeysUnique, NEW key \in Keys
             PROVE  Cardinality(ipc_shm_lookup_key(key)) <= 1
  BY DEF KeyFindsOne
<1> DEFINE S == ipc_shm_lookup_key(key)
<1>1. S = {} \/ \E i : S = {i}
  BY DEF KeysUnique, ipc_shm_lookup_key
<1> HIDE DEF S
<1>2. Cardinality(S) = 0 \/ Cardinality(S) = 1
  BY <1>1, FS_EmptySet, FS_Singleton
<1> QED
  BY <1>2 DEF S

\* Clients that detach only what they attached never lose memory they are attached
\* to, a key names one segment and a segment has memory of its own (ipc.h:38).
THEOREM ShmIsSound ==
  ASSUME Disciplined
  PROVE  ShmSpec => []ShmSound
<1>1. ShmInit => TableInv /\ HandleInv
  BY TableInit, HandleInit
<1>2. TableInv /\ HandleInv /\ [ShmNext]_shmvars => TableInv' /\ HandleInv'
  BY TableStep, HandleStep
<1>3. TableInv /\ HandleInv => ShmSound
  BY KeyFindsAtMostOne DEF TableInv, HandleInv, ShmSound
<1> QED
  BY <1>1, <1>2, <1>3, PTL DEF ShmSpec

--------------------------------------------------------------------------------
(* The boot. *)

HeapWindow == [addr |-> HeapStart(LowEnd), size |-> HEAP_SIZE]

\* The stage of the boot: what is left to do, and what exists by then.
StageInv ==
  \/ step = "free_usable" /\ phase = "mmap" /\ todo \subseteq mmap /\ heap = None /\ live = {}
  \/ step = "modules" /\ phase = "reserve" /\ todo \subseteq mods /\ heap = None /\ live = {}
  \/ step = "heap" /\ phase = "reserve" /\ todo = {} /\ heap = HeapWindow /\ live = {}
  \/ step \in {"run", "ready"} /\ phase = "run" /\ todo = {} /\ heap = HeapWindow

\* What the boot has taken stays marked used: the image, the bitmap and the modules
\* visited, and the heap.
TakenInv ==
  /\ bitmap \subseteq Blocks
  /\ step # "free_usable" =>
       /\ RegionBlocks(0, LowEnd) \subseteq bitmap
       /\ \A m \in mods \ todo : BlocksOf(ModuleExtent(m)) \subseteq bitmap \cap reserved
  /\ step \in {"heap", "run", "ready"} => BlocksOf(HeapWindow) \subseteq bitmap

BootInv ==
  /\ mmap \in MemoryMaps /\ mods \in ModuleLists /\ kernel_end \in KernelEnds
  /\ StageInv /\ TakenInv /\ AllocationsClear /\ FreeTouchesUsable
--------------------------------------------------------------------------------
(* Addresses. *)

\* The pool ends below the address limit.
LEMMA PoolBounds ==
  /\ MaxBlocks \in Nat \ {0} /\ AddrLimit \in Nat /\ (MaxBlocks + 1) * 4096 <= AddrLimit
  /\ PAGE_SIZE = 4096
  BY PMMAssumption DEF PAGE_SIZE

\* align_up, which saturates at the end of the address space.
LEMMA AlignUp ==
  ASSUME NEW v \in Nat
  PROVE  /\ align_up(v) \in Nat /\ align_up(v) < AddrLimit
         /\ v < AddrLimit => align_up(v) >= v
         /\ v >= AddrLimit => align_up(v) = AddrLimit - 1
  BY PoolBounds DEF align_up

\* A bounded set of numbers has a greatest.
LEMMA MaxOfNat ==
  ASSUME NEW S, S # {}, NEW n \in Nat, S \subseteq 0 .. n
  PROVE  Max(S) \in S /\ \A x \in S : x <= Max(S)
<1> DEFINE U == {u \in Nat : \A x \in S : x <= u}
           m == Min(U)
<1>1. U \subseteq Nat /\ n \in U
  OBVIOUS
<1>2. m \in U /\ \A u \in U : m <= u
  BY <1>1, MinOfNat
<1> HIDE DEF m
<1>3. m \in Nat /\ \A x \in S : x <= m
  BY <1>2
<1>4. m \in S
  <2> SUFFICES ASSUME m \notin S PROVE FALSE
    OBVIOUS
  <2>1. PICK y \in S : TRUE
    OBVIOUS
  <2>2. \A x \in S : x \in Nat /\ x <= m - 1
    BY <1>3
  <2>3. m - 1 \in U
    BY <1>3, <2>1, <2>2
  <2> QED
    BY <1>2, <1>3, <2>3
<1> QED
  BY <1>3, <1>4 DEF Max

\* The bitmap has a size.
LEMMA BitmapSize == pmm_get_bitmap_size \in Nat
  BY PoolBounds DEF pmm_get_bitmap_size

\* The heap starts behind v when there is room for it.
LEMMA HeapPlace ==
  ASSUME NEW v \in Nat
  PROVE  /\ HeapStart(v) \in Nat
         /\ HeapStart(v) + HEAP_SIZE < AddrLimit => v < AddrLimit /\ v <= HeapStart(v)
<1> DEFINE S == {v, HEAP_MIN_START}
<1>1. HEAP_MIN_START \in Nat /\ HEAP_SIZE \in Nat \ {0}
  BY BootAssumption
<1>2. v + HEAP_MIN_START \in Nat /\ S # {} /\ S \subseteq 0 .. (v + HEAP_MIN_START)
  BY <1>1
<1>3. Max(S) \in S /\ \A x \in S : x <= Max(S)
  BY <1>2, MaxOfNat
<1>4. Max(S) \in Nat /\ v <= Max(S)
  BY <1>1, <1>3
<1>5. HeapStart(v) = align_up(Max(S))
  BY DEF HeapStart
<1> HIDE DEF S
<1> QED
  BY <1>1, <1>4, <1>5, AlignUp, PoolBounds

\* The image, the modules and the bitmap end before the heap, and the heap before
\* the end of the address space.
LEMMA Layout ==
  ASSUME mods \in ModuleLists, kernel_end \in KernelEnds
  PROVE  /\ LowEnd \in Nat /\ LowEnd < AddrLimit
         /\ \A m \in mods : m.end <= LowEnd /\ m.start \in Nat /\ m.end \in Nat /\ m.start <= m.end
         /\ HeapWindow.addr \in Nat /\ HeapWindow.size = HEAP_SIZE /\ HeapWindow.size \in Nat \ {0}
         /\ HeapWindow.addr + HeapWindow.size < AddrLimit /\ LowEnd <= HeapWindow.addr
<1> DEFINE E == {kernel_end} \cup { m.end : m \in mods }
           x == Max(E)
<1>1. \A m \in mods : m.start \in Nat /\ m.end \in Nat /\ m.start <= m.end
  BY BootAssumption
<1>2. \A y \in E : /\ y \in Nat
                   /\ HeapStart(align_up(y) + pmm_get_bitmap_size) + HEAP_SIZE < AddrLimit
  BY <1>1, BootAssumption
<1>3. \A y \in E : /\ y < AddrLimit /\ y <= align_up(y) /\ align_up(y) \in Nat
                   /\ align_up(y) + pmm_get_bitmap_size < AddrLimit
  <2> SUFFICES ASSUME NEW y \in E
               PROVE  /\ y < AddrLimit /\ y <= align_up(y) /\ align_up(y) \in Nat
                      /\ align_up(y) + pmm_get_bitmap_size < AddrLimit
    OBVIOUS
  <2> DEFINE v == align_up(y) + pmm_get_bitmap_size
  <2>1. y \in Nat /\ align_up(y) \in Nat /\ v \in Nat /\ v >= align_up(y)
    BY <1>2, AlignUp, BitmapSize
  <2>2. HeapStart(v) + HEAP_SIZE < AddrLimit
    BY <1>2
  <2> HIDE DEF v
  <2>3. v < AddrLimit /\ v <= HeapStart(v) /\ HeapStart(v) \in Nat
    BY <2>1, <2>2, HeapPlace
  <2>4. y < AddrLimit
    <3>1. HEAP_SIZE \in Nat \ {0} /\ AddrLimit \in Nat
      BY PoolBounds, BootAssumption
    <3>2. align_up(y) < AddrLimit - 1
      BY <2>1, <2>2, <2>3, <3>1
    <3>3. y >= AddrLimit => align_up(y) = AddrLimit - 1
      BY <2>1, AlignUp
    <3> QED
      BY <2>1, <3>1, <3>2, <3>3
  <2> QED
    BY <2>1, <2>3, <2>4, AlignUp DEF v
<1>4. x \in E /\ \A y \in E : y <= x
  <2>1. E # {} /\ E \subseteq 0 .. AddrLimit
    BY <1>2, <1>3, PoolBounds
  <2>2. AddrLimit \in Nat
    BY PoolBounds
  <2> HIDE DEF E
  <2> QED
    BY <2>1, <2>2, MaxOfNat
<1> HIDE DEF x
<1>5. LowEnd = align_up(x) + pmm_get_bitmap_size
  BY DEF LowEnd, reserve_kernel_and_modules, x
<1>6. LowEnd \in Nat /\ LowEnd < AddrLimit /\ x <= LowEnd
  BY <1>2, <1>3, <1>4, <1>5, BitmapSize, PoolBounds
<1>7. HeapStart(LowEnd) \in Nat /\ HeapStart(LowEnd) + HEAP_SIZE < AddrLimit /\ LowEnd <= HeapStart(LowEnd)
  BY <1>2, <1>4, <1>5, <1>6, HeapPlace
<1>8. \A m \in mods : m.end <= LowEnd
  <2> SUFFICES ASSUME NEW m \in mods PROVE m.end <= LowEnd
    OBVIOUS
  <2>1. m.end \in E
    OBVIOUS
  <2>2. m.end <= x /\ m.end \in Nat /\ x \in Nat
    BY <1>2, <1>4, <2>1
  <2> QED
    BY <1>6, <2>2
<1> QED
  BY <1>1, <1>6, <1>7, <1>8, BootAssumption DEF HeapWindow

\* A byte of a region lies in one of the region's blocks, if it lies in the pool.
LEMMA ByteInRegion ==
  ASSUME NEW base \in Nat, NEW size \in Nat, base + size < AddrLimit,
         NEW x \in Nat, base <= x, x < base + size, x < MaxBlocks * 4096
  PROVE  x \div 4096 \in RegionBlocks(base, size)
<1>1. Add32(base, size) = base + size
  BY PoolBounds DEF Add32
<1>2. x \div 4096 \in Blocks
  BY PoolBounds DEF Blocks
<1>3. align_down(base) \div 4096 <= x \div 4096
  BY PoolBounds DEF align_down
<1>4. x \div 4096 < align_up(base + size) \div 4096
  BY PoolBounds DEF align_up
<1> QED
  BY <1>1, <1>2, <1>3, <1>4, PoolBounds DEF RegionBlocks

\* A block of a region has a byte of the region.
LEMMA RegionTouched ==
  ASSUME NEW base \in Nat, NEW size \in Nat, base + size < AddrLimit,
         NEW b \in RegionBlocks(base, size)
  PROVE  b \in Blocks /\ b * 4096 < base + size /\ base < b * 4096 + 4096
<1>1. Add32(base, size) = base + size
  BY PoolBounds DEF Add32
<1>2. /\ b \in Blocks /\ align_down(base) \div 4096 <= b
      /\ b < align_up(base + size) \div 4096
  BY <1>1, PoolBounds DEF RegionBlocks
<1>3. b \in Nat /\ b < MaxBlocks
  BY <1>2, PoolBounds DEF Blocks
<1>4. base < b * 4096 + 4096
  BY <1>2, <1>3, PoolBounds DEF align_down
<1>5. b * 4096 < base + size
  BY <1>2, <1>3, PoolBounds DEF align_up
<1> QED
  BY <1>2, <1>4, <1>5

\* Two extents that share a byte of the pool share a block.
LEMMA OverlapShares ==
  ASSUME NEW e \in Extent, e.size > 0, e.addr + e.size <= MaxBlocks * 4096,
         NEW h, h.addr \in Nat, h.size \in Nat \ {0}, h.addr + h.size < AddrLimit, Overlap(e, h)
  PROVE  BlocksOf(e) \cap BlocksOf(h) # {}
<1>1. /\ e.addr \in Nat /\ e.size \in Nat /\ e.addr + e.size < AddrLimit
      /\ e.addr < h.addr + h.size /\ h.addr < e.addr + e.size
  BY PoolBounds DEF Extent, ByteAddr, Overlap
<1>2. PICK x \in Nat : /\ e.addr <= x /\ x < e.addr + e.size
                      /\ h.addr <= x /\ x < h.addr + h.size
  <2>1. CASE e.addr <= h.addr
    <3> WITNESS h.addr \in Nat
    <3> QED
      BY <1>1, <2>1
  <2>2. CASE ~(e.addr <= h.addr)
    <3>1. e.addr \in Nat
      BY <1>1
    <3> WITNESS e.addr \in Nat
    <3> QED
      BY <1>1, <2>2
  <2> QED
    BY <2>1, <2>2
<1>3. x < MaxBlocks * 4096
  BY <1>1, <1>2, PoolBounds
<1>4. x \div 4096 \in BlocksOf(e) /\ x \div 4096 \in BlocksOf(h)
  BY <1>1, <1>2, <1>3, ByteInRegion DEF BlocksOf
<1> QED
  BY <1>4

\* What an allocation does: the blocks it takes were free, and the extent it hands
\* out lies in the pool and in those blocks.
LEMMA Allocated ==
  ASSUME bitmap \subseteq Blocks, KernelAllocates
  PROVE  /\ phase = "run" /\ UNCHANGED <<phase, reserved, bootvars>>
         /\ bitmap \subseteq bitmap' /\ bitmap' \subseteq Blocks
         /\ \/ live' = live
            \/ \E e \in Extent : /\ live' = live \cup {e} /\ e.size > 0 /\ e.addr + e.size <= MaxBlocks * 4096
                                 /\ BlocksOf(e) \cap bitmap = {}
<1>1. CASE pmm_alloc_block
  <2> DEFINE b == Min(FreeBlocks)
             e == [addr |-> b * PAGE_SIZE, size |-> PAGE_SIZE]
  <2>1. FreeBlocks \subseteq Nat /\ FreeBlocks # {}
    BY <1>1, PMMAssumption DEF pmm_alloc_block, FreeBlocks, Blocks
  <2>2. b \in Blocks /\ b \notin bitmap
    BY <2>1, MinOfNat DEF FreeBlocks
  <2>3. /\ phase = "run" /\ UNCHANGED <<phase, reserved, bootvars>> /\ bitmap' = bitmap \cup {b}
        /\ live' = IF b = 0 THEN live ELSE live \cup {e}
    BY <1>1 DEF pmm_alloc_block, SetBlocks, KernelAllocates
  <2>4. ASSUME b # 0
        PROVE  /\ e \in Extent /\ e.size > 0 /\ e.addr + e.size <= MaxBlocks * 4096
               /\ BlocksOf(e) \cap bitmap = {}
    <3>1. Needed(PAGE_SIZE) = 1
      BY PMMAssumption DEF Needed, align_up, PAGE_SIZE
    <3>2. b \in 1 .. MaxBlocks - 1 /\ b + Needed(PAGE_SIZE) <= MaxBlocks
      BY <2>2, <2>4, <3>1, PMMAssumption DEF Blocks
    <3>3. PAGE_SIZE \in ByteAddr /\ PAGE_SIZE > 0
      BY PMMAssumption DEF ByteAddr, PAGE_SIZE
    <3>4. /\ BlocksOf(e) = b .. b + Needed(PAGE_SIZE) - 1
          /\ e \in Extent /\ e.addr + e.size <= MaxBlocks * PAGE_SIZE
      BY <3>2, <3>3, RunIsRegion DEF BlocksOf
    <3>5. BlocksOf(e) = {b}
      BY <2>2, <3>1, <3>4, PMMAssumption DEF Blocks
    <3> QED
      BY <2>2, <3>3, <3>4, <3>5, PoolBounds
  <2> HIDE DEF b, e
  <2> QED
    BY <2>2, <2>3, <2>4
<1>2. ASSUME NEW size \in Sizes, pmm_alloc_region(size)
      PROVE  /\ phase = "run" /\ UNCHANGED <<phase, reserved, bootvars>>
             /\ bitmap \subseteq bitmap' /\ bitmap' \subseteq Blocks
             /\ \E e \in Extent : /\ live' = live \cup {e} /\ e.size > 0 /\ e.addr + e.size <= MaxBlocks * 4096
                                  /\ BlocksOf(e) \cap bitmap = {}
  <2> DEFINE n == Needed(size)
             s == Min(RunStarts(n))
             e == [addr |-> s * PAGE_SIZE, size |-> size]
  <2>1. RunStarts(n) \subseteq Nat /\ RunStarts(n) # {}
    <3>1. RunStarts(n) # {}
      BY <1>2 DEF pmm_alloc_region
    <3>2. RunStarts(n) \subseteq 1 .. MaxBlocks - 1
      BY DEF RunStarts
    <3>3. 1 .. MaxBlocks - 1 \subseteq Nat
      BY PMMAssumption
    <3> QED
      BY <3>1, <3>2, <3>3
  <2>2. s \in RunStarts(n)
    BY <2>1, MinOfNat
  <2>3. /\ s \in 1 .. MaxBlocks - 1 /\ s + n <= MaxBlocks
        /\ \A x \in s .. s + n - 1 : x \notin bitmap
    BY <2>2 DEF RunStarts
  <2>4. size \in ByteAddr /\ size > 0
    BY <1>2, PMMAssumption DEF pmm_alloc_region
  <2>5. /\ BlocksOf(e) = s .. s + n - 1 /\ s .. s + n - 1 \subseteq Blocks
        /\ e \in Extent /\ e.addr + e.size <= MaxBlocks * PAGE_SIZE
    BY <2>3, <2>4, RunIsRegion DEF BlocksOf
  <2>6. /\ phase = "run" /\ UNCHANGED <<phase, reserved, bootvars>>
        /\ bitmap' = bitmap \cup BlocksOf(e) /\ live' = live \cup {e}
    BY <1>2, <2>5 DEF pmm_alloc_region, SetBlocks, KernelAllocates
  <2>7. BlocksOf(e) \cap bitmap = {} /\ e.size > 0 /\ e.addr + e.size <= MaxBlocks * 4096
    <3>1. BlocksOf(e) \cap bitmap = {}
      BY <2>3, <2>5
    <3>2. e.size > 0
      BY <2>4
    <3>3. e.addr + e.size <= MaxBlocks * 4096
      BY <2>5, PoolBounds
    <3> QED
      BY <3>1, <3>2, <3>3
  <2>8. BlocksOf(e) \subseteq Blocks /\ e \in Extent
    BY <2>5
  <2> HIDE DEF e
  <2> QED
    BY <2>6, <2>7, <2>8
<1> QED
  BY <1>1, <1>2 DEF KernelAllocates

\* An extent of free blocks is clear of everything the boot has taken.
LEMMA FreeIsClear ==
  ASSUME BootInv, phase = "run", NEW e \in Extent, e.size > 0, e.addr + e.size <= MaxBlocks * 4096,
         BlocksOf(e) \cap bitmap = {}
  PROVE  /\ ~Overlap(e, heap) /\ e.addr >= LowEnd
         /\ \A m \in mods : ~Overlap(e, ModuleExtent(m))
<1>1. /\ heap = HeapWindow /\ BlocksOf(HeapWindow) \subseteq bitmap
      /\ RegionBlocks(0, LowEnd) \subseteq bitmap
  BY DEF BootInv, StageInv, TakenInv
<1>2. /\ LowEnd \in Nat /\ LowEnd < AddrLimit
      /\ \A m \in mods : m.end <= LowEnd /\ m.start \in Nat /\ m.end \in Nat /\ m.start <= m.end
      /\ HeapWindow.addr \in Nat /\ HeapWindow.size \in Nat \ {0}
      /\ HeapWindow.addr + HeapWindow.size < AddrLimit
  BY Layout DEF BootInv
<1>3. ~Overlap(e, heap)
  BY <1>1, <1>2, OverlapShares
<1>4. e.addr \in Nat /\ e.size \in Nat
  BY DEF Extent, ByteAddr
<1>5. e.addr >= LowEnd
  <2> SUFFICES ASSUME e.addr < LowEnd PROVE FALSE
    BY <1>2, <1>4
  <2>1. e.addr < MaxBlocks * 4096 /\ 0 \in Nat /\ 0 + LowEnd < AddrLimit /\ e.addr < 0 + LowEnd
    BY <1>2, <1>4, PoolBounds
  <2>2. e.addr \div 4096 \in RegionBlocks(0, LowEnd)
    BY <1>2, <1>4, <2>1, ByteInRegion
  <2>3. e.addr \div 4096 \in RegionBlocks(e.addr, e.size)
    <3>1. e.addr + e.size < AddrLimit /\ e.addr <= e.addr /\ e.addr < e.addr + e.size
      BY <1>4, PoolBounds
    <3> QED
      BY <1>4, <2>1, <3>1, ByteInRegion
  <2> QED
    BY <1>1, <2>2, <2>3 DEF BlocksOf
<1>6. \A m \in mods : ~Overlap(e, ModuleExtent(m))
  BY <1>2, <1>4, <1>5 DEF Overlap, ModuleExtent
<1> QED
  BY <1>3, <1>5, <1>6
--------------------------------------------------------------------------------
(* The invariant. *)

\* Nothing but the pool and the list of what is left changes, and no block is
\* released: the layout stands.
Reserving ==
  /\ UNCHANGED <<mmap, mods, kernel_end>>
  /\ bitmap \subseteq bitmap' /\ bitmap' \subseteq Blocks

\* A step that only marks more blocks used moves nothing that was laid out.
LEMMA LayoutStands ==
  ASSUME BootInv, Reserving
  PROVE  /\ LowEnd' = LowEnd /\ HeapWindow' = HeapWindow /\ FreeTouchesUsable'
         /\ (mmap \in MemoryMaps)' /\ (mods \in ModuleLists)' /\ (kernel_end \in KernelEnds)'
<1>1. LowEnd' = LowEnd
  BY DEF Reserving, LowEnd, reserve_kernel_and_modules
<1>2. FreeTouchesUsable'
  BY DEF Reserving, BootInv, FreeTouchesUsable
<1> QED
  BY <1>1, <1>2 DEF Reserving, BootInv, HeapWindow

\* Before the memory map is read every block is used.
THEOREM BootInitially == BootInit => BootInv
<1> SUFFICES ASSUME BootInit PROVE BootInv
  OBVIOUS
<1>1. /\ step = "free_usable" /\ phase = "mmap" /\ todo = mmap /\ heap = None /\ live = {}
      /\ bitmap = Blocks
  BY DEF BootInit, Init
<1> QED
  BY <1>1 DEF BootInit, BootInv, StageInv, TakenInv, AllocationsClear, FreeTouchesUsable

\* free_usable_memory: the blocks it releases hold a byte of the entry.
LEMMA FreeUsableStep ==
  ASSUME BootInv, NEW e \in mmap, FreeUsable(e)
  PROVE  BootInv'
<1>1. /\ step = "free_usable" /\ todo' \subseteq todo
      /\ UNCHANGED <<mmap, mods, kernel_end, step, heap, model>>
  BY DEF FreeUsable
<1>2. e.base \in Nat /\ e.length \in Nat
  BY BootAssumption DEF BootInv
<1>3. CASE e.base < MaxBlocks * PAGE_SIZE /\ e.length > 0 /\ e.type = Available
  <2> DEFINE c == Clipped(e)
             S == {e.length, MaxBlocks * 4096 - e.base}
  <2>1. S \subseteq Nat /\ S # {}
    BY <1>2, <1>3, PoolBounds
  <2>2. c.addr = e.base /\ c.size = Min(S)
    BY PoolBounds DEF Clipped
  <2>3. c.size \in Nat /\ c.size <= e.length /\ e.base + c.size <= MaxBlocks * 4096
    <3>1. Min(S) \in S /\ \A x \in S : Min(S) <= x
      BY <2>1, MinOfNat
    <3>2. Min(S) \in Nat /\ Min(S) <= e.length /\ Min(S) <= MaxBlocks * 4096 - e.base
      BY <2>1, <3>1
    <3> QED
      BY <1>2, <2>2, <3>2, PoolBounds
  <2>4. /\ phase = "mmap" /\ bitmap' = bitmap \ BlocksOf(c) /\ UNCHANGED <<phase, live, reserved>>
    BY <1>3 DEF FreeUsable, pmm_mark_usable_region, UnsetBlocks
  <2> HIDE DEF c
  <2>5. \A b \in BlocksOf(c) : b \in Blocks /\ Overlap([addr |-> b * PAGE_SIZE, size |-> PAGE_SIZE],
                                         [addr |-> e.base, size |-> e.length])
    <3> SUFFICES ASSUME NEW b \in BlocksOf(c)
                 PROVE  b \in Blocks /\ Overlap([addr |-> b * PAGE_SIZE, size |-> PAGE_SIZE],
                                         [addr |-> e.base, size |-> e.length])
      OBVIOUS
    <3>1. e.base + c.size < AddrLimit
      BY <1>2, <2>3, PoolBounds
    <3>2. b \in Blocks /\ b * 4096 < e.base + c.size /\ e.base < b * 4096 + 4096
      BY <1>2, <2>2, <2>3, <3>1, RegionTouched DEF BlocksOf
    <3>3. b \in Nat
      BY <3>2, PoolBounds DEF Blocks
    <3> QED
      BY <1>2, <2>3, <3>2, <3>3, PoolBounds DEF Overlap
  <2>6. FreeTouchesUsable'
    BY <1>1, <1>3, <2>4, <2>5 DEF BootInv, FreeTouchesUsable
  <2> QED
    BY <1>1, <2>4, <2>6 DEF BootInv, StageInv, TakenInv, AllocationsClear
<1>4. CASE ~(e.base < MaxBlocks * PAGE_SIZE /\ e.length > 0 /\ e.type = Available)
  <2>1. UNCHANGED vars
    BY <1>4 DEF FreeUsable
  <2> QED
    BY <1>1, <2>1 DEF vars, BootInv, StageInv, TakenInv, AllocationsClear, FreeTouchesUsable
<1> QED
  BY <1>3, <1>4

\* pmm_reserve_region of an extent.
LEMMA ReservingBlocks ==
  ASSUME bitmap \subseteq Blocks, NEW e, SetBlocks(BlocksOf(e)), UNCHANGED <<mmap, mods, kernel_end>>
  PROVE  Reserving /\ bitmap' = bitmap \cup BlocksOf(e)
BY RegionInPool DEF SetBlocks, Reserving

\* The reservations and the heap, one after the other.
LEMMA ReserveSteps ==
  ASSUME BootInv, ReserveBelowBitmap \/ (\E m \in mods : ReserveModule(m)) \/ kheap_init \/ EnterRun
  PROVE  BootInv'
<1> USE DEF BootInv
<1>1. bitmap \subseteq Blocks
  BY DEF TakenInv
<1>2. CASE ReserveBelowBitmap
  <2> DEFINE e == [addr |-> 0, size |-> LowEnd]
  <2>1. /\ step = "free_usable" /\ SetBlocks(BlocksOf(e)) /\ phase' = "reserve" /\ todo' = mods
        /\ step' = "modules" /\ UNCHANGED <<mmap, mods, kernel_end, heap, live>>
    BY <1>2 DEF ReserveBelowBitmap, ReserveLow
  <2>2. Reserving /\ bitmap' = bitmap \cup BlocksOf(e)
    BY <1>1, <2>1, ReservingBlocks
  <2>3. BlocksOf(e) = RegionBlocks(0, LowEnd)
    BY DEF BlocksOf
  <2>4. LowEnd' = LowEnd
    BY <2>2, LayoutStands
  <2>5. RegionBlocks(0, LowEnd)' = RegionBlocks(0, LowEnd)
    BY <2>4
  <2>6. StageInv' /\ AllocationsClear'
    BY <2>1 DEF StageInv, AllocationsClear
  <2>7. TakenInv'
    BY <1>1, <2>1, <2>2, <2>3, <2>5 DEF TakenInv, Reserving
  <2> QED
    BY <2>2, <2>6, <2>7, LayoutStands
<1>3. ASSUME NEW m \in mods, ReserveModule(m) PROVE BootInv'
  <2> DEFINE e == ModuleExtent(m)
  <2>1. /\ step = "modules" /\ SetBlocks(BlocksOf(e)) /\ todo' = todo \ {m}
        /\ reserved' = reserved \cup BlocksOf(e)
        /\ UNCHANGED <<mmap, mods, kernel_end, step, heap, live, phase>>
    BY <1>3 DEF ReserveModule, pmm_reserve_region, ModuleExtent
  <2>2. Reserving /\ bitmap' = bitmap \cup BlocksOf(e)
    BY <1>1, <2>1, ReservingBlocks
  <2>3. LowEnd' = LowEnd /\ \A k : BlocksOf(ModuleExtent(k))' = BlocksOf(ModuleExtent(k))
    BY <2>2, LayoutStands
  <2>4. StageInv' /\ AllocationsClear'
    BY <2>1 DEF StageInv, AllocationsClear
  <2>5. TakenInv'
    <3>1. RegionBlocks(0, LowEnd) \subseteq bitmap
          /\ \A k \in mods \ todo : BlocksOf(ModuleExtent(k)) \subseteq bitmap \cap reserved
      BY <2>1 DEF TakenInv
    <3>2. \A k \in mods' \ todo' : BlocksOf(ModuleExtent(k)) \subseteq bitmap' \cap reserved'
      BY <2>1, <2>2, <3>1
    <3> QED
      BY <2>1, <2>2, <2>3, <3>1, <3>2 DEF TakenInv, Reserving
  <2> QED
    BY <2>2, <2>4, <2>5, LayoutStands
<1>4. CASE kheap_init
  <2>1. /\ step = "modules" /\ todo = {} /\ heap' = HeapWindow /\ SetBlocks(BlocksOf(HeapWindow))
        /\ step' = "heap" /\ UNCHANGED <<mmap, mods, kernel_end, todo, live, phase>>
        /\ reserved \subseteq reserved'
    BY <1>4 DEF kheap_init, pmm_reserve_region, HeapWindow
  <2>2. Reserving /\ bitmap' = bitmap \cup BlocksOf(HeapWindow)
    BY <1>1, <2>1, ReservingBlocks
  <2>3. /\ LowEnd' = LowEnd /\ HeapWindow' = HeapWindow
        /\ \A k : BlocksOf(ModuleExtent(k))' = BlocksOf(ModuleExtent(k))
    BY <2>2, LayoutStands
  <2>4. StageInv' /\ AllocationsClear'
    BY <2>1, <2>3 DEF StageInv, AllocationsClear
  <2>5. TakenInv'
    <3>1. BlocksOf(HeapWindow)' = BlocksOf(HeapWindow)
      BY <2>3
    <3> QED
      BY <2>1, <2>2, <2>3, <3>1 DEF TakenInv, Reserving
  <2> QED
    BY <2>2, <2>4, <2>5, LayoutStands
<1>5. CASE EnterRun
  <2>1. /\ step = "heap" /\ step' = "run" /\ phase' = "run"
        /\ UNCHANGED <<bitmap, live, reserved, mmap, mods, kernel_end, todo, heap>>
    BY <1>5 DEF EnterRun, BootDone
  <2>2. Reserving
    BY <1>1, <2>1 DEF Reserving
  <2>3. /\ LowEnd' = LowEnd /\ HeapWindow' = HeapWindow
        /\ \A k : BlocksOf(ModuleExtent(k))' = BlocksOf(ModuleExtent(k))
    BY <2>2, LayoutStands
  <2>4. StageInv' /\ AllocationsClear'
    BY <2>1, <2>3 DEF StageInv, AllocationsClear
  <2>5. TakenInv'
    <3>1. BlocksOf(HeapWindow)' = BlocksOf(HeapWindow)
      BY <2>3
    <3> QED
      BY <2>1, <2>3, <3>1 DEF TakenInv
  <2> QED
    BY <2>2, <2>4, <2>5, LayoutStands
<1> QED
  BY <1>2, <1>3, <1>4, <1>5

\* Run time: the pool only fills, and what is handed out is clear of the layout.
Running ==
  /\ Reserving /\ step \in {"run", "ready"} /\ step' \in {"run", "ready"}
  /\ reserved \subseteq reserved' /\ UNCHANGED <<phase, todo, heap>>

\* Allocating once the heap is placed.
LEMMA RunSteps ==
  ASSUME BootInv, Running,
         \A e \in live' \ live : /\ ~Overlap(e, heap) /\ e.addr >= LowEnd
                                 /\ \A m \in mods : ~Overlap(e, ModuleExtent(m))
  PROVE  BootInv'
<1> USE DEF BootInv, Running
<1>1. /\ LowEnd' = LowEnd /\ HeapWindow' = HeapWindow
      /\ \A k : BlocksOf(ModuleExtent(k))' = BlocksOf(ModuleExtent(k))
      /\ UNCHANGED <<mods, heap>>
  BY LayoutStands DEF Reserving
<1>2. StageInv'
  BY <1>1 DEF StageInv
<1>3. TakenInv'
  <2>1. BlocksOf(HeapWindow)' = BlocksOf(HeapWindow) /\ bitmap \subseteq bitmap' /\ bitmap' \subseteq Blocks
    BY <1>1 DEF Reserving
  <2> QED
    BY <1>1, <2>1 DEF TakenInv
<1>4. AllocationsClear'
  BY <1>1 DEF AllocationsClear
<1> QED
  BY <1>2, <1>3, <1>4, LayoutStands

\* Every step of the boot, and every allocation after it, keeps what was laid out.
THEOREM BootStep == BootInv /\ [BootNext]_<<vars, bootvars>> => BootInv'
<1> SUFFICES ASSUME BootInv, [BootNext]_<<vars, bootvars>> PROVE BootInv'
  OBVIOUS
<1>1. bitmap \subseteq Blocks
  BY DEF BootInv, TakenInv
<1>2. CASE KernelAllocates
  <2>1. /\ phase = "run" /\ UNCHANGED <<phase, reserved, bootvars>>
        /\ bitmap \subseteq bitmap' /\ bitmap' \subseteq Blocks
        /\ \/ live' = live
           \/ \E e \in Extent : /\ live' = live \cup {e} /\ e.size > 0
                                /\ e.addr + e.size <= MaxBlocks * 4096
                                /\ BlocksOf(e) \cap bitmap = {}
    BY <1>1, <1>2, Allocated
  <2>2. Running
    BY <1>2, <2>1 DEF Running, Reserving, KernelAllocates, bootvars
  <2>3. \A e \in live' \ live : /\ ~Overlap(e, heap) /\ e.addr >= LowEnd
                                /\ \A m \in mods : ~Overlap(e, ModuleExtent(m))
    BY <2>1, FreeIsClear
  <2> QED
    BY <2>2, <2>3, RunSteps
<1>3. CASE (\E m \in mods : LoadModelModule(m)) \/ \E size \in DiskModelSizes : LoadModelFile(size)
  <2>1. /\ step = "run" /\ step' = "ready" /\ SetBlocks(BlocksOf(model'))
        /\ reserved' = reserved \cup BlocksOf(model')
        /\ UNCHANGED <<phase, live, mmap, mods, kernel_end, todo, heap>>
    BY <1>3 DEF LoadModelModule, LoadModelFile
  <2>2. Running
    BY <1>1, <2>1, ReservingBlocks DEF Running
  <2> QED
    BY <2>1, <2>2, RunSteps
<1>4. CASE NoModel
  <2>1. Running /\ live' = live
    BY <1>1, <1>4 DEF NoModel, Running, Reserving, vars
  <2> QED
    BY <2>1, RunSteps
<1>5. CASE UNCHANGED <<vars, bootvars>>
  BY <1>5 DEF vars, bootvars, BootInv, StageInv, TakenInv, AllocationsClear, FreeTouchesUsable,
              HeapWindow, LowEnd, reserve_kernel_and_modules, BlocksOf, RegionBlocks
<1> QED
  BY <1>2, <1>3, <1>4, <1>5, FreeUsableStep, ReserveSteps DEF BootNext

\* The layout, for every memory map, module list, kernel image and size of the heap:
\* kheap_init's window is clear of what the loader left, and neither it nor a page
\* handed out later shares a byte with the image, the bitmap, a module or the other.
THEOREM LayoutClearAlways == BootSpec => []LayoutClear
<1>1. BootInv => LayoutClear
  <2> SUFFICES ASSUME BootInv PROVE LayoutClear
    OBVIOUS
  <2>1. /\ LowEnd \in Nat /\ LowEnd <= HeapWindow.addr /\ HeapWindow.addr \in Nat
        /\ \A m \in mods : m.end <= LowEnd /\ m.start \in Nat /\ m.end \in Nat
    BY Layout DEF BootInv
  <2>2. heap # None => heap = HeapWindow
    BY DEF BootInv, StageInv
  <2>3. HeapClear
    BY <2>1, <2>2 DEF HeapClear, Overlap, ModuleExtent
  <2> QED
    BY <2>3 DEF LayoutClear, BootInv
<1> QED
  BY <1>1, BootInitially, BootStep, PTL DEF BootSpec

\* free_usable_memory: a block that is free holds a byte of usable memory.
THEOREM FreeTouchesUsableAlways == BootSpec => []FreeTouchesUsable
<1>1. BootInv => FreeTouchesUsable
  BY DEF BootInv
<1> QED
  BY <1>1, BootInitially, BootStep, PTL DEF BootSpec

\* Every step of a boot that reads no model file is a step of the page allocator as
\* PMM specifies it, or leaves the allocator alone.
THEOREM BootUsesPool ==
  ASSUME Extents = Extent, DiskModelSizes = {}
  PROVE  BootSpec => Spec
<1>1. BootInit => Init
  BY DEF BootInit
<1>2. BootInv /\ PoolInv /\ [BootNext]_<<vars, bootvars>> => [Next]_vars
  <2> SUFFICES ASSUME BootInv, PoolInv, [BootNext]_<<vars, bootvars>> PROVE [Next]_vars
    OBVIOUS
  <2>1. /\ LowEnd \in ByteAddr
        /\ \A m \in mods : ModuleExtent(m) \in Extents
        /\ HeapWindow \in Extents
    <3>1. /\ LowEnd \in Nat /\ LowEnd < AddrLimit
          /\ \A m \in mods : m.end <= LowEnd /\ m.start \in Nat /\ m.end \in Nat /\ m.start <= m.end
          /\ HeapWindow.addr \in Nat /\ HeapWindow.size = HEAP_SIZE /\ HeapWindow.size \in Nat
          /\ HeapWindow.addr + HeapWindow.size < AddrLimit
      BY Layout DEF BootInv
    <3>2. AddrLimit \in Nat
      BY PoolBounds
    <3>3. HeapWindow \in Extent
      BY <3>1, <3>2 DEF HeapWindow, Extent, ByteAddr
    <3>4. ASSUME NEW m \in mods PROVE ModuleExtent(m) \in Extent
      <4>1. /\ m.end <= LowEnd /\ m.start \in Nat /\ m.end \in Nat /\ m.start <= m.end
            /\ LowEnd \in Nat /\ LowEnd < AddrLimit
        BY <3>1
      <4>2. m.start \in ByteAddr /\ m.end - m.start \in ByteAddr
        BY <3>2, <4>1 DEF ByteAddr
      <4> QED
        BY <4>2 DEF ModuleExtent, Extent
    <3> QED
      BY <3>1, <3>2, <3>3, <3>4 DEF ByteAddr
  <2>2. CASE UNCHANGED <<vars, bootvars>>
    BY <2>2
  <2>3. ASSUME NEW e \in mmap, FreeUsable(e) PROVE [Next]_vars
    <3>1. CASE e.base < MaxBlocks * PAGE_SIZE /\ e.length > 0 /\ e.type = Available
      <4>1. e.base \in Nat /\ e.length \in Nat
        BY BootAssumption DEF BootInv
      <4> DEFINE S == {e.length, MaxBlocks * 4096 - e.base}
      <4>2. S \subseteq Nat /\ S # {} /\ e.base < AddrLimit
        BY <3>1, <4>1, PoolBounds
      <4>3. Min(S) \in S /\ \A x \in S : Min(S) <= x
        BY <4>2, MinOfNat
      <4>4. Min(S) \in ByteAddr /\ e.base \in ByteAddr
        BY <4>1, <4>2, <4>3, PoolBounds DEF ByteAddr
      <4>5. Clipped(e) = [addr |-> e.base, size |-> Min(S)]
        BY PoolBounds DEF Clipped
      <4>6. Clipped(e) \in Extents
        <5> HIDE DEF S
        <5> QED BY <4>4, <4>5 DEF Extent
      <4> QED
        BY <2>3, <3>1, <4>6 DEF FreeUsable, Next
    <3>2. CASE ~(e.base < MaxBlocks * PAGE_SIZE /\ e.length > 0 /\ e.type = Available)
      BY <2>3, <3>2 DEF FreeUsable
    <3> QED
      BY <3>1, <3>2
  <2>4. CASE ReserveBelowBitmap
    <3>1. [addr |-> 0, size |-> LowEnd] \in Extents
      BY <2>1, PoolBounds DEF Extent, ByteAddr
    <3> QED
      BY <2>4, <3>1 DEF ReserveBelowBitmap, Next
  <2>5. ASSUME NEW m \in mods, ReserveModule(m) PROVE [Next]_vars
    BY <2>1, <2>5 DEF ReserveModule, ModuleExtent, Next
  <2>6. CASE kheap_init
    BY <2>1, <2>6 DEF kheap_init, HeapWindow, Next
  <2>7. CASE EnterRun \/ KernelAllocates \/ NoModel
    BY <2>7 DEF EnterRun, KernelAllocates, NoModel, Next
  <2>8. ASSUME NEW m \in mods, LoadModelModule(m) PROVE UNCHANGED vars
    <3> DEFINE S == BlocksOf(ModuleExtent(m))
    <3>1. /\ SetBlocks(S) /\ reserved' = reserved \cup S /\ UNCHANGED <<phase, live>> /\ step = "run"
      BY <2>8 DEF LoadModelModule, ModuleExtent
    <3>2. S \subseteq bitmap \cap reserved
      BY <3>1 DEF BootInv, StageInv, TakenInv
    <3>3. S \ bitmap = {} /\ Cardinality({}) = 0 /\ used_blocks \in Nat
      BY <3>2, FS_EmptySet DEF PoolInv, TypeOK
    <3>4. used_blocks' = used_blocks /\ bitmap' = bitmap /\ reserved' = reserved
      BY <3>1, <3>2, <3>3 DEF SetBlocks
    <3> QED
      BY <3>1, <3>4 DEF vars
  <2> QED
    BY <2>2, <2>3, <2>4, <2>5, <2>6, <2>7, <2>8 DEF BootNext
<1>3. BootInv /\ PoolInv /\ [BootNext]_<<vars, bootvars>> => PoolInv'
  BY <1>2, StepInv
<1> QED
  BY <1>1, <1>2, <1>3, InitInv, BootInitially, BootStep, PTL DEF BootSpec, Spec
================================================================================
