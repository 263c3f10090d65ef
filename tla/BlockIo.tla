-------------------------------- MODULE BlockIo --------------------------------
(* From the disk to the file systems: kernel/storage.c registers the disks and *)
(* the partitions of their MBR or GPT (blockdev.c, partition.c) and mounts     *)
(* every device (vfs.c); ata.c turns reads and writes of bytes into commands   *)
(* of whole sectors, each of which may fail.  A byte of the ATA disk is known  *)
(* by its address, and a byte of the caller's buffer by its index.             *)
EXTENDS Integers, Sequences, FiniteSets, SequencesExt

CONSTANTS
  SECTOR_SIZE,
  AddrSpace,               \* 2^32: offsets a device can be asked for
  ATA_MAX_SECTORS_PER_CMD,
  MAX_BLOCK_DEVICES,
  MBR_MAX_PRIMARY, GPT_MAX_SCAN_ENTRIES,
  Disks,                   \* the disks the controllers find, in the order EHCI,
                           \* UHCI, ATA: [ata, sectors, table, entries]
  Volume(_, _),            \* the file system at a sector of a disk
  MaxRequest               \* bound on the size of a request

None == 0
ATA == CHOOSE k \in DOMAIN Disks : Disks[k].ata
AtaSectors == Disks[ATA].sectors

VARIABLES found,     \* number of disks storage_init is through with
          devices,   \* the registry: [disk, first, sectors, whole]
          mounted,   \* number of devices it has tried to mount
          fatMount, extMount,  \* the devices of the global mounts
          req,       \* the request being served
          done,      \* bytes of it served
          got,       \* a read: the addresses its bytes came from
          media      \* a write: address -> index of the byte written there, 0

blkvars == <<found, devices, mounted, fatMount, extMount, req, done, got, media>>

Idle0 == [op |-> "idle", dev |-> 0, at |-> 0, size |-> 0, asked |-> 0]
Clean == [a \in 0 .. (AtaSectors * SECTOR_SIZE - 1) |-> 0]

BlkInit ==
  /\ found = 0 /\ devices = <<>> /\ mounted = 0
  /\ fatMount = None /\ extMount = None
  /\ req = Idle0 /\ done = 0 /\ got = <<>> /\ media = Clean
-------------------------------------------------------------------------------
(* Registration *)

Prefix0(s, n) == SubSeq(s, 1, IF n < Len(s) THEN n ELSE Len(s))

\* The table entries that describe a partition; a GPT entry has its last sector
\* where an MBR entry has a count.
MbrParts(k) ==
  LET used == SelectSeq(Prefix0(Disks[k].entries, MBR_MAX_PRIMARY), LAMBDA e : e.type # 0 /\ e.n # 0)
  IN  [i \in DOMAIN used |-> [disk |-> k, first |-> used[i].first, sectors |-> used[i].n, whole |-> FALSE]]
GptParts(k) ==
  LET used == SelectSeq(Prefix0(Disks[k].entries, GPT_MAX_SCAN_ENTRIES),
                        LAMBDA e : e.type # 0 /\ e.first # 0 /\ e.n >= e.first)
  IN  [i \in DOMAIN used |-> [disk |-> k, first |-> used[i].first,
                              sectors |-> used[i].n - used[i].first + 1, whole |-> FALSE]]
Partitions(k) == CASE Disks[k].table = "mbr" -> MbrParts(k)
                   [] Disks[k].table = "gpt" -> GptParts(k)
                   [] OTHER -> <<>>

blockdev_register(devs, ds) == Prefix0(devs \o ds, MAX_BLOCK_DEVICES)

\* A disk of storage_init.  It is scanned only when it was registered; the read
\* of its table may fail, and any partition may be lost for want of memory.
storage_init_disk ==
  /\ found < Len(Disks)
  /\ LET k == found + 1
         disk == [disk |-> k, first |-> 0, sectors |-> Disks[k].sectors, whole |-> TRUE]
     IN  \E kept \in SUBSET (DOMAIN Partitions(k)) :
           devices' = IF Len(devices) = MAX_BLOCK_DEVICES THEN devices
                      ELSE blockdev_register(Append(devices, disk),
                             [i \in 1 .. Cardinality(kept) |->
                                Partitions(k)[SetToSortSeq(kept, LAMBDA a, b : a < b)[i]]])
  /\ found' = found + 1
  /\ UNCHANGED <<mounted, fatMount, extMount, req, done, got, media>>

\* vfs_mount asks the drivers in the order ext, ntfs, fat32.  The probes take a
\* failed read (0 bytes) for a good one and judge what the buffer held before,
\* such as the boot sector of a device probed earlier.  A mount that runs out of
\* memory before it has set the global pointer is as none at all.
vfs_mount ==
  /\ found = Len(Disks) /\ mounted < Len(devices)
  /\ LET i == mounted + 1
         fs == Volume(devices[i].disk, devices[i].first)
     IN  \E seen \in {fs, "none"} \cup {Volume(devices[j].disk, devices[j].first) : j \in 1 .. mounted} :
           /\ fatMount' = IF seen = "fat32" THEN i ELSE fatMount
           /\ extMount' = IF seen = "ext" THEN i ELSE extMount
  /\ mounted' = mounted + 1
  /\ UNCHANGED <<found, devices, req, done, got, media>>
-------------------------------------------------------------------------------
(* Requests *)

\* partition_read, or the disk's own read; partition devices have no write.
vfs_device_request(op, dev, offset, size) ==
  /\ found = Len(Disks) /\ mounted = Len(devices)
  /\ req.op = "idle" /\ devices[dev].disk = ATA
  /\ op = "write" => devices[dev].whole
  /\ LET start == devices[dev].first * SECTOR_SIZE
         limit == devices[dev].sectors * SECTOR_SIZE
         n == IF devices[dev].whole \/ offset + size <= limit THEN size ELSE limit - offset
     IN  /\ ~devices[dev].whole => offset < limit /\ start + offset < AddrSpace
         /\ req' = [op |-> op, dev |-> dev, at |-> start + offset, size |-> n, asked |-> size]
  /\ done' = 0 /\ got' = <<>> /\ media' = Clean
  /\ UNCHANGED <<found, devices, mounted, fatMount, extMount>>

\* The next command of ata_block_read or ata_block_write: a batch of whole
\* sectors straight from or to the buffer, or part of one sector.
Absolute == (req.at + done) % AddrSpace
Lba == Absolute \div SECTOR_SIZE
Within == Absolute % SECTOR_SIZE
Left == req.size - done
Aligned == Within = 0 /\ Left >= SECTOR_SIZE
Least(S) == CHOOSE x \in S : \A y \in S : x <= y
Batch == Least({Left \div SECTOR_SIZE, AtaSectors - Lba, ATA_MAX_SECTORS_PER_CMD})
\* Variant: a partial sector is taken for a whole one.
ChunkWhole == IF Aligned THEN Batch * SECTOR_SIZE ELSE Least({SECTOR_SIZE, Left})

Chunk == IF Aligned THEN Batch * SECTOR_SIZE ELSE Least({SECTOR_SIZE - Within, Left})
MoreToDo == done < req.size /\ Lba < AtaSectors

ata_block_read ==
  /\ req.op = "read" /\ MoreToDo
  /\ got' = got \o [i \in 1 .. Chunk |-> Absolute + i - 1]
  /\ done' = done + Chunk
  /\ UNCHANGED <<found, devices, mounted, fatMount, extMount, req, media>>

Put(n) == [a \in DOMAIN media |-> IF a \in Absolute .. (Absolute + n - 1)
                                  THEN done + (a - Absolute) + 1 ELSE media[a]]

ata_block_write ==
  /\ req.op = "write" /\ MoreToDo
  /\ media' = Put(Chunk) /\ done' = done + Chunk
  /\ UNCHANGED <<found, devices, mounted, fatMount, extMount, req, got>>

Ended == [req EXCEPT !.op = IF req.op = "read" THEN "read_end" ELSE "write_end"]

\* A command that fails ends the request.  The sectors written before the
\* failure stay written, although the caller is not told of them.
ata_fail ==
  /\ req.op \in {"read", "write"} /\ MoreToDo
  /\ \E n \in 0 .. Chunk :
       /\ n = Chunk \/ (Aligned /\ n % SECTOR_SIZE = 0) \/ n = 0
       /\ media' = IF req.op = "write" THEN Put(n) ELSE media
  /\ req' = Ended
  /\ UNCHANGED <<found, devices, mounted, fatMount, extMount, done, got>>

ata_end ==
  /\ req.op \in {"read", "write"} /\ ~MoreToDo
  /\ req' = Ended
  /\ UNCHANGED <<found, devices, mounted, fatMount, extMount, done, got, media>>

request_return ==
  /\ req.op \in {"read_end", "write_end"}
  /\ req' = Idle0 /\ done' = 0 /\ got' = <<>> /\ media' = Clean
  /\ UNCHANGED <<found, devices, mounted, fatMount, extMount>>

BlkNext ==
  \/ storage_init_disk \/ vfs_mount
  \/ \E op \in {"read", "write"}, dev \in DOMAIN devices,
        offset \in 0 .. (AddrSpace - 1), size \in 0 .. MaxRequest :
       vfs_device_request(op, dev, offset, size)
  \/ ata_block_read \/ ata_block_write \/ ata_fail \/ ata_end \/ request_return

BlkSpec == BlkInit /\ [][BlkNext]_blkvars
-------------------------------------------------------------------------------
(* Properties *)

InDevice(a) == a >= devices[req.dev].first * SECTOR_SIZE
               /\ a < (devices[req.dev].first + devices[req.dev].sectors) * SECTOR_SIZE

\* Splitting a request into batches and parts of sectors skips and repeats no
\* byte.  The bytes a read reports are the ones asked for, in order, and all from
\* the partition.  A write, failed or not, touches no byte outside the range asked
\* for, and every byte it reports written is the caller's; the rest of a sector
\* written in part keeps its contents (ata_block_read, ata_block_write).
IoExact ==
  /\ req.op \in {"read", "read_end"} =>
       /\ done = Len(got) /\ done <= req.asked
       /\ \A i \in 1 .. done : got[i] = req.at + i - 1 /\ InDevice(got[i])
  /\ req.op \in {"write", "write_end"} => \A a \in DOMAIN media :
       /\ media[a] # 0 => a \in req.at .. (req.at + req.size - 1) /\ media[a] = a - req.at + 1
       /\ a \in req.at .. (req.at + done - 1) => media[a] = a - req.at + 1
================================================================================
