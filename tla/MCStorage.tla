------------------------------- MODULE MCStorage -------------------------------
(* The file systems and the disks under them, one at a time: part says which   *)
(* of FAT32, ExtFs, BlockIo and UsbMsd moves.                                   *)
EXTENDS MCFat, ExtFs, BlockIo, UsbMsd

VARIABLE part

storagevars == <<part, fatvars, extvars, blkvars, usbvars>>

\* A directory block: one entry, one that overruns its block, or none.
Good == [inode |-> TRUE, match |-> TRUE, fits |-> TRUE]
Other == [inode |-> TRUE, match |-> FALSE, fits |-> FALSE]
MCDirImages == {<<>>, <<<<Good>>>>, <<<<Other, Good>>, <<Good>>>>}

\* A stick with an MBR and an ATA disk with a GPT; the last sectors of one
\* partition lie beyond the end of the disk, another is described backwards.
Part(t, f, n) == [type |-> t, first |-> f, n |-> n]
MCDisks ==
  << [ata |-> FALSE, sectors |-> 9, table |-> "mbr", entries |-> <<Part(1, 1, 2), Part(0, 1, 2)>>],
     [ata |-> TRUE, sectors |-> 7, table |-> "gpt",
      entries |-> <<Part(1, 2, 4), Part(1, 5, 9), Part(1, 3, 2)>>] >>

MCVolume(k, s) == CASE k = 1 /\ s = 1 -> "ext"
                    [] k = 2 /\ s \in {2, 5} -> "fat32"
                    [] k = 1 /\ s = 0 -> "ntfs"
                    [] OTHER -> "none"

MCNewValue == <<"new", 1>>

StorageInit ==
  /\ part \in {"fat", "ext", "block", "usb"}
  /\ FatInit /\ BlkInit /\ ExtInit /\ UsbInit
  /\ part # "ext" => size = 0 /\ holes = {} /\ dirImage = <<>>
  /\ part # "usb" => drv = "uhci"

StorageNext ==
  /\ UNCHANGED part
  /\ \/ part = "fat"   /\ FatNext /\ UNCHANGED <<extvars, blkvars, usbvars>>
     \/ part = "ext"   /\ ExtNext /\ UNCHANGED <<fatvars, blkvars, usbvars>>
     \/ part = "block" /\ BlkNext /\ UNCHANGED <<fatvars, extvars, usbvars>>
     \/ part = "usb"   /\ UsbNext /\ UNCHANGED <<fatvars, extvars, blkvars>>

StorageSpec == StorageInit /\ [][StorageNext]_storagevars
================================================================================
