------------------------------ MODULE MCFat16 ------------------------------
(***************************************************************************)
(* Small volumes: six clusters whose FAT entries span two sectors, three   *)
(* slots and two bytes to a sector.                                        *)
(***************************************************************************)
EXTENDS Fat16

NameDef == {"A", "D"}
DataDef == {<<>>, <<7, 8, 9>>}
SizesDef == {0, 1, 3}

Disk(links, root, storage) ==
  LET f == [c \in Cluster |-> IF c \in DOMAIN links THEN links[c] ELSE Free]
  IN  [a \in Sector |->
         CASE a[1] = "fat" -> FatSector(f, a[3])
           [] a[1] = "root" -> <<"dir", root>>
           [] OTHER -> IF a[2] \in DOMAIN storage THEN storage[a[2]] ELSE <<"data", <<-1, -1>>>>]

Bytes(a, b) == <<"data", <<a, b>>>>
AFile(first, size) == Slot("file", "A", first, size, FALSE)

\* A file, and a directory without a free slot that links across FAT sectors.
Full ==
  Disk([c \in {2, 3, 5} |-> EndMark],
       <<AFile(2, 1), Slot("dir", "D", 3, 0, FALSE), EndSlot>>,
       [c \in {2, 3, 5} |->
          CASE c = 2 -> Bytes(1, 0)
            [] c = 3 -> <<"dir", <<Slot("dot", "", 3, 0, FALSE), Slot("dotdot", "", 0, 0, FALSE),
                                   AFile(5, 2)>>>>
            [] c = 5 -> Bytes(2, 3)])

\* Stale bytes of an old file beyond the end marker, and a bad cluster.
Stale == Disk([c \in {2} |-> Bad], <<EndSlot, AFile(3, 1), EndSlot>>, [c \in {} |-> 0])

\* A read-only file with a long name, in a root with one reusable slot.
Protected ==
  Disk([c \in {4} |-> EndMark],
       <<Slot("long", "", 0, 0, FALSE), Slot("file", "A", 4, 1, TRUE), DeletedSlot(AFile(3, 1))>>,
       [c \in {4} |-> Bytes(1, 0)])

\* Two files that share a cluster.
CrossLinked ==
  Disk([c \in {2} |-> EndMark], <<AFile(2, 1), Slot("file", "D", 2, 1, FALSE), EndSlot>>,
       [c \in {2} |-> Bytes(1, 0)])

\* A volume label, and a dot entry where none belongs.
Labelled == Disk([c \in {} |-> 0], <<Slot("label", "", 0, 0, FALSE), EndSlot, EndSlot>>, [c \in {} |-> 0])
StrayDot == Disk([c \in {} |-> 0], <<Slot("dot", "", 0, 0, FALSE), EndSlot, EndSlot>>, [c \in {} |-> 0])

VolumesDef == {Full, Stale, Protected, CrossLinked, Labelled, StrayDot}

\* Two calls in a row: fewer inputs.
SeqData == {<<7, 8, 9>>}
SeqSizes == {1}
SeqVolumes == {Full}

=============================================================================
