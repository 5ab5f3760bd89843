------------------------------- MODULE Fat16 -------------------------------
(***************************************************************************)
(* The FAT16 backend (kernel/fs/fat16.c, fat16-write.c) over the disk of   *)
(* Block.  One mutation runs at a time (the namespace's busy flag); each   *)
(* is the sequence of sector writes and flushes the code issues, any of    *)
(* which can fail, and the power can fail between any two of them.         *)
(***************************************************************************)
EXTENDS Block, Integers, Sequences, FiniteSets

LOCAL INSTANCE BagsExt
LOCAL INSTANCE Bags
LOCAL INSTANCE FiniteSetsExt
LOCAL INSTANCE SequencesExt

CONSTANTS
  NClusters,        \* data clusters, numbered from 2
  FatEntries,       \* FAT entries in a sector
  SectorSlots,      \* directory entries in a sector
  SectorBytes,      \* bytes in a sector
  Name,             \* the 8.3 names of the subset rum can spell
  Data,             \* byte strings that are written
  Sizes,            \* sizes files are truncated to
  DirectoryLimit,   \* FAT16_DIRECTORY_ENTRY_LIMIT
  PathDepth,        \* FS_PATH_DEPTH
  Volumes,          \* disks a host tool may hand over
  MaxPins,          \* bound: objects retained at a time
  MaxOps            \* bound: operations on the volume

Cluster == 2 .. (NClusters + 1)
Free == 0
EndMark == 65535
Bad == 65527

Sector ==
  {<<"fat", k, i>> : k \in {1, 2}, i \in {c \div FatEntries : c \in Cluster}}
    \cup {<<"root">>}
    \cup {<<"data", c>> : c \in Cluster}

VARIABLES
  ready, writable, faulted, audited,
  fat,      \* the cached FAT
  cache,    \* the one cached sector
  pins,     \* id -> how often the namespace retains it
  op,       \* the mutation in progress
  result,   \* what the last call returned
  tree,     \* history: the tree the disk holds
  trees,    \* history: the trees a power loss may leave
  expected, \* history: the tree the mutation in progress is to leave
  clean,    \* history: no call failed and the power stayed on
  ops       \* calls so far

volumeVars == <<ready, writable, faulted, audited, fat>>
historyVars == <<tree, trees, expected, clean>>
vars == <<blockVars, volumeVars, cache, pins, op, result, historyVars, ops>>

-----------------------------------------------------------------------------
(* Directory entries.  A slot is identified by its sector and place, which is *)
(* also the id of the object it describes.                                    *)

Slot(tag, name, first, size, ro) ==
  [tag |-> tag, name |-> name, first |-> first, size |-> size, ro |-> ro]
EndSlot == Slot("end", "", 0, 0, FALSE)
DeletedSlot(e) == [e EXCEPT !.tag = "deleted"]
IsLive(e) == e.tag \in {"file", "dir"}

RootId == <<"root">>
\* A sector that was not written as directory storage reads as rubbish.
Rubbish == Slot("file", "?", 1, 1, FALSE)
Entry(d, id) == IF d[id[1]][1] = "dir" THEN d[id[1]][2][id[2]] ELSE Rubbish

(* A cached FAT sector, and the FAT that copy k of the disk holds. *)
FatSector(f, i) == [c \in {x \in Cluster : x \div FatEntries = i} |-> f[c]]
FatOf(d, k) == [c \in Cluster |-> d[<<"fat", k, c \div FatEntries>>][c]]

(* The clusters that first leads to, or <<>> when the chain leaves the volume, *)
(* reaches a free or bad cluster or repeats one.                               *)
Chain(f, first) ==
  LET next[c \in (0 .. (NClusters + 1)) \cup {Bad, EndMark}] ==
        IF c \in Cluster THEN f[c] ELSE Free
      at[k \in 0 .. NClusters] == IF k = 0 THEN first ELSE next[at[k - 1]]
      length == {n \in 1 .. NClusters : at[n] = EndMark}
  IN  IF length = {} THEN <<>> ELSE [k \in 1 .. Min(length) |-> at[k - 1]]

ClustersFor(size) == (size + SectorBytes - 1) \div SectorBytes

(* The sectors of a cluster chain, those of a directory or a file, and the slots *)
(* of a directory, in order.                                                     *)
SectorsOf(chain) == [n \in DOMAIN chain |-> <<"data", chain[n]>>]

NodeSectors(d, f, id) ==
  IF id = RootId THEN <<<<"root">>>> ELSE SectorsOf(Chain(f, Entry(d, id).first))

Slots(d, f, id) ==
  LET s == NodeSectors(d, f, id)
  IN  [n \in 1 .. Len(s) * SectorSlots |->
         <<s[(n - 1) \div SectorSlots + 1], ((n - 1) % SectorSlots) + 1>>]

(* What fat16_decode makes of an entry. *)
Decode(f, e) ==
  LET length == Len(Chain(f, e.first))
  IN  IF e.tag = "end" THEN "end"
      ELSE IF ~IsLive(e) \/ e.name \notin Name THEN "not found"
      ELSE IF e.tag = "dir"
      THEN IF length = 0 \/ e.size # 0 THEN "io error"
           ELSE IF length * SectorSlots > DirectoryLimit THEN "unsupported"
           ELSE "ok"
      ELSE IF e.size = 0 THEN IF e.first = 0 THEN "ok" ELSE "io error"
      ELSE IF length = ClustersFor(e.size) THEN "ok" ELSE "io error"

(* The bytes of a file. *)
Contents(d, f, e) ==
  IF e.size = 0 THEN <<>>
  ELSE LET s == SectorsOf(Chain(f, e.first))
           byte(n, j) == IF n \in DOMAIN s /\ d[s[n]][1] = "data" THEN d[s[n]][2][j] ELSE -1
       IN  [p \in 1 .. e.size |-> byte((p - 1) \div SectorBytes + 1, ((p - 1) % SectorBytes) + 1)]

-----------------------------------------------------------------------------
(* The tree on a disk, walked as audit_directory walks it: directories level *)
(* by level, entries up to the end marker.                                   *)

Listed(d, dir, s) ==
  {[path |-> Append(dir.path, Entry(d, s[n]).name), id |-> s[n], parent |-> dir.id] :
     n \in {k \in DOMAIN s : /\ IsLive(Entry(d, s[k]))
                             /\ \A j \in 1 .. k : Entry(d, s[j]).tag # "end"}}

Children(d, f, dir) == Listed(d, dir, Slots(d, f, dir.id))

Root == [path |-> <<>>, id |-> RootId, parent |-> RootId]

Nodes(d, f) ==
  LET level[k \in 0 .. PathDepth] ==
        IF k = 0 THEN Children(d, f, Root)
        ELSE UNION {Children(d, f, n) : n \in {x \in level[k - 1] : Entry(d, x.id).tag = "dir"}}
  IN  UNION {level[k] : k \in 0 .. PathDepth}

Tree(d, f) ==
  {[path |-> n.path, kind |-> Entry(d, n.id).tag,
    bytes |-> IF Entry(d, n.id).tag = "dir" THEN <<>> ELSE Contents(d, f, Entry(d, n.id))] :
     n \in Nodes(d, f)}

FirstOf(d, id) == IF id = RootId THEN 0 ELSE Entry(d, id).first

(* audit_directory, of the entries s[first], ... up to the end: no further dot *)
(* entries, and a volume label describes no storage.                           *)
NoStray(d, s, first) ==
  \A k \in first .. Len(s) :
    (\A j \in first .. k : Entry(d, s[j]).tag # "end") =>
      LET e == Entry(d, s[k])
      IN  /\ e.tag \notin {"dot", "dotdot"}
          /\ e.tag = "label" => e.first = 0 /\ e.size = 0 /\ ~e.ro

(* audit_directory: every live entry has the chain its size needs, every      *)
(* directory its two dot entries, and no cluster has two owners.              *)
WellFormed(d, n, e, chain, s) ==
  IF e.tag = "file"
  THEN IF e.size = 0 THEN e.first = 0 ELSE Len(chain) = ClustersFor(e.size)
  ELSE /\ chain # <<>> /\ e.size = 0
       /\ Len(n.path) <= PathDepth
       /\ Len(s) <= DirectoryLimit
       /\ Entry(d, s[1]) = Slot("dot", "", e.first, 0, FALSE)
       /\ Entry(d, s[2]) = Slot("dotdot", "", FirstOf(d, n.parent), 0, FALSE)
       /\ NoStray(d, s, 3)

Owned(d, f, n) == ToSet(Chain(f, Entry(d, n.id).first))

Audited(d, f, nodes) ==
  /\ \A n \in nodes :
       WellFormed(d, n, Entry(d, n.id), Chain(f, Entry(d, n.id).first), Slots(d, f, n.id))
  /\ NoStray(d, Slots(d, f, RootId), 1)
  /\ \A n, m \in nodes : n # m => Owned(d, f, n) \cap Owned(d, f, m) = {}

Audit(d, f) == Audited(d, f, Nodes(d, f))

-----------------------------------------------------------------------------
(* The cached sector. *)

NoSector == [addr |-> <<"none">>, data |-> <<>>]
Cached(a) == IF cache.addr = a THEN cache.data ELSE disk[a]
Load(a) == [addr |-> a, data |-> Cached(a)]
View == [a \in Sector |-> Cached(a)]

(* fat16_describe of a directory or a file. *)
Describes(id, tag) ==
  \/ id = RootId /\ tag = "dir"
  \/ id # RootId /\ Entry(View, id).tag = tag /\ Decode(fat, Entry(View, id)) = "ok"

(* find_target.  Search scans the entries e of the slots s: where it stops,    *)
(* whether name was found there, and which slots a new entry may reuse.        *)
Search(name, s, e) ==
  LET empty(k) == e[k].tag \in {"end", "deleted"}
      long(k) == k > 1 /\ e[k - 1].tag = "long"
      found(k) == e[k].name = name /\ Decode(fat, e[k]) = "ok"
      broken(k) == \/ Decode(fat, e[k]) \in {"io error", "unsupported"}
                   \/ empty(k) /\ long(k)
      stops == {k \in DOMAIN s : e[k].tag = "end" \/ found(k) \/ broken(k)}
  IN  [stop |-> IF stops = {} THEN Len(s) ELSE Min(stops),
       exists |-> \E k \in stops : k = Min(stops) /\ found(k),
       broken |-> \E k \in stops : k = Min(stops) /\ broken(k),
       reusable |-> {k \in DOMAIN s : empty(k) /\ \A j \in stops : k <= j}]

(* The slot that holds the name, or that the new entry will take. *)
Chosen(parent, s, e, r) ==
  LET slot == IF r.exists \/ r.reusable = {} THEN r.stop ELSE Min(r.reusable)
      grow == ~r.exists /\ r.reusable = {}
  IN  [refused |-> \/ ~Describes(parent, "dir")
                   \/ r.broken
                   \/ grow /\ (parent = RootId \/ Len(s) + SectorSlots > DirectoryLimit),
       exists |-> r.exists, id |-> s[slot], entry |-> e[slot],
       long |-> r.stop > 1 /\ e[r.stop - 1].tag = "long",
       grow |-> grow, parent |-> parent, last |-> s[r.stop][1],
       \* the slot that must stay an end marker when this one is consumed
       clear |-> IF /\ ~r.exists /\ e[slot].tag = "end"
                    /\ slot < Len(s) /\ e[slot + 1].tag # "end"
                 THEN <<s[slot + 1]>> ELSE <<>>]

Entries(d, s) == [n \in DOMAIN s |-> Entry(d, s[n])]
Among(parent, name, s, e) == Chosen(parent, s, e, Search(name, s, e))
Scan(parent, name, s) == Among(parent, name, s, Entries(View, s))
Target(parent, name) == Scan(parent, name, Slots(View, fat, parent))

(* by_id *)
TargetById(id) ==
  [refused |-> ~Describes(id, "file"), exists |-> TRUE, id |-> id,
   entry |-> Entry(View, id), long |-> FALSE, grow |-> FALSE, parent |-> RootId,
   last |-> id[1], clear |-> <<>>]

-----------------------------------------------------------------------------
(* Working on a copy of the FAT. *)

FreeClusters(f) == {c \in Cluster : f[c] = Free}

(* allocate: the lowest free clusters, linked. *)
Lowest(f, count) ==
  [k \in 1 .. count |->
     CHOOSE c \in FreeClusters(f) : Cardinality({x \in FreeClusters(f) : x <= c}) = k]

Linked(f, chain) ==
  [c \in Cluster |->
     IF c \notin ToSet(chain) THEN f[c]
     ELSE LET k == CHOOSE n \in DOMAIN chain : chain[n] = c
          IN  IF k = Len(chain) THEN EndMark ELSE chain[k + 1]]

\* mutant: the old chain is never freed
FreedNone(f, chain) == f

Freed(f, chain) == [c \in Cluster |-> IF c \in ToSet(chain) THEN Free ELSE f[c]]

(* A mutation as the requests it makes, in order: write a sector, copy a     *)
(* sector of file data, rewrite a directory entry, flush; and two steps in   *)
(* memory: publish the cached FAT, note that the change is committed.        *)

FlushStep == <<"flush">>

\* mutant: both copies are written before one flush
PersistFatAtOnce(old, new) ==
  LET changed == SetToSeq({i \in {c \div FatEntries : c \in Cluster} :
                             FatSector(old, i) # FatSector(new, i)})
      copy(k) == [n \in DOMAIN changed |-> <<"put", <<"fat", k, changed[n]>>, FatSector(new, changed[n])>>]
  IN  copy(1) \o copy(2) \o <<FlushStep, <<"fat", new>>>>

(* persist_fat *)
PersistFat(old, new) ==
  LET changed == {i \in {c \div FatEntries : c \in Cluster} : FatSector(old, i) # FatSector(new, i)}
      sector[n \in 1 .. Cardinality(changed)] ==
        CHOOSE i \in changed : Cardinality({x \in changed : x <= i}) = n
      copy(k) == [n \in DOMAIN sector |-> <<"put", <<"fat", k, sector[n]>>, FatSector(new, sector[n])>>]
                   \o (IF changed = {} THEN <<>> ELSE <<FlushStep>>)
  IN  copy(1) \o copy(2) \o <<<<"fat", new>>>>

\* mutant: a new directory lacks its dot entries
ZeroClusterBare(c, dots) ==
  <<<<"put", <<"data", c>>, <<"dir", [j \in 1 .. SectorSlots |-> EndSlot]>>>>>>

(* zero_cluster, with or without the two dot entries *)
ZeroCluster(c, dots) ==
  <<<<"put", <<"data", c>>,
      <<"dir", [j \in 1 .. SectorSlots |-> IF j <= Len(dots) THEN dots[j] ELSE EndSlot]>>>>>>

(* grow_directory: the slot that becomes available, and the FAT that links it. *)
LastOf(parent) == LET s == Chain(fat, Entry(View, parent).first) IN s[Len(s)]
GrownSlot(c) == <<<<"data", c>>, 1>>
Grown(f, parent, c) == [f EXCEPT ![LastOf(parent)] = c, ![c] = EndMark]

\* mutants: stale entries beyond the end come back to life; no flush at the end
PublishOverEnd(t, id, entry) == <<<<"entry", id, entry>>, FlushStep>>
PublishUnflushed(t, id, entry) ==
  (IF t.clear = <<>> THEN <<>> ELSE <<<<"entry", t.clear[1], EndSlot>>, FlushStep>>)
    \o <<<<"entry", id, entry>>>>

(* publish *)
Publish(t, id, entry) ==
  (IF t.clear = <<>> THEN <<>> ELSE <<<<"entry", t.clear[1], EndSlot>>, FlushStep>>)
    \o <<<<"entry", id, entry>>, FlushStep>>

(* copy_contents: sector n of the new file.  Bytes come from the patch, else   *)
(* from the old file when it is kept, else they are zero, the padding of the  *)
(* last cluster included.                                                     *)
ReadsOld(job, n) ==
  job.keep /\ n * SectorBytes < job.size /\ n * SectorBytes < job.oldSize

\* mutant: the rest of a patched sector is zeroed
CopiedSectorPatchOnly(job, n) ==
  <<"data",
    [j \in 1 .. SectorBytes |->
       LET p == n * SectorBytes + j
       IN  IF p \in (job.offset + 1) .. Min({job.offset + Len(job.bytes), job.size})
           THEN job.bytes[p - job.offset] ELSE 0]>>

CopiedSector(job, n) ==
  <<"data",
    [j \in 1 .. SectorBytes |->
       LET p == n * SectorBytes + j
       IN  IF p \in (job.offset + 1) .. Min({job.offset + Len(job.bytes), job.size})
           THEN job.bytes[p - job.offset]
           ELSE IF job.keep /\ p <= Min({job.oldSize, job.size})
           THEN Cached(job.old[n + 1])[2][j]
           ELSE 0]>>

-----------------------------------------------------------------------------
(* The tree a disk holds: by the first FAT copy, unless only the second is   *)
(* intact.  While the copies differ no mount reads the tree (mount_volume);  *)
(* it is the one a host tool finds that repairs the first copy from the      *)
(* second.                                                                   *)

Intact(d) ==
  IF FatOf(d, 1) = FatOf(d, 2) \/ Audit(d, FatOf(d, 1)) THEN FatOf(d, 1) ELSE FatOf(d, 2)

TreeOf(d) == Tree(d, Intact(d))

Abstract ==
  INSTANCE Store WITH files <- tree, pending <- trees

Observe ==
  /\ tree' = TreeOf(disk')
  /\ trees' = {TreeOf(d) : d \in Outcomes'}

NoJob == [keep |-> FALSE]

Idle == [running |-> FALSE, script |-> <<>>, started |-> FALSE, committed |-> FALSE,
         job |-> NoJob]

Init ==
  /\ \E d \in Volumes : BlockInit(d)
  /\ ready = FALSE /\ writable = FALSE /\ faulted = FALSE /\ audited = FALSE
  /\ fat = [c \in Cluster |-> Free]
  /\ cache = NoSector
  /\ pins = EmptyBag
  /\ op = Idle
  /\ result = "none"
  /\ tree = TreeOf(disk) /\ trees = {tree}
  /\ expected = {} /\ clean = TRUE
  /\ ops = 0

(* mount_volume: both FAT copies must agree.  The caller may ask for a         *)
(* read-only mount.                                                            *)
Mount(readOnly) ==
  /\ ~ready /\ online
  /\ FatOf(disk, 1) = FatOf(disk, 2)
  /\ ready' = TRUE
  /\ writable' = ~readOnly
  /\ fat' = FatOf(disk, 1)
  /\ UNCHANGED <<blockVars, faulted, audited, cache, pins, op, result, historyVars, ops>>

(* A read fails or the copies differ; fat16_volume is zeroed again. *)
MountFails ==
  /\ ~ready
  /\ \/ ReadFails
     \/ FatOf(disk, 1) # FatOf(disk, 2) /\ UNCHANGED blockVars
  /\ UNCHANGED <<volumeVars, cache, pins, op, result, historyVars, ops>>

Zeroed ==
  /\ ready' = FALSE /\ writable' = FALSE /\ faulted' = FALSE /\ audited' = FALSE
  /\ fat' = [c \in Cluster |-> Free]
  /\ cache' = NoSector
  /\ pins' = EmptyBag

(* fat16_unmount, refused while an object is retained (fs_unmount_disk); it does *)
(* no I/O.                                                                       *)
Unmount ==
  /\ ready /\ ~op.running /\ pins = EmptyBag
  /\ Zeroed
  /\ UNCHANGED <<blockVars, op, result, historyVars, ops>>

PowerFailure ==
  /\ PowerCycle
  /\ Zeroed
  /\ op' = Idle
  /\ result' = "none"
  /\ Observe
  /\ clean' = FALSE
  /\ UNCHANGED <<expected, ops>>

(* A write that timed out takes effect after all. *)
LateCompletion ==
  /\ LateWrite
  /\ Observe
  /\ UNCHANGED <<volumeVars, cache, pins, op, result, expected, clean, ops>>

Usable == ready /\ ~faulted

(* retain, release: the namespace pins what it has looked up until the last close. *)
Retain(id) ==
  /\ Usable
  /\ BagCardinality(pins) < MaxPins
  /\ pins' = BagAdd(pins, id)
  /\ UNCHANGED <<blockVars, volumeVars, cache, op, result, historyVars, ops>>

Release(id) ==
  /\ BagIn(id, pins)
  /\ pins' = BagRemove(pins, id)
  /\ UNCHANGED <<blockVars, volumeVars, cache, op, result, historyVars, ops>>

(* Lookups and reads leave one sector of a directory or a file in the cache, or *)
(* none.                                                                        *)
Browse(a) ==
  /\ Usable
  /\ \/ /\ online
        /\ cache' = Load(a)
        /\ UNCHANGED blockVars
     \/ /\ a # cache.addr
        /\ cache' = NoSector
        /\ ReadFails
  /\ UNCHANGED <<volumeVars, pins, op, result, historyVars, ops>>

-----------------------------------------------------------------------------
(* Calls that change the volume.                                              *)

(* writable: the first mutation of a mount audits the whole tree. *)
MayMutate == Usable /\ writable /\ (audited \/ Audit(View, fat))

(* A call finds the target t of the change c and prepares its requests, or is  *)
(* refused, or fails on a read or for want of memory, before any write.  Some  *)
(* directory sector stays cached.                                              *)
Call(c, t, refused, script, job) ==
  /\ ops' = ops + 1
  /\ \/ /\ MayMutate /\ ~t.refused /\ ~refused
        /\ online \/ cache # NoSector
        /\ op' = [running |-> TRUE, script |-> script, started |-> FALSE,
                  committed |-> FALSE, job |-> job]
        /\ expected' = Abstract!Apply(tree, c)
        /\ result' = "none"
        /\ audited' = TRUE
        /\ cache' = Load(t.last)
        /\ UNCHANGED blockVars
     \/ /\ ~MayMutate \/ t.refused \/ refused
        /\ result' = "error"
        /\ audited' = (audited \/ MayMutate)
        /\ cache' = IF Usable /\ writable THEN Load(t.last) ELSE cache
        /\ UNCHANGED <<blockVars, op, expected>>
     \/ /\ Usable /\ writable
        /\ ReadFails
        /\ result' = "error"
        /\ audited' \in {audited, MayMutate}
        /\ cache' = NoSector
        /\ UNCHANGED <<op, expected>>
  /\ UNCHANGED <<ready, writable, faulted, fat, pins, tree, trees, clean>>

(* rewrite: new clusters are written and linked before the entry names them,   *)
(* the old ones are freed after.                                               *)
Rewrite(c, t, refused, entry, size, offset, bytes, keep) ==
  LET need == ClustersFor(size)
      new == Lowest(fat, need)
      linked == Linked(fat, new)
      extra == Lowest(linked, 1)[1]
      reserved == IF t.grow THEN Grown(linked, t.parent, extra) ELSE linked
      old == IF t.exists THEN Chain(fat, t.entry.first) ELSE <<>>
      sectors == SectorsOf(new)
  IN  Call(c, t,
        \/ refused
        \/ t.exists /\ t.entry.ro
        \/ need > NClusters
        \/ Cardinality(FreeClusters(fat)) < need + (IF t.grow THEN 1 ELSE 0),
        [n \in DOMAIN sectors |-> <<"copy", sectors[n], n - 1>>]
          \o (IF t.grow THEN ZeroCluster(extra, <<>>) ELSE <<>>)
          \o <<FlushStep>>
          \o PersistFat(fat, reserved)
          \o Publish(t, IF t.grow THEN GrownSlot(extra) ELSE t.id,
                     [entry EXCEPT !.first = IF need = 0 THEN 0 ELSE new[1], !.size = size])
          \o <<<<"commit">>>>
          \o PersistFat(reserved, Freed(reserved, old)),
        [keep |-> keep, size |-> size, offset |-> offset, bytes |-> bytes,
         old |-> SectorsOf(old), oldSize |-> IF t.exists THEN t.entry.size ELSE 0])

\* mutant: open objects may go
NeverPinned(t) == FALSE

IsPinned(t) == BagIn(t.id, pins)

(* fat16_replace_file *)
Replace(dir, name, t, data) ==
  Rewrite(Abstract!Replace(Append(dir.path, name), data), t,
          t.exists /\ (t.entry.tag = "dir" \/ IsPinned(t)),
          IF t.exists THEN t.entry ELSE Slot("file", name, 0, 0, FALSE),
          Len(data), 0, data, FALSE)

(* fat16_write_file *)
WriteFile(node, t, offset, data) ==
  Rewrite(Abstract!WriteAt(node.path, offset, data), t, offset > t.entry.size,
          t.entry, Max({t.entry.size, offset + Len(data)}), offset, data, TRUE)

(* fat16_truncate_file: the size it already has is a success without I/O. *)
Truncate(node, t, size) ==
  /\ t.entry.ro \/ size # t.entry.size
  /\ Rewrite(Abstract!Truncate(node.path, size), t, FALSE, t.entry, size, 0, <<>>, TRUE)

SameSize(t, size) ==
  /\ MayMutate /\ ~t.refused /\ ~t.entry.ro /\ size = t.entry.size
  /\ online \/ cache # NoSector
  /\ ops' = ops + 1
  /\ result' = "unchanged"
  /\ audited' = TRUE
  /\ cache' = Load(t.last)
  /\ UNCHANGED <<blockVars, ready, writable, faulted, fat, pins, op, historyVars>>

(* fat16_mkdir_node *)
Mkdir(dir, name, t) ==
  LET count == IF t.grow THEN 2 ELSE 1
      cluster == Lowest(fat, count)
      linked == Linked(fat, <<cluster[1]>>)
      dots == <<Slot("dot", "", cluster[1], 0, FALSE),
                Slot("dotdot", "", FirstOf(View, dir.id), 0, FALSE)>>
  IN  Call(Abstract!Mkdir(Append(dir.path, name)), t,
           t.exists \/ Cardinality(FreeClusters(fat)) < count,
           ZeroCluster(cluster[1], dots)
             \o (IF t.grow THEN ZeroCluster(cluster[2], <<>>) ELSE <<>>)
             \o <<FlushStep>>
             \o PersistFat(fat, IF t.grow THEN Grown(linked, dir.id, cluster[2]) ELSE linked)
             \o Publish(t, IF t.grow THEN GrownSlot(cluster[2]) ELSE t.id,
                        Slot("dir", name, cluster[1], 0, FALSE)),
           NoJob)

\* mutant: directories go with what is in them
NeverHasEntries(t) == FALSE

(* fat16_remove_node: of a directory, every entry after the two dots up to the *)
(* end is deleted.                                                             *)
HasEntries(t) ==
  LET s == Slots(View, fat, t.id)
      tag(k) == Entry(View, s[k]).tag
  IN  \E k \in 3 .. Len(s) : tag(k) # "deleted" /\ \A j \in 3 .. k : tag(j) # "end"

RemoveNode(dir, name, t) ==
  Call(Abstract!Remove(Append(dir.path, name)), t,
       \/ ~t.exists
       \/ IsPinned(t) \/ t.entry.ro \/ t.long
       \/ t.entry.tag = "dir" /\ HasEntries(t),
       <<<<"entry", t.id, DeletedSlot(t.entry)>>, FlushStep>>
         \o PersistFat(fat, Freed(fat, Chain(fat, t.entry.first))),
       NoJob)

(* fat16_flush: a failure of the flush itself faults the volume. *)
FlushVolume ==
  /\ Usable /\ writable
  /\ op' = [Idle EXCEPT !.running = TRUE, !.started = TRUE, !.script = <<FlushStep>>]
  /\ expected' = tree
  /\ result' = "none"
  /\ ops' = ops + 1
  /\ UNCHANGED <<blockVars, volumeVars, cache, pins, tree, trees, clean>>

-----------------------------------------------------------------------------
(* The requests of the mutation in progress.                                  *)

Step(kind) == op.running /\ op.script # <<>> /\ Head(op.script)[1] = kind
Arg(k) == Head(op.script)[k]

\* mutant: a faulted volume stays writable
FailWritable(started) ==
  /\ op' = Idle
  /\ result' = IF op.committed THEN "committed" ELSE "error"
  /\ faulted' = (faulted \/ started)
  /\ clean' = (clean /\ ~started)
  /\ UNCHANGED <<ready, writable, audited, fat, pins, expected, ops>>

(* finish: an error after the first write faults the volume. *)
Fail(started) ==
  /\ op' = Idle
  /\ result' = IF op.committed THEN "committed" ELSE "error"
  /\ faulted' = (faulted \/ started)
  /\ writable' = (writable /\ ~started)
  /\ clean' = (clean /\ ~started)
  /\ UNCHANGED <<ready, audited, fat, pins, expected, ops>>

\* mutant: the cached sector survives a write
WriteSectorCached(a, data) ==
  \/ /\ Write(a, data)
     /\ Observe
     /\ op' = [op EXCEPT !.script = Tail(@), !.started = TRUE]
     /\ UNCHANGED <<volumeVars, cache, pins, result, expected, clean, ops>>
  \/ /\ WriteFails(a, data)
     /\ Observe
     /\ cache' = NoSector
     /\ Fail(TRUE)

(* write_sector *)
WriteSector(a, data) ==
  \/ /\ Write(a, data)
     /\ Observe
     /\ cache' = NoSector
     /\ op' = [op EXCEPT !.script = Tail(@), !.started = TRUE]
     /\ UNCHANGED <<volumeVars, pins, result, expected, clean, ops>>
  \/ /\ WriteFails(a, data)
     /\ Observe
     /\ cache' = NoSector
     /\ Fail(TRUE)

(* fat16_sector fails before the write that needs the sector. *)
ReadError(a) ==
  /\ cache.addr # a
  /\ ReadFails
  /\ cache' = NoSector
  /\ Fail(op.started)
  /\ UNCHANGED <<tree, trees>>

PutSector ==
  /\ Step("put")
  /\ WriteSector(Arg(2), Arg(3))

CopyContents ==
  /\ Step("copy")
  /\ \/ WriteSector(Arg(2), CopiedSector(op.job, Arg(3)))
     \/ ReadsOld(op.job, Arg(3)) /\ ReadError(op.job.old[Arg(3) + 1])

(* entry_write *)
WriteEntry ==
  /\ Step("entry")
  /\ LET a == Arg(2)[1]
         data == [Cached(a) EXCEPT ![2] = [@ EXCEPT ![Arg(2)[2]] = Arg(3)]]
     IN  WriteSector(a, data) \/ ReadError(a)

(* flush_device *)
FlushDevice ==
  /\ Step("flush")
  /\ \/ /\ FlushCache
        /\ Observe
        /\ op' = [op EXCEPT !.script = Tail(@)]
        /\ UNCHANGED <<volumeVars, cache, pins, result, expected, clean, ops>>
     \/ /\ FlushFails
        /\ cache' = IF op.started THEN NoSector ELSE cache
        /\ Fail(op.started)
        /\ UNCHANGED <<tree, trees>>

PublishFat ==
  /\ Step("fat")
  /\ fat' = Arg(2)
  /\ op' = [op EXCEPT !.script = Tail(@)]
  /\ UNCHANGED <<blockVars, ready, writable, faulted, audited, cache, pins, result, historyVars, ops>>

Commit ==
  /\ Step("commit")
  /\ op' = [op EXCEPT !.script = Tail(@), !.committed = TRUE]
  /\ UNCHANGED <<blockVars, volumeVars, cache, pins, result, historyVars, ops>>

Return ==
  /\ op.running /\ op.script = <<>>
  /\ op' = Idle
  /\ result' = "ok"
  /\ UNCHANGED <<blockVars, volumeVars, cache, pins, historyVars, ops>>

-----------------------------------------------------------------------------
(* What the namespace can name: supported paths, and for I/O what it retains. *)
Named == {n \in Nodes(View, fat) : n.path \in Abstract!Path}
Directories == {n \in Named \cup {Root} : n.id = RootId \/ Entry(View, n.id).tag = "dir"}
Parents == {n \in Directories : Len(n.path) < PathDepth}
Opened == {n \in Named : BagIn(n.id, pins)}

Calls ==
  /\ ready /\ ~op.running /\ ops < MaxOps
  /\ \/ \E dir \in Parents, name \in Name : \E t \in {Target(dir.id, name)} :
          \/ \E data \in Data : Replace(dir, name, t, data)
          \/ Mkdir(dir, name, t)
          \/ RemoveNode(dir, name, t)
     \/ \E n \in Opened : \E t \in {TargetById(n.id)} :
          \/ \E offset \in Sizes, data \in Data \ {<<>>} : WriteFile(n, t, offset, data)
          \/ \E size \in Sizes : Truncate(n, t, size) \/ SameSize(t, size)
     \/ FlushVolume
     \/ \E n \in Named : Retain(n.id)
     \/ \E id \in BagToSet(pins) : Release(id)
     \/ \E n \in Named \cup {Root} : \E a \in ToSet(NodeSectors(View, fat, n.id)) : Browse(a)

Requests ==
  PutSector \/ CopyContents \/ WriteEntry \/ FlushDevice \/ PublishFat \/ Commit \/ Return

Next ==
  \/ \E readOnly \in BOOLEAN : Mount(readOnly)
  \/ MountFails
  \/ Unmount
  \/ Calls
  \/ Requests
  \/ LateCompletion
  \/ PowerFailure

Spec == Init /\ [][Next]_vars

-----------------------------------------------------------------------------
(* Properties.                                                                 *)

\* Every variable ranges over its type; only a ready volume has pins, a mutation
\* in progress or a fault.
TypeOK ==
  /\ DOMAIN disk = Sector /\ DOMAIN media = Sector /\ online \in BOOLEAN
  /\ \A a \in Sector : disk[a] \in media[a]
  /\ ready \in BOOLEAN /\ writable \in BOOLEAN /\ faulted \in BOOLEAN /\ audited \in BOOLEAN
  /\ fat \in [Cluster -> Cluster \cup {Free, EndMark, Bad}]
  /\ op.running \in BOOLEAN /\ op.started \in BOOLEAN /\ op.committed \in BOOLEAN
  /\ result \in {"none", "ok", "unchanged", "committed", "error"}
  /\ ~ready => ~writable /\ ~faulted /\ ~audited /\ ~op.running /\ pins = EmptyBag
  /\ faulted => ~writable /\ ~op.running

\* The cached sector is what the disk holds: every write drops it first
\* (write_sector), and a failed read leaves none (fat16_sector).
CacheCoherent == cache # NoSector => cache.data = disk[cache.addr]

\* Whatever a power loss leaves, and whatever a write that timed out does later,
\* one FAT copy describes a sound volume: no broken chain, no cluster owned twice,
\* no entry naming unwritten storage.  So a volume whose copies agree, the only
\* kind mount accepts, is sound.  One that was never written is as the host left it.
Sound(d) == \E k \in {1, 2} : Audit(d, FatOf(d, k))

VolumeSound ==
  \/ disk \in Volumes /\ Outcomes = {disk}
  \/ \A d \in Outcomes : Sound(d)

\* The audit runs once a mount, yet its verdict stays true of the cached FAT and
\* the disk: between calls nothing a mutation did has made it stale.
AuditStaysTrue == audited /\ ~faulted /\ ~op.running => Audit(disk, fat)

\* A call that returned success, or a failed write that reports its bytes as
\* transferred (*committed), survives any power loss: every outcome holds
\* exactly the tree that the call was to leave.  The tree is read by the rule of
\* Intact: where the old chain was being freed and the copies differ, it is there
\* for the host tool that repairs the first copy, and no mount is promised.
SuccessIsDurable ==
  op.committed \/ (~op.running /\ result \in {"ok", "committed"})
    => trees = {expected}

\* While no call has faulted the volume and the power has stayed on, no cluster
\* leaks: between calls exactly the clusters with an owner are allocated.
NoLeakWhenClean ==
  ready /\ clean /\ ~op.running /\ audited =>
    {c \in Cluster : fat[c] \notin {Free, Bad}} =
      UNION {Owned(disk, fat, n) : n \in Nodes(disk, fat)}

\* An object that stays retained keeps its entry: no step deletes, renames or
\* moves what the namespace has open, so its id goes on meaning the same object.
PinnedKeepsName ==
  [][\A id \in BagToSet(pins) : BagIn(id, pins') =>
       LET e == Entry(disk, id) f == Entry(disk', id)
       IN  f.tag = e.tag /\ f.name = e.name]_vars

\* The volume implements the store: each request changes the tree as one whole
\* change or not at all, and a power loss leaves one of the trees promised.
Refinement == Abstract!StoreSpec

=============================================================================
