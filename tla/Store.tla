------------------------------- MODULE Store -------------------------------
(***************************************************************************)
(* What the disk filesystem promises: a tree of named files and            *)
(* directories in which a change happens at once or not at all.  files is  *)
(* the tree; pending is the set of trees a power loss may leave.           *)
(***************************************************************************)
EXTENDS Integers, Sequences

CONSTANTS Name, Data, Sizes, PathDepth

VARIABLES files, pending

Path == UNION {[1 .. k -> Name] : k \in 1 .. PathDepth}
Parent(p) == SubSeq(p, 1, Len(p) - 1)

File(p, bytes) == [path |-> p, kind |-> "file", bytes |-> bytes]
Directory(p) == [path |-> p, kind |-> "dir", bytes |-> <<>>]
IsFile(t, p) == \E n \in t : n.path = p /\ n.kind = "file"
IsDirectory(t, p) == p = <<>> \/ Directory(p) \in t
IsEmpty(t, p) == \A n \in t : Parent(n.path) # p
Without(t, p) == {n \in t : n.path # p}
BytesAt(t, p) == (CHOOSE n \in t : n.path = p).bytes

(* size bytes: those of patch from position offset on, else the old ones, else 0. *)
Patched(old, size, offset, patch) ==
  [p \in 1 .. size |->
     IF p \in (offset + 1) .. (offset + Len(patch)) THEN patch[p - offset]
     ELSE IF p \in DOMAIN old THEN old[p] ELSE 0]

Larger(a, b) == IF a < b THEN b ELSE a

(* The changes, as records, and the tree each makes of t. *)
Replace(p, data) == [do |-> "replace", path |-> p, offset |-> 0, size |-> 0, bytes |-> data]
WriteAt(p, n, data) == [do |-> "write", path |-> p, offset |-> n, size |-> 0, bytes |-> data]
Truncate(p, n) == [do |-> "truncate", path |-> p, offset |-> 0, size |-> n, bytes |-> <<>>]
Mkdir(p) == [do |-> "mkdir", path |-> p, offset |-> 0, size |-> 0, bytes |-> <<>>]
Remove(p) == [do |-> "remove", path |-> p, offset |-> 0, size |-> 0, bytes |-> <<>>]

Change ==
  {Replace(p, data) : p \in Path, data \in Data}
    \cup {WriteAt(p, n, data) : p \in Path, n \in Sizes, data \in Data}
    \cup {Truncate(p, n) : p \in Path, n \in Sizes}
    \cup {Mkdir(p) : p \in Path}
    \cup {Remove(p) : p \in Path}

Allowed(t, c) ==
  /\ IsDirectory(t, Parent(c.path))
  /\ CASE c.do = "replace" -> ~IsDirectory(t, c.path)
       [] c.do = "write" -> IsFile(t, c.path) /\ c.offset <= Len(BytesAt(t, c.path))
       [] c.do = "truncate" -> IsFile(t, c.path)
       [] c.do = "mkdir" -> \A n \in t : n.path # c.path
       [] c.do = "remove" -> \/ IsFile(t, c.path)
                             \/ IsDirectory(t, c.path) /\ IsEmpty(t, c.path)

Apply(t, c) ==
  IF ~Allowed(t, c) THEN t
  ELSE Without(t, c.path) \cup
    CASE c.do = "replace" -> {File(c.path, c.bytes)}
      [] c.do = "write" ->
           LET old == BytesAt(t, c.path)
           IN  {File(c.path, Patched(old, Larger(Len(old), c.offset + Len(c.bytes)), c.offset, c.bytes))}
      [] c.do = "truncate" -> {File(c.path, Patched(BytesAt(t, c.path), c.size, 0, <<>>))}
      [] c.do = "mkdir" -> {Directory(c.path)}
      [] c.do = "remove" -> {}

-----------------------------------------------------------------------------
StoreInit == pending = {files}

(* A change takes place, or its outcome is unknown; until the next flush a  *)
(* power loss may leave any earlier tree, with or without the change.       *)
Mutate(c) ==
  /\ files' \in {files, Apply(files, c)}
  /\ files' \in pending'
  /\ pending \subseteq pending'
  /\ pending' \subseteq pending \cup {Apply(t, c) : t \in pending}

Flush ==
  /\ pending' = {files}
  /\ UNCHANGED files

PowerLoss ==
  /\ files' \in pending
  /\ pending' = {files'}

StoreNext == Flush \/ PowerLoss \/ \E c \in Change : Mutate(c)

StoreSpec == StoreInit /\ [][StoreNext]_<<files, pending>>

=============================================================================
