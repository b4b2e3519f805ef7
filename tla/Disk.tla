-------------------------------- MODULE Disk --------------------------------
(***************************************************************************)
(* The output directory as swiftlink::io::File (io/file.cpp) and the       *)
(* receiver use it.  A name refers to an inode and a descriptor refers to  *)
(* an inode: renaming or unlinking a name does not disturb a descriptor.   *)
(*                                                                         *)
(* A disk is a record: names maps the existing paths to inodes, data maps  *)
(* the allocated inodes to their contents, a sequence of units.            *)
(***************************************************************************)
EXTENDS Integers, Sequences

CONSTANT Inodes    \* bound: inode numbers, a finite set of integers

Closed == 0        \* File::fd_ < 0: no descriptor
Hole == "hole"     \* what reading a never-written offset returns

ASSUME InodesAssumption == Inodes \subseteq Nat \ {Closed}

EmptyDisk == [names |-> <<>>, data |-> <<>>]

Exists(disk, path) == path \in DOMAIN disk.names

\* open_write: O_CREAT | O_TRUNC.  An existing file keeps its inode and loses
\* its contents, whoever else has it open.
InodeFor(disk, path) ==
  IF Exists(disk, path)
  THEN disk.names[path]
  ELSE CHOOSE i \in Inodes : i \notin DOMAIN disk.data

\* A new file needs an inode the file system still has.
CanOpen(disk, path) ==
  Exists(disk, path) \/ \E i \in Inodes : i \notin DOMAIN disk.data

open_write(disk, path) ==
  LET inode == InodeFor(disk, path)
  IN [names |-> [p \in DOMAIN disk.names \cup {path} |->
                   IF p = path THEN inode ELSE disk.names[p]],
      data |-> [i \in DOMAIN disk.data \cup {inode} |->
                   IF i = inode THEN <<>> ELSE disk.data[i]]]

\* write_at: positional; writing past the end leaves a hole.
Overwrite(old, units, offset) ==
  LET end == offset + Len(units)
      size == IF end > Len(old) THEN end ELSE Len(old)
  IN [i \in 1 .. size |->
        IF i > offset /\ i <= end THEN units[i - offset]
        ELSE IF i <= Len(old) THEN old[i] ELSE Hole]

write_at(disk, inode, units, offset) ==
  [disk EXCEPT !.data[inode] = Overwrite(@, units, offset)]

\* read_at from the start: fewer units than wanted means end of file.
read_at(disk, inode, want) ==
  LET contents == disk.data[inode]
  IN SubSeq(contents, 1, IF want < Len(contents) THEN want ELSE Len(contents))

\* unlink of some names; the inodes live on while a descriptor refers to them.
unlink(disk, paths) ==
  [disk EXCEPT !.names = [p \in DOMAIN disk.names \ paths |-> disk.names[p]]]

\* rename: atomically moves the name, replacing what the target named.
rename(disk, from, to) ==
  [disk EXCEPT !.names =
     [p \in (DOMAIN disk.names \ {from}) \cup {to} |->
        IF p = to THEN disk.names[from] ELSE disk.names[p]]]

\* The kernel frees an inode with neither a name nor a descriptor.
Reclaim(disk, open) ==
  LET used == open \cup {disk.names[p] : p \in DOMAIN disk.names}
  IN [disk EXCEPT !.data = [i \in DOMAIN disk.data \cap used |-> disk.data[i]]]

\* What a reader of the directory sees under a name.
Contents(disk, path) == disk.data[disk.names[path]]
=============================================================================
