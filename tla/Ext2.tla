-------------------------------- MODULE Ext2 --------------------------------
(***************************************************************************)
(* A small ext2 image, as lab3a/ext2_fs.h lays it out, and what is wrong   *)
(* with it.  An image is a record:                                         *)
(*   inode[n]    type ("none", "d", "f", "s" or "?"), links, size, and     *)
(*               ptr, the pointers in i_block that are not 0               *)
(*   table[b]    the pointers that are not 0 in block b, by their index    *)
(*   entries[b]  the entries of block b of a directory, in order           *)
(*   freeB, freeI  the numbers of the bits that are 0 in the two bitmaps   *)
(* The definitions here are the reference: they follow the paths of        *)
(* pointers of the image, not the programs.                                *)
(***************************************************************************)
EXTENDS Naturals, Sequences, FiniteSets

CONSTANTS
  NumBlocks,  \* s_blocks_count
  NumInodes,  \* s_inodes_count
  FirstInode  \* s_first_ino

Root == 2         \* EXT2_ROOT_INO
Direct == 12      \* EXT2_NDIR_BLOCKS
Metadata == 8     \* the blocks before the first one a file can use

ASSUME Ext2Assumption ==
  /\ NumBlocks \in Nat /\ Metadata < NumBlocks
  /\ NumInodes \in Nat /\ FirstInode \in Nat /\ Root < FirstInode /\ FirstInode <= NumInodes

Inodes == 1 .. NumInodes
DataBlocks == Metadata .. NumBlocks - 1

Allocated(img) == {n \in Inodes : img.inode[n].type # "none" /\ img.inode[n].links # 0}
Directories(img) == {n \in Allocated(img) : img.inode[n].type = "d"}

\* A symbolic link of less than 60 bytes is kept in i_block itself.
HasBlocks(node) == node.type \in {"d", "f"} \/ (node.type = "s" /\ node.size >= 60)

-----------------------------------------------------------------------------
(* A reference to a block is a path: an inode, an index into i_block, and  *)
(* the indexes into the pointer blocks below it.                           *)

FromInodes(img) ==
  UNION { {[path |-> <<n, j>>, to |-> img.inode[n].ptr[j]] : j \in DOMAIN img.inode[n].ptr} :
          n \in {m \in Allocated(img) : HasBlocks(img.inode[m])} }

Below(img, refs) ==
  UNION { {[path |-> Append(r.path, i), to |-> img.table[r.to][i]] :
             i \in DOMAIN img.table[r.to]} : r \in refs }

\* How many pointer blocks there are above the data of a reference.
Depth(r) == IF r.path[2] < Direct THEN 0 ELSE r.path[2] - Direct + 1
IsPointerBlock(r) == Len(r.path) < 2 + Depth(r)
PointerBlocks(refs) == {r \in refs : IsPointerBlock(r)}

Indirect(img) ==
  LET one == Below(img, PointerBlocks(FromInodes(img)))
      two == Below(img, PointerBlocks(one))
  IN  one \cup two \cup Below(img, PointerBlocks(two))

References(img) == FromInodes(img) \cup Indirect(img)

\* The number of blocks of the file before the one a reference leads to.
Offset(path) ==
  LET j == path[2]
      first == CASE j <= Direct -> j [] j = Direct + 1 -> 268 [] j = Direct + 2 -> 65804
      Part(k) == IF k <= Len(path) THEN path[k] * 256 ^ (j - 9 - k) ELSE 0
  IN  first + Part(3) + Part(4) + Part(5)

\* The entries in use of all directories.
Entries(img) ==
  UNION { UNION { {[dir |-> r.path[1], path |-> r.path, at |-> k,
                    inode |-> img.entries[r.to][k].inode, name |-> img.entries[r.to][k].name] :
                     k \in {k \in DOMAIN img.entries[r.to] : img.entries[r.to][k].inode # 0}} :
                  r \in {s \in References(img) : s.path[1] = d /\ ~IsPointerBlock(s)} } :
          d \in Directories(img) }

Names(img) == {e \in Entries(img) : e.name \notin {".", ".."}}

\* The directories that have a name for n; the root is its own parent.
Parents(img, n) ==
  {e.dir : e \in {f \in Names(img) : f.inode = n}} \cup (IF n = Root THEN {Root} ELSE {})

-----------------------------------------------------------------------------
(* What is wrong with an image.                                            *)

BlockDefects(img) ==
  LET refs == References(img)
      Marked(kind, S) == {<<kind, r.to, r.path[1]>> : r \in S}
  IN  UNION
      { Marked("INVALID", {r \in refs : r.to >= NumBlocks}),
        Marked("RESERVED", {r \in refs : r.to < Metadata}),
        Marked("DUPLICATE", {r \in refs : r.to \in DataBlocks
                                /\ \E s \in refs : s.to = r.to /\ s.path # r.path}),
        {<<"FREE", r.to>> : r \in {s \in refs : s.to \in img.freeB}},
        {<<"UNREFERENCED", b>> : b \in DataBlocks \ (img.freeB \cup {r.to : r \in refs})} }

InodeDefects(img) ==
  {<<"USED", n>> : n \in Allocated(img) \cap img.freeI}
    \cup {<<"LOST", n>> : n \in (FirstInode .. NumInodes) \ (Allocated(img) \cup img.freeI)}

EntryDefects(img) ==
  LET entries == Entries(img)
      good == {e \in entries : e.inode \in Allocated(img)}
      Marked(kind, S) == {<<kind, e.dir, e.inode>> : e \in S}
  IN  UNION
      { Marked("NO INODE", {e \in entries : e.inode \notin Inodes}),
        Marked("UNALLOCATED", {e \in entries : e.inode \in Inodes \ Allocated(img)}),
        Marked(".", {e \in good : e.name = "." /\ e.inode # e.dir}),
        Marked("..", {e \in good : e.name = ".." /\ Parents(img, e.dir) # {e.inode}}),
        {<<"LINKS", n>> : n \in {m \in Allocated(img) :
            img.inode[m].links # Cardinality({e \in entries : e.inode = m})}} }

Defects(img) == BlockDefects(img) \cup InodeDefects(img) \cup EntryDefects(img)
=============================================================================
