------------------------------ MODULE Summary -------------------------------
(***************************************************************************)
(* What lab3a/lab3a.c prints for the parts of an image.  The rows of the   *)
(* free lists are kept as sets, the others as sequences, with the columns  *)
(* lab3b looks at; the rest of the columns is copied and left out.         *)
(***************************************************************************)
EXTENDS Ext2, SequencesExt

At(f, i) == IF i \in DOMAIN f THEN f[i] ELSE 0

\* scanEntries: as many bytes as there are blocks, whatever the bitmap describes.
ScanEntries(bits) == bits \cap (1 .. 8 * NumBlocks)

\* dirSum: the entries of a block that have an inode.
DirSum(img, n, blk) ==
  LET used == SelectSeq(img.entries[blk], LAMBDA e : e.inode # 0)
  IN  [k \in DOMAIN used |-> [parent |-> n, inode_num |-> used[k].inode, name |-> used[k].name]]

\* The indexes of the pointers that are not 0, in order.
Used(img, blk) == SetToSortSeq(DOMAIN img.table[blk], <)

\* dirIndir: level is never 0, so whatever is below blk is read as entries.
DirIndir(img, n, blk) ==
  LET used == Used(img, blk)
  IN  FlattenSeq([k \in DOMAIN used |-> DirSum(img, n, img.table[blk][used[k]])])

\* A faulty dirOff, without the pointer's own index.
DirOffLate(used, k) == SumSet({used[m] : m \in 1 .. k - 1})

\* dirOff is increased by i for every pointer, and never put back.
DirOff(used, k) == SumSet({used[m] : m \in 1 .. k})

\* The rows of one level: scale is 65536, 256 or 1.
IndirRows(img, n, level, scale, dirOff, blk) ==
  LET used == Used(img, blk)
  IN  [k \in DOMAIN used |->
         [inode_num |-> n, level |-> level, offset |-> dirOff + scale * DirOff(used, k),
          indir_block |-> blk, ref_block |-> img.table[blk][used[k]]]]

\* indirSum at the levels 1 to 3: each row, and after it what is below it.
IndirSum1(img, n, dirOff, blk) == IndirRows(img, n, 1, 1, dirOff, blk)

IndirSum2(img, n, dirOff, blk) ==
  LET above == IndirRows(img, n, 2, 256, dirOff, blk)
  IN  FlattenSeq([k \in DOMAIN above |->
                    <<above[k]>> \o IndirSum1(img, n, above[k].offset, above[k].ref_block)])

IndirSum3(img, n, dirOff, blk) ==
  LET above == IndirRows(img, n, 3, 65536, dirOff, blk)
  IN  FlattenSeq([k \in DOMAIN above |->
                    <<above[k]>> \o IndirSum2(img, n, above[k].offset, above[k].ref_block)])

-----------------------------------------------------------------------------
(* inodeSum, for one inode.                                                *)

\* A symbolic link of up to 60 bytes has one column of pointers, a special file none.
Columns(node) ==
  CASE node.type \in {"d", "f"} \/ (node.type = "s" /\ node.size > 60) -> 15
    [] node.type = "s" /\ node.size <= 60 -> 1
    [] OTHER -> 0

InodeRow(img, n) ==
  LET node == img.inode[n]
  IN  [inode_num |-> n, file_type |-> node.type, link_count |-> node.links,
       file_size |-> node.size, blocks |-> [j \in 1 .. Columns(node) |-> At(node.ptr, j - 1)]]

DirentRows(img, n) ==
  LET ptr == img.inode[n].ptr
      Part(j) == CASE j \notin DOMAIN ptr -> <<>>
                   [] j \in DOMAIN ptr /\ j < Direct -> DirSum(img, n, ptr[j])
                   [] OTHER -> DirIndir(img, n, ptr[j])
  IN  IF img.inode[n].type = "d" THEN FlattenSeq([j \in 1 .. 15 |-> Part(j - 1)]) ELSE <<>>

\* Scanned whether there is such a block or not: block 0 stands for none.
IndirectRows(img, n) ==
  LET ptr == img.inode[n].ptr
  IN  IF img.inode[n].type \in {"d", "f"}
        THEN IndirSum1(img, n, 12, At(ptr, 12)) \o IndirSum2(img, n, 268, At(ptr, 13))
               \o IndirSum3(img, n, 65804, At(ptr, 14))
        ELSE <<>>
=============================================================================
