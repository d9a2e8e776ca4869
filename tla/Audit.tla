------------------------------- MODULE Audit --------------------------------
(***************************************************************************)
(* What lab3b/lab3b.py makes of the rows of a summary: when it fails, and  *)
(* the complaints of its three audits, as sets.  exit_code is assigned in  *)
(* functions that do not declare it global: the exit status is 0 whatever  *)
(* is found, so it is not in the model.                                    *)
(***************************************************************************)
EXTENDS Summary

\* The dictionary of the row has the keys of the blocks.
KeepsBlocks(row) == row.file_type \in {"d", "f"} \/ (row.file_type = "s" /\ row.file_size >= 60)

\* The columns of the pointers are read: an IndexError when they are not there.
LoadFails(rows) ==
  \E k \in DOMAIN rows.inode : KeepsBlocks(rows.inode[k]) /\ Len(rows.inode[k].blocks) < 15

-----------------------------------------------------------------------------
(* block_audit.                                                            *)

\* file_blocks: every reference to a block in range, a block once per reference.
FileBlocks(rows) ==
  LET Good(b) == b \in DataBlocks
  IN  FlattenSeq([k \in DOMAIN rows.inode |->
                    IF KeepsBlocks(rows.inode[k]) THEN SelectSeq(rows.inode[k].blocks, Good)
                    ELSE <<>>])
        \o SelectSeq([k \in DOMAIN rows.indirect |-> rows.indirect[k].ref_block], Good)

\* A faulty test for duplicates: it takes the first one it finds.
TwiceNoDup(fileBlocks, b) == \E k \in DOMAIN fileBlocks : fileBlocks[k] = b

\* Found again with dup set.
Twice(fileBlocks, b) ==
  \E k, m \in DOMAIN fileBlocks : k < m /\ fileBlocks[k] = b /\ fileBlocks[m] = b

BlockHandler(rows, fileBlocks, b, n) ==
  LET wrong == [INVALID |-> b > NumBlocks - 1, RESERVED |-> b > 0 /\ b < Metadata,
                DUPLICATE |-> Twice(fileBlocks, b)]
  IN  {<<kind, b, n>> : kind \in {w \in DOMAIN wrong : wrong[w]}}
        \cup {<<"FREE", f>> : f \in {b} \cap rows.bfree}

\* Not a symbolic link, and without blocks: a KeyError, and the audit ends there.
NoKey(rows) == {k \in DOMAIN rows.inode : rows.inode[k].file_type = "?"}

Handled(rows) ==
  {k \in DOMAIN rows.inode : rows.inode[k].file_type # "s" /\ \A m \in NoKey(rows) : k < m}

InodeComplaints(rows) ==
  UNION { UNION { BlockHandler(rows, FileBlocks(rows), rows.inode[k].blocks[j],
                               rows.inode[k].inode_num) : j \in 1 .. 15 } : k \in Handled(rows) }

IndirectComplaints(rows) ==
  UNION { BlockHandler(rows, FileBlocks(rows), rows.indirect[k].ref_block,
                       rows.indirect[k].inode_num) : k \in DOMAIN rows.indirect }

Unreferenced(rows) ==
  {<<"UNREFERENCED", b>> : b \in DataBlocks \ (rows.bfree \cup ToSet(FileBlocks(rows)))}

-----------------------------------------------------------------------------
(* inode_alloc_audit.                                                      *)

AllocInodes(rows) == {rows.inode[k].inode_num : k \in DOMAIN rows.inode}

\* The range ends before num_inodes.
AllocComplaints(rows) ==
  {<<"USED", n>> : n \in AllocInodes(rows) \cap rows.ifree}
    \cup {<<"LOST", n>> : n \in (FirstInode .. NumInodes - 1) \ (AllocInodes(rows) \cup rows.ifree)}

-----------------------------------------------------------------------------
(* dir_consis_audit.                                                       *)

\* The entries whose inode exists and is allocated.
Counted(rows) == {k \in DOMAIN rows.dirent : rows.dirent[k].inode_num \in AllocInodes(rows)}

\* lc[n]
LinkCount(rows, n) == Cardinality({k \in Counted(rows) : rows.dirent[k].inode_num = n})

\* parents[n] when entry k is looked at: the last directory that named n before it.
ParentAt(rows, k, n) ==
  LET named == {m \in Counted(rows) : m < k /\ rows.dirent[m].inode_num = n
                                        /\ rows.dirent[m].name \notin {".", ".."}}
  IN  IF named # {} THEN rows.dirent[Max(named)].parent ELSE IF n = Root THEN Root ELSE 0

DirentComplaint(rows, k) ==
  LET e == rows.dirent[k]
      kind == CASE e.inode_num \notin Inodes -> "NO INODE"
                [] e.inode_num \in Inodes \ AllocInodes(rows) -> "UNALLOCATED"
                [] k \in Counted(rows) /\ e.name = "." /\ e.parent # e.inode_num -> "."
                [] k \in Counted(rows) /\ e.name = ".."
                     /\ ParentAt(rows, k, e.parent) # e.inode_num -> ".."
                [] OTHER -> "fine"
  IN  <<kind, e.parent, e.inode_num>>

DirComplaints(rows) ==
  {c \in {DirentComplaint(rows, k) : k \in DOMAIN rows.dirent} : c[1] # "fine"}
    \cup {<<"LINKS", row.inode_num>> : row \in
            {r \in ToSet(rows.inode) : r.link_count # LinkCount(rows, r.inode_num)}}
=============================================================================
