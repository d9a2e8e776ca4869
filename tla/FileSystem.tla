----------------------------- MODULE FileSystem -----------------------------
(***************************************************************************)
(* lab3a run on an image and lab3b on what it prints, as a user of both    *)
(* runs them to learn what is wrong with a file system.                    *)
(***************************************************************************)
EXTENDS Audit

CONSTANT Images  \* the images lab3a may be given

VARIABLES
  img,
  pc,     \* what is done next, or how lab3b ended: "done" or "crashed"
  i,      \* the inode that lab3a has come to
  rows,   \* what lab3a has printed
  report  \* what lab3b has complained of

vars == <<img, pc, i, rows, report>>

Init ==
  /\ img \in Images /\ pc = "group" /\ i = 1 /\ report = {}
  /\ rows = [bfree |-> {}, ifree |-> {}, inode |-> <<>>, dirent |-> <<>>, indirect |-> <<>>]

-----------------------------------------------------------------------------
(* lab3a.                                                                  *)

GroupSum ==
  /\ pc = "group" /\ pc' = "inode"
  /\ rows' = [rows EXCEPT !.bfree = ScanEntries(img.freeB), !.ifree = ScanEntries(img.freeI)]
  /\ UNCHANGED <<img, i, report>>

InodeSum ==
  /\ pc = "inode" /\ i <= NumInodes /\ i' = i + 1
  /\ rows' = IF img.inode[i].type = "none" \/ img.inode[i].links = 0 THEN rows
             ELSE [rows EXCEPT !.inode = Append(@, InodeRow(img, i)),
                               !.dirent = @ \o DirentRows(img, i),
                               !.indirect = @ \o IndirectRows(img, i)]
  /\ UNCHANGED <<img, pc, report>>

SummaryEnds ==
  /\ pc = "inode" /\ i > NumInodes /\ pc' = "load"
  /\ UNCHANGED <<img, i, rows, report>>

-----------------------------------------------------------------------------
(* lab3b.                                                                  *)

Load ==
  /\ pc = "load" /\ pc' = IF LoadFails(rows) THEN "crashed" ELSE "blocks"
  /\ UNCHANGED <<img, i, rows, report>>

BlockAudit ==
  /\ pc = "blocks"
  /\ IF NoKey(rows) # {}
       THEN report' = InodeComplaints(rows) /\ pc' = "crashed"
       ELSE /\ report' = InodeComplaints(rows) \cup IndirectComplaints(rows) \cup Unreferenced(rows)
            /\ pc' = "alloc"
  /\ UNCHANGED <<img, i, rows>>

InodeAllocAudit ==
  /\ pc = "alloc" /\ pc' = "dirs" /\ report' = report \cup AllocComplaints(rows)
  /\ UNCHANGED <<img, i, rows>>

DirConsisAudit ==
  /\ pc = "dirs" /\ pc' = "done" /\ report' = report \cup DirComplaints(rows)
  /\ UNCHANGED <<img, i, rows>>

Ended == pc \in {"done", "crashed"} /\ UNCHANGED vars

Next ==
  \/ GroupSum \/ InodeSum \/ SummaryEnds
  \/ Load \/ BlockAudit \/ InodeAllocAudit \/ DirConsisAudit
  \/ Ended

Spec == Init /\ [][Next]_vars

-----------------------------------------------------------------------------
(* What the programs promise.                                              *)

Lexicographic(p, q) ==
  \E k \in 0 .. Len(p) : /\ \A m \in 1 .. k : m <= Len(q) /\ p[m] = q[m]
                         /\ Len(q) > k /\ (k < Len(p) => p[k + 1] < q[k + 1])

\* No pointer block on the path has an earlier pointer, but for the one at index 0.
Straight(r, refs) ==
  \A s \in refs : \A m \in 3 .. Len(r.path) :
    (/\ Len(s.path) = m /\ SubSeq(s.path, 1, m - 1) = SubSeq(r.path, 1, m - 1)
     /\ s.path[m] < r.path[m]) => s.path[m] = 0

\* The row that stands for a reference, its offset aside.
Describes(row, r, refs) ==
  /\ row.inode_num = r.path[1] /\ row.ref_block = r.to
  /\ row.level = Depth(r) - (Len(r.path) - 3)
  /\ \E s \in refs : s.path = SubSeq(r.path, 1, Len(r.path) - 1) /\ s.to = row.indir_block

\* The summary follows every path of pointers once, in order: the indirect rows
\* are the references below the i-nodes, each with its level and the block it
\* stands in, and with its offset in the file unless an earlier pointer of a
\* block on the path adds to it (lab3a.c:152-187); the entries are those of
\* every block of every directory (lab3a.c:121-212).
SummaryFaithful ==
  pc = "load" =>
    LET refs == References(img)
        inner == Indirect(img)
    IN  /\ Len(rows.indirect) = Cardinality(inner)
        /\ \A r \in inner :
             LET k == Cardinality({s \in inner : Lexicographic(s.path, r.path)}) + 1
             IN  /\ Describes(rows.indirect[k], r, refs)
                 /\ Straight(r, refs) => rows.indirect[k].offset = Offset(r.path)
        /\ Len(rows.dirent) = Cardinality(Entries(img))
        /\ \A e \in Entries(img) :
             LET k == Cardinality({f \in Entries(img) : \/ Lexicographic(f.path, e.path)
                                                        \/ f.path = e.path /\ f.at < e.at}) + 1
             IN  rows.dirent[k] = [parent |-> e.dir, inode_num |-> e.inode, name |-> e.name]

\* A directory whose parent has the higher number: its '..' is looked at before
\* its name is met (lab3b.py:151), and is complained of though it is right.
LateParents(image) ==
  {<<"..", e.dir, e.inode>> : e \in {f \in Entries(image) :
      f.name = ".." /\ Parents(image, f.dir) = {f.inode} /\ f.inode > f.dir}}

\* The defects lab3b does not look for: what is wrong with the blocks of a symbolic
\* link (lab3b.py:103), a last i-node in neither state (lab3b.py:186), and a second
\* parent, when '..' is right about the last one met before it (lab3b.py:146).
BlindSpots(image) ==
  LET refs == References(image)
      ofLinks == {r \in refs : image.inode[r.path[1]].type = "s"}
  IN  UNION
      { {<<kind, r.to, r.path[1]>> : kind \in {"INVALID", "RESERVED", "DUPLICATE"}, r \in ofLinks},
        {<<"FREE", r.to>> : r \in {s \in ofLinks : \A t \in refs \ ofLinks : t.to # s.to}},
        {<<"LOST", NumInodes>>},
        {<<"..", e.dir, e.inode>> : e \in {f \in Entries(image) : f.name = ".."
            /\ f.inode = Max({0} \cup {p \in Parents(image, f.dir) : p < f.dir \/ p = Root})}} }

\* A special file, or a symbolic link of exactly 60 bytes, whose row lab3a prints
\* with one pointer while lab3b looks for 15.
Unreadable(image) ==
  \E n \in Allocated(image) : \/ image.inode[n].type = "?"
                              \/ image.inode[n].type = "s" /\ image.inode[n].size = 60

\* lab3b comes to its end on every image but those it cannot read (lab3a.c:290,
\* lab3b.py:104, 224), and then its complaints are the defects that the paths of
\* the image show, except for its blind spots and the false alarms about '..'.
ReportExact ==
  /\ pc = "crashed" => Unreadable(img)
  /\ pc = "done" => /\ ~Unreadable(img)
                    /\ report = (Defects(img) \ BlindSpots(img)) \cup LateParents(img)
=============================================================================
