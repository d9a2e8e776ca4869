\* Six inodes and 26 blocks, of which block 8 is the first one for data.
CONSTANTS
  NumBlocks = 26
  NumInodes = 6
  FirstInode = 3
  Images <- SmallImages
SPECIFICATION Spec
INVARIANTS
  SummaryFaithful
  ReportExact
