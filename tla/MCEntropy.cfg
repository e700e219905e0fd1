SPECIFICATION Spec
CONSTANTS
  Threads = {t1, t2, t3}
  Fds <- FourFds
  MaxSize = 2
INVARIANTS
  ReadsAreOpen
  AnswersAreWhole
  DescriptorsBounded
