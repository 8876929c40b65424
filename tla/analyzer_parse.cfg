\* Four files on three cores, so that every worker can claim again and run out, and
\* on one; three files streamed to two scanner threads.
CONSTANTS
  Count = 4
  Cores = 3
  Scanned = 3
  Visitors = {v1, v2}
  MaxChunks = 2
SPECIFICATION MCFairSpec
INVARIANTS
  EachFileOnce
  AnswerIsDeterministic
  BuildIsDeterministic
PROPERTY Returns
\* A parse that has answered is over.
CHECK_DEADLOCK FALSE
