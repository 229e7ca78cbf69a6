CONSTANTS
  Validators = {1, 2, 3}
  MaxWeight = 2
  Hashes = {h1, h2}
  NoHash = NoHash
  MaxView = 2
SPECIFICATION SortedSpec
INVARIANTS TypeOK TallyExact CommitsAreStrictQuorums ConflictingCommitsOverlap ViewChangesMeetCommits
PROPERTY CommittedIsFinal
