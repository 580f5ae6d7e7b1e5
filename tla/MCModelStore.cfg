SPECIFICATION FairSpec
CONSTANTS
  single = single
  archive = archive
  built = built
  f1 = f1
  f2 = f2
  f3 = f3
  f4 = f4
  Artifacts = {single, archive, built}
  Files = {f1, f2, f3, f4}
  Outputs <- Yields
  Archives = {archive}
  Built = {built}
  v1 = v1
  v2 = v2
  Versions = {v1, v2}
  Current = v1
  Unpinned = Unpinned
  Absent = Absent
  Partial = Partial
  Nothing = Nothing
  MaxChanges = 2
INVARIANTS TypeOK NothingHalfWritten
PROPERTIES DownloadOnlyRepairs PinsDescribeDisk EventuallyVerified
