\* Two workers, with and without {host} in the path, over fresh and stale files.
SPECIFICATION Spec
CONSTANTS
  Hosts = {h1, h2}
  MaxEntries = 1
  Chunks = 2
INVARIANTS
  OwnArtifact
CHECK_DEADLOCK FALSE
