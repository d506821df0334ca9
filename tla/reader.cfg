\* One group of two versions, two changes, one fault.
SPECIFICATION FairSpec
CONSTANTS
  Groups = {metrics}
  Versions = {v1, v2}
  Resources = {pods, nodes, secrets}
  Unlisted = {}
  Secrets = {secrets}
  MaxChanges = 2
  MaxFaults = 1
INVARIANTS
  GrantsOnlyReadable
PROPERTIES
  UnreadGroupKept
  NewResourceReadable
  RemovedResourceRevoked
