\* A group one of whose versions becomes unhealthy.
SPECIFICATION Spec
CONSTANTS
  Groups = {metrics}
  Versions = {v1, v2}
  Resources = {pods, nodes}
  Unlisted = {}
  Secrets = {}
  MaxChanges = 2
  MaxFaults = 1
PROPERTIES
  UnhealthyKeepsReads
