SPECIFICATION FairSpec
CONSTANTS
  p1 = p1
  p2 = p2
  p3 = p3
  p4 = p4
  b1 = b1
  b2 = b2
  x1 = x1
  x2 = x2
  x3 = x3
  x4 = x4
  x5 = x5
  Ids = {p1, p2}
  Listed = {p1, p2}
  Invited = {p1, p2}
  Owners = {p1, p2}
  Blinds = {b1}
  BadPoint = BadPoint
  Secrets = {x1, x2, x3, x4, x5}
  Common = Common
  Null = Null
  Modes <- RegistrationMode
  Faults = {}

PROPERTIES
  RegistrationCompletes
