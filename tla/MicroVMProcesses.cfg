CONSTANTS
  Pids = {p1, p2, p3, p4}
  Providers <- Both
  Detach = {TRUE, FALSE}
  Volumes = {TRUE, FALSE}
  MaxTroubles = 2
SPECIFICATION Spec
INVARIANTS
  TypeOK
  OneVMM
  NoVMMForgotten
  
PROPERTIES
  VMMComesUp
  DeletionCompletes
