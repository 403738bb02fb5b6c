SPECIFICATION Spec
CONSTANTS
  data0 = data0
  scratch = scratch
  Procs = {p1, p2}
  Volumes = {data0, scratch}
  Temporary = {scratch}
  MakeFs = {data0, scratch}
  AutoOpen <- MCAutoOpen
  Args <- MCConcurrentArgs
  Serial = FALSE
  MaxFormats = 2
INVARIANTS
  TypeOK
  
PROPERTIES
  TemporaryStartsEmpty
