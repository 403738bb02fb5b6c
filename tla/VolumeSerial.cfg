SPECIFICATION Spec
CONSTANTS
  data0 = data0
  scratch = scratch
  Procs = {p1}
  Volumes = {data0, scratch}
  Temporary = {scratch}
  MakeFs = {data0, scratch}
  AutoOpen <- MCAutoOpen
  Args <- MCArgs
  Serial = TRUE
  MaxFormats = 3
INVARIANTS
  ReadyIsComplete
PROPERTIES
  
  BootServiceTriesAll
  ImplementsContract
