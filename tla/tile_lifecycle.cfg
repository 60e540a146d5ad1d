SPECIFICATION Spec
CONSTANTS
  whole = whole
  part = part
  NCtrls = 2
  Domains = {whole}
  Selected <- OneSelection
  Starts <- SomeStarts
  Jobs <- SomeJobs
  Careless = FALSE
  MaxJobs = 2
INVARIANTS TypeOK CountsExact MemoryAlive NoStaleRecord
