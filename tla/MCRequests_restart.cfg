SPECIFICATION Spec
CONSTANTS
  AnySource = AnySource
  AnyTag = AnyTag
  Me = Me
  s1 = s1
  s2 = s2
  s3 = s3
  t1 = t1
  t2 = t2
  q1 = q1
  q2 = q2
  q3 = q3
  o1 = o1
  o2 = o2
  None = None
  Null = Null
  Wild = Wild
  Raised = Raised
  Objs = {o1}
  DumpLen <- DumpLens
  MaxInt <- Int32
  IntBytes = 4
  Lengths <- CoveringLengths
  Senders = {s1}
  Tags = {t1}
  Writes <- AnyWrites
  MaxLetters <- TwoAndOne
  Req = {q1}
  Source <- SameSender
  TagOf <- AnyTags
  Uses <- Restarted
  Order <- Listed
  MaxStarts = 2
  InitialCap = 2
CHECK_DEADLOCK FALSE
INVARIANT DoneIsDone
