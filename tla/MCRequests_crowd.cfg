SPECIFICATION PollSpec
CONSTANTS
  AnySource = AnySource
  AnyTag = AnyTag
  Me = Me
  s1 = s1
  s2 = s2
  s3 = s3
  t1 = t1
  t2 = t2
  q1 = q1
  q2 = q2
  q3 = q3
  o1 = o1
  o2 = o2
  None = None
  Null = Null
  Wild = Wild
  Raised = Raised
  Objs = {o1}
  DumpLen <- DumpLens
  MaxInt <- Int32
  IntBytes = 4
  Lengths <- CoveringLengths
  Senders = {s1, s2, s3}
  Tags = {t1}
  Writes <- AnyWrites
  MaxLetters <- TwoLetters
  Req = {q1, q2, q3}
  Source <- SenderEach
  TagOf <- AnyTags
  Uses <- Arrays
  Order <- Listed
  MaxStarts = 3
  InitialCap = 2
CHECK_DEADLOCK FALSE
INVARIANT IInv
INVARIANT NoStrayReceive
INVARIANT OneDataReceive
PROPERTY WaitEnds
PROPERTY TestSucceeds
