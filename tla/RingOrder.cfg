SPECIFICATION Spec
CONSTANTS
  Readers = {r1, r2}
  Streams = {s1, s2}
  Owner <- TwoStreams
  bufferEnd_ = 3
  MaxSize = 4
  MaxWritten = 7
  Unwritten = Unwritten
  r1 = r1
  r2 = r2
  s1 = s1
  s2 = s2
INVARIANTS
  TypeOK UnreadIntact
PROPERTIES
  ReadsInOrder FirstReadAtStart
