SPECIFICATION Spec
CONSTANTS
  a = a  b = b  c = c  p = p  q = q
  Thread = {a, b, c}
  Process = {p, q}
  ProcessOf <- MCProcessOf
  Creator = p
  Byte = {0, 1}
  RING_BUFFER_SIZE = 2
  ReadVecs <- MCReadVecs
  WriteVecs <- MCWriteVecs
  Waits <- MCWaits
  None = None
INVARIANT StatusAgrees
PROPERTIES RingIsFifo EofIsFinal ReaderSeesClose PollerSeesClose
CHECK_DEADLOCK FALSE
