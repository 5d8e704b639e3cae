\* Every message of every flow; buffers that cut it, strings at and beyond
\* their limits, and one datagram from a peer that knows more messages.
CONSTANTS
  Links <- AllLinks
  PackOf <- Pack
  SizeOf <- Size
  UnpackOf <- Unpack
  Payload <- Filled
  Seeds = {1, 4}
  Lengths <- SomeLengths
  Rooms <- Cuts
  Junk <- FirstBytes
  MaxFrames = 2
SPECIFICATION WireSpec
INVARIANTS
  PrefixIsLength
  ReadBack
  CopyKeepsTag
CHECK_DEADLOCK FALSE
