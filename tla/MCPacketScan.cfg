\* Files of up to four packets; room for three records of either kind, two packets
\* a stream: either ceiling may bind first, with room left for the other.
CONSTANTS
  Streams = {0, 1}
  ParserStreams = {0}
  AudioStreams = {1}
  Files <- MCFiles
  Requests <- MCRequests
  MaxBytes = 150
  MaxPackets = 2
  PacketSize = 48
  AuSize = 48
  NoSideData = NoSideData
  MaxLength = 4
SPECIFICATION ScanSpec
INVARIANTS ScanInv MeasuredMeansWhole
CHECK_DEADLOCK FALSE
