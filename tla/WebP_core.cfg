SPECIFICATION Spec
CONSTANTS
  MaxJobs = 5
  Pieces = {1, 4}
  Pictures <- MCPictures
  Images <- MCImages
  Portions = {0, 1, 5}
  Shots <- MCShots
  Streams <- MCStreams
CHECK_DEADLOCK FALSE
INVARIANTS WebPTypeOK WorkerSound RowsSound DecodersSound EncoderSound StreamSound
PROPERTY CallsReturn
