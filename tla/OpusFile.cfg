SPECIFICATION Spec
CONSTANTS
  Full = 2
  MaxVals = 4
  MinDone = 1
  MaxGp = 20
  Recipes <- Files
  Bases = {0, 15}
  Dur = 2
  PreSkip = 1
  Preroll = 3
  Near = 4
  Second = 4
  CurThresh = 6
  Chunk = 1
  ChunkMax = 2
  ReadBytes = 4
  Rooms = {1, 2}
  Raws = {0, 11}
  MaxSteps = 12
INVARIANTS TypeOK ReadsWhatItTells SeekLands DecoderIsWarm SearchEnds
