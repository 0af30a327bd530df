\* Each signature and each declared encoding, every chunking.
SPECIFICATION Spec
CONSTANTS
  Sources <- SmallSources
  Declarable = {"utf8", "latin1", "cp1252", "stateful"}
  EbcdicGate = 6
  MaxChunk = 11
  NoMark = NoMark
INVARIANTS
  DecodedExactly
  VerdictIsExact
  WaitsOnlyForTheEnd
PROPERTY ReadTextStays
