\* A UTF-8 byte order mark before a declaration that names ISO-8859-1.
SPECIFICATION Spec
CONSTANTS
  Sources <- MarkedSources
  Declarable = {"utf8", "latin1"}
  EbcdicGate = 6
  MaxChunk = 11
  NoMark = NoMark
INVARIANT MarkIsSkipped
