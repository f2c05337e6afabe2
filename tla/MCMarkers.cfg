SPECIFICATION FairSpec
CONSTANTS
  Inputs <- SomeInputs
  Characters <- SomeCharacters
  Texts <- SomeTexts
  Hellos <- SomeHellos
  Requests <- SomeRequests
  Meanings <- SomeMeanings
  SizeSpace = 65536
  MaxInt = 32767
CHECK_DEADLOCK FALSE
INVARIANTS TypeOK TlsMarkersInside HttpMarkersInside ReadsInside FindsTheName CutsWhereItSays
PROPERTIES Ends
