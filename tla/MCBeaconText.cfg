SPECIFICATION TextSpec
CONSTANTS
  CommandLines <- MCCommandLines
  Descriptor <- MCDescriptor
  Label <- MCLabel
  AddressWidth <- MCAddressWidth
  SignatureTexts <- MCSignatureTexts
  NoiseLengths = {100, 511}
  NoiseSubtypes = {"signature"}
  NoiseTexts <- MCNoiseTexts
INVARIANTS
  TypeOK DisplayTypeOK FiveStringsSuffice PasswordAsGiven WalkMatches
  EverythingSeen WordsStayWhole AllInformationSent TableSuffices
PROPERTY TurnEnds
\* Both programs are modelled up to the end of one beacon.
CHECK_DEADLOCK FALSE
