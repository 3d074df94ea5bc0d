\* One text with a length from 400 to 500 characters.
SPECIFICATION TextSpec
CONSTANTS
  CommandLines <- MCOneText
  Descriptor <- MCDescriptor
  Label <- MCLabel
  AddressWidth <- MCAddressWidth
  SignatureTexts <- MCSignatureTexts
  NoiseLengths = {100, 511}
  NoiseSubtypes = {"signature"}
  NoiseTexts <- MCNoiseTexts
INVARIANT TextIncludedOrSkipped
\* Both programs are modelled up to the end of one beacon.
CHECK_DEADLOCK FALSE
