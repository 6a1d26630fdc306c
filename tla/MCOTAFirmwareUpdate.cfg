CONSTANTS
  none = none
  fits = fits
  large = large
  Image <- MCImage
  Size <- MCSize
  Portion = 2
  Room = 2
  Blank = Blank
  Garbled = Garbled
SPECIFICATION Spec
INVARIANTS StreamWhole SizeTruthful
PROPERTY DownloadEnds
