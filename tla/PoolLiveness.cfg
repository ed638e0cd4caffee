CONSTANTS
  Client = {c1, c2}
  Builder = {b1}
  Arch = {a1}
  NoArch = NoArch
  NoBuilder = NoBuilder
  Reuse = FALSE
  MaxPoolSize = 1
  SignalCap = 1
SPECIFICATION FairSpec
PROPERTIES CallsReturn ScaleUp DestroyedEventually
