CONSTANTS
  Client = {c1, c2}
  Builder = {b1, b2}
  Arch = {a1}
  NoArch = NoArch
  NoBuilder = NoBuilder
  Reuse = FALSE
  MaxPoolSize = 1
  SignalCap = 1
SPECIFICATION Spec
INVARIANT NoVMAfterExit
