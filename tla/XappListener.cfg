SPECIFICATION ListenerFairSpec
CONSTANTS
  x1 = x1
  x2 = x2
  NoXapp = NoXapp
  Xapps = {x1, x2}
  Values = {TRUE, FALSE}
  MinCap = 2
  KeySpace = 16
  MaxKeyId = 4
  MaxBox = 2
  MaxSilence = 2
INVARIANTS ListenerInvariant
PROPERTIES OnlySilentRemoved CrashedRemoved
