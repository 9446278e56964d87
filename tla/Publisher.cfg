SPECIFICATION Spec
CONSTANTS
  c1 = c1  c2 = c2  c3 = c3  c4 = c4
  k1 = k1  k2 = k2
  Calls = {c1, c2, c3, c4}
  Keys = {k1, k2}
  KeyOf <- SharedKey
  NoCall = NoCall
INVARIANT RightAnswer
PROPERTY EverySendSettles
CHECK_DEADLOCK FALSE
