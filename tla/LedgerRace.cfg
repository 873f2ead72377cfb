SPECIFICATION Spec
CONSTANTS
  r1 = r1
  a = a
  b = b
  Writers = {w1, w2}
  Runs = {r1}
  Payloads = {a, b}
  Calls <- RivalCalls
  NoState = NoState
  NoCall = NoCall
INVARIANT LegalHistory
