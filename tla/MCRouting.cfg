SPECIFICATION Spec
CONSTANTS
  N = 3
  Weight <- MCWeight
  VNodes <- MCVNodes
  KeyHashes <- MCKeyHashes
  Threshold = 2
INVARIANTS
  Rotates
  SharesBalance
  NobodyHeldBack
  KeysStay
