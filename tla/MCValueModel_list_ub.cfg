\* List operations applied to every list of up to three elements.
CONSTANTS
  Elems <- MCElems
  MaxLen <- MCMaxLen
  Indexes <- MCIndexes
  Keys <- MCKeys
SPECIFICATION Spec
INVARIANT NoUndefinedBehaviour
