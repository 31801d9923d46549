SPECIFICATION Spec
CONSTANTS
  NoHash = NoHash
  Contents = {x, y}
  MaxId = 4
INVARIANT TypeOK
INVARIANT WalkAgrees
INVARIANT FirstEditIsReported
INVARIANT OkMeansPayloads
