SPECIFICATION Spec
CONSTANTS
  Inputs <- MCInputs
  Lambdas <- MCLambdas
  Orders <- MCOrders
  Bos <- MCBos
INVARIANTS InterpolatesTheModels
