SPECIFICATION Spec
CONSTANT Inputs <- ShortLines
INVARIANTS
  TypeOK
  SlicesValid
  TokensExact
PROPERTIES
  Terminates
