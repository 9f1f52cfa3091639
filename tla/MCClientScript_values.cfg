SPECIFICATION Spec
CONSTANTS
  MaxSize = 4
  Ints <- IntsDef
  ByteStrings <- ByteStringsDef
  PythonValues <- PythonValuesDef
  CryptolValues <- CryptolValuesDef
  TypedValues <- TypedValuesDef
  Schemas <- SchemasDef
  Checks <- ChecksDef
  Queries <- QueriesDef
INVARIANTS
  VectorsAsBits
  ArithmeticModular
  ValuesArrive
  TypesArrive
  AnswersTold
