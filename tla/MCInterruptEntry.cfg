SPECIFICATION Spec
CONSTANTS
  Vectors <- MCVectors
  Tops = {40, 41}
INVARIANTS
  TypeOK
  FrameAsDeclared
  CallAsCompiled
  Resumes
