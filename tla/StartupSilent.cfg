SPECIFICATION Spec
INVARIANTS
  AudioIsOptional
