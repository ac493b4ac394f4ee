SPECIFICATION Spec
CONSTANT MaxRows = 2
INVARIANT StreamHasSchema
