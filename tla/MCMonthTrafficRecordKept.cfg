CONSTANT MaxCount = 1
SPECIFICATION Spec
INVARIANT RecordKept
