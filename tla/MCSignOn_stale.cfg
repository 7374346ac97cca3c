\* One level change is enough for an answer to be overtaken.
CONSTANT MaxLevel = 2
SPECIFICATION Spec
INVARIANT NeedsPrespawnSpawn
