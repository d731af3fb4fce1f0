SPECIFICATION Spec
CONSTANTS
    MaxSize = 3
    DataPlane = FALSE
    MaxVersion = 1
    MaxAdds = 4
    Groups = 2
CHECK_DEADLOCK FALSE
INVARIANTS
    BufferSound
PROPERTIES
    ImplementsStore
