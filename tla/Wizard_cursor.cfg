SPECIFICATION Spec
CONSTANT MaxTyped = 1
PROPERTIES
    CursorKeysMoveShown
