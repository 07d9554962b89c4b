SPECIFICATION Spec
CONSTANT MaxTyped = 2
INVARIANTS
    TypeOK
    CheckedIsCurrent
    EscIsFinal
    NothingBlankIsSent
