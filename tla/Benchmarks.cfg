SPECIFICATION Spec
CONSTANT Programs <- MCPrograms
CHECK_DEADLOCK FALSE
INVARIANTS NothingInUseIsDestroyed ListsAreUsedInTurn EventsAreResetIdle HostAccessIsAlone MeasuresItsOwnWork ValidationFindsTheData HandleIsCurrent NothingLeaks KeepsDiscipline
PROPERTY ProgramEnds
