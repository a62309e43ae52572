SPECIFICATION Spec
INVARIANTS
    ResearchIsFair
    NewsIsReadRight
    VideoIsSound
CHECK_DEADLOCK FALSE
