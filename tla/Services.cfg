SPECIFICATION MCSpec
INVARIANTS ScreenShowsLine ClockRight DateRight LookupRight 
CHECK_DEADLOCK FALSE
