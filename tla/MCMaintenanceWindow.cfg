CONSTANTS
    Garbage = Garbage
    Windows <- DayWindows
SPECIFICATION Spec
INVARIANT OpenAsMeant
