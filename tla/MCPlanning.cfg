SPECIFICATION Spec
CONSTANTS
    TaskIds = {t1, t2}
    ReminderIds = {m1}
    DayLength = 2
    MaxDay = 2
    Horizons = {1}
    Limits = {1, 2}
    NoDate = NoDate
    NoRow = NoRow
SYMMETRY Symmetry
INVARIANTS TypeOK CalendarsMadeOfDays
PROPERTY DeadlinesSoonestFirst
