------------------------ MODULE MCMaintenanceWindow ------------------------
EXTENDS MaintenanceWindow

From(h1, m1, h2, m2) == [startHour |-> h1, startMin |-> m1, endHour |-> h2, endMin |-> m2]

\* The default, the example of config/CONFIG.md:124, one minute, all day but
\* the last minute, and a string that cannot be read.
DayWindows ==
    {From(2, 0, 4, 0), From(1, 30, 3, 30), From(12, 5, 12, 5), From(0, 0, 23, 58), Garbage}

\* Ten in the evening to four in the morning.
NightWindows == {From(22, 0, 4, 0)}
=============================================================================
