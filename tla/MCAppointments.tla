---------------------------- MODULE MCAppointments ----------------------------
EXTENDS Appointments

\* No booking, one that names its calendar, one that does not; which calendar
\* and which hour it is at does not matter.
OneOfEachKind ==
  LET c == CHOOSE c \in Calendars : TRUE
      t == CHOOSE t \in Times : TRUE
  IN  {record \in Standing :
         record.event # None => /\ record.sp = c /\ record.when = t
                                /\ record.cal = None <=> record.slot = None}
============================================================================
