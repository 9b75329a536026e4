CONSTANTS
  Years <- MCYears
  MeetingDays <- MCMeetingDays
  Holidays <- MCHolidays
  Wordings <- MCWordings
SPECIFICATION Spec
INVARIANTS
  NotBeforeTheMeeting
  AgreesWithTheCalendar
PROPERTIES
  LaterMeetingLaterDeadline
CHECK_DEADLOCK FALSE
