----------------------------- MODULE Deadlines ------------------------------
(***************************************************************************)
(* The deadline policy: the wording of a deadline and the date of the      *)
(* meeting give a calendar date, or say why there is none.                 *)
(*                                                                         *)
(* A wording is a sequence of mentions in the order they are spoken, each  *)
(* with the character and the word it begins at; which words make which    *)
(* mention is left out, but the numbers are made from the words spoken.    *)
(* A date is a number of days, as in date.toordinal: day 1 is a Monday.    *)
(* In the behaviours the same wording is spoken at the meetings of a       *)
(* series, one a day.                                                      *)
(***************************************************************************)
EXTENDS Integers, FiniteSets, Sequences, SequencesExt

CONSTANTS
  Years,         \* bound: the calendar
  MeetingDays,   \* bound: the days of the meetings
  Holidays,      \* days that are not business days
  Wordings       \* bound: what is said of a deadline

VARIABLES
  meeting,       \* meeting_date
  wording,       \* raw_text
  deadline       \* what normalize_deadline returned

vars == <<meeting, wording, deadline>>

-----------------------------------------------------------------------------
(* The calendar of the standard library. *)

Leap(y) == y % 4 = 0 /\ (y % 100 # 0 \/ y % 400 = 0)

MonthDays(y, m) ==
  CASE m = 2 -> IF Leap(y) THEN 29 ELSE 28
    [] m \in {4, 6, 9, 11} -> 30
    [] OTHER -> 31

BeforeMonth(y, m) == (367 * m - 362) \div 12 - (IF m <= 2 THEN 0 ELSE IF Leap(y) THEN 1 ELSE 2)

Date(y, m, d) ==
  LET past == y - 1
  IN  365 * past + past \div 4 - past \div 100 + past \div 400 + BeforeMonth(y, m) + d

Exists(y, m, d) == d <= MonthDays(y, m)

Days == UNION {Date(y, 1, 1)..Date(y, 12, 31) : y \in Years}

YearOf  == [n \in Days |-> CHOOSE y \in Years : n \in Date(y, 1, 1)..Date(y, 12, 31)]
MonthOf == [n \in Days |-> CHOOSE m \in 1..12 :
                             n - Date(YearOf[n], m, 1) \in 0..(MonthDays(YearOf[n], m) - 1)]
DayOf(n) == n - Date(YearOf[n], MonthOf[n], 1) + 1

Weekday(n) == (n + 6) % 7

\* Mutant: the days that a shorter month lacks are counted on.
AddMonthsCounted(n, k) ==
  LET months == 12 * YearOf[n] + MonthOf[n] - 1 + k
  IN  Date(months \div 12, (months % 12) + 1, DayOf(n))

\* relativedelta(months=k): the last day of a shorter month
AddMonths(n, k) ==
  LET months == 12 * YearOf[n] + MonthOf[n] - 1 + k
      y == months \div 12
      m == (months % 12) + 1
  IN  Date(y, m, IF DayOf(n) <= MonthDays(y, m) THEN DayOf(n) ELSE MonthDays(y, m))

-----------------------------------------------------------------------------
(* Numbers: sequences of words [form, value]. A word is written in digits, *)
(* or is a Russian cardinal, a Russian ordinal or a Kazakh numeral.        *)

NoNumber == [value |-> 0, used |-> 0]
Number(v, n) == [value |-> v, used |-> n]

IsTens(w) == w.form = "ru" /\ w.value \in {20, 30, 40, 50}

parse_ru_cardinal(ws) ==
  CASE ws = <<>> \/ Head(ws).form \in {"ordinal", "kk"} -> NoNumber
    [] Len(ws) > 1 /\ IsTens(Head(ws)) /\ ws[2].form = "ru" /\ ws[2].value < 10 ->
         Number(Head(ws).value + ws[2].value, 2)
    [] OTHER -> Number(Head(ws).value, 1)

parse_ru_day_ordinal(ws) ==
  CASE ws = <<>> -> NoNumber
    [] ws # <<>> /\ Head(ws).form \in {"digits", "ordinal"} -> Number(Head(ws).value, 1)
    [] Len(ws) > 1 /\ IsTens(Head(ws)) /\ ws[2].form = "ordinal" /\ ws[2].value < 10 ->
         Number(Head(ws).value + ws[2].value, 2)
    [] OTHER -> NoNumber

\* tens and units, in this order, each at most once
parse_kk_number(ws) ==
  CASE ws = <<>> -> NoNumber
    [] ws # <<>> /\ Head(ws).form = "digits" -> Number(Head(ws).value, 1)
    [] Len(ws) > 1 /\ Head(ws).form = "kk" /\ Head(ws).value >= 10 /\ ws[2].form = "kk" /\ ws[2].value < 10 ->
         Number(Head(ws).value + ws[2].value, 2)
    [] ws # <<>> /\ Head(ws).form = "kk" -> Number(Head(ws).value, 1)
    [] OTHER -> NoNumber

Or(a, b) == IF a # NoNumber THEN a ELSE b

\* Mutant: the word next to the month decides.
DayBeforeOneWord(ws) ==
  LET last == SubSeq(ws, Len(ws), Len(ws))
  IN  Or(parse_ru_day_ordinal(last), parse_kk_number(last)).value

\* the number before the name of a month: of two words, if they are one number
DayBefore(ws) ==
  LET Parsed(back) == LET part == SubSeq(ws, Len(ws) - back + 1, Len(ws))
                      IN  Or(parse_ru_day_ordinal(part), parse_kk_number(part))
      Fits(back) == back <= Len(ws) /\ Parsed(back).used = back /\ Parsed(back).value \in 1..31
  IN  IF Fits(2) THEN Parsed(2).value ELSE IF Fits(1) THEN Parsed(1).value ELSE 0

-----------------------------------------------------------------------------
(* Candidates: what one mention says of the date. *)

NoDate == 0

Cand(kind, value, pos) ==
  [kind |-> kind, value |-> value, pos |-> pos, start |-> NoDate, inferred |-> FALSE, ambiguous |-> FALSE]

Past(d, m) == d < m

\* _mk_date: without a year, the next such day; year 0 was not said
MkDate(day, month, year, m, pos) ==
  LET y == IF year = 0 THEN YearOf[m] ELSE year
      d == Date(y, month, day)
      next == Date(y + 1, month, day)
      inferred == [Cand("date", d, pos) EXCEPT !.inferred = TRUE]
  IN  CASE ~Exists(y, month, day) -> {}
        [] Exists(y, month, day) /\ year # 0 -> {Cand("date", d, pos)}
        [] Exists(y, month, day) /\ year = 0 /\ ~Past(d, m) ->
             {[inferred EXCEPT !.ambiguous = d - m > 183]}
        [] OTHER -> IF Exists(y + 1, month, day)
                    THEN {[inferred EXCEPT !.value = next, !.ambiguous = next - m > 183]}
                    ELSE {}

Business(d) == Weekday(d) < 5 /\ d \notin Holidays

add_business_days(start, n) ==
  LET walk[k \in 0..n] ==
        IF k = 0 THEN start
        ELSE CHOOSE d \in (walk[k - 1] + 1)..(walk[k - 1] + 9) :
               Business(d) /\ \A c \in (walk[k - 1] + 1)..(d - 1) : ~Business(c)
  IN  walk[n]

Shift(m, n, unit) ==
  CASE unit = "day" -> m + n
    [] unit = "business_day" -> add_business_days(m, n)
    [] unit = "week" -> m + 7 * n
    [] OTHER -> AddMonths(m, n)

\* the mention of a duration: a number of units, one unit, or one and a half
SpanDate(x, m) ==
  CASE x.words = <<>> -> Shift(m, 1, x.unit)
    [] x.words # <<>> /\ Head(x.words).form = "half" -> m + (IF x.unit = "week" THEN 10 ELSE 45)
    [] OTHER -> Shift(m, Or(parse_ru_cardinal(x.words), parse_kk_number(x.words)).value, x.unit)

\* Mutant: the Friday of the calendar week, also on a weekend.
CalendarFriday(d) == d + 4 - Weekday(d)

WeekFriday(d) == d + (IF Weekday(d) <= 4 THEN 4 ELSE 11) - Weekday(d)

NextMonday(m) == m + 7 - Weekday(m)

MonthEnd(m, month) == Date(YearOf[m], month, MonthDays(YearOf[m], month))

PeriodDate(name, m) ==
  CASE name = "end of week" -> WeekFriday(m)
    [] name = "end of next week" -> WeekFriday(NextMonday(m))
    [] name = "next week" -> NextMonday(m) + 4
    [] name = "before next week" -> WeekFriday(m)
    [] name = "end of month" -> MonthEnd(m, MonthOf[m])
    [] name = "end of quarter" -> MonthEnd(m, ((MonthOf[m] - 1) \div 3 + 1) * 3)
    [] name = "end of year" -> MonthEnd(m, 12)
    [] name = "in two days" -> m + 2
    [] name = "tomorrow" -> m + 1
    [] name = "today" -> m

PeriodCand(x, m) ==
  LET c == Cand(IF x.name = "next week" THEN "range" ELSE "relative", PeriodDate(x.name, m), x.char)
  IN  [c EXCEPT !.start = IF x.name = "next week" THEN NextMonday(m) ELSE NoDate,
                !.ambiguous = x.name = "before next week" \/ (x.name = "end of week" /\ Weekday(m) >= 5)]

WeekdayDate(x, m) ==
  LET delta == (x.wd - Weekday(m)) % 7
  IN  IF x.next THEN NextMonday(m) + x.wd
      ELSE m + (IF delta = 0 THEN 7 ELSE delta)

WeekdayCand(x, m) ==
  [Cand("relative", WeekdayDate(x, m), x.char) EXCEPT !.ambiguous = ~x.next /\ x.wd = Weekday(m)]

\* the place of a duration is its word, that of everything else its character
CandOf(x, m) ==
  CASE x.says = "date" -> MkDate(DayBefore(x.words), x.month, x.year, m, x.char)
    [] x.says = "span" -> {Cand("relative", SpanDate(x, m), x.token)}
    [] x.says = "period" -> {PeriodCand(x, m)}
    [] x.says = "weekday" -> {WeekdayCand(x, m)}

-----------------------------------------------------------------------------
(* normalize_deadline. Of several dates the first one counts; that dates in *)
(* figures count before those with a name of a month is left out.          *)

Nothing(kind) ==
  [kind |-> kind, date |-> NoDate, start |-> NoDate, inferred |-> FALSE,
   ambiguous |-> kind = "ambiguous", conflict |-> FALSE, others |-> {}]

\* an end of next week replaces an end of week
Superseded(x, said) ==
  /\ x.says = "period" /\ x.name = "end of week"
  /\ \E y \in said : y.says = "period" /\ y.name = "end of next week"

Dated(primary, cands) ==
  LET apart(c) == c.value - primary.value \notin -1..1
      conflict == \E c \in cands : apart(c)
  IN  [kind |-> primary.kind, date |-> primary.value, start |-> primary.start,
       inferred |-> primary.inferred, ambiguous |-> primary.ambiguous \/ conflict,
       conflict |-> conflict, others |-> {c.value : c \in {x \in cands : apart(x)}}]

normalize_deadline(w, m) ==
  LET said     == {w.said[i] : i \in DOMAIN w.said}
      cands    == UNION {CandOf(x, m) : x \in {y \in said : ~Superseded(y, said)}}
      explicit == {c \in cands : c.kind = "date"}
      first    == CHOOSE c \in (IF explicit # {} THEN explicit ELSE cands) :
                    \A b \in (IF explicit # {} THEN explicit ELSE cands) : c.pos <= b.pos
  IN  CASE w.missing -> Nothing("missing")
        [] ~w.missing /\ w.event /\ explicit = {} -> Nothing("event")
        [] ~w.missing /\ ~w.event /\ cands = {} -> Nothing("ambiguous")
        [] OTHER -> Dated(first, cands)

-----------------------------------------------------------------------------
(* A series of meetings. *)

NoWording == [said |-> <<>>, event |-> FALSE, missing |-> TRUE]

FirstDay == CHOOSE d \in MeetingDays : \A e \in MeetingDays : d <= e

Init ==
  /\ meeting = FirstDay
  /\ wording = NoWording
  /\ deadline = Nothing("missing")

Say ==
  /\ wording = NoWording
  /\ wording' \in Wordings
  /\ deadline' = normalize_deadline(wording', meeting)
  /\ UNCHANGED meeting

NextMeeting ==
  /\ wording # NoWording
  /\ meeting' = meeting + 1 /\ meeting' \in MeetingDays
  /\ deadline' = normalize_deadline(wording, meeting')
  /\ UNCHANGED wording

Next == Say \/ NextMeeting

Spec == Init /\ [][Next]_vars

-----------------------------------------------------------------------------
(* Correctness. *)

Mentions == {wording.said[i] : i \in DOMAIN wording.said}

(* A deadline whose year was not said is never before the meeting that set it (deadlines.py:194,  *)
(* :111 on weekends, :307).                                                                       *)
NotBeforeTheMeeting ==
  (deadline.date # NoDate /\ \A x \in Mentions : x.says = "date" => x.year = 0)
    => deadline.date >= meeting /\ (deadline.start = NoDate \/ deadline.start > meeting)

(* The same words at the next meeting never mean an earlier day, unless one of the two deadlines  *)
(* is marked as contradictory: no step of the calendar (short months, leap days, weekends,        *)
(* holidays, the turn of the year) makes a later promise an earlier one (deadlines.py:133-304).   *)
LaterMeetingLaterDeadline ==
  [][(/\ wording # NoWording /\ deadline.date # NoDate /\ deadline'.date # NoDate
      /\ ~deadline.conflict /\ ~deadline'.conflict) => (deadline.date <= deadline'.date)]_vars

\* the value of the words of a number, whichever way they are parsed
Total(ws) == FoldLeft(LAMBDA sum, word : sum + word.value, 0, ws)

\* the units a span counts: without a number one of them; "one and a half" of them is a case of its own
HalfMore(x) == x.words # <<>> /\ Head(x.words).form = "half"
Units(x) == IF x.words = <<>> THEN 1 ELSE Total(x.words)

Week(n) == (n - 1) \div 7

BusinessBetween(a, b) == Cardinality({d \in (a + 1)..b : Business(d)})

\* n months later: that day of the month, or its last day where the month is too short for it
MonthsLater(d, n) ==
  /\ 12 * YearOf[d] + MonthOf[d] = 12 * YearOf[meeting] + MonthOf[meeting] + n
  /\ DayOf(d) = DayOf(meeting) \/ (DayOf(d) < DayOf(meeting) /\ DayOf(d + 1) = 1)

\* a month, a quarter or a year ends with that day
PeriodEnds(name, d) ==
  /\ DayOf(d + 1) = 1
  /\ name = "end of quarter" => MonthOf[d] \in {3, 6, 9, 12}
  /\ name = "end of year" => MonthOf[d] = 12

\* a week and a half is ten days, a month and a half is 45
SpanMeans(x, d) ==
  CASE HalfMore(x) -> d = meeting + (IF x.unit = "week" THEN 10 ELSE 45)
    [] ~HalfMore(x) /\ x.unit = "business_day" -> Business(d) /\ BusinessBetween(meeting, d) = Units(x)
    [] ~HalfMore(x) /\ x.unit = "day" -> d = meeting + Units(x)
    [] ~HalfMore(x) /\ x.unit = "week" ->
         Weekday(d) = Weekday(meeting) /\ Week(d) = Week(meeting) + Units(x)
    [] ~HalfMore(x) /\ x.unit = "month" -> MonthsLater(d, Units(x))

\* what a mention means, counted on the calendar
Means(x, d) ==
  CASE x.says = "date" ->
         /\ d \in Days /\ MonthOf[d] = x.month /\ DayOf(d) = Total(x.words)
         /\ IF x.year # 0 THEN YearOf[d] = x.year
            ELSE \A c \in meeting..(d - 1) : ~(MonthOf[c] = x.month /\ DayOf(c) = Total(x.words))
    [] x.says = "span" -> SpanMeans(x, d)
    [] x.says = "weekday" ->
         /\ Weekday(d) = x.wd
         /\ IF x.next THEN Week(d) = Week(meeting) + 1
            ELSE d > meeting /\ \A c \in (meeting + 1)..(d - 1) : Weekday(c) # x.wd
    [] x.says = "period" /\ x.name \in {"end of week", "before next week"} ->
         /\ Weekday(d) = 4
         /\ Week(d) = Week(meeting) + (IF Weekday(meeting) < 5 THEN 0 ELSE 1)
    [] x.says = "period" /\ x.name \in {"end of next week", "next week"} ->
         Weekday(d) = 4 /\ Week(d) = Week(meeting) + 1
    [] x.says = "period" /\ x.name \in {"end of month", "end of quarter", "end of year"} ->
         d >= meeting /\ PeriodEnds(x.name, d) /\ \A c \in meeting..(d - 1) : ~PeriodEnds(x.name, c)
    [] x.says = "period" /\ x.name \in {"today", "tomorrow", "in two days"} ->
         d - meeting = (CASE x.name = "today" -> 0 [] x.name = "tomorrow" -> 1 [] OTHER -> 2)

(* A deadline that is not marked as contradictory is within a day of what every mention in the    *)
(* wording means on the calendar, and is exactly what one of them means: numbers of several words,*)
(* named weeks and days, days, weeks and months later (in a shorter month its last day), business *)
(* days between holidays, the next such day of the year                                           *)
(* (deadlines.py:101-322, numbers.py).                                                            *)
AgreesWithTheCalendar ==
  (deadline.date # NoDate /\ ~deadline.conflict) =>
    /\ \E x \in Mentions : Means(x, deadline.date)
    /\ \A x \in Mentions : \E d \in (deadline.date - 1)..(deadline.date + 1) :
         Means(x, d) \/ Superseded(x, Mentions) \/ (x.says = "date" /\ CandOf(x, meeting) = {})
=============================================================================
