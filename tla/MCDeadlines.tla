---------------------------- MODULE MCDeadlines -----------------------------
(* Wordings for TLC: each mention alone, and pairs of mentions of different *)
(* kinds, at meetings from December 2023 to March 2025.                     *)
EXTENDS Deadlines, TLC

W(form, value) == [form |-> form, value |-> value]

Said(words, month, year) ==
  [says |-> "date", words |-> words, month |-> month, year |-> year]
Span(words, unit) == [says |-> "span", words |-> words, unit |-> unit]
Period(name) == [says |-> "period", name |-> name]
Day(wd, next) == [says |-> "weekday", wd |-> wd, next |-> next]

Dates ==
  {Said(<<W("digits", 31)>>, 12, 0), Said(<<W("digits", 29)>>, 2, 0), Said(<<W("digits", 1)>>, 3, 0),
   Said(<<W("ru", 20), W("ordinal", 5)>>, 5, 0), Said(<<W("kk", 10), W("kk", 5)>>, 10, 0),
   Said(<<W("ordinal", 15)>>, 1, 2025), Said(<<W("digits", 30)>>, 2, 0)}

Spans ==
  {Span(<<W("ru", 20), W("ru", 1)>>, "day"), Span(<<W("digits", 5)>>, "business_day"),
   Span(<<W("kk", 2)>>, "week"), Span(<<>>, "month"), Span(<<W("ru", 3)>>, "month"),
   Span(<<W("half", 1)>>, "week"), Span(<<W("half", 1)>>, "month"), Span(<<>>, "day")}

Periods ==
  {Period(n) : n \in {"end of week", "end of next week", "next week", "before next week", "end of month",
                      "end of quarter", "end of year", "in two days", "tomorrow", "today"}}

WeekdaysSaid == {Day(wd, next) : wd \in {0, 4, 6}, next \in BOOLEAN}

At(x, char, token) == x @@ [char |-> char, token |-> token]

Wording(said) == [said |-> said, event |-> FALSE, missing |-> FALSE]

Alone == {Wording(<<At(x, 0, 0)>>) : x \in Dates \cup Spans \cup Periods \cup WeekdaysSaid}

\* the second mention begins at word 5; the first at character 3 or, after some introduction, 12
Pairs ==
  {Wording(<<At(x, c, 1), At(y, 30, 5)>>) :
     x \in Dates \cup {Period("end of week"), Day(4, FALSE), Day(0, TRUE)}, c \in {3, 12},
     y \in Spans \cup {Period("end of next week"), Period("tomorrow")}}

Events == {[w EXCEPT !.event = TRUE] : w \in Alone}

MCWordings == Alone \cup Pairs \cup Events
MCYears == 2023..2026
MCMeetingDays == Date(2023, 12, 1)..Date(2025, 3, 31)
MCHolidays == {Date(2024, 1, 1), Date(2024, 1, 2), Date(2024, 3, 8), Date(2024, 3, 21), Date(2024, 3, 22)}
=============================================================================
