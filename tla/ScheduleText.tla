---------------------------- MODULE ScheduleText ----------------------------
(***************************************************************************)
(* The two translations of schedules: Describe turns a parsed cron schedule  *)
(* into English, and ResolveSchedule turns an English phrase into a cron     *)
(* expression.  A schedule is its expanded fields; a description is the      *)
(* structure of the sentence, values and ranges in place of their spelling.  *)
(* The sizes of the calendar are constants, so that every subset of a small  *)
(* one can be tried.                                                        *)
(***************************************************************************)
EXTENDS Integers, FiniteSets

CONSTANTS
    MinuteSize,   \* minutes of an hour (60)
    HalfDay,      \* hours of half a day (12)
    DomSize,      \* days of a month (31)
    DowSize,      \* days of a week (7)
    MonthSize     \* months of a year (12)

VARIABLES
    asked,    \* the schedule or the phrase given
    answer    \* what came back

textVars == <<asked, answer>>

HourSize == 2 * HalfDay
Minutes == 0..(MinuteSize - 1)
Hours == 0..(HourSize - 1)
Doms == 1..DomSize
Dows == 0..(DowSize - 1)
Months == 1..MonthSize

Some(S) == SUBSET S \ {{}}

\* SpecSchedule: a starred day field makes the days AND, otherwise OR.
DayMatches(s, dom, dow) ==
    IF s.star # {} THEN dom \in s.dom /\ dow \in s.dow ELSE dom \in s.dom \/ dow \in s.dow

(***************************************************************************)
(* Describe.                                                                *)
(***************************************************************************)

LeastOf(S) == CHOOSE n \in S : \A k \in S : n <= k

\* describeValues: runs of three or more as a range, other values one by one.
describeValues(S) ==
    LET runs == {r \in S \X S : /\ r[1] <= r[2] /\ r[1]..r[2] \subseteq S
                                /\ r[1] - 1 \notin S /\ r[2] + 1 \notin S}
        long == {r \in runs : r[2] - r[1] >= 2}
    IN long \cup {<<n, n>> : n \in {k \in S : \A r \in long : k \notin r[1]..r[2]}}

\* Mutant: a step need not divide the field.
regularStepUndivided(S, size) ==
    IF Cardinality(S) < 2 \/ 0 \notin S THEN 0
    ELSE LET step == LeastOf(S \ {0})
         IN IF S = {n \in 0..(size - 1) : n % step = 0} THEN step ELSE 0

\* A step is "every N" only if it starts at zero and divides the whole field.
regularStep(S, size) ==
    IF Cardinality(S) < 2 \/ 0 \notin S THEN 0
    ELSE LET step == LeastOf(S \ {0})
         IN IF size % step = 0 /\ Cardinality(S) = size \div step
               /\ S = {i * step : i \in 0..(Cardinality(S) - 1)}
            THEN step ELSE 0

Clock(form, n, minutes, hours) == [form |-> form, n |-> n, minutes |-> minutes, hours |-> hours]

describeClock(minute, hour) ==
    LET one == Cardinality(minute) = 1
        each == minute = Minutes
        minuteStep == regularStep(minute, MinuteSize)
        hourStep == IF minute = {0} THEN regularStep(hour, HourSize) ELSE 0
    IN IF hour = Hours
       THEN CASE each -> Clock("every minute", 0, {}, {})
              [] ~each /\ minuteStep > 0 -> Clock("every n minutes", minuteStep, {}, {})
              [] one -> Clock("every hour at", LeastOf(minute), {}, {})
              [] OTHER -> Clock("of every hour", 0, describeValues(minute), {})
       ELSE CASE hourStep > 0 -> Clock("every n hours", hourStep, {}, {})
              [] one /\ hourStep = 0 -> Clock("at times", LeastOf(minute), {}, hour)
              [] each -> Clock("during hours", 0, {}, describeValues(hour))
              [] OTHER -> Clock("past hours", 0, describeValues(minute), describeValues(hour))

EveryDay == [dom |-> {}, dow |-> {}, join |-> "none"]

\* Nothing is said of days when every day fires; a field with all its values is left out.
describeDays(s) ==
    LET and == s.star # {}
        Part(S, all) == IF S = all THEN {} ELSE describeValues(S)
    IN IF (~and /\ (s.dom = Doms \/ s.dow = Dows)) \/ (s.dom = Doms /\ s.dow = Dows) THEN EveryDay
       ELSE [dom |-> Part(s.dom, Doms), dow |-> Part(s.dow, Dows), join |-> IF and THEN "and" ELSE "or"]

Describe(s) ==
    [clock |-> IF describeDays(s) = EveryDay /\ Cardinality(s.minute) = 1 /\ Cardinality(s.hour) = 1
               THEN Clock("daily at", LeastOf(s.minute), {}, s.hour)
               ELSE describeClock(s.minute, s.hour),
     days |-> describeDays(s),
     months |-> IF s.month = Months THEN {} ELSE describeValues(s.month)]

(***************************************************************************)
(* ResolveSchedule.                                                         *)
(***************************************************************************)

Unparsed == [minute |-> -1, hour |-> -1]

\* The hour as a 24-hour clock has it; half is "am", "pm" or none.
parseTime(hour, minute, half) ==
    LET h == CASE half = "pm" /\ hour # HalfDay -> hour + HalfDay
               [] half = "am" /\ hour = HalfDay -> 0
               [] OTHER -> hour
    IN IF h \in Hours /\ minute \in Minutes THEN [minute |-> minute, hour |-> h] ELSE Unparsed

Every(minute, hour, dow) ==
    [minute |-> minute, hour |-> hour, dom |-> Doms, dow |-> dow, month |-> Months,
     star |-> IF dow = Dows THEN {"dom", "dow"} ELSE {"dom"}]

\* The fields of the expression a phrase becomes, or the refusal; */n is the multiples of n.
parseNaturalLanguage(p) ==
    LET at == parseTime(p.hour, p.minute, p.half)
        days == CASE p.form = "daily" -> Dows
                  [] p.form = "weekday" -> 1..(DowSize - 2)
                  [] OTHER -> {p.n}
    IN CASE p.form = "n minutes" ->
              IF p.n \in 1..(MinuteSize - 1)
              THEN Every({m \in Minutes : m % p.n = 0}, Hours, Dows) ELSE Unparsed
         [] p.form = "n hours" ->
              IF p.n \in 1..(HourSize - 1)
              THEN Every({0}, {h \in Hours : h % p.n = 0}, Dows) ELSE Unparsed
         [] p.form = "hourly" -> Every({0}, Hours, Dows)
         [] p.form \in {"daily", "weekday", "day"} ->
              IF at = Unparsed THEN Unparsed ELSE Every({at.minute}, {at.hour}, days)

Phrases ==
    [form : {"n minutes", "n hours"}, n : 0..(MinuteSize + HourSize), hour : {0}, minute : {0}, half : {""}]
    \cup [form : {"hourly"}, n : {0}, hour : {0}, minute : {0}, half : {""}]
    \cup [form : {"daily", "weekday", "day"}, n : Dows, hour : 0..(HourSize + 1),
          minute : 0..MinuteSize, half : {"", "am", "pm"}]

(***************************************************************************)
(* One request of either kind.                                              *)
(***************************************************************************)

TextInit == asked = [kind |-> "nothing"] /\ answer = Unparsed

\* A parsed schedule is a non-empty set per field, and which day fields were written as a star.
DescribeSchedule ==
    \E star \in SUBSET {"dom", "dow"}, minute \in Some(Minutes), hour \in Some(Hours),
       month \in Some(Months) :
      \E dom \in IF "dom" \in star THEN {Doms} ELSE Some(Doms),
         dow \in IF "dow" \in star THEN {Dows} ELSE Some(Dows) :
        LET s == [minute |-> minute, hour |-> hour, dom |-> dom, dow |-> dow, month |-> month, star |-> star]
        IN asked' = [kind |-> "schedule", of |-> s] /\ answer' = Describe(s)

ResolveSchedule ==
    \E p \in Phrases : asked' = [kind |-> "phrase", of |-> p] /\ answer' = parseNaturalLanguage(p)

TextNext == asked.kind = "nothing" /\ (DescribeSchedule \/ ResolveSchedule)

(***************************************************************************)
(* What a reader takes the texts to mean.                                   *)
(***************************************************************************)

InParts(n, parts) == \E r \in parts : n \in r[1]..r[2]

\* Whether the clock text names a minute of a day; "every N" counts on from one day to the next.
SaysTime(c, day, hour, minute) ==
    LET hours == day * HourSize + hour
    IN CASE c.form = "every minute" -> TRUE
         [] c.form = "every n minutes" -> (hours * MinuteSize + minute) % c.n = 0
         [] c.form = "every hour at" -> minute = c.n
         [] c.form = "of every hour" -> InParts(minute, c.minutes)
         [] c.form = "every n hours" -> minute = 0 /\ hours % c.n = 0
         [] c.form \in {"at times", "daily at"} -> minute = c.n /\ hour \in c.hours
         [] c.form = "during hours" -> InParts(hour, c.hours)
         [] c.form = "past hours" -> InParts(minute, c.minutes) /\ InParts(hour, c.hours)

SaysDay(d, dom, dow) ==
    CASE d = EveryDay -> TRUE
      [] d # EveryDay /\ d.dom = {} -> InParts(dow, d.dow)
      [] d # EveryDay /\ d.dow = {} -> InParts(dom, d.dom)
      [] d.dom # {} /\ d.dow # {} ->
            IF d.join = "and" THEN InParts(dom, d.dom) /\ InParts(dow, d.dow)
            ELSE InParts(dom, d.dom) \/ InParts(dow, d.dow)

\* The hour a clock time names, on a 12-hour or a 24-hour clock.
NamedHour(p) ==
    CASE p.half = "am" -> p.hour % HalfDay
      [] p.half = "pm" -> (p.hour % HalfDay) + HalfDay
      [] OTHER -> p.hour
IsClockTime(p) ==
    p.minute \in Minutes /\ p.hour \in IF p.half = "" THEN Hours ELSE 1..HalfDay
NamedDays(p) ==
    CASE p.form = "day" -> {p.n}
      [] p.form = "weekday" -> Dows \ {0, DowSize - 1}
      [] OTHER -> Dows

(***************************************************************************)
(* Properties.                                                              *)
(***************************************************************************)

\* The sentence the jobs pages show for a schedule names exactly the instants at which the
\* scheduler fires it: no step is called "every N" that restarts within the hour or the day,
\* and days of the month and of the week are joined as the parser joins them (Describe).
DescriptionIsExact ==
    asked.kind = "schedule" =>
        LET s == asked.of IN
        /\ \A day \in 0..1, h \in Hours, m \in Minutes :
              SaysTime(answer.clock, day, h, m) <=> h \in s.hour /\ m \in s.minute
        /\ \A dom \in Doms, dow \in Dows : SaysDay(answer.days, dom, dow) <=> DayMatches(s, dom, dow)
        /\ \A month \in Months : (answer.months = {} \/ InParts(month, answer.months)) <=> month \in s.month

\* A phrase with a proper time of day resolves to a schedule that fires at that time, on the
\* days it names and at no other; "every N minutes" or "hours" to one that fires every N
\* when N divides the hour or the day; and a phrase that names no time or no interval of the
\* clock is refused (parseNaturalLanguage, parseTime).
ResolvedAsNamed ==
    asked.kind = "phrase" =>
        LET p == asked.of
            Is(minutes, hours, days) ==
                /\ answer # Unparsed
                /\ answer.minute = minutes /\ answer.hour = hours
                /\ \A dom \in Doms, dow \in Dows : DayMatches(answer, dom, dow) <=> dow \in days
        IN CASE p.form = "n minutes" ->
                  /\ p.n \notin 1..(MinuteSize - 1) <=> answer = Unparsed
                  /\ p.n \in 1..(MinuteSize - 1) /\ MinuteSize % p.n = 0 =>
                        Is({m \in Minutes : \A h \in Hours : (h * MinuteSize + m) % p.n = 0}, Hours, Dows)
             [] p.form = "n hours" ->
                  /\ p.n \notin 1..(HourSize - 1) <=> answer = Unparsed
                  /\ p.n \in 1..(HourSize - 1) /\ HourSize % p.n = 0 =>
                        Is({0}, {h \in Hours : \A day \in 0..1 : (day * HourSize + h) % p.n = 0}, Dows)
             [] p.form = "hourly" -> Is({0}, Hours, Dows)
             [] OTHER ->
                  /\ IsClockTime(p) => Is({p.minute}, {NamedHour(p)}, NamedDays(p))
                  /\ p.minute \notin Minutes \/ (p.half = "" /\ p.hour \notin Hours) => answer = Unparsed

\* What is shown and what is taken in agree with what the scheduler fires: descriptions are
\* exact and phrases are resolved as named.
TranslationsAreExact == DescriptionIsExact /\ ResolvedAsNamed
=============================================================================
