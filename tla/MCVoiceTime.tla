----------------------------- MODULE MCVoiceTime -----------------------------
(* Dates around the ends of months and years, sentences with at most one    *)
(* word of each kind, times around the ends of hours, days and months.      *)
EXTENDS VoiceTime

AtMostOne(words) == {{}} \cup {{w} : w \in words}

Date(y, m, d) == [year |-> y, month |-> m, day |-> d]

MCTodays == {Date(2026, 1, 30), Date(2026, 6, 15), Date(2027, 2, 26), Date(2028, 2, 27),
             Date(2026, 12, 27), Date(2029, 12, 30)}

MCSentences ==
    {[words |-> r \cup p, weekday |-> w, week |-> f, hour |-> h] :
        r \in AtMostOne(Relative), w \in {NoDay, 1, 4, 7}, f \in WeekForms,
        p \in AtMostOne(DayParts), h \in {NoHour, 0, 2, 11, 12, 24}}

MCMinutes == {0, 3, 99}

MCCorrections ==
    [year : {2027, 2028}, month : {1, 2, 3, 12}, day : {1, 2, 28, 29, 31},
     hour : {0, 1, 23}, minute : {0, 4, 5, 59}]
=============================================================================
