------------------------------- MODULE Hours_proofs -------------------------------
(* What hours_overlap() answers, for all working hours and all timezones. *)
EXTENDS Hours, TLAPS

\* A window begins within its day, is no longer than one, and comes back every day.
LEMMA Bounds ==
    \A h \in WorkHours :
        /\ h.offset \in Int /\ From(h, 0) \in Int /\ To(h, 0) \in Int /\ Length(h) \in Int
        /\ 0 < Length(h) /\ Length(h) <= 1440
        /\ 0 <= From(h, 0) + h.offset /\ From(h, 0) + h.offset <= 1439
        /\ To(h, 0) = From(h, 0) + Length(h)
        /\ \A d \in Int : From(h, d) = From(h, 0) + 1440 * d /\ To(h, d) = To(h, 0) + 1440 * d
<1> SUFFICES ASSUME NEW h \in WorkHours
             PROVE  /\ h.offset \in Int /\ From(h, 0) \in Int /\ To(h, 0) \in Int
                    /\ Length(h) \in Int
                    /\ 0 < Length(h) /\ Length(h) <= 1440
                    /\ 0 <= From(h, 0) + h.offset /\ From(h, 0) + h.offset <= 1439
                    /\ To(h, 0) = From(h, 0) + Length(h)
                    /\ \A d \in Int : /\ From(h, d) = From(h, 0) + 1440 * d
                                      /\ To(h, d) = To(h, 0) + 1440 * d
    OBVIOUS
<1>1. /\ h.start \in Int /\ 0 <= h.start /\ h.start <= 1439
      /\ h.end \in Int /\ 0 <= h.end /\ h.end <= 1439
      /\ h.offset \in Int
    <2>1. h.start \in Minute /\ h.end \in Minute /\ h.offset \in Offset
        BY DEF WorkHours
    <2>2. \A m \in Minute : m \in Int /\ 0 <= m /\ m <= 1439
        BY DEF Minute
    <2>3. \A m \in Offset : m \in Int
        BY DEF Offset
    <2> QED
        BY <2>1, <2>2, <2>3
<1>2. \A d \in Int : From(h, d) = h.start + 1440 * d - h.offset
    BY <1>1 DEF From, Day
<1>3. \A d \in Int : To(h, d) = h.end + (IF h.end <= h.start THEN 1440 ELSE 0) + 1440 * d - h.offset
    BY <1>1 DEF To, Day
<1>4. Length(h) = To(h, 0) - From(h, 0)
    BY DEF Length
<1>5. From(h, 0) = h.start - h.offset
    BY <1>1, <1>2
<1>6. To(h, 0) = h.end + (IF h.end <= h.start THEN 1440 ELSE 0) - h.offset
    BY <1>1, <1>3
<1>7. From(h, 0) \in Int /\ To(h, 0) \in Int /\ Length(h) \in Int
    BY <1>1, <1>4, <1>5, <1>6
<1>8. 0 < Length(h) /\ Length(h) <= 1440 /\ To(h, 0) = From(h, 0) + Length(h)
    BY <1>1, <1>4, <1>5, <1>6
<1>9. 0 <= From(h, 0) + h.offset /\ From(h, 0) + h.offset <= 1439
    BY <1>1, <1>5
<1>10. \A d \in Int : From(h, d) = From(h, 0) + 1440 * d /\ To(h, d) = To(h, 0) + 1440 * d
    BY <1>1, <1>2, <1>3, <1>5, <1>6
<1> QED
    BY <1>1, <1>7, <1>8, <1>9, <1>10

LEMMA EveryDay ==
    ASSUME NEW h \in WorkHours, NEW d \in Int
    PROVE  From(h, d) = From(h, 0) + 1440 * d /\ To(h, d) = To(h, 0) + 1440 * d
BY Bounds

LEMMA AWindow ==
    ASSUME NEW h \in WorkHours, NEW d \in Int
    PROVE  From(h, d) \in Int /\ To(h, d) \in Int /\ From(h, d) < To(h, d)
<1>1. /\ From(h, 0) \in Int /\ Length(h) \in Int /\ 0 < Length(h)
      /\ To(h, 0) = From(h, 0) + Length(h)
    BY Bounds
<1> QED
    BY <1>1, EveryDay

\* Two windows meet when each begins before the other ends.
LEMMA MeetsWhenBothBegin ==
    ASSUME NEW a \in WorkHours, NEW b \in WorkHours, NEW d \in Int
    PROVE  Meet(a, d, b, 0) <=> From(a, d) < To(b, 0) /\ From(b, 0) < To(a, d)
<1>1. /\ From(a, d) \in Int /\ To(a, d) \in Int /\ From(b, 0) \in Int /\ To(b, 0) \in Int
      /\ From(a, d) < To(a, d) /\ From(b, 0) < To(b, 0)
    BY AWindow
<1> QED
    BY <1>1 DEF Meet

\* hours_overlap() is right when it says yes: there is a minute both work.
THEOREM OverlapIsShared ==
    ASSUME NEW a \in WorkHours, NEW b \in WorkHours, HoursOverlap(a, b)
    PROVE  Shared(a, b)
<1>1. PICK d \in {-1, 0, 1} : Meet(a, d, b, 0)
    BY DEF HoursOverlap
<1>2. From(a, d) < To(b, 0) /\ From(b, 0) < To(a, d)
    BY <1>1, MeetsWhenBothBegin
<1>3. /\ From(a, d) \in Int /\ To(a, d) \in Int /\ From(b, 0) \in Int /\ To(b, 0) \in Int
      /\ From(a, d) < To(a, d) /\ From(b, 0) < To(b, 0)
    BY AWindow
<1> DEFINE t == IF From(a, d) <= From(b, 0) THEN From(b, 0) ELSE From(a, d)
<1>4. t \in Int /\ From(a, d) <= t /\ t < To(a, d) /\ From(b, 0) <= t /\ t < To(b, 0)
    BY <1>2, <1>3
<1> QED
    BY <1>4 DEF Shared

\* It does not matter which of the two is the candidate.
THEOREM OverlapIsSymmetric ==
    ASSUME NEW a \in WorkHours, NEW b \in WorkHours
    PROVE  HoursOverlap(a, b) <=> HoursOverlap(b, a)
<1>1. ASSUME NEW x \in WorkHours, NEW y \in WorkHours, HoursOverlap(x, y)
      PROVE  HoursOverlap(y, x)
    <2>1. PICK d \in {-1, 0, 1} : Meet(x, d, y, 0)
        BY <1>1 DEF HoursOverlap
    <2>2. -d \in {-1, 0, 1} /\ -d \in Int /\ d \in Int
        OBVIOUS
    <2>3. From(x, d) < To(y, 0) /\ From(y, 0) < To(x, d)
        BY <2>1, MeetsWhenBothBegin
    <2>4. /\ From(x, d) = From(x, 0) + 1440 * d /\ To(x, d) = To(x, 0) + 1440 * d
        BY <2>2, EveryDay
    <2>5. /\ From(y, -d) = From(y, 0) + 1440 * (-d) /\ To(y, -d) = To(y, 0) + 1440 * (-d)
        BY <2>2, EveryDay
    <2>6. /\ From(x, 0) \in Int /\ To(x, 0) \in Int /\ From(y, 0) \in Int /\ To(y, 0) \in Int
        BY AWindow
    <2>7. From(y, -d) < To(x, 0) /\ From(x, 0) < To(y, -d)
        BY <2>2, <2>3, <2>4, <2>5, <2>6
    <2> QED
        BY <2>2, <2>7, MeetsWhenBothBegin DEF HoursOverlap
<1> QED
    BY <1>1

\* It misses nobody as long as neither works longer than L minutes at a stretch and the
\* timezones are no more than 1441 - L minutes apart: with eight-hour days that is 961
\* minutes, of the 1560 between the world's most distant timezones.
THEOREM NearHoursAreFound ==
    ASSUME NEW a \in WorkHours, NEW b \in WorkHours, NEW L \in Int,
           Length(a) <= L, Length(b) <= L,
           a.offset - b.offset <= 1441 - L, b.offset - a.offset <= 1441 - L,
           Shared(a, b)
    PROVE  HoursOverlap(a, b)
<1>1. PICK d \in Int, t \in Int : /\ From(a, d) <= t /\ t < To(a, d)
                                  /\ From(b, 0) <= t /\ t < To(b, 0)
    BY DEF Shared
<1> DEFINE f == From(a, 0)
           g == From(b, 0)
<1>2. /\ f \in Int /\ Length(a) \in Int /\ a.offset \in Int /\ To(a, 0) = f + Length(a)
      /\ 0 <= f + a.offset /\ f + a.offset <= 1439
    BY Bounds
<1>3. /\ g \in Int /\ Length(b) \in Int /\ b.offset \in Int /\ To(b, 0) = g + Length(b)
      /\ 0 <= g + b.offset /\ g + b.offset <= 1439
    BY Bounds
<1>4. From(a, d) = f + 1440 * d /\ To(a, d) = To(a, 0) + 1440 * d
    BY EveryDay
<1>5. f + 1440 * d < g + L /\ g < f + L + 1440 * d
    BY <1>1, <1>2, <1>3, <1>4
<1>6. f - g <= 2880 - L /\ g - f <= 2880 - L
    BY <1>2, <1>3
<1>7. d \in {-1, 0, 1}
    BY <1>2, <1>3, <1>5, <1>6
<1>8. /\ From(a, d) \in Int /\ To(a, d) \in Int /\ From(b, 0) \in Int /\ To(b, 0) \in Int
    BY AWindow
<1>9. From(a, d) < To(b, 0) /\ From(b, 0) < To(a, d)
    BY <1>1, <1>8
<1> QED
    BY <1>7, <1>9, MeetsWhenBothBegin DEF HoursOverlap

\* But "across adjacent days so overnight windows in far timezones still meet" does not hold:
\* from four to noon in Auckland is the last hour of a night shift in Honolulu, two days on.
THEOREM FarHoursAreMissed ==
    \E a, b \in WorkHours : Shared(a, b) /\ ~HoursOverlap(a, b)
<1> DEFINE auckland == [start |-> 240, end |-> 720, offset |-> 780]
           honolulu == [start |-> 1320, end |-> 360, offset |-> -600]
<1>1. auckland \in WorkHours /\ honolulu \in WorkHours
    BY DEF WorkHours, Minute, Offset
<1>2. /\ \A d \in Int : From(auckland, d) = 1440 * d - 540 /\ To(auckland, d) = 1440 * d - 60
      /\ From(honolulu, 0) = 1920 /\ To(honolulu, 0) = 2400
    BY DEF From, To, Day
<1>3. Shared(auckland, honolulu)
    <2>1. /\ From(auckland, 2) <= 2350 /\ 2350 < To(auckland, 2)
          /\ From(honolulu, 0) <= 2350 /\ 2350 < To(honolulu, 0)
        BY <1>2
    <2> QED
        BY <2>1 DEF Shared
<1>4. ~HoursOverlap(auckland, honolulu)
    <2>1. SUFFICES ASSUME NEW d \in {-1, 0, 1}, Meet(auckland, d, honolulu, 0)
                   PROVE  FALSE
        BY DEF HoursOverlap
    <2>2. From(honolulu, 0) < To(auckland, d)
        BY <1>1, <2>1, MeetsWhenBothBegin
    <2> QED
        BY <1>2, <2>2
<1> QED
    BY <1>1, <1>3, <1>4
=============================================================================
