---------------------------------- MODULE Hours ----------------------------------
(***************************************************************************)
(* Working hours across timezones: _window_minutes() and hours_overlap() of*)
(* services/portfolio_service.py, by which a recruiter's search keeps the  *)
(* candidates who work when the recruiter does.                            *)
(*                                                                         *)
(* A timezone is its offset from UTC, in minutes; the change of an offset  *)
(* from one day to the next is left out.                                   *)
(***************************************************************************)
EXTENDS Integers

Day == 1440

Minute == 0..1439

\* From Baker Island to Kiritimati.
Offset == -720..840

WorkHours == [start : Minute, end : Minute, offset : Offset]

\* Minutes after the start of day 0 in UTC; hours that end before they begin end on the next day.
From(h, d) == h.start + Day * d - h.offset

To(h, d) == h.end + (IF h.end <= h.start THEN Day ELSE 0) + Day * d - h.offset

\* The two windows have more than an instant in common: min(ends) > max(starts).
Meet(a, d, b, e) ==
    \A u \in {To(a, d), To(b, e)}, v \in {From(a, d), From(b, e)} : u > v

\* hours_overlap(): the day of b, and the days of a around it.
HoursOverlap(a, b) == \E d \in {-1, 0, 1} : Meet(a, d, b, 0)

\* What it is for: some minute of some day belongs to both.
Shared(a, b) ==
    \E d \in Int, t \in Int :
        /\ From(a, d) <= t /\ t < To(a, d)
        /\ From(b, 0) <= t /\ t < To(b, 0)

Length(h) == To(h, 0) - From(h, 0)
=============================================================================
