---------------------------------- MODULE Search ----------------------------------
(***************************************************************************)
(* The recruiters' search among the published pages: search_published()    *)
(* and count_published() of services/portfolio_service.py.  Operators      *)
(* only.  A text is a number; where it occurs in a profile is part of the  *)
(* profile, and so is the age, in days, of its earliest experience.        *)
(***************************************************************************)
EXTENDS Hours, Sequences, FiniteSets
LOCAL INSTANCE SequencesExt

\* No filter, or NULL; of numbers; of working hours, of which a profile or a query has one.
Unset == "unset"
Unknown == -1
None == {}

JobTypes == {"remote", "hybrid", "onsite"}

\* Anywhere; in the public slug; in the location; in the title, the bio or a role.
Places == {"all", "slug", "location", "role"}

Starts == {"immediately", "30"}

Experiences == {"0-2", "3-5", "6+"}

\* A profile as the search sees it.
Searched(texts) ==
    [found : [Places -> SUBSET texts], mode : JobTypes \cup {Unset},
     notice : Nat \cup {Unknown}, age : Nat \cup {Unknown}, hours : SUBSET WorkHours]

\* The words of q are terms found anywhere, or work modes; every filter may be unset.
Query(texts) ==
    [terms : SUBSET (Places \X texts), modes : SUBSET JobTypes, start : Starts \cup {Unset},
     exp : Experiences \cup {Unset}, hours : SUBSET WorkHours]

AnyProfile == [terms |-> {}, modes |-> {}, start |-> Unset, exp |-> Unset, hours |-> None]

-----------------------------------------------------------------------------
\* _text_match()
TextMatch(profile, term) == term[2] \in profile.found[term[1]]

\* _apply_q(): all of them; a word that is a work mode is nothing else.
ApplyQ(profile, query) ==
    /\ \A term \in query.terms : TextMatch(profile, term)
    /\ \A mode \in query.modes : profile.mode = mode

Starting(profile, start) ==
    CASE start = Unset -> TRUE
      [] start = "immediately" -> profile.notice = 0
      [] start = "30" -> profile.notice # Unknown /\ profile.notice <= 30

\* ago(): round(365.25 * years)
Years == [y \in {2, 3, 6} |-> CASE y = 2 -> 730 [] y = 3 -> 1096 [] y = 6 -> 2192]

Experienced(profile, exp) ==
    \/ exp = Unset
    \/ /\ profile.age # Unknown
       /\ CASE exp = "0-2" -> profile.age < Years[2]
            [] exp = "3-5" -> Years[3] <= profile.age /\ profile.age < Years[6]
            [] exp = "6+" -> Years[6] <= profile.age

Working(profile, hours) ==
    hours # None => \E a \in profile.hours, b \in hours : HoursOverlap(a, b)

\* search_published(): `published` is in the order of publishing, the newest first.  The limit
\* is one on what passed the filters, the hours included.
SearchPublished(published, query, limit) ==
    LET hits == SelectSeq(published,
                          LAMBDA profile : /\ ApplyQ(profile, query)
                                           /\ Starting(profile, query.start)
                                           /\ Experienced(profile, query.exp)
                                           /\ Working(profile, query.hours))
    IN  SubSeq(hits, 1, IF Len(hits) < limit THEN Len(hits) ELSE limit)

\* count_published(): of q alone, and without the limit.
CountPublished(published, query) ==
    Cardinality({i \in DOMAIN published : ApplyQ(published[i], query)})

-----------------------------------------------------------------------------
(* Checked for small instances *)

SmallHours == [start : {0, 540}, end : {540}, offset : {360}]

SmallPublished ==
    LET profiles == {[found |-> [place \in Places |-> IF place \in places THEN {1} ELSE {}],
                      mode |-> mode, notice |-> notice, age |-> age, hours |-> hours] :
                        places \in {{}, {"all"}, Places}, mode \in {"remote"},
                        notice \in {Unknown, 30}, age \in {Unknown, 729, 730},
                        hours \in {None, {[start |-> 540, end |-> 1080, offset |-> 360]}}}
    IN  {<<p, q>> : p \in profiles, q \in profiles}

SmallQueries ==
    {[AnyProfile EXCEPT !.terms = terms, !.start = start, !.exp = exp, !.hours = hours] :
        terms \in {{}, {<<"all", 1>>}}, start \in {Unset, "30"}, exp \in {Unset, "0-2"},
        hours \in {None} \cup {{h} : h \in SmallHours}}

\* Nobody is of two bands of experience, but who began two years ago and not three is of none
\* (search_published, the exp filter).
ASSUME BandsAreDisjoint ==
    \A age \in {0, 729, 730, 1095, 1096, 2191, 2192} :
        LET bands == {b \in Experiences : Experienced([age |-> age], b)}
        IN  /\ Cardinality(bands) <= 1
            /\ bands = {} <=> Years[2] <= age /\ age < Years[3]

\* What is counted is what is found, as far as the limit goes, and filters only take away
\* (count_published, search_published).
ASSUME CountIsWhatIsFound ==
    /\ SmallQueries \subseteq Query({1})
    /\ \A pair \in SmallPublished : pair[1] \in Searched({1})
    /\ \A published \in SmallPublished, query \in SmallQueries, limit \in 1..2 :
          LET hits == SearchPublished(published, query, limit)
              all == SearchPublished(published, [AnyProfile EXCEPT !.terms = query.terms], 2)
          IN  /\ Len(all) = CountPublished(published, query)
              /\ Len(hits) <= limit
              /\ \A i \in DOMAIN hits : hits[i] \in {all[j] : j \in DOMAIN all}
=============================================================================
