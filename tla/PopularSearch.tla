------------------------------- MODULE PopularSearch -------------------------------
(***************************************************************************)
(* The pills under the recruiters' search box: how the topics of the       *)
(* published profiles are ranked, and which of them are shown, after the   *)
(* search was asked what it finds for them                                 *)
(* (services/popular_search_service.py).  Operators only: the cache of the *)
(* pills is left out.                                                      *)
(*                                                                         *)
(* A topic is a skill or a role with a text; texts are numbered in         *)
(* alphabetical order, and Here is the viewer's location.  The search does *)
(* not find the text of a topic where a skill goes by an alias.            *)
(***************************************************************************)
EXTENDS Search
LOCAL INSTANCE SequencesExt

MaxPills == 5
MaxPerKind == 3
SpecificRatio == <<2, 5>>
CandidatePool == 20

TopicKinds == {"skill", "role"}

Topic == [kind : TopicKinds, text : Nat]

\* The bare topic, or with the viewer's location or a work mode added to it.
Variants == {"bare", "local"} \cup JobTypes

Label == [text : Nat, variant : Variants]

Here == 0

\* What a published profile contributes to the ranking, beside what the search sees of it.
ProfileFacts == [topics : SUBSET Topic, mode : JobTypes \cup {Unset}, local : BOOLEAN]

\* The query of a pill.
QueryOf(label) ==
    [AnyProfile EXCEPT
        !.terms = {<<"all", label.text>>} \cup {<<"all", Here>> : v \in {label.variant} \cap {"local"}},
        !.modes = {label.variant} \cap JobTypes]

-----------------------------------------------------------------------------
(* rank_candidates() *)

Having(profiles, topic, variant) ==
    {p \in DOMAIN profiles :
        /\ topic \in profiles[p].topics
        /\ variant = "local" => profiles[p].local
        /\ variant \in JobTypes => profiles[p].mode = variant}

Tally(profiles, topic, variant) == Cardinality(Having(profiles, topic, variant))

\* A variant must keep its share of the topic, and be common enough by itself.
Specific(profiles, topic, variant, least) ==
    LET n == Tally(profiles, topic, variant)
    IN  /\ n >= least
        /\ SpecificRatio[2] * n >= SpecificRatio[1] * Tally(profiles, topic, "bare")

\* The most common of the modes that do; of equals, the first one.
BestMode(profiles, topic, least) ==
    LET order == <<"remote", "onsite", "hybrid">>
        good == {i \in 1..3 : Specific(profiles, topic, order[i], least)}
        n(i) == Tally(profiles, topic, order[i])
    IN  {order[i] : i \in {i \in good : \A j \in good : n(j) < n(i) \/ (n(j) = n(i) /\ i <= j)}}

\* Preferred text first, the bare topic last.  The limit of four words on a label, which only
\* drops variants, is left out.
Labels(profiles, topic, least) ==
    LET locals == {v \in {"local"} : Specific(profiles, topic, v, least)}
        variants == SetToSeq(locals) \o SetToSeq(BestMode(profiles, topic, least)) \o <<"bare">>
    IN  [i \in DOMAIN variants |-> [text |-> topic.text, variant |-> variants[i]]]

Candidates(profiles, least) ==
    {[kind |-> topic.kind,
      score |-> Tally(profiles, topic, "bare") + Tally(profiles, topic, "local"),
      labels |-> Labels(profiles, topic, least)] :
        topic \in {t \in UNION {profiles[p].topics : p \in DOMAIN profiles} :
                      Tally(profiles, t, "bare") >= least}}

\* By score, then alphabetically; a skill and a role of one text and score come in any order.
RankCandidates(profiles, least) ==
    SetToSortSeq(Candidates(profiles, least),
                 LAMBDA c, d : \/ c.score > d.score
                               \/ /\ c.score = d.score
                                  /\ Last(c.labels).text < Last(d.labels).text)

-----------------------------------------------------------------------------
(* PopularSearchService._verify() *)

LabelsOf(pool) == UNION {Range(pool[i].labels) : i \in DOMAIN pool}

OfKind(pool, pills, kind) == Cardinality({i \in DOMAIN pills : pool[pills[i].index].kind = kind})

\* The labels of a candidate that are not on a pill yet and find enough profiles.
Usable(candidate, pills, count, least) ==
    SelectSeq(candidate.labels,
              LAMBDA label : /\ \A i \in DOMAIN pills : pills[i].label # label
                             /\ count[label] >= least)

\* One candidate after the other, as long as there is room; with the cap, no more of a kind.
Pass(pool, limit, capped, count, least, pills) ==
    FoldLeft(LAMBDA chosen, index :
                LET usable == Usable(pool[index], chosen, count, least)
                IN  IF \/ Len(chosen) >= limit
                       \/ \E i \in DOMAIN chosen : chosen[i].index = index
                       \/ capped /\ OfKind(pool, chosen, pool[index].kind) >= MaxPerKind
                       \/ usable = <<>>
                    THEN chosen
                    ELSE Append(chosen, [index |-> index, label |-> Head(usable)]),
             pills, [index \in DOMAIN pool |-> index])

\* First with the cap, then whatever is left.
Verify(pool, limit, count, least) ==
    Pass(pool, limit, FALSE, count, least, Pass(pool, limit, TRUE, count, least, <<>>))

\* popular(): the strongest first.
Popular(profiles, limit, least) ==
    LET ranked == RankCandidates(profiles, least)
        pool == SubSeq(ranked, 1, IF Len(ranked) < CandidatePool THEN Len(ranked) ELSE CandidatePool)
        count == [label \in LabelsOf(pool) |-> CountPublished(profiles, QueryOf(label))]
        pills == Verify(pool, limit, count, least)
    IN  SortSeq([i \in DOMAIN pills |-> [label |-> pills[i].label, count |-> count[pills[i].label]]],
                LAMBDA x, y : \/ x.count > y.count
                              \/ x.count = y.count /\ x.label.text < y.label.text)

-----------------------------------------------------------------------------
(* Checked for small pools and profiles *)

\* The row: what _verify() promises of the pills it chooses of a pool.  No label is shown
\* twice, each finds enough profiles, the row is full unless no candidate is left that could
\* fill it, and there are more than three of one kind only if there is no more of the other.
RowOf(pool, limit, count, least) ==
    LET pills == Verify(pool, limit, count, least)
        left == {i \in DOMAIN pool : /\ \A j \in DOMAIN pills : pills[j].index # i
                                     /\ Usable(pool[i], pills, count, least) # <<>>}
    IN  /\ Len(pills) <= limit
        /\ \A i, j \in DOMAIN pills : pills[i].label = pills[j].label => i = j
        /\ \A i \in DOMAIN pills : count[pills[i].label] >= least
        /\ Len(pills) < limit => left = {}
        /\ \A k \in TopicKinds : OfKind(pool, pills, k) > MaxPerKind =>
              \A i \in left : pool[i].kind = k

\* Six candidates of either kind with a variant each, some of which find nothing, and the
\* texts of two of them may be the same.
SmallPools ==
    {[i \in 1..6 |-> [kind |-> kinds[i], score |-> 7 - i,
                      labels |-> <<[text |-> IF i = 6 THEN last ELSE i, variant |-> "remote"],
                                   [text |-> IF i = 6 THEN last ELSE i, variant |-> "bare"]>>]] :
        kinds \in [1..6 -> TopicKinds], last \in {1, 6}}

\* The row is as varied, and as full, as the comments of the service say (_verify,
\* MAX_PER_KIND), whatever the candidates find.
ASSUME RowIsVariedAndFull ==
    \A pool \in SmallPools, limit \in {4, MaxPills}, good \in SUBSET (1..6),
       weak \in {{}, {2}, {1, 6}} :
        RowOf(pool, limit,
              [label \in LabelsOf(pool) |->
                  IF label.text \in good /\ (label.variant = "remote" => label.text \notin weak)
                  THEN 3 ELSE 0],
              3)

\* Three profiles with a skill and a role, of which some are found only under another spelling.
SmallProfiles ==
    [1..3 -> {[topics |-> {[kind |-> "skill", text |-> 1], [kind |-> "role", text |-> 2]},
               found |-> [all |-> found \cup {Here : h \in {local} \cap {TRUE}}],
               mode |-> mode, local |-> local] :
                  found \in {{2}, {1, 2}}, mode \in {"remote", "onsite"}, local \in BOOLEAN}]

\* A pill is only narrower than its topic where the narrower search keeps the topic's share of
\* what the topic's own search finds, and a topic whose own search finds enough is always
\* there (rank_candidates, SPECIFIC_RATIO, normalize_skill).
ASSUME NarrowPillsKeepTheirShare ==
    \A profiles \in SmallProfiles, least \in 1..3 :
        LET pills == Popular(profiles, MaxPills, least)
        IN  /\ \A i \in DOMAIN pills :
                  LET bare == [text |-> pills[i].label.text, variant |-> "bare"]
                  IN  /\ pills[i].count >= least
                      /\ pills[i].label # bare =>
                            \E t \in [kind : TopicKinds, text : {pills[i].label.text}] :
                                Specific(profiles, t, pills[i].label.variant, least)
            /\ \A t \in 1..2 : CountPublished(profiles, QueryOf([text |-> t, variant |-> "bare"])) >= least =>
                  \E i \in DOMAIN pills : pills[i].label.text = t
=============================================================================
