----------------------------- MODULE MCTasteTurn -----------------------------
(* An instance of TasteTurn for TLC: two things to talk about, one of them   *)
(* under a second name, and a generic answer; after any turn an analysis may *)
(* be made.                                                                  *)
EXTENDS AnalysisKeywords

CONSTANTS camping, weekend_camping, coffee, anything, outdoors, alone, weekend, at_leisure, a_long_phrase

MCLength == [v \in Values |-> IF v = coffee THEN 2 ELSE 3]
MCVariantOf == [v \in Values |-> IF v = weekend_camping THEN camping ELSE None]

Silent == [stance |-> None, material |-> None, taste_axis |-> None, interest_category |-> None,
           habitual |-> None, explicit |-> 90, deferral |-> None, specificity |-> None,
           evidence |-> None]
Sure(choice) == [choice |-> choice, confidence |-> 80]
Stance(choice) == [choice |-> choice, confidence |-> 80, probability |-> None]
Says(stance) == [Silent EXCEPT !.stance = Stance(stance)]

\* Kinds of candidates with what the model answers on them.
Remarks ==
    {<<"activity", [Says("like") EXCEPT !.habitual = 90, !.interest_category = Sure(outdoors)]>>,
     <<"thing", [Says("like") EXCEPT !.explicit = 10, !.specificity = 30]>>,
     <<"thing", [Says("like") EXCEPT !.evidence = "context"]>>,
     <<"thing", [Says("like") EXCEPT !.material = Sure("not_material")]>>,
     <<"thing", [Says("like") EXCEPT !.stance.confidence = 55]>>,
     <<"attribute", [Says("like") EXCEPT !.taste_axis = Sure(alone), !.stance.confidence = 55]>>,
     <<"activity", Says("want")>>,
     <<"thing", Says("want")>>,
     <<"thing", [Says("want") EXCEPT !.evidence = "context"]>>,
     <<"thing", [Says("want") EXCEPT !.deferral = Sure("price")]>>,
     <<"thing", Says("owned")>>,
     <<"thing", Says("dislike")>>,
     <<"thing", [Says("dislike") EXCEPT !.evidence = "context"]>>,
     <<"thing", Says("cannot_use")>>,
     <<"thing", Says("used_to_like")>>}

Candidate(v, kind) == [subject |-> v, kind |-> kind, target |-> IF v = camping THEN None ELSE camping]
Certain == [intent |-> 0, retract |-> 0]
Judgment(raw, answer, doubt) ==
    [raw |-> raw, answer |-> answer, spoken |-> {}, earlier |-> {}, doubt |-> doubt]
Everything(a) == [v \in Values |-> a]
Likes == [Says("like") EXCEPT !.interest_category = Sure(outdoors)]

MCJudgments ==
    {Judgment(<<Candidate(v, r[1])>>, Everything(r[2]), Certain) : v \in {camping, coffee}, r \in Remarks}
    \cup {Judgment(<<Candidate(weekend_camping, "thing"), None, Candidate(coffee, "activity"),
                     Candidate(coffee, "thing"), Candidate(anything, "thing")>>,
                   Everything(Likes), Certain),
          Judgment(<<Candidate(coffee, "attribute"), Candidate(camping, "thing")>>,
                   [Everything(Likes) EXCEPT ![coffee].taste_axis = Sure(alone)], Certain)}
    \cup {[Judgment(<<>>, Everything(a), doubt) EXCEPT !.spoken = {camping}] :
             a \in {Likes, Says("dislike")},
             doubt \in {Certain, [intent |-> 70, retract |-> 75], [intent |-> 70, retract |-> 90]}}

Raw(field, type, said) ==
    [field |-> field, value |-> camping, confidence |-> 95, evidence_type |-> type, said |-> said,
     target |-> None, deferral_reason |-> None]

MCExtractions ==
    {[items |-> items, drop |-> drop] :
        items \in {<<Raw("owned", "explicit", "now"), Raw("wants", "explicit", "context")>>,
                   <<Raw("interests", "explicit", "now"), Raw("dislikes", "explicit", "now")>>,
                   <<Raw("hobbies", "confirmed", "now"), Raw("hobbies", "inferred", "now")>>,
                   <<Raw("lifestyle", "explicit", "nowhere"), Raw("unaffordable", "explicit", "now")>>},
        drop \in {<<>>, <<None, [field |-> "hobbies", value |-> camping]>>}}

\* at_leisure is "camping at leisure" without the camping.
MCCutLabel == [p \in Labels \X SUBSET Values |->
             IF camping \notin p[2] THEN p[1]
             ELSE CASE p[1] = camping -> Nothing [] p[1] = weekend_camping -> weekend
                    [] OTHER -> p[1]]

Named(label, sources) == [label |-> label, sources |-> sources]

\* The model names the groups well, badly, for one side only, or not at all.
MCAnswers ==
    LET sides == {<<>>, <<Named(camping, {1})>>, <<Named(at_leisure, {3}), Named(a_long_phrase, {1})>>,
                  <<Named(weekend_camping, {1, 2}), Named(at_leisure, {2}), Named(at_leisure, {1})>>}
    IN  [taste : sides, interest : sides]

===============================================================================
