---------------------------- MODULE MCRecommendation ----------------------------
(* An instance of RecommendationRequest for TLC: five products that differ in  *)
(* every condition of the onboarding, and profiles of up to two items.        *)
EXTENDS RecommendationRequest

Product(category, subcategory, name, content, given) ==
    [ category |-> category, subcategory |-> subcategory, name |-> name, content |-> content,
      gift_available |-> given ]

MCCatalog ==
    << Product("kitchen", "cups", {"mug"}, {"ceramic"}, TRUE),
       Product("food", "sweets", {"praline"}, {"almond"}, TRUE),
       Product("kitchen", "machines", {"grinder"}, {}, FALSE),
       Product("food", None, {"beans"}, {"coffee"}, TRUE),
       Product("outdoors", "camp", {"lantern"}, {}, TRUE) >>

MCGiftExclusionCategories == [g \in {"food", "perfume"} |-> IF g = "food" THEN {"food"} ELSE {}]
MCGiftExclusionSubcategories == [g \in {"food", "perfume"} |-> {}]
MCGiftExclusionTerms == [g \in {"food", "perfume"} |-> IF g = "perfume" THEN {"mug"} ELSE {}]
MCAllergySubcategories == [a \in {"nuts"} |-> {<<"food", "bakery">>}]
MCAllergyTerms == [a \in {"nuts"} |-> {"almond"}]

Taste(value, aspect, target) ==
    [Signal("preferences", value, None, 60) EXCEPT !.aspect = aspect, !.target = target]
Old(signal) == [signal EXCEPT !.age = 3]

Coffee  == Signal("interests", "coffee", "drinks", 90)
Camping == Signal("hobbies", "camping", "outdoors", 70)
Machine == [Signal("wants", "machine", "drinks", 90) EXCEPT !.confidence = 95]
Car     == [Signal("unaffordable", "car", "outdoors", 60) EXCEPT !.deferral = "price"]
Capsule == Signal("consumables", "capsule", "drinks", 55)
Roasted == Taste("roasted", "content", "coffee")
NoMugs  == Signal("dislikes", "mug", None, 80)

Request(profile, interests, allergies, gift_exclusions) ==
    [ profile |-> profile, interests |-> interests, allergies |-> allergies,
      gift_exclusions |-> gift_exclusions ]

\* A car is one character in Korean.
MCShortValues == {"car"}

MCRequests ==
    { Request({}, {}, {}, {}),
      Request({Coffee, Machine}, {}, {}, {}),
      Request({Coffee, Camping}, {}, {}, {}),
      Request({Coffee, Roasted}, {}, {}, {}),
      Request({Capsule, Roasted}, {}, {}, {}),
      Request({Camping, Car}, {}, {"nuts"}, {}),
      Request({Old(Camping), Taste("plain", "content", None)}, {}, {}, {"perfume"}),
      Request({Taste("alone", "situation", None), NoMugs}, {[value |-> "reading", category |-> "books"]}, {}, {}),
      Request({Coffee, NoMugs}, {}, {}, {"food"}) }

\* Levels on either side of the four thresholds
MCNearness ==
    { <<70, 61, 55, 30, 61>>, <<55, 54, 70, 61, 30>>, <<55, 30, 54, 59, 61>> }

===============================================================================
