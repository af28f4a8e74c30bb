--------------------------- MODULE MCCatalogPipeline ---------------------------
(* Instances of CatalogPipeline for TLC. *)
EXTENDS CatalogPipeline

CONSTANTS low, high, i1, c1, w1

Listed(price, label) == [input |-> i1, price |-> price, category |-> label]

\* A file with a new price of one product and another that is sold out.
MCFiles ==
    { << [version |-> Listed(high, None), category |-> c1, active |-> TRUE],
         [version |-> Listed(low, c1), category |-> c1, active |-> FALSE] >> }

\* A product's price is only ever compared with an earlier one of its own, so
\* nothing is lost when both products start with the same price.  The first is
\* one whose category the model chooses; the second is one the labels place.
MCInit ==
    /\ Init
    /\ source[1] = Listed(low, None)
    /\ source[2] = Listed(low, c1)

\* The backend changes the price of a product or its labels, or stops listing it.
OneThing ==
    \A p \in Products :
        (source[p] # None /\ source'[p] # None) =>
            source'[p].price = source[p].price \/ source'[p].category = source[p].category

\* Jobs differ in nothing but their names, so where none is on it is w1 that
\* starts.  w2 starts when w1 is on and has lost the lock.
InOrder ==
    \A w \in Jobs \ {w1} : (job[w].pc = "off" /\ job'[w].pc # "off") => job[w1].pc # "off"

MCFairSpec == MCInit /\ [][Next /\ InOrder /\ OneThing]_vars /\ Fairness

===============================================================================
