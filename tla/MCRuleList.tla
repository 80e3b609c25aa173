----------------------------- MODULE MCRuleList -----------------------------
EXTENDS RuleList

CONSTANTS firefox, shop, pictures

\* The page of the shop links to the pictures.
MCLinks == [h \in Hosts |-> IF h = shop THEN <<pictures>> ELSE <<>>]

MCStaticAllows == {<<pictures>>, <<shop, pictures>>}

MCVisits == {[app |-> firefox, host |-> shop, url |-> TRUE], [app |-> firefox, host |-> pictures, url |-> FALSE]}

Option(b, n) == [flush |-> b, max |-> n]
MCOptions == {Option(TRUE, 2), Option(FALSE, 1)}
=============================================================================
