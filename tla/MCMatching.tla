----------------------------- MODULE MCMatching -----------------------------
EXTENDS Matching, TLC

CONSTANTS url, from, shop, mail, raw, home, web, browser

\* Three regular expressions: known values, any value, and one that is not valid.
MCRegexps == {"known", "any", "bad"}
MCAccepts == "known" :> {shop, mail} @@ "any" :> Values @@ "bad" :> {}

\* raw is the address of mail as claws-mail writes it in From.
MCClean ==
  [k \in Vars |-> [v \in Values |-> IF k = from /\ v = raw THEN mail ELSE v]]

MCCovers == "home" :> {home} @@ "any" :> Domains

Matchers == {<<>>, <<url :> "known">>, <<from :> "bad", url :> "any">>,
             <<(url :> "any" @@ from :> "known")>>}

Froms(p, b) == [from |-> p, prompt |-> b]

Coverers == {<<>>, <<Froms("home", "true")>>, <<Froms("home", "unset"), Froms("any", "false")>>}

MCRules ==
  {[program |-> browser, mrules |-> mr, trules |-> tr, prompt |-> TRUE, to |-> web] :
     mr \in Matchers, tr \in Coverers}

UpTo(S, n) == UNION {[1..k -> S] : k \in 0..n}

MCLoopLists == UpTo(MCRules, 1)
MCRuleLists == UpTo(MCRules, 2)
=============================================================================
