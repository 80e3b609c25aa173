--------------------------- MODULE MCConfiguration ---------------------------
EXTENDS Configuration

From(d, b) == [from |-> d, notify |-> "unset", prompt |-> b]

\* A domain, and a domain with an expression of the same name.
MCEntered ==
  {[trules |-> <<From(d, "no")>>, mrules |-> MRules] : d \in Names}
    \cup {[trules |-> <<From(d, "no"), From(d, "no")>>, mrules |-> MRules] : d \in Names}

\* A rule and a loop of the same program; the source of the loop is no domain.
MCFiles ==
  {[domains |-> {p[1]}, default |-> p[1],
    rules |-> <<[kind |-> "rule", program |-> 1, to |-> p[1],
                 trules |-> <<From(p[1], "no")>>, mrules |-> MRules],
                [kind |-> "loop", program |-> 1, to |-> NoDomain,
                 trules |-> <<From(p[2], "unset")>>, mrules |-> {}]>>]
     : p \in {q \in Names \X Names : q[1] # q[2]}}

\* The two domain names are interchangeable.
Interchangeable == Permutations(Names)
=============================================================================
