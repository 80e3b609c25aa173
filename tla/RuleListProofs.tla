--------------------------- MODULE RuleListProofs ---------------------------
(***************************************************************************)
(* For every set of applications, hosts, links and events, FirewallInv is  *)
(* an invariant of RuleList: the four threads change the lists and         *)
(* iptables a step at a time and commands get lost, and yet every rule     *)
(* that is listed and not in iptables, or the other way round, is counted; *)
(* and domainCache has one owner, though no lock guards it, until two      *)
(* threads are in updateCache at once.                                     *)
(*                                                                         *)
(* What a step does is a change of the list of one application and of what *)
(* one thread has still to do.  The first part counts the places of a host *)
(* in the lists when one list changes; the second says what becomes of the *)
(* work of a thread (Lanes, NoJobYet, CacheHasOneOwner, OneRemoval) when   *)
(* it does the first thing it has to do; the third keeps the sum of        *)
(* Balanced.  Each operation is then shown to be such a step.              *)
(***************************************************************************)
EXTENDS RuleList, FiniteSetTheorems, SequenceTheorems, TLAPS

\* A function from 1..n is a sequence.
LEMMA SeqOfFunction ==
  ASSUME NEW S, NEW n \in Nat, NEW f \in [1..n -> S]
  PROVE  f \in Seq(S) /\ Len(f) = n
OBVIOUS

\* A thread does the first thing it has to do, and has what that calls to do
\* before the rest.
LEMMA CallsSeq ==
  ASSUME NEW S, NEW s \in Seq(S), s # <<>>, NEW ws \in Seq(S), NEW n, n = ws \o Tail(s)
  PROVE  /\ n \in Seq(S) /\ Len(n) = Len(ws) + Len(s) - 1 /\ DOMAIN n = 1..Len(n)
         /\ Len(ws) \in Nat /\ Len(s) \in Nat \ {0}
         /\ \A k \in 1..Len(ws) : n[k] = ws[k]
         /\ \A k \in Len(ws)+1..Len(n) : k - Len(ws) + 1 \in 2..Len(s) /\ n[k] = s[k - Len(ws) + 1]
         /\ Head(s) = s[1] /\ Head(s) \in S
<1>1. /\ Head(s) \in S /\ Tail(s) \in Seq(S) /\ Len(Tail(s)) = Len(s) - 1
      /\ \A i \in 1..Len(Tail(s)) : Tail(s)[i] = s[i + 1]
  BY HeadTailProperties
<1>2. Len(s) \in Nat \ {0} /\ Len(ws) \in Nat
  BY EmptySeq, LenProperties
<1>3. /\ n \in Seq(S) /\ Len(n) = Len(ws) + Len(Tail(s))
      /\ \A i \in 1..Len(ws) + Len(Tail(s)) :
           n[i] = IF i <= Len(ws) THEN ws[i] ELSE Tail(s)[i - Len(ws)]
  BY <1>1, ConcatProperties
<1>4. DOMAIN n = 1..Len(n)
  BY <1>3, LenProperties
<1>5. ASSUME NEW k \in Len(ws)+1..Len(n)
      PROVE  k - Len(ws) + 1 \in 2..Len(s) /\ n[k] = s[k - Len(ws) + 1]
  <2>1. /\ k \in 1..Len(ws) + Len(Tail(s)) /\ ~(k <= Len(ws))
        /\ k - Len(ws) \in 1..Len(Tail(s)) /\ k - Len(ws) + 1 \in 2..Len(s)
    BY <1>1, <1>2, <1>3, <1>5
  <2> QED
    BY <1>1, <1>3, <2>1
<1>6. Head(s) = s[1]
  OBVIOUS
<1> QED
  BY <1>1, <1>2, <1>3, <1>4, <1>5, <1>6

\* The keys of a map with finitely many are put in some order.
LEMMA SetToSeqType ==
  ASSUME NEW S, IsFiniteSet(S)
  PROVE  SetToSeq(S) \in Seq(S)
<1>1. Cardinality(S) \in Nat /\ ExistsBijection(1..Cardinality(S), S)
  BY FS_CardinalityType
<1>2. \E f \in [1..Cardinality(S) -> S] : IsInjective(f)
  BY <1>1 DEF ExistsBijection, Bijection, Injection, IsInjective
<1>3. SetToSeq(S) \in [1..Cardinality(S) -> S]
  BY <1>2 DEF SetToSeq
<1> QED
  BY <1>1, <1>3, SeqOfFunction

-----------------------------------------------------------------------------
(* How often a rule is in the lists.                                       *)

\* The places of the rule of h in the lists r.
PlacesIn(r, h) == {x \in (DOMAIN r) \X Nat : x[2] \in DOMAIN r[x[1]] /\ r[x[1]][x[2]] = h}

\* The list of a in r, and r with another one.
ListIn(r, a) == IF a \in DOMAIN r THEN r[a] ELSE <<>>
Replaced(r, a, s) == [b \in DOMAIN r \cup {a} |-> IF b = a THEN s ELSE r[b]]

\* The places of h are those of h in the lists as they are.
LEMMA PlacesNow ==
  ASSUME NEW h, \A a \in DOMAIN rules : rules[a] \in Seq(Hosts)
  PROVE  Places(h) = PlacesIn(rules, h)
<1>1. \A a \in DOMAIN rules : DOMAIN rules[a] \subseteq Nat
  BY LenProperties
<1> QED
  BY <1>1 DEF Places, PlacesIn

\* And after a step those of h in the lists as they will be.
LEMMA PlacesNext ==
  ASSUME NEW h, \A a \in DOMAIN rules' : rules'[a] \in Seq(Hosts)
  PROVE  Places(h)' = PlacesIn(rules', h)
<1>1. \A a \in DOMAIN rules' : DOMAIN rules'[a] \subseteq Nat
  BY LenProperties
<1> QED
  BY <1>1 DEF Places, PlacesIn

\* What is known of a list that is replaced.
LEMMA ReplacedFacts ==
  ASSUME NEW r, \A b \in DOMAIN r : r[b] \in Seq(Hosts), NEW a, NEW s \in Seq(Hosts)
  PROVE  /\ DOMAIN Replaced(r, a, s) = DOMAIN r \cup {a}
         /\ Replaced(r, a, s)[a] = s
         /\ \A b \in DOMAIN r : b # a => Replaced(r, a, s)[b] = r[b]
         /\ \A b \in DOMAIN Replaced(r, a, s) : Replaced(r, a, s)[b] \in Seq(Hosts)
         /\ ListIn(r, a) \in Seq(Hosts)
BY EmptySeq DEF Replaced, ListIn

\* A place in a replaced list is a place in the new list or one in another list.
LEMMA ReplacedPlaces ==
  ASSUME NEW r, \A b \in DOMAIN r : r[b] \in Seq(Hosts), NEW a, NEW s \in Seq(Hosts), NEW g
  PROVE  PlacesIn(Replaced(r, a, s), g)
           = (PlacesIn(r, g) \ ({a} \X {k \in DOMAIN ListIn(r, a) : ListIn(r, a)[k] = g}))
               \cup ({a} \X {k \in DOMAIN s : s[k] = g})
<1> DEFINE q == Replaced(r, a, s)
           X == {k \in DOMAIN ListIn(r, a) : ListIn(r, a)[k] = g}
           Y == {k \in DOMAIN s : s[k] = g}
<1>1. /\ DOMAIN q = DOMAIN r \cup {a} /\ q[a] = s
      /\ \A b \in DOMAIN r : b # a => q[b] = r[b]
  BY DEF Replaced
<1>2. DOMAIN s \subseteq Nat
  BY LenProperties
<1>3. a \in DOMAIN r => ListIn(r, a) = r[a]
  BY DEF ListIn
<1> HIDE DEF q
<1>4. PlacesIn(q, g) \subseteq (PlacesIn(r, g) \ ({a} \X X)) \cup ({a} \X Y)
  <2> SUFFICES ASSUME NEW x \in PlacesIn(q, g)
               PROVE  x \in (PlacesIn(r, g) \ ({a} \X X)) \cup ({a} \X Y)
    OBVIOUS
  <2>1. /\ x \in (DOMAIN q) \X Nat /\ x = <<x[1], x[2]>> /\ x[1] \in DOMAIN q /\ x[2] \in Nat
        /\ x[2] \in DOMAIN q[x[1]] /\ q[x[1]][x[2]] = g
    BY DEF PlacesIn
  <2>2. CASE x[1] = a
    BY <1>1, <2>1, <2>2
  <2>3. CASE x[1] # a
    BY <1>1, <2>1, <2>3 DEF PlacesIn
  <2> QED
    BY <2>2, <2>3
<1>5. PlacesIn(r, g) \ ({a} \X X) \subseteq PlacesIn(q, g)
  <2> SUFFICES ASSUME NEW x \in PlacesIn(r, g), x \notin {a} \X X
               PROVE  x \in PlacesIn(q, g)
    OBVIOUS
  <2>1. /\ x \in (DOMAIN r) \X Nat /\ x = <<x[1], x[2]>> /\ x[1] \in DOMAIN r /\ x[2] \in Nat
        /\ x[2] \in DOMAIN r[x[1]] /\ r[x[1]][x[2]] = g
    BY DEF PlacesIn
  <2>2. x[1] # a
    BY <1>3, <2>1
  <2> QED
    BY <1>1, <2>1, <2>2 DEF PlacesIn
<1>6. {a} \X Y \subseteq PlacesIn(q, g)
  BY <1>1, <1>2 DEF PlacesIn
<1> QED
  BY <1>4, <1>5, <1>6 DEF q

\* The positions of g in a list, and how many there are.
At(s, g) == {k \in DOMAIN s : s[k] = g}

\* A host is in a list a number of times.
LEMMA AtFacts ==
  ASSUME NEW s \in Seq(Hosts), NEW g
  PROVE  IsFiniteSet(At(s, g)) /\ Cardinality(At(s, g)) \in Nat
<1>1. Len(s) \in Int /\ At(s, g) \subseteq 1..Len(s)
  BY LenProperties DEF At
<1>2. IsFiniteSet(1..Len(s))
  BY <1>1, FS_Interval
<1> QED
  BY <1>1, <1>2, FS_Subset, FS_CardinalityType

\* A list that is replaced takes its places with it.
LEMMA ReplacedCount ==
  ASSUME NEW r, \A b \in DOMAIN r : r[b] \in Seq(Hosts), NEW a, NEW s \in Seq(Hosts), NEW g,
         IsFiniteSet(PlacesIn(r, g))
  PROVE  /\ IsFiniteSet(PlacesIn(Replaced(r, a, s), g))
         /\ Cardinality(PlacesIn(Replaced(r, a, s), g)) + Cardinality(At(ListIn(r, a), g))
              = Cardinality(PlacesIn(r, g)) + Cardinality(At(s, g))
         /\ Cardinality(PlacesIn(r, g)) \in Nat
         /\ Cardinality(PlacesIn(Replaced(r, a, s), g)) \in Nat
<1> DEFINE P == PlacesIn(r, g)
           X == {a} \X At(ListIn(r, a), g)
           Y == {a} \X At(s, g)
<1>1. PlacesIn(Replaced(r, a, s), g) = (P \ X) \cup Y
  BY ReplacedPlaces DEF At
<1>2. ListIn(r, a) \in Seq(Hosts)
  BY ReplacedFacts
<1>3. /\ IsFiniteSet(At(ListIn(r, a), g)) /\ Cardinality(At(ListIn(r, a), g)) \in Nat
      /\ IsFiniteSet(At(s, g)) /\ Cardinality(At(s, g)) \in Nat
  BY <1>2, AtFacts
<1>4. IsFiniteSet({a}) /\ Cardinality({a}) = 1
  BY FS_Singleton
<1>5. /\ IsFiniteSet(X) /\ Cardinality(X) = Cardinality(At(ListIn(r, a), g))
      /\ IsFiniteSet(Y) /\ Cardinality(Y) = Cardinality(At(s, g))
  BY <1>3, <1>4, FS_Product
<1>6. X \subseteq P
  BY <1>2, LenProperties DEF PlacesIn, ListIn, At
<1>7. (P \ X) \cap Y = {}
  <2> SUFFICES ASSUME NEW x \in P, x \in Y PROVE x \in X
    OBVIOUS
  <2> QED
    BY DEF PlacesIn, ListIn, At
<1>8. IsFiniteSet(P \ X) /\ Cardinality(P \ X) = Cardinality(P) - Cardinality(X)
  <2>1. P \cap X = X /\ IsFiniteSet(P)
    BY <1>6
  <2> HIDE DEF P, X
  <2> QED
    BY <2>1, FS_Difference
<1> HIDE DEF P, X, Y
<1>9. /\ IsFiniteSet((P \ X) \cup Y)
      /\ Cardinality((P \ X) \cup Y) = Cardinality(P \ X) + Cardinality(Y) - Cardinality({})
  BY <1>5, <1>7, <1>8, FS_Union
<1>10. /\ Cardinality({}) = 0 /\ Cardinality(P) \in Nat /\ Cardinality(X) \in Nat
       /\ Cardinality(Y) \in Nat /\ Cardinality((P \ X) \cup Y) \in Nat
       /\ Cardinality(P \ X) \in Nat
  BY <1>5, <1>8, <1>9, FS_EmptySet, FS_CardinalityType DEF P
<1>11. Cardinality((P \ X) \cup Y) + Cardinality(X) = Cardinality(P) + Cardinality(Y)
  BY <1>8, <1>9, <1>10
<1> QED
  BY <1>1, <1>5, <1>9, <1>10, <1>11 DEF P

\* One more rule at the end of a list.
LEMMA AtAppend ==
  ASSUME NEW s \in Seq(Hosts), NEW h \in Hosts, NEW g
  PROVE  Cardinality(At(Append(s, h), g)) = Cardinality(At(s, g)) + IF g = h THEN 1 ELSE 0
<1>1. /\ Append(s, h) \in Seq(Hosts) /\ Len(Append(s, h)) = Len(s) + 1
      /\ \A i \in 1..Len(s) : Append(s, h)[i] = s[i]
      /\ Append(s, h)[Len(s) + 1] = h
  BY AppendProperties
<1>2. DOMAIN s = 1..Len(s) /\ DOMAIN Append(s, h) = 1..Len(s) + 1 /\ Len(s) \in Nat
  BY <1>1, LenProperties
<1>3. At(Append(s, h), g) = IF g = h THEN At(s, g) \cup {Len(s) + 1} ELSE At(s, g)
  BY <1>1, <1>2 DEF At
<1>4. IsFiniteSet(At(s, g)) /\ Cardinality(At(s, g)) \in Nat
  BY AtFacts
<1>5. Len(s) + 1 \notin At(s, g)
  BY <1>2 DEF At
<1>6. Cardinality(At(s, g) \cup {Len(s) + 1}) = Cardinality(At(s, g)) + 1
  BY <1>4, <1>5, FS_AddElement
<1> QED
  BY <1>3, <1>4, <1>6

-----------------------------------------------------------------------------
(* What a thread has to do.                                                *)

\* What each operation comes with.
LEMMA WorkFacts ==
  ASSUME NEW w \in Work
  PROVE  /\ w.op \in {"removeAppRules", "clear", "addRule", "push"} => w.app \in Users
         /\ w.op \in {"reject", "addRule", "push", "addDomain", "updateCache", "start", "addLink",
                      "reply"} => w.host \in Hosts
         /\ w.op \in {"addDomain", "updateCache", "start"} => w.app \in Apps
         /\ w.op = "clear" => w.seen \in Seq(Hosts)
         /\ w.op = "addLink" => w.from \in Hosts
BY DEF Work

\* An operation is gone once it is done; what it calls may come instead.
LEMMA NoOpCalls ==
  ASSUME NEW q \in Seq(Work), q # <<>>, NEW ws \in Seq(Work), NEW n, n = ws \o Tail(q),
         NEW ops, NoOp(q, ops), NoOp(ws, ops)
  PROVE  NoOp(n, ops)
<1>1. DOMAIN q = 1..Len(q) /\ DOMAIN ws = 1..Len(ws)
  BY LenProperties
<1> QED
  BY <1>1, CallsSeq DEF NoOp

\* What is the last thing to do stays so.
LEMMA LastOnlyCalls ==
  ASSUME NEW q \in Seq(Work), q # <<>>, NEW ws \in Seq(Work), NEW n, n = ws \o Tail(q),
         LastOnly(q), NoOp(ws, {"updateCache", "start"})
  PROVE  LastOnly(n)
<1>1. DOMAIN q = 1..Len(q) /\ DOMAIN ws = 1..Len(ws)
  BY LenProperties
<1> SUFFICES ASSUME NEW k \in DOMAIN n, n[k].op \in {"updateCache", "start"}
             PROVE  k = Len(n)
  BY DEF LastOnly
<1>2. /\ Len(n) = Len(ws) + Len(q) - 1 /\ k \in 1..Len(n) /\ Len(ws) \in Nat
      /\ Len(q) \in Nat \ {0}
  BY CallsSeq
<1>3. k > Len(ws)
  BY <1>1, <1>2, CallsSeq DEF NoOp
<1>4. k - Len(ws) + 1 \in DOMAIN q /\ n[k] = q[k - Len(ws) + 1]
  BY <1>1, <1>2, <1>3, CallsSeq
<1>5. k - Len(ws) + 1 = Len(q)
  BY <1>4 DEF LastOnly
<1> QED
  BY <1>2, <1>5

\* One sequence of operations after another.
LEMMA ConcatCalls ==
  ASSUME NEW x \in Seq(Work), NEW y \in Seq(Work)
  PROVE  /\ x \o y \in Seq(Work)
         /\ \A ops : NoOp(x, ops) /\ NoOp(y, ops) => NoOp(x \o y, ops)
         /\ NoOp(x, {"updateCache", "start"}) /\ LastOnly(y) => LastOnly(x \o y)
<1> DEFINE n == x \o y
<1>1. /\ n \in Seq(Work) /\ Len(n) = Len(x) + Len(y)
      /\ \A i \in 1..Len(x) + Len(y) : n[i] = IF i <= Len(x) THEN x[i] ELSE y[i - Len(x)]
  BY ConcatProperties
<1>2. /\ DOMAIN n = 1..Len(n) /\ DOMAIN x = 1..Len(x) /\ DOMAIN y = 1..Len(y)
      /\ Len(x) \in Nat /\ Len(y) \in Nat
  BY <1>1, LenProperties
<1> HIDE DEF n
<1>3. ASSUME NEW k \in DOMAIN n
      PROVE  \/ k \in DOMAIN x /\ n[k] = x[k]
             \/ k - Len(x) \in DOMAIN y /\ n[k] = y[k - Len(x)]
  BY <1>1, <1>2, <1>3
<1>4. ASSUME NEW ops, NoOp(x, ops), NoOp(y, ops) PROVE NoOp(n, ops)
  BY <1>3, <1>4 DEF NoOp
<1>5. ASSUME NoOp(x, {"updateCache", "start"}), LastOnly(y) PROVE LastOnly(n)
  <2> SUFFICES ASSUME NEW k \in DOMAIN n, n[k].op \in {"updateCache", "start"}
               PROVE  k = Len(n)
    BY DEF LastOnly
  <2>1. k - Len(x) \in DOMAIN y /\ n[k] = y[k - Len(x)]
    BY <1>3, <1>5 DEF NoOp
  <2>2. k - Len(x) = Len(y)
    BY <1>5, <2>1 DEF LastOnly
  <2> QED
    BY <1>1, <1>2, <2>2
<1> QED
  BY <1>1, <1>4, <1>5 DEF n

\* Behind an operation that removes nothing there is no removal.
LEMMA NoRemoval ==
  ASSUME NEW q \in Seq(Work), q # <<>>, OneRemoval(q), q[1].op \notin {"reject", "clear"}
  PROVE  Removes(q) = {}
<1>1. DOMAIN q = 1..Len(q) /\ Len(q) \in Nat
  BY LenProperties
<1> QED
  BY <1>1 DEF OneRemoval, Removes

\* Who has no removal to do has no rule half removed.
LEMMA NotHalfRemoved ==
  ASSUME NEW q, Removes(q) = {}, NEW h
  PROVE  HalfRemoved(q, h) = 0
<1>1. {k \in DOMAIN q : q[k].op = "clear"} = {}
  BY DEF Removes
<1> QED
  BY <1>1 DEF HalfRemoved

\* The deletions that are done are those of the first rules of the list.
LEMMA HalfRemovedIs ==
  ASSUME NEW q \in Seq(Work), NEW c \in DOMAIN q, Removes(q) = 1..c, Removal(q, c), NEW h
  PROVE  HalfRemoved(q, h) = Cardinality({j \in 1..Len(q[c].seen) + 1 - c : q[c].seen[j] = h})
<1>1. DOMAIN q = 1..Len(q) /\ Len(q) \in Nat /\ c \in Nat
  BY LenProperties
<1>2. {k \in DOMAIN q : q[k].op = "clear"} = {c}
  <2>1. ASSUME NEW k \in DOMAIN q, q[k].op = "clear" PROVE k = c
    <3>1. k \in 1..c
      BY <2>1 DEF Removes
    <3>2. ASSUME k \in 1..c-1 PROVE q[k].op = "reject"
      <4>1. q[k] = [op |-> "reject", host |-> q[c].seen[Len(q[c].seen) + 1 - c + k]]
        BY <3>2 DEF Removal
      <4> QED
        BY <4>1
    <3> QED
      BY <1>1, <2>1, <3>1, <3>2
  <2> QED
    BY <2>1 DEF Removal
<1>3. (CHOOSE k \in {c} : TRUE) = c
  OBVIOUS
<1> QED
  BY <1>2, <1>3 DEF HalfRemoved

\* An operation that removes nothing and calls no deletion.
LEMMA OtherCalls ==
  ASSUME NEW q \in Seq(Work), q # <<>>, NEW ws \in Seq(Work), NEW n, n = ws \o Tail(q),
         OneRemoval(q), q[1].op \notin {"reject", "clear"}, NoOp(ws, {"reject", "clear"})
  PROVE  /\ OneRemoval(n)
         /\ \A h : HalfRemoved(n, h) = 0 /\ HalfRemoved(q, h) = 0
<1>1. Removes(q) = {}
  BY NoRemoval
<1>2. NoOp(q, {"reject", "clear"})
  BY <1>1 DEF NoOp, Removes
<1>3. NoOp(n, {"reject", "clear"})
  BY <1>2, NoOpCalls
<1>4. Removes(n) = {}
  BY <1>3 DEF NoOp, Removes
<1> QED
  BY <1>1, <1>4, NotHalfRemoved DEF OneRemoval

\* What removeAppRules has to do for the list s of a.
Deletions(a, s) ==
  [k \in DOMAIN s |-> [op |-> "reject", host |-> s[k]]]
    \o <<[op |-> "clear", app |-> a, seen |-> s]>>

\* removeAppRules: the rules of the list s are to be deleted, then the list to be
\* cleared; nothing is half removed yet.
LEMMA BeginRemoval ==
  ASSUME NEW q \in Seq(Work), q # <<>>, OneRemoval(q), q[1].op \notin {"reject", "clear"},
         NEW s \in Seq(Hosts), NEW a \in Users, NEW ws, ws = Deletions(a, s),
         NEW n, n = ws \o Tail(q)
  PROVE  /\ ws \in Seq(Work) /\ \A k \in DOMAIN ws : ws[k].op \in {"reject", "clear"}
         /\ OneRemoval(n)
         /\ \A h : HalfRemoved(n, h) = 0 /\ HalfRemoved(q, h) = 0
<1> DEFINE rj == [k \in DOMAIN s |-> [op |-> "reject", host |-> s[k]]]
           cl == [op |-> "clear", app |-> a, seen |-> s]
           one == <<cl>>
           L == Len(s)
<1>1. L \in Nat /\ DOMAIN s = 1..L /\ \A k \in 1..L : s[k] \in Hosts
  BY LenProperties, ElementOfSeq
<1>2. /\ \A k \in 1..L : [op |-> "reject", host |-> s[k]] \in Work
      /\ cl \in Work /\ cl.op = "clear" /\ cl.seen = s
  BY <1>1 DEF Work
<1>3. rj \in [1..L -> Work] /\ \A k \in 1..L : rj[k] = [op |-> "reject", host |-> s[k]]
  BY <1>1, <1>2
<1> HIDE DEF L, rj, cl
<1>4. rj \in Seq(Work) /\ Len(rj) = L
  BY <1>1, <1>3, SeqOfFunction
<1>5. one \in Seq(Work) /\ Len(one) = 1 /\ one[1] = cl
  BY <1>2
<1>6. ws = rj \o one
  BY DEF rj, cl, Deletions
<1> HIDE DEF one
<1>7. /\ ws \in Seq(Work) /\ Len(ws) = L + 1 /\ DOMAIN ws = 1..L + 1
      /\ \A k \in 1..L : ws[k] = [op |-> "reject", host |-> s[k]]
      /\ ws[L + 1] = cl
  <2>0. /\ ws \in Seq(Work) /\ Len(ws) = Len(rj) + Len(one)
        /\ \A k \in 1..Len(rj) + Len(one) :
             ws[k] = IF k <= Len(rj) THEN rj[k] ELSE one[k - Len(rj)]
    BY ONLY <1>4, <1>5, <1>6, ConcatProperties
  <2>1. /\ ws \in Seq(Work) /\ Len(ws) = L + 1
        /\ \A k \in 1..L + 1 : ws[k] = IF k <= L THEN rj[k] ELSE one[k - L]
    BY <1>4, <1>5, <2>0
  <2>2. L + 1 \in 1..L + 1 /\ ~(L + 1 <= L) /\ L + 1 - L = 1
    BY <1>1
  <2>3. ws[L + 1] = cl
    BY ONLY <1>1, <1>5, <2>1, <2>2
  <2>4. \A k \in 1..L : k \in 1..L + 1 /\ k <= L
    BY <1>1
  <2> QED
    BY <1>3, <2>1, <2>3, <2>4, LenProperties
<1>8. \A k \in DOMAIN ws : ws[k].op \in {"reject", "clear"}
  <2> SUFFICES ASSUME NEW k \in 1..L + 1 PROVE ws[k].op \in {"reject", "clear"}
    BY <1>7
  <2>1. CASE k = L + 1
    BY <1>2, <1>7, <2>1
  <2>2. CASE k # L + 1
    <3>1. k \in 1..L
      BY <1>1, <2>2
    <3>2. ws[k] = [op |-> "reject", host |-> s[k]]
      BY ONLY <1>7, <3>1
    <3> QED
      BY ONLY <3>2
  <2> QED
    BY <2>1, <2>2
<1>9. Removes(q) = {} /\ DOMAIN q = 1..Len(q)
  BY NoRemoval, LenProperties
<1>10. /\ n \in Seq(Work) /\ DOMAIN n = 1..Len(n) /\ Len(n) = L + Len(q) /\ Len(q) \in Nat \ {0}
       /\ \A k \in 1..L + 1 : n[k] = ws[k]
       /\ \A k \in L + 2..Len(n) : k - L \in 2..Len(q) /\ n[k] = q[k - L]
  <2>1. /\ n \in Seq(Work) /\ DOMAIN n = 1..Len(n) /\ Len(n) = Len(ws) + Len(q) - 1
        /\ Len(q) \in Nat \ {0}
        /\ \A k \in 1..Len(ws) : n[k] = ws[k]
        /\ \A k \in Len(ws)+1..Len(n) : k - Len(ws) + 1 \in 2..Len(q) /\ n[k] = q[k - Len(ws) + 1]
    BY <1>7, CallsSeq
  <2>2. ASSUME NEW k \in L + 2..Len(n) PROVE k - L \in 2..Len(q) /\ n[k] = q[k - L]
    <3>1. L \in Nat /\ Len(ws) = L + 1 /\ Len(n) \in Nat
      BY <1>1, <1>7, <2>1, LenProperties
    <3>2. k \in Len(ws)+1..Len(n) /\ k - Len(ws) + 1 = k - L
      BY ONLY <3>1
    <3> QED
      BY ONLY <2>1, <3>2
  <2> QED
    BY <1>1, <1>7, <2>1, <2>2
<1>11. Removes(n) = 1..L + 1
  <2>1. ASSUME NEW k \in DOMAIN n, k \notin 1..L + 1
        PROVE  n[k].op \notin {"reject", "clear"}
    <3>1. k - L \in DOMAIN q /\ n[k] = q[k - L]
      BY <1>1, <1>9, <1>10, <2>1
    <3> QED
      BY <1>9, <3>1 DEF Removes
  <2>2. 1..L + 1 \subseteq DOMAIN n
    BY <1>1, <1>10
  <2>3. \A k \in 1..L + 1 : n[k].op \in {"reject", "clear"}
    BY ONLY <1>7, <1>8, <1>10
  <2> QED
    BY ONLY <2>1, <2>2, <2>3 DEF Removes
<1>12. n[L + 1] = cl /\ L + 1 \in DOMAIN n
  BY <1>1, <1>7, <1>10
<1>13. Removal(n, L + 1)
  <2>1. n[L + 1].op = "clear" /\ n[L + 1].seen = s /\ Len(s) = L /\ L + 1 <= L + 1
    BY <1>1, <1>2, <1>12 DEF L
  <2>2. ASSUME NEW j \in 1..L + 1 - 1
        PROVE  n[j] = [op |-> "reject", host |-> s[L + 1 - (L + 1) + j]]
    <3>1. j \in 1..L /\ j \in 1..L + 1 /\ L + 1 - (L + 1) + j = j
      BY <1>1
    <3> QED
      BY ONLY <1>7, <1>10, <3>1
  <2> QED
    BY ONLY <2>1, <2>2 DEF Removal
<1>14. OneRemoval(n)
  BY <1>11, <1>12, <1>13 DEF OneRemoval
<1>15. ASSUME NEW h PROVE HalfRemoved(n, h) = 0 /\ HalfRemoved(q, h) = 0
  <2>0. HalfRemoved(n, h)
          = Cardinality({j \in 1..Len(n[L + 1].seen) + 1 - (L + 1) : n[L + 1].seen[j] = h})
    <3>1. n \in Seq(Work) /\ L + 1 \in DOMAIN n
      BY <1>10, <1>12
    <3> QED
      BY ONLY <1>11, <1>13, <3>1, HalfRemovedIs
  <2>1. HalfRemoved(n, h) = Cardinality({j \in 1..Len(s) + 1 - (L + 1) : s[j] = h})
    BY <1>2, <1>12, <2>0
  <2>2. {j \in 1..Len(s) + 1 - (L + 1) : s[j] = h} = {}
    BY <1>1 DEF L
  <2> QED
    BY <1>9, <2>1, <2>2, FS_EmptySet, NotHalfRemoved
<1> QED
  BY <1>7, <1>8, <1>14, <1>15

\* The positions up to m of h in a list.
LEMMA PrefixCount ==
  ASSUME NEW s \in Seq(Hosts), NEW m \in Nat, m + 1 <= Len(s), NEW h
  PROVE  /\ Cardinality({j \in 1..m : s[j] = h}) \in Nat
         /\ Cardinality({j \in 1..m + 1 : s[j] = h})
              = Cardinality({j \in 1..m : s[j] = h}) + IF s[m + 1] = h THEN 1 ELSE 0
<1> DEFINE A == {j \in 1..m : s[j] = h}
           B == {j \in 1..m + 1 : s[j] = h}
<1>1. IsFiniteSet(1..m)
  BY FS_Interval
<1>2. IsFiniteSet(A) /\ Cardinality(A) \in Nat
  BY <1>1, FS_Subset, FS_CardinalityType
<1>3. B = IF s[m + 1] = h THEN A \cup {m + 1} ELSE A
  OBVIOUS
<1>4. m + 1 \notin A
  OBVIOUS
<1> HIDE DEF A, B
<1>5. Cardinality(A \cup {m + 1}) = Cardinality(A) + 1
  BY <1>2, <1>4, FS_AddElement
<1>6. Cardinality(B) = Cardinality(A) + IF s[m + 1] = h THEN 1 ELSE 0
  BY <1>2, <1>3, <1>5
<1> QED
  BY <1>2, <1>6 DEF A, B

\* reject: one more rule of the list is half removed.
LEMMA RejectRemoval ==
  ASSUME NEW q \in Seq(Work), q # <<>>, OneRemoval(q), q[1].op = "reject",
         NEW n, n = <<>> \o Tail(q)
  PROVE  /\ OneRemoval(n)
         /\ \A h : /\ HalfRemoved(q, h) \in Nat
                   /\ HalfRemoved(n, h) = HalfRemoved(q, h) + IF q[1].host = h THEN 1 ELSE 0
<1>1. DOMAIN q = 1..Len(q) /\ Len(q) \in Nat \ {0}
  BY LenProperties, EmptySeq
<1>2. PICK c \in DOMAIN q : Removes(q) = 1..c /\ Removal(q, c)
  <2>1. 1 \in Removes(q)
    BY <1>1 DEF Removes
  <2> QED
    BY <2>1 DEF OneRemoval
<1> DEFINE s == q[c].seen
           L == Len(s)
<1>3. c \in Nat \ {0, 1} /\ c <= Len(q)
  <2>1. q[c].op = "clear"
    BY <1>2 DEF Removal
  <2> QED
    BY <1>1, <2>1
<1>4. s \in Seq(Hosts) /\ L \in Nat /\ c <= L + 1
  <2>1. q[c] \in Work /\ q[c].op = "clear"
    BY <1>1, <1>2, ElementOfSeq DEF Removal
  <2>2. s \in Seq(Hosts)
    BY <2>1, WorkFacts
  <2> QED
    BY <1>2, <2>2, LenProperties DEF Removal
<1>5. \A j \in 1..c-1 : q[j] = [op |-> "reject", host |-> s[L + 1 - c + j]]
  BY <1>2 DEF Removal
<1>6. /\ n \in Seq(Work) /\ DOMAIN n = 1..Len(n) /\ Len(n) = Len(q) - 1
      /\ \A k \in 1..Len(n) : k + 1 \in 2..Len(q) /\ n[k] = q[k + 1]
  <2>1. <<>> \in Seq(Work) /\ Len(<<>>) = 0
    BY EmptySeq
  <2>2. /\ n \in Seq(Work) /\ DOMAIN n = 1..Len(n) /\ Len(n) = 0 + Len(q) - 1
        /\ \A k \in 0+1..Len(n) : k - 0 + 1 \in 2..Len(q) /\ n[k] = q[k - 0 + 1]
    BY <2>1, CallsSeq
  <2> QED
    BY <1>1, <2>2
<1> HIDE DEF s, L
<1>7. c - 1 \in DOMAIN n /\ n[c - 1] = q[c] /\ n[c - 1].seen = s
  <2>1. c - 1 \in 1..Len(n) /\ c - 1 + 1 = c
    BY <1>1, <1>3, <1>6
  <2> QED
    BY <1>6, <2>1 DEF s
<1>8. Removes(n) = 1..c - 1
  <2>1. ASSUME NEW k \in DOMAIN n PROVE k \in 1..c - 1 <=> n[k].op \in {"reject", "clear"}
    <3>1. k \in 1..Len(n) /\ k + 1 \in DOMAIN q /\ n[k] = q[k + 1]
      BY <1>1, <1>6
    <3>2. q[k + 1].op \in {"reject", "clear"} <=> k + 1 \in 1..c
      BY <1>2, <3>1 DEF Removes
    <3> QED
      BY <1>1, <1>3, <1>6, <3>1, <3>2
  <2>2. 1..c - 1 \subseteq DOMAIN n
    BY <1>1, <1>3, <1>6
  <2> QED
    BY <2>1, <2>2 DEF Removes
<1>9. Removal(n, c - 1)
  <2>1. n[c - 1].op = "clear" /\ c - 1 <= L + 1
    BY <1>2, <1>3, <1>4, <1>7 DEF Removal
  <2>2. ASSUME NEW j \in 1..(c - 1) - 1
        PROVE  n[j] = [op |-> "reject", host |-> s[L + 1 - (c - 1) + j]]
    <3>1. j + 1 \in 1..c-1 /\ j \in 1..Len(n) /\ L + 1 - c + (j + 1) = L + 1 - (c - 1) + j
      BY <1>1, <1>3, <1>4, <1>6, <2>2
    <3>2. q[j + 1] = [op |-> "reject", host |-> s[L + 1 - c + (j + 1)]]
      BY <1>5, <3>1
    <3> QED
      BY <1>6, <3>1, <3>2
  <2> QED
    BY <1>7, <2>1, <2>2 DEF Removal, L
<1>10. OneRemoval(n)
  BY <1>7, <1>8, <1>9 DEF OneRemoval
<1>11. ASSUME NEW h
       PROVE  /\ HalfRemoved(q, h) \in Nat
              /\ HalfRemoved(n, h) = HalfRemoved(q, h) + IF q[1].host = h THEN 1 ELSE 0
  <2> DEFINE m == L + 1 - c
  <2>1. m \in Nat /\ m + 1 <= Len(s) /\ L + 1 - (c - 1) = m + 1
    BY <1>3, <1>4 DEF L
  <2>2. q[1].host = s[m + 1]
    <3>1. 1 \in 1..c-1
      BY <1>3
    <3>2. q[1] = [op |-> "reject", host |-> s[L + 1 - c + 1]]
      BY <1>5, <3>1
    <3> QED
      BY <3>2
  <2>3. HalfRemoved(q, h) = Cardinality({j \in 1..m : s[j] = h})
    BY <1>2, HalfRemovedIs DEF s, L
  <2>4. HalfRemoved(n, h) = Cardinality({j \in 1..L + 1 - (c - 1) : s[j] = h})
    <3>1. HalfRemoved(n, h)
            = Cardinality({j \in 1..Len(n[c - 1].seen) + 1 - (c - 1) : n[c - 1].seen[j] = h})
      BY ONLY <1>6, <1>7, <1>8, <1>9, HalfRemovedIs
    <3> QED
      BY <1>7, <3>1 DEF L
  <2> HIDE DEF m
  <2>5. /\ Cardinality({j \in 1..m : s[j] = h}) \in Nat
        /\ Cardinality({j \in 1..m + 1 : s[j] = h})
             = Cardinality({j \in 1..m : s[j] = h}) + IF s[m + 1] = h THEN 1 ELSE 0
    BY <1>4, <2>1, PrefixCount
  <2>6. HalfRemoved(n, h) = Cardinality({j \in 1..m + 1 : s[j] = h})
    BY ONLY <2>1, <2>4
  <2> QED
    BY ONLY <2>2, <2>3, <2>5, <2>6
<1> QED
  BY <1>10, <1>11

\* clear: all rules of the list that was seen were half removed, and none is now.
LEMMA ClearRemoval ==
  ASSUME NEW q \in Seq(Work), q # <<>>, OneRemoval(q), q[1].op = "clear",
         NEW n, n = <<>> \o Tail(q)
  PROVE  /\ q[1].seen \in Seq(Hosts)
         /\ OneRemoval(n)
         /\ \A h : /\ HalfRemoved(q, h) = Cardinality(At(q[1].seen, h))
                   /\ HalfRemoved(n, h) = 0
<1>1. DOMAIN q = 1..Len(q) /\ Len(q) \in Nat \ {0}
  BY LenProperties, EmptySeq
<1>2. PICK c \in DOMAIN q : Removes(q) = 1..c /\ Removal(q, c)
  <2>1. 1 \in Removes(q)
    BY <1>1 DEF Removes
  <2> QED
    BY <2>1 DEF OneRemoval
<1>3. c = 1
  <2> SUFFICES ASSUME 1 \in 1..c-1 PROVE FALSE
    BY <1>1
  <2>1. q[1] = [op |-> "reject", host |-> q[c].seen[Len(q[c].seen) + 1 - c + 1]]
    BY <1>2 DEF Removal
  <2>2. q[1].op = "reject"
    BY <2>1
  <2> QED
    BY <2>2
<1>4. q[1].seen \in Seq(Hosts)
  BY <1>1, ElementOfSeq, WorkFacts
<1>5. ASSUME NEW h PROVE HalfRemoved(q, h) = Cardinality(At(q[1].seen, h))
  <2>1. HalfRemoved(q, h) = Cardinality({j \in 1..Len(q[1].seen) + 1 - 1 : q[1].seen[j] = h})
    BY <1>2, <1>3, HalfRemovedIs
  <2>2. Len(q[1].seen) + 1 - 1 = Len(q[1].seen) /\ DOMAIN q[1].seen = 1..Len(q[1].seen)
    BY <1>4, LenProperties
  <2> QED
    BY <2>1, <2>2 DEF At
<1>6. Removes(n) = {}
  <2>1. <<>> \in Seq(Work) /\ Len(<<>>) = 0
    BY EmptySeq
  <2>2. /\ DOMAIN n = 1..Len(n) /\ Len(n) = 0 + Len(q) - 1
        /\ \A k \in 0+1..Len(n) : k - 0 + 1 \in 2..Len(q) /\ n[k] = q[k - 0 + 1]
    BY <2>1, CallsSeq
  <2>3. ASSUME NEW k \in DOMAIN n PROVE n[k].op \notin {"reject", "clear"}
    <3>1. k + 1 \in DOMAIN q /\ k + 1 \notin 1..1 /\ n[k] = q[k + 1]
      BY <1>1, <2>2
    <3> QED
      BY <1>2, <1>3, <3>1 DEF Removes
  <2> QED
    BY <2>3 DEF Removes
<1> QED
  BY <1>4, <1>5, <1>6, NotHalfRemoved DEF OneRemoval

-----------------------------------------------------------------------------
(* What a step leaves of the invariant.                                    *)

\* The thread that has something to do.
LEMMA ItFacts ==
  ASSUME FirewallInv, NEW t \in Threads, todo[t] # <<>>
  PROVE  /\ todo[t] \in Seq(Work) /\ OneRemoval(todo[t])
         /\ 1 \in DOMAIN todo[t] /\ It(t) = todo[t][1] /\ It(t) \in Work
<1>1. todo[t] \in Seq(Work) /\ OneRemoval(todo[t])
  BY DEF FirewallInv, TypeOK
<1>2. Len(todo[t]) \in Nat \ {0} /\ DOMAIN todo[t] = 1..Len(todo[t])
  BY <1>1, LenProperties, EmptySeq
<1>3. 1 \in DOMAIN todo[t]
  BY <1>2
<1>4. It(t) = todo[t][1]
  BY <1>1 DEF It
<1> QED
  BY <1>1, <1>3, <1>4, <1>2, ElementOfSeq

\* What it has to do next, and that the others go on where they were.
LEMMA CallsFacts ==
  ASSUME FirewallInv, NEW t \in Threads, todo[t] # <<>>, NEW ws \in Seq(Work), Calls(t, ws)
  PROVE  /\ todo' \in [Threads -> Seq(Work)]
         /\ todo'[t] = ws \o Tail(todo[t])
         /\ \A u \in Threads : u # t => todo'[u] = todo[u]
<1>1. todo \in [Threads -> Seq(Work)] /\ todo[t] \in Seq(Work)
  BY DEF FirewallInv, TypeOK
<1>2. todo' = [todo EXCEPT ![t] = ws \o Tail(todo[t])]
  BY DEF Calls
<1>3. ws \o Tail(todo[t]) \in Seq(Work)
  BY <1>1, CallsSeq
<1> HIDE DEF Calls
<1> QED
  BY <1>1, <1>2, <1>3

\* Who uses what updateCache shares, in terms of what is left to do.
LEMMA UsesFacts ==
  /\ \A t \in Threads : t # "cache" => Uses(t) = ~NoOp(todo[t], {"start"})
  /\ \A t \in Threads : t # "cache" => Uses(t)' = ~NoOp(todo'[t], {"start"})
  /\ Uses("cache") = (todo["cache"] # <<>>)
  /\ Uses("cache")' = (todo'["cache"] # <<>>)
BY DEF Uses, Updates, NoOp, Idle

\* No thread comes to use it that did not.
LEMMA OwnerKept ==
  ASSUME FirewallInv, UNCHANGED shared, \A t \in Threads : Uses(t)' => Uses(t)
  PROVE  CacheHasOneOwner'
<1>1. CacheHasOneOwner
  BY DEF FirewallInv
<1> HIDE DEF Uses
<1> QED
  BY <1>1 DEF CacheHasOneOwner

\* The operations that are not of the list.
CacheOps == {"addDomain", "addLink", "fetch", "reply", "updateCache", "start"}

\* An operation of the list, that calls operations of the list only, leaves the
\* rest as it is.
LEMMA LocalCalls ==
  ASSUME FirewallInv, NEW t \in Threads, todo[t] # <<>>, NEW ws \in Seq(Work), Calls(t, ws),
         NoOp(ws, CacheOps), UNCHANGED cache
  PROVE  Lanes' /\ NoJobYet' /\ CacheHasOneOwner'
<1>1. /\ todo[t] \in Seq(Work) /\ todo'[t] = ws \o Tail(todo[t])
      /\ \A u \in Threads : u # t => todo'[u] = todo[u]
  BY CallsFacts, ItFacts
<1>2. \A ops : NoOp(todo[t], ops) /\ ops \subseteq CacheOps => NoOp(todo'[t], ops)
  <2> SUFFICES ASSUME NEW ops, NoOp(todo[t], ops), ops \subseteq CacheOps
               PROVE  NoOp(todo'[t], ops)
    OBVIOUS
  <2>1. NoOp(ws, ops)
    BY DEF NoOp
  <2> QED
    BY <1>1, <2>1, NoOpCalls
<1>3. LastOnly(todo[t]) => LastOnly(todo'[t])
  <2>1. NoOp(ws, {"updateCache", "start"})
    BY DEF NoOp, CacheOps
  <2> QED
    BY <1>1, <2>1, LastOnlyCalls
<1>4. t \in {"main", "kernel", "xorg", "cache"} /\ Threads = {"main", "kernel", "xorg", "cache"}
  BY DEF Threads
<1>5. /\ \A u \in Threads : \A ops :
           NoOp(todo[u], ops) /\ ops \subseteq CacheOps => NoOp(todo'[u], ops)
      /\ \A u \in Threads : LastOnly(todo[u]) => LastOnly(todo'[u])
      /\ todo["cache"] = <<>> => todo'["cache"] = <<>>
  BY <1>1, <1>2, <1>3, <1>4
<1>6. /\ {"addLink"} \subseteq CacheOps /\ {"start"} \subseteq CacheOps
      /\ {"fetch", "reply"} \subseteq CacheOps /\ {"updateCache", "start"} \subseteq CacheOps
      /\ CacheOps = {"addDomain", "addLink", "fetch", "reply", "updateCache", "start"}
  BY DEF CacheOps
<1> HIDE DEF CacheOps
<1>7. Lanes'
  <2>1. Lanes
    BY DEF FirewallInv
  <2> QED
    BY <1>4, <1>5, <1>6, <2>1 DEF Lanes
<1>8. NoJobYet'
  <2>1. NoJobYet
    BY DEF FirewallInv
  <2> QED
    BY <1>4, <1>5, <1>6, <2>1 DEF NoJobYet, Idle, cache
<1>9. CacheHasOneOwner'
  <2>1. \A u \in Threads : Uses(u)' => Uses(u)
    BY <1>5, <1>6, UsesFacts
  <2>2. UNCHANGED shared
    BY DEF cache
  <2> QED
    BY <2>1, <2>2, OwnerKept
<1> QED
  BY <1>7, <1>8, <1>9

\* How much is half removed is a number.
LEMMA HalfRemovedNat ==
  ASSUME NEW q \in Seq(Work), OneRemoval(q), NEW h
  PROVE  HalfRemoved(q, h) \in Nat
<1>1. CASE Removes(q) = {}
  BY <1>1, NotHalfRemoved
<1>2. CASE Removes(q) # {}
  <2>1. PICK c \in DOMAIN q : Removes(q) = 1..c /\ Removal(q, c)
    BY <1>2 DEF OneRemoval
  <2>2. q[c] \in Work /\ q[c].op = "clear" /\ c \in Nat
    BY <2>1, ElementOfSeq, LenProperties DEF Removal
  <2>3. q[c].seen \in Seq(Hosts)
    BY <2>2, WorkFacts
  <2> DEFINE e == Len(q[c].seen) + 1 - c
  <2>4. e \in Int
    BY <2>2, <2>3, LenProperties
  <2>5. HalfRemoved(q, h) = Cardinality({j \in 1..e : q[c].seen[j] = h})
    BY <2>1, HalfRemovedIs
  <2> HIDE DEF e
  <2>6. IsFiniteSet(1..e)
    BY <2>4, FS_Interval
  <2>7. IsFiniteSet({j \in 1..e : q[c].seen[j] = h})
    BY <2>6, FS_Subset
  <2> QED
    BY <2>5, <2>7, FS_CardinalityType
<1> QED
  BY <1>1, <1>2

\* How much of h the threads have half removed.
Halves(f, h) ==
  HalfRemoved(f["main"], h) + HalfRemoved(f["kernel"], h) + HalfRemoved(f["xorg"], h)
    + HalfRemoved(f["cache"], h)

\* What is counted for h, and the balance of it.
LEMMA BalanceFacts ==
  ASSUME FirewallInv, NEW h \in Hosts
  PROVE  /\ Listed(h) \in Nat /\ iptables[h] \in Nat /\ astray[h] \in Int
         /\ running["insert"][h] \in Nat /\ running["delete"][h] \in Nat
         /\ \A u \in Threads : HalfRemoved(todo[u], h) \in Nat
         /\ Halves(todo, h) \in Nat
         /\ iptables[h] + running["insert"][h] + Halves(todo, h)
              = Listed(h) + running["delete"][h] + astray[h]
<1>1. /\ iptables[h] \in Nat /\ running["insert"][h] \in Nat /\ running["delete"][h] \in Nat
      /\ astray[h] \in Int
      /\ \A u \in Threads : todo[u] \in Seq(Work) /\ OneRemoval(todo[u])
      /\ IsFiniteSet(Places(h)) /\ Balanced
  BY DEF FirewallInv, TypeOK, Commands
<1>2. Listed(h) \in Nat
  BY <1>1, FS_CardinalityType DEF Listed
<1>3. \A u \in Threads : HalfRemoved(todo[u], h) \in Nat
  BY <1>1, HalfRemovedNat
<1>4. /\ HalfRemoved(todo["main"], h) \in Nat /\ HalfRemoved(todo["kernel"], h) \in Nat
      /\ HalfRemoved(todo["xorg"], h) \in Nat /\ HalfRemoved(todo["cache"], h) \in Nat
  BY <1>3 DEF Threads
<1>5. iptables[h] + running["insert"][h] + HalfRemoved(todo["main"], h)
        + HalfRemoved(todo["kernel"], h) + HalfRemoved(todo["xorg"], h)
        + HalfRemoved(todo["cache"], h)
        = Listed(h) + running["delete"][h] + astray[h]
  BY <1>1 DEF Balanced
<1>6. Halves(todo, h) \in Nat
  BY ONLY <1>4 DEF Halves
<1>7. iptables[h] + running["insert"][h] + Halves(todo, h)
        = Listed(h) + running["delete"][h] + astray[h]
  <2> DEFINE i == iptables[h] + running["insert"][h]
             j == Listed(h) + running["delete"][h] + astray[h]
             a == HalfRemoved(todo["main"], h)
             b == HalfRemoved(todo["kernel"], h)
             c == HalfRemoved(todo["xorg"], h)
             d == HalfRemoved(todo["cache"], h)
  <2>1. i \in Nat /\ a \in Nat /\ b \in Nat /\ c \in Nat /\ d \in Nat
    BY ONLY <1>1, <1>4
  <2>2. i + a + b + c + d = j /\ Halves(todo, h) = a + b + c + d
    BY ONLY <1>5 DEF Halves
  <2> HIDE DEF i, j, a, b, c, d
  <2>3. i + Halves(todo, h) = j
    BY ONLY <2>1, <2>2
  <2> QED
    BY ONLY <2>3 DEF i, j
<1> QED
  BY <1>1, <1>2, <1>3, <1>6, <1>7

\* The balance of h changes as much on either side when thread t goes on.
Moves(t, h) ==
  /\ Listed(h)' \in Nat /\ iptables'[h] \in Nat /\ astray'[h] \in Int
  /\ running'["insert"][h] \in Nat /\ running'["delete"][h] \in Nat
  /\ HalfRemoved(todo'[t], h) \in Nat
  /\ iptables'[h] + running'["insert"][h] + HalfRemoved(todo'[t], h)
       + Listed(h) + running["delete"][h] + astray[h]
       = iptables[h] + running["insert"][h] + HalfRemoved(todo[t], h)
           + Listed(h)' + running'["delete"][h] + astray'[h]

\* What only thread t changes.
LEMMA Shift ==
  ASSUME FirewallInv, NEW t \in Threads, NEW h \in Hosts,
         \A u \in Threads : u # t => todo'[u] = todo[u], HalfRemoved(todo'[t], h) \in Nat
  PROVE  /\ Halves(todo', h) + HalfRemoved(todo[t], h)
              = Halves(todo, h) + HalfRemoved(todo'[t], h)
         /\ Halves(todo', h) \in Nat
         /\ HalfRemoved(todo'["main"], h) \in Nat /\ HalfRemoved(todo'["kernel"], h) \in Nat
         /\ HalfRemoved(todo'["xorg"], h) \in Nat /\ HalfRemoved(todo'["cache"], h) \in Nat
<1>1. Threads = {"main", "kernel", "xorg", "cache"}
  BY DEF Threads
<1>2. \A u \in Threads : HalfRemoved(todo[u], h) \in Nat /\ HalfRemoved(todo'[u], h) \in Nat
  BY BalanceFacts
<1>3. /\ HalfRemoved(todo["main"], h) \in Nat /\ HalfRemoved(todo'["main"], h) \in Nat
      /\ HalfRemoved(todo["kernel"], h) \in Nat /\ HalfRemoved(todo'["kernel"], h) \in Nat
      /\ HalfRemoved(todo["xorg"], h) \in Nat /\ HalfRemoved(todo'["xorg"], h) \in Nat
      /\ HalfRemoved(todo["cache"], h) \in Nat /\ HalfRemoved(todo'["cache"], h) \in Nat
  BY <1>1, <1>2
<1>4. \A u \in Threads : u # t => HalfRemoved(todo'[u], h) = HalfRemoved(todo[u], h)
  OBVIOUS
<1>5. Halves(todo', h) + HalfRemoved(todo[t], h) = Halves(todo, h) + HalfRemoved(todo'[t], h)
  <2>1. CASE t = "main"
    BY <1>1, <1>3, <1>4, <2>1 DEF Halves
  <2>2. CASE t = "kernel"
    BY <1>1, <1>3, <1>4, <2>2 DEF Halves
  <2>3. CASE t = "xorg"
    BY <1>1, <1>3, <1>4, <2>3 DEF Halves
  <2>4. CASE t = "cache"
    BY <1>1, <1>3, <1>4, <2>4 DEF Halves
  <2> QED
    BY <1>1, <2>1, <2>2, <2>3, <2>4
<1>6. Halves(todo', h) \in Nat
  BY ONLY <1>3 DEF Halves
<1> QED
  BY <1>3, <1>5, <1>6

\* The balance is kept by a step of t that adds as much on either side.
LEMMA Rebalanced ==
  ASSUME FirewallInv, NEW t \in Threads, \A u \in Threads : u # t => todo'[u] = todo[u],
         \A h \in Hosts : Moves(t, h)
  PROVE  Balanced'
<1> SUFFICES ASSUME NEW h \in Hosts
             PROVE  iptables'[h] + running'["insert"][h] + HalfRemoved(todo'["main"], h)
                        + HalfRemoved(todo'["kernel"], h) + HalfRemoved(todo'["xorg"], h)
                        + HalfRemoved(todo'["cache"], h)
                      = Listed(h)' + running'["delete"][h] + astray'[h]
  BY DEF Balanced
<1> DEFINE i == iptables[h]
           r == running["insert"][h]
           d == running["delete"][h]
           l == Listed(h)
           a == astray[h]
           x == HalfRemoved(todo[t], h)
           s == Halves(todo, h)
           i2 == iptables'[h]
           r2 == running'["insert"][h]
           d2 == running'["delete"][h]
           l2 == Listed(h)'
           a2 == astray'[h]
           x2 == HalfRemoved(todo'[t], h)
           s2 == Halves(todo', h)
<1>1. /\ l \in Nat /\ i \in Nat /\ a \in Int /\ r \in Nat /\ d \in Nat /\ x \in Nat /\ s \in Nat
      /\ i + r + s = l + d + a
  BY BalanceFacts
<1>2. /\ l2 \in Nat /\ i2 \in Nat /\ a2 \in Int /\ r2 \in Nat /\ d2 \in Nat /\ x2 \in Nat
      /\ i2 + r2 + x2 + l + d + a = i + r + x + l2 + d2 + a2
  BY DEF Moves
<1>3. /\ s2 + x = s + x2 /\ s2 \in Nat
      /\ HalfRemoved(todo'["main"], h) \in Nat /\ HalfRemoved(todo'["kernel"], h) \in Nat
      /\ HalfRemoved(todo'["xorg"], h) \in Nat /\ HalfRemoved(todo'["cache"], h) \in Nat
  BY <1>2, Shift
<1>4. s2 = HalfRemoved(todo'["main"], h) + HalfRemoved(todo'["kernel"], h)
             + HalfRemoved(todo'["xorg"], h) + HalfRemoved(todo'["cache"], h)
  BY DEF Halves
<1> HIDE DEF i, r, d, l, a, x, s, i2, r2, d2, l2, a2, x2, s2
<1>5. i2 + r2 + s2 = l2 + d2 + a2
  BY ONLY <1>1, <1>2, <1>3
<1>6. i2 + r2 + HalfRemoved(todo'["main"], h) + HalfRemoved(todo'["kernel"], h)
        + HalfRemoved(todo'["xorg"], h) + HalfRemoved(todo'["cache"], h) = l2 + d2 + a2
  BY ONLY <1>2, <1>3, <1>4, <1>5
<1> QED
  BY <1>6 DEF i2, r2, l2, d2, a2

\* A step that changes neither how often a rule is listed nor the commands nor what
\* is half removed.
LEMMA QuietStep ==
  ASSUME FirewallInv,
         \A u \in Threads, h \in Hosts : HalfRemoved(todo'[u], h) = HalfRemoved(todo[u], h),
         \A h \in Hosts : Listed(h)' = Listed(h),
         UNCHANGED <<running, iptables, astray>>
  PROVE  Balanced'
<1>1. Balanced
  BY DEF FirewallInv
<1>2. "main" \in Threads /\ "kernel" \in Threads /\ "xorg" \in Threads /\ "cache" \in Threads
  BY DEF Threads
<1> QED
  BY <1>1, <1>2 DEF Balanced

\* The lists are the same, and so is where each rule is.
LEMMA SameLists ==
  ASSUME FirewallInv, UNCHANGED rules
  PROVE  /\ DOMAIN rules' \subseteq Users /\ \A a \in DOMAIN rules' : rules'[a] \in Seq(Hosts)
         /\ IsFiniteSet(DOMAIN rules') /\ \A h \in Hosts : IsFiniteSet(Places(h)')
         /\ \A h \in Hosts : Listed(h)' = Listed(h)
<1>1. \A h \in Hosts : Places(h)' = Places(h)
  BY DEF Places
<1> QED
  BY <1>1 DEF FirewallInv, TypeOK, Listed

\* A list is replaced: the places of the old one go, those of the new one come.
LEMMA ChangedList ==
  ASSUME FirewallInv, NEW a \in Users, NEW s \in Seq(Hosts), rules' = With(a, s)
  PROVE  /\ DOMAIN rules' \subseteq Users /\ \A b \in DOMAIN rules' : rules'[b] \in Seq(Hosts)
         /\ IsFiniteSet(DOMAIN rules') /\ \A h \in Hosts : IsFiniteSet(Places(h)')
         /\ RulesOf(a) \in Seq(Hosts)
         /\ \A h \in Hosts :
              /\ Listed(h) \in Nat /\ Listed(h)' \in Nat
              /\ Listed(h)' + Cardinality(At(RulesOf(a), h)) = Listed(h) + Cardinality(At(s, h))
<1>1. /\ \A b \in DOMAIN rules : rules[b] \in Seq(Hosts)
      /\ DOMAIN rules \subseteq Users /\ IsFiniteSet(DOMAIN rules)
      /\ \A h \in Hosts : IsFiniteSet(Places(h))
  BY DEF FirewallInv, TypeOK
<1>2. rules' = Replaced(rules, a, s) /\ RulesOf(a) = ListIn(rules, a)
  BY DEF With, Replaced, RulesOf, ListIn
<1>3. /\ DOMAIN rules' = DOMAIN rules \cup {a} /\ RulesOf(a) \in Seq(Hosts)
      /\ \A b \in DOMAIN rules' : rules'[b] \in Seq(Hosts)
  <2>1. /\ DOMAIN Replaced(rules, a, s) = DOMAIN rules \cup {a}
        /\ \A b \in DOMAIN Replaced(rules, a, s) : Replaced(rules, a, s)[b] \in Seq(Hosts)
        /\ ListIn(rules, a) \in Seq(Hosts)
    BY ONLY <1>1, s \in Seq(Hosts), ReplacedFacts
  <2> QED
    BY <1>2, <2>1
<1>4. IsFiniteSet(DOMAIN rules \cup {a})
  BY ONLY <1>1, FS_AddElement
<1>5. ASSUME NEW h \in Hosts
      PROVE  /\ IsFiniteSet(Places(h)')
             /\ Listed(h) \in Nat /\ Listed(h)' \in Nat
             /\ Listed(h)' + Cardinality(At(RulesOf(a), h)) = Listed(h) + Cardinality(At(s, h))
  <2>1. Places(h) = PlacesIn(rules, h) /\ Places(h)' = PlacesIn(Replaced(rules, a, s), h)
    BY <1>1, <1>2, <1>3, PlacesNow, PlacesNext
  <2>2. IsFiniteSet(PlacesIn(rules, h))
    BY <1>1, <2>1
  <2>3. /\ IsFiniteSet(PlacesIn(Replaced(rules, a, s), h))
        /\ Cardinality(PlacesIn(Replaced(rules, a, s), h)) + Cardinality(At(ListIn(rules, a), h))
             = Cardinality(PlacesIn(rules, h)) + Cardinality(At(s, h))
        /\ Cardinality(PlacesIn(rules, h)) \in Nat
        /\ Cardinality(PlacesIn(Replaced(rules, a, s), h)) \in Nat
    BY <1>1, <2>2, ReplacedCount
  <2>4. /\ Listed(h) = Cardinality(PlacesIn(rules, h))
        /\ Listed(h)' = Cardinality(PlacesIn(Replaced(rules, a, s), h))
    BY <2>1 DEF Listed
  <2> QED
    BY <1>2, <2>1, <2>3, <2>4
<1> QED
  BY <1>1, <1>3, <1>4, <1>5

\* An operation that removes nothing and calls no deletion leaves the removals of
\* all threads as they are.
LEMMA NoDeletionCalled ==
  ASSUME FirewallInv, NEW t \in Threads, todo[t] # <<>>, It(t).op \notin {"reject", "clear"},
         NEW ws \in Seq(Work), Calls(t, ws), NoOp(ws, {"reject", "clear"})
  PROVE  /\ \A u \in Threads : OneRemoval(todo'[u])
         /\ \A u \in Threads, h \in Hosts : HalfRemoved(todo'[u], h) = HalfRemoved(todo[u], h)
<1>1. /\ todo[t] \in Seq(Work) /\ OneRemoval(todo[t]) /\ todo[t][1].op \notin {"reject", "clear"}
  BY ItFacts
<1>2. todo'[t] = ws \o Tail(todo[t]) /\ \A u \in Threads : u # t => todo'[u] = todo[u]
  BY CallsFacts
<1>3. OneRemoval(todo'[t]) /\ \A h : HalfRemoved(todo'[t], h) = 0 /\ HalfRemoved(todo[t], h) = 0
  BY <1>1, <1>2, OtherCalls
<1>4. \A u \in Threads : OneRemoval(todo[u])
  BY DEF FirewallInv
<1> QED
  BY <1>2, <1>3, <1>4

\* An operation of the list that only calls other operations on it that delete
\* nothing, and changes no list but for one it adds without rules.
LEMMA QuietCalls ==
  ASSUME FirewallInv, NEW t \in Threads, todo[t] # <<>>, It(t).op \notin {"reject", "clear"},
         NEW ws \in Seq(Work), Calls(t, ws),
         \A ops : ops \cap {"removeAppRules", "addRule", "push"} = {} => NoOp(ws, ops),
         DOMAIN rules' \subseteq Users, \A a \in DOMAIN rules' : rules'[a] \in Seq(Hosts),
         IsFiniteSet(DOMAIN rules'), \A h \in Hosts : IsFiniteSet(Places(h)'),
         \A h \in Hosts : Listed(h)' = Listed(h),
         UNCHANGED <<options, events, cache, commands>>
  PROVE  FirewallInv'
<1>1. NoOp(ws, CacheOps) /\ NoOp(ws, {"reject", "clear"})
  <2>1. /\ CacheOps \cap {"removeAppRules", "addRule", "push"} = {}
        /\ {"reject", "clear"} \cap {"removeAppRules", "addRule", "push"} = {}
    BY DEF CacheOps
  <2> QED
    BY <2>1
<1>2. UNCHANGED <<options, events, domainCache, job, shared, running, iptables, failures, astray>>
  BY DEF cache, commands
<1>3. /\ \A u \in Threads : OneRemoval(todo'[u])
      /\ \A u \in Threads, h \in Hosts : HalfRemoved(todo'[u], h) = HalfRemoved(todo[u], h)
  BY <1>1, NoDeletionCalled
<1>4. Balanced'
  BY <1>2, <1>3, QuietStep
<1>5. Lanes' /\ NoJobYet' /\ CacheHasOneOwner'
  BY <1>1, LocalCalls
<1>6. TypeOK'
  <2>1. TypeOK
    BY DEF FirewallInv
  <2>2. todo' \in [Threads -> Seq(Work)]
    BY CallsFacts
  <2> QED
    BY <1>2, <2>1, <2>2 DEF TypeOK
<1> QED
  BY <1>3, <1>4, <1>5, <1>6 DEF FirewallInv

-----------------------------------------------------------------------------
(* The operations of the list keep the invariant.                          *)

\* RuleList::removeAll calls removeAppRules for each application.
LEMMA RemoveAllStep ==
  ASSUME FirewallInv, NEW t \in Threads, removeAll(t)
  PROVE  FirewallInv'
<1> DEFINE d == SetToSeq(DOMAIN rules)
           ws == [k \in DOMAIN d |-> [op |-> "removeAppRules", app |-> d[k]]]
<1>1. todo[t] # <<>> /\ It(t).op \notin {"reject", "clear"}
  BY DEF removeAll, Does, It
<1>2. Calls(t, ws) /\ UNCHANGED <<lists, cache, commands>>
  BY DEF removeAll, Each
<1>3. d \in Seq(Users)
  <2>1. IsFiniteSet(DOMAIN rules) /\ DOMAIN rules \subseteq Users
    BY DEF FirewallInv, TypeOK
  <2>2. d \in Seq(DOMAIN rules)
    BY <2>1, SetToSeqType
  <2> HIDE DEF d
  <2> QED
    BY <2>1, <2>2
<1> HIDE DEF d
<1>4. Len(d) \in Nat /\ DOMAIN d = 1..Len(d) /\ \A k \in 1..Len(d) : d[k] \in Users
  BY <1>3, LenProperties, ElementOfSeq
<1>5. \A k \in 1..Len(d) : [op |-> "removeAppRules", app |-> d[k]] \in Work
  BY <1>4 DEF Work
<1>6. ws \in [1..Len(d) -> Work] /\ DOMAIN ws = 1..Len(d)
  BY <1>4, <1>5
<1>7. ws \in Seq(Work)
  BY <1>4, <1>6, SeqOfFunction
<1>8. \A ops : ops \cap {"removeAppRules", "addRule", "push"} = {} => NoOp(ws, ops)
  BY DEF NoOp
<1> HIDE DEF ws
<1>9. UNCHANGED rules /\ UNCHANGED <<options, events, cache, commands>>
  BY <1>2 DEF lists
<1> QED
  BY <1>1, <1>2, <1>7, <1>8, <1>9, SameLists, QuietCalls

\* RuleList::addRule has a rule to push, or the host has one already.
LEMMA AddRuleStep ==
  ASSUME FirewallInv, NEW t \in Threads, addRule(t)
  PROVE  FirewallInv'
<1> DEFINE w == [op |-> "push", app |-> It(t).app, host |-> It(t).host]
           ws == IF IPTableRuleExists(It(t).host) THEN <<>> ELSE <<w>>
<1>1. todo[t] # <<>> /\ It(t).op = "addRule"
  BY DEF addRule, Does, It
<1>2. Calls(t, ws) /\ UNCHANGED <<lists, cache, commands>>
  BY DEF addRule
<1>3. It(t).app \in Users /\ It(t).host \in Hosts
  BY <1>1, ItFacts, WorkFacts
<1>4. w \in Work /\ w.op = "push"
  BY <1>3 DEF Work
<1> HIDE DEF w
<1>5. /\ ws \in Seq(Work)
      /\ \A ops : ops \cap {"removeAppRules", "addRule", "push"} = {} => NoOp(ws, ops)
  BY <1>4 DEF NoOp
<1> HIDE DEF ws
<1>6. UNCHANGED rules /\ UNCHANGED <<options, events, cache, commands>>
  BY <1>2 DEF lists
<1> QED
  BY <1>1, <1>2, <1>5, <1>6, SameLists, QuietCalls

\* RuleList::removeAppRules begins a removal: the rules of the list as it is now
\* are to be deleted, and then the list is to be cleared.
LEMMA RemoveAppRulesStep ==
  ASSUME FirewallInv, NEW t \in Threads, removeAppRules(t)
  PROVE  FirewallInv'
<1> DEFINE a == It(t).app
           s == RulesOf(a)
           ws == Deletions(a, s)
<1>1. todo[t] # <<>> /\ It(t).op = "removeAppRules"
  BY DEF removeAppRules, Does, It
<1>2. Calls(t, ws) /\ UNCHANGED <<lists, cache, commands>>
  BY DEF removeAppRules, Each, Deletions
<1>3. /\ todo[t] \in Seq(Work) /\ OneRemoval(todo[t])
      /\ todo[t][1].op \notin {"reject", "clear"} /\ a \in Users
  BY <1>1, ItFacts, WorkFacts
<1>4. s \in Seq(Hosts)
  BY EmptySeq DEF RulesOf, FirewallInv, TypeOK
<1> HIDE DEF a, s
<1> DEFINE n == ws \o Tail(todo[t])
<1>5. /\ ws \in Seq(Work) /\ \A k \in DOMAIN ws : ws[k].op \in {"reject", "clear"}
      /\ OneRemoval(n)
      /\ \A h : HalfRemoved(n, h) = 0 /\ HalfRemoved(todo[t], h) = 0
  BY <1>1, <1>3, <1>4, BeginRemoval
<1> HIDE DEF ws
<1>6. /\ todo' \in [Threads -> Seq(Work)] /\ todo'[t] = n
      /\ \A u \in Threads : u # t => todo'[u] = todo[u]
  BY <1>1, <1>2, <1>5, CallsFacts
<1> HIDE DEF n
<1>7. UNCHANGED <<rules, options, events, domainCache, job, shared, running, iptables, failures,
                astray>>
  BY <1>2 DEF lists, cache, commands
<1>8. /\ \A u \in Threads : OneRemoval(todo'[u])
      /\ \A u \in Threads, h \in Hosts : HalfRemoved(todo'[u], h) = HalfRemoved(todo[u], h)
  BY <1>5, <1>6 DEF FirewallInv
<1>9. Balanced'
  BY <1>7, <1>8, SameLists, QuietStep
<1>10. Lanes' /\ NoJobYet' /\ CacheHasOneOwner'
  <2>1. NoOp(ws, CacheOps)
    BY <1>5 DEF NoOp, CacheOps
  <2> QED
    BY <1>1, <1>2, <1>5, <2>1, LocalCalls
<1>11. /\ DOMAIN rules' \subseteq Users /\ \A b \in DOMAIN rules' : rules'[b] \in Seq(Hosts)
       /\ IsFiniteSet(DOMAIN rules') /\ \A h \in Hosts : IsFiniteSet(Places(h)')
  BY <1>7, SameLists
<1>12. TypeOK'
  <2>1. TypeOK
    BY DEF FirewallInv
  <2> QED
    BY <1>6, <1>7, <1>11, <2>1 DEF TypeOK
<1> QED
  BY <1>8, <1>9, <1>10, <1>11, <1>12 DEF FirewallInv

\* The common part of an operation that calls nothing.
LEMMA CallsNothing ==
  ASSUME FirewallInv, NEW t \in Threads, todo[t] # <<>>, Calls(t, <<>>), UNCHANGED cache
  PROVE  /\ todo' \in [Threads -> Seq(Work)] /\ todo'[t] = <<>> \o Tail(todo[t])
         /\ \A u \in Threads : u # t => todo'[u] = todo[u]
         /\ Lanes' /\ NoJobYet' /\ CacheHasOneOwner'
<1>1. <<>> \in Seq(Work) /\ NoOp(<<>>, CacheOps)
  BY EmptySeq DEF NoOp
<1> QED
  BY <1>1, CallsFacts, LocalCalls

\* The cache thread or a static allow adds a domain: the list may be full first.
LEMMA AddDomainStep ==
  ASSUME FirewallInv, NEW t \in Threads, NEW resolved \in BOOLEAN, addDomain(t, resolved)
  PROVE  FirewallInv'
<1> DEFINE a == It(t).app
           one == RulesOf(a) # <<>> /\ options.max = 1
           rm == [op |-> "removeAppRules", app |-> a]
           ad == [op |-> "addRule", app |-> a, host |-> It(t).host]
           x == IF one THEN <<rm>> ELSE <<>>
           y == IF resolved THEN <<ad>> ELSE <<>>
           ok(q) == \A ops : ops \cap {"removeAppRules", "addRule", "push"} = {} => NoOp(q, ops)
<1>1. /\ todo[t] # <<>> /\ It(t).op = "addDomain"
      /\ UNCHANGED <<options, events, cache, commands>>
  BY DEF addDomain, Does, It
<1>2. \/ UNCHANGED rules /\ Calls(t, <<>>)
      \/ rules' = With(a, RulesOf(a)) /\ Calls(t, x \o y)
  BY DEF addDomain
<1>3. a \in Users /\ It(t).host \in Hosts
  BY <1>1, ItFacts, WorkFacts DEF Users
<1>4. rm \in Work /\ rm.op = "removeAppRules" /\ ad \in Work /\ ad.op = "addRule"
  BY <1>3 DEF Work
<1> HIDE DEF a, one, rm, ad
<1>5. x \in Seq(Work) /\ ok(x) /\ y \in Seq(Work) /\ ok(y) /\ <<>> \in Seq(Work) /\ ok(<<>>)
  BY <1>4, EmptySeq DEF NoOp
<1> HIDE DEF x, y
<1>6. x \o y \in Seq(Work) /\ ok(x \o y)
  BY <1>5, ConcatCalls
<1>7. CASE UNCHANGED rules /\ Calls(t, <<>>)
  BY <1>1, <1>5, <1>7, SameLists, QuietCalls
<1>8. CASE rules' = With(a, RulesOf(a)) /\ Calls(t, x \o y)
  <2>1. RulesOf(a) \in Seq(Hosts)
    BY EmptySeq DEF RulesOf, FirewallInv, TypeOK
  <2>2. /\ DOMAIN rules' \subseteq Users /\ \A b \in DOMAIN rules' : rules'[b] \in Seq(Hosts)
        /\ IsFiniteSet(DOMAIN rules') /\ \A h \in Hosts : IsFiniteSet(Places(h)')
        /\ \A h \in Hosts :
             /\ Listed(h) \in Nat /\ Listed(h)' \in Nat
             /\ Listed(h)' + Cardinality(At(RulesOf(a), h))
                  = Listed(h) + Cardinality(At(RulesOf(a), h))
    BY <1>3, <1>8, <2>1, ChangedList
  <2>3. \A h \in Hosts : Cardinality(At(RulesOf(a), h)) \in Nat
    BY <2>1, AtFacts
  <2>4. \A h \in Hosts : Listed(h)' = Listed(h)
    BY <2>2, <2>3
  <2> QED
    BY <1>1, <1>6, <1>8, <2>2, <2>4, QuietCalls
<1> QED
  BY <1>2, <1>7, <1>8

\* How often a command fails is counted.
LEMMA SucceedsFacts ==
  ASSUME FirewallInv, NEW ok \in BOOLEAN, Succeeds(ok)
  PROVE  failures' \in 0..MaxFailures
BY BoundsType DEF Succeeds, FirewallInv, TypeOK

\* A lost command leaves one rule too many or too few.
LEMMA LostFacts ==
  ASSUME FirewallInv, NEW c \in Commands, NEW g \in Hosts, astray' = Lost(c, g)
  PROVE  /\ astray' \in [Hosts -> Int]
         /\ \A h \in Hosts :
              /\ c = "insert" => astray'[h] = astray[h] - IF g = h THEN 1 ELSE 0
              /\ c = "delete" => astray'[h] = astray[h] + IF g = h THEN 1 ELSE 0
BY DEF Lost, Commands, FirewallInv, TypeOK

\* A command is on its way, or lost.
LEMMA ExecFacts ==
  ASSUME FirewallInv, NEW c \in Commands, NEW g \in Hosts, NEW starts \in BOOLEAN,
         Exec(c, g, starts)
  PROVE  /\ running' \in [Commands -> [Hosts -> Nat]] /\ astray' \in [Hosts -> Int]
         /\ failures' \in 0..MaxFailures /\ iptables' = iptables
         /\ \A h \in Hosts :
              /\ c = "delete" =>
                   /\ running'["insert"][h] = running["insert"][h]
                   /\ running'["delete"][h] + astray'[h]
                        = running["delete"][h] + astray[h] + IF g = h THEN 1 ELSE 0
              /\ c = "insert" =>
                   /\ running'["delete"][h] = running["delete"][h]
                   /\ running'["insert"][h] - astray'[h]
                        = running["insert"][h] - astray[h] + IF g = h THEN 1 ELSE 0
<1>1. /\ running \in [Commands -> [Hosts -> Nat]] /\ astray \in [Hosts -> Int]
      /\ Commands = {"insert", "delete"}
  BY DEF FirewallInv, TypeOK, Commands
<1>2. failures' \in 0..MaxFailures /\ iptables' = iptables
  BY SucceedsFacts DEF Exec
<1>3. CASE starts
  <2>1. running' = [running EXCEPT ![c][g] = @ + 1] /\ astray' = astray
    BY <1>3 DEF Exec
  <2>2. /\ running' \in [Commands -> [Hosts -> Nat]]
        /\ \A b \in Commands, h \in Hosts :
             running'[b][h] = IF b = c /\ h = g THEN running[b][h] + 1 ELSE running[b][h]
    BY <1>1, <2>1
  <2> QED
    BY <1>1, <1>2, <2>1, <2>2
<1>4. CASE ~starts
  <2>1. running' = running /\ astray' = Lost(c, g)
    BY <1>4 DEF Exec
  <2>2. /\ astray' \in [Hosts -> Int]
        /\ \A h \in Hosts :
             /\ c = "insert" => astray'[h] = astray[h] - IF g = h THEN 1 ELSE 0
             /\ c = "delete" => astray'[h] = astray[h] + IF g = h THEN 1 ELSE 0
    BY <2>1, LostFacts
  <2> QED
    BY <1>1, <1>2, <2>1, <2>2
<1> QED
  BY <1>3, <1>4

\* A rule is deleted once and is half removed, or it was in no list any more.
LEMMA RejectStep ==
  ASSUME FirewallInv, NEW t \in Threads, NEW starts \in BOOLEAN, reject(t, starts)
  PROVE  FirewallInv'
<1> DEFINE g == It(t).host
<1>1. todo[t] # <<>> /\ It(t).op = "reject" /\ Calls(t, <<>>)
  BY DEF reject, Does, It
<1>2. UNCHANGED <<rules, options, events, domainCache, job, shared>> /\ UNCHANGED cache
  BY DEF reject, lists, cache
<1>3. /\ todo[t] \in Seq(Work) /\ OneRemoval(todo[t]) /\ todo[t][1].op = "reject"
      /\ todo[t][1] = It(t) /\ g \in Hosts
  BY <1>1, ItFacts, WorkFacts
<1>4. /\ todo' \in [Threads -> Seq(Work)] /\ todo'[t] = <<>> \o Tail(todo[t])
      /\ \A u \in Threads : u # t => todo'[u] = todo[u]
      /\ Lanes' /\ NoJobYet' /\ CacheHasOneOwner'
  BY <1>1, <1>2, CallsNothing
<1>5. /\ OneRemoval(todo'[t])
      /\ \A h : /\ HalfRemoved(todo[t], h) \in Nat
                /\ HalfRemoved(todo'[t], h) = HalfRemoved(todo[t], h) + IF g = h THEN 1 ELSE 0
  <2>1. /\ OneRemoval(todo'[t])
        /\ \A h : /\ HalfRemoved(todo[t], h) \in Nat
                  /\ HalfRemoved(todo'[t], h)
                       = HalfRemoved(todo[t], h) + IF todo[t][1].host = h THEN 1 ELSE 0
    BY ONLY <1>1, <1>3, <1>4, RejectRemoval
  <2> QED
    BY <1>3, <2>1
<1>6. \/ Exec("delete", g, starts)
      \/ astray' = Lost("delete", g) /\ UNCHANGED <<running, iptables, failures>>
  BY DEF reject
<1> HIDE DEF g
<1>7. /\ running' \in [Commands -> [Hosts -> Nat]] /\ astray' \in [Hosts -> Int]
      /\ failures' \in 0..MaxFailures /\ iptables' = iptables
      /\ \A h \in Hosts :
           /\ running'["insert"][h] = running["insert"][h]
           /\ running'["delete"][h] + astray'[h]
                = running["delete"][h] + astray[h] + IF g = h THEN 1 ELSE 0
  <2>1. /\ running \in [Commands -> [Hosts -> Nat]] /\ astray \in [Hosts -> Int]
        /\ failures \in 0..MaxFailures /\ "delete" \in Commands /\ "insert" \in Commands
    BY DEF FirewallInv, TypeOK, Commands
  <2>2. CASE Exec("delete", g, starts)
    BY <1>3, <2>1, <2>2, ExecFacts
  <2>3. CASE astray' = Lost("delete", g) /\ UNCHANGED <<running, iptables, failures>>
    <3>1. /\ astray' \in [Hosts -> Int]
          /\ \A h \in Hosts : astray'[h] = astray[h] + IF g = h THEN 1 ELSE 0
      BY <1>3, <2>1, <2>3, LostFacts
    <3>2. \A h \in Hosts : running["delete"][h] \in Nat /\ astray[h] \in Int
      BY <2>1
    <3> QED
      BY <2>1, <2>3, <3>1, <3>2
  <2> QED
    BY <1>6, <2>2, <2>3
<1>8. /\ DOMAIN rules' \subseteq Users /\ \A a \in DOMAIN rules' : rules'[a] \in Seq(Hosts)
      /\ IsFiniteSet(DOMAIN rules') /\ \A h \in Hosts : IsFiniteSet(Places(h)')
      /\ \A h \in Hosts : Listed(h)' = Listed(h)
  BY <1>2, SameLists
<1>9. ASSUME NEW h \in Hosts PROVE Moves(t, h)
  <2>1. /\ Listed(h) \in Nat /\ iptables[h] \in Nat /\ astray[h] \in Int
        /\ running["insert"][h] \in Nat /\ running["delete"][h] \in Nat
        /\ HalfRemoved(todo[t], h) \in Nat
    BY BalanceFacts
  <2> DEFINE e == IF g = h THEN 1 ELSE 0
             i == iptables[h] + running["insert"][h]
             x == HalfRemoved(todo[t], h)
             l == Listed(h)
             y == running["delete"][h]
             z == astray[h]
  <2>2. /\ running'["insert"][h] = running["insert"][h]
        /\ running'["delete"][h] + astray'[h] = y + z + e
        /\ Listed(h)' = l /\ iptables'[h] = iptables[h] /\ HalfRemoved(todo'[t], h) = x + e
        /\ running'["delete"][h] \in Nat /\ astray'[h] \in Int /\ e \in Nat
    BY <1>5, <1>7, <1>8 DEF Commands
  <2>3. i \in Nat /\ x \in Nat /\ l \in Nat /\ y \in Nat /\ z \in Int
    BY ONLY <2>1
  <2>4. iptables'[h] + running'["insert"][h] = i
    BY ONLY <2>2
  <2> HIDE DEF e, i, x, l, y, z
  <2>5. i + (x + e) + l + y + z = i + x + l + running'["delete"][h] + astray'[h]
    BY ONLY <2>2, <2>3
  <2> QED
    BY ONLY <2>1, <2>2, <2>3, <2>4, <2>5 DEF Moves, i, x, l, y, z
<1>10. Balanced'
  BY <1>4, <1>9, Rebalanced
<1>11. TypeOK'
  <2>1. TypeOK
    BY DEF FirewallInv
  <2> QED
    BY <1>2, <1>4, <1>7, <1>8, <2>1 DEF TypeOK
<1>12. \A u \in Threads : OneRemoval(todo'[u])
  BY <1>4, <1>5 DEF FirewallInv
<1> QED
  BY <1>4, <1>8, <1>10, <1>11, <1>12 DEF FirewallInv

\* The list is cleared of the rules that were deleted, or of others.
LEMMA ClearStep ==
  ASSUME FirewallInv, NEW t \in Threads, Clear(t)
  PROVE  FirewallInv'
<1> DEFINE a == It(t).app
           s == It(t).seen
<1>1. todo[t] # <<>> /\ It(t).op = "clear" /\ Calls(t, <<>>)
  BY DEF Clear, Does, It
<1>2. /\ UNCHANGED <<options, events, domainCache, job, shared, running, iptables, failures>>
      /\ UNCHANGED cache
  BY DEF Clear, cache
<1>3. /\ todo[t] \in Seq(Work) /\ OneRemoval(todo[t]) /\ todo[t][1].op = "clear"
      /\ todo[t][1] = It(t) /\ a \in Users /\ s \in Seq(Hosts)
  BY <1>1, ItFacts, WorkFacts
<1>4. /\ todo' \in [Threads -> Seq(Work)] /\ todo'[t] = <<>> \o Tail(todo[t])
      /\ \A u \in Threads : u # t => todo'[u] = todo[u]
      /\ Lanes' /\ NoJobYet' /\ CacheHasOneOwner'
  BY <1>1, <1>2, CallsNothing
<1>5. /\ OneRemoval(todo'[t])
      /\ \A h : HalfRemoved(todo[t], h) = Cardinality(At(s, h)) /\ HalfRemoved(todo'[t], h) = 0
  <2>1. /\ OneRemoval(todo'[t])
        /\ \A h : /\ HalfRemoved(todo[t], h) = Cardinality(At(todo[t][1].seen, h))
                  /\ HalfRemoved(todo'[t], h) = 0
    BY ONLY <1>1, <1>3, <1>4, ClearRemoval
  <2> QED
    BY <1>3, <2>1
<1>6. /\ rules' = With(a, <<>>)
      /\ astray' = [h \in Hosts |->
                      astray[h] + Cardinality(At(RulesOf(a), h)) - Cardinality(At(s, h))]
  BY DEF Clear, Count, At
<1> HIDE DEF a, s
<1>7. <<>> \in Seq(Hosts) /\ \A h : Cardinality(At(<<>>, h)) = 0
  <2>1. \A h : At(<<>>, h) = {}
    BY DEF At
  <2> QED
    BY <2>1, FS_EmptySet, EmptySeq
<1>8. /\ DOMAIN rules' \subseteq Users /\ \A b \in DOMAIN rules' : rules'[b] \in Seq(Hosts)
      /\ IsFiniteSet(DOMAIN rules') /\ \A h \in Hosts : IsFiniteSet(Places(h)')
      /\ RulesOf(a) \in Seq(Hosts)
      /\ \A h \in Hosts :
           /\ Listed(h) \in Nat /\ Listed(h)' \in Nat
           /\ Listed(h)' + Cardinality(At(RulesOf(a), h)) = Listed(h) + Cardinality(At(<<>>, h))
  BY <1>3, <1>6, <1>7, ChangedList
<1>9. \A h \in Hosts : /\ Cardinality(At(RulesOf(a), h)) \in Nat
                       /\ Cardinality(At(s, h)) \in Nat /\ astray[h] \in Int
  BY <1>3, <1>8, AtFacts, BalanceFacts
<1>10. /\ astray' \in [Hosts -> Int]
       /\ \A h \in Hosts :
            astray'[h] = astray[h] + Cardinality(At(RulesOf(a), h)) - Cardinality(At(s, h))
  BY <1>6, <1>9
<1>11. ASSUME NEW h \in Hosts PROVE Moves(t, h)
  <2> DEFINE m == Cardinality(At(RulesOf(a), h))
             n == Cardinality(At(s, h))
  <2>1. /\ Listed(h) \in Nat /\ iptables[h] \in Nat /\ astray[h] \in Int
        /\ running["insert"][h] \in Nat /\ running["delete"][h] \in Nat
    BY BalanceFacts
  <2>2. /\ m \in Nat /\ n \in Nat /\ Listed(h)' \in Nat /\ Listed(h)' + m = Listed(h) + 0
        /\ astray'[h] = astray[h] + m - n /\ astray'[h] \in Int
    BY <1>7, <1>8, <1>9, <1>10
  <2>3. /\ HalfRemoved(todo[t], h) = n /\ HalfRemoved(todo'[t], h) = 0
        /\ running'["insert"][h] = running["insert"][h]
        /\ running'["delete"][h] = running["delete"][h] /\ iptables'[h] = iptables[h]
    BY <1>2, <1>5
  <2> HIDE DEF m, n
  <2> QED
    BY ONLY <2>1, <2>2, <2>3 DEF Moves
<1>12. Balanced'
  BY <1>4, <1>11, Rebalanced
<1>13. TypeOK'
  <2>1. TypeOK
    BY DEF FirewallInv
  <2> QED
    BY <1>2, <1>4, <1>8, <1>10, <2>1 DEF TypeOK
<1>14. \A u \in Threads : OneRemoval(todo'[u])
  BY <1>4, <1>5 DEF FirewallInv
<1> QED
  BY <1>4, <1>8, <1>12, <1>13, <1>14 DEF FirewallInv

\* A rule is in the list and on its way to iptables, or lost.
LEMMA PushStep ==
  ASSUME FirewallInv, NEW t \in Threads, NEW starts \in BOOLEAN, Push(t, starts)
  PROVE  FirewallInv'
<1> DEFINE a == It(t).app
           g == It(t).host
           s == Append(RulesOf(a), g)
<1>1. todo[t] # <<>> /\ It(t).op = "push" /\ Calls(t, <<>>)
  BY DEF Push, Does, It
<1>2. UNCHANGED <<options, events, domainCache, job, shared>> /\ UNCHANGED cache
  BY DEF Push, cache
<1>3. a \in Users /\ g \in Hosts
  BY <1>1, ItFacts, WorkFacts
<1>4. /\ todo' \in [Threads -> Seq(Work)] /\ todo'[t] = <<>> \o Tail(todo[t])
      /\ \A u \in Threads : u # t => todo'[u] = todo[u]
      /\ Lanes' /\ NoJobYet' /\ CacheHasOneOwner'
  BY <1>1, <1>2, CallsNothing
<1>5. /\ \A u \in Threads : OneRemoval(todo'[u])
      /\ \A u \in Threads, h \in Hosts : HalfRemoved(todo'[u], h) = HalfRemoved(todo[u], h)
  <2>1. <<>> \in Seq(Work) /\ NoOp(<<>>, {"reject", "clear"})
    BY EmptySeq DEF NoOp
  <2> QED
    BY <1>1, <2>1, NoDeletionCalled
<1>6. rules' = With(a, s) /\ Exec("insert", g, starts)
  BY DEF Push
<1> HIDE DEF a, g
<1>7. RulesOf(a) \in Seq(Hosts)
  BY EmptySeq DEF RulesOf, FirewallInv, TypeOK
<1>8. s \in Seq(Hosts)
  BY <1>3, <1>7, AppendProperties
<1>9. \A h : /\ Cardinality(At(s, h)) = Cardinality(At(RulesOf(a), h)) + IF h = g THEN 1 ELSE 0
             /\ Cardinality(At(RulesOf(a), h)) \in Nat
  BY <1>3, <1>7, AtAppend, AtFacts
<1> HIDE DEF s
<1>10. /\ DOMAIN rules' \subseteq Users /\ \A b \in DOMAIN rules' : rules'[b] \in Seq(Hosts)
       /\ IsFiniteSet(DOMAIN rules') /\ \A h \in Hosts : IsFiniteSet(Places(h)')
       /\ \A h \in Hosts :
            /\ Listed(h) \in Nat /\ Listed(h)' \in Nat
            /\ Listed(h)' + Cardinality(At(RulesOf(a), h)) = Listed(h) + Cardinality(At(s, h))
  BY <1>3, <1>6, <1>8, ChangedList
<1>11. /\ running' \in [Commands -> [Hosts -> Nat]] /\ astray' \in [Hosts -> Int]
       /\ failures' \in 0..MaxFailures /\ iptables' = iptables
       /\ \A h \in Hosts :
            /\ running'["delete"][h] = running["delete"][h]
            /\ running'["insert"][h] - astray'[h]
                 = running["insert"][h] - astray[h] + IF g = h THEN 1 ELSE 0
  <2>1. "insert" \in Commands
    BY DEF Commands
  <2> QED
    BY <1>3, <1>6, <2>1, ExecFacts
<1>12. ASSUME NEW h \in Hosts PROVE Moves(t, h)
  <2>1. /\ Listed(h) \in Nat /\ iptables[h] \in Nat /\ astray[h] \in Int
        /\ running["insert"][h] \in Nat /\ running["delete"][h] \in Nat
        /\ HalfRemoved(todo[t], h) \in Nat
    BY BalanceFacts
  <2>2. Listed(h)' = Listed(h) + (IF g = h THEN 1 ELSE 0) /\ Listed(h)' \in Nat
    <3>1. /\ Listed(h)' + Cardinality(At(RulesOf(a), h)) = Listed(h) + Cardinality(At(s, h))
          /\ Cardinality(At(s, h)) = Cardinality(At(RulesOf(a), h)) + IF h = g THEN 1 ELSE 0
          /\ Cardinality(At(RulesOf(a), h)) \in Nat /\ Listed(h)' \in Nat
      BY <1>9, <1>10
    <3> QED
      BY ONLY <2>1, <3>1
  <2>3. /\ running'["delete"][h] = running["delete"][h]
        /\ running'["insert"][h] - astray'[h]
             = running["insert"][h] - astray[h] + IF g = h THEN 1 ELSE 0
        /\ running'["insert"][h] \in Nat /\ astray'[h] \in Int /\ iptables'[h] = iptables[h]
        /\ HalfRemoved(todo'[t], h) = HalfRemoved(todo[t], h)
    BY <1>5, <1>11 DEF Commands
  <2> QED
    BY ONLY <2>1, <2>2, <2>3 DEF Moves
<1>13. Balanced'
  BY <1>4, <1>12, Rebalanced
<1>14. TypeOK'
  <2>1. TypeOK
    BY DEF FirewallInv
  <2> QED
    BY <1>2, <1>4, <1>10, <1>11, <2>1 DEF TypeOK
<1> QED
  BY <1>4, <1>5, <1>10, <1>13, <1>14 DEF FirewallInv

-----------------------------------------------------------------------------
(* The cache thread and updateCache keep the invariant.                    *)

\* The links of a page are added one after the other.
LEMMA AddLinksFacts ==
  ASSUME NEW from \in Hosts, NEW hs \in Seq(Hosts)
  PROVE  /\ AddLinks(from, hs) \in Seq(Work)
         /\ \A ops : "addLink" \notin ops => NoOp(AddLinks(from, hs), ops)
         /\ hs = <<>> => NoOp(AddLinks(from, hs), {"addLink"})
<1> DEFINE ws == [k \in DOMAIN hs |-> [op |-> "addLink", from |-> from, host |-> hs[k]]]
<1>1. AddLinks(from, hs) = ws
  BY DEF AddLinks, Each
<1>2. Len(hs) \in Nat /\ DOMAIN hs = 1..Len(hs) /\ \A k \in 1..Len(hs) : hs[k] \in Hosts
  BY LenProperties, ElementOfSeq
<1>3. \A k \in 1..Len(hs) : [op |-> "addLink", from |-> from, host |-> hs[k]] \in Work
  BY <1>2 DEF Work
<1>4. ws \in [1..Len(hs) -> Work]
  BY <1>2, <1>3
<1>5. \A ops : "addLink" \notin ops => NoOp(ws, ops)
  BY DEF NoOp
<1>6. hs = <<>> => NoOp(ws, {"addLink"})
  BY DEF NoOp
<1> HIDE DEF ws
<1>7. ws \in Seq(Work)
  BY <1>2, <1>4, SeqOfFunction
<1> QED
  BY <1>1, <1>5, <1>6, <1>7

\* A step that touches neither the lists nor the commands, and deletes nothing.
LEMMA CacheStep ==
  ASSUME FirewallInv, NEW t \in Threads, todo[t] # <<>>, It(t).op \notin {"reject", "clear"},
         NEW ws \in Seq(Work), Calls(t, ws), NoOp(ws, {"reject", "clear"}),
         UNCHANGED <<lists, commands>>,
         domainCache' \in [Hosts -> Seq(Hosts)], job' \in Jobs, shared' \in BOOLEAN,
         Lanes', NoJobYet', CacheHasOneOwner'
  PROVE  FirewallInv'
<1>1. UNCHANGED <<rules, options, events, running, iptables, failures, astray>>
  BY DEF lists, commands
<1>2. /\ \A u \in Threads : OneRemoval(todo'[u])
      /\ \A u \in Threads, h \in Hosts : HalfRemoved(todo'[u], h) = HalfRemoved(todo[u], h)
  BY NoDeletionCalled
<1>3. /\ DOMAIN rules' \subseteq Users /\ \A a \in DOMAIN rules' : rules'[a] \in Seq(Hosts)
      /\ IsFiniteSet(DOMAIN rules') /\ \A h \in Hosts : IsFiniteSet(Places(h)')
      /\ \A h \in Hosts : Listed(h)' = Listed(h)
  BY <1>1, SameLists
<1>4. Balanced'
  BY <1>1, <1>2, <1>3, QuietStep
<1>5. TypeOK'
  <2>1. TypeOK
    BY DEF FirewallInv
  <2>2. todo' \in [Threads -> Seq(Work)]
    BY CallsFacts
  <2> QED
    BY <1>1, <1>3, <2>1, <2>2 DEF TypeOK
<1> QED
  BY <1>2, <1>3, <1>4, <1>5 DEF FirewallInv

\* Who may do what: the first operation of a thread is one of its lane.
LEMMA LaneOf ==
  ASSUME FirewallInv, NEW t \in Threads, todo[t] # <<>>
  PROVE  /\ It(t).op \in {"updateCache", "start"} => t \in {"main", "kernel"} /\ Len(todo[t]) = 1
         /\ It(t).op \in {"fetch", "reply"} => t = "cache" /\ job.app # NoApp
         /\ It(t).op = "addLink" => t \in {"main", "kernel", "cache"} /\ job.app # NoApp
<1>1. 1 \in DOMAIN todo[t] /\ It(t) = todo[t][1]
  BY ItFacts
<1>2. Lanes /\ NoJobYet /\ t \in {"main", "kernel", "xorg", "cache"}
  BY DEF FirewallInv, Threads
<1>3. \A ops : NoOp(todo[t], ops) => It(t).op \notin ops
  BY <1>1 DEF NoOp
<1>4. LastOnly(todo[t]) /\ It(t).op \in {"updateCache", "start"} => Len(todo[t]) = 1
  BY <1>1 DEF LastOnly
<1>5. It(t).op \in {"updateCache", "start"} => t \in {"main", "kernel"} /\ Len(todo[t]) = 1
  BY <1>2, <1>3, <1>4 DEF Lanes
<1>6. It(t).op \in {"fetch", "reply"} => t = "cache" /\ job.app # NoApp
  BY <1>2, <1>3 DEF Lanes, NoJobYet, Idle
<1>7. It(t).op = "addLink" => t \in {"main", "kernel", "cache"} /\ job.app # NoApp
  BY <1>2, <1>3 DEF Lanes, NoJobYet
<1> QED
  BY <1>5, <1>6, <1>7

\* updateCache: the cache thread has ended and waits for the start that comes last.
LEMMA UpdateCacheStep ==
  ASSUME FirewallInv, NEW t \in Threads, updateCache(t)
  PROVE  FirewallInv'
<1> DEFINE w == It(t)
           x == AddLinks(w.host, domainCache[w.host])
           st == [op |-> "start", app |-> w.app, host |-> w.host]
           y == <<st>>
           ws == x \o y
<1>1. /\ todo[t] # <<>> /\ w.op = "updateCache" /\ Calls(t, ws) /\ todo["cache"] = <<>>
      /\ UNCHANGED <<lists, commands>> /\ UNCHANGED <<domainCache, job>>
      /\ shared' = (shared \/ \E u \in Threads \ {t} : Updates(u))
  BY DEF updateCache, AddThenStart, Does, It, Idle
<1>2. t \in {"main", "kernel"} /\ Len(todo[t]) = 1 /\ w.app \in Apps /\ w.host \in Hosts
  BY <1>1, ItFacts, LaneOf, WorkFacts
<1>3. domainCache \in [Hosts -> Seq(Hosts)] /\ job \in Jobs /\ NoJobYet
  BY DEF FirewallInv, TypeOK
<1>4. /\ x \in Seq(Work) /\ \A ops : "addLink" \notin ops => NoOp(x, ops)
      /\ job.app = NoApp => NoOp(x, {"addLink"})
  BY <1>2, <1>3, AddLinksFacts DEF NoJobYet
<1>5. st \in Work /\ st.op = "start"
  BY <1>2 DEF Work
<1> HIDE DEF w, x, st
<1>6. y \in Seq(Work) /\ (\A ops : "start" \notin ops => NoOp(y, ops)) /\ LastOnly(y)
  BY <1>5 DEF NoOp, LastOnly
<1> HIDE DEF y
<1>7. /\ ws \in Seq(Work)
      /\ \A ops : NoOp(x, ops) /\ NoOp(y, ops) => NoOp(ws, ops)
      /\ NoOp(x, {"updateCache", "start"}) /\ LastOnly(y) => LastOnly(ws)
  BY <1>4, <1>6, ConcatCalls
<1> HIDE DEF ws
<1>8. /\ LastOnly(ws) /\ NoOp(ws, {"fetch", "reply"}) /\ NoOp(ws, {"reject", "clear"})
      /\ job.app = NoApp => NoOp(ws, {"addLink"})
  BY <1>4, <1>6, <1>7
<1>9. /\ todo[t] \in Seq(Work) /\ todo'[t] = ws \o Tail(todo[t])
      /\ \A u \in Threads : u # t => todo'[u] = todo[u]
  BY <1>1, <1>7, CallsFacts, ItFacts
<1>10. \A ops : NoOp(todo[t], ops) /\ NoOp(ws, ops) => NoOp(todo'[t], ops)
  BY <1>1, <1>7, <1>9, NoOpCalls
<1>11. LastOnly(todo'[t])
  <2>1. /\ DOMAIN todo'[t] = 1..Len(todo'[t]) /\ Len(todo'[t]) = Len(ws) + Len(todo[t]) - 1
        /\ Len(ws) \in Nat /\ \A k \in 1..Len(ws) : todo'[t][k] = ws[k]
    BY ONLY <1>1, <1>7, <1>9, CallsSeq
  <2>2. DOMAIN ws = 1..Len(ws) /\ Len(ws) \in Nat
    BY <1>7, LenProperties
  <2>3. Len(todo'[t]) = Len(ws) /\ DOMAIN todo'[t] = 1..Len(ws)
    BY ONLY <1>2, <2>1, <2>2
  <2> QED
    BY <1>8, <2>1, <2>2, <2>3 DEF LastOnly
<1>12. Threads = {"main", "kernel", "xorg", "cache"}
  BY DEF Threads
<1>13. Lanes'
  <2>1. Lanes
    BY DEF FirewallInv
  <2>2. \A u \in {"main", "kernel"} : NoOp(todo'[u], {"fetch", "reply"}) /\ LastOnly(todo'[u])
    BY <1>8, <1>9, <1>10, <1>11, <1>12, <2>1 DEF Lanes
  <2> QED
    BY <1>2, <1>9, <1>12, <2>1, <2>2 DEF Lanes
<1>14. NoJobYet'
  BY <1>1, <1>2, <1>3, <1>8, <1>9, <1>10, <1>12 DEF NoJobYet, Idle
<1>15. CacheHasOneOwner'
  <2> SUFFICES ASSUME ~shared' PROVE \A u, v \in Threads : Uses(u)' /\ Uses(v)' => u = v
    BY DEF CacheHasOneOwner
  <2>1. \A u \in Threads : u # t => ~Updates(u)
    BY <1>1
  <2>2. \A u \in Threads : u # t /\ u # "cache" => Uses(u)' = Updates(u)
    BY <1>9 DEF Uses, Updates
  <2>3. ~Uses("cache")'
    BY <1>1, <1>2, <1>9, <1>12, UsesFacts
  <2>4. \A u \in Threads : u # t => ~Uses(u)'
    BY <2>1, <2>2, <2>3
  <2> QED
    BY <2>4
<1>16. w.op \notin {"reject", "clear"} /\ w = It(t) /\ shared' \in BOOLEAN
  <2>1. shared \in BOOLEAN
    BY DEF FirewallInv, TypeOK
  <2> QED
    BY <1>1, <2>1 DEF w
<1> QED
  BY <1>1, <1>3, <1>7, <1>8, <1>13, <1>14, <1>15, <1>16, CacheStep

\* The cache thread is started on the job that is set, unless it runs.
LEMMA StartStep ==
  ASSUME FirewallInv, NEW t \in Threads, Start(t)
  PROVE  FirewallInv'
<1> DEFINE f == [op |-> "fetch"]
           q == todo["cache"]
           n == IF q = <<>> THEN <<f>> ELSE q
<1>1. /\ todo[t] # <<>> /\ It(t).op = "start"
      /\ job' = [app |-> It(t).app, host |-> It(t).host]
      /\ UNCHANGED <<rules, options, events, domainCache, shared, running, iptables, failures,
                     astray>>
  BY DEF Start, Does, It, lists, commands
<1>2. t \in {"main", "kernel"} /\ Len(todo[t]) = 1 /\ It(t).app \in Apps /\ It(t).host \in Hosts
  BY <1>1, ItFacts, LaneOf, WorkFacts
<1>3. Threads = {"main", "kernel", "xorg", "cache"}
  BY DEF Threads
<1>4. /\ todo \in [Threads -> Seq(Work)] /\ TypeOK /\ Lanes
      /\ \A u \in Threads : OneRemoval(todo[u])
      /\ q \in Seq(Work) /\ OneRemoval(q) /\ NoOp(q, {"updateCache", "start"})
  BY <1>3 DEF FirewallInv, TypeOK, Lanes
<1>5. Tail(todo[t]) = <<>>
  <2>1. todo[t] \in Seq(Work) /\ todo[t] # <<>> /\ Len(todo[t]) = 1
    BY <1>1, <1>2, ItFacts
  <2>2. Tail(todo[t]) \in Seq(Work) /\ Len(Tail(todo[t])) = Len(todo[t]) - 1
    BY ONLY <2>1, HeadTailProperties
  <2>3. Len(Tail(todo[t])) = 0
    BY ONLY <2>1, <2>2
  <2> QED
    BY ONLY <2>2, <2>3, EmptySeq
<1>6. f \in Work /\ f.op = "fetch"
  BY DEF Work
<1>7. todo' = [todo EXCEPT ![t] = <<>>, !["cache"] = n]
  <2>1. todo' = [todo EXCEPT ![t] = Tail(todo[t]), !["cache"] = n]
    BY <1>2, <1>4 DEF Start, Idle
  <2> QED
    BY ONLY <1>5, <2>1
<1> HIDE DEF f
<1>8. Removes(<<>>) = {} /\ Removes(<<f>>) = {}
  BY <1>6 DEF Removes
<1>9. \A h : HalfRemoved(<<>>, h) = 0 /\ HalfRemoved(<<f>>, h) = 0
  BY <1>8, NotHalfRemoved
<1>10. /\ <<>> \in Seq(Work) /\ OneRemoval(<<>>) /\ LastOnly(<<>>) /\ \A ops : NoOp(<<>>, ops)
       /\ <<f>> \in Seq(Work) /\ OneRemoval(<<f>>) /\ NoOp(<<f>>, {"updateCache", "start"})
  BY <1>6, <1>8, EmptySeq DEF NoOp, LastOnly, OneRemoval
<1>11. /\ n \in Seq(Work) /\ OneRemoval(n) /\ NoOp(n, {"updateCache", "start"})
       /\ \A h : HalfRemoved(n, h) = HalfRemoved(q, h)
  BY <1>4, <1>9, <1>10
<1> HIDE DEF q, n
<1>12. /\ todo' \in [Threads -> Seq(Work)] /\ todo'[t] = <<>> /\ todo'["cache"] = n
       /\ \A u \in Threads : u # t /\ u # "cache" => todo'[u] = todo[u]
  BY <1>2, <1>3, <1>4, <1>7, <1>10, <1>11
<1>13. Lanes'
  <2>1. \A u \in {"main", "kernel"} : NoOp(todo'[u], {"fetch", "reply"}) /\ LastOnly(todo'[u])
    BY <1>3, <1>4, <1>10, <1>12 DEF Lanes
  <2>2. todo'["xorg"] = todo["xorg"]
    BY <1>2, <1>3, <1>12
  <2> QED
    BY <1>4, <1>11, <1>12, <2>1, <2>2 DEF Lanes
<1>14. job' \in Jobs /\ job'.app # NoApp /\ job'.host # NoHost
  BY <1>1, <1>2, StaticAllowIsNoApp, NoHostIsNone DEF Jobs, Users
<1>15. NoJobYet'
  BY <1>14 DEF NoJobYet
<1>16. CacheHasOneOwner'
  <2> SUFFICES ASSUME ~shared' PROVE \A u, v \in Threads : Uses(u)' /\ Uses(v)' => u = v
    BY DEF CacheHasOneOwner
  <2>1. \A u, v \in Threads : Uses(u) /\ Uses(v) => u = v
    BY <1>1 DEF FirewallInv, CacheHasOneOwner
  <2>2. Uses(t)
    <3>1. ~NoOp(todo[t], {"start"})
      BY <1>1, ItFacts DEF NoOp
    <3> QED
      BY <1>2, <3>1, UsesFacts
  <2>3. \A u \in Threads : u # t => ~Uses(u)
    BY <2>1, <2>2
  <2>4. ~Uses(t)'
    BY <1>2, <1>10, <1>12, UsesFacts
  <2>5. \A u \in Threads : u # t /\ u # "cache" => Uses(u)' = Uses(u)
    BY <1>12, UsesFacts
  <2>6. \A u \in Threads : u # "cache" => ~Uses(u)'
    BY <2>3, <2>4, <2>5
  <2> QED
    BY <2>6
<1>17. Removes(todo[t]) = {}
  BY <1>1, ItFacts, NoRemoval
<1>18. /\ \A u \in Threads : OneRemoval(todo'[u])
       /\ \A u \in Threads, h \in Hosts : HalfRemoved(todo'[u], h) = HalfRemoved(todo[u], h)
  <2>1. \A h : HalfRemoved(todo[t], h) = 0
    BY <1>17, NotHalfRemoved
  <2> QED
    BY <1>4, <1>9, <1>10, <1>11, <1>12, <2>1 DEF q
<1>19. /\ DOMAIN rules' \subseteq Users /\ \A a \in DOMAIN rules' : rules'[a] \in Seq(Hosts)
       /\ IsFiniteSet(DOMAIN rules') /\ \A h \in Hosts : IsFiniteSet(Places(h)')
       /\ \A h \in Hosts : Listed(h)' = Listed(h)
  BY <1>1, SameLists
<1>20. Balanced'
  BY <1>1, <1>18, <1>19, QuietStep
<1>21. TypeOK'
  BY <1>1, <1>4, <1>12, <1>14, <1>19 DEF TypeOK
<1> QED
  BY <1>13, <1>15, <1>16, <1>18, <1>19, <1>20, <1>21 DEF FirewallInv

\* While there is a job, the cache thread or updateCache goes on with its links.
LEMMA LinkCalls ==
  ASSUME FirewallInv, NEW t \in Threads, todo[t] # <<>>, NEW ws \in Seq(Work), Calls(t, ws),
         t \in {"main", "kernel", "cache"}, job.app # NoApp, UNCHANGED <<job, shared>>,
         NoOp(ws, {"updateCache", "start"}), NoOp(ws, {"start"}),
         t # "cache" => NoOp(ws, {"fetch", "reply"})
  PROVE  Lanes' /\ NoJobYet' /\ CacheHasOneOwner'
<1>1. /\ todo[t] \in Seq(Work) /\ todo'[t] = ws \o Tail(todo[t])
      /\ \A u \in Threads : u # t => todo'[u] = todo[u]
  BY CallsFacts, ItFacts
<1>2. \A ops : NoOp(todo[t], ops) /\ NoOp(ws, ops) => NoOp(todo'[t], ops)
  BY <1>1, NoOpCalls
<1>3. LastOnly(todo[t]) => LastOnly(todo'[t])
  BY <1>1, LastOnlyCalls
<1>4. Threads = {"main", "kernel", "xorg", "cache"}
  BY DEF Threads
<1>5. Lanes /\ NoJobYet /\ CacheHasOneOwner
  BY DEF FirewallInv
<1>6. Lanes'
  <2>1. \A u \in {"main", "kernel"} : NoOp(todo'[u], {"fetch", "reply"}) /\ LastOnly(todo'[u])
    BY <1>1, <1>2, <1>3, <1>4, <1>5 DEF Lanes
  <2>2. NoOp(todo'["cache"], {"updateCache", "start"})
    BY <1>1, <1>2, <1>4, <1>5 DEF Lanes
  <2> QED
    BY <1>1, <1>4, <1>5, <2>1, <2>2 DEF Lanes
<1>7. NoJobYet'
  BY <1>5 DEF NoJobYet
<1>8. CacheHasOneOwner'
  <2>1. \A u \in Threads : Uses(u)' => Uses(u)
    <3> SUFFICES ASSUME NEW u \in Threads, Uses(u)' PROVE Uses(u)
      OBVIOUS
    <3>1. CASE u # "cache"
      BY <1>1, <1>2, <3>1, UsesFacts
    <3>2. CASE u = "cache"
      BY <1>1, <3>2, UsesFacts
    <3> QED
      BY <3>1, <3>2
  <2> QED
    BY <2>1, OwnerKept
<1> QED
  BY <1>6, <1>7, <1>8

\* syncGet: the cache thread waits for the page of its job.
LEMMA FetchStep ==
  ASSUME FirewallInv, NEW t \in Threads, Fetch(t)
  PROVE  FirewallInv'
<1> DEFINE r == [op |-> "reply", host |-> job.host]
           ws == <<r>>
<1>1. /\ todo[t] # <<>> /\ It(t).op = "fetch" /\ Calls(t, ws)
      /\ UNCHANGED <<lists, commands>> /\ UNCHANGED <<domainCache, job, shared>>
  BY DEF Fetch, Does, It, cache
<1>2. t = "cache" /\ job.app # NoApp
  BY <1>1, LaneOf
<1>3. /\ job \in Jobs /\ job.host \in Hosts /\ domainCache \in [Hosts -> Seq(Hosts)]
      /\ shared \in BOOLEAN
  BY <1>2 DEF FirewallInv, NoJobYet, TypeOK, Jobs
<1>4. r \in Work /\ r.op = "reply"
  BY <1>3 DEF Work
<1> HIDE DEF r
<1>5. ws \in Seq(Work) /\ \A ops : "reply" \notin ops => NoOp(ws, ops)
  BY <1>4 DEF NoOp
<1> HIDE DEF ws
<1>6. NoOp(ws, {"updateCache", "start"}) /\ NoOp(ws, {"start"}) /\ NoOp(ws, {"reject", "clear"})
  BY <1>5
<1>7. Lanes' /\ NoJobYet' /\ CacheHasOneOwner'
  BY <1>1, <1>2, <1>5, <1>6, LinkCalls
<1>8. It(t).op \notin {"reject", "clear"}
  BY <1>1
<1> QED
  BY <1>1, <1>3, <1>5, <1>6, <1>7, <1>8, CacheStep

\* The links of the page replace those remembered and are added.
LEMMA ReplyStep ==
  ASSUME FirewallInv, NEW t \in Threads, NEW fetched \in BOOLEAN, Reply(t, fetched)
  PROVE  FirewallInv'
<1> DEFINE x == AddLinks(job.host, Links[It(t).host])
           ws == IF fetched THEN x ELSE <<>>
<1>1. /\ todo[t] # <<>> /\ It(t).op = "reply" /\ Calls(t, ws)
      /\ UNCHANGED <<lists, commands>> /\ UNCHANGED <<job, shared>>
      /\ domainCache' = IF fetched THEN [domainCache EXCEPT ![job.host] = <<>>] ELSE domainCache
  BY DEF Reply, Does, It
<1>2. t = "cache" /\ job.app # NoApp
  BY <1>1, LaneOf
<1>3. /\ job \in Jobs /\ job.host \in Hosts /\ It(t).host \in Hosts
      /\ shared \in BOOLEAN /\ domainCache \in [Hosts -> Seq(Hosts)]
  BY <1>1, <1>2, ItFacts, WorkFacts DEF FirewallInv, NoJobYet, TypeOK, Jobs
<1>4. /\ <<>> \in Seq(Work) /\ \A ops : NoOp(<<>>, ops)
      /\ x \in Seq(Work) /\ \A ops : "addLink" \notin ops => NoOp(x, ops)
  <2>1. Links[It(t).host] \in Seq(Hosts)
    BY <1>3, LinksType
  <2>2. <<>> \in Seq(Work) /\ \A ops : NoOp(<<>>, ops)
    BY EmptySeq DEF NoOp
  <2> QED
    BY <1>3, <2>1, <2>2, AddLinksFacts
<1> HIDE DEF x
<1>5. ws \in Seq(Work) /\ \A ops : "addLink" \notin ops => NoOp(ws, ops)
  BY <1>4
<1> HIDE DEF ws
<1>6. NoOp(ws, {"updateCache", "start"}) /\ NoOp(ws, {"start"}) /\ NoOp(ws, {"reject", "clear"})
  BY <1>5
<1>7. Lanes' /\ NoJobYet' /\ CacheHasOneOwner'
  BY <1>1, <1>2, <1>3, <1>5, <1>6, LinkCalls
<1>8. domainCache' \in [Hosts -> Seq(Hosts)] /\ job' \in Jobs /\ shared' \in BOOLEAN
  BY <1>1, <1>3, EmptySeq
<1>9. It(t).op \notin {"reject", "clear"}
  BY <1>1
<1> QED
  BY <1>1, <1>5, <1>6, <1>7, <1>8, <1>9, CacheStep

\* A link is remembered and its host added for the application of the job.
LEMMA AddURLListStep ==
  ASSUME FirewallInv, NEW t \in Threads, NEW allowed \in BOOLEAN, addURLList(t, allowed)
  PROVE  FirewallInv'
<1> DEFINE w == It(t)
           to == ToUrl(t)
           ad == [op |-> "addDomain", app |-> job.app, host |-> w.host]
           ws == IF allowed THEN <<ad>> ELSE <<>>
<1>1. /\ todo[t] # <<>> /\ w.op = "addLink" /\ Calls(t, ws)
      /\ UNCHANGED <<lists, commands>> /\ UNCHANGED <<job, shared>>
      /\ domainCache' = IF allowed THEN [domainCache EXCEPT ![to] = Append(@, w.host)]
                        ELSE domainCache
  BY DEF addURLList, Does, It
<1>2. t \in {"main", "kernel", "cache"} /\ job.app # NoApp /\ w.host \in Hosts /\ w.from \in Hosts
  BY <1>1, LaneOf, ItFacts, WorkFacts
<1>3. job \in Jobs /\ job.app \in Apps /\ job.host \in Hosts /\ shared \in BOOLEAN
  BY <1>2 DEF FirewallInv, NoJobYet, TypeOK, Jobs
<1>4. ad \in Work /\ ad.op = "addDomain" /\ to \in Hosts
  BY <1>2, <1>3 DEF Work, ToUrl
<1> HIDE DEF ad, to
<1>5. ws \in Seq(Work) /\ \A ops : "addDomain" \notin ops => NoOp(ws, ops)
  BY <1>4 DEF NoOp
<1> HIDE DEF ws
<1>6. /\ NoOp(ws, {"fetch", "reply"}) /\ NoOp(ws, {"updateCache", "start"})
      /\ NoOp(ws, {"reject", "clear"}) /\ NoOp(ws, {"start"})
  BY <1>5
<1>7. Lanes' /\ NoJobYet' /\ CacheHasOneOwner'
  BY <1>1, <1>2, <1>5, <1>6, LinkCalls
<1>8. domainCache' \in [Hosts -> Seq(Hosts)] /\ job' \in Jobs /\ shared' \in BOOLEAN
  <2>1. domainCache \in [Hosts -> Seq(Hosts)]
    BY DEF FirewallInv, TypeOK
  <2>2. Append(domainCache[to], w.host) \in Seq(Hosts)
    BY <1>2, <1>4, <2>1, AppendProperties
  <2> HIDE DEF w
  <2> QED
    BY <1>1, <1>3, <2>1, <2>2
<1>9. w.op \notin {"reject", "clear"} /\ w = It(t)
  BY <1>1
<1> HIDE DEF w
<1> QED
  BY <1>1, <1>5, <1>6, <1>7, <1>8, <1>9, CacheStep

-----------------------------------------------------------------------------
(* The commands and the events keep the invariant.                         *)

\* A step of no thread.
LEMMA SameWork ==
  ASSUME FirewallInv, UNCHANGED <<rules, cache, todo>>
  PROVE  /\ DOMAIN rules' \subseteq Users /\ \A a \in DOMAIN rules' : rules'[a] \in Seq(Hosts)
         /\ IsFiniteSet(DOMAIN rules') /\ \A h \in Hosts : IsFiniteSet(Places(h)')
         /\ Lanes' /\ NoJobYet' /\ CacheHasOneOwner' /\ \A u \in Threads : OneRemoval(todo'[u])
         /\ \A h \in Hosts : Listed(h)' = Listed(h)
<1>1. /\ DOMAIN rules' \subseteq Users /\ \A a \in DOMAIN rules' : rules'[a] \in Seq(Hosts)
      /\ IsFiniteSet(DOMAIN rules') /\ \A h \in Hosts : IsFiniteSet(Places(h)')
      /\ \A h \in Hosts : Listed(h)' = Listed(h)
  BY SameLists
<1>2. Lanes' /\ NoJobYet' /\ \A u \in Threads : OneRemoval(todo'[u])
  BY DEF FirewallInv, cache, Lanes, NoJobYet, Idle
<1>3. CacheHasOneOwner'
  <2>1. \A u \in Threads : Uses(u)' => Uses(u)
    BY UsesFacts
  <2>2. UNCHANGED shared
    BY DEF cache
  <2> QED
    BY <2>1, <2>2, OwnerKept
<1> QED
  BY <1>1, <1>2, <1>3

\* A command ends: the balance is kept, and the rest is as it was.
LEMMA CommandStep ==
  ASSUME FirewallInv, UNCHANGED <<lists, cache, todo>>,
         running' \in [Commands -> [Hosts -> Nat]], iptables' \in [Hosts -> Nat],
         astray' \in [Hosts -> Int], failures' \in 0..MaxFailures,
         \A h \in Hosts :
           iptables'[h] + running'["insert"][h] + running["delete"][h] + astray[h]
             = iptables[h] + running["insert"][h] + running'["delete"][h] + astray'[h]
  PROVE  FirewallInv'
<1>1. UNCHANGED <<rules, cache, todo>> /\ UNCHANGED <<options, events, domainCache, job, shared>>
  BY DEF lists, cache
<1>2. /\ DOMAIN rules' \subseteq Users /\ \A a \in DOMAIN rules' : rules'[a] \in Seq(Hosts)
      /\ IsFiniteSet(DOMAIN rules') /\ \A h \in Hosts : IsFiniteSet(Places(h)')
      /\ Lanes' /\ NoJobYet' /\ CacheHasOneOwner' /\ \A u \in Threads : OneRemoval(todo'[u])
      /\ \A h \in Hosts : Listed(h)' = Listed(h)
  BY <1>1, SameWork
<1>3. "main" \in Threads /\ \A u \in Threads : u # "main" => todo'[u] = todo[u]
  BY <1>1 DEF Threads
<1>4. ASSUME NEW h \in Hosts PROVE Moves("main", h)
  <2>1. /\ Listed(h) \in Nat /\ iptables[h] \in Nat /\ astray[h] \in Int
        /\ running["insert"][h] \in Nat /\ running["delete"][h] \in Nat
        /\ HalfRemoved(todo["main"], h) \in Nat
    BY <1>3, BalanceFacts
  <2>2. /\ Listed(h)' = Listed(h) /\ HalfRemoved(todo'["main"], h) = HalfRemoved(todo["main"], h)
        /\ iptables'[h] \in Nat /\ astray'[h] \in Int
        /\ running'["insert"][h] \in Nat /\ running'["delete"][h] \in Nat
    BY <1>1, <1>2 DEF Commands
  <2>3. iptables'[h] + running'["insert"][h] + running["delete"][h] + astray[h]
          = iptables[h] + running["insert"][h] + running'["delete"][h] + astray'[h]
    OBVIOUS
  <2> QED
    BY ONLY <2>1, <2>2, <2>3 DEF Moves
<1>5. Balanced'
  BY <1>3, <1>4, Rebalanced
<1>6. TypeOK'
  <2>1. TypeOK
    BY DEF FirewallInv
  <2> QED
    BY <1>1, <1>2, <2>1 DEF TypeOK
<1> QED
  BY <1>2, <1>5, <1>6 DEF FirewallInv

\* One command less is on its way.
LEMMA Ended ==
  ASSUME FirewallInv, NEW c \in Commands, NEW g \in Hosts, running[c][g] > 0,
         running' = [running EXCEPT ![c][g] = @ - 1]
  PROVE  /\ running' \in [Commands -> [Hosts -> Nat]]
         /\ \A b \in Commands, h \in Hosts :
              running'[b][h] = running[b][h] - IF b = c /\ g = h THEN 1 ELSE 0
BY DEF FirewallInv, TypeOK

\* A detached insertion ends: the rule is no longer on its way but in iptables, or
\* lost.
LEMMA InsertedStep ==
  ASSUME FirewallInv, NEW g \in Hosts, NEW ok \in BOOLEAN, Inserted(g, ok)
  PROVE  FirewallInv'
<1>1. /\ running["insert"][g] > 0 /\ Succeeds(ok)
      /\ running' = [running EXCEPT !["insert"][g] = @ - 1]
      /\ iptables' = IF ok THEN [iptables EXCEPT ![g] = @ + 1] ELSE iptables
      /\ astray' = IF ok THEN astray ELSE Lost("insert", g)
      /\ UNCHANGED <<lists, cache, todo>>
  BY DEF Inserted
<1>2. /\ iptables \in [Hosts -> Nat] /\ astray \in [Hosts -> Int]
      /\ "insert" \in Commands /\ "delete" \in Commands /\ "insert" # "delete"
  BY DEF FirewallInv, TypeOK, Commands
<1>3. failures' \in 0..MaxFailures
  BY <1>1, SucceedsFacts
<1>4. /\ running' \in [Commands -> [Hosts -> Nat]]
      /\ \A b \in Commands, h \in Hosts :
           running'[b][h] = running[b][h] - IF b = "insert" /\ g = h THEN 1 ELSE 0
  BY <1>1, <1>2, Ended
<1>5. \A h \in Hosts : /\ iptables[h] \in Nat /\ astray[h] \in Int
                       /\ running["insert"][h] \in Nat /\ running["delete"][h] \in Nat
  BY BalanceFacts
<1>6. CASE ok
  <2>1. /\ iptables' \in [Hosts -> Nat] /\ astray' = astray
        /\ \A h \in Hosts : iptables'[h] = iptables[h] + IF g = h THEN 1 ELSE 0
    BY <1>1, <1>2, <1>6
  <2>2. ASSUME NEW h \in Hosts
        PROVE  iptables'[h] + running'["insert"][h] + running["delete"][h] + astray[h]
                 = iptables[h] + running["insert"][h] + running'["delete"][h] + astray'[h]
    <3> DEFINE e == IF g = h THEN 1 ELSE 0
    <3>1. /\ running'["insert"][h] = running["insert"][h] - e
          /\ running'["delete"][h] = running["delete"][h]
          /\ iptables'[h] = iptables[h] + e /\ astray'[h] = astray[h]
      BY <1>2, <1>4, <1>5, <2>1
    <3>2. /\ iptables[h] \in Nat /\ astray[h] \in Int /\ e \in Nat
          /\ running["insert"][h] \in Nat /\ running["delete"][h] \in Nat
      BY <1>5
    <3> HIDE DEF e
    <3> QED
      BY ONLY <3>1, <3>2
  <2> QED
    BY <1>1, <1>2, <1>3, <1>4, <2>1, <2>2, CommandStep
<1>7. CASE ~ok
  <2>1. /\ iptables' = iptables /\ astray' \in [Hosts -> Int]
        /\ \A h \in Hosts : astray'[h] = astray[h] - IF g = h THEN 1 ELSE 0
    BY <1>1, <1>2, <1>7, LostFacts
  <2>2. ASSUME NEW h \in Hosts
        PROVE  iptables'[h] + running'["insert"][h] + running["delete"][h] + astray[h]
                 = iptables[h] + running["insert"][h] + running'["delete"][h] + astray'[h]
    <3> DEFINE e == IF g = h THEN 1 ELSE 0
    <3>1. /\ running'["insert"][h] = running["insert"][h] - e
          /\ running'["delete"][h] = running["delete"][h]
          /\ iptables'[h] = iptables[h] /\ astray'[h] = astray[h] - e
      BY <1>2, <1>4, <1>5, <2>1
    <3>2. /\ iptables[h] \in Nat /\ astray[h] \in Int /\ e \in Nat
          /\ running["insert"][h] \in Nat /\ running["delete"][h] \in Nat
      BY <1>5
    <3> HIDE DEF e
    <3> QED
      BY ONLY <3>1, <3>2
  <2> QED
    BY <1>1, <1>2, <1>3, <1>4, <2>1, <2>2, CommandStep
<1> QED
  BY <1>6, <1>7

\* A detached deletion ends; it may have found no rule, or be lost.
LEMMA DeletedStep ==
  ASSUME FirewallInv, NEW g \in Hosts, NEW ok \in BOOLEAN, Deleted(g, ok)
  PROVE  FirewallInv'
<1>1. /\ running["delete"][g] > 0 /\ Succeeds(ok)
      /\ running' = [running EXCEPT !["delete"][g] = @ - 1]
      /\ \/ iptables[g] > 0 /\ iptables' = [iptables EXCEPT ![g] = @ - 1] /\ UNCHANGED astray
         \/ astray' = Lost("delete", g) /\ UNCHANGED iptables
      /\ UNCHANGED <<lists, cache, todo>>
  BY DEF Deleted
<1>2. /\ iptables \in [Hosts -> Nat] /\ astray \in [Hosts -> Int]
      /\ "insert" \in Commands /\ "delete" \in Commands /\ "insert" # "delete"
  BY DEF FirewallInv, TypeOK, Commands
<1>3. failures' \in 0..MaxFailures
  BY <1>1, SucceedsFacts
<1>4. /\ running' \in [Commands -> [Hosts -> Nat]]
      /\ \A b \in Commands, h \in Hosts :
           running'[b][h] = running[b][h] - IF b = "delete" /\ g = h THEN 1 ELSE 0
  BY <1>1, <1>2, Ended
<1>5. \A h \in Hosts : /\ iptables[h] \in Nat /\ astray[h] \in Int
                       /\ running["insert"][h] \in Nat /\ running["delete"][h] \in Nat
  BY BalanceFacts
<1>6. CASE iptables[g] > 0 /\ iptables' = [iptables EXCEPT ![g] = @ - 1] /\ UNCHANGED astray
  <2>1. /\ iptables' \in [Hosts -> Nat] /\ astray' = astray
        /\ \A h \in Hosts : iptables'[h] = iptables[h] - IF g = h THEN 1 ELSE 0
    BY <1>2, <1>6
  <2>2. ASSUME NEW h \in Hosts
        PROVE  iptables'[h] + running'["insert"][h] + running["delete"][h] + astray[h]
                 = iptables[h] + running["insert"][h] + running'["delete"][h] + astray'[h]
    <3> DEFINE e == IF g = h THEN 1 ELSE 0
    <3>1. /\ running'["insert"][h] = running["insert"][h]
          /\ running'["delete"][h] = running["delete"][h] - e
          /\ iptables'[h] = iptables[h] - e /\ astray'[h] = astray[h]
      BY <1>2, <1>4, <1>5, <2>1
    <3>2. /\ iptables[h] \in Nat /\ astray[h] \in Int /\ e \in Nat
          /\ running["insert"][h] \in Nat /\ running["delete"][h] \in Nat
      BY <1>5
    <3> HIDE DEF e
    <3> QED
      BY ONLY <3>1, <3>2
  <2> QED
    BY <1>1, <1>2, <1>3, <1>4, <2>1, <2>2, CommandStep
<1>7. CASE astray' = Lost("delete", g) /\ UNCHANGED iptables
  <2>1. /\ iptables' = iptables /\ astray' \in [Hosts -> Int]
        /\ \A h \in Hosts : astray'[h] = astray[h] + IF g = h THEN 1 ELSE 0
    BY <1>2, <1>7, LostFacts
  <2>2. ASSUME NEW h \in Hosts
        PROVE  iptables'[h] + running'["insert"][h] + running["delete"][h] + astray[h]
                 = iptables[h] + running["insert"][h] + running'["delete"][h] + astray'[h]
    <3> DEFINE e == IF g = h THEN 1 ELSE 0
    <3>1. /\ running'["insert"][h] = running["insert"][h]
          /\ running'["delete"][h] = running["delete"][h] - e
          /\ iptables'[h] = iptables[h] /\ astray'[h] = astray[h] + e
      BY <1>2, <1>4, <1>5, <2>1
    <3>2. /\ iptables[h] \in Nat /\ astray[h] \in Int /\ e \in Nat
          /\ running["insert"][h] \in Nat /\ running["delete"][h] \in Nat
      BY <1>5
    <3> HIDE DEF e
    <3> QED
      BY ONLY <3>1, <3>2
  <2> QED
    BY <1>1, <1>2, <1>3, <1>4, <2>1, <2>2, CommandStep
<1> QED
  BY <1>1, <1>6, <1>7

\* An event finds its thread with nothing to do and gives it what to do.
LEMMA HandleStep ==
  ASSUME FirewallInv, NEW t \in {"main", "kernel", "xorg"}, NEW ws \in Seq(Work), Handle(t, ws),
         NoOp(ws, {"reject", "clear"}), NoOp(ws, {"fetch", "reply"}), NoOp(ws, {"addLink"}),
         NoOp(ws, {"start"}), LastOnly(ws), t = "xorg" => NoOp(ws, CacheOps)
  PROVE  FirewallInv'
<1>1. /\ todo[t] = <<>> /\ events < MaxEvents /\ events' = events + 1
      /\ todo' = [todo EXCEPT ![t] = ws]
      /\ UNCHANGED <<rules, options, domainCache, job, shared, running, iptables, failures, astray>>
  BY DEF Handle, Idle, cache, commands
<1>2. TypeOK /\ Lanes /\ NoJobYet /\ CacheHasOneOwner /\ \A u \in Threads : OneRemoval(todo[u])
  BY DEF FirewallInv
<1>3. Threads = {"main", "kernel", "xorg", "cache"} /\ t \in Threads /\ t # "cache"
  BY DEF Threads
<1>4. /\ todo' \in [Threads -> Seq(Work)] /\ todo'[t] = ws
      /\ \A u \in Threads : u # t => todo'[u] = todo[u]
  <2>1. todo \in [Threads -> Seq(Work)]
    BY <1>2 DEF TypeOK
  <2> QED
    BY <1>1, <1>3, <2>1
<1>5. Removes(todo[t]) = {} /\ Removes(ws) = {}
  BY <1>1 DEF Removes, NoOp
<1>6. /\ \A u \in Threads : OneRemoval(todo'[u])
      /\ \A u \in Threads, h \in Hosts : HalfRemoved(todo'[u], h) = HalfRemoved(todo[u], h)
  <2>1. OneRemoval(ws) /\ \A h : HalfRemoved(ws, h) = 0 /\ HalfRemoved(todo[t], h) = 0
    BY <1>5, NotHalfRemoved DEF OneRemoval
  <2> QED
    BY <1>2, <1>4, <2>1
<1>7. /\ DOMAIN rules' \subseteq Users /\ \A a \in DOMAIN rules' : rules'[a] \in Seq(Hosts)
      /\ IsFiniteSet(DOMAIN rules') /\ \A h \in Hosts : IsFiniteSet(Places(h)')
      /\ \A h \in Hosts : Listed(h)' = Listed(h)
  BY <1>1, SameLists
<1>8. Balanced'
  BY <1>1, <1>6, <1>7, QuietStep
<1>9. Lanes'
  <2>1. \A u \in {"main", "kernel"} : NoOp(todo'[u], {"fetch", "reply"}) /\ LastOnly(todo'[u])
    BY <1>2, <1>3, <1>4 DEF Lanes
  <2>2. NoOp(todo'["xorg"], CacheOps)
    BY <1>2, <1>3, <1>4 DEF Lanes, CacheOps
  <2> QED
    BY <1>2, <1>3, <1>4, <2>1, <2>2 DEF Lanes, CacheOps
<1>10. NoJobYet'
  BY <1>1, <1>2, <1>3, <1>4 DEF NoJobYet, Idle
<1>11. CacheHasOneOwner'
  <2>1. \A u \in Threads : Uses(u)' => Uses(u)
    BY <1>3, <1>4, UsesFacts
  <2> QED
    BY <1>1, <2>1, OwnerKept
<1>12. events' \in 0..MaxEvents
  BY <1>1, <1>2, BoundsType DEF TypeOK
<1>13. TypeOK'
  BY <1>1, <1>2, <1>4, <1>7, <1>12 DEF TypeOK
<1> QED
  BY <1>6, <1>7, <1>8, <1>9, <1>10, <1>11, <1>13 DEF FirewallInv

\* The flush deletes nothing itself and calls no link.
LEMMA FlushFacts ==
  /\ Flush \in Seq(Work) /\ <<>> \in Seq(Work)
  /\ \A ops : "removeAll" \notin ops => NoOp(Flush, ops)
  /\ \A ops : NoOp(<<>>, ops)
  /\ LastOnly(Flush) /\ LastOnly(<<>>)
<1> DEFINE w == [op |-> "removeAll"]
<1>1. w \in Work /\ w.op = "removeAll" /\ Flush = <<w>>
  BY DEF Work, Flush
<1> HIDE DEF w
<1> QED
  BY <1>1, EmptySeq DEF NoOp, LastOnly

\* A transition, with what it asks for.
LEMMA TransitionStep ==
  ASSUME FirewallInv, NEW t \in {"main", "kernel"}, NEW static \in StaticAllows,
         NEW request \in Seq(Work), TransitionDemand(t, static, request), LastOnly(request),
         \A ops : ops \cap {"addDomain", "updateCache"} = {} => NoOp(request, ops)
  PROVE  FirewallInv'
<1> DEFINE fl == IF options.flush THEN Flush ELSE <<>>
           st == [k \in DOMAIN static |->
                    [op |-> "addRule", app |-> StaticAllow, host |-> static[k]]]
           fs == fl \o st
           ws == fs \o request
<1>1. Handle(t, ws)
  BY DEF TransitionDemand, Each
<1>2. fl \in Seq(Work) /\ \A ops : "removeAll" \notin ops => NoOp(fl, ops)
  BY FlushFacts
<1>3. /\ Len(static) \in Nat /\ DOMAIN static = 1..Len(static)
      /\ \A k \in 1..Len(static) : static[k] \in Hosts
  <2>1. static \in Seq(Hosts)
    BY StaticAllowsType
  <2> QED
    BY <2>1, LenProperties, ElementOfSeq
<1>4. \A k \in 1..Len(static) :
        [op |-> "addRule", app |-> StaticAllow, host |-> static[k]] \in Work
  BY <1>3 DEF Work, Users
<1>5. st \in [1..Len(static) -> Work] /\ \A ops : "addRule" \notin ops => NoOp(st, ops)
  BY <1>3, <1>4 DEF NoOp
<1> HIDE DEF fl, st
<1>6. st \in Seq(Work)
  BY <1>3, <1>5, SeqOfFunction
<1>7. /\ fs \in Seq(Work)
      /\ \A ops : NoOp(fl, ops) /\ NoOp(st, ops) => NoOp(fs, ops)
  BY <1>2, <1>6, ConcatCalls
<1>8. \A ops : "removeAll" \notin ops /\ "addRule" \notin ops => NoOp(fs, ops)
  BY <1>2, <1>5, <1>7
<1> HIDE DEF fs
<1>9. /\ ws \in Seq(Work)
      /\ \A ops : NoOp(fs, ops) /\ NoOp(request, ops) => NoOp(ws, ops)
      /\ NoOp(fs, {"updateCache", "start"}) /\ LastOnly(request) => LastOnly(ws)
  BY <1>7, ConcatCalls
<1>10. /\ LastOnly(ws)
       /\ NoOp(ws, {"reject", "clear"}) /\ NoOp(ws, {"fetch", "reply"})
       /\ NoOp(ws, {"addLink"}) /\ NoOp(ws, {"start"})
  BY <1>8, <1>9
<1>11. t \in {"main", "kernel", "xorg"} /\ t # "xorg"
  OBVIOUS
<1> HIDE DEF ws
<1> QED
  BY <1>1, <1>9, <1>10, <1>11, HandleStep

\* What is asked for over D-Bus: the page is looked at last.
LEMMA RequestFacts ==
  ASSUME NEW v \in Visits
  PROVE  /\ Request(v) \in Seq(Work) /\ LastOnly(Request(v))
         /\ \A ops : ops \cap {"addDomain", "updateCache"} = {} => NoOp(Request(v), ops)
<1> DEFINE ad == [op |-> "addDomain", app |-> v.app, host |-> v.host]
           up == [op |-> "updateCache", app |-> v.app, host |-> v.host]
           x == <<ad>>
           y == IF v.url THEN <<up>> ELSE <<>>
<1>1. v.app \in Apps /\ v.host \in Hosts
  BY VisitsType
<1>2. ad \in Work /\ ad.op = "addDomain" /\ up \in Work /\ up.op = "updateCache"
  BY <1>1 DEF Work
<1>3. Request(v) = x \o y
  BY DEF Request
<1> HIDE DEF ad, up
<1>4. x \in Seq(Work) /\ \A ops : "addDomain" \notin ops => NoOp(x, ops)
  BY <1>2 DEF NoOp
<1>5. y \in Seq(Work) /\ LastOnly(y) /\ \A ops : "updateCache" \notin ops => NoOp(y, ops)
  BY <1>2, EmptySeq DEF NoOp, LastOnly
<1> HIDE DEF x, y
<1>6. /\ x \o y \in Seq(Work)
      /\ \A ops : NoOp(x, ops) /\ NoOp(y, ops) => NoOp(x \o y, ops)
      /\ NoOp(x, {"updateCache", "start"}) /\ LastOnly(y) => LastOnly(x \o y)
  BY <1>4, <1>5, ConcatCalls
<1>7. NoOp(x, {"updateCache", "start"})
  BY <1>4
<1> QED
  BY <1>3, <1>4, <1>5, <1>6, <1>7

\* Reading the configuration again changes the options only.
LEMMA ReloadStep ==
  ASSUME FirewallInv, Reload
  PROVE  FirewallInv'
<1>1. /\ events < MaxEvents /\ events' = events + 1 /\ options' \in Options
      /\ UNCHANGED <<rules, cache, domainCache, job, shared, todo, running, iptables, failures,
                     astray>>
  BY DEF Reload, cache, commands
<1>2. /\ DOMAIN rules' \subseteq Users /\ \A a \in DOMAIN rules' : rules'[a] \in Seq(Hosts)
      /\ IsFiniteSet(DOMAIN rules') /\ \A h \in Hosts : IsFiniteSet(Places(h)')
      /\ Lanes' /\ NoJobYet' /\ CacheHasOneOwner' /\ \A u \in Threads : OneRemoval(todo'[u])
      /\ \A h \in Hosts : Listed(h)' = Listed(h)
  BY <1>1, SameWork
<1>3. Balanced'
  BY <1>1, <1>2, QuietStep
<1>4. TypeOK
  BY DEF FirewallInv
<1>5. events' \in 0..MaxEvents
  BY <1>1, <1>4, BoundsType DEF TypeOK
<1>6. TypeOK'
  BY <1>1, <1>2, <1>4, <1>5 DEF TypeOK
<1> QED
  BY <1>2, <1>3, <1>6 DEF FirewallInv

-----------------------------------------------------------------------------
(* The theorems.                                                           *)

\* At first there are no lists, no rules and nothing to do.
LEMMA InitInv == Init => FirewallInv
<1> SUFFICES ASSUME Init PROVE FirewallInv
  OBVIOUS
<1>1. <<>> \in Seq(Work) /\ <<>> \in Seq(Hosts)
  BY EmptySeq
<1>2. DOMAIN rules = {} /\ \A h \in Hosts : Places(h) = {}
  BY DEF Init, Places
<1>3. IsFiniteSet({}) /\ Cardinality({}) = 0
  BY FS_EmptySet
<1>4. TypeOK
  <2>1. domainCache \in [Hosts -> Seq(Hosts)] /\ todo \in [Threads -> Seq(Work)]
    BY <1>1 DEF Init
  <2>2. job \in Jobs
    BY DEF Init, Jobs
  <2>3. running \in [Commands -> [Hosts -> Nat]] /\ iptables \in [Hosts -> Nat]
    BY DEF Init
  <2>4. events \in 0..MaxEvents /\ failures \in 0..MaxFailures
    BY BoundsType DEF Init
  <2>5. shared \in BOOLEAN /\ options \in Options
    BY DEF Init
  <2>6. astray \in [Hosts -> Int]
    BY DEF Init
  <2> QED
    BY <1>2, <2>1, <2>2, <2>3, <2>4, <2>5, <2>6 DEF TypeOK
<1>5. \A u \in Threads : todo[u] = <<>>
  BY DEF Init
<1>6. "main" \in Threads /\ "kernel" \in Threads /\ "xorg" \in Threads /\ "cache" \in Threads
  BY DEF Threads
<1>7. Lanes
  BY <1>5, <1>6, FlushFacts DEF Lanes
<1>8. NoJobYet /\ CacheHasOneOwner
  <2>1. \A u \in Threads : ~Uses(u)
    BY <1>5, <1>6, FlushFacts, UsesFacts
  <2> QED
    BY <1>5, <1>6, <2>1, FlushFacts DEF NoJobYet, CacheHasOneOwner, Idle, Init
<1>9. Removes(<<>>) = {}
  BY DEF Removes
<1>10. OneRemoval(<<>>) /\ \A h : HalfRemoved(<<>>, h) = 0
  BY <1>9, NotHalfRemoved DEF OneRemoval
<1>11. \A h \in Hosts : Listed(h) = 0
  BY <1>2, <1>3 DEF Listed
<1>12. Balanced
  <2>1. \A h \in Hosts : /\ iptables[h] = 0 /\ astray[h] = 0
                         /\ running["insert"][h] = 0 /\ running["delete"][h] = 0
    BY DEF Init, Commands
  <2>2. \A h \in Hosts : /\ HalfRemoved(todo["main"], h) = 0
                         /\ HalfRemoved(todo["kernel"], h) = 0
                         /\ HalfRemoved(todo["xorg"], h) = 0
                         /\ HalfRemoved(todo["cache"], h) = 0
    BY <1>5, <1>6, <1>10
  <2> QED
    BY <1>11, <2>1, <2>2 DEF Balanced
<1> QED
  BY <1>2, <1>3, <1>4, <1>5, <1>7, <1>8, <1>10, <1>12 DEF FirewallInv

\* Every step of the threads, the commands and the events keeps the invariant.
LEMMA NextInv == FirewallInv /\ [Next]_vars => FirewallInv'
<1> SUFFICES ASSUME FirewallInv, [Next]_vars PROVE FirewallInv'
  OBVIOUS
<1>1. ASSUME NEW t \in Threads, Step(t) PROVE FirewallInv'
  BY <1>1, RemoveAllStep, RemoveAppRulesStep, RejectStep, ClearStep, AddRuleStep, PushStep,
     AddDomainStep, FetchStep, AddURLListStep, UpdateCacheStep, StartStep DEF Step
<1>2. ASSUME NEW t \in Threads, NEW b \in BOOLEAN, Reply(t, b) PROVE FirewallInv'
  BY <1>2, ReplyStep
<1>3. CASE CommandEnds
  BY <1>3, InsertedStep, DeletedStep DEF CommandEnds
<1>4. ASSUME NEW t \in {"main", "kernel"}, NEW static \in StaticAllows, NEW v \in Visits,
             TransitionDemand(t, static, Request(v))
      PROVE  FirewallInv'
  BY <1>4, RequestFacts, TransitionStep
<1>5. ASSUME NEW t \in {"main", "kernel"}, NEW static \in StaticAllows,
             TransitionDemand(t, static, <<>>)
      PROVE  FirewallInv'
  BY <1>5, FlushFacts, TransitionStep
<1>6. CASE Restart("xorg")
  <2>1. Handle("xorg", Flush)
    BY <1>6 DEF Restart
  <2>2. /\ NoOp(Flush, {"reject", "clear"}) /\ NoOp(Flush, {"fetch", "reply"})
        /\ NoOp(Flush, {"addLink"}) /\ NoOp(Flush, {"start"}) /\ NoOp(Flush, CacheOps)
    BY FlushFacts DEF CacheOps
  <2> QED
    BY <2>1, <2>2, FlushFacts, HandleStep
<1>7. CASE Reload
  BY <1>7, ReloadStep
<1>8. CASE UNCHANGED vars
  <2>1. /\ UNCHANGED <<rules, cache, todo>>
        /\ UNCHANGED <<options, domainCache, job, running, iptables, events, failures,
                       astray, shared>>
    BY <1>8 DEF vars, cache
  <2>2. /\ DOMAIN rules' \subseteq Users /\ \A a \in DOMAIN rules' : rules'[a] \in Seq(Hosts)
        /\ IsFiniteSet(DOMAIN rules') /\ \A h \in Hosts : IsFiniteSet(Places(h)')
        /\ Lanes' /\ NoJobYet' /\ CacheHasOneOwner' /\ \A u \in Threads : OneRemoval(todo'[u])
        /\ \A h \in Hosts : Listed(h)' = Listed(h)
    BY <2>1, SameWork
  <2>3. Balanced'
    BY <2>1, <2>2, QuietStep
  <2>4. TypeOK'
    BY <2>1 DEF FirewallInv, TypeOK
  <2> QED
    BY <2>2, <2>3, <2>4 DEF FirewallInv
<1> QED
  BY <1>1, <1>2, <1>3, <1>4, <1>5, <1>6, <1>7, <1>8 DEF Next

\* The invariant: the rules of the lists are in iptables, on their way there, half
\* removed or counted as astray, and the four threads keep to their lanes.
THEOREM FirewallInvariance == Spec => []FirewallInv
BY InitInv, NextInv, PTL DEF Spec

\* Types: what RuleList, the cache thread and iptables hold is of its type.
THEOREM RuleListTypes == Spec => []TypeOK
<1>1. FirewallInv => TypeOK
  BY DEF FirewallInv
<1> QED
  BY <1>1, FirewallInvariance, PTL

\* domainCache, _appName and _url are used by the cache thread or by one thread in
\* updateCache, never by two, though no lock protects them, as long as no two threads
\* have been in updateCache at once.
THEOREM OneOwner == Spec => []CacheHasOneOwner
<1>1. FirewallInv => CacheHasOneOwner
  BY DEF FirewallInv
<1> QED
  BY <1>1, FirewallInvariance, PTL

\* At rest iptables holds each rule as often as the lists of RuleList do, but for the
\* commands that were lost and the removals that were overtaken, each of them counted:
\* for any hosts, applications, links and events, and any number of failures.
THEOREM FirewallListed == Spec => []FirewallIsListed
<1>1. FirewallInv => FirewallIsListed
  <2> SUFFICES ASSUME FirewallInv, \A t \in Threads : Idle(t),
                      \A c \in Commands, h \in Hosts : running[c][h] = 0, NEW h \in Hosts
               PROVE  iptables[h] = Listed(h) + astray[h]
    BY DEF FirewallIsListed
  <2>1. /\ todo["main"] = <<>> /\ todo["kernel"] = <<>> /\ todo["xorg"] = <<>>
        /\ todo["cache"] = <<>>
    BY DEF Idle, Threads
  <2>2. running["insert"][h] = 0 /\ running["delete"][h] = 0
    BY DEF Commands
  <2>3. Removes(<<>>) = {}
    BY DEF Removes
  <2>4. HalfRemoved(<<>>, h) = 0
    BY <2>3, NotHalfRemoved
  <2>5. iptables[h] \in Nat /\ Listed(h) \in Nat /\ astray[h] \in Int
    BY BalanceFacts
  <2>6. iptables[h] + 0 + 0 + 0 + 0 + 0 = Listed(h) + 0 + astray[h]
    BY <2>1, <2>2, <2>4 DEF FirewallInv, Balanced
  <2> QED
    BY <2>5, <2>6
<1> QED
  BY <1>1, FirewallInvariance, PTL
=============================================================================
