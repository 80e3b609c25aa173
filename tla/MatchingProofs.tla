--------------------------- MODULE MatchingProofs ---------------------------
(***************************************************************************)
(* For every configuration and every request the search finds what the     *)
(* first rule that applies says.  The invariant says of each of the three  *)
(* loops what is known of the rules, mrules and trules it has passed.      *)
(***************************************************************************)
EXTENDS Matching, FiniteSetTheorems, TLAPS

\* MRule::matches counts the conditions it has used and compares the count with
\* the number of conditions: it returns true exactly if every condition holds.
LEMMA MRuleMatchesHolds ==
  ASSUME NEW mr \in MRules, NEW vals \in Contexts
  PROVE  MRuleMatches(mr, vals) <=> Holds(mr, vals)
<1> DEFINE used == {k \in DOMAIN vals \cap DOMAIN mr : mr[k] \notin Broken}
<1>1. DOMAIN mr \in SUBSET Vars
  BY DEF MRules
<1>2. IsFiniteSet(DOMAIN mr)
  BY <1>1, VarsFinite, FS_Subset
<1>3. used \in SUBSET DOMAIN mr
  OBVIOUS
<1>4. Cardinality(used) = Cardinality(DOMAIN mr) <=> used = DOMAIN mr
  BY <1>2, <1>3, FS_Subset
<1>5. MRuleMatches(mr, vals) <=>
        (\A k \in used : Clean[k][vals[k]] \in Accepts[mr[k]]) /\ used = DOMAIN mr
  BY <1>4 DEF MRuleMatches
<1> QED
  BY <1>5 DEF Holds

\* The search starts with nothing passed.
LEMMA SearchInit == Init => SearchInv
<1> SUFFICES ASSUME Init PROVE SearchInv
  OBVIOUS
<1>0. loops \in Seq(AbstractRules) /\ rules \in Seq(AbstractRules)
  BY LoopListsType, RuleListsType, Zenon DEF Init
<1>n. 1 \in Nat \ {0}
  OBVIOUS
<1>1. TypeOK
  BY <1>0, <1>n, Zenon DEF Init, TypeOK
<1>2. PassedNoneThatApplies
  BY <1>1 DEF Init, TypeOK, PassedNoneThatApplies, List
<1> QED
  BY <1>1, <1>2 DEF Init, SearchInv, FirstRuleDecides

\* No step changes the arguments, and so none changes which rules apply, which
\* trules cover the current domain and whether the request is barred.
LEMMA ArgumentsStay ==
  ASSUME UNCHANGED args
  PROVE  /\ \A r : Applies(r)' <=> Applies(r)
         /\ \A tr : TRuleMatches(tr)' <=> TRuleMatches(tr)
         /\ \A mr : Holds(mr, values)' <=> Holds(mr, values)
         /\ NoneApplies(loops)' <=> NoneApplies(loops)
         /\ NoneApplies(rules)' <=> NoneApplies(rules)
         /\ Barred' <=> Barred
         /\ \A x : IsFirstDecision(x)' <=> IsFirstDecision(x)
<1>1. app' = app /\ current' = current /\ values' = values /\ loops' = loops /\ rules' = rules
  BY DEF args
<1>2. \A mr : Holds(mr, values)' <=> Holds(mr, values)
  BY <1>1 DEF Holds
<1>3. \A r : Applies(r)' <=> Applies(r)
  BY <1>1 DEF Applies, Holds
<1>4. \A tr : TRuleMatches(tr)' <=> TRuleMatches(tr)
  BY <1>1 DEF TRuleMatches
<1>5. Barred' <=> Barred
  BY <1>1 DEF Barred, FirstToApply, NoneApplies, Refuses, Applies, Holds, TRuleMatches
<1>6. \A x : IsFirstDecision(x)' <=> IsFirstDecision(x)
  BY <1>1 DEF IsFirstDecision, Gives, FirstToApply, FirstToCover, NoneApplies, Applies, Holds,
              TRuleMatches, PromptOf
<1> QED
  BY <1>1, <1>2, <1>3, <1>4, <1>5, <1>6 DEF NoneApplies, Applies, Holds

\* The rule the search is in is a rule, with rules inside.
LEMMA ListOfRules ==
  ASSUME TypeOK
  PROVE  /\ List \in Seq(AbstractRules)
         /\ \A k \in DOMAIN List : List[k] \in AbstractRules
         /\ DOMAIN List = 1..Len(List)
         /\ Len(List) \in Nat
<1>1. List \in Seq(AbstractRules)
  BY DEF TypeOK, List
<1> QED
  BY <1>1

\* A request that is barred has no transition.
LEMMA BarredGetsNothing ==
  ASSUME TypeOK, Barred
  PROVE  IsFirstDecision(NoTransition)
<1>1. DOMAIN loops = 1..Len(loops) /\ DOMAIN rules = 1..Len(rules)
  BY DEF TypeOK
<1>2. Len(loops) \in Nat /\ Len(rules) \in Nat
  BY DEF TypeOK
<1>3. \A r, d : Refuses(r) => Gives(r, d, NoTransition)
  BY DEF Refuses, Gives, FirstToCover
<1>4. CASE \E k \in DOMAIN loops : FirstToApply(loops, k) /\ Refuses(loops[k])
  <2> PICK k \in DOMAIN loops : FirstToApply(loops, k) /\ Refuses(loops[k])
    BY <1>4
  <2>1. \A j \in DOMAIN loops : FirstToApply(loops, j) => j = k
    BY <1>1, <1>2 DEF FirstToApply
  <2>2. ~NoneApplies(loops)
    BY DEF NoneApplies, FirstToApply
  <2> QED
    BY <2>1, <2>2, <1>3 DEF IsFirstDecision
<1>5. CASE /\ NoneApplies(loops)
           /\ \E k \in DOMAIN rules : FirstToApply(rules, k) /\ Refuses(rules[k])
  <2> PICK k \in DOMAIN rules : FirstToApply(rules, k) /\ Refuses(rules[k])
    BY <1>5
  <2>1. \A j \in DOMAIN rules : FirstToApply(rules, j) => j = k
    BY <1>1, <1>2 DEF FirstToApply
  <2>2. \A j \in DOMAIN loops : ~FirstToApply(loops, j)
    BY <1>5 DEF NoneApplies, FirstToApply
  <2>3. ~NoneApplies(rules)
    BY DEF NoneApplies, FirstToApply
  <2> QED
    BY <2>1, <2>2, <2>3, <1>3 DEF IsFirstDecision
<1> QED
  BY <1>4, <1>5 DEF Barred

\* So has a request no loop and no rule applies to.
LEMMA NothingAppliesNothingGiven ==
  NoneApplies(loops) /\ NoneApplies(rules) => IsFirstDecision(NoTransition)
BY DEF NoneApplies, FirstToApply, IsFirstDecision

\* The rule that applies decides, with the first trule that covers the domain.
LEMMA FirstCoverGives ==
  ASSUME TypeOK, PassedNoneThatApplies, InRule, Applies(List[i]),
         NEW n \in DOMAIN List[i].trules, FirstToCover(List[i], n)
  PROVE  IsFirstDecision([from |-> current, to |-> TargetDomain(List[i]),
                          prompt |-> PromptOf(List[i], List[i].trules[n])])
<1> DEFINE x == [from |-> current, to |-> TargetDomain(List[i]),
                 prompt |-> PromptOf(List[i], List[i].trules[n])]
<1>1. /\ DOMAIN List = 1..Len(List)
      /\ Len(List) \in Nat
      /\ List[i] \in AbstractRules
  BY ListOfRules DEF InRule
<1>2. \A k \in DOMAIN List : FirstToApply(List, k) => k = i
  BY <1>1 DEF FirstToApply, PassedNoneThatApplies, InRule
<1>3. ~NoneApplies(List)
  BY DEF NoneApplies, InRule
<1>4. Gives(List[i], TargetDomain(List[i]), x)
  <2>1. DOMAIN List[i].trules \subseteq Nat
    BY <1>1 DEF AbstractRules
  <2>2. \A j \in DOMAIN List[i].trules : FirstToCover(List[i], j) => j = n
    BY <2>1 DEF FirstToCover
  <2>3. \E j \in DOMAIN List[i].trules : TRuleMatches(List[i].trules[j])
    BY DEF FirstToCover
  <2> QED
    BY <2>2, <2>3 DEF Gives
<1>5. CASE list = "loops"
  <2>1. List = loops /\ TargetDomain(List[i]) = current
    BY <1>5 DEF List, TargetDomain
  <2> QED
    BY <2>1, <1>2, <1>3, <1>4 DEF IsFirstDecision
<1>6. CASE list = "rules"
  <2>1. List = rules /\ TargetDomain(List[i]) = rules[i].to /\ NoneApplies(loops)
    BY <1>6 DEF List, TargetDomain, PassedNoneThatApplies
  <2>2. \A k \in DOMAIN loops : ~FirstToApply(loops, k)
    BY <2>1 DEF NoneApplies, FirstToApply
  <2> QED
    BY <2>1, <2>2, <1>2, <1>3, <1>4 DEF IsFirstDecision
<1> QED
  BY <1>5, <1>6 DEF TypeOK

\* One step of the search keeps what is known of the part already searched.
LEMMA SearchStep == SearchInv /\ [Next]_vars => SearchInv'
<1> SUFFICES ASSUME SearchInv, [Next]_vars PROVE SearchInv'
  OBVIOUS
<1>t. TypeOK
  BY DEF SearchInv
<1>a. UNCHANGED args
  BY DEF Next, EnterRule, LeaveList, TryMRule, LeaveMRules, TryTRule, LeaveTRules, vars, args
<1>v. app' = app /\ current' = current /\ values' = values /\ loops' = loops /\ rules' = rules
  BY <1>a DEF args
<1>l. /\ DOMAIN List = 1..Len(List)
      /\ Len(List) \in Nat
      /\ \A k \in DOMAIN List : List[k] \in AbstractRules
  BY <1>t, ListOfRules
<1>s. list' = list => List' = List
  BY <1>v DEF List
<1>1. CASE EnterRule
  <2>1. TypeOK'
    BY <1>1, <1>t, <1>v DEF EnterRule, TypeOK
  <2>2. list' = list /\ List' = List /\ ~matchedButRefused /\ ~matchedButRefused'
    BY <1>1, <1>s DEF EnterRule
  <2>3. PassedNoneThatApplies
    BY <1>1 DEF EnterRule, SearchInv
  <2>4. i \in DOMAIN List
    BY <1>1, <1>l, <1>t DEF EnterRule, TypeOK
  <2>5. PassedNoneThatApplies'
    <3>1. \A j \in DOMAIN List : j < i' => ~Applies(List[j])
      BY <1>1, <1>l, <1>t, <2>3, <2>4 DEF EnterRule, TypeOK, PassedNoneThatApplies, Applies
    <3>2. \A j \in DOMAIN List' : j < i' => ~Applies(List[j])'
      BY <3>1, <2>2, <1>v DEF Applies, Holds
    <3> QED
      BY <3>2, <2>2, <2>3, <1>a, ArgumentsStay DEF PassedNoneThatApplies
  <2>6. pc' = "mrule" => InMRules'
    <3> SUFFICES ASSUME pc' = "mrule" PROVE InMRules'
      OBVIOUS
    <3>1. m' = 1 /\ i' = i /\ app # NoProgram /\ List[i].program = app
      BY <1>1 DEF EnterRule
    <3>2. List'[i'] = List[i] /\ List[i] \in AbstractRules
      BY <2>2, <3>1, <2>4, <1>l
    <3>3. DOMAIN List'[i'].mrules \subseteq Nat \ {0}
      BY <3>2 DEF AbstractRules
    <3>4. InRule'
      BY <3>1, <3>2, <2>2, <2>4, <1>v DEF InRule
    <3> QED
      BY <3>1, <3>3, <3>4 DEF InMRules
  <2>7. pc' \in {"rule", "mrule"} /\ result' = NoTransition
    BY <1>1 DEF EnterRule, SearchInv
  <2> QED
    BY <2>1, <2>2, <2>5, <2>6, <2>7 DEF SearchInv, FirstRuleDecides
<1>2. CASE LeaveList
  <2>1. TypeOK'
    BY <1>2, <1>t, <1>v DEF LeaveList, TypeOK
  <2>2. /\ result' = NoTransition /\ result = NoTransition
        /\ matchedButRefused' = matchedButRefused
        /\ pc = "rule" /\ pc' \in {"rule", "done"}
    BY <1>2 DEF LeaveList, SearchInv
  <2>3. matchedButRefused' => Barred'
    BY <2>2, <1>a, ArgumentsStay DEF SearchInv
  <2>4. ~matchedButRefused => NoneApplies(List) /\ PassedNoneThatApplies
    <3> SUFFICES ASSUME ~matchedButRefused PROVE NoneApplies(List) /\ PassedNoneThatApplies
      OBVIOUS
    <3>1. PassedNoneThatApplies
      BY <2>2 DEF SearchInv
    <3>2. i > Len(List) /\ i \in Nat
      BY <1>2, <1>t DEF LeaveList, TypeOK
    <3> QED
      BY <3>1, <3>2, <1>l DEF PassedNoneThatApplies, NoneApplies
  <2>5. pc' = "rule" /\ ~matchedButRefused' => PassedNoneThatApplies'
    <3> SUFFICES ASSUME pc' = "rule", ~matchedButRefused' PROVE PassedNoneThatApplies'
      OBVIOUS
    <3>1. list = "loops" /\ list' = "rules" /\ i' = 1
      BY <1>2 DEF LeaveList
    <3>2. NoneApplies(loops)'
      BY <3>1, <2>2, <2>4, <1>a, ArgumentsStay DEF List
    <3>3. \A j \in DOMAIN List' : ~(j < i')
      BY <3>1, <2>1 DEF TypeOK, List
    <3> QED
      BY <3>2, <3>3 DEF PassedNoneThatApplies
  <2>6. pc' = "done" => IsFirstDecision(NoTransition)
    <3> SUFFICES ASSUME pc' = "done" PROVE IsFirstDecision(NoTransition)
      OBVIOUS
    <3>1. CASE matchedButRefused
      BY <3>1, <1>t, BarredGetsNothing DEF SearchInv
    <3>2. CASE ~matchedButRefused
      <4>1. list = "rules" /\ List = rules
        BY <1>2, <1>t DEF LeaveList, TypeOK, List
      <4> QED
        BY <3>2, <4>1, <2>4, NothingAppliesNothingGiven DEF PassedNoneThatApplies
    <3> QED
      BY <3>1, <3>2
  <2>7. FirstRuleDecides'
    BY <2>2, <2>6, <1>a, ArgumentsStay DEF FirstRuleDecides
  <2> QED
    BY <2>1, <2>2, <2>3, <2>5, <2>7 DEF SearchInv
<1>3. CASE TryMRule
  <2>1. TypeOK'
    BY <1>3, <1>t, <1>v DEF TryMRule, TypeOK
  <2>2. /\ list' = list /\ List' = List /\ i' = i
        /\ ~matchedButRefused /\ ~matchedButRefused'
        /\ result' = NoTransition
        /\ pc = "mrule" /\ pc' \in {"mrule", "trule"}
    BY <1>3, <1>s DEF TryMRule, SearchInv
  <2>3. PassedNoneThatApplies /\ InMRules /\ InRule
    BY <2>2 DEF SearchInv, InMRules
  <2>4. PassedNoneThatApplies'
    BY <2>2, <2>3, <1>v DEF PassedNoneThatApplies, NoneApplies, Applies, Holds
  <2>5. InRule'
    BY <2>2, <2>3, <1>v DEF InRule
  <2>6. /\ List[i] \in AbstractRules
        /\ DOMAIN List[i].mrules = 1..Len(List[i].mrules)
        /\ Len(List[i].mrules) \in Nat
        /\ DOMAIN List[i].trules \subseteq Nat \ {0}
    BY <2>3, <1>l DEF InRule, AbstractRules
  <2>7. m \in DOMAIN List[i].mrules
    BY <1>3, <1>t, <2>6 DEF TryMRule, TypeOK
  <2>8. List[i].mrules[m] \in MRules
    BY <2>6, <2>7 DEF AbstractRules
  <2>9. MRuleMatches(List[i].mrules[m], values) <=> Holds(List[i].mrules[m], values)
    BY <2>8, <1>t, MRuleMatchesHolds DEF TypeOK
  <2>10. pc' = "mrule" => InMRules'
    <3> SUFFICES ASSUME pc' = "mrule" PROVE InMRules'
      OBVIOUS
    <3>1. m' = m + 1 /\ ~Holds(List[i].mrules[m], values)
      BY <1>3, <2>9 DEF TryMRule
    <3>2. \A n \in DOMAIN List[i].mrules : n < m' => ~Holds(List[i].mrules[n], values)
      BY <3>1, <2>2, <2>3, <2>6, <2>7 DEF InMRules
    <3> QED
      BY <3>2, <2>2, <2>5, <1>v DEF InMRules, Holds
  <2>11. pc' = "trule" => InTRules'
    <3> SUFFICES ASSUME pc' = "trule" PROVE InTRules'
      OBVIOUS
    <3>1. m' = m /\ t' = 1 /\ Holds(List[i].mrules[m], values)
      BY <1>3, <2>9 DEF TryMRule
    <3>2. Holds(List[i].mrules[m], values)'
      BY <3>1, <2>2, <1>v DEF Holds
    <3>3. \A n \in DOMAIN List'[i'].trules : ~(n < t')
      BY <3>1, <2>2, <2>6
    <3> QED
      BY <3>1, <3>2, <3>3, <2>2, <2>5, <2>7 DEF InTRules
  <2> QED
    BY <2>1, <2>2, <2>4, <2>10, <2>11 DEF SearchInv, FirstRuleDecides
<1>4. CASE LeaveMRules
  <2>1. TypeOK'
    BY <1>4, <1>t, <1>v DEF LeaveMRules, TypeOK
  <2>2. /\ list' = list /\ List' = List /\ i' = i + 1
        /\ matchedButRefused' = matchedButRefused
        /\ result' = NoTransition
        /\ pc = "mrule" /\ pc' = "rule"
    BY <1>4, <1>s DEF LeaveMRules, SearchInv
  <2>3. InMRules /\ InRule
    BY <2>2 DEF SearchInv, InMRules
  <2>4. matchedButRefused' => Barred'
    BY <2>2, <1>a, ArgumentsStay DEF SearchInv
  <2>5. ~matchedButRefused' => PassedNoneThatApplies'
    <3> SUFFICES ASSUME ~matchedButRefused' PROVE PassedNoneThatApplies'
      OBVIOUS
    <3>1. PassedNoneThatApplies
      BY <2>2 DEF SearchInv
    <3>2. /\ List[i] \in AbstractRules
          /\ DOMAIN List[i].mrules = 1..Len(List[i].mrules)
          /\ Len(List[i].mrules) \in Nat
      BY <2>3, <1>l DEF InRule, AbstractRules
    <3>3. m > Len(List[i].mrules) /\ m \in Nat
      BY <1>4, <1>t, <2>2 DEF LeaveMRules, TypeOK
    <3>4. ~Applies(List[i])
      BY <2>2, <2>3, <3>2, <3>3 DEF InMRules, Applies
    <3>5. \A j \in DOMAIN List : j < i' => ~Applies(List[j])
      BY <3>1, <3>4, <2>2, <1>l, <1>t DEF TypeOK, PassedNoneThatApplies
    <3> QED
      BY <3>1, <3>5, <2>2, <1>v DEF PassedNoneThatApplies, NoneApplies, Applies, Holds
  <2> QED
    BY <2>1, <2>2, <2>4, <2>5 DEF SearchInv, FirstRuleDecides
<1>5. CASE TryTRule
  <2> DEFINE r == List[i]
             x == [from |-> current, to |-> TargetDomain(r), prompt |-> PromptOf(r, r.trules[t])]
  <2>1. /\ list' = list /\ List' = List /\ i' = i /\ m' = m
        /\ matchedButRefused' = matchedButRefused
        /\ result = NoTransition
        /\ pc = "trule"
    BY <1>5, <1>s DEF TryTRule, SearchInv
  <2>2. PassedNoneThatApplies /\ InTRules /\ InRule /\ ~matchedButRefused
    BY <2>1 DEF SearchInv, InTRules
  <2>3. Applies(r)
    BY <2>2 DEF Applies, InTRules, InRule
  <2>4. /\ r \in AbstractRules
        /\ DOMAIN r.trules = 1..Len(r.trules)
        /\ Len(r.trules) \in Nat
    BY <2>2, <1>l DEF InRule, AbstractRules
  <2>5. t \in DOMAIN r.trules /\ t \in Nat
    BY <1>5, <1>t, <2>4 DEF TryTRule, TypeOK
  <2>6. r.trules[t] \in TRules
    BY <2>4, <2>5 DEF AbstractRules
  <2>7. CASE TRuleMatches(r.trules[t])
    <3>1. result' = x /\ pc' = "done" /\ t' = t
      BY <1>5, <2>7 DEF TryTRule
    <3>2. x \in Transitions
      BY <1>t, <2>4, <2>6 DEF TypeOK, Transitions, AbstractRules, TRules, TargetDomain, PromptOf
    <3>3. TypeOK'
      BY <1>t, <1>v, <2>1, <3>1, <3>2 DEF TypeOK
    <3>4. FirstToCover(r, t)
      BY <2>2, <2>5, <2>7 DEF FirstToCover, InTRules
    <3>5. IsFirstDecision(x)
      BY <1>t, <2>2, <2>3, <2>5, <3>4, FirstCoverGives
    <3>6. FirstRuleDecides'
      <4> HIDE DEF x
      <4> QED
        BY <3>1, <3>5, <1>a, ArgumentsStay DEF FirstRuleDecides
    <3> QED
      BY <2>1, <2>2, <3>1, <3>3, <3>6 DEF SearchInv
  <2>8. CASE ~TRuleMatches(r.trules[t])
    <3>1. result' = result /\ pc' = pc /\ t' = t + 1
      BY <1>5, <2>8 DEF TryTRule
    <3>2. TypeOK'
      BY <1>t, <1>v, <2>1, <3>1 DEF TypeOK
    <3>3. PassedNoneThatApplies'
      BY <2>1, <2>2, <1>v DEF PassedNoneThatApplies, NoneApplies, Applies, Holds
    <3>4. \A n \in DOMAIN r.trules : n < t' => ~TRuleMatches(r.trules[n])
      BY <2>2, <2>4, <2>5, <2>8, <3>1 DEF InTRules
    <3>5. InTRules'
      BY <2>1, <2>2, <3>4, <1>v DEF InTRules, InRule, Holds, TRuleMatches
    <3> QED
      BY <2>1, <2>2, <3>1, <3>2, <3>3, <3>5 DEF SearchInv, FirstRuleDecides
  <2> QED
    BY <2>7, <2>8
<1>6. CASE LeaveTRules
  <2>1. TypeOK'
    BY <1>6, <1>t, <1>v DEF LeaveTRules, TypeOK
  <2>2. /\ list' = list /\ List' = List /\ i' = i
        /\ matchedButRefused'
        /\ result' = NoTransition
        /\ pc = "trule" /\ pc' = "mrule"
    BY <1>6, <1>s DEF LeaveTRules, SearchInv
  <2>3. PassedNoneThatApplies /\ InTRules /\ InRule
    BY <2>2 DEF SearchInv, InTRules
  <2>4. /\ List[i] \in AbstractRules
        /\ DOMAIN List[i].trules = 1..Len(List[i].trules)
        /\ Len(List[i].trules) \in Nat
    BY <2>3, <1>l DEF InRule, AbstractRules
  <2>5. Refuses(List[i])
    <3>1. Applies(List[i])
      BY <2>3 DEF Applies, InTRules, InRule
    <3>2. t > Len(List[i].trules) /\ t \in Nat
      BY <1>6, <1>t DEF LeaveTRules, TypeOK
    <3> QED
      BY <3>1, <3>2, <2>3, <2>4 DEF Refuses, InTRules
  <2>6. FirstToApply(List, i)
    BY <2>3, <2>5 DEF FirstToApply, Refuses, PassedNoneThatApplies, InRule
  <2>7. Barred
    BY <2>3, <2>5, <2>6, <1>t DEF Barred, List, PassedNoneThatApplies, InRule, TypeOK
  <2>8. Barred'
    BY <2>7, <1>a, ArgumentsStay
  <2>9. InMRules'
    BY <2>2, <2>3, <1>v DEF InMRules, InRule
  <2> QED
    BY <2>1, <2>2, <2>8, <2>9 DEF SearchInv, FirstRuleDecides
<1>7. CASE UNCHANGED vars
  <2>1. /\ list' = list /\ i' = i /\ m' = m /\ t' = t /\ pc' = pc
        /\ matchedButRefused' = matchedButRefused /\ result' = result
    BY <1>7 DEF vars
  <2>2. List' = List
    BY <2>1, <1>s
  <2>3. TypeOK'
    BY <1>t, <1>v, <2>1 DEF TypeOK
  <2>4. PassedNoneThatApplies => PassedNoneThatApplies'
    BY <1>a, <2>1, <2>2, ArgumentsStay DEF PassedNoneThatApplies
  <2>5. Barred => Barred'
    BY <1>a, ArgumentsStay
  <2>6. InRule => InRule'
    BY <1>v, <2>1, <2>2 DEF InRule
  <2>7. InMRules => InMRules'
    BY <1>a, <2>1, <2>2, <2>6, ArgumentsStay DEF InMRules
  <2>8. InTRules => InTRules'
    BY <1>a, <2>1, <2>2, <2>6, ArgumentsStay DEF InTRules
  <2>9. FirstRuleDecides'
    BY <1>a, <2>1, ArgumentsStay DEF FirstRuleDecides, SearchInv
  <2> QED
    BY <2>1, <2>3, <2>4, <2>5, <2>7, <2>8, <2>9 DEF SearchInv
<1> QED
  BY <1>1, <1>2, <1>3, <1>4, <1>5, <1>6, <1>7 DEF Next

\* The flags, indices and result of getFirstMatchingTransition keep their types: in
\* particular a transition is built only from a rule and a trule that are there.
THEOREM MatchingTypeCorrect == Spec => []TypeOK
<1>1. SearchInv => TypeOK
  BY DEF SearchInv
<1> QED
  BY <1>1, SearchInit, SearchStep, PTL DEF Spec

\* For every configuration and every request, getFirstMatchingTransition returns
\* what the first loop, or else the first rule, that applies gives.
THEOREM MatchingFirstRuleDecides == Spec => []FirstRuleDecides
<1>1. SearchInv => FirstRuleDecides
  BY DEF SearchInv
<1> QED
  BY <1>1, SearchInit, SearchStep, PTL DEF Spec
=============================================================================
