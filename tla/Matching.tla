------------------------------ MODULE Matching ------------------------------
(***************************************************************************)
(* Configuration::getFirstMatchingTransition: the transition a client may  *)
(* make.  The loops of the program are tried in order, then its rules; in  *)
(* each, its mrules against the context of the client, then its trules     *)
(* against the current domain.  A rule whose mrule matches and whose       *)
(* trules do not ends the search (matchedButRefused), and this is carried  *)
(* from the inner loops to the outer ones through flags and early returns. *)
(*                                                                         *)
(* A regular expression is the set of strings it accepts.  What is decided *)
(* about notify is decided like prompt and left out.                       *)
(***************************************************************************)
EXTENDS Integers, Sequences, FiniteSets

CONSTANTS
  Vars, Values,       \* variables of a context, and their values
  Regexps, Accepts,   \* Accepts[x]: the values regular expression x matches
  Broken,             \* the regular expressions that are not valid
  Clean,              \* Clean[k][v]: value v of variable k as it is compared
  Programs, NoProgram,
  Domains, Covers,    \* Covers[p]: the domains pattern p matches
  LoopLists,          \* what _loops[app.name()] may be
  RuleLists,          \* what _rules[app.name()] may be
  NoTransition

MRules == UNION {[S -> Regexps] : S \in SUBSET Vars}
Contexts == UNION {[S -> Values] : S \in SUBSET Vars}
TRules == [from : DOMAIN Covers, prompt : {"unset", "true", "false"}]
AbstractRules ==
  [program : Programs, mrules : Seq(MRules), trules : Seq(TRules), prompt : BOOLEAN,
   to : Domains]
Transitions == [from : Domains, to : Domains, prompt : BOOLEAN]

ASSUME VarsFinite == IsFiniteSet(Vars)
ASSUME LoopListsType == LoopLists \in SUBSET Seq(AbstractRules)
ASSUME RuleListsType == RuleLists \in SUBSET Seq(AbstractRules)
ASSUME NoTransitionIsNone == NoTransition \notin Transitions

VARIABLES
  app, current, values,     \* the arguments
  loops, rules,             \* app_loops, app_rules
  pc, list, i, m, t,        \* the loop that runs, the list i is in, the indices
  matchedButRefused,
  result

args == <<app, current, values, loops, rules>>
vars == <<app, current, values, loops, rules, pc, list, i, m, t, matchedButRefused, result>>

TypeOK ==
  /\ app \in Programs \cup {NoProgram}
  /\ current \in Domains
  /\ values \in Contexts
  /\ loops \in Seq(AbstractRules) /\ rules \in Seq(AbstractRules)
  /\ pc \in {"rule", "mrule", "trule", "done"}
  /\ list \in {"loops", "rules"}
  /\ i \in Nat \ {0} /\ m \in Nat \ {0} /\ t \in Nat \ {0}
  /\ matchedButRefused \in BOOLEAN
  /\ result \in Transitions \cup {NoTransition}

Init ==
  /\ app \in Programs \cup {NoProgram}
  /\ current \in Domains
  /\ values \in Contexts
  /\ loops \in LoopLists /\ rules \in RuleLists
  /\ pc = "rule" /\ list = "loops"
  /\ i = 1 /\ m = 1 /\ t = 1
  /\ matchedButRefused = FALSE
  /\ result = NoTransition

-----------------------------------------------------------------------------
\* MRule::matches, with paramsUsed.
MRuleMatches(mr, vals) ==
  LET paramsUsed == {k \in DOMAIN vals \cap DOMAIN mr : mr[k] \notin Broken}
  IN  /\ \A k \in paramsUsed : Clean[k][vals[k]] \in Accepts[mr[k]]
      /\ Cardinality(paramsUsed) = Cardinality(DOMAIN mr)

\* TRule::matches.
TRuleMatches(tr) == current \in Covers[tr.from]

List == IF list = "loops" THEN loops ELSE rules

\* Loop::targetDomain and Rule::targetDomain.
TargetDomain(r) == IF list = "loops" THEN current ELSE r.to

PromptOf(r, tr) == IF tr.prompt = "unset" THEN r.prompt ELSE tr.prompt = "true"

\* AbstractRule::matches is called for the next rule: it resets the flag and
\* returns at once if the rule is not for the program.
EnterRule ==
  /\ pc = "rule"
  /\ ~matchedButRefused
  /\ i <= Len(List)
  /\ IF app # NoProgram /\ List[i].program = app
       THEN pc' = "mrule" /\ m' = 1 /\ UNCHANGED i
       ELSE i' = i + 1 /\ UNCHANGED <<pc, m>>
  /\ UNCHANGED <<args, list, t, matchedButRefused, result>>

\* Mutant: the rules are tried although a loop has refused.
LeaveListResets ==
  /\ pc = "rule"
  /\ matchedButRefused \/ i > Len(List)
  /\ IF list = "loops"
       THEN /\ list' = "rules" /\ i' = 1 /\ matchedButRefused' = FALSE
            /\ UNCHANGED pc
       ELSE pc' = "done" /\ UNCHANGED <<list, i, matchedButRefused>>
  /\ UNCHANGED <<args, m, t, result>>

\* After the loops come the rules, which are not even begun if a loop has
\* refused; after the rules there is no transition.
LeaveList ==
  /\ pc = "rule"
  /\ matchedButRefused \/ i > Len(List)
  /\ IF list = "loops"
       THEN list' = "rules" /\ i' = 1 /\ UNCHANGED pc
       ELSE pc' = "done" /\ UNCHANGED <<list, i>>
  /\ UNCHANGED <<args, m, t, matchedButRefused, result>>

TryMRule ==
  /\ pc = "mrule"
  /\ m <= Len(List[i].mrules)
  /\ ~matchedButRefused
  /\ IF MRuleMatches(List[i].mrules[m], values)
       THEN pc' = "trule" /\ t' = 1 /\ UNCHANGED m
       ELSE m' = m + 1 /\ UNCHANGED <<pc, t>>
  /\ UNCHANGED <<args, list, i, matchedButRefused, result>>

\* AbstractRule::matches returns no transition.
LeaveMRules ==
  /\ pc = "mrule"
  /\ matchedButRefused \/ m > Len(List[i].mrules)
  /\ pc' = "rule"
  /\ i' = i + 1
  /\ UNCHANGED <<args, list, m, t, matchedButRefused, result>>

\* Mutant: the loop over the trules does not go on.
TryFirstTRule ==
  /\ pc = "trule"
  /\ t <= Len(List[i].trules)
  /\ LET tr == List[i].trules[t]
     IN  IF TRuleMatches(tr)
           THEN /\ result' = [from |-> current, to |-> TargetDomain(List[i]),
                              prompt |-> PromptOf(List[i], tr)]
                /\ pc' = "done"
                /\ UNCHANGED t
           ELSE UNCHANGED <<pc, t, result>>
  /\ UNCHANGED <<args, list, i, m, matchedButRefused>>

\* Mutant: the index is decremented.
TryTRuleDown ==
  /\ pc = "trule"
  /\ t <= Len(List[i].trules)
  /\ t' = t - 1
  /\ UNCHANGED <<args, list, i, m, matchedButRefused, pc, result>>

TryTRule ==
  /\ pc = "trule"
  /\ t <= Len(List[i].trules)
  /\ LET tr == List[i].trules[t]
     IN  IF TRuleMatches(tr)
           THEN /\ result' = [from |-> current, to |-> TargetDomain(List[i]),
                              prompt |-> PromptOf(List[i], tr)]
                /\ pc' = "done"
                /\ UNCHANGED t
           ELSE t' = t + 1 /\ UNCHANGED <<pc, result>>
  /\ UNCHANGED <<args, list, i, m, matchedButRefused>>

LeaveTRules ==
  /\ pc = "trule"
  /\ t > Len(List[i].trules)
  /\ matchedButRefused' = TRUE
  /\ m' = m + 1
  /\ pc' = "mrule"
  /\ UNCHANGED <<args, list, i, t, result>>

Next ==
  \/ EnterRule \/ LeaveList
  \/ TryMRule \/ LeaveMRules
  \/ TryTRule \/ LeaveTRules

Spec == Init /\ [][Next]_vars

FairSpec == Spec /\ WF_vars(Next)

-----------------------------------------------------------------------------
(* Properties *)

\* The conditions of an mrule hold of the context: each names a variable the
\* context has, and its regular expression is valid and matches.
Holds(mr, vals) ==
  \A k \in DOMAIN mr : /\ k \in DOMAIN vals
                       /\ mr[k] \notin Broken
                       /\ Clean[k][vals[k]] \in Accepts[mr[k]]

Applies(r) ==
  /\ app # NoProgram
  /\ r.program = app
  /\ \E n \in DOMAIN r.mrules : Holds(r.mrules[n], values)

FirstToApply(s, k) ==
  /\ k \in DOMAIN s
  /\ Applies(s[k])
  /\ \A j \in DOMAIN s : j < k => ~Applies(s[j])

NoneApplies(s) == \A k \in DOMAIN s : ~Applies(s[k])

\* The first trule of the rule that covers the current domain.
FirstToCover(r, n) ==
  /\ n \in DOMAIN r.trules
  /\ TRuleMatches(r.trules[n])
  /\ \A j \in DOMAIN r.trules : j < n => ~TRuleMatches(r.trules[j])

\* Rule r, if it decides with target d, gives x.
Gives(r, d, x) ==
  /\ (\A n \in DOMAIN r.trules : ~TRuleMatches(r.trules[n])) => x = NoTransition
  /\ \A n \in DOMAIN r.trules : FirstToCover(r, n) =>
       x = [from |-> current, to |-> d, prompt |-> PromptOf(r, r.trules[n])]

\* x is what the first loop, or else the first rule, that applies gives.
IsFirstDecision(x) ==
  /\ \A k \in DOMAIN loops : FirstToApply(loops, k) => Gives(loops[k], current, x)
  /\ NoneApplies(loops) =>
       /\ \A k \in DOMAIN rules : FirstToApply(rules, k) => Gives(rules[k], rules[k].to, x)
       /\ NoneApplies(rules) => x = NoTransition

\* The first loop, or else the first rule, that applies to the program and its
\* context decides alone: its first trule that covers the current domain gives
\* the transition, and if none does there is no transition, whatever the loops
\* and rules after it say (getFirstMatchingTransition and AbstractRule::matches).
FirstRuleDecides == pc = "done" => IsFirstDecision(result)

\* The search ends.
SearchEnds == <>(pc = "done")

-----------------------------------------------------------------------------
(* The inductive invariant: what is known of the part already searched. *)

\* No rule before the current one applies, and no loop once the rules are begun.
PassedNoneThatApplies ==
  /\ \A j \in DOMAIN List : j < i => ~Applies(List[j])
  /\ list = "rules" => NoneApplies(loops)

\* Rule r applies and none of its trules covers the current domain.
Refuses(r) == Applies(r) /\ \A n \in DOMAIN r.trules : ~TRuleMatches(r.trules[n])

\* The rule that decides refuses.
Barred ==
  \/ \E k \in DOMAIN loops : FirstToApply(loops, k) /\ Refuses(loops[k])
  \/ /\ NoneApplies(loops)
     /\ \E k \in DOMAIN rules : FirstToApply(rules, k) /\ Refuses(rules[k])

InRule == i \in DOMAIN List /\ app # NoProgram /\ List[i].program = app

InMRules ==
  /\ InRule
  /\ ~matchedButRefused =>
       \A n \in DOMAIN List[i].mrules : n < m => ~Holds(List[i].mrules[n], values)

InTRules ==
  /\ InRule
  /\ ~matchedButRefused
  /\ m \in DOMAIN List[i].mrules
  /\ Holds(List[i].mrules[m], values)
  /\ \A n \in DOMAIN List[i].trules : n < t => ~TRuleMatches(List[i].trules[n])

SearchInv ==
  /\ TypeOK
  /\ pc # "done" => result = NoTransition
  /\ pc # "done" /\ ~matchedButRefused => PassedNoneThatApplies
  /\ matchedButRefused => Barred
  /\ pc = "mrule" => InMRules
  /\ pc = "trule" => InTRules
  /\ FirstRuleDecides
=============================================================================
