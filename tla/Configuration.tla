---------------------------- MODULE Configuration ----------------------------
(***************************************************************************)
(* The Configuration that context-editor edits: domains, and for each      *)
(* program a list of loops and a list of rules in the order of their       *)
(* priorities, the order in which getFirstMatchingTransition tries them    *)
(* (module Matching).  One action per operation that an editor dialog      *)
(* calls, and the two conversions to and from transitions.xml.             *)
(*                                                                         *)
(* A rule is known by an id, given once, and is kept under the name its    *)
(* program had when it was inserted.  Loops and rules are two kinds of the *)
(* same thing; a loop has no target.  A trule has the name of its source   *)
(* domain and two flags.  The dialogs offer each domain once and let the   *)
(* user type expressions as well, so a name may be in a list twice, or be  *)
(* no domain.  Of an mrule only matters whether it has conditions, and a   *)
(* rule has a set of them.  Display names and the flags of rules come back *)
(* from the file as they went, and are left out.                           *)
(***************************************************************************)
EXTENDS Naturals, Sequences, SequencesExt, FiniteSetsExt

CONSTANTS
  Names,        \* domain names
  NProgs,       \* the program names are 1..NProgs, in the order of QMap
  MaxId,        \* how many rules and loops are created
  MaxRules,     \* how many there are at a time: copies of a rule could add up for ever
  MRules,       \* mrules
  Unconditional,\* those without conditions
  Entered,      \* the lists of trules, with the mrules, that a dialog may return
  Files,        \* the transitions.xml that may be opened
  NoDomain

ProgNames == 1..NProgs
Ids == 1..MaxId
Kinds == {"loop", "rule"}
Flags == {"unset", "yes", "no"}
TRules == [from : Names, notify : Flags, prompt : Flags]
Elements == [kind : Kinds, program : ProgNames, to : Names \cup {NoDomain},
             trules : Seq(TRules), mrules : SUBSET MRules]
Documents == [domains : SUBSET Names, default : Names \cup {NoDomain}, rules : Seq(Elements)]

ASSUME NProgsType == NProgs \in Nat \ {0}
ASSUME MaxIdType == MaxId \in Nat /\ MaxRules \in Nat
ASSUME NoDomainIsNone == NoDomain \notin Names
ASSUME EnteredType == Entered \subseteq [trules : Seq(TRules), mrules : SUBSET MRules]
ASSUME FilesType ==
  /\ Files \subseteq Documents
  /\ \A doc \in Files :
       /\ doc.default \in doc.domains \cup {NoDomain}
       /\ \A i \in DOMAIN doc.rules :
            doc.rules[i].to \in IF doc.rules[i].kind = "loop" THEN {NoDomain} ELSE doc.domains

VARIABLES
  conf,         \* _domains, _default_domain, _loops and _rules
  programs,     \* _programs
  idCounter,    \* AbstractRule::idCounter
  moved,        \* history: a rule has been given a program of another name
  loose         \* history: names that a rule was given as source and that were no
                \* domain, or were twice in its list

vars == <<conf, programs, idCounter, moved, loose>>

AbstractRules == [id : Ids, priority : Ids, program : ProgNames,
                  to : Names \cup {NoDomain}, trules : Seq(TRules), mrules : SUBSET MRules]

Configurations == [domains : SUBSET Names, default : Names \cup {NoDomain},
                   lists : [Kinds -> [ProgNames -> Seq(AbstractRules)]]]

TypeOK ==
  /\ conf \in Configurations
  /\ programs \in SUBSET ProgNames
  /\ idCounter \in 0..MaxId
  /\ moved \in BOOLEAN
  /\ loose \in SUBSET Names

Empty == [k \in Kinds |-> [p \in ProgNames |-> <<>>]]

Init ==
  /\ conf = [domains |-> {}, default |-> NoDomain, lists |-> Empty]
  /\ programs = ProgNames
  /\ idCounter = 0
  /\ moved = FALSE
  /\ loose = {}

-----------------------------------------------------------------------------
(* The lists.                                                              *)

\* Mutant: a rule goes to the end of the list, whatever its priority.
InsertAtEnd(s, r) == Append(s, r)

\* addRule and addLoop: before the first rule with a greater priority.
Insert(s, r) ==
  LET k == SelectInSeq(s, LAMBDA q : q.priority > r.priority)
  IN  InsertAt(s, IF k = 0 THEN Len(s) + 1 ELSE k, r)

Has(s, id) == \E k \in DOMAIN s : s[k].id = id

\* Removes the first rule with the id.
Without(s, id) == RemoveFirstMatch(s, LAMBDA q : q.id = id)

Add(c, k, r) == [c EXCEPT !.lists[k][r.program] = Insert(@, r)]

\* deleteRule(Rule &): only where its program's name says it is.
DeleteObject(c, k, r) == [c EXCEPT !.lists[k][r.program] = Without(@, r.id)]

\* The first program under which a rule with the id is.
Holders(c, k, id) == {p \in ProgNames : Has(c.lists[k][p], id)}

\* findRule(id).
Find(c, k, id) ==
  LET s == c.lists[k][Min(Holders(c, k, id))]
  IN  s[SelectInSeq(s, LAMBDA q : q.id = id)]

\* deleteRule(int): wherever it is first found.
DeleteId(c, k, id) ==
  IF Holders(c, k, id) = {} THEN c
  ELSE [c EXCEPT !.lists[k][Min(Holders(c, k, id))] = Without(@, id)]

\* updateRule.
Update(c, k, r) == Add(DeleteObject(c, k, r), k, r)

\* allLoops() and allRules().
All(c, k) == FlattenSeq(c.lists[k])

-----------------------------------------------------------------------------
(* Domains.                                                                *)

\* deleteTRule(domain).
WithoutTRule(r, d) == [r EXCEPT !.trules = RemoveFirstMatch(@, LAMBDA t : t.from = d)]

Covers(r, d) == \E k \in DOMAIN r.trules : r.trules[k].from = d

\* The trule of domain o now names n, and is the last one.
MovedTRule(r, o, n) ==
  LET t == r.trules[SelectInSeq(r.trules, LAMBDA q : q.from = o)]
  IN  [WithoutTRule(r, o) EXCEPT !.trules = Append(@, [t EXCEPT !.from = n])]

\* updateDomain, for one rule: its trule, then its target.
RenameInRule(c, k, r, o, n) ==
  LET r1 == IF Covers(r, o) THEN MovedTRule(r, o, n) ELSE r
      c1 == IF Covers(r, o) THEN Update(c, k, r1) ELSE c
  IN  IF r.to = o THEN Update(c1, k, [r1 EXCEPT !.to = n]) ELSE c1

\* Mutant: the target of the rule is not looked at.
DeleteFromTRules(c, k, r, d) ==
  LET r1 == WithoutTRule(r, d)
  IN  IF ~Covers(r, d) THEN c
      ELSE IF r1.trules = <<>> THEN DeleteId(c, k, r.id) ELSE Update(c, k, r1)

\* deleteDomain, for one rule: a rule with no trule left goes, and so does one
\* whose target goes.
DeleteFromRule(c, k, r, d) ==
  LET r1 == WithoutTRule(r, d)
      c1 == IF ~Covers(r, d) THEN c
            ELSE IF r1.trules = <<>> THEN DeleteId(c, k, r.id) ELSE Update(c, k, r1)
  IN  IF r.to = d THEN DeleteId(c1, k, r.id) ELSE c1

\* Both go through the loops as they were, then through the rules.  A domain that
\* is deleted has no new name.
InRule(c, k, r, o, n) ==
  IF n = NoDomain THEN DeleteFromRule(c, k, r, o) ELSE RenameInRule(c, k, r, o, n)

InEach(c, k, o, n) ==
  LET all == All(c, k)
      turn[i \in 0..Len(all)] == IF i = 0 THEN c ELSE InRule(turn[i-1], k, all[i], o, n)
  IN  turn[Len(all)]

InRules(c, o, n) == InEach(InEach(c, "loop", o, n), "rule", o, n)

\* The first domain becomes the default one, another one if the user says so.
AddDomain(n, set_default) ==
  /\ n \notin conf.domains
  /\ conf.default = NoDomain => set_default
  /\ conf' = [conf EXCEPT !.domains = @ \cup {n},
                          !.default = IF set_default THEN n ELSE @]
  /\ UNCHANGED <<programs, idCounter, moved, loose>>

\* The name may change to one that is not in use; the default domain stays so.
UpdateDomain(o, n, set_default) ==
  /\ o \in conf.domains
  /\ n \notin conf.domains \ {o}
  /\ conf.default = o => set_default
  /\ conf' = InRules([conf EXCEPT !.domains = (@ \ {o}) \cup {n},
                                  !.default = IF set_default THEN n ELSE @], o, n)
  /\ UNCHANGED <<programs, idCounter, moved, loose>>

\* A new default domain is asked for when the default one goes and others stay.
DeleteDomain(n, new_default) ==
  /\ n \in conf.domains
  /\ IF conf.default = n /\ conf.domains # {n}
       THEN new_default \in conf.domains \ {n}
       ELSE new_default = NoDomain
  /\ LET c == InRules([conf EXCEPT !.domains = @ \ {n}], n, NoDomain)
     IN  conf' = [c EXCEPT !.default = IF @ = n THEN new_default ELSE @]
  /\ UNCHANGED <<programs, idCounter, moved, loose>>

-----------------------------------------------------------------------------
(* Rules and loops.                                                        *)

Targets(k) == IF k = "loop" THEN {NoDomain} ELSE conf.domains

\* The sources of ts that are no domain of ds, or are there twice.
Loose(ts, ds) ==
  {ts[i].from : i \in {i \in DOMAIN ts :
                        ts[i].from \notin ds \/ \E j \in DOMAIN ts \ {i} : ts[j].from = ts[i].from}}

\* Mutant: the counter is read before it is incremented.
AddRulePostIncrement(k, p, to, e) ==
  /\ idCounter < MaxId
  /\ idCounter' = idCounter + 1
  /\ conf' = Add(conf, k, [id |-> idCounter, priority |-> idCounter, program |-> p,
                           to |-> to, trules |-> e.trules, mrules |-> e.mrules])
  /\ loose' = loose \cup Loose(e.trules, conf.domains)
  /\ UNCHANGED <<programs, moved>>

\* The dialogs for a new rule or loop: its id and its priority are the next number.
AddRule(k, p, to, e) ==
  /\ idCounter < MaxId
  /\ idCounter' = idCounter + 1
  /\ conf' = Add(conf, k, [id |-> idCounter + 1, priority |-> idCounter + 1, program |-> p,
                           to |-> to, trules |-> e.trules, mrules |-> e.mrules])
  /\ loose' = loose \cup Loose(e.trules, conf.domains)
  /\ UNCHANGED <<programs, moved>>

\* RuleDialog::editRule and LoopDialog::editLoop.
EditRule(k, id, p, to, e) ==
  /\ Holders(conf, k, id) # {}
  /\ LET r == Find(conf, k, id)
     IN  /\ conf' = Update(conf, k, [r EXCEPT !.program = p, !.to = to,
                                              !.trules = e.trules, !.mrules = e.mrules])
         /\ moved' = (moved \/ p # r.program)
  /\ loose' = loose \cup Loose(e.trules, conf.domains)
  /\ UNCHANGED <<programs, idCounter>>

\* The delete button of the same dialogs.
DeleteEdited(k, id) ==
  /\ Holders(conf, k, id) # {}
  /\ conf' = DeleteObject(conf, k, Find(conf, k, id))
  /\ UNCHANGED <<programs, idCounter, moved, loose>>

\* The one of the docks.
DeleteRule(k, id) ==
  /\ Holders(conf, k, id) # {}
  /\ conf' = DeleteId(conf, k, id)
  /\ UNCHANGED <<programs, idCounter, moved, loose>>

KindOf(c, id) == IF Holders(c, "loop", id) # {} THEN "loop" ELSE "rule"

AllRules(c) == All(c, "loop") \o All(c, "rule")

\* The rule after id in the dock, which lists all of them by priority.
NextRule(id, other) ==
  \E r, q \in Range(AllRules(conf)) :
    /\ r.id = id /\ q.id = other /\ r # q
    /\ r.priority <= q.priority
    /\ ~ \E x \in Range(AllRules(conf)) : r.priority < x.priority /\ x.priority < q.priority

\* swapPriorities of two neighbours: both are taken out and inserted again.
SwapPriorities(id, other) ==
  /\ NextRule(id, other) \/ NextRule(other, id)
  /\ LET k == KindOf(conf, id)
         r == Find(conf, k, id)
         c == DeleteId(conf, k, id)
         j == KindOf(c, other)
     IN  conf' = IF Holders(c, j, other) = {} THEN c
                 ELSE LET q == Find(c, j, other)
                      IN  Add(Add(DeleteId(c, j, other), k, [r EXCEPT !.priority = q.priority]),
                              j, [q EXCEPT !.priority = r.priority])
  /\ UNCHANGED <<programs, idCounter, moved, loose>>

-----------------------------------------------------------------------------
(* Programs.                                                               *)

\* The rules kept under p have the program n.
SetProgram(p, n) ==
  conf' = [conf EXCEPT !.lists = [k \in Kinds |-> [conf.lists[k] EXCEPT ![p] =
            [i \in DOMAIN @ |-> [@[i] EXCEPT !.program = n]]]]]

\* Some rule kept under p has a program of another name than n.
Renames(p, n) == \E k \in Kinds : \E r \in Range(conf.lists[k][p]) : r.program # n

AddProgram(p) ==
  /\ p \notin programs
  /\ programs' = programs \cup {p}
  /\ SetProgram(p, p)
  /\ UNCHANGED <<idCounter, moved, loose>>

UpdateProgram(o, n) ==
  /\ o \in programs
  /\ n \notin programs \ {o}
  /\ programs' = (programs \ {o}) \cup {n}
  /\ SetProgram(o, n)
  /\ moved' = (moved \/ Renames(o, n))
  /\ UNCHANGED <<idCounter, loose>>

\* The rules of a program that goes get an unknown program of the same name.
DeleteProgram(p) ==
  /\ p \in programs
  /\ programs' = programs \ {p}
  /\ SetProgram(p, p)
  /\ UNCHANGED <<idCounter, moved, loose>>

-----------------------------------------------------------------------------
(* transitions.xml.                                                        *)

\* A flag that is set is saved as true, whatever it is.
Saved(flag) == IF flag = "unset" THEN "unset" ELSE "yes"

SavedTRules(ts) ==
  [i \in DOMAIN ts |-> [from |-> ts[i].from, notify |-> Saved(ts[i].notify),
                        prompt |-> Saved(ts[i].prompt)]]

Element(k, r) == [kind |-> k, program |-> r.program, to |-> r.to,
                  trules |-> SavedTRules(r.trules), mrules |-> r.mrules]

\* A loop or rule among all of them.
Entry(k, r) == [kind |-> k, priority |-> r.priority, rule |-> r]

Entries(c) == [n \in DOMAIN All(c, "loop") |-> Entry("loop", All(c, "loop")[n])]
              \o [n \in DOMAIN All(c, "rule") |-> Entry("rule", All(c, "rule")[n])]

\* Mutant: the greater priority comes first.
ByPriorityDown(s) ==
  LET Rank(j) == Cardinality({i \in DOMAIN s : s[i].priority > s[j].priority}) + 1
  IN  [n \in DOMAIN s |-> s[CHOOSE j \in DOMAIN s : Rank(j) = n]]

\* qSort; of two with the same priority either may come first.
ByPriority(s) ==
  LET Before(i, j) == \/ s[i].priority < s[j].priority
                      \/ s[i].priority = s[j].priority /\ i < j
      Rank(j) == Cardinality({i \in DOMAIN s : Before(i, j)}) + 1
  IN  [n \in DOMAIN s |-> s[CHOOSE j \in DOMAIN s : Rank(j) = n]]

\* retrieveTransitionsDOM: loops and rules together, by priority.
retrieveTransitionsDOM(c) ==
  LET es == ByPriority(Entries(c))
  IN  [domains |-> c.domains, default |-> c.default,
       rules |-> [n \in DOMAIN es |-> Element(es[n].kind, es[n].rule)]]

\* The rules and loops of doc that are created: the target of a rule is a domain.
Created(doc) == {i \in DOMAIN doc.rules :
                   doc.rules[i].kind = "loop" \/ doc.rules[i].to \in doc.domains}

\* The number that the i-th gets, when the counter was n.
Number(doc, n, i) == n + Cardinality({j \in Created(doc) : j <= i})

\* The i-th loop or rule as it is read: mrules without conditions are dropped.
ReadRule(doc, n, i) ==
  LET e == doc.rules[i]
  IN  [id |-> Number(doc, n, i), priority |-> Number(doc, n, i), program |-> e.program,
       to |-> e.to, trules |-> e.trules, mrules |-> e.mrules \ Unconditional]

\* parseTransitionsFile: each loop and rule goes to the end of the list of its
\* program.  Looking up a target that is not there makes an empty domain of it.
Parse(doc, n) ==
  LET Here(k, p) == {i \in Created(doc) : doc.rules[i].kind = k /\ doc.rules[i].program = p}
      Of(k, p) ==
        LET read[i \in 0..Len(doc.rules)] ==
              IF i = 0 THEN <<>>
              ELSE IF i \in Here(k, p) THEN Append(read[i-1], ReadRule(doc, n, i))
              ELSE read[i-1]
        IN  read[Len(doc.rules)]
      rules == {i \in DOMAIN doc.rules : doc.rules[i].kind = "rule"}
  IN  [domains |-> doc.domains \cup {doc.rules[i].to : i \in rules}, default |-> doc.default,
       lists |-> [k \in Kinds |-> [p \in ProgNames |-> Of(k, p)]]]

\* A new Configuration that reads a file; AbstractRule's counter goes on.
Open(doc) ==
  /\ idCounter + Cardinality(Created(doc)) <= MaxId
  /\ conf' = Parse(doc, idCounter)
  /\ idCounter' = idCounter + Cardinality(Created(doc))
  /\ moved' = FALSE
  /\ loose' = UNION {Loose(doc.rules[i].trules, doc.domains) : i \in DOMAIN doc.rules}
  /\ UNCHANGED programs

-----------------------------------------------------------------------------
Operation ==
  \/ \E n \in Names, b \in BOOLEAN : AddDomain(n, b)
  \/ \E o, n \in Names, b \in BOOLEAN : UpdateDomain(o, n, b)
  \/ \E n \in Names, d \in Names \cup {NoDomain} : DeleteDomain(n, d)
  \/ \E k \in Kinds, p \in programs : \E to \in Targets(k), e \in Entered :
       \/ AddRule(k, p, to, e)
       \/ \E id \in Ids : EditRule(k, id, p, to, e)
  \/ \E k \in Kinds, id \in Ids : DeleteEdited(k, id) \/ DeleteRule(k, id)
  \/ \E id, other \in Ids : SwapPriorities(id, other)
  \/ \E p \in ProgNames : AddProgram(p) \/ DeleteProgram(p)
  \/ \E o, n \in ProgNames : UpdateProgram(o, n)
  \/ \E doc \in Files : Open(doc)

Next == Operation /\ Len(AllRules(conf')) <= MaxRules

Spec == Init /\ [][Next]_vars

-----------------------------------------------------------------------------
(* Properties *)

\* Through every insertion, edit, swap and renaming each list stays in the order
\* of the priorities, on which getFirstMatchingTransition relies: it takes the
\* first match of the list.
SortedByPriority ==
  \A k \in Kinds, p \in ProgNames :
    \A i, j \in DOMAIN conf.lists[k][p] :
      i < j => conf.lists[k][p][i].priority <= conf.lists[k][p][j].priority

\* deleteDomain clears the references to the domain, and updateDomain changes
\* them: every target of a rule is a domain, and so is every source that was a
\* domain when the rule got it, and was named once.
ReferencesExist ==
  /\ conf.default \in conf.domains \cup {NoDomain}
  /\ \A r \in Range(AllRules(conf)) :
       /\ r.to \in conf.domains \cup {NoDomain}
       /\ \A n \in DOMAIN r.trules : r.trules[n].from \in conf.domains \cup loose

\* As long as no rule has been given a program of another name, every reference
\* exists, ids and priorities are unique and a rule is found where its program
\* says.
WellKept ==
  ~moved =>
    /\ ReferencesExist
    /\ \A i, j \in DOMAIN AllRules(conf) : i # j =>
         /\ AllRules(conf)[i].id # AllRules(conf)[j].id
         /\ AllRules(conf)[i].priority # AllRules(conf)[j].priority
    /\ \A k \in Kinds, p \in ProgNames :
         \A r \in Range(conf.lists[k][p]) : r.program = p

\* A configuration that is saved and opened again has the same domains and, for
\* every program, the same loops and rules in the same order, but for the flags
\* of their trules that were set, which are then all true, and for the mrules
\* without conditions, which are gone.
SameWhenReopened ==
  ~moved =>
    LET c == Parse(retrieveTransitionsDOM(conf), idCounter)
    IN  /\ c.domains = conf.domains
        /\ c.default = conf.default
        /\ \A k \in Kinds, p \in ProgNames :
             /\ Len(c.lists[k][p]) = Len(conf.lists[k][p])
             /\ \A n \in DOMAIN conf.lists[k][p] :
                  LET r == conf.lists[k][p][n]
                      q == c.lists[k][p][n]
                  IN  /\ q.program = r.program
                      /\ q.to = r.to
                      /\ q.trules = SavedTRules(r.trules)
                      /\ q.mrules = r.mrules \ Unconditional

\* The inductive invariant behind these: no id is twice in a list, rules are kept
\* under their program, and no two have the same id or the same priority; a loop
\* has no target, a rule has one, each names a source once and a domain with it,
\* unless the name is loose, and the ids and priorities have been given out.
Tidy(c) ==
  /\ \A k \in Kinds, p \in ProgNames :
       /\ \A i, j \in DOMAIN c.lists[k][p] : c.lists[k][p][i].id = c.lists[k][p][j].id => i = j
       /\ \A r \in Range(c.lists[k][p]) : r.program = p
  /\ \A k, l \in Kinds, p, q \in ProgNames :
       \A r \in Range(c.lists[k][p]), x \in Range(c.lists[l][q]) :
         (r.id = x.id \/ r.priority = x.priority) => r = x /\ k = l

Fits(r, k, ds, ls) ==
  /\ r.to \in IF k = "loop" THEN {NoDomain} ELSE ds
  /\ \A i \in DOMAIN r.trules : r.trules[i].from \in ds \cup ls
  /\ \A i, j \in DOMAIN r.trules :
       r.trules[i].from = r.trules[j].from /\ r.trules[i].from \notin ls => i = j

EditInv ==
  /\ TypeOK
  /\ SortedByPriority
  /\ conf.default \in conf.domains \cup {NoDomain}
  /\ ~moved =>
       /\ Tidy(conf)
       /\ \A k \in Kinds, p \in ProgNames : \A r \in Range(conf.lists[k][p]) :
            Fits(r, k, conf.domains, loose) /\ r.id <= idCounter /\ r.priority <= idCounter
=============================================================================
