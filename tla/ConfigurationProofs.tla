------------------------- MODULE ConfigurationProofs -------------------------
(***************************************************************************)
(* For every set of domains, number of programs, lists of trules (which    *)
(* may name a domain twice), lists of mrules (which may have no condition) *)
(* and files to open, EditInv is an invariant of Configuration, and what   *)
(* the run checks on two domains and two programs follows from it: the     *)
(* lists stay sorted, references exist but for the ones that deleteDomain  *)
(* leaves, and a configuration that is saved and opened again is the same  *)
(* but for what parsing drops.                                             *)
(*                                                                         *)
(* The first part says what the operations on lists do (Insert, Without,   *)
(* FlattenSeq), the second what they do to the set of rules of a kind      *)
(* (Rules) and to the order of the lists.  A loop of the code is a         *)
(* recursive function; that it has a value, and what it computes, is shown *)
(* by induction over a set of numbers (Recursion, UpTo).  There is then    *)
(* one lemma per operation.  The last part is about transitions.xml:       *)
(* sorting by priorities that differ gives the only list that rises        *)
(* (RisingSame), reading takes the parts of it that each program's list    *)
(* has, and those rise too, so they are the lists that were written.       *)
(***************************************************************************)
EXTENDS Configuration, FiniteSetTheorems, SequenceTheorems, WellFoundedInduction, TLAPS

-----------------------------------------------------------------------------
(* Induction over sets of numbers, and recursive functions.                *)

\* A set of numbers has a least element.
LEMMA MinIsLeast ==
  ASSUME NEW S \in SUBSET Nat, S # {}
  PROVE  Min(S) \in S /\ \A y \in S : Min(S) <= y
<1> DEFINE R == {ss \in Nat \X Nat : ss[1] < ss[2]}
<1>1. IsWellFoundedOn(R, Nat)
  BY NatLessThanWellFounded DEF OpToRel
<1> HIDE DEF R
<1>2. PICK x \in S : \A y \in S : ~(<<y, x>> \in R)
  <2>1. S \subseteq Nat
    OBVIOUS
  <2> QED
    BY <1>1, <2>1, WFMin
<1>3. \A y \in S : x <= y
  <2> SUFFICES ASSUME NEW y \in S PROVE ~(y < x)
    OBVIOUS
  <2>1. <<y, x>> \in Nat \X Nat /\ <<y, x>>[1] = y /\ <<y, x>>[2] = x
    OBVIOUS
  <2> QED
    BY <1>2, <2>1 DEF R
<1> QED
  BY <1>3 DEF Min

\* The first of some places in a list.
LEMMA FirstPlace ==
  ASSUME NEW n \in Nat, NEW I \in SUBSET (1..n), I # {}, NEW m, m = Min(I)
  PROVE  m \in I /\ m \in 1..n /\ \A y \in I : m <= y
<1>1. I \in SUBSET Nat
  OBVIOUS
<1> QED
  BY <1>1, MinIsLeast

\* What holds at 0 and passes from each number to the next holds up to n.
LEMMA UpTo ==
  ASSUME NEW n \in Nat, NEW I, 0 \in I, \A i \in 0..n-1 : i \in I => i + 1 \in I
  PROVE  \A i \in 0..n : i \in I
<1> DEFINE Bad == {i \in 0..n : i \notin I}
<1> SUFFICES ASSUME Bad # {} PROVE FALSE
  OBVIOUS
<1>1. Bad \in SUBSET Nat
  OBVIOUS
<1>2. Min(Bad) \in Bad /\ \A y \in Bad : Min(Bad) <= y
  BY <1>1, MinIsLeast
<1>3. PICK m : m = Min(Bad)
  OBVIOUS
<1>4. m \in 0..n /\ m \notin I /\ m # 0 /\ \A y \in Bad : m <= y
  BY <1>2, <1>3
<1>5. m - 1 \in 0..n-1 /\ m - 1 \notin Bad /\ m - 1 + 1 = m
  BY <1>4
<1> QED
  BY <1>4, <1>5

\* A function may be defined by recursion on the numbers up to n.
Recursive(f, n, C, c0, F) ==
  /\ f \in [0..n -> C]
  /\ f[0] = c0
  /\ \A i \in 1..n : f[i] = F[<<f[i-1], i>>]

\* A recursive function that stays in C exists: by induction on n.
LEMMA Recursion ==
  ASSUME NEW n \in Nat, NEW C, NEW c0 \in C, NEW F \in [C \X (1..n) -> C]
  PROVE  \E f : Recursive(f, n, C, c0, F)
<1> DEFINE Solves(f, m) == f[0] = c0 /\ \A i \in 1..m : f[i] = F[<<f[i-1], i>>]
           I == {m \in 0..n : \E f \in [0..m -> C] : Solves(f, m)}
<1>1. 0 \in I
  <2> DEFINE f == [i \in 0..0 |-> c0]
  <2>1. f \in [0..0 -> C] /\ f[0] = c0 /\ 1..0 = {}
    OBVIOUS
  <2> HIDE DEF f
  <2>2. \E g \in [0..0 -> C] : Solves(g, 0)
    BY <2>1
  <2> QED
    BY <2>2
<1>2. ASSUME NEW m \in 0..n-1, m \in I PROVE m + 1 \in I
  <2>1. PICK f \in [0..m -> C] : Solves(f, m)
    BY <1>2
  <2> DEFINE g == [i \in 0..m+1 |-> IF i <= m THEN f[i] ELSE F[<<f[m], m + 1>>]]
  <2>2. F[<<f[m], m + 1>>] \in C
    BY <2>1
  <2>3. g \in [0..m+1 -> C]
    BY <2>1, <2>2
  <2>4. g[0] = c0
    BY <2>1
  <2>5. ASSUME NEW i \in 1..m+1 PROVE g[i] = F[<<g[i-1], i>>]
    <3>1. CASE i <= m
      <4>1. g[i] = f[i] /\ g[i-1] = f[i-1] /\ i \in 1..m
        BY <3>1
      <4> QED
        BY <2>1, <4>1
    <3>2. CASE i = m + 1
      <4>1. g[i] = F[<<f[m], m + 1>>] /\ g[i-1] = f[m]
        BY <3>2
      <4> QED
        BY <3>2, <4>1
    <3> QED
      BY <3>1, <3>2
  <2> HIDE DEF g
  <2>6. m + 1 \in 0..n
    BY <1>2
  <2> QED
    BY <2>3, <2>4, <2>5, <2>6
<1> HIDE DEF I
<1>3. \A m \in 0..n : m \in I
  BY <1>1, <1>2, UpTo
<1>4. n \in I
  BY <1>3
<1> QED
  BY <1>4 DEF I, Recursive

-----------------------------------------------------------------------------
(* Lists.                                                                  *)

\* A function from 1..n is a sequence.
LEMMA SeqOfFunction ==
  ASSUME NEW S, NEW n \in Nat, NEW f \in [1..n -> S]
  PROVE  f \in Seq(S) /\ Len(f) = n /\ DOMAIN f = 1..n
OBVIOUS

\* The elements of a list.
LEMMA ListFacts ==
  ASSUME NEW S, NEW s \in Seq(S)
  PROVE  /\ Range(s) \subseteq S /\ DOMAIN s = 1..Len(s) /\ Len(s) \in Nat
         /\ \A x : x \in Range(s) <=> \E i \in 1..Len(s) : s[i] = x
<1>1. DOMAIN s = 1..Len(s) /\ Len(s) \in Nat /\ \A i \in 1..Len(s) : s[i] \in S
  BY LenProperties, ElementOfSeq
<1> QED
  BY <1>1 DEF Range

\* A part of a list.
LEMMA PartOfList ==
  ASSUME NEW S, NEW s \in Seq(S), NEW m \in 1..Len(s)+1, NEW n \in m-1..Len(s), NEW w,
         w = SubSeq(s, m, n)
  PROVE  w \in Seq(S) /\ Len(w) = n - m + 1 /\ \A i \in 1..n-m+1 : w[i] = s[m + i - 1]
<1>1. Len(s) \in Nat /\ m \in Int /\ n \in Int
  BY LenProperties
<1>2. \A i \in m..n : s[i] \in S
  BY <1>1, ElementOfSeq
<1>3. /\ w \in Seq(S) /\ Len(w) = IF m <= n THEN n - m + 1 ELSE 0
      /\ \A i \in 1..n-m+1 : w[i] = s[m + i - 1]
  BY <1>1, <1>2, SubSeqProperties
<1> QED
  BY <1>1, <1>3

\* Two lists, one after the other.
LEMMA Joined ==
  ASSUME NEW S, NEW s \in Seq(S), NEW t \in Seq(S), NEW w, w = s \o t
  PROVE  /\ w \in Seq(S) /\ Len(w) = Len(s) + Len(t)
         /\ \A i \in 1..Len(s) : w[i] = s[i]
         /\ \A i \in 1..Len(t) : w[Len(s) + i] = t[i]
<1>1. Len(s) \in Nat /\ Len(t) \in Nat
  BY LenProperties
<1>2. /\ w \in Seq(S) /\ Len(w) = Len(s) + Len(t)
      /\ \A i \in 1..Len(s) + Len(t) : w[i] = IF i <= Len(s) THEN s[i] ELSE t[i - Len(s)]
  BY ConcatProperties
<1>3. \A i \in 1..Len(s) : i \in 1..Len(s) + Len(t) /\ i <= Len(s)
  BY <1>1
<1>4. \A i \in 1..Len(t) : /\ Len(s) + i \in 1..Len(s) + Len(t) /\ ~(Len(s) + i <= Len(s))
                           /\ Len(s) + i - Len(s) = i
  BY <1>1
<1> QED
  BY <1>2, <1>3, <1>4

\* A list with e before the m-th element.
LEMMA InsertAtShape ==
  ASSUME NEW S, NEW s \in Seq(S), NEW e \in S, NEW m \in 1..Len(s)+1, NEW w,
         w = InsertAt(s, m, e)
  PROVE  /\ w \in Seq(S) /\ Len(w) = Len(s) + 1 /\ w[m] = e
         /\ \A i \in 1..m-1 : w[i] = s[i]
         /\ \A i \in m+1..Len(s)+1 : w[i] = s[i-1]
<1>0. PICK a, o, b : a = SubSeq(s, 1, m-1) /\ o = <<e>> /\ b = SubSeq(s, m, Len(s))
  OBVIOUS
<1>1. Len(s) \in Nat /\ m \in Nat
  BY LenProperties
<1>2. a \in Seq(S) /\ Len(a) = m - 1 /\ \A i \in 1..m-1 : a[i] = s[i]
  BY <1>0, <1>1, PartOfList
<1>3. b \in Seq(S) /\ Len(b) = Len(s) - m + 1 /\ \A i \in 1..Len(s)-m+1 : b[i] = s[m + i - 1]
  BY <1>0, <1>1, PartOfList
<1>4. o \in Seq(S) /\ Len(o) = 1 /\ o[1] = e
  BY <1>0
<1>5. PICK u : u = a \o o
  OBVIOUS
<1>6. w = u \o b
  BY <1>0, <1>5 DEF InsertAt
<1>7. /\ u \in Seq(S) /\ Len(u) = m /\ \A i \in 1..m-1 : u[i] = s[i]
      /\ u[m] = e
  <2>1. /\ u \in Seq(S) /\ Len(u) = Len(a) + Len(o)
        /\ \A i \in 1..Len(a) : u[i] = a[i]
        /\ \A i \in 1..Len(o) : u[Len(a) + i] = o[i]
    <3>1. a \in Seq(S) /\ o \in Seq(S)
      BY <1>2, <1>4
    <3> QED
      BY <3>1, <1>5, Joined
  <2>2. u[Len(a) + 1] = o[1]
    BY <1>4, <2>1
  <2> QED
    BY <1>1, <1>2, <1>4, <2>1, <2>2
<1>8. /\ w \in Seq(S) /\ Len(w) = Len(u) + Len(b)
      /\ \A i \in 1..Len(u) : w[i] = u[i]
      /\ \A i \in 1..Len(b) : w[Len(u) + i] = b[i]
  BY <1>3, <1>6, <1>7, Joined
<1>9. ASSUME NEW i \in m+1..Len(s)+1 PROVE w[i] = s[i-1]
  <2>1. i - m \in 1..Len(s)-m+1 /\ m + (i - m) = i /\ m + (i - m) - 1 = i - 1
    BY <1>1
  <2>2. w[m + (i - m)] = b[i - m] /\ b[i - m] = s[m + (i - m) - 1]
    BY <1>3, <1>7, <1>8, <2>1
  <2> QED
    BY <2>1, <2>2
<1>10. m \in 1..m /\ \A i \in 1..m-1 : i \in 1..m
  BY <1>1
<1>11. Len(w) = Len(s) + 1
  BY <1>1, <1>3, <1>7, <1>8
<1> QED
  BY <1>7, <1>8, <1>9, <1>10, <1>11

\* A list without its m-th element.
LEMMA RemoveAtShape ==
  ASSUME NEW S, NEW s \in Seq(S), NEW m \in 1..Len(s), NEW w, w = RemoveAt(s, m)
  PROVE  /\ w \in Seq(S) /\ Len(w) = Len(s) - 1
         /\ \A i \in 1..m-1 : w[i] = s[i]
         /\ \A i \in m..Len(s)-1 : w[i] = s[i+1]
<1>0. PICK a, b : a = SubSeq(s, 1, m-1) /\ b = SubSeq(s, m+1, Len(s))
  OBVIOUS
<1>1. Len(s) \in Nat /\ m \in Nat
  BY LenProperties
<1>2. a \in Seq(S) /\ Len(a) = m - 1 /\ \A i \in 1..m-1 : a[i] = s[i]
  BY <1>0, <1>1, PartOfList
<1>3. b \in Seq(S) /\ Len(b) = Len(s) - m /\ \A i \in 1..Len(s)-m : b[i] = s[m + 1 + i - 1]
  BY <1>0, <1>1, PartOfList
<1>4. w = a \o b
  BY <1>0 DEF RemoveAt
<1>5. /\ w \in Seq(S) /\ Len(w) = Len(a) + Len(b)
      /\ \A i \in 1..Len(a) : w[i] = a[i]
      /\ \A i \in 1..Len(b) : w[Len(a) + i] = b[i]
  <2>1. a \in Seq(S) /\ b \in Seq(S)
    BY <1>2, <1>3
  <2> QED
    BY <2>1, <1>4, Joined
<1>6. ASSUME NEW i \in m..Len(s)-1 PROVE w[i] = s[i+1]
  <2>1. /\ i - (m - 1) \in 1..Len(s)-m /\ (m - 1) + (i - (m - 1)) = i
        /\ m + 1 + (i - (m - 1)) - 1 = i + 1
    BY <1>1
  <2>2. /\ w[(m - 1) + (i - (m - 1))] = b[i - (m - 1)]
        /\ b[i - (m - 1)] = s[m + 1 + (i - (m - 1)) - 1]
    BY <1>2, <1>3, <1>5, <2>1
  <2> QED
    BY <2>1, <2>2
<1>7. Len(w) = Len(s) - 1
  BY <1>1, <1>2, <1>3, <1>5
<1> QED
  BY <1>2, <1>5, <1>6, <1>7

\* In the order of the priorities, and with no id twice.
InOrder(s) == \A i, j \in DOMAIN s : i < j => s[i].priority <= s[j].priority
OnceEach(s) == \A i, j \in DOMAIN s : s[i].id = s[j].id => i = j

\* The numbers in a rule.
LEMMA RuleNumbers ==
  ASSUME NEW r \in AbstractRules
  PROVE  r.id \in Nat /\ r.priority \in Nat /\ r.program \in ProgNames /\ r.trules \in Seq(TRules)
BY MaxIdType DEF AbstractRules, Ids

\* Insert keeps the order, and adds the rule to the others.
LEMMA InsertFacts ==
  ASSUME NEW s \in Seq(AbstractRules), NEW r \in AbstractRules, NEW w, w = Insert(s, r)
  PROVE  /\ w \in Seq(AbstractRules)
         /\ Range(w) = Range(s) \cup {r}
         /\ InOrder(s) => InOrder(w)
         /\ OnceEach(s) /\ (\A x \in Range(s) : x.id # r.id) => OnceEach(w)
<1> DEFINE I == {i \in 1..Len(s) : s[i].priority > r.priority}
<1>1. PICK m : m = IF I = {} THEN Len(s) + 1 ELSE Min(I)
  OBVIOUS
<1>2. Len(s) \in Nat /\ DOMAIN s = 1..Len(s) /\ \A i \in 1..Len(s) : s[i] \in AbstractRules
  BY LenProperties, ElementOfSeq
<1>3. I # {} => Min(I) \in I /\ \A y \in I : Min(I) <= y
  <2>1. I \in SUBSET (1..Len(s))
    OBVIOUS
  <2> HIDE DEF I
  <2> QED
    BY <1>2, <2>1, FirstPlace
<1>4. m \in 1..Len(s)+1 /\ (I # {} => m # 0)
  BY <1>1, <1>2, <1>3
<1>5. w = InsertAt(s, m, r)
  BY <1>1, <1>3, <1>2 DEF Insert, SelectInSeq
<1>6. /\ \A i \in 1..m-1 : i \in 1..Len(s) /\ i \notin I
      /\ m <= Len(s) => m \in I
  <2> HIDE DEF I
  <2>1. CASE I = {}
    BY <2>1, <1>1, <1>2
  <2>2. CASE I # {}
    BY <2>2, <1>1, <1>3, <1>4, <1>2
  <2> QED
    BY <2>1, <2>2
<1>7. /\ w \in Seq(AbstractRules) /\ Len(w) = Len(s) + 1 /\ w[m] = r
      /\ \A i \in 1..m-1 : w[i] = s[i]
      /\ \A i \in m+1..Len(s)+1 : w[i] = s[i-1]
  BY <1>4, <1>5, InsertAtShape, SMTT(30)
<1> DEFINE at(i) == IF i < m THEN i ELSE i - 1
<1>8. /\ DOMAIN w = 1..Len(s)+1
      /\ \A i \in 1..Len(s)+1 : i # m => at(i) \in 1..Len(s) /\ w[i] = s[at(i)]
  BY <1>2, <1>4, <1>7, LenProperties
<1>9. Range(w) = Range(s) \cup {r}
  <2>1. \A i \in 1..Len(s) : w[IF i < m THEN i ELSE i + 1] = s[i] /\ (IF i < m THEN i ELSE i + 1) \in 1..Len(s)+1
    BY <1>2, <1>4, <1>7
  <2>2. \A x : x \in Range(w) <=> \E i \in 1..Len(s)+1 : w[i] = x
    BY <1>8 DEF Range
  <2>3. \A x : x \in Range(s) <=> \E i \in 1..Len(s) : s[i] = x
    BY <1>2 DEF Range
  <2>4. ASSUME NEW x \in Range(w) PROVE x \in Range(s) \cup {r}
    BY <2>2, <2>3, <1>7, <1>8
  <2>5. ASSUME NEW x \in Range(s) PROVE x \in Range(w)
    BY <2>1, <2>2, <2>3
  <2>6. r \in Range(w)
    BY <2>2, <1>4, <1>7
  <2> QED
    BY <2>4, <2>5, <2>6
<1>10. ASSUME InOrder(s) PROVE InOrder(w)
  <2> SUFFICES ASSUME NEW i \in 1..Len(s)+1, NEW j \in 1..Len(s)+1, i < j
               PROVE  w[i].priority <= w[j].priority
    BY <1>8 DEF InOrder
  <2>1. \A n \in 1..Len(s) : s[n].priority \in Nat
    BY <1>2, RuleNumbers
  <2>2. r.priority \in Nat
    BY RuleNumbers
  <2>3. CASE i # m /\ j # m
    <3>1. at(i) < at(j) /\ at(i) \in 1..Len(s) /\ at(j) \in 1..Len(s)
      BY <1>2, <1>4, <1>8, <2>3
    <3>2. s[at(i)].priority <= s[at(j)].priority
      BY <3>1, <1>2, <1>10 DEF InOrder
    <3> QED
      BY <3>2, <1>8, <2>3
  <2>4. CASE i = m
    <3>1. at(j) \in 1..Len(s) /\ m <= at(j) /\ m \in 1..Len(s) /\ m \in I /\ w[j] = s[at(j)]
      BY <1>2, <1>4, <1>6, <1>8, <2>4
    <3>2. s[m].priority <= s[at(j)].priority
      <4>1. CASE m = at(j)
        BY <4>1, <3>1, <2>1
      <4>2. CASE m < at(j)
        BY <4>2, <3>1, <1>2, <1>10 DEF InOrder
      <4> QED
        BY <4>1, <4>2, <3>1, <1>2
    <3>3. s[m].priority > r.priority
      BY <3>1
    <3> QED
      BY <3>1, <3>2, <3>3, <2>1, <2>2, <1>7, <2>4
  <2>5. CASE j = m
    <3>1. i \in 1..m-1 /\ w[i] = s[i] /\ i \in 1..Len(s)
      BY <1>2, <1>4, <1>7, <2>5
    <3>2. ~(s[i].priority > r.priority)
      BY <3>1, <1>6
    <3> QED
      BY <3>1, <3>2, <2>1, <2>2, <2>5, <1>7
  <2> QED
    BY <2>3, <2>4, <2>5
<1>11. ASSUME OnceEach(s), \A x \in Range(s) : x.id # r.id PROVE OnceEach(w)
  <2> SUFFICES ASSUME NEW i \in 1..Len(s)+1, NEW j \in 1..Len(s)+1, w[i].id = w[j].id
               PROVE  i = j
    BY <1>8 DEF OnceEach
  <2>1. \A n \in 1..Len(s) : s[n].id # r.id
    BY <1>2, <1>11 DEF Range
  <2>2. CASE i # m /\ j # m
    <3>1. at(i) = at(j)
      BY <1>2, <1>8, <1>11, <2>2 DEF OnceEach
    <3> QED
      BY <3>1, <2>2, <1>4, <1>2
  <2>3. CASE i = m /\ j # m
    BY <2>1, <2>3, <1>7, <1>8
  <2>4. CASE i # m /\ j = m
    BY <2>1, <2>4, <1>7, <1>8
  <2> QED
    BY <2>2, <2>3, <2>4
<1> QED
  BY <1>7, <1>9, <1>10, <1>11

\* The elements of w are those of s but the m-th, in the same order.
Skips(f, w, s, m) ==
  /\ f \in [1..Len(w) -> (1..Len(s)) \ {m}]
  /\ \A i \in 1..Len(w) : w[i] = s[f[i]]
  /\ \A i, j \in 1..Len(w) : i < j => f[i] < f[j]
  /\ \A i, j \in 1..Len(w) : f[i] = f[j] => i = j

\* Removing an element keeps the order of the others.
LEMMA RemovedFacts ==
  ASSUME NEW S, NEW s \in Seq(S), NEW m \in 1..Len(s), NEW w, w = RemoveAt(s, m)
  PROVE  /\ w \in Seq(S) /\ Len(w) = Len(s) - 1
         /\ \E f : Skips(f, w, s, m)
         /\ \A i \in (1..Len(s)) \ {m} : \E j \in 1..Len(w) : w[j] = s[i]
<1>1. Len(s) \in Nat
  BY LenProperties
<1>2. /\ w \in Seq(S) /\ Len(w) = Len(s) - 1
      /\ \A i \in 1..m-1 : w[i] = s[i]
      /\ \A i \in m..Len(s)-1 : w[i] = s[i+1]
  BY RemoveAtShape, ZenonT(30)
<1> DEFINE f == [i \in 1..Len(w) |-> IF i < m THEN i ELSE i + 1]
<1>3. f \in [1..Len(w) -> (1..Len(s)) \ {m}]
  BY <1>1, <1>2
<1>4. \A i \in 1..Len(w) : w[i] = s[f[i]]
  BY <1>1, <1>2
<1>5. \A i, j \in 1..Len(w) : (i < j => f[i] < f[j]) /\ (f[i] = f[j] => i = j)
  BY <1>1, <1>2
<1>6. ASSUME NEW i \in (1..Len(s)) \ {m} PROVE \E j \in 1..Len(w) : w[j] = s[i]
  <2>1. CASE i < m
    BY <2>1, <1>1, <1>2
  <2>2. CASE i > m
    <3>1. i - 1 \in m..Len(s)-1 /\ i - 1 \in 1..Len(w) /\ i - 1 + 1 = i
      BY <2>2, <1>1, <1>2
    <3> QED
      BY <3>1, <1>2
  <2> QED
    BY <2>1, <2>2
<1> HIDE DEF f
<1>7. Skips(f, w, s, m)
  BY <1>3, <1>4, <1>5 DEF Skips
<1> QED
  BY <1>2, <1>6, <1>7

\* Without keeps the order, and takes a rule with the id out: the one with it, when
\* no id is there twice.
LEMMA WithoutFacts ==
  ASSUME NEW s \in Seq(AbstractRules), NEW id, NEW w, w = Without(s, id)
  PROVE  /\ w \in Seq(AbstractRules)
         /\ Range(w) \subseteq Range(s)
         /\ InOrder(s) => InOrder(w)
         /\ OnceEach(s) => /\ OnceEach(w)
                           /\ Range(w) = {x \in Range(s) : x.id # id}
<1> DEFINE I == {i \in 1..Len(s) : s[i].id = id}
<1>1. Len(s) \in Nat /\ DOMAIN s = 1..Len(s)
  BY LenProperties
<1>2. \A x : x \in Range(s) <=> \E i \in 1..Len(s) : s[i] = x
  BY <1>1 DEF Range
<1>3. CASE I = {}
  <2>1. w = s
    BY <1>3 DEF Without, RemoveFirstMatch
  <2>2. Range(s) = {x \in Range(s) : x.id # id}
    BY <1>2, <1>3
  <2> QED
    BY <2>1, <2>2
<1>4. CASE I # {}
  <2>1. PICK m : m = Min(I)
    OBVIOUS
  <2>2. m \in I /\ m \in 1..Len(s)
    <3>1. I \in SUBSET (1..Len(s))
      OBVIOUS
    <3> HIDE DEF I
    <3> QED
      BY <3>1, <2>1, <1>1, <1>4, FirstPlace
  <2>3. w = RemoveAt(s, m)
    BY <2>1, <1>4 DEF Without, RemoveFirstMatch, SelectInSeq
  <2>Place. m \in 1..Len(s)
    BY <2>2
  <2>4. /\ w \in Seq(AbstractRules) /\ Len(w) = Len(s) - 1
        /\ \E f : Skips(f, w, s, m)
        /\ \A i \in (1..Len(s)) \ {m} : \E j \in 1..Len(w) : w[j] = s[i]
    BY <2>3, <2>Place, RemovedFacts
  <2>5. PICK f \in [1..Len(w) -> (1..Len(s)) \ {m}] :
              /\ \A i \in 1..Len(w) : w[i] = s[f[i]]
              /\ \A i, j \in 1..Len(w) : i < j => f[i] < f[j]
              /\ \A i, j \in 1..Len(w) : f[i] = f[j] => i = j
    BY <2>4 DEF Skips
  <2>6. DOMAIN w = 1..Len(w) /\ \A x : x \in Range(w) <=> \E i \in 1..Len(w) : w[i] = x
    BY <2>4, LenProperties DEF Range
  <2>7. Range(w) \subseteq Range(s)
    BY <1>2, <2>5, <2>6
  <2>8. InOrder(s) => InOrder(w)
    BY <1>1, <2>5, <2>6 DEF InOrder
  <2>9. OnceEach(s) => OnceEach(w)
    BY <1>1, <2>5, <2>6 DEF OnceEach
  <2>10. ASSUME OnceEach(s) PROVE Range(w) = {x \in Range(s) : x.id # id}
    <3>1. \A i \in 1..Len(s) : s[i].id = id <=> i = m
      BY <2>2, <2>10, <1>1 DEF OnceEach
    <3>2. ASSUME NEW x \in Range(w) PROVE x.id # id
      BY <2>5, <2>6, <3>1
    <3>3. ASSUME NEW x \in Range(s), x.id # id PROVE x \in Range(w)
      BY <3>1, <3>3, <1>2, <2>4, <2>6
    <3> QED
      BY <3>2, <3>3, <2>7
  <2> QED
    BY <2>4, <2>7, <2>8, <2>9, <2>10
<1> QED
  BY <1>3, <1>4

-----------------------------------------------------------------------------
(* Configurations.                                                         *)

\* The lists are in the order of the priorities.
Ordered(c) ==
  /\ c \in Configurations
  /\ \A k \in Kinds, p \in ProgNames : InOrder(c.lists[k][p])

\* No id is twice in a list, and a rule is kept under its program.
Neat(c) ==
  \A k \in Kinds, p \in ProgNames :
    OnceEach(c.lists[k][p]) /\ \A r \in Range(c.lists[k][p]) : r.program = p

\* The rules, or loops, that are kept under their program.
Rules(c, k) == {r \in AbstractRules : r \in Range(c.lists[k][r.program])}

\* No two have the same id or the same priority.
Unique(c) ==
  \A k, l \in Kinds : \A r \in Rules(c, k), x \in Rules(c, l) :
    (r.id = x.id \/ r.priority = x.priority) => r = x /\ k = l

\* The parts of a configuration.
LEMMA Parts ==
  ASSUME NEW c \in Configurations
  PROVE  /\ c.domains \in SUBSET Names /\ c.default \in Names \cup {NoDomain}
         /\ c.lists \in [Kinds -> [ProgNames -> Seq(AbstractRules)]]
         /\ \A k \in Kinds, p \in ProgNames :
              /\ c.lists[k][p] \in Seq(AbstractRules)
              /\ Range(c.lists[k][p]) \subseteq AbstractRules
<1>1. /\ c.domains \in SUBSET Names /\ c.default \in Names \cup {NoDomain}
      /\ c.lists \in [Kinds -> [ProgNames -> Seq(AbstractRules)]]
  BY DEF Configurations
<1>2. \A k \in Kinds, p \in ProgNames : c.lists[k][p] \in Seq(AbstractRules)
  BY <1>1
<1>3. \A k \in Kinds, p \in ProgNames : Range(c.lists[k][p]) \subseteq AbstractRules
  BY <1>2, ListFacts
<1> QED
  BY <1>1, <1>2, <1>3

\* Where rules are kept under their program, a list has those of the program.
LEMMA RulesOf ==
  ASSUME NEW c \in Configurations, Neat(c), NEW k \in Kinds, NEW p \in ProgNames
  PROVE  Range(c.lists[k][p]) = {r \in Rules(c, k) : r.program = p}
BY Parts DEF Neat, Rules

\* Tidy, in these terms.
LEMMA TidyIs ==
  ASSUME NEW c \in Configurations
  PROVE  Tidy(c) <=> Neat(c) /\ Unique(c)
<1>1. ASSUME Tidy(c) PROVE Neat(c) /\ Unique(c)
  <2>1. Neat(c)
    BY <1>1 DEF Tidy, Neat, OnceEach
  <2>2. ASSUME NEW k \in Kinds, NEW l \in Kinds, NEW r \in Rules(c, k), NEW x \in Rules(c, l),
               r.id = x.id \/ r.priority = x.priority
        PROVE  r = x /\ k = l
    <3>1. /\ r.program \in ProgNames /\ r \in Range(c.lists[k][r.program])
          /\ x.program \in ProgNames /\ x \in Range(c.lists[l][x.program])
      BY RuleNumbers DEF Rules
    <3> QED
      BY <3>1, <2>2, <1>1 DEF Tidy
  <2> QED
    BY <2>1, <2>2 DEF Unique
<1>2. ASSUME Neat(c), Unique(c) PROVE Tidy(c)
  <2>1. \A k \in Kinds, p \in ProgNames : Range(c.lists[k][p]) \subseteq Rules(c, k)
    BY <1>2, RulesOf
  <2>2. ASSUME NEW k \in Kinds, NEW l \in Kinds, NEW p \in ProgNames, NEW q \in ProgNames,
               NEW r \in Range(c.lists[k][p]), NEW x \in Range(c.lists[l][q]),
               r.id = x.id \/ r.priority = x.priority
        PROVE  r = x /\ k = l
    BY <2>1, <2>2, <1>2 DEF Unique
  <2> QED
    BY <2>2, <1>2 DEF Tidy, Neat, OnceEach
<1> QED
  BY <1>1, <1>2

\* A configuration with another list in one place.
Put(c, k, p, w) == [c EXCEPT !.lists[k][p] = w]

\* Everything else stays.
LEMMA PutList ==
  ASSUME NEW c \in Configurations, NEW k \in Kinds, NEW p \in ProgNames,
         NEW w \in Seq(AbstractRules), NEW e, e = Put(c, k, p, w)
  PROVE  /\ e \in Configurations /\ e.domains = c.domains /\ e.default = c.default
         /\ e.lists[k][p] = w
         /\ \A j \in Kinds, q \in ProgNames : j # k \/ q # p => e.lists[j][q] = c.lists[j][q]
BY Parts DEF Configurations, Put

\* It is in order when the list is.
LEMMA PutOrdered ==
  ASSUME NEW c, Ordered(c), NEW k \in Kinds, NEW p \in ProgNames,
         NEW w \in Seq(AbstractRules), InOrder(w), NEW e, e = Put(c, k, p, w)
  PROVE  Ordered(e) /\ e.domains = c.domains /\ e.default = c.default
<1>1. /\ e \in Configurations /\ e.domains = c.domains /\ e.default = c.default
      /\ e.lists[k][p] = w
      /\ \A j \in Kinds, q \in ProgNames : j # k \/ q # p => e.lists[j][q] = c.lists[j][q]
  BY PutList DEF Ordered
<1> QED
  BY <1>1 DEF Ordered

\* And neat when the list is; its rules are the others and those of the list.
LEMMA PutNeat ==
  ASSUME NEW c \in Configurations, Neat(c), NEW k \in Kinds, NEW p \in ProgNames,
         NEW w \in Seq(AbstractRules), OnceEach(w), \A r \in Range(w) : r.program = p,
         NEW e, e = Put(c, k, p, w)
  PROVE  /\ Neat(e)
         /\ Rules(e, k) = {r \in Rules(c, k) : r.program # p} \cup Range(w)
         /\ \A j \in Kinds : j # k => Rules(e, j) = Rules(c, j)
<1>1. /\ e \in Configurations /\ e.lists[k][p] = w
      /\ \A j \in Kinds, q \in ProgNames : j # k \/ q # p => e.lists[j][q] = c.lists[j][q]
  BY PutList
<1>2. Neat(e)
  BY <1>1 DEF Neat
<1>3. \A r \in AbstractRules : r.program \in ProgNames
  BY RuleNumbers
<1>4. Range(w) \subseteq AbstractRules
  BY ListFacts
<1>5. Rules(e, k) = {r \in Rules(c, k) : r.program # p} \cup Range(w)
  BY <1>1, <1>3, <1>4 DEF Rules
<1>6. \A j \in Kinds : j # k => Rules(e, j) = Rules(c, j)
  BY <1>1, <1>3 DEF Rules
<1> QED
  BY <1>2, <1>5, <1>6

\* addRule: the lists stay in order, and the rule is one more.
LEMMA AddFacts ==
  ASSUME NEW c, Ordered(c), NEW k \in Kinds, NEW r \in AbstractRules, NEW e, e = Add(c, k, r)
  PROVE  /\ Ordered(e) /\ e.domains = c.domains /\ e.default = c.default
         /\ Neat(c) /\ (\A x \in Rules(c, k) : x.id # r.id) =>
              /\ Neat(e) /\ Rules(e, k) = Rules(c, k) \cup {r}
              /\ \A j \in Kinds : j # k => Rules(e, j) = Rules(c, j)
<1>1. c \in Configurations /\ r.program \in ProgNames
  BY RuleNumbers DEF Ordered
<1>2. PICK p, s : p = r.program /\ s = c.lists[k][p]
  OBVIOUS
<1>3. p \in ProgNames /\ s \in Seq(AbstractRules) /\ InOrder(s)
  BY <1>1, <1>2, Parts DEF Ordered
<1>4. PICK w : w = Insert(s, r)
  OBVIOUS
<1>5. e = Put(c, k, p, w)
  BY <1>2, <1>4 DEF Add, Put
<1>6. /\ w \in Seq(AbstractRules) /\ Range(w) = Range(s) \cup {r} /\ InOrder(w)
      /\ OnceEach(s) /\ (\A x \in Range(s) : x.id # r.id) => OnceEach(w)
  BY <1>3, <1>4, InsertFacts
<1>7. Ordered(e) /\ e.domains = c.domains /\ e.default = c.default
  BY <1>3, <1>5, <1>6, PutOrdered
<1>8. ASSUME Neat(c), \A x \in Rules(c, k) : x.id # r.id
      PROVE  /\ Neat(e) /\ Rules(e, k) = Rules(c, k) \cup {r}
             /\ \A j \in Kinds : j # k => Rules(e, j) = Rules(c, j)
  <2>1. Range(s) = {x \in Rules(c, k) : x.program = p} /\ OnceEach(s)
    BY <1>1, <1>2, <1>3, <1>8, RulesOf DEF Neat
  <2>2. OnceEach(w) /\ \A x \in Range(w) : x.program = p
    BY <2>1, <1>2, <1>6, <1>8
  <2>3. /\ Neat(e) /\ Rules(e, k) = {x \in Rules(c, k) : x.program # p} \cup Range(w)
        /\ \A j \in Kinds : j # k => Rules(e, j) = Rules(c, j)
    BY <2>2, <1>1, <1>3, <1>5, <1>6, <1>8, PutNeat
  <2> QED
    BY <2>1, <2>3, <1>6
<1> QED
  BY <1>7, <1>8

\* The same in one word.
Added(e, c, k, r) ==
  /\ Ordered(e) /\ e.domains = c.domains /\ e.default = c.default
  /\ Neat(c) /\ (\A x \in Rules(c, k) : x.id # r.id) =>
       /\ Neat(e) /\ Rules(e, k) = Rules(c, k) \cup {r}
       /\ \A j \in Kinds : j # k => Rules(e, j) = Rules(c, j)

\* addRule and addLoop put the rule with the others of its kind.
LEMMA AddIs ==
  ASSUME NEW c, Ordered(c), NEW k \in Kinds, NEW r \in AbstractRules, NEW e, e = Add(c, k, r)
  PROVE  Added(e, c, k, r)
BY AddFacts DEF Added

\* A rule is taken out of one list.
LEMMA TakeOut ==
  ASSUME NEW c, Ordered(c), NEW k \in Kinds, NEW p \in ProgNames, NEW id,
         NEW e, e = Put(c, k, p, Without(c.lists[k][p], id))
  PROVE  /\ Ordered(e) /\ e.domains = c.domains /\ e.default = c.default
         /\ Neat(c) =>
              /\ Neat(e) /\ Rules(e, k) = {x \in Rules(c, k) : x.id # id \/ x.program # p}
              /\ \A j \in Kinds : j # k => Rules(e, j) = Rules(c, j)
<1>1. c \in Configurations
  BY DEF Ordered
<1>2. PICK s, w : s = c.lists[k][p] /\ w = Without(s, id)
  OBVIOUS
<1>3. s \in Seq(AbstractRules) /\ InOrder(s) /\ e = Put(c, k, p, w)
  BY <1>1, <1>2, Parts DEF Ordered
<1>4. /\ w \in Seq(AbstractRules) /\ Range(w) \subseteq Range(s) /\ InOrder(w)
      /\ OnceEach(s) => OnceEach(w) /\ Range(w) = {x \in Range(s) : x.id # id}
  BY <1>2, <1>3, WithoutFacts
<1>5. Ordered(e) /\ e.domains = c.domains /\ e.default = c.default
  BY <1>3, <1>4, PutOrdered
<1>6. ASSUME Neat(c)
      PROVE  /\ Neat(e) /\ Rules(e, k) = {x \in Rules(c, k) : x.id # id \/ x.program # p}
             /\ \A j \in Kinds : j # k => Rules(e, j) = Rules(c, j)
  <2>1. Range(s) = {x \in Rules(c, k) : x.program = p} /\ OnceEach(s)
    BY <1>1, <1>2, <1>6, RulesOf DEF Neat
  <2>2. OnceEach(w) /\ \A x \in Range(w) : x.program = p
    BY <2>1, <1>4
  <2>3. /\ Neat(e) /\ Rules(e, k) = {x \in Rules(c, k) : x.program # p} \cup Range(w)
        /\ \A j \in Kinds : j # k => Rules(e, j) = Rules(c, j)
    BY <2>2, <1>1, <1>3, <1>4, <1>6, PutNeat
  <2> QED
    BY <2>1, <2>3, <1>4
<1> QED
  BY <1>5, <1>6

\* deleteRule(Rule &).
LEMMA DeleteObjectFacts ==
  ASSUME NEW c, Ordered(c), NEW k \in Kinds, NEW r \in AbstractRules,
         NEW e, e = DeleteObject(c, k, r)
  PROVE  /\ Ordered(e) /\ e.domains = c.domains /\ e.default = c.default
         /\ Neat(c) =>
              /\ Neat(e)
              /\ Rules(e, k) = {x \in Rules(c, k) : x.id # r.id \/ x.program # r.program}
              /\ \A j \in Kinds : j # k => Rules(e, j) = Rules(c, j)
<1>1. r.program \in ProgNames
  BY RuleNumbers
<1>2. e = Put(c, k, r.program, Without(c.lists[k][r.program], r.id))
  BY DEF DeleteObject, Put
<1> QED
  BY <1>1, <1>2, TakeOut

\* The programs that have a rule with the id.
LEMMA HoldersFacts ==
  ASSUME NEW c, Ordered(c), NEW k \in Kinds, NEW id
  PROVE  /\ Holders(c, k, id) # {} =>
              /\ Min(Holders(c, k, id)) \in Holders(c, k, id)
              /\ Min(Holders(c, k, id)) \in ProgNames
         /\ \A p \in ProgNames :
              p \in Holders(c, k, id) <=> \E x \in Range(c.lists[k][p]) : x.id = id
         /\ Neat(c) => \A p \in ProgNames :
              p \in Holders(c, k, id) <=> \E x \in Rules(c, k) : x.id = id /\ x.program = p
<1>1. c \in Configurations /\ Holders(c, k, id) \in SUBSET (1..NProgs) /\ NProgs \in Nat
  BY NProgsType DEF Ordered, Holders, ProgNames
<1>2. Holders(c, k, id) # {} =>
              /\ Min(Holders(c, k, id)) \in Holders(c, k, id)
              /\ Min(Holders(c, k, id)) \in ProgNames
  BY <1>1, FirstPlace DEF ProgNames
<1>3. ASSUME NEW p \in ProgNames
      PROVE  p \in Holders(c, k, id) <=> \E x \in Range(c.lists[k][p]) : x.id = id
  BY DEF Holders, Has, Range
<1>4. ASSUME Neat(c), NEW p \in ProgNames
      PROVE  p \in Holders(c, k, id) <=> \E x \in Rules(c, k) : x.id = id /\ x.program = p
  BY <1>1, <1>3, <1>4, RulesOf
<1> QED
  BY <1>2, <1>3, <1>4

\* deleteRule(int).
LEMMA DeleteIdFacts ==
  ASSUME NEW c, Ordered(c), NEW k \in Kinds, NEW id, NEW e, e = DeleteId(c, k, id)
  PROVE  /\ Ordered(e) /\ e.domains = c.domains /\ e.default = c.default
         /\ Neat(c) /\ (\A x, y \in Rules(c, k) : x.id = y.id => x = y) =>
              /\ Neat(e) /\ Rules(e, k) = {x \in Rules(c, k) : x.id # id}
              /\ \A j \in Kinds : j # k => Rules(e, j) = Rules(c, j)
<1>1. \A x \in Rules(c, k) : x.program \in ProgNames
  BY RuleNumbers DEF Rules
<1>2. CASE Holders(c, k, id) = {}
  <2>1. e = c
    BY <1>2 DEF DeleteId
  <2>2. Neat(c) => \A x \in Rules(c, k) : x.id # id
    BY <1>1, <1>2, HoldersFacts
  <2> QED
    BY <2>1, <2>2
<1>3. CASE Holders(c, k, id) # {}
  <2>1. PICK p : p = Min(Holders(c, k, id))
    OBVIOUS
  <2>2. p \in ProgNames /\ p \in Holders(c, k, id)
    BY <2>1, <1>3, HoldersFacts
  <2>3. e = Put(c, k, p, Without(c.lists[k][p], id))
    BY <2>1, <1>3 DEF DeleteId, Put
  <2>4. /\ Ordered(e) /\ e.domains = c.domains /\ e.default = c.default
        /\ Neat(c) =>
             /\ Neat(e) /\ Rules(e, k) = {x \in Rules(c, k) : x.id # id \/ x.program # p}
             /\ \A j \in Kinds : j # k => Rules(e, j) = Rules(c, j)
    BY <2>2, <2>3, TakeOut
  <2>5. ASSUME Neat(c), \A x, y \in Rules(c, k) : x.id = y.id => x = y
        PROVE  \A x \in Rules(c, k) : x.id = id => x.program = p
    BY <2>2, <2>5, HoldersFacts
  <2> QED
    BY <2>4, <2>5
<1> QED
  BY <1>2, <1>3

\* findRule.
LEMMA FindFacts ==
  ASSUME NEW c, Ordered(c), NEW k \in Kinds, NEW id, Holders(c, k, id) # {},
         NEW r, r = Find(c, k, id)
  PROVE  /\ r \in AbstractRules /\ r.id = id
         /\ \E p \in ProgNames : r \in Range(c.lists[k][p])
         /\ Neat(c) => r \in Rules(c, k)
<1>1. PICK p : p = Min(Holders(c, k, id))
  OBVIOUS
<1>2. c \in Configurations /\ p \in ProgNames /\ p \in Holders(c, k, id)
  BY <1>1, HoldersFacts DEF Ordered
<1>3. PICK s : s = c.lists[k][p]
  OBVIOUS
<1>4. s \in Seq(AbstractRules) /\ Len(s) \in Nat /\ DOMAIN s = 1..Len(s)
  BY <1>2, <1>3, Parts, LenProperties
<1> DEFINE I == {i \in 1..Len(s) : s[i].id = id}
<1>5. PICK m : m = Min(I)
  OBVIOUS
<1>6. I # {}
  BY <1>2, <1>3, <1>4 DEF Holders, Has
<1>7. m \in I /\ m \in 1..Len(s)
  <2>1. I \in SUBSET (1..Len(s))
    OBVIOUS
  <2> HIDE DEF I
  <2> QED
    BY <2>1, <1>4, <1>5, <1>6, FirstPlace
<1>8. r = s[m]
  BY <1>1, <1>3, <1>5, <1>6 DEF Find, SelectInSeq
<1>9. r \in AbstractRules /\ r.id = id /\ r \in Range(s)
  BY <1>4, <1>7, <1>8, ElementOfSeq DEF Range
<1>10. Neat(c) => r \in Rules(c, k)
  BY <1>2, <1>3, <1>9, RulesOf
<1> QED
  BY <1>2, <1>3, <1>9, <1>10

\* updateRule: the rule takes the place of the one with its id.
LEMMA UpdateFacts ==
  ASSUME NEW c, Ordered(c), NEW k \in Kinds, NEW r \in AbstractRules, NEW e, e = Update(c, k, r)
  PROVE  /\ Ordered(e) /\ e.domains = c.domains /\ e.default = c.default
         /\ Neat(c) /\ (\A x \in Rules(c, k) : x.id = r.id => x.program = r.program) =>
              /\ Neat(e) /\ Rules(e, k) = {x \in Rules(c, k) : x.id # r.id} \cup {r}
              /\ \A j \in Kinds : j # k => Rules(e, j) = Rules(c, j)
<1>1. PICK d : d = DeleteObject(c, k, r)
  OBVIOUS
<1>2. /\ Ordered(d) /\ d.domains = c.domains /\ d.default = c.default
      /\ Neat(c) =>
           /\ Neat(d)
           /\ Rules(d, k) = {x \in Rules(c, k) : x.id # r.id \/ x.program # r.program}
           /\ \A j \in Kinds : j # k => Rules(d, j) = Rules(c, j)
  BY <1>1, DeleteObjectFacts
<1>3. e = Add(d, k, r)
  BY <1>1 DEF Update
<1>4. /\ Ordered(e) /\ e.domains = d.domains /\ e.default = d.default
      /\ Neat(d) /\ (\A x \in Rules(d, k) : x.id # r.id) =>
           /\ Neat(e) /\ Rules(e, k) = Rules(d, k) \cup {r}
           /\ \A j \in Kinds : j # k => Rules(e, j) = Rules(d, j)
  BY <1>2, <1>3, AddFacts
<1>5. ASSUME Neat(c), \A x \in Rules(c, k) : x.id = r.id => x.program = r.program
      PROVE  Neat(d) /\ Rules(d, k) = {x \in Rules(c, k) : x.id # r.id}
  BY <1>2, <1>5
<1> QED
  BY <1>2, <1>4, <1>5

-----------------------------------------------------------------------------
(* allRules() and allLoops().                                              *)

\* What is in two lists, one after the other.
LEMMA JoinedFacts ==
  ASSUME NEW S, NEW s \in Seq(S), NEW t \in Seq(S), NEW w, w = s \o t
  PROVE  /\ w \in Seq(S) /\ Range(w) = Range(s) \cup Range(t)
         /\ OnceEach(s) /\ OnceEach(t) /\ (\A x \in Range(s), y \in Range(t) : x.id # y.id)
              => OnceEach(w)
<1>1. /\ w \in Seq(S) /\ Len(w) = Len(s) + Len(t)
      /\ \A i \in 1..Len(s) : w[i] = s[i]
      /\ \A i \in 1..Len(t) : w[Len(s) + i] = t[i]
  BY Joined
<1>2. /\ Len(s) \in Nat /\ DOMAIN s = 1..Len(s)
      /\ Len(t) \in Nat /\ DOMAIN t = 1..Len(t)
      /\ DOMAIN w = 1..Len(s) + Len(t)
  BY <1>1, LenProperties
<1>3. ASSUME NEW i \in 1..Len(s) + Len(t)
      PROVE  i \notin 1..Len(s) => (i - Len(s) \in 1..Len(t) /\ w[i] = t[i - Len(s)])
  <2>1. CASE i \notin 1..Len(s)
    <3>1. i - Len(s) \in 1..Len(t) /\ Len(s) + (i - Len(s)) = i
      BY <2>1, <1>2
    <3>2. w[Len(s) + (i - Len(s))] = t[i - Len(s)]
      BY <3>1, <1>1
    <3> QED
      BY <3>1, <3>2
  <2> QED
    BY <2>1
<1>4. Range(w) = Range(s) \cup Range(t)
  <2>1. /\ \A x : x \in Range(w) <=> \E i \in 1..Len(s) + Len(t) : w[i] = x
        /\ \A x : x \in Range(s) <=> \E i \in 1..Len(s) : s[i] = x
        /\ \A x : x \in Range(t) <=> \E i \in 1..Len(t) : t[i] = x
    BY <1>2 DEF Range
  <2>2. ASSUME NEW x \in Range(w) PROVE x \in Range(s) \cup Range(t)
    BY <2>1, <1>1, <1>3
  <2>3. ASSUME NEW x \in Range(s) PROVE x \in Range(w)
    <3>1. PICK i \in 1..Len(s) : s[i] = x
      BY <2>1
    <3>2. i \in 1..Len(s) + Len(t) /\ w[i] = x
      BY <3>1, <1>1, <1>2
    <3> QED
      BY <3>2, <2>1
  <2>4. ASSUME NEW x \in Range(t) PROVE x \in Range(w)
    <3>1. PICK i \in 1..Len(t) : t[i] = x
      BY <2>1
    <3>2. Len(s) + i \in 1..Len(s) + Len(t) /\ w[Len(s) + i] = x
      BY <3>1, <1>1, <1>2
    <3> QED
      BY <3>2, <2>1
  <2> QED
    BY <2>2, <2>3, <2>4
<1>5. ASSUME OnceEach(s), OnceEach(t), \A x \in Range(s), y \in Range(t) : x.id # y.id
      PROVE  OnceEach(w)
  <2> SUFFICES ASSUME NEW i \in 1..Len(s) + Len(t), NEW j \in 1..Len(s) + Len(t), w[i].id = w[j].id
               PROVE  i = j
    BY <1>2 DEF OnceEach
  <2>1. \A m \in 1..Len(s), n \in 1..Len(t) : s[m].id # t[n].id
    BY <1>2, <1>5 DEF Range
  <2>2. CASE i \in 1..Len(s) /\ j \in 1..Len(s)
    BY <2>2, <1>1, <1>2, <1>5 DEF OnceEach
  <2>3. CASE i \in 1..Len(s) /\ j \notin 1..Len(s)
    BY <2>1, <2>3, <1>1, <1>3
  <2>4. CASE i \notin 1..Len(s) /\ j \in 1..Len(s)
    BY <2>1, <2>4, <1>1, <1>3
  <2>5. CASE i \notin 1..Len(s) /\ j \notin 1..Len(s)
    <3>1. PICK m, n : m = i - Len(s) /\ n = j - Len(s)
      OBVIOUS
    <3>2. m \in 1..Len(t) /\ w[i] = t[m] /\ n \in 1..Len(t) /\ w[j] = t[n]
      BY <3>1, <2>5, <1>3
    <3>3. m = n
      BY <3>2, <1>2, <1>5 DEF OnceEach
    <3> QED
      BY <3>1, <3>3, <1>2
  <2> QED
    BY <2>2, <2>3, <2>4, <2>5
<1> QED
  BY <1>1, <1>4, <1>5

\* Concatenation, with its definition hidden.
Cat(s, t) == s \o t

\* What joining two lists does to their elements and their ids.
LEMMA CatFacts ==
  ASSUME NEW C, C = Seq(AbstractRules), NEW s \in C, NEW t \in C, NEW w, w = Cat(s, t)
  PROVE  /\ w \in C /\ Range(w) = Range(s) \cup Range(t)
         /\ OnceEach(s) /\ OnceEach(t) /\ (\A x \in Range(s), y \in Range(t) : x.id # y.id)
              => OnceEach(w)
<1>1. s \in Seq(AbstractRules) /\ t \in Seq(AbstractRules) /\ w = s \o t
  BY DEF Cat
<1>2. /\ w \in Seq(AbstractRules) /\ Range(w) = Range(s) \cup Range(t)
      /\ OnceEach(s) /\ OnceEach(t) /\ (\A x \in Range(s), y \in Range(t) : x.id # y.id)
              => OnceEach(w)
  BY <1>1, JoinedFacts
<1> QED
  BY <1>2

\* f has the lists put together so far.
Flattens(f, a, n, C) ==
  /\ f \in [1..n -> C]
  /\ FlattenSeq(a) = f[n] /\ f[1] = a[1]
  /\ \A i \in 1..n-1 : f[i+1] = Cat(f[i], a[i+1])

\* FlattenSeq puts the lists one after the other.
LEMMA FlattenIs ==
  ASSUME NEW C, C = Seq(AbstractRules), NEW n \in Nat \ {0}, NEW a \in [1..n -> C]
  PROVE  \E f : Flattens(f, a, n, C)
<1> DEFINE Body(g) == [i \in 1..n |-> IF i = 1 THEN a[i] ELSE Cat(g[i-1], a[i])]
           flat == CHOOSE g : g = Body(g)
           F == [x \in C \X (1..n) |-> Cat(x[1], a[x[2]])]
<1>1. Len(a) = n
  BY SeqOfFunction
<1>2. <<>> \in C /\ \A s \in C : Cat(<<>>, s) = s
  BY EmptySeq, ConcatEmptySeq DEF Cat
<1>3. \A s, t \in C : Cat(s, t) \in C
  BY ConcatProperties DEF Cat
<1>4. FlattenSeq(a) = flat[n]
  BY <1>1 DEF FlattenSeq, Cat
<1>5. PICK e : e = <<>>
  OBVIOUS
<1>6. F \in [C \X (1..n) -> C]
  BY <1>3
<1>7. PICK g \in [0..n -> C] : g[0] = e /\ \A i \in 1..n : g[i] = F[<<g[i-1], i>>]
  <2> HIDE DEF F
  <2>1. e \in C /\ n \in Nat
    BY <1>2, <1>5
  <2>2. PICK G : G = F
    OBVIOUS
  <2>3. G \in [C \X (1..n) -> C]
    BY <1>6, <2>2
  <2>4. PICK g : Recursive(g, n, C, e, G)
    BY <2>1, <2>3, Recursion
  <2> QED
    BY <2>2, <2>4 DEF Recursive
<1>8. ASSUME NEW i \in 1..n PROVE g[i] = Cat(g[i-1], a[i])
  <2>1. <<g[i-1], i>> \in C \X (1..n)
    BY <1>7
  <2>2. g[i] = F[<<g[i-1], i>>]
    BY <1>7
  <2> QED
    BY <2>1, <2>2
<1>9. g[1] = a[1]
  <2>1. a[1] \in C /\ 1 \in 1..n /\ 1 - 1 = 0
    OBVIOUS
  <2>2. g[1] = Cat(g[0], a[1])
    BY <2>1, <1>8
  <2> QED
    BY <2>1, <2>2, <1>2, <1>5, <1>7
<1> DEFINE h == [i \in 1..n |-> g[i]]
<1>10. h = Body(h)
  <2>1. ASSUME NEW i \in 1..n PROVE h[i] = IF i = 1 THEN a[i] ELSE Cat(h[i-1], a[i])
    <3>1. CASE i = 1
      BY <3>1, <1>9
    <3>2. CASE i # 1
      <4>1. i - 1 \in 1..n /\ h[i] = g[i] /\ h[i-1] = g[i-1]
        BY <3>2
      <4> QED
        BY <4>1, <3>2, <1>8
    <3> QED
      BY <3>1, <3>2
  <2> QED
    BY <2>1
<1>11. flat = Body(flat)
  <2> HIDE DEF Body, h
  <2> QED
    BY <1>10
<1> HIDE DEF flat
<1>12. \A i \in 1..n : flat[i] = IF i = 1 THEN a[i] ELSE Cat(flat[i-1], a[i])
  BY <1>11
<1>13. flat[1] = a[1] /\ \A i \in 1..n-1 : flat[i+1] = Cat(flat[i], a[i+1])
  <2>1. 1 \in 1..n
    OBVIOUS
  <2>2. ASSUME NEW i \in 1..n-1 PROVE flat[i+1] = Cat(flat[i], a[i+1])
    <3>1. i + 1 \in 1..n /\ i + 1 # 1 /\ i + 1 - 1 = i
      OBVIOUS
    <3> QED
      BY <3>1, <1>12
  <2> QED
    BY <2>1, <2>2, <1>12
<1>14. \A i \in 1..n : flat[i] \in C
  <2> DEFINE I == {i \in 0..n : i = 0 \/ flat[i] \in C}
  <2>1. 0 \in I
    OBVIOUS
  <2>2. ASSUME NEW i \in 0..n-1, i \in I PROVE i + 1 \in I
    <3>1. CASE i = 0
      BY <3>1, <1>13
    <3>2. CASE i # 0
      <4>1. flat[i] \in C /\ i \in 1..n-1 /\ i + 1 \in 1..n
        BY <3>2, <2>2
      <4>2. flat[i+1] = Cat(flat[i], a[i+1]) /\ a[i+1] \in C
        BY <4>1, <1>13
      <4>3. flat[i+1] \in C
        BY <4>1, <4>2, <1>3
      <4> QED
        BY <4>1, <4>3
    <3> QED
      BY <3>1, <3>2
  <2> HIDE DEF I
  <2>3. \A i \in 0..n : i \in I
    BY <2>1, <2>2, UpTo
  <2> QED
    BY <2>3 DEF I
<1>15. flat \in [1..n -> C]
  <2>1. flat = [i \in 1..n |-> flat[i]]
    BY <1>11
  <2> QED
    BY <2>1, <1>14
<1> QED
  BY <1>4, <1>13, <1>15 DEF Flattens

\* All has the rules of all lists, and each id once when no two have the same.
LEMMA AllFacts ==
  ASSUME NEW c \in Configurations, NEW k \in Kinds, NEW w, w = All(c, k)
  PROVE  /\ w \in Seq(AbstractRules)
         /\ \A x : x \in Range(w) <=> \E p \in ProgNames : x \in Range(c.lists[k][p])
         /\ Neat(c) => Range(w) = Rules(c, k)
         /\ Neat(c) /\ (\A x, y \in Rules(c, k) : x.id = y.id => x = y) => OnceEach(w)
<1>1. PICK a, n, C : a = c.lists[k] /\ n = NProgs /\ C = Seq(AbstractRules)
  OBVIOUS
<1>2. n \in Nat \ {0} /\ a \in [1..n -> C] /\ ProgNames = 1..n
  BY <1>1, NProgsType, Parts DEF ProgNames
<1>3. PICK f \in [1..n -> C] :
        /\ FlattenSeq(a) = f[n] /\ f[1] = a[1]
        /\ \A i \in 1..n-1 : f[i+1] = Cat(f[i], a[i+1])
  <2>1. C = Seq(AbstractRules) /\ n \in Nat \ {0} /\ a \in [1..n -> C]
    BY <1>1, <1>2
  <2>2. PICK f : Flattens(f, a, n, C)
    BY <2>1, FlattenIs
  <2> QED
    BY <2>2 DEF Flattens
<1>4. w = f[n]
  BY <1>1, <1>3 DEF All
<1> DEFINE Has1(i) == \A x : x \in Range(f[i]) <=> \E p \in 1..i : x \in Range(a[p])
           Sole == Neat(c) /\ \A x, y \in Rules(c, k) : x.id = y.id => x = y
           I == {i \in 0..n : i = 0 \/ (Has1(i) /\ (Sole => OnceEach(f[i])))}
<1>5. 0 \in I
  BY <1>2
<1>6. ASSUME NEW i \in 0..n-1, i \in I PROVE i + 1 \in I
  <2>0. i + 1 \in 1..n /\ i + 1 \in 0..n /\ i \in 0..n
    BY <1>2
  <2>1. Sole => OnceEach(a[i+1])
    BY <1>1, <1>2, <2>0 DEF Neat
  <2>2. CASE i = 0
    <3>1. f[1] = a[1] /\ (Sole => OnceEach(f[1])) /\ 1..1 = {1}
      BY <2>1, <2>2, <1>3
    <3>2. Has1(1)
      BY <3>1
    <3> QED
      BY <3>1, <3>2, <2>2, <1>2
  <2>3. CASE i # 0
    <3>1. PICK u, s, t : u = f[i+1] /\ s = f[i] /\ t = a[i+1]
      OBVIOUS
    <3>2. i \in 1..n-1 /\ i \in 1..n
      BY <2>0, <2>3, <1>2
    <3>3. s \in C /\ t \in C /\ u = Cat(s, t)
      BY <3>1, <3>2, <2>0, <1>2, <1>3
    <3>4. Has1(i) /\ (Sole => OnceEach(f[i]))
      BY <2>3, <1>6
    <3>5. /\ Range(u) = Range(s) \cup Range(t)
          /\ OnceEach(s) /\ OnceEach(t) /\ (\A x \in Range(s), y \in Range(t) : x.id # y.id)
              => OnceEach(u)
      BY <3>3, <1>1, CatFacts
    <3>6. Has1(i + 1)
      <4>1. \A p : p \in 1..i+1 <=> p \in 1..i \/ p = i + 1
        BY <3>2
      <4> QED
        BY <4>1, <3>1, <3>4, <3>5
    <3>7. ASSUME Sole PROVE OnceEach(f[i+1])
      <4>1. ASSUME NEW x \in Range(s), NEW y \in Range(t), x.id = y.id PROVE FALSE
        <5>1. PICK p \in 1..i : x \in Range(a[p])
          BY <3>1, <3>4
        <5>2. p \in ProgNames /\ i + 1 \in ProgNames /\ p # i + 1
          BY <1>2, <2>0, <3>2
        <5>3. x \in Rules(c, k) /\ x.program = p
          BY <5>1, <5>2, <3>7, <1>1, RulesOf
        <5>4. y \in Rules(c, k) /\ y.program = i + 1
          BY <5>2, <3>1, <3>7, <1>1, RulesOf
        <5> QED
          BY <5>2, <5>3, <5>4, <4>1, <3>7
      <4> QED
        BY <4>1, <2>1, <3>1, <3>4, <3>5, <3>7
    <3> QED
      BY <3>6, <3>7, <2>0
  <2> QED
    BY <2>2, <2>3
<1> HIDE DEF I
<1>7. n \in I
  <2>1. \A i \in 0..n : i \in I
    BY <1>2, <1>5, <1>6, UpTo
  <2> QED
    BY <2>1, <1>2
<1>8. Has1(n) /\ (Sole => OnceEach(w))
  BY <1>2, <1>4, <1>7 DEF I
<1>9. w \in Seq(AbstractRules)
  BY <1>1, <1>2, <1>3, <1>4
<1>10. \A x : x \in Range(w) <=> \E p \in ProgNames : x \in Range(c.lists[k][p])
  BY <1>1, <1>2, <1>4, <1>8
<1>11. ASSUME Neat(c) PROVE Range(w) = Rules(c, k)
  <2>1. \A x \in Rules(c, k) : x.program \in ProgNames
    BY RuleNumbers DEF Rules
  <2>2. \A p \in ProgNames : Range(c.lists[k][p]) = {r \in Rules(c, k) : r.program = p}
    BY <1>11, RulesOf
  <2> HIDE DEF Sole, Has1
  <2>3. ASSUME NEW x \in Range(w) PROVE x \in Rules(c, k)
    BY <2>2, <1>10
  <2>4. ASSUME NEW x \in Rules(c, k) PROVE x \in Range(w)
    BY <2>1, <2>2, <1>10
  <2> QED
    BY <2>3, <2>4
<1> QED
  BY <1>8, <1>9, <1>10, <1>11

-----------------------------------------------------------------------------
(* The trules of a rule.                                                   *)

\* The trules name domains of ds, each once, and loose names.
Covered(ts, ds, ls) ==
  /\ \A i \in DOMAIN ts : ts[i].from \in ds \cup ls
  /\ \A i, j \in DOMAIN ts : ts[i].from = ts[j].from /\ ts[i].from \notin ls => i = j

\* A rule with other trules, or another target.
LEMMA WithTRules ==
  ASSUME NEW r \in AbstractRules, NEW ts \in Seq(TRules), NEW x, x = [r EXCEPT !.trules = ts]
  PROVE  /\ x \in AbstractRules /\ x.trules = ts /\ x.to = r.to
         /\ x.id = r.id /\ x.priority = r.priority /\ x.program = r.program
BY DEF AbstractRules

\* A rule with another target.
LEMMA WithTarget ==
  ASSUME NEW r \in AbstractRules, NEW n \in Names \cup {NoDomain}, NEW x, x = [r EXCEPT !.to = n]
  PROVE  /\ x \in AbstractRules /\ x.trules = r.trules /\ x.to = n
         /\ x.id = r.id /\ x.priority = r.priority /\ x.program = r.program
BY DEF AbstractRules

\* deleteTRule(domain): the domain is not named any more.
LEMMA WithoutTRuleFacts ==
  ASSUME NEW r \in AbstractRules, NEW d, NEW x, x = WithoutTRule(r, d)
  PROVE  /\ x \in AbstractRules /\ x.to = r.to
         /\ x.id = r.id /\ x.priority = r.priority /\ x.program = r.program
         /\ \A ds, ls : Covered(r.trules, ds, ls) => Covered(x.trules, ds \ {d}, ls)
<1>1. PICK s, w : s = r.trules /\ w = RemoveFirstMatch(s, LAMBDA t : t.from = d)
  OBVIOUS
<1>2. x = [r EXCEPT !.trules = w]
  BY <1>1 DEF WithoutTRule
<1>3. s \in Seq(TRules) /\ Len(s) \in Nat /\ DOMAIN s = 1..Len(s)
  BY <1>1, RuleNumbers, LenProperties
<1> DEFINE I == {i \in 1..Len(s) : s[i].from = d}
<1>4. w \in Seq(TRules) /\ \A ds, ls : Covered(s, ds, ls) => Covered(w, ds \ {d}, ls)
  <2>1. CASE I = {}
    <3>1. w = s
      BY <2>1, <1>1 DEF RemoveFirstMatch
    <3> QED
      BY <3>1, <2>1, <1>3 DEF Covered
  <2>2. CASE I # {}
    <3>1. PICK m : m = Min(I)
      OBVIOUS
    <3>2. m \in I /\ m \in 1..Len(s)
      <4>1. I \in SUBSET (1..Len(s))
        OBVIOUS
      <4> HIDE DEF I
      <4> QED
        BY <4>1, <3>1, <2>2, <1>3, FirstPlace
    <3>3. w = RemoveAt(s, m)
      BY <3>1, <2>2, <1>1 DEF RemoveFirstMatch, SelectInSeq
    <3>4. m \in 1..Len(s) /\ s[m].from = d
      BY <3>2
    <3>5. /\ w \in Seq(TRules) /\ \E f : Skips(f, w, s, m)
      <4>1. m \in 1..Len(s) /\ s \in Seq(TRules)
        BY <3>4, <1>3
      <4> QED
        BY <4>1, <3>3, RemovedFacts
    <3>6. PICK f \in [1..Len(w) -> (1..Len(s)) \ {m}] :
               /\ \A i \in 1..Len(w) : w[i] = s[f[i]]
               /\ \A i, j \in 1..Len(w) : f[i] = f[j] => i = j
      BY <3>5 DEF Skips
    <3>7. w \in Seq(TRules) /\ DOMAIN w = 1..Len(w)
      BY <3>5, LenProperties
    <3>8. ASSUME NEW ds, NEW ls, Covered(s, ds, ls) PROVE Covered(w, ds \ {d}, ls)
      <4>1. ASSUME NEW i \in 1..Len(w) PROVE w[i].from \in (ds \ {d}) \cup ls
        <5>1. f[i] \in 1..Len(s) /\ f[i] # m /\ w[i] = s[f[i]]
          BY <3>6
        <5> QED
          BY <5>1, <3>4, <3>8, <1>3 DEF Covered
      <4>2. ASSUME NEW i \in 1..Len(w), NEW j \in 1..Len(w), w[i].from = w[j].from, w[i].from \notin ls
            PROVE  i = j
        <5>1. f[i] \in 1..Len(s) /\ f[j] \in 1..Len(s) /\ s[f[i]].from = s[f[j]].from
              /\ s[f[i]].from \notin ls
          BY <4>2, <3>6
        <5>2. f[i] = f[j]
          BY <5>1, <3>8, <1>3 DEF Covered
        <5> QED
          BY <5>2, <3>6
      <4> QED
        BY <4>1, <4>2, <3>7 DEF Covered
    <3> QED
      BY <3>7, <3>8
  <2> QED
    BY <2>1, <2>2
<1>5. /\ x \in AbstractRules /\ x.trules = w /\ x.to = r.to
      /\ x.id = r.id /\ x.priority = r.priority /\ x.program = r.program
  BY <1>2, <1>4, WithTRules
<1> QED
  BY <1>1, <1>4, <1>5

\* The trule of a domain names the new domain instead.
LEMMA MovedTRuleFacts ==
  ASSUME NEW r \in AbstractRules, NEW o, Covers(r, o), NEW n \in Names,
         NEW x, x = MovedTRule(r, o, n)
  PROVE  /\ x \in AbstractRules /\ x.to = r.to
         /\ x.id = r.id /\ x.priority = r.priority /\ x.program = r.program
         /\ \A ds, ls : Covered(r.trules, ds, ls) /\ n \notin ds \ {o} =>
              Covered(x.trules, (ds \ {o}) \cup {n}, ls)
<1>1. PICK s, y : s = r.trules /\ y = WithoutTRule(r, o)
  OBVIOUS
<1>2. /\ y \in AbstractRules /\ y.to = r.to
      /\ y.id = r.id /\ y.priority = r.priority /\ y.program = r.program
      /\ \A ds, ls : Covered(r.trules, ds, ls) => Covered(y.trules, ds \ {o}, ls)
  BY <1>1, WithoutTRuleFacts
<1>3. s \in Seq(TRules) /\ Len(s) \in Nat /\ DOMAIN s = 1..Len(s)
  BY <1>1, RuleNumbers, LenProperties
<1> DEFINE I == {i \in 1..Len(s) : s[i].from = o}
<1>4. PICK m : m = Min(I)
  OBVIOUS
<1>5. I # {}
  BY <1>1, <1>3 DEF Covers
<1>6. m \in 1..Len(s)
  <2>1. I \in SUBSET (1..Len(s))
    OBVIOUS
  <2> HIDE DEF I
  <2> QED
    BY <2>1, <1>3, <1>4, <1>5, FirstPlace
<1>7. PICK t : t = [s[m] EXCEPT !.from = n]
  OBVIOUS
<1>8. t \in TRules /\ t.from = n
  <2>1. s[m] \in TRules
    BY <1>3, <1>6, ElementOfSeq
  <2> QED
    BY <2>1, <1>7 DEF TRules
<1>9. PICK w : w = Append(y.trules, t)
  OBVIOUS
<1>10. x = [y EXCEPT !.trules = w]
  BY <1>1, <1>4, <1>5, <1>7, <1>9 DEF MovedTRule, SelectInSeq
<1>11. y.trules \in Seq(TRules)
  BY <1>2, RuleNumbers
<1>12. PICK v : v = y.trules
  OBVIOUS
<1>13. /\ w \in Seq(TRules) /\ Len(w) = Len(v) + 1 /\ w[Len(v) + 1] = t
       /\ \A i \in 1..Len(v) : w[i] = v[i]
  BY <1>8, <1>9, <1>11, <1>12, AppendProperties
<1>14. DOMAIN w = 1..Len(v)+1 /\ DOMAIN v = 1..Len(v) /\ Len(v) \in Nat
  BY <1>11, <1>12, <1>13, LenProperties
<1>15. /\ x \in AbstractRules /\ x.trules = w /\ x.to = r.to
       /\ x.id = r.id /\ x.priority = r.priority /\ x.program = r.program
  BY <1>2, <1>10, <1>13, WithTRules
<1>16. ASSUME NEW ds, NEW ls, Covered(r.trules, ds, ls), n \notin ds \ {o}
       PROVE  Covered(w, (ds \ {o}) \cup {n}, ls)
  <2>1. Covered(v, ds \ {o}, ls)
    BY <1>2, <1>12, <1>16
  <2>2. \A i \in 1..Len(v)+1 : i # Len(v) + 1 => i \in 1..Len(v)
    BY <1>14
  <2>3. \A i \in 1..Len(v) : w[i].from \in (ds \ {o}) \cup ls /\ (w[i].from = n => n \in ls)
    BY <2>1, <1>13, <1>14, <1>16 DEF Covered
  <2>4. w[Len(v) + 1].from = n
    BY <1>8, <1>13
  <2>5. \A i \in DOMAIN w : w[i].from \in ((ds \ {o}) \cup {n}) \cup ls
    BY <2>2, <2>3, <2>4, <1>14
  <2>6. ASSUME NEW i \in DOMAIN w, NEW j \in DOMAIN w, w[i].from = w[j].from, w[i].from \notin ls
        PROVE  i = j
    <3>1. CASE i \in 1..Len(v) /\ j \in 1..Len(v)
      BY <3>1, <2>1, <2>6, <1>13, <1>14 DEF Covered
    <3>2. CASE i = Len(v) + 1 \/ j = Len(v) + 1
      BY <3>2, <2>2, <2>3, <2>4, <2>6, <1>14
    <3> QED
      BY <3>1, <3>2, <2>2, <1>14
  <2> QED
    BY <2>5, <2>6 DEF Covered
<1> QED
  BY <1>15, <1>16

-----------------------------------------------------------------------------
(* A domain is renamed or deleted: one rule.                               *)

\* The lists stay in order, whatever the rule.
LEMMA InRuleOrdered ==
  ASSUME NEW c, Ordered(c), NEW k \in Kinds, NEW r \in AbstractRules, NEW o \in Names,
         NEW n \in Names \cup {NoDomain}, NEW e, e = InRule(c, k, r, o, n)
  PROVE  Ordered(e) /\ e.domains = c.domains /\ e.default = c.default
<1> DEFINE Good(d) == Ordered(d) /\ d.domains = c.domains /\ d.default = c.default
<1>1. Good(c)
  OBVIOUS
<1>2. \A d, x : Good(d) /\ x \in AbstractRules => Good(Update(d, k, x))
  BY UpdateFacts
<1>3. \A d, id : Good(d) => Good(DeleteId(d, k, id))
  BY DeleteIdFacts
<1> HIDE DEF Good
<1>4. CASE n = NoDomain
  <2>1. PICK r1 : r1 = WithoutTRule(r, o)
    OBVIOUS
  <2>2. r1 \in AbstractRules
    BY <2>1, WithoutTRuleFacts
  <2>3. PICK c1 : c1 = IF ~Covers(r, o) THEN c
                       ELSE IF r1.trules = <<>> THEN DeleteId(c, k, r.id) ELSE Update(c, k, r1)
    OBVIOUS
  <2>4. Good(c1)
    BY <2>2, <2>3, <1>1, <1>2, <1>3
  <2>5. e = IF r.to = o THEN DeleteId(c1, k, r.id) ELSE c1
    BY <2>1, <2>3, <1>4 DEF InRule, DeleteFromRule
  <2> QED
    BY <2>4, <2>5, <1>3 DEF Good
<1>5. CASE n # NoDomain
  <2>0. n \in Names
    BY <1>5
  <2>1. PICK r1 : r1 = IF Covers(r, o) THEN MovedTRule(r, o, n) ELSE r
    OBVIOUS
  <2>2. r1 \in AbstractRules
    BY <2>0, <2>1, MovedTRuleFacts
  <2>3. PICK c1 : c1 = IF Covers(r, o) THEN Update(c, k, r1) ELSE c
    OBVIOUS
  <2>4. Good(c1)
    BY <2>2, <2>3, <1>1, <1>2
  <2>5. e = IF r.to = o THEN Update(c1, k, [r1 EXCEPT !.to = n]) ELSE c1
    BY <2>1, <2>3, <1>5 DEF InRule, RenameInRule
  <2>6. [r1 EXCEPT !.to = n] \in AbstractRules
    BY <2>2, WithTarget
  <2> QED
    BY <2>4, <2>5, <2>6, <1>2 DEF Good
<1> QED
  BY <1>4, <1>5

\* e is c with the rules N, one or none, in the place of r.
Changed(e, c, k, r, N) ==
  /\ Ordered(e) /\ Neat(e)
  /\ \A x \in N : x \in AbstractRules /\ x.id = r.id /\ x.priority = r.priority
                                      /\ x.program = r.program
  /\ \A x, y \in N : x = y
  /\ Rules(e, k) = {x \in Rules(c, k) : x.id # r.id} \cup N
  /\ \A j \in Kinds : j # k => Rules(e, j) = Rules(c, j)

\* At first r is in its place.
LEMMA ChangedAtFirst ==
  ASSUME NEW c, Ordered(c), Neat(c), Unique(c), NEW k \in Kinds, NEW r \in Rules(c, k)
  PROVE  Changed(c, c, k, r, {r})
<1>1. r \in AbstractRules
  BY DEF Rules
<1>2. \A x \in Rules(c, k) : x.id = r.id => x = r
  BY DEF Unique
<1>3. Rules(c, k) = {x \in Rules(c, k) : x.id # r.id} \cup {r}
  BY <1>2
<1> QED
  BY <1>1, <1>3 DEF Changed

\* updateRule puts another one there.
LEMMA ChangedByUpdate ==
  ASSUME NEW c, NEW k \in Kinds, NEW r, NEW d, NEW N, Changed(d, c, k, r, N),
         NEW x \in AbstractRules, x.id = r.id, x.priority = r.priority, x.program = r.program
  PROVE  Changed(Update(d, k, x), c, k, r, {x})
<1>1. PICK e : e = Update(d, k, x)
  OBVIOUS
<1>2. \A y \in Rules(d, k) : y.id = x.id => y.program = x.program
  BY DEF Changed
<1>3. /\ Ordered(e) /\ Neat(e) /\ Rules(e, k) = {y \in Rules(d, k) : y.id # x.id} \cup {x}
      /\ \A j \in Kinds : j # k => Rules(e, j) = Rules(d, j)
  BY <1>1, <1>2, UpdateFacts DEF Changed
<1>4. {y \in Rules(d, k) : y.id # x.id} = {y \in Rules(c, k) : y.id # r.id}
  BY DEF Changed
<1> QED
  BY <1>1, <1>3, <1>4 DEF Changed

\* deleteRule(int) leaves none.
LEMMA ChangedByDelete ==
  ASSUME NEW c, Unique(c), NEW k \in Kinds, NEW r, NEW d, NEW N, Changed(d, c, k, r, N)
  PROVE  Changed(DeleteId(d, k, r.id), c, k, r, {})
<1>1. PICK e : e = DeleteId(d, k, r.id)
  OBVIOUS
<1>2. \A x, y \in Rules(c, k) : x.id = y.id => x = y
  BY DEF Unique
<1>3. \A x, y \in Rules(d, k) : x.id = y.id => x = y
  BY <1>2 DEF Changed
<1>4. /\ Ordered(e) /\ Neat(e) /\ Rules(e, k) = {y \in Rules(d, k) : y.id # r.id}
      /\ \A j \in Kinds : j # k => Rules(e, j) = Rules(d, j)
  BY <1>1, <1>3, DeleteIdFacts DEF Changed
<1>5. {y \in Rules(d, k) : y.id # r.id} = {y \in Rules(c, k) : y.id # r.id} \cup {}
  BY DEF Changed
<1> QED
  BY <1>1, <1>4, <1>5 DEF Changed

\* Ids and priorities stay unique.
LEMMA ChangedUnique ==
  ASSUME NEW c, Unique(c), NEW k \in Kinds, NEW r \in Rules(c, k), NEW e, NEW N,
         Changed(e, c, k, r, N)
  PROVE  Unique(e)
<1> SUFFICES ASSUME NEW i \in Kinds, NEW j \in Kinds, NEW x \in Rules(e, i), NEW y \in Rules(e, j),
                    x.id = y.id \/ x.priority = y.priority
             PROVE  x = y /\ i = j
  BY DEF Unique
<1>1. \A l \in Kinds : \A z \in Rules(e, l) :
        \/ z \in Rules(c, l) /\ (l = k => z.id # r.id)
        \/ l = k /\ z \in N /\ z.id = r.id /\ z.priority = r.priority
  BY DEF Changed
<1>2. \A l \in Kinds : \A z \in Rules(c, l) :
        z.id = r.id \/ z.priority = r.priority => z = r /\ l = k
  BY DEF Unique
<1>3. CASE x \in Rules(c, i) /\ (i = k => x.id # r.id)
  <2>1. CASE y \in Rules(c, j) /\ (j = k => y.id # r.id)
    BY <1>3, <2>1 DEF Unique
  <2>2. CASE j = k /\ y \in N /\ y.id = r.id /\ y.priority = r.priority
    BY <1>2, <1>3, <2>2
  <2> QED
    BY <2>1, <2>2, <1>1
<1>4. CASE i = k /\ x \in N /\ x.id = r.id /\ x.priority = r.priority
  <2>1. CASE y \in Rules(c, j) /\ (j = k => y.id # r.id)
    BY <1>2, <1>4, <2>1
  <2>2. CASE j = k /\ y \in N /\ y.id = r.id /\ y.priority = r.priority
    BY <1>4, <2>2 DEF Changed
  <2> QED
    BY <2>1, <2>2, <1>1
<1> QED
  BY <1>1, <1>3, <1>4

\* The domains after a domain is renamed, or deleted.
DomainsAfter(ds, o, n) == IF n = NoDomain THEN ds \ {o} ELSE (ds \ {o}) \cup {n}

\* Afterwards the rule fits the new domains, or is gone.
LEMMA InRuleChanges ==
  ASSUME NEW c, Ordered(c), Neat(c), Unique(c), NEW k \in Kinds, NEW r \in Rules(c, k),
         NEW ds \in SUBSET Names, NEW ls, NEW o \in Names, NEW n \in Names \cup {NoDomain},
         n \notin ds \ {o}, Fits(r, k, ds, ls), NEW e, e = InRule(c, k, r, o, n)
  PROVE  \E N : Changed(e, c, k, r, N) /\ \A x \in N : Fits(x, k, DomainsAfter(ds, o, n), ls)
<1>1. r \in AbstractRules /\ Changed(c, c, k, r, {r})
  BY ChangedAtFirst DEF Rules
<1>2. Covered(r.trules, ds, ls) /\ r.to \in IF k = "loop" THEN {NoDomain} ELSE ds
  BY DEF Fits, Covered
<1>3. \A x, es : Fits(x, k, es, ls) <=>
        (Covered(x.trules, es, ls) /\ x.to \in IF k = "loop" THEN {NoDomain} ELSE es)
  BY DEF Fits, Covered
<1>4. ~Covers(r, o) => Covered(r.trules, ds \ {o}, ls)
  BY <1>2 DEF Covers, Covered
<1>5. CASE n = NoDomain
  <2>1. PICK r1 : r1 = WithoutTRule(r, o)
    OBVIOUS
  <2>2. /\ r1 \in AbstractRules /\ r1.to = r.to
        /\ r1.id = r.id /\ r1.priority = r.priority /\ r1.program = r.program
        /\ Covered(r1.trules, ds \ {o}, ls)
    BY <2>1, <1>1, <1>2, WithoutTRuleFacts
  <2>3. PICK c1 : c1 = IF ~Covers(r, o) THEN c
                       ELSE IF r1.trules = <<>> THEN DeleteId(c, k, r.id) ELSE Update(c, k, r1)
    OBVIOUS
  <2>4. PICK N1 : N1 = IF ~Covers(r, o) THEN {r} ELSE IF r1.trules = <<>> THEN {} ELSE {r1}
    OBVIOUS
  <2>5. Changed(c1, c, k, r, N1)
    <3>1. CASE ~Covers(r, o)
      BY <3>1, <2>3, <2>4, <1>1
    <3>2. CASE Covers(r, o) /\ r1.trules = <<>>
      BY <3>2, <2>3, <2>4, <1>1, ChangedByDelete
    <3>3. CASE Covers(r, o) /\ r1.trules # <<>>
      BY <3>3, <2>2, <2>3, <2>4, <1>1, ChangedByUpdate
    <3> QED
      BY <3>1, <3>2, <3>3
  <2>6. \A x \in N1 : Covered(x.trules, ds \ {o}, ls) /\ x.to = r.to
    BY <2>2, <2>4, <1>4
  <2>7. e = IF r.to = o THEN DeleteId(c1, k, r.id) ELSE c1
    BY <2>1, <2>3, <1>5 DEF InRule, DeleteFromRule
  <2>8. CASE r.to = o
    <3>1. Changed(e, c, k, r, {})
      BY <2>5, <2>7, <2>8, ChangedByDelete
    <3> QED
      BY <3>1
  <2>9. CASE r.to # o
    <3>1. ASSUME NEW x \in N1 PROVE Fits(x, k, ds \ {o}, ls)
      <4>1. Covered(x.trules, ds \ {o}, ls) /\ x.to = r.to
        BY <2>6
      <4>2. r.to \in IF k = "loop" THEN {NoDomain} ELSE ds \ {o}
        BY <2>9, <1>2
      <4> QED
        BY <4>1, <4>2, <1>3
    <3> QED
      BY <3>1, <2>5, <2>7, <2>9, <1>5 DEF DomainsAfter
  <2> QED
    BY <2>8, <2>9
<1>6. CASE n # NoDomain
  <2>0. n \in Names /\ DomainsAfter(ds, o, n) = (ds \ {o}) \cup {n}
    BY <1>6 DEF DomainsAfter
  <2>1. PICK r1 : r1 = IF Covers(r, o) THEN MovedTRule(r, o, n) ELSE r
    OBVIOUS
  <2>2. /\ r1 \in AbstractRules /\ r1.to = r.to
        /\ r1.id = r.id /\ r1.priority = r.priority /\ r1.program = r.program
        /\ Covered(r1.trules, (ds \ {o}) \cup {n}, ls)
    <3>1. CASE Covers(r, o)
      BY <3>1, <2>0, <2>1, <1>1, <1>2, MovedTRuleFacts
    <3>2. CASE ~Covers(r, o)
      BY <3>2, <2>1, <1>1, <1>4 DEF Covered
    <3> QED
      BY <3>1, <3>2
  <2>3. PICK c1 : c1 = IF Covers(r, o) THEN Update(c, k, r1) ELSE c
    OBVIOUS
  <2>4. Changed(c1, c, k, r, {r1})
    <3>1. CASE Covers(r, o)
      BY <3>1, <2>2, <2>3, <1>1, ChangedByUpdate
    <3>2. CASE ~Covers(r, o)
      BY <3>2, <2>1, <2>3, <1>1
    <3> QED
      BY <3>1, <3>2
  <2>5. PICK r2 : r2 = [r1 EXCEPT !.to = n]
    OBVIOUS
  <2>6. e = IF r.to = o THEN Update(c1, k, r2) ELSE c1
    BY <2>1, <2>3, <2>5, <1>6 DEF InRule, RenameInRule
  <2>7. CASE r.to = o
    <3>1. /\ r2 \in AbstractRules /\ r2.trules = r1.trules /\ r2.to = n
          /\ r2.id = r.id /\ r2.priority = r.priority /\ r2.program = r.program
      BY <2>0, <2>2, <2>5, WithTarget
    <3>2. Changed(e, c, k, r, {r2})
      BY <3>1, <2>4, <2>6, <2>7, ChangedByUpdate
    <3>3. k # "loop"
      BY <2>7, <1>2, NoDomainIsNone
    <3>4. Fits(r2, k, (ds \ {o}) \cup {n}, ls)
      BY <3>1, <3>3, <2>2, <1>3
    <3> QED
      BY <3>2, <3>4, <2>0
  <2>8. CASE r.to # o
    <3>1. Fits(r1, k, (ds \ {o}) \cup {n}, ls)
      BY <2>2, <2>8, <1>2, <1>3
    <3> QED
      BY <3>1, <2>0, <2>4, <2>6, <2>8
  <2> QED
    BY <2>7, <2>8
<1> QED
  BY <1>5, <1>6

-----------------------------------------------------------------------------
(* A domain is renamed or deleted: rule after rule.                        *)

\* f has the configurations in turn.
OrderedConfs == {d \in Configurations : Ordered(d)}

\* f has the configurations between the turns.
Turns(f, c, k, o, n, all) ==
  /\ f \in [0..Len(all) -> OrderedConfs]
  /\ f[0] = c
  /\ \A i \in 1..Len(all) : f[i] = InRule(f[i-1], k, all[i], o, n)
  /\ InEach(c, k, o, n) = f[Len(all)]

\* updateDomain and deleteDomain take the rules of one kind in turn, as they were.
LEMMA InEachIs ==
  ASSUME NEW c, Ordered(c), NEW k \in Kinds, NEW o \in Names, NEW n \in Names \cup {NoDomain},
         NEW all, all = All(c, k)
  PROVE  \E f : Turns(f, c, k, o, n, all)
<1>1. PICK m, C : m = Len(all) /\ C = OrderedConfs
  OBVIOUS
<1>2. c \in C
  BY <1>1 DEF Ordered, OrderedConfs
<1>3. all \in Seq(AbstractRules)
  BY AllFacts DEF Ordered
<1>4. m \in Nat /\ \A i \in 1..m : all[i] \in AbstractRules
  BY <1>1, <1>3, LenProperties, ElementOfSeq
<1>5. ASSUME NEW d \in C, NEW i \in 1..m PROVE InRule(d, k, all[i], o, n) \in C
  <2>1. Ordered(d)
    BY <1>1 DEF OrderedConfs
  <2>2. Ordered(InRule(d, k, all[i], o, n))
    BY <2>1, <1>4, InRuleOrdered
  <2> QED
    BY <2>2, <1>1 DEF OrderedConfs, Ordered
<1> DEFINE F == [x \in C \X (1..m) |-> InRule(x[1], k, all[x[2]], o, n)]
           Body(g) == [i \in 0..m |-> IF i = 0 THEN c ELSE InRule(g[i-1], k, all[i], o, n)]
           turn == CHOOSE g : g = Body(g)
<1>6. F \in [C \X (1..m) -> C]
  BY <1>5
<1>7. PICK g \in [0..m -> C] : g[0] = c /\ \A i \in 1..m : g[i] = F[<<g[i-1], i>>]
  <2> HIDE DEF F
  <2>1. PICK G : G = F
    OBVIOUS
  <2>2. G \in [C \X (1..m) -> C]
    BY <1>6, <2>1
  <2>3. PICK g : Recursive(g, m, C, c, G)
    BY <2>2, <1>2, <1>4, Recursion
  <2> QED
    BY <2>1, <2>3 DEF Recursive
<1>8. g = Body(g)
  <2>1. ASSUME NEW i \in 0..m PROVE g[i] = IF i = 0 THEN c ELSE InRule(g[i-1], k, all[i], o, n)
    <3>1. CASE i = 0
      BY <3>1, <1>7
    <3>2. CASE i # 0
      <4>1. i \in 1..m /\ i - 1 \in 0..m
        BY <3>2, <1>4
      <4>2. <<g[i-1], i>> \in C \X (1..m)
        BY <4>1, <1>7
      <4>3. g[i] = F[<<g[i-1], i>>]
        BY <4>1, <1>7
      <4> QED
        BY <4>2, <4>3, <3>2
    <3> QED
      BY <3>1, <3>2
  <2> QED
    BY <2>1, <1>7
<1>9. turn = Body(turn)
  <2> HIDE DEF Body
  <2> QED
    BY <1>8
<1>10. InEach(c, k, o, n) = turn[m]
  BY <1>1 DEF InEach
<1> HIDE DEF turn
<1>11. \A i \in 0..m : turn[i] = IF i = 0 THEN c ELSE InRule(turn[i-1], k, all[i], o, n)
  BY <1>9
<1>12. turn[0] = c /\ \A i \in 1..m : turn[i] = InRule(turn[i-1], k, all[i], o, n)
  <2>1. 0 \in 0..m /\ \A i \in 1..m : i \in 0..m /\ i # 0
    BY <1>4
  <2> QED
    BY <2>1, <1>11
<1>13. \A i \in 0..m : turn[i] \in C
  <2> DEFINE I == {i \in 0..m : turn[i] \in C}
  <2>1. 0 \in I
    BY <1>2, <1>4, <1>12
  <2>2. ASSUME NEW i \in 0..m-1, i \in I PROVE i + 1 \in I
    <3>1. i + 1 \in 1..m /\ i + 1 - 1 = i /\ i + 1 \in 0..m /\ turn[i] \in C
      BY <2>2, <1>4
    <3>2. turn[i+1] = InRule(turn[i], k, all[i+1], o, n)
      BY <3>1, <1>12
    <3>3. turn[i+1] \in C
      BY <3>1, <3>2, <1>5
    <3> QED
      BY <3>1, <3>3
  <2> HIDE DEF I
  <2>3. \A i \in 0..m : i \in I
    BY <2>1, <2>2, <1>4, UpTo
  <2> QED
    BY <2>3 DEF I
<1>14. turn \in [0..m -> C]
  <2>1. turn = [i \in 0..m |-> turn[i]]
    BY <1>9
  <2> QED
    BY <2>1, <1>13
<1>15. Turns(turn, c, k, o, n, all)
  BY <1>1, <1>10, <1>12, <1>14 DEF Turns
<1> QED
  BY <1>15

\* The lists stay in order, and the domains are not touched.
LEMMA InEachOrdered ==
  ASSUME NEW c, Ordered(c), NEW k \in Kinds, NEW o \in Names, NEW n \in Names \cup {NoDomain},
         NEW e, e = InEach(c, k, o, n)
  PROVE  Ordered(e) /\ e.domains = c.domains /\ e.default = c.default
<1>1. PICK all, m : all = All(c, k) /\ m = Len(all)
  OBVIOUS
<1>2. all \in Seq(AbstractRules)
  BY <1>1, AllFacts DEF Ordered
<1>3. m \in Nat /\ \A i \in 1..m : all[i] \in AbstractRules
  BY <1>1, <1>2, LenProperties, ElementOfSeq
<1>4. PICK f : Turns(f, c, k, o, n, all)
  BY <1>1, InEachIs
<1> DEFINE Same(d) == Ordered(d) /\ d.domains = c.domains /\ d.default = c.default
           I == {i \in 0..m : Same(f[i])}
<1>5. 0 \in I
  BY <1>3, <1>4 DEF Turns
<1>6. ASSUME NEW i \in 0..m-1, i \in I PROVE i + 1 \in I
  <2>1. i + 1 \in 1..m /\ i + 1 - 1 = i /\ i + 1 \in 0..m /\ Same(f[i])
    BY <1>3, <1>6
  <2>2. f[i+1] = InRule(f[i], k, all[i+1], o, n) /\ all[i+1] \in AbstractRules
    BY <2>1, <1>1, <1>3, <1>4 DEF Turns
  <2>3. Same(f[i+1])
    BY <2>1, <2>2, InRuleOrdered
  <2> QED
    BY <2>1, <2>3
<1> HIDE DEF I
<1>7. \A i \in 0..m : i \in I
  BY <1>3, <1>5, <1>6, UpTo
<1>8. m \in I /\ e = f[m]
  BY <1>1, <1>3, <1>4, <1>7 DEF Turns
<1> QED
  BY <1>8 DEF I

\* e has the ids and priorities of rules of c, and all its rules fit the domains.
InEachDone(e, c, k, ds, o, n, ls) ==
  /\ Neat(e) /\ Unique(e)
  /\ \A j \in Kinds : j # k => Rules(e, j) = Rules(c, j)
  /\ \A x \in Rules(e, k) :
       /\ Fits(x, k, DomainsAfter(ds, o, n), ls)
       /\ \E y \in Rules(c, k) : x.id = y.id /\ x.priority = y.priority

\* When they are through, the rules of the kind fit the domains after the change.
LEMMA InEachChanges ==
  ASSUME NEW c, Ordered(c), Neat(c), Unique(c), NEW k \in Kinds,
         NEW ds \in SUBSET Names, NEW ls, NEW o \in Names, NEW n \in Names \cup {NoDomain},
         n \notin ds \ {o}, \A x \in Rules(c, k) : Fits(x, k, ds, ls), NEW e, e = InEach(c, k, o, n)
  PROVE  InEachDone(e, c, k, ds, o, n, ls)
<1>1. PICK all, m, E : all = All(c, k) /\ m = Len(all) /\ E = DomainsAfter(ds, o, n)
  OBVIOUS
<1>2. \A x, y \in Rules(c, k) : x.id = y.id => x = y
  BY DEF Unique
<1>3. all \in Seq(AbstractRules) /\ Range(all) = Rules(c, k) /\ OnceEach(all)
  BY <1>1, <1>2, AllFacts DEF Ordered
<1>4. /\ m \in Nat /\ DOMAIN all = 1..m
      /\ \A i \in 1..m : all[i] \in Rules(c, k) /\ all[i] \in AbstractRules
      /\ \A x \in Rules(c, k) : \E i \in 1..m : x = all[i]
      /\ \A i, j \in 1..m : all[i].id = all[j].id => i = j
  <2>1. m \in Nat /\ DOMAIN all = 1..m
    BY <1>1, <1>3, LenProperties
  <2>2. \A i \in 1..m : all[i] \in Rules(c, k)
    BY <2>1, <1>3 DEF Range
  <2>3. \A x \in Rules(c, k) : \E i \in 1..m : x = all[i]
    BY <2>1, <1>3 DEF Range
  <2> QED
    BY <2>1, <2>2, <2>3, <1>3 DEF OnceEach, Rules
<1>5. PICK f : Turns(f, c, k, o, n, all)
  BY <1>1, InEachIs
<1> DEFINE From(x) == \E y \in Rules(c, k) : x.id = y.id /\ x.priority = y.priority
           Left(i) == {all[j] : j \in i+1..m}
           Done(d, i) == /\ Ordered(d) /\ Neat(d) /\ Unique(d)
                         /\ \A j \in Kinds : j # k => Rules(d, j) = Rules(c, j)
                         /\ Left(i) \subseteq Rules(d, k)
                         /\ \A x \in Rules(d, k) : From(x) /\ (Fits(x, k, E, ls) \/ x \in Left(i))
           I == {i \in 0..m : Done(f[i], i)}
<1>6. 0 \in I
  <2>1. f[0] = c /\ 0 \in 0..m
    BY <1>4, <1>5 DEF Turns
  <2>2. Left(0) = Rules(c, k)
    BY <1>4
  <2>3. Done(c, 0)
    BY <2>2
  <2> QED
    BY <2>1, <2>3
<1>7. ASSUME NEW i \in 0..m-1, i \in I PROVE i + 1 \in I
  <2>1. i + 1 \in 1..m /\ i + 1 - 1 = i /\ i + 1 \in 0..m /\ Done(f[i], i)
    BY <1>4, <1>7
  <2>2. PICK d, h, r : d = f[i] /\ h = f[i+1] /\ r = all[i+1]
    OBVIOUS
  <2>3. h = InRule(d, k, r, o, n) /\ Ordered(h)
    BY <2>1, <2>2, <1>1, <1>5 DEF Turns, OrderedConfs
  <2>4. Left(i) = Left(i + 1) \cup {r}
    <3>1. \A j : j \in i+1..m <=> j = i + 1 \/ j \in i+1+1..m
      BY <2>1, <1>4
    <3> QED
      BY <3>1, <2>2
  <2>5. \A x \in Left(i + 1) : x.id # r.id
    <3>1. \A j \in i+1+1..m : j \in 1..m /\ j # i + 1
      BY <2>1, <1>4
    <3> QED
      BY <3>1, <2>1, <2>2, <1>4
  <2>6. /\ Ordered(d) /\ Neat(d) /\ Unique(d)
        /\ \A j \in Kinds : j # k => Rules(d, j) = Rules(c, j)
        /\ Left(i) \subseteq Rules(d, k)
        /\ \A x \in Rules(d, k) : From(x) /\ (Fits(x, k, E, ls) \/ x \in Left(i))
    BY <2>1, <2>2
  <2>7. r \in Rules(c, k) /\ r \in Rules(d, k) /\ Fits(r, k, ds, ls)
    BY <2>1, <2>2, <2>4, <2>6, <1>4
  <2>8. PICK N : Changed(h, d, k, r, N) /\ \A x \in N : Fits(x, k, E, ls)
    BY <2>3, <2>6, <2>7, <1>1, InRuleChanges
  <2>9. /\ Neat(h) /\ Unique(h)
        /\ Rules(h, k) = {x \in Rules(d, k) : x.id # r.id} \cup N
        /\ \A j \in Kinds : j # k => Rules(h, j) = Rules(c, j)
        /\ \A x \in N : x.id = r.id /\ x.priority = r.priority
    BY <2>6, <2>7, <2>8, ChangedUnique DEF Changed
  <2> HIDE DEF Left
  <2>10. Left(i + 1) \subseteq Rules(h, k)
    BY <2>4, <2>5, <2>6, <2>9
  <2>11. ASSUME NEW x \in Rules(h, k) PROVE From(x) /\ (Fits(x, k, E, ls) \/ x \in Left(i + 1))
    <3>1. CASE x \in N
      BY <3>1, <2>7, <2>8, <2>9
    <3>2. CASE x \in Rules(d, k) /\ x.id # r.id
      BY <3>2, <2>4, <2>6
    <3> QED
      BY <3>1, <3>2, <2>9
  <2>12. Done(h, i + 1)
    BY <2>3, <2>9, <2>10, <2>11
  <2> QED
    BY <2>1, <2>2, <2>12
<1> HIDE DEF I
<1>8. \A i \in 0..m : i \in I
  BY <1>4, <1>6, <1>7, UpTo
<1>9. m \in I /\ e = f[m]
  BY <1>1, <1>4, <1>5, <1>8 DEF Turns
<1>10. Done(e, m)
  BY <1>9 DEF I
<1>11. Left(m) = {}
  BY <1>4
<1> HIDE DEF Left
<1> QED
  BY <1>1, <1>10, <1>11 DEF InEachDone

\* The same of the loops, then of the rules.
LEMMA InRulesOrdered ==
  ASSUME NEW c, Ordered(c), NEW o \in Names, NEW n \in Names \cup {NoDomain},
         NEW e, e = InRules(c, o, n)
  PROVE  Ordered(e) /\ e.domains = c.domains /\ e.default = c.default
<1>1. PICK d : d = InEach(c, "loop", o, n)
  OBVIOUS
<1>2. "loop" \in Kinds /\ "rule" \in Kinds
  BY DEF Kinds
<1>3. Ordered(d) /\ d.domains = c.domains /\ d.default = c.default
  BY <1>1, <1>2, InEachOrdered
<1>4. e = InEach(d, "rule", o, n)
  BY <1>1 DEF InRules
<1> QED
  BY <1>2, <1>3, <1>4, InEachOrdered

\* What InRules leaves: rules that fit the new domains, with ids and priorities as before.
InRulesDone(e, c, ds, o, n, ls) ==
  /\ Neat(e) /\ Unique(e)
  /\ \A k \in Kinds : \A x \in Rules(e, k) :
       /\ Fits(x, k, DomainsAfter(ds, o, n), ls)
       /\ \E y \in Rules(c, k) : x.id = y.id /\ x.priority = y.priority

\* The same for both kinds.
LEMMA InRulesChanges ==
  ASSUME NEW c, Ordered(c), Neat(c), Unique(c),
         NEW ds \in SUBSET Names, NEW ls, NEW o \in Names, NEW n \in Names \cup {NoDomain},
         n \notin ds \ {o}, \A k \in Kinds : \A x \in Rules(c, k) : Fits(x, k, ds, ls),
         NEW e, e = InRules(c, o, n)
  PROVE  InRulesDone(e, c, ds, o, n, ls)
<1>1. PICK d : d = InEach(c, "loop", o, n)
  OBVIOUS
<1>2. Kinds = {"loop", "rule"} /\ "loop" \in Kinds /\ "rule" \in Kinds
  BY DEF Kinds
<1>3. Ordered(d)
  BY <1>1, <1>2, InEachOrdered
<1>4. \A x \in Rules(c, "loop") : Fits(x, "loop", ds, ls)
  BY <1>2
<1>5. InEachDone(d, c, "loop", ds, o, n, ls)
  BY <1>1, <1>2, <1>4, InEachChanges
<1>6. Neat(d) /\ Unique(d) /\ Rules(d, "rule") = Rules(c, "rule")
  BY <1>2, <1>5 DEF InEachDone
<1>7. \A x \in Rules(d, "rule") : Fits(x, "rule", ds, ls)
  BY <1>2, <1>6
<1>8. e = InEach(d, "rule", o, n)
  BY <1>1 DEF InRules
<1>9. InEachDone(e, d, "rule", ds, o, n, ls)
  BY <1>2, <1>3, <1>6, <1>7, <1>8, InEachChanges
<1>10. Neat(e) /\ Unique(e) /\ Rules(e, "loop") = Rules(d, "loop")
  BY <1>2, <1>9 DEF InEachDone
<1>11. ASSUME NEW k \in Kinds, NEW x \in Rules(e, k)
       PROVE  /\ Fits(x, k, DomainsAfter(ds, o, n), ls)
              /\ \E y \in Rules(c, k) : x.id = y.id /\ x.priority = y.priority
  <2>1. CASE k = "loop"
    BY <2>1, <1>5, <1>10 DEF InEachDone
  <2>2. CASE k = "rule"
    BY <2>2, <1>6, <1>9 DEF InEachDone
  <2> QED
    BY <2>1, <2>2, <1>2
<1> QED
  BY <1>10, <1>11 DEF InRulesDone

-----------------------------------------------------------------------------
(* The inductive invariant.                                                *)

\* Its part for as long as no rule has been moved; m ids have been given out.
Kept(c, m, ls) ==
  /\ Neat(c) /\ Unique(c)
  /\ \A k \in Kinds : \A x \in Rules(c, k) :
       Fits(x, k, c.domains, ls) /\ x.id <= m /\ x.priority <= m

\* All of it.
Good(c, ps, m, b, ls) ==
  /\ Ordered(c)
  /\ c.default \in c.domains \cup {NoDomain}
  /\ ps \in SUBSET ProgNames
  /\ m \in 0..MaxId
  /\ b \in BOOLEAN
  /\ ls \in SUBSET Names
  /\ ~b => Kept(c, m, ls)

\* The part, as EditInv states it.
LEMMA KeptIs ==
  ASSUME NEW c \in Configurations, NEW m, NEW ls
  PROVE  Kept(c, m, ls) <=>
           /\ Tidy(c)
           /\ \A k \in Kinds, p \in ProgNames : \A r \in Range(c.lists[k][p]) :
                Fits(r, k, c.domains, ls) /\ r.id <= m /\ r.priority <= m
<1> DEFINE P(k, r) == Fits(r, k, c.domains, ls) /\ r.id <= m /\ r.priority <= m
<1>1. Tidy(c) <=> Neat(c) /\ Unique(c)
  BY TidyIs
<1>2. ASSUME Neat(c)
      PROVE  (\A k \in Kinds : \A x \in Rules(c, k) : P(k, x)) <=>
             (\A k \in Kinds, p \in ProgNames : \A r \in Range(c.lists[k][p]) : P(k, r))
  <2> HIDE DEF P
  <2>1. \A k \in Kinds, p \in ProgNames : Range(c.lists[k][p]) = {r \in Rules(c, k) : r.program = p}
    BY <1>2, RulesOf
  <2>2. \A k \in Kinds : \A x \in Rules(c, k) : x.program \in ProgNames
    BY RuleNumbers DEF Rules
  <2> QED
    BY <2>1, <2>2
<1> HIDE DEF P
<1>3. Kept(c, m, ls) <=> Neat(c) /\ Unique(c) /\ \A k \in Kinds : \A x \in Rules(c, k) : P(k, x)
  BY DEF Kept, P
<1> QED
  BY <1>1, <1>2, <1>3 DEF P

\* EditInv is Good.
LEMMA EditInvIs == EditInv <=> Good(conf, programs, idCounter, moved, loose)
BY KeptIs DEF EditInv, Good, TypeOK, SortedByPriority, Ordered, InOrder

\* The same after a step.
LEMMA EditInvNext == EditInv' <=> Good(conf', programs', idCounter', moved', loose')
BY KeptIs DEF EditInv, Good, TypeOK, SortedByPriority, Ordered, InOrder, Tidy, Fits

\* What is said of the lists does not depend on the domains.
LEMMA SameLists ==
  ASSUME NEW c, Ordered(c), NEW e \in Configurations, e.lists = c.lists
  PROVE  /\ Ordered(e) /\ (Neat(c) <=> Neat(e)) /\ (Unique(c) <=> Unique(e))
         /\ \A k \in Kinds : Rules(e, k) = Rules(c, k)
<1>1. Ordered(e) /\ (Neat(c) <=> Neat(e))
  BY DEF Ordered, Neat
<1>2. \A k \in Kinds : Rules(e, k) = Rules(c, k)
  BY DEF Rules
<1> QED
  BY <1>1, <1>2 DEF Unique

-----------------------------------------------------------------------------
(* The operations keep it: domains.                                        *)

\* addDomain keeps EditInv: no rule is touched, and the new default is a domain.
LEMMA AddDomainStep ==
  ASSUME EditInv, NEW n \in Names, NEW b \in BOOLEAN, AddDomain(n, b)
  PROVE  EditInv'
<1>1. Good(conf, programs, idCounter, moved, loose)
  BY EditInvIs
<1>2. PICK ds, d : ds = conf.domains \cup {n} /\ d = IF b THEN n ELSE conf.default
  OBVIOUS
<1>3. conf \in Configurations /\ ds \in SUBSET Names /\ d \in Names \cup {NoDomain}
  BY <1>1, <1>2, Parts DEF Good, Ordered
<1>4. conf' = [conf EXCEPT !.domains = ds, !.default = d]
  BY <1>2 DEF AddDomain
<1>5. conf' \in Configurations /\ conf'.domains = ds /\ conf'.default = d /\ conf'.lists = conf.lists
  BY <1>3, <1>4 DEF Configurations
<1>6. /\ Ordered(conf') /\ (Neat(conf) <=> Neat(conf')) /\ (Unique(conf) <=> Unique(conf'))
      /\ \A k \in Kinds : Rules(conf', k) = Rules(conf, k)
  BY <1>1, <1>5, SameLists DEF Good
<1>7. d \in ds \cup {NoDomain}
  BY <1>1, <1>2 DEF Good
<1>8. \A k \in Kinds : \A x \in Rules(conf, k) : Fits(x, k, conf.domains, loose) => Fits(x, k, ds, loose)
  BY <1>2 DEF Fits
<1>9. programs' = programs /\ idCounter' = idCounter /\ moved' = moved /\ loose' = loose
  BY DEF AddDomain
<1>10. ~moved => Kept(conf', idCounter, loose)
  BY <1>1, <1>5, <1>6, <1>8 DEF Good, Kept
<1> QED
  BY <1>1, <1>5, <1>6, <1>7, <1>9, <1>10, EditInvNext DEF Good

\* The rules and loops are made to fit the new domains.
LEMMA ChangeDomainStep ==
  ASSUME EditInv, NEW o \in Names, NEW n \in Names \cup {NoDomain}, n \notin conf.domains \ {o},
         NEW c, c \in Configurations, c.domains = DomainsAfter(conf.domains, o, n),
         c.lists = conf.lists, NEW e, e = InRules(c, o, n)
  PROVE  /\ Ordered(e) /\ e.domains = c.domains /\ e.default = c.default
         /\ ~moved => Kept(e, idCounter, loose)
<1>1. Good(conf, programs, idCounter, moved, loose) /\ idCounter \in Nat
  BY EditInvIs, MaxIdType DEF Good
<1>2. conf \in Configurations /\ conf.domains \in SUBSET Names
  BY <1>1, Parts DEF Good, Ordered
<1>3. /\ Ordered(c) /\ (Neat(conf) <=> Neat(c)) /\ (Unique(conf) <=> Unique(c))
      /\ \A k \in Kinds : Rules(c, k) = Rules(conf, k)
  BY <1>1, SameLists DEF Good
<1>4. Ordered(e) /\ e.domains = c.domains /\ e.default = c.default
  BY <1>3, InRulesOrdered
<1>5. ASSUME ~moved PROVE Kept(e, idCounter, loose)
  <2>1. Kept(conf, idCounter, loose)
    BY <1>1, <1>5 DEF Good
  <2>2. /\ Neat(c) /\ Unique(c)
        /\ \A k \in Kinds : \A x \in Rules(c, k) : Fits(x, k, conf.domains, loose)
    BY <2>1, <1>3 DEF Kept
  <2>3. /\ Neat(e) /\ Unique(e)
        /\ \A k \in Kinds : \A x \in Rules(e, k) :
             /\ Fits(x, k, DomainsAfter(conf.domains, o, n), loose)
             /\ \E y \in Rules(c, k) : x.id = y.id /\ x.priority = y.priority
    <3>1. PICK ds, ls : ds = conf.domains /\ ls = loose
      OBVIOUS
    <3>2. ds \in SUBSET Names /\ n \notin ds \ {o} /\ \A k \in Kinds : \A x \in Rules(c, k) : Fits(x, k, ds, ls)
      BY <3>1, <2>2, <1>2
    <3>3. Ordered(c) /\ Neat(c) /\ Unique(c)
      BY <2>2, <1>3
    <3>4. InRulesDone(e, c, ds, o, n, ls)
      BY <3>2, <3>3, InRulesChanges
    <3> QED
      BY <3>1, <3>4 DEF InRulesDone
  <2>4. \A k \in Kinds : \A y \in Rules(c, k) : y.id <= idCounter /\ y.priority <= idCounter
    BY <2>1, <1>3 DEF Kept
  <2>5. ASSUME NEW k \in Kinds, NEW x \in Rules(e, k)
        PROVE  Fits(x, k, e.domains, loose) /\ x.id <= idCounter /\ x.priority <= idCounter
    BY <2>3, <2>4, <1>4
  <2> QED
    BY <2>3, <2>5 DEF Kept
<1> QED
  BY <1>4, <1>5

\* updateDomain keeps EditInv: every reference to the old name is changed.
LEMMA UpdateDomainStep ==
  ASSUME EditInv, NEW o \in Names, NEW n \in Names, NEW b \in BOOLEAN, UpdateDomain(o, n, b)
  PROVE  EditInv'
<1>1. Good(conf, programs, idCounter, moved, loose)
  BY EditInvIs
<1>2. PICK ds, d : /\ ds = (conf.domains \ {o}) \cup {n}
                   /\ d = IF b THEN n ELSE conf.default
  OBVIOUS
<1>3. conf \in Configurations /\ ds \in SUBSET Names /\ d \in Names \cup {NoDomain}
  BY <1>1, <1>2, Parts DEF Good, Ordered
<1>4. PICK c : c = [conf EXCEPT !.domains = ds, !.default = d]
  OBVIOUS
<1>5. c \in Configurations /\ c.domains = ds /\ c.default = d /\ c.lists = conf.lists
  BY <1>3, <1>4 DEF Configurations
<1>6. conf' = InRules(c, o, n)
  BY <1>2, <1>4 DEF UpdateDomain
<1>7. n \notin conf.domains \ {o} /\ (conf.default = o => b)
  BY DEF UpdateDomain
<1>8. ds = DomainsAfter(conf.domains, o, n)
  BY <1>2, NoDomainIsNone DEF DomainsAfter
<1>9. /\ Ordered(conf') /\ conf'.domains = ds /\ conf'.default = d
      /\ ~moved => Kept(conf', idCounter, loose)
  BY <1>5, <1>6, <1>7, <1>8, ChangeDomainStep
<1>10. d \in ds \cup {NoDomain}
  BY <1>1, <1>2, <1>7 DEF Good
<1>11. programs' = programs /\ idCounter' = idCounter /\ moved' = moved /\ loose' = loose
  BY DEF UpdateDomain
<1> QED
  BY <1>1, <1>9, <1>10, <1>11, EditInvNext DEF Good

\* deleteDomain keeps EditInv: no reference to the domain is left.
LEMMA DeleteDomainStep ==
  ASSUME EditInv, NEW n \in Names, NEW d \in Names \cup {NoDomain}, DeleteDomain(n, d)
  PROVE  EditInv'
<1>1. Good(conf, programs, idCounter, moved, loose)
  BY EditInvIs
<1>2. PICK ds, c : ds = conf.domains \ {n} /\ c = [conf EXCEPT !.domains = ds]
  OBVIOUS
<1>3. /\ conf \in Configurations /\ ds \in SUBSET Names /\ conf.default \in Names \cup {NoDomain}
  BY <1>1, <1>2, Parts DEF Good, Ordered
<1>4. c \in Configurations /\ c.domains = ds /\ c.default = conf.default /\ c.lists = conf.lists
  BY <1>2, <1>3 DEF Configurations
<1>5. PICK e : e = InRules(c, n, NoDomain)
  OBVIOUS
<1>6. NoDomain \notin conf.domains \ {n} /\ ds = DomainsAfter(conf.domains, n, NoDomain)
  BY <1>2, <1>3, NoDomainIsNone, Parts DEF DomainsAfter
<1>7. /\ Ordered(e) /\ e.domains = ds /\ e.default = conf.default
      /\ ~moved => Kept(e, idCounter, loose)
  BY <1>4, <1>5, <1>6, ChangeDomainStep
<1>8. PICK f : f = IF conf.default = n THEN d ELSE conf.default
  OBVIOUS
<1>9. conf' = [e EXCEPT !.default = f]
  BY <1>2, <1>5, <1>7, <1>8 DEF DeleteDomain
<1>10. f \in ds \cup {NoDomain}
  BY <1>1, <1>2, <1>8 DEF Good, DeleteDomain
<1>11. e \in Configurations /\ f \in Names \cup {NoDomain}
  BY <1>3, <1>7, <1>10 DEF Ordered
<1>12. conf' \in Configurations /\ conf'.domains = ds /\ conf'.default = f /\ conf'.lists = e.lists
  BY <1>7, <1>9, <1>11 DEF Configurations
<1>13. /\ Ordered(conf') /\ (Neat(e) <=> Neat(conf')) /\ (Unique(e) <=> Unique(conf'))
       /\ \A k \in Kinds : Rules(conf', k) = Rules(e, k)
  BY <1>7, <1>12, SameLists
<1>14. ~moved => Kept(conf', idCounter, loose)
  BY <1>7, <1>12, <1>13 DEF Kept
<1>15. programs' = programs /\ idCounter' = idCounter /\ moved' = moved /\ loose' = loose
  BY DEF DeleteDomain
<1> QED
  BY <1>1, <1>10, <1>12, <1>13, <1>14, <1>15, EditInvNext DEF Good

-----------------------------------------------------------------------------
(* Rules and loops.                                                        *)

\* The names that are not loose are domains, each there once.
LEMMA LooseFacts ==
  ASSUME NEW ts \in Seq(TRules), NEW ds, NEW L, L = Loose(ts, ds)
  PROVE  L \in SUBSET Names /\ Covered(ts, ds, L)
<1>1. \A i \in DOMAIN ts : ts[i].from \in Names
  <2>1. \A i \in DOMAIN ts : ts[i] \in TRules
    BY LenProperties, ElementOfSeq
  <2> QED
    BY <2>1 DEF TRules
<1>2. ASSUME NEW i \in DOMAIN ts, ts[i].from \notin L
      PROVE  ts[i].from \in ds /\ \A j \in DOMAIN ts : ts[i].from = ts[j].from => i = j
  BY <1>2 DEF Loose
<1> QED
  BY <1>1, <1>2 DEF Loose, Covered

\* More names may be loose.
LEMMA FitsLooser ==
  ASSUME NEW r, NEW k, NEW ds, NEW ls, NEW L, Fits(r, k, ds, ls), ls \subseteq L
  PROVE  Fits(r, k, ds, L)
BY DEF Fits

\* A rule with that target and those trules fits.
Accepts(k, to, e, ls) ==
  /\ to \in Names \cup {NoDomain} /\ e.trules \in Seq(TRules) /\ e.mrules \in SUBSET MRules
  /\ ls \in SUBSET Names /\ loose \subseteq ls
  /\ \A r : r.to = to /\ r.trules = e.trules => Fits(r, k, conf.domains, ls)

\* What the dialogs return fits, with the names it leaves loose.
LEMMA EnteredFits ==
  ASSUME EditInv, NEW k \in Kinds, NEW to \in Targets(k), NEW e \in Entered, NEW ls,
         ls = loose \cup Loose(e.trules, conf.domains)
  PROVE  Accepts(k, to, e, ls)
<1>1. conf.domains \in SUBSET Names /\ loose \in SUBSET Names
  BY Parts DEF EditInv, TypeOK
<1>2. to \in IF k = "loop" THEN {NoDomain} ELSE conf.domains
  BY DEF Targets
<1>3. e.trules \in Seq(TRules) /\ e.mrules \in SUBSET MRules
  BY EnteredType
<1>4. PICK ts, L : ts = e.trules /\ L = Loose(ts, conf.domains)
  OBVIOUS
<1>5. L \in SUBSET Names /\ Covered(ts, conf.domains, L) /\ ls = loose \cup L
  BY <1>3, <1>4, LooseFacts
<1>6. ASSUME NEW r, r.to = to, r.trules = e.trules PROVE Fits(r, k, conf.domains, ls)
  <2>1. Fits(r, k, conf.domains, L)
    BY <1>2, <1>4, <1>5, <1>6 DEF Fits, Covered
  <2> QED
    BY <2>1, <1>5, FitsLooser
<1> QED
  BY <1>1, <1>2, <1>3, <1>5, <1>6 DEF Accepts

\* addRule and addLoop keep EditInv: the new number is greater than all others.
LEMMA AddRuleStep ==
  ASSUME EditInv, NEW k \in Kinds, NEW p \in programs, NEW to \in Targets(k), NEW e \in Entered,
         AddRule(k, p, to, e)
  PROVE  EditInv'
<1>1. Good(conf, programs, idCounter, moved, loose) /\ idCounter \in Nat /\ idCounter < MaxId
  BY EditInvIs, MaxIdType DEF Good, AddRule
<1>2. PICK r, ls : /\ r = [id |-> idCounter + 1, priority |-> idCounter + 1, program |-> p,
                            to |-> to, trules |-> e.trules, mrules |-> e.mrules]
                   /\ ls = loose \cup Loose(e.trules, conf.domains)
  OBVIOUS
<1>3. /\ to \in Names \cup {NoDomain} /\ e.trules \in Seq(TRules) /\ e.mrules \in SUBSET MRules
      /\ ls \in SUBSET Names /\ loose \subseteq ls
      /\ Accepts(k, to, e, ls)
  <2>1. Accepts(k, to, e, ls)
    <3>1. ls = loose \cup Loose(e.trules, conf.domains)
      BY <1>2
    <3> QED
      BY <3>1, EnteredFits
  <2> QED
    BY <2>1 DEF Accepts
<1>4. idCounter + 1 \in Ids /\ p \in ProgNames /\ idCounter + 1 \in 0..MaxId
  BY <1>1, MaxIdType DEF Ids, Good
<1>5. /\ r \in AbstractRules /\ r.id = idCounter + 1 /\ r.priority = idCounter + 1
      /\ r.to = to /\ r.trules = e.trules
  BY <1>2, <1>3, <1>4 DEF AbstractRules
<1>6. /\ conf' = Add(conf, k, r) /\ programs' = programs /\ idCounter' = idCounter + 1
      /\ moved' = moved /\ loose' = ls
  BY <1>2 DEF AddRule
<1>7. /\ Ordered(conf') /\ conf'.domains = conf.domains /\ conf'.default = conf.default
      /\ Neat(conf) /\ (\A x \in Rules(conf, k) : x.id # r.id) =>
           /\ Neat(conf') /\ Rules(conf', k) = Rules(conf, k) \cup {r}
           /\ \A j \in Kinds : j # k => Rules(conf', j) = Rules(conf, j)
  BY <1>1, <1>5, <1>6, AddFacts DEF Good
<1>8. ASSUME ~moved PROVE Kept(conf', idCounter + 1, ls)
  <2>1. Kept(conf, idCounter, loose)
    BY <1>1, <1>8 DEF Good
  <2>2. \A j \in Kinds : \A x \in Rules(conf, j) :
          /\ x.id \in Nat /\ x.priority \in Nat
          /\ x.id <= idCounter /\ x.priority <= idCounter
          /\ x.id # r.id /\ x.priority # r.priority
          /\ x.id <= idCounter + 1 /\ x.priority <= idCounter + 1
    <3>1. ASSUME NEW j \in Kinds, NEW x \in Rules(conf, j)
          PROVE  /\ x.id \in Nat /\ x.priority \in Nat
                 /\ x.id <= idCounter /\ x.priority <= idCounter
      BY <2>1, RuleNumbers DEF Kept, Rules
    <3> QED
      BY <3>1, <1>1, <1>5
  <2>3. /\ Neat(conf') /\ Rules(conf', k) = Rules(conf, k) \cup {r}
        /\ \A j \in Kinds : j # k => Rules(conf', j) = Rules(conf, j)
    BY <2>1, <2>2, <1>7 DEF Kept
  <2>4. \A j \in Kinds : \A x \in Rules(conf', j) : x \in Rules(conf, j) \/ (x = r /\ j = k)
    BY <2>3
  <2>5. Unique(conf')
    <3>1. ASSUME NEW i \in Kinds, NEW j \in Kinds, NEW x \in Rules(conf', i), NEW y \in Rules(conf', j),
                 x.id = y.id \/ x.priority = y.priority
          PROVE  x = y /\ i = j
      <4>1. CASE x \in Rules(conf, i) /\ y \in Rules(conf, j)
        BY <4>1, <3>1, <2>1 DEF Kept, Unique
      <4>2. CASE x \in Rules(conf, i) /\ y = r /\ j = k
        BY <4>2, <3>1, <2>2
      <4>3. CASE x = r /\ i = k /\ y \in Rules(conf, j)
        BY <4>3, <3>1, <2>2
      <4>4. CASE x = r /\ i = k /\ y = r /\ j = k
        BY <4>4
      <4> QED
        BY <4>1, <4>2, <4>3, <4>4, <2>4
    <3> QED
      BY <3>1 DEF Unique
  <2>6. r.id <= idCounter + 1 /\ r.priority <= idCounter + 1 /\ Fits(r, k, conf.domains, ls)
    BY <1>1, <1>3, <1>5 DEF Accepts
  <2>7. \A j \in Kinds : \A x \in Rules(conf, j) : Fits(x, j, conf.domains, ls)
    BY <2>1, <1>3, FitsLooser DEF Kept
  <2>8. ASSUME NEW j \in Kinds, NEW x \in Rules(conf', j)
        PROVE  Fits(x, j, conf'.domains, ls) /\ x.id <= idCounter + 1 /\ x.priority <= idCounter + 1
    BY <2>2, <2>4, <2>6, <2>7, <1>7
  <2> QED
    BY <2>3, <2>5, <2>8 DEF Kept
<1> QED
  BY <1>1, <1>3, <1>4, <1>6, <1>7, <1>8, EditInvNext DEF Good

\* A rule is replaced by one that fits, or taken out.
LEMMA ChangedKept ==
  ASSUME NEW c, NEW m, NEW ls, Kept(c, m, ls), NEW k \in Kinds, NEW r \in Rules(c, k), NEW e, NEW N,
         Changed(e, c, k, r, N), \A x \in N : Fits(x, k, c.domains, ls), e.domains = c.domains
  PROVE  Kept(e, m, ls)
<1>1. Neat(e) /\ Unique(e)
  BY ChangedUnique DEF Changed, Kept
<1>2. ASSUME NEW j \in Kinds, NEW x \in Rules(e, j)
      PROVE  Fits(x, j, e.domains, ls) /\ x.id <= m /\ x.priority <= m
  <2>1. CASE x \in Rules(c, j)
    BY <2>1 DEF Kept
  <2>2. CASE j = k /\ x \in N
    BY <2>2 DEF Kept, Changed
  <2> QED
    BY <2>1, <2>2 DEF Changed
<1> QED
  BY <1>1, <1>2 DEF Kept

\* editRule and editLoop keep EditInv: the rule takes its own place again, or is
\* given another program and moved is set.
LEMMA EditRuleStep ==
  ASSUME EditInv, NEW k \in Kinds, NEW id \in Ids, NEW p \in programs, NEW to \in Targets(k),
         NEW e \in Entered, EditRule(k, id, p, to, e)
  PROVE  EditInv'
<1>1. Good(conf, programs, idCounter, moved, loose) /\ Holders(conf, k, id) # {}
  BY EditInvIs DEF EditRule
<1>2. PICK r, x, ls : /\ r = Find(conf, k, id)
                      /\ x = [r EXCEPT !.program = p, !.to = to,
                                      !.trules = e.trules, !.mrules = e.mrules]
                      /\ ls = loose \cup Loose(e.trules, conf.domains)
  OBVIOUS
<1>3. r \in AbstractRules /\ (Neat(conf) => r \in Rules(conf, k))
  BY <1>1, <1>2, FindFacts DEF Good
<1>4. /\ to \in Names \cup {NoDomain} /\ e.trules \in Seq(TRules) /\ e.mrules \in SUBSET MRules
      /\ ls \in SUBSET Names /\ loose \subseteq ls
      /\ Accepts(k, to, e, ls)
  <2>1. Accepts(k, to, e, ls)
    <3>1. ls = loose \cup Loose(e.trules, conf.domains)
      BY <1>2
    <3> QED
      BY <3>1, EnteredFits
  <2> QED
    BY <2>1 DEF Accepts
<1>5. /\ x \in AbstractRules /\ x.id = r.id /\ x.priority = r.priority /\ x.program = p
      /\ x.to = to /\ x.trules = e.trules
  BY <1>1, <1>2, <1>3, <1>4 DEF AbstractRules, Good
<1>6. /\ conf' = Update(conf, k, x) /\ moved' = (moved \/ p # r.program)
      /\ programs' = programs /\ idCounter' = idCounter /\ loose' = ls
  BY <1>2 DEF EditRule
<1>7. Ordered(conf') /\ conf'.domains = conf.domains /\ conf'.default = conf.default
  BY <1>1, <1>5, <1>6, UpdateFacts DEF Good
<1>8. ASSUME ~moved' PROVE Kept(conf', idCounter, ls)
  <2>1. ~moved /\ p = r.program /\ Kept(conf, idCounter, loose) /\ r \in Rules(conf, k)
    BY <1>1, <1>3, <1>6, <1>8 DEF Good, Kept
  <2>2. Changed(conf, conf, k, r, {r})
    BY <2>1, <1>1, ChangedAtFirst DEF Good, Kept
  <2>3. Changed(conf', conf, k, r, {x})
    BY <2>1, <2>2, <1>5, <1>6, ChangedByUpdate
  <2>4. \A y \in {x} : Fits(y, k, conf.domains, ls)
    BY <1>4, <1>5 DEF Accepts
  <2>5. Kept(conf, idCounter, ls)
    BY <2>1, <1>4, FitsLooser DEF Kept
  <2> QED
    BY <2>1, <2>3, <2>4, <2>5, <1>7, ChangedKept
<1>9. moved' \in BOOLEAN
  BY <1>6
<1> QED
  BY <1>1, <1>4, <1>6, <1>7, <1>8, <1>9, EditInvNext DEF Good

\* The delete button of the dialogs keeps EditInv.
LEMMA DeleteEditedStep ==
  ASSUME EditInv, NEW k \in Kinds, NEW id \in Ids, DeleteEdited(k, id)
  PROVE  EditInv'
<1>1. Good(conf, programs, idCounter, moved, loose) /\ Holders(conf, k, id) # {}
  BY EditInvIs DEF DeleteEdited
<1>2. PICK r : r = Find(conf, k, id)
  OBVIOUS
<1>3. r \in AbstractRules /\ (Neat(conf) => r \in Rules(conf, k))
  BY <1>1, <1>2, FindFacts DEF Good
<1>4. /\ conf' = DeleteObject(conf, k, r)
      /\ programs' = programs /\ idCounter' = idCounter /\ moved' = moved /\ loose' = loose
  BY <1>2 DEF DeleteEdited
<1>5. /\ Ordered(conf') /\ conf'.domains = conf.domains /\ conf'.default = conf.default
      /\ Neat(conf) =>
           /\ Neat(conf')
           /\ Rules(conf', k) = {x \in Rules(conf, k) : x.id # r.id \/ x.program # r.program}
           /\ \A j \in Kinds : j # k => Rules(conf', j) = Rules(conf, j)
  BY <1>1, <1>3, <1>4, DeleteObjectFacts DEF Good
<1>6. ASSUME ~moved PROVE Kept(conf', idCounter, loose)
  <2>1. Kept(conf, idCounter, loose) /\ r \in Rules(conf, k)
    BY <1>1, <1>3, <1>6 DEF Good, Kept
  <2>2. \A x \in Rules(conf, k) : x.id = r.id => x = r
    BY <2>1 DEF Kept, Unique
  <2>3. Changed(conf', conf, k, r, {})
    BY <2>1, <2>2, <1>5 DEF Changed, Kept
  <2> QED
    BY <2>1, <2>3, <1>5, ChangedKept
<1> QED
  BY <1>1, <1>4, <1>5, <1>6, EditInvNext DEF Good

\* The delete button of the docks keeps EditInv.
LEMMA DeleteRuleStep ==
  ASSUME EditInv, NEW k \in Kinds, NEW id \in Ids, DeleteRule(k, id)
  PROVE  EditInv'
<1>1. Good(conf, programs, idCounter, moved, loose) /\ Holders(conf, k, id) # {}
  BY EditInvIs DEF DeleteRule
<1>2. PICK r : r = Find(conf, k, id)
  OBVIOUS
<1>3. r \in AbstractRules /\ r.id = id /\ (Neat(conf) => r \in Rules(conf, k))
  BY <1>1, <1>2, FindFacts DEF Good
<1>4. /\ conf' = DeleteId(conf, k, id)
      /\ programs' = programs /\ idCounter' = idCounter /\ moved' = moved /\ loose' = loose
  BY DEF DeleteRule
<1>5. Ordered(conf') /\ conf'.domains = conf.domains /\ conf'.default = conf.default
  BY <1>1, <1>4, DeleteIdFacts DEF Good
<1>6. ASSUME ~moved PROVE Kept(conf', idCounter, loose)
  <2>1. Kept(conf, idCounter, loose) /\ r \in Rules(conf, k)
    BY <1>1, <1>3, <1>6 DEF Good, Kept
  <2>2. Changed(conf, conf, k, r, {r}) /\ Unique(conf)
    BY <2>1, <1>1, ChangedAtFirst DEF Good, Kept
  <2>3. Changed(conf', conf, k, r, {})
    BY <2>2, <1>3, <1>4, ChangedByDelete
  <2> QED
    BY <2>1, <2>3, <1>5, ChangedKept
<1> QED
  BY <1>1, <1>4, <1>5, <1>6, EditInvNext DEF Good

\* The rules and loops together.
LEMMA AllRulesFacts ==
  ASSUME NEW c \in Configurations, NEW w, w = AllRules(c)
  PROVE  /\ w \in Seq(AbstractRules)
         /\ \A x : x \in Range(w) <=> \E k \in Kinds, p \in ProgNames : x \in Range(c.lists[k][p])
         /\ Neat(c) /\ Unique(c) => OnceEach(w)
<1>1. PICK s, t, C : s = All(c, "loop") /\ t = All(c, "rule") /\ C = Seq(AbstractRules)
  OBVIOUS
<1>2. "loop" \in Kinds /\ "rule" \in Kinds /\ \A k \in Kinds : k = "loop" \/ k = "rule"
  BY DEF Kinds
<1>3. /\ s \in C
      /\ \A y : y \in Range(s) <=> \E p \in ProgNames : y \in Range(c.lists["loop"][p])
      /\ Neat(c) /\ Unique(c) => OnceEach(s) /\ Range(s) = Rules(c, "loop")
  BY <1>1, <1>2, AllFacts DEF Unique
<1>4. /\ t \in C
      /\ \A y : y \in Range(t) <=> \E p \in ProgNames : y \in Range(c.lists["rule"][p])
      /\ Neat(c) /\ Unique(c) => OnceEach(t) /\ Range(t) = Rules(c, "rule")
  BY <1>1, <1>2, AllFacts DEF Unique
<1>5. w = Cat(s, t)
  BY <1>1 DEF AllRules, Cat
<1>6. /\ w \in C /\ Range(w) = Range(s) \cup Range(t)
      /\ OnceEach(s) /\ OnceEach(t) /\ (\A x \in Range(s), y \in Range(t) : x.id # y.id)
              => OnceEach(w)
  BY <1>1, <1>3, <1>4, <1>5, CatFacts
<1>7. ASSUME Neat(c), Unique(c) PROVE OnceEach(w)
  <2>1. \A x \in Rules(c, "loop"), y \in Rules(c, "rule") : x.id # y.id
    BY <1>2, <1>7 DEF Unique
  <2> QED
    BY <2>1, <1>3, <1>4, <1>6, <1>7
<1>8. ASSUME NEW x
      PROVE  x \in Range(w) <=> \E k \in Kinds, p \in ProgNames : x \in Range(c.lists[k][p])
  BY <1>2, <1>3, <1>4, <1>6
<1> QED
  BY <1>1, <1>6, <1>7, <1>8

\* A rule that the dock lists is found.
LEMMA ListedFound ==
  ASSUME Ordered(conf), NEW id, NEW x \in Range(AllRules(conf)), x.id = id
  PROVE  KindOf(conf, id) \in Kinds /\ Holders(conf, KindOf(conf, id), id) # {}
<1>1. conf \in Configurations
  BY DEF Ordered
<1>2. PICK k \in Kinds, p \in ProgNames : x \in Range(conf.lists[k][p])
  BY <1>1, AllRulesFacts
<1>3. p \in Holders(conf, k, id)
  BY <1>2, HoldersFacts
<1> QED
  BY <1>2, <1>3 DEF KindOf, Kinds

\* Two rules of unique ids have exchanged their priorities.
Swapped(e, c, k, r, u, j, q, v) ==
  \A l \in Kinds : \A x \in Rules(e, l) :
    \/ x \in Rules(c, l) /\ x.id # r.id /\ x.id # q.id
    \/ x = u /\ l = k
    \/ x = v /\ l = j

\* With their priorities exchanged, the two rules differ from all others as before.
LEMMA SwapKept ==
  ASSUME NEW c, NEW m, NEW ls, Kept(c, m, ls), NEW e, Neat(e), e.domains = c.domains,
         NEW k \in Kinds, NEW j \in Kinds, NEW r \in Rules(c, k), NEW q \in Rules(c, j),
         r.id # q.id, NEW u, NEW v,
         u = [r EXCEPT !.priority = q.priority], v = [q EXCEPT !.priority = r.priority],
         Swapped(e, c, k, r, u, j, q, v)
  PROVE  Kept(e, m, ls)
<1>1. r \in AbstractRules /\ q \in AbstractRules
  BY DEF Rules
<1>2. /\ u.id = r.id /\ u.priority = q.priority /\ u.to = r.to /\ u.trules = r.trules
      /\ v.id = q.id /\ v.priority = r.priority /\ v.to = q.to /\ v.trules = q.trules
  BY <1>1 DEF AbstractRules
<1>3. /\ \A l \in Kinds : \A x \in Rules(c, l) : x.id = r.id \/ x.priority = r.priority => x = r /\ l = k
      /\ \A l \in Kinds : \A x \in Rules(c, l) : x.id = q.id \/ x.priority = q.priority => x = q /\ l = j
      /\ r.priority # q.priority
  BY DEF Kept, Unique
<1>4. Unique(e)
  <2> SUFFICES ASSUME NEW l1 \in Kinds, NEW l2 \in Kinds, NEW x \in Rules(e, l1), NEW y \in Rules(e, l2),
                      x.id = y.id \/ x.priority = y.priority
               PROVE  x = y /\ l1 = l2
    BY DEF Unique
  <2>1. CASE x \in Rules(c, l1) /\ x.id # r.id /\ x.id # q.id
    <3>0. x.priority # r.priority /\ x.priority # q.priority
      BY <2>1, <1>3
    <3>1. CASE y \in Rules(c, l2) /\ y.id # r.id /\ y.id # q.id
      BY <2>1, <3>1 DEF Kept, Unique
    <3>2. CASE y = u /\ l2 = k
      BY <2>1, <3>0, <3>2, <1>2
    <3>3. CASE y = v /\ l2 = j
      BY <2>1, <3>0, <3>3, <1>2
    <3> QED
      BY <3>1, <3>2, <3>3 DEF Swapped
  <2>2. CASE x = u /\ l1 = k
    <3>1. CASE y \in Rules(c, l2) /\ y.id # r.id /\ y.id # q.id
      <4>1. y.priority # r.priority /\ y.priority # q.priority
        BY <3>1, <1>3
      <4> QED
        BY <2>2, <3>1, <4>1, <1>2
    <3>2. CASE y = u /\ l2 = k
      BY <2>2, <3>2
    <3>3. CASE y = v /\ l2 = j
      BY <2>2, <3>3, <1>2, <1>3
    <3> QED
      BY <3>1, <3>2, <3>3 DEF Swapped
  <2>3. CASE x = v /\ l1 = j
    <3>1. CASE y \in Rules(c, l2) /\ y.id # r.id /\ y.id # q.id
      <4>1. y.priority # r.priority /\ y.priority # q.priority
        BY <3>1, <1>3
      <4> QED
        BY <2>3, <3>1, <4>1, <1>2
    <3>2. CASE y = u /\ l2 = k
      BY <2>3, <3>2, <1>2, <1>3
    <3>3. CASE y = v /\ l2 = j
      BY <2>3, <3>3
    <3> QED
      BY <3>1, <3>2, <3>3 DEF Swapped
  <2> QED
    BY <2>1, <2>2, <2>3 DEF Swapped
<1>5. ASSUME NEW l \in Kinds, NEW x \in Rules(e, l)
      PROVE  Fits(x, l, e.domains, ls) /\ x.id <= m /\ x.priority <= m
  <2>1. CASE x \in Rules(c, l)
    BY <2>1 DEF Kept
  <2>2. CASE x = u /\ l = k
    BY <2>2, <1>2 DEF Kept, Fits
  <2>3. CASE x = v /\ l = j
    BY <2>3, <1>2 DEF Kept, Fits
  <2> QED
    BY <2>1, <2>2, <2>3 DEF Swapped
<1> QED
  BY <1>4, <1>5 DEF Kept

\* swapPriorities keeps EditInv: both rules are inserted again by their new priority.
LEMMA SwapPrioritiesStep ==
  ASSUME EditInv, NEW id \in Ids, NEW other \in Ids, SwapPriorities(id, other)
  PROVE  EditInv'
<1>1. Good(conf, programs, idCounter, moved, loose) /\ Ordered(conf)
  BY EditInvIs DEF Good
<1>2. PICK k, r, c, j : /\ k = KindOf(conf, id) /\ r = Find(conf, k, id)
                        /\ c = DeleteId(conf, k, id) /\ j = KindOf(c, other)
  OBVIOUS
<1>3. \E x \in Range(AllRules(conf)) : x.id = id
  BY DEF SwapPriorities, NextRule
<1>4. k \in Kinds /\ Holders(conf, k, id) # {}
  BY <1>1, <1>2, <1>3, ListedFound
<1>5. r \in AbstractRules /\ r.id = id /\ (Neat(conf) => r \in Rules(conf, k))
  BY <1>1, <1>2, <1>4, FindFacts
<1>6. Ordered(c) /\ c.domains = conf.domains /\ c.default = conf.default /\ j \in Kinds
  BY <1>1, <1>2, <1>4, DeleteIdFacts DEF KindOf, Kinds
<1>7. programs' = programs /\ idCounter' = idCounter /\ moved' = moved /\ loose' = loose
  BY DEF SwapPriorities
<1>8. ASSUME ~moved
      PROVE  /\ Kept(conf, idCounter, loose) /\ r \in Rules(conf, k)
             /\ Changed(c, conf, k, r, {}) /\ Kept(c, idCounter, loose)
  <2>1. Kept(conf, idCounter, loose) /\ r \in Rules(conf, k)
    BY <1>1, <1>5, <1>8 DEF Good, Kept
  <2>2. Changed(conf, conf, k, r, {r}) /\ Unique(conf)
    BY <2>1, <1>1, <1>4, ChangedAtFirst DEF Kept
  <2>3. Changed(c, conf, k, r, {})
    BY <2>2, <1>2, <1>4, <1>5, ChangedByDelete
  <2>4. Kept(c, idCounter, loose)
    BY <2>1, <2>3, <1>4, <1>6, ChangedKept
  <2> QED
    BY <2>1, <2>3, <2>4
<1>9. CASE Holders(c, j, other) = {}
  <2>1. conf' = c
    BY <1>2, <1>9 DEF SwapPriorities
  <2> QED
    BY <2>1, <1>1, <1>6, <1>7, <1>8, EditInvNext DEF Good
<1>10. CASE Holders(c, j, other) # {}
  <2>1. PICK q, d : q = Find(c, j, other) /\ d = DeleteId(c, j, other)
    OBVIOUS
  <2>2. q \in AbstractRules /\ q.id = other /\ (Neat(c) => q \in Rules(c, j))
    BY <2>1, <1>6, <1>10, FindFacts
  <2>3. Ordered(d) /\ d.domains = conf.domains /\ d.default = conf.default
    BY <2>1, <1>6, DeleteIdFacts
  <2>4. PICK u, v : u = [r EXCEPT !.priority = q.priority] /\ v = [q EXCEPT !.priority = r.priority]
    OBVIOUS
  <2>5. u \in AbstractRules /\ u.id = id /\ v \in AbstractRules /\ v.id = other
    BY <2>2, <2>4, <1>5 DEF AbstractRules
  <2>6. PICK f : f = Add(d, k, u)
    OBVIOUS
  <2>7. conf' = Add(f, j, v)
    BY <2>1, <2>4, <2>6, <1>2, <1>10 DEF SwapPriorities
  <2>8. /\ Ordered(f) /\ f.domains = conf.domains /\ f.default = conf.default
        /\ Neat(d) /\ (\A x \in Rules(d, k) : x.id # u.id) =>
             /\ Neat(f) /\ Rules(f, k) = Rules(d, k) \cup {u}
             /\ \A l \in Kinds : l # k => Rules(f, l) = Rules(d, l)
    <3>1. Added(f, d, k, u)
      BY <2>3, <2>5, <2>6, <1>4, AddIs
    <3> QED
      BY <3>1, <2>3 DEF Added
  <2>9. /\ Ordered(conf') /\ conf'.domains = conf.domains /\ conf'.default = conf.default
        /\ Neat(f) /\ (\A x \in Rules(f, j) : x.id # v.id) =>
             /\ Neat(conf') /\ Rules(conf', j) = Rules(f, j) \cup {v}
             /\ \A l \in Kinds : l # j => Rules(conf', l) = Rules(f, l)
    <3>1. Ordered(f)
      BY <2>8
    <3>2. Added(conf', f, j, v)
      BY <3>1, <2>5, <2>7, <1>6, AddIs
    <3> QED
      BY <3>2, <2>8 DEF Added
  <2>10. ASSUME ~moved PROVE Kept(conf', idCounter, loose)
    <3>1. /\ Kept(conf, idCounter, loose) /\ r \in Rules(conf, k)
          /\ Changed(c, conf, k, r, {}) /\ Kept(c, idCounter, loose) /\ q \in Rules(c, j)
      BY <2>2, <2>10, <1>8 DEF Kept
    <3>2. Changed(c, c, j, q, {q}) /\ Unique(c)
      BY <3>1, <1>6, ChangedAtFirst DEF Kept
    <3>3. Changed(d, c, j, q, {})
      BY <3>2, <2>1, <2>2, <1>6, ChangedByDelete
    <3>4. q \in Rules(conf, j) /\ r.id # q.id
      BY <3>1, <1>4, <1>6 DEF Changed, Kept, Unique
    <3>5. \A l \in Kinds : \A x \in Rules(d, l) :
            x \in Rules(conf, l) /\ x.id # r.id /\ x.id # q.id
      <4>1. ASSUME NEW l \in Kinds, NEW x \in Rules(d, l)
            PROVE  x \in Rules(c, l) /\ (l = j => x.id # q.id)
        BY <3>3 DEF Changed
      <4>2. ASSUME NEW l \in Kinds, NEW x \in Rules(c, l)
            PROVE  x \in Rules(conf, l) /\ (l = k => x.id # r.id)
        BY <3>1 DEF Changed
      <4>3. /\ \A l \in Kinds : \A x \in Rules(conf, l) : x.id = r.id => l = k
            /\ \A l \in Kinds : \A x \in Rules(conf, l) : x.id = q.id => l = j
        BY <3>1, <3>4, <1>4, <1>6 DEF Kept, Unique
      <4> QED
        BY <4>1, <4>2, <4>3
    <3>6. /\ Neat(f) /\ Rules(f, k) = Rules(d, k) \cup {u}
          /\ \A l \in Kinds : l # k => Rules(f, l) = Rules(d, l)
      BY <3>3, <3>5, <2>5, <2>8, <1>4, <1>5 DEF Changed
    <3>7. \A l \in Kinds : \A x \in Rules(f, l) : x.id # q.id
      BY <3>4, <3>5, <3>6, <2>5, <1>5
    <3>8. /\ Neat(conf') /\ Rules(conf', j) = Rules(f, j) \cup {v}
          /\ \A l \in Kinds : l # j => Rules(conf', l) = Rules(f, l)
      BY <3>6, <3>7, <2>2, <2>5, <2>9, <1>6
    <3>9. Swapped(conf', conf, k, r, u, j, q, v)
      BY <3>5, <3>6, <3>8 DEF Swapped
    <3> QED
      BY <3>1, <3>4, <3>8, <3>9, <2>4, <2>9, <1>4, <1>6, SwapKept
  <2> QED
    BY <2>9, <2>10, <1>1, <1>7, EditInvNext DEF Good
<1> QED
  BY <1>9, <1>10

-----------------------------------------------------------------------------
(* Programs.                                                               *)

\* The rules of a list are given the program n.
LEMMA RenamedList ==
  ASSUME NEW s \in Seq(AbstractRules), InOrder(s), NEW n \in ProgNames,
         NEW w, w = [i \in DOMAIN s |-> [s[i] EXCEPT !.program = n]]
  PROVE  /\ w \in Seq(AbstractRules) /\ InOrder(w)
         /\ (\A r \in Range(s) : r.program = n) => w = s
<1>1. DOMAIN s = 1..Len(s) /\ Len(s) \in Nat /\ \A i \in 1..Len(s) : s[i] \in AbstractRules
  BY LenProperties, ElementOfSeq
<1>2. ASSUME NEW i \in 1..Len(s)
      PROVE  /\ [s[i] EXCEPT !.program = n] \in AbstractRules
             /\ [s[i] EXCEPT !.program = n].priority = s[i].priority
             /\ s[i].program = n => [s[i] EXCEPT !.program = n] = s[i]
  <2>1. PICK x : x = s[i]
    OBVIOUS
  <2>2. x \in AbstractRules
    BY <2>1, <1>1
  <2>3. /\ [x EXCEPT !.program = n] \in AbstractRules
        /\ [x EXCEPT !.program = n].priority = x.priority
        /\ x.program = n => [x EXCEPT !.program = n] = x
    BY <2>2 DEF AbstractRules
  <2> QED
    BY <2>1, <2>3
<1>3. w \in [1..Len(s) -> AbstractRules]
  BY <1>1, <1>2
<1>4. w \in Seq(AbstractRules) /\ DOMAIN w = 1..Len(s) /\ Len(w) = Len(s)
  BY <1>1, <1>3, SeqOfFunction
<1>5. \A i \in 1..Len(s) : w[i].priority = s[i].priority
  BY <1>1, <1>2
<1>6. InOrder(w)
  BY <1>1, <1>4, <1>5 DEF InOrder
<1>7. ASSUME \A r \in Range(s) : r.program = n PROVE w = s
  <2>1. \A i \in 1..Len(s) : s[i].program = n
    BY <1>1, <1>7 DEF Range
  <2>2. \A i \in 1..Len(s) : w[i] = s[i]
    BY <2>1, <1>1, <1>2
  <2> QED
    BY <2>2, <1>4, SeqEqual
<1> QED
  BY <1>4, <1>6, <1>7

\* The lists stay in order; nothing changes if the rules had this program.
LEMMA SetProgramFacts ==
  ASSUME Ordered(conf), NEW p \in ProgNames, NEW n \in ProgNames, SetProgram(p, n)
  PROVE  /\ Ordered(conf') /\ conf'.domains = conf.domains /\ conf'.default = conf.default
         /\ (\A k \in Kinds : \A r \in Range(conf.lists[k][p]) : r.program = n) => conf' = conf
<1> DEFINE Renamed(s) == [i \in DOMAIN s |-> [s[i] EXCEPT !.program = n]]
           L == [k \in Kinds |-> [conf.lists[k] EXCEPT ![p] = Renamed(conf.lists[k][p])]]
<1>1. conf' = [conf EXCEPT !.lists = L]
  BY DEF SetProgram
<1>2. /\ conf \in Configurations /\ conf.lists \in [Kinds -> [ProgNames -> Seq(AbstractRules)]]
      /\ \A k \in Kinds, q \in ProgNames :
           conf.lists[k][q] \in Seq(AbstractRules) /\ InOrder(conf.lists[k][q])
  BY Parts DEF Ordered
<1>3. ASSUME NEW k \in Kinds
      PROVE  /\ Renamed(conf.lists[k][p]) \in Seq(AbstractRules)
             /\ InOrder(Renamed(conf.lists[k][p]))
             /\ (\A r \in Range(conf.lists[k][p]) : r.program = n) =>
                  Renamed(conf.lists[k][p]) = conf.lists[k][p]
  BY <1>2, RenamedList
<1> HIDE DEF Renamed
<1>4. \A k \in Kinds, q \in ProgNames :
        L[k][q] = IF q = p THEN Renamed(conf.lists[k][p]) ELSE conf.lists[k][q]
  BY <1>2
<1>5. L \in [Kinds -> [ProgNames -> Seq(AbstractRules)]]
  BY <1>2, <1>3
<1>6. ASSUME \A k \in Kinds : \A r \in Range(conf.lists[k][p]) : r.program = n
      PROVE  L = conf.lists
  <2>1. \A k \in Kinds : L[k] = conf.lists[k]
    BY <1>2, <1>3, <1>6
  <2> QED
    BY <2>1, <1>2
<1> HIDE DEF L
<1>7. /\ conf' \in Configurations /\ conf'.lists = L
      /\ conf'.domains = conf.domains /\ conf'.default = conf.default
      /\ L = conf.lists => conf' = conf
  BY <1>1, <1>2, <1>5 DEF Configurations
<1>8. Ordered(conf')
  BY <1>2, <1>3, <1>4, <1>7 DEF Ordered
<1> QED
  BY <1>6, <1>7, <1>8

\* A program that comes or goes has its rules already.
LEMMA SameProgramStep ==
  ASSUME EditInv, NEW p \in ProgNames, SetProgram(p, p), programs' \in SUBSET ProgNames,
         UNCHANGED <<idCounter, moved, loose>>
  PROVE  EditInv'
<1>1. Good(conf, programs, idCounter, moved, loose)
  BY EditInvIs
<1>2. /\ Ordered(conf') /\ conf'.domains = conf.domains /\ conf'.default = conf.default
      /\ (\A k \in Kinds : \A r \in Range(conf.lists[k][p]) : r.program = p) => conf' = conf
  BY <1>1, SetProgramFacts DEF Good
<1>3. ~moved => conf' = conf
  BY <1>1, <1>2 DEF Good, Kept, Neat
<1> QED
  BY <1>1, <1>2, <1>3, EditInvNext DEF Good

\* updateProgram keeps EditInv: rules that get another name set moved.
LEMMA UpdateProgramStep ==
  ASSUME EditInv, NEW o \in ProgNames, NEW n \in ProgNames, UpdateProgram(o, n)
  PROVE  EditInv'
<1>1. Good(conf, programs, idCounter, moved, loose)
  BY EditInvIs
<1>2. /\ SetProgram(o, n) /\ moved' = (moved \/ Renames(o, n))
      /\ idCounter' = idCounter /\ loose' = loose
      /\ programs' \in SUBSET ProgNames
  BY <1>1 DEF UpdateProgram, Good
<1>3. /\ Ordered(conf') /\ conf'.domains = conf.domains /\ conf'.default = conf.default
      /\ (\A k \in Kinds : \A r \in Range(conf.lists[k][o]) : r.program = n) => conf' = conf
  BY <1>1, <1>2, SetProgramFacts DEF Good
<1>4. moved' \in BOOLEAN /\ (~moved' => conf' = conf /\ ~moved)
  BY <1>2, <1>3 DEF Renames
<1> QED
  BY <1>1, <1>2, <1>3, <1>4, EditInvNext DEF Good

-----------------------------------------------------------------------------
(* Lists by priority.                                                      *)

\* Each priority is greater than those before.
Rising(s) == \A i, j \in DOMAIN s : i < j => s[i].priority < s[j].priority

\* Two such lists with the same elements agree as far as the first goes.
LEMMA RisingPrefix ==
  ASSUME NEW S, \A x \in S : x.priority \in Nat, NEW s \in Seq(S), NEW t \in Seq(S),
         Rising(s), Rising(t), Range(s) = Range(t)
  PROVE  Len(s) <= Len(t) /\ \A i \in 1..Len(s) : s[i] = t[i]
<1>1. /\ Len(s) \in Nat /\ DOMAIN s = 1..Len(s) /\ \A i \in 1..Len(s) : s[i].priority \in Nat
      /\ Len(t) \in Nat /\ DOMAIN t = 1..Len(t) /\ \A i \in 1..Len(t) : t[i].priority \in Nat
  BY LenProperties, ElementOfSeq
<1>2. /\ \A i \in 1..Len(s) : \E m \in 1..Len(t) : s[i] = t[m]
      /\ \A i \in 1..Len(t) : \E m \in 1..Len(s) : t[i] = s[m]
  <2>1. /\ \A x : x \in Range(s) <=> \E i \in 1..Len(s) : s[i] = x
        /\ \A x : x \in Range(t) <=> \E i \in 1..Len(t) : t[i] = x
    BY <1>1 DEF Range
  <2> QED
    BY <2>1
<1>3. /\ \A i, j \in 1..Len(s) : i < j => s[i].priority < s[j].priority
      /\ \A i, j \in 1..Len(t) : i < j => t[i].priority < t[j].priority
  BY <1>1 DEF Rising
<1> DEFINE I == {i \in 0..Len(s) : i <= Len(t) /\ \A j \in 1..i : s[j] = t[j]}
<1>4. 0 \in I
  BY <1>1
<1>5. ASSUME NEW i \in 0..Len(s)-1, i \in I PROVE i + 1 \in I
  <2>1. i + 1 \in 1..Len(s) /\ i <= Len(t) /\ \A j \in 1..i : s[j] = t[j] /\ j \in 1..Len(s)
    BY <1>1, <1>5
  <2>2. PICK m \in 1..Len(t) : s[i+1] = t[m]
    BY <2>1, <1>2
  <2>3. ~(m \in 1..i)
    <3>1. ASSUME m \in 1..i PROVE FALSE
      <4>1. s[m] = s[i+1] /\ m < i + 1 /\ m \in 1..Len(s)
        BY <3>1, <2>1, <2>2, <1>1
      <4>2. s[m].priority < s[i+1].priority
        BY <4>1, <2>1, <1>3
      <4> QED
        BY <4>1, <4>2, <2>1, <1>1
    <3> QED
      BY <3>1
  <2>4. i + 1 <= m /\ i + 1 \in 1..Len(t)
    BY <2>1, <2>2, <2>3, <1>1
  <2>5. PICK n \in 1..Len(s) : t[i+1] = s[n]
    BY <2>4, <1>2
  <2>6. ~(n \in 1..i)
    <3>1. ASSUME n \in 1..i PROVE FALSE
      <4>1. t[n] = t[i+1] /\ n < i + 1 /\ n \in 1..Len(t)
        BY <3>1, <2>1, <2>5, <1>1
      <4>2. t[n].priority < t[i+1].priority
        BY <4>1, <2>4, <1>3
      <4> QED
        BY <4>1, <4>2, <2>4, <1>1
    <3> QED
      BY <3>1
  <2>7. i + 1 <= n
    BY <2>5, <2>6, <1>1
  <2>8. CASE m = i + 1
    <3>1. \A j \in 1..i+1 : j \in 1..i \/ j = i + 1
      BY <2>1
    <3> QED
      BY <3>1, <2>1, <2>2, <2>4, <2>8, <1>1
  <2>9. CASE i + 1 < m
    <3>1. t[i+1].priority < s[i+1].priority
      BY <2>2, <2>4, <2>9, <1>3
    <3>2. CASE n = i + 1
      BY <3>1, <3>2, <2>1, <2>5, <1>1
    <3>3. CASE i + 1 < n
      <4>1. s[i+1].priority < t[i+1].priority
        BY <2>1, <2>5, <3>3, <1>3
      <4> QED
        BY <4>1, <3>1, <2>1, <2>4, <1>1
    <3> QED
      BY <3>2, <3>3, <2>5, <2>7, <1>1
  <2> QED
    BY <2>2, <2>4, <2>8, <2>9, <1>1
<1> HIDE DEF I
<1>6. Len(s) \in I
  <2>1. \A i \in 0..Len(s) : i \in I
    BY <1>1, <1>4, <1>5, UpTo
  <2> QED
    BY <2>1, <1>1
<1> QED
  BY <1>6 DEF I

\* So they are the same.
LEMMA RisingSame ==
  ASSUME NEW S, \A x \in S : x.priority \in Nat, NEW s \in Seq(S), NEW t \in Seq(S),
         Rising(s), Rising(t), Range(s) = Range(t)
  PROVE  s = t
<1>1. Len(s) \in Nat /\ Len(t) \in Nat
  BY LenProperties
<1>2. Len(s) <= Len(t) /\ \A i \in 1..Len(s) : s[i] = t[i]
  BY RisingPrefix
<1>3. Len(t) <= Len(s)
  BY RisingPrefix
<1>4. Len(s) = Len(t)
  BY <1>1, <1>2, <1>3
<1> QED
  BY <1>2, <1>4, SeqEqual

\* The places before j, by priority.
Before(s, j) ==
  {i \in DOMAIN s : \/ s[i].priority < s[j].priority
                    \/ s[i].priority = s[j].priority /\ i < j}

\* ByPriority puts them in this order.
LEMMA ByPriorityFacts ==
  ASSUME NEW S, \A x \in S : x.priority \in Nat, NEW s \in Seq(S),
         \A i, j \in DOMAIN s : s[i].priority = s[j].priority => i = j,
         NEW w, w = ByPriority(s)
  PROVE  w \in Seq(S) /\ Rising(w) /\ Range(w) = Range(s)
<1>1. PICK n : n = Len(s)
  OBVIOUS
<1>2. n \in Nat /\ DOMAIN s = 1..n /\ \A i \in 1..n : s[i] \in S /\ s[i].priority \in Nat
  BY <1>1, LenProperties, ElementOfSeq
<1> DEFINE rank == [j \in 1..n |-> Cardinality(Before(s, j)) + 1]
<1>3. IsFiniteSet(1..n) /\ Cardinality(1..n) = n
  BY <1>2, FS_Interval
<1>4. ASSUME NEW j \in 1..n
      PROVE  IsFiniteSet(Before(s, j)) /\ rank[j] \in 1..n /\ Cardinality(Before(s, j)) \in Nat
  <2>1. Before(s, j) \in SUBSET (1..n) /\ j \notin Before(s, j)
    BY <1>2 DEF Before
  <2>2. /\ IsFiniteSet(Before(s, j)) /\ Cardinality(Before(s, j)) <= n
        /\ n = Cardinality(Before(s, j)) => 1..n = Before(s, j)
    <3>1. PICK A, B : A = 1..n /\ B = Before(s, j)
      OBVIOUS
    <3>2. IsFiniteSet(A) /\ B \in SUBSET A /\ Cardinality(A) = n
      BY <3>1, <2>1, <1>3
    <3>3. IsFiniteSet(B) /\ Cardinality(B) <= Cardinality(A) /\ (Cardinality(A) = Cardinality(B) => A = B)
      BY <3>2, FS_Subset
    <3> QED
      BY <3>1, <3>2, <3>3
  <2>3. Cardinality(Before(s, j)) \in Nat /\ n # Cardinality(Before(s, j))
    BY <2>1, <2>2, FS_CardinalityType
  <2> QED
    BY <2>2, <2>3, <1>2
<1>5. ASSUME NEW i \in 1..n, NEW j \in 1..n, s[i].priority < s[j].priority
      PROVE  rank[i] < rank[j]
  <2>1. Before(s, i) \in SUBSET Before(s, j) /\ i \in Before(s, j) /\ i \notin Before(s, i)
    BY <1>2, <1>5 DEF Before
  <2>2. /\ Cardinality(Before(s, i)) <= Cardinality(Before(s, j))
        /\ Cardinality(Before(s, j)) = Cardinality(Before(s, i)) => Before(s, j) = Before(s, i)
    BY <2>1, <1>4, FS_Subset
  <2>3. Cardinality(Before(s, i)) # Cardinality(Before(s, j))
    BY <2>1, <2>2
  <2> QED
    BY <2>2, <2>3, <1>4
<1>6. ASSUME NEW i \in 1..n, NEW j \in 1..n
      PROVE  /\ rank[i] = rank[j] => i = j
             /\ rank[i] < rank[j] => s[i].priority < s[j].priority
  <2>0. rank[i] \in 1..n /\ rank[j] \in 1..n /\ s[i].priority \in Nat /\ s[j].priority \in Nat
    BY <1>2, <1>4
  <2> HIDE DEF rank
  <2>1. CASE s[i].priority < s[j].priority
    BY <2>0, <2>1, <1>5, <1>2
  <2>2. CASE s[j].priority < s[i].priority
    <3>1. rank[j] < rank[i]
      BY <2>2, <1>5
    <3> QED
      BY <2>0, <3>1, <1>2
  <2>3. CASE s[i].priority = s[j].priority
    <3>1. i = j
      BY <2>3, <1>2
    <3> QED
      BY <3>1, <2>0, <1>2
  <2> QED
    BY <2>0, <2>1, <2>2, <2>3
<1>7. rank \in [1..n -> 1..n]
  BY <1>4
<1>Sorted. w = [m \in 1..n |-> s[CHOOSE j \in 1..n : Cardinality(Before(s, j)) + 1 = m]]
  BY <1>2 DEF ByPriority, Before
<1>Ranks. \A j \in 1..n : rank[j] = Cardinality(Before(s, j)) + 1
  OBVIOUS
<1> HIDE DEF rank
<1>8. \A m \in 1..n : \E j \in 1..n : rank[j] = m
  <2>1. PICK f : f = rank
    OBVIOUS
  <2>2. f \in Injection(1..n, 1..n)
    BY <2>1, <1>6, <1>7 DEF Injection, IsInjective
  <2>3. f \in Surjection(1..n, 1..n)
    BY <2>2, <1>3, FS_Injection
  <2> QED
    BY <2>1, <2>3 DEF Surjection
<1> DEFINE at(m) == CHOOSE j \in 1..n : rank[j] = m
<1>9. ASSUME NEW m \in 1..n PROVE at(m) \in 1..n /\ rank[at(m)] = m /\ w[m] = s[at(m)]
  <2>1. at(m) \in 1..n /\ rank[at(m)] = m
    BY <1>8
  <2>2. at(m) = CHOOSE j \in 1..n : Cardinality(Before(s, j)) + 1 = m
    BY <1>Ranks
  <2> QED
    BY <2>1, <2>2, <1>Sorted
<1> HIDE DEF at
<1>10. w \in [1..n -> S]
  <2>1. \A m \in 1..n : w[m] \in S
    BY <1>2, <1>9
  <2>2. w = [m \in 1..n |-> w[m]]
    BY <1>Sorted
  <2> QED
    BY <2>1, <2>2
<1>11. w \in Seq(S) /\ DOMAIN w = 1..n
  BY <1>2, <1>10, SeqOfFunction
<1>12. Rising(w)
  <2> SUFFICES ASSUME NEW i \in 1..n, NEW j \in 1..n, i < j
               PROVE  w[i].priority < w[j].priority
    BY <1>11 DEF Rising
  <2>1. rank[at(i)] < rank[at(j)] /\ at(i) \in 1..n /\ at(j) \in 1..n
    BY <1>9
  <2> QED
    BY <2>1, <1>6, <1>9
<1>13. Range(w) = Range(s)
  <2>1. \A m \in 1..n : w[m] \in Range(s)
    BY <1>2, <1>9 DEF Range
  <2>2. ASSUME NEW j \in 1..n PROVE s[j] \in Range(w)
    <3>1. rank[j] \in 1..n
      BY <1>7
    <3>2. at(rank[j]) = j
      BY <3>1, <1>6, <1>9
    <3> QED
      BY <3>1, <3>2, <1>9, <1>11 DEF Range
  <2>3. /\ \A x : x \in Range(w) <=> \E i \in 1..n : w[i] = x
        /\ \A x : x \in Range(s) <=> \E i \in 1..n : s[i] = x
    BY <1>2, <1>11 DEF Range
  <2> QED
    BY <2>1, <2>2, <2>3
<1> QED
  BY <1>11, <1>12, <1>13

-----------------------------------------------------------------------------
(* Reading transitions.xml.                                                *)

\* Append, with its definition hidden.
Push(s, x) == Append(s, x)

\* One more element at the end of a list.
LEMMA PushFacts ==
  ASSUME NEW S, \A x \in S : x.priority \in Nat, NEW s \in Seq(S), NEW x \in S, NEW w, w = Push(s, x)
  PROVE  /\ w \in Seq(S) /\ Range(w) = Range(s) \cup {x}
         /\ Rising(s) /\ (\A y \in Range(s) : y.priority < x.priority) => Rising(w)
<1>1. /\ w \in Seq(S) /\ Len(w) = Len(s) + 1
      /\ \A i \in 1..Len(s) : w[i] = s[i]
      /\ w[Len(s) + 1] = x
  BY AppendProperties DEF Push
<1>2. Len(s) \in Nat /\ DOMAIN s = 1..Len(s) /\ DOMAIN w = 1..Len(s)+1
  BY <1>1, LenProperties
<1>3. \A i : i \in 1..Len(s)+1 <=> i \in 1..Len(s) \/ i = Len(s) + 1
  BY <1>2
<1>4. Range(w) = Range(s) \cup {x}
  <2>1. /\ \A y : y \in Range(w) <=> \E i \in 1..Len(s)+1 : w[i] = y
        /\ \A y : y \in Range(s) <=> \E i \in 1..Len(s) : s[i] = y
    BY <1>2 DEF Range
  <2>2. ASSUME NEW y \in Range(w) PROVE y \in Range(s) \cup {x}
    BY <2>1, <1>1, <1>3
  <2>3. ASSUME NEW y \in Range(s) PROVE y \in Range(w)
    BY <2>1, <1>1, <1>3
  <2>4. x \in Range(w)
    BY <2>1, <1>1, <1>3
  <2> QED
    BY <2>2, <2>3, <2>4
<1>5. ASSUME Rising(s), \A y \in Range(s) : y.priority < x.priority PROVE Rising(w)
  <2> SUFFICES ASSUME NEW i \in 1..Len(s)+1, NEW j \in 1..Len(s)+1, i < j
               PROVE  w[i].priority < w[j].priority
    BY <1>2 DEF Rising
  <2>1. i \in 1..Len(s) /\ w[i] = s[i]
    BY <1>1, <1>2
  <2>2. CASE j \in 1..Len(s)
    BY <2>1, <2>2, <1>1, <1>2, <1>5 DEF Rising
  <2>3. CASE j = Len(s) + 1
    <3>1. s[i] \in Range(s)
      BY <2>1, <1>2 DEF Range
    <3> QED
      BY <3>1, <2>1, <2>3, <1>1, <1>5
  <2> QED
    BY <2>2, <2>3, <1>3
<1> QED
  BY <1>1, <1>4, <1>5

\* f has the list of the elements of d at the places in W, as it grows.
Picks(f, d, W, C) ==
  /\ f \in [0..Len(d) -> C]
  /\ f[0] = <<>>
  /\ \A i \in 1..Len(d) : f[i] = IF i \in W THEN Push(f[i-1], d[i]) ELSE f[i-1]

\* There are such lists.
LEMMA PicksExist ==
  ASSUME NEW S, NEW C, C = Seq(S), NEW d \in C, NEW W
  PROVE  \E f : Picks(f, d, W, C)
<1>1. PICK m, z : m = Len(d) /\ z = <<>>
  OBVIOUS
<1>2. m \in Nat /\ (\A i \in 1..m : d[i] \in S) /\ z \in C
  BY <1>1, LenProperties, ElementOfSeq, EmptySeq
<1>3. \A s \in C, i \in 1..m : Push(s, d[i]) \in C
  <2>1. \A s \in Seq(S), x \in S : Append(s, x) \in Seq(S)
    BY AppendProperties
  <2> QED
    BY <2>1, <1>2 DEF Push
<1> DEFINE F == [x \in C \X (1..m) |-> IF x[2] \in W THEN Push(x[1], d[x[2]]) ELSE x[1]]
<1>4. F \in [C \X (1..m) -> C]
  BY <1>3
<1>5. PICK g \in [0..m -> C] : g[0] = z /\ \A i \in 1..m : g[i] = F[<<g[i-1], i>>]
  <2> HIDE DEF F
  <2>1. PICK G : G = F
    OBVIOUS
  <2>2. G \in [C \X (1..m) -> C]
    BY <1>4, <2>1
  <2>3. PICK g : Recursive(g, m, C, z, G)
    BY <2>2, <1>2, Recursion
  <2> QED
    BY <2>1, <2>3 DEF Recursive
<1>6. ASSUME NEW i \in 1..m PROVE g[i] = IF i \in W THEN Push(g[i-1], d[i]) ELSE g[i-1]
  <2>1. i - 1 \in 0..m
    BY <1>2
  <2>2. <<g[i-1], i>> \in C \X (1..m)
    BY <2>1, <1>5
  <2>3. g[i] = F[<<g[i-1], i>>]
    BY <1>5
  <2> QED
    BY <2>2, <2>3
<1>7. Picks(g, d, W, C)
  BY <1>1, <1>5, <1>6 DEF Picks
<1> QED
  BY <1>7

\* g grows in the same way, whatever its domain.
Grows(g, d, W, m) ==
  /\ g[0] = <<>>
  /\ \A i \in 1..m : g[i] = IF i \in W THEN Push(g[i-1], d[i]) ELSE g[i-1]

\* Two of them are the same in the end.
LEMMA PicksSame ==
  ASSUME NEW C, NEW d, NEW W, NEW f, NEW m \in Nat, m = Len(d), Picks(f, d, W, C), NEW g,
         Grows(g, d, W, m)
  PROVE  g[m] = f[m]
<1> USE DEF Grows
<1> DEFINE I == {i \in 0..m : g[i] = f[i]}
<1>1. 0 \in I
  BY DEF Picks
<1>2. ASSUME NEW i \in 0..m-1, i \in I PROVE i + 1 \in I
  <2>1. i + 1 \in 1..m /\ i + 1 - 1 = i /\ i + 1 \in 0..m /\ g[i] = f[i]
    BY <1>2
  <2>2. f[i+1] = IF i + 1 \in W THEN Push(f[i], d[i+1]) ELSE f[i]
    BY <2>1 DEF Picks
  <2>3. g[i+1] = IF i + 1 \in W THEN Push(g[i], d[i+1]) ELSE g[i]
    BY <2>1
  <2> QED
    BY <2>1, <2>2, <2>3
<1> HIDE DEF I
<1>3. \A i \in 0..m : i \in I
  BY <1>1, <1>2, UpTo
<1> QED
  BY <1>3 DEF I

\* v has the elements of d at the places in W, in the order of their priorities.
Collects(v, d, W, S) ==
  v \in Seq(S) /\ Rising(v) /\ Range(v) = {d[i] : i \in W}

\* The list has the elements, in their order.
LEMMA PicksFacts ==
  ASSUME NEW S, \A x \in S : x.priority \in Nat, NEW d \in Seq(S), NEW W \in SUBSET (1..Len(d)),
         \A i, j \in W : i < j => d[i].priority < d[j].priority,
         NEW C, C = Seq(S), NEW f, Picks(f, d, W, C), NEW v, v = f[Len(d)]
  PROVE  Collects(v, d, W, S)
<1>1. PICK m : m = Len(d)
  OBVIOUS
<1>2. m \in Nat /\ \A i \in 1..m : d[i] \in S
  BY <1>1, LenProperties, ElementOfSeq
<1> DEFINE Got(i) == {d[j] : j \in {h \in 1..i : h \in W}}
           I == {i \in 0..m : Rising(f[i]) /\ Range(f[i]) = Got(i)}
<1>3. /\ f \in [0..m -> C] /\ f[0] = <<>> /\ v = f[m]
      /\ \A i \in 1..m : f[i] = IF i \in W THEN Push(f[i-1], d[i]) ELSE f[i-1]
  BY <1>1 DEF Picks
<1>4. 0 \in I
  <2>1. f[0] = <<>> /\ 0 \in 0..m /\ 1..0 = {}
    BY <1>2, <1>3
  <2>2. Rising(<<>>) /\ Range(<<>>) = {}
    BY DEF Rising, Range
  <2>3. Got(0) = {}
    BY <2>1
  <2> HIDE DEF Got
  <2> QED
    BY <2>1, <2>2, <2>3
<1>5. ASSUME NEW i \in 0..m-1, i \in I PROVE i + 1 \in I
  <2>1. i + 1 \in 1..m /\ i + 1 - 1 = i /\ i + 1 \in 0..m /\ i \in 0..m
    BY <1>2
  <2>2. Rising(f[i]) /\ Range(f[i]) = Got(i) /\ f[i] \in Seq(S)
    BY <2>1, <1>3, <1>5
  <2>3. \A j : j \in 1..i+1 <=> j \in 1..i \/ j = i + 1
    BY <2>1
  <2>4. CASE i + 1 \in W
    <3>1. f[i+1] = Push(f[i], d[i+1])
      BY <2>1, <2>4, <1>3
    <3>2. PICK s, x, w : s = f[i] /\ x = d[i+1] /\ w = f[i+1]
      OBVIOUS
    <3>3. s \in Seq(S) /\ x \in S /\ w = Push(s, x)
      BY <3>1, <3>2, <2>1, <2>2, <1>2
    <3>4. /\ Range(w) = Range(s) \cup {x}
          /\ Rising(s) /\ (\A y \in Range(s) : y.priority < x.priority) => Rising(w)
      BY <3>3, PushFacts
    <3>5. \A y \in Got(i) : y.priority < x.priority
      <4>1. ASSUME NEW j \in 1..i, j \in W PROVE d[j].priority < d[i+1].priority
        <5>1. j < i + 1
          BY <2>1
        <5> QED
          BY <5>1, <4>1, <2>4
      <4> QED
        BY <4>1, <3>2
    <3>6. Got(i + 1) = Got(i) \cup {x}
      BY <2>3, <2>4, <3>2
    <3> HIDE DEF Got
    <3> QED
      BY <3>2, <3>4, <3>5, <3>6, <2>1, <2>2
  <2>5. CASE i + 1 \notin W
    <3>1. f[i+1] = f[i]
      BY <2>1, <2>5, <1>3
    <3>2. Got(i + 1) = Got(i)
      BY <2>3, <2>5
    <3> HIDE DEF Got
    <3> QED
      BY <3>1, <3>2, <2>1, <2>2
  <2> QED
    BY <2>4, <2>5
<1> HIDE DEF I
<1>6. m \in I
  <2>1. \A i \in 0..m : i \in I
    BY <1>2, <1>4, <1>5, UpTo
  <2> QED
    BY <2>1, <1>2
<1>7. Rising(v) /\ Range(v) = Got(m) /\ v \in C
  BY <1>2, <1>3, <1>6 DEF I
<1>8. Got(m) = {d[i] : i \in W}
  BY <1>1
<1> HIDE DEF Got
<1> QED
  BY <1>7, <1>8 DEF Collects

\* Where the two lists that are picked have something, it comes from the same place.
Parallel(s, t, d, e) ==
  /\ Len(s) = Len(t)
  /\ \A n \in 1..Len(s) : \E j \in 1..Len(d) : s[n] = d[j] /\ t[n] = e[j]

\* One more element for each of them.
LEMMA PushParallel ==
  ASSUME NEW S, NEW T, NEW s \in Seq(S), NEW t \in Seq(T), NEW d, NEW e, Parallel(s, t, d, e),
         NEW j \in 1..Len(d), d[j] \in S, e[j] \in T, NEW v, NEW w, v = Push(s, d[j]), w = Push(t, e[j])
  PROVE  Parallel(v, w, d, e)
<1>1. /\ Len(v) = Len(s) + 1 /\ v[Len(s) + 1] = d[j]
      /\ \A i \in 1..Len(s) : v[i] = s[i]
  BY AppendProperties DEF Push
<1>2. /\ Len(w) = Len(t) + 1 /\ w[Len(t) + 1] = e[j]
      /\ \A i \in 1..Len(t) : w[i] = t[i]
  BY AppendProperties DEF Push
<1>3. Len(s) \in Nat /\ Len(s) = Len(t) /\ \A n \in 1..Len(s)+1 : n \in 1..Len(s) \/ n = Len(s) + 1
  BY LenProperties DEF Parallel
<1>4. ASSUME NEW n \in 1..Len(s)+1 PROVE \E h \in 1..Len(d) : v[n] = d[h] /\ w[n] = e[h]
  <2>1. CASE n = Len(s) + 1
    BY <2>1, <1>1, <1>2, <1>3
  <2>2. CASE n \in 1..Len(s)
    BY <2>2, <1>1, <1>2, <1>3 DEF Parallel
  <2> QED
    BY <2>1, <2>2, <1>3
<1> QED
  BY <1>1, <1>2, <1>3, <1>4 DEF Parallel

\* What is picked at the same places of two lists.
LEMMA PicksParallel ==
  ASSUME NEW S, NEW T, NEW C, NEW D, C = Seq(S), D = Seq(T), NEW d \in C, NEW e \in D, NEW m \in Nat,
         m = Len(d), m = Len(e), NEW W, NEW f, NEW g, Picks(f, d, W, C), Picks(g, e, W, D)
  PROVE  Parallel(f[m], g[m], d, e)
<1> DEFINE I == {i \in 0..m : Parallel(f[i], g[i], d, e)}
<1>1. /\ \A i \in 1..m : d[i] \in S /\ e[i] \in T
      /\ \A i \in 0..m : f[i] \in C /\ g[i] \in D
  <2>1. \A i \in 1..m : d[i] \in S /\ e[i] \in T
    BY ElementOfSeq
  <2> QED
    BY <2>1 DEF Picks
<1>2. 0 \in I
  <2>1. f[0] = <<>> /\ g[0] = <<>> /\ Len(<<>>) = 0
    BY EmptySeq DEF Picks
  <2>2. Parallel(f[0], g[0], d, e)
    BY <2>1 DEF Parallel
  <2> QED
    BY <2>2
<1>3. ASSUME NEW i \in 0..m-1, i \in I PROVE i + 1 \in I
  <2>1. i + 1 \in 1..m /\ i + 1 - 1 = i /\ i + 1 \in 0..m /\ i \in 0..m
    BY <1>3
  <2>2. /\ f[i+1] = IF i + 1 \in W THEN Push(f[i], d[i+1]) ELSE f[i]
        /\ g[i+1] = IF i + 1 \in W THEN Push(g[i], e[i+1]) ELSE g[i]
    BY <2>1 DEF Picks
  <2>3. Parallel(f[i], g[i], d, e)
    BY <1>3
  <2>4. CASE i + 1 \in W
    <3>1. PICK s, t, v, w, j : s = f[i] /\ t = g[i] /\ v = f[i+1] /\ w = g[i+1] /\ j = i + 1
      OBVIOUS
    <3>2. /\ s \in Seq(S) /\ t \in Seq(T) /\ Parallel(s, t, d, e)
          /\ j \in 1..Len(d) /\ d[j] \in S /\ e[j] \in T /\ v = Push(s, d[j]) /\ w = Push(t, e[j])
      BY <3>1, <2>1, <2>2, <2>3, <2>4, <1>1
    <3>3. Parallel(v, w, d, e)
      BY <3>2, PushParallel
    <3> QED
      BY <3>1, <3>3, <2>1
  <2>5. CASE i + 1 \notin W
    BY <2>1, <2>2, <2>3, <2>5
  <2> QED
    BY <2>4, <2>5
<1> HIDE DEF I
<1>4. \A i \in 0..m : i \in I
  BY <1>2, <1>3, UpTo
<1> QED
  BY <1>4 DEF I

\* The numbers that parseTransitionsFile gives to what it creates rise.
LEMMA NumberFacts ==
  ASSUME NEW doc, NEW S, doc.rules \in Seq(S), NEW n \in Nat
  PROVE  /\ Created(doc) \in SUBSET (1..Len(doc.rules))
         /\ Cardinality(Created(doc)) \in Nat
         /\ \A i \in 1..Len(doc.rules) : Number(doc, n, i) \in Nat
         /\ \A i \in Created(doc) : Number(doc, n, i) \in n+1..n+Cardinality(Created(doc))
         /\ \A i, j \in Created(doc) : i < j => Number(doc, n, i) < Number(doc, n, j)
<1>1. PICK m, W : m = Len(doc.rules) /\ W = Created(doc)
  OBVIOUS
<1>2. m \in Nat /\ W \in SUBSET (1..m)
  BY <1>1, LenProperties DEF Created
<1>3. IsFiniteSet(W)
  <2>1. IsFiniteSet(1..m)
    BY <1>2, FS_Interval
  <2> QED
    BY <2>1, <1>2, FS_Subset
<1>4. Cardinality(W) \in Nat
  BY <1>3, FS_CardinalityType
<1> DEFINE Upto(i) == {j \in W : j <= i}
<1>5. \A i \in 1..m : Number(doc, n, i) = n + Cardinality(Upto(i))
  BY <1>1 DEF Number
<1>6. ASSUME NEW i \in 1..m
      PROVE  IsFiniteSet(Upto(i)) /\ Cardinality(Upto(i)) \in Nat /\ Cardinality(Upto(i)) <= Cardinality(W)
  <2>1. PICK U : U = Upto(i)
    OBVIOUS
  <2>2. U \in SUBSET W
    BY <2>1
  <2>3. IsFiniteSet(U) /\ Cardinality(U) <= Cardinality(W)
    BY <2>2, <1>3, FS_Subset
  <2>4. Cardinality(U) \in Nat
    BY <2>3, FS_CardinalityType
  <2> QED
    BY <2>1, <2>3, <2>4
<1>7. ASSUME NEW i \in 1..m, i \in W PROVE Cardinality(Upto(i)) > 0
  <2>1. PICK U : U = Upto(i)
    OBVIOUS
  <2>2. i \in U
    BY <2>1, <1>7
  <2>3. IsFiniteSet(U) /\ Cardinality(U) \in Nat
    BY <2>1, <1>6
  <2>4. Cardinality(U) # 0
    BY <2>2, <2>3, FS_EmptySet
  <2> QED
    BY <2>1, <2>3, <2>4
<1>8. ASSUME NEW i \in 1..m, NEW j \in 1..m, j \in W, i < j
      PROVE  Cardinality(Upto(i)) < Cardinality(Upto(j))
  <2>1. PICK U, V : U = Upto(i) /\ V = Upto(j)
    OBVIOUS
  <2>2. U \in SUBSET V /\ j \in V /\ j \notin U
    <3>1. ASSUME NEW x \in U PROVE x \in V
      <4>1. x \in W /\ x <= i /\ x \in 1..m
        BY <2>1, <1>2, <3>1
      <4>2. x <= j
        BY <4>1, <1>2, <1>8
      <4> QED
        BY <4>1, <4>2, <2>1
    <3>2. j \in V /\ j \notin U
      BY <2>1, <1>2, <1>8
    <3> QED
      BY <3>1, <3>2
  <2>3. IsFiniteSet(V) /\ Cardinality(V) \in Nat /\ Cardinality(U) \in Nat
    BY <2>1, <1>6
  <2>4. Cardinality(U) <= Cardinality(V) /\ (Cardinality(V) = Cardinality(U) => V = U)
    BY <2>2, <2>3, FS_Subset
  <2> QED
    BY <2>1, <2>2, <2>3, <2>4
<1> HIDE DEF Upto
<1> QED
  BY <1>1, <1>2, <1>4, <1>5, <1>6, <1>7, <1>8

\* The rules that are read, before their numbers are known to be small.
ReadRules == [id : Nat, priority : Nat, program : ProgNames, to : Names \cup {NoDomain},
              trules : Seq(TRules), mrules : SUBSET MRules]

\* All of them, in the order of the file.
ReadAll(doc, n) == [i \in DOMAIN doc.rules |-> ReadRule(doc, n, i)]

\* Those that are created for the list of k and p.
Here(doc, k, p) ==
  {i \in Created(doc) : doc.rules[i].kind = k /\ doc.rules[i].program = p}

\* What ReadRule makes of an element.
LEMMA ReadFacts ==
  ASSUME NEW doc, doc.rules \in Seq(Elements), NEW n \in Nat, NEW i \in 1..Len(doc.rules),
         NEW x, x = ReadRule(doc, n, i), NEW e, e = doc.rules[i]
  PROVE  /\ x \in ReadRules /\ x.id = Number(doc, n, i) /\ x.priority = Number(doc, n, i)
         /\ x.program = e.program /\ x.to = e.to
         /\ x.trules = e.trules /\ x.mrules = e.mrules \ Unconditional
<1>1. e \in Elements
  BY ElementOfSeq
<1>2. Number(doc, n, i) \in Nat
  BY NumberFacts
<1> QED
  BY <1>1, <1>2 DEF ReadRule, ReadRules, Elements

\* They are a list as long as the file.
LEMMA ReadAllFacts ==
  ASSUME NEW doc, doc.rules \in Seq(Elements), NEW n \in Nat, NEW d, d = ReadAll(doc, n)
  PROVE  /\ d \in Seq(ReadRules) /\ Len(d) = Len(doc.rules)
         /\ \A i \in 1..Len(doc.rules) : d[i] = ReadRule(doc, n, i)
<1>1. PICK m : m = Len(doc.rules)
  OBVIOUS
<1>2. m \in Nat /\ DOMAIN doc.rules = 1..m
  BY <1>1, LenProperties
<1>3. d = [i \in 1..m |-> ReadRule(doc, n, i)]
  BY <1>2 DEF ReadAll
<1>4. \A i \in 1..m : d[i] = ReadRule(doc, n, i) /\ ReadRule(doc, n, i) \in ReadRules
  BY <1>1, <1>3, ReadFacts
<1>5. d \in [1..m -> ReadRules]
  BY <1>3, <1>4
<1>6. d \in Seq(ReadRules) /\ Len(d) = m
  BY <1>2, <1>5, SeqOfFunction
<1> QED
  BY <1>1, <1>4, <1>6

\* parseTransitionsFile reads one element after the other.
LEMMA ParseIs ==
  ASSUME NEW doc, doc.rules \in Seq(Elements), NEW n \in Nat, NEW k \in Kinds, NEW p \in ProgNames,
         NEW d, d = ReadAll(doc, n), NEW W, W = Here(doc, k, p), NEW C, C = Seq(ReadRules),
         NEW v, v = Parse(doc, n).lists[k][p]
  PROVE  \E f : Picks(f, d, W, C) /\ v = f[Len(d)]
<1>1. PICK m, z : m = Len(doc.rules) /\ z = <<>>
  OBVIOUS
<1>2. /\ m \in Nat /\ d \in C /\ Len(d) = m
      /\ \A i \in 1..m : d[i] = ReadRule(doc, n, i)
  BY <1>1, ReadAllFacts, LenProperties
<1>3. PICK f : Picks(f, d, W, C)
  BY <1>2, PicksExist
<1> DEFINE Body(g) == [i \in 0..m |-> IF i = 0 THEN z
                        ELSE IF i \in W THEN Push(g[i-1], ReadRule(doc, n, i)) ELSE g[i-1]]
           read == CHOOSE g : g = Body(g)
<1>4. v = read[m]
  BY <1>1 DEF Parse, Here, Push
<1>5. f = Body(f)
  <2>1. f \in [0..m -> C]
    BY <1>2, <1>3 DEF Picks
  <2>2. ASSUME NEW i \in 0..m
        PROVE  f[i] = IF i = 0 THEN z
                      ELSE IF i \in W THEN Push(f[i-1], ReadRule(doc, n, i)) ELSE f[i-1]
    <3>1. CASE i = 0
      BY <3>1, <1>1, <1>3 DEF Picks
    <3>2. CASE i # 0
      <4>1. i \in 1..m
        BY <3>2, <1>2
      <4> QED
        BY <4>1, <3>2, <1>2, <1>3 DEF Picks
    <3> QED
      BY <3>1, <3>2
  <2> QED
    BY <2>1, <2>2
<1>6. read = Body(read)
  <2> HIDE DEF Body
  <2> QED
    BY <1>5
<1> HIDE DEF read
<1>7. \A i \in 0..m : read[i] = IF i = 0 THEN z
                      ELSE IF i \in W THEN Push(read[i-1], ReadRule(doc, n, i)) ELSE read[i-1]
  BY <1>6
<1>8. /\ read[0] = <<>>
      /\ \A i \in 1..m : read[i] = IF i \in W THEN Push(read[i-1], d[i]) ELSE read[i-1]
  <2>1. 0 \in 0..m /\ \A i \in 1..m : i \in 0..m /\ i # 0
    BY <1>2
  <2> QED
    BY <2>1, <1>1, <1>2, <1>7
<1>9. read[m] = f[m]
  <2>1. PICK g : g = read
    OBVIOUS
  <2>2. Grows(g, d, W, m)
    BY <2>1, <1>8 DEF Grows
  <2> QED
    BY <2>1, <2>2, <1>2, <1>3, PicksSame
<1> QED
  BY <1>2, <1>3, <1>4, <1>9

\* The list v has the rules that are created for k and p, in the order of the file.
ListRead(v, doc, n, k, p) ==
  /\ v \in Seq(ReadRules) /\ Rising(v)
  /\ Range(v) = {ReadRule(doc, n, i) : i \in Here(doc, k, p)}

\* That is what parseTransitionsFile reads.
LEMMA ParseFacts ==
  ASSUME NEW doc, doc.rules \in Seq(Elements), NEW n \in Nat, NEW k \in Kinds, NEW p \in ProgNames,
         NEW v, v = Parse(doc, n).lists[k][p]
  PROVE  ListRead(v, doc, n, k, p)
<1>1. PICK d, W, C, S : d = ReadAll(doc, n) /\ W = Here(doc, k, p) /\ C = Seq(S) /\ S = ReadRules
  OBVIOUS
<1>2. PICK f : Picks(f, d, W, C) /\ v = f[Len(d)]
  BY <1>1, ParseIs
<1>3. d \in Seq(S) /\ Len(d) = Len(doc.rules) /\ \A i \in 1..Len(doc.rules) : d[i] = ReadRule(doc, n, i)
  BY <1>1, ReadAllFacts
<1>4. W \in SUBSET Created(doc) /\ W \in SUBSET (1..Len(doc.rules))
  BY <1>1, NumberFacts DEF Here
<1>5. ASSUME NEW i \in W, NEW j \in W, i < j PROVE d[i].priority < d[j].priority
  <2>1. Number(doc, n, i) < Number(doc, n, j)
    BY <1>4, <1>5, NumberFacts
  <2> QED
    BY <2>1, <1>3, <1>4, ReadFacts
<1>6. \A x \in S : x.priority \in Nat
  BY <1>1 DEF ReadRules
<1>7. Collects(v, d, W, S)
  <2>1. W \in SUBSET (1..Len(d))
    BY <1>3, <1>4
  <2> QED
    BY <2>1, <1>1, <1>2, <1>3, <1>5, <1>6, PicksFacts
<1>8. {d[i] : i \in W} = {ReadRule(doc, n, i) : i \in Here(doc, k, p)}
  BY <1>1, <1>3, <1>4
<1> QED
  BY <1>1, <1>7, <1>8 DEF Collects, ListRead

\* It gives a configuration with a list for each kind and program.
LEMMA ParseShape ==
  ASSUME NEW doc, NEW n, NEW c, c = Parse(doc, n)
  PROVE  c = [domains |-> c.domains, default |-> c.default,
              lists |-> [k \in Kinds |-> [p \in ProgNames |-> c.lists[k][p]]]]
<1> DEFINE W(k, p) == {i \in Created(doc) : doc.rules[i].kind = k /\ doc.rules[i].program = p}
           Of(k, p) ==
             LET read[i \in 0..Len(doc.rules)] ==
                   IF i = 0 THEN <<>>
                   ELSE IF i \in W(k, p) THEN Append(read[i-1], ReadRule(doc, n, i))
                   ELSE read[i-1]
             IN  read[Len(doc.rules)]
           rules == {i \in DOMAIN doc.rules : doc.rules[i].kind = "rule"}
           ds == doc.domains \cup {doc.rules[i].to : i \in rules}
<1>1. Parse(doc, n) = [domains |-> ds, default |-> doc.default,
                       lists |-> [k \in Kinds |-> [p \in ProgNames |-> Of(k, p)]]]
  BY Zenon DEF Parse
<1> HIDE DEF Of, ds
<1> QED
  BY <1>1

\* A file is opened, and EditInv holds of what is read: the numbers rise along the
\* file, so the lists are in order and the ids unique.
LEMMA OpenStep ==
  ASSUME EditInv, NEW doc \in Files, Open(doc)
  PROVE  EditInv'
<1>1. Good(conf, programs, idCounter, moved, loose)
  BY EditInvIs
<1>2. PICK n, c, K, ls : /\ n = idCounter /\ c = Parse(doc, n) /\ K = Cardinality(Created(doc))
                         /\ ls = UNION {Loose(doc.rules[i].trules, doc.domains) : i \in DOMAIN doc.rules}
  OBVIOUS
<1>3. /\ n + K <= MaxId /\ conf' = c /\ idCounter' = n + K /\ moved' = FALSE /\ loose' = ls
      /\ programs' = programs
  BY <1>2 DEF Open
<1>4. /\ doc.domains \in SUBSET Names /\ doc.rules \in Seq(Elements)
      /\ doc.default \in doc.domains \cup {NoDomain}
      /\ \A i \in DOMAIN doc.rules :
           doc.rules[i].to \in IF doc.rules[i].kind = "loop" THEN {NoDomain} ELSE doc.domains
  BY FilesType DEF Documents
<1>5. n \in Nat /\ MaxId \in Nat
  BY <1>1, <1>2, MaxIdType DEF Good
<1>6. DOMAIN doc.rules = 1..Len(doc.rules) /\ \A i \in DOMAIN doc.rules : doc.rules[i] \in Elements
  BY <1>4, LenProperties, ElementOfSeq
<1>7. /\ Created(doc) \in SUBSET (DOMAIN doc.rules) /\ K \in Nat
      /\ \A i \in Created(doc) : Number(doc, n, i) \in n+1..n+K
      /\ \A i, j \in Created(doc) : i < j => Number(doc, n, i) < Number(doc, n, j)
  BY <1>2, <1>4, <1>5, <1>6, NumberFacts
<1>8. \A i, j \in Created(doc) : Number(doc, n, i) = Number(doc, n, j) => i = j
  <2> SUFFICES ASSUME NEW i \in Created(doc), NEW j \in Created(doc), i # j
               PROVE  Number(doc, n, i) # Number(doc, n, j)
    OBVIOUS
  <2>1. i \in Nat /\ j \in Nat /\ Number(doc, n, i) \in Nat /\ Number(doc, n, j) \in Nat
    BY <1>5, <1>6, <1>7
  <2>2. CASE i < j
    BY <2>1, <2>2, <1>7
  <2>3. CASE j < i
    BY <2>1, <2>3, <1>7
  <2> QED
    BY <2>1, <2>2, <2>3
<1> DEFINE R(i) == ReadRule(doc, n, i)
<1>9. ASSUME NEW i \in Created(doc)
      PROVE  /\ R(i) \in AbstractRules
             /\ R(i).id = Number(doc, n, i) /\ R(i).priority = Number(doc, n, i)
             /\ R(i).program = doc.rules[i].program /\ R(i).to = doc.rules[i].to
             /\ R(i).trules = doc.rules[i].trules
             /\ R(i).id <= n + K /\ R(i).priority <= n + K
  <2>1. i \in 1..Len(doc.rules) /\ Number(doc, n, i) \in n+1..n+K
    BY <1>6, <1>7
  <2>2. Number(doc, n, i) \in Ids /\ Number(doc, n, i) <= n + K
    BY <2>1, <1>3, <1>5, <1>7 DEF Ids
  <2>3. PICK x, e : x = R(i) /\ e = doc.rules[i]
    OBVIOUS
  <2>4. /\ x \in ReadRules /\ x.id = Number(doc, n, i) /\ x.priority = Number(doc, n, i)
        /\ x.program = e.program /\ x.to = e.to /\ x.trules = e.trules
    <3>1. doc.rules \in Seq(Elements) /\ n \in Nat
      BY <1>4, <1>5
    <3>2. i \in 1..Len(doc.rules)
      BY <2>1
    <3>3. x = ReadRule(doc, n, i) /\ e = doc.rules[i]
      BY <2>3
    <3> HIDE DEF R
    <3> QED
      BY <3>1, <3>2, <3>3, ReadFacts
  <2>5. x \in AbstractRules
    BY <2>2, <2>4 DEF ReadRules, AbstractRules
  <2> QED
    BY <2>2, <2>3, <2>4, <2>5
<1> HIDE DEF R
<1>10. ASSUME NEW k \in Kinds, NEW p \in ProgNames, NEW v, v = c.lists[k][p]
       PROVE  /\ v \in Seq(AbstractRules) /\ InOrder(v) /\ OnceEach(v)
              /\ Range(v) = {R(i) : i \in Here(doc, k, p)}
  <2>1. v \in Seq(ReadRules) /\ Rising(v) /\ Range(v) = {R(i) : i \in Here(doc, k, p)}
    <3>1. ListRead(v, doc, n, k, p)
      BY <1>2, <1>4, <1>5, <1>10, ParseFacts
    <3> QED
      BY <3>1 DEF ListRead, R
  <2>2. Len(v) \in Nat /\ DOMAIN v = 1..Len(v) /\ v = [i \in 1..Len(v) |-> v[i]]
    BY <2>1, LenProperties
  <2>3. \A i \in 1..Len(v) : v[i] \in AbstractRules /\ v[i].id = v[i].priority /\ v[i].priority \in Nat
    <3>1. ASSUME NEW i \in 1..Len(v) PROVE \E j \in Created(doc) : v[i] = R(j)
      BY <2>1, <2>2 DEF Range, Here
    <3>2. ASSUME NEW j \in Created(doc)
          PROVE  R(j) \in AbstractRules /\ R(j).id = R(j).priority /\ R(j).priority \in Nat
      BY <1>9, RuleNumbers
    <3> QED
      BY <3>1, <3>2
  <2>4. v \in Seq(AbstractRules)
    <3>1. v \in [1..Len(v) -> AbstractRules]
      BY <2>2, <2>3
    <3> QED
      BY <3>1, <2>2, SeqOfFunction
  <2>5. InOrder(v)
    BY <2>1, <2>2, <2>3 DEF InOrder, Rising
  <2>6. OnceEach(v)
    <3> SUFFICES ASSUME NEW i \in 1..Len(v), NEW j \in 1..Len(v), v[i].id = v[j].id PROVE i = j
      BY <2>2 DEF OnceEach
    <3>1. v[i].priority = v[j].priority /\ v[i].priority \in Nat
      BY <2>3
    <3>2. ~(i < j) /\ ~(j < i)
      BY <3>1, <2>1, <2>2 DEF Rising
    <3> QED
      BY <3>2, <2>2
  <2> QED
    BY <2>1, <2>4, <2>5, <2>6
<1>11. c.domains = doc.domains /\ c.default = doc.default
  BY <1>2, <1>4 DEF Parse
<1>12. c \in Configurations
  <2>1. c = [domains |-> c.domains, default |-> c.default,
             lists |-> [k \in Kinds |-> [p \in ProgNames |-> c.lists[k][p]]]]
    BY <1>2, ParseShape
  <2>2. \A k \in Kinds, p \in ProgNames : c.lists[k][p] \in Seq(AbstractRules)
    BY <1>10
  <2>3. c.domains \in SUBSET Names /\ c.default \in Names \cup {NoDomain}
    BY <1>4, <1>11
  <2>4. [k \in Kinds |-> [p \in ProgNames |-> c.lists[k][p]]] \in [Kinds -> [ProgNames -> Seq(AbstractRules)]]
    BY <2>2
  <2> QED
    BY <2>1, <2>3, <2>4 DEF Configurations
<1>13. Ordered(c)
  BY <1>10, <1>12 DEF Ordered
<1>14. Neat(c)
  <2>1. ASSUME NEW k \in Kinds, NEW p \in ProgNames, NEW r \in Range(c.lists[k][p])
        PROVE  r.program = p
    <3>1. PICK i \in Here(doc, k, p) : r = R(i)
      BY <2>1, <1>10
    <3> QED
      BY <3>1, <1>9 DEF Here
  <2> QED
    BY <2>1, <1>10 DEF Neat
<1>15. ASSUME NEW k \in Kinds, NEW x \in Rules(c, k)
       PROVE  \E i \in Created(doc) : x = R(i) /\ doc.rules[i].kind = k
  <2>1. x.program \in ProgNames /\ x \in Range(c.lists[k][x.program])
    BY RuleNumbers DEF Rules
  <2>2. PICK v, q : v = c.lists[k][q] /\ q = x.program
    OBVIOUS
  <2>3. Range(v) = {R(i) : i \in Here(doc, k, q)}
    BY <2>1, <2>2, <1>10
  <2>4. PICK i \in Here(doc, k, q) : x = R(i)
    BY <2>1, <2>2, <2>3
  <2> QED
    BY <2>4 DEF Here
<1>16. Unique(c)
  <2> SUFFICES ASSUME NEW k \in Kinds, NEW l \in Kinds, NEW x \in Rules(c, k), NEW y \in Rules(c, l),
                      x.id = y.id \/ x.priority = y.priority
               PROVE  x = y /\ k = l
    BY DEF Unique
  <2>1. PICK i \in Created(doc) : x = R(i) /\ doc.rules[i].kind = k
    BY <1>15
  <2>2. PICK j \in Created(doc) : y = R(j) /\ doc.rules[j].kind = l
    BY <1>15
  <2>3. Number(doc, n, i) = Number(doc, n, j)
    BY <2>1, <2>2, <1>9
  <2> QED
    BY <2>1, <2>2, <2>3, <1>8
<1>17. ls \in SUBSET Names /\ \A i \in DOMAIN doc.rules : Covered(doc.rules[i].trules, doc.domains, ls)
  <2>1. ASSUME NEW i \in DOMAIN doc.rules
        PROVE  /\ Loose(doc.rules[i].trules, doc.domains) \in SUBSET Names
               /\ Covered(doc.rules[i].trules, doc.domains, Loose(doc.rules[i].trules, doc.domains))
    <3>1. PICK ts, L : ts = doc.rules[i].trules /\ L = Loose(ts, doc.domains)
      OBVIOUS
    <3>2. ts \in Seq(TRules)
      BY <3>1, <1>6 DEF Elements
    <3> QED
      BY <3>1, <3>2, LooseFacts
  <2>2. \A i \in DOMAIN doc.rules : Loose(doc.rules[i].trules, doc.domains) \subseteq ls
    BY <1>2
  <2>3. ASSUME NEW i \in DOMAIN doc.rules PROVE Covered(doc.rules[i].trules, doc.domains, ls)
    BY <2>1, <2>2 DEF Covered
  <2> QED
    BY <2>1, <2>3, <1>2
<1>18. ASSUME NEW k \in Kinds, NEW x \in Rules(c, k)
       PROVE  Fits(x, k, c.domains, ls) /\ x.id <= n + K /\ x.priority <= n + K
  <2>1. PICK i \in Created(doc) : x = R(i) /\ doc.rules[i].kind = k
    BY <1>15
  <2>2. i \in DOMAIN doc.rules /\ x.to = doc.rules[i].to /\ x.trules = doc.rules[i].trules
    BY <2>1, <1>7, <1>9
  <2>3. Fits(x, k, c.domains, ls)
    BY <2>1, <2>2, <1>4, <1>11, <1>17 DEF Fits, Covered
  <2> QED
    BY <2>1, <2>3, <1>9
<1>19. Kept(c, n + K, ls)
  BY <1>14, <1>16, <1>18 DEF Kept
<1>20. n + K \in 0..MaxId
  BY <1>3, <1>5, <1>7
<1>21. Good(c, programs, n + K, FALSE, ls)
  BY <1>1, <1>4, <1>11, <1>13, <1>17, <1>19, <1>20 DEF Good
<1> QED
  BY <1>3, <1>21, EditInvNext

-----------------------------------------------------------------------------
(* The theorems.                                                           *)

\* At first there are no rules.
LEMMA InitHolds == Init => EditInv
<1> SUFFICES ASSUME Init PROVE EditInv
  OBVIOUS
<1>1. <<>> \in Seq(AbstractRules) /\ Len(<<>>) = 0
  BY EmptySeq
<1>2. \A k \in Kinds, p \in ProgNames : conf.lists[k][p] = <<>>
  BY DEF Init, Empty
<1>3. conf \in Configurations
  BY <1>1 DEF Init, Empty, Configurations
<1>4. \A k \in Kinds, p \in ProgNames : DOMAIN conf.lists[k][p] = {} /\ Range(conf.lists[k][p]) = {}
  BY <1>2 DEF Range
<1>5. conf.default \in conf.domains \cup {NoDomain}
  BY DEF Init
<1>6. TypeOK
  <2>1. programs \in SUBSET ProgNames /\ idCounter \in 0..MaxId
    BY MaxIdType DEF Init
  <2>2. moved \in BOOLEAN /\ loose \in SUBSET Names
    BY DEF Init
  <2> QED
    BY <2>1, <2>2, <1>3 DEF TypeOK
<1>7. SortedByPriority /\ Tidy(conf)
  BY <1>4 DEF SortedByPriority, Tidy
<1> QED
  BY <1>4, <1>5, <1>6, <1>7 DEF EditInv

\* Every operation keeps the invariant.
LEMMA EveryStep == EditInv /\ [Next]_vars => EditInv'
<1> SUFFICES ASSUME EditInv, [Next]_vars PROVE EditInv'
  OBVIOUS
<1>1. CASE UNCHANGED vars
  <2>1. conf' = conf /\ programs' = programs /\ idCounter' = idCounter /\ moved' = moved /\ loose' = loose
    BY <1>1 DEF vars
  <2> QED
    BY <2>1, EditInvIs, EditInvNext
<1>2. CASE Operation
  <2>0. programs \in SUBSET ProgNames
    BY DEF EditInv, TypeOK
  <2>1. CASE \E n \in Names, b \in BOOLEAN : AddDomain(n, b)
    BY <2>1, AddDomainStep
  <2>2. CASE \E o, n \in Names, b \in BOOLEAN : UpdateDomain(o, n, b)
    BY <2>2, UpdateDomainStep
  <2>3. CASE \E n \in Names, d \in Names \cup {NoDomain} : DeleteDomain(n, d)
    BY <2>3, DeleteDomainStep
  <2>4. CASE \E k \in Kinds, p \in programs : \E to \in Targets(k), e \in Entered :
               AddRule(k, p, to, e) \/ \E id \in Ids : EditRule(k, id, p, to, e)
    BY <2>4, AddRuleStep, EditRuleStep
  <2>5. CASE \E k \in Kinds, id \in Ids : DeleteEdited(k, id) \/ DeleteRule(k, id)
    BY <2>5, DeleteEditedStep, DeleteRuleStep
  <2>6. CASE \E id, other \in Ids : SwapPriorities(id, other)
    BY <2>6, SwapPrioritiesStep
  <2>7. CASE \E p \in ProgNames : AddProgram(p) \/ DeleteProgram(p)
    <3>1. PICK p \in ProgNames : AddProgram(p) \/ DeleteProgram(p)
      BY <2>7
    <3>2. SetProgram(p, p) /\ programs' \in SUBSET ProgNames /\ UNCHANGED <<idCounter, moved, loose>>
      BY <3>1, <2>0 DEF AddProgram, DeleteProgram
    <3> QED
      BY <3>2, SameProgramStep
  <2>8. CASE \E o, n \in ProgNames : UpdateProgram(o, n)
    BY <2>8, UpdateProgramStep
  <2>9. CASE \E doc \in Files : Open(doc)
    BY <2>9, OpenStep
  <2> QED
    BY <1>2, <2>1, <2>2, <2>3, <2>4, <2>5, <2>6, <2>7, <2>8, <2>9 DEF Operation
<1> QED
  BY <1>1, <1>2 DEF Next

\* EditInv is an invariant: every operation that a dialog of context-editor calls
\* (add, update, delete and swapPriorities of Configuration) leaves it true.
THEOREM EditInvHolds == Spec => []EditInv
<1>1. Init => EditInv
  BY InitHolds
<1>2. EditInv /\ [Next]_vars => EditInv'
  BY EveryStep
<1> QED
  BY <1>1, <1>2, PTL DEF Spec

\* The domains, the lists and the programs of the Configuration, and idCounter, stay
\* in their types through every operation: deleteDomain and deleteRule take out what
\* is there, and findRule always returns a rule.
THEOREM TypeCorrect == Spec => []TypeOK
<1>1. EditInv => TypeOK
  BY DEF EditInv
<1> QED
  BY <1>1, EditInvHolds, PTL

\* Each list stays in the order of the priorities, on which
\* getFirstMatchingTransition relies, also after rules have been moved.
THEOREM ListsStaySorted == Spec => []SortedByPriority
<1>1. EditInv => SortedByPriority
  BY DEF EditInv
<1> QED
  BY <1>1, EditInvHolds, PTL

\* What WellKept says follows from the inductive invariant.
LEMMA KeptWell == EditInv => WellKept
<1> SUFFICES ASSUME EditInv, ~moved
             PROVE  /\ ReferencesExist
                    /\ \A i, j \in DOMAIN AllRules(conf) : i # j =>
                         /\ AllRules(conf)[i].id # AllRules(conf)[j].id
                         /\ AllRules(conf)[i].priority # AllRules(conf)[j].priority
                    /\ \A k \in Kinds, p \in ProgNames :
                         \A r \in Range(conf.lists[k][p]) : r.program = p
  BY DEF WellKept
<1>1. Good(conf, programs, idCounter, moved, loose)
  BY EditInvIs
<1>2. Kept(conf, idCounter, loose) /\ Neat(conf) /\ Unique(conf) /\ conf \in Configurations
  BY <1>1 DEF Good, Kept, Ordered
<1>3. PICK w : w = AllRules(conf)
  OBVIOUS
<1>4. /\ w \in Seq(AbstractRules) /\ OnceEach(w)
      /\ \A x : x \in Range(w) <=> \E k \in Kinds, p \in ProgNames : x \in Range(conf.lists[k][p])
  BY <1>2, <1>3, AllRulesFacts
<1>5. \A x \in Range(w) : \E k \in Kinds : x \in Rules(conf, k)
  BY <1>2, <1>4, RulesOf
<1>6. ReferencesExist
  <2>1. \A x \in Range(w) : \E k \in Kinds : Fits(x, k, conf.domains, loose)
    BY <1>2, <1>5 DEF Kept
  <2>2. ASSUME NEW x \in Range(w)
        PROVE  /\ x.to \in conf.domains \cup {NoDomain}
               /\ \A n \in DOMAIN x.trules : x.trules[n].from \in conf.domains \cup loose
    BY <2>1 DEF Fits
  <2> QED
    BY <2>2, <1>1, <1>3 DEF ReferencesExist, Good
<1>7. ASSUME NEW i \in DOMAIN w, NEW j \in DOMAIN w, i # j
      PROVE  w[i].id # w[j].id /\ w[i].priority # w[j].priority
  <2>1. w[i].id # w[j].id
    BY <1>4, <1>7 DEF OnceEach
  <2>2. w[i] \in Range(w) /\ w[j] \in Range(w)
    BY DEF Range
  <2>3. w[i].priority = w[j].priority => w[i] = w[j]
    BY <2>2, <1>2, <1>5 DEF Unique
  <2> QED
    BY <2>1, <2>3
<1> QED
  BY <1>2, <1>3, <1>6, <1>7 DEF Neat

\* As long as no rule has been given a program of another name, the references of
\* rules to domains that addDomain, updateDomain and deleteDomain maintain all exist,
\* ids and priorities are unique, and deleteRule(Rule &) finds a rule under its
\* program.
THEOREM StaysWellKept == Spec => []WellKept
<1>1. EditInv => WellKept
  BY KeptWell
<1> QED
  BY <1>1, EditInvHolds, PTL

-----------------------------------------------------------------------------
(* Writing transitions.xml.                                                *)

\* The entries of loops and rules.
EntrySet == {Entry(k, r) : k \in Kinds, r \in AbstractRules}

\* What an entry says of its rule.
LEMMA EntryFacts ==
  ASSUME NEW k \in Kinds, NEW r \in AbstractRules, NEW x, x = Entry(k, r)
  PROVE  x \in EntrySet /\ x.kind = k /\ x.rule = r /\ x.priority = r.priority
BY DEF EntrySet, Entry

\* The priorities of entries are numbers.
LEMMA EntryNumbers == \A x \in EntrySet : x.priority \in Nat
<1> SUFFICES ASSUME NEW x \in EntrySet PROVE x.priority \in Nat
  OBVIOUS
<1>1. PICK k \in Kinds, r \in AbstractRules : x = Entry(k, r)
  BY DEF EntrySet
<1> QED
  BY <1>1, EntryFacts, RuleNumbers

\* The element of a rule is one that can be read.
LEMMA ElementFacts ==
  ASSUME NEW k \in Kinds, NEW r \in AbstractRules, NEW x, x = Element(k, r)
  PROVE  /\ x \in Elements /\ x.kind = k /\ x.program = r.program /\ x.to = r.to
         /\ x.trules = SavedTRules(r.trules) /\ x.mrules = r.mrules
<1>1. PICK ts, m : ts = r.trules /\ m = Len(ts)
  OBVIOUS
<1>2. ts \in Seq(TRules) /\ m \in Nat /\ DOMAIN ts = 1..m /\ \A i \in 1..m : ts[i] \in TRules
  <2>1. ts \in Seq(TRules)
    BY <1>1, RuleNumbers
  <2> QED
    BY <2>1, <1>1, LenProperties, ElementOfSeq
<1>3. \A f \in Flags : Saved(f) \in Flags
  BY DEF Saved, Flags
<1>4. SavedTRules(ts) \in [1..m -> TRules]
  BY <1>2, <1>3 DEF SavedTRules, TRules
<1>5. SavedTRules(ts) \in Seq(TRules)
  BY <1>2, <1>4, SeqOfFunction
<1> QED
  BY <1>1, <1>5 DEF Element, Elements, AbstractRules

\* The entries of a list of rules.
Write(k, s) == [n \in DOMAIN s |-> Entry(k, s[n])]

\* Write gives one entry for each rule, in the order of the list.
LEMMA Written ==
  ASSUME NEW k \in Kinds, NEW s \in Seq(AbstractRules), NEW t, t = Write(k, s)
  PROVE  /\ t \in Seq(EntrySet) /\ Len(t) = Len(s)
         /\ \A i \in 1..Len(s) : t[i] = Entry(k, s[i])
         /\ \A x : x \in Range(t) <=> \E r \in Range(s) : x = Entry(k, r)
<1>1. PICK m : m = Len(s)
  OBVIOUS
<1>2. m \in Nat /\ DOMAIN s = 1..m /\ \A i \in 1..m : s[i] \in AbstractRules
  BY <1>1, LenProperties, ElementOfSeq
<1>3. t = [n \in 1..m |-> Entry(k, s[n])]
  BY <1>2 DEF Write
<1>4. \A i \in 1..m : t[i] = Entry(k, s[i]) /\ Entry(k, s[i]) \in EntrySet
  BY <1>2, <1>3, EntryFacts
<1>5. t \in [1..m -> EntrySet]
  BY <1>3, <1>4
<1>6. t \in Seq(EntrySet) /\ Len(t) = m /\ DOMAIN t = 1..m
  BY <1>2, <1>5, SeqOfFunction
<1>7. ASSUME NEW x PROVE x \in Range(t) <=> \E r \in Range(s) : x = Entry(k, r)
  BY <1>2, <1>4, <1>6 DEF Range
<1> QED
  BY <1>1, <1>4, <1>6, <1>7

\* w has the entries of s and then those of t.
Concatenates(w, s, t) ==
  /\ Len(w) = Len(s) + Len(t)
  /\ \A i \in 1..Len(s) : w[i] = s[i]
  /\ \A i \in 1..Len(t) : w[Len(s) + i] = t[i]

\* Two lists of entries, one after the other.
LEMMA EntriesJoined ==
  ASSUME NEW C, C = Seq(EntrySet), NEW s \in C, NEW t \in C, NEW w, w = Cat(s, t)
  PROVE  w \in C /\ Concatenates(w, s, t)
<1>1. s \in Seq(EntrySet) /\ t \in Seq(EntrySet) /\ w = s \o t
  BY DEF Cat
<1>2. /\ w \in Seq(EntrySet) /\ Len(w) = Len(s) + Len(t)
      /\ \A i \in 1..Len(s) : w[i] = s[i]
      /\ \A i \in 1..Len(t) : w[Len(s) + i] = t[i]
  BY <1>1, Joined
<1> QED
  BY <1>2 DEF Concatenates

\* The loops and then the rules, written: no priority is there twice.
LEMMA AllWritten ==
  ASSUME NEW c \in Configurations, Neat(c), Unique(c), NEW a, NEW b, NEW w,
         a = Write("loop", All(c, "loop")), b = Write("rule", All(c, "rule")), w = Cat(a, b)
  PROVE  /\ w \in Seq(EntrySet)
         /\ \A i, j \in DOMAIN w : w[i].priority = w[j].priority => i = j
         /\ \A x : x \in Range(w) <=> \E k \in Kinds : \E r \in Rules(c, k) : x = Entry(k, r)
<1>1. PICK s, t : s = All(c, "loop") /\ t = All(c, "rule")
  OBVIOUS
<1>2. "loop" \in Kinds /\ "rule" \in Kinds /\ \A k \in Kinds : k = "loop" \/ k = "rule"
  BY DEF Kinds
<1>3. s \in Seq(AbstractRules) /\ Range(s) = Rules(c, "loop") /\ OnceEach(s)
  BY <1>1, <1>2, AllFacts DEF Unique
<1>4. t \in Seq(AbstractRules) /\ Range(t) = Rules(c, "rule") /\ OnceEach(t)
  BY <1>1, <1>2, AllFacts DEF Unique
<1>5. /\ a \in Seq(EntrySet) /\ Len(a) = Len(s) /\ \A i \in 1..Len(s) : a[i] = Entry("loop", s[i])
      /\ \A x : x \in Range(a) <=> \E r \in Range(s) : x = Entry("loop", r)
  BY <1>1, <1>2, <1>3, Written
<1>6. /\ b \in Seq(EntrySet) /\ Len(b) = Len(t) /\ \A i \in 1..Len(t) : b[i] = Entry("rule", t[i])
      /\ \A x : x \in Range(b) <=> \E r \in Range(t) : x = Entry("rule", r)
  BY <1>1, <1>2, <1>4, Written
<1>7. PICK m, n : m = Len(s) /\ n = Len(t)
  OBVIOUS
<1>8. /\ m \in Nat /\ DOMAIN s = 1..m /\ \A i \in 1..m : s[i] \in Rules(c, "loop")
      /\ n \in Nat /\ DOMAIN t = 1..n /\ \A i \in 1..n : t[i] \in Rules(c, "rule")
  <2>1. m \in Nat /\ DOMAIN s = 1..m /\ n \in Nat /\ DOMAIN t = 1..n
    BY <1>3, <1>4, <1>7, LenProperties
  <2> QED
    BY <2>1, <1>3, <1>4 DEF Range
<1>9. /\ w \in Seq(EntrySet) /\ Len(w) = m + n
      /\ \A i \in 1..m : w[i] = Entry("loop", s[i])
      /\ \A i \in 1..n : w[m + i] = Entry("rule", t[i])
  <2>1. PICK C : C = Seq(EntrySet)
    OBVIOUS
  <2>2. a \in C /\ b \in C
    BY <2>1, <1>5, <1>6
  <2>3. /\ w \in C /\ Len(w) = Len(a) + Len(b)
        /\ \A i \in 1..Len(a) : w[i] = a[i]
        /\ \A i \in 1..Len(b) : w[Len(a) + i] = b[i]
    <3>1. w \in C /\ Concatenates(w, a, b)
      BY <2>1, <2>2, EntriesJoined
    <3> QED
      BY <3>1 DEF Concatenates
  <2>4. Len(a) = m /\ Len(b) = n
    BY <1>5, <1>6, <1>7
  <2>5. \A i \in 1..m : a[i] = Entry("loop", s[i])
    BY <1>5, <1>7
  <2>6. \A i \in 1..n : b[i] = Entry("rule", t[i])
    BY <1>6, <1>7
  <2>7. w \in Seq(EntrySet)
    BY <2>1, <2>3
  <2> QED
    BY <2>3, <2>4, <2>5, <2>6, <2>7
<1>10. \A k \in Kinds : \A r \in Rules(c, k) : Entry(k, r).priority = r.priority
  BY EntryFacts DEF Rules
<1>11. /\ \A i \in 1..m : w[i].priority = s[i].priority
       /\ \A i \in 1..n : w[m + i].priority = t[i].priority
  BY <1>2, <1>8, <1>9, <1>10
<1>12. DOMAIN w = 1..m+n
  BY <1>9, LenProperties
<1>13. /\ \A i, j \in 1..m : s[i].priority = s[j].priority => i = j
       /\ \A i, j \in 1..n : t[i].priority = t[j].priority => i = j
       /\ \A i \in 1..m, j \in 1..n : s[i].priority # t[j].priority
  <2>1. ASSUME NEW i \in 1..m, NEW j \in 1..m, s[i].priority = s[j].priority PROVE i = j
    <3>1. s[i] = s[j]
      BY <2>1, <1>2, <1>8 DEF Unique
    <3> QED
      BY <3>1, <1>3, <1>8 DEF OnceEach
  <2>2. ASSUME NEW i \in 1..n, NEW j \in 1..n, t[i].priority = t[j].priority PROVE i = j
    <3>1. t[i] = t[j]
      BY <2>2, <1>2, <1>8 DEF Unique
    <3> QED
      BY <3>1, <1>4, <1>8 DEF OnceEach
  <2>3. ASSUME NEW i \in 1..m, NEW j \in 1..n PROVE s[i].priority # t[j].priority
    BY <1>2, <1>8 DEF Unique
  <2> QED
    BY <2>1, <2>2, <2>3
<1>14. \A i \in 1..m+n : i \in 1..m \/ \E j \in 1..n : i = m + j
  <2> SUFFICES ASSUME NEW i \in 1..m+n, i \notin 1..m PROVE \E j \in 1..n : i = m + j
    OBVIOUS
  <2>1. i - m \in 1..n /\ i = m + (i - m)
    BY <1>8
  <2> QED
    BY <2>1
<1>15. ASSUME NEW i \in DOMAIN w, NEW j \in DOMAIN w, w[i].priority = w[j].priority PROVE i = j
  <2>1. (i \in 1..m \/ \E h \in 1..n : i = m + h) /\ (j \in 1..m \/ \E h \in 1..n : j = m + h)
    BY <1>12, <1>14
  <2> QED
    BY <2>1, <1>11, <1>13, <1>15
<1>16. ASSUME NEW x
       PROVE  x \in Range(w) <=> \E k \in Kinds : \E r \in Rules(c, k) : x = Entry(k, r)
  <2>1. x \in Range(w) <=> \E i \in 1..m+n : x = w[i]
    BY <1>12 DEF Range
  <2>2. x \in Range(w) => (\E i \in 1..m : x = Entry("loop", s[i])) \/ (\E i \in 1..n : x = Entry("rule", t[i]))
    BY <2>1, <1>9, <1>14
  <2>3. x \in Range(w) => \E k \in Kinds : \E r \in Rules(c, k) : x = Entry(k, r)
    BY <2>2, <1>2, <1>8
  <2>4. ASSUME NEW r \in Rules(c, "loop"), x = Entry("loop", r) PROVE x \in Range(w)
    <3>1. PICK i \in 1..m : r = s[i]
      BY <1>3, <1>8 DEF Range
    <3>2. i \in 1..m+n /\ x = w[i]
      BY <3>1, <2>4, <1>8, <1>9
    <3> QED
      BY <3>2, <2>1
  <2>5. ASSUME NEW r \in Rules(c, "rule"), x = Entry("rule", r) PROVE x \in Range(w)
    <3>1. PICK i \in 1..n : r = t[i]
      BY <1>4, <1>8 DEF Range
    <3>2. m + i \in 1..m+n /\ x = w[m + i]
      BY <3>1, <2>5, <1>8, <1>9
    <3> QED
      BY <3>2, <2>1
  <2> QED
    BY <2>3, <2>4, <2>5, <1>2
<1> QED
  BY <1>9, <1>15, <1>16

\* The entries of all rules and loops, by priority.
Sorted(es, c) ==
  /\ es \in Seq(EntrySet) /\ Rising(es)
  /\ \A x : x \in Range(es) <=> \E k \in Kinds : \E r \in Rules(c, k) : x = Entry(k, r)

\* allAbstractRules(true) gives this list.
LEMMA SortedFacts ==
  ASSUME NEW c \in Configurations, Neat(c), Unique(c), NEW es, es = ByPriority(Entries(c))
  PROVE  Sorted(es, c)
<1>1. PICK a, b : a = Write("loop", All(c, "loop")) /\ b = Write("rule", All(c, "rule"))
  OBVIOUS
<1>2. PICK w : w = Cat(a, b)
  OBVIOUS
<1>3. es = ByPriority(w)
  BY <1>1, <1>2 DEF Entries, Cat, Write
<1>4. /\ w \in Seq(EntrySet)
      /\ \A i, j \in DOMAIN w : w[i].priority = w[j].priority => i = j
      /\ \A x : x \in Range(w) <=> \E k \in Kinds : \E r \in Rules(c, k) : x = Entry(k, r)
  BY <1>1, <1>2, AllWritten
<1>5. PICK S : S = EntrySet
  OBVIOUS
<1>6. (\A x \in S : x.priority \in Nat) /\ w \in Seq(S)
  BY <1>4, <1>5, EntryNumbers
<1>7. es \in Seq(S) /\ Rising(es) /\ Range(es) = Range(w)
  BY <1>3, <1>4, <1>6, ByPriorityFacts
<1> QED
  BY <1>4, <1>5, <1>7 DEF Sorted

\* The file has their elements, each of which is created when it is read.
LEMMA SavedFacts ==
  ASSUME NEW c, Ordered(c), NEW m, NEW ls, Kept(c, m, ls), NEW es, Sorted(es, c),
         es = ByPriority(Entries(c)), NEW doc, doc = retrieveTransitionsDOM(c)
  PROVE  /\ doc.domains = c.domains /\ doc.default = c.default
         /\ doc.rules \in Seq(Elements) /\ Len(doc.rules) = Len(es)
         /\ \A i \in 1..Len(es) : doc.rules[i] = Element(es[i].kind, es[i].rule)
         /\ Created(doc) = 1..Len(es)
         /\ \A i \in 1..Len(es) : doc.rules[i].kind = "rule" => doc.rules[i].to \in c.domains
<1>1. PICK n, d : n = Len(es) /\ d = doc.rules
  OBVIOUS
<1>2. n \in Nat /\ DOMAIN es = 1..n
  BY <1>1, LenProperties DEF Sorted
<1>3. /\ doc.domains = c.domains /\ doc.default = c.default
      /\ d = [i \in 1..n |-> Element(es[i].kind, es[i].rule)]
  BY <1>1, <1>2 DEF retrieveTransitionsDOM
<1>4. ASSUME NEW i \in 1..n
      PROVE  /\ d[i] = Element(es[i].kind, es[i].rule) /\ d[i] \in Elements
             /\ d[i].kind = "loop" \/ d[i].to \in c.domains
  <2>1. es[i] \in Range(es)
    BY <1>2 DEF Range
  <2>2a. PICK k \in Kinds : \E r \in Rules(c, k) : es[i] = Entry(k, r)
    BY <2>1 DEF Sorted
  <2>2. PICK r \in Rules(c, k) : es[i] = Entry(k, r)
    BY <2>2a
  <2>3. r \in AbstractRules /\ es[i].kind = k /\ es[i].rule = r /\ d[i] = Element(k, r)
    BY <2>2, <1>3, EntryFacts DEF Rules
  <2>4. d[i] \in Elements /\ d[i].kind = k /\ d[i].to = r.to
    BY <2>3, ElementFacts
  <2>5. k = "loop" \/ r.to \in c.domains
    BY DEF Kept, Fits
  <2> QED
    BY <2>3, <2>4, <2>5
<1>5. d \in [1..n -> Elements]
  BY <1>3, <1>4
<1>6. d \in Seq(Elements) /\ Len(d) = n /\ DOMAIN d = 1..n
  BY <1>2, <1>5, SeqOfFunction
<1>7. Created(doc) = 1..n
  BY <1>1, <1>3, <1>4, <1>6 DEF Created
<1>8. \A i \in 1..n : d[i].kind = "rule" => d[i].to \in c.domains
  BY <1>4
<1> QED
  BY <1>1, <1>3, <1>4, <1>6, <1>7, <1>8

\* Where the rules of one kind and program are in es.
Places(es, k, p) == {i \in 1..Len(es) : es[i].kind = k /\ es[i].rule.program = p}

\* t has the rules of the list s, which are at the places W of es.
Stands(t, s, k, es, W) ==
  /\ t \in Seq(EntrySet) /\ Len(t) = Len(s) /\ Rising(t)
  /\ Range(t) = {es[i] : i \in W}
  /\ \A i \in 1..Len(s) : t[i] = Entry(k, s[i]) /\ s[i] \in AbstractRules

\* A list of a program has the entries of the file that are for it.
LEMMA ListWritten ==
  ASSUME NEW c, Ordered(c), NEW m, NEW ls, Kept(c, m, ls), NEW k \in Kinds, NEW p \in ProgNames,
         NEW s, s = c.lists[k][p], NEW t, t = Write(k, s), NEW es, Sorted(es, c), NEW W,
         W = Places(es, k, p)
  PROVE  Stands(t, s, k, es, W)
<1> USE DEF Places
<1>1. PICK n : n = Len(s)
  OBVIOUS
<1>2. c \in Configurations /\ Neat(c) /\ Unique(c) /\ InOrder(s) /\ OnceEach(s)
  BY <1>1 DEF Ordered, Kept, Neat
<1>3. s \in Seq(AbstractRules) /\ Range(s) = {r \in Rules(c, k) : r.program = p}
  BY <1>1, <1>2, Parts, RulesOf
<1>4. n \in Nat /\ DOMAIN s = 1..n /\ \A i \in 1..n : s[i] \in Rules(c, k) /\ s[i] \in AbstractRules
  <2>1. n \in Nat /\ DOMAIN s = 1..n
    BY <1>1, <1>3, LenProperties
  <2> QED
    BY <2>1, <1>3 DEF Range, Rules
<1>5. /\ t \in Seq(EntrySet) /\ Len(t) = n /\ \A i \in 1..n : t[i] = Entry(k, s[i])
      /\ \A x : x \in Range(t) <=> \E r \in Range(s) : x = Entry(k, r)
  BY <1>1, <1>3, Written
<1>6. DOMAIN t = 1..n /\ \A i \in 1..n : t[i].priority = s[i].priority /\ s[i].priority \in Nat
  <2>1. DOMAIN t = 1..n
    BY <1>5, LenProperties
  <2> QED
    BY <2>1, <1>4, <1>5, EntryFacts, RuleNumbers
<1>7. ASSUME NEW i \in 1..n, NEW j \in 1..n, i < j PROVE s[i].priority < s[j].priority
  <2>1. s[i].priority <= s[j].priority
    BY <1>2, <1>4, <1>7 DEF InOrder
  <2>2. s[i].priority = s[j].priority => s[i] = s[j]
    BY <1>2, <1>4 DEF Unique
  <2>3. s[i] = s[j] => i = j
    BY <1>2, <1>4 DEF OnceEach
  <2>4. i # j
    BY <1>4, <1>7
  <2> QED
    BY <2>1, <2>2, <2>3, <2>4, <1>6
<1>8. Rising(t)
  BY <1>6, <1>7 DEF Rising
<1>9. DOMAIN es = 1..Len(es)
  BY LenProperties DEF Sorted
<1>10. ASSUME NEW x PROVE x \in Range(t) <=> \E i \in W : x = es[i]
  <2>1. ASSUME NEW r \in Range(s), x = Entry(k, r) PROVE \E i \in W : x = es[i]
    <3>1. r \in Rules(c, k) /\ r.program = p /\ r \in AbstractRules
      BY <1>3 DEF Rules
    <3>2. x \in Range(es) /\ x.kind = k /\ x.rule = r
      BY <3>1, <2>1, EntryFacts DEF Sorted
    <3> QED
      BY <3>1, <3>2, <1>9 DEF Range
  <2>2. ASSUME NEW i \in W, x = es[i] PROVE \E r \in Range(s) : x = Entry(k, r)
    <3>1. x \in Range(es) /\ x.kind = k /\ x.rule.program = p
      BY <2>2, <1>9 DEF Range
    <3>2a. PICK l \in Kinds : \E r \in Rules(c, l) : x = Entry(l, r)
      BY <3>1 DEF Sorted
    <3>2. PICK r \in Rules(c, l) : x = Entry(l, r)
      BY <3>2a
    <3>3. x.kind = l /\ x.rule = r
      BY <3>2, EntryFacts DEF Rules
    <3> QED
      BY <3>1, <3>2, <3>3, <1>3
  <2> QED
    BY <2>1, <2>2, <1>5
<1> QED
  BY <1>1, <1>4, <1>5, <1>8, <1>10 DEF Stands

\* The list that is read, next to the one that was written.
LEMMA ListReopened ==
  ASSUME NEW c, Ordered(c), NEW m \in Nat, NEW ls, Kept(c, m, ls), NEW doc,
         doc = retrieveTransitionsDOM(c), NEW k \in Kinds, NEW p \in ProgNames,
         NEW v, v = Parse(doc, m).lists[k][p], NEW s, s = c.lists[k][p]
  PROVE  /\ Len(v) = Len(s)
         /\ \A n \in 1..Len(s) :
              /\ v[n].program = s[n].program /\ v[n].to = s[n].to
              /\ v[n].trules = SavedTRules(s[n].trules)
              /\ v[n].mrules = s[n].mrules \ Unconditional
<1>1. PICK es, S, T, C, D : /\ es = ByPriority(Entries(c)) /\ S = ReadRules /\ T = EntrySet
                            /\ C = Seq(S) /\ D = Seq(T)
  OBVIOUS
<1>2. Neat(c) /\ Unique(c) /\ c \in Configurations
  BY DEF Kept, Ordered
<1>3. Sorted(es, c)
  BY <1>1, <1>2, SortedFacts
<1>4. PICK h : h = Len(es)
  OBVIOUS
<1>5. /\ doc.rules \in Seq(Elements) /\ Len(doc.rules) = h
      /\ \A i \in 1..h : doc.rules[i] = Element(es[i].kind, es[i].rule)
      /\ Created(doc) = 1..h
  BY <1>1, <1>3, <1>4, SavedFacts
<1>6. h \in Nat /\ DOMAIN es = 1..h /\ es \in D
  BY <1>1, <1>3, <1>4, LenProperties DEF Sorted
<1>7. ASSUME NEW i \in 1..h
      PROVE  /\ es[i].kind \in Kinds /\ es[i].rule \in AbstractRules /\ es[i].priority \in Nat
             /\ doc.rules[i].kind = es[i].kind /\ doc.rules[i].program = es[i].rule.program
             /\ doc.rules[i].to = es[i].rule.to /\ doc.rules[i].mrules = es[i].rule.mrules
             /\ doc.rules[i].trules = SavedTRules(es[i].rule.trules)
  <2>1. es[i] \in EntrySet
    BY <1>3, <1>4, ElementOfSeq DEF Sorted
  <2>2. PICK l \in Kinds, r \in AbstractRules : es[i] = Entry(l, r)
    BY <2>1 DEF EntrySet
  <2>3. es[i].kind = l /\ es[i].rule = r /\ es[i].priority = r.priority
    BY <2>2, EntryFacts
  <2>4. doc.rules[i] = Element(l, r)
    BY <2>3, <1>5
  <2> QED
    BY <2>3, <2>4, ElementFacts, RuleNumbers
<1>8. PICK W : W = Here(doc, k, p)
  OBVIOUS
<1>9. W = {i \in 1..h : es[i].kind = k /\ es[i].rule.program = p}
  BY <1>5, <1>7, <1>8 DEF Here
<1>10. PICK d : d = ReadAll(doc, m)
  OBVIOUS
<1>11. d \in C /\ Len(d) = h /\ \A i \in 1..h : d[i] = ReadRule(doc, m, i)
  BY <1>1, <1>5, <1>10, ReadAllFacts
<1>12. PICK f : Picks(f, d, W, C) /\ v = f[Len(d)]
  BY <1>1, <1>5, <1>8, <1>10, ParseIs
<1>13. PICK g : Picks(g, es, W, D)
  BY <1>1, <1>6, PicksExist
<1>14. PICK w : w = g[h]
  OBVIOUS
<1>15. w \in Seq(T) /\ Rising(w) /\ Range(w) = {es[i] : i \in W}
  <2>1. \A i, j \in W : i < j => es[i].priority < es[j].priority
    BY <1>3, <1>6, <1>9 DEF Sorted, Rising
  <2>2. (\A x \in T : x.priority \in Nat) /\ es \in Seq(T) /\ W \in SUBSET (1..Len(es)) /\ w = g[Len(es)]
    BY <1>1, <1>4, <1>6, <1>9, <1>14, EntryNumbers
  <2>3. Collects(w, es, W, T)
    BY <2>1, <2>2, <1>1, <1>13, PicksFacts
  <2> QED
    BY <2>3 DEF Collects
<1>16. PICK t : t = Write(k, s)
  OBVIOUS
<1>17. /\ t \in Seq(T) /\ Len(t) = Len(s) /\ Rising(t) /\ Range(t) = {es[i] : i \in W}
       /\ \A i \in 1..Len(s) : t[i] = Entry(k, s[i]) /\ s[i] \in AbstractRules
  <2>1. W = Places(es, k, p)
    BY <1>4, <1>9 DEF Places
  <2>2. Stands(t, s, k, es, W)
    BY <2>1, <1>3, <1>16, ListWritten
  <2> QED
    BY <2>2, <1>1 DEF Stands
<1>18. w = t
  <2>1. \A x \in T : x.priority \in Nat
    BY <1>1, EntryNumbers
  <2> QED
    BY <2>1, <1>15, <1>17, RisingSame
<1>19. Parallel(v, w, d, es)
  BY <1>1, <1>4, <1>6, <1>11, <1>12, <1>13, <1>14, PicksParallel
<1>20. Len(v) = Len(s)
  BY <1>17, <1>18, <1>19 DEF Parallel
<1>21. ASSUME NEW n \in 1..Len(s)
       PROVE  /\ v[n].program = s[n].program /\ v[n].to = s[n].to
              /\ v[n].trules = SavedTRules(s[n].trules)
              /\ v[n].mrules = s[n].mrules \ Unconditional
  <2>1. PICK j \in 1..h : v[n] = d[j] /\ w[n] = es[j]
    BY <1>11, <1>19, <1>20 DEF Parallel
  <2>2. es[j].rule = s[n]
    BY <2>1, <1>17, <1>18, EntryFacts
  <2>3. v[n] = ReadRule(doc, m, j) /\ j \in 1..Len(doc.rules)
    BY <2>1, <1>5, <1>11
  <2>4. /\ v[n].program = doc.rules[j].program /\ v[n].to = doc.rules[j].to
        /\ v[n].trules = doc.rules[j].trules /\ v[n].mrules = doc.rules[j].mrules \ Unconditional
    BY <2>3, <1>5, ReadFacts
  <2> QED
    BY <2>1, <2>2, <2>4, <1>7
<1> QED
  BY <1>20, <1>21

\* The configuration that is read back has the lists that were written.
LEMMA KeptSame == EditInv => SameWhenReopened
<1> SUFFICES ASSUME EditInv, ~moved PROVE SameWhenReopened
  BY DEF SameWhenReopened
<1>1. Good(conf, programs, idCounter, moved, loose)
  BY EditInvIs
<1>2. PICK c, m, ls, doc, e, es : /\ c = conf /\ m = idCounter /\ ls = loose
                                  /\ doc = retrieveTransitionsDOM(c) /\ e = Parse(doc, m)
                                  /\ es = ByPriority(Entries(c))
  OBVIOUS
<1>3. Ordered(c) /\ Kept(c, m, ls) /\ Neat(c) /\ Unique(c) /\ c \in Configurations /\ m \in Nat
  BY <1>1, <1>2, MaxIdType DEF Good, Kept, Ordered
<1>4. Sorted(es, c)
  BY <1>2, <1>3, SortedFacts
<1>5. /\ doc.domains = c.domains /\ doc.default = c.default
      /\ doc.rules \in Seq(Elements) /\ Len(doc.rules) = Len(es)
      /\ \A i \in 1..Len(es) : doc.rules[i].kind = "rule" => doc.rules[i].to \in c.domains
  BY <1>2, <1>3, <1>4, SavedFacts
<1>6. e.domains = c.domains /\ e.default = c.default
  <2>1. DOMAIN doc.rules = 1..Len(es)
    BY <1>5, LenProperties
  <2> QED
    BY <2>1, <1>2, <1>5 DEF Parse
<1>7. ASSUME NEW k \in Kinds, NEW p \in ProgNames
      PROVE  /\ Len(e.lists[k][p]) = Len(c.lists[k][p])
             /\ \A n \in DOMAIN c.lists[k][p] :
                  /\ e.lists[k][p][n].program = c.lists[k][p][n].program
                  /\ e.lists[k][p][n].to = c.lists[k][p][n].to
                  /\ e.lists[k][p][n].trules = SavedTRules(c.lists[k][p][n].trules)
                  /\ e.lists[k][p][n].mrules = c.lists[k][p][n].mrules \ Unconditional
  <2>1. PICK v, s : v = e.lists[k][p] /\ s = c.lists[k][p]
    OBVIOUS
  <2>2. /\ Len(v) = Len(s)
        /\ \A n \in 1..Len(s) :
              /\ v[n].program = s[n].program /\ v[n].to = s[n].to
              /\ v[n].trules = SavedTRules(s[n].trules)
              /\ v[n].mrules = s[n].mrules \ Unconditional
    BY <2>1, <1>2, <1>3, ListReopened
  <2>3. DOMAIN s = 1..Len(s)
    BY <2>1, <1>3, Parts, LenProperties
  <2> QED
    BY <2>1, <2>2, <2>3
<1> QED
  BY <1>2, <1>6, <1>7 DEF SameWhenReopened

\* A configuration that is saved and opened again (retrieveTransitionsDOM, then
\* parseTransitionsFile) has the domains, the loops and the rules it had, each list
\* in its order, with the flags that were set now true and without the mrules that
\* have no conditions.
THEOREM SavedAndReopened == Spec => []SameWhenReopened
<1>1. EditInv => SameWhenReopened
  BY KeptSame
<1> QED
  BY <1>1, EditInvHolds, PTL
=============================================================================
