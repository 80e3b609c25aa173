---------------------- MODULE ConfigurationStackProofs ----------------------
(***************************************************************************)
(* What ConfigurationStack says of saving, of hidden names and of programs *)
(* for every depth of the stack and every set of names and rules.          *)
(***************************************************************************)
EXTENDS ConfigurationStack, SequenceTheorems, TLAPS

\* One instance is dropped if the stack is full.
Dropped == IF current_index + 2 > MaxStackSize THEN 1 ELSE 0

Changed(c, t) == [conf |-> [current EXCEPT !.content = c], changeType |-> t]

\* The current instance is one of the stack.
LEMMA CurrentType ==
  ASSUME TypeOK
  PROVE  /\ current_index + 1 \in DOMAIN stack
         /\ stack[current_index + 1] \in Entries
         /\ current \in Configurations
<1>1. /\ stack \in Seq(Entries) /\ Len(stack) \in Nat
      /\ current_index + 1 \in 1..Len(stack)
  BY MaxStackSizeType DEF TypeOK
<1>2. stack[current_index + 1] \in Entries
  BY <1>1, ElementOfSeq
<1> QED
  BY <1>1, <1>2 DEF Entries, current

\* An instance whose content is replaced is one again.
LEMMA ChangedType ==
  ASSUME TypeOK, NEW c \in Contents, NEW t \in Renaming
  PROVE  Changed(c, t) \in Entries
  BY CurrentType DEF Changed, Entries, Configurations

\* pushCurrentInstance: the instances below the current one and the copy of it
\* stay, less the oldest one if there are too many, and the changed one is on top.
LEMMA PushShape ==
  ASSUME TypeOK, NEW c \in Contents, NEW t \in Renaming, Push(c, t)
  PROVE  /\ stack' \in Seq(Entries)
         /\ Len(stack') = current_index + 2 - Dropped
         /\ current_index' = current_index + 1 - Dropped
         /\ \A k \in 1..(current_index + 1 - Dropped) : stack'[k] = stack[k + Dropped]
         /\ stack'[current_index + 2 - Dropped] = Changed(c, t)
<1> DEFINE entry == stack[current_index + 1]
           below == SubSeq(stack, 1, current_index)
           longer == below \o <<entry, Changed(c, t)>>
<1> USE MaxStackSizeType
<1>1. /\ stack \in Seq(Entries) /\ current_index \in Nat
      /\ current_index + 1 <= Len(stack) /\ Len(stack) \in Nat
      /\ Changed(c, t) \in Entries /\ entry \in Entries
  BY ChangedType, CurrentType DEF TypeOK
<1>2. /\ below \in Seq(Entries) /\ Len(below) = current_index
      /\ \A k \in 1..current_index : below[k] = stack[k]
  BY <1>1, SubSeqProperties
<1> HIDE DEF below, entry
<1>3. <<entry, Changed(c, t)>> \in Seq(Entries)
  BY <1>1
<1>4. /\ longer \in Seq(Entries) /\ Len(longer) = current_index + 2
      /\ \A k \in 1..current_index : longer[k] = stack[k]
      /\ longer[current_index + 1] = entry
      /\ longer[current_index + 2] = Changed(c, t)
  BY <1>1, <1>2, <1>3, ConcatProperties
<1>5. \A k \in 1..(current_index + 1) : longer[k] = stack[k]
  BY <1>1, <1>4 DEF entry
<1>6. /\ stack' = IF Len(longer) > MaxStackSize THEN Tail(longer) ELSE longer
      /\ current_index' = IF Len(longer) > MaxStackSize THEN current_index ELSE current_index + 1
  BY DEF Push, Changed, below, entry
<1> HIDE DEF longer
<1>7. CASE current_index + 2 > MaxStackSize
  <2>1. Dropped = 1
    BY <1>7 DEF Dropped
  <2>2. stack' = Tail(longer) /\ current_index' = current_index
    BY <1>4, <1>6, <1>7
  <2>3. /\ Tail(longer) \in Seq(Entries) /\ Len(Tail(longer)) = Len(longer) - 1
        /\ \A k \in 1..(Len(longer) - 1) : Tail(longer)[k] = longer[k + 1]
    BY <1>4, <1>1, EmptySeq, HeadTailProperties
  <2> QED
    BY <1>1, <1>4, <1>5, <2>1, <2>2, <2>3
<1>8. CASE ~(current_index + 2 > MaxStackSize)
  BY <1>1, <1>4, <1>5, <1>6, <1>8 DEF Dropped
<1> QED
  BY <1>7, <1>8

\* What pushCurrentInstance does to the index of the saved instance.
LEMMA PushSaved ==
  ASSUME TypeOK, NEW c \in Contents, NEW t \in Renaming, Push(c, t)
  PROVE  /\ last_saved_index' = IF Dropped = 1 THEN OneLess(last_saved_index)
                                ELSE last_saved_index
         /\ savedGone' = (savedGone \/ last_saved_index > current_index)
         /\ programs' = programs /\ disk' = disk /\ rewritten' = rewritten
<1> DEFINE longer == SubSeq(stack, 1, current_index) \o <<stack[current_index + 1], Changed(c, t)>>
<1>1. /\ stack \in Seq(Entries) /\ current_index \in Nat
      /\ current_index + 1 <= Len(stack) /\ Len(stack) \in Nat
      /\ <<stack[current_index + 1], Changed(c, t)>> \in Seq(Entries)
  BY ChangedType, CurrentType, MaxStackSizeType DEF TypeOK
<1>2. /\ SubSeq(stack, 1, current_index) \in Seq(Entries)
      /\ Len(SubSeq(stack, 1, current_index)) = current_index
  BY <1>1, SubSeqProperties
<1>3. Len(longer) = current_index + 2
  BY <1>1, <1>2, ConcatProperties
<1>4. /\ last_saved_index' = IF Len(longer) > MaxStackSize THEN OneLess(last_saved_index)
                             ELSE last_saved_index
      /\ savedGone' = (savedGone \/ last_saved_index > current_index)
      /\ programs' = programs /\ disk' = disk /\ rewritten' = rewritten
  BY DEF Push, Changed
<1> HIDE DEF longer
<1> QED
  BY <1>3, <1>4 DEF Dropped

\* The renaming from the domains before a change to the ones after it.
RenamingOf(before, t, after) ==
  /\ t.old # NoName => t.old \in before
  /\ t.new # NoName => t.new \in after
  /\ before \ {t.old} = after \ {t.new}

\* Hidden domains that follow a renaming stay domains.
LEMMA HiddenFollow ==
  ASSUME NEW before, NEW after, NEW t \in Renaming, RenamingOf(before, t, after),
         NEW h \in SUBSET before
  PROVE  UpdateHidden(h, t.old, t.new) \in SUBSET after
  BY DEF RenamingOf, UpdateHidden

\* The types, but for the hidden names.
StackType ==
  /\ stack \in Seq(Entries)
  /\ Len(stack) \in 1..MaxStackSize
  /\ current_index \in 0..(Len(stack) - 1)
  /\ last_saved_index \in NotInStack..(MaxStackSize - 1)
  /\ programs \in SUBSET ProgNames
  /\ disk \in Files \cup {NoFile, Truncated}
  /\ savedGone \in BOOLEAN
  /\ rewritten \in BOOLEAN

\* The types are those of the stack and those of what the view hides.
LEMMA TypeParts ==
  /\ TypeOK <=> /\ StackType
                /\ hidden_domains \in SUBSET Names
                /\ hidden_programs \in SUBSET ProgNames
                /\ hiddenUnknown \in SUBSET ProgNames
  /\ TypeOK' <=> /\ StackType'
                 /\ hidden_domains' \in SUBSET Names
                 /\ hidden_programs' \in SUBSET ProgNames
                 /\ hiddenUnknown' \in SUBSET ProgNames
  BY DEF TypeOK, StackType

\* The bounds of the indices, for arithmetic.
LEMMA Bounds ==
  ASSUME TypeOK
  PROVE  /\ current_index \in Nat /\ Len(stack) \in Nat /\ MaxStackSize \in Nat
         /\ MaxStackSize >= 1
         /\ current_index + 1 <= Len(stack) /\ Len(stack) <= MaxStackSize
         /\ last_saved_index \in Int
         /\ last_saved_index >= -1 /\ last_saved_index <= MaxStackSize - 1
  BY MaxStackSizeType DEF TypeOK, NotInStack

\* An edit keeps the types, ...
LEMMA PushTypes ==
  ASSUME TypeOK, NEW c \in Contents, NEW t \in Renaming, Push(c, t)
  PROVE  StackType'
<1>1. Dropped \in {0, 1} /\ (Dropped = 0 => current_index + 2 <= MaxStackSize)
  BY Bounds DEF Dropped
<1>2. /\ Len(stack') \in 1..MaxStackSize
      /\ current_index' \in 0..(Len(stack') - 1)
  BY <1>1, Bounds, PushShape
<1>3. last_saved_index' \in NotInStack..(MaxStackSize - 1)
  BY <1>1, Bounds, PushSaved DEF OneLess, NotInStack
<1>4. savedGone' \in BOOLEAN
  BY PushSaved DEF TypeOK
<1> QED
  BY <1>2, <1>3, <1>4, PushShape, PushSaved DEF TypeOK, StackType

\* ... the programs of all instances, ...
LEMMA PushPrograms ==
  ASSUME TypeOK, SamePrograms, NEW c \in Contents, NEW t \in Renaming, Push(c, t)
  PROVE  SamePrograms'
<1>1. Dropped \in {0, 1}
  BY DEF Dropped
<1>2. Changed(c, t).conf.programs = programs
  BY CurrentType DEF Changed, current, SamePrograms, Configurations
<1>3. SUFFICES ASSUME NEW k \in 1..(current_index + 2 - Dropped)
               PROVE  stack'[k].conf.programs = programs
  BY PushShape, PushSaved, Bounds, <1>1 DEF SamePrograms
<1>4. CASE k = current_index + 2 - Dropped
  BY <1>2, <1>4, PushShape
<1>5. CASE k # current_index + 2 - Dropped
  <2>1. stack'[k] = stack[k + Dropped]
    BY <1>1, <1>5, Bounds, PushShape
  <2>2. k + Dropped \in DOMAIN stack
    BY <1>1, <1>5, Bounds DEF TypeOK
  <2> QED
    BY <2>1, <2>2 DEF SamePrograms
<1> QED
  BY <1>4, <1>5

\* A content is the one in the file, but for the programs that were rewritten.
Holds(saved, file, changed) ==
  /\ saved.domains = file.domains
  /\ changed \/ Written(saved) = file

\* ... the saved instance, ...
LEMMA PushKeepsSaved ==
  ASSUME TypeOK, SavedInstance, NEW c \in Contents, NEW t \in Renaming, Push(c, t)
  PROVE  SavedInstance'
<1> SUFFICES ASSUME ~savedGone', last_saved_index' >= 0, disk' \in Files
             PROVE  /\ last_saved_index' < Len(stack')
                    /\ Holds(stack'[last_saved_index' + 1].conf.content, disk', rewritten')
  BY DEF SavedInstance, Holds
<1>1. Dropped \in {0, 1}
  BY DEF Dropped
<1>2. ~savedGone /\ ~(last_saved_index > current_index) /\ disk' = disk /\ rewritten' = rewritten
  BY PushSaved
<1>3. last_saved_index' = last_saved_index - Dropped /\ last_saved_index >= 0
  BY <1>1, Bounds, PushSaved DEF OneLess, NotInStack
<1>4. Holds(stack[last_saved_index + 1].conf.content, disk, rewritten)
  BY <1>2, <1>3 DEF SavedInstance, Holds
<1>5. last_saved_index' + 1 \in 1..(current_index + 1 - Dropped)
  BY <1>1, <1>2, <1>3, Bounds
<1>6. stack'[last_saved_index' + 1] = stack[last_saved_index' + 1 + Dropped]
  BY <1>5, PushShape
<1>7. last_saved_index' + 1 + Dropped = last_saved_index + 1
  BY <1>1, <1>3, Bounds
<1>8. last_saved_index' < Len(stack')
  BY <1>1, <1>2, <1>3, Bounds, PushShape
<1> QED
  BY <1>2, <1>4, <1>6, <1>7, <1>8

\* ... and the renamings between neighbours.
LEMMA PushRenamings ==
  ASSUME TypeOK, RenamingsChain, NEW c \in Contents, NEW t \in Renaming, Push(c, t),
         RenamingOf(current.content.domains, t, c.domains)
  PROVE  RenamingsChain'
<1>1. Dropped \in {0, 1}
  BY DEF Dropped
<1>2. SUFFICES ASSUME NEW k \in 2..(current_index + 2 - Dropped)
               PROVE  RenamingOf(stack'[k - 1].conf.content.domains, stack'[k].changeType,
                                 stack'[k].conf.content.domains)
  BY PushShape DEF RenamingsChain, RenamingOf
<1>3. CASE k = current_index + 2 - Dropped
  <2>1. stack'[k] = Changed(c, t)
    BY <1>3, PushShape
  <2>2. Changed(c, t).changeType = t /\ Changed(c, t).conf.content = c
    BY CurrentType DEF Changed, Configurations
  <2>3. k - 1 \in 1..(current_index + 1 - Dropped) /\ k - 1 + Dropped = current_index + 1
    BY <1>1, <1>3, Bounds
  <2>4. stack'[k - 1] = stack[current_index + 1]
    BY <2>3, PushShape
  <2> QED
    BY <2>1, <2>2, <2>4 DEF current
<1>4. CASE k # current_index + 2 - Dropped
  <2> DEFINE j == k + Dropped
  <2>1. /\ k \in 1..(current_index + 1 - Dropped)
        /\ k - 1 \in 1..(current_index + 1 - Dropped)
        /\ j \in 2..Len(stack)
        /\ k - 1 + Dropped = j - 1
    BY <1>1, <1>4, Bounds
  <2>2. stack'[k] = stack[j]
    BY <2>1, PushShape
  <2>3. stack'[k - 1] = stack[k - 1 + Dropped]
    BY <2>1, PushShape
  <2>4. stack'[k - 1] = stack[j - 1]
    BY <2>1, <2>3
  <2> HIDE DEF j
  <2>5. RenamingOf(stack[j - 1].conf.content.domains, stack[j].changeType,
                   stack[j].conf.content.domains)
    BY <2>1 DEF RenamingsChain, RenamingOf
  <2> QED
    BY <2>2, <2>4, <2>5
<1> QED
  BY <1>3, <1>4

-----------------------------------------------------------------------------
\* After an edit the changed instance is the current one.
LEMMA PushCurrent ==
  ASSUME TypeOK, NEW c \in Contents, NEW t \in Renaming, Push(c, t)
  PROVE  current' = Changed(c, t).conf /\ current'.content = c
<1>1. Dropped \in {0, 1}
  BY DEF Dropped
<1>2. current_index' + 1 = current_index + 2 - Dropped
  BY <1>1, Bounds, PushShape
<1>3. current' = Changed(c, t).conf
  BY <1>2, PushShape DEF current
<1> QED
  BY <1>3, CurrentType DEF Changed, Configurations

\* An edit whose change type is its renaming keeps the invariant.
LEMMA EditStep ==
  ASSUME StackInv, NEW c \in Contents, NEW t \in Renaming, Push(c, t),
         RenamingOf(current.content.domains, t, c.domains),
         hidden_domains' = UpdateHidden(hidden_domains, t.old, t.new),
         hidden_programs' = hidden_programs, hiddenUnknown' = hiddenUnknown
  PROVE  StackInv'
<1> USE DEF StackInv
<1>1. hidden_domains' \subseteq current'.content.domains
  BY HiddenFollow, PushCurrent DEF HiddenAreThere
<1>2. HiddenAreThere'
  BY <1>1, PushSaved DEF HiddenAreThere
<1>3. hidden_domains' \in SUBSET Names
  BY <1>1, PushCurrent DEF Contents
<1>4. TypeOK'
  BY <1>3, PushTypes, TypeParts
<1> QED
  BY <1>2, <1>4, PushPrograms, PushKeepsSaved, PushRenamings

\* The rules after an edit are rules.
LEMMA EditsType ==
  ASSUME TypeOK
  PROVE  Edits \subseteq SUBSET Rules
<1>1. current.content.rules \in SUBSET Rules /\ programs \in SUBSET ProgNames
  BY CurrentType DEF TypeOK, Configurations, Contents
<1>2. ProgramsIn(current.content) \in SUBSET ProgNames
  BY <1>1 DEF ProgramsIn, Rules
<1>3. \A p \in ProgNames : OwnRule(p) \in Rules
  BY DEF OwnRule, Rules
<1> QED
  BY <1>1, <1>2, <1>3 DEF Edits

\* The edits of rules and domains.
LEMMA EditsStay ==
  ASSUME StackInv
  PROVE  /\ \A v \in SUBSET Rules : ChangeRules(v) => StackInv'
         /\ \A n \in Names : AddDomain(n) => StackInv'
         /\ \A o, n \in Names, v \in SUBSET Rules : UpdateDomain(o, n, v) => StackInv'
         /\ \A n \in Names, v \in SUBSET Rules : DeleteDomain(n, v) => StackInv'
<1> DEFINE ds == current.content.domains
<1>0. /\ current.content \in Contents
      /\ ds \in SUBSET Names
      /\ NoName \notin hidden_domains
  BY CurrentType, NoNameIsNone DEF StackInv, TypeOK, Configurations, Contents
<1>1. ASSUME NEW v \in SUBSET Rules, ChangeRules(v)
      PROVE  StackInv'
  <2> DEFINE c == [current.content EXCEPT !.rules = v]
  <2>1. c \in Contents /\ c.domains = ds
    BY <1>0 DEF Contents
  <2>2. /\ NoRenaming \in Renaming
        /\ RenamingOf(ds, NoRenaming, ds)
        /\ UpdateHidden(hidden_domains, NoRenaming.old, NoRenaming.new) = hidden_domains
    BY <1>0 DEF NoRenaming, Renaming, RenamingOf, UpdateHidden
  <2>3. Push(c, NoRenaming) /\ UNCHANGED hidden
    BY <1>1 DEF ChangeRules
  <2> HIDE DEF c
  <2> QED
    BY <2>1, <2>2, <2>3, EditStep DEF hidden
<1>2. ASSUME NEW c \in Contents, NEW o \in Names \cup {NoName}, NEW n \in Names \cup {NoName},
             DomainChanged(c, o, n), RenamingOf(ds, [old |-> o, new |-> n], c.domains)
      PROVE  StackInv'
  <2> DEFINE t == [old |-> o, new |-> n]
  <2>1. t \in Renaming /\ t.old = o /\ t.new = n
    BY DEF Renaming
  <2>2. /\ Push(c, t)
        /\ hidden_domains' = UpdateHidden(hidden_domains, t.old, t.new)
        /\ hidden_programs' = hidden_programs /\ hiddenUnknown' = hiddenUnknown
    BY <1>2 DEF DomainChanged
  <2> HIDE DEF t
  <2>3. RenamingOf(current.content.domains, t, c.domains)
    BY <1>2 DEF t
  <2> QED
    BY <2>1, <2>2, <2>3, EditStep
<1>3. ASSUME NEW n \in Names, AddDomain(n)
      PROVE  StackInv'
  <2> DEFINE c == [current.content EXCEPT !.domains = @ \cup {n}]
  <2>1. c \in Contents /\ c.domains = ds \cup {n}
    BY <1>0 DEF Contents
  <2>2. DomainChanged(c, NoName, n) /\ n \notin ds
    BY <1>3 DEF AddDomain
  <2>3. RenamingOf(ds, [old |-> NoName, new |-> n], c.domains)
    BY <1>0, <2>1, <2>2, NoNameIsNone DEF RenamingOf
  <2> HIDE DEF c
  <2> QED
    BY <1>2, <2>1, <2>2, <2>3
<1>4. ASSUME NEW o \in Names, NEW n \in Names, NEW v \in SUBSET Rules, UpdateDomain(o, n, v)
      PROVE  StackInv'
  <2> DEFINE c == [domains |-> (ds \ {o}) \cup {n}, rules |-> v]
  <2>1. c \in Contents /\ c.domains = (ds \ {o}) \cup {n}
    BY <1>0 DEF Contents
  <2>2. DomainChanged(c, o, n) /\ o \in ds /\ n \notin ds \ {o}
    BY <1>4 DEF UpdateDomain
  <2>3. RenamingOf(ds, [old |-> o, new |-> n], c.domains)
    BY <2>1, <2>2 DEF RenamingOf
  <2> HIDE DEF c
  <2> QED
    BY <1>2, <2>1, <2>2, <2>3
<1>5. ASSUME NEW n \in Names, NEW v \in SUBSET Rules, DeleteDomain(n, v)
      PROVE  StackInv'
  <2> DEFINE c == [domains |-> ds \ {n}, rules |-> v]
  <2>1. c \in Contents /\ c.domains = ds \ {n}
    BY <1>0 DEF Contents
  <2>2. DomainChanged(c, n, NoName) /\ n \in ds
    BY <1>5 DEF DeleteDomain
  <2>3. RenamingOf(ds, [old |-> n, new |-> NoName], c.domains)
    BY <1>0, <2>1, <2>2, NoNameIsNone DEF RenamingOf
  <2> HIDE DEF c
  <2> QED
    BY <1>2, <2>1, <2>2, <2>3
<1> QED
  BY <1>1, <1>3, <1>4, <1>5

\* Going to another instance of the stack over the renaming to it.
LEMMA MoveStep ==
  ASSUME StackInv,
         UNCHANGED <<stack, last_saved_index, programs, disk, savedGone, rewritten,
                     hidden_programs, hiddenUnknown>>,
         NEW i \in 1..Len(stack), current_index' = i - 1,
         NEW t \in Renaming,
         RenamingOf(current.content.domains, t, stack[i].conf.content.domains),
         hidden_domains' = UpdateHidden(hidden_domains, t.old, t.new)
  PROVE  StackInv'
<1> USE DEF StackInv
<1>1. stack \in Seq(Entries) /\ Len(stack) \in Nat
  BY DEF TypeOK
<1>2. current' = stack[i].conf
  <2>1. current_index' + 1 = i
    BY <1>1
  <2> QED
    BY <2>1 DEF current
<1>3. stack[i] \in Entries
  BY <1>1, ElementOfSeq
<1>4. stack[i].conf.content.domains \in SUBSET Names
  BY <1>3 DEF Entries, Configurations, Contents
<1>5. hidden_domains' \in SUBSET stack[i].conf.content.domains
  <2>1. hidden_domains \in SUBSET current.content.domains
    BY DEF HiddenAreThere
  <2> DEFINE before == current.content.domains
             after == stack[i].conf.content.domains
  <2>2. hidden_domains \in SUBSET before /\ RenamingOf(before, t, after)
    BY <2>1
  <2> HIDE DEF before, after
  <2>3. UpdateHidden(hidden_domains, t.old, t.new) \in SUBSET after
    BY <2>2, HiddenFollow
  <2> QED
    BY <2>3 DEF after
<1>6. HiddenAreThere'
  BY <1>2, <1>5 DEF HiddenAreThere
<1>7. current_index' \in 0..(Len(stack') - 1)
  BY <1>1
<1>8. StackType'
  BY <1>7 DEF TypeOK, StackType
<1>9. TypeOK'
  BY <1>4, <1>5, <1>8, TypeParts DEF TypeOK
<1> QED
  BY <1>6, <1>9 DEF SamePrograms, SavedInstance, RenamingsChain

\* A change type and its reverse are renamings between neighbours.
LEMMA Neighbours ==
  ASSUME TypeOK, RenamingsChain, NEW k \in 2..Len(stack)
  PROVE  /\ stack[k].changeType \in Renaming
         /\ RenamingOf(stack[k - 1].conf.content.domains, stack[k].changeType,
                       stack[k].conf.content.domains)
         /\ Revert(stack[k].changeType) \in Renaming
         /\ RenamingOf(stack[k].conf.content.domains, Revert(stack[k].changeType),
                       stack[k - 1].conf.content.domains)
<1>1. stack \in Seq(Entries) /\ k \in 1..Len(stack)
  BY Bounds DEF TypeOK
<1>2. stack[k] \in Entries
  BY <1>1, ElementOfSeq
<1>3. RenamingOf(stack[k - 1].conf.content.domains, stack[k].changeType,
                 stack[k].conf.content.domains)
  BY DEF RenamingsChain, RenamingOf
<1> QED
  BY <1>2, <1>3 DEF Entries, Renaming, Revert, RenamingOf

\* Undo goes back over the renaming of the current instance, redo forward over
\* the one of the next.
LEMMA UndoStays ==
  ASSUME StackInv, OnUndo
  PROVE  StackInv'
<1> DEFINE k == current_index + 1
           t == Revert(stack[k].changeType)
<1>1. k \in 2..Len(stack) /\ k - 1 \in 1..Len(stack) /\ current_index' = k - 1 - 1
  BY Bounds DEF StackInv, OnUndo
<1>2. t \in Renaming /\ RenamingOf(current.content.domains, t, stack[k - 1].conf.content.domains)
  BY <1>1, Neighbours DEF StackInv, current
<1>3. /\ hidden_domains' = UpdateHidden(hidden_domains, t.old, t.new)
      /\ UNCHANGED <<stack, last_saved_index, programs, disk, savedGone, rewritten,
                     hidden_programs, hiddenUnknown>>
  BY DEF OnUndo, SignalFor, saving
<1> HIDE DEF k, t
<1> QED
  BY <1>1, <1>2, <1>3, MoveStep

\* onRedo goes to the next instance and tells the view of its renaming.
LEMMA RedoStays ==
  ASSUME StackInv, OnRedo
  PROVE  StackInv'
<1> DEFINE k == current_index + 2
           t == stack[k].changeType
<1>1. /\ k \in 2..Len(stack) /\ k \in 1..Len(stack) /\ current_index' = k - 1
      /\ k - 1 = current_index + 1
  BY Bounds DEF StackInv, OnRedo
<1>2. t \in Renaming /\ RenamingOf(stack[k - 1].conf.content.domains, t,
                                   stack[k].conf.content.domains)
  BY <1>1, Neighbours DEF StackInv
<1>3. /\ hidden_domains' = UpdateHidden(hidden_domains, t.old, t.new)
      /\ UNCHANGED <<stack, last_saved_index, programs, disk, savedGone, rewritten,
                     hidden_programs, hiddenUnknown>>
  BY DEF OnRedo, SignalFor, saving
<1>4. current = stack[k - 1].conf
  BY <1>1 DEF current
<1> HIDE DEF k, t
<1> QED
  BY <1>1, <1>2, <1>3, <1>4, MoveStep

-----------------------------------------------------------------------------
\* What a change of the programs may do to the rules.
Changes == UNION {[S -> ProgNames] : S \in SUBSET ProgNames}

\* Rules that are rewritten leave the domains of a content.
LEMMA RewriteType ==
  ASSUME NEW c \in Contents, NEW g \in Changes
  PROVE  Rewrite(c, g) \in Contents /\ Rewrite(c, g).domains = c.domains
<1>1. PICK S \in SUBSET ProgNames : g \in [S -> ProgNames]
  BY DEF Changes
<1> DEFINE new(r) == [r EXCEPT !.program = IF r.under \in DOMAIN g THEN g[r.under] ELSE @]
<1>2. \A r \in Rules : new(r) \in Rules
  BY <1>1 DEF Rules
<1>3. c.rules \in SUBSET Rules
  BY DEF Contents
<1>4. {new(r) : r \in c.rules} \in SUBSET Rules
  BY <1>2, <1>3
<1>5. Rewrite(c, g) = [c EXCEPT !.rules = {new(r) : r \in c.rules}]
  BY DEF Rewrite
<1> HIDE DEF new
<1> QED
  BY <1>4, <1>5 DEF Contents

\* The instances after a change of the programs.
LEMMA ProgramsShape ==
  ASSUME TypeOK, NEW ps \in SUBSET ProgNames, NEW g \in Changes, NEW old, NEW new,
         SetPrograms(ps, g, old, new)
  PROVE  /\ stack' \in Seq(Entries) /\ Len(stack') = Len(stack) /\ DOMAIN stack' = 1..Len(stack)
         /\ \A k \in 1..Len(stack) :
              /\ stack[k].conf.content \in Contents
              /\ stack'[k].conf = [content |-> Rewrite(stack[k].conf.content, g), programs |-> ps]
              /\ stack'[k].changeType = stack[k].changeType
<1> DEFINE n == Len(stack)
           R(k) == [content |-> Rewrite(stack[k].conf.content, g), programs |-> ps]
<1>1. stack \in Seq(Entries) /\ n \in Nat /\ DOMAIN stack = 1..n
  BY DEF TypeOK
<1>2. \A k \in 1..n : stack[k] \in Entries
  BY <1>1, ElementOfSeq
<1>3. stack' = [k \in 1..n |-> [stack[k] EXCEPT !.conf = R(k)]]
  BY <1>1, Zenon DEF SetPrograms, InAllInstances
<1>4. \A k \in 1..n : stack[k].conf.content \in Contents
  BY <1>2 DEF Entries, Configurations
<1>5. \A k \in 1..n : R(k) \in Configurations
  BY <1>4, RewriteType DEF Configurations
<1> HIDE DEF R
<1>6. \A k \in 1..n : /\ stack'[k] \in Entries
                      /\ stack'[k].conf = R(k)
                      /\ stack'[k].changeType = stack[k].changeType
  BY <1>2, <1>3, <1>5 DEF Entries
<1>7. stack' \in [1..n -> Entries]
  BY <1>3, <1>6
<1>8. stack' \in Seq(Entries) /\ Len(stack') = n /\ DOMAIN stack' = 1..n
  BY <1>1, <1>7, SeqDef, LenProperties
<1> QED
  BY <1>4, <1>6, <1>8 DEF R

\* A change of the programs reaches every instance and leaves their domains.
LEMMA ProgramsStep ==
  ASSUME StackInv, NEW ps \in SUBSET ProgNames, NEW g \in Changes, NEW old, NEW new,
         SetPrograms(ps, g, old, new),
         UpdateHidden(hidden_programs, old, new) \in SUBSET (ps \cup hiddenUnknown)
  PROVE  StackInv'
<1> USE DEF StackInv
<1> DEFINE n == Len(stack)
<1>1. n \in Nat /\ DOMAIN stack = 1..n
  BY DEF TypeOK
<1>2. /\ stack' \in Seq(Entries) /\ Len(stack') = n /\ DOMAIN stack' = 1..n
      /\ \A k \in 1..n :
           /\ stack[k].conf.content \in Contents
           /\ stack'[k].conf = [content |-> Rewrite(stack[k].conf.content, g), programs |-> ps]
           /\ stack'[k].changeType = stack[k].changeType
  BY ProgramsShape
<1>3. \A k \in 1..n : /\ stack'[k].conf.programs = ps
                      /\ stack'[k].conf.content = Rewrite(stack[k].conf.content, g)
                      /\ stack'[k].conf.content.domains = stack[k].conf.content.domains
                      /\ stack'[k].changeType = stack[k].changeType
  <2> SUFFICES ASSUME NEW k \in 1..n
               PROVE  /\ stack'[k].conf.programs = ps
                      /\ stack'[k].conf.content = Rewrite(stack[k].conf.content, g)
                      /\ stack'[k].conf.content.domains = stack[k].conf.content.domains
                      /\ stack'[k].changeType = stack[k].changeType
    OBVIOUS
  <2> DEFINE c == stack[k].conf.content
  <2>1. c \in Contents /\ Rewrite(c, g).domains = c.domains
    <3>1. c \in Contents
      BY <1>2
    <3> HIDE DEF c
    <3> QED
      BY <3>1, RewriteType
  <2>2. /\ stack'[k].conf = [content |-> Rewrite(c, g), programs |-> ps]
        /\ stack'[k].changeType = stack[k].changeType
    BY <1>2
  <2> QED
    BY <2>1, <2>2
<1>4. /\ UNCHANGED <<current_index, last_saved_index, hidden_domains, disk, savedGone>>
      /\ programs' = ps /\ hidden_programs' = UpdateHidden(hidden_programs, old, new)
      /\ hiddenUnknown' = hiddenUnknown \cap hidden_programs'
      /\ rewritten' = (rewritten \/ \E k \in DOMAIN stack :
                         Rewrite(stack[k].conf.content, g) # stack[k].conf.content)
  BY DEF SetPrograms
<1>5. TypeOK'
  <2>1. rewritten' \in BOOLEAN
    BY <1>4
  <2>2. hidden_programs' \in SUBSET ProgNames /\ hiddenUnknown' \in SUBSET ProgNames
    BY <1>4 DEF TypeOK
  <2> QED
    BY <1>2, <1>4, <2>1, <2>2 DEF TypeOK
<1>6. SamePrograms'
  BY <1>2, <1>3, <1>4 DEF SamePrograms
<1>7. SavedInstance'
  <2> SUFFICES ASSUME ~savedGone, last_saved_index >= 0, disk \in Files
               PROVE  /\ last_saved_index < n
                      /\ Holds(stack'[last_saved_index + 1].conf.content, disk, rewritten')
    BY <1>2, <1>4 DEF SavedInstance, Holds
  <2> DEFINE j == last_saved_index + 1
  <2>1. last_saved_index < n /\ Holds(stack[j].conf.content, disk, rewritten)
    BY DEF SavedInstance, Holds
  <2>2. j \in 1..n
    BY <1>1, <2>1, Bounds
  <2> HIDE DEF j
  <2>3. rewritten' \/ (~rewritten /\ stack'[j].conf.content = stack[j].conf.content)
    BY <1>1, <1>3, <1>4, <2>2
  <2>4. stack'[j].conf.content.domains = disk.domains
    BY <1>3, <2>1, <2>2 DEF Holds
  <2>5. Holds(stack'[j].conf.content, disk, rewritten')
    BY <2>1, <2>3, <2>4 DEF Holds
  <2> QED
    BY <2>1, <2>5 DEF j
<1>8. RenamingsChain'
  <2> SUFFICES ASSUME NEW k \in 2..n
               PROVE  RenamingOf(stack'[k - 1].conf.content.domains, stack'[k].changeType,
                                 stack'[k].conf.content.domains)
    BY <1>2 DEF RenamingsChain, RenamingOf
  <2>1. k \in 1..n /\ k - 1 \in 1..n
    BY <1>1
  <2> QED
    BY <1>3, <2>1, Neighbours
<1>9. HiddenAreThere'
  <2>1. current'.content.domains = current.content.domains
    BY <1>1, <1>3, <1>4, CurrentType DEF current
  <2> QED
    BY <1>4, <2>1 DEF HiddenAreThere
<1> QED
  BY <1>5, <1>6, <1>7, <1>8, <1>9

\* The changes in the rules that the operations make.
LEMMA ChangesType ==
  /\ \A p \in ProgNames, q \in ProgNames \cup {NoName} : [x \in {p, q} \ {NoName} |-> x] \in Changes
  /\ \A p \in ProgNames, q \in ProgNames : [x \in {p} |-> q] \in Changes
  /\ \A p \in ProgNames : [x \in {p} |-> x] \in Changes
<1>1. ASSUME NEW S \in SUBSET ProgNames, NEW g \in [S -> ProgNames]
      PROVE  g \in Changes
  BY <1>1 DEF Changes
<1>2. ASSUME NEW p \in ProgNames, NEW q \in ProgNames \cup {NoName}
      PROVE  [x \in {p, q} \ {NoName} |-> x] \in Changes
  <2> DEFINE S == {p, q} \ {NoName}
  <2>1. S \in SUBSET ProgNames /\ [x \in S |-> x] \in [S -> ProgNames]
    OBVIOUS
  <2> QED
    BY <1>1, <2>1
<1>3. ASSUME NEW p \in ProgNames, NEW q \in ProgNames
      PROVE  [x \in {p} |-> q] \in Changes
  <2>1. {p} \in SUBSET ProgNames /\ [x \in {p} |-> q] \in [{p} -> ProgNames]
    OBVIOUS
  <2> QED
    BY <1>1, <2>1
<1>4. ASSUME NEW p \in ProgNames
      PROVE  [x \in {p} |-> x] \in Changes
  <2>1. {p} \in SUBSET ProgNames /\ [x \in {p} |-> x] \in [{p} -> ProgNames]
    OBVIOUS
  <2> QED
    BY <1>1, <2>1
<1> QED
  BY <1>2, <1>3, <1>4

\* The operations on programs.
LEMMA ProgramsStay ==
  ASSUME StackInv
  PROVE  /\ \A p \in ProgNames : \A gone \in programs \cup {NoName} :
              AddProgram(p, gone) => StackInv'
         /\ \A p \in ProgNames : ReplaceProgram(p) \/ DeleteProgram(p) => StackInv'
         /\ \A o, n \in ProgNames : UpdateProgram(o, n) => StackInv'
<1>0. /\ programs \in SUBSET ProgNames
      /\ hidden_programs \in SUBSET (programs \cup hiddenUnknown)
      /\ NoName \notin hidden_programs
  BY NoNameIsNone DEF StackInv, TypeOK, HiddenAreThere
<1>1. ASSUME NEW p \in ProgNames, NEW gone \in programs \cup {NoName}, AddProgram(p, gone)
      PROVE  StackInv'
  <2> DEFINE ps == (programs \ {gone}) \cup {p}
             g == [q \in {p, gone} \ {NoName} |-> q]
  <2>1. /\ ps \in SUBSET ProgNames
        /\ UpdateHidden(hidden_programs, gone, NoName) \in SUBSET (ps \cup hiddenUnknown)
    BY <1>0 DEF UpdateHidden
  <2>2. SetPrograms(ps, g, gone, NoName)
    BY <1>1 DEF AddProgram
  <2>3. g \in Changes
    BY <1>0, ChangesType
  <2> HIDE DEF ps, g
  <2> QED
    BY <2>1, <2>2, <2>3, ProgramsStep
<1>2. ASSUME NEW p \in ProgNames, ReplaceProgram(p)
      PROVE  StackInv'
  <2> DEFINE g == [q \in {p} |-> q]
  <2>1. UpdateHidden(hidden_programs, p, NoName) \in SUBSET (programs \cup hiddenUnknown)
    BY <1>0 DEF UpdateHidden
  <2>2. SetPrograms(programs, g, p, NoName) /\ g \in Changes
    BY <1>2, ChangesType DEF ReplaceProgram
  <2> HIDE DEF g
  <2> QED
    BY <1>0, <2>1, <2>2, ProgramsStep
<1>3. ASSUME NEW p \in ProgNames, DeleteProgram(p)
      PROVE  StackInv'
  <2> DEFINE ps == programs \ {p}
             g == [q \in {p} |-> q]
  <2>1. /\ ps \in SUBSET ProgNames
        /\ UpdateHidden(hidden_programs, p, NoName) \in SUBSET (ps \cup hiddenUnknown)
    BY <1>0 DEF UpdateHidden
  <2>2. SetPrograms(ps, g, p, NoName) /\ g \in Changes
    BY <1>3, ChangesType DEF DeleteProgram
  <2> HIDE DEF ps, g
  <2> QED
    BY <2>1, <2>2, ProgramsStep
<1>4. ASSUME NEW o \in ProgNames, NEW n \in ProgNames, UpdateProgram(o, n)
      PROVE  StackInv'
  <2> DEFINE ps == (programs \ {o}) \cup {n}
             g == [q \in {o} |-> n]
  <2>1. /\ ps \in SUBSET ProgNames
        /\ UpdateHidden(hidden_programs, o, n) \in SUBSET (ps \cup hiddenUnknown)
    BY <1>0 DEF UpdateHidden
  <2>2. SetPrograms(ps, g, o, n) /\ g \in Changes
    BY <1>4, ChangesType DEF UpdateProgram
  <2> HIDE DEF ps, g
  <2> QED
    BY <2>1, <2>2, ProgramsStep
<1> QED
  BY <1>1, <1>2, <1>3, <1>4

\* Hiding and showing names that are on display.
LEMMA HidingStays ==
  ASSUME StackInv
  PROVE  /\ \A n \in Names : HideDomain(n) => StackInv'
         /\ \A p \in ProgNames : HideProgram(p) \/ ShowProgram(p) => StackInv'
<1> USE DEF StackInv
<1>1. ASSUME UNCHANGED <<stack, current_index, last_saved_index, programs, saving>>,
             hidden_domains' \in SUBSET current.content.domains,
             hidden_programs' \in SUBSET ProgNames, hiddenUnknown' \in SUBSET ProgNames,
             hidden_programs' \in SUBSET (programs \cup hiddenUnknown')
      PROVE  StackInv'
  <2>1. /\ stack' = stack /\ current_index' = current_index /\ programs' = programs
        /\ last_saved_index' = last_saved_index
        /\ disk' = disk /\ savedGone' = savedGone /\ rewritten' = rewritten
    BY <1>1 DEF saving
  <2>2. current' = current /\ current.content.domains \in SUBSET Names
    BY <2>1, CurrentType DEF current, Configurations, Contents
  <2>3. TypeOK'
    BY <1>1, <2>1, <2>2 DEF TypeOK
  <2>4. SavedInstance' /\ RenamingsChain' /\ SamePrograms'
    BY <2>1 DEF SavedInstance, RenamingsChain, SamePrograms
  <2> QED
    BY <1>1, <2>1, <2>2, <2>3, <2>4 DEF HiddenAreThere
<1>2. ASSUME NEW n \in Names, HideDomain(n)
      PROVE  StackInv'
  <2>1. /\ UNCHANGED <<stack, current_index, last_saved_index, programs, saving>>
        /\ hidden_domains' \in SUBSET (hidden_domains \cup {n})
        /\ n \in current.content.domains
        /\ UNCHANGED <<hidden_programs, hiddenUnknown>>
    BY <1>2 DEF HideDomain
  <2> QED
    BY <1>1, <2>1 DEF TypeOK, HiddenAreThere
<1>3. ASSUME NEW p \in ProgNames, HideProgram(p) \/ ShowProgram(p)
      PROVE  StackInv'
  <2>1. /\ UNCHANGED <<stack, current_index, last_saved_index, programs, saving>>
        /\ hidden_domains' = hidden_domains
        /\ \/ /\ hidden_programs' = hidden_programs \cup {p}
              /\ hiddenUnknown' = hiddenUnknown \cup ({p} \ programs)
           \/ /\ hidden_programs' = hidden_programs \ {p}
              /\ hiddenUnknown' = hiddenUnknown \ {p}
    BY <1>3 DEF HideProgram, ShowProgram
  <2> QED
    BY <1>1, <2>1 DEF TypeOK, HiddenAreThere
<1> QED
  BY <1>2, <1>3

\* The bounds of a stack of one instance.
LEMMA OneInstance ==
  1 \in 1..MaxStackSize /\ 0 \in 0..(1 - 1) /\ 0 \in NotInStack..(MaxStackSize - 1)
  BY MaxStackSizeType DEF NotInStack

\* A stack of one instance that was opened or is new.
LEMMA InitialiseStep ==
  ASSUME StackInv, NEW c \in Contents, NEW f \in Files \cup {NoFile}, Reinitialise(c, f),
         f \in Files => f = Written(c)
  PROVE  StackInv'
<1> DEFINE e == [conf |-> [content |-> c, programs |-> programs], changeType |-> NoRenaming]
<1>1. /\ e \in Entries
      /\ programs \in SUBSET ProgNames
  BY DEF StackInv, TypeOK, Entries, Configurations, NoRenaming, Renaming
<1>2. /\ stack' = <<e>> /\ current_index' = 0 /\ last_saved_index' = 0
      /\ hidden_domains' = {} /\ hidden_programs' = {} /\ hiddenUnknown' = {}
      /\ savedGone' = FALSE /\ rewritten' = FALSE
      /\ disk' = f /\ programs' = programs
  BY DEF Reinitialise, Initialise
<1>3. /\ stack' \in Seq(Entries) /\ Len(stack') = 1 /\ stack'[1] = e
  BY <1>1, <1>2
<1>4. e.conf.content = c /\ e.conf.programs = programs
  OBVIOUS
<1> HIDE DEF e
<1>5. TypeOK'
  BY <1>1, <1>2, <1>3, OneInstance DEF TypeOK
<1>6. SamePrograms'
  <2>1. DOMAIN stack' = {1}
    BY <1>3
  <2> QED
    BY <1>2, <1>3, <1>4, <2>1 DEF SamePrograms
<1>7. SavedInstance'
  BY <1>2, <1>3, <1>4, NoFileIsNoContent DEF SavedInstance, Written
<1>8. RenamingsChain'
  BY <1>3 DEF RenamingsChain
<1>9. HiddenAreThere'
  BY <1>2 DEF HiddenAreThere
<1> QED
  BY <1>5, <1>6, <1>7, <1>8, <1>9 DEF StackInv

\* The file of a content, and the content that is read from a file.
LEMMA WrittenRead ==
  /\ \A c \in Contents : Written(c) \in Files /\ Written(c).domains = c.domains
  /\ \A f \in Files : Read(f) \in Contents /\ Written(Read(f)) = f
<1>1. ASSUME NEW c \in Contents
      PROVE  Written(c) \in Files /\ Written(c).domains = c.domains
  BY DEF Contents, Files, Written, ProgramsIn, Rules
<1>2. ASSUME NEW f \in Files
      PROVE  Read(f) \in Contents /\ Written(Read(f)) = f
  <2>1. f = [domains |-> f.domains, programs |-> f.programs]
    BY DEF Files
  <2>2. f.domains \in SUBSET Names /\ f.programs \in SUBSET ProgNames
    BY DEF Files
  <2>3. Read(f) \in Contents
    BY <2>2 DEF Read, Contents, Rules, OwnRule
  <2>4. \A p \in f.programs : OwnRule(p).program = p
    BY DEF OwnRule
  <2>5. {r.program : r \in {OwnRule(p) : p \in f.programs}} = f.programs
    BY <2>4
  <2>6. Read(f).domains = f.domains /\ ProgramsIn(Read(f)) = f.programs
    BY <2>5 DEF Read, ProgramsIn
  <2> QED
    BY <2>1, <2>3, <2>6 DEF Written
<1> QED
  BY <1>1, <1>2

\* Saving, whether it succeeds or not, and opening.
LEMMA FilesStay ==
  ASSUME StackInv
  PROVE  /\ Save \/ SaveLost \/ SaveFails \/ New \/ OpenTmpFails => StackInv'
         /\ \A f \in Files : Open(f) \/ OpenTmp(f) => StackInv'
<1>1. ASSUME Save \/ SaveLost \/ SaveFails \/ OpenTmpFails
      PROVE  StackInv'
  <2> USE DEF StackInv
  <2>1. /\ UNCHANGED <<stack, current_index, programs, hidden_domains, hidden_programs, hiddenUnknown>>
        /\ \/ /\ disk' = Written(current.content) \/ disk' = Truncated
              /\ last_saved_index' = current_index /\ savedGone' = FALSE /\ rewritten' = FALSE
           \/ /\ disk' \in {Truncated, NoFile}
              /\ last_saved_index' = last_saved_index /\ savedGone' = savedGone
              /\ rewritten' = rewritten
    BY <1>1 DEF Save, SaveLost, SaveFails, OpenTmpFails, hidden
  <2>2. current.content \in Contents /\ current' = current
    BY <2>1, CurrentType DEF Configurations, current
  <2>3. last_saved_index' \in NotInStack..(MaxStackSize - 1)
    BY <2>1, Bounds DEF TypeOK, NotInStack
  <2>4. /\ Written(current.content) \in Files
        /\ Written(current.content).domains = current.content.domains
    BY <2>2, WrittenRead
  <2>5. TypeOK'
    BY <2>1, <2>3, <2>4 DEF TypeOK
  <2>6. SavedInstance'
    BY <2>1, <2>4, Bounds, NoFileIsNoContent DEF SavedInstance, current
  <2> QED
    BY <2>1, <2>2, <2>5, <2>6 DEF SamePrograms, RenamingsChain, HiddenAreThere
<1>2. ASSUME New
      PROVE  StackInv'
  <2>1. NewContent \in Contents
    BY DEF NewContent, Contents
  <2> QED
    BY <1>2, <2>1, NoFileIsNoContent, InitialiseStep DEF New
<1>3. ASSUME NEW f \in Files, Open(f) \/ OpenTmp(f)
      PROVE  StackInv'
  <2>1. Reinitialise(Read(f), f) \/ Reinitialise(Read(f), NoFile)
    BY <1>3 DEF Open, OpenTmp
  <2>2. Read(f) \in Contents /\ Written(Read(f)) = f
    BY WrittenRead
  <2> QED
    BY <2>1, <2>2, NoFileIsNoContent, InitialiseStep
<1> QED
  BY <1>1, <1>2, <1>3

-----------------------------------------------------------------------------
\* Through every sequence of edits, undos, redos, program changes, saves that
\* succeed or fail, and opened files: the instance at the saved index holds what
\* was saved, change types are the renamings between neighbours, the programs are
\* in all instances and what is hidden is there.
THEOREM StackInvHolds == Spec => []StackInv
<1>1. Init => StackInv
  <2> SUFFICES ASSUME Init PROVE StackInv
    OBVIOUS
  <2> DEFINE e == [conf |-> [content |-> NewContent, programs |-> programs],
                   changeType |-> NoRenaming]
  <2>1. e \in Entries /\ e.conf.programs = programs
    BY DEF Init, Entries, Configurations, NewContent, Contents, NoRenaming, Renaming
  <2>2. stack = <<e>>
    BY DEF Init
  <2> HIDE DEF e
  <2>3. stack \in Seq(Entries) /\ Len(stack) = 1 /\ stack[1] = e /\ DOMAIN stack = {1}
    BY <2>1, <2>2
  <2>4. TypeOK
    BY <2>3, OneInstance DEF Init, TypeOK
  <2> QED
    BY <2>1, <2>3, <2>4, NoFileIsNoContent
    DEF Init, StackInv, SamePrograms, SavedInstance, RenamingsChain, HiddenAreThere
<1>2. StackInv /\ [Next]_vars => StackInv'
  <2> SUFFICES ASSUME StackInv, [Next]_vars PROVE StackInv'
    OBVIOUS
  <2>1. CASE UNCHANGED vars
    <3>1. current' = current
      BY <2>1 DEF vars, current
    <3>2. TypeOK' /\ SamePrograms' /\ HiddenAreThere'
      BY <2>1, <3>1 DEF vars, hidden, saving, StackInv, TypeOK, SamePrograms, HiddenAreThere
    <3>3. SavedInstance' /\ RenamingsChain'
      BY <2>1 DEF vars, saving, StackInv, SavedInstance, RenamingsChain
    <3> QED
      BY <3>2, <3>3 DEF StackInv
  <2>2. CASE \/ \E v \in Edits : ChangeRules(v)
             \/ \E n \in Names : AddDomain(n)
             \/ \E o, n \in Names, v \in Edits : UpdateDomain(o, n, v)
             \/ \E n \in Names, v \in Edits : DeleteDomain(n, v)
    BY <2>2, EditsStay, EditsType DEF StackInv
  <2>3. CASE OnUndo \/ OnRedo
    BY <2>3, UndoStays, RedoStays
  <2>4. CASE \/ \E p \in ProgNames : \E gone \in programs \cup {NoName} : AddProgram(p, gone)
             \/ \E p \in ProgNames : ReplaceProgram(p) \/ DeleteProgram(p)
             \/ \E o, n \in ProgNames : UpdateProgram(o, n)
    BY <2>4, ProgramsStay
  <2>5. CASE \/ \E p \in ProgNames : HideProgram(p) \/ ShowProgram(p)
             \/ \E n \in Names : HideDomain(n)
    BY <2>5, HidingStays
  <2>6. CASE \/ Save \/ SaveLost \/ SaveFails \/ New \/ OpenTmpFails
             \/ \E f \in Files : Open(f) \/ OpenTmp(f)
    BY <2>6, FilesStay
  <2> QED
    BY <2>1, <2>2, <2>3, <2>4, <2>5, <2>6 DEF Next
<1> QED
  BY <1>1, <1>2, PTL DEF Spec

\* The stack never outgrows its limit and the current index is always in it.
THEOREM TypeCorrect == Spec => []TypeOK
<1>1. StackInv => TypeOK
  BY DEF StackInv
<1> QED
  BY <1>1, StackInvHolds, PTL

\* The view never hides a domain that is not there, nor a program that is not
\* known, but for one that was hidden when it was not.
THEOREM HiddenNamesAreThere == Spec => []HiddenAreThere
<1>1. StackInv => HiddenAreThere
  BY DEF StackInv
<1> QED
  BY <1>1, StackInvHolds, PTL

\* Undo and redo never bring back other programs than the known ones.
THEOREM ProgramsAreTheSame == Spec => []SamePrograms
<1>1. StackInv => SamePrograms
  BY DEF StackInv
<1> QED
  BY <1>1, StackInvHolds, PTL

\* If hasChanges() says no, the file holds the current configuration, but for
\* programs of its rules that were rewritten since, as long as the saved instance
\* was not dropped by an edit after an undo.
THEOREM UnchangedIsSavedIfKept == Spec => []UnchangedIsSavedWhileKept
<1>1. StackInv => UnchangedIsSavedWhileKept
  <2> SUFFICES ASSUME StackInv, ~savedGone, last_saved_index = current_index, disk \in Files
               PROVE  /\ ~rewritten => disk = Written(current.content)
                      /\ disk.domains = current.content.domains
    BY DEF UnchangedIsSavedWhileKept, UnchangedIsSaved, hasChanges
  <2>1. current_index >= 0
    BY Bounds DEF StackInv
  <2> QED
    BY <2>1 DEF StackInv, SavedInstance, current
<1> QED
  BY <1>1, StackInvHolds, PTL

-----------------------------------------------------------------------------
(* The refinement.                                                         *)

PastOf(s, n) == [k \in 1..n |-> s[k].conf]
FutureOf(s, n) == [k \in 1..(Len(s) - n - 1) |-> s[n + 1 + k].conf]

Past == PastOf(stack, current_index)
Future == FutureOf(stack, current_index)

\* A function over 1..n is a sequence of length n.
LEMMA FunctionIsSeq ==
  ASSUME NEW S, NEW n \in Nat, NEW f \in [1..n -> S]
  PROVE  f \in Seq(S) /\ Len(f) = n
  BY SeqDef, LenProperties

\* What undo goes back to and redo forward to, from index n of a stack s, are
\* sequences of configurations.
LEMMA SplitTypes ==
  ASSUME NEW s \in Seq(Entries), NEW n \in Nat, n + 1 <= Len(s)
  PROVE  /\ PastOf(s, n) \in Seq(Configurations) /\ Len(PastOf(s, n)) = n
         /\ \A k \in 1..n : PastOf(s, n)[k] = s[k].conf
         /\ FutureOf(s, n) \in Seq(Configurations) /\ Len(FutureOf(s, n)) = Len(s) - n - 1
         /\ \A k \in 1..(Len(s) - n - 1) : FutureOf(s, n)[k] = s[n + 1 + k].conf
<1>1. Len(s) \in Nat /\ \A k \in 1..Len(s) : s[k].conf \in Configurations
  <2>1. Len(s) \in Nat /\ \A k \in 1..Len(s) : s[k] \in Entries
    BY ElementOfSeq
  <2> QED
    BY <2>1 DEF Entries
<1>2. PastOf(s, n) \in [1..n -> Configurations]
  BY <1>1 DEF PastOf
<1>3. Len(s) - n - 1 \in Nat
  BY <1>1
<1>4. FutureOf(s, n) \in [1..(Len(s) - n - 1) -> Configurations]
  <2>1. \A k \in 1..(Len(s) - n - 1) : n + 1 + k \in 1..Len(s)
    BY <1>1
  <2> QED
    BY <1>1, <2>1 DEF FutureOf
<1>5. PastOf(s, n) \in Seq(Configurations) /\ Len(PastOf(s, n)) = n
  BY <1>2, FunctionIsSeq
<1>6. FutureOf(s, n) \in Seq(Configurations) /\ Len(FutureOf(s, n)) = Len(s) - n - 1
  BY <1>3, <1>4, FunctionIsSeq
<1> QED
  BY <1>5, <1>6 DEF PastOf, FutureOf

\* So they are now ...
LEMMA HistoryTypes ==
  ASSUME TypeOK
  PROVE  /\ Past \in Seq(Configurations) /\ Len(Past) = current_index
         /\ \A k \in 1..current_index : Past[k] = stack[k].conf
         /\ Future \in Seq(Configurations) /\ Len(Future) = Len(stack) - current_index - 1
         /\ \A k \in 1..(Len(stack) - current_index - 1) :
              Future[k] = stack[current_index + 1 + k].conf
<1>1. stack \in Seq(Entries) /\ current_index \in Nat /\ current_index + 1 <= Len(stack)
  BY Bounds DEF TypeOK
<1> QED
  BY <1>1, SplitTypes DEF Past, Future

\* ... and after a step.
LEMMA HistoryTypesNext ==
  ASSUME TypeOK'
  PROVE  /\ Past' \in Seq(Configurations) /\ Len(Past') = current_index'
         /\ \A k \in 1..current_index' : Past'[k] = stack'[k].conf
         /\ Future' \in Seq(Configurations)
         /\ Len(Future') = Len(stack') - current_index' - 1
         /\ \A k \in 1..(Len(stack') - current_index' - 1) :
              Future'[k] = stack'[current_index' + 1 + k].conf
<1>1. stack' \in Seq(Entries) /\ current_index' \in Nat /\ current_index' + 1 <= Len(stack')
  BY MaxStackSizeType DEF TypeOK
<1> QED
  BY <1>1, SplitTypes DEF Past, Future

\* An edit is an Edit of the history.
LEMMA EditMaps ==
  ASSUME TypeOK, TypeOK', NEW c \in Contents, NEW t \in Renaming, Push(c, t)
  PROVE  History!Edit
<1> DEFINE longer == Append(Past, current)
<1>1. Dropped \in {0, 1}
  BY DEF Dropped
<1>2. /\ longer \in Seq(Configurations) /\ longer # <<>> /\ Len(longer) = current_index + 1
      /\ \A k \in 1..current_index : longer[k] = Past[k]
      /\ longer[current_index + 1] = current
  BY HistoryTypes, CurrentType, AppendProperties
<1>3. \A k \in 1..(current_index + 1) : longer[k] = stack[k].conf
  BY <1>2, HistoryTypes, Bounds DEF current
<1>4. Future' = <<>>
  <2>1. Len(stack') - current_index' - 1 = 0
    BY <1>1, Bounds, PushShape
  <2>2. Future' \in Seq(Configurations) /\ Len(Future') = 0
    BY <2>1, HistoryTypesNext
  <2> QED
    BY <2>2, EmptySeq
<1>5. \A k \in 1..(current_index + 1 - Dropped) : Past'[k] = stack[k + Dropped].conf
  <2>1. current_index' = current_index + 1 - Dropped
    BY PushShape
  <2>2. \A k \in 1..current_index' : Past'[k] = stack'[k].conf
    BY HistoryTypesNext
  <2> QED
    BY <2>1, <2>2, PushShape
<1>6. Past' \in Seq(Configurations) /\ Len(Past') = current_index + 1 - Dropped
  BY HistoryTypesNext, PushShape
<1> HIDE DEF longer
<1>7. Past' = IF Len(longer) > MaxStackSize - 1 THEN Tail(longer) ELSE longer
  <2>1. CASE Dropped = 1
    <3>1. Len(longer) > MaxStackSize - 1
      BY <1>2, <2>1, Bounds DEF Dropped
    <3>2. /\ Tail(longer) \in Seq(Configurations) /\ Len(Tail(longer)) = current_index
          /\ \A k \in 1..current_index : Tail(longer)[k] = longer[k + 1]
      BY <1>2, HeadTailProperties, Bounds
    <3>3. \A k \in 1..current_index : Tail(longer)[k] = Past'[k]
      BY <1>3, <1>5, <2>1, <3>2, Bounds
    <3>4. Len(Past') = current_index
      BY <1>6, <2>1, Bounds
    <3>5. Past' = Tail(longer)
      BY <1>6, <3>2, <3>3, <3>4, SeqEqual
    <3> QED
      BY <3>1, <3>5
  <2>2. CASE Dropped = 0
    <3>1. ~(Len(longer) > MaxStackSize - 1)
      BY <1>2, <2>2, Bounds DEF Dropped
    <3>2. \A k \in 1..(current_index + 1) : longer[k] = Past'[k]
      BY <1>3, <1>5, <2>2, Bounds
    <3>3. Len(Past') = current_index + 1
      BY <1>6, <2>2, Bounds
    <3>4. Past' = longer
      BY <1>2, <1>6, <3>2, <3>3, SeqEqual
    <3> QED
      BY <3>1, <3>4
  <2> QED
    BY <1>1, <2>1, <2>2
<1>8. /\ current' \in Configurations /\ current'.programs = current.programs
      /\ History!Configurations = Configurations
  BY PushCurrent, CurrentType DEF Changed, Configurations, History!Configurations
<1> QED
  BY <1>4, <1>7, <1>8 DEF History!Edit, History!Remember, Past, Future, PastOf, FutureOf, longer

\* onUndo is an Undo.
LEMMA UndoMaps ==
  ASSUME TypeOK, TypeOK', OnUndo
  PROVE  History!Undo
<1> DEFINE n == current_index
<1>1. /\ n \in Nat /\ n > 0 /\ current_index' = n - 1 /\ stack' = stack
  BY Bounds DEF OnUndo
<1>2. /\ Past \in Seq(Configurations) /\ Len(Past) = n
      /\ Past' \in Seq(Configurations) /\ Len(Past') = n - 1
      /\ \A k \in 1..(n - 1) : Past'[k] = Past[k]
  <2>1. /\ Past \in Seq(Configurations) /\ Len(Past) = n
        /\ \A k \in 1..n : Past[k] = stack[k].conf
    BY HistoryTypes
  <2>2. /\ Past' \in Seq(Configurations) /\ Len(Past') = n - 1
        /\ \A k \in 1..(n - 1) : Past'[k] = stack[k].conf
    BY <1>1, HistoryTypesNext
  <2> QED
    BY <1>1, <2>1, <2>2
<1>3. Past # <<>>
  BY <1>1, <1>2, EmptySeq
<1>4. Past' = SubSeq(Past, 1, n - 1)
  <2>1. \A k \in 1..(n - 1) : Past[k] \in Configurations
    BY <1>1, <1>2, ElementOfSeq
  <2>2. /\ SubSeq(Past, 1, n - 1) \in Seq(Configurations)
        /\ Len(SubSeq(Past, 1, n - 1)) = n - 1
        /\ \A k \in 1..(n - 1) : SubSeq(Past, 1, n - 1)[k] = Past[k]
    BY <1>1, <2>1, SubSeqProperties
  <2> QED
    BY <1>2, <2>2, SeqEqual
<1>5. current' = Past[n]
  BY <1>1, HistoryTypes DEF current
<1>6. Future' = <<current>> \o Future
  <2> DEFINE m == Len(stack) - n - 1
  <2>1. /\ m \in Nat /\ Len(stack') - current_index' - 1 = m + 1
        /\ Future \in Seq(Configurations) /\ Len(Future) = m
        /\ Future' \in Seq(Configurations) /\ Len(Future') = m + 1
    <3>1. m \in Nat /\ Len(stack') - current_index' - 1 = m + 1
      BY <1>1, Bounds
    <3>2. Future \in Seq(Configurations) /\ Len(Future) = m
      BY HistoryTypes
    <3>3. Future' \in Seq(Configurations) /\ Len(Future') = m + 1
      BY <3>1, HistoryTypesNext
    <3> QED
      BY <3>1, <3>2, <3>3
  <2>2. <<current>> \in Seq(Configurations) /\ Len(<<current>>) = 1 /\ <<current>>[1] = current
    BY CurrentType
  <2>3. /\ <<current>> \o Future \in Seq(Configurations)
        /\ Len(<<current>> \o Future) = m + 1
        /\ \A k \in 1..(m + 1) : (<<current>> \o Future)[k]
                                   = IF k <= 1 THEN <<current>>[k] ELSE Future[k - 1]
    BY <2>1, <2>2, ConcatProperties
  <2>4. ASSUME NEW k \in 1..(m + 1)
        PROVE  Future'[k] = (<<current>> \o Future)[k]
    <3>1. Future'[k] = stack[n + k].conf
      <4>1. Future'[k] = stack'[current_index' + 1 + k].conf
        BY <2>1, HistoryTypesNext
      <4>2. current_index' + 1 + k = n + k
        BY <1>1
      <4> QED
        BY <1>1, <4>1, <4>2
    <3>2. CASE k = 1
      BY <2>2, <2>3, <3>1, <3>2 DEF current
    <3>3. CASE k # 1
      <4>1. k - 1 \in 1..m /\ n + 1 + (k - 1) = n + k /\ ~(k <= 1)
        BY <1>1, <2>1, <3>3
      <4>2. Future[k - 1] = stack[n + 1 + (k - 1)].conf
        BY <4>1, HistoryTypes
      <4> QED
        BY <2>3, <3>1, <4>1, <4>2
    <3> QED
      BY <3>2, <3>3
  <2> QED
    BY <2>1, <2>3, <2>4, SeqEqual
<1> HIDE DEF n
<1> QED
  BY <1>2, <1>3, <1>4, <1>5, <1>6 DEF History!Undo, Past, Future, PastOf, FutureOf

\* onRedo is a Redo.
LEMMA RedoMaps ==
  ASSUME TypeOK, TypeOK', OnRedo
  PROVE  History!Redo
<1> DEFINE n == current_index
           m == Len(stack) - n - 1
<1>1. /\ n \in Nat /\ m \in Nat /\ m > 0 /\ current_index' = n + 1 /\ stack' = stack
      /\ Len(stack') - current_index' - 1 = m - 1
  <2>1. Len(stack) \in Nat /\ current_index \in Nat
    BY Bounds
  <2>2. current_index + 1 < Len(stack) /\ current_index' = current_index + 1 /\ stack' = stack
    BY DEF OnRedo
  <2> QED
    BY <2>1, <2>2
<1>2. /\ Future \in Seq(Configurations) /\ Len(Future) = m
      /\ Future' \in Seq(Configurations) /\ Len(Future') = m - 1
      /\ Past \in Seq(Configurations) /\ Len(Past) = n
      /\ Past' \in Seq(Configurations) /\ Len(Past') = n + 1
  BY <1>1, HistoryTypes, HistoryTypesNext, Zenon
<1>3. Future # <<>>
  BY <1>1, <1>2, EmptySeq
<1>4. Past' = Append(Past, current)
  <2>1. /\ Append(Past, current) \in Seq(Configurations)
        /\ Len(Append(Past, current)) = n + 1
        /\ \A k \in 1..n : Append(Past, current)[k] = Past[k]
        /\ Append(Past, current)[n + 1] = current
    BY <1>2, CurrentType, AppendProperties
  <2>2. \A k \in 1..(n + 1) : Past'[k] = stack[k].conf
    BY <1>1, HistoryTypesNext
  <2>3. \A k \in 1..(n + 1) : Append(Past, current)[k] = stack[k].conf
    BY <1>1, <2>1, HistoryTypes DEF current
  <2>4. \A k \in 1..Len(Past') : Past'[k] = Append(Past, current)[k]
    BY ONLY <1>2, <2>2, <2>3
  <2> QED
    BY ONLY <1>2, <2>1, <2>4, SeqEqual
<1>5. current' = Head(Future)
  <2>1. Head(Future) = Future[1]
    BY <1>2, <1>3
  <2>2. Future[1] = stack[n + 1 + 1].conf
    BY <1>1, HistoryTypes
  <2> QED
    BY <1>1, <2>1, <2>2 DEF current
<1>6. Future' = Tail(Future)
  <2>1. /\ Tail(Future) \in Seq(Configurations) /\ Len(Tail(Future)) = m - 1
        /\ \A k \in 1..(m - 1) : Tail(Future)[k] = Future[k + 1]
    BY <1>2, <1>3, HeadTailProperties
  <2>2. ASSUME NEW k \in 1..(m - 1)
        PROVE  Future'[k] = Tail(Future)[k]
    <3>1. Future'[k] = stack[n + 1 + 1 + k].conf
      BY <1>1, HistoryTypesNext
    <3>2. k + 1 \in 1..m /\ n + 1 + (k + 1) = n + 1 + 1 + k
      BY <1>1
    <3>3. Future[k + 1] = stack[n + 1 + (k + 1)].conf
      BY <3>2, HistoryTypes
    <3> QED
      BY <2>1, <3>1, <3>2, <3>3
  <2> QED
    BY <1>2, <2>1, <2>2, SeqEqual
<1> HIDE DEF n, m
<1> QED
  BY <1>3, <1>4, <1>5, <1>6 DEF History!Redo, Past, Future, PastOf, FutureOf

\* A change of the programs is one of the whole history.
LEMMA ProgramsMap ==
  ASSUME TypeOK, NEW ps \in SUBSET ProgNames, NEW g \in Changes, NEW old, NEW new,
         SetPrograms(ps, g, old, new)
  PROVE  History!ChangePrograms
<1> DEFINE n == current_index
           m == Len(stack) - n - 1
           f == [c \in Contents |-> Rewrite(c, g)]
           W(conf) == [content |-> f[conf.content], programs |-> ps]
<1>1. n' = n /\ Len(stack') = Len(stack)
  BY ProgramsShape DEF SetPrograms
<1>2. \A k \in 1..Len(stack) : stack'[k].conf = W(stack[k].conf)
  BY ProgramsShape
<1>3. f \in Rewritings
  BY DEF Rewritings, Changes
<1> HIDE DEF f, W
<1>4. Past' = [k \in DOMAIN Past |-> W(Past[k])]
  <2>1. DOMAIN Past = 1..n /\ \A k \in 1..n : Past[k] = stack[k].conf
    BY DEF Past, PastOf
  <2>2. Past' = [k \in 1..n |-> stack'[k].conf]
    BY <1>1 DEF Past, PastOf
  <2>3. \A k \in 1..n : k \in 1..Len(stack)
    BY Bounds
  <2>4. \A k \in 1..n : stack'[k].conf = W(Past[k])
    BY <1>2, <2>1, <2>3
  <2> QED
    BY <2>1, <2>2, <2>4
<1>5. Future' = [k \in DOMAIN Future |-> W(Future[k])]
  <2>1. DOMAIN Future = 1..m /\ \A k \in 1..m : Future[k] = stack[n + 1 + k].conf
    BY DEF Future, FutureOf
  <2>2. Future' = [k \in 1..m |-> stack'[n + 1 + k].conf]
    BY <1>1 DEF Future, FutureOf
  <2>3. \A k \in 1..m : n + 1 + k \in 1..Len(stack)
    BY Bounds
  <2> HIDE DEF m
  <2>4. \A k \in 1..m : stack'[n + 1 + k].conf = W(Future[k])
    BY <1>2, <2>1, <2>3
  <2> QED
    BY <2>1, <2>2, <2>4
<1>6. current' = W(current)
  <2>1. n + 1 \in 1..Len(stack)
    BY Bounds
  <2> QED
    BY <1>1, <1>2, <2>1 DEF current
<1> QED
  BY <1>3, <1>4, <1>5, <1>6
  DEF History!ChangePrograms, History!AllWith, History!With, Past, Future, PastOf, FutureOf, W

\* Another file, or a new one, restarts the history.
LEMMA RestartMaps ==
  ASSUME TypeOK, SamePrograms, TypeOK', NEW c \in Contents, NEW f, Reinitialise(c, f)
  PROVE  History!Restart
<1> DEFINE e == [conf |-> [content |-> c, programs |-> programs], changeType |-> NoRenaming]
<1>1. stack' = <<e>> /\ current_index' = 0
  BY DEF Reinitialise, Initialise
<1>2. Len(stack') = 1 /\ stack'[1] = e
  BY <1>1
<1>3. Past' = <<>> /\ Future' = <<>>
  BY <1>1, <1>2, HistoryTypesNext, EmptySeq
<1>4. current' = [content |-> c, programs |-> programs]
  BY <1>1, <1>2 DEF current
<1>5. /\ current' \in Configurations /\ current'.programs = current.programs
      /\ History!Configurations = Configurations
  BY <1>4, CurrentType DEF SamePrograms, TypeOK, current, Configurations, History!Configurations
<1> QED
  BY <1>3, <1>5 DEF History!Restart, Past, Future, PastOf, FutureOf

\* What leaves the stack and the current index alone is no step of the history.
LEMMA StutterMaps ==
  ASSUME UNCHANGED <<stack, current_index>>
  PROVE  UNCHANGED History!avars
  BY DEF History!avars, current

\* Every step of the editor is one of the history, or none.
LEMMA StepMaps ==
  ASSUME StackInv, StackInv', [Next]_vars
  PROVE  [History!ANext]_(History!avars)
<1> USE DEF StackInv
<1>0. /\ current.content \in Contents /\ current.content.domains \in SUBSET Names
      /\ NoRenaming \in Renaming /\ NewContent \in Contents
  BY CurrentType
  DEF Configurations, Contents, NoRenaming, Renaming, NewContent
<1>1. CASE UNCHANGED vars
  BY <1>1, StutterMaps DEF vars
<1>a. Edits \subseteq SUBSET Rules
  BY EditsType
<1>2. CASE \E v \in Edits : ChangeRules(v)
  <2> PICK v \in SUBSET Rules : ChangeRules(v)
    BY <1>2, <1>a
  <2>1. [current.content EXCEPT !.rules = v] \in Contents
    BY <1>0 DEF Contents
  <2> QED
    BY <1>0, <2>1, EditMaps DEF ChangeRules, History!ANext
<1>3. ASSUME NEW c \in Contents, NEW o \in Names \cup {NoName}, NEW n \in Names \cup {NoName},
             DomainChanged(c, o, n)
      PROVE  History!ANext
  <2>1. [old |-> o, new |-> n] \in Renaming
    BY DEF Renaming
  <2> QED
    BY <1>3, <2>1, EditMaps DEF DomainChanged, History!ANext
<1>4. CASE \E n \in Names : AddDomain(n)
  <2> PICK n \in Names : AddDomain(n)
    BY <1>4
  <2>1. [current.content EXCEPT !.domains = @ \cup {n}] \in Contents
    BY <1>0 DEF Contents
  <2> QED
    BY <1>3, <2>1 DEF AddDomain
<1>5. CASE \E o, n \in Names, v \in Edits : UpdateDomain(o, n, v)
  <2> PICK o \in Names, n \in Names, v \in SUBSET Rules : UpdateDomain(o, n, v)
    BY <1>5, <1>a
  <2>1. [domains |-> (current.content.domains \ {o}) \cup {n}, rules |-> v] \in Contents
    BY <1>0 DEF Contents
  <2> QED
    BY <1>3, <2>1 DEF UpdateDomain
<1>6. CASE \E n \in Names, v \in Edits : DeleteDomain(n, v)
  <2> PICK n \in Names, v \in SUBSET Rules : DeleteDomain(n, v)
    BY <1>6, <1>a
  <2>1. [domains |-> current.content.domains \ {n}, rules |-> v] \in Contents
    BY <1>0 DEF Contents
  <2> QED
    BY <1>3, <2>1 DEF DeleteDomain
<1>7. CASE OnUndo \/ OnRedo
  BY <1>7, UndoMaps, RedoMaps DEF History!ANext
<1>8. ASSUME NEW ps \in SUBSET ProgNames, NEW g \in Changes, NEW old, NEW new,
             SetPrograms(ps, g, old, new)
      PROVE  History!ANext
  BY <1>8, ProgramsMap DEF History!ANext
<1>9. CASE \E p \in ProgNames : \E gone \in programs \cup {NoName} : AddProgram(p, gone)
  <2> PICK p \in ProgNames, gone \in programs \cup {NoName} : AddProgram(p, gone)
    BY <1>9
  <2> DEFINE g == [q \in {p, gone} \ {NoName} |-> q]
  <2>1. (programs \ {gone}) \cup {p} \in SUBSET ProgNames /\ g \in Changes
    BY ChangesType DEF TypeOK
  <2>2. SetPrograms((programs \ {gone}) \cup {p}, g, gone, NoName)
    BY DEF AddProgram
  <2> HIDE DEF g
  <2> QED
    BY <1>8, <2>1, <2>2
<1>10. CASE \E p \in ProgNames : ReplaceProgram(p) \/ DeleteProgram(p)
  <2> PICK p \in ProgNames : ReplaceProgram(p) \/ DeleteProgram(p)
    BY <1>10
  <2> DEFINE g == [q \in {p} |-> q]
  <2>1. programs \in SUBSET ProgNames /\ programs \ {p} \in SUBSET ProgNames /\ g \in Changes
    BY ChangesType DEF TypeOK
  <2>2. SetPrograms(programs, g, p, NoName) \/ SetPrograms(programs \ {p}, g, p, NoName)
    BY DEF ReplaceProgram, DeleteProgram
  <2> HIDE DEF g
  <2> QED
    BY <1>8, <2>1, <2>2
<1>11. CASE \E o, n \in ProgNames : UpdateProgram(o, n)
  <2> PICK o \in ProgNames, n \in ProgNames : UpdateProgram(o, n)
    BY <1>11
  <2> DEFINE g == [q \in {o} |-> n]
  <2>1. (programs \ {o}) \cup {n} \in SUBSET ProgNames /\ g \in Changes
    BY ChangesType DEF TypeOK
  <2>2. SetPrograms((programs \ {o}) \cup {n}, g, o, n)
    BY DEF UpdateProgram
  <2> HIDE DEF g
  <2> QED
    BY <1>8, <2>1, <2>2
<1>12. CASE \/ \E p \in ProgNames : HideProgram(p) \/ ShowProgram(p)
            \/ \E n \in Names : HideDomain(n)
            \/ Save \/ SaveLost \/ SaveFails \/ OpenTmpFails
  BY <1>12, StutterMaps DEF HideProgram, ShowProgram, HideDomain, Save, SaveLost, SaveFails, OpenTmpFails
<1>13. CASE New \/ \E f \in Files : Open(f) \/ OpenTmp(f)
  BY <1>0, <1>13, RestartMaps, WrittenRead DEF New, Open, OpenTmp, History!ANext
<1> QED
  BY <1>1, <1>2, <1>4, <1>5, <1>6, <1>7, <1>9, <1>10, <1>11, <1>12, <1>13 DEF Next

\* The stack with its in-place changes, its insertions below the current instance
\* and its limit is a history with undo and redo, however deep it may be.
THEOREM StackImplementsHistory == Spec => ImplementsHistory
<1>1. Init => History!AInit
  <2> SUFFICES ASSUME Init PROVE History!AInit
    OBVIOUS
  <2> DEFINE e == [conf |-> [content |-> NewContent, programs |-> programs],
                   changeType |-> NoRenaming]
  <2>1. /\ stack = <<e>> /\ current_index = 0
        /\ e \in Entries /\ e.conf \in [content : Contents, programs : SUBSET ProgNames]
    BY DEF Init, Entries, Configurations, NewContent, Contents, NoRenaming, Renaming
  <2> HIDE DEF e
  <2>2. stack \in Seq(Entries) /\ Len(stack) = 1 /\ stack[1] = e
    BY <2>1
  <2>3. PastOf(stack, 0) = <<>> /\ FutureOf(stack, 0) = <<>>
    <3>1. 0 \in Nat /\ 0 + 1 <= Len(stack) /\ Len(stack) - 0 - 1 = 0
      BY <2>2
    <3>2. /\ PastOf(stack, 0) \in Seq(Configurations) /\ Len(PastOf(stack, 0)) = 0
          /\ FutureOf(stack, 0) \in Seq(Configurations) /\ Len(FutureOf(stack, 0)) = 0
      BY <2>2, <3>1, SplitTypes
    <3> QED
      BY <3>2, EmptySeq
  <2> QED
    BY <2>1, <2>2, <2>3 DEF History!AInit, History!Configurations, PastOf, FutureOf, current
<1>2. StackInv /\ StackInv' /\ [Next]_vars => [History!ANext]_(History!avars)
  BY StepMaps
<1> QED
  BY <1>1, <1>2, StackInvHolds, PTL DEF Spec, ImplementsHistory, History!ASpec
=============================================================================
