------------------------- MODULE ConfigurationStack -------------------------
(***************************************************************************)
(* The undo stack of context-editor.  All edits go through                 *)
(* currentForModifying, which copies the current instance, and change the  *)
(* current instance in place; its signal then makes pushCurrentInstance    *)
(* insert the copy before it.  Programs are changed in all instances at    *)
(* once.  Whether there is something to save is told by comparing two      *)
(* indices, and which domains are hidden in the view follows the renamings *)
(* recorded with each instance.                                            *)
(*                                                                         *)
(* An instance is the names of its domains, the programs it knows and its  *)
(* rules and loops.  Of these only the program matters here (the rest is   *)
(* in Configuration): the name they are kept under, which stays, and the   *)
(* name of the program they have, which is the one in the file and which a *)
(* change of the programs rewrites in every instance.                      *)
(***************************************************************************)
EXTENDS Integers, Sequences, FiniteSets

CONSTANTS
  Names,         \* domain names
  ProgNames,     \* program names
  MaxDomains,    \* a bound on the domains of an instance
  MaxRules,      \* a bound on its rules
  MaxHidden,     \* a bound on the names that are hidden
  MaxStackSize,  \* EditorConfig::maxStackSize
  NoName,        \* the null QString
  NoFile,        \* nothing on disk: _file_path is null
  Truncated      \* a file that was opened for writing and not written

ASSUME BoundsType == {MaxDomains, MaxRules, MaxHidden} \subseteq Nat
ASSUME MaxStackSizeType == MaxStackSize \in Nat \ {0}
ASSUME NoNameIsNone == NoName \notin Names \cup ProgNames

Rules == [under : ProgNames, program : ProgNames]

Contents == [domains : SUBSET Names, rules : SUBSET Rules]

\* What transitions.xml has of a content.
Files == [domains : SUBSET Names, programs : SUBSET ProgNames]

ASSUME NoFileIsNoContent == NoFile \notin Files /\ Truncated \notin Files

VARIABLES
  stack,                       \* _stack: instances with their changeType
  current_index,               \* _current_index, from 0
  last_saved_index,            \* _last_saved_index
  programs,                    \* _programs
  hidden_domains, hidden_programs,
  disk,                        \* what the file at _file_path holds
  savedGone,                   \* history: the saved instance was dropped from the stack
  rewritten,                   \* history: rules got a program of another name since the save
  hiddenUnknown                \* history: hidden programs that were not known when they were hidden

hidden == <<hidden_domains, hidden_programs, hiddenUnknown>>
saving == <<disk, savedGone, rewritten>>
vars == <<stack, current_index, last_saved_index, programs, hidden, saving>>

Configurations == [content : Contents, programs : SUBSET ProgNames]

\* Only the change types that carry domain names are told apart.
Renaming == [old : Names \cup {NoName}, new : Names \cup {NoName}]
NoRenaming == [old |-> NoName, new |-> NoName]

Entries == [conf : Configurations, changeType : Renaming]

\* An index that is decremented below 0 is the one of no instance any more, and
\* stays at this bound.
NotInStack == -1

TypeOK ==
  /\ stack \in Seq(Entries)
  /\ Len(stack) \in 1..MaxStackSize
  /\ current_index \in 0..(Len(stack) - 1)
  /\ last_saved_index \in NotInStack..(MaxStackSize - 1)
  /\ programs \in SUBSET ProgNames
  /\ hidden_domains \in SUBSET Names
  /\ hidden_programs \in SUBSET ProgNames
  /\ hiddenUnknown \in SUBSET ProgNames
  /\ disk \in Files \cup {NoFile, Truncated}
  /\ savedGone \in BOOLEAN
  /\ rewritten \in BOOLEAN

NewContent == [domains |-> {}, rules |-> {}]

\* initialise(): a stack of one instance that knows the programs.
Initialise(c, ps) ==
  /\ stack' = <<[conf |-> [content |-> c, programs |-> ps], changeType |-> NoRenaming]>>
  /\ current_index' = 0
  /\ last_saved_index' = 0
  /\ hidden_domains' = {}
  /\ hidden_programs' = {}
  /\ hiddenUnknown' = {}
  /\ savedGone' = FALSE
  /\ rewritten' = FALSE

Init ==
  /\ programs \in SUBSET ProgNames     \* knownApplications of the settings
  /\ stack = <<[conf |-> [content |-> NewContent, programs |-> programs],
               changeType |-> NoRenaming]>>
  /\ current_index = 0
  /\ last_saved_index = 0
  /\ hidden_domains = {}
  /\ hidden_programs = {}
  /\ hiddenUnknown = {}
  /\ disk = NoFile
  /\ savedGone = FALSE
  /\ rewritten = FALSE

-----------------------------------------------------------------------------
current == stack[current_index + 1].conf

hasChanges == last_saved_index # current_index

ProgramsIn(c) == {r.program : r \in c.rules}

\* retrieveTransitionsDOM: a rule is written with the name of its program.
Written(c) == [domains |-> c.domains, programs |-> ProgramsIn(c)]

OwnRule(p) == [under |-> p, program |-> p]

\* parseTransitionsFile: a rule is kept under the name it is read with.
Read(f) == [domains |-> f.domains, rules |-> {OwnRule(p) : p \in f.programs}]

\* updateHiddenDomain and updateHiddenProgram.
UpdateHidden(h, old, new) ==
  IF old \in h THEN (h \ {old}) \cup ({new} \ {NoName}) ELSE h

OneLess(index) == IF index > NotInStack THEN index - 1 ELSE index

\* Mutant: when the oldest instance goes, the saved index stays.
PushKeepsSavedIndex(c, changeType) ==
  LET entry == stack[current_index + 1]
      changed == [conf |-> [current EXCEPT !.content = c], changeType |-> changeType]
      longer == SubSeq(stack, 1, current_index) \o <<entry, changed>>
      over == Len(longer) > MaxStackSize
  IN  /\ stack' = IF over THEN Tail(longer) ELSE longer
      /\ current_index' = IF over THEN current_index ELSE current_index + 1
      /\ UNCHANGED last_saved_index
      /\ savedGone' = (savedGone \/ last_saved_index > current_index)
      /\ UNCHANGED <<programs, disk, rewritten>>

\* Mutant: the redo part of the stack is kept.
PushKeepsRedo(c, changeType) ==
  LET entry == stack[current_index + 1]
      changed == [conf |-> [current EXCEPT !.content = c], changeType |-> changeType]
      longer == SubSeq(stack, 1, current_index) \o <<entry, changed>>
                  \o SubSeq(stack, current_index + 2, Len(stack))
      over == Len(longer) > MaxStackSize
  IN  /\ stack' = IF over THEN Tail(longer) ELSE longer
      /\ current_index' = IF over THEN current_index ELSE current_index + 1
      /\ last_saved_index' = IF over THEN OneLess(last_saved_index) ELSE last_saved_index
      /\ savedGone' = (savedGone \/ last_saved_index > current_index)
      /\ UNCHANGED <<programs, disk, rewritten>>

\* Mutant: the stack grows without limit.
PushWithoutLimit(c, changeType) ==
  /\ stack' = SubSeq(stack, 1, current_index + 1)
                \o <<[conf |-> [current EXCEPT !.content = c], changeType |-> changeType]>>
  /\ current_index' = current_index + 1
  /\ savedGone' = (savedGone \/ last_saved_index > current_index)
  /\ UNCHANGED <<last_saved_index, programs, disk, rewritten>>

\* The current instance now has the content c; pushCurrentInstance puts the
\* copy from before the change under it, with the change type the instance had,
\* drops what could be redone and, if there are too many, the oldest one.
Push(c, changeType) ==
  LET entry == stack[current_index + 1]
      changed == [conf |-> [current EXCEPT !.content = c], changeType |-> changeType]
      longer == SubSeq(stack, 1, current_index) \o <<entry, changed>>
      over == Len(longer) > MaxStackSize
  IN  /\ stack' = IF over THEN Tail(longer) ELSE longer
      /\ current_index' = IF over THEN current_index ELSE current_index + 1
      /\ last_saved_index' = IF over THEN OneLess(last_saved_index) ELSE last_saved_index
      /\ savedGone' = (savedGone \/ last_saved_index > current_index)
      /\ UNCHANGED <<programs, disk, rewritten>>

\* The rules there may be after an edit: some of the ones there were and some new
\* ones, of programs the editor knows or that other rules have.
Edits ==
  {rs \in SUBSET (current.content.rules
                  \cup {OwnRule(p) : p \in programs \cup ProgramsIn(current.content)}) :
     Cardinality(rs) <= MaxRules}

\* onRulesChanged, onLoopsChanged, onAllRulesChanged after an edit of the rules.
ChangeRules(rs) ==
  /\ Push([current.content EXCEPT !.rules = rs], NoRenaming)
  /\ UNCHANGED hidden

\* onDomainChanged, with the null name for a domain that is new or is gone.
DomainChanged(c, old, new) ==
  /\ Push(c, [old |-> old, new |-> new])
  /\ hidden_domains' = UpdateHidden(hidden_domains, old, new)
  /\ UNCHANGED <<hidden_programs, hiddenUnknown>>

AddDomain(n) ==
  /\ n \notin current.content.domains
  /\ Cardinality(current.content.domains) < MaxDomains
  /\ DomainChanged([current.content EXCEPT !.domains = @ \cup {n}], NoName, n)

\* DomainDialog::editDomain: the new name is the old one or is not in use.
\* The rules that name the domain are put in again.
UpdateDomain(o, n, rs) ==
  /\ o \in current.content.domains
  /\ n \notin current.content.domains \ {o}
  /\ current.content.rules \subseteq rs
  /\ DomainChanged([domains |-> (current.content.domains \ {o}) \cup {n}, rules |-> rs], o, n)

\* The ones that have no domain left go.
DeleteDomain(n, rs) ==
  /\ n \in current.content.domains
  /\ DomainChanged([domains |-> current.content.domains \ {n}, rules |-> rs], n, NoName)

-----------------------------------------------------------------------------
\* emitSignalForChangeType: the hidden domains follow a renaming.
SignalFor(changeType) ==
  /\ hidden_domains' = UpdateHidden(hidden_domains, changeType.old, changeType.new)
  /\ UNCHANGED <<hidden_programs, hiddenUnknown>>

Revert(changeType) == [old |-> changeType.new, new |-> changeType.old]

\* Mutant: undo follows the renaming of the instance it goes back to.
UndoSignalsOlder ==
  /\ current_index > 0
  /\ current_index' = current_index - 1
  /\ SignalFor(Revert(stack[current_index].changeType))
  /\ UNCHANGED <<stack, last_saved_index, programs, saving>>

\* onUndo; the action is enabled only if canUndo().
OnUndo ==
  /\ current_index > 0
  /\ current_index' = current_index - 1
  /\ SignalFor(Revert(stack[current_index + 1].changeType))
  /\ UNCHANGED <<stack, last_saved_index, programs, saving>>

OnRedo ==
  /\ current_index + 1 < Len(stack)
  /\ current_index' = current_index + 1
  /\ SignalFor(stack[current_index + 2].changeType)
  /\ UNCHANGED <<stack, last_saved_index, programs, saving>>

-----------------------------------------------------------------------------
(* Programs.                                                               *)

\* setProgram of all rules kept under a name of DOMAIN g.
Rewrite(c, g) ==
  [c EXCEPT !.rules = {[r EXCEPT !.program = IF r.under \in DOMAIN g THEN g[r.under] ELSE @] :
                         r \in c.rules}]

\* Mutant: only the current instance learns of the programs.
InCurrentInstance(ps, g) ==
  stack' = [stack EXCEPT ![current_index + 1].conf = [content |-> Rewrite(@.content, g),
                                                      programs |-> ps]]

\* All instances of the stack, and the copy, get the programs and the changes g
\* in their rules.
InAllInstances(ps, g) ==
  stack' = [k \in DOMAIN stack |->
             [stack[k] EXCEPT !.conf = [content |-> Rewrite(stack[k].conf.content, g),
                                        programs |-> ps]]]

\* This is no edit: nothing is pushed and no index moves.
SetPrograms(ps, g, old, new) ==
  /\ programs' = ps
  /\ InAllInstances(ps, g)
  /\ hidden_programs' = UpdateHidden(hidden_programs, old, new)
  /\ rewritten' = (rewritten \/ \E k \in DOMAIN stack :
                     Rewrite(stack[k].conf.content, g) # stack[k].conf.content)
  /\ hiddenUnknown' = hiddenUnknown \cap hidden_programs'
  /\ UNCHANGED <<current_index, last_saved_index, hidden_domains, disk, savedGone>>

\* addProgram of a program that is not known; there may be one whose file has
\* the same path, which is removed if the user agrees.  Rules kept under either
\* name have that name again.
AddProgram(p, gone) ==
  /\ p \notin programs
  /\ gone \in programs \cup {NoName}
  /\ SetPrograms((programs \ {gone}) \cup {p}, [q \in {p, gone} \ {NoName} |-> q], gone, NoName)

\* addProgram of a program that is known: the old one is removed first.
ReplaceProgram(p) ==
  /\ p \in programs
  /\ SetPrograms(programs, [q \in {p} |-> q], p, NoName)

UpdateProgram(o, n) ==
  /\ o \in programs
  /\ n \notin programs \ {o}
  /\ SetPrograms((programs \ {o}) \cup {n}, [q \in {o} |-> n], o, n)

\* The rules of a program that goes get an unknown program of the same name.
DeleteProgram(p) ==
  /\ p \in programs
  /\ SetPrograms(programs \ {p}, [q \in {p} |-> q], p, NoName)

\* addHiddenDomain and removeHiddenDomain, for the domains on display.
HideDomain(n) ==
  /\ n \in current.content.domains
  /\ hidden_domains' \in {hidden_domains \cup {n}, hidden_domains \ {n}}
  /\ Cardinality(hidden_domains') + Cardinality(hidden_programs) <= MaxHidden
  /\ UNCHANGED <<stack, current_index, last_saved_index, programs, hidden_programs,
                 hiddenUnknown, saving>>

\* addHiddenProgram and removeHiddenProgram, for the programs on display: the
\* known ones and the ones on the arrows of rules, which may be unknown.
HideProgram(p) ==
  /\ p \in programs \cup ProgramsIn(current.content)
  /\ hidden_programs' = hidden_programs \cup {p}
  /\ Cardinality(hidden_programs') + Cardinality(hidden_domains) <= MaxHidden
  /\ hiddenUnknown' = hiddenUnknown \cup ({p} \ programs)
  /\ UNCHANGED <<stack, current_index, last_saved_index, programs, hidden_domains, saving>>

\* One of them, or with the others by onShowAllItems.
ShowProgram(p) ==
  /\ p \in hidden_programs
  /\ hidden_programs' = hidden_programs \ {p}
  /\ hiddenUnknown' = hiddenUnknown \ {p}
  /\ UNCHANGED <<stack, current_index, last_saved_index, programs, hidden_domains, saving>>

-----------------------------------------------------------------------------
(* Files.                                                                  *)

\* saveTransitions, to the path there is or to another one.
Save ==
  /\ disk' = Written(current.content)
  /\ last_saved_index' = current_index
  /\ savedGone' = FALSE
  /\ rewritten' = FALSE
  /\ UNCHANGED <<stack, current_index, programs, hidden>>

\* write() fails and returns -1, or the data are lost when they are flushed: only
\* a 0 is taken for a failure, and the instance counts as saved.
SaveLost ==
  /\ disk' = Truncated
  /\ last_saved_index' = current_index
  /\ savedGone' = FALSE
  /\ rewritten' = FALSE
  /\ UNCHANGED <<stack, current_index, programs, hidden>>

\* The file is open, and so empty, and write() writes nothing and returns 0.
SaveFails ==
  /\ disk # NoFile
  /\ disk' = Truncated
  /\ UNCHANGED <<stack, current_index, last_saved_index, programs, hidden, savedGone, rewritten>>

\* onNew and the ways to open a file first propose to save if there are
\* changes.  If the user saves, the saved file is not the one that stays; the
\* next configuration is c, and f is what is at its path if there is one.
Reinitialise(c, f) ==
  /\ Initialise(c, programs)
  /\ disk' = f
  /\ UNCHANGED programs

New == Reinitialise(NewContent, NoFile)

\* A bound on the files that are opened.
Small(f) == Cardinality(f.domains) <= MaxDomains /\ Cardinality(f.programs) <= MaxRules

Open(f) == Small(f) /\ Reinitialise(Read(f), f)

\* openTmpTransitions forgets the path of the autosaved file.
OpenTmp(f) == Small(f) /\ Reinitialise(Read(f), NoFile)

\* It does so too if the file was not opened, and then it is the path of the
\* configuration that stays.
OpenTmpFails ==
  /\ disk' = NoFile
  /\ UNCHANGED <<stack, current_index, last_saved_index, programs, hidden, savedGone, rewritten>>

-----------------------------------------------------------------------------
Next ==
  \/ \E rs \in Edits : ChangeRules(rs)
  \/ \E n \in Names : AddDomain(n)
  \/ \E o, n \in Names, rs \in Edits : UpdateDomain(o, n, rs)
  \/ \E n \in Names, rs \in Edits : DeleteDomain(n, rs)
  \/ OnUndo \/ OnRedo
  \/ \E p \in ProgNames : \E gone \in programs \cup {NoName} : AddProgram(p, gone)
  \/ \E p \in ProgNames : ReplaceProgram(p) \/ DeleteProgram(p)
  \/ \E o, n \in ProgNames : UpdateProgram(o, n)
  \/ \E n \in Names : HideDomain(n)
  \/ \E p \in ProgNames : HideProgram(p) \/ ShowProgram(p)
  \/ Save \/ SaveLost \/ SaveFails \/ New
  \/ \E f \in Files : Open(f) \/ OpenTmp(f)
  \/ OpenTmpFails

Spec == Init /\ [][Next]_vars

-----------------------------------------------------------------------------
(* Properties *)

\* The ways a change of the programs may rewrite a content.
Rewritings ==
  {[c \in Contents |-> Rewrite(c, g)] : g \in UNION {[S -> ProgNames] : S \in SUBSET ProgNames}}

History == INSTANCE EditHistory
             WITH past <- [k \in 1..current_index |-> stack[k].conf],
                  present <- current,
                  future <- [k \in 1..(Len(stack) - current_index - 1) |->
                               stack[current_index + 1 + k].conf],
                  Depth <- MaxStackSize - 1,
                  ProgramSets <- SUBSET ProgNames

\* Undo and redo: the stack with its in-place changes, insertions and two
\* indices is a history of at most MaxStackSize configurations in which undo
\* gives back the configuration before the last edit, redo the one after it, and
\* every program change is in all of them.
ImplementsHistory == History!ASpec

\* Through every edit, undo and redo the hidden domains are domains of the
\* current configuration, and the hidden programs are known ones, but for those
\* that the user hid on the arrow of a rule while no program of that name was
\* known: no other name is hidden that is not there, which would hide a later
\* domain or program of that name.
HiddenAreThere ==
  /\ hidden_domains \subseteq current.content.domains
  /\ hidden_programs \subseteq programs \cup hiddenUnknown

\* All instances undo and redo can reach know the programs the editor knows.
SamePrograms == \A k \in DOMAIN stack : stack[k].conf.programs = programs

\* hasChanges() tells whether the current instance has changed since it was
\* saved: if it says no, and no change of the programs has rewritten rules since,
\* the file, unless writing it failed, holds the current configuration.
UnchangedIsSaved ==
  ~hasChanges /\ ~rewritten /\ disk \in Files => disk = Written(current.content)

\* So it is as long as the saved instance has not been dropped from the stack by
\* an edit made after an undo; and if rules were rewritten, which hasChanges()
\* does not tell, the file still has the domains of the current configuration.
UnchangedIsSavedWhileKept ==
  \/ savedGone
  \/ /\ UnchangedIsSaved
     /\ ~hasChanges /\ disk \in Files => disk.domains = current.content.domains

\* The inductive invariant: the instance at the saved index, if it is still in
\* the stack, holds what was saved, but for the programs of its rules.
SavedInstance ==
  ~savedGone /\ last_saved_index >= 0 /\ disk \in Files =>
    /\ last_saved_index < Len(stack)
    /\ LET saved == stack[last_saved_index + 1].conf.content
       IN  /\ saved.domains = disk.domains
           /\ rewritten \/ Written(saved) = disk

\* Each change type is the renaming between two neighbours of the stack.
RenamingsChain ==
  \A k \in 2..Len(stack) :
    LET before == stack[k - 1].conf.content.domains
        after == stack[k].conf.content.domains
        t == stack[k].changeType
    IN  /\ t.old # NoName => t.old \in before
        /\ t.new # NoName => t.new \in after
        /\ before \ {t.old} = after \ {t.new}

StackInv == TypeOK /\ SamePrograms /\ SavedInstance /\ RenamingsChain /\ HiddenAreThere
=============================================================================
