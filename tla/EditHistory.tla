----------------------------- MODULE EditHistory -----------------------------
(***************************************************************************)
(* What an editor with undo and redo promises: a present configuration,    *)
(* the past ones undo goes back to, at most Depth of them, and the future  *)
(* ones redo goes forward to.  Which programs are known is not part of the *)
(* history: a program that is added, renamed or removed is so in all of    *)
(* it, and the rules of all of it have its new name.                       *)
(***************************************************************************)
EXTENDS Integers, Sequences

CONSTANTS
  Depth,        \* a natural number
  Contents, ProgramSets,
  Rewritings    \* functions on Contents: what a change of the programs may do to one

VARIABLES past, present, future

avars == <<past, present, future>>

Configurations == [content : Contents, programs : ProgramSets]

AInit ==
  /\ past = <<>>
  /\ present \in Configurations
  /\ future = <<>>

\* The oldest configuration is forgotten when there are too many.
Remember(h) == IF Len(h) > Depth THEN Tail(h) ELSE h

Edit ==
  /\ past' = Remember(Append(past, present))
  /\ present' \in Configurations /\ present'.programs = present.programs
  /\ future' = <<>>

Undo ==
  /\ past # <<>>
  /\ past' = SubSeq(past, 1, Len(past) - 1)
  /\ present' = past[Len(past)]
  /\ future' = <<present>> \o future

Redo ==
  /\ future # <<>>
  /\ past' = Append(past, present)
  /\ present' = Head(future)
  /\ future' = Tail(future)

With(conf, ps, f) == [content |-> f[conf.content], programs |-> ps]

\* Every configuration of a history h with the programs ps.
AllWith(h, ps, f) == [k \in DOMAIN h |-> With(h[k], ps, f)]

ChangePrograms ==
  \E ps \in ProgramSets, f \in Rewritings :
    /\ present' = With(present, ps, f)
    /\ past' = AllWith(past, ps, f)
    /\ future' = AllWith(future, ps, f)

\* Another file, or a new one, with the programs there are.
Restart ==
  /\ past' = <<>>
  /\ present' \in Configurations /\ present'.programs = present.programs
  /\ future' = <<>>

ANext == Edit \/ Undo \/ Redo \/ Restart \/ ChangePrograms

ASpec == AInit /\ [][ANext]_avars
=============================================================================
