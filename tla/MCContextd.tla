----------------------------- MODULE MCContextd -----------------------------
EXTENDS Contextd, TLC

CONSTANTS editor, copy, viewer, edit, edit2, view, work, home, read, save

\* editor is known under two names; copy is another executable with the
\* editor's task name.
CommOf == editor :> edit @@ copy :> edit @@ viewer :> view
PathOf == edit :> editor @@ edit2 :> editor @@ view :> viewer
MCComm == [e \in Exes |-> CommOf[e]]
MCFullPath == [n \in Names |-> PathOf[n]]

Goes(d, b) == [to |-> d, prompt |-> b]

\* Reading keeps the domain; saving moves between the two, with a prompt one
\* way; only the editor under its first name may save.
MCFirstMatch ==
  [n \in Names |-> [d \in Domains |-> [x \in Contexts |->
    IF x = read THEN Goes(d, FALSE)
    ELSE IF n # edit THEN NoTransition
    ELSE IF d = home THEN Goes(work, TRUE) ELSE Goes(home, FALSE)]]]
=============================================================================
