-------------------------- MODULE ProgramListProofs --------------------------
(***************************************************************************)
(* What ProgramList says of the programs the kernel asks about, for every  *)
(* set of programs, every way in which their names begin alike, and every  *)
(* order of changes, reloads, refusals, crashes and resets.                *)
(***************************************************************************)
EXTENDS ProgramList, TLAPS

USE TooLongType, OverDBusType

\* What the kernel accepts or refuses leaves its list one of names.
LEMMA RegisterProgTypes ==
  ASSUME NEW p \in Progs, RegisterProg(p),
         prog_list \in SUBSET KeysOf(Progs), refused \in SUBSET Progs,
         overtaken \in SUBSET Progs, wiped \in SUBSET Progs
  PROVE  /\ prog_list' \in SUBSET KeysOf(Progs) /\ refused' \in SUBSET Progs
         /\ overtaken' \in SUBSET Progs /\ wiped' \in SUBSET Progs
         /\ adding' = NoProg
  BY DEF RegisterProg, KeysOf

\* Every action keeps the types.
LEMMA TypesStay ==
  ASSUME TypeOK, InPass, [Next]_vars
  PROVE  TypeOK'
<1>1. CASE \E p \in Progs : ProgramChanges(p)
  BY <1>1 DEF TypeOK, ProgramChanges, contextd, kernel, history
<1>2. CASE \E p \in Progs : StartNext(p)
  <2> PICK p \in Progs : StartNext(p)
    BY <1>2
  <2>1. /\ prog_list' \in SUBSET KeysOf(Progs) /\ refused' \in SUBSET Progs
        /\ overtaken' \in SUBSET Progs /\ wiped' \in SUBSET Progs
        /\ adding' = NoProg
    BY RegisterProgTypes DEF TypeOK, StartNext
  <2> QED
    BY <2>1 DEF TypeOK, InPass, StartNext, Due, Passed
<1>3. CASE \E p \in Progs : RegisterNext(p)
  <2> PICK p \in Progs : RegisterNext(p)
    BY <1>3
  <2>1. /\ prog_list' \in SUBSET KeysOf(Progs) /\ refused' \in SUBSET Progs
        /\ overtaken' \in SUBSET Progs /\ wiped' \in SUBSET Progs
        /\ adding' \in Progs \cup {NoProg}
    BY RegisterProgTypes DEF TypeOK, RegisterNext, history
  <2> QED
    BY <2>1 DEF TypeOK, RegisterNext, Passed
<1>4. CASE \E p \in Progs : UnregisterNext(p)
  BY <1>4 DEF TypeOK, UnregisterNext, UnregisterProg, Passed
<1>5. CASE Start
  BY <1>5 DEF TypeOK, Start, clearProgList
<1>6. CASE StartEnds \/ RegisterEnds \/ ReloadEnds
  BY <1>6 DEF TypeOK, StartEnds, RegisterEnds, ReloadEnds, kernel, history
<1>7. CASE reloadProgramList
  BY <1>7 DEF TypeOK, reloadProgramList, clearProgList, kernel, history
<1>8. CASE Terminate \/ Crash \/ Reset
  BY <1>8, MaxResetsType
     DEF TypeOK, Terminate, Crash, Reset, Off, Forget, contextd, history
<1>9. CASE \E p \in Progs : register_prog(p)
  BY <1>9 DEF TypeOK, register_prog, contextd, history
<1>10. CASE clean_prog_list
  BY <1>10, MaxResetsType DEF TypeOK, clean_prog_list, contextd
<1>11. CASE UNCHANGED vars
  BY <1>11 DEF TypeOK, vars, contextd, kernel, history
<1> QED
  BY <1>1, <1>2, <1>3, <1>4, <1>5, <1>6, <1>7, <1>8, <1>9, <1>10, <1>11 DEF Next

\* Every action keeps to the list it goes through, and a list that was cleaned for
\* good holds only what was added too late.
LEMMA PassesStay ==
  ASSUME TypeOK, InPass, [Next]_vars
  PROVE  InPass'
<1>1. CASE \E p \in Progs : ProgramChanges(p)
  BY <1>1 DEF InPass, Due, KeysOf, ProgramChanges, contextd, kernel, history
<1>2. CASE \E p \in Progs : StartNext(p)
  <2> PICK p \in Progs : StartNext(p)
    BY <1>2
  <2>1. contextd_pid' = "none" /\ cleaning' = 0 => prog_list' \subseteq KeysOf(overtaken')
    BY DEF InPass, StartNext, RegisterProg, KeysOf
  <2> QED
    BY <2>1 DEF InPass, StartNext, RegisterProg, Due, Passed
<1>3. CASE \E p \in Progs : RegisterNext(p)
  <2> PICK p \in Progs : RegisterNext(p)
    BY <1>3
  <2>1. contextd_pid' = "none" /\ cleaning' = 0 => prog_list' \subseteq KeysOf(overtaken')
    BY DEF InPass, RegisterNext, RegisterProg, KeysOf, history
  <2>2. adding # NoProg => adding = p
    <3> SUFFICES ASSUME adding # NoProg
                 PROVE  adding = p
      OBVIOUS
    <3>1. adding \in todo /\ p \in todo /\ adding <= p /\ p <= adding
      BY DEF InPass, RegisterNext, Due
    <3>2. adding \in Nat /\ p \in Nat
      BY <3>1, NProgsType DEF TypeOK, Progs
    <3> QED
      BY <3>1, <3>2
  <2>3. adding' = NoProg
    BY <2>2 DEF InPass, RegisterNext, RegisterProg
  <2> QED
    BY <2>1, <2>3 DEF InPass, RegisterNext, Due, Passed
<1>4. CASE \E p \in Progs : UnregisterNext(p)
  <2> PICK p \in Progs : UnregisterNext(p)
    BY <1>4
  <2>1. contextd_pid' = "none" /\ cleaning' = 0 => prog_list' \subseteq KeysOf(overtaken')
    BY DEF InPass, UnregisterNext, UnregisterProg
  <2> QED
    BY <2>1 DEF InPass, UnregisterNext, UnregisterProg, Due, Passed
<1>5. CASE Start
  BY <1>5 DEF InPass, Start, clearProgList
<1>6. CASE StartEnds \/ RegisterEnds \/ ReloadEnds
  BY <1>6 DEF InPass, Due, StartEnds, RegisterEnds, ReloadEnds, kernel, history
<1>7. CASE reloadProgramList
  BY <1>7 DEF InPass, reloadProgramList, clearProgList, kernel, history
<1>8. CASE Terminate \/ Crash \/ Reset
  BY <1>8, MaxResetsType
     DEF TypeOK, InPass, Due, Terminate, Crash, Reset, Off, Forget, contextd, history
<1>9. CASE \E p \in Progs : register_prog(p)
  BY <1>9 DEF TypeOK, InPass, Accepts, Due, register_prog, contextd, history
<1>10. CASE clean_prog_list
  BY <1>10 DEF InPass, Due, clean_prog_list, contextd
<1>11. CASE UNCHANGED vars
  BY <1>11 DEF InPass, Due, vars, contextd, kernel, history
<1> QED
  BY <1>1, <1>2, <1>3, <1>4, <1>5, <1>6, <1>7, <1>8, <1>9, <1>10, <1>11 DEF Next

\* What the kernel has is a program that is, or is about to be, listed.
LEMMA NoMoreStays ==
  ASSUME TypeOK, InPass, NoMore, [Next]_vars
  PROVE  NoMore'
<1>1. CASE \E p \in Progs : ProgramChanges(p)
  BY <1>1 DEF NoMore, Current, KeysOf, ProgramChanges, contextd, kernel, history
<1>2. CASE \E p \in Progs : StartNext(p)
  <2> SUFFICES ASSUME cleaning' = 0
               PROVE  NoMore'
    BY DEF NoMore
  <2> PICK p \in Progs : StartNext(p)
    BY <1>2
  <2>1. /\ phase = "start" /\ phase' = "start"
        /\ prog_list \subseteq KeysOf(programList \cup overtaken)
    BY DEF StartNext, NoMore, Current
  <2>2. /\ \/ prog_list' = prog_list
           \/ prog_list' = prog_list \cup {Key[p]} /\ p \notin refused'
        /\ overtaken \subseteq overtaken'
    BY DEF StartNext, RegisterProg
  <2>3. prog_list' \subseteq KeysOf(programList' \cup overtaken')
    BY <2>1, <2>2 DEF StartNext, KeysOf
  <2> QED
    BY <2>1, <2>3 DEF NoMore, Current, KeysOf
<1>3. CASE \E p \in Progs : RegisterNext(p)
  <2> SUFFICES ASSUME cleaning' = 0
               PROVE  NoMore'
    BY DEF NoMore
  <2> PICK p \in Progs : RegisterNext(p)
    BY <1>3
  <2>1. /\ phase = "register" /\ phase' = "register" /\ tmp' = tmp /\ p \in tmp
        /\ prog_list \subseteq KeysOf(programList \cup (tmp \ todo) \cup overtaken)
    BY DEF RegisterNext, InPass, Due, NoMore, Current
  <2>2. programList \cup (tmp \ todo) \subseteq programList' \cup (tmp \ todo')
    BY <2>1 DEF RegisterNext, Passed
  <2>3. p \in tmp \ todo'
    BY <2>1 DEF RegisterNext, Passed
  <2>4. /\ prog_list' = prog_list \/ prog_list' = prog_list \cup {Key[p]}
        /\ overtaken \subseteq overtaken'
    BY DEF RegisterNext, RegisterProg, history
  <2>5. prog_list' \subseteq KeysOf(programList' \cup (tmp \ todo') \cup overtaken')
    BY <2>1, <2>2, <2>3, <2>4 DEF KeysOf
  <2> QED
    BY <2>1, <2>5 DEF NoMore, Current, KeysOf
<1>4. CASE \E p \in Progs : UnregisterNext(p)
  <2> SUFFICES ASSUME cleaning' = 0
               PROVE  NoMore'
    BY DEF NoMore
  <2> PICK p \in Progs : UnregisterNext(p)
    BY <1>4
  <2>1. /\ phase = "unregister" /\ phase' = "unregister" /\ tmp' = tmp
        /\ prog_list \subseteq KeysOf(tmp \cup todo \cup overtaken)
        /\ contextd_pid' = contextd_pid /\ cleaning = 0
    BY DEF UnregisterNext, NoMore, Current
  <2>2. CASE contextd_pid = "contextd"
    <3>1. /\ prog_list' = prog_list \ {Key[p]} /\ todo' = todo \ {p}
          /\ overtaken' = {q \in overtaken : Key[q] # Key[p]}
      BY <2>2 DEF UnregisterNext, UnregisterProg, Passed
    <3>2. prog_list' \subseteq KeysOf(tmp \cup todo' \cup overtaken')
      BY <2>1, <3>1 DEF KeysOf
    <3> QED
      BY <2>1, <3>2 DEF NoMore, Current, KeysOf
  <2>3. CASE contextd_pid # "contextd"
    <3>1. prog_list' \subseteq KeysOf(overtaken')
      BY <2>1, <2>3 DEF TypeOK, InPass, UnregisterNext, UnregisterProg
    <3> QED
      BY <3>1 DEF NoMore, KeysOf
  <2> QED
    BY <2>2, <2>3
<1>5. CASE Start
  BY <1>5 DEF NoMore, Current, KeysOf, InPass, Start
<1>6. CASE StartEnds
  BY <1>6 DEF NoMore, Current, KeysOf, StartEnds, kernel, history
<1>7. CASE RegisterEnds
  <2>1. Current' = Current
    BY <1>7 DEF Current, RegisterEnds
  <2> QED
    BY <1>7, <2>1 DEF NoMore, KeysOf, RegisterEnds, kernel, history
<1>8. CASE ReloadEnds
  <2>1. Current' = Current
    BY <1>8 DEF Current, ReloadEnds
  <2> QED
    BY <1>8, <2>1 DEF NoMore, KeysOf, ReloadEnds, kernel, history
<1>9. CASE reloadProgramList
  <2>1. Current' = Current
    BY <1>9 DEF Current, reloadProgramList
  <2> QED
    BY <1>9, <2>1 DEF NoMore, KeysOf, reloadProgramList, kernel, history
<1>10. CASE Terminate \/ Crash
  BY <1>10 DEF NoMore, Terminate, Crash, Off
<1>11. CASE Reset
  BY <1>11 DEF TypeOK, NoMore, Reset, Forget
<1>12. CASE \E p \in Progs : register_prog(p)
  BY <1>12 DEF NoMore, Current, KeysOf, register_prog, contextd, history
<1>13. CASE clean_prog_list
  BY <1>13 DEF NoMore, clean_prog_list
<1>14. CASE UNCHANGED vars
  BY <1>14 DEF NoMore, Current, KeysOf, vars, contextd, kernel, history
<1> QED
  BY <1>1, <1>2, <1>3, <1>4, <1>5, <1>6, <1>7, <1>8, <1>9, <1>10, <1>11, <1>12, <1>13, <1>14
     DEF Next

\* What is listed and was not refused the kernel has.  Unregistering another
\* program does not take it away: its name is not too long, so it is alone in
\* beginning as it does.
LEMMA NoLessStays ==
  ASSUME TypeOK, InPass, NoLess, [Next]_vars
  PROVE  NoLess'
<1>1. CASE \E p \in Progs : ProgramChanges(p)
  <2>1. Current' = Current
    BY <1>1 DEF Current, ProgramChanges, contextd
  <2> QED
    BY <1>1, <2>1 DEF NoLess, ProgramChanges, contextd, kernel, history
<1>2. CASE \E p \in Progs : StartNext(p)
  <2> PICK p \in Progs : StartNext(p)
    BY <1>2
  <2>1. /\ phase = "start" /\ phase' = "start" /\ contextd_pid' = contextd_pid
        /\ Current = programList /\ Current' = programList'
    BY DEF StartNext, Current
  <2>2. \/ /\ prog_list' = prog_list \cup {Key[p]}
           /\ refused' = refused \ {p} /\ wiped' = wiped \ {p}
        \/ prog_list' = prog_list /\ refused' = refused \cup {p} /\ wiped' = wiped
    BY DEF StartNext, RegisterProg
  <2>3. \A q \in programList' \ (refused' \cup wiped' \cup TooLong) :
          q = p \/ q \in programList \ (refused \cup wiped \cup TooLong)
    BY <2>2 DEF StartNext
  <2> QED
    BY <2>1, <2>2, <2>3 DEF NoLess
<1>3. CASE \E p \in Progs : RegisterNext(p)
  <2> PICK p \in Progs : RegisterNext(p)
    BY <1>3
  <2>1. /\ phase = "register" /\ phase' = "register" /\ contextd_pid' = contextd_pid
        /\ Current = programList \cup (tmp \ todo)
        /\ Current' = programList' \cup (tmp \ todo')
        /\ todo' = todo \ {p} /\ p \in tmp
    BY DEF RegisterNext, Current, Passed, Due, InPass
  <2>2. CASE p \in programList
    <3>1. Current' = Current
      BY <2>1, <2>2 DEF RegisterNext
    <3> QED
      BY <2>1, <2>2, <3>1 DEF NoLess, RegisterNext, history
  <2>3. CASE p \notin programList
    <3>1. Current' \subseteq Current \cup {p}
      BY <2>1, <2>3 DEF RegisterNext
    <3>2. \/ /\ prog_list' = prog_list \cup {Key[p]}
           /\ refused' = refused \ {p} /\ wiped' = wiped \ {p}
          \/ prog_list' = prog_list /\ refused' = refused \cup {p} /\ wiped' = wiped
      BY <2>3 DEF RegisterNext, RegisterProg
    <3> QED
      BY <2>1, <3>1, <3>2 DEF NoLess
  <2> QED
    BY <2>2, <2>3
<1>4. CASE \E p \in Progs : UnregisterNext(p)
  <2> PICK p \in Progs : UnregisterNext(p)
    BY <1>4
  <2>1. /\ phase = "unregister" /\ phase' = "unregister" /\ tmp' = tmp
        /\ contextd_pid' = contextd_pid
        /\ refused' = refused \ {p} /\ wiped' = wiped \ {p}
        /\ prog_list \ {Key[p]} \subseteq prog_list'
    BY DEF UnregisterNext, UnregisterProg
  <2>2. p \notin tmp
    BY <2>1 DEF UnregisterNext, Due, InPass
  <2>3. \A q \in tmp \ TooLong : Key[p] # Key[q]
    BY <2>2, ShortIsWhole DEF TypeOK
  <2>4. \A q \in tmp \ (refused' \cup wiped' \cup TooLong) : q \in tmp \ (refused \cup wiped \cup TooLong)
    BY <2>1, <2>2
  <2> QED
    BY <2>1, <2>3, <2>4 DEF NoLess
<1>5. CASE Start
  BY <1>5 DEF NoLess, Current, Start
<1>6. CASE StartEnds
  <2>1. Current' = Current
    BY <1>6 DEF Current, StartEnds
  <2> QED
    BY <1>6, <2>1 DEF NoLess, StartEnds, kernel, history
<1>7. CASE RegisterEnds
  <2>1. /\ phase = "register" /\ phase' = "unregister" /\ tmp' = tmp
        /\ contextd_pid' = contextd_pid /\ prog_list' = prog_list /\ refused' = refused
        /\ wiped' = wiped
        /\ tmp \subseteq Current
    BY <1>7 DEF Current, RegisterEnds, kernel, history
  <2> QED
    BY <2>1 DEF NoLess
<1>8. CASE ReloadEnds
  <2>1. /\ phase = "unregister" /\ phase' = "up"
        /\ contextd_pid' = contextd_pid /\ prog_list' = prog_list /\ refused' = refused
        /\ wiped' = wiped
        /\ Current' = tmp
    BY <1>8 DEF Current, ReloadEnds, kernel, history
  <2> QED
    BY <2>1 DEF NoLess
<1>9. CASE reloadProgramList
  <2>1. /\ phase = "up" /\ phase' = "register"
        /\ contextd_pid' = contextd_pid /\ prog_list' = prog_list /\ refused' = refused
        /\ wiped' = wiped
        /\ Current' = Current
    BY <1>9 DEF Current, reloadProgramList, kernel, history
  <2> QED
    BY <2>1 DEF NoLess
<1>10. CASE Terminate \/ Crash \/ Reset
  BY <1>10 DEF NoLess, Terminate, Crash, Reset, Off, Forget
<1>11. CASE \E p \in Progs : register_prog(p)
  <2>1. Current' = Current
    BY <1>11 DEF Current, register_prog, contextd
  <2> QED
    BY <1>11, <2>1 DEF NoLess, register_prog, contextd, history
<1>12. CASE clean_prog_list
  <2>1. /\ Current' = Current /\ phase' = phase /\ tmp' = tmp
        /\ contextd_pid' = contextd_pid /\ refused' = refused
    BY <1>12 DEF Current, clean_prog_list, contextd
  <2>2. (IF phase = "unregister" THEN tmp ELSE Current) \subseteq Progs
    BY DEF TypeOK, Current
  <2>3. wiped' = wiped \cup {p \in Progs : Key[p] \in prog_list}
    BY <1>12 DEF clean_prog_list
  <2> QED
    BY <2>1, <2>2, <2>3 DEF NoLess
<1>13. CASE UNCHANGED vars
  <2>1. Current' = Current
    BY <1>13 DEF Current, vars, contextd
  <2> QED
    BY <1>13, <2>1 DEF NoLess, vars, contextd, kernel, history
<1> QED
  BY <1>1, <1>2, <1>3, <1>4, <1>5, <1>6, <1>7, <1>8, <1>9, <1>10, <1>11, <1>12, <1>13 DEF Next

-----------------------------------------------------------------------------
\* reloadProgramList() and the constructor keep contextd's list, and the pass
\* they are in, in step with what the kernel has registered.
THEOREM ListInvHolds == Spec => []ListInv
<1>1. Init => ListInv
  BY MaxResetsType DEF Init, ListInv, TypeOK, InPass, NoMore, NoLess, KeysOf
<1>2. ListInv /\ [Next]_vars => ListInv'
  BY TypesStay, PassesStay, NoMoreStays, NoLessStays DEF ListInv
<1> QED
  BY <1>1, <1>2, PTL DEF Spec

\* The lists of KernelContext and of the kernel hold what they should, the
\* programs that talk over D-Bus left out.
THEOREM TypeCorrect == Spec => []TypeOK
<1>1. ListInv => TypeOK
  BY DEF ListInv
<1> QED
  BY <1>1, ListInvHolds, PTL

\* Whatever the kernel refused and however names begin alike, between reloads
\* the kernel has no program that contextd would not unregister.
THEOREM NothingIsLeftBehind == Spec => []NothingLeftBehind
<1>1. ListInv => NothingLeftBehind
  BY DEF ListInv, NoMore, Current, NothingLeftBehind
<1> QED
  BY <1>1, ListInvHolds, PTL

\* Between reloads the kernel asks about every program contextd lists that was
\* not refused or cleaned away and has a name short enough to be told from the others.
THEOREM NothingIsMissing == Spec => []NothingMissing
<1>1. ListInv => NothingMissing
  BY DEF ListInv, NoLess, Current, NothingMissing, prog_is_monitored
<1> QED
  BY <1>1, ListInvHolds, PTL
=============================================================================
