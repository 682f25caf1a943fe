------------------------- MODULE RotateWriterProofs -------------------------
(***************************************************************************)
(* Proofs about RotateWriter, for any limits, any length of the run, and   *)
(* a clock that jumps.  The inductive invariant follows the loop of        *)
(* cleanupLocked: what it has looked at is newer than what is left, and    *)
(* kept counts no more than the history files among it.                    *)
(***************************************************************************)
EXTENDS RotateWriter, FiniteSetTheorems, WellFoundedInduction, TLAPS

\* Outside a cleanup its locals are as Return leaves them.
CleanupIsFresh ==
  pc \in {"down", "idle", "rotate", "glob"} => kept = 0 /\ failed = "none"

\* The open file is one whose hour the clock showed during the call.
OpenedInCall ==
  /\ pc \in {"glob", "clean", "append"} /\ f => hour \in shown
  /\ pc \in {"glob", "clean"} => f

Looked == History \ todo

CleanupInOrder ==
  pc = "clean" =>
    /\ todo \subseteq Present
    /\ \A h \in Present \ todo, g \in todo : g < h
    /\ kept <= Cardinality(Looked)
    /\ failed = "none" => /\ kept = Cardinality(Looked)
                          /\ MaxAge > 0 => \A h \in Looked : files[h] >= cutoff

Inv == TypeOK /\ CleanupIsFresh /\ OpenedInCall /\ CleanupInOrder

-----------------------------------------------------------------------------
\* A bounded set of hours has a newest one.
LEMMA NewestExists ==
  ASSUME NEW n \in Nat, NEW S \in SUBSET (0..n), S # {}
  PROVE  \E h \in S : \A g \in S : g <= h
<1> DEFINE T == {n - h : h \in S}
<1>1. T \subseteq Nat
  <2> SUFFICES ASSUME NEW h \in S PROVE n - h \in Nat
    OBVIOUS
  <2> QED
    OBVIOUS
<1>2. T # {}
  OBVIOUS
<1>3. PICK x \in T : \A y \in T : ~ (<<y, x>> \in OpToRel(<, Nat))
  BY <1>1, <1>2, NatLessThanWellFounded, WFMin
<1>4. \A y \in T : ~(y < x)
  BY <1>1, <1>3 DEF OpToRel
<1>5. PICK h \in S : x = n - h
  OBVIOUS
<1>6. ASSUME NEW g \in S PROVE g <= h
  <2>1. ~(n - g < n - h)
    BY <1>4, <1>5
  <2>2. g \in Nat /\ h \in Nat
    OBVIOUS
  <2> QED
    BY <2>1, <2>2
<1> QED
  BY <1>6

LEMMA NewestIsNewest ==
  ASSUME NEW S \in SUBSET Hours, S # {}
  PROVE  Newest(S) \in S /\ \A g \in S : g <= Newest(S)
BY NewestExists, LimitsAreNumbers DEF Newest, Hours

\* Sets of hours are finite, and no larger than the day.
LEMMA HoursAreFinite ==
  ASSUME NEW S \in SUBSET Hours
  PROVE  IsFiniteSet(S) /\ Cardinality(S) \in Nat /\ Cardinality(S) <= Cardinality(Hours)
<1>1. IsFiniteSet(Hours)
  BY FS_Interval, LimitsAreNumbers DEF Hours
<1> QED
  BY <1>1, FS_Subset, FS_CardinalityType

-----------------------------------------------------------------------------
LEMMA InvInit == Init => Inv
<1> SUFFICES ASSUME Init PROVE Inv
  OBVIOUS
<1>1. Cardinality(Hours) \in Nat
  BY HoursAreFinite
<1>2. 0 \in Hours /\ 0 \in (-MaxAge)..MaxHour
  BY LimitsAreNumbers DEF Hours
<1>3. TypeOK
  <2>1. todo \subseteq Hours /\ shown \subseteq Hours
    BY DEF Init
  <2>2. kept \in 0..Cardinality(Hours) /\ cutoff \in (-MaxAge)..MaxHour
    BY <1>1, <1>2 DEF Init
  <2>3. files \in [Hours -> Hours \cup {NoFile}]
    BY DEF Init
  <2>4. f \in BOOLEAN /\ closed \in BOOLEAN
    BY Zenon DEF Init
  <2>6. failed \in {"none", "open", "cleanup"}
    BY DEF Init
  <2>5. clock \in Hours /\ hour \in Hours /\ pc = "down" /\ kept = 0
    BY <1>2 DEF Init
  <2> QED
    BY <2>1, <2>2, <2>3, <2>4, <2>5, <2>6, LimitsAreNumbers DEF TypeOK
<1> QED
  BY <1>3 DEF Init, Inv, CleanupIsFresh, OpenedInCall, CleanupInOrder

\* One turn of the loop looks at the newest file left; whether it skips,
\* removes, fails to remove or keeps it, the count follows.
LEMMA CleanKeepsInv ==
  ASSUME Inv, Clean
  PROVE  Inv'
<1> DEFINE h == Newest(todo)
<1>1. /\ pc = "clean" /\ todo # {} /\ todo \subseteq Present /\ Present \subseteq Hours
      /\ \A x \in Present \ todo, g \in todo : g < x
      /\ kept <= Cardinality(Looked)
      /\ failed = "none" => /\ kept = Cardinality(Looked)
                            /\ MaxAge > 0 => \A x \in Looked : files[x] >= cutoff
  BY DEF Clean, Inv, CleanupInOrder, Present
<1>2. h \in todo /\ h \in Present /\ h \in Hours /\ \A g \in todo : g <= h
  BY <1>1, NewestIsNewest
<1>3. todo' = todo \ {h} /\ UNCHANGED <<clock, f, hour, pc, cutoff, shown, closed>>
  BY DEF Clean
<1> HIDE DEF h
<1>4. /\ IsFiniteSet(Looked) /\ Cardinality(Looked) \in Nat
      /\ h \notin Looked
      /\ Cardinality(Looked \cup {h}) = Cardinality(Looked) + 1
      /\ Cardinality(Looked \cup {h}) <= Cardinality(Hours)
  <2>1. Looked \subseteq Hours /\ h \notin Looked
    BY <1>1, <1>2 DEF Looked, History
  <2>2. IsFiniteSet(Looked) /\ Cardinality(Looked) \in Nat
    BY <2>1, HoursAreFinite
  <2>3. Looked \cup {h} \subseteq Hours
    BY <1>2, <2>1
  <2>4. Cardinality(Looked \cup {h}) <= Cardinality(Hours)
    BY <2>3, HoursAreFinite
  <2> QED
    BY <2>1, <2>2, <2>4, FS_AddElement
<1>5. \A x \in Present \ todo', g \in todo' : g < x
  <2>1. \A g \in todo' : g < h
    BY <1>1, <1>2, <1>3 DEF Hours
  <2> QED
    BY <1>1, <1>3, <2>1
<1>6. OpenedInCall' /\ CleanupIsFresh'
  BY <1>1, <1>3 DEF Inv, OpenedInCall, CleanupIsFresh
<1>7. CASE Active(h) /\ UNCHANGED <<files, kept, failed>>
  <2>1. Present' = Present /\ Looked' = Looked
    BY <1>3, <1>7 DEF Present, Looked, History, Active
  <2>2. CleanupInOrder'
    BY <1>1, <1>3, <1>5, <1>7, <2>1 DEF CleanupInOrder
  <2>3. TypeOK'
    BY <1>1, <1>3, <1>7 DEF Inv, TypeOK
  <2> QED
    BY <1>6, <2>2, <2>3 DEF Inv
<1>8. CASE /\ ~Active(h)
           /\ files' = [files EXCEPT ![h] = NoFile]
           /\ UNCHANGED <<kept, failed>>
  <2>1. Present' = Present \ {h} /\ Looked' = Looked
    BY <1>2, <1>3, <1>8 DEF Present, Looked, History, Inv, TypeOK
  <2>2. \A x \in Looked : files'[x] = files[x]
    BY <1>4, <1>8 DEF Inv, TypeOK, Looked, History, Present
  <2>3. CleanupInOrder'
    BY <1>1, <1>3, <1>5, <1>8, <2>1, <2>2 DEF CleanupInOrder
  <2>4. TypeOK'
    BY <1>1, <1>2, <1>3, <1>8 DEF Inv, TypeOK
  <2> QED
    BY <1>6, <2>3, <2>4 DEF Inv
<1>9. CASE ~Active(h) /\ failed' = "cleanup" /\ UNCHANGED <<files, kept>>
  <2>1. Present' = Present /\ Looked' = Looked \cup {h}
    BY <1>2, <1>3, <1>9 DEF Present, Looked, History, Active
  <2>2. kept \in Nat
    BY LimitsAreNumbers DEF Inv, TypeOK
  <2>3. CleanupInOrder'
    BY <1>1, <1>3, <1>4, <1>5, <1>9, <2>1, <2>2 DEF CleanupInOrder
  <2>4. TypeOK'
    BY <1>1, <1>3, <1>9 DEF Inv, TypeOK
  <2> QED
    BY <1>6, <2>3, <2>4 DEF Inv
<1>10. CASE ~Active(h) /\ ~Expired(h) /\ kept' = kept + 1 /\ UNCHANGED <<files, failed>>
  <2>1. Present' = Present /\ Looked' = Looked \cup {h}
    BY <1>2, <1>3, <1>10 DEF Present, Looked, History, Active
  <2>2. kept \in Nat /\ Cardinality(Hours) \in Nat
    BY HoursAreFinite, LimitsAreNumbers DEF Inv, TypeOK
  <2>3. /\ MaxBackups > 0 => kept < MaxBackups
        /\ MaxAge > 0 => files[h] >= cutoff
    <3>1. files[h] \in Int /\ cutoff \in Int
      BY <1>2, LimitsAreNumbers DEF Inv, TypeOK, Present, Hours
    <3> QED
      BY <1>10, <2>2, <3>1, LimitsAreNumbers DEF Expired, TooMany
  <2>4. CleanupInOrder'
    BY <1>1, <1>3, <1>4, <1>5, <1>10, <2>1, <2>2, <2>3 DEF CleanupInOrder
  <2>5. TypeOK'
    BY <1>1, <1>3, <1>4, <1>10, <2>2, <2>3, LimitsAreNumbers DEF Inv, TypeOK
  <2> QED
    BY <1>6, <2>4, <2>5 DEF Inv
<1>11. CASE /\ ~Active(h) /\ ~TooMany
            /\ kept' = kept + 1 /\ failed' = "cleanup" /\ UNCHANGED files
  <2>1. Present' = Present /\ Looked' = Looked \cup {h}
    BY <1>2, <1>3, <1>11 DEF Present, Looked, History, Active
  <2>2. kept \in Nat /\ Cardinality(Hours) \in Nat
    BY HoursAreFinite, LimitsAreNumbers DEF Inv, TypeOK
  <2>3. MaxBackups > 0 => kept < MaxBackups
    BY <1>11, <2>2, LimitsAreNumbers DEF TooMany
  <2>4. CleanupInOrder'
    BY <1>1, <1>3, <1>4, <1>5, <1>11, <2>1, <2>2 DEF CleanupInOrder
  <2>5. TypeOK'
    BY <1>1, <1>3, <1>4, <1>11, <2>2, <2>3, LimitsAreNumbers DEF Inv, TypeOK
  <2> QED
    BY <1>6, <2>4, <2>5 DEF Inv
<1> QED
  BY <1>7, <1>8, <1>9, <1>10, <1>11 DEF Clean, h

\* openLocked gives the hour it is now a file.
LEMMA OpenEffect ==
  ASSUME TypeOK, Open
  PROVE  f' = TRUE /\ hour' = clock /\ hour' \in Hours /\ files' \in [Hours -> Hours \cup {NoFile}]
BY DEF TypeOK, Open

\* A call that returns, or dies, leaves its locals as a new call finds them.
LEMMA ReturnEffect ==
  ASSUME NEW place \in {"down", "idle"}, Return(place)
  PROVE  /\ pc' = place /\ kept' = 0 /\ failed' = "none"
         /\ todo' \subseteq Hours /\ shown' \subseteq Hours
         /\ kept' \in 0..Cardinality(Hours) /\ cutoff' \in (-MaxAge)..MaxHour
<1>1. Cardinality(Hours) \in Nat
  BY HoursAreFinite
<1>2. todo' = {} /\ shown' = {} /\ kept' = 0 /\ cutoff' = 0 /\ pc' = place /\ failed' = "none"
  BY DEF Return
<1> QED
  BY <1>1, <1>2, LimitsAreNumbers

LEMMA InvNext == Inv /\ [Next]_vars => Inv'
<1> SUFFICES ASSUME Inv, [Next]_vars PROVE Inv'
  OBVIOUS
<1>1. Cardinality(Hours) \in Nat /\ 0 \in Hours /\ 0 \in (-MaxAge)..MaxHour
  BY HoursAreFinite, LimitsAreNumbers DEF Hours
<1> USE LimitsAreNumbers DEF Inv, TypeOK, CleanupIsFresh, OpenedInCall, CleanupInOrder
<1>2. CASE Start
  BY <1>1, <1>2, OpenEffect DEF Start
<1>3. CASE Write
  BY <1>1, <1>3 DEF Write
<1>4. CASE Rotate
  BY <1>1, <1>4, OpenEffect DEF Rotate
<1>5. CASE RotateFails
  BY <1>1, <1>5 DEF RotateFails
<1>6. CASE Glob
  <2>1. Present \subseteq Hours /\ Present' = Present /\ History' = History
    BY <1>6 DEF Glob, Present, History
  <2>2. Looked' = {} /\ Cardinality(Looked') = 0
    BY <1>6, <2>1, FS_EmptySet DEF Glob, Looked, History
  <2>3. cutoff' \in (-MaxAge)..MaxHour
    BY <1>6 DEF Glob, Hours
  <2> QED
    BY <1>1, <1>6, <2>1, <2>2, <2>3 DEF Glob
<1>7. CASE Clean
  BY <1>7, CleanKeepsInv
<1>8. CASE CleanEnds
  BY <1>8 DEF CleanEnds
<1>9. CASE Append
  <2>1. files' \in [Hours -> Hours \cup {NoFile}]
    BY <1>9 DEF Append
  <2> QED
    BY <1>9, <2>1, ReturnEffect DEF Append
<1>10. CASE AppendFails
  BY <1>10, ReturnEffect DEF AppendFails
<1>11. CASE Close
  BY <1>11 DEF Close
<1>12. CASE Die
  <2>1. f' \in BOOLEAN /\ closed' \in BOOLEAN /\ hour' = 0 /\ UNCHANGED <<clock, files>>
    BY <1>12, Zenon DEF Die
  <2> QED
    BY <1>1, <1>12, <2>1, ReturnEffect DEF Die
<1>13. CASE Clock
  BY <1>13 DEF Clock, Looked, History, Present
<1>14. CASE UNCHANGED vars
  BY <1>14 DEF vars, Looked, History, Present
<1> QED
  BY <1>2, <1>3, <1>4, <1>5, <1>6, <1>7, <1>8, <1>9, <1>10, <1>11, <1>12, <1>13, <1>14
  DEF Next, Call

LEMMA InvHolds == Spec => []Inv
BY InvInit, InvNext, PTL DEF Spec

-----------------------------------------------------------------------------
\* The type invariant of RotateWriter; in particular cleanupLocked never keeps
\* more than MaxBackups.
THEOREM TypeCorrect == Spec => []TypeOK
<1>1. Inv => TypeOK
  BY DEF Inv
<1> QED
  BY <1>1, InvHolds, PTL

\* A line goes to the file of an hour seen during its own call, however often
\* the clock moves between the readings, whichever earlier rotation failed.
THEOREM LinesGoToTheirHour == Spec => LineInItsHour
<1>1. Inv /\ [Next]_vars => [pc = "append" /\ pc' = "idle" /\ f /\ failed # "open" => hour \in shown]_vars
  BY DEF Inv, OpenedInCall
<1> QED
  BY <1>1, InvHolds, PTL DEF Spec, LineInItsHour

\* A rotation that could remove what it wanted to leaves no more history than
\* the limits allow, whatever earlier ones left behind.
THEOREM RotationTrims == Spec => []TrimmedByRotation
<1>1. Inv => TrimmedByRotation
  <2> SUFFICES ASSUME Inv, pc = "clean", todo = {}, failed = "none"
               PROVE  /\ MaxBackups > 0 => Cardinality(History) <= MaxBackups
                      /\ MaxAge > 0 => \A h \in History : files[h] >= cutoff
    BY DEF TrimmedByRotation
  <2>1. Looked = History
    BY DEF Looked
  <2> QED
    BY <2>1 DEF Inv, TypeOK, CleanupInOrder
<1> QED
  BY <1>1, InvHolds, PTL

\* What a step removes is not the open file, and is too old or has MaxBackups
\* newer history files.
RemovalStep ==
  \A h \in Hours : files[h] # NoFile /\ files'[h] = NoFile =>
    /\ ~(f /\ h = hour)
    /\ \/ MaxAge > 0 /\ files[h] < cutoff
       \/ MaxBackups > 0 /\ Cardinality({g \in History : g > h}) >= MaxBackups

LEMMA RemovalHasCause == Inv /\ [Next]_vars => RemovalStep
<1> SUFFICES ASSUME Inv, [Next]_vars, NEW h \in Hours, files[h] # NoFile, files'[h] = NoFile
             PROVE  /\ ~(f /\ h = hour)
                    /\ \/ MaxAge > 0 /\ files[h] < cutoff
                       \/ MaxBackups > 0 /\ Cardinality({g \in History : g > h}) >= MaxBackups
  BY DEF RemovalStep
<1>1. Clean /\ h = Newest(todo) /\ ~Active(h) /\ Expired(h)
  <2>1. Clean
    BY NoFileIsNoTime
    DEF Next, Call, vars, Inv, TypeOK, Start, Write, Rotate, RotateFails, Glob, CleanEnds, Append,
        AppendFails, Close, Die, Clock, Open
  <2>2. Newest(todo) \in Hours /\ files \in [Hours -> Hours \cup {NoFile}]
    BY <2>1, NewestIsNewest DEF Clean, Inv, TypeOK
  <2> QED
    BY <2>1, <2>2 DEF Clean
<1>2. /\ h \in todo /\ \A g \in todo : g <= h
      /\ \A x \in Present \ todo, g \in todo : g < x
      /\ kept <= Cardinality(Looked)
  BY <1>1, NewestIsNewest DEF Clean, Inv, TypeOK, CleanupInOrder
<1>3. {g \in History : g > h} = Looked
  <2>1. \A g \in History : g \in Hours /\ g \in Present
    BY DEF History, Present
  <2>2. \A g \in History : g > h <=> g \notin todo
    BY <1>2, <2>1 DEF Hours
  <2> QED
    BY <2>2 DEF Looked
<1>4. kept >= MaxBackups => Cardinality(Looked) >= MaxBackups
  <2>1. Looked \subseteq Hours
    BY DEF Looked, History, Present
  <2> QED
    BY <1>2, <2>1, HoursAreFinite, LimitsAreNumbers DEF Inv, TypeOK
<1> QED
  BY <1>1, <1>3, <1>4 DEF Expired, TooMany, Active

\* Nothing is removed without cause, and never the open file, though the clock
\* went back, earlier removals failed, or a restart forgot what was kept.
THEOREM RemovalsHaveCause == Spec => RemovedForCause
<1>1. Inv /\ [Next]_vars => [RemovalStep]_vars
  BY RemovalHasCause
<1> QED
  BY <1>1, InvHolds, PTL DEF Spec, RemovedForCause, RemovalStep
=============================================================================
