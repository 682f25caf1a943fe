---------------------------- MODULE RotateWriter ----------------------------
(***************************************************************************)
(* The log file writer of pkg/logger/rotate.go: one file per hour, the old *)
(* ones removed by number and by age.                                      *)
(*                                                                         *)
(* Callers of Write queue on w.mu, so one call runs at a time, but the     *)
(* clock moves while it does: the code reads it up to three times in one   *)
(* call.  The clock may also go back (a correction, the end of summer      *)
(* time), a file may fail to open or to be removed, and the process may    *)
(* die anywhere and start again.  A file is named by its hour and is       *)
(* reduced to its modification time; a line is not recorded, only the file *)
(* it goes to.                                                             *)
(***************************************************************************)
EXTENDS Integers, FiniteSets

CONSTANTS
  MaxHour,     \* bound: the clock stays within 0..MaxHour
  MaxBackups,  \* ret.maxBackups, 0 for no limit
  MaxAge,      \* ret.maxAge in hours, 0 for no limit
  NoFile

ASSUME LimitsAreNumbers == MaxHour \in Nat /\ MaxBackups \in Nat /\ MaxAge \in Nat

Hours == 0..MaxHour

ASSUME NoFileIsNoTime == NoFile \notin Hours

VARIABLES
  clock,   \* time.Now(), in hours
  files,   \* the directory: modification time of the file of each hour
  f,       \* w.f # nil
  hour,    \* w.hour
  pc,      \* where the running call is; "down" while the process is
  todo,    \* entries the cleanup has not looked at
  kept,    \* history files the cleanup has kept
  cutoff,  \* modification times before it are too old
  shown,   \* history: what the clock showed during the call
  failed,  \* history: what failed in the call: "none", "open", "cleanup"
  closed   \* history: Close was called

vars == <<clock, files, f, hour, pc, todo, kept, cutoff, shown, failed, closed>>

Present == {h \in Hours : files[h] # NoFile}
History == Present \ {hour}
Newest(S) == CHOOSE h \in S : \A g \in S : g <= h

Init ==
  /\ clock \in Hours
  /\ files = [h \in Hours |-> NoFile]
  /\ f = FALSE
  /\ hour = 0
  /\ pc = "down"
  /\ todo = {}
  /\ kept = 0
  /\ cutoff = 0
  /\ shown = {}
  /\ failed = "none"
  /\ closed = FALSE

-----------------------------------------------------------------------------
\* openLocked: opens or creates the file of the hour it is now.
Open ==
  /\ f' = TRUE
  /\ hour' = clock
  /\ files' = IF files[clock] = NoFile THEN [files EXCEPT ![clock] = clock] ELSE files

\* newRotateWriter.  When it fails the process logs to stdout only.
Start ==
  /\ pc = "down"
  /\ Open
  /\ pc' = "idle"
  /\ closed' = FALSE
  /\ UNCHANGED <<clock, todo, kept, cutoff, shown, failed>>

\* Broken: a clock that went back is taken for the hour of the open file.
WriteForwardOnly ==
  /\ pc = "idle"
  /\ shown' = {clock}
  /\ pc' = IF clock > hour THEN "rotate" ELSE "append"
  /\ UNCHANGED <<clock, files, f, hour, todo, kept, cutoff, failed, closed>>

\* shouldRotateLocked.
Write ==
  /\ pc = "idle"
  /\ shown' = {clock}
  /\ pc' = IF clock # hour THEN "rotate" ELSE "append"
  /\ UNCHANGED <<clock, files, f, hour, todo, kept, cutoff, failed, closed>>

\* rotateLocked: close the old file, open the new one, then clean up.
Rotate ==
  /\ pc = "rotate"
  /\ Open
  /\ shown' = shown \cup {clock}
  /\ pc' = IF MaxBackups = 0 /\ MaxAge = 0 THEN "append" ELSE "glob"
  /\ UNCHANGED <<clock, todo, kept, cutoff, failed, closed>>

\* The new file cannot be opened; the old one has been closed by then.
RotateFails ==
  /\ pc = "rotate"
  /\ f' = FALSE
  /\ failed' = "open"
  /\ pc' = "append"
  /\ UNCHANGED <<clock, files, hour, todo, kept, cutoff, shown, closed>>

\* cleanupLocked: list the directory and fix the cutoff.
Glob ==
  /\ pc = "glob"
  /\ todo' = Present
  /\ cutoff' = clock - MaxAge
  /\ pc' = "clean"
  /\ UNCHANGED <<clock, files, f, hour, kept, shown, failed, closed>>

\* Broken: the active file is treated like any other.
ActiveNot(h) == FALSE

Active(h) == h = hour

TooMany == MaxBackups > 0 /\ kept >= MaxBackups

\* Broken: the number of files is not limited once an age limit is set.
ExpiredByAgeFirst(h) ==
  IF MaxAge > 0 THEN files[h] < cutoff ELSE TooMany

Expired(h) == TooMany \/ (MaxAge > 0 /\ files[h] < cutoff)

\* One turn of the loop, from the newest name to the oldest.  A file may not
\* let itself be removed, and one whose age cannot be read is kept.
Clean ==
  /\ pc = "clean"
  /\ todo # {}
  /\ LET h == Newest(todo) IN
       /\ todo' = todo \ {h}
       /\ \/ /\ Active(h)
             /\ UNCHANGED <<files, kept, failed>>
          \/ /\ ~Active(h) /\ Expired(h)
             /\ \/ files' = [files EXCEPT ![h] = NoFile] /\ UNCHANGED failed
                \/ failed' = "cleanup" /\ UNCHANGED files
             /\ UNCHANGED kept
          \/ /\ ~Active(h) /\ ~Expired(h)
             /\ kept' = kept + 1
             /\ UNCHANGED <<files, failed>>
          \/ /\ ~Active(h) /\ ~TooMany /\ MaxAge > 0
             /\ kept' = kept + 1
             /\ failed' = "cleanup"
             /\ UNCHANGED files
  /\ UNCHANGED <<clock, f, hour, pc, cutoff, shown, closed>>

CleanEnds ==
  /\ pc = "clean"
  /\ todo = {}
  /\ pc' = "append"
  /\ UNCHANGED <<clock, files, f, hour, todo, kept, cutoff, shown, failed, closed>>

\* The locals of a call are gone when it returns, or dies.
Return(place) ==
  /\ pc' = place
  /\ todo' = {}
  /\ kept' = 0
  /\ cutoff' = 0
  /\ shown' = {}
  /\ failed' = "none"

\* The line goes to the open file; without one Write reports success.
Append ==
  /\ pc = "append"
  /\ files' = IF f THEN [files EXCEPT ![hour] = clock] ELSE files
  /\ Return("idle")
  /\ UNCHANGED <<clock, f, hour, closed>>

\* The disk refuses the line and Write reports that.
AppendFails ==
  /\ pc = "append"
  /\ f
  /\ Return("idle")
  /\ UNCHANGED <<clock, files, f, hour, closed>>

Close ==
  /\ pc = "idle"
  /\ f' = FALSE
  /\ closed' = TRUE
  /\ UNCHANGED <<clock, files, hour, pc, todo, kept, cutoff, shown, failed>>

-----------------------------------------------------------------------------
Die ==
  /\ pc # "down"
  /\ Return("down")
  /\ f' = FALSE
  /\ hour' = 0
  /\ closed' = FALSE
  /\ UNCHANGED <<clock, files>>

\* The clock moves on, or is set back.
Clock ==
  /\ clock' \in {clock + 1, clock - 1} \cap Hours
  /\ UNCHANGED <<files, f, hour, pc, todo, kept, cutoff, shown, failed, closed>>

-----------------------------------------------------------------------------
Call == Rotate \/ RotateFails \/ Glob \/ Clean \/ CleanEnds \/ Append \/ AppendFails

Next == Start \/ Write \/ Call \/ Close \/ Die \/ Clock

\* A call that has begun runs to its end.
Spec == Init /\ [][Next]_vars /\ WF_vars(Call)

-----------------------------------------------------------------------------
\* Type invariant.
TypeOK ==
  /\ clock \in Hours
  /\ files \in [Hours -> Hours \cup {NoFile}]
  /\ f \in BOOLEAN /\ closed \in BOOLEAN
  /\ failed \in {"none", "open", "cleanup"}
  /\ hour \in Hours
  /\ pc \in {"down", "idle", "rotate", "glob", "clean", "append"}
  /\ todo \subseteq Hours
  /\ kept \in 0..Cardinality(Hours)
  /\ MaxBackups > 0 => kept <= MaxBackups
  /\ cutoff \in (-MaxAge)..MaxHour
  /\ shown \subseteq Hours

\* A line goes to the file of an hour the clock showed during its own call,
\* though the clock moves, either way, between the readings of one call.  A
\* call whose own rotation failed is free to go on with the old file.
LineInItsHour ==
  [][pc = "append" /\ pc' = "idle" /\ f /\ failed # "open" => hour \in shown]_vars

\* What the comment on the failed rotation in Write says: it does not touch the
\* line, which goes on to the old file.  So until Close every line finds a file.
FailedRotationWritesOn ==
  [][pc = "append" /\ pc' = "idle" => f \/ closed]_vars

\* A file is removed only for cause: it is too old, or MaxBackups newer history
\* files stay, whatever could not be removed before it; and never the one that
\* is open, though its name and age say so once the clock has gone back.
RemovedForCause ==
  [][\A h \in Hours : files[h] # NoFile /\ files'[h] = NoFile =>
       /\ ~(f /\ h = hour)
       /\ \/ MaxAge > 0 /\ files[h] < cutoff
          \/ MaxBackups > 0 /\ Cardinality({g \in History : g > h}) >= MaxBackups]_vars

\* A rotation that can read and remove what it wants to leaves at most MaxBackups
\* history files, none of them too old, whatever restarts and failures came before.
TrimmedByRotation ==
  pc = "clean" /\ todo = {} /\ failed = "none" =>
    /\ MaxBackups > 0 => Cardinality(History) <= MaxBackups
    /\ MaxAge > 0 => \A h \in History : files[h] >= cutoff
=============================================================================
