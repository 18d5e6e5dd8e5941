--------------------------- MODULE ServerContract ---------------------------
(***************************************************************************)
(* What an interface process promises to whoever starts and stops it:      *)
(* which phase follows which, and that stops that ran to their end, and    *)
(* were not killed, have left on disk the paramsets as they stood at some  *)
(* moment after the first of them was asked for; so every write that was   *)
(* answered before is there when the next process starts.  The promise is  *)
(* off when the file could not be written whole: an error of the disk is   *)
(* only logged, and stops that overlap may write into each other's file.   *)
(***************************************************************************)
CONSTANTS
  Torn,    \* a file that was not written whole
  Nothing  \* no paramsets

VARIABLES
  phase,    \* "stopped", "running" or "suspended"
  stopping, \* a stop has been asked for and has not returned
  store,    \* the paramsets of the process, as they are written to disk
  disk,     \* the file
  since,    \* the stores since the first stop under way was asked for, or the
            \* present one
  spoiled   \* the file was not written whole after it was last emptied

cvars == <<phase, stopping, store, disk, since, spoiled>>

Start ==
  phase = "stopped" /\ phase' = "running" /\ UNCHANGED <<stopping, store, disk, since, spoiled>>
Suspend ==
  phase = "running" /\ phase' = "suspended" /\ UNCHANGED <<stopping, store, disk, since, spoiled>>
Resume ==
  phase = "suspended" /\ phase' = "running" /\ UNCHANGED <<stopping, store, disk, since, spoiled>>

\* The process may start again, and be stopped again, before the stop is through.
AskStop ==
  /\ phase \in {"running", "suspended"}
  /\ phase' = "stopped"
  /\ stopping' = TRUE
  /\ UNCHANGED <<store, disk, since, spoiled>>

\* The file is emptied to be written anew.
Empty ==
  /\ stopping
  /\ disk' = Torn
  /\ spoiled' = FALSE
  /\ UNCHANGED <<phase, stopping, store, since>>

Save ==
  /\ stopping
  /\ disk' \in since
  /\ UNCHANGED <<phase, stopping, store, since, spoiled>>

Spoil ==
  /\ stopping
  /\ disk' \in {disk, Torn}
  /\ spoiled' = TRUE
  /\ UNCHANGED <<phase, stopping, store, since>>

\* The last stop under way returns.
Stopped ==
  /\ stopping
  /\ disk \in since \/ spoiled
  /\ stopping' = FALSE
  /\ since' = {store}
  /\ spoiled' = FALSE
  /\ UNCHANGED <<phase, store, disk>>

Write ==
  /\ store' # store
  /\ since' = (IF stopping THEN since ELSE {}) \cup {store'}
  /\ UNCHANGED <<phase, stopping, disk, spoiled>>

\* The process is gone, killed or not, and another one reads the file.
Boot ==
  /\ phase' = "stopped"
  /\ stopping' = FALSE
  /\ store' = IF disk = Torn THEN Nothing ELSE disk
  /\ since' = {store'}
  /\ spoiled' = FALSE
  /\ UNCHANGED disk

CInit ==
  /\ phase = "stopped"
  /\ stopping = FALSE
  /\ store = disk
  /\ since = {store}
  /\ spoiled = FALSE

CNext ==
  Start \/ Suspend \/ Resume \/ AskStop \/ Empty \/ Save \/ Spoil \/ Stopped \/ Write \/ Boot

CSpec == CInit /\ [][CNext]_cvars
=============================================================================
