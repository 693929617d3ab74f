--------------------------- MODULE OneMinuteDiary ---------------------------
(***************************************************************************)
(* The entry of the day of one_minute_diary (apps/one_minute_diary/lib):   *)
(* TodayEntryController, its timer and EntryRepository.                    *)
(*                                                                         *)
(* The first letter starts a minute; the entry is saved by its end or by   *)
(* the button, and the page is read-only from then on.  The date is taken  *)
(* where the entry is written, so midnight may pass at any step; the       *)
(* process may die at any step, and the store may refuse the entry.        *)
(***************************************************************************)
EXTENDS Integers

CONSTANTS
  Words,   \* what may be written
  Nothing, \* the page is empty or blank
  MaxDay   \* days that pass

ASSUME NothingIsNoWord == Nothing \notin Words
ASSUME MaxDayIsNatural == MaxDay \in Nat

VARIABLES
  today,         \* the date of the clock
  entry,         \* the stored text of each date, or Nothing
  open,          \* the process runs
  day,           \* the date the page is for: when it was looked up, or begun
  isLoading,
  text,
  isReadOnly,
  hasSavedEntry,
  timer,         \* "new", "running" or "over"
  write          \* per caller of upsertToday: its step, its date and its text

screen == <<isLoading, text, isReadOnly, hasSavedEntry, timer>>
vars == <<today, entry, open, day, screen, write>>

Days == 0..MaxDay
Callers == {"button", "timer"}

NoWrite == [step |-> "none", date |-> 0, text |-> Nothing]

NoWrites == [c \in Callers |-> NoWrite]

Init ==
  /\ today = 0 /\ entry = [d \in Days |-> Nothing]
  /\ open = FALSE /\ day = 0
  /\ isLoading = TRUE /\ text = Nothing
  /\ isReadOnly = FALSE /\ hasSavedEntry = FALSE /\ timer = "new"
  /\ write = NoWrites

-----------------------------------------------------------------------------
\* main and the constructor, which looks up the entry of the date it is now.
Open ==
  /\ ~open
  /\ open' = TRUE /\ day' = today
  /\ UNCHANGED <<today, entry, screen, write>>

(* Mutant of Existing: the date of the day before, as in another time zone. *)
ExistingBefore(d) == IF d = 0 THEN Nothing ELSE entry[d - 1]

Existing(d) == entry[d]

\* The rest of _initialize: an entry of that date is shown and not changed.
Loaded ==
  LET found == Existing(day) # Nothing IN
  /\ open /\ isLoading
  /\ isLoading' = FALSE
  /\ text' = Existing(day)
  /\ isReadOnly' = found /\ hasSavedEntry' = found
  /\ timer' = IF found THEN "over" ELSE "new"
  /\ UNCHANGED <<today, entry, open, day, write>>

(* Mutant of MayWrite: the read-only flag is left to the text field. *)
MayWriteStill(readOnly) == TRUE

MayWrite(readOnly) == ~readOnly

\* The minute starts with the first letter.
onTextChanged(value) ==
  /\ open /\ ~isLoading /\ ~hasSavedEntry
  /\ MayWrite(isReadOnly)
  /\ text' = value
  /\ IF timer = "new" /\ value # Nothing
       THEN timer' = "running" /\ day' = today
       ELSE UNCHANGED <<timer, day>>
  /\ UNCHANGED <<today, entry, open, isLoading, isReadOnly, hasSavedEntry, write>>

\* The synchronous part of upsertToday, with the date it is now.
upsertToday(caller) ==
  write' = [write EXCEPT ![caller] =
              [step |-> "put", date |-> today, text |-> text]]

(* Mutant of Stopped: the minute goes on after the button. *)
StillRunning == timer

Stopped == "over"

saveNow ==
  /\ open /\ ~isLoading
  /\ ~isReadOnly /\ text # Nothing
  /\ timer' = Stopped
  /\ isReadOnly' = TRUE
  /\ upsertToday("button")
  /\ UNCHANGED <<today, entry, open, day, isLoading, text, hasSavedEntry>>

(* Mutant of NeedsSaving: what is on the page at the end of the minute is  *)
(* left to the button. *)
NeedsButton == FALSE

NeedsSaving == text # Nothing /\ ~hasSavedEntry

_onTimerFinished ==
  /\ open /\ timer = "running"
  /\ timer' = "over"
  /\ isReadOnly' = TRUE
  /\ IF NeedsSaving THEN upsertToday("timer") ELSE UNCHANGED write
  /\ UNCHANGED <<today, entry, open, day, isLoading, text, hasSavedEntry>>

\* The transaction: an entry of the same date is replaced.
Put(c) ==
  /\ write[c].step = "put"
  /\ entry' = [entry EXCEPT ![write[c].date] = write[c].text]
  /\ write' = [write EXCEPT ![c].step = "resume"]
  /\ UNCHANGED <<today, open, day, screen>>

\* The store refuses; nobody catches the error.
PutFails(c) ==
  /\ write[c].step = "put"
  /\ write' = [write EXCEPT ![c].step = "failed"]
  /\ UNCHANGED <<today, entry, open, day, screen>>

\* The rest of _saveIfNeeded.
Saved(c) ==
  /\ write[c].step = "resume"
  /\ hasSavedEntry' = TRUE
  /\ write' = [write EXCEPT ![c] = NoWrite]
  /\ UNCHANGED <<today, entry, open, day, isLoading, text, isReadOnly, timer>>

-----------------------------------------------------------------------------
Midnight ==
  /\ today < MaxDay
  /\ today' = today + 1
  /\ UNCHANGED <<entry, open, day, screen, write>>

\* What was on the page is lost; what was being put is put or not.
Die ==
  /\ open
  /\ open' = FALSE
  /\ isLoading' = TRUE /\ text' = Nothing
  /\ isReadOnly' = FALSE /\ hasSavedEntry' = FALSE /\ timer' = "new"
  /\ write' = NoWrites
  /\ UNCHANGED <<today, entry, day>>

Use ==
  \/ Open \/ saveNow
  \/ \E value \in Words \cup {Nothing} : onTextChanged(value)

Progress == Loaded \/ _onTimerFinished \/ \E c \in Callers : Put(c) \/ PutFails(c) \/ Saved(c)

Next == Use \/ Progress \/ Midnight \/ Die

Spec == Init /\ [][Next]_vars

(* Queries, timers and transactions end while the process lives.  Nobody   *)
(* has to open the app, write or tap. *)
Fairness ==
  /\ WF_vars(Loaded) /\ WF_vars(_onTimerFinished)
  /\ \A c \in Callers : WF_vars(Put(c) \/ PutFails(c)) /\ WF_vars(Saved(c))

FairSpec == Spec /\ Fairness

-----------------------------------------------------------------------------
(* Properties.                                                             *)

(* An entry is never replaced, although every save puts over what its date *)
(* has (entry_repository.dart:45): not by a later start, nor by a minute   *)
(* that began the day before.                                              *)
EntriesAreFinal == [][\A d \in Days : entry[d] # Nothing => entry'[d] = entry[d]]_vars

(* The button and the end of the minute do not both save: midnight between *)
(* them would make two entries of one minute (today_entry_controller.dart:69). *)
SavesOnce == [][\A c \in Callers :
                  write[c] = NoWrite /\ write'[c] # NoWrite =>
                    ~hasSavedEntry /\ \A o \in Callers : write[o] = NoWrite]_vars

(* When the page says that it is saved, what it holds is stored.           *)
SavedIsStored == hasSavedEntry => \E d \in Days : entry[d] = text

(* What is on the page when the minute is over gets stored, unless the     *)
(* store refuses it or the process dies.                                   *)
TextIsSaved ==
  timer = "running" ~>
    \/ hasSavedEntry \/ text = Nothing \/ ~open
    \/ \E c \in Callers : write[c].step = "failed"

(* A date that has no entry, and whose minute was not begun, can be        *)
(* written ("one minute a day", home_screen.dart:105).                     *)
EachDayHasItsMinute ==
  \A d \in Days :
    (open /\ today = d /\ day # d /\ entry[d] = Nothing) ~>
      (~open \/ today # d \/ ~isReadOnly \/ entry[d] # Nothing)
=============================================================================
