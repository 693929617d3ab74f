------------------------ MODULE OneMinuteDiary_proofs ------------------------
(* Theorems about OneMinuteDiary, for any words and any number of days.    *)
EXTENDS OneMinuteDiary, TLAPS

USE NothingIsNoWord, MaxDayIsNatural

Text == Words \cup {Nothing}
Write == [step : {"none", "put", "resume", "failed"}, date : Days, text : Text]

TypeInv ==
  /\ today \in Days /\ day \in 0..today
  /\ entry \in [Days -> Text]
  /\ open \in BOOLEAN /\ isLoading \in BOOLEAN
  /\ isReadOnly \in BOOLEAN /\ hasSavedEntry \in BOOLEAN
  /\ text \in Text
  /\ timer \in {"new", "running", "over"}
  /\ write \in [Callers -> Write]

(* A page that is not loaded is empty, a minute that runs is not over, and *)
(* what is saved is read-only.                                             *)
ScreenInv ==
  /\ ~open => isLoading
  /\ isLoading => ~isReadOnly /\ ~hasSavedEntry /\ timer = "new" /\ text = Nothing
  /\ timer = "running" => ~isReadOnly
  /\ hasSavedEntry => isReadOnly

(* There is no entry of a date to come, and none that the page may replace. *)
DatesInv ==
  /\ \A d \in Days : d > today => entry[d] = Nothing
  /\ open /\ isLoading => \A d \in Days : d > day => entry[d] = Nothing
  /\ ~isLoading /\ ~isReadOnly => \A d \in Days : d >= day => entry[d] = Nothing

(* What one caller writes is what the page shows, and for a date that has  *)
(* no entry until it is put.                                               *)
WriteInv(c) ==
  /\ isReadOnly /\ ~isLoading
  /\ write[c].text = text /\ write[c].step # "none" /\ write[c].date <= today
  /\ write[c].step = "put" => entry[write[c].date] = Nothing
  /\ write[c].step = "resume" => entry[write[c].date] = text
  /\ \A o \in Callers : o # c => write[o] = NoWrite

WritesInv == \A c \in Callers : write[c] = NoWrite \/ WriteInv(c)

Inv == TypeInv /\ ScreenInv /\ DatesInv /\ WritesInv /\ SavedIsStored

-----------------------------------------------------------------------------
(* The invariant, one action at a time.                                    *)

LEMMA NoWriteIsWrite == NoWrite \in Write
  BY DEF NoWrite, Write, Days, Text

LEMMA Unwritten ==
  ASSUME Inv, isLoading \/ ~isReadOnly
  PROVE  \A c \in Callers : write[c] = NoWrite
  BY DEF Inv, WritesInv, WriteInv

(* With no write under way, only the page and the dates matter.            *)
LEMMA QuietWrites ==
  ASSUME \A c \in Callers : write[c] = NoWrite, write' = write
  PROVE  WritesInv'
  BY DEF WritesInv

LEMMA InvInit == Init => Inv
<1> SUFFICES ASSUME Init PROVE Inv
  OBVIOUS
<1>1. \A c \in Callers : write[c] = NoWrite
  BY DEF Init, NoWrites
<1>2. write \in [Callers -> Write]
  BY NoWriteIsWrite DEF Init, NoWrites
<1>3. TypeInv
  <2>1. entry \in [Days -> Text]
    BY DEF Init, Text
  <2>2. open \in BOOLEAN /\ isLoading \in BOOLEAN /\ isReadOnly \in BOOLEAN /\ hasSavedEntry \in BOOLEAN
    BY DEF Init
  <2>3. today \in Days /\ day \in 0..today
    BY DEF Init, Days
  <2> QED BY <1>2, <2>1, <2>2, <2>3 DEF Init, TypeInv, Text
<1>4. ScreenInv /\ DatesInv /\ SavedIsStored
  BY DEF Init, ScreenInv, DatesInv, SavedIsStored
<1> QED BY <1>1, <1>3, <1>4 DEF Inv, WritesInv

LEMMA OpenInv == Inv /\ Open => Inv'
<1> SUFFICES ASSUME Inv, Open PROVE Inv'
  OBVIOUS
<1> USE DEF Inv, Open, screen
<1>1. TypeInv' /\ ScreenInv' /\ SavedIsStored'
  BY DEF TypeInv, ScreenInv, SavedIsStored, Days
<1>2. DatesInv'
  BY DEF DatesInv, TypeInv, ScreenInv
<1>3. WritesInv'
  BY Unwritten, QuietWrites DEF ScreenInv
<1> QED BY <1>1, <1>2, <1>3

LEMMA LoadedInv == Inv /\ Loaded => Inv'
<1> SUFFICES ASSUME Inv, Loaded PROVE Inv'
  OBVIOUS
<1> USE DEF Inv
<1>1. day \in Days /\ entry[day] \in Text
  BY DEF TypeInv, Days
<1>2. TypeInv'
  BY <1>1 DEF Loaded, Existing, TypeInv
<1>3. ScreenInv'
  BY DEF Loaded, Existing, ScreenInv
<1>4. DatesInv'
  <2>1. \A d \in Days : d > day => entry[d] = Nothing
    BY DEF Loaded, DatesInv
  <2>2. ~isReadOnly' => entry[day] = Nothing
    BY DEF Loaded, Existing
  <2>3. ~isReadOnly' => \A d \in Days : d >= day => entry[d] = Nothing
    BY <1>1, <2>1, <2>2 DEF Days
  <2> QED BY <2>3 DEF Loaded, DatesInv
<1>5. WritesInv'
  BY Unwritten, QuietWrites DEF Loaded
<1>6. SavedIsStored'
  BY <1>1 DEF Loaded, Existing, SavedIsStored
<1> QED BY <1>2, <1>3, <1>4, <1>5, <1>6

LEMMA TextChangedInv ==
  ASSUME Inv, NEW value \in Text, onTextChanged(value)
  PROVE  Inv'
<1> USE DEF Inv, onTextChanged, MayWrite
<1>1. TypeInv'
  BY DEF TypeInv, Days
<1>2. ScreenInv' /\ SavedIsStored'
  BY DEF ScreenInv, SavedIsStored
<1>3. DatesInv'
  BY DEF TypeInv, DatesInv, Days
<1>4. WritesInv'
  BY Unwritten, QuietWrites
<1> QED BY <1>1, <1>2, <1>3, <1>4

(* A page that may be written on is saved for a date without an entry.     *)
LEMMA SavingInv ==
  ASSUME Inv, NEW c \in Callers, ~isReadOnly, ~isLoading, text # Nothing, upsertToday(c),
         isReadOnly' = TRUE, timer' = "over",
         UNCHANGED <<today, entry, open, day, isLoading, text, hasSavedEntry>>
  PROVE  Inv'
<1> USE DEF Inv
<1> DEFINE w == [step |-> "put", date |-> today, text |-> text]
<1>1. w \in Write /\ w.step = "put" /\ w.date = today /\ w.text = text
  BY DEF TypeInv, Write
<1>2. write' = [write EXCEPT ![c] = w]
  BY DEF upsertToday
<1> HIDE DEF w
<1>3. TypeInv'
  BY <1>1, <1>2 DEF TypeInv
<1>4. ScreenInv' /\ SavedIsStored' /\ DatesInv'
  BY DEF ScreenInv, SavedIsStored, DatesInv
<1>5. entry[today] = Nothing
  BY DEF DatesInv, TypeInv, Days
<1>6. /\ write'[c] = w
      /\ \A o \in Callers : o # c => write'[o] = NoWrite
  BY <1>2, Unwritten DEF TypeInv
<1>7. WriteInv(c)'
  <2>1. today <= today'
    BY DEF TypeInv, Days
  <2> QED BY <1>1, <1>5, <1>6, <2>1 DEF WriteInv
<1>8. WritesInv'
  BY <1>6, <1>7 DEF WritesInv
<1> QED BY <1>3, <1>4, <1>8

LEMMA SaveNowInv == Inv /\ saveNow => Inv'
<1> SUFFICES ASSUME Inv, saveNow PROVE Inv'
  OBVIOUS
<1> QED BY SavingInv DEF saveNow, Stopped, Callers

LEMMA TimerFinishedInv == Inv /\ _onTimerFinished => Inv'
<1> SUFFICES ASSUME Inv, _onTimerFinished PROVE Inv'
  OBVIOUS
<1>1. ~isReadOnly /\ ~isLoading
  BY DEF Inv, ScreenInv, _onTimerFinished
<1>2. CASE NeedsSaving
  BY <1>1, <1>2, SavingInv DEF _onTimerFinished, NeedsSaving, Callers
<1>3. CASE ~NeedsSaving
  <2> USE <1>3 DEF Inv, _onTimerFinished
  <2>1. TypeInv'
    BY DEF TypeInv
  <2>2. ScreenInv' /\ SavedIsStored' /\ DatesInv'
    BY <1>1 DEF ScreenInv, SavedIsStored, DatesInv
  <2>3. WritesInv'
    BY <1>1, Unwritten, QuietWrites
  <2> QED BY <2>1, <2>2, <2>3
<1> QED BY <1>2, <1>3

(* A write that goes on is the only one.                                   *)
LEMMA OnlyWrite ==
  ASSUME Inv, NEW c \in Callers, write[c].step # "none"
  PROVE  WriteInv(c) /\ write[c] \in Write
  BY DEF Inv, TypeInv, WritesInv, NoWrite

(* The next step of a write.                                               *)
LEMMA WriteMoves ==
  ASSUME Inv, NEW c \in Callers, NEW step \in {"resume", "failed"},
         write' = [write EXCEPT ![c].step = step]
  PROVE  /\ write' \in [Callers -> Write]
         /\ write'[c].step = step /\ write'[c].date = write[c].date
         /\ write'[c].text = write[c].text
         /\ \A o \in Callers : o # c => write'[o] = write[o]
<1>1. write[c] \in Write /\ write \in [Callers -> Write]
  BY DEF Inv, TypeInv
<1> DEFINE w == [write[c] EXCEPT !.step = step]
<1>2. w \in Write /\ w.step = step /\ w.date = write[c].date /\ w.text = write[c].text
  BY <1>1 DEF Write
<1>3. write' = [write EXCEPT ![c] = w]
  BY <1>1
<1> HIDE DEF w
<1> QED BY <1>1, <1>2, <1>3

LEMMA PutInv ==
  ASSUME Inv, NEW c \in Callers, Put(c)
  PROVE  Inv'
<1>1. WriteInv(c) /\ write[c] \in Write /\ write[c].step = "put"
  BY OnlyWrite DEF Put
<1>2. /\ write' \in [Callers -> Write]
      /\ write'[c].step = "resume" /\ write'[c].date = write[c].date
      /\ write'[c].text = write[c].text
      /\ \A o \in Callers : o # c => write'[o] = write[o]
  BY WriteMoves DEF Put
<1>3. write[c].date \in Days /\ write[c].text = text /\ text \in Text
  BY <1>1 DEF Write, WriteInv, Inv, TypeInv
<1>4. entry' \in [Days -> Text] /\ entry'[write[c].date] = text
  BY <1>3 DEF Put, Inv, TypeInv
<1>5. UNCHANGED <<today, open, day, isLoading, text, isReadOnly, hasSavedEntry, timer>>
  BY DEF Put, screen
<1>6. TypeInv'
  BY <1>2, <1>4, <1>5 DEF Inv, TypeInv
<1>7. ScreenInv'
  BY <1>5 DEF Inv, ScreenInv
<1>8. WriteInv(c)'
  BY <1>1, <1>2, <1>3, <1>4, <1>5 DEF WriteInv
<1>9. WritesInv'
  BY <1>2, <1>8, <1>1 DEF WritesInv, WriteInv
<1>10. SavedIsStored'
  BY <1>3, <1>4, <1>5 DEF SavedIsStored
<1>11. DatesInv'
  <2>1. \A d \in Days : d # write[c].date => entry'[d] = entry[d]
    BY <1>3 DEF Put, Inv, TypeInv
  <2>2. \A d \in Days : d > today => d # write[c].date
    BY <1>1, <1>3 DEF WriteInv, Inv, TypeInv, Days
  <2>3. \A d \in Days : d > today' => entry'[d] = Nothing
    BY <1>5, <2>1, <2>2 DEF Inv, DatesInv
  <2> QED BY <1>1, <1>5, <2>3 DEF DatesInv, WriteInv
<1> QED BY <1>6, <1>7, <1>9, <1>10, <1>11 DEF Inv

LEMMA PutFailsInv ==
  ASSUME Inv, NEW c \in Callers, PutFails(c)
  PROVE  Inv'
<1>1. WriteInv(c)
  BY OnlyWrite DEF PutFails
<1>2. /\ write' \in [Callers -> Write]
      /\ write'[c].step = "failed" /\ write'[c].date = write[c].date
      /\ write'[c].text = write[c].text
      /\ \A o \in Callers : o # c => write'[o] = write[o]
  BY WriteMoves DEF PutFails
<1>3. UNCHANGED <<today, entry, open, day, isLoading, text, isReadOnly, hasSavedEntry, timer>>
  BY DEF PutFails, screen
<1>4. TypeInv'
  BY <1>2, <1>3 DEF Inv, TypeInv
<1>5. ScreenInv' /\ DatesInv' /\ SavedIsStored'
  BY <1>3 DEF Inv, ScreenInv, DatesInv, SavedIsStored
<1>6. WriteInv(c)'
  BY <1>1, <1>2, <1>3 DEF WriteInv
<1>7. WritesInv'
  BY <1>1, <1>2, <1>6 DEF WritesInv, WriteInv
<1> QED BY <1>4, <1>5, <1>7 DEF Inv

LEMMA SavedInv ==
  ASSUME Inv, NEW c \in Callers, Saved(c)
  PROVE  Inv'
<1>1. WriteInv(c) /\ write[c] \in Write /\ write[c].step = "resume"
  BY OnlyWrite DEF Saved
<1>2. UNCHANGED <<today, entry, open, day, isLoading, text, isReadOnly, timer>> /\ hasSavedEntry' = TRUE
  BY DEF Saved
<1>3. write' = [write EXCEPT ![c] = NoWrite]
  BY DEF Saved
<1>4. write' \in [Callers -> Write] /\ \A o \in Callers : write'[o] = NoWrite
  BY <1>1, <1>3, NoWriteIsWrite DEF WriteInv, Inv, TypeInv
<1>5. TypeInv'
  BY <1>2, <1>4 DEF Inv, TypeInv
<1>6. ScreenInv' /\ DatesInv'
  BY <1>1, <1>2 DEF Inv, ScreenInv, DatesInv, WriteInv
<1>7. write[c].date \in Days /\ entry[write[c].date] = text
  BY <1>1 DEF Write, WriteInv
<1>8. SavedIsStored'
  BY <1>2, <1>7 DEF SavedIsStored
<1> QED BY <1>4, <1>5, <1>6, <1>8 DEF Inv, WritesInv

LEMMA MidnightInv == Inv /\ Midnight => Inv'
<1> SUFFICES ASSUME Inv, Midnight PROVE Inv'
  OBVIOUS
<1>1. /\ UNCHANGED <<entry, open, day, isLoading, text, isReadOnly, hasSavedEntry, timer, write>>
      /\ today' = today + 1 /\ today' \in Days /\ today \in Days
  BY DEF Midnight, screen, Inv, TypeInv, Days
<1>2. TypeInv'
  BY <1>1 DEF Inv, TypeInv, Days
<1>3. ScreenInv' /\ SavedIsStored'
  BY <1>1 DEF Inv, ScreenInv, SavedIsStored
<1>4. DatesInv'
  BY <1>1 DEF Inv, DatesInv, Days
<1>5. \A c \in Callers : WriteInv(c) => WriteInv(c)'
  <2> SUFFICES ASSUME NEW c \in Callers, WriteInv(c) PROVE WriteInv(c)'
    OBVIOUS
  <2>1. write[c].date \in Days
    BY DEF Inv, TypeInv, Write
  <2>2. write[c].date <= today'
    BY <1>1, <2>1 DEF WriteInv, Days
  <2> QED BY <1>1, <2>2 DEF WriteInv
<1>6. WritesInv'
  BY <1>1, <1>5 DEF Inv, WritesInv
<1> QED BY <1>2, <1>3, <1>4, <1>6 DEF Inv

LEMMA DieInv == Inv /\ Die => Inv'
<1> SUFFICES ASSUME Inv, Die PROVE Inv'
  OBVIOUS
<1>1. write' \in [Callers -> Write] /\ \A c \in Callers : write'[c] = NoWrite
  BY NoWriteIsWrite DEF Die, NoWrites
<1>2. TypeInv'
  <2>1. open' \in BOOLEAN /\ isLoading' \in BOOLEAN /\ isReadOnly' \in BOOLEAN /\ hasSavedEntry' \in BOOLEAN
    BY DEF Die
  <2> QED BY <1>1, <2>1 DEF Die, Inv, TypeInv, Text
<1>3. ScreenInv' /\ DatesInv' /\ SavedIsStored'
  BY DEF Die, Inv, ScreenInv, DatesInv, SavedIsStored
<1> QED BY <1>1, <1>2, <1>3 DEF Inv, WritesInv

LEMMA StutterInv == Inv /\ UNCHANGED vars => Inv'
  BY DEF Inv, vars, screen, TypeInv, ScreenInv, DatesInv, WritesInv, WriteInv, SavedIsStored

LEMMA InvStep == Inv /\ [Next]_vars => Inv'
<1> SUFFICES ASSUME Inv, [Next]_vars PROVE Inv'
  OBVIOUS
<1>1. CASE Use
  <2>1. ASSUME NEW value \in Words \cup {Nothing}, onTextChanged(value) PROVE Inv'
    BY <2>1, TextChangedInv DEF Text
  <2> QED BY <1>1, <2>1, OpenInv, SaveNowInv DEF Use
<1>2. CASE Progress
  <2>1. ASSUME NEW c \in Callers, Put(c) \/ PutFails(c) \/ Saved(c) PROVE Inv'
    BY <2>1, PutInv, PutFailsInv, SavedInv
  <2> QED BY <1>2, <2>1, LoadedInv, TimerFinishedInv DEF Progress
<1>3. CASE Midnight
  BY <1>3, MidnightInv
<1>4. CASE Die
  BY <1>4, DieInv
<1>5. CASE UNCHANGED vars
  BY <1>5, StutterInv
<1> QED BY <1>1, <1>2, <1>3, <1>4, <1>5 DEF Next

(* The invariant holds for ever.                                           *)
LEMMA InvHolds == Spec => []Inv
  BY InvInit, InvStep, PTL DEF Spec

-----------------------------------------------------------------------------
(* What the page says is saved is stored (today_entry_controller.dart:92). *)
THEOREM SavedIsStoredHolds == Spec => []SavedIsStored
<1>1. Inv => SavedIsStored
  BY DEF Inv
<1> QED BY <1>1, InvHolds, PTL

(* The only step that stores an entry finds none of its date.              *)
LEMMA StoredOnce ==
  Inv /\ [Next]_vars => \A d \in Days : entry[d] # Nothing => entry'[d] = entry[d]
<1> SUFFICES ASSUME Inv, [Next]_vars, NEW d \in Days, entry[d] # Nothing
             PROVE  entry'[d] = entry[d]
  OBVIOUS
<1>1. CASE entry' = entry
  BY <1>1
<1>2. ASSUME NEW c \in Callers, Put(c) PROVE entry'[d] = entry[d]
  <2>1. WriteInv(c) /\ write[c].step = "put"
    BY <1>2, OnlyWrite DEF Put
  <2>2. d # write[c].date
    BY <2>1 DEF WriteInv
  <2> QED BY <1>2, <2>2 DEF Put, Inv, TypeInv
<1>3. ASSUME NEW c \in Callers, PutFails(c) \/ Saved(c) PROVE entry' = entry
  BY <1>3 DEF PutFails, Saved
<1>4. ASSUME NEW value \in Words \cup {Nothing}, onTextChanged(value) PROVE entry' = entry
  BY <1>4 DEF onTextChanged
<1>5. CASE Open \/ saveNow \/ Loaded \/ _onTimerFinished \/ Midnight \/ Die \/ UNCHANGED vars
  BY <1>1, <1>5 DEF Open, saveNow, Loaded, _onTimerFinished, Midnight, Die, vars
<1> QED BY <1>1, <1>2, <1>3, <1>4, <1>5 DEF Next, Use, Progress

(* An entry, once stored, is final, although every save would put over it: *)
(* for any number of starts, days and words (entry_repository.dart:45).    *)
THEOREM EntriesAreFinalHolds == Spec => EntriesAreFinal
  BY StoredOnce, InvHolds, PTL DEF Spec, EntriesAreFinal

(* A save begins only on a page that was not read-only, which no save has  *)
(* left behind.                                                            *)
LEMMA BegunOnce ==
  Inv /\ [Next]_vars =>
    \A c \in Callers :
      write[c] = NoWrite /\ write'[c] # NoWrite =>
        ~hasSavedEntry /\ \A o \in Callers : write[o] = NoWrite
<1> SUFFICES ASSUME Inv, [Next]_vars, NEW c \in Callers, write[c] = NoWrite, write'[c] # NoWrite
             PROVE  ~isReadOnly
  BY Unwritten DEF Inv, ScreenInv
<1>1. ASSUME NEW d \in Callers, Put(d) \/ PutFails(d) \/ Saved(d) PROVE FALSE
  <2>1. write[d].step # "none"
    BY <1>1 DEF Put, PutFails, Saved
  <2>2. d # c
    BY <2>1 DEF NoWrite
  <2>3. write'[c] = write[c]
    BY <1>1, <2>2 DEF Put, PutFails, Saved, Inv, TypeInv
  <2> QED BY <2>3
<1>2. CASE saveNow
  BY <1>2 DEF saveNow
<1>3. CASE _onTimerFinished
  BY <1>3 DEF _onTimerFinished, Inv, ScreenInv
<1>4. ASSUME NEW value \in Words \cup {Nothing}, onTextChanged(value) PROVE FALSE
  BY <1>4 DEF onTextChanged
<1>5. CASE Open \/ Loaded \/ Midnight \/ Die \/ UNCHANGED vars
  BY <1>5 DEF Open, Loaded, Midnight, Die, NoWrites, vars
<1> QED BY <1>1, <1>2, <1>3, <1>4, <1>5 DEF Next, Use, Progress

(* The button and the end of the minute save the page once between them,   *)
(* also when midnight passes (today_entry_controller.dart:69).             *)
THEOREM SavesOnceHolds == Spec => SavesOnce
  BY BegunOnce, InvHolds, PTL DEF Spec, SavesOnce

-----------------------------------------------------------------------------
(* The page is closed when the minute is over, and what a closed page      *)
(* holds is somebody's: it is saved, or a write has it.                    *)
ClosedInv ==
  /\ isReadOnly <=> timer = "over"
  /\ isReadOnly /\ text # Nothing =>
       hasSavedEntry \/ \E c \in Callers : write[c].step # "none" /\ write[c].text = text

LEMMA ClosedInit == Init => ClosedInv
  BY DEF Init, ClosedInv

(* Who closes the page without having found its entry writes it.           *)
LEMMA ClosingCloses ==
  ASSUME Inv, NEW c \in Callers, upsertToday(c), isReadOnly' = TRUE, timer' = "over", text' = text
  PROVE  ClosedInv'
<1> DEFINE w == [step |-> "put", date |-> today, text |-> text]
<1>1. w.step = "put" /\ w.text = text
  OBVIOUS
<1>2. write' = [write EXCEPT ![c] = w]
  BY DEF upsertToday
<1> HIDE DEF w
<1>3. write'[c] = w
  BY <1>2 DEF Inv, TypeInv
<1>4. \E o \in Callers : write'[o].step # "none" /\ write'[o].text = text'
  BY <1>1, <1>3
<1> QED BY <1>4 DEF ClosedInv

LEMMA UseCloses == Inv /\ ClosedInv /\ Use => ClosedInv'
<1> SUFFICES ASSUME Inv, ClosedInv, Use PROVE ClosedInv'
  OBVIOUS
<1>1. CASE Open
  BY <1>1 DEF Open, screen, ClosedInv
<1>2. CASE saveNow
  BY <1>2, ClosingCloses DEF saveNow, Stopped, Callers
<1>3. ASSUME NEW value \in Words \cup {Nothing}, onTextChanged(value) PROVE ClosedInv'
  <2>1. ~isReadOnly' /\ timer' # "over"
    BY <1>3 DEF onTextChanged, MayWrite, ClosedInv
  <2>2. isReadOnly' \in BOOLEAN
    BY <1>3 DEF onTextChanged, Inv, TypeInv
  <2> QED BY <2>1, <2>2 DEF ClosedInv
<1> QED BY <1>1, <1>2, <1>3 DEF Use

(* A write that goes on keeps its text, and one that ends says it is saved. *)
LEMMA WriteCloses ==
  ASSUME Inv, ClosedInv, NEW c \in Callers, Put(c) \/ PutFails(c) \/ Saved(c)
  PROVE  ClosedInv'
<1>1. CASE Saved(c)
  BY <1>1 DEF Saved, ClosedInv
<1>2. ASSUME NEW step \in {"resume", "failed"}, write' = [write EXCEPT ![c].step = step],
             UNCHANGED screen
      PROVE  ClosedInv'
  <2>1. /\ write'[c].step # "none" /\ write'[c].text = write[c].text
        /\ \A o \in Callers : o # c => write'[o] = write[o]
    BY <1>2, WriteMoves
  <2> QED BY <1>2, <2>1 DEF ClosedInv, screen
<1> QED BY <1>1, <1>2 DEF Put, PutFails

LEMMA ClosedStep == Inv /\ ClosedInv /\ [Next]_vars => ClosedInv'
<1> SUFFICES ASSUME Inv, ClosedInv, [Next]_vars PROVE ClosedInv'
  OBVIOUS
<1>1. CASE Use
  BY <1>1, UseCloses
<1>2. CASE Loaded
  BY <1>2 DEF Loaded, ClosedInv
<1>3. CASE _onTimerFinished
  <2>1. CASE NeedsSaving
    BY <1>3, <2>1, ClosingCloses DEF _onTimerFinished, Callers
  <2>2. CASE ~NeedsSaving
    BY <1>3, <2>2 DEF _onTimerFinished, NeedsSaving, ClosedInv
  <2> QED BY <2>1, <2>2
<1>4. CASE \E c \in Callers : Put(c) \/ PutFails(c) \/ Saved(c)
  BY <1>4, WriteCloses
<1>5. CASE Die
  BY <1>5 DEF Die, ClosedInv
<1>6. CASE Midnight \/ UNCHANGED vars
  BY <1>6 DEF Midnight, vars, screen, ClosedInv
<1> QED BY <1>1, <1>2, <1>3, <1>4, <1>5, <1>6 DEF Next, Progress

(* The safety half of TextIsSaved: when the minute is over, what is on the *)
(* page is saved, or the one write under way has it, or the store refused  *)
(* just that text; no order of the button, the timer and midnight closes   *)
(* the page over a text that nobody saves (today_entry_controller.dart:69). *)
THEOREM ClosedTextIsKept ==
  Spec => [](timer = "over" /\ text # Nothing =>
               hasSavedEntry \/ \E c \in Callers : write[c].step # "none" /\ write[c].text = text)
<1> DEFINE Kept == timer = "over" /\ text # Nothing =>
               hasSavedEntry \/ \E c \in Callers : write[c].step # "none" /\ write[c].text = text
<1>1. ClosedInv => Kept
  BY DEF ClosedInv
<1> HIDE DEF Kept
<1>2. Spec => []ClosedInv
  BY ClosedInit, ClosedStep, InvHolds, PTL DEF Spec
<1>3. Spec => []Kept
  BY <1>1, <1>2, PTL
<1> QED BY <1>3 DEF Kept
=============================================================================
