------------------------ MODULE AfterMessages_proofs ------------------------
(* Theorems about AfterMessages, for any messages, any number of calls in    *)
(* flight and any horizon.                                                   *)
EXTENDS AfterMessages, FiniteSetTheorems, WellFoundedInduction, TLAPS

USE AfterAssumption

-----------------------------------------------------------------------------
(* Type correctness.                                                         *)

\* The counts main() leaves with the system are numbers: a group is finite.
LEMMA GroupCount ==
    ASSUME NEW S, S \subseteq Msgs
    PROVE  Cardinality(S) \in Nat
  BY FS_Subset, FS_CardinalityType

\* Moving a call on, or returning from it, keeps the calls well formed.
LEMMA CallsType ==
    ASSUME calls \in [Calls -> Call \cup {Idle}], NEW c \in Calls
    PROVE  /\ Return(c) => calls' \in [Calls -> Call \cup {Idle}]
           /\ \A pc \in {"change_put", "change_schedule", "delete_find",
                         "delete_row"} :
                calls[c] # Idle /\ Await(c, pc)
                   => calls' \in [Calls -> Call \cup {Idle}]
  BY DEF Return, Await, Call, Idle

\* What a step of a call needs to know of the call.
LEMMA CallFields ==
    ASSUME TypeOK, NEW c \in Calls, calls[c].pc # "idle"
    PROVE  /\ calls[c] # Idle
           /\ calls[c].msg \in Msgs
           /\ calls[c].openOn \in Instants \cup {NoTime}
  BY DEF TypeOK, Call, Idle

LEMMA NotifTypes ==
    ASSUME TypeOK, NEW m \in Msgs, NEW d \in Instants \cup {NoTime}
    PROVE  /\ ScheduleForMessage(m, d)
                => msgNotif' \in [Msgs -> Instants \cup {NoTime}]
           /\ CancelForMessage(m)
                => msgNotif' \in [Msgs -> Instants \cup {NoTime}]
  BY DEF TypeOK, ScheduleForMessage, CancelForMessage

\* The rows the app writes are rows.
LEMMA RowTypes ==
    /\ \A status \in {"none", "deleted"} : NoRow(status) \in Row
    /\ \A d \in Instants \cup {NoTime} :
          SealedRow(d, TRUE) \in Row /\ SealedRow(d, FALSE) \in Row
  BY DEF NoRow, SealedRow, Row

LEMMA TypeInit == Init => TypeOK
<1> SUFFICES ASSUME Init PROVE TypeOK
  OBVIOUS
<1>1. now \in Instants
  BY DEF Init, Instants
<1>2. NoRow("none") \in Row
  BY RowTypes
<1>3. /\ db \in [Msgs -> Row]
      /\ calls \in [Calls -> Call \cup {Idle}]
      /\ msgNotif \in [Msgs -> Instants \cup {NoTime}]
      /\ dateNotif \in [Instants -> Nat]
  BY <1>2 DEF Init
<1> QED BY <1>1, <1>3 DEF Init, TypeOK

LEMMA TypeCallStep ==
    ASSUME TypeOK, NEW c \in Calls, CallStep(c)
    PROVE  TypeOK'
<1>1. /\ calls[c].pc # "idle"
      /\ UNCHANGED <<now, startVars, dateNotif, overlapped>>
  BY DEF CallStep, SubmitSchedule, ChangeCancel, ChangePut, ChangeSchedule,
         DeleteCancel, RepoFind, RepoDelete, startVars, notifVars
<1> DEFINE m == calls[c].msg
<1>2. /\ calls[c] # Idle /\ m \in Msgs
      /\ calls[c].openOn \in Instants \cup {NoTime}
  BY <1>1, CallFields
<1>3. calls' \in [Calls -> Call \cup {Idle}]
  <2>1. \/ Return(c)
        \/ \E pc \in {"change_put", "change_schedule", "delete_find",
                      "delete_row"} : Await(c, pc)
    BY DEF CallStep, SubmitSchedule, ChangeCancel, ChangePut, ChangeSchedule,
           DeleteCancel, RepoFind, RepoDelete
  <2> QED BY <2>1, <1>2, CallsType DEF TypeOK
<1>4. db' \in [Msgs -> Row]
  <2>1. \/ UNCHANGED db
        \/ db' = [db EXCEPT ![m] = SealedRow(calls[c].openOn, TRUE)]
        \/ db' = [db EXCEPT ![m] = NoRow("deleted")]
    BY DEF CallStep, SubmitSchedule, ChangeCancel, ChangePut, ChangeSchedule,
           DeleteCancel, RepoFind, RepoDelete, dbVars
  <2> QED BY <2>1, <1>2, RowTypes DEF TypeOK
<1>5. msgNotif' \in [Msgs -> Instants \cup {NoTime}]
  <2>1. \/ UNCHANGED msgNotif
        \/ ScheduleForMessage(m, calls[c].openOn)
        \/ CancelForMessage(m)
    BY DEF CallStep, SubmitSchedule, ChangeCancel, ChangePut, ChangeSchedule,
           DeleteCancel, RepoFind, RepoDelete, PluginFails, notifVars
  <2> QED BY <2>1, <1>2, NotifTypes DEF TypeOK
<1>6. missed' \subseteq Msgs
  BY <1>2 DEF CallStep, SubmitSchedule, ChangeCancel, ChangePut,
         ChangeSchedule, DeleteCancel, RepoFind, RepoDelete, PluginFails,
         Throws, TypeOK
<1> QED BY <1>1, <1>3, <1>4, <1>5, <1>6 DEF TypeOK, startVars

LEMMA TypeUserStep ==
    ASSUME TypeOK, NEW c \in Calls, NEW m \in Msgs, UserStep(c, m)
    PROVE  TypeOK'
<1>1. UNCHANGED <<now, startVars, notifVars, missed>>
  BY DEF UserStep, SubmitPut, ChangeRead, MayChange, SealedDelete, OpenedDelete
<1>2. \E call \in Call : Start(c, call) /\ call.msg = m
  <2> DEFINE call(pc, d) == [pc |-> pc, msg |-> m, openOn |-> d]
  <2>1. \A pc \in {"submit_schedule", "change_cancel", "delete_cancel",
                   "delete_find"} :
          \A d \in Instants \cup {NoTime} :
             call(pc, d) \in Call /\ call(pc, d).msg = m
    BY DEF Call
  <2>2. \/ \E d \in Instants : \/ Start(c, call("submit_schedule", d))
                              \/ Start(c, call("change_cancel", d))
        \/ Start(c, call("delete_cancel", NoTime))
        \/ Start(c, call("delete_find", NoTime))
    BY DEF UserStep, SubmitPut, ChangeRead, MayChange, SealedDelete,
           OpenedDelete
  <2> QED BY <2>1, <2>2
<1>3. calls' \in [Calls -> Call \cup {Idle}] /\ overlapped' \subseteq Msgs
  BY <1>2 DEF Start, TypeOK
<1>4. db' \in [Msgs -> Row]
  <2>1. CASE UNCHANGED db
    BY <2>1 DEF TypeOK
  <2>2. ASSUME NEW d \in Instants,
               db' = [db EXCEPT ![m] = SealedRow(d, FALSE)]
        PROVE  db' \in [Msgs -> Row]
    BY <2>2, RowTypes DEF TypeOK
  <2> QED BY <2>1, <2>2 DEF UserStep, SubmitPut, ChangeRead, MayChange,
                            SealedDelete,
                            OpenedDelete, dbVars
<1> QED BY <1>1, <1>3, <1>4 DEF TypeOK, startVars, notifVars

LEMMA TypeStart ==
    ASSUME TypeOK, Launch \/ StartStep
    PROVE  TypeOK'
<1>1. CASE Launch
  <2>1. /\ phase' \in {"find_due", "running"}
        /\ work' = work \/ work' = {}
    BY <1>1 DEF Launch, Run
  <2>2. initialized' = TRUE \/ initialized' = initialized
    BY <1>1 DEF Launch
  <2>3. initialized' \in BOOLEAN
    BY <2>2, Zenon DEF TypeOK
  <2>4. UNCHANGED <<now, db, calls, msgNotif, dateNotif, overlapped, missed>>
    BY <1>1 DEF Launch, dbVars, notifVars, historyVars
  <2> QED BY <2>1, <2>3, <2>4 DEF TypeOK, StartPhases
<1>2. CASE FindDue
  BY <1>2 DEF FindDue, DueMessages, TypeOK, StartPhases, dbVars, notifVars,
              historyVars
<1>3. CASE OpenDue
  <2>1. \A m \in Msgs :
          [db[m] EXCEPT !.status = "opened", !.openedAt = now] \in Row
    <3>1. ASSUME NEW row \in Row, NEW d \in Instants
          PROVE  [row EXCEPT !.status = "opened", !.openedAt = d] \in Row
      BY Zenon DEF Row
    <3>2. now \in Instants /\ \A m \in Msgs : db[m] \in Row
      BY DEF TypeOK
    <3> QED BY <3>1, <3>2, Zenon
  <2>2. db' \in [Msgs -> Row]
    BY <1>3, <2>1 DEF OpenDue, TypeOK
  <2> QED BY <1>3, <2>2 DEF OpenDue, TypeOK, StartPhases, notifVars,
                            historyVars
<1>4. CASE FindSealed
  <2>1. SealedMessages \subseteq Msgs
    BY DEF SealedMessages
  <2> QED BY <1>4, <2>1 DEF FindSealed, TypeOK, StartPhases, dbVars, notifVars
<1>5. CASE CancelDate
  BY <1>5 DEF CancelDate, TypeOK, StartPhases, dbVars, historyVars
<1>6. CASE ScheduleDate
  BY <1>6, GroupCount DEF ScheduleDate, TypeOK, StartPhases, dbVars
<1>7. CASE StartFails
  BY <1>7 DEF StartFails, Run, TypeOK, dbVars, notifVars
<1> QED BY <1>1, <1>2, <1>3, <1>4, <1>5, <1>6, <1>7 DEF StartStep

LEMMA TypeEnvironment ==
    ASSUME TypeOK, Kill \/ Tick
    PROVE  TypeOK'
<1>1. CASE Kill
  BY <1>1 DEF Kill, TypeOK, dbVars, notifVars
<1>2. CASE Tick
  BY <1>2 DEF Tick, TypeOK, Instants, NoTime, dbVars, startVars, historyVars
<1> QED BY <1>1, <1>2

LEMMA TypeNext == TypeOK /\ [Next]_vars => TypeOK'
<1> SUFFICES ASSUME TypeOK, [Next]_vars PROVE TypeOK'
  OBVIOUS
<1>1. CASE UNCHANGED vars
  BY <1>1 DEF vars, TypeOK
<1>2. CASE Next
  BY <1>2, TypeCallStep, TypeUserStep, TypeStart, TypeEnvironment DEF Next
<1> QED BY <1>1, <1>2

\* Every variable keeps its type in every behaviour.
THEOREM TypeCorrect == Spec => []TypeOK
  BY TypeInit, TypeNext, PTL DEF Spec

-----------------------------------------------------------------------------
(* Opened messages.                                                          *)

\* main() and the controllers never work at the same time: until runApp there
\* is no controller, and a dead process has no calls.
NoCallBeforeRunApp ==
    phase # "running" => \A c \in Calls : calls[c] = Idle

\* What openMessagesDueToday is about to open is still sealed and due.
WorkIsDue ==
    phase = "open_due" => \A m \in work : Sealed(m) /\ db[m].openOn <= now

\* A change of date in flight holds a sealed copy, and its row has not been
\* opened meanwhile: opening needs a start, and a start kills the call.
CopyNotOpened ==
    \A c \in Calls : calls[c].pc \in {"change_cancel", "change_put"} =>
        db[calls[c].msg].status # "opened"

OpenedInv == /\ TypeOK
             /\ NoCallBeforeRunApp
             /\ WorkIsDue
             /\ CopyNotOpened
             /\ OpenedOnTime

LEMMA OpenedInit == Init => OpenedInv
<1> SUFFICES ASSUME Init PROVE OpenedInv
  OBVIOUS
<1>1. TypeOK
  BY TypeInit
<1>2. NoCallBeforeRunApp /\ WorkIsDue /\ CopyNotOpened
  BY DEF Init, NoCallBeforeRunApp, WorkIsDue, CopyNotOpened, Idle
<1>3. OpenedOnTime
  BY DEF Init, OpenedOnTime, NoRow
<1> QED BY <1>1, <1>2, <1>3 DEF OpenedInv

\* A controller call runs only after runApp, and writes no opened row.
LEMMA OpenedCallStep ==
    ASSUME OpenedInv, NEW c \in Calls,
           CallStep(c) \/ \E m \in Msgs : UserStep(c, m)
    PROVE  /\ phase = "running" /\ UNCHANGED <<phase, work, now>>
           /\ \A m \in Msgs : db'[m].status = "opened" => db'[m] = db[m]
           /\ \A m \in Msgs : db[m].status = "opened" =>
                 db'[m] = db[m] \/ db'[m].status = "deleted"
<1>1. CASE CallStep(c)
  <2>1. /\ calls[c].pc # "idle" /\ UNCHANGED <<phase, work, now>>
    BY <1>1 DEF CallStep, SubmitSchedule, ChangeCancel, ChangePut,
           ChangeSchedule, DeleteCancel, RepoFind, RepoDelete, startVars
  <2>2. phase = "running" /\ calls[c].msg \in Msgs
    BY <2>1, CallFields DEF OpenedInv, NoCallBeforeRunApp, Idle
  <2> DEFINE m == calls[c].msg
  <2>3. \/ UNCHANGED db
        \/ /\ db' = [db EXCEPT ![m] = SealedRow(calls[c].openOn, TRUE)]
           /\ calls[c].pc = "change_put"
        \/ db' = [db EXCEPT ![m] = NoRow("deleted")]
    BY <1>1 DEF CallStep, SubmitSchedule, ChangeCancel, ChangePut,
           ChangeSchedule, DeleteCancel, RepoFind, RepoDelete, dbVars
  <2> QED BY <2>1, <2>2, <2>3 DEF OpenedInv, TypeOK, CopyNotOpened, SealedRow,
                                  NoRow
<1>2. ASSUME NEW m \in Msgs, UserStep(c, m)
      PROVE  /\ phase = "running" /\ UNCHANGED <<phase, work, now>>
             /\ \/ UNCHANGED db
                \/ /\ db[m].status = "none"
                   /\ \E d \in Instants :
                         db' = [db EXCEPT ![m] = SealedRow(d, FALSE)]
  BY <1>2 DEF UserStep, SubmitPut, ChangeRead, MayChange, SealedDelete,
              OpenedDelete,
              Start, startVars, dbVars
<1>3. CASE \E m \in Msgs : UserStep(c, m)
  BY <1>2, <1>3 DEF OpenedInv, TypeOK, SealedRow
<1> QED BY <1>1, <1>3

\* A controller call preserves what is known of opened messages.
LEMMA OpenedAfterCall ==
    ASSUME OpenedInv, TypeOK', NEW c \in Calls,
           CallStep(c) \/ \E m \in Msgs : UserStep(c, m)
    PROVE  OpenedInv'
<1>1. /\ phase = "running" /\ UNCHANGED <<phase, work, now>>
      /\ \A m \in Msgs : db'[m].status = "opened" => db'[m] = db[m]
  BY OpenedCallStep
<1>2. NoCallBeforeRunApp' /\ WorkIsDue'
  BY <1>1 DEF NoCallBeforeRunApp, WorkIsDue
<1>3. OpenedOnTime'
  BY <1>1 DEF OpenedInv, OpenedOnTime
<1>4. CopyNotOpened'
  <2> SUFFICES ASSUME NEW e \in Calls,
                      calls'[e].pc \in {"change_cancel", "change_put"},
                      db'[calls'[e].msg].status = "opened"
               PROVE  FALSE
    BY DEF CopyNotOpened
  <2>1. calls'[e].msg \in Msgs
    BY DEF TypeOK, Call, Idle
  <2>2. db[calls'[e].msg].status = "opened"
    BY <2>1, <1>1
  <2>3. CASE CallStep(c)
    <3>1. calls'[e].msg = calls[e].msg
          /\ calls[e].pc \in {"change_cancel", "change_put"}
      <4>1. CASE e # c
        BY <2>3, <4>1 DEF CallStep, SubmitSchedule, ChangeCancel, ChangePut,
           ChangeSchedule, DeleteCancel, RepoFind, RepoDelete, Await, Return,
           OpenedInv, TypeOK
      <4>2. CASE e = c
        <5>1. \/ Return(c)
              \/ Await(c, "change_put") /\ calls[c].pc = "change_cancel"
              \/ \E pc \in {"change_schedule", "delete_find", "delete_row"} :
                    Await(c, pc)
          BY <2>3 DEF CallStep, SubmitSchedule, ChangeCancel, ChangePut,
             ChangeSchedule, DeleteCancel, RepoFind, RepoDelete
        <5>2. calls'[c].pc \in {"change_cancel", "change_put"}
          BY <4>2
        <5>3. ~Return(c)
          BY <5>2 DEF Return, Idle, OpenedInv, TypeOK
        <5>4. ASSUME NEW pc \in {"change_schedule", "delete_find",
                                 "delete_row"},
                     Await(c, pc), calls[c] # Idle
              PROVE  FALSE
          BY <5>2, <5>4 DEF Await, OpenedInv, TypeOK, Call
        <5>5. calls[c] # Idle
          <6>1. calls[c].pc # "idle"
            BY <2>3 DEF CallStep, SubmitSchedule, ChangeCancel, ChangePut,
               ChangeSchedule, DeleteCancel, RepoFind, RepoDelete
          <6> QED BY <6>1, CallFields DEF OpenedInv
        <5>6. Await(c, "change_put") /\ calls[c].pc = "change_cancel"
          BY <5>1, <5>3, <5>4, <5>5
        <5> QED BY <5>5, <5>6, <4>2 DEF Await, OpenedInv, TypeOK, Call
      <4> QED BY <4>1, <4>2
    <3> QED BY <3>1, <2>2 DEF OpenedInv, CopyNotOpened
  <2>4. ASSUME NEW m \in Msgs, UserStep(c, m)
        PROVE  FALSE
    <3>1. \/ calls'[e] = calls[e]
          \/ calls'[e].msg = m /\ (Sealed(m) \/ db[m].status = "none")
      <4>1. CASE e # c
        BY <2>4, <4>1 DEF UserStep, SubmitPut, ChangeRead, MayChange,
                          SealedDelete,
                          OpenedDelete, Start, OpenedInv, TypeOK
      <4>2. CASE e = c
        <5>1. ASSUME OpenedDelete(c, m)
              PROVE  FALSE
          <6>1. calls'[c].pc = "delete_find"
            BY <5>1 DEF OpenedDelete, Start, OpenedInv, TypeOK
          <6> QED BY <6>1, <4>2
        <5> DEFINE call(pc, d) == [pc |-> pc, msg |-> m, openOn |-> d]
        <5>2. \A pc, d : Start(c, call(pc, d)) => calls'[c].msg = m
          BY DEF Start, OpenedInv, TypeOK
        <5>3. /\ \E pc, d : Start(c, call(pc, d))
              /\ Sealed(m) \/ db[m].status = "none"
          BY <2>4, <5>1 DEF UserStep, SubmitPut, ChangeRead, MayChange,
                            SealedDelete
        <5> QED BY <5>2, <5>3, <4>2
      <4> QED BY <4>1, <4>2
    <3> QED BY <3>1, <2>2 DEF OpenedInv, CopyNotOpened, Sealed
  <2> QED BY <2>3, <2>4
<1> QED BY <1>2, <1>3, <1>4 DEF OpenedInv

\* So does a step of main(), which alone opens messages, and the environment.
LEMMA OpenedAfterStart ==
    ASSUME OpenedInv, TypeOK', Launch \/ StartStep \/ Kill \/ Tick
    PROVE  OpenedInv'
<1> USE DEF OpenedInv
<1>1. NoCallBeforeRunApp'
  BY DEF NoCallBeforeRunApp, Launch, StartStep, FindDue, OpenDue, FindSealed,
         CancelDate, ScheduleDate, StartFails, Run, Kill, Tick, startVars,
         StartPhases
<1>2. CASE OpenDue
  <2>1. \A m \in work : Sealed(m) /\ db[m].openOn <= now
    BY <1>2 DEF OpenDue, WorkIsDue
  <2>2. \A m \in Msgs :
           \/ db'[m] = db[m]
           \/ db'[m].openOn <= now /\ db'[m].openedAt = now
    <3> SUFFICES ASSUME NEW m \in Msgs, m \in work
                 PROVE  db'[m].openOn <= now /\ db'[m].openedAt = now
      BY <1>2 DEF OpenDue
    <3>1. db'[m] = [db[m] EXCEPT !.status = "opened", !.openedAt = now]
      BY <1>2 DEF OpenDue
    <3> QED BY <2>1, <3>1 DEF TypeOK, Row
  <2>3. OpenedOnTime'
    BY <2>2 DEF OpenedOnTime
  <2>4. WorkIsDue'
    BY <1>2 DEF OpenDue, WorkIsDue
  <2>5. CopyNotOpened'
    <3>1. \A c \in Calls : calls'[c] = Idle
      BY <1>1, <1>2 DEF OpenDue, NoCallBeforeRunApp
    <3> QED BY <3>1 DEF CopyNotOpened, Idle
  <2> QED BY <1>1, <2>3, <2>4, <2>5
<1>3. ASSUME ~OpenDue
      PROVE  UNCHANGED db
  BY <1>3 DEF Launch, StartStep, FindDue, FindSealed, CancelDate,
              ScheduleDate, StartFails, Kill, Tick, dbVars
<1>4. CASE ~OpenDue
  <2>1. OpenedOnTime'
    BY <1>3, <1>4 DEF OpenedOnTime
  <2>2. WorkIsDue'
    <3>1. CASE FindDue
      BY <3>1 DEF FindDue, DueMessages, WorkIsDue, Sealed, dbVars
    <3>2. CASE Tick
      BY <3>2 DEF Tick, WorkIsDue, Sealed, dbVars, startVars, TypeOK, Row,
                  Instants, NoTime
    <3>3. CASE Launch \/ FindSealed \/ CancelDate \/ ScheduleDate
               \/ StartFails \/ Kill
      BY <3>3 DEF Launch, FindSealed, CancelDate, ScheduleDate, StartFails,
                  Kill, Run, WorkIsDue
    <3> QED BY <1>4, <3>1, <3>2, <3>3 DEF StartStep
  <2>3. CopyNotOpened'
    BY <1>3, <1>4 DEF Launch, StartStep, FindDue, FindSealed, CancelDate,
              ScheduleDate, StartFails, Kill, Tick, CopyNotOpened, Idle
  <2> QED BY <1>1, <2>1, <2>2, <2>3
<1> QED BY <1>2, <1>4

LEMMA OpenedNext == OpenedInv /\ [Next]_vars => OpenedInv'
<1> SUFFICES ASSUME OpenedInv, [Next]_vars PROVE OpenedInv'
  OBVIOUS
<1>1. TypeOK'
  BY TypeNext DEF OpenedInv
<1>2. CASE UNCHANGED vars
  BY <1>2, <1>1 DEF vars, OpenedInv, NoCallBeforeRunApp, WorkIsDue,
                    CopyNotOpened, OpenedOnTime, Sealed
<1>3. CASE Next
  BY <1>1, <1>3, OpenedAfterCall, OpenedAfterStart DEF Next
<1> QED BY <1>2, <1>3

LEMMA OpenedInvariant == Spec => []OpenedInv
  BY OpenedInit, OpenedNext, PTL DEF Spec

\* No message is opened before the instant it is addressed to, whatever
\* re-dating, deletion, failure or restart happens around the opening.
THEOREM OpenedOnTimeHolds == Spec => []OpenedOnTime
<1>1. OpenedInv => OpenedOnTime
  BY DEF OpenedInv
<1> QED BY <1>1, OpenedInvariant, PTL

\* An opened message is never sealed again, re-dated or opened a second time.
THEOREM OpenedIsFinalHolds == Spec => OpenedIsFinal
<1> DEFINE Final == \A m \in Msgs : db[m].status = "opened" =>
                       db'[m] = db[m] \/ db'[m].status = "deleted"
<1>1. OpenedInv /\ [Next]_vars => [Final]_vars
  <2> SUFFICES ASSUME OpenedInv, Next PROVE Final
    OBVIOUS
  <2>1. CASE OpenDue
    BY <2>1 DEF OpenDue, OpenedInv, WorkIsDue, Sealed, TypeOK
  <2>2. CASE /\ ~OpenDue
             /\ Launch \/ StartStep \/ Kill \/ Tick
    BY <2>2 DEF Launch, StartStep, FindDue, FindSealed, CancelDate,
                ScheduleDate, StartFails, Kill, Tick, dbVars
  <2>3. CASE \E c \in Calls : CallStep(c) \/ \E m \in Msgs : UserStep(c, m)
    BY <2>3, OpenedCallStep
  <2> QED BY <2>1, <2>2, <2>3 DEF Next
<1> QED BY <1>1, OpenedInvariant, PTL DEF Spec, OpenedIsFinal

-----------------------------------------------------------------------------
(* Deletions and changes of date.                                            *)

\* Two calls on one message are noticed.
SoleCall ==
    \A c, e \in Calls :
        c # e /\ calls[c] # Idle /\ calls[e] # Idle /\ calls[c].msg = calls[e].msg
          => calls[c].msg \in overlapped

\* A change of date that nobody else overlaps holds a true copy: its row is
\* still sealed, and its date was not changed.
CopyIsTrue ==
    \A c \in Calls :
        calls[c].pc \in {"change_cancel", "change_put"} /\ calls[c].msg \notin overlapped
          => Sealed(calls[c].msg) /\ ~db[calls[c].msg].dateChangeUsed

\* Only a row that was written can have used its change of date.
UsedIsPresent == \A m \in Msgs : db[m].dateChangeUsed => Present(m)

CallsInv == OpenedInv /\ SoleCall /\ CopyIsTrue /\ UsedIsPresent

LEMMA CallsInit == Init => CallsInv
<1> SUFFICES ASSUME Init PROVE CallsInv
  OBVIOUS
<1>1. \A c \in Calls : calls[c] = Idle /\ calls[c].pc = "idle"
  BY DEF Init, Idle
<1>2. SoleCall /\ CopyIsTrue
  BY <1>1 DEF SoleCall, CopyIsTrue
<1>3. UsedIsPresent
  BY DEF Init, UsedIsPresent, NoRow
<1> QED BY <1>2, <1>3, OpenedInit DEF CallsInv

\* What a step of a call does to the calls and to the collection.
LEMMA CallStepEffect ==
    ASSUME TypeOK, NEW c \in Calls, CallStep(c)
    PROVE  /\ calls[c] # Idle /\ calls[c].msg \in Msgs /\ overlapped' = overlapped
           /\ \A e \in Calls : e # c => calls'[e] = calls[e]
           /\ \/ calls'[c] = Idle
              \/ /\ calls'[c].msg = calls[c].msg
                 /\ \/ calls'[c].pc \notin {"change_cancel", "change_put"}
                    \/ calls[c].pc = "change_cancel" /\ db' = db
           /\ \/ db' = db
              \/ /\ calls[c].pc = "change_put"
                 /\ db' = [db EXCEPT ![calls[c].msg] =
                                        SealedRow(calls[c].openOn, TRUE)]
              \/ db' = [db EXCEPT ![calls[c].msg] = NoRow("deleted")]
<1>1. calls[c].pc # "idle" /\ overlapped' = overlapped
  BY DEF CallStep, SubmitSchedule, ChangeCancel, ChangePut, ChangeSchedule,
         DeleteCancel, RepoFind, RepoDelete
<1>2. calls[c] # Idle /\ calls[c].msg \in Msgs
  BY <1>1, CallFields
<1>3. calls[c] \in Call
  BY <1>2 DEF TypeOK
<1>4. \/ Return(c)
      \/ \E pc \in {"change_schedule", "delete_find", "delete_row"} : Await(c, pc)
      \/ Await(c, "change_put") /\ calls[c].pc = "change_cancel" /\ db' = db
  BY DEF CallStep, SubmitSchedule, ChangeCancel, ChangePut, ChangeSchedule,
         DeleteCancel, RepoFind, RepoDelete, dbVars
<1>5. \A pc : Await(c, pc) => /\ calls'[c].pc = pc /\ calls'[c].msg = calls[c].msg
                              /\ \A e \in Calls : e # c => calls'[e] = calls[e]
  BY <1>3 DEF Await, TypeOK, Call
<1>6. Return(c) => /\ calls'[c] = Idle
                   /\ \A e \in Calls : e # c => calls'[e] = calls[e]
  BY DEF Return, TypeOK
<1>7. \/ db' = db
      \/ /\ calls[c].pc = "change_put"
         /\ db' = [db EXCEPT ![calls[c].msg] = SealedRow(calls[c].openOn, TRUE)]
      \/ db' = [db EXCEPT ![calls[c].msg] = NoRow("deleted")]
  BY DEF CallStep, SubmitSchedule, ChangeCancel, ChangePut, ChangeSchedule,
         DeleteCancel, RepoFind, RepoDelete, dbVars
<1>8. \/ calls'[c] = Idle
      \/ /\ calls'[c].msg = calls[c].msg
         /\ \/ calls'[c].pc \notin {"change_cancel", "change_put"}
            \/ calls[c].pc = "change_cancel" /\ db' = db
  BY <1>4, <1>5, <1>6
<1>9. \A e \in Calls : e # c => calls'[e] = calls[e]
  BY <1>4, <1>5, <1>6
<1> QED BY <1>1, <1>2, <1>7, <1>8, <1>9

\* What the user's starting of a call does to them.
LEMMA UserStepEffect ==
    ASSUME TypeOK, NEW c \in Calls, NEW m \in Msgs, UserStep(c, m)
    PROVE  /\ calls[c] = Idle /\ calls'[c].msg = m
           /\ \A e \in Calls : e # c => calls'[e] = calls[e]
           /\ overlapped' = IF InFlight(m) = {} THEN overlapped ELSE overlapped \cup {m}
           /\ calls'[c].pc \in {"change_cancel", "change_put"} => MayChange(m) /\ db' = db
           /\ \/ db' = db
              \/ /\ db[m].status = "none"
                 /\ \E d \in Instants : db' = [db EXCEPT ![m] = SealedRow(d, FALSE)]
<1>1. ASSUME NEW call, call.msg = m, Start(c, call)
      PROVE  /\ calls[c] = Idle /\ calls'[c] = call
             /\ \A e \in Calls : e # c => calls'[e] = calls[e]
             /\ overlapped' = IF InFlight(m) = {} THEN overlapped ELSE overlapped \cup {m}
  BY <1>1 DEF Start, TypeOK
<1>2. CASE SealedDelete(c, m)
  <2> DEFINE call == [pc |-> "delete_cancel", msg |-> m, openOn |-> NoTime]
  <2>1. Start(c, call) /\ db' = db
    BY <1>2 DEF SealedDelete, dbVars
  <2>2. call.msg = m /\ call.pc = "delete_cancel"
    OBVIOUS
  <2> HIDE DEF call
  <2> QED BY <1>1, <2>1, <2>2
<1>3. CASE OpenedDelete(c, m)
  <2> DEFINE call == [pc |-> "delete_find", msg |-> m, openOn |-> NoTime]
  <2>1. Start(c, call) /\ db' = db
    BY <1>3 DEF OpenedDelete, dbVars
  <2>2. call.msg = m /\ call.pc = "delete_find"
    OBVIOUS
  <2> HIDE DEF call
  <2> QED BY <1>1, <2>1, <2>2
<1>4. ASSUME NEW d \in Instants, SubmitPut(c, m, d)
      PROVE  /\ calls[c] = Idle /\ calls'[c].msg = m
             /\ \A e \in Calls : e # c => calls'[e] = calls[e]
             /\ overlapped' = IF InFlight(m) = {} THEN overlapped ELSE overlapped \cup {m}
             /\ db[m].status = "none" /\ db' = [db EXCEPT ![m] = SealedRow(d, FALSE)]
             /\ calls'[c].pc \notin {"change_cancel", "change_put"}
  <2> DEFINE call == [pc |-> "submit_schedule", msg |-> m, openOn |-> d]
  <2>1. Start(c, call)
    BY <1>4 DEF SubmitPut
  <2>2. /\ db[m].status = "none" /\ db' = [db EXCEPT ![m] = SealedRow(d, FALSE)]
    BY <1>4 DEF SubmitPut
  <2>3. call.msg = m /\ call.pc = "submit_schedule"
    OBVIOUS
  <2> HIDE DEF call
  <2>4. /\ calls[c] = Idle /\ calls'[c] = call
        /\ \A e \in Calls : e # c => calls'[e] = calls[e]
        /\ overlapped' = IF InFlight(m) = {} THEN overlapped ELSE overlapped \cup {m}
    BY <1>1, <2>1, <2>3
  <2> QED BY <2>2, <2>3, <2>4
<1>5. ASSUME NEW d \in Instants, ChangeRead(c, m, d)
      PROVE  /\ calls[c] = Idle /\ calls'[c].msg = m
             /\ \A e \in Calls : e # c => calls'[e] = calls[e]
             /\ overlapped' = IF InFlight(m) = {} THEN overlapped ELSE overlapped \cup {m}
             /\ MayChange(m) /\ db' = db
  <2> DEFINE call == [pc |-> "change_cancel", msg |-> m, openOn |-> d]
  <2>1. Start(c, call)
    BY <1>5 DEF ChangeRead, dbVars
  <2>2. /\ MayChange(m) /\ db' = db
    BY <1>5 DEF ChangeRead, dbVars
  <2>3. call.msg = m /\ call.pc = "change_cancel"
    OBVIOUS
  <2> HIDE DEF call
  <2>4. /\ calls[c] = Idle /\ calls'[c] = call
        /\ \A e \in Calls : e # c => calls'[e] = calls[e]
        /\ overlapped' = IF InFlight(m) = {} THEN overlapped ELSE overlapped \cup {m}
    BY <1>1, <2>1, <2>3
  <2> QED BY <2>2, <2>3, <2>4
<1> QED BY <1>2, <1>3, <1>4, <1>5 DEF UserStep

\* A call's step keeps the account: what it writes, no unnoticed copy holds.
LEMMA CallsAfterCall ==
    ASSUME CallsInv, NEW c \in Calls, CallStep(c)
    PROVE  SoleCall' /\ CopyIsTrue' /\ UsedIsPresent'
<1> DEFINE m == calls[c].msg
<1>1. /\ calls[c] # Idle /\ m \in Msgs /\ overlapped' = overlapped
      /\ \A e \in Calls : e # c => calls'[e] = calls[e]
      /\ \/ calls'[c] = Idle
         \/ /\ calls'[c].msg = m
            /\ \/ calls'[c].pc \notin {"change_cancel", "change_put"}
               \/ calls[c].pc = "change_cancel" /\ db' = db
      /\ \/ db' = db
         \/ calls[c].pc = "change_put" /\ db' = [db EXCEPT ![m] = SealedRow(calls[c].openOn, TRUE)]
         \/ db' = [db EXCEPT ![m] = NoRow("deleted")]
  BY CallStepEffect DEF CallsInv, OpenedInv
<1> HIDE DEF m
<1>2. SoleCall'
  BY <1>1 DEF CallsInv, SoleCall, m
<1>3. \A n \in Msgs : n # m => db'[n] = db[n]
  BY <1>1 DEF CallsInv, OpenedInv, TypeOK
<1>4. UsedIsPresent'
  <2> SUFFICES ASSUME NEW n \in Msgs, db'[n].dateChangeUsed PROVE Present(n)'
    BY DEF UsedIsPresent
  <2>1. CASE db'[n] = db[n]
    BY <2>1 DEF CallsInv, UsedIsPresent, Present
  <2>2. CASE n = m /\ db' = [db EXCEPT ![m] = SealedRow(calls[c].openOn, TRUE)]
    BY <1>1, <2>2 DEF CallsInv, OpenedInv, TypeOK, SealedRow, Present
  <2>3. CASE n = m /\ db' = [db EXCEPT ![m] = NoRow("deleted")]
    BY <1>1, <2>3 DEF CallsInv, OpenedInv, TypeOK, NoRow
  <2> QED BY <1>1, <1>3, <2>1, <2>2, <2>3
<1>5. CopyIsTrue'
  <2> SUFFICES ASSUME NEW e \in Calls, calls'[e].pc \in {"change_cancel", "change_put"},
                      calls'[e].msg \notin overlapped'
               PROVE  db'[calls'[e].msg].status = "sealed" /\ ~db'[calls'[e].msg].dateChangeUsed
    BY DEF CopyIsTrue, Sealed
  <2>1. CASE e = c
    <3>1. calls'[c] # Idle
      BY <2>1 DEF Idle
    <3>2. calls'[c].msg = m /\ calls[c].pc = "change_cancel" /\ db' = db
      BY <1>1, <2>1, <3>1
    <3> QED BY <1>1, <2>1, <3>2 DEF CallsInv, CopyIsTrue, Sealed, m
  <2>2. CASE e # c
    <3>1. calls'[e] = calls[e] /\ calls[e] # Idle
      BY <1>1, <2>2 DEF Idle
    <3>2. calls[e].msg # m
      BY <1>1, <2>2, <3>1 DEF CallsInv, SoleCall, m
    <3>3. calls[e].msg \in Msgs
      BY <3>1 DEF CallsInv, OpenedInv, TypeOK, Call
    <3>4. db'[calls[e].msg] = db[calls[e].msg]
      BY <1>3, <3>2, <3>3
    <3>5. Sealed(calls[e].msg) /\ ~db[calls[e].msg].dateChangeUsed
      BY <1>1, <3>1 DEF CallsInv, CopyIsTrue
    <3> QED BY <3>1, <3>4, <3>5 DEF Sealed
  <2> QED BY <2>1, <2>2
<1> QED BY <1>2, <1>4, <1>5

LEMMA CallsAfterUser ==
    ASSUME CallsInv, NEW c \in Calls, NEW m \in Msgs, UserStep(c, m)
    PROVE  SoleCall' /\ CopyIsTrue' /\ UsedIsPresent'
<1>1. /\ calls[c] = Idle /\ calls'[c].msg = m
      /\ \A e \in Calls : e # c => calls'[e] = calls[e]
      /\ overlapped' = IF InFlight(m) = {} THEN overlapped ELSE overlapped \cup {m}
      /\ calls'[c].pc \in {"change_cancel", "change_put"} => MayChange(m) /\ db' = db
      /\ \/ db' = db
         \/ /\ db[m].status = "none"
            /\ \E d \in Instants : db' = [db EXCEPT ![m] = SealedRow(d, FALSE)]
  BY UserStepEffect DEF CallsInv, OpenedInv
<1>2. overlapped \subseteq overlapped'
      /\ \A e \in Calls : calls[e] # Idle /\ calls[e].msg = m => m \in overlapped'
  BY <1>1 DEF InFlight
<1>3. SoleCall'
  BY <1>1, <1>2 DEF CallsInv, SoleCall
<1>4. \A n \in Msgs : n # m => db'[n] = db[n]
  BY <1>1 DEF CallsInv, OpenedInv, TypeOK
<1>5. UsedIsPresent'
  <2> SUFFICES ASSUME NEW n \in Msgs, db'[n].dateChangeUsed PROVE Present(n)'
    BY DEF UsedIsPresent
  <2>1. CASE db'[n] = db[n]
    BY <2>1 DEF CallsInv, UsedIsPresent, Present
  <2>2. ASSUME NEW d \in Instants, n = m, db' = [db EXCEPT ![m] = SealedRow(d, FALSE)]
        PROVE  FALSE
    BY <2>2 DEF CallsInv, OpenedInv, TypeOK, SealedRow
  <2> QED BY <1>1, <1>4, <2>1, <2>2
<1>6. CopyIsTrue'
  <2> SUFFICES ASSUME NEW e \in Calls, calls'[e].pc \in {"change_cancel", "change_put"},
                      calls'[e].msg \notin overlapped'
               PROVE  db'[calls'[e].msg].status = "sealed" /\ ~db'[calls'[e].msg].dateChangeUsed
    BY DEF CopyIsTrue, Sealed
  <2>1. CASE e = c
    BY <1>1, <2>1 DEF MayChange, Sealed
  <2>2. CASE e # c
    <3>1. calls'[e] = calls[e] /\ calls[e] # Idle
      BY <1>1, <2>2 DEF Idle
    <3>2. calls[e].msg # m /\ calls[e].msg \notin overlapped
      BY <1>2, <3>1
    <3>3. calls[e].msg \in Msgs
      BY <3>1 DEF CallsInv, OpenedInv, TypeOK, Call
    <3>4. db'[calls[e].msg] = db[calls[e].msg]
      BY <1>4, <3>2, <3>3
    <3>5. Sealed(calls[e].msg) /\ ~db[calls[e].msg].dateChangeUsed
      BY <3>1, <3>2 DEF CallsInv, CopyIsTrue
    <3> QED BY <3>1, <3>4, <3>5 DEF Sealed
  <2> QED BY <2>1, <2>2
<1> QED BY <1>3, <1>5, <1>6

\* main() opens rows when there are no calls; the rest touches neither.
LEMMA CallsAfterStart ==
    ASSUME CallsInv, Launch \/ StartStep \/ Kill \/ Tick
    PROVE  SoleCall' /\ CopyIsTrue' /\ UsedIsPresent'
<1>1. CASE OpenDue
  <2>1. \A c \in Calls : calls'[c] = Idle /\ calls'[c].pc = "idle"
    <3>1. phase = "open_due" /\ calls' = calls
      BY <1>1 DEF OpenDue
    <3>2. \A c \in Calls : calls[c] = Idle
      BY <3>1 DEF CallsInv, OpenedInv, NoCallBeforeRunApp
    <3> QED BY <3>1, <3>2 DEF Idle
  <2>2. \A m \in Msgs : db'[m].dateChangeUsed = db[m].dateChangeUsed
                        /\ (Present(m) => Present(m)')
    <3> SUFFICES ASSUME NEW m \in Msgs, m \in work
                 PROVE  db'[m].dateChangeUsed = db[m].dateChangeUsed /\ Present(m)'
      BY <1>1 DEF OpenDue, Present
    <3>1. db'[m] = [db[m] EXCEPT !.status = "opened", !.openedAt = now]
      BY <1>1 DEF OpenDue
    <3> QED BY <3>1 DEF CallsInv, OpenedInv, TypeOK, Row, Present
  <2> QED BY <2>1, <2>2 DEF CallsInv, SoleCall, CopyIsTrue, UsedIsPresent
<1>2. CASE Kill
  <2>1. \A c \in Calls : calls'[c] = Idle /\ calls'[c].pc = "idle"
    BY <1>2 DEF Kill, Idle
  <2> QED BY <1>2, <2>1 DEF Kill, dbVars, CallsInv, SoleCall, CopyIsTrue, UsedIsPresent, Present
<1>3. CASE ~OpenDue /\ ~Kill
  <2>1. UNCHANGED <<db, calls, overlapped>>
    BY <1>3 DEF Launch, StartStep, FindDue, FindSealed, CancelDate, ScheduleDate,
                StartFails, Tick, dbVars, historyVars
  <2> QED BY <2>1 DEF CallsInv, SoleCall, CopyIsTrue, UsedIsPresent, Sealed, Present
<1> QED BY <1>1, <1>2, <1>3

LEMMA CallsNext == CallsInv /\ [Next]_vars => CallsInv'
<1> SUFFICES ASSUME CallsInv, [Next]_vars PROVE CallsInv'
  OBVIOUS
<1>1. OpenedInv'
  BY OpenedNext DEF CallsInv
<1>2. CASE UNCHANGED vars
  BY <1>1, <1>2 DEF vars, CallsInv, SoleCall, CopyIsTrue, UsedIsPresent, Sealed, Present
<1>3. CASE Next
  BY <1>1, <1>3, CallsAfterCall, CallsAfterUser, CallsAfterStart DEF Next, CallsInv
<1> QED BY <1>2, <1>3

LEMMA CallsInvariant == Spec => []CallsInv
  BY CallsInit, CallsNext, PTL DEF Spec

\* A put of a message that no other call overlaps finds it sealed, with its
\* change of date unused.
LEMMA PutFindsSealed ==
    ASSUME CallsInv, [Next]_vars, NEW m \in Msgs, m \notin overlapped, db'[m] # db[m]
    PROVE  \/ db'[m].status = "deleted"
           \/ db[m].status \in {"none", "sealed"} /\ ~db[m].dateChangeUsed
           \/ db'[m].openOn = db[m].openOn /\ db[m].status = "sealed"
<1>1. ASSUME NEW c \in Calls, CallStep(c)
      PROVE  \/ db'[m].status = "deleted"
             \/ db[m].status = "sealed" /\ ~db[m].dateChangeUsed
  <2>1. \/ db' = db
        \/ /\ calls[c].pc = "change_put" /\ calls[c].msg \in Msgs
           /\ db' = [db EXCEPT ![calls[c].msg] = SealedRow(calls[c].openOn, TRUE)]
        \/ db' = [db EXCEPT ![calls[c].msg] = NoRow("deleted")]
    BY <1>1, CallStepEffect DEF CallsInv, OpenedInv
  <2>2. CASE /\ calls[c].pc = "change_put"
             /\ db' = [db EXCEPT ![calls[c].msg] = SealedRow(calls[c].openOn, TRUE)]
    <3>1. calls[c].msg = m
      BY <2>2 DEF CallsInv, OpenedInv, TypeOK
    <3> QED BY <2>2, <3>1 DEF CallsInv, CopyIsTrue, Sealed
  <2>3. CASE db' = [db EXCEPT ![calls[c].msg] = NoRow("deleted")]
    <3>1. calls[c].msg = m
      BY <2>3 DEF CallsInv, OpenedInv, TypeOK
    <3> QED BY <2>3, <3>1 DEF CallsInv, OpenedInv, TypeOK, NoRow
  <2> QED BY <2>1, <2>2, <2>3
<1>2. ASSUME NEW c \in Calls, NEW n \in Msgs, UserStep(c, n)
      PROVE  db[m].status = "none" /\ ~db[m].dateChangeUsed
  <2>1. db[n].status = "none" /\ \E d \in Instants : db' = [db EXCEPT ![n] = SealedRow(d, FALSE)]
    BY <1>2, UserStepEffect DEF CallsInv, OpenedInv
  <2>2. n = m
    BY <2>1 DEF CallsInv, OpenedInv, TypeOK
  <2> QED BY <2>1, <2>2 DEF CallsInv, UsedIsPresent, Present
<1>3. CASE OpenDue
  <2>1. m \in work /\ db[m].status = "sealed"
    BY <1>3 DEF OpenDue, CallsInv, OpenedInv, WorkIsDue, Sealed
  <2>2. db'[m] = [db[m] EXCEPT !.status = "opened", !.openedAt = now]
    BY <1>3, <2>1 DEF OpenDue
  <2> QED BY <2>1, <2>2 DEF CallsInv, OpenedInv, TypeOK, Row
<1>4. CASE ~OpenDue /\ (Launch \/ StartStep \/ Kill \/ Tick \/ UNCHANGED vars)
  BY <1>4 DEF Launch, StartStep, FindDue, FindSealed, CancelDate, ScheduleDate,
              StartFails, Kill, Tick, dbVars, vars
<1> QED BY <1>1, <1>2, <1>3, <1>4 DEF Next

\* A deletion that no other call overlaps is final, for any number of
\* messages, calls and starts.
THEOREM DeletionIsFinalHolds == Spec => DeletionIsFinal
<1> DEFINE Final == \A m \in Msgs : db[m].status = "deleted" /\ m \notin overlapped =>
                       db'[m].status = "deleted"
<1>1. CallsInv /\ [Next]_vars => [Final]_vars
  BY PutFindsSealed
<1> QED BY <1>1, CallsInvariant, PTL DEF Spec, DeletionIsFinal

\* A message's day is moved at most once, unless two calls overlap on it.
THEOREM OneDateChangeHolds == Spec => OneDateChange
<1> DEFINE Once == \A m \in Msgs : db[m].dateChangeUsed /\ m \notin overlapped =>
                       db'[m].openOn = db[m].openOn \/ db'[m].status = "deleted"
<1>1. CallsInv /\ [Next]_vars => [Once]_vars
  BY PutFindsSealed
<1> QED BY <1>1, CallsInvariant, PTL DEF Spec, OneDateChange

-----------------------------------------------------------------------------
(* Reminders.                                                                *)

Announcing == phase \in {"cancel_date", "schedule_date"}
Reminded(m) == msgNotif[m] = db[m].openOn \/ dateNotif[db[m].openOn] > 0

\* A call about to schedule, that nobody overlaps, holds the row's own day.
CopyDated ==
    \A c \in Calls :
        calls[c].pc \in {"submit_schedule", "change_schedule"}
          /\ calls[c].msg \notin overlapped /\ Sealed(calls[c].msg)
          => db[calls[c].msg].openOn = calls[c].openOn

\* Except while main() announces the groups, the reminders are there: also in
\* a dead process, and in a start that has not come to them.
RemindedOutside ==
    ~Announcing =>
        \A m \in SealedMessages \ (overlapped \cup missed) :
            InFlight(m) = {} => Reminded(m)

\* While it does, the messages behind it have theirs, and no message ahead
\* shares its day with one behind: cancelling the next day silences none.
GroupsApart ==
    Announcing =>
        /\ work # {}
        /\ \A m \in SealedMessages \ work :
              Reminded(m) /\ \A w \in work : db[w].openOn # db[m].openOn

RemindersInv == CallsInv /\ CopyDated /\ RemindedOutside /\ GroupsApart

LEMMA SmallestInstant ==
    ASSUME NEW S, S \subseteq Nat, S # {}
    PROVE  \E d \in S : \A e \in S : d <= e
<1> DEFINE R == OpToRel(<, Nat)
<1>1. IsWellFoundedOn(R, Nat)
  BY NatLessThanWellFounded
<1> HIDE DEF R
<1>2. PICK d \in S : \A e \in S : ~(<<e, d>> \in R)
  BY <1>1, WFMin
<1>3. \A e \in S : <<e, d>> \in R <=> e < d
  BY DEF R, OpToRel
<1>4. \A e \in S : ~(e < d)
  BY <1>2, <1>3
<1>5. d \in Nat /\ \A e \in S : e \in Nat
  OBVIOUS
<1> QED BY <1>4, <1>5

\* The next day main() announces is the day of a message it has before it.
LEMMA FirstDateOfWork ==
    ASSUME TypeOK, work # {}
    PROVE  \E w \in work : db[w].openOn = FirstDate
<1> DEFINE S == {db[m].openOn : m \in work}
<1>1. S \subseteq Nat /\ S # {}
  BY DEF TypeOK, Row, Instants, NoTime
<1>2. \E d \in S : \A m \in work : d <= db[m].openOn
  <2>1. PICK d \in S : \A e \in S : d <= e
    BY <1>1, SmallestInstant
  <2>2. \A m \in work : db[m].openOn \in S
    OBVIOUS
  <2> QED BY <2>1, <2>2
<1>3. FirstDate \in S
  BY <1>2 DEF FirstDate
<1> QED BY <1>3

\* A message still to be opened has a day within the horizon.
LEMMA SealedDay ==
    ASSUME TypeOK, NEW m \in SealedMessages
    PROVE  m \in Msgs /\ Sealed(m) /\ db[m].openOn \in Instants /\ db[m].openOn > now
  BY DEF TypeOK, SealedMessages, Row, Instants, NoTime

LEMMA RemindersInit == Init => RemindersInv
<1> SUFFICES ASSUME Init PROVE RemindersInv
  OBVIOUS
<1>1. CallsInv
  BY CallsInit
<1>2. CopyDated /\ GroupsApart
  BY DEF Init, CopyDated, GroupsApart, Announcing, Idle
<1>3. \A m \in Msgs : db[m].status = "none"
  BY DEF Init, NoRow
<1>4. SealedMessages = {}
  BY <1>3 DEF SealedMessages, Sealed
<1>5. RemindedOutside
  BY <1>4 DEF RemindedOutside
<1> QED BY <1>1, <1>2, <1>5 DEF RemindersInv

\* A call's step leaves its message reminded, or noted, or the call under way.
LEMMA RemindersAfterCall ==
    ASSUME RemindersInv, TypeOK', NEW c \in Calls, CallStep(c)
    PROVE  CopyDated' /\ RemindedOutside' /\ GroupsApart'
<1> DEFINE m == calls[c].msg
<1>1. /\ calls[c] # Idle /\ m \in Msgs /\ overlapped' = overlapped
      /\ \A e \in Calls : e # c => calls'[e] = calls[e]
      /\ \/ db' = db
         \/ /\ calls[c].pc = "change_put"
            /\ db' = [db EXCEPT ![m] = SealedRow(calls[c].openOn, TRUE)]
         \/ db' = [db EXCEPT ![m] = NoRow("deleted")]
  BY CallStepEffect DEF RemindersInv, CallsInv, OpenedInv
<1>2. UNCHANGED <<now, phase, work, dateNotif>>
  BY DEF CallStep, SubmitSchedule, ChangeCancel, ChangePut, ChangeSchedule,
         DeleteCancel, RepoFind, RepoDelete, startVars, notifVars
<1>3. phase = "running" /\ ~Announcing /\ ~Announcing'
  BY <1>1, <1>2 DEF Announcing, RemindersInv, CallsInv, OpenedInv, NoCallBeforeRunApp
<1>4. GroupsApart'
  BY <1>3 DEF GroupsApart
<1>5. \A n \in Msgs : n # m => db'[n] = db[n]
  BY <1>1 DEF RemindersInv, CallsInv, OpenedInv, TypeOK
<1>6. CopyDated'
  <2> SUFFICES ASSUME NEW e \in Calls,
                      calls'[e].pc \in {"submit_schedule", "change_schedule"},
                      calls'[e].msg \notin overlapped',
                      db'[calls'[e].msg].status = "sealed"
               PROVE  db'[calls'[e].msg].openOn = calls'[e].openOn
    BY DEF CopyDated, Sealed
  <2>1. CASE e = c
    <3>1. /\ calls[c].pc = "change_put"
          /\ db' = [db EXCEPT ![m] = SealedRow(calls[c].openOn, TRUE)]
          /\ Await(c, "change_schedule")
      <4>1. Return(c) => calls'[c].pc = "idle"
        BY DEF Return, Idle, RemindersInv, CallsInv, OpenedInv, TypeOK
      <4>2. \A pc : Await(c, pc) => calls'[c].pc = pc
        BY <1>1 DEF Await, RemindersInv, CallsInv, OpenedInv, TypeOK, Call
      <4>3. ~Return(c) /\ \A pc \in {"change_put", "delete_find", "delete_row"} : ~Await(c, pc)
        BY <4>1, <4>2, <2>1
      <4> QED BY <4>3 DEF CallStep, SubmitSchedule, ChangeCancel, ChangePut,
                          ChangeSchedule, DeleteCancel, RepoFind, RepoDelete
    <3>2. calls'[c].msg = m /\ calls'[c].openOn = calls[c].openOn
      BY <3>1, <1>1 DEF Await, RemindersInv, CallsInv, OpenedInv, TypeOK, Call
    <3>3. db'[m].openOn = calls[c].openOn
      BY <3>1, <1>1 DEF SealedRow, RemindersInv, CallsInv, OpenedInv, TypeOK
    <3> QED BY <2>1, <3>2, <3>3
  <2>2. CASE e # c
    <3>1. calls'[e] = calls[e] /\ calls[e] # Idle
      BY <1>1, <2>2 DEF Idle
    <3>2. calls[e].msg # m /\ calls[e].msg \in Msgs
      BY <1>1, <2>2, <3>1 DEF RemindersInv, CallsInv, SoleCall, OpenedInv, TypeOK, Call
    <3>3. db'[calls[e].msg] = db[calls[e].msg]
      BY <1>5, <3>2
    <3> QED BY <1>1, <3>1, <3>3 DEF RemindersInv, CopyDated, Sealed
  <2> QED BY <2>1, <2>2
<1>7. RemindedOutside'
  <2> SUFFICES ASSUME NEW n \in SealedMessages', n \notin overlapped', n \notin missed',
                      InFlight(n)' = {}
               PROVE  Reminded(n)'
    BY DEF RemindedOutside
  <2>1. n \in Msgs /\ db'[n].status = "sealed" /\ db'[n].openOn > now'
    BY DEF SealedMessages, Sealed
  <2>2. missed \subseteq missed'
    BY DEF CallStep, SubmitSchedule, ChangeCancel, ChangePut, ChangeSchedule,
           DeleteCancel, RepoFind, RepoDelete, PluginFails, Throws
  <2>3. CASE n # m
    <3>1. db'[n] = db[n]
      BY <1>5, <2>1, <2>3
    <3>2. msgNotif'[n] = msgNotif[n]
      BY <2>1, <2>3 DEF CallStep, SubmitSchedule, ChangeCancel, ChangePut,
         ChangeSchedule, DeleteCancel, RepoFind, RepoDelete, PluginFails,
         ScheduleForMessage, CancelForMessage, notifVars, RemindersInv, CallsInv,
         OpenedInv, TypeOK
    <3>3. InFlight(n) = {}
      <4> SUFFICES ASSUME NEW e \in Calls, calls[e] # Idle, calls[e].msg = n
                   PROVE  FALSE
        BY DEF InFlight
      <4>1. calls'[e] = calls[e]
        BY <1>1, <2>3
      <4> QED BY <4>1 DEF InFlight
    <3>4. n \in SealedMessages
      BY <1>2, <2>1, <3>1 DEF SealedMessages, Sealed
    <3>5. Reminded(n)
      BY <1>1, <1>3, <2>2, <3>3, <3>4 DEF RemindersInv, RemindedOutside
    <3> QED BY <1>2, <3>1, <3>2, <3>5 DEF Reminded
  <2>4. CASE n = m
    <3>1. \A pc \in {"change_put", "change_schedule", "delete_find", "delete_row"} :
             ~Await(c, pc)
      <4> SUFFICES ASSUME NEW pc \in {"change_put", "change_schedule", "delete_find",
                                      "delete_row"}, Await(c, pc)
                   PROVE  FALSE
        OBVIOUS
      <4>1. calls'[c].pc = pc /\ calls'[c].msg = m
        BY <1>1 DEF Await, RemindersInv, CallsInv, OpenedInv, TypeOK, Call
      <4>2. calls'[c] # Idle
        BY <4>1 DEF Idle
      <4> QED BY <2>4, <4>1, <4>2 DEF InFlight
    <3>2. m \notin missed' /\ ~Throws(m) /\ ~PluginFails(m)
      BY <2>4 DEF Throws, PluginFails
    <3>3. \/ /\ calls[c].pc \in {"submit_schedule", "change_schedule"}
             /\ ScheduleForMessage(m, calls[c].openOn) /\ db' = db
          \/ ~Present(m) /\ db' = db
          \/ db' = [db EXCEPT ![m] = NoRow("deleted")]
      BY <3>1, <3>2 DEF CallStep, SubmitSchedule, ChangeCancel, ChangePut,
         ChangeSchedule, DeleteCancel, RepoFind, RepoDelete, dbVars
    <3>4. CASE ~Present(m) /\ db' = db
      BY <2>1, <2>4, <3>4 DEF Present
    <3>5. CASE db' = [db EXCEPT ![m] = NoRow("deleted")]
      BY <2>1, <2>4, <3>5 DEF NoRow, RemindersInv, CallsInv, OpenedInv, TypeOK
    <3>6. CASE /\ calls[c].pc \in {"submit_schedule", "change_schedule"}
               /\ ScheduleForMessage(m, calls[c].openOn) /\ db' = db
      <4>1. db[m].openOn = calls[c].openOn
        BY <1>1, <2>1, <2>4, <3>6 DEF RemindersInv, CopyDated, Sealed
      <4>2. calls[c].openOn > now /\ calls[c].openOn \in Nat /\ now \in Nat
        <5>1. m \in SealedMessages
          BY <1>2, <2>1, <2>4, <3>6 DEF SealedMessages, Sealed
        <5>2. db[m].openOn \in Instants /\ db[m].openOn > now /\ now \in Instants
          BY <5>1, SealedDay DEF RemindersInv, CallsInv, OpenedInv, TypeOK
        <5> QED BY <4>1, <5>2 DEF Instants
      <4>3. msgNotif' = [msgNotif EXCEPT ![m] = calls[c].openOn]
        BY <3>6, <4>2 DEF ScheduleForMessage
      <4>4. msgNotif'[m] = calls[c].openOn
        BY <1>1, <4>3 DEF RemindersInv, CallsInv, OpenedInv, TypeOK
      <4> QED BY <2>4, <3>6, <4>1, <4>4 DEF Reminded
    <3> QED BY <3>3, <3>4, <3>5, <3>6
  <2> QED BY <2>3, <2>4
<1> QED BY <1>4, <1>6, <1>7

\* A call the user starts is in flight on its message and on no other.
LEMMA RemindersAfterUser ==
    ASSUME RemindersInv, TypeOK', NEW c \in Calls, NEW m \in Msgs, UserStep(c, m)
    PROVE  CopyDated' /\ RemindedOutside' /\ GroupsApart'
<1>1. /\ calls[c] = Idle /\ calls'[c].msg = m
      /\ \A e \in Calls : e # c => calls'[e] = calls[e]
      /\ overlapped' = IF InFlight(m) = {} THEN overlapped ELSE overlapped \cup {m}
      /\ \/ db' = db
         \/ \E d \in Instants : db' = [db EXCEPT ![m] = SealedRow(d, FALSE)]
  BY UserStepEffect DEF RemindersInv, CallsInv, OpenedInv
<1>2. phase = "running" /\ UNCHANGED <<now, phase, work, msgNotif, dateNotif, missed>>
  BY DEF UserStep, SubmitPut, ChangeRead, SealedDelete, OpenedDelete, Start,
         startVars, notifVars
<1>3. overlapped \subseteq overlapped'
      /\ \A e \in Calls : calls[e] # Idle /\ calls[e].msg = m => m \in overlapped'
  BY <1>1 DEF InFlight
<1>4. GroupsApart'
  BY <1>2 DEF GroupsApart, Announcing
<1>5. \A n \in Msgs : n # m => db'[n] = db[n]
  BY <1>1 DEF RemindersInv, CallsInv, OpenedInv, TypeOK
<1>6. CopyDated'
  <2> SUFFICES ASSUME NEW e \in Calls,
                      calls'[e].pc \in {"submit_schedule", "change_schedule"},
                      calls'[e].msg \notin overlapped',
                      db'[calls'[e].msg].status = "sealed"
               PROVE  db'[calls'[e].msg].openOn = calls'[e].openOn
    BY DEF CopyDated, Sealed
  <2>1. CASE e = c
    <3>1. PICK d \in Instants : SubmitPut(c, m, d)
      <4>1. \A call : Start(c, call) => calls'[c] = call
        BY DEF Start, RemindersInv, CallsInv, OpenedInv, TypeOK
      <4>2. /\ ~SealedDelete(c, m) /\ ~OpenedDelete(c, m)
            /\ \A d \in Instants : ~ChangeRead(c, m, d)
        BY <2>1, <4>1 DEF SealedDelete, OpenedDelete, ChangeRead
      <4> QED BY <4>2 DEF UserStep
    <3>2. calls'[c] = [pc |-> "submit_schedule", msg |-> m, openOn |-> d]
      BY <3>1 DEF SubmitPut, Start, RemindersInv, CallsInv, OpenedInv, TypeOK
    <3>3. db' = [db EXCEPT ![m] = SealedRow(d, FALSE)]
      BY <3>1 DEF SubmitPut
    <3>4. db'[m].openOn = d
      BY <3>3 DEF SealedRow, RemindersInv, CallsInv, OpenedInv, TypeOK
    <3> QED BY <2>1, <3>2, <3>4
  <2>2. CASE e # c
    <3>1. calls'[e] = calls[e] /\ calls[e] # Idle
      BY <1>1, <2>2 DEF Idle
    <3>2. calls[e].msg # m /\ calls[e].msg \notin overlapped
      BY <1>3, <3>1
    <3>3. calls[e].msg \in Msgs
      BY <3>1 DEF RemindersInv, CallsInv, OpenedInv, TypeOK, Call
    <3>4. db'[calls[e].msg] = db[calls[e].msg]
      BY <1>5, <3>2, <3>3
    <3> QED BY <3>1, <3>2, <3>4 DEF RemindersInv, CopyDated, Sealed
  <2> QED BY <2>1, <2>2
<1>7. RemindedOutside'
  <2> SUFFICES ASSUME NEW n \in SealedMessages', n \notin overlapped', n \notin missed',
                      InFlight(n)' = {}
               PROVE  Reminded(n)'
    BY DEF RemindedOutside
  <2>1. n \in Msgs /\ db'[n].status = "sealed" /\ db'[n].openOn > now'
    BY DEF SealedMessages, Sealed
  <2>2. n # m
    <3>1. calls'[c] # Idle
      <4>1. \A call : Start(c, call) => calls'[c] = call
        BY DEF Start, RemindersInv, CallsInv, OpenedInv, TypeOK
      <4>2. \A pc, d : [pc |-> pc, msg |-> m, openOn |-> d] # Idle
        BY DEF Idle
      <4>3. \E pc, d : Start(c, [pc |-> pc, msg |-> m, openOn |-> d])
        BY DEF UserStep, SubmitPut, ChangeRead, SealedDelete, OpenedDelete
      <4> QED BY <4>1, <4>2, <4>3
    <3> QED BY <1>1, <3>1 DEF InFlight
  <2>3. db'[n] = db[n]
    BY <1>5, <2>1, <2>2
  <2>4. InFlight(n) = {}
    <3> SUFFICES ASSUME NEW e \in Calls, calls[e] # Idle, calls[e].msg = n
                 PROVE  FALSE
      BY DEF InFlight
    <3>1. calls'[e] = calls[e]
      BY <1>1
    <3> QED BY <3>1 DEF InFlight
  <2>5. n \in SealedMessages
    BY <1>2, <2>1, <2>3 DEF SealedMessages, Sealed
  <2>6. Reminded(n)
    BY <1>2, <1>3, <2>4, <2>5 DEF RemindersInv, RemindedOutside, Announcing
  <2> QED BY <1>2, <2>3, <2>6 DEF Reminded
<1> QED BY <1>4, <1>6, <1>7

\* Time takes no reminder of a message whose day is still to come.
LEMMA RemindersAfterTick ==
    ASSUME RemindersInv, TypeOK', Tick
    PROVE  CopyDated' /\ RemindedOutside' /\ GroupsApart'
<1>1. /\ now' = now + 1 /\ UNCHANGED <<db, calls, phase, work, overlapped, missed>>
      /\ TypeOK
  BY DEF Tick, dbVars, startVars, historyVars, RemindersInv, CallsInv, OpenedInv
<1>2. CopyDated'
  BY <1>1 DEF RemindersInv, CopyDated, Sealed
<1>3. ASSUME NEW m \in SealedMessages'
      PROVE  m \in SealedMessages /\ (Reminded(m) => Reminded(m)')
  <2>1. /\ m \in Msgs /\ Sealed(m) /\ db[m].openOn > now + 1
    BY <1>1 DEF SealedMessages, Sealed
  <2>2. db[m].openOn \in Nat /\ now \in Nat
    <3>1. db[m] \in Row /\ now \in Instants
      BY <1>1, <2>1 DEF TypeOK
    <3>2. Instants \subseteq Nat /\ NoTime \in Nat
      BY DEF Instants, NoTime
    <3> QED BY <3>1, <3>2 DEF Row
  <2>3. m \in SealedMessages
    BY <2>1, <2>2 DEF SealedMessages
  <2>4. db[m].openOn \in Instants /\ db[m].openOn > now
    BY <1>1, <2>3, SealedDay
  <2>5. msgNotif[m] = db[m].openOn => msgNotif'[m] = msgNotif[m]
    BY <2>1, <2>2, <2>4 DEF Tick
  <2>6. dateNotif'[db[m].openOn] = dateNotif[db[m].openOn]
    BY <2>2, <2>4 DEF Tick
  <2> QED BY <1>1, <2>3, <2>5, <2>6 DEF Reminded
<1>4. \A m \in Msgs : InFlight(m)' = InFlight(m)
  BY <1>1 DEF InFlight
<1>5. RemindedOutside'
  <2> SUFFICES ASSUME ~Announcing, NEW m \in SealedMessages',
                      m \notin overlapped, m \notin missed, InFlight(m)' = {}
               PROVE  Reminded(m)'
    BY <1>1 DEF RemindedOutside, Announcing
  <2>1. m \in SealedMessages /\ (Reminded(m) => Reminded(m)')
    BY <1>3
  <2>2. InFlight(m) = {}
    BY <1>4, <2>1 DEF SealedMessages
  <2> QED BY <2>1, <2>2 DEF RemindersInv, RemindedOutside
<1>6. GroupsApart'
  <2> SUFFICES ASSUME Announcing
               PROVE  /\ work # {}
                      /\ \A m \in SealedMessages' \ work :
                            Reminded(m)' /\ \A w \in work : db[w].openOn # db[m].openOn
    BY <1>1 DEF GroupsApart, Announcing
  <2>1. \A m \in SealedMessages' \ work :
           m \in SealedMessages \ work /\ (Reminded(m) => Reminded(m)')
    BY <1>3
  <2> QED BY <2>1 DEF RemindersInv, GroupsApart
<1> QED BY <1>2, <1>5, <1>6

\* Cancelling a day takes the reminders of the messages ahead only.
LEMMA RemindersAfterCancelDate ==
    ASSUME RemindersInv, CancelDate
    PROVE  GroupsApart' /\ Announcing'
<1>1. /\ Announcing /\ Announcing' /\ UNCHANGED <<now, db, work, msgNotif>>
      /\ dateNotif' = [dateNotif EXCEPT ![FirstDate] = 0] /\ TypeOK
  BY DEF CancelDate, Announcing, dbVars, RemindersInv, CallsInv, OpenedInv
<1>2. PICK w \in work : db[w].openOn = FirstDate
  BY <1>1, FirstDateOfWork DEF RemindersInv, GroupsApart
<1>3. SealedMessages' = SealedMessages
  BY <1>1 DEF SealedMessages, Sealed
<1>4. ASSUME NEW m \in SealedMessages \ work
      PROVE  Reminded(m)' /\ \A v \in work : db[v].openOn # db[m].openOn
  <2>1. Reminded(m) /\ \A v \in work : db[v].openOn # db[m].openOn
    BY <1>1 DEF RemindersInv, GroupsApart
  <2>2. dateNotif'[db[m].openOn] = dateNotif[db[m].openOn]
    BY <1>1, <1>2, <2>1, SealedDay DEF TypeOK
  <2> QED BY <1>1, <2>1, <2>2 DEF Reminded
<1>5. work # {}
  BY <1>2
<1> QED BY <1>1, <1>3, <1>4, <1>5 DEF GroupsApart

\* Announcing a day reminds of every message of it that is still to come.
LEMMA RemindersAfterScheduleDate ==
    ASSUME RemindersInv, ScheduleDate
    PROVE  GroupsApart' /\ RemindedOutside'
<1> DEFINE group == {m \in work : db[m].openOn = FirstDate}
<1>1. /\ Announcing /\ UNCHANGED <<now, db, msgNotif>> /\ TypeOK
      /\ work' = work \ group
      /\ IF group = work THEN phase' = "running" ELSE phase' = "cancel_date"
      /\ dateNotif' = IF FirstDate < now THEN dateNotif
                      ELSE [dateNotif EXCEPT ![FirstDate] = Cardinality(group)]
  BY DEF ScheduleDate, Announcing, dbVars, RemindersInv, CallsInv, OpenedInv
<1>2. PICK w \in work : db[w].openOn = FirstDate
  BY <1>1, FirstDateOfWork DEF RemindersInv, GroupsApart
<1>3. Cardinality(group) > 0
  <2>1. IsFiniteSet(group) /\ group # {}
    <3>1. group \subseteq Msgs /\ w \in group
      BY <1>1, <1>2 DEF TypeOK
    <3> QED BY <3>1, FS_Subset
  <2> QED BY <2>1, FS_EmptySet, FS_CardinalityType
<1>4. SealedMessages' = SealedMessages
  BY <1>1 DEF SealedMessages, Sealed
<1>5. ASSUME NEW m \in SealedMessages \ work
      PROVE  Reminded(m)' /\ \A v \in work : db[v].openOn # db[m].openOn
  <2>1. Reminded(m) /\ \A v \in work : db[v].openOn # db[m].openOn
    BY <1>1 DEF RemindersInv, GroupsApart
  <2>2. dateNotif'[db[m].openOn] = dateNotif[db[m].openOn]
    BY <1>1, <1>2, <2>1, SealedDay DEF TypeOK
  <2> QED BY <1>1, <2>1, <2>2 DEF Reminded
<1>6. ASSUME NEW m \in SealedMessages, m \in group
      PROVE  Reminded(m)'
  <2>1. db[m].openOn = FirstDate /\ FirstDate \in Instants /\ FirstDate > now
    BY <1>1, <1>6, SealedDay
  <2>2. now \in Nat /\ FirstDate \in Nat
    BY <1>1, <2>1 DEF TypeOK, Instants
  <2>3. dateNotif' = [dateNotif EXCEPT ![FirstDate] = Cardinality(group)]
    BY <1>1, <2>1, <2>2
  <2>4. dateNotif'[FirstDate] = Cardinality(group)
    BY <1>1, <2>1, <2>3 DEF TypeOK
  <2> QED BY <1>1, <1>3, <2>1, <2>4 DEF Reminded
<1>7. ASSUME NEW m \in SealedMessages \ work'
      PROVE  Reminded(m)' /\ \A v \in work' : db[v].openOn # db[m].openOn
  <2>1. CASE m \in group
    <3>1. db[m].openOn = FirstDate
      BY <2>1
    <3>2. \A v \in work' : db[v].openOn # FirstDate
      BY <1>1
    <3> QED BY <1>6, <2>1, <3>1, <3>2
  <2>2. CASE m \notin group
    BY <1>1, <1>5, <2>2
  <2> QED BY <2>1, <2>2
<1>8. GroupsApart'
  <2>1. Announcing' => work' # {}
    BY <1>1 DEF Announcing
  <2> QED BY <1>1, <1>4, <1>7, <2>1 DEF GroupsApart
<1>9. RemindedOutside'
  <2>1. ~Announcing' => work' = {}
    BY <1>1 DEF Announcing
  <2> QED BY <1>4, <1>7, <2>1 DEF RemindedOutside
<1> QED BY <1>8, <1>9

\* So do the other steps of main(), and the process's death.
LEMMA RemindersAfterStart ==
    ASSUME RemindersInv, TypeOK', Launch \/ StartStep \/ Kill
    PROVE  CopyDated' /\ RemindedOutside' /\ GroupsApart'
<1> USE DEF RemindersInv, CallsInv, OpenedInv
<1>1. CopyDated'
  <2>1. \A c \in Calls : calls'[c] = Idle
    <3>1. CASE Kill
      BY <3>1 DEF Kill
    <3>2. CASE Launch \/ StartStep
      <4>1. phase # "running" /\ calls' = calls
        BY <3>2 DEF Launch, StartStep, FindDue, OpenDue, FindSealed, CancelDate,
                    ScheduleDate, StartFails, StartPhases
      <4> QED BY <4>1 DEF NoCallBeforeRunApp
    <3> QED BY <3>1, <3>2
  <2>2. \A c \in Calls : calls'[c].pc = "idle"
    BY <2>1 DEF Idle
  <2> QED BY <2>2 DEF CopyDated
<1>2. CASE Launch \/ FindDue
  <2>1. /\ ~Announcing /\ ~Announcing'
        /\ UNCHANGED <<now, db, calls, msgNotif, dateNotif, overlapped, missed>>
    BY <1>2 DEF Launch, FindDue, Run, Announcing, dbVars, notifVars, historyVars
  <2>2. GroupsApart'
    BY <2>1 DEF GroupsApart
  <2>3. RemindedOutside'
    BY <2>1 DEF RemindedOutside, SealedMessages, Sealed, InFlight, Reminded
  <2> QED BY <1>1, <2>2, <2>3
<1>3. CASE OpenDue
  <2>1. /\ ~Announcing /\ ~Announcing'
        /\ UNCHANGED <<now, calls, msgNotif, dateNotif, overlapped, missed>>
    BY <1>3 DEF OpenDue, Announcing, notifVars, historyVars
  <2>2. ASSUME NEW m \in SealedMessages' PROVE m \in SealedMessages /\ db'[m] = db[m]
    <3>1. m \in Msgs /\ db'[m].status = "sealed" /\ db'[m].openOn > now
      BY <2>1 DEF SealedMessages, Sealed
    <3>2. m \notin work
      <4> SUFFICES ASSUME m \in work PROVE FALSE
        OBVIOUS
      <4>1. db'[m] = [db[m] EXCEPT !.status = "opened", !.openedAt = now]
        BY <1>3, <3>1 DEF OpenDue
      <4>2. db'[m].status = "opened"
        BY <3>1, <4>1 DEF TypeOK, Row
      <4> QED BY <3>1, <4>2
    <3>3. db'[m] = db[m]
      BY <1>3, <3>1, <3>2 DEF OpenDue
    <3> QED BY <3>1, <3>3 DEF SealedMessages, Sealed
  <2>3. GroupsApart'
    BY <2>1 DEF GroupsApart
  <2>4. RemindedOutside'
    BY <2>1, <2>2 DEF RemindedOutside, InFlight, Reminded
  <2> QED BY <1>1, <2>3, <2>4
<1>4. CASE FindSealed
  <2>1. SealedMessages' = SealedMessages
    BY <1>4 DEF FindSealed, SealedMessages, Sealed, dbVars
  <2>2. IF SealedMessages = {} THEN ~Announcing'
        ELSE Announcing' /\ work' = SealedMessages
    BY <1>4 DEF FindSealed, Announcing
  <2>3. GroupsApart' /\ RemindedOutside'
    BY <2>1, <2>2 DEF GroupsApart, RemindedOutside
  <2> QED BY <1>1, <2>3
<1>5. CASE CancelDate
  BY <1>1, <1>5, RemindersAfterCancelDate DEF RemindedOutside
<1>6. CASE ScheduleDate
  BY <1>1, <1>6, RemindersAfterScheduleDate
<1>7. CASE StartFails \/ Kill
  <2>1. /\ ~Announcing'
        /\ UNCHANGED <<now, db, msgNotif, dateNotif>>
        /\ missed \cup work \subseteq missed'
    BY <1>7 DEF StartFails, Kill, Run, Announcing, dbVars, notifVars
  <2>2. SealedMessages' = SealedMessages
    BY <2>1 DEF SealedMessages, Sealed
  <2>3. ASSUME NEW m \in SealedMessages, m \notin overlapped', m \notin missed',
               InFlight(m)' = {}
        PROVE  Reminded(m)
    <3>1. CASE Announcing
      BY <2>1, <2>3, <3>1 DEF GroupsApart
    <3>2. CASE ~Announcing
      <4>1. m \notin overlapped /\ m \notin missed /\ InFlight(m) = {}
        <5>1. CASE StartFails
          BY <2>1, <2>3, <5>1 DEF StartFails, InFlight
        <5>2. CASE Kill
          BY <2>3, <5>2 DEF Kill, SealedMessages
        <5> QED BY <1>7, <5>1, <5>2
      <4> QED BY <3>2, <4>1 DEF RemindedOutside
    <3> QED BY <3>1, <3>2
  <2>4. RemindedOutside'
    BY <2>1, <2>2, <2>3 DEF RemindedOutside, Reminded
  <2>5. GroupsApart'
    BY <2>1 DEF GroupsApart
  <2> QED BY <1>1, <2>4, <2>5
<1> QED BY <1>2, <1>3, <1>4, <1>5, <1>6, <1>7 DEF StartStep

LEMMA RemindersNext == RemindersInv /\ [Next]_vars => RemindersInv'
<1> SUFFICES ASSUME RemindersInv, [Next]_vars PROVE RemindersInv'
  OBVIOUS
<1>1. CallsInv' /\ TypeOK'
  BY CallsNext DEF RemindersInv, CallsInv, OpenedInv
<1>2. CASE UNCHANGED vars
  BY <1>1, <1>2 DEF vars, RemindersInv, CopyDated, RemindedOutside, GroupsApart,
                    SealedMessages, Sealed, InFlight, Reminded, Announcing
<1>3. CASE Next
  BY <1>1, <1>3, RemindersAfterCall, RemindersAfterUser, RemindersAfterStart,
     RemindersAfterTick DEF Next, RemindersInv
<1> QED BY <1>2, <1>3

\* While the app runs, a message still to be opened has its reminder, for any
\* messages, calls, starts and horizon, and whatever main() was killed in.
THEOREM SealedHasReminderHolds == Spec => []SealedHasReminder
<1>1. RemindersInv => SealedHasReminder
  BY DEF RemindersInv, RemindedOutside, Announcing, Reminded, SealedHasReminder
<1> QED BY <1>1, RemindersInit, RemindersNext, PTL DEF Spec

=============================================================================
