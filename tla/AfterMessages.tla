--------------------------- MODULE AfterMessages ---------------------------
(***************************************************************************)
(* The life of the messages of the After app (apps/after_app/dev/after_app *)
(* /lib): written in NowController, kept in the Isar collection behind     *)
(* MessageRepo, re-dated or deleted by SealedController, opened when the   *)
(* process starts (main.dart), deleted from the delivered list by          *)
(* AfterController, and announced by the notifications NotificationService *)
(* leaves with the operating system.                                       *)
(*                                                                         *)
(* A step is what one isolate runs between two awaits that leave the       *)
(* isolate (an Isar query or transaction, a plugin call).  Several         *)
(* controller calls may be in flight at once; the process may die between  *)
(* any two steps, which forgets the calls and keeps the collection and the *)
(* pending notifications.                                                  *)
(*                                                                         *)
(* A definition marked "mutant" is a wrong version of the one below it: no *)
(* behaviour uses it; it is there to be put in its place, to see that a    *)
(* property notices.                                                       *)
(***************************************************************************)
EXTENDS Integers, FiniteSets

CONSTANTS
    Msgs,          \* messages that may be written, one uuid each
    Calls,         \* slots for controller calls in flight
    Touched,       \* bound: the messages the user re-dates or deletes
    MaxTime,       \* bound: instants are 1..MaxTime
    Permissions    \* answers the user may give to requestPermissions

ASSUME AfterAssumption ==
    /\ IsFiniteSet(Msgs)
    /\ Touched \subseteq Msgs
    /\ MaxTime \in Nat \ {0}
    /\ Permissions \in (SUBSET BOOLEAN) \ {{}}

VARIABLES
    now,           \* DateTime.now()
    db,            \* the Isar collection: one row per message
    calls,         \* the controller calls in flight
    phase,         \* where main() is
    work,          \* the query result main() is working through
    initialized,   \* NotificationService._initialized
    msgNotif,      \* pending notifications under a message id: their instant
    dateNotif,     \* pending notifications under a date id: their count
    \* History variables: what has gone wrong so far, read by no action.
    overlapped,    \* messages on which two calls of this process overlapped
    missed         \* messages whose reminder a failure may have lost

dbVars == <<db>>
startVars == <<phase, work, initialized>>
notifVars == <<msgNotif, dateNotif>>
historyVars == <<overlapped, missed>>
vars == <<now, db, calls, phase, work, initialized, msgNotif, dateNotif,
          overlapped, missed>>

Instants == 1..MaxTime
NoTime == 0

Row == [status: {"none", "sealed", "opened", "deleted"},
        openOn: Instants \cup {NoTime}, openedAt: Instants \cup {NoTime},
        dateChangeUsed: BOOLEAN]
NoRow(status) == [status |-> status, openOn |-> NoTime, openedAt |-> NoTime,
                  dateChangeUsed |-> FALSE]
SealedRow(d, used) == [status |-> "sealed", openOn |-> d,
                       openedAt |-> NoTime, dateChangeUsed |-> used]

\* A call in flight: what it does next, on which message, and the openOn of
\* the Message object it holds (a copy, never refreshed).
Idle == [pc |-> "idle"]
Call == [pc: {"submit_schedule", "change_cancel", "change_put",
              "change_schedule", "delete_cancel", "delete_find",
              "delete_row"},
         msg: Msgs, openOn: Instants \cup {NoTime}]

StartPhases == {"find_due", "open_due", "find_sealed", "cancel_date",
                "schedule_date"}

InFlight(m) == {c \in Calls : calls[c] # Idle /\ calls[c].msg = m}
Sealed(m) == db[m].status = "sealed"
Present(m) == db[m].status \in {"sealed", "opened"}

\* The query openedAtIsNull, then openOn compared with the clock: the due
\* ones of openMessagesDueToday, the others of getSealedMessages.
DueTodayOnly == {m \in Msgs : Sealed(m) /\ db[m].openOn = now}     \* mutant
DueTomorrow == {m \in Msgs : Sealed(m) /\ db[m].openOn <= now + 1} \* mutant
DueMessages == {m \in Msgs : Sealed(m) /\ db[m].openOn <= now}
SealedMessages == {m \in Msgs : Sealed(m) /\ db[m].openOn > now}

\* main() groups by the whole openOn, so a group is one instant.
FirstDate == CHOOSE d \in {db[m].openOn : m \in work} :
                \A m \in work : d <= db[m].openOn

\* A date picker offers today and later; midnight of today may have passed.
Pickable == {d \in Instants : d >= now - 1}

Init ==
    /\ now = 1
    /\ db = [m \in Msgs |-> NoRow("none")]
    /\ calls = [c \in Calls |-> Idle]
    /\ phase = "off"
    /\ work = {}
    /\ initialized = FALSE
    /\ msgNotif = [m \in Msgs |-> NoTime]
    /\ dateNotif = [d \in Instants |-> 0]
    /\ overlapped = {}
    /\ missed = {}

-----------------------------------------------------------------------------
(* Calls: how one starts, moves on and returns.                              *)

Start(c, call) ==
    /\ phase = "running"
    /\ calls[c] = Idle
    /\ calls' = [calls EXCEPT ![c] = call]
    /\ overlapped' = IF InFlight(call.msg) = {} THEN overlapped
                     ELSE overlapped \cup {call.msg}

Await(c, pc) == calls' = [calls EXCEPT ![c].pc = pc]
Return(c) == calls' = [calls EXCEPT ![c] = Idle]

\* The plugin: zonedSchedule under the message's id, skipped for a past
\* instant; cancel, skipped before initialize() has succeeded.
ScheduleForNextDay(m, d) ==                                        \* mutant
    msgNotif' = IF d < now THEN msgNotif ELSE [msgNotif EXCEPT ![m] = d + 1]
ScheduleUnlessPending(m, d) ==                                     \* mutant
    msgNotif' = IF d < now \/ msgNotif[m] # NoTime THEN msgNotif
                ELSE [msgNotif EXCEPT ![m] = d]
ScheduleForMessage(m, d) ==
    msgNotif' = IF d < now THEN msgNotif ELSE [msgNotif EXCEPT ![m] = d]
CancelForMessage(m) ==
    msgNotif' = IF initialized THEN [msgNotif EXCEPT ![m] = NoTime]
                ELSE msgNotif

\* A plugin call or a transaction that throws takes no effect, and leaves
\* the message perhaps without the reminder the call was about to leave.
Throws(m) == missed' = missed \cup {m}
PluginFails(m) == Throws(m) /\ UNCHANGED msgNotif

-----------------------------------------------------------------------------
(* NowController.submit                                                      *)

SubmitPut(c, m, d) ==
    /\ db[m].status = "none"
    /\ d \in Pickable
    /\ Start(c, [pc |-> "submit_schedule", msg |-> m, openOn |-> d])
    /\ db' = [db EXCEPT ![m] = SealedRow(d, FALSE)]
    /\ UNCHANGED <<now, startVars, notifVars, missed>>

\* The notification's failure is swallowed: the message is saved.
SubmitSchedule(c) ==
    /\ calls[c].pc = "submit_schedule"
    /\ \/ /\ ScheduleForMessage(calls[c].msg, calls[c].openOn)
          /\ UNCHANGED missed
       \/ PluginFails(calls[c].msg)
    /\ Return(c)
    /\ UNCHANGED <<now, dbVars, startVars, dateNotif, overlapped>>

-----------------------------------------------------------------------------
(* SealedController.changeDate                                               *)

\* The row getById returns: present, not opened, not re-dated before.
MayChangeOpened(m) == Present(m) /\ ~db[m].dateChangeUsed          \* mutant
MayChangeAgain(m) == Sealed(m)                                     \* mutant
MayChangeFromList(m) == /\ db[m].status \in {"sealed", "deleted"}  \* mutant
                        /\ ~db[m].dateChangeUsed
MayChange(m) == Sealed(m) /\ ~db[m].dateChangeUsed

ChangeRead(c, m, d) ==
    /\ MayChange(m)
    /\ d \in Pickable
    /\ Start(c, [pc |-> "change_cancel", msg |-> m, openOn |-> d])
    /\ UNCHANGED <<now, dbVars, startVars, notifVars, missed>>

ChangeCancel(c) ==
    /\ calls[c].pc = "change_cancel"
    /\ \/ /\ CancelForMessage(calls[c].msg)
          /\ Await(c, "change_put")
          /\ UNCHANGED missed
       \/ /\ PluginFails(calls[c].msg)
          /\ Return(c)
    /\ UNCHANGED <<now, dbVars, startVars, dateNotif, overlapped>>

\* The whole object read by ChangeRead is put back, whatever the row is now.
ChangePut(c) ==
    /\ calls[c].pc = "change_put"
    /\ \/ /\ db' = [db EXCEPT ![calls[c].msg] =
                                       SealedRow(calls[c].openOn, TRUE)]
          /\ Await(c, "change_schedule")
          /\ UNCHANGED missed
       \/ /\ Throws(calls[c].msg)
          /\ Return(c)
          /\ UNCHANGED dbVars
    /\ UNCHANGED <<now, startVars, notifVars, overlapped>>

ChangeSchedule(c) ==
    /\ calls[c].pc = "change_schedule"
    /\ \/ /\ ScheduleForMessage(calls[c].msg, calls[c].openOn)
          /\ UNCHANGED missed
       \/ PluginFails(calls[c].msg)
    /\ Return(c)
    /\ UNCHANGED <<now, dbVars, startVars, dateNotif, overlapped>>

-----------------------------------------------------------------------------
(* SealedController.deleteMessage, AfterController.deleteMessage and the     *)
(* MessageRepo.delete both end in.                                           *)

SealedDelete(c, m) ==
    /\ Sealed(m)
    /\ Start(c, [pc |-> "delete_cancel", msg |-> m, openOn |-> NoTime])
    /\ UNCHANGED <<now, dbVars, startVars, notifVars, missed>>

\* A failing cancel does not stop the deletion.
DeleteCancel(c) ==
    /\ calls[c].pc = "delete_cancel"
    /\ \/ /\ CancelForMessage(calls[c].msg)
          /\ UNCHANGED missed
       \/ PluginFails(calls[c].msg)
    /\ Await(c, "delete_find")
    /\ UNCHANGED <<now, dbVars, startVars, dateNotif, overlapped>>

OpenedDelete(c, m) ==
    /\ db[m].status = "opened"
    /\ Start(c, [pc |-> "delete_find", msg |-> m, openOn |-> NoTime])
    /\ UNCHANGED <<now, dbVars, startVars, notifVars, missed>>

\* Either query may throw; delete catches it and answers false.
RepoFind(c) ==
    /\ calls[c].pc = "delete_find"
    /\ \/ /\ IF Present(calls[c].msg) THEN Await(c, "delete_row")
             ELSE Return(c)
          /\ UNCHANGED missed
       \/ /\ Throws(calls[c].msg)
          /\ Return(c)
    /\ UNCHANGED <<now, dbVars, startVars, notifVars, overlapped>>

RepoDelete(c) ==
    /\ calls[c].pc = "delete_row"
    /\ \/ /\ db' = [db EXCEPT ![calls[c].msg] = NoRow("deleted")]
          /\ UNCHANGED missed
       \/ /\ Throws(calls[c].msg)
          /\ UNCHANGED dbVars
    /\ Return(c)
    /\ UNCHANGED <<now, startVars, notifVars, overlapped>>

-----------------------------------------------------------------------------
(* main(): everything before runApp, so no controller call is in flight.     *)

Run == phase' = "running" /\ work' = {}

\* NotificationService.initialize and requestPermissions: without the
\* permission, or when either throws, the rest of the block is skipped.
Launch ==
    /\ phase = "off"
    /\ \/ \E granted \in Permissions :
             /\ initialized' = TRUE
             /\ IF granted THEN phase' = "find_due" /\ UNCHANGED work ELSE Run
       \/ Run /\ UNCHANGED initialized
    /\ UNCHANGED <<now, dbVars, calls, notifVars, historyVars>>

\* MessageRepo.openMessagesDueToday: a query, then one transaction.
FindDue ==
    /\ phase = "find_due"
    /\ work' = DueMessages
    /\ phase' = IF DueMessages = {} THEN "find_sealed" ELSE "open_due"
    /\ UNCHANGED <<now, dbVars, calls, initialized, notifVars, historyVars>>

OpenDue ==
    /\ phase = "open_due"
    /\ db' = [m \in Msgs |->
                IF m \in work
                THEN [db[m] EXCEPT !.status = "opened", !.openedAt = now]
                ELSE db[m]]
    /\ work' = {}
    /\ phase' = "find_sealed"
    /\ UNCHANGED <<now, calls, initialized, notifVars, historyVars>>

\* getSealedMessages, and the grouping by date that follows it.
FindSealed ==
    /\ phase = "find_sealed"
    /\ work' = SealedMessages
    /\ phase' = IF SealedMessages = {} THEN "running" ELSE "cancel_date"
    /\ missed' = IF SealedMessages = {} THEN {} ELSE missed
    /\ UNCHANGED <<now, dbVars, calls, initialized, notifVars, overlapped>>

CancelDate ==
    /\ phase = "cancel_date"
    /\ dateNotif' = [dateNotif EXCEPT ![FirstDate] = 0]
    /\ phase' = "schedule_date"
    /\ UNCHANGED <<now, dbVars, calls, work, initialized, msgNotif,
                   historyVars>>

\* The group's notification, skipped for a past instant; then the next group.
ScheduleDate ==
    LET group == {m \in work : db[m].openOn = FirstDate}
    IN  /\ phase = "schedule_date"
        /\ dateNotif' = IF FirstDate < now THEN dateNotif
                        ELSE [dateNotif EXCEPT ![FirstDate] =
                                                  Cardinality(group)]
        /\ work' = work \ group
        /\ IF group = work
           THEN phase' = "running" /\ missed' = {}
           ELSE phase' = "cancel_date" /\ UNCHANGED missed
        /\ UNCHANGED <<now, dbVars, calls, initialized, msgNotif, overlapped>>

\* The inner try block catches whatever throws and goes on to runApp.
StartFails ==
    /\ phase \in StartPhases
    /\ Run
    /\ missed' = missed \cup work
    /\ UNCHANGED <<now, dbVars, calls, initialized, notifVars, overlapped>>

-----------------------------------------------------------------------------
(* The environment.                                                          *)

\* The process dies.  The collection and the pending notifications stay.
Kill ==
    /\ phase # "off"
    /\ phase' = "off"
    /\ work' = {}
    /\ initialized' = FALSE
    /\ missed' = missed \cup work \cup overlapped
                        \cup {m \in Msgs : InFlight(m) # {}}
    /\ overlapped' = {}
    /\ calls' = [c \in Calls |-> Idle]
    /\ UNCHANGED <<now, dbVars, notifVars>>

\* Time passes, and what was pending for the past has been delivered.
Tick ==
    /\ now < MaxTime
    /\ now' = now + 1
    /\ msgNotif' = [m \in Msgs |-> IF msgNotif[m] <= now THEN NoTime
                                   ELSE msgNotif[m]]
    /\ dateNotif' = [d \in Instants |-> IF d <= now THEN 0 ELSE dateNotif[d]]
    /\ UNCHANGED <<dbVars, calls, startVars, historyVars>>

-----------------------------------------------------------------------------

StartStep == FindDue \/ OpenDue \/ FindSealed \/ CancelDate \/ ScheduleDate
             \/ StartFails

CallStep(c) ==
    \/ SubmitSchedule(c) \/ ChangeCancel(c) \/ ChangePut(c)
    \/ ChangeSchedule(c) \/ DeleteCancel(c) \/ RepoFind(c) \/ RepoDelete(c)

UserStep(c, m) ==
    \/ \E d \in Instants : SubmitPut(c, m, d)
    \/ /\ m \in Touched
       /\ \/ \E d \in Instants : ChangeRead(c, m, d)
          \/ SealedDelete(c, m)
          \/ OpenedDelete(c, m)

Next ==
    \/ Launch \/ StartStep
    \/ \E c \in Calls : CallStep(c) \/ \E m \in Msgs : UserStep(c, m)
    \/ Kill
    \/ Tick

Spec == Init /\ [][Next]_vars

-----------------------------------------------------------------------------
(* Properties.                                                               *)

\* Every variable has its type.
TypeOK ==
    /\ now \in Instants
    /\ db \in [Msgs -> Row]
    /\ calls \in [Calls -> Call \cup {Idle}]
    /\ phase \in StartPhases \cup {"off", "running"}
    /\ work \subseteq Msgs
    /\ initialized \in BOOLEAN
    /\ msgNotif \in [Msgs -> Instants \cup {NoTime}]
    /\ dateNotif \in [Instants -> Nat]
    /\ overlapped \subseteq Msgs
    /\ missed \subseteq Msgs

\* A message is never opened before the instant it was addressed to, also
\* when that instant was moved by changeDate while main() or another call was
\* working on the message (openMessagesDueToday, message_repo.dart:74).
OpenedOnTime ==
    \A m \in Msgs : db[m].status = "opened" => db[m].openOn <= db[m].openedAt

\* An opened message is final: no put of an object read earlier seals it
\* again, re-dates it or changes when it was opened; it can only be deleted
\* (changeDate puts back the whole object it read, sealed_controller.dart:65).
OpenedIsFinal ==
    [][\A m \in Msgs : db[m].status = "opened" =>
          db'[m] = db[m] \/ db'[m].status = "deleted"]_vars

\* While the app runs, every sealed message whose day is still to come has a
\* pending notification for exactly that instant, under its own id or under
\* its date's, unless a call on it is still in flight, two calls overlapped on
\* it, or a plugin call, a transaction or the process failed since the last
\* complete start: the reminder survives re-dating, deletion of other
\* messages, restarts, and starts without the permission.
SealedHasReminder ==
    phase = "running" =>
        \A m \in SealedMessages \ (overlapped \cup missed) :
            InFlight(m) = {} => \/ msgNotif[m] = db[m].openOn
                                \/ dateNotif[db[m].openOn] > 0

\* A deleted message comes back only if two calls on it overlapped
\* (sealed_controller.dart:65 puts, message_repo.dart:28 deletes).
DeletionIsFinal ==
    [][\A m \in Msgs : db[m].status = "deleted" /\ m \notin overlapped =>
          db'[m].status = "deleted"]_vars

\* A message's day is moved at most once, unless two calls overlapped on it
\* (the check of dateChangeUsed, sealed_controller.dart:48).
OneDateChange ==
    [][\A m \in Msgs : db[m].dateChangeUsed /\ m \notin overlapped =>
          db'[m].openOn = db[m].openOn \/ db'[m].status = "deleted"]_vars

\* A deleted message never comes back, overlapping calls or not: the dialog
\* says that a deletion cannot be undone (sealed_page.dart:56).
DeletedStaysDeleted ==
    [][\A m \in Msgs : db[m].status = "deleted" =>
          db'[m].status = "deleted"]_vars

\* A message whose day has come is eventually opened (or deleted), if the
\* process is restarted again and again and not every start fails.
DueArrives ==
    \A m \in Msgs : (Sealed(m) /\ db[m].openOn <= now) ~>
                      ~(Sealed(m) /\ db[m].openOn <= now)

LaunchGranted == Launch /\ phase' = "find_due"

\* The isolate runs what it has begun.  The system or the user ends the
\* process some day and starts it again; a start is not cut short every time.
Fairness ==
    /\ WF_vars(Kill) /\ WF_vars(Launch)
    /\ SF_vars(LaunchGranted) /\ SF_vars(FindDue) /\ SF_vars(OpenDue)
    /\ \A c \in Calls : WF_vars(CallStep(c))

FairSpec == Spec /\ Fairness

=============================================================================
