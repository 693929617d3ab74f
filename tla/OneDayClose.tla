---------------------------- MODULE OneDayClose ----------------------------
(***************************************************************************)
(* The page of the One Day app (apps/after_app/dev/one_day_app/lib): the   *)
(* phrases of one day, which runs from 4 in the morning to 4 in the        *)
(* morning, in OneDayPage and in the two preferences OneDayCloseRepo keeps *)
(* them in, the phrases and the time of the last save.                     *)
(*                                                                         *)
(* SharedPreferences changes its copy in memory at once, sends the write   *)
(* to the platform and answers when the platform has done it; the platform *)
(* works through the writes in order.  What the isolate runs from one such *)
(* answer to the next write is one step, or one for each time it reads the *)
(* clock: everything else it awaits is complete already, so no other       *)
(* handler runs meanwhile.  Handlers overlap at their writes, 4 in the     *)
(* morning passes and the process dies between any two steps.              *)
(*                                                                         *)
(* A definition marked "mutant" is a wrong version of the one below it,    *)
(* used by no behaviour.                                                   *)
(***************************************************************************)
EXTENDS Integers, Sequences

CONSTANTS
    Phrases,       \* what the user may submit, each once
    Calls,         \* slots for handlers in flight
    MaxDay,        \* bound: days are 1..MaxDay
    MaxStarts      \* bound: starts of the process

ASSUME OneDayAssumption == MaxDay \in Nat \ {0} /\ MaxStarts \in Nat \ {0}

VARIABLES
    day,           \* DateTime.now(), counted in days that begin at 4
    running,       \* the process is alive
    cache,         \* SharedPreferences in memory
    disk,          \* what the platform has stored
    writes,        \* the writes the platform has not answered
    calls,         \* the handlers in flight
    shown,         \* _OneDayPageState._phrases
    \* History variables, read by no action but for the bound on starts.
    starts,        \* how often the process was started
    born,          \* the day a phrase was put on, 0 before
    checked,       \* the day the last _checkExpiration began on
    torn,          \* a write failed, or an addPhrase was torn apart
    stale          \* the page shows a list that was removed while it was counted

historyVars == <<starts, born, checked, torn, stale>>
vars == <<day, running, cache, disk, writes, calls, shown, historyVars>>

Days == 1..MaxDay
Store == [phrases: SUBSET Phrases, time: {0} \cup Days]
Nothing == [phrases |-> {}, time |-> 0]

\* A handler awaiting the answer to a write, or about to read the clock: what
\* the page was last emptied for, the phrase it adds, the list loadPhrases has
\* returned, and whether _init will load a second time.
Idle == [pc |-> "idle"]
AtClock == {"start", "load", "total"}
AtWrite == {"remove_first", "remove_rest", "put", "stamp"}
Call == [pc: AtClock \cup AtWrite,
         for: {"check", "load", "total", "add", "reset"},
         adds: SUBSET Phrases, list: SUBSET Phrases, again: BOOLEAN]
Called(for, adds, again) ==
    [pc |-> "start", for |-> for, adds |-> adds, list |-> {}, again |-> again]

Init ==
    /\ day = 1 /\ running = FALSE
    /\ cache = Nothing /\ disk = Nothing /\ writes = <<>>
    /\ calls = [c \in Calls |-> Idle]
    /\ shown = {}
    /\ starts = 0 /\ born = [p \in Phrases |-> 0]
    /\ checked = 0 /\ torn = FALSE /\ stale = FALSE

-----------------------------------------------------------------------------
(* The repository.  A handler that runs has no write left but, perhaps, the  *)
(* one just answered, which goes as the handler goes on.  call is the record *)
(* of the handler while it waits for the answer to its next write.           *)

Unanswered(c) == IF writes # <<>> /\ Head(writes).call = c THEN Tail(writes)
                 ELSE writes

Write(c, call, pc, key, value) ==
    /\ cache' = [cache EXCEPT ![key] = value]
    /\ writes' = Append(Unanswered(c),
                         [call |-> c, key |-> key, value |-> value])
    /\ calls' = [calls EXCEPT ![c] = [call EXCEPT !.pc = pc]]

\* The handler goes on without a write, to its next look at the clock.
Proceed(c, call, pc) ==
    /\ calls' = [calls EXCEPT ![c] = [call EXCEPT !.pc = pc]]
    /\ writes' = Unanswered(c)
    /\ UNCHANGED cache

Return(c) ==
    /\ calls' = [calls EXCEPT ![c] = Idle]
    /\ writes' = Unanswered(c)
    /\ UNCHANGED cache

CrossedTwoDays == cache.time # 0 /\ day - cache.time > 1           \* mutant
hasCrossed4AM == cache.time # 0 /\ cache.time # day

\* clear, in two writes, each awaited.
TimeFirst == <<"time", "phrases">>                                 \* mutant
ClearOrder == <<"phrases", "time">>
Remove(c, call, pc, key) == Write(c, call, pc, key, Nothing[key])

Clear(c, call, for) ==
    Remove(c, [call EXCEPT !.for = for], "remove_first", ClearOrder[1])
RemoveRest(c) == Remove(c, calls[c], "remove_rest", ClearOrder[2])

\* The end of addPhrase: the phrases, then the time.
Born(call) ==
    born' = [p \in Phrases |-> IF p \in call.adds THEN day ELSE born[p]]
PutOnly(c, call, existing) ==                                      \* mutant
    Write(c, call, "put", "phrases", call.adds) /\ Born(call)
Put(c, call, existing) ==
    Write(c, call, "put", "phrases", existing \cup call.adds) /\ Born(call)
StampTomorrow(c) == Write(c, calls[c], "stamp", "time", day + 1)   \* mutant
Stamp(c) == Write(c, calls[c], "stamp", "time", day)

-----------------------------------------------------------------------------
(* The page's handlers, a step for each time they read the clock.            *)

PageStays == UNCHANGED <<shown, stale>>

\* setState: the page shows list, which is removed already if outdated.
SetState(list, outdated) == shown' = list /\ stale' = outdated

CheckExpiration(c, call) ==
    /\ PageStays /\ UNCHANGED born
    /\ \/ hasCrossed4AM /\ Clear(c, call, "check")
       \/ ~hasCrossed4AM /\ Proceed(c, call, "load")

AddPhrase(c, call) ==
    /\ PageStays
    /\ \/ hasCrossed4AM /\ Clear(c, call, "add") /\ UNCHANGED born
       \/ ~hasCrossed4AM /\ Put(c, call, cache.phrases)

\* _loadPhrases: first loadPhrases.
LoadPhrases(c) ==
    /\ PageStays /\ UNCHANGED born
    /\ \/ hasCrossed4AM /\ Clear(c, calls[c], "load")
       \/ /\ ~hasCrossed4AM
          /\ Proceed(c, [calls[c] EXCEPT !.list = cache.phrases], "total")

\* Last setState with that list; _init then has its second _loadPhrases.
ShowList(c, outdated) ==
    /\ SetState(calls[c].list, outdated)
    /\ IF calls[c].again
         THEN Proceed(c, [calls[c] EXCEPT !.again = FALSE], "load")
         ELSE Return(c)

\* In between getTotalCharacterCount, which calls loadPhrases as well.
CountPhrases(c) ==
    /\ UNCHANGED born
    /\ \/ hasCrossed4AM /\ Clear(c, calls[c], "total") /\ PageStays
       \/ ~hasCrossed4AM /\ ShowList(c, FALSE)

\* setState after _checkExpiration's own clear, then _loadPhrases.
CheckedEmpty(c) == SetState({}, FALSE) /\ Proceed(c, calls[c], "load")

ResetKeepsPage(c) == Return(c) /\ PageStays                     \* mutant
ResetPage(c) == SetState({}, FALSE) /\ Return(c)

\* What follows a clear, by who called it.
Cleared(c) ==
    \/ /\ UNCHANGED born
       /\ \/ calls[c].for = "check" /\ CheckedEmpty(c)
          \/ /\ calls[c].for = "load"
             /\ Proceed(c, [calls[c] EXCEPT !.list = {}], "total")
             /\ PageStays
          \/ calls[c].for = "total" /\ ShowList(c, calls[c].list # {})
          \/ calls[c].for = "reset" /\ ResetPage(c)
    \/ calls[c].for = "add" /\ Put(c, calls[c], {}) /\ PageStays

-----------------------------------------------------------------------------
(* What starts a handler.                                                    *)

NoneRuns == \A c \in Calls : calls[c].pc \notin AtClock

Ready(c) == running /\ calls[c] = Idle /\ NoneRuns

Resume(c) ==
    /\ Ready(c)
    /\ CheckExpiration(c, Called("check", {}, FALSE))
    /\ checked' = day
    /\ UNCHANGED <<day, running, disk, starts, torn>>

SubmitText(c, p) ==
    /\ Ready(c)
    /\ born[p] = 0
    /\ \A d \in Calls : calls[d] # Idle => p \notin calls[d].adds
    /\ AddPhrase(c, Called("add", {p}, FALSE))
    /\ UNCHANGED <<day, running, disk, starts, checked, torn>>

Reset(c) ==
    /\ Ready(c)
    /\ Clear(c, Called("reset", {}, FALSE), "reset")
    /\ UNCHANGED <<day, running, disk, shown, starts, born, checked, torn, stale>>

\* main, initState and the first SharedPreferences.getInstance, which reads
\* what is stored; handlers called before it answers wait behind _init.
Launch(c) ==
    /\ ~running
    /\ running' = TRUE
    /\ starts' = starts + 1
    /\ cache' = disk
    /\ calls' = [calls EXCEPT ![c] = Called("check", {}, TRUE)]
    /\ torn' = (torn /\ disk # Nothing)
    /\ UNCHANGED <<day, disk, writes, shown, born, checked, stale>>

StartInit(c) ==
    /\ calls[c].pc = "start"
    /\ CheckExpiration(c, calls[c])
    /\ checked' = day
    /\ UNCHANGED <<day, running, disk, starts, torn>>

\* The handler at the clock goes on.
GoOn(c) ==
    /\ \/ calls[c].pc = "load" /\ LoadPhrases(c)
       \/ calls[c].pc = "total" /\ CountPhrases(c)
    /\ UNCHANGED <<day, running, disk, starts, checked, torn>>

-----------------------------------------------------------------------------
(* The platform answers the oldest write, and the handler that waits for it  *)
(* goes on.                                                                  *)

\* The write is done.
Goes(c) ==
    \/ calls[c].pc = "remove_first" /\ RemoveRest(c) /\ PageStays /\ UNCHANGED born
    \/ calls[c].pc = "remove_rest" /\ Cleared(c)
    \/ calls[c].pc = "put" /\ Stamp(c) /\ PageStays /\ UNCHANGED born
    \/ /\ calls[c].pc = "stamp"
       /\ Proceed(c, calls[c], "load")
       /\ PageStays /\ UNCHANGED born

\* The write throws: clear and addPhrase catch it and return.
Catches(c) ==
    \/ calls[c].pc \in {"remove_first", "remove_rest"} /\ Cleared(c)
    \/ /\ calls[c].pc \in {"put", "stamp"}
       /\ Proceed(c, calls[c], "load")
       /\ PageStays /\ UNCHANGED born

Answer(c) ==
    /\ NoneRuns
    /\ writes # <<>> /\ Head(writes).call = c
    /\ \/ /\ disk' = [disk EXCEPT ![Head(writes).key] = Head(writes).value]
          /\ Goes(c)
          /\ UNCHANGED torn
       \/ /\ Goes(c) \/ Catches(c)
          /\ torn' = TRUE
          /\ UNCHANGED disk
    /\ UNCHANGED <<day, running, starts, checked>>

-----------------------------------------------------------------------------
(* The environment.                                                          *)

Adding(pcs) == \E c \in Calls : /\ calls[c] # Idle
                                /\ calls[c].for = "add"
                                /\ calls[c].pc \in pcs

\* The process dies: what the platform has not stored is lost.
Kill ==
    /\ running
    /\ starts < MaxStarts
    /\ running' = FALSE
    /\ cache' = Nothing /\ writes' = <<>> /\ SetState({}, FALSE)
    /\ calls' = [c \in Calls |-> Idle]
    /\ torn' = (torn \/ Adding({"put", "stamp"}))
    /\ UNCHANGED <<day, disk, starts, born, checked>>

\* It is 4 in the morning.
FourAM ==
    /\ day < MaxDay
    /\ day' = day + 1
    /\ torn' = (torn \/ Adding({"remove_first", "remove_rest", "put"}))
    /\ UNCHANGED <<running, cache, disk, writes, calls, shown, starts, born,
                   checked, stale>>

Next ==
    \/ \E c \in Calls : \/ Launch(c) \/ StartInit(c) \/ GoOn(c) \/ Answer(c)
                         \/ Resume(c) \/ Reset(c)
                         \/ \E p \in Phrases : SubmitText(c, p)
    \/ Kill
    \/ FourAM

Spec == Init /\ [][Next]_vars

-----------------------------------------------------------------------------
(* Properties.                                                               *)

AtRest == running /\ \A c \in Calls : calls[c] = Idle

\* Every variable has its type.
TypeOK ==
    /\ day \in Days /\ running \in BOOLEAN
    /\ cache \in Store /\ disk \in Store
    /\ \A i \in 1..Len(writes) :
          /\ writes[i].call \in Calls
          /\ \/ writes[i].key = "phrases" /\ writes[i].value \in SUBSET Phrases
             \/ writes[i].key = "time" /\ writes[i].value \in {0} \cup Days
    /\ calls \in [Calls -> Call \cup {Idle}]
    /\ shown \subseteq Phrases
    /\ starts \in 0..MaxStarts
    /\ born \in [Phrases -> {0} \cup Days] /\ checked \in {0} \cup Days
    /\ torn \in BOOLEAN /\ stale \in BOOLEAN

\* All phrases kept were put on one day, the day the last save is dated, so
\* that the next 4 in the morning removes them all, however handlers overlap
\* at 4; only a write that failed, 4 in the morning during an addPhrase, or a
\* death between its last two writes (one_day_close_repo.dart:127-133) can
\* undo it.
OneDayOnly ==
    AtRest /\ ~torn /\ cache.phrases # {} =>
        cache.time # 0 /\ \A p \in cache.phrases : born[p] = cache.time

\* When nothing is in flight the page shows exactly what is kept, whichever
\* handler called setState last (one_day_page.dart:48-96, 403-460, 577-588),
\* unless a write failed and its handler caught up with another's, or the page
\* is stale: _loadPhrases reads the clock twice, and when 4 in the morning falls
\* between, the second reading empties the store and the list of the first is
\* shown (one_day_page.dart:77-85).
ShownIsKept == AtRest /\ ~torn /\ ~stale => shown = cache.phrases

\* Once a start or a resume has looked (_checkExpiration), the page shows no
\* phrase of an earlier day, but a stale list of another handler that ends later.
ShowsToday ==
    AtRest /\ ~torn /\ ~stale /\ checked = day =>
        \A p \in shown : born[p] = day

\* A phrase of today leaves the store only by a Reset, by the death of the
\* process, after a failed write, or by an addPhrase that emptied the page
\* itself and missed what was put meanwhile (one_day_close_repo.dart:119).
TodayIsKept ==
    [][running /\ running' /\ ~torn' =>
        \A p \in cache.phrases :
            \/ p \in cache'.phrases
            \/ born[p] # day
            \/ \E c \in Calls : calls'[c] # Idle /\ calls'[c].for = "reset"
            \/ \E c \in Calls : calls[c].pc = "remove_rest"
                              /\ calls[c].for = "add"]_vars

=============================================================================
