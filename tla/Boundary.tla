------------------------------ MODULE Boundary ------------------------------
(***************************************************************************)
(* The tasks of boundary_app (apps/boundary_app/lib/main.dart): mine, the  *)
(* others' and the ones not sorted yet.                                    *)
(*                                                                         *)
(* Every operation changes the lists on the screen and starts _saveTasks,  *)
(* which writes one preference after another and reads each list when its  *)
(* turn comes.  Every letter that is typed starts one too, so saves        *)
(* overlap; the process may die between any two writes.                    *)
(***************************************************************************)
EXTENDS Integers, Sequences, Functions

CONSTANTS
  MaxItems, \* _maxItems, the length of a list (20)
  MaxIds,   \* tasks that are made
  MaxSaves  \* saves that overlap

ASSUME MaxItemsIsPositive == MaxItems \in Nat \ {0}
ASSUME MaxIdsIsNatural == MaxIds \in Nat
ASSUME MaxSavesIsPositive == MaxSaves \in Nat \ {0}

VARIABLES
  lists,   \* _myTasks, _otherTasks and _pendingTasks, by the ids of the tasks
  typed,   \* _draftInputText is not empty
  stored,  \* the preferences of the lists
  draft,   \* task_input_draft is not empty
  legacy,  \* task_pending, of an earlier version, is there
  lastId,  \* the last id that was given
  open,    \* the page is there
  loaded,  \* _loadTasks is through
  saves,   \* how many saves have come to each of their steps
  \* History variables, read by no action.
  moved,   \* the tasks that were added, moved or removed during these saves
  adopted  \* the task of an earlier version, on the screen but not yet stored

preferences == <<stored, draft, legacy>>
historyVars == <<moved, adopted>>
vars == <<lists, typed, preferences, lastId, open, loaded, saves, historyVars>>

Buckets == {"my", "other", "pending"}
Steps == {"my", "other", "pending", "legacy", "draft"}
Ids == 1..MaxIds

NoTasks == [b \in Buckets |-> <<>>]
NoSaves == [s \in Steps |-> 0]

Init ==
  /\ lists = NoTasks /\ typed = FALSE
  /\ stored = NoTasks /\ draft = FALSE /\ legacy \in BOOLEAN
  /\ lastId = 0
  /\ open = FALSE /\ loaded = FALSE
  /\ saves = NoSaves /\ moved = {} /\ adopted = {}

-----------------------------------------------------------------------------
(* The page starts and ends.                                               *)

Open ==
  /\ ~open
  /\ open' = TRUE
  /\ UNCHANGED <<lists, typed, preferences, lastId, loaded, saves, historyVars>>

\* The task of an earlier version is added to the list on the screen, and
\* its preference removed; nothing stores it before the next save.
_loadTasks ==
  /\ open /\ ~loaded
  /\ legacy => lastId < MaxIds
  /\ loaded' = TRUE
  /\ lastId' = IF legacy THEN lastId + 1 ELSE lastId
  /\ lists' = IF legacy THEN [stored EXCEPT !["pending"] = Append(@, lastId + 1)]
              ELSE stored
  /\ adopted' = IF legacy THEN {lastId + 1} ELSE {}
  /\ typed' = draft
  /\ legacy' = FALSE
  /\ UNCHANGED <<stored, draft, open, saves, moved>>

Die ==
  /\ open
  /\ open' = FALSE /\ loaded' = FALSE
  /\ lists' = NoTasks /\ typed' = FALSE
  /\ saves' = NoSaves /\ moved' = {} /\ adopted' = {}
  /\ UNCHANGED <<preferences, lastId>>

-----------------------------------------------------------------------------
(* _saveTasks.                                                             *)

(* Mutant of Begun: no save is started while another one runs.             *)
BegunUnlessRunning(now) ==
  IF \E s \in Steps : now[s] > 0 THEN now ELSE [now EXCEPT !["my"] = 1]

Begun(now) == [now EXCEPT !["my"] = @ + 1]

Save ==
  /\ FoldFunction(+, 0, saves) < MaxSaves
  /\ saves' = Begun(saves)

After(s) ==
  CASE s = "my" -> {"other"} [] s = "other" -> {"pending"}
    [] s = "pending" -> {"legacy"} [] s = "legacy" -> {"draft"}
    [] s = "draft" -> {}

\* The list is read when its preference is written.  The preferences reach
\* the first load and the saves that wait for them in any order.
SaveStep(s) ==
  LET left == [t \in Steps |->
                 IF t = s THEN saves[t] - 1
                 ELSE IF t \in After(s) THEN saves[t] + 1 ELSE saves[t]] IN
  /\ saves[s] > 0
  /\ loaded \/ s = "my"
  /\ saves' = left
  /\ stored' = IF s \in Buckets THEN [stored EXCEPT ![s] = lists[s]] ELSE stored
  /\ legacy' = (legacy /\ s # "legacy")
  /\ draft' = IF s = "draft" THEN typed ELSE draft
  /\ moved' = IF left = NoSaves THEN {} ELSE moved
  /\ adopted' = IF s = "pending" THEN {} ELSE adopted
  /\ UNCHANGED <<lists, typed, lastId, open, loaded>>

-----------------------------------------------------------------------------
(* The operations of the page.                                             *)

\* The last _maxItems of a list.
Fit(list) ==
  IF Len(list) > MaxItems
    THEN SubSeq(list, Len(list) - MaxItems + 1, Len(list)) ELSE list

\* The tasks of a list that are in a set, in the order of the list.
Kept(list, ids) ==
  LET upTo[i \in 0..Len(list)] ==
        IF i = 0 THEN <<>>
        ELSE IF list[i] \in ids THEN Append(upTo[i - 1], list[i]) ELSE upTo[i - 1]
  IN  upTo[Len(list)]

Without(list, id) == Kept(list, Ids \ {id})

Only(list, id) == Kept(list, {id})

\* The tasks that come, go or change their list.
Touched(new) ==
  {id \in 1..lastId' : \E b \in Buckets : Only(lists[b], id) # Only(new[b], id)}

onChanged ==
  /\ open
  /\ typed' \in BOOLEAN
  /\ Save
  /\ UNCHANGED <<lists, preferences, lastId, open, loaded, historyVars>>

Change(new) ==
  /\ open
  /\ lists' = new
  /\ moved' = moved \cup Touched(new)
  /\ Save
  /\ UNCHANGED <<preferences, open, loaded, adopted>>

_submitTask ==
  /\ typed /\ lastId < MaxIds
  /\ typed' = FALSE
  /\ lastId' = lastId + 1
  /\ Change([lists EXCEPT !["pending"] = Fit(Append(@, lastId + 1))])

\* A task that is sorted gets a new id.
_classifyPendingTask(id, bucket) ==
  /\ \E i \in DOMAIN lists["pending"] : lists["pending"][i] = id
  /\ lastId < MaxIds
  /\ lastId' = lastId + 1
  /\ Change([lists EXCEPT ![bucket] = Fit(Append(@, lastId + 1)),
                          !["pending"] = Without(@, id)])
  /\ UNCHANGED typed

_moveTaskToBucket(id, from, to) ==
  /\ from # to
  /\ \E i \in DOMAIN lists[from] : lists[from][i] = id
  /\ UNCHANGED <<typed, lastId>>
  /\ Change([lists EXCEPT ![from] = Without(@, id), ![to] = Fit(Append(@, id))])

_deleteTask(id, bucket) ==
  /\ \E i \in DOMAIN lists[bucket] : lists[bucket][i] = id
  /\ UNCHANGED <<typed, lastId>>
  /\ Change([lists EXCEPT ![bucket] = Without(@, id)])

_clearAll ==
  /\ UNCHANGED <<typed, lastId>>
  /\ Change(NoTasks)

Use ==
  \/ onChanged \/ _submitTask \/ _clearAll
  \/ \E id \in Ids :
       \/ \E b \in {"my", "other"} : _classifyPendingTask(id, b)
       \/ \E from, to \in {"my", "other"} : _moveTaskToBucket(id, from, to)
       \/ \E b \in Buckets : _deleteTask(id, b)

Next == Open \/ _loadTasks \/ Die \/ Use \/ \E s \in Steps : SaveStep(s)

Spec == Init /\ [][Next]_vars

-----------------------------------------------------------------------------
(* Properties.                                                             *)

\* What a preference need not hold of its list.
Unstored(b) == IF b = "pending" THEN moved \cup adopted ELSE moved

Others(b, list) == Kept(list, Ids \ Unstored(b))

(* However saves overlap, the preferences hold every task that none of     *)
(* them is moving, in its list and in its order: what a death between two  *)
(* writes can lose or double is what was being moved (main.dart:193).      *)
(* When no save runs nothing is being moved, and all the lists are stored  *)
(* but for one task: the one of an earlier version that the load took over *)
(* and whose preference it removed (main.dart:186-188), which no           *)
(* preference holds before a save has written the pending list.            *)
OthersAreStored ==
  loaded => \A b \in Buckets : Others(b, stored[b]) = Others(b, lists[b])
=============================================================================
