------------------------- MODULE OneDayClose_proofs -------------------------
(* Theorems about OneDayClose, for any phrases, handlers, days and starts:   *)
(* the types, that all phrases kept are of one day, that the page shows what *)
(* is kept, nothing of an earlier day, and that no phrase of today is lost.  *)
EXTENDS OneDayClose, TLAPS

-----------------------------------------------------------------------------
(* The writes on their way.                                                  *)

Entry == [call: Calls, key: {"phrases", "time"},
          value: (SUBSET Phrases) \cup {0} \cup Days]

InLine(s, c) == \E i \in 1..Len(s) : s[i].call = c
Ordered(s, a, b) == \E i, j \in 1..Len(s) : i < j /\ s[i].call = a /\ s[j].call = b
Holds(s, c, k, v) == \E i \in 1..Len(s) : s[i].call = c /\ s[i].key = k /\ s[i].value = v
OneEach(s) == \A i, j \in 1..Len(s) : s[i].call = s[j].call => i = j

Waits(c) == calls[c].pc \in AtWrite
Before(a, b) == Ordered(writes, a, b)
Pending(c, k, v) == Holds(writes, c, k, v)
Answered(c) == writes # <<>> /\ Head(writes).call = c

\* Each handler that waits has its one write in the line, and nobody else.
QueueInv ==
    /\ writes \in Seq(Entry)
    /\ calls \in [Calls -> Call \cup {Idle}]
    /\ OneEach(writes)
    /\ \A c \in Calls : Waits(c) <=> InLine(writes, c)

\* What is left of the line when c goes on: everybody else, in order.
LEMMA UnansweredLine ==
    ASSUME QueueInv, NEW c \in Calls, ~Waits(c) \/ Answered(c)
    PROVE  LET u == Unanswered(c) IN
           /\ u \in Seq(Entry) /\ OneEach(u) /\ ~InLine(u, c)
           /\ \A a \in Calls \ {c} : InLine(u, a) <=> InLine(writes, a)
           /\ \A a, b \in Calls \ {c} : Ordered(u, a, b) <=> Ordered(writes, a, b)
           /\ \A a \in Calls \ {c} : \A k, v : Holds(u, a, k, v) <=> Holds(writes, a, k, v)
<1> DEFINE u == Unanswered(c)
<1>1. CASE ~Answered(c)
  <2>1. u = writes /\ ~InLine(writes, c)
    BY <1>1 DEF Answered, Unanswered, QueueInv
  <2> HIDE DEF u
  <2>2. writes \in Seq(Entry) /\ OneEach(writes)
    BY DEF QueueInv
  <2> QED BY <2>1, <2>2 DEF u
<1>2. CASE Answered(c)
  <2>1. /\ writes \in Seq(Entry) /\ writes # <<>> /\ u = Tail(writes)
        /\ writes[1].call = c
    BY <1>2 DEF Answered, Unanswered, QueueInv
  <2> HIDE DEF u
  <2>2. /\ u \in Seq(Entry) /\ Len(u) = Len(writes) - 1 /\ Len(writes) \in Nat
        /\ Len(u) \in Nat /\ \A i \in 1..Len(u) : u[i] = writes[i + 1]
    BY <2>1
  <2>3. \A i \in 1..Len(writes) : writes[i].call = c => i = 1
    BY <2>1, <2>2 DEF QueueInv, OneEach
  <2>4. \A i \in 1..Len(u) : i + 1 \in 1..Len(writes) /\ i + 1 # 1
    BY <2>2
  <2>5. \A i \in 1..Len(writes) : i # 1 => i - 1 \in 1..Len(u) /\ u[i - 1] = writes[i]
    BY <2>2
  <2>6. OneEach(u)
    <3> SUFFICES ASSUME NEW i \in 1..Len(u), NEW j \in 1..Len(u), u[i].call = u[j].call
                 PROVE  i = j
      BY DEF OneEach
    <3>1. i + 1 = j + 1
      BY <2>2, <2>4 DEF QueueInv, OneEach
    <3> QED BY <3>1
  <2>7. ~InLine(u, c)
    BY <2>2, <2>3, <2>4 DEF InLine
  <2>8. ASSUME NEW a \in Calls \ {c} PROVE InLine(u, a) <=> InLine(writes, a)
    <3>1. ASSUME NEW i \in 1..Len(writes), writes[i].call = a PROVE InLine(u, a)
      BY <2>1, <2>5, <3>1 DEF InLine
    <3>2. ASSUME NEW i \in 1..Len(u), u[i].call = a PROVE InLine(writes, a)
      BY <2>2, <2>4, <3>2 DEF InLine
    <3> QED BY <3>1, <3>2 DEF InLine
  <2>9. ASSUME NEW a \in Calls \ {c}, NEW b \in Calls \ {c}
        PROVE  Ordered(u, a, b) <=> Ordered(writes, a, b)
    <3>1. ASSUME NEW i \in 1..Len(writes), NEW j \in 1..Len(writes), i < j,
                 writes[i].call = a, writes[j].call = b
          PROVE  Ordered(u, a, b)
      <4>1. i # 1 /\ j # 1
        BY <2>1, <3>1
      <4>2. i - 1 \in 1..Len(u) /\ j - 1 \in 1..Len(u) /\ u[i - 1].call = a /\ u[j - 1].call = b
        BY <2>5, <3>1, <4>1
      <4>3. i - 1 < j - 1
        BY <3>1
      <4> QED BY <4>2, <4>3 DEF Ordered
    <3>2. ASSUME NEW i \in 1..Len(u), NEW j \in 1..Len(u), i < j,
                 u[i].call = a, u[j].call = b
          PROVE  Ordered(writes, a, b)
      <4>1. i + 1 \in 1..Len(writes) /\ j + 1 \in 1..Len(writes)
        BY <2>4
      <4>2. i + 1 < j + 1 /\ writes[i + 1].call = a /\ writes[j + 1].call = b
        BY <2>2, <3>2
      <4> QED BY <4>1, <4>2 DEF Ordered
    <3> QED BY <3>1, <3>2 DEF Ordered
  <2>10. ASSUME NEW a \in Calls \ {c}, NEW k, NEW v
         PROVE  Holds(u, a, k, v) <=> Holds(writes, a, k, v)
    <3>1. ASSUME NEW i \in 1..Len(writes), writes[i].call = a, writes[i].key = k,
                 writes[i].value = v
          PROVE  Holds(u, a, k, v)
      <4>1. i # 1
        BY <2>1, <3>1
      <4> QED BY <2>5, <3>1, <4>1 DEF Holds
    <3>2. ASSUME NEW i \in 1..Len(u), u[i].call = a, u[i].key = k, u[i].value = v
          PROVE  Holds(writes, a, k, v)
      BY <2>2, <2>4, <3>2 DEF Holds
    <3> QED BY <3>1, <3>2 DEF Holds
  <2> QED BY <2>2, <2>6, <2>7, <2>8, <2>9, <2>10 DEF u
<1> QED BY <1>1, <1>2

\* A write goes to the end of the line.
LEMMA AppendLine ==
    ASSUME NEW u \in Seq(Entry), OneEach(u), NEW w \in Entry, ~InLine(u, w.call)
    PROVE  LET s == Append(u, w) IN
           /\ s \in Seq(Entry) /\ OneEach(s) /\ InLine(s, w.call)
           /\ \A a \in Calls \ {w.call} : InLine(s, a) <=> InLine(u, a)
           /\ \A a \in Calls \ {w.call}, b \in Calls \ {w.call} :
                 Ordered(s, a, b) <=> Ordered(u, a, b)
           /\ \A a \in Calls : InLine(u, a) => Ordered(s, a, w.call)
           /\ \A a \in Calls : ~Ordered(s, w.call, a)
           /\ \A a \in Calls \ {w.call} : \A k, v : Holds(s, a, k, v) <=> Holds(u, a, k, v)
           /\ \A k, v : Holds(s, w.call, k, v) <=> k = w.key /\ v = w.value
<1> DEFINE s == Append(u, w)
           n == Len(u)
<1>1. /\ s \in Seq(Entry) /\ Len(s) = n + 1 /\ n \in Nat
      /\ s[n + 1] = w /\ \A i \in 1..n : s[i] = u[i]
  OBVIOUS
<1>2. \A i \in 1..Len(s) : i \in 1..n \/ i = n + 1
  BY <1>1
<1>3. 1..n \subseteq 1..Len(s) /\ n + 1 \in 1..Len(s)
  BY <1>1
<1>4. \A i \in 1..n : u[i].call # w.call
  BY DEF InLine
<1> HIDE DEF s
<1>5. OneEach(s)
  BY <1>1, <1>2, <1>4 DEF OneEach
<1>6. InLine(s, w.call)
  BY <1>1, <1>3 DEF InLine
<1>7. \A a \in Calls \ {w.call} : InLine(s, a) <=> InLine(u, a)
  BY <1>1, <1>2, <1>3 DEF InLine
<1>8. ASSUME NEW a \in Calls \ {w.call}, NEW b \in Calls \ {w.call}
      PROVE  Ordered(s, a, b) <=> Ordered(u, a, b)
  BY <1>1, <1>2, <1>3 DEF Ordered
<1>9. ASSUME NEW a \in Calls, InLine(u, a) PROVE Ordered(s, a, w.call)
  <2>1. PICK i \in 1..n : u[i].call = a
    BY <1>9 DEF InLine
  <2>2. i < n + 1 /\ s[i].call = a /\ s[n + 1].call = w.call
    BY <1>1, <2>1
  <2> QED BY <1>3, <2>1, <2>2 DEF Ordered
<1>10. ASSUME NEW a \in Calls, Ordered(s, w.call, a) PROVE FALSE
  <2>1. PICK i \in 1..Len(s), j \in 1..Len(s) : i < j /\ s[i].call = w.call
    BY <1>10 DEF Ordered
  <2>2. i = n + 1
    BY <1>1, <1>2, <1>4, <2>1
  <2> QED BY <1>1, <2>1, <2>2
<1>11. ASSUME NEW a \in Calls \ {w.call}, NEW k, NEW v
       PROVE  Holds(s, a, k, v) <=> Holds(u, a, k, v)
  BY <1>1, <1>2, <1>3 DEF Holds
<1>12. ASSUME NEW k, NEW v PROVE Holds(s, w.call, k, v) <=> k = w.key /\ v = w.value
  BY <1>1, <1>2, <1>3, <1>4 DEF Holds
<1> QED BY <1>1, <1>5, <1>6, <1>7, <1>8, <1>9, <1>10, <1>11, <1>12 DEF s

\* Nobody's write comes before the one that is answered.
LEMMA HeadOfLine ==
    ASSUME QueueInv, NEW c \in Calls, Answered(c)
    PROVE  /\ Waits(c)
           /\ Pending(c, Head(writes).key, Head(writes).value)
           /\ \A a \in Calls : ~Before(a, c)
           /\ \A a \in Calls \ {c} : Waits(a) => Before(c, a)
<1>1. writes \in Seq(Entry) /\ Len(writes) \in Nat /\ Len(writes) >= 1
      /\ Head(writes) = writes[1] /\ writes[1].call = c
  BY DEF QueueInv, Answered
<1>2. 1 \in 1..Len(writes) /\ \A i \in 1..Len(writes) : i = 1 \/ 1 < i
  BY <1>1
<1>3. InLine(writes, c)
  BY <1>1, <1>2 DEF InLine
<1>4. Pending(c, Head(writes).key, Head(writes).value)
  BY <1>1, <1>2 DEF Pending, Holds
<1>5. ASSUME NEW a \in Calls, Before(a, c) PROVE FALSE
  <2>1. PICK i \in 1..Len(writes), j \in 1..Len(writes) : i < j /\ writes[j].call = c
    BY <1>5 DEF Before, Ordered
  <2>2. j = 1
    BY <1>1, <1>2, <2>1 DEF QueueInv, OneEach
  <2> QED BY <1>1, <2>1, <2>2
<1>6. ASSUME NEW a \in Calls \ {c}, Waits(a) PROVE Before(c, a)
  <2>1. PICK i \in 1..Len(writes) : writes[i].call = a
    BY <1>6 DEF QueueInv, InLine
  <2> QED BY <1>1, <1>2, <2>1 DEF Before, Ordered
<1> QED BY <1>3, <1>4, <1>5, <1>6 DEF QueueInv

\* A handler has one write at most.
LEMMA OnePending ==
    ASSUME QueueInv, NEW c \in Calls, NEW k, NEW v, Pending(c, k, v),
           NEW l, NEW w, Pending(c, l, w)
    PROVE  k = l /\ v = w
  BY DEF QueueInv, OneEach, Pending, Holds

\* The line when c goes on with another write.
LEMMA WriteLine ==
    ASSUME QueueInv, NEW c \in Calls, ~Waits(c) \/ Answered(c),
           NEW call \in Call, NEW pc \in AtWrite, NEW key \in {"phrases", "time"},
           NEW value \in (SUBSET Phrases) \cup {0} \cup Days,
           Write(c, call, pc, key, value)
    PROVE  /\ QueueInv'
           /\ calls'[c] = [call EXCEPT !.pc = pc] /\ calls'[c] \in Call /\ calls'[c].pc = pc
           /\ calls'[c].for = call.for /\ calls'[c].adds = call.adds
           /\ \A a \in Calls \ {c} : calls'[a] = calls[a]
           /\ \A a, b \in Calls \ {c} : Before(a, b)' <=> Before(a, b)
           /\ \A a \in Calls \ {c} : Waits(a) => Before(a, c)'
           /\ \A a \in Calls : ~Before(c, a)'
           /\ \A a \in Calls \ {c} : \A k, v : Pending(a, k, v)' <=> Pending(a, k, v)
           /\ Pending(c, key, value)'
<1> DEFINE w == [call |-> c, key |-> key, value |-> value]
           u == Unanswered(c)
<1>1. w \in Entry /\ w.call = c /\ w.key = key /\ w.value = value
  BY DEF Entry
<1>2. /\ u \in Seq(Entry) /\ OneEach(u) /\ ~InLine(u, c)
      /\ \A a \in Calls \ {c} : InLine(u, a) <=> InLine(writes, a)
      /\ \A a, b \in Calls \ {c} : Ordered(u, a, b) <=> Ordered(writes, a, b)
      /\ \A a \in Calls \ {c} : \A k, v : Holds(u, a, k, v) <=> Holds(writes, a, k, v)
  BY UnansweredLine
<1>3. writes' = Append(u, w) /\ calls' = [calls EXCEPT ![c] = [call EXCEPT !.pc = pc]]
  BY DEF Write
<1> HIDE DEF w, u
<1>4. /\ writes' \in Seq(Entry) /\ OneEach(writes') /\ InLine(writes', c)
      /\ \A a \in Calls \ {c} : InLine(writes', a) <=> InLine(u, a)
      /\ \A a \in Calls \ {c}, b \in Calls \ {c} : Ordered(writes', a, b) <=> Ordered(u, a, b)
      /\ \A a \in Calls : InLine(u, a) => Ordered(writes', a, c)
      /\ \A a \in Calls : ~Ordered(writes', c, a)
      /\ \A a \in Calls \ {c} : \A k, v : Holds(writes', a, k, v) <=> Holds(u, a, k, v)
      /\ \A k, v : Holds(writes', c, k, v) <=> k = w.key /\ v = w.value
  BY <1>1, <1>2, <1>3, AppendLine
<1>5. /\ calls'[c] = [call EXCEPT !.pc = pc] /\ calls'[c] \in Call /\ calls'[c].pc = pc
      /\ calls'[c].for = call.for /\ calls'[c].adds = call.adds
  <2>1. calls'[c] = [call EXCEPT !.pc = pc]
    BY <1>3 DEF QueueInv
  <2> QED BY <2>1 DEF Call, AtWrite
<1>6. \A a \in Calls \ {c} : calls'[a] = calls[a]
  BY <1>3 DEF QueueInv
<1>7. calls' \in [Calls -> Call \cup {Idle}]
  BY <1>3, <1>5 DEF QueueInv
<1>8. \A a \in Calls : Waits(a)' <=> InLine(writes', a)
  BY <1>2, <1>4, <1>5, <1>6 DEF Waits, QueueInv
<1>9. QueueInv'
  BY <1>4, <1>7, <1>8 DEF QueueInv
<1>10. \A a \in Calls \ {c} : Waits(a) => InLine(u, a)
  BY <1>2 DEF QueueInv
<1> QED BY <1>1, <1>2, <1>4, <1>5, <1>6, <1>9, <1>10 DEF Before, Pending

\* The handler goes on without a write: to its next look at the clock, or it
\* returns.
Free(c, call) ==
    /\ call = Idle \/ (call \in Call /\ call.pc \in {"load", "total"})
    /\ calls' = [calls EXCEPT ![c] = call]
    /\ writes' = Unanswered(c)
    /\ UNCHANGED cache

\* The line when c has no write left.
LEMMA FreeLine ==
    ASSUME QueueInv, NEW c \in Calls, ~Waits(c) \/ Answered(c),
           NEW call, Free(c, call)
    PROVE  /\ QueueInv' /\ calls'[c] = call
           /\ \A a \in Calls \ {c} : calls'[a] = calls[a]
           /\ \A a, b \in Calls \ {c} : Before(a, b)' <=> Before(a, b)
           /\ \A a \in Calls \ {c} : \A k, v : Pending(a, k, v)' <=> Pending(a, k, v)
<1> DEFINE u == Unanswered(c)
<1>2. /\ u \in Seq(Entry) /\ OneEach(u) /\ ~InLine(u, c)
      /\ \A a \in Calls \ {c} : InLine(u, a) <=> InLine(writes, a)
      /\ \A a, b \in Calls \ {c} : Ordered(u, a, b) <=> Ordered(writes, a, b)
      /\ \A a \in Calls \ {c} : \A k, v : Holds(u, a, k, v) <=> Holds(writes, a, k, v)
  BY UnansweredLine
<1>3. writes' = u /\ calls' = [calls EXCEPT ![c] = call] /\ call \in Call \cup {Idle}
  BY DEF Free
<1> HIDE DEF u
<1>4. calls' \in [Calls -> Call \cup {Idle}] /\ calls'[c] = call
      /\ \A a \in Calls \ {c} : calls'[a] = calls[a]
  BY <1>3 DEF QueueInv
<1>5. ~Waits(c)'
  BY <1>4 DEF Free, Waits, Idle, AtWrite
<1>6. \A a \in Calls : Waits(a)' <=> InLine(writes', a)
  BY <1>2, <1>3, <1>4, <1>5 DEF Waits, QueueInv
<1>7. QueueInv'
  BY <1>2, <1>3, <1>4, <1>6 DEF QueueInv
<1> QED BY <1>2, <1>3, <1>4, <1>7 DEF Before, Pending

-----------------------------------------------------------------------------
(* The invariant.                                                            *)

\* The types, of all but the writes and the handlers, which QueueInv has.
TypeInv ==
    /\ day \in Days /\ running \in BOOLEAN
    /\ cache \in Store /\ disk \in Store
    /\ shown \subseteq Phrases
    /\ starts \in 0..MaxStarts
    /\ born \in [Phrases -> {0} \cup Days] /\ checked \in {0} \cup Days
    /\ torn \in BOOLEAN /\ stale \in BOOLEAN

\* Nothing runs while the process does not, and only addPhrase puts.
HandlersInv ==
    /\ ~running => starts < MaxStarts /\ \A c \in Calls : calls[c] = Idle
    /\ \A c \in Calls : calls[c].pc \in {"put", "stamp"} => calls[c].for = "add"

\* A phrase is submitted once, and added by one handler.
Fresh(c, ps) == \A d \in Calls \ {c} : calls[d] # Idle => calls[d].adds \cap ps = {}

AddsInv ==
    \A c \in Calls : calls[c] # Idle =>
        /\ Fresh(c, calls[c].adds)
        /\ calls[c].for = "add" /\ calls[c].pc \in {"remove_first", "remove_rest"} =>
              \A p \in calls[c].adds : born[p] = 0

BornInv == \A p \in cache.phrases \cup disk.phrases : born[p] # 0

\* What a handler is waiting to have written.
WrittenInv ==
    \A c \in Calls :
        /\ calls[c].pc = "remove_first" => Pending(c, "phrases", {})
        /\ calls[c].pc = "remove_rest" => Pending(c, "time", 0)
        /\ calls[c].pc = "put" =>
              \E ps \in SUBSET Phrases :
                 /\ Pending(c, "phrases", ps)
                 /\ \A p \in ps : born[p] # 0 /\ (~torn => born[p] = day)
        /\ calls[c].pc = "stamp" =>
              \E d \in Days :
                 /\ Pending(c, "time", d)
                 /\ ~torn => \A p \in disk.phrases : born[p] = d

\* While a phrase is being put, all phrases are of today.
PutsToday ==
    \A c \in Calls : ~torn /\ calls[c].pc = "put" => \A p \in cache.phrases : born[p] = day

\* The phrases kept are of the day of the last save, which no clear is going
\* to remove, unless a put behind every such clear is going to save today.
CacheInv ==
    ~torn /\ cache.phrases # {} =>
        \/ \E c \in Calls :
              /\ calls[c].pc = "put"
              /\ \A e \in Calls : calls[e].pc = "remove_first" => Before(e, c)
        \/ /\ \A e \in Calls : calls[e].pc # "remove_first"
           /\ cache.time # 0
           /\ \A p \in cache.phrases : born[p] = cache.time

\* The same of what is stored, unless an addPhrase is under way.
DiskInv ==
    ~torn /\ (\A c \in Calls : calls[c].pc \notin {"put", "stamp"}) /\ disk.phrases # {} =>
        disk.time # 0 /\ \A p \in disk.phrases : born[p] = disk.time

\* A clear that removes the time after the phrases were put again is followed
\* by the stamp of that put.
ClearsInv ==
    \A e \in Calls :
        ~torn /\ calls[e].pc = "remove_rest" /\ disk.phrases # {} =>
            \E c \in Calls : calls[c].pc = "stamp" /\ Before(e, c)

\* A stamp behind a put is of today.
StampsInv ==
    \A f, c \in Calls :
        ~torn /\ calls[f].pc = "put" /\ calls[c].pc = "stamp" /\ Before(f, c) =>
            Pending(c, "time", day)

Inv ==
    /\ TypeInv /\ QueueInv /\ HandlersInv /\ AddsInv /\ BornInv /\ WrittenInv
    /\ PutsToday /\ CacheInv /\ DiskInv /\ ClearsInv /\ StampsInv

-----------------------------------------------------------------------------
(* How a handler goes on: with its next write, or without one.                *)

OutClear(c) ==
    \E call \in Call, for \in {"check", "load", "total", "add", "reset"} :
        /\ Clear(c, call, for) /\ UNCHANGED born
        /\ Fresh(c, call.adds)
        /\ for = "add" => \A p \in call.adds : born[p] = 0
        /\ hasCrossed4AM \/ for = "reset"

OutRest(c) ==
    calls[c].pc = "remove_first" /\ RemoveRest(c) /\ PageStays /\ UNCHANGED born

OutPut(c) ==
    \E call \in Call, existing \in {{}, cache.phrases} :
        /\ Put(c, call, existing)
        /\ call.for = "add" /\ Fresh(c, call.adds)
        /\ \A p \in call.adds : born[p] = 0
        /\ \/ calls[c].pc \in {"remove_first", "remove_rest"} /\ calls[c].for = "add"
           \/ existing = cache.phrases /\ ~hasCrossed4AM
        /\ existing = {} \/ ~hasCrossed4AM

OutStamp(c) == calls[c].pc = "put" /\ Stamp(c) /\ UNCHANGED born

\* What it shows when it returns, and the list it counts when it does not.
OutFree(c) ==
    \E call \in Call \cup {Idle} :
        /\ Free(c, call) /\ UNCHANGED born
        /\ call = Idle \/ Fresh(c, call.adds)
        /\ call = Idle =>
              \/ calls[c].pc = "total" /\ shown' = calls[c].list
              \/ /\ calls[c].pc \in {"remove_first", "remove_rest"}
                 /\ stale' \/ shown' = {}
        /\ call.pc = "total" =>
              \/ call.list = cache.phrases
              \/ call.list = {} /\ calls[c].pc \in {"remove_first", "remove_rest"}

ShownTyped == shown' \subseteq Phrases /\ stale' \in BOOLEAN

LEMMA StaysTyped == Inv /\ PageStays => ShownTyped
  BY DEF Inv, TypeInv, PageStays, ShownTyped

\* A handler with no write left, at the clock again.
LEMMA ProceedOut ==
    ASSUME NEW c \in Calls, NEW call \in Call, Fresh(c, call.adds),
           NEW pc \in {"load", "total"}, Proceed(c, call, pc), UNCHANGED born,
           pc = "total" =>
              \/ call.list = cache.phrases
              \/ call.list = {} /\ calls[c].pc \in {"remove_first", "remove_rest"}
    PROVE  OutFree(c)
<1> DEFINE next == [call EXCEPT !.pc = pc]
<1>1. /\ next \in Call /\ next.pc = pc /\ next.adds = call.adds /\ next.list = call.list
      /\ next # Idle
  <2>1. /\ next \in Call /\ next.pc = pc /\ next.adds = call.adds /\ next.list = call.list
    BY DEF Call, AtClock, AtWrite
  <2> QED BY <2>1 DEF Idle
<1>2. calls' = [calls EXCEPT ![c] = next] /\ writes' = Unanswered(c) /\ UNCHANGED cache
  BY DEF Proceed
<1> HIDE DEF next
<1>3. Free(c, next)
  BY <1>1, <1>2 DEF Free
<1> QED BY <1>1, <1>3 DEF OutFree

LEMMA ReturnOut ==
    ASSUME NEW c \in Calls, Return(c), UNCHANGED born,
           \/ calls[c].pc = "total" /\ shown' = calls[c].list
           \/ /\ calls[c].pc \in {"remove_first", "remove_rest"}
              /\ stale' \/ shown' = {}
    PROVE  OutFree(c)
<1>1. Free(c, Idle)
  BY DEF Return, Free
<1>2. Idle.pc = "idle"
  BY DEF Idle
<1> QED BY <1>1, <1>2 DEF OutFree

LEMMA CheckOut ==
    ASSUME Inv, NEW c \in Calls, NEW call \in Call, Fresh(c, call.adds), CheckExpiration(c, call)
    PROVE  (OutClear(c) \/ (OutFree(c) /\ ~hasCrossed4AM)) /\ ShownTyped
<1>1. ASSUME hasCrossed4AM, Clear(c, call, "check"), UNCHANGED born PROVE OutClear(c)
  BY <1>1 DEF OutClear
<1>2. ASSUME Proceed(c, call, "load"), UNCHANGED born PROVE OutFree(c)
  BY <1>2, ProceedOut
<1> QED BY <1>1, <1>2, StaysTyped DEF CheckExpiration

\* What is shown, when the list is.
LEMMA ShowOut ==
    ASSUME Inv, NEW c \in Calls, calls[c] \in Call, Fresh(c, calls[c].adds), UNCHANGED born,
           NEW outdated \in BOOLEAN, ShowList(c, outdated),
           \/ calls[c].pc = "total"
           \/ /\ calls[c].pc \in {"remove_first", "remove_rest"}
              /\ outdated \/ calls[c].list = {}
    PROVE  OutFree(c) /\ ShownTyped
<1> DEFINE last == [calls[c] EXCEPT !.again = FALSE]
<1>1. last \in Call /\ last.adds = calls[c].adds
  BY DEF Call
<1>2. /\ shown' = calls[c].list /\ stale' = outdated
      /\ Proceed(c, last, "load") \/ Return(c)
  BY DEF ShowList, SetState
<1>3. ShownTyped
  BY <1>2 DEF ShownTyped, Call
<1> HIDE DEF last
<1>4. CASE Proceed(c, last, "load")
  BY <1>1, <1>3, <1>4, ProceedOut
<1>5. CASE Return(c)
  BY <1>2, <1>3, <1>5, ReturnOut
<1> QED BY <1>2, <1>4, <1>5

\* What follows a clear.
LEMMA ClearedOut ==
    ASSUME Inv, NEW c \in Calls, calls[c].pc \in {"remove_first", "remove_rest"}, Cleared(c)
    PROVE  (OutPut(c) \/ OutFree(c)) /\ ShownTyped
<1>1. /\ calls[c] \in Call /\ Fresh(c, calls[c].adds)
      /\ calls[c].for = "add" => \A p \in calls[c].adds : born[p] = 0
  BY DEF Inv, QueueInv, AddsInv, Idle
<1>2. CASE UNCHANGED born /\ CheckedEmpty(c)
  <2>1. Proceed(c, calls[c], "load") /\ shown' = {} /\ stale' = FALSE
    BY <1>2 DEF CheckedEmpty, SetState
  <2> QED BY <1>1, <1>2, <2>1, ProceedOut DEF ShownTyped
<1>3. CASE UNCHANGED born /\ Proceed(c, [calls[c] EXCEPT !.list = {}], "total") /\ PageStays
  <2> DEFINE call == [calls[c] EXCEPT !.list = {}]
  <2>1. call \in Call /\ call.adds = calls[c].adds /\ call.list = {}
    BY <1>1 DEF Call
  <2>2. Proceed(c, call, "total")
    BY <1>3
  <2> HIDE DEF call
  <2> QED BY <1>1, <1>3, <2>1, <2>2, ProceedOut, StaysTyped
<1>4. CASE UNCHANGED born /\ ShowList(c, calls[c].list # {})
  BY <1>1, <1>4, ShowOut
<1>5. CASE UNCHANGED born /\ ResetPage(c)
  <2>1. Return(c) /\ shown' = {} /\ stale' = FALSE
    BY <1>5 DEF ResetPage, SetState
  <2> QED BY <1>5, <2>1, ReturnOut DEF ShownTyped
<1>6. CASE calls[c].for = "add" /\ Put(c, calls[c], {}) /\ PageStays
  BY <1>1, <1>6, StaysTyped DEF OutPut
<1> QED BY <1>2, <1>3, <1>4, <1>5, <1>6 DEF Cleared

\* The handler at the clock.
LEMMA GoOnOut ==
    ASSUME Inv, NEW c \in Calls, GoOn(c)
    PROVE  /\ calls[c].pc \in {"load", "total"} /\ running
           /\ (OutClear(c) \/ OutFree(c)) /\ ShownTyped
           /\ UNCHANGED <<day, running, disk, starts, checked, torn>>
<1>1. calls[c].pc \in {"load", "total"}
  BY DEF GoOn
<1>2. calls[c] # Idle /\ calls[c] \in Call /\ Fresh(c, calls[c].adds) /\ running
  BY <1>1 DEF Idle, Inv, QueueInv, AddsInv, HandlersInv
<1>3. CASE LoadPhrases(c)
  <2> DEFINE call == [calls[c] EXCEPT !.list = cache.phrases]
  <2>1. call \in Call /\ call.adds = calls[c].adds /\ call.list = cache.phrases
    BY <1>2 DEF Call, Inv, TypeInv, Store
  <2>2. \/ hasCrossed4AM /\ Clear(c, calls[c], "load")
        \/ Proceed(c, call, "total")
    BY <1>3 DEF LoadPhrases
  <2>3. PageStays /\ UNCHANGED born
    BY <1>3 DEF LoadPhrases
  <2> HIDE DEF call
  <2>4. ASSUME hasCrossed4AM, Clear(c, calls[c], "load") PROVE OutClear(c)
    BY <1>2, <2>3, <2>4 DEF OutClear
  <2>5. ASSUME Proceed(c, call, "total") PROVE OutFree(c)
    BY <1>2, <2>1, <2>3, <2>5, ProceedOut
  <2> QED BY <1>1, <1>2, <2>2, <2>3, <2>4, <2>5, StaysTyped DEF GoOn
<1>4. CASE calls[c].pc = "total" /\ CountPhrases(c)
  <2>1. CASE hasCrossed4AM /\ Clear(c, calls[c], "total") /\ PageStays /\ UNCHANGED born
    BY <1>1, <1>2, <2>1, StaysTyped DEF OutClear, GoOn
  <2>2. CASE ShowList(c, FALSE) /\ UNCHANGED born
    BY <1>1, <1>2, <1>4, <2>2, ShowOut DEF GoOn
  <2> QED BY <1>4, <2>1, <2>2 DEF CountPhrases
<1> QED BY <1>3, <1>4 DEF GoOn

Starts(c) ==
    Resume(c) \/ Reset(c) \/ StartInit(c) \/ GoOn(c) \/ \E p \in Phrases : SubmitText(c, p)

\* What starts a handler, on a free slot or when the clock is read.
LEMMA StartOut ==
    ASSUME Inv, NEW c \in Calls, Starts(c)
    PROVE  /\ ~Waits(c) /\ running /\ UNCHANGED <<day, running, disk, starts, torn>>
           /\ checked' \in {checked, day} /\ ShownTyped
           /\ OutClear(c) \/ OutPut(c) \/ OutFree(c)
           /\ \/ checked' = day /\ (OutClear(c) \/ (OutFree(c) /\ ~hasCrossed4AM))
              \/ checked' = checked /\ calls[c].pc # "start"
<1>1. ASSUME NEW for \in {"check", "add", "reset"}, NEW adds \in SUBSET Phrases
      PROVE  /\ Called(for, adds, FALSE) \in Call
             /\ Called(for, adds, FALSE).adds = adds /\ Called(for, adds, FALSE).for = for
  <2>1. {} \in SUBSET Phrases /\ "start" \in AtClock \cup AtWrite
    BY DEF AtClock
  <2> QED BY <2>1 DEF Called, Call
<1>2. Ready(c) => ~Waits(c) /\ running /\ calls[c].pc # "start"
  BY DEF Ready, Waits, Idle, AtWrite
<1>3. Fresh(c, {})
  BY DEF Fresh
<1>4. CASE Resume(c)
  <2> DEFINE call == Called("check", {}, FALSE)
  <2>1. CheckExpiration(c, call)
    BY <1>4 DEF Resume
  <2>2. call \in Call /\ call.adds = {}
    BY <1>1
  <2> HIDE DEF call
  <2>3. (OutClear(c) \/ (OutFree(c) /\ ~hasCrossed4AM)) /\ ShownTyped
    BY <1>3, <2>1, <2>2, CheckOut
  <2> QED BY <1>2, <1>4, <2>3 DEF Resume
<1>5. CASE Reset(c)
  <2> DEFINE call == Called("reset", {}, FALSE)
  <2>1. Clear(c, call, "reset") /\ PageStays /\ UNCHANGED born
    BY <1>5 DEF Reset, PageStays
  <2>2. call \in Call /\ call.adds = {}
    BY <1>1
  <2> HIDE DEF call
  <2>3. OutClear(c) /\ ShownTyped
    BY <1>3, <2>1, <2>2, StaysTyped DEF OutClear
  <2> QED BY <1>2, <1>5, <2>3 DEF Reset
<1>6. CASE StartInit(c)
  <2>1. calls[c].pc = "start" /\ CheckExpiration(c, calls[c])
    BY <1>6 DEF StartInit
  <2>2. calls[c] # Idle /\ calls[c] \in Call /\ Fresh(c, calls[c].adds) /\ running
    BY <2>1 DEF Idle, Inv, QueueInv, AddsInv, HandlersInv
  <2>3. (OutClear(c) \/ (OutFree(c) /\ ~hasCrossed4AM)) /\ ShownTyped
    BY <2>1, <2>2, CheckOut
  <2>4. ~Waits(c)
    BY <2>1 DEF Waits, AtWrite
  <2> QED BY <1>6, <2>2, <2>3, <2>4 DEF StartInit
<1>7. ASSUME NEW p \in Phrases, SubmitText(c, p)
      PROVE  (OutClear(c) \/ OutPut(c)) /\ ShownTyped /\ ~Waits(c) /\ running
             /\ calls[c].pc # "start"
             /\ UNCHANGED <<day, running, disk, starts, torn>> /\ checked' = checked
  <2> DEFINE call == Called("add", {p}, FALSE)
  <2>1. call \in Call /\ call.adds = {p} /\ call.for = "add"
    BY <1>1
  <2>2. /\ Ready(c) /\ AddPhrase(c, call) /\ born[p] = 0
        /\ \A d \in Calls : calls[d] # Idle => p \notin calls[d].adds
        /\ UNCHANGED <<day, running, disk, starts, torn>> /\ checked' = checked
    BY <1>7 DEF SubmitText
  <2> HIDE DEF call
  <2>3. Fresh(c, call.adds) /\ \A q \in call.adds : born[q] = 0
    BY <2>1, <2>2 DEF Fresh
  <2>4. CASE hasCrossed4AM /\ Clear(c, call, "add") /\ PageStays /\ UNCHANGED born
    BY <1>2, <2>1, <2>2, <2>3, <2>4, StaysTyped DEF OutClear
  <2>5. CASE ~hasCrossed4AM /\ Put(c, call, cache.phrases) /\ PageStays
    BY <1>2, <2>1, <2>2, <2>3, <2>5, StaysTyped DEF OutPut
  <2> QED BY <2>2, <2>4, <2>5 DEF AddPhrase
<1>8. CASE GoOn(c)
  BY <1>8, GoOnOut DEF Waits, AtWrite
<1> QED BY <1>4, <1>5, <1>6, <1>7, <1>8 DEF Starts

\* The platform answers: the write is done, or it failed.
AnswerDone(c) ==
    /\ torn' = torn
    /\ disk' = [disk EXCEPT ![Head(writes).key] = Head(writes).value]
    /\ \/ OutRest(c)
       \/ calls[c].pc = "remove_rest" /\ (OutPut(c) \/ OutFree(c))
       \/ OutStamp(c)
       \/ calls[c].pc = "stamp" /\ OutFree(c)

AnswerFailed(c) ==
    /\ torn' = TRUE /\ disk' = disk
    /\ OutRest(c) \/ OutPut(c) \/ OutStamp(c) \/ OutFree(c)

LEMMA AnswerOut ==
    ASSUME Inv, NEW c \in Calls, Answer(c)
    PROVE  /\ Answered(c) /\ UNCHANGED <<day, running, starts, checked>> /\ ShownTyped
           /\ AnswerDone(c) \/ AnswerFailed(c)
<1>1. Answered(c) /\ Waits(c)
  BY HeadOfLine DEF Answer, Answered, Inv
<1>2. calls[c] # Idle /\ calls[c] \in Call /\ Fresh(c, calls[c].adds)
  <2>1. calls[c] # Idle
    BY <1>1 DEF Waits, AtWrite, Idle
  <2> QED BY <2>1 DEF Inv, QueueInv, AddsInv
<1>3. ASSUME Goes(c)
      PROVE  /\ ShownTyped
             /\ \/ OutRest(c)
                \/ calls[c].pc = "remove_rest" /\ (OutPut(c) \/ OutFree(c))
                \/ OutStamp(c)
                \/ calls[c].pc = "stamp" /\ OutFree(c)
  <2>1. CASE calls[c].pc = "remove_first" /\ RemoveRest(c) /\ PageStays /\ UNCHANGED born
    BY <2>1, StaysTyped DEF OutRest
  <2>2. CASE calls[c].pc = "remove_rest" /\ Cleared(c)
    BY <2>2, ClearedOut
  <2>3. CASE calls[c].pc = "put" /\ Stamp(c) /\ PageStays /\ UNCHANGED born
    BY <2>3, StaysTyped DEF OutStamp
  <2>4. CASE calls[c].pc = "stamp" /\ Proceed(c, calls[c], "load") /\ PageStays /\ UNCHANGED born
    BY <1>2, <2>4, ProceedOut, StaysTyped
  <2> QED BY <1>3, <2>1, <2>2, <2>3, <2>4 DEF Goes
<1>4. ASSUME Catches(c) PROVE ShownTyped /\ (OutPut(c) \/ OutFree(c))
  <2>1. CASE calls[c].pc \in {"remove_first", "remove_rest"} /\ Cleared(c)
    BY <2>1, ClearedOut
  <2>2. CASE /\ calls[c].pc \in {"put", "stamp"}
             /\ Proceed(c, calls[c], "load") /\ PageStays /\ UNCHANGED born
    BY <1>2, <2>2, ProceedOut, StaysTyped
  <2> QED BY <1>4, <2>1, <2>2 DEF Catches
<1>5. UNCHANGED <<day, running, starts, checked>>
  BY DEF Answer
<1>6. CASE /\ disk' = [disk EXCEPT ![Head(writes).key] = Head(writes).value]
           /\ Goes(c) /\ UNCHANGED torn
  BY <1>1, <1>3, <1>5, <1>6 DEF AnswerDone
<1>7. CASE (Goes(c) \/ Catches(c)) /\ torn' = TRUE /\ UNCHANGED disk
  BY <1>1, <1>3, <1>4, <1>5, <1>7 DEF AnswerFailed
<1> QED BY <1>6, <1>7 DEF Answer

-----------------------------------------------------------------------------
(* What each way of going on does.                                           *)

Goer(c) == ~Waits(c) \/ Answered(c)

\* Everybody but c stays as they are.
Moved(c) ==
    /\ QueueInv'
    /\ \A a \in Calls \ {c} : calls'[a] = calls[a]
    /\ \A a, b \in Calls \ {c} : Before(a, b)' <=> Before(a, b)
    /\ \A a \in Calls \ {c} : \A k, v : Pending(a, k, v)' <=> Pending(a, k, v)

LastIs(c) ==
    /\ \A a \in Calls \ {c} : Waits(a) => Before(a, c)'
    /\ \A a \in Calls : ~Before(c, a)'

Adds(c) ==
    /\ Fresh(c, calls'[c].adds)
    /\ calls'[c].for = "add" /\ calls'[c].pc \in {"remove_first", "remove_rest"} =>
          \A p \in calls'[c].adds : born[p] = 0

LEMMA ClearFacts ==
    ASSUME Inv, NEW c \in Calls, Goer(c), OutClear(c)
    PROVE  /\ Moved(c) /\ LastIs(c) /\ Adds(c) /\ born' = born
           /\ calls'[c].pc = "remove_first" /\ Pending(c, "phrases", {})'
           /\ cache' \in Store /\ cache'.phrases = {} /\ cache'.time = cache.time
           /\ hasCrossed4AM \/ calls'[c].for = "reset"
<1>1. PICK call \in Call, for \in {"check", "load", "total", "add", "reset"} :
         /\ Clear(c, call, for) /\ born' = born /\ Fresh(c, call.adds)
         /\ for = "add" => \A p \in call.adds : born[p] = 0
         /\ hasCrossed4AM \/ for = "reset"
  BY DEF OutClear
<1> DEFINE asked == [call EXCEPT !.for = for]
<1>2. asked \in Call /\ asked.for = for /\ asked.adds = call.adds
  BY DEF Call
<1>3. Write(c, asked, "remove_first", "phrases", {})
  BY <1>1 DEF Clear, Remove, ClearOrder, Nothing
<1> HIDE DEF asked
<1>4. QueueInv /\ "remove_first" \in AtWrite /\ {} \in (SUBSET Phrases) \cup {0} \cup Days
  BY DEF Inv, AtWrite
<1>5. /\ Moved(c) /\ LastIs(c)
      /\ calls'[c].pc = "remove_first" /\ Pending(c, "phrases", {})'
      /\ calls'[c].for = for /\ calls'[c].adds = call.adds
  BY <1>2, <1>3, <1>4, WriteLine DEF Goer, Moved, LastIs
<1>6. cache' = [cache EXCEPT !["phrases"] = {}]
  BY <1>3 DEF Write
<1>7. cache' \in Store /\ cache'.phrases = {} /\ cache'.time = cache.time
  BY <1>6 DEF Inv, TypeInv, Store
<1>8. Adds(c)
  BY <1>1, <1>5 DEF Adds
<1> QED BY <1>1, <1>5, <1>7, <1>8

LEMMA RestFacts ==
    ASSUME Inv, NEW c \in Calls, Goer(c), OutRest(c)
    PROVE  /\ Moved(c) /\ LastIs(c) /\ Adds(c) /\ born' = born
           /\ calls'[c].pc = "remove_rest" /\ Pending(c, "time", 0)'
           /\ cache' \in Store /\ cache'.phrases = cache.phrases /\ cache'.time = 0
<1>1. calls[c] # Idle /\ calls[c] \in Call
  BY DEF OutRest, Inv, QueueInv, Idle
<1>2. Write(c, calls[c], "remove_rest", "time", 0)
  BY DEF OutRest, RemoveRest, Remove, ClearOrder, Nothing
<1>3. QueueInv /\ "remove_rest" \in AtWrite /\ 0 \in (SUBSET Phrases) \cup {0} \cup Days
  BY DEF Inv, AtWrite
<1>4. /\ Moved(c) /\ LastIs(c)
      /\ calls'[c].pc = "remove_rest" /\ Pending(c, "time", 0)'
      /\ calls'[c].for = calls[c].for /\ calls'[c].adds = calls[c].adds
  <2>1. PICK call \in Call, v \in {0} \cup Days : call = calls[c] /\ v = 0
    BY <1>1 DEF Inv, TypeInv
  <2>2. Write(c, call, "remove_rest", "time", v)
    BY <1>2, <2>1
  <2>3. v \in (SUBSET Phrases) \cup {0} \cup Days
    BY <2>1
  <2>4. /\ Moved(c) /\ LastIs(c)
        /\ calls'[c].pc = "remove_rest" /\ Pending(c, "time", v)'
        /\ calls'[c].for = call.for /\ calls'[c].adds = call.adds
    BY <1>3, <2>2, <2>3, WriteLine DEF Goer, Moved, LastIs
  <2> QED BY <2>1, <2>4
<1>5. cache' = [cache EXCEPT !["time"] = 0]
  BY <1>2 DEF Write
<1>6. cache' \in Store /\ cache'.phrases = cache.phrases /\ cache'.time = 0
  BY <1>5 DEF Inv, TypeInv, Store
<1>7. Adds(c)
  BY <1>1, <1>4 DEF Adds, OutRest, Inv, AddsInv
<1> QED BY <1>4, <1>6, <1>7 DEF OutRest

LEMMA StampFacts ==
    ASSUME Inv, NEW c \in Calls, Goer(c), OutStamp(c)
    PROVE  /\ Moved(c) /\ LastIs(c) /\ Adds(c) /\ born' = born
           /\ calls[c].pc = "put" /\ calls'[c].pc = "stamp" /\ calls'[c].for = "add"
           /\ Holds(writes', c, "time", day)
           /\ cache' \in Store /\ cache'.phrases = cache.phrases /\ cache'.time = day
<1>1. calls[c] # Idle /\ calls[c] \in Call /\ calls[c].for = "add"
  BY DEF OutStamp, Inv, QueueInv, HandlersInv, Idle
<1>2. Write(c, calls[c], "stamp", "time", day)
  BY DEF OutStamp, Stamp
<1>3. QueueInv /\ "stamp" \in AtWrite /\ day \in (SUBSET Phrases) \cup {0} \cup Days
  BY DEF Inv, TypeInv, AtWrite
<1>4. /\ Moved(c) /\ LastIs(c)
      /\ calls'[c].pc = "stamp" /\ Holds(writes', c, "time", day)
      /\ calls'[c].for = calls[c].for /\ calls'[c].adds = calls[c].adds
  <2>1. PICK call \in Call, v \in {0} \cup Days : call = calls[c] /\ v = day
    BY <1>1 DEF Inv, TypeInv
  <2>2. Write(c, call, "stamp", "time", v)
    BY <1>2, <2>1
  <2>3. v \in (SUBSET Phrases) \cup {0} \cup Days
    BY <2>1
  <2>4. /\ Moved(c) /\ LastIs(c)
        /\ calls'[c].pc = "stamp" /\ Holds(writes', c, "time", v)
        /\ calls'[c].for = call.for /\ calls'[c].adds = call.adds
    BY <1>3, <2>2, <2>3, WriteLine DEF Goer, Moved, LastIs, Pending
  <2> QED BY <2>1, <2>4
<1>5. cache' = [cache EXCEPT !["time"] = day]
  BY <1>2 DEF Write
<1>6. cache' \in Store /\ cache'.phrases = cache.phrases /\ cache'.time = day
  BY <1>5 DEF Inv, TypeInv, Store
<1>7. Adds(c)
  BY <1>1, <1>4 DEF Adds, Inv, AddsInv
<1> QED BY <1>1, <1>4, <1>6, <1>7 DEF OutStamp

LEMMA FreeFacts ==
    ASSUME Inv, NEW c \in Calls, Goer(c), OutFree(c)
    PROVE  /\ Moved(c) /\ born' = born /\ cache' = cache
           /\ calls'[c] = Idle \/ Adds(c)
           /\ calls'[c].pc \in {"idle", "load", "total"}
           /\ calls'[c].pc = "total" =>
                 \/ calls'[c].list = cache.phrases
                 \/ calls'[c].list = {} /\ calls[c].pc \in {"remove_first", "remove_rest"}
           /\ calls'[c].pc = "idle" =>
                 \/ calls[c].pc = "total" /\ shown' = calls[c].list
                 \/ /\ calls[c].pc \in {"remove_first", "remove_rest"}
                    /\ stale' \/ shown' = {}
<1>1. PICK call \in Call \cup {Idle} :
         /\ Free(c, call) /\ born' = born
         /\ call = Idle \/ Fresh(c, call.adds)
         /\ call = Idle =>
               \/ calls[c].pc = "total" /\ shown' = calls[c].list
               \/ /\ calls[c].pc \in {"remove_first", "remove_rest"}
                  /\ stale' \/ shown' = {}
         /\ call.pc = "total" =>
               \/ call.list = cache.phrases
               \/ call.list = {} /\ calls[c].pc \in {"remove_first", "remove_rest"}
  BY DEF OutFree
<1>2. Moved(c) /\ calls'[c] = call
  BY <1>1, FreeLine DEF Inv, Goer, Moved
<1>3. call = Idle \/ call.pc \in {"load", "total"}
  BY <1>1 DEF Free
<1>4. Idle.pc = "idle"
  BY DEF Idle
<1>5. calls'[c] = Idle \/ Adds(c)
  BY <1>1, <1>2, <1>3 DEF Adds
<1> QED BY <1>1, <1>2, <1>3, <1>4, <1>5 DEF Free

\* A phrase that is put is new, and with those it joins of today.
LEMMA PutFacts ==
    ASSUME Inv, NEW c \in Calls, Goer(c), OutPut(c)
    PROVE  /\ Moved(c) /\ LastIs(c) /\ Adds(c)
           /\ calls'[c].pc = "put" /\ calls'[c].for = "add"
           /\ born' \in [Phrases -> {0} \cup Days]
           /\ \A p \in Phrases : born[p] # 0 \/ p \notin calls'[c].adds => born'[p] = born[p]
           /\ cache' \in Store /\ cache'.time = cache.time
           /\ Holds(writes', c, "phrases", cache'.phrases)
           /\ \A p \in cache'.phrases : born'[p] # 0 /\ (~torn => born'[p] = day)
           /\ \/ calls[c].pc \in {"remove_first", "remove_rest"} /\ calls[c].for = "add"
              \/ cache.phrases \subseteq cache'.phrases /\ ~hasCrossed4AM
<1>1. PICK call \in Call, existing \in {{}, cache.phrases} :
         /\ Put(c, call, existing)
         /\ call.for = "add" /\ Fresh(c, call.adds)
         /\ \A p \in call.adds : born[p] = 0
         /\ \/ calls[c].pc \in {"remove_first", "remove_rest"} /\ calls[c].for = "add"
            \/ existing = cache.phrases /\ ~hasCrossed4AM
         /\ existing = {} \/ ~hasCrossed4AM
  BY DEF OutPut
<1> DEFINE ps == existing \cup call.adds
<1>2. call.adds \subseteq Phrases /\ existing \subseteq Phrases
  BY DEF Call, Inv, TypeInv, Store
<1>3. Write(c, call, "put", "phrases", ps)
  BY <1>1 DEF Put
<1>4. QueueInv /\ "put" \in AtWrite /\ ps \in (SUBSET Phrases) \cup {0} \cup Days
  BY <1>2 DEF Inv, AtWrite
<1>5. cache' = [cache EXCEPT !["phrases"] = ps]
  BY <1>3 DEF Write
<1>6. cache' \in Store /\ cache'.phrases = ps /\ cache'.time = cache.time
  BY <1>2, <1>5 DEF Inv, TypeInv, Store
<1>7. /\ Moved(c) /\ LastIs(c)
      /\ calls'[c].pc = "put" /\ Holds(writes', c, "phrases", ps)
      /\ calls'[c].for = "add" /\ calls'[c].adds = call.adds
  <2>1. PICK v \in (SUBSET Phrases) \cup {0} \cup Days : v = ps
    BY <1>4
  <2>2. Write(c, call, "put", "phrases", v)
    BY <1>3, <2>1
  <2>3. /\ Moved(c) /\ LastIs(c)
        /\ calls'[c].pc = "put" /\ Holds(writes', c, "phrases", v)
        /\ calls'[c].for = call.for /\ calls'[c].adds = call.adds
    BY <1>4, <2>2, WriteLine DEF Goer, Moved, LastIs, Pending
  <2> QED BY <1>1, <2>1, <2>3
<1>8. born' = [p \in Phrases |-> IF p \in call.adds THEN day ELSE born[p]]
  BY <1>1 DEF Put, Born
<1>9. day \in Days /\ day # 0
  BY DEF Inv, TypeInv, Days
<1>10. \A p \in existing : born[p] # 0 /\ (~torn => born[p] = day)
  <2>1. CASE existing = {}
    BY <2>1
  <2>2. CASE existing = cache.phrases /\ existing # {} /\ ~hasCrossed4AM
    <3>1. \A p \in existing : born[p] # 0
      BY <2>2 DEF Inv, BornInv
    <3>2. cache.time = 0 \/ cache.time = day
      BY <2>2 DEF hasCrossed4AM
    <3>3. ASSUME ~torn, NEW p \in existing PROVE born[p] = day
      BY <2>2, <3>2, <3>3 DEF Inv, CacheInv, PutsToday
    <3> QED BY <3>1, <3>3
  <2> QED BY <1>1, <2>1, <2>2
<1>11. \A p \in ps : born'[p] # 0 /\ (~torn => born'[p] = day)
  BY <1>2, <1>8, <1>9, <1>10
<1>12. born' \in [Phrases -> {0} \cup Days]
  BY <1>8, <1>9 DEF Inv, TypeInv
<1>13. \A p \in Phrases : born[p] # 0 \/ p \notin calls'[c].adds => born'[p] = born[p]
  BY <1>1, <1>7, <1>8
<1>14. Adds(c)
  <2>1. Fresh(c, calls'[c].adds)
    BY <1>1, <1>7
  <2>2. calls'[c].pc \notin {"remove_first", "remove_rest"}
    BY <1>7
  <2> QED BY <2>1, <2>2 DEF Adds
<1>15. \/ calls[c].pc \in {"remove_first", "remove_rest"} /\ calls[c].for = "add"
       \/ cache.phrases \subseteq cache'.phrases /\ ~hasCrossed4AM
  BY <1>1, <1>6
<1> QED BY <1>6, <1>7, <1>11, <1>12, <1>13, <1>14, <1>15

-----------------------------------------------------------------------------
(* A handler that goes on keeps the invariant.                               *)

Outcome(c) == OutClear(c) \/ OutRest(c) \/ OutPut(c) \/ OutStamp(c) \/ OutFree(c)

\* What c waits for, once it has gone on.
Asked(c) ==
    /\ calls'[c].pc = "remove_first" => Pending(c, "phrases", {})'
    /\ calls'[c].pc = "remove_rest" => Pending(c, "time", 0)'
    /\ calls'[c].pc = "put" => Holds(writes', c, "phrases", cache'.phrases)
    /\ calls'[c].pc = "stamp" => Holds(writes', c, "time", day)

LEMMA GoesOn ==
    ASSUME Inv, NEW c \in Calls, Goer(c), Outcome(c)
    PROVE  /\ Moved(c) /\ Asked(c) /\ AddsInv'
           /\ cache' \in Store /\ born' \in [Phrases -> {0} \cup Days]
           /\ \A p \in Phrases : born[p] # 0 => born'[p] = born[p]
           /\ \A p \in cache'.phrases : born'[p] # 0
           /\ \A a \in Calls : calls'[a].pc \in {"put", "stamp"} => calls'[a].for = "add"
<1>1. /\ Moved(c) /\ Asked(c)
      /\ calls'[c] = Idle \/ Adds(c)
      /\ cache' \in Store /\ born' \in [Phrases -> {0} \cup Days]
      /\ calls'[c].pc \in {"put", "stamp"} => calls'[c].for = "add"
  <2>1. CASE OutClear(c)
    BY <2>1, ClearFacts DEF Asked, Inv, TypeInv
  <2>2. CASE OutRest(c)
    BY <2>2, RestFacts DEF Asked, Inv, TypeInv
  <2>3. CASE OutPut(c)
    BY <2>3, PutFacts DEF Asked
  <2>4. CASE OutStamp(c)
    BY <2>4, StampFacts DEF Asked, Inv, TypeInv
  <2>5. CASE OutFree(c)
    BY <2>5, FreeFacts DEF Asked, Inv, TypeInv
  <2> QED BY <2>1, <2>2, <2>3, <2>4, <2>5 DEF Outcome
<1>2. /\ \A p \in Phrases : born[p] # 0 => born'[p] = born[p]
      /\ \A p \in Phrases : (calls'[c] # Idle /\ p \in calls'[c].adds) \/ born'[p] = born[p]
      /\ \A p \in cache'.phrases : born'[p] # 0
      /\ calls'[c].pc \in {"remove_first", "remove_rest"} => born' = born
  <2>1. CASE OutClear(c)
    BY <2>1, ClearFacts DEF Inv, BornInv
  <2>2. CASE OutRest(c)
    BY <2>2, RestFacts DEF Inv, BornInv
  <2>3. CASE OutPut(c)
    <3>1. /\ calls'[c].pc = "put"
          /\ \A p \in Phrases : born[p] # 0 \/ p \notin calls'[c].adds => born'[p] = born[p]
          /\ \A p \in cache'.phrases : born'[p] # 0
      BY <2>3, PutFacts
    <3>2. calls'[c] # Idle
      BY <3>1 DEF Idle
    <3> QED BY <3>1, <3>2
  <2>4. CASE OutStamp(c)
    BY <2>4, StampFacts DEF Inv, BornInv
  <2>5. CASE OutFree(c)
    BY <2>5, FreeFacts DEF Inv, BornInv, Idle
  <2> QED BY <2>1, <2>2, <2>3, <2>4, <2>5 DEF Outcome
<1>3. AddsInv'
  <2> SUFFICES ASSUME NEW a \in Calls, calls'[a] # Idle
               PROVE  /\ \A d \in Calls \ {a} : calls'[d] # Idle =>
                             calls'[d].adds \cap calls'[a].adds = {}
                      /\ calls'[a].for = "add" /\ calls'[a].pc \in {"remove_first", "remove_rest"} =>
                             \A p \in calls'[a].adds : born'[p] = 0
    BY DEF AddsInv, Fresh
  <2>1. CASE a = c
    <3>1. Adds(c) /\ \A d \in Calls \ {c} : calls'[d] = calls[d]
      BY <1>1, <2>1 DEF Moved
    <3> QED BY <1>2, <2>1, <3>1 DEF Adds, Fresh
  <2>2. CASE a # c
    <3>1. calls'[a] = calls[a] /\ calls[a] # Idle /\ \A d \in Calls \ {c} : calls'[d] = calls[d]
      BY <1>1, <2>2 DEF Moved
    <3>2. calls[a].adds \subseteq Phrases
      BY <3>1 DEF Inv, QueueInv, Call
    <3>3. calls'[c] # Idle => calls[a].adds \cap calls'[c].adds = {}
      BY <1>1, <2>2, <3>1 DEF Adds, Fresh
    <3>4. \A p \in calls[a].adds : born'[p] = born[p]
      BY <1>2, <3>2, <3>3
    <3>5. Fresh(a, calls[a].adds)
          /\ (calls[a].for = "add" /\ calls[a].pc \in {"remove_first", "remove_rest"} =>
                \A p \in calls[a].adds : born[p] = 0)
      BY <3>1 DEF Inv, AddsInv
    <3>6. \A d \in Calls \ {a} : calls'[d] # Idle => calls'[d].adds \cap calls[a].adds = {}
      BY <3>1, <3>3, <3>5 DEF Fresh
    <3> QED BY <3>1, <3>4, <3>5, <3>6
  <2> QED BY <2>1, <2>2
<1>4. \A a \in Calls : calls'[a].pc \in {"put", "stamp"} => calls'[a].for = "add"
  BY <1>1 DEF Moved, Inv, HandlersInv
<1> QED BY <1>1, <1>2, <1>3, <1>4

\* The phrases in memory.
LEMMA CacheGoesOn ==
    ASSUME Inv, NEW c \in Calls, Goer(c), Outcome(c), day' = day, ~torn, ~torn',
           OutFree(c) => calls[c].pc # "put"
    PROVE  PutsToday' /\ CacheInv'
<1>1. CASE OutClear(c)
  <2>1. cache'.phrases = {}
    BY <1>1, ClearFacts
  <2> QED BY <2>1 DEF PutsToday, CacheInv
<1>2. CASE OutRest(c)
  <2>1. /\ Moved(c) /\ born' = born /\ calls[c].pc = "remove_first"
        /\ calls'[c].pc = "remove_rest" /\ cache'.phrases = cache.phrases
    BY <1>2, RestFacts DEF OutRest
  <2>2. PutsToday'
    BY <2>1 DEF Inv, PutsToday, Moved
  <2>3. CacheInv'
    <3> SUFFICES ASSUME cache'.phrases # {}
                 PROVE  \E w \in Calls :
                           /\ calls'[w].pc = "put"
                           /\ \A e \in Calls : calls'[e].pc = "remove_first" => Before(e, w)'
      BY DEF CacheInv
    <3>1. PICK w \in Calls : /\ calls[w].pc = "put"
                             /\ \A e \in Calls : calls[e].pc = "remove_first" => Before(e, w)
      BY <2>1 DEF Inv, CacheInv
    <3>2. w # c /\ calls'[w].pc = "put"
      BY <2>1, <3>1 DEF Moved
    <3>3. ASSUME NEW e \in Calls, calls'[e].pc = "remove_first" PROVE Before(e, w)'
      BY <2>1, <3>1, <3>2, <3>3 DEF Moved
    <3> QED BY <3>2, <3>3
  <2> QED BY <2>2, <2>3
<1>3. CASE OutPut(c)
  <2>1. /\ Moved(c) /\ LastIs(c) /\ calls'[c].pc = "put"
        /\ \A p \in cache'.phrases : born'[p] = day
    BY <1>3, PutFacts
  <2>2. PutsToday'
    BY <2>1 DEF PutsToday
  <2>3. ASSUME NEW e \in Calls, calls'[e].pc = "remove_first" PROVE Before(e, c)'
    <3>1. e # c /\ Waits(e)
      BY <2>1, <2>3 DEF Moved, Waits, AtWrite
    <3> QED BY <2>1, <3>1 DEF LastIs
  <2> QED BY <2>1, <2>2, <2>3 DEF CacheInv
<1>4. CASE OutStamp(c)
  <2>1. /\ Moved(c) /\ born' = born /\ calls[c].pc = "put" /\ calls'[c].pc = "stamp"
        /\ cache'.phrases = cache.phrases /\ cache'.time = day
    BY <1>4, StampFacts
  <2>2. PutsToday'
    BY <2>1 DEF Inv, PutsToday, Moved
  <2>3. \A p \in cache.phrases : born[p] = day
    BY <2>1 DEF Inv, PutsToday
  <2>4. day # 0
    BY DEF Inv, TypeInv, Days
  <2>5. Answered(c)
    BY <2>1 DEF Goer, Waits, AtWrite
  <2>6. CacheInv'
    <3> SUFFICES ASSUME cache'.phrases # {}
                 PROVE  \/ \E w \in Calls :
                             /\ calls'[w].pc = "put"
                             /\ \A e \in Calls : calls'[e].pc = "remove_first" => Before(e, w)'
                        \/ \A e \in Calls : calls'[e].pc # "remove_first"
      BY <2>1, <2>3, <2>4 DEF CacheInv
    <3>1. CASE \A e \in Calls : calls[e].pc # "remove_first"
      BY <2>1, <3>1 DEF Moved
    <3>2. ASSUME NEW w \in Calls, calls[w].pc = "put",
                 \A e \in Calls : calls[e].pc = "remove_first" => Before(e, w), w # c
          PROVE  /\ calls'[w].pc = "put"
                 /\ \A e \in Calls : calls'[e].pc = "remove_first" => Before(e, w)'
      BY <2>1, <3>2 DEF Moved
    <3>3. CASE \A e \in Calls : calls[e].pc = "remove_first" => Before(e, c)
      <4>1. \A e \in Calls : ~Before(e, c)
        BY <2>5, HeadOfLine DEF Inv
      <4> QED BY <3>1, <3>3, <4>1
    <3> QED BY <2>1, <3>1, <3>2, <3>3 DEF Inv, CacheInv
  <2> QED BY <2>2, <2>6
<1>5. CASE OutFree(c)
  <2>1. /\ Moved(c) /\ calls'[c].pc \in {"idle", "load", "total"}
        /\ born' = born /\ cache' = cache
    BY <1>5, FreeFacts
  <2>2. PutsToday'
    BY <2>1 DEF Inv, PutsToday, Moved
  <2>3. CacheInv'
    <3> SUFFICES ASSUME cache.phrases # {}
                 PROVE  \/ \E w \in Calls :
                             /\ calls'[w].pc = "put"
                             /\ \A e \in Calls : calls'[e].pc = "remove_first" => Before(e, w)'
                        \/ /\ \A e \in Calls : calls'[e].pc # "remove_first"
                           /\ cache.time # 0
                           /\ \A p \in cache.phrases : born[p] = cache.time
      BY <2>1 DEF CacheInv
    <3>1. CASE /\ \A e \in Calls : calls[e].pc # "remove_first"
               /\ cache.time # 0
               /\ \A p \in cache.phrases : born[p] = cache.time
      BY <2>1, <3>1 DEF Moved
    <3>2. ASSUME NEW w \in Calls, calls[w].pc = "put",
                 \A e \in Calls : calls[e].pc = "remove_first" => Before(e, w)
          PROVE  /\ calls'[w].pc = "put"
                 /\ \A e \in Calls : calls'[e].pc = "remove_first" => Before(e, w)'
      <4>1. w # c
        BY <1>5, <3>2
      <4> QED BY <2>1, <3>2, <4>1 DEF Moved
    <3> QED BY <3>1, <3>2 DEF Inv, CacheInv
  <2> QED BY <2>2, <2>3
<1> QED BY <1>1, <1>2, <1>3, <1>4, <1>5 DEF Outcome

\* What an answer stores.
LEMMA DoneFacts ==
    ASSUME Inv, NEW c \in Calls, Answered(c), AnswerDone(c)
    PROVE  /\ disk' \in Store
           /\ \A p \in disk'.phrases : born[p] # 0
           /\ \/ OutRest(c) /\ disk'.phrases = {}
              \/ /\ calls[c].pc = "remove_rest" /\ (OutPut(c) \/ OutFree(c))
                 /\ disk'.phrases = disk.phrases
              \/ OutStamp(c) /\ (~torn => \A p \in disk'.phrases : born[p] = day)
              \/ /\ calls[c].pc = "stamp" /\ OutFree(c)
                 /\ disk'.phrases = disk.phrases /\ disk'.time \in Days
                 /\ ~torn => \A p \in disk.phrases : born[p] = disk'.time
<1>1. /\ QueueInv /\ Pending(c, Head(writes).key, Head(writes).value)
      /\ disk' = [disk EXCEPT ![Head(writes).key] = Head(writes).value]
      /\ disk \in Store /\ \A p \in disk.phrases : born[p] # 0
  BY HeadOfLine DEF Inv, TypeInv, BornInv, AnswerDone
<1>2. ASSUME NEW k, NEW v, Pending(c, k, v) PROVE disk' = [disk EXCEPT ![k] = v]
  BY <1>1, <1>2, OnePending
<1>3. ASSUME NEW ps \in SUBSET Phrases, Pending(c, "phrases", ps)
      PROVE  disk' \in Store /\ disk'.phrases = ps
  <2>1. disk' = [disk EXCEPT !["phrases"] = ps]
    BY <1>2, <1>3
  <2> QED BY <1>1, <2>1 DEF Store
<1>4. ASSUME NEW d \in {0} \cup Days, Pending(c, "time", d)
      PROVE  disk' \in Store /\ disk'.phrases = disk.phrases /\ disk'.time = d
  <2>1. disk' = [disk EXCEPT !["time"] = d]
    BY <1>2, <1>4
  <2> QED BY <1>1, <2>1 DEF Store
<1>5. CASE OutRest(c)
  <2>1. Pending(c, "phrases", {})
    BY <1>5 DEF OutRest, Inv, WrittenInv
  <2>2. disk' \in Store /\ disk'.phrases = {}
    BY <1>3, <2>1
  <2> QED BY <1>5, <2>2
<1>6. CASE calls[c].pc = "remove_rest" /\ (OutPut(c) \/ OutFree(c))
  <2>1. Pending(c, "time", 0)
    BY <1>6 DEF Inv, WrittenInv
  <2>2. disk' \in Store /\ disk'.phrases = disk.phrases
    BY <1>4, <2>1
  <2> QED BY <1>1, <1>6, <2>2
<1>7. CASE OutStamp(c)
  <2>1. PICK ps \in SUBSET Phrases :
           Pending(c, "phrases", ps) /\ \A p \in ps : born[p] # 0 /\ (~torn => born[p] = day)
    BY <1>7 DEF OutStamp, Inv, WrittenInv
  <2>2. disk' \in Store /\ disk'.phrases = ps
    BY <1>3, <2>1
  <2> QED BY <1>7, <2>1, <2>2
<1>8. CASE calls[c].pc = "stamp" /\ OutFree(c)
  <2>1. PICK d \in Days :
           Pending(c, "time", d) /\ (~torn => \A p \in disk.phrases : born[p] = d)
    BY <1>8 DEF Inv, WrittenInv
  <2>2. disk' \in Store /\ disk'.phrases = disk.phrases /\ disk'.time = d
    BY <1>4, <2>1
  <2> QED BY <1>1, <1>8, <2>1, <2>2
<1> QED BY <1>5, <1>6, <1>7, <1>8 DEF AnswerDone

\* The ways a handler and the disk go on together, when nothing fails.
Goes1(c) == ~Waits(c) /\ disk' = disk /\ (OutClear(c) \/ OutPut(c) \/ OutFree(c))
Goes2(c) == Answered(c) /\ OutRest(c) /\ disk'.phrases = {}
Goes3(c) == /\ Answered(c) /\ calls[c].pc = "remove_rest"
            /\ OutPut(c) \/ OutFree(c)
            /\ disk'.phrases = disk.phrases
Goes4(c) == Answered(c) /\ OutStamp(c) /\ \A p \in disk'.phrases : born[p] = day
Goes5(c) == /\ Answered(c) /\ calls[c].pc = "stamp" /\ OutFree(c)
            /\ disk'.phrases = disk.phrases /\ disk'.time \in Days
            /\ \A p \in disk.phrases : born[p] = disk'.time

\* What is stored.
LEMMA DiskGoesOn ==
    ASSUME Inv, NEW c \in Calls, day' = day, ~torn, ~torn', disk' \in Store,
           Goes1(c) \/ Goes2(c) \/ Goes3(c) \/ Goes4(c) \/ Goes5(c)
    PROVE  /\ DiskInv' /\ ClearsInv' /\ StampsInv'
           /\ \A a \in Calls : calls'[a].pc = "stamp" =>
                 \E d \in Days : /\ Pending(a, "time", d)'
                                 /\ \A p \in disk'.phrases : born'[p] = d
<1>1. Goer(c) /\ Outcome(c)
  BY DEF Goes1, Goes2, Goes3, Goes4, Goes5, Goer, Outcome
<1>2. /\ Moved(c) /\ Asked(c)
      /\ \A p \in Phrases : born[p] # 0 => born'[p] = born[p]
  BY <1>1, GoesOn
<1>3. \A a \in Calls \ {c} : calls'[a] = calls[a]
  BY <1>2 DEF Moved
<1>4. /\ Goes1(c) \/ Goes3(c) =>
            calls'[c].pc \in {"remove_first", "put", "idle", "load", "total"}
      /\ Goes2(c) => calls'[c].pc = "remove_rest"
      /\ Goes4(c) => calls'[c].pc = "stamp"
      /\ Goes5(c) => calls'[c].pc \in {"idle", "load", "total"}
  BY <1>1, ClearFacts, PutFacts, FreeFacts, RestFacts, StampFacts
     DEF Goes1, Goes2, Goes3, Goes4, Goes5
<1>5. calls'[c].pc \notin {"idle", "load", "total"} => LastIs(c)
  BY <1>1, ClearFacts, PutFacts, FreeFacts, RestFacts, StampFacts DEF Outcome
<1>6. disk.phrases \subseteq Phrases /\ disk'.phrases \subseteq Phrases
      /\ \A p \in disk.phrases : born[p] # 0 /\ born'[p] = born[p]
  BY <1>2 DEF Inv, TypeInv, BornInv, Store
<1>7. day \in Days /\ day # 0 /\ \A d \in Days : d # 0
  BY DEF Inv, TypeInv, Days
<1>8. Goes4(c) => \A p \in disk'.phrases : born'[p] = day
  BY <1>2, <1>6, <1>7 DEF Goes4
<1>9. Answered(c) => \A a \in Calls : ~Before(a, c)
  BY HeadOfLine DEF Inv
<1>10. DiskInv'
  <2> SUFFICES ASSUME \A a \in Calls : calls'[a].pc \notin {"put", "stamp"}, disk'.phrases # {}
               PROVE  disk'.time # 0 /\ \A p \in disk'.phrases : born'[p] = disk'.time
    BY DEF DiskInv
  <2>1. CASE Goes1(c)
    <3>1. \A a \in Calls : calls[a].pc \notin {"put", "stamp"}
      BY <1>3, <2>1 DEF Goes1, Waits, AtWrite
    <3> QED BY <1>6, <2>1, <3>1 DEF Goes1, Inv, DiskInv
  <2>2. CASE Goes2(c)
    BY <2>2 DEF Goes2
  <2>3. CASE Goes3(c)
    <3>1. PICK x \in Calls : calls[x].pc = "stamp"
      BY <2>3 DEF Goes3, Inv, ClearsInv
    <3>2. x # c
      BY <2>3, <3>1 DEF Goes3
    <3> QED BY <1>3, <3>1, <3>2
  <2>4. CASE Goes4(c)
    BY <1>4, <2>4
  <2>5. CASE Goes5(c)
    BY <1>6, <1>7, <2>5 DEF Goes5
  <2> QED BY <2>1, <2>2, <2>3, <2>4, <2>5
<1>11. ClearsInv'
  <2> SUFFICES ASSUME NEW e \in Calls, calls'[e].pc = "remove_rest", disk'.phrases # {}
               PROVE  \E x \in Calls : calls'[x].pc = "stamp" /\ Before(e, x)'
    BY DEF ClearsInv
  <2>1. ~Goes2(c) /\ e # c
    BY <1>4 DEF Goes2
  <2>2. calls[e].pc = "remove_rest" /\ Waits(e)
    BY <1>3, <2>1 DEF Waits, AtWrite
  <2>3. CASE Goes4(c)
    BY <1>4, <1>5, <2>1, <2>2, <2>3 DEF LastIs
  <2>4. CASE Goes1(c) \/ Goes3(c) \/ Goes5(c)
    <3>1. disk.phrases # {}
      BY <2>4 DEF Goes1, Goes3, Goes5
    <3>2. PICK x \in Calls : calls[x].pc = "stamp" /\ Before(e, x)
      BY <2>2, <3>1 DEF Inv, ClearsInv
    <3>3. x # c
      BY <1>9, <2>4, <3>2 DEF Goes1, Goes3, Goes5, Waits, AtWrite
    <3> QED BY <1>2, <1>3, <2>1, <3>2, <3>3 DEF Moved
  <2> QED BY <2>1, <2>3, <2>4
<1>12. StampsInv'
  <2> SUFFICES ASSUME NEW f \in Calls, NEW x \in Calls, calls'[f].pc = "put",
                      calls'[x].pc = "stamp", Before(f, x)'
               PROVE  Holds(writes', x, "time", day)
    BY DEF StampsInv, Pending
  <2>1. CASE x = c
    BY <1>2, <2>1 DEF Asked
  <2>2. CASE f = c
    BY <1>5, <2>2 DEF LastIs
  <2>3. CASE f # c /\ x # c
    <3>1. calls[f].pc = "put" /\ calls[x].pc = "stamp" /\ Before(f, x)
      BY <1>2, <1>3, <2>3 DEF Moved
    <3>2. Pending(x, "time", day)
      BY <3>1 DEF Inv, StampsInv
    <3> QED BY <1>2, <2>3, <3>2 DEF Moved, Pending
  <2> QED BY <2>1, <2>2, <2>3
<1>13. ASSUME NEW a \in Calls, calls'[a].pc = "stamp"
       PROVE  \E d \in Days : /\ Holds(writes', a, "time", d)
                              /\ \A p \in disk'.phrases : born'[p] = d
  <2>1. CASE a = c
    <3>1. Goes4(c) /\ Holds(writes', a, "time", day)
      BY <1>2, <1>4, <1>13, <2>1 DEF Asked
    <3> QED BY <1>7, <1>8, <3>1
  <2>2. CASE a # c
    <3>1. calls[a].pc = "stamp" /\ Waits(a)
      BY <1>3, <1>13, <2>2 DEF Waits, AtWrite
    <3>2. PICK d \in Days : Pending(a, "time", d) /\ \A p \in disk.phrases : born[p] = d
      BY <3>1 DEF Inv, WrittenInv
    <3>3. Holds(writes', a, "time", d)
      BY <1>2, <2>2, <3>2 DEF Moved, Pending
    <3>4. CASE ~Goes4(c)
      <4>1. \A p \in disk'.phrases : p \in disk.phrases
        BY <3>4 DEF Goes1, Goes2, Goes3, Goes5
      <4> QED BY <1>6, <3>2, <3>3, <4>1
    <3>5. CASE Goes4(c)
      <4>1. Before(c, a) /\ calls[c].pc = "put"
        BY <2>2, <3>1, <3>5, HeadOfLine DEF Goes4, OutStamp, Inv
      <4>2. Pending(a, "time", day)
        BY <3>1, <4>1 DEF Inv, StampsInv
      <4>3. d = day
        BY <3>2, <4>2, OnePending DEF Inv
      <4> QED BY <1>8, <3>3, <3>5, <4>3
    <3> QED BY <3>4, <3>5
  <2> QED BY <2>1, <2>2
<1> QED BY <1>10, <1>11, <1>12, <1>13 DEF Pending


\* A stamp is of some day, whatever fails.
LEMMA StampsHold ==
    ASSUME Inv, NEW c \in Calls, Goer(c), Outcome(c), day' = day,
           NEW a \in Calls, calls'[a].pc = "stamp"
    PROVE  \E d \in Days : Holds(writes', a, "time", d)
<1>1. Moved(c) /\ Asked(c) /\ day \in Days
  BY GoesOn DEF Inv, TypeInv
<1>2. CASE a = c
  BY <1>1, <1>2 DEF Asked
<1>3. CASE a # c
  <2>1. calls[a].pc = "stamp" /\ \A k, v : Holds(writes, a, k, v) => Holds(writes', a, k, v)
    BY <1>1, <1>3 DEF Moved, Pending
  <2> QED BY <2>1 DEF Inv, WrittenInv, Pending
<1> QED BY <1>2, <1>3

\* Everything but what is stored and what it is dated.
LEMMA HandlerKeeps ==
    ASSUME Inv, NEW c \in Calls, Goer(c), Outcome(c), running, running' = running,
           day' = day, starts' = starts, checked' \in {checked, day}, ShownTyped,
           torn' \in {torn, TRUE}, disk' \in Store, \A p \in disk'.phrases : born[p] # 0
    PROVE  TypeInv' /\ QueueInv' /\ HandlersInv' /\ AddsInv' /\ BornInv'
<1>1. /\ Moved(c) /\ AddsInv'
      /\ cache' \in Store /\ born' \in [Phrases -> {0} \cup Days]
      /\ \A p \in Phrases : born[p] # 0 => born'[p] = born[p]
      /\ \A p \in cache'.phrases : born'[p] # 0
      /\ \A a \in Calls : calls'[a].pc \in {"put", "stamp"} => calls'[a].for = "add"
  BY GoesOn
<1>2. shown' \subseteq Phrases /\ stale' \in BOOLEAN
  BY DEF ShownTyped
<1>3. checked' \in {0} \cup Days /\ torn' \in BOOLEAN
  BY DEF Inv, TypeInv
<1>4. TypeInv'
  BY <1>1, <1>2, <1>3 DEF Inv, TypeInv
<1>5. HandlersInv'
  BY <1>1 DEF HandlersInv
<1>6. BornInv'
  <2>1. disk'.phrases \subseteq Phrases
    BY DEF Store
  <2> QED BY <1>1, <2>1 DEF BornInv
<1> QED BY <1>1, <1>4, <1>5, <1>6 DEF Moved

\* What the handlers wait to have written.
LEMMA WritesKeep ==
    ASSUME Inv, NEW c \in Calls, Goer(c), Outcome(c), day' = day, torn' \in {torn, TRUE},
           \A a \in Calls : calls'[a].pc = "stamp" =>
              \E d \in Days : /\ Holds(writes', a, "time", d)
                              /\ ~torn' => \A p \in disk'.phrases : born'[p] = d
    PROVE  WrittenInv'
<1>0. ~torn' => ~torn
  OBVIOUS
<1>1. /\ Moved(c) /\ Asked(c) /\ cache' \in Store
      /\ \A p \in Phrases : born[p] # 0 => born'[p] = born[p]
      /\ \A p \in cache'.phrases : born'[p] # 0
  BY GoesOn
<1>2. calls'[c].pc = "put" => \A p \in cache'.phrases : ~torn => born'[p] = day
  BY PutFacts, ClearFacts, RestFacts, StampFacts, FreeFacts DEF Outcome
<1> SUFFICES ASSUME NEW a \in Calls
             PROVE  /\ calls'[a].pc = "remove_first" => Holds(writes', a, "phrases", {})
                    /\ calls'[a].pc = "remove_rest" => Holds(writes', a, "time", 0)
                    /\ calls'[a].pc = "put" =>
                          \E ps \in SUBSET Phrases :
                             /\ Holds(writes', a, "phrases", ps)
                             /\ \A p \in ps : born'[p] # 0 /\ (~torn' => born'[p] = day)
  BY DEF WrittenInv, Pending
<1>3. CASE a = c
  <2>1. ASSUME calls'[c].pc = "put"
        PROVE  \E ps \in SUBSET Phrases :
                  /\ Holds(writes', c, "phrases", ps)
                  /\ \A p \in ps : born'[p] # 0 /\ (~torn' => born'[p] = day)
    <3>1. PICK ps \in SUBSET Phrases : ps = cache'.phrases
      BY <1>1 DEF Store
    <3>2. Holds(writes', c, "phrases", ps)
      BY <1>1, <2>1, <3>1 DEF Asked
    <3>3. \A p \in ps : born'[p] # 0 /\ (~torn' => born'[p] = day)
      BY <1>0, <1>1, <1>2, <2>1, <3>1
    <3> QED BY <3>2, <3>3
  <2> QED BY <1>1, <1>3, <2>1 DEF Asked, Pending
<1>4. CASE a # c
  <2>1. calls'[a] = calls[a] /\ \A k, v : Holds(writes, a, k, v) => Holds(writes', a, k, v)
    BY <1>1, <1>4 DEF Moved, Pending
  <2>2. /\ calls[a].pc = "remove_first" => Holds(writes, a, "phrases", {})
        /\ calls[a].pc = "remove_rest" => Holds(writes, a, "time", 0)
    BY DEF Inv, WrittenInv, Pending
  <2>3. ASSUME calls[a].pc = "put"
        PROVE  \E ps \in SUBSET Phrases :
                  /\ Holds(writes', a, "phrases", ps)
                  /\ \A p \in ps : born'[p] # 0 /\ (~torn' => born'[p] = day)
    <3>1. PICK ps \in SUBSET Phrases :
             /\ Holds(writes, a, "phrases", ps)
             /\ \A p \in ps : born[p] # 0 /\ (~torn => born[p] = day)
      BY <2>3 DEF Inv, WrittenInv, Pending
    <3>2. \A p \in ps : born'[p] = born[p]
      BY <1>1, <3>1
    <3>3. \A p \in ps : born'[p] # 0 /\ (~torn' => born'[p] = day)
      BY <1>0, <3>1, <3>2
    <3>4. Holds(writes', a, "phrases", ps)
      BY <2>1, <3>1
    <3> QED BY <3>3, <3>4
  <2> QED BY <2>1, <2>2, <2>3
<1> QED BY <1>3, <1>4

\* A handler goes on and nothing fails.
LEMMA GoesWell ==
    ASSUME Inv, NEW c \in Calls, running, running' = running, day' = day,
           starts' = starts, checked' \in {checked, day}, ShownTyped,
           torn' = torn, disk' \in Store, \A p \in disk'.phrases : born[p] # 0,
           ~torn => Goes1(c) \/ Goes2(c) \/ Goes3(c) \/ Goes4(c) \/ Goes5(c),
           Goer(c), Outcome(c)
    PROVE  Inv'
<1>1. TypeInv' /\ QueueInv' /\ HandlersInv' /\ AddsInv' /\ BornInv'
  BY HandlerKeeps
<1>2. CASE torn
  <2>1. \A a \in Calls : calls'[a].pc = "stamp" => \E d \in Days : Holds(writes', a, "time", d)
    BY StampsHold, <1>2
  <2>2. WrittenInv'
    BY <1>2, <2>1, WritesKeep
  <2>3. PutsToday' /\ CacheInv' /\ DiskInv' /\ ClearsInv' /\ StampsInv'
    BY <1>2 DEF PutsToday, CacheInv, DiskInv, ClearsInv, StampsInv
  <2> QED BY <1>1, <2>2, <2>3 DEF Inv
<1>3. CASE ~torn
  <2>1. OutFree(c) => calls[c].pc # "put"
    <3>1. Goes1(c) => calls[c].pc # "put"
      BY DEF Goes1, Waits, AtWrite
    <3>2. OutFree(c) => ~OutRest(c) /\ ~OutStamp(c)
      BY FreeFacts, RestFacts, StampFacts
    <3> QED BY <1>3, <3>1, <3>2 DEF Goes2, Goes3, Goes4, Goes5
  <2>2. PutsToday' /\ CacheInv'
    BY <1>3, <2>1, CacheGoesOn
  <2>3. /\ DiskInv' /\ ClearsInv' /\ StampsInv'
        /\ \A a \in Calls : calls'[a].pc = "stamp" =>
              \E d \in Days : /\ Holds(writes', a, "time", d)
                              /\ \A p \in disk'.phrases : born'[p] = d
    BY <1>3, DiskGoesOn DEF Pending
  <2>4. WrittenInv'
    BY <2>3, WritesKeep
  <2> QED BY <1>1, <2>2, <2>3, <2>4 DEF Inv
<1> QED BY <1>2, <1>3

\* A write failed: what is stored stays, and nothing more is promised of it.
LEMMA GoesBadly ==
    ASSUME Inv, NEW c \in Calls, running, running' = running, day' = day,
           starts' = starts, checked' = checked, ShownTyped,
           torn' = TRUE, disk' = disk, Goer(c), Outcome(c)
    PROVE  Inv'
<1>1. disk' \in Store /\ (\A p \in disk'.phrases : born[p] # 0)
      /\ checked' \in {checked, day} /\ torn' \in {torn, TRUE}
  BY DEF Inv, TypeInv, BornInv
<1>2. TypeInv' /\ QueueInv' /\ HandlersInv' /\ AddsInv' /\ BornInv'
  BY <1>1, HandlerKeeps
<1>3. \A a \in Calls : calls'[a].pc = "stamp" => \E d \in Days : Holds(writes', a, "time", d)
  BY StampsHold
<1>4. WrittenInv'
  BY <1>1, <1>3, WritesKeep
<1>5. PutsToday' /\ CacheInv' /\ DiskInv' /\ ClearsInv' /\ StampsInv'
  BY DEF PutsToday, CacheInv, DiskInv, ClearsInv, StampsInv
<1> QED BY <1>2, <1>4, <1>5 DEF Inv

LEMMA StartNext ==
    ASSUME Inv, NEW c \in Calls, Starts(c)
    PROVE  Inv'
<1>1. /\ ~Waits(c) /\ running /\ UNCHANGED <<day, running, disk, starts, torn>>
      /\ checked' \in {checked, day} /\ ShownTyped
      /\ OutClear(c) \/ OutPut(c) \/ OutFree(c)
  BY StartOut
<1>2. disk' \in Store /\ \A p \in disk'.phrases : born[p] # 0
  BY <1>1 DEF Inv, TypeInv, BornInv
<1>3. Goer(c) /\ Outcome(c) /\ Goes1(c)
  BY <1>1 DEF Goer, Outcome, Goes1
<1> QED BY <1>1, <1>2, <1>3, GoesWell

LEMMA AnswerNext ==
    ASSUME Inv, NEW c \in Calls, Answer(c)
    PROVE  Inv'
<1>1. /\ Answered(c) /\ UNCHANGED <<day, running, starts, checked>> /\ ShownTyped
      /\ AnswerDone(c) \/ AnswerFailed(c)
  BY AnswerOut
<1>2. Waits(c) /\ running /\ Goer(c)
  <2>1. Waits(c)
    BY <1>1, HeadOfLine DEF Inv
  <2>2. calls[c] # Idle
    BY <2>1 DEF Waits, AtWrite, Idle
  <2> QED BY <1>1, <2>1, <2>2 DEF Inv, HandlersInv, TypeInv, Goer
<1>3. Outcome(c)
  BY <1>1 DEF AnswerDone, AnswerFailed, Outcome
<1>4. CASE AnswerDone(c)
  <2>1. /\ disk' \in Store /\ \A p \in disk'.phrases : born[p] # 0
    BY <1>1, <1>4, DoneFacts
  <2>2. ~torn => Goes1(c) \/ Goes2(c) \/ Goes3(c) \/ Goes4(c) \/ Goes5(c)
    BY <1>1, <1>4, DoneFacts DEF Goes2, Goes3, Goes4, Goes5
  <2>3. torn' = torn /\ checked' \in {checked, day}
    BY <1>1, <1>4 DEF AnswerDone
  <2> QED BY <1>1, <1>2, <1>3, <2>1, <2>2, <2>3, GoesWell
<1>5. CASE AnswerFailed(c)
  <2>1. torn' = TRUE /\ disk' = disk
    BY <1>5 DEF AnswerFailed
  <2> QED BY <1>1, <1>2, <1>3, <2>1, GoesBadly
<1> QED BY <1>1, <1>4, <1>5

-----------------------------------------------------------------------------
(* The process and the clock.                                                *)

LEMMA LaunchNext ==
    ASSUME Inv, NEW c \in Calls, Launch(c)
    PROVE  Inv'
<1> DEFINE call == Called("check", {}, TRUE)
<1>1. call \in Call /\ call.pc = "start" /\ call.adds = {} /\ call.for = "check"
  <2>1. {} \in SUBSET Phrases /\ "start" \in AtClock \cup AtWrite
    BY DEF AtClock
  <2> QED BY <2>1 DEF Called, Call
<1>2. /\ ~running /\ starts < MaxStarts /\ \A a \in Calls : calls[a] = Idle
      /\ running' = TRUE /\ starts' = starts + 1 /\ cache' = disk
      /\ calls' = [calls EXCEPT ![c] = call]
      /\ torn' = (torn /\ disk # Nothing)
      /\ UNCHANGED <<day, disk, writes, shown, born, checked, stale>>
  BY DEF Launch, Inv, HandlersInv
<1> HIDE DEF call
<1>3. /\ calls' \in [Calls -> Call \cup {Idle}] /\ calls'[c] = call
      /\ \A a \in Calls \ {c} : calls'[a] = Idle
  BY <1>1, <1>2 DEF Inv, QueueInv
<1>4. Idle.pc = "idle"
  BY DEF Idle
<1>5. /\ \A a \in Calls : calls'[a].pc \in {"idle", "start"}
      /\ \A a \in Calls : calls[a].pc = "idle"
  BY <1>1, <1>2, <1>3, <1>4
<1>6. TypeInv'
  <2>1. starts' \in 0..MaxStarts
    BY <1>2, OneDayAssumption DEF Inv, TypeInv
  <2>2. torn' \in BOOLEAN
    BY <1>2 DEF Inv, TypeInv
  <2> QED BY <1>2, <2>1, <2>2 DEF Inv, TypeInv
<1>7. QueueInv'
  <2>1. \A a \in Calls : ~Waits(a) /\ ~(Waits(a)')
    BY <1>5 DEF Waits, AtWrite
  <2>2. \A a \in Calls : ~InLine(writes, a)
    BY <2>1 DEF Inv, QueueInv
  <2> QED BY <1>2, <1>3, <2>1, <2>2 DEF Inv, QueueInv
<1>8. HandlersInv'
  BY <1>2, <1>5 DEF HandlersInv
<1>9. AddsInv'
  BY <1>1, <1>3, <1>5 DEF AddsInv, Fresh
<1>10. BornInv'
  BY <1>2 DEF Inv, BornInv
<1>11. WrittenInv' /\ PutsToday' /\ ClearsInv' /\ StampsInv'
  BY <1>5 DEF WrittenInv, PutsToday, ClearsInv, StampsInv
<1>12. ~torn' /\ disk.phrases # {} => disk.time # 0 /\ \A p \in disk.phrases : born[p] = disk.time
  <2>1. ~torn' /\ disk.phrases # {} => ~torn
    <3>1. disk = Nothing => disk.phrases = {}
      BY DEF Nothing
    <3>2. ~torn' => ~torn \/ disk = Nothing
      BY <1>2
    <3> QED BY <3>1, <3>2
  <2> QED BY <1>5, <2>1 DEF Inv, DiskInv
<1>13. CacheInv' /\ DiskInv'
  BY <1>2, <1>5, <1>12 DEF CacheInv, DiskInv
<1> QED BY <1>6, <1>7, <1>8, <1>9, <1>10, <1>11, <1>13 DEF Inv

LEMMA KillNext ==
    ASSUME Inv, Kill
    PROVE  Inv'
<1>1. /\ running' = FALSE /\ starts < MaxStarts
      /\ cache' = Nothing /\ writes' = <<>> /\ shown' = {} /\ stale' = FALSE
      /\ calls' = [a \in Calls |-> Idle]
      /\ torn' = (torn \/ Adding({"put", "stamp"}))
      /\ UNCHANGED <<day, disk, starts, born, checked>>
  BY DEF Kill, SetState
<1>2. \A a \in Calls : calls'[a] = Idle /\ calls'[a].pc = "idle"
  BY <1>1 DEF Idle
<1>3. Nothing \in Store /\ Nothing.phrases = {}
  BY DEF Nothing, Store
<1>4. TypeInv'
  <2>1. torn' \in BOOLEAN
    BY <1>1 DEF Inv, TypeInv, Adding
  <2> QED BY <1>1, <1>3, <2>1 DEF Inv, TypeInv
<1>5. QueueInv'
  <2>1. \A a \in Calls : ~(Waits(a)')
    BY <1>2 DEF Waits, AtWrite
  <2>2. writes' \in Seq(Entry) /\ OneEach(writes') /\ \A a : ~InLine(writes', a)
    BY <1>1 DEF OneEach, InLine
  <2>3. calls' \in [Calls -> Call \cup {Idle}]
    BY <1>1
  <2> QED BY <2>1, <2>2, <2>3 DEF QueueInv
<1>6. HandlersInv'
  BY <1>1, <1>2 DEF HandlersInv
<1>7. AddsInv' /\ WrittenInv' /\ PutsToday' /\ ClearsInv' /\ StampsInv'
  BY <1>2 DEF AddsInv, WrittenInv, PutsToday, ClearsInv, StampsInv
<1>8. BornInv' /\ CacheInv'
  BY <1>1, <1>3 DEF Inv, BornInv, CacheInv
<1>9. DiskInv'
  <2> SUFFICES ASSUME ~torn', disk.phrases # {}
               PROVE  disk.time # 0 /\ \A p \in disk.phrases : born[p] = disk.time
    BY <1>1 DEF DiskInv
  <2>1. ASSUME NEW a \in Calls, calls[a].pc \in {"put", "stamp"} PROVE FALSE
    <3>1. calls[a] # Idle /\ calls[a].for = "add"
      BY <2>1 DEF Idle, Inv, HandlersInv
    <3> QED BY <1>1, <2>1, <3>1 DEF Adding
  <2> QED BY <1>1, <2>1 DEF Inv, DiskInv
<1> QED BY <1>4, <1>5, <1>6, <1>7, <1>8, <1>9 DEF Inv

LEMMA FourAMNext ==
    ASSUME Inv, FourAM
    PROVE  Inv'
<1>1. /\ day < MaxDay /\ day' = day + 1
      /\ torn' = (torn \/ Adding({"remove_first", "remove_rest", "put"}))
      /\ UNCHANGED <<running, cache, disk, writes, calls, shown, starts, born, checked, stale>>
  BY DEF FourAM
<1>2. ~torn' => ~torn /\ \A a \in Calls : calls[a].pc # "put"
  <2> SUFFICES ASSUME ~torn', NEW a \in Calls, calls[a].pc = "put"
               PROVE  FALSE
    BY <1>1
  <2>1. calls[a] # Idle /\ calls[a].for = "add"
    BY DEF Idle, Inv, HandlersInv
  <2> QED BY <1>1, <2>1 DEF Adding
<1>3. TypeInv'
  <2>1. day' \in Days
    BY <1>1, OneDayAssumption DEF Inv, TypeInv, Days
  <2>2. torn' \in BOOLEAN
    BY <1>1 DEF Inv, TypeInv, Adding
  <2> QED BY <1>1, <2>1, <2>2 DEF Inv, TypeInv
<1>4. QueueInv' /\ HandlersInv' /\ AddsInv' /\ BornInv'
  BY <1>1 DEF Inv, QueueInv, Waits, HandlersInv, AddsInv, Fresh, BornInv
<1>5. WrittenInv'
  <2> SUFFICES ASSUME NEW a \in Calls
               PROVE  /\ calls[a].pc = "remove_first" => Holds(writes, a, "phrases", {})
                      /\ calls[a].pc = "remove_rest" => Holds(writes, a, "time", 0)
                      /\ calls[a].pc = "put" =>
                            \E ps \in SUBSET Phrases :
                               /\ Holds(writes, a, "phrases", ps)
                               /\ \A p \in ps : born[p] # 0 /\ (~torn' => born[p] = day')
                      /\ calls[a].pc = "stamp" =>
                            \E d \in Days :
                               /\ Holds(writes, a, "time", d)
                               /\ ~torn' => \A p \in disk.phrases : born[p] = d
    BY <1>1 DEF WrittenInv, Pending
  <2>1. /\ calls[a].pc = "remove_first" => Holds(writes, a, "phrases", {})
        /\ calls[a].pc = "remove_rest" => Holds(writes, a, "time", 0)
    BY DEF Inv, WrittenInv, Pending
  <2>2. ASSUME calls[a].pc = "put"
        PROVE  \E ps \in SUBSET Phrases :
                  /\ Holds(writes, a, "phrases", ps)
                  /\ \A p \in ps : born[p] # 0 /\ (~torn' => born[p] = day')
    <3>1. PICK ps \in SUBSET Phrases :
             Holds(writes, a, "phrases", ps) /\ \A p \in ps : born[p] # 0
      BY <2>2 DEF Inv, WrittenInv, Pending
    <3> QED BY <1>2, <2>2, <3>1
  <2>3. ASSUME calls[a].pc = "stamp"
        PROVE  \E d \in Days : /\ Holds(writes, a, "time", d)
                               /\ ~torn' => \A p \in disk.phrases : born[p] = d
    <3>1. PICK d \in Days : /\ Holds(writes, a, "time", d)
                            /\ ~torn => \A p \in disk.phrases : born[p] = d
      BY <2>3 DEF Inv, WrittenInv, Pending
    <3> QED BY <1>2, <3>1
  <2> QED BY <2>1, <2>2, <2>3
<1>6. PutsToday' /\ StampsInv'
  BY <1>1, <1>2 DEF PutsToday, StampsInv
<1>7. CacheInv' /\ DiskInv' /\ ClearsInv'
  <2>1. CacheInv'
    BY <1>1, <1>2 DEF Inv, CacheInv, Before
  <2>2. DiskInv'
    BY <1>1, <1>2 DEF Inv, DiskInv
  <2>3. ClearsInv'
    BY <1>1, <1>2 DEF Inv, ClearsInv, Before
  <2> QED BY <2>1, <2>2, <2>3
<1> QED BY <1>3, <1>4, <1>5, <1>6, <1>7 DEF Inv

LEMMA InitInv == Init => Inv
<1> SUFFICES ASSUME Init PROVE Inv
  OBVIOUS
<1>1. /\ day = 1 /\ running = FALSE /\ cache = Nothing /\ disk = Nothing /\ writes = <<>>
      /\ calls = [c \in Calls |-> Idle] /\ shown = {} /\ starts = 0
      /\ born = [p \in Phrases |-> 0] /\ checked = 0 /\ torn = FALSE /\ stale = FALSE
  BY DEF Init
<1>2. Nothing \in Store /\ Nothing.phrases = {}
  BY DEF Nothing, Store
<1>3. \A c \in Calls : calls[c] = Idle /\ calls[c].pc = "idle"
  BY <1>1 DEF Idle
<1>4. TypeInv
  <2>1. 1 \in Days /\ 0 \in 0..MaxStarts
    BY OneDayAssumption DEF Days
  <2> QED BY <1>1, <1>2, <2>1 DEF TypeInv
<1>5. QueueInv
  <2>1. \A c \in Calls : ~Waits(c)
    BY <1>3 DEF Waits, AtWrite
  <2>2. writes \in Seq(Entry) /\ OneEach(writes) /\ \A c : ~InLine(writes, c)
    BY <1>1 DEF OneEach, InLine
  <2> QED BY <1>1, <2>1, <2>2 DEF QueueInv
<1>6. HandlersInv
  BY <1>1, <1>3, OneDayAssumption DEF HandlersInv
<1>7. AddsInv /\ WrittenInv /\ PutsToday /\ ClearsInv /\ StampsInv
  BY <1>3 DEF AddsInv, WrittenInv, PutsToday, ClearsInv, StampsInv
<1>8. BornInv /\ CacheInv /\ DiskInv
  BY <1>1, <1>2 DEF BornInv, CacheInv, DiskInv
<1> QED BY <1>4, <1>5, <1>6, <1>7, <1>8 DEF Inv

LEMMA StepInv == Inv /\ [Next]_vars => Inv'
<1> SUFFICES ASSUME Inv, [Next]_vars PROVE Inv'
  OBVIOUS
<1>1. ASSUME NEW c \in Calls, Launch(c) PROVE Inv'
  BY <1>1, LaunchNext
<1>2. ASSUME NEW c \in Calls, Answer(c) PROVE Inv'
  BY <1>2, AnswerNext
<1>3. ASSUME NEW c \in Calls, Starts(c)
      PROVE  Inv'
  BY <1>3, StartNext
<1>4. CASE Kill
  BY <1>4, KillNext
<1>5. CASE FourAM
  BY <1>5, FourAMNext
<1>6. CASE UNCHANGED vars
  <2>1. /\ UNCHANGED <<day, running, cache, disk, writes, calls, shown>>
        /\ UNCHANGED <<starts, born, checked, torn, stale>>
    BY <1>6 DEF vars, historyVars
  <2> QED BY <2>1 DEF Inv, TypeInv, QueueInv, Waits, HandlersInv, AddsInv, Fresh, BornInv,
                      WrittenInv, Pending, PutsToday, CacheInv, Before, DiskInv, ClearsInv,
                      StampsInv
<1> QED BY <1>1, <1>2, <1>3, <1>4, <1>5, <1>6 DEF Next, Starts

THEOREM Invariance == Spec => []Inv
  BY InitInv, StepInv, PTL DEF Spec

-----------------------------------------------------------------------------
(* What it gives.                                                            *)

\* Every write on its way is of a key with a value of that key.
LEMMA WritesTyped ==
    ASSUME Inv, NEW i \in 1..Len(writes)
    PROVE  /\ writes[i].call \in Calls
           /\ \/ writes[i].key = "phrases" /\ writes[i].value \in SUBSET Phrases
              \/ writes[i].key = "time" /\ writes[i].value \in {0} \cup Days
<1>1. QueueInv /\ writes[i] \in Entry
  BY DEF Inv, QueueInv
<1>2. PICK c \in Calls : writes[i].call = c
  BY <1>1 DEF Entry
<1> PICK k, v : k = writes[i].key /\ v = writes[i].value
  OBVIOUS
<1>3. Pending(c, k, v)
  BY <1>2 DEF Pending, Holds
<1>4. Waits(c)
  BY <1>1, <1>2 DEF QueueInv, InLine
<1>5. \/ \E ps \in SUBSET Phrases : Pending(c, "phrases", ps)
      \/ \E d \in {0} \cup Days : Pending(c, "time", d)
  BY <1>4 DEF Waits, AtWrite, Inv, WrittenInv
<1>6. ASSUME NEW ps \in SUBSET Phrases, Pending(c, "phrases", ps)
      PROVE  k = "phrases" /\ v \in SUBSET Phrases
  BY <1>1, <1>3, <1>6, OnePending
<1>7. ASSUME NEW d \in {0} \cup Days, Pending(c, "time", d)
      PROVE  k = "time" /\ v \in {0} \cup Days
  BY <1>1, <1>3, <1>7, OnePending
<1> QED BY <1>2, <1>5, <1>6, <1>7

\* Every variable keeps its type, the writes on their way included: a write
\* of the phrases carries phrases and one of the time a day.
THEOREM TypeCorrect == Spec => []TypeOK
<1>1. Inv => TypeOK
  <2> SUFFICES ASSUME Inv PROVE TypeOK
    OBVIOUS
  <2>1. TypeInv /\ calls \in [Calls -> Call \cup {Idle}]
    BY DEF Inv, QueueInv
  <2> QED BY <2>1, WritesTyped DEF TypeInv, TypeOK
<1> QED BY <1>1, Invariance, PTL

\* However many handlers overlap, whatever is written late and whenever the
\* process dies: at rest, all phrases kept are of the day of the last save
\* (one_day_close_repo.dart:38-58, 92-140), with the exceptions OneDayOnly
\* names.
THEOREM OneDayOnlyHolds == Spec => []OneDayOnly
<1>1. Inv => OneDayOnly
  <2> SUFFICES ASSUME Inv, AtRest, ~torn, cache.phrases # {}
               PROVE  cache.time # 0 /\ \A p \in cache.phrases : born[p] = cache.time
    BY DEF OneDayOnly
  <2>1. \A c \in Calls : calls[c].pc = "idle"
    BY DEF AtRest, Idle
  <2> QED BY <2>1 DEF Inv, CacheInv
<1> QED BY <1>1, Invariance, PTL

-----------------------------------------------------------------------------
(* What the page shows.                                                      *)

\* The phrases a clear has yet to finish with were put after it began.
RestInv ==
    \A e \in Calls :
        ~torn /\ calls[e].pc = "remove_rest" /\ cache.phrases # {} =>
            \E d \in Calls : \/ calls[d].pc = "put"
                             \/ calls[d].pc = "stamp" /\ Before(e, d)

\* If the page shows something else than is kept, a handler is under way that
\* will show what is.
Showing == {"start", "load", "total", "put", "stamp"}

ShownInv ==
    ~torn /\ ~stale /\ shown # cache.phrases =>
        \/ \E c \in Calls : calls[c].pc \in Showing
        \/ /\ cache.phrases = {}
           /\ \E c \in Calls : calls[c].pc \in {"remove_first", "remove_rest"}

\* One handler runs at a time, and the list it is counting is what is kept,
\* unless its clear has met a put.
CountedInv ==
    /\ \A c, d \in Calls : calls[c].pc \in AtClock /\ calls[d].pc \in AtClock => c = d
    /\ \A c \in Calls :
          ~torn /\ calls[c].pc = "total" =>
             \/ calls[c].list = cache.phrases
             \/ calls[c].list = {} /\ \E d \in Calls : calls[d].pc \in {"put", "stamp"}

\* After a check of today nothing of another day is kept.
LookedInv ==
    /\ checked <= day
    /\ ~torn /\ checked = day /\ (\A c \in Calls : calls[c].pc # "start") =>
          \A p \in cache.phrases : born[p] = day

\* While addPhrase puts, or is about to after a clear of its own, the time in
\* memory is of no earlier day.
TimeInv ==
    \A c \in Calls :
        /\ ~torn
        /\ \/ calls[c].pc = "put"
           \/ calls[c].pc = "remove_rest" /\ calls[c].for = "add"
        => cache.time \in {0, day}

Inv2 == Inv /\ RestInv /\ ShownInv /\ CountedInv /\ LookedInv /\ TimeInv

Handler(c) == Starts(c) \/ Answer(c)

AnyGoes(c) == Goes1(c) \/ Goes2(c) \/ Goes3(c) \/ Goes4(c) \/ Goes5(c)

\* A handler that goes on while nothing fails.
LEMMA HandlerOut ==
    ASSUME Inv, NEW c \in Calls, Handler(c), ~torn'
    PROVE  /\ ~torn /\ AnyGoes(c) /\ day' = day
           /\ \/ checked' = day /\ (OutClear(c) \/ (OutFree(c) /\ ~hasCrossed4AM))
              \/ checked' = checked /\ calls[c].pc # "start"
<1>1. CASE Starts(c)
  <2>1. Goes1(c) /\ torn' = torn
    BY <1>1, StartOut DEF Goes1
  <2> QED BY <1>1, <2>1, StartOut DEF AnyGoes
<1>2. CASE Answer(c)
  <2>1. Answered(c) /\ day' = day /\ checked' = checked /\ AnswerDone(c)
    BY <1>2, AnswerOut DEF AnswerFailed
  <2>2. torn' = torn
    BY <2>1 DEF AnswerDone
  <2>3. Waits(c)
    BY <2>1, HeadOfLine DEF Inv
  <2>4. AnyGoes(c)
    BY <2>1, <2>2, DoneFacts DEF AnyGoes, Goes2, Goes3, Goes4, Goes5
  <2> QED BY <2>1, <2>2, <2>3, <2>4 DEF Waits, AtWrite
<1> QED BY <1>1, <1>2 DEF Handler

LEMMA WaysOut ==
    ASSUME Inv, NEW c \in Calls, AnyGoes(c)
    PROVE  /\ Goer(c) /\ Outcome(c)
           /\ OutFree(c) => calls[c].pc \notin {"put", "remove_first"}
           /\ OutPut(c) => calls[c].pc # "remove_first"
<1>1. Goer(c) /\ Outcome(c)
  BY DEF AnyGoes, Goes1, Goes2, Goes3, Goes4, Goes5, Goer, Outcome
<1>2. OutFree(c) \/ OutPut(c) => ~OutRest(c) /\ ~OutStamp(c)
  BY <1>1, FreeFacts, PutFacts, RestFacts, StampFacts
<1>3. Goes1(c) => calls[c].pc \notin {"put", "remove_first"}
  BY DEF Goes1, Waits, AtWrite
<1> QED BY <1>1, <1>2, <1>3 DEF AnyGoes, Goes2, Goes3, Goes4, Goes5

LEMMA RestKeeps ==
    ASSUME Inv2, NEW c \in Calls, AnyGoes(c), ~torn
    PROVE  RestInv'
<1>1. Inv /\ Goer(c) /\ Outcome(c)
  BY WaysOut DEF Inv2
<1>2. Moved(c)
  BY <1>1, GoesOn
<1> SUFFICES ASSUME NEW e \in Calls, calls'[e].pc = "remove_rest", cache'.phrases # {}
             PROVE  \E d \in Calls : \/ calls'[d].pc = "put"
                                     \/ calls'[d].pc = "stamp" /\ Before(e, d)'
  BY DEF RestInv
<1>3. CASE OutClear(c)
  BY <1>1, <1>3, ClearFacts
<1>4. CASE OutPut(c)
  BY <1>1, <1>4, PutFacts
<1>5. CASE OutStamp(c)
  <2>1. calls'[c].pc = "stamp" /\ LastIs(c)
    BY <1>1, <1>5, StampFacts
  <2>2. e # c
    BY <2>1
  <2>3. Waits(e)
    BY <1>2, <2>2 DEF Moved, Waits, AtWrite
  <2> QED BY <2>1, <2>2, <2>3 DEF LastIs
<1>6. ASSUME e # c, cache'.phrases = cache.phrases,
             Answered(c) => calls[c].pc # "put", ~Waits(c) \/ Answered(c)
      PROVE  \E d \in Calls : \/ calls'[d].pc = "put"
                              \/ calls'[d].pc = "stamp" /\ Before(e, d)'
  <2>1. calls[e].pc = "remove_rest"
    BY <1>2, <1>6 DEF Moved
  <2>2. PICK d \in Calls : calls[d].pc = "put" \/ (calls[d].pc = "stamp" /\ Before(e, d))
    BY <1>6, <2>1 DEF Inv2, RestInv
  <2>3. d # c
    <3>1. Waits(d)
      BY <2>2 DEF Waits, AtWrite
    <3>2. Answered(c) => ~Before(e, c)
      BY <1>1, HeadOfLine DEF Inv
    <3> QED BY <1>6, <2>2, <3>1, <3>2
  <2>4. calls'[d] = calls[d] /\ (Before(e, d)' <=> Before(e, d))
    BY <1>2, <1>6, <2>3 DEF Moved
  <2> QED BY <2>2, <2>4
<1>7. CASE OutRest(c)
  <2>1. cache'.phrases = cache.phrases /\ calls[c].pc = "remove_first"
    BY <1>1, <1>7, RestFacts DEF OutRest
  <2>2. PICK d \in Calls : calls[d].pc = "put"
    BY <2>1 DEF Inv2, Inv, CacheInv
  <2>3. d # c
    BY <2>1, <2>2
  <2> QED BY <1>2, <2>2, <2>3 DEF Moved
<1>8. CASE OutFree(c)
  <2>1. /\ cache' = cache /\ calls'[c].pc \in {"idle", "load", "total"}
        /\ calls[c].pc # "put"
    BY <1>1, <1>8, FreeFacts, WaysOut
  <2>2. e # c
    BY <2>1
  <2> QED BY <1>1, <1>6, <2>1, <2>2 DEF Goer
<1> QED BY <1>1, <1>3, <1>4, <1>5, <1>7, <1>8 DEF Outcome

LEMMA ShownKeeps ==
    ASSUME Inv2, NEW c \in Calls, AnyGoes(c), ~torn
    PROVE  ShownInv'
<1>1. Inv /\ Goer(c) /\ Outcome(c)
  BY WaysOut DEF Inv2
<1>2. \A a \in Calls \ {c} : calls'[a] = calls[a]
  BY <1>1, GoesOn DEF Moved
<1> SUFFICES ASSUME ~stale', shown' # cache'.phrases
             PROVE  \/ \E a \in Calls : calls'[a].pc \in Showing
                    \/ /\ cache'.phrases = {}
                       /\ \E a \in Calls : calls'[a].pc \in {"remove_first", "remove_rest"}
  BY DEF ShownInv
<1>3. CASE OutClear(c)
  BY <1>1, <1>3, ClearFacts
<1>4. CASE OutPut(c)
  BY <1>1, <1>4, PutFacts DEF Showing
<1>5. CASE OutStamp(c)
  BY <1>1, <1>5, StampFacts DEF Showing
<1>6. CASE OutRest(c)
  <2>1. /\ cache'.phrases = cache.phrases /\ shown' = shown /\ stale' = stale
        /\ calls[c].pc = "remove_first" /\ calls'[c].pc = "remove_rest"
    BY <1>1, <1>6, RestFacts DEF OutRest, PageStays
  <2>2. \/ \E a \in Calls : calls[a].pc \in Showing
        \/ cache.phrases = {}
    BY <2>1 DEF Inv2, ShownInv
  <2>3. ASSUME NEW a \in Calls, calls[a].pc \in Showing PROVE calls'[a].pc \in Showing
    <3>1. a # c
      BY <2>1, <2>3 DEF Showing
    <3> QED BY <1>2, <2>3, <3>1
  <2> QED BY <2>1, <2>2, <2>3
<1>7. CASE OutFree(c)
  <2>1. /\ cache' = cache /\ calls[c].pc # "remove_first"
        /\ calls'[c].pc \in {"idle", "load", "total"}
        /\ calls'[c].pc = "idle" =>
              \/ calls[c].pc = "total" /\ shown' = calls[c].list
              \/ calls[c].pc = "remove_rest" /\ shown' = {}
    BY <1>1, <1>7, FreeFacts, WaysOut
  <2>2. CASE calls'[c].pc \in {"load", "total"}
    BY <2>2 DEF Showing
  <2>3. CASE calls'[c].pc = "idle"
    <3>1. PICK d \in Calls : calls[d].pc \in {"put", "stamp"}
      BY <2>1, <2>3 DEF Inv2, RestInv, CountedInv
    <3>2. d # c
      BY <2>1, <2>3, <3>1
    <3> QED BY <1>2, <3>1, <3>2 DEF Showing
  <2> QED BY <2>1, <2>2, <2>3
<1> QED BY <1>1, <1>3, <1>4, <1>5, <1>6, <1>7 DEF Outcome

\* Nobody is at the clock but the handler that goes on.
LEMMA OnlyRunner ==
    ASSUME Inv2, NEW c \in Calls, Handler(c), NEW a \in Calls \ {c}
    PROVE  calls[a].pc \notin AtClock
<1>1. CASE Ready(c) \/ Answer(c)
  BY <1>1 DEF Ready, Answer, NoneRuns
<1>2. CASE StartInit(c) \/ GoOn(c)
  <2>1. calls[c].pc \in AtClock
    BY <1>2 DEF StartInit, GoOn, AtClock
  <2> QED BY <2>1 DEF Inv2, CountedInv
<1> QED BY <1>1, <1>2 DEF Handler, Starts, Resume, Reset, SubmitText

LEMMA CountedKeeps ==
    ASSUME Inv2, NEW c \in Calls, Handler(c), Goer(c), Outcome(c), ~torn' => AnyGoes(c) /\ ~torn
    PROVE  CountedInv'
<1>1. Inv /\ Moved(c)
  BY GoesOn DEF Inv2
<1>2. ASSUME NEW a \in Calls \ {c} PROVE calls'[a] = calls[a] /\ calls'[a].pc \notin AtClock
  BY <1>1, OnlyRunner DEF Moved
<1>3. ASSUME ~torn', calls'[c].pc = "total"
      PROVE  \/ calls'[c].list = cache'.phrases
             \/ calls'[c].list = {} /\ \E d \in Calls : calls'[d].pc \in {"put", "stamp"}
  <2>1. OutFree(c)
    BY <1>1, <1>3, ClearFacts, RestFacts, PutFacts, StampFacts DEF Outcome
  <2>2. /\ cache' = cache
        /\ \/ calls'[c].list = cache.phrases
           \/ calls'[c].list = {} /\ calls[c].pc = "remove_rest"
    BY <1>1, <1>3, <2>1, FreeFacts, WaysOut
  <2>3. CASE calls'[c].list = {} /\ calls[c].pc = "remove_rest" /\ cache.phrases # {}
    <3>1. PICK d \in Calls : calls[d].pc \in {"put", "stamp"}
      BY <1>3, <2>3 DEF Inv2, RestInv
    <3>2. d # c
      BY <2>3, <3>1
    <3>3. calls'[d].pc \in {"put", "stamp"}
      BY <1>2, <3>1, <3>2
    <3> QED BY <2>3, <3>3
  <2> QED BY <2>2, <2>3
<1>4. ASSUME NEW a \in Calls, NEW d \in Calls,
             calls'[a].pc \in AtClock, calls'[d].pc \in AtClock
      PROVE  a = d
  BY <1>2, <1>4
<1>5. ASSUME NEW a \in Calls, calls'[a].pc = "total" PROVE a = c
  BY <1>2, <1>5 DEF AtClock
<1> QED BY <1>3, <1>4, <1>5 DEF CountedInv

LEMMA LookedKeeps ==
    ASSUME Inv2, NEW c \in Calls, AnyGoes(c), ~torn, day' = day,
           \/ checked' = day /\ (OutClear(c) \/ (OutFree(c) /\ ~hasCrossed4AM))
           \/ checked' = checked /\ calls[c].pc # "start"
    PROVE  LookedInv'
<1>1. Inv /\ Goer(c) /\ Outcome(c)
  BY WaysOut DEF Inv2
<1>2. checked' <= day'
  BY <1>1 DEF Inv2, LookedInv, Inv, TypeInv, Days
<1>3. CASE OutClear(c)
  BY <1>1, <1>2, <1>3, ClearFacts DEF LookedInv
<1>4. CASE checked' = day /\ OutFree(c) /\ ~hasCrossed4AM
  <2>1. cache' = cache /\ born' = born
    BY <1>1, <1>4, FreeFacts
  <2>2. cache.time = 0 \/ cache.time = day
    BY <1>4 DEF hasCrossed4AM
  <2>3. ASSUME NEW p \in cache.phrases PROVE born[p] = day
    BY <1>1, <2>2, <2>3 DEF Inv, CacheInv, PutsToday
  <2> QED BY <1>2, <2>1, <2>3 DEF LookedInv
<1>5. CASE checked' = checked /\ calls[c].pc # "start" /\ ~OutClear(c)
  <2> SUFFICES ASSUME checked = day, \A a \in Calls : calls'[a].pc # "start"
               PROVE  \A p \in cache'.phrases : born'[p] = day
    BY <1>2, <1>5 DEF LookedInv
  <2>1. \A a \in Calls : calls[a].pc # "start"
    BY <1>1, <1>5, GoesOn DEF Moved
  <2>2. \A p \in cache.phrases : born[p] = day
    BY <2>1 DEF Inv2, LookedInv
  <2>3. CASE OutPut(c)
    BY <1>1, <2>3, PutFacts
  <2>4. CASE OutRest(c) \/ OutStamp(c) \/ OutFree(c)
    <3>1. cache'.phrases = cache.phrases /\ born' = born
      BY <1>1, <2>4, RestFacts, StampFacts, FreeFacts
    <3> QED BY <2>2, <3>1
  <2> QED BY <1>1, <1>5, <2>3, <2>4 DEF Outcome
<1> QED BY <1>3, <1>4, <1>5

LEMMA TimeKeeps ==
    ASSUME Inv2, NEW c \in Calls, AnyGoes(c), ~torn, day' = day
    PROVE  TimeInv'
<1>1. Inv /\ Goer(c) /\ Outcome(c)
  BY WaysOut DEF Inv2
<1>2. \A a \in Calls \ {c} : calls'[a] = calls[a]
  BY <1>1, GoesOn DEF Moved
<1>3. cache'.time \in {cache.time, 0, day}
  BY <1>1, ClearFacts, RestFacts, PutFacts, StampFacts, FreeFacts DEF Outcome
<1> SUFFICES ASSUME NEW a \in Calls,
                    \/ calls'[a].pc = "put"
                    \/ calls'[a].pc = "remove_rest" /\ calls'[a].for = "add"
             PROVE  cache'.time \in {0, day}
  BY DEF TimeInv
<1>4. CASE a # c
  BY <1>2, <1>3, <1>4 DEF Inv2, TimeInv
<1>5. CASE a = c
  <2>1. CASE OutPut(c)
    <3>1. /\ cache'.time = cache.time
          /\ \/ calls[c].pc = "remove_rest" /\ calls[c].for = "add"
             \/ ~hasCrossed4AM
      BY <1>1, <2>1, PutFacts, WaysOut
    <3>2. ~hasCrossed4AM => cache.time \in {0, day}
      BY DEF hasCrossed4AM
    <3> QED BY <3>1, <3>2 DEF Inv2, TimeInv
  <2>2. CASE OutRest(c)
    BY <1>1, <2>2, RestFacts
  <2>3. CASE OutClear(c) \/ OutStamp(c) \/ OutFree(c)
    <3>1. calls'[c].pc \notin {"put", "remove_rest"}
      BY <1>1, <2>3, ClearFacts, StampFacts, FreeFacts
    <3> QED BY <1>5, <3>1
  <2> QED BY <1>1, <2>1, <2>2, <2>3 DEF Outcome
<1> QED BY <1>4, <1>5

\* A handler goes on, whatever fails.
LEMMA HandlerGoes ==
    ASSUME Inv, NEW c \in Calls, Handler(c)
    PROVE  Goer(c) /\ Outcome(c)
<1>1. CASE Starts(c)
  BY <1>1, StartOut DEF Goer, Outcome
<1>2. CASE Answer(c)
  BY <1>2, AnswerOut DEF Goer, Outcome, AnswerDone, AnswerFailed
<1> QED BY <1>1, <1>2 DEF Handler

LEMMA HandlerNext2 ==
    ASSUME Inv2, NEW c \in Calls, Handler(c)
    PROVE  RestInv' /\ ShownInv' /\ CountedInv' /\ LookedInv' /\ TimeInv'
<1>1. Inv /\ Goer(c) /\ Outcome(c)
  BY HandlerGoes DEF Inv2
<1>2. CASE ~torn'
  <2>1. /\ ~torn /\ AnyGoes(c) /\ day' = day
        /\ \/ checked' = day /\ (OutClear(c) \/ (OutFree(c) /\ ~hasCrossed4AM))
           \/ checked' = checked /\ calls[c].pc # "start"
    BY <1>1, <1>2, HandlerOut
  <2> QED BY <1>1, <2>1, RestKeeps, ShownKeeps, CountedKeeps, LookedKeeps, TimeKeeps
<1>3. CASE torn'
  <2>1. checked' \in {checked, day} /\ day' = day
    BY StartOut, AnswerOut DEF Handler, Inv2
  <2>2. checked' <= day'
    BY <2>1 DEF Inv2, LookedInv, Inv, TypeInv, Days
  <2>3. CountedInv'
    BY <1>1, <1>3, CountedKeeps
  <2> QED BY <1>3, <2>2, <2>3 DEF RestInv, ShownInv, LookedInv, TimeInv
<1> QED BY <1>2, <1>3

LEMMA LaunchNext2 ==
    ASSUME Inv2, NEW c \in Calls, Launch(c)
    PROVE  RestInv' /\ ShownInv' /\ CountedInv' /\ LookedInv' /\ TimeInv'
<1>1. /\ \A a \in Calls : calls[a] = Idle
      /\ calls' = [calls EXCEPT ![c] = Called("check", {}, TRUE)]
      /\ calls \in [Calls -> Call \cup {Idle}] /\ UNCHANGED <<day, checked>>
  BY DEF Launch, Inv2, Inv, HandlersInv, QueueInv
<1>2. /\ calls'[c].pc = "start"
      /\ \A a \in Calls \ {c} : calls'[a].pc = "idle"
  BY <1>1 DEF Called, Idle
<1>3. ShownInv' /\ CountedInv'
  BY <1>2 DEF ShownInv, Showing, CountedInv, AtClock
<1> QED BY <1>1, <1>2, <1>3 DEF Inv2, RestInv, LookedInv, TimeInv

LEMMA KillNext2 ==
    ASSUME Inv2, Kill
    PROVE  RestInv' /\ ShownInv' /\ CountedInv' /\ LookedInv' /\ TimeInv'
<1>1. /\ cache' = Nothing /\ shown' = {} /\ calls' = [a \in Calls |-> Idle]
      /\ UNCHANGED <<day, checked>>
  BY DEF Kill, SetState
<1>2. \A a \in Calls : calls'[a].pc = "idle"
  BY <1>1 DEF Idle
<1>3. cache'.phrases = {}
  BY <1>1 DEF Nothing
<1>4. CountedInv'
  BY <1>2 DEF CountedInv, AtClock
<1> QED BY <1>1, <1>2, <1>3, <1>4 DEF Inv2, RestInv, ShownInv, LookedInv, TimeInv

LEMMA FourAMNext2 ==
    ASSUME Inv2, FourAM
    PROVE  RestInv' /\ ShownInv' /\ CountedInv' /\ LookedInv' /\ TimeInv'
<1>1. /\ day' = day + 1 /\ UNCHANGED <<cache, writes, calls, shown, born, checked, stale>>
      /\ torn' = (torn \/ Adding({"remove_first", "remove_rest", "put"}))
  BY DEF FourAM
<1>2. ~torn' => /\ ~torn
                /\ \A a \in Calls : /\ calls[a].pc # "put"
                                    /\ calls[a].pc = "remove_rest" => calls[a].for # "add"
  <2> SUFFICES ASSUME ~torn', NEW a \in Calls,
                      \/ calls[a].pc = "put"
                      \/ calls[a].pc = "remove_rest" /\ calls[a].for = "add"
               PROVE  FALSE
    BY <1>1
  <2>1. calls[a] # Idle /\ calls[a].for = "add"
    BY DEF Idle, Inv2, Inv, HandlersInv
  <2> QED BY <1>1, <2>1 DEF Adding
<1>3. RestInv' /\ ShownInv' /\ CountedInv'
  BY <1>1, <1>2 DEF Inv2, RestInv, ShownInv, CountedInv, Before
<1>4. LookedInv'
  BY <1>1 DEF Inv2, LookedInv, Inv, TypeInv, Days
<1>5. TimeInv'
  BY <1>1, <1>2 DEF TimeInv
<1> QED BY <1>3, <1>4, <1>5

LEMMA InitInv2 == Init => Inv2
<1> SUFFICES ASSUME Init PROVE Inv2
  OBVIOUS
<1>1. \A c \in Calls : calls[c].pc = "idle"
  BY DEF Init, Idle
<1>2. shown = {} /\ cache.phrases = {} /\ checked = 0 /\ day = 1
  BY DEF Init, Nothing
<1>3. RestInv /\ ShownInv /\ CountedInv /\ LookedInv /\ TimeInv
  BY <1>1, <1>2 DEF RestInv, ShownInv, CountedInv, AtClock, LookedInv, TimeInv
<1> QED BY <1>3, InitInv DEF Inv2

LEMMA StepInv2 == Inv2 /\ [Next]_vars => Inv2'
<1> SUFFICES ASSUME Inv2, [Next]_vars PROVE Inv2'
  OBVIOUS
<1>1. Inv'
  BY StepInv DEF Inv2
<1>2. ASSUME NEW c \in Calls, Launch(c) PROVE Inv2'
  BY <1>1, <1>2, LaunchNext2 DEF Inv2
<1>3. ASSUME NEW c \in Calls, Handler(c) PROVE Inv2'
  BY <1>1, <1>3, HandlerNext2 DEF Inv2
<1>4. CASE Kill
  BY <1>1, <1>4, KillNext2 DEF Inv2
<1>5. CASE FourAM
  BY <1>1, <1>5, FourAMNext2 DEF Inv2
<1>6. CASE UNCHANGED vars
  <2>1. /\ UNCHANGED <<day, running, cache, disk, writes, calls, shown>>
        /\ UNCHANGED <<starts, born, checked, torn, stale>>
    BY <1>6 DEF vars, historyVars
  <2>2. RestInv' /\ ShownInv' /\ CountedInv' /\ LookedInv' /\ TimeInv'
    BY <2>1 DEF Inv2, RestInv, ShownInv, CountedInv, LookedInv, TimeInv, Before
  <2> QED BY <1>1, <2>2 DEF Inv2
<1> QED BY <1>2, <1>3, <1>4, <1>5, <1>6 DEF Next, Handler, Starts

LEMMA Invariance2 == Spec => []Inv2
  BY InitInv2, StepInv2, PTL DEF Spec

\* When no handler is left, the page shows exactly what is kept, whichever
\* handler showed last (one_day_page.dart:48-96, 403-460, 577-588), unless a
\* write failed or the page is stale: 4 in the morning fell between the two
\* readings of the clock of the _loadPhrases that showed it (lines 77-85).
THEOREM ShownIsKeptHolds == Spec => []ShownIsKept
<1>1. Inv2 => ShownIsKept
  <2> SUFFICES ASSUME Inv2, AtRest, ~torn, ~stale PROVE shown = cache.phrases
    BY DEF ShownIsKept
  <2>1. \A c \in Calls : calls[c].pc = "idle"
    BY DEF AtRest, Idle
  <2> QED BY <2>1 DEF Inv2, ShownInv, Showing
<1> QED BY <1>1, Invariance2, PTL

\* After a start or a resume of today, the page shows no phrase of an earlier
\* day (one_day_close_repo.dart:38-58), but for what the same two cases leave.
THEOREM ShowsTodayHolds == Spec => []ShowsToday
<1>1. Inv2 => ShowsToday
  <2> SUFFICES ASSUME Inv2, AtRest, ~torn, ~stale, checked = day, NEW p \in shown
               PROVE  born[p] = day
    BY DEF ShowsToday
  <2>1. \A c \in Calls : calls[c].pc = "idle"
    BY DEF AtRest, Idle
  <2>2. shown = cache.phrases
    BY <2>1 DEF Inv2, ShownInv, Showing
  <2> QED BY <2>1, <2>2 DEF Inv2, LookedInv
<1> QED BY <1>1, Invariance2, PTL

\* No clear, however late its writes, takes a phrase of today with it, but for
\* the cases TodayIsKept names (one_day_close_repo.dart:92-140).
THEOREM TodayIsKeptHolds == Spec => TodayIsKept
<1> DEFINE Kept ==
      running /\ running' /\ ~torn' =>
        \A p \in cache.phrases :
            \/ p \in cache'.phrases
            \/ born[p] # day
            \/ \E c \in Calls : calls'[c] # Idle /\ calls'[c].for = "reset"
            \/ \E c \in Calls : calls[c].pc = "remove_rest" /\ calls[c].for = "add"
<1>1. Inv2 /\ [Next]_vars => [Kept]_vars
  <2> SUFFICES ASSUME Inv2, Next, running, running', ~torn', NEW p \in cache.phrases,
                      p \notin cache'.phrases
               PROVE  \/ born[p] # day
                      \/ \E c \in Calls : calls'[c] # Idle /\ calls'[c].for = "reset"
                      \/ \E c \in Calls : calls[c].pc = "remove_rest" /\ calls[c].for = "add"
    OBVIOUS
  <2>1. ASSUME NEW c \in Calls, Handler(c)
        PROVE  \/ born[p] # day
               \/ calls'[c] # Idle /\ calls'[c].for = "reset"
               \/ calls[c].pc = "remove_rest" /\ calls[c].for = "add"
    <3>1. Inv /\ ~torn /\ AnyGoes(c)
      BY <2>1, HandlerOut DEF Inv2
    <3>2. Goer(c) /\ Outcome(c) /\ (OutPut(c) => calls[c].pc # "remove_first")
      BY <3>1, WaysOut
    <3>3. CASE OutClear(c)
      <4>1. CASE calls'[c].for = "reset"
        <5>1. calls'[c].pc = "remove_first"
          BY <3>1, <3>2, <3>3, ClearFacts
        <5> QED BY <4>1, <5>1 DEF Idle
      <4>2. CASE hasCrossed4AM
        <5>1. cache.time # 0 /\ cache.time # day
          BY <4>2 DEF hasCrossed4AM
        <5>2. \A d \in Calls : calls[d].pc # "put"
          BY <3>1, <5>1 DEF Inv2, TimeInv
        <5> QED BY <3>1, <5>1, <5>2 DEF Inv, CacheInv
      <4> QED BY <3>1, <3>2, <3>3, <4>1, <4>2, ClearFacts
    <3>4. CASE OutPut(c)
      BY <3>1, <3>2, <3>4, PutFacts
    <3>5. CASE OutRest(c) \/ OutStamp(c) \/ OutFree(c)
      <4>1. cache'.phrases = cache.phrases
        BY <3>1, <3>2, <3>5, RestFacts, StampFacts, FreeFacts
      <4> QED BY <4>1
    <3> QED BY <3>2, <3>3, <3>4, <3>5 DEF Outcome
  <2>2. ASSUME NEW c \in Calls, Launch(c) PROVE FALSE
    BY <2>2 DEF Launch
  <2>3. CASE Kill
    BY <2>3 DEF Kill
  <2>4. CASE FourAM
    BY <2>4 DEF FourAM
  <2> QED BY <2>1, <2>2, <2>3, <2>4 DEF Next, Handler, Starts
<1> QED BY <1>1, Invariance2, PTL DEF Spec, TodayIsKept
=============================================================================
