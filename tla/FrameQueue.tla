---------------------------- MODULE FrameQueue -----------------------------
(***************************************************************************)
(* What the frame pipeline promises its producer and its consumer          *)
(* (shell/common/pipeline.h of apps/after_app/engine/src/flutter):         *)
(* a place is promised before a frame is made, frames are drawn in the     *)
(* order of their numbers, and no more than Depth of them are promised,    *)
(* wait or are drawn at a time.  A frame that has to be drawn once more    *)
(* needs a new place, and an empty queue.                                  *)
(*                                                                         *)
(* FramePipeline implements this with two semaphores and a mutex.          *)
(***************************************************************************)
EXTENDS Integers, Sequences, FiniteSets

CONSTANTS
  Depth,   \* the places
  Frame,   \* the frames, records with a number: no
  Producer \* who makes them

VARIABLES
  promised,  \* whom a place is promised: the producer, frames to draw again
  line,      \* the frames that wait
  drawn,     \* the frames that are being drawn
  undone     \* the frames that may be drawn again

vars == <<promised, line, drawn, undone>>

Init == promised = {} /\ line = <<>> /\ drawn = {} /\ undone = {}

InUse == Cardinality(promised) + Len(line) + Cardinality(drawn)

Promise(who) ==
  /\ InUse < Depth
  /\ promised' = promised \cup {who}
  /\ UNCHANGED <<line, drawn, undone>>

Push(f) ==
  /\ Producer \in promised
  /\ \A i \in DOMAIN line : line[i].no < f.no
  /\ line' = Append(line, f)
  /\ promised' = promised \ {Producer}
  /\ UNCHANGED <<drawn, undone>>

Take ==
  /\ line # <<>>
  /\ line' = Tail(line)
  /\ drawn' = drawn \cup {Head(line)}
  /\ UNCHANGED <<promised, undone>>

Finish(f) ==
  /\ drawn' = drawn \ {f}
  /\ undone' \in {undone, undone \cup {f}}
  /\ UNCHANGED <<promised, line>>

PutBack(f) ==
  /\ f \in promised
  /\ line = <<>>
  /\ line' = <<f>>
  /\ promised' = promised \ {f} /\ undone' = undone \ {f}
  /\ UNCHANGED drawn

GiveUp(f) ==
  /\ promised' = promised \ {f} /\ undone' = undone \ {f}
  /\ UNCHANGED <<line, drawn>>

Next ==
  \/ \E who \in {Producer} \cup undone : Promise(who)
  \/ Take
  \/ \E f \in Frame : Push(f)
  \/ \E f \in drawn : Finish(f)
  \/ \E f \in undone : PutBack(f) \/ GiveUp(f)

Spec == Init /\ [][Next]_vars
=============================================================================
