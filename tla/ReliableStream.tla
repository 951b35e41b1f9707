---------------------------- MODULE ReliableStream ----------------------------
(***************************************************************************)
(* What durable agent delivery promises, without its mechanism: the events *)
(* of one stream are consumed in the order they were produced, each once;  *)
(* the producer may forget an event only when it is consumed for good.     *)
(* A loss of power may undo what was consumed, but never what was          *)
(* forgotten, so everything that is undone can be consumed again.          *)
(***************************************************************************)
EXTENDS Naturals

VARIABLES
  produced,     \* the number of events in the stream
  consumed,     \* the events 1..consumed have been consumed
  released      \* the events 1..released can no longer be replayed

streamVars == <<produced, consumed, released>>

StreamInit == produced = 0 /\ consumed = 0 /\ released = 0

Produce == produced' = produced + 1 /\ UNCHANGED <<consumed, released>>

Consume ==
  /\ consumed' \in (consumed + 1)..produced
  /\ UNCHANGED <<produced, released>>

Undo ==
  /\ consumed' \in released..consumed
  /\ UNCHANGED <<produced, released>>

Release ==
  /\ released' \in (released + 1)..consumed
  /\ UNCHANGED <<produced, consumed>>

StreamNext == Produce \/ Consume \/ Undo \/ Release

StreamSpec == StreamInit /\ [][StreamNext]_streamVars
=============================================================================
