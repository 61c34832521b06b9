-------------------------- MODULE AtomicPublication --------------------------
(***************************************************************************)
(* What pkg/playbackasset promises of one target: a product is published   *)
(* for a source in one step, and the source may go only while its own      *)
(* product stands.  A publication that was not yet durable may be undone,  *)
(* but never after its source has gone, and never turned into another's.   *)
(***************************************************************************)
CONSTANTS Sources, None

VARIABLES
  present,  \* the sources that have not been deleted
  product   \* the source whose validated product stands, or None

vars == <<present, product>>

Init == present = Sources /\ product = None

Publish(s) ==
  /\ product = None /\ s \in present
  /\ product' = s /\ UNCHANGED present

Undo ==
  /\ product \in present
  /\ product' = None /\ UNCHANGED present

DeleteSource ==
  /\ product \in present
  /\ present' = present \ {product} /\ UNCHANGED product

\* The removal of the source was not durable yet.
Restore(s) ==
  /\ product = s /\ s \in Sources \ present
  /\ present' = present \cup {s} /\ UNCHANGED product

Next == Undo \/ DeleteSource \/ \E s \in Sources : Publish(s) \/ Restore(s)

Spec == Init /\ [][Next]_vars
==============================================================================
