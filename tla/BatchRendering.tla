--------------------------- MODULE BatchRendering ---------------------------
(***************************************************************************)
(* What a caller of batch_generate_images may rely on: the call returns a  *)
(* list with one entry per text, in the order of the texts, each the image *)
(* of its own text or NoImage; or it raises. Either way none of its own    *)
(* threads is left at work when it is over. How often a request was sent,  *)
(* by which thread it was rendered and in which order images arrived       *)
(* cannot be observed.                                                     *)
(***************************************************************************)
EXTENDS Integers

CONSTANTS MaxItems, NoImage

VARIABLES call,       \* number of the call
          size,       \* number of its texts
          images,     \* what it returned
          working,    \* the texts its threads still work on
          status      \* "idle", "busy", "returned" or "raised"

vars == <<call, size, images, working, status>>

Init == call = 0 /\ size = 0 /\ images = <<>> /\ working = {} /\ status = "idle"

Call ==
  /\ status # "busy"
  /\ call' = call + 1
  /\ \E n \in 1..MaxItems : size' = n /\ working' = 1..n
  /\ images' = <<>>
  /\ status' = "busy"

Finish ==
  /\ status = "busy"
  /\ \E i \in working : working' = working \ {i}
  /\ UNCHANGED <<call, size, images, status>>

Return ==
  /\ status = "busy" /\ working = {}
  /\ \E shown \in SUBSET (1..size) :
       images' = [i \in 1..size |-> IF i \in shown THEN <<call, i>> ELSE NoImage]
  /\ status' = "returned"
  /\ UNCHANGED <<call, size, working>>

Raise ==
  /\ status = "busy" /\ working = {}
  /\ status' = "raised"
  /\ UNCHANGED <<call, size, images, working>>

Next == Call \/ Finish \/ Return \/ Raise

Spec == Init /\ [][Next]_vars
=============================================================================
