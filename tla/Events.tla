-------------------------------- MODULE Events --------------------------------
(***************************************************************************)
(* What the modules about one turn say of a sequence of its events         *)
(* (events.py): the events of one type, in their order.                    *)
(***************************************************************************)
EXTENDS Integers, Sequences

(* kept[i] is what of the first i events is of type t.                      *)
OfType(events, t) ==
  LET kept[i \in 0 .. Len(events)] ==
        IF i = 0 THEN <<>>
        ELSE IF events[i].type = t THEN Append(kept[i - 1], events[i])
        ELSE kept[i - 1]
  IN kept[Len(events)]
=============================================================================
