---------------------------- MODULE MCItinerary ----------------------------
(***************************************************************************)
(* Instance of Itinerary for TLC: a trip that already has a slot with an   *)
(* option, as its first two operations left it.                            *)
(***************************************************************************)
EXTENDS Itinerary

CONSTANTS s1, o1, p1

MCSeedTables ==
    [EmptyTables EXCEPT !.slots[s1] = CreateSlot(Nil, Nil, Nil, p1),
                        !.options[o1] = CreateSlotOption(s1, Nil, Nil)]

Symmetry == Permutations(Users)
=============================================================================
