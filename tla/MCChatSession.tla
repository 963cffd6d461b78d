--------------------------- MODULE MCChatSession ---------------------------
(* Small instances of ChatSession. *)
EXTENDS ChatSession, TLC

Events4(f, t, a, r) == [fault |-> f, toggle |-> t, restart |-> a, reset |-> r]

Lifecycle  == Events4(1, 1, 1, 1)
OneFault   == Events4(1, 0, 0, 0)
Quiet      == Events4(0, 0, 0, 0)

(* Either one configuration toggle or at most two of the other rare events. *)
FewRare ==
    2 * left["toggle"] + left["fault"] + left["restart"] + left["reset"] >= 3

AnyTurn == Permutations(Turns)
=============================================================================
