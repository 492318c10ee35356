------------------------------ MODULE ChatRoom ------------------------------
(***************************************************************************)
(* What a chat promises, whichever app shows it: a screen shows messages   *)
(* that were posted to this room, and while it is open none of them        *)
(* disappears from it.                                                     *)
(***************************************************************************)
EXTENDS Naturals

CONSTANTS Pet, Id    \* the two sides; the messages' identities

VARIABLES
  posted,            \* the messages handed to the room
  shown              \* shown[p]: those on the screen of p's owner

Init == posted = {} /\ shown = [p \in Pet |-> {}]

\* p's owner sends a message; the app may put it on the screen at once.
Post(p) ==
  \E m \in Id \ posted :
    /\ posted' = posted \cup {m}
    /\ shown' \in {shown, [shown EXCEPT ![p] = @ \cup {m}]}

\* The screen of p's owner catches up.
Show(p) ==
  \E new \in SUBSET posted :
    /\ shown' = [shown EXCEPT ![p] = @ \cup new]
    /\ UNCHANGED posted

\* The chat is left, or the app ends while it sends.
Leave(p) ==
  /\ shown' = [shown EXCEPT ![p] = {}]
  /\ posted' \in {posted} \cup {posted \cup {m} : m \in Id}

Next == \E p \in Pet : Post(p) \/ Show(p) \/ Leave(p)

Spec == Init /\ [][Next]_<<posted, shown>>

=============================================================================
