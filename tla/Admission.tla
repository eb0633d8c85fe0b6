----------------------------- MODULE Admission -----------------------------
(***************************************************************************)
(* What the circuit breaker of a cluster promises, with none of its        *)
(* counters: at most Capacity requests are admitted at a time, and at most *)
(* RoomSize of the requests of a room wait for capacity.  There is no      *)
(* order among the waiting ones, and a denied request may wait or go away. *)
(* An admitted request either gives its slot back or loses it for good.    *)
(***************************************************************************)
EXTENDS Naturals, FiniteSets

CONSTANTS
  Clients,   \* who asks for admission
  Rooms,     \* the waiting rooms
  RoomOf,    \* the room a client waits in
  RoomSize,  \* places in a room
  Capacity   \* slots, 0 = unlimited

VARIABLES
  admitted,  \* the clients that hold a slot
  waiting,   \* the clients in a room
  lost       \* the slots that will not come back

admissionVars == <<admitted, waiting, lost>>

Init ==
  /\ admitted = {}
  /\ waiting = {}
  /\ lost = 0

HasSlot == Capacity = 0 \/ Cardinality(admitted) + lost < Capacity

\* A client is admitted, from outside or while it sits in its room.
Admit(c) ==
  /\ c \notin admitted
  /\ HasSlot
  /\ admitted' = admitted \cup {c}
  /\ UNCHANGED <<waiting, lost>>

GiveBack(c) ==
  /\ c \in admitted
  /\ c \notin waiting
  /\ admitted' = admitted \ {c}
  /\ UNCHANGED <<waiting, lost>>

\* A slot is lost, by a client outside, or by one that leaves its room with it.
Lose(c) ==
  /\ c \in admitted
  /\ admitted' = admitted \ {c}
  /\ waiting' = waiting \ {c}
  /\ lost' = lost + 1

Enter(c) ==
  /\ c \notin admitted \cup waiting
  /\ Cardinality({d \in waiting : RoomOf[d] = RoomOf[c]}) < RoomSize
  /\ waiting' = waiting \cup {c}
  /\ UNCHANGED <<admitted, lost>>

\* A client leaves its room, with a slot or because it gives up.
Leave(c) ==
  /\ c \in waiting
  /\ waiting' = waiting \ {c}
  /\ UNCHANGED <<admitted, lost>>

Next ==
  \E c \in Clients : Admit(c) \/ GiveBack(c) \/ Lose(c) \/ Enter(c) \/ Leave(c)

Spec == Init /\ [][Next]_admissionVars
=============================================================================
