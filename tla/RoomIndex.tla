----------------------------- MODULE RoomIndex -----------------------------
(***************************************************************************)
(* What the room manager promises its callers: a table of the rooms that   *)
(* list each connection.  An entry is made or deleted atomically, only     *)
(* while a call about that connection and that room is in progress.  The   *)
(* cleaner takes a room from all its members at once, and only if a call   *)
(* about the room is in progress for each of them.                         *)
(***************************************************************************)
CONSTANTS Rooms, Conns

VARIABLES
  member,  \* the rooms that list each connection
  busy     \* the connections and rooms that calls are about

Init ==
  /\ member = [c \in Conns |-> {}]
  /\ busy = {}

Begin(c, r) ==
  /\ <<c, r>> \notin busy
  /\ busy' = busy \cup {<<c, r>>}
  /\ UNCHANGED member

End(c, r) ==
  /\ <<c, r>> \in busy
  /\ busy' = busy \ {<<c, r>>}
  /\ UNCHANGED member

Enter(c, r) ==
  /\ <<c, r>> \in busy
  /\ r \notin member[c]
  /\ member' = [member EXCEPT ![c] = @ \cup {r}]
  /\ UNCHANGED busy

Leave(c, r) ==
  /\ <<c, r>> \in busy
  /\ r \in member[c]
  /\ member' = [member EXCEPT ![c] = @ \ {r}]
  /\ UNCHANGED busy

Drop(r) ==
  /\ \A c \in Conns : r \in member[c] => <<c, r>> \in busy
  /\ member' = [c \in Conns |-> member[c] \ {r}]
  /\ UNCHANGED busy

Next ==
  \/ \E c \in Conns, r \in Rooms :
       Begin(c, r) \/ End(c, r) \/ Enter(c, r) \/ Leave(c, r)
  \/ \E r \in Rooms : Drop(r)

Spec == Init /\ [][Next]_<<member, busy>>
=============================================================================
