--------------------------- MODULE ResumeLibrary ---------------------------
(***************************************************************************)
(* What the resume store promises its users, in one atomic step per        *)
(* operation: an upload puts a whole resume on the shelf, unless its owner *)
(* has that one there, and a delete takes it away, for its owner only and  *)
(* for good.  A request is open from when it is let in until it takes      *)
(* effect or is dropped.                                                   *)
(***************************************************************************)
CONSTANTS Users, Keys, Contents, Clients, NoResume

Request == [op : {"add"}, user : Users, key : Keys, content : Contents]
           \cup [op : {"remove"}, user : Users, key : Keys]

Nothing == [op |-> "none"]

VARIABLES
  shelf,   \* the resume that can be read under each key, or NoResume
  used,    \* the keys that have ever been on the shelf
  request  \* the open request of each client, or Nothing

library == <<shelf, used, request>>

Init ==
  /\ shelf = [k \in Keys |-> NoResume]
  /\ used = {}
  /\ request = [c \in Clients |-> Nothing]

Open(c, r) ==
  /\ request[c] = Nothing
  /\ request' = [request EXCEPT ![c] = r]
  /\ UNCHANGED <<shelf, used>>

Drop(c) ==
  /\ request' = [request EXCEPT ![c] = Nothing]
  /\ UNCHANGED <<shelf, used>>

Add(c) ==
  LET r == request[c]
      resume == [user |-> r.user, content |-> r.content]
  IN
  /\ r.op = "add"
  /\ r.key \notin used
  /\ \A k \in Keys : shelf[k] # resume
  /\ shelf' = [shelf EXCEPT ![r.key] = resume]
  /\ used' = used \cup {r.key}
  /\ request' = [request EXCEPT ![c] = Nothing]

Remove(c) ==
  LET r == request[c] IN
  /\ r.op = "remove"
  /\ shelf[r.key] # NoResume /\ shelf[r.key].user = r.user
  /\ shelf' = [shelf EXCEPT ![r.key] = NoResume]
  /\ request' = [request EXCEPT ![c] = Nothing]
  /\ UNCHANGED used

Next ==
  \E c \in Clients :
    (\E r \in Request : Open(c, r)) \/ Drop(c) \/ Add(c) \/ Remove(c)

Spec == Init /\ [][Next]_library
=============================================================================
