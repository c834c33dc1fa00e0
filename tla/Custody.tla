------------------------------ MODULE Custody ------------------------------
(***************************************************************************)
(* What the provider promises about servers, whatever lists, caches and    *)
(* delays are behind it.  A server is launched for one NodeClaim.  The     *)
(* NodeClaim keeps it: first by a pledge, which may be lost at any moment, *)
(* then on record, until the NodeClaim is closed; and that waits until a   *)
(* server on record is gone.  A server is doomed, which is to say somebody *)
(* sets out to delete it without being asked to, only while nobody keeps   *)
(* it; and nobody comes to keep it afterwards.                             *)
(*                                                                         *)
(* How long a doomed server lives, and whether it is spared in the end, is *)
(* left open, and so is who else deletes a server.                         *)
(***************************************************************************)
CONSTANTS Claims, Servers, None

VARIABLES
  life,     \* of a server: "unborn", "running" or "gone"
  pledge,   \* the server a NodeClaim keeps in memory only
  record,   \* the server a NodeClaim has on record
  closed,   \* the NodeClaims that have been released
  doomed    \* the servers set to be deleted as nobody's

custodyVars == <<life, pledge, record, closed, doomed>>

Kept(s) == \E c \in Claims \ closed : s \in {pledge[c], record[c]}

Init ==
  /\ life = [s \in Servers |-> "unborn"]
  /\ pledge = [c \in Claims |-> None] /\ record = [c \in Claims |-> None]
  /\ closed = {} /\ doomed = {}

Launch(c, s) ==
  /\ c \notin closed /\ pledge[c] = None /\ record[c] = None
  /\ life[s] = "unborn"
  /\ life' = [life EXCEPT ![s] = "running"]
  /\ pledge' = [pledge EXCEPT ![c] = s]
  /\ UNCHANGED <<record, closed, doomed>>

Record(c) ==
  /\ c \notin closed /\ pledge[c] # None /\ record[c] = None
  /\ record' = [record EXCEPT ![c] = pledge[c]]
  /\ pledge' = [pledge EXCEPT ![c] = None]
  /\ UNCHANGED <<life, closed, doomed>>

\* A lost answer, a restart, the end of a pass: pledges are lost and servers spared.
Forget(C) ==
  /\ pledge' = [c \in Claims |-> IF c \in C THEN None ELSE pledge[c]]
  /\ doomed' \subseteq doomed
  /\ UNCHANGED <<life, record, closed>>

Close(c) ==
  /\ c \notin closed
  /\ record[c] = None \/ life[record[c]] = "gone"
  /\ closed' = closed \cup {c}
  /\ pledge' = [pledge EXCEPT ![c] = None]
  /\ UNCHANGED <<life, record, doomed>>

Doom(s) ==
  /\ life[s] # "unborn" /\ ~Kept(s)
  /\ doomed' = doomed \cup {s}
  /\ UNCHANGED <<life, pledge, record, closed>>

Die(s) ==
  /\ life[s] = "running"
  /\ life' = [life EXCEPT ![s] = "gone"]
  /\ UNCHANGED <<pledge, record, closed, doomed>>

Next ==
  \/ \E C \in SUBSET Claims : Forget(C)
  \/ \E c \in Claims : Record(c) \/ Close(c) \/ \E s \in Servers : Launch(c, s)
  \/ \E s \in Servers : Doom(s) \/ Die(s)

Spec == Init /\ [][Next]_custodyVars

============================================================================
