--------------------------- MODULE MCRequestManager ---------------------------
(* A small session for the request manager. *)
EXTENDS RequestManager

CONSTANT MaxFaults      \* bound: faults of the network and the server

VARIABLES faults,
          broken        \* what has failed: "network", "server" or "store"

mcvars == <<vars, faults, broken>>

(* addLabelData creates d while its group g is locked; a reload locks g and  *)
(* the chapter content c; a text operation updates c and rebinds d; a        *)
(* cleanup detaches d.                                                      *)
SessionNeeds ==
  <<[g |-> "locked", d |-> "creating"],
    [g |-> "locked", c |-> "locked"],
    [c |-> "updating", d |-> "idUpdating"],
    [d |-> "detaching"]>>

MCInit == Init /\ faults = 0 /\ broken = {}

(* A server that was reached may be slow; anything else breaks the network. *)
Arrived(r) == \A c \in calls : c.key = KeyOf(r) => c.stage # "sent"

Quiet(A) == A /\ UNCHANGED <<faults, broken>>
Fault(A, breaks) ==
  /\ A /\ faults < MaxFaults /\ faults' = faults + 1
  /\ broken' = broken \cup breaks

LossyNext ==
  \/ Quiet(Client)
  \/ Quiet(Server)
  \/ \E r \in Request : Fault(Timeout(r), IF Arrived(r) THEN {} ELSE {"network"})
  \/ \E r \in Request : Fault(ConnectionFails(r), {"network"})
  \/ (\E c \in calls : CallLost(c)) /\ broken' = broken \cup {"network"} /\ UNCHANGED faults

(* Servers fail as well: the storing of a result fails, or the server dies.  *)
(* After a result that could not be stored a stored failure ends the request; *)
(* an entry that stays pending has lost its answer.                         *)
SessionNext ==
  \/ LossyNext
  \/ Fault(\E c \in calls : StoreFails(c), IF cache' = cache THEN {"store"} ELSE {})
  \/ Fault(\E c \in calls : ServerDies(c), {"server"})

SessionSpec == MCInit /\ [][SessionNext]_mcvars /\ Fairness

(* While no server dies or loses a result and no error is fatal, the cache    *)
(* lets the function run once for a key, however often the key is sent.      *)
KeyRunsOnce == broken \cap {"server", "store"} = {} /\ NoFatal => \A k \in Key : ran[k] <= 1

(* As long as nothing breaks and no error is fatal, a slow server is polled   *)
(* instead of asked again: a request takes effect at most once, with all of   *)
(* its keys.                                                                *)
TakesEffectOnce ==
  broken = {} /\ NoFatal =>
    \A k, l \in Key : k[1] = l[1] /\ ran[k] > 0 /\ ran[l] > 0 => k = l /\ ran[k] = 1
=============================================================================
