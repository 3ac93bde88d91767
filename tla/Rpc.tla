--------------------------------- MODULE Rpc ---------------------------------
(***************************************************************************)
(* What the request path promises its clients: a client has one call at a  *)
(* time; the device runs the requests of a client in the order in which    *)
(* they were made, each at most once; and a call is answered only after    *)
(* its own request has run, with that run's outcome.  The caller may give  *)
(* up at any time, before or after the device runs the request.            *)
(***************************************************************************)
EXTENDS Integers, Sequences, Functions

CONSTANTS
  Clients,   \* those who make calls
  NoCall,    \* the client has no call
  Outcomes,  \* how a request can end
  Kind(_)    \* the kind of answer an outcome is reported with

VARIABLES
  last,      \* last[c]: the number of c's last call
  cur,       \* cur[c]: c's call, or NoCall
  ran,       \* ran[c]: the requests of c that the device has run, in order
  got        \* got[c]: the kind of the answer to cur[c], or "none"

rpcVars == <<last, cur, ran, got>>

Requests(c, n) == [from : {c}, n : {n}, op : Outcomes]

Init ==
  /\ last = [c \in Clients |-> 0]
  /\ cur  = [c \in Clients |-> NoCall]
  /\ ran  = [c \in Clients |-> <<>>]
  /\ got  = [c \in Clients |-> "none"]

(* c makes a call.                                                         *)
Call(c) ==
  /\ cur[c] = NoCall
  /\ last' = [last EXCEPT ![c] = @ + 1]
  /\ \E req \in Requests(c, last'[c]) : cur' = [cur EXCEPT ![c] = req]
  /\ UNCHANGED <<ran, got>>

(* The device runs a request of c, which may have given it up by then.     *)
Run(c) ==
  /\ \E n \in 1 .. last[c] : \E req \in Requests(c, n) :
       /\ \A r \in Range(ran[c]) : r.n < req.n
       /\ cur[c] # NoCall /\ cur[c].n = req.n => cur[c] = req
       /\ ran' = [ran EXCEPT ![c] = Append(@, req)]
  /\ UNCHANGED <<last, cur, got>>

(* The answer arrives.                                                     *)
Reply(c) ==
  /\ got[c] = "none"
  /\ cur[c] \in Range(ran[c])
  /\ got' = [got EXCEPT ![c] = Kind(cur[c].op)]
  /\ UNCHANGED <<last, cur, ran>>

(* The call is over, answered or given up.                                 *)
End(c) ==
  /\ cur[c] # NoCall
  /\ cur' = [cur EXCEPT ![c] = NoCall]
  /\ got' = [got EXCEPT ![c] = "none"]
  /\ UNCHANGED <<last, ran>>

Next == \E c \in Clients : Call(c) \/ Run(c) \/ Reply(c) \/ End(c)

Spec == Init /\ [][Next]_rpcVars

=============================================================================
