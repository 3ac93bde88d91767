-------------------------------- MODULE Wire --------------------------------
(***************************************************************************)
(* What connects the three programs of microfuse: per client (Link) a Unix *)
(* socket to the multiplexer, and one TCP connection from the multiplexer  *)
(* to the embedded device.  Link, Multiplexer and UFuseClient each extend  *)
(* this module; RequestPath composes them.                                 *)
(*                                                                         *)
(* A request is named by who made it and its number there; that name, and  *)
(* the outcome its command has on the device, are the message's data `d`.  *)
(* Only the field `i` is looked at by the code on the way, and it is       *)
(* rewritten at every hop.                                                 *)
(***************************************************************************)
EXTENDS Integers, Sequences, Functions

CONSTANTS
  Links,      \* the Link objects; each connects at most once
  Chat,       \* the ChatObj of the multiplexer's watchdog
  Ops,        \* outcomes a command can have on the device
  MaxSeq,     \* bound: requests per Link
  MaxPing,    \* bound: pings of the watchdog
  Watchdog    \* is the watchdog configured?

(* How a command can end on the device: "ok" it returns a value, "serr" it *)
(* raises ServerError, "exc" any other exception, "unk" there is no such   *)
(* command, "quiet" it returns IsHandled.                                  *)
Outcomes == {"ok", "serr", "exc", "unk", "quiet"}

ASSUME WireAssumption ==
  /\ Chat \notin Links
  /\ Ops \subseteq Outcomes
  /\ MaxSeq \in Nat
  /\ MaxPing \in Nat
  /\ Watchdog \in BOOLEAN

Peers == Links \cup {Chat}

Request == [from : Peers, n : Nat \ {0}, op : Outcomes]
NoCall  == [from |-> Chat, n |-> 0, op |-> "ok"]

(* Messages: a request with its id, and a reply, of kind "r" or "e".       *)
ReqMsg == [i : Nat \ {0}, d : Request]
RepMsg == [k : {"r", "e"}, i : Nat \ {0}, d : Request]

(* The kind of the reply that a request deserves.                          *)
Kind(op) == IF op = "ok" THEN "r" ELSE "e"

With(f, k, v)  == [x \in DOMAIN f \cup {k} |-> IF x = k THEN v ELSE f[x]]
Without(f, k)  == Restrict(f, DOMAIN f \ {k})
Nothing        == Restrict(<<>>, {})

VARIABLES
  alive,    \* is the multiplexer's process running?
  lsock,    \* lsock[l]: the Link's end of its Unix socket
  msock,    \* msock[l]: the multiplexer's end of that socket
  up,       \* up[l]: requests from l that the multiplexer has not read
  down,     \* down[l]: replies to l that l has not read
  dsock,    \* the TCP connection to the device
  toDev,    \* messages to the device that it has not processed
  fromDev   \* replies of the device that the multiplexer has not read

unixVars == <<lsock, msock, up, down>>
tcpVars  == <<dsock, toDev, fromDev>>
wireVars == <<alive, unixVars, tcpVars>>

WireInit ==
  /\ alive   = TRUE
  /\ lsock   = [l \in Links |-> "none"]
  /\ msock   = [l \in Links |-> "none"]
  /\ up      = [l \in Links |-> <<>>]
  /\ down    = [l \in Links |-> <<>>]
  /\ dsock   = "open"
  /\ toDev   = <<>>
  /\ fromDev = <<>>

WireTypeOK ==
  /\ alive \in BOOLEAN
  /\ lsock \in [Links -> {"none", "open", "closed"}]
  /\ msock \in [Links -> {"none", "open", "closed"}]
  /\ up    \in [Links -> Seq(ReqMsg)]
  /\ down  \in [Links -> Seq(RepMsg)]
  /\ dsock \in {"open", "closed"}
  /\ toDev \in Seq(ReqMsg)
  /\ fromDev \in Seq(RepMsg)

=============================================================================
