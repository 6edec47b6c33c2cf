---------------------------- MODULE EnetServlet ----------------------------
(***************************************************************************)
(* The ENet side of the complex server, example/complex/enet_servlet.lua, and  *)
(* its clients, testclt_enet.lua.  The server takes one event of its host a    *)
(* turn and never waits; each client works through a fixed number of turns,     *)
(* asks in every SendEvery-th without waiting for answers, and disconnects.     *)
(* example/simple/ is the same server alone, with a client that asks once.      *)
(*                                                                          *)
(* ENet is external.  A connection carries what is sent in order and without   *)
(* loss until one side gives it up; what is sent before the sender knows of     *)
(* the connection is refused.  A host keeps a queue of the peers something has  *)
(* come from, and a disconnect discards what was not told yet.                  *)
(***************************************************************************)
EXTENDS Naturals, Sequences, SequencesExt

CONSTANTS
  Peers,        (* the connections, one for each run of testclt_enet.lua      *)
  SendEvery,    (* a client asks in every so manieth turn: 8                   *)
  MaxTurns      (* a client's turns: 1000                                     *)

(* What a host tells of a peer: the type of the event and the session of the   *)
(* request or answer that was received.                                       *)
Connect == <<"connect", 0>>
Disconnect == <<"disconnect", 0>>
Broadcast == <<"receive", 0>>
Message(n) == <<"receive", n>>

VARIABLES
  queue,                  \* the peers something has come from, in turn
  known,                  \* the peers connected, as the server's host knows
  count,                  \* M.count
  up, down,               \* per peer: what the server, the client is still to be told
  ppc, turn, session,     \* per client: where it is, its loop's count, its last session
  early, answered         \* its sessions: spent unconnected, answered

serverVars == <<queue, known, count>>
clientVars == <<ppc, turn, session, early, answered>>
vars == <<serverVars, up, down, clientVars>>

Init ==
  /\ queue = <<>> /\ known = {} /\ count = 0
  /\ up = [p \in Peers |-> <<>>] /\ down = [p \in Peers |-> <<>>]
  /\ ppc = [p \in Peers |-> "start"]
  /\ turn = [p \in Peers |-> 0] /\ session = [p \in Peers |-> 0]
  /\ early = [p \in Peers |-> {}] /\ answered = [p \in Peers |-> {}]

-----------------------------------------------------------------------------
(* The server: M.process(), once for every turn of main()'s loop             *)
(* (ComplexServer).                                                          *)

(* Everything sent to a client that is gone is lost.                          *)
Send(ps, what) ==
  down' = [p \in Peers |-> IF p \in ps /\ ppc[p] = "connected" THEN Append(down[p], what)
                                                              ELSE down[p]]

Idle == queue = <<>> /\ UNCHANGED <<serverVars, up, down, clientVars>>

(* Mutants: the answer goes to all, or to none.                               *)
Everybody(p) == known
Nobody(p) == {}

Told(p) == Head(up[p])
Asker(p) == {p} \cap known

(* host:service(0) tells of one event, of the peer whose turn it is.  If more  *)
(* has come from it the peer takes another turn, behind the others.            *)
Event(p) ==
  /\ queue # <<>> /\ p = Head(queue)
  /\ \/ queue' = Tail(queue)
     \/ Len(up[p]) > 1 /\ queue' = Append(Tail(queue), p)
  /\ up' = [up EXCEPT ![p] = Tail(@)]
  /\ count' = count + 1

(* A request is answered, by the handler in service/chat.lua.                  *)
Receive(p) ==
  /\ Event(p)
  /\ Told(p)[1] = "receive"
  /\ Send(Asker(p), Told(p))
  /\ UNCHANGED <<known, clientVars>>

(* All who are connected, the newcomer too, are told of it.                    *)
Connected(p) ==
  /\ Event(p)
  /\ Told(p) = Connect
  /\ known' = known \cup {p}
  /\ Send(known', Broadcast)
  /\ UNCHANGED clientVars

Disconnected(p) ==
  /\ Event(p)
  /\ Told(p) = Disconnect
  /\ known' = known \ {p}
  /\ UNCHANGED <<down, clientVars>>

process == Idle \/ \E p \in Peers : Receive(p) \/ Connected(p) \/ Disconnected(p)

-----------------------------------------------------------------------------
(* A client.                                                                 *)

Start(p) ==
  /\ ppc[p] = "start"
  /\ ppc' = [ppc EXCEPT ![p] = "connecting"]
  /\ UNCHANGED <<serverVars, up, down, turn, session, early, answered>>

(* host:service(100) in a turn: nothing comes in time, or the server has        *)
(* answered the connect, or there is an answer or a broadcast.                 *)
NoEvent(p) == UNCHANGED <<ppc, down, answered>>

Established(p) ==
  /\ ppc[p] = "connecting"
  /\ ppc' = [ppc EXCEPT ![p] = "connected"]
  /\ UNCHANGED <<down, answered>>

Hears(p) ==
  /\ down[p] # <<>>
  /\ down' = [down EXCEPT ![p] = Tail(@)]
  /\ answered' = [answered EXCEPT ![p] = @ \cup ({Head(down[p])[2]} \ {0})]
  /\ UNCHANGED ppc

(* send_request() counts a session; peer:send() says nothing if the            *)
(* connection is not up yet.                                                  *)
send_request(p) ==
  /\ session' = [session EXCEPT ![p] = @ + 1]
  /\ early' = IF ppc'[p] = "connected" THEN early
              ELSE [early EXCEPT ![p] = @ \cup {session'[p]}]

(* What the turn puts into the connection: that it is up, and the request.     *)
Outgoing(p) ==
  (IF ppc'[p] # ppc[p] THEN <<Connect>> ELSE <<>>)
  \o (IF session'[p] # session[p] /\ ppc'[p] = "connected" THEN <<Message(session'[p])>> ELSE <<>>)

Turn(p) ==
  /\ ppc[p] \in {"connecting", "connected"} /\ turn[p] < MaxTurns
  /\ turn' = [turn EXCEPT ![p] = @ + 1]
  /\ NoEvent(p) \/ Established(p) \/ Hears(p)
  /\ IF turn[p] % SendEvery = 0 THEN send_request(p) ELSE UNCHANGED <<session, early>>
  /\ up' = [up EXCEPT ![p] = @ \o Outgoing(p)]
  /\ UNCHANGED serverVars

(* server:disconnect() and the end, after the last turn; or the client is       *)
(* killed before.                                                             *)
Leave(p) ==
  /\ ppc[p] \in {"connecting", "connected"}
  /\ ppc' = [ppc EXCEPT ![p] = IF @ = "connected" THEN "left" ELSE "gone"]
  /\ down' = [down EXCEPT ![p] = <<>>]
  /\ UNCHANGED <<serverVars, up, turn, session, early, answered>>

-----------------------------------------------------------------------------
(* The network.                                                              *)

Arrive(p) ==
  /\ up[p] # <<>> /\ p \notin ToSet(queue)
  /\ queue' = Append(queue, p)
  /\ UNCHANGED <<known, count, up, down, clientVars>>

(* The disconnect has come, or the client was not heard of for long.           *)
LosePeer(p) ==
  /\ ppc[p] = "left"
  /\ ppc' = [ppc EXCEPT ![p] = "gone"]
  /\ up' = [up EXCEPT ![p] = <<Disconnect>>]
  /\ UNCHANGED <<serverVars, down, turn, session, early, answered>>

Client(p) == Turn(p) \/ Leave(p)
Network(p) == Arrive(p) \/ LosePeer(p)

-----------------------------------------------------------------------------
(* Properties.                                                               *)

(* Every variable holds a value of what it stands for.                       *)
Events == {"connect", "disconnect", "receive"} \X Nat

TypeOK ==
  /\ queue \in Seq(Peers) /\ known \subseteq Peers /\ count \in Nat
  /\ up \in [Peers -> Seq(Events)] /\ down \in [Peers -> Seq(Events)]
  /\ ppc \in [Peers -> {"start", "connecting", "connected", "left", "gone"}]
  /\ turn \in [Peers -> 0..MaxTurns] /\ session \in [Peers -> Nat]
  /\ early \in [Peers -> SUBSET Nat] /\ answered \in [Peers -> SUBSET Nat]

(* The sessions of the requests or answers in s, and that they come in order.  *)
Sessions(s) == {s[i][2] : i \in DOMAIN s} \ {0}
Rising(s) == \A i, j \in DOMAIN s : i < j /\ s[i][2] # 0 /\ s[j][2] # 0 => s[i][2] < s[j][2]

(* The answers a come before the requests r, and all are of those expected.    *)
InOrder(a, r, expected) ==
  /\ Rising(a) /\ Rising(r)
  /\ \A m \in Sessions(a), n \in Sessions(r) : m < n
  /\ Sessions(a) \cup Sessions(r) \subseteq expected

(* What a client of a live connection has asked is told to the server or       *)
(* answered in the order it was asked, and once: an answer on its way finds    *)
(* the entry its session was given in the sproto host (without one, dispatch    *)
(* fails and the client ends).                                                *)
Expected(p) == (1..session[p]) \ (early[p] \cup answered[p])
AnswersInOrder ==
  \A p \in Peers : ppc[p] = "connected" => InOrder(down[p], up[p], Expected(p))

(* Of the requests of a live connection only those are lost that were sent      *)
(* before it was up, whose result peer:send() does not give to the client.      *)
OnlyEarlyLost ==
  \A p \in Peers : ppc[p] \in {"connecting", "connected"} =>
    1..session[p] = early[p] \cup answered[p] \cup Sessions(up[p]) \cup Sessions(down[p])

(* The inductive invariant the proofs use: a peer that takes a turn has          *)
(* something to tell, the server hears of a connection first that it is up,      *)
(* and of its end last; before it is up and after its end nothing is under way.  *)
Requests(s) == \A i \in DOMAIN s : s[i][1] = "receive" /\ s[i][2] # 0

PeerAt(p) ==
  /\ ppc[p] = "start" => session[p] = 0 /\ early[p] = {}
  /\ early[p] \cup answered[p] \subseteq 1..session[p] /\ session[p] <= turn[p]
  /\ ppc[p] \in {"start", "connecting"} =>
       up[p] = <<>> /\ down[p] = <<>> /\ p \notin known /\ answered[p] = {}
  /\ ppc[p] = "connected" =>
       IF p \in known THEN Requests(up[p])
       ELSE up[p] # <<>> /\ Head(up[p]) = Connect /\ Requests(Tail(up[p])) /\ down[p] = <<>>
  /\ ppc[p] \in {"left", "gone"} => down[p] = <<>>

EnetInv ==
  /\ TypeOK /\ AnswersInOrder /\ OnlyEarlyLost
  /\ IsInjective(queue) /\ \A p \in ToSet(queue) : up[p] # <<>>
  /\ \A p \in Peers : PeerAt(p)

(* A request sent is told to the server, and with OnlyEarlyLost answered, or    *)
(* its client gone, with one event a turn and whatever the other clients do.   *)
RequestsTold == \A p \in Peers : Sessions(up[p]) # {} ~> Sessions(up[p]) = {}

(* The server forgets every client that is gone.                              *)
PeersForgotten == \A p \in Peers : ppc[p] = "gone" ~> p \notin known /\ up[p] = <<>>

=============================================================================
