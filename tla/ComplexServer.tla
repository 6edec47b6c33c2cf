--------------------------- MODULE ComplexServer ---------------------------
(***************************************************************************)
(* The complex server whole, example/complex/main.lua: one thread that takes   *)
(* turns, each the TCP servlet's part, the ENet servlet's part and, after ten   *)
(* events, a save; and the clients of both, any of which acts between any two   *)
(* of the server's steps.                                                    *)
(***************************************************************************)
EXTENDS Naturals, Sequences, FiniteSets

CONSTANTS
  Clients, Listener, MaxCommands,     (* TcpServlet's                        *)
  Peers, SendEvery, MaxTurns,         (* EnetServlet's                       *)
  SaveEvery,    (* the data is saved after so many events: 10                *)
  MaxStarted    (* bound: so many clients are ever started                   *)

ASSUME ServerAssumption ==
  /\ Clients \subseteq Nat \ {0} /\ Peers \subseteq Nat \ {0}
  /\ Listener \notin Clients /\ IsFiniteSet(Clients) /\ MaxCommands \in Nat
  /\ SendEvery \in Nat \ {0} /\ MaxTurns \in Nat
  /\ SaveEvery \in Nat \ {0} /\ MaxStarted \in Nat

VARIABLES
  sockets, socketinfo, ready, tcpCount, backlog, tcpUp, tcpDown, ended, cpc, tcpSession, typed,
  quitting,
  queue, known, enetCount, enetUp, enetDown, ppc, turn, enetSession, early, answered,
  at, saved     \* the servlet whose part of the turn is next; count of main.lua

tcpVars == <<sockets, socketinfo, ready, tcpCount, backlog, tcpUp, tcpDown, ended, cpc,
             tcpSession, typed, quitting>>
enetVars == <<queue, known, enetCount, enetUp, enetDown, ppc, turn, enetSession, early, answered>>
vars == <<tcpVars, enetVars, at, saved>>

Tcp == INSTANCE TcpServlet WITH
  count <- tcpCount, up <- tcpUp, down <- tcpDown, session <- tcpSession
Enet == INSTANCE EnetServlet WITH
  count <- enetCount, up <- enetUp, down <- enetDown, session <- enetSession

Init == Tcp!Init /\ Enet!Init /\ at = "tcp" /\ saved = 0

-----------------------------------------------------------------------------
(* The loop of main().                                                       *)

(* tcp_servlet.process(): the sockets ready, then one after another.           *)
SelectSockets ==
  /\ at = "tcp" /\ at' = "enet"
  /\ Tcp!Select
  /\ UNCHANGED <<enetVars, saved>>

ServeSocket ==
  /\ at = "enet"
  /\ Tcp!Serve
  /\ UNCHANGED <<enetVars, at, saved>>

(* Mutant: the events of this turn alone are compared.                        *)
SaveIfBusy == saved' = IF enetCount' - enetCount >= SaveEvery THEN tcpCount + enetCount' ELSE saved
SaveIfDue ==
  saved' = IF (tcpCount + enetCount') - saved >= SaveEvery THEN tcpCount + enetCount' ELSE saved

(* enet_servlet.process(), once all sockets are served; then the save.         *)
ServePeer ==
  /\ at = "enet" /\ ready = {} /\ at' = "tcp"
  /\ Enet!process
  /\ SaveIfDue
  /\ UNCHANGED tcpVars

Server == SelectSockets \/ ServeSocket \/ ServePeer

-----------------------------------------------------------------------------
TcpStarted == {c \in Clients : cpc[c] # "start"}
EnetStarted == {p \in Peers : ppc[p] # "start"}
MayStart == Cardinality(TcpStarted) + Cardinality(EnetStarted) < MaxStarted

(* Connections are numbered in the order they are made.                       *)
StartTcp(c) ==
  /\ MayStart /\ (1..(c - 1)) \cap Clients \subseteq TcpStarted
  /\ Tcp!Connect(c)
  /\ UNCHANGED <<enetVars, at, saved>>

StartEnet(p) ==
  /\ MayStart /\ (1..(p - 1)) \cap Peers \subseteq EnetStarted
  /\ Enet!Start(p)
  /\ UNCHANGED <<tcpVars, at, saved>>

TcpClient(c) == Tcp!Client(c) /\ UNCHANGED <<enetVars, at, saved>>
TcpReceives(c) == Tcp!Receive(c) /\ UNCHANGED <<enetVars, at, saved>>
EnetClient(p) == Enet!Client(p) /\ UNCHANGED <<tcpVars, at, saved>>
EnetNetwork(p) == Enet!Network(p) /\ UNCHANGED <<tcpVars, at, saved>>

Next ==
  \/ Server
  \/ \E c \in Clients : StartTcp(c) \/ TcpClient(c)
  \/ \E p \in Peers : StartEnet(p) \/ EnetClient(p) \/ EnetNetwork(p)

Spec == Init /\ [][Next]_vars

(* main() loops for ever; a TCP client whose select() can return goes on; what  *)
(* was sent to ENet arrives, and a peer that is gone is noticed.  Nobody has to *)
(* type, to connect, to take his turns or to be killed.                        *)
FairSpec ==
  /\ Spec /\ WF_vars(Server)
  /\ \A c \in Clients : WF_vars(TcpReceives(c))
  /\ \A p \in Peers : WF_vars(EnetNetwork(p))

-----------------------------------------------------------------------------
(* Properties.                                                               *)

(* Every variable holds a value of what it stands for.                       *)
TypeOK ==
  /\ Tcp!TypeOK /\ Enet!TypeOK
  /\ at \in {"tcp", "enet"} /\ saved \in 0..(tcpCount + enetCount)

(* When main() goes on to its next turn, fewer events than SaveEvery are not    *)
(* saved; until then, at most those of this turn besides, one for each socket   *)
(* and one of a peer.                                                         *)
UnsavedBounded ==
  LET unsaved == tcpCount + enetCount - saved IN
  IF at = "tcp" THEN unsaved < SaveEvery
  ELSE unsaved + Cardinality(ready) < SaveEvery + Cardinality(Clients) + 1

(* What TcpServlet and EnetServlet say of their parts, here with both at work.  *)
TablesAgree == Tcp!TablesAgree
AnswerMatches == Tcp!AnswerMatches
AnswersInOrder == Enet!AnswersInOrder
OnlyEarlyLost == Enet!OnlyEarlyLost

(* The inductive invariant the proofs use: that of either part, and the above.  *)
IInv == TypeOK /\ UnsavedBounded /\ Tcp!TcpInv /\ Enet!EnetInv

(* No request starves in one part of the server through what the other does.   *)
EverybodyServed == Tcp!RequestsAnswered /\ Enet!RequestsTold

(* The server lets go of every connection whose client is gone, of either kind.  *)
ConnectionsReleased == Tcp!ConnectionsReleased /\ Enet!PeersForgotten

=============================================================================
