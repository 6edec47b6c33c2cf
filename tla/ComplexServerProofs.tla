------------------------ MODULE ComplexServerProofs ------------------------
(***************************************************************************)
(* The inductive invariant of the complex server and what follows from it, for *)
(* every set of connections and peers, every number of commands and turns, and  *)
(* every number of events between two saves.                                  *)
(*                                                                          *)
(* ServletProofs shows that every step keeps the invariants of the two parts;   *)
(* here are the count of events not saved, which both raise, and the theorems.  *)
(***************************************************************************)
EXTENDS ServletProofs

(* What main() adds to the two servlets.                                      *)
LoopInv ==
  /\ at \in {"tcp", "enet"}
  /\ tcpCount \in Nat /\ enetCount \in Nat
  /\ saved \in 0..(tcpCount + enetCount)
  /\ ready \subseteq Clients \cup {Listener}
  /\ UnsavedBounded

(* The invariant of the server is the loop's own and those of its two servlets.             *)
LEMMA LoopParts ==
  /\ IInv => LoopInv /\ Tcp!TcpInv /\ Enet!EnetInv
  /\ LoopInv /\ Tcp!TcpInv /\ Enet!EnetInv => IInv
  BY DEF IInv, LoopInv, TypeOK, Tcp!TcpInv, Tcp!TypeOK, Enet!EnetInv, Enet!TypeOK

(* The same after a step.                                                                   *)
LEMMA LoopPartsNext ==
  (LoopInv /\ Tcp!TcpInv /\ Enet!EnetInv)' => IInv'
  BY DEF IInv, LoopInv, TypeOK, Tcp!TcpInv, Tcp!TypeOK, Enet!EnetInv, Enet!TypeOK

(* No more sockets are ready than there are, the listener and the clients'.     *)
LEMMA ReadyFinite ==
  ASSUME NEW R \in SUBSET (Clients \cup {Listener})
  PROVE  /\ IsFiniteSet(R) /\ Cardinality(R) \in Nat
         /\ Cardinality(R) <= Cardinality(Clients) + 1
         /\ Cardinality(Clients) \in Nat
  <1>1. IsFiniteSet(Clients) BY ServerAssumption
  <1>2. /\ IsFiniteSet(Clients \cup {Listener})
        /\ Cardinality(Clients \cup {Listener})
             = IF Listener \in Clients THEN Cardinality(Clients) ELSE Cardinality(Clients) + 1
    BY <1>1, FS_AddElement
  <1>3. IsFiniteSet(R) /\ Cardinality(R) <= Cardinality(Clients \cup {Listener})
    BY <1>2, FS_Subset
  <1>4. Cardinality(R) \in Nat /\ Cardinality(Clients) \in Nat
    BY <1>1, <1>3, FS_CardinalityType
  <1> QED BY <1>2, <1>3, <1>4, ServerAssumption

(* A socket served is an event more and one socket less to be served.           *)
LEMMA LoopServe ==
  ASSUME LoopInv, ServeSocket
  PROVE  LoopInv'
  <1>1. /\ at = "enet" /\ UNCHANGED <<at, saved, enetCount>>
        /\ \E s \in ready : ready' = ready \ {s} /\ tcpCount' = tcpCount + 1
    BY DEF ServeSocket, Tcp!Serve, Tcp!Accept, Tcp!Answer, Tcp!ReceiveError, Tcp!Disconnected,
           Tcp!Served, enetVars
  <1>2. PICK s \in ready : ready' = ready \ {s} /\ tcpCount' = tcpCount + 1 BY <1>1
  <1>3. IsFiniteSet(ready) /\ Cardinality(ready) \in Nat /\ Cardinality(Clients) \in Nat
    BY ReadyFinite DEF LoopInv
  <1>4. Cardinality(ready') = Cardinality(ready) - 1 BY <1>2, <1>3, FS_RemoveElement
  <1>5. tcpCount + enetCount - saved + Cardinality(ready) < SaveEvery + Cardinality(Clients) + 1
    BY <1>1 DEF LoopInv, UnsavedBounded
  <1>6. UnsavedBounded'
    <2>1. (tcpCount' + enetCount' - saved') + Cardinality(ready')
            < SaveEvery + Cardinality(Clients) + 1
      BY <1>1, <1>2, <1>3, <1>4, <1>5, ServerAssumption DEF LoopInv
    <2> QED BY <1>1, <2>1 DEF UnsavedBounded
  <1> QED BY <1>1, <1>2, <1>6 DEF LoopInv

(* The loop's own part, step by step: a turn of a servlet adds to its counter what it       *)
(* served, select() finds no more sockets ready than there are, and the save leaves nothing *)
(* unsaved.                                                                                 *)
LEMMA LoopStep ==
  ASSUME LoopInv, Next, Tcp!TcpInv'
  PROVE  LoopInv'
  <1> USE ServerAssumption
  <1>1. CASE SelectSockets
    <2>1. /\ at = "tcp" /\ at' = "enet" /\ UNCHANGED <<saved, tcpCount, enetCount>>
      BY <1>1 DEF SelectSockets, Tcp!Select, enetVars
    <2>2. ready' \subseteq Clients \cup {Listener} BY DEF Tcp!TcpInv, Tcp!TypeOK
    <2>3. /\ Cardinality(ready') \in Nat /\ Cardinality(Clients) \in Nat
          /\ Cardinality(ready') <= Cardinality(Clients) + 1
      BY <2>2, ReadyFinite
    <2>4. tcpCount + enetCount - saved < SaveEvery BY <2>1 DEF LoopInv, UnsavedBounded
    <2>5. (tcpCount' + enetCount' - saved') + Cardinality(ready')
            < SaveEvery + Cardinality(Clients) + 1
      BY <2>1, <2>3, <2>4 DEF LoopInv
    <2> QED BY <2>1, <2>2, <2>5 DEF LoopInv, UnsavedBounded
  <1>2. CASE ServeSocket BY <1>2, LoopServe
  <1>3. CASE ServePeer
    <2>1. /\ at' = "tcp" /\ UNCHANGED <<tcpCount, ready>> /\ SaveIfDue
      BY <1>3 DEF ServePeer, tcpVars
    <2>2. enetCount' \in {enetCount, enetCount + 1}
      BY <1>3 DEF ServePeer, Enet!process, Enet!Idle, Enet!serverVars, Enet!Receive,
                  Enet!Connected, Enet!Disconnected, Enet!Event
    <2>3. /\ enetCount' \in Nat /\ saved' \in 0..(tcpCount' + enetCount')
          /\ tcpCount' + enetCount' - saved' < SaveEvery
      <3>1. tcpCount \in Nat /\ enetCount \in Nat /\ saved \in 0..(tcpCount + enetCount)
        BY DEF LoopInv
      <3>2. enetCount' \in Nat /\ enetCount <= enetCount' BY <2>2, <3>1
      <3>3. PICK t, e, s, z : t = tcpCount /\ e = enetCount' /\ s = saved /\ z = saved' OBVIOUS
      <3>4. z = IF (t + e) - s >= SaveEvery THEN t + e ELSE s
        BY <2>1, <3>3 DEF SaveIfDue
      <3>8. t \in Nat /\ e \in Nat /\ s \in 0..(t + enetCount) /\ enetCount <= e
        BY <3>1, <3>2, <3>3, Zenon
      <3>5. t \in Nat /\ e \in Nat /\ s \in Nat /\ s <= t + e BY <3>1, <3>8
      <3>6. z \in 0..(t + e) /\ t + e - z < SaveEvery BY <3>4, <3>5
      <3>7. tcpCount' = t BY <2>1, <3>3
      <3> QED BY <3>2, <3>3, <3>6, <3>7
    <2> QED BY <2>1, <2>3 DEF LoopInv, UnsavedBounded
  <1>4. ASSUME NEW c \in Clients, StartTcp(c) \/ TcpClient(c) PROVE LoopInv'
    <2>1. UNCHANGED <<at, saved, enetCount, tcpCount, ready>>
      BY <1>4 DEF StartTcp, TcpClient, enetVars, Tcp!Connect, Tcp!Client, Tcp!Request,
                  Tcp!Mistype, Tcp!Quit, Tcp!Receive, Tcp!Kill, Tcp!serverVars
    <2> QED BY <2>1 DEF LoopInv, UnsavedBounded
  <1>5. ASSUME NEW p \in Peers, StartEnet(p) \/ EnetClient(p) \/ EnetNetwork(p) PROVE LoopInv'
    <2>1. UNCHANGED <<at, saved, enetCount, tcpCount, ready>>
      BY <1>5 DEF StartEnet, EnetClient, EnetNetwork, tcpVars, Enet!Start, Enet!Client, Enet!Turn,
                  Enet!Leave, Enet!Network, Enet!Arrive, Enet!LosePeer, Enet!serverVars
    <2> QED BY <2>1 DEF LoopInv, UnsavedBounded
  <1> QED BY <1>1, <1>2, <1>3, <1>4, <1>5 DEF Next, Server

-----------------------------------------------------------------------------
(* The theorems.                                                             *)

(* The invariant holds at the start, and every step keeps it.                  *)
LEMMA IInvInit ==
  ASSUME Init
  PROVE  IInv
  <1>1. Tcp!TcpInv /\ Enet!EnetInv BY TcpInit, EnetInit DEF Init
  <1>2. LoopInv
    <2>1. /\ tcpCount = 0 /\ enetCount = 0 /\ saved = 0 /\ at = "tcp" /\ ready = {}
      BY DEF Init, Tcp!Init, Enet!Init
    <2> QED BY <2>1, ServerAssumption DEF LoopInv, UnsavedBounded
  <1> QED BY <1>1, <1>2, LoopParts

(* A step of the server is one of the loop, of a servlet or of a client, and each keeps all *)
(* three parts.                                                                             *)
LEMMA IInvNext ==
  ASSUME IInv, [Next]_vars
  PROVE  IInv'
  <1>1. LoopInv /\ Tcp!TcpInv /\ Enet!EnetInv BY LoopParts
  <1>2. CASE Next BY <1>1, <1>2, TcpStep, EnetStep, LoopStep, LoopPartsNext
  <1>3. CASE UNCHANGED vars
    <2>1. UNCHANGED <<tcpVars, enetVars, at, saved>> BY <1>3 DEF vars
    <2>2. Tcp!TcpInv' /\ Enet!EnetInv' BY <1>1, <2>1, TcpIdle, EnetIdle
    <2>3. UNCHANGED <<at, saved, tcpCount, enetCount, ready>> BY <2>1 DEF tcpVars, enetVars
    <2>4. LoopInv' BY <1>1, <2>3 DEF LoopInv, UnsavedBounded
    <2> QED BY <2>2, <2>4, LoopPartsNext
  <1> QED BY <1>2, <1>3

(* The inductive invariant holds in every state main() can be in.              *)
THEOREM ServerInvHolds == Spec => []IInv
  <1>1. Init => IInv BY IInvInit
  <1>2. IInv /\ [Next]_vars => IInv' BY IInvNext
  <1> QED BY <1>1, <1>2, PTL DEF Spec

(* Type correctness of the loop and of both servlets.                          *)
THEOREM ServerTypeCorrect == Spec => []TypeOK
  <1>1. IInv => TypeOK BY DEF IInv
  <1> QED BY <1>1, ServerInvHolds, PTL

(* main() never has more events unsaved than its count of ten and one turn.     *)
THEOREM SavedInTime == Spec => []UnsavedBounded
  <1>1. IInv => UnsavedBounded BY DEF IInv
  <1> QED BY <1>1, ServerInvHolds, PTL

(* remove_socket() and add_socket() keep sockets and socketinfo together.       *)
THEOREM TablesKeptTogether == Spec => []TablesAgree
  <1>1. IInv => TablesAgree BY DEF IInv, Tcp!TcpInv, TablesAgree
  <1> QED BY <1>1, ServerInvHolds, PTL

(* A TCP client that waits for an answer gets that of the request it sent.      *)
THEOREM AnswersBelong == Spec => []AnswerMatches
  <1>1. IInv => AnswerMatches BY TcpAnswerMatches DEF IInv
  <1> QED BY <1>1, ServerInvHolds, PTL

(* An ENet client gets its answers in the order it asked, each once.            *)
THEOREM AnsweredInOrder == Spec => []AnswersInOrder
  <1>1. IInv => AnswersInOrder BY DEF IInv, Enet!EnetInv, AnswersInOrder
  <1> QED BY <1>1, ServerInvHolds, PTL

(* Of what an ENet client asks only what it asks too early gets lost.           *)
THEOREM LostOnlyEarly == Spec => []OnlyEarlyLost
  <1>1. IInv => OnlyEarlyLost BY DEF IInv, Enet!EnetInv, OnlyEarlyLost
  <1> QED BY <1>1, ServerInvHolds, PTL

=============================================================================
