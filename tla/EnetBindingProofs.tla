------------------------- MODULE EnetBindingProofs -------------------------
(***************************************************************************)
(* For any number of places, slots and userdata: the binding's objects are      *)
(* unique, hosts have one owner, and a script that gives a host's peers up       *)
(* before the host never uses a peer without one.                             *)
(*                                                                          *)
(* BInv is inductive.  Whatever puts a userdata on the script's stack does it     *)
(* by push_peer(); whatever ends a host does it by host_gc(): a lemma each.      *)
(***************************************************************************)
EXTENDS EnetBinding, TLAPS

(* A peer slot lies in one place of ENet's and is not the null pointer.                     *)
LEMMA SlotHasPlace ==
  ASSUME NEW s \in Slots
  PROVE  s[1] \in Places /\ s # Null
  BY BindingAssumption DEF Slots

(* A host that can be used is one of ENet's.                                  *)
LEMMA UsableIsAllocated ==
  ASSUME BInv, NEW h \in HostObjects, Usable(h), NEW s \in SlotsOf(h)
  PROVE  /\ s \in Slots /\ s[1] = host[h] /\ host[h] \in allocated /\ h \in heldHosts
  <1>1. s \in Slots /\ s[1] = host[h] /\ h \in heldHosts BY DEF SlotsOf, Usable
  <1>2. host[h] \in Places BY <1>1, SlotHasPlace
  <1> QED BY <1>1, <1>2 DEF BInv, HostsOwnedOnce

-----------------------------------------------------------------------------
(* The table and the references after push_peer(): the userdata is the only one *)
(* of its slot, and its host is held by the caller.                            *)
LEMMA PushKeeps ==
  ASSUME BInv, NEW h \in HostObjects, Usable(h), NEW s \in SlotsOf(h), push_peer(s),
         UNCHANGED <<allocated, host, heldHosts>>, state' \in [Slots -> States]
  PROVE  BInv'
  <1>1. s \in Slots /\ s[1] = host[h] /\ h \in heldHosts /\ s # Null
    BY UsableIsAllocated, SlotHasPlace
  <1>2. CASE enet_peers[s] # Null /\ heldPeers' = heldPeers \cup {enet_peers[s]}
             /\ UNCHANGED <<peer, enet_peers>>
    <2>1. enet_peers[s] \in PeerObjects /\ peer[enet_peers[s]] = s
      BY <1>1, <1>2 DEF BInv, TypeOK, TableAgrees
    <2>2. TypeOK' BY <1>2, <2>1 DEF BInv, TypeOK
    <2>3. TableAgrees' BY <1>2 DEF BInv, TableAgrees
    <2>4. HostsOwnedOnce' BY DEF BInv, HostsOwnedOnce
    <2>5. HoldsItsHost' BY <1>1, <1>2, <2>1 DEF BInv, HoldsItsHost
    <2> QED BY <2>2, <2>3, <2>4, <2>5 DEF BInv
  <1>3. CASE enet_peers[s] = Null
             /\ \E o \in PeerObjects :
                  /\ peer[o] = Null
                  /\ peer' = [peer EXCEPT ![o] = s]
                  /\ enet_peers' = Enter(s, o)
                  /\ heldPeers' = heldPeers \cup {o}
    <2>1. PICK o \in PeerObjects :
            /\ peer[o] = Null
            /\ peer' = [peer EXCEPT ![o] = s]
            /\ enet_peers' = [enet_peers EXCEPT ![s] = o]
            /\ heldPeers' = heldPeers \cup {o}
      BY <1>3 DEF Enter
    <2>2. TypeOK' BY <1>1, <2>1 DEF BInv, TypeOK
    <2>3. TableAgrees' 
      <3>1. ASSUME NEW t \in Slots, enet_peers'[t] # Null PROVE peer'[enet_peers'[t]] = t
        <4>1. CASE t = s BY <1>1, <2>1, <4>1 DEF BInv, TypeOK
        <4>2. CASE t # s
          <5>1. enet_peers'[t] = enet_peers[t] BY <2>1, <4>2 DEF BInv, TypeOK
          <5>2. peer[enet_peers[t]] = t BY <3>1, <5>1 DEF BInv, TableAgrees
          <5>3. enet_peers[t] # o BY <2>1, <5>2, SlotHasPlace
          <5> QED BY <2>1, <5>1, <5>2, <5>3, <3>1 DEF BInv, TypeOK
        <4> QED BY <4>1, <4>2
      <3>2. ASSUME NEW q \in PeerObjects, peer'[q] # Null PROVE enet_peers'[peer'[q]] = q
        <4>1. CASE q = o BY <1>1, <2>1, <4>1 DEF BInv, TypeOK
        <4>2. CASE q # o
          <5>1. peer'[q] = peer[q] BY <2>1, <4>2 DEF BInv, TypeOK
          <5>2. enet_peers[peer[q]] = q BY <3>2, <5>1 DEF BInv, TableAgrees
          <5>3. peer[q] # s /\ q # Null BY <1>3, <5>2, BindingAssumption
          <5> QED BY <2>1, <5>1, <5>2, <5>3, <3>2 DEF BInv, TypeOK
        <4> QED BY <4>1, <4>2
      <3> QED BY <3>1, <3>2 DEF TableAgrees
    <2>4. HostsOwnedOnce' BY DEF BInv, HostsOwnedOnce
    <2>5. HoldsItsHost'
      <3>1. ASSUME NEW q \in heldPeers' 
            PROVE  peer'[q] # Null /\ \E g \in heldHosts' : host'[g] = peer'[q][1]
        <4>1. CASE q = o BY <1>1, <2>1, <4>1 DEF BInv, TypeOK
        <4>2. CASE q # o
          <5>1. q \in heldPeers /\ peer'[q] = peer[q] BY <2>1, <3>1, <4>2 DEF BInv, TypeOK
          <5> QED BY <5>1 DEF BInv, HoldsItsHost
        <4> QED BY <4>1, <4>2
      <3> QED BY <3>1 DEF HoldsItsHost
    <2> QED BY <2>2, <2>3, <2>4, <2>5 DEF BInv
  <1> QED BY <1>2, <1>3 DEF push_peer

(* host:service() gives the script the peer of a slot, old or new, for whatever event ENet  *)
(* has.                                                                                     *)
LEMMA ServiceKeeps ==
  ASSUME BInv, NEW h \in HostObjects, Service(h)
  PROVE  BInv'
  <1>1. PICK s \in SlotsOf(h) :
          /\ \/ state[s] \in {"disconnected", "connecting"}
                /\ state' = [state EXCEPT ![s] = "connected"]
             \/ state[s] = "connected" /\ UNCHANGED state
             \/ state[s] # "disconnected" /\ state' = [state EXCEPT ![s] = "disconnected"]
          /\ push_peer(s)
    BY DEF Service
  <1>2. state' \in [Slots -> States] BY <1>1 DEF BInv, TypeOK, States
  <1> QED BY <1>1, <1>2, PushKeeps DEF Service

(* host:connect() gives the script the peer of a free slot.                                 *)
LEMMA ConnectKeeps ==
  ASSUME BInv, NEW h \in HostObjects, Connect(h)
  PROVE  BInv'
  <1>1. PICK s \in SlotsOf(h) : state' = [state EXCEPT ![s] = "connecting"] /\ push_peer(s)
    BY DEF Connect
  <1>2. state' \in [Slots -> States] BY <1>1 DEF BInv, TypeOK, States
  <1> QED BY <1>1, <1>2, PushKeeps DEF Connect

(* host:get_peer() gives the script the peer of any slot, without regard to its state.      *)
LEMMA GetPeerKeeps ==
  ASSUME BInv, NEW h \in HostObjects, GetPeer(h)
  PROVE  BInv'
  <1>1. PICK s \in SlotsOf(h) : push_peer(s) BY DEF GetPeer
  <1>2. state' \in [Slots -> States] BY DEF GetPeer, enetVars, BInv, TypeOK
  <1> QED BY <1>1, <1>2, PushKeeps DEF GetPeer, enetVars

(* disconnect() and its kin change the state of a slot and nothing else.        *)
LEMMA PeerMethodsKeep ==
  ASSUME BInv, NEW o \in PeerObjects, disconnect(o) \/ reset(o)
  PROVE  BInv'
  <1>1. UNCHANGED <<allocated, host, heldHosts, peer, enet_peers, heldPeers>>
    BY DEF disconnect, reset, peerVars
  <1>2. state' \in [Slots -> States] BY DEF disconnect, reset, BInv, TypeOK, States
  <1>3. TypeOK' BY <1>1, <1>2 DEF BInv, TypeOK
  <1>4. TableAgrees' /\ HostsOwnedOnce' /\ HoldsItsHost'
    BY <1>1 DEF BInv, TableAgrees, HostsOwnedOnce, HoldsItsHost
  <1> QED BY <1>3, <1>4 DEF BInv

-----------------------------------------------------------------------------
(* A new host is where none is: its userdata is its only owner.                *)
LEMMA CreateKeeps ==
  ASSUME BInv, NEW h \in HostObjects, Create(h)
  PROVE  BInv'
  <1>1. PICK a \in Places \ allocated :
          /\ allocated' = allocated \cup {a}
          /\ state' = [s \in Slots |-> IF s[1] = a THEN "disconnected" ELSE state[s]]
          /\ host' = [host EXCEPT ![h] = a]
    BY DEF Create
  <1>2. /\ host[h] = Free /\ Free \notin Places
        /\ heldHosts' = heldHosts \cup {h} /\ UNCHANGED <<peer, enet_peers, heldPeers>>
    BY BindingAssumption DEF Create, peerVars
  <1>3. TypeOK'
    <2>1. state' \in [Slots -> States] BY <1>1 DEF BInv, TypeOK, States
    <2>2. host' \in [HostObjects -> Places \cup {Null, Free}] BY <1>1 DEF BInv, TypeOK
    <2> QED BY <1>1, <1>2, <2>1, <2>2 DEF BInv, TypeOK
  <1>4. TableAgrees' BY <1>2 DEF BInv, TableAgrees
  <1>5. host'[h] = a /\ \A g \in HostObjects \ {h} : host'[g] = host[g] 
    BY <1>1 DEF BInv, TypeOK
  <1>6. \A g \in HostObjects : host[g] # a BY <1>1 DEF BInv, HostsOwnedOnce
  <1>7. HostsOwnedOnce'
    <2>1. allocated' = {host'[g] : g \in HostObjects} \cap Places
      BY <1>1, <1>2, <1>5 DEF BInv, HostsOwnedOnce
    <2>2. \A f, g \in HostObjects : host'[f] = host'[g] /\ host'[f] \in Places => f = g
      BY <1>5, <1>6 DEF BInv, HostsOwnedOnce
    <2> QED BY <2>1, <2>2 DEF HostsOwnedOnce
  <1>8. HoldsItsHost'
    <2>1. ASSUME NEW o \in heldPeers
          PROVE  peer[o] # Null /\ \E g \in heldHosts' : host'[g] = peer[o][1]
      <3>1. o \in PeerObjects /\ peer[o] # Null /\ peer[o][1] \in Places
        BY SlotHasPlace DEF BInv, TypeOK, HoldsItsHost
      <3>2. PICK g \in heldHosts : host[g] = peer[o][1] BY DEF BInv, HoldsItsHost
      <3>3. g # h /\ g \in HostObjects BY <1>2, <3>1, <3>2 DEF BInv, TypeOK
      <3> QED BY <1>2, <1>5, <3>1, <3>2, <3>3
    <2> QED BY <1>2, <2>1 DEF HoldsItsHost
  <1> QED BY <1>3, <1>4, <1>7, <1>8 DEF BInv

(* The end of a host: whatever its userdata holds then, which is no place, the   *)
(* others own what there is; and no held peer is one of its slots.               *)
LEMMA EndKeeps ==
  ASSUME BInv, NEW h \in HostObjects, NEW v \in {Null, Free}, host_gc(h),
         host' = [host EXCEPT ![h] = v], UNCHANGED heldHosts,
         \A o \in heldPeers : peer[o][1] # host[h]
  PROVE  BInv'
  <1>1. /\ allocated' = allocated \ {host[h]}
        /\ UNCHANGED <<state, peer, enet_peers, heldPeers>> /\ v \notin Places
    BY BindingAssumption DEF host_gc, peerVars
  <1>2. host'[h] = v /\ \A g \in HostObjects \ {h} : host'[g] = host[g] BY DEF BInv, TypeOK
  <1>3. TypeOK'
    <2>1. host' \in [HostObjects -> Places \cup {Null, Free}] BY DEF BInv, TypeOK
    <2> QED BY <1>1, <2>1 DEF BInv, TypeOK
  <1>4. TableAgrees' BY <1>1 DEF BInv, TableAgrees
  <1>5. HostsOwnedOnce'
    <2>1. allocated' = {host'[g] : g \in HostObjects} \cap Places
      BY <1>1, <1>2 DEF BInv, HostsOwnedOnce
    <2>2. \A f, g \in HostObjects : host'[f] = host'[g] /\ host'[f] \in Places => f = g
      BY <1>1, <1>2 DEF BInv, HostsOwnedOnce
    <2> QED BY <2>1, <2>2 DEF HostsOwnedOnce
  <1>6. HoldsItsHost'
    <2>1. ASSUME NEW o \in heldPeers
          PROVE  peer[o] # Null /\ \E g \in heldHosts' : host'[g] = peer[o][1]
      <3>1. PICK g \in heldHosts : host[g] = peer[o][1] BY DEF BInv, HoldsItsHost
      <3>2. g # h /\ g \in HostObjects BY <2>1, <3>1 DEF BInv, TypeOK
      <3> QED BY <1>2, <3>1, <3>2, <2>1 DEF BInv, HoldsItsHost
    <2> QED BY <1>1, <2>1 DEF HoldsItsHost
  <1> QED BY <1>3, <1>4, <1>5, <1>6 DEF BInv

(* Giving its peers up is giving up every slot that is in its place.            *)
LEMMA GivenUp ==
  ASSUME BInv, NEW h, PeersGivenUp(h), NEW o \in heldPeers
  PROVE  peer[o][1] # host[h]
  <1>1. peer[o] \in Slots BY DEF BInv, TypeOK, HoldsItsHost
  <1> QED BY <1>1 DEF PeersGivenUp, SlotsOf

(* host:destroy() gives the ENetHost up, and no peer of it is held by then.                 *)
LEMMA DestroyKeeps ==
  ASSUME BInv, NEW h \in HostObjects, Destroy(h)
  PROVE  BInv'
  <1>1. /\ host_gc(h) /\ host' = [host EXCEPT ![h] = Null] /\ UNCHANGED heldHosts
        /\ PeersGivenUp(h)
    BY DEF Destroy, Cleared
  <1> QED BY <1>1, GivenUp, EndKeeps

(* The collector meets only hosts that are not held: none of their peers is.     *)
LEMMA CollectHostKeeps ==
  ASSUME BInv, NEW h \in HostObjects, CollectHost(h)
  PROVE  BInv'
  <1>1. /\ host_gc(h) /\ host' = [host EXCEPT ![h] = Free] /\ UNCHANGED heldHosts
        /\ h \notin heldHosts
    BY DEF CollectHost
  <1>2. ASSUME NEW o \in heldPeers PROVE peer[o][1] # host[h]
    <2>1. PICK g \in heldHosts : host[g] = peer[o][1] BY DEF BInv, HoldsItsHost
    <2>2. peer[o][1] \in Places BY SlotHasPlace DEF BInv, TypeOK, HoldsItsHost
    <2> QED BY <1>1, <2>1, <2>2 DEF BInv, HostsOwnedOnce, TypeOK
  <1> QED BY <1>1, <1>2, EndKeeps

(* A script that drops a host has given its peers up before.                                *)
LEMMA ForgetHostKeeps ==
  ASSUME BInv, NEW h \in HostObjects, ForgetHost(h)
  PROVE  BInv'
  <1>1. /\ heldHosts' = heldHosts \ {h} /\ PeersGivenUp(h)
        /\ UNCHANGED <<allocated, state, host, peer, enet_peers, heldPeers>>
    BY DEF ForgetHost, enetVars, peerVars
  <1>2. TypeOK' BY <1>1 DEF BInv, TypeOK
  <1>3. TableAgrees' /\ HostsOwnedOnce' BY <1>1 DEF BInv, TableAgrees, HostsOwnedOnce
  <1>4. HoldsItsHost' BY <1>1, GivenUp DEF BInv, HoldsItsHost
  <1> QED BY <1>2, <1>3, <1>4 DEF BInv

(* A peer the script drops stays in the weak table until it is collected.                   *)
LEMMA ForgetPeerKeeps ==
  ASSUME BInv, NEW o \in PeerObjects, ForgetPeer(o)
  PROVE  BInv'
  <1>1. /\ heldPeers' = heldPeers \ {o}
        /\ UNCHANGED <<allocated, state, host, heldHosts, peer, enet_peers>>
    BY DEF ForgetPeer, enetVars
  <1>2. TypeOK' BY <1>1 DEF BInv, TypeOK
  <1>3. TableAgrees' /\ HostsOwnedOnce' BY <1>1 DEF BInv, TableAgrees, HostsOwnedOnce
  <1>4. HoldsItsHost' BY <1>1 DEF BInv, HoldsItsHost
  <1> QED BY <1>2, <1>3, <1>4 DEF BInv

(* A userdata that goes takes its entry with it, and no other's.                *)
LEMMA CollectPeerKeeps ==
  ASSUME BInv, NEW o \in PeerObjects, CollectPeer(o)
  PROVE  BInv'
  <1>1. /\ peer[o] # Null /\ o \notin heldPeers
        /\ peer' = [peer EXCEPT ![o] = Null]
        /\ enet_peers' = [s \in Slots |-> IF enet_peers[s] = o THEN Null ELSE enet_peers[s]]
        /\ UNCHANGED <<allocated, state, host, heldHosts, heldPeers>>
    BY DEF CollectPeer, enetVars
  <1>2. TypeOK'
    <2>1. peer' \in [PeerObjects -> Slots \cup {Null}] BY <1>1 DEF BInv, TypeOK
    <2>2. enet_peers' \in [Slots -> PeerObjects \cup {Null}] BY <1>1 DEF BInv, TypeOK
    <2> QED BY <1>1, <2>1, <2>2 DEF BInv, TypeOK
  <1>3. TableAgrees'
    <2>1. ASSUME NEW s \in Slots, enet_peers'[s] # Null PROVE peer'[enet_peers'[s]] = s
      <3>1. enet_peers'[s] = enet_peers[s] /\ enet_peers[s] # o BY <1>1, <2>1
      <3> QED BY <1>1, <2>1, <3>1 DEF BInv, TypeOK, TableAgrees
    <2>2. ASSUME NEW q \in PeerObjects, peer'[q] # Null PROVE enet_peers'[peer'[q]] = q
      <3>1. q # o /\ peer'[q] = peer[q] BY <1>1, <2>2 DEF BInv, TypeOK
      <3>2. peer[q] \in Slots /\ enet_peers[peer[q]] = q BY <2>2, <3>1 DEF BInv, TypeOK, TableAgrees
      <3> QED BY <1>1, <3>1, <3>2
    <2> QED BY <2>1, <2>2 DEF TableAgrees
  <1>4. HostsOwnedOnce' BY <1>1 DEF BInv, HostsOwnedOnce
  <1>5. HoldsItsHost'
    <2>1. \A q \in heldPeers : q # o /\ q \in PeerObjects /\ peer'[q] = peer[q]
      BY <1>1 DEF BInv, TypeOK
    <2> QED BY <1>1, <2>1 DEF BInv, HoldsItsHost
  <1> QED BY <1>2, <1>3, <1>4, <1>5 DEF BInv

-----------------------------------------------------------------------------
(* Before the first call nothing is allocated, registered or held.                          *)
LEMMA BindingStarts == BindingInit => BInv
  <1> SUFFICES ASSUME BindingInit PROVE BInv OBVIOUS
  <1>1. TypeOK BY DEF BindingInit, TypeOK, States
  <1>2. TableAgrees BY DEF BindingInit, TableAgrees
  <1>3. HostsOwnedOnce BY BindingAssumption DEF BindingInit, HostsOwnedOnce
  <1>4. HoldsItsHost BY DEF BindingInit, HoldsItsHost
  <1> QED BY <1>1, <1>2, <1>3, <1>4 DEF BInv

(* Every call of a script and every finalizer keeps the invariant.                          *)
LEMMA BindingSteps == BInv /\ [BindingNext]_bindingVars => BInv'
  <1> SUFFICES ASSUME BInv, [BindingNext]_bindingVars PROVE BInv' OBVIOUS
  <1>1. CASE UNCHANGED bindingVars
    BY <1>1 DEF bindingVars, enetVars, peerVars, BInv, TypeOK, TableAgrees, HostsOwnedOnce, HoldsItsHost
  <1>2. ASSUME NEW h \in HostObjects, Create(h) PROVE BInv' BY <1>2, CreateKeeps
  <1>3. ASSUME NEW h \in HostObjects, Service(h) PROVE BInv' BY <1>3, ServiceKeeps
  <1>4. ASSUME NEW h \in HostObjects, Connect(h) PROVE BInv' BY <1>4, ConnectKeeps
  <1>5. ASSUME NEW h \in HostObjects, GetPeer(h) PROVE BInv' BY <1>5, GetPeerKeeps
  <1>6. ASSUME NEW h \in HostObjects, Destroy(h) PROVE BInv' BY <1>6, DestroyKeeps
  <1>7. ASSUME NEW h \in HostObjects, ForgetHost(h) PROVE BInv' BY <1>7, ForgetHostKeeps
  <1>8. ASSUME NEW h \in HostObjects, CollectHost(h) PROVE BInv' BY <1>8, CollectHostKeeps
  <1>9. ASSUME NEW o \in PeerObjects, disconnect(o) \/ reset(o) PROVE BInv'
    BY <1>9, PeerMethodsKeep
  <1>10. ASSUME NEW o \in PeerObjects, ForgetPeer(o) PROVE BInv' BY <1>10, ForgetPeerKeeps
  <1>11. ASSUME NEW o \in PeerObjects, CollectPeer(o) PROVE BInv' BY <1>11, CollectPeerKeeps
  <1> QED BY <1>1, <1>2, <1>3, <1>4, <1>5, <1>6, <1>7, <1>8, <1>9, <1>10, <1>11 DEF BindingNext

(* The weak table and the userdata agree, hosts have one owner, and the host of  *)
(* a held peer is held, whatever the order of calls and collections.            *)
THEOREM BindingInvHolds == BindingSpec => []BInv
  BY BindingStarts, BindingSteps, PTL DEF BindingSpec

(* Every variable holds a value of what it stands for.                        *)
THEOREM BindingTypeCorrect == BindingSpec => []TypeOK
  <1>1. BInv => TypeOK BY DEF BInv
  <1> QED BY <1>1, BindingInvHolds, PTL

(* A script that holds the userdata of a slot gets no other for it, though the    *)
(* address is used again and userdata are collected: push_peer().               *)
THEOREM PeersUnique == BindingSpec => []OneObjectPerPeer
  <1>1. BInv => OneObjectPerPeer
    <2> SUFFICES ASSUME BInv PROVE OneObjectPerPeer OBVIOUS
    <2>1. ASSUME NEW o \in heldPeers, NEW q \in heldPeers, peer[o] = peer[q] PROVE o = q
      <3>1. o \in PeerObjects /\ q \in PeerObjects /\ peer[o] # Null
        BY DEF BInv, TypeOK, HoldsItsHost
      <3>2. enet_peers[peer[o]] = o /\ enet_peers[peer[q]] = q
        BY <2>1, <3>1 DEF BInv, TableAgrees
      <3> QED BY <2>1, <3>2
    <2> QED BY <2>1 DEF OneObjectPerPeer, BInv, TableAgrees
  <1> QED BY <1>1, BindingInvHolds, PTL

(* No ENetHost leaks and none is destroyed twice: host_gc() and host:destroy().  *)
THEOREM HostsHaveOneOwner == BindingSpec => []HostsOwnedOnce
  <1>1. BInv => HostsOwnedOnce BY DEF BInv
  <1> QED BY <1>1, BindingInvHolds, PTL

(* Given PeersGivenUp, no method is called on a peer whose host is no more: the   *)
(* collector does not take a host away from under a peer the script holds.       *)
THEOREM NoPeerWithoutHost == BindingSpec => []PeersOfLiveHosts
  <1>1. BInv => PeersOfLiveHosts
    <2> SUFFICES ASSUME BInv, NEW o \in heldPeers
                 PROVE  peer[o] # Null /\ peer[o][1] \in allocated
      BY DEF PeersOfLiveHosts
    <2>1. peer[o] # Null /\ peer[o] \in Slots BY DEF BInv, TypeOK, HoldsItsHost
    <2>2. PICK h \in heldHosts : host[h] = peer[o][1] BY DEF BInv, HoldsItsHost
    <2> QED BY <2>1, <2>2, SlotHasPlace DEF BInv, TypeOK, HostsOwnedOnce
  <1> QED BY <1>1, BindingInvHolds, PTL

=============================================================================
