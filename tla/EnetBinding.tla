---------------------------- MODULE EnetBinding ----------------------------
(***************************************************************************)
(* Lua objects for ENet's hosts and peers, lualib-src/lua-enet.c.  A host is a   *)
(* userdata that owns an ENetHost and destroys it when it is collected, or       *)
(* before, on host:destroy(); a peer is a userdata with the address of a slot    *)
(* of its host, which it does not keep alive.  A weak table gives every slot at  *)
(* most one userdata.                                                        *)
(*                                                                          *)
(* The allocator may give a new host the place of an old one, and its slots the  *)
(* addresses the weak table still has entries for.  Collection of whatever the   *)
(* script has no reference to can happen at any time (LuaCollector).  ENet is    *)
(* external: slots are taken and left, by either side, while a host is serviced. *)
(***************************************************************************)
EXTENDS Naturals

CONSTANTS
  Places,       (* where enet_host_create() may put a host                    *)
  PeerCount,    (* the slots of a host: 64 unless the script says otherwise    *)
  HostObjects,  (* userdata there may be at a time, of metatable "enet_host"   *)
  PeerObjects,  (* and of metatable "enet_peer"                              *)
  Null          (* the NULL in a host's userdata, and no object               *)

Slots == Places \X (1..PeerCount)       \* the addresses &host->peers[i]
Free == "free"                          \* no such userdata at present

ASSUME BindingAssumption ==
  PeerCount \in Nat \ {0} /\ Null \notin Places \cup PeerObjects \cup Slots /\ Free \notin Places

States == {"disconnected", "connecting", "connected", "disconnecting"}

VARIABLES
  allocated, state,       \* ENet: the hosts there are, the state of every slot
  host, peer,             \* what is in the userdata: Free, or Null or a place; Null or a slot
  enet_peers,             \* the weak table in the registry
  heldHosts, heldPeers    \* the userdata the script has a reference to

enetVars == <<allocated, state>>
peerVars == <<peer, enet_peers, heldPeers>>
bindingVars == <<enetVars, host, heldHosts, peerVars>>

(* luaopen_enet()                                                            *)
BindingInit ==
  /\ allocated = {} /\ state = [s \in Slots |-> "disconnected"]
  /\ host = [h \in HostObjects |-> Free] /\ heldHosts = {}
  /\ peer = [o \in PeerObjects |-> Null] /\ heldPeers = {}
  /\ enet_peers = [s \in Slots |-> Null]

-----------------------------------------------------------------------------
(* host_create(): fails if there is no room (or the address is taken).        *)
Create(h) ==
  /\ host[h] = Free
  /\ \E a \in Places \ allocated :
       /\ allocated' = allocated \cup {a}
       /\ state' = [s \in Slots |-> IF s[1] = a THEN "disconnected" ELSE state[s]]
       /\ host' = [host EXCEPT ![h] = a]
  /\ heldHosts' = heldHosts \cup {h}
  /\ UNCHANGED peerVars

(* Mutant: the new userdata is not entered.                                   *)
KeepTable(s, o) == enet_peers
Enter(s, o) == [enet_peers EXCEPT ![s] = o]

(* The userdata of slot s is put on the script's stack: the one in the table,  *)
(* held or not, if there is one.                                              *)
push_peer(s) ==
  \/ /\ enet_peers[s] # Null
     /\ heldPeers' = heldPeers \cup {enet_peers[s]}
     /\ UNCHANGED <<peer, enet_peers>>
  \/ /\ enet_peers[s] = Null
     /\ \E o \in PeerObjects :
          /\ peer[o] = Null
          /\ peer' = [peer EXCEPT ![o] = s]
          /\ enet_peers' = Enter(s, o)
          /\ heldPeers' = heldPeers \cup {o}

(* check_host() and the test behind it: a destroyed host is an error.          *)
Usable(h) == h \in heldHosts /\ host[h] # Null

SlotsOf(h) == {s \in Slots : s[1] = host[h]}

(* host_service() and host_check_events(): an event and its peer.              *)
Service(h) ==
  /\ Usable(h)
  /\ \E s \in SlotsOf(h) :
       /\ \/ state[s] \in {"disconnected", "connecting"} /\ state' = [state EXCEPT ![s] = "connected"]
          \/ state[s] = "connected" /\ UNCHANGED state
          \/ state[s] # "disconnected" /\ state' = [state EXCEPT ![s] = "disconnected"]
       /\ push_peer(s)
  /\ UNCHANGED <<allocated, host, heldHosts>>

(* host_connect(): a slot that is not in use; an error if there is none.       *)
Connect(h) ==
  /\ Usable(h)
  /\ \E s \in SlotsOf(h) :
       /\ state[s] = "disconnected"
       /\ state' = [state EXCEPT ![s] = "connecting"]
       /\ push_peer(s)
  /\ UNCHANGED <<allocated, host, heldHosts>>

(* host_get_peer(), of any slot; what else there is of host methods (flush,     *)
(* broadcast, limits, counters) returns no userdata and changes no slot.       *)
GetPeer(h) ==
  /\ Usable(h)
  /\ \E s \in SlotsOf(h) : push_peer(s)
  /\ UNCHANGED <<enetVars, host, heldHosts>>

-----------------------------------------------------------------------------
(* Peer methods: check_peer() takes the address as it is.                      *)

disconnect(o) ==
  /\ o \in heldPeers /\ state[peer[o]] \in {"connecting", "connected"}
  /\ state' = [state EXCEPT ![peer[o]] = "disconnecting"]
  /\ UNCHANGED <<allocated, host, heldHosts, peerVars>>

(* disconnect_now() and reset(); a connect that is taken back likewise.         *)
reset(o) ==
  /\ o \in heldPeers /\ state[peer[o]] # "disconnected"
  /\ state' = [state EXCEPT ![peer[o]] = "disconnected"]
  /\ UNCHANGED <<allocated, host, heldHosts, peerVars>>

-----------------------------------------------------------------------------
(* The end of userdata.                                                      *)

(* Mutant: the address stays in the userdata.                                 *)
Kept(h) == host[h]
Cleared(h) == Null

(* host_gc(), in which enet_host_destroy() frees the slots with the host.      *)
host_gc(h) ==
  /\ allocated' = allocated \ {host[h]}
  /\ UNCHANGED <<state, peerVars>>

(* The script destroys a host, or gives its last reference up, when it holds     *)
(* none of its peers any more: the programs of the repository keep host and     *)
(* peers to their end, and the binding does not check it.                      *)
PeersGivenUp(h) == \A o \in heldPeers : peer[o] \notin SlotsOf(h)

Destroy(h) ==
  /\ h \in heldHosts /\ PeersGivenUp(h)
  /\ host_gc(h)
  /\ host' = [host EXCEPT ![h] = Cleared(h)]
  /\ UNCHANGED heldHosts

ForgetHost(h) ==
  /\ h \in heldHosts /\ PeersGivenUp(h)
  /\ heldHosts' = heldHosts \ {h}
  /\ UNCHANGED <<enetVars, host, peerVars>>

ForgetPeer(o) ==
  /\ o \in heldPeers
  /\ heldPeers' = heldPeers \ {o}
  /\ UNCHANGED <<enetVars, host, heldHosts, peer, enet_peers>>

(* The collector: a host by way of its __gc, a peer by way of the weak table.  *)
CollectHost(h) ==
  /\ host[h] # Free /\ h \notin heldHosts
  /\ host_gc(h)
  /\ host' = [host EXCEPT ![h] = Free]
  /\ UNCHANGED heldHosts

CollectPeer(o) ==
  /\ peer[o] # Null /\ o \notin heldPeers
  /\ peer' = [peer EXCEPT ![o] = Null]
  /\ enet_peers' = [s \in Slots |-> IF enet_peers[s] = o THEN Null ELSE enet_peers[s]]
  /\ UNCHANGED <<enetVars, host, heldHosts, heldPeers>>

-----------------------------------------------------------------------------
BindingNext ==
  \/ \E h \in HostObjects :
       \/ Create(h) \/ Service(h) \/ Connect(h) \/ GetPeer(h)
       \/ Destroy(h) \/ ForgetHost(h) \/ CollectHost(h)
  \/ \E o \in PeerObjects : disconnect(o) \/ reset(o) \/ ForgetPeer(o) \/ CollectPeer(o)

BindingSpec == BindingInit /\ [][BindingNext]_bindingVars

-----------------------------------------------------------------------------
(* Properties.                                                               *)

(* Every variable holds a value of what it stands for.                       *)
TypeOK ==
  /\ allocated \subseteq Places /\ state \in [Slots -> States]
  /\ host \in [HostObjects -> Places \cup {Null, Free}] /\ heldHosts \subseteq HostObjects
  /\ peer \in [PeerObjects -> Slots \cup {Null}] /\ heldPeers \subseteq PeerObjects
  /\ enet_peers \in [Slots -> PeerObjects \cup {Null}]

(* Scripts may compare peers, and use them as keys: as long as a script holds   *)
(* the userdata of a slot it gets no other for it, though userdata are           *)
(* collected and hosts are made where others were.                             *)
OneObjectPerPeer ==
  /\ \A o, q \in heldPeers : peer[o] = peer[q] => o = q
  /\ \A s \in Slots : enet_peers[s] # Null => peer[enet_peers[s]] = s

(* Every ENetHost belongs to one userdata: none leaks, and none is destroyed     *)
(* by an explicit destroy() and then once more, when another host may be where  *)
(* it was, by the collector.                                                  *)
HostsOwnedOnce ==
  /\ allocated = {host[h] : h \in HostObjects} \cap Places
  /\ \A h, g \in HostObjects : host[h] = host[g] /\ host[h] \in Places => h = g

(* A script that keeps to PeersGivenUp never calls a method on a peer whose      *)
(* host is no more.                                                           *)
PeersOfLiveHosts ==
  \A o \in heldPeers : peer[o] # Null /\ peer[o][1] \in allocated

-----------------------------------------------------------------------------
(* The inductive invariant.                                                  *)

(* The weak table and the userdata say the same.                             *)
TableAgrees ==
  /\ \A s \in Slots : enet_peers[s] # Null => peer[enet_peers[s]] = s
  /\ \A o \in PeerObjects : peer[o] # Null => enet_peers[peer[o]] = o

(* The host of a peer the script holds is held too, in a userdata that was not   *)
(* destroyed: so it is neither collected nor destroyed.                       *)
HoldsItsHost ==
  \A o \in heldPeers : peer[o] # Null /\ \E h \in heldHosts : host[h] = peer[o][1]

BInv == TypeOK /\ TableAgrees /\ HostsOwnedOnce /\ HoldsItsHost

=============================================================================
