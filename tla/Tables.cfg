SPECIFICATION TablesSpec
CONSTANTS
  Ints = {1, 2, 3}
  Strings = {str}
  Pointers = {ptr}
  Floats = {num}
  Values = {v}
  Nil = Nil
  Error = Error
  str = str
  ptr = ptr
  num = num
  Hash <- Hashes
  Whole <- Wholes
  MaxArray = 2
  MaxHash = 4
  MaxInt = 3
  Places = {a, b}
  PeerCount = 2
  HostObjects = {h1, h2}
  PeerObjects = {o1, o2, o3}
  Null = Null
SYMMETRY Alike
INVARIANTS
  FindsWhatWasStored
  LengthIsBorder
  OneObjectPerPeer
  HostsOwnedOnce
  PeersOfLiveHosts
PROPERTIES TraversesAll
