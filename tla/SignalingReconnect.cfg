SPECIFICATION SSpec
CONSTANTS
    peer1 = peer1  peer2 = peer2  c1 = c1  c2 = c2  c3 = c3  Absent = Absent
    Peer = {peer1, peer2}
    Conn = {c1, c2, c3}
    PeerOf <- BrowserOf
    MaxPeers = 2
    MaxMessages = 3
INVARIANT InSync
CHECK_DEADLOCK FALSE
