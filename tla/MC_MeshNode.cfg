\* AP-side MyMesh: inbox, reply queue, ACK register and proxy discovery,
\* with every sendMessage succeeding.
CONSTANTS
  Contacts = {p1, p2}
  Proxy = p1
  PeerTexts = {"ping", "", "wdp", "junk", "raw"}
  MAX_PENDING_INBOX = 2
  MAX_PENDING_REPLIES = 1
  AP_PROXY_DISCOVERY_MAX_RETRIES = 2
  InboxDelay = 1
  PingTimeout = 2
  MaxIncoming = 2
  MaxRequests = 1
  SendMayFail = FALSE
SPECIFICATION Spec
INVARIANT TypeOK HandledOnce RetriesExhausted
PROPERTY QueuedHandled DiscoveryEnds
