\* WMLC decompiling with the 32-bit unsigned long and size_t of the ESP32
\* build, on arbitrary bodies and bodies with large OPAQUE lengths.
CONSTANTS
  EncodeInputs = {}
  DecodeInputs = {}
  EncodeEdges = {}
  DecodeEdges = {}
  Caps = {}
  BufferSize = 256
  MESHCORE_MAX_BYTES = 150
  DatagramLens = {}
  Uris = {}
  Replies = {}
  Pdus = {}
  WmlDocs = {}
  Wmlcs <- MC_OpaqueWmlcs
  ULONG_BITS = 32
  MESHCORE_MAX_BINARY_PAYLOAD = 120
  Sends = {}
  Datagrams = {}
  StatusBytes = {}
  Requests = {}
SPECIFICATION Spec
INVARIANT DecompileTerminates
