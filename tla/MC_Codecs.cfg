\* Base91 encode/decode on every input of up to 2 bytes or 2 characters,
\* and on edge inputs against every buffer size up to 10; the encoded
\* length of every datagram sendWDPToMesh may be given, up to beyond the
\* truncation; WSP Get PDUs, replies and arbitrary reply bytes, with the
\* 64-bit unsigned long of the host build.
CONSTANTS
  EncodeInputs <- MC_EncodeInputs
  DecodeInputs <- MC_DecodeInputs
  EncodeEdges <- MC_EncodeEdges
  DecodeEdges <- MC_DecodeEdges
  Caps = {0, 1, 2, 3, 4, 5, 6, 7, 8, 9, 10}
  BufferSize = 256
  MESHCORE_MAX_BYTES = 150
  DatagramLens <- MC_DatagramLens
  Uris <- MC_Uris
  Replies <- MC_Replies
  Pdus <- MC_Pdus
  WmlDocs <- MC_WmlDocs
  Wmlcs <- MC_Wmlcs
  ULONG_BITS = 64
  MESHCORE_MAX_BINARY_PAYLOAD = 120
  Sends <- MC_Sends
  Datagrams <- MC_Datagrams
  StatusBytes <- MC_StatusBytes
  Requests <- MC_Requests
SPECIFICATION Spec
INVARIANT DigitsInAlphabet RoundTrip EncodeAllOrNothing DecodeAllOrNothing EncodingFits
  GetRequestParses ReplyRoundTrip ReadsInBounds WmlRoundTrip OutputFits DecompileReadsInBounds
  DatagramsRoundTrip ValidatedDispatch
  StatusLine ReplyParsersAgree FrontEndForwards
