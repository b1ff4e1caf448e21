SPECIFICATION Spec
CONSTANTS
  r1 = r1
  r2 = r2
  r3 = r3
  k1 = k1
  k2 = k2
  web = web
  xmpp = xmpp
  None = None
  Requests <- MCRequests
  Keys <- MCKeys
  Channels <- MCChannels
  Trusted <- MCTrusted
  KeyOf <- MCKeyOf
  ChannelOf <- MCChannelOf
INVARIANTS TypeOK IndexInv ResolvedOnce
