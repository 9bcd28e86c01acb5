\* Two overlapping cycles over two events; three tokens are always enough for
\* a fresh one, since a claiming cycle carries none.
SPECIFICATION FairSpec
CONSTANTS
  Events <- MCEvents
  Cycles = {c1, c2}
  Tokens = {t1, t2, t3}
  NoToken = NoToken
  NoEvent = NoEvent
  Limit = 2
PROPERTIES
  ImplementsContract
  KeepsPromise
