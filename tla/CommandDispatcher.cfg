CONSTANTS
  Uid = {collector, gate, machine}
  Handler = {h1, h2}
  NoHandler = NoHandler
  MaxDepth = 2
SPECIFICATION Spec
PROPERTY ImplementsRouting
