CONSTANTS
  n1 = n1
  n2 = n2
  Node = {n1, n2}
  Founder = n1
  NoNode = NoNode
  Settings <- MCMarker
SPECIFICATION Spec
PROPERTY OwnWritesSurviveRestart
