\* Three of the sources, every body under every header, XML documents of
\* three levels.
CONSTANTS
  Sources <- MCSources
  Declared <- MCDeclared
  Open <- MCOpen
  Mime <- MCMime
  Elements <- MCElements
  Depth <- MCDepth
SPECIFICATION Spec
INVARIANT XmlKeepsEveryChild
