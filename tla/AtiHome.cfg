SPECIFICATION Spec
CONSTANTS
  Order <- MCOrder
  Ttl = 1
  Catalog <- MCCatalog
  Skills = {"route"}
  Urls = {"u", "here"}
  Ships <- MCShips
  Procs = {p1, p2}
  Commands <- MCCommands
  KeyNames = {"k", "l"}
  MaxStarts = 3
  MaxTogether = 2
  MaxEdits = 1
  MaxVersion <- MCMaxVersion
INVARIANTS VerifiedIsPublished 
PROPERTIES KeptUnlessAsked
CHECK_DEADLOCK FALSE
SYMMETRY MCSymmetry
