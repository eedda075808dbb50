CONSTANTS
  old = old
  new1 = new1
  new2 = new2
  Nobody = Nobody
  Openers <- MCOpeners
  Newest = 3
  Release <- MCRelease
  Statements <- MCStatements
SPECIFICATION OpenLiveSpec
INVARIANTS SchemaIsVersioned OpenedIsCurrent
PROPERTY EventuallyOpen
