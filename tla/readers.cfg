SPECIFICATION Spec
CONSTANTS
  Story = {s}
  Person = {e, f}
  Editor = {e}
  Anonymous = Anonymous
  Nobody = Nobody
  Ttl = 2
INVARIANTS TypeOK ListsAgreeWithPages CardIsRecent ErasedHoldNothing
PROPERTIES OnlyOwnersOpen
