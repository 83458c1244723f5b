SPECIFICATION FairSpec
CONSTANTS
  Story = {s}
  Person = {e, f}
  Editor = {e}
  Anonymous = Anonymous
  Nobody = Nobody
  Ttl = 2
PROPERTIES DeletionsApply
