CONSTANTS
  Threads = {1, 2}
  Stubs <- MC_Stubs
SPECIFICATION Spec
INVARIANTS StacksLeadBack
PROPERTIES UserFindsItsOwn
