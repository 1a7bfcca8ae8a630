SPECIFICATION PartSpec
CONSTANTS
  Calls = {c1, c2, c3}
  None = None
  Claims = {"userId", "email"}
  Instances = {i1, i2}
  Take = 1
  Words = {"w"}
  Listings = {j1, j2}
  Window = 2
  Users = {u1, u2}
  MaxActs = 2
SYMMETRY Symmetry
INVARIANTS
  TypeOK
  RefundedOnce
  AskedOnce
  SeenOnce
  SavedIsStored
  MarkIsStored
  PostedOnce
  ListMatchesHeading
  ReadShownIsRead
  TokensOfShownUser
PROPERTIES
  ReviewStands
CHECK_DEADLOCK FALSE
