SPECIFICATION FairSpec
CONSTANTS
  User = {u1, u2}
  Stranger = Stranger
  Pass <- MCPass
  Wrong = Wrong
  NoCred = NoCred
INVARIANTS Agreement Authentic OwnershipExact NoFalseRefusal
PROPERTY Ends
