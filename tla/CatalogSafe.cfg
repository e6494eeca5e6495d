CONSTANTS
  Components = {c1, c2}
  Actors = {a1, a2}
  Manual = {c1}
  Profiles <- OneOrTwoCards
SPECIFICATION Spec
SYMMETRY Symmetric
INVARIANTS TypeOK SearchShowsWhatIsServed ServedWasApproved
PROPERTY NoLostUpdate
