SPECIFICATION Spec
CONSTANTS
  Recipients = {r1, r2}
  Spellings = {"email"}
SYMMETRY RecipientSymmetry
INVARIANTS  DisclosedFirst
