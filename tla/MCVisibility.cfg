SPECIFICATION Spec
CONSTANTS
  Users = {u1, u2}
  Groups = {g1}
  Entities = {e1, e2}
  Offers <- MCOffers
  MaxGrants = 2
  MaxRows = 3
  MaxHidden = 1
SYMMETRY MCSymmetry
INVARIANTS
  FormsAgree
  ListIsItemRoutes
CHECK_DEADLOCK FALSE
