SPECIFICATION Spec
CONSTANTS
  Users = {ann, bob, cid}
  Groups = {g1}
  NoOne = NoOne
SYMMETRY Symmetry
INVARIANTS NamesExist OneRelation GroupsOnce
PROPERTIES GraphSpec OldSpec
