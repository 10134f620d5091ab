SPECIFICATION Spec
CONSTANTS
  c1 = c1
  n1 = n1
  sp1 = sp1
  Capsules = {c1}
  Threads = {t1, t2}
  Objs = {o1, o2, o3}
  Slots = {s1}
  Nodes = {n1}
  Specs = {sp1}
  MeshRows <- McMesh
  Mirrored <- McMirrored
  DbMayFail = TRUE
  Nil = Nil
INVARIANTS TypeOK Durable
PROPERTY NoResurrection
SYMMETRY Sym
