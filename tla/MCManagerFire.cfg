SPECIFICATION Spec
CONSTANTS
  c1 = c1
  n1 = n1
  sp1 = sp1
  Capsules = {c1}
  Threads = {t1, t2}
  Objs = {o1, o2, o3}
  Slots = {s1}
  Nodes = {n1}
  Specs = {sp1}
  MeshRows <- NoMesh
  Mirrored <- NoMirror
  DbMayFail = TRUE
  Nil = Nil
INVARIANT StatusIsMachineState
SYMMETRY Sym
