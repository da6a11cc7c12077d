SPECIFICATION Spec
CONSTANTS
  Threads = {main, ide, other}
  Main = main
  Vectors = {0, 13, 14, 32, 46}
  MaxNest = 2
INVARIANTS HandlerSeesIntrReg TaskUndisturbed TaskPreemptible
