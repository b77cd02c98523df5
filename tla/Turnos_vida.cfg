SPECIFICATION Spec
CONSTANTS
  p1 = p1
  p2 = p2
  Procesos <- MCProcesos
  Ninguno = Ninguno
  Algoritmos = {"RR"}
  QUANTUM = 1
  MaxSocket = 1
  MaxTardios = 1
PROPERTIES RRAvanza MatarTermina
CHECK_DEADLOCK FALSE
