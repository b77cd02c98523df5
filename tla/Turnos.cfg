SPECIFICATION Spec
CONSTANTS
  p1 = p1
  p2 = p2
  Procesos <- MCProcesos
  Ninguno = Ninguno
  Algoritmos = {"FIFO", "RR", "VRR"}
  QUANTUM = 2
  MaxSocket = 1
  MaxTardios = 1
INVARIANTS UnSoloTurno QuantumEnRango TurnoAcotado
CHECK_DEADLOCK FALSE
SYMMETRY Simetria
