SPECIFICATION SpecVirtual
CONSTANTS
  p1 = p1
  p2 = p2
  Ninguno = Ninguno
  Pids <- MCPids
  NumMarcos = 3
  MaxPaginas = 2
  CantidadEntradas = 2
  MaxTiempo = 4
INVARIANTS HitCorrecto
CHECK_DEADLOCK FALSE
