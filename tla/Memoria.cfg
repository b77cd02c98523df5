SPECIFICATION SpecPartes
CONSTANTS
  p1 = p1  p2 = p2  p3 = p3
  Ninguno = Ninguno
  Pids = {p1, p2, p3}
  NumMarcos = 2
  MaxPaginas = 3
  Procesos = {p1, p2}
  Paginas <- MCPaginas
  Frames <- MCFrames
  CantidadEntradas = 3
  MaxTiempo = 9
INVARIANTS InvMarcos TamanioConcedido SinRepetidas
PROPERTIES PaginasEstables RechazoJustificado CambioRespondido ImplementaCache
CHECK_DEADLOCK FALSE
