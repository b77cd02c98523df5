SPECIFICATION Spec
CONSTANTS
  p1 = p1  p2 = p2  p3 = p3  ra = ra  rb = rb
  Ninguno = Ninguno
  Pids = {p1, p2, p3}
  NombresRecursos = {ra}
  Instancias <- UnaInstancia
  MaxUsos = 1
  MaxCreadas = 0
INVARIANT NadieEsperaConInstanciasLibres
CHECK_DEADLOCK FALSE
