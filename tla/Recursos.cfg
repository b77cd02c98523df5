SPECIFICATION Spec
CONSTANTS
  p1 = p1  p2 = p2  p3 = p3  ra = ra  rb = rb
  Ninguno = Ninguno
  Pids = {p1, p2, p3}
  NombresRecursos = {ra, rb}
  Instancias <- DosRecursos
  MaxUsos = 2
  MaxCreadas = 1
SYMMETRY Simetria
INVARIANTS Conservacion ColasCoherentes InvInductivo Exclusion
PROPERTIES SinAdelantamiento SalidaOrdenada
CHECK_DEADLOCK FALSE
