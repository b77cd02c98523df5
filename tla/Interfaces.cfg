SPECIFICATION SpecJusta
CONSTANTS
  p1 = p1  p2 = p2
  c1 = c1  c2 = c2  i1 = i1  i2 = i2
  Ninguno = Ninguno
  Pids = {p1, p2}
  Conexiones = {c1, c2}
  Nombres = {i1, i2}
  nombre <- DosNombres
INVARIANTS TypeOK BloqueadoTienePedido PedidoUnico EnUsoViva
PROPERTIES EsperaTermina
CHECK_DEADLOCK FALSE
