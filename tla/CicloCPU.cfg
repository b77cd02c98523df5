SPECIFICATION Spec
CONSTANTS
  p1 = p1
  p2 = p2
  Nadie = Nadie
  Basura = Basura
  CHICO = 32
  BYTES = 4
  tamanio_pagina = 4
  TAM_MEMORIA = 24
  Procesos = {p1, p2}
  Interrupciones = {"INTERRUPT_QUANTUM", "INTERRUPT_USER"}
  tabla_paginas <- MCTablaPaginas
  Cargas <- MCCargas
  Contenidos <- MCContenidos
INVARIANTS PedidoCompleto TextoEntero
PROPERTIES ImplementaMaquina
CHECK_DEADLOCK FALSE
