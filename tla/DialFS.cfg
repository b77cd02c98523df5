SPECIFICATION Spec
CONSTANTS
  fa = fa  fb = fb  fc = fc
  Archivos = {fa, fb, fc}
  BLOCK_SIZE = 2
  BLOCK_COUNT = 4
  MaxTamanio = 6
  LimiteEscritura = "metadata"
SYMMETRY Simetria
INVARIANTS TypeOK BitmapExacto ContenidoConservado
CHECK_DEADLOCK FALSE
