SPECIFICATION Spec
CONSTANTS
  p1 = p1  p2 = p2  p3 = p3
  Ninguno = Ninguno
  Pids = {p1, p2}
  GradoInicial = 1
  Grados = {1, 2}
  Comandos <- TodosLosComandos
  Motivos <- MotivosQueReplanifican
  MaxPosts = 0
SYMMETRY Simetria
INVARIANTS
  TypeOK
  SemaforosCoherentes
  UnSoloLugar
  CuposConservados
  RastreoCompleto
PROPERTIES
  ImplementaCiclo
  DetenidaNoMueve
CHECK_DEADLOCK FALSE
