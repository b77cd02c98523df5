SPECIFICATION SpecJusta
CONSTANTS
  p1 = p1  p2 = p2  p3 = p3
  Ninguno = Ninguno
  Pids = {p1, p2}
  GradoInicial = 1
  Grados = {1}
  Comandos <- MatarSinReducir
  Motivos <- MotivosQueReplanifican
  MaxPosts = 0
PROPERTY ConsolaResponde
CHECK_DEADLOCK FALSE
