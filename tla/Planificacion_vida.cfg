SPECIFICATION SpecJusta
CONSTANTS
  p1 = p1  p2 = p2  p3 = p3
  Ninguno = Ninguno
  Pids = {p1, p2}
  GradoInicial = 2
  Grados = {2}
  Comandos <- ArranqueYParada
  Motivos <- MotivosDeVida
  MaxPosts = 1
PROPERTIES ConsolaResponde SalidaLibera ListoEjecuta ImplementaCiclo
