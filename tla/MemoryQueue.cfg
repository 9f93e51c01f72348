\* Two webhook handlers, the worker and the goroutine that stops it.
CONSTANTS
  h1 = h1
  h2 = h2
  worker = worker
  main = main
  Clients <- MCClients
  Items = {e1, e2}
  Nil = Nil
  Operations <- MCOperations
  MaxItems = 2
SPECIFICATION Spec
INVARIANTS TypeOK HeldInside
PROPERTIES ImplementsFifo
