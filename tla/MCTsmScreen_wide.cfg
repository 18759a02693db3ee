SPECIFICATION Spec
CONSTANT Clients <- WideClients
INVARIANT LinesWideEnough
