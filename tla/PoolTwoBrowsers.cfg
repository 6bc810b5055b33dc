\* Two browsers load their pages at the same time.
SPECIFICATION Spec
CONSTANTS
  dashboard1 = dashboard1  products1 = products1  batches1 = batches1
  dashboard2 = dashboard2  products2 = products2  batches2 = batches2
  todos = todos  healthz = healthz
  Requests = {dashboard1, products1, batches1, products2, batches2}
  Plan <- Handlers
  MaxOpenConns = 5
  MaxRows = 1
\* The server stops.
CHECK_DEADLOCK FALSE
PROPERTIES Answered
