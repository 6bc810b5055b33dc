\* One browser loads its page, and the container is checked.
SPECIFICATION Spec
CONSTANTS
  dashboard1 = dashboard1  products1 = products1  batches1 = batches1
  dashboard2 = dashboard2  products2 = products2  batches2 = batches2
  todos = todos  healthz = healthz
  Requests = {dashboard1, products1, batches1, todos, healthz}
  Plan <- Handlers
  MaxOpenConns = 5
  MaxRows = 1
INVARIANTS NotWedged
PROPERTIES Answered StepsRunOut
