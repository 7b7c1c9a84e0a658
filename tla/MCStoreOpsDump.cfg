\* rdf_dump_ntriples and then rdf_load_ntriples, on every small literal.
CONSTANTS
  c1 = c1
  c2 = c2
  Conns = {c1, c2}
  Triples <- MCTriples
  Graphs = {"default", "g"}
  Malformed = Malformed
  Reparsed <- MCReparsed
  Reread <- MCReread
  Workloads <- MCWorkloads
  Letters = {"a", "n"}
  MaxLength = 2
SPECIFICATION Spec
CHECK_DEADLOCK FALSE
INVARIANT
  DumpLoads
