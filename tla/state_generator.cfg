SPECIFICATION Spec
CONSTANT Benchmarks <- AllBenchmarks
INVARIANTS
  TypeConfigsMatchInstantiations
  EveryConfigurationHasItsState
