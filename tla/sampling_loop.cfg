SPECIFICATION Spec
CONSTANTS
  Configs <- AllConfigs
  Durations = {0, 1, 3}
  MaxDelay = 12
  min_samples_for_noise_estimate = 2
  invalid_noise_estimate_limit = 2
  min_noise_stability_window = 1
  noise_stability_check_interval = 2
INVARIANTS
  SamplesAgree
  StdrelTimeoutIsReported
PROPERTIES
  IsMeasurement
