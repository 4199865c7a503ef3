SPECIFICATION LinkSpec
CONSTANTS
  Items = {1, 2, 3, 4, 5}
  m_latency = 3
PROPERTIES IsDelayLine
