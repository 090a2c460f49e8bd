SPECIFICATION Spec
CONSTANTS Networks <- MCNetworks
          TiedSize = 3
INVARIANT UnconvergedHasNoResult
