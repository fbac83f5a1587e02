SPECIFICATION Spec
CONSTANTS
  i1 = i1
  i2 = i2
  i3 = i3
  b1 = b1
  b2 = b2
  Installs = {i1, i2, i3}
  Bundles = {b1, b2}
  BundleOf <- Shipped
  NoBundle = NoBundle
  Works = {b1}
INVARIANTS IdIsProof InstallIsKept
CHECK_DEADLOCK FALSE
