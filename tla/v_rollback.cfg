SPECIFICATION Spec
CONSTANTS
  Vlans = {1, 2}
  L2Vnis = {11, 12}
  Vrfs = {"red", "blue"}
  L3Vnis = {11, 21}
PROPERTIES PreExistingKept
CHECK_DEADLOCK FALSE
