SPECIFICATION Spec
CONSTANTS
  FirstCars = 2
  SecondCars = 2
  Tot = 6
  Adjust = 0
  Mid = 3
  Far = 4
  Standard = 2
  MaxHz = 6
  FirstHz = {0, 1}
  SecondHz = {0, 3}
  PidHz = {0, 5}
  U16 = 32
  Coast = 1
  MaxCmd = 2
PROPERTY
  RepairEndsAtTarget
