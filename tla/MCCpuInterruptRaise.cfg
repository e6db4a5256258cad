CONSTANTS
  Program <- Ordinary
  VicWrites = {"raise"}
SPECIFICATION Spec
INVARIANT RaisesAnyTime
