CONSTANTS
  Program <- Ordinary
  VicWrites = {"lower"}
SPECIFICATION Spec
INVARIANTS OneCpuEvent IrqKept Justified
PROPERTY NmiServed
