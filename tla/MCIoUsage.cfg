SPECIFICATION Spec
CONSTANTS
    Units = {u1, u2, u3}
    Inputs = {in1, in2}
    Outputs = {out1, out2}
    NoDevice = NoDevice
INVARIANTS
    TypeOK
    FloorsAreRespected
PROPERTY
    ImplementsOccupancy
