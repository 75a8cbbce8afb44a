CONSTANTS
    Size = 640
    Image = 4032
    Num <- Numerator
    Den <- Denominator
    Offsets <- NoneLeftRight
    Round <- SomeError
    Err = 2
    Ends <- EndsNearTheEdges
SPECIFICATION Spec
INVARIANTS
    TypeOK
    CropInImage
    PlateInCrop
    VehicleCoversCrop
CHECK_DEADLOCK FALSE
