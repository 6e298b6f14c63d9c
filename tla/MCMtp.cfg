CONSTANTS
    Capacity = 2
    MaxObject = 3
    SizeUnknown = SizeUnknown
SPECIFICATION Spec
INVARIANTS StreamInv WorkerInFrame StoppedIsQuiet
PROPERTIES AnswerHonest StopReturns TransferEnds IsByteStream
