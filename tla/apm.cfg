CONSTANTS
  MaxFrames = 4
  TransferSize = 2
  DefaultFormat = DefaultFormat
  StreamFormat = StreamFormat
  NoFrame = NoFrame
SPECIFICATION Spec
INVARIANTS CaptureIsUpToDate
PROPERTIES ImplementsRenderTransfer CancellerSurvives SubmoduleStatesAreStable CallsReturn
\* A recording ends: nobody brings another frame.
CHECK_DEADLOCK FALSE
