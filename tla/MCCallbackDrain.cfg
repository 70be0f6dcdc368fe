CONSTANTS
  Slots = 3
  Event = {"Connected", "Disconnected", "Answer", "Refusal", "Report"}
  NoEvent = "None"
  Maximum = 3
SPECIFICATION Spec
INVARIANT NoSlotRace
INVARIANT TradesWithoutGaps
PROPERTY ImplementsLossyFifo
PROPERTY LossNoticed
PROPERTY LossMadeUpFor
