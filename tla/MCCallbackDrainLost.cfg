CONSTANTS
  Slots = 3
  Event = {"Connected", "Disconnected", "Answer", "Refusal", "Report"}
  NoEvent = "None"
  Maximum = 3
SPECIFICATION Spec
PROPERTY OverflowRecovers
