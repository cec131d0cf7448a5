SPECIFICATION WireSpec
CONSTANTS
  Lines <- TypedLines
  Names <- RegisteredNames
  Me <- Ana
  MsgId <- LongestId
  Port <- OpenPort
INVARIANTS
  WireTypeOK
  FieldsAreSplit
  ArgumentsArrive
  FrameFits
  ShownAsSent
  AckNamesMessage
  ListenerSurvives
