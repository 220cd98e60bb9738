SPECIFICATION Spec
CONSTANTS
  TopicLen = 3
  ContentLen = 7
  IpLen = 4
  Left = 65
  Published <- Everything
CHECK_DEADLOCK FALSE
INVARIANTS PayloadTypeOK FieldsShown TextShown IntShown ShortRealShown FloatShown
