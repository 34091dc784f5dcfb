CONSTANTS
  Pads = {{"x", "y"}}
  Triggers = {"t"}
  Buttons = {"b"}
  Sensors = {{"ax", "ay"}}
  Reports <- ReportValues
  AxisFuzz = 1
  TriggerFuzz = 1
  SensorFuzz = 1
  TriggerRange = 4
  MouseButtons = {"left", "right"}
  Controls = {"c1", "c2", "c3"}
  Settings = {"profile"}
  SettingValues = {0, 1}
  MaxPressed = 3
  Dots = 2
  Positions = {1, 2}
  Lost = 0
  Interfaces = {"infrared", "extension"}
  Infrared = "infrared"
  WiiKeys = {10}
  MaxWatches = 2
  EvCodes = {"BTN_LEFT", "ABS_X"}
  EvValues = {0, 1, 2}
  BufferSize = 2
  Sources = {"click", "touch"}
  Levels <- TouchAndClick
  Rules <- RemapRules
  DeviceEvents <- FilteredEvents
  MatchRules <- FilterRules
  CodeRange = 4
  CallArguments <- Calls
  Nesting = 5
  Half = 4
  ClassCount = 3
  Users = {"t1", "t2"}
  Environments <- HomeAndXdg
  Configurations <- TwoConfigs
  FileNames = {"a.js", "b.js", "/c.js"}
  Absolute = {"/c.js"}
  Disks <- SomeDisks
  InputDevices <- TwoDevices
  Profiles <- AskedProfiles
  GeneralSettings <- General
  ModeSettings <- Mode
  Readable <- Texts
  MaxProfiles = 2
SPECIFICATION Spec
PROPERTY TriggerAnswersAreCurrent
CHECK_DEADLOCK FALSE
