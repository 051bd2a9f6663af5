SPECIFICATION Spec
CONSTANTS
  empty = empty
  text = text
  portrait = portrait
  landscape = landscape
  NoSymbol = NoSymbol
  Missing = Missing
  Unreadable = Unreadable
  NoName = NoName
  Contents = {empty, text}
  Encodable = {text}
  FirstContent = text
  Minima = {2}
  Orientations = {portrait, landscape}
  DefaultOrientation = landscape
  Scale <- TwoWays
  Names = {1, 2, 3}
  MaxPresets = 2
  PageSize = 1
  WriteResults = {"refused", "empty", "cut", "whole"}
INVARIANTS
  TypeOK
  SettingsOnFlash
  TouchesMeetTheScreen
  RowsAsShown
  PresetLimit
PROPERTIES
  TouchSaveKeepsOthers
