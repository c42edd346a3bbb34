SPECIFICATION FairSpec
CONSTANTS
  setting = setting
  mirror = mirror
  name = name
  m1 = m1
  m2 = m2
  t1 = t1
  t2 = t2
  Task = {t1, t2}
  Var = {setting, mirror, name}
  Module = {m1, m2}
  None = None
  Free = Free
  Table <- Tables
  Kind <- Kinds
  Width <- Widths
  Base = 2
  Persistent = {setting}
  Runtime = {}
  Watched = {setting, mirror}
  Chain <- Chained
  Registrar = t1
  Resettable = {m1}
  SlotCount = 2
  Writable = {setting}
  Inputs <- Sets
  Ops = {"set", "setString", "reset", "resetModule", "fail", "powerLoss", "limits"}
  CanWrites = {}
INVARIANTS DeviceAgrees CallbackUpToDate
PROPERTIES CallsReturn SurvivesPowerLoss
