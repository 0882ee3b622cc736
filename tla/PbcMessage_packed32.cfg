SPECIFICATION MsgSpec
CONSTANTS
  Schema <- Schema32
  Known <- Known32
  Inputs <- Inputs32
  Root = "Root"
  Failed = Failed
  SliceSize = 16
  ArraySize = 64
  WMESSAGE_SIZE = 64
  MaxFields = 2
  MaxSubs = 0
INVARIANT PackedCarriesItsValues
CHECK_DEADLOCK FALSE
