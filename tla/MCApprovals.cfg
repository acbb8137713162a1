CONSTANTS
  deal = deal
  ann = ann
  bob = bob
  cleo = cleo
  yes = yes
  Abort = Abort
  Approval = {deal}
  Tracked = {deal}
  Timed = {deal}
  Option = {yes}
  Chooser = {ann, bob, cleo}
  Fault = {"db_error", "crash"}
  MaxFaults = 1
CHECK_DEADLOCK FALSE
SPECIFICATION FairApprovalSpec
INVARIANTS
  ApprovalTypeOK
  AnsweredIsSettled
  AnsweredIsWithdrawn
PROPERTIES
  TimedIsAnswered
