SPECIFICATION FairSpec
CONSTANTS
  Programs <- LikelyAndJump
  fetch_width = 1
  fetch_speed = 1
  fetch_ifq_size = 1
  decode_width = 1
  decode_ifq_size = 1
  decode_speed = 1
  map_width = 1
  commit_width = 1
  roq_ifq_size = 3
  brq_ifq_size = 3
  lsq_ifq_size = 2
  int_issue_ifq_size = 4
  int_rename_reg_size = 4
INVARIANTS TypeOK QueuesAgree LevelsAgree
PROPERTIES RetiresInOrder Progress
