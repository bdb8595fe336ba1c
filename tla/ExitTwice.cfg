SPECIFICATION Spec
CONSTANTS Jobs <- TwoExits
          CST_W = 4
PROPERTY EveryProcessEnds
CHECK_DEADLOCK FALSE
