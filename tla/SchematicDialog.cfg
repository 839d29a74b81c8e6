SPECIFICATION Spec
CONSTANTS
  Outs = {o1, o2}
  Ins = {i1, i2}
  Open = open
  NoOut = none
  Uses <- AloneOrBeside
  MaxClicks = 6
 
PROPERTY ActionsAreShown
CHECK_DEADLOCK FALSE
