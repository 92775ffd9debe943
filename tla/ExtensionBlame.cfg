\* An action after one that opened a panel.
SPECIFICATION Spec
CONSTANTS
  Last = 2
  Kinds = {"named"}
  Effects = {"clean", "panel"}
INVARIANT
  PanelBlame
CHECK_DEADLOCK FALSE
