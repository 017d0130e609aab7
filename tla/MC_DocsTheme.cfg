\* Does every click on an expand / collapse toggle flip it exactly once?
CONSTANTS
    t1 = t1
    t2 = t2
    none = none
    Toggles <- MCToggles
    Tops <- MCTops
    None <- none

SPECIFICATION Spec

INVARIANT TypeOK
PROPERTY ClickTogglesOnce
