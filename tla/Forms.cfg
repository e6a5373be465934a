SPECIFICATION Spec
CHECK_DEADLOCK FALSE
CONSTANTS
    File = {"f", "g"}
    Shown <- MCShown
    Natural <- MCNatural
    Ratio = {none, 1, 2}
    Unit = 64
    None = none
    Point <- MCPoint
    Pull <- MCPull
    MaxStroke = 3
    Page = {"p", "q"}
    View = {"map", "form", "status", "form2", "status2"}
    PageOf <- MCPageOf
    KindOf <- MCKindOf
    Cropper = "form"
    Choice <- MCChoice
    First <- MCFirst
INVARIANTS TypeOK InStep FormsSettle CropFits
CONSTRAINT Calm
