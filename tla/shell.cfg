SPECIFICATION Spec
CONSTANTS
    Views = {a, b, c}
    Form = Form
    None = None
    MaxDeeds = 5
SYMMETRY Symmetry
INVARIANTS InStep ReloadOpens FocusKept SpokenIsAsked
CHECK_DEADLOCK FALSE
