SPECIFICATION Spec
CONSTANTS
    None = None
    Handlers = {h1, h2}
    Texts = {"o/r", "skip", "cancel", "yes", "repo"}
    Repos = {"o/r"}
    Missing = {"problem"}
    Extracted = {"repo"}
    UseModel = TRUE
    RequireRepo = TRUE
    Minimal = TRUE
    Faults = {"crash", "store", "slack"}
    MaxEvents = 4
INVARIANTS OneRequest RequestsConfirmed AwaitsWhatWasShown RowIsSession NextStepKnown
PROPERTY ReviewedSpec
CHECK_DEADLOCK FALSE
