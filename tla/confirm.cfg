SPECIFICATION Spec
CONSTANTS
    Workers = {}
    Clicks = {c1}
    MaxChoices = 1
INVARIANTS ConfirmedByClick
