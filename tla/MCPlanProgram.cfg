CONSTANTS
    Plans <- MCPlans
    Started <- MCStarted
    MaxDeclarations = 3
    Runnables <- MCRunnables
    Conditions <- MCConditions
    NextInputs <- MCNextInputs
    Validators = {"mechanical", "evaluator"}
SPECIFICATION AuthoringSpec
CHECK_DEADLOCK FALSE
INVARIANTS
    LoweringSound
    RunSound
    AuthoredAccepted
