SPECIFICATION Spec
CONSTANTS
    Component = {"tests", "ci", "review"}
    Policy = {"ours", "theirs"}
    Required = {"build", "lint"}
    Other = {"docs"}
    Author = "eve"
    Login <- MCLogin
    MaxChecks = 3
    MaxReviews = 2
    Tool = {"runner@1", "hosted@1"}
    PinOf <- MCPinOf
    Subject <- MCSubject
INVARIANTS
    TypeOK
    HostedPassIsDeserved
    HostedFailIsDeserved
    PassIsWarranted
    ReviewIsAllThatIsLeft
    UntouchedIsAccepted
    EditsDoNotDecide
    SarifAgrees
