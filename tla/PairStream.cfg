SPECIFICATION Spec
CONSTANT MaxGeneration = 2
INVARIANTS AtMostOneLateFrame AcceptedIsPublished AttemptFollowsError
PROPERTIES WireFollowsAdmission ImplementsAdmission LateIsNotAdmitted
