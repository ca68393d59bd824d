SPECIFICATION Spec
CONSTANTS
    Cfgs = {k, m}
    Kafka = {k}
    Bad = Bad
INVARIANTS
    WaitingIsTrue
