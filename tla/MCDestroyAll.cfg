SPECIFICATION Spec
CONSTANTS
    Ids = {1, 2, 3, 4, 5, 6}
    Names = {"a", "b", "t"}
    Dir = 1
    Target = 2
    TargetName = "t"
    InitialVols <- Trees
    MaxChanges = 2
    Orders = {"pre", "post"}
    Directions = {"ascending", "descending"}
    RefMax = 2
    Outsides <- NoneOrB
    Clients = {"iter", "get_rootref", "destroy_all"}
    Cwds = {1}
INVARIANTS OnceAndAll InOrder ItemIsWhatItSays ErrorsHaveCauses LeftIsReported QuietDestroysAll
PROPERTIES DestroysOnlyBelow Terminates
CHECK_DEADLOCK FALSE
