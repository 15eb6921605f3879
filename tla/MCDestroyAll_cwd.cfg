SPECIFICATION Spec
CONSTANTS
    Ids = {1, 2, 3, 4, 5, 6}
    Names = {"a", "b", "t"}
    Dir = 1
    Target = 2
    TargetName = "t"
    InitialVols <- Trees
    MaxChanges = 0
    Orders = {"pre", "post"}
    Directions = {"ascending", "descending"}
    RefMax = 2
    Outsides <- NoneOrB
    Clients = {"destroy_all"}
    Cwds = {4}
INVARIANT QuietDestroysAll
CHECK_DEADLOCK FALSE
