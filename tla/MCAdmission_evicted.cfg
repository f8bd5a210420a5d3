SPECIFICATION Spec
CONSTANTS
    Absent = Absent
    Namespace = {"shop", "kube-system"}
    SelfNamespaces = {"kube-system"}
    App = {"web"}
    Part <- Parts
    Changed <- PartChanges
    Resource = {"cpu", "memory"}
    CareTiers = {"tier"}
    Value <- ValueOf
    CareLists <- Lists
    Asked <- AskedPods
    MaxChanges = 1
    MaxFaults = 1
    MaxPods = 1
PROPERTY RefusedUntilDiscussed
CHECK_DEADLOCK FALSE
