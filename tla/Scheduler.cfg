SPECIFICATION Spec
CONSTANTS
    Algorithms = {"FCFS", "SJF", "RR", "PRIORITY"}
    Quantum = 2
    MaxThreads = 4
    TimeCap = 12
INVARIANTS TypeOK Placement TimesExact RoundRobinBalanced ShortestFirstOptimal StatisticsExact
