SPECIFICATION Spec
CONSTANTS
    t1 = t1
    t2 = t2
    t3 = t3
    Threads   <- MCThreads
    QueueSize <- MCQueueSize
    MaxTasks  <- MCMaxTasks
INVARIANTS
    Inv
    SomeoneAwake
PROPERTIES
    NoTaskBegunAfterShutdown
    TasksHandled
    JoinsReturn
\* A pool that is destroyed, or not used any more, takes no step.
CHECK_DEADLOCK FALSE
