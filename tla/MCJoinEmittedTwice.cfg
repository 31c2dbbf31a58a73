\* A static job that needs two matrices from outputs, one of a later stage.
SPECIFICATION MCGraphSpec
CONSTANTS
    Graphs <- MCGraphs
    MaxGraphJobs = 9
    MaxRows = 2
INVARIANT JoinEmittedOnce
