CONSTANTS
    Jobs <- OpenJobs
    Far = 9
SPECIFICATION Spec
PROPERTY NeverLonger
CHECK_DEADLOCK FALSE
