\* Three datagrams, so that before_stop can meet a queued, a taken and a
\* finished task at once.
CONSTANTS
    MaxReqs = 3
SPECIFICATION Spec
PROPERTY ShutdownCompletes
\* The listener stops for good once uv_run has returned.
CHECK_DEADLOCK FALSE
