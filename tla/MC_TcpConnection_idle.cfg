\* One connection whose peer sends two requests; the idle timer may fire
\* while one of them is in handle_message.
CONSTANTS
    MaxReqs = 2
SPECIFICATION Spec
PROPERTY RequestNotDroppedByIdle
CHECK_DEADLOCK FALSE
