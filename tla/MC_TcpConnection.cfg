\* A listener that accepts one connection, persistent or not, whose peer sends two requests: two
\* works can be pending when the connection closes, and a single read can
\* hold both frames.
CONSTANTS
    MaxReqs = 2
SPECIFICATION Spec
INVARIANT TypeOK
INVARIANT NoUseAfterClose
PROPERTY AnsweredOrClosed
PROPERTY OneShotCloses
PROPERTY ShutdownCompletes
\* The listener ends when its loop thread has exited; a listener nobody
\* shuts down may also wait for ever with nothing to do.
CHECK_DEADLOCK FALSE
