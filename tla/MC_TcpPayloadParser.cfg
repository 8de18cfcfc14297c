CONSTANTS
    Base <- MCBase
    Messages <- MCMessages
SPECIFICATION Spec
INVARIANT FramesPreserved
\* Reading ends when every byte the peer wrote has been delivered.
CHECK_DEADLOCK FALSE
