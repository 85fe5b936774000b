SPECIFICATION HostSpec
CONSTANTS
    HostStreams = {c1, c2}
    Posters = {h1, h2}
    MaxPosts = 1
INVARIANT NoSendOnClosed
\* Every stream closed and every POST made is the end of the run.
CHECK_DEADLOCK FALSE
