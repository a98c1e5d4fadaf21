------------------------------ MODULE MCProxy ------------------------------
EXTENDS Proxy

Head(noCache, etag, modified, limited) ==
    [noCache |-> noCache, etag |-> etag, modified |-> modified, limited |-> limited]

\* One without any of the four, and the ways to be judged: no-cache that cannot
\* be validated or can by one field alone, and one that may expire.
MCHeads == {Head(FALSE, FALSE, FALSE, FALSE), Head(TRUE, FALSE, FALSE, FALSE),
            Head(TRUE, TRUE, FALSE, FALSE), Head(FALSE, FALSE, TRUE, TRUE)}
=============================================================================
