CONSTANTS
    p1 = p1
    p2 = p2
    p3 = p3
    q1 = q1
    q2 = q2
    Products <- MCProducts
    Requests <- MCRequests
    MaxTime = 1
    QueryMayFail = FALSE
    Null = Null

SPECIFICATION Spec
PROPERTY RenderIdempotent
