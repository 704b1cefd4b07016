SPECIFICATION Spec
CONSTANTS
    Conns = {c1, c2}
    Buffers = {b1, b2, b3}
    Copies = FALSE
INVARIANT FrameIntact
