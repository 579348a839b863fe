\* The waits of the module body against the queue of the language, when a
\* host job settles the promise the body waits on.
SPECIFICATION Spec
CONSTANTS
    Task = {a, b}
    InitialCap = 2
    CountBound = 5
PROPERTIES
    ImplementsJobQueue
