SPECIFICATION Spec
CONSTANTS
    w1 = w1  w2 = w2  w3 = w3
    Spaces = {w1, w2, w3}
    Starts <- Situations
    Free = Free  Coord = Coord  Client = Client
    Ttl = 2
    Margin = 1
    MaxTime = 2
INVARIANTS GivenBack
PROPERTIES ReadInPlace Ends

