CONSTANTS
    r = r
    a = a
    b = b
    Senders = {}
    Receivers = {r}
    Bytes = {a, b}
    Outgoing = {a, b}
    Incoming = {a, b}
    Nothing = Nothing
    BufferSize = 3
    Slow = FALSE
SPECIFICATION UartSpec
SYMMETRY Symmetry
INVARIANTS TxNotForgotten RxNotDeaf
PROPERTIES SendsInOrder ReceivesInOrder
