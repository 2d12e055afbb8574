\* Two requests of six bytes of text on one connection; TCP may hold back
\* any part of the text for longer than the SS thread's receive timeout.
CONSTANTS
    Hdr = 4
    Text = 6
    MaxReq = 2
SPECIFICATION Spec
PROPERTY RequestAnswered
