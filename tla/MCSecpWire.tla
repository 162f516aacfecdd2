----------------------------- MODULE MCSecpWire -----------------------------
EXTENDS SecpWire

\* Both sides of every bound that valid_utf8 compares a byte with.
Edges == {0, 127, 128, 143, 144, 159, 160, 191, 192, 193, 194, 223, 224, 225, 236, 237,
          238, 239, 240, 241, 243, 244, 245, 255}
AnyThird == {127, 128, 191, 192}
Texts ==
    UNION {[1..n -> Edges] : n \in 0..2}
        \cup {<<a, b, c>> : a, b \in Edges, c \in AnyThird}
        \cup {<<a, b, c, d>> : a \in 240..245, b \in Edges, c, d \in AnyThird}

\* A letter, the separators, and the two halves of a letter of two bytes.
Letter == {65, Pipe, LF, 195, 169}
Words(n) == UNION {[1..k -> Letter] : k \in 0..n}

SomeMessages ==
    [type : {"CHAT"}, room : {<<45>>}, username : {<<65>>}, payload : Texts \cup Words(5)]
        \cup [type : Type, room : Words(3), username : Words(1), payload : Words(1)]
        \cup [type : {"PRESENCE"}, room : {<<45>>}, username : Words(3), payload : Words(2)]

\* What follows a type name, lines that end in several ways, and lines as long as
\* the buffer, or longer.
Endings == UNION {[1..k -> {65, Pipe, LF, CR}] : k \in 0..4}
SomeDatagrams ==
    {TypeName["CHAT"] \o w : w \in Words(7)}
        \cup {TypeName[t] \o <<Pipe, 65, Pipe, 65, Pipe>> \o w : t \in Type, w \in Endings}
        \cup {<<67, 72, 65>> \o w : w \in Endings}
        \cup {TypeName["CHAT"] \o <<Pipe, 65, Pipe, 65, Pipe>> \o [i \in 1..n |-> LF] \o w :
                  n \in 13..18, w \in Words(2)}
        \cup {<<>>}
=============================================================================
