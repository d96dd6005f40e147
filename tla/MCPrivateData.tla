--------------------------- MODULE MCPrivateData ---------------------------
(* A small private database for TLC. *)
EXTENDS PrivateData

R(kind, id, pt, on, refer, cell) ==
    [kind |-> kind, id |-> <<id>>, pt |-> pt, on |-> on, refer |-> refer, cell |-> cell,
     cids |-> {"c"}, ref |-> None, gather |-> FALSE]

\* A public view that two partners replace, and a view of their own that moves.
Views == {
    R("view", "v", "A", TRUE, <<"v">>, 1), R("view", "v", "A", FALSE, <<"v">>, 1),
    R("view", "v", "B", TRUE, <<"v">>, 1), R("view", "v", "B", TRUE, <<"v">>, 2),
    R("view", "w", "A", TRUE, None, 1), R("view", "w", "A", TRUE, None, 2),
    R("view", "w", "A", FALSE, None, 1), R("view", "w", "A", TRUE, None, Bad)}

Others == {
    R("shop", "s", "A", TRUE, None, 2), [R("shop", "s", "A", TRUE, None, None) EXCEPT !.cids = {"d"}],
    [R("hotel", "h", "A", TRUE, None, None) EXCEPT !.ref = <<"c">>], R("hotel", "h", "A", FALSE, None, None),
    R("city", "c", "A", TRUE, None, 1), R("city", "c", "A", FALSE, None, 1), R("city", "c", "A", TRUE, None, 2),
    [R("ticket", "t", "A", TRUE, None, None) EXCEPT !.ref = <<"w">>],
    [R("ticket", "t", "A", TRUE, None, None) EXCEPT !.ref = <<"v">>, !.gather = TRUE],
    [R("tour", "p", "A", TRUE, None, 1) EXCEPT !.gather = TRUE],
    [R("tour", "p", "A", TRUE, None, 1) EXCEPT !.ref = <<"w">>],
    R("tour", "p", "A", FALSE, None, 1),
    R("fun", "f", "A", TRUE, None, None), R("fun", "f", "A", FALSE, None, None)}

MCDataRow == Views \union Others

MCStart == {{
    R("view", "v", "A", TRUE, <<"v">>, 1), R("view", "v", "B", TRUE, <<"v">>, 1),
    R("view", "w", "A", TRUE, None, 1), R("shop", "s", "A", TRUE, None, 2),
    [R("hotel", "h", "A", TRUE, None, None) EXCEPT !.ref = <<"c">>], R("city", "c", "A", TRUE, None, 1),
    [R("ticket", "t", "A", TRUE, None, None) EXCEPT !.ref = <<"w">>],
    [R("tour", "p", "A", TRUE, None, 1) EXCEPT !.gather = TRUE],
    R("fun", "f", "A", FALSE, None, None)}}

MCBase == {<<"v">>}
====
