------------------------------ MODULE MCExchange ------------------------------
(* An instance of Exchange for TLC.                                           *)
EXTENDS Exchange

Count == [c \in 1..NumChunks |-> 1]   \* the default strategy's size()
Lengths == [c \in 1..NumChunks |-> IF c = 1 THEN 2 ELSE 1]

(* What scripts do with each form of body, and how many chunks they see.    *)
Scripts ==
    [form : {"static"}, most : {1}, does : {{"text", "clone", "reply", "body", "read", "byob"}, {"body", "tee", "read"}}]
    \cup [form : {"stream"}, most : {2}, does : {{"text", "again", "clone", "fail"}, {"reply", "read", "cancel", "fail"},
                                                 {"read", "byob", "ahead"}, {"tee", "read"}}]
    \cup [form : {"stream"}, most : {1}, does : {{"tee", "read", "cancel", "fail"}}]
    \cup [form : {"native"}, most : {2}, does : {{"text", "again", "abort", "redirect", "fail"}, {"body", "text"},
                                                 {"body", "read", "cancel", "abort"}}]
    \cup [form : {"native"}, most : {1}, does : {{"body", "tee", "read"}, {"http", "text", "fail"}}]
    \cup [form : {"native"}, most : {0}, does : {{"body", "tee", "read", "cancel"}, {"send"}, {"headers"}}]
    \cup [form : {"static"}, most : {1}, does : {{"url"}, {"form"}}]

SomeNames == <<<<>>, <<"x">>, <<"=", "&">>, <<Lone>>>>
SomeValues == {<<>>, <<" ", "+">>, <<"%", "=">>, <<"x", Lone>>}
SomeQueries ==
    {<<>>, <<"x", "&", "&", "x", "=", "+", "=">>, <<"%">>, <<"%3D", "%26", "&", "=", "x">>, <<"x", "&", Lone>>}
=============================================================================
