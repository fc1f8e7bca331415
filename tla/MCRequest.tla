----------------------------- MODULE MCRequest -----------------------------
EXTENDS Request

Ask(api, streaming, target, prefix) ==
    [api |-> api, streaming |-> streaming, valid |-> TRUE, target |-> target,
     prefix |-> prefix]

(* Streams of each kind, with a prefix that opens a thought among them,    *)
(* whole answers, and requests that fail the validation.                   *)
MCRequests ==
    {Ask("chat", TRUE, t, p) : t \in Targets, p \in {<<>>, OpenTag}}
    \cup {Ask("chat", FALSE, t, <<>>) : t \in Targets}
    \cup {Ask(a, TRUE, "passthrough", <<>>) : a \in {"completion", "responses", "anthropic"}}
    \cup {Ask("embedding", FALSE, "passthrough", <<>>)}
    \cup {[Ask("embedding", FALSE, "passthrough", <<>>) EXCEPT !.valid = FALSE]}

MCCharacters == {"x", "<", "t", "/", "\n"}

(* Pieces that tear both tags, and one that is a whole block. *)
MCTexts == {<<"x">>, <<"<">>, <<"t">>, <<"<", "t">>, <<"x", "<">>, <<"/", "x">>,
            OpenTag \o <<"x">> \o CloseTag}
=============================================================================
