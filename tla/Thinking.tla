------------------------------ MODULE Thinking ------------------------------
(***************************************************************************)
(* The conversion of "thinking" text of                                    *)
(* src/handlers/thinking_transformer.rs: of a whole message, and of a      *)
(* stream piece by piece.                                                  *)
(*                                                                         *)
(* Text is a sequence of characters.  The tags <think> and </think> are    *)
(* cut down to two characters that share the first one, as the real ones   *)
(* do, so that a tag may be torn by the boundary of two pieces.  A field   *)
(* that is absent and one that is empty are both the empty sequence.       *)
(* "reasoning" and "reasoning_content" are one field.                      *)
(***************************************************************************)
EXTENDS Integers, Sequences

CONSTANT Characters   \* what texts are made of

ASSUME CharactersAssumption == {"<", "t", "/", "\n"} \subseteq Characters

OpenTag  == <<"<", "t">>
CloseTag == <<"<", "/">>

OccursAt(tag, s, i) == SubSeq(s, i, i + Len(tag) - 1) = tag

(* The first place of tag in s, 0 if it does not occur. *)
Find(tag, s) ==
    LET places == {i \in 1..(Len(s) - Len(tag) + 1) : OccursAt(tag, s, i)}
    IN  IF places = {} THEN 0 ELSE CHOOSE i \in places : \A j \in places : i <= j

From(s, i) == SubSeq(s, i, Len(s))

NoText == [c |-> <<>>, r |-> <<>>]

-----------------------------------------------------------------------------
(* Whole messages.                                                         *)

(* The texts inside the closed blocks of t with a newline between any two  *)
(* that are not empty, the same joined without one, and the text outside;  *)
(* open says that a tag is left without its counterpart.                   *)
Blocks[t \in Seq(Characters)] ==
    LET i == Find(OpenTag, t)
        tail == From(t, i + Len(OpenTag))
        j == Find(CloseTag, tail)
        piece == SubSeq(tail, 1, j - 1)
        rest == Blocks[From(tail, j + Len(CloseTag))]
        break == IF piece = <<>> \/ rest.inside = <<>> THEN <<>> ELSE <<"\n">>
    IN  IF i = 0 \/ j = 0
        THEN [inside |-> <<>>, joined |-> <<>>, outside |-> t, open |-> i > 0]
        ELSE [inside |-> piece \o break \o rest.inside,
              joined |-> piece \o rest.joined,
              outside |-> SubSeq(t, 1, i - 1) \o rest.outside,
              open |-> rest.open]

extract_think_blocks(s) == Blocks[s]

(* The message m of content c and reasoning r in the format target.        *)
transform_message(m, target) ==
    LET blocks == extract_think_blocks(m.c)
        source == IF m.r # <<>> THEN m.r ELSE blocks.inside
    IN  CASE target = "passthrough" -> m
          [] target = "reasoning" -> [c |-> blocks.outside, r |-> source]
          [] target = "think_tag" ->
                [c |-> (IF source = <<>> THEN <<>> ELSE OpenTag \o source \o CloseTag)
                       \o blocks.outside,
                 r |-> <<>>]

-----------------------------------------------------------------------------
(* Streams.  The state is the phase, the end of the last piece that may be *)
(* the beginning of a tag, and whether the tags have been sent.            *)
NewTransformer == [phase |-> "content", carry |-> <<>>, open |-> FALSE, closed |-> FALSE]

(* A bug: a piece that ends within a tag is not held back. *)
partial_marker_len_none(s, tag) == 0

(* The longest end of s that is a proper beginning of tag. *)
partial_marker_len(s, tag) ==
    LET fits == {k \in 0..(Len(tag) - 1) :
                    k <= Len(s) /\ From(s, Len(s) - k + 1) = SubSeq(tag, 1, k)}
    IN  CHOOSE k \in fits : \A l \in fits : l <= k

(* The text goes to the answer or to the thoughts, as the phase says, and  *)
(* each tag changes the phase.                                             *)
Parsed[p \in BOOLEAN \X Seq(Characters)] ==
    LET inside == p[1]
        t      == p[2]
        tag    == IF inside THEN CloseTag ELSE OpenTag
        i      == Find(tag, t)
        cut    == IF i > 0 THEN i - 1 ELSE Len(t) - partial_marker_len(t, tag)
        rest   == IF i > 0 THEN Parsed[<<~inside, From(t, i + Len(tag))>>]
                  ELSE [inside |-> inside, carry |-> From(t, cut + 1), delta |-> NoText]
    IN  IF inside THEN [rest EXCEPT !.delta.r = SubSeq(t, 1, cut) \o @]
                  ELSE [rest EXCEPT !.delta.c = SubSeq(t, 1, cut) \o @]

parse_content_source(tf, text) ==
    LET res == Parsed[<<tf.phase = "think", text>>]
    IN  [tf |-> [tf EXCEPT !.phase = IF res.inside THEN "think" ELSE "content",
                           !.carry = res.carry],
         delta |-> res.delta]

(* The delta d of a stream in the format target, and the new state. *)
transform_delta(tf, d, target) ==
    LET opens  == d.r # <<>> /\ ~tf.open
        opened == tf.open \/ d.r # <<>>
        closes == d.c # <<>> /\ opened /\ ~tf.closed
    IN  CASE target = "reasoning" /\ d.r = <<>> ->
                parse_content_source(tf, tf.carry \o d.c)
          [] target = "think_tag" ->
                [tf |-> [tf EXCEPT !.open = opened, !.closed = @ \/ closes],
                 delta |-> [c |-> (IF opens THEN OpenTag ELSE <<>>) \o d.r
                                  \o (IF closes THEN CloseTag ELSE <<>>) \o d.c,
                            r |-> <<>>]]
          [] OTHER -> [tf |-> tf, delta |-> d]

(* What is still to be sent when [DONE] comes. *)
finalize(tf, target) ==
    [c |-> CASE target = "think_tag" /\ tf.open /\ ~tf.closed -> CloseTag
             [] target = "reasoning" /\ tf.phase = "content" -> tf.carry
             [] OTHER -> <<>>,
     r |-> IF target = "reasoning" /\ tf.phase = "think" THEN tf.carry ELSE <<>>]
=============================================================================
