-------------------------- MODULE ReferenceEncoder --------------------------
(***************************************************************************)
(* An encoder that has the whole data before it and keeps it all, the way  *)
(* doc/ALGORITHM describes the search and the lazy matching: no window, no *)
(* lookahead to wait for, no buffers.  It is what the compression stream   *)
(* is measured against.  `at` bytes of the data have their tokens, and     *)
(* `reach` is the longest distance it looks back.                          *)
(***************************************************************************)
EXTENDS Yaz0Encodings

\* A literal is a token of length 1.
Literal  == [length |-> 1, distance |-> 0]
NoToken  == [length |-> 0, distance |-> 0]
Token    == [length : {1} \cup MIN_MATCH .. MAX_MATCH, distance : 0 .. MAX_DISTANCE]

\* The pairs that could stand for what comes next.
Matches(data, at, reach) ==
    {m \in [length   : MIN_MATCH .. Least(MAX_MATCH, Len(data) - at),
            distance : 1 .. Least(reach, at)] :
        Repeats(data, at, m.length, m.distance)}

\* The longest of them, and of equals the most distant.
Longest(data, at, reach) ==
    LET found == Matches(data, at, reach) IN
    IF found = {} THEN Literal
    ELSE CHOOSE m \in found : \A other \in found :
            \/ other.length < m.length
            \/ other.length = m.length /\ other.distance <= m.distance

\* The next token, and the one that is held back for the turn after.
Choice(token, held) == [token |-> token, held |-> held]

(***************************************************************************)
(* Where the encoder is between two tokens: the bytes of the complete      *)
(* groups are `done`, and `group` is a code byte with `count` tokens.      *)
(***************************************************************************)
Stage(at, held, done, group, count) ==
    [at |-> at, held |-> held, done |-> done, group |-> group, count |-> count]

FirstStage == Stage(0, NoToken, <<>>, <<0>>, 0)

\* A token joins the group: a literal by its bit of the code byte and its byte.
Joined(data, s, token) ==
    IF token.length < MIN_MATCH
    THEN Append([s.group EXCEPT ![1] = @ + CodeBit(s.count)], data[s.at + 1])
    ELSE s.group \o EncodeReference(token.length, token.distance)

\* The token held back; or the longest, unless the one a byte later is longer by two.
Picked(data, s, reach) ==
    LET now  == Longest(data, s.at, reach)
        next == Longest(data, s.at + 1, reach)
    IN IF s.held # NoToken THEN Choice(s.held, NoToken)
       ELSE IF now # Literal /\ next.length >= now.length + 2
       THEN Choice(Literal, next) ELSE Choice(now, NoToken)

NextStage(data, s, reach) ==
    LET choice == Picked(data, s, reach)
        at     == s.at + choice.token.length
        group  == Joined(data, s, choice.token)
    IN IF s.at = Len(data) THEN s
       ELSE IF s.count + 1 < TOKENS_PER_BLOCK
       THEN Stage(at, choice.held, s.done, group, s.count + 1)
       ELSE Stage(at, choice.held, s.done \o group, <<0>>, 0)

Stages(data, reach) ==
    LET stage[n \in Nat] ==
          IF n = 0 THEN FirstStage ELSE NextStage(data, stage[n - 1], reach)
    IN stage

\* A group that has no tokens is left out.
Finished(s) == IF s.count = 0 THEN s.done ELSE s.done \o s.group

\* Every token stands for a byte at least, so there are no more of them than bytes.
RefEncode(data, reach) == Finished(Stages(data, reach)[Len(data)])
=============================================================================
