---------------------------- MODULE ChunkOffset ----------------------------
(***************************************************************************)
(* How the position of an enterprise match is computed from what the       *)
(* server sends: the chunk's offset text (audd_offset_to_seconds in        *)
(* src/src/audd_enterprise.c) and the fragment's start in milliseconds,    *)
(* through the scalar coercions of src/src/audd_json.c.                    *)
(*                                                                         *)
(* A text is a sequence of tokens: numbers, which strtod reads whole,      *)
(* blanks, colons and anything else.  Two numbers are never neighbours.    *)
(***************************************************************************)
EXTENDS Integers, Sequences

CONSTANTS
    Numbers,      \* token -> the number it is written for
    IntLimit      \* one more than the largest int

ASSUME NumbersAssumption ==
    /\ DOMAIN Numbers \cap {"colon", "blank", "other"} = {}
    /\ \A token \in DOMAIN Numbers : Numbers[token] \in Int
    /\ IntLimit \in Nat \ {0}

Unknown == -1

IsNumber(token) == token \in DOMAIN Numbers
Starts(text, token) == text # <<>> /\ Head(text) = token

SkipBlanks(text) ==
    LET used == {i \in DOMAIN text : text[i] # "blank"}
    IN  IF used = {} THEN <<>>
        ELSE SubSeq(text, CHOOSE i \in used : \A j \in used : i <= j, Len(text))

(* strtod, which skips blanks before a number: what it leaves.             *)
Readable(text) == SkipBlanks(text) # <<>> /\ IsNumber(Head(SkipBlanks(text)))
Value(text) == Numbers[Head(SkipBlanks(text))]
Behind(text) == Tail(SkipBlanks(text))

(* One turn of the loop over the components.                               *)
Component(s) ==
    IF s.state # "more" THEN s
    ELSE IF ~Readable(s.rest) \/ Value(s.rest) < 0 THEN [s EXCEPT !.state = "bad"]
    ELSE LET end  == Behind(s.rest)
             read == [s EXCEPT !.parts = Append(@, Value(s.rest))]
         IN  IF Starts(end, "colon") THEN [read EXCEPT !.rest = Tail(end)]
             ELSE [read EXCEPT !.rest = SkipBlanks(end),
                      !.state = IF SkipBlanks(end) = <<>> THEN "end" ELSE "bad"]

Components(text) ==
    Component(Component(Component(
        [rest |-> text, parts |-> <<>>, state |-> "more"])))

InSeconds(parts) ==
    LET upto[n \in 0 .. Len(parts)] ==
            IF n = 0 THEN 0 ELSE upto[n - 1] * 60 + parts[n]
    IN  upto[Len(parts)]

BareSeconds(offset) ==
    IF ~Readable(offset) \/ SkipBlanks(Behind(offset)) # <<>> THEN Unknown
    ELSE IF Value(offset) < 0 THEN Unknown ELSE Value(offset)

audd_offset_to_seconds(text) ==
    LET offset == SkipBlanks(text)
        read   == Components(offset)
    IN  IF offset = <<>> THEN Unknown
        ELSE IF \A i \in DOMAIN offset : offset[i] # "colon" THEN BareSeconds(offset)
        ELSE IF read.state = "bad" \/ Starts(read.rest, "colon") THEN Unknown
        ELSE InSeconds(read.parts)

-----------------------------------------------------------------------------
(* The reference: "SS", "MM:SS" or "HH:MM:SS", blanks before each number   *)
(* and after the last one.                                                 *)

(* The first number from place p on stands at q, behind blanks alone.      *)
NumberAt(text, p, q) ==
    /\ p <= q /\ \A i \in p .. q - 1 : text[i] = "blank"
    /\ IsNumber(text[q]) /\ Numbers[text[q]] >= 0

ColonAt(text, q) == q \in DOMAIN text /\ text[q] = "colon"

BlankAfter(text, q) == \A i \in q + 1 .. Len(text) : text[i] = "blank"

TooManyParts(text) ==
    \E i, j, k \in DOMAIN text :
        i < j /\ j < k /\ ColonAt(text, i) /\ ColonAt(text, j) /\ ColonAt(text, k)

(* Where the numbers of a text stand, if it is a time: one place, or two,  *)
(* or three.                                                               *)
Readings(text) ==
    {at \in UNION {[1 .. n -> DOMAIN text] : n \in 1 .. 3} :
        /\ NumberAt(text, 1, at[1])
        /\ \A k \in 2 .. Len(at) : /\ ColonAt(text, at[k - 1] + 1)
                                  /\ NumberAt(text, at[k - 1] + 2, at[k])
        /\ BlankAfter(text, at[Len(at)])}

SecondsAt(text, at) ==
    LET Part(k) == Numbers[text[at[k]]]
    IN  IF Len(at) = 1 THEN Part(1)
        ELSE IF Len(at) = 2 THEN 60 * Part(1) + Part(2)
        ELSE 3600 * Part(1) + 60 * Part(2) + Part(3)

-----------------------------------------------------------------------------
(* Scalars.  A node has a type and the integer it is written for; a        *)
(* "junk" string is one that is no decimal number.                         *)
NodeTypes == {"absent", "number", "bool", "string", "junk", "container"}

(* (int) of a 64-bit value.                                                *)
AsInt(v) == ((v + IntLimit) % (2 * IntLimit)) - IntLimit

audd_json_get_int64(node, def) ==
    IF node.type \in {"number", "bool", "string"} THEN node.val ELSE def

audd_json_get_int(node, def) == AsInt(audd_json_get_int64(node, def))

(* Does audd_json_get_string give a text?  A number or a boolean is        *)
(* written into the node first, for which memory is needed.                *)
GivesText(type, copied) ==
    type \in {"string", "junk"} \/ (type \in {"number", "bool"} /\ copied)
=============================================================================
