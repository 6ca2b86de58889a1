---------------------------- MODULE CallbackUrl ----------------------------
(***************************************************************************)
(* audd_url_append_return (src/src/audd_url.c): the callback URL with a    *)
(* return parameter appended, unless it has one.                           *)
(*                                                                         *)
(* A URL is the sequence of its pieces after scheme and host: the          *)
(* characters the function looks for, the word "return" and other words.   *)
(* A word of the URL may consist of several adjacent pieces.               *)
(***************************************************************************)
EXTENDS Naturals, Sequences, FiniteSets

Pieces == {"?", "&", "=", "#", "return", "word"}

(* Every URL of at most n pieces.                                          *)
UrlsUpTo(n) == UNION {[1 .. m -> Pieces] : m \in 0 .. n}

-----------------------------------------------------------------------------
(* The code.                                                               *)

(* strchr(raw_url, '?'): its first place, 0 if there is none.              *)
FirstMark(url) ==
    IF \E i \in DOMAIN url : url[i] = "?"
    THEN CHOOSE i \in DOMAIN url :
            url[i] = "?" /\ \A j \in 1 .. i - 1 : url[j] # "?"
    ELSE 0

(* Where p of the scan can be: after the mark and after each '&' behind it.*)
Starts(url) ==
    LET q == FirstMark(url)
    IN  {s \in q + 1 .. Len(url) + 1 : s = q + 1 \/ url[s - 1] = "&"}

(* The scan looks no further once p points to the end or to a '#'.         *)
Scanned(url) ==
    {s \in Starts(url) :
        \A t \in Starts(url) : t <= s => t <= Len(url) /\ url[t] # "#"}

(* The key that starts at s ends at the first '=' or '&', or at the end.   *)
KeyIsReturn(url, s) ==
    url[s] = "return" /\ (s < Len(url) => url[s + 1] \in {"=", "&"})

(* Mutant: only the first parameter is looked at.                          *)
FirstParamIsReturn(url) ==
    LET q == FirstMark(url) IN q \in 1 .. Len(url) - 1 /\ KeyIsReturn(url, q + 1)

HasReturnParam(url) ==
    FirstMark(url) > 0 /\ \E s \in Scanned(url) : KeyIsReturn(url, s)

(* The appended CSV is URL-encoded, so it is a word.                       *)
WithReturn(url) ==
    url \o <<IF FirstMark(url) = 0 THEN "?" ELSE "&", "return", "=", "word">>

-----------------------------------------------------------------------------
(* The reference: RFC 3986, a fragment begins at the first '#', a query at *)
(* the first '?' before it, and parameters are separated by '&'.           *)

HasFragment(url) == \E i \in DOMAIN url : url[i] = "#"

Query(url) ==
    {i \in DOMAIN url :
        /\ \E m \in 1 .. i - 1 : url[m] = "?"
        /\ \A j \in 1 .. i : url[j] # "#"}

EndsKey(url, i) == i > Len(url) \/ url[i] \in {"=", "&", "#"}

(* The parameters named return that a server would see.                    *)
ReturnParams(url) ==
    {i \in Query(url) :
        /\ url[i] = "return"
        /\ url[i - 1] = "&" \/ i - 1 = FirstMark(url)
        /\ EndsKey(url, i + 1)}
=============================================================================
