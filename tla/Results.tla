------------------------------ MODULE Results ------------------------------
(***************************************************************************)
(* The life of a result: it is built from the JSON of an answer, asked     *)
(* through its getters, which fill caches on first use, and freed.         *)
(* Recognitions (src/src/audd_recognition.c), enterprise results           *)
(* (audd_enterprise.c), stream and lyrics lists (audd_streams.c,           *)
(* audd_advanced.c) and callbacks (audd_callback.c).                       *)
(*                                                                         *)
(* A heap block is named by the structure and the member that points to    *)
(* it, <<structure, index, member>>; the pointer is non-NULL while the     *)
(* block is in the heap.  The wire is abstracted to what is an object,     *)
(* and to which URLs are there.  A string that is absent ends as one for   *)
(* which no memory was left: NULL; the latter is modelled for all, the     *)
(* former where a getter looks further.                                    *)
(***************************************************************************)
EXTENDS ChunkOffset, FiniteSetsExt

CONSTANTS
    MaxEntries,   \* bound: entries of one array
    MaxTokens,    \* bound: tokens of a chunk's offset
    MaxCalls      \* bound: calls of getters

ASSUME BoundsAssumption ==
    MaxEntries \in Nat \ {0, 1} /\ MaxTokens \in Nat /\ MaxCalls \in Nat

VARIABLES
    kind,         \* what is built
    wire,         \* the JSON it is built from
    failed,       \* the blocks that cannot be allocated
    pc,
    heap,         \* blocks in use
    err,          \* what building it returned
    items,        \* the list of it: entries by their place on the wire
    room,         \* entries allocated for that list
    cache,        \* getter -> answer it keeps
    aux,          \* names of the hidden children of raw_obj -> field printed
    answers,      \* history: <<index, getter, answer, ran out of memory>>
    lost,         \* history: blocks overwritten while in use
    calls

vars == <<kind, wire, failed, pc, heap, err, items, room, cache, aux, answers,
          lost, calls>>

Providers == {"apple_music", "spotify", "deezer", "napster", "youtube"}
UrlGetters == Providers \cup {"thumbnail", "preview"}
NoUrl == <<>>

(* The URLs a recognition's metadata may hold, named like the blocks that  *)
(* keep some of them.                                                      *)
AppleUrl == <<"apple_music", 0, "url">>
ApplePreviews == <<"apple_music", 0, "previews">>
SpotifyExternal == <<"spotify", 0, "external_urls">>
SpotifyUri == <<"spotify", 0, "uri">>
SpotifyPreview == <<"spotify", 0, "preview_url">>
DeezerLink == <<"deezer", 0, "link">>
DeezerPreview == <<"deezer", 0, "preview">>
NapsterHref == <<"napster", 0, "href">>

UrlFields == {AppleUrl, ApplePreviews, SpotifyExternal, SpotifyUri,
              SpotifyPreview, DeezerLink, DeezerPreview, NapsterHref}

(* Fields for audd_recognition_extra: a key, a typed one, and two keys     *)
(* that agree in their first 115 characters.                               *)
ExtraKeys == {"genre", "artist", "long_a", "long_b"}
TypedKeys == {"artist"}
AuxKey(key) == IF key \in {"long_a", "long_b"} THEN "_audd_extra_long" ELSE key

Errors == {"OK", "OUT_OF_MEMORY", "SERIALIZATION", "INVALID_ARGUMENT"}

-----------------------------------------------------------------------------
(* Names of blocks.                                                        *)

Members(struct, i, ms) == {<<struct, i, x>> : x \in ms}
Self(struct) == <<struct, 0, "self">>

(* Strings that are not on the wire.                                       *)
Absent ==
    IF kind # "recognition" THEN {}
    ELSE {f \in UrlFields : wire.urls[f] = "absent"} \cup
         (IF wire.link = "absent" THEN {<<"recognition", 0, "song_link">>} ELSE {})

Obtained(blocks) == blocks \ (failed \cup Absent)

(* A structure and what it owns: nothing when it cannot be had.            *)
Owning(struct, ms) ==
    IF Self(struct) \in failed THEN {}
    ELSE Obtained(Members(struct, 0, ms \cup {"self"}))

(* What freeing a structure frees: nothing for NULL.                       *)
Released(struct, ms) ==
    IF Self(struct) \in heap THEN heap \cap Members(struct, 0, ms \cup {"self"})
    ELSE {}

Failure(e) == [err |-> e, blocks |-> {}, items |-> <<>>, room |-> 0]

(* The loops over an array skip what is no object.                         *)
Objects(entries) ==
    LET upto[n \in 0 .. Len(entries)] ==
            IF n = 0 THEN <<>>
            ELSE IF entries[n] = "object" THEN Append(upto[n - 1], n)
            ELSE upto[n - 1]
    IN  upto[Len(entries)]

Place(chunk, j) == [chunk |-> chunk, entry |-> j, start |-> 0]

Placed(entries) ==
    LET js == Objects(entries) IN [k \in DOMAIN js |-> Place(1, js[k])]

(* Mutant: the memory for the array is not checked.                        *)
ListUnchecked(struct, ms, n, list) ==
    IF Self(struct) \in failed THEN Failure("OUT_OF_MEMORY")
    ELSE [err    |-> "OK",
          blocks |-> {Self(struct), <<struct, 0, "items">>} \cup
                     Obtained(UNION {Members(struct, i, ms) : i \in DOMAIN list}),
          items  |-> list,
          room   |-> n]

(* A list with its array of entries: either may be too much to ask for.    *)
ListOf(struct, ms, n, list) ==
    IF \/ Self(struct) \in failed
       \/ n > 0 /\ <<struct, 0, "items">> \in failed
    THEN Failure("OUT_OF_MEMORY")
    ELSE [err    |-> "OK",
          blocks |-> {Self(struct)} \cup
                     (IF n > 0 THEN {<<struct, 0, "items">>} ELSE {}) \cup
                     Obtained(UNION {Members(struct, i, ms) : i \in DOMAIN list}),
          items  |-> list,
          room   |-> n]

FreeList(struct, ms) ==
    heap \cap ({Self(struct), <<struct, 0, "items">>} \cup
               UNION {Members(struct, i, ms) : i \in DOMAIN items})

-----------------------------------------------------------------------------
(* Streams and lyrics.                                                     *)

audd_streams_list(w) ==
    ListOf("streams", {"url", "longpoll_category"}, Len(w), Placed(w))

audd_stream_list_free == FreeList("streams", {"url", "longpoll_category"})

audd_advanced_find_lyrics(w) ==
    ListOf("lyrics", {"artist", "title", "lyrics", "media", "full_title",
                      "song_link"},
           Len(w), Placed(w))

audd_lyrics_list_free ==
    FreeList("lyrics", {"artist", "title", "lyrics", "media", "full_title",
                        "song_link"})

-----------------------------------------------------------------------------
(* Enterprise results: chunks with an offset and songs.  NoSongs stands    *)
(* for a chunk that is no object, or whose songs are no array.             *)
NoSongs == [songs |-> "none"]
HasSongs(chunk) == chunk # NoSongs

match_from_json == {"timecode", "artist", "title", "album", "release_date",
                    "label", "isrc", "upc", "song_link"}

match_free_inner == {"timecode", "artist", "title", "album", "release_date",
                     "label", "isrc", "upc", "song_link", "thumbnail"}
                    \cup Providers

(* In milliseconds; -1.0 seconds when the chunk has no usable offset.      *)
StartSeconds(base, node) ==
    IF base >= 0 THEN 1000 * base + audd_json_get_int(node, 0)
    ELSE 1000 * Unknown

(* Mutant: a chunk without an offset keeps the one before.                 *)
BaseCarried(chunk, i) ==
    LET from == {k \in 1 .. i : HasSongs(wire.chunks[k]) /\
                                wire.chunks[k].offset.type # "absent"}
    IN  IF from = {} THEN Unknown
        ELSE audd_offset_to_seconds(
                wire.chunks[CHOOSE k \in from : \A l \in from : l <= k].offset.text)

BaseOf(chunk, i) ==
    IF GivesText(chunk.offset.type, <<"offset", i, "text">> \notin failed)
    THEN audd_offset_to_seconds(chunk.offset.text) ELSE Unknown

SongsOf(chunk) == IF HasSongs(chunk) THEN chunk.songs ELSE <<>>

(* How many songs the chunks have at most: one array is allocated for all. *)
Total(w) ==
    LET upto[n \in 0 .. Len(w.chunks)] ==
            IF n = 0 THEN 0 ELSE upto[n - 1] + Len(SongsOf(w.chunks[n]))
    IN  upto[Len(w.chunks)]

MatchesIn(w, i) ==
    LET js   == Objects(SongsOf(w.chunks[i]))
        from == StartSeconds(BaseOf(w.chunks[i], i), w.start)
    IN  [k \in DOMAIN js |-> [chunk |-> i, entry |-> js[k], start |-> from]]

Matches(w) ==
    LET upto[n \in 0 .. Len(w.chunks)] ==
            IF n = 0 THEN <<>> ELSE upto[n - 1] \o MatchesIn(w, n)
    IN  upto[Len(w.chunks)]

audd_enterprise_from_json(w) ==
    ListOf("enterprise", match_from_json, Total(w), Matches(w))

audd_enterprise_result_free == FreeList("enterprise", match_free_inner)

-----------------------------------------------------------------------------
(* Callback bodies.                                                        *)

parse_song == {"artist", "title", "album", "release_date", "label",
               "song_link", "isrc", "upc"}

(* Mutant: a string that was added to parse_song only.                     *)
free_song_short == {"artist", "title", "album", "release_date", "label",
                    "song_link", "isrc"}

free_song_inner == {"artist", "title", "album", "release_date", "label",
                    "song_link", "isrc", "upc"}

(* The message for the caller, which is NULL for lack of memory.           *)
BadBody ==
    [Failure("SERIALIZATION") EXCEPT !.blocks = Obtained({Self("message")})]

(* Mutant: the memory for the notification is not checked.                 *)
NotificationUnchecked ==
    [Failure("OK") EXCEPT
        !.blocks = Owning("notification", {"notification_message",
                                           "raw_response"})]

Notification ==
    IF Self("notification") \in failed THEN Failure("OUT_OF_MEMORY")
    ELSE [Failure("OK") EXCEPT
            !.blocks = Owning("notification", {"notification_message",
                                               "raw_response"})]

(* The first entry is the song, the others are the alternatives; what is   *)
(* no object stays a song without strings.                                 *)
Match(results) ==
    LET n      == Len(results) - 1
        Song(i) == IF results[i + 1] = "object"
                   THEN Obtained(Members("match.song", i, parse_song)) ELSE {}
        array  == <<"match", 0, "items">>
    IN  IF Self("match") \in failed \/ (n > 0 /\ array \in failed)
        THEN Failure("OUT_OF_MEMORY")
        ELSE [err    |-> "OK",
              blocks |-> Owning("match", {"timestamp", "raw_response"}) \cup
                         (IF n > 0 THEN {array} ELSE {}) \cup
                         UNION {Song(i) : i \in 0 .. n},
              items  |-> [i \in 1 .. n |-> Place(1, i + 1)],
              room   |-> n]

audd_parse_callback(w) ==
    IF w.body = "no out" THEN Failure("INVALID_ARGUMENT")
    ELSE IF w.body # "json" \/ Self("root") \in failed THEN BadBody
    ELSE IF w.notification THEN Notification
    ELSE IF w.results = <<>> THEN BadBody
    ELSE Match(w.results)

audd_stream_callback_match_free ==
    Released("match", {"timestamp", "raw_response", "items"}) \cup
    (heap \cap UNION {Members("match.song", i, free_song_inner) :
                          i \in 0 .. Len(items)})

audd_stream_callback_notification_free ==
    Released("notification", {"notification_message", "raw_response"})

-----------------------------------------------------------------------------
(* Recognitions.                                                           *)

parse_apple_music == {"artist_name", "url", "name", "isrc", "album_name",
                      "composer_name", "release_date", "raw"}
free_apple_music == {"artist_name", "url", "name", "isrc", "album_name",
                     "composer_name", "release_date", "raw"}
parse_spotify == {"id", "name", "type", "uri", "raw"}
free_spotify == {"id", "name", "type", "uri", "raw"}
parse_deezer == {"title", "link", "raw"}
free_deezer == {"title", "link", "raw"}
parse_napster == {"id", "name", "isrc", "artist_name", "album_name", "raw"}
free_napster == {"id", "name", "isrc", "artist_name", "album_name", "raw"}

RecognitionStrings == {"timecode", "artist", "title", "album", "release_date",
                       "label", "song_link", "isrc", "upc"}

(* Without memory for its array the list stays empty.                      *)
parse_musicbrainz(entries) ==
    IF entries = <<>> \/ <<"musicbrainz", 0, "items">> \in failed
    THEN Failure("OK")
    ELSE LET list == Placed(entries)
         IN  [err    |-> "OK",
              blocks |-> {<<"musicbrainz", 0, "items">>} \cup
                         Obtained(UNION {Members("musicbrainz", i,
                                            {"id", "title", "score"}) :
                                            i \in DOMAIN list}),
              items  |-> list,
              room   |-> Len(entries)]

free_musicbrainz ==
    IF <<"musicbrainz", 0, "items">> \in heap
    THEN heap \cap ({<<"musicbrainz", 0, "items">>} \cup
                    UNION {Members("musicbrainz", i, {"id", "title", "score"}) :
                              i \in DOMAIN items})
    ELSE {}

(* NULL for what is no object, as for lack of memory: the caller reports   *)
(* both as OUT_OF_MEMORY.                                                  *)
audd_recognition_from_json(w) ==
    LET mb     == parse_musicbrainz(w.musicbrainz)
        raw    == Obtained({<<"recognition", 0, "raw_obj">>})
        text   == IF raw = {} THEN {}
                  ELSE Obtained({<<"recognition", 0, "raw_response_str">>})
    IN  IF w.result # "object" \/ Self("recognition") \in failed
        THEN Failure("OUT_OF_MEMORY")
        ELSE [mb EXCEPT !.blocks =
                @ \cup raw \cup text
                  \cup Owning("recognition", RecognitionStrings)
                  \cup Owning("apple_music", parse_apple_music)
                  \cup Owning("spotify", parse_spotify)
                  \cup Owning("deezer", parse_deezer)
                  \cup Owning("napster", parse_napster)]

(* An answer without a result, or with a null one, is success without a    *)
(* recognition.                                                            *)
Recognized(w) ==
    IF w.result = "null" THEN Failure("OK") ELSE audd_recognition_from_json(w)

audd_recognition_free ==
    Released("recognition", RecognitionStrings \cup UrlGetters \cup
                            {"raw_obj", "raw_response_str"})
    \cup Released("apple_music", free_apple_music)
    \cup Released("spotify", free_spotify)
    \cup Released("deezer", free_deezer)
    \cup Released("napster", free_napster)
    \cup free_musicbrainz
    \cup (heap \cap Members("aux", 0, ExtraKeys \cup {"_audd_extra_long"}))

-----------------------------------------------------------------------------
(* The getters that build what they return.                                *)

Holder == IF kind = "recognition" THEN "recognition" ELSE "enterprise"

(* Is the song link hosted on lis.tn, and is there memory for the redirect?*)
Redirect(i, g) ==
    IF /\ <<Holder, i, "song_link">> \in heap /\ wire.link = "lis"
       /\ <<"redirect", i, g>> \notin failed
    THEN <<Holder, i, "song_link">> ELSE NoUrl

HasText(f) == wire.urls[f] = "text"
OnWire(f) == wire.urls[f] # "absent"
HasRaw(struct) == <<struct, 0, "raw">> \in heap

(* The URL that is copied; the first one there is, be it empty.            *)
direct_streaming_url(p) ==
    IF p = "apple_music" /\ AppleUrl \in heap THEN AppleUrl
    ELSE IF p = "spotify" /\ HasRaw("spotify") /\ OnWire(SpotifyExternal)
    THEN SpotifyExternal
    ELSE IF p = "spotify" /\ HasRaw("spotify") /\ SpotifyUri \in heap /\
            HasText(SpotifyUri)
    THEN SpotifyUri
    ELSE IF p = "deezer" /\ DeezerLink \in heap THEN DeezerLink
    ELSE IF p = "napster" /\ HasRaw("napster") /\ OnWire(NapsterHref)
    THEN NapsterHref
    ELSE NoUrl

(* An empty URL, or one that could not be copied, is as none.              *)
StreamingUrl(p) ==
    LET direct == direct_streaming_url(p)
    IN  IF direct # NoUrl /\ <<"copy", 0, p>> \notin failed /\ HasText(direct)
        THEN direct ELSE Redirect(0, p)

(* Mutant: Deezer's preview is looked at before Spotify's.                 *)
PreviewDeezerFirst ==
    IF HasRaw("apple_music") /\ HasText(ApplePreviews) THEN ApplePreviews
    ELSE IF HasRaw("deezer") /\ HasText(DeezerPreview) THEN DeezerPreview
    ELSE IF HasRaw("spotify") /\ HasText(SpotifyPreview) THEN SpotifyPreview
    ELSE NoUrl

PreviewSource ==
    IF HasRaw("apple_music") /\ HasText(ApplePreviews) THEN ApplePreviews
    ELSE IF HasRaw("spotify") /\ HasText(SpotifyPreview) THEN SpotifyPreview
    ELSE IF HasRaw("deezer") /\ HasText(DeezerPreview) THEN DeezerPreview
    ELSE NoUrl

(* What a getter finds when it is called for the first time.               *)
Fresh(i, g) ==
    IF kind = "enterprise" \/ g = "thumbnail" THEN Redirect(i, g)
    ELSE IF g \in Providers THEN StreamingUrl(g)
    ELSE IF <<"copy", 0, g>> \in failed THEN NoUrl ELSE PreviewSource

-----------------------------------------------------------------------------
(* The inputs.                                                             *)

Arrays == UNION {[1 .. n -> {"object", "other"}] : n \in 0 .. MaxEntries}

Few(k) == {[f \in UrlFields |-> IF f \in on THEN val[f] ELSE "absent"] :
              on \in {x \in SUBSET UrlFields : Cardinality(x) <= k},
              val \in [UrlFields -> {"empty", "text"}]}

Recognitions(k, arrays) ==
    [result : {"object"}, link : {"lis", "other", "absent"}, urls : Few(k),
     musicbrainz : arrays]

(* No match, and a "result" that is no object.                             *)
NotObjects ==
    [result : {"null", "other"}, link : {"absent"}, urls : Few(0),
     musicbrainz : {<<>>}]

NoOffset == [type |-> "absent", text |-> <<>>]
Offsets == {NoOffset, [type |-> "string", text |-> <<"30">>],
            [type |-> "number", text |-> <<"7">>]}

OffsetTexts ==
    {t \in UNION {[1 .. n -> DOMAIN Numbers \cup {"colon", "blank", "other"}] :
                     n \in 0 .. MaxTokens} :
        \A i \in 1 .. Len(t) - 1 : ~(IsNumber(t[i]) /\ IsNumber(t[i + 1]))}

Chunks == [songs : Arrays, offset : Offsets] \cup {NoSongs}
NoStart == [type |-> "absent", val |-> 0]
StartNodes == [type : NodeTypes, val : {0, 1, 500, 5000}]
OneSong(offset) == <<[songs |-> <<"object">>, offset |-> offset]>>

ChunkLists ==
    [chunks : UNION {[1 .. n -> Chunks] : n \in 0 .. 2}, start : {NoStart},
     link : {"lis"}]
ChunkTexts ==
    {[chunks |-> OneSong([type |-> "string", text |-> t]), start |-> NoStart,
      link |-> "other"] : t \in OffsetTexts}
ChunkStarts ==
    {[chunks |-> OneSong(o), start |-> n, link |-> l] :
        o \in Offsets, n \in StartNodes, l \in {"lis", "other"}}

Callbacks ==
    [body : {"no out", "empty", "junk", "json"}, notification : BOOLEAN,
     results : Arrays]

(* What may run out of memory.                                             *)
MayFail(k) ==
    CASE k = "recognition" ->
            Members("recognition", 0, RecognitionStrings \cup
                        {"self", "raw_obj", "raw_response_str"})
            \cup Members("apple_music", 0, parse_apple_music \cup {"self"})
            \cup Members("spotify", 0, parse_spotify \cup {"self"})
            \cup Members("deezer", 0, parse_deezer \cup {"self"})
            \cup Members("napster", 0, parse_napster \cup {"self"})
            \cup Members("musicbrainz", 0, {"items"})
            \cup Members("musicbrainz", 1, {"id", "title", "score"})
            \cup Members("copy", 0, UrlGetters)
            \cup Members("redirect", 0, UrlGetters)
      [] k = "enterprise" ->
            Members("enterprise", 0, {"self", "items"})
            \cup (UNION {Members("enterprise", i, match_from_json) : i \in 1 .. 2})
            \cup Members("offset", 1, {"text"})
            \cup Members("redirect", 1, {"spotify", "thumbnail"})
      [] k = "streams" ->
            Members("streams", 0, {"self", "items"})
            \cup Members("streams", 1, {"url", "longpoll_category"})
      [] k = "lyrics" ->
            Members("lyrics", 0, {"self", "items"})
            \cup Members("lyrics", 2, {"artist", "lyrics", "song_link"})
      [] OTHER ->
            {Self("message"), Self("root"), Self("notification"),
             <<"notification", 0, "raw_response">>}
            \cup Members("match", 0, {"self", "items", "timestamp", "raw_response"})
            \cup UNION {Members("match.song", i, parse_song) : i \in 0 .. 1}

AtMostOne(k) == {{}} \cup {{b} : b \in MayFail(k)}

(* Getters are called on results of little variety, long lists and offsets *)
(* are only built and freed: calls says how many calls are used up.        *)
Init ==
    /\ \/ /\ kind = "recognition" /\ calls = 0
          /\ \/ wire \in Recognitions(2, {<<>>}) /\ failed = {}
             \/ /\ wire \in Recognitions(1, {<<"object", "other">>})
                /\ failed \in AtMostOne(kind)
       \/ /\ kind = "enterprise" /\ calls = 0
          /\ wire \in ChunkStarts /\ failed \in AtMostOne(kind)
       \/ /\ calls = MaxCalls
          /\ \/ /\ kind = "recognition" /\ failed = {}
                /\ wire \in Recognitions(0, Arrays) \cup NotObjects
             \/ kind = "enterprise" /\ wire \in ChunkTexts /\ failed = {}
             \/ kind = "enterprise" /\ wire \in ChunkLists /\ failed \in AtMostOne(kind)
             \/ /\ kind \in {"streams", "lyrics"}
                /\ wire \in Arrays /\ failed \in AtMostOne(kind)
             \/ kind = "callback" /\ wire \in Callbacks /\ failed \in AtMostOne(kind)
    /\ pc = "parse"
    /\ heap = {} /\ err = "OK" /\ items = <<>> /\ room = 0
    /\ cache = [x \in {} |-> NoUrl]
    /\ aux = [x \in {} |-> ""]
    /\ answers = {} /\ lost = {}

-----------------------------------------------------------------------------
(* The steps.                                                              *)

Built ==
    CASE kind = "recognition" -> Recognized(wire)
      [] kind = "enterprise"  -> audd_enterprise_from_json(wire)
      [] kind = "streams"     -> audd_streams_list(wire)
      [] kind = "lyrics"      -> audd_advanced_find_lyrics(wire)
      [] OTHER                -> audd_parse_callback(wire)

Parse ==
    /\ pc = "parse"
    /\ heap' = Built.blocks
    /\ err' = Built.err
    /\ items' = Built.items
    /\ room' = Built.room
    /\ pc' = "use"
    /\ UNCHANGED <<kind, wire, failed, cache, aux, answers, lost, calls>>

(* What the caller was given.                                              *)
Out ==
    {Self(x) : x \in {"recognition", "enterprise", "streams", "lyrics", "match",
                      "notification"}} \cap heap

Answer(i, g, a, starved) ==
    /\ answers' = answers \cup {<<i, g, a, starved>>}
    /\ calls' = calls + 1
    /\ UNCHANGED <<kind, wire, failed, pc, err, items, room>>

With(f, x, v) == [y \in DOMAIN f \cup {x} |-> IF y = x THEN v ELSE f[y]]

(* A getter looks once and keeps what it found, a NULL too.                *)
AskUrl(i, g) ==
    LET asked == <<i, g>> \in DOMAIN cache
        a     == IF asked THEN cache[<<i, g>>] ELSE Fresh(i, g)
        kept  == IF asked \/ a = NoUrl THEN {} ELSE {<<Holder, i, g>>}
    IN  /\ Answer(i, g, a, FALSE)
        /\ cache' = With(cache, <<i, g>>, a)
        /\ heap' = heap \cup kept
        /\ lost' = lost \cup (heap \cap kept)
        /\ UNCHANGED aux

(* audd_recognition_thumbnail_url, _streaming_url and _preview_url.        *)
AskRecognition(g) ==
    /\ pc = "use" /\ calls < MaxCalls
    /\ kind = "recognition" /\ Out # {}
    /\ AskUrl(0, g)

(* audd_enterprise_match_thumbnail_url and _streaming_url.                 *)
AskMatch(i, g) ==
    /\ pc = "use" /\ calls < MaxCalls
    /\ kind = "enterprise" /\ g # "preview"
    /\ AskUrl(i, g)

(* audd_recognition_extra: the printed field is kept as a child of raw_obj.*)
(* When there is no memory for it nothing is kept: the next call tries     *)
(* again.                                                                  *)
AskExtra(key, memory) ==
    LET new   == /\ <<"recognition", 0, "raw_obj">> \in heap
                 /\ key \notin TypedKeys
                 /\ AuxKey(key) \notin DOMAIN aux
        now   == IF new /\ memory THEN With(aux, AuxKey(key), key) ELSE aux
    IN  /\ pc = "use" /\ calls < MaxCalls
        /\ kind = "recognition" /\ Out # {}
        /\ aux' = now
        /\ heap' = IF new /\ memory THEN heap \cup {<<"aux", 0, AuxKey(key)>>}
                   ELSE heap
        /\ Answer(0, key,
                  IF key \notin TypedKeys /\ AuxKey(key) \in DOMAIN now
                  THEN <<now[AuxKey(key)]>> ELSE NoUrl,
                  new /\ ~memory)
        /\ UNCHANGED <<cache, lost>>

(* The caller frees what it was given, NULL included, and the message.     *)
Free ==
    /\ pc = "use"
    /\ heap' = heap \ ({Self("message")} \cup
                (CASE kind = "recognition" -> audd_recognition_free
                   [] kind = "enterprise"  -> audd_enterprise_result_free
                   [] kind = "streams"     -> audd_stream_list_free
                   [] kind = "lyrics"      -> audd_lyrics_list_free
                   [] OTHER -> audd_stream_callback_match_free \cup
                               audd_stream_callback_notification_free))
    /\ pc' = "freed"
    /\ UNCHANGED <<kind, wire, failed, err, items, room, cache, aux, answers,
                   lost, calls>>

Next ==
    \/ Parse
    \/ \E g \in UrlGetters : AskRecognition(g)
    \/ \E i \in DOMAIN items, g \in UrlGetters : AskMatch(i, g)
    \/ \E key \in ExtraKeys, memory \in BOOLEAN : AskExtra(key, memory)
    \/ Free
    \/ pc = "freed" /\ UNCHANGED vars

Spec == Init /\ [][Next]_vars

-----------------------------------------------------------------------------
(* Properties.                                                             *)

TypeOK ==
    /\ kind \in {"recognition", "enterprise", "streams", "lyrics", "callback"}
    /\ pc \in {"parse", "use", "freed"}
    /\ err \in Errors
    /\ heap \cap failed = {}
    /\ \A j \in DOMAIN items : items[j].entry \in 1 .. MaxEntries
    /\ room \in Nat
    /\ calls \in 0 .. MaxCalls

(* No getter overwrites a block that is in use, a call that fails keeps    *)
(* nothing but its message, and freeing a result frees all of it, whatever *)
(* could not be allocated: the strings a parser copies and the strings its *)
(* free function knows are listed by hand, for ten structures.             *)
ResultOwned ==
    /\ lost = {}
    /\ pc = "use" /\ err # "OK" => heap \subseteq {Self("message")}
    /\ pc = "freed" => heap = {}

(* An answer whose "result" says that nothing was recognised.              *)
NoMatch == kind = "recognition" /\ wire.result = "null"

(* A call reports success exactly when the caller gets a result, one of    *)
(* the two a callback may give, or nothing was recognised; out of memory   *)
(* only when memory ran out or the recognition's "result" is no object     *)
(* (which the code reports so, against the name of the error);             *)
(* a bad body only for one that is neither result nor notification (or     *)
(* for which no JSON tree could be had); and lost strings never turn an    *)
(* answer into an error.                                                   *)
OutcomeHonest ==
    pc = "use" =>
        /\ (err = "OK") = (Out # {} \/ NoMatch)
        /\ NoMatch => Out = {}
        /\ Cardinality(Out) <= 1
        /\ err = "OUT_OF_MEMORY" =>
              \/ \E b \in failed : b[2] = 0 /\ b[3] \in {"self", "items"}
              \/ kind = "recognition" /\ wire.result = "other"
        /\ err = "SERIALIZATION" =>
              \/ wire.body # "json" \/ Self("root") \in failed
              \/ ~wire.notification /\ wire.results = <<>>
        /\ kind = "callback" /\ err = "OK" =>
              (Self("notification") \in heap) = wire.notification

(* The places of the objects on the wire, over all its arrays.             *)
ObjectsAt(chunk, entries) ==
    {<<chunk, j>> : j \in {k \in DOMAIN entries : entries[k] = "object"}}

WireObjects ==
    CASE kind = "enterprise" ->
            UNION {ObjectsAt(i, SongsOf(wire.chunks[i])) :
                      i \in DOMAIN wire.chunks}
      [] kind = "recognition" -> ObjectsAt(1, wire.musicbrainz)
      [] OTHER -> ObjectsAt(1, wire)

Precedes(x, y) ==
    x.chunk < y.chunk \/ (x.chunk = y.chunk /\ x.entry < y.entry)

(* Where an enterprise match starts in the caller's file: the chunk's      *)
(* offset as documented plus the fragment's milliseconds.  Offsets of more *)
(* than three components and integers wider than an int are left out.      *)
StartRight(item) ==
    LET offset == wire.chunks[item.chunk].offset
        times  == Readings(offset.text)
        none   == \/ offset.type \in {"absent", "container"}
                  \/ /\ offset.type \in {"number", "bool"}
                     /\ <<"offset", item.chunk, "text">> \in failed
        ms     == IF wire.start.type \in {"number", "string", "bool"}
                  THEN wire.start.val ELSE 0
    IN  ~TooManyParts(offset.text) /\ -IntLimit <= ms /\ ms < IntLimit =>
            IF none \/ times = {} THEN item.start = 1000 * Unknown
            ELSE \E at \in times :
                    item.start = 1000 * SecondsAt(offset.text, at) + ms

(* A list holds the objects of its wire arrays, all of them, in order,     *)
(* without a hole, within the memory allocated for it, and an enterprise   *)
(* match starts where its own chunk says.                                  *)
ListsInPlace ==
    pc = "use" /\ err = "OK" /\ kind # "callback"
               /\ (kind = "recognition" => room > 0) =>
        /\ {<<items[j].chunk, items[j].entry>> : j \in DOMAIN items} = WireObjects
        /\ \A j, k \in DOMAIN items : j < k => Precedes(items[j], items[k])
        /\ Len(items) <= room
        /\ kind = "enterprise" => \A j \in DOMAIN items : StartRight(items[j])

(* Where each getter may take its URL from, the best first.                *)
Sources(g) ==
    CASE g = "apple_music" -> <<AppleUrl>>
      [] g = "spotify"     -> <<SpotifyExternal, SpotifyUri>>
      [] g = "deezer"      -> <<DeezerLink>>
      [] g = "napster"     -> <<NapsterHref>>
      [] g = "preview"     -> <<ApplePreviews, SpotifyPreview, DeezerPreview>>
      [] OTHER             -> <<>>

Offered(g) ==
    {k \in DOMAIN Sources(g) : kind = "recognition" /\ HasText(Sources(g)[k])}

Expected(i, g) ==
    IF Offered(g) # {} THEN Sources(g)[Min(Offered(g))]
    ELSE IF g # "preview" /\ wire.link = "lis" THEN <<Holder, i, "song_link">>
    ELSE NoUrl

(* What a getter may answer for lack of memory.                            *)
Lesser(i, g) ==
    {NoUrl, <<Holder, i, "song_link">>} \cup {Sources(g)[k] : k \in Offered(g)}

(* A getter answers what the metadata and the song link call for, the same *)
(* on every call, and what it returned stays allocated until the result is *)
(* freed; without memory it may fall back to the redirect or to NULL, but  *)
(* never to another provider.  An extra is the field of that name, unless  *)
(* two names agree in their first 115 characters; one that ran out of      *)
(* memory is NULL, and it alone may answer otherwise than another call.    *)
(* (An empty external_urls.spotify hides the uri: left out.)               *)
AnswersTrue ==
    /\ \A x, y \in answers :
          x[1] = y[1] /\ x[2] = y[2] /\ x[4] = y[4] => x[3] = y[3]
    /\ \A x \in answers :
          IF x[2] \in ExtraKeys
          THEN \/ x[2] \in {"long_a", "long_b"}
               \/ x[3] = <<x[2]>> /\ x[2] \notin TypedKeys /\ ~x[4]
               \/ /\ x[3] = NoUrl
                  /\ \/ x[2] \in TypedKeys \/ x[4]
                     \/ <<"recognition", 0, "raw_obj">> \in failed
          ELSE /\ \/ x[3] = Expected(x[1], x[2])
                  \/ failed # {} /\ x[3] \in Lesser(x[1], x[2])
                  \/ kind = "recognition" /\ x[2] = "spotify" /\
                     wire.urls[SpotifyExternal] = "empty"
               /\ pc = "use" /\ x[3] # NoUrl => <<Holder, x[1], x[2]>> \in heap
=============================================================================
