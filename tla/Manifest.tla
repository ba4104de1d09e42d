------------------------------ MODULE Manifest ------------------------------
(***************************************************************************)
(* The manifests of botpkg (services/botpkg/src/manifest.c): what the      *)
(* repository serves is parsed, written to the database when the package   *)
(* is installed, and parsed again by list, remove and the resolver.        *)
(*                                                                         *)
(* A text is a sequence of characters without blanks.  The keys are one    *)
(* letter, n, v and d; the description, the author and the digest are read *)
(* and written as the version is.                                          *)
(***************************************************************************)
EXTENDS Integers, Sequences, SequencesExt

CONSTANTS
    Char,           \* characters
    Release,        \* what manifests of the repository say
    NameRoom, VersionRoom, DepRoom,     \* sizes of the fields (64, 32, 64)
    MaxDeps,        \* MANIFEST_MAX_DEPS
    JsonBase, JsonPerDep,   \* what manifest_to_json allocates (512, and 80 a dependency)
    Number          \* an item of the dependencies that is not a string

VARIABLES
    said,           \* the package as its author meant it
    order,          \* of the keys in its manifest
    text,           \* the manifest
    parsed,         \* the package, of the last parse
    copy,           \* the package that was installed
    stage           \* served, installing, refused, corrupt, installed, listed

manifestVars == <<said, order, text, parsed, copy, stage>>

Quote == "\""
Slash == "\\"
Colon == ":"
Comma == ","
LBracket == "["
RBracket == "]"
LBrace == "{"
RBrace == "}"

(* Values are texts, and a dependency may be a number; every field of the  *)
(* parser holds a text of one character and the byte that ends it, which   *)
(* its default version is.                                                 *)
ManifestAssumption ==
    /\ {Quote, Slash, Colon, Comma, LBracket, RBracket, LBrace, RBrace} \subseteq Char
    /\ {"n", "v", "d", "LF", "0", "1"} \subseteq Char
    /\ Number \notin Seq(Char)
    /\ Release \subseteq [name : Seq(Char), version : Seq(Char), deps : Seq({Number} \cup Seq(Char))]
    /\ NameRoom \in Nat \ {0, 1} /\ VersionRoom \in Nat \ {0, 1}
    /\ DepRoom \in Nat \ {0} /\ MaxDeps \in Nat
    /\ JsonBase \in Nat \ {0} /\ JsonPerDep \in Nat

ASSUME ManifestAssumption

Failed == [name |-> <<>>, version |-> <<>>, deps |-> <<>>]

(* The scan of the dependencies goes on for ever.                          *)
Hangs == [name |-> <<>>, version |-> <<>>, deps |-> <<Number>>]

-----------------------------------------------------------------------------
(***************************************************************************)
(* What a well-formed manifest looks like.                                 *)
(***************************************************************************)
Escaped(ch) == CASE ch \in {Quote, Slash} -> <<Slash, ch>> [] ch = "LF" -> <<Slash, "n">>
                 [] OTHER -> <<ch>>

Written(value) == <<Quote>> \o FlattenSeq([k \in DOMAIN value |-> Escaped(value[k])]) \o <<Quote>>

(* Parts with commas between them.                                         *)
Listed(parts) ==
    FlattenSeq([k \in DOMAIN parts |-> IF k = 1 THEN parts[k] ELSE <<Comma>> \o parts[k]])

Entry(p, key) ==
    <<Quote, key, Quote, Colon>> \o
        CASE key = "n" -> Written(p.name)
          [] key = "v" -> Written(p.version)
          [] key = "d" -> <<LBracket>> \o Listed([k \in DOMAIN p.deps |->
                              IF p.deps[k] = Number THEN <<"1">> ELSE Written(p.deps[k])]) \o <<RBracket>>

ManifestInit ==
    /\ said \in Release
    /\ order \in {<<"n", "v", "d">>, <<"d", "v", "n">>}
    /\ text = <<LBrace>> \o Listed([k \in 1 .. 3 |-> Entry(said, order[k])]) \o <<RBrace>>
    /\ parsed = Failed /\ copy = Failed /\ stage = "served"

-----------------------------------------------------------------------------
(***************************************************************************)
(* The parser.                                                             *)
(***************************************************************************)
Unescaped(ch) == IF ch = "n" THEN "LF" ELSE ch

(* The value that starts at the quote t[k], as far as there is room for    *)
(* it, and where the reader stands after that.                             *)
json_read_string(t, k, room) ==
    LET reading[at \in (k + 1 .. Len(t) + 2) \X (0 .. room - 1)] ==
            LET j == at[1]      \* where it stands
                n == at[2]      \* how many it has
            IN  IF j > Len(t) \/ t[j] = Quote \/ n = room - 1
                THEN [value |-> <<>>, next |-> IF j <= Len(t) /\ t[j] = Quote THEN j + 1 ELSE j]
                ELSE LET pair == t[j] = Slash /\ j < Len(t)
                         rest == reading[<<IF pair THEN j + 2 ELSE j + 1, n + 1>>]
                     IN  [rest EXCEPT !.value = <<IF pair THEN Unescaped(t[j + 1]) ELSE t[j]>> \o @]
    IN  reading[<<k + 1, 0>>]

(* Mutant of json_find_key: a value that looks like the key is taken for it. *)
FindKeyAny(t, key) ==
    LET here(j) == j + 2 <= Len(t) /\ SubSeq(t, j, j + 2) = <<Quote, key, Quote>>
        found   == {j \in 1 .. Len(t) : here(j)}
    IN  IF found = {} THEN 0 ELSE (CHOOSE j \in found : \A l \in found : j <= l) + 4

(* Where the value of a key is, or 0: behind the first quoted key that a   *)
(* colon follows.                                                          *)
json_find_key(t, key) ==
    LET here(j) == j + 2 <= Len(t) /\ SubSeq(t, j, j + 2) = <<Quote, key, Quote>>
        from[j \in 1 .. Len(t) + 3] ==
            IF j > Len(t) THEN 0
            ELSE IF ~here(j) THEN from[j + 1]
            ELSE IF j + 3 <= Len(t) /\ t[j + 3] = Colon THEN j + 4 ELSE from[j + 3]
    IN  from[1]

json_get_string(t, key, room) ==
    LET k == json_find_key(t, key)
    IN  IF k \in 1 .. Len(t) /\ t[k] = Quote THEN json_read_string(t, k, room).value ELSE <<>>

(* The items, up to MaxDeps.  A round of the loop reads an item if a quote *)
(* is there, and passes one comma; when it does neither it never ends.     *)
json_get_string_array(t, key) ==
    LET k == json_find_key(t, key)
        items[at \in (1 .. Len(t) + 2) \X (0 .. MaxDeps)] ==
            LET j == at[1]
                n == at[2]
            IN  IF j > Len(t) \/ t[j] = RBracket \/ n = MaxDeps THEN <<>>
                ELSE LET item == json_read_string(t, j, DepRoom)
                         past == IF t[j] = Quote THEN item.next ELSE j
                         next == IF past <= Len(t) /\ t[past] = Comma THEN past + 1 ELSE past
                     IN  IF next = j THEN <<Number>>
                         ELSE IF t[j] = Quote THEN <<item.value>> \o items[<<next, n + 1>>]
                         ELSE items[<<next, n>>]
    IN  IF k \in 1 .. Len(t) /\ t[k] = LBracket THEN items[<<k + 1, 0>>] ELSE <<>>

manifest_parse_string(t) ==
    LET deps    == json_get_string_array(t, "d")
        version == json_get_string(t, "v", VersionRoom)
        name    == json_get_string(t, "n", NameRoom)
    IN  IF name = <<>> THEN Failed
        ELSE IF Number \in {deps[k] : k \in DOMAIN deps} THEN Hangs
        ELSE [name |-> name, version |-> IF version = <<>> THEN <<"0">> ELSE version,
              deps |-> deps]

(* The package as text again; nothing is escaped.                          *)
json_text(p) ==
    LET raw(value) == <<Quote>> \o value \o <<Quote>>
    IN  <<LBrace, Quote, "n", Quote, Colon>> \o raw(p.name)
          \o <<Comma, Quote, "v", Quote, Colon>> \o raw(p.version)
          \o <<Comma, Quote, "d", Quote, Colon, LBracket>> \o Listed([k \in DOMAIN p.deps |-> raw(p.deps[k])])
          \o <<RBracket, RBrace>>

(* What is allocated for it, with the byte that ends it.                   *)
json_size(p) == JsonBase + Len(p.deps) * JsonPerDep

Whole(p) == Len(json_text(p)) < json_size(p)

manifest_to_json(p) ==
    IF Whole(p) THEN json_text(p) ELSE SubSeq(json_text(p), 1, json_size(p) - 1)

(* Before its last call of snprintf, which writes "]}", it is behind the   *)
(* end of what was allocated: the room that is left is a negative number   *)
(* taken for a large one.                                                  *)
Overruns(p) == Len(json_text(p)) - 2 > json_size(p)

(* An install parses what was served.                                      *)
manifest_parse ==
    /\ stage = "served"
    /\ parsed' = manifest_parse_string(text)
    /\ stage' = IF parsed' \in {Failed, Hangs} THEN "listed" ELSE "installing"
    /\ UNCHANGED <<said, order, text, copy>>

db_register_package ==
    /\ stage = "installing"
    /\ text' = manifest_to_json(parsed) /\ copy' = parsed /\ stage' = "installed"
    /\ UNCHANGED <<said, order, parsed>>

(* Nothing is written: no directory, no memory or no file for it.          *)
not_registered ==
    /\ stage = "installing"
    /\ stage' = "refused"
    /\ UNCHANGED <<said, order, text, parsed, copy>>

(* Writing behind the buffer is undefined; nothing is said of what follows. *)
json_overrun ==
    /\ stage = "installing" /\ Overruns(parsed)
    /\ stage' = "corrupt"
    /\ UNCHANGED <<said, order, text, parsed, copy>>

db_find_reverse_dep ==
    /\ stage = "installed"
    /\ parsed' = manifest_parse_string(text) /\ stage' = "listed"
    /\ UNCHANGED <<said, order, text, copy>>

ManifestNext ==
    manifest_parse \/ db_register_package \/ not_registered \/ json_overrun \/ db_find_reverse_dep

ManifestSpec == ManifestInit /\ [][ManifestNext]_manifestVars

-----------------------------------------------------------------------------
Cut(value, room) == SubSeq(value, 1, IF Len(value) < room THEN Len(value) ELSE room - 1)

(* What can be said of the package: fields are cut to their room, but a    *)
(* dependency must fit, and be a string.                                   *)
Fits(p) == \A k \in DOMAIN p.deps : p.deps[k] # Number /\ Len(p.deps[k]) < DepRoom

Meant(p) ==
    IF p.name = <<>> THEN Failed
    ELSE [name |-> Cut(p.name, NameRoom),
          version |-> IF p.version = <<>> THEN <<"0">> ELSE Cut(p.version, VersionRoom),
          deps |-> SubSeq(p.deps, 1, IF Len(p.deps) < MaxDeps THEN Len(p.deps) ELSE MaxDeps)]

ParsedIsMeant ==
    Fits(said) => /\ stage = "installing" => parsed = Meant(said)
                  /\ stage = "listed" /\ copy = Failed => Meant(said) = Failed

Plain(p) ==
    \A value \in {p.name, p.version} \cup {p.deps[k] : k \in DOMAIN p.deps} :
        \A k \in DOMAIN value : value[k] \notin {Quote, Slash}

(* It can be written as it is: nothing to escape, and room for all of it.  *)
Writable(p) == Plain(p) /\ Whole(p)

ReadsBack == stage = "listed" /\ copy # Failed /\ Writable(copy) => parsed = copy

HangDeserved == parsed = Hangs => ~Fits(said) \/ (copy # Failed /\ ~Writable(copy))

(***************************************************************************)
(* A manifest says what its author meant, whatever its values look like,   *)
(* as far as they fit; the database says the same of the package that was  *)
(* installed, unless a value has a quote or a backslash (manifest_to_json  *)
(* escapes nothing) or its fields are longer together than the 512 bytes   *)
(* that manifest_to_json allocates for them (manifest.c:261-266); and      *)
(* reading one comes to its end unless a dependency is too long or not a   *)
(* string, or the database has such a package.                             *)
(***************************************************************************)
ManifestInv == ParsedIsMeant /\ ReadsBack /\ HangDeserved
=============================================================================
