----------------------------------- MODULE Uri -----------------------------------
(***************************************************************************)
(* Locations (backend/src/uri.rs): the path a location of the provider's   *)
(* scheme stands for, and the location of a path.                          *)
(*                                                                         *)
(* Characters are those that matter: the slash, the dot, the percent sign, *)
(* and hexadecimal digits that encode these three after a 2.  In a path    *)
(* "x" stands for the characters that uri() encodes, and "u" for all those *)
(* that it does not.                                                       *)
(***************************************************************************)
EXTENDS Naturals, Sequences, SequencesExt

Alphabet == {"/", ".", "%", "2", "5", "e", "f"}
Digits == {"2", "5", "e", "f"}

Refused == <<"refused">>

-----------------------------------------------------------------------------
(* percent_decode_str: what the two digits after a percent sign stand for. *)
(* Bytes from 80 on are no UTF-8 here.                                     *)
Byte(high, low) ==
    IF high = "2" THEN (IF low = "e" THEN "." ELSE IF low = "f" THEN "/"
                        ELSE IF low = "5" THEN "%" ELSE "x")
    ELSE IF high = "5" THEN (IF low = "e" THEN "x" ELSE "u")
    ELSE "invalid"

Escape(s, i) == s[i] = "%" /\ i + 2 <= Len(s) /\ s[i + 1] \in Digits /\ s[i + 2] \in Digits

(* One decoding, which leaves a percent sign without digits as it is.      *)
Decode(s) ==
    LET rest[i \in 1 .. Len(s) + 3] ==
            IF i > Len(s) THEN <<>>
            ELSE IF Escape(s, i) THEN <<Byte(s[i + 1], s[i + 2])>> \o rest[i + 3]
            ELSE <<s[i]>> \o rest[i + 1]
    IN  rest[1]

(* A name that means something else than itself to a file system.          *)
Traversal(name) == name = <<".">> \/ name = <<".", ".">> \/ Contains(name, "/")

(* Mutant of Nested: a second decoding is not thought of.                  *)
NestedNever(name, turns) == FALSE

(* Whether a decoding of the name, and of what it gives, leads to such a   *)
(* name: it is repeated until nothing changes, at most `turns` times.      *)
Nested(name, turns) ==
    LET again[n \in 0 .. turns] == IF n = 0 THEN name ELSE Decode(again[n - 1])
    IN  \E n \in 1 .. turns :
            /\ again[n] # again[n - 1]
            /\ Traversal(again[n])

Decoded(segment) ==
    LET name == Decode(segment) IN
    IF \/ \E i \in 1 .. Len(segment) : segment[i] = "%" /\ ~Escape(segment, i)
       \/ Contains(name, "invalid") \/ Traversal(name) \/ Nested(name, Len(segment))
    THEN Refused ELSE name

(* The parts between the slashes, the empty ones included.                 *)
Split(s) ==
    FoldLeft(LAMBDA parts, char :
                 IF char = "/" THEN Append(parts, <<>>)
                 ELSE [parts EXCEPT ![Len(parts)] = Append(@, char)],
             << <<>> >>, s)

Join(parts) ==
    FoldLeft(LAMBDA s, part : IF s = <<"/">> THEN part ELSE s \o <<"/">> \o part, <<"/">>, parts)

(* path(): what follows "opendal:/".  Only the last part may be empty: the *)
(* root, or a directory.                                                   *)
Path(raw) ==
    LET parts == Split(raw)
        names == [i \in 1 .. Len(parts) |-> IF parts[i] = <<>> THEN <<>> ELSE Decoded(parts[i])]
    IN  IF \/ \E i \in 1 .. Len(parts) - 1 : parts[i] = <<>>
           \/ Contains(names, Refused)
        THEN Refused ELSE Join(names)

(* Mutant of Location: the percent sign is left alone.                     *)
LocationPlain(path) == path

(* uri(): special characters of every part are encoded.                    *)
Location(path) ==
    FoldLeft(LAMBDA s, char : s \o IF char = "%" THEN <<"%", "2", "5">>
                                   ELSE IF char = "x" THEN <<"%", "2", "2">> ELSE <<char>>,
             <<>>, path)

(* non_root(): the path of what may be changed, without a slash at its end.*)
NonRoot(path) ==
    IF path \in {<<>>, <<"/">>} THEN Refused
    ELSE IF Last(path) = "/" THEN Front(path) ELSE path

-----------------------------------------------------------------------------
(* Properties, of a location that is received and of a name that a remote  *)
(* returns.                                                                *)

(* However often a part of an accepted path is decoded again on its way    *)
(* through a backend, it never becomes a traversal or two parts, and the   *)
(* location that the plugin returns for a path, or for what a change of it *)
(* works on, leads back to it.                                             *)
PathIsSafe(raw) ==
    LET path == Path(raw)
        again[n \in 0 .. Len(raw)] == IF n = 0 THEN Split(path)
                                      ELSE [i \in DOMAIN again[n - 1] |-> Decode(again[n - 1][i])]
    IN  path # Refused =>
            /\ \A n \in 0 .. Len(raw) : \A i \in DOMAIN again[n] : ~Traversal(again[n][i])
            /\ Path(Location(path)) = path
            /\ path # <<>> => Path(Location(NonRoot(path))) = NonRoot(path)

(* An entry that the backend lists is accepted under its own name, or not  *)
(* at all.                                                                 *)
NameIsKept(name) == Path(Location(name)) \in {name, Refused}
=============================================================================
