------------------------------ MODULE FormBody ------------------------------
(***************************************************************************)
(* Request::uri_decode, and the parser of application/x-www-form-urlencoded *)
(* bodies that DbHandler and PythonHandler both contain.                   *)
(*                                                                         *)
(* A text is a sequence of tokens.  "/", ".", "=", "&", "+", " " and "nul" *)
(* are single characters, any other plain token is a name.  "%26" and the  *)
(* like are the three characters of an escape; "%?" is a percent sign that *)
(* no hexadecimal digit and second character follow.                       *)
(***************************************************************************)
EXTENDS Naturals, Sequences, SequencesExt

\* What the escapes that occur stand for.
Escapes == {<<"%20", " ">>, <<"%25", "%">>, <<"%26", "&">>, <<"%2B", "+">>,
            <<"%2E", ".">>, <<"%2F", "/">>, <<"%3D", "=">>, <<"%00", "nul">>}

Malformed == "%?"

IsEscape(c) == \E e \in Escapes : e[1] = c

Decoded(c) ==
  CASE IsEscape(c) -> (CHOOSE e \in Escapes : e[1] = c)[2]
    [] c = "+"     -> " "
    [] OTHER       -> c

\* uri_decode returns false, or true and this in `out`.
Decodes(in) == \A i \in 1..Len(in) : in[i] # Malformed

\* Mutant: a plus sign is left as it is.
uri_decode_KeepsPlus(in) ==
  [i \in 1..Len(in) |-> IF in[i] = "+" THEN "+" ELSE Decoded(in[i])]

uri_decode(in) == [i \in 1..Len(in) |-> Decoded(in[i])]

\* in.size(), where a name counts as one character.
Characters(in) == FoldLeft(LAMBDA n, c : n + (IF IsEscape(c) THEN 3 ELSE 1), 0, in)

\* find_last_of; 0 is npos.
LastOf(s, c) == Max({0} \cup {i \in 1..Len(s) : s[i] = c})

\* The characters c_str() shows.
c_str(s) ==
  LET nuls == {i \in 1..Len(s) : s[i] = "nul"}
  IN  IF nuls = {} THEN s ELSE SubSeq(s, 1, Min(nuls) - 1)

-----------------------------------------------------------------------------
(***************************************************************************)
(* ParseBody.  The regular expression wants a name, an equals sign and a   *)
(* value without white space; the greedy name goes up to the LAST equals   *)
(* sign, and is not decoded.                                               *)
(***************************************************************************)
Equals(text) == LastOf(text, "=")

Matches(text) ==
  /\ Equals(text) > 1
  /\ \A i \in 1..Len(text) : text[i] # " "
  /\ Decodes(SubSeq(text, Equals(text) + 1, Len(text)))

Pair(text) ==
  [name  |-> SubSeq(text, 1, Equals(text) - 1),
   value |-> uri_decode(SubSeq(text, Equals(text) + 1, Len(text)))]

\* A sub-body ends at an ampersand.
Scan(acc, c) ==
  IF c = "&" THEN [done |-> Append(acc.done, c_str(acc.sub)), sub |-> <<>>]
             ELSE [acc EXCEPT !.sub = Append(@, c)]

\* body[body.size()] ends the last sub-body as an ampersand would.
SubBodies(body) ==
  FoldLeft(Scan, [done |-> <<>>, sub |-> <<>>], Append(body, "&")).done

\* ParseBody returns true iff every sub-body is a pair, and decoded_body is
\* then this.
Parses(body) == \A i \in 1..Len(SubBodies(body)) : Matches(SubBodies(body)[i])

decoded_body(body) ==
  [i \in 1..Len(SubBodies(body)) |-> Pair(SubBodies(body)[i])]

-----------------------------------------------------------------------------
(***************************************************************************)
(* The browser's side: a form is a sequence of names and values, each      *)
(* encoded character by character.                                         *)
(***************************************************************************)
Encoded(c) ==
  CASE c = " " -> "+"
    [] c \in {"%", "&", "+", "=", "/", "nul"} -> (CHOOSE e \in Escapes : e[2] = c)[1]
    [] OTHER -> c

Encode(s) == [i \in 1..Len(s) |-> Encoded(s[i])]

FormField(f) == Encode(f.name) \o <<"=">> \o Encode(f.value)

Join(body, f) ==
  body \o (IF body = <<>> THEN <<>> ELSE <<"&">>) \o FormField(f)

FormBodyOf(form) == FoldLeft(Join, <<>>, form)
=============================================================================
